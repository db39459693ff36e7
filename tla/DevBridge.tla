------------------------------- MODULE DevBridge -------------------------------
(* dev/bridge/dev_bridge.cpp: the development bridge inside the game.            *)
(*                                                                             *)
(* One server thread owns a named pipe with one instance and serves one client  *)
(* at a time: it queues the client's request and waits, for 15 s at most, for   *)
(* the game's main thread to pop it in a Tick, run the test and fulfil the      *)
(* promise.  Stop, which the main thread runs at shutdown, tells the server to  *)
(* end, cancels the I/O it is blocked in, connects to the pipe once to wake it, *)
(* and joins it.                                                               *)
(*                                                                             *)
(* Every client is a URKit MCP process in one BridgeClient::Transact: it        *)
(* connects, sends one request and waits for its answer, or is killed.  A       *)
(* request is named by the client that sends it; the test it asks for and the   *)
(* result's contents are left out.                                              *)
EXTENDS Naturals, Sequences, SequencesExt

CONSTANTS Client,
          QueueLimit,    \* 32 in the code
          BatchLimit     \* 8 in the code

ASSUME LimitAssumption == QueueLimit \in Nat \ {0} /\ BatchLimit \in Nat \ {0}

VARIABLES
    server,      \* where the server thread is
    current,     \* the clients it is serving: none or one
    pipe,        \* "none", "listening" (no client yet), "gone" (client closed), or a client
    client,      \* per client "new", "connected", "sent", "read" (by the server), "gone"
    reply,       \* per client, what it was told
    pending,     \* State::pending
    cancelled,   \* the requests with PendingRequest::cancelled
    settled,     \* per request, the values its promise was given, in order
    ran,         \* per request, how often its test was started
    host,        \* where the main thread is: "game", in Tick or in Stop
    batch,       \* what the Tick has popped and not settled
    stopping,    \* State::stopping
    published    \* the discovery record exists

serverVars == <<server, current, pipe, reply>>
hostVars == <<host, batch, stopping, published>>
vars == <<serverVars, client, pending, cancelled, settled, ran, hostVars>>

ServerAt == {"loop", "create", "accept", "connecting", "read", "entering", "reading",
             "waiting", "expired", "late", "close", "exited"}
HostAt == {"game", "tick", "dispatch", "run", "cancel", "wake", "join", "stopped"}
Answer == {"ok", "invalid", "busy", "timeout", "cancelled", "stopping"}

TypeOK ==
    /\ server \in ServerAt
    /\ current \in SUBSET Client
    /\ pipe \in {"none", "listening", "gone"} \cup Client
    /\ client \in [Client -> {"new", "connected", "sent", "read", "gone"}]
    /\ reply \in [Client -> Answer \cup {"none"}]
    /\ pending \in Seq(Client) /\ Len(pending) <= QueueLimit
    /\ cancelled \in SUBSET Client
    /\ settled \in [Client -> Seq(Answer)]
    /\ ran \in [Client -> Nat]
    /\ host \in HostAt
    /\ batch \in Seq(Client) /\ Len(batch) <= BatchLimit
    /\ stopping \in BOOLEAN /\ published \in BOOLEAN

(* Start has published the record and started the thread. *)
Init ==
    /\ server = "loop" /\ current = {} /\ pipe = "none"
    /\ client = [c \in Client |-> "new"]
    /\ reply = [c \in Client |-> "none"]
    /\ pending = <<>> /\ cancelled = {}
    /\ settled = [c \in Client |-> <<>>]
    /\ ran = [c \in Client |-> 0]
    /\ host = "game" /\ batch = <<>>
    /\ stopping = FALSE /\ published = TRUE

-----------------------------------------------------------------------------
(* BridgeClient::Transact, and the process dying in it. *)
ClientSets(c, at) == client' = [client EXCEPT ![c] = at]

Connect(c) ==
    /\ client[c] = "new" /\ published /\ pipe = "listening"
    /\ pipe' = c /\ ClientSets(c, "connected")
    /\ UNCHANGED <<server, current, reply, pending, cancelled, settled, ran, hostVars>>

Send(c) ==
    /\ client[c] = "connected" /\ pipe = c
    /\ ClientSets(c, "sent")
    /\ UNCHANGED <<serverVars, pending, cancelled, settled, ran, hostVars>>

CloseClient(c) ==
    /\ client[c] \in {"connected", "sent", "read"}
    /\ ClientSets(c, "gone")
    /\ pipe' = IF pipe = c THEN "gone" ELSE pipe
    /\ UNCHANGED <<server, current, reply, pending, cancelled, settled, ran, hostVars>>

(* Transact ends: it has its answer, or the server hung up. *)
Finish(c) == (reply[c] # "none" \/ pipe # c) /\ CloseClient(c)

-----------------------------------------------------------------------------
(* ServerMain and ServeClient. *)
GoesTo(from, to) == server = from /\ server' = to

CheckStop ==
    /\ \/ stopping /\ GoesTo("loop", "exited")
       \/ ~stopping /\ GoesTo("loop", "create")
    /\ UNCHANGED <<current, pipe, client, reply, pending, cancelled, settled, ran, hostVars>>

Create ==
    /\ GoesTo("create", "accept") /\ pipe' = "listening"
    /\ UNCHANGED <<current, client, reply, pending, cancelled, settled, ran, hostVars>>

CreateFails ==
    /\ GoesTo("create", "exited")
    /\ UNCHANGED <<current, pipe, client, reply, pending, cancelled, settled, ran, hostVars>>

(* ConnectNamedPipe: blocks on an idle pipe, fails on one whose client has gone. *)
Accept ==
    /\ \/ pipe = "listening" /\ GoesTo("accept", "connecting")
       \/ pipe = "gone" /\ GoesTo("accept", "close")
       \/ pipe \in Client /\ GoesTo("accept", IF stopping THEN "close" ELSE "read")
    /\ UNCHANGED <<current, pipe, client, reply, pending, cancelled, settled, ran, hostVars>>

Connected ==
    /\ pipe # "listening"
    /\ GoesTo("connecting", IF stopping THEN "close" ELSE "read")
    /\ UNCHANGED <<current, pipe, client, reply, pending, cancelled, settled, ran, hostVars>>

(* ReadLine looks at the flag, before each byte, and then blocks in ReadFile. *)
BeginRead ==
    /\ \/ stopping /\ GoesTo("read", "close")
       \/ ~stopping /\ GoesTo("read", "entering")
    /\ UNCHANGED <<current, pipe, client, reply, pending, cancelled, settled, ran, hostVars>>

EnterRead ==
    /\ GoesTo("entering", "reading")
    /\ UNCHANGED <<current, pipe, client, reply, pending, cancelled, settled, ran, hostVars>>

ReadFails ==
    /\ pipe = "gone" /\ GoesTo("reading", "close")
    /\ UNCHANGED <<current, pipe, client, reply, pending, cancelled, settled, ran, hostVars>>

ReadStops(c) ==
    /\ stopping /\ pipe = c /\ client[c] = "sent" /\ GoesTo("reading", "close")
    /\ UNCHANGED <<current, pipe, client, reply, pending, cancelled, settled, ran, hostVars>>

Tells(c, answer) == reply' = [reply EXCEPT ![c] = IF pipe = c THEN answer ELSE @]

(* A line that does not parse, which any client may send, ends the connection;   *)
(* a full queue does not.                                                        *)
RefuseRequest(c) ==
    /\ pipe = c /\ client[c] = "sent" /\ ClientSets(c, "read")
    /\ \/ GoesTo("reading", "close") /\ Tells(c, "invalid")
       \/ Len(pending) >= QueueLimit /\ GoesTo("reading", "read") /\ Tells(c, "busy")
    /\ UNCHANGED <<current, pipe, pending, cancelled, settled, ran, hostVars>>

(* Mutant: the bound lets one more request in. *)
EnqueueOverfull(c) ==
    /\ pipe = c /\ client[c] = "sent" /\ ClientSets(c, "read")
    /\ Len(pending) <= QueueLimit
    /\ GoesTo("reading", "waiting") /\ current' = {c}
    /\ pending' = Append(pending, c)
    /\ UNCHANGED <<pipe, reply, cancelled, settled, ran, hostVars>>

Enqueue(c) ==
    /\ pipe = c /\ client[c] = "sent" /\ ClientSets(c, "read")
    /\ Len(pending) < QueueLimit
    /\ GoesTo("reading", "waiting") /\ current' = {c}
    /\ pending' = Append(pending, c)
    /\ UNCHANGED <<pipe, reply, cancelled, settled, ran, hostVars>>

(* The future is ready within the 15 s. *)
AnswerReady(c) ==
    /\ c \in current /\ settled[c] # <<>>
    /\ GoesTo("waiting", IF pipe = c THEN "read" ELSE "close")
    /\ Tells(c, Head(settled[c])) /\ current' = {}
    /\ UNCHANGED <<pipe, client, pending, cancelled, settled, ran, hostVars>>

(* Mutant: the wait has no limit. *)
TimeOutNever(c) == FALSE /\ UNCHANGED vars

(* wait_for gives up, the request is marked, the client is told: three steps,    *)
(* and the main thread may take or finish the request between any two.           *)
TimeOut(c) ==
    /\ c \in current /\ settled[c] = <<>>
    /\ GoesTo("waiting", "expired")
    /\ UNCHANGED <<current, pipe, client, reply, pending, cancelled, settled, ran, hostVars>>

(* Mutant: the mark is forgotten. *)
MarkCancelledNever(c) ==
    /\ c \in current /\ GoesTo("expired", "late")
    /\ UNCHANGED <<current, pipe, client, reply, pending, cancelled, settled, ran, hostVars>>

MarkCancelled(c) ==
    /\ c \in current /\ GoesTo("expired", "late")
    /\ cancelled' = cancelled \cup {c}
    /\ UNCHANGED <<current, pipe, client, reply, pending, settled, ran, hostVars>>

TellTimeout(c) ==
    /\ c \in current /\ GoesTo("late", "read")
    /\ Tells(c, "timeout") /\ current' = {}
    /\ UNCHANGED <<pipe, client, pending, cancelled, settled, ran, hostVars>>

ClosePipe ==
    /\ GoesTo("close", "loop") /\ pipe' = "none"
    /\ UNCHANGED <<current, client, reply, pending, cancelled, settled, ran, hostVars>>

-----------------------------------------------------------------------------
HostGoes(from, to) == host = from /\ host' = to
Settle(c, answer) == settled' = [settled EXCEPT ![c] = Append(@, answer)]

(* Mutant: the requests stay in the queue until the Tick is over. *)
BeginTickPeek ==
    /\ HostGoes("game", "tick") /\ pending # <<>>
    /\ batch' = SubSeq(pending, 1, IF Len(pending) < BatchLimit THEN Len(pending) ELSE BatchLimit)
    /\ UNCHANGED <<serverVars, client, pending, cancelled, settled, ran, stopping, published>>

(* Tick pops up to BatchLimit requests under the mutex ... *)
BeginTick ==
    /\ HostGoes("game", "tick") /\ pending # <<>>
    /\ LET count == IF Len(pending) < BatchLimit THEN Len(pending) ELSE BatchLimit
       IN  /\ batch' = SubSeq(pending, 1, count)
           /\ pending' = SubSeq(pending, count + 1, Len(pending))
    /\ UNCHANGED <<serverVars, client, cancelled, settled, ran, stopping, published>>

(* ... and settles them one by one: without running it, if marked, ... *)
SkipCancelled ==
    /\ HostGoes("tick", "tick") /\ batch # <<>> /\ Head(batch) \in cancelled
    /\ Settle(Head(batch), "cancelled") /\ batch' = Tail(batch)
    /\ UNCHANGED <<serverVars, client, pending, cancelled, ran, stopping, published>>

(* ... or with what its test returns, which starts after the look at the mark: *)
(* the server may mark the request, and tell its client, in between.           *)
LookAtMark ==
    /\ HostGoes("tick", "dispatch") /\ batch # <<>> /\ Head(batch) \notin cancelled
    /\ UNCHANGED <<serverVars, client, pending, cancelled, settled, ran, batch, stopping, published>>

RunTest ==
    /\ HostGoes("dispatch", "run")
    /\ ran' = [ran EXCEPT ![Head(batch)] = @ + 1]
    /\ UNCHANGED <<serverVars, client, pending, cancelled, settled, batch, stopping, published>>

TestReturns ==
    /\ HostGoes("run", "tick")
    /\ Settle(Head(batch), "ok") /\ batch' = Tail(batch)
    /\ UNCHANGED <<serverVars, client, pending, cancelled, ran, stopping, published>>

EndTick ==
    /\ HostGoes("tick", "game") /\ batch = <<>>
    /\ UNCHANGED <<serverVars, client, pending, cancelled, settled, ran, batch, stopping, published>>

-----------------------------------------------------------------------------
(* Stop, step by step. *)
BeginStop ==
    /\ HostGoes("game", "cancel") /\ stopping' = TRUE
    /\ UNCHANGED <<serverVars, client, pending, cancelled, settled, ran, batch, published>>

(* CancelSynchronousIo reaches the server only inside a blocking call. *)
CancelIo ==
    /\ HostGoes("cancel", "wake")
    /\ server' = IF server \in {"connecting", "reading"} THEN "close" ELSE server
    /\ UNCHANGED <<current, pipe, client, reply, pending, cancelled, settled, ran,
                   batch, stopping, published>>

(* WakeServer connects and hangs up, if the pipe is there and idle. *)
WakeServer ==
    /\ HostGoes("wake", "join")
    /\ pipe' = IF pipe = "listening" THEN "gone" ELSE pipe
    /\ UNCHANGED <<server, current, client, reply, pending, cancelled, settled, ran,
                   batch, stopping, published>>

Join ==
    /\ HostGoes("join", "stopped") /\ server = "exited"
    /\ settled' = [c \in Client |-> IF c \in ToSet(pending) THEN Append(settled[c], "stopping")
                                    ELSE settled[c]]
    /\ pending' = <<>> /\ published' = FALSE
    /\ UNCHANGED <<serverVars, client, cancelled, ran, batch, stopping>>

ServerStep ==
    \/ CheckStop \/ Create \/ Accept \/ Connected \/ BeginRead \/ EnterRead \/ ReadFails
    \/ ClosePipe
    \/ \E c \in Client : \/ ReadStops(c) \/ RefuseRequest(c) \/ Enqueue(c) \/ AnswerReady(c)
                         \/ TimeOut(c) \/ MarkCancelled(c) \/ TellTimeout(c)

TickStep == BeginTick \/ SkipCancelled \/ LookAtMark \/ RunTest \/ TestReturns \/ EndTick
StopStep == CancelIo \/ WakeServer \/ Join

Next ==
    \/ \E c \in Client : Connect(c) \/ Send(c) \/ Finish(c) \/ CloseClient(c)
    \/ ServerStep \/ CreateFails
    \/ TickStep \/ BeginStop \/ StopStep

Spec == Init /\ [][Next]_vars

(* The server thread runs, its 15 s pass, and a client that was answered or hung *)
(* up on leaves.  Nothing is asked of the game's main thread.                    *)
ServedSpec ==
    /\ Spec /\ WF_vars(ServerStep)
    /\ \A c \in Client : WF_vars(Send(c)) /\ WF_vars(Finish(c))

(* And the main thread goes on with a Tick or a Stop it is in. *)
FairSpec == ServedSpec /\ WF_vars(TickStep) /\ WF_vars(StopStep)

-----------------------------------------------------------------------------
(* What a client is told is what happened: "ok" only after its test ran;         *)
(* "invalid" and "busy" only when it neither ran nor is queued to run.  The      *)
(* answers for expired and for abandoned promises reach nobody.  And a promise   *)
(* is fulfilled once (a second set_value throws, and nothing in the game catches *)
(* it), a test run once, although requests move between queue, Tick and Stop.    *)
AnswersAreTrue ==
    \A c \in Client :
        /\ Len(settled[c]) <= 1 /\ ran[c] <= 1
        /\ reply[c] = "ok" => ran[c] = 1
        /\ reply[c] \in {"invalid", "busy"} => ran[c] = 0 /\ c \notin ToSet(pending \o batch)
        /\ reply[c] \notin {"cancelled", "stopping"}

(* The main thread has looked at the request's mark and found none. *)
InHand(c) == host \in {"dispatch", "run"} /\ c = Head(batch)

(* Once a client was told that its request timed out, the main thread does not   *)
(* take the request any more, from the queue or from a batch it has popped.  Only *)
(* one that it had in hand by then may still start, or be running: the client     *)
(* cannot conclude from "runtime_timeout" that its test will not run.             *)
ExpiredIsNotTaken ==
    [][ \A c \in Client : reply[c] = "timeout" /\ ~InHand(c) => ~InHand(c)' /\ ran'[c] = ran[c] ]_vars

(* A request that was sent is answered, or its connection is closed, even if the *)
(* main thread never runs again.                                                 *)
EveryRequestAnswered ==
    \A c \in Client : client[c] = "sent" ~> (reply[c] # "none" \/ client[c] = "gone")

(* docs/DEV_MCP.md: "The bridge discovery record is removed during ModShutdown".  *)
RecordRemoved == stopping ~> ~published
=============================================================================
