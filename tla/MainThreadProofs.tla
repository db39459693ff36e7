---------------------------- MODULE MainThreadProofs ----------------------------
(* Theorems about what runs on the game's main thread: the list of callbacks that  *)
(* MainThread_Drain calls, for any mods, callbacks and fault limit, and the        *)
(* development bridge, whose Tick is a callback of that list (mod_entry.cpp        *)
(* registers it), for any clients, queue and batch.                               *)
EXTENDS DevBridge, MainThreadDispatcher, TLAPS

-----------------------------------------------------------------------------
(* The development bridge                                                         *)

(* A request that waits in the queue or in a Tick's batch is in no other place, its *)
(* promise is open and its test has not started; but the first one's of the batch   *)
(* while it runs.                                                                  *)
Distinct(s) == \A i, j \in 1 .. Len(s) : s[i] = s[j] => i = j

Open(c) ==
    /\ settled[c] = <<>> /\ client[c] \in {"read", "gone"}
    /\ reply[c] \notin {"ok", "invalid", "busy"}

QueueFits ==
    /\ Distinct(pending) /\ Distinct(batch)
    /\ \A i \in 1 .. Len(pending), j \in 1 .. Len(batch) : pending[i] # batch[j]
    /\ \A i \in 1 .. Len(pending) : Open(pending[i]) /\ ran[pending[i]] = 0
    /\ \A j \in 1 .. Len(batch) :
          Open(batch[j]) /\ ran[batch[j]] = IF host = "run" /\ j = 1 THEN 1 ELSE 0
    /\ host \in {"dispatch", "run"} => batch # <<>>

(* What a promise was given and what a client was told agree with what was run.     *)
RequestFits(c) ==
    /\ client[c] \in {"new", "connected", "sent"} =>
          settled[c] = <<>> /\ ran[c] = 0 /\ reply[c] = "none" /\ c \notin cancelled
    /\ ran[c] \in 0 .. 1
    /\ \/ settled[c] = <<>>
       \/ settled[c] = <<"ok">> /\ ran[c] = 1
       \/ settled[c] = <<"cancelled">> /\ c \in cancelled
       \/ settled[c] = <<"stopping">> /\ server = "exited"
    /\ reply[c] = "ok" => ran[c] = 1
    /\ reply[c] \in {"invalid", "busy"} => ran[c] = 0
    /\ reply[c] = "timeout" => c \in cancelled
    /\ reply[c] \notin {"cancelled", "stopping"}

(* The request being served is not marked before the server has given up on it.     *)
ServerFits ==
    /\ server \notin {"waiting", "expired", "late"} => current = {}
    /\ server \in {"waiting", "expired"} => current \cap cancelled = {}
    /\ server = "late" => current \subseteq cancelled
    /\ \A c \in current : client[c] \in {"read", "gone"}
    /\ \A c, d \in current : c = d

RequestsFit == \A c \in Client : RequestFits(c)

IInv == TypeOK /\ QueueFits /\ RequestsFit /\ ServerFits

USE LimitAssumption DEF serverVars, hostVars

(* --- sequences ---------------------------------------------------------------- *)

LEMMA Appended ==
  ASSUME NEW S, NEW s \in Seq(S), NEW x \in S
  PROVE  /\ Append(s, x) \in Seq(S) /\ Len(Append(s, x)) = Len(s) + 1
         /\ Append(s, x)[Len(s) + 1] = x
         /\ \A i \in 1 .. Len(s) : Append(s, x)[i] = s[i]
  OBVIOUS

LEMMA Tailed ==
  ASSUME NEW S, NEW s \in Seq(S), s # <<>>
  PROVE  /\ Head(s) = s[1] /\ Head(s) \in S /\ 1 \in 1 .. Len(s)
         /\ Tail(s) \in Seq(S) /\ Len(Tail(s)) = Len(s) - 1
         /\ \A i \in 1 .. Len(Tail(s)) : Tail(s)[i] = s[i + 1] /\ i + 1 \in 1 .. Len(s)
  OBVIOUS

LEMMA Cut ==
  ASSUME NEW S, NEW s \in Seq(S), NEW n \in 0 .. Len(s)
  PROVE  /\ SubSeq(s, 1, n) \in Seq(S) /\ Len(SubSeq(s, 1, n)) = n
         /\ \A i \in 1 .. n : SubSeq(s, 1, n)[i] = s[i]
         /\ SubSeq(s, n + 1, Len(s)) \in Seq(S) /\ Len(SubSeq(s, n + 1, Len(s))) = Len(s) - n
         /\ \A i \in 1 .. Len(s) - n : SubSeq(s, n + 1, Len(s))[i] = s[n + i]
  OBVIOUS

LEMMA Items ==
  ASSUME NEW S, NEW s \in Seq(S)
  PROVE  DOMAIN s = 1 .. Len(s) /\ Len(s) \in Nat /\ \A i \in 1 .. Len(s) : s[i] \in S
  OBVIOUS

LEMMA Joined ==
  ASSUME NEW S, NEW s \in Seq(S), NEW t \in Seq(S), NEW x \in ToSet(s \o t)
  PROVE  (\E i \in 1 .. Len(s) : s[i] = x) \/ (\E j \in 1 .. Len(t) : t[j] = x)
<1>1. s \o t \in Seq(S) /\ Len(s \o t) = Len(s) + Len(t) /\ Len(s) \in Nat /\ Len(t) \in Nat
  OBVIOUS
<1>2. PICK i \in 1 .. Len(s) + Len(t) : (s \o t)[i] = x
  BY <1>1, Items DEF ToSet
<1>3. CASE i <= Len(s)
  <2>1. i \in 1 .. Len(s) /\ s[i] = x
    BY <1>1, <1>2, <1>3
  <2> QED BY <2>1
<1>4. CASE i > Len(s)
  <2>1. i - Len(s) \in 1 .. Len(t) /\ t[i - Len(s)] = x
    BY <1>1, <1>2, <1>4
  <2> QED BY <2>1
<1> QED BY <1>1, <1>3, <1>4

LEMMA Queued ==
  ASSUME TypeOK
  PROVE  /\ \A i \in 1 .. Len(pending) : pending[i] \in Client
         /\ \A j \in 1 .. Len(batch) : batch[j] \in Client
         /\ current \subseteq Client
         /\ DOMAIN pending = 1 .. Len(pending)
<1>1. pending \in Seq(Client) /\ batch \in Seq(Client) /\ current \subseteq Client
  BY DEF TypeOK
<1> QED BY <1>1, Items

LEMMA InitInvariant == Init => IInv
<1> SUFFICES ASSUME Init PROVE IInv
  OBVIOUS
<1>1. TypeOK
  <2>1. pending \in Seq(Client) /\ Len(pending) <= QueueLimit
    BY DEF Init
  <2>2. batch \in Seq(Client) /\ Len(batch) <= BatchLimit
    BY DEF Init
  <2>3. settled \in [Client -> Seq(Answer)]
    BY DEF Init
  <2>4. ran \in [Client -> Nat] /\ reply \in [Client -> Answer \cup {"none"}]
    BY DEF Init
  <2>5. client \in [Client -> {"new", "connected", "sent", "read", "gone"}]
    BY DEF Init
  <2> QED BY <2>1, <2>2, <2>3, <2>4, <2>5 DEF Init, TypeOK, ServerAt, HostAt
<1>2. QueueFits
  BY DEF Init, QueueFits, Distinct
<1>3. RequestsFit /\ ServerFits
  BY DEF Init, RequestsFit, RequestFits, ServerFits
<1> QED BY <1>1, <1>2, <1>3 DEF IInv

LEMMA Truth == IInv => AnswersAreTrue
<1> SUFFICES ASSUME IInv, NEW c \in Client
             PROVE  /\ Len(settled[c]) <= 1 /\ ran[c] <= 1
                    /\ reply[c] = "ok" => ran[c] = 1
                    /\ reply[c] \in {"invalid", "busy"} => ran[c] = 0 /\ c \notin ToSet(pending \o batch)
                    /\ reply[c] \notin {"cancelled", "stopping"}
  BY DEF AnswersAreTrue
<1>1. RequestFits(c)
  BY DEF IInv, RequestsFit
<1>2. Len(settled[c]) <= 1 /\ ran[c] <= 1
  <2>1. Len(settled[c]) <= 1
    <3>1. CASE settled[c] = <<>>
      BY <3>1
    <3>2. CASE settled[c] = <<"ok">>
      BY <3>2
    <3>3. CASE settled[c] = <<"cancelled">>
      BY <3>3
    <3>4. CASE settled[c] = <<"stopping">>
      BY <3>4
    <3> QED BY <1>1, <3>1, <3>2, <3>3, <3>4 DEF RequestFits
  <2>2. ran[c] <= 1
    BY <1>1 DEF RequestFits
  <2> QED BY <2>1, <2>2
<1>3. ASSUME reply[c] \in {"invalid", "busy"}, c \in ToSet(pending \o batch) PROVE FALSE
  <2>1. pending \in Seq(Client) /\ batch \in Seq(Client)
    BY DEF IInv, TypeOK
  <2>2. (\E k \in 1 .. Len(pending) : pending[k] = c) \/ (\E k \in 1 .. Len(batch) : batch[k] = c)
    BY <1>3, <2>1, Joined
  <2> QED BY <1>3, <2>2 DEF IInv, QueueFits, Open
<1> QED BY <1>1, <1>2, <1>3 DEF RequestFits

(* --- steps that leave the requests alone -------------------------------------- *)

Serving == {"waiting", "expired", "late"}
requests == <<current, reply, pending, cancelled, settled, ran, batch>>

LEMMA RequestsUntouched ==
  ASSUME IInv, TypeOK', UNCHANGED requests, UNCHANGED client,
         server' = server \/ (server \notin Serving /\ server' \notin Serving),
         server = "exited" => server' = "exited",
         host' = host \/ (host \notin {"dispatch", "run"} /\ host' \notin {"dispatch", "run"})
  PROVE  IInv'
<1>1. UNCHANGED <<current, reply, pending, cancelled, settled, ran, batch, client>>
  BY DEF requests
<1>2. QueueFits'
  BY <1>1 DEF IInv, QueueFits, Distinct, Open
<1>3. RequestsFit'
  BY <1>1 DEF IInv, RequestsFit, RequestFits
<1>4. ServerFits'
  BY <1>1 DEF IInv, ServerFits, Serving
<1> QED BY <1>2, <1>3, <1>4 DEF IInv

LEMMA ServerMoves ==
  ASSUME IInv, CheckStop \/ Create \/ CreateFails \/ Accept \/ Connected \/ BeginRead \/ EnterRead
               \/ ReadFails \/ ClosePipe \/ \E c \in Client : ReadStops(c)
  PROVE  IInv'
<1>1. /\ server \in {"loop", "create", "accept", "connecting", "read", "entering", "reading", "close"}
      /\ server' \in {"exited", "create", "accept", "connecting", "close", "read", "entering", "reading",
                      "loop"}
      /\ pipe' \in {pipe, "listening", "none"}
      /\ UNCHANGED <<requests, client, hostVars>>
  BY DEF CheckStop, Create, CreateFails, Accept, Connected, BeginRead, EnterRead, ReadFails, ReadStops,
         ClosePipe, GoesTo, requests
<1>2. TypeOK'
  BY <1>1 DEF IInv, TypeOK, requests, ServerAt
<1> QED BY <1>1, <1>2, RequestsUntouched DEF Serving

LEMMA HostMoves ==
  ASSUME IInv, CancelIo \/ WakeServer \/ BeginStop \/ EndTick PROVE IInv'
<1>1. /\ server' = server \/ (server \in {"connecting", "reading"} /\ server' = "close")
      /\ host \in {"game", "cancel", "wake", "tick"} /\ host' \in {"cancel", "wake", "join", "game"}
      /\ pipe' \in {pipe, "gone"} /\ stopping' \in BOOLEAN /\ published' = published
      /\ UNCHANGED <<requests, client>>
  BY DEF CancelIo, WakeServer, BeginStop, EndTick, HostGoes, requests, IInv, TypeOK
<1>2. TypeOK'
  BY <1>1 DEF IInv, TypeOK, requests, ServerAt, HostAt
<1> QED BY <1>1, <1>2, RequestsUntouched DEF Serving

(* A client connects, sends or leaves. *)
LEMMA ClientMoves ==
  ASSUME IInv, NEW c \in Client, Connect(c) \/ Send(c) \/ Finish(c) \/ CloseClient(c) PROVE IInv'
<1>1. PICK at \in {"connected", "sent", "gone"} :
        /\ client' = [client EXCEPT ![c] = at]
        /\ at # "gone" => client[c] \in {"new", "connected"}
  BY DEF Connect, Send, Finish, CloseClient, ClientSets
<1>2. UNCHANGED <<server, current, reply, pending, cancelled, settled, ran, hostVars>>
      /\ pipe' \in {pipe, c, "gone"}
  BY DEF Connect, Send, Finish, CloseClient
<1>3. TypeOK'
  BY <1>1, <1>2 DEF IInv, TypeOK
<1>4. /\ \A d \in Client : client[d] \in {"read", "gone"} => client'[d] \in {"read", "gone"}
      /\ \A d \in Client : client'[d] \in {"new", "connected", "sent"}
                             => client[d] \in {"new", "connected", "sent"}
  BY <1>1 DEF IInv, TypeOK
<1>5. /\ \A i \in 1 .. Len(pending) : pending[i] \in Client
      /\ \A i \in 1 .. Len(batch) : batch[i] \in Client
      /\ current \subseteq Client
  BY Queued DEF IInv
<1>6. QueueFits'
  <2>1. \A d \in Client : Open(d) => Open(d)'
    BY <1>2, <1>4 DEF Open
  <2>2. Distinct(pending)' /\ Distinct(batch)'
    BY <1>2 DEF IInv, QueueFits, Distinct
  <2>3. (\A i \in 1 .. Len(pending) : Open(pending[i]) /\ ran[pending[i]] = 0)'
    BY <1>2, <1>5, <2>1 DEF IInv, QueueFits, Open
  <2>4. (\A j \in 1 .. Len(batch) :
           Open(batch[j]) /\ ran[batch[j]] = IF host = "run" /\ j = 1 THEN 1 ELSE 0)'
    BY <1>2, <1>5, <2>1 DEF IInv, QueueFits, Open
  <2> QED BY <1>2, <2>2, <2>3, <2>4 DEF IInv, QueueFits
<1>7. RequestsFit'
  BY <1>2, <1>4 DEF IInv, RequestsFit, RequestFits
<1>8. ServerFits'
  BY <1>2, <1>4, <1>5 DEF IInv, ServerFits
<1> QED BY <1>3, <1>6, <1>7, <1>8 DEF IInv

(* --- the server reads a request and answers it --------------------------------- *)

(* A request that the server has not read is nowhere. *)
LEMMA UnreadIsNowhere ==
  ASSUME IInv, NEW c \in Client, client[c] = "sent"
  PROVE  /\ \A i \in 1 .. Len(pending) : pending[i] \in Client /\ pending[i] # c
         /\ \A j \in 1 .. Len(batch) : batch[j] \in Client /\ batch[j] # c
         /\ c \notin current /\ current \subseteq Client
         /\ settled[c] = <<>> /\ ran[c] = 0 /\ reply[c] = "none" /\ c \notin cancelled
<1>1. /\ \A i \in 1 .. Len(pending) : pending[i] \in Client
      /\ \A j \in 1 .. Len(batch) : batch[j] \in Client
      /\ current \subseteq Client
  BY Queued DEF IInv
<1>2. RequestFits(c)
  BY DEF IInv, RequestsFit
<1> QED BY <1>1, <1>2 DEF IInv, QueueFits, Open, ServerFits, RequestFits

LEMMA Refuses == ASSUME IInv, NEW c \in Client, RefuseRequest(c) PROVE IInv'
<1>1. PICK a \in {"invalid", "busy"}, to \in {"read", "close"} :
        /\ server = "reading" /\ server' = to
        /\ reply' = [reply EXCEPT ![c] = a]
        /\ client' = [client EXCEPT ![c] = "read"] /\ client[c] = "sent"
        /\ UNCHANGED <<current, pipe, pending, cancelled, settled, ran, host, batch, stopping, published>>
  BY DEF RefuseRequest, GoesTo, Tells, ClientSets
<1>2. TypeOK'
  BY <1>1 DEF IInv, TypeOK, Answer, ServerAt
<1>3. /\ \A d \in Client : d # c => client'[d] = client[d] /\ reply'[d] = reply[d]
      /\ client'[c] = "read" /\ reply'[c] = a
  BY <1>1 DEF IInv, TypeOK
<1>4. /\ client[c] = "sent" /\ server = "reading" /\ server' \in {"read", "close"}
      /\ UNCHANGED <<current, pending, cancelled, settled, ran, host, batch>>
  BY <1>1
<1> HIDE <1>1
<1>5. QueueFits'
  BY <1>3, <1>4, UnreadIsNowhere DEF IInv, QueueFits, Distinct, Open
<1>6. RequestsFit'
  <2> SUFFICES ASSUME NEW d \in Client PROVE RequestFits(d)'
    BY DEF RequestsFit
  <2>1. RequestFits(d)
    BY DEF IInv, RequestsFit
  <2>2. CASE d = c
    BY <2>2, <1>3, <1>4, UnreadIsNowhere DEF RequestFits
  <2>3. CASE d # c
    BY <2>1, <2>3, <1>3, <1>4 DEF RequestFits
  <2> QED BY <2>2, <2>3
<1>7. ServerFits'
  BY <1>3, <1>4, UnreadIsNowhere DEF IInv, ServerFits
<1> QED BY <1>2, <1>5, <1>6, <1>7 DEF IInv

LEMMA Enqueues == ASSUME IInv, NEW c \in Client, Enqueue(c) PROVE IInv'
<1>1. /\ server = "reading" /\ server' = "waiting" /\ current' = {c}
      /\ client' = [client EXCEPT ![c] = "read"] /\ client[c] = "sent"
      /\ Len(pending) < QueueLimit /\ pending' = Append(pending, c)
      /\ UNCHANGED <<reply, pipe, cancelled, settled, ran, host, batch, stopping, published>>
  BY DEF Enqueue, GoesTo, ClientSets
<1>2. /\ pending' \in Seq(Client) /\ Len(pending') = Len(pending) + 1
      /\ pending'[Len(pending) + 1] = c
      /\ \A i \in 1 .. Len(pending) : pending'[i] = pending[i]
      /\ Len(pending) \in Nat
  BY <1>1, Appended DEF IInv, TypeOK
<1>3. TypeOK'
  <2>1. Len(pending') <= QueueLimit
    BY <1>1, <1>2
  <2> QED BY <1>1, <1>2, <2>1 DEF IInv, TypeOK, ServerAt
<1>4. /\ \A d \in Client : d # c => client'[d] = client[d]
      /\ client'[c] = "read"
  BY <1>1 DEF IInv, TypeOK
<1>5. /\ client[c] = "sent" /\ server = "reading" /\ server' = "waiting" /\ current' = {c}
      /\ UNCHANGED <<reply, cancelled, settled, ran, host, batch>>
  BY <1>1
<1>6. \A i \in 1 .. Len(pending') : \/ i \in 1 .. Len(pending) /\ pending'[i] = pending[i]
                                    \/ i = Len(pending) + 1 /\ pending'[i] = c
  BY <1>2
<1> HIDE <1>1
<1>7. QueueFits'
  <2>1. Distinct(pending)'
    BY <1>2, <1>5, <1>6, UnreadIsNowhere DEF IInv, QueueFits, Distinct
  <2>2. \A i \in 1 .. Len(pending'), j \in 1 .. Len(batch) : pending'[i] # batch[j]
    BY <1>5, <1>6, UnreadIsNowhere DEF IInv, QueueFits
  <2>3. Open(c)' /\ ran'[c] = 0
    BY <1>4, <1>5, UnreadIsNowhere DEF Open
  <2>4. \A d \in Client : d # c => (Open(d) => Open(d)')
    BY <1>4, <1>5 DEF Open
  <2>5. (\A i \in 1 .. Len(pending) : Open(pending[i]) /\ ran[pending[i]] = 0)'
    <3> SUFFICES ASSUME NEW i \in 1 .. Len(pending') PROVE (Open(pending[i]) /\ ran[pending[i]] = 0)'
      OBVIOUS
    <3>1. CASE i \in 1 .. Len(pending) /\ pending'[i] = pending[i]
      <4>1. /\ Open(pending[i]) /\ ran[pending[i]] = 0
            /\ pending[i] \in Client /\ pending[i] # c
        BY <1>5, <3>1, UnreadIsNowhere DEF IInv, QueueFits
      <4> QED BY <1>4, <1>5, <3>1, <4>1 DEF Open
    <3>2. CASE pending'[i] = c
      BY <2>3, <3>2 DEF Open
    <3> QED BY <1>6, <3>1, <3>2
  <2>6. (\A j \in 1 .. Len(batch) :
           Open(batch[j]) /\ ran[batch[j]] = IF host = "run" /\ j = 1 THEN 1 ELSE 0)'
    BY <1>4, <1>5, UnreadIsNowhere DEF IInv, QueueFits, Open
  <2>7. Distinct(batch)' /\ (host \in {"dispatch", "run"} => batch # <<>>)
    BY <1>5 DEF IInv, QueueFits, Distinct
  <2> QED BY <1>5, <2>1, <2>2, <2>5, <2>6, <2>7 DEF QueueFits
<1>8. RequestsFit'
  <2> SUFFICES ASSUME NEW d \in Client PROVE RequestFits(d)'
    BY DEF RequestsFit
  <2>1. RequestFits(d)
    BY DEF IInv, RequestsFit
  <2>2. CASE d = c
    BY <2>2, <1>4, <1>5, UnreadIsNowhere DEF RequestFits
  <2>3. CASE d # c
    BY <2>1, <2>3, <1>4, <1>5 DEF RequestFits
  <2> QED BY <2>2, <2>3
<1>9. ServerFits'
  BY <1>4, <1>5, UnreadIsNowhere DEF ServerFits
<1> QED BY <1>3, <1>7, <1>8, <1>9 DEF IInv

(* The server gives the client it serves its answer. *)
LEMMA Answers == ASSUME IInv, NEW c \in Client, AnswerReady(c) \/ TellTimeout(c) PROVE IInv'
<1>1. RequestFits(c) /\ c \in current
  BY DEF IInv, RequestsFit, AnswerReady, TellTimeout
<1>2. CASE AnswerReady(c)
  <2>1. /\ server = "waiting" /\ settled[c] # <<>> /\ c \notin cancelled
    BY <1>1, <1>2 DEF AnswerReady, GoesTo, IInv, ServerFits
  <2>2. settled[c] = <<"ok">> /\ ran[c] = 1 /\ Head(settled[c]) = "ok"
    BY <1>1, <2>1 DEF RequestFits
  <2>3. /\ server' \in {"read", "close"} /\ current' = {}
        /\ reply' = [reply EXCEPT ![c] = IF pipe = c THEN "ok" ELSE @]
        /\ UNCHANGED <<pipe, client, pending, cancelled, settled, ran, host, batch, stopping, published>>
    BY <1>2, <2>2 DEF AnswerReady, GoesTo, Tells
  <2>4. TypeOK'
    BY <2>3 DEF IInv, TypeOK, Answer, ServerAt
  <2>5. /\ \A d \in Client : d # c => reply'[d] = reply[d]
        /\ reply'[c] \in {reply[c], "ok"}
    BY <2>3 DEF IInv, TypeOK
  <2>6. /\ server' \in {"read", "close"} /\ current' = {}
        /\ UNCHANGED <<client, pending, cancelled, settled, ran, host, batch>>
    BY <2>3
  <2>7. /\ \A i \in 1 .. Len(pending) : pending[i] \in Client /\ pending[i] # c
        /\ \A j \in 1 .. Len(batch) : batch[j] \in Client /\ batch[j] # c
    <3>1. /\ \A i \in 1 .. Len(pending) : pending[i] \in Client
          /\ \A j \in 1 .. Len(batch) : batch[j] \in Client
      BY Queued DEF IInv
    <3>2. /\ \A i \in 1 .. Len(pending) : settled[pending[i]] = <<>>
          /\ \A j \in 1 .. Len(batch) : settled[batch[j]] = <<>>
      BY DEF IInv, QueueFits, Open
    <3> QED BY <2>1, <3>1, <3>2
  <2> HIDE <2>3
  <2>8. QueueFits'
    BY <2>5, <2>6, <2>7 DEF IInv, QueueFits, Distinct, Open
  <2>9. RequestsFit'
    <3> SUFFICES ASSUME NEW d \in Client PROVE RequestFits(d)'
      BY DEF RequestsFit
    <3>1. RequestFits(d)
      BY DEF IInv, RequestsFit
    <3>2. client[c] \in {"read", "gone"}
      BY <1>1 DEF IInv, ServerFits
    <3>3. server # "exited"
      BY <2>1
    <3>4. CASE d = c
      BY <3>1, <3>2, <3>3, <3>4, <2>2, <2>5, <2>6 DEF RequestFits
    <3>5. CASE d # c
      BY <3>1, <3>3, <3>5, <2>5, <2>6 DEF RequestFits
    <3> QED BY <3>4, <3>5
  <2>10. ServerFits'
    BY <2>6 DEF ServerFits
  <2> QED BY <2>4, <2>8, <2>9, <2>10 DEF IInv
<1>3. CASE TellTimeout(c)
  <2>1. /\ server = "late" /\ server' = "read" /\ current' = {}
        /\ reply' = [reply EXCEPT ![c] = IF pipe = c THEN "timeout" ELSE @]
        /\ UNCHANGED <<pipe, client, pending, cancelled, settled, ran, host, batch, stopping, published>>
    BY <1>3 DEF TellTimeout, GoesTo, Tells
  <2>2. TypeOK'
    BY <2>1 DEF IInv, TypeOK, Answer, ServerAt
  <2>3. /\ \A d \in Client : d # c => reply'[d] = reply[d]
        /\ reply'[c] \in {reply[c], "timeout"}
    BY <2>1 DEF IInv, TypeOK
  <2>4. /\ server = "late" /\ server' = "read" /\ current' = {}
        /\ UNCHANGED <<client, pending, cancelled, settled, ran, host, batch>>
    BY <2>1
  <2>5. /\ \A i \in 1 .. Len(pending) : pending[i] \in Client
        /\ \A j \in 1 .. Len(batch) : batch[j] \in Client
    BY Queued DEF IInv
  <2> HIDE <2>1
  <2>6. \A d \in Client : Open(d) => Open(d)'
    BY <2>3, <2>4 DEF Open
  <2>7. QueueFits'
    BY <2>4, <2>5, <2>6 DEF IInv, QueueFits, Distinct, Open
  <2>8. RequestsFit'
    <3> SUFFICES ASSUME NEW d \in Client PROVE RequestFits(d)'
      BY DEF RequestsFit
    <3>1. RequestFits(d)
      BY DEF IInv, RequestsFit
    <3>2. client[c] \in {"read", "gone"} /\ c \in cancelled
      BY <1>1, <2>4 DEF IInv, ServerFits
    <3>3. CASE d = c
      BY <3>1, <3>2, <3>3, <2>3, <2>4 DEF RequestFits
    <3>4. CASE d # c
      BY <3>1, <3>4, <2>3, <2>4 DEF RequestFits
    <3> QED BY <3>3, <3>4
  <2>9. ServerFits'
    BY <2>4 DEF ServerFits
  <2> QED BY <2>2, <2>7, <2>8, <2>9 DEF IInv
<1> QED BY <1>2, <1>3

(* The wait ends, and the request is marked. *)
LEMMA Expires == ASSUME IInv, NEW c \in Client, TimeOut(c) \/ MarkCancelled(c) PROVE IInv'
<1>1. /\ c \in current /\ current \subseteq Client
      /\ \/ server = "waiting" /\ server' = "expired" /\ cancelled' = cancelled
         \/ server = "expired" /\ server' = "late" /\ cancelled' = cancelled \cup {c}
      /\ UNCHANGED <<current, pipe, client, reply, pending, settled, ran, host, batch, stopping, published>>
  BY DEF TimeOut, MarkCancelled, GoesTo, IInv, TypeOK
<1>2. TypeOK'
  BY <1>1 DEF IInv, TypeOK, ServerAt
<1>3. QueueFits'
  BY <1>1 DEF IInv, QueueFits, Distinct, Open
<1>4. RequestsFit'
  <2> SUFFICES ASSUME NEW d \in Client PROVE RequestFits(d)'
    BY DEF RequestsFit
  <2>1. RequestFits(d) /\ client[c] \in {"read", "gone"}
    BY <1>1 DEF IInv, RequestsFit, ServerFits
  <2> QED BY <1>1, <2>1 DEF RequestFits
<1>5. ServerFits'
  BY <1>1 DEF IInv, ServerFits
<1> QED BY <1>2, <1>3, <1>4, <1>5 DEF IInv

(* --- the main thread settles the requests -------------------------------------- *)

LEMMA TickBegins == ASSUME IInv, BeginTick PROVE IInv'
<1> DEFINE n == IF Len(pending) < BatchLimit THEN Len(pending) ELSE BatchLimit
<1>1. /\ host = "game" /\ host' = "tick"
      /\ batch' = SubSeq(pending, 1, n) /\ pending' = SubSeq(pending, n + 1, Len(pending))
      /\ UNCHANGED <<server, current, pipe, reply, client, cancelled, settled, ran, stopping, published>>
  BY DEF BeginTick, HostGoes
<1>2. n \in 0 .. Len(pending) /\ n <= BatchLimit /\ pending \in Seq(Client) /\ Len(pending) \in Nat
  BY DEF IInv, TypeOK
<1> HIDE DEF n
<1>3. /\ batch' \in Seq(Client) /\ Len(batch') = n
      /\ \A j \in 1 .. n : batch'[j] = pending[j]
      /\ pending' \in Seq(Client) /\ Len(pending') = Len(pending) - n
      /\ \A i \in 1 .. Len(pending) - n : pending'[i] = pending[n + i]
  BY <1>1, <1>2, Cut
<1>4. TypeOK'
  <2>1. Len(pending') <= QueueLimit /\ Len(batch') <= BatchLimit
    BY <1>2, <1>3 DEF IInv, TypeOK
  <2> QED BY <1>1, <1>3, <2>1 DEF IInv, TypeOK, HostAt
<1>5. /\ host' = "tick"
      /\ UNCHANGED <<server, current, reply, client, cancelled, settled, ran>>
  BY <1>1
<1> HIDE <1>1
<1>6. /\ \A i \in 1 .. Len(pending') : n + i \in 1 .. Len(pending) /\ pending'[i] = pending[n + i]
      /\ \A j \in 1 .. Len(batch') : j \in 1 .. Len(pending) /\ batch'[j] = pending[j]
  <2>1. n \in Nat /\ n <= Len(pending)
    BY <1>2
  <2>2. ASSUME NEW i \in 1 .. Len(pending')
        PROVE  n + i \in 1 .. Len(pending) /\ pending'[i] = pending[n + i]
    <3>1. i \in 1 .. Len(pending) - n
      BY <1>3
    <3>2. n + i \in 1 .. Len(pending)
      BY <1>2, <2>1, <3>1
    <3> QED
      BY <1>3, <3>1, <3>2
  <2>3. ASSUME NEW j \in 1 .. Len(batch') PROVE j \in 1 .. Len(pending) /\ batch'[j] = pending[j]
    <3>1. j \in 1 .. n
      BY <1>3
    <3>2. j \in 1 .. Len(pending)
      BY <1>2, <2>1, <3>1
    <3> QED
      BY <1>3, <3>1, <3>2
  <2> QED
    BY <2>2, <2>3
<1>7. QueueFits'
  <2> Distinct(pending)
    BY DEF IInv, QueueFits
  <2>1. Distinct(batch)' /\ Distinct(pending)'
    <3>1. Distinct(batch)'
      BY <1>6 DEF Distinct
    <3>2. ASSUME NEW i \in 1 .. Len(pending'), NEW j \in 1 .. Len(pending'), pending'[i] = pending'[j]
          PROVE  i = j
      <4>1. n + i = n + j
        BY <1>6, <3>2 DEF Distinct
      <4> QED BY <1>2, <4>1
    <3> QED BY <3>1, <3>2 DEF Distinct
  <2>2. (\A i \in 1 .. Len(pending), j \in 1 .. Len(batch) : pending[i] # batch[j])'
    BY <1>2, <1>3, <1>6 DEF IInv, QueueFits, Distinct
  <2>3. (\A i \in 1 .. Len(pending) : Open(pending[i]) /\ ran[pending[i]] = 0)'
    BY <1>5, <1>6 DEF IInv, QueueFits, Open
  <2>4. (\A j \in 1 .. Len(batch) :
           Open(batch[j]) /\ ran[batch[j]] = IF host = "run" /\ j = 1 THEN 1 ELSE 0)'
    BY <1>5, <1>6 DEF IInv, QueueFits, Open
  <2> QED BY <1>5, <2>1, <2>2, <2>3, <2>4 DEF QueueFits
<1>8. RequestsFit'
  BY <1>5 DEF IInv, RequestsFit, RequestFits
<1>9. ServerFits'
  BY <1>5 DEF IInv, ServerFits
<1> QED BY <1>4, <1>7, <1>8, <1>9 DEF IInv

(* The first request of the batch is settled. *)
LEMMA FirstIsSettled ==
  ASSUME IInv, host \in {"tick", "run"}, host' = "tick", batch # <<>>,
         NEW answer \in {"ok", "cancelled"},
         answer = "ok" => host = "run",
         answer = "cancelled" => Head(batch) \in cancelled,
         Settle(Head(batch), answer), batch' = Tail(batch),
         answer = "cancelled" => host = "tick",
         UNCHANGED <<serverVars, client, pending, cancelled, ran, stopping, published>>
  PROVE  IInv'
<1> DEFINE c == Head(batch)
<1>1. /\ c = batch[1] /\ c \in Client /\ 1 \in 1 .. Len(batch)
      /\ batch' \in Seq(Client) /\ Len(batch') = Len(batch) - 1
      /\ \A j \in 1 .. Len(batch') : batch'[j] = batch[j + 1] /\ j + 1 \in 1 .. Len(batch)
  BY Tailed DEF IInv, TypeOK
<1> HIDE DEF c
<1>2. /\ client[c] \in {"read", "gone"} /\ settled[c] = <<>>
      /\ ran[c] = IF host = "run" THEN 1 ELSE 0
  BY <1>1 DEF IInv, QueueFits, Open
<1>3. settled' = [settled EXCEPT ![c] = <<answer>>]
  BY <1>2 DEF Settle, c
<1>4. settled' \in [Client -> Seq(Answer)]
  <2>1. <<answer>> \in Seq(Answer)
    BY DEF Answer
  <2> QED BY <1>3, <2>1 DEF IInv, TypeOK
<1>5. TypeOK'
  <2>1. Len(batch') <= BatchLimit
    BY <1>1 DEF IInv, TypeOK
  <2> QED BY <1>1, <1>4, <2>1 DEF IInv, TypeOK, HostAt
<1>6. /\ \A d \in Client : d # c => settled'[d] = settled[d]
      /\ settled'[c] = <<answer>>
  BY <1>1, <1>3 DEF IInv, TypeOK
<1>7. /\ \A j \in 1 .. Len(batch') : batch'[j] \in Client /\ batch'[j] # c
      /\ \A i \in 1 .. Len(pending) : pending[i] \in Client /\ pending[i] # c
  <2>1. \A j \in 1 .. Len(batch') : batch'[j] \in Client /\ j + 1 # 1
    BY <1>1
  <2>2. ASSUME NEW j \in 1 .. Len(batch') PROVE batch'[j] # c
    <3>1. j + 1 \in 1 .. Len(batch) /\ batch'[j] = batch[j + 1] /\ c = batch[1] /\ 1 \in 1 .. Len(batch)
      BY <1>1
    <3>2. j + 1 # 1
      BY <2>1
    <3>3. Distinct(batch)
      BY DEF IInv, QueueFits
    <3> QED BY <3>1, <3>2, <3>3 DEF Distinct
  <2>3. \A i \in 1 .. Len(pending) : pending[i] \in Client /\ pending[i] # c
    BY <1>1, Queued DEF IInv, QueueFits
  <2> QED BY <2>1, <2>2, <2>3
<1>8. QueueFits'
  <2>1. Distinct(batch)' /\ Distinct(pending)'
    BY <1>1 DEF IInv, QueueFits, Distinct
  <2>2. (\A i \in 1 .. Len(pending), j \in 1 .. Len(batch) : pending[i] # batch[j])'
    BY <1>1 DEF IInv, QueueFits
  <2>3. (\A i \in 1 .. Len(pending) : Open(pending[i]) /\ ran[pending[i]] = 0)'
    BY <1>6, <1>7 DEF IInv, QueueFits, Open
  <2>4. \A j \in 1 .. Len(batch') : Open(batch[j + 1]) /\ ran[batch[j + 1]] = 0
    BY <1>1 DEF IInv, QueueFits
  <2>5. (\A j \in 1 .. Len(batch) :
           Open(batch[j]) /\ ran[batch[j]] = IF host = "run" /\ j = 1 THEN 1 ELSE 0)'
    BY <1>1, <1>6, <1>7, <2>4 DEF Open
  <2> QED BY <2>1, <2>2, <2>3, <2>5 DEF QueueFits
<1>9. RequestsFit'
  <2> SUFFICES ASSUME NEW d \in Client PROVE RequestFits(d)'
    BY DEF RequestsFit
  <2>1. RequestFits(d)
    BY DEF IInv, RequestsFit
  <2>2. CASE d = c
    <3>1. answer = "ok" => ran[c] = 1
      BY <1>2
    <3>2. answer = "cancelled" => c \in cancelled
      BY DEF c
    <3>3. settled'[c] = <<"ok">> \/ settled'[c] = <<"cancelled">>
      BY <1>6
    <3>4. \/ settled'[c] = <<"ok">> /\ ran[c] = 1
          \/ settled'[c] = <<"cancelled">> /\ c \in cancelled
      BY <1>6, <3>1, <3>2
    <3> QED BY <1>2, <2>1, <2>2, <3>4 DEF RequestFits
  <2>3. CASE d # c
    BY <1>6, <2>1, <2>3 DEF RequestFits
  <2> QED BY <2>2, <2>3
<1>10. ServerFits'
  BY DEF IInv, ServerFits
<1> QED BY <1>5, <1>8, <1>9, <1>10 DEF IInv

LEMMA Settles == ASSUME IInv, SkipCancelled \/ TestReturns PROVE IInv'
<1>1. CASE SkipCancelled
  BY <1>1, FirstIsSettled DEF SkipCancelled, HostGoes
<1>2. CASE TestReturns
  <2>1. batch # <<>>
    BY <1>2 DEF TestReturns, HostGoes, IInv, QueueFits
  <2> QED BY <1>2, <2>1, FirstIsSettled DEF TestReturns, HostGoes
<1> QED BY <1>1, <1>2

LEMMA Takes == ASSUME IInv, LookAtMark PROVE IInv'
<1>1. /\ host = "tick" /\ host' = "dispatch" /\ batch # <<>>
      /\ UNCHANGED <<server, current, pipe, reply, client, pending, cancelled, settled, ran, batch,
                     stopping, published>>
  BY DEF LookAtMark, HostGoes
<1>2. TypeOK'
  BY <1>1 DEF IInv, TypeOK, HostAt
<1>3. QueueFits'
  BY <1>1 DEF IInv, QueueFits, Distinct, Open
<1>4. RequestsFit' /\ ServerFits'
  BY <1>1 DEF IInv, RequestsFit, RequestFits, ServerFits
<1> QED BY <1>2, <1>3, <1>4 DEF IInv

LEMMA TestStarts == ASSUME IInv, RunTest PROVE IInv'
<1> DEFINE c == Head(batch)
<1>1. /\ host = "dispatch" /\ host' = "run" /\ batch # <<>>
      /\ ran' = [ran EXCEPT ![c] = @ + 1]
      /\ UNCHANGED <<server, current, pipe, reply, client, pending, cancelled, settled, batch,
                     stopping, published>>
  BY DEF RunTest, HostGoes, IInv, QueueFits
<1>2. c = batch[1] /\ c \in Client /\ 1 \in 1 .. Len(batch)
  BY <1>1, Tailed DEF IInv, TypeOK
<1> HIDE DEF c
<1>3. /\ ran[c] = 0 /\ Open(c)
  BY <1>1, <1>2 DEF IInv, QueueFits
<1>4. TypeOK'
  <2>1. ran' \in [Client -> Nat]
    BY <1>1, <1>2, <1>3 DEF IInv, TypeOK
  <2>2. batch' \in Seq(Client) /\ Len(batch') <= BatchLimit
    BY <1>1 DEF IInv, TypeOK
  <2> QED BY <1>1, <2>1, <2>2 DEF IInv, TypeOK, HostAt
<1>5. /\ \A d \in Client : d # c => ran'[d] = ran[d]
      /\ ran'[c] = 1
  BY <1>1, <1>2, <1>3 DEF IInv, TypeOK
<1>6. /\ host = "dispatch" /\ host' = "run" /\ batch # <<>>
      /\ UNCHANGED <<server, current, reply, client, pending, cancelled, settled, batch>>
  BY <1>1
<1> HIDE <1>1
<1>7. /\ \A i \in 1 .. Len(pending) : pending[i] \in Client /\ pending[i] # c
      /\ \A j \in 1 .. Len(batch) : batch[j] \in Client /\ (batch[j] = c => j = 1)
  <2>1. /\ \A i \in 1 .. Len(pending) : pending[i] \in Client
        /\ \A j \in 1 .. Len(batch) : batch[j] \in Client
    BY Queued DEF IInv
  <2> QED BY <1>2, <2>1 DEF IInv, QueueFits, Distinct
<1>8. QueueFits'
  <2>1. (\A i \in 1 .. Len(pending) : Open(pending[i]) /\ ran[pending[i]] = 0)'
    BY <1>5, <1>6, <1>7 DEF IInv, QueueFits, Open
  <2>2. (\A j \in 1 .. Len(batch) :
           Open(batch[j]) /\ ran[batch[j]] = IF host = "run" /\ j = 1 THEN 1 ELSE 0)'
    BY <1>2, <1>5, <1>6, <1>7 DEF IInv, QueueFits, Open
  <2> QED BY <1>6, <2>1, <2>2 DEF IInv, QueueFits, Distinct
<1>9. RequestsFit'
  <2> SUFFICES ASSUME NEW d \in Client PROVE RequestFits(d)'
    BY DEF RequestsFit
  <2>1. RequestFits(d)
    BY DEF IInv, RequestsFit
  <2>2. CASE d = c
    BY <1>3, <1>5, <1>6, <2>1, <2>2 DEF RequestFits, Open
  <2>3. CASE d # c
    BY <1>5, <1>6, <2>1, <2>3 DEF RequestFits
  <2> QED BY <2>2, <2>3
<1>10. ServerFits'
  BY <1>6 DEF IInv, ServerFits
<1> QED BY <1>4, <1>8, <1>9, <1>10 DEF IInv

(* Stop has joined the server and answers what is left in the queue. *)
LEMMA Joins == ASSUME IInv, Join PROVE IInv'
<1>1. /\ server = "exited" /\ host = "join" /\ host' = "stopped" /\ published' = FALSE
      /\ pending' = <<>>
      /\ settled' = [c \in Client |-> IF c \in ToSet(pending) THEN Append(settled[c], "stopping")
                                      ELSE settled[c]]
      /\ UNCHANGED <<server, current, pipe, reply, client, cancelled, ran, batch, stopping>>
  BY DEF Join, HostGoes
<1>2. \A c \in ToSet(pending) : \E i \in 1 .. Len(pending) : pending[i] = c
  <2>1. DOMAIN pending = 1 .. Len(pending)
    BY Queued DEF IInv
  <2> QED BY <2>1 DEF ToSet
<1>3. \A c \in Client : \/ settled'[c] = settled[c] /\ c \notin ToSet(pending)
                        \/ settled'[c] = <<"stopping">> /\ c \in ToSet(pending)
  <2> SUFFICES ASSUME NEW c \in ToSet(pending), c \in Client PROVE Append(settled[c], "stopping") = <<"stopping">>
    BY <1>1
  <2>1. settled[c] = <<>>
    BY <1>2 DEF IInv, QueueFits, Open
  <2> QED BY <2>1
<1>4. TypeOK'
  <2>1. settled' \in [Client -> Seq(Answer)]
    <3>1. <<"stopping">> \in Seq(Answer)
      BY DEF Answer
    <3>2. \A c \in Client : settled'[c] \in Seq(Answer)
      BY <1>3, <3>1 DEF IInv, TypeOK
    <3> QED BY <1>1, <3>2
  <2>2. pending' \in Seq(Client) /\ Len(pending') <= QueueLimit
    BY <1>1
  <2> QED BY <1>1, <2>1, <2>2 DEF IInv, TypeOK, HostAt
<1>5. /\ pending' = <<>> /\ server = "exited" /\ host = "join" /\ host' = "stopped"
      /\ UNCHANGED <<server, current, reply, client, cancelled, ran, batch>>
  BY <1>1
<1> HIDE <1>1
<1>6. \A j \in 1 .. Len(batch) : batch[j] \in Client /\ batch[j] \notin ToSet(pending)
  <2>1. \A j \in 1 .. Len(batch) : batch[j] \in Client
    BY Queued DEF IInv
  <2> QED BY <1>2, <2>1 DEF IInv, QueueFits
<1>7. QueueFits'
  <2>1. (\A j \in 1 .. Len(batch) :
           Open(batch[j]) /\ ran[batch[j]] = IF host = "run" /\ j = 1 THEN 1 ELSE 0)'
    BY <1>3, <1>5, <1>6 DEF IInv, QueueFits, Open
  <2>2. Len(pending') = 0
    BY <1>5
  <2> QED BY <1>5, <2>1, <2>2 DEF IInv, QueueFits, Distinct
<1>8. RequestsFit'
  <2> SUFFICES ASSUME NEW c \in Client PROVE RequestFits(c)'
    BY DEF RequestsFit
  <2>1. RequestFits(c)
    BY DEF IInv, RequestsFit
  <2>2. CASE settled'[c] = settled[c]
    BY <1>5, <2>1, <2>2 DEF RequestFits
  <2>3. CASE settled'[c] = <<"stopping">> /\ c \in ToSet(pending)
    <3>1. client[c] \in {"read", "gone"}
      BY <1>2, <2>3 DEF IInv, QueueFits, Open
    <3> QED BY <1>5, <2>1, <2>3, <3>1 DEF RequestFits
  <2> QED BY <1>3, <2>2, <2>3
<1>9. ServerFits'
  BY <1>5 DEF IInv, ServerFits
<1> QED BY <1>4, <1>7, <1>8, <1>9 DEF IInv

(* --- the theorems ---------------------------------------------------------------- *)

LEMMA StepInvariant == IInv /\ [Next]_vars => IInv'
<1> SUFFICES ASSUME IInv, [Next]_vars PROVE IInv'
  OBVIOUS
<1>1. CASE UNCHANGED vars
  <2>1. UNCHANGED <<server, current, pipe, client, reply, pending, cancelled, settled, ran, host,
                    batch, stopping, published>>
    BY <1>1 DEF vars
  <2>2. TypeOK'
    BY <2>1 DEF IInv, TypeOK
  <2> QED BY <2>1, <2>2, RequestsUntouched DEF requests
<1>2. CASE ServerStep \/ CreateFails
  BY <1>2, ServerMoves, Refuses, Enqueues, Answers, Expires DEF ServerStep
<1>3. CASE TickStep \/ BeginStop \/ StopStep
  BY <1>3, HostMoves, TickBegins, Settles, Takes, TestStarts, Joins DEF TickStep, StopStep
<1>4. CASE \E c \in Client : Connect(c) \/ Send(c) \/ Finish(c) \/ CloseClient(c)
  BY <1>4, ClientMoves
<1> QED BY <1>1, <1>2, <1>3, <1>4 DEF Next

LEMMA Invariance == Spec => []IInv
  BY InitInvariant, StepInvariant, PTL DEF Spec

(* The queue and the batch stay within their limits, and every thread, client and   *)
(* promise in a state that dev_bridge.cpp has.                                       *)
THEOREM BridgeTypeCorrect == Spec => []TypeOK
<1>1. IInv => TypeOK
  BY DEF IInv
<1> QED BY Invariance, <1>1, PTL

(* What ServeClient tells a client is what Tick and Stop did with its request, and  *)
(* neither a promise nor a test is served twice.                                    *)
THEOREM ClientsAreToldTheTruth == Spec => []AnswersAreTrue
  BY Invariance, Truth, PTL

(* A request whose client was told that it timed out is not taken by a Tick any more, *)
(* and does not start unless the main thread had it in hand by then.                 *)
THEOREM ExpiredRequestsStayOut == Spec => ExpiredIsNotTaken
<1>1. IInv /\ [Next]_vars
        => [\A c \in Client : reply[c] = "timeout" /\ ~InHand(c) => ~InHand(c)' /\ ran'[c] = ran[c]]_vars
  <2> SUFFICES ASSUME IInv, Next, NEW c \in Client, reply[c] = "timeout", ~InHand(c)
               PROVE  ~InHand(c)' /\ ran'[c] = ran[c]
    BY DEF vars
  <2>1. c \in cancelled
    BY DEF IInv, RequestsFit, RequestFits
  <2>2. CASE LookAtMark
    BY <2>1, <2>2 DEF LookAtMark, HostGoes, InHand
  <2>3. CASE RunTest
    <3>1. /\ host = "dispatch" /\ batch' = batch /\ Head(batch) # c
          /\ ran' = [ran EXCEPT ![Head(batch)] = @ + 1]
      BY <2>3 DEF RunTest, HostGoes, InHand
    <3> QED BY <3>1 DEF InHand, IInv, TypeOK
  <2>4. CASE ~LookAtMark /\ ~RunTest
    <3>1. ASSUME NEW d \in Client, Connect(d) \/ Send(d) \/ Finish(d) \/ CloseClient(d)
          PROVE  UNCHANGED <<ran, host, batch>>
      BY <3>1 DEF Connect, Send, Finish, CloseClient
    <3>2. ASSUME ServerStep \/ CreateFails PROVE UNCHANGED <<ran, host, batch>>
      BY <3>2 DEF ServerStep, CheckStop, Create, CreateFails, Accept, Connected, BeginRead, EnterRead,
                  ReadFails, ReadStops, ClosePipe, RefuseRequest, Enqueue, AnswerReady, TimeOut,
                  MarkCancelled, TellTimeout
    <3>3. ASSUME TickStep \/ BeginStop \/ StopStep
          PROVE  ran' = ran /\ host' \notin {"dispatch", "run"}
      BY <2>4, <3>3 DEF TickStep, StopStep, BeginTick, SkipCancelled, TestReturns, EndTick, BeginStop,
                        CancelIo, WakeServer, Join, HostGoes
    <3> QED BY <3>1, <3>2, <3>3 DEF Next, InHand
  <2> QED BY <2>2, <2>3, <2>4
<1> QED BY Invariance, <1>1, PTL DEF Spec, ExpiredIsNotTaken

-----------------------------------------------------------------------------
(* The callback list                                                              *)

(* A caught fault is in the streak of its callback before it is in the count of   *)
(* an entry, and the count never exceeds the streak.  DroppedOnlyAfterStreak is   *)
(* about steps and says nothing of the counts; this is what makes it inductive.  *)
FaultsWithinStreak ==
    /\ returned = "fault" => streak[running] >= 1
    /\ \A c \in callbacks :
          LET unrecorded == IF c = running /\ returned = "fault" THEN 1 ELSE 0
          IN  (c = running /\ returned = "ok") \/ faults[c] + unrecorded <= streak[c]

MTInv == MTTypeOK /\ FaultsWithinStreak

USE DEF list, drain, images

LEMMA MTInitInvariant == MTInit => MTInv
<1> SUFFICES ASSUME MTInit PROVE MTInv
  OBVIOUS
<1>1. 0 \in 0 .. MaxFaults - 1 /\ 0 \in 0 .. MaxFaults
  BY MaxFaultsAssumption
<1>2. MTTypeOK
  BY <1>1 DEF MTInit, MTTypeOK
<1>3. FaultsWithinStreak
  BY DEF MTInit, FaultsWithinStreak
<1> QED BY <1>2, <1>3 DEF MTInv

(* Taking entries out leaves the counts of the others as they are. *)
LEMMA DropPreserves ==
  ASSUME MTInv, NEW gone, Drop(gone), UNCHANGED <<running, returned, streak>>
  PROVE  /\ callbacks' \subseteq Callback
         /\ faults' \in [Callback -> 0 .. MaxFaults - 1]
         /\ FaultsWithinStreak'
  BY MaxFaultsAssumption DEF MTInv, MTTypeOK, FaultsWithinStreak, Drop

(* Every step keeps the invariant; only a registration, the return of a call and  *)
(* its recording touch counts and streaks.                                       *)
LEMMA MTStepInvariant == MTInv /\ [MTNext]_mtVars => MTInv'
<1> SUFFICES ASSUME MTInv, [MTNext]_mtVars PROVE MTInv'
  OBVIOUS
<1> USE MaxFaultsAssumption, NoCallbackAssumption
<1>1. ASSUME NEW c \in Callback, Register(c) PROVE MTInv'
  <2>1. MTTypeOK'
    BY <1>1 DEF MTInv, MTTypeOK, Register
  <2>2. FaultsWithinStreak'
    BY <1>1 DEF MTInv, MTTypeOK, FaultsWithinStreak, Register
  <2> QED BY <2>1, <2>2 DEF MTInv
<1>2. ASSUME NEW c \in Callback, Unregister(c) PROVE MTInv'
  BY <1>2, DropPreserves DEF MTInv, MTTypeOK, Unregister
<1>3. ASSUME NEW m \in Module, UnregisterModule(m) PROVE MTInv'
  BY <1>3, DropPreserves DEF MTInv, MTTypeOK, UnregisterModule
<1>4. ASSUME NEW m \in Module, FreeModule(m) PROVE MTInv'
  BY <1>4 DEF MTInv, MTTypeOK, FaultsWithinStreak, FreeModule
<1>5. ASSUME NEW b \in BOOLEAN, SetAvailable(b) PROVE MTInv'
  <2>1. CASE b
    BY <1>5, <2>1 DEF MTInv, MTTypeOK, FaultsWithinStreak, SetAvailable
  <2>2. CASE ~b
    BY <1>5, <2>2, DropPreserves DEF MTInv, MTTypeOK, SetAvailable
  <2> QED BY <2>1, <2>2
<1>6. ASSUME BeginDrain PROVE MTInv'
  BY <1>6 DEF MTInv, MTTypeOK, FaultsWithinStreak, BeginDrain
<1>7. ASSUME Invoke PROVE MTInv'
  BY <1>7 DEF MTInv, MTTypeOK, FaultsWithinStreak, Invoke
<1>8. ASSUME NEW o \in {"ok", "fault"}, Return(o) PROVE MTInv'
  <2>1. MTTypeOK'
    BY <1>8 DEF MTInv, MTTypeOK, Return
  <2>2. FaultsWithinStreak'
    <3>1. CASE o = "ok"
      BY <1>8, <3>1 DEF MTInv, MTTypeOK, FaultsWithinStreak, Return
    <3>2. CASE o = "fault"
      BY <1>8, <3>2 DEF MTInv, MTTypeOK, FaultsWithinStreak, Return
    <3> QED BY <3>1, <3>2
  <2> QED BY <2>1, <2>2 DEF MTInv
<1>9. ASSUME RecordResult PROVE MTInv'
  <2>1. running \in Callback /\ returned \in {"ok", "fault"}
    BY <1>9 DEF MTInv, MTTypeOK, RecordResult
  <2>2. Charge \in Nat
    BY <2>1 DEF MTInv, MTTypeOK, Charge
  <2>3. MTTypeOK'
    BY <1>9, <2>1, <2>2 DEF MTInv, MTTypeOK, RecordResult, Drop
  <2>4. ASSUME NEW c \in callbacks' PROVE faults'[c] <= streak[c]
    BY <1>9, <2>1, <2>2, <2>4 DEF MTInv, MTTypeOK, FaultsWithinStreak, RecordResult, Drop, Charge
  <2>5. FaultsWithinStreak'
    BY <1>9, <2>1, <2>3, <2>4 DEF MTInv, MTTypeOK, FaultsWithinStreak, RecordResult
  <2> QED BY <2>3, <2>5 DEF MTInv
<1>10. CASE UNCHANGED mtVars
  BY <1>10 DEF MTInv, MTTypeOK, FaultsWithinStreak, mtVars
<1> QED BY <1>1, <1>2, <1>3, <1>4, <1>5, <1>6, <1>7, <1>8, <1>9, <1>10 DEF MTNext, DrainStep

(* The type invariant: in particular no entry of the list survives its MaxFaults- *)
(* th consecutive fault.                                                         *)
THEOREM ListTypeCorrect == MTSpec => []MTTypeOK
<1>1. MTInv => MTTypeOK
  BY DEF MTInv
<1> QED BY MTInitInvariant, MTStepInvariant, <1>1, PTL DEF MTSpec

(* RecordCallbackResult drops a callback only after MaxFaults faults in a row,    *)
(* although it finds the entry by address and the registration it finds may be a  *)
(* later one than the one that was called.                                       *)
THEOREM DropsAreDeserved == MTSpec => DroppedOnlyAfterStreak
<1> DEFINE Deserved ==
      \A c \in Callback :
          (returned # "no" /\ returned' = "no" /\ c \in callbacks /\ c \notin callbacks')
             => streak[c] = MaxFaults
<1>1. ASSUME MTInv, [MTNext]_mtVars PROVE [Deserved]_mtVars
  <2> SUFFICES ASSUME MTNext, NEW c \in Callback, returned # "no", returned' = "no",
                      c \in callbacks, c \notin callbacks'
               PROVE  streak[c] = MaxFaults
    BY <1>1
  <2>1. RecordResult
    BY DEF MTNext, DrainStep, Register, Unregister, UnregisterModule, FreeModule, SetAvailable,
           BeginDrain, Invoke, Return
  <2>2. c = running /\ Charge >= MaxFaults
    BY <1>1, <2>1 DEF RecordResult, Drop
  <2>3. returned = "fault"
    BY <1>1, <2>2, MaxFaultsAssumption DEF MTInv, MTTypeOK, Charge
  <2> QED BY <1>1, <2>2, <2>3, MaxFaultsAssumption DEF MTInv, MTTypeOK, FaultsWithinStreak, Charge
<1> QED BY MTInitInvariant, MTStepInvariant, <1>1, PTL DEF MTSpec, DroppedOnlyAfterStreak
=================================================================================
