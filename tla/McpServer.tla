------------------------------- MODULE McpServer -------------------------------
(* mcp/server: the MCP server of a mod project.                                 *)
(*                                                                             *)
(* One thread reads the client's messages.  A tools/call gets a thread of its   *)
(* own, MaxWorkers of them at most; build_mod and deploy_mod hold the project's *)
(* mutex, and a build starts two CMake processes, one after the other.  A       *)
(* notifications/cancelled marks the call and terminates the process it runs;   *)
(* the end of the input cancels every call and joins the threads.               *)
(*                                                                             *)
(* A call is named by its request id, which no client uses twice.  What a tool  *)
(* computes and the text of an answer are left out, except that a text may not  *)
(* be UTF-8: nlohmann's dump throws for it.                                     *)
EXTENDS Naturals, FiniteSets

CONSTANTS Call,
          Builds, Deploys,   \* the calls of build_mod and of deploy_mod
          Unprintable,       \* the calls whose result is not UTF-8
          MaxWorkers,        \* 4 in the code
          NoCall

ASSUME CallAssumption ==
    /\ Builds \subseteq Call /\ Deploys \subseteq Call \ Builds
    /\ Unprintable \subseteq Call /\ NoCall \notin Call
ASSUME WorkersAssumption == MaxWorkers \in Nat \ {0}

VARIABLES
    up,           \* std::terminate was not called
    session,      \* JsonRpcSession::state_
    reader,       \* where the reading thread is
    toCancel,     \* the workers its last loop has still to cancel
    active,       \* activeWorkers
    stage,        \* per call, where its thread is
    run,          \* per build, the CMake process it is at: 1 configures, 2 builds
    project,      \* who holds ProjectService::mutationMutex_
    child,        \* per build, the CMake process it holds: "killed" is terminated, not gone yet
    published,    \* the calls whose ProcessCancellation::process_ is set
    orphans,      \* the processes, by build and run, that run on with no handle held
    cancelled,    \* the calls with Cancellation::cancelled and requested_
    responding,   \* the calls with responseStarted
    answers,      \* per call, the responses written
    asked         \* the calls whose cancellation the client sent

readerVars == <<up, session, reader, toCancel>>
childVars == <<run, child, published, orphans>>
vars == <<readerVars, active, stage, project, childVars, cancelled, responding,
          answers, asked>>

Sessions == {"new", "handshake", "open"}
Executing == {"asking", "queued", "copying", "check", "create", "created",
              "waiting", "unawaited", "grace", "ended"}
Finishing == {"respond", "emit", "release"}
Left == {"leaving", "done"}

TypeOK ==
    /\ up \in BOOLEAN /\ session \in Sessions
    /\ reader \in {"read", "cancelling", "joining", "exited"}
    /\ toCancel \in SUBSET Call
    /\ active \in 0..MaxWorkers
    /\ stage \in [Call -> Executing \cup Finishing \cup Left \cup {"new", "refused"}]
    /\ run \in [Builds -> 1..2]
    /\ project \in Builds \cup Deploys \cup {NoCall}
    /\ child \in [Builds -> {"gone", "running", "killed"}]
    /\ published \in SUBSET Builds /\ orphans \in SUBSET (Builds \X (1..2))
    /\ cancelled \in SUBSET Call /\ responding \in SUBSET (Call \ cancelled)
    /\ answers \in [Call -> Nat]
    /\ asked \in SUBSET Call

Init ==
    /\ up = TRUE /\ session = "new"
    /\ reader = "read" /\ toCancel = {} /\ active = 0
    /\ stage = [c \in Call |-> "new"]
    /\ run = [c \in Builds |-> 1]
    /\ project = NoCall
    /\ child = [c \in Builds |-> "gone"] /\ published = {}
    /\ orphans = {}
    /\ cancelled = {} /\ responding = {}
    /\ answers = [c \in Call |-> 0] /\ asked = {}

--------------------------------------------------------------------------------
(* The reading thread                                                           *)

(* The workers that are not over.  A worker that is over stays in the vector    *)
(* until the next line is read, and a cancellation does nothing to it.          *)
Workers == {c \in Call : stage[c] \notin {"new", "refused", "done"}}

Reading ==
    /\ up /\ reader = "read"
    /\ UNCHANGED <<up, reader, toCancel, run, project, child, orphans, responding>>

(* Permits: an initialize and its notification, or the metadata of a first      *)
(* modern request, open the session; a first request that is a call is then     *)
(* taken as a call of the open session.  A client does not initialize a session *)
(* that is open.                                                                *)
Handshake ==
    /\ Reading
    /\ \/ session = "new" /\ session' \in {"handshake", "open"}
       \/ session = "handshake" /\ session' = "open"
    /\ UNCHANGED <<active, stage, published, cancelled, answers, asked>>

FirstStage(c) == IF c \in Builds \cup Deploys THEN "queued" ELSE "asking"

(* tools/call: it is refused, it is given a thread, or no thread can be made.   *)
Refusal(c) ==
    /\ stage[c] = "new"
    /\ stage' = [stage EXCEPT ![c] = "refused"]
    /\ answers' = [answers EXCEPT ![c] = @ + 1]

(* By Permits, for its metadata, its name or its arguments, or because the      *)
(* server is busy.                                                              *)
CallIsRefused(c) ==
    /\ Reading
    /\ Refusal(c)
    /\ UNCHANGED <<session, active, published, cancelled, asked>>

\* Mutant: the calls that are active are not counted.
Roomless == session = "open"

HasRoom == session = "open" /\ active < MaxWorkers

\* Mutant: the slot is not given back when no thread can be made.
KeepsSlot(c) ==
    /\ Reading /\ HasRoom
    /\ Refusal(c)
    /\ active' = active + 1
    /\ UNCHANGED <<session, published, cancelled, asked>>

NoThreadForCall(c) ==
    /\ Reading /\ HasRoom
    /\ Refusal(c)
    /\ active' = active + 1 - 1
    /\ UNCHANGED <<session, published, cancelled, asked>>

StartCall(c) ==
    /\ up /\ reader = "read" /\ HasRoom
    /\ stage[c] = "new"
    /\ active' = active + 1
    /\ stage' = [stage EXCEPT ![c] = FirstStage(c)]
    /\ UNCHANGED <<up, session, reader, toCancel, project, childVars, cancelled,
                   responding, answers, asked>>

(* Cancellation::Cancel with ProcessCancellation::Cancel, for the workers of a  *)
(* set: nothing once the response has begun.                                    *)
CancelEach(set) ==
    LET hit == set \ responding
    IN /\ cancelled' = cancelled \cup hit
       /\ child' = [c \in Builds |-> IF c \in hit \cap published /\ child[c] = "running"
                                     THEN "killed" ELSE child[c]]

CancelCall(c) ==
    /\ up /\ reader = "read"
    /\ stage[c] \in Executing \cup Finishing
    /\ CancelEach({c})
    /\ asked' = asked \cup {c}
    /\ UNCHANGED <<up, session, reader, toCancel, active, stage, run, project,
                   published, orphans, responding, answers>>

(* The input ends, or reading it fails.                                         *)
EndOfInput ==
    /\ up /\ reader = "read" /\ reader' = "cancelling"
    /\ toCancel' = Workers
    /\ UNCHANGED <<up, session, active, stage, project, childVars, cancelled, responding,
                   answers, asked>>

CancelNext(c) ==
    /\ up /\ reader = "cancelling" /\ c \in toCancel
    /\ toCancel' = toCancel \ {c}
    /\ CancelEach({c})
    /\ UNCHANGED <<up, session, reader, active, stage, run, project,
                   published, orphans, responding, answers, asked>>

JoinAll ==
    /\ up /\ reader = "cancelling" /\ toCancel = {}
    /\ reader' = "joining"
    /\ UNCHANGED <<up, session, toCancel, active, stage, project, childVars,
                   cancelled, responding, answers, asked>>

Exit ==
    /\ up /\ reader = "joining" /\ Workers = {}
    /\ reader' = "exited"
    /\ UNCHANGED <<up, session, toCancel, active, stage, project, childVars, cancelled,
                   responding, answers, asked>>

--------------------------------------------------------------------------------
(* The thread of a call                                                         *)

Moves(c, from, to) ==
    /\ up /\ stage[c] = from
    /\ stage' = [stage EXCEPT ![c] = to]

(* project_info and read_logs; the bridge's tools return because the bridge     *)
(* answers every request (DevBridge).                                           *)
ToolReturns(c) ==
    /\ Moves(c, "asking", "respond")
    /\ UNCHANGED <<readerVars, active, project, childVars, cancelled, responding,
                   answers, asked>>

(* Build and Deploy: the mutex, then what they read of the project.             *)
LockProject(c) ==
    /\ project = NoCall /\ project' = c
    /\ Moves(c, "queued", IF c \in Builds THEN "check" ELSE "copying")
    /\ UNCHANGED <<readerVars, active, childVars, cancelled, responding, answers, asked>>

(* An early return of Build, a return of Deploy.                                *)
Returns(c, from) ==
    /\ Moves(c, from, "respond")
    /\ project' = NoCall
    /\ run' = [x \in Builds |-> IF x = c THEN 1 ELSE run[x]]
    /\ UNCHANGED <<readerVars, active, cancelled, responding, answers, asked>>

DeployReturns(c) ==
    /\ Returns(c, "copying")
    /\ UNCHANGED <<child, published, orphans>>

(* The preset is refused or CMake cannot be started.                            *)
BuildFails(c) ==
    /\ Returns(c, "check") \/ Returns(c, "create")
    /\ UNCHANGED <<child, published, orphans>>

CheckRequested(c) ==
    /\ c \notin cancelled
    /\ Moves(c, "check", "create")
    /\ UNCHANGED <<readerVars, active, project, childVars, cancelled, responding,
                   answers, asked>>

CreateChild(c) ==
    /\ Moves(c, "create", "created")
    /\ child' = [child EXCEPT ![c] = "running"]
    /\ UNCHANGED <<readerVars, active, project, run, published, orphans, cancelled, responding,
                   answers, asked>>

\* Mutant: a cancellation that came before the handle was there is forgotten.
PublishOnly(c) ==
    /\ Moves(c, "created", "waiting")
    /\ published' = published \cup {c}
    /\ UNCHANGED <<readerVars, active, project, run, child, orphans, cancelled, responding,
                   answers, asked>>

PublishChild(c) ==
    /\ Moves(c, "created", "waiting")
    /\ published' = published \cup {c}
    /\ child' = [child EXCEPT ![c] = IF c \in cancelled /\ @ = "running"
                                     THEN "killed" ELSE @]
    /\ UNCHANGED <<readerVars, active, project, run, orphans, cancelled, responding,
                   answers, asked>>

ChildIsAwaited(c) ==
    /\ child[c] = "gone"
    /\ Moves(c, "waiting", "ended")
    /\ UNCHANGED <<readerVars, active, project, childVars, cancelled, responding,
                   answers, asked>>

\* Mutant: what a cancellation has terminated is awaited without a limit.
WaitsForKilled(c) ==
    /\ child[c] = "running"
    /\ Moves(c, "waiting", "grace")
    /\ child' = [child EXCEPT ![c] = "killed"]
    /\ UNCHANGED <<readerVars, active, project, run, published, orphans, cancelled, responding,
                   answers, asked>>

(* WAIT_TIMEOUT: the process is terminated and given five seconds.              *)
WaitTimesOut(c) ==
    /\ child[c] # "gone"
    /\ Moves(c, "waiting", "grace")
    /\ child' = [child EXCEPT ![c] = "killed"]
    /\ UNCHANGED <<readerVars, active, project, run, published, orphans, cancelled, responding,
                   answers, asked>>

(* The wait fails: nothing terminates the process, whatever it does.            *)
WaitFails(c) ==
    /\ Moves(c, "waiting", "unawaited")
    /\ UNCHANGED <<readerVars, active, project, childVars, cancelled, responding,
                   answers, asked>>

(* RunProcess forgets the handle and reads requested_, under ProcessCancellation's *)
(* mutex.  A process that was not awaited runs on, out of Cancel's reach.       *)
Forgets(c) ==
    /\ published' = published \ {c}
    /\ orphans' = IF child[c] = "running" THEN orphans \cup {<<c, run[c]>>} ELSE orphans
    /\ child' = [child EXCEPT ![c] = IF @ = "running" THEN "gone" ELSE @]

(* Build returns.                                                               *)
RunReturns(c) ==
    /\ Returns(c, "ended") \/ Returns(c, "grace") \/ Returns(c, "unawaited")
    /\ Forgets(c)

(* The same with an exit code of 0, which it also is when it cannot be read: the *)
(* configured project is built.                                                 *)
Configured(c) ==
    /\ run[c] = 1 /\ c \notin cancelled
    /\ Moves(c, "ended", "check") \/ Moves(c, "unawaited", "check")
    /\ run' = [run EXCEPT ![c] = 2]
    /\ Forgets(c)
    /\ UNCHANGED <<readerVars, active, project, cancelled, responding, answers, asked>>

\* Mutant: BeginResponse does not look whether the call was cancelled.
RespondsAnyway(c) ==
    /\ Moves(c, "respond", "emit")
    /\ responding' = responding \cup {c}
    /\ UNCHANGED <<readerVars, active, project, childVars, cancelled, answers, asked>>

BeginResponse(c) ==
    /\ c \notin cancelled
    /\ Moves(c, "respond", "emit")
    /\ responding' = responding \cup {c}
    /\ UNCHANGED <<readerVars, active, project, childVars, cancelled, answers, asked>>

Suppress(c) ==
    /\ c \in cancelled
    /\ Moves(c, "respond", "release")
    /\ UNCHANGED <<readerVars, active, project, childVars, cancelled, responding,
                   answers, asked>>

Emit(c) ==
    /\ c \notin Unprintable
    /\ Moves(c, "emit", "release")
    /\ answers' = [answers EXCEPT ![c] = @ + 1]
    /\ UNCHANGED <<readerVars, active, project, childVars, cancelled, responding, asked>>

(* dump throws, nothing on this thread catches: std::terminate.                 *)
EmitThrows(c) ==
    /\ up /\ stage[c] = "emit" /\ c \in Unprintable
    /\ up' = FALSE
    /\ UNCHANGED <<session, reader, toCancel, active, stage, project, childVars,
                   cancelled, responding, answers, asked>>

ReleaseSlot(c) ==
    /\ Moves(c, "release", "leaving")
    /\ active' = active - 1
    /\ UNCHANGED <<readerVars, project, childVars, cancelled, responding, answers, asked>>

StoreDone(c) ==
    /\ Moves(c, "leaving", "done")
    /\ UNCHANGED <<readerVars, active, project, childVars, cancelled, responding,
                   answers, asked>>

(* The CMake process ends, of itself or terminated.                             *)
ChildExits(c) ==
    /\ child[c] \in {"running", "killed"}
    /\ child' = [child EXCEPT ![c] = "gone"]
    /\ UNCHANGED <<readerVars, active, stage, project, run, published, orphans, cancelled,
                   responding, answers, asked>>

OrphanExits(process) ==
    /\ process \in orphans /\ orphans' = orphans \ {process}
    /\ UNCHANGED <<readerVars, active, stage, project, run, child, published, cancelled,
                   responding, answers, asked>>

--------------------------------------------------------------------------------

Client ==
    \/ Handshake
    \/ \E c \in Call :
           CallIsRefused(c) \/ NoThreadForCall(c) \/ StartCall(c) \/ CancelCall(c)
    \/ EndOfInput

Closing == JoinAll \/ Exit \/ \E c \in Call : CancelNext(c)

Build(c) ==
    BuildFails(c) \/ CheckRequested(c) \/ CreateChild(c) \/ PublishChild(c)
    \/ ChildIsAwaited(c) \/ WaitTimesOut(c) \/ RunReturns(c) \/ Configured(c)

Worker(c) ==
    \/ ToolReturns(c)
    \/ c \in Builds \cup Deploys /\ LockProject(c)
    \/ c \in Deploys /\ DeployReturns(c)
    \/ c \in Builds /\ Build(c)
    \/ BeginResponse(c) \/ Suppress(c) \/ Emit(c) \/ EmitThrows(c)
    \/ ReleaseSlot(c) \/ StoreDone(c)

Next ==
    \/ Client \/ Closing
    \/ \E c \in Call : Worker(c)
    \/ \E c \in Builds : WaitFails(c) \/ ChildExits(c)
    \/ \E process \in orphans : OrphanExits(process)

Spec == Init /\ [][Next]_vars

(* Threads run; that the client sends or ends anything, that CMake ends by      *)
(* itself, or that a wait for it ever fails, is not assumed.                    *)
Fairness == WF_vars(Closing) /\ \A c \in Call : WF_vars(Worker(c))

FairSpec == Spec /\ Fairness

--------------------------------------------------------------------------------
(* Properties                                                                   *)

Occupying == {c \in Call : stage[c] \in Executing \cup Finishing}

(* A slot is taken for as long as a call's thread works and is given back       *)
(* whatever became of the call: activeWorkers is the number of those threads.   *)
SlotsAreCalls == active = Cardinality(Occupying)

(* The only process held by a cancelled call that may run unterminated is one   *)
(* that was created and whose handle is not published yet.                      *)
ChildrenAreKilled ==
    \A c \in cancelled \cap Builds : child[c] = "running" => stage[c] = "created"

(* Cancel and RunProcess do not miss each other: after every step what a        *)
(* cancelled call holds is terminated, or about to be, and a call that has been *)
(* cancelled leaves no process behind, even when the wait for it fails.  (When   *)
(* the call is cancelled only after a failed wait has made it forget a process, *)
(* that process is out of reach.)                                               *)
CancelledChildIsKilled ==
    [][ /\ ChildrenAreKilled'
        /\ \A c \in cancelled, n \in 1..2 : <<c, n>> \in orphans' => <<c, n>> \in orphans ]_vars

(* Once the input is over the server exits, however long CMake would have run,  *)
(* unless the writing of an answer brings it down.                              *)
ServerExits == reader = "cancelling" ~> (reader = "exited" \/ ~up)

(* Every call that was read is answered once, or was cancelled: ToolCalls.      *)
CallStatus(c) ==
    CASE stage[c] = "new" -> "new"
      [] stage[c] \in Executing \cup {"respond", "emit"} /\ c \notin cancelled -> "open"
      [] OTHER -> "closed"

Abstract == INSTANCE ToolCalls
    WITH call <- [c \in Call |-> CallStatus(c)],
         ended <- reader # "read"

RefinesToolCalls == Abstract!Spec
=============================================================================
