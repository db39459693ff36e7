---------------------------- MODULE McpServerProofs ----------------------------
(* Theorems about the MCP server, for any calls and any number of workers.        *)
EXTENDS McpServer, FiniteSetTheorems, TLAPS

Stages == Executing \cup Finishing \cup Left \cup {"new", "refused"}

(* The slots in use are counted, so that there are finitely many is part of it.   *)
SlotsFit == IsFiniteSet(Occupying) /\ SlotsAreCalls

(* A held process that runs, not terminated, belongs to a thread that has yet to  *)
(* publish it, waits for it or has failed to, and the latter two have published   *)
(* it.  So Cancel finds the handle, or PublishChild still comes and finds the      *)
(* cancellation: ChildrenAreKilled alone does not say where a thread with a       *)
(* process is.                                                                   *)
ChildrenFit ==
    \A c \in Builds :
        /\ child[c] = "running" => stage[c] \in {"created", "waiting", "unawaited"}
        /\ stage[c] \in {"waiting", "unawaited"} => c \in published

IInv == TypeOK /\ SlotsFit /\ ChildrenFit /\ ChildrenAreKilled

USE CallAssumption, WorkersAssumption DEF readerVars, childVars

LEMMA InitInvariant == Init => IInv
<1> SUFFICES ASSUME Init PROVE IInv
  OBVIOUS
<1>1. TypeOK
  BY DEF Init, TypeOK, Sessions
<1>2. SlotsFit
  <2>1. Occupying = {}
    BY DEF Init, Occupying, Executing, Finishing
  <2> QED BY <2>1, FS_EmptySet DEF Init, SlotsFit, SlotsAreCalls
<1>3. ChildrenFit /\ ChildrenAreKilled
  BY DEF Init, ChildrenFit, ChildrenAreKilled
<1> QED BY <1>1, <1>2, <1>3 DEF IInv

(* --- slots ------------------------------------------------------------------ *)

LEMMA SlotKept ==
  ASSUME IInv, UNCHANGED active, NEW c \in Call, NEW to \in Stages,
         stage' = [stage EXCEPT ![c] = to],
         stage[c] \in Executing \cup Finishing <=> to \in Executing \cup Finishing
  PROVE  SlotsFit'
<1>1. Occupying' = Occupying
  BY DEF IInv, TypeOK, Occupying
<1> QED BY <1>1 DEF IInv, SlotsFit, SlotsAreCalls

LEMMA SlotTaken ==
  ASSUME IInv, active' = active + 1, NEW c \in Call, stage[c] = "new",
         NEW to \in Executing, stage' = [stage EXCEPT ![c] = to]
  PROVE  SlotsFit'
<1>1. Occupying' = Occupying \cup {c} /\ c \notin Occupying
  BY DEF IInv, TypeOK, Occupying, Executing, Finishing
<1> QED BY <1>1, FS_AddElement DEF IInv, SlotsFit, SlotsAreCalls

LEMMA SlotReturned ==
  ASSUME IInv, NEW c \in Call, ReleaseSlot(c)
  PROVE  SlotsFit' /\ active' \in 0..MaxWorkers
<1>1. Occupying' = Occupying \ {c} /\ c \in Occupying
  BY DEF IInv, TypeOK, Occupying, Executing, Finishing, ReleaseSlot, Moves
<1>2. IsFiniteSet(Occupying') /\ Cardinality(Occupying') = Cardinality(Occupying) - 1
  BY <1>1, FS_RemoveElement DEF IInv, SlotsFit
<1>3. Cardinality(Occupying) \in Nat /\ Cardinality(Occupying') \in Nat
  BY <1>2, FS_CardinalityType DEF IInv, SlotsFit
<1>4. active' = active - 1 /\ active \in 0..MaxWorkers /\ active = Cardinality(Occupying)
  BY DEF IInv, TypeOK, SlotsFit, SlotsAreCalls, ReleaseSlot
<1> QED BY <1>2, <1>3, <1>4 DEF SlotsFit, SlotsAreCalls

LEMMA SlotsUntouched == IInv /\ UNCHANGED <<active, stage>> => SlotsFit'
  BY DEF IInv, SlotsFit, SlotsAreCalls, Occupying

(* --- the reading thread ----------------------------------------------------- *)

(* A call's fresh or refused thread has no process yet. *)
LEMMA ChildrenKept ==
  ASSUME IInv, UNCHANGED <<child, published, cancelled>>, NEW c \in Call, NEW to \in Stages,
         stage' = [stage EXCEPT ![c] = to],
         stage[c] \notin {"created", "waiting", "unawaited"}, to \notin {"waiting", "unawaited"}
  PROVE  (ChildrenFit /\ ChildrenAreKilled)'
  BY DEF IInv, TypeOK, ChildrenFit, ChildrenAreKilled

(* What Cancel does to the processes. *)
LEMMA CancelPreserves ==
  ASSUME IInv, NEW c \in Call, CancelEach({c}), UNCHANGED <<stage, published, orphans, responding>>
  PROVE  /\ child' \in [Builds -> {"gone", "running", "killed"}]
         /\ cancelled' \in SUBSET Call /\ responding' \in SUBSET (Call \ cancelled')
         /\ (ChildrenFit /\ ChildrenAreKilled)'
<1>1. cancelled' = cancelled \cup ({c} \ responding)
  BY DEF CancelEach
<1>2. child' = [x \in Builds |-> IF x \in ({c} \ responding) \cap published /\ child[x] = "running"
                                 THEN "killed" ELSE child[x]]
  BY DEF CancelEach
<1>3. /\ child' \in [Builds -> {"gone", "running", "killed"}]
      /\ cancelled' \in SUBSET Call /\ responding' \in SUBSET (Call \ cancelled')
  BY <1>1, <1>2 DEF IInv, TypeOK
<1>4. (ChildrenFit /\ ChildrenAreKilled)'
  BY <1>1, <1>2 DEF IInv, TypeOK, ChildrenFit, ChildrenAreKilled
<1> QED BY <1>3, <1>4

LEMMA ReaderSteps ==
  ASSUME IInv, Client \/ Closing PROVE IInv'
<1>1. ASSUME Handshake PROVE IInv'
  BY <1>1, SlotsUntouched
     DEF Handshake, Reading, IInv, TypeOK, Sessions, ChildrenFit, ChildrenAreKilled
<1>2. ASSUME NEW c \in Call, CallIsRefused(c) \/ NoThreadForCall(c) PROVE IInv'
  <2>1. /\ stage' = [stage EXCEPT ![c] = "refused"] /\ stage[c] = "new"
        /\ answers' = [answers EXCEPT ![c] = @ + 1]
        /\ active' = active
        /\ UNCHANGED <<session, readerVars, project, childVars, cancelled, responding, asked>>
    BY <1>2 DEF CallIsRefused, NoThreadForCall, Reading, Refusal, IInv, TypeOK
  <2>2. TypeOK'
    BY <2>1 DEF IInv, TypeOK
  <2>3. SlotsFit'
    BY <2>1, SlotKept DEF Stages, Executing, Finishing
  <2>4. (ChildrenFit /\ ChildrenAreKilled)'
    <3>1. "refused" \in Stages /\ UNCHANGED <<child, published, cancelled>>
      BY <2>1 DEF Stages
    <3> QED BY <2>1, <3>1, ChildrenKept
  <2> QED BY <2>2, <2>3, <2>4 DEF IInv
<1>3. ASSUME NEW c \in Call, StartCall(c) PROVE IInv'
  <2>1. TypeOK'
    BY <1>3 DEF StartCall, HasRoom, FirstStage, Executing, IInv, TypeOK
  <2>2. SlotsFit'
    BY <1>3, SlotTaken DEF StartCall, FirstStage, Executing
  <2>3. (ChildrenFit /\ ChildrenAreKilled)'
    <3>1. PICK to \in {"queued", "asking"} : stage' = [stage EXCEPT ![c] = to]
      BY <1>3 DEF StartCall, FirstStage
    <3>2. stage[c] = "new" /\ UNCHANGED <<child, published, cancelled>>
      BY <1>3 DEF StartCall
    <3> QED BY <3>1, <3>2, ChildrenKept DEF Stages, Executing
  <2> QED BY <2>1, <2>2, <2>3 DEF IInv
<1>4. ASSUME NEW c \in Call, CancelCall(c) \/ CancelNext(c) PROVE IInv'
  <2>1. CancelEach({c}) /\ UNCHANGED <<active, stage, run, project, published, orphans, responding, answers>>
    BY <1>4 DEF CancelCall, CancelNext
  <2>2. TypeOK'
    BY <1>4, <2>1, CancelPreserves DEF CancelCall, CancelNext, IInv, TypeOK
  <2> QED BY <2>1, <2>2, CancelPreserves, SlotsUntouched DEF IInv
<1>5. ASSUME EndOfInput \/ JoinAll \/ Exit PROVE IInv'
  <2>1. UNCHANGED <<active, stage, project, childVars, cancelled, responding, answers, asked>>
    BY <1>5 DEF EndOfInput, JoinAll, Exit
  <2>2. TypeOK'
    BY <1>5, <2>1 DEF EndOfInput, JoinAll, Exit, Workers, IInv, TypeOK
  <2> QED BY <2>1, <2>2, SlotsUntouched DEF IInv, ChildrenFit, ChildrenAreKilled
<1> QED BY <1>1, <1>2, <1>3, <1>4, <1>5 DEF Client, Closing

(* --- the thread of a call --------------------------------------------------- *)

LEMMA ToolSteps ==
  ASSUME IInv, NEW c \in Call,
         ToolReturns(c) \/ DeployReturns(c) \/ BuildFails(c)
           \/ (c \in Builds \cup Deploys /\ LockProject(c)) \/ (c \in Builds /\ CheckRequested(c))
  PROVE  IInv'
<1>1. PICK to \in {"check", "copying", "create", "respond"} :
        /\ stage' = [stage EXCEPT ![c] = to]
        /\ stage[c] \in {"asking", "queued", "copying", "check", "create"}
  BY DEF ToolReturns, DeployReturns, BuildFails, LockProject, CheckRequested, Returns, Moves
<1>2. /\ UNCHANGED <<readerVars, active, child, published, orphans, cancelled, responding, answers, asked>>
      /\ project' \in {project, c, NoCall} /\ (project' = c => c \in Builds \cup Deploys \/ project' = project)
      /\ run' \in {run, [x \in Builds |-> IF x = c THEN 1 ELSE run[x]]}
  BY DEF ToolReturns, DeployReturns, BuildFails, LockProject, CheckRequested, Returns, Moves
<1>3. TypeOK'
  BY <1>1, <1>2 DEF IInv, TypeOK, Executing, Finishing
<1>4. SlotsFit'
  BY <1>1, <1>2, SlotKept DEF Stages, Executing, Finishing
<1>5. (ChildrenFit /\ ChildrenAreKilled)'
  BY <1>1, <1>2, ChildrenKept DEF Stages, Executing, Finishing
<1> QED BY <1>3, <1>4, <1>5 DEF IInv

LEMMA ChildSteps ==
  ASSUME IInv, NEW c \in Builds,
         CreateChild(c) \/ PublishChild(c) \/ ChildIsAwaited(c) \/ WaitTimesOut(c) \/ WaitFails(c)
           \/ RunReturns(c) \/ Configured(c) \/ ChildExits(c)
  PROVE  IInv'
<1> c \in Call
  OBVIOUS
<1>1. TypeOK'
  BY DEF CreateChild, PublishChild, ChildIsAwaited, WaitTimesOut, WaitFails, RunReturns, Configured,
         ChildExits, Returns, Forgets, Moves, IInv, TypeOK, Executing, Finishing
<1>2. SlotsFit'
  <2>1. CASE ChildExits(c)
    BY <2>1, SlotsUntouched DEF ChildExits
  <2>2. CASE ~ChildExits(c)
    <3>1. PICK to \in {"created", "waiting", "unawaited", "ended", "grace", "respond", "check"} :
            /\ stage' = [stage EXCEPT ![c] = to] /\ active' = active
            /\ stage[c] \in {"create", "created", "waiting", "unawaited", "ended", "grace"}
      BY <2>2 DEF CreateChild, PublishChild, ChildIsAwaited, WaitTimesOut, WaitFails, RunReturns,
                  Configured, Returns, Moves
    <3> QED BY <3>1, SlotKept DEF Stages, Executing, Finishing
  <2> QED BY <2>1, <2>2
<1>3. (ChildrenFit /\ ChildrenAreKilled)'
  BY DEF CreateChild, PublishChild, ChildIsAwaited, WaitTimesOut, WaitFails, RunReturns, Configured,
         ChildExits, Returns, Forgets, Moves, IInv, TypeOK, ChildrenFit, ChildrenAreKilled
<1> QED BY <1>1, <1>2, <1>3 DEF IInv

LEMMA ResponseSteps ==
  ASSUME IInv, NEW c \in Call,
         BeginResponse(c) \/ Suppress(c) \/ Emit(c) \/ EmitThrows(c) \/ ReleaseSlot(c) \/ StoreDone(c)
  PROVE  IInv'
<1>1. CASE EmitThrows(c)
  <2>1. TypeOK'
    BY <1>1 DEF EmitThrows, IInv, TypeOK
  <2> QED BY <1>1, <2>1, SlotsUntouched DEF EmitThrows, IInv, ChildrenFit, ChildrenAreKilled
<1>2. CASE ReleaseSlot(c)
  <2>1. TypeOK'
    BY <1>2, SlotReturned DEF ReleaseSlot, Moves, IInv, TypeOK, Left
  <2>2. (ChildrenFit /\ ChildrenAreKilled)'
    <3>1. /\ "leaving" \in Stages /\ UNCHANGED <<child, published, cancelled>>
          /\ stage' = [stage EXCEPT ![c] = "leaving"] /\ stage[c] = "release"
      BY <1>2 DEF ReleaseSlot, Moves, Stages, Left
    <3> QED BY <3>1, ChildrenKept
  <2> QED BY <1>2, <2>1, <2>2, SlotReturned DEF IInv
<1>3. CASE BeginResponse(c) \/ Suppress(c) \/ Emit(c) \/ StoreDone(c)
  <2>1. TypeOK'
    BY <1>3 DEF BeginResponse, Suppress, Emit, StoreDone, Moves, IInv, TypeOK, Finishing, Left
  <2>2. PICK to \in {"emit", "release", "done"} :
          /\ stage' = [stage EXCEPT ![c] = to]
          /\ stage[c] = IF to = "done" THEN "leaving" ELSE stage[c]
          /\ to # "done" => stage[c] \in {"respond", "emit"}
    BY <1>3 DEF BeginResponse, Suppress, Emit, StoreDone, Moves
  <2>3. UNCHANGED <<active, child, published, cancelled>>
    BY <1>3 DEF BeginResponse, Suppress, Emit, StoreDone
  <2>4. SlotsFit'
    BY <2>2, <2>3, SlotKept DEF Stages, Executing, Finishing, Left
  <2>5. (ChildrenFit /\ ChildrenAreKilled)'
    BY <2>2, <2>3, ChildrenKept DEF Stages, Finishing, Left
  <2> QED BY <2>1, <2>4, <2>5 DEF IInv
<1> QED BY <1>1, <1>2, <1>3

(* Every step keeps the invariant. *)
LEMMA StepInvariant == IInv /\ [Next]_vars => IInv'
<1> SUFFICES ASSUME IInv, [Next]_vars PROVE IInv'
  OBVIOUS
<1>1. ASSUME NEW c \in Call, Worker(c) PROVE IInv'
  BY <1>1, ToolSteps, ChildSteps, ResponseSteps DEF Worker, Build
<1>2. ASSUME NEW c \in Builds, WaitFails(c) \/ ChildExits(c) PROVE IInv'
  BY <1>2, ChildSteps
<1>3. ASSUME UNCHANGED vars PROVE IInv'
  <2>1. TypeOK'
    BY <1>3 DEF vars, IInv, TypeOK
  <2> QED BY <1>3, <2>1, SlotsUntouched DEF vars, IInv, ChildrenFit, ChildrenAreKilled
<1>4. ASSUME NEW process \in orphans, OrphanExits(process) PROVE IInv'
  <2>1. TypeOK'
    BY <1>4 DEF OrphanExits, IInv, TypeOK
  <2> QED BY <1>4, <2>1, SlotsUntouched DEF OrphanExits, IInv, ChildrenFit, ChildrenAreKilled
<1> QED BY <1>1, <1>2, <1>3, <1>4, ReaderSteps DEF Next

(* The inductive invariant holds in every reachable state. *)
LEMMA Invariance == Spec => []IInv
  BY InitInvariant, StepInvariant, PTL DEF Spec

(* Every variable keeps its type: never more than MaxWorkers slots, and no call  *)
(* both cancelled and being answered.                                            *)
THEOREM ServerTypeCorrect == Spec => []TypeOK
<1>1. IInv => TypeOK
  BY DEF IInv
<1> QED BY <1>1, Invariance, PTL

(* activeWorkers is the number of threads that work on a call, for any calls,     *)
(* cancellations and failures: no slot is lost and none is given back twice.      *)
THEOREM SlotsAreCounted == Spec => []SlotsAreCalls
<1>1. IInv => SlotsAreCalls
  BY DEF IInv, SlotsFit
<1> QED BY <1>1, Invariance, PTL

(* A process is left behind by Forgets only, for a call whose process runs when it *)
(* is no longer held: by ChildrenAreKilled such a call is not cancelled.          *)
LEMMA OrphansAreUncancelled ==
  ASSUME IInv, [Next]_vars, NEW c \in cancelled, NEW n \in 1..2, <<c, n>> \in orphans'
  PROVE  <<c, n>> \in orphans
<1>1. ASSUME Client \/ Closing PROVE orphans' = orphans
  BY <1>1 DEF Client, Closing, Handshake, Reading, CallIsRefused, NoThreadForCall, StartCall,
              CancelCall, EndOfInput, CancelNext, JoinAll, Exit
<1>2. ASSUME NEW d \in Builds, RunReturns(d) \/ Configured(d) PROVE <<c, n>> \in orphans
  <2>1. stage[d] \in {"ended", "grace", "unawaited"} /\ Forgets(d)
    BY <1>2 DEF RunReturns, Configured, Returns, Moves
  <2>2. CASE d \in cancelled
    <3>1. child[d] # "running"
      BY <2>1, <2>2 DEF IInv, ChildrenAreKilled
    <3> QED BY <2>1, <3>1 DEF Forgets
  <2>3. CASE d \notin cancelled
    BY <2>1, <2>3 DEF Forgets
  <2> QED BY <2>2, <2>3
<1>3. ASSUME NEW d \in Call, Worker(d), ~(d \in Builds /\ (RunReturns(d) \/ Configured(d)))
      PROVE  orphans' = orphans
  BY <1>3 DEF Worker, Build, ToolReturns, LockProject, DeployReturns, BuildFails, CheckRequested,
              CreateChild, PublishChild, ChildIsAwaited, WaitTimesOut, BeginResponse, Suppress, Emit,
              EmitThrows, ReleaseSlot, StoreDone
<1>4. ASSUME NEW d \in Builds, WaitFails(d) \/ ChildExits(d) PROVE orphans' = orphans
  BY <1>4 DEF WaitFails, ChildExits
<1>5. ASSUME NEW process \in orphans, OrphanExits(process) PROVE orphans' \subseteq orphans
  BY <1>5 DEF OrphanExits
<1>6. ASSUME UNCHANGED vars PROVE orphans' = orphans
  BY <1>6 DEF vars
<1> QED BY <1>1, <1>2, <1>3, <1>4, <1>5, <1>6 DEF Next

(* Cancel and RunProcess do not miss each other: a cancelled call's process is    *)
(* terminated, or about to be when its handle is published, and none is left       *)
(* behind once the call is cancelled, whatever its waits and CMake do.            *)
THEOREM CancelReachesTheChild == Spec => CancelledChildIsKilled
<1>1. IInv /\ [Next]_vars
        => [ /\ ChildrenAreKilled'
             /\ \A c \in cancelled, n \in 1..2 : <<c, n>> \in orphans' => <<c, n>> \in orphans ]_vars
  BY StepInvariant, OrphansAreUncancelled DEF IInv
<1> QED BY <1>1, Invariance, PTL DEF Spec, CancelledChildIsKilled

(* --- ToolCalls -------------------------------------------------------------- *)

(* A call is answered at the end of its thread or instead of it, its response has  *)
(* begun when it is written, and only a call that was read can be cancelled.       *)
CallFits(c) ==
    /\ stage[c] \in Executing \cup {"new", "respond", "emit"} => answers[c] = 0
    /\ stage[c] = "emit" => c \in responding
    /\ stage[c] = "new" => c \notin cancelled \cup toCancel

CallsFit == \A c \in Call : CallFits(c)

(* What the abstract steps read and write, and how a step moves one call's status. *)
LEMMA StatusMoves ==
  ASSUME NEW c \in Call, NEW status, CallStatus(c)' = status,
         \A d \in Call \ {c} : CallStatus(d)' = CallStatus(d)
  PROVE  [d \in Call |-> CallStatus(d)'] = [[d \in Call |-> CallStatus(d)] EXCEPT ![c] = status]
  OBVIOUS

LEMMA StatusStays ==
  ASSUME \A d \in Call : CallStatus(d)' = CallStatus(d)
  PROVE  [d \in Call |-> CallStatus(d)'] = [d \in Call |-> CallStatus(d)]
  OBVIOUS

(* A step that moves one call's thread leaves the other calls as they are.        *)
LEMMA OthersStay ==
  ASSUME TypeOK, NEW c \in Call, NEW to, stage' = [stage EXCEPT ![c] = to],
         NEW d \in Call, d # c, d \in cancelled' <=> d \in cancelled
  PROVE  stage'[d] = stage[d] /\ CallStatus(d)' = CallStatus(d)
  BY DEF TypeOK, CallStatus

LEMMA ReaderRefines ==
  ASSUME IInv, CallsFit, Client \/ Closing
  PROVE  CallsFit' /\ [Abstract!Next]_(Abstract!vars)
<1> USE DEF Abstract!vars
<1>0. TypeOK
  BY DEF IInv
<1>1. ASSUME Handshake PROVE CallsFit' /\ UNCHANGED Abstract!vars
  <2>1. UNCHANGED <<stage, cancelled, answers, responding, toCancel, reader, up, asked>>
    BY <1>1 DEF Handshake, Reading
  <2> QED
    BY <2>1, StatusStays DEF CallsFit, CallFits, CallStatus
<1>2. ASSUME NEW c \in Call, CallIsRefused(c) \/ NoThreadForCall(c)
      PROVE  CallsFit' /\ Abstract!Refuse(c)
  <2>1. /\ stage[c] = "new" /\ stage' = [stage EXCEPT ![c] = "refused"]
        /\ answers' = [answers EXCEPT ![c] = @ + 1] /\ up /\ reader = "read"
        /\ UNCHANGED <<cancelled, responding, toCancel, reader, up, asked>>
    BY <1>2 DEF CallIsRefused, NoThreadForCall, Reading, Refusal
  <2>2. answers[c] = 0
    BY <2>1 DEF CallsFit, CallFits
  <2>3. answers' = [answers EXCEPT ![c] = 1]
    BY <2>1, <2>2
  <2>4. CallStatus(c) = "new" /\ CallStatus(c)' = "closed" /\ stage'[c] = "refused"
    BY <1>0, <2>1 DEF CallStatus, TypeOK, Executing
  <2>5. \A d \in Call \ {c} : stage'[d] = stage[d] /\ CallStatus(d)' = CallStatus(d) /\ answers'[d] = answers[d]
    BY <1>0, <2>1, OthersStay DEF TypeOK
  <2>6. CallsFit'
    <3>1. CallFits(c)'
      BY <2>4 DEF CallFits, Executing
    <3>2. \A d \in Call \ {c} : CallFits(d)'
      BY <2>1, <2>5 DEF CallsFit, CallFits
    <3> QED BY <3>1, <3>2 DEF CallsFit
  <2>7. Abstract!Refuse(c)
    BY <2>1, <2>3, <2>4, <2>5, StatusMoves DEF Abstract!Refuse
  <2> QED
    BY <2>6, <2>7
<1>3. ASSUME NEW c \in Call, StartCall(c) PROVE CallsFit' /\ Abstract!Accept(c)
  <2>1. /\ stage[c] = "new" /\ stage' = [stage EXCEPT ![c] = FirstStage(c)] /\ up /\ reader = "read"
        /\ UNCHANGED <<cancelled, responding, toCancel, reader, up, asked, answers>>
        /\ FirstStage(c) \in {"queued", "asking"}
    BY <1>3 DEF StartCall, FirstStage
  <2>2. answers[c] = 0 /\ c \notin cancelled
    BY <2>1 DEF CallsFit, CallFits
  <2>3. CallStatus(c) = "new" /\ CallStatus(c)' = "open" /\ stage'[c] = FirstStage(c)
    BY <1>0, <2>1, <2>2 DEF CallStatus, TypeOK, Executing
  <2>4. \A d \in Call \ {c} : stage'[d] = stage[d] /\ CallStatus(d)' = CallStatus(d)
    BY <1>0, <2>1, OthersStay
  <2>5. CallsFit'
    BY <2>1, <2>2, <2>3, <2>4 DEF CallsFit, CallFits
  <2>6. Abstract!Accept(c)
    BY <2>1, <2>3, <2>4, StatusMoves DEF Abstract!Accept
  <2> QED
    BY <2>5, <2>6
<1>4. ASSUME NEW c \in Call, CancelEach({c}), stage[c] # "new", toCancel' \subseteq toCancel,
             UNCHANGED <<stage, responding, answers>>
      PROVE  /\ CallsFit' /\ CallStatus(c) # "new"
             /\ \/ [d \in Call |-> CallStatus(d)'] = [d \in Call |-> CallStatus(d)]
                \/ /\ CallStatus(c) = "open"
                   /\ [d \in Call |-> CallStatus(d)'] = [[d \in Call |-> CallStatus(d)] EXCEPT ![c] = "closed"]
  <2>1. cancelled' = cancelled \cup ({c} \ responding)
    BY <1>4 DEF CancelEach
  <2>2. CallsFit'
    BY <1>4, <2>1 DEF CallsFit, CallFits
  <2>3. \A d \in Call \ {c} : CallStatus(d)' = CallStatus(d)
    BY <1>4, <2>1 DEF CallStatus
  <2>4. CallStatus(c) \in {"open", "closed"} /\ CallStatus(c)' \in {CallStatus(c), "closed"}
    BY <1>4, <2>1 DEF CallStatus
  <2>5. CASE CallStatus(c)' = CallStatus(c)
    BY <2>2, <2>3, <2>4, <2>5, StatusStays
  <2>6. CASE CallStatus(c)' # CallStatus(c)
    BY <2>2, <2>3, <2>4, <2>6, StatusMoves
  <2> QED
    BY <2>5, <2>6
<1>5. ASSUME NEW c \in Call, CancelCall(c) PROVE CallsFit' /\ Abstract!Cancel(c)
  <2>1. /\ CancelEach({c}) /\ stage[c] # "new" /\ UNCHANGED <<toCancel, stage, responding, answers>>
        /\ up /\ reader = "read" /\ UNCHANGED <<up, reader>> /\ asked' = asked \cup {c}
    BY <1>5 DEF CancelCall, Executing, Finishing
  <2> QED
    BY <1>4, <2>1 DEF Abstract!Cancel
<1>6. ASSUME NEW c \in Call, CancelNext(c)
      PROVE  CallsFit' /\ (UNCHANGED Abstract!vars \/ Abstract!Drop(c))
  <2>1. /\ CancelEach({c}) /\ stage[c] # "new" /\ UNCHANGED <<stage, responding, answers>>
        /\ toCancel' \subseteq toCancel
        /\ up /\ reader # "read" /\ UNCHANGED <<up, reader, asked>>
    BY <1>6 DEF CancelNext, CallsFit, CallFits
  <2> QED
    BY <1>4, <2>1 DEF Abstract!Drop
<1>7. ASSUME EndOfInput PROVE CallsFit' /\ Abstract!EndInput
  <2>1. /\ toCancel' = Workers /\ up /\ reader = "read" /\ reader' # "read"
        /\ UNCHANGED <<up, stage, cancelled, responding, answers, asked>>
    BY <1>7 DEF EndOfInput
  <2>2. CallsFit'
    BY <2>1 DEF CallsFit, CallFits, Workers
  <2>3. \A d \in Call : CallStatus(d)' = CallStatus(d)
    BY <2>1 DEF CallStatus
  <2> QED
    BY <2>1, <2>2, <2>3, StatusStays DEF Abstract!EndInput
<1>8. ASSUME JoinAll \/ Exit PROVE CallsFit' /\ UNCHANGED Abstract!vars
  <2>1. /\ reader # "read" /\ reader' # "read"
        /\ UNCHANGED <<up, stage, cancelled, responding, toCancel, answers, asked>>
    BY <1>8 DEF JoinAll, Exit
  <2>2. CallsFit'
    BY <2>1 DEF CallsFit, CallFits
  <2>3. \A d \in Call : CallStatus(d)' = CallStatus(d)
    BY <2>1 DEF CallStatus
  <2> QED
    BY <2>1, <2>2, <2>3, StatusStays
<1> QED
  BY <1>1, <1>2, <1>3, <1>5, <1>6, <1>7, <1>8 DEF Client, Closing, Abstract!Next, Abstract!Settle

(* What the thread of a call does until its response is written is no step of       *)
(* ToolCalls.                                                                       *)
LEMMA WorkerStutters ==
  ASSUME TypeOK, CallsFit, NEW c \in Call, NEW to, stage' = [stage EXCEPT ![c] = to],
         \/ stage[c] \in Executing /\ to \in Executing \cup {"respond"}
         \/ stage[c] = "respond" /\ to = "emit" /\ c \in responding'
         \/ stage[c] = "respond" /\ to = "release" /\ c \in cancelled
         \/ stage[c] \in {"release", "leaving"} /\ to \in Left,
         responding \subseteq responding',
         UNCHANGED <<readerVars, cancelled, answers, asked>>
  PROVE  CallsFit' /\ UNCHANGED Abstract!vars
<1>1. stage'[c] = to /\ to # "new" /\ stage[c] # "new"
  BY DEF TypeOK, Executing, Left
<1>2. \A d \in Call \ {c} : stage'[d] = stage[d] /\ CallStatus(d)' = CallStatus(d)
  BY OthersStay
<1>3. CallStatus(c)' = CallStatus(c)
  BY <1>1 DEF CallStatus, Executing, Left
<1>4. CallFits(c)'
  BY <1>1 DEF CallsFit, CallFits, Executing, Left
<1>5. CallsFit'
  BY <1>2, <1>4 DEF CallsFit, CallFits
<1> QED
  BY <1>2, <1>3, <1>5, StatusStays DEF Abstract!vars

LEMMA WorkerRefines ==
  ASSUME IInv, CallsFit, NEW c \in Call, Worker(c)
  PROVE  CallsFit' /\ [Abstract!Next]_(Abstract!vars)
<1>0. TypeOK
  BY DEF IInv
<1>1. CASE ToolReturns(c) \/ DeployReturns(c) \/ (c \in Builds \cup Deploys /\ LockProject(c))
           \/ (c \in Builds /\ Build(c))
  <2>1. PICK to \in Executing \cup {"respond"} :
          stage[c] \in Executing /\ stage' = [stage EXCEPT ![c] = to]
    BY <1>1 DEF ToolReturns, DeployReturns, LockProject, Build, BuildFails, CheckRequested, CreateChild,
                PublishChild, ChildIsAwaited, WaitTimesOut, RunReturns, Configured, Returns, Moves, Executing
  <2>2. UNCHANGED <<readerVars, cancelled, responding, answers, asked>>
    BY <1>1 DEF ToolReturns, DeployReturns, LockProject, Build, BuildFails, CheckRequested, CreateChild,
                PublishChild, ChildIsAwaited, WaitTimesOut, RunReturns, Configured, Returns
  <2> QED
    BY <1>0, <2>1, <2>2, WorkerStutters
<1>2. CASE BeginResponse(c) \/ Suppress(c) \/ ReleaseSlot(c) \/ StoreDone(c)
  <2>1. PICK to \in {"emit", "release", "leaving", "done"} :
          /\ stage' = [stage EXCEPT ![c] = to]
          /\ \/ stage[c] = "respond" /\ to = "emit" /\ c \in responding'
             \/ stage[c] = "respond" /\ to = "release" /\ c \in cancelled
             \/ stage[c] \in {"release", "leaving"} /\ to \in Left
    BY <1>2 DEF BeginResponse, Suppress, ReleaseSlot, StoreDone, Moves, Left
  <2>2. responding \subseteq responding' /\ UNCHANGED <<readerVars, cancelled, answers, asked>>
    BY <1>2 DEF BeginResponse, Suppress, ReleaseSlot, StoreDone
  <2> QED
    BY <1>0, <2>1, <2>2, WorkerStutters
<1>3. CASE Emit(c)
  <2>1. /\ stage[c] = "emit" /\ stage' = [stage EXCEPT ![c] = "release"] /\ up /\ c \notin Unprintable
        /\ answers' = [answers EXCEPT ![c] = @ + 1]
        /\ UNCHANGED <<up, reader, toCancel, cancelled, responding, asked>>
    BY <1>3 DEF Emit, Moves
  <2>2. answers[c] = 0 /\ c \notin cancelled
    BY <1>0, <2>1 DEF CallsFit, CallFits, TypeOK
  <2>3. answers' = [answers EXCEPT ![c] = 1]
    BY <2>1, <2>2
  <2>4. CallStatus(c) = "open" /\ CallStatus(c)' = "closed" /\ stage'[c] = "release"
    BY <1>0, <2>1, <2>2 DEF CallStatus, TypeOK, Executing
  <2>5. \A d \in Call \ {c} : stage'[d] = stage[d] /\ CallStatus(d)' = CallStatus(d) /\ answers'[d] = answers[d]
    BY <1>0, <2>1, OthersStay DEF TypeOK
  <2>6. CallsFit'
    <3>1. CallFits(c)'
      BY <2>4 DEF CallFits, Executing
    <3>2. \A d \in Call \ {c} : CallFits(d)'
      BY <2>1, <2>5 DEF CallsFit, CallFits
    <3> QED BY <3>1, <3>2 DEF CallsFit
  <2>7. Abstract!Answer(c)
    BY <2>1, <2>3, <2>4, <2>5, StatusMoves DEF Abstract!Answer
  <2> QED
    BY <2>6, <2>7 DEF Abstract!Next, Abstract!Settle
<1>4. CASE EmitThrows(c)
  <2>1. /\ stage[c] = "emit" /\ up /\ c \in Unprintable /\ up' = FALSE
        /\ UNCHANGED <<stage, reader, toCancel, cancelled, responding, answers, asked>>
    BY <1>4 DEF EmitThrows
  <2>2. CallStatus(c) = "open"
    BY <1>0, <2>1 DEF CallsFit, CallFits, TypeOK, CallStatus
  <2>3. CallsFit' /\ \A d \in Call : CallStatus(d)' = CallStatus(d)
    BY <2>1 DEF CallsFit, CallFits, CallStatus
  <2>4. Abstract!Terminate(c)
    BY <2>1, <2>2, <2>3, StatusStays DEF Abstract!Terminate
  <2> QED
    BY <2>3, <2>4 DEF Abstract!Next, Abstract!Settle
<1> QED
  BY <1>1, <1>2, <1>3, <1>4 DEF Worker

(* The safety half of RefinesToolCalls, for any calls and workers: whatever the     *)
(* reader and the workers do, a call is answered at most once, never after it was   *)
(* dropped, and an answer to a call that was read is what closes it.                *)
THEOREM AnswersAreOnce == Spec => Abstract!Init /\ [][Abstract!Next]_(Abstract!vars)
<1>1. Init => CallsFit /\ Abstract!Init
  <2> SUFFICES ASSUME Init PROVE CallsFit /\ Abstract!Init
    OBVIOUS
  <2>1. CallsFit
    BY DEF Init, CallsFit, CallFits, Executing
  <2>2. \A c \in Call : CallStatus(c) = "new"
    BY DEF Init, CallStatus, Executing
  <2>3. [c \in Call |-> CallStatus(c)] = [c \in Call |-> "new"]
    BY <2>2
  <2>4. answers = [c \in Call |-> 0] /\ asked = {} /\ up = TRUE
    BY DEF Init
  <2>5. (reader # "read") = FALSE
    BY DEF Init
  <2> QED
    BY <2>1, <2>3, <2>4, <2>5 DEF Abstract!Init
<1>2. IInv /\ CallsFit /\ [Next]_vars => CallsFit' /\ [Abstract!Next]_(Abstract!vars)
  <2> SUFFICES ASSUME IInv, CallsFit, [Next]_vars
               PROVE  CallsFit' /\ [Abstract!Next]_(Abstract!vars)
    OBVIOUS
  <2>1. CASE \/ \E c \in Builds : ChildExits(c)
             \/ \E process \in orphans : OrphanExits(process)
             \/ UNCHANGED vars
    <3>1. UNCHANGED <<readerVars, stage, cancelled, responding, answers, asked>>
      BY <2>1 DEF ChildExits, OrphanExits, vars
    <3>2. CallsFit' /\ \A d \in Call : CallStatus(d)' = CallStatus(d)
      BY <3>1 DEF CallsFit, CallFits, CallStatus
    <3> QED
      BY <3>1, <3>2, StatusStays DEF Abstract!vars
  <2>2. ASSUME NEW c \in Builds, WaitFails(c) PROVE CallsFit' /\ UNCHANGED Abstract!vars
    <3>1. /\ stage[c] \in Executing /\ stage' = [stage EXCEPT ![c] = "unawaited"]
          /\ "unawaited" \in Executing
          /\ UNCHANGED <<readerVars, cancelled, responding, answers, asked>>
      BY <2>2 DEF WaitFails, Moves, Executing
    <3> QED BY <3>1, WorkerStutters DEF IInv
  <2> QED
    BY <2>1, <2>2, ReaderRefines, WorkerRefines DEF Next
<1> QED
  BY <1>1, <1>2, Invariance, PTL DEF Spec
=============================================================================
