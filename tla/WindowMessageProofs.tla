-------------------------- MODULE WindowMessageProofs --------------------------
(* Theorems of WindowMessageDispatcher, for every set of threads, windows,       *)
(* records and modules and every nesting depth.                                  *)
EXTENDS WindowMessageDispatcher, FiniteSetTheorems, SequenceTheorems, TLAPS

USE MaxDepthAssumption

(* What makes the properties inductive: a slot above its thread's depth is        *)
(* empty, a frame never both owes and runs a record, and everything it owes or   *)
(* runs is on its thread's dispatch stack.                                       *)
FrameOK(s) ==
    /\ s[2] > depth[s[1]] => frame[s] = NoFrame
    /\ frame[s].running \notin frame[s].todo
    /\ Pending(frame[s]) \subseteq frame[s].held

IInv ==
    /\ TypeOK
    /\ \A s \in Slot : FrameOK(s)
    /\ ActiveCountsDispatches
    /\ NoCallAfterUnregister
    /\ NoSelfWait

-----------------------------------------------------------------------------
(* Sequences and the chain of window procedures. *)
LEMMA PushProc ==
  ASSUME NEW s \in Seq(Proc), NEW p \in Proc
  PROVE  <<p>> \o s \in Seq(Proc)
<1>1. <<p>> \in Seq(Proc)
  OBVIOUS
<1> QED BY <1>1, ConcatProperties

LEMMA PopProc ==
  ASSUME NEW s \in Seq(Proc), s # <<>>
  PROVE  Tail(s) \in Seq(Proc)
  OBVIOUS

LEMMA RestoreType ==
  ASSUME TypeOK, NEW ws \in SUBSET Window, NEW left \in [Window -> SUBSET Record],
         NEW failing \in SUBSET Window, RestoreIfUnused(ws, left, failing)
  PROVE  /\ known' \in SUBSET Window
         /\ installed' \in [Window -> BOOLEAN]
         /\ callbacks' = left
         /\ chain' \in [Window -> Seq(Proc)]
<1> DEFINE restored == {w \in {v \in ws \cap known : left[v] = {}} \ failing :
                           chain[w] # <<>> /\ chain[w][1] = "urk"}
<1>1. /\ callbacks' = left
      /\ known' \subseteq known
      /\ chain' = [w \in Window |-> IF w \in restored THEN Tail(chain[w]) ELSE chain[w]]
  BY DEF RestoreIfUnused
<1>2. installed' \in [Window -> BOOLEAN]
  BY Zenon DEF RestoreIfUnused
<1>3. ASSUME NEW w \in Window
      PROVE  (IF w \in restored THEN Tail(chain[w]) ELSE chain[w]) \in Seq(Proc)
  <2>1. chain[w] \in Seq(Proc)
    BY DEF TypeOK
  <2>2. w \in restored => chain[w] # <<>>
    OBVIOUS
  <2> QED BY <2>1, <2>2, PopProc
<1>4. chain' \in [Window -> Seq(Proc)]
  BY <1>1, <1>3
<1> QED BY <1>1, <1>2, <1>4 DEF TypeOK

-----------------------------------------------------------------------------
(* Counting the dispatches that hold a record. *)
LEMMA HoldersFinite ==
  ASSUME NEW r
  PROVE  IsFiniteSet(Holders(r)) /\ IsFiniteSet(Holders(r))'
<1>1. Holders(r) \in SUBSET Slot /\ Holders(r)' \in SUBSET Slot
  BY DEF Holders
<1> QED BY <1>1, ThreadAssumption, FS_Subset DEF Slot

(* A step that rewrites one frame moves the count of r by that frame alone. *)
LEMMA CountChange ==
  ASSUME NEW r, NEW s \in Slot, \A q \in Slot \ {s} : frame'[q] = frame[q]
  PROVE  /\ (r \in Pending(frame[s]) <=> r \in Pending(frame[s])')
               => Cardinality(Holders(r))' = Cardinality(Holders(r))
         /\ r \notin Pending(frame[s]) /\ r \in Pending(frame[s])'
               => Cardinality(Holders(r))' = Cardinality(Holders(r)) + 1
         /\ r \in Pending(frame[s]) /\ r \notin Pending(frame[s])'
               => Cardinality(Holders(r))' = Cardinality(Holders(r)) - 1
<1>1. \A q \in Slot \ {s} : (q \in Holders(r) <=> q \in Holders(r)')
  BY DEF Holders, Pending
<1>2. s \in Holders(r) <=> r \in Pending(frame[s])
  BY DEF Holders
<1>3. s \in Holders(r)' <=> r \in Pending(frame[s])'
  BY DEF Holders
<1>4. Holders(r) \subseteq Slot /\ Holders(r)' \subseteq Slot
  BY DEF Holders
<1>5. CASE r \in Pending(frame[s]) <=> r \in Pending(frame[s])'
  <2>1. Holders(r)' = Holders(r)
    BY <1>1, <1>2, <1>3, <1>4, <1>5
  <2> QED BY <2>1, <1>5
<1>6. CASE r \notin Pending(frame[s]) /\ r \in Pending(frame[s])'
  <2>1. Holders(r)' = Holders(r) \cup {s} /\ s \notin Holders(r)
    BY <1>1, <1>2, <1>3, <1>4, <1>6
  <2> QED BY <2>1, <1>6, HoldersFinite, FS_AddElement
<1>7. CASE r \in Pending(frame[s]) /\ r \notin Pending(frame[s])'
  <2>1. Holders(r)' = Holders(r) \ {s} /\ s \in Holders(r)
    BY <1>1, <1>2, <1>3, <1>4, <1>7
  <2> QED BY <2>1, <1>7, HoldersFinite, FS_RemoveElement
<1> QED BY <1>5, <1>6, <1>7

(* A count is zero exactly when no dispatch holds the record. *)
LEMMA CountZero ==
  ASSUME NEW r \in Record, ActiveCountsDispatches
  PROVE  /\ active[r] \in Nat
         /\ active[r] = 0 => \A s \in Slot : r \notin Pending(frame[s])
         /\ (\A s \in Slot : r \notin Pending(frame[s])) => active[r] = 0
<1>1. active[r] = Cardinality(Holders(r))
  BY DEF ActiveCountsDispatches
<1>2. active[r] \in Nat /\ (active[r] = 0 <=> Holders(r) = {})
  BY <1>1, HoldersFinite, FS_EmptySet, FS_CardinalityType
<1> QED BY <1>2 DEF Holders

-----------------------------------------------------------------------------
(* The steps of a dispatch. *)
LEMMA BeginDispatchStep ==
  ASSUME IInv, NEW t \in Thread, NEW w \in Window, BeginDispatch(t, w)
  PROVE  IInv'
<1>0. PICK s \in Slot : s = <<t, depth[t] + 1>>
  BY DEF IInv, TypeOK, BeginDispatch, Slot
<1> DEFINE f == [todo |-> callbacks[w], running |-> NoRecord, held |-> callbacks[w]]
<1>1. /\ TypeOK /\ f \in Frame
      /\ frame[s] = NoFrame /\ frame' = [frame EXCEPT ![s] = f]
  BY <1>0 DEF IInv, TypeOK, BeginDispatch, Slot, Frame, FrameOK
<1>2. /\ frame'[s] = f /\ \A q \in Slot \ {s} : frame'[q] = frame[q]
      /\ Pending(f) = callbacks[w] /\ Pending(NoFrame) = {}
  BY <1>1, RecordAssumption DEF TypeOK, Pending, NoFrame
<1>3. TypeOK'
  <2>1. active' \in [Record -> Nat]
    BY <1>1 DEF BeginDispatch, TypeOK
  <2>2. depth' \in [Thread -> 0 .. MaxDepth]
    BY <1>1 DEF BeginDispatch, TypeOK
  <2>3. frame' \in [Slot -> Frame]
    BY <1>1 DEF TypeOK
  <2> QED BY <1>1, <2>1, <2>2, <2>3 DEF TypeOK, BeginDispatch, registry
<1>4. \A q \in Slot : FrameOK(q)'
  <2>1. FrameOK(s)'
    BY <1>1, <1>2, RecordAssumption DEF FrameOK, BeginDispatch, TypeOK, Slot
  <2>2. ASSUME NEW q \in Slot \ {s} PROVE FrameOK(q)'
    <3>1. q[2] > depth'[q[1]] => q[2] > depth[q[1]]
      BY <1>1 DEF BeginDispatch, TypeOK, Slot
    <3> QED BY <1>2, <3>1 DEF FrameOK, IInv, Pending
  <2> QED BY <2>1, <2>2
<1>5. ActiveCountsDispatches'
  <2> SUFFICES ASSUME NEW r \in Record PROVE active'[r] = Cardinality(Holders(r))'
    BY DEF ActiveCountsDispatches
  <2>1. active[r] = Cardinality(Holders(r))
    BY DEF IInv, ActiveCountsDispatches
  <2>2. active'[r] = IF r \in callbacks[w] THEN active[r] + 1 ELSE active[r]
    BY DEF BeginDispatch
  <2>3. r \notin Pending(frame[s]) /\ (r \in Pending(frame[s])' <=> r \in callbacks[w])
    BY <1>1, <1>2 DEF Pending
  <2> QED BY <1>1, <1>2, <2>1, <2>2, <2>3, CountChange
<1>6. NoCallAfterUnregister'
  <2>1. Listed' = Listed /\ Awaited' = Awaited /\ callbacks[w] \subseteq Listed
    BY DEF BeginDispatch, registry, Listed, Awaited
  <2> QED BY <1>1, <1>2, <2>1 DEF NoCallAfterUnregister, IInv, Pending
<1>7. NoSelfWait'
  <2>1. waiting' = waiting /\ waiting[t] = {}
    BY DEF BeginDispatch, InUserCode, Blocked
  <2>2. ASSUME NEW q \in Slot PROVE (waiting[q[1]] \cap Pending(frame[q]))' = {}
    <3>1. CASE q = s
      BY <1>0, <2>1, <3>1
    <3>2. CASE q # s
      BY <1>2, <2>1, <3>2 DEF NoSelfWait, IInv, Pending
    <3> QED BY <3>1, <3>2
  <2> QED BY <2>2 DEF NoSelfWait
<1> QED BY <1>3, <1>4, <1>5, <1>6, <1>7 DEF IInv

LEMMA BeginCallStep ==
  ASSUME IInv, NEW t \in Thread, NEW r \in Record, BeginCall(t, r)
  PROVE  IInv'
<1>a. TypeOK /\ depth[t] \in 1 .. MaxDepth
  BY DEF IInv, TypeOK, BeginCall
<1>0. PICK s \in Slot : s = <<t, depth[t]>> /\ Top(t) = s
  BY <1>a DEF Slot, Top
<1> DEFINE f == [todo |-> frame[s].todo \ {r}, running |-> r, held |-> frame[s].held]
<1>1. /\ TypeOK /\ s = <<t, depth[t]>> /\ frame[s] \in Frame
      /\ frame[s].running = NoRecord /\ r \in frame[s].todo
      /\ frame' = [frame EXCEPT ![s] = f]
  <2>1. frame[s] \in Frame
    BY <1>a DEF TypeOK
  <2> QED BY <1>a, <1>0, <2>1 DEF BeginCall
<1>2. /\ f \in Frame /\ frame'[s] = f /\ \A q \in Slot \ {s} : frame'[q] = frame[q]
      /\ f.todo = frame[s].todo \ {r} /\ f.running = r /\ f.held = frame[s].held
  BY <1>1 DEF TypeOK, Frame
<1>3. Pending(f) = Pending(frame[s])
  BY <1>1, <1>2, RecordAssumption DEF Pending, Frame
<1>4. TypeOK'
  <2>1. frame' \in [Slot -> Frame]
    BY <1>1, <1>2 DEF TypeOK
  <2> QED BY <1>1, <2>1 DEF TypeOK, BeginCall, registry
<1>5. \A q \in Slot : FrameOK(q)'
  <2>1. depth' = depth
    BY DEF BeginCall
  <2>2. FrameOK(s)'
    <3>1. ~(s[2] > depth[s[1]])
      BY <1>a, <1>0
    <3>2. Pending(frame[s]) \subseteq frame[s].held /\ r \notin f.todo
      BY <1>2 DEF IInv, FrameOK
    <3> QED BY <1>2, <1>3, <2>1, <3>1, <3>2 DEF FrameOK, Pending
  <2>3. ASSUME NEW q \in Slot \ {s} PROVE FrameOK(q)'
    BY <1>2, <2>1 DEF FrameOK, IInv, Pending
  <2> QED BY <2>2, <2>3
<1>6. ActiveCountsDispatches'
  <2> SUFFICES ASSUME NEW x \in Record PROVE active'[x] = Cardinality(Holders(x))'
    BY DEF ActiveCountsDispatches
  <2>1. active'[x] = Cardinality(Holders(x))
    BY DEF IInv, ActiveCountsDispatches, BeginCall
  <2>2. x \in Pending(frame[s]) <=> x \in Pending(frame[s])'
    BY <1>2, <1>3 DEF Pending
  <2> QED BY <1>1, <1>2, <2>1, <2>2, CountChange
<1>7. \A q \in Slot : Pending(frame[q])' = Pending(frame[q])
  BY <1>2, <1>3 DEF Pending
<1>8. Listed' = Listed /\ Awaited' = Awaited /\ waiting' = waiting
  BY DEF BeginCall, registry, Listed, Awaited
<1> QED BY <1>4, <1>5, <1>6, <1>7, <1>8 DEF IInv, NoCallAfterUnregister, NoSelfWait

LEMMA EndCallStep ==
  ASSUME IInv, NEW t \in Thread, EndCall(t)
  PROVE  IInv'
<1>a. TypeOK /\ depth[t] \in 1 .. MaxDepth
  BY DEF IInv, TypeOK, EndCall
<1>0. PICK s \in Slot : s = <<t, depth[t]>> /\ Top(t) = s
  BY <1>a DEF Slot, Top
<1> DEFINE r == frame[s].running
           f == [frame[s] EXCEPT !.running = NoRecord]
<1>1. /\ TypeOK /\ s = <<t, depth[t]>> /\ frame[s] \in Frame
      /\ r # NoRecord
      /\ frame' = [frame EXCEPT ![s] = f]
  BY <1>a, <1>0 DEF TypeOK, EndCall
<1>2. /\ f \in Frame /\ frame'[s] = f /\ \A q \in Slot \ {s} : frame'[q] = frame[q]
      /\ f.todo = frame[s].todo /\ f.running = NoRecord /\ f.held = frame[s].held
      /\ r \in Record /\ r \notin f.todo
  BY <1>1 DEF TypeOK, Frame, IInv, FrameOK
<1>3. Pending(f) = Pending(frame[s]) \ {r} /\ r \in Pending(frame[s])
  BY <1>1, <1>2, RecordAssumption DEF Pending, Frame
<1>4. active' = [active EXCEPT ![r] = active[r] - 1] /\ active[r] \in Nat \ {0}
  <2>1. active' = [active EXCEPT ![r] = active[r] - 1]
    BY <1>0 DEF EndCall
  <2>2. active[r] \in Nat /\ active[r] # 0
    BY <1>2, <1>3, CountZero DEF IInv
  <2> QED BY <2>1, <2>2
<1>5. TypeOK'
  <2>1. frame' \in [Slot -> Frame]
    BY <1>1, <1>2 DEF TypeOK
  <2>2. active' \in [Record -> Nat]
    BY <1>1, <1>2, <1>4 DEF TypeOK
  <2>3. UNCHANGED <<known, installed, callbacks, chain, depth, waiting>>
    BY DEF EndCall, registry
  <2> QED BY <1>1, <2>1, <2>2, <2>3 DEF TypeOK
<1>6. \A q \in Slot : FrameOK(q)'
  <2>1. depth' = depth
    BY DEF EndCall
  <2>2. FrameOK(s)'
    <3>1. NoRecord \notin f.todo
      BY <1>2, RecordAssumption DEF Frame
    <3>2. ~(s[2] > depth[s[1]])
      BY <1>1 DEF TypeOK
    <3> QED BY <1>1, <1>2, <1>3, <2>1, <3>1, <3>2 DEF FrameOK, IInv, Pending
  <2>3. ASSUME NEW q \in Slot \ {s} PROVE FrameOK(q)'
    BY <1>2, <2>1 DEF FrameOK, IInv, Pending
  <2> QED BY <2>2, <2>3
<1>7. ActiveCountsDispatches'
  <2> SUFFICES ASSUME NEW x \in Record PROVE active'[x] = Cardinality(Holders(x))'
    BY DEF ActiveCountsDispatches
  <2>1. active[x] = Cardinality(Holders(x))
    BY DEF IInv, ActiveCountsDispatches
  <2>2. active'[x] = IF x = r THEN active[x] - 1 ELSE active[x]
    BY <1>1, <1>4 DEF TypeOK
  <2>3. x \in Pending(frame[s])' <=> x \in Pending(frame[s]) /\ x # r
    BY <1>2, <1>3 DEF Pending
  <2> QED BY <1>1, <1>2, <1>3, <2>1, <2>2, <2>3, CountChange
<1>8. \A q \in Slot : Pending(frame[q])' \subseteq Pending(frame[q])
  BY <1>2, <1>3 DEF Pending
<1>9. Listed' = Listed /\ Awaited' = Awaited /\ waiting' = waiting
  BY DEF EndCall, registry, Listed, Awaited
<1> QED BY <1>5, <1>6, <1>7, <1>8, <1>9 DEF IInv, NoCallAfterUnregister, NoSelfWait

LEMMA EndDispatchStep ==
  ASSUME IInv, NEW t \in Thread, EndDispatch(t)
  PROVE  IInv'
<1>a. TypeOK /\ depth[t] \in 1 .. MaxDepth
  BY DEF IInv, TypeOK, EndDispatch
<1>0. PICK s \in Slot : s = <<t, depth[t]>> /\ Top(t) = s
  BY <1>a DEF Slot, Top
<1>1. /\ TypeOK /\ s = <<t, depth[t]>> /\ frame[s] \in Frame
      /\ frame[s].running = NoRecord /\ frame[s].todo = {}
      /\ frame' = [frame EXCEPT ![s] = NoFrame]
      /\ depth' = [depth EXCEPT ![t] = depth[t] - 1]
  BY <1>a, <1>0 DEF TypeOK, EndDispatch
<1>2. /\ frame'[s] = NoFrame /\ \A q \in Slot \ {s} : frame'[q] = frame[q]
      /\ Pending(NoFrame) = {} /\ Pending(frame[s]) = {}
  BY <1>1, RecordAssumption DEF TypeOK, Pending, NoFrame
<1>3. TypeOK'
  <2>1. NoFrame \in Frame
    BY DEF NoFrame, Frame
  <2>2. frame' \in [Slot -> Frame]
    BY <1>1, <2>1 DEF TypeOK
  <2>3. depth' \in [Thread -> 0 .. MaxDepth]
    BY <1>1 DEF TypeOK, EndDispatch
  <2> QED BY <1>1, <2>2, <2>3 DEF TypeOK, EndDispatch, registry
<1>4. \A q \in Slot : FrameOK(q)'
  <2>1. FrameOK(s)'
    BY <1>2 DEF FrameOK, NoFrame, Pending
  <2>2. ASSUME NEW q \in Slot \ {s} PROVE FrameOK(q)'
    <3>1. q[2] > depth'[q[1]] => q[2] > depth[q[1]]
      BY <1>1 DEF TypeOK, Slot
    <3> QED BY <1>2, <3>1 DEF FrameOK, IInv, Pending
  <2> QED BY <2>1, <2>2
<1>5. \A q \in Slot : Pending(frame[q])' = Pending(frame[q])
  BY <1>2 DEF Pending
<1>6. ActiveCountsDispatches'
  <2> SUFFICES ASSUME NEW x \in Record PROVE active'[x] = Cardinality(Holders(x))'
    BY DEF ActiveCountsDispatches
  <2>1. active'[x] = Cardinality(Holders(x))
    BY DEF IInv, ActiveCountsDispatches, EndDispatch
  <2> QED BY <1>1, <1>2, <1>5, <2>1, CountChange
<1>7. Listed' = Listed /\ Awaited' = Awaited /\ waiting' = waiting
  BY DEF EndDispatch, registry, Listed, Awaited
<1> QED BY <1>3, <1>4, <1>5, <1>6, <1>7 DEF IInv, NoCallAfterUnregister, NoSelfWait

-----------------------------------------------------------------------------
(* The registering functions, and the game's own steps. *)

(* A step that leaves the dispatches alone keeps their part of the invariant. *)
LEMMA SameFrames ==
  ASSUME IInv, UNCHANGED <<depth, frame>>
  PROVE  /\ \A s \in Slot : FrameOK(s)'
         /\ \A s \in Slot : Pending(frame[s])' = Pending(frame[s])
         /\ \A r \in Record : Holders(r)' = Holders(r)
  BY DEF IInv, FrameOK, Pending, Holders

LEMMA RegisterStep ==
  ASSUME IInv, NEW t \in Thread, NEW w \in Window, NEW r \in Record, Register(t, w, r)
  PROVE  IInv'
<1>1. TypeOK /\ UNCHANGED <<depth, frame, waiting>>
  BY DEF IInv, Register
<1>2. \A s \in Slot : r \notin Pending(frame[s])
  <2> SUFFICES ASSUME NEW s \in Slot PROVE r \notin frame[s].held
    BY DEF IInv, FrameOK
  <2>1. PICK u \in Thread, d \in 1 .. MaxDepth : s = <<u, d>>
    BY DEF Slot
  <2> QED BY <2>1 DEF Register, Fresh, OnStack
<1>3. active[r] = 0 /\ active' = active
  <2>1. active[r] = 0
    BY <1>2, CountZero DEF IInv
  <2> QED BY <1>1, <2>1 DEF Register, TypeOK
<1>4. TypeOK'
  <2>1. chain' \in [Window -> Seq(Proc)]
    <3>1. <<"urk">> \o chain[w] \in Seq(Proc)
      BY <1>1, PushProc DEF TypeOK, Proc
    <3> QED BY <1>1, <3>1 DEF Register, TypeOK
  <2>2. /\ known' \in SUBSET Window
        /\ installed' \in [Window -> BOOLEAN]
        /\ callbacks' \in [Window -> SUBSET Record]
    BY <1>1 DEF Register, TypeOK
  <2> QED BY <1>1, <1>3, <2>1, <2>2 DEF TypeOK
<1>5. Listed \subseteq Listed' /\ Awaited' = Awaited
  BY <1>1 DEF Register, Listed, Awaited, TypeOK
<1> QED
  BY <1>1, <1>3, <1>4, <1>5, SameFrames
  DEF IInv, ActiveCountsDispatches, NoCallAfterUnregister, NoSelfWait

(* Both ways of unregistering take a set of listed records, none of which the     *)
(* caller's own dispatches hold, off the lists and wait for it.                   *)
LEMMA RemoveStep ==
  ASSUME IInv, NEW t \in Thread, InUserCode(t), NEW gone \in SUBSET Record,
         gone \cap OnStack(t) = {}, Listed \subseteq Listed' \cup gone,
         waiting' = [waiting EXCEPT ![t] = gone],
         UNCHANGED <<active, depth, frame>>, TypeOK'
  PROVE  IInv'
<1>1. TypeOK /\ waiting[t] = {}
  BY DEF IInv, InUserCode, Blocked
<1>2. Awaited' = Awaited \cup gone
  BY <1>1 DEF Awaited, TypeOK
<1>3. NoCallAfterUnregister'
  BY <1>2, SameFrames DEF IInv, NoCallAfterUnregister
<1>4. NoSelfWait'
  <2> SUFFICES ASSUME NEW s \in Slot
               PROVE  waiting'[s[1]] \cap Pending(frame[s]) = {}
    BY SameFrames DEF NoSelfWait
  <2>1. PICK u \in Thread, d \in 1 .. MaxDepth : s = <<u, d>>
    BY DEF Slot
  <2>2. CASE u = t
    <3>1. frame[s].held \subseteq OnStack(t)
      BY <2>1, <2>2 DEF OnStack
    <3>2. Pending(frame[s]) \subseteq frame[s].held
      BY DEF IInv, FrameOK
    <3> QED BY <1>1, <2>1, <2>2, <3>1, <3>2 DEF TypeOK
  <2>3. CASE u # t
    BY <1>1, <2>1, <2>3 DEF TypeOK, IInv, NoSelfWait
  <2> QED BY <2>2, <2>3
<1> QED BY <1>3, <1>4, SameFrames DEF IInv, ActiveCountsDispatches

LEMMA UnregisterStep ==
  ASSUME IInv, NEW t \in Thread, NEW w \in Window, NEW r \in Record,
         NEW failing \in SUBSET Window, Unregister(t, w, r, failing)
  PROVE  IInv'
<1> DEFINE left == [callbacks EXCEPT ![w] = @ \ {r}]
<1>1. TypeOK /\ left \in [Window -> SUBSET Record] /\ RestoreIfUnused({w}, left, failing)
  BY DEF IInv, TypeOK, Unregister
<1>2. /\ callbacks' = left /\ known' \in SUBSET Window
      /\ installed' \in [Window -> BOOLEAN] /\ chain' \in [Window -> Seq(Proc)]
  BY <1>1, RestoreType
<1>3. /\ InUserCode(t) /\ r \notin OnStack(t) /\ waiting' = [waiting EXCEPT ![t] = {r}]
      /\ UNCHANGED <<active, depth, frame>>
  BY DEF Unregister
<1>4. TypeOK'
  BY <1>1, <1>2, <1>3 DEF TypeOK
<1>5. Listed \subseteq Listed' \cup {r}
  BY <1>1, <1>2 DEF Listed, TypeOK
<1>6. {r} \in SUBSET Record /\ {r} \cap OnStack(t) = {}
  BY <1>3
<1> QED BY <1>3, <1>4, <1>5, <1>6, RemoveStep

LEMMA UnregisterModuleStep ==
  ASSUME IInv, NEW t \in Thread, NEW m \in Module, NEW failing \in SUBSET Window,
         UnregisterModule(t, m, failing)
  PROVE  IInv'
<1> DEFINE left == [w \in Window |-> {r \in callbacks[w] : OwnerOf(r) # m}]
           gone == {r \in Listed : OwnerOf(r) = m}
<1>1. TypeOK /\ left \in [Window -> SUBSET Record] /\ gone \in SUBSET Record
  BY DEF IInv, TypeOK, Listed
<1>2. /\ callbacks' = left /\ known' \in SUBSET Window
      /\ installed' \in [Window -> BOOLEAN] /\ chain' \in [Window -> Seq(Proc)]
  BY <1>1, RestoreType DEF UnregisterModule
<1>3. /\ InUserCode(t) /\ waiting' = [waiting EXCEPT ![t] = gone]
      /\ UNCHANGED <<active, depth, frame>> /\ gone \cap OnStack(t) = {}
  BY DEF UnregisterModule
<1>4. TypeOK'
  BY <1>1, <1>2, <1>3 DEF TypeOK
<1>5. Listed \subseteq Listed' \cup gone
  BY <1>1, <1>2 DEF Listed, TypeOK
<1> QED BY <1>1, <1>3, <1>4, <1>5, RemoveStep

LEMMA ReturnStep ==
  ASSUME IInv, NEW t \in Thread, Return(t)
  PROVE  IInv'
<1>1. /\ TypeOK /\ waiting' = [waiting EXCEPT ![t] = {}]
      /\ UNCHANGED <<registry, active, depth, frame>>
      /\ \A r \in waiting[t] : active[r] = 0
  BY DEF IInv, Return
<1>2. TypeOK'
  BY <1>1 DEF TypeOK, registry
<1>3. \A s \in Slot : Pending(frame[s]) \cap waiting[t] = {}
  <2> SUFFICES ASSUME NEW s \in Slot, NEW r \in waiting[t] PROVE r \notin Pending(frame[s])
    OBVIOUS
  <2>1. r \in Record
    BY <1>1 DEF TypeOK
  <2> QED BY <1>1, <2>1, CountZero DEF IInv
<1>4. Listed' = Listed /\ Awaited \subseteq Awaited' \cup waiting[t]
  BY <1>1 DEF Listed, Awaited, registry, TypeOK
<1>5. NoCallAfterUnregister'
  BY <1>1, <1>3, <1>4, SameFrames DEF IInv, NoCallAfterUnregister
<1>6. NoSelfWait'
  <2>1. \A u \in Thread : waiting'[u] \subseteq waiting[u]
    BY <1>1 DEF TypeOK
  <2>2. \A s \in Slot : s[1] \in Thread
    BY DEF Slot
  <2> QED BY <1>1, <2>1, <2>2, SameFrames DEF IInv, NoSelfWait
<1> QED BY <1>1, <1>2, <1>5, <1>6, SameFrames DEF IInv, ActiveCountsDispatches

LEMMA GameStep ==
  ASSUME IInv, Game \/ UNCHANGED vars
  PROVE  IInv'
<1>1. TypeOK /\ UNCHANGED <<known, installed, callbacks, active, depth, frame, waiting>>
  BY DEF IInv, Game, DestroyWindow, Subclass, Unsubclass, vars, registry
<1>2. chain' \in [Window -> Seq(Proc)]
  <2>1. CASE UNCHANGED vars
    BY <1>1, <2>1 DEF vars, registry, TypeOK
  <2>2. ASSUME NEW w \in Window, DestroyWindow(w) PROVE chain' \in [Window -> Seq(Proc)]
    BY <1>1, <2>2 DEF DestroyWindow, TypeOK
  <2>3. ASSUME NEW w \in Window, Subclass(w) PROVE chain' \in [Window -> Seq(Proc)]
    <3>1. <<"foreign">> \o chain[w] \in Seq(Proc)
      BY <1>1, PushProc DEF TypeOK, Proc
    <3> QED BY <1>1, <2>3, <3>1 DEF Subclass, TypeOK
  <2>4. ASSUME NEW w \in Window, Unsubclass(w) PROVE chain' \in [Window -> Seq(Proc)]
    <3>1. Tail(chain[w]) \in Seq(Proc)
      BY <1>1, <2>4, PopProc DEF Unsubclass, TypeOK
    <3> QED BY <1>1, <2>4, <3>1 DEF Unsubclass, TypeOK
  <2> QED BY <2>1, <2>2, <2>3, <2>4 DEF Game
<1>3. TypeOK'
  BY <1>1, <1>2 DEF TypeOK
<1>4. Listed' = Listed /\ Awaited' = Awaited
  BY <1>1 DEF Listed, Awaited
<1> QED
  BY <1>1, <1>3, <1>4, SameFrames
  DEF IInv, ActiveCountsDispatches, NoCallAfterUnregister, NoSelfWait

-----------------------------------------------------------------------------
LEMMA InvInit == Init => IInv
<1> SUFFICES ASSUME Init PROVE IInv
  OBVIOUS
<1>1. TypeOK
  <2>1. <<"game">> \in Seq(Proc)
    BY DEF Proc
  <2>2. NoFrame \in Frame
    BY DEF NoFrame, Frame
  <2> QED BY <2>1, <2>2 DEF Init, TypeOK
<1>2. \A s \in Slot : frame[s] = NoFrame /\ Pending(frame[s]) = {}
  BY RecordAssumption DEF Init, NoFrame, Pending
<1>3. \A s \in Slot : FrameOK(s)
  BY <1>2 DEF FrameOK, NoFrame
<1>4. ActiveCountsDispatches
  <2>1. \A r \in Record : Holders(r) = {}
    BY <1>2 DEF Holders
  <2> QED BY <2>1, FS_EmptySet DEF Init, ActiveCountsDispatches
<1> QED BY <1>1, <1>2, <1>3, <1>4 DEF IInv, NoCallAfterUnregister, NoSelfWait

LEMMA InvStep == IInv /\ [Next]_vars => IInv'
  BY BeginDispatchStep, BeginCallStep, EndCallStep, EndDispatchStep, RegisterStep,
     UnregisterStep, UnregisterModuleStep, ReturnStep, GameStep
  DEF Next, Dispatching, Registering

(* Whatever threads, windows, records and nesting there are, the bookkeeping of    *)
(* DispatchWindowMessage and of the unregister functions stays consistent.        *)
THEOREM Invariance == Spec => []IInv
  BY InvInit, InvStep, PTL DEF Spec

(* Every variable keeps its type. *)
THEOREM TypeCorrect == Spec => []TypeOK
  BY Invariance, PTL DEF IInv

(* WaitUntilIdle is enough: once an unregister has returned, no dispatch on any   *)
(* thread is inside the callback or will still call it.                          *)
THEOREM UnregisterIsFinal == Spec => []NoCallAfterUnregister
  BY Invariance, PTL DEF IInv

(* The counter a waiter watches is exact. *)
THEOREM CountsAreExact == Spec => []ActiveCountsDispatches
  BY Invariance, PTL DEF IInv

(* No caller waits for a dispatch of its own. *)
THEOREM NeverWaitsForItself == Spec => []NoSelfWait
  BY Invariance, PTL DEF IInv

-----------------------------------------------------------------------------
(* The window-message dispatcher implements CallbackRegistry: a record is in      *)
(* while a window lists it, closing while an unregister waits for it, and out     *)
(* afterwards.                                                                    *)

(* A record is in one list at most and is waited for by one caller at most, and   *)
(* never both: the three states exclude each other.                               *)
OnePlace ==
    /\ \A v, w \in Window : v # w => callbacks[v] \cap callbacks[w] = {}
    /\ \A t \in Thread : waiting[t] \cap Listed = {}
    /\ \A t, u \in Thread : t # u => waiting[t] \cap waiting[u] = {}

RInv == IInv /\ OnePlace

LEMMA OnePlaceInit == Init => OnePlace
  BY DEF Init, OnePlace, Listed

LEMMA OnePlaceRegister ==
  ASSUME RInv, NEW t \in Thread, NEW w \in Window, NEW r \in Record, Register(t, w, r)
  PROVE  OnePlace'
<1>1. /\ TypeOK /\ OnePlace /\ waiting' = waiting
      /\ callbacks' = [callbacks EXCEPT ![w] = callbacks[w] \cup {r}]
      /\ r \notin Listed /\ \A u \in Thread : r \notin waiting[u]
  BY DEF RInv, IInv, Register, Fresh
<1>2. \A v \in Window : callbacks'[v] = IF v = w THEN callbacks[v] \cup {r} ELSE callbacks[v]
  BY <1>1 DEF TypeOK
<1>3. \A v \in Window : r \notin callbacks[v]
  BY <1>1 DEF Listed
<1>4. Listed' = Listed \cup {r}
  BY <1>2 DEF Listed
<1>5. \A v, x \in Window : v # x => (callbacks[v] \cap callbacks[x])' = {}
  BY <1>1, <1>2, <1>3 DEF OnePlace
<1>6. \A u \in Thread : (waiting[u] \cap Listed)' = {}
  BY <1>1, <1>4 DEF OnePlace
<1> QED BY <1>1, <1>5, <1>6 DEF OnePlace

(* As RemoveStep: the removed records leave the lists and are waited for. *)
LEMMA OnePlaceRemove ==
  ASSUME RInv, NEW t \in Thread, NEW gone \in SUBSET Listed,
         \A w \in Window : callbacks'[w] = callbacks[w] \ gone,
         waiting[t] = {}, waiting' = [waiting EXCEPT ![t] = gone]
  PROVE  OnePlace' /\ Listed' = Listed \ gone /\ Awaited' = Awaited \cup gone
<1>1. TypeOK /\ OnePlace
  BY DEF RInv, IInv
<1>2. Listed' = Listed \ gone
  BY DEF Listed
<1>3. \A u \in Thread : waiting'[u] = IF u = t THEN gone ELSE waiting[u]
  BY <1>1 DEF TypeOK
<1>4. Awaited' = Awaited \cup gone
  BY <1>3 DEF Awaited
<1>5. \A v, w \in Window : v # w => (callbacks[v] \cap callbacks[w])' = {}
  BY <1>1 DEF OnePlace
<1>6. \A u \in Thread : (waiting[u] \cap Listed)' = {}
  BY <1>1, <1>2, <1>3 DEF OnePlace
<1>7. \A u, v \in Thread : u # v => (waiting[u] \cap waiting[v])' = {}
  BY <1>1, <1>3 DEF OnePlace
<1> QED BY <1>2, <1>4, <1>5, <1>6, <1>7 DEF OnePlace

LEMMA UnregisterRemoves ==
  ASSUME RInv, NEW t \in Thread, NEW w \in Window, NEW r \in Record,
         NEW failing \in SUBSET Window, Unregister(t, w, r, failing)
  PROVE  /\ OnePlace' /\ {r} \subseteq Listed
         /\ Listed' = Listed \ {r} /\ Awaited' = Awaited \cup {r}
<1> DEFINE left == [callbacks EXCEPT ![w] = @ \ {r}]
<1>1. TypeOK /\ OnePlace /\ left \in [Window -> SUBSET Record]
  BY DEF RInv, IInv, TypeOK
<1>2. /\ callbacks' = left /\ r \in callbacks[w]
      /\ waiting[t] = {} /\ waiting' = [waiting EXCEPT ![t] = {r}]
  BY DEF Unregister, RestoreIfUnused, InUserCode, Blocked
<1>3. \A v \in Window : callbacks'[v] = callbacks[v] \ {r}
  BY <1>1, <1>2 DEF OnePlace, TypeOK
<1>4. {r} \in SUBSET Listed
  BY <1>2 DEF Listed
<1> QED BY <1>2, <1>3, <1>4, OnePlaceRemove

LEMMA UnregisterModuleRemoves ==
  ASSUME RInv, NEW t \in Thread, NEW m \in Module, NEW failing \in SUBSET Window,
         UnregisterModule(t, m, failing)
  PROVE  LET gone == {r \in Listed : OwnerOf(r) = m}
         IN  OnePlace' /\ Listed' = Listed \ gone /\ Awaited' = Awaited \cup gone
<1> DEFINE left == [w \in Window |-> {r \in callbacks[w] : OwnerOf(r) # m}]
           gone == {r \in Listed : OwnerOf(r) = m}
<1>1. /\ callbacks' = left
      /\ waiting[t] = {} /\ waiting' = [waiting EXCEPT ![t] = gone]
  BY DEF UnregisterModule, RestoreIfUnused, InUserCode, Blocked
<1>2. \A v \in Window : callbacks'[v] = callbacks[v] \ gone
  BY <1>1 DEF Listed
<1>3. gone \in SUBSET Listed
  OBVIOUS
<1> QED BY <1>1, <1>2, <1>3, OnePlaceRemove

LEMMA ReturnReleases ==
  ASSUME RInv, NEW t \in Thread, Return(t)
  PROVE  OnePlace' /\ Listed' = Listed /\ Awaited' = Awaited \ waiting[t]
<1>1. /\ TypeOK /\ OnePlace /\ waiting' = [waiting EXCEPT ![t] = {}] /\ callbacks' = callbacks
  BY DEF RInv, IInv, Return, registry
<1>2. \A u \in Thread : waiting'[u] = IF u = t THEN {} ELSE waiting[u]
  BY <1>1 DEF TypeOK
<1>3. Listed' = Listed
  BY <1>1 DEF Listed
<1>4. Awaited' = Awaited \ waiting[t]
  BY <1>1, <1>2 DEF Awaited, OnePlace
<1> QED BY <1>1, <1>2, <1>3, <1>4 DEF OnePlace

(* The other steps move no record. *)
LEMMA UnmovedStep ==
  ASSUME RInv, UNCHANGED <<callbacks, waiting>>
  PROVE  OnePlace' /\ Listed' = Listed /\ Awaited' = Awaited
  BY DEF RInv, OnePlace, Listed, Awaited

-----------------------------------------------------------------------------
(* The steps of the abstract registry. *)
LEMMA StateOf ==
  ASSUME NEW r \in Record
  PROVE  /\ r \in Listed => RegistryState[r] = "in"
         /\ r \notin Listed /\ r \in Awaited => RegistryState[r] = "closing"
         /\ r \notin Listed /\ r \notin Awaited => RegistryState[r] = "out"
  BY DEF RegistryState

LEMMA SameState ==
  ASSUME Listed' = Listed, Awaited' = Awaited
  PROVE  RegistryState' = RegistryState
  BY DEF RegistryState

LEMMA MoveUp ==
  ASSUME NEW S \in SUBSET Record, NEW from, NEW to,
         \A r \in S : RegistryState[r] = from /\ RegistryState'[r] = to,
         \A r \in Record \ S : RegistryState'[r] = RegistryState[r]
  PROVE  Registry!Move(S, from, to)
<1>1. RegistryState' = [r \in Record |-> IF r \in S THEN to ELSE RegistryState[r]]
  BY DEF RegistryState
<1> QED BY <1>1 DEF Registry!Move

LEMMA StateAfter ==
  ASSUME NEW r \in Record
  PROVE  /\ r \in Listed' => RegistryState'[r] = "in"
         /\ r \notin Listed' /\ r \in Awaited' => RegistryState'[r] = "closing"
         /\ r \notin Listed' /\ r \notin Awaited' => RegistryState'[r] = "out"
  BY DEF RegistryState

(* Removing `gone` from the lists is the abstract Close. *)
LEMMA RemovalCloses ==
  ASSUME RInv, NEW gone \in SUBSET Listed, UNCHANGED active,
         Listed' = Listed \ gone, Awaited' = Awaited \cup gone
  PROVE  Registry!Next
<1>1. gone \in SUBSET Record
  BY DEF RInv, IInv, TypeOK, Listed
<1>2. \A r \in gone : RegistryState[r] = "in" /\ RegistryState'[r] = "closing"
  BY <1>1, StateOf, StateAfter
<1>3. \A r \in Record \ gone : RegistryState'[r] = RegistryState[r]
  BY StateOf, StateAfter
<1>4. Registry!Close(gone)
  BY <1>1, <1>2, <1>3, MoveUp DEF Registry!Close
<1> QED BY <1>1, <1>4 DEF Registry!Next

LEMMA RefinementInit == Init => Registry!Init
<1> SUFFICES ASSUME Init PROVE Registry!Init
  OBVIOUS
<1>1. Listed = {} /\ Awaited = {}
  BY DEF Init, Listed, Awaited
<1> QED BY <1>1 DEF Init, Registry!Init, RegistryState

LEMMA RefinementStep ==
  ASSUME RInv, [Next]_vars
  PROVE  OnePlace' /\ [Registry!Next]_(Registry!vars)
<1>1. ASSUME UNCHANGED <<callbacks, waiting, active>>
      PROVE  OnePlace' /\ UNCHANGED Registry!vars
  BY <1>1, UnmovedStep, SameState DEF Registry!vars
<1>2. ASSUME NEW t \in Thread, NEW w \in Window, BeginDispatch(t, w)
      PROVE  OnePlace' /\ Registry!Next
  <2>1. UNCHANGED <<callbacks, waiting>>
    BY <1>2 DEF BeginDispatch, registry
  <2>2. OnePlace' /\ RegistryState' = RegistryState
    BY <2>1, UnmovedStep, SameState
  <2>3. callbacks[w] \in SUBSET Record /\ \A r \in callbacks[w] : RegistryState[r] = "in"
    BY StateOf DEF RInv, IInv, TypeOK, Listed
  <2>4. Registry!Enter(callbacks[w])
    BY <1>2, <2>2, <2>3 DEF BeginDispatch, Registry!Enter
  <2> QED BY <2>2, <2>3, <2>4 DEF Registry!Next
<1>3. ASSUME NEW t \in Thread, EndCall(t)
      PROVE  OnePlace' /\ Registry!Next
  <2> DEFINE r == frame[Top(t)].running
  <2>1. Top(t) \in Slot /\ r \in Record /\ r \in Pending(frame[Top(t)])
    BY <1>3, RecordAssumption DEF EndCall, RInv, IInv, TypeOK, Slot, Top, Frame, Pending
  <2>2. active[r] \in Nat /\ active[r] > 0
    BY <2>1, CountZero DEF RInv, IInv
  <2>3. UNCHANGED <<callbacks, waiting>> /\ active' = [active EXCEPT ![r] = active[r] - 1]
    BY <1>3 DEF EndCall, registry
  <2>4. OnePlace' /\ RegistryState' = RegistryState
    BY <2>3, UnmovedStep, SameState
  <2>5. Registry!Leave(r)
    BY <2>2, <2>3, <2>4 DEF Registry!Leave
  <2> QED BY <2>1, <2>4, <2>5 DEF Registry!Next
<1>4. ASSUME NEW t \in Thread, NEW w \in Window, NEW r \in Record, Register(t, w, r)
      PROVE  OnePlace' /\ Registry!Next
  <2>1. OnePlace'
    BY <1>4, OnePlaceRegister
  <2>2. r \notin Listed /\ r \notin Awaited
    BY <1>4 DEF Register, Fresh, Awaited
  <2>3. Listed' = Listed \cup {r} /\ Awaited' = Awaited
    BY <1>4 DEF Register, Listed, Awaited, RInv, IInv, TypeOK
  <2>4. active' = active
    <3>1. \A s \in Slot : r \notin Pending(frame[s])
      <4> SUFFICES ASSUME NEW s \in Slot PROVE r \notin frame[s].held
        BY DEF RInv, IInv, FrameOK
      <4>1. PICK u \in Thread, d \in 1 .. MaxDepth : s = <<u, d>>
        BY DEF Slot
      <4> QED BY <1>4, <4>1 DEF Register, Fresh, OnStack
    <3>2. active[r] = 0
      BY <3>1, CountZero DEF RInv, IInv
    <3> QED BY <1>4, <3>2 DEF Register, RInv, IInv, TypeOK
  <2>5. RegistryState[r] = "out" /\ RegistryState'[r] = "in"
    BY <2>2, <2>3, StateOf, StateAfter
  <2>6. \A q \in Record \ {r} : RegistryState'[q] = RegistryState[q]
    BY <2>3, StateOf, StateAfter
  <2>7. {r} \in SUBSET Record /\ \A q \in {r} : RegistryState[q] = "out" /\ RegistryState'[q] = "in"
    BY <2>5
  <2>8. Registry!Move({r}, "out", "in")
    BY <2>6, <2>7, MoveUp
  <2> QED BY <2>1, <2>4, <2>8 DEF Registry!Next, Registry!Add
<1>5. ASSUME NEW t \in Thread, NEW w \in Window, NEW r \in Record,
             NEW failing \in SUBSET Window, Unregister(t, w, r, failing)
      PROVE  OnePlace' /\ Registry!Next
  <2>1. UNCHANGED active
    BY <1>5 DEF Unregister
  <2>2. OnePlace' /\ Listed' = Listed \ {r} /\ Awaited' = Awaited \cup {r}
    BY <1>5, UnregisterRemoves
  <2>3. {r} \in SUBSET Listed
    BY <1>5, UnregisterRemoves
  <2> QED BY <2>1, <2>2, <2>3, RemovalCloses
<1>6. ASSUME NEW t \in Thread, NEW m \in Module, NEW failing \in SUBSET Window,
             UnregisterModule(t, m, failing)
      PROVE  OnePlace' /\ Registry!Next
  <2> DEFINE gone == {r \in Listed : OwnerOf(r) = m}
  <2>1. UNCHANGED active /\ gone \in SUBSET Listed
    BY <1>6 DEF UnregisterModule
  <2> QED BY <1>6, <2>1, UnregisterModuleRemoves, RemovalCloses
<1>7. ASSUME NEW t \in Thread, Return(t)
      PROVE  OnePlace' /\ Registry!Next
  <2>1. OnePlace' /\ Listed' = Listed /\ Awaited' = Awaited \ waiting[t]
    BY <1>7, ReturnReleases
  <2>2. /\ waiting[t] \in SUBSET Record /\ waiting[t] \subseteq Awaited
        /\ waiting[t] \cap Listed = {} /\ UNCHANGED active
        /\ \A r \in waiting[t] : active[r] = 0
    BY <1>7 DEF Return, RInv, IInv, TypeOK, OnePlace, Awaited
  <2>3. \A r \in waiting[t] : RegistryState[r] = "closing" /\ RegistryState'[r] = "out"
    BY <2>1, <2>2, StateOf, StateAfter
  <2>4. \A r \in Record \ waiting[t] : RegistryState'[r] = RegistryState[r]
    BY <2>1, StateOf, StateAfter
  <2>5. Registry!Finish(waiting[t])
    BY <2>2, <2>3, <2>4, MoveUp DEF Registry!Finish
  <2> QED BY <2>1, <2>2, <2>5 DEF Registry!Next
<1>8. ASSUME NEW t \in Thread, (\E r \in Record : BeginCall(t, r)) \/ EndDispatch(t)
      PROVE  UNCHANGED <<callbacks, waiting, active>>
  BY <1>8 DEF BeginCall, EndDispatch, registry
<1>9. CASE Game \/ UNCHANGED vars
  BY <1>1, <1>9 DEF Game, DestroyWindow, Subclass, Unsubclass, vars, registry
<1> QED
  BY <1>1, <1>2, <1>3, <1>4, <1>5, <1>6, <1>7, <1>8, <1>9
  DEF Next, Dispatching, Registering

(* Whatever relies only on the registry's promise may rely on the dispatcher. *)
THEOREM DispatcherIsRegistry == Spec => RefinesRegistry
<1>1. Init => RInv
  BY InvInit, OnePlaceInit DEF RInv
<1>2. RInv /\ [Next]_vars => RInv'
  BY InvStep, RefinementStep DEF RInv
<1>3. RInv /\ [Next]_vars => [Registry!Next]_(Registry!vars)
  BY RefinementStep
<1> QED BY <1>1, <1>2, <1>3, RefinementInit, PTL DEF Spec, RefinesRegistry, Registry!Spec

-----------------------------------------------------------------------------
(* The chains of window procedures *)

Urk(s) == {i \in DOMAIN s : s[i] = "urk"}
Once(s) == \A i, j \in Urk(s) : i = j

(* SetWindowLongPtr puts a procedure in front of the others, or takes it away.    *)
LEMMA InFront ==
  ASSUME NEW p \in Proc, NEW s \in Seq(Proc)
  PROVE  /\ <<p>> \o s # <<>> /\ (Urk(<<p>> \o s) # {} <=> p = "urk" \/ Urk(s) # {})
         /\ Once(s) /\ (p = "urk" => Urk(s) = {}) => Once(<<p>> \o s)
<1> DEFINE q == <<p>> \o s
<1>1. /\ q \in Seq(Proc) /\ Len(q) = Len(s) + 1 /\ q[1] = p
      /\ \A i \in 1 .. Len(s) : q[i + 1] = s[i]
  OBVIOUS
<1>2. q # <<>> /\ DOMAIN q = 1 .. Len(s) + 1 /\ DOMAIN s = 1 .. Len(s) /\ Len(s) \in Nat
  BY <1>1
<1> HIDE DEF q
<1>3. \A i \in Urk(q) : (i = 1 /\ p = "urk") \/ i - 1 \in Urk(s)
  BY <1>1, <1>2 DEF Urk
<1>4. \A i \in Urk(s) : i + 1 \in Urk(q)
  BY <1>1, <1>2 DEF Urk
<1>5. p = "urk" => 1 \in Urk(q)
  BY <1>1, <1>2 DEF Urk
<1>6. Once(s) /\ (p = "urk" => Urk(s) = {}) => Once(q)
  BY <1>2, <1>3 DEF Once, Urk
<1> QED BY <1>2, <1>3, <1>4, <1>5, <1>6 DEF q

LEMMA TakenAway ==
  ASSUME NEW s \in Seq(Proc), s # <<>>, Once(s)
  PROVE  /\ Tail(s) \in Seq(Proc) /\ Once(Tail(s))
         /\ Urk(Tail(s)) # {} <=> Urk(s) # {} /\ s[1] # "urk"
<1> DEFINE q == Tail(s)
<1>1. /\ q \in Seq(Proc) /\ Len(q) = Len(s) - 1 /\ Len(s) \in Nat \ {0}
      /\ \A i \in 1 .. Len(q) : q[i] = s[i + 1]
  OBVIOUS
<1>2. DOMAIN q = 1 .. Len(s) - 1 /\ DOMAIN s = 1 .. Len(s)
  BY <1>1
<1> HIDE DEF q
<1>3. \A i \in Urk(q) : i + 1 \in Urk(s) /\ i \in 1 .. Len(s) - 1
  BY <1>1, <1>2 DEF Urk
<1>4. \A i \in Urk(s) : i = 1 \/ i - 1 \in Urk(q)
  BY <1>1, <1>2 DEF Urk
<1>5. 1 \in Urk(s) <=> s[1] = "urk"
  BY <1>1, <1>2 DEF Urk
<1>6. Once(q)
  BY <1>1, <1>2, <1>3 DEF Once
<1>7. s[1] = "urk" => Urk(q) = {}
  BY <1>1, <1>3, <1>5 DEF Once
<1> QED BY <1>1, <1>3, <1>4, <1>5, <1>6, <1>7 DEF q

ChainFits(w) ==
    /\ Once(chain[w])
    /\ Urk(chain[w]) # {} => w \in known
    /\ chain[w] # <<>> => (installed[w] <=> Urk(chain[w]) # {})
    /\ callbacks[w] # {} /\ chain[w] # <<>> => installed[w]

CInv == TypeOK /\ \A w \in Window : ChainFits(w)

LEMMA ChainsRegister ==
  ASSUME CInv, NEW t \in Thread, NEW w \in Window, NEW r \in Record, Register(t, w, r), NEW v \in Window
  PROVE  ChainFits(v)'
<1>1. TypeOK /\ ChainFits(v) /\ ChainFits(w) /\ chain[v] \in Seq(Proc)
  BY DEF CInv, TypeOK
<1>2. /\ chain[w] # <<>> /\ known' = known \cup {w}
      /\ installed'[v] = IF v = w THEN TRUE ELSE installed[v]
      /\ v # w => callbacks'[v] = callbacks[v]
      /\ chain'[v] = IF v = w /\ ~(w \in known /\ installed[w]) THEN <<"urk">> \o chain[v] ELSE chain[v]
  BY <1>1 DEF Register, TypeOK
<1>3. CASE v = w /\ ~(w \in known /\ installed[w])
  <2>1. Urk(chain[v]) = {} /\ "urk" \in Proc
    BY <1>1, <1>2, <1>3 DEF ChainFits, Proc
  <2>2. Once(chain'[v]) /\ Urk(chain'[v]) # {}
    BY <1>1, <1>2, <1>3, <2>1, InFront DEF ChainFits
  <2> QED BY <1>2, <1>3, <2>2 DEF ChainFits
<1>4. CASE v = w /\ w \in known /\ installed[w]
  BY <1>1, <1>2, <1>4 DEF ChainFits
<1>5. CASE v # w
  BY <1>1, <1>2, <1>5 DEF ChainFits
<1> QED BY <1>3, <1>4, <1>5

LEMMA ChainsRestore ==
  ASSUME CInv, NEW ws \in SUBSET Window, NEW left \in [Window -> SUBSET Record], NEW failing,
         \A w \in Window : left[w] \subseteq callbacks[w],
         RestoreIfUnused(ws, left, failing), NEW v \in Window
  PROVE  ChainFits(v)'
<1> DEFINE Restored == v \in ws \cap known /\ left[v] = {} /\ v \notin failing
                       /\ chain[v] # <<>> /\ chain[v][1] = "urk"
           Erased == v \in ws \cap known /\ left[v] = {} /\ chain[v] = <<>>
<1>1. ChainFits(v) /\ chain[v] \in Seq(Proc) /\ left[v] \subseteq callbacks[v]
  BY DEF CInv, TypeOK
<1>2. /\ callbacks'[v] = left[v] /\ (v \in known' <=> v \in known /\ ~Erased)
      /\ installed'[v] = (installed[v] /\ ~Erased /\ ~Restored)
      /\ chain'[v] = IF Restored THEN Tail(chain[v]) ELSE chain[v]
  BY DEF RestoreIfUnused
<1>3. CASE Restored
  <2>1. Once(Tail(chain[v])) /\ Urk(Tail(chain[v])) = {}
    BY <1>1, <1>3, TakenAway DEF ChainFits
  <2> QED BY <1>2, <1>3, <2>1 DEF ChainFits
<1>4. CASE ~Restored
  <2>1. chain[v] = <<>> => Urk(chain[v]) = {}
    BY DEF Urk
  <2> QED BY <1>1, <1>2, <1>4, <2>1 DEF ChainFits
<1> QED BY <1>3, <1>4

LEMMA ChainsGame ==
  ASSUME CInv, NEW w \in Window, DestroyWindow(w) \/ Subclass(w) \/ Unsubclass(w), NEW v \in Window
  PROVE  ChainFits(v)'
<1>1. TypeOK /\ ChainFits(v) /\ chain[v] \in Seq(Proc) /\ known' = known /\ installed' = installed /\ callbacks' = callbacks
  BY DEF CInv, TypeOK, DestroyWindow, Subclass, Unsubclass
<1>2. chain[w] # <<>> /\ (v # w => chain'[v] = chain[v])
  BY <1>1 DEF DestroyWindow, Subclass, Unsubclass, TypeOK
<1>3. v # w => ChainFits(v)'
  BY <1>1, <1>2 DEF ChainFits
<1>4. CASE v = w /\ DestroyWindow(w)
  <2>1. chain'[v] = <<>>
    BY <1>1, <1>4 DEF DestroyWindow, TypeOK
  <2>2. Urk(<<>>) = {}
    BY DEF Urk
  <2> QED BY <2>1, <2>2 DEF ChainFits, Once
<1>5. CASE v = w /\ Subclass(w)
  <2>1. chain'[v] = <<"foreign">> \o chain[v] /\ "foreign" \in Proc
    BY <1>1, <1>5 DEF Subclass, TypeOK, Proc
  <2>2. /\ Once(chain'[v]) /\ chain'[v] # <<>>
        /\ Urk(chain'[v]) # {} <=> Urk(chain[v]) # {}
    BY <1>1, <2>1, InFront DEF ChainFits
  <2> QED BY <1>1, <1>2, <1>5, <2>2 DEF ChainFits
<1>6. CASE v = w /\ Unsubclass(w)
  <2>1. chain'[v] = Tail(chain[v]) /\ chain[v][1] = "foreign"
    BY <1>1, <1>6 DEF Unsubclass, TypeOK
  <2>2. /\ Once(chain'[v])
        /\ Urk(chain'[v]) # {} <=> Urk(chain[v]) # {}
    BY <1>1, <1>2, <1>6, <2>1, TakenAway DEF ChainFits
  <2> QED BY <1>1, <1>2, <1>6, <2>2 DEF ChainFits
<1> QED BY <1>3, <1>4, <1>5, <1>6

LEMMA ChainsStep == CInv /\ TypeOK' /\ [Next]_vars => CInv'
<1> SUFFICES ASSUME CInv, [Next]_vars, NEW v \in Window PROVE ChainFits(v)'
  BY DEF CInv
<1>1. ASSUME UNCHANGED registry PROVE ChainFits(v)'
  BY <1>1 DEF CInv, ChainFits, registry
<1>2. ASSUME NEW t \in Thread, Dispatching(t) \/ Return(t) PROVE ChainFits(v)'
  BY <1>1, <1>2 DEF Dispatching, BeginDispatch, BeginCall, EndCall, EndDispatch, Return
<1>3. ASSUME NEW t \in Thread, NEW w \in Window, NEW r \in Record, Register(t, w, r) PROVE ChainFits(v)'
  BY <1>3, ChainsRegister
<1>4. ASSUME NEW t \in Thread, NEW w \in Window, NEW r \in Record, NEW failing, Unregister(t, w, r, failing)
      PROVE  ChainFits(v)'
  <2> DEFINE left == [callbacks EXCEPT ![w] = @ \ {r}]
  <2>1. left \in [Window -> SUBSET Record] /\ \A x \in Window : left[x] \subseteq callbacks[x]
    BY DEF CInv, TypeOK
  <2>2. RestoreIfUnused({w}, left, failing)
    BY <1>4 DEF Unregister
  <2> HIDE DEF left
  <2> QED BY <2>1, <2>2, ChainsRestore
<1>5. ASSUME NEW t \in Thread, NEW m \in Module, NEW failing, UnregisterModule(t, m, failing)
      PROVE  ChainFits(v)'
  <2> DEFINE left == [x \in Window |-> {r \in callbacks[x] : OwnerOf(r) # m}]
  <2>1. left \in [Window -> SUBSET Record] /\ \A x \in Window : left[x] \subseteq callbacks[x]
    BY DEF CInv, TypeOK
  <2>2. RestoreIfUnused(Window, left, failing)
    BY <1>5 DEF UnregisterModule
  <2> HIDE DEF left
  <2> QED BY <2>1, <2>2, ChainsRestore
<1>6. ASSUME NEW w \in Window, DestroyWindow(w) \/ Subclass(w) \/ Unsubclass(w) PROVE ChainFits(v)'
  BY <1>6, ChainsGame
<1>7. CASE UNCHANGED vars
  BY <1>1, <1>7 DEF vars
<1> QED BY <1>2, <1>3, <1>4, <1>5, <1>6, <1>7 DEF Next, Game, Registering

(* However windows are registered, restored, subclassed by others and destroyed, the *)
(* loader's procedure is in a window's chain once at most, and g_windows knows when.  *)
THEOREM ProcedureIsInChainOnce == Spec => []DispatcherOnceInChain
<1>1. Init => CInv
  <2>1. SUFFICES ASSUME Init, NEW w \in Window PROVE ChainFits(w)
    BY InvInit DEF CInv, IInv
  <2>2. chain[w] = <<"game">> /\ installed[w] = FALSE /\ callbacks[w] = {}
    BY <2>1 DEF Init
  <2>3. Urk(<<"game">>) = {}
    BY DEF Urk
  <2> QED BY <2>2, <2>3 DEF ChainFits, Once
<1>2. CInv /\ TypeOK' /\ [Next]_vars => CInv'
  BY ChainsStep
<1>3. CInv => DispatcherOnceInChain
  <2>1. SUFFICES ASSUME CInv, NEW w \in Window
                 PROVE  /\ Cardinality(InChain(w)) <= 1 /\ ChainFits(w) /\ InChain(w) = Urk(chain[w])
    BY DEF DispatcherOnceInChain, ChainFits
  <2>2. ChainFits(w) /\ InChain(w) = Urk(chain[w])
    BY <2>1 DEF CInv, InChain, Urk
  <2>3. CASE InChain(w) = {}
    BY <2>2, <2>3, FS_EmptySet
  <2>4. CASE InChain(w) # {}
    <3>1. PICK i : InChain(w) = {i}
      BY <2>2, <2>4 DEF ChainFits, Once
    <3> QED BY <2>2, <3>1, FS_Singleton
  <2> QED BY <2>2, <2>3, <2>4
<1> QED BY <1>1, <1>2, <1>3, TypeCorrect, PTL DEF Spec
=============================================================================
