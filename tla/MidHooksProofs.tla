----------------------------- MODULE MidHooksProofs -----------------------------
(* Theorems about the mid hooks, for any pool, callbacks, modules and threads.     *)
EXTENDS MidHooks, TLAPS

Last == Len(made)

(* A slot in use that nobody works on has its stub, and the stub's callback.       *)
SlotFits(s) ==
    /\ ~slots[s].in_use => slots[s].callback = NoCallback /\ slots[s].safety_hook = 0
    /\ slots[s].callback # NoCallback => slots[s].owner = Owner[slots[s].callback]
    /\ slots[s].in_use /\ s # now =>
          /\ slots[s].safety_hook \in stubs
          /\ made[slots[s].safety_hook].slot = s
          /\ made[slots[s].safety_hook].callback = slots[s].callback

StubFits(n) ==
    LET slot == slots[made[n].slot]
    IN  slot.in_use /\ slot.safety_hook = n /\ slot.owner = Owner[made[n].callback]

SlotsFit == \A s \in Slot : SlotFits(s)
StubsFit == \A n \in stubs : StubFits(n)

(* What the holder of g_hook_mutex has done so far to the slot it works on.        *)
AttachFits ==
    step \in {"claimed", "published"} =>
        /\ Last > 0 /\ made[Last].slot = now /\ Last \notin stubs
        /\ slots[now].safety_hook = 0 /\ slots[now].owner = Owner[made[Last].callback]
        /\ slots[now].callback = IF step = "claimed" THEN NoCallback ELSE made[Last].callback

ReleaseFits ==
    /\ step \in {"unpatch", "clear"} => slots[now].callback = NoCallback
    /\ step = "unpatch" => slots[now].safety_hook \in stubs /\ made[slots[now].safety_hook].slot = now
    /\ step = "clear" => slots[now].safety_hook \notin stubs
    /\ leaving # NoModule => \A s \in Slot : slots[s].in_use /\ slots[s].owner = leaving
                                                 => s \in queue \cup {now}

StepFits ==
    /\ step \in {"free", "silence"} => now = 0
    /\ step \in {"free", "claimed", "published"} => queue = {} /\ leaving = NoModule
    /\ step \in {"claimed", "published", "unpatch", "clear"} => now \in Slot /\ slots[now].in_use
    /\ now \notin queue /\ \A s \in queue : slots[s].in_use
    /\ AttachFits /\ ReleaseFits

(* A detached module owns no slot. *)
ModulesFit == \A s \in Slot : slots[s].in_use => slots[s].owner \notin detached

(* What holds of a thread at d in a dispatch: the callbacks that it or a slot has, or *)
(* a slot is about to have, and whose modules were detached when it entered its stub, *)
(* were attached after that.                                                         *)
LaterIfGone(d, c) ==
    c # NoCallback /\ Owner[c] \in d.gone => \E n \in d.seen + 1 .. Last : made[n].callback = c

DispatchFits(d) ==
    /\ d.seen \in 0 .. Last
    /\ LaterIfGone(d, d.callback)
    /\ d.at = "out" => d = Out
    /\ d.at # "out" =>
          /\ d.stub \in 1 .. Last
          /\ \A s \in Slot : LaterIfGone(d, slots[s].callback)
          /\ step = "claimed" => LaterIfGone(d, made[Last].callback)

ThreadsFit == \A t \in Thread : DispatchFits(threads[t])

HooksFit == SlotsFit /\ StubsFit /\ StepFits /\ ModulesFit
IInv == TypeOK /\ HooksFit /\ ThreadsFit

USE OwnerAssumption, SlotCountAssumption, NoneAssumption, MaxAttachAssumption DEF pool, lock

LEMMA SlotIsPositive == 0 \notin Slot /\ Slot \subseteq Nat
  BY DEF Slot

LEMMA MadeType ==
  ASSUME TypeOK
  PROVE  /\ Last \in Nat /\ Last <= MaxAttach
         /\ \A n \in 1 .. Last : /\ made[n] \in Made /\ made[n].slot \in Slot
                                 /\ made[n].callback \in Callback /\ n \in Attachment
<1>1. made \in Seq(Made) /\ Last \in Nat /\ Last <= MaxAttach
  BY DEF TypeOK, Last
<1>2. ASSUME NEW n \in 1 .. Last PROVE made[n] \in Made /\ n \in Attachment
  BY <1>1 DEF Last, Attachment
<1> QED BY <1>1, <1>2 DEF Made

LEMMA StubsType ==
  ASSUME TypeOK PROVE \A n \in stubs : n \in 1 .. Last /\ n # 0 /\ made[n].slot \in Slot
  BY MadeType DEF TypeOK, Last

LEMMA InitInvariant == Init => IInv
<1> SUFFICES ASSUME Init PROVE IInv
  OBVIOUS
<1>1. made = <<>> /\ Last = 0
  BY DEF Init, Last
<1>2. TypeOK
  <2>1. made \in Seq(Made) /\ Len(made) <= MaxAttach
    BY <1>1, SMT
  <2>2. slots \in [Slot -> MidHookSlot]
    BY DEF Init, MidHookSlot
  <2>3. threads \in [Thread -> Dispatch]
    BY DEF Init, Dispatch, Out
  <2> QED BY <2>1, <2>2, <2>3 DEF Init, TypeOK
<1>3. HooksFit
  BY DEF Init, HooksFit, SlotsFit, SlotFits, StubsFit, StubFits, StepFits, AttachFits, ReleaseFits, ModulesFit
<1>4. ThreadsFit
  <2>1. ASSUME NEW t \in Thread
        PROVE  /\ threads[t] = Out /\ threads[t].at = "out" /\ threads[t].callback = NoCallback
               /\ threads[t].seen \in 0 .. Last
    BY <1>1 DEF Init, Out
  <2> QED BY <2>1 DEF ThreadsFit, DispatchFits, LaterIfGone
<1> QED BY <1>2, <1>3, <1>4 DEF IInv

(* --- what the properties take from the invariant ------------------------------ *)

LEMMA StubFinds == IInv => StubFindsItsCallback
<1> SUFFICES ASSUME IInv, NEW n \in stubs,
                    ~(step = "unpatch" /\ now = made[n].slot)
             PROVE  slots[made[n].slot].callback = made[n].callback
  BY DEF StubFindsItsCallback
<1>1. made[n].slot \in Slot /\ n # 0
  BY MadeType DEF IInv, TypeOK, Last
<1>2. slots[made[n].slot].in_use /\ slots[made[n].slot].safety_hook = n
  BY DEF IInv, HooksFit, StubsFit, StubFits
<1>3. made[n].slot # now
  BY <1>1, <1>2, SlotIsPositive DEF IInv, TypeOK, HooksFit, StepFits, AttachFits, ReleaseFits
<1> QED BY <1>1, <1>2, <1>3 DEF IInv, HooksFit, SlotsFit, SlotFits

LEMMA PoolFits == IInv => PoolIsTheHooks
  BY SlotIsPositive DEF IInv, HooksFit, SlotsFit, SlotFits, StubsFit, StubFits, StepFits, PoolIsTheHooks

LEMMA DetachedIsOut == IInv => DetachedModuleIsOut
<1> SUFFICES ASSUME IInv PROVE DetachedModuleIsOut
  OBVIOUS
<1>1. ASSUME NEW m \in detached, NEW n \in stubs PROVE Owner[made[n].callback] # m
  BY MadeType DEF IInv, TypeOK, Last, HooksFit, StubsFit, StubFits, ModulesFit
<1>2. ASSUME NEW m \in detached, NEW s \in Slot, slots[s].callback # NoCallback
      PROVE  Owner[slots[s].callback] # m
  BY <1>2 DEF IInv, HooksFit, SlotsFit, SlotFits, ModulesFit
<1>3. ASSUME NEW t \in Thread, threads[t].callback # NoCallback,
             Owner[threads[t].callback] \in threads[t].gone
      PROVE  \E n \in threads[t].seen + 1 .. Len(made) : made[n].callback = threads[t].callback
  BY <1>3 DEF IInv, ThreadsFit, DispatchFits, LaterIfGone, Last
<1> QED BY <1>1, <1>2, <1>3 DEF DetachedModuleIsOut

(* --- attaching ---------------------------------------------------------------- *)

(* What ThreadsFit needs of a step of the lock's holder. *)
LEMMA ThreadsKept ==
  ASSUME IInv, UNCHANGED <<made, threads>>, step' # "claimed",
         \A s \in Slot : \/ slots'[s].callback \in {NoCallback, slots[s].callback}
                         \/ step = "claimed" /\ slots'[s].callback = made[Last].callback
  PROVE  ThreadsFit'
<1>1. ASSUME NEW t \in Thread, NEW c, LaterIfGone(threads[t], c) PROVE LaterIfGone(threads[t], c)'
  BY <1>1 DEF LaterIfGone, Last
<1> QED BY <1>1 DEF IInv, ThreadsFit, DispatchFits, LaterIfGone, Last

LEMMA ClaimPreserves == ASSUME IInv, NEW c \in Callback, Claim(c) PROVE IInv'
<1>1. PICK s \in Slot :
        /\ ~slots[s].in_use /\ now' = s
        /\ slots' = [slots EXCEPT ![s].in_use = TRUE, ![s].user_data = Len(made) + 1,
                                  ![s].owner = Owner[c],
                                  ![s].generation = slots[s].generation + 1]
        /\ made' = Append(made, [slot |-> s, generation |-> slots[s].generation + 1,
                                 callback |-> c])
  BY DEF Claim
<1>2. /\ step = "free" /\ step' = "claimed" /\ Len(made) < MaxAttach
      /\ detached' = detached \ {Owner[c]}
      /\ UNCHANGED <<handles, stubs, enabled, queue, leaving, threads>>
  BY DEF Claim, GoesTo
<1>3. slots[s] \in MidHookSlot /\ slots[s].generation + 1 \in Nat
  BY DEF IInv, TypeOK, MidHookSlot
<1>4. [slot |-> s, generation |-> slots[s].generation + 1, callback |-> c] \in Made
  BY <1>3 DEF Made
<1>5. /\ made' \in Seq(Made) /\ Last' = Last + 1 /\ Last \in Nat
      /\ \A n \in 1 .. Last : made'[n] = made[n]
      /\ made'[Last'] = [slot |-> s, generation |-> slots[s].generation + 1, callback |-> c]
  BY <1>1, <1>4 DEF IInv, TypeOK, Last
<1>6. /\ slots' \in [Slot -> MidHookSlot]
      /\ slots'[s].in_use /\ slots'[s].owner = Owner[c]
      /\ slots'[s].callback = slots[s].callback /\ slots'[s].safety_hook = slots[s].safety_hook
      /\ \A r \in Slot \ {s} : slots'[r] = slots[r]
  <2>1. Len(made) + 1 \in Attachment
    BY <1>2, <1>5 DEF Attachment, Last
  <2>2. Owner[c] \in Module
    OBVIOUS
  <2>3. slots'[s] = [slots[s] EXCEPT !.in_use = TRUE, !.user_data = Len(made) + 1,
                                     !.owner = Owner[c],
                                     !.generation = slots[s].generation + 1]
    BY <1>1 DEF IInv, TypeOK
  <2>4. slots'[s] \in MidHookSlot
    BY <1>3, <2>1, <2>2, <2>3 DEF MidHookSlot
  <2> QED BY <1>1, <1>3, <2>3, <2>4 DEF IInv, TypeOK, MidHookSlot
<1>7. TypeOK'
  BY <1>1, <1>2, <1>5, <1>6 DEF IInv, TypeOK, Last
<1>8. slots[s].callback = NoCallback /\ slots[s].safety_hook = 0 /\ queue = {} /\ now = 0
  BY <1>1, <1>2 DEF IInv, HooksFit, SlotsFit, SlotFits, StepFits
<1>9. SlotsFit'
  <2> SUFFICES ASSUME NEW r \in Slot PROVE SlotFits(r)'
    BY DEF SlotsFit
  <2>1. SlotFits(r) /\ r # now /\ now' = s
    BY <1>1, <1>8, SlotIsPositive DEF IInv, HooksFit, SlotsFit
  <2>2. CASE r = s
    BY <1>6, <1>8, <2>1, <2>2 DEF SlotFits
  <2>3. CASE r # s
    <3>1. slots'[r] = slots[r] /\ stubs' = stubs
      BY <1>2, <1>6, <2>3
    <3>2. \A n \in stubs : made'[n] = made[n]
      BY <1>5, StubsType DEF IInv
    <3> QED BY <2>1, <3>1, <3>2 DEF SlotFits
  <2> QED BY <2>2, <2>3
<1>10. StubsFit'
  <2> SUFFICES ASSUME NEW n \in stubs PROVE StubFits(n)'
    BY <1>2 DEF StubsFit
  <2>1. made[n].slot \in Slot /\ StubFits(n) /\ made'[n] = made[n]
    BY <1>5, StubsType DEF IInv, HooksFit, StubsFit
  <2>2. made[n].slot # s
    BY <1>1, <2>1 DEF StubFits
  <2> QED BY <1>6, <2>1, <2>2 DEF StubFits
<1>11. StepFits'
  BY <1>1, <1>2, <1>5, <1>6, <1>8 DEF IInv, TypeOK, HooksFit, StepFits, AttachFits, ReleaseFits, Last
<1>12. ModulesFit'
  BY <1>2, <1>6 DEF IInv, HooksFit, ModulesFit
<1>13. ThreadsFit'
  <2> SUFFICES ASSUME NEW t \in Thread PROVE DispatchFits(threads[t])'
    BY DEF ThreadsFit
  <2>1. DispatchFits(threads[t]) /\ threads[t].seen \in 0 .. Last' /\ threads[t].seen + 1 <= Last'
    BY <1>5 DEF IInv, ThreadsFit, DispatchFits
  <2>2. ASSUME NEW x, LaterIfGone(threads[t], x) PROVE LaterIfGone(threads[t], x)'
    BY <2>1, <2>2, <1>2, <1>5 DEF LaterIfGone, DispatchFits
  <2>3. LaterIfGone(threads[t], made[Last].callback)'
    BY <2>1, <1>2, <1>5 DEF LaterIfGone
  <2>4. \A r \in Slot : slots'[r].callback = slots[r].callback
    BY <1>6
  <2> QED BY <2>1, <2>2, <2>3, <2>4, <1>2, <1>5 DEF DispatchFits
<1> QED BY <1>7, <1>9, <1>10, <1>11, <1>12, <1>13 DEF IInv, HooksFit

LEMMA PublishPreserves == ASSUME IInv, Publish PROVE IInv'
<1>1. now \in Slot /\ AttachFits /\ step = "claimed" /\ step' = "published"
  BY DEF Publish, GoesTo, IInv, HooksFit, StepFits
<1>2. made[Last].callback \in Callback /\ Last \in 1 .. Last
  BY <1>1, MadeType DEF AttachFits, IInv
<1>3. /\ slots' \in [Slot -> MidHookSlot]
      /\ slots'[now] = [slots[now] EXCEPT !.callback = made[Last].callback]
      /\ \A r \in Slot \ {now} : slots'[r] = slots[r]
  <2>1. slots[now] \in MidHookSlot
    BY <1>1 DEF IInv, TypeOK
  <2>2. [slots[now] EXCEPT !.callback = made[Last].callback] \in MidHookSlot
    BY <1>2, <2>1 DEF MidHookSlot
  <2> QED BY <1>1, <2>2 DEF Publish, IInv, TypeOK, Last
<1>4. /\ slots'[now].callback = made[Last].callback /\ slots'[now].in_use = slots[now].in_use
      /\ slots'[now].safety_hook = slots[now].safety_hook /\ slots'[now].owner = slots[now].owner
  BY <1>1, <1>3 DEF IInv, TypeOK, MidHookSlot
<1>5. UNCHANGED <<made, handles, stubs, enabled, now, queue, leaving, detached, threads>>
  BY DEF Publish
<1>6. TypeOK'
  BY <1>1, <1>3, <1>5 DEF IInv, TypeOK
<1>7. SlotsFit' /\ StubsFit'
  <2>1. SlotsFit'
    <3>1. ASSUME NEW s \in Slot \ {now} PROVE slots'[s] = slots[s]
      BY <1>3
    <3>2. slots'[now].owner = Owner[slots'[now].callback] /\ slots'[now].in_use
      BY <1>1, <1>4 DEF IInv, HooksFit, StepFits, AttachFits
    <3> QED BY <3>1, <3>2, <1>5 DEF IInv, HooksFit, SlotsFit, SlotFits
  <2>2. \A n \in stubs : made[n].slot \in Slot \ {now}
    BY <1>1, StubsType DEF IInv, HooksFit, StubsFit, StubFits, AttachFits
  <2>3. StubsFit'
    BY <1>3, <1>5, <2>2 DEF IInv, HooksFit, StubsFit, StubFits
  <2> QED BY <2>1, <2>3
<1>8. StepFits' /\ ModulesFit'
  BY <1>1, <1>2, <1>3, <1>4, <1>5 DEF IInv, TypeOK, HooksFit, StepFits, AttachFits, ReleaseFits, ModulesFit, Last
<1>9. ThreadsFit'
  <2>1. \A s \in Slot : \/ slots'[s].callback \in {NoCallback, slots[s].callback}
                        \/ step = "claimed" /\ slots'[s].callback = made[Last].callback
    BY <1>1, <1>3, <1>4
  <2>2. step' # "claimed" /\ UNCHANGED <<made, threads>>
    BY <1>1, <1>5
  <2> QED BY <2>1, <2>2, ThreadsKept
<1> QED BY <1>6, <1>7, <1>8, <1>9 DEF IInv, HooksFit

LEMMA PatchPreserves == ASSUME IInv, Patch PROVE IInv'
<1>1. now \in Slot /\ AttachFits /\ slots[now].in_use /\ step = "published" /\ step' = "free"
  BY DEF Patch, GoesTo, IInv, HooksFit, StepFits
<1>2. /\ Last \in 1 .. Last /\ Last \in Attachment /\ made[Last].slot = now /\ Last \notin stubs
      /\ slots[now].callback = made[Last].callback /\ slots[now].owner = Owner[made[Last].callback]
  BY <1>1, MadeType DEF AttachFits, IInv
<1>3. /\ slots' = [slots EXCEPT ![now].safety_hook = Last]
      /\ stubs' = stubs \cup {Last} /\ enabled' = enabled \cup {Last}
      /\ handles' = handles \cup {Last} /\ now' = 0
      /\ UNCHANGED <<made, queue, leaving, detached, threads>>
  BY DEF Patch, Last
<1>4. slots' \in [Slot -> MidHookSlot]
  <2>1. slots[now] \in MidHookSlot
    BY <1>1 DEF IInv, TypeOK
  <2>2. [slots[now] EXCEPT !.safety_hook = Last] \in MidHookSlot
    BY <1>2, <2>1 DEF MidHookSlot
  <2> QED BY <1>1, <1>3, <2>2 DEF IInv, TypeOK
<1>5. /\ \A s \in Slot \ {now} : slots'[s] = slots[s]
      /\ slots'[now].safety_hook = Last /\ slots'[now].callback = slots[now].callback
      /\ slots'[now].owner = slots[now].owner /\ slots'[now].in_use = slots[now].in_use
  <2>1. slots \in [Slot -> MidHookSlot] /\ slots[now] \in MidHookSlot
    BY <1>1 DEF IInv, TypeOK
  <2>2. /\ slots'[now] = [slots[now] EXCEPT !.safety_hook = Last]
        /\ \A s \in Slot \ {now} : slots'[s] = slots[s]
    BY <1>1, <1>3, <2>1
  <2> QED BY <2>1, <2>2 DEF MidHookSlot
<1>6. TypeOK'
  BY <1>1, <1>2, <1>3, <1>4 DEF IInv, TypeOK, Last
<1>7. SlotsFit'
  BY <1>1, <1>2, <1>3, <1>5 DEF IInv, HooksFit, SlotsFit, SlotFits
<1>8. StubsFit'
  <2>1. \A n \in stubs : made[n].slot \in Slot \ {now}
    BY <1>1, StubsType DEF IInv, HooksFit, StubsFit, StubFits, AttachFits
  <2> QED BY <1>1, <1>2, <1>3, <1>5, <2>1 DEF IInv, HooksFit, StubsFit, StubFits
<1>9. StepFits' /\ ModulesFit'
  BY <1>1, <1>3, <1>5 DEF IInv, HooksFit, StepFits, AttachFits, ReleaseFits, ModulesFit
<1>10. ThreadsFit'
  <2>1. step' # "claimed" /\ UNCHANGED <<made, threads>>
    BY <1>1, <1>3
  <2>2. \A s \in Slot : slots'[s].callback = slots[s].callback
    BY <1>5
  <2> QED BY <2>1, <2>2, ThreadsKept
<1> QED BY <1>6, <1>7, <1>8, <1>9, <1>10 DEF IInv, HooksFit

LEMMA PatchFailsPreserves == ASSUME IInv, PatchFails PROVE IInv'
<1>1. now \in Slot /\ AttachFits /\ slots[now].in_use /\ step = "published" /\ step' = "free"
  BY DEF PatchFails, GoesTo, IInv, HooksFit, StepFits
<1>2. now' = 0 /\ UNCHANGED <<made, handles, stubs, enabled, queue, leaving, detached, threads>>
  BY DEF PatchFails
<1>3. slots[now] \in MidHookSlot /\ slots[now].safety_hook = 0
  BY <1>1 DEF IInv, TypeOK, AttachFits
<1>4. slots' = [slots EXCEPT ![now] = [slots[now] EXCEPT !.callback = NoCallback, !.in_use = FALSE,
                                                         !.user_data = 0, !.owner = NoModule]]
  BY <1>1, <1>3 DEF PatchFails, IInv, TypeOK
<1>5. /\ slots' \in [Slot -> MidHookSlot] /\ ~slots'[now].in_use
      /\ slots'[now].callback = NoCallback /\ slots'[now].safety_hook = 0
      /\ \A s \in Slot \ {now} : slots'[s] = slots[s]
  <2>1. [slots[now] EXCEPT !.callback = NoCallback, !.in_use = FALSE,
                           !.user_data = 0, !.owner = NoModule] \in MidHookSlot
    BY <1>3 DEF MidHookSlot
  <2> QED BY <1>1, <1>3, <1>4, <2>1 DEF IInv, TypeOK, MidHookSlot
<1>6. TypeOK'
  BY <1>1, <1>2, <1>5 DEF IInv, TypeOK
<1>7. SlotsFit'
  BY <1>1, <1>2, <1>5 DEF IInv, HooksFit, SlotsFit, SlotFits
<1>8. StubsFit'
  <2>1. \A n \in stubs : made[n].slot \in Slot \ {now}
    BY <1>1, StubsType DEF IInv, HooksFit, StubsFit, StubFits, AttachFits
  <2> QED BY <1>2, <1>5, <2>1 DEF IInv, HooksFit, StubsFit, StubFits
<1>9. StepFits' /\ ModulesFit'
  BY <1>1, <1>2, <1>5, SlotIsPositive DEF IInv, HooksFit, StepFits, AttachFits, ReleaseFits, ModulesFit
<1>10. ThreadsFit'
  <2>1. step' # "claimed" /\ UNCHANGED <<made, threads>>
    BY <1>1, <1>2
  <2>2. \A s \in Slot : slots'[s].callback \in {NoCallback, slots[s].callback}
    BY <1>1, <1>5
  <2> QED BY <2>1, <2>2, ThreadsKept
<1> QED BY <1>6, <1>7, <1>8, <1>9, <1>10 DEF IInv, HooksFit

(* --- releasing ---------------------------------------------------------------- *)

LEMMA MidDetachPreserves == ASSUME IInv, NEW n \in Attachment, MidDetach(n) PROVE IInv'
<1>1. /\ n \in 1 .. Last /\ made[n].slot \in Slot /\ slots[made[n].slot].in_use
      /\ step = "free" /\ step' = "silence" /\ queue' = {made[n].slot} /\ now = 0 /\ leaving = NoModule
      /\ UNCHANGED <<slots, made, handles, stubs, enabled, now, leaving, detached, threads>>
  BY MadeType DEF MidDetach, Decodes, GoesTo, IInv, TypeOK, HooksFit, StepFits, Last
<1>2. TypeOK'
  BY <1>1 DEF IInv, TypeOK
<1>3. SlotsFit' /\ StubsFit' /\ ModulesFit'
  BY <1>1 DEF IInv, HooksFit, SlotsFit, SlotFits, StubsFit, StubFits, ModulesFit
<1>4. StepFits'
  BY <1>1, SlotIsPositive DEF IInv, HooksFit, StepFits, AttachFits, ReleaseFits
<1>5. ThreadsFit'
  BY <1>1, ThreadsKept
<1> QED BY <1>2, <1>3, <1>4, <1>5 DEF IInv, HooksFit

LEMMA DetachModulePreserves == ASSUME IInv, NEW m \in Module, DetachModule(m) PROVE IInv'
<1> DEFINE own == {s \in Slot : slots[s].in_use /\ slots[s].owner = m}
<1>1. /\ step = "free" /\ step' = IF own = {} THEN "free" ELSE "silence"
      /\ queue' = own /\ leaving' = IF own = {} THEN NoModule ELSE m
      /\ detached' = IF own = {} THEN detached \cup {m} ELSE detached
      /\ now = 0 /\ leaving = NoModule
      /\ UNCHANGED <<slots, made, handles, stubs, enabled, now, threads>>
  BY DEF DetachModule, GoesTo, IInv, HooksFit, StepFits
<1>2. TypeOK'
  BY <1>1 DEF IInv, TypeOK
<1>3. SlotsFit' /\ StubsFit' /\ ModulesFit'
  BY <1>1 DEF IInv, HooksFit, SlotsFit, SlotFits, StubsFit, StubFits, ModulesFit
<1>4. StepFits'
  BY <1>1, SlotIsPositive DEF IInv, HooksFit, StepFits, AttachFits, ReleaseFits
<1>5. ThreadsFit'
  BY <1>1, ThreadsKept
<1> QED BY <1>2, <1>3, <1>4, <1>5 DEF IInv, HooksFit

LEMMA SilencePreserves == ASSUME IInv, NEW s \in Slot, Silence(s) PROVE IInv'
<1>1. /\ s \in queue /\ step = "silence" /\ step' = "unpatch" /\ now = 0 /\ slots[s].in_use
      /\ now' = s /\ queue' = queue \ {s}
      /\ UNCHANGED <<made, handles, stubs, enabled, leaving, detached, threads>>
  BY DEF Silence, GoesTo, IInv, HooksFit, StepFits
<1>2. slots[s] \in MidHookSlot
  BY DEF IInv, TypeOK
<1>3. slots' = [slots EXCEPT ![s] = [slots[s] EXCEPT !.callback = NoCallback]]
  BY <1>2 DEF Silence, IInv, TypeOK
<1>4. /\ slots' \in [Slot -> MidHookSlot]
      /\ slots'[s].callback = NoCallback /\ slots'[s].safety_hook = slots[s].safety_hook
      /\ slots'[s].owner = slots[s].owner /\ slots'[s].in_use = slots[s].in_use
      /\ \A r \in Slot \ {s} : slots'[r] = slots[r]
  <2>1. [slots[s] EXCEPT !.callback = NoCallback] \in MidHookSlot
    BY <1>2 DEF MidHookSlot
  <2> QED BY <1>2, <1>3, <2>1 DEF IInv, TypeOK, MidHookSlot
<1>5. TypeOK'
  BY <1>1, <1>4 DEF IInv, TypeOK
<1>6. SlotsFit'
  <2> SUFFICES ASSUME NEW r \in Slot PROVE SlotFits(r)'
    BY DEF SlotsFit
  <2>1. SlotFits(r) /\ r # now
    BY <1>1, SlotIsPositive DEF IInv, HooksFit, SlotsFit
  <2>2. CASE r = s
    BY <1>1, <1>4, <2>2 DEF SlotFits
  <2>3. CASE r # s
    BY <1>1, <1>4, <2>1, <2>3 DEF SlotFits
  <2> QED BY <2>2, <2>3
<1>7. StubsFit'
  <2> SUFFICES ASSUME NEW n \in stubs PROVE StubFits(n)'
    BY <1>1 DEF StubsFit
  <2>1. made[n].slot \in Slot /\ StubFits(n)
    BY StubsType DEF IInv, HooksFit, StubsFit
  <2>2. CASE made[n].slot = s
    BY <1>1, <1>4, <2>1, <2>2 DEF StubFits
  <2>3. CASE made[n].slot # s
    BY <1>1, <1>4, <2>1, <2>3 DEF StubFits
  <2> QED BY <2>2, <2>3
<1>8. StepFits' /\ ModulesFit'
  <2>1. slots[s].safety_hook \in stubs /\ made[slots[s].safety_hook].slot = s
    BY <1>1, SlotIsPositive DEF IInv, HooksFit, SlotsFit, SlotFits
  <2>2. \A r \in Slot : slots'[r].in_use = slots[r].in_use /\ slots'[r].owner = slots[r].owner
    BY <1>4
  <2>3. queue \subseteq Slot /\ leaving' = leaving /\ detached' = detached
    BY <1>1 DEF IInv, TypeOK
  <2>4. ModulesFit'
    BY <2>2, <2>3 DEF IInv, HooksFit, ModulesFit
  <2>5. ReleaseFits'
    <3>1. leaving # NoModule => \A r \in Slot : slots[r].in_use /\ slots[r].owner = leaving
                                                  => r \in queue \cup {now}
      BY DEF IInv, HooksFit, StepFits, ReleaseFits
    <3>2. queue \cup {now} = queue' \cup {now'} \cup {now} /\ now \notin Slot
      BY <1>1, SlotIsPositive
    <3> QED BY <1>1, <1>4, <2>1, <2>2, <2>3, <3>1, <3>2 DEF ReleaseFits
  <2>6. /\ now' \in Slot /\ slots'[now'].in_use
        /\ now' \notin queue' /\ \A r \in queue' : slots'[r].in_use
    BY <1>1, <1>4, <2>2, <2>3 DEF IInv, HooksFit, StepFits
  <2> QED BY <1>1, <2>4, <2>5, <2>6 DEF StepFits, AttachFits
<1>9. ThreadsFit'
  <2>1. \A r \in Slot : slots'[r].callback \in {NoCallback, slots[r].callback}
    BY <1>4
  <2> QED BY <1>1, <2>1, ThreadsKept
<1> QED BY <1>5, <1>6, <1>7, <1>8, <1>9 DEF IInv, HooksFit

LEMMA UnpatchPreserves == ASSUME IInv, Unpatch PROVE IInv'
<1> DEFINE hook == slots[now].safety_hook
<1>1. /\ step = "unpatch" /\ step' = "clear" /\ now \in Slot
      /\ hook \in stubs /\ made[hook].slot = now
      /\ stubs' = stubs \ {hook} /\ enabled' = enabled \ {hook}
      /\ UNCHANGED <<slots, made, handles, now, queue, leaving, detached, threads>>
  BY DEF Unpatch, GoesTo, IInv, HooksFit, StepFits, ReleaseFits
<1>2. TypeOK'
  BY <1>1 DEF IInv, TypeOK
<1>3. SlotsFit' /\ StubsFit' /\ ModulesFit'
  BY <1>1 DEF IInv, HooksFit, SlotsFit, SlotFits, StubsFit, StubFits, ModulesFit
<1>4. StepFits'
  BY <1>1 DEF IInv, HooksFit, StepFits, AttachFits, ReleaseFits
<1>5. ThreadsFit'
  BY <1>1, ThreadsKept
<1> QED BY <1>2, <1>3, <1>4, <1>5 DEF IInv, HooksFit

LEMMA ClearPreserves == ASSUME IInv, Clear PROVE IInv'
<1>1. /\ step = "clear" /\ step' = IF queue = {} THEN "free" ELSE "silence"
      /\ now \in Slot /\ slots[now].callback = NoCallback /\ slots[now].safety_hook \notin stubs
      /\ now' = 0 /\ leaving' = IF queue = {} THEN NoModule ELSE leaving
      /\ detached' = IF queue = {} THEN detached \cup ({leaving} \cap Module) ELSE detached
      /\ UNCHANGED <<made, handles, stubs, enabled, queue, threads>>
  BY DEF Clear, GoesTo, IInv, HooksFit, StepFits, ReleaseFits
<1>2. slots[now] \in MidHookSlot
  BY <1>1 DEF IInv, TypeOK
<1>3. slots' = [slots EXCEPT ![now] = [slots[now] EXCEPT !.safety_hook = 0, !.user_data = 0,
                                                         !.owner = NoModule, !.in_use = FALSE]]
  BY <1>1, <1>2 DEF Clear, IInv, TypeOK
<1>4. /\ slots' \in [Slot -> MidHookSlot] /\ ~slots'[now].in_use
      /\ slots'[now].callback = NoCallback /\ slots'[now].safety_hook = 0
      /\ \A r \in Slot \ {now} : slots'[r] = slots[r]
  <2>1. [slots[now] EXCEPT !.safety_hook = 0, !.user_data = 0, !.owner = NoModule, !.in_use = FALSE]
          \in MidHookSlot
    BY <1>2 DEF MidHookSlot
  <2> QED BY <1>1, <1>2, <1>3, <2>1 DEF IInv, TypeOK, MidHookSlot
<1>5. TypeOK'
  BY <1>1, <1>4 DEF IInv, TypeOK
<1>6. SlotsFit'
  <2> SUFFICES ASSUME NEW r \in Slot PROVE SlotFits(r)'
    BY DEF SlotsFit
  <2>1. SlotFits(r)
    BY DEF IInv, HooksFit, SlotsFit
  <2>2. CASE r = now
    BY <1>1, <1>4, <2>2 DEF SlotFits
  <2>3. CASE r # now
    BY <1>1, <1>4, <2>1, <2>3 DEF SlotFits
  <2> QED BY <2>2, <2>3
<1>7. StubsFit'
  <2>1. \A n \in stubs : made[n].slot \in Slot \ {now}
    BY <1>1, StubsType DEF IInv, HooksFit, StubsFit, StubFits
  <2> QED BY <1>1, <1>4, <2>1 DEF IInv, HooksFit, StubsFit, StubFits
<1>8. StepFits' /\ ModulesFit'
  <2>1. /\ \A r \in Slot : r # now => slots'[r] = slots[r]
        /\ \A r \in Slot : slots'[r].in_use => r # now /\ slots[r].in_use
        /\ step' \in {"free", "silence"} /\ now' = 0 /\ 0 \notin Slot
    BY <1>1, <1>4, SlotIsPositive
  <2>2. /\ queue \subseteq Slot /\ now \notin queue /\ queue' = queue
        /\ \A r \in queue : slots[r].in_use
    BY <1>1 DEF IInv, TypeOK, HooksFit, StepFits
  <2>3. leaving # NoModule => \A r \in Slot : slots[r].in_use /\ slots[r].owner = leaving
                                                => r \in queue \cup {now}
    BY DEF IInv, HooksFit, StepFits, ReleaseFits
  <2>4. ReleaseFits' /\ AttachFits'
    BY <1>1, <2>1, <2>2, <2>3 DEF ReleaseFits, AttachFits
  <2>5. StepFits'
    BY <1>1, <2>1, <2>2, <2>4 DEF StepFits
  <2>6. ModulesFit'
    BY <1>1, <2>1, <2>2, <2>3 DEF IInv, HooksFit, ModulesFit
  <2> QED BY <2>5, <2>6
<1>9. ThreadsFit'
  <2>1. \A r \in Slot : slots'[r].callback \in {NoCallback, slots[r].callback}
    BY <1>4
  <2> QED BY <1>1, <2>1, ThreadsKept
<1> QED BY <1>5, <1>6, <1>7, <1>8, <1>9 DEF IInv, HooksFit

LEMMA SetEnabledPreserves ==
  ASSUME IInv, NEW n \in Attachment, NEW on \in BOOLEAN, MidSetEnabled(n, on) PROVE IInv'
<1>1. /\ step = "free" /\ now = 0 /\ n \in 1 .. Last /\ made[n].slot \in Slot
      /\ slots[made[n].slot].in_use
      /\ enabled' \in {enabled \cup {slots[made[n].slot].safety_hook},
                       enabled \ {slots[made[n].slot].safety_hook}}
      /\ UNCHANGED <<slots, made, handles, stubs, step, now, queue, leaving, detached, threads>>
  BY MadeType DEF MidSetEnabled, Decodes, IInv, TypeOK, HooksFit, StepFits, Last
<1>2. slots[made[n].slot].safety_hook \in stubs
  BY <1>1, SlotIsPositive DEF IInv, HooksFit, SlotsFit, SlotFits
<1>3. TypeOK'
  BY <1>1, <1>2 DEF IInv, TypeOK
<1>4. HooksFit'
  BY <1>1 DEF IInv, HooksFit, SlotsFit, SlotFits, StubsFit, StubFits, StepFits, AttachFits, ReleaseFits, ModulesFit
<1>5. ThreadsFit'
  BY <1>1, ThreadsKept
<1> QED BY <1>3, <1>4, <1>5 DEF IInv

(* --- game threads ------------------------------------------------------------- *)

LEMMA HooksUntouched ==
  IInv /\ UNCHANGED <<slots, made, handles, stubs, enabled, step, now, queue, leaving, detached>> => HooksFit'
<1> SUFFICES ASSUME IInv,
                    UNCHANGED <<slots, made, handles, stubs, enabled, step, now, queue, leaving, detached>>
             PROVE  HooksFit'
  OBVIOUS
<1>1. SlotsFit' /\ StubsFit' /\ ModulesFit'
  BY DEF IInv, HooksFit, SlotsFit, SlotFits, StubsFit, StubFits, ModulesFit
<1>2. StepFits'
  BY DEF IInv, HooksFit, StepFits, AttachFits, ReleaseFits, Last
<1> QED BY <1>1, <1>2 DEF HooksFit

LEMMA FitUntouched ==
  ASSUME NEW d, DispatchFits(d), UNCHANGED <<slots, made, step>> PROVE DispatchFits(d)'
  BY DEF DispatchFits, LaterIfGone, Last

(* One thread moves to a state that fits. *)
LEMMA ThreadMoves ==
  ASSUME IInv, UNCHANGED <<pool, lock, detached>>, NEW t \in Thread, NEW to \in Dispatch,
         DispatchFits(to), threads' = [threads EXCEPT ![t] = to]
  PROVE  IInv'
<1>1. TypeOK'
  BY DEF IInv, TypeOK
<1>2. threads'[t] = to /\ \A u \in Thread \ {t} : threads'[u] = threads[u]
  BY DEF IInv, TypeOK
<1>3. UNCHANGED <<slots, made, handles, stubs, enabled, step, now, queue, leaving, detached>>
  OBVIOUS
<1>4. ASSUME NEW u \in Thread PROVE DispatchFits(threads[u])'
  <2>1. PICK d : d = threads'[u] /\ DispatchFits(d)
    BY <1>2 DEF IInv, ThreadsFit
  <2>2. DispatchFits(d)'
    BY <1>3, <2>1, FitUntouched
  <2> QED BY <2>1, <2>2 DEF DispatchFits, LaterIfGone
<1> QED BY <1>1, <1>3, <1>4, HooksUntouched DEF IInv, ThreadsFit

LEMMA OutFits == ASSUME IInv PROVE Out \in Dispatch /\ DispatchFits(Out)
<1>1. Last \in Nat
  BY MadeType DEF IInv
<1> QED BY <1>1 DEF Out, Dispatch, DispatchFits, LaterIfGone

LEMMA EnterPreserves ==
  ASSUME IInv, NEW t \in Thread, NEW n \in Attachment, Enter(t, n) PROVE IInv'
<1> DEFINE to == [Out EXCEPT !.at = "entered", !.stub = n, !.gone = detached, !.seen = Len(made)]
<1>1. threads' = [threads EXCEPT ![t] = to] /\ n \in enabled /\ UNCHANGED <<pool, lock, detached>>
  BY DEF Enter
<1>2. n \in 1 .. Last /\ Last \in 0 .. Last /\ Last \in Attachment \cup {0}
  BY <1>1, MadeType DEF IInv, TypeOK, Attachment, Last
<1>3. /\ to \in Dispatch /\ to.at = "entered" /\ to.stub = n /\ to.seen = Last
      /\ to.callback = NoCallback /\ to.gone = detached
  BY <1>2 DEF IInv, TypeOK, Dispatch, Out, Last
<1>4. ASSUME NEW s \in Slot, slots[s].callback # NoCallback PROVE Owner[slots[s].callback] \notin detached
  BY <1>4 DEF IInv, HooksFit, SlotsFit, SlotFits, ModulesFit
<1>5. ASSUME step = "claimed" PROVE Owner[made[Last].callback] \notin detached
  BY <1>5 DEF IInv, HooksFit, StepFits, AttachFits, ModulesFit
<1> HIDE DEF to
<1>6. DispatchFits(to)
  BY <1>2, <1>3, <1>4, <1>5 DEF DispatchFits, LaterIfGone
<1> QED BY <1>1, <1>3, <1>6, ThreadMoves

LEMMA DispatchPreserves ==
  ASSUME IInv, NEW t \in Thread, LoadCallback(t) \/ Call(t) PROVE IInv'
<1> DEFINE slot == slots[made[threads[t].stub].slot]
<1>1. threads[t] \in Dispatch /\ threads[t].at # "out" /\ DispatchFits(threads[t])
  BY DEF LoadCallback, Call, IInv, TypeOK, ThreadsFit
<1>2. made[threads[t].stub].slot \in Slot /\ slot \in MidHookSlot
  BY <1>1, MadeType DEF IInv, TypeOK, DispatchFits
<1>3. UNCHANGED <<pool, lock, detached>>
  BY DEF LoadCallback, Call
<1>4. ASSUME NEW to \in Dispatch, threads' = [threads EXCEPT ![t] = to], to.at # "out",
             to.stub = threads[t].stub, to.seen = threads[t].seen, to.gone = threads[t].gone,
             to.callback \in {threads[t].callback, slot.callback}
      PROVE  IInv'
  <2>1. DispatchFits(to)
    BY <1>1, <1>2, <1>4 DEF DispatchFits, LaterIfGone
  <2> QED BY <1>3, <1>4, <2>1, ThreadMoves
<1>5. CASE LoadCallback(t)
  <2>1. [threads[t] EXCEPT !.at = "loaded", !.callback = slot.callback] \in Dispatch
    BY <1>1, <1>2 DEF Dispatch, MidHookSlot
  <2>2. CASE threads' = [threads EXCEPT ![t] = Out]
    BY <1>3, <2>2, OutFits, ThreadMoves
  <2>3. CASE threads' = [threads EXCEPT ![t] = [threads[t] EXCEPT !.at = "loaded",
                                                                  !.callback = slot.callback]]
    BY <1>1, <1>4, <2>1, <2>3 DEF Dispatch
  <2> QED BY <1>5, <2>2, <2>3 DEF LoadCallback
<1>6. CASE Call(t)
  <2>1. [threads[t] EXCEPT !.at = "calling", !.user_data = slot.user_data] \in Dispatch
    BY <1>1, <1>2 DEF Dispatch, MidHookSlot
  <2> QED BY <1>1, <1>4, <1>6, <2>1 DEF Call, Dispatch
<1> QED BY <1>5, <1>6

LEMMA LeavePreserves == ASSUME IInv, NEW t \in Thread, Leave(t) PROVE IInv'
  BY OutFits, ThreadMoves DEF Leave

(* --- theorems ----------------------------------------------------------------- *)

(* Every step keeps the invariant. *)
LEMMA StepInvariant == IInv /\ [Next]_vars => IInv'
<1> SUFFICES ASSUME IInv, [Next]_vars PROVE IInv'
  OBVIOUS
<1>1. CASE Attaching
  BY <1>1, ClaimPreserves, PublishPreserves, PatchPreserves, PatchFailsPreserves DEF Attaching
<1>2. CASE Releasing
  BY <1>2, MidDetachPreserves, DetachModulePreserves, SilencePreserves, UnpatchPreserves,
     ClearPreserves DEF Releasing
<1>3. ASSUME NEW n \in Attachment, NEW on \in BOOLEAN, MidSetEnabled(n, on) PROVE IInv'
  BY <1>3, SetEnabledPreserves
<1>4. ASSUME NEW t \in Thread, Dispatching(t) PROVE IInv'
  BY <1>4, EnterPreserves, DispatchPreserves, LeavePreserves DEF Dispatching
<1>5. CASE UNCHANGED vars
  <2>1. TypeOK'
    BY <1>5 DEF vars, IInv, TypeOK
  <2>2. HooksFit'
    BY <1>5, HooksUntouched DEF vars
  <2>3. ThreadsFit'
    BY <1>5 DEF vars, IInv, ThreadsFit, DispatchFits, LaterIfGone, Last
  <2> QED BY <2>1, <2>2, <2>3 DEF IInv
<1> QED BY <1>1, <1>2, <1>3, <1>4, <1>5 DEF Next

LEMMA Invariance == Spec => []IInv
  BY InitInvariant, StepInvariant, PTL DEF Spec

(* Every variable keeps its type: among the rest, only stubs that exist are enabled. *)
THEOREM PoolTypeCorrect == Spec => []TypeOK
<1>1. IInv => TypeOK
  BY DEF IInv
<1> QED BY <1>1, Invariance, PTL

(* A stub that can be run into finds its own callback, however large the pool is and *)
(* however often its slots are recycled.                                             *)
THEOREM StubsFindTheirCallbacks == Spec => []StubFindsItsCallback
  BY Invariance, StubFinds, PTL

(* Between operations the slots in use are the stubs: none is lost, none is shared.  *)
THEOREM PoolIsConsistent == Spec => []PoolIsTheHooks
  BY Invariance, PoolFits, PTL

(* A thread that enters a stub after a module's detach is never led into the module, *)
(* unless it has attached again: for any threads, anywhere in a dispatch.            *)
THEOREM DetachIsFinal == Spec => []DetachedModuleIsOut
  BY Invariance, DetachedIsOut, PTL
=============================================================================
