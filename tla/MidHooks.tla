-------------------------------- MODULE MidHooks --------------------------------
(* The mid hooks of src/core/hook_manager.cpp: a fixed pool of slots, each with  *)
(* a thunk of its own.  Attaching takes a slot and has SafetyHook patch the      *)
(* target with a stub that calls the slot's thunk; the handle a mod gets is the  *)
(* slot's index and generation.                                                 *)
(*                                                                             *)
(* Attaching and detaching run under g_hook_mutex, so at most one of them is     *)
(* under way, but game threads run through stubs and read slots without it, so  *)
(* each store they can see is a step.  A thread that has entered a stub is held  *)
(* up by nothing: neither DestroyMid nor a module's unload waits for it.         *)
EXTENDS Naturals, Sequences

CONSTANTS Thread,          \* game threads
          Callback, Module,
          Owner,           \* [Callback -> Module], ModuleForAddress
          SlotCount,       \* SafetyHookBackend_MidSlotCount, 128 in the code
          NoCallback, NoModule,
          MaxAttach        \* bound: calls of MidAttach that find a slot

ASSUME OwnerAssumption == Owner \in [Callback -> Module]
ASSUME SlotCountAssumption == SlotCount \in Nat \ {0}
ASSUME NoneAssumption == NoCallback \notin Callback /\ NoModule \notin Module
ASSUME MaxAttachAssumption == MaxAttach \in Nat

VARIABLES
    slots,      \* g_mid_slots
    made,       \* history: the n-th attachment's slot, generation and callback
    handles,    \* the attachments whose handle was returned
    stubs,      \* the attachments whose stub exists
    enabled,    \* those of them whose patch is in place
    step,       \* how far the holder of g_hook_mutex is, "free" without one
    now,        \* the slot it works on
    queue,      \* the slots it still has to release
    leaving,    \* the module it detaches, or NoModule
    detached,   \* history: modules that a DetachModule has returned for and that
                \* have attached nothing since
    threads     \* per game thread, where in a dispatch it is

pool == <<slots, made, handles, stubs, enabled>>
lock == <<step, now, queue, leaving>>
vars == <<pool, lock, detached, threads>>

Slot == 1 .. SlotCount
Attachment == 1 .. MaxAttach
MidHookSlot == [callback : Callback \cup {NoCallback},
                user_data : Attachment \cup {0},      \* whose user data
                safety_hook : Attachment \cup {0},    \* whose stub
                owner : Module \cup {NoModule},
                generation : Nat,
                in_use : BOOLEAN]
Made == [slot : Slot, generation : Nat, callback : Callback]
Out == [at |-> "out", stub |-> 0, callback |-> NoCallback, user_data |-> 0,
        gone |-> {}, seen |-> 0]
Dispatch == [at : {"out", "entered", "loaded", "calling"}, stub : Attachment \cup {0},
             callback : Callback \cup {NoCallback}, user_data : Attachment \cup {0},
             gone : SUBSET Module,     \* history: `detached` when it entered the stub
             seen : Attachment \cup {0}]   \* history: the attachments made by then

TypeOK ==
    /\ slots \in [Slot -> MidHookSlot]
    /\ made \in Seq(Made) /\ Len(made) <= MaxAttach
    /\ handles \in SUBSET (1 .. Len(made))
    /\ stubs \in SUBSET (1 .. Len(made)) /\ enabled \in SUBSET stubs
    /\ step \in {"free", "claimed", "published", "silence", "unpatch", "clear"}
    /\ now \in Slot \cup {0} /\ queue \in SUBSET Slot
    /\ leaving \in Module \cup {NoModule} /\ detached \in SUBSET Module
    /\ threads \in [Thread -> Dispatch]

Init ==
    /\ slots = [s \in Slot |-> [callback |-> NoCallback, user_data |-> 0, safety_hook |-> 0,
                                owner |-> NoModule, generation |-> 0, in_use |-> FALSE]]
    /\ made = <<>> /\ handles = {} /\ stubs = {} /\ enabled = {}
    /\ step = "free" /\ now = 0 /\ queue = {} /\ leaving = NoModule
    /\ detached = {}
    /\ threads = [t \in Thread |-> Out]

GoesTo(from, to) == step = from /\ step' = to

-----------------------------------------------------------------------------
(* Mutant: the search for a free slot runs past the end of a full pool. *)
ClaimPastEnd(c) ==
    /\ GoesTo("free", "claimed") /\ Len(made) < MaxAttach
    /\ \E s \in 1 .. SlotCount + 1 :
          /\ s \in Slot => ~slots[s].in_use
          /\ \A r \in 1 .. s - 1 : slots[r].in_use
          /\ now' = s
          /\ slots' = [r \in Slot |-> IF r = s THEN [slots[r] EXCEPT !.in_use = TRUE] ELSE slots[r]]
    /\ made' = Append(made, [slot |-> 1, generation |-> 1, callback |-> c])
    /\ UNCHANGED <<handles, stubs, enabled, queue, leaving, detached, threads>>

(* HookManager_MidAttach takes the first free slot; a full pool changes nothing. *)
Claim(c) ==
    /\ GoesTo("free", "claimed") /\ Len(made) < MaxAttach
    /\ \E s \in Slot :
          /\ ~slots[s].in_use /\ \A r \in 1 .. s - 1 : slots[r].in_use
          /\ now' = s
          /\ slots' = [slots EXCEPT ![s].in_use = TRUE, ![s].user_data = Len(made) + 1,
                                    ![s].owner = Owner[c],
                                    ![s].generation = slots[s].generation + 1]
          /\ made' = Append(made, [slot |-> s, generation |-> slots[s].generation + 1,
                                   callback |-> c])
    /\ detached' = detached \ {Owner[c]}
    /\ UNCHANGED <<handles, stubs, enabled, queue, leaving, threads>>

(* Mutant: the callback is not published before the stub is written. *)
PublishNothing ==
    /\ GoesTo("claimed", "published")
    /\ UNCHANGED <<pool, now, queue, leaving, detached, threads>>

Publish ==
    /\ GoesTo("claimed", "published")
    /\ slots' = [slots EXCEPT ![now].callback = made[Len(made)].callback]
    /\ UNCHANGED <<made, handles, stubs, enabled, now, queue, leaving, detached, threads>>

Patch ==
    /\ GoesTo("published", "free")
    /\ slots' = [slots EXCEPT ![now].safety_hook = Len(made)]
    /\ stubs' = stubs \cup {Len(made)} /\ enabled' = enabled \cup {Len(made)}
    /\ handles' = handles \cup {Len(made)}
    /\ now' = 0
    /\ UNCHANGED <<made, queue, leaving, detached, threads>>

(* Mutant: the slot of a failed attach stays in use. *)
PatchFailsKeepingSlot ==
    /\ GoesTo("published", "free") /\ now' = 0
    /\ slots' = [slots EXCEPT ![now].callback = NoCallback]
    /\ UNCHANGED <<made, handles, stubs, enabled, queue, leaving, detached, threads>>

(* SafetyHookBackend_CreateMid returns null. *)
PatchFails ==
    /\ GoesTo("published", "free") /\ now' = 0
    /\ slots' = [slots EXCEPT ![now].callback = NoCallback, ![now].in_use = FALSE,
                              ![now].user_data = 0, ![now].owner = NoModule]
    /\ UNCHANGED <<made, handles, stubs, enabled, queue, leaving, detached, threads>>

-----------------------------------------------------------------------------
(* DecodeMidHandle accepts the handle of attachment n, which may be long gone. *)
Decodes(n) ==
    LET s == made[n].slot
    IN  slots[s].in_use /\ slots[s].generation = made[n].generation

(* HookManager_MidDetach, accepted. *)
MidDetach(n) ==
    /\ n \in handles /\ Decodes(n)
    /\ GoesTo("free", "silence") /\ queue' = {made[n].slot}
    /\ UNCHANGED <<pool, now, leaving, detached, threads>>

(* HookManager_MidSetEnabled, accepted and successful. *)
MidSetEnabled(n, on) ==
    /\ step = "free" /\ n \in handles /\ Decodes(n)
    /\ LET hook == slots[made[n].slot].safety_hook
       IN  /\ hook # 0
           /\ enabled' = IF on THEN enabled \cup {hook} ELSE enabled \ {hook}
    /\ UNCHANGED <<slots, made, handles, stubs, lock, detached, threads>>

(* Mutant: the loop ends with the first slot it releases. *)
DetachModuleFirst(m) ==
    LET own == {s \in Slot : slots[s].in_use /\ slots[s].owner = m}
    IN  /\ GoesTo("free", IF own = {} THEN "free" ELSE "silence")
        /\ queue' = {s \in own : \A r \in own : s <= r}
        /\ leaving' = IF own = {} THEN NoModule ELSE m
        /\ detached' = IF own = {} THEN detached \cup {m} ELSE detached
        /\ UNCHANGED <<pool, now, threads>>

(* The mid-hook part of HookManager_DetachModule. *)
DetachModule(m) ==
    LET own == {s \in Slot : slots[s].in_use /\ slots[s].owner = m}
    IN  /\ GoesTo("free", IF own = {} THEN "free" ELSE "silence")
        /\ queue' = own
        /\ leaving' = IF own = {} THEN NoModule ELSE m
        /\ detached' = IF own = {} THEN detached \cup {m} ELSE detached
        /\ UNCHANGED <<pool, now, threads>>

(* ReleaseMidSlot: the callback is cleared, the stub destroyed, the slot freed. *)
Silence(s) ==
    /\ s \in queue /\ GoesTo("silence", "unpatch")
    /\ now' = s /\ queue' = queue \ {s}
    /\ slots' = [slots EXCEPT ![s].callback = NoCallback]
    /\ UNCHANGED <<made, handles, stubs, enabled, leaving, detached, threads>>

Unpatch ==
    /\ GoesTo("unpatch", "clear")
    /\ stubs' = stubs \ {slots[now].safety_hook}
    /\ enabled' = enabled \ {slots[now].safety_hook}
    /\ UNCHANGED <<slots, made, handles, now, queue, leaving, detached, threads>>

Clear ==
    /\ GoesTo("clear", IF queue = {} THEN "free" ELSE "silence")
    /\ slots' = [slots EXCEPT ![now].safety_hook = 0, ![now].user_data = 0,
                              ![now].owner = NoModule, ![now].in_use = FALSE]
    /\ now' = 0
    /\ leaving' = IF queue = {} THEN NoModule ELSE leaving
    /\ detached' = IF queue = {} THEN detached \cup ({leaving} \cap Module) ELSE detached
    /\ UNCHANGED <<made, handles, stubs, enabled, queue, threads>>

-----------------------------------------------------------------------------
(* A game thread runs into a patched target and through DispatchMidHook. *)
Enter(t, n) ==
    /\ threads[t].at = "out" /\ n \in enabled
    /\ threads' = [threads EXCEPT ![t] = [Out EXCEPT !.at = "entered", !.stub = n,
                                                     !.gone = detached, !.seen = Len(made)]]
    /\ UNCHANGED <<pool, lock, detached>>

LoadCallback(t) ==
    LET found == slots[made[threads[t].stub].slot].callback
    IN  /\ threads[t].at = "entered"
        /\ threads' = [threads EXCEPT ![t] = IF found = NoCallback THEN Out
                           ELSE [threads[t] EXCEPT !.at = "loaded", !.callback = found]]
        /\ UNCHANGED <<pool, lock, detached>>

(* slot.user_data is a second read. *)
Call(t) ==
    /\ threads[t].at = "loaded"
    /\ threads' = [threads EXCEPT ![t] =
                      [threads[t] EXCEPT !.at = "calling",
                                         !.user_data = slots[made[threads[t].stub].slot].user_data]]
    /\ UNCHANGED <<pool, lock, detached>>

Leave(t) ==
    /\ threads[t].at = "calling"
    /\ threads' = [threads EXCEPT ![t] = Out]
    /\ UNCHANGED <<pool, lock, detached>>

Attaching == (\E c \in Callback : Claim(c)) \/ Publish \/ Patch \/ PatchFails

Releasing ==
    \/ \E n \in Attachment : MidDetach(n)
    \/ \E m \in Module : DetachModule(m)
    \/ \E s \in Slot : Silence(s)
    \/ Unpatch \/ Clear

Dispatching(t) ==
    (\E n \in Attachment : Enter(t, n)) \/ LoadCallback(t) \/ Call(t) \/ Leave(t)

Next ==
    \/ Attaching \/ Releasing
    \/ \E n \in Attachment, on \in BOOLEAN : MidSetEnabled(n, on)
    \/ \E t \in Thread : Dispatching(t)

Spec == Init /\ [][Next]_vars

-----------------------------------------------------------------------------
(* A stub that a thread can run into finds its own callback in the slot, from the *)
(* moment it is written until its own release has begun: no hit is lost to an     *)
(* attach in progress, and no hit goes to another slot's owner.                   *)
StubFindsItsCallback ==
    \A n \in stubs :
        \/ slots[made[n].slot].callback = made[n].callback
        \/ step = "unpatch" /\ now = made[n].slot

(* Between operations the pool is exactly the hooks that exist: no slot is lost   *)
(* to a failed attach or a half-done release, and no stub is left without a slot  *)
(* that could still destroy it.                                                  *)
PoolIsTheHooks ==
    step = "free" =>
        /\ \A s \in Slot : slots[s].in_use => slots[s].safety_hook \in stubs
        /\ \A n \in stubs : slots[made[n].slot].in_use /\ slots[made[n].slot].safety_hook = n

(* Once a module is detached, no stub and no slot leads to it; and a thread that  *)
(* enters a stub after that can only be led to it by a later attachment, whatever *)
(* happens to its stub and slot while it is on the way.                           *)
DetachedModuleIsOut ==
    /\ \A m \in detached :
          /\ \A n \in stubs : Owner[made[n].callback] # m
          /\ \A s \in Slot : slots[s].callback # NoCallback => Owner[slots[s].callback] # m
    /\ \A t \in Thread :
          threads[t].callback # NoCallback /\ Owner[threads[t].callback] \in threads[t].gone
              => \E n \in threads[t].seen + 1 .. Len(made) : made[n].callback = threads[t].callback
=============================================================================
