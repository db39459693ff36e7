-------------------------------- MODULE HookChain --------------------------------
(* The inline hooks of src/core/hook_manager.cpp.  Several mods may hook one      *)
(* function: the oldest detour patches the function, and every newer one patches  *)
(* the entry of the detour before it.  So a call runs the newest detour first,    *)
(* and each detour calls the rest of the chain through its `original` slot.       *)
(*                                                                              *)
(* Attaching and detaching run under g_hook_mutex, while game threads call the    *)
(* hooked functions at any moment.  A transaction of Detours suspends them, so it *)
(* is one step; SafetyHook builds and destroys a chain hook by hook.              *)
(*                                                                              *)
(* Abstractions: a detour is used for one function, with a slot of its own; a     *)
(* thread runs through patched entries, and from the read of a slot to the code   *)
(* it points to, in one step.                                                    *)
EXTENDS Naturals, Sequences, FiniteSets

CONSTANTS Target,            \* functions of the game
          Detour, Module, Thread,
          TargetOf,          \* [Detour -> Target]
          Owner,             \* [Detour -> Module], ModuleForAddress
          NoDetour, NoModule

ASSUME DetourAssumption == TargetOf \in [Detour -> Target] /\ Owner \in [Detour -> Module]
ASSUME AddressAssumption == Target \cap Detour = {} /\ {"out", "wild"} \cap (Target \cup Detour) = {}
ASSUME FinitenessAssumption == IsFiniteSet(Target) /\ IsFiniteSet(Detour)
ASSUME NoneAssumption == NoDetour \notin Detour /\ NoModule \notin Module

VARIABLES
    chains,     \* g_hooks, by target, oldest first
    backend,    \* the backend of a target's hooks, "none" without one
    patch,      \* the detour to which the entry of a function or detour jumps
    slot,       \* *original of a detour
    step,       \* how far the holder of g_hook_mutex is, "free" without one
    target,     \* the target it works on
    removed,    \* the hooks it removes from that target
    plan,       \* the chain it builds or destroys
    todo,       \* which hook of the chain is next
    tried,      \* how many chains it has failed to build
    leaving,    \* the module it detaches, or NoModule
    pending,    \* the targets that DetachModule still has to rebuild
    failed,     \* whether one of them could not be
    detached,   \* history: modules that a DetachModule has returned >= 0 for and
                \* that have not called Attach since
    threads     \* the detour that a game thread runs

code == <<patch, slot>>
hooks == <<chains, backend>>
rebuild == <<target, removed, plan, todo, tried>>
unload == <<leaving, pending, failed, detached>>
vars == <<code, hooks, step, rebuild, unload, threads>>

Address == Target \cup Detour

(* What a slot may hold: the address of code, a trampoline that runs the code at  *)
(* an address behind the patch there, or a trampoline that has been freed.        *)
Pointer == [kind : {"code", "trampoline", "freed"}, to : Address]
Code(a) == [kind |-> "code", to |-> a]
Trampoline(a) == [kind |-> "trampoline", to |-> a]
Freed(a) == [kind |-> "freed", to |-> a]

Hooks(t) == {chains[t][i] : i \in DOMAIN chains[t]}
Hooked == UNION {Hooks(t) : t \in Target}

TypeOK ==
    /\ \A t \in Target : chains[t] \in Seq(Detour) /\ \A d \in Hooks(t) : TargetOf[d] = t
    /\ backend \in [Target -> {"none", "Detours", "SafetyHook"}]
    /\ patch \in [Address -> Detour \cup {NoDetour}]
    /\ slot \in [Detour -> Pointer]
    /\ step \in {"free", "commit", "install", "detach", "prepare", "destroy", "create",
                 "store", "reset", "module"}
    /\ target \in Target
    /\ removed \in SUBSET Detour
    /\ plan \in Seq(Detour)
    /\ todo \in 0 .. Len(plan) + 1
    /\ tried \in 0 .. 2
    /\ leaving \in Module \cup {NoModule} /\ pending \in SUBSET Target
    /\ failed \in BOOLEAN /\ detached \in SUBSET Module
    /\ threads \in [Thread -> [at : Detour \cup {"out", "wild"}, gone : SUBSET Module]]

Init ==
    /\ chains = [t \in Target |-> <<>>]
    /\ backend = [t \in Target |-> "none"]
    /\ patch = [a \in Address |-> NoDetour]
    /\ slot = [d \in Detour |-> Code(TargetOf[d])]
    /\ step = "free" /\ target \in Target
    /\ removed = {} /\ plan = <<>> /\ todo = 0 /\ tried = 0
    /\ leaving = NoModule /\ pending = {} /\ failed = FALSE /\ detached = {}
    /\ threads = [x \in Thread |-> [at |-> "out", gone |-> {}]]

-----------------------------------------------------------------------------
(* Where the i-th hook of a chain on t is patched in (attach_target). *)
Before(list, i, t) == IF i = 1 THEN t ELSE list[i - 1]
Newest(t) == Before(chains[t], Len(chains[t]) + 1, t)

(* The hooks of a list that are not in a set, in their order. *)
Without(list, out) ==
    LET kept[n \in 0 .. Len(list)] ==
            IF n = 0 THEN <<>>
            ELSE IF list[n] \in out THEN kept[n - 1] ELSE Append(kept[n - 1], list[n])
    IN  kept[Len(list)]

RecordsExcept(t, out) == Without(chains[t], out)

(* DetourAttach and DetourDetach of a whole list patch, and restore, the code that *)
(* the slots of its hooks lead to.                                               *)
Patched(list) ==
    [a \in Address |->
        IF \E i \in DOMAIN list : slot[list[i]].to = a
        THEN list[CHOOSE i \in DOMAIN list : slot[list[i]].to = a] ELSE patch[a]]
Restored(list) ==
    [a \in Address |-> IF \E i \in DOMAIN list : slot[list[i]].to = a THEN NoDetour ELSE patch[a]]
Redirected(list, kind) ==
    [d \in Detour |-> IF \E i \in DOMAIN list : list[i] = d THEN [kind |-> kind, to |-> slot[d].to]
                                                             ELSE slot[d]]

GoesTo(from, to) == step = from /\ step' = to

(* The local variables of a call that returns *)
Forget == removed' = {} /\ plan' = <<>> /\ todo' = 0 /\ tried' = 0 /\ UNCHANGED target

-----------------------------------------------------------------------------
(* HookManager_Attach of a detour that is not attached; of one that is, it does  *)
(* nothing, and neither does it for a target that has hooks of another backend.  *)
TargetAcceptsBackend(t, b) == chains[t] = <<>> \/ backend[t] = b

(* History: the module of the hook is active again. *)
IsBack(m) ==
    /\ detached' = detached \ {m}
    /\ threads' = [x \in Thread |-> [threads[x] EXCEPT !.gone = threads[x].gone \ {m}]]

AttachDetours(d) ==
    /\ d \notin Hooked /\ TargetAcceptsBackend(TargetOf[d], "Detours")
    /\ GoesTo("free", "commit")
    /\ target' = TargetOf[d] /\ plan' = Append(chains[TargetOf[d]], d) /\ todo' = Len(plan')
    /\ slot' = [slot EXCEPT ![d] = Code(Newest(TargetOf[d]))]
    /\ IsBack(Owner[d])
    /\ UNCHANGED <<hooks, patch, removed, tried, leaving, pending, failed>>

AttachSafetyHook(d) ==
    /\ d \notin Hooked /\ TargetAcceptsBackend(TargetOf[d], "SafetyHook")
    /\ GoesTo("free", "install")
    /\ target' = TargetOf[d] /\ plan' = Append(chains[TargetOf[d]], d) /\ todo' = Len(plan')
    /\ patch' = [patch EXCEPT ![Newest(TargetOf[d])] = d]
    /\ IsBack(Owner[d])
    /\ UNCHANGED <<hooks, slot, removed, tried, leaving, pending, failed>>

(* Mutant: the slot keeps the function's address instead of the trampoline. *)
RecordRaw(d, b) ==
    /\ chains' = [chains EXCEPT ![target] = plan]
    /\ backend' = [backend EXCEPT ![target] = b]
    /\ slot' = [slot EXCEPT ![d] = Code(target)]

(* The new record *)
Record(d, b) ==
    /\ chains' = [chains EXCEPT ![target] = plan]
    /\ backend' = [backend EXCEPT ![target] = b]
    /\ slot' = [slot EXCEPT ![d] = Trampoline(Newest(target))]

CommitAttach ==
    /\ GoesTo("commit", "free")
    /\ Record(plan[todo], "Detours")
    /\ patch' = [patch EXCEPT ![slot[plan[todo]].to] = plan[todo]]
    /\ Forget /\ UNCHANGED <<unload, threads>>

AttachFails ==
    /\ GoesTo("commit", "free")
    /\ slot' = [slot EXCEPT ![plan[todo]] = Code(target)]
    /\ Forget /\ UNCHANGED <<hooks, patch, unload, threads>>

InstallSafetyHook ==
    /\ GoesTo("install", "free")
    /\ Record(plan[todo], "SafetyHook")
    /\ Forget /\ UNCHANGED <<patch, unload, threads>>

-----------------------------------------------------------------------------
(* RebuildTargetWithout takes the whole chain out and builds one without the     *)
(* removed hooks; if that fails, the old one again; if that fails too, the target *)
(* loses all its hooks.                                                          *)
BeginRebuild(t, out) ==
    /\ target' = t /\ removed' = out /\ tried' = 0
    /\ plan' = chains[t] /\ todo' = Len(chains[t])
    /\ step' = IF backend[t] = "SafetyHook" THEN "destroy" ELSE "detach"

EndRebuild(ok) ==
    /\ step' = IF leaving = NoModule THEN "free" ELSE "module"
    /\ failed' = (leaving # NoModule /\ (failed \/ ~ok))
    /\ Forget /\ UNCHANGED <<leaving, pending, detached>>

(* HookManager_Detach *)
Detach(d) ==
    /\ step = "free" /\ d \in Hooked
    /\ BeginRebuild(TargetOf[d], {d})
    /\ UNCHANGED <<code, hooks, unload, threads>>

(* RunDetoursBatch(current, detach) *)
DetachBatch ==
    /\ GoesTo("detach", "prepare")
    /\ patch' = Restored(plan) /\ slot' = Redirected(plan, "code")
    /\ plan' = RecordsExcept(target, removed) /\ todo' = 1
    /\ UNCHANGED <<hooks, target, removed, tried, unload, threads>>

DetachBatchFails ==
    /\ step = "detach" /\ EndRebuild(FALSE)
    /\ UNCHANGED <<code, hooks, threads>>

PrepareHookChain ==
    /\ step = "prepare" /\ todo <= Len(plan)
    /\ slot' = [slot EXCEPT ![plan[todo]] = Code(Before(plan, todo, target))]
    /\ todo' = todo + 1
    /\ UNCHANGED <<hooks, patch, step, target, removed, plan, tried, unload, threads>>

(* RunDetoursBatch(records, attach), for the shortened chain and for the old one. *)
AttachBatch ==
    /\ step = "prepare" /\ todo = Len(plan) + 1
    /\ patch' = Patched(plan) /\ slot' = Redirected(plan, "trampoline")
    /\ IF tried = 0
       THEN step' = "reset" /\ todo' = 1 /\ plan' = chains[target]
            /\ UNCHANGED <<target, removed, tried, unload>>
       ELSE EndRebuild(FALSE)
    /\ UNCHANGED <<hooks, threads>>

(* Mutant: no rollback, the removed hooks are dropped although nothing was built. *)
AttachBatchFailsKeeping ==
    /\ step = "prepare" /\ todo = Len(plan) + 1 /\ plan # <<>>
    /\ plan' = chains[target] /\ todo' = 1 /\ tried' = tried + 1
    /\ step' = "reset"
    /\ UNCHANGED <<code, hooks, target, removed, unload, threads>>

AttachBatchFails ==
    /\ step = "prepare" /\ todo = Len(plan) + 1 /\ plan # <<>>
    /\ plan' = chains[target] /\ todo' = 1 /\ tried' = tried + 1
    /\ step' = IF tried = 0 THEN "prepare" ELSE "reset"
    /\ removed' = IF tried = 0 THEN removed ELSE Hooks(target)
    /\ UNCHANGED <<code, hooks, target, unload, threads>>

(* DestroySafetyHookChain: the newest hook first. *)
DestroyHook ==
    /\ step = "destroy" /\ todo > 0
    /\ patch' = [patch EXCEPT ![Before(plan, todo, target)] = NoDetour]
    /\ slot' = [slot EXCEPT ![plan[todo]] = Freed(Before(plan, todo, target))]
    /\ todo' = todo - 1
    /\ UNCHANGED <<hooks, step, target, removed, plan, tried, unload, threads>>

(* Mutant: the rollback is tried again and again. *)
DestroyedRetrying ==
    /\ step = "destroy" /\ todo = 0
    /\ step' = "create"
    /\ plan' = IF tried = 0 THEN RecordsExcept(target, removed) ELSE chains[target]
    /\ todo' = 1
    /\ UNCHANGED <<code, hooks, target, removed, tried, unload, threads>>

(* All of it is destroyed: what comes next depends on what was tried before. *)
Destroyed ==
    /\ step = "destroy" /\ todo = 0
    /\ step' = IF tried = 2 THEN "reset" ELSE "create"
    /\ plan' = IF tried = 0 THEN RecordsExcept(target, removed) ELSE chains[target]
    /\ removed' = IF tried = 2 THEN Hooks(target) ELSE removed
    /\ todo' = 1
    /\ UNCHANGED <<code, hooks, target, tried, unload, threads>>

(* BuildSafetyHookChain: SafetyHookBackend_CreateInline, and then the slot. *)
CreateHook ==
    /\ GoesTo("create", "store") /\ todo <= Len(plan)
    /\ patch' = [patch EXCEPT ![Before(plan, todo, target)] = plan[todo]]
    /\ UNCHANGED <<hooks, slot, rebuild, unload, threads>>

StoreTrampoline ==
    /\ GoesTo("store", "create")
    /\ slot' = [slot EXCEPT ![plan[todo]] = Trampoline(Before(plan, todo, target))]
    /\ todo' = todo + 1
    /\ UNCHANGED <<hooks, patch, target, removed, plan, tried, unload, threads>>

CreateFails ==
    /\ GoesTo("create", "destroy") /\ todo <= Len(plan)
    /\ todo' = todo - 1 /\ tried' = tried + 1
    /\ UNCHANGED <<code, hooks, target, removed, plan, unload, threads>>

Built ==
    /\ step = "create" /\ todo = Len(plan) + 1
    /\ IF tried = 0
       THEN step' = "reset" /\ todo' = 1 /\ plan' = chains[target]
            /\ UNCHANGED <<target, removed, tried, unload>>
       ELSE EndRebuild(FALSE)
    /\ UNCHANGED <<code, hooks, threads>>

(* The removed hooks' slots get the plain target back, one after the other ... *)
ResetSlot ==
    /\ step = "reset" /\ todo <= Len(plan)
    /\ slot' = IF plan[todo] \in removed THEN [slot EXCEPT ![plan[todo]] = Code(target)] ELSE slot
    /\ todo' = todo + 1
    /\ UNCHANGED <<hooks, patch, step, target, removed, plan, tried, unload, threads>>

(* ... and their records go. *)
DropRecords ==
    /\ step = "reset" /\ todo = Len(plan) + 1
    /\ chains' = [chains EXCEPT ![target] = RecordsExcept(target, removed)]
    /\ backend' = [backend EXCEPT ![target] = IF chains'[target] = <<>> THEN "none" ELSE backend[target]]
    /\ EndRebuild(TRUE)
    /\ UNCHANGED <<code, threads>>

-----------------------------------------------------------------------------
(* HookManager_DetachModule rebuilds every target that the module has hooks on,  *)
(* goes on when one cannot be rebuilt, and reports -1 in the end if so.           *)
OwnHooks(m, t) == {d \in Hooks(t) : Owner[d] = m}

DetachModule(m) ==
    /\ GoesTo("free", "module")
    /\ leaving' = m
    /\ pending' = {t \in Target : OwnHooks(m, t) # {}}
    /\ UNCHANGED <<code, hooks, rebuild, failed, detached, threads>>

NextTarget(t) ==
    /\ step = "module" /\ t \in pending
    /\ pending' = pending \ {t}
    /\ BeginRebuild(t, OwnHooks(leaving, t))
    /\ UNCHANGED <<code, hooks, leaving, failed, detached, threads>>

(* Mutant: a target that could not be rebuilt is not counted. *)
DetachModuleReturnsAlways ==
    /\ GoesTo("module", "free") /\ pending = {}
    /\ leaving' = NoModule /\ failed' = FALSE
    /\ detached' = detached \cup {leaving}
    /\ UNCHANGED <<code, hooks, rebuild, pending, threads>>

DetachModuleReturns ==
    /\ GoesTo("module", "free") /\ pending = {}
    /\ leaving' = NoModule
    /\ failed' = FALSE
    /\ detached' = IF failed THEN detached ELSE detached \cup {leaving}
    /\ UNCHANGED <<code, hooks, rebuild, pending, threads>>

-----------------------------------------------------------------------------
(* Where a thread ends that goes on from one address to the next: after as many   *)
(* steps as there are addresses it has stopped, or it goes around in a circle.    *)
Followed(next, a) ==
    LET at[n \in 0 .. Cardinality(Address)] == IF n = 0 THEN a ELSE next[at[n - 1]]
    IN  at[Cardinality(Address)]

(* A call to an address runs through patched entries to the first body. *)
Entered(a) == Followed([b \in Address |-> IF patch[b] = NoDetour THEN b ELSE patch[b]], a)

(* The body that a detour reaches when it calls its original. *)
Continued(d) ==
    CASE slot[d].kind = "code" -> Entered(slot[d].to)
      [] slot[d].kind = "trampoline" -> slot[d].to
      [] slot[d].kind = "freed" -> "wild"

Call(x, t) ==
    /\ threads[x].at = "out" /\ Entered(t) # t
    /\ threads' = [threads EXCEPT ![x] = [at |-> Entered(t), gone |-> detached]]
    /\ UNCHANGED <<code, hooks, step, rebuild, unload>>

CallOriginal(x) ==
    /\ threads[x].at \in Detour
    /\ LET next == Continued(threads[x].at)
       IN  threads' = [threads EXCEPT ![x] =
                          IF next \in Target THEN [at |-> "out", gone |-> {}]
                          ELSE [threads[x] EXCEPT !.at = next]]
    /\ UNCHANGED <<code, hooks, step, rebuild, unload>>

Attaching ==
    \/ \E d \in Detour : AttachDetours(d) \/ AttachSafetyHook(d)
    \/ CommitAttach \/ AttachFails \/ InstallSafetyHook

Rebuilding ==
    \/ DetachBatch \/ DetachBatchFails
    \/ PrepareHookChain \/ AttachBatch \/ AttachBatchFails
    \/ DestroyHook \/ Destroyed \/ CreateHook \/ StoreTrampoline \/ CreateFails \/ Built
    \/ ResetSlot \/ DropRecords

Detaching ==
    \/ \E d \in Detour : Detach(d)
    \/ \E m \in Module : DetachModule(m)
    \/ \E t \in Target : NextTarget(t)
    \/ DetachModuleReturns

Next ==
    \/ Attaching \/ Detaching \/ Rebuilding
    \/ \E x \in Thread : CallOriginal(x) \/ \E t \in Target : Call(x, t)

Spec == Init /\ [][Next]_vars

-----------------------------------------------------------------------------
(* Between operations, whatever failed in them, a call of a hooked function runs  *)
(* its recorded hooks, newest first, each once, and then the function itself; and *)
(* a function without hooks is the game's own code again.                        *)
CallRunsTheChain ==
    step = "free" =>
        \A t \in Target :
            /\ Entered(t) = Newest(t)
            /\ \A i \in DOMAIN chains[t] : Continued(chains[t][i]) = Before(chains[t], i, t)

(* The body in which a chain of calls to the originals ends. *)
EndsIn(d) ==
    Followed([b \in Address \cup {"wild"} |-> IF b \in Detour THEN Continued(b) ELSE b], d)

(* A thread may be in any detour at any moment, one that is being removed or was  *)
(* removed before included.  With Detours its calls end in the game's function,   *)
(* even in the middle of a rebuild or a rollback: they neither come around in a   *)
(* circle nor reach a freed trampoline.  With SafetyHook, between operations.     *)
OriginalIsReached ==
    \A d \in Detour :
        step = "free" \/ (backend[TargetOf[d]] # "SafetyHook" /\ step # "install")
            => EndsIn(d) = TargetOf[d]

(* SDK_HANDBOOK.md: "each detour calls the trampoline it was handed, which reaches *)
(* the previously attached detour and eventually the original code".              *)
RunningDetourReachesOriginal ==
    \A x \in Thread : threads[x].at \in Detour => EndsIn(threads[x].at) = TargetOf[threads[x].at]

(* DetachModule's promise to the unloader: unless it reports -1, no patch and no   *)
(* slot leads to the module any more, and no thread that starts a call from then   *)
(* on gets into it, though other mods' rebuilds go on under it.                   *)
DetachedModuleIsOut ==
    /\ \A m \in detached : \A a \in Address :
          /\ patch[a] # NoDetour => Owner[patch[a]] # m
          /\ a \in Detour /\ slot[a].to \in Detour /\ Owner[a] # m => Owner[slot[a].to] # m
    /\ \A x \in Thread : threads[x].at \in Detour => Owner[threads[x].at] \notin threads[x].gone
=============================================================================
