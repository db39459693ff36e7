------------------------- MODULE MainThreadDispatcher -------------------------
(* src/core/loader/main_thread_dispatcher.cpp: the list of callbacks that mods  *)
(* register to run on the game's main thread, and the drain of that list.      *)
(*                                                                             *)
(* The list and the availability flag are guarded by g_mainThreadMutex, so     *)
(* every operation is one step.  A drain is not: it copies the list under the  *)
(* mutex, calls the copied entries outside it, and takes the mutex again after *)
(* each call to record how the call went.  Any thread, a callback in the       *)
(* middle of its own call included, may register, unregister or unload between *)
(* two steps of a drain.  Only one drain runs at a time: its callers are the   *)
(* pumps of the main thread, which refuse to nest.                             *)
(*                                                                             *)
(* The order of the list is left open: nothing below depends on who is first.  *)
(* MT marks the names that a module which extends this one together with       *)
(* another would find in both.                                                 *)
EXTENDS Naturals

CONSTANTS Callback,        \* callback addresses
          Module,          \* the mod images they live in
          Owner,           \* [Callback -> Module], ModuleForAddress
          MaxFaults,       \* kMaxConsecutiveCallbackFaults
          NoCallback

ASSUME OwnerAssumption == Owner \in [Callback -> Module]
ASSUME MaxFaultsAssumption == MaxFaults \in Nat \ {0}
ASSUME NoCallbackAssumption == NoCallback \notin Callback

VARIABLES
    callbacks,   \* g_callbacks
    faults,      \* consecutiveFaults of their entries, 0 without one
    available,   \* g_dispatchTargetAvailable
    todo,        \* the rest of the drain's copy
    running,     \* the callback the drain is inside, or NoCallback
    returned,    \* "no", or how the call just made went: "ok", "fault"
    mapped,      \* images that LoadLibrary mapped and FreeLibrary has not freed
    freeing,     \* images whose callbacks URK_FreeLibrary has unregistered
    streak       \* history: consecutive faults of a callback's latest calls,
                 \* whatever happened to its registration, up to MaxFaults

list == <<callbacks, faults>>
drain == <<todo, running, returned>>
images == <<mapped, freeing>>
mtVars == <<list, available, drain, images, streak>>

(* Every variable keeps its type, an entry has fewer than MaxFaults faults, and *)
(* a result is there only while a call is.                                     *)
MTTypeOK ==
    /\ callbacks \subseteq Callback
    /\ faults \in [Callback -> 0 .. MaxFaults - 1]
    /\ available \in BOOLEAN
    /\ todo \subseteq Callback
    /\ running \in Callback \cup {NoCallback}
    /\ returned \in {"no", "ok", "fault"} /\ (running = NoCallback => returned = "no")
    /\ mapped \subseteq Module /\ freeing \subseteq mapped
    /\ streak \in [Callback -> 0 .. MaxFaults]

Draining == running # NoCallback \/ todo # {}

MTInit ==
    /\ callbacks = {} /\ faults = [c \in Callback |-> 0] /\ available = FALSE
    /\ todo = {} /\ running = NoCallback /\ returned = "no"
    /\ mapped = Module /\ freeing = {}
    /\ streak = [c \in Callback |-> 0]

-----------------------------------------------------------------------------
Drop(gone) ==
    /\ callbacks' = callbacks \ gone
    /\ faults' = [c \in Callback |-> IF c \in gone THEN 0 ELSE faults[c]]

(* MainThread_Register: a second registration of a callback returns 1 and adds *)
(* nothing; an address outside every mapped image is refused.                  *)
Register(c) ==
    /\ Owner[c] \in mapped
    /\ c \notin callbacks
    /\ callbacks' = callbacks \cup {c} /\ faults' = [faults EXCEPT ![c] = 0]
    /\ UNCHANGED <<available, drain, images, streak>>

(* MainThread_Unregister *)
Unregister(c) ==
    /\ c \in callbacks
    /\ Drop({c})
    /\ UNCHANGED <<available, drain, images, streak>>

(* MainThread_UnregisterModule, the first step of URK_FreeLibrary. *)
UnregisterModule(m) ==
    /\ m \in mapped \ freeing
    /\ Drop({c \in Callback : Owner[c] = m})
    /\ freeing' = freeing \cup {m}
    /\ UNCHANGED <<available, drain, mapped, streak>>

(* The FreeLibrary call at the end of URK_FreeLibrary. *)
FreeModule(m) ==
    /\ m \in freeing
    /\ freeing' = freeing \ {m} /\ mapped' = mapped \ {m}
    /\ UNCHANGED <<list, available, drain, streak>>

(* MainThread_SetDispatchTargetAvailable *)
SetAvailable(b) ==
    /\ available' = b
    /\ IF b THEN UNCHANGED list ELSE Drop(Callback)
    /\ UNCHANGED <<drain, images, streak>>

-----------------------------------------------------------------------------
(* Mutant: the loop over the copy stops one entry short. *)
BeginDrainShort ==
    /\ ~Draining /\ available
    /\ \E c \in callbacks : todo' = callbacks \ {c}
    /\ UNCHANGED <<list, available, running, returned, images, streak>>

(* MainThread_Drain takes its copy. *)
BeginDrain ==
    /\ ~Draining /\ available /\ callbacks # {}
    /\ todo' = callbacks
    /\ UNCHANGED <<list, available, running, returned, images, streak>>

(* InvokeCallbackSafely enters the next copied callback, registered or not. *)
Invoke ==
    /\ running = NoCallback
    /\ \E c \in todo : running' = c /\ todo' = todo \ {c}
    /\ UNCHANGED <<list, available, returned, images, streak>>

(* The callback comes back, or its exception is caught. *)
Return(outcome) ==
    /\ running # NoCallback /\ returned = "no"
    /\ returned' = outcome
    /\ streak' = [streak EXCEPT ![running] =
                     IF outcome = "ok" THEN 0 ELSE IF @ < MaxFaults THEN @ + 1 ELSE @]
    /\ UNCHANGED <<list, available, todo, running, images>>

(* Mutant: a successful call leaves the count alone. *)
ChargeWithoutReset == IF returned = "ok" THEN faults[running] ELSE faults[running] + 1

Charge == IF returned = "ok" THEN 0 ELSE faults[running] + 1

(* Mutant: the entry survives its MaxFaults-th fault. *)
RecordResultLate ==
    /\ returned # "no"
    /\ IF running \in callbacks
       THEN IF Charge > MaxFaults THEN Drop({running})
            ELSE faults' = [faults EXCEPT ![running] = Charge] /\ UNCHANGED callbacks
       ELSE UNCHANGED list
    /\ running' = NoCallback /\ returned' = "no"
    /\ UNCHANGED <<available, todo, images, streak>>

(* RecordCallbackResult: finds the entry by address, whichever registration it *)
(* belongs to, and drops it at its MaxFaults-th consecutive fault.             *)
RecordResult ==
    /\ returned # "no"
    /\ IF running \in callbacks
       THEN IF Charge >= MaxFaults THEN Drop({running})
            ELSE faults' = [faults EXCEPT ![running] = Charge] /\ UNCHANGED callbacks
       ELSE UNCHANGED list
    /\ running' = NoCallback /\ returned' = "no"
    /\ UNCHANGED <<available, todo, images, streak>>

DrainStep == Invoke \/ (\E o \in {"ok", "fault"} : Return(o)) \/ RecordResult

MTNext ==
    \/ \E c \in Callback : Register(c) \/ Unregister(c)
    \/ \E m \in Module : UnregisterModule(m) \/ FreeModule(m)
    \/ \E b \in BOOLEAN : SetAvailable(b)
    \/ BeginDrain \/ DrainStep

MTSpec == MTInit /\ [][MTNext]_mtVars

(* The pump runs once a frame for as long as the game does, and the mods'      *)
(* callbacks come back.                                                        *)
MTFairSpec == MTSpec /\ WF_mtVars(BeginDrain) /\ WF_mtVars(DrainStep)

-----------------------------------------------------------------------------
(* A callback is dropped for crashing only when its last MaxFaults calls all    *)
(* crashed, in whatever order calls, unregistrations and registrations came:   *)
(* a fault left over from an earlier registration is charged to the entry it   *)
(* finds (RecordCallbackResult matches by address), and a success in between   *)
(* clears the count.                                                           *)
DroppedOnlyAfterStreak ==
    [][ \A c \in Callback :
          (returned # "no" /\ returned' = "no" /\ c \in callbacks /\ c \notin callbacks')
             => streak[c] = MaxFaults ]_mtVars

(* While the dispatch target is up and the pump runs, a registered callback is  *)
(* eventually called: a callback that crashes or that keeps re-registering     *)
(* others cannot starve it.                                                    *)
EveryCallbackRuns ==
    \A c \in Callback :
        (c \in callbacks /\ available) ~> (running = c \/ c \notin callbacks \/ ~available)
=============================================================================
