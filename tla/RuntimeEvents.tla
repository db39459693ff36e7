----------------------------- MODULE RuntimeEvents -----------------------------
(* src/core/loader/runtime_events.cpp, Unity's side: scene events and the cursor. *)
(*                                                                             *)
(* Once per frame the pump compares the active scene with the one observed last *)
(* and tells the mods of a new one, then takes the cursor for their menus or    *)
(* gives it back.  The hooks of Unity's two scene callbacks observe scenes too, *)
(* and so does, once and on its own thread, the worker that has activated them. *)
(* Observing is atomic; telling the mods is a second step outside the mutex.    *)
(*                                                                             *)
(* The cursor's methods are there from the start, scene reads succeed, and the  *)
(* game does not shut down, which ends the pump.                                *)
EXTENDS Naturals, Sequences, FiniteSetsExt

CONSTANTS Scene, NoScene, Mod,
          Look,          \* the cursors that the game sets
          MaxLeases,     \* bound: leases of all mods
          MaxFaults      \* bound: calls of the engine's cursor that fail

Looks == [visible : BOOLEAN, locked : BOOLEAN]
MenuLook == [visible |-> TRUE, locked |-> FALSE]

ASSUME SceneAssumption == NoScene \notin Scene
ASSUME LookAssumption == Look \subseteq Looks
ASSUME BoundsAssumption == MaxLeases \in Nat /\ MaxFaults \in Nat

VARIABLES
    pumping,     \* g_runtimePumpActive
    worker,      \* where the activation worker is
    seen,        \* the active scene that the worker has read
    callbacks,   \* the scene callbacks that Unity still has to call
    active,      \* the game's active scene
    observed,    \* g_currentScene, NoScene for g_haveScene = false
    pending,     \* for each observer, the scene that it tells the mods of
    told,        \* the scene that the mods were told of last
    overlapped,  \* history: the last news came while others were being told
    leases,      \* g_menuCursorLeases
    desired,     \* g_menuCursorDesired
    override,    \* g_cursorOverrideActive
    saved,       \* g_savedCursorState, while it is in use
    cursor,      \* the engine's cursor
    own,         \* history: the cursor as the game set it while it had it
    faults       \* the calls that failed

sceneVars == <<worker, seen, callbacks, active, observed, pending, told, overlapped>>
leaseVars == <<leases, desired>>
cursorVars == <<override, saved, cursor, own, faults>>
vars == <<pumping, sceneVars, leaseVars, cursorVars>>

Observer == {"pump", "hook", "worker"}

\* Every variable keeps its type, and no observer has news before the first scene.
TypeOK ==
    /\ pumping \in BOOLEAN
    /\ worker \in {"waiting", "hooked", "read", "told", "done", "polling"}
    /\ seen \in Scene \cup {NoScene} /\ active \in Scene
    /\ callbacks \in Seq([kind : {"loaded", "changed"}, scene : Scene])
    /\ observed \in Scene \cup {NoScene} /\ told \in Scene \cup {NoScene}
    /\ pending \in [Observer -> Scene \cup {NoScene}]
    /\ observed = NoScene => pending = [o \in Observer |-> NoScene]
    /\ overlapped \in BOOLEAN
    /\ leases \in [Mod -> Nat] /\ desired \in {"unset", "open", "closed"}
    /\ override \in BOOLEAN
    /\ saved \in Looks /\ cursor \in Looks /\ own \in Looks
    /\ faults \in 0..MaxFaults

Init ==
    /\ pumping = FALSE /\ worker = "waiting" /\ seen = NoScene
    /\ callbacks = <<>> /\ active \in Scene
    /\ observed = NoScene /\ told = NoScene /\ overlapped = FALSE
    /\ pending = [o \in Observer |-> NoScene]
    /\ leases = [m \in Mod |-> 0] /\ desired = "unset"
    /\ override = FALSE /\ cursor \in Look /\ own = cursor /\ saved = MenuLook
    /\ faults = 0

(* --- observing and telling ------------------------------------------------- *)

\* URK_RUNTIME_CAP_SCENE_EVENTS, and the detours of the two scene callbacks.
Polled == worker # "waiting"
Hooked == worker \notin {"waiting", "polling"}

News(o, s) ==
    /\ pending' = [pending EXCEPT ![o] = s]
    /\ overlapped' = (pending # [p \in Observer |-> NoScene])
NoNews == UNCHANGED <<pending, overlapped>>

\* UpdateObservedScene, for a transition that DispatchTransition passes on.
Observe(o, s) ==
    /\ observed' = s
    /\ IF observed # s THEN News(o, s) ELSE NoNews

\* ModLifecycle_DispatchSceneChanged and ..SceneLoaded: the mods' callbacks run.
Tell(o) ==
    /\ pending[o] # NoScene
    /\ told' = pending[o]
    /\ pending' = [pending EXCEPT ![o] = NoScene]
    /\ UNCHANGED <<seen, callbacks, active, observed, overlapped, pumping, leaseVars, cursorVars>>

(* --- the game and its scene callbacks, on the main thread ------------------ *)

InGame == ~pumping /\ pending["hook"] = NoScene
Calls(kinds, s) == IF Hooked THEN [i \in DOMAIN kinds |-> [kind |-> kinds[i], scene |-> s]] ELSE <<>>

\* A scene replaces the active one; Unity's order of the two callbacks is open.
LoadScene(s) ==
    /\ InGame /\ callbacks = <<>> /\ s # active
    /\ active' = s
    /\ \E kinds \in {<<"loaded", "changed">>, <<"changed", "loaded">>, <<"changed">>} :
          callbacks' = Calls(kinds, s)
    /\ UNCHANGED <<worker, seen, observed, pending, told, overlapped, pumping, leaseVars, cursorVars>>

\* A scene is loaded beside the active one.
AddScene(s) ==
    /\ InGame /\ callbacks = <<>> /\ s # active /\ Hooked
    /\ callbacks' = Calls(<<"loaded">>, s)
    /\ UNCHANGED <<worker, seen, active, observed, pending, told, overlapped, pumping, leaseVars, cursorVars>>

\* DispatchSceneLoadedFromHandle: a duplicate is not told again.
SceneLoadedDetour ==
    /\ InGame /\ callbacks # <<>> /\ Head(callbacks).kind = "loaded"
    /\ Observe("hook", Head(callbacks).scene)
    /\ callbacks' = Tail(callbacks)
    /\ UNCHANGED <<worker, seen, active, told, pumping, leaseVars, cursorVars>>

\* DispatchActiveSceneChangedFromHandles: the first scene is told only if the
\* scene before it can still be read.
ActiveSceneChangedDetour ==
    /\ InGame /\ callbacks # <<>> /\ Head(callbacks).kind = "changed"
    /\ LET s == Head(callbacks).scene IN
          \/ Observe("hook", s)
          \/ observed = NoScene /\ observed' = s /\ NoNews
    /\ callbacks' = Tail(callbacks)
    /\ UNCHANGED <<worker, seen, active, told, pumping, leaseVars, cursorVars>>

TellFromHook == ~pumping /\ Tell("hook") /\ UNCHANGED worker

(* --- the activation worker ------------------------------------------------- *)

\* The scene methods are there: the hooks go in, or polling has to do.
ActivateScenes ==
    /\ worker = "waiting" /\ worker' \in {"hooked", "polling"}
    /\ UNCHANGED <<seen, callbacks, active, observed, pending, told, overlapped, pumping, leaseVars, cursorVars>>

\* DispatchActiveSceneChangedFromActiveScene reads, observes and tells.
WorkerReads ==
    /\ worker = "hooked" /\ worker' = "read" /\ seen' = active
    /\ UNCHANGED <<callbacks, active, observed, pending, told, overlapped, pumping, leaseVars, cursorVars>>
WorkerObserves ==
    /\ worker = "read" /\ worker' = IF observed # seen THEN "told" ELSE "done"
    /\ seen' = NoScene
    /\ Observe("worker", seen)
    /\ UNCHANGED <<callbacks, active, told, pumping, leaseVars, cursorVars>>
TellFromWorker == worker = "told" /\ Tell("worker") /\ worker' = "done"

(* --- leases, on any thread ------------------------------------------------- *)

AnyOpen(of) == \E m \in Mod : of[m] > 0
Wanted(of) == IF AnyOpen(of) THEN "open" ELSE "closed"
Total == MapThenSumSet(LAMBDA m : leases[m], Mod)

\* Mutant: a mod that has no lease releases one.
ReleasedUnchecked(n) == n - 1
Released(n) == IF n = 0 THEN 0 ELSE n - 1

\* RuntimeEvents_MenuCursorSetOpen; the pump it runs on the main thread is Frame.
OpenMenu(m) ==
    /\ Total < MaxLeases
    /\ leases' = [leases EXCEPT ![m] = @ + 1]
    /\ desired' = "open"
    /\ UNCHANGED <<pumping, sceneVars, cursorVars>>
CloseMenu(m) ==
    /\ leases' = [leases EXCEPT ![m] = Released(leases[m])]
    /\ desired' = Wanted(leases')
    /\ UNCHANGED <<pumping, sceneVars, cursorVars>>

\* Mutant: the leases of an unloaded mod go and the wish stays.
ForgetQuietly(m) == leases' = [leases EXCEPT ![m] = 0] /\ UNCHANGED desired

\* ReleaseOwner, and the wish only if there was something to release.
Forget(m) ==
    /\ leases' = [leases EXCEPT ![m] = 0]
    /\ desired' = IF leases[m] > 0 THEN Wanted(leases') ELSE desired

\* RuntimeEvents_UnregisterModule.
UnregisterModule(m) == Forget(m) /\ UNCHANGED <<pumping, sceneVars, cursorVars>>

(* --- the frame, on the main thread ----------------------------------------- *)

\* Mutant: the hooks are thought to make the polling superfluous.
PollUnlessHooked == IF worker = "polling" THEN Observe("pump", active) ELSE UNCHANGED observed /\ NoNews

\* PumpSceneEvents.
Poll == IF Polled THEN Observe("pump", active) ELSE UNCHANGED observed /\ NoNews

\* RuntimeEvents_Pump, once per frame or from a mod that opens its menu while a
\* hook tells it of a scene; a mod that the pump is telling does not start another.
BeginFrame ==
    /\ ~pumping /\ (callbacks = <<>> \/ pending["hook"] # NoScene)
    /\ pumping' = TRUE
    /\ Poll
    /\ UNCHANGED <<worker, seen, callbacks, active, told, leaseVars, cursorVars>>
TellFromPump == pumping /\ Tell("pump") /\ UNCHANGED worker

\* SetCursorLockState and SetCursorVisible fail each for itself; whether the
\* second is tried after the first has failed is for the caller.
Fails == faults < MaxFaults /\ faults' = faults + 1
Works == UNCHANGED faults

\* Mutant: the cursor is read after it was changed.
SaveLate == saved' = MenuLook
SaveCursor == saved' = cursor

TakeCursor ==
    /\ desired = "open" /\ ~override
    /\ \/ Works /\ SaveCursor /\ cursor' = MenuLook /\ override' = TRUE
       \/ Fails /\ cursor' \in {cursor, [cursor EXCEPT !.locked = FALSE]}
          /\ UNCHANGED <<saved, override>>
KeepCursor ==
    /\ desired = "open" /\ override
    /\ \/ Works /\ cursor' = MenuLook /\ UNCHANGED override
       \/ Fails /\ cursor' \in {cursor, [cursor EXCEPT !.locked = FALSE]} /\ override' = FALSE
    /\ UNCHANGED saved
GiveCursorBack ==
    /\ desired = "closed" /\ override
    /\ \/ Works /\ cursor' = saved
       \/ Fails /\ cursor' \in {[saved EXCEPT !.locked = cursor.locked],
                                [cursor EXCEPT !.locked = saved.locked], cursor}
    /\ override' = FALSE /\ saved' = MenuLook
LeaveCursor ==
    /\ desired = "unset" \/ (desired = "closed" /\ ~override)
    /\ UNCHANGED <<override, saved, cursor, faults>>

\* PumpCursorControl, under the mutex, and the end of the frame.
PumpCursorControl ==
    /\ pumping /\ pending["pump"] = NoScene /\ pumping' = FALSE
    /\ TakeCursor \/ KeepCursor \/ GiveCursorBack \/ LeaveCursor
    /\ UNCHANGED <<own, sceneVars, leaseVars>>

\* The game sets its cursor between frames, a menu being open or not.
GameSetsCursor(look) ==
    /\ ~pumping /\ cursor' = look
    /\ own' = IF override THEN own ELSE look
    /\ UNCHANGED <<override, saved, faults, pumping, sceneVars, leaseVars>>

(* --- specification --------------------------------------------------------- *)

GameStep == \/ \E s \in Scene : LoadScene(s) \/ AddScene(s)
            \/ \E look \in Look : GameSetsCursor(look)
HookStep == SceneLoadedDetour \/ ActiveSceneChangedDetour \/ TellFromHook
WorkerStep == WorkerReads \/ WorkerObserves \/ TellFromWorker
FrameStep == TellFromPump \/ PumpCursorControl
ModStep == \E m \in Mod : OpenMenu(m) \/ CloseMenu(m) \/ UnregisterModule(m)

Next == GameStep \/ HookStep \/ ActivateScenes \/ WorkerStep \/ BeginFrame \/ FrameStep \/ ModStep

\* Threads run on, a frame that has begun ends and there is always another one,
\* and a mod told from a hook pumps only so often before it returns.
Fairness == WF_vars(WorkerStep) /\ WF_vars(FrameStep) /\ SF_vars(BeginFrame) /\ SF_vars(HookStep)
Spec == Init /\ [][Next]_vars
FairSpec == Spec /\ Fairness

(* --- properties ------------------------------------------------------------ *)

\* While the loader does not hold the cursor it is as the game last set it, if
\* no call of the engine has failed: what PumpCursorControl saves, re-applies
\* every frame and gives back must never be the menu's own look.
CursorGoesBack == ~override /\ faults = 0 => cursor = own

\* When all mods have closed their menus or are unloaded for good, the loader
\* lets go of the cursor, failing calls included.
CursorIsGivenBack == <>[](~AnyOpen(leases)) => <>[]~override

\* A scene that stays active is the one that the mods believe in again and again:
\* what a hook or the worker told of another scene is put right by the poll of a
\* later frame, unless two observers told the mods at the same time.
ActiveSceneIsTold ==
    \A s \in Scene : <>[](active = s) => []<>(overlapped \/ told \in {NoScene, s})
=============================================================================
