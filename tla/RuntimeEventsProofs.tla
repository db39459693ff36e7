--------------------------- MODULE RuntimeEventsProofs ---------------------------
(* Theorems about scenes and the cursor, for any scenes, mods, leases and cursors. *)
EXTENDS RuntimeEvents, TLAPS

(* While no call of the engine has failed, the cursor as the game set it is in    *)
(* one of two places: the engine, or g_savedCursorState while the loader holds it. *)
(* Without the second half the cursor that is given back could be any.            *)
OwnIsKept ==
    faults = 0 =>
        /\ ~override => cursor = own
        /\ override => saved = own

(* Counting failed calls: a step after which none is counted had none before it. *)
IInv == OwnIsKept /\ faults \in Nat

USE DEF sceneVars, leaseVars, cursorVars

LEMMA InitInvariant == Init => IInv
  BY DEF Init, IInv, OwnIsKept

(* Scenes, leases and callbacks leave the cursor alone. *)
LEMMA CursorUntouched == IInv /\ UNCHANGED cursorVars => IInv'
  BY DEF IInv, OwnIsKept

LEMMA ObserverSteps == HookStep \/ ActivateScenes \/ WorkerStep \/ BeginFrame \/ TellFromPump
                         => UNCHANGED cursorVars
  BY DEF HookStep, SceneLoadedDetour, ActiveSceneChangedDetour, TellFromHook, ActivateScenes,
         WorkerStep, WorkerReads, WorkerObserves, TellFromWorker, BeginFrame, TellFromPump, Tell

LEMMA ModSteps == ModStep => UNCHANGED cursorVars
  BY DEF ModStep, OpenMenu, CloseMenu, UnregisterModule

(* Every step keeps the cursor in its place; only the pump and the game move it. *)
LEMMA StepInvariant == IInv /\ [Next]_vars => IInv'
<1> SUFFICES ASSUME IInv, [Next]_vars PROVE IInv'
  OBVIOUS
<1>1. ASSUME NEW s \in Scene, LoadScene(s) \/ AddScene(s) PROVE IInv'
  BY <1>1, CursorUntouched DEF LoadScene, AddScene
<1>2. ASSUME NEW look \in Look, GameSetsCursor(look) PROVE IInv'
  BY <1>2 DEF GameSetsCursor, IInv, OwnIsKept
<1>3. CASE HookStep \/ ActivateScenes \/ WorkerStep \/ BeginFrame \/ TellFromPump
  BY <1>3, ObserverSteps, CursorUntouched
<1>4. CASE ModStep
  BY <1>4, ModSteps, CursorUntouched
<1>5. CASE PumpCursorControl
  <2>1. own' = own
    BY <1>5 DEF PumpCursorControl
  <2>2. CASE Fails
    BY <2>2 DEF Fails, IInv, OwnIsKept
  <2>3. CASE TakeCursor /\ ~Fails
    BY <2>1, <2>3 DEF TakeCursor, Works, SaveCursor, IInv, OwnIsKept
  <2>4. CASE KeepCursor /\ ~Fails
    BY <2>1, <2>4 DEF KeepCursor, Works, IInv, OwnIsKept
  <2>5. CASE GiveCursorBack /\ ~Fails
    BY <2>1, <2>5 DEF GiveCursorBack, Works, IInv, OwnIsKept
  <2>6. CASE LeaveCursor
    BY <2>1, <2>6 DEF LeaveCursor, IInv, OwnIsKept
  <2> QED BY <1>5, <2>2, <2>3, <2>4, <2>5, <2>6 DEF PumpCursorControl
<1>6. CASE UNCHANGED vars
  BY <1>6, CursorUntouched DEF vars
<1> QED BY <1>1, <1>2, <1>3, <1>4, <1>5, <1>6 DEF Next, GameStep, FrameStep

(* Whatever the mods, the frames and the scenes do, and whenever the game sets    *)
(* its cursor, PumpCursorControl saves and gives back the game's cursor and never *)
(* the menu's, as long as the engine's calls succeed.                            *)
THEOREM CursorIsTheGames == Spec => []CursorGoesBack
<1>1. IInv => CursorGoesBack
  BY DEF IInv, OwnIsKept, CursorGoesBack
<1> QED BY InitInvariant, StepInvariant, <1>1, PTL DEF Spec

-----------------------------------------------------------------------------
(* What the worker is about to observe is a scene: TypeOK leaves open that it      *)
(* observes NoScene, and a later observer then has news before the first scene.    *)
ReadIsScene == worker = "read" => seen \in Scene

TypeInv == TypeOK /\ ReadIsScene

CallbackKind == {"loaded", "changed"}
SceneCallback == [kind : CallbackKind, scene : Scene]
Callbacks == Seq(SceneCallback)

USE SceneAssumption, LookAssumption, BoundsAssumption

LEMMA LooksAreFine == MenuLook \in Looks /\ \A look \in Look : look \in Looks
  BY DEF MenuLook, Looks

(* An observer notes a scene, and perhaps has news of it. *)
LEMMA ObserveTypes ==
  ASSUME TypeOK, NEW o \in Observer, NEW s \in Scene, Observe(o, s)
  PROVE  /\ observed' = s /\ s # NoScene
         /\ pending' \in [Observer -> Scene \cup {NoScene}] /\ overlapped' \in BOOLEAN
  BY DEF TypeOK, Observe, News, NoNews

LEMMA TellTypes ==
  ASSUME TypeInv, NEW o \in Observer, Tell(o), worker' = worker \/ worker' = "done"
  PROVE  TypeInv'
<1>1. pending' \in [Observer -> Scene \cup {NoScene}] /\ told' \in Scene
  BY DEF TypeInv, TypeOK, Tell
<1>2. observed' # NoScene
  BY DEF TypeInv, TypeOK, Tell
<1> QED
  BY <1>1, <1>2 DEF TypeInv, TypeOK, ReadIsScene, Tell

LEMMA CallsTypes ==
  ASSUME NEW s \in Scene, NEW kinds \in Seq(CallbackKind)
  PROVE  Calls(kinds, s) \in Callbacks
<1>1. Len(kinds) \in Nat /\ DOMAIN kinds = 1 .. Len(kinds)
  OBVIOUS
<1>2. \A i \in 1 .. Len(kinds) : [kind |-> kinds[i], scene |-> s] \in SceneCallback
  BY <1>1 DEF SceneCallback
<1>3. [i \in 1 .. Len(kinds) |-> [kind |-> kinds[i], scene |-> s]] \in Seq(SceneCallback)
  BY <1>1, <1>2
<1>4. <<>> \in Seq(SceneCallback)
  OBVIOUS
<1> QED
  BY <1>1, <1>3, <1>4 DEF Calls, Callbacks

LEMMA KindsTypes ==
  /\ <<"loaded">> \in Seq(CallbackKind) /\ <<"changed">> \in Seq(CallbackKind)
  /\ <<"loaded", "changed">> \in Seq(CallbackKind) /\ <<"changed", "loaded">> \in Seq(CallbackKind)
  BY DEF CallbackKind

LEMMA GameTypes ==
  ASSUME TypeInv, GameStep
  PROVE  TypeInv'
<1>1. ASSUME NEW s \in Scene, LoadScene(s) PROVE TypeInv'
  <2>1. PICK kinds \in {<<"loaded", "changed">>, <<"changed", "loaded">>, <<"changed">>} :
            callbacks' = Calls(kinds, s)
    BY <1>1 DEF LoadScene
  <2>2. callbacks' \in Callbacks
    BY <2>1, CallsTypes, KindsTypes
  <2> QED
    BY <1>1, <2>2 DEF LoadScene, TypeInv, TypeOK, ReadIsScene, Callbacks, SceneCallback, CallbackKind
<1>2. ASSUME NEW s \in Scene, AddScene(s) PROVE TypeInv'
  <2>1. callbacks' \in Callbacks
    BY <1>2, CallsTypes, KindsTypes DEF AddScene
  <2> QED
    BY <1>2, <2>1 DEF AddScene, TypeInv, TypeOK, ReadIsScene, Callbacks, SceneCallback, CallbackKind
<1>3. ASSUME NEW look \in Look, GameSetsCursor(look) PROVE TypeInv'
  BY <1>3, LooksAreFine DEF GameSetsCursor, TypeInv, TypeOK, ReadIsScene
<1> QED
  BY <1>1, <1>2, <1>3 DEF GameStep

LEMMA HookTypes ==
  ASSUME TypeInv, HookStep
  PROVE  TypeInv'
<1>1. callbacks # <<>> => Head(callbacks).scene \in Scene /\ Tail(callbacks) \in Callbacks
  <2>1. SUFFICES ASSUME callbacks # <<>>
                 PROVE  Head(callbacks).scene \in Scene /\ Tail(callbacks) \in Callbacks
    OBVIOUS
  <2>2. callbacks \in Callbacks
    BY DEF TypeInv, TypeOK, Callbacks, SceneCallback, CallbackKind
  <2>3. Head(callbacks) \in SceneCallback
    BY <2>1, <2>2 DEF Callbacks
  <2>4. Tail(callbacks) \in Callbacks
    BY <2>1, <2>2 DEF Callbacks
  <2> QED
    BY <2>3, <2>4 DEF SceneCallback
<1>2. CASE SceneLoadedDetour
  <2>1. /\ observed' \in Scene /\ observed' # NoScene
        /\ pending' \in [Observer -> Scene \cup {NoScene}] /\ overlapped' \in BOOLEAN
    BY <1>1, <1>2, ObserveTypes DEF SceneLoadedDetour, TypeInv, Observer
  <2> QED
    BY <1>1, <1>2, <2>1 DEF SceneLoadedDetour, TypeInv, TypeOK, ReadIsScene, Callbacks, SceneCallback, CallbackKind
<1>3. CASE ActiveSceneChangedDetour
  <2>1. /\ observed' \in Scene /\ observed' # NoScene
        /\ pending' \in [Observer -> Scene \cup {NoScene}] /\ overlapped' \in BOOLEAN
    <3>1. CASE Observe("hook", Head(callbacks).scene)
      BY <1>1, <1>3, <3>1, ObserveTypes DEF ActiveSceneChangedDetour, TypeInv, Observer
    <3>2. CASE observed = NoScene /\ observed' = Head(callbacks).scene /\ NoNews
      BY <1>1, <1>3, <3>2 DEF ActiveSceneChangedDetour, NoNews, TypeInv, TypeOK
    <3> QED
      BY <1>3, <3>1, <3>2 DEF ActiveSceneChangedDetour
  <2> QED
    BY <1>1, <1>3, <2>1 DEF ActiveSceneChangedDetour, TypeInv, TypeOK, ReadIsScene, Callbacks, SceneCallback, CallbackKind
<1>4. CASE TellFromHook
  BY <1>4, TellTypes DEF TellFromHook, Observer
<1> QED
  BY <1>2, <1>3, <1>4 DEF HookStep

LEMMA WorkerTypes ==
  ASSUME TypeInv, ActivateScenes \/ WorkerStep
  PROVE  TypeInv'
<1>1. CASE ActivateScenes
  BY <1>1 DEF ActivateScenes, TypeInv, TypeOK, ReadIsScene
<1>2. CASE WorkerReads
  BY <1>2 DEF WorkerReads, TypeInv, TypeOK, ReadIsScene
<1>3. CASE WorkerObserves
  <2>1. seen \in Scene
    BY <1>3 DEF WorkerObserves, TypeInv, ReadIsScene
  <2>2. /\ observed' = seen /\ seen # NoScene
        /\ pending' \in [Observer -> Scene \cup {NoScene}] /\ overlapped' \in BOOLEAN
    BY <1>3, <2>1, ObserveTypes DEF WorkerObserves, TypeInv, Observer
  <2> QED
    BY <1>3, <2>1, <2>2 DEF WorkerObserves, TypeInv, TypeOK, ReadIsScene
<1>4. CASE TellFromWorker
  BY <1>4, TellTypes DEF TellFromWorker, Observer
<1> QED
  BY <1>1, <1>2, <1>3, <1>4 DEF WorkerStep

LEMMA FrameTypes ==
  ASSUME TypeInv, BeginFrame \/ FrameStep
  PROVE  TypeInv'
<1>1. CASE BeginFrame
  <2>1. CASE Polled
    <3>1. /\ observed' = active /\ active # NoScene
          /\ pending' \in [Observer -> Scene \cup {NoScene}] /\ overlapped' \in BOOLEAN
      BY <1>1, <2>1, ObserveTypes DEF BeginFrame, Poll, TypeInv, TypeOK, Observer
    <3> QED
      BY <1>1, <3>1 DEF BeginFrame, TypeInv, TypeOK, ReadIsScene
  <2>2. CASE ~Polled
    BY <1>1, <2>2 DEF BeginFrame, Poll, NoNews, TypeInv, TypeOK, ReadIsScene
  <2> QED
    BY <2>1, <2>2
<1>2. CASE TellFromPump
  BY <1>2, TellTypes DEF TellFromPump, Observer
<1>3. CASE PumpCursorControl
  <2>1. faults' \in 0 .. MaxFaults /\ override' \in BOOLEAN /\ saved' \in Looks /\ cursor' \in Looks
    <3>1. /\ cursor \in Looks /\ saved \in Looks /\ MenuLook \in Looks
          /\ faults \in 0 .. MaxFaults /\ override \in BOOLEAN
      BY LooksAreFine DEF TypeInv, TypeOK
    <3>2. ASSUME NEW c \in Looks, NEW d \in Looks PROVE [c EXCEPT !.locked = d.locked] \in Looks
      BY DEF Looks
    <3>3. ASSUME NEW c \in Looks PROVE [c EXCEPT !.locked = FALSE] \in Looks
      BY DEF Looks
    <3>4. Fails \/ Works => faults' \in 0 .. MaxFaults
      BY <3>1 DEF Fails, Works
    <3>5. CASE TakeCursor
      BY <3>1, <3>3, <3>4, <3>5 DEF TakeCursor, SaveCursor
    <3>6. CASE KeepCursor
      BY <3>1, <3>3, <3>4, <3>6 DEF KeepCursor
    <3>7. CASE GiveCursorBack
      BY <3>1, <3>2, <3>4, <3>7 DEF GiveCursorBack
    <3>8. CASE LeaveCursor
      BY <3>1, <3>8 DEF LeaveCursor
    <3> QED
      BY <1>3, <3>5, <3>6, <3>7, <3>8 DEF PumpCursorControl
  <2> QED
    BY <1>3, <2>1 DEF PumpCursorControl, TypeInv, TypeOK, ReadIsScene
<1> QED
  BY <1>1, <1>2, <1>3 DEF FrameStep

LEMMA ModTypes ==
  ASSUME TypeInv, ModStep
  PROVE  TypeInv'
<1>1. ASSUME NEW m \in Mod, OpenMenu(m) PROVE TypeInv'
  BY <1>1 DEF OpenMenu, TypeInv, TypeOK, ReadIsScene
<1>2. ASSUME NEW m \in Mod, CloseMenu(m) PROVE TypeInv'
  BY <1>2 DEF CloseMenu, Released, Wanted, TypeInv, TypeOK, ReadIsScene
<1>3. ASSUME NEW m \in Mod, UnregisterModule(m) PROVE TypeInv'
  BY <1>3 DEF UnregisterModule, Forget, Wanted, TypeInv, TypeOK, ReadIsScene
<1> QED
  BY <1>1, <1>2, <1>3 DEF ModStep

(* Every variable keeps its type, no mod has a negative number of leases, and no   *)
(* observer has news before the first scene was observed, on whichever thread.     *)
THEOREM SceneTypes == Spec => []TypeOK
<1>1. Init => TypeInv
  <2> SUFFICES ASSUME Init PROVE TypeInv
    OBVIOUS
  <2>1. cursor \in Looks /\ own \in Looks /\ saved \in Looks
    BY LooksAreFine DEF Init
  <2>2. callbacks \in Seq([kind : {"loaded", "changed"}, scene : Scene])
    BY DEF Init
  <2>3. faults \in 0 .. MaxFaults
    BY DEF Init
  <2> QED
    BY <2>1, <2>2, <2>3 DEF Init, TypeInv, TypeOK, ReadIsScene
<1>2. TypeInv /\ [Next]_vars => TypeInv'
  <2> SUFFICES ASSUME TypeInv, [Next]_vars PROVE TypeInv'
    OBVIOUS
  <2>1. CASE Next
    BY <2>1, GameTypes, HookTypes, WorkerTypes, FrameTypes, ModTypes DEF Next
  <2>2. CASE UNCHANGED vars
    BY <2>2 DEF vars, TypeInv, TypeOK, ReadIsScene
  <2> QED
    BY <2>1, <2>2
<1>3. TypeInv => TypeOK
  BY DEF TypeInv
<1> QED
  BY <1>1, <1>2, <1>3, PTL DEF Spec
=============================================================================
