------------------------------ MODULE ModLifecycle ------------------------------
(* The life of a mod: src/core/loader/native_mod_loader.cpp loads the mods of a  *)
(* plan one after the other on the loader's thread, and src/core/mod_lifecycle.cpp *)
(* keeps the list of them, frees a mod whose initialization fails, and shuts all  *)
(* of them down when the game quits.  The game's main thread runs mods' callbacks *)
(* meanwhile: it drains the main-thread callbacks, dispatches scene events to the *)
(* listed mods, gets window messages and runs hooked functions.                  *)
(*                                                                             *)
(* This module composes the components that hold on to a mod.  Each of them is a *)
(* set of registrations here; how it runs and removes them is modelled in        *)
(* MainThreadDispatcher, WindowMessageDispatcher, HookChain and MidHooks.        *)
(* ModLifecycle_UnloadModule has no caller and is left out.                      *)
EXTENDS Naturals, Sequences, FiniteSets, SequencesExt

CONSTANTS Mod,
          Plan,     \* the mods in load order, NativeModLoadPlan
          Uses,     \* [Mod -> SUBSET Kind], what a mod may register
          NoMod

Kind == {"mainThread", "lease", "window", "hook"}

ASSUME PlanAssumption == Plan \in Seq(Mod) /\ IsInjective(Plan)
ASSUME UsesAssumption == Uses \in [Mod -> SUBSET Kind]
ASSUME NoModAssumption == NoMod \notin Mod

VARIABLES
    loaded,           \* g_loadedMods: module, and whether its functions are set
    shutdownStarted,  \* g_shutdownStarted
    mapped,           \* the mods that are mapped
    registered,       \* per mod, the kinds of registrations it has
    loader,           \* where the loader's thread is
    next,             \* the plan's entry it works on
    main,             \* what the main thread does
    todo,             \* the rest of the copy it works from
    inside,           \* the mod whose code it runs, or NoMod
    refused,          \* history: mods whose unload was refused and that have
                      \* registered nothing since
    late,             \* history: mods that registered something while being freed
    known,            \* history: `refused` when the main thread's copy was taken
    ended             \* history: the mods in the shutdown's copy that were all loaded

list == <<loaded, shutdownStarted>>
loading == <<loader, next>>
running == <<main, todo, inside, known, ended>>
past == <<refused, late>>
vars == <<list, mapped, registered, loading, running, past>>

LoadedNativeMod == [module : Mod, active : BOOLEAN]
Listed == {loaded[i].module : i \in DOMAIN loaded}

TypeOK ==
    /\ loaded \in Seq(LoadedNativeMod)
    /\ \A i, j \in DOMAIN loaded : loaded[i].module = loaded[j].module => i = j
    /\ shutdownStarted \in BOOLEAN
    /\ mapped \in SUBSET Mod
    /\ registered \in [Mod -> SUBSET Kind]
    /\ loader \in {"next", "mapped", "checked", "init", "events", "window", "wait", "hook",
                   "free", "forget"}
    /\ next \in 1 .. Len(Plan) + 1
    /\ main \in {"idle", "drain", "scene", "window", "hook", "quit", "shutdown", "release"}
    /\ todo \in Seq(LoadedNativeMod)
    /\ inside \in Mod \cup {NoMod}
    /\ refused \in SUBSET Mod /\ late \in SUBSET Mod /\ known \in SUBSET refused /\ ended \in SUBSET Mod

Init ==
    /\ loaded = <<>> /\ shutdownStarted = FALSE
    /\ mapped = {} /\ registered = [m \in Mod |-> {}]
    /\ loader = "next" /\ next = 1
    /\ main = "idle" /\ todo = <<>> /\ inside = NoMod
    /\ refused = {} /\ late = {} /\ known = {} /\ ended = {}

-----------------------------------------------------------------------------
(* The loader's thread *)
Loads(m, at) == next <= Len(Plan) /\ Plan[next] = m /\ loader = at

LoadLibrary(m) ==
    /\ Loads(m, "next")
    /\ mapped' = mapped \cup {m} /\ loader' = "mapped"
    /\ UNCHANGED <<list, registered, next, running, past>>

LoadLibraryFails(m) ==
    /\ Loads(m, "next")
    /\ next' = next + 1
    /\ UNCHANGED <<list, mapped, registered, loader, running, past>>

(* Mutant: RegisterLoadedNativeMod does not look at g_shutdownStarted. *)
CheckNothing(m) ==
    /\ Loads(m, "mapped")
    /\ loader' = "checked"
    /\ UNCHANGED <<list, mapped, registered, next, running, past>>

(* RegisterLoadedNativeMod looks at g_shutdownStarted before it takes the lock. *)
CheckShutdown(m) ==
    /\ Loads(m, "mapped")
    /\ loader' = IF shutdownStarted THEN "init" ELSE "checked"
    /\ UNCHANGED <<list, mapped, registered, next, running, past>>

RegisterLoadedNativeMod(m) ==
    /\ Loads(m, "checked")
    /\ loaded' = Append(loaded, [module |-> m, active |-> TRUE])
    /\ loader' = "init"
    /\ UNCHANGED <<shutdownStarted, mapped, registered, next, running, past>>

(* ModInitEx registers what it likes ... *)
ModRegisters(m, k) ==
    /\ Loads(m, "init") /\ k \in Uses[m] \ registered[m]
    /\ registered' = [registered EXCEPT ![m] = registered[m] \cup {k}]
    /\ UNCHANGED <<list, mapped, loading, running, past>>

(* Mutant: a mod is listed when it is initialized, without a look for the entry    *)
(* that it got when it was mapped.                                               *)
InitListing(m) ==
    /\ Loads(m, "init")
    /\ loaded' = Append(loaded, [module |-> m, active |-> TRUE])
    /\ next' = next + 1 /\ loader' = "next"
    /\ UNCHANGED <<shutdownStarted, mapped, registered, running, past>>

(* ... and returns. *)
InitSucceeds(m) ==
    /\ Loads(m, "init")
    /\ next' = next + 1 /\ loader' = "next"
    /\ UNCHANGED <<list, mapped, registered, running, past>>

Removes(m, k) == registered' = [registered EXCEPT ![m] = registered[m] \ {k}]

(* ModInitEx is missing, throws or reports failure: URK_FreeLibrary begins. *)
InitFails(m) ==
    /\ Loads(m, "init")
    /\ Removes(m, "mainThread") /\ loader' = "events"
    /\ UNCHANGED <<list, mapped, next, running, past>>

UnregisterRuntimeEvents(m) ==
    /\ Loads(m, "events")
    /\ Removes(m, "lease") /\ loader' = "window"
    /\ UNCHANGED <<list, mapped, next, running, past>>

(* WindowMessage_UnregisterModule removes the module's callbacks, and returns when *)
(* the main thread is out of them; never -1, for the loader runs no callback.     *)
UnregisterWindow(m) ==
    /\ Loads(m, "window")
    /\ Removes(m, "window") /\ loader' = "wait"
    /\ UNCHANGED <<list, mapped, next, running, past>>

(* Mutant: it does not wait. *)
WaitForNothing(m) ==
    /\ Loads(m, "wait")
    /\ loader' = "hook"
    /\ UNCHANGED <<list, mapped, registered, next, running, past>>

WaitForWindow(m) ==
    /\ Loads(m, "wait") /\ ~(main = "window" /\ inside = m)
    /\ loader' = "hook"
    /\ UNCHANGED <<list, mapped, registered, next, running, past>>

DetachHooks(m) ==
    /\ Loads(m, "hook")
    /\ Removes(m, "hook") /\ loader' = "free"
    /\ UNCHANGED <<list, mapped, next, running, past>>

(* Mutant: a refused unload leaves the mod as active as it was. *)
RefuseOnly(m) ==
    /\ loader \in {"hook", "free"} /\ Loads(m, loader)
    /\ loader = "hook" => "hook" \in registered[m]
    /\ refused' = refused \cup {m}
    /\ next' = next + 1 /\ loader' = "next"
    /\ UNCHANGED <<list, mapped, registered, running, late>>

(* HookManager_DetachModule reports -1, or FreeLibrary fails: the module stays    *)
(* mapped, and DeactivateLoadedNativeMod clears its functions.                    *)
Refuse(m) ==
    /\ loader \in {"hook", "free"} /\ Loads(m, loader)
    /\ loader = "hook" => "hook" \in registered[m]
    /\ loaded' = [i \in DOMAIN loaded |-> IF loaded[i].module = m
                                         THEN [loaded[i] EXCEPT !.active = FALSE] ELSE loaded[i]]
    /\ refused' = refused \cup {m}
    /\ next' = next + 1 /\ loader' = "next"
    /\ UNCHANGED <<shutdownStarted, mapped, registered, running, late>>

FreeLibrary(m) ==
    /\ Loads(m, "free")
    /\ mapped' = mapped \ {m} /\ loader' = "forget"
    /\ UNCHANGED <<list, registered, next, running, past>>

(* There is one entry of m at most. *)
UnregisterLoadedNativeMod(m) ==
    /\ Loads(m, "forget")
    /\ \/ m \notin Listed /\ loaded' = loaded
       \/ \E i \in DOMAIN loaded : loaded[i].module = m /\ loaded' = RemoveAt(loaded, i)
    /\ next' = next + 1 /\ loader' = "next"
    /\ UNCHANGED <<shutdownStarted, mapped, registered, running, past>>

-----------------------------------------------------------------------------
(* The main thread copies a list, and calls the entries that are active in the    *)
(* copy.  The pump and the scene events look at g_shutdownStarted first.          *)
Copies(what, copy) ==
    /\ main = "idle" /\ ~shutdownStarted /\ \E i \in DOMAIN copy : copy[i].active
    /\ main' = what /\ todo' = copy /\ known' = refused
    /\ UNCHANGED <<list, mapped, registered, loading, inside, past, ended>>

BeginDrain ==
    Copies("drain", [i \in DOMAIN Plan |->
                        [module |-> Plan[i], active |-> "mainThread" \in registered[Plan[i]]]])

DispatchScene == Copies("scene", loaded)

Called == IF todo[1].active THEN todo[1].module ELSE NoMod

Invoke ==
    /\ main \in {"drain", "scene"} /\ inside = NoMod /\ todo # <<>>
    /\ inside' = Called /\ todo' = Tail(todo)
    /\ UNCHANGED <<list, mapped, registered, loading, main, known, past, ended>>

(* Window messages and hooked functions come at any time, also after the quit. *)
Enter(k, m) ==
    /\ main = "idle" /\ k \in {"window", "hook"} /\ k \in registered[m]
    /\ main' = k /\ inside' = m
    /\ UNCHANGED <<list, mapped, registered, loading, todo, known, past, ended>>

(* A mod's own code, in a callback or in ModShutdown, may register too. *)
CallbackRegisters(k) ==
    /\ inside # NoMod /\ inside \in mapped /\ k \in Uses[inside] \ registered[inside]
    /\ registered' = [registered EXCEPT ![inside] = registered[inside] \cup {k}]
    /\ refused' = refused \ {inside} /\ known' = known \ {inside}
    /\ late' = IF loader # "init" /\ Loads(inside, loader) THEN late \cup {inside} ELSE late
    /\ UNCHANGED <<list, mapped, loading, main, todo, inside, ended>>

Return ==
    /\ main \in {"drain", "scene", "window", "hook"} /\ inside # NoMod
    /\ inside' = NoMod
    /\ main' = IF main \in {"window", "hook"} THEN "idle" ELSE main
    /\ UNCHANGED <<list, mapped, registered, loading, todo, known, past, ended>>

CopyIsDone ==
    /\ main \in {"drain", "scene", "shutdown"} /\ inside = NoMod /\ todo = <<>>
    /\ main' = "idle" /\ known' = {}
    /\ UNCHANGED <<list, mapped, registered, loading, todo, inside, past, ended>>

(* DispatchApplicationQuit and Loader_Shutdown *)
Quit ==
    /\ main = "idle" /\ ~shutdownStarted
    /\ shutdownStarted' = TRUE /\ main' = "quit"
    /\ UNCHANGED <<loaded, mapped, registered, loading, todo, inside, known, past, ended>>

(* Mutant: in load order. *)
SwapForward ==
    /\ main = "quit"
    /\ todo' = loaded /\ loaded' = <<>>
    /\ main' = "shutdown" /\ known' = refused
    /\ ended' = {m \in Listed : ~Loads(m, loader)}
    /\ UNCHANGED <<shutdownStarted, mapped, registered, loading, inside, past>>

Swap ==
    /\ main = "quit"
    /\ todo' = Reverse(loaded) /\ loaded' = <<>>
    /\ main' = "shutdown" /\ known' = refused
    /\ ended' = {m \in Listed : ~Loads(m, loader)}
    /\ UNCHANGED <<shutdownStarted, mapped, registered, loading, inside, past>>

(* ShutdownNativeMods calls ModShutdown where it is set ... *)
ModShutdown ==
    /\ main = "shutdown" /\ todo # <<>>
    /\ inside' = Called
    /\ main' = "release"
    /\ UNCHANGED <<list, mapped, registered, loading, todo, known, past, ended>>

(* ... and unregisters the module everywhere.  Hooks that cannot be detached stay.  *)
(* The four calls are one step: the thread that makes them is the one that would   *)
(* run the callbacks.                                                             *)
Release(hooksFail) ==
    /\ main = "release"
    /\ LET m == todo[1].module
       IN  registered' = [registered EXCEPT ![m] = IF hooksFail THEN registered[m] \cap {"hook"} ELSE {}]
    /\ todo' = Tail(todo) /\ inside' = NoMod
    /\ main' = "shutdown"
    /\ UNCHANGED <<list, mapped, loading, known, past, ended>>

Unload(m) ==
    \/ InitFails(m) \/ UnregisterRuntimeEvents(m) \/ UnregisterWindow(m) \/ WaitForWindow(m)
    \/ DetachHooks(m) \/ Refuse(m) \/ FreeLibrary(m) \/ UnregisterLoadedNativeMod(m)

Load(m) ==
    \/ LoadLibrary(m) \/ LoadLibraryFails(m) \/ CheckShutdown(m) \/ RegisterLoadedNativeMod(m)
    \/ \E k \in Kind : ModRegisters(m, k)
    \/ InitSucceeds(m)

Main ==
    \/ BeginDrain \/ DispatchScene \/ Invoke \/ Return
    \/ \E k \in Kind : CallbackRegisters(k) \/ \E m \in Mod : Enter(k, m)
    \/ CopyIsDone \/ Quit \/ Swap \/ ModShutdown
    \/ \E fails \in BOOLEAN : Release(fails)

Next == (\E m \in Mod : Load(m) \/ Unload(m)) \/ Main

Spec == Init /\ [][Next]_vars

-----------------------------------------------------------------------------
(* A freed mod is in no component's books: nothing it registered is left and no    *)
(* window callback of it runs, unless a callback of it registered again behind    *)
(* the back of URK_FreeLibrary; and the list has it for no longer than the one    *)
(* step that URK_FreeLibrary still has to do.                                    *)
FreedModIsForgotten ==
    \A m \in Mod \ mapped :
        /\ registered[m] # {} \/ (main = "window" /\ inside = m) => m \in late
        /\ m \in Listed => Loads(m, "forget")

(* A mod whose unload was refused stays mapped, but the loader is done with it: no *)
(* drain or scene event that begins afterwards calls it, and neither does the     *)
(* shutdown call its ModShutdown; unless a callback of it registered again.       *)
RefusedModIsQuiet ==
    main \in {"drain", "scene", "release"} => inside \notin known \ late

(* In a mod's ModShutdown every mod that had been loaded after it, and could use   *)
(* it, is shut down and unregistered, but for hooks that could not be detached.   *)
(* (A mod that the loader's thread was still busy with when the game quit may     *)
(* register whatever it likes behind the shutdown's back.)                       *)
LaterModsAreGone ==
    main = "release" /\ inside # NoMod =>
        \A i, j \in DOMAIN Plan :
            Plan[i] = inside /\ i < j /\ Plan[j] \in ended => registered[Plan[j]] \subseteq {"hook"}

(* The check of g_shutdownStarted is not atomic with the registration, so a mod    *)
(* may slip into the list behind the shutdown, which will never shut it down; but *)
(* no second one does.                                                           *)
ShutdownMissesAtMostOne ==
    shutdownStarted /\ main # "quit" => Len(loaded) <= 1
=============================================================================
