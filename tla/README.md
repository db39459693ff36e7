# URKit in TLA+

URKit is a mod loader for Unity (Mono, IL2CPP) and Unreal games on Windows. A proxy library
(`version.dll`, `winmm.dll`, ...) gets into the game's process and starts a loader thread; the loader
finds the game's runtime, loads the mods (`ModInitEx`), and from then on lets them run code on threads
of the game: on the main thread once per frame, in window procedures, in hooked functions, on scene
changes. Every bug that matters here has the same shape: *a thread of the game runs code of a mod, at a
moment when the loader believes it cannot*. The specifications are about that.

The modules model the code of `src/`; paths below are relative to it.

## 1. Inventory

| Component | State | Operations | Talks to |
|---|---|---|---|
| Main-thread dispatcher (`src/core/loader/main_thread_dispatcher.cpp`) | callback list with fault counts, "dispatch target available" | Register, Unregister, UnregisterModule, SetDispatchTargetAvailable, Drain | drained by the runtime-event pump; unregistered by the unloader |
| Window-message dispatcher (`window_message_dispatcher.cpp`) | per window: saved procedure, `installed`, callback records with `active` counts; per thread a stack of running records | Register, Unregister, UnregisterModule, DispatchWindowMessage | Windows' chain of window procedures; the unloader |
| Hook manager, inline hooks (`src/core/hook_manager.cpp`) | hook records by target, each with detour, trampoline and the mod's `original` slot | Attach (Detours, SafetyHook), Detach, DetachModule, rebuild and rollback of a chain | game threads running patched code; the unloader |
| Hook manager, mid hooks (same file, `safetyhook_backend.cpp`) | 128 slots: callback, user data, owner, generation | MidAttach, MidDetach, MidSetEnabled, DispatchMidHook, DetachModule | game threads; the unloader |
| Mod loading and lifecycle (`native_mod_loader.cpp`, `src/core/mod_lifecycle.cpp`) | `g_loadedMods`, `g_shutdownStarted` | NativeMods_Load, URK_LoadLibrary, URK_FreeLibrary, scene dispatch, Loader_Shutdown | every `..._UnregisterModule`; the loader's thread against the main thread |
| Development bridge (`dev/bridge/dev_bridge.cpp`, `mcp/server/bridge_client.cpp`) | pipe, request queue, promises, `stopping`, discovery record | ServerMain/ServeClient, Tick, Stop; the client's Transact | MCP server processes; main thread |
| Runtime events (`runtime_events.cpp`) | backend, capabilities, generation, current scene, cursor override and leases, activation workers | Configure, Pump, ObserveScene, Reset, StopWorkers, leases | the game's engine, main-thread dispatcher, hook manager, mod lifecycle |
| Loader startup (`dllmain.cpp`, `loader_lifecycle.cpp`, `loader.cpp`) | owner marker, lifecycle state, stop event, bootstrap thread | TryStart, RequestStop, ReleaseProcessResources, Loader_Run | the runtime backends |
| Project updater and ledgers (`src/sdk/project_updater.cpp`, `project_ledger.cpp`) | project tree, backup, journal, ledgers on disk | Inspect, Preview, ApplyUpdate with rollback, RecoverInterruptedUpdate | file system |
| Self-update (`src/app/self_update.cpp`) | `urk.exe`, `urk.exe.previous` | stage, replace by two renames, restart | file system |
| MCP server (`mcp/server`) | sessions, four workers, cancellations, child processes | Run loop, tools/call, cancellation, RunProcess | bridge client, URKit command line |
| Mod API tables, runtime backends, engine adapters, Unreal reflection, generators, templates, CLI/GUI, network, logging, proxies, intro, installer | little or none of their own | | |

### What is hard, and what makes each part correct

* **Main-thread dispatcher.** A drain works on a copy of the list, outside the mutex, and records each
  call's outcome afterwards *by address*. Correct when no callback is starved, and when one loses its
  registration only for a streak of its own crashes.
* **Window messages.** Dispatches on several threads, nested to any depth, overlap with registrations and
  unloads; windows die and are subclassed by others. Correct when an unregister that returned is final, no
  caller waits for itself, and the dispatcher is in a window's chain at most once.
* **Inline hooks.** Detours of several mods on one function call each other through slots that are
  rewritten when one of them leaves; each stage may fail, and so may the rollback. Correct when patches,
  slots and table agree after any failure, when threads that are inside a detour still reach the game's
  function, and when a detached module is unreachable.
* **Mid hooks.** The pool is recycled under threads that nothing waits for. Correct when no slot is lost, a
  live stub always finds its own callback, and detached modules are out of reach.
* **Mod lifecycle.** The loader's thread loads and frees mods while the main thread dispatches, and the
  quit may come at any moment. Correct when a freed mod is in nobody's books, a refused one is quiet, and
  shutdown goes backwards and misses as little as it can.
* **Bridge.** A timeout races the main thread; `Stop` races the server thread. Correct when every request
  is answered once and truthfully, and none is taken up after its timeout was reported.
* **Runtime events.** Three observers see the same scene changes, each in its own order; menus of several
  mods share one saved cursor, and the engine's calls fail half-way. Correct when the mods end up with the
  active scene and the game gets its own cursor back.
* **Updater.** Every file operation may fail, the process may die, the user edits, a second `urk` runs.
  Correct when an update is all or nothing, no edit is lost, and recovery ends.
* **MCP server.** Cancellation races the start of the call, of its child processes and of its answer. Correct
  when a call is answered once or was cancelled, a cancelled CMake is terminated, slots come back, and the
  server ends when its input does.
* **Startup and self-update.** The loader's library pins itself, so its detach handler runs only when the
  process ends and its other threads are gone; nothing interleaves. The self-update is a download, a hash and
  two renames; a crash between the renames leaves `urk.exe.previous`, for which nothing in the code looks.
  Neither has a module.

## 2. Modules

```
CallbackRegistry  <--implements--  WindowMessageDispatcher -- WindowMessageProofs
UpdatePlan  <--extends--  AtomicUpdate  <--implements--  ProjectUpdate -- ProjectUpdateProofs
ToolCalls  <--implements--  McpServer -- McpServerProofs

MainThreadDispatcher --\
                        MainThreadProofs          HookChain -- HookChainProofs
DevBridge -------------/                          MidHooks -- MidHooksProofs
RuntimeEvents -- RuntimeEventsProofs

ModLifecycle -- ModLifecycleProofs    (main-thread list, leases, window messages and hooks as sets of
                                       registrations)
```

Each `MC*.tla` gives a module's constants their values; each `MC*.cfg` is one run of it.

**MainThreadDispatcher.** `callbacks`, `faults` and `available` are the globals under `g_mainThreadMutex`;
`todo` is the drain's copy, `running`/`returned` where the drain is. `BeginDrain`, `Invoke`, `Return`,
`RecordResult` are `MainThread_Drain`; between any two of them every other operation may happen. The order of
the list is left open: a drain calls the entries of its copy in any order, and no property depends on it.
Its `MTInit`, `MTNext`, `MTSpec` and `MTTypeOK` have a prefix because `MainThreadProofs` extends it together
with DevBridge, whose `Tick` is a callback of this list.
`FreeModule` is the `FreeLibrary` of `URK_FreeLibrary`. `streak` is a history variable: the faults a callback
really had in a row, which the code does not know.

**WindowMessageDispatcher.** `callbacks` holds records (a registration makes a fresh one), `active` their
counters, `frame[t, d]` the d-th nested `DispatchWindowMessage` of thread t, `waiting[t]` what it blocks on
in `WaitUntilIdle`. `chain[w]` is Windows' list of procedures: `RestoreIfUnused` takes the loader's out only
when it is outermost and the call does not fail; `Subclass`, `Unsubclass` and `DestroyWindow` are the rest
of the process.

**CallbackRegistry.** The abstract promise: calls begin only on items that are in, and taking an item out
returns when no call is left. `WindowMessageDispatcher!RefinesRegistry` maps a record that is listed to
"in", one that is waited for to "closing", any other to "out".

**HookChain.** `chains`/`backend` are `g_hooks` by target; `patch` and `slot` are memory that game threads
run through: `patch[a]` where the entry of a function or detour jumps, `slot[d]` the mod's `original`
pointer (code, a trampoline, or a freed trampoline). `step` is how far the holder of `g_hook_mutex` is in
Attach, Detach, DetachModule or RebuildTargetWithout; every step that can fail has its failing twin, down to
the failing rollback that disables all hooks of the target. A Detours transaction suspends the game's
threads while it commits, so it is one step; SafetyHook works hook by hook. Threads call hooked functions
(`Call`) and detours call on (`CallOriginal`) at any time. Two definitions are recursive functions over
numbers, so that they can be proved about: `Without` (the chain a rebuild aims at) and `Followed` (where a
thread that reads slot after slot ends).

**MidHooks.** `slots` is `g_mid_slots`. `Claim`, `Publish`, `Patch`/`PatchFails` are `MidAttach`; `Silence`,
`Unpatch`, `Clear` are `ReleaseMidSlot`; `Enter`, `LoadCallback`, `Call`, `Leave` a thread in a thunk.

**ModLifecycle.** Composes the above: each component is a set of registrations, removed in the order of
`URK_FreeLibrary` (main thread, runtime events, window messages with their wait, hooks), and each may refuse
where the code can. `loader`/`next` is `NativeMods_Load` on the loader's thread; `main`/`todo`/`inside` is
the main thread in a drain, a scene dispatch, a window message, a hook, or `Loader_Shutdown`. Drain, scene
dispatch and shutdown all work from a copy of a list, in `todo`; an entry that is not active in the copy is
passed over and not called. `known` and `ended` remember what was refused, and what was loaded, when the copy
was made; `known` is emptied when the copy is done.

**DevBridge.** `server` is where `ServerMain`/`ServeClient` is, with the blocking calls split into the test
before them and the call itself, because `Stop` reaches the server only inside the call; `host` is the main
thread in Tick or Stop, and Tick's look at a request's mark (`LookAtMark`) and the start of its test (`RunTest`)
are two steps, because the server may set the mark in between. Clients are `BridgeClient::Transact`, which send
one request, of which any may not parse, and may be killed.

**RuntimeEvents.** `active` is the game's scene, `observed` is `g_currentScene`; `pending[o]` is the scene
that observer o (the pump, a hook's detour, the activation worker) has recorded under the mutex and is about
to tell the mods, outside it. The steps of a frame are `BeginFrame`, `TellFromPump`, `PumpCursorControl`; a mod
told from a hook may start a pump of its own by opening a menu. `leases` and `desired` are written by mods on
any thread, `override` and `saved` by the pump, `cursor` by the pump and by the game. `own` remembers the
cursor as the game set it while it had it.

**UpdatePlan, AtomicUpdate, ProjectUpdate.** UpdatePlan is `BuildPlan`: from a project's files, its
ledgers and the candidate it says what is replaced, kept, created or in conflict. AtomicUpdate is the
promise: a project only ever changes by a user's edit or by one whole plan. ProjectUpdate is the code: each
process's `pc` is the file operation it is about to do, from the lock file through backup, journal,
installation, ledgers and verification to the removal of the journal, or through the rollback; `rest` are the
entries it has still to write or restore, of which `IsNext` takes the first; `Crash` may
follow any of them, and the next check recovers. The refinement maps the project to what the next check will
make of it: the backup while the journal names one, the files on disk otherwise.

**ToolCalls, McpServer.** `stage[c]` is where the thread of call c is, `reader` the reading thread, `child`
the CMake process that a build holds, `published` whether its handle is known to the cancellation, and `orphans`
the CMake processes that were left running, with no handle held, by a wait that failed (`WaitFails`, `Forgets`). ToolCalls is
what the client may rely on: a call that was read is answered once, unless it was cancelled or the input
ended.

Every definition that models code is listed with its lines in `PROJECT.json` under `map`. A definition
commented *Mutant* belongs to no behaviour: it is a wrong variant of the definition after it, kept to show
that a property fails when the code is changed that way.

## 3. Runs

Runs that pass:

| Run | Question | Bounds | States |
|---|---|---|---|
| `main_thread` | Who is called in the end, and for what is a callback dropped? | 2 callbacks of 2 modules, limit of 3 faults | 27 k |
| `window_messages` | Is an unregister that returned final, does it return, does nobody wait for itself, is the chain sound, is the registry implemented? | 2 threads with a window each, 2 callbacks of one module with a record each, nesting 2 deep, 1 foreign subclass | 68 k |
| `dev_bridge` | Is each request answered once, truthfully, and not taken up after its timeout was reported? | 3 clients, queue 2, batch 2 | 227 k |
| `mid_hooks` | Pool, stubs and detach against a running thread | 2 slots, 2 mods, 3 attachments, 1 thread | 188 k |
| `hook_chain` | Chain, slots and detach under every failure | 4 detours of 2 mods on 2 functions, both backends, 1 thread | 59 k |
| `mod_lifecycle` | What do freed, refused and shut-down mods leave behind? | 3 mods, one of which uses everything | 605 k |
| `project_update` | Is an update atomic, are edits kept, does recovery end? | an added generated file, a replaced one, a template and the ledgers, 2 updaters, 1 edit, 1 fault or crash | 373 k |
| `mcp_server` | Is each call answered once or cancelled, and does everything it took come back? | a build, a deployment, a tool with an unprintable result, 2 workers | 263 k |
| `runtime_events` | Do the mods end with the active scene and the game with its cursor? | 2 scenes, 2 mods, 2 cursors, 2 leases, 1 failing call | 190 k |

Why the bounds are enough. The counters of the code are replaced by the smallest value that still has an
inside and an edge: three faults (below, at, reset before the limit), a queue of two (empty, neither, full: two
requests that expired while queued fill it for the third client), a batch of two (both of them popped at once), two slots (free, full, recycled), two workers for three calls (one
free, none free), nesting of two (an inner and an outer dispatch; the proofs have no bound here).
Interactions are between two parties each time: two modules, so that one can be confused with the other; two
records of one module, so that `UnregisterModule` waits for several; three detours on one function, so that a
removed one has a neighbour on both sides, and a second function, so that DetachModule can fail half-way;
three mods, so that one is loading while shutdown is between two others; two updaters, so that a check runs
beside an update; two leases, so that they are one mod's or two mods'. One game thread is enough for hooks,
because threads there only read and never see each other. `MaxAttach`, `MaxForeign`, `MaxLeases`, `MaxEdits`
and `MaxFaults` only make the graphs finite: they bound how often a slot is attached, how many procedures lie
on top of the loader's, how many menus are open, how often the user edits, and how many operations fail or
processes die. One failure may strike anywhere, in the update or in its rollback; two failures in one
behaviour (a crash in the recovery from a crash) are not explored. A file that the new SDK no longer generates
differs from a replaced one only in what is written, and is left out of the instance.

Deadlock is checked except where the system may really stop: two window threads may wait for each other
(`window_messages`; see section 6), all clients of the bridge are served and the bridge has stopped, all
mods are loaded and the game has quit, the MCP server has exited.

Runs that end in a counterexample: statements of the documents that the code does not keep. The table gives
the shortest story of each; `PROJECT.json` quotes the lines.

| Run | Statement | What happens |
|---|---|---|
| `hook_chain_running` | "each detour calls the trampoline it was handed" (SDK_HANDBOOK.md) | SafetyHook patches the function before `*original` is stored; a thread runs the detour in between. |
| `dev_bridge_stop` | "The bridge discovery record is removed during ModShutdown" (DEV_MCP.md) | The server tests `stopping`, `Stop` cancels its I/O and connects, the server then creates a new pipe instance and waits for ever; `join` never returns. |
| `project_update_journal` | "If the process dies halfway, the next check restores the backup before doing anything else." (SDK_HANDBOOK.md) | `WriteJournal` creates the journal empty and the process dies, or the disk is full, before its `backup=` line is written: every later check and update refuses the project, of which nothing has been changed. |

Three more disagreements show in the models and have no run of their own. "Callbacks are removed before a mod
module is freed" (ARCHITECTURE.md): a drain's copy may call into a module that was freed after the copy was
made, and `URK_FreeLibrary` takes the mod out of `g_loadedMods`, with its scene callbacks, only after
`::FreeLibrary`. "So no thread reaches a detached mod" (comment in `ReleaseMidSlot`): a thread that has
loaded the callback before the slot was silenced calls it after the detach has returned. "MCP cancellation
terminates an active CMake child process" (DEV_MCP.md): not one that an earlier step of the same build was
made to forget by a failed wait. The properties
below are the strongest forms that hold beside these.

## 4. Properties

Besides one type invariant per module:

* `DroppedOnlyAfterStreak`: a callback is dropped only after three real faults in a row, even though results
  are charged by address across unregistration and re-registration. `EveryCallbackRuns`: it is called again
  and again while it is registered and the target is available.
* `NoCallAfterUnregister`, `NoSelfWait`, `UnregisterReturns`, `DispatcherOnceInChain`, `RefinesRegistry`: see
  the window-message part of section 1.
* `AnswersAreTrue`, `ExpiredIsNotTaken`, `EveryRequestAnswered`: at most one answer per request, and it
  says what happened to the request, although the 15 s may end while the main thread is taking it. The second
  leaves out the one request that the main thread had in hand by then, with its mark looked at and found
  unset: its test starts, or runs on, although its client was told of the timeout.
* `StubFindsItsCallback`, `PoolIsTheHooks`, `DetachedModuleIsOut` (mid hooks). The last is the strongest form
  that holds: a thread that *enters a stub* after the detach does not get into the module, whatever is
  recycled on its way.
* `CallRunsTheChain`, `OriginalIsReached`, `DetachedModuleIsOut` (inline hooks): between operations a call
  runs exactly the recorded hooks, newest first; with Detours a detour reaches the original even in the
  middle of a rebuild or rollback.
* `FreedModIsForgotten`, `RefusedModIsQuiet`, `LaterModsAreGone`, `ShutdownMissesAtMostOne`. Their
  exceptions (`late`: a callback registered again while its mod was being freed) are states the code really
  reaches; without the exception TLC refutes them.
* `RefinesAtomicUpdate`, `EditsAreKept`, `OnlyEditsConflict`, `RecoveryCompletes`. The exception `guessed` of
  the third is real too: a check that ran beside another update may have planned from files which that
  update rolled back, and the verification before the backup covers the planned files only.
* `SlotsAreCalls`, `CancelledChildIsKilled`, `RefinesToolCalls`, `ServerExits`: whatever a call is doing when
  it is cancelled or the input ends, the slot comes back, the process it holds is terminated and not left behind
  (its creation, the cancellation and a wait that fails do not miss each other), and the server's joins return.
* `CursorGoesBack`, `CursorIsGivenBack`, `ActiveSceneIsTold`. The first holds while no call of the engine has
  failed: a re-apply that fails makes the loader save the menu's own cursor at the next frame. The exception
  `overlapped` of the last: two observers that tell the mods at once (the worker on its own thread, or a pump
  that a hook's callback starts) may do so in the wrong order, and the wrong scene stays until the next change.

### Fairness

* `MainThreadDispatcher!MTFairSpec`: weak fairness of beginning a drain and of its steps. The pump is called
  from the engine's per-frame callback, and a mod's callback is assumed to return.
* `WindowMessageDispatcher!FairSpec`: each dispatch goes on at its depth, strongly fair because a nested
  dispatch disables the outer one again and again; a caller whose wait is over wakes up
  (`notify_all` after the last decrement). `UnregisterReturns` is stated for behaviours in which callbacks
  do not unregister, because otherwise it is false.
* `DevBridge!ServedSpec`: the server thread runs and its 15 s pass; a client sends what it connected for and
  leaves when answered. *Nothing* is asked of the main thread: `EveryRequestAnswered` holds with a frozen
  game. `FairSpec` adds that a Tick or Stop that has begun goes on; `RecordRemoved` fails even so.
* `RuntimeEvents!FairSpec`: threads run on and a frame that has begun ends; there is always another frame,
  and a callback told from a hook pumps only so often before it returns (both strongly fair, because each
  disables the other for a while). Nothing is asked of the mods or of the game.
* `ProjectUpdate!FairSpec`: a process that runs goes on, and the user checks the project again and again.
  Whether a plan is ever applied is left to the user; a crash is a fault and never fair.
* `McpServer!FairSpec`: threads run, and so does the closing sequence. Nothing is asked of the client, nor of
  CMake, which may run for ever, and no wait is made to fail. ToolCalls asks that an open call is settled, and McpServer implements that.

HookChain, MidHooks and ModLifecycle state safety only and need no fairness.

## 5. Theorems

Every invariant that a passing run checks, every type invariant among them, is proved for all values of the
constants, and so are the refinements `RefinesRegistry` and `RefinesAtomicUpdate` and the safety half of
`RefinesToolCalls`. What is assumed are the named assumptions of the modules: the types of the constants, that
`NoModule` and its like are none of the values they stand beside, positive limits, a finite set of dispatch
slots (they are counted), and for hooks finitely many functions and detours, at different addresses. Hardly
any of the properties is inductive by itself; what each proof module's `IInv` (`MTInv` for the list) adds to make
them so says the most about the code.

**WindowMessageProofs**: `TypeOK`, `NoCallAfterUnregister`, `ActiveCountsDispatches` (the unsigned counter of a
record is the number of dispatches that hold it, which no run states), `NoSelfWait`, `DispatcherOnceInChain` and
`Spec => RefinesRegistry`. That `Return` may drop a record from `waiting` rests on `active = 0` meaning that no
frame has it, which is `ActiveCountsDispatches`; that a removal does not wait for itself rests on frames'
pending records being on the dispatch stack. So `IInv` adds `FrameOK` (frames above the depth are empty, the
running record is not also to be called, pending records are held). `CountChange` is the lemma about the
cardinality of the holders of a record when one frame changes. The refinement adds `OnePlace`: a record is in at
most one window's list, waited for by at most one thread, and never both, so that the three abstract states
exclude each other and each step maps to one abstract step or to none.

**MainThreadProofs**, the list: `MTTypeOK` and `DroppedOnlyAfterStreak`. The latter speaks of steps and says
nothing of counts; its invariant is `FaultsWithinStreak`: a fault that was caught is in the callback's streak
before it is in its entry's count, and the count never exceeds the streak, with the one not yet recorded added.

**MainThreadProofs**, the bridge: `TypeOK`, `AnswersAreTrue` and `ExpiredIsNotTaken`. `QueueFits` says that a
request is in one place at a time: queue and batch have no duplicates and nothing in common, and the promises of
all they hold are open, which is why nothing is settled twice. `RequestFits` relates what one promise was given,
what its client was told and whether its test ran; `ServerFits` says that the request being served is marked
only after the server has given up on it, so that "cancelled" reaches nobody and "timeout" implies the mark that
the main thread looks at before it takes a request in hand.

**MidHooksProofs**: `TypeOK`, `StubFindsItsCallback`, `PoolIsTheHooks` and `DetachedModuleIsOut`. An operation
under the lock is many steps: `StepFits` says for each step what the lock's holder has already done
(`AttachFits`, `ReleaseFits`), `StubsFit` and `SlotsFit` tie the stubs to slots of their own, `ModulesFit` says
that a detached module owns no slot, and `ThreadsFit` follows a thread from the stub it was led into to the
callback it read, past a release and a reuse of the slot.

**HookChainProofs**: `TypeOK`, `CallRunsTheChain`, `OriginalIsReached` and `DetachedModuleIsOut`, for chains of
any length and any sequence of failures. A target on which nobody works is `Settled` (its hooks are patched into
each other, and each slot continues into what its hook patches); one that is being rebuilt is at least `Near`
(a slot leads to the function or to a hook of its chain). `StepFits` says step by step how far the rebuild is:
which hooks of which list are patched, which slots are stored, and which of the three attempts it is. `Away` and
`Leaving` say where hooks of a detached module, and of one that is being detached, may still be; `ThreadsFit`
that a thread which called after the detach is outside. That the originals lead to the function (`FollowedEnds`)
is an argument about length: every slot leads from a hook to an older one or to the function, so that a path
which never ended would visit more hooks than there are. What the recursive `Without` and `Followed` compute is
shown without induction over formulas: the first number for which a statement fails is looked at (`Smallest`,
`CountingUp`, from the well-foundedness of `<`), and a function defined by `kept[n - 1]` is the one that fits.

**ModLifecycleProofs**: `TypeOK`, `FreedModIsForgotten`, `RefusedModIsQuiet`, `LaterModsAreGone`,
`ShutdownMissesAtMostOne`. `IInv` ties the two threads together mod by mod: what `URK_FreeLibrary` has removed
when the loader is at a step of it (`UnloadFits`), that a mod it has not begun with is in nobody's books
(`UntouchedFits`), that no active entry of a copy is of a mod refused before it was made (`CopyFits`), and what
the shutdown still has to do with a mod it found (`EndedFits`). `LaterModsAreGone` needs that the list is in the
order of the plan whatever was taken out of its middle, and the copy in the reverse order (`ListFits`,
`MainFits`). `ShutdownMissesAtMostOne` needs, beside the bound itself, that a loader which has seen
`g_shutdownStarted` unset and not registered yet finds the list empty.

**ProjectUpdateProofs**: `TypeOK`, `EditsAreKept`, `OnlyEditsConflict` and `Spec => RefinesAtomicUpdate`. The
invariant follows the lock's holder: what is in the backup, and that the journal names it before the first write
(`BackupFits`, `BacksUp`), which entries have already been written or restored (`Installs`, `Restores`), each up
to an edit that the user made since. So the project that the next check would restore changes, but for the user's
edits, only when the journal disappears, and then by the whole plan: `FinishStep` is the lemma for that one step, `QuietStep` the one
for all others. `Tidy` (a file that nobody edited is absent, up to date, or what its ledger says) is about that
same project and not about the disk, which in the middle of an update is neither.

**McpServerProofs**: `TypeOK`, `SlotsAreCalls`, `CancelledChildIsKilled`, and as `AnswersAreOnce` that every
behaviour keeps to ToolCalls' initial states and steps. The first two need `SlotsFit` (the occupied slots are
finitely many and counted, so that each step changes the cardinality by one), the third `ChildrenFit`: a running
child belongs to a thread that has created it and, if that thread waits for it or has failed to, its handle is
published, so that `Cancel` finds it; if it is not, the thread sees the cancellation when it publishes. That a
cancelled call leaves no process behind is `OrphansAreUncancelled`, about the one step that forgets a handle. The refinement adds
`CallsFit`: a call whose thread has not come to the answer has none, and one that is about to give it is marked
as responding, so that a cancellation which comes now changes nothing.

**RuntimeEventsProofs**: `TypeOK` and `CursorGoesBack`. Its invariant is `OwnIsKept`: the cursor as the game set
it is in the engine, or in `g_savedCursorState` while the loader holds it; without the second half, what is given
back could be anything.

Only model-checked: all liveness (`EveryCallbackRuns`, `UnregisterReturns`, `EveryRequestAnswered`,
`RecoveryCompletes`, `ServerExits`, `CursorIsGivenBack`, `ActiveSceneIsTold`, and the half of `RefinesToolCalls`
that says every open call is settled), because the prover has no rules for fairness and ENABLED; and the three
runs that end in a counterexample, which one behaviour settles.

## 6. What is left out, and why

* Data: messages' contents and results, test names, addresses, paths, log texts, JSON.
* `MainThreadDispatcher`: the order of the list.
* `WindowMessageDispatcher`: an HWND that is reused for a new window while the old record exists; the order
  of calls within a dispatch (sets instead of lists). Two window threads whose callbacks unregister each
  other's callbacks do deadlock in the code and in the model; nothing documents the contrary, so it is
  recorded as a hazard and excluded from `UnregisterReturns`.
* `HookChain`: one detour or slot used for two functions; a thread stopped between reading a slot and
  jumping; errors of a Detours transaction by stage (any stage's failure is the transaction's).
* `ModLifecycle`: `ModLifecycle_UnloadModule`, which has no caller; libraries that are not mods; the scene
  changed and object destroy events, which use the same snapshot loop as scene loaded.
* `DevBridge`: a second Start after Stop; partial lines; a client that never reads its answer, which would
  hold up the queue's mutex. A fact that the model keeps: "runtime_timeout" does not mean that the test will not
  run, because Tick looks at a request's mark once and starts it after that.
* `RuntimeEvents`: external (Unreal) engines with their own cursor and scene observer, mouse capture, input,
  scene reads that fail, `Reset` (called once, before there is anything to reset), and the game's shutdown,
  which ends the pump and leaves the cursor as it is. Facts of the code that the model keeps and no property
  denies: a cursor that the game sets while a menu is open is lost; an additively loaded scene is announced
  as a change and put right by the next poll; a first scene whose predecessor cannot be read is stored and
  not announced; when `activeSceneChanged` comes before `sceneLoaded` the second is taken for a duplicate.
* `ProjectUpdate`: the contents of ledgers and manifests. Facts that the model keeps: an edit made between the
  backup and the installation of its file is overwritten; a journal that cannot be removed is only a warning,
  so the next check undoes an update that was reported as done.
* `McpServer`: the two protocol eras are one handshake, and a second handshake is left out, as are request
  ids used twice; only CMake itself is terminated, not the processes it started, and that `TerminateProcess`
  works is assumed; that a tool which asks the bridge returns rests on `DevBridge!EveryRequestAnswered`. Facts that the model keeps: when the wait for CMake
  fails, RunProcess neither terminates it nor tells Build, which returns or, if the exit code cannot be read,
  goes on as if CMake had succeeded; the process runs on with the project's mutex free, and a cancellation that
  comes then does not reach it; a deployment cannot be cancelled half-way; a result that is not UTF-8 makes
  `dump` throw on the worker's thread and ends the process; a client may be told `server_busy` right after an answer, because the slot is given back after it
  was written.
* Parts without a module are listed with their reason in `PROJECT.json`: they are sequential (startup,
  self-update, command line and window), forward to the components above (API tables, bridge entry), read and
  write an engine's memory, where the data is the difficulty and not the control (reflection, adapters), or
  generate text.

## 7. Plan

1. Models: the subscription tables of the Unreal hooks and the game loop against unloads, which have the
   shape of `MainThreadDispatcher` with other owners; the cursor guard with its hooks of user32 beside
   `RuntimeEvents`' leases.
2. Theorems: the invariants of those; that the scenes a mod is told are scenes the game had (`RuntimeEvents`);
   that `MidHooks` and `HookChain`, each on its own terms, keep what `ModLifecycle` takes from them as
   `DetachHooks`.
