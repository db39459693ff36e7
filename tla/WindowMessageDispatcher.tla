------------------------ MODULE WindowMessageDispatcher ------------------------
(* src/core/loader/window_message_dispatcher.cpp: mods' callbacks on the        *)
(* messages of the game's windows.                                             *)
(*                                                                             *)
(* A window with callbacks has the loader's procedure ("urk") somewhere in its *)
(* chain of window procedures.  A dispatch counts itself into every record it  *)
(* copies (active), puts them on its thread's g_dispatchStack, and calls them  *)
(* outside g_mutex; a callback may send messages, so dispatches nest.  The two *)
(* unregister functions take records off the list under g_mutex and then block *)
(* until no dispatch holds them, unless the caller itself is inside one.       *)
(*                                                                             *)
(* Lists are sets: the order of calls within a dispatch is left open (the code *)
(* goes from the latest registration back).  Message results are left out.     *)
EXTENDS Naturals, Sequences, FiniteSets

CONSTANTS Thread, Window, Callback, Module,
          Owner,         \* [Callback -> Module], ModuleForAddress
          WindowThread,  \* [Window -> Thread], the thread that owns the window
          Record,        \* CallbackRecord objects
          CallbackOf,    \* [Record -> Callback]: each callback has objects of its own
          NoRecord,
          MaxDepth,      \* bound: nested dispatches on one thread
          MaxForeign     \* bound: windows whose outermost procedure is foreign

ASSUME OwnerAssumption == Owner \in [Callback -> Module]
ASSUME WindowThreadAssumption == WindowThread \in [Window -> Thread]
ASSUME RecordAssumption == NoRecord \notin Record /\ CallbackOf \in [Record -> Callback]
ASSUME MaxDepthAssumption == MaxDepth \in Nat
ASSUME ThreadAssumption == IsFiniteSet(Thread \X (1 .. MaxDepth))

VARIABLES
    known,       \* the windows with an entry in g_windows
    installed,   \* WindowRecord::installed
    callbacks,   \* WindowRecord::callbacks
    chain,       \* the window's procedures, outermost first; <<>> once destroyed
    active,      \* CallbackRecord::active
    depth,       \* per thread, how many nested dispatches it is in
    frame,       \* the d-th dispatch of thread t, if d <= depth[t]
    waiting      \* per thread, the removed records it is blocked on

registry == <<known, installed, callbacks, chain>>
vars == <<registry, active, depth, frame, waiting>>

Proc == {"urk", "foreign", "game"}
Slot == Thread \X (1 .. MaxDepth)
Frame == [todo : SUBSET Record,                 \* copied and not called yet
          running : Record \cup {NoRecord},     \* being called
          held : SUBSET Record]                 \* what it pushed on g_dispatchStack
NoFrame == [todo |-> {}, running |-> NoRecord, held |-> {}]

TypeOK ==
    /\ known \in SUBSET Window
    /\ installed \in [Window -> BOOLEAN]
    /\ callbacks \in [Window -> SUBSET Record]
    /\ chain \in [Window -> Seq(Proc)]
    /\ active \in [Record -> Nat]
    /\ depth \in [Thread -> 0 .. MaxDepth]
    /\ frame \in [Slot -> Frame]
    /\ waiting \in [Thread -> SUBSET Record]

Listed == UNION {callbacks[w] : w \in Window}
OwnerOf(r) == Owner[CallbackOf[r]]
OnStack(t) == UNION {frame[<<t, d>>].held : d \in 1 .. MaxDepth}
Top(t) == <<t, depth[t]>>
Pending(f) == f.todo \cup ({f.running} \cap Record)
Blocked(t) == waiting[t] # {}
(* t runs code of the game or of a mod, so it can call into the dispatcher. *)
InUserCode(t) == ~Blocked(t) /\ (depth[t] > 0 => frame[Top(t)].running # NoRecord)
(* No list, dispatch or waiting caller owns r: its memory can be allocated. *)
Fresh(r) == r \notin Listed /\ \A t \in Thread : r \notin waiting[t] /\ r \notin OnStack(t)

Init ==
    /\ known = {}
    /\ installed = [w \in Window |-> FALSE]
    /\ callbacks = [w \in Window |-> {}]
    /\ chain = [w \in Window |-> <<"game">>]
    /\ active = [r \in Record |-> 0]
    /\ depth = [t \in Thread |-> 0]
    /\ frame = [s \in Slot |-> NoFrame]
    /\ waiting = [t \in Thread |-> {}]

-----------------------------------------------------------------------------
(* Mutant: the copy is taken without counting the dispatch in. *)
BeginDispatchUncounted(t, w) ==
    /\ WindowThread[w] = t /\ InUserCode(t) /\ depth[t] < MaxDepth
    /\ w \in known /\ "urk" \in {chain[w][i] : i \in DOMAIN chain[w]}
    /\ depth' = [depth EXCEPT ![t] = @ + 1]
    /\ frame' = [frame EXCEPT ![<<t, depth[t] + 1>>] =
                    [todo |-> callbacks[w], running |-> NoRecord, held |-> callbacks[w]]]
    /\ UNCHANGED <<registry, active, waiting>>

(* DispatchWindowMessage, the locked part: copy the list, count the dispatch in. *)
BeginDispatch(t, w) ==
    /\ WindowThread[w] = t /\ InUserCode(t) /\ depth[t] < MaxDepth
    /\ w \in known /\ "urk" \in {chain[w][i] : i \in DOMAIN chain[w]}
    /\ active' = [r \in Record |-> IF r \in callbacks[w] THEN active[r] + 1 ELSE active[r]]
    /\ depth' = [depth EXCEPT ![t] = @ + 1]
    /\ frame' = [frame EXCEPT ![<<t, depth[t] + 1>>] =
                    [todo |-> callbacks[w], running |-> NoRecord, held |-> callbacks[w]]]
    /\ UNCHANGED <<registry, waiting>>

BeginCall(t, r) ==
    /\ depth[t] > 0 /\ frame[Top(t)].running = NoRecord /\ r \in frame[Top(t)].todo
    /\ frame' = [frame EXCEPT ![Top(t)] =
                    [todo |-> @.todo \ {r}, running |-> r, held |-> @.held]]
    /\ UNCHANGED <<registry, active, depth, waiting>>

(* Mutant: a crashing callback skips the decrement. *)
EndCallLeaking(t) ==
    /\ depth[t] > 0 /\ frame[Top(t)].running # NoRecord /\ ~Blocked(t)
    /\ \E crashed \in BOOLEAN :
          active' = IF crashed THEN active ELSE [active EXCEPT ![frame[Top(t)].running] = @ - 1]
    /\ frame' = [frame EXCEPT ![Top(t)].running = NoRecord]
    /\ UNCHANGED <<registry, depth, waiting>>

(* The callback returns or its exception is caught; the last one out notifies. *)
EndCall(t) ==
    /\ depth[t] > 0 /\ frame[Top(t)].running # NoRecord /\ ~Blocked(t)
    /\ active' = [active EXCEPT ![frame[Top(t)].running] = @ - 1]
    /\ frame' = [frame EXCEPT ![Top(t)].running = NoRecord]
    /\ UNCHANGED <<registry, depth, waiting>>

EndDispatch(t) ==
    /\ depth[t] > 0 /\ frame[Top(t)].running = NoRecord /\ frame[Top(t)].todo = {}
    /\ frame' = [frame EXCEPT ![Top(t)] = NoFrame]
    /\ depth' = [depth EXCEPT ![t] = @ - 1]
    /\ UNCHANGED <<registry, active, waiting>>

-----------------------------------------------------------------------------
(* WindowMessage_Register by a thread in user code.  A duplicate, a dead window, *)
(* an unmapped owner or a failing SetWindowLongPtr changes nothing.             *)
Register(t, w, r) ==
    /\ InUserCode(t) /\ chain[w] # <<>>
    /\ \A q \in callbacks[w] : CallbackOf[q] # CallbackOf[r]
    /\ Fresh(r)
    /\ known' = known \cup {w}
    /\ installed' = [installed EXCEPT ![w] = TRUE]
    /\ chain' = IF w \in known /\ installed[w] THEN chain
                ELSE [chain EXCEPT ![w] = <<"urk">> \o @]
    /\ callbacks' = [callbacks EXCEPT ![w] = @ \cup {r}]
    /\ active' = [active EXCEPT ![r] = 0]
    /\ UNCHANGED <<depth, frame, waiting>>

(* Mutant: the window counts as restored even while a foreign procedure is outermost. *)
RestoreUnchecked(ws, left, failing) ==
    LET unused == {w \in ws \cap known : left[w] = {}}
        erased == {w \in unused : chain[w] = <<>>}
    IN  /\ callbacks' = left
        /\ known' = known \ erased
        /\ installed' = [w \in Window |-> installed[w] /\ w \notin unused \ failing]
        /\ chain' = [w \in Window |-> IF w \in unused \ failing /\ chain[w] # <<>> /\ chain[w][1] = "urk"
                                     THEN Tail(chain[w]) ELSE chain[w]]

(* RestoreIfUnused on the windows of ws once `left` are their lists: a window    *)
(* without callbacks gets its procedure back if the loader's is outermost (and  *)
(* SetWindowLongPtr does not fail, as it does for `failing`), and its entry is   *)
(* erased if the window is gone.                                                *)
RestoreIfUnused(ws, left, failing) ==
    LET unused   == {w \in ws \cap known : left[w] = {}}
        erased   == {w \in unused : chain[w] = <<>>}
        restored == {w \in unused \ failing : chain[w] # <<>> /\ chain[w][1] = "urk"}
    IN  /\ callbacks' = left
        /\ known' = known \ erased
        /\ installed' = [w \in Window |-> installed[w] /\ w \notin erased \cup restored]
        /\ chain' = [w \in Window |-> IF w \in restored THEN Tail(chain[w]) ELSE chain[w]]

(* Mutants: only the callback being called is looked at, not the whole dispatch  *)
(* stack; and the wait is forgotten.                                             *)
UnregisterOutsideCurrent(t, w, r, failing) ==
    /\ InUserCode(t) /\ r \in callbacks[w]
    /\ depth[t] > 0 => r # frame[Top(t)].running
    /\ RestoreIfUnused({w}, [callbacks EXCEPT ![w] = @ \ {r}], failing)
    /\ waiting' = [waiting EXCEPT ![t] = {r}]
    /\ UNCHANGED <<active, depth, frame>>

UnregisterWithoutWait(t, w, r, failing) ==
    /\ InUserCode(t) /\ r \in callbacks[w] /\ r \notin OnStack(t)
    /\ RestoreIfUnused({w}, [callbacks EXCEPT ![w] = @ \ {r}], failing)
    /\ UNCHANGED <<active, depth, frame, waiting>>

(* WindowMessage_Unregister up to WaitUntilIdle; refused to a caller inside r.   *)
Unregister(t, w, r, failing) ==
    /\ InUserCode(t) /\ r \in callbacks[w] /\ r \notin OnStack(t)
    /\ RestoreIfUnused({w}, [callbacks EXCEPT ![w] = @ \ {r}], failing)
    /\ waiting' = [waiting EXCEPT ![t] = {r}]
    /\ UNCHANGED <<active, depth, frame>>

(* WindowMessage_UnregisterModule up to its waits; -1 to a caller inside one of  *)
(* the module's listed callbacks.                                              *)
UnregisterModule(t, m, failing) ==
    /\ InUserCode(t)
    /\ \A r \in Listed : OwnerOf(r) = m => r \notin OnStack(t)
    /\ RestoreIfUnused(Window, [w \in Window |-> {r \in callbacks[w] : OwnerOf(r) # m}], failing)
    /\ waiting' = [waiting EXCEPT ![t] = {r \in Listed : OwnerOf(r) = m}]
    /\ UNCHANGED <<active, depth, frame>>

(* Mutant: the wait ends with the first record that is idle. *)
ReturnAtFirstIdle(t) ==
    /\ Blocked(t) /\ \E r \in waiting[t] : active[r] = 0
    /\ waiting' = [waiting EXCEPT ![t] = {}]
    /\ UNCHANGED <<registry, active, depth, frame>>

(* WaitUntilIdle is through with every removed record: the caller returns. *)
Return(t) ==
    /\ Blocked(t) /\ \A r \in waiting[t] : active[r] = 0
    /\ waiting' = [waiting EXCEPT ![t] = {}]
    /\ UNCHANGED <<registry, active, depth, frame>>

-----------------------------------------------------------------------------
(* The game: windows die and other code subclasses them, last in first out. *)
DestroyWindow(w) ==
    /\ chain[w] # <<>>
    /\ chain' = [chain EXCEPT ![w] = <<>>]
    /\ UNCHANGED <<known, installed, callbacks, active, depth, frame, waiting>>

Subclass(w) ==
    /\ chain[w] # <<>>
    /\ chain[w][1] # "foreign"
    /\ Cardinality({v \in Window : chain[v] # <<>> /\ chain[v][1] = "foreign"}) < MaxForeign
    /\ chain' = [chain EXCEPT ![w] = <<"foreign">> \o @]
    /\ UNCHANGED <<known, installed, callbacks, active, depth, frame, waiting>>

Unsubclass(w) ==
    /\ chain[w] # <<>> /\ chain[w][1] = "foreign"
    /\ chain' = [chain EXCEPT ![w] = Tail(@)]
    /\ UNCHANGED <<known, installed, callbacks, active, depth, frame, waiting>>

Game == \E w \in Window : DestroyWindow(w) \/ Subclass(w) \/ Unsubclass(w)

Dispatching(t) ==
    \/ \E w \in Window : BeginDispatch(t, w)
    \/ \E r \in Record : BeginCall(t, r)
    \/ EndCall(t) \/ EndDispatch(t)

Registering(t) ==
    \/ \E w \in Window, r \in Record : Register(t, w, r)
    \/ \E w \in Window, r \in Record, failing \in SUBSET Window : Unregister(t, w, r, failing)
    \/ \E m \in Module, failing \in SUBSET Window : UnregisterModule(t, m, failing)
    \/ Return(t)

Next == Game \/ \E t \in Thread : Dispatching(t) \/ Registering(t)

Spec == Init /\ [][Next]_vars

(* A dispatch goes on with what it has begun and its callbacks return, at every   *)
(* depth, whatever dispatches they nest; a caller whose wait is over wakes up.    *)
Onward(t, d) ==
    depth[t] = d /\ ((\E r \in Record : BeginCall(t, r)) \/ EndCall(t) \/ EndDispatch(t))

FairSpec ==
    /\ Spec
    /\ \A w \in Window : \A d \in 1 .. MaxDepth : SF_vars(Onward(WindowThread[w], d))
    /\ \A t \in Thread : WF_vars(Return(t))

-----------------------------------------------------------------------------
(* What mods rely on: once an unregister of a record has returned, no dispatch   *)
(* is inside its callback and none will still call it, on any thread and at any *)
(* nesting, although dispatches run outside g_mutex on copies of the list.      *)
Awaited == UNION {waiting[t] : t \in Thread}

NoCallAfterUnregister ==
    \A s \in Slot : Pending(frame[s]) \subseteq Listed \cup Awaited

(* CallbackRecord::active is the number of dispatches that still have to call or *)
(* leave the record; a decrement lost or doubled frees a waiter too late or too *)
(* early.                                                                       *)
Holders(r) == {s \in Slot : r \in Pending(frame[s])}

ActiveCountsDispatches == \A r \in Record : active[r] = Cardinality(Holders(r))

(* A caller never blocks on a record that its own dispatches hold: that wait     *)
(* could only be ended by the caller itself.                                     *)
NoSelfWait ==
    \A s \in Slot : waiting[s[1]] \cap Pending(frame[s]) = {}

(* The loader's procedure is at most once in a window's chain, and `installed`   *)
(* says when: installed twice, the copy further in would be called as the       *)
(* `original` of the outer one and the message would go round for ever.         *)
(* A procedure in the chain has its entry in g_windows, without which the        *)
(* dispatcher falls to DefWindowProc and the game loses its message.             *)
InChain(w) == {i \in DOMAIN chain[w] : chain[w][i] = "urk"}

DispatcherOnceInChain ==
    \A w \in Window :
        /\ Cardinality(InChain(w)) <= 1
        /\ InChain(w) # {} => w \in known
        /\ chain[w] # <<>> => (installed[w] <=> InChain(w) # {})
        /\ callbacks[w] # {} /\ chain[w] # <<>> => installed[w]

(* While no callback itself unregisters, every unregister returns, however the   *)
(* dispatches it waits for nest and whichever new ones begin.  (With callbacks   *)
(* that do, two window threads can wait for each other.)                         *)
UnregisterReturns ==
    [](\A t \in Thread : Blocked(t) => depth[t] = 0)
        => \A t \in Thread : Blocked(t) ~> ~Blocked(t)

(* The dispatcher keeps the promise of an abstract callback registry. *)
RegistryState == [r \in Record |-> IF r \in Listed THEN "in"
                                   ELSE IF r \in Awaited THEN "closing" ELSE "out"]

Registry == INSTANCE CallbackRegistry WITH Item <- Record, calls <- active,
                                           state <- RegistryState

RefinesRegistry == Registry!Spec
=============================================================================
