--------------------------- MODULE ModLifecycleProofs ---------------------------
(* Theorems about the life of a mod, for any plan of mods and whatever each of     *)
(* them registers.                                                               *)
EXTENDS ModLifecycle, SequenceTheorems, TLAPS

(* Where the loader is with a mod: it works on it, is done with it, or has begun.  *)
Current(m) == next <= Len(Plan) /\ Plan[next] = m
Behind(m) == \E i \in DOMAIN Plan : i < next /\ Plan[i] = m
Started(m) == Behind(m) \/ (Current(m) /\ loader # "next")
Before(m, n) == \E i, j \in DOMAIN Plan : i < j /\ Plan[i] = m /\ Plan[j] = n

(* A mod that the loader has not begun with is in nobody's books. *)
UntouchedFits(m) ==
    ~Started(m) =>
        /\ m \notin mapped /\ m \notin Listed /\ m \notin refused /\ m \notin late /\ m \notin ended
        /\ registered[m] = {} /\ inside # m
        /\ \A i \in DOMAIN todo : todo[i].active => todo[i].module # m

(* The mod that the loader works on is mapped until it is freed, and gets its entry *)
(* between the look at g_shutdownStarted and ModInitEx.                           *)
CurrentFits(m) ==
    Current(m) =>
        /\ loader \notin {"next", "forget"} => m \in mapped
        /\ loader \in {"mapped", "checked"} => m \notin Listed

(* What URK_FreeLibrary has removed of a mod when the loader is at a step of it. *)
Removed(at) ==
    (IF at \in {"events", "window", "wait", "hook", "free", "forget"} THEN {"mainThread"} ELSE {})
    \cup (IF at \in {"window", "wait", "hook", "free", "forget"} THEN {"lease"} ELSE {})
    \cup (IF at \in {"wait", "hook", "free", "forget"} THEN {"window"} ELSE {})
    \cup (IF at \in {"free", "forget"} THEN {"hook"} ELSE {})

InWindow(m) == main = "window" /\ inside = m

UnloadFits(m) ==
    Current(m) /\ m \notin late =>
        /\ registered[m] \cap Removed(loader) = {}
        /\ loader \in {"hook", "free", "forget"} => ~InWindow(m)

FreedFits(m) ==
    m \notin mapped =>
        /\ m \notin late => registered[m] = {} /\ ~InWindow(m)
        /\ m \in Listed => Loads(m, "forget")

RefusedFits(m) ==
    m \in refused =>
        /\ Behind(m)
        /\ m \notin late => /\ registered[m] \subseteq {"hook"}
                            /\ \A i \in DOMAIN loaded : loaded[i].module = m => ~loaded[i].active

(* The main thread's copy has no active entry of a mod whose unload was refused    *)
(* before it was made.                                                           *)
CopyFits(m) ==
    m \in known \ late =>
        /\ main \in {"drain", "scene", "release"} => inside # m
        /\ main \in {"drain", "scene", "shutdown", "release"} =>
               \A i \in DOMAIN todo : todo[i].active => todo[i].module # m

(* What the shutdown still has to do with a mod it found loaded. *)
EndedFits(m) ==
    m \in ended /\ main \in {"shutdown", "release"} =>
        /\ Behind(m)
        /\ registered[m] \subseteq {"hook"} \/ \E i \in DOMAIN todo : todo[i].module = m

ModFits(m) ==
    /\ UntouchedFits(m) /\ CurrentFits(m) /\ UnloadFits(m) /\ FreedFits(m)
    /\ RefusedFits(m) /\ CopyFits(m) /\ EndedFits(m)

InOrder(s) == \A i, j \in DOMAIN s : i < j => Before(s[i].module, s[j].module)
InReverse(s) == \A i, j \in DOMAIN s : i < j => Before(s[j].module, s[i].module)

MainFits ==
    /\ main \in {"idle", "quit", "shutdown"} => inside = NoMod
    /\ main = "release" => todo # <<>> /\ inside \in {NoMod, todo[1].module}
    /\ main \in {"shutdown", "release"} => InReverse(todo)

ListFits ==
    /\ InOrder(loaded)
    /\ shutdownStarted /\ main # "quit" =>
           Len(loaded) <= 1 /\ (loader = "checked" => loaded = <<>>)

LoaderFits == loader # "next" => next <= Len(Plan)

IInv == TypeOK /\ LoaderFits /\ ListFits /\ MainFits /\ \A m \in Mod : ModFits(m)

USE NoModAssumption DEF list, loading, running, past

-----------------------------------------------------------------------------
(* The plan: no mod is in it twice. *)
LEMMA PlanIsOrdered ==
  /\ Len(Plan) \in Nat /\ DOMAIN Plan = 1 .. Len(Plan)
  /\ \A i \in DOMAIN Plan : Plan[i] \in Mod
  /\ \A i, j \in DOMAIN Plan : Plan[i] = Plan[j] => i = j
  BY PlanAssumption DEF IsInjective

LEMMA BeforeIsStrict ==
  ASSUME NEW m, NEW n, Before(m, n)
  PROVE  m # n /\ ~Before(n, m)
  BY PlanIsOrdered DEF Before

LEMMA BehindIsBefore ==
  ASSUME TypeOK, NEW m, NEW n, Behind(m), Current(n)
  PROVE  Before(m, n) /\ m # n
  BY PlanIsOrdered DEF TypeOK, Behind, Current, Before

(* The loader's step within an entry of the plan, and its step to the next one. *)
LEMMA StayingFacts ==
  ASSUME TypeOK, next' = next
  PROVE  \A n : Current(n)' = Current(n) /\ Behind(n)' = Behind(n)
  BY DEF Current, Behind

LEMMA FinishingFacts ==
  ASSUME TypeOK, NEW m \in Mod, Current(m), next' = next + 1, loader' = "next"
  PROVE  /\ \A n : Behind(n)' <=> Behind(n) \/ n = m
         /\ \A n : Current(n)' => ~Started(n) /\ n # m
         /\ \A n : Started(n)' <=> Behind(n)'
<1>1. next \in Nat /\ next <= Len(Plan)
  BY PlanIsOrdered DEF TypeOK, Current
<1>2. ASSUME NEW n PROVE Behind(n)' <=> Behind(n) \/ n = m
  <2>1. CASE Behind(n)'
    <3>1. PICK i \in DOMAIN Plan : i < next + 1 /\ Plan[i] = n
      BY <2>1 DEF Behind
    <3>2. i \in Nat /\ (i < next \/ i = next)
      BY <1>1, <3>1, PlanIsOrdered
    <3> QED
      BY <2>1, <3>1, <3>2 DEF Behind, Current
  <2>2. CASE Behind(n)
    <3>1. PICK i \in DOMAIN Plan : i < next /\ Plan[i] = n
      BY <2>2 DEF Behind
    <3>2. i < next + 1
      BY <1>1, <3>1, PlanIsOrdered
    <3> QED
      BY <2>2, <3>1, <3>2 DEF Behind
  <2>3. CASE n = m
    <3>1. next \in DOMAIN Plan /\ next < next + 1 /\ Plan[next] = n
      BY <1>1, <2>3, PlanIsOrdered DEF Current, TypeOK
    <3> QED
      BY <2>3, <3>1 DEF Behind
  <2> QED
    BY <2>1, <2>2, <2>3
<1>3. ASSUME NEW n, Current(n)' PROVE ~Started(n) /\ n # m
  <2>1. next + 1 \in DOMAIN Plan /\ Plan[next + 1] = n
    BY <1>1, <1>3, PlanIsOrdered DEF Current
  <2>2. ~Behind(n)
    BY <1>1, <2>1, PlanIsOrdered DEF Behind
  <2>3. ~Current(n) /\ n # m
    <3>1. next \in DOMAIN Plan /\ Plan[next] = m /\ next # next + 1
      BY <1>1, PlanIsOrdered DEF Current, TypeOK
    <3> QED
      BY <2>1, <3>1, PlanIsOrdered DEF Current
  <2> QED
    BY <2>2, <2>3 DEF Started
<1> QED
  BY <1>2, <1>3 DEF Started

LEMMA NotStartedAtNext ==
  ASSUME TypeOK, NEW m, Current(m)
  PROVE  ~Behind(m) /\ (Started(m) <=> loader # "next")
  BY BehindIsBefore DEF Started

-----------------------------------------------------------------------------
(* Steps of the loader that leave the list and the main thread alone *)
Quietly(m) ==
    /\ UNCHANGED <<list, running, past>>
    /\ registered' \in [Mod -> SUBSET Kind]
    /\ Current(m) /\ \A n \in Mod : registered'[n] \subseteq registered[n] \/ n = m
    /\ \A n : Behind(n) => Behind(n)'

LEMMA LoaderFrame ==
  ASSUME IInv, NEW m \in Mod, Quietly(m)
  PROVE  /\ MainFits' /\ InOrder(loaded)'
         /\ \A n \in Mod : RefusedFits(n)' /\ CopyFits(n)' /\ EndedFits(n)'
<1>1. MainFits' /\ InOrder(loaded)'
  BY DEF IInv, Quietly, MainFits, ListFits, InOrder, InReverse, Before
<1>2. ASSUME NEW n \in Mod PROVE RefusedFits(n)'
  BY BehindIsBefore DEF IInv, Quietly, ModFits, RefusedFits
<1>3. ASSUME NEW n \in Mod PROVE CopyFits(n)'
  BY DEF IInv, Quietly, ModFits, CopyFits
<1>4. ASSUME NEW n \in Mod PROVE EndedFits(n)'
  BY BehindIsBefore DEF IInv, Quietly, ModFits, EndedFits
<1> QED
  BY <1>1, <1>2, <1>3, <1>4

(* What is left to show of a mod once the frame is known. *)
LoaderPart(n) == UntouchedFits(n) /\ CurrentFits(n) /\ UnloadFits(n) /\ FreedFits(n)

(* The loader's step within m's entry does not change what is known of other mods. *)
LEMMA OthersFit ==
  ASSUME IInv, NEW m \in Mod, Loads(m, loader), next' = next, Listed' \subseteq Listed \cup {m},
         UNCHANGED <<running, past>>,
         NEW n \in Mod, n # m, n \in mapped' <=> n \in mapped, registered'[n] = registered[n]
  PROVE  LoaderPart(n)'
<1>1. /\ ~Current(n) /\ Current(n)' = Current(n) /\ Behind(n)' = Behind(n)
      /\ ~Loads(n, loader) /\ (n \in Listed' => n \in Listed)
  BY StayingFacts DEF IInv, Current, Loads
<1>2. Started(n)' = Started(n)
  BY <1>1 DEF Started
<1>3. UntouchedFits(n)'
  BY <1>1, <1>2 DEF IInv, ModFits, UntouchedFits
<1>4. CurrentFits(n)' /\ UnloadFits(n)'
  BY <1>1 DEF CurrentFits, UnloadFits
<1>5. FreedFits(n)'
  BY <1>1 DEF IInv, ModFits, FreedFits, InWindow, Loads, Current
<1> QED
  BY <1>3, <1>4, <1>5 DEF LoaderPart

LEMMA FinishedFits ==
  ASSUME IInv, NEW m \in Mod, Loads(m, loader), next' = next + 1, loader' = "next",
         UNCHANGED <<mapped, registered, running, late>>, Listed' \subseteq Listed,
         loader = "forget" => m \notin Listed', refused' \subseteq refused \cup {m},
         NEW n \in Mod
  PROVE  LoaderPart(n)'
<1>1. Current(m) /\ TypeOK
  BY DEF Loads, Current, IInv
<1>2. /\ Behind(n)' <=> Behind(n) \/ n = m
      /\ Current(n)' => ~Started(n) /\ n # m
      /\ Started(n)' <=> Behind(n)'
  BY <1>1, FinishingFacts
<1>3. Started(n) => Started(n)'
  BY <1>1, <1>2 DEF Started, Current
<1>4. UntouchedFits(n)'
  BY <1>2, <1>3 DEF IInv, ModFits, UntouchedFits
<1>5. CurrentFits(n)'
  BY DEF CurrentFits
<1>6. UnloadFits(n)'
  BY <1>2, <1>4 DEF UnloadFits, IInv, ModFits, UntouchedFits
<1>7. FreedFits(n)'
  BY <1>1 DEF IInv, ModFits, FreedFits, InWindow, Loads, Current
<1> QED
  BY <1>4, <1>5, <1>6, <1>7 DEF LoaderPart

LEMMA LoaderInvariant ==
  ASSUME IInv, NEW m \in Mod, Quietly(m), TypeOK', LoaderFits',
         loader' = "checked" => loader = "mapped" /\ ~shutdownStarted,
         \A n \in Mod : LoaderPart(n)'
  PROVE  IInv'
<1>1. /\ MainFits' /\ InOrder(loaded)'
      /\ \A n \in Mod : RefusedFits(n)' /\ CopyFits(n)' /\ EndedFits(n)'
  BY LoaderFrame
<1>2. ListFits'
  BY <1>1 DEF IInv, ListFits, Quietly
<1>3. \A n \in Mod : ModFits(n)'
  BY <1>1 DEF ModFits, LoaderPart
<1> QED
  BY <1>1, <1>2, <1>3 DEF IInv

LEMMA LoadLibraryKeeps ==
  ASSUME IInv, NEW m \in Mod, LoadLibrary(m)
  PROVE  IInv'
<1> USE DEF LoadLibrary
<1>1. Current(m) /\ Loads(m, loader) /\ Listed' = Listed
  BY DEF Loads, Current, Listed
<1>2. TypeOK' /\ LoaderFits'
  BY <1>1 DEF IInv, TypeOK, LoaderFits, Current
<1>3. \A n : Current(n)' = Current(n) /\ Behind(n)' = Behind(n)
  BY StayingFacts DEF IInv
<1>4. Quietly(m)
  BY <1>1, <1>3 DEF Quietly, IInv, TypeOK
<1>5. ASSUME NEW n \in Mod, n # m PROVE LoaderPart(n)'
  BY <1>1, <1>5, OthersFit
<1>6. LoaderPart(m)'
  <2>1. Started(m)' /\ Current(m)' /\ m \in mapped' /\ ~Started(m)
    BY <1>1, <1>3, NotStartedAtNext DEF Started, IInv, Loads
  <2>2. UntouchedFits(m)
    BY DEF IInv, ModFits
  <2> QED
    BY <1>1, <2>1, <2>2 DEF LoaderPart, UntouchedFits, CurrentFits, UnloadFits, FreedFits, InWindow, Removed
<1> QED
  BY <1>2, <1>4, <1>5, <1>6, LoaderInvariant

LEMMA LoadLibraryFailsKeeps ==
  ASSUME IInv, NEW m \in Mod, LoadLibraryFails(m) \/ InitSucceeds(m)
  PROVE  IInv'
<1> USE DEF LoadLibraryFails, InitSucceeds
<1>1. /\ Current(m) /\ Loads(m, loader) /\ Listed' = Listed
      /\ next' = next + 1 /\ loader' = "next" /\ loader \in {"next", "init"}
  BY DEF Loads, Current, Listed
<1>2. TypeOK' /\ LoaderFits'
  BY <1>1, PlanIsOrdered DEF IInv, TypeOK, LoaderFits, Current
<1>3. \A n : Behind(n) => Behind(n)'
  BY <1>1, FinishingFacts DEF IInv
<1>4. Quietly(m)
  BY <1>1, <1>3 DEF Quietly, IInv, TypeOK
<1>5. ASSUME NEW n \in Mod PROVE LoaderPart(n)'
  BY <1>1, FinishedFits
<1> QED
  BY <1>1, <1>2, <1>4, <1>5, LoaderInvariant

LEMMA CheckShutdownKeeps ==
  ASSUME IInv, NEW m \in Mod, CheckShutdown(m)
  PROVE  IInv'
<1> USE DEF CheckShutdown
<1>1. Current(m) /\ Loads(m, loader) /\ Listed' = Listed
  BY DEF Loads, Current, Listed
<1>2. TypeOK' /\ LoaderFits'
  BY <1>1 DEF IInv, TypeOK, LoaderFits, Current
<1>3. \A n : Current(n)' = Current(n) /\ Behind(n)' = Behind(n)
  BY StayingFacts DEF IInv
<1>4. Quietly(m)
  BY <1>1, <1>3 DEF Quietly, IInv, TypeOK
<1>5. ASSUME NEW n \in Mod, n # m PROVE LoaderPart(n)'
  BY <1>1, <1>5, OthersFit
<1>6. LoaderPart(m)'
  <2>1. Started(m)' /\ Current(m)' /\ Loads(m, "mapped")
    BY <1>1, <1>3 DEF Started
  <2>2. CurrentFits(m)
    BY DEF IInv, ModFits
  <2> QED
    BY <1>1, <2>1, <2>2 DEF LoaderPart, UntouchedFits, CurrentFits, UnloadFits, FreedFits, Removed, Loads
<1> QED
  BY <1>2, <1>4, <1>5, <1>6, LoaderInvariant DEF Loads

LEMMA ModRegistersKeeps ==
  ASSUME IInv, NEW m \in Mod, NEW k \in Kind, ModRegisters(m, k)
  PROVE  IInv'
<1> USE DEF ModRegisters
<1>1. Current(m) /\ Loads(m, loader) /\ Listed' = Listed
  BY DEF Loads, Current, Listed
<1>2. TypeOK' /\ LoaderFits'
  BY <1>1 DEF IInv, TypeOK, LoaderFits, Current
<1>3. \A n : Current(n)' = Current(n) /\ Behind(n)' = Behind(n)
  BY StayingFacts DEF IInv
<1>4. \A n \in Mod : n # m => registered'[n] = registered[n]
  BY DEF IInv, TypeOK
<1>5. Quietly(m)
  BY <1>1, <1>2, <1>3, <1>4 DEF Quietly, TypeOK
<1>6. ASSUME NEW n \in Mod, n # m PROVE LoaderPart(n)'
  BY <1>1, <1>4, <1>6, OthersFit
<1>7. LoaderPart(m)'
  <2>1. Started(m)' /\ Current(m)' /\ Loads(m, "init")
    BY <1>1, <1>3 DEF Started, Loads
  <2>2. CurrentFits(m)
    BY DEF IInv, ModFits
  <2> QED
    BY <1>1, <2>1, <2>2 DEF LoaderPart, UntouchedFits, CurrentFits, UnloadFits, FreedFits, Removed, Loads
<1> QED
  BY <1>2, <1>5, <1>6, <1>7, LoaderInvariant DEF Loads

(* A step of URK_FreeLibrary removes one kind of m's registrations and goes on. *)
Removing(m, k, at) ==
    /\ Loads(m, loader) /\ loader \notin {"next", "forget"}
    /\ Removes(m, k) /\ loader' = at /\ at \notin {"next", "mapped", "checked", "forget"}
    /\ Removed(at) \subseteq Removed(loader) \cup {k}
    /\ at \in {"hook", "free"} => loader = "hook"
    /\ UNCHANGED <<list, mapped, next, running, past>>

LEMMA RemovingKeeps ==
  ASSUME IInv, NEW m \in Mod, NEW k, NEW at, Removing(m, k, at), TypeOK'
  PROVE  IInv'
<1> USE DEF Removing
<1>1. Current(m) /\ Loads(m, loader) /\ Listed' = Listed /\ LoaderFits'
  BY DEF Loads, Current, Listed, IInv, LoaderFits
<1>2. \A n : Current(n)' = Current(n) /\ Behind(n)' = Behind(n)
  BY StayingFacts DEF IInv
<1>3. /\ registered'[m] = registered[m] \ {k}
      /\ \A n \in Mod : n # m => registered'[n] = registered[n]
  BY DEF IInv, TypeOK, Removes
<1>4. Quietly(m)
  BY <1>1, <1>2, <1>3 DEF Quietly, TypeOK
<1>5. ASSUME NEW n \in Mod, n # m PROVE LoaderPart(n)'
  BY <1>1, <1>3, <1>5, OthersFit
<1>6. LoaderPart(m)'
  <2>1. Started(m)' /\ Current(m)'
    BY <1>1, <1>2 DEF Started
  <2>2. loader # "forget" => m \in mapped
    BY <1>1 DEF IInv, ModFits, CurrentFits
  <2>3. ModFits(m)
    BY DEF IInv
  <2>4. UnloadFits(m)'
    <3>1. SUFFICES ASSUME m \notin late
                   PROVE  /\ registered'[m] \cap Removed(at) = {}
                          /\ at \in {"hook", "free", "forget"} => ~InWindow(m)'
      BY DEF UnloadFits, Removed
    <3>2. /\ registered[m] \cap Removed(loader) = {}
          /\ loader \in {"hook", "free", "forget"} => ~InWindow(m)
      BY <1>1, <2>3, <3>1 DEF ModFits, UnloadFits
    <3>3. InWindow(m)' = InWindow(m)
      BY DEF InWindow
    <3> QED
      BY <1>3, <3>2, <3>3
  <2>5. FreedFits(m)'
    <3>1. m \notin mapped => loader = "forget" /\ (m \notin late => registered[m] = {})
      BY <2>2, <2>3 DEF ModFits, FreedFits
    <3> QED
      BY <3>1 DEF FreedFits
  <2> QED
    BY <2>1, <2>2, <2>4, <2>5 DEF LoaderPart, UntouchedFits, CurrentFits, Removed
<1> QED
  BY <1>1, <1>4, <1>5, <1>6, LoaderInvariant

LEMMA UnregisteringKeeps ==
  ASSUME IInv, NEW m \in Mod,
         InitFails(m) \/ UnregisterRuntimeEvents(m) \/ UnregisterWindow(m) \/ DetachHooks(m)
  PROVE  IInv'
<1>1. CASE InitFails(m)
  <2>1. Removing(m, "mainThread", "events")
    BY <1>1 DEF InitFails, Removing, Removed, Loads
  <2>2. TypeOK'
    BY <1>1 DEF InitFails, Removes, IInv, TypeOK, Kind
  <2> QED
    BY <2>1, <2>2, RemovingKeeps
<1>2. CASE UnregisterRuntimeEvents(m)
  <2>1. Removing(m, "lease", "window")
    BY <1>2 DEF UnregisterRuntimeEvents, Removing, Removed, Loads
  <2>2. TypeOK'
    BY <1>2 DEF UnregisterRuntimeEvents, Removes, IInv, TypeOK, Kind
  <2> QED
    BY <2>1, <2>2, RemovingKeeps
<1>3. CASE UnregisterWindow(m)
  <2>1. Removing(m, "window", "wait")
    BY <1>3 DEF UnregisterWindow, Removing, Removed, Loads
  <2>2. TypeOK'
    BY <1>3 DEF UnregisterWindow, Removes, IInv, TypeOK, Kind
  <2> QED
    BY <2>1, <2>2, RemovingKeeps
<1>4. CASE DetachHooks(m)
  <2>1. Removing(m, "hook", "free")
    BY <1>4 DEF DetachHooks, Removing, Removed, Loads
  <2>2. TypeOK'
    BY <1>4 DEF DetachHooks, Removes, IInv, TypeOK, Kind
  <2> QED
    BY <2>1, <2>2, RemovingKeeps
<1> QED
  BY <1>1, <1>2, <1>3, <1>4

LEMMA WaitForWindowKeeps ==
  ASSUME IInv, NEW m \in Mod, WaitForWindow(m)
  PROVE  IInv'
<1> USE DEF WaitForWindow
<1>1. Current(m) /\ Loads(m, loader) /\ Listed' = Listed
  BY DEF Loads, Current, Listed
<1>2. TypeOK' /\ LoaderFits'
  BY <1>1 DEF IInv, TypeOK, LoaderFits, Current
<1>3. \A n : Current(n)' = Current(n) /\ Behind(n)' = Behind(n)
  BY StayingFacts DEF IInv
<1>4. Quietly(m)
  BY <1>1, <1>3 DEF Quietly, IInv, TypeOK
<1>5. ASSUME NEW n \in Mod, n # m PROVE LoaderPart(n)'
  BY <1>1, <1>5, OthersFit
<1>6. LoaderPart(m)'
  <2>1. Started(m)' /\ Current(m)' /\ Loads(m, "wait") /\ Removed("wait") = Removed("hook")
    BY <1>1, <1>3 DEF Started, Removed
  <2>2. ModFits(m)
    BY DEF IInv
  <2>3. m \in mapped
    BY <1>1, <2>1, <2>2 DEF ModFits, CurrentFits, Loads
  <2>4. UnloadFits(m)'
    BY <1>1, <2>1, <2>2 DEF ModFits, UnloadFits, InWindow, Loads
  <2> QED
    BY <2>1, <2>3, <2>4 DEF LoaderPart, UntouchedFits, CurrentFits, FreedFits
<1> QED
  BY <1>2, <1>4, <1>5, <1>6, LoaderInvariant

LEMMA FreeLibraryKeeps ==
  ASSUME IInv, NEW m \in Mod, FreeLibrary(m)
  PROVE  IInv'
<1> USE DEF FreeLibrary
<1>1. Current(m) /\ Loads(m, loader) /\ Listed' = Listed
  BY DEF Loads, Current, Listed
<1>2. TypeOK' /\ LoaderFits'
  BY <1>1 DEF IInv, TypeOK, LoaderFits, Current
<1>3. \A n : Current(n)' = Current(n) /\ Behind(n)' = Behind(n)
  BY StayingFacts DEF IInv
<1>4. Quietly(m)
  BY <1>1, <1>3 DEF Quietly, IInv, TypeOK
<1>5. ASSUME NEW n \in Mod, n # m PROVE LoaderPart(n)'
  BY <1>1, <1>5, OthersFit
<1>6. LoaderPart(m)'
  <2>1. /\ Started(m)' /\ Current(m)' /\ Loads(m, "free") /\ Loads(m, "forget")'
        /\ Removed("free") = Removed("forget")
    BY <1>1, <1>3 DEF Started, Removed, Loads
  <2>2. m \notin late => registered[m] \cap Removed("free") = {} /\ ~InWindow(m)
    BY <1>1, <2>1 DEF IInv, ModFits, UnloadFits, Loads
  <2>3. UnloadFits(m)'
    BY <2>1, <2>2 DEF UnloadFits, InWindow
  <2>4. registered[m] \subseteq Removed("free")
    BY DEF IInv, TypeOK, Kind, Removed
  <2>5. FreedFits(m)'
    BY <2>1, <2>2, <2>4 DEF FreedFits, InWindow
  <2> QED
    BY <2>1, <2>3, <2>5 DEF LoaderPart, UntouchedFits, CurrentFits
<1> QED
  BY <1>2, <1>4, <1>5, <1>6, LoaderInvariant

-----------------------------------------------------------------------------
(* Steps of the loader that change the list *)
LEMMA OrderIsUnique ==
  ASSUME NEW s \in Seq(LoadedNativeMod), InOrder(s)
  PROVE  \A i, j \in DOMAIN s : s[i].module = s[j].module => i = j
<1>1. SUFFICES ASSUME NEW i \in DOMAIN s, NEW j \in DOMAIN s, s[i].module = s[j].module, i # j
               PROVE  FALSE
  OBVIOUS
<1>2. i \in Nat /\ j \in Nat
  OBVIOUS
<1>3. CASE i < j
  BY <1>1, <1>3, BeforeIsStrict DEF InOrder
<1>4. CASE j < i
  BY <1>1, <1>4, BeforeIsStrict DEF InOrder
<1> QED
  BY <1>1, <1>2, <1>3, <1>4

LEMMA ListedIsStarted ==
  ASSUME IInv, NEW i \in DOMAIN loaded
  PROVE  /\ loaded[i] \in LoadedNativeMod /\ loaded[i].module \in Mod \cap Listed
         /\ Started(loaded[i].module)
<1>1. loaded[i] \in LoadedNativeMod
  BY DEF IInv, TypeOK
<1>2. loaded[i].module \in Mod
  BY <1>1 DEF LoadedNativeMod
<1>3. loaded[i].module \in Listed
  BY DEF Listed
<1> QED
  BY <1>1, <1>2, <1>3 DEF IInv, ModFits, UntouchedFits

Listing(m) ==
    /\ Loads(m, loader) /\ loader # "next"
    /\ UNCHANGED <<shutdownStarted, mapped, registered, running, late>>
    /\ refused \subseteq refused' /\ refused' \subseteq refused \cup {m}
    /\ \A n : Behind(n) => Behind(n)'

LEMMA ListingFrame ==
  ASSUME IInv, NEW m \in Mod, Listing(m)
  PROVE  MainFits' /\ \A n \in Mod : CopyFits(n)' /\ EndedFits(n)'
<1>1. MainFits'
  BY DEF IInv, Listing, MainFits, InReverse, Before
<1>2. ASSUME NEW n \in Mod PROVE CopyFits(n)' /\ EndedFits(n)'
  BY DEF IInv, Listing, ModFits, CopyFits, EndedFits
<1> QED
  BY <1>1, <1>2

LEMMA ListingInvariant ==
  ASSUME IInv, NEW m \in Mod, Listing(m), TypeOK', LoaderFits', ListFits',
         \A n \in Mod : LoaderPart(n)' /\ RefusedFits(n)'
  PROVE  IInv'
<1>1. MainFits' /\ \A n \in Mod : CopyFits(n)' /\ EndedFits(n)'
  BY ListingFrame
<1>2. \A n \in Mod : ModFits(n)'
  BY <1>1 DEF ModFits, LoaderPart
<1> QED
  BY <1>1, <1>2 DEF IInv

LEMMA RegisterKeeps ==
  ASSUME IInv, NEW m \in Mod, RegisterLoadedNativeMod(m)
  PROVE  IInv'
<1> USE DEF RegisterLoadedNativeMod
<1> DEFINE e == [module |-> m, active |-> TRUE]
<1>1. Current(m) /\ Loads(m, loader) /\ Loads(m, "checked") /\ e \in LoadedNativeMod
  BY DEF Loads, Current, LoadedNativeMod
<1>2. \A n : Current(n)' = Current(n) /\ Behind(n)' = Behind(n)
  BY StayingFacts DEF IInv
<1>3. Listing(m)
  BY <1>1, <1>2 DEF Listing, Loads
<1>4. m \in mapped /\ m \notin Listed
  BY <1>1 DEF IInv, ModFits, CurrentFits, Loads
<1>5. /\ loaded \in Seq(LoadedNativeMod) /\ Len(loaded) \in Nat
      /\ loaded' \in Seq(LoadedNativeMod) /\ DOMAIN loaded' = 1 .. Len(loaded) + 1
      /\ DOMAIN loaded = 1 .. Len(loaded) /\ Len(loaded') = Len(loaded) + 1
      /\ \A i \in DOMAIN loaded : loaded'[i] = loaded[i]
      /\ loaded'[Len(loaded) + 1] = e
  BY <1>1 DEF IInv, TypeOK
<1>6. Listed' = Listed \cup {m}
  <2> HIDE DEF RegisterLoadedNativeMod
  <2> QED
    BY <1>5 DEF Listed
<1>7. InOrder(loaded')
  <2>1. SUFFICES ASSUME NEW i \in DOMAIN loaded', NEW j \in DOMAIN loaded', i < j
                 PROVE  Before(loaded'[i].module, loaded'[j].module)
    BY DEF InOrder
  <2>2. i \in DOMAIN loaded /\ loaded'[i] = loaded[i]
    BY <1>5, <2>1
  <2>3. CASE j \in DOMAIN loaded
    BY <1>5, <2>1, <2>2, <2>3 DEF IInv, ListFits, InOrder
  <2>4. CASE j = Len(loaded) + 1
    <3>1. Started(loaded[i].module) /\ loaded[i].module # m
      BY <1>4, <2>2, ListedIsStarted
    <3>2. Behind(loaded[i].module)
      BY <1>1, <3>1 DEF Started, Current
    <3> QED
      BY <1>1, <1>5, <2>2, <2>4, <3>2, BehindIsBefore DEF IInv
  <2> QED
    BY <1>5, <2>3, <2>4
<1>8. TypeOK' /\ LoaderFits'
  <2>1. \A i, j \in DOMAIN loaded' : loaded'[i].module = loaded'[j].module => i = j
    BY <1>5, <1>7, OrderIsUnique
  <2> QED
    BY <1>1, <1>5, <2>1 DEF IInv, TypeOK, LoaderFits, Current
<1>9. ListFits'
  <2>1. shutdownStarted /\ main # "quit" => loaded = <<>>
    BY <1>1 DEF IInv, ListFits, Loads
  <2>2. shutdownStarted /\ main # "quit" => Len(loaded') <= 1
    BY <1>5, <2>1
  <2> QED
    BY <1>7, <2>2 DEF ListFits
<1>10. ASSUME NEW n \in Mod, n # m PROVE LoaderPart(n)'
  BY <1>1, <1>6, <1>10, OthersFit
<1>11. LoaderPart(m)'
  <2>1. Started(m)' /\ Current(m)'
    BY <1>1, <1>2 DEF Started
  <2> QED
    BY <1>4, <2>1 DEF LoaderPart, UntouchedFits, CurrentFits, UnloadFits, FreedFits, Removed
<1>12. ASSUME NEW n \in Mod PROVE RefusedFits(n)'
  <2>1. SUFFICES ASSUME n \in refused PROVE RefusedFits(n)'
    BY DEF RefusedFits
  <2>2. RefusedFits(n) /\ n # m
    BY <1>1, <2>1, BehindIsBefore DEF IInv, ModFits, RefusedFits
  <2>3. \A i \in DOMAIN loaded' : loaded'[i].module = n => i \in DOMAIN loaded /\ loaded'[i] = loaded[i]
    BY <1>5, <2>2
  <2> QED
    BY <1>2, <2>1, <2>2, <2>3 DEF RefusedFits
<1> QED
  BY <1>3, <1>8, <1>9, <1>10, <1>11, <1>12, ListingInvariant

LEMMA RefuseKeeps ==
  ASSUME IInv, NEW m \in Mod, Refuse(m)
  PROVE  IInv'
<1> USE DEF Refuse
<1>1. /\ Current(m) /\ Loads(m, loader) /\ loader \in {"hook", "free"}
      /\ next' = next + 1 /\ loader' = "next"
  BY DEF Loads, Current
<1>2. /\ \A n : Behind(n) => Behind(n)'
      /\ Behind(m)'
  BY <1>1, FinishingFacts DEF IInv
<1>3. Listing(m)
  BY <1>1, <1>2 DEF Listing
<1>4. /\ loaded \in Seq(LoadedNativeMod) /\ loaded' \in Seq(LoadedNativeMod)
      /\ DOMAIN loaded' = DOMAIN loaded /\ Len(loaded') = Len(loaded)
      /\ \A i \in DOMAIN loaded : /\ loaded'[i].module = loaded[i].module
                                  /\ loaded[i].module = m => ~loaded'[i].active
                                  /\ loaded[i].module # m => loaded'[i] = loaded[i]
  <2>1. /\ loaded \in Seq(LoadedNativeMod) /\ Len(loaded) \in Nat
        /\ DOMAIN loaded = 1 .. Len(loaded)
        /\ \A i \in DOMAIN loaded : loaded[i] \in LoadedNativeMod
    BY DEF IInv, TypeOK
  <2>2. ASSUME NEW i \in DOMAIN loaded
        PROVE  /\ [loaded[i] EXCEPT !.active = FALSE] \in LoadedNativeMod
               /\ [loaded[i] EXCEPT !.active = FALSE].module = loaded[i].module
               /\ ~[loaded[i] EXCEPT !.active = FALSE].active
    BY <2>1 DEF LoadedNativeMod
  <2>3. /\ DOMAIN loaded' = DOMAIN loaded
        /\ \A i \in DOMAIN loaded : /\ loaded'[i] \in LoadedNativeMod
                                    /\ loaded'[i].module = loaded[i].module
                                    /\ loaded[i].module = m => ~loaded'[i].active
                                    /\ loaded[i].module # m => loaded'[i] = loaded[i]
    BY <2>1, <2>2
  <2>4. loaded' = [i \in 1 .. Len(loaded) |-> loaded'[i]]
    BY <2>1
  <2> QED
    BY <2>1, <2>3, <2>4
<1>5. Listed' = Listed /\ InOrder(loaded)'
  <2> HIDE DEF Refuse
  <2> QED
    BY <1>4 DEF Listed, IInv, ListFits, InOrder
<1>6. TypeOK' /\ LoaderFits'
  BY <1>1, <1>4, PlanIsOrdered DEF IInv, TypeOK, LoaderFits, Current
<1>7. ListFits'
  BY <1>1, <1>4, <1>5 DEF IInv, ListFits
<1>8. ASSUME NEW n \in Mod PROVE LoaderPart(n)'
  BY <1>1, <1>5, FinishedFits
<1>9. ASSUME NEW n \in Mod PROVE RefusedFits(n)'
  <2>1. CASE n = m
    <3>1. m \notin late => registered[m] \subseteq {"hook"}
      BY <1>1 DEF IInv, TypeOK, ModFits, UnloadFits, Removed, Kind
    <3> QED
      BY <1>2, <1>4, <2>1, <3>1 DEF RefusedFits
  <2>2. CASE n # m
    BY <1>2, <1>4, <2>2 DEF IInv, ModFits, RefusedFits
  <2> QED
    BY <2>1, <2>2
<1> QED
  BY <1>3, <1>6, <1>7, <1>8, <1>9, ListingInvariant

LEMMA RemoveAtFacts ==
  ASSUME NEW S, NEW s \in Seq(S), NEW k \in DOMAIN s
  PROVE  /\ RemoveAt(s, k) \in Seq(S) /\ Len(RemoveAt(s, k)) = Len(s) - 1
         /\ \A i \in DOMAIN RemoveAt(s, k) :
                RemoveAt(s, k)[i] = IF i < k THEN s[i] ELSE s[i + 1]
<1> DEFINE f == SubSeq(s, 1, k - 1)
           t == SubSeq(s, k + 1, Len(s))
<1>1. Len(s) \in Nat /\ k \in Nat /\ 1 <= k /\ k <= Len(s)
  OBVIOUS
<1>2. /\ f \in Seq(S) /\ Len(f) = k - 1
      /\ \A i \in 1 .. k - 1 : f[i] = s[i]
  BY <1>1
<1>3. /\ t \in Seq(S) /\ Len(t) = Len(s) - k
      /\ \A i \in 1 .. Len(s) - k : t[i] = s[k + i]
  BY <1>1
<1> HIDE DEF f, t
<1>4. /\ f \o t \in Seq(S) /\ Len(f \o t) = Len(s) - 1 /\ DOMAIN (f \o t) = 1 .. Len(s) - 1
      /\ \A i \in 1 .. Len(s) - 1 : (f \o t)[i] = IF i <= Len(f) THEN f[i] ELSE t[i - Len(f)]
  <2>1. /\ f \o t \in Seq(S) /\ Len(f \o t) = Len(f) + Len(t)
        /\ \A i \in 1 .. Len(f) + Len(t) : (f \o t)[i] = IF i <= Len(f) THEN f[i] ELSE t[i - Len(f)]
    BY <1>2, <1>3, ConcatProperties
  <2>2. Len(f) + Len(t) = Len(s) - 1
    BY <1>1, <1>2, <1>3
  <2> QED
    BY <2>1, <2>2
<1>5. ASSUME NEW i \in 1 .. Len(s) - 1 PROVE (f \o t)[i] = IF i < k THEN s[i] ELSE s[i + 1]
  <2>1. CASE i < k
    BY <1>1, <1>2, <1>4, <2>1
  <2>2. CASE ~(i < k)
    <3>1. i - (k - 1) \in 1 .. Len(s) - k /\ k + (i - (k - 1)) = i + 1 /\ ~(i <= k - 1)
      BY <1>1, <2>2
    <3>2. (f \o t)[i] = t[i - (k - 1)]
      BY <1>2, <1>4, <3>1
    <3>3. t[i - (k - 1)] = s[k + (i - (k - 1))]
      BY <1>3, <3>1
    <3> QED
      BY <2>2, <3>1, <3>2, <3>3
  <2> QED
    BY <2>1, <2>2
<1> QED
  BY <1>4, <1>5 DEF RemoveAt, f, t

LEMMA UnregisterKeeps ==
  ASSUME IInv, NEW m \in Mod, UnregisterLoadedNativeMod(m)
  PROVE  IInv'
<1> USE DEF UnregisterLoadedNativeMod
<1>1. /\ Current(m) /\ Loads(m, loader) /\ Loads(m, "forget")
      /\ next' = next + 1 /\ loader' = "next"
  BY DEF Loads, Current
<1>2. \A n : Behind(n) => Behind(n)'
  BY <1>1, FinishingFacts DEF IInv
<1>3. Listing(m)
  BY <1>1, <1>2 DEF Listing, Loads
<1>4. /\ loaded' \in Seq(LoadedNativeMod) /\ Len(loaded') <= Len(loaded) /\ InOrder(loaded')
      /\ \A i \in DOMAIN loaded' : loaded'[i].module # m
      /\ \A i \in DOMAIN loaded' : \E j \in DOMAIN loaded : loaded'[i] = loaded[j]
  <2>1. loaded \in Seq(LoadedNativeMod) /\ InOrder(loaded)
    BY DEF IInv, TypeOK, ListFits
  <2>2. CASE m \notin Listed /\ loaded' = loaded
    BY <2>1, <2>2 DEF Listed
  <2>3. CASE \E i \in DOMAIN loaded : loaded[i].module = m /\ loaded' = RemoveAt(loaded, i)
    <3>1. PICK k \in DOMAIN loaded : loaded[k].module = m /\ loaded' = RemoveAt(loaded, k)
      BY <2>3
    <3>2. /\ loaded' \in Seq(LoadedNativeMod) /\ Len(loaded') = Len(loaded) - 1
          /\ \A i \in DOMAIN loaded' : loaded'[i] = IF i < k THEN loaded[i] ELSE loaded[i + 1]
      BY <2>1, <3>1, RemoveAtFacts
    <3> DEFINE at(i) == IF i < k THEN i ELSE i + 1
    <3>3. /\ \A i \in DOMAIN loaded' : at(i) \in DOMAIN loaded /\ at(i) # k /\ loaded'[i] = loaded[at(i)]
          /\ \A i, j \in DOMAIN loaded' : i < j => at(i) < at(j)
      BY <2>1, <3>2
    <3>4. InOrder(loaded')
      BY <2>1, <3>3 DEF InOrder
    <3>5. \A i \in DOMAIN loaded : loaded[i].module = m => i = k
      BY <2>1, <3>1, OrderIsUnique
    <3> QED
      BY <2>1, <3>2, <3>3, <3>4, <3>5
  <2> QED
    BY <2>2, <2>3
<1>5. Listed' \subseteq Listed /\ m \notin Listed'
  <2> HIDE DEF UnregisterLoadedNativeMod
  <2> QED
    BY <1>4 DEF Listed
<1>6. TypeOK' /\ LoaderFits'
  <2>1. \A i, j \in DOMAIN loaded' : loaded'[i].module = loaded'[j].module => i = j
    BY <1>4, OrderIsUnique
  <2> QED
    BY <1>1, <1>4, <2>1, PlanIsOrdered DEF IInv, TypeOK, LoaderFits, Current
<1>7. ListFits'
  <2>1. Len(loaded) \in Nat /\ Len(loaded') \in Nat
    BY <1>4 DEF IInv, TypeOK
  <2>2. shutdownStarted' /\ main' # "quit" => Len(loaded') <= 1
    BY <1>4, <2>1 DEF IInv, ListFits
  <2> QED
    BY <1>1, <1>4, <2>2 DEF ListFits
<1>8. ASSUME NEW n \in Mod PROVE LoaderPart(n)'
  BY <1>1, <1>5, FinishedFits
<1>9. ASSUME NEW n \in Mod PROVE RefusedFits(n)'
  <2>1. RefusedFits(n)
    BY DEF IInv, ModFits
  <2> QED
    BY <1>2, <1>4, <2>1 DEF RefusedFits
<1> QED
  BY <1>3, <1>6, <1>7, <1>8, <1>9, ListingInvariant

-----------------------------------------------------------------------------
(* Steps of the main thread that change no registration *)
Calmly ==
    /\ UNCHANGED <<list, mapped, registered, loading, past>> /\ main # "quit"
    /\ \A n \in Mod : InWindow(n)' => InWindow(n) \/ "window" \in registered[n]

LEMMA MainFrame ==
  ASSUME IInv, Calmly
  PROVE  /\ LoaderFits' /\ ListFits' /\ \A n : Started(n)' = Started(n) /\ Behind(n)' = Behind(n)
         /\ \A n \in Mod : CurrentFits(n)' /\ UnloadFits(n)' /\ FreedFits(n)' /\ RefusedFits(n)'
<1>1. /\ loaded' = loaded /\ Listed' = Listed /\ shutdownStarted' = shutdownStarted
      /\ loader' = loader /\ next' = next /\ mapped' = mapped /\ registered' = registered
      /\ refused' = refused /\ late' = late
  BY DEF Calmly, Listed
<1>2. \A n : Current(n)' = Current(n) /\ Behind(n)' = Behind(n) /\ Started(n)' = Started(n)
  BY <1>1, StayingFacts DEF IInv, Started
<1>3. LoaderFits' /\ ListFits'
  BY <1>1 DEF Calmly, IInv, LoaderFits, ListFits, InOrder, Before
<1>4. ASSUME NEW n \in Mod PROVE CurrentFits(n)' /\ RefusedFits(n)'
  BY <1>1, <1>2 DEF IInv, ModFits, CurrentFits, RefusedFits
<1>5. ASSUME NEW n \in Mod PROVE UnloadFits(n)'
  <2>1. SUFFICES ASSUME Current(n), n \notin late
                 PROVE  /\ registered[n] \cap Removed(loader) = {}
                        /\ loader \in {"hook", "free", "forget"} => ~InWindow(n)'
    BY <1>1, <1>2 DEF UnloadFits
  <2>2. /\ registered[n] \cap Removed(loader) = {}
        /\ loader \in {"hook", "free", "forget"} => ~InWindow(n)
    BY <2>1 DEF IInv, ModFits, UnloadFits
  <2>3. loader \in {"hook", "free", "forget"} => "window" \in Removed(loader)
    BY DEF Removed
  <2> QED
    BY <2>2, <2>3 DEF Calmly
<1>6. ASSUME NEW n \in Mod PROVE FreedFits(n)'
  <2>1. FreedFits(n)
    BY DEF IInv, ModFits
  <2>2. n \notin mapped /\ n \notin late => ~InWindow(n)'
    BY <2>1 DEF FreedFits, Calmly
  <2> QED
    BY <1>1, <2>1, <2>2 DEF FreedFits, Loads
<1> QED
  BY <1>2, <1>3, <1>4, <1>5, <1>6

LEMMA MainInvariant ==
  ASSUME IInv, Calmly, TypeOK', MainFits',
         \A n \in Mod : UntouchedFits(n)' /\ CopyFits(n)' /\ EndedFits(n)'
  PROVE  IInv'
<1>1. /\ LoaderFits' /\ ListFits'
      /\ \A n \in Mod : CurrentFits(n)' /\ UnloadFits(n)' /\ FreedFits(n)' /\ RefusedFits(n)'
  BY MainFrame
<1>2. \A n \in Mod : ModFits(n)'
  BY <1>1 DEF ModFits
<1> QED
  BY <1>1, <1>2 DEF IInv

LEMMA ListedStays ==
  ASSUME Calmly
  PROVE  /\ Listed' = Listed /\ mapped' = mapped /\ registered' = registered
         /\ refused' = refused /\ late' = late /\ loaded' = loaded
  BY DEF Calmly, Listed

LEMMA TailFacts ==
  ASSUME NEW S, NEW s \in Seq(S), s # <<>>
  PROVE  /\ s[1] \in S /\ 1 \in DOMAIN s /\ Tail(s) \in Seq(S)
         /\ \A i \in DOMAIN Tail(s) : i + 1 \in DOMAIN s /\ Tail(s)[i] = s[i + 1]
         /\ \A i \in DOMAIN s : i = 1 \/ (i - 1 \in DOMAIN Tail(s) /\ Tail(s)[i - 1] = s[i])
<1>1. /\ Len(s) \in Nat /\ Len(s) > 0 /\ DOMAIN s = 1 .. Len(s) /\ Tail(s) \in Seq(S)
      /\ DOMAIN Tail(s) = 1 .. Len(s) - 1
      /\ \A i \in 1 .. Len(s) - 1 : Tail(s)[i] = s[i + 1]
  OBVIOUS
<1>2. s[1] \in S /\ 1 \in DOMAIN s
  BY <1>1
<1>3. ASSUME NEW i \in DOMAIN s PROVE i = 1 \/ (i - 1 \in DOMAIN Tail(s) /\ Tail(s)[i - 1] = s[i])
  BY <1>1
<1> QED
  BY <1>1, <1>2, <1>3

(* The main thread copies a list that has no active entry of a mod the loader has  *)
(* not begun with, or whose unload was refused.                                  *)
LEMMA CopiesKeeps ==
  ASSUME IInv, NEW what \in {"drain", "scene"}, NEW copy \in Seq(LoadedNativeMod),
         Copies(what, copy),
         \A i \in DOMAIN copy : copy[i].active =>
             /\ Started(copy[i].module) /\ copy[i].module \notin refused \ late
  PROVE  IInv'
<1> USE DEF Copies
<1>1. main = "idle" /\ inside = NoMod /\ inside' = NoMod
  BY DEF IInv, MainFits
<1>2. Calmly
  BY <1>1 DEF Calmly, InWindow
<1>3. TypeOK' /\ MainFits'
  BY <1>1 DEF IInv, TypeOK, MainFits
<1>4. ASSUME NEW n \in Mod PROVE UntouchedFits(n)'
  <2>1. UntouchedFits(n) /\ inside' # n /\ Started(n)' = Started(n)
    BY <1>1, <1>2, MainFrame DEF IInv, ModFits
  <2>2. ~Started(n) => \A i \in DOMAIN todo' : todo'[i].active => todo'[i].module # n
    OBVIOUS
  <2> QED
    BY <1>2, <2>1, <2>2, ListedStays DEF UntouchedFits
<1>5. ASSUME NEW n \in Mod PROVE CopyFits(n)' /\ EndedFits(n)'
  BY <1>1 DEF CopyFits, EndedFits
<1> QED
  BY <1>2, <1>3, <1>4, <1>5, MainInvariant

LEMMA BeginDrainKeeps ==
  ASSUME IInv, BeginDrain
  PROVE  IInv'
<1> DEFINE copy == [i \in DOMAIN Plan |-> [module |-> Plan[i], active |-> "mainThread" \in registered[Plan[i]]]]
<1>1. copy \in Seq(LoadedNativeMod)
  <2>1. \A i \in DOMAIN Plan : copy[i] \in LoadedNativeMod
    BY PlanIsOrdered DEF LoadedNativeMod
  <2> QED
    BY <2>1, PlanIsOrdered
<1>2. ASSUME NEW i \in DOMAIN copy, copy[i].active
      PROVE  Started(copy[i].module) /\ copy[i].module \notin refused \ late
  <2>1. /\ i \in DOMAIN Plan /\ copy[i].module = Plan[i] /\ Plan[i] \in Mod
        /\ "mainThread" \in registered[Plan[i]]
    BY <1>2, PlanIsOrdered
  <2>2. ModFits(Plan[i])
    BY <2>1 DEF IInv
  <2> QED
    BY <2>1, <2>2 DEF ModFits, UntouchedFits, RefusedFits
<1>3. Copies("drain", copy)
  BY DEF BeginDrain
<1> QED
  BY <1>1, <1>2, <1>3, CopiesKeeps

LEMMA DispatchSceneKeeps ==
  ASSUME IInv, DispatchScene
  PROVE  IInv'
<1>1. loaded \in Seq(LoadedNativeMod)
  BY DEF IInv, TypeOK
<1>2. ASSUME NEW i \in DOMAIN loaded, loaded[i].active
      PROVE  Started(loaded[i].module) /\ loaded[i].module \notin refused \ late
  <2>1. loaded[i].module \in Mod /\ Started(loaded[i].module)
    BY ListedIsStarted
  <2> QED
    BY <1>2, <2>1 DEF IInv, ModFits, RefusedFits
<1> QED
  BY <1>1, <1>2, CopiesKeeps DEF DispatchScene

(* The entry at the head of the copy is called. *)
LEMMA CalledFits ==
  ASSUME IInv, todo # <<>>
  PROVE  /\ Called \in Mod \cup {NoMod}
         /\ \A n \in Mod : Called = n => todo[1].active /\ todo[1].module = n /\ 1 \in DOMAIN todo
<1>1. todo \in Seq(LoadedNativeMod)
  BY DEF IInv, TypeOK
<1>2. todo[1] \in LoadedNativeMod /\ 1 \in DOMAIN todo
  BY <1>1, TailFacts
<1>3. todo[1].module \in Mod
  BY <1>2 DEF LoadedNativeMod
<1> QED
  BY <1>2, <1>3 DEF Called

LEMMA InvokeKeeps ==
  ASSUME IInv, Invoke
  PROVE  IInv'
<1> USE DEF Invoke
<1>1. Calmly
  BY DEF Calmly, InWindow
<1>2. /\ Called \in Mod \cup {NoMod}
      /\ \A n \in Mod : Called = n => todo[1].active /\ todo[1].module = n /\ 1 \in DOMAIN todo
  BY CalledFits
<1>3. /\ todo' \in Seq(LoadedNativeMod)
      /\ \A i \in DOMAIN todo' : i + 1 \in DOMAIN todo /\ todo'[i] = todo[i + 1]
  BY TailFacts DEF IInv, TypeOK
<1>4. TypeOK' /\ MainFits'
  BY <1>2, <1>3 DEF IInv, TypeOK, MainFits
<1>5. ASSUME NEW n \in Mod PROVE UntouchedFits(n)' /\ CopyFits(n)' /\ EndedFits(n)'
  <2>1. UntouchedFits(n) /\ CopyFits(n) /\ Started(n)' = Started(n)
    BY <1>1, MainFrame DEF IInv, ModFits
  <2>2. UntouchedFits(n)'
    BY <1>1, <1>2, <1>3, <2>1, ListedStays DEF UntouchedFits
  <2>3. CopyFits(n)'
    BY <1>2, <1>3, <2>1 DEF CopyFits
  <2> QED
    BY <2>2, <2>3 DEF EndedFits
<1> QED
  BY <1>1, <1>4, <1>5, MainInvariant

LEMMA ModShutdownKeeps ==
  ASSUME IInv, ModShutdown
  PROVE  IInv'
<1> USE DEF ModShutdown
<1>1. Calmly
  BY DEF Calmly, InWindow
<1>2. /\ Called \in Mod \cup {NoMod}
      /\ \A n \in Mod : Called = n => todo[1].active /\ todo[1].module = n /\ 1 \in DOMAIN todo
  BY CalledFits
<1>3. TypeOK' /\ MainFits'
  BY <1>2 DEF IInv, TypeOK, MainFits, Called, InReverse, Before
<1>4. ASSUME NEW n \in Mod PROVE UntouchedFits(n)' /\ CopyFits(n)' /\ EndedFits(n)'
  <2>1. /\ UntouchedFits(n) /\ CopyFits(n) /\ EndedFits(n)
        /\ Started(n)' = Started(n) /\ Behind(n)' = Behind(n)
    BY <1>1, MainFrame DEF IInv, ModFits
  <2>2. UntouchedFits(n)'
    BY <1>1, <1>2, <2>1, ListedStays DEF UntouchedFits
  <2>3. CopyFits(n)' /\ EndedFits(n)'
    BY <1>2, <2>1 DEF CopyFits, EndedFits
  <2> QED
    BY <2>2, <2>3
<1> QED
  BY <1>1, <1>3, <1>4, MainInvariant

LEMMA EnterKeeps ==
  ASSUME IInv, NEW k \in Kind, NEW m \in Mod, Enter(k, m)
  PROVE  IInv'
<1> USE DEF Enter
<1>1. Calmly
  BY NoModAssumption DEF Calmly, InWindow
<1>2. TypeOK' /\ MainFits'
  BY DEF IInv, TypeOK, MainFits
<1>3. ASSUME NEW n \in Mod PROVE UntouchedFits(n)' /\ CopyFits(n)' /\ EndedFits(n)'
  <2>1. UntouchedFits(n) /\ Started(n)' = Started(n)
    BY <1>1, MainFrame DEF IInv, ModFits
  <2>2. ~Started(n) => inside' # n
    BY <2>1 DEF UntouchedFits
  <2>3. UntouchedFits(n)'
    BY <1>1, <2>1, <2>2, ListedStays DEF UntouchedFits
  <2> QED
    BY <2>3 DEF CopyFits, EndedFits
<1> QED
  BY <1>1, <1>2, <1>3, MainInvariant

LEMMA ReturnKeeps ==
  ASSUME IInv, Return \/ CopyIsDone
  PROVE  IInv'
<1> USE DEF Return, CopyIsDone
<1>1. Calmly /\ inside' = NoMod /\ (main' = "idle" \/ main' = main) /\ todo' = todo /\ ended' = ended
  BY DEF Calmly, InWindow
<1>2. main' \in {"idle", "drain", "scene"} /\ known' \subseteq known
  OBVIOUS
<1>3. TypeOK' /\ MainFits'
  BY <1>1, <1>2 DEF IInv, TypeOK, MainFits
<1>4. ASSUME NEW n \in Mod PROVE UntouchedFits(n)' /\ CopyFits(n)' /\ EndedFits(n)'
  <2>1. UntouchedFits(n) /\ CopyFits(n) /\ Started(n)' = Started(n) /\ n # NoMod
    BY <1>1, MainFrame DEF IInv, ModFits
  <2>2. UntouchedFits(n)'
    BY <1>1, <2>1, ListedStays DEF UntouchedFits
  <2>3. CopyFits(n)' /\ EndedFits(n)'
    BY <1>1, <1>2, <2>1, ListedStays DEF CopyFits, EndedFits
  <2> QED
    BY <2>2, <2>3
<1> QED
  BY <1>1, <1>3, <1>4, MainInvariant

-----------------------------------------------------------------------------
(* Steps of the main thread that change registrations or the list *)
LEMMA CallbackRegistersKeeps ==
  ASSUME IInv, NEW k \in Kind, CallbackRegisters(k)
  PROVE  IInv'
<1> USE DEF CallbackRegisters
<1> DEFINE m == inside
<1>1. /\ m \in Mod /\ m \in mapped /\ ModFits(m) /\ Listed' = Listed
      /\ registered' \in [Mod -> SUBSET Kind]
      /\ \A n \in Mod : n # m => registered'[n] = registered[n]
  BY DEF IInv, TypeOK, Listed
<1>2. \A n : Current(n)' = Current(n) /\ Behind(n)' = Behind(n) /\ Started(n)' = Started(n)
  BY StayingFacts DEF IInv, Started
<1>3. TypeOK' /\ LoaderFits' /\ ListFits' /\ MainFits'
  BY <1>1 DEF IInv, TypeOK, LoaderFits, ListFits, MainFits, InOrder, InReverse, Before
<1>4. late \subseteq late' /\ late' \subseteq late \cup {m}
  OBVIOUS
<1>5. ASSUME NEW n \in Mod, n # m PROVE ModFits(n)'
  <2>1. /\ ModFits(n) /\ registered'[n] = registered[n]
        /\ (n \in refused' <=> n \in refused) /\ (n \in late' <=> n \in late)
        /\ (n \in known' <=> n \in known)
    BY <1>1, <1>4, <1>5 DEF IInv
  <2>2. UntouchedFits(n)' /\ CurrentFits(n)' /\ CopyFits(n)' /\ EndedFits(n)'
    BY <1>1, <1>2, <2>1 DEF ModFits, UntouchedFits, CurrentFits, CopyFits, EndedFits
  <2>3. UnloadFits(n)' /\ FreedFits(n)' /\ RefusedFits(n)'
    BY <1>1, <1>2, <2>1 DEF ModFits, UnloadFits, FreedFits, RefusedFits, InWindow, Loads
  <2> QED
    BY <2>2, <2>3 DEF ModFits
<1>6. ModFits(m)'
  <2>1. Started(m)
    BY <1>1 DEF ModFits, UntouchedFits
  <2>2. UntouchedFits(m)' /\ CurrentFits(m)' /\ FreedFits(m)'
    BY <1>1, <1>2, <2>1 DEF ModFits, UntouchedFits, CurrentFits, FreedFits
  <2>3. RefusedFits(m)' /\ CopyFits(m)'
    BY DEF RefusedFits, CopyFits
  <2>4. UnloadFits(m)'
    <3>1. SUFFICES ASSUME Current(m), m \notin late' PROVE loader = "init"
      BY <1>2 DEF UnloadFits, Removed
    <3> QED
      BY <3>1 DEF Loads, Current
  <2>5. EndedFits(m)'
    <3>1. SUFFICES ASSUME m \in ended, main \in {"shutdown", "release"}
                   PROVE  Behind(m) /\ \E i \in DOMAIN todo : todo[i].module = m
      BY <1>2 DEF EndedFits
    <3>2. todo # <<>> /\ todo[1].module = m
      BY <3>1 DEF IInv, MainFits
    <3>3. 1 \in DOMAIN todo
      BY <3>2, TailFacts DEF IInv, TypeOK
    <3> QED
      BY <1>1, <3>1, <3>2, <3>3 DEF ModFits, EndedFits
  <2> QED
    BY <2>2, <2>3, <2>4, <2>5 DEF ModFits
<1> QED
  BY <1>3, <1>5, <1>6 DEF IInv

LEMMA ReleaseKeeps ==
  ASSUME IInv, NEW fails \in BOOLEAN, Release(fails)
  PROVE  IInv'
<1> USE DEF Release
<1> DEFINE m == todo[1].module
<1>1. /\ todo \in Seq(LoadedNativeMod) /\ todo # <<>> /\ InReverse(todo)
      /\ todo' = Tail(todo) /\ inside' = NoMod /\ main' = "shutdown" /\ Listed' = Listed
  BY DEF IInv, TypeOK, MainFits, Listed
<1>2. /\ todo[1] \in LoadedNativeMod /\ todo' \in Seq(LoadedNativeMod)
      /\ \A i \in DOMAIN todo' : i + 1 \in DOMAIN todo /\ todo'[i] = todo[i + 1]
      /\ \A i \in DOMAIN todo : i = 1 \/ (i - 1 \in DOMAIN todo' /\ todo'[i - 1] = todo[i])
  BY <1>1, TailFacts
<1>3. /\ m \in Mod /\ registered'[m] \subseteq registered[m] \cap {"hook"}
      /\ registered' \in [Mod -> SUBSET Kind]
      /\ \A n \in Mod : n # m => registered'[n] = registered[n]
  <2>1. m \in Mod
    BY <1>2 DEF LoadedNativeMod
  <2> QED
    BY <2>1 DEF IInv, TypeOK
<1>4. \A n : Current(n)' = Current(n) /\ Behind(n)' = Behind(n) /\ Started(n)' = Started(n)
  BY StayingFacts DEF IInv, Started
<1>5. TypeOK' /\ LoaderFits' /\ ListFits'
  BY <1>1, <1>2, <1>3 DEF IInv, TypeOK, LoaderFits, ListFits, InOrder, Before
<1>6. MainFits'
  <2>1. ASSUME NEW i \in DOMAIN todo', NEW j \in DOMAIN todo', i < j
        PROVE  Before(todo'[j].module, todo'[i].module)
    <3>1. i + 1 \in DOMAIN todo /\ j + 1 \in DOMAIN todo /\ i + 1 < j + 1
      BY <1>1, <1>2, <2>1
    <3> QED
      BY <1>1, <1>2, <3>1 DEF InReverse
  <2>2. InReverse(todo')
    BY <2>1 DEF InReverse
  <2> QED
    BY <1>1, <2>2 DEF MainFits
<1>7. ASSUME NEW n \in Mod PROVE ModFits(n)'
  <2>1. ModFits(n) /\ registered'[n] \subseteq registered[n] /\ n # NoMod
    BY <1>3 DEF IInv
  <2>2. UntouchedFits(n)' /\ CurrentFits(n)' /\ CopyFits(n)'
    BY <1>1, <1>2, <1>4, <2>1 DEF ModFits, UntouchedFits, CurrentFits, CopyFits
  <2>3. UnloadFits(n)' /\ FreedFits(n)' /\ RefusedFits(n)'
    BY <1>1, <1>4, <2>1 DEF ModFits, UnloadFits, FreedFits, RefusedFits, InWindow, Loads
  <2>4. EndedFits(n)'
    <3>1. CASE n = m
      BY <1>3, <1>4, <2>1, <3>1 DEF ModFits, EndedFits
    <3>2. CASE n # m
      <4>1. (\E i \in DOMAIN todo : todo[i].module = n) => \E i \in DOMAIN todo' : todo'[i].module = n
        <5>1. ASSUME NEW i \in DOMAIN todo, todo[i].module = n
              PROVE  \E j \in DOMAIN todo' : todo'[j].module = n
          <6>1. i - 1 \in DOMAIN todo' /\ todo'[i - 1] = todo[i]
            BY <1>2, <3>2, <5>1
          <6> HIDE DEF Release
          <6> QED
            BY <5>1, <6>1
        <5> QED
          BY <5>1
      <4>2. EndedFits(n) /\ ended' = ended /\ registered'[n] = registered[n] /\ Behind(n)' = Behind(n)
        BY <1>3, <1>4, <2>1, <3>2 DEF ModFits
      <4> QED
        BY <4>1, <4>2 DEF EndedFits
    <3> QED
      BY <3>1, <3>2
  <2> QED
    BY <2>2, <2>3, <2>4 DEF ModFits
<1> QED
  BY <1>5, <1>6, <1>7 DEF IInv

LEMMA QuitKeeps ==
  ASSUME IInv, Quit
  PROVE  IInv'
<1> USE DEF Quit
<1>1. Listed' = Listed
  BY DEF Listed
<1>2. \A n : Current(n)' = Current(n) /\ Behind(n)' = Behind(n) /\ Started(n)' = Started(n)
  BY StayingFacts DEF IInv, Started
<1>3. TypeOK' /\ LoaderFits' /\ ListFits' /\ MainFits'
  BY DEF IInv, TypeOK, LoaderFits, ListFits, MainFits, InOrder, Before
<1>4. ASSUME NEW n \in Mod PROVE ModFits(n)'
  <2>1. ModFits(n)
    BY DEF IInv
  <2>2. UntouchedFits(n)' /\ CurrentFits(n)' /\ CopyFits(n)' /\ EndedFits(n)'
    BY <1>1, <1>2, <2>1 DEF ModFits, UntouchedFits, CurrentFits, CopyFits, EndedFits
  <2>3. UnloadFits(n)' /\ FreedFits(n)' /\ RefusedFits(n)'
    BY <1>1, <1>2, <2>1 DEF ModFits, UnloadFits, FreedFits, RefusedFits, InWindow, Loads
  <2> QED
    BY <2>2, <2>3 DEF ModFits
<1> QED
  BY <1>3, <1>4 DEF IInv

LEMMA ReverseFacts ==
  ASSUME NEW S, NEW s \in Seq(S)
  PROVE  /\ Reverse(s) \in Seq(S) /\ DOMAIN Reverse(s) = DOMAIN s
         /\ \A i \in DOMAIN s : Len(s) - i + 1 \in DOMAIN s /\ Reverse(s)[i] = s[Len(s) - i + 1]
         /\ \A i \in DOMAIN s : Len(s) - (Len(s) - i + 1) + 1 = i
<1>1. /\ Len(s) \in Nat /\ DOMAIN s = 1 .. Len(s) /\ \A i \in 1 .. Len(s) : s[i] \in S
      /\ \A i \in 1 .. Len(s) : Len(s) - i + 1 \in 1 .. Len(s)
  OBVIOUS
<1>2. Reverse(s) = [i \in 1 .. Len(s) |-> s[Len(s) - i + 1]]
  BY DEF Reverse
<1> QED
  BY <1>1, <1>2

LEMMA SwapKeeps ==
  ASSUME IInv, Swap
  PROVE  IInv'
<1> USE DEF Swap
<1>1. /\ loaded \in Seq(LoadedNativeMod) /\ InOrder(loaded) /\ loaded' = <<>>
      /\ inside = NoMod /\ inside' = NoMod
  BY DEF IInv, TypeOK, ListFits, MainFits
<1>2. /\ todo' \in Seq(LoadedNativeMod) /\ DOMAIN todo' = DOMAIN loaded
      /\ \A i \in DOMAIN loaded : Len(loaded) - i + 1 \in DOMAIN loaded
                                  /\ todo'[i] = loaded[Len(loaded) - i + 1]
      /\ \A i \in DOMAIN loaded : todo'[Len(loaded) - i + 1] = loaded[i]
  BY <1>1, ReverseFacts
<1>3. Listed' = {}
  BY DEF Listed
<1>4. \A n : Current(n)' = Current(n) /\ Behind(n)' = Behind(n) /\ Started(n)' = Started(n)
  BY StayingFacts DEF IInv, Started
<1>5. ended' \subseteq Mod
  <2>1. Listed \subseteq Mod
    BY ListedIsStarted DEF Listed
  <2> QED
    BY <2>1
<1>6. TypeOK' /\ LoaderFits' /\ ListFits'
  BY <1>1, <1>2, <1>5 DEF IInv, TypeOK, LoaderFits, ListFits, InOrder
<1>7. MainFits'
  <2>1. ASSUME NEW i \in DOMAIN todo', NEW j \in DOMAIN todo', i < j
        PROVE  Before(todo'[j].module, todo'[i].module)
    <3>1. Len(loaded) \in Nat /\ i \in 1 .. Len(loaded) /\ j \in 1 .. Len(loaded)
      <4>1. DOMAIN loaded = 1 .. Len(loaded) /\ Len(loaded) \in Nat
        BY <1>1
      <4> HIDE DEF Swap
      <4> QED
        BY <1>2, <4>1
    <3>2. Len(loaded) - j + 1 < Len(loaded) - i + 1
      <4> HIDE DEF Swap
      <4> QED
        BY <2>1, <3>1
    <3>3. /\ Len(loaded) - j + 1 \in DOMAIN loaded /\ todo'[j] = loaded[Len(loaded) - j + 1]
          /\ Len(loaded) - i + 1 \in DOMAIN loaded /\ todo'[i] = loaded[Len(loaded) - i + 1]
      BY <1>2
    <3> HIDE DEF Swap
    <3> QED
      BY <1>1, <3>2, <3>3 DEF InOrder
  <2>2. InReverse(todo')
    BY <2>1 DEF InReverse
  <2> QED
    BY <1>1, <2>2 DEF MainFits
<1>8. ASSUME NEW n \in Mod PROVE ModFits(n)'
  <2>1. ModFits(n) /\ n # NoMod /\ \A i \in DOMAIN todo' : \E j \in DOMAIN loaded : todo'[i] = loaded[j]
    BY <1>2 DEF IInv
  <2>2. UntouchedFits(n)'
    <3>1. SUFFICES ASSUME ~Started(n) PROVE UntouchedFits(n)'
      BY <1>4 DEF UntouchedFits
    <3>2. n \notin Listed /\ UntouchedFits(n)
      BY <2>1, <3>1 DEF ModFits, UntouchedFits
    <3>3. n \notin ended' /\ \A i \in DOMAIN todo' : todo'[i].module # n
      BY <2>1, <3>2 DEF Listed
    <3> QED
      BY <1>1, <1>3, <3>1, <3>2, <3>3 DEF UntouchedFits
  <2>3. CurrentFits(n)' /\ UnloadFits(n)' /\ FreedFits(n)'
    BY <1>1, <1>3, <1>4, <2>1 DEF ModFits, CurrentFits, UnloadFits, FreedFits, InWindow
  <2>4. RefusedFits(n)'
    BY <1>1, <1>4, <2>1 DEF ModFits, RefusedFits
  <2>5. CopyFits(n)'
    BY <1>1, <2>1 DEF ModFits, RefusedFits, CopyFits
  <2>6. EndedFits(n)'
    <3>1. SUFFICES ASSUME n \in Listed, ~Loads(n, loader)
                   PROVE  Behind(n) /\ \E i \in DOMAIN todo' : todo'[i].module = n
      BY <1>4 DEF EndedFits
    <3>2. PICK j \in DOMAIN loaded : loaded[j].module = n
      BY <3>1 DEF Listed
    <3>3. Len(loaded) - j + 1 \in DOMAIN todo' /\ todo'[Len(loaded) - j + 1].module = n
      BY <1>2, <3>2
    <3>4. Started(n)
      BY <3>2, ListedIsStarted
    <3> QED
      BY <3>1, <3>3, <3>4 DEF Started, Current, Loads
  <2> QED
    BY <2>2, <2>3, <2>4, <2>5, <2>6 DEF ModFits
<1> QED
  BY <1>6, <1>7, <1>8 DEF IInv

-----------------------------------------------------------------------------
LEMMA InitFits == Init => IInv
<1> SUFFICES ASSUME Init PROVE IInv
  OBVIOUS
<1> USE DEF Init
<1>1. Listed = {} /\ next = 1 /\ \A m \in Mod : registered[m] = {}
  BY DEF Listed
<1>2. TypeOK
  <2>1. next \in 1 .. Len(Plan) + 1
    BY PlanIsOrdered
  <2>2. loaded \in Seq(LoadedNativeMod) /\ todo \in Seq(LoadedNativeMod) /\ DOMAIN loaded = {}
    OBVIOUS
  <2> QED
    BY <2>1, <2>2 DEF TypeOK
<1>3. LoaderFits /\ ListFits /\ MainFits
  BY DEF LoaderFits, ListFits, MainFits, InOrder
<1>4. ASSUME NEW m \in Mod PROVE ModFits(m)
  <2>1. UntouchedFits(m) /\ CurrentFits(m) /\ RefusedFits(m) /\ CopyFits(m) /\ EndedFits(m)
    BY <1>1 DEF UntouchedFits, CurrentFits, RefusedFits, CopyFits, EndedFits
  <2>2. UnloadFits(m) /\ FreedFits(m)
    BY <1>1 DEF UnloadFits, FreedFits, InWindow
  <2> QED
    BY <2>1, <2>2 DEF ModFits
<1> QED
  BY <1>2, <1>3, <1>4 DEF IInv

LEMMA StutterKeeps ==
  ASSUME IInv, UNCHANGED vars
  PROVE  IInv'
<1> USE DEF vars
<1>1. Listed' = Listed
  BY DEF Listed
<1>2. \A n : Current(n)' = Current(n) /\ Behind(n)' = Behind(n) /\ Started(n)' = Started(n)
  BY StayingFacts DEF IInv, Started
<1>3. TypeOK' /\ LoaderFits' /\ ListFits' /\ MainFits'
  BY DEF IInv, TypeOK, LoaderFits, ListFits, MainFits, InOrder, InReverse, Before
<1>4. ASSUME NEW n \in Mod PROVE ModFits(n)'
  <2>1. ModFits(n)
    BY DEF IInv
  <2>2. UntouchedFits(n)' /\ CurrentFits(n)' /\ CopyFits(n)' /\ EndedFits(n)'
    BY <1>1, <1>2, <2>1 DEF ModFits, UntouchedFits, CurrentFits, CopyFits, EndedFits
  <2>3. UnloadFits(n)' /\ FreedFits(n)' /\ RefusedFits(n)'
    BY <1>1, <1>2, <2>1 DEF ModFits, UnloadFits, FreedFits, RefusedFits, InWindow, Loads
  <2> QED
    BY <2>2, <2>3 DEF ModFits
<1> QED
  BY <1>3, <1>4 DEF IInv

LEMMA StepFits == IInv /\ [Next]_vars => IInv'
<1> SUFFICES ASSUME IInv, [Next]_vars PROVE IInv'
  OBVIOUS
<1>1. ASSUME NEW m \in Mod, Load(m) PROVE IInv'
  BY <1>1, LoadLibraryKeeps, LoadLibraryFailsKeeps, CheckShutdownKeeps, RegisterKeeps,
     ModRegistersKeeps DEF Load
<1>2. ASSUME NEW m \in Mod, Unload(m) PROVE IInv'
  BY <1>2, UnregisteringKeeps, WaitForWindowKeeps, RefuseKeeps, FreeLibraryKeeps,
     UnregisterKeeps DEF Unload
<1>3. ASSUME Main PROVE IInv'
  BY <1>3, BeginDrainKeeps, DispatchSceneKeeps, InvokeKeeps, ReturnKeeps, CallbackRegistersKeeps,
     EnterKeeps, QuitKeeps, SwapKeeps, ModShutdownKeeps, ReleaseKeeps DEF Main
<1>4. CASE UNCHANGED vars
  BY <1>4, StutterKeeps
<1> QED
  BY <1>1, <1>2, <1>3, <1>4 DEF Next

(* The loader and the main thread never disagree about a mod: where the loader is  *)
(* with it decides whether it is mapped, listed, registered and called.            *)
THEOREM LifecycleInvariant == Spec => []IInv
<1>1. Init => IInv
  BY InitFits
<1>2. IInv /\ [Next]_vars => IInv'
  BY StepFits
<1> QED
  BY <1>1, <1>2, PTL DEF Spec

(* Every variable keeps its type, and no mod is listed twice. *)
THEOREM LifecycleTypes == Spec => []TypeOK
<1>1. IInv => TypeOK
  BY DEF IInv
<1> QED
  BY <1>1, LifecycleInvariant, PTL

(* URK_FreeLibrary leaves nothing of a mod behind, whatever the mods register and  *)
(* whenever, unless a callback of the mod registered while it was being freed.     *)
THEOREM FreedIsForgotten == Spec => []FreedModIsForgotten
<1>1. IInv => FreedModIsForgotten
  <2> SUFFICES ASSUME IInv, NEW m \in Mod \ mapped
               PROVE  /\ registered[m] # {} \/ InWindow(m) => m \in late
                      /\ m \in Listed => Loads(m, "forget")
    BY DEF FreedModIsForgotten, InWindow
  <2>1. FreedFits(m)
    BY DEF IInv, ModFits
  <2> QED
    BY <2>1 DEF FreedFits
<1> QED
  BY <1>1, LifecycleInvariant, PTL

(* A mod whose unload was refused is not called from a copy that was taken since.  *)
THEOREM RefusedIsQuiet == Spec => []RefusedModIsQuiet
<1>1. IInv => RefusedModIsQuiet
  <2> SUFFICES ASSUME IInv, main \in {"drain", "scene", "release"}, inside \in known \ late
               PROVE  FALSE
    BY DEF RefusedModIsQuiet
  <2>1. CopyFits(inside)
    BY DEF IInv, TypeOK, ModFits
  <2> QED
    BY <2>1 DEF CopyFits
<1> QED
  BY <1>1, LifecycleInvariant, PTL

(* The shutdown has released every later mod when it calls a mod's ModShutdown. *)
THEOREM LaterAreGone == Spec => []LaterModsAreGone
<1>1. IInv => LaterModsAreGone
  <2> SUFFICES ASSUME IInv, main = "release", inside # NoMod,
                      NEW i \in DOMAIN Plan, NEW j \in DOMAIN Plan,
                      Plan[i] = inside, i < j, Plan[j] \in ended
               PROVE  registered[Plan[j]] \subseteq {"hook"}
    BY DEF LaterModsAreGone
  <2>1. todo # <<>> /\ inside = todo[1].module /\ InReverse(todo) /\ todo \in Seq(LoadedNativeMod)
    BY DEF IInv, MainFits, TypeOK
  <2>2. Before(inside, Plan[j]) /\ Plan[j] \in Mod
    BY PlanIsOrdered DEF Before
  <2>3. ASSUME NEW k \in DOMAIN todo, todo[k].module = Plan[j] PROVE FALSE
    <3>1. k \in Nat /\ 1 \in DOMAIN todo /\ (k = 1 \/ 1 < k)
      BY <2>1
    <3>2. CASE k = 1
      BY <2>1, <2>2, <2>3, <3>2, BeforeIsStrict
    <3>3. CASE 1 < k
      <4>1. Before(todo[k].module, todo[1].module)
        BY <2>1, <3>1, <3>3 DEF InReverse
      <4> QED
        BY <2>1, <2>2, <2>3, <4>1, BeforeIsStrict
    <3> QED
      BY <3>1, <3>2, <3>3
  <2> QED
    BY <2>2, <2>3 DEF IInv, ModFits, EndedFits
<1> QED
  BY <1>1, LifecycleInvariant, PTL

(* At most one mod slips into the list behind the shutdown. *)
THEOREM AtMostOneIsMissed == Spec => []ShutdownMissesAtMostOne
<1>1. IInv => ShutdownMissesAtMostOne
  BY DEF IInv, ListFits, ShutdownMissesAtMostOne
<1> QED
  BY <1>1, LifecycleInvariant, PTL
=============================================================================
