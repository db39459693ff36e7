----------------------------- MODULE HookChainProofs -----------------------------
(* Theorems about the chains of inline hooks, for any functions, detours, mods and *)
(* threads.                                                                       *)
EXTENDS HookChain, FiniteSetTheorems, SequenceTheorems, WellFoundedInduction, TLAPS

-----------------------------------------------------------------------------
(* Counting up to K, without an induction over formulas: a set that has 0 and,    *)
(* with a number below K, the next one, has them all.                             *)
LEMMA Smallest ==
  ASSUME NEW T \in SUBSET Nat, T # {}
  PROVE  \E x \in T : \A y \in T : x <= y
<1> DEFINE R == {ss \in Nat \X Nat : ss[1] < ss[2]}
<1>1. IsWellFoundedOn(R, Nat)
  BY NatLessThanWellFounded DEF OpToRel
<1>2. PICK x \in T : \A y \in T : ~(<<y, x>> \in R)
  <2> HIDE DEF R
  <2> QED
    BY <1>1, WFMin
<1>3. ASSUME NEW y \in T PROVE x <= y
  <2>1. x \in Nat /\ y \in Nat /\ <<y, x>> \notin R
    BY <1>2
  <2>2. <<y, x>> \in Nat \X Nat /\ <<y, x>>[1] = y /\ <<y, x>>[2] = x
    BY <2>1
  <2>3. ~(y < x)
    BY <2>1, <2>2
  <2> QED
    BY <2>1, <2>3
<1> QED
  BY <1>3

LEMMA CountingUp ==
  ASSUME NEW K \in Nat, NEW T, 0 \in T, \A n \in 1 .. K : n - 1 \in T => n \in T
  PROVE  0 .. K \subseteq T
<1> SUFFICES ASSUME NEW y \in 0 .. K, y \notin T PROVE FALSE
  OBVIOUS
<1> DEFINE Out == {n \in 0 .. K : n \notin T}
<1>1. Out \in SUBSET Nat /\ Out # {}
  OBVIOUS
<1>2. PICK x \in Out : \A z \in Out : x <= z
  BY <1>1, Smallest
<1>3. x \in 1 .. K
  OBVIOUS
<1>4. x - 1 \in 0 .. K /\ x - 1 \notin Out
  BY <1>2, <1>3
<1> QED
  BY <1>3, <1>4

(* A function that is defined from its value one below exists. *)
LEMMA Recursion ==
  ASSUME NEW X, NEW a \in X, NEW K \in Nat, NEW next \in [1 .. K -> [X -> X]]
  PROVE  \E f \in [0 .. K -> X] : f[0] = a /\ \A n \in 1 .. K : f[n] = next[n][f[n - 1]]
<1> DEFINE Until(k, f) == \A n \in 0 .. k : f[n] = IF n = 0 THEN a ELSE next[n][f[n - 1]]
           Some(k) == \E f \in [0 .. K -> X] : Until(k, f)
<1>1. Some(0)
  <2> DEFINE f == [n \in 0 .. K |-> a]
  <2>1. f \in [0 .. K -> X]
    OBVIOUS
  <2>2. Until(0, f)
    OBVIOUS
  <2> HIDE DEF f, Until
  <2> QED
    BY <2>1, <2>2
<1>2. ASSUME NEW k \in 1 .. K, Some(k - 1) PROVE Some(k)
  <2>1. PICK f \in [0 .. K -> X] : Until(k - 1, f)
    BY <1>2
  <2> DEFINE g == [f EXCEPT ![k] = next[k][f[k - 1]]]
  <2>2. f[k - 1] \in X /\ next[k][f[k - 1]] \in X
    OBVIOUS
  <2>3. g \in [0 .. K -> X]
    BY <2>2
  <2>4. ASSUME NEW n \in 0 .. k PROVE g[n] = IF n = 0 THEN a ELSE next[n][g[n - 1]]
    <3>1. CASE n = k
      BY <3>1
    <3>2. CASE n # k
      BY <2>1, <3>2
    <3> QED
      BY <3>1, <3>2
  <2>5. Until(k, g)
    BY <2>4
  <2> HIDE DEF g, Until
  <2> QED
    BY <2>3, <2>5
<1>3. Some(K)
  <2> DEFINE T == {k \in 0 .. K : Some(k)}
  <2> HIDE DEF Some
  <2>1. 0 \in T
    BY <1>1
  <2>2. ASSUME NEW k \in 1 .. K, k - 1 \in T PROVE k \in T
    BY <1>2, <2>2
  <2> HIDE DEF T
  <2>3. 0 .. K \subseteq T
    BY <2>1, <2>2, CountingUp
  <2>4. K \in T
    BY <2>3
  <2> QED
    BY <2>4 DEF T
<1>4. PICK f \in [0 .. K -> X] : Until(K, f)
  BY <1>3
<1>5. f[0] = a /\ \A n \in 1 .. K : f[n] = next[n][f[n - 1]]
  BY <1>4
<1> QED
  BY <1>5

-----------------------------------------------------------------------------
(* Following a step from address to address.                                      *)
LEMMA AddressesAreFinite == IsFiniteSet(Address) /\ Cardinality(Address) \in Nat
  BY FinitenessAssumption, FS_Union, FS_CardinalityType DEF Address

LEMMA FollowedIsRun ==
  ASSUME NEW S, NEW a \in S, NEW next, \A x \in S : next[x] \in S
  PROVE  \E at \in [0 .. Cardinality(Address) -> S] :
            /\ at[0] = a /\ Followed(next, a) = at[Cardinality(Address)]
            /\ \A n \in 1 .. Cardinality(Address) : at[n] = next[at[n - 1]]
<1> DEFINE K == Cardinality(Address)
           at[n \in 0 .. K] == IF n = 0 THEN a ELSE next[at[n - 1]]
           on == [n \in 1 .. K |-> [x \in S |-> next[x]]]
<1>1. K \in Nat
  BY AddressesAreFinite
<1>2. PICK f \in [0 .. K -> S] : f[0] = a /\ \A n \in 1 .. K : f[n] = on[n][f[n - 1]]
  <2>1. on \in [1 .. K -> [S -> S]]
    OBVIOUS
  <2> HIDE DEF on, K, at
  <2>2. \E f \in [0 .. K -> S] : f[0] = a /\ \A n \in 1 .. K : f[n] = on[n][f[n - 1]]
    BY <1>1, <2>1, Recursion
  <2> QED
    BY <2>2
<1>3. f = [n \in 0 .. K |-> IF n = 0 THEN a ELSE next[f[n - 1]]]
  <2>1. ASSUME NEW n \in 0 .. K PROVE f[n] = IF n = 0 THEN a ELSE next[f[n - 1]]
    <3>1. CASE n = 0
      BY <1>2, <3>1
    <3>2. CASE n # 0
      <4>1. n \in 1 .. K /\ n - 1 \in 0 .. K
        BY <1>1, <3>2
      <4>2. f[n - 1] \in S /\ f[n] = on[n][f[n - 1]]
        BY <1>2, <4>1
      <4>3. on[n] = [x \in S |-> next[x]]
        BY <4>1
      <4> HIDE DEF on
      <4> QED
        BY <3>2, <4>2, <4>3
    <3> QED
      BY <3>1, <3>2
  <2> QED
    BY <2>1
<1>4. at = [n \in 0 .. K |-> IF n = 0 THEN a ELSE next[at[n - 1]]]
  <2> HIDE DEF K
  <2> QED
    BY <1>3
<1>5. Followed(next, a) = at[K]
  BY DEF Followed
<1> HIDE DEF at
<1>6. at[0] = a /\ \A n \in 1 .. K : at[n] = next[at[n - 1]]
  BY <1>1, <1>4
<1>7. \A n \in 0 .. K : at[n] \in S
  <2> DEFINE T == {n \in 0 .. K : at[n] \in S}
  <2> HIDE DEF K
  <2>1. 0 \in T
    BY <1>1, <1>6
  <2>2. ASSUME NEW n \in 1 .. K, n - 1 \in T PROVE n \in T
    BY <1>6, <2>2
  <2>3. 0 .. K \subseteq T
    <3> HIDE DEF T
    <3> QED
      BY <1>1, <2>1, <2>2, CountingUp
  <2> QED
    BY <2>3
<1>8. at \in [0 .. K -> S]
  BY <1>4, <1>7
<1> QED
  BY <1>5, <1>6, <1>8

(* A run whose every step comes nearer to an end, where it stays, has reached it  *)
(* after as many steps as there are addresses.                                    *)
LEMMA FollowedEnds ==
  ASSUME NEW S \in SUBSET Address, NEW a \in S, NEW end \in S, NEW next, NEW rank \in [S -> Nat],
         next[end] = end,
         \A x \in S \ {end} : next[x] \in S /\ rank[next[x]] < rank[x]
  PROVE  Followed(next, a) = end
<1> DEFINE K == Cardinality(Address)
<1>1. K \in Nat /\ IsFiniteSet(Address)
  BY AddressesAreFinite
<1>2. PICK at \in [0 .. K -> S] : /\ at[0] = a /\ Followed(next, a) = at[K]
                                  /\ \A n \in 1 .. K : at[n] = next[at[n - 1]]
  <2>1. \A x \in S : next[x] \in S
    OBVIOUS
  <2> QED
    BY <2>1, FollowedIsRun
<1> SUFFICES ASSUME at[K] # end PROVE FALSE
  BY <1>2
<1> HIDE DEF K
<1>3. \A n \in 0 .. K : at[K - n] # end
  <2> DEFINE T == {n \in 0 .. K : at[K - n] # end}
  <2>1. 0 \in T
    BY <1>1
  <2>2. ASSUME NEW n \in 1 .. K, n - 1 \in T PROVE n \in T
    <3>1. K - n \in 0 .. K /\ (K - n) + 1 \in 1 .. K /\ K - (n - 1) = (K - n) + 1
          /\ ((K - n) + 1) - 1 = K - n
      BY <1>1
    <3>2. at[(K - n) + 1] = next[at[K - n]]
      BY <1>2, <3>1
    <3> QED
      BY <2>2, <3>1, <3>2
  <2> HIDE DEF T
  <2>3. 0 .. K \subseteq T
    BY <1>1, <2>1, <2>2, CountingUp
  <2> QED
    BY <2>3 DEF T
<1>4. \A n \in 0 .. K : at[n] # end
  <2> TAKE n \in 0 .. K
  <2>1. K - n \in 0 .. K /\ K - (K - n) = n
    BY <1>1
  <2> QED
    BY <1>3, <2>1
<1>5. ASSUME NEW n \in 1 .. K PROVE rank[at[n]] < rank[at[n - 1]]
  <2>1. n - 1 \in 0 .. K
    BY <1>1
  <2> QED
    BY <1>2, <1>4, <2>1
<1>6. \A n \in 0 .. K : \A i \in 0 .. n - 1 : rank[at[n]] < rank[at[i]]
  <2> DEFINE Below(n) == \A i \in 0 .. n - 1 : rank[at[n]] < rank[at[i]]
             T == {n \in 0 .. K : Below(n)}
  <2>1. 0 \in T
    BY <1>1
  <2>2. ASSUME NEW n \in 1 .. K, n - 1 \in T PROVE n \in T
    <3>1. ASSUME NEW i \in 0 .. n - 1 PROVE rank[at[n]] < rank[at[i]]
      <4>0. n - 1 \in 0 .. K /\ i \in 0 .. K /\ rank[at[n]] \in Nat /\ rank[at[n - 1]] \in Nat
            /\ rank[at[i]] \in Nat
        BY <1>1
      <4>1. CASE i = n - 1
        BY <1>5, <4>1
      <4>2. CASE i # n - 1
        <5>1. i \in 0 .. (n - 1) - 1
          BY <1>1, <4>2
        <5>2. rank[at[n - 1]] < rank[at[i]]
          BY <2>2, <5>1
        <5> QED
          BY <1>5, <4>0, <5>2
      <4> QED
        BY <4>1, <4>2
    <3> QED
      BY <3>1
  <2> HIDE DEF T
  <2>3. 0 .. K \subseteq T
    BY <1>1, <2>1, <2>2, CountingUp
  <2> QED
    BY <2>3 DEF T
<1>7. PICK i, j \in 0 .. K : i # j /\ at[i] = at[j]
  <2>1. IsFiniteSet(0 .. K) /\ Cardinality(0 .. K) = K + 1
    BY <1>1, FS_Interval
  <2>2. at \in [0 .. K -> Address] /\ K < K + 1
    BY <1>1
  <2>3. Cardinality(Address) < Cardinality(0 .. K)
    BY <2>1, <2>2 DEF K
  <2> QED
    BY <1>1, <2>1, <2>2, <2>3, FS_PigeonHole
<1>8. i < j \/ j < i
  BY <1>1, <1>7
<1>9. rank[at[i]] \in Nat
  OBVIOUS
<1> QED
  BY <1>1, <1>6, <1>7, <1>8, <1>9

-----------------------------------------------------------------------------
(* A chain on one function                                                        *)

Of(t) == {d \in Detour : TargetOf[d] = t}
At(t) == {t} \cup Of(t)

(* A list of different detours for t *)
ListOf(list, t) ==
    /\ list \in Seq(Of(t))
    /\ \A i, j \in 1 .. Len(list) : list[i] = list[j] => i = j

(* The first p hooks of a list are patched in, and nothing else is; the first s    *)
(* slots hold the trampolines of the patches.                                     *)
Patches(pt, list, p, t) ==
    /\ \A i \in 1 .. p : pt[Before(list, i, t)] = list[i]
    /\ \A a \in At(t) : (\A i \in 1 .. p : a # Before(list, i, t)) => pt[a] = NoDetour
Slots(sl, list, s, t) == \A i \in 1 .. s : sl[list[i]] = Trampoline(Before(list, i, t))

LEMMA BeforeIsThere ==
  ASSUME NEW t \in Target, NEW list, ListOf(list, t)
  PROVE  /\ Len(list) \in Nat
         /\ \A i \in 1 .. Len(list) : list[i] \in Of(t) /\ list[i] \in Detour
         /\ \A i \in 1 .. Len(list) + 1 : Before(list, i, t) \in At(t)
         /\ \A i \in 2 .. Len(list) + 1 : Before(list, i, t) = list[i - 1] /\ i - 1 \in 1 .. Len(list)
<1>1. Len(list) \in Nat /\ \A i \in 1 .. Len(list) : list[i] \in Of(t)
  BY ElementOfSeq, LenProperties DEF ListOf
<1>2. \A i \in 2 .. Len(list) + 1 : Before(list, i, t) = list[i - 1] /\ i - 1 \in 1 .. Len(list)
  BY <1>1 DEF Before
<1>3. Before(list, 1, t) = t
  BY DEF Before
<1> QED
  BY <1>1, <1>2, <1>3 DEF At, Of

LEMMA BeforeIsInjective ==
  ASSUME NEW t \in Target, NEW list, ListOf(list, t),
         NEW i \in 1 .. Len(list) + 1, NEW j \in 1 .. Len(list) + 1,
         Before(list, i, t) = Before(list, j, t)
  PROVE  i = j
<1>1. \A k \in 2 .. Len(list) + 1 : Before(list, k, t) = list[k - 1] /\ k - 1 \in 1 .. Len(list)
                                     /\ list[k - 1] # t
  BY BeforeIsThere, AddressAssumption DEF Of
<1>2. Before(list, 1, t) = t /\ Len(list) \in Nat
  BY BeforeIsThere DEF Before
<1>3. CASE i = 1 \/ j = 1
  BY <1>1, <1>2, <1>3
<1>4. CASE i # 1 /\ j # 1
  <2>1. i \in 2 .. Len(list) + 1 /\ j \in 2 .. Len(list) + 1
    BY <1>2, <1>4
  <2>2. list[i - 1] = list[j - 1] /\ i - 1 \in 1 .. Len(list) /\ j - 1 \in 1 .. Len(list)
    BY <1>1, <2>1
  <2>3. i - 1 = j - 1
    BY <2>2 DEF ListOf
  <2> QED
    BY <1>2, <2>1, <2>3
<1> QED
  BY <1>3, <1>4

LEMMA AtIsAddress == \A t \in Target : At(t) \subseteq Address
  BY DEF At, Of, Address

(* A call of a function with a list of hooks, or of a detour in the list, enters  *)
(* the newest of them; an address that is not patched is entered itself.          *)
LEMMA EntersNewest ==
  ASSUME NEW t \in Target, NEW list, ListOf(list, t), Patches(patch, list, Len(list), t),
         NEW i \in 1 .. Len(list) + 1
  PROVE  Entered(Before(list, i, t)) = Before(list, Len(list) + 1, t)
<1> DEFINE N == Len(list)
           B(k) == Before(list, k, t)
           S == {B(k) : k \in 1 .. N + 1}
           next == [b \in Address |-> IF patch[b] = NoDetour THEN b ELSE patch[b]]
           place == [x \in S |-> CHOOSE k \in 1 .. N + 1 : B(k) = x]
           rank == [x \in S |-> (N + 1) - place[x]]
<1>1. N \in Nat /\ \A k \in 1 .. N + 1 : B(k) \in At(t)
  BY BeforeIsThere
<1>2. \A k \in 1 .. N + 1 : place[B(k)] = k
  <2> TAKE k \in 1 .. N + 1
  <2>1. \A j \in 1 .. N + 1 : B(j) = B(k) => j = k
    BY BeforeIsInjective
  <2> HIDE DEF B, N
  <2> QED
    BY <2>1
<1>3. S \in SUBSET Address
  BY <1>1, AtIsAddress
<1>4. rank \in [S -> Nat] /\ \A k \in 1 .. N + 1 : rank[B(k)] = (N + 1) - k
  <2> HIDE DEF B, N, place
  <2> QED
    BY <1>1, <1>2
<1>5. next[B(N + 1)] = B(N + 1)
  <2>1. \A k \in 1 .. N : B(N + 1) # B(k)
    <3> TAKE k \in 1 .. N
    <3>1. N + 1 \in 1 .. N + 1 /\ k \in 1 .. N + 1 /\ N + 1 # k
      BY <1>1
    <3> QED
      BY <3>1, BeforeIsInjective
  <2>2. B(N + 1) \in At(t) /\ B(N + 1) \in Address
    BY <1>1, AtIsAddress
  <2>3. patch[B(N + 1)] = NoDetour
    BY <2>1, <2>2 DEF Patches
  <2> HIDE DEF B, N
  <2> QED
    BY <2>2, <2>3
<1>6. ASSUME NEW x \in S \ {B(N + 1)} PROVE next[x] \in S /\ rank[next[x]] < rank[x]
  <2>1. PICK k \in 1 .. N + 1 : x = B(k)
    OBVIOUS
  <2>2. k \in 1 .. N /\ k + 1 \in 1 .. N + 1 /\ B(k + 1) = list[k]
    <3>1. k # N + 1
      BY <1>6, <2>1
    <3>2. k \in 1 .. N /\ k + 1 \in 2 .. N + 1 /\ (k + 1) - 1 = k
      BY <1>1, <3>1
    <3> QED
      BY <3>2, BeforeIsThere
  <2>3. patch[B(k)] = list[k] /\ list[k] # NoDetour
    BY <2>2, BeforeIsThere, NoneAssumption DEF Patches
  <2>4. x \in Address
    BY <1>3
  <2>5. next[x] = B(k + 1)
    <3> HIDE DEF B, N
    <3> QED
      BY <2>1, <2>2, <2>3, <2>4
  <2>6. rank[B(k)] = (N + 1) - k /\ rank[B(k + 1)] = (N + 1) - (k + 1)
    BY <1>4, <2>1, <2>2
  <2>7. (N + 1) - (k + 1) < (N + 1) - k
    BY <1>1
  <2> HIDE DEF B, N, rank, next
  <2> QED
    BY <2>1, <2>2, <2>5, <2>6, <2>7
<1>7. B(i) \in S /\ B(N + 1) \in S
  BY <1>1
<1>8. Followed(next, B(i)) = B(N + 1)
  <2> HIDE DEF B, N, S, rank, next
  <2> QED
    BY <1>3, <1>4, <1>5, <1>6, <1>7, FollowedEnds
<1> QED
  BY <1>8 DEF Entered

LEMMA EntersUnpatched ==
  ASSUME NEW a \in Address, patch[a] = NoDetour
  PROVE  Entered(a) = a
<1> DEFINE next == [b \in Address |-> IF patch[b] = NoDetour THEN b ELSE patch[b]]
<1>1. next[a] = a
  OBVIOUS
<1>2. {a} \in SUBSET Address /\ a \in {a} /\ [x \in {a} |-> 0] \in [{a} -> Nat] /\ {a} \ {a} = {}
  OBVIOUS
<1>3. Followed(next, a) = a
  <2> HIDE DEF next
  <2> QED
    BY <1>1, <1>2, FollowedEnds
<1> QED
  BY <1>3 DEF Entered

(* The slot of a detour outside the list holds an address: the function, a hook of *)
(* the list, or a detour that is older in a chain to which both belong or belonged. *)
InList(list, a) == \E i \in 1 .. Len(list) : list[i] = a
Older(chain, a, d) == \E i \in 1 .. Len(chain) : \E j \in 1 .. i - 1 : chain[j] = a /\ chain[i] = d
Strays(sl, list, chain, t) ==
    \A d \in Of(t) : InList(list, d) \/ /\ sl[d].kind = "code"
                                        /\ \/ sl[d].to = t
                                           \/ InList(list, sl[d].to)
                                           \/ Older(chain, sl[d].to, d)

(* What a stray detour reaches is in the list, the function, or an older stray.   *)
LEMMA StrayContinues ==
  ASSUME NEW t \in Target, NEW list, NEW chain, ListOf(list, t), ListOf(chain, t),
         Patches(patch, list, Len(list), t), Strays(slot, list, chain, t),
         NEW d \in Of(t), ~InList(list, d)
  PROVE  \/ Continued(d) = Before(list, Len(list) + 1, t)
         \/ Continued(d) \in Of(t) /\ ~InList(list, Continued(d)) /\ Older(chain, Continued(d), d)
<1> DEFINE a == slot[d].to
<1>1. Continued(d) = Entered(a)
  BY DEF Strays, Continued
<1>2. CASE a = t
  <2>1. a = Before(list, 1, t) /\ 1 \in 1 .. Len(list) + 1
    BY <1>2, BeforeIsThere DEF Before
  <2> QED
    BY <1>1, <2>1, EntersNewest
<1>3. CASE InList(list, a)
  <2>1. PICK i \in 1 .. Len(list) : list[i] = a
    BY <1>3 DEF InList
  <2>2. i + 1 \in 2 .. Len(list) + 1 /\ (i + 1) - 1 = i /\ i + 1 \in 1 .. Len(list) + 1
    BY BeforeIsThere
  <2>3. a = Before(list, i + 1, t)
    BY <2>1, <2>2, BeforeIsThere
  <2> QED
    BY <1>1, <2>2, <2>3, EntersNewest
<1>4. CASE Older(chain, a, d) /\ ~InList(list, a) /\ a # t
  <2>1. a \in Of(t)
    <3>1. PICK i \in 1 .. Len(chain) : \E j \in 1 .. i - 1 : chain[j] = a
      BY <1>4 DEF Older
    <3>2. PICK j \in 1 .. i - 1 : chain[j] = a
      BY <3>1
    <3>3. j \in 1 .. Len(chain)
      BY BeforeIsThere
    <3> QED
      BY <3>2, <3>3, BeforeIsThere
  <2>2. \A i \in 1 .. Len(list) : a # Before(list, i, t)
    <3> TAKE i \in 1 .. Len(list)
    <3>1. CASE i = 1
      BY <1>4, <3>1 DEF Before
    <3>2. CASE i # 1
      <4>1. i \in 2 .. Len(list) + 1
        BY <3>2, BeforeIsThere
      <4>2. Before(list, i, t) = list[i - 1] /\ i - 1 \in 1 .. Len(list)
        BY <4>1, BeforeIsThere
      <4> QED
        BY <1>4, <4>2 DEF InList
    <3> QED
      BY <3>1, <3>2
  <2>3. patch[a] = NoDetour /\ a \in Address
    BY <2>1, <2>2, AtIsAddress DEF Patches, At
  <2> QED
    BY <1>1, <1>4, <2>1, <2>3, EntersUnpatched
<1> QED
  BY <1>2, <1>3, <1>4 DEF Strays

(* From every detour of t, in the list or not, the originals lead to t.           *)
LEMMA AllEndInTarget ==
  ASSUME NEW t \in Target, NEW list, NEW chain, ListOf(list, t), ListOf(chain, t),
         Patches(patch, list, Len(list), t), Slots(slot, list, Len(list), t), Strays(slot, list, chain, t),
         NEW e \in Of(t)
  PROVE  EndsIn(e) = t
<1> DEFINE N == Len(list)
           next == [b \in Address \cup {"wild"} |-> IF b \in Detour THEN Continued(b) ELSE b]
           place == [x \in At(t) |-> CHOOSE i \in 1 .. N : list[i] = x]
           age == [x \in At(t) |-> IF InList(chain, x) THEN CHOOSE i \in 1 .. Len(chain) : chain[i] = x
                                                       ELSE 0]
           rank == [x \in At(t) |-> IF x = t THEN 0
                                    ELSE IF InList(list, x) THEN place[x] ELSE N + 1 + age[x]]
<1>1. N \in Nat /\ Len(chain) \in Nat
  BY BeforeIsThere
<1>2. t \notin Of(t) /\ t \notin Detour /\ t \in At(t) /\ Of(t) \subseteq Detour /\ At(t) = {t} \cup Of(t)
  BY AddressAssumption DEF Of, At
<1>3. \A i \in 1 .. N : list[i] \in Of(t) /\ InList(list, list[i]) /\ place[list[i]] = i
  <2> TAKE i \in 1 .. N
  <2>1. list[i] \in Of(t) /\ list[i] \in At(t)
    BY BeforeIsThere, <1>2
  <2>2. InList(list, list[i])
    BY DEF InList
  <2>3. \A j \in 1 .. N : list[j] = list[i] => j = i
    BY DEF ListOf
  <2> QED
    BY <2>1, <2>2, <2>3
<1>4. \A i \in 1 .. Len(chain) : age[chain[i]] = i
  <2> TAKE i \in 1 .. Len(chain)
  <2>1. chain[i] \in At(t) /\ InList(chain, chain[i])
    BY BeforeIsThere, <1>2 DEF InList
  <2>2. \A j \in 1 .. Len(chain) : chain[j] = chain[i] => j = i
    BY DEF ListOf
  <2> QED
    BY <2>1, <2>2
<1>5. \A x \in At(t) : age[x] \in Nat
  <2> TAKE x \in At(t)
  <2>1. CASE InList(chain, x)
    BY <1>1, <1>4, <2>1 DEF InList
  <2>2. CASE ~InList(chain, x)
    BY <2>2
  <2> QED
    BY <2>1, <2>2
<1>6. \A x \in At(t) : InList(list, x) => place[x] \in Nat
  BY <1>1, <1>3 DEF InList
<1>7. rank \in [At(t) -> Nat]
  <2> HIDE DEF place, age, N
  <2> QED
    BY <1>1, <1>5, <1>6
<1>8. \A i \in 1 .. N : rank[list[i]] = i
  <2> HIDE DEF place, age, N
  <2> QED
    BY <1>2, <1>3
<1>9. next[t] = t
  BY <1>2 DEF Address
<1>10. \A i \in 1 .. N + 1 : rank[Before(list, i, t)] = i - 1
  <2> TAKE i \in 1 .. N + 1
  <2>1. CASE i = 1
    <3>1. Before(list, i, t) = t
      BY <2>1 DEF Before
    <3>2. rank[t] = 0
      BY <1>2
    <3> HIDE DEF rank
    <3> QED
      BY <2>1, <3>1, <3>2
  <2>2. CASE i # 1
    <3>1. i \in 2 .. N + 1
      BY <1>1, <2>2
    <3>2. Before(list, i, t) = list[i - 1] /\ i - 1 \in 1 .. N
      BY <3>1, BeforeIsThere
    <3> HIDE DEF rank
    <3> QED
      BY <1>8, <3>2
  <2> QED
    BY <2>1, <2>2
<1>11. ASSUME NEW x \in At(t) \ {t} PROVE next[x] \in At(t) /\ rank[next[x]] < rank[x]
  <2>1. x \in Of(t) /\ x \in Detour /\ next[x] = Continued(x)
    BY <1>2 DEF Address
  <2>2. CASE InList(list, x)
    <3>1. PICK i \in 1 .. N : list[i] = x
      BY <2>2 DEF InList
    <3>2. Continued(x) = Before(list, i, t)
      <4>1. slot[x] = Trampoline(Before(list, i, t))
        BY <3>1 DEF Slots
      <4>2. slot[x].kind = "trampoline" /\ slot[x].to = Before(list, i, t)
        BY <4>1 DEF Trampoline
      <4> QED
        BY <4>2 DEF Continued
    <3>3. i \in 1 .. N + 1 /\ i - 1 < i
      BY <1>1
    <3>4. Before(list, i, t) \in At(t)
      BY <3>3, BeforeIsThere
    <3> HIDE DEF rank, next
    <3> QED
      BY <1>8, <1>10, <2>1, <3>1, <3>2, <3>3, <3>4
  <2>3. CASE ~InList(list, x) /\ Continued(x) = Before(list, N + 1, t)
    <3>1. rank[x] = N + 1 + age[x]
      BY <2>3
    <3>2. N + 1 \in 1 .. N + 1 /\ rank[Before(list, N + 1, t)] = N
      <4> HIDE DEF rank, N
      <4> QED
        BY <1>1, <1>10
    <3>3. Before(list, N + 1, t) \in At(t)
      BY <3>2, BeforeIsThere
    <3> HIDE DEF rank, next, age
    <3> QED
      BY <1>1, <1>5, <2>1, <2>3, <3>1, <3>2, <3>3
  <2>4. CASE /\ ~InList(list, x) /\ Continued(x) \in Of(t) /\ ~InList(list, Continued(x))
             /\ Older(chain, Continued(x), x)
    <3>1. PICK i \in 1 .. Len(chain) : \E j \in 1 .. i - 1 : chain[j] = Continued(x) /\ chain[i] = x
      BY <2>4 DEF Older
    <3>2. PICK j \in 1 .. i - 1 : chain[j] = Continued(x)
      BY <3>1
    <3>3. j \in 1 .. Len(chain) /\ j < i /\ age[x] = i /\ age[Continued(x)] = j
      BY <1>1, <1>4, <3>1, <3>2
    <3>4. rank[x] = N + 1 + age[x] /\ rank[Continued(x)] = N + 1 + age[Continued(x)]
      BY <1>2, <2>4
    <3> HIDE DEF rank, next, age
    <3> QED
      BY <1>1, <1>2, <2>1, <2>4, <3>3, <3>4
  <2> QED
    BY <2>1, <2>2, <2>3, <2>4, StrayContinues
<1>12. Followed(next, e) = t
  <2>1. At(t) \in SUBSET Address /\ e \in At(t) /\ t \in At(t)
    BY <1>2, AtIsAddress
  <2> HIDE DEF rank, next, place, age, N
  <2> QED
    BY <1>7, <1>9, <1>11, <2>1, FollowedEnds
<1> QED
  BY <1>12 DEF EndsIn

-----------------------------------------------------------------------------
(* RecordsExcept keeps the order of the hooks and drops just those of the set.     *)

KeptUpTo(C, t, out, n, list) ==
    /\ ListOf(list, t)
    /\ \A d \in Detour : InList(list, d) <=> d \notin out /\ \E i \in 1 .. n : C[i] = d
    /\ \A j \in 2 .. Len(list) : Older(C, list[j - 1], list[j])

LEMMA KeptNext ==
  ASSUME NEW t \in Target, NEW C, ListOf(C, t), NEW out,
         NEW n \in 1 .. Len(C), NEW list, KeptUpTo(C, t, out, n - 1, list)
  PROVE  KeptUpTo(C, t, out, n, IF C[n] \in out THEN list ELSE Append(list, C[n]))
<1> DEFINE d == C[n]
<1>1. d \in Of(t) /\ d \in Detour /\ Len(C) \in Nat /\ n - 1 \in 0 .. Len(C)
  BY BeforeIsThere
<1>2. ListOf(list, t) /\ Len(list) \in Nat
  BY BeforeIsThere DEF KeptUpTo
<1>3. \A e \in Detour : (\E i \in 1 .. n : C[i] = e) <=> e = d \/ \E i \in 1 .. n - 1 : C[i] = e
  <2>1. \A i \in 1 .. n : i = n \/ i \in 1 .. n - 1
    BY <1>1
  <2>2. \A i \in 1 .. n - 1 : i \in 1 .. n
    BY <1>1
  <2>3. n \in 1 .. n
    BY <1>1
  <2> QED
    BY <2>1, <2>2, <2>3
<1>4. CASE d \in out
  BY <1>3, <1>4 DEF KeptUpTo
<1>5. CASE d \notin out
  <2> DEFINE L == Append(list, d)
  <2>1. /\ L \in Seq(Of(t)) /\ Len(L) = Len(list) + 1 /\ L[Len(list) + 1] = d
        /\ \A i \in 1 .. Len(list) : L[i] = list[i]
    BY <1>1, <1>2, AppendProperties DEF ListOf
  <2>2. \A i \in 1 .. n - 1 : C[i] # d
    <3> TAKE i \in 1 .. n - 1
    <3>1. i \in 1 .. Len(C) /\ i # n
      BY <1>1
    <3> QED
      BY <3>1 DEF ListOf
  <2>3. ~InList(list, d)
    BY <1>1, <2>2 DEF KeptUpTo
  <2> HIDE DEF L
  <2>4. \A e : InList(L, e) <=> InList(list, e) \/ e = d
    BY <1>2, <2>1 DEF InList
  <2>5. ListOf(L, t)
    <3>1. ASSUME NEW i \in 1 .. Len(L), NEW j \in 1 .. Len(L), L[i] = L[j] PROVE i = j
      <4>1. i \in 1 .. Len(list) \/ i = Len(list) + 1
        BY <1>2, <2>1
      <4>2. j \in 1 .. Len(list) \/ j = Len(list) + 1
        BY <1>2, <2>1
      <4>3. CASE i \in 1 .. Len(list) /\ j \in 1 .. Len(list)
        BY <1>2, <2>1, <3>1, <4>3 DEF ListOf
      <4>4. CASE i = Len(list) + 1 /\ j = Len(list) + 1
        BY <4>4
      <4>5. CASE i \in 1 .. Len(list) /\ j = Len(list) + 1
        BY <2>1, <2>3, <3>1, <4>5 DEF InList
      <4>6. CASE i = Len(list) + 1 /\ j \in 1 .. Len(list)
        BY <2>1, <2>3, <3>1, <4>6 DEF InList
      <4> QED
        BY <4>1, <4>2, <4>3, <4>4, <4>5, <4>6
    <3> QED
      BY <2>1, <3>1 DEF ListOf
  <2>6. \A e \in Detour : InList(L, e) <=> e \notin out /\ \E i \in 1 .. n : C[i] = e
    BY <1>3, <1>5, <2>4 DEF KeptUpTo
  <2>7. ASSUME NEW j \in 2 .. Len(L) PROVE Older(C, L[j - 1], L[j])
    <3>1. CASE j \in 2 .. Len(list)
      <4>1. j - 1 \in 1 .. Len(list) /\ j \in 1 .. Len(list)
        BY <1>2, <3>1
      <4> QED
        BY <2>1, <3>1, <4>1 DEF KeptUpTo
    <3>2. CASE j = Len(list) + 1
      <4>1. j - 1 \in 1 .. Len(list) /\ L[j - 1] = list[j - 1] /\ L[j] = d
        BY <1>2, <2>1, <3>2
      <4>2. list[j - 1] \in Detour /\ InList(list, list[j - 1])
        BY <1>2, <4>1, BeforeIsThere DEF InList
      <4>3. PICK i \in 1 .. n - 1 : C[i] = list[j - 1]
        BY <4>2 DEF KeptUpTo
      <4> QED
        BY <4>1, <4>3 DEF Older
    <3> QED
      BY <1>2, <2>1, <3>1, <3>2
  <2> QED
    BY <1>5, <2>5, <2>6, <2>7 DEF KeptUpTo, L
<1> QED
  BY <1>4, <1>5

LEMMA WithoutKeeps ==
  ASSUME NEW t \in Target, NEW C, ListOf(C, t), NEW out
  PROVE  KeptUpTo(C, t, out, Len(C), Without(C, out))
<1> DEFINE N == Len(C)
           X == Seq(Of(t))
           at[n \in 0 .. N] == IF n = 0 THEN <<>>
                               ELSE IF C[n] \in out THEN at[n - 1] ELSE Append(at[n - 1], C[n])
           next == [n \in 1 .. N |-> [l \in X |-> IF C[n] \in out THEN l ELSE Append(l, C[n])]]
<1>1. N \in Nat /\ \A n \in 1 .. N : C[n] \in Of(t)
  BY BeforeIsThere
<1>2. PICK f \in [0 .. N -> X] : f[0] = <<>> /\ \A n \in 1 .. N : f[n] = next[n][f[n - 1]]
  <2>1. next \in [1 .. N -> [X -> X]]
    <3>1. ASSUME NEW n \in 1 .. N, NEW l \in X PROVE Append(l, C[n]) \in X
      BY <1>1, AppendProperties
    <3> HIDE DEF X, N
    <3> QED
      BY <3>1
  <2>2. <<>> \in X
    BY EmptySeq
  <2>3. N \in Nat
    BY <1>1
  <2> HIDE DEF next, N, X
  <2> QED
    BY <2>1, <2>2, <2>3, Recursion
<1>3. f = [n \in 0 .. N |-> IF n = 0 THEN <<>>
                            ELSE IF C[n] \in out THEN f[n - 1] ELSE Append(f[n - 1], C[n])]
  <2>1. ASSUME NEW n \in 1 .. N
        PROVE  f[n] = IF C[n] \in out THEN f[n - 1] ELSE Append(f[n - 1], C[n])
    <3>1. n - 1 \in 0 .. N
      BY <1>1
    <3>2. f[n - 1] \in X /\ f[n] = next[n][f[n - 1]]
      BY <1>2, <3>1
    <3>3. next[n] = [l \in X |-> IF C[n] \in out THEN l ELSE Append(l, C[n])]
      OBVIOUS
    <3> HIDE DEF next, X, N
    <3> QED
      BY <3>2, <3>3
  <2>2. \A n \in 0 .. N : n = 0 \/ n \in 1 .. N
    BY <1>1
  <2> HIDE DEF N, X, next
  <2> QED
    BY <1>2, <2>1, <2>2
<1>4. at = [n \in 0 .. N |-> IF n = 0 THEN <<>>
                             ELSE IF C[n] \in out THEN at[n - 1] ELSE Append(at[n - 1], C[n])]
  <2> HIDE DEF N, next, X
  <2> QED
    BY <1>3
<1>5. Without(C, out) = at[N]
  BY DEF Without
<1> HIDE DEF at
<1>6. KeptUpTo(C, t, out, 0, at[0])
  <2>1. at[0] = <<>>
    BY <1>1, <1>4
  <2>2. ListOf(<<>>, t)
    BY EmptySeq DEF ListOf
  <2> QED
    BY <2>1, <2>2 DEF KeptUpTo, InList
<1>7. ASSUME NEW n \in 1 .. N, KeptUpTo(C, t, out, n - 1, at[n - 1]) PROVE KeptUpTo(C, t, out, n, at[n])
  <2>1. at[n] = IF C[n] \in out THEN at[n - 1] ELSE Append(at[n - 1], C[n])
    <3> HIDE DEF N, X, next
    <3>1. n \in 0 .. N /\ n # 0
      BY <1>1
    <3>2. [k \in 0 .. N |-> IF k = 0 THEN <<>>
                            ELSE IF C[k] \in out THEN at[k - 1] ELSE Append(at[k - 1], C[k])][n]
            = IF C[n] \in out THEN at[n - 1] ELSE Append(at[n - 1], C[n])
      BY <3>1
    <3> QED
      BY <1>4, <3>2, Zenon
  <2> QED
    BY <1>7, <2>1, KeptNext
<1>8. KeptUpTo(C, t, out, N, at[N])
  <2> DEFINE T == {n \in 0 .. N : KeptUpTo(C, t, out, n, at[n])}
  <2> HIDE DEF N
  <2>1. 0 \in T
    BY <1>1, <1>6
  <2>2. ASSUME NEW n \in 1 .. N, n - 1 \in T PROVE n \in T
    BY <1>7, <2>2
  <2> HIDE DEF T
  <2>3. 0 .. N \subseteq T
    BY <1>1, <2>1, <2>2, CountingUp
  <2> QED
    BY <1>1, <2>3 DEF T
<1> QED
  BY <1>5, <1>8

-----------------------------------------------------------------------------
(* How single writes change a chain; pt and sl are the patches and slots before.   *)

LEMMA AtIsDisjoint ==
  ASSUME NEW t \in Target, NEW u \in Target, t # u
  PROVE  At(t) \cap At(u) = {} /\ Of(t) \cap Of(u) = {} /\ Of(t) \subseteq At(t)
  BY AddressAssumption DEF At, Of

(* The next hook is patched in, the newest is taken out.                          *)
LEMMA PatchNext ==
  ASSUME NEW t \in Target, NEW list, ListOf(list, t), NEW pt, DOMAIN pt = Address,
         NEW n \in 1 .. Len(list), Patches(pt, list, n - 1, t)
  PROVE  Patches([pt EXCEPT ![Before(list, n, t)] = list[n]], list, n, t)
<1> DEFINE b == Before(list, n, t)
           new == [pt EXCEPT ![b] = list[n]]
<1>1. Len(list) \in Nat /\ n \in 1 .. Len(list) + 1 /\ b \in At(t) /\ b \in Address
  BY BeforeIsThere, AtIsAddress
<1>2. new[b] = list[n] /\ \A a : a # b => new[a] = pt[a]
  BY <1>1
<1>3. \A i \in 1 .. n : i = n \/ (i \in 1 .. n - 1 /\ Before(list, i, t) # b)
  <2> TAKE i \in 1 .. n
  <2>1. i \in 1 .. Len(list) + 1 /\ (i = n \/ i \in 1 .. n - 1)
    BY <1>1
  <2> QED
    BY <1>1, <2>1, BeforeIsInjective
<1> HIDE DEF b, new
<1>4. \A i \in 1 .. n : new[Before(list, i, t)] = list[i]
  BY <1>2, <1>3 DEF Patches, b
<1>5. ASSUME NEW a \in At(t), \A i \in 1 .. n : a # Before(list, i, t) PROVE new[a] = NoDetour
  <2>1. a # b /\ \A i \in 1 .. n - 1 : i \in 1 .. n
    BY <1>1, <1>5 DEF b
  <2> QED
    BY <1>2, <1>5, <2>1 DEF Patches
<1> QED
  BY <1>4, <1>5 DEF Patches, new, b

LEMMA PatchUndone ==
  ASSUME NEW t \in Target, NEW list, ListOf(list, t), NEW pt, DOMAIN pt = Address,
         NEW n \in 1 .. Len(list), Patches(pt, list, n, t)
  PROVE  Patches([pt EXCEPT ![Before(list, n, t)] = NoDetour], list, n - 1, t)
<1> DEFINE b == Before(list, n, t)
           new == [pt EXCEPT ![b] = NoDetour]
<1>1. Len(list) \in Nat /\ n \in 1 .. Len(list) + 1 /\ b \in At(t) /\ b \in Address
  BY BeforeIsThere, AtIsAddress
<1>2. new[b] = NoDetour /\ \A a : a # b => new[a] = pt[a]
  BY <1>1
<1>3. \A i \in 1 .. n - 1 : i \in 1 .. n /\ Before(list, i, t) # b
  <2> TAKE i \in 1 .. n - 1
  <2>1. i \in 1 .. Len(list) + 1 /\ i # n /\ i \in 1 .. n
    BY <1>1
  <2> QED
    BY <1>1, <2>1, BeforeIsInjective
<1> HIDE DEF b, new
<1>4. \A i \in 1 .. n - 1 : new[Before(list, i, t)] = list[i]
  BY <1>2, <1>3 DEF Patches, b
<1>5. ASSUME NEW a \in At(t), \A i \in 1 .. n - 1 : a # Before(list, i, t) PROVE new[a] = NoDetour
  <2>1. CASE a = b
    BY <1>2, <2>1
  <2>2. CASE a # b
    <3>1. \A i \in 1 .. n : i = n \/ i \in 1 .. n - 1
      BY <1>1
    <3>2. \A i \in 1 .. n : a # Before(list, i, t)
      BY <1>5, <2>2, <3>1 DEF b
    <3> QED
      BY <1>2, <2>2, <3>2 DEF Patches
  <2> QED
    BY <2>1, <2>2
<1> QED
  BY <1>4, <1>5 DEF Patches, new, b

(* Nothing is patched, whatever list one thinks of. *)
LEMMA Unpatched ==
  ASSUME NEW t, NEW list, NEW other, NEW pt, Patches(pt, list, 0, t)
  PROVE  Patches(pt, other, 0, t)
  BY DEF Patches

(* The next slot gets its trampoline, the newest loses it. *)
LEMMA SlotNext ==
  ASSUME NEW t \in Target, NEW list, ListOf(list, t), NEW sl, DOMAIN sl = Detour,
         NEW n \in 1 .. Len(list), Slots(sl, list, n - 1, t)
  PROVE  Slots([sl EXCEPT ![list[n]] = Trampoline(Before(list, n, t))], list, n, t)
<1> DEFINE new == [sl EXCEPT ![list[n]] = Trampoline(Before(list, n, t))]
<1>1. list[n] \in Detour /\ Len(list) \in Nat
  BY BeforeIsThere
<1>2. new[list[n]] = Trampoline(Before(list, n, t)) /\ \A d : d # list[n] => new[d] = sl[d]
  BY <1>1
<1> HIDE DEF new
<1>3. ASSUME NEW i \in 1 .. n PROVE new[list[i]] = Trampoline(Before(list, i, t))
  <2>1. CASE i = n
    BY <1>2, <2>1
  <2>2. CASE i # n
    <3>1. i \in 1 .. n - 1 /\ i \in 1 .. Len(list)
      BY <1>1, <2>2
    <3>2. list[i] # list[n]
      BY <2>2, <3>1 DEF ListOf
    <3> QED
      BY <1>2, <3>1, <3>2 DEF Slots
  <2> QED
    BY <2>1, <2>2
<1> QED
  BY <1>3 DEF Slots, new

LEMMA SlotsBelow ==
  ASSUME NEW t \in Target, NEW list, ListOf(list, t), NEW sl, NEW new, NEW n \in 0 .. Len(list),
         NEW m \in 0 .. n, Slots(sl, list, n, t), \A i \in 1 .. m : new[list[i]] = sl[list[i]]
  PROVE  Slots(new, list, m, t)
<1>1. Len(list) \in Nat
  BY BeforeIsThere
<1>2. \A i \in 1 .. m : i \in 1 .. n
  BY <1>1
<1> QED
  BY <1>2 DEF Slots

(* A hook more at the end of the list *)
LEMMA ListLonger ==
  ASSUME NEW t \in Target, NEW list, ListOf(list, t), NEW d \in Of(t), ~InList(list, d)
  PROVE  LET long == Append(list, d)
         IN  /\ ListOf(long, t) /\ Len(long) = Len(list) + 1 /\ long[Len(long)] = d
             /\ \A e : InList(long, e) <=> InList(list, e) \/ e = d
             /\ \A i \in 1 .. Len(list) : long[i] = list[i]
             /\ \A i \in 1 .. Len(list) + 1 : Before(long, i, t) = Before(list, i, t)
<1> DEFINE long == Append(list, d)
           N == Len(list)
<1>1. N \in Nat
  BY BeforeIsThere
<1>2. /\ long \in Seq(Of(t)) /\ Len(long) = N + 1 /\ long[N + 1] = d
      /\ \A i \in 1 .. N : long[i] = list[i]
  BY AppendProperties DEF ListOf
<1> HIDE DEF long, N
<1>3. \A e : InList(long, e) <=> InList(list, e) \/ e = d
  BY <1>1, <1>2 DEF InList, N
<1>4. ListOf(long, t)
  <2>1. ASSUME NEW i \in 1 .. N + 1, NEW j \in 1 .. N + 1, long[i] = long[j] PROVE i = j
    <3>1. CASE i \in 1 .. N /\ j \in 1 .. N
      BY <1>2, <2>1, <3>1 DEF ListOf, N
    <3>2. CASE i \in 1 .. N /\ j = N + 1
      BY <1>2, <2>1, <3>2 DEF InList, N
    <3>3. CASE i = N + 1 /\ j \in 1 .. N
      BY <1>2, <2>1, <3>3 DEF InList, N
    <3>4. CASE i = N + 1 /\ j = N + 1
      BY <3>4
    <3> QED
      BY <1>1, <3>1, <3>2, <3>3, <3>4
  <2> QED
    BY <1>2, <2>1 DEF ListOf
<1>5. \A i \in 1 .. N + 1 : Before(long, i, t) = Before(list, i, t)
  <2> TAKE i \in 1 .. N + 1
  <2>1. i = 1 \/ i - 1 \in 1 .. N
    BY <1>1
  <2> QED
    BY <1>2, <2>1 DEF Before
<1> QED
  BY <1>2, <1>3, <1>4, <1>5 DEF long, N

LEMMA LinkedIsPrefix ==
  ASSUME NEW t \in Target, NEW list, ListOf(list, t), NEW d \in Of(t), ~InList(list, d),
         NEW pt, NEW sl, NEW n \in 0 .. Len(list)
  PROVE  /\ Patches(pt, list, n, t) <=> Patches(pt, Append(list, d), n, t)
         /\ Slots(sl, list, n, t) <=> Slots(sl, Append(list, d), n, t)
<1> DEFINE long == Append(list, d)
<1>1. \A i \in 1 .. n : i \in 1 .. Len(list) /\ i \in 1 .. Len(list) + 1
  BY BeforeIsThere
<1>2. \A i \in 1 .. n : long[i] = list[i] /\ Before(long, i, t) = Before(list, i, t)
  BY <1>1, ListLonger
<1> HIDE DEF long
<1>3. Patches(pt, list, n, t) <=> Patches(pt, long, n, t)
  BY <1>2 DEF Patches
<1>4. Slots(sl, list, n, t) <=> Slots(sl, long, n, t)
  BY <1>2 DEF Slots
<1> QED
  BY <1>3, <1>4 DEF long

-----------------------------------------------------------------------------
(* The inductive invariant                                                        *)

(* What a target looks like when nobody works on it: its hooks are patched into    *)
(* each other and continue into what they patch; a detour that is not hooked       *)
(* continues into the function.                                                   *)
Strangers(sl, chain, t) == \A d \in Of(t) : InList(chain, d) \/ sl[d] = Code(t)
Linked(pt, sl, list, t) == Patches(pt, list, Len(list), t) /\ Slots(sl, list, Len(list), t)
Settled(pt, sl, chain, t) == Linked(pt, sl, chain, t) /\ Strangers(sl, chain, t)

(* The slot of a detour holds its function, or a hook of its chain.                *)
Near(sl, chain, t) == \A d \in Of(t) : sl[d].to = t \/ InList(chain, sl[d].to)

(* What the holder of the lock has done so far with its target, step by step.      *)
Chain == chains[target]
Kept == Without(Chain, removed)

NewHook ==
    /\ plan = Append(Chain, plan[todo]) /\ todo = Len(plan)
    /\ plan[todo] \in Of(target) /\ ~InList(Chain, plan[todo])
    /\ Owner[plan[todo]] \notin detached /\ leaving = NoModule

AtCommit ==
    /\ NewHook /\ Linked(patch, slot, Chain, target)
    /\ \A d \in Of(target) : \/ InList(Chain, d)
                             \/ slot[d] = Code(IF d = plan[todo] THEN Newest(target) ELSE target)
AtInstall ==
    /\ NewHook
    /\ Patches(patch, plan, Len(plan), target) /\ Slots(slot, Chain, Len(Chain), target)
    /\ Strangers(slot, Chain, target)

AtDetach == tried = 0 /\ plan = Chain

AtPrepare ==
    /\ tried \in 0 .. 1 /\ plan = IF tried = 0 THEN Kept ELSE Chain
    /\ todo \in 1 .. Len(plan) + 1
    /\ Patches(patch, <<>>, 0, target) /\ Strays(slot, <<>>, Chain, target)
    /\ Strangers(slot, Chain, target)
    /\ \A i \in 1 .. todo - 1 : slot[plan[i]] = Code(Before(plan, i, target))

(* SafetyHook: the first so many hooks of the plan are there, the newest of them   *)
(* perhaps without its slot.                                                      *)
Partly(patched, stored) ==
    /\ Patches(patch, plan, patched, target) /\ Slots(slot, plan, stored, target)
    /\ Strangers(slot, Chain, target) /\ backend[target] = "SafetyHook"
AtDestroy ==
    /\ tried \in 0 .. 2 /\ plan = IF tried = 1 THEN Kept ELSE Chain
    /\ todo \in 0 .. Len(plan) /\ Partly(todo, todo)
AtCreate ==
    /\ tried \in 0 .. 1 /\ plan = IF tried = 0 THEN Kept ELSE Chain
    /\ todo \in 1 .. Len(plan) + 1 /\ Partly(todo - 1, todo - 1)
AtStore ==
    /\ tried \in 0 .. 1 /\ plan = IF tried = 0 THEN Kept ELSE Chain
    /\ todo \in 1 .. Len(plan) /\ Partly(todo, todo - 1)

AtReset ==
    /\ plan = Chain /\ todo \in 1 .. Len(plan) + 1 /\ tried \in 0 .. 2
    /\ Linked(patch, slot, Kept, target) /\ Strangers(slot, Chain, target)
    /\ \A i \in 1 .. todo - 1 : plan[i] \in removed => slot[plan[i]] = Code(target)
    /\ backend[target] # "SafetyHook" => Strays(slot, Kept, Chain, target)

StepFits ==
    /\ step = "commit" => AtCommit
    /\ step = "install" => AtInstall
    /\ step = "detach" => AtDetach
    /\ step = "prepare" => AtPrepare
    /\ step = "destroy" => AtDestroy
    /\ step = "create" => AtCreate
    /\ step = "store" => AtStore
    /\ step = "reset" => AtReset
    /\ step = "free" => leaving = NoModule
    /\ step = "module" => leaving # NoModule

AtRest(t) == t # target \/ step \in {"free", "module", "detach"}

TargetFits(t) ==
    /\ ListOf(chains[t], t) /\ Near(slot, chains[t], t)
    /\ AtRest(t) => Settled(patch, slot, chains[t], t)

(* No hook of a detached module is left, and none of the module that is being      *)
(* detached outside the targets that are still to be rebuilt.                      *)
Away == \A t \in Target : \A d \in Of(t) : InList(chains[t], d) => Owner[d] \notin detached
Leaving ==
    leaving # NoModule /\ ~failed =>
        \A t \in Target \ pending : \A d \in Of(t) :
            InList(chains[t], d) /\ Owner[d] = leaving => t = target /\ step # "module" /\ d \in removed

ThreadsFit ==
    \A x \in Thread : /\ threads[x].gone \subseteq detached
                      /\ threads[x].at \in Detour => Owner[threads[x].at] \notin threads[x].gone

Types ==
    /\ TypeOK /\ chains \in [Target -> Seq(Detour)]

IInv == Types /\ (\A t \in Target : TargetFits(t)) /\ StepFits /\ Away /\ Leaving /\ ThreadsFit

-----------------------------------------------------------------------------
(* What no step disturbs                                                          *)

LEMMA PointersAre ==
  ASSUME NEW a \in Address
  PROVE  /\ Code(a) \in Pointer /\ Code(a).kind = "code" /\ Code(a).to = a
         /\ Trampoline(a) \in Pointer /\ Trampoline(a).kind = "trampoline" /\ Trampoline(a).to = a
         /\ Freed(a) \in Pointer /\ Freed(a).kind = "freed" /\ Freed(a).to = a
  BY DEF Code, Trampoline, Freed, Pointer

LEMMA BeforeIsNear ==
  ASSUME NEW t \in Target, NEW list, ListOf(list, t), NEW i \in 1 .. Len(list) + 1
  PROVE  Before(list, i, t) \in Address /\ (Before(list, i, t) = t \/ InList(list, Before(list, i, t)))
<1>1. Before(list, i, t) \in Address
  BY BeforeIsThere, AtIsAddress
<1>2. CASE i = 1
  BY <1>1, <1>2 DEF Before
<1>3. CASE i # 1
  <2>1. i \in 2 .. Len(list) + 1
    BY <1>3, BeforeIsThere
  <2> QED
    BY <1>1, <2>1, BeforeIsThere DEF InList
<1> QED
  BY <1>2, <1>3

LEMMA ListsAreTyped ==
  ASSUME NEW t \in Target, NEW list, ListOf(list, t)
  PROVE  /\ list \in Seq(Detour) /\ Len(list) \in Nat
         /\ \A i \in 1 .. Len(list) : list[i] \in Detour /\ TargetOf[list[i]] = t
         /\ \A i \in DOMAIN list : TargetOf[list[i]] = t /\ list[i] \in Detour
         /\ DOMAIN list = 1 .. Len(list)
<1>1. list \in Seq(Of(t)) /\ Of(t) \subseteq Detour
  BY DEF ListOf, Of
<1>2. list \in Seq(Detour) /\ DOMAIN list = 1 .. Len(list) /\ Len(list) \in Nat
  BY <1>1, SeqDef, LenProperties
<1> QED
  BY <1>2, BeforeIsThere DEF Of

LEMMA HooksAreInList ==
  ASSUME IInv, NEW t \in Target
  PROVE  /\ ListOf(chains[t], t) /\ Len(chains[t]) \in Nat /\ chains[t] \in Seq(Detour)
         /\ Hooks(t) \subseteq Of(t)
         /\ \A d : d \in Hooks(t) <=> InList(chains[t], d)
<1>1. ListOf(chains[t], t)
  BY DEF IInv, TargetFits
<1>2. DOMAIN chains[t] = 1 .. Len(chains[t])
  BY <1>1, ListsAreTyped
<1>3. \A d : d \in Hooks(t) <=> InList(chains[t], d)
  BY <1>2 DEF Hooks, InList
<1> QED
  BY <1>1, <1>3, ListsAreTyped, BeforeIsThere DEF InList

(* Writes to one function's patches and slots leave every other function alone.   *)
LEMMA Agree ==
  ASSUME NEW t \in Target, NEW list, ListOf(list, t), NEW pt, NEW sl, NEW pt2, NEW sl2,
         \A a \in At(t) : pt2[a] = pt[a], \A d \in Of(t) : sl2[d] = sl[d]
  PROVE  /\ Settled(pt, sl, list, t) => Settled(pt2, sl2, list, t)
         /\ Near(sl, list, t) => Near(sl2, list, t)
<1>1. \A i \in 1 .. Len(list) : list[i] \in Of(t) /\ Before(list, i, t) \in At(t)
  BY BeforeIsThere
<1>2. Patches(pt, list, Len(list), t) => Patches(pt2, list, Len(list), t)
  BY <1>1 DEF Patches
<1>3. Slots(sl, list, Len(list), t) => Slots(sl2, list, Len(list), t)
  BY <1>1 DEF Slots
<1>4. Strangers(sl, list, t) => Strangers(sl2, list, t)
  BY DEF Strangers
<1>5. Near(sl, list, t) => Near(sl2, list, t)
  BY DEF Near
<1> QED
  BY <1>2, <1>3, <1>4, <1>5 DEF Settled, Linked

LEMMA OthersStay ==
  ASSUME IInv, NEW w \in Target, TargetFits(w)', w = target',
         \A t \in Target \ {w} : AtRest(t) /\ chains'[t] = chains[t],
         \A a \in Address \ At(w) : patch'[a] = patch[a],
         \A d \in Detour \ Of(w) : slot'[d] = slot[d]
  PROVE  \A t \in Target : TargetFits(t)'
<1> SUFFICES ASSUME NEW t \in Target \ {w} PROVE TargetFits(t)'
  OBVIOUS
<1>1. /\ ListOf(chains[t], t) /\ Near(slot, chains[t], t)
      /\ Settled(patch, slot, chains[t], t)
  BY DEF IInv, TargetFits
<1>2. \A a \in At(t) : patch'[a] = patch[a]
  BY AtIsDisjoint, AtIsAddress
<1>3. \A d \in Of(t) : slot'[d] = slot[d]
  BY AtIsDisjoint DEF Of
<1>4. Near(slot', chains[t], t) /\ Settled(patch', slot', chains[t], t)
  BY <1>1, <1>2, <1>3, Agree
<1>5. chains'[t] = chains[t]
  OBVIOUS
<1> QED
  BY <1>1, <1>4, <1>5 DEF TargetFits

(* A step of a rebuild leaves what it says of modules and threads.                *)
LEMMA ModulesStay ==
  ASSUME IInv, UNCHANGED <<chains, target, unload, threads>>, step \notin {"free", "module"},
         step' \notin {"free", "module"}, removed' = removed \/ removed' = Hooks(target)
  PROVE  Away' /\ Leaving' /\ ThreadsFit'
<1>1. Away' /\ ThreadsFit'
  BY DEF IInv, Away, ThreadsFit, unload
<1>2. Leaving'
  <2> SUFFICES ASSUME leaving # NoModule, ~failed,
                      NEW t \in Target \ pending, NEW d \in Of(t), InList(chains[t], d), Owner[d] = leaving
               PROVE  t = target /\ d \in removed'
    BY DEF Leaving, unload
  <2>1. t = target /\ d \in removed
    BY DEF IInv, Leaving
  <2> QED
    BY <2>1, HooksAreInList
<1> QED
  BY <1>1, <1>2

LEMMA EndsWell ==
  ASSUME IInv, EndRebuild(FALSE), UNCHANGED <<chains, threads>>
  PROVE  Away' /\ Leaving' /\ ThreadsFit' /\ StepFits'
<1>1. Away' /\ ThreadsFit'
  BY DEF IInv, Away, ThreadsFit, EndRebuild
<1>2. Leaving'
  BY DEF Leaving, EndRebuild
<1>3. StepFits'
  BY DEF StepFits, EndRebuild
<1> QED
  BY <1>1, <1>2, <1>3

-----------------------------------------------------------------------------
(* DetachModule, and the beginning of a rebuild                                   *)

LEMMA TargetsAtRest ==
  ASSUME IInv, step \in {"free", "module"}, UNCHANGED <<chains, patch, slot>>, target' \in Target
  PROVE  /\ \A t \in Target : ListOf(chains[t], t) /\ Settled(patch, slot, chains[t], t)
         /\ \A t \in Target : TargetFits(t)'
<1>1. ASSUME NEW t \in Target
      PROVE  ListOf(chains[t], t) /\ Near(slot, chains[t], t) /\ Settled(patch, slot, chains[t], t)
  BY DEF IInv, TargetFits, AtRest
<1> QED
  BY <1>1 DEF TargetFits

LEMMA BeginRebuildKeeps ==
  ASSUME IInv, step \in {"free", "module"}, NEW t \in Target, NEW out \in SUBSET Detour,
         BeginRebuild(t, out), UNCHANGED <<code, hooks, failed, leaving, detached, threads>>,
         pending' \in SUBSET Target
  PROVE  Types' /\ (\A u \in Target : TargetFits(u)') /\ StepFits' /\ Away' /\ ThreadsFit'
<1> USE DEF code, hooks
<1>0. /\ ListOf(chains[t], t) /\ Settled(patch, slot, chains[t], t)
      /\ Len(chains[t]) \in Nat /\ chains[t] \in Seq(Detour)
  BY TargetsAtRest, HooksAreInList DEF BeginRebuild
<1>1. Types'
  BY <1>0 DEF IInv, Types, TypeOK, BeginRebuild, Hooks
<1>2. \A u \in Target : TargetFits(u)'
  BY TargetsAtRest DEF BeginRebuild
<1>3. StepFits'
  <2>1. CASE backend[t] = "SafetyHook"
    <3>1. AtDestroy'
      BY <1>0, <2>1 DEF BeginRebuild, AtDestroy, Partly, Chain, Settled, Linked
    <3> QED
      BY <2>1, <3>1 DEF StepFits, BeginRebuild
  <2>2. CASE backend[t] # "SafetyHook"
    BY <2>2 DEF StepFits, BeginRebuild, AtDetach, Chain
  <2> QED
    BY <2>1, <2>2
<1>4. Away' /\ ThreadsFit'
  BY DEF IInv, Away, ThreadsFit
<1> QED
  BY <1>1, <1>2, <1>3, <1>4

LEMMA DetachKeeps ==
  ASSUME IInv, NEW d \in Detour, Detach(d)
  PROVE  IInv'
<1> USE DEF Detach, unload
<1>1. TargetOf[d] \in Target
  BY DetourAssumption
<1>2. Types' /\ (\A u \in Target : TargetFits(u)') /\ StepFits' /\ Away' /\ ThreadsFit'
  <2>1. /\ BeginRebuild(TargetOf[d], {d}) /\ step = "free" /\ {d} \in SUBSET Detour
        /\ UNCHANGED <<code, hooks, failed, leaving, detached, threads>> /\ pending' \in SUBSET Target
    BY DEF IInv, Types, TypeOK
  <2> HIDE DEF Detach
  <2> QED
    BY <1>1, <2>1, BeginRebuildKeeps
<1>3. Leaving'
  BY DEF IInv, StepFits, Leaving
<1> QED
  BY <1>2, <1>3 DEF IInv

LEMMA NextTargetKeeps ==
  ASSUME IInv, NEW t \in Target, NextTarget(t)
  PROVE  IInv'
<1> USE DEF NextTarget
<1>1. OwnHooks(leaving, t) \in SUBSET Detour
  BY HooksAreInList DEF OwnHooks, Of
<1>2. Types' /\ (\A u \in Target : TargetFits(u)') /\ StepFits' /\ Away' /\ ThreadsFit'
  BY <1>1, BeginRebuildKeeps DEF IInv, Types, TypeOK
<1>3. Leaving'
  <2> SUFFICES ASSUME leaving # NoModule, ~failed, NEW u \in Target \ (pending \ {t}), NEW d \in Of(u),
                      InList(chains[u], d), Owner[d] = leaving
               PROVE  u = t /\ d \in OwnHooks(leaving, t)
    BY DEF Leaving, BeginRebuild, hooks
  <2>1. u = t
    BY DEF IInv, Leaving
  <2> QED
    BY <2>1, HooksAreInList DEF OwnHooks
<1> QED
  BY <1>2, <1>3 DEF IInv

LEMMA DetachModuleKeeps ==
  ASSUME IInv, NEW m \in Module, DetachModule(m)
  PROVE  IInv'
<1> USE DEF DetachModule, GoesTo, code, hooks, rebuild
<1>1. Types'
  BY DEF IInv, Types, TypeOK, Hooks
<1>2. \A u \in Target : TargetFits(u)'
  BY TargetsAtRest DEF IInv, Types, TypeOK
<1>3. StepFits'
  BY NoneAssumption DEF StepFits
<1>4. Away' /\ ThreadsFit'
  BY DEF IInv, Away, ThreadsFit
<1>5. Leaving'
  <2> SUFFICES ASSUME NEW u \in Target \ pending', NEW d \in Of(u), InList(chains[u], d), Owner[d] = m
               PROVE  FALSE
    BY DEF Leaving
  <2> QED
    BY HooksAreInList DEF OwnHooks
<1> QED
  BY <1>1, <1>2, <1>3, <1>4, <1>5 DEF IInv

LEMMA DetachModuleReturnsKeeps ==
  ASSUME IInv, DetachModuleReturns
  PROVE  IInv'
<1> USE DEF DetachModuleReturns, GoesTo, code, hooks, rebuild
<1>1. Types'
  <2>1. leaving \in Module
    BY DEF IInv, StepFits, Types, TypeOK
  <2>2. detached' \in SUBSET Module /\ pending' \in SUBSET Target /\ failed' \in BOOLEAN
        /\ step' = "free" /\ leaving' = NoModule
    BY <2>1 DEF IInv, Types, TypeOK
  <2> QED
    BY <2>2 DEF IInv, Types, TypeOK, Hooks
<1>2. \A u \in Target : TargetFits(u)'
  BY TargetsAtRest DEF IInv, Types, TypeOK
<1>3. StepFits' /\ Leaving'
  BY DEF StepFits, Leaving
<1>4. Away'
  <2> SUFFICES ASSUME NEW u \in Target, NEW d \in Of(u), InList(chains[u], d), Owner[d] \in detached'
               PROVE  FALSE
    BY DEF Away
  <2>1. ~failed /\ Owner[d] = leaving
    BY DEF IInv, Away
  <2>2. leaving # NoModule
    BY <2>1, DetourAssumption, NoneAssumption DEF Of
  <2> QED
    BY <2>1, <2>2 DEF IInv, Leaving
<1>5. ThreadsFit'
  BY DEF IInv, ThreadsFit
<1> QED
  BY <1>1, <1>2, <1>3, <1>4, <1>5 DEF IInv

LEMMA DetachBatchFailsKeeps ==
  ASSUME IInv, DetachBatchFails
  PROVE  IInv'
<1> USE DEF DetachBatchFails, EndRebuild, Forget, code, hooks
<1>1. Types'
  <2>1. Len(<<>>) = 0 /\ <<>> \in Seq(Detour)
    BY EmptySeq
  <2> QED
    BY <2>1 DEF IInv, Types, TypeOK, Hooks
<1>2. \A u \in Target : TargetFits(u)'
  BY DEF IInv, TargetFits, AtRest
<1>3. Away' /\ Leaving' /\ ThreadsFit' /\ StepFits'
  BY EndsWell
<1> QED
  BY <1>1, <1>2, <1>3 DEF IInv

-----------------------------------------------------------------------------
(* The chains of a rebuild, and the threads                                       *)

LEMMA KeptIsShorter ==
  ASSUME IInv
  PROVE  /\ target \in Target /\ ListOf(Chain, target) /\ ListOf(Kept, target)
         /\ \A d \in Of(target) : InList(Kept, d) <=> d \notin removed /\ InList(Chain, d)
         /\ \A d : InList(Kept, d) => InList(Chain, d) /\ d \notin removed
         /\ \A j \in 2 .. Len(Kept) : Older(Chain, Kept[j - 1], Kept[j])
<1>1. target \in Target
  BY DEF IInv, Types, TypeOK
<1>2. ListOf(Chain, target)
  BY <1>1, HooksAreInList DEF Chain
<1>3. KeptUpTo(Chain, target, removed, Len(Chain), Kept)
  BY <1>1, <1>2, WithoutKeeps DEF Kept
<1>4. \A d \in Detour : InList(Kept, d) <=> d \notin removed /\ InList(Chain, d)
  BY <1>3 DEF KeptUpTo, InList
<1>5. ListOf(Kept, target)
  BY <1>3 DEF KeptUpTo
<1>6. \A d : InList(Kept, d) => d \in Detour
  BY <1>1, <1>5, BeforeIsThere DEF InList
<1> QED
  BY <1>1, <1>2, <1>3, <1>4, <1>5, <1>6 DEF KeptUpTo, Of

LEMMA PlanFits ==
  ASSUME IInv, plan = Kept \/ plan = Chain
  PROVE  /\ target \in Target /\ ListOf(Chain, target)
         /\ ListOf(plan, target) /\ Len(plan) \in Nat
         /\ \A d : InList(plan, d) => InList(Chain, d)
         /\ \A i \in 1 .. Len(plan) : InList(Chain, plan[i]) /\ plan[i] \in Of(target)
         /\ \A j \in 2 .. Len(plan) : Older(Chain, plan[j - 1], plan[j])
<1>1. target \in Target /\ ListOf(Chain, target) /\ ListOf(plan, target)
  BY KeptIsShorter
<1>2. Len(plan) \in Nat /\ \A i \in 1 .. Len(plan) : InList(plan, plan[i]) /\ plan[i] \in Of(target)
  BY <1>1, BeforeIsThere DEF InList
<1>3. \A d : InList(plan, d) => InList(Chain, d)
  BY KeptIsShorter
<1>4. \A j \in 2 .. Len(plan) : Older(Chain, plan[j - 1], plan[j])
  <2>1. CASE plan = Kept
    BY <2>1, KeptIsShorter
  <2>2. CASE plan = Chain
    <3> SUFFICES ASSUME NEW j \in 2 .. Len(plan) PROVE Older(plan, plan[j - 1], plan[j])
      BY <2>2
    <3>1. j \in 1 .. Len(plan) /\ j - 1 \in 1 .. j - 1
      BY <1>2
    <3> QED
      BY <3>1 DEF Older
  <2> QED
    BY <2>1, <2>2
<1> QED
  BY <1>1, <1>2, <1>3, <1>4

LEMMA NewHookFits ==
  ASSUME IInv, NewHook
  PROVE  /\ target \in Target /\ ListOf(Chain, target) /\ ListOf(plan, target)
         /\ todo = Len(Chain) + 1 /\ Len(plan) = Len(Chain) + 1 /\ Len(Chain) \in Nat
         /\ plan[todo] \in Of(target) /\ ~InList(Chain, plan[todo])
         /\ \A d : InList(plan, d) <=> InList(Chain, d) \/ d = plan[todo]
         /\ Before(plan, todo, target) = Newest(target)
<1>1. target \in Target /\ ListOf(Chain, target) /\ Len(Chain) \in Nat
  BY HooksAreInList DEF IInv, Types, TypeOK, Chain
<1>2. plan[todo] \in Of(target) /\ ~InList(Chain, plan[todo]) /\ plan = Append(Chain, plan[todo])
      /\ todo = Len(plan)
  BY DEF NewHook
<1>3. /\ ListOf(plan, target) /\ Len(plan) = Len(Chain) + 1
      /\ \A d : InList(plan, d) <=> InList(Chain, d) \/ d = plan[todo]
      /\ \A i \in 1 .. Len(Chain) + 1 : Before(plan, i, target) = Before(Chain, i, target)
  <2>1. PICK d \in Of(target) : d = plan[todo]
    BY <1>2
  <2>2. plan = Append(Chain, d) /\ ~InList(Chain, d)
    BY <1>2, <2>1
  <2> HIDE DEF Chain
  <2>3. LET long == Append(Chain, d)
        IN  /\ ListOf(long, target) /\ Len(long) = Len(Chain) + 1 /\ long[Len(long)] = d
            /\ \A e : InList(long, e) <=> InList(Chain, e) \/ e = d
            /\ \A i \in 1 .. Len(Chain) : long[i] = Chain[i]
            /\ \A i \in 1 .. Len(Chain) + 1 : Before(long, i, target) = Before(Chain, i, target)
    BY <1>1, <2>2, ListLonger
  <2> QED
    BY <2>1, <2>2, <2>3
<1>4. Before(plan, todo, target) = Newest(target)
  <2>1. todo \in 1 .. Len(Chain) + 1 /\ todo = Len(Chain) + 1
    BY <1>1, <1>2, <1>3
  <2> QED
    BY <1>3, <2>1 DEF Newest, Chain
<1> QED
  BY <1>1, <1>2, <1>3, <1>4

(* A patch leads to a hook of the list that is patched in.                        *)
LEMMA PatchIsHook ==
  ASSUME NEW t \in Target, NEW list, ListOf(list, t), NEW pt, NEW n \in 0 .. Len(list),
         Patches(pt, list, n, t), NEW a \in At(t), pt[a] # NoDetour
  PROVE  InList(list, pt[a]) /\ pt[a] \in Detour
<1>1. PICK i \in 1 .. n : a = Before(list, i, t)
  BY DEF Patches
<1>2. i \in 1 .. Len(list) /\ pt[a] = list[i]
  BY <1>1, BeforeIsThere DEF Patches
<1> QED
  BY <1>2, BeforeIsThere DEF InList

LEMMA PatchesAreAway ==
  ASSUME IInv, NEW a \in Address, patch[a] # NoDetour
  PROVE  patch[a] \in Detour /\ Owner[patch[a]] \notin detached
<1>1. PICK t \in Target : a \in At(t)
  BY DetourAssumption DEF Address, At, Of
<1>2. patch[a] \in Detour
  BY DEF IInv, Types, TypeOK
<1>3. ListOf(chains[t], t) /\ \A d \in Of(t) : InList(chains[t], d) => Owner[d] \notin detached
  BY DEF IInv, TargetFits, Away
<1>4. \A list : ListOf(list, t) /\ InList(list, patch[a]) => patch[a] \in Of(t)
  BY BeforeIsThere DEF InList
<1>5. ASSUME InList(chains[t], patch[a]) PROVE Owner[patch[a]] \notin detached
  BY <1>3, <1>4, <1>5
<1>6. CASE AtRest(t)
  <2>1. Patches(patch, chains[t], Len(chains[t]), t) /\ Len(chains[t]) \in Nat
    BY <1>3, <1>6, BeforeIsThere DEF IInv, TargetFits, Settled, Linked
  <2> QED
    BY <1>1, <1>2, <1>3, <1>5, <2>1, PatchIsHook
<1>7. CASE ~AtRest(t)
  <2>1. t = target /\ chains[t] = Chain
    BY <1>7 DEF AtRest, Chain
  <2>2. CASE step = "commit"
    <3>1. Patches(patch, Chain, Len(Chain), t) /\ Len(Chain) \in Nat
      BY <1>3, <2>1, <2>2, BeforeIsThere DEF IInv, StepFits, AtCommit, Linked
    <3> QED
      BY <1>1, <1>2, <1>3, <1>5, <2>1, <3>1, PatchIsHook
  <2>3. CASE step = "install"
    <3>1. Patches(patch, plan, Len(plan), t) /\ NewHook /\ Owner[plan[todo]] \notin detached
      BY <2>1, <2>3 DEF IInv, StepFits, AtInstall, NewHook
    <3>2. /\ ListOf(plan, t) /\ Len(plan) \in Nat
          /\ \A d : InList(plan, d) <=> InList(Chain, d) \/ d = plan[todo]
      BY <2>1, <3>1, NewHookFits
    <3>3. InList(plan, patch[a])
      BY <1>1, <3>1, <3>2, PatchIsHook
    <3> QED
      BY <1>2, <1>5, <2>1, <3>1, <3>2, <3>3
  <2>4. CASE step = "prepare"
    <3>1. Patches(patch, <<>>, 0, t)
      BY <2>1, <2>4 DEF IInv, StepFits, AtPrepare
    <3> QED
      BY <1>1, <3>1 DEF Patches
  <2>5. CASE step \in {"destroy", "create", "store"}
    <3>1. plan = Kept \/ plan = Chain
      BY <2>5 DEF IInv, StepFits, AtDestroy, AtCreate, AtStore
    <3>2. ListOf(plan, t) /\ Len(plan) \in Nat /\ \A d : InList(plan, d) => InList(Chain, d)
      BY <2>1, <3>1, PlanFits
    <3>3. PICK n \in 0 .. Len(plan) : Patches(patch, plan, n, t)
      <4>1. CASE step = "destroy"
        BY <2>1, <4>1 DEF IInv, StepFits, AtDestroy, Partly
      <4>2. CASE step = "create"
        <5>1. todo \in 1 .. Len(plan) + 1 /\ Patches(patch, plan, todo - 1, t)
          BY <2>1, <4>2 DEF IInv, StepFits, AtCreate, Partly
        <5>2. todo - 1 \in 0 .. Len(plan)
          BY <3>2, <5>1
        <5> QED
          BY <5>1, <5>2
      <4>3. CASE step = "store"
        <5>1. todo \in 1 .. Len(plan) /\ Patches(patch, plan, todo, t)
          BY <2>1, <4>3 DEF IInv, StepFits, AtStore, Partly
        <5> QED
          BY <3>2, <5>1
      <4> QED
        BY <2>5, <4>1, <4>2, <4>3
    <3> QED
      BY <1>1, <1>2, <1>5, <2>1, <3>2, <3>3, PatchIsHook
  <2>6. CASE step = "reset"
    <3>1. Patches(patch, Kept, Len(Kept), t) /\ ListOf(Kept, t) /\ Len(Kept) \in Nat
      BY <2>1, <2>6, KeptIsShorter, BeforeIsThere DEF IInv, StepFits, AtReset, Linked
    <3>2. InList(Kept, patch[a])
      BY <1>1, <3>1, PatchIsHook
    <3> QED
      BY <1>2, <1>5, <2>1, <3>2, KeptIsShorter
  <2> QED
    BY <1>7, <2>2, <2>3, <2>4, <2>5, <2>6 DEF IInv, Types, TypeOK, AtRest
<1> QED
  BY <1>2, <1>6, <1>7

-----------------------------------------------------------------------------
(* Threads                                                                       *)

(* A call of an address enters the address itself or a hook that is patched in.    *)
LEMMA EntersPatch ==
  ASSUME IInv, NEW a \in Address
  PROVE  /\ Entered(a) \in Address
         /\ Entered(a) = a \/ (Entered(a) \in Detour /\ Owner[Entered(a)] \notin detached)
<1> DEFINE S == {a} \cup {d \in Detour : Owner[d] \notin detached}
           next == [b \in Address |-> IF patch[b] = NoDetour THEN b ELSE patch[b]]
           K == Cardinality(Address)
<1>1. a \in S /\ S \subseteq Address
  BY DEF Address
<1>2. \A b \in S : next[b] \in S
  <2> TAKE b \in S
  <2>1. b \in Address
    BY <1>1
  <2>2. next[b] = IF patch[b] = NoDetour THEN b ELSE patch[b]
    BY <2>1
  <2> HIDE DEF next
  <2> QED
    BY <2>1, <2>2, PatchesAreAway
<1>3. Followed(next, a) \in S
  <2> HIDE DEF S, next, K
  <2>1. PICK at \in [0 .. K -> S] : Followed(next, a) = at[K]
    BY <1>1, <1>2, FollowedIsRun DEF K
  <2>2. K \in 0 .. K
    BY AddressesAreFinite DEF K
  <2> QED
    BY <2>1, <2>2
<1>4. Entered(a) \in S
  BY <1>3 DEF Entered
<1> QED
  BY <1>1, <1>4

LEMMA SlotsAreNear ==
  ASSUME IInv, NEW d \in Detour
  PROVE  /\ slot[d].to \in Address
         /\ slot[d].kind \in {"code", "trampoline", "freed"}
         /\ slot[d].to \in Detour => Owner[slot[d].to] \notin detached
<1> DEFINE t == TargetOf[d]
<1>1. t \in Target /\ d \in Of(t)
  BY DetourAssumption DEF Of
<1> HIDE DEF t
<1>2. slot[d].to = t \/ InList(chains[t], slot[d].to)
  BY <1>1 DEF IInv, TargetFits, Near
<1>3. slot[d].to \in Address /\ slot[d].kind \in {"code", "trampoline", "freed"}
  <2>1. slot[d] \in Pointer
    BY DEF IInv, Types, TypeOK
  <2> QED
    BY <2>1 DEF Pointer
<1>4. ASSUME slot[d].to \in Detour PROVE Owner[slot[d].to] \notin detached
  <2>1. InList(chains[t], slot[d].to)
    BY <1>1, <1>2, <1>4, AddressAssumption
  <2>2. slot[d].to \in Of(t)
    BY <1>1, <2>1, HooksAreInList
  <2> QED
    BY <1>1, <2>1, <2>2 DEF IInv, Away
<1> QED
  BY <1>3, <1>4

LEMMA ThreadsKeep ==
  ASSUME IInv, NEW x \in Thread, NEW at \in Detour \cup {"out", "wild"}, NEW gone \in SUBSET detached,
         at \in Detour => Owner[at] \notin gone,
         threads' = [threads EXCEPT ![x] = [at |-> at, gone |-> gone]],
         UNCHANGED <<code, hooks, step, rebuild, unload>>
  PROVE  IInv'
<1> USE DEF code, hooks, rebuild, unload
<1>1. Types'
  <2>1. detached \subseteq Module
    BY DEF IInv, Types, TypeOK
  <2>2. threads' \in [Thread -> [at : Detour \cup {"out", "wild"}, gone : SUBSET Module]]
    BY <2>1 DEF IInv, Types, TypeOK
  <2> QED
    BY <2>2 DEF IInv, Types, TypeOK, Hooks
<1>2. ASSUME NEW t \in Target PROVE TargetFits(t)'
  BY DEF IInv, TargetFits, AtRest
<1>3. StepFits'
  BY DEF IInv, StepFits, AtCommit, AtInstall, AtDetach, AtPrepare, AtDestroy, AtCreate, AtStore, AtReset,
         NewHook, Partly, Chain, Kept, Newest
<1>4. Away' /\ Leaving'
  BY DEF IInv, Away, Leaving
<1>5. ThreadsFit'
  <2> SUFFICES ASSUME NEW y \in Thread
               PROVE  /\ threads'[y].gone \subseteq detached
                      /\ threads'[y].at \in Detour => Owner[threads'[y].at] \notin threads'[y].gone
    BY DEF ThreadsFit
  <2>1. CASE y = x
    <3>1. threads'[x] = [at |-> at, gone |-> gone]
      BY DEF IInv, Types, TypeOK
    <3> QED
      BY <2>1, <3>1
  <2>2. CASE y # x
    <3>1. threads'[y] = threads[y]
      BY <2>2 DEF IInv, Types, TypeOK
    <3> QED
      BY <3>1 DEF IInv, ThreadsFit
  <2> QED
    BY <2>1, <2>2
<1> QED
  BY <1>1, <1>2, <1>3, <1>4, <1>5 DEF IInv

LEMMA CallKeeps ==
  ASSUME IInv, NEW x \in Thread, NEW t \in Target, Call(x, t)
  PROVE  IInv'
<1>1. Entered(t) \in Detour /\ Owner[Entered(t)] \notin detached
  BY EntersPatch DEF Call, Address
<1> QED
  BY <1>1, ThreadsKeep DEF Call

LEMMA CallOriginalKeeps ==
  ASSUME IInv, NEW x \in Thread, CallOriginal(x)
  PROVE  IInv'
<1> DEFINE d == threads[x].at
           next == Continued(d)
           gone == threads[x].gone
<1>1. d \in Detour /\ gone \subseteq detached /\ threads[x] \in [at : Detour \cup {"out", "wild"}, gone : SUBSET Module]
  BY DEF IInv, ThreadsFit, CallOriginal, Types, TypeOK
<1> HIDE DEF d
<1>2. next \in Address \cup {"wild"} /\ (next \in Detour => Owner[next] \notin detached)
  <2>1. slot[d].kind = "code" => next = Entered(slot[d].to)
    BY DEF Continued
  <2>2. slot[d].kind = "trampoline" => next = slot[d].to
    BY DEF Continued
  <2>3. slot[d].kind = "freed" => next = "wild"
    BY DEF Continued
  <2>4. "wild" \notin Detour
    BY AddressAssumption
  <2> HIDE DEF next
  <2> QED
    BY <1>1, <2>1, <2>2, <2>3, <2>4, SlotsAreNear, EntersPatch
<1>3. threads' = [threads EXCEPT ![x] = IF next \in Target THEN [at |-> "out", gone |-> {}]
                                        ELSE [threads[x] EXCEPT !.at = next]]
  BY DEF CallOriginal, d
<1> HIDE DEF next
<1>4. UNCHANGED <<code, hooks, step, rebuild, unload>>
  BY DEF CallOriginal
<1>5. CASE next \in Target
  <2>1. threads' = [threads EXCEPT ![x] = [at |-> "out", gone |-> {}]]
    BY <1>3, <1>5
  <2>2. /\ "out" \in Detour \cup {"out", "wild"} /\ {} \in SUBSET detached
        /\ "out" \in Detour => Owner["out"] \notin {}
    OBVIOUS
  <2> HIDE DEF gone
  <2> QED
    BY <1>4, <2>1, <2>2, ThreadsKeep
<1>6. CASE next \notin Target
  <2>1. [threads[x] EXCEPT !.at = next] = [at |-> next, gone |-> gone]
    BY <1>1
  <2>2. threads' = [threads EXCEPT ![x] = [at |-> next, gone |-> gone]]
    BY <1>3, <1>6, <2>1
  <2>3. next \in Detour \cup {"out", "wild"} /\ (next \in Detour => Owner[next] \notin gone)
    BY <1>1, <1>2, <1>6 DEF Address
  <2> HIDE DEF gone
  <2> QED
    BY <1>1, <1>4, <2>2, <2>3, ThreadsKeep
<1> QED
  BY <1>5, <1>6

LEMMA StutterKeeps ==
  ASSUME IInv, UNCHANGED vars
  PROVE  IInv'
<1> USE DEF vars, code, hooks, rebuild, unload
<1>1. Types'
  BY DEF IInv, Types, TypeOK, Hooks
<1>2. ASSUME NEW t \in Target PROVE TargetFits(t)'
  BY DEF IInv, TargetFits, AtRest
<1>3. StepFits'
  BY DEF IInv, StepFits, AtCommit, AtInstall, AtDetach, AtPrepare, AtDestroy, AtCreate, AtStore, AtReset,
         NewHook, Partly, Chain, Kept, Newest
<1>4. Away' /\ Leaving' /\ ThreadsFit'
  BY DEF IInv, Away, Leaving, ThreadsFit
<1> QED
  BY <1>1, <1>2, <1>3, <1>4 DEF IInv

-----------------------------------------------------------------------------
(* Attaching                                                                     *)

LEMMA IsBackIsTyped ==
  ASSUME IInv, NEW m \in Module, IsBack(m)
  PROVE  /\ detached' \in SUBSET Module /\ m \notin detached' /\ detached' \subseteq detached
         /\ threads' \in [Thread -> [at : Detour \cup {"out", "wild"}, gone : SUBSET Module]]
         /\ ThreadsFit'
<1>0. /\ threads \in [Thread -> [at : Detour \cup {"out", "wild"}, gone : SUBSET Module]]
      /\ detached \in SUBSET Module
  BY DEF IInv, Types, TypeOK
<1>1. \A x \in Thread : threads'[x] = [threads[x] EXCEPT !.gone = threads[x].gone \ {m}]
  BY DEF IsBack
<1>2. ASSUME NEW x \in Thread
      PROVE  /\ threads'[x] \in [at : Detour \cup {"out", "wild"}, gone : SUBSET Module]
             /\ threads'[x].gone \subseteq detached \ {m}
             /\ threads'[x].at \in Detour => Owner[threads'[x].at] \notin threads'[x].gone
  <2>1. /\ threads[x] \in [at : Detour \cup {"out", "wild"}, gone : SUBSET Module]
        /\ threads[x].gone \subseteq detached
        /\ threads[x].at \in Detour => Owner[threads[x].at] \notin threads[x].gone
    BY <1>0 DEF IInv, ThreadsFit
  <2>2. threads'[x] = [at |-> threads[x].at, gone |-> threads[x].gone \ {m}]
    BY <1>1, <2>1
  <2>3. threads'[x].at = threads[x].at /\ threads'[x].gone = threads[x].gone \ {m}
    BY <2>2
  <2> QED
    BY <2>1, <2>2, <2>3
<1>3. detached' = detached \ {m}
  BY DEF IsBack
<1>4. ThreadsFit'
  BY <1>2, <1>3 DEF ThreadsFit
<1>5. threads' \in [Thread -> [at : Detour \cup {"out", "wild"}, gone : SUBSET Module]]
  BY <1>2 DEF IsBack
<1> QED
  BY <1>0, <1>3, <1>4, <1>5

LEMMA NewDetour ==
  ASSUME IInv, step = "free", NEW d \in Detour, d \notin Hooked
  PROVE  LET t == TargetOf[d] IN
         /\ t \in Target /\ d \in Of(t) /\ ~InList(chains[t], d) /\ leaving = NoModule
         /\ ListOf(chains[t], t) /\ Len(chains[t]) \in Nat /\ Settled(patch, slot, chains[t], t)
         /\ Near(slot, chains[t], t)
         /\ ListOf(Append(chains[t], d), t)
         /\ Len(Append(chains[t], d)) = Len(chains[t]) + 1
         /\ Append(chains[t], d)[Len(chains[t]) + 1] = d
         /\ Newest(t) \in At(t) /\ Newest(t) \in Address
         /\ Newest(t) = t \/ InList(chains[t], Newest(t))
<1> DEFINE t == TargetOf[d]
<1>1. t \in Target /\ d \in Of(t)
  BY DetourAssumption DEF Of
<1> HIDE DEF t
<1>2. ~InList(chains[t], d)
  BY <1>1, HooksAreInList DEF Hooked
<1>3. /\ ListOf(chains[t], t) /\ Settled(patch, slot, chains[t], t) /\ Near(slot, chains[t], t)
      /\ leaving = NoModule
  BY <1>1 DEF IInv, TargetFits, AtRest, StepFits
<1>4. Len(chains[t]) \in Nat /\ Len(chains[t]) + 1 \in 1 .. Len(chains[t]) + 1
  BY <1>1, <1>3, BeforeIsThere
<1>5. /\ Newest(t) \in At(t) /\ Newest(t) \in Address
      /\ Newest(t) = t \/ InList(chains[t], Newest(t))
  BY <1>1, <1>3, <1>4, BeforeIsThere, BeforeIsNear DEF Newest
<1>6. /\ ListOf(Append(chains[t], d), t)
      /\ Len(Append(chains[t], d)) = Len(chains[t]) + 1
      /\ Append(chains[t], d)[Len(chains[t]) + 1] = d
  BY <1>1, <1>2, <1>3, ListLonger
<1> QED
  BY <1>1, <1>2, <1>3, <1>4, <1>5, <1>6 DEF t

LEMMA AttachDetoursKeeps ==
  ASSUME IInv, NEW d \in Detour, AttachDetours(d)
  PROVE  IInv'
<1> USE DEF hooks
<1> DEFINE t == TargetOf[d]
           C == chains[t]
           m == Owner[d]
<1>1. step = "free" /\ step' = "commit" /\ d \notin Hooked /\ UNCHANGED <<chains, backend, patch>>
      /\ target' = t /\ plan' = Append(C, d) /\ todo' = Len(plan') /\ leaving' = leaving /\ pending' = pending
      /\ slot' = [slot EXCEPT ![d] = Code(Newest(t))] /\ removed' = removed /\ tried' = tried /\ failed' = failed
      /\ IsBack(Owner[d])
  BY DEF AttachDetours, GoesTo
<1>2. /\ t \in Target /\ d \in Of(t) /\ ~InList(C, d) /\ leaving = NoModule
      /\ ListOf(C, t) /\ Len(C) \in Nat /\ Settled(patch, slot, C, t) /\ Near(slot, C, t)
      /\ ListOf(Append(C, d), t) /\ Len(Append(C, d)) = Len(C) + 1 /\ Append(C, d)[Len(C) + 1] = d
      /\ Newest(t) \in At(t) /\ Newest(t) \in Address
      /\ Newest(t) = t \/ InList(C, Newest(t))
  BY <1>1, NewDetour
<1>3. m \in Module
  BY DetourAssumption
<1>4. /\ detached' \in SUBSET Module /\ m \notin detached' /\ detached' \subseteq detached
      /\ threads' \in [Thread -> [at : Detour \cup {"out", "wild"}, gone : SUBSET Module]]
      /\ ThreadsFit'
  BY <1>1, <1>3, IsBackIsTyped
<1>5. /\ slot'[d] = Code(Newest(t)) /\ \A e : e # d => slot'[e] = slot[e]
      /\ slot' \in [Detour -> Pointer]
  BY <1>1, <1>2, PointersAre DEF IInv, Types, TypeOK
<1> HIDE DEF t, m
<1>6. Types'
  <2>1. plan' \in Seq(Detour) /\ todo' \in 0 .. Len(plan') + 1
    BY <1>1, <1>2, ListsAreTyped
  <2> QED
    BY <1>1, <1>2, <1>4, <1>5, <2>1 DEF IInv, Types, TypeOK, Hooks
<1>7. TargetFits(t)'
  <2>1. Near(slot', C, t)
    BY <1>2, <1>5, PointersAre DEF Near
  <2> QED
    BY <1>1, <1>2, <2>1 DEF TargetFits, AtRest
<1>8. \A u \in Target : TargetFits(u)'
  <2>1. \A u \in Target \ {t} : AtRest(u) /\ chains'[u] = chains[u]
    BY <1>1 DEF AtRest
  <2>2. \A e \in Detour \ Of(t) : slot'[e] = slot[e]
    BY <1>2, <1>5
  <2> QED
    BY <1>1, <1>2, <1>7, <2>1, <2>2, OthersStay
<1>9. AtCommit'
  <2>1. plan'[todo'] = d
    BY <1>1, <1>2
  <2>2. Chain' = C
    BY <1>1 DEF Chain
  <2>3. NewHook'
    BY <1>1, <1>2, <1>4, <2>1, <2>2 DEF NewHook, m
  <2>4. Slots(slot', C, Len(C), t)
    BY <1>2, <1>5 DEF Settled, Linked, Slots, InList
  <2>5. Linked(patch', slot', C, t)
    BY <1>1, <1>2, <2>4 DEF Settled, Linked
  <2>6. Newest(target)' = Newest(t)
    BY <1>1 DEF Newest
  <2>7. ASSUME NEW e \in Of(t), ~InList(C, e) PROVE slot'[e] = Code(IF e = d THEN Newest(t) ELSE t)
    BY <1>2, <1>5, <2>7 DEF Settled, Strangers
  <2> QED
    BY <1>1, <2>1, <2>2, <2>3, <2>5, <2>6, <2>7 DEF AtCommit
<1>10. StepFits'
  BY <1>1, <1>9 DEF StepFits
<1>11. Away' /\ Leaving'
  BY <1>1, <1>2, <1>4 DEF IInv, Away, Leaving
<1> QED
  BY <1>4, <1>6, <1>8, <1>10, <1>11 DEF IInv

LEMMA AttachSafetyHookKeeps ==
  ASSUME IInv, NEW d \in Detour, AttachSafetyHook(d)
  PROVE  IInv'
<1> USE DEF hooks
<1> DEFINE t == TargetOf[d]
           C == chains[t]
           m == Owner[d]
<1>1. step = "free" /\ step' = "install" /\ d \notin Hooked /\ UNCHANGED <<chains, backend, slot>>
      /\ target' = t /\ plan' = Append(C, d) /\ todo' = Len(plan') /\ leaving' = leaving /\ pending' = pending
      /\ patch' = [patch EXCEPT ![Newest(t)] = d] /\ removed' = removed /\ tried' = tried /\ failed' = failed
      /\ IsBack(Owner[d])
  BY DEF AttachSafetyHook, GoesTo
<1>2. /\ t \in Target /\ d \in Of(t) /\ ~InList(C, d) /\ leaving = NoModule
      /\ ListOf(C, t) /\ Len(C) \in Nat /\ Settled(patch, slot, C, t) /\ Near(slot, C, t)
      /\ ListOf(Append(C, d), t) /\ Len(Append(C, d)) = Len(C) + 1 /\ Append(C, d)[Len(C) + 1] = d
      /\ Newest(t) \in At(t) /\ Newest(t) \in Address
  BY <1>1, NewDetour
<1>3. m \in Module
  BY DetourAssumption
<1>4. /\ detached' \in SUBSET Module /\ m \notin detached' /\ detached' \subseteq detached
      /\ threads' \in [Thread -> [at : Detour \cup {"out", "wild"}, gone : SUBSET Module]]
      /\ ThreadsFit'
  BY <1>1, <1>3, IsBackIsTyped
<1>5. /\ \A a : a # Newest(t) => patch'[a] = patch[a]
      /\ patch' \in [Address -> Detour \cup {NoDetour}] /\ DOMAIN patch = Address
  BY <1>1, <1>2 DEF IInv, Types, TypeOK
<1> HIDE DEF t, m
<1>6. Types'
  <2>1. plan' \in Seq(Detour) /\ todo' \in 0 .. Len(plan') + 1
    BY <1>1, <1>2, ListsAreTyped
  <2> QED
    BY <1>1, <1>2, <1>4, <1>5, <2>1 DEF IInv, Types, TypeOK, Hooks
<1>7. TargetFits(t)'
  BY <1>1, <1>2 DEF TargetFits, AtRest
<1>8. \A u \in Target : TargetFits(u)'
  <2>1. \A u \in Target \ {t} : AtRest(u) /\ chains'[u] = chains[u]
    BY <1>1 DEF AtRest
  <2>2. \A a \in Address \ At(t) : patch'[a] = patch[a]
    BY <1>2, <1>5
  <2> QED
    BY <1>1, <1>2, <1>7, <2>1, <2>2, OthersStay
<1>9. AtInstall'
  <2>1. plan'[todo'] = d
    BY <1>1, <1>2
  <2>2. Chain' = C
    BY <1>1 DEF Chain
  <2>3. NewHook'
    BY <1>1, <1>2, <1>4, <2>1, <2>2 DEF NewHook, m
  <2>4. Patches(patch', Append(C, d), Len(C) + 1, t)
    <3> DEFINE L == Append(C, d)
    <3>1. Patches(patch, L, Len(C), t) /\ Before(L, Len(C) + 1, t) = Newest(t)
      <4>1. Len(C) \in 0 .. Len(C) /\ Len(C) + 1 \in 1 .. Len(C) + 1
        BY <1>2
      <4>2. Patches(patch, C, Len(C), t)
        BY <1>2 DEF Settled, Linked
      <4>3. Patches(patch, L, Len(C), t)
        BY <1>2, <4>1, <4>2, LinkedIsPrefix
      <4>4. Before(L, Len(C) + 1, t) = Before(C, Len(C) + 1, t)
        BY <1>2, <4>1, ListLonger
      <4> QED
        BY <4>3, <4>4 DEF Newest
    <3>2. Len(C) + 1 \in 1 .. Len(L) /\ (Len(C) + 1) - 1 = Len(C) /\ L[Len(C) + 1] = d
      BY <1>2
    <3> HIDE DEF C, L
    <3>3. Patches([patch EXCEPT ![Before(L, Len(C) + 1, t)] = L[Len(C) + 1]], L, Len(C) + 1, t)
      BY <1>2, <1>5, <3>1, <3>2, PatchNext DEF L
    <3> QED
      BY <1>1, <3>1, <3>2, <3>3 DEF L
  <2> QED
    BY <1>1, <1>2, <2>2, <2>3, <2>4 DEF AtInstall, Settled, Linked
<1>10. StepFits'
  BY <1>1, <1>9 DEF StepFits
<1>11. Away' /\ Leaving'
  BY <1>1, <1>2, <1>4 DEF IInv, Away, Leaving
<1> QED
  BY <1>4, <1>6, <1>8, <1>10, <1>11 DEF IInv

LEMMA ForgetIsTyped ==
  ASSUME IInv, Forget
  PROVE  /\ target' \in Target /\ removed' \in SUBSET Detour /\ plan' \in Seq(Detour)
         /\ todo' \in 0 .. Len(plan') + 1 /\ tried' \in 0 .. 2
<1>1. <<>> \in Seq(Detour) /\ Len(<<>>) = 0
  BY EmptySeq
<1> QED
  BY <1>1 DEF IInv, Types, TypeOK, Forget

(* The new hook gets its record and its trampoline.                               *)
LEMMA RecordedIsLinked ==
  ASSUME IInv, NewHook, NEW pt, NEW p \in Of(target), p = plan[todo],
         Patches(pt, plan, Len(plan), target), Slots(slot, Chain, Len(Chain), target),
         \A d \in Of(target) : InList(plan, d) \/ slot[d] = Code(target)
  PROVE  LET sl == [slot EXCEPT ![p] = Trampoline(Newest(target))]
         IN  /\ Settled(pt, sl, plan, target) /\ Near(sl, plan, target)
             /\ sl \in [Detour -> Pointer] /\ \A d \in Detour \ Of(target) : sl[d] = slot[d]
<1> DEFINE sl == [slot EXCEPT ![p] = Trampoline(Newest(target))]
<1>1. /\ target \in Target /\ ListOf(Chain, target) /\ ListOf(plan, target)
      /\ todo = Len(Chain) + 1 /\ Len(plan) = Len(Chain) + 1 /\ Len(Chain) \in Nat
      /\ ~InList(Chain, p)
      /\ \A d : InList(plan, d) <=> InList(Chain, d) \/ d = p
      /\ Before(plan, todo, target) = Newest(target)
  BY NewHookFits
<1>2. p \in Detour /\ slot \in [Detour -> Pointer]
  BY DEF Of, IInv, Types, TypeOK
<1>3. Newest(target) \in Address /\ (Newest(target) = target \/ InList(Chain, Newest(target)))
  <2>1. Len(Chain) + 1 \in 1 .. Len(Chain) + 1
    BY <1>1
  <2> QED
    BY <1>1, <2>1, BeforeIsNear DEF Newest, Chain
<1>4. sl[p] = Trampoline(Newest(target)) /\ (\A d : d # p => sl[d] = slot[d]) /\ sl \in [Detour -> Pointer]
  BY <1>2, <1>3, PointersAre
<1>5. Slots(slot, plan, Len(Chain), target)
  <2>1. plan = Append(Chain, p) /\ Len(Chain) \in 0 .. Len(Chain)
    BY <1>1 DEF NewHook
  <2>2. Slots(slot, Append(Chain, p), Len(Chain), target)
    BY <1>1, <2>1, LinkedIsPrefix
  <2> QED
    BY <2>1, <2>2
<1>6. Slots(sl, plan, Len(plan), target)
  <2>1. todo \in 1 .. Len(plan) /\ todo - 1 = Len(Chain) /\ todo = Len(plan) /\ DOMAIN slot = Detour
    BY <1>1, <1>2
  <2>2. Slots([slot EXCEPT ![plan[todo]] = Trampoline(Before(plan, todo, target))], plan, todo, target)
    BY <1>1, <1>5, <2>1, SlotNext
  <2> QED
    BY <1>1, <2>1, <2>2
<1> HIDE DEF sl
<1>7. Strangers(sl, plan, target)
  BY <1>1, <1>4 DEF Strangers
<1>8. Near(sl, plan, target)
  <2>1. Near(slot, Chain, target)
    BY <1>1 DEF IInv, TargetFits, Chain
  <2> QED
    BY <1>1, <1>3, <1>4, <2>1, PointersAre DEF Near
<1>9. \A d \in Detour \ Of(target) : sl[d] = slot[d]
  BY <1>4
<1> QED
  BY <1>4, <1>6, <1>7, <1>8, <1>9 DEF Settled, Linked, sl

LEMMA RecordKeeps ==
  ASSUME IInv, NewHook, Forget, UNCHANGED <<unload, threads>>, step' = "free",
         NEW b \in {"Detours", "SafetyHook"}, Record(plan[todo], b),
         patch' \in [Address -> Detour \cup {NoDetour}],
         Patches(patch', plan, Len(plan), target), \A a \in Address \ At(target) : patch'[a] = patch[a],
         Slots(slot, Chain, Len(Chain), target),
         \A d \in Of(target) : InList(plan, d) \/ slot[d] = Code(target),
         \A t \in Target \ {target} : AtRest(t)
  PROVE  IInv'
<1> USE DEF unload, Forget
<1>1. /\ target \in Target /\ ListOf(plan, target) /\ plan[todo] \in Of(target)
      /\ \A d : InList(plan, d) <=> InList(Chain, d) \/ d = plan[todo]
      /\ Owner[plan[todo]] \notin detached /\ leaving = NoModule
  BY NewHookFits DEF NewHook
<1>2. /\ chains' = [chains EXCEPT ![target] = plan] /\ backend' = [backend EXCEPT ![target] = b]
      /\ slot' = [slot EXCEPT ![plan[todo]] = Trampoline(Newest(target))]
  BY DEF Record
<1>3. /\ Settled(patch', slot', plan, target) /\ Near(slot', plan, target)
      /\ slot' \in [Detour -> Pointer] /\ \A d \in Detour \ Of(target) : slot'[d] = slot[d]
  BY <1>1, <1>2, RecordedIsLinked
<1>4. /\ chains \in [Target -> Seq(Detour)] /\ chains'[target] = plan
      /\ \A t \in Target \ {target} : chains'[t] = chains[t]
  BY <1>1, <1>2 DEF IInv, Types
<1>5. Types'
  <2>1. plan \in Seq(Detour) /\ \A i \in DOMAIN plan : TargetOf[plan[i]] = target
    BY <1>1, ListsAreTyped
  <2>2. chains' \in [Target -> Seq(Detour)]
    BY <1>2, <1>4, <2>1
  <2>3. \A t \in Target : chains'[t] \in Seq(Detour) /\ \A d \in Hooks(t)' : TargetOf[d] = t
    <3> TAKE t \in Target
    <3>1. CASE t = target
      BY <1>4, <2>1, <3>1 DEF Hooks
    <3>2. CASE t # target
      <4>1. chains'[t] = chains[t]
        BY <1>4, <3>2
      <4> QED
        BY <4>1 DEF IInv, Types, TypeOK, Hooks
    <3> QED
      BY <3>1, <3>2
  <2>4. backend' \in [Target -> {"none", "Detours", "SafetyHook"}]
    BY <1>1, <1>2 DEF IInv, Types, TypeOK
  <2>5. /\ target' \in Target /\ removed' \in SUBSET Detour /\ plan' \in Seq(Detour)
        /\ todo' \in 0 .. Len(plan') + 1 /\ tried' \in 0 .. 2
    BY ForgetIsTyped
  <2>6. /\ leaving' \in Module \cup {NoModule} /\ pending' \in SUBSET Target
        /\ failed' \in BOOLEAN /\ detached' \in SUBSET Module
        /\ threads' \in [Thread -> [at : Detour \cup {"out", "wild"}, gone : SUBSET Module]]
    BY DEF IInv, Types, TypeOK
  <2> QED
    BY <1>3, <2>2, <2>3, <2>4, <2>5, <2>6 DEF Types, TypeOK
<1>6. TargetFits(target)'
  BY <1>1, <1>3, <1>4 DEF TargetFits
<1>7. \A t \in Target : TargetFits(t)'
  <2>1. PICK w \in Target : w = target
    BY <1>1
  <2>2. TargetFits(w)' /\ target' = w
    BY <1>1, <1>3, <1>4, <2>1 DEF TargetFits
  <2> QED
    BY <1>3, <1>4, <2>1, <2>2, OthersStay
<1>8. Away'
  <2> SUFFICES ASSUME NEW t \in Target, NEW d \in Of(t), InList(chains'[t], d) PROVE Owner[d] \notin detached
    BY DEF Away
  <2>1. CASE t = target
    <3>1. InList(chains[t], d) \/ d = plan[todo]
      BY <1>1, <1>4, <2>1 DEF Chain
    <3> QED
      BY <1>1, <3>1 DEF IInv, Away
  <2>2. CASE t # target
    BY <1>4, <2>2 DEF IInv, Away
  <2> QED
    BY <2>1, <2>2
<1>9. StepFits' /\ Leaving' /\ ThreadsFit'
  BY <1>1 DEF IInv, StepFits, Leaving, ThreadsFit
<1> QED
  BY <1>5, <1>7, <1>8, <1>9 DEF IInv

LEMMA CommitAttachKeeps ==
  ASSUME IInv, CommitAttach
  PROVE  IInv'
<1>1. step = "commit" /\ step' = "free" /\ Record(plan[todo], "Detours")
      /\ patch' = [patch EXCEPT ![slot[plan[todo]].to] = plan[todo]]
      /\ Forget /\ UNCHANGED <<unload, threads>>
  BY DEF CommitAttach, GoesTo
<1>2. AtCommit
  BY <1>1 DEF IInv, StepFits
<1>3. NewHook /\ Linked(patch, slot, Chain, target)
  BY <1>2 DEF AtCommit
<1>4. /\ target \in Target /\ ListOf(Chain, target) /\ ListOf(plan, target)
      /\ todo = Len(Chain) + 1 /\ Len(plan) = Len(Chain) + 1 /\ Len(Chain) \in Nat
      /\ plan[todo] \in Of(target) /\ ~InList(Chain, plan[todo])
      /\ \A d : InList(plan, d) <=> InList(Chain, d) \/ d = plan[todo]
      /\ Before(plan, todo, target) = Newest(target)
  BY <1>3, NewHookFits
<1>5. slot[plan[todo]].to = Newest(target)
  <2>1. slot[plan[todo]] = Code(Newest(target))
    BY <1>2, <1>4 DEF AtCommit
  <2> QED
    BY <2>1 DEF Code
<1>6. Newest(target) \in At(target) /\ Newest(target) \in Address /\ plan[todo] \in Detour
  <2>1. todo \in 1 .. Len(plan) + 1
    BY <1>4
  <2> QED
    BY <1>4, <2>1, BeforeIsThere, AtIsAddress DEF Of
<1>7. patch \in [Address -> Detour \cup {NoDetour}]
  BY DEF IInv, Types, TypeOK
<1>8. /\ patch' \in [Address -> Detour \cup {NoDetour}]
      /\ \A a \in Address \ At(target) : patch'[a] = patch[a]
  BY <1>1, <1>5, <1>6, <1>7
<1>9. Patches(patch', plan, Len(plan), target)
  <2>1. plan = Append(Chain, plan[todo]) /\ Len(Chain) \in 0 .. Len(Chain)
    BY <1>3, <1>4 DEF NewHook
  <2>2. Patches(patch, plan, Len(Chain), target)
    <3>1. PICK p \in Of(target) : p = plan[todo]
      BY <1>4
    <3>2. plan = Append(Chain, p) /\ ~InList(Chain, p)
      BY <1>4, <2>1, <3>1
    <3>3. Patches(patch, Chain, Len(Chain), target)
      BY <1>3 DEF Linked
    <3>4. Patches(patch, Append(Chain, p), Len(Chain), target)
      BY <1>4, <2>1, <3>2, <3>3, LinkedIsPrefix
    <3> QED
      BY <3>2, <3>4
  <2>3. todo \in 1 .. Len(plan) /\ todo - 1 = Len(Chain) /\ todo = Len(plan) /\ DOMAIN patch = Address
    BY <1>4, <1>7
  <2>4. Patches([patch EXCEPT ![Before(plan, todo, target)] = plan[todo]], plan, todo, target)
    BY <1>4, <2>2, <2>3, PatchNext
  <2> QED
    BY <1>1, <1>4, <1>5, <2>3, <2>4
<1>10. Slots(slot, Chain, Len(Chain), target)
  BY <1>3 DEF Linked
<1>11. \A d \in Of(target) : InList(plan, d) \/ slot[d] = Code(target)
  BY <1>2, <1>4 DEF AtCommit
<1>12. \A t \in Target \ {target} : AtRest(t)
  BY DEF AtRest
<1> QED
  BY <1>1, <1>3, <1>8, <1>9, <1>10, <1>11, <1>12, RecordKeeps

LEMMA InstallSafetyHookKeeps ==
  ASSUME IInv, InstallSafetyHook
  PROVE  IInv'
<1>1. step = "install" /\ step' = "free" /\ Record(plan[todo], "SafetyHook") /\ patch' = patch
      /\ Forget /\ UNCHANGED <<unload, threads>>
  BY DEF InstallSafetyHook, GoesTo
<1>2. AtInstall
  BY <1>1 DEF IInv, StepFits
<1>3. /\ NewHook /\ Patches(patch, plan, Len(plan), target)
      /\ Slots(slot, Chain, Len(Chain), target) /\ Strangers(slot, Chain, target)
  BY <1>2 DEF AtInstall
<1>4. \A d : InList(plan, d) <=> InList(Chain, d) \/ d = plan[todo]
  BY <1>3, NewHookFits
<1>5. \A d \in Of(target) : InList(plan, d) \/ slot[d] = Code(target)
  BY <1>3, <1>4 DEF Strangers
<1>6. /\ patch' \in [Address -> Detour \cup {NoDetour}]
      /\ Patches(patch', plan, Len(plan), target) /\ \A a \in Address \ At(target) : patch'[a] = patch[a]
  BY <1>1, <1>3 DEF IInv, Types, TypeOK
<1>7. \A t \in Target \ {target} : AtRest(t)
  BY DEF AtRest
<1> QED
  BY <1>1, <1>3, <1>5, <1>6, <1>7, RecordKeeps

LEMMA AttachFailsKeeps ==
  ASSUME IInv, AttachFails
  PROVE  IInv'
<1> USE DEF hooks, unload, Forget
<1> DEFINE p == plan[todo]
<1>1. step = "commit" /\ step' = "free" /\ slot' = [slot EXCEPT ![p] = Code(target)]
      /\ Forget /\ UNCHANGED <<hooks, patch, unload, threads>>
  BY DEF AttachFails, GoesTo
<1>2. AtCommit /\ NewHook /\ Linked(patch, slot, Chain, target)
  BY <1>1 DEF IInv, StepFits, AtCommit
<1>3. /\ target \in Target /\ ListOf(Chain, target) /\ Len(Chain) \in Nat
      /\ p \in Of(target) /\ ~InList(Chain, p) /\ leaving = NoModule
  BY <1>2, NewHookFits DEF NewHook
<1>4. slot \in [Detour -> Pointer] /\ p \in Detour /\ target \in Address
  BY <1>3 DEF IInv, Types, TypeOK, Of, Address
<1> HIDE DEF p
<1>5. slot'[p] = Code(target) /\ (\A d : d # p => slot'[d] = slot[d]) /\ slot' \in [Detour -> Pointer]
  BY <1>1, <1>4, PointersAre
<1>6. Types'
  <2>1. /\ target' \in Target /\ removed' \in SUBSET Detour /\ plan' \in Seq(Detour)
        /\ todo' \in 0 .. Len(plan') + 1 /\ tried' \in 0 .. 2
    BY <1>1, ForgetIsTyped
  <2> QED
    BY <1>1, <1>5, <2>1 DEF IInv, Types, TypeOK, Hooks
<1>7. Settled(patch, slot', Chain, target)
  <2>1. Patches(patch, Chain, Len(Chain), target) /\ Slots(slot, Chain, Len(Chain), target)
    BY <1>2 DEF Linked
  <2>2. Slots(slot', Chain, Len(Chain), target)
    BY <1>3, <1>5, <2>1 DEF Slots, InList
  <2>3. Strangers(slot', Chain, target)
    BY <1>2, <1>5 DEF AtCommit, Strangers, p
  <2> QED
    BY <2>1, <2>2, <2>3 DEF Settled, Linked
<1>8. Near(slot', Chain, target)
  <2>1. Near(slot, Chain, target)
    BY <1>3 DEF IInv, TargetFits, Chain
  <2> QED
    BY <1>4, <1>5, <2>1, PointersAre DEF Near
<1>9. \A t \in Target : TargetFits(t)'
  <2>1. PICK w \in Target : w = target
    BY <1>3
  <2>2. TargetFits(w)' /\ target' = w
    BY <1>1, <1>3, <1>7, <1>8, <2>1 DEF TargetFits, Chain
  <2>3. /\ \A t \in Target \ {w} : AtRest(t) /\ chains'[t] = chains[t]
        /\ \A a \in Address \ At(w) : patch'[a] = patch[a]
        /\ \A d \in Detour \ Of(w) : slot'[d] = slot[d]
    BY <1>1, <1>3, <1>5, <2>1 DEF AtRest
  <2> QED
    BY <2>1, <2>2, <2>3, OthersStay
<1>10. StepFits' /\ Away' /\ Leaving' /\ ThreadsFit'
  BY <1>1, <1>3 DEF IInv, StepFits, Away, Leaving, ThreadsFit
<1> QED
  BY <1>6, <1>9, <1>10 DEF IInv

-----------------------------------------------------------------------------
(* Rebuilding                                                                    *)

LEMMA RebuildGoesOn ==
  ASSUME IInv, UNCHANGED <<hooks, target, unload, threads>>,
         step \notin {"free", "module"}, step' \in {"prepare", "destroy", "create", "store", "reset"},
         removed' = removed \/ removed' = Hooks(target),
         plan' \in Seq(Detour), todo' \in 0 .. Len(plan') + 1, tried' \in 0 .. 2,
         patch' \in [Address -> Detour \cup {NoDetour}], slot' \in [Detour -> Pointer],
         \A a \in Address \ At(target) : patch'[a] = patch[a],
         \A d \in Detour \ Of(target) : slot'[d] = slot[d],
         Near(slot', Chain, target), StepFits'
  PROVE  IInv'
<1> USE DEF hooks
<1>1. target \in Target /\ ListOf(Chain, target) /\ Hooks(target) \in SUBSET Detour
  BY HooksAreInList DEF IInv, Types, TypeOK, Chain, Of
<1>2. Types'
  BY <1>1 DEF IInv, Types, TypeOK, Hooks, unload
<1>3. \A t \in Target : TargetFits(t)'
  <2>1. PICK w \in Target : w = target
    BY <1>1
  <2>2. TargetFits(w)' /\ target' = w
    BY <1>1, <2>1 DEF TargetFits, Chain, AtRest
  <2>3. \A t \in Target \ {w} : AtRest(t) /\ chains'[t] = chains[t]
    BY <2>1 DEF AtRest
  <2> QED
    BY <2>1, <2>2, <2>3, OthersStay
<1>4. Away' /\ Leaving' /\ ThreadsFit'
  BY ModulesStay
<1> QED
  BY <1>2, <1>3, <1>4 DEF IInv

LEMMA RebuildEnds ==
  ASSUME IInv, EndRebuild(FALSE), UNCHANGED <<hooks, threads>>,
         patch' \in [Address -> Detour \cup {NoDetour}], slot' \in [Detour -> Pointer],
         \A a \in Address \ At(target) : patch'[a] = patch[a],
         \A d \in Detour \ Of(target) : slot'[d] = slot[d],
         Near(slot', Chain, target), Settled(patch', slot', Chain, target)
  PROVE  IInv'
<1> USE DEF hooks
<1>1. target \in Target /\ ListOf(Chain, target)
  BY HooksAreInList DEF IInv, Types, TypeOK, Chain
<1>2. Types'
  <2>1. /\ target' \in Target /\ removed' \in SUBSET Detour /\ plan' \in Seq(Detour)
        /\ todo' \in 0 .. Len(plan') + 1 /\ tried' \in 0 .. 2
    BY ForgetIsTyped DEF EndRebuild
  <2> QED
    BY <2>1 DEF IInv, Types, TypeOK, Hooks, EndRebuild
<1>3. \A t \in Target : TargetFits(t)'
  <2>1. PICK w \in Target : w = target
    BY <1>1
  <2>2. TargetFits(w)' /\ target' = w
    BY <1>1, <2>1 DEF TargetFits, Chain, EndRebuild, Forget
  <2>3. \A t \in Target \ {w} : AtRest(t) /\ chains'[t] = chains[t]
    BY <2>1 DEF AtRest
  <2> QED
    BY <2>1, <2>2, <2>3, OthersStay
<1>4. Away' /\ Leaving' /\ ThreadsFit' /\ StepFits'
  BY EndsWell
<1> QED
  BY <1>2, <1>3, <1>4 DEF IInv

LEMMA CodeIsTyped ==
  ASSUME IInv
  PROVE  /\ patch \in [Address -> Detour \cup {NoDetour}] /\ slot \in [Detour -> Pointer]
         /\ target \in Target /\ target \in Address /\ Near(slot, Chain, target)
         /\ plan \in Seq(Detour) /\ todo \in 0 .. Len(plan) + 1
         /\ At(target) \subseteq Address /\ Of(target) \subseteq At(target) /\ Of(target) \subseteq Detour
  BY AtIsAddress DEF IInv, Types, TypeOK, TargetFits, Chain, Address, At, Of

LEMMA DetachBatchKeeps ==
  ASSUME IInv, DetachBatch
  PROVE  IInv'
<1> USE DEF hooks
<1>1. /\ step = "detach" /\ step' = "prepare" /\ patch' = Restored(plan) /\ slot' = Redirected(plan, "code")
      /\ plan' = RecordsExcept(target, removed) /\ todo' = 1
      /\ UNCHANGED <<hooks, target, removed, tried, unload, threads>>
  BY DEF DetachBatch, GoesTo
<1>2. plan = Chain /\ tried = 0 /\ plan' = Kept
  BY <1>1 DEF IInv, StepFits, AtDetach, RecordsExcept, Kept, Chain
<1>3. /\ target \in Target /\ ListOf(Chain, target) /\ ListOf(Kept, target)
      /\ Len(Chain) \in Nat /\ DOMAIN Chain = 1 .. Len(Chain)
      /\ Kept \in Seq(Detour) /\ Len(Kept) \in Nat
  BY KeptIsShorter, ListsAreTyped
<1>4. Settled(patch, slot, Chain, target)
  BY <1>1, <1>3 DEF IInv, TargetFits, AtRest, Chain
<1>5. \A i \in 1 .. Len(Chain) : slot[Chain[i]] = Trampoline(Before(Chain, i, target))
                                 /\ slot[Chain[i]].to = Before(Chain, i, target)
  BY <1>4 DEF Settled, Linked, Slots, Trampoline
<1>6. \A i \in 1 .. Len(Chain) : Before(Chain, i, target) \in At(target) /\ Chain[i] \in Of(target)
  BY <1>3, BeforeIsThere
<1>7. /\ patch' \in [Address -> Detour \cup {NoDetour}]
      /\ \A a \in Address \ At(target) : patch'[a] = patch[a]
      /\ Patches(patch', <<>>, 0, target)
  <2>1. \A a \in Address : patch'[a] = IF \E i \in 1 .. Len(Chain) : Before(Chain, i, target) = a
                                       THEN NoDetour ELSE patch[a]
    BY <1>1, <1>2, <1>3, <1>5 DEF Restored
  <2>2. ASSUME NEW a \in At(target) PROVE patch'[a] = NoDetour
    BY <1>3, <1>4, <2>1, AtIsAddress DEF Settled, Linked, Patches
  <2>3. \A a \in Address : patch'[a] \in Detour \cup {NoDetour}
    BY <2>1, CodeIsTyped
  <2>4. patch' \in [Address -> Detour \cup {NoDetour}]
    BY <1>1, <2>3 DEF Restored
  <2>5. \A a \in Address \ At(target) : patch'[a] = patch[a]
    BY <1>6, <2>1
  <2> QED
    BY <2>2, <2>4, <2>5 DEF Patches
<1>8. /\ \A i \in 1 .. Len(Chain) : slot'[Chain[i]] = Code(Before(Chain, i, target))
      /\ \A d \in Detour : ~InList(Chain, d) => slot'[d] = slot[d]
      /\ \A d \in Detour : slot'[d].to = slot[d].to
      /\ slot' \in [Detour -> Pointer]
  <2>1. \A d \in Detour : slot'[d] = IF InList(Chain, d) THEN [kind |-> "code", to |-> slot[d].to] ELSE slot[d]
    BY <1>1, <1>2, <1>3 DEF Redirected, InList
  <2>2. \A d \in Detour : slot[d] \in Pointer /\ slot'[d] \in Pointer /\ slot'[d].to = slot[d].to
    <3> TAKE d \in Detour
    <3>1. slot[d] \in Pointer
      BY CodeIsTyped
    <3>2. slot[d].to \in Address
      BY <3>1 DEF Pointer
    <3>3. [kind |-> "code", to |-> slot[d].to] \in Pointer
      BY <3>2 DEF Pointer
    <3>4. [kind |-> "code", to |-> slot[d].to].to = slot[d].to
      OBVIOUS
    <3>5. CASE InList(Chain, d)
      BY <2>1, <3>1, <3>3, <3>4, <3>5
    <3>6. CASE ~InList(Chain, d)
      BY <2>1, <3>1, <3>6
    <3> QED
      BY <3>5, <3>6
  <2>3. slot' \in [Detour -> Pointer]
    BY <1>1, <2>2 DEF Redirected
  <2>4. ASSUME NEW i \in 1 .. Len(Chain) PROVE slot'[Chain[i]] = Code(Before(Chain, i, target))
    <3>1. Chain[i] \in Detour /\ InList(Chain, Chain[i])
      BY <1>6 DEF InList, Of
    <3> QED
      BY <1>5, <2>1, <3>1 DEF Code
  <2> QED
    BY <2>1, <2>2, <2>3, <2>4
<1>9. Near(slot', Chain, target) /\ \A d \in Detour \ Of(target) : slot'[d] = slot[d]
  <2>1. \A d \in Detour \ Of(target) : ~InList(Chain, d)
    BY <1>6 DEF InList
  <2> QED
    BY <1>8, <2>1, CodeIsTyped DEF Near
<1>10. Strangers(slot', Chain, target)
  BY <1>4, <1>8, CodeIsTyped DEF Settled, Strangers
<1>11. Strays(slot', <<>>, Chain, target)
  <2> SUFFICES ASSUME NEW d \in Of(target)
               PROVE  slot'[d].kind = "code" /\ (slot'[d].to = target \/ Older(Chain, slot'[d].to, d))
    BY DEF Strays
  <2>1. CASE InList(Chain, d)
    <3>1. PICK i \in 1 .. Len(Chain) : Chain[i] = d
      BY <2>1 DEF InList
    <3>2. slot'[d] = Code(Before(Chain, i, target))
      BY <1>8, <3>1
    <3>3. slot'[d].kind = "code" /\ slot'[d].to = Before(Chain, i, target)
      BY <3>2 DEF Code
    <3>4. CASE i = 1
      BY <3>3, <3>4 DEF Before
    <3>5. CASE i # 1
      <4>1. i \in 2 .. Len(Chain) + 1 /\ i - 1 \in 1 .. i - 1
        BY <1>3, <3>5
      <4>2. Before(Chain, i, target) = Chain[i - 1]
        BY <1>3, <4>1, BeforeIsThere
      <4> QED
        BY <3>1, <3>3, <4>1, <4>2 DEF Older
    <3> QED
      BY <3>4, <3>5
  <2>2. CASE ~InList(Chain, d)
    <3>1. slot'[d] = Code(target)
      BY <1>10, <2>2 DEF Strangers
    <3> QED
      BY <3>1 DEF Code
  <2> QED
    BY <2>1, <2>2
<1>12. StepFits'
  <2>1. Chain' = Chain /\ Kept' = Kept
    BY <1>1 DEF Chain, Kept
  <2>2. AtPrepare'
    BY <1>1, <1>2, <1>3, <1>7, <1>10, <1>11, <2>1 DEF AtPrepare
  <2> QED
    BY <1>1, <2>2 DEF StepFits
<1>13. plan' \in Seq(Detour) /\ todo' \in 0 .. Len(plan') + 1 /\ tried' \in 0 .. 2
  BY <1>1, <1>2, <1>3
<1> QED
  BY <1>1, <1>7, <1>8, <1>9, <1>12, <1>13, RebuildGoesOn

LEMMA PrepareHookChainKeeps ==
  ASSUME IInv, PrepareHookChain
  PROVE  IInv'
<1> USE DEF hooks
<1> DEFINE p == plan[todo]
           b == Before(plan, todo, target)
<1>1. /\ step = "prepare" /\ step' = "prepare" /\ todo <= Len(plan) /\ todo' = todo + 1
      /\ slot' = [slot EXCEPT ![p] = Code(b)]
      /\ UNCHANGED <<chains, backend, patch, target, removed, plan, tried, unload, threads>>
  BY DEF PrepareHookChain
<1>2. AtPrepare
  BY <1>1 DEF IInv, StepFits
<1>3. plan = Kept \/ plan = Chain
  BY <1>2 DEF AtPrepare
<1>4. /\ target \in Target /\ ListOf(Chain, target) /\ ListOf(plan, target) /\ Len(plan) \in Nat
      /\ \A d : InList(plan, d) => InList(Chain, d)
      /\ \A i \in 1 .. Len(plan) : InList(Chain, plan[i]) /\ plan[i] \in Of(target)
      /\ \A j \in 2 .. Len(plan) : Older(Chain, plan[j - 1], plan[j])
  BY <1>3, PlanFits
<1>5. todo \in 1 .. Len(plan) /\ todo \in 1 .. Len(plan) + 1 /\ InList(Chain, p) /\ p \in Of(target)
  BY <1>1, <1>2, <1>4 DEF AtPrepare
<1>6. b \in Address /\ (b = target \/ InList(Chain, b)) /\ (b = target \/ Older(Chain, b, p))
  <2>1. b \in Address /\ (b = target \/ InList(Chain, b))
    BY <1>4, <1>5, BeforeIsNear
  <2>2. CASE todo = 1
    BY <2>1, <2>2 DEF Before
  <2>3. CASE todo # 1
    <3>1. todo \in 2 .. Len(plan) /\ todo \in 2 .. Len(plan) + 1
      BY <1>4, <1>5, <2>3
    <3>2. b = plan[todo - 1]
      BY <1>4, <3>1, BeforeIsThere
    <3> QED
      BY <1>4, <2>1, <3>1, <3>2
  <2> QED
    BY <2>2, <2>3
<1>7. p \in Detour /\ slot \in [Detour -> Pointer]
  BY <1>5, CodeIsTyped
<1> HIDE DEF p, b
<1>8. slot'[p] = Code(b) /\ (\A d : d # p => slot'[d] = slot[d]) /\ slot' \in [Detour -> Pointer]
  BY <1>1, <1>6, <1>7, PointersAre
<1>9. Near(slot', Chain, target) /\ \A d \in Detour \ Of(target) : slot'[d] = slot[d]
  BY <1>5, <1>6, <1>8, CodeIsTyped, PointersAre DEF Near
<1>10. Strangers(slot', Chain, target)
  BY <1>2, <1>5, <1>8 DEF AtPrepare, Strangers
<1>11. Strays(slot', <<>>, Chain, target)
  <2> SUFFICES ASSUME NEW d \in Of(target)
               PROVE  \/ InList(<<>>, d)
                      \/ /\ slot'[d].kind = "code"
                         /\ slot'[d].to = target \/ InList(<<>>, slot'[d].to) \/ Older(Chain, slot'[d].to, d)
    BY DEF Strays
  <2>1. CASE d = p
    BY <1>6, <1>8, <2>1, PointersAre
  <2>2. CASE d # p
    BY <1>2, <1>8, <2>2 DEF AtPrepare, Strays
  <2> QED
    BY <2>1, <2>2
<1>12. ASSUME NEW i \in 1 .. todo' - 1 PROVE slot'[plan[i]] = Code(Before(plan, i, target))
  <2>1. CASE i = todo
    BY <1>8, <2>1 DEF p, b
  <2>2. CASE i # todo
    <3>1. i \in 1 .. todo - 1 /\ i \in 1 .. Len(plan)
      BY <1>1, <1>4, <1>5, <2>2
    <3>2. plan[i] # p
      BY <1>4, <1>5, <2>2, <3>1 DEF ListOf, p
    <3> QED
      BY <1>2, <1>8, <3>1, <3>2 DEF AtPrepare
  <2> QED
    BY <2>1, <2>2
<1>13. StepFits'
  <2>1. Chain' = Chain /\ Kept' = Kept
    BY <1>1 DEF Chain, Kept
  <2>2. todo' \in 1 .. Len(plan) + 1
    BY <1>1, <1>4, <1>5
  <2>3. AtPrepare'
    BY <1>1, <1>2, <1>10, <1>11, <1>12, <2>1, <2>2 DEF AtPrepare
  <2> QED
    BY <1>1, <2>3 DEF StepFits
<1>14. /\ plan' \in Seq(Detour) /\ todo' \in 0 .. Len(plan') + 1 /\ tried' \in 0 .. 2
       /\ patch' \in [Address -> Detour \cup {NoDetour}] /\ \A a \in Address \ At(target) : patch'[a] = patch[a]
  BY <1>1, <1>4, <1>5 DEF IInv, Types, TypeOK
<1> QED
  BY <1>1, <1>8, <1>9, <1>13, <1>14, RebuildGoesOn

(* What AttachBatch writes links the plan.                                         *)
LEMMA BatchIsLinked ==
  ASSUME IInv, AtPrepare, todo = Len(plan) + 1
  PROVE  LET pt == Patched(plan)
             sl == Redirected(plan, "trampoline")
         IN  /\ Linked(pt, sl, plan, target) /\ Near(sl, Chain, target)
             /\ pt \in [Address -> Detour \cup {NoDetour}] /\ sl \in [Detour -> Pointer]
             /\ \A a \in Address \ At(target) : pt[a] = patch[a]
             /\ \A d \in Detour \ Of(target) : sl[d] = slot[d]
             /\ \A d \in Detour : ~InList(plan, d) => sl[d] = slot[d]
<1> DEFINE pt == Patched(plan)
           sl == Redirected(plan, "trampoline")
           N == Len(plan)
           B(i) == Before(plan, i, target)
<1>1. plan = Kept \/ plan = Chain
  BY DEF AtPrepare
<1>2. target \in Target /\ ListOf(plan, target) /\ N \in Nat /\ DOMAIN plan = 1 .. N
  BY <1>1, PlanFits, ListsAreTyped
<1>3. \A i \in 1 .. N : /\ slot[plan[i]] = Code(B(i)) /\ slot[plan[i]].to = B(i)
                        /\ plan[i] \in Of(target) /\ plan[i] \in Detour /\ B(i) \in At(target) /\ B(i) \in Address
  <2> TAKE i \in 1 .. N
  <2>1. i \in 1 .. todo - 1 /\ i \in 1 .. N + 1
    BY <1>2
  <2>2. slot[plan[i]] = Code(B(i))
    BY <2>1 DEF AtPrepare
  <2>3. slot[plan[i]].to = B(i)
    BY <2>2 DEF Code
  <2> QED
    BY <1>2, <2>1, <2>2, <2>3, BeforeIsThere, AtIsAddress
<1>4. \A i, j \in 1 .. N : B(i) = B(j) => i = j
  <2> TAKE i, j \in 1 .. N
  <2>1. i \in 1 .. N + 1 /\ j \in 1 .. N + 1
    BY <1>2
  <2> QED
    BY <1>2, <2>1, BeforeIsInjective
<1>5. \A i, j \in 1 .. N : plan[i] = plan[j] => i = j
  BY <1>2 DEF ListOf
<1>6. \A a \in Address : pt[a] = IF \E i \in 1 .. N : slot[plan[i]].to = a
                                 THEN plan[CHOOSE i \in 1 .. N : slot[plan[i]].to = a] ELSE patch[a]
  BY <1>2 DEF Patched
<1>7. \A d \in Detour : sl[d] = IF InList(plan, d) THEN [kind |-> "trampoline", to |-> slot[d].to] ELSE slot[d]
  BY <1>2 DEF Redirected, InList
<1>8. DOMAIN pt = Address /\ pt = [a \in Address |-> pt[a]] /\ sl = [d \in Detour |-> sl[d]]
  BY DEF Patched, Redirected
<1> HIDE DEF pt, sl, N, B
<1>9. \A i \in 1 .. N : pt[B(i)] = plan[i]
  <2> TAKE i \in 1 .. N
  <2>1. \A j \in 1 .. N : slot[plan[j]].to = B(i) <=> j = i
    BY <1>3, <1>4
  <2>2. (CHOOSE j \in 1 .. N : slot[plan[j]].to = B(i)) = i
    BY <2>1
  <2> QED
    BY <1>3, <1>6, <2>1, <2>2
<1>10. \A a \in Address : (\A i \in 1 .. N : a # B(i)) => pt[a] = patch[a]
  BY <1>3, <1>6
<1>11. Patches(pt, plan, N, target)
  <2>1. \A a \in At(target) : a \in Address /\ patch[a] = NoDetour
    BY CodeIsTyped DEF AtPrepare, Patches
  <2> QED
    BY <1>9, <1>10, <2>1 DEF Patches, B
<1>12. Slots(sl, plan, N, target)
  <2> SUFFICES ASSUME NEW i \in 1 .. N PROVE sl[plan[i]] = Trampoline(B(i))
    BY DEF Slots, B
  <2>1. InList(plan, plan[i])
    BY DEF InList, N
  <2> QED
    BY <1>3, <1>7, <2>1 DEF Trampoline
<1>13. \A d \in Detour : sl[d] \in Pointer /\ sl[d].to = slot[d].to
  <2> TAKE d \in Detour
  <2>1. slot[d] \in Pointer
    BY CodeIsTyped
  <2>2. slot[d].to \in Address
    BY <2>1 DEF Pointer
  <2>3. [kind |-> "trampoline", to |-> slot[d].to] \in Pointer
    BY <2>2 DEF Pointer
  <2>4. [kind |-> "trampoline", to |-> slot[d].to].to = slot[d].to
    OBVIOUS
  <2>5. CASE InList(plan, d)
    BY <1>7, <2>3, <2>4, <2>5
  <2>6. CASE ~InList(plan, d)
    BY <1>7, <2>1, <2>6
  <2> QED
    BY <2>5, <2>6
<1>14. Near(sl, Chain, target)
  BY <1>13, CodeIsTyped DEF Near
<1>15. \A a \in Address : pt[a] \in Detour \cup {NoDetour}
  <2> TAKE a \in Address
  <2>1. CASE \E i \in 1 .. N : a = B(i)
    BY <1>3, <1>9, <2>1
  <2>2. CASE \A i \in 1 .. N : a # B(i)
    BY <1>10, <2>2, CodeIsTyped
  <2> QED
    BY <2>1, <2>2
<1>16. pt \in [Address -> Detour \cup {NoDetour}] /\ sl \in [Detour -> Pointer]
  BY <1>8, <1>13, <1>15
<1>17. \A a \in Address \ At(target) : pt[a] = patch[a]
  BY <1>3, <1>10
<1>18. /\ \A d \in Detour : ~InList(plan, d) => sl[d] = slot[d]
       /\ \A d \in Detour \ Of(target) : sl[d] = slot[d]
  <2>1. \A d \in Detour \ Of(target) : ~InList(plan, d)
    BY <1>3 DEF InList, N
  <2> QED
    BY <1>7, <2>1
<1> QED
  BY <1>11, <1>12, <1>14, <1>16, <1>17, <1>18 DEF Linked, pt, sl, N

(* After the new chain, or the old one, is built *)
LEMMA EmptyWhenAllGo ==
  ASSUME NEW t \in Target, NEW C, ListOf(C, t), NEW pt, NEW sl, NEW other, Patches(pt, other, 0, t),
         NEW out, \A d : InList(C, d) => d \in out
  PROVE  Linked(pt, sl, Without(C, out), t) /\ \A d : ~InList(Without(C, out), d)
<1> DEFINE W == Without(C, out)
<1>1. KeptUpTo(C, t, out, Len(C), W)
  BY WithoutKeeps
<1> HIDE DEF W
<1>2. ListOf(W, t) /\ \A d \in Detour : ~InList(W, d)
  BY <1>1 DEF KeptUpTo, InList
<1>3. Len(W) = 0 /\ \A d : ~InList(W, d)
  <2>1. Len(W) \in Nat /\ \A i \in 1 .. Len(W) : W[i] \in Detour /\ InList(W, W[i])
    BY <1>2, BeforeIsThere DEF InList
  <2>2. \A i \in 1 .. Len(W) : FALSE
    BY <1>2, <2>1
  <2> QED
    BY <2>1, <2>2 DEF InList
<1>4. Patches(pt, W, 0, t)
  BY Unpatched
<1> QED
  BY <1>3, <1>4 DEF Linked, Slots, W

LEMMA AttachBatchKeeps ==
  ASSUME IInv, AttachBatch
  PROVE  IInv'
<1> USE DEF hooks
<1>1. /\ step = "prepare" /\ todo = Len(plan) + 1
      /\ patch' = Patched(plan) /\ slot' = Redirected(plan, "trampoline")
      /\ UNCHANGED <<hooks, threads>>
  BY DEF AttachBatch
<1>2. AtPrepare
  BY <1>1 DEF IInv, StepFits
<1>3. /\ Linked(patch', slot', plan, target) /\ Near(slot', Chain, target)
      /\ patch' \in [Address -> Detour \cup {NoDetour}] /\ slot' \in [Detour -> Pointer]
      /\ \A a \in Address \ At(target) : patch'[a] = patch[a]
      /\ \A d \in Detour \ Of(target) : slot'[d] = slot[d]
      /\ \A d \in Detour : ~InList(plan, d) => slot'[d] = slot[d]
  BY <1>1, <1>2, BatchIsLinked
<1>4. /\ target \in Target /\ ListOf(Chain, target) /\ \A d : InList(plan, d) => InList(Chain, d)
      /\ Chain \in Seq(Detour) /\ Len(Chain) \in Nat
  BY <1>2, PlanFits, ListsAreTyped DEF AtPrepare
<1>5. Strangers(slot', Chain, target)
  BY <1>2, <1>3, <1>4, CodeIsTyped DEF AtPrepare, Strangers
<1>6. CASE tried = 0
  <2>1. step' = "reset" /\ todo' = 1 /\ plan' = Chain /\ UNCHANGED <<target, removed, tried, unload>>
    BY <1>6 DEF AttachBatch, Chain
  <2>2. plan = Kept
    BY <1>2, <1>6 DEF AtPrepare
  <2>3. Strays(slot', Kept, Chain, target)
    <3> SUFFICES ASSUME NEW d \in Of(target), ~InList(Kept, d)
                 PROVE  /\ slot'[d].kind = "code"
                        /\ slot'[d].to = target \/ Older(Chain, slot'[d].to, d)
      BY DEF Strays
    <3>1. slot'[d] = slot[d]
      BY <1>3, <2>2, CodeIsTyped
    <3>2. ~InList(<<>>, d) /\ ~InList(<<>>, slot[d].to)
      BY DEF InList
    <3> QED
      BY <1>2, <3>1, <3>2 DEF AtPrepare, Strays
  <2>4. StepFits'
    <3>1. Chain' = Chain /\ Kept' = Kept
      BY <1>1, <2>1 DEF Chain, Kept
    <3>2. todo' \in 1 .. Len(plan') + 1 /\ tried' \in 0 .. 2 /\ \A i \in 1 .. todo' - 1 : FALSE
      BY <1>4, <1>6, <2>1
    <3>3. AtReset'
      BY <1>3, <1>5, <2>1, <2>2, <2>3, <3>1, <3>2 DEF AtReset
    <3> QED
      BY <2>1, <3>3 DEF StepFits
  <2>5. plan' \in Seq(Detour) /\ todo' \in 0 .. Len(plan') + 1 /\ tried' \in 0 .. 2
    BY <1>4, <1>6, <2>1
  <2> QED
    BY <1>1, <1>3, <2>1, <2>4, <2>5, RebuildGoesOn
<1>7. CASE tried # 0
  <2>1. EndRebuild(FALSE) /\ plan = Chain
    BY <1>2, <1>7 DEF AttachBatch, AtPrepare
  <2>2. Settled(patch', slot', Chain, target)
    BY <1>3, <1>5, <2>1 DEF Settled
  <2> QED
    BY <1>1, <1>3, <2>1, <2>2, RebuildEnds
<1> QED
  BY <1>6, <1>7

LEMMA AttachBatchFailsKeeps ==
  ASSUME IInv, AttachBatchFails
  PROVE  IInv'
<1> USE DEF hooks
<1>1. /\ step = "prepare" /\ todo = Len(plan) + 1 /\ plan' = Chain /\ todo' = 1 /\ tried' = tried + 1
      /\ step' = (IF tried = 0 THEN "prepare" ELSE "reset")
      /\ removed' = (IF tried = 0 THEN removed ELSE Hooks(target))
      /\ UNCHANGED <<patch, slot, chains, backend, target, unload, threads>>
  BY DEF AttachBatchFails, Chain, code
<1>2. AtPrepare
  BY <1>1 DEF IInv, StepFits
<1>3. /\ target \in Target /\ ListOf(Chain, target) /\ Chain \in Seq(Detour) /\ Len(Chain) \in Nat
  BY KeptIsShorter, ListsAreTyped
<1>4. Chain' = Chain
  BY <1>1 DEF Chain
<1>5. tried' \in 0 .. 2 /\ (tried = 0 => tried' = 1) /\ (tried # 0 => tried' = 2)
  BY <1>1, <1>2 DEF AtPrepare
<1>6. todo' \in 1 .. Len(plan') + 1 /\ \A i \in 1 .. todo' - 1 : FALSE
  BY <1>1, <1>3
<1>7. ASSUME tried = 0 PROVE StepFits' /\ step' \in {"prepare", "reset"}
  <2>1. AtPrepare'
    <3>1. /\ Patches(patch', <<>>, 0, target) /\ Strays(slot', <<>>, Chain, target)
          /\ Strangers(slot', Chain, target)
      BY <1>1, <1>2 DEF AtPrepare
    <3>2. tried' \in 0 .. 1 /\ plan' = IF tried' = 0 THEN Kept' ELSE Chain'
      BY <1>1, <1>4, <1>5, <1>7
    <3> QED
      BY <1>1, <1>4, <1>6, <3>1, <3>2 DEF AtPrepare
  <2> QED
    BY <1>1, <1>7, <2>1 DEF StepFits
<1>8. ASSUME tried # 0 PROVE StepFits' /\ step' \in {"prepare", "reset"}
  <2>1. \A d : InList(Chain, d) => d \in removed'
    BY <1>1, <1>3, <1>8, HooksAreInList DEF Chain
  <2>2. Patches(patch, <<>>, 0, target)
    BY <1>2 DEF AtPrepare
  <2>3. Linked(patch, slot, Kept', target)
    BY <1>3, <1>4, <2>1, <2>2, EmptyWhenAllGo DEF Kept
  <2>4. Strays(slot, Kept', Chain, target)
    <3>1. \A d : ~InList(<<>>, d)
      BY DEF InList
    <3> QED
      BY <1>2, <3>1 DEF AtPrepare, Strays
  <2>5. Strangers(slot', Chain, target)
    BY <1>1, <1>2 DEF AtPrepare
  <2>6. AtReset'
    BY <1>1, <1>4, <1>5, <1>6, <2>3, <2>4, <2>5 DEF AtReset
  <2> QED
    BY <1>1, <1>8, <2>6 DEF StepFits
<1>9. StepFits' /\ step' \in {"prepare", "reset"}
  BY <1>7, <1>8
<1>10. /\ plan' \in Seq(Detour) /\ todo' \in 0 .. Len(plan') + 1
       /\ patch' \in [Address -> Detour \cup {NoDetour}] /\ slot' \in [Detour -> Pointer]
       /\ Near(slot', Chain, target)
       /\ \A a \in Address \ At(target) : patch'[a] = patch[a]
       /\ \A d \in Detour \ Of(target) : slot'[d] = slot[d]
  BY <1>1, <1>3, <1>6, CodeIsTyped
<1>11. removed' = removed \/ removed' = Hooks(target)
  BY <1>1
<1> QED
  BY <1>1, <1>5, <1>9, <1>10, <1>11, RebuildGoesOn

LEMMA DestroyHookKeeps ==
  ASSUME IInv, DestroyHook
  PROVE  IInv'
<1> USE DEF hooks
<1> DEFINE p == plan[todo]
           b == Before(plan, todo, target)
<1>1. /\ step = "destroy" /\ step' = "destroy" /\ todo > 0 /\ todo' = todo - 1
      /\ patch' = [patch EXCEPT ![b] = NoDetour] /\ slot' = [slot EXCEPT ![p] = Freed(b)]
      /\ UNCHANGED <<chains, backend, target, removed, plan, tried, unload, threads>>
  BY DEF DestroyHook
<1>2. AtDestroy
  BY <1>1 DEF IInv, StepFits
<1>3. /\ target \in Target /\ ListOf(Chain, target) /\ ListOf(plan, target) /\ Len(plan) \in Nat
      /\ \A i \in 1 .. Len(plan) : InList(Chain, plan[i]) /\ plan[i] \in Of(target)
      /\ \A d : InList(plan, d) => InList(Chain, d)
  BY <1>2, PlanFits DEF AtDestroy
<1>4. todo \in 1 .. Len(plan) /\ todo \in 1 .. Len(plan) + 1 /\ todo - 1 \in 0 .. Len(plan)
  BY <1>1, <1>2, <1>3 DEF AtDestroy
<1>5. /\ b \in Address /\ b \in At(target) /\ (b = target \/ InList(Chain, b))
      /\ p \in Of(target) /\ p \in Detour /\ InList(Chain, p)
  BY <1>3, <1>4, BeforeIsNear, BeforeIsThere, CodeIsTyped
<1>6. /\ patch \in [Address -> Detour \cup {NoDetour}] /\ DOMAIN patch = Address
      /\ slot \in [Detour -> Pointer]
  BY CodeIsTyped
<1>7. /\ patch' \in [Address -> Detour \cup {NoDetour}] /\ \A a \in Address \ At(target) : patch'[a] = patch[a]
  BY <1>1, <1>5, <1>6
<1>8. Patches(patch', plan, todo - 1, target)
  <2>1. Patches(patch, plan, todo, target)
    BY <1>2 DEF AtDestroy, Partly
  <2> QED
    BY <1>1, <1>3, <1>4, <1>6, <2>1, PatchUndone
<1> HIDE DEF b
<1>9. slot'[p] = Freed(b) /\ (\A d : d # p => slot'[d] = slot[d]) /\ slot' \in [Detour -> Pointer]
  BY <1>1, <1>5, <1>6, PointersAre
<1>10. Slots(slot', plan, todo - 1, target)
  <2>1. Slots(slot, plan, todo, target)
    BY <1>2 DEF AtDestroy, Partly
  <2>2. todo - 1 \in 0 .. todo /\ todo \in 0 .. Len(plan)
    BY <1>3, <1>4
  <2>3. \A i \in 1 .. todo - 1 : slot'[plan[i]] = slot[plan[i]]
    <3> TAKE i \in 1 .. todo - 1
    <3>1. i \in 1 .. Len(plan) /\ i # todo
      BY <1>3, <1>4
    <3>2. plan[i] # p
      BY <1>3, <1>4, <3>1 DEF ListOf
    <3> QED
      BY <1>9, <3>2
  <2> HIDE DEF p
  <2> QED
    BY <1>3, <2>1, <2>2, <2>3, SlotsBelow
<1> HIDE DEF p
<1>11. Strangers(slot', Chain, target)
  BY <1>2, <1>5, <1>9 DEF AtDestroy, Partly, Strangers
<1>12. Near(slot', Chain, target) /\ \A d \in Detour \ Of(target) : slot'[d] = slot[d]
  BY <1>5, <1>9, CodeIsTyped, PointersAre DEF Near
<1>13. StepFits'
  <2>1. Chain' = Chain /\ Kept' = Kept
    BY <1>1 DEF Chain, Kept
  <2>2. AtDestroy'
    BY <1>1, <1>2, <1>4, <1>8, <1>10, <1>11, <2>1 DEF AtDestroy, Partly
  <2> QED
    BY <1>1, <2>2 DEF StepFits
<1>14. plan' \in Seq(Detour) /\ todo' \in 0 .. Len(plan') + 1 /\ tried' \in 0 .. 2
  BY <1>1, <1>2, <1>3, <1>4, CodeIsTyped DEF AtDestroy
<1> QED
  BY <1>1, <1>7, <1>9, <1>12, <1>13, <1>14, RebuildGoesOn

LEMMA CodeUntouched ==
  ASSUME IInv, UNCHANGED <<patch, slot>>
  PROVE  /\ patch' \in [Address -> Detour \cup {NoDetour}] /\ slot' \in [Detour -> Pointer]
         /\ \A a \in Address \ At(target) : patch'[a] = patch[a]
         /\ \A d \in Detour \ Of(target) : slot'[d] = slot[d]
         /\ Near(slot', Chain, target)
  BY CodeIsTyped

LEMMA DestroyedKeeps ==
  ASSUME IInv, Destroyed
  PROVE  IInv'
<1> USE DEF hooks
<1>1. /\ step = "destroy" /\ todo = 0 /\ todo' = 1 /\ tried' = tried
      /\ step' = (IF tried = 2 THEN "reset" ELSE "create")
      /\ plan' = (IF tried = 0 THEN Kept ELSE Chain)
      /\ removed' = (IF tried = 2 THEN Hooks(target) ELSE removed)
      /\ UNCHANGED <<patch, slot, chains, backend, target, unload, threads>>
  BY DEF Destroyed, Chain, Kept, RecordsExcept, code
<1>2. AtDestroy
  BY <1>1 DEF IInv, StepFits
<1>3. /\ target \in Target /\ ListOf(Chain, target) /\ Chain \in Seq(Detour) /\ Len(Chain) \in Nat
      /\ Kept \in Seq(Detour) /\ Len(Kept) \in Nat
  BY KeptIsShorter, ListsAreTyped
<1>4. /\ Patches(patch, plan, 0, target) /\ Strangers(slot, Chain, target)
      /\ backend[target] = "SafetyHook" /\ tried \in 0 .. 2
  BY <1>1, <1>2 DEF AtDestroy, Partly
<1>5. plan' \in Seq(Detour) /\ todo' \in 0 .. Len(plan') + 1 /\ todo' \in 1 .. Len(plan') + 1
      /\ \A i \in 1 .. todo' - 1 : FALSE
  BY <1>1, <1>3
<1>6. Chain' = Chain
  BY <1>1 DEF Chain
<1>7. ASSUME tried = 2 PROVE StepFits' /\ step' \in {"create", "reset"}
  <2>1. \A d : InList(Chain, d) => d \in removed'
    BY <1>1, <1>3, <1>7, HooksAreInList DEF Chain
  <2>2. Linked(patch, slot, Kept', target)
    BY <1>3, <1>4, <1>6, <2>1, EmptyWhenAllGo DEF Kept
  <2>3. AtReset'
    BY <1>1, <1>4, <1>5, <1>6, <1>7, <2>2 DEF AtReset
  <2> QED
    BY <1>1, <1>7, <2>3 DEF StepFits
<1>8. ASSUME tried # 2 PROVE StepFits' /\ step' \in {"create", "reset"}
  <2>1. Kept' = Kept /\ tried' \in 0 .. 1
    BY <1>1, <1>4, <1>8 DEF Kept, Chain
  <2>2. Patches(patch, plan', 0, target)
    BY <1>4, Unpatched
  <2>3. todo' - 1 = 0 /\ Slots(slot, plan', 0, target)
    BY <1>1 DEF Slots
  <2>4. AtCreate'
    BY <1>1, <1>4, <1>5, <1>6, <2>1, <2>2, <2>3 DEF AtCreate, Partly
  <2> QED
    BY <1>1, <1>8, <2>4 DEF StepFits
<1>9. StepFits' /\ step' \in {"create", "reset"}
  BY <1>7, <1>8
<1>10. removed' = removed \/ removed' = Hooks(target)
  BY <1>1
<1>11. tried' \in 0 .. 2
  BY <1>1, <1>4
<1> QED
  BY <1>1, <1>5, <1>9, <1>10, <1>11, CodeUntouched, RebuildGoesOn

LEMMA CreateHookKeeps ==
  ASSUME IInv, CreateHook
  PROVE  IInv'
<1> USE DEF hooks
<1> DEFINE b == Before(plan, todo, target)
<1>1. /\ step = "create" /\ step' = "store" /\ todo <= Len(plan)
      /\ patch' = [patch EXCEPT ![b] = plan[todo]]
      /\ UNCHANGED <<slot, chains, backend, target, removed, plan, todo, tried, unload, threads>>
  BY DEF CreateHook, GoesTo, rebuild
<1>2. AtCreate
  BY <1>1 DEF IInv, StepFits
<1>3. /\ target \in Target /\ ListOf(Chain, target) /\ ListOf(plan, target) /\ Len(plan) \in Nat
      /\ \A i \in 1 .. Len(plan) : plan[i] \in Of(target)
  BY <1>2, PlanFits DEF AtCreate
<1>4. todo \in 1 .. Len(plan) /\ todo \in 1 .. Len(plan) + 1
  BY <1>1, <1>2, <1>3 DEF AtCreate
<1>5. b \in Address /\ b \in At(target) /\ plan[todo] \in Detour
  BY <1>3, <1>4, BeforeIsThere, CodeIsTyped
<1>6. patch \in [Address -> Detour \cup {NoDetour}] /\ DOMAIN patch = Address
  BY CodeIsTyped
<1>7. patch' \in [Address -> Detour \cup {NoDetour}] /\ \A a \in Address \ At(target) : patch'[a] = patch[a]
  BY <1>1, <1>5, <1>6
<1>8. Patches(patch', plan, todo, target)
  <2>1. Patches(patch, plan, todo - 1, target)
    BY <1>2 DEF AtCreate, Partly
  <2> QED
    BY <1>1, <1>3, <1>4, <1>6, <2>1, PatchNext
<1>9. StepFits'
  <2>1. Chain' = Chain /\ Kept' = Kept
    BY <1>1 DEF Chain, Kept
  <2>2. AtStore'
    BY <1>1, <1>2, <1>4, <1>8, <2>1 DEF AtStore, AtCreate, Partly
  <2> QED
    BY <1>1, <2>2 DEF StepFits
<1>10. /\ slot' \in [Detour -> Pointer] /\ Near(slot', Chain, target)
       /\ \A d \in Detour \ Of(target) : slot'[d] = slot[d]
       /\ plan' \in Seq(Detour) /\ todo' \in 0 .. Len(plan') + 1 /\ tried' \in 0 .. 2
  BY <1>1, <1>2, CodeIsTyped DEF AtCreate
<1> QED
  BY <1>1, <1>7, <1>9, <1>10, RebuildGoesOn

LEMMA StoreTrampolineKeeps ==
  ASSUME IInv, StoreTrampoline
  PROVE  IInv'
<1> USE DEF hooks
<1> DEFINE p == plan[todo]
           b == Before(plan, todo, target)
<1>1. /\ step = "store" /\ step' = "create" /\ todo' = todo + 1 /\ slot' = [slot EXCEPT ![p] = Trampoline(b)]
      /\ UNCHANGED <<patch, chains, backend, target, removed, plan, tried, unload, threads>>
  BY DEF StoreTrampoline, GoesTo
<1>2. AtStore
  BY <1>1 DEF IInv, StepFits
<1>3. /\ target \in Target /\ ListOf(Chain, target) /\ ListOf(plan, target) /\ Len(plan) \in Nat
      /\ \A i \in 1 .. Len(plan) : InList(Chain, plan[i]) /\ plan[i] \in Of(target)
      /\ \A d : InList(plan, d) => InList(Chain, d)
  BY <1>2, PlanFits DEF AtStore
<1>4. todo \in 1 .. Len(plan) /\ todo \in 1 .. Len(plan) + 1 /\ todo' - 1 = todo /\ todo' \in 1 .. Len(plan) + 1
  BY <1>1, <1>2, <1>3 DEF AtStore
<1>5. /\ b \in Address /\ (b = target \/ InList(Chain, b))
      /\ p \in Of(target) /\ p \in Detour /\ InList(Chain, p)
  BY <1>3, <1>4, BeforeIsNear, CodeIsTyped
<1>6. slot \in [Detour -> Pointer] /\ DOMAIN slot = Detour
  BY CodeIsTyped
<1>7. Slots(slot', plan, todo, target)
  <2>1. Slots(slot, plan, todo - 1, target)
    BY <1>2 DEF AtStore, Partly
  <2> QED
    BY <1>1, <1>3, <1>4, <1>6, <2>1, SlotNext
<1> HIDE DEF p, b
<1>8. slot'[p] = Trampoline(b) /\ (\A d : d # p => slot'[d] = slot[d]) /\ slot' \in [Detour -> Pointer]
  BY <1>1, <1>5, <1>6, PointersAre
<1>9. Strangers(slot', Chain, target)
  BY <1>2, <1>5, <1>8 DEF AtStore, Partly, Strangers
<1>10. Near(slot', Chain, target) /\ \A d \in Detour \ Of(target) : slot'[d] = slot[d]
  BY <1>5, <1>8, CodeIsTyped, PointersAre DEF Near
<1>11. StepFits'
  <2>1. Chain' = Chain /\ Kept' = Kept
    BY <1>1 DEF Chain, Kept
  <2>2. AtCreate'
    BY <1>1, <1>2, <1>4, <1>7, <1>9, <2>1 DEF AtCreate, AtStore, Partly
  <2> QED
    BY <1>1, <2>2 DEF StepFits
<1>12. /\ plan' \in Seq(Detour) /\ todo' \in 0 .. Len(plan') + 1 /\ tried' \in 0 .. 2
       /\ patch' \in [Address -> Detour \cup {NoDetour}] /\ \A a \in Address \ At(target) : patch'[a] = patch[a]
  BY <1>1, <1>2, <1>3, <1>4, CodeIsTyped DEF AtStore
<1> QED
  BY <1>1, <1>8, <1>10, <1>11, <1>12, RebuildGoesOn

LEMMA CreateFailsKeeps ==
  ASSUME IInv, CreateFails
  PROVE  IInv'
<1> USE DEF hooks
<1>1. /\ step = "create" /\ step' = "destroy" /\ todo <= Len(plan) /\ todo' = todo - 1 /\ tried' = tried + 1
      /\ UNCHANGED <<patch, slot, chains, backend, target, removed, plan, unload, threads>>
  BY DEF CreateFails, GoesTo, code
<1>2. AtCreate
  BY <1>1 DEF IInv, StepFits
<1>3. Len(plan) \in Nat /\ todo \in 1 .. Len(plan) + 1 /\ tried \in 0 .. 1
  BY <1>2, PlanFits DEF AtCreate
<1>4. /\ todo' \in 0 .. Len(plan) /\ tried' \in 0 .. 2 /\ (tried' = 1 <=> tried = 0)
  BY <1>1, <1>3
<1>5. StepFits'
  <2>1. Chain' = Chain /\ Kept' = Kept
    BY <1>1 DEF Chain, Kept
  <2>2. AtDestroy'
    BY <1>1, <1>2, <1>4, <2>1 DEF AtDestroy, AtCreate, Partly
  <2> QED
    BY <1>1, <2>2 DEF StepFits
<1>6. plan' \in Seq(Detour) /\ todo' \in 0 .. Len(plan') + 1
  BY <1>1, <1>3, <1>4, CodeIsTyped
<1> QED
  BY <1>1, <1>4, <1>5, <1>6, CodeUntouched, RebuildGoesOn

LEMMA BuiltKeeps ==
  ASSUME IInv, Built
  PROVE  IInv'
<1> USE DEF hooks
<1>1. step = "create" /\ todo = Len(plan) + 1 /\ UNCHANGED <<patch, slot, hooks, threads>>
  BY DEF Built, code
<1>2. AtCreate
  BY <1>1 DEF IInv, StepFits
<1>3. /\ target \in Target /\ ListOf(Chain, target) /\ Chain \in Seq(Detour) /\ Len(Chain) \in Nat
      /\ Len(plan) \in Nat
  BY <1>2, PlanFits, ListsAreTyped DEF AtCreate
<1>4. Linked(patch, slot, plan, target) /\ Strangers(slot, Chain, target) /\ backend[target] = "SafetyHook"
  <2>1. todo - 1 = Len(plan)
    BY <1>1, <1>3
  <2> QED
    BY <1>2, <2>1 DEF AtCreate, Partly, Linked
<1>5. CASE tried = 0
  <2>1. step' = "reset" /\ todo' = 1 /\ plan' = Chain /\ UNCHANGED <<target, removed, tried, unload>>
    BY <1>5 DEF Built, Chain
  <2>2. plan = Kept
    BY <1>2, <1>5 DEF AtCreate
  <2>3. StepFits'
    <3>1. Chain' = Chain /\ Kept' = Kept
      BY <1>1, <2>1 DEF Chain, Kept
    <3>2. todo' \in 1 .. Len(plan') + 1 /\ tried' \in 0 .. 2 /\ \A i \in 1 .. todo' - 1 : FALSE
      BY <1>3, <1>5, <2>1
    <3>3. AtReset'
      BY <1>1, <1>4, <2>1, <2>2, <3>1, <3>2 DEF AtReset
    <3> QED
      BY <2>1, <3>3 DEF StepFits
  <2>4. plan' \in Seq(Detour) /\ todo' \in 0 .. Len(plan') + 1 /\ tried' \in 0 .. 2
    BY <1>3, <1>5, <2>1
  <2> QED
    BY <1>1, <2>1, <2>3, <2>4, CodeUntouched, RebuildGoesOn
<1>6. CASE tried # 0
  <2>1. EndRebuild(FALSE) /\ plan = Chain
    BY <1>2, <1>6 DEF Built, AtCreate
  <2>2. Settled(patch', slot', Chain, target)
    BY <1>1, <1>4, <2>1 DEF Settled
  <2> QED
    BY <1>1, <2>1, <2>2, CodeUntouched, RebuildEnds
<1> QED
  BY <1>5, <1>6

LEMMA ResetSlotKeeps ==
  ASSUME IInv, ResetSlot
  PROVE  IInv'
<1> USE DEF hooks
<1> DEFINE p == plan[todo]
<1>1. /\ step = "reset" /\ step' = "reset" /\ todo <= Len(plan) /\ todo' = todo + 1
      /\ slot' = (IF p \in removed THEN [slot EXCEPT ![p] = Code(target)] ELSE slot)
      /\ UNCHANGED <<patch, chains, backend, target, removed, plan, tried, unload, threads>>
  BY DEF ResetSlot
<1>2. AtReset
  BY <1>1 DEF IInv, StepFits
<1>3. /\ target \in Target /\ ListOf(Chain, target) /\ ListOf(Kept, target) /\ plan = Chain
      /\ Len(plan) \in Nat /\ \A d : InList(Kept, d) => InList(Chain, d) /\ d \notin removed
      /\ Len(Kept) \in Nat
  BY <1>2, KeptIsShorter, ListsAreTyped DEF AtReset
<1>4. todo \in 1 .. Len(plan) /\ todo' \in 1 .. Len(plan) + 1 /\ tried \in 0 .. 2
  BY <1>1, <1>2, <1>3 DEF AtReset
<1>5. p \in Of(target) /\ p \in Detour /\ InList(Chain, p)
  BY <1>3, <1>4, BeforeIsThere DEF InList
<1>6. slot \in [Detour -> Pointer] /\ target \in Address
  BY CodeIsTyped
<1> HIDE DEF p
<1>7. /\ slot' \in [Detour -> Pointer] /\ \A d : d # p => slot'[d] = slot[d]
      /\ slot'[p] = IF p \in removed THEN Code(target) ELSE slot[p]
  <2>1. CASE p \in removed
    BY <1>1, <1>5, <1>6, <2>1, PointersAre
  <2>2. CASE p \notin removed
    BY <1>1, <1>6, <2>2
  <2> QED
    BY <2>1, <2>2
<1>8. Linked(patch, slot', Kept, target)
  <2>1. Patches(patch, Kept, Len(Kept), target) /\ Slots(slot, Kept, Len(Kept), target)
    BY <1>2 DEF AtReset, Linked
  <2>2. \A i \in 1 .. Len(Kept) : slot'[Kept[i]] = slot[Kept[i]]
    <3> TAKE i \in 1 .. Len(Kept)
    <3>1. Kept[i] \notin removed
      BY <1>3 DEF InList
    <3> QED
      BY <1>7, <3>1
  <2>3. Slots(slot', Kept, Len(Kept), target)
    BY <2>1, <2>2 DEF Slots
  <2> QED
    BY <2>1, <2>3 DEF Linked
<1>9. Strangers(slot', Chain, target)
  BY <1>2, <1>5, <1>7 DEF AtReset, Strangers
<1>10. Near(slot', Chain, target) /\ \A d \in Detour \ Of(target) : slot'[d] = slot[d]
  BY <1>5, <1>6, <1>7, CodeIsTyped, PointersAre DEF Near
<1>11. backend[target] # "SafetyHook" => Strays(slot', Kept, Chain, target)
  BY <1>2, <1>6, <1>7, PointersAre DEF AtReset, Strays
<1>12. ASSUME NEW i \in 1 .. todo' - 1, plan[i] \in removed PROVE slot'[plan[i]] = Code(target)
  <2>1. CASE plan[i] = p
    BY <1>7, <1>12, <2>1
  <2>2. CASE plan[i] # p
    <3>1. i # todo
      BY <2>2 DEF p
    <3>2. i \in 1 .. todo - 1
      BY <1>1, <1>4, <3>1
    <3> QED
      BY <1>2, <1>7, <1>12, <2>2, <3>2 DEF AtReset
  <2> QED
    BY <2>1, <2>2
<1>13. StepFits'
  <2>1. Chain' = Chain /\ Kept' = Kept
    BY <1>1 DEF Chain, Kept
  <2>2. AtReset'
    BY <1>1, <1>3, <1>4, <1>8, <1>9, <1>11, <1>12, <2>1 DEF AtReset
  <2> QED
    BY <1>1, <2>2 DEF StepFits
<1>14. /\ plan' \in Seq(Detour) /\ todo' \in 0 .. Len(plan') + 1 /\ tried' \in 0 .. 2
       /\ patch' \in [Address -> Detour \cup {NoDetour}] /\ \A a \in Address \ At(target) : patch'[a] = patch[a]
  BY <1>1, <1>3, <1>4, CodeIsTyped
<1> QED
  BY <1>1, <1>7, <1>10, <1>13, <1>14, RebuildGoesOn

LEMMA DropRecordsKeeps ==
  ASSUME IInv, DropRecords
  PROVE  IInv'
<1> USE DEF Forget
<1>1. /\ step = "reset" /\ todo = Len(plan) + 1
      /\ chains' = [chains EXCEPT ![target] = Kept]
      /\ backend' = [backend EXCEPT ![target] = IF chains'[target] = <<>> THEN "none" ELSE backend[target]]
      /\ EndRebuild(TRUE) /\ UNCHANGED <<patch, slot, threads>>
  BY DEF DropRecords, code, RecordsExcept, Kept, Chain
<1>2. AtReset
  BY <1>1 DEF IInv, StepFits
<1>3. /\ target \in Target /\ ListOf(Chain, target) /\ ListOf(Kept, target) /\ plan = Chain
      /\ \A d : InList(Kept, d) => InList(Chain, d) /\ d \notin removed
      /\ \A d \in Of(target) : InList(Kept, d) <=> d \notin removed /\ InList(Chain, d)
      /\ Kept \in Seq(Detour) /\ \A i \in DOMAIN Kept : TargetOf[Kept[i]] = target
      /\ Len(Chain) \in Nat
  BY <1>2, KeptIsShorter, ListsAreTyped DEF AtReset
<1>4. /\ chains'[target] = Kept /\ (\A t \in Target \ {target} : chains'[t] = chains[t])
      /\ chains' \in [Target -> Seq(Detour)]
  BY <1>1, <1>3 DEF IInv, Types
<1>5. Types'
  <2>1. \A t \in Target : chains'[t] \in Seq(Detour) /\ \A d \in Hooks(t)' : TargetOf[d] = t
    <3> TAKE t \in Target
    <3>1. CASE t = target
      BY <1>3, <1>4, <3>1 DEF Hooks
    <3>2. CASE t # target
      <4>1. chains'[t] = chains[t]
        BY <1>4, <3>2
      <4> QED
        BY <4>1 DEF IInv, Types, TypeOK, Hooks
    <3> QED
      BY <3>1, <3>2
  <2>2. backend' \in [Target -> {"none", "Detours", "SafetyHook"}]
    BY <1>1, <1>3 DEF IInv, Types, TypeOK
  <2>3. /\ target' \in Target /\ removed' \in SUBSET Detour /\ plan' \in Seq(Detour)
        /\ todo' \in 0 .. Len(plan') + 1 /\ tried' \in 0 .. 2
    BY <1>1, ForgetIsTyped DEF EndRebuild
  <2>4. /\ leaving' \in Module \cup {NoModule} /\ pending' \in SUBSET Target
        /\ failed' \in BOOLEAN /\ detached' \in SUBSET Module /\ step' \in {"free", "module"}
        /\ threads' \in [Thread -> [at : Detour \cup {"out", "wild"}, gone : SUBSET Module]]
    BY <1>1 DEF IInv, Types, TypeOK, EndRebuild
  <2>5. patch' \in [Address -> Detour \cup {NoDetour}] /\ slot' \in [Detour -> Pointer]
    BY <1>1 DEF IInv, Types, TypeOK
  <2> QED
    BY <1>4, <2>1, <2>2, <2>3, <2>4, <2>5 DEF Types, TypeOK
<1>6. ASSUME NEW d \in Of(target), ~InList(Kept, d) PROVE slot[d] = Code(target)
  <2>1. CASE InList(Chain, d)
    <3>1. d \in removed
      BY <1>3, <1>6, <2>1
    <3>2. PICK i \in 1 .. Len(Chain) : Chain[i] = d
      BY <2>1 DEF InList
    <3>3. i \in 1 .. todo - 1 /\ plan[i] \in removed
      BY <1>1, <1>3, <3>1, <3>2
    <3> QED
      BY <1>2, <1>3, <3>2, <3>3 DEF AtReset
  <2>2. CASE ~InList(Chain, d)
    BY <1>2, <2>2 DEF AtReset, Strangers
  <2> QED
    BY <2>1, <2>2
<1>7. Linked(patch, slot, Kept, target) /\ Settled(patch, slot, Kept, target)
  BY <1>2, <1>6 DEF AtReset, Settled, Strangers
<1>8. Near(slot, Kept, target)
  <2> SUFFICES ASSUME NEW d \in Of(target) PROVE slot[d].to = target \/ InList(Kept, slot[d].to)
    BY DEF Near
  <2>1. CASE InList(Kept, d)
    <3>1. PICK i \in 1 .. Len(Kept) : Kept[i] = d
      BY <2>1 DEF InList
    <3>2. slot[d] = Trampoline(Before(Kept, i, target))
      BY <1>7, <3>1 DEF Linked, Slots
    <3>3. slot[d].to = Before(Kept, i, target)
      BY <3>2 DEF Trampoline
    <3>4. i \in 1 .. Len(Kept) + 1
      BY <1>3, BeforeIsThere
    <3> QED
      BY <1>3, <3>3, <3>4, BeforeIsNear
  <2>2. CASE ~InList(Kept, d)
    <3>1. slot[d] = Code(target)
      BY <1>6, <2>2
    <3> QED
      BY <3>1 DEF Code
  <2> QED
    BY <2>1, <2>2
<1>9. \A t \in Target : TargetFits(t)'
  <2>1. PICK w \in Target : w = target
    BY <1>3
  <2>2. TargetFits(w)' /\ target' = w
    BY <1>1, <1>3, <1>4, <1>7, <1>8, <2>1 DEF TargetFits, EndRebuild
  <2>3. /\ \A t \in Target \ {w} : AtRest(t) /\ chains'[t] = chains[t]
        /\ \A a \in Address \ At(w) : patch'[a] = patch[a]
        /\ \A d \in Detour \ Of(w) : slot'[d] = slot[d]
    BY <1>1, <1>4, <2>1 DEF AtRest
  <2> QED
    BY <2>1, <2>2, <2>3, OthersStay
<1>10. Away' /\ Leaving'
  <2>1. ASSUME NEW t \in Target, NEW d \in Of(t), InList(chains'[t], d)
        PROVE  InList(chains[t], d) /\ (t = target => d \notin removed)
    <3>1. CASE t = target
      BY <1>3, <1>4, <2>1, <3>1 DEF Chain
    <3>2. CASE t # target
      BY <1>4, <2>1, <3>2
    <3> QED
      BY <3>1, <3>2
  <2>2. Away'
    BY <1>1, <2>1 DEF IInv, Away, EndRebuild
  <2>3. Leaving'
    BY <1>1, <2>1 DEF IInv, Leaving, EndRebuild
  <2> QED
    BY <2>2, <2>3
<1>11. StepFits' /\ ThreadsFit'
  BY <1>1 DEF IInv, StepFits, ThreadsFit, EndRebuild
<1> QED
  BY <1>5, <1>9, <1>10, <1>11 DEF IInv

-----------------------------------------------------------------------------
LEMMA InitInvariant == Init => IInv
<1> SUFFICES ASSUME Init PROVE IInv
  OBVIOUS
<1> USE DEF Init
<1>1. <<>> \in Seq(Detour) /\ Len(<<>>) = 0 /\ DOMAIN <<>> = {}
  BY EmptySeq
<1>2. ASSUME NEW t \in Target PROVE TargetFits(t)
  <2>1. ListOf(<<>>, t)
    BY EmptySeq, <1>1 DEF ListOf
  <2>2. \A d \in Of(t) : slot[d] = Code(t) /\ slot[d].to = t
    BY DEF Of, Code
  <2>3. Near(slot, <<>>, t) /\ Strangers(slot, <<>>, t)
    BY <2>2 DEF Near, Strangers
  <2>4. Linked(patch, slot, <<>>, t)
    BY <1>1, AtIsAddress DEF Linked, Patches, Slots
  <2> QED
    BY <2>1, <2>3, <2>4 DEF TargetFits, Settled
<1>3. Types
  <2>1. slot \in [Detour -> Pointer]
    BY DetourAssumption, PointersAre DEF Address
  <2>2. \A t \in Target : chains[t] = <<>> /\ Hooks(t) = {}
    BY <1>1 DEF Hooks
  <2>3. threads \in [Thread -> [at : Detour \cup {"out", "wild"}, gone : SUBSET Module]]
    OBVIOUS
  <2>4. chains \in [Target -> Seq(Detour)] /\ plan \in Seq(Detour)
    BY <1>1
  <2>5. /\ backend \in [Target -> {"none", "Detours", "SafetyHook"}]
        /\ patch \in [Address -> Detour \cup {NoDetour}]
    OBVIOUS
  <2>6. todo \in 0 .. Len(plan) + 1 /\ tried \in 0 .. 2
    BY <1>1
  <2>7. /\ target \in Target /\ removed \in SUBSET Detour /\ leaving \in Module \cup {NoModule}
        /\ pending \in SUBSET Target /\ failed \in BOOLEAN /\ detached \in SUBSET Module /\ step = "free"
    OBVIOUS
  <2>8. \A t \in Target : chains[t] \in Seq(Detour) /\ \A d \in Hooks(t) : TargetOf[d] = t
    BY <1>1, <2>2
  <2> HIDE DEF Init
  <2> QED
    BY <2>1, <2>3, <2>4, <2>5, <2>6, <2>7, <2>8 DEF Types, TypeOK
<1>4. StepFits /\ Leaving
  BY DEF StepFits, Leaving
<1>5. Away
  BY DEF Away
<1>6. ThreadsFit
  BY AddressAssumption DEF ThreadsFit
<1> QED
  BY <1>2, <1>3, <1>4, <1>5, <1>6 DEF IInv

LEMMA StepInvariant == IInv /\ [Next]_vars => IInv'
<1> SUFFICES ASSUME IInv, [Next]_vars PROVE IInv'
  OBVIOUS
<1>1. CASE Attaching
  BY <1>1, AttachDetoursKeeps, AttachSafetyHookKeeps, CommitAttachKeeps, AttachFailsKeeps,
     InstallSafetyHookKeeps DEF Attaching
<1>2. CASE Detaching
  BY <1>2, DetachKeeps, DetachModuleKeeps, NextTargetKeeps, DetachModuleReturnsKeeps DEF Detaching
<1>3. CASE Rebuilding
  BY <1>3, DetachBatchKeeps, DetachBatchFailsKeeps, PrepareHookChainKeeps, AttachBatchKeeps,
     AttachBatchFailsKeeps, DestroyHookKeeps, DestroyedKeeps, CreateHookKeeps, StoreTrampolineKeeps,
     CreateFailsKeeps, BuiltKeeps, ResetSlotKeeps, DropRecordsKeeps DEF Rebuilding
<1>4. ASSUME NEW x \in Thread, CallOriginal(x) \/ \E t \in Target : Call(x, t) PROVE IInv'
  BY <1>4, CallKeeps, CallOriginalKeeps
<1>5. CASE UNCHANGED vars
  BY <1>5, StutterKeeps
<1> QED
  BY <1>1, <1>2, <1>3, <1>4, <1>5 DEF Next

(* The inductive invariant: see its parts above.                                  *)
THEOREM HookChainInvariant == Spec => []IInv
  BY InitInvariant, StepInvariant, PTL DEF Spec

(* TypeOK: the variables of the hook manager have their types in every state.     *)
THEOREM HookChainTypes == Spec => []TypeOK
<1>1. IInv => TypeOK
  BY DEF IInv, Types
<1> QED
  BY <1>1, HookChainInvariant, PTL

(* CallRunsTheChain: when no operation is under way, whatever failed before, a     *)
(* call enters the newest recorded hook of its function, and every hook's original *)
(* is the one before it (RebuildTargetWithout and its rollbacks).                  *)
THEOREM ChainsRunInOrder == Spec => []CallRunsTheChain
<1>1. ASSUME IInv PROVE CallRunsTheChain
  <2> SUFFICES ASSUME step = "free", NEW t \in Target
               PROVE  /\ Entered(t) = Newest(t)
                      /\ \A i \in DOMAIN chains[t] : Continued(chains[t][i]) = Before(chains[t], i, t)
    BY DEF CallRunsTheChain
  <2>1. ListOf(chains[t], t) /\ Linked(patch, slot, chains[t], t) /\ DOMAIN chains[t] = 1 .. Len(chains[t])
    BY <1>1, ListsAreTyped DEF IInv, TargetFits, AtRest, Settled
  <2>2. Entered(t) = Newest(t)
    <3>1. 1 \in 1 .. Len(chains[t]) + 1 /\ Before(chains[t], 1, t) = t
      BY <2>1, BeforeIsThere DEF Before
    <3>2. Entered(Before(chains[t], 1, t)) = Before(chains[t], Len(chains[t]) + 1, t)
      BY <2>1, <3>1, EntersNewest DEF Linked
    <3> QED
      BY <3>1, <3>2 DEF Newest
  <2>3. ASSUME NEW i \in DOMAIN chains[t] PROVE Continued(chains[t][i]) = Before(chains[t], i, t)
    <3>1. slot[chains[t][i]] = Trampoline(Before(chains[t], i, t))
      BY <2>1 DEF Linked, Slots
    <3> QED
      BY <3>1 DEF Continued, Trampoline
  <2> QED
    BY <2>2, <2>3
<1> QED
  BY <1>1, HookChainInvariant, PTL

(* OriginalIsReached: from any detour, in a chain or taken out of one before, the  *)
(* originals lead to the function, with Detours even in the middle of a rebuild or *)
(* of a rollback that failed, with SafetyHook between operations.                  *)
THEOREM OriginalsAreReached == Spec => []OriginalIsReached
<1>1. ASSUME IInv PROVE OriginalIsReached
  <2> SUFFICES ASSUME NEW d \in Detour,
                      step = "free" \/ (backend[TargetOf[d]] # "SafetyHook" /\ step # "install")
               PROVE  EndsIn(d) = TargetOf[d]
    BY DEF OriginalIsReached
  <2>1. PICK t \in Target : t = TargetOf[d]
    BY DetourAssumption
  <2>2. d \in Of(t) /\ ListOf(chains[t], t)
    BY <1>1, <2>1 DEF IInv, TargetFits, Of
  <2>3. \A sl, list : Strangers(sl, list, t) => Strays(sl, list, list, t)
    BY DEF Strangers, Strays, Code
  <2>4. CASE AtRest(t)
    <3>1. Settled(patch, slot, chains[t], t)
      BY <1>1, <2>4 DEF IInv, TargetFits
    <3> QED
      BY <2>1, <2>2, <2>3, <3>1, AllEndInTarget DEF Settled, Linked
  <2>5. CASE ~AtRest(t)
    <3>1. t = target /\ chains[t] = Chain /\ backend[t] # "SafetyHook"
          /\ step \in {"commit", "prepare", "reset"}
      <4>1. step \notin {"destroy", "create", "store"}
        BY <1>1, <2>1, <2>5 DEF AtRest, IInv, StepFits, AtDestroy, AtCreate, AtStore, Partly
      <4> QED
        BY <1>1, <2>1, <2>5, <4>1 DEF AtRest, Chain, IInv, Types, TypeOK
    <3>2. CASE step = "commit"
      <4>1. AtCommit /\ Linked(patch, slot, Chain, t)
        BY <1>1, <3>1, <3>2 DEF IInv, StepFits, AtCommit
      <4>2. Newest(t) = t \/ InList(Chain, Newest(t))
        <5>1. Len(Chain) + 1 \in 1 .. Len(Chain) + 1
          BY <2>2, <3>1, BeforeIsThere
        <5> QED
          BY <2>2, <3>1, <5>1, BeforeIsNear DEF Newest
      <4>3. Strays(slot, Chain, Chain, t)
        <5> SUFFICES ASSUME NEW e \in Of(t), ~InList(Chain, e)
                     PROVE  slot[e].kind = "code" /\ (slot[e].to = t \/ InList(Chain, slot[e].to))
          BY DEF Strays
        <5>1. slot[e] = Code(Newest(t)) \/ slot[e] = Code(t)
          BY <3>1, <4>1 DEF AtCommit
        <5>2. \/ slot[e].kind = "code" /\ slot[e].to = Newest(t)
              \/ slot[e].kind = "code" /\ slot[e].to = t
          BY <5>1 DEF Code
        <5> QED
          BY <4>2, <5>2
      <4> QED
        BY <2>1, <2>2, <3>1, <4>1, <4>3, AllEndInTarget DEF Linked
    <3>3. CASE step = "prepare"
      <4>1. Patches(patch, <<>>, 0, t) /\ Strays(slot, <<>>, Chain, t)
        BY <1>1, <3>1, <3>3 DEF IInv, StepFits, AtPrepare
      <4>2. ListOf(<<>>, t) /\ Len(<<>>) = 0 /\ Slots(slot, <<>>, 0, t)
        BY EmptySeq DEF ListOf, Slots
      <4> QED
        BY <2>1, <2>2, <3>1, <4>1, <4>2, AllEndInTarget
    <3>4. CASE step = "reset"
      <4>1. Linked(patch, slot, Kept, t) /\ Strays(slot, Kept, Chain, t)
        BY <1>1, <3>1, <3>4 DEF IInv, StepFits, AtReset
      <4>2. ListOf(Kept, t)
        BY <1>1, <3>1, KeptIsShorter
      <4> QED
        BY <2>1, <2>2, <3>1, <4>1, <4>2, AllEndInTarget DEF Linked
    <3> QED
      BY <3>1, <3>2, <3>3, <3>4
  <2> QED
    BY <2>4, <2>5
<1> QED
  BY <1>1, HookChainInvariant, PTL

(* DetachedModuleIsOut: once HookManager_DetachModule has not reported -1, no      *)
(* patch and no slot of another module leads into the module, and no thread that   *)
(* starts a call afterwards gets into it.                                         *)
THEOREM DetachedIsOut == Spec => []DetachedModuleIsOut
<1>1. ASSUME IInv PROVE DetachedModuleIsOut
  <2>1. ASSUME NEW m \in detached, NEW a \in Address
        PROVE  /\ patch[a] # NoDetour => Owner[patch[a]] # m
               /\ a \in Detour /\ slot[a].to \in Detour /\ Owner[a] # m => Owner[slot[a].to] # m
    BY <1>1, PatchesAreAway, SlotsAreNear
  <2>2. \A x \in Thread : threads[x].at \in Detour => Owner[threads[x].at] \notin threads[x].gone
    BY <1>1 DEF IInv, ThreadsFit
  <2> QED
    BY <2>1, <2>2 DEF DetachedModuleIsOut
<1> QED
  BY <1>1, HookChainInvariant, PTL
===============================================================================
