--------------------------- MODULE CallbackRegistry ---------------------------
(* What a registry of callbacks owes the modules that register with it: a call   *)
(* begins only while its item is in, and taking an item out returns only when no *)
(* call of it is left.  Calls and removals overlap freely in between.            *)
EXTENDS Naturals

CONSTANT Item
VARIABLES state,   \* per item "out", "in" or "closing" (a removal is waiting)
          calls    \* per item, the calls begun and not over

vars == <<state, calls>>

TypeOK == state \in [Item -> {"out", "in", "closing"}] /\ calls \in [Item -> Nat]

Init == state = [x \in Item |-> "out"] /\ calls = [x \in Item |-> 0]

Move(S, from, to) ==
    /\ \A x \in S : state[x] = from
    /\ state' = [x \in Item |-> IF x \in S THEN to ELSE state[x]]

Add(x) == Move({x}, "out", "in") /\ UNCHANGED calls

(* One dispatch enters every item of S. *)
Enter(S) ==
    /\ \A x \in S : state[x] = "in"
    /\ calls' = [x \in Item |-> IF x \in S THEN calls[x] + 1 ELSE calls[x]]
    /\ UNCHANGED state

Leave(x) ==
    /\ calls[x] > 0
    /\ calls' = [calls EXCEPT ![x] = @ - 1]
    /\ UNCHANGED state

Close(S) == Move(S, "in", "closing") /\ UNCHANGED calls

Finish(S) ==
    /\ \A x \in S : calls[x] = 0
    /\ Move(S, "closing", "out")
    /\ UNCHANGED calls

Next ==
    \/ \E x \in Item : Add(x) \/ Leave(x)
    \/ \E S \in SUBSET Item : Enter(S) \/ Close(S) \/ Finish(S)

Spec == Init /\ [][Next]_vars

(* An item that is out is silent. *)
OutIsSilent == \A x \in Item : state[x] = "out" => calls[x] = 0
=============================================================================
