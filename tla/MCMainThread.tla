---------------------------- MODULE MCMainThread ----------------------------
(* Two images with a callback each: enough for a drain to stand in or between   *)
(* calls while either callback is unregistered, registered again or freed, and *)
(* for the limit of three faults to be reached through every mix of outcomes.  *)
EXTENDS MainThreadDispatcher

CONSTANTS c1, c2, m1, m2

MCCallback == {c1, c2}
MCModule == {m1, m2}
MCOwner == [c \in MCCallback |-> IF c = c1 THEN m1 ELSE m2]
=============================================================================
