------------------------------ MODULE MCMidHooks ------------------------------
(* Two slots and two mods: the pool is full and recycled, and the game thread can *)
(* stand at any point of a dispatch while its slot is released and taken by the  *)
(* other mod.  One thread is enough: threads only read, and never each other.     *)
EXTENDS MidHooks

CONSTANTS t1, c1, c2, m1, m2

MCThread == {t1}
MCCallback == {c1, c2}
MCModule == {m1, m2}
MCOwner == [c \in MCCallback |-> IF c = c1 THEN m1 ELSE m2]
=============================================================================
