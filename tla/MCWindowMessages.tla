--------------------------- MODULE MCWindowMessages ---------------------------
(* Two windows owned by two threads, which dispatch at the same time, nest one  *)
(* dispatch in another and unregister each other's callbacks; a record for each *)
(* of two callbacks of one module, which either window may get.  That a module  *)
(* unregisters only its own is proved for any number of them.                   *)
EXTENDS WindowMessageDispatcher

CONSTANTS t1, t2, w1, w2, c1, c2, m1, r1, r2

MCThread == {t1, t2}
MCWindow == {w1, w2}
MCWindowThread == [w \in MCWindow |-> IF w = w1 THEN t1 ELSE t2]
MCCallback == {c1, c2}
MCModule == {m1}
MCOwner == [c \in MCCallback |-> m1]
MCRecord == {r1, r2}
MCCallbackOf == [r \in MCRecord |-> IF r = r1 THEN c1 ELSE c2]
=============================================================================
