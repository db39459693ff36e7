------------------------------ MODULE MCHookChain ------------------------------
(* Three hooks of two mods on one function, the first and the last of them the    *)
(* same mod's, and one hook of that mod on a second function: every order of the  *)
(* chain, a module whose hooks are not neighbours, and a DetachModule of which    *)
(* one part may fail.                                                            *)
EXTENDS HookChain

CONSTANTS f, g, d1, d2, d3, d4, A, B, x1

MCTarget == {f, g}
MCDetour == {d1, d2, d3, d4}
MCModule == {A, B}
MCThread == {x1}
MCTargetOf == [d \in MCDetour |-> IF d = d4 THEN g ELSE f]
MCOwner == [d \in MCDetour |-> IF d = d2 THEN B ELSE A]
=============================================================================
