---------------------------- MODULE MCRuntimeEvents ----------------------------
(* Two scenes, two mods with two leases between them, a game that hides and locks *)
(* its cursor or shows it, and one failing call.                                *)
EXTENDS RuntimeEvents

CONSTANTS s1, s2, m1, m2

MCScene == {s1, s2}
MCMod == {m1, m2}
MCLook == {[visible |-> FALSE, locked |-> TRUE], MenuLook}
=============================================================================
