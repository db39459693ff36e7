---------------------------- MODULE MCModLifecycle ----------------------------
(* Three mods, so that one is being loaded while the shutdown works on two, or a  *)
(* mod between two others is freed.  The one in the middle registers everything.  *)
EXTENDS ModLifecycle

CONSTANTS a, b, c

MCMod == {a, b, c}
MCPlan == <<a, b, c>>
MCUses == a :> {"window"} @@ b :> Kind @@ c :> {"mainThread"}
=============================================================================
