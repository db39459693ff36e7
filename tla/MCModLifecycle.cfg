SPECIFICATION Spec
CONSTANTS
    a = a  b = b  c = c
    Mod <- MCMod
    Plan <- MCPlan
    Uses <- MCUses
    NoMod = NoMod
INVARIANTS TypeOK FreedModIsForgotten RefusedModIsQuiet LaterModsAreGone ShutdownMissesAtMostOne
CHECK_DEADLOCK FALSE
