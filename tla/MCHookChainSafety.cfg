SPECIFICATION Spec
CONSTANTS
    f = f  g = g  d1 = d1  d2 = d2  d3 = d3  d4 = d4  A = A  B = B  x1 = x1
    Target <- MCTarget
    Detour <- MCDetour
    Module <- MCModule
    Thread <- MCThread
    TargetOf <- MCTargetOf
    Owner <- MCOwner
    NoDetour = NoDetour
    NoModule = NoModule
INVARIANT RunningDetourReachesOriginal
