SPECIFICATION MTFairSpec
CONSTANTS
    c1 = c1  c2 = c2  m1 = m1  m2 = m2
    Callback <- MCCallback
    Module <- MCModule
    Owner <- MCOwner
    MaxFaults = 3
    NoCallback = NoCallback
INVARIANT MTTypeOK
PROPERTIES DroppedOnlyAfterStreak EveryCallbackRuns
