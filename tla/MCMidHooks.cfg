SPECIFICATION Spec
CONSTANTS
    t1 = t1  c1 = c1  c2 = c2  m1 = m1  m2 = m2
    Thread <- MCThread
    Callback <- MCCallback
    Module <- MCModule
    Owner <- MCOwner
    NoCallback = NoCallback
    NoModule = NoModule
    SlotCount = 2
    MaxAttach = 3
INVARIANTS TypeOK StubFindsItsCallback PoolIsTheHooks DetachedModuleIsOut
