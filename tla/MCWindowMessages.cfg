SPECIFICATION FairSpec
CONSTANTS
    t1 = t1  t2 = t2  w1 = w1  w2 = w2  c1 = c1  c2 = c2  m1 = m1
    r1 = r1  r2 = r2
    Thread <- MCThread
    Window <- MCWindow
    WindowThread <- MCWindowThread
    Callback <- MCCallback
    Module <- MCModule
    Owner <- MCOwner
    Record <- MCRecord
    CallbackOf <- MCCallbackOf
    NoRecord = NoRecord
    MaxDepth = 2
    MaxForeign = 1
CHECK_DEADLOCK FALSE
INVARIANTS TypeOK NoCallAfterUnregister DispatcherOnceInChain NoSelfWait
PROPERTIES RefinesRegistry UnregisterReturns
