SPECIFICATION Spec
CONSTANTS
    rx = rx
    main = main
    m1 = m1
    m2 = m2
    a1 = a1
    s1 = s1
    s2 = s2
    Senders <- MCSenders
    Main = main
    Msg <- MCMsg
    AsyncPool <- MCAsyncPool
    SyncPool <- MCSyncPool
INVARIANTS
    OneOwner
PROPERTIES
    MainWaitIsFutile
    SendReturns
    ImplementsMsgQueue
