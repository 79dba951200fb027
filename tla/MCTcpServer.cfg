SPECIFICATION Spec
CONSTANTS
    MaxClients = 2
    Conns = {c1, c2, c3}
    NoConn = NoConn
    Budget = 2
SYMMETRY ConnSymmetry
INVARIANTS
    TypeOK
    LogFaithful
    RequestsKeepTarget
    SlotsHoldLivePeers
PROPERTIES
    ImplementsRegister
CHECK_DEADLOCK FALSE
