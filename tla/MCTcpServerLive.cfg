\* Liveness: no symmetry.
SPECIFICATION FairSpec
CONSTANTS
    MaxClients = 2
    Conns = {c1, c2}
    NoConn = NoConn
    Budget = 2
PROPERTIES
    DeadPeerReported
    IdleClientDropped
    TablesConverge
CHECK_DEADLOCK FALSE
