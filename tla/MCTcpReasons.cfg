\* README 5.2 against the reason of a read error.
SPECIFICATION Spec
CONSTANTS
    MaxClients = 1
    Conns = {c1}
    NoConn = NoConn
    Budget = 1
INVARIANTS
    DocumentedReasons
CHECK_DEADLOCK FALSE
