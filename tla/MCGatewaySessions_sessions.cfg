\* two connections that may ask for the same device
CONSTANTS
    k1 = k1
    k2 = k2
    b1 = b1
    b2 = b2
    Conns = {k1, k2}
    Busids = {b1, b2}
    NoConn = NoConn
SPECIFICATION FairSpec
INVARIANT ImportsListed
PROPERTIES GoneLetGo GoneDelisted
CHECK_DEADLOCK FALSE
