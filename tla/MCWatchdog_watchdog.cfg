\* two clients on two hosts; the defaults scaled down, one tick is ten seconds
CONSTANTS
    c1 = c1
    c2 = c2
    here = here
    there = there
    b1 = b1
    Clients = {c1, c2}
    Busids = {b1}
    NoClient = NoClient
    Addr <- TwoHosts
    KickIdle = 5
    TtlFloor = 5
    TtlMargin = 2
    SafeGap = 1
    Interval = 1
    Threshold = 2
    BeatGap = 1
    Leavers = {c1}
    Waiters = {c1}
SPECIFICATION FairSpec
INVARIANT NoEscalation
PROPERTY RemovesOnlySilent
PROPERTY CutsOnlyItsPeer
PROPERTY SilentReleased
PROPERTY GoneForgotten
PROPERTY WaiterInLine
