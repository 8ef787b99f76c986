\* two ports, the same busid on two servers, two requests that attach or detach
CONSTANTS
    h1 = h1
    h2 = h2
    b1 = b1
    Hosts = {h1, h2}
    Busids = {b1}
    Devices <- SameBusid
    Ports = 2
    PerPort = 1
    MaxWork = 2
    MaxPosted = 1
SPECIFICATION FairSpec
INVARIANTS NoGhosts
PROPERTIES HeldIsClaimed GoneIsNotClaimed
