\* two clients, the administrator, power cuts, background attaches, restarts, lost exchanges, brief uses
CONSTANTS
    c1 = c1
    c2 = c2
    Clients = {c1, c2}
    b1 = b1
    Busids = {b1}
    NoClient = NoClient
    MaxQueue = 2
    Gateway = TRUE
    AutoRelease = TRUE
    Env = {"admin", "crash", "background", "restart", "loss", "brief", "dequeue"}
    Mortal = {c1, c2}
SYMMETRY Everyone
SPECIFICATION Spec
INVARIANT MemoNamesFirst
PROPERTY WakeupForWaiter
PROPERTY WakesOnlyForFreeDevice
PROPERTY SessionsEndForCause
