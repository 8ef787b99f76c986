\* a free device is offered to a waiter (README.md:148)
CONSTANTS
    c1 = c1
    c2 = c2
    Clients = {c1, c2}
    b1 = b1
    Busids = {b1}
    NoClient = NoClient
    MaxQueue = 2
    Gateway = TRUE
    AutoRelease = TRUE
    Env = {}
    Mortal = {}
SPECIFICATION FairSpec
PROPERTY FreeDeviceIsOffered
