\* one client that stays and one that may quit or lose power, no automatic release:
\* the memo is honest, the sole waiter is woken, who is gone leaves the line
CONSTANTS
    c1 = c1
    c2 = c2
    Clients = {c1, c2}
    b1 = b1
    Busids = {b1}
    NoClient = NoClient
    MaxQueue = 2
    Gateway = TRUE
    AutoRelease = FALSE
    Env = {"crash", "quit"}
    Mortal = {c2}
SPECIFICATION FairSpec
INVARIANT MemoHonest
PROPERTY SoleWaiterWoken
PROPERTY DepartedLeaveTheLine
