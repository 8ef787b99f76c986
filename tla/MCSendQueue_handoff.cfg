\* three threads and four commands; the system stops when all are sent
CONSTANTS
    t1 = t1
    t2 = t2
    t3 = t3
    Threads = {t1, t2, t3}
    c1 = c1
    c2 = c2
    c3 = c3
    c4 = c4
    Commands = {c1, c2, c3, c4}
SPECIFICATION FairHandoffSpec
INVARIANT NoneStranded
PROPERTY InPushOrder
PROPERTY EverythingSent
CHECK_DEADLOCK FALSE
