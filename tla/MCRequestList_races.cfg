\* two requests, two commands, the DPC on two processors
CONSTANTS
    r1 = r1
    r2 = r2
    Requests = {r1, r2}
    NoRequest = NoRequest
    p1 = p1
    p2 = p2
    Processors = {p1, p2}
    MaxSeq = 2
    MaxRings = 1
SPECIFICATION FairSpec
INVARIANT AssertionsHold
INVARIANT DoorbellNotLost
INVARIANT NoneForgotten
PROPERTY ContractKept
PROPERTY CancelledGoesBack
