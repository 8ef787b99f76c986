\* two requests at a time, restarts, events on the host
CONSTANTS
    stick = stick
    nic = nic
    Busids = {stick, nic}
    Nics = {nic}
    Uplink = nic
    j1 = j1
    j2 = j2
    Jobs = {j1, j2}
    NoJob = NoJob
    Settings <- SomeSettings
    MaxRequests = 2
    MaxStarts = 2
    MaxHost = 1
SPECIFICATION FairSpec
INVARIANT ExportsRecorded
PROPERTY StartKeepsRoute
PROPERTY StartBindsTheRest
PROPERTY StopTidies
PROPERTY RequestsAnswered
CHECK_DEADLOCK FALSE
