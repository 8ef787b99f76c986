SPECIFICATION FairSpec
CONSTANTS
    Locations = {l1}
    Handles = {h1, h2}
    Tries = {t1}
    NPorts = 2
    PortRange <- MCPortRange
    MaxAttempts = 1
    ReattachLimit = 1
    MaxEvents = 2
    User = User
    Once = Once
    Callers = {User}
    NoDevice = NoDevice
CHECK_DEADLOCK FALSE
INVARIANTS PortsAgree NoticeNamesPort
PROPERTIES LivesKept RemovalFinal LostGoesAway
