\* two addresses, two request threads, two relay threads, two stamps
CONSTANTS
    p1 = p1
    p2 = p2
    w1 = w1
    w2 = w2
    g1 = g1
    g2 = g2
    s1 = s1
    s2 = s2
    Peers = {p1, p2}
    Workers = {w1, w2}
    Relays = {g1, g2}
    Stamps = {s1, s2}
    NoStamp = NoStamp
    Nobody = Nobody
    Everybody = Everybody
    Ttl = 3
SYMMETRY Threads
SPECIFICATION Spec
INVARIANTS SettledVerdict
PROPERTY TableKept
