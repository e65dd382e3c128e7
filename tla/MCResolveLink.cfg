\* Five configurations, two edits, three troubles.
SPECIFICATION FairSpec
CONSTANTS
    dns = dns
    domains = domains
    llmnr = llmnr
    v1 = v1
    v2 = v2
    Unset = Unset
    Empty = Empty
    Default = Default
    None = None
    Order <- MCOrder
    Lists = {dns, domains}
    Values = {v1, v2}
    Wanted <- MCWanted
    MaxEdits = 2
    MaxTroubles = 3
INVARIANTS
    TypeOK
    StateTrue
    NoOrphanSettings
PROPERTIES
    KeepsRunContract
    Converges
CHECK_DEADLOCK FALSE
