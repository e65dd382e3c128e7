\* An empty list is put over one that is not.
SPECIFICATION Spec
CONSTANTS
    dns = dns
    domains = domains
    llmnr = llmnr
    v1 = v1
    v2 = v2
    Unset = Unset
    Empty = Empty
    Default = Default
    None = None
    Order <- MCOrder
    Lists = {dns, domains}
    Values = {v1, v2}
    Wanted <- MCWanted
    MaxEdits = 2
    MaxTroubles = 0
INVARIANTS
    DesiredApplied
CHECK_DEADLOCK FALSE
