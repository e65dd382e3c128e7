SPECIFICATION MCSpec
CONSTANTS
    unit = unit
    timer = timer
    network = network
    old = old
    new = new
    Nil = Nil
    Directives = {old, new}
    Since <- MCSince
    Resources = {unit, timer, network}
    Releases = {251, 255}
    Limits = {3, 4}
    Logins <- MCLogins
    Wanted <- MCWanted
INVARIANTS
    TypeOK
    FailedDialCloses
    RefusedOnlyAtLimit
    ReleaseTrue
    ValidationAnswers
    DirectivesSetOnce
PROPERTIES
    Ends
CHECK_DEADLOCK FALSE
