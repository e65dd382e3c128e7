\* One template unit, one drop-in, one instance; a content verification accepts
\* and one it refuses; three operations.
SPECIFICATION Spec
CONSTANTS
    app = app
    appDropin = appDropin
    appInstance = appInstance
    good = good
    bad = bad
    Absent = Absent
    Units <- MCUnits
    Dropins <- MCDropins
    Instances <- MCInstances
    Template <- MCTemplate
    Contents = {good, bad}
    Rejects = {bad}
    Found = {good, Absent}
    Configs <- MCConfigs
    MaxOps = 3
INVARIANTS
    TypeOK
    PutHonoured
    DeleteHonoured
    RejectedRestored
    StaleOnlyIfReported
    VerifiedBeforeRun
PROPERTIES
    StartsCurrent
    KeepsContract
CHECK_DEADLOCK FALSE
