\* One unit, configured, edited once, and left to Terraform's runs.
SPECIFICATION MCSpec
CONSTANTS
    app = app
    appDropin = appDropin
    v1 = v1
    v2 = v2
    Absent = Absent
    None = None
    Units = {app}
    Dropins = {}
    Instances = {}
    Template <- NoTemplate
    Contents = {v1, v2}
    Rejects = {}
    Found = {v1, Absent}
    Configs <- MCConfigs
    MaxOps = 0
    Wanted <- MCWanted
    MaxEdits = 2
    MaxTroubles = 2
INVARIANTS
    ManagedTypeOK
    StateTrue
PROPERTIES
    KeepsRunContract
    Converges
CHECK_DEADLOCK FALSE
