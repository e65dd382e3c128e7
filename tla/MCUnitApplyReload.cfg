\* A daemon-reload of another resource between the write and the rollback.
SPECIFICATION Spec
CONSTANTS
    app = app
    appDropin = appDropin
    appInstance = appInstance
    good = good
    bad = bad
    Absent = Absent
    Units <- MCUnits
    Dropins <- MCDropins
    Instances = {}
    Template <- MCTemplate
    Contents = {good, bad}
    Rejects = {bad}
    Found = {good, Absent}
    Configs <- MCConfigs
    MaxOps = 3
INVARIANT ManagerLeftUntouched
CHECK_DEADLOCK FALSE
