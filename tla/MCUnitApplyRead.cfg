\* A unit rejected in error mode after its previous content could not be read.
SPECIFICATION Spec
CONSTANTS
    app = app
    appDropin = appDropin
    appInstance = appInstance
    good = good
    bad = bad
    Absent = Absent
    Units <- MCUnits
    Dropins <- MCDropins
    Instances = {}
    Template <- MCTemplate
    Contents = {good, bad}
    Rejects = {bad}
    Found = {good, Absent}
    Configs <- MCConfigs
    MaxOps = 3
INVARIANT FileLeftUntouched
CHECK_DEADLOCK FALSE
