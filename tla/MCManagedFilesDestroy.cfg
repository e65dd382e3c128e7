\* A destroy whose daemon-reload fails, and the refresh after it.
SPECIFICATION MCSpec
CONSTANTS
    app = app
    appDropin = appDropin
    v1 = v1
    v2 = v2
    Absent = Absent
    None = None
    Units = {app}
    Dropins = {}
    Instances = {}
    Template <- NoTemplate
    Contents = {v1, v2}
    Rejects = {}
    Found = {v1, Absent}
    Configs <- MCConfigs
    MaxOps = 0
    Wanted <- MCWanted
    MaxEdits = 2
    MaxTroubles = 1
INVARIANT DestroyedIsForgotten
CHECK_DEADLOCK FALSE
