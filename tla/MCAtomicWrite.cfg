\* Three writers of one path, on every mix of servers.
SPECIFICATION Spec
CONSTANTS
    unit = unit
    cred1 = cred1
    cred2 = cred2
    Nobody = Nobody
    Absent = Absent
    Writers = {unit, cred1, cred2}
    Modes = {"0644", "0600"}
    Mode <- MCMode
    DefaultMode = "0644"
INVARIANTS
    TypeOK
    NeverTorn
    AnswerTrue
    NoLitter
PROPERTIES
    ReplacesAtOnce
CHECK_DEADLOCK FALSE
