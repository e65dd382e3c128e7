\* One writer: the fallback for servers without posix-rename.
SPECIFICATION Spec
CONSTANTS
    unit = unit
    cred1 = cred1
    cred2 = cred2
    Nobody = Nobody
    Absent = Absent
    Writers = {cred1}
    Modes = {"0644", "0600"}
    Mode <- MCMode
    DefaultMode = "0644"
PROPERTY NeverMissing
CHECK_DEADLOCK FALSE
