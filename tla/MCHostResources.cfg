SPECIFICATION Spec
CONSTANTS
    None = None
    Absent = Absent
    Broken = Broken
    Down = Down
    tar1 = tar1
    tar2 = tar2
    zip = zip
    tree = tree
    raw = raw
    rpm = rpm
    v1 = v1
    v2 = v2
    Images = {tar1, tar2, zip}
    Unfit = {zip}
    Contents = {v1, v2}
    Trees = {tree, rpm}
    Raws = {raw}
    Unpackable = {rpm}
    Bodies = {v1, v2}
    Secrets = {v1, v2}
    Templates = {v1, v2}
    MachineConfigs <- MCMachineConfigs
    PortableConfigs <- MCPortableConfigs
    FileConfigs <- MCFileConfigs
    CredentialConfigs <- MCCredentialConfigs
    InstanceConfigs <- MCInstanceConfigs
    MaxEdits = 2
    MaxTroubles = 2
INVARIANTS
    TypeOK
    MachineTrue
    MachineNoOrphans
    PortableTrue
    PortableNoOrphans
    FileTrue
    CredentialTrue
    CredentialOneCopy
    InstanceTrue
PROPERTIES
    KeepsRunContract
    Converges
