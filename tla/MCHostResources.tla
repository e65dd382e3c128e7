--------------------------- MODULE MCHostResources ---------------------------
(***************************************************************************)
(* HostResources with a few configurations of each resource: the ones      *)
(* whose changes update it, replace it and are refused.                    *)
(***************************************************************************)
EXTENDS HostResources

CONSTANTS
    tar1, tar2, zip,  \* images of a machine, the last one of no known type
    tree, raw, rpm,   \* images of a portable service, the last one of no known type
    v1, v2            \* contents, secrets and templates

MachineOf(image, settings, enable, active, delete) ==
    [image |-> image, settings |-> settings, enable |-> enable, active |-> active, delete_image |-> delete]

MCMachineConfigs ==
    {MachineOf(tar1, v1, "on", "on", TRUE), MachineOf(tar1, v2, "off", "off", TRUE),
     MachineOf(tar2, v1, "unset", "on", FALSE), MachineOf(tar1, Absent, "on", "off", TRUE),
     MachineOf(zip, v1, "unset", "unset", TRUE)}

PortableOf(image, enable, active, delete) ==
    [image |-> image, enable |-> enable, active |-> active, delete_image |-> delete]

MCPortableConfigs ==
    {PortableOf(tree, "on", "on", TRUE), PortableOf(tree, "unset", "off", TRUE),
     PortableOf(raw, "on", "on", FALSE), PortableOf(raw, "off", "on", TRUE),
     PortableOf(rpm, "unset", "unset", TRUE)}

MCFileConfigs == [form : {"raw", "typed"}, body : {v1, v2}]

MCCredentialConfigs == [data : {v1, v2}, encrypted : BOOLEAN]

MCInstanceConfigs ==
    {[enable |-> "on", active |-> "on"], [enable |-> "off", active |-> "off"],
     [enable |-> "unset", active |-> "on"], [enable |-> "unset", active |-> "unset"]}

\* Machines alone.
MachineInit == Init /\ kind = "machine"

MachineSpec == MachineInit /\ [][Next]_allVars /\ Fairness
=============================================================================
