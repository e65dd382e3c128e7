--------------------------- MODULE MCManagedFiles ---------------------------
(***************************************************************************)
(* ManagedFiles on one unit or drop-in with two versions of its content,   *)
(* given as raw content or as sections.                                    *)
(***************************************************************************)
EXTENDS ManagedFiles

CONSTANTS app, appDropin, v1, v2

NoTemplate == [i \in Instances |-> app]

Put(content, enable, active) ==
    [op |-> "put", content |-> content, enable |-> enable, active |-> active]

\* A unit to keep running, one to stop; a drop-in has no flags.
MCConfigs == [f \in Files |->
    IF f = app THEN {Put(c, "on", "on") : c \in {v1, v2}} \cup {Put(v2, "unset", "off")}
    ELSE {Put(c, "unset", "unset") : c \in {v1, v2}}]

MCWanted == [f \in Files |-> [form : {"raw", "typed"}, put : MCConfigs[f]]]

\* The strictest verify setting: every call of a put is made.
MCInit == ManagedInit /\ mode = "error" /\ analyzer = TRUE

MCSpec == MCInit /\ [][ManagedNext]_managedVars /\ Fairness
=============================================================================
