----------------------------- MODULE MCUnitApply -----------------------------
(***************************************************************************)
(* UnitApply on one template unit, one drop-in and one instance of the     *)
(* template: one resource of each kind, all able to interleave.            *)
(***************************************************************************)
EXTENDS UnitApply

CONSTANTS app, appDropin, appInstance, good, bad

MCUnits     == {app}
MCDropins   == {appDropin}
MCInstances == {appInstance}
MCTemplate  == [i \in Instances |-> app]

Put(content, enable, active) ==
    [op |-> "put", content |-> content, enable |-> enable, active |-> active]

\* The unit is asked to be enabled and run, or to be stopped; the instance to be
\* enabled and run, to be disabled, or nothing.
MCConfigs == [r \in Resources |->
    CASE r = app       -> {Put(c, f[1], f[2]) : c \in {good, bad},
                             f \in {<<"on", "on">>, <<"unset", "off">>}}
      [] r = appDropin -> {Put(good, "unset", "unset")}
      [] OTHER         -> {Put(Absent, f[1], f[2]) :
                             f \in {<<"on", "on">>, <<"off", "unset">>, <<"unset", "unset">>}}]
=============================================================================
