---------------------------- MODULE UnitLifecycle ----------------------------
(***************************************************************************)
(* ApplyUnitLifecycle and DeleteUnitLifecycle (client.go) on the one unit  *)
(* that belongs to a machine, a portable service or an instance:           *)
(* host.enabled says whether it is enabled, host.running what it runs.     *)
(***************************************************************************)
EXTENDS TerraformRun

\* A flag that is not set (a nil *bool) skips its call.
AfterEnable == IF config.active = "unset" THEN "record" ELSE "activate"
Lifecycle   == IF config.enable = "unset" THEN AfterEnable ELSE "enable"

LifecycleCalls == {"enable", "activate", "stop", "disable"}

\* The unit file must be there (known) to be enabled or disabled.
SetEnabled(known) ==
    /\ pc = "enable" /\ known
    /\ Call("enable", AfterEnable)
    /\ host' = [host EXCEPT !.enabled = (config.enable = "on")]
    /\ UNCHANGED <<excuses, troubles>>

\* Mutant: the error of enable and disable is dropped.
SetEnabledErrorDropped(known) ==
    /\ pc = "enable"
    /\ TroubleUnless(~known)
    /\ Call("enable", AfterEnable)
    /\ UNCHANGED <<host, excuses>>

SetEnabledFails(known) ==
    /\ pc = "enable"
    /\ TroubleUnless(~known)
    /\ Error("enable")
    /\ \/ UNCHANGED host
       \/ known /\ host' = [host EXCEPT !.enabled = (config.enable = "on")]

\* Started on what: nothing happens to a unit that runs already.
StartUnit(what) ==
    /\ pc = "activate" /\ config.active = "on"
    /\ what # Absent \/ host.running # Absent
    /\ Call("activate", "record")
    /\ host' = [host EXCEPT !.running = IF @ = Absent THEN what ELSE @]
    /\ UNCHANGED <<excuses, troubles>>

StartUnitFails(what) ==
    /\ pc = "activate" /\ config.active = "on"
    /\ TroubleUnless(what = Absent /\ host.running = Absent)
    /\ Error("activate")
    /\ \/ UNCHANGED host
       \/ host' = [host EXCEPT !.running = IF @ = Absent THEN what ELSE @]

Stopping == pc = "stop" \/ (pc = "activate" /\ config.active = "off")
AfterStop == IF pc = "stop" THEN "disable" ELSE "record"

\* StopUnit answers no error, whatever happened.
StopUnit ==
    /\ Stopping
    /\ Call(pc, AfterStop)
    /\ host' = [host EXCEPT !.running = Absent]
    /\ UNCHANGED <<excuses, troubles>>

StopUnitIgnored ==
    /\ Trouble
    /\ Stopping
    /\ Call(pc, AfterStop)
    /\ Excuse("ignored")
    /\ UNCHANGED host

\* DeleteUnitLifecycle drops the error of disable too.
DisableUnit(next) ==
    /\ Call("disable", next)
    /\ host' = [host EXCEPT !.enabled = FALSE]
    /\ UNCHANGED <<excuses, troubles>>

DisableUnitIgnored(next, known) ==
    /\ pc = "disable"
    /\ TroubleUnless(~known)
    /\ Call("disable", next)
    /\ Excuse("ignored")
    /\ UNCHANGED host

\* The unit is as the flags of s ask; a flag that is not set asks nothing.
UnitAs(s, bodies) ==
    /\ s.enable # "unset" => host.enabled = (s.enable = "on")
    /\ s.active = "on" => host.running \in bodies
    /\ s.active = "off" => host.running = Absent
=============================================================================
