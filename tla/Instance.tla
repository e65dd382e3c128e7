------------------------------ MODULE Instance ------------------------------
(***************************************************************************)
(* systemd_instance (resource_instance.go): an instance of a template      *)
(* unit.  The resource writes nothing: a put enables and starts the        *)
(* instance, a delete stops and disables it, and the template is somebody  *)
(* else's.                                                                 *)
(***************************************************************************)
EXTENDS UnitLifecycle

CONSTANTS
    InstanceConfigs,  \* the flags an instance may be given
    Templates         \* contents of the template's unit file

NothingOf(template) == [template |-> template, enabled |-> FALSE, running |-> Absent]

InstanceStates == [enable : Flags, active : Flags]

TypeOK ==
    /\ host \in [template : Templates \cup {Absent}, enabled : BOOLEAN, running : Templates \cup {Absent}]
    /\ TypesWith(InstanceConfigs, InstanceStates, LifecycleCalls)

Known == host.template # Absent

-----------------------------------------------------------------------------

\* Mutant: the flags are read from the host.
ReadFlags ==
    /\ Known
    /\ ReadFinds([enable |-> IF host.enabled THEN "on" ELSE "off",
                  active |-> IF host.running # Absent THEN "on" ELSE "off"])

\* The flags stay as applied.
Read == Known /\ ReadFinds(state)

\* The resource is gone when its unit is not found, even one that still runs.
ReadWithoutTemplate ==
    /\ ~Known
    /\ pc = "read"
    /\ state' = None
    /\ Excuse("lost")
    /\ Goto("plan")
    /\ UNCHANGED <<host, config, bounds>>

\* ImportState gives the names; the Read after it checks the unit.
Import ==
    /\ pc = "idle"
    /\ config # None /\ state = None /\ Known
    /\ state' = [enable |-> "unset", active |-> "unset"]
    /\ UNCHANGED <<host, config, pc, excuses, bounds>>

Changed == config # state

\* Mutant: a create alone writes the state.
RecordCreate ==
    /\ pc = "record"
    /\ RecordPut(IF state = None THEN [enable |-> config.enable, active |-> config.active] ELSE state,
                 {"failed", "unrecorded"})

Record ==
    /\ pc = "record"
    /\ RecordPut([enable |-> config.enable, active |-> config.active], {"failed", "unrecorded"})

\* DeleteUnitLifecycle answers no error, and the resource leaves the state.
Forget == pc = "forget" /\ RecordDelete({}, Lifecycle)

-----------------------------------------------------------------------------

Init == \E template \in Templates \cup {Absent} : InitWith(NothingOf(template), InstanceConfigs)

\* Others start, stop or disable the instance, and write or remove the template.
Others ==
    {[host EXCEPT !.running = Absent], [host EXCEPT !.running = host.template],
     [host EXCEPT !.enabled = FALSE]} \cup {[host EXCEPT !.template = t] : t \in Templates \cup {Absent}}

Run ==
    \/ StartRun \/ Read \/ ReadWithoutTemplate \/ Plan(Changed, FALSE, Lifecycle, "stop")
    \/ SetEnabled(Known) \/ SetEnabledFails(Known)
    \/ StartUnit(host.template) \/ StartUnitFails(host.template) \/ StopUnit
    \/ DisableUnit("forget") \/ DisableUnitIgnored("forget", Known)
    \/ Record \/ Forget

Next ==
    \/ Run
    \/ Import \/ ReadFails \/ StopUnitIgnored
    \/ Edit(InstanceConfigs) \/ Crash \/ Meddle(Others)

-----------------------------------------------------------------------------
(* Properties. *)

\* Unless an operation failed, an error was dropped or somebody else changed the
\* host, the instance is enabled and runs as asked; what it runs may be an earlier
\* template, since start does nothing to a unit that runs.  A destroyed instance is
\* stopped and disabled: a template removed first is one reason why it is not.
StateTrue ==
    AtRest /\ excuses = {} =>
        IF state = None THEN ~host.enabled /\ host.running = Absent ELSE UnitAs(state, Templates)

\* Without a template nothing can be enabled or started.
Hopeless == config # None /\ ~Known

Settled ==
    IF config = None THEN state = None
    ELSE /\ state # None /\ ~Changed
         /\ excuses = {} => UnitAs(config, Templates)
=============================================================================
