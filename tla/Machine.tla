------------------------------- MODULE Machine -------------------------------
(***************************************************************************)
(* systemd_machine (resource_machine.go over PutMachine and DeleteMachine  *)
(* of client.go): the image of an nspawn container, its .nspawn settings   *)
(* file and its unit.                                                      *)
(*                                                                         *)
(* Every put fetches the image anew, after removing the one that is there  *)
(* with its error dropped.  A running machine locks its image, and an      *)
(* image cannot be fetched where one is.                                   *)
(***************************************************************************)
EXTENDS UnitLifecycle

CONSTANTS
    MachineConfigs,  \* the configurations a machine may be given
    Images,          \* what image.type and image.source may name
    Unfit,           \* those among them that MachinectlEnsureArgs refuses
    Contents         \* contents of a .nspawn file

Nothing == [image |-> Absent, settings |-> Absent, enabled |-> FALSE, running |-> Absent]

MachineStates ==
    [image : Images, settings : Contents \cup {Absent}, enable : Flags, active : Flags,
     delete_image : BOOLEAN, tainted : BOOLEAN]

MachineCalls == LifecycleCalls \cup {"show", "drop", "fetch", "settings", "reload", "unset", "remove"}

TypeOK ==
    /\ host \in [image : Images \cup {Absent}, settings : Contents \cup {Absent},
                 enabled : BOOLEAN, running : Images \cup {Absent}]
    /\ TypesWith(MachineConfigs, MachineStates, MachineCalls)

-----------------------------------------------------------------------------
(* Read, and what a plan compares. *)

\* Read: a machine without an image is gone; content that is there goes into the state.
Read ==
    ReadFinds(IF host.image = Absent THEN None
              ELSE IF host.settings = Absent THEN state
              ELSE [state EXCEPT !.settings = host.settings])

\* content is computed too: one that the configuration leaves out is not compared.
Changed ==
    \/ config.enable # state.enable \/ config.active # state.active
    \/ config.delete_image # state.delete_image
    \/ config.settings \notin {Absent, state.settings}

\* The image forces replacement; so does a resource marked as tainted.
Replaced == config.image # state.image \/ state.tainted

-----------------------------------------------------------------------------
(* PutMachine. *)

\* The arguments are checked before the first command.
RefuseImage ==
    /\ pc = "show" /\ config.image \in Unfit
    /\ Error("show")
    /\ UNCHANGED <<host, troubles>>

\* An error is taken for no image.
ShowImage ==
    /\ pc = "show" /\ config.image \notin Unfit
    /\ IF host.image = Absent THEN Call("show", "fetch") /\ UNCHANGED troubles
       ELSE \/ Call("show", "drop") /\ UNCHANGED troubles
            \/ Call("show", "fetch") /\ Trouble
    /\ UNCHANGED <<host, excuses>>

\* machinectl remove refuses an image that is in use.
Locked == host.running # Absent

DropImage ==
    /\ ~Locked
    /\ Call("drop", "fetch")
    /\ host' = [host EXCEPT !.image = Absent]
    /\ UNCHANGED <<excuses, troubles>>

\* The error is dropped.
DropImageIgnored ==
    /\ pc = "drop"
    /\ TroubleUnless(Locked)
    /\ Call("drop", "fetch")
    /\ UNCHANGED <<host, excuses>>

\* The settings of a create that has none are left as they are; an update removes them.
AfterFetch == IF config.settings = Absent /\ state = None THEN "reload" ELSE "settings"

\* Mutant: an image that is there is taken for the one asked for.
FetchOverImage ==
    /\ Call("fetch", AfterFetch)
    /\ host' = [host EXCEPT !.image = IF @ = Absent THEN config.image ELSE @]
    /\ UNCHANGED <<excuses, troubles>>

FetchImage ==
    /\ host.image = Absent
    /\ Call("fetch", AfterFetch)
    /\ host' = [host EXCEPT !.image = config.image]
    /\ UNCHANGED <<excuses, troubles>>

FetchImageFails ==
    /\ pc = "fetch"
    /\ TroubleUnless(host.image # Absent)
    /\ Error("fetch")
    /\ \/ UNCHANGED host
       \/ host.image = Absent /\ host' = [host EXCEPT !.image = config.image]

PutSettings ==
    /\ Call("settings", "reload")
    /\ host' = [host EXCEPT !.settings = config.settings]
    /\ UNCHANGED <<excuses, troubles>>

\* What a failed write may leave is what AtomicWrite shows of it.
PutSettingsFails ==
    /\ Trouble
    /\ Error("settings")
    /\ host' \in {[host EXCEPT !.settings = c] : c \in {host.settings, config.settings, Absent}}

DaemonReload ==
    /\ Call("reload", Lifecycle)
    /\ UNCHANGED <<host, excuses, troubles>>

DaemonReloadFails == Trouble /\ Error("reload") /\ UNCHANGED host

\* Create with neither content nor sections leaves content unknown, which Terraform
\* refuses after an apply: it keeps the rest and marks the resource as tainted.
Record ==
    /\ pc = "record"
    /\ RecordPut([image |-> config.image, settings |-> config.settings, enable |-> config.enable,
                  active |-> config.active, delete_image |-> config.delete_image,
                  tainted |-> state = None /\ config.settings = Absent],
                 {"failed", "unrecorded"})

-----------------------------------------------------------------------------
(* DeleteMachine. *)

\* Mutant: the settings file stays.
KeepSettings ==
    /\ Call("unset", IF state.delete_image THEN "remove" ELSE "forget")
    /\ UNCHANGED <<host, excuses, troubles>>

RemoveSettings ==
    /\ Call("unset", IF state.delete_image THEN "remove" ELSE "forget")
    /\ host' = [host EXCEPT !.settings = Absent]
    /\ UNCHANGED <<excuses, troubles>>

RemoveSettingsIgnored ==
    /\ Trouble
    /\ Call("unset", IF state.delete_image THEN "remove" ELSE "forget")
    /\ Excuse("ignored")
    /\ UNCHANGED host

RemoveImage ==
    /\ ~Locked /\ host.image # Absent
    /\ Call("remove", "forget")
    /\ host' = [host EXCEPT !.image = Absent]
    /\ UNCHANGED <<excuses, troubles>>

\* The one error a delete returns.
RemoveImageFails ==
    /\ pc = "remove"
    /\ TroubleUnless(Locked \/ host.image = Absent)
    /\ Error("remove")
    /\ \/ UNCHANGED host
       \/ ~Locked /\ host' = [host EXCEPT !.image = Absent]

Forget ==
    /\ pc = "forget"
    /\ RecordDelete(IF state.delete_image THEN {} ELSE {"kept"}, "show")

-----------------------------------------------------------------------------

Init == InitWith(Nothing, MachineConfigs)

\* Others start and stop the machine, and remove its image or its settings.
Others ==
    {h \in {[host EXCEPT !.running = Absent], [host EXCEPT !.running = host.image],
            [host EXCEPT !.enabled = ~@], [host EXCEPT !.settings = Absent],
            [host EXCEPT !.image = Absent]} : h.image = Absent => h.running = Absent}

Run ==
    \/ StartRun \/ Read \/ Plan(Changed, Replaced, "show", "stop")
    \/ RefuseImage \/ ShowImage \/ DropImage \/ DropImageIgnored \/ FetchImage \/ FetchImageFails
    \/ PutSettings \/ DaemonReload
    \/ SetEnabled(TRUE) \/ StartUnit(host.image) \/ StartUnitFails(host.image) \/ StopUnit
    \/ Record
    \/ DisableUnit("unset") \/ RemoveSettings \/ RemoveImage \/ RemoveImageFails \/ Forget

Next ==
    \/ Run
    \/ ReadLoses \/ PutSettingsFails \/ DaemonReloadFails \/ SetEnabledFails(TRUE)
    \/ StopUnitIgnored \/ DisableUnitIgnored("unset", TRUE) \/ RemoveSettingsIgnored
    \/ Edit(MachineConfigs) \/ Crash \/ Meddle(Others)

-----------------------------------------------------------------------------
(* Properties. *)

\* Unless an operation failed, an error was dropped or somebody else changed the
\* host, the machine is what the state says: the image asked for, not the one
\* before it, the settings, the unit enabled and running from that image.
StateTrue ==
    state # None /\ AtRest /\ excuses = {} =>
        /\ host.image = state.image
        /\ state.settings # Absent => host.settings = state.settings
        /\ UnitAs(state, {state.image})

\* A destroyed machine leaves nothing behind: an image only when asked to keep it, a
\* settings file or a unit only after an error that DeleteMachine drops.
NoOrphans ==
    state = None /\ pc = "idle" /\ "unrecorded" \notin excuses =>
        /\ host # Nothing => excuses # {}
        /\ host.image # Absent => excuses \cap {"kept", "lost", "foreign"} # {}

\* A running machine can only be started, stopped and replaced: an update fails at
\* its locked image, before it comes to anything else.
Blocked ==
    /\ config # None /\ host.running # Absent
    /\ state = None \/ (~Replaced /\ Changed)

\* A create that never succeeds: without settings, or of an image that is refused.
Hopeless ==
    /\ config # None /\ (state = None \/ Replaced)
    /\ config.settings = Absent \/ config.image \in Unfit

Settled ==
    IF config = None THEN state = None
    ELSE /\ state # None /\ ~Changed /\ ~Replaced
         /\ excuses = {} => host.image = config.image /\ UnitAs(config, {config.image})

\* docs/resources/systemd_machine.md gives content and section as optional: a create
\* whose every command succeeded is a create, with settings or without.
CreateSucceeds == state # None /\ excuses = {} => ~state.tainted
=============================================================================
