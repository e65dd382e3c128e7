---------------------------- MODULE ManagedFiles ----------------------------
(***************************************************************************)
(* Terraform managing unit and drop-in files with the provider: the        *)
(* Create, Read, Update, Delete and ImportState functions of the unit,     *)
(* unit-like and drop-in resources, over the client's calls of UnitApply.  *)
(*                                                                         *)
(* A run of Terraform refreshes a resource's state (Read), compares it     *)
(* with the configuration, and begins the operation the difference calls   *)
(* for; what the operation returns decides what the state becomes.  Runs   *)
(* follow each other for ever.  Meanwhile calls and reads fail, Terraform  *)
(* crashes and files change behind its back, but not for ever.             *)
(***************************************************************************)
EXTENDS UnitApply

CONSTANTS
    Wanted,      \* the configurations each resource may be given
    None,        \* not configured, not in the state
    MaxEdits,    \* bound: edits of the configuration
    MaxTroubles  \* bound: failures, crashes and changes by somebody else

ASSUME WantedAssumption ==
    \A f \in Files : Wanted[f] \subseteq [form : {"raw", "typed"}, put : Configs[f]]
ASSUME BoundsAssumption == MaxEdits \in Nat /\ MaxTroubles \in Nat

VARIABLES
    config,   \* what the configuration says of each file resource
    state,    \* what Terraform's state says of it
    phase,    \* where the run of Terraform is with it
    excuses,  \* history: why its file may be on the host unmanaged or not as asked
    edits,    \* edits of the configuration so far
    troubles  \* failures, crashes and interferences so far

\* A state holds both what was applied last and the content last applied or read.
States == [form : {"raw", "typed"}, enable : Flags, active : Flags,
           body : Contents, content : Contents]

ASSUME NoneAssumption == None \notin States

ManagedTypeOK ==
    /\ config \in [Files -> (UNION {Wanted[f] : f \in Files}) \cup {None}]
    /\ state \in [Files -> States \cup {None}]
    /\ phase \in [Files -> {"idle", "refreshed", "applying"}]
    /\ excuses \in [Files -> SUBSET {"unmanaged", "drift", "failed"}]
    /\ edits \in 0..MaxEdits
    /\ troubles \in 0..MaxTroubles

-----------------------------------------------------------------------------
(* The provider's resource functions. *)

EnterPhase(f, p) == phase' = [phase EXCEPT ![f] = p]
SetState(f, s)   == state' = [state EXCEPT ![f] = s]
Excuse(f, why)   == excuses' = [excuses EXCEPT ![f] = @ \cup {why}]

Trouble == troubles < MaxTroubles /\ troubles' = troubles + 1

\* Read: the content on the host goes into the state; a file that is not there
\* takes the resource out of the state.
Refresh(f) ==
    /\ phase[f] = "idle"
    /\ IF state[f] = None THEN UNCHANGED state
       ELSE SetState(f, IF file[f] = Absent THEN None ELSE [state[f] EXCEPT !.content = file[f]])
    /\ EnterPhase(f, "refreshed")
    /\ UNCHANGED <<vars, config, excuses, edits, troubles>>

\* Read takes every other error for a missing file.
RefreshFails(f) ==
    /\ Trouble
    /\ phase[f] = "idle"
    /\ state[f] # None /\ file[f] # Absent
    /\ SetState(f, None)
    /\ Excuse(f, "unmanaged")
    /\ EnterPhase(f, "refreshed")
    /\ UNCHANGED <<vars, config, edits>>

\* ImportState and the Read that follows it.
Import(f) ==
    /\ phase[f] = "idle"
    /\ config[f] # None /\ state[f] = None /\ file[f] # Absent
    /\ SetState(f, [form |-> "raw", enable |-> "unset", active |-> "unset",
                    body |-> file[f], content |-> file[f]])
    /\ UNCHANGED <<vars, config, phase, excuses, edits, troubles>>

\* What a plan shows as a change.  Sections are compared with the sections applied
\* last; content, when the configuration sets it, with what Read found.
Differs(w, s) ==
    \/ w.form # s.form
    \/ w.put.enable # s.enable \/ w.put.active # s.active
    \/ w.put.content # (IF w.form = "raw" THEN s.content ELSE s.body)

NothingToDo(f) ==
    IF config[f] = None THEN state[f] = None
    ELSE state[f] # None /\ ~Differs(config[f], state[f])

NoChanges(f) ==
    /\ phase[f] = "refreshed"
    /\ NothingToDo(f)
    /\ EnterPhase(f, "idle")
    /\ UNCHANGED <<vars, config, state, excuses, edits, troubles>>

Apply(f) ==
    /\ phase[f] = "refreshed"
    /\ ~NothingToDo(f)
    /\ IF config[f] = None THEN Begin(f, DeleteGoal, FirstDeleteStep(f))
       ELSE Begin(f, config[f].put, FirstPutStep(f, config[f].put))
    /\ EnterPhase(f, "applying")
    /\ excuses' = [excuses EXCEPT ![f] = @ \ {"drift"}]
    /\ UNCHANGED <<before, ops, config, state, edits, troubles>>

\* Mutant: the content is recorded as unknown.
StateWithoutContent(w) == [form |-> w.form, enable |-> w.put.enable,
    active |-> w.put.active, body |-> w.put.content, content |-> Absent]

\* Mutant: a flag that is not set is recorded as off.
StateWithFlags(w) ==
    LET flag(v) == IF v = "unset" THEN "off" ELSE v IN
    [form |-> w.form, enable |-> flag(w.put.enable), active |-> flag(w.put.active),
     body |-> w.put.content, content |-> w.put.content]

\* setStateContent: all of the plan, and the content that was written.
StateOf(w) == [form |-> w.form, enable |-> w.put.enable, active |-> w.put.active,
               body |-> w.put.content, content |-> w.put.content]

\* What an operation knew is gone when it has returned.
Forget(fs) ==
    /\ pc' = [f \in Resources |-> IF f \in fs THEN "idle" ELSE pc[f]]
    /\ outcome' = [f \in Resources |-> IF f \in fs THEN "none" ELSE outcome[f]]
    /\ goal' = [f \in Resources |-> IF f \in fs THEN DeleteGoal ELSE goal[f]]
    /\ prev' = [u \in Units |-> IF u \in fs THEN Absent ELSE prev[u]]
    /\ UNCHANGED <<mode, analyzer, host, before, ignored, ops>>

\* Mutant: a failed delete takes the resource out of the state.
RecordForgetsFailedDelete(f) ==
    /\ phase[f] = "applying" /\ pc[f] = "done"
    /\ IF outcome[f] = "ok" THEN
         /\ SetState(f, IF goal[f].op = "put" THEN StateOf(config[f]) ELSE None)
         /\ excuses' = [excuses EXCEPT ![f] = @ \cap {"drift"}]
       ELSE IF goal[f].op = "delete" THEN SetState(f, None) /\ UNCHANGED excuses
       ELSE
         /\ UNCHANGED state
         /\ Excuse(f, IF state[f] = None THEN "unmanaged" ELSE "failed")
    /\ EnterPhase(f, "idle")
    /\ Forget({f})
    /\ UNCHANGED <<config, edits, troubles>>

\* Mutant: a failed update records the plan all the same.
RecordBeforeChecking(f) ==
    /\ phase[f] = "applying" /\ pc[f] = "done"
    /\ SetState(f, IF goal[f].op = "put" THEN StateOf(config[f]) ELSE None)
    /\ excuses' = [excuses EXCEPT ![f] = @ \cap {"drift"}]
    /\ EnterPhase(f, "idle")
    /\ Forget({f})
    /\ UNCHANGED <<config, edits, troubles>>

\* Create, Update and Delete set the state only when the client returned no error:
\* a failed create leaves no state, a failed update or delete the state before it.
Record(f) ==
    /\ phase[f] = "applying" /\ pc[f] = "done"
    /\ IF outcome[f] = "ok" THEN
         /\ SetState(f, IF goal[f].op = "put" THEN StateOf(config[f]) ELSE None)
         /\ excuses' = [excuses EXCEPT ![f] = @ \cap {"drift"}]
       ELSE
         /\ UNCHANGED state
         /\ Excuse(f, IF state[f] = None THEN "unmanaged" ELSE "failed")
    /\ EnterPhase(f, "idle")
    /\ Forget({f})
    /\ UNCHANGED <<config, edits, troubles>>

-----------------------------------------------------------------------------
(* The client's calls.  A failure in the order of things: systemd-analyze       *)
(* refuses the content, or there is nothing to enable or start.                *)

Doomed(f) ==
    \/ pc[f] = "verify" /\ analyzer /\ file[f] \in Rejects
    \/ pc[f] = "enable" /\ goal[f].enable = "on" /\ file[f] = Absent
    \/ pc[f] = "activate" /\ goal[f].active = "on" /\ Started(f) = Absent

CallSucceeds(f) ==
    /\ \/ WriteFile(f) \/ DaemonReload(f) \/ RemoveFile(f)
       \/ /\ f \in Units
          /\ \/ ReadUnit(f) \/ VerifyPasses(f) \/ RollbackUnit(f)
             \/ SetEnabled(f) \/ StartUnit(f) \/ StopUnit(f) \/ DisableUnit(f)
    /\ UNCHANGED <<config, state, phase, excuses, edits, troubles>>

CallFails(f) ==
    /\ IF Doomed(f) THEN UNCHANGED troubles ELSE Trouble
    /\ \/ WriteFileFails(f) \/ DaemonReloadFails(f) \/ RemoveFileFails(f)
       \/ /\ f \in Units
          /\ \/ ReadUnitFails(f) \/ VerifyFails(f) \/ RollbackUnitFails(f)
             \/ SetEnabledFails(f) \/ StartUnitFails(f)
             \/ StopUnitFails(f) \/ DisableUnitFails(f)
    /\ UNCHANGED <<config, state, phase, excuses, edits>>

-----------------------------------------------------------------------------
(* The world around. *)

\* The configuration is edited between two runs.
Edit(f) ==
    /\ phase[f] = "idle"
    /\ edits < MaxEdits /\ edits' = edits + 1
    /\ \E w \in (Wanted[f] \cup {None}) \ {config[f]} : config' = [config EXCEPT ![f] = w]
    /\ UNCHANGED <<vars, state, phase, excuses, troubles>>

\* Somebody else changes or removes the file, or puts one there.
Drift(f) ==
    /\ Trouble
    /\ \E c \in FileState \ {file[f]} : file' = [file EXCEPT ![f] = c]
    /\ Excuse(f, "drift")
    /\ UNCHANGED <<mode, analyzer, loaded, enabled, running, pc, outcome, call>>
    /\ UNCHANGED <<config, state, phase, edits>>

\* Terraform and the provider are killed, with operations under way or ended and
\* not yet recorded.
Crash ==
    /\ Trouble
    /\ LET applying == {f \in Files : phase[f] = "applying"} IN
        /\ applying # {}
        /\ Forget(applying)
        /\ excuses' = [f \in Files |->
             IF f \in applying THEN excuses[f] \cup {"unmanaged", "failed"} ELSE excuses[f]]
    /\ phase' = [f \in Files |-> "idle"]
    /\ UNCHANGED <<config, state, edits>>

-----------------------------------------------------------------------------

ManagedInit ==
    /\ Init
    /\ config \in [Files -> (UNION {Wanted[f] : f \in Files}) \cup {None}]
    /\ \A f \in Files : config[f] \in Wanted[f] \cup {None}
    /\ state = [f \in Files |-> None]
    /\ phase = [f \in Files |-> "idle"]
    /\ excuses = [f \in Files |-> IF file[f] = Absent THEN {} ELSE {"unmanaged"}]
    /\ edits = 0
    /\ troubles = 0

Run(f) ==
    \/ Refresh(f) \/ NoChanges(f) \/ Apply(f) \/ Record(f)
    \/ CallSucceeds(f)

ManagedNext ==
    \/ \E f \in Files : Run(f) \/ RefreshFails(f) \/ Import(f) \/ CallFails(f) \/ Edit(f) \/ Drift(f)
    \/ Crash

managedVars == <<vars, config, state, phase, excuses, edits, troubles>>

ManagedSpec == ManagedInit /\ [][ManagedNext]_managedVars

\* Terraform is run again and again, and its operations proceed.
Fairness == \A f \in Files : WF_managedVars(Run(f) \/ CallFails(f))

FairSpec == ManagedSpec /\ Fairness

-----------------------------------------------------------------------------
(* Properties. *)

\* What was asked for when the state was written.
Applied(s) ==
    IF s = None THEN DeleteGoal
    ELSE [op |-> "put", content |-> s.body, enable |-> s.enable, active |-> s.active]

\* Between operations the host is as the state says: the file, what the manager
\* loaded of it, the enablement and the service, as applied last, and nothing of a
\* resource without a state.  What excuses it: Terraform found the file there, somebody
\* else changed it, an operation or a read failed, or Terraform crashed; and each of
\* them only until an operation succeeds.
StateTrue ==
    \A f \in Files : phase[f] # "applying" /\ excuses[f] = {} =>
        /\ HostHonours(f, Applied(state[f]), View(f))
        /\ state[f] # None => state[f].content = state[f].body

\* Where runs end up, once the trouble is over.  A destroyed resource is out of
\* the state.  Raw content is on the host whatever happened to the file.  The file
\* is on the host, loaded, and the unit enabled and started as asked, but for what
\* the plan does not see: changes by somebody else, what a failed operation did
\* before the configuration was edited back or Read found its content written, and
\* what the file imported was like.
Settled(f) ==
    IF config[f] = None THEN state[f] = None
    ELSE LET w == config[f] IN
        /\ w.form = "raw" => file[f] = w.put.content
        /\ excuses[f] = {} => HostHonours(f, w.put, View(f))

\* After the last edit Terraform's runs reach a point where plans show no changes
\* for ever and every resource is settled, whatever failed before.
Converges == \A f \in Files : <>[](phase[f] # "applying" /\ Settled(f))

\* The runs on each file keep the contract of module RunContract: an operation begins
\* only when something is left to apply, and ends with it applied or with an excuse;
\* what is applied stays so, whatever is done to other resources meanwhile.
OnHost(f)   == <<View(f).file, View(f).loaded, View(f).enabled, View(f).running>>
Standing(f) == IF NothingToDo(f) /\ Settled(f) THEN "applied" ELSE "open"
Doing(f)    == IF phase[f] = "applying" THEN "working" ELSE "rest"
Excused(f)  == excuses[f] # {}

Promise(f) == INSTANCE RunContract WITH
    wanted   <- config[f],
    host     <- OnHost(f),
    tracked  <- state[f] # None,
    standing <- Standing(f),
    status   <- Doing(f),
    excused  <- Excused(f)

KeepsRunContract ==
    /\ \A f \in Files : Promise(f)!Init
    /\ [][\A f \in Files : Promise(f)!Next \/ UNCHANGED Promise(f)!vars]_managedVars

\* docs/resources/systemd_unit.md says that destroy "removes the file, and runs
\* `systemctl daemon-reload`": once a resource is destroyed, its file gone and its
\* state dropped without a crash, the service manager has forgotten the unit.
DestroyedIsForgotten ==
    \A f \in Files :
        config[f] = None /\ state[f] = None /\ file[f] = Absent /\ excuses[f] \cap {"unmanaged", "drift"} = {}
        => loaded[f] = Absent
=============================================================================
