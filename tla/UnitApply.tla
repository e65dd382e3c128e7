------------------------------ MODULE UnitApply ------------------------------
(***************************************************************************)
(* The provider's client applying resources to one systemd host            *)
(* (internal/provider/client.go over the Host interface).                  *)
(*                                                                         *)
(* Terraform runs the operations of different resources in parallel over   *)
(* one shared client, and never two operations of the same resource.  An   *)
(* operation is a sequence of Host calls, each a round trip to the host;   *)
(* here each call is one step, so the calls of different operations        *)
(* interleave.  A call may fail: before the host acted, or after (the      *)
(* reply is lost), and the provider may be killed between two calls.       *)
(*                                                                         *)
(*   unit      systemd_unit, systemd_timer, ...: a file that is verified   *)
(*             by systemd-analyze, loaded by daemon-reload, then enabled   *)
(*             and started as the configuration asks                       *)
(*   drop-in   systemd_dropin: a file and a daemon-reload, nothing else    *)
(*   instance  systemd_instance: no file of its own; enables and starts    *)
(*             an instance of a template unit, without a daemon-reload     *)
(***************************************************************************)
EXTENDS Naturals

CONSTANTS
    Units,      \* unit files the provider manages
    Dropins,    \* drop-in files the provider manages
    Instances,  \* instances of template units the provider manages
    Template,   \* the unit each instance is an instance of
    Contents,   \* what a file may hold
    Rejects,    \* the contents systemd-analyze verify refuses
    Absent,     \* no file, nothing loaded, not running
    Found,      \* what a file may hold when Terraform first meets the host
    Configs,    \* what the configuration may ask of each resource
    MaxOps      \* bound: operations Terraform starts in one behaviour

ASSUME KindsAssumption ==
    /\ Units \cap Dropins = {}
    /\ Units \cap Instances = {}
    /\ Dropins \cap Instances = {}
    /\ Template \in [Instances -> Units]
ASSUME ContentsAssumption ==
    /\ Rejects \subseteq Contents
    /\ Absent \notin Contents
    /\ Found \subseteq Contents \cup {Absent}
ASSUME MaxOpsAssumption == MaxOps \in Nat

Flags == {"unset", "on", "off"}    \* a nil, true or false *bool

\* Only a unit has content and flags; a drop-in has no flags, an instance no content.
ASSUME ConfigsAssumption ==
    /\ \A u \in Units : Configs[u] \subseteq
         [op : {"put"}, content : Contents, enable : Flags, active : Flags]
    /\ \A d \in Dropins : Configs[d] \subseteq
         [op : {"put"}, content : Contents, enable : {"unset"}, active : {"unset"}]
    /\ \A i \in Instances : Configs[i] \subseteq
         [op : {"put"}, content : {Absent}, enable : Flags, active : Flags]

VARIABLES
    mode,      \* the provider's verify setting
    analyzer,  \* whether the host has the systemd-analyze command
    file,      \* files on disk
    loaded,    \* what the service manager has read of them
    enabled,   \* the enablement links of units and instances
    running,   \* the content a unit or instance was started from
    pc,        \* the Host call each resource's operation makes next
    goal,      \* what the operation was asked for
    prev,      \* PutUnitVerified's prev, Absent when prevExisted is false
    outcome,   \* how the resource's last operation ended
    before,    \* history: the unit as its operation found it
    ignored,   \* history: failures the operation did not report
    ops        \* operations started

host == <<file, loaded, enabled, running>>
call == <<goal, prev, before, ignored, ops>>
vars == <<mode, analyzer, host, pc, outcome, call>>

Files     == Units \cup Dropins
Services  == Units \cup Instances
Resources == Units \cup Dropins \cup Instances

FileState == Contents \cup {Absent}
Modes     == {"off", "warn", "error"}
Steps     == {"idle", "read", "write", "verify", "rollback", "reload", "enable",
              "activate", "stop", "disable", "remove", "done"}
Outcomes  == {"none", "ok", "error", "rejected", "rollback_failed", "killed"}
Goals     == [op : {"put", "delete"}, content : FileState, enable : Flags, active : Flags]
Ignorable == {"read", "stop", "disable"}

TypeOK ==
    /\ mode \in Modes
    /\ analyzer \in BOOLEAN
    /\ file \in [Files -> FileState]
    /\ loaded \in [Files -> FileState]
    /\ enabled \in [Services -> BOOLEAN]
    /\ running \in [Services -> FileState]
    /\ pc \in [Resources -> Steps]
    /\ goal \in [Resources -> Goals]
    /\ prev \in [Units -> FileState]
    /\ outcome \in [Resources -> Outcomes]
    /\ before \in [Units -> [file : FileState, loaded : FileState,
                            enabled : BOOLEAN, running : FileState]]
    /\ ignored \in [Services -> SUBSET Ignorable]
    /\ ops \in 0..MaxOps

-----------------------------------------------------------------------------
(* The host, as the provider's commands find it. *)

\* systemctl enable and disable reload the manager too, unless they fail early.
MayReload == loaded' \in {loaded, file}

Origin(s) == IF s \in Units THEN s ELSE Template[s]

\* What systemctl start runs: the configuration the manager holds; a unit it
\* does not hold is read from disk.
StartConfig(s) ==
    IF loaded[Origin(s)] # Absent THEN loaded[Origin(s)] ELSE file[Origin(s)]

Started(s) == IF running[s] # Absent THEN running[s] ELSE StartConfig(s)

-----------------------------------------------------------------------------
(* Control flow of the operations. *)

InFlight(r) == pc[r] \notin {"idle", "done"}

Goto(r, step) ==
    /\ pc' = [pc EXCEPT ![r] = step]
    /\ UNCHANGED outcome

Finish(r, how) ==
    /\ pc' = [pc EXCEPT ![r] = "done"]
    /\ outcome' = [outcome EXCEPT ![r] = how]

\* ApplyUnitLifecycle: a nil flag is skipped; nothing left to do is success.
Activate(r) ==
    IF goal[r].active = "unset" THEN Finish(r, "ok") ELSE Goto(r, "activate")

\* Mutant: enable is looked at only when active is not set.
LifecycleForgetsEnable(r) ==
    IF goal[r].active # "unset" THEN Goto(r, "activate")
    ELSE IF goal[r].enable # "unset" THEN Goto(r, "enable") ELSE Finish(r, "ok")

Lifecycle(r) ==
    IF goal[r].enable = "unset" THEN Activate(r) ELSE Goto(r, "enable")

\* The first Host call of PutUnitVerified, of PutDropin and of an instance's
\* ApplyUnitLifecycle.
FirstPutStep(r, g) ==
    CASE r \in Units   -> IF mode = "off" THEN "write" ELSE "read"
      [] r \in Dropins -> "write"
      [] OTHER         -> IF g.enable # "unset" THEN "enable"
                          ELSE IF g.active # "unset" THEN "activate" ELSE "done"

\* Mutant: DeleteUnit without its DeleteUnitLifecycle.
DeleteWithoutLifecycle(r) == IF r \in Instances THEN "disable" ELSE "remove"

FirstDeleteStep(r) == IF r \in Dropins THEN "remove" ELSE "stop"

\* Terraform starts an operation of a resource that has none in flight.
Begin(r, g, step) ==
    /\ ~InFlight(r)
    /\ goal' = [goal EXCEPT ![r] = g]
    /\ pc' = [pc EXCEPT ![r] = step]
    /\ outcome' = [outcome EXCEPT ![r] = IF step = "done" THEN "ok" ELSE "none"]
    /\ ignored' = IF r \in Services THEN [ignored EXCEPT ![r] = {}] ELSE ignored
    /\ prev' = IF r \in Units THEN [prev EXCEPT ![r] = Absent] ELSE prev
    /\ UNCHANGED <<mode, analyzer, host>>

DeleteGoal == [op |-> "delete", content |-> Absent, enable |-> "unset", active |-> "unset"]

\* What the model remembers of the start: how many, and the unit as it was found.
Remember(r) ==
    /\ ops < MaxOps
    /\ ops' = ops + 1
    /\ before' = IF r \in Units
                 THEN [before EXCEPT ![r] = [file |-> file[r], loaded |-> loaded[r],
                                             enabled |-> enabled[r], running |-> running[r]]]
                 ELSE before

BeginPut(r) == Remember(r) /\ \E g \in Configs[r] : Begin(r, g, FirstPutStep(r, g))

BeginDelete(r) == Remember(r) /\ Begin(r, DeleteGoal, FirstDeleteStep(r))

-----------------------------------------------------------------------------
(* The Host calls.  A call's failure is an action of its own. *)

\* ReadUnit before the write: the content to roll back to.
ReadUnit(u) ==
    /\ pc[u] = "read"
    /\ prev' = [prev EXCEPT ![u] = file[u]]
    /\ Goto(u, "write")
    /\ UNCHANGED <<mode, analyzer, host, goal, before, ignored, ops>>

\* Mutant: prevExisted is set although the read failed, and prev stays "".
ReadUnitFailsKeepsEmpty(u) ==
    /\ pc[u] = "read"
    /\ file[u] # Absent
    /\ prev' = [prev EXCEPT ![u] = ""]
    /\ ignored' = [ignored EXCEPT ![u] = @ \cup {"read"}]
    /\ Goto(u, "write")
    /\ UNCHANGED <<mode, analyzer, host, goal, before, ops>>

\* Any error of that read is taken for "the unit did not exist".
ReadUnitFails(u) ==
    /\ pc[u] = "read"
    /\ file[u] # Absent
    /\ prev' = [prev EXCEPT ![u] = Absent]
    /\ ignored' = [ignored EXCEPT ![u] = @ \cup {"read"}]
    /\ Goto(u, "write")
    /\ UNCHANGED <<mode, analyzer, host, goal, before, ops>>

AfterWrite(r) == IF r \in Units /\ mode # "off" THEN "verify" ELSE "reload"

\* WriteUnit and WriteDropin.
WriteFile(r) ==
    /\ pc[r] = "write"
    /\ file' = [file EXCEPT ![r] = goal[r].content]
    /\ Goto(r, AfterWrite(r))
    /\ UNCHANGED <<mode, analyzer, loaded, enabled, running, call>>

\* A failed write leaves the old file, the new one, or none (module AtomicWrite).
WriteFileFails(r) ==
    /\ pc[r] = "write"
    /\ \E c \in {file[r], goal[r].content, Absent} : file' = [file EXCEPT ![r] = c]
    /\ Finish(r, "error")
    /\ UNCHANGED <<mode, analyzer, loaded, enabled, running, call>>

\* systemd-analyze accepts the file; or it is not installed, which is a warning.
VerifyPasses(u) ==
    /\ pc[u] = "verify"
    /\ analyzer => file[u] \notin Rejects
    /\ Goto(u, "reload")
    /\ UNCHANGED <<mode, analyzer, host, call>>

\* systemd-analyze refuses the file, or the command fails: warned of and carried
\* on with in warn mode, rolled back in error mode.
\* Mutant: the two modes are taken for each other.
AfterRejectInverted == IF mode = "warn" THEN "rollback" ELSE "reload"

AfterReject == IF mode = "error" THEN "rollback" ELSE "reload"

VerifyFails(u) ==
    /\ pc[u] = "verify"
    /\ Goto(u, AfterReject)
    /\ UNCHANGED <<mode, analyzer, host, call>>

\* Mutant: prevExisted is not looked at.
RollbackAlwaysRemoves(u) ==
    /\ pc[u] = "rollback"
    /\ file' = [file EXCEPT ![u] = Absent]
    /\ Finish(u, "rejected")
    /\ UNCHANGED <<mode, analyzer, loaded, enabled, running, call>>

\* rollbackUnit: rewrite prev, or remove the unit when there was none.  Nothing
\* is reloaded.
RollbackUnit(u) ==
    /\ pc[u] = "rollback"
    /\ file' = [file EXCEPT ![u] = prev[u]]
    /\ Finish(u, "rejected")
    /\ UNCHANGED <<mode, analyzer, loaded, enabled, running, call>>

RollbackUnitFails(u) ==
    /\ pc[u] = "rollback"
    /\ \E c \in {file[u], prev[u], Absent} : file' = [file EXCEPT ![u] = c]
    /\ Finish(u, "rollback_failed")
    /\ UNCHANGED <<mode, analyzer, loaded, enabled, running, call>>

AfterReload(r) ==
    IF goal[r].op = "put" /\ r \in Units THEN Lifecycle(r) ELSE Finish(r, "ok")

\* systemctl daemon-reload: the manager reads every file again.
DaemonReload(r) ==
    /\ pc[r] = "reload"
    /\ loaded' = file
    /\ AfterReload(r)
    /\ UNCHANGED <<mode, analyzer, file, enabled, running, call>>

\* Mutant: the error of the reload is dropped.
DaemonReloadErrorDropped(r) ==
    /\ pc[r] = "reload"
    /\ MayReload
    /\ AfterReload(r)
    /\ UNCHANGED <<mode, analyzer, file, enabled, running, call>>

DaemonReloadFails(r) ==
    /\ pc[r] = "reload"
    /\ MayReload
    /\ Finish(r, "error")
    /\ UNCHANGED <<mode, analyzer, file, enabled, running, call>>

\* EnableUnit or DisableUnit, as goal.enable says.
SetEnabled(s) ==
    /\ pc[s] = "enable"
    /\ goal[s].enable = "on" => file[Origin(s)] # Absent
    /\ enabled' = [enabled EXCEPT ![s] = (goal[s].enable = "on")]
    /\ MayReload
    /\ Activate(s)
    /\ UNCHANGED <<mode, analyzer, file, running, call>>

SetEnabledFails(s) ==
    /\ pc[s] = "enable"
    /\ \/ enabled' = [enabled EXCEPT ![s] = (goal[s].enable = "on")]
       \/ UNCHANGED enabled
    /\ MayReload
    /\ Finish(s, "error")
    /\ UNCHANGED <<mode, analyzer, file, running, call>>

ReadOnStart(s) == loaded' = [loaded EXCEPT ![Origin(s)] = StartConfig(s)]

StartUnit(s) ==
    /\ pc[s] = "activate" /\ goal[s].active = "on"
    /\ Started(s) # Absent
    /\ running' = [running EXCEPT ![s] = Started(s)]
    /\ ReadOnStart(s)
    /\ Finish(s, "ok")
    /\ UNCHANGED <<mode, analyzer, file, enabled, call>>

\* Mutant: a start failure does not fail the apply.
StartErrorDropped(s) ==
    /\ pc[s] = "activate" /\ goal[s].active = "on"
    /\ \E c \in {running[s], Started(s)} : running' = [running EXCEPT ![s] = c]
    /\ ReadOnStart(s)
    /\ Finish(s, "ok")
    /\ UNCHANGED <<mode, analyzer, file, enabled, call>>

StartUnitFails(s) ==
    /\ pc[s] = "activate" /\ goal[s].active = "on"
    /\ \E c \in {running[s], Started(s)} : running' = [running EXCEPT ![s] = c]
    /\ ReadOnStart(s)
    /\ Finish(s, "error")
    /\ UNCHANGED <<mode, analyzer, file, enabled, call>>

\* StopUnit never reports an error.
AfterStop(s) == IF goal[s].op = "put" THEN Finish(s, "ok") ELSE Goto(s, "disable")

Stopping(s) == pc[s] = "stop" \/ (pc[s] = "activate" /\ goal[s].active = "off")

StopUnit(s) ==
    /\ Stopping(s)
    /\ running' = [running EXCEPT ![s] = Absent]
    /\ AfterStop(s)
    /\ UNCHANGED <<mode, analyzer, file, loaded, enabled, call>>

StopUnitFails(s) ==
    /\ Stopping(s)
    /\ running[s] # Absent
    /\ ignored' = [ignored EXCEPT ![s] = @ \cup {"stop"}]
    /\ AfterStop(s)
    /\ UNCHANGED <<mode, analyzer, host, goal, prev, before, ops>>

\* DeleteUnitLifecycle drops the error of the disable; an instance ends with it.
AfterDisable(s) == IF s \in Units THEN Goto(s, "remove") ELSE Finish(s, "ok")

DisableUnit(s) ==
    /\ pc[s] = "disable"
    /\ enabled' = [enabled EXCEPT ![s] = FALSE]
    /\ MayReload
    /\ AfterDisable(s)
    /\ UNCHANGED <<mode, analyzer, file, running, call>>

DisableUnitFails(s) ==
    /\ pc[s] = "disable"
    /\ enabled[s]
    /\ ignored' = [ignored EXCEPT ![s] = @ \cup {"disable"}]
    /\ AfterDisable(s)
    /\ UNCHANGED <<mode, analyzer, host, goal, prev, before, ops>>

\* Mutant: the removal is not followed by a daemon-reload.
RemoveWithoutReload(r) ==
    /\ pc[r] = "remove"
    /\ file' = [file EXCEPT ![r] = Absent]
    /\ Finish(r, "ok")
    /\ UNCHANGED <<mode, analyzer, loaded, enabled, running, call>>

\* RemoveUnit and RemoveDropin: a file that is not there is no error.
RemoveFile(r) ==
    /\ pc[r] = "remove"
    /\ file' = [file EXCEPT ![r] = Absent]
    /\ Goto(r, "reload")
    /\ UNCHANGED <<mode, analyzer, loaded, enabled, running, call>>

RemoveFileFails(r) ==
    /\ pc[r] = "remove"
    /\ \E c \in {file[r], Absent} : file' = [file EXCEPT ![r] = c]
    /\ Finish(r, "error")
    /\ UNCHANGED <<mode, analyzer, loaded, enabled, running, call>>

\* The provider dies: every operation under way stops where it is.
Kill ==
    /\ \E r \in Resources : InFlight(r)
    /\ pc' = [r \in Resources |-> IF InFlight(r) THEN "done" ELSE pc[r]]
    /\ outcome' = [r \in Resources |-> IF InFlight(r) THEN "killed" ELSE outcome[r]]
    /\ UNCHANGED <<mode, analyzer, host, call>>

-----------------------------------------------------------------------------

\* Any provider configuration, and a host whose manager has read its files.
Init ==
    /\ mode \in Modes
    /\ analyzer \in BOOLEAN
    /\ file \in [Files -> Found]
    /\ loaded = file
    /\ enabled = [s \in Services |-> FALSE]
    /\ running = [s \in Services |-> Absent]
    /\ pc = [r \in Resources |-> "idle"]
    /\ goal = [r \in Resources |-> DeleteGoal]
    /\ prev = [u \in Units |-> Absent]
    /\ outcome = [r \in Resources |-> "none"]
    /\ before = [u \in Units |-> [file |-> file[u], loaded |-> file[u],
                               enabled |-> FALSE, running |-> Absent]]
    /\ ignored = [s \in Services |-> {}]
    /\ ops = 0

UnitStep(u) ==
    \/ ReadUnit(u)     \/ ReadUnitFails(u)
    \/ VerifyPasses(u) \/ VerifyFails(u)
    \/ RollbackUnit(u) \/ RollbackUnitFails(u)

FileStep(f) ==
    \/ WriteFile(f)    \/ WriteFileFails(f)
    \/ DaemonReload(f) \/ DaemonReloadFails(f)
    \/ RemoveFile(f)   \/ RemoveFileFails(f)

ServiceStep(s) ==
    \/ SetEnabled(s)  \/ SetEnabledFails(s)
    \/ StartUnit(s)   \/ StartUnitFails(s)
    \/ StopUnit(s)    \/ StopUnitFails(s)
    \/ DisableUnit(s) \/ DisableUnitFails(s)

Next ==
    \/ \E r \in Resources : BeginPut(r) \/ BeginDelete(r)
    \/ \E u \in Units : UnitStep(u)
    \/ \E f \in Files : FileStep(f)
    \/ \E s \in Services : ServiceStep(s)
    \/ Kill

Spec == Init /\ [][Next]_vars

-----------------------------------------------------------------------------
(* Properties. *)

Succeeded(r, op) == pc[r] = "done" /\ outcome[r] = "ok" /\ goal[r].op = op

\* A put that reports success left the host as configured: the file and what the
\* manager has loaded are the content asked for, the unit is enabled or disabled
\* and started or stopped as asked; only a stop may have failed unreported.  It
\* still holds later, whatever other resources' operations did meanwhile.
PutHonoured ==
    /\ \A f \in Files : Succeeded(f, "put") =>
        file[f] = goal[f].content /\ loaded[f] = goal[f].content
    /\ \A s \in Services : Succeeded(s, "put") =>
        /\ goal[s].enable # "unset" => enabled[s] = (goal[s].enable = "on")
        /\ goal[s].active = "on" => running[s] # Absent
        /\ goal[s].active = "off" => running[s] = Absent \/ "stop" \in ignored[s]

\* A delete that reports success removed the file and the manager forgot it; the
\* unit still runs or is still enabled only after an ignored failure.
DeleteHonoured ==
    /\ \A f \in Files : Succeeded(f, "delete") => file[f] = Absent /\ loaded[f] = Absent
    /\ \A s \in Services : Succeeded(s, "delete") =>
        /\ running[s] # Absent => "stop" \in ignored[s]
        /\ enabled[s] => "disable" \in ignored[s]

\* A put refused by verification and rolled back leaves the unit as it found it:
\* the file it read before writing, and the lifecycle never touched.
RejectedRestored ==
    \A u \in Units : pc[u] = "done" /\ outcome[u] = "rejected" =>
        /\ "read" \notin ignored[u] => file[u] = before[u].file
        /\ enabled[u] = before[u].enabled
        /\ running[u] = before[u].running

\* Disk and manager disagree about a file only while its own operation is under
\* way, or after that operation ended in an error: no success hides a missing
\* reload.
StaleOnlyIfReported ==
    \A f \in Files : loaded[f] # file[f] =>
        InFlight(f) \/ outcome[f] \in {"error", "rejected", "rollback_failed", "killed"}

\* In error mode, on a host that has systemd-analyze, no unit resource ever
\* starts its unit from a content verification refuses, even if another
\* resource's daemon-reload makes the manager load that content meanwhile.
VerifiedBeforeRun ==
    mode = "error" /\ analyzer => \A u \in Units : running[u] \notin Rejects

\* A unit resource starts its unit from the file on disk at that time, never from
\* an older configuration the manager still held.
StartsCurrent ==
    [][\A u \in Units : running'[u] # running[u] /\ running'[u] # Absent
         => running'[u] = file[u]]_vars

\* The client keeps the contract of module ApplyContract.  What the host shows of
\* a resource: its file and what the manager loaded of it, and its enablement and
\* whether it runs, with the failures its operation kept quiet about.
View(r) ==
    [file    |-> IF r \in Files THEN file[r] ELSE Absent,
     loaded  |-> IF r \in Files THEN loaded[r] ELSE Absent,
     enabled |-> IF r \in Services THEN enabled[r] ELSE FALSE,
     running |-> IF r \in Services THEN running[r] ELSE Absent,
     ignored |-> IF r \in Services THEN ignored[r] ELSE {}]

Status(r) ==
    CASE pc[r] = "idle" -> "idle"
      [] InFlight(r)    -> "busy"
      [] OTHER          -> IF outcome[r] = "ok" THEN "ok" ELSE "failed"

HostHonours(r, g, v) ==
    /\ v.file = g.content /\ v.loaded = g.content
    /\ g.op = "put" =>
        /\ g.enable # "unset" => v.enabled = (g.enable = "on")
        /\ g.active = "on" => v.running # Absent
        /\ g.active = "off" => v.running = Absent \/ "stop" \in v.ignored
    /\ g.op = "delete" =>
        /\ v.running # Absent => "stop" \in v.ignored
        /\ v.enabled => "disable" \in v.ignored

Contract == INSTANCE ApplyContract WITH
    Honours <- HostHonours,
    asked   <- goal,
    status  <- [r \in Resources |-> Status(r)],
    view    <- [r \in Resources |-> View(r)]

\* Every behaviour of the client's calls is one the contract allows: success is
\* answered only when the host is as asked, and other resources' operations never
\* disturb what was answered with success.
KeepsContract == Contract!Spec

\* client.go says of error mode: "a verification failure rolls the file back
\* (restored or removed) so the host is left untouched".  Of the file: a rolled
\* back put leaves the file it found.
FileLeftUntouched ==
    \A u \in Units : pc[u] = "done" /\ outcome[u] = "rejected" => file[u] = before[u].file

\* Of the service manager: after a rolled back put it holds what it held before,
\* or what was on disk before, should another operation have reloaded it.
ManagerLeftUntouched ==
    \A u \in Units :
        pc[u] = "done" /\ outcome[u] = "rejected" /\ "read" \notin ignored[u] =>
            loaded[u] \in {before[u].loaded, before[u].file}
=============================================================================
