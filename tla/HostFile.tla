------------------------------ MODULE HostFile ------------------------------
(***************************************************************************)
(* The files that another daemon than the service manager reads: the       *)
(* .network, .netdev and .link resources (resource_network.go), reloaded   *)
(* with networkctl, and resolved.conf and its drop-ins                     *)
(* (resource_resolved.go, resource_resolved_dropin.go), whose daemon is    *)
(* restarted.  A put writes the file and reloads; a delete removes it and  *)
(* reloads.                                                                *)
(***************************************************************************)
EXTENDS TerraformRun

CONSTANTS
    FileConfigs,  \* the configurations a file may be given: a form and a body
    Bodies,       \* contents of a file
    Down          \* a daemon that is not running

Daemons == {"networkd", "resolved"}

Nothing(daemon) == [daemon |-> daemon, file |-> Absent, loaded |-> Absent]

\* content is what was applied or read last, body what was rendered last.
FileStates == [form : {"raw", "typed"}, body : Bodies, content : Bodies]

FileCalls == {"write", "reload", "unlink", "unload"}

TypeOK ==
    /\ host \in [daemon : Daemons, file : Bodies \cup {Absent}, loaded : Bodies \cup {Absent, Down}]
    /\ TypesWith(FileConfigs, FileStates, FileCalls)

-----------------------------------------------------------------------------
(* Read, ImportState, and what a plan compares. *)

\* Mutant: the error of a missing file is not looked at.
ReadUnchecked == ReadFinds([state EXCEPT !.content = host.file])

Read == ReadFinds(IF host.file = Absent THEN None ELSE [state EXCEPT !.content = host.file])

\* ImportState, and the Read that follows it.
Import ==
    /\ pc = "idle"
    /\ config # None /\ state = None /\ host.file # Absent
    /\ state' = [form |-> "raw", body |-> host.file, content |-> host.file]
    /\ UNCHANGED <<host, config, pc, excuses, bounds>>

\* Sections are compared with those applied last, content with what Read found.
Changed ==
    \/ config.form # state.form
    \/ config.body # (IF config.form = "raw" THEN state.content ELSE state.body)

-----------------------------------------------------------------------------
(* The calls. *)

Write ==
    /\ Call("write", "reload")
    /\ host' = [host EXCEPT !.file = config.body]
    /\ UNCHANGED <<excuses, troubles>>

\* What a failed write may leave is what AtomicWrite shows of it.
WriteFails ==
    /\ Trouble
    /\ Error("write")
    /\ host' \in {[host EXCEPT !.file = b] : b \in {host.file, config.body, Absent}}

Unlink ==
    /\ Call("unlink", "unload")
    /\ host' = [host EXCEPT !.file = Absent]
    /\ UNCHANGED <<excuses, troubles>>

UnlinkFails ==
    /\ Trouble
    /\ Error("unlink")
    /\ host' \in {host, [host EXCEPT !.file = Absent]}

Reloading == pc \in {"reload", "unload"}

Reload ==
    /\ Reloading
    /\ Call(pc, IF pc = "reload" THEN "record" ELSE "forget")
    /\ host' = [host EXCEPT !.loaded = host.file]
    /\ UNCHANGED <<excuses, troubles>>

\* Mutant: the error of a reload is dropped.
ReloadErrorDropped ==
    /\ Trouble
    /\ Reloading
    /\ Call(pc, IF pc = "reload" THEN "record" ELSE "forget")
    /\ UNCHANGED excuses
    /\ \/ UNCHANGED host
       \/ host' = [host EXCEPT !.loaded = host.file]

\* A daemon that could not be restarted may stay down; networkd goes on.
ReloadFails ==
    /\ Trouble
    /\ Reloading
    /\ Error(pc)
    /\ \/ UNCHANGED host
       \/ host' = [host EXCEPT !.loaded = host.file]
       \/ host.daemon = "resolved" /\ host' = [host EXCEPT !.loaded = Down]

Record ==
    /\ pc = "record"
    /\ RecordPut([form |-> config.form, body |-> config.body, content |-> config.body],
                 {"failed", "unrecorded"})

Forget == pc = "forget" /\ RecordDelete({}, "write")

-----------------------------------------------------------------------------

\* A resource before this one may leave its daemon as it found it: nothing loaded.
Init == \E daemon \in Daemons : InitWith(Nothing(daemon), FileConfigs)

\* The reload for another resource loads this one's file too.
OtherReload ==
    /\ host' = [host EXCEPT !.loaded = host.file]
    /\ UNCHANGED <<config, state, pc, excuses, bounds>>

\* Others write the file or remove it, and the daemon may not have read it.
Others == {[host EXCEPT !.file = b] : b \in Bodies \cup {Absent}}

Run == StartRun \/ Read \/ Plan(Changed, FALSE, "write", "unlink") \/ Write \/ Unlink \/ Reload \/ Record \/ Forget

Next ==
    \/ Run
    \/ Import \/ ReadLoses \/ WriteFails \/ UnlinkFails \/ ReloadFails \/ OtherReload
    \/ Edit(FileConfigs) \/ Crash \/ Meddle(Others)

-----------------------------------------------------------------------------
(* Properties. *)

\* Unless an operation failed or somebody else wrote the file, the file is what was
\* asked for and the daemon runs with it; a destroyed file leaves nothing behind,
\* neither on the disk nor in the daemon.
StateTrue ==
    AtRest /\ excuses = {} =>
        LET body == IF state = None THEN Absent ELSE state.body IN
        host.file = body /\ host.loaded = body

Settled ==
    IF config = None THEN state = None
    ELSE /\ state # None /\ ~Changed
         /\ config.form = "raw" => host.file = config.body
         /\ excuses = {} => host.file = config.body /\ host.loaded = config.body
=============================================================================
