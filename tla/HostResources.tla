---------------------------- MODULE HostResources ----------------------------
(***************************************************************************)
(* The resources of the provider that keep something else than a unit file *)
(* on the host: a machine, a portable service, a file of networkd or       *)
(* resolved, a credential, an instance.  They share no part of the host,   *)
(* so a behaviour is about one of them; what they share is Terraform's     *)
(* runs.                                                                   *)
(***************************************************************************)
EXTENDS TerraformRun

CONSTANTS
    MachineConfigs, Images, Unfit, Contents,
    PortableConfigs, Trees, Raws, Unpackable,
    FileConfigs, Bodies, Down,
    CredentialConfigs, Secrets,
    InstanceConfigs, Templates,
    Broken

VARIABLE kind  \* the resource the behaviour is about

M == INSTANCE Machine
P == INSTANCE Portable
F == INSTANCE HostFile
C == INSTANCE Credential
I == INSTANCE Instance

\* Unfit and unpackable images are images that may be asked for, and never fetched.
ASSUME ImagesAssumption == Unfit \subseteq Images /\ Unpackable \subseteq Trees /\ Trees \cap Raws = {}
ASSUME ValuesAssumption ==
    /\ {Absent, Broken, Down} \cap (Images \cup Contents \cup Trees \cup Raws \cup Bodies \cup Secrets \cup Templates) = {}
    /\ Absent \notin {Broken, Down}
ASSUME ConfigsAssumption ==
    /\ MachineConfigs \subseteq [image : Images, settings : Contents \cup {Absent},
                                enable : Flags, active : Flags, delete_image : BOOLEAN]
    /\ PortableConfigs \subseteq P!PortableStates
    /\ \A c \in FileConfigs : [form |-> c.form, body |-> c.body, content |-> c.body] \in F!FileStates
    /\ CredentialConfigs \subseteq C!CredentialStates
    /\ InstanceConfigs \subseteq I!InstanceStates
ASSUME NoneAssumption ==
    None \notin MachineConfigs \cup PortableConfigs \cup FileConfigs \cup CredentialConfigs \cup InstanceConfigs
             \cup M!MachineStates \cup P!PortableStates \cup F!FileStates \cup C!CredentialStates \cup I!InstanceStates

-----------------------------------------------------------------------------

Init ==
    \/ kind = "machine"    /\ M!Init
    \/ kind = "portable"   /\ P!Init
    \/ kind = "file"       /\ F!Init
    \/ kind = "credential" /\ C!Init
    \/ kind = "instance"   /\ I!Init

\* The resource's own steps: Terraform runs, and its calls are answered.
Run ==
    /\ \/ kind = "machine"    /\ M!Run
       \/ kind = "portable"   /\ P!Run
       \/ kind = "file"       /\ F!Run
       \/ kind = "credential" /\ C!Run
       \/ kind = "instance"   /\ I!Run
    /\ UNCHANGED kind

Next ==
    /\ \/ kind = "machine"    /\ M!Next
       \/ kind = "portable"   /\ P!Next
       \/ kind = "file"       /\ F!Next
       \/ kind = "credential" /\ C!Next
       \/ kind = "instance"   /\ I!Next
    /\ UNCHANGED kind

allVars == <<vars, kind>>

\* Terraform is run again and again, and a call that is not disturbed is answered.
\* Failures, crashes, edits and other people's changes are owed nothing.
Fairness == WF_allVars(Run)

Spec == Init /\ [][Next]_allVars /\ Fairness

-----------------------------------------------------------------------------
(* Properties: those of each resource, on the behaviours about it. *)

TypeOK ==
    CASE kind = "machine"    -> M!TypeOK
      [] kind = "portable"   -> P!TypeOK
      [] kind = "file"       -> F!TypeOK
      [] kind = "credential" -> C!TypeOK
      [] kind = "instance"   -> I!TypeOK

\* Unless an operation failed, an error was dropped or somebody else changed the
\* host, the machine is what the state says: the image asked for and not the one
\* before it (EnsureMachineImage), the settings, the unit enabled and running.
MachineTrue == kind = "machine" => M!StateTrue

\* A destroyed machine leaves an image only when asked to keep it, and settings or a
\* unit only after an error that DeleteMachine drops.
MachineNoOrphans == kind = "machine" => M!NoOrphans

\* What is attached, enabled and runs is the image the state names, whole and alone
\* (EnsurePortableImage, AttachPortable), unless an error was dropped or returned.
PortableTrue == kind = "portable" => P!StateTrue

\* A destroyed portable service leaves an image or an attached unit only when asked
\* to keep the image or after an error that DeletePortable drops.
PortableNoOrphans == kind = "portable" => P!NoOrphans

\* The file is what was asked for and the daemon runs with it (PutNetwork,
\* PutResolvedConf), and a destroyed one is gone from both (DeleteNetwork,
\* DeleteResolvedConf), unless an operation failed or somebody else wrote the file.
FileTrue == kind = "file" => F!StateTrue

\* The secret of the state is on the host, and only at the path of its kind.
CredentialTrue == kind = "credential" => C!StateTrue

\* A change of encrypted never leaves the copy at the old path, whatever fails and
\* is edited on the way, but for one of a create that failed.
CredentialOneCopy == kind = "credential" => C!OneCopy

\* The instance is enabled and runs as asked (ApplyUnitLifecycle), and a destroyed one
\* is stopped and disabled (DeleteUnitLifecycle), unless an error was dropped.
InstanceTrue == kind = "instance" => I!StateTrue

\* What the runs of Terraform cannot get past: a machine whose locked image fails
\* each update, a create that the resource refuses, an instance without a template.
Stuck ==
    \/ kind = "machine"  /\ (M!Blocked \/ M!Hopeless)
    \/ kind = "portable" /\ P!Hopeless
    \/ kind = "instance" /\ I!Hopeless

Settled ==
    CASE kind = "machine"    -> M!Settled
      [] kind = "portable"   -> P!Settled
      [] kind = "file"       -> F!Settled
      [] kind = "credential" -> C!Settled
      [] kind = "instance"   -> I!Settled

\* After the last edit and the last trouble, whatever failed before, Terraform's runs
\* come to plans that show no changes, with the resource as the configuration asks
\* or as a named excuse explains; or they are stuck for a named reason.
Converges == <>[](Stuck \/ (AtRest /\ Settled))

\* The runs keep the contract of module RunContract: an operation begins only when
\* something is left to apply and ends with it applied, stuck or with an excuse; a
\* refresh of what is applied finds nothing to do; a resource leaves the state only by
\* a delete, or with an excuse.
Standing == IF Settled THEN "applied" ELSE IF Stuck THEN "stuck" ELSE "open"

Contract == INSTANCE RunContract WITH
    wanted   <- config,
    tracked  <- state # None,
    standing <- Standing,
    status   <- IF AtRest THEN "rest" ELSE "working",
    excused  <- excuses # {}

KeepsRunContract == Contract!Spec

\* A create of a machine whose every command succeeded is one for Terraform too.
MachineCreateSucceeds == kind = "machine" => M!CreateSucceeds
=============================================================================
