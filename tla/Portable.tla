------------------------------ MODULE Portable ------------------------------
(***************************************************************************)
(* systemd_portable (resource_portable.go over PutPortable and             *)
(* DeletePortable of client.go): the image of a portable service, a        *)
(* directory or a raw file, what is attached of it, and its primary unit.  *)
(*                                                                         *)
(* Every put detaches and removes the image that is there, with errors     *)
(* dropped, and then fetches and attaches.  What is left of an image at    *)
(* the directory goes before a raw image fetched next to it.               *)
(***************************************************************************)
EXTENDS UnitLifecycle

CONSTANTS
    PortableConfigs,  \* the configurations a portable service may be given
    Trees,            \* images unpacked into a directory
    Raws,             \* images copied or downloaded to a raw file
    Unpackable,       \* local sources whose name EnsurePortableImage does not know
    Broken            \* an image half fetched, or two mixed

PortableImages == Trees \cup Raws

Nothing == [dir |-> Absent, raw |-> Absent, attached |-> Absent, enabled |-> FALSE, running |-> Absent]

PortableStates ==
    [image : PortableImages, enable : Flags, active : Flags, delete_image : BOOLEAN]

PortableCalls ==
    (LifecycleCalls \ {"stop", "disable"}) \cup {"unload", "purge", "fetch", "detach", "attach", "release", "erase"}

TypeOK ==
    /\ host \in [dir : Trees \cup {Absent, Broken}, raw : Raws \cup {Absent, Broken},
                 attached : PortableImages \cup {Absent, Broken}, enabled : BOOLEAN,
                 running : PortableImages \cup {Absent, Broken}]
    /\ TypesWith(PortableConfigs, PortableStates, PortableCalls)

-----------------------------------------------------------------------------
(* Read, and what a plan compares. *)

\* Read asks only whether an image is there, not whether it is attached.
Read == ReadFinds(IF host.dir = Absent /\ host.raw = Absent THEN None ELSE state)

Changed ==
    \/ config.enable # state.enable \/ config.active # state.active
    \/ config.delete_image # state.delete_image

Replaced == config.image # state.image

-----------------------------------------------------------------------------
(* Detaching stops, disables and detaches.  A put does it before and after     *)
(* the fetch, a delete once.                                                   *)

Detaching == pc \in {"unload", "detach", "release"}

AfterDetach ==
    CASE pc = "unload" -> "purge"
      [] pc = "detach" -> "attach"
      [] pc = "release" -> (IF state.delete_image THEN "erase" ELSE "forget")

Detach ==
    /\ Detaching
    /\ Call(pc, AfterDetach)
    /\ host' = [host EXCEPT !.attached = Absent, !.enabled = FALSE, !.running = Absent]
    /\ UNCHANGED <<excuses, troubles>>

\* No error is returned.  A put that is left with an attached image is refused when it
\* attaches; a delete is not.
DetachIgnored ==
    /\ Trouble
    /\ Detaching
    /\ Call(pc, AfterDetach)
    /\ IF pc = "release" THEN Excuse("ignored") ELSE UNCHANGED excuses
    /\ \/ UNCHANGED host
       \/ host' = [host EXCEPT !.enabled = FALSE, !.running = Absent]

-----------------------------------------------------------------------------
(* EnsurePortableImage and RemovePortableImage. *)

Purging == pc \in {"purge", "erase"}
AfterPurge == IF pc = "purge" THEN "fetch" ELSE "forget"

\* Mutant: only a directory is removed.
PurgeDirectory ==
    /\ Purging
    /\ Call(pc, AfterPurge)
    /\ host' = [host EXCEPT !.dir = Absent]
    /\ UNCHANGED <<excuses, troubles>>

PurgeImage ==
    /\ Purging
    /\ Call(pc, AfterPurge)
    /\ host' = [host EXCEPT !.dir = Absent, !.raw = Absent]
    /\ UNCHANGED <<excuses, troubles>>

\* portablectl remove and rm may fail for either image, or stop half way in the
\* directory; a delete does not tell either.
PurgeImageIgnored ==
    /\ Trouble
    /\ Purging
    /\ Call(pc, AfterPurge)
    /\ \E dir \in {host.dir, Absent} \cup (IF host.dir = Absent THEN {} ELSE {Broken}), raw \in {host.raw, Absent} :
         /\ host' = [host EXCEPT !.dir = dir, !.raw = raw]
         /\ IF dir = Absent /\ raw = Absent THEN UNCHANGED excuses ELSE Excuse("ignored")

\* The name of a local source is looked at only now that the old image is gone.
RefuseImage ==
    /\ pc = "fetch" /\ config.image \in Unpackable
    /\ Error("fetch")
    /\ UNCHANGED <<host, troubles>>

\* A raw file is overwritten; an archive is unpacked into what the directory holds.
Fetched ==
    IF config.image \in Raws THEN [host EXCEPT !.raw = config.image]
    ELSE [host EXCEPT !.dir = IF @ = Absent THEN config.image ELSE Broken]

FetchImage ==
    /\ pc = "fetch" /\ config.image \notin Unpackable
    /\ Call("fetch", "detach")
    /\ host' = Fetched
    /\ UNCHANGED <<excuses, troubles>>

\* Mutant: the exit status of the download is lost in the pipe, and what came is attached.
FetchErrorDropped ==
    /\ pc = "fetch" /\ config.image \notin Unpackable
    /\ Trouble
    /\ Call("fetch", "detach") /\ UNCHANGED excuses
    /\ host' \in {Fetched, IF config.image \in Raws THEN [host EXCEPT !.raw = Broken] ELSE [host EXCEPT !.dir = Broken]}

\* A download that breaks off leaves what it has written.
FetchImageFails ==
    /\ pc = "fetch" /\ config.image \notin Unpackable
    /\ Trouble
    /\ Error("fetch")
    /\ host' \in {host, Fetched, IF config.image \in Raws THEN [host EXCEPT !.raw = Broken] ELSE [host EXCEPT !.dir = Broken]}

-----------------------------------------------------------------------------
(* AttachPortable, and the end of an operation. *)

Attached(image) ==
    [host EXCEPT !.attached = image, !.enabled = (config.enable = "on"),
                 !.running = IF config.active = "on" THEN image ELSE @]

\* The directory when there is one.
Preferred == IF host.dir # Absent THEN host.dir ELSE host.raw

Attach ==
    /\ pc = "attach" /\ host.attached = Absent
    /\ \E image \in {Preferred, host.raw} \ {Absent} :
         /\ host' = Attached(image)
         /\ IF image = Preferred THEN UNCHANGED troubles ELSE Trouble  \* test -e failed
    /\ Call("attach", Lifecycle)
    /\ UNCHANGED excuses

\* portablectl refuses an image that is attached, and may refuse a broken one.
AttachFails ==
    /\ pc = "attach"
    /\ TroubleUnless(host.attached # Absent \/ Preferred \in {Absent, Broken})
    /\ Error("attach")
    /\ \/ UNCHANGED host
       \/ host.attached = Absent /\ Preferred # Absent /\ host' = Attached(Preferred)

Record ==
    /\ pc = "record"
    /\ RecordPut([image |-> config.image, enable |-> config.enable, active |-> config.active,
                  delete_image |-> config.delete_image], {"failed", "unrecorded"})

Forget ==
    /\ pc = "forget"
    /\ RecordDelete(IF state.delete_image THEN {} ELSE {"kept"}, "unload")

-----------------------------------------------------------------------------

Init == InitWith(Nothing, PortableConfigs)

\* Others stop, start or detach the service, or remove its image.
Others ==
    {[host EXCEPT !.running = Absent], [host EXCEPT !.running = host.attached],
     [host EXCEPT !.enabled = FALSE, !.running = Absent, !.attached = Absent],
     [host EXCEPT !.dir = Absent, !.raw = Absent]}

Run ==
    \/ StartRun \/ Read \/ Plan(Changed, Replaced, "unload", "release")
    \/ Detach \/ PurgeImage \/ RefuseImage \/ FetchImage \/ Attach \/ AttachFails
    \/ SetEnabled(host.attached # Absent) \/ SetEnabledFails(host.attached # Absent)
    \/ StartUnit(host.attached) \/ StartUnitFails(host.attached) \/ StopUnit
    \/ Record \/ Forget

Next ==
    \/ Run
    \/ ReadLoses \/ DetachIgnored \/ PurgeImageIgnored \/ FetchImageFails
    \/ StopUnitIgnored
    \/ Edit(PortableConfigs) \/ Crash \/ Meddle(Others)

-----------------------------------------------------------------------------
(* Properties. *)

\* Unless an operation failed, an error was dropped or somebody else changed the
\* host, what is attached and runs is the image the state names, whole, and no other
\* image is left on the host beside it.
StateTrue ==
    state # None /\ AtRest /\ excuses = {} =>
        /\ host.attached = state.image
        /\ host.dir = (IF state.image \in Trees THEN state.image ELSE Absent)
        /\ host.raw = (IF state.image \in Raws THEN state.image ELSE Absent)
        /\ UnitAs(state, {state.image})

\* A destroyed service leaves nothing behind: an image only when asked to keep it or
\* after an error that DeletePortable drops.
NoOrphans ==
    state = None /\ pc = "idle" /\ "unrecorded" \notin excuses =>
        /\ host # Nothing => excuses # {}
        /\ host.attached # Absent => excuses \cap {"ignored", "lost", "foreign", "failed"} # {}

\* A create that never succeeds: of a local source with another name than an archive's.
Hopeless == config # None /\ (state = None \/ Replaced) /\ config.image \in Unpackable

Settled ==
    IF config = None THEN state = None
    ELSE /\ state # None /\ ~Changed /\ ~Replaced
         /\ excuses = {} => host.attached = config.image /\ UnitAs(config, {config.image})
=============================================================================
