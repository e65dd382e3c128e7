---------------------------- MODULE Images_proofs ----------------------------
(***************************************************************************)
(* Proofs about the portable service and the machine of HostResources, for *)
(* any images, configurations and contents and any number of edits and     *)
(* troubles, and that every variable has its type.                         *)
(***************************************************************************)
EXTENDS HostResources_proofs

USE ImagesAssumption, ValuesAssumption, ConfigsAssumption, NoneAssumption, BoundsAssumption

-----------------------------------------------------------------------------
(* The portable service. *)

Placed(image) ==
    /\ host.dir = (IF image \in Trees THEN image ELSE Absent)
    /\ host.raw = (IF image \in Raws THEN image ELSE Absent)

PortableSteps ==
    /\ pc \in {"unload", "purge", "fetch", "detach", "attach", "enable", "activate", "record"} => config # None
    /\ pc \in {"read", "release", "erase", "forget"} => state # None

\* Nothing is enabled or runs that is not attached, whatever others do.
PortableUnit ==
    /\ host.attached = Absent => ~host.enabled
    /\ host.running \in {host.attached, Absent}

\* What the calls of an operation have done, unless an error was dropped or somebody
\* else changed the host since.
PortableDone ==
    excuses \cap {"ignored", "foreign"} = {} =>
        /\ pc = "fetch" => host.dir = Absent /\ host.raw = Absent
        /\ pc \in {"detach", "attach", "enable", "activate", "record"} => Placed(config.image)
        /\ pc \in {"enable", "activate", "record"} => host.attached = config.image
        /\ pc \in {"activate", "record"} /\ config.enable # "unset" => host.enabled = (config.enable = "on")
        /\ pc = "record" => P!UnitAs(config, {config.image})
        /\ pc \in {"erase", "forget"} => host.attached = Absent
        /\ pc = "forget" /\ state.delete_image => host.dir = Absent /\ host.raw = Absent

\* An image may have been kept before a replacement: that excuse is still there when
\* the new image is in the state.
PortableAtRest ==
    P!AtRest /\ excuses \subseteq {"kept"} =>
        /\ state # None => host.attached = state.image /\ Placed(state.image) /\ P!UnitAs(state, {state.image})
        /\ state = None => host.attached = Absent
        /\ state = None /\ excuses = {} => host.dir = Absent /\ host.raw = Absent

PortableInv == P!TypeOK /\ PortableSteps /\ PortableUnit /\ PortableDone /\ PortableAtRest

\* A portable service begins without a state.
LEMMA PortableInit == P!Init => PortableInv
BY DEF P!Init, P!InitWith, P!Nothing, PortableInv, P!TypeOK, P!TypesWith, P!PortableCalls, P!LifecycleCalls, P!AtRest,
       PortableSteps, PortableUnit, PortableDone, PortableAtRest

PortableHosts ==
    [dir : Trees \cup {Absent, Broken}, raw : Raws \cup {Absent, Broken},
     attached : P!PortableImages \cup {Absent, Broken}, enabled : BOOLEAN,
     running : P!PortableImages \cup {Absent, Broken}]

\* What attaching changes.
LEMMA PortableAttached ==
    ASSUME NEW image \in P!PortableImages \cup {Absent, Broken}, host \in PortableHosts, host' = P!Attached(image)
    PROVE  /\ host' \in PortableHosts /\ host'.dir = host.dir /\ host'.raw = host.raw
           /\ host'.attached = image /\ host'.enabled = (config.enable = "on")
           /\ host'.running = (IF config.active = "on" THEN image ELSE host.running)
<1> DEFINE runs == IF config.active = "on" THEN image ELSE host.running
           enables == (config.enable = "on")
<1>1. runs \in P!PortableImages \cup {Absent, Broken} /\ enables \in BOOLEAN
  BY DEF PortableHosts
<1>2. host' = [host EXCEPT !.attached = image, !.enabled = enables, !.running = runs]
  BY DEF P!Attached
<1> HIDE DEF runs, enables
<1>3. /\ host' \in PortableHosts /\ host'.dir = host.dir /\ host'.raw = host.raw
      /\ host'.attached = image /\ host'.enabled = enables /\ host'.running = runs
  BY <1>1, <1>2 DEF PortableHosts
<1> QED
  BY <1>3 DEF runs, enables

\* A run that ends with an error or is killed notes it, and nothing more is claimed.
LEMMA PortableInterrupted ==
    ASSUME PortableInv, pc' = "idle", UNCHANGED <<config, state, edits>>, troubles' \in 0..MaxTroubles,
           P!Interrupted, host' \in PortableHosts, PortableUnit'
    PROVE  PortableInv'
<1>1. excuses' \subseteq P!Excuses /\ ~(excuses' \subseteq {"kept"})
  <2>1. excuses' = excuses \cup {IF state = None THEN "unrecorded" ELSE "failed"}
    BY DEF P!Interrupted, P!Excuse
  <2>2. excuses \subseteq P!Excuses
    BY DEF PortableInv, P!TypeOK, P!TypesWith
  <2> QED
    BY <2>1, <2>2 DEF P!Excuses
<1>2. P!TypeOK'
  BY <1>1 DEF PortableInv, P!TypeOK, P!TypesWith, PortableHosts
<1>3. PortableSteps' /\ PortableDone' /\ PortableAtRest'
  BY <1>1 DEF PortableSteps, PortableDone, PortableAtRest
<1> QED
  BY <1>2, <1>3 DEF PortableInv

\* Every step of a portable service keeps its invariant.
LEMMA PortableNext == PortableInv /\ P!Next => PortableInv'
<1> SUFFICES ASSUME PortableInv, P!Next PROVE PortableInv'
  OBVIOUS
<1> USE DEF PortableInv, P!TypeOK, P!TypesWith, P!PortableStates, P!PortableImages, P!PortableCalls, P!LifecycleCalls,
        P!Excuses, P!Flags, P!AtRest, P!bounds, Placed, PortableSteps, PortableUnit, PortableDone, PortableAtRest,
        P!UnitAs, P!Goto, P!Call, P!Trouble, P!TroubleUnless, P!Excuse, P!Error, P!Interrupted, P!Lifecycle,
        P!AfterEnable
<1>1. CASE P!StartRun
  BY <1>1 DEF P!StartRun
<1>2. CASE P!Read
  BY <1>2 DEF P!Read, P!ReadFinds
<1>3. CASE P!Plan(P!Changed, P!Replaced, "unload", "release")
  BY <1>3 DEF P!Plan, P!Planned, P!Changed, P!Replaced
<1>4. CASE P!Detach
  <2>1. /\ UNCHANGED <<config, state, edits, excuses, troubles>> /\ host' \in PortableHosts
        /\ host'.dir = host.dir /\ host'.raw = host.raw
        /\ host'.attached = Absent /\ ~host'.enabled /\ host'.running = Absent
    BY <1>4 DEF P!Detach, PortableHosts
  <2>2. CASE pc = "unload" /\ pc' = "purge"
    BY <2>1, <2>2 DEF PortableHosts
  <2>3. CASE pc = "detach" /\ pc' = "attach"
    BY <2>1, <2>3 DEF PortableHosts
  <2>4. CASE pc = "release" /\ pc' = (IF state.delete_image THEN "erase" ELSE "forget")
    BY <2>1, <2>4 DEF PortableHosts
  <2>5. pc \in {"unload", "detach", "release"} /\ pc' = P!AfterDetach
    BY <1>4 DEF P!Detach, P!Detaching
  <2> QED
    BY <2>2, <2>3, <2>4, <2>5 DEF P!AfterDetach
<1>5. CASE P!PurgeImage
  <2>1. /\ UNCHANGED <<config, state, edits, excuses, troubles>> /\ host' \in PortableHosts
        /\ host'.dir = Absent /\ host'.raw = Absent
        /\ host'.attached = host.attached /\ host'.enabled = host.enabled /\ host'.running = host.running
    BY <1>5 DEF P!PurgeImage, PortableHosts
  <2>2. CASE pc = "purge" /\ pc' = "fetch"
    BY <2>1, <2>2 DEF PortableHosts
  <2>3. CASE pc = "erase" /\ pc' = "forget"
    BY <2>1, <2>3 DEF PortableHosts
  <2> QED
    BY <1>5, <2>2, <2>3 DEF P!PurgeImage, P!Purging, P!AfterPurge
<1>6. CASE P!RefuseImage
  BY <1>6, PortableInterrupted DEF P!RefuseImage, PortableHosts
<1>7. CASE P!FetchImage
  BY <1>7 DEF P!FetchImage, P!Fetched
<1>8. CASE P!Attach
  <2>1. PICK image \in {P!Preferred, host.raw} \ {Absent} : host' = P!Attached(image)
    BY <1>8 DEF P!Attach
  <2>2. /\ pc = "attach" /\ host.attached = Absent /\ pc' = P!Lifecycle
        /\ UNCHANGED <<config, state, edits, excuses>> /\ troubles' \in 0..MaxTroubles
    BY <1>8 DEF P!Attach
  <2>3. image \in P!PortableImages \cup {Broken}
    BY <2>1 DEF P!Preferred
  <2>4. /\ host' \in PortableHosts /\ host'.dir = host.dir /\ host'.raw = host.raw
        /\ host'.attached = image /\ host'.enabled = (config.enable = "on")
        /\ host'.running = (IF config.active = "on" THEN image ELSE Absent)
    <3>1. host \in PortableHosts /\ host.running = Absent
      BY <2>2 DEF PortableHosts
    <3> QED
      BY <2>1, <2>3, <3>1, PortableAttached
  <2>5. ASSUME excuses \cap {"ignored", "foreign"} = {} PROVE image = config.image
    <3>1. Placed(config.image) /\ config.image \in Trees \cup Raws
      BY <2>2, <2>5
    <3> QED
      BY <2>1, <3>1 DEF P!Preferred
  <2>6. P!TypeOK' /\ PortableSteps'
    BY <2>2, <2>4 DEF PortableHosts
  <2>7. PortableUnit'
    BY <2>3, <2>4
  <2>8. PortableDone'
    BY <2>2, <2>4, <2>5
  <2>9. PortableAtRest'
    BY <2>2
  <2> QED
    BY <2>6, <2>7, <2>8, <2>9
<1>9. CASE P!AttachFails
  <2>1. CASE UNCHANGED host
    BY <1>9, <2>1, PortableInterrupted DEF P!AttachFails, PortableHosts
  <2>2. CASE host.attached = Absent /\ P!Preferred # Absent /\ host' = P!Attached(P!Preferred)
    <3>1. host' \in PortableHosts
      <4>1. P!Preferred \in P!PortableImages \cup {Absent, Broken}
        BY DEF P!Preferred
      <4>2. host \in PortableHosts
        BY DEF PortableHosts
      <4> QED
        BY <2>2, <4>1, <4>2, PortableAttached
    <3>2. PortableUnit'
      BY <2>2 DEF P!Attached, P!Preferred
    <3> QED
      BY <1>9, <3>1, <3>2, PortableInterrupted DEF P!AttachFails
  <2> QED
    BY <1>9, <2>1, <2>2 DEF P!AttachFails
<1>10. CASE P!SetEnabled(host.attached # Absent)
  <2>1. /\ UNCHANGED <<config, state, edits, excuses, troubles>> /\ host' \in PortableHosts
        /\ host'.dir = host.dir /\ host'.raw = host.raw /\ host.attached # Absent
        /\ host'.attached = host.attached /\ host'.running = host.running
        /\ host'.enabled = (config.enable = "on") /\ pc = "enable" /\ pc' = P!AfterEnable
    BY <1>10, ZenonT(40) DEF P!SetEnabled, PortableHosts
  <2>2. P!TypeOK' /\ PortableSteps' /\ PortableUnit' /\ PortableAtRest'
    BY <2>1 DEF PortableHosts
  <2>3. PortableDone'
    BY <2>1
  <2> QED
    BY <2>2, <2>3
<1>11. CASE P!SetEnabledFails(host.attached # Absent)
  <2>1. host' \in {host, [host EXCEPT !.enabled = (config.enable = "on")]} /\ (host' # host => host.attached # Absent)
    BY <1>11 DEF P!SetEnabledFails
  <2>2. host' \in PortableHosts
    BY <2>1, ZenonT(40) DEF PortableHosts
  <2>3. PortableUnit'
    BY <2>1
  <2> QED
    BY <1>11, <2>2, <2>3, PortableInterrupted DEF P!SetEnabledFails
<1>12. CASE P!StartUnit(host.attached)
  BY <1>12 DEF P!StartUnit
<1>13. CASE P!StartUnitFails(host.attached)
  BY <1>13 DEF P!StartUnitFails
<1>14. CASE P!StopUnit
  BY <1>14 DEF P!StopUnit, P!Stopping, P!AfterStop
<1>15. CASE P!Record
  BY <1>15 DEF P!Record, P!RecordPut
<1>16. CASE P!Forget
  BY <1>16 DEF P!Forget, P!RecordDelete
<1>17. CASE P!ReadLoses
  BY <1>17 DEF P!ReadLoses
<1>18. CASE P!DetachIgnored
  <2>1. /\ UNCHANGED <<config, state, edits>> /\ troubles' \in 0..MaxTroubles /\ host' \in PortableHosts
        /\ host'.dir = host.dir /\ host'.raw = host.raw /\ host'.attached = host.attached
        /\ host' = host \/ (~host'.enabled /\ host'.running = Absent)
    <3>1. host' \in {host, [host EXCEPT !.enabled = FALSE, !.running = Absent]}
      BY <1>18 DEF P!DetachIgnored
    <3>2. UNCHANGED <<config, state, edits>> /\ troubles' \in 0..MaxTroubles
      BY <1>18 DEF P!DetachIgnored
    <3>3. host \in PortableHosts
      BY DEF PortableHosts
    <3>4. CASE host' = [host EXCEPT !.enabled = FALSE, !.running = Absent]
      BY <3>2, <3>3, <3>4 DEF PortableHosts
    <3> QED
      BY <3>1, <3>2, <3>3, <3>4
  <2>2. PortableUnit'
    BY <2>1
  <2>3. CASE pc = "unload" /\ pc' = "purge" /\ UNCHANGED excuses
    BY <2>1, <2>2, <2>3 DEF PortableHosts
  <2>4. CASE pc = "detach" /\ pc' = "attach" /\ UNCHANGED excuses
    BY <2>1, <2>2, <2>4 DEF PortableHosts
  <2>5. CASE pc = "release" /\ pc' = (IF state.delete_image THEN "erase" ELSE "forget") /\ P!Excuse("ignored")
    BY <2>1, <2>2, <2>5 DEF PortableHosts
  <2> QED
    BY <1>18, <2>3, <2>4, <2>5 DEF P!DetachIgnored, P!Detaching, P!AfterDetach
<1>19. CASE P!PurgeImageIgnored
  <2>1. PICK dir \in {host.dir, Absent, Broken}, raw \in {host.raw, Absent} :
           /\ host' = [host EXCEPT !.dir = dir, !.raw = raw]
           /\ IF dir = Absent /\ raw = Absent THEN UNCHANGED excuses ELSE P!Excuse("ignored")
    BY <1>19, ZenonT(40) DEF P!PurgeImageIgnored
  <2>2. /\ UNCHANGED <<config, state, edits>> /\ troubles' \in 0..MaxTroubles /\ host' \in PortableHosts
        /\ host'.attached = host.attached /\ host'.enabled = host.enabled /\ host'.running = host.running
        /\ host'.dir = dir /\ host'.raw = raw
    <3>1. UNCHANGED <<config, state, edits>> /\ troubles' \in 0..MaxTroubles
      BY <1>19 DEF P!PurgeImageIgnored
    <3>2. dir \in Trees \cup {Absent, Broken} /\ raw \in Raws \cup {Absent, Broken}
      BY <2>1
    <3> QED
      BY <2>1, <3>1, <3>2 DEF PortableHosts
  <2>3. excuses' \subseteq P!Excuses /\ ((UNCHANGED excuses /\ dir = Absent /\ raw = Absent) \/ "ignored" \in excuses')
    BY <2>1
  <2>4. CASE pc = "purge" /\ pc' = "fetch"
    BY <2>2, <2>3, <2>4 DEF PortableHosts
  <2>5. CASE pc = "erase" /\ pc' = "forget"
    BY <2>2, <2>3, <2>5 DEF PortableHosts
  <2> QED
    BY <1>19, <2>4, <2>5 DEF P!PurgeImageIgnored, P!Purging, P!AfterPurge
<1>20. CASE P!FetchImageFails
  BY <1>20 DEF P!FetchImageFails, P!Fetched
<1>21. CASE P!StopUnitIgnored
  BY <1>21 DEF P!StopUnitIgnored, P!Stopping, P!AfterStop
<1>22. CASE P!Edit(PortableConfigs)
  BY <1>22 DEF P!Edit
<1>23. CASE P!Crash
  <2>1. /\ pc' = "idle" /\ UNCHANGED <<host, config, state, edits>> /\ troubles' \in 0..MaxTroubles
    BY <1>23 DEF P!Crash
  <2>2. CASE P!AtRest /\ UNCHANGED excuses
    BY <2>1, <2>2
  <2>3. CASE P!Interrupted
    BY <2>1, <2>3, PortableInterrupted DEF PortableHosts
  <2> QED
    BY <1>23, <2>2, <2>3 DEF P!Crash
<1>24. CASE P!Meddle(P!Others)
  <2>1. UNCHANGED <<config, state, pc, edits>> /\ troubles' \in 0..MaxTroubles
    BY <1>24 DEF P!Meddle
  <2>2. excuses' \subseteq P!Excuses /\ "foreign" \in excuses'
    BY <1>24 DEF P!Meddle
  <2>3. host' \in PortableHosts /\ PortableUnit'
    <3>1. host' \in {[host EXCEPT !.running = Absent], [host EXCEPT !.running = host.attached],
                     [host EXCEPT !.enabled = FALSE, !.running = Absent, !.attached = Absent],
                     [host EXCEPT !.dir = Absent, !.raw = Absent]}
      BY <1>24 DEF P!Meddle, P!Others
    <3>2. host \in PortableHosts
      BY DEF PortableHosts
    <3>3. CASE host' = [host EXCEPT !.running = Absent] \/ host' = [host EXCEPT !.running = host.attached]
      BY <3>2, <3>3 DEF PortableHosts
    <3>4. CASE host' = [host EXCEPT !.enabled = FALSE, !.running = Absent, !.attached = Absent]
      BY <3>2, <3>4 DEF PortableHosts
    <3>5. CASE host' = [host EXCEPT !.dir = Absent, !.raw = Absent]
      BY <3>2, <3>5 DEF PortableHosts
    <3> QED
      BY <3>1, <3>3, <3>4, <3>5
  <2>4. P!TypeOK'
    BY <2>1, <2>2, <2>3 DEF PortableHosts
  <2> QED
    BY <2>1, <2>2, <2>3, <2>4
<1> QED
  BY <1>1, <1>2, <1>3, <1>4, <1>5, <1>6, <1>7, <1>8, <1>9, <1>10, <1>11, <1>12, <1>13, <1>14, <1>15, <1>16, <1>17,
     <1>18, <1>19, <1>20, <1>21, <1>22, <1>23, <1>24
  DEF P!Next, P!Run

\* It holds in every state of a behaviour about a portable service.
LEMMA PortableInvariance == Spec => [](kind = "portable" => PortableInv)
<1> DEFINE Inv == kind = "portable" => PortableInv
<1>1. Init => Inv
  BY PortableInit DEF Init
<1>2. Inv /\ [Next]_allVars => Inv'
  <2>1. UNCHANGED allVars /\ PortableInv => PortableInv'
    BY DEF allVars, vars, bounds, PortableInv, P!TypeOK, P!TypesWith, PortableSteps, PortableUnit, PortableDone,
           PortableAtRest, Placed, P!AtRest, P!UnitAs
  <2> QED
    BY <2>1, PortableNext DEF Next, allVars
<1> QED
  BY <1>1, <1>2, PTL DEF Spec

\* What is attached and runs is the image of the state, whole and alone.
THEOREM PortableIsTrue == Spec => []PortableTrue
<1>1. (kind = "portable" => PortableInv) => PortableTrue
  BY DEF PortableTrue, P!StateTrue, PortableInv, PortableAtRest, Placed
<1> QED
  BY <1>1, PortableInvariance, PTL

\* A destroyed portable service leaves an image or a unit only for a named reason.
THEOREM PortableIsGone == Spec => []PortableNoOrphans
<1>1. (kind = "portable" => PortableInv) => PortableNoOrphans
  <2> SUFFICES ASSUME PortableInv, state = None, pc = "idle", "unrecorded" \notin excuses
               PROVE  /\ host # P!Nothing => excuses # {}
                      /\ host.attached # Absent => excuses \cap {"ignored", "lost", "foreign", "failed"} # {}
    BY DEF PortableNoOrphans, P!NoOrphans
  <2>1. excuses \subseteq P!Excuses /\ host \in PortableHosts /\ PortableUnit /\ PortableAtRest /\ P!AtRest
    BY DEF PortableInv, P!TypeOK, P!TypesWith, PortableHosts, P!AtRest
  <2>2. excuses \subseteq {"kept"} => host.attached = Absent
    BY <2>1 DEF PortableAtRest
  <2>3. excuses = {} => host = P!Nothing
    BY <2>1, <2>2 DEF PortableAtRest, PortableUnit, PortableHosts, P!Nothing
  <2> QED
    BY <2>1, <2>2, <2>3 DEF P!Excuses
<1> QED
  BY <1>1, PortableInvariance, PTL

-----------------------------------------------------------------------------
(* The machine. *)

MachineHosts ==
    [image : Images \cup {Absent}, settings : Contents \cup {Absent}, enabled : BOOLEAN,
     running : Images \cup {Absent}]

MachineSteps ==
    /\ pc \in {"show", "drop", "fetch", "settings", "reload", "enable", "activate", "record"} => config # None
    /\ pc \in {"read", "stop", "disable", "unset", "remove", "forget"} => state # None

\* A running machine holds its image, and an image that was to go has gone: no one
\* else fetches one.
MachineUnit ==
    /\ host.running \in {host.image, Absent}
    /\ pc = "forget" /\ state.delete_image => host.image = Absent

MachineDone ==
    excuses \cap {"ignored", "foreign"} = {} =>
        /\ pc \in {"settings", "reload", "enable", "activate", "record"} => host.image = config.image
        /\ pc \in {"reload", "enable", "activate", "record"} /\ config.settings # Absent =>
              host.settings = config.settings
        /\ pc \in {"activate", "record"} /\ config.enable # "unset" => host.enabled = (config.enable = "on")
        /\ pc = "record" => M!UnitAs(config, {config.image})
        /\ pc \in {"disable", "unset", "remove", "forget"} => host.running = Absent
        /\ pc \in {"unset", "remove", "forget"} => ~host.enabled
        /\ pc \in {"remove", "forget"} => host.settings = Absent

MachineAtRest ==
    M!AtRest =>
        /\ state # None /\ excuses = {} =>
              /\ host.image = state.image
              /\ state.settings # Absent => host.settings = state.settings
              /\ M!UnitAs(state, {state.image})
        /\ state = None /\ excuses \cap {"kept", "lost", "foreign", "unrecorded"} = {} => host.image = Absent
        /\ state = None /\ excuses = {} => host.settings = Absent /\ ~host.enabled

MachineInv == M!TypeOK /\ MachineSteps /\ MachineUnit /\ MachineDone /\ MachineAtRest

\* A machine begins without a state.
LEMMA MachineInit == M!Init => MachineInv
BY DEF M!Init, M!InitWith, M!Nothing, MachineInv, M!TypeOK, M!TypesWith, M!MachineCalls, M!LifecycleCalls, M!AtRest,
       MachineSteps, MachineUnit, MachineDone, MachineAtRest

\* A run that ends with an error or is killed notes it, and nothing more is claimed.
LEMMA MachineInterrupted ==
    ASSUME MachineInv, pc' = "idle", UNCHANGED <<config, state, edits>>, troubles' \in 0..MaxTroubles,
           M!Interrupted, host' \in MachineHosts, host'.running \in {host'.image, Absent}
    PROVE  MachineInv'
<1>1. excuses' \subseteq M!Excuses /\ (IF state = None THEN "unrecorded" ELSE "failed") \in excuses'
  <2>1. excuses' = excuses \cup {IF state = None THEN "unrecorded" ELSE "failed"}
    BY DEF M!Interrupted, M!Excuse
  <2>2. excuses \subseteq M!Excuses
    BY DEF MachineInv, M!TypeOK, M!TypesWith
  <2> QED
    BY <2>1, <2>2 DEF M!Excuses
<1>2. M!TypeOK'
  BY <1>1 DEF MachineInv, M!TypeOK, M!TypesWith, MachineHosts
<1>3. MachineSteps' /\ MachineUnit' /\ MachineDone' /\ MachineAtRest'
  BY <1>1 DEF MachineSteps, MachineUnit, MachineDone, MachineAtRest
<1> QED
  BY <1>2, <1>3 DEF MachineInv

\* Every step of a machine keeps its invariant.
LEMMA MachineNext == MachineInv /\ M!Next => MachineInv'
<1> SUFFICES ASSUME MachineInv, M!Next PROVE MachineInv'
  OBVIOUS
<1> USE DEF MachineInv, M!TypeOK, M!TypesWith, M!MachineStates, M!MachineCalls, M!LifecycleCalls,
        M!Excuses, M!Flags, Flags, M!AtRest, M!bounds, MachineSteps, MachineUnit, MachineDone, MachineAtRest,
        M!UnitAs, M!Goto, M!Call, M!Trouble, M!TroubleUnless, M!Excuse, M!Error, M!Lifecycle,
        M!AfterEnable, M!Locked
<1>0. host \in MachineHosts
  BY DEF MachineHosts
<1>1. CASE M!StartRun
  BY <1>1 DEF M!StartRun
<1>2. CASE M!Read
  BY <1>2 DEF M!Read, M!ReadFinds
<1>3. CASE M!Plan(M!Changed, M!Replaced, "show", "stop")
  BY <1>3 DEF M!Plan, M!Planned, M!Changed, M!Replaced
<1>4. CASE M!RefuseImage
  BY <1>0, <1>4, MachineInterrupted DEF M!RefuseImage
<1>5. CASE M!ShowImage
  BY <1>5 DEF M!ShowImage
<1>6. CASE M!DropImage
  BY <1>6 DEF M!DropImage
<1>7. CASE M!DropImageIgnored
  BY <1>7 DEF M!DropImageIgnored
<1>8. CASE M!FetchImage
  BY <1>8 DEF M!FetchImage, M!AfterFetch
<1>9. CASE M!FetchImageFails
  <2>1. CASE UNCHANGED host
    BY <1>0, <1>9, <2>1, MachineInterrupted DEF M!FetchImageFails, MachineHosts
  <2>2. CASE host.image = Absent /\ host' = [host EXCEPT !.image = config.image]
    BY <1>0, <1>9, <2>2, MachineInterrupted DEF M!FetchImageFails, MachineHosts
  <2> QED
    BY <1>9, <2>1, <2>2 DEF M!FetchImageFails
<1>10. CASE M!PutSettings
  BY <1>10 DEF M!PutSettings
<1>11. CASE M!DaemonReload
  BY <1>11 DEF M!DaemonReload
<1>12. CASE M!SetEnabled(TRUE)
  <2>1. /\ host' \in MachineHosts /\ host'.enabled = (config.enable = "on")
        /\ host'.image = host.image /\ host'.settings = host.settings /\ host'.running = host.running
    BY <1>0, <1>12 DEF M!SetEnabled, MachineHosts
  <2>2. pc = "enable" /\ pc' = M!AfterEnable /\ UNCHANGED <<config, state, edits, excuses, troubles>>
    BY <1>12 DEF M!SetEnabled
  <2>3. CASE config.active = "unset"
    BY <2>1, <2>2, <2>3 DEF MachineHosts
  <2>4. CASE config.active # "unset"
    BY <2>1, <2>2, <2>4 DEF MachineHosts
  <2> QED
    BY <2>3, <2>4
<1>13. CASE M!StartUnit(host.image)
  BY <1>13 DEF M!StartUnit
<1>14. CASE M!StartUnitFails(host.image)
  <2>1. CASE UNCHANGED host
    BY <1>0, <1>14, <2>1, MachineInterrupted DEF M!StartUnitFails, MachineHosts
  <2>2. CASE host' = [host EXCEPT !.running = IF @ = Absent THEN host.image ELSE @]
    BY <1>0, <1>14, <2>2, MachineInterrupted DEF M!StartUnitFails, MachineHosts
  <2> QED
    BY <1>14, <2>1, <2>2 DEF M!StartUnitFails
<1>15. CASE M!StopUnit
  BY <1>15 DEF M!StopUnit, M!Stopping, M!AfterStop
<1>16. CASE M!Record
  <2> DEFINE new == [image |-> config.image, settings |-> config.settings, enable |-> config.enable,
                     active |-> config.active, delete_image |-> config.delete_image,
                     tainted |-> state = None /\ config.settings = Absent]
  <2>1. /\ pc = "record" /\ pc' = "idle" /\ state' = new /\ excuses' = excuses \ {"failed", "unrecorded"}
        /\ UNCHANGED <<host, config, edits, troubles>>
    BY <1>16 DEF M!Record, M!RecordPut
  <2>2. new \in M!MachineStates
    <3>1. config \in [image : Images, settings : Contents \cup {Absent}, enable : Flags, active : Flags,
                      delete_image : BOOLEAN]
      BY <2>1
    <3> QED
      BY <3>1
  <2>3. /\ state'.image = config.image /\ state'.settings = config.settings /\ state'.enable = config.enable
        /\ state'.active = config.active /\ state' # None
    BY <2>1, <2>2
  <2> HIDE DEF new
  <2>4. M!TypeOK'
    BY <2>1, <2>2
  <2>5. MachineAtRest'
    BY <2>1, <2>3
  <2> QED
    BY <2>1, <2>4, <2>5
<1>17. CASE M!DisableUnit("unset")
  BY <1>17, ZenonT(40) DEF M!DisableUnit
<1>18. CASE M!RemoveSettings
  BY <1>18 DEF M!RemoveSettings
<1>19. CASE M!RemoveImage
  BY <1>19 DEF M!RemoveImage
<1>20. CASE M!RemoveImageFails
  <2>1. CASE UNCHANGED host
    BY <1>0, <1>20, <2>1, MachineInterrupted DEF M!RemoveImageFails, MachineHosts
  <2>2. CASE ~M!Locked /\ host' = [host EXCEPT !.image = Absent]
    BY <1>0, <1>20, <2>2, MachineInterrupted DEF M!RemoveImageFails, MachineHosts
  <2> QED
    BY <1>20, <2>1, <2>2 DEF M!RemoveImageFails
<1>21. CASE M!Forget
  BY <1>21 DEF M!Forget, M!RecordDelete
<1>22. CASE M!ReadLoses
  BY <1>22 DEF M!ReadLoses
<1>23. CASE M!PutSettingsFails
  BY <1>23 DEF M!PutSettingsFails, M!Interrupted
<1>24. CASE M!DaemonReloadFails
  BY <1>0, <1>24, MachineInterrupted DEF M!DaemonReloadFails
<1>25. CASE M!SetEnabledFails(TRUE)
  <2>1. CASE UNCHANGED host
    BY <1>0, <1>25, <2>1, MachineInterrupted DEF M!SetEnabledFails, MachineHosts
  <2>2. CASE host' = [host EXCEPT !.enabled = (config.enable = "on")]
    <3>1. host' \in MachineHosts /\ host'.image = host.image /\ host'.running = host.running
      BY <1>0, <2>2 DEF MachineHosts
    <3> QED
      BY <1>25, <3>1, MachineInterrupted DEF M!SetEnabledFails
  <2> QED
    BY <1>25, <2>1, <2>2 DEF M!SetEnabledFails
<1>26. CASE M!StopUnitIgnored
  BY <1>26 DEF M!StopUnitIgnored, M!Stopping, M!AfterStop
<1>27. CASE M!DisableUnitIgnored("unset", TRUE)
  BY <1>27 DEF M!DisableUnitIgnored
<1>28. CASE M!RemoveSettingsIgnored
  BY <1>28 DEF M!RemoveSettingsIgnored
<1>29. CASE M!Edit(MachineConfigs)
  BY <1>29 DEF M!Edit
<1>30. CASE M!Crash
  <2>1. /\ pc' = "idle" /\ UNCHANGED <<host, config, state, edits>> /\ troubles' \in 0..MaxTroubles
    BY <1>30 DEF M!Crash
  <2>2. CASE M!AtRest /\ UNCHANGED excuses
    BY <2>1, <2>2
  <2>3. CASE M!Interrupted
    BY <1>0, <2>1, <2>3, MachineInterrupted
  <2> QED
    BY <1>30, <2>2, <2>3 DEF M!Crash
<1>31. CASE M!Meddle(M!Others)
  <2>1. UNCHANGED <<config, state, pc, edits>> /\ troubles' \in 0..MaxTroubles
    BY <1>31 DEF M!Meddle
  <2>2. excuses' \subseteq M!Excuses /\ "foreign" \in excuses'
    BY <1>31 DEF M!Meddle
  <2>3. /\ host' \in {[host EXCEPT !.running = Absent], [host EXCEPT !.running = host.image],
                     [host EXCEPT !.enabled = ~@], [host EXCEPT !.settings = Absent], [host EXCEPT !.image = Absent]}
        /\ host'.image = Absent => host'.running = Absent
    BY <1>31 DEF M!Meddle, M!Others
  <2>4. CASE host' \in {[host EXCEPT !.running = Absent], [host EXCEPT !.running = host.image], [host EXCEPT !.enabled = ~@]}
    <3>1. host' \in MachineHosts /\ host'.image = host.image /\ host'.running \in {host'.image, Absent}
      <4>1. CASE host' = [host EXCEPT !.enabled = ~@]
        BY <1>0, <4>1 DEF MachineHosts
      <4>2. CASE host' \in {[host EXCEPT !.running = Absent], [host EXCEPT !.running = host.image]}
        BY <1>0, <4>2 DEF MachineHosts
      <4> QED
        BY <2>4, <4>1, <4>2
    <3> QED
      BY <2>1, <2>2, <3>1 DEF MachineHosts
  <2>5. CASE host' \in {[host EXCEPT !.settings = Absent], [host EXCEPT !.image = Absent]}
    <3>1. /\ host' \in MachineHosts /\ host'.running \in {host'.image, Absent}
          /\ host'.image \in {host.image, Absent}
      BY <1>0, <2>3, <2>5 DEF MachineHosts
    <3> QED
      BY <2>1, <2>2, <3>1 DEF MachineHosts
  <2> QED
    BY <2>3, <2>4, <2>5
<1> QED
  BY <1>1, <1>2, <1>3, <1>4, <1>5, <1>6, <1>7, <1>8, <1>9, <1>10, <1>11, <1>12, <1>13, <1>14, <1>15, <1>16, <1>17,
     <1>18, <1>19, <1>20, <1>21, <1>22, <1>23, <1>24, <1>25, <1>26, <1>27, <1>28, <1>29, <1>30, <1>31
  DEF M!Next, M!Run

\* It holds in every state of a behaviour about a machine.
LEMMA MachineInvariance == Spec => [](kind = "machine" => MachineInv)
<1> DEFINE Inv == kind = "machine" => MachineInv
<1>1. Init => Inv
  BY MachineInit DEF Init
<1>2. Inv /\ [Next]_allVars => Inv'
  <2>1. UNCHANGED allVars /\ MachineInv => MachineInv'
    BY DEF allVars, vars, bounds, MachineInv, M!TypeOK, M!TypesWith, MachineSteps, MachineUnit, MachineDone,
           MachineAtRest, M!AtRest, M!UnitAs
  <2> QED
    BY <2>1, MachineNext DEF Next, allVars
<1> QED
  BY <1>1, <1>2, PTL DEF Spec

\* The machine is what the state says: the image asked for and not the one before it.
THEOREM MachineIsTrue == Spec => []MachineTrue
<1>1. (kind = "machine" => MachineInv) => MachineTrue
  BY DEF MachineTrue, M!StateTrue, MachineInv, MachineAtRest
<1> QED
  BY <1>1, MachineInvariance, PTL

\* A destroyed machine leaves an image, settings or a unit only for a named reason.
THEOREM MachineIsGone == Spec => []MachineNoOrphans
<1>1. (kind = "machine" => MachineInv) => MachineNoOrphans
  <2> SUFFICES ASSUME MachineInv, state = None, pc = "idle", "unrecorded" \notin excuses
               PROVE  /\ host # M!Nothing => excuses # {}
                      /\ host.image # Absent => excuses \cap {"kept", "lost", "foreign"} # {}
    BY DEF MachineNoOrphans, M!NoOrphans
  <2>1. host \in MachineHosts /\ MachineUnit /\ MachineAtRest /\ M!AtRest
    BY DEF MachineInv, M!TypeOK, MachineHosts, M!AtRest
  <2>2. excuses \cap {"kept", "lost", "foreign", "unrecorded"} = {} => host.image = Absent
    BY <2>1 DEF MachineAtRest
  <2>3. excuses = {} => host = M!Nothing
    BY <2>1, <2>2 DEF MachineAtRest, MachineUnit, MachineHosts, M!Nothing
  <2> QED
    BY <2>2, <2>3
<1> QED
  BY <1>1, MachineInvariance, PTL

-----------------------------------------------------------------------------

\* Every variable has its type, whatever the resource.
THEOREM TypesAreCorrect == Spec => []TypeOK
<1> DEFINE Kinds == kind \in {"machine", "portable", "file", "credential", "instance"}
<1>1. Spec => []Kinds
  <2>1. Init => Kinds
    BY DEF Init
  <2>2. Kinds /\ [Next]_allVars => Kinds'
    BY DEF Next, allVars
  <2> QED
    BY <2>1, <2>2, PTL DEF Spec
<1>2. /\ Kinds
      /\ kind = "machine" => MachineInv
      /\ kind = "portable" => PortableInv
      /\ kind = "file" => FileInv
      /\ kind = "credential" => CredentialInv
      /\ kind = "instance" => InstanceInv
      => TypeOK
  BY DEF TypeOK, MachineInv, PortableInv, FileInv, CredentialInv, InstanceInv
<1> QED
  BY <1>1, <1>2, MachineInvariance, PortableInvariance, FileInvariance, CredentialInvariance, InstanceInvariance, PTL
=============================================================================
