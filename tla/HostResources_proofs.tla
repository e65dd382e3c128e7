------------------------ MODULE HostResources_proofs ------------------------
(***************************************************************************)
(* Proofs about the credential, the file and the instance of               *)
(* HostResources, for any configurations and contents and any number of    *)
(* edits and troubles.                                                     *)
(*                                                                         *)
(* The properties speak of a run at rest.  Each invariant adds what an     *)
(* operation has established before its next call, unless an excuse that   *)
(* only a plan clears is already noted.                                    *)
(***************************************************************************)
EXTENDS HostResources, TLAPS

USE ValuesAssumption, ConfigsAssumption, NoneAssumption, BoundsAssumption

-----------------------------------------------------------------------------
(* The credential. *)

\* The one place a copy may be before the next call.
Places ==
    IF pc \in {"write", "record"} THEN {C!File(config)}
    ELSE IF state = None \/ pc = "forget" THEN {} ELSE {C!File(state)}

CredentialSteps ==
    /\ pc \in {"write", "record"} => config # None /\ (state = None \/ C!File(state) = C!File(config))
    /\ pc \in {"read", "unlink", "forget"} => state # None

CredentialPlaced ==
    "unrecorded" \notin excuses => \A f \in {"plain", "encrypted"} : host[f] # Absent => f \in Places

CredentialWritten ==
    /\ pc = "record" /\ "foreign" \notin excuses => host[C!File(config)] = config.data
    /\ state # None /\ C!AtRest /\ excuses = {} => host[C!File(state)] = state.data

CredentialInv == C!TypeOK /\ CredentialSteps /\ CredentialPlaced /\ CredentialWritten

\* A credential begins without a state and without excuses to answer for.
LEMMA CredentialInit == C!Init => CredentialInv
BY DEF C!Init, C!InitWith, C!Nothing, CredentialInv, C!TypeOK, C!TypesWith, C!CredentialStates, C!File, C!AtRest,
       CredentialSteps, CredentialPlaced, CredentialWritten, Places

\* Every step of a credential keeps its invariant.
LEMMA CredentialNext == CredentialInv /\ C!Next => CredentialInv'
<1> SUFFICES ASSUME CredentialInv, C!Next PROVE CredentialInv'
  OBVIOUS
<1> USE DEF CredentialInv, C!TypeOK, C!TypesWith, C!CredentialStates, C!Excuses, C!File, C!AtRest, C!bounds,
            CredentialSteps, CredentialPlaced, CredentialWritten, Places,
            C!Goto, C!Call, C!Trouble, C!Excuse, C!Error, C!Interrupted
<1>1. CASE C!StartRun
  BY <1>1 DEF C!StartRun
<1>2. CASE C!Read
  BY <1>2 DEF C!Read, C!ReadFinds
<1>3. CASE C!Plan(C!Changed, C!Replaced, "write", "unlink")
  BY <1>3 DEF C!Plan, C!Planned, C!Changed, C!Replaced
<1>4. CASE C!Write
  BY <1>4 DEF C!Write
<1>5. CASE C!Unlink
  BY <1>5 DEF C!Unlink
<1>6. CASE C!Record
  BY <1>6 DEF C!Record, C!RecordPut
<1>7. CASE C!Forget
  BY <1>7 DEF C!Forget, C!RecordDelete
<1>8. CASE C!ReadFails
  BY <1>8 DEF C!ReadFails
<1>9. CASE C!WriteFails
  <2>1. PICK left \in {host[C!File(config)], config.data, IF config.encrypted THEN Broken ELSE Absent} :
           host' = [host EXCEPT ![C!File(config)] = left]
    BY <1>9 DEF C!WriteFails
  <2>2. pc = "write" /\ pc' = "idle" /\ UNCHANGED <<config, state, edits>> /\ troubles' \in 0..MaxTroubles
    BY <1>9 DEF C!WriteFails
  <2>3. excuses' = excuses \cup {IF state = None THEN "unrecorded" ELSE "failed"}
    BY <1>9 DEF C!WriteFails
  <2>4. host' \in [plain : Secrets \cup {Absent}, encrypted : Secrets \cup {Absent, Broken}]
    BY <2>1, <2>2
  <2>5. CredentialPlaced'
    BY <2>1, <2>2, <2>3
  <2> QED
    BY <2>2, <2>3, <2>4, <2>5
<1>10. CASE C!UnlinkFails
  BY <1>10 DEF C!UnlinkFails
<1>11. CASE C!Edit(CredentialConfigs)
  BY <1>11 DEF C!Edit
<1>12. CASE C!Crash
  BY <1>12 DEF C!Crash
<1>13. CASE C!Meddle(C!Others)
  BY <1>13 DEF C!Meddle, C!Others
<1> QED
  BY <1>1, <1>2, <1>3, <1>4, <1>5, <1>6, <1>7, <1>8, <1>9, <1>10, <1>11, <1>12, <1>13 DEF C!Next, C!Run

\* It holds in every state of a behaviour about a credential.
LEMMA CredentialInvariance == Spec => [](kind = "credential" => CredentialInv)
<1> DEFINE Inv == kind = "credential" => CredentialInv
<1>1. Init => Inv
  BY CredentialInit DEF Init
<1>2. Inv /\ [Next]_allVars => Inv'
  <2>1. UNCHANGED allVars /\ CredentialInv => CredentialInv'
    BY DEF allVars, vars, bounds, CredentialInv, C!TypeOK, C!TypesWith, C!CredentialStates, CredentialSteps,
           CredentialPlaced, CredentialWritten, Places, C!AtRest, C!File
  <2> QED
    BY <2>1, CredentialNext DEF Next, allVars
<1> QED
  BY <1>1, <1>2, PTL DEF Spec

\* The state's secret is on the host, at the path of its kind and nowhere else, after
\* every history without failures and interference.
THEOREM CredentialIsTrue == Spec => []CredentialTrue
<1>1. (kind = "credential" => CredentialInv) => CredentialTrue
  BY DEF CredentialTrue, C!StateTrue, C!AtRest, C!Nothing, C!File, CredentialInv, CredentialSteps, CredentialPlaced,
         CredentialWritten, Places, C!TypeOK, C!TypesWith, C!CredentialStates
<1> QED
  BY <1>1, CredentialInvariance, PTL

\* Whatever fails, crashes and is edited while encrypted changes, no copy stays at the
\* old path, but for a create that failed.
THEOREM OneCredential == Spec => []CredentialOneCopy
<1>1. (kind = "credential" => CredentialInv) => CredentialOneCopy
  BY DEF CredentialOneCopy, C!OneCopy, C!AtRest, CredentialInv, CredentialPlaced, Places
<1> QED
  BY <1>1, CredentialInvariance, PTL

-----------------------------------------------------------------------------
(* The file. *)

\* What a step of an operation has done, unless somebody else wrote the file since.
FileDone ==
    "foreign" \notin excuses =>
        /\ pc \in {"reload", "record"} => host.file = config.body
        /\ pc \in {"unload", "forget"} => host.file = Absent
        /\ pc \in {"record", "forget"} => host.loaded = host.file

FileSteps ==
    /\ pc \in {"write", "reload", "record"} => config # None
    /\ pc \in {"read", "unlink", "unload", "forget"} => state # None

FileAtRest ==
    F!AtRest /\ excuses = {} =>
        /\ state # None => host.file = state.body /\ host.loaded = state.body
        /\ state = None => host.file = Absent /\ host.loaded = Absent

FileInv == F!TypeOK /\ FileSteps /\ FileDone /\ FileAtRest

\* A file begins without a state.
LEMMA FileInit == F!Init => FileInv
BY DEF F!Init, F!InitWith, F!Nothing, F!Daemons, FileInv, F!TypeOK, F!TypesWith, F!FileCalls, F!AtRest,
       FileSteps, FileDone, FileAtRest

\* What a file may be configured as.
LEMMA FileConfigured == ASSUME NEW c \in FileConfigs PROVE c.form \in {"raw", "typed"} /\ c.body \in Bodies
<1> DEFINE s == [form |-> c.form, body |-> c.body, content |-> c.body]
<1>1. s \in F!FileStates
  OBVIOUS
<1>2. s.form \in {"raw", "typed"} /\ s.body \in Bodies
  BY <1>1 DEF F!FileStates
<1> QED
  BY <1>2

\* Every step of a file keeps its invariant.
LEMMA FileNext == FileInv /\ F!Next => FileInv'
<1> SUFFICES ASSUME FileInv, F!Next PROVE FileInv'
  OBVIOUS
<1> USE FileConfigured
    DEF FileInv, F!TypeOK, F!TypesWith, F!FileStates, F!FileCalls, F!Excuses, F!AtRest, F!bounds,
        FileSteps, FileDone, FileAtRest, F!Goto, F!Call, F!Trouble, F!Excuse, F!Error, F!Interrupted
<1>1. CASE F!StartRun
  BY <1>1 DEF F!StartRun
<1>2. CASE F!Read
  BY <1>2 DEF F!Read, F!ReadFinds
<1>3. CASE F!Plan(F!Changed, FALSE, "write", "unlink")
  BY <1>3 DEF F!Plan, F!Planned, F!Changed
<1>4. CASE F!Write
  BY <1>4 DEF F!Write
<1>5. CASE F!Unlink
  BY <1>5 DEF F!Unlink
<1>6. CASE F!Reload
  BY <1>6 DEF F!Reload, F!Reloading
<1>7. CASE F!Record
  BY <1>7 DEF F!Record, F!RecordPut
<1>8. CASE F!Forget
  BY <1>8 DEF F!Forget, F!RecordDelete
<1>9. CASE F!Import
  BY <1>9 DEF F!Import
<1>10. CASE F!ReadLoses
  BY <1>10 DEF F!ReadLoses
<1>11. CASE F!WriteFails
  <2>1. PICK b \in {host.file, config.body, Absent} : host' = [host EXCEPT !.file = b]
    BY <1>11 DEF F!WriteFails
  <2>2. pc = "write" /\ pc' = "idle" /\ UNCHANGED <<config, state, edits>> /\ troubles' \in 0..MaxTroubles
    BY <1>11 DEF F!WriteFails
  <2>3. excuses' = excuses \cup {IF state = None THEN "unrecorded" ELSE "failed"}
    BY <1>11 DEF F!WriteFails
  <2>4. host' \in [daemon : F!Daemons, file : Bodies \cup {Absent}, loaded : Bodies \cup {Absent, Down}]
    BY <2>1, <2>2
  <2> QED
    BY <2>2, <2>3, <2>4
<1>12. CASE F!UnlinkFails
  BY <1>12 DEF F!UnlinkFails
<1>13. CASE F!ReloadFails
  BY <1>13 DEF F!ReloadFails, F!Reloading
<1>14. CASE F!OtherReload
  BY <1>14 DEF F!OtherReload
<1>15. CASE F!Edit(FileConfigs)
  BY <1>15 DEF F!Edit
<1>16. CASE F!Crash
  BY <1>16 DEF F!Crash
<1>17. CASE F!Meddle(F!Others)
  BY <1>17 DEF F!Meddle, F!Others
<1> QED
  BY <1>1, <1>2, <1>3, <1>4, <1>5, <1>6, <1>7, <1>8, <1>9, <1>10, <1>11, <1>12, <1>13, <1>14, <1>15, <1>16, <1>17
  DEF F!Next, F!Run

\* It holds in every state of a behaviour about a file.
LEMMA FileInvariance == Spec => [](kind = "file" => FileInv)
<1> DEFINE Inv == kind = "file" => FileInv
<1>1. Init => Inv
  BY FileInit DEF Init
<1>2. Inv /\ [Next]_allVars => Inv'
  <2>1. UNCHANGED allVars /\ FileInv => FileInv'
    BY DEF allVars, vars, bounds, FileInv, F!TypeOK, F!TypesWith, FileSteps, FileDone, FileAtRest, F!AtRest
  <2> QED
    BY <2>1, FileNext DEF Next, allVars
<1> QED
  BY <1>1, <1>2, PTL DEF Spec

\* The file is what was asked for and its daemon runs with it; a destroyed one is gone
\* from the disk and from the daemon.
THEOREM FileIsTrue == Spec => []FileTrue
<1>1. (kind = "file" => FileInv) => FileTrue
  BY DEF FileTrue, F!StateTrue, FileInv, FileAtRest
<1> QED
  BY <1>1, FileInvariance, PTL

-----------------------------------------------------------------------------
(* The instance. *)

\* What the calls of an operation have done, unless an error was dropped or somebody
\* else changed the instance since.
InstanceDone ==
    excuses \cap {"ignored", "foreign"} = {} =>
        /\ pc \in {"activate", "record"} /\ config.enable # "unset" => host.enabled = (config.enable = "on")
        /\ pc = "record" => I!UnitAs(config, Templates)
        /\ pc \in {"disable", "forget"} => host.running = Absent
        /\ pc = "forget" => ~host.enabled

InstanceSteps ==
    /\ pc \in {"enable", "activate", "record"} => config # None
    /\ pc = "activate" => config.active # "unset"
    /\ pc \in {"read", "stop", "disable", "forget"} => state # None

InstanceAtRest ==
    I!AtRest /\ excuses = {} =>
        /\ state # None => I!UnitAs(state, Templates)
        /\ state = None => ~host.enabled /\ host.running = Absent

InstanceInv == I!TypeOK /\ InstanceSteps /\ InstanceDone /\ InstanceAtRest

\* An instance begins without a state.
LEMMA InstanceInit == I!Init => InstanceInv
BY DEF I!Init, I!InitWith, I!NothingOf, InstanceInv, I!TypeOK, I!TypesWith, I!LifecycleCalls, I!AtRest,
       InstanceSteps, InstanceDone, InstanceAtRest

\* Every step of an instance keeps its invariant.
LEMMA InstanceNext == InstanceInv /\ I!Next => InstanceInv'
<1> SUFFICES ASSUME InstanceInv, I!Next PROVE InstanceInv'
  OBVIOUS
<1> USE DEF InstanceInv, I!TypeOK, I!TypesWith, I!InstanceStates, I!LifecycleCalls, I!Excuses, I!Flags, I!AtRest, I!bounds,
        InstanceSteps, InstanceDone, InstanceAtRest, I!UnitAs, I!Goto, I!Call, I!Trouble, I!TroubleUnless, I!Excuse,
        I!Error, I!Interrupted, I!Known, I!Lifecycle, I!AfterEnable
<1>1. CASE I!StartRun
  BY <1>1 DEF I!StartRun
<1>2. CASE I!Read
  BY <1>2 DEF I!Read, I!ReadFinds
<1>3. CASE I!ReadWithoutTemplate
  BY <1>3 DEF I!ReadWithoutTemplate
<1>4. CASE I!Plan(I!Changed, FALSE, I!Lifecycle, "stop")
  BY <1>4 DEF I!Plan, I!Planned, I!Changed
<1>5. CASE I!SetEnabled(I!Known)
  BY <1>5 DEF I!SetEnabled
<1>6. CASE I!SetEnabledFails(I!Known)
  <2>1. host' \in {host, [host EXCEPT !.enabled = (config.enable = "on")]}
    BY <1>6 DEF I!SetEnabledFails
  <2>2. pc = "enable" /\ pc' = "idle" /\ UNCHANGED <<config, state, edits>> /\ troubles' \in 0..MaxTroubles
    BY <1>6 DEF I!SetEnabledFails
  <2>3. excuses' = excuses \cup {IF state = None THEN "unrecorded" ELSE "failed"}
    BY <1>6 DEF I!SetEnabledFails
  <2>4. host' \in [template : Templates \cup {Absent}, enabled : BOOLEAN, running : Templates \cup {Absent}]
    BY <2>1
  <2> QED
    BY <2>2, <2>3, <2>4
<1>7. CASE I!StartUnit(host.template)
  BY <1>7 DEF I!StartUnit
<1>8. CASE I!StartUnitFails(host.template)
  BY <1>8 DEF I!StartUnitFails
<1>9. CASE I!StopUnit
  BY <1>9 DEF I!StopUnit, I!Stopping, I!AfterStop
<1>10. CASE I!DisableUnit("forget")
  BY <1>10 DEF I!DisableUnit
<1>11. CASE I!DisableUnitIgnored("forget", I!Known)
  BY <1>11 DEF I!DisableUnitIgnored
<1>12. CASE I!Record
  BY <1>12 DEF I!Record, I!RecordPut
<1>13. CASE I!Forget
  BY <1>13 DEF I!Forget, I!RecordDelete
<1>14. CASE I!Import
  BY <1>14 DEF I!Import
<1>15. CASE I!ReadFails
  BY <1>15 DEF I!ReadFails
<1>16. CASE I!StopUnitIgnored
  BY <1>16 DEF I!StopUnitIgnored, I!Stopping, I!AfterStop
<1>17. CASE I!Edit(InstanceConfigs)
  BY <1>17 DEF I!Edit
<1>18. CASE I!Crash
  <2>1. pc' = "idle" /\ UNCHANGED <<host, config, state, edits>> /\ troubles' \in 0..MaxTroubles
    BY <1>18 DEF I!Crash
  <2>2. CASE I!AtRest
    BY <1>18, <2>1, <2>2 DEF I!Crash
  <2>3. CASE ~I!AtRest
    <3>1. excuses' = excuses \cup {IF state = None THEN "unrecorded" ELSE "failed"}
      BY <1>18, <2>3 DEF I!Crash
    <3> QED
      BY <2>1, <3>1
  <2> QED
    BY <2>2, <2>3
<1>19. CASE I!Meddle(I!Others)
  <2>1. UNCHANGED <<config, state, pc, edits>> /\ troubles' \in 0..MaxTroubles
    BY <1>19 DEF I!Meddle
  <2>2. excuses' \subseteq I!Excuses /\ "foreign" \in excuses'
    BY <1>19 DEF I!Meddle
  <2>3. host' \in [template : Templates \cup {Absent}, enabled : BOOLEAN, running : Templates \cup {Absent}]
    <3>1. \/ host' \in {[host EXCEPT !.running = Absent], [host EXCEPT !.running = host.template],
                         [host EXCEPT !.enabled = FALSE]}
          \/ \E t \in Templates \cup {Absent} : host' = [host EXCEPT !.template = t]
      BY <1>19 DEF I!Meddle, I!Others
    <3> QED
      BY <3>1
  <2>4. I!TypeOK'
    BY <2>1, <2>2, <2>3
  <2> QED
    BY <2>1, <2>2, <2>4
<1> QED
  BY <1>1, <1>2, <1>3, <1>4, <1>5, <1>6, <1>7, <1>8, <1>9, <1>10, <1>11, <1>12, <1>13, <1>14, <1>15, <1>16, <1>17,
     <1>18, <1>19
  DEF I!Next, I!Run

\* It holds in every state of a behaviour about an instance.
LEMMA InstanceInvariance == Spec => [](kind = "instance" => InstanceInv)
<1> DEFINE Inv == kind = "instance" => InstanceInv
<1>1. Init => Inv
  BY InstanceInit DEF Init
<1>2. Inv /\ [Next]_allVars => Inv'
  <2>1. UNCHANGED allVars /\ InstanceInv => InstanceInv'
    BY DEF allVars, vars, bounds, InstanceInv, I!TypeOK, I!TypesWith, InstanceSteps, InstanceDone, InstanceAtRest,
           I!AtRest, I!UnitAs
  <2> QED
    BY <2>1, InstanceNext DEF Next, allVars
<1> QED
  BY <1>1, <1>2, PTL DEF Spec

\* The instance is enabled and runs as asked; a destroyed one is stopped and disabled.
THEOREM InstanceIsTrue == Spec => []InstanceTrue
<1>1. (kind = "instance" => InstanceInv) => InstanceTrue
  BY DEF InstanceTrue, I!StateTrue, InstanceInv, InstanceAtRest
<1> QED
  BY <1>1, InstanceInvariance, PTL
=============================================================================
