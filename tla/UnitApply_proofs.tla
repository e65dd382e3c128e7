--------------------------- MODULE UnitApply_proofs ---------------------------
(***************************************************************************)
(* Proofs about UnitApply, for any number of units, drop-ins, instances,   *)
(* contents and operations.                                                *)
(*                                                                         *)
(* The properties speak of finished operations and are not inductive.      *)
(* Local(r) says what the operation of r has established when it reaches   *)
(* each of its calls; every property follows from it.  It speaks of r only,*)
(* so the proof has two halves: another resource's step leaves it true     *)
(* (Others, Stable: all it can do to r is make the manager read r's file), *)
(* and so does each step of r itself (Own).  Progress(r) is the part that  *)
(* needs no history; the proofs about ManagedFiles use it too.             *)
(***************************************************************************)
EXTENDS UnitApply, TLAPS

PutSteps    == {"read", "write", "verify", "rollback", "enable", "activate"}
DeleteSteps == {"stop", "disable", "remove"}

Reported == {"error", "rejected", "rollback_failed", "killed"}

Removing(r) == pc[r] = "remove" \/ (pc[r] = "reload" /\ goal[r].op = "delete")

\* Which calls each kind of resource makes, for which operation.
StepsOf(r) ==
    /\ pc[r] \in PutSteps => goal[r].op = "put"
    /\ pc[r] \in DeleteSteps => goal[r].op = "delete"
    /\ InFlight(r) => outcome[r] = "none"
    /\ pc[r] = "idle" => outcome[r] = "none"
    /\ goal[r].op = "delete" => goal[r] = DeleteGoal
    /\ pc[r] = "enable" => goal[r].enable # "unset"
    /\ pc[r] = "activate" => goal[r].active # "unset"
    /\ r \in Dropins =>
        /\ pc[r] \in {"idle", "write", "reload", "remove", "done"}
        /\ goal[r].enable = "unset" /\ goal[r].active = "unset"
    /\ r \in Instances =>
        /\ pc[r] \in {"idle", "enable", "activate", "stop", "disable", "done"}
        /\ goal[r].content = Absent

\* What the operation has done to its file, and the manager, before each call.
FileOf(f) ==
    /\ pc[f] \in {"verify", "rollback", "reload"} => file[f] = goal[f].content
    /\ pc[f] \in {"enable", "activate"} \/ Succeeded(f, "put") \/ Succeeded(f, "delete") =>
         file[f] = goal[f].content /\ loaded[f] = goal[f].content
    /\ loaded[f] # file[f] => InFlight(f) \/ outcome[f] \in Reported

\* What it has done to the service before each call.
ServiceOf(s) ==
    /\ pc[s] = "activate" \/ Succeeded(s, "put") =>
         (goal[s].enable # "unset" => enabled[s] = (goal[s].enable = "on"))
    /\ Succeeded(s, "put") =>
        /\ goal[s].active = "on" => running[s] # Absent
        /\ goal[s].active = "off" => running[s] = Absent \/ "stop" \in ignored[s]
    /\ pc[s] = "disable" \/ Removing(s) \/ Succeeded(s, "delete") =>
         (running[s] # Absent => "stop" \in ignored[s])
    /\ Removing(s) \/ Succeeded(s, "delete") => (enabled[s] => "disable" \in ignored[s])

\* What a put needs to roll back, and what a rolled back put left alone.
RollbackOf(u) ==
    /\ pc[u] \in {"read", "write", "verify", "rollback"} \/ (pc[u] = "done" /\ outcome[u] = "rejected") =>
         enabled[u] = before[u].enabled /\ running[u] = before[u].running
    /\ pc[u] = "read" => file[u] = before[u].file
    /\ pc[u] \in {"write", "verify", "rollback"} /\ mode # "off" /\ "read" \notin ignored[u] =>
         prev[u] = before[u].file
    /\ pc[u] = "rollback" => mode = "error"
    /\ pc[u] = "done" /\ outcome[u] = "rejected" /\ "read" \notin ignored[u] =>
         file[u] = before[u].file

\* A put past verification put a verified content in place, and only that runs.
VerifiedOf(u) ==
    mode = "error" /\ analyzer =>
        /\ pc[u] \in {"enable", "activate"} \/ (pc[u] = "reload" /\ goal[u].op = "put") =>
             goal[u].content \notin Rejects
        /\ running[u] \notin Rejects

\* What the operation of r has established so far, whatever came before it.
Progress(r) ==
    /\ StepsOf(r)
    /\ r \in Files => FileOf(r)
    /\ r \in Services => ServiceOf(r)

Local(r) ==
    /\ Progress(r)
    /\ r \in Units => RollbackOf(r) /\ VerifiedOf(r)

LocalInv == \A r \in Resources : Local(r)

IInv == TypeOK /\ LocalInv

-----------------------------------------------------------------------------

USE KindsAssumption, ContentsAssumption, ConfigsAssumption, MaxOpsAssumption
  DEF FileState, Modes, Flags, Steps, Outcomes, Goals, Ignorable, Files, Services, Resources,
      host, call, vars, InFlight, Goto, Finish, Activate, Lifecycle, FirstPutStep, FirstDeleteStep,
      Begin, Remember, DeleteGoal, Origin, StartConfig, Started, MayReload, PutSteps, DeleteSteps, Reported,
      Removing, Succeeded

\* Every step keeps the types, on its own.
LEMMA Typing == TypeOK /\ [Next]_vars => TypeOK'
<1> SUFFICES ASSUME TypeOK, [Next]_vars PROVE TypeOK'
  OBVIOUS
<1> USE DEF TypeOK
<1>1. ASSUME NEW r \in Resources, BeginPut(r) PROVE TypeOK'
  BY <1>1 DEF BeginPut
<1>2. ASSUME NEW r \in Resources, BeginDelete(r) PROVE TypeOK'
  BY <1>2 DEF BeginDelete
<1>3. ASSUME NEW r \in Units, ReadUnit(r) PROVE TypeOK'
  BY <1>3 DEF ReadUnit
<1>4. ASSUME NEW r \in Units, ReadUnitFails(r) PROVE TypeOK'
  BY <1>4 DEF ReadUnitFails
<1>5. ASSUME NEW r \in Files, WriteFile(r) PROVE TypeOK'
  BY <1>5 DEF WriteFile, AfterWrite
<1>6. ASSUME NEW r \in Files, WriteFileFails(r) PROVE TypeOK'
  BY <1>6 DEF WriteFileFails
<1>7. ASSUME NEW r \in Units, VerifyPasses(r) PROVE TypeOK'
  BY <1>7 DEF VerifyPasses
<1>8. ASSUME NEW r \in Units, VerifyFails(r) PROVE TypeOK'
  BY <1>8 DEF VerifyFails, AfterReject
<1>9. ASSUME NEW r \in Units, RollbackUnit(r) PROVE TypeOK'
  BY <1>9 DEF RollbackUnit
<1>10. ASSUME NEW r \in Units, RollbackUnitFails(r) PROVE TypeOK'
  BY <1>10 DEF RollbackUnitFails
<1>11. ASSUME NEW r \in Files, DaemonReload(r) PROVE TypeOK'
  BY <1>11, ZenonT(40) DEF DaemonReload, AfterReload
<1>12. ASSUME NEW r \in Files, DaemonReloadFails(r) PROVE TypeOK'
  BY <1>12 DEF DaemonReloadFails
<1>13. ASSUME NEW r \in Services, SetEnabled(r) PROVE TypeOK'
  BY <1>13, ZenonT(40) DEF SetEnabled
<1>14. ASSUME NEW r \in Services, SetEnabledFails(r) PROVE TypeOK'
  BY <1>14 DEF SetEnabledFails
<1>15. ASSUME NEW r \in Services, StartUnit(r) PROVE TypeOK'
  BY <1>15 DEF StartUnit, ReadOnStart
<1>16. ASSUME NEW r \in Services, StartUnitFails(r) PROVE TypeOK'
  BY <1>16 DEF StartUnitFails, ReadOnStart
<1>17. ASSUME NEW r \in Services, StopUnit(r) PROVE TypeOK'
  BY <1>17, ZenonT(40) DEF StopUnit, AfterStop, Stopping
<1>18. ASSUME NEW r \in Services, StopUnitFails(r) PROVE TypeOK'
  BY <1>18, ZenonT(40) DEF StopUnitFails, AfterStop, Stopping
<1>19. ASSUME NEW r \in Services, DisableUnit(r) PROVE TypeOK'
  BY <1>19, ZenonT(40) DEF DisableUnit, AfterDisable
<1>20. ASSUME NEW r \in Services, DisableUnitFails(r) PROVE TypeOK'
  BY <1>20, ZenonT(40) DEF DisableUnitFails, AfterDisable
<1>21. ASSUME NEW r \in Files, RemoveFile(r) PROVE TypeOK'
  BY <1>21 DEF RemoveFile
<1>22. ASSUME NEW r \in Files, RemoveFileFails(r) PROVE TypeOK'
  BY <1>22 DEF RemoveFileFails
<1>23. ASSUME Kill PROVE TypeOK'
  BY <1>23 DEF Kill
<1>24. CASE UNCHANGED vars
  BY <1>24
<1> QED
  BY <1>1, <1>2, <1>3, <1>4, <1>5, <1>6, <1>7, <1>8, <1>9, <1>10, <1>11, <1>12, <1>13, <1>14, <1>15, <1>16, <1>17, <1>18, <1>19, <1>20, <1>21, <1>22, <1>23, <1>24 DEF Next, UnitStep, FileStep, ServiceStep

\* What a step of another resource can do to r: nothing, or a reload of its file.
Undisturbed(r) ==
    /\ pc'[r] = pc[r] /\ outcome'[r] = outcome[r] /\ goal'[r] = goal[r]
    /\ r \in Files => file'[r] = file[r] /\ (loaded'[r] = loaded[r] \/ loaded'[r] = file[r])
    /\ r \in Services => enabled'[r] = enabled[r] /\ running'[r] = running[r] /\ ignored'[r] = ignored[r]
    /\ r \in Units => prev'[r] = prev[r] /\ before'[r] = before[r]

ResourceStep(r) ==
    \/ BeginPut(r) \/ BeginDelete(r)
    \/ r \in Units /\ UnitStep(r)
    \/ r \in Files /\ FileStep(r)
    \/ r \in Services /\ ServiceStep(r)

\* A step of one resource disturbs no other: it can only make the manager read the
\* other's file.
LEMMA Others ==
    ASSUME TypeOK, NEW r \in Resources, ResourceStep(r), NEW q \in Resources \ {r}
    PROVE  Undisturbed(q) /\ UNCHANGED <<mode, analyzer>>
<1> USE DEF TypeOK, Undisturbed
<1>1. CASE BeginPut(r) \/ BeginDelete(r)
  BY <1>1 DEF BeginPut, BeginDelete
<1>2. CASE r \in Units /\ UnitStep(r)
  <2>1. CASE ReadUnit(r)
    BY <1>2, <2>1 DEF ReadUnit
  <2>2. CASE ReadUnitFails(r)
    BY <1>2, <2>2 DEF ReadUnitFails
  <2>3. CASE VerifyPasses(r)
    BY <1>2, <2>3 DEF VerifyPasses
  <2>4. CASE VerifyFails(r)
    BY <1>2, <2>4 DEF VerifyFails, AfterReject
  <2>5. CASE RollbackUnit(r)
    BY <1>2, <2>5 DEF RollbackUnit
  <2>6. CASE RollbackUnitFails(r)
    BY <1>2, <2>6 DEF RollbackUnitFails
  <2> QED
    BY <1>2, <2>1, <2>2, <2>3, <2>4, <2>5, <2>6 DEF UnitStep
<1>3. CASE r \in Files /\ FileStep(r)
  <2>1. CASE WriteFile(r)
    BY <1>3, <2>1 DEF WriteFile, AfterWrite
  <2>2. CASE WriteFileFails(r)
    BY <1>3, <2>2 DEF WriteFileFails
  <2>3. CASE DaemonReload(r)
    BY <1>3, <2>3 DEF DaemonReload, AfterReload
  <2>4. CASE DaemonReloadFails(r)
    BY <1>3, <2>4 DEF DaemonReloadFails
  <2>5. CASE RemoveFile(r)
    BY <1>3, <2>5 DEF RemoveFile
  <2>6. CASE RemoveFileFails(r)
    BY <1>3, <2>6 DEF RemoveFileFails
  <2> QED
    BY <1>3, <2>1, <2>2, <2>3, <2>4, <2>5, <2>6 DEF FileStep
<1>4. CASE r \in Services /\ ServiceStep(r)
  <2>1. CASE SetEnabled(r)
    BY <1>4, <2>1 DEF SetEnabled
  <2>2. CASE SetEnabledFails(r)
    BY <1>4, <2>2 DEF SetEnabledFails
  <2>3. CASE StartUnit(r)
    BY <1>4, <2>3 DEF StartUnit, ReadOnStart
  <2>4. CASE StartUnitFails(r)
    BY <1>4, <2>4 DEF StartUnitFails, ReadOnStart
  <2>5. CASE StopUnit(r)
    BY <1>4, <2>5 DEF StopUnit, AfterStop, Stopping
  <2>6. CASE StopUnitFails(r)
    BY <1>4, <2>6 DEF StopUnitFails, AfterStop, Stopping
  <2>7. CASE DisableUnit(r)
    BY <1>4, <2>7 DEF DisableUnit, AfterDisable
  <2>8. CASE DisableUnitFails(r)
    BY <1>4, <2>8 DEF DisableUnitFails, AfterDisable
  <2> QED
    BY <1>4, <2>1, <2>2, <2>3, <2>4, <2>5, <2>6, <2>7, <2>8 DEF ServiceStep
<1> QED
  BY <1>1, <1>2, <1>3, <1>4 DEF ResourceStep

\* What an operation has established survives being so disturbed.
LEMMA ProgressStable ==
    ASSUME TypeOK, NEW r \in Resources, Progress(r), Undisturbed(r)
    PROVE  Progress(r)'
<1> USE DEF TypeOK, Progress, Undisturbed
<1>1. StepsOf(r)'
  BY DEF StepsOf
<1>2. ASSUME r \in Files PROVE FileOf(r)'
  BY <1>2 DEF FileOf
<1>3. ASSUME r \in Services PROVE ServiceOf(r)'
  BY <1>3 DEF ServiceOf
<1> QED
  BY <1>1, <1>2, <1>3

\* And so does what a unit needs to roll back.
LEMMA Stable ==
    ASSUME TypeOK, NEW r \in Resources, Local(r), Undisturbed(r), UNCHANGED <<mode, analyzer>>
    PROVE  Local(r)'
<1>1. Progress(r)'
  BY ProgressStable DEF Local
<1>2. ASSUME r \in Units PROVE RollbackOf(r)' /\ VerifiedOf(r)'
  BY <1>2 DEF TypeOK, Local, Undisturbed, RollbackOf, VerifiedOf
<1> QED
  BY <1>1, <1>2 DEF Local

\* And each step of the operation itself establishes what the next call needs.
LEMMA OwnProgress ==
    ASSUME TypeOK, NEW r \in Resources, Progress(r), ResourceStep(r)
    PROVE  Progress(r)'
<1> USE DEF TypeOK, Progress
<1>1. CASE BeginPut(r)
  <2>1. StepsOf(r)'
    BY <1>1 DEF BeginPut, StepsOf
  <2>2. ASSUME r \in Files PROVE FileOf(r)'
    BY <1>1, <2>2 DEF BeginPut, StepsOf, FileOf
  <2>3. ASSUME r \in Services PROVE ServiceOf(r)'
    BY <1>1, <2>3 DEF BeginPut, StepsOf, ServiceOf
  <2> QED
    BY <1>1, <2>1, <2>2, <2>3
<1>2. CASE BeginDelete(r)
  <2>1. StepsOf(r)'
    BY <1>2 DEF BeginDelete, StepsOf
  <2>2. ASSUME r \in Files PROVE FileOf(r)'
    BY <1>2, <2>2 DEF BeginDelete, StepsOf, FileOf
  <2>3. ASSUME r \in Services PROVE ServiceOf(r)'
    BY <1>2, <2>3 DEF BeginDelete, StepsOf, ServiceOf
  <2> QED
    BY <1>2, <2>1, <2>2, <2>3
<1>3. CASE r \in Units /\ ReadUnit(r)
  <2>1. StepsOf(r)'
    BY <1>3 DEF ReadUnit, StepsOf
  <2>2. FileOf(r)'
    BY <1>3 DEF ReadUnit, StepsOf, FileOf
  <2>3. ServiceOf(r)'
    BY <1>3 DEF ReadUnit, StepsOf, ServiceOf
  <2> QED
    BY <1>3, <2>1, <2>2, <2>3
<1>4. CASE r \in Units /\ ReadUnitFails(r)
  <2>1. StepsOf(r)'
    BY <1>4 DEF ReadUnitFails, StepsOf
  <2>2. FileOf(r)'
    BY <1>4 DEF ReadUnitFails, StepsOf, FileOf
  <2>3. ServiceOf(r)'
    BY <1>4 DEF ReadUnitFails, StepsOf, ServiceOf
  <2> QED
    BY <1>4, <2>1, <2>2, <2>3
<1>5. CASE r \in Units /\ VerifyPasses(r)
  <2>1. StepsOf(r)'
    BY <1>5 DEF VerifyPasses, StepsOf
  <2>2. FileOf(r)'
    BY <1>5 DEF VerifyPasses, StepsOf, FileOf
  <2>3. ServiceOf(r)'
    BY <1>5 DEF VerifyPasses, StepsOf, ServiceOf
  <2> QED
    BY <1>5, <2>1, <2>2, <2>3
<1>6. CASE r \in Units /\ VerifyFails(r)
  <2>1. StepsOf(r)'
    BY <1>6 DEF VerifyFails, AfterReject, StepsOf
  <2>2. FileOf(r)'
    BY <1>6 DEF VerifyFails, AfterReject, StepsOf, FileOf
  <2>3. ServiceOf(r)'
    BY <1>6 DEF VerifyFails, AfterReject, StepsOf, ServiceOf
  <2> QED
    BY <1>6, <2>1, <2>2, <2>3
<1>7. CASE r \in Units /\ RollbackUnit(r)
  <2>1. StepsOf(r)'
    BY <1>7 DEF RollbackUnit, StepsOf
  <2>2. FileOf(r)'
    BY <1>7 DEF RollbackUnit, StepsOf, FileOf
  <2>3. ServiceOf(r)'
    BY <1>7 DEF RollbackUnit, StepsOf, ServiceOf
  <2> QED
    BY <1>7, <2>1, <2>2, <2>3
<1>8. CASE r \in Units /\ RollbackUnitFails(r)
  <2>1. StepsOf(r)'
    BY <1>8 DEF RollbackUnitFails, StepsOf
  <2>2. FileOf(r)'
    BY <1>8 DEF RollbackUnitFails, StepsOf, FileOf
  <2>3. ServiceOf(r)'
    BY <1>8 DEF RollbackUnitFails, StepsOf, ServiceOf
  <2> QED
    BY <1>8, <2>1, <2>2, <2>3
<1>9. CASE r \in Files /\ WriteFile(r)
  <2>1. StepsOf(r)'
    BY <1>9 DEF WriteFile, AfterWrite, StepsOf
  <2>2. FileOf(r)'
    BY <1>9 DEF WriteFile, AfterWrite, StepsOf, FileOf
  <2>3. ASSUME r \in Services PROVE ServiceOf(r)'
    BY <1>9, <2>3 DEF WriteFile, AfterWrite, StepsOf, ServiceOf
  <2> QED
    BY <1>9, <2>1, <2>2, <2>3
<1>10. CASE r \in Files /\ WriteFileFails(r)
  <2>1. StepsOf(r)'
    BY <1>10 DEF WriteFileFails, StepsOf
  <2>2. FileOf(r)'
    BY <1>10 DEF WriteFileFails, StepsOf, FileOf
  <2>3. ASSUME r \in Services PROVE ServiceOf(r)'
    BY <1>10, <2>3 DEF WriteFileFails, StepsOf, ServiceOf
  <2> QED
    BY <1>10, <2>1, <2>2, <2>3
<1>11. CASE r \in Files /\ DaemonReload(r)
  <2>1. StepsOf(r)'
    BY <1>11 DEF DaemonReload, AfterReload, StepsOf
  <2>2. FileOf(r)'
    BY <1>11 DEF DaemonReload, AfterReload, StepsOf, FileOf
  <2>3. ASSUME r \in Services PROVE ServiceOf(r)'
    BY <1>11, <2>3 DEF DaemonReload, AfterReload, StepsOf, ServiceOf
  <2> QED
    BY <1>11, <2>1, <2>2, <2>3
<1>12. CASE r \in Files /\ DaemonReloadFails(r)
  <2>1. StepsOf(r)'
    BY <1>12 DEF DaemonReloadFails, StepsOf
  <2>2. FileOf(r)'
    BY <1>12 DEF DaemonReloadFails, StepsOf, FileOf
  <2>3. ASSUME r \in Services PROVE ServiceOf(r)'
    BY <1>12, <2>3 DEF DaemonReloadFails, StepsOf, ServiceOf
  <2> QED
    BY <1>12, <2>1, <2>2, <2>3
<1>13. CASE r \in Files /\ RemoveFile(r)
  <2>1. StepsOf(r)'
    BY <1>13 DEF RemoveFile, StepsOf
  <2>2. FileOf(r)'
    BY <1>13 DEF RemoveFile, StepsOf, FileOf
  <2>3. ASSUME r \in Services PROVE ServiceOf(r)'
    BY <1>13, <2>3 DEF RemoveFile, StepsOf, ServiceOf
  <2> QED
    BY <1>13, <2>1, <2>2, <2>3
<1>14. CASE r \in Files /\ RemoveFileFails(r)
  <2>1. StepsOf(r)'
    BY <1>14 DEF RemoveFileFails, StepsOf
  <2>2. FileOf(r)'
    BY <1>14 DEF RemoveFileFails, StepsOf, FileOf
  <2>3. ASSUME r \in Services PROVE ServiceOf(r)'
    BY <1>14, <2>3 DEF RemoveFileFails, StepsOf, ServiceOf
  <2> QED
    BY <1>14, <2>1, <2>2, <2>3
<1>15. CASE r \in Services /\ SetEnabled(r)
  <2>1. StepsOf(r)'
    BY <1>15 DEF SetEnabled, StepsOf
  <2>2. ASSUME r \in Files PROVE FileOf(r)'
    BY <1>15, <2>2 DEF SetEnabled, StepsOf, FileOf
  <2>3. ServiceOf(r)'
    BY <1>15 DEF SetEnabled, StepsOf, ServiceOf
  <2> QED
    BY <1>15, <2>1, <2>2, <2>3
<1>16. CASE r \in Services /\ SetEnabledFails(r)
  <2>1. StepsOf(r)'
    BY <1>16 DEF SetEnabledFails, StepsOf
  <2>2. ASSUME r \in Files PROVE FileOf(r)'
    BY <1>16, <2>2 DEF SetEnabledFails, StepsOf, FileOf
  <2>3. ServiceOf(r)'
    BY <1>16 DEF SetEnabledFails, StepsOf, ServiceOf
  <2> QED
    BY <1>16, <2>1, <2>2, <2>3
<1>17. CASE r \in Services /\ StartUnit(r)
  <2>1. StepsOf(r)'
    BY <1>17 DEF StartUnit, ReadOnStart, StepsOf
  <2>2. ASSUME r \in Files PROVE FileOf(r)'
    BY <1>17, <2>2 DEF StartUnit, ReadOnStart, StepsOf, FileOf
  <2>3. ServiceOf(r)'
    BY <1>17 DEF StartUnit, ReadOnStart, StepsOf, ServiceOf
  <2> QED
    BY <1>17, <2>1, <2>2, <2>3
<1>18. CASE r \in Services /\ StartUnitFails(r)
  <2>1. StepsOf(r)'
    BY <1>18 DEF StartUnitFails, ReadOnStart, StepsOf
  <2>2. ASSUME r \in Files PROVE FileOf(r)'
    BY <1>18, <2>2 DEF StartUnitFails, ReadOnStart, StepsOf, FileOf
  <2>3. ServiceOf(r)'
    BY <1>18 DEF StartUnitFails, ReadOnStart, StepsOf, ServiceOf
  <2> QED
    BY <1>18, <2>1, <2>2, <2>3
<1>19. CASE r \in Services /\ StopUnit(r)
  <2>1. StepsOf(r)'
    BY <1>19 DEF StopUnit, AfterStop, Stopping, StepsOf
  <2>2. ASSUME r \in Files PROVE FileOf(r)'
    BY <1>19, <2>2 DEF StopUnit, AfterStop, Stopping, StepsOf, FileOf
  <2>3. ServiceOf(r)'
    BY <1>19 DEF StopUnit, AfterStop, Stopping, StepsOf, ServiceOf
  <2> QED
    BY <1>19, <2>1, <2>2, <2>3
<1>20. CASE r \in Services /\ StopUnitFails(r)
  <2>1. StepsOf(r)'
    BY <1>20 DEF StopUnitFails, AfterStop, Stopping, StepsOf
  <2>2. ASSUME r \in Files PROVE FileOf(r)'
    BY <1>20, <2>2 DEF StopUnitFails, AfterStop, Stopping, StepsOf, FileOf
  <2>3. ServiceOf(r)'
    BY <1>20 DEF StopUnitFails, AfterStop, Stopping, StepsOf, ServiceOf
  <2> QED
    BY <1>20, <2>1, <2>2, <2>3
<1>21. CASE r \in Services /\ DisableUnit(r)
  <2>1. StepsOf(r)'
    BY <1>21 DEF DisableUnit, AfterDisable, StepsOf
  <2>2. ASSUME r \in Files PROVE FileOf(r)'
    BY <1>21, <2>2 DEF DisableUnit, AfterDisable, StepsOf, FileOf
  <2>3. ServiceOf(r)'
    <3>1. ~enabled'[r] /\ running'[r] = running[r] /\ ignored'[r] = ignored[r]
      BY <1>21 DEF DisableUnit, AfterDisable
    <3>2. goal'[r] = goal[r] /\ goal[r].op = "delete" /\ pc[r] = "disable"
      BY <1>21 DEF DisableUnit, AfterDisable, StepsOf
    <3>3. pc'[r] \in {"remove", "done"}
      BY <1>21 DEF DisableUnit, AfterDisable
    <3> QED
      BY <1>21, <3>1, <3>2, <3>3 DEF ServiceOf
  <2> QED
    BY <1>21, <2>1, <2>2, <2>3
<1>22. CASE r \in Services /\ DisableUnitFails(r)
  <2>1. StepsOf(r)'
    BY <1>22 DEF DisableUnitFails, AfterDisable, StepsOf
  <2>2. ASSUME r \in Files PROVE FileOf(r)'
    BY <1>22, <2>2 DEF DisableUnitFails, AfterDisable, StepsOf, FileOf
  <2>3. ServiceOf(r)'
    BY <1>22 DEF DisableUnitFails, AfterDisable, StepsOf, ServiceOf
  <2> QED
    BY <1>22, <2>1, <2>2, <2>3
<1> QED
  BY <1>1, <1>2, <1>3, <1>4, <1>5, <1>6, <1>7, <1>8, <1>9, <1>10, <1>11, <1>12, <1>13, <1>14, <1>15, <1>16, <1>17, <1>18, <1>19, <1>20, <1>21, <1>22 DEF ResourceStep, UnitStep, FileStep, ServiceStep

\* A unit's steps keep what it needs to roll back, and start nothing unverified.
LEMMA Own ==
    ASSUME TypeOK, NEW r \in Resources, Local(r), ResourceStep(r)
    PROVE  Local(r)'
<1> SUFFICES ASSUME r \in Units PROVE RollbackOf(r)' /\ VerifiedOf(r)'
  BY OwnProgress DEF Local
<1> USE DEF TypeOK, Local, Progress
<1>1. CASE BeginPut(r)
  <2>1. RollbackOf(r)'
    BY <1>1 DEF BeginPut, StepsOf, RollbackOf
  <2>2. VerifiedOf(r)'
    BY <1>1 DEF BeginPut, StepsOf, FileOf, VerifiedOf
  <2> QED
    BY <1>1, <2>1, <2>2
<1>2. CASE BeginDelete(r)
  <2>1. RollbackOf(r)'
    BY <1>2 DEF BeginDelete, StepsOf, RollbackOf
  <2>2. VerifiedOf(r)'
    BY <1>2 DEF BeginDelete, StepsOf, FileOf, VerifiedOf
  <2> QED
    BY <1>2, <2>1, <2>2
<1>3. CASE r \in Units /\ ReadUnit(r)
  <2>1. RollbackOf(r)'
    BY <1>3 DEF ReadUnit, StepsOf, RollbackOf
  <2>2. VerifiedOf(r)'
    BY <1>3 DEF ReadUnit, StepsOf, FileOf, VerifiedOf
  <2> QED
    BY <1>3, <2>1, <2>2
<1>4. CASE r \in Units /\ ReadUnitFails(r)
  <2>1. RollbackOf(r)'
    BY <1>4 DEF ReadUnitFails, StepsOf, RollbackOf
  <2>2. VerifiedOf(r)'
    BY <1>4 DEF ReadUnitFails, StepsOf, FileOf, VerifiedOf
  <2> QED
    BY <1>4, <2>1, <2>2
<1>5. CASE r \in Units /\ VerifyPasses(r)
  <2>1. RollbackOf(r)'
    BY <1>5 DEF VerifyPasses, StepsOf, RollbackOf
  <2>2. VerifiedOf(r)'
    BY <1>5 DEF VerifyPasses, StepsOf, FileOf, VerifiedOf
  <2> QED
    BY <1>5, <2>1, <2>2
<1>6. CASE r \in Units /\ VerifyFails(r)
  <2>1. RollbackOf(r)'
    BY <1>6 DEF VerifyFails, AfterReject, StepsOf, RollbackOf
  <2>2. VerifiedOf(r)'
    BY <1>6 DEF VerifyFails, AfterReject, StepsOf, FileOf, VerifiedOf
  <2> QED
    BY <1>6, <2>1, <2>2
<1>7. CASE r \in Units /\ RollbackUnit(r)
  <2>1. RollbackOf(r)'
    BY <1>7 DEF RollbackUnit, StepsOf, RollbackOf
  <2>2. VerifiedOf(r)'
    BY <1>7 DEF RollbackUnit, StepsOf, FileOf, VerifiedOf
  <2> QED
    BY <1>7, <2>1, <2>2
<1>8. CASE r \in Units /\ RollbackUnitFails(r)
  <2>1. RollbackOf(r)'
    BY <1>8 DEF RollbackUnitFails, StepsOf, RollbackOf
  <2>2. VerifiedOf(r)'
    BY <1>8 DEF RollbackUnitFails, StepsOf, FileOf, VerifiedOf
  <2> QED
    BY <1>8, <2>1, <2>2
<1>9. CASE r \in Files /\ WriteFile(r)
  <2>1. RollbackOf(r)'
    BY <1>9 DEF WriteFile, AfterWrite, StepsOf, RollbackOf
  <2>2. VerifiedOf(r)'
    BY <1>9 DEF WriteFile, AfterWrite, StepsOf, FileOf, VerifiedOf
  <2> QED
    BY <1>9, <2>1, <2>2
<1>10. CASE r \in Files /\ WriteFileFails(r)
  <2>1. RollbackOf(r)'
    BY <1>10 DEF WriteFileFails, StepsOf, RollbackOf
  <2>2. VerifiedOf(r)'
    BY <1>10 DEF WriteFileFails, StepsOf, FileOf, VerifiedOf
  <2> QED
    BY <1>10, <2>1, <2>2
<1>11. CASE r \in Files /\ DaemonReload(r)
  <2>1. RollbackOf(r)'
    BY <1>11 DEF DaemonReload, AfterReload, StepsOf, RollbackOf
  <2>2. VerifiedOf(r)'
    BY <1>11 DEF DaemonReload, AfterReload, StepsOf, FileOf, VerifiedOf
  <2> QED
    BY <1>11, <2>1, <2>2
<1>12. CASE r \in Files /\ DaemonReloadFails(r)
  <2>1. RollbackOf(r)'
    BY <1>12 DEF DaemonReloadFails, StepsOf, RollbackOf
  <2>2. VerifiedOf(r)'
    BY <1>12 DEF DaemonReloadFails, StepsOf, FileOf, VerifiedOf
  <2> QED
    BY <1>12, <2>1, <2>2
<1>13. CASE r \in Files /\ RemoveFile(r)
  <2>1. RollbackOf(r)'
    BY <1>13 DEF RemoveFile, StepsOf, RollbackOf
  <2>2. VerifiedOf(r)'
    BY <1>13 DEF RemoveFile, StepsOf, FileOf, VerifiedOf
  <2> QED
    BY <1>13, <2>1, <2>2
<1>14. CASE r \in Files /\ RemoveFileFails(r)
  <2>1. RollbackOf(r)'
    BY <1>14 DEF RemoveFileFails, StepsOf, RollbackOf
  <2>2. VerifiedOf(r)'
    BY <1>14 DEF RemoveFileFails, StepsOf, FileOf, VerifiedOf
  <2> QED
    BY <1>14, <2>1, <2>2
<1>15. CASE r \in Services /\ SetEnabled(r)
  <2>1. RollbackOf(r)'
    BY <1>15 DEF SetEnabled, StepsOf, RollbackOf
  <2>2. VerifiedOf(r)'
    BY <1>15 DEF SetEnabled, StepsOf, FileOf, VerifiedOf
  <2> QED
    BY <1>15, <2>1, <2>2
<1>16. CASE r \in Services /\ SetEnabledFails(r)
  <2>1. RollbackOf(r)'
    BY <1>16 DEF SetEnabledFails, StepsOf, RollbackOf
  <2>2. VerifiedOf(r)'
    BY <1>16 DEF SetEnabledFails, StepsOf, FileOf, VerifiedOf
  <2> QED
    BY <1>16, <2>1, <2>2
<1>17. CASE r \in Services /\ StartUnit(r)
  <2>1. RollbackOf(r)'
    BY <1>17 DEF StartUnit, ReadOnStart, StepsOf, RollbackOf
  <2>2. VerifiedOf(r)'
    BY <1>17 DEF StartUnit, ReadOnStart, StepsOf, FileOf, VerifiedOf
  <2> QED
    BY <1>17, <2>1, <2>2
<1>18. CASE r \in Services /\ StartUnitFails(r)
  <2>1. RollbackOf(r)'
    BY <1>18 DEF StartUnitFails, ReadOnStart, StepsOf, RollbackOf
  <2>2. VerifiedOf(r)'
    BY <1>18 DEF StartUnitFails, ReadOnStart, StepsOf, FileOf, VerifiedOf
  <2> QED
    BY <1>18, <2>1, <2>2
<1>19. CASE r \in Services /\ StopUnit(r)
  <2>1. RollbackOf(r)'
    BY <1>19 DEF StopUnit, AfterStop, Stopping, StepsOf, RollbackOf
  <2>2. VerifiedOf(r)'
    BY <1>19 DEF StopUnit, AfterStop, Stopping, StepsOf, FileOf, VerifiedOf
  <2> QED
    BY <1>19, <2>1, <2>2
<1>20. CASE r \in Services /\ StopUnitFails(r)
  <2>1. RollbackOf(r)'
    BY <1>20 DEF StopUnitFails, AfterStop, Stopping, StepsOf, RollbackOf
  <2>2. VerifiedOf(r)'
    BY <1>20 DEF StopUnitFails, AfterStop, Stopping, StepsOf, FileOf, VerifiedOf
  <2> QED
    BY <1>20, <2>1, <2>2
<1>21. CASE r \in Services /\ DisableUnit(r)
  <2>1. RollbackOf(r)'
    BY <1>21, ZenonT(40) DEF DisableUnit, AfterDisable, StepsOf, RollbackOf
  <2>2. VerifiedOf(r)'
    BY <1>21 DEF DisableUnit, AfterDisable, StepsOf, FileOf, VerifiedOf
  <2> QED
    BY <1>21, <2>1, <2>2
<1>22. CASE r \in Services /\ DisableUnitFails(r)
  <2>1. RollbackOf(r)'
    BY <1>22, ZenonT(40) DEF DisableUnitFails, AfterDisable, StepsOf, RollbackOf
  <2>2. VerifiedOf(r)'
    BY <1>22 DEF DisableUnitFails, AfterDisable, StepsOf, FileOf, VerifiedOf
  <2> QED
    BY <1>22, <2>1, <2>2
<1> QED
  BY <1>1, <1>2, <1>3, <1>4, <1>5, <1>6, <1>7, <1>8, <1>9, <1>10, <1>11, <1>12, <1>13, <1>14, <1>15, <1>16, <1>17, <1>18, <1>19, <1>20, <1>21, <1>22 DEF ResourceStep, UnitStep, FileStep, ServiceStep

-----------------------------------------------------------------------------

\* The three facts of the inductive invariant.
LEMMA Initially == Init => IInv
<1> SUFFICES ASSUME Init PROVE IInv
  OBVIOUS
<1> USE DEF Init
<1>1. TypeOK
  BY DEF TypeOK
<1>2. ASSUME NEW r \in Resources PROVE Local(r)
  BY <1>2 DEF Local, Progress, StepsOf, FileOf, ServiceOf, RollbackOf, VerifiedOf
<1> QED
  BY <1>1, <1>2 DEF IInv, LocalInv

\* Every step keeps it.
LEMMA Inductive == IInv /\ [Next]_vars => IInv'
<1> SUFFICES ASSUME IInv, [Next]_vars PROVE LocalInv'
  BY Typing DEF IInv
<1> USE DEF IInv, LocalInv
<1>1. ASSUME NEW r \in Resources, ResourceStep(r) PROVE LocalInv'
  BY <1>1, Own, Others, Stable
<1>2. CASE Kill
  BY <1>2 DEF Kill, TypeOK, Local, Progress, StepsOf, FileOf, ServiceOf, RollbackOf, VerifiedOf
<1>3. CASE UNCHANGED vars
  BY <1>3, Stable DEF TypeOK, Undisturbed
<1> QED
  BY <1>1, <1>2, <1>3 DEF Next, ResourceStep

\* It holds in every reachable state.
LEMMA Invariance == Spec => []IInv
  BY Initially, Inductive, PTL DEF Spec

\* Every variable keeps the values the code gives it: an operation never reaches
\* a call that its kind of resource does not make.
THEOREM TypeCorrect == Spec => []TypeOK
  BY Invariance, PTL DEF IInv

\* A put that reported success left the host as configured, and it still is: the
\* file, the manager's copy of it, the enablement and the service.
THEOREM PutsAreHonoured == Spec => []PutHonoured
<1>1. IInv => PutHonoured
  BY DEF IInv, LocalInv, Local, Progress, TypeOK, FileOf, ServiceOf, PutHonoured
<1> QED
  BY <1>1, Invariance, PTL

\* A delete that reported success left neither file nor loaded unit, and a running
\* or enabled service only after a failure it ignored.
THEOREM DeletesAreHonoured == Spec => []DeleteHonoured
<1>1. IInv => DeleteHonoured
  BY DEF IInv, LocalInv, Local, Progress, TypeOK, StepsOf, FileOf, ServiceOf, DeleteHonoured
<1> QED
  BY <1>1, Invariance, PTL

\* A put that verification refused and that was rolled back left the unit as found.
THEOREM RejectionsAreRestored == Spec => []RejectedRestored
<1>1. IInv => RejectedRestored
  BY DEF IInv, LocalInv, Local, Progress, TypeOK, RollbackOf, RejectedRestored
<1> QED
  BY <1>1, Invariance, PTL

\* The manager holds an outdated file only during the file's own operation, or after
\* that operation reported an error.
THEOREM StaleIsReported == Spec => []StaleOnlyIfReported
<1>1. IInv => StaleOnlyIfReported
  BY DEF IInv, LocalInv, Local, Progress, TypeOK, FileOf, StaleOnlyIfReported
<1> QED
  BY <1>1, Invariance, PTL

\* In error mode with systemd-analyze on the host, no unit resource ever runs a
\* content that verification refuses.
THEOREM OnlyVerifiedRuns == Spec => []VerifiedBeforeRun
<1>1. IInv => VerifiedBeforeRun
  BY DEF IInv, LocalInv, Local, Progress, TypeOK, VerifiedOf, VerifiedBeforeRun
<1> QED
  BY <1>1, Invariance, PTL

\* A unit resource starts its unit from the file on disk, never from an older
\* configuration the manager still held.
THEOREM StartsAreCurrent == Spec => StartsCurrent
<1>1. ASSUME IInv, [Next]_vars, NEW u \in Units, running'[u] # running[u], running'[u] # Absent
      PROVE  running'[u] = file[u]
  <2> USE DEF IInv, LocalInv
  <2>1. PICK r \in Resources : ResourceStep(r)
    BY <1>1 DEF Next, ResourceStep, Kill
  <2>2. r = u
    BY <1>1, <2>1, Others DEF Undisturbed
  <2>3. StartUnit(u) \/ StartUnitFails(u)
    BY <1>1, <2>1, <2>2 DEF ResourceStep, BeginPut, BeginDelete,
         UnitStep, ReadUnit, ReadUnitFails, VerifyPasses, VerifyFails, RollbackUnit, RollbackUnitFails,
         FileStep, WriteFile, WriteFileFails, DaemonReload, DaemonReloadFails, RemoveFile, RemoveFileFails,
         ServiceStep, SetEnabled, SetEnabledFails, StopUnit, StopUnitFails, DisableUnit, DisableUnitFails,
         TypeOK
  <2>4. pc[u] = "activate" /\ FileOf(u)
    BY <1>1, <2>3 DEF StartUnit, StartUnitFails, Local, Progress
  <2>5. loaded[u] = file[u]
    BY <2>4 DEF FileOf
  <2> QED
    BY <1>1, <2>3, <2>5 DEF StartUnit, StartUnitFails, TypeOK
<1>2. IInv /\ [Next]_vars => [\A u \in Units : running'[u] # running[u] /\ running'[u] # Absent
                                => running'[u] = file[u]]_vars
  BY <1>1
<1> QED
  BY <1>2, Invariance, PTL DEF Spec, StartsCurrent

-----------------------------------------------------------------------------
(* The client implements ApplyContract. *)

\* Success means that the host is as asked.
Honoured == \A r \in Resources : Status(r) = "ok" => HostHonours(r, goal[r], View(r))

\* What a successful operation has established is what it was asked for.
LEMMA ProgressHonours ==
    ASSUME TypeOK, NEW r \in Resources, Progress(r), Status(r) = "ok"
    PROVE  HostHonours(r, goal[r], View(r))
<1> USE DEF Progress, Status, View
<1>1. Succeeded(r, "put") \/ Succeeded(r, "delete")
  BY DEF TypeOK
<1>2. View(r).file = goal[r].content /\ View(r).loaded = goal[r].content
  BY <1>1 DEF StepsOf, FileOf
<1>3. CASE r \in Services
  BY <1>1, <1>2, <1>3 DEF ServiceOf, HostHonours
<1>4. CASE r \in Dropins
  BY <1>1, <1>2, <1>4 DEF StepsOf, HostHonours
<1> QED
  BY <1>3, <1>4

\* The inductive invariant gives the contract's promise in every state.
LEMMA SuccessIsHonoured == IInv => Honoured
  BY ProgressHonours DEF IInv, LocalInv, Local, Honoured

Allowed(r) ==
    Contract!Ask(r) \/ Contract!Work(r) \/ Contract!Succeed(r) \/ Contract!Fail(r) \/ Contract!Rest(r)

\* Every step is, for every resource at once, one the contract allows.
LEMMA ContractStep == IInv /\ IInv' /\ Next => Contract!Next
<1> SUFFICES ASSUME IInv, IInv', Next, NEW q \in Resources PROVE Allowed(q)
  BY DEF Contract!Next, Allowed
<1>0. Honoured'
  BY SuccessIsHonoured, PTL
<1> USE DEF Allowed, Contract!Ask, Contract!Work, Contract!Succeed, Contract!Fail, Contract!Rest, Status
<1>1. ASSUME NEW r \in Resources, ResourceStep(r), q # r PROVE Allowed(q)
  <2>1. Undisturbed(q)
    BY <1>1, Others DEF IInv
  <2>2. Status(q)' = Status(q) /\ goal'[q] = goal[q]
    BY <2>1 DEF Undisturbed
  <2>3. Status(q) = "ok" => View(q)' = View(q)
    BY <2>1 DEF Undisturbed, View, IInv, LocalInv, Local, Progress, FileOf, TypeOK
  <2> QED
    BY <2>2, <2>3
<1>2. ASSUME ResourceStep(q) PROVE Allowed(q)
  <2>1. CASE BeginPut(q) \/ BeginDelete(q)
    BY <1>0, <2>1 DEF BeginPut, BeginDelete, IInv, TypeOK, Honoured
  <2>2. CASE ~(BeginPut(q) \/ BeginDelete(q))
    <3>1. InFlight(q) /\ goal'[q] = goal[q] /\ pc'[q] # "idle"
      BY <1>2, <2>2 DEF ResourceStep, IInv, TypeOK,
         UnitStep, ReadUnit, ReadUnitFails, VerifyPasses, VerifyFails, AfterReject, RollbackUnit, RollbackUnitFails,
         FileStep, WriteFile, WriteFileFails, AfterWrite, DaemonReload, AfterReload, DaemonReloadFails, RemoveFile, RemoveFileFails,
         ServiceStep, SetEnabled, SetEnabledFails, StartUnit, StartUnitFails, StopUnit, StopUnitFails,
         AfterStop, Stopping, DisableUnit, DisableUnitFails, AfterDisable
    <3> QED
      BY <1>0, <3>1 DEF Honoured
  <2> QED
    BY <2>1, <2>2
<1>3. CASE Kill
  BY <1>3 DEF Kill, IInv, TypeOK, View
<1> QED
  BY <1>1, <1>2, <1>3 DEF Next, ResourceStep

\* Every behaviour of the client's calls is one that ApplyContract allows.
THEOREM ImplementsContract == Spec => KeepsContract
<1>1. Init => Contract!Init
  BY DEF Init, Contract!Init, Status
<1>2. IInv /\ IInv' /\ [Next]_vars => [Contract!Next]_(Contract!vars)
  <2>1. CASE Next
    BY <2>1, ContractStep
  <2>2. CASE UNCHANGED vars
    BY <2>2 DEF Contract!vars, Status, View
  <2> QED
    BY <2>1, <2>2
<1> QED
  BY <1>1, <1>2, Invariance, PTL DEF Spec, KeepsContract, Contract!Spec

-----------------------------------------------------------------------------
(* Every operation comes to an end.                                            *)

\* How many Host calls the operation of r can still make: six at the most.
CallsLeft(r) ==
    CASE pc[r] = "read"     -> 6
      [] pc[r] = "write"    -> 5
      [] pc[r] = "verify"   -> 4
      [] pc[r] = "rollback" -> 1
      [] pc[r] = "reload"   -> IF goal[r].op = "put" THEN 3 ELSE 1
      [] pc[r] = "enable"   -> 2
      [] pc[r] = "activate" -> 1
      [] pc[r] = "stop"     -> 4
      [] pc[r] = "disable"  -> 3
      [] pc[r] = "remove"   -> 2
      [] OTHER              -> 0

\* Nothing other resources do delays an operation, and every call of its own, failed or
\* not, brings it nearer to its end: rollback and retried steps are no loops.
Descends(r) == CallsLeft(r)' < CallsLeft(r) \/ (pc'[r] = pc[r] /\ goal'[r] = goal[r])

\* Every operation under way of every resource descends, in every step.
THEOREM OperationsDescend == Spec => [][\A r \in Resources : InFlight(r) => Descends(r)]_vars
<1>1. IInv /\ [Next]_vars => [\A r \in Resources : InFlight(r) => Descends(r)]_vars
  <2> SUFFICES ASSUME IInv, Next, NEW q \in Resources, InFlight(q) PROVE Descends(q)
    OBVIOUS
  <2> USE DEF Descends
  <2>1. ASSUME NEW r \in Resources, ResourceStep(r), q # r PROVE Descends(q)
    BY <2>1, Others DEF IInv, Undisturbed
  <2>2. CASE ResourceStep(q)
    <3>0. StepsOf(q)
      BY DEF IInv, LocalInv, Local, Progress
    <3> USE DEF CallsLeft, IInv, TypeOK
    <3>1. CASE q \in Units /\ UnitStep(q)
      BY <3>1, <3>0 DEF StepsOf, UnitStep, ReadUnit, ReadUnitFails, VerifyPasses, VerifyFails, AfterReject,
         RollbackUnit, RollbackUnitFails
    <3>2. CASE q \in Files /\ FileStep(q)
      BY <3>2, <3>0 DEF StepsOf, FileStep, WriteFile, WriteFileFails, AfterWrite, DaemonReload, AfterReload,
         DaemonReloadFails, RemoveFile, RemoveFileFails
    <3>3. CASE q \in Services /\ ServiceStep(q)
      BY <3>3, <3>0 DEF StepsOf, ServiceStep, SetEnabled, SetEnabledFails, StartUnit, StartUnitFails,
         StopUnit, StopUnitFails, AfterStop, Stopping, DisableUnit, DisableUnitFails, AfterDisable
    <3>4. ~BeginPut(q) /\ ~BeginDelete(q)
      BY DEF BeginPut, BeginDelete
    <3> QED
      BY <2>2, <3>1, <3>2, <3>3, <3>4 DEF ResourceStep
  <2>3. CASE Kill
    BY <2>3 DEF Kill, CallsLeft, IInv, TypeOK
  <2> QED
    BY <2>1, <2>2, <2>3 DEF Next, ResourceStep
<1> QED
  BY <1>1, Invariance, PTL DEF Spec
=============================================================================
