-------------------------- MODULE RunContract_proofs --------------------------
(***************************************************************************)
(* Proofs that the runs of HostResources keep the contract of RunContract, *)
(* for every kind of resource and any configurations, images and contents. *)
(*                                                                         *)
(* The first lemmas say what makes a step one of the contract; then the    *)
(* steps of each kind are sorted among them.  The invariants of            *)
(* HostResources_proofs and Images_proofs supply what is not in the step:  *)
(* that a refresh without an excuse finds what the state says, and that an *)
(* operation recorded without an excuse has done all it was asked for.     *)
(***************************************************************************)
EXTENDS Images_proofs

ContractStep == Contract!Next \/ UNCHANGED Contract!vars

Working == ~AtRest

\* A call of an operation that goes on.
LEMMA WorkStep ==
    ASSUME Working, Working', UNCHANGED <<config, state>>, excuses \subseteq excuses' PROVE ContractStep
BY DEF Working, ContractStep, Contract!Next, Contract!Work

\* A delete is done, and the create of the replacement follows.
LEMMA ReplaceStep ==
    ASSUME Working, Working', config' = config, state # None, state' = None PROVE ContractStep
BY DEF Working, ContractStep, Contract!Next, Contract!Work

\* An operation ends.
LEMMA EndStep ==
    ASSUME Working, AtRest', config' = config, Standing' \in {"applied", "stuck"} \/ excuses' # {}
    PROVE  ContractStep
BY DEF Working, ContractStep, Contract!Next, Contract!End

\* A refresh or an import.
LEMMA LookStep ==
    ASSUME AtRest, AtRest', UNCHANGED <<host, config>>, excuses # {} => excuses' # {},
           excuses' = {} => (Standing = "applied" => Standing' = "applied") /\ (state # None => state' # None)
    PROVE  ContractStep
BY DEF ContractStep, Contract!Next, Contract!Look, Contract!AtRest

\* A plan that calls for an operation.
LEMMA BeginStep ==
    ASSUME AtRest, Working', Standing # "applied", UNCHANGED <<host, config, state>>, excuses' \subseteq excuses
    PROVE  ContractStep
BY DEF Working, ContractStep, Contract!Next, Contract!Begin

\* An edit of the configuration.
LEMMA EditStep ==
    ASSUME AtRest, AtRest', config' # config, UNCHANGED <<host, state, excuses>> PROVE ContractStep
BY DEF ContractStep, Contract!Next, Contract!Edit, Contract!AtRest

\* Somebody else changes the host.
LEMMA DisturbStep ==
    ASSUME UNCHANGED <<config, state, pc>>, excuses' # {} PROVE ContractStep
BY DEF AtRest, ContractStep, Contract!Next, Contract!Disturb

\* What is left to apply is read off these variables alone.
LEMMA SameStanding ==
    ASSUME UNCHANGED <<host, config, state, excuses, kind>> PROVE UNCHANGED Standing
<1>1. UNCHANGED Settled
  BY DEF Settled, M!Settled, M!Changed, M!Replaced, M!UnitAs, P!Settled, P!Changed, P!Replaced, P!UnitAs, F!Settled,
         F!Changed, C!Settled, C!Changed, C!Replaced, C!File, I!Settled, I!Changed, I!UnitAs
<1>2. UNCHANGED Stuck
  BY DEF Stuck, M!Blocked, M!Hopeless, M!Changed, M!Replaced, P!Hopeless, P!Replaced, I!Hopeless, I!Known
<1> QED
  BY <1>1, <1>2 DEF Standing

\* A step of the run alone.
LEMMA StutterStep ==
    ASSUME AtRest, AtRest', UNCHANGED <<host, config, state, excuses, kind>> PROVE ContractStep
BY SameStanding DEF ContractStep, Contract!vars

-----------------------------------------------------------------------------
(* The credential. *)

\* What a credential's state holds, and what a configuration asks for.
LEMMA CredentialStated == ASSUME NEW s \in C!CredentialStates PROVE s # None /\ s.data \in Secrets /\ s.data # Absent
<1>1. s # None
  BY NoneAssumption
<1>2. s.data \in Secrets
  BY DEF C!CredentialStates
<1>3. Absent \notin Secrets
  BY ValuesAssumption
<1> QED
  BY <1>1, <1>2, <1>3

\* What a credential is configured to be is one of the states it can have.
LEMMA CredentialConfigured ==
    ASSUME NEW c \in CredentialConfigs
    PROVE  /\ c # None /\ c.data \in Secrets /\ c.data # Absent
           /\ [data |-> c.data, encrypted |-> c.encrypted] = c /\ c \in C!CredentialStates
<1>1. c \in C!CredentialStates
  BY ConfigsAssumption
<1>2. [data |-> c.data, encrypted |-> c.encrypted] = c
  BY <1>1 DEF C!CredentialStates
<1> QED
  BY <1>1, <1>2, CredentialStated

\* Every step of a credential is one of the contract.
LEMMA CredentialContract ==
    ASSUME kind = "credential", kind' = kind, CredentialInv, C!Next PROVE ContractStep
<1>0. /\ Standing = (IF C!Settled THEN "applied" ELSE "open")
      /\ Standing' = (IF C!Settled' THEN "applied" ELSE "open")
  BY DEF Standing, Settled, Stuck
<1> USE DEF AtRest, Working, C!AtRest, C!Goto, C!Call, C!Error, C!Interrupted, C!Excuse, C!bounds
<1>1. CASE C!StartRun
  BY <1>1, StutterStep DEF C!StartRun
<1>2. CASE C!Read
  <2>1. /\ pc = "read" /\ pc' = "plan" /\ UNCHANGED <<host, config, excuses>>
        /\ state' = (IF host[C!File(state)] = Absent THEN None ELSE state)
    BY <1>2 DEF C!Read, C!ReadFinds
  <2>2. excuses = {} => state' = state
    <3>1. state # None /\ state \in C!CredentialStates
      BY <2>1 DEF CredentialInv, CredentialSteps, C!TypeOK, C!TypesWith
    <3>2. state.data # Absent
      BY <3>1, CredentialStated
    <3>3. excuses = {} => host[C!File(state)] = state.data
      BY <2>1, <3>1 DEF CredentialInv, CredentialWritten
    <3> QED
      BY <2>1, <3>2, <3>3
  <2>3. state' = state => (C!Settled => C!Settled')
    BY <2>1 DEF C!Settled, C!Changed, C!Replaced, C!File
  <2> QED
    BY <1>0, <2>1, <2>2, <2>3, LookStep
<1>3. CASE C!Plan(C!Changed, C!Replaced, "write", "unlink")
  <2>1. CASE C!Planned(C!Changed, C!Replaced) = "nothing"
    BY <1>3, <2>1, StutterStep DEF C!Plan
  <2>2. CASE C!Planned(C!Changed, C!Replaced) # "nothing"
    <3>1. ~C!Settled
      BY <2>2 DEF C!Planned, C!Settled
    <3>2. pc = "plan" /\ pc' \in {"write", "unlink"} /\ UNCHANGED <<host, config, state>> /\ excuses' \subseteq excuses
      BY <1>3, <2>2 DEF C!Plan, C!Planned
    <3> QED
      BY <1>0, <3>1, <3>2, BeginStep
  <2> QED
    BY <2>1, <2>2
<1>4. CASE C!Write \/ C!Unlink
  BY <1>4, WorkStep DEF C!Write, C!Unlink
<1>5. CASE C!Record
  <2>1. /\ pc = "record" /\ pc' = "idle" /\ UNCHANGED <<host, config>> /\ excuses' = excuses \ {"failed"}
        /\ state' = [data |-> config.data, encrypted |-> config.encrypted]
    BY <1>5 DEF C!Record, C!RecordPut
  <2>2. config # None /\ config \in CredentialConfigs
    BY <2>1 DEF CredentialInv, CredentialSteps, C!TypeOK, C!TypesWith
  <2>3. state' = config /\ config.data # Absent
    BY <2>1, <2>2, CredentialConfigured
  <2>4. excuses' = {} => host[C!File(config)] = config.data
    BY <2>1 DEF CredentialInv, CredentialWritten
  <2>5. excuses' = {} => C!Settled'
    BY <2>1, <2>2, <2>3, <2>4 DEF C!Settled, C!Changed, C!Replaced, C!File
  <2> QED
    BY <1>0, <2>1, <2>5, EndStep
<1>6. CASE C!Forget
  <2>1. pc = "forget" /\ state' = None /\ config' = config /\ pc' = (IF config = None THEN "idle" ELSE "write")
    BY <1>6 DEF C!Forget, C!RecordDelete
  <2>2. state # None
    BY <2>1 DEF CredentialInv, CredentialSteps
  <2>3. config = None => Standing' = "applied"
    BY <1>0, <2>1 DEF C!Settled
  <2> QED
    BY <2>1, <2>2, <2>3, EndStep, ReplaceStep
<1>7. CASE C!ReadFails
  BY <1>7, StutterStep DEF C!ReadFails
<1>8. CASE C!WriteFails \/ C!UnlinkFails
  BY <1>8, EndStep DEF C!WriteFails, C!UnlinkFails
<1>9. CASE C!Edit(CredentialConfigs)
  BY <1>9, EditStep DEF C!Edit
<1>10. CASE C!Crash
  <2>1. CASE AtRest
    BY <1>10, <2>1, StutterStep DEF C!Crash
  <2>2. CASE ~AtRest
    BY <1>10, <2>2, EndStep DEF C!Crash
  <2> QED
    BY <2>1, <2>2
<1>11. CASE C!Meddle(C!Others)
  BY <1>11, DisturbStep DEF C!Meddle
<1> QED
  BY <1>1, <1>2, <1>3, <1>4, <1>5, <1>6, <1>7, <1>8, <1>9, <1>10, <1>11 DEF C!Next, C!Run

-----------------------------------------------------------------------------
(* The file. *)

\* A file's state is one, whatever it holds.
LEMMA FileStated == ASSUME NEW s \in F!FileStates PROVE s # None
BY NoneAssumption

\* Every step of a file is one of the contract, the reload for another file too: at
\* rest and without an excuse the daemon reads again what it has read.
LEMMA FileContract ==
    ASSUME kind = "file", kind' = kind, FileInv, F!Next PROVE ContractStep
<1>0. /\ Standing = (IF F!Settled THEN "applied" ELSE "open")
      /\ Standing' = (IF F!Settled' THEN "applied" ELSE "open")
  BY DEF Standing, Settled, Stuck
<1> USE DEF AtRest, Working, F!AtRest, F!Goto, F!Call, F!Error, F!Interrupted, F!Excuse, F!bounds
<1>1. CASE F!StartRun
  BY <1>1, StutterStep DEF F!StartRun
<1>2. CASE F!Read
  <2>1. /\ pc = "read" /\ pc' = "plan" /\ UNCHANGED <<host, config, excuses>>
        /\ state' = (IF host.file = Absent THEN None ELSE [state EXCEPT !.content = host.file])
    BY <1>2 DEF F!Read, F!ReadFinds
  <2>2. state \in F!FileStates /\ state # None
    BY <2>1 DEF FileInv, FileSteps, F!TypeOK, F!TypesWith
  <2>3. state.body \in Bodies /\ state.body # Absent
    <3>1. state.body \in Bodies
      BY <2>2 DEF F!FileStates
    <3> QED
      BY <3>1, ValuesAssumption
  <2>4. ASSUME excuses = {} PROVE state' # None /\ (F!Settled => F!Settled')
    <3>1. host.file = state.body /\ host.loaded = state.body
      BY <2>1, <2>2, <2>4 DEF FileInv, FileAtRest
    <3>2. state' = [state EXCEPT !.content = state.body]
      BY <2>1, <2>3, <3>1
    <3>3. state' \in F!FileStates /\ state'.form = state.form /\ state'.body = state.body /\ state'.content = state.body
      BY <2>2, <2>3, <3>2 DEF F!FileStates
    <3>4. state' # None
      BY <3>3, FileStated
    <3> QED
      BY <2>1, <2>2, <2>4, <3>1, <3>3, <3>4 DEF F!Settled, F!Changed
  <2> QED
    BY <1>0, <2>1, <2>4, LookStep
<1>3. CASE F!Plan(F!Changed, FALSE, "write", "unlink")
  <2>1. CASE F!Planned(F!Changed, FALSE) = "nothing"
    BY <1>3, <2>1, StutterStep DEF F!Plan
  <2>2. CASE F!Planned(F!Changed, FALSE) # "nothing"
    <3>1. ~F!Settled
      BY <2>2 DEF F!Planned, F!Settled
    <3>2. pc = "plan" /\ pc' \in {"write", "unlink"} /\ UNCHANGED <<host, config, state>> /\ excuses' \subseteq excuses
      BY <1>3, <2>2 DEF F!Plan, F!Planned
    <3> QED
      BY <1>0, <3>1, <3>2, BeginStep
  <2> QED
    BY <2>1, <2>2
<1>4. CASE F!Write \/ F!Unlink \/ F!Reload
  BY <1>4, WorkStep DEF F!Write, F!Unlink, F!Reload, F!Reloading
<1>5. CASE F!Record
  <2>1. /\ pc = "record" /\ pc' = "idle" /\ UNCHANGED <<host, config>>
        /\ excuses' = excuses \ {"failed", "unrecorded"}
        /\ state' = [form |-> config.form, body |-> config.body, content |-> config.body]
    BY <1>5 DEF F!Record, F!RecordPut
  <2>2. config # None /\ config \in FileConfigs /\ state' # None
    <3>1. config # None /\ config \in FileConfigs
      BY <2>1 DEF FileInv, FileSteps, F!TypeOK, F!TypesWith
    <3>2. [form |-> config.form, body |-> config.body, content |-> config.body] \in F!FileStates
      BY <3>1, ConfigsAssumption
    <3> QED
      BY <2>1, <3>1, <3>2, FileStated
  <2>3. excuses' = {} => host.file = config.body /\ host.loaded = config.body
    BY <2>1 DEF FileInv, FileDone
  <2>4. excuses' = {} => F!Settled'
    BY <2>1, <2>2, <2>3 DEF F!Settled, F!Changed
  <2> QED
    BY <1>0, <2>1, <2>4, EndStep
<1>6. CASE F!Forget
  <2>1. pc = "forget" /\ state' = None /\ config' = config /\ pc' = (IF config = None THEN "idle" ELSE "write")
    BY <1>6 DEF F!Forget, F!RecordDelete
  <2>2. state # None
    BY <2>1 DEF FileInv, FileSteps
  <2>3. config = None => Standing' = "applied"
    BY <1>0, <2>1 DEF F!Settled
  <2> QED
    BY <2>1, <2>2, <2>3, EndStep, ReplaceStep
<1>7. CASE F!Import
  <2>1. pc = "idle" /\ config # None /\ state = None /\ UNCHANGED <<host, config, pc, excuses>>
    BY <1>7 DEF F!Import
  <2>2. ~F!Settled
    BY <2>1 DEF F!Settled
  <2> QED
    BY <1>0, <2>1, <2>2, LookStep
<1>8. CASE F!ReadLoses
  BY <1>8, LookStep DEF F!ReadLoses
<1>9. CASE F!WriteFails \/ F!UnlinkFails \/ F!ReloadFails
  BY <1>9, EndStep DEF F!WriteFails, F!UnlinkFails, F!ReloadFails, F!Reloading
<1>10. CASE F!OtherReload
  <2>1. host' = [host EXCEPT !.loaded = host.file] /\ UNCHANGED <<config, state, pc, excuses>>
    BY <1>10 DEF F!OtherReload
  <2>2. CASE AtRest /\ excuses = {}
    <3>1. host.loaded = host.file
      BY <2>2 DEF FileInv, FileAtRest
    <3>2. host' = host
      BY <2>1, <3>1 DEF FileInv, F!TypeOK
    <3> QED
      BY <2>1, <2>2, <3>2, StutterStep
  <2>3. CASE excuses # {}
    BY <2>1, <2>3, DisturbStep
  <2>4. CASE ~AtRest
    BY <2>1, <2>4, WorkStep
  <2> QED
    BY <2>2, <2>3, <2>4
<1>11. CASE F!Edit(FileConfigs)
  BY <1>11, EditStep DEF F!Edit
<1>12. CASE F!Crash
  <2>1. CASE AtRest
    BY <1>12, <2>1, StutterStep DEF F!Crash
  <2>2. CASE ~AtRest
    BY <1>12, <2>2, EndStep DEF F!Crash
  <2> QED
    BY <2>1, <2>2
<1>13. CASE F!Meddle(F!Others)
  BY <1>13, DisturbStep DEF F!Meddle
<1> QED
  BY <1>1, <1>2, <1>3, <1>4, <1>5, <1>6, <1>7, <1>8, <1>9, <1>10, <1>11, <1>12, <1>13 DEF F!Next, F!Run
-----------------------------------------------------------------------------
(* The instance. *)

\* Every step of an instance is one of the contract: a refresh that finds no template
\* has an excuse, and nothing is recorded that the calls have not done.
LEMMA InstanceContract ==
    ASSUME kind = "instance", kind' = kind, InstanceInv, I!Next PROVE ContractStep
<1>0. /\ Standing = (IF I!Settled THEN "applied" ELSE IF I!Hopeless THEN "stuck" ELSE "open")
      /\ Standing' = (IF I!Settled' THEN "applied" ELSE IF I!Hopeless' THEN "stuck" ELSE "open")
  BY DEF Standing, Settled, Stuck
<1> USE DEF AtRest, Working, I!AtRest, I!Goto, I!Call, I!Error, I!Interrupted, I!Excuse, I!bounds
<1>1. CASE I!StartRun
  BY <1>1, StutterStep DEF I!StartRun
<1>2. CASE I!Read
  BY <1>2, StutterStep DEF I!Read, I!ReadFinds
<1>3. CASE I!ReadWithoutTemplate
  BY <1>3, LookStep DEF I!ReadWithoutTemplate
<1>4. CASE I!Plan(I!Changed, FALSE, I!Lifecycle, "stop")
  <2>1. CASE I!Planned(I!Changed, FALSE) = "nothing"
    BY <1>4, <2>1, StutterStep DEF I!Plan
  <2>2. CASE I!Planned(I!Changed, FALSE) # "nothing"
    <3>1. ~I!Settled
      BY <2>2 DEF I!Planned, I!Settled
    <3>2. /\ pc = "plan" /\ pc' \in {"enable", "activate", "record", "stop"}
          /\ UNCHANGED <<host, config, state>> /\ excuses' \subseteq excuses
      BY <1>4, <2>2 DEF I!Plan, I!Planned, I!Lifecycle, I!AfterEnable
    <3> QED
      BY <1>0, <3>1, <3>2, BeginStep
  <2> QED
    BY <2>1, <2>2
<1>5. CASE I!SetEnabled(I!Known) \/ I!StartUnit(host.template) \/ I!DisableUnit("forget")
           \/ I!DisableUnitIgnored("forget", I!Known)
  <2>1. /\ pc \in {"enable", "activate", "disable"} /\ pc' \in {"activate", "record", "forget"}
        /\ UNCHANGED <<config, state>> /\ excuses \subseteq excuses'
    BY <1>5 DEF I!SetEnabled, I!StartUnit, I!DisableUnit, I!DisableUnitIgnored, I!AfterEnable
  <2> QED
    BY <2>1, WorkStep
<1>6. CASE I!StopUnit \/ I!StopUnitIgnored
  <2>1. pc \in {"stop", "activate"} /\ pc' \in {"disable", "record"} /\ UNCHANGED <<config, state>> /\ excuses \subseteq excuses'
    BY <1>6 DEF I!StopUnit, I!StopUnitIgnored, I!Stopping, I!AfterStop
  <2> QED
    BY <2>1, WorkStep
<1>7. CASE I!Record
  <2>1. /\ pc = "record" /\ pc' = "idle" /\ UNCHANGED <<host, config>>
        /\ excuses' = excuses \ {"failed", "unrecorded"}
        /\ state' = [enable |-> config.enable, active |-> config.active]
    BY <1>7 DEF I!Record, I!RecordPut
  <2>2. config # None /\ config \in InstanceConfigs
    BY <2>1 DEF InstanceInv, InstanceSteps, I!TypeOK, I!TypesWith
  <2>3. state' = config
    <3>1. config \in I!InstanceStates
      BY <2>2, ConfigsAssumption
    <3> QED
      BY <2>1, <3>1 DEF I!InstanceStates
  <2>4. excuses' = {} => I!UnitAs(config, Templates)
    BY <2>1 DEF InstanceInv, InstanceDone
  <2>5. excuses' = {} => I!Settled'
    BY <2>1, <2>2, <2>3, <2>4 DEF I!Settled, I!Changed, I!UnitAs
  <2> QED
    BY <1>0, <2>1, <2>5, EndStep
<1>8. CASE I!Forget
  <2>1. /\ pc = "forget" /\ state' = None /\ config' = config
        /\ pc' = (IF config = None THEN "idle" ELSE I!Lifecycle)
    BY <1>8 DEF I!Forget, I!RecordDelete
  <2>2. state # None
    BY <2>1 DEF InstanceInv, InstanceSteps
  <2>3. config = None => Standing' = "applied"
    BY <1>0, <2>1 DEF I!Settled
  <2>4. I!Lifecycle \in {"enable", "activate", "record"}
    BY DEF I!Lifecycle, I!AfterEnable
  <2> QED
    BY <2>1, <2>2, <2>3, <2>4, EndStep, ReplaceStep
<1>9. CASE I!Import
  <2>1. pc = "idle" /\ config # None /\ state = None /\ UNCHANGED <<host, config, pc, excuses>>
    BY <1>9 DEF I!Import
  <2>2. Standing # "applied"
    BY <1>0, <2>1 DEF I!Settled
  <2> QED
    BY <2>1, <2>2, LookStep
<1>10. CASE I!ReadFails
  BY <1>10, StutterStep DEF I!ReadFails
<1>11. CASE I!SetEnabledFails(I!Known) \/ I!StartUnitFails(host.template)
  BY <1>11, EndStep DEF I!SetEnabledFails, I!StartUnitFails
<1>12. CASE I!Edit(InstanceConfigs)
  BY <1>12, EditStep DEF I!Edit
<1>13. CASE I!Crash
  <2>1. CASE AtRest
    BY <1>13, <2>1, StutterStep DEF I!Crash
  <2>2. CASE ~AtRest
    BY <1>13, <2>2, EndStep DEF I!Crash
  <2> QED
    BY <2>1, <2>2
<1>14. CASE I!Meddle(I!Others)
  BY <1>14, DisturbStep DEF I!Meddle
<1> QED
  BY <1>1, <1>2, <1>3, <1>4, <1>5, <1>6, <1>7, <1>8, <1>9, <1>10, <1>11, <1>12, <1>13, <1>14 DEF I!Next, I!Run
-----------------------------------------------------------------------------
(* The portable service. *)

\* The image a state or a configuration names is one that can be on the host.
LEMMA PortableNamed ==
    ASSUME NEW s \in P!PortableStates PROVE s # None /\ s.image \in Trees \cup Raws /\ s.image # Absent
<1>1. s.image \in Trees \cup Raws
  BY DEF P!PortableStates, P!PortableImages
<1>2. Absent \notin Trees \cup Raws
  BY ValuesAssumption
<1>3. s # None
  BY NoneAssumption
<1> QED
  BY <1>1, <1>2, <1>3

\* Every step of a portable service is one of the contract.  A delete may keep the
\* image, and has an excuse for it.
LEMMA PortableContract ==
    ASSUME kind = "portable", kind' = kind, PortableInv, P!Next PROVE ContractStep
<1>0. /\ Standing = (IF P!Settled THEN "applied" ELSE IF P!Hopeless THEN "stuck" ELSE "open")
      /\ Standing' = (IF P!Settled' THEN "applied" ELSE IF P!Hopeless' THEN "stuck" ELSE "open")
  BY DEF Standing, Settled, Stuck
<1> USE DEF AtRest, Working, P!AtRest, P!Goto, P!Call, P!Error, P!Interrupted, P!Excuse, P!bounds
<1>1. CASE P!StartRun
  BY <1>1, StutterStep DEF P!StartRun
<1>2. CASE P!Read
  <2>1. /\ pc = "read" /\ pc' = "plan" /\ UNCHANGED <<host, config, excuses>>
        /\ state' = (IF host.dir = Absent /\ host.raw = Absent THEN None ELSE state)
    BY <1>2 DEF P!Read, P!ReadFinds
  <2>2. excuses = {} => state' = state
    <3>1. state # None /\ state \in P!PortableStates
      BY <2>1 DEF PortableInv, PortableSteps, P!TypeOK, P!TypesWith
    <3>2. state.image \in Trees \cup Raws /\ state.image # Absent
      BY <3>1, PortableNamed
    <3>3. excuses = {} => Placed(state.image)
      BY <2>1, <3>1 DEF PortableInv, PortableAtRest
    <3> QED
      BY <2>1, <3>2, <3>3 DEF Placed
  <2>3. state' = state => (P!Settled => P!Settled')
    BY <2>1 DEF P!Settled, P!Changed, P!Replaced, P!UnitAs
  <2>4. excuses = {} => state # None
    BY <2>1 DEF PortableInv, PortableSteps
  <2> QED
    BY <1>0, <2>1, <2>2, <2>3, <2>4, LookStep
<1>3. CASE P!Plan(P!Changed, P!Replaced, "unload", "release")
  <2>1. CASE P!Planned(P!Changed, P!Replaced) = "nothing"
    BY <1>3, <2>1, StutterStep DEF P!Plan
  <2>2. CASE P!Planned(P!Changed, P!Replaced) # "nothing"
    <3>1. ~P!Settled
      BY <2>2 DEF P!Planned, P!Settled
    <3>2. pc = "plan" /\ pc' \in {"unload", "release"} /\ UNCHANGED <<host, config, state>> /\ excuses' \subseteq excuses
      BY <1>3, <2>2 DEF P!Plan, P!Planned
    <3> QED
      BY <1>0, <3>1, <3>2, BeginStep
  <2> QED
    BY <2>1, <2>2
<1>4. CASE P!Detach \/ P!DetachIgnored
  <2>1. /\ pc \in {"unload", "detach", "release"} /\ pc' \in {"purge", "attach", "erase", "forget"}
        /\ UNCHANGED <<config, state>> /\ excuses \subseteq excuses'
    BY <1>4 DEF P!Detach, P!DetachIgnored, P!Detaching, P!AfterDetach
  <2> QED
    BY <2>1, WorkStep
<1>5. CASE P!PurgeImage \/ P!PurgeImageIgnored
  <2>1. pc \in {"purge", "erase"} /\ pc' \in {"fetch", "forget"} /\ UNCHANGED <<config, state>> /\ excuses \subseteq excuses'
    BY <1>5 DEF P!PurgeImage, P!PurgeImageIgnored, P!Purging, P!AfterPurge
  <2> QED
    BY <2>1, WorkStep
<1>6. CASE P!FetchImage \/ P!Attach \/ P!SetEnabled(host.attached # Absent) \/ P!StartUnit(host.attached)
  <2>1. /\ pc \in {"fetch", "attach", "enable", "activate"} /\ pc' \in {"detach", "enable", "activate", "record"}
        /\ UNCHANGED <<config, state>> /\ excuses' = excuses
    BY <1>6 DEF P!FetchImage, P!Attach, P!SetEnabled, P!StartUnit, P!Lifecycle, P!AfterEnable
  <2> QED
    BY <2>1, WorkStep
<1>7. CASE P!StopUnit \/ P!StopUnitIgnored
  <2>1. pc \in {"stop", "activate"} /\ pc' \in {"disable", "record"} /\ UNCHANGED <<config, state>> /\ excuses \subseteq excuses'
    BY <1>7 DEF P!StopUnit, P!StopUnitIgnored, P!Stopping, P!AfterStop
  <2> QED
    BY <2>1, WorkStep
<1>8. CASE P!Record
  <2>1. /\ pc = "record" /\ pc' = "idle" /\ UNCHANGED <<host, config>>
        /\ excuses' = excuses \ {"failed", "unrecorded"}
        /\ state' = [image |-> config.image, enable |-> config.enable, active |-> config.active,
                     delete_image |-> config.delete_image]
    BY <1>8 DEF P!Record, P!RecordPut
  <2>2. config # None /\ config \in PortableConfigs
    BY <2>1 DEF PortableInv, PortableSteps, P!TypeOK, P!TypesWith
  <2>3. state' = config
    <3>1. config \in P!PortableStates
      BY <2>2, ConfigsAssumption
    <3> QED
      BY <2>1, <3>1 DEF P!PortableStates
  <2>4. excuses' = {} => host.attached = config.image /\ P!UnitAs(config, {config.image})
    BY <2>1 DEF PortableInv, PortableDone
  <2>5. excuses' = {} => P!Settled'
    BY <2>1, <2>2, <2>3, <2>4 DEF P!Settled, P!Changed, P!Replaced, P!UnitAs
  <2> QED
    BY <1>0, <2>1, <2>5, EndStep
<1>9. CASE P!Forget
  <2>1. pc = "forget" /\ state' = None /\ config' = config /\ pc' = (IF config = None THEN "idle" ELSE "unload")
    BY <1>9 DEF P!Forget, P!RecordDelete
  <2>2. state # None
    BY <2>1 DEF PortableInv, PortableSteps
  <2>3. config = None => Standing' = "applied"
    BY <1>0, <2>1 DEF P!Settled
  <2> QED
    BY <2>1, <2>2, <2>3, EndStep, ReplaceStep
<1>10. CASE P!ReadLoses
  BY <1>10, LookStep DEF P!ReadLoses
<1>11. CASE P!RefuseImage \/ P!FetchImageFails \/ P!AttachFails
  BY <1>11, EndStep DEF P!RefuseImage, P!FetchImageFails, P!AttachFails
<1>12. CASE P!SetEnabledFails(host.attached # Absent) \/ P!StartUnitFails(host.attached)
  BY <1>12, EndStep DEF P!SetEnabledFails, P!StartUnitFails
<1>13. CASE P!Edit(PortableConfigs)
  BY <1>13, EditStep DEF P!Edit
<1>14. CASE P!Crash
  <2>1. CASE AtRest
    BY <1>14, <2>1, StutterStep DEF P!Crash
  <2>2. CASE ~AtRest
    BY <1>14, <2>2, EndStep DEF P!Crash
  <2> QED
    BY <2>1, <2>2
<1>15. CASE P!Meddle(P!Others)
  BY <1>15, DisturbStep DEF P!Meddle
<1> QED
  BY <1>1, <1>2, <1>3, <1>4, <1>5, <1>6, <1>7, <1>8, <1>9, <1>10, <1>11, <1>12, <1>13, <1>14, <1>15 DEF P!Next, P!Run
-----------------------------------------------------------------------------
(* The machine. *)

\* Every step of a machine is one of the contract.  A create that has no settings is
\* recorded as tainted, and is stuck.
LEMMA MachineContract ==
    ASSUME kind = "machine", kind' = kind, MachineInv, M!Next PROVE ContractStep
<1>0. /\ Standing = (IF M!Settled THEN "applied" ELSE IF M!Blocked \/ M!Hopeless THEN "stuck" ELSE "open")
      /\ Standing' = (IF M!Settled' THEN "applied" ELSE IF M!Blocked' \/ M!Hopeless' THEN "stuck" ELSE "open")
  BY DEF Standing, Settled, Stuck
<1> USE DEF AtRest, Working, M!AtRest, M!Goto, M!Call, M!Error, M!Interrupted, M!Excuse, M!bounds
<1>1. CASE M!StartRun
  BY <1>1, StutterStep DEF M!StartRun
<1>2. CASE M!Read
  <2>1. /\ pc = "read" /\ pc' = "plan" /\ UNCHANGED <<host, config, excuses>>
        /\ state' = (IF host.image = Absent THEN None
                     ELSE IF host.settings = Absent THEN state
                     ELSE [state EXCEPT !.settings = host.settings])
    BY <1>2 DEF M!Read, M!ReadFinds
  <2>2. state # None /\ state \in M!MachineStates /\ host \in MachineHosts
    BY <2>1 DEF MachineInv, MachineSteps, M!TypeOK, M!TypesWith, MachineHosts
  <2>3. ASSUME excuses = {} PROVE state' # None /\ (M!Settled => M!Settled')
    <3>1. host.image = state.image /\ (state.settings # Absent => host.settings = state.settings)
      BY <2>1, <2>2, <2>3 DEF MachineInv, MachineAtRest
    <3>2. host.image # Absent
      <4>1. state.image \in Images
        BY <2>2 DEF M!MachineStates
      <4> QED
        BY <3>1, <4>1, ValuesAssumption
    <3>3. CASE host.settings = Absent
      <4>1. state' = state
        BY <2>1, <3>2, <3>3
      <4> QED
        BY <2>1, <2>2, <4>1 DEF M!Settled, M!Changed, M!Replaced, M!UnitAs
    <3>4. CASE host.settings # Absent
      <4>1. state' = [state EXCEPT !.settings = host.settings]
        BY <2>1, <3>2, <3>4
      <4>2. host.settings \in Contents
        BY <2>2, <3>4 DEF MachineHosts
      <4>3. /\ state' \in M!MachineStates /\ state'.settings = host.settings /\ state'.image = state.image
            /\ state'.enable = state.enable /\ state'.active = state.active
            /\ state'.delete_image = state.delete_image /\ state'.tainted = state.tainted
        BY <2>2, <4>1, <4>2 DEF M!MachineStates
      <4>4. state' # None
        BY <4>3, NoneAssumption
      <4>5. M!Settled /\ config # None => config.settings \in {Absent, host.settings}
        BY <3>1 DEF M!Settled, M!Changed
      <4> QED
        BY <2>1, <2>2, <4>3, <4>4, <4>5 DEF M!Settled, M!Changed, M!Replaced, M!UnitAs
    <3> QED
      BY <3>3, <3>4
  <2> QED
    BY <1>0, <2>1, <2>3, LookStep
<1>3. CASE M!Plan(M!Changed, M!Replaced, "show", "stop")
  <2>1. CASE M!Planned(M!Changed, M!Replaced) = "nothing"
    BY <1>3, <2>1, StutterStep DEF M!Plan
  <2>2. CASE M!Planned(M!Changed, M!Replaced) # "nothing"
    <3>1. ~M!Settled
      BY <2>2 DEF M!Planned, M!Settled
    <3>2. pc = "plan" /\ pc' \in {"show", "stop"} /\ UNCHANGED <<host, config, state>> /\ excuses' \subseteq excuses
      BY <1>3, <2>2 DEF M!Plan, M!Planned
    <3> QED
      BY <1>0, <3>1, <3>2, BeginStep
  <2> QED
    BY <2>1, <2>2
<1>4. CASE M!ShowImage \/ M!DropImage \/ M!DropImageIgnored
  <2>1. pc \in {"show", "drop"} /\ pc' \in {"drop", "fetch"} /\ UNCHANGED <<config, state>> /\ excuses' = excuses
    BY <1>4 DEF M!ShowImage, M!DropImage, M!DropImageIgnored
  <2> QED
    BY <2>1, WorkStep
<1>5. CASE M!FetchImage \/ M!PutSettings \/ M!DaemonReload \/ M!SetEnabled(TRUE) \/ M!StartUnit(host.image)
  <2>1. /\ pc \in {"fetch", "settings", "reload", "enable", "activate"}
        /\ pc' \in {"settings", "reload", "enable", "activate", "record"} /\ UNCHANGED <<config, state>> /\ excuses' = excuses
    BY <1>5 DEF M!FetchImage, M!PutSettings, M!DaemonReload, M!SetEnabled, M!StartUnit, M!AfterFetch, M!Lifecycle,
                M!AfterEnable
  <2> QED
    BY <2>1, WorkStep
<1>6. CASE M!StopUnit \/ M!StopUnitIgnored
  <2>1. pc \in {"stop", "activate"} /\ pc' \in {"disable", "record"} /\ UNCHANGED <<config, state>> /\ excuses \subseteq excuses'
    BY <1>6 DEF M!StopUnit, M!StopUnitIgnored, M!Stopping, M!AfterStop
  <2> QED
    BY <2>1, WorkStep
<1>7. CASE M!DisableUnit("unset") \/ M!DisableUnitIgnored("unset", TRUE)
  <2>1. pc = "disable" /\ pc' = "unset" /\ UNCHANGED <<config, state>> /\ excuses \subseteq excuses'
    BY <1>7 DEF M!DisableUnit, M!DisableUnitIgnored
  <2> QED
    BY <2>1, WorkStep
<1>8. CASE M!RemoveSettings \/ M!RemoveSettingsIgnored \/ M!RemoveImage
  <2>1. /\ pc \in {"unset", "remove"} /\ pc' \in {"remove", "forget"} /\ UNCHANGED <<config, state>>
        /\ excuses \subseteq excuses'
    BY <1>8 DEF M!RemoveSettings, M!RemoveSettingsIgnored, M!RemoveImage
  <2> QED
    BY <2>1, WorkStep
<1>9. CASE M!Record
  <2>1. /\ pc = "record" /\ pc' = "idle" /\ UNCHANGED <<host, config>>
        /\ excuses' = excuses \ {"failed", "unrecorded"}
        /\ state' = [image |-> config.image, settings |-> config.settings, enable |-> config.enable,
                     active |-> config.active, delete_image |-> config.delete_image,
                     tainted |-> state = None /\ config.settings = Absent]
    BY <1>9 DEF M!Record, M!RecordPut
  <2>2. config # None /\ config \in MachineConfigs
    BY <2>1 DEF MachineInv, MachineSteps, M!TypeOK, M!TypesWith
  <2>3. state' \in M!MachineStates
    <3>1. config \in [image : Images, settings : Contents \cup {Absent}, enable : Flags, active : Flags,
                      delete_image : BOOLEAN]
      BY <2>2, ConfigsAssumption
    <3> QED
      BY <2>1, <3>1 DEF M!MachineStates, M!Flags, Flags
  <2>4. state' # None
    BY <2>3, NoneAssumption
  <2>5. CASE state'.tainted
    <3>1. config.settings = Absent
      BY <2>1, <2>5
    <3>2. ~M!Settled' /\ M!Hopeless'
      BY <2>1, <2>2, <2>5, <3>1 DEF M!Settled, M!Hopeless, M!Replaced
    <3> QED
      BY <1>0, <2>1, <3>2, EndStep
  <2>6. CASE ~state'.tainted
    <3>1. excuses' = {} => host.image = config.image /\ M!UnitAs(config, {config.image})
      BY <2>1 DEF MachineInv, MachineDone
    <3>2. /\ state'.image = config.image /\ state'.settings = config.settings /\ state'.enable = config.enable
          /\ state'.active = config.active /\ state'.delete_image = config.delete_image
      BY <2>1
    <3>3. excuses' = {} => M!Settled'
      BY <2>1, <2>2, <2>4, <2>6, <3>1, <3>2 DEF M!Settled, M!Changed, M!Replaced, M!UnitAs
    <3> QED
      BY <1>0, <2>1, <3>3, EndStep
  <2> QED
    BY <2>5, <2>6
<1>10. CASE M!Forget
  <2>1. pc = "forget" /\ state' = None /\ config' = config /\ pc' = (IF config = None THEN "idle" ELSE "show")
    BY <1>10 DEF M!Forget, M!RecordDelete
  <2>2. state # None
    BY <2>1 DEF MachineInv, MachineSteps
  <2>3. config = None => Standing' = "applied"
    BY <1>0, <2>1 DEF M!Settled
  <2> QED
    BY <2>1, <2>2, <2>3, EndStep, ReplaceStep
<1>11. CASE M!ReadLoses
  BY <1>11, LookStep DEF M!ReadLoses
<1>12. CASE M!RefuseImage \/ M!FetchImageFails \/ M!PutSettingsFails \/ M!DaemonReloadFails
  BY <1>12, EndStep DEF M!RefuseImage, M!FetchImageFails, M!PutSettingsFails, M!DaemonReloadFails
<1>13. CASE M!SetEnabledFails(TRUE) \/ M!StartUnitFails(host.image) \/ M!RemoveImageFails
  BY <1>13, EndStep DEF M!SetEnabledFails, M!StartUnitFails, M!RemoveImageFails
<1>14. CASE M!Edit(MachineConfigs)
  BY <1>14, EditStep DEF M!Edit
<1>15. CASE M!Crash
  <2>1. CASE AtRest
    BY <1>15, <2>1, StutterStep DEF M!Crash
  <2>2. CASE ~AtRest
    BY <1>15, <2>2, EndStep DEF M!Crash
  <2> QED
    BY <2>1, <2>2
<1>16. CASE M!Meddle(M!Others)
  BY <1>16, DisturbStep DEF M!Meddle
<1> QED
  BY <1>1, <1>2, <1>3, <1>4, <1>5, <1>6, <1>7, <1>8, <1>9, <1>10, <1>11, <1>12, <1>13, <1>14, <1>15, <1>16
  DEF M!Next, M!Run

-----------------------------------------------------------------------------

\* Whatever the resource, and whatever fails, crashes, is edited or is changed by others:
\* an operation begins only when something is left to apply and ends with it applied,
\* stuck or excused; a refresh of what is applied finds nothing to do; and a resource
\* leaves the state only by a delete or with an excuse.
THEOREM ResourcesKeepRunContract == Spec => KeepsRunContract
<1> DEFINE Inv == /\ kind = "machine" => MachineInv
                  /\ kind = "portable" => PortableInv
                  /\ kind = "file" => FileInv
                  /\ kind = "credential" => CredentialInv
                  /\ kind = "instance" => InstanceInv
<1>1. Init => Contract!Init
  BY DEF Init, M!Init, P!Init, F!Init, C!Init, I!Init, M!InitWith, P!InitWith, F!InitWith, C!InitWith, I!InitWith,
         Contract!Init, AtRest
<1>2. Inv /\ [Next]_allVars => [Contract!Next]_Contract!vars
  <2>1. ASSUME Inv, Next PROVE ContractStep
    BY <2>1, MachineContract, PortableContract, FileContract, CredentialContract, InstanceContract DEF Next
  <2>2. ASSUME UNCHANGED allVars PROVE UNCHANGED Contract!vars
    BY <2>2, SameStanding DEF allVars, vars, Contract!vars, AtRest
  <2> QED
    BY <2>1, <2>2 DEF ContractStep
<1>3. Spec => []Inv
  BY MachineInvariance, PortableInvariance, FileInvariance, CredentialInvariance, InstanceInvariance, PTL
<1> QED
  BY <1>1, <1>2, <1>3, PTL DEF Spec, KeepsRunContract, Contract!Spec

\* A resource that is as configured is left alone by every further run, until somebody
\* edits the configuration or interferes, or a read fails.
THEOREM ResourcesAreIdempotent == Spec => Contract!Idempotent
<1>1. [Contract!Next]_(Contract!vars) => [Contract!LeftAlone]_(Contract!vars)
  BY DEF Contract!LeftAlone, Contract!Next, Contract!Edit, Contract!Look, Contract!Begin,
         Contract!Work, Contract!End, Contract!Disturb, Contract!AtRest, Contract!vars
<1> QED
  BY <1>1, ResourcesKeepRunContract, PTL DEF KeepsRunContract, Contract!Spec, Contract!Idempotent
=============================================================================
