------------------------- MODULE ManagedFiles_proofs -------------------------
(***************************************************************************)
(* Proofs about ManagedFiles, for any number of units and drop-ins,        *)
(* contents, edits and troubles.                                           *)
(*                                                                         *)
(* StateTrue speaks of a file between two runs of Terraform.  Owned(f) is  *)
(* its strengthening: during an operation, what the client has established *)
(* so far (Progress, of UnitApply_proofs), and that the operation is the   *)
(* one the configuration calls for.  The client's calls are steps of       *)
(* UnitApply, so what is proved of them there carries over.  What somebody *)
(* else did to the file undoes both, until the next operation begins: it   *)
(* establishes all it needs anew (Beginning).                              *)
(***************************************************************************)
EXTENDS ManagedFiles, UnitApply_proofs

\* The operation under way is the one the configuration calls for, and has come as
\* far as it has, unless somebody else changed the file since it began.
ApplyingOf(f) ==
    /\ goal[f] = IF config[f] = None THEN DeleteGoal ELSE config[f].put
    /\ "drift" \notin excuses[f] => Progress(f)

\* What the state says, and the plan compares, is on the host.
TrueOf(f) ==
    /\ HostHonours(f, Applied(state[f]), View(f))
    /\ state[f] # None => state[f].content = state[f].body

\* Between operations nothing is under way.
RestingOf(f) ==
    /\ pc[f] = "idle"
    /\ excuses[f] = {} => TrueOf(f)

Owned(f) ==
    /\ config[f] \in Wanted[f] \cup {None}
    /\ IF phase[f] = "applying" THEN ApplyingOf(f) ELSE RestingOf(f)

ManagedInv ==
    /\ TypeOK
    /\ ManagedTypeOK
    /\ \A f \in Files : Owned(f)

USE KindsAssumption, ContentsAssumption, ConfigsAssumption, MaxOpsAssumption,
    WantedAssumption, BoundsAssumption, NoneAssumption
  DEF FileState, Modes, Flags, Steps, Outcomes, Goals, Ignorable, Files, Services, Resources,
      host, call, vars, InFlight, Goto, Finish, Activate, Lifecycle, FirstPutStep, FirstDeleteStep,
      Begin, DeleteGoal, MayReload, PutSteps, DeleteSteps

\* Terraform first meets the host: whatever is there is unmanaged.
LEMMA ManagedInitially == ManagedInit => ManagedInv
<1> SUFFICES ASSUME ManagedInit PROVE ManagedInv
  OBVIOUS
<1>1. TypeOK
  BY Initially DEF ManagedInit, IInv
<1>2. ManagedTypeOK
  BY <1>1 DEF ManagedInit, ManagedTypeOK, TypeOK
<1>3. ASSUME NEW f \in Files PROVE Owned(f)
  BY <1>1, <1>3 DEF ManagedInit, Init, Owned, RestingOf, TrueOf, Applied, HostHonours, View
<1> QED
  BY <1>1, <1>2, <1>3 DEF ManagedInv

\* A call of f, whether it succeeds or fails, is a step of UnitApply.
LEMMA CallIsStep ==
    ASSUME NEW f \in Files, CallSucceeds(f) \/ CallFails(f)
    PROVE  ResourceStep(f) /\ Next /\ UNCHANGED <<config, state, phase, excuses, edits>>
BY DEF CallSucceeds, CallFails, ResourceStep, Next, UnitStep, FileStep, ServiceStep, Files, Services, Resources

\* A call needs an operation under way, which it neither ends nor changes for Terraform.
LEMMA CallIsOfOperation ==
    ASSUME ManagedInv, NEW f \in Files, CallSucceeds(f) \/ CallFails(f)
    PROVE  phase[f] = "applying" /\ goal'[f] = goal[f]
<1>1. pc[f] # "idle" /\ goal' = goal
  BY DEF CallSucceeds, CallFails, WriteFile, DaemonReload, RemoveFile, ReadUnit, VerifyPasses,
       RollbackUnit, SetEnabled, StartUnit, StopUnit, DisableUnit, WriteFileFails, DaemonReloadFails,
       RemoveFileFails, ReadUnitFails, VerifyFails, RollbackUnitFails, SetEnabledFails, StartUnitFails,
       StopUnitFails, DisableUnitFails, Stopping
<1> QED
  BY <1>1 DEF ManagedInv, Owned, RestingOf

\* It carries what the operation has established on to the next call.
LEMMA OwnCall ==
    ASSUME ManagedInv, NEW f \in Files, CallSucceeds(f) \/ CallFails(f)
    PROVE  ApplyingOf(f)'
<1>1. phase[f] = "applying" /\ goal'[f] = goal[f] /\ ApplyingOf(f) /\ UNCHANGED <<config, excuses>>
  BY CallIsOfOperation, CallIsStep DEF ManagedInv, Owned
<1>2. Progress(f) => Progress(f)'
  BY CallIsStep, OwnProgress DEF ManagedInv
<1> QED
  BY <1>1, <1>2 DEF ApplyingOf

\* What the steps of other resources can do to one.
Untouched(g) ==
    /\ Undisturbed(g)
    /\ UNCHANGED <<config[g], state[g], phase[g], excuses[g]>>

\* A host that is as asked stays so when the manager reads the file again.
LEMMA UndisturbedHonours ==
    ASSUME NEW g \in Files, NEW asked, HostHonours(g, asked, View(g)), Undisturbed(g)
    PROVE  View(g)' = View(g)
BY DEF Undisturbed, HostHonours, View

\* What Owned says of a resource nobody touched still holds.
LEMMA UntouchedOwned ==
    ASSUME TypeOK, NEW g \in Files, Owned(g), Untouched(g) PROVE Owned(g)'
<1>1. CASE phase[g] = "applying"
  <2>1. Progress(g) => Progress(g)'
    BY ProgressStable DEF Untouched
  <2> QED
    BY <1>1, <2>1 DEF Owned, ApplyingOf, Untouched, Undisturbed
<1>2. CASE phase[g] # "applying"
  <2>1. ASSUME TrueOf(g) PROVE TrueOf(g)'
    <3>1. HostHonours(g, Applied(state[g]), View(g)) /\ Undisturbed(g) /\ state'[g] = state[g]
      BY <2>1 DEF TrueOf, Untouched
    <3>2. View(g)' = View(g)
      BY <3>1, UndisturbedHonours
    <3>3. Applied(state[g])' = Applied(state[g])
      BY <3>1 DEF Applied
    <3> QED
      BY <2>1, <3>1, <3>2, <3>3 DEF TrueOf, HostHonours
  <2> QED
    BY <1>2, <2>1 DEF Owned, RestingOf, Untouched, Undisturbed
<1> QED
  BY <1>1, <1>2

\* A step of Terraform, or of the world, for one resource.
TerraformStep(f) ==
    \/ Refresh(f) \/ NoChanges(f) \/ Apply(f) \/ Record(f)
    \/ RefreshFails(f) \/ Import(f) \/ Edit(f) \/ Drift(f)

\* What may be configured is a put of contents the file may hold, and what is
\* recorded of it a state.
LEMMA WantedPut ==
    ASSUME NEW f \in Files, NEW w \in Wanted[f]
    PROVE  w.put \in Goals /\ w.put.op = "put" /\ StateOf(w) \in States
<1>1. w.form \in {"raw", "typed"} /\ w.put \in Configs[f]
  OBVIOUS
<1>2. w.put \in [op : {"put"}, content : Contents, enable : Flags, active : Flags]
  BY <1>1
<1> QED
  BY <1>1, <1>2 DEF StateOf, States

\* Operations that are forgotten are idle, and everything keeps its type.
LEMMA Forgetting ==
    ASSUME TypeOK, NEW fs, Forget(fs)
    PROVE  TypeOK' /\ \A f \in Files \cap fs : pc'[f] = "idle"
<1> USE DEF Forget, TypeOK
<1>1. pc' \in [Resources -> Steps] /\ outcome' \in [Resources -> Outcomes]
  OBVIOUS
<1>2. goal' \in [Resources -> Goals]
  OBVIOUS
<1>3. prev' \in [Units -> FileState]
  OBVIOUS
<1> QED
  BY <1>1, <1>2, <1>3

\* Every step of Terraform or of the world keeps the types.
LEMMA TerraformTyping ==
    ASSUME ManagedInv, NEW f \in Files, TerraformStep(f)
    PROVE  TypeOK' /\ ManagedTypeOK'
<1> USE DEF ManagedInv, TypeOK, ManagedTypeOK, EnterPhase, SetState, Excuse, Trouble
<1>0. f \in Resources
  OBVIOUS
<1>1. CASE Refresh(f)
  <2>1. state[f] # None /\ file[f] # Absent => [state[f] EXCEPT !.content = file[f]] \in States
    <3>1. state[f] # None => state[f] \in States
      OBVIOUS
    <3>2. file[f] # Absent => file[f] \in Contents
      OBVIOUS
    <3> QED
      BY <3>1, <3>2 DEF States
  <2>2. state' \in [Files -> States \cup {None}]
    <3>1. \E s \in States \cup {None} : state' = state \/ state' = [state EXCEPT ![f] = s]
      BY <1>1, <2>1 DEF Refresh
    <3>2. state \in [Files -> States \cup {None}]
      OBVIOUS
    <3> HIDE DEF ManagedInv, TypeOK
    <3> QED
      BY <3>1, <3>2
  <2> QED
    BY <1>1, <2>2 DEF Refresh
<1>2. CASE NoChanges(f)
  BY <1>0, <1>2 DEF NoChanges
<1>3. CASE Apply(f)
  <2>1. config[f] # None => config[f].put \in Goals
    BY WantedPut DEF Owned
  <2>2. \E g \in Goals, step \in Steps : Begin(f, g, step)
    <3>1. DeleteGoal \in Goals /\ FirstDeleteStep(f) \in Steps /\ FirstPutStep(f, config[f].put) \in Steps
      OBVIOUS
    <3> HIDE DEF Begin, DeleteGoal, FirstDeleteStep, FirstPutStep
    <3> QED
      BY <1>3, <2>1, <3>1 DEF Apply
  <2>3. PICK g \in Goals, step \in Steps : Begin(f, g, step)
    BY <2>2
  <2>4. goal' \in [Resources -> Goals] /\ pc' \in [Resources -> Steps]
    BY <1>0, <2>3
  <2>5. outcome' \in [Resources -> Outcomes]
    BY <1>0, <2>3
  <2>6. ignored' \in [Services -> SUBSET Ignorable]
    BY <2>3
  <2>7. prev' \in [Units -> FileState]
    BY <2>3
  <2> QED
    BY <1>3, <2>3, <2>4, <2>5, <2>6, <2>7 DEF Apply
<1>4. CASE Record(f)
  <2>1. TypeOK'
    BY <1>4, Forgetting DEF Record
  <2>2. state' \in [Files -> States \cup {None}]
    <3>1. goal[f].op = "put" => StateOf(config[f]) \in States
      BY <1>4, WantedPut DEF Record, Owned, ApplyingOf
    <3>2. UNCHANGED state \/ state' = [state EXCEPT ![f] = IF goal[f].op = "put" THEN StateOf(config[f]) ELSE None]
      BY <1>4 DEF Record
    <3> HIDE DEF TypeOK
    <3> QED
      BY <3>1, <3>2
  <2>3. excuses' \in [Files -> SUBSET {"unmanaged", "drift", "failed"}]
    <3>1. excuses[f] \cap {"drift"} \in SUBSET {"unmanaged", "drift", "failed"}
      OBVIOUS
    <3>2. \A why \in {"unmanaged", "failed"} : excuses[f] \cup {why} \in SUBSET {"unmanaged", "drift", "failed"}
      OBVIOUS
    <3>3. CASE outcome[f] = "ok"
      <4>1. excuses' = [excuses EXCEPT ![f] = excuses[f] \cap {"drift"}]
        BY <1>4, <3>3 DEF Record
      <4> QED
        BY <3>1, <4>1
    <3>4. CASE outcome[f] # "ok"
      <4>1. \E why \in {"unmanaged", "failed"} : excuses' = [excuses EXCEPT ![f] = excuses[f] \cup {why}]
        BY <1>4, <3>4 DEF Record
      <4> QED
        BY <3>2, <4>1
    <3> QED
      BY <3>3, <3>4
  <2> QED
    BY <1>4, <2>1, <2>2, <2>3 DEF Record
<1>5. CASE RefreshFails(f)
  BY <1>0, <1>5 DEF RefreshFails
<1>6. CASE Import(f)
  <2>1. file[f] \in Contents
    BY <1>6 DEF Import
  <2>2. state' \in [Files -> States \cup {None}]
    BY <1>6, <2>1 DEF Import, States
  <2> QED
    BY <1>6, <2>2 DEF Import
<1>7. CASE Edit(f)
  BY <1>0, <1>7 DEF Edit
<1>8. CASE Drift(f)
  <2>1. file' \in [Files -> FileState]
    BY <1>8 DEF Drift
  <2>2. excuses' \in [Files -> SUBSET {"unmanaged", "drift", "failed"}]
    BY <1>8 DEF Drift
  <2>3. troubles' \in 0..MaxTroubles
    BY <1>8 DEF Drift
  <2> QED
    BY <1>8, <2>1, <2>2, <2>3 DEF Drift
<1> QED
  BY <1>1, <1>2, <1>3, <1>4, <1>5, <1>6, <1>7, <1>8 DEF TerraformStep

\* A step for one resource leaves the others alone.
LEMMA TerraformAlone ==
    ASSUME ManagedInv, NEW f \in Files, TerraformStep(f), NEW g \in Files \ {f}
    PROVE  Untouched(g)
<1> USE DEF ManagedInv, TypeOK, ManagedTypeOK, EnterPhase, SetState, Excuse, Untouched, Undisturbed
<1>1. CASE Refresh(f) \/ NoChanges(f)
  BY <1>1 DEF Refresh, NoChanges
<1>2. CASE Apply(f)
  BY <1>2 DEF Apply
<1>3. CASE Record(f)
  BY <1>3 DEF Record, Forget
<1>4. CASE RefreshFails(f) \/ Import(f)
  BY <1>4 DEF RefreshFails, Import
<1>5. CASE Edit(f) \/ Drift(f)
  BY <1>5 DEF Edit, Drift
<1> QED
  BY <1>1, <1>2, <1>3, <1>4, <1>5 DEF TerraformStep

\* An operation that begins needs nothing of what was before.
LEMMA Beginning ==
    ASSUME TypeOK, NEW f \in Files,
           \/ \E g \in Configs[f] : Begin(f, g, FirstPutStep(f, g))
           \/ Begin(f, DeleteGoal, FirstDeleteStep(f))
    PROVE  Progress(f)'
<1>1. PICK g, step :
        /\ Begin(f, g, step)
        /\ \/ g \in Configs[f] /\ step = FirstPutStep(f, g)
           \/ g = DeleteGoal /\ step = FirstDeleteStep(f)
  OBVIOUS
<1>2. /\ goal'[f] = g /\ pc'[f] = step
      /\ step \in {"read", "write", "stop", "remove"}
      /\ outcome'[f] = "none"
      /\ f \in Services => ignored'[f] = {} /\ step # "remove"
  BY <1>1 DEF TypeOK
<1>3. g.op = "put" \/ g = DeleteGoal
  BY <1>1
<1>4. StepsOf(f)'
  <2>1. CASE f \in Units
    BY <1>1, <1>2, <2>1 DEF StepsOf
  <2>2. CASE f \in Dropins
    BY <1>1, <1>2, <2>2 DEF StepsOf
  <2> QED
    BY <2>1, <2>2
<1>5. FileOf(f)'
  BY <1>2 DEF FileOf, Succeeded
<1>6. f \in Services => ServiceOf(f)'
  BY <1>2 DEF ServiceOf, Succeeded, Removing
<1> QED
  BY <1>4, <1>5, <1>6 DEF Progress

\* A refresh of what is as the state says changes nothing in the state.
LEMMA RefreshOfTrue ==
    ASSUME ManagedInv, NEW f \in Files, Refresh(f), excuses[f] = {}
    PROVE  state'[f] = state[f] /\ TrueOf(f)
<1>1. TrueOf(f) /\ state[f] \in States \cup {None} /\ state \in [Files -> States \cup {None}]
  BY DEF ManagedInv, ManagedTypeOK, Refresh, Owned, RestingOf
<1>2. CASE state[f] = None
  BY <1>1, <1>2 DEF Refresh
<1>3. CASE state[f] # None
  <2>1. file[f] = state[f].body /\ state[f].content = state[f].body /\ state[f].body \in Contents
    BY <1>1, <1>3 DEF TrueOf, Applied, HostHonours, View, States
  <2>2. state' = [state EXCEPT ![f] = [state[f] EXCEPT !.content = file[f]]]
    BY <1>3, <2>1 DEF Refresh, SetState
  <2>3. [state[f] EXCEPT !.content = file[f]] = state[f]
    BY <1>1, <1>3, <2>1 DEF States
  <2> QED
    BY <1>1, <2>2, <2>3
<1> QED
  BY <1>2, <1>3

\* What is recorded of a put is what the put was asked for.
LEMMA RecordedPut ==
    ASSUME NEW f \in Files, NEW w \in Wanted[f]
    PROVE  Applied(StateOf(w)) = w.put /\ StateOf(w) # None /\ StateOf(w).content = StateOf(w).body
<1>1. w.form \in {"raw", "typed"} /\ w.put \in Configs[f]
  OBVIOUS
<1>2. w.put \in [op : {"put"}, content : Contents, enable : Flags, active : Flags]
  BY <1>1
<1>3. StateOf(w) # None
  BY WantedPut
<1> QED
  BY <1>2, <1>3 DEF Applied, StateOf

\* An operation that is recorded as a success left the host as the state now says.
LEMMA RecordIsTrue ==
    ASSUME ManagedInv, NEW f \in Files, Record(f), excuses'[f] = {}
    PROVE  TrueOf(f)' /\ outcome[f] = "ok" /\ state'[f] = IF config[f] = None THEN None ELSE StateOf(config[f])
<1> USE DEF ManagedInv, TypeOK, ManagedTypeOK
<1>1. phase[f] = "applying" /\ pc[f] = "done" /\ ApplyingOf(f) /\ config[f] \in Wanted[f] \cup {None}
  BY DEF Record, Owned
<1>2. outcome[f] = "ok"
  <2>1. outcome[f] # "ok" => \E why : excuses' = [excuses EXCEPT ![f] = excuses[f] \cup {why}]
    BY DEF Record, Excuse
  <2>2. \A why : excuses' = [excuses EXCEPT ![f] = excuses[f] \cup {why}] => why \in excuses'[f]
    OBVIOUS
  <2> QED
    BY <2>1, <2>2
<1>3. "drift" \notin excuses[f]
  BY <1>2 DEF Record
<1>4. HostHonours(f, goal[f], View(f))
  BY <1>1, <1>2, <1>3, ProgressHonours DEF ApplyingOf, Status
<1>5. state'[f] = IF goal[f].op = "put" THEN StateOf(config[f]) ELSE None
  BY <1>2 DEF Record, SetState
<1>6. View(f)' = View(f)
  BY DEF Record, Forget, View
<1>7. CASE config[f] = None
  BY <1>1, <1>2, <1>4, <1>5, <1>6, <1>7 DEF ApplyingOf, TrueOf, Applied, HostHonours
<1>8. CASE config[f] # None
  <2>1. config[f] \in Wanted[f] /\ goal[f] = config[f].put
    BY <1>1, <1>8 DEF ApplyingOf
  <2>2. state'[f] = StateOf(config[f])
    BY <1>5, <2>1, WantedPut
  <2> QED
    BY <1>2, <1>4, <1>6, <1>8, <2>1, <2>2, RecordedPut DEF TrueOf, HostHonours
<1> QED
  BY <1>7, <1>8

\* A step of Terraform keeps what its resource's run has established.
LEMMA TerraformOwn ==
    ASSUME ManagedInv, NEW f \in Files, TerraformStep(f)
    PROVE  Owned(f)'
<1> USE DEF ManagedInv, TypeOK, ManagedTypeOK, EnterPhase, SetState, Excuse, Owned
<1>0. f \in Resources
  OBVIOUS
<1>1. CASE Refresh(f)
  <2>1. View(f)' = View(f) /\ UNCHANGED <<config, pc, excuses>> /\ phase'[f] = "refreshed" /\ pc[f] = "idle"
    BY <1>1 DEF Refresh, View, RestingOf
  <2>2. excuses[f] = {} => TrueOf(f)'
    <3>1. excuses[f] = {} => state'[f] = state[f] /\ TrueOf(f)
      BY <1>1, RefreshOfTrue
    <3>2. state'[f] = state[f] => Applied(state[f])' = Applied(state[f])
      BY DEF Applied
    <3> HIDE DEF ManagedInv, TypeOK, ManagedTypeOK
    <3> QED
      BY <2>1, <3>1, <3>2 DEF TrueOf, HostHonours
  <2> QED
    BY <2>1, <2>2 DEF RestingOf
<1>2. CASE NoChanges(f)
  BY <1>0, <1>2 DEF NoChanges, RestingOf, TrueOf, HostHonours, View, Applied
<1>3. CASE Apply(f)
  <2>1. phase'[f] = "applying" /\ config' = config
    BY <1>3 DEF Apply
  <2>2. goal'[f] = IF config[f] = None THEN DeleteGoal ELSE config[f].put
    BY <1>0, <1>3 DEF Apply
  <2>3. Progress(f)'
    <3>1. config[f] # None => config[f].put \in Configs[f]
      OBVIOUS
    <3> HIDE DEF Begin, FirstPutStep, FirstDeleteStep, ManagedInv, TypeOK, ManagedTypeOK
    <3> QED
      BY <1>3, <3>1, Beginning DEF Apply, ManagedInv
  <2> QED
    BY <2>1, <2>2, <2>3 DEF ApplyingOf
<1>4. CASE Record(f)
  <2>1. phase'[f] = "idle" /\ pc'[f] = "idle" /\ config' = config
    BY <1>0, <1>4 DEF Record, Forget
  <2> QED
    BY <1>4, <2>1, RecordIsTrue DEF RestingOf
<1>5. CASE RefreshFails(f)
  BY <1>0, <1>5 DEF RefreshFails, RestingOf
<1>6. CASE Import(f)
  <2>1. excuses[f] # {}
    BY <1>6 DEF Import, RestingOf, TrueOf, Applied, HostHonours, View
  <2> QED
    BY <1>6, <2>1 DEF Import, RestingOf
<1>7. CASE Edit(f)
  <2>1. config'[f] \in Wanted[f] \cup {None}
    BY <1>7 DEF Edit
  <2> QED
    BY <1>7, <2>1 DEF Edit, RestingOf, TrueOf, HostHonours, View, Applied
<1>8. CASE Drift(f)
  <2>1. "drift" \in excuses'[f] /\ UNCHANGED <<config, state, phase, pc, goal, outcome>>
    BY <1>8 DEF Drift
  <2> QED
    BY <2>1 DEF ApplyingOf, RestingOf
<1> QED
  BY <1>1, <1>2, <1>3, <1>4, <1>5, <1>6, <1>7, <1>8 DEF TerraformStep

\* Every step keeps the invariant.
LEMMA ManagedInductive == ManagedInv /\ [ManagedNext]_managedVars => ManagedInv'
<1> SUFFICES ASSUME ManagedInv, [ManagedNext]_managedVars PROVE ManagedInv'
  OBVIOUS
<1>1. ASSUME NEW f \in Files, TerraformStep(f) PROVE ManagedInv'
  <2>1. ASSUME NEW g \in Files PROVE Owned(g)'
    BY <1>1, <2>1, TerraformOwn, TerraformAlone, UntouchedOwned DEF ManagedInv
  <2> QED
    BY <1>1, <2>1, TerraformTyping DEF ManagedInv
<1>2. ASSUME NEW f \in Files, CallSucceeds(f) \/ CallFails(f) PROVE ManagedInv'
  <2>1. ResourceStep(f) /\ Next /\ UNCHANGED <<config, state, phase, excuses, edits>>
    BY <1>2, CallIsStep
  <2>2. TypeOK'
    BY <2>1, Typing DEF ManagedInv
  <2>3. troubles' \in 0..MaxTroubles
    BY <1>2 DEF ManagedInv, ManagedTypeOK, CallSucceeds, CallFails, Trouble
  <2>4. ManagedTypeOK'
    BY <2>1, <2>3 DEF ManagedInv, ManagedTypeOK
  <2>5. Owned(f)'
    BY <1>2, <2>1, CallIsOfOperation, OwnCall DEF ManagedInv, Owned
  <2>6. ASSUME NEW g \in Files \ {f} PROVE Owned(g)'
    <3>1. Undisturbed(g)
      BY <2>1, Others DEF ManagedInv
    <3> QED
      BY <2>1, <3>1, UntouchedOwned DEF ManagedInv, Untouched
  <2> QED
    BY <2>2, <2>4, <2>5, <2>6 DEF ManagedInv
<1>3. CASE Crash
  <2>1. TypeOK'
    BY <1>3, Forgetting DEF Crash, ManagedInv
  <2>2. ManagedTypeOK'
    BY <1>3 DEF Crash, Trouble, ManagedInv, ManagedTypeOK
  <2>3. ASSUME NEW f \in Files PROVE Owned(f)'
    <3>1. phase'[f] = "idle" /\ UNCHANGED <<config, state>> /\ View(f)' = View(f)
      BY <1>3, <2>3 DEF Crash, Forget, View, ManagedInv, ManagedTypeOK
    <3>2. CASE phase[f] = "applying"
      <4>1. pc'[f] = "idle" /\ "failed" \in excuses'[f]
        BY <1>3, <2>3, <3>2 DEF Crash, Forget, ManagedInv, ManagedTypeOK
      <4> QED
        BY <3>1, <4>1 DEF ManagedInv, Owned, RestingOf
    <3>3. CASE phase[f] # "applying"
      <4>1. pc'[f] = pc[f] /\ excuses'[f] = excuses[f]
        BY <1>3, <2>3, <3>3 DEF Crash, Forget, ManagedInv, ManagedTypeOK, TypeOK
      <4> QED
        BY <3>1, <3>3, <4>1 DEF ManagedInv, Owned, RestingOf, TrueOf, HostHonours, Applied
    <3> QED
      BY <3>2, <3>3
  <2> QED
    BY <2>1, <2>2, <2>3 DEF ManagedInv
<1>4. CASE UNCHANGED managedVars
  <2>1. TypeOK' /\ ManagedTypeOK'
    BY <1>4 DEF managedVars, ManagedInv, TypeOK, ManagedTypeOK
  <2>2. ASSUME NEW f \in Files PROVE Owned(f)'
    BY <1>4, <2>2, UntouchedOwned DEF managedVars, ManagedInv, TypeOK, Untouched, Undisturbed
  <2> QED
    BY <2>1, <2>2 DEF ManagedInv
<1> QED
  BY <1>1, <1>2, <1>3, <1>4 DEF ManagedNext, Run, TerraformStep

\* The invariant holds in every reachable state.
LEMMA ManagedInvariance == ManagedSpec => []ManagedInv
  BY ManagedInitially, ManagedInductive, PTL DEF ManagedSpec

\* Terraform's state, the run it is in and the excuses keep their types, whatever
\* fails and is edited.
THEOREM ManagedTypes == ManagedSpec => []ManagedTypeOK
  BY ManagedInvariance, PTL DEF ManagedInv

\* Between operations the host is as the state says, and nothing is left of what no
\* state says, unless a named excuse is on record.
THEOREM FilesAreTrue == ManagedSpec => []StateTrue
<1>1. ManagedInv => StateTrue
  BY DEF ManagedInv, Owned, RestingOf, TrueOf, StateTrue
<1> QED
  BY <1>1, ManagedInvariance, PTL

-----------------------------------------------------------------------------
(* The contract of RunContract, file by file.                                  *)

PromiseStep(f) == Promise(f)!Next \/ UNCHANGED Promise(f)!vars

\* What is in the contract's view of a file, and decides it.
Same(f) == View(f)' = View(f) /\ UNCHANGED <<config[f], state[f], phase[f], excuses[f]>>

\* Where none of that changes, the contract sees a stutter.
LEMMA SameIsStutter ==
    ASSUME NEW f \in Files, Same(f) PROVE UNCHANGED Promise(f)!vars
<1>1. UNCHANGED <<OnHost(f), state[f] # None, Doing(f), Excused(f)>>
  BY DEF Same, OnHost, Doing, Excused
<1>2. file'[f] = file[f]
  BY DEF Same, View
<1>3. UNCHANGED <<NothingToDo(f), Settled(f)>>
  BY <1>2 DEF Same, NothingToDo, Differs, Settled, HostHonours
<1> QED
  BY <1>1, <1>3 DEF Same, Standing, Promise!vars

\* The steps of other resources: what is at rest without an excuse does not notice.
LEMMA UntouchedPromise ==
    ASSUME NEW g \in Files, Owned(g), Untouched(g) PROVE PromiseStep(g)
<1>0. UNCHANGED <<config[g], state[g], phase[g], excuses[g]>> /\ Undisturbed(g)
  BY DEF Untouched
<1>1. CASE phase[g] = "applying"
  BY <1>0, <1>1 DEF PromiseStep, Promise!Next, Promise!Work, Doing, Excused
<1>2. CASE Excused(g)
  BY <1>0, <1>2 DEF PromiseStep, Promise!Next, Promise!Disturb, Doing, Excused
<1>3. CASE phase[g] # "applying" /\ ~Excused(g)
  <2>1. HostHonours(g, Applied(state[g]), View(g))
    BY <1>3 DEF Owned, RestingOf, TrueOf, Excused
  <2>2. Same(g)
    BY <1>0, <2>1, UndisturbedHonours DEF Same
  <2> QED
    BY <2>2, SameIsStutter DEF PromiseStep
<1> QED
  BY <1>1, <1>2, <1>3

\* An operation recorded without an excuse leaves nothing to apply.
LEMMA RecordApplies ==
    ASSUME ManagedInv, NEW f \in Files, Record(f), excuses'[f] = {}
    PROVE  Standing(f)' = "applied"
<1>1. TrueOf(f)' /\ state'[f] = (IF config[f] = None THEN None ELSE StateOf(config[f]))
  BY RecordIsTrue
<1>2. config' = config /\ config[f] \in Wanted[f] \cup {None}
  BY DEF Record, ManagedInv, Owned
<1>3. CASE config[f] = None
  BY <1>1, <1>2, <1>3 DEF Standing, NothingToDo, Settled
<1>4. CASE config[f] # None
  <2>1. Applied(state[f])' = config[f].put /\ state'[f] # None
    BY <1>1, <1>2, <1>4, RecordedPut DEF Applied
  <2>2. HostHonours(f, config[f].put, View(f))'
    BY <1>1, <1>2, <2>1 DEF TrueOf, HostHonours
  <2>3. file'[f] = config[f].put.content
    BY <2>2, <1>2 DEF HostHonours, View
  <2>4. ~Differs(config[f], StateOf(config[f]))
    BY DEF Differs, StateOf
  <2>5. NothingToDo(f)'
    BY <1>1, <1>2, <1>4, <2>1, <2>4 DEF NothingToDo, Differs
  <2>6. Settled(f)'
    BY <1>2, <1>4, <2>2, <2>3 DEF Settled
  <2> QED
    BY <2>5, <2>6 DEF Standing
<1> QED
  BY <1>3, <1>4

\* The steps of Terraform, and of the world, for the resource itself.
LEMMA OwnPromise ==
    ASSUME ManagedInv, NEW f \in Files, TerraformStep(f) PROVE PromiseStep(f)
<1> USE DEF EnterPhase, SetState
<1>0. /\ phase \in [Files -> {"idle", "refreshed", "applying"}]
      /\ excuses \in [Files -> SUBSET {"unmanaged", "drift", "failed"}]
      /\ state \in [Files -> States \cup {None}]
      /\ Owned(f)
  BY DEF ManagedInv, ManagedTypeOK
<1>1. CASE Refresh(f)
  <2>1. /\ View(f)' = View(f) /\ UNCHANGED <<config, excuses>>
        /\ Doing(f) = "rest" /\ Doing(f)' = "rest"
    BY <1>0, <1>1 DEF Refresh, View, Doing
  <2>2. CASE Excused(f)
    BY <2>1, <2>2 DEF PromiseStep, Promise!Next, Promise!Look, Promise!AtRest, Excused, OnHost
  <2>3. CASE ~Excused(f)
    <3>1. state'[f] = state[f]
      BY <1>1, <2>3, RefreshOfTrue DEF Excused
    <3>2. UNCHANGED <<NothingToDo(f), Settled(f)>>
      BY <1>1, <2>1, <3>1 DEF Refresh, NothingToDo, Differs, Settled, HostHonours
    <3> QED
      BY <2>1, <3>1, <3>2
      DEF PromiseStep, Promise!Next, Promise!Look, Promise!AtRest, Excused, OnHost, Standing
  <2> QED
    BY <2>2, <2>3
<1>2. CASE NoChanges(f)
  <2>1. View(f)' = View(f) /\ UNCHANGED <<config, state, excuses>>
    BY <1>2 DEF NoChanges, View
  <2>2. Doing(f) = "rest" /\ Doing(f)' = "rest"
    BY <1>0, <1>2 DEF NoChanges, Doing
  <2>3. UNCHANGED <<NothingToDo(f), Settled(f)>>
    BY <1>2, <2>1 DEF NoChanges, NothingToDo, Differs, Settled, HostHonours
  <2> QED
    BY <2>1, <2>2, <2>3 DEF PromiseStep, Promise!vars, OnHost, Standing, Excused
<1>3. CASE Apply(f)
  <2>1. Doing(f) = "rest" /\ Doing(f)' = "working" /\ config' = config
    BY <1>0, <1>3 DEF Apply, Doing
  <2>2. Standing(f) # "applied"
    BY <1>3 DEF Apply, Standing
  <2>3. state' = state /\ (Excused(f)' => Excused(f))
    BY <1>0, <1>3 DEF Apply, Excused
  <2>4. OnHost(f)' = OnHost(f)
    <3>1. UNCHANGED <<file, loaded, enabled, running>>
      BY <1>3 DEF Apply
    <3> QED
      BY <3>1 DEF OnHost, View
  <2> QED
    BY <2>1, <2>2, <2>3, <2>4 DEF PromiseStep, Promise!Next, Promise!Begin
<1>4. CASE Record(f)
  <2>1. Doing(f) = "working" /\ Doing(f)' = "rest" /\ config' = config
    BY <1>0, <1>4 DEF Record, Doing
  <2>2. Standing(f)' = "applied" \/ Excused(f)'
    BY <1>4, RecordApplies DEF Excused
  <2> QED
    BY <2>1, <2>2 DEF PromiseStep, Promise!Next, Promise!End
<1>5. CASE RefreshFails(f) \/ Import(f)
  <2>1. View(f)' = View(f) /\ config' = config /\ Doing(f) = "rest" /\ Doing(f)' = "rest"
    BY <1>0, <1>5 DEF RefreshFails, Import, View, Doing
  <2>2. Excused(f)'
    <3>1. CASE RefreshFails(f)
      BY <1>0, <3>1 DEF RefreshFails, Excuse, Excused
    <3>2. CASE Import(f)
      BY <1>0, <3>2 DEF Import, Owned, RestingOf, TrueOf, Applied, HostHonours, View, Excused
    <3> QED
      BY <1>5, <3>1, <3>2
  <2> QED
    BY <2>1, <2>2 DEF PromiseStep, Promise!Next, Promise!Look, Promise!AtRest, OnHost
<1>6. CASE Edit(f)
  <2>1. View(f)' = View(f) /\ Doing(f) = "rest" /\ Doing(f)' = "rest" /\ UNCHANGED <<state, excuses>>
    BY <1>6 DEF Edit, View, Doing
  <2>2. config'[f] # config[f]
    BY <1>6 DEF Edit, ManagedInv, ManagedTypeOK
  <2> QED
    BY <2>1, <2>2 DEF PromiseStep, Promise!Next, Promise!Edit, Promise!AtRest, OnHost, Excused
<1>7. CASE Drift(f)
  <2>1. UNCHANGED <<config, state, phase>> /\ Excused(f)'
    BY <1>0, <1>7 DEF Drift, Excuse, Excused
  <2> QED
    BY <2>1 DEF PromiseStep, Promise!Next, Promise!Disturb, Doing
<1> QED
  BY <1>1, <1>2, <1>3, <1>4, <1>5, <1>6, <1>7 DEF TerraformStep

\* Every step of the model is, for each file, a step of the contract.
LEMMA PromiseKept ==
    ASSUME ManagedInv, [ManagedNext]_managedVars, NEW g \in Files PROVE PromiseStep(g)
<1>0. Owned(g)
  BY DEF ManagedInv
<1>1. ASSUME NEW f \in Files, TerraformStep(f) PROVE PromiseStep(g)
  BY <1>0, <1>1, OwnPromise, TerraformAlone, UntouchedPromise
<1>2. ASSUME NEW f \in Files, CallSucceeds(f) \/ CallFails(f) PROVE PromiseStep(g)
  <2>1. ResourceStep(f) /\ UNCHANGED <<config, state, phase, excuses>>
    BY <1>2, CallIsStep
  <2>2. CASE g = f
    <3>1. phase[g] = "applying"
      BY <1>2, <2>2, CallIsOfOperation
    <3> QED
      BY <2>1, <3>1 DEF PromiseStep, Promise!Next, Promise!Work, Doing, Excused
  <2>3. CASE g # f
    <3>1. Untouched(g)
      BY <2>1, <2>3, Others DEF ManagedInv, Untouched
    <3> QED
      BY <1>0, <3>1, UntouchedPromise
  <2> QED
    BY <2>2, <2>3
<1>3. CASE Crash
  <2>1. phase'[g] = "idle" /\ UNCHANGED <<config, state>> /\ View(g)' = View(g)
    BY <1>3 DEF Crash, Forget, View
  <2>2. CASE phase[g] = "applying"
    <3>1. Excused(g)'
      BY <1>3, <2>2 DEF Crash, Excused
    <3> QED
      BY <2>1, <2>2, <3>1 DEF PromiseStep, Promise!Next, Promise!End, Doing
  <2>3. CASE phase[g] # "applying"
    <3>1. excuses'[g] = excuses[g] /\ file'[g] = file[g]
      BY <1>3, <2>3 DEF Crash, Forget
    <3>2. UNCHANGED <<NothingToDo(g), Settled(g)>>
      BY <2>1, <3>1 DEF NothingToDo, Differs, Settled, HostHonours
    <3> QED
      BY <2>1, <2>3, <3>1, <3>2 DEF PromiseStep, Promise!vars, OnHost, Standing, Doing, Excused
  <2> QED
    BY <2>2, <2>3
<1>4. CASE UNCHANGED managedVars
  <2>1. Same(g)
    BY <1>4 DEF managedVars, Same, View
  <2> QED
    BY <2>1, SameIsStutter DEF PromiseStep
<1> QED
  BY <1>1, <1>2, <1>3, <1>4 DEF ManagedNext, Run, TerraformStep

\* The runs on every file implement the contract: an operation begins only when
\* something is left to apply, it ends with everything applied or an excuse on record,
\* and what is applied stays applied, whatever other resources' operations do.
THEOREM FilesKeepRunContract == ManagedSpec => KeepsRunContract
<1>1. ManagedInit => \A f \in Files : Promise(f)!Init
  BY DEF ManagedInit, Promise!Init, Doing
<1>2. ManagedInv /\ [ManagedNext]_managedVars =>
        [\A f \in Files : Promise(f)!Next \/ UNCHANGED Promise(f)!vars]_managedVars
  BY PromiseKept DEF PromiseStep
<1> QED
  BY <1>1, <1>2, ManagedInvariance, PTL DEF ManagedSpec, KeepsRunContract

\* A file that is as configured is left alone by every further run, whatever the runs do
\* to other files, until somebody edits the configuration or interferes, or a read fails.
THEOREM FilesAreIdempotent ==
    ManagedSpec => [][\A f \in Files : Promise(f)!LeftAlone]_managedVars
<1>1. ASSUME [\A f \in Files : Promise(f)!Next \/ UNCHANGED Promise(f)!vars]_managedVars
      PROVE  [\A f \in Files : Promise(f)!LeftAlone]_managedVars
  <2>1. ASSUME NEW f \in Files, Promise(f)!Next \/ UNCHANGED Promise(f)!vars
        PROVE  Promise(f)!LeftAlone
    BY <2>1 DEF Promise!LeftAlone, Promise!Next, Promise!Edit, Promise!Look, Promise!Begin,
       Promise!Work, Promise!End, Promise!Disturb, Promise!AtRest, Promise!vars
  <2> QED
    BY <1>1, <2>1
<1> QED
  BY <1>1, FilesKeepRunContract, PTL DEF KeepsRunContract
=============================================================================
