------------------------- MODULE ResolveLink_proofs -------------------------
(***************************************************************************)
(* Proofs about ResolveLink, for any settings in any order, any            *)
(* configurations and any number of edits and troubles.                    *)
(*                                                                         *)
(* While nobody else changes the link, the settings before the place a put *)
(* has come to are on it, and Read's copy holds the state, or what it read *)
(* of it.                                                                  *)
(***************************************************************************)
EXTENDS ResolveLink, TLAPS

Steps ==
    /\ phase = "reading" => state # None /\ found # None
    /\ phase = "putting" => config # None
    /\ phase \in {"reverting", "reverted"} => config = None

OnLink(s, v) == v \in Values => link[s] = v

\* What an operation has done so far, unless somebody else changed the link since.
Done ==
    "foreign" \notin excuses =>
        /\ phase = "putting" => \A i \in 1..(at - 1) : OnLink(Order[i], config[Order[i]])
        /\ phase = "reverted" => \A s \in Settings : link[s] = Default

AtRest ==
    excuses = {} =>
        /\ phase \in {"idle", "reading", "planning"} /\ state # None => \A s \in Settings : OnLink(s, state[s])
        /\ phase = "reading" => \A s \in Settings : OnLink(s, found[s])
        /\ phase \in {"idle", "planning"} /\ state = None => \A s \in Settings : link[s] = Default

\* Read's copy differs from the state only where the link was asked.
Copied ==
    excuses = {} /\ phase = "reading" =>
        \A s \in Settings :
            found[s] = state[s] \/ (s \in Lists /\ state[s] # Unset /\ found[s] = ReadBack(s))

IInv == TypeOK /\ Steps /\ Done /\ AtRest /\ Copied

USE OrderAssumption, ValuesAssumption, WantedAssumption, BoundsAssumption

\* The link begins without a state and with nothing sent.
LEMMA Initially == Init => IInv
<1>1. Len(Order) \in Nat
  OBVIOUS
<1> QED
  BY <1>1 DEF Init, IInv, TypeOK, Phases, Steps, Done, AtRest, OnLink, Copied

\* A place in the order is that of one setting.
LEMMA Places ==
    /\ Len(Order) \in Nat
    /\ \A i \in 1..Len(Order) : Order[i] \in Settings
    /\ \A s \in Settings : \E i \in 1..Len(Order) : s = Order[i]
BY DEF Settings

\* Sending the setting at a place leaves the ones before it alone.
LEMMA Sending ==
    ASSUME IInv, phase = "putting", NEW i \in at..Len(Order), Sent(Order[i]), SetTo(Order[i], config[Order[i]])
    PROVE  /\ link' \in [Settings -> Values \cup {Default}]
           /\ \A j \in 1..Len(Order) : j # i => link'[Order[j]] = link[Order[j]]
           /\ config[Order[i]] \in Values => link'[Order[i]] = config[Order[i]]
<1>1. /\ i \in 1..Len(Order) /\ Order[i] \in Settings /\ link \in [Settings -> Values \cup {Default}]
      /\ config[Order[i]] \in Values \cup {Unset, Empty}
  <2>1. config \in Attributes /\ at \in Nat /\ at >= 1 /\ link \in [Settings -> Values \cup {Default}]
    BY Places DEF IInv, TypeOK, Steps
  <2>2. i \in 1..Len(Order) /\ Order[i] \in Settings
    BY <2>1, Places
  <2> QED
    BY <2>1, <2>2 DEF Attributes
<1>2. CASE config[Order[i]] = Empty
  BY <1>1, <1>2 DEF SetTo
<1>3. CASE config[Order[i]] # Empty
  <2>1. config[Order[i]] \in Values
    BY <1>1, <1>3 DEF Sent
  <2>2. link' = [link EXCEPT ![Order[i]] = config[Order[i]]]
    BY <1>3 DEF SetTo
  <2>3. \A j \in 1..Len(Order) : j # i => Order[j] # Order[i]
    BY <1>1
  <2> QED
    BY <1>1, <2>1, <2>2, <2>3, Places
<1> QED
  BY <1>2, <1>3

\* An operation that ends with an error, or is killed, notes it.
LEMMA Interrupted ==
    ASSUME IInv, phase' = "idle", at' = 1, UNCHANGED <<config, state, found, edits>>, troubles' \in 0..MaxTroubles,
           excuses' = excuses \cup {"failed"}, link' \in [Settings -> Values \cup {Default}]
    PROVE  IInv'
<1>1. "failed" \in excuses' /\ excuses' \subseteq {"failed", "foreign"}
  BY DEF IInv, TypeOK
<1>2. TypeOK'
  BY <1>1, Places DEF IInv, TypeOK, Phases
<1>3. Steps' /\ Done' /\ AtRest' /\ Copied'
  BY <1>1 DEF Steps, Done, AtRest, Copied
<1> QED
  BY <1>2, <1>3 DEF IInv

\* Every step keeps the invariant.
LEMMA Inductive == IInv /\ [Next]_vars => IInv'
<1> SUFFICES ASSUME IInv, [Next]_vars PROVE IInv'
  OBVIOUS
<1> USE Places DEF IInv, TypeOK, Phases, Steps, Done, AtRest, Copied, OnLink, Enter, bounds, Trouble, Excuse, NoneLeft, NextUp
<1>1. CASE StartRun
  BY <1>1 DEF StartRun
<1>2. CASE ReadSetting
  <2>1. PICK i \in 1..Len(Order) : found' = [found EXCEPT ![Order[i]] = ReadBack(Order[i])] /\ at' = i + 1
    BY <1>2 DEF ReadSetting
  <2>2. phase = "reading" /\ UNCHANGED <<link, config, state, phase, excuses, edits, troubles>>
    BY <1>2 DEF ReadSetting
  <2>3. found \in Attributes /\ Order[i] \in Settings
    BY <2>2
  <2>4. ReadBack(Order[i]) \in Values \cup {Empty} /\ OnLink(Order[i], ReadBack(Order[i]))
    <3>1. link[Order[i]] \in Values \cup {Default}
      BY <2>3
    <3> HIDE DEF IInv, TypeOK, Steps, Done, AtRest, Copied
    <3> QED
      BY <3>1 DEF ReadBack
  <2>5. found' \in Attributes /\ found' # None
    <3>1. found \in [Settings -> Values \cup {Unset, Empty}]
      BY <2>3 DEF Attributes
    <3>2. found' \in [Settings -> Values \cup {Unset, Empty}]
      BY <2>1, <2>4, <3>1
    <3>3. found' \in Attributes
      BY <3>2 DEF Attributes
    <3> QED
      BY <3>3
  <2>6. \A s \in Settings : OnLink(s, found[s]) => OnLink(s, found'[s])
    <3> SUFFICES ASSUME NEW s \in Settings, OnLink(s, found[s]) PROVE OnLink(s, found'[s])
      OBVIOUS
    <3> HIDE DEF IInv, TypeOK, Steps, Done, AtRest, Copied, OnLink
    <3>1. CASE s = Order[i]
      BY <2>1, <2>3, <2>4, <3>1 DEF Attributes
    <3>2. CASE s # Order[i]
      BY <2>1, <2>3, <3>2 DEF Attributes
    <3> QED
      BY <3>1, <3>2
  <2>7. TypeOK'
    <3>1. at' \in 1..(Len(Order) + 1)
      BY <2>1
    <3> HIDE DEF IInv, Steps, Done, AtRest, Copied, OnLink
    <3>2. TypeOK
      BY DEF IInv
    <3> QED
      BY <2>2, <2>5, <3>1, <3>2
  <2>8. Copied'
    <3>1. PICK k \in 1..Len(Order) : Asked(Order[k]) /\ found' = [found EXCEPT ![Order[k]] = ReadBack(Order[k])]
      BY <1>2 DEF ReadSetting
    <3>2. ASSUME excuses = {}, NEW s \in Settings
          PROVE  found'[s] = state[s] \/ (s \in Lists /\ state[s] # Unset /\ found'[s] = ReadBack(s))
      <4>1. found[s] = state[s] \/ (s \in Lists /\ state[s] # Unset /\ found[s] = ReadBack(s))
        BY <2>2, <3>2
      <4>2. CASE s = Order[k]
        <5>1. found'[s] = ReadBack(s)
          BY <2>3, <3>1, <4>2 DEF Attributes
        <5> QED
          BY <3>1, <4>1, <4>2, <5>1 DEF Asked
      <4>3. CASE s # Order[k]
        <5>1. found'[s] = found[s]
          BY <2>3, <3>1, <4>3 DEF Attributes
        <5> QED
          BY <4>1, <5>1
      <4> QED
        BY <4>2, <4>3
    <3>3. \A s : ReadBack(s)' = ReadBack(s)
      BY <2>2 DEF ReadBack
    <3> QED
      BY <2>2, <3>2, <3>3
  <2> QED
    BY <2>2, <2>5, <2>6, <2>7, <2>8
<1>3. CASE ReadDone
  BY <1>3 DEF ReadDone
<1>4. CASE Plan
  BY <1>4 DEF Plan
<1>5. CASE PutSetting
  <2>1. PICK i \in at..Len(Order) : Sent(Order[i]) /\ SetTo(Order[i], config[Order[i]]) /\ at' = i + 1
                                    /\ \A j \in at..(i - 1) : ~Sent(Order[j])
    BY <1>5 DEF PutSetting
  <2> QED
    <3>1. /\ phase = "putting" /\ UNCHANGED <<config, state, phase, found, excuses, edits, troubles>>
      BY <1>5 DEF PutSetting
    <3>2. /\ link' \in [Settings -> Values \cup {Default}]
          /\ \A j \in 1..Len(Order) : j # i => link'[Order[j]] = link[Order[j]]
          /\ config[Order[i]] \in Values => link'[Order[i]] = config[Order[i]]
      BY <2>1, <3>1, Sending
    <3>3. /\ config \in [Settings -> Values \cup {Unset, Empty}] /\ Len(Order) \in Nat
          /\ at \in Nat /\ at >= 1 /\ i \in Nat /\ at <= i /\ i <= Len(Order)
      <4>1. config \in Attributes
        BY <3>1
      <4> QED
        BY <2>1, <4>1 DEF Attributes
    <3>4. ASSUME "foreign" \notin excuses, NEW j \in 1..i PROVE OnLink(Order[j], config[Order[j]])'
      <4>1. CASE j = i
        BY <3>1, <3>2, <4>1
      <4>2. CASE j < at
        <5>1. j \in 1..(at - 1) /\ j \in 1..Len(Order) /\ j # i
          BY <3>3, <4>2
        <5>2. OnLink(Order[j], config[Order[j]])
          BY <3>1, <3>4, <5>1
        <5>3. link'[Order[j]] = link[Order[j]] /\ config' = config
          BY <3>1, <3>2, <5>1
        <5> HIDE DEF IInv, TypeOK, Steps, Done, AtRest, Copied
        <5> QED
          BY <5>2, <5>3
      <4>3. CASE j \in at..(i - 1)
        <5>1. ~Sent(Order[j])
          BY <2>1, <4>3
        <5>2. config[Order[j]] \in Values \cup {Unset, Empty}
          <6>1. j \in 1..Len(Order) /\ Order[j] \in Settings
            BY <3>3, <4>3
          <6> QED
            BY <3>3, <6>1
        <5> HIDE DEF IInv, TypeOK, Steps, Done, AtRest, Copied, OnLink
        <5>3. config[Order[j]] \in {Unset, Empty}
          BY <5>1 DEF Sent
        <5>4. config[Order[j]] \notin Values /\ config' = config
          BY <3>1, <5>3
        <5> USE DEF OnLink
        <5> QED
          BY <5>4
      <4> QED
        BY <3>3, <4>1, <4>2, <4>3
    <3>5. at' \in 1..(Len(Order) + 1) /\ at' - 1 = i
      BY <2>1, <3>3
    <3>6. Done'
      BY <3>1, <3>4, <3>5
    <3>7. TypeOK'
      BY <3>1, <3>2, <3>5
    <3> QED
      BY <3>1, <3>6, <3>7
<1>6. CASE PutDone
  <2>1. /\ phase = "putting" /\ phase' = "idle" /\ at' = 1 /\ state' = config /\ config # None
        /\ UNCHANGED <<link, config, found, edits, troubles>> /\ excuses' = excuses \ {"failed"}
    BY <1>6 DEF PutDone
  <2>2. config \in Attributes /\ at \in Nat /\ at >= 1
    BY <2>1
  <2>3. ASSUME excuses' = {}, NEW s \in Settings PROVE OnLink(s, config[s])
    <3>1. PICK i \in 1..Len(Order) : s = Order[i]
      BY Places
    <3>2. CASE i < at
      <4>1. i \in 1..(at - 1)
        BY <2>2, <3>1, <3>2
      <4>2. "foreign" \notin excuses
        BY <2>1, <2>3
      <4>3. OnLink(Order[i], config[Order[i]])
        BY <2>1, <4>1, <4>2
      <4> HIDE DEF IInv, TypeOK, Steps, Done, AtRest, Copied, OnLink
      <4> QED
        BY <3>1, <4>3
    <3>3. CASE i >= at
      <4>1. ~Sent(Order[i])
        BY <1>6, <3>3 DEF PutDone
      <4>2. config[s] \in Values \cup {Unset, Empty}
        BY <2>2 DEF Attributes
      <4> QED
        BY <3>1, <4>1, <4>2 DEF Sent
    <3> HIDE DEF IInv, TypeOK, Steps, Done, AtRest, Copied, OnLink
    <3>4. i < at \/ i >= at
      BY <2>2, <3>1
    <3> QED
      BY <3>2, <3>3, <3>4
  <2>4. TypeOK'
    BY <2>1, <2>2
  <2>5. AtRest'
    BY <2>1, <2>3
  <2> QED
    BY <2>1, <2>4, <2>5
<1>7. CASE Revert
  BY <1>7 DEF Revert
<1>8. CASE RevertDone
  BY <1>8 DEF RevertDone
<1>9. CASE Import
  BY <1>9 DEF Import, Attributes
<1>10. CASE ReadFails
  <2>1. /\ phase = "reading" /\ phase' = "idle" /\ at' = 1 /\ UNCHANGED <<link, config, state, found, excuses, edits>>
        /\ troubles' \in 0..MaxTroubles
    BY <1>10 DEF ReadFails
  <2> QED
    BY <2>1
<1>11. CASE PutFails
  <2>0. troubles \in 0..MaxTroubles /\ MaxTroubles \in Nat /\ link \in [Settings -> Values \cup {Default}]
    OBVIOUS
  <2> HIDE DEF IInv, TypeOK, Steps, Done, AtRest, Copied, OnLink
  <2>1. link' \in [Settings -> Values \cup {Default}]
    <3>1. PICK i \in 1..Len(Order) :
            /\ i \in at..Len(Order) /\ Sent(Order[i])
            /\ SetTo(Order[i], config[Order[i]]) \/ UNCHANGED link
      BY <1>11 DEF PutFails
    <3>2. CASE SetTo(Order[i], config[Order[i]])
      BY <1>11, <3>1, <3>2, Sending DEF PutFails
    <3>3. CASE UNCHANGED link
      BY <2>0, <3>3
    <3> QED
      BY <3>1, <3>2, <3>3
  <2>2. /\ phase' = "idle" /\ at' = 1 /\ UNCHANGED <<config, state, found, edits>>
        /\ excuses' = excuses \cup {"failed"}
    BY <1>11 DEF PutFails
  <2>3. troubles' \in 0..MaxTroubles
    BY <1>11, <2>0 DEF PutFails
  <2> QED
    BY <2>1, <2>2, <2>3, Interrupted
<1>12. CASE RevertFails
  BY <1>12 DEF RevertFails
<1>13. CASE Edit
  BY <1>13 DEF Edit
<1>14. CASE Crash
  <2>0. /\ troubles \in 0..MaxTroubles /\ MaxTroubles \in Nat /\ link \in [Settings -> Values \cup {Default}]
        /\ phase \in {"idle", "reading", "planning", "putting", "reverting", "reverted"}
    OBVIOUS
  <2>1. /\ phase # "idle" /\ phase' = "idle" /\ at' = 1 /\ UNCHANGED <<link, config, state, found, edits>>
        /\ troubles' \in 0..MaxTroubles
    BY <1>14, <2>0 DEF Crash
  <2>2. CASE phase \in {"putting", "reverting", "reverted"}
    <3> HIDE DEF IInv, TypeOK, Steps, Done, AtRest, Copied, OnLink
    <3>1. excuses' = excuses \cup {"failed"}
      BY <1>14, <2>2 DEF Crash
    <3> QED
      BY <2>0, <2>1, <3>1, Interrupted
  <2>3. CASE phase \in {"reading", "planning"}
    <3>1. UNCHANGED excuses
      BY <1>14, <2>3 DEF Crash
    <3>2. TypeOK'
      BY <2>1, <2>3, <3>1
    <3>3. Steps' /\ Done' /\ AtRest' /\ Copied'
      BY <2>1, <2>3, <3>1
    <3> HIDE DEF TypeOK, Steps, Done, AtRest, Copied, OnLink
    <3> QED
      BY <3>2, <3>3
  <2> HIDE DEF IInv, TypeOK, Steps, Done, AtRest, Copied, OnLink
  <2> QED
    BY <2>0, <2>1, <2>2, <2>3
<1>15. CASE Meddle
  BY <1>15 DEF Meddle
<1>16. CASE Reboot
  BY <1>16 DEF Reboot
<1>17. CASE UNCHANGED vars
  BY <1>17 DEF vars, ReadBack
<1> QED
  BY <1>1, <1>2, <1>3, <1>4, <1>5, <1>6, <1>7, <1>8, <1>9, <1>10, <1>11, <1>12, <1>13, <1>14, <1>15, <1>16, <1>17
  DEF Next, Run

-----------------------------------------------------------------------------

\* The invariant holds in every reachable state.
LEMMA Invariance == Spec => []IInv
BY Initially, Inductive, PTL DEF Spec

\* Every variable has its type: no value reaches the link that cannot be sent.
THEOREM TypeCorrect == Spec => []TypeOK
<1>1. IInv => TypeOK
  BY DEF IInv
<1> QED
  BY <1>1, Invariance, PTL

\* What the state says is on the link, unless an operation failed or somebody else
\* changed it.
THEOREM StateIsTrue == Spec => []StateTrue
<1>1. IInv => StateTrue
  BY DEF IInv, AtRest, OnLink, StateTrue
<1> QED
  BY <1>1, Invariance, PTL

\* Settings without a state come only from a failure or from somebody else.
THEOREM NoSettingsAreOrphans == Spec => []NoOrphanSettings
<1>1. IInv => NoOrphanSettings
  BY DEF IInv, AtRest, NoOrphanSettings
<1> QED
  BY <1>1, Invariance, PTL

-----------------------------------------------------------------------------
(* The contract of RunContract.                                                *)

\* A read of what is applied finds what the state says.
LEMMA AppliedIsReadBack ==
    ASSUME IInv, ReadDone, excuses = {}, Standing = "applied"
    PROVE  found = state
<1>1. state = config /\ Settled /\ ~Endless
  BY DEF Standing
<1>2. phase = "reading" /\ state # None /\ found # None
  BY DEF ReadDone, IInv, Steps
<1>3. /\ state \in [Settings -> Values \cup {Unset, Empty}]
      /\ found \in [Settings -> Values \cup {Unset, Empty}]
  BY <1>2 DEF IInv, TypeOK, Attributes
<1>4. ASSUME NEW s \in Settings PROVE found[s] = state[s]
  <2>1. CASE s \in Lists /\ state[s] # Unset /\ found[s] = ReadBack(s)
    <3>1. CASE state[s] = Empty
      <4>1. link[s] = Default
        BY <1>1, <1>2, <2>1, <3>1 DEF Endless
      <4> QED
        BY <2>1, <3>1, <4>1 DEF ReadBack
    <3>2. CASE state[s] \in Values
      <4>1. link[s] = state[s]
        BY <1>1, <1>2, <1>4, <3>2 DEF Settled
      <4> QED
        BY <2>1, <3>2, <4>1 DEF ReadBack
    <3> QED
      BY <1>3, <1>4, <2>1, <3>1, <3>2
  <2> QED
    BY <1>2, <1>4, <2>1 DEF IInv, Copied
<1> QED
  BY <1>3, <1>4

\* Every step of the model is a step of the contract, or none.
LEMMA ContractSteps == IInv /\ [Next]_vars => [Contract!Next]_Contract!vars
<1> SUFFICES ASSUME IInv, [Next]_vars PROVE Contract!Next \/ UNCHANGED Contract!vars
  OBVIOUS
<1>0. IInv'
  BY Inductive
<1> USE DEF Enter, bounds, Excuse
<1>1. CASE StartRun \/ ReadSetting \/ ReadFails
  BY <1>1 DEF StartRun, ReadSetting, ReadFails, Contract!vars, Standing, Endless, Settled
<1>2. CASE ReadDone
  <2>1. UNCHANGED <<link, config, excuses>> /\ phase = "reading" /\ phase' = "planning" /\ state' = found
    BY <1>2 DEF ReadDone
  <2>2. state # None /\ state' # None
    BY <2>1 DEF IInv, Steps
  <2>3. excuses = {} /\ Standing = "applied" => Standing' = "applied"
    BY <1>2, <2>1, AppliedIsReadBack DEF Standing, Endless, Settled
  <2> HIDE DEF Enter, bounds, Excuse
  <2> QED
    BY <2>1, <2>2, <2>3 DEF Contract!Next, Contract!Look, Contract!AtRest
<1>3. CASE Plan
  <2>1. CASE state = config
    BY <1>3, <2>1 DEF Plan, Contract!vars, Standing, Endless, Settled
  <2>2. CASE state # config
    <3>1. Standing # "applied"
      BY <2>2 DEF Standing
    <3> QED
      BY <1>3, <2>2, <3>1 DEF Plan, Contract!Next, Contract!Begin
  <2> QED
    BY <2>1, <2>2
<1>4. CASE PutSetting \/ Revert
  BY <1>4 DEF PutSetting, Revert, Contract!Next, Contract!Work
<1>5. CASE PutFails \/ RevertFails
  BY <1>5 DEF PutFails, RevertFails, Contract!Next, Contract!End
<1>6. CASE PutDone
  <2>1. phase = "putting" /\ phase' = "idle" /\ state' = config /\ config' = config /\ config # None
    BY <1>6 DEF PutDone, IInv, Steps
  <2>2. excuses' = {} => Settled'
    BY <1>0, <2>1 DEF IInv, AtRest, OnLink, Settled
  <2>3. excuses' = {} => Standing' \in {"applied", "stuck"}
    BY <2>1, <2>2 DEF Standing
  <2> QED
    BY <2>1, <2>3 DEF Contract!Next, Contract!End
<1>7. CASE RevertDone
  <2>1. phase = "reverted" /\ phase' = "idle" /\ state' = None /\ config = None /\ config' = None
    BY <1>7 DEF RevertDone, IInv, Steps
  <2>2. Standing' = "applied"
    BY <2>1 DEF Standing, Endless, Settled
  <2> QED
    BY <2>1, <2>2 DEF Contract!Next, Contract!End
<1>8. CASE Import
  BY <1>8 DEF Import, Contract!Next, Contract!Look, Contract!AtRest
<1>9. CASE Edit
  BY <1>9 DEF Edit, Contract!Next, Contract!Edit, Contract!AtRest
<1>10. CASE Crash
  <2>1. CASE phase \in {"putting", "reverting", "reverted"}
    BY <1>10, <2>1 DEF Crash, Contract!Next, Contract!End
  <2>2. CASE phase \notin {"putting", "reverting", "reverted"}
    BY <1>10, <2>2 DEF Crash, Contract!vars, Standing, Endless, Settled
  <2> QED
    BY <2>1, <2>2
<1>11. CASE Meddle \/ Reboot
  BY <1>11 DEF Meddle, Reboot, Contract!Next, Contract!Disturb
<1>12. CASE UNCHANGED vars
  BY <1>12 DEF vars, Contract!vars, Standing, Endless, Settled
<1> QED
  BY <1>1, <1>2, <1>3, <1>4, <1>5, <1>6, <1>7, <1>8, <1>9, <1>10, <1>11, <1>12 DEF Next, Run

\* The runs on a link implement the contract: a put begins only when something is left
\* to send, it ends with everything sent, with the one list that cannot be, or with an
\* excuse, and reading the link never makes a difference to what was sent.
THEOREM LinkKeepsRunContract == Spec => KeepsRunContract
<1>1. Init => Contract!Init
  BY DEF Init, Contract!Init
<1> QED
  BY <1>1, ContractSteps, Invariance, PTL DEF Spec, KeepsRunContract, Contract!Spec

\* A link that is as configured is sent nothing by any further run, until somebody edits
\* the configuration or interferes, or a read fails.
THEOREM LinkIsIdempotent == Spec => Contract!Idempotent
<1>1. [Contract!Next]_(Contract!vars) => [Contract!LeftAlone]_(Contract!vars)
  BY DEF Contract!LeftAlone, Contract!Next, Contract!Edit, Contract!Look, Contract!Begin,
         Contract!Work, Contract!End, Contract!Disturb, Contract!AtRest, Contract!vars
<1> QED
  BY <1>1, LinkKeepsRunContract, PTL DEF KeepsRunContract, Contract!Spec, Contract!Idempotent
=============================================================================
