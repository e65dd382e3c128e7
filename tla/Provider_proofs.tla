--------------------------- MODULE Provider_proofs ---------------------------
(***************************************************************************)
(* Proofs about Provider, for any number of operations at the same time,   *)
(* any limit of sshd and any releases.                                     *)
(*                                                                         *)
(* What the properties say of an operation that has ended follows from     *)
(* what it has established before each of its steps, Progress(r), which    *)
(* another operation leaves alone: releases are only added to the history. *)
(* What they say of the connection follows from what Dial has opened at    *)
(* each stage and from who holds a channel.                                *)
(***************************************************************************)
EXTENDS Provider, TLAPS, FiniteSetTheorems

\* What Dial may have open at each stage.
DialInv ==
    /\ dial = "auth" => open = {}
    /\ dial \in {"hostkey", "bastion", "direct", "failed"} => open \subseteq {"agent"}
    /\ dial = "tunnel" => open \subseteq {"agent", "bastion"}
    /\ dial = "handshake" => open \subseteq {"agent", "bastion", "tunnel"}
    /\ dial = "sftp" => open \subseteq {"agent", "bastion", "tunnel", "ssh"}

\* Only an operation whose command runs holds a channel, and none begins before Dial
\* has ended.
ChannelsInv ==
    \A r \in Resources :
        /\ r \in channels => pc[r] \in {"detecting", "reloading"}
        /\ pc[r] \notin {"config", "valid", "ended"} => dial = "up"

\* What the client keeps and what the host has are in the history.
ReleasesInv == release \in releases /\ kept \in releases \cup {Nil}

Known == IF login.pinned = 0 THEN releases ELSE {login.pinned}

\* What r has established before its next step.
Checking(r) ==
    /\ pc[r] \in {"release", "detect", "detecting"} => wanted[r].checks
    /\ pc[r] \in {"detect", "detecting"} => login.pinned = 0
    /\ outcome[r] = "none" <=> pc[r] # "ended"

Untouched(r) ==
    /\ pc[r] \notin {"reload", "reloading", "ended"} => r \notin touched
    /\ outcome[r] \in {"invalid", "content", "release"} => r \notin touched

Answered(r) ==
    /\ outcome[r] = "release" /\ answers[r] # "racing" => 
          \E v \in Known : \E d \in Used(wanted[r].body) : Since[d] > v
    /\ wanted[r].checks /\ (r \in touched \/ pc[r] = "write") /\ answers[r] # "unknown" =>
          \E v \in Known : \A d \in Used(wanted[r].body) : Since[d] <= v

Validated(r) ==
    /\ pc[r] # "config" /\ outcome[r] # "invalid" => Validates(wanted[r].body)
    /\ outcome[r] = "invalid" => ~Validates(wanted[r].body)
    /\ outcome[r] = "content" => ~ChoosesContent(wanted[r].body)

Progress(r) == Checking(r) /\ Untouched(r) /\ Answered(r) /\ Validated(r)

IInv ==
    /\ TypeOK
    /\ DialInv
    /\ ChannelsInv
    /\ RefusedOnlyAtLimit
    /\ ReleasesInv
    /\ \A r \in Resources : Progress(r)

USE ReleasesAssumption, LimitsAssumption, NilAssumption, ResourcesAssumption, InputsAssumption,
    SinceAssumption

-----------------------------------------------------------------------------
(* Types. *)

\* The provider begins with well-typed variables.
LEMMA TypesInit == Init => TypeOK
BY DEF Init, TypeOK, Stages, Steps, Outcomes

\* Each step of Configure keeps the types.
LEMMA TypesConfigure == TypeOK /\ Configure => TypeOK'
<1> SUFFICES ASSUME TypeOK, Configure PROVE TypeOK'
  OBVIOUS
<1> USE DEF TypeOK, Dialled, Opened, Closed, world, operations, Stages
<1>1. CASE Authenticate \/ HostKeyCallback
  BY <1>1 DEF Authenticate, HostKeyCallback
<1>2. CASE DialDirect \/ DialBastion
  BY <1>2 DEF DialDirect, DialBastion, Reach
<1>3. CASE DialTunnel \/ Handshake
  BY <1>3 DEF DialTunnel, Handshake, Reach
<1>4. CASE OpenSftp
  BY <1>4 DEF OpenSftp
<1> QED
  BY <1>1, <1>2, <1>3, <1>4 DEF Configure

\* Each step of an operation keeps the types.
LEMMA TypesOperate == ASSUME TypeOK, NEW r \in Resources, Operate(r) PROVE TypeOK'
<1> USE DEF TypeOK, session, world, Goto, End, Steps, Outcomes, Synchronise, CloseSession
<1>1. CASE Validate(r)
  BY <1>1 DEF Validate
<1>2. CASE Begin(r)
  BY <1>2 DEF Begin
<1>3. CASE Choose(r)
  BY <1>3 DEF Choose
<1>4. CASE UsePinned(r)
  BY <1>4 DEF UsePinned, CheckedAgainst
<1>5. CASE UseKept(r)
  BY <1>5 DEF UseKept, CheckedAgainst
<1>6. CASE UseRacing(r)
  BY <1>6 DEF UseRacing, CheckedAgainst
<1>7. CASE Detect(r)
  BY <1>7 DEF Detect
<1>8. CASE NewSession(r)
  BY <1>8 DEF NewSession, Running
<1>9. CASE NewSessionFails(r)
  BY <1>9 DEF NewSessionFails, Unsuccessful
<1>10. CASE ReleaseDetected(r)
  BY <1>10 DEF ReleaseDetected, CheckedAgainst
<1>11. CASE CommandSucceeds(r)
  BY <1>11 DEF CommandSucceeds
<1>12. CASE CommandFails(r)
  BY <1>12 DEF CommandFails, Unsuccessful
<1>13. CASE Write(r)
  BY <1>13 DEF Write
<1> QED
  BY <1>1, <1>2, <1>3, <1>4, <1>5, <1>6, <1>7, <1>8, <1>9, <1>10, <1>11, <1>12, <1>13 DEF Operate

\* Every step keeps the types.
LEMMA TypesNext == TypeOK /\ [Next]_vars => TypeOK'
<1> SUFFICES ASSUME TypeOK, [Next]_vars PROVE TypeOK'
  OBVIOUS
<1> USE DEF TypeOK, session, operations, world
<1>1. CASE DialHangs
  BY <1>1 DEF DialHangs, Dialled, Stages
<1>2. CASE ConnectionLost
  BY <1>2 DEF ConnectionLost
<1>3. CASE Upgrade
  BY <1>3 DEF Upgrade
<1>4. ASSUME NEW r \in Resources, CommandHangs(r) PROVE TypeOK'
  BY <1>4 DEF CommandHangs
<1>5. CASE UNCHANGED vars
  BY <1>5 DEF vars
<1> QED
  BY <1>1, <1>2, <1>3, <1>4, <1>5, TypesConfigure, TypesOperate DEF Next

\* Every variable has its type: no step leaves an operation, the connection or the
\* history in a value that the code cannot hold.
THEOREM TypeCorrect == Spec => []TypeOK
<1>1. Init => TypeOK
  BY TypesInit
<1>2. TypeOK /\ [Next]_vars => TypeOK'
  BY TypesNext
<1> QED
  BY <1>1, <1>2, PTL DEF Spec

-----------------------------------------------------------------------------
(* The connection. *)

\* What an operation does to the connection keeps who holds a channel, and a command is
\* refused only by the others' channels and SFTP's.
LEMMA ChannelsBounded ==
    ASSUME TypeOK, ChannelsInv, NEW r \in Resources, pc[r] \in {"detect", "reload"}
    PROVE  Cardinality(channels) <= Cardinality(Resources)
<1> DEFINE others == Resources \ {r}
<1>1. channels \subseteq others \cup {"sftp"}
  BY DEF TypeOK, ChannelsInv
<1>2. IsFiniteSet(others) /\ Cardinality(others) = Cardinality(Resources) - 1
  BY FS_RemoveElement
<1>3. IsFiniteSet(others \cup {"sftp"}) /\ Cardinality(others \cup {"sftp"}) = Cardinality(others) + 1
  BY <1>2, FS_AddElement
<1>4. Cardinality(channels) <= Cardinality(others \cup {"sftp"})
  BY <1>1, <1>3, FS_Subset
<1>5. Cardinality(Resources) \in Nat
  BY FS_CardinalityType
<1> QED
  BY <1>2, <1>3, <1>4, <1>5

\* Before Configure no connection is open and no channel in use.
LEMMA ConnectionInit == Init => DialInv /\ ChannelsInv /\ RefusedOnlyAtLimit /\ ReleasesInv
BY DEF Init, DialInv, ChannelsInv, RefusedOnlyAtLimit, ReleasesInv

\* Each step of Configure keeps what is known of the connection, channels and releases.
LEMMA DialConfigure ==
    ASSUME TypeOK, DialInv, ChannelsInv, RefusedOnlyAtLimit, ReleasesInv, Configure
    PROVE  (DialInv /\ ChannelsInv /\ RefusedOnlyAtLimit /\ ReleasesInv)'
<1>1. DialInv'
  BY DEF Configure, Authenticate, HostKeyCallback, DialBastion, DialTunnel, Handshake, DialDirect,
         OpenSftp, Reach, Dialled, Opened, Closed, DialInv, TypeOK
<1>2. ChannelsInv'
  BY DEF Configure, Authenticate, HostKeyCallback, DialBastion, DialTunnel, Handshake, DialDirect,
         OpenSftp, Reach, Dialled, world, operations, ChannelsInv, TypeOK
<1>3. UNCHANGED <<limit, outcome, release, releases, kept>>
  BY DEF Configure, Authenticate, HostKeyCallback, DialBastion, DialTunnel, Handshake, DialDirect,
         OpenSftp, Reach, Dialled, world, operations
<1> QED
  BY <1>1, <1>2, <1>3 DEF RefusedOnlyAtLimit, ReleasesInv

\* An operation of r touches only r's own part.
LEMMA Alone ==
    ASSUME TypeOK, NEW r \in Resources, Operate(r), NEW s \in Resources \ {r}
    PROVE  /\ UNCHANGED <<login, wanted, releases, pc[s], outcome[s], answers[s]>>
           /\ (s \in touched) <=> (s \in touched')
BY DEF TypeOK, session, world, Goto, End, Operate, Validate, Begin, Choose, UsePinned, UseKept, UseRacing, Detect,
       NewSession, NewSessionFails, ReleaseDetected, CommandSucceeds, CommandFails, Write, CheckedAgainst, Unsuccessful

\* Each step of an operation keeps what is known of them.
LEMMA ConnectionOperate ==
    ASSUME TypeOK, DialInv, ChannelsInv, RefusedOnlyAtLimit, ReleasesInv, NEW r \in Resources, Operate(r)
    PROVE  (DialInv /\ ChannelsInv /\ RefusedOnlyAtLimit /\ ReleasesInv)'
<1> USE DEF session, world, Goto, End, CloseSession
<1>1. UNCHANGED <<session, world>>
  BY DEF Operate, Validate, Begin, Choose, UsePinned, UseKept, UseRacing, Detect, NewSession, NewSessionFails,
         ReleaseDetected, CommandSucceeds, CommandFails, Write
<1>2. DialInv'
  BY <1>1 DEF DialInv
<1>3. ReleasesInv'
  BY <1>1 DEF ReleasesInv, Operate, Validate, Begin, Choose, UsePinned, UseKept, UseRacing, Detect, NewSession,
         NewSessionFails, ReleaseDetected, CommandSucceeds, CommandFails, Write
<1>4. /\ \A s \in Resources \ {r} : pc'[s] = pc[s] /\ (s \in channels' => s \in channels)
      /\ r \in channels' => pc'[r] \in {"detecting", "reloading"}
      /\ pc'[r] \notin {"config", "valid", "ended"} => dial = "up"
  BY DEF TypeOK, ChannelsInv, Operate, Validate, Begin, Choose, UsePinned, UseKept, UseRacing, Detect, NewSession,
         NewSessionFails, ReleaseDetected, CommandSucceeds, CommandFails, Write, CheckedAgainst, Unsuccessful, Running
<1>5. ChannelsInv'
  BY <1>1, <1>4 DEF ChannelsInv
<1>6. \A s \in Resources \ {r} : outcome'[s] = outcome[s]
  BY Alone
<1>7. ASSUME ~NewSessionFails(r) PROVE outcome'[r] = "refused" => outcome[r] = "refused"
  <2> USE DEF TypeOK
  <2>1. CASE CommandFails(r)
    BY <2>1 DEF CommandFails, Unsuccessful
  <2>2. CASE UsePinned(r) \/ UseKept(r) \/ UseRacing(r) \/ ReleaseDetected(r)
    BY <2>2 DEF UsePinned, UseKept, UseRacing, ReleaseDetected, CheckedAgainst
  <2>3. CASE Validate(r) \/ Begin(r) \/ Choose(r) \/ Detect(r) \/ NewSession(r) \/ CommandSucceeds(r) \/ Write(r)
    BY <2>3 DEF Validate, Begin, Choose, Detect, NewSession, CommandSucceeds, Write
  <2> QED
    BY <1>7, <2>1, <2>2, <2>3 DEF Operate
<1>8. ASSUME NewSessionFails(r) PROVE outcome'[r] = "refused" => outcome[r] = "refused" \/ Cardinality(channels) >= limit
  BY <1>8 DEF TypeOK, NewSessionFails, Unsuccessful
<1>9. NewSessionFails(r) => Cardinality(channels) <= Cardinality(Resources)
  BY ChannelsBounded DEF NewSessionFails
<1>10. Cardinality(channels) \in Nat /\ Cardinality(Resources) \in Nat /\ limit \in Nat
  <2>1. IsFiniteSet(Resources \cup {"sftp"})
    BY FS_AddElement
  <2> QED
    BY <2>1, FS_Subset, FS_CardinalityType DEF TypeOK
<1>11. outcome'[r] = "refused" => outcome[r] = "refused" \/ Cardinality(Resources) >= limit
  BY <1>7, <1>8, <1>9, <1>10
<1>12. RefusedOnlyAtLimit'
  BY <1>1, <1>6, <1>11 DEF RefusedOnlyAtLimit
<1> QED
  BY <1>2, <1>3, <1>5, <1>12

\* Every step keeps what is known of them.
LEMMA ConnectionNext ==
    ASSUME TypeOK, DialInv, ChannelsInv, RefusedOnlyAtLimit, ReleasesInv, [Next]_vars
    PROVE  (DialInv /\ ChannelsInv /\ RefusedOnlyAtLimit /\ ReleasesInv)'
<1> USE DEF DialInv, ChannelsInv, RefusedOnlyAtLimit, ReleasesInv, session, operations, world
<1>1. CASE DialHangs
  BY <1>1 DEF DialHangs, Dialled, TypeOK
<1>2. CASE ConnectionLost
  BY <1>2 DEF ConnectionLost
<1>3. CASE Upgrade
  BY <1>3 DEF Upgrade
<1>4. ASSUME NEW r \in Resources, CommandHangs(r)
      PROVE  (DialInv /\ ChannelsInv /\ RefusedOnlyAtLimit /\ ReleasesInv)'
  BY <1>4 DEF CommandHangs
<1>5. CASE UNCHANGED vars
  BY <1>5 DEF vars
<1>6. CASE Configure
  BY <1>6, DialConfigure
<1>7. ASSUME NEW r \in Resources, Operate(r)
      PROVE  (DialInv /\ ChannelsInv /\ RefusedOnlyAtLimit /\ ReleasesInv)'
  BY <1>7, ConnectionOperate
<1> QED
  BY <1>1, <1>2, <1>3, <1>4, <1>5, <1>6, <1>7 DEF Next

-----------------------------------------------------------------------------
(* The operations. *)

\* No operation has come anywhere yet.
LEMMA ProgressInit == Init => \A r \in Resources : Progress(r)
BY DEF Init, Progress, Checking, Untouched, Answered, Validated

\* Progress(r) speaks of r's own variables, and of the history, which only grows.
LEMMA ProgressStable ==
    ASSUME NEW r \in Resources, Progress(r),
           UNCHANGED <<login, wanted, pc[r], outcome[r], answers[r]>>,
           (r \in touched) <=> (r \in touched'), releases \subseteq releases'
    PROVE  Progress(r)'
<1>1. Known \subseteq Known'
  BY DEF Known
<1>2. Checking(r)' /\ Untouched(r)' /\ Validated(r)'
  BY DEF Progress, Checking, Untouched, Validated
<1>3. Answered(r)'
  BY <1>1 DEF Progress, Answered
<1> QED
  BY <1>2, <1>3 DEF Progress

\* Each step of an operation keeps what it has established before its next call.
LEMMA ProgressOperate ==
    ASSUME TypeOK, ReleasesInv, NEW r \in Resources, Progress(r), Operate(r)
    PROVE  Progress(r)'
<1> USE DEF session, world, Goto, End
<1>1. UNCHANGED <<login, wanted, release, releases>>
  BY DEF Operate, Validate, Begin, Choose, UsePinned, UseKept, UseRacing, Detect, NewSession, NewSessionFails,
         ReleaseDetected, CommandSucceeds, CommandFails, Write
<1>2. Checking(r)'
  BY <1>1 DEF TypeOK, Progress, Checking, Operate, Validate, Begin, Choose, UsePinned, UseKept, UseRacing, Detect,
         NewSession, NewSessionFails, ReleaseDetected, CommandSucceeds, CommandFails, Write, CheckedAgainst,
         Unsuccessful, Running
<1>3. Untouched(r)'
  BY <1>1 DEF TypeOK, Progress, Checking, Untouched, Operate, Validate, Begin, Choose, UsePinned, UseKept,
         UseRacing, Detect, NewSession, NewSessionFails, ReleaseDetected, CommandSucceeds, CommandFails, Write,
         CheckedAgainst, Unsuccessful, Running
<1>4. Validated(r)'
  BY <1>1 DEF TypeOK, Progress, Checking, Validated, Operate, Validate, Begin, Choose, UsePinned, UseKept,
         UseRacing, Detect, NewSession, NewSessionFails, ReleaseDetected, CommandSucceeds, CommandFails, Write,
         CheckedAgainst, Unsuccessful, Running
<1>5. Answered(r)'
  <2> DEFINE used == Used(wanted[r].body)
  <2>1. /\ \A d \in used : Since[d] \in Nat
        /\ Known \subseteq Nat /\ Known # {}
    <3>1. \A d \in used : Since[d] \in Nat
      BY DEF Used
    <3>2. login.pinned \in Releases \cup {0}
      BY DEF TypeOK, LoginRecords
    <3>3. Releases \subseteq Nat /\ releases \subseteq Releases
      BY DEF TypeOK
    <3>4. Known \subseteq Releases \cup {0} /\ Known # {}
      <4>1. CASE login.pinned = 0
        BY <3>3, <4>1 DEF Known, ReleasesInv
      <4>2. CASE login.pinned # 0
        <5>1. Known = {login.pinned}
          BY <4>2 DEF Known
        <5> QED
          BY <3>2, <5>1
      <4> QED
        BY <4>1, <4>2
    <3>5. \A v \in Releases \cup {0} : v \in Nat
      BY <3>3
    <3>6. Known \subseteq Nat
      BY <3>4, <3>5
    <3> QED
      BY <3>1, <3>4, <3>6
  <2>used. used' = used /\ Known' = Known
    BY <1>1 DEF Known
  <2> HIDE DEF used
  <2>2. ASSUME NEW version \in Known, CheckedAgainst(r, version, "known"), UNCHANGED touched, r \notin touched,
               pc[r] # "ended"
        PROVE  Answered(r)'
    <3>1. version \in Nat /\ version \in Known'
      BY <2>1, <2>2, <2>used
    <3>2. CASE \E d \in used : Since[d] > version
      <4>1. outcome'[r] = "release" /\ pc'[r] = "ended" /\ r \notin touched'
        BY <2>2, <3>2 DEF CheckedAgainst, TypeOK, used
      <4>2. \E d \in used' : Since[d] > version
        BY <2>used, <3>2
      <4> QED
        BY <3>1, <4>1, <4>2 DEF Answered, used
    <3>3. CASE ~\E d \in used : Since[d] > version
      <4>1. outcome'[r] = outcome[r] /\ outcome[r] # "release"
        BY <2>2, <3>3 DEF CheckedAgainst, Progress, Checking, used
      <4>2. \A d \in used' : Since[d] <= version
        BY <2>1, <2>used, <3>1, <3>3
      <4> QED
        BY <3>1, <4>1, <4>2 DEF Answered, used
    <3> QED
      BY <3>2, <3>3
  <2> USE DEF TypeOK, Progress, Checking, Untouched, Answered, Known
  <2>3. CASE UsePinned(r)
    BY <2>2, <2>3 DEF UsePinned
  <2>4. CASE UseKept(r)
    BY <2>2, <2>4 DEF UseKept, ReleasesInv
  <2>5. CASE UseRacing(r)
    <3>1. PICK v \in Known : v \in Nat
      BY <2>1
    <3>2. CASE \E d \in used : Since[d] > 0
      <4>1. outcome'[r] = "release" /\ answers'[r] = "racing" /\ pc'[r] = "ended" /\ r \notin touched'
        BY <2>5, <3>2 DEF UseRacing, CheckedAgainst, used
      <4> QED
        BY <4>1
    <3>3. CASE ~\E d \in used : Since[d] > 0
      <4>1. outcome'[r] = outcome[r] /\ outcome[r] # "release"
        BY <2>5, <3>3 DEF UseRacing, CheckedAgainst, used
      <4>2. v \in Known' /\ \A d \in used' : Since[d] <= v
        BY <2>1, <2>used, <3>1, <3>3
      <4> QED
        BY <4>1, <4>2 DEF used
    <3> QED
      BY <3>2, <3>3
  <2>6. CASE ReleaseDetected(r)
    BY <2>2, <2>6 DEF ReleaseDetected, ReleasesInv
  <2>7. CASE Choose(r)
    BY <1>1, <2>7 DEF Choose
  <2>8. CASE NewSessionFails(r) \/ CommandFails(r)
    BY <1>1, <2>8 DEF NewSessionFails, CommandFails, Unsuccessful
  <2>9. CASE Validate(r) \/ Begin(r) \/ Detect(r) \/ NewSession(r) \/ CommandSucceeds(r) \/ Write(r)
    BY <1>1, <2>9 DEF Validate, Begin, Detect, NewSession, CommandSucceeds, Write, Running
  <2> QED
    BY <2>3, <2>4, <2>5, <2>6, <2>7, <2>8, <2>9 DEF Operate
<1> QED
  BY <1>2, <1>3, <1>4, <1>5 DEF Progress

\* Every step keeps what each operation has established.
LEMMA ProgressNext ==
    ASSUME TypeOK, ReleasesInv, \A r \in Resources : Progress(r), [Next]_vars
    PROVE  \A r \in Resources : Progress(r)'
<1> SUFFICES ASSUME NEW s \in Resources PROVE Progress(s)'
  OBVIOUS
<1>1. ASSUME NEW r \in Resources, Operate(r) PROVE Progress(s)'
  <2>1. CASE r = s
    BY <1>1, <2>1, ProgressOperate
  <2>2. CASE r # s
    <3> s \in Resources \ {r}
      BY <2>2
    <3> QED
      BY <1>1, Alone, ProgressStable
  <2> QED
    BY <2>1, <2>2
<1>2. ASSUME \/ Configure \/ DialHangs \/ ConnectionLost \/ Upgrade \/ UNCHANGED vars
             \/ \E r \in Resources : CommandHangs(r)
      PROVE  Progress(s)'
  <2>1. UNCHANGED <<login, wanted, pc, outcome, answers, touched>> /\ releases \subseteq releases'
    BY <1>2 DEF Configure, Authenticate, HostKeyCallback, DialBastion, DialTunnel, Handshake, DialDirect,
         OpenSftp, Reach, DialHangs, Dialled, ConnectionLost, Upgrade, CommandHangs, vars, session, operations, world
  <2> QED
    BY <2>1, ProgressStable
<1> QED
  BY <1>1, <1>2 DEF Next

-----------------------------------------------------------------------------
(* The theorems. *)

\* The inductive invariant holds in every reachable state: every other theorem follows from it.
LEMMA Invariance == Spec => []IInv
<1>1. Init => IInv
  BY TypesInit, ConnectionInit, ProgressInit DEF IInv
<1>2. IInv /\ [Next]_vars => IInv'
  BY TypesNext, ConnectionNext, ProgressNext DEF IInv
<1> QED
  BY <1>1, <1>2, PTL DEF Spec

\* A Dial that failed leaves no connection open but the agent's.
THEOREM FailedDialsClose == Spec => []FailedDialCloses
<1>1. IInv => FailedDialCloses
  BY DEF IInv, DialInv, FailedDialCloses
<1> QED
  BY <1>1, Invariance, PTL

\* A command is refused for want of a channel only when there are at least as many
\* operations as sshd allows channels: no session is leaked.
THEOREM RefusedAtLimit == Spec => []RefusedOnlyAtLimit
<1>1. IInv => RefusedOnlyAtLimit
  BY DEF IInv
<1> QED
  BY <1>1, Invariance, PTL

\* The check of the release answers for a release that is pinned or the host has had, and
\* what it refuses is not written.
THEOREM ReleasesAnswered == Spec => []ReleaseTrue
<1>1. IInv => ReleaseTrue
  BY DEF IInv, Progress, Answered, Known, Untouched, ReleaseTrue
<1> QED
  BY <1>1, Invariance, PTL

\* What validation lets through and the operation refuses, and the other way round, for
\* every body a configuration may give.
LEMMA ValidationDiffers ==
    ASSUME NEW c \in Representations, ~Uncertain(c)
    PROVE  /\ Validates(c) => ChoosesContent(c)
           /\ ~Validates(c) => ~ChoosesContent(c) \/ Conflict(c)
<1>1. c.unknown = {} /\ c.content # "blank" /\ \A d \in Directives : c.typed[d] # "empty"
  BY DEF Uncertain
<1>2. Used(c) = RenderedTyped(c) /\ KnownTyped(c) = Used(c)
  BY <1>1 DEF Representations, Used, RenderedTyped, KnownTyped
<1>3. (HasSections(c) \/ HasTypedSections(c)) <=> HasStructure(c)
  BY <1>1, <1>2 DEF HasSections, HasTypedSections, HasStructure
<1>4. HasContent(c) <=> c.content = "text"
  BY <1>1 DEF Representations, HasContent
<1>5. HasContent(c) \in BOOLEAN /\ HasStructure(c) \in BOOLEAN
  BY DEF HasContent, HasStructure
<1>6. (HasContent(c) # (HasSections(c) \/ HasTypedSections(c))) <=> ((c.content = "text") # HasStructure(c))
  <2>1. CASE HasContent(c)
    BY <1>3, <1>4, <1>5, <2>1, Zenon
  <2>2. CASE ~HasContent(c)
    BY <1>3, <1>4, <1>5, <2>2, Zenon
  <2> QED
    BY <2>1, <2>2
<1>7. OneRepresentation(c) <=> ChoosesContent(c)
  BY <1>6 DEF OneRepresentation, ChoosesContent
<1> QED
  BY <1>7 DEF Validates

\* ValidateConfig answers for what the operation will accept.
THEOREM ValidationIsAnswered == Spec => []ValidationAnswers
<1>1. IInv => ValidationAnswers
  <2>0. IInv => \A r \in Resources : outcome[r] \in {"content", "invalid"} => r \notin touched
    BY DEF IInv, Progress, Untouched
  <2> SUFFICES ASSUME IInv, NEW r \in Resources, ~Uncertain(wanted[r].body)
               PROVE  /\ outcome[r] # "content"
                      /\ outcome[r] = "invalid" => ~ChoosesContent(wanted[r].body) \/ Conflict(wanted[r].body)
    BY <2>0 DEF ValidationAnswers
  <2>1. wanted[r].body \in Representations
    BY DEF IInv, TypeOK, Configurations
  <2>2. Validated(r) /\ (outcome[r] = "none" <=> pc[r] # "ended")
    BY DEF IInv, Progress, Checking
  <2>3. outcome[r] = "content" => Validates(wanted[r].body) /\ ~ChoosesContent(wanted[r].body)
    BY <2>2 DEF Validated
  <2>4. outcome[r] = "invalid" => ~Validates(wanted[r].body)
    BY <2>2 DEF Validated
  <2> QED
    BY <2>1, <2>3, <2>4, ValidationDiffers
<1> QED
  BY <1>1, Invariance, PTL

\* What validation lets through renders no directive twice, for every number of blocks,
\* except where it could not look.
LEMMA RenderedOnce ==
    ASSUME NEW c \in Representations, ~Conflict(c), "section" \notin c.unknown
    PROVE  RenderedTyped(c) \cap RenderedSections(c) \subseteq c.unknown
<1> SUFFICES ASSUME NEW d \in RenderedTyped(c), NEW i \in DOMAIN c.blocks, d \in c.blocks[i], d \notin c.unknown
             PROVE  FALSE
  BY DEF RenderedSections
<1>1. d \in KnownTyped(c)
  BY DEF RenderedTyped, KnownTyped, Used
<1>2. HasSections(c)
  BY DEF HasSections, Representations
<1> QED
  BY <1>1, <1>2 DEF Conflict

\* No file sets a directive both in a typed and in a section block, unless one of them was
\* unknown when ValidateConfig looked.
THEOREM SetOnce == Spec => []DirectivesSetOnce
<1>1. IInv => DirectivesSetOnce
  <2> SUFFICES ASSUME IInv, NEW r \in touched
               PROVE  RenderedTyped(wanted[r].body) \cap RenderedSections(wanted[r].body) \subseteq
                        IF "section" \in wanted[r].body.unknown THEN Directives ELSE wanted[r].body.unknown
    BY DEF DirectivesSetOnce
  <2>1. r \in Resources /\ wanted[r].body \in Representations
    BY DEF IInv, TypeOK, Configurations
  <2>2. pc[r] # "config" /\ outcome[r] # "invalid"
    BY <2>1 DEF IInv, Progress, Untouched
  <2>3. ~Conflict(wanted[r].body)
    BY <2>1, <2>2 DEF IInv, Progress, Validated, Validates
  <2>4. RenderedTyped(wanted[r].body) \subseteq Directives
    BY DEF RenderedTyped
  <2> QED
    BY <2>1, <2>3, <2>4, RenderedOnce
<1> QED
  BY <1>1, Invariance, PTL

-----------------------------------------------------------------------------
(* Every operation comes to an end.                                            *)

\* How many steps are before an operation: nine at the most.
StepsLeft(r) ==
    CASE pc[r] = "config"    -> 9
      [] pc[r] = "valid"     -> 8
      [] pc[r] = "choose"    -> 7
      [] pc[r] = "release"   -> 6
      [] pc[r] = "detect"    -> 5
      [] pc[r] = "detecting" -> 4
      [] pc[r] = "write"     -> 3
      [] pc[r] = "reload"    -> 2
      [] pc[r] = "reloading" -> 1
      [] OTHER               -> 0

Descends(r) == StepsLeft(r)' < StepsLeft(r)

\* Each step of an operation leaves fewer before it.
LEMMA OwnStepDescends ==
    ASSUME TypeOK, NEW r \in Resources, Operate(r)
    PROVE  Descends(r)
<1> USE DEF TypeOK, Steps, Goto, End, Descends, StepsLeft
<1>1. CASE Validate(r) \/ Begin(r) \/ Choose(r)
  BY <1>1 DEF Validate, Begin, Choose
<1>2. CASE UsePinned(r) \/ UseKept(r) \/ UseRacing(r) \/ Detect(r)
  BY <1>2 DEF UsePinned, UseKept, UseRacing, Detect, CheckedAgainst
<1>3. CASE NewSession(r) \/ NewSessionFails(r)
  BY <1>3 DEF NewSession, NewSessionFails, Running, Unsuccessful
<1>4. CASE ReleaseDetected(r) \/ CommandSucceeds(r) \/ CommandFails(r)
  BY <1>4 DEF ReleaseDetected, CommandSucceeds, CommandFails, CheckedAgainst, Unsuccessful
<1>5. CASE Write(r)
  BY <1>5 DEF Write
<1> QED
  BY <1>1, <1>2, <1>3, <1>4, <1>5 DEF Operate

\* No failure, refused session, lost connection or race sends an operation back, neither
\* its own nor another's: each moves by its own steps alone, and only towards its end.
THEOREM OperationsDescend ==
    Spec => [][\A r \in Resources : pc'[r] # pc[r] => Operate(r) /\ Descends(r)]_vars
<1>1. TypeOK /\ [Next]_vars => [\A r \in Resources : pc'[r] # pc[r] => Operate(r) /\ Descends(r)]_vars
  <2> SUFFICES ASSUME TypeOK, Next, NEW r \in Resources, pc'[r] # pc[r] PROVE Operate(r) /\ Descends(r)
    OBVIOUS
  <2>1. ASSUME NEW s \in Resources, Operate(s), s # r PROVE FALSE
    BY <2>1, Alone
  <2>2. CASE DialHangs \/ ConnectionLost \/ Upgrade \/ \E s \in Resources : CommandHangs(s)
    BY <2>2 DEF DialHangs, Dialled, ConnectionLost, Upgrade, CommandHangs, operations
  <2>3. CASE Configure
    BY <2>3 DEF Configure, Authenticate, HostKeyCallback, DialBastion, DialTunnel, Handshake, DialDirect,
       OpenSftp, Reach, Dialled, operations
  <2>4. Operate(r)
    BY <2>1, <2>2, <2>3 DEF Next
  <2> QED
    BY <2>4, OwnStepDescends
<1> QED
  BY <1>1, TypeCorrect, PTL DEF Spec
=============================================================================
