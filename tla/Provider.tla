------------------------------ MODULE Provider ------------------------------
(***************************************************************************)
(* One provider process: Configure dials the host (provider.go, ssh.go),   *)
(* then Terraform runs operations of several resources at the same time    *)
(* over that one connection.  An operation chooses its content, checks the *)
(* directives against the release of systemd on the host, which the client *)
(* detects once and keeps (client.go), writes its file and runs a command. *)
(*                                                                         *)
(* Each command takes a session, a channel of the connection, and sshd     *)
(* refuses more channels than its limit; the SFTP client holds one for     *)
(* good.  The kept release is read and written without a lock.             *)
(***************************************************************************)
EXTENDS Content, FiniteSets

CONSTANTS
    Resources,  \* whose operations run at the same time
    Logins,     \* how the provider may be configured, and what it finds
    Wanted,     \* the configurations a resource may be given
    Releases,   \* releases of systemd
    Limits,     \* channels sshd may allow on a connection (MaxSessions)
    Nil

ASSUME ReleasesAssumption == Releases \subseteq Nat \ {0}
ASSUME LimitsAssumption   == Limits \subseteq Nat \ {0}
ASSUME NilAssumption      == Nil \notin Nat \cup Resources
ASSUME ResourcesAssumption == IsFiniteSet(Resources) /\ "sftp" \notin Resources

VARIABLES
    login,     \* the provider's configuration
    limit,     \* sshd's limit
    dial,      \* the step Dial takes next, or its outcome
    open,      \* what Dial has opened and not closed
    link,      \* the connection: up, reset, or silent for ever
    wanted,    \* each resource's configuration
    pc,        \* each operation's next step
    outcome,   \* how it ended
    channels,  \* who holds a channel of the connection
    hung,      \* operations whose command never ends
    kept,      \* Client.detectedVersion
    writer,    \* who wrote it and has not synchronised since
    release,   \* the release on the host
    releases,  \* history: every release the host has had
    answers,   \* history: how each operation learned the release
    touched    \* history: operations that wrote their file

session    == <<login, limit, dial, open>>
operations == <<pc, outcome, channels, hung, kept, writer, answers, touched>>
world      == <<link, release, releases>>
vars       == <<session, operations, world, wanted>>

\* Dial's steps, and its three ends.
Stages == {"auth", "hostkey", "bastion", "tunnel", "handshake", "direct", "sftp"}

LoginRecords ==
    [key : {"none", "good", "bad"}, useAgent : BOOLEAN, agentRuns : BOOLEAN,
     hostKeys : BOOLEAN, bastion : BOOLEAN, pinned : Releases \cup {0}]

\* checks: unit-like resources check their typed directives, the others do not.
Configurations == [body : Representations, checks : BOOLEAN]

ASSUME InputsAssumption == Logins \subseteq LoginRecords /\ Wanted \subseteq Configurations

Steps == {"config", "valid", "choose", "release", "detect", "detecting", "write", "reload", "reloading", "ended"}

Outcomes == {"none", "invalid", "content", "release", "refused", "failed", "ok"}

TypeOK ==
    /\ login \in LoginRecords /\ limit \in Limits
    /\ dial \in Stages \cup {"up", "failed", "hung"}
    /\ open \subseteq {"agent", "bastion", "tunnel", "ssh", "sftp"}
    /\ link \in {"up", "reset", "silent"}
    /\ wanted \in [Resources -> Configurations]
    /\ pc \in [Resources -> Steps] /\ outcome \in [Resources -> Outcomes]
    /\ channels \subseteq Resources \cup {"sftp"}
    /\ answers \in [Resources -> {"none", "known", "racing", "unknown"}]
    /\ hung \subseteq Resources /\ touched \subseteq Resources
    /\ kept \in Releases \cup {Nil} /\ writer \in Resources \cup {Nil}
    /\ release \in Releases /\ releases \subseteq Releases

-----------------------------------------------------------------------------
(* Dial. *)

Opened(what) == open' = open \cup {what}
Closed(what) == open' = open \ what
Dialled(stage) == dial' = stage /\ UNCHANGED <<login, limit, world, operations, wanted>>

\* The agent is asked when it is wanted or there is no key; when it cannot be reached
\* the key must do.
AsksAgent == (login.useAgent \/ login.key = "none") /\ login.agentRuns

Authenticate ==
    /\ dial = "auth"
    /\ IF login.key = "bad" \/ (login.key = "none" /\ ~AsksAgent) THEN Dialled("failed") ELSE Dialled("hostkey")
    /\ IF login.key # "bad" /\ AsksAgent THEN Opened("agent") ELSE UNCHANGED open

HostKeyCallback ==
    /\ dial = "hostkey"
    /\ Dialled(IF ~login.hostKeys THEN "failed" ELSE IF login.bastion THEN "bastion" ELSE "direct")
    /\ UNCHANGED open

\* A step that reaches over the network: what it opens, and what a failure closes.
Reach(stage, next, opens, closes) ==
    /\ dial = stage
    /\ \/ Dialled(next) /\ Opened(opens)
       \/ Dialled("failed") /\ Closed(closes)

DialDirect  == Reach("direct", "sftp", "ssh", {})
DialBastion == Reach("bastion", "tunnel", "bastion", {})
DialTunnel  == Reach("tunnel", "handshake", "tunnel", {"bastion"})

\* Mutant: the bastion stays open.
HandshakeKeepsBastion == Reach("handshake", "sftp", "ssh", {"tunnel"})

Handshake   == Reach("handshake", "sftp", "ssh", {"tunnel", "bastion"})

\* Closing the SSH client closes the tunnel under it.
OpenSftp ==
    /\ dial = "sftp"
    /\ \/ /\ dial' = "up" /\ Opened("sftp") /\ channels' = {"sftp"}
          /\ UNCHANGED <<login, limit, world, wanted, pc, outcome, hung, kept, writer, answers, touched>>
       \/ Dialled("failed") /\ Closed({"ssh", "tunnel", "bastion"})

\* Only the TCP connection has a timeout: a peer that accepts and says no more is
\* waited for.
DialHangs ==
    /\ dial \in {"bastion", "tunnel", "handshake", "direct", "sftp"}
    /\ Dialled("hung")
    /\ UNCHANGED open

-----------------------------------------------------------------------------
(* Operations. *)

Goto(r, step) == pc' = [pc EXCEPT ![r] = step]

End(r, how) == Goto(r, "ended") /\ outcome' = [outcome EXCEPT ![r] = how]

\* ValidateConfig, before the provider is configured.
Validate(r) ==
    /\ pc[r] = "config"
    /\ IF Validates(wanted[r].body) THEN Goto(r, "valid") /\ UNCHANGED outcome ELSE End(r, "invalid")
    /\ UNCHANGED <<session, world, wanted, channels, hung, kept, writer, answers, touched>>

Begin(r) ==
    /\ dial = "up" /\ pc[r] = "valid"
    /\ Goto(r, "choose")
    /\ UNCHANGED <<session, world, wanted, outcome, channels, hung, kept, writer, answers, touched>>

\* resolveFileContentTyped.
Choose(r) ==
    /\ pc[r] = "choose"
    /\ IF ChoosesContent(wanted[r].body)
         THEN Goto(r, IF wanted[r].checks THEN "release" ELSE "write") /\ UNCHANGED outcome
         ELSE End(r, "content")
    /\ UNCHANGED <<session, world, wanted, channels, hung, kept, writer, answers, touched>>

\* Mutant: the first release with a directive is taken for the last without it.
CheckedStrictly(r, version, answer) ==
    /\ IF \E d \in Used(wanted[r].body) : Since[d] >= version
         THEN End(r, "release") ELSE Goto(r, "write") /\ UNCHANGED outcome
    /\ answers' = [answers EXCEPT ![r] = answer]

\* validateTypedForVersion: what typed blocks set, and nothing of section blocks.
CheckedAgainst(r, version, answer) ==
    /\ IF \E d \in Used(wanted[r].body) : Since[d] > version
         THEN End(r, "release") ELSE Goto(r, "write") /\ UNCHANGED outcome
    /\ answers' = [answers EXCEPT ![r] = answer]

UsePinned(r) ==
    /\ pc[r] = "release" /\ login.pinned # 0
    /\ CheckedAgainst(r, login.pinned, "known")
    /\ UNCHANGED <<session, world, wanted, channels, hung, kept, writer, touched>>

\* The pointer is tested, then followed.
UseKept(r) ==
    /\ pc[r] = "release" /\ login.pinned = 0 /\ kept # Nil
    /\ CheckedAgainst(r, kept, "known")
    /\ UNCHANGED <<session, world, wanted, channels, hung, kept, writer, touched>>

\* While the writer has not synchronised a reader may see the pointer and not yet the
\* number behind it.
UseRacing(r) ==
    /\ pc[r] = "release" /\ login.pinned = 0 /\ kept # Nil
    /\ writer \notin {Nil, r}
    /\ CheckedAgainst(r, 0, "racing")
    /\ UNCHANGED <<session, world, wanted, channels, hung, kept, writer, touched>>

\* Nothing is kept, or the writer's store is not seen yet.
Detect(r) ==
    /\ pc[r] = "release" /\ login.pinned = 0
    /\ kept = Nil \/ writer \notin {Nil, r}
    /\ Goto(r, "detect")
    /\ UNCHANGED <<session, world, wanted, outcome, channels, hung, kept, writer, answers, touched>>

-----------------------------------------------------------------------------
(* Sessions: run and runWithStdin of ssh.go. *)

Running(step) == IF step = "detect" THEN "detecting" ELSE "reloading"

\* Whatever r does next goes through the connection's locks.
Synchronise(r) == writer' = IF writer = r THEN Nil ELSE writer

NewSession(r) ==
    /\ pc[r] \in {"detect", "reload"} /\ link = "up"
    /\ Cardinality(channels) < limit
    /\ channels' = channels \cup {r}
    /\ Goto(r, Running(pc[r]))
    /\ Synchronise(r)
    /\ UNCHANGED <<session, world, wanted, outcome, hung, kept, answers, touched>>

\* A release that cannot be found out is a warning, and nothing is checked.
Unsuccessful(r, how) ==
    IF pc[r] \in {"detect", "detecting"}
      THEN Goto(r, "write") /\ answers' = [answers EXCEPT ![r] = "unknown"] /\ UNCHANGED outcome
      ELSE End(r, how) /\ UNCHANGED answers

\* sshd refuses a channel beyond its limit; a connection that was reset has none.
NewSessionFails(r) ==
    /\ pc[r] \in {"detect", "reload"}
    /\ \/ link = "up" /\ Cardinality(channels) >= limit /\ Unsuccessful(r, "refused")
       \/ link = "reset" /\ Unsuccessful(r, "failed")
    /\ Synchronise(r)
    /\ UNCHANGED <<session, world, wanted, channels, hung, kept, touched>>

\* The deferred Close.
CloseSession(r) == channels' = channels \ {r}

\* The release is stored, and then used.
ReleaseDetected(r) ==
    /\ pc[r] = "detecting" /\ r \notin hung /\ link = "up"
    /\ CloseSession(r)
    /\ kept' = release /\ writer' = r
    /\ CheckedAgainst(r, release, "known")
    /\ UNCHANGED <<session, world, wanted, hung, touched>>

CommandSucceeds(r) ==
    /\ pc[r] = "reloading" /\ r \notin hung /\ link = "up"
    /\ CloseSession(r)
    /\ End(r, "ok")
    /\ UNCHANGED <<session, world, wanted, hung, kept, writer, answers, touched>>

\* Mutant: the session of a command that failed is not closed.
CommandFailsOpen(r) ==
    /\ pc[r] \in {"detecting", "reloading"} /\ link # "silent"
    /\ r \notin hung \/ link = "reset"
    /\ Unsuccessful(r, "failed")
    /\ UNCHANGED <<session, world, wanted, channels, hung, kept, writer, touched>>

\* Mutant: a detection that failed is kept as release 0.
FailureKept(r) ==
    /\ pc[r] \in {"detecting", "reloading"} /\ link # "silent"
    /\ r \notin hung \/ link = "reset"
    /\ CloseSession(r)
    /\ kept' = IF pc[r] = "detecting" THEN 0 ELSE kept
    /\ Unsuccessful(r, "failed")
    /\ UNCHANGED <<session, world, wanted, hung, writer, touched>>

\* Mutant: a connection that was reset is not noticed.
CommandFailsAlone(r) ==
    /\ pc[r] \in {"detecting", "reloading"} /\ link = "up" /\ r \notin hung
    /\ CloseSession(r)
    /\ Unsuccessful(r, "failed")
    /\ UNCHANGED <<session, world, wanted, hung, kept, writer, touched>>

\* An exit status, or a connection that was reset.
CommandFails(r) ==
    /\ pc[r] \in {"detecting", "reloading"} /\ link # "silent"
    /\ r \notin hung \/ link = "reset"
    /\ CloseSession(r)
    /\ Unsuccessful(r, "failed")
    /\ UNCHANGED <<session, world, wanted, hung, kept, writer, touched>>

\* No command has a timeout.
CommandHangs(r) ==
    /\ pc[r] \in {"detecting", "reloading"} /\ link = "up"
    /\ hung' = hung \cup {r}
    /\ UNCHANGED <<session, world, wanted, pc, outcome, channels, kept, writer, answers, touched>>

\* The write goes over the SFTP channel; what a failed one leaves is AtomicWrite's.
Write(r) ==
    /\ pc[r] = "write" /\ link # "silent"
    /\ \/ link = "up" /\ Goto(r, "reload") /\ UNCHANGED outcome
       \/ End(r, "failed")
    /\ touched' = touched \cup {r}
    /\ Synchronise(r)
    /\ UNCHANGED <<session, world, wanted, channels, hung, kept, answers>>

-----------------------------------------------------------------------------
(* The world around. *)

ConnectionLost ==
    /\ dial = "up" /\ link = "up"
    /\ link' \in {"reset", "silent"}
    /\ UNCHANGED <<session, operations, wanted, release, releases>>

\* The host is upgraded while the provider runs.
Upgrade ==
    /\ \E v \in Releases : v > release /\ release' = v /\ releases' = releases \cup {v}
    /\ UNCHANGED <<session, operations, wanted, link>>

Init ==
    /\ login \in Logins /\ limit \in Limits
    /\ dial = "auth" /\ open = {} /\ link = "up"
    /\ wanted \in [Resources -> Wanted]
    /\ pc = [r \in Resources |-> "config"]
    /\ outcome = [r \in Resources |-> "none"]
    /\ answers = [r \in Resources |-> "none"]
    /\ channels = {} /\ hung = {} /\ touched = {}
    /\ kept = Nil /\ writer = Nil
    /\ release \in Releases /\ releases = {release}

\* Terraform configures the provider when it has found everything valid.
Configure ==
    /\ \A r \in Resources : pc[r] = "valid"
    /\ \/ Authenticate \/ HostKeyCallback \/ DialBastion \/ DialTunnel \/ Handshake
       \/ DialDirect \/ OpenSftp

Operate(r) ==
    \/ Validate(r) \/ Begin(r) \/ Choose(r)
    \/ UsePinned(r) \/ UseKept(r) \/ UseRacing(r) \/ Detect(r)
    \/ NewSession(r) \/ NewSessionFails(r)
    \/ ReleaseDetected(r) \/ CommandSucceeds(r) \/ CommandFails(r)
    \/ Write(r)

Next ==
    \/ Configure \/ DialHangs \/ ConnectionLost \/ Upgrade
    \/ \E r \in Resources : Operate(r) \/ CommandHangs(r)

\* Dial and every operation go on; a peer may fall silent and a command hang.
Fairness == WF_vars(Configure) /\ \A r \in Resources : WF_vars(Operate(r))

Spec == Init /\ [][Next]_vars /\ Fairness

-----------------------------------------------------------------------------
(* Properties. *)

\* A Dial that failed leaves no connection open, to the bastion or the host; the one
\* to the agent it never closes.
FailedDialCloses == dial = "failed" => open \subseteq {"agent"}

\* sshd refuses a command only when more operations run at once than its limit leaves
\* beside the SFTP channel: whatever fails or is refused, no session is leaked.
RefusedOnlyAtLimit ==
    \A r \in Resources : outcome[r] = "refused" => Cardinality(Resources) >= limit

\* The check of the release answers for a release that is pinned or that the host has
\* had: an operation is refused only when one of them lacks a typed directive, and
\* goes through only when one has them all; unless the release could not be detected
\* (the warning), or an operation read it while another stored it, which only refuses.
\* What is refused was not written.
ReleaseTrue ==
    \A r \in Resources :
        LET known == IF login.pinned = 0 THEN releases ELSE {login.pinned}
            used  == Used(wanted[r].body) IN
        /\ outcome[r] = "release" => r \notin touched
        /\ outcome[r] = "release" /\ answers[r] # "racing" => \E v \in known : \E d \in used : Since[d] > v
        /\ wanted[r].checks /\ r \in touched /\ answers[r] # "unknown" =>
              \E v \in known : \A d \in used : Since[d] <= v

\* What validation may be wrong about.
Uncertain(c) == c.content = "blank" \/ c.unknown # {} \/ \E d \in Directives : c.typed[d] = "empty"

\* ValidateConfig answers for what the operation will accept: what it lets through and
\* the operation then refuses was blank, an empty list, or unknown before the run, and
\* what it refuses the operation would refuse too, but for the same and a directive
\* set twice.  Neither writes what it refuses.
ValidationAnswers ==
    \A r \in Resources : LET c == wanted[r].body IN
        /\ outcome[r] \in {"content", "invalid"} => r \notin touched
        /\ outcome[r] = "content" => Uncertain(c)
        /\ outcome[r] = "invalid" => ~ChoosesContent(c) \/ Conflict(c) \/ Uncertain(c)

\* No file sets a directive both in a typed block and in a section block, where the
\* later would silently win or add to it, unless one of them was unknown when
\* ValidateConfig looked: nothing looks again when the file is rendered.
DirectivesSetOnce ==
    \A r \in touched : LET c == wanted[r].body IN
        RenderedTyped(c) \cap RenderedSections(c) \subseteq
            IF "section" \in c.unknown THEN Directives ELSE c.unknown

\* Every operation that begins ends, and Dial does, unless the peer falls silent or a
\* command hangs: nothing here is bounded by a timeout, but nobody waits for another.
Ends ==
    <>(\/ dial \in {"failed", "hung"} \/ link = "silent" \/ hung # {}
       \/ \E r \in Resources : outcome[r] = "invalid"
       \/ \A r \in Resources : pc[r] = "ended")
=============================================================================
