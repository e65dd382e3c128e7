----------------------------- MODULE Credential -----------------------------
(***************************************************************************)
(* systemd_credential (resource_credential.go over the client's credential *)
(* calls): one secret, in plain text in /etc/credstore or encrypted by     *)
(* systemd-creds in /etc/credstore.encrypted.  The path follows the        *)
(* encrypted flag, whose change forces replacement.  Read only asks        *)
(* whether the file is there.                                              *)
(***************************************************************************)
EXTENDS TerraformRun

CONSTANTS
    CredentialConfigs,  \* the configurations a credential may be given
    Secrets,            \* data, with the key source it is encrypted with
    Broken              \* a file systemd-creds did not finish

Nothing == [plain |-> Absent, encrypted |-> Absent]

CredentialStates == [data : Secrets, encrypted : BOOLEAN]

TypeOK ==
    /\ host \in [plain : Secrets \cup {Absent}, encrypted : Secrets \cup {Absent, Broken}]
    /\ TypesWith(CredentialConfigs, CredentialStates, {"write", "unlink"})

\* credPath: which of the two files a configuration or a state is about.
File(c) == IF c.encrypted THEN "encrypted" ELSE "plain"

-----------------------------------------------------------------------------

Read == ReadFinds(IF host[File(state)] = Absent THEN None ELSE state)

Changed  == config.data # state.data
Replaced == config.encrypted # state.encrypted

Write ==
    /\ Call("write", "record")
    /\ host' = [host EXCEPT ![File(config)] = config.data]
    /\ UNCHANGED <<excuses, troubles>>

\* The plain file is written beside and renamed; systemd-creds writes in place.
WriteFails ==
    /\ Trouble
    /\ Error("write")
    /\ \E left \in {host[File(config)], config.data, IF config.encrypted THEN Broken ELSE Absent} :
         host' = [host EXCEPT ![File(config)] = left]

\* Mutant: the file the configuration names is removed, not the state's.
UnlinkByConfig ==
    /\ Call("unlink", "forget")
    /\ host' = [host EXCEPT ![File(IF config = None THEN state ELSE config)] = Absent]
    /\ UNCHANGED <<excuses, troubles>>

Unlink ==
    /\ Call("unlink", "forget")
    /\ host' = [host EXCEPT ![File(state)] = Absent]
    /\ UNCHANGED <<excuses, troubles>>

\* Mutant: the error is dropped, and the resource leaves the state.
UnlinkErrorDropped ==
    /\ Trouble
    /\ Call("unlink", "forget")
    /\ UNCHANGED excuses
    /\ host' \in {host, [host EXCEPT ![File(state)] = Absent]}

UnlinkFails ==
    /\ Trouble
    /\ Error("unlink")
    /\ host' \in {host, [host EXCEPT ![File(state)] = Absent]}

\* What a failed create left at the other path is not cured by this put.
Record ==
    /\ pc = "record"
    /\ RecordPut([data |-> config.data, encrypted |-> config.encrypted], {"failed"})

Forget == pc = "forget" /\ RecordDelete({}, "write")

-----------------------------------------------------------------------------

Init == InitWith(Nothing, CredentialConfigs)

\* Others remove the credential.
Others == {[host EXCEPT !.plain = Absent], [host EXCEPT !.encrypted = Absent]}

Run == StartRun \/ Read \/ Plan(Changed, Replaced, "write", "unlink") \/ Write \/ Unlink \/ Record \/ Forget

Next ==
    \/ Run
    \/ ReadFails \/ WriteFails \/ UnlinkFails
    \/ Edit(CredentialConfigs) \/ Crash \/ Meddle(Others)

-----------------------------------------------------------------------------
(* Properties. *)

\* Unless an operation failed or somebody removed it, the secret of the state is on
\* the host, and only at the path of its kind.
StateTrue ==
    state # None /\ AtRest /\ excuses = {} =>
        host = [Nothing EXCEPT ![File(state)] = state.data]

\* docs/resources/systemd_credential.md: when encrypted changes, "Terraform destroys
\* the credential at the old path before creating it at the new one".  Whatever
\* fails or is edited in between, there is never a copy at a path that the state
\* does not name, but for one of a create that failed.
OneCopy ==
    AtRest /\ "unrecorded" \notin excuses =>
        \A f \in {"plain", "encrypted"} : host[f] # Absent => state # None /\ File(state) = f

Settled ==
    IF config = None THEN state = None
    ELSE /\ state # None /\ ~Changed /\ ~Replaced
         /\ host[File(config)] # Absent
         /\ excuses = {} => host[File(config)] = config.data
=============================================================================
