----------------------------- MODULE AtomicWrite -----------------------------
(***************************************************************************)
(* Client.atomicWriteMode (internal/remote/ssh.go): how every unit,        *)
(* drop-in, network, resolved and credential file reaches the host.        *)
(*                                                                         *)
(* Several writers, resources or runs of the provider, replace one file    *)
(* over one SFTP connection.  Each SFTP request is one step; the server    *)
(* may refuse it, and the connection may be lost between two requests or   *)
(* between a request and its reply.  After a refused posix-rename the code *)
(* falls back to removing the destination and a plain rename.              *)
(*                                                                         *)
(* Contents are abstracted to whose write they are and whether they are    *)
(* whole.                                                                  *)
(***************************************************************************)
CONSTANTS
    Writers,      \* concurrent writes of the one path
    Modes,        \* file permissions
    Mode,         \* the permissions each write asks for
    DefaultMode,  \* the permissions a created file has
    Nobody,       \* the writer of the version found
    Absent        \* no such file

\* A version of the file: whose write it is, whether it is whole, its permissions.
Versions == [by : Writers \cup {Nobody}, extent : {"partial", "whole"}, mode : Modes]

ASSUME ModesAssumption ==
    /\ Mode \in [Writers -> Modes]
    /\ DefaultMode \in Modes
ASSUME NobodyAssumption == Nobody \notin Writers /\ Absent \notin Versions

VARIABLES
    posix,      \* the writers whose posix-rename the server carries out
    connected,  \* the SFTP connection is up
    dest,       \* the file being replaced
    tmp,        \* each writer's temp file
    pc,         \* each writer's next request
    answer,     \* what atomicWriteMode returned
    placed,     \* history: the writers whose version became the file
    uncleaned   \* history: the writers whose removal of the temp file failed

vars == <<posix, connected, dest, tmp, pc, answer, placed, uncleaned>>

File(w, extent, mode) == [by |-> w, extent |-> extent, mode |-> mode]

Old    == File(Nobody, "whole", DefaultMode)
New(w) == File(w, "whole", Mode[w])

Requests == {"mkdir", "create", "copy", "close", "chmod", "posix_rename",
             "unlink", "rename", "cleanup", "done"}

TypeOK ==
    /\ posix \subseteq Writers
    /\ connected \in BOOLEAN
    /\ dest \in Versions \cup {Absent}
    /\ tmp \in [Writers -> Versions \cup {Absent}]
    /\ pc \in [Writers -> Requests]
    /\ answer \in [Writers -> {"none", "ok", "error"}]
    /\ placed \subseteq Writers
    /\ uncleaned \subseteq Writers

-----------------------------------------------------------------------------
(* The code: the next request after each answer, and what it returns. *)

Goto(w, request) == pc' = [pc EXCEPT ![w] = request] /\ UNCHANGED answer

\* Mutant: the answer is the request that failed.
ReturnWhere(w, a) ==
    /\ pc' = [pc EXCEPT ![w] = "done"]
    /\ answer' = [answer EXCEPT ![w] = pc[w]]

Return(w, a) ==
    /\ pc' = [pc EXCEPT ![w] = "done"]
    /\ answer' = [answer EXCEPT ![w] = a]

\* Mutant: the temp file is renamed into place before its permissions are set.
OnSuccessBeforeChmod(w) ==
    \/ pc[w] = "mkdir"   /\ Goto(w, "create")
    \/ pc[w] = "create"  /\ Goto(w, "copy")
    \/ pc[w] = "copy"    /\ Goto(w, "close")
    \/ pc[w] = "close"   /\ Goto(w, "posix_rename")
    \/ pc[w] = "chmod"   /\ Return(w, "ok")
    \/ pc[w] \in {"posix_rename", "rename"} /\ Return(w, "ok")
    \/ pc[w] = "unlink"  /\ Goto(w, "rename")
    \/ pc[w] = "cleanup" /\ Return(w, "error")

\* Mutant: the destination is removed first, then the temp file renamed.
OnSuccessRemovesFirst(w) ==
    \/ pc[w] = "mkdir"   /\ Goto(w, "create")
    \/ pc[w] = "create"  /\ Goto(w, "copy")
    \/ pc[w] = "copy"    /\ Goto(w, "close")
    \/ pc[w] = "close"   /\ Goto(w, "chmod")
    \/ pc[w] = "chmod"   /\ Goto(w, "unlink")
    \/ pc[w] \in {"posix_rename", "rename"} /\ Return(w, "ok")
    \/ pc[w] = "unlink"  /\ Goto(w, "posix_rename")
    \/ pc[w] = "cleanup" /\ Return(w, "error")

OnSuccess(w) ==
    \/ pc[w] = "mkdir"   /\ Goto(w, "create")
    \/ pc[w] = "create"  /\ Goto(w, "copy")
    \/ pc[w] = "copy"    /\ Goto(w, "close")
    \/ pc[w] = "close"   /\ Goto(w, "chmod")
    \/ pc[w] = "chmod"   /\ Goto(w, "posix_rename")
    \/ pc[w] \in {"posix_rename", "rename"} /\ Return(w, "ok")
    \/ pc[w] = "unlink"  /\ Goto(w, "rename")
    \/ pc[w] = "cleanup" /\ Return(w, "error")

\* Mutant: a failed chmod returns without removing the temp file.
OnErrorKeepsTemp(w) ==
    \/ pc[w] \in {"mkdir", "create", "chmod", "cleanup"} /\ Return(w, "error")
    \/ pc[w] \in {"copy", "close", "rename"}    /\ Goto(w, "cleanup")
    \/ pc[w] = "posix_rename" /\ Goto(w, "unlink")
    \/ pc[w] = "unlink"       /\ Goto(w, "rename")

\* Mutant: the error of the plain rename is ignored too.
OnErrorRenameIgnored(w) ==
    \/ pc[w] \in {"mkdir", "create", "cleanup"} /\ Return(w, "error")
    \/ pc[w] \in {"copy", "close", "chmod"} /\ Goto(w, "cleanup")
    \/ pc[w] = "posix_rename" /\ Goto(w, "unlink")
    \/ pc[w] = "unlink"       /\ Goto(w, "rename")
    \/ pc[w] = "rename"       /\ Return(w, "ok")

\* The error of the removals, of the temp file and of the destination, is ignored.
OnError(w) ==
    \/ pc[w] \in {"mkdir", "create", "cleanup"} /\ Return(w, "error")
    \/ pc[w] \in {"copy", "close", "chmod", "rename"} /\ Goto(w, "cleanup")
    \/ pc[w] = "posix_rename" /\ Goto(w, "unlink")
    \/ pc[w] = "unlink"       /\ Goto(w, "rename")

-----------------------------------------------------------------------------
(* The server. *)

PutTemp(w, file) == tmp' = [tmp EXCEPT ![w] = file] /\ UNCHANGED <<dest, placed>>

\* What the request does when it is carried out.
Effect(w) ==
    \/ pc[w] \in {"mkdir", "close"} /\ UNCHANGED <<tmp, dest, placed>>
    \/ pc[w] = "create"  /\ PutTemp(w, File(w, "partial", DefaultMode))
    \/ pc[w] = "copy"    /\ PutTemp(w, [tmp[w] EXCEPT !.extent = "whole"])
    \/ pc[w] = "chmod"   /\ PutTemp(w, [tmp[w] EXCEPT !.mode = Mode[w]])
    \/ pc[w] = "unlink"  /\ dest' = Absent /\ UNCHANGED <<tmp, placed>>
    \/ pc[w] = "cleanup" /\ PutTemp(w, Absent)
    \/ /\ pc[w] \in {"posix_rename", "rename"}
       /\ dest' = tmp[w]
       /\ tmp' = [tmp EXCEPT ![w] = Absent]
       /\ placed' = placed \cup {w}

\* A posix-rename needs the server's support, a plain rename a free name.
CanCarry(w) ==
    /\ pc[w] # "done"
    /\ pc[w] = "posix_rename" => w \in posix
    /\ pc[w] = "rename" => dest = Absent

Answered(w) ==
    /\ connected /\ CanCarry(w)
    /\ Effect(w)
    /\ OnSuccess(w)
    /\ UNCHANGED <<posix, connected, uncleaned>>

\* The server refuses the request, or there is no connection to send it on.
Refused(w) ==
    /\ pc[w] # "done"
    /\ connected => ~(pc[w] = "posix_rename" /\ w \in posix)
    /\ OnError(w)
    /\ uncleaned' = IF pc[w] = "cleanup" THEN uncleaned \cup {w} ELSE uncleaned
    /\ UNCHANGED <<posix, connected, dest, tmp, placed>>

\* The request is carried out, and the connection lost before the reply.
ReplyLost(w) ==
    /\ connected /\ CanCarry(w)
    /\ connected' = FALSE
    /\ Effect(w)
    /\ OnError(w)
    /\ UNCHANGED <<posix, uncleaned>>

Disconnect ==
    /\ connected
    /\ connected' = FALSE
    /\ UNCHANGED <<posix, dest, tmp, pc, answer, placed, uncleaned>>

Init ==
    /\ posix \in SUBSET Writers
    /\ connected = TRUE
    /\ dest \in {Absent, Old}
    /\ tmp = [w \in Writers |-> Absent]
    /\ pc = [w \in Writers |-> "mkdir"]
    /\ answer = [w \in Writers |-> "none"]
    /\ placed = {}
    /\ uncleaned = {}

Next ==
    \/ \E w \in Writers : Answered(w) \/ Refused(w) \/ ReplyLost(w)
    \/ Disconnect

Spec == Init /\ [][Next]_vars

-----------------------------------------------------------------------------
(* Properties. *)

\* What is seen at the path is never half written and never has the permissions
\* of a temp file: it is the version found, or a write's whole content with the
\* permissions that write asked for, on every server and through every failure.
NeverTorn == dest \in {Absent, Old} \cup {New(w) : w \in placed}

\* The answer tells whether the file was replaced: success means that it was, and
\* an error on a connection that still works means that it was not.
AnswerTrue ==
    \A w \in Writers :
        /\ answer[w] = "ok" => w \in placed
        /\ answer[w] = "error" /\ connected => w \notin placed

\* A write leaves its temp file behind only when the connection was lost or the
\* server refused to remove it.
NoLitter ==
    \A w \in Writers :
        pc[w] = "done" /\ tmp[w] # Absent => ~connected \/ w \in uncleaned

Abstract == INSTANCE AtomicFile WITH
    Version  <- New,
    replaced <- placed,
    replaces <- posix

\* The requests of a write amount to one step that replaces the file, wherever the
\* server renames over an existing file; elsewhere the file may vanish.
ReplacesAtOnce == Abstract!Spec

\* ssh.go says that atomicWriteMode "writes content to remotePath atomically", the
\* README "atomic temp file + rename": a file that exists never goes missing.
NeverMissing == [][dest # Absent => dest' # Absent]_vars
=============================================================================
