---------------------------- MODULE TerraformRun ----------------------------
(***************************************************************************)
(* Runs of Terraform over one resource: refresh, plan, and the operation   *)
(* the plan calls for, one Host call at a time.  Machine, Portable,        *)
(* HostFile, Credential and Instance extend it, each with its own host     *)
(* and its own calls.                                                      *)
(*                                                                         *)
(* The resource functions share one shape: they write Terraform's state    *)
(* only when the client returned no error, so a failed create leaves no    *)
(* state and a failed update or delete the state before it.                *)
(***************************************************************************)
EXTENDS Naturals

CONSTANTS
    None,        \* not configured, not in the state
    Absent,      \* not on the host
    MaxEdits,    \* bound: edits of the configuration
    MaxTroubles  \* bound: failures, crashes and changes by somebody else

ASSUME BoundsAssumption == MaxEdits \in Nat /\ MaxTroubles \in Nat

VARIABLES
    host,     \* what the host holds of the resource
    config,   \* what the configuration says of it
    state,    \* what Terraform's state says of it
    pc,       \* the step the run takes next
    excuses,  \* history: why host and state may disagree
    edits,    \* edits of the configuration so far
    troubles  \* failures, crashes and interferences so far

bounds == <<edits, troubles>>
vars   == <<host, config, state, pc, excuses, bounds>>

\* An operation stopped half way; one that creates did, so nothing may be in the
\* state; an error was dropped on purpose; somebody else changed the host; Read took
\* the resource out of the state for an error or a missing template; the image was to
\* be kept.
Excuses == {"failed", "unrecorded", "ignored", "foreign", "lost", "kept"}

Flags == {"on", "off", "unset"}

\* Between operations: nothing has been called that changes the host.
AtRest == pc \in {"idle", "read", "plan"}

-----------------------------------------------------------------------------

Trouble      == troubles < MaxTroubles /\ troubles' = troubles + 1
Excuse(why)  == excuses' = excuses \cup {why}
Goto(step)   == pc' = step

\* The calls of an operation go on to the next.
Call(here, next) ==
    /\ pc = here
    /\ Goto(next)
    /\ UNCHANGED <<config, state, edits>>

\* An error the operation returns: the state stays as it was.
Interrupted == IF state = None THEN Excuse("unrecorded") ELSE Excuse("failed")

Error(here) ==
    /\ pc = here
    /\ Interrupted
    /\ Goto("idle")
    /\ UNCHANGED <<config, state, edits>>

\* A call that cannot succeed fails without any trouble.
TroubleUnless(doomed) == IF doomed THEN UNCHANGED troubles ELSE Trouble

-----------------------------------------------------------------------------
(* Refresh and plan. *)

StartRun ==
    /\ pc = "idle"
    /\ Goto(IF state = None THEN "plan" ELSE "read")
    /\ UNCHANGED <<host, config, state, excuses, bounds>>

ReadFinds(s) ==
    /\ pc = "read"
    /\ state' = s
    /\ Goto("plan")
    /\ UNCHANGED <<host, config, excuses, bounds>>

\* The Read functions that take every error for absence.
ReadLoses ==
    /\ Trouble
    /\ pc = "read"
    /\ state' = None
    /\ Excuse("lost")
    /\ Goto("plan")
    /\ UNCHANGED <<host, config, edits>>

\* The Read functions that return the error: the run ends.
ReadFails ==
    /\ Trouble
    /\ pc = "read"
    /\ Goto("idle")
    /\ UNCHANGED <<host, config, state, excuses, edits>>

\* What a plan calls for; a replacement is a delete and then a create.
Planned(changed, replaced) ==
    IF config = None THEN (IF state = None THEN "nothing" ELSE "delete")
    ELSE IF state = None THEN "put"
    ELSE IF replaced THEN "delete"
    ELSE IF changed THEN "put" ELSE "nothing"

\* An operation sets anew what somebody else changed.
Plan(changed, replaced, firstPut, firstDelete) ==
    /\ pc = "plan"
    /\ LET todo == Planned(changed, replaced) IN
        /\ Goto(IF todo = "put" THEN firstPut ELSE IF todo = "delete" THEN firstDelete ELSE "idle")
        /\ excuses' = IF todo = "nothing" THEN excuses ELSE excuses \ {"ignored", "foreign", "lost", "kept"}
    /\ UNCHANGED <<host, config, state, bounds>>

RecordPut(s, cured) ==
    /\ pc = "record"
    /\ state' = s
    /\ excuses' = excuses \ cured
    /\ Goto("idle")
    /\ UNCHANGED <<host, config, bounds>>

\* A delete that returned no error takes the resource out of the state; the create of
\* a replacement follows.
RecordDelete(why, firstPut) ==
    /\ pc = "forget"
    /\ state' = None
    /\ excuses' = (excuses \ {"failed"}) \cup why
    /\ Goto(IF config = None THEN "idle" ELSE firstPut)
    /\ UNCHANGED <<host, config, bounds>>

-----------------------------------------------------------------------------
(* The world around. *)

Edit(wanted) ==
    /\ pc = "idle"
    /\ edits < MaxEdits /\ edits' = edits + 1
    /\ config' \in (wanted \cup {None}) \ {config}
    /\ UNCHANGED <<host, state, pc, excuses, troubles>>

\* Terraform and the provider are killed: what the operation did stays.
Crash ==
    /\ Trouble
    /\ pc # "idle"
    /\ IF AtRest THEN UNCHANGED excuses ELSE Interrupted
    /\ Goto("idle")
    /\ UNCHANGED <<host, config, state, edits>>

\* Somebody else changes the host.
Meddle(hosts) ==
    /\ Trouble
    /\ host' \in hosts \ {host}
    /\ Excuse("foreign")
    /\ UNCHANGED <<config, state, pc, edits>>

\* A resource that nobody configured yet, on a host that holds nothing of it.
InitWith(nothing, wanted) ==
    /\ host = nothing
    /\ config \in wanted \cup {None}
    /\ state = None
    /\ pc = "idle"
    /\ excuses = {}
    /\ edits = 0
    /\ troubles = 0

\* The types of all but the host, given a kind's configurations, states and calls.
TypesWith(wanted, states, calls) ==
    /\ config \in wanted \cup {None}
    /\ state \in states \cup {None}
    /\ pc \in {"idle", "read", "plan", "record", "forget"} \cup calls
    /\ excuses \subseteq Excuses
    /\ edits \in 0..MaxEdits
    /\ troubles \in 0..MaxTroubles
=============================================================================
