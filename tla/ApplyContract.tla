---------------------------- MODULE ApplyContract ----------------------------
(***************************************************************************)
(* What the client promises Terraform about every resource, with no host   *)
(* call in sight.  Terraform asks something of a resource and is answered  *)
(* with success or failure; several resources proceed at once.             *)
(*                                                                         *)
(*   - success is answered only when the host honours what was asked;      *)
(*   - what was answered with success stays as it is on the host until     *)
(*     Terraform asks the next thing of that very resource, whatever is    *)
(*     asked of the others;                                                *)
(*   - a failure, and anything before the answer, promises nothing.        *)
(***************************************************************************)
CONSTANTS
    Resources,
    Honours(_, _, _)  \* Honours(r, g, v): v is what the host should show of r, asked for g

VARIABLES
    asked,   \* what was last asked of each resource
    status,  \* "idle", "busy", "ok" or "failed"
    view     \* what the host shows of each resource

vars == <<asked, status, view>>

Init == \A r \in Resources : status[r] = "idle"

\* Terraform asks something of a resource that is not busy; an operation with
\* nothing to do is answered at once.
Ask(r) ==
    /\ status[r] # "busy"
    /\ \/ status'[r] = "busy"
       \/ status'[r] = "ok" /\ Honours(r, asked'[r], view'[r])

Work(r) ==
    /\ status[r] = "busy" /\ status'[r] = "busy"
    /\ asked'[r] = asked[r]

Succeed(r) ==
    /\ status[r] = "busy" /\ status'[r] = "ok"
    /\ asked'[r] = asked[r]
    /\ Honours(r, asked[r], view'[r])

Fail(r) ==
    /\ status[r] = "busy" /\ status'[r] = "failed"
    /\ asked'[r] = asked[r]

Rest(r) ==
    /\ status[r] # "busy" /\ status'[r] = status[r]
    /\ asked'[r] = asked[r]
    /\ status[r] = "ok" => view'[r] = view[r]

Next == \A r \in Resources : Ask(r) \/ Work(r) \/ Succeed(r) \/ Fail(r) \/ Rest(r)

Spec == Init /\ [][Next]_vars
=============================================================================
