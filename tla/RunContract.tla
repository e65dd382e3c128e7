----------------------------- MODULE RunContract -----------------------------
(***************************************************************************)
(* What runs of Terraform promise the user about one resource, with no     *)
(* host call in sight.                                                     *)
(*                                                                         *)
(*   - an operation begins only when something is left to apply;           *)
(*   - it ends with the resource as configured, or stuck for a named       *)
(*     reason, or with an excuse on record;                                *)
(*   - looking at a resource never changes the host, and what is as        *)
(*     configured stays so until the configuration is edited or somebody   *)
(*     interferes: the next plan shows no changes;                         *)
(*   - a resource leaves the state only by a delete, or with an excuse.    *)
(***************************************************************************)
VARIABLES
    wanted,    \* what the configuration says of the resource
    host,      \* what the host holds of it
    tracked,   \* the resource is in Terraform's state
    standing,  \* "applied", "stuck", or "open" while something is left to apply
    status,    \* "rest", or "working" during an operation
    excused    \* something failed or interfered, and was not made good since

vars == <<wanted, host, tracked, standing, status, excused>>

Init == ~tracked /\ status = "rest"

AtRest == status = "rest" /\ status' = "rest"

\* The configuration is edited.
Edit ==
    /\ AtRest
    /\ wanted' # wanted
    /\ UNCHANGED <<host, tracked, excused>>

\* A refresh, an import, a plan that shows no changes.
Look ==
    /\ AtRest
    /\ UNCHANGED <<wanted, host>>
    /\ excused => excused'
    /\ standing = "applied" => standing' = "applied" \/ excused'
    /\ tracked /\ ~tracked' => excused'

\* A plan that shows changes is carried out.
Begin ==
    /\ status = "rest" /\ status' = "working"
    /\ standing # "applied"
    /\ UNCHANGED <<wanted, host, tracked>>
    /\ excused' => excused

\* One call after the other.  Nothing enters the state, and an excuse is dropped only
\* with the resource that a replacement has deleted.
Work ==
    /\ status = "working" /\ status' = "working"
    /\ UNCHANGED wanted
    /\ tracked' => tracked
    /\ excused /\ ~excused' => tracked /\ ~tracked'

\* The operation is done, or fails, or is killed.
End ==
    /\ status = "working" /\ status' = "rest"
    /\ UNCHANGED wanted
    /\ standing' \in {"applied", "stuck"} \/ excused'

\* Somebody else changes the host.
Disturb ==
    /\ UNCHANGED <<wanted, tracked, status>>
    /\ excused'

Next == Edit \/ Look \/ Begin \/ Work \/ End \/ Disturb

Spec == Init /\ [][Next]_vars

-----------------------------------------------------------------------------

\* What the user sees of it: as long as the configuration is what was applied, and nobody
\* interferes and no refresh fails, Terraform runs no operation and touches nothing.
LeftAlone ==
    standing = "applied" /\ status = "rest" /\ wanted' = wanted /\ ~excused' =>
        status' = "rest" /\ host' = host /\ standing' = "applied" /\ (tracked => tracked')

Idempotent == [][LeftAlone]_vars
=============================================================================
