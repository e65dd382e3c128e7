----------------------------- MODULE AtomicFile -----------------------------
(***************************************************************************)
(* What writing a file through the client promises, without temp files:    *)
(* the file changes hands in one step, from one whole version to another,  *)
(* and a write answered with success did replace it.  A server that does   *)
(* not rename over an existing file breaks the first half: there the file  *)
(* may vanish while one of its writers is at work.                         *)
(***************************************************************************)
CONSTANTS
    Writers,
    Version(_),  \* the version each writer leaves
    Absent

VARIABLES
    dest,      \* the file
    replaced,  \* the writers that have replaced it
    answer,    \* "none", "ok" or "error"
    replaces   \* the writers whose server renames over an existing file

vars == <<dest, replaced, answer, replaces>>

Init == replaced = {} /\ answer = [w \in Writers |-> "none"]

Answer(w, a) == answer' = [answer EXCEPT ![w] = a]

\* The replacement, and possibly its answer; a lost reply makes the answer an error.
Replace(w) ==
    /\ answer[w] = "none" /\ w \notin replaced
    /\ dest' = Version(w)
    /\ replaced' = replaced \cup {w}
    /\ \/ UNCHANGED answer
       \/ Answer(w, "ok")
    /\ UNCHANGED replaces

GiveUp(w) ==
    /\ answer[w] = "none"
    /\ Answer(w, "error")
    /\ UNCHANGED <<dest, replaced, replaces>>

Vanish(w) ==
    /\ answer[w] = "none" /\ w \notin replaces
    /\ dest' = Absent
    /\ UNCHANGED <<replaced, answer, replaces>>

Next == \E w \in Writers : Replace(w) \/ GiveUp(w) \/ Vanish(w)

Spec == Init /\ [][Next]_vars
=============================================================================
