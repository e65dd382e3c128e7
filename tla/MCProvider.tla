----------------------------- MODULE MCProvider -----------------------------
(***************************************************************************)
(* Provider with three operations: every way to log in with plain          *)
(* resources, and every representation of one resource's body with a plain *)
(* login.                                                                  *)
(***************************************************************************)
EXTENDS Provider, TLC

CONSTANTS unit, timer, network, old, new

Login(key, useAgent, agentRuns, hostKeys, bastion, pinned) ==
    [key |-> key, useAgent |-> useAgent, agentRuns |-> agentRuns, hostKeys |-> hostKeys,
     bastion |-> bastion, pinned |-> pinned]

PlainLogin == Login("good", FALSE, FALSE, TRUE, FALSE, 0)

MCLogins == LoginRecords

MCSince == old :> 251 @@ new :> 255

Body(content, blocks, typed, unknown) ==
    [content |-> content, blocks |-> blocks, typed |-> typed, unknown |-> unknown]

\* Typed blocks with one directive.
With(d, how) == [e \in Directives |-> IF e = d THEN how ELSE "null"]

Typed(d) == [body |-> Body("null", <<>>, With(d, "set"), {}), checks |-> TRUE]
Plain    == [body |-> Body("text", <<>>, With(old, "null"), {}), checks |-> FALSE]

\* Content, blocks that do and do not name the typed directive, and what is unknown.
Bodies ==
    {Body(content, blocks, With(old, how), unknown) :
        content \in {"null", "blank", "text"}, blocks \in {<<>>, <<{new}>>, <<{new}, {old}>>},
        how \in {"null", "set", "empty"}, unknown \in {{}, {"content"}, {"section"}, {old}}}

MCWanted == {Plain} \cup {Typed(d) : d \in Directives} \cup {[body |-> b, checks |-> FALSE] : b \in Bodies}

Of(u, t) == unit :> u @@ timer :> t @@ network :> Plain

TypedOnes == {Typed(d) : d \in Directives}

MCInit ==
    /\ \/ \E u \in MCWanted : login = PlainLogin /\ limit = 4 /\ wanted = Of(u, Typed(old))
       \/ \E u \in TypedOnes : login = PlainLogin /\ limit = 3 /\ wanted = Of(u, Typed(new))
       \/ \E l \in LoginRecords : login = l /\ limit = 4 /\ wanted = Of(Typed(new), Plain)
    /\ Init

MCSpec == MCInit /\ [][Next]_vars /\ Fairness
=============================================================================
