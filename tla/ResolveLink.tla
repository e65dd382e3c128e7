----------------------------- MODULE ResolveLink -----------------------------
(***************************************************************************)
(* systemd_resolve_link (resource_resolve_link.go over PutResolveLink and  *)
(* DeleteResolveLink of client.go): the DNS settings of one network link,  *)
(* which exist only in systemd-resolved's memory.                          *)
(*                                                                         *)
(* A put is one resolvectl command per setting, in the code's order, and   *)
(* stops at the first that fails.  Settings whose attribute is not set are *)
(* skipped.  Read asks for the two lists only.  Runs of Terraform follow   *)
(* each other while commands fail, Terraform crashes, the host reboots and *)
(* others change the link's settings.                                      *)
(***************************************************************************)
EXTENDS Naturals, Sequences

CONSTANTS
    Order,       \* the settings, in the order a put sends them
    Lists,       \* those that are lists: dns and domains
    Values,      \* what a setting may be given: a mode, or a list that is not empty
    Unset,       \* an attribute the configuration does not set
    Empty,       \* an empty list, or an empty string
    Default,     \* a setting nobody has given the link
    Wanted,      \* the configurations the resource may be given
    None,        \* not configured, not in the state
    MaxEdits,    \* bound: edits of the configuration
    MaxTroubles  \* bound: failures, crashes, reboots and changes by somebody else

Settings   == {Order[i] : i \in 1..Len(Order)}
Attributes == [Settings -> Values \cup {Unset, Empty}]

ASSUME OrderAssumption ==
    /\ Order \in Seq(Settings)
    /\ \A i, j \in 1..Len(Order) : Order[i] = Order[j] => i = j
    /\ Lists \subseteq Settings
ASSUME ValuesAssumption ==
    /\ Unset \notin Values /\ Empty \notin Values /\ Default \notin Values
    /\ Unset # Empty
ASSUME WantedAssumption == Wanted \subseteq Attributes /\ None \notin Attributes
ASSUME BoundsAssumption == MaxEdits \in Nat /\ MaxTroubles \in Nat

VARIABLES
    link,     \* the link's settings in systemd-resolved
    config,   \* what the configuration says of the resource
    state,    \* what Terraform's state says of it
    phase,    \* where the run of Terraform is
    at,       \* the place in Order the current operation has come to
    found,    \* Read's local copy of the state
    excuses,  \* history: why the link may not be as the state says
    edits,    \* edits of the configuration so far
    troubles  \* failures, crashes and interferences so far

bounds == <<edits, troubles>>
vars   == <<link, config, state, phase, at, found, excuses, bounds>>

Phases == {"idle", "reading", "planning", "putting", "reverting", "reverted"}

TypeOK ==
    /\ link \in [Settings -> Values \cup {Default}]
    /\ config \in Wanted \cup {None}
    /\ state \in Attributes \cup {None}
    /\ phase \in Phases
    /\ at \in 1..(Len(Order) + 1)
    /\ found \in Attributes \cup {None}
    /\ excuses \subseteq {"failed", "foreign"}
    /\ edits \in 0..MaxEdits
    /\ troubles \in 0..MaxTroubles

-----------------------------------------------------------------------------

Trouble     == troubles < MaxTroubles /\ troubles' = troubles + 1
Excuse(why) == excuses' = excuses \cup {why}

\* Enter a phase at the first setting.
Enter(p) == phase' = p /\ at' = 1

\* The next setting of Order that the operation Picks: all before it are skipped.
NextUp(i, Picks(_)) ==
    /\ i \in at..Len(Order)
    /\ Picks(Order[i])
    /\ \A j \in at..(i - 1) : ~Picks(Order[j])

NoneLeft(Picks(_)) == \A j \in at..Len(Order) : ~Picks(Order[j])

-----------------------------------------------------------------------------
(* Read: the lists the state sets are asked for, one after the other. *)

\* Mutant: no list is asked for.
AskedNothing(s) == FALSE

\* Mutant: the lists the state does not set are asked for too.
AskedAll(s) == s \in Lists

Asked(s) == s \in Lists /\ found[s] # Unset

\* Mutant: the answer is taken as it is.
ReadAsIs(s) == link[s]

\* A link without servers or domains answers with an empty list.
ReadBack(s) == IF link[s] = Default THEN Empty ELSE link[s]

StartRun ==
    /\ phase = "idle"
    /\ IF state = None THEN Enter("planning") ELSE Enter("reading")
    /\ found' = state
    /\ UNCHANGED <<link, config, state, excuses, bounds>>

ReadSetting ==
    /\ phase = "reading"
    /\ \E i \in 1..Len(Order) :
        /\ NextUp(i, Asked)
        /\ found' = [found EXCEPT ![Order[i]] = ReadBack(Order[i])]
        /\ at' = i + 1
    /\ UNCHANGED <<link, config, state, phase, excuses, bounds>>

ReadDone ==
    /\ phase = "reading"
    /\ NoneLeft(Asked)
    /\ state' = found
    /\ Enter("planning")
    /\ UNCHANGED <<link, config, found, excuses, bounds>>

\* An error of Read ends the run; the state stays as it was.
ReadFails ==
    /\ Trouble
    /\ phase = "reading" /\ ~NoneLeft(Asked)
    /\ Enter("idle")
    /\ UNCHANGED <<link, config, state, found, excuses, edits>>

\* Only the link's name is imported; every attribute is null.
Import ==
    /\ phase = "idle"
    /\ config # None /\ state = None
    /\ state' = [s \in Settings |-> Unset]
    /\ Excuse("foreign")
    /\ UNCHANGED <<link, config, phase, at, found, bounds>>

-----------------------------------------------------------------------------
(* Create, Update and Delete. *)

\* An attribute that differs in any way is a change; a list set to what Read found
\* is not.
Plan ==
    /\ phase = "planning"
    /\ Enter(IF state = config THEN "idle" ELSE IF config = None THEN "reverting" ELSE "putting")
    /\ excuses' = IF state = config THEN excuses ELSE excuses \ {"foreign"}
    /\ UNCHANGED <<link, config, state, found, bounds>>

\* PutResolveLink skips a null attribute; of the modes, an empty string too.
Sent(s) == config[s] # Unset /\ (s \in Lists \/ config[s] # Empty)

\* resolvectl with no servers or domains shows the list and changes nothing.
SetTo(s, v) == IF v = Empty THEN UNCHANGED link ELSE link' = [link EXCEPT ![s] = v]

PutSetting ==
    /\ phase = "putting"
    /\ \E i \in 1..Len(Order) :
        /\ NextUp(i, Sent)
        /\ SetTo(Order[i], config[Order[i]])
        /\ at' = i + 1
    /\ UNCHANGED <<config, state, phase, found, excuses, bounds>>

\* Mutant: the error of a setting is dropped, and the next one sent.
PutErrorDropped ==
    /\ Trouble
    /\ phase = "putting"
    /\ \E i \in 1..Len(Order) :
        /\ NextUp(i, Sent)
        /\ SetTo(Order[i], config[Order[i]]) \/ UNCHANGED link
        /\ at' = i + 1
    /\ UNCHANGED <<config, state, phase, found, excuses, edits>>

\* The first failure ends the operation: the state stays as it was, and what was
\* sent before stays on the link.
PutFails ==
    /\ Trouble
    /\ phase = "putting"
    /\ \E i \in 1..Len(Order) :
        /\ NextUp(i, Sent)
        /\ SetTo(Order[i], config[Order[i]]) \/ UNCHANGED link
    /\ Excuse("failed")
    /\ Enter("idle")
    /\ UNCHANGED <<config, state, found, edits>>

PutDone ==
    /\ phase = "putting"
    /\ NoneLeft(Sent)
    /\ state' = config
    /\ excuses' = excuses \ {"failed"}
    /\ Enter("idle")
    /\ UNCHANGED <<link, config, found, bounds>>

Revert ==
    /\ phase = "reverting"
    /\ link' = [s \in Settings |-> Default]
    /\ Enter("reverted")
    /\ UNCHANGED <<config, state, found, excuses, bounds>>

\* Mutant: a failed revert is taken for a successful one.
RevertErrorDropped ==
    /\ Trouble
    /\ phase = "reverting"
    /\ Enter("reverted")
    /\ UNCHANGED <<link, config, state, found, excuses, edits>>

RevertFails ==
    /\ Trouble
    /\ phase = "reverting"
    /\ link' = [s \in Settings |-> Default] \/ UNCHANGED link
    /\ Excuse("failed")
    /\ Enter("idle")
    /\ UNCHANGED <<config, state, found, edits>>

RevertDone ==
    /\ phase = "reverted"
    /\ state' = None
    /\ excuses' = excuses \ {"failed"}
    /\ Enter("idle")
    /\ UNCHANGED <<link, config, found, bounds>>

-----------------------------------------------------------------------------
(* The world around. *)

Edit ==
    /\ phase = "idle"
    /\ edits < MaxEdits /\ edits' = edits + 1
    /\ config' \in (Wanted \cup {None}) \ {config}
    /\ UNCHANGED <<link, state, phase, at, found, excuses, troubles>>

Crash ==
    /\ Trouble
    /\ phase # "idle"
    /\ IF phase \in {"putting", "reverting", "reverted"} THEN Excuse("failed") ELSE UNCHANGED excuses
    /\ Enter("idle")
    /\ UNCHANGED <<link, config, state, found, edits>>

\* Somebody else gives the link a setting.
Meddle ==
    /\ Trouble
    /\ \E s \in Settings, v \in Values \cup {Default} : link' = [link EXCEPT ![s] = v]
    /\ Excuse("foreign")
    /\ UNCHANGED <<config, state, phase, at, found, edits>>

\* The settings are lost with systemd-resolved's memory.
Reboot ==
    /\ Trouble
    /\ link' = [s \in Settings |-> Default]
    /\ Excuse("foreign")
    /\ UNCHANGED <<config, state, phase, at, found, edits>>

-----------------------------------------------------------------------------

Init ==
    /\ link = [s \in Settings |-> Default]
    /\ config \in Wanted \cup {None}
    /\ state = None
    /\ phase = "idle"
    /\ at = 1
    /\ found = None
    /\ excuses = {}
    /\ edits = 0
    /\ troubles = 0

Run ==
    \/ StartRun \/ ReadSetting \/ ReadDone \/ Plan
    \/ PutSetting \/ PutDone \/ Revert \/ RevertDone

Next ==
    \/ Run
    \/ Import \/ ReadFails \/ PutFails \/ RevertFails
    \/ Edit \/ Crash \/ Meddle \/ Reboot

Spec == Init /\ [][Next]_vars

\* Terraform is run again and again, and its commands are answered.
FairSpec == Spec /\ WF_vars(Run)

-----------------------------------------------------------------------------
(* Properties. *)

\* What the state says is on the link, between operations: unless an operation
\* failed or somebody else changed the link since, each value in the state was
\* sent and is still there, whatever was skipped, edited or read meanwhile.
StateTrue ==
    state # None /\ excuses = {} /\ phase \in {"idle", "reading", "planning"} =>
        \A s \in Settings : state[s] \in Values => link[s] = state[s]

\* A link without a state is a link with no settings of ours: only a failed or
\* interrupted create, or somebody else, leaves settings no state knows of.
NoOrphanSettings ==
    state = None /\ phase = "idle" /\ excuses = {} => \A s \in Settings : link[s] = Default

\* An empty list can never be reached from one that is not: the put succeeds and
\* changes nothing, and Read finds the old list again, at every run.
Endless == config # None /\ \E s \in Lists : config[s] = Empty /\ link[s] # Default

Settled ==
    IF config = None THEN state = None
    ELSE \A s \in Settings : config[s] \in Values /\ (s \in Lists \/ excuses = {})
             => link[s] = config[s]

\* After the last edit and the last trouble, plans come to show no changes and the
\* link is as configured: the lists whatever happened, the other settings unless
\* they were changed by somebody else or half sent, which Read does not see.  The
\* one configuration that never settles is an empty list over one that is not.
Converges == <>[](Endless \/ (phase \notin {"putting", "reverting", "reverted"} /\ Settled))

\* The runs keep the contract of module RunContract: a put begins only when something
\* is left to send and ends with it sent, with the one list that cannot be sent, or
\* with an excuse; reading the link never unsettles what was sent.
Standing == IF Endless THEN "stuck" ELSE IF state = config /\ Settled THEN "applied" ELSE "open"

Contract == INSTANCE RunContract WITH
    wanted   <- config,
    host     <- link,
    tracked  <- state # None,
    standing <- Standing,
    status   <- IF phase \in {"putting", "reverting", "reverted"} THEN "working" ELSE "rest",
    excused  <- excuses # {}

KeepsRunContract == Contract!Spec

\* docs/index.md says that the provider "applies the desired state with remote
\* `systemctl`, `networkctl`, and `resolvectl`": after a put that succeeded and
\* before anybody else touched the link, each configured list is the link's list.
DesiredApplied ==
    state # None /\ state = config /\ excuses = {} /\ phase = "idle" =>
        \A s \in Lists : config[s] = Empty => link[s] = Default
=============================================================================
