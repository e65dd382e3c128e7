# terraform-provider-systemd: verification

TLA+ models of the provider's behaviour, TLC configurations that check them on
small instances, and TLAPS proofs for every size. The models are translated from
the Go sources; `PROJECT.json` names the lines each definition stands for.

    tlc -config MCUnitApply.cfg MCUnitApply.tla     # model-check a module
    tlapm UnitApply_proofs.tla                      # check the proofs of a module

## 1. The system

The provider manages files and services of one systemd host over one SSH
connection. Terraform calls Create, Read, Update and Delete of the resources, in
parallel for different resources; each is a sequence of commands and SFTP requests.

| Part | Source | State | Operations |
|---|---|---|---|
| Client | `internal/provider/client.go` | host handle, verify mode, cached release | Put / Delete of units, drop-ins, networks, credentials, machines, portables, resolved files, per-link DNS |
| Host interface | `internal/remote/host.go`, `ssh.go` | SSH and SFTP connection | files, `systemctl`, `networkctl`, `resolvectl`, `machinectl`, `portablectl`, `systemd-creds` |
| Atomic writes | `ssh.go` `atomicWriteMode` | a temp file | write, chmod, rename, fallback |
| File resources | `resource_unit.go`, `resource_unit_like.go`, `resource_dropin.go`, `resource_network.go`, `resource_resolved*.go` | Terraform's state of a file | Create, Read, Update, Delete, Import |
| Lifecycle resources | `resource_instance.go` | state of a template's instance | same |
| Credential, machine, portable, resolve_link | `resource_*.go` | state; secrets, images, runtime DNS on the host | same |
| Provider and session | `provider.go`, `ssh.go` `Dial` | connection, bastion | Configure, Dial, Close |
| Release detection | `client.go`, `props.go` | cached release | detect, check directives |
| Typed sections | `props.go`, `sections.go`, `unitfile.go`, `catalog.go` | none | render, parse, validate |
| Data sources, test hosts, generator | `data_sources.go`, `fake.go`, `nspawn.go`, `cmd/genprops` | none | read-only, tests, build time |

How they interact: a resource function calls one operation of the client, the
client calls the Host several times and stops at the first error it does not
ignore; the resource function writes Terraform's state only when the client
returned no error. All resources share one client, one connection and, on the host,
one service manager: `daemon-reload` run for one resource reads every file.

What is hard:

- operations of different resources interleave between any two Host calls;
- each call may fail before or after it acted, and its reply may be lost;
- some errors are ignored on purpose (stop, disable, removal of temp files), one by
  accident of design (the read before a write);
- Read takes any error for absence, and what Read finds decides what the next plan
  does, so a failure of one run is repaired, or hidden, by the next;
- nothing is transactional: rollback and fallback are sequences of calls too.

What makes each part correct: the client must answer success only when the host is
as asked, and must keep it so while others work; a write must replace a file whole;
Terraform's runs must never lose track of a file and must settle; a session must
close what it opened; a machine, portable or link half put must be completed or
reported by the next run; rendering and parsing must agree.

## 2. Modules

| Module | Models | State | Actions |
|---|---|---|---|
| `ApplyContract` | what the client promises, without host calls | asked, status, view of each resource | Ask, Work, Succeed, Fail, Rest |
| `UnitApply` | `client.go` put and delete of units, drop-ins and instances | files, the manager's copies, enablement, services; each operation's next call, goal, `prev`, outcome | one per Host call, and one for its failure; Kill |
| `UnitApply_proofs` | proofs about `UnitApply` | | |
| `AtomicFile` | what a write promises: one step from whole version to whole version | the file, who replaced it, answers | Replace, GiveUp, Vanish |
| `AtomicWrite` | `atomicWriteMode` request by request | the file, temp files, connection, next request of each writer | Answered, Refused, ReplyLost, Disconnect |
| `AtomicWrite_proofs` | proofs about `AtomicWrite` | | |
| `ManagedFiles` | the file resources under Terraform's runs, EXTENDS `UnitApply` | configuration, state, phase of the run | Refresh, Import, Apply, Record, calls and their failures, Edit, Drift, Crash |
| `ResolveLink` | `systemd_resolve_link` over `PutResolveLink` and `DeleteResolveLink` | the link's settings, configuration, state, phase, place in the list of commands, Read's copy | StartRun, ReadSetting, ReadDone, Plan, PutSetting, PutDone, Revert, RevertDone, their failures; Import, Edit, Crash, Meddle, Reboot |
| `ManagedFiles_proofs`, `ResolveLink_proofs` | proofs about the two | | |
| `RunContract` | what runs of Terraform promise about one resource, without host calls | wanted, host, tracked, standing, status, excused | Edit, Look, Begin, Work, End, Disturb |
| `TerraformRun` | refresh, plan and apply over one resource, one Host call at a time; EXTENDED by the five below | host, configuration, state, next call, excuses | StartRun, Read*, Plan, Record*, Edit, Crash, Meddle |
| `UnitLifecycle` | `ApplyUnitLifecycle`, `DeleteUnitLifecycle` on the unit of one resource | | SetEnabled, StartUnit, StopUnit, DisableUnit, their failures |
| `Machine` | `systemd_machine` over `PutMachine`, `DeleteMachine` | image, settings file, unit | show, drop, fetch, settings, reload, remove, their failures |
| `Portable` | `systemd_portable` over `PutPortable`, `DeletePortable` | directory and raw image, what is attached, unit | detach, purge, fetch, attach, their failures |
| `HostFile` | network and resolved files | file, what its daemon runs with | write, unlink, reload or restart, their failures |
| `Credential` | `systemd_credential` | the plain and the encrypted file | write, unlink, their failures |
| `Instance` | `systemd_instance` | template, enablement, what runs | lifecycle calls, Import |
| `HostResources` | the five, INSTANCEd; a behaviour is about one of them | kind | Run, Next |
| `HostResources_proofs`, `Images_proofs` | proofs about files, credentials and instances; about machines and portable services | | |
| `RunContract_proofs` | proof that the five keep `RunContract` | | |
| `Content` | what a resource's body is: content, section blocks, typed blocks | none | operators |
| `Provider` | one process: `Dial`, sessions, the cached release, the check before a write, EXTENDS `Content` | connection, channels, cache, next step of each operation, the host's release | Configure, Operate, CommandHangs, ConnectionLost, Upgrade |
| `Provider_proofs` | proofs about `Provider` and `Content` | | |
| `MC*` | instances for TLC | | |

The MC modules only give values to constants; `MCSpec` of `MCManagedFiles.tla` and
of `MCProvider.tla` also fix which combinations of configurations begin, and
`MachineSpec` of `MCHostResources.tla` the kind.

### UnitApply

Each resource runs one operation at a time; `pc[r]` is the Host call it makes next.
The variables `file`, `loaded`, `enabled`, `running` are the host; `goal` the
operation's arguments, `prev` the local variable of `PutUnitVerified`; `mode` and
`analyzer` are the provider's verify setting and whether the host has
`systemd-analyze`. An operation's calls:

    put of a unit, verify off    write reload [enable] [activate]
    put of a unit, warn, error   read write verify reload [enable] [activate]
                                   or verify rollback, in error mode
    put of a drop-in             write reload
    put of an instance           [enable] [activate]
    delete of a unit             stop disable remove reload
    delete of a drop-in          remove reload
    delete of an instance        stop disable

A flag that is `"unset"` (a nil `*bool`) skips its call. `before` and `ignored` are
history variables: the unit as the operation found it, and the failures it kept
quiet about.

The host's side is modelled from how the provider uses it and marked external:
`daemon-reload` reads every file; `systemctl enable` and `disable` may reload too;
`systemctl start` does nothing to a running unit, and reads from disk a unit the
manager does not hold. A failed write may leave the old file, the new one or none,
which is what `AtomicWrite` shows of it.

### AtomicWrite

One program counter per writer, one step per SFTP request. `OnSuccess` and `OnError`
are the code: which request follows an answer. `Effect` and `CanCarry` are the
server: whether it supports posix-rename (`posix`), and that a plain rename needs
a free name, as in OpenSSH. After a lost connection every request is refused, since the
client never reconnects. Temp names are distinct: they hold a time in nanoseconds.
The `Close` after a failed copy only releases a handle and is left out.

### RunContract

What all the resources have in common, seen by the user. A resource is `"applied"`, `"stuck"`
for a reason the code does not let it out of, or `"open"`; it is at rest or worked on; and
it may be excused: something failed, was dropped or was done by others, and has not been made
good since. An operation begins only when the resource is not applied, and ends with it
applied, stuck or excused. Looking (a refresh, an import, an empty plan) changes nothing on
the host, unsettles nothing, and loses no resource without an excuse. `ManagedFiles` keeps it
for every file at once (`Promise(f)`), `ResolveLink` for its link, `HostResources` for the
resource it runs (`Contract`); each defines what "applied" means (`Settled`) and what
excuses it (`excuses`) from its own variables. The contract says nothing about what the
resource is meanwhile: that is `StateTrue`.

### ManagedFiles

A run is Refresh, then NoChanges or Apply, then the client's calls, then Record.
`state` holds what Terraform's state knows that decides a plan: raw `content` or
sections, the flags, the content applied last (`body`) and last read (`content`).
`Differs` is Terraform's comparison: raw content is compared with what Read found, but
with sections `content` is a computed attribute and only the sections are
compared. `excuses` is a history variable naming why a file may be unmanaged or not
as asked. A resource whose content or directives are refused fails before its first
call; that part of an operation is in `Provider`.

### ResolveLink

`Order` is the sequence of settings a put sends, one `resolvectl` command each, and
`at` the place it has come to. `Sent` is what `desiredFromModel` and `PutResolveLink`
skip together: a null attribute, and for the modes an empty string too. `SetTo` is
the command's effect as `resolvectl` documents it: without arguments it only shows
the list. Read asks for `dns` and `domains` if the state sets them, into its local
copy `found`, and stores it at the end. The settings live in systemd-resolved's
memory, so `Reboot` loses them. `excuses` is a history variable: an operation failed
half way, or somebody else changed the link. The removal of the link itself, after
which every command fails, is not modelled.

### TerraformRun and its five resources

The resource functions share a shape, which `TerraformRun` states once: they write
Terraform's state only when the client returned no error, so a failed create leaves
no state and a failed update or delete the state before it. `pc` is the call that
comes next; `Call(here, next)` goes on to the following one, `Error(here)` ends the
operation. `Plan` is what a plan calls for: a replacement is a delete and then a
create. The Read functions differ in one thing: `ReadLoses` is for those that take
every error for absence, `ReadFails` for those that return it.

What each module adds is its Host calls in the order of the code, what each leaves
when it fails, and which of its errors the client drops. A call that cannot succeed
(an image fetched where one is, a unit enabled without a file) fails by itself; any
other failure is counted in `troubles`. Two facts of the code shape the models:

- every put of a machine or a portable service first removes the image that is there,
  with the error dropped, and then fetches. A running machine locks its image, so the
  fetch finds it in place and fails: an update of a running machine never succeeds
  (`ssh.go:495-510`; `Blocked`), only its replacement does.
- without content and sections, `systemd_machine` leaves `content` unknown after a
  create (see the findings; `tainted`).

`excuses` are history: why host and state may disagree. "failed": an operation stopped
half way; "unrecorded": one that creates, so that no state exists; "ignored": an error
the client drops; "foreign": somebody else changed the host; "lost": Read took the
resource out of the state; "kept": the image was to be kept. A put that succeeds cures
those it repairs.

The resources share no part of the host with each other, so `HostResources` chooses
one and lets it run; the daemon-reload of one reaches another only through unit
files, which is `UnitApply`, and through `OtherReload` of `HostFile`. Images,
contents and secrets are model values; `Unfit` and `Unpackable` are those whose type or name
`MachinectlEnsureArgs` and `EnsurePortableImage` refuse, the one before and the
other after the old image is gone. Names, paths and the parsing of command output
are not modelled.

### Provider and Content

`dial` is the next step of `Dial`, and `open` what it has opened and not closed. Each
operation runs through validation, the choice of its content, the check of its
directives against the release of the host, its write and a command (`reload` stands for
the commands that follow the write; the modules above have them one by one). `channels` is who
holds a channel of the one connection: the SFTP client always, an operation while its
command runs. `kept` is `Client.detectedVersion`, read and written without a lock:
`writer` is whoever stored it and has not synchronised since, and until then another
operation may see nothing, the release, or the pointer without the number behind it
(`UseRacing` reads 0; Go's memory model allows any of the three). `releases` and `answers`
are history.

A command may never end (`CommandHangs`), the peer may fall silent in `Dial`
(`DialHangs`) or later: the code has no timeout for these. Terraform's order is
external: it validates every resource, then configures the provider, then runs
operations in parallel.

`Content` gives a body as what the code tells apart: content that is null, blank or
text; a sequence of section blocks, each the directives it names; for each directive
of the typed blocks whether it is not set, set, or an empty list; and which of these are
not known before the run. The names inside a section block are taken as known once the
list of blocks is. `Validates` is `ValidateConfig`, `ChoosesContent` is
`ChooseContent` on what typed and section blocks render, and `Used` what the check of the
release looks at: an empty list counts there, though it renders to nothing.

## 3. What is checked

| Run | Instance | Result |
|---|---|---|
| `UnitApply` | one unit, one drop-in, one instance; two contents, one refused; three operations | passes, 1 024 054 states |
| `AtomicWrite` | three writers, two permissions, every set of writers with posix-rename | passes, 119 424 states |
| `ManagedFiles` | one unit, two contents, raw and sections, two edits, two troubles | passes, 361 292 states |
| `ResolveLink` | two lists and one mode, five configurations, two edits, three troubles | passes, 389 409 states |
| `HostResources` | one resource of each of the five kinds, four or five configurations, two edits, two troubles | passes, 137 215 states |
| `Provider` | three operations, every way to log in, every body of two directives, limits of 3 and 4 channels, two releases | passes, 897 831 states |
| `UnitApplyRead` | one unit, one drop-in | `FileLeftUntouched` violated |
| `UnitApplyReload` | one unit, one drop-in | `ManagerLeftUntouched` violated |
| `AtomicWriteFallback` | one writer | `NeverMissing` violated |
| `ManagedFilesDestroy` | one unit, one trouble | `DestroyedIsForgotten` violated |
| `ResolveLinkEmpty` | the same link, no trouble | `DesiredApplied` violated |
| `MachineCreate` | one machine, no edit, no trouble | `MachineCreateSucceeds` violated |

**UnitApply.** `PutHonoured` and `DeleteHonoured`: success means that the host is as
asked, then and for as long as the resource is left alone. `RejectedRestored`: a
refused put leaves the unit as found. `StaleOnlyIfReported`: disk and manager differ
only during an operation or after a reported error. `VerifiedBeforeRun`: in error
mode no refused content is ever started by a unit resource. `StartsCurrent`: a start
never uses an older configuration. `KeepsContract`: the refinement of
`ApplyContract`.

**AtomicWrite.** `NeverTorn`: whole versions with their own permissions only.
`AnswerTrue`: success means replaced, and an error on a working connection means not
replaced. `NoLitter`: temp files go. `ReplacesAtOnce`: the refinement of
`AtomicFile`, in which only a server without posix-rename lets the file vanish.

**ManagedFiles.** `StateTrue`: between operations the file, the manager's copy, the
enablement and the service are as applied last, and nothing is there of what has no state,
unless an operation or a read failed, Terraform crashed, somebody else changed the file or
it was found there; a failed update or delete is excused as such, by name, until an operation
makes it good. `KeepsRunContract`: the refinement of `RunContract`, for every file.
`Converges`: after the last edit and the last trouble, runs reach a point from which plans
are empty and every resource is settled.

**ResolveLink.** `StateTrue`: what the state claims was sent and is still on the link,
unless an operation failed or somebody else changed it. `NoOrphanSettings`: settings
without a state come only from a failure or from others. `KeepsRunContract`: the refinement of
`RunContract`; stuck is the empty list that cannot be sent. `Converges`: after the last
edit and trouble the link is as configured; the lists even after a reboot, the modes
unless they were lost or half sent, which Read does not ask for.

**HostResources.** For each kind, `*True`: unless an operation failed, an error was
dropped or somebody else changed the host, the host is what the state says (the
image asked for and not the one before it, whole and alone; the file and what its
daemon runs with; the secret, at the path of its kind only), whatever was edited,
replaced and repaired on the way; a destroyed file or instance is gone. `*NoOrphans`: a
destroyed machine or portable service leaves something only for a named reason.
`KeepsRunContract`: the refinement of `RunContract`, whichever of the five is run.
`CredentialOneCopy` is stronger: failures and edits included, no
copy of a secret stays at a path the state does not name, but one of a create that
failed. `Converges`: after the last edit and trouble, plans are empty with the
resource as configured, or the runs are `Stuck` for one of four reasons of the code: a locked
image, settings left out, an image or archive of no known type, no template.

**Provider.** `FailedDialCloses`: a `Dial` that failed leaves nothing open but the
connection to the agent. `RefusedOnlyAtLimit`: a session is refused only when there are
as many operations as sshd allows channels, so no failure leaks one. `ReleaseTrue`:
the check of directives answers for a release that is pinned or that the host has had,
unless detection failed (a warning) or the read raced, which only refuses.
`ValidationAnswers`: validation and the operation agree on every body but blanks,
empty lists, values not known in time and directives set twice. By both, what is refused is
not written. `DirectivesSetOnce`: no
written file has a directive from a typed and a section block both, unless one was
unknown at validation. `Ends`: every operation ends unless the peer is silent or a
command hangs.

Bounds. Three operations are enough for each pair of kinds to overlap and for one
resource to be put twice; with one resource of each kind, every pair of kinds
interleaves call by call, and what two of a kind can do to each other (reload) is what
two of different kinds can. The proofs remove the bound. Three writers overlap in
every order over one path; the proofs again hold for any number. Two edits are what it
takes to apply, change and change back; two troubles, to fail an operation and then
disturb its repair; the run of `ManagedFiles` was also made with three troubles
(1 289 809 states), with the same result. The drop-in of `ManagedFiles` is not part of
its run: its calls are a subset of the unit's. Of the seven settings of a link, the two
lists and one mode are enough: the others are put like the mode, and three already give
a put a first, a middle and a last command to fail at; the five configurations set,
omit, change and empty each of them. The configurations of `HostResources` are chosen so
that from one to another there is an update, a replacement, one that keeps the image, one
without settings, and one that is refused. In `Provider` three operations and the SFTP
client need four channels, so limits of 3 and 4 give a refusal and none; releases 251
and 255 with a directive of each give a check that fails, one that passes, and an
upgrade that changes the answer; two directives are what it takes for a block that
conflicts with a typed one and a block before it that does not.

Fairness. Only `Converges` and `Ends` need it. For `ManagedFiles`, weak fairness of
`Run(f) \/ CallFails(f)` says that Terraform is run again and again and that calls
answer; the bound on troubles says that failures, crashes and interference end. No
call is assumed to succeed that may fail for a reason of its own (`Doomed`): contents
in this run are ones verification accepts, since a refused one fails for ever, as it
should. The code has no timeout, so a command that never answers is outside
`Converges`. For `ResolveLink` and `HostResources`, weak fairness of `Run` says the
same; failures, edits and other people's changes are owed nothing. For `Provider` weak
fairness of `Configure` and of each `Operate(r)`: the code has no reason to
stop at a call that is answered, Terraform schedules every operation, and hangs, resets and
upgrades are owed nothing.

### Findings

- `UnitApplyRead`: `PutUnitVerified` takes a failed read for "no such unit"; a refused
  put then removes the unit that was there (`client.go:91`).
- `UnitApplyReload`: the rollback does not reload, so when another resource reloaded
  in between, the manager keeps the refused content (`client.go:106`).
- `AtomicWriteFallback`: without posix-rename the file is removed first
  (`ssh.go:260`), which the documents call atomic.
- `ManagedFilesDestroy`: a destroy whose reload failed is completed by a refresh, and
  the reload never happens (`client.go:205`, `resource_unit_like.go:220`).
- `ResolveLinkEmpty`: an empty `dns` or `domains` becomes a command without arguments,
  which shows the list and changes nothing; the put succeeds, and every later run plans
  the same change (`ssh.go:754`).

- `MachineCreate`: a machine created without `content` and `section`, both documented as
  optional, leaves `content` unknown; Terraform marks the machine as tainted and
  replaces it in every run (`resource_machine.go:224`).

`Settled` of `ManagedFiles` states three more limits of the code without calling them
bugs: drift of a
file given as sections is not seen; a configuration edited back after a failed update
leaves the half-made change; a raw content written by a put whose reload failed is
found by the next refresh and never reloaded. `StateTrue` and the `Settled` of
`ResolveLink` leave out what the code leaves: an attribute removed from the
configuration keeps its old value on the link.

The properties of `HostResources` and `Provider` name these without calling them bugs: a
running machine cannot be updated (`Blocked`); a plain credential written by a create
that failed stays when the configuration is then edited to `encrypted` ("unrecorded");
resolved that could not be restarted stays down, and for raw content the next refresh finds
the new file and plans nothing ("failed"); validation refuses a resource whose content is
not known yet; an empty typed list counts for the check of the release and for
validation, and is nothing in the file.

## 4. What is proved

`UnitApply_proofs` (for any sets of units, drop-ins, instances and contents, and any number
of operations): `TypeCorrect`, `PutsAreHonoured`, `DeletesAreHonoured`,
`RejectionsAreRestored`, `StaleIsReported`, `OnlyVerifiedRuns`, `StartsAreCurrent`,
`ImplementsContract`: all that the run checks; and `OperationsDescend`. Assumptions:
`KindsAssumption`, `ContentsAssumption`, `ConfigsAssumption`, `MaxOpsAssumption`.

The properties speak of finished operations and are not inductive. The invariant is `TypeOK`
and, for each resource, `Local(r)`: what its operation has established before each call
(`StepsOf` which calls, `FileOf` the file and the manager's copy, `ServiceOf` the service,
`RollbackOf` what a rollback restores, `VerifiedOf` what was verified). Because `Local(r)`
speaks of one resource, the proof has two halves: another resource's step can only make the
manager read r's file (`Others`), which leaves `Local(r)` true (`Stable`); and each call of
r itself keeps it (`Own`). The refinement follows because success implies `HostHonours`
(`SuccessIsHonoured`) and each step is one contract step for every resource at once
(`ContractStep`). `OperationsDescend` is the part of termination the prover reaches: a
measure of the calls left, six at the most, goes down with each call an operation makes,
failed or not, and no other resource's step raises it. That the next call is made at all is
fairness, and stays with TLC.

`AtomicWrite_proofs` (any number of writers, any server): `TypeCorrect`,
`WholeAndProtected`, `AnswersAreTrue`, `TempsAreRemoved`, `ImplementsAtomicFile`,
`KeptWhereRenamed`, `WritesDescend`. Assumptions: `ModesAssumption`, `NobodyAssumption`. The
invariant adds `Progress(w)`: while the connection is up, the next request tells what the
temp file holds and whether the file was replaced; afterwards no request has an effect.
`KeptWhereRenamed` bounds the finding of `AtomicWriteFallback`: a server with posix-rename
never lets the file go missing. `WritesDescend` is the measure of a write: nine requests at
the most.

`ManagedFiles_proofs` (any number of units and drop-ins, any verify mode): `ManagedTypes`,
`FilesAreTrue`, `FilesKeepRunContract`, `FilesAreIdempotent`. Assumptions: those of
`UnitApply`, `WantedAssumption`, `BoundsAssumption`, `NoneAssumption`. `StateTrue` speaks of
a file between two runs; the invariant `Owned(f)` adds that the operation under way is the
one the configuration calls for, and what it has established so far. The calls are steps of
`UnitApply`, so what its proofs show of `Progress(f)` (a call of f keeps it, another's
disturbs nothing) carries over; `Local(f)` would not, because its `RollbackOf` and
`VerifiedOf` speak of how the operation found the unit, which somebody else may change
meanwhile. A file changed by somebody else during an operation loses `Progress` and has the
excuse "drift" for it; the next operation establishes all it needs anew. The refinement is
proved for all files in each step: the file the step is about makes a step of its contract;
the others stutter, unless they are worked on or excused, when another's `daemon-reload` may
change what the manager holds of them.

`ResolveLink_proofs` (any sequence of settings, any values): `TypeCorrect`, `StateIsTrue`,
`NoSettingsAreOrphans`, `LinkKeepsRunContract`, `LinkIsIdempotent`. Assumptions:
`OrderAssumption`, `ValuesAssumption`, `WantedAssumption`, `BoundsAssumption`. The invariant
adds that the settings before the place a put has come to are on the link, that a revert has
cleared all of them, and that Read's copy holds no value that is not there. The contract
also needs that without an excuse the copy differs from the state only by what the link
answered for a list (`Copied`), so that reading what is applied finds the state
(`AppliedIsReadBack`).

`HostResources_proofs` and `Images_proofs` (any configurations, images, contents, secrets,
any number of edits and troubles): a theorem for each of the eight safety properties of
`HostResources` that speak of one kind, and `TypesAreCorrect`. Assumptions:
`BoundsAssumption`, `ImagesAssumption`, `ValuesAssumption`, `ConfigsAssumption`,
`NoneAssumption`. The properties speak of a resource at rest; the invariants say what an
operation has established before each of its calls, unless it is excused: for a machine,
that from `settings` on the image is the new one; for a portable service, that before
`attach` what it will attach is whole and alone; for a credential that changes path, that
the old copy is gone before the write. One lemma per kind covers its steps, and
`TypesAreCorrect` combines the kinds.

`RunContract_proofs` (the same, under the same assumptions): `ResourcesKeepRunContract`,
`ResourcesAreIdempotent`. The first lemmas say what makes a step one of the contract
(`WorkStep`, `EndStep`, `LookStep`, ...); one lemma per kind then sorts its steps among
them. The invariants supply what is not in a step: that a refresh without an excuse finds
what the state says, and that an operation which is recorded without an excuse has done all
it was asked for. `wanted` is a variable of the contract because without it an edit that
changes nothing could stand for a refresh that unsettles the resource, and the contract
would promise less than it says. The three idempotence theorems are what the user sees of
the contract: a resource that is as configured is left alone by every further run, until
somebody edits or interferes or a read fails.

`Provider_proofs` (any number of operations, any limit, releases and directives, any number
of blocks): `TypeCorrect`, `FailedDialsClose`, `RefusedAtLimit`, `ReleasesAnswered`,
`SetOnce`, `ValidationIsAnswered`, `OperationsDescend`. Assumptions: `ReleasesAssumption`,
`LimitsAssumption`, `NilAssumption`, `ResourcesAssumption`, `InputsAssumption`,
`SinceAssumption`. The invariant has two parts: for the connection, what `Dial` may have
open at each stage and that only a running command holds a channel, so that a refusal counts
the operations (`ChannelsBounded`); for each operation, `Progress(r)`, which another
operation cannot disturb because releases are only added to the history (`Alone`,
`ProgressStable`). `ValidationDiffers` and `RenderedOnce` are the facts about `Content`, for
every body. `OperationsDescend`: an operation moves by its own steps alone and only towards
its end; no refused session, lost connection or race sends it back.

Only model-checked: the liveness properties (`Converges` of three modules, `Ends`), which
the prover does not reach, and the violations, which are counterexamples of TLC. The
contracts and the measures are as near as the proofs come: an operation begins only when
there is something to apply, has finitely many calls, and ends applied, stuck or excused.
That excuses end when troubles do, and that a run comes at all, is what `Converges` adds.

## 5. Not modelled, and what is left

- The catalogue of directives, `catalog_gen.go`, is a generated table of 24 820 of the
  repository's 32 925 lines of implementation, and `cmd/genprops` and `nspawn.go` write it or
  run tests: neither has behaviour of the provider at run time. Of the hand-written
  8 100 lines the models are translated from the ones that decide or change something.
- Data sources read and change nothing; the test hosts (`fake.go`, `nspawn.go`) are
  the repository's own stand-ins for the host, which the models have from how
  `ssh.go` uses the real one; scripts and documents.
- Pure functions over text: paths and names (`safeName`, `unitPath`, `credPath`),
  quoting, parsing of command output and of unit files, the validators of single
  values, the catalogue's look-ups. They are tables and regular expressions over single
  values, which the repository tests with examples; nothing in them depends on order or failure. One observation
  made while reading: the expression for weights in `props.go` ("between 10 and
  1000") does not accept 11 to 99.
- `ImportState` of a machine and of a portable service, which only store names for the
  Read that follows (hence "partly"). That Read decodes a state whose `image` block is
  null into a struct, `machineImageModel`; whether this is refused is up to the plugin
  framework, which is not part of the repository, and no test imports either.
- Removal of a network link under `systemd_resolve_link`; two resources that name the same
  host object, which Terraform does not prevent and `AtomicWrite` covers for files.

The plan's remaining steps, in order: a specification of an image store that
`Machine` and `Portable` refine; `Provider` composed with the calls of `UnitApply`
instead of its one `reload`; imports of machine and portable; the round trip of
rendering and parsing a unit file, as operators against a reference definition.
