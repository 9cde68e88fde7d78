# A verification of ProxyNodeAssistant in TLA+

ProxyNodeAssistant is a program on the operator's computer (Go, `src/*.go`) that
builds and maintains a proxy node over SSH.  What must happen on the node is
done by shell scripts it uploads there (`src/runbook/.../linux/*.sh`).  Nearly
every change therefore is a protocol of two parties, with a connection between
them that may break at any point, a remote process that outlives its caller, a
node that may reboot in the middle, and files on either side that are written
one after the other.  This directory holds models of these protocols, the
instances on which TLC checks them, and proofs about every one of them.

Scripts are named by their number: `28a` is `linux/28a-install-transaction.sh`,
`28` is `28-topology-reconcile.sh`, `27` is `27-ip-rebind.sh`, `23` is
`23-ss2022-tcp.sh`, `22` is `22-dismantle-managed-node.sh`.

## 1. Inventory

| component | state it keeps | operations | hard behaviour | what makes it correct |
|---|---|---|---|---|
| install transaction, remote (`28a`) | `current.env` (status, identifier), `snapshot/`, `history/`, the flock | `begin`, `rollback`, `commit`, `status` | death between any two file effects; several invocations waiting for the lock; failing copies | the snapshot is complete and exact as long as a rollback may need it; a successful rollback is exact; each transaction ends once |
| menu [1] session, local (`install_transaction.go`, `operations.go`) | phase, transaction identifier, deferred rollback | recover, baseline, begin, wizard, commit, roll back | lost answers, retries, 30 s and 15 min limits, kills; a second copy of the program | what it tells the operator is true; every interrupted construction can be brought to an end |
| captured commands (`process.go`) | none | run, one retry after a transport failure | the first process still runs; the output of two attempts is concatenated | no request does harm when it runs twice |
| route transaction, remote (`28`) | the directory `cdn-route-transaction` (snapshot, META), `topology.env` | `--apply-input`, `--finalize`, `--to-gray`, `--rollback-pending` | no lock; no trap while the snapshot is taken; errexit in every step; multi-step rollback | rollback exact including the origin lock; no mixture of routes without a pending transaction |
| origin lock (`05f`), edge validation (`05g`), deployment state | CIDR lists, `applied` flag, ufw rules; edge state; route mode | fetch, apply, remove; validate, confirm; commit route | rules change one at a time; a confirmation belongs to one validation | rules, flag and state agree with the route |
| route session, local (`cdn_reset.go`) | phase, the answers so far | stage, validate, confirm, finalize, roll back; to gray | a lost answer to finalize; a kept first answer | never claims a route or a restore that did not happen |
| SSH keys (`remote.go`, `operations.go`, `main.go`) | temporary and managed keys on both sides, backups, control masters, the panel forward | login, promote, rotate, unbind, archive, restore, clean up, shut down | a contact fails after its effect; a crash between four renames; the signal handler cleans up while the action goes on | no key is authorized that nobody can revoke; a bound key is never destroyed; success leaves a pair that logs in |
| IP rebind (`ip_rebind.go`, `27`) | rebind state, identity, runtime record, managed files; staged key directory | preflight, park, commit, abort; verify, rename, archive | death after COMMITTING, lost or late commits, the provider moves the node again, the program dies between marking and renaming | a complete rebind left no old address; the local endpoint follows the node |
| credentials (`01a`, `03c`, `03d`, `lib-handoff.sh`, the wizard, menus [5], [6], [7]) | what is in force; handoff, archive, protected store, old store | rotate, install, retain, export, show | cuts between the halves of a pair and between five stores; rollback by another mechanism | the form states logins that work |
| desktop system proxy (`local_proxy_system.go`) | settings of the services, snapshot, environment | configure, probe, remove | an administrator script that outlives the program; other programs; stale snapshot | what the user had can be restored, and is before the snapshot goes |
| SS2022 service (`23`, `local_network.go`) | configuration, metadata, allowlist, packet filter chain, service | ensure, allow, remove, status, uninstall; the menus | helpers that outlive their script or are started by systemd; crashes; rollback of menu [1] | a removed source stays out; the list shown is the one enforced |
| life of the node (`22`, `remote.go`, `parsers.go`, `00-bootstrap-toolkit.sh`) | toolkit and links, baseline ledger, packages, managed paths | upload, repair, capture, construct, uninstall, dismantle | cut uploads, cut captures, cut removals in any order | an exact baseline speaks of the node before it was managed; an exact dismantling returns to it |
| login history (`recent_targets.go`) | two files | remember, delete, clear | two files merged at each read, replaced in two steps | a deleted entry stays away |
| traffic profiles (`traffic.go`) | a JSON file, secrets in the credential store | configure, refresh, delete | torn file, failing credential store, kills | no secret that the menu cannot delete |
| Android client (`WorkflowRunner.kt`) | as the sessions | as the sessions | cancelling closes the connection that the rollbacks need | as the sessions |
| migration (`00-migrate`, `00c`), install plan and flow, receipts, other scripts, front ends | – | – | sequential, or steps of the above | – |

How they interact: a session calls the remote scripts through captured SSH
commands and sees only their output and exit status; the wizard and the route
scripts write the files that the install transaction protects; the route
session runs inside menu [1], after the wizard and before the handoff and the
commit (`operations.go:366`); the snapshot of the install transaction includes
the directory of the route transaction, the credential store and the files of
the SS2022 service; the remote scripts share no lock.

The Android client is a second implementation of the sessions, in Kotlin,
against the same scripts.  A phone and a desktop are two clients of one node
that know nothing of each other.

`PROJECT.json` lists all components with what is modelled of each, and the
hazards at their lines.

## 2. Modules

| module | models |
|---|---|
| `AtomicConstruction` | the abstract promise: transactions open one at a time and end once, committed or undone |
| `InstallHelper` | `28a`: processes that wait for the flock and perform one file effect per step |
| `InstallSession` | EXTENDS `InstallHelper`: one or several local programs running menu [1], with retries, time limits, kills and a wizard that may linger |
| `RouteHelper` | `28`, with what `05f` and `05g` do to the node, for several processes at once |
| `RouteSession` | EXTENDS `RouteHelper`: `reconcileCDNRoute` |
| `Construction` | EXTENDS `RouteSession`: a run of menu [1], the route transaction inside the install transaction |
| `Lifecycle` | toolkit, baseline, construction, uninstallation and dismantling |
| `Ss2022` | the SS2022 script, its helper, systemd and the menus |
| `SshKeys` | one-time and managed keys, control masters, panel tunnel, shutdown |
| `IpRebind` | the session of `ip_rebind.go` and the script `27` |
| `Credentials` | passwords and panel accounts and the five places that keep them |
| `SystemProxy` | the system proxy of the desktop |
| `RecentTargets` | the login history |
| `TrafficProfiles` | the traffic profiles and their secrets |
| `SshKeysProofs`, `IpRebindProofs`, `CredentialsProofs`, `ConstructionProofs` | theorems about the module of that name |
| `InstallSessionProofs`, `RouteSessionProofs` | theorems about `InstallSession` with the `InstallHelper` in it, and about `RouteSession` with the `RouteHelper` in it |
| `NodeProofs` | theorems about `Lifecycle` and `Ss2022`, and about `MCNode` |
| `MenusProofs` | theorems about `SystemProxy`, `RecentTargets` and `TrafficProfiles`, and about `MCMenus` |
| `MCInstallSession`, `MCRouteSession`, `MCConstruction` | small instances |
| `MCNode` | small instance of `InstallHelper`, `Lifecycle` and `Ss2022` |
| `MCMenus` | small instance of `SshKeys`, `IpRebind`, `Credentials`, `SystemProxy`, `RecentTargets`, `TrafficProfiles` |

`MCNode` and `MCMenus` are sums, not products: the parts they gather share
neither state nor a step, so each behaviour is one of a single part (`part`)
while the others rest in one of their initial states.  Nothing is lost by it,
since no property of these runs relates two parts; and nothing is added, since
such a behaviour is one of every part (`NodeRunsParts`, `MenusRunParts`).

### Install transaction

`procs` holds the invocations of `28a`: a slot is `free`, waits at `lock`,
stands inside the critical section, or has `exited` with its output.
`GetsLock` is `flock -x 9`.  Each action is one effect that a crash can
separate from the next: `WriteMeta` is the rename of the first `current.env`,
`SnapMark` and `SnapCopy` are the presence marker and the `cp -a` of one path
(marker first, so an interrupted copy leaves marker and torn copy),
`Activate` is `write_status ACTIVE`; `RollbackStarts`, `StopServices`,
`ErasePath`, `RestorePath`, `RestoreServices`, `RollbackVerdict` follow
`rollback_transaction`; `CommitDecides`, `Discard`, `DropCurrent` follow
`commit_transaction` and the tail both share.  `Dies` may hit any process at
any of these points, also while it waits.  `NodeWrite` is everybody else who
changes the protected files; in `InstallSession` only a running wizard does.

History variables record what the properties compare with: `pre` is the node
when the transaction was opened, `overlap` says whether somebody wrote to the
node while the script expected it to stand still, `ended` is the last status
of every finished transaction.  `disturbed` of `InstallSession` are the sessions
whose transaction was changed, between their check of the identifier and the
answer to their commit, by a process they did not wait for (finding 3 shows
how).  No guard reads any of them.

A session (`cl[c]`) moves through recovery, baseline, `begin`, the wizard,
`commit` and the deferred rollback; it waits for one process (`slot`).  `Retry`
starts the command a second time while the first process lives; `GivesUp` is a
time limit or a broken connection, after which the process still lives;
`Killed` ends the local program.  `wiz` is the set of transactions whose
wizard is still running on the node.

### Route transaction

`RouteHelper` has the same shape without a lock: `procs` may interleave freely,
because nothing in `28` keeps two invocations apart.  The protected files are
six `Paths`; the file effects of a change are one action each.
`TrapFires` is a failing step under the ERR trap of apply and to-gray,
`SnapFails` one before that trap is set, `FinalizeFails` one in finalize, which
has none; `UndoFails` is a failing step of the rollback itself, which goes on
and ends incomplete; `Dies` is a kill or a reboot, which may also leave half of
the ufw rules or half of the removed transaction directory.

`pre` is the node when the transaction directory was made.  `taint` records
that two processes ran at once (`overlap`) or that a snapshot was only partly
taken or partly removed (`partial`).  The guarantees hold for `taint = {}`;
finding 4 shows what happens without that.  `Spawn` starts a fresh history when
a change begins alone on a node that is whole.

`RestoredTrue` also leaves out a session whose answer is `proof`, the rollback
marker that `process.go:185` kept from a first attempt.  There the property
does not hold: the stderr of a first attempt whose connection was reset stays in
front of the output of the second, and a rollback marker in it is taken for the
second's, although the change of the second is pending or made.  A reset
connection that still delivers the marker is a rare thing, and no comment of
the code denies it, so it is stated here and not as a finding.

### Composition of the two transactions

`Construction` puts the route session where menu [1] has it.  The install
transaction is one step per operation here, as `AtomicConstruction` allows:
`inst` is empty or the image it would restore, which holds the files, the rule
files of ufw and the route transaction with its snapshot.  `live` are the rules
in force; `ufw` commands change them with the files, restoring `/etc/ufw`
changes the files only.  Whether the wizard's `ufw --force enable` on an enabled
firewall loads the files again is left open.  `Recover` is the recovery of the
next run, accepted by the operator; the states in which it refuses (finding 1)
are those of `InstallSession`.

### Life of the node

`Lifecycle` follows one operator whose programs may be of different builds.
`toolkit`, `link` and `uploaded` are the install directory, the links that
lead to it and the archive in `/tmp`; `UploadArchive`, `ClearToolkit`,
`ExtractToolkit`, `Bootstrap` are the upload, in which a
cut may leave nothing, files without metadata, or a directory that looks whole
or not.  `Missing`, `Older`, `SameVersion`,
`RepairAllowed` and `OlderBuild` are the classification of
`parsers.go`, and `Accepts` what menu [1] makes of it.  `CaptureFiles` and
`WriteLedger` are the two halves of the baseline capture, `BeginsConstruction`
to `ConstructionUndone` the construction with its transaction in one step per
operation, `RescueDownloaded` to `RemoveBaseline` the dismantling in the order
of `22`.  `Breaks` cuts any of it between two steps.

### SS2022

`chain` is what the packet filter accepts, `NoChain` when no rule leads there.
`helpers` holds the two invocations of the helper that may exist, one for the
script, one for systemd: `HelperStarts` reads the list under the helper's lock,
`HelperSwaps` takes the chain in force away and `HelperInserts` puts the new one
in its place.  `operation` is the script that holds the script's lock, with one
action for each write.  `ScriptCut` ends it anywhere while its helper goes on.
`manager` is the local program in its menus, `SomebodyElse` a second one, whose
only trace is that of the script.

Menu [1] surrounds the set-up with the install transaction, which takes no lock
of this script.  `StartConstruction2022` takes the snapshot (`kept`) whatever
runs; the installer comes to this service some time later (`SetsUp2022`), or
when nobody waits for it any more (`WizardLeftBehind`).  The rollback,
`RollBackStops2022` and then `RollBackRestores2022`, runs beside the script, its
helpers and systemd; `RollBackCut2022` or a failing path leaves the transaction
for the next attempt, which starts from the beginning.  Two histories mark what
that does to the script: `overtaken`, a field of `operation`, is set when files
come back under a removal or an output of the list; `unsettled` when a removal
begins, when a set-up or removal runs beside the snapshot or the restoration,
and when an installer is left behind.  A whole set-up outside a transaction, a
commit with both files and no script at work, and a removal outside a
transaction that ran to its end settle the state again.

### SSH keys

Each contact with the VPS is an action with three outcomes: it worked, it
failed, or it worked and was reported as failed.  `ChildAppends` is separate
from `InstallAnswered`, because the ssh child outlives a lost answer.
`CleanStart`, `Revoked`, `Removed` and `CleanReturns` are the clean-up of a
temporary key, under its mutex, whether the action, a menu or the signal
handler runs it; `ShutdownStarts` to `ProgramEnds` are that handler, which runs
beside the action.  Rotation is four renames (`RotatePrivateAway` to
`RotatePublicIn`).  The handler of unbinding calls `releaseHeld` before it
returns; that call is the first clean-up of the following `EndsAction`.

### IP rebind

`running` is the command that holds the script's lock, `waiting` are those
behind it; a request whose caller has given up stays there with `mine` false.
The records are written by one action each, and `Stops` ends the script between
any two, also after a refused check.  `at` and `dns` are where the provider and
the operator have put node and record; a contact succeeds when the node, known
by its host key, is at the address.

### Credentials

A pair is the number of the change that made it, so a form tells which change
each half is from.  A script is the sequence of the steps that are still to do;
`ScriptFails` and `ProgramKilledHere` end it between any two.  `Exported` is
the client's rule (the last usable value of the concatenated files) and
`NewestWhole` the node's (the first complete candidate); the two differ, and
`FormLogsIn` is about the result.

### The local files

`SystemProxy` has the administrator script as a process of its own
(`ScriptBegins`, `ScriptFinishes` for each service, `ScriptStops`,
`ScriptAbandoned` by a program that stops waiting).  `RecentTargets` and
`TrafficProfiles` have one action for each file or credential operation, and a
kill between any two.

## 3. Runs

| run | shows |
|---|---|
| `node_scripts` | install transaction: for any use of the script by two overlapping processes and any writes to the node, the snapshot is complete and equal to the node at `begin` while a rollback is possible (`SnapshotHoldsPreImage`), and a rollback that reports success has restored exactly that (`RolledBackIsPreImage`). Life of the node: an exact ledger is the original (`BaselineIsOriginal`), an exact dismantling returns to it (`DismantledIsOriginal`), the program that wrote the toolkit last is never locked out (`RepairAlwaysOpen`). SS2022: a removed source stays out (`RemovedStaysOut`), the list shown is in force (`ShownIsEnforced`), and half a configuration remains only where a rollback or a removal is still to come (`PartialIsRecoverable`); each of the three with the exceptions named below |
| `menus` | SSH keys: `KeyKeptUntilRevoked`, `BoundKeysKept`, `CleanupSparesBound`, `RetryHandleKept`, `ManagedLoginWorks`, `PanelBeforeRevocation`. IP rebind: a complete rebind is whole (`CompleteIsWhole`) and has a key to start the next one from (`CompleteHasKey`), only an untouched node can be aborted (`AbortableIsUntouched`), the local endpoint follows the node (`EndpointFollowsNode`). Credentials: `FormLogsIn`. Desktop proxy: `OriginalsRecoverable`, `SnapshotRestorable`, `SnapshotSpentOnRestore`. Local files: `DeletedStaysAway`, `SecretsListed` |
| `install_session` | with time limits, one retry per command, kills and crashes: "committed atomically" is said only of a transaction that is committed, unless a process that the session did not wait for changed it meanwhile, and whose wizard has stopped (`UndisturbedCommitTrue`); the script implements `AtomicConstruction`; every undecided transaction is decided once misfortunes stop |
| `route_session` | no failure or crash leaves a mixture of routes with nothing pending; a reported rollback restored every file and the origin lock, also after earlier rollbacks that failed or died; the two positive messages of the session are true |
| `construction` | a construction that ends leaves a whole route and no pending route transaction, whichever transaction rolled back what, and also when the route's own rollback restored from an incomplete snapshot: the outer one makes up for it; a route transaction that a killed run left pending, which makes `--to-gray` and `--apply-input` refuse, does not stay |
| `install_recovery_supported` (violation) | finding 1 |
| `install_rolled_back_message` (violation) | finding 2 |
| `install_two_programs` (violation) | finding 3 |
| `route_marker_evidence` (violation) | finding 4 |
| `construction_firewall` (violation) | finding 5 |
| `handoff_opening` (violation) | finding 6 |
| `dismantle` (violation) | finding 7 |

### Bounds

- `Slots` = 2 processes alive at once.  The flock makes processes inside it
  exclusive, so a third could only wait; in the route script two are enough for
  every pair of steps to interleave.
- `NumPaths` = 2 paths in `node_scripts` (one restored, one still to come),
  1 in the session runs, where the snapshot is not the question, and 0 in
  `install_two_programs`.  The proofs cover every number.
- `MaxTx` = 1 in `node_scripts`, 2 in the session runs: an earlier transaction
  that was decided and a later one that can be mistaken for it.
- `MaxFaults`: 2 misfortunes in the install sessions (a lost answer and a crash
  of the recovery, for instance), 3 in the route runs (a failed step, a failed
  rollback and a crash of the second rollback).  Declining the recovery counts
  as one.
- `Leftovers`: an interrupted `rm -rf` of the transaction directory leaves all
  entries, none, or all but one; every single missing entry is covered.
- `HistoryBound` (constraint of the route runs): once `taint` is not empty the
  exploration stops after the session and allows one fault.  The properties of
  the passing run promise nothing about such a history; the violation needs no
  more.
- `construction`: 2 misfortunes, so that a failed or killed route change meets a
  failed rollback or a killed run; `construction_firewall` needs none.
  `Undisturbed` (constraint of `construction`) stops where two processes of the
  script, or the script and a restore, overlap: both properties are about the
  rest, and a behaviour that overlaps satisfies `RouteDecided` by its statement.
  Beyond it `WholeBetweenConstructions` would not hold as it stands: a route
  change that starts alone on a whole node has a fresh history, but the install
  transaction around it may hold an image of the overlap before.  The hypothesis
  `[]NoOverlap` of the theorem says the same.
- `Lifecycle`: two builds, an older and a newer program; three managed paths,
  one that dismantling erases, one that it cleans, and the one with the
  transaction; one owned package.  Nothing bounds the number of visits.
- `Ss2022`: one source.  Every conflict is about one source that is added and
  removed; two sources were explored over 20 million states without a
  violation and are no run because of the time it takes.  The two list
  properties are proved for every set.
- `SshKeys`: `MaxKeys` = 2, the managed key and a temporary one, or a key and
  its successor.
- `IpRebind`: three addresses, three moves of the provider or of the DNS record,
  two sessions: the node may move on, or back, while a rebind is under way, and
  a command of the first session may run during the second.
- `Credentials`: three pairs and two archived handoffs: what the node had, and
  two changes, the second of which finds the first in every store.
- `SystemProxy`: two services, two values, one of them with authentication, and
  two changes by others.
- `RecentTargets`: three targets, of which the list holds two, so that the cap
  matters; two uses; one program and a removable old file, see below.
- `TrafficProfiles`: two providers and one host.

Four properties are true within these bounds and need words beyond them.  The
conditions under which they hold without bounds are hypotheses of theorems.

`AbortableIsUntouched` (its clause about managed files), `EndpointFollowsNode`
and `CompleteHasKey` hold for two sessions, but not for any number.

- A session from a1 to a3 that gives up leaves a retried preflight and a commit
  at `flock -x`.  A second session goes from a1 to a2, a third back to a1; then
  the two commands run, after the node was moved to a3, and the identity is a3,
  without a key directory on this computer that carries the name.
- With four sessions, four addresses and programs that are killed between
  marking and renaming the `.rebind-` directory, which then stays listed as a
  managed key, a commit back to an earlier address that blocks after the identity
  is written leaves files of another address, and a later preflight started from
  the left directory records `PRE_DNS`: preflight compares identity, runtime
  record and provider, and does not look into the managed files.

If no session starts while a command of an earlier one is on the node
(`NoneLate`), the last two hold for every number of sessions, addresses and
moves; if besides each session starts from a managed key and not from such a
directory (`FromManaged`), the first does (`EndpointFollows`, `CompleteKeepsKey`,
`AbortableUntouched`).  `CompleteIsWhole` needs neither condition.

The three properties of `Ss2022` hold but for what its two histories name, and
not without them.

- `RemovedStaysOut`: a removal by another program has verified the packet filter
  (`23:636`) when the rollback brings the list of the snapshot back and starts
  the service; the removal is then reported (`23:644`), and systemd's helper
  admits the source again.  A rollback that follows the report does so too, by
  design: it restores the node of the snapshot, and the source with it.
- `ShownIsEnforced`: the same between the health check (`23:707`) and the output
  of the list, which is then that of the snapshot while the filter still
  enforces the other.
- `PartialIsRecoverable`: an installer that the program has given up goes on
  after the rollback, generates `server.json` (`23:530`) and is cut before
  `service.env` (`23:537`).  A set-up that runs while the rollback restores, or
  while the snapshot is taken, can end the same way.

`CleanupSparesBound` and `PanelBeforeRevocation` are about the time before a
shutdown begins: the handler of a signal runs beside the action that it
interrupts, and may revoke what that action has just bound, or a login whose
forward it has not seen.  `RetryHandleKept` holds through it.
`SnapshotRestorable` and `SnapshotSpentOnRestore` do not say that the settings
restored are the latest: those that a user made between a failed configuration
and the next are overwritten by the older ones.  `SecretsListed` is about a list
that can be read.

`DeletedStaysAway` holds for one program that can remove the file of the older
version.  A second program that saves the list it had loaded brings a deleted
entry back, and so does an old file that cannot be removed
(`recent_targets.go:163` reports that only after the new file is in place).
`Programs` and `LegacyRemovable` are constants so that either can be tried; for
one program and a removable file the property is proved (`DeletionHolds`).

### Fairness

`install_session` and `construction` state liveness.  `SFairness` assumes weak
fairness of each session, each process of the script and the end of an orphaned
wizard: commands are subject to the limits of `process.go`, the script contains
no waiting besides `flock`, the wizard is bounded by the 15 minute limit or by
SIGHUP.  It also assumes that the operator goes on using menu [1], as the
recovery only runs there, and that misfortunes stop (`MaxFaults`).  No fairness
is assumed of any fault.  The flock needs no strong fairness here: with every
session waiting for its own answer nobody asks for the lock for ever.
`CFairness` assumes the same of a run of menu [1] and of the route script, and
that the operator accepts the recovery that the next run offers.

The other modules promise nothing eventually: their recovery is a menu that an
operator may or may not choose.  `CHECK_DEADLOCK FALSE` in the configurations of
`MCMenus` is due to the bounds on pairs, moves and changes, at which a part may
stop.

### Findings

1. A crash after `write_status COMMITTED` (or `ROLLED_BACK`) and before
   `rm -f current.env` leaves a status that neither `28a` nor recovery accepts:
   menu [1] stays blocked.  `TransactionDecided` still holds, as the
   transaction *is* decided; nobody removes its record.
2. If the answer to a successful `commit` is lost, the deferred rollback finds
   nothing and the session says that the construction was rolled back.
3. Two local programs on one node (a desktop and a phone): the identifier is
   compared locally before the request, and the request does not carry it, so a
   commit can hit the other program's transaction.  With a single program a
   commit left behind by an interrupted or repeated request can do the same.
4. `--rollback-pending` on a snapshot that is not complete removes paths that
   were never saved and reports success.
5. The rollback of the install transaction restores `/etc/ufw` as files and
   runs no `ufw` command, so the rules in force stay as the route change left
   them: a node that was locked to Cloudflare is reported as rolled back with
   the lock in its files but not in force.
6. Opening the handoff of a new run ends the wizard on a node that keeps no
   panel password: the status of the last `&&` list of
   `handoff_restore_stored_login_credentials` becomes that of the function, and
   the wizard runs under errexit.
7. A completed dismantling fails its own verification, because the set of links
   it removes lacks the one that the bootstrap makes.

Each is a violation run with one property, which quotes the statement it
contradicts in `PROJECT.json`.

## 4. Proofs

Eight modules hold proofs.  Their only assumptions are those on the constants,
named in the module they belong to; two were added for the proofs: `Programs` of
`RecentTargets` is finite, and `MaxPairs` of `Credentials` is not 0.  Hardly any
property is inductive; each module has an invariant that says what the one who
moves may rely on.  Every invariant and every action property of the passing runs is
stated by a theorem; the exact list is under `theorems` in `PROJECT.json`.

**`InstallSessionProofs`**, for every number of paths, contents, slots,
transactions, local programs and misfortunes.  Of the script alone:

- `TypeCorrect`: `HSpec => []HTypeOK`;
- `SnapshotSafe`: `HSpec => []SnapshotHoldsPreImage`;
- `RollbackExact`: `HSpec => []RolledBackIsPreImage`;
- `Refinement`: `HSpec => AtomicConstructions`, with `fate` as the mapping.

`HInv` adds `Mutex` (the flock); `CurrentIsLatest` and `EndedIsPast`
(identifiers are fresh and a transaction is recorded as ended exactly when it
has been left); `StillNode` (the node does not move while the snapshot is taken,
unless `overlap` says so); and, per process, what it may rely on where it
stands: `Snapping` (the paths below `i` are saved), `Restoring` (the paths below
`i` are restored unless a failure or an overlap was recorded), `Concluding` (the
status is decided before the snapshot is dropped).  The argument of each step is
the same: the process that moves is alone inside the lock (`HolderAlone`), so
the facts about the others hold trivially (`OutsideRelies`, `AloneRelies`), and
only its own have to be established.  `FateStep` maps each step to `Open`,
`Commit`, `Undo` or a stutter.

Of the sessions:

- `SessionsTypeCorrect`: `SSpec => []STypeOK`;
- `CommitMessageTrue`: `SSpec => []UndisturbedCommitTrue`;
- `SessionsRunScript`: `SSpec => HSpec`, so the four theorems above hold of
  sessions, and `SessionsAtomic`: `SSpec => AtomicConstructions`.

`SessionInv` follows a transaction from its opening to its message.
`BeganOnce`: one process at most has an identifier to announce; `ClaimedOnce`:
what a session, a message or a wizard is about has been opened and is announced
by nobody else; `Awaits`: no two sessions wait for one process, and a commit
waits for a process that runs; `WizardOver`: from the end of the wizard nothing
of it is left.  `CommitsOwn` is the heart: between the check and the answer the
commit process decides the transaction that was checked, or none, unless
`disturbed` says that somebody else was there.

**`RouteSessionProofs`**, for every number of processes and misfortunes, and
without the constraint `HistoryBound` of the runs:

- `RouteTypeCorrect`: `SSpec => []STypeOK`;
- `RouteNeverMixed`: `SSpec => []NoMixedRoute`;
- `RollbackIsExact`: `SSpec => CleanRollbackExact`;
- `ReconciledSaysTrue`, `RestoredSaysTrue`: `SSpec => ReconciledTrue` and
  `SSpec => RestoredTrue`.

The invariant `RouteInv` claims nothing of a history with a taint.  Of any other
`Clean` says: at most one process runs (`Alone`), and if the session waits, it
waits for that one (`Attached`); a pending transaction holds the node as it was
(`Pending`); without one the route is whole (`Settled`); and the process that
runs may rely on what its position says (`Stands`, one part per phase of the
script).  `AnswerTrue` is what an answer asserts as long as nobody acts on it;
that is how a lost or repeated request does not mislead the session.
`Onward(s)` states a step from the process that takes it, so that each action of
the script is looked at once: types and the order of its own loop go on by
themselves, and what the snapshot is good for is kept as far as it was there.
`ScriptKeeps` carries it over to the other processes and the session.  `Waits`
ties the session to the kind of its request, with or without taint: it says which
request a retry repeats.

**`ConstructionProofs`**, for every number of processes and misfortunes:
`ConstructionTypeCorrect` (`CSpec => []CTypeOK`) and `WholeAfterConstruction`
(`CSpec /\ []NoOverlap => []WholeBetweenConstructions`).  `RouteInv` is of no use
here, as the property must survive a snapshot of the route that is incomplete.
`CInv` therefore speaks of the steps of a change and never of its snapshot.
`Standing` is what a process that changes the route may rely on, nothing is
said of one that undoes; `Positive` what `STAGED` and `RECONCILED` assert;
`Guided` that nobody runs beside the process the session waits for, which is
where `NoOverlap` is used; `Stages` ties the session to the run of menu [1].
`GoodImage` says that the install transaction holds a whole route with nothing
pending, so that its rollback leaves one whatever it meets, and `AtRest` names
the states from which it may be left out: a run before its change of route, one
with a positive answer, and no run at all, in which the node is whole already
(`Rested`).

**`NodeProofs`**.  `Lifecycle`, for every number of builds, paths and packages:
`LifecycleTypeCorrect` (`LTypeOK`), `ExactLedgerIsOriginal`
(`BaselineIsOriginal`), `ExactDismantleRestores` (`DismantledIsOriginal`),
`RepairIsOpen` (`RepairAlwaysOpen`).  `KnownOriginal` is the argument: a node
without ledger and without traces of management is the original, and a snapshot
holds the baseline that is on disk, so that a rollback cannot bring an older one
back.  `Standing` says how far capture and dismantling have come where the
script stands; `ToolkitKnown` bounds the build on disk by the program that wrote
it last.

`Ss2022`, for every set of sources: `SsTypeCorrect`, `RemovalHolds`
(`RemovedStaysOut`), `ShownListIsEnforced` (`ShownIsEnforced`),
`PartsRecoverable` (`PartialIsRecoverable`).  `Barred` says that a source
reported as removed is in no place from which it could come back: list, chain,
the copies that helpers hold, and the list a failed change would restore.  The
reported removal has waited for a helper of its own, which could start only when
no other was at work; of a removal that a rollback has overtaken it claims
nothing.  `ListedInForce` is the gap between the health check and the reading of
the list, in which helpers may only bring the same list into force, unless a
rollback changes the list.  `RecoverInv` accounts for a missing file.  Its parts
`WaitsForItsOwn` and `PlacesByKind` tie the program to the script it waits for
and its snapshot; `Settled` says that as long as the state is settled a set-up
writes the configuration first, and only under a snapshot or where the metadata
is there (`Phases`), a snapshot holds both files or none (`KeptWhole`), a
construction that succeeded has both (`OkHasBoth`), and a part is seen only
while a snapshot is held (`PartCovered`).

`NodeRunsParts` and `NodeTypeCorrect` carry this over to the run `node_scripts`:
`MCSpec` implies the specification of each part.

**`IpRebindProofs`**, for every number of addresses, sessions and moves:
`RebindTypeCorrect`, `CompleteRebindIsWhole` (`CompleteIsWhole`).  `Holding` is
what a commit may rely on at each step, because no other command writes while
it holds the lock; `PhaseKnown` ties the recorded phase to the records.
`SameHolder` disposes of all steps of session, provider and DNS: at most they
take the caller away from the command that runs.

Under the conditions of section 3: `EndpointFollows`
(`RebindSpec /\ []NoneLate => EndpointFollowsNode`), `CompleteKeepsKey`
(`CompleteHasKey`) and `AbortableUntouched` (`AbortableIsUntouched`).  `OwnInv`
says that all commands on the node are those of one session and lead where it
wants to go (`CommandInv`), and what the records then tell it (`RecordInv`);
`CleanInv` that such a command leads from an address whose key is listed to one
whose key is not yet, and that the managed files name no address but the
identity's and the two of the commit that writes.

**`SshKeysProofs`**, for every number of keys: `KeysTypeCorrect`,
`InstalledKeyKept` (`KeyKeptUntilRevoked`), `BoundKeyNeverLost`
(`BoundKeysKept`), `BoundKeySpared` (`CleanupSparesBound`), `RetryHandleNotLost`
(`RetryHandleKept`), `ManagedLoginNotBroken` (`ManagedLoginWorks`),
`PanelClosedFirst` (`PanelBeforeRevocation`).
`HandlesAreTemporary` separates the keys that the program may still clean up
from those it keeps: they are in no backup, and in the managed directory only
while they are promoted.  `RemovedIsRevoked` says that the local half goes after
the line on the VPS, and holds on because a child process that appends a line
works for a key nobody has reported (`ChildIsNew`).  `NewKey`, `RestoredKey` and
`RotatedKey` say where the keys are at each step of a login, a promotion, a
restoration and a rotation; a shutdown may take only the temporary half away.
`HandleNotDropped`: the pointer to a temporary key gives way only to a later
login's or to a key that has been cleaned up.  `PanelHeld` and `ActionAlive`:
while the panel is open the action that opened it has ended or holds it, and the
connection of an action at work has not been cleaned up.  `NewLogin`,
`RestoredLogin` and `PairLogsIn`: what a rotation or a restoration revokes is
another key than the one it leaves behind.

**`CredentialsProofs`**, for every bound on pairs and archive:
`CredentialsTypeCorrect` (`NTypeOK`) and `FormTrue` (`FormLogsIn`).  A script is
the sequence of the steps that are still to do, so the invariant is about that
sequence: `FormReady(k)` says that in a script that goes to its end each half of
the pair in force is either written by a step to come and spoilt by none after
it (`Will`), or written already and spoilt by none (`Safe`).  On a fresh node
`FormReady` fails, and `NeverProves` takes its place: the pair of the installer
that the course of such a wizard (`OnCourse`) stores is not the one in force, so
it ends before its last check and reports nothing.

**`MenusProofs`**.  `SystemProxy`, for every set of services and values:
`ProxyTypeCorrect`, `ProxyOriginalsKept` (`OriginalsRecoverable`),
`ProxySnapshotRestorable` (`SnapshotRestorable`), `ProxySnapshotSpent`
(`SnapshotSpentOnRestore`).  `WorksOnSaved` says that the administrator script
touches only services that the snapshot holds, `PartialIsOurs` that a half
written service is the tool's, `SeenRestorable` and `GivenBack` what the menu
knows before it saves, and before it drops, the snapshot.

`RecentTargets`: `HistoryTypeCorrect` for every number of programs and targets,
and `DeletionHolds` for one program and an old file that can be removed.  Both
files are free of what was deleted (`HistoryFresh`), and what the program has
read, or is about to write, is what they hold, less the deleted entry
(`ReadIsCurrent`, `WrittenIsCurrent`).  `MergeFresh` is the step that matters:
merging two such files brings nothing back.

`TrafficProfiles`, for every set of profiles: `TrafficTypeCorrect` and
`NoLostSecret` (`SecretsListed`), by `LoadedIsStore` (what an action has loaded
is what the file still holds).

`MenusRunParts` and `MenusTypeCorrect` carry this over to the run `menus`.

Only model-checked: the liveness of the two transactions (`TransactionDecided`,
`RouteDecided`), and the unconditional forms of the three properties of
`IpRebind`, which are true within the bounds only (section 3).  Out of the
prover's reach are liveness under fairness and what a recursive definition
computes.

## 5. What is left out

Of the modelled parts:

- `rm -rf` by root on a local file system, and writing the small state files of
  the two transactions, are taken to succeed unless the process dies.
- In `InstallHelper` the services are up or down together; a reload or start
  that fails leaves either.  The sysctl reload, whose result the script ignores,
  and the receipts, which no code reads back, are omitted.
- The orange and the dual route differ in whether finalize removes the Reality
  inbound; they are one route here.  The single ufw rules are `none`, `partial`
  or `managed`.
- The rules by which `process.go` recognises a transport failure: whether a
  retry happens is a choice, which covers every output.
- Install transaction and credentials are not composed.  Menu [1] rotates the
  VPS password with `chpasswd` (`00-auto-install-or-optimize.sh:83`), and
  `/etc/shadow` is not among the paths of `28a:14`–`45`.  When a later stage
  fails, the rollback restores store and handoff: they state a password that
  does not log in until the next rotation.  `RolledBack` of `Credentials`
  leaves the VPS pair in force for that reason; `FormLogsIn` speaks of forms
  that were shown after a success.
- On a fresh node the panel pair that `03c` has made is overwritten by the
  export of `03d` in its fresh mode, which then ends with status 83; no property
  is about it, but `NeverProves` in `CredentialsProofs` shows it: such a wizard
  never reports success.
- Trial migration of SS2022 (`tna-ss2022-112-trial`).  Read, not modelled: a
  second `ensure` with a cutover pending resets `TRIAL_CUTOVER_PENDING` and
  removes the trial's configuration and rules, after which later ones die with
  `active_trial_config_missing_refused`.  A requested port that differs from the
  configured one is promised a migration by `operations.go:248` and refused by
  the script with `invalid_server_config`.
- In `Ss2022` the rollback of `28a` restores the files in one step and starts or
  stops the services in the same; the path by path order, with a removal before
  each copy, is that of `InstallHelper`.  It begins when the program of the
  construction has its answer, or has gone; a rollback by a second program while
  the first still waits for its set-up is covered as one after the first has
  given up (`InstallSession` has the two programs).  It admits a source again
  that was removed since the snapshot (`RollBackRestores2022` resets `shutOut`).
  A change of the allowlist is reported as failed when the public address cannot
  be told after it was applied.
- `SshKeys` has one VPS and one user, on a platform with control masters.  A
  restore by password whose verification fails also revokes a line that it did
  not install itself (`remote.go:2305`), and `runRemoteAction` has a case for a
  held connection (`remote.go:1680`); both are in the actions, no property is
  about them.  That a key is revoked after a lost answer (`remote.go:1191`) is
  no property, because it is not so.
- `Lifecycle`: an upload dies with its connection.  The refusals of the
  uninstallation that concern unexpected file types, services and launchers are
  left out.  A legacy dismantling gives up the original; the property is about
  exact ones.
- `SystemProxy` is the macOS implementation (`local_proxy_system.go`).  On Windows
  and elsewhere menu [14] sets or removes the environment variables of
  `local_proxy.go`, without a snapshot.
- In `IpRebind` preflight's checks of services and provider are one condition,
  and a check that refuses is `Stops`.

Parts without a module:

- *Android client*: a second implementation of the sessions.  As a second client
  of a node it is one of the two programs of `install_two_programs`; the order
  of its own cancellation and rollback is a hazard in `PROJECT.json`.
- *Migration of older installations*, *install plan and flow*, *receipts*:
  one-off sequences or pure decisions.
- *Other node scripts* (certificates, nginx, Reality, performance, security
  reports): steps of the transactions above, or reports.
- *Front ends*, third-party licences, vendored code.

## 6. Plan

Done: the two transactions with their sessions and composition; life of the
node; SS2022; SSH keys; IP rebind; credentials; desktop proxy; login history;
traffic profiles; a theorem for every safety property of the runs, the sessions
of the two transactions and their composition included.  Next, in this order:

1. `Credentials` composed with the install transaction.
2. The trial migration of SS2022.
3. `AndroidSession`: the Kotlin sessions, whose cancellation closes the
   connection before their rollbacks run (`WorkflowRunner.kt:126`).
4. Weaker conditions than `NoneLate` and `FromManaged` for the properties of
   `IpRebind`: what a late command must find to do harm.

## 7. Running

    tlc -workers 2 -config MCNode.cfg MCNode.tla
    tlc -workers 2 -config MCMenus.cfg MCMenus.tla
    tlapm NodeProofs.tla

The other configurations belong to `MCInstallSession` (`Install*.cfg`),
`MCRouteSession` (`Route*.cfg`), `MCConstruction` (`Construction*.cfg`),
`MCNode` (`DismantleCheck.cfg`) and `MCMenus` (`HandoffOpening.cfg`).
`MCNode` (4.2 million states) and `MCMenus` take between one and four minutes,
the others less.
