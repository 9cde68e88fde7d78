--------------------------- MODULE InstallHelper ---------------------------
(***************************************************************************)
(* The remote half of the menu [1] install transaction:                    *)
(* linux/28a-install-transaction.sh.  Every invocation of the script is a  *)
(* process (a slot of procs) that waits for the exclusive flock and then   *)
(* runs begin, rollback or commit one file-system effect at a time.  A     *)
(* process may die between any two effects, and its caller may be gone     *)
(* long before it gets the lock: nothing here knows about callers.         *)
(*                                                                         *)
(* The environment invokes the script at will and, outside the lock,       *)
(* changes the files and services the transaction protects (NodeWrite):    *)
(* the install wizard, the route scripts and the other menus do.           *)
(***************************************************************************)
EXTENDS Integers

CONSTANTS NumPaths,   \* length of the script's array paths
          Files,      \* what an existing path may hold
          Absent,     \* the path does not exist
          Torn,       \* what an interrupted or failed cp -a leaves behind
          Slots,      \* BOUND: processes of the script alive at once
          MaxTx       \* BOUND: transactions begun

ASSUME PathsAssumption == NumPaths \in Nat
ASSUME FilesAssumption == Absent \notin Files /\ Torn \notin Files /\ Absent # Torn
ASSUME MaxTxAssumption == MaxTx \in Nat

Paths   == 1 .. NumPaths
Content == Files \cup {Absent, Torn}
Tx      == 1 .. MaxTx
\* All of services enabled and active, or not; "down" stands for any mixture.
Service == {"up", "down"}

Kinds         == {"begin", "rollback", "commit"}
Rollbackable  == {"ACTIVE", "ROLLING_BACK", "ROLLBACK_FAILED"}
Decided       == {"COMMITTED", "ROLLED_BACK"}
Status        == {"NONE", "PREPARING"} \cup Rollbackable \cup Decided

\* Where a process stands.  Everything but "free", "lock" and "exited" is
\* inside the critical section of flock -x 9.
Inside == {"meta", "mark", "copy", "activate",
           "stop", "erase", "restore", "verdict", "discard", "drop"}
Pc     == Inside \cup {"free", "lock", "exited"}

\* What the script prints last, ERROR standing for every die and errexit.
Outs   == {"-", "ERROR", "BEGAN", "ROLLED_BACK", "PREPARE_ABORTED",
           "NOT_NEEDED", "COMMITTED"}

Proc == [kind : Kinds, pc : Pc, i : 1 .. NumPaths + 1, failed : {"no", "yes"},
         out : Outs, tx : 0 .. MaxTx]

Saved == [presence : {"unwritten", "present", "absent"}, copy : Content]

VARIABLES
  node,      \* [Paths -> Content], the protected files
  svc,       \* the protected services
  current,   \* current.env: TRANSACTION_STATUS and TRANSACTION_ID
  snapDir,   \* whether the directory SNAPSHOT exists
  snap,      \* [Paths -> Saved], its presence markers and copies
  svcSnap,   \* its service records
  txCount,   \* transactions begun so far, the source of fresh identifiers
  procs,     \* [Slots -> Proc]
  pre,       \* history: node and svc when the current transaction was opened
  overlap,   \* history: phases of the current transaction a NodeWrite fell into
  ended      \* history: the status current.env carried when it was removed

disk  == <<node, svc, current, snapDir, snap, svcSnap, txCount>>
ghost == <<pre, overlap, ended>>
hvars == <<disk, procs, ghost>>

NoTx      == [status |-> "NONE", tx |-> 0]
FreeSlot  == [kind |-> "begin", pc |-> "free", i |-> 1, failed |-> "no",
              out |-> "-", tx |-> 0]
Unwritten == [p \in Paths |-> [presence |-> "unwritten", copy |-> Absent]]

NoImage   == [node |-> [p \in Paths |-> Absent], svc |-> "down"]

\* What restoring path p from the snapshot s would put back.
Recorded(s, p) == IF s[p].presence = "present" THEN s[p].copy ELSE Absent

HInit ==
  /\ node \in [Paths -> Files \cup {Absent}]
  /\ svc \in Service
  /\ current = NoTx
  /\ snapDir = FALSE
  /\ snap = Unwritten
  /\ svcSnap = "down"
  /\ txCount = 0
  /\ procs = [s \in Slots |-> FreeSlot]
  /\ pre = NoImage
  /\ overlap = {}
  /\ ended = [t \in Tx |-> "NONE"]

-----------------------------------------------------------------------------
(* Processes and the lock.                                                 *)

LockFree == \A s \in Slots : procs[s].pc \notin Inside

At(s, pc) == procs[s].pc = pc

\* Process s gets the lock and is about to run its action k.
GetsLock(s, k) == At(s, "lock") /\ procs[s].kind = k /\ LockFree

Goto(s, pc)  == procs' = [procs EXCEPT ![s].pc = pc]
Step(s, pc, i, failed) ==
  procs' = [procs EXCEPT ![s] = [@ EXCEPT !.pc = pc, !.i = i, !.failed = failed]]
\* What the process will print once it is done is settled.
Bound(s, pc, out) ==
  procs' = [procs EXCEPT ![s] = [@ EXCEPT !.pc = pc, !.out = out]]
Exit(s, out) ==
  procs' = [procs EXCEPT ![s] = [FreeSlot EXCEPT
              !.kind = procs[s].kind, !.pc = "exited", !.out = out, !.tx = current.tx]]

\* The status begin_transaction writes before it takes the snapshot.
OpeningStatusActive == "ACTIVE"
OpeningStatus == "PREPARING"

\* A transaction identifier no transaction had before.
FreshTxSkips == txCount + 2
FreshTx == txCount + 1

SetStatus(st) == current' = [current EXCEPT !.status = st]

\* A client runs the script over SSH.
Spawn(s, k) ==
  /\ At(s, "free")
  /\ procs' = [procs EXCEPT ![s] = [FreeSlot EXCEPT !.kind = k, !.pc = "lock"]]
  /\ UNCHANGED <<disk, ghost>>

\* The finished process goes away, its output read or lost.
Reap(s) ==
  /\ At(s, "exited")
  /\ procs' = [procs EXCEPT ![s] = FreeSlot]
  /\ UNCHANGED <<disk, ghost>>

\* errexit, a kill or a reboot stops the process where it stands.
Dies(s) ==
  /\ procs[s].pc \in Inside \cup {"lock"}
  /\ Exit(s, "ERROR")
  /\ UNCHANGED <<disk, ghost>>

-----------------------------------------------------------------------------
(* begin_transaction                                                       *)

\* An existing current.env is refused (80); MaxTx stops the model there too.
BeginRefused(s) ==
  /\ GetsLock(s, "begin")
  /\ current # NoTx \/ txCount = MaxTx
  /\ Exit(s, "ERROR")
  /\ UNCHANGED <<disk, ghost>>

BeginOpens(s) ==
  /\ GetsLock(s, "begin")
  /\ current = NoTx /\ txCount < MaxTx
  /\ snapDir' = TRUE
  /\ snap' = Unwritten
  /\ svcSnap' = "down"
  /\ Goto(s, "meta")
  /\ UNCHANGED <<node, svc, current, txCount, ghost>>

WriteMeta(s) ==
  /\ At(s, "meta")
  /\ txCount' = txCount + 1
  /\ current' = [status |-> OpeningStatus, tx |-> FreshTx]
  /\ pre' = [node |-> node, svc |-> svc]
  /\ overlap' = {}
  /\ Step(s, "mark", 1, "no")
  /\ UNCHANGED <<node, svc, snapDir, snap, svcSnap, ended>>

\* snapshot_path writes the presence marker first and copies afterwards.
SnapMark(s) ==
  LET i == procs[s].i IN
  /\ At(s, "mark") /\ i \in Paths
  /\ \/ /\ node[i] = Absent
        /\ snap' = [snap EXCEPT ![i] = [presence |-> "absent", copy |-> Absent]]
        /\ Step(s, "mark", i + 1, "no")
     \/ /\ node[i] # Absent
        /\ snap' = [snap EXCEPT ![i] = [presence |-> "present", copy |-> Torn]]
        /\ Step(s, "copy", i, "no")
  /\ UNCHANGED <<node, svc, current, snapDir, svcSnap, txCount, ghost>>

\* cp -a; a source that vanished meanwhile stops the script under errexit.
SnapCopy(s) ==
  LET i == procs[s].i IN
  /\ At(s, "copy")
  /\ \/ /\ node[i] # Absent
        /\ snap' = [snap EXCEPT ![i].copy = node[i]]
        /\ Step(s, "mark", i + 1, "no")
     \/ /\ node[i] = Absent
        /\ Exit(s, "ERROR")
        /\ UNCHANGED snap
  /\ UNCHANGED <<node, svc, current, snapDir, svcSnap, txCount, ghost>>

\* record_service_states
SnapServices(s) ==
  /\ At(s, "mark") /\ procs[s].i \notin Paths
  /\ svcSnap' = svc
  /\ Goto(s, "activate")
  /\ UNCHANGED <<node, svc, current, snapDir, snap, txCount, ghost>>

Activate(s) ==
  /\ At(s, "activate")
  /\ SetStatus("ACTIVE")
  /\ Exit(s, "BEGAN")
  /\ UNCHANGED <<node, svc, snapDir, snap, svcSnap, txCount, ghost>>

-----------------------------------------------------------------------------
(* rollback_transaction                                                    *)

RollbackNotNeeded(s) ==
  /\ GetsLock(s, "rollback")
  /\ current = NoTx
  /\ Exit(s, "NOT_NEEDED")
  /\ UNCHANGED <<disk, ghost>>

\* A snapshot that was never completed is dropped: nothing was changed yet.
RollbackAborts(s) ==
  /\ GetsLock(s, "rollback")
  /\ current.status = "PREPARING"
  /\ snapDir' = FALSE
  /\ snap' = Unwritten
  /\ svcSnap' = "down"
  /\ Bound(s, "drop", "PREPARE_ABORTED")
  /\ UNCHANGED <<node, svc, current, txCount, ghost>>

MayRollBackAny == current.status # "NONE" /\ snapDir
MayRollBack == current.status \in Rollbackable /\ snapDir

RollbackRefused(s) ==
  /\ GetsLock(s, "rollback")
  /\ current.status \notin {"NONE", "PREPARING"} /\ ~MayRollBack
  /\ Exit(s, "ERROR")
  /\ UNCHANGED <<disk, ghost>>

RollbackStarts(s) ==
  /\ GetsLock(s, "rollback")
  /\ MayRollBack
  /\ SetStatus("ROLLING_BACK")
  /\ overlap' = overlap \ {"restore"}
  /\ Goto(s, "stop")
  /\ UNCHANGED <<node, svc, snapDir, snap, svcSnap, txCount, pre, ended>>

StopServices(s) ==
  /\ At(s, "stop")
  /\ svc' = "down"
  /\ Step(s, "erase", 1, "no")
  /\ UNCHANGED <<node, current, snapDir, snap, svcSnap, txCount, ghost>>

\* restore_path: without its marker a path is left alone and the rollback
\* fails; with it the path is removed and, if it was present, copied back.
ErasePath(s) ==
  LET i == procs[s].i IN
  /\ At(s, "erase") /\ i \in Paths
  /\ \/ /\ snap[i].presence = "unwritten"
        /\ Step(s, "erase", i + 1, "yes")
        /\ UNCHANGED node
     \/ /\ snap[i].presence # "unwritten"
        /\ node' = [node EXCEPT ![i] = Absent]
        /\ IF snap[i].presence = "present"
             THEN Goto(s, "restore")
             ELSE Step(s, "erase", i + 1, procs[s].failed)
  /\ UNCHANGED <<svc, current, snapDir, snap, svcSnap, txCount, ghost>>

RestorePathUnnoticed(s, ok) ==
  LET i == procs[s].i IN
  /\ At(s, "restore")
  /\ node' = [node EXCEPT ![i] = IF ok THEN snap[i].copy ELSE Torn]
  /\ Step(s, "erase", i + 1, procs[s].failed)
  /\ UNCHANGED <<svc, current, snapDir, snap, svcSnap, txCount, ghost>>

RestorePath(s, ok) ==
  LET i == procs[s].i IN
  /\ At(s, "restore")
  /\ node' = [node EXCEPT ![i] = IF ok THEN snap[i].copy ELSE Torn]
  /\ Step(s, "erase", i + 1, IF ok THEN procs[s].failed ELSE "yes")
  /\ UNCHANGED <<svc, current, snapDir, snap, svcSnap, txCount, ghost>>

\* restore_service_states; a service without a record is disabled and stopped,
\* and a reload, enable or start that fails leaves the services in any state.
RestoreServices(s, ok) ==
  /\ At(s, "erase") /\ procs[s].i \notin Paths
  /\ svc' \in IF ok THEN {svcSnap} ELSE Service
  /\ Step(s, "verdict", procs[s].i, IF ok THEN procs[s].failed ELSE "yes")
  /\ UNCHANGED <<node, current, snapDir, snap, svcSnap, txCount, ghost>>

RollbackVerdict(s) ==
  /\ At(s, "verdict")
  /\ \/ /\ procs[s].failed = "yes"
        /\ SetStatus("ROLLBACK_FAILED")
        /\ Exit(s, "ERROR")
     \/ /\ procs[s].failed = "no"
        /\ SetStatus("ROLLED_BACK")
        /\ Bound(s, "discard", "ROLLED_BACK")
  /\ UNCHANGED <<node, svc, snapDir, snap, svcSnap, txCount, ghost>>

-----------------------------------------------------------------------------
(* commit_transaction, and the tail it shares with rollback_transaction    *)

MayCommit == current.status = "ACTIVE"

CommitRefused(s) ==
  /\ GetsLock(s, "commit")
  /\ ~MayCommit
  /\ Exit(s, "ERROR")
  /\ UNCHANGED <<disk, ghost>>

CommitDecides(s) ==
  /\ GetsLock(s, "commit")
  /\ MayCommit
  /\ SetStatus("COMMITTED")
  /\ Bound(s, "discard", "COMMITTED")
  /\ UNCHANGED <<node, svc, snapDir, snap, svcSnap, txCount, ghost>>

\* archive_receipt writes a receipt no code reads; then rm -rf SNAPSHOT.
Discard(s) ==
  /\ At(s, "discard")
  /\ snapDir' = FALSE
  /\ snap' = Unwritten
  /\ svcSnap' = "down"
  /\ Goto(s, "drop")
  /\ UNCHANGED <<node, svc, current, txCount, ghost>>

\* rm -f CURRENT and the success marker.
DropCurrent(s) ==
  /\ At(s, "drop")
  /\ ended' = [ended EXCEPT ![current.tx] = current.status]
  /\ current' = NoTx
  /\ Exit(s, procs[s].out)
  /\ pre' = NoImage
  /\ overlap' = {}
  /\ UNCHANGED <<node, svc, snapDir, snap, svcSnap, txCount>>

-----------------------------------------------------------------------------
(* The rest of the node                                                    *)

\* The phase of the transaction a change of the node falls into, if it is one
\* in which the helper expects the node to stand still.
Phase == CASE current.status = "PREPARING" -> {"snapshot"}
           [] current.status \in {"ROLLING_BACK", "ROLLED_BACK"} -> {"restore"}
           [] OTHER -> {}

\* The wizard, a route script or another menu changes a file or the services.
NodeWrite ==
  /\ \/ \E p \in Paths, d \in Files \cup {Absent} :
          node' = [node EXCEPT ![p] = d] /\ UNCHANGED svc
     \/ \E x \in Service : svc' = x /\ UNCHANGED node
  /\ overlap' = overlap \cup Phase
  /\ UNCHANGED <<current, snapDir, snap, svcSnap, txCount, procs, pre, ended>>

\* One step of process s that needs no luck ...
ScriptStep(s) ==
  \/ BeginRefused(s) \/ BeginOpens(s) \/ WriteMeta(s) \/ SnapMark(s)
  \/ SnapCopy(s) \/ SnapServices(s) \/ Activate(s)
  \/ RollbackNotNeeded(s) \/ RollbackAborts(s) \/ RollbackRefused(s)
  \/ RollbackStarts(s) \/ StopServices(s) \/ ErasePath(s)
  \/ RestorePath(s, TRUE) \/ RestoreServices(s, TRUE) \/ RollbackVerdict(s)
  \/ CommitRefused(s) \/ CommitDecides(s) \/ Discard(s) \/ DropCurrent(s)

\* ... and the ways in which it can go wrong.
ScriptFault(s) == Dies(s) \/ RestorePath(s, FALSE) \/ RestoreServices(s, FALSE)

HNext ==
  \/ \E s \in Slots, k \in Kinds : Spawn(s, k)
  \/ \E s \in Slots : Reap(s) \/ ScriptStep(s) \/ ScriptFault(s)
  \/ NodeWrite

HSpec == HInit /\ [][HNext]_hvars

-----------------------------------------------------------------------------
(* Properties                                                              *)

\* Every variable stays in its domain.
HTypeOK ==
  /\ node \in [Paths -> Content]
  /\ svc \in Service
  /\ current \in [status : Status, tx : 0 .. MaxTx]
  /\ snapDir \in BOOLEAN
  /\ snap \in [Paths -> Saved]
  /\ svcSnap \in Service
  /\ txCount \in 0 .. MaxTx
  /\ procs \in [Slots -> Proc]
  /\ pre \in [node : [Paths -> Content], svc : Service]
  /\ overlap \in SUBSET {"snapshot", "restore"}
  /\ ended \in [Tx -> Status]

\* From the moment begin_transaction reports ACTIVE until a rollback or a
\* commit is decided, through any number of interrupted and failed rollbacks,
\* the snapshot is there and complete: restoring it yields exactly the files
\* and services of the node when the transaction was opened, unless somebody
\* wrote to the node while the snapshot was being taken.
SnapshotHoldsPreImage ==
  current.status \in Rollbackable =>
    /\ snapDir
    /\ \A p \in Paths : snap[p].presence # "unwritten"
    /\ "snapshot" \notin overlap =>
         /\ \A p \in Paths : Recorded(snap, p) = pre.node[p]
         /\ svcSnap = pre.svc

\* A rollback that reports ROLLED_BACK has put every file and the services
\* back to what they were before construction, whatever earlier attempts were
\* cut short halfway, unless somebody wrote during snapshot or restore.
RolledBackIsPreImage ==
  current.status = "ROLLED_BACK" /\ overlap = {} =>
    node = pre.node /\ svc = pre.svc

\* What became of transaction t, as current.env tells it.  A transaction that
\* is only PREPARING is open; removed in that state it was undone.
Fate(t) ==
  LET st == IF current.tx = t THEN current.status ELSE ended[t] IN
  CASE st = "COMMITTED" -> "committed"
    [] st = "ROLLED_BACK" -> "undone"
    [] st = "PREPARING" /\ current.tx # t -> "undone"
    [] st = "NONE" -> "unused"
    [] OTHER -> "open"

Construction == INSTANCE AtomicConstruction
                  WITH Tx <- Tx, fate <- [t \in Tx |-> Fate(t)]

\* The helper implements atomic constructions: through refused, interrupted,
\* repeated and late invocations a transaction is decided once, a decision is
\* never taken back, and no transaction opens while another is undecided.
AtomicConstructions == Construction!ASpec
=============================================================================
