----------------------------- MODULE RouteHelper -----------------------------
(***************************************************************************)
(* The remote half of a change of route: linux/28-topology-reconcile.sh.   *)
(* --apply-input stages the orange or dual route behind a snapshot,        *)
(* --finalize makes it permanent, --rollback-pending restores the snapshot *)
(* and --to-gray does a whole change in one invocation.  The script takes  *)
(* no lock, and its caller may stop waiting for it at any time.            *)
(*                                                                         *)
(* The files it protects are grouped into the Paths below; the directory   *)
(* /etc/text-node-assistant/cloudflare is the two files in it that the     *)
(* script depends on.  The origin lock itself (ufw rules) is not a file    *)
(* and is what 05f-cloudflare-origin-lock.sh makes of it.                  *)
(***************************************************************************)
EXTENDS Integers, Sequences

CONSTANTS Slots,      \* BOUND: processes of the script around at once
          MaxFaults   \* BOUND: misfortunes, of the script and of its callers

ASSUME RouteFaultsAssumption == MaxFaults \in Nat

\* begin_transaction snapshots and rollback_pending restores in this order.
Order == <<"xui", "nginx", "cidr", "edge", "state", "topology">>
Paths == {Order[i] : i \in 1 .. Len(Order)}

\* What a path may hold: nothing, half a copy, what it held before the change,
\* what staging, finalizing or going gray makes of it.  cidr is "on" when it
\* says that the lock is applied, edge "confirmed" when the client was.
Content == {"absent", "torn", "old", "staged", "final", "gray",
            "on", "off", "validated", "confirmed"}
Rules   == {"none", "partial", "managed"}

Kinds == {"apply", "finalize", "rollback", "toGray"}

Snapping == {"mark", "copy"}
Staging  == {"create", "unlock", "fetch", "lock", "stage", "edge", "meta"}
Graying  == {"unstage", "grayLock", "delete", "grayState"}
Undoing  == {"undo", "unlockAgain", "erase", "restore", "relock", "restart"}
Running  == Snapping \cup Staging \cup Graying \cup Undoing
              \cup {"start", "deleteReality", "commitState", "commitTopology",
                    "wipe", "discard"}
Pc       == Running \cup {"free", "exited"}

\* What the script reports: a failure of apply or toGray carries the marker of
\* its own rollback if that one succeeded.
Outs == {"-", "ERROR", "ERROR_ROLLED_BACK", "STAGED", "RECONCILED", "ROLLED_BACK",
         "NOTHING_PENDING"}

Proc == [kind : Kinds, pc : Pc, i : 1 .. Len(Order) + 1, rc : {"ok", "failed"},
         relock : {"no", "yes"}, out : Outs]

VARIABLES
  node,     \* [Paths -> Content]
  rules,    \* the managed ufw rules of the origin lock
  txn,      \* the directory TXN: "none", "open", or "staged" with META in it
  snap,     \* [Paths -> Saved], presence markers and copies in TXN
  procs,    \* [Slots -> Proc]
  faults,   \* misfortunes so far
  pre,      \* history: node and rules when TXN was made
  taint     \* history: what a rollback of TXN cannot make up for

disk  == <<node, rules, txn, snap>>
ghost == <<pre, taint>>
rvars == <<disk, procs, faults, ghost>>

Saved     == [presence : {"unwritten", "present", "absent"}, copy : Content]
Unwritten == [p \in Paths |-> [presence |-> "unwritten", copy |-> "absent"]]
FreeSlot  == [kind |-> "apply", pc |-> "free", i |-> 1, rc |-> "ok", relock |-> "no",
              out |-> "-"]

\* A node on the gray route, and one on a finished orange or dual route.
GrayNode   == [p \in Paths |-> IF p \in {"xui", "state", "topology"} THEN "old" ELSE "absent"]
OrangeNode == [GrayNode EXCEPT !["nginx"] = "old", !["cidr"] = "on", !["edge"] = "confirmed"]

RInit ==
  /\ \/ node = GrayNode /\ rules = "none"
     \/ node = OrangeNode /\ rules = "managed"
  /\ txn = "none"
  /\ snap = Unwritten
  /\ procs = [s \in Slots |-> FreeSlot]
  /\ faults = 0
  /\ pre = [node |-> node, rules |-> rules]
  /\ taint = {}

\* Each route leaves all of the node in one piece.
GoneGray   == [p \in Paths |-> CASE p \in {"xui", "state", "topology"} -> "gray"
                                 [] p = "cidr" -> "off"
                                 [] OTHER -> "absent"]
GoneOrange == [p \in Paths |-> CASE p \in {"xui", "state", "topology"} -> "final"
                                 [] p = "nginx" -> "staged"
                                 [] p = "cidr" -> "on"
                                 [] p = "edge" -> "confirmed"]
GrayDone   == node = GoneGray /\ rules = "none"
OrangeDone == node = GoneOrange /\ rules = "managed"

IsWhole == \/ node = GrayNode /\ rules = "none"
           \/ node = OrangeNode /\ rules = "managed"
           \/ GrayDone \/ OrangeDone

-----------------------------------------------------------------------------
(* Processes                                                               *)

At(s, pc) == procs[s].pc = pc
Alive(s)  == procs[s].pc \in Running

Misfortune == faults < MaxFaults /\ faults' = faults + 1

\* Process s goes on at pc; Fail marks the rollback it is in as incomplete.
Goto(s, pc)     == procs' = [procs EXCEPT ![s].pc = pc]
Loop(s, pc, i)  == procs' = [procs EXCEPT ![s] = [@ EXCEPT !.pc = pc, !.i = i]]
Fail(s, pc)     == procs' = [procs EXCEPT ![s] = [@ EXCEPT !.pc = pc, !.rc = "failed"]]
Exit(s, out)    ==
  procs' = [procs EXCEPT ![s] =
              [FreeSlot EXCEPT !.kind = procs[s].kind, !.pc = "exited", !.out = out]]

Put(p, v) == node' = [node EXCEPT ![p] = v]

\* A caller runs the script; nothing keeps two of them apart.  The history
\* starts afresh with a change begun alone, on a whole node.
Spawn(s, k) ==
  /\ At(s, "free")
  /\ procs' = [procs EXCEPT ![s] = [FreeSlot EXCEPT !.kind = k, !.pc = "start"]]
  /\ IF \E r \in Slots : Alive(r)
       THEN taint' = taint \cup {"overlap"} /\ UNCHANGED pre
       ELSE IF k \in {"apply", "toGray"} /\ txn = "none" /\ IsWhole
              THEN taint' = {} /\ pre' = [node |-> node, rules |-> rules]
              ELSE UNCHANGED ghost
  /\ UNCHANGED disk

Reap(s) ==
  /\ At(s, "exited")
  /\ procs' = [procs EXCEPT ![s] = FreeSlot]
  /\ UNCHANGED <<disk, ghost>>

-----------------------------------------------------------------------------
(* begin_transaction: no trap is set yet, so a failure leaves TXN behind.  *)

BeginRefused(s) ==
  /\ At(s, "start") /\ procs[s].kind \in {"apply", "toGray"}
  /\ txn # "none"
  /\ Exit(s, "ERROR")
  /\ UNCHANGED <<disk, faults, ghost>>

Begin(s) ==
  /\ At(s, "start") /\ procs[s].kind \in {"apply", "toGray"}
  /\ txn = "none"
  /\ txn' = "open"
  /\ snap' = Unwritten
  /\ pre' = [node |-> node, rules |-> rules]
  /\ Goto(s, "mark")
  /\ UNCHANGED <<node, rules, faults, taint>>

SnapMark(s) ==
  LET i == procs[s].i IN
  /\ At(s, "mark") /\ i <= Len(Order)
  /\ IF node[Order[i]] = "absent"
       THEN /\ snap' = [snap EXCEPT ![Order[i]] = [presence |-> "absent", copy |-> "absent"]]
            /\ Loop(s, "mark", i + 1)
       ELSE /\ snap' = [snap EXCEPT ![Order[i]] = [presence |-> "present", copy |-> "torn"]]
            /\ Goto(s, "copy")
  /\ UNCHANGED <<node, rules, txn, faults, ghost>>

SnapCopySkips(s) ==
  LET p == Order[procs[s].i] IN
  /\ At(s, "copy")
  /\ snap' = [snap EXCEPT ![p].copy = node[p]]
  /\ Loop(s, "mark", procs[s].i + 2)
  /\ UNCHANGED <<node, rules, txn, faults, ghost>>

\* cp -a; a source that vanished meanwhile stops the script under errexit.
SnapCopy(s) ==
  LET p == Order[procs[s].i] IN
  /\ At(s, "copy")
  /\ \/ /\ node[p] # "absent"
        /\ snap' = [snap EXCEPT ![p].copy = node[p]]
        /\ Loop(s, "mark", procs[s].i + 1)
        /\ UNCHANGED taint
     \/ /\ node[p] = "absent"
        /\ Exit(s, "ERROR")
        /\ taint' = taint \cup {"partial"}
        /\ UNCHANGED snap
  /\ UNCHANGED <<node, rules, txn, faults, pre>>

Begun(s) ==
  /\ At(s, "mark") /\ procs[s].i > Len(Order)
  /\ Goto(s, IF procs[s].kind = "apply" THEN "create" ELSE "unstage")
  /\ UNCHANGED <<disk, faults, ghost>>

-----------------------------------------------------------------------------
(* apply_input, after its trap is set                                      *)

Create(s) ==
  /\ At(s, "create")
  /\ Put("xui", "staged")
  /\ Goto(s, "unlock")
  /\ UNCHANGED <<rules, txn, snap, faults, ghost>>

\* remove_managed_rules, whose failure apply_input ignores.
RemoveRules == rules' = "none" /\ Put("cidr", "off")
\* What is left of the rules when their removal stops halfway.
HalfRemoved == IF rules = "none" THEN {"none"} ELSE {rules, "partial"}

Unlock(s) ==
  /\ At(s, "unlock")
  /\ RemoveRules
  /\ Goto(s, "fetch")
  /\ UNCHANGED <<txn, snap, faults, ghost>>

\* fetch_lists does not refresh lists that are applied.
Fetch(s) ==
  /\ At(s, "fetch")
  /\ node["cidr"] # "on"
  /\ Put("cidr", "off")
  /\ Goto(s, "lock")
  /\ UNCHANGED <<rules, txn, snap, faults, ghost>>

FetchRefused(s) ==
  /\ At(s, "fetch")
  /\ node["cidr"] = "on"
  /\ Goto(s, "undo")
  /\ UNCHANGED <<disk, faults, ghost>>

\* apply_rules needs lists: an absent or torn state directory has none.
Lockable == node["cidr"] \in {"on", "off"}
ApplyRules == rules' = "managed" /\ Put("cidr", "on")

Lock(s) ==
  /\ At(s, "lock")
  /\ Lockable
  /\ ApplyRules
  /\ Goto(s, "stage")
  /\ UNCHANGED <<txn, snap, faults, ghost>>

LockRefused(s) ==
  /\ At(s, "lock")
  /\ ~Lockable
  /\ Goto(s, "undo")
  /\ UNCHANGED <<disk, faults, ghost>>

\* The certificate and the vhost.
Stage(s) ==
  /\ At(s, "stage")
  /\ Put("nginx", "staged")
  /\ Goto(s, "edge")
  /\ UNCHANGED <<rules, txn, snap, faults, ghost>>

\* 05g --origin-ready and --edge: a validation writes a fresh edge state, with
\* no confirmation in it, and the waiting-for-edge deployment state.
Edge(s) ==
  /\ At(s, "edge")
  /\ node' = [node EXCEPT !["edge"] = "validated", !["state"] = "staged"]
  /\ Goto(s, "meta")
  /\ UNCHANGED <<rules, txn, snap, faults, ghost>>

\* META can only be written where TXN still is.
Staged(s) ==
  /\ At(s, "meta")
  /\ txn # "none"
  /\ txn' = "staged"
  /\ Exit(s, "STAGED")
  /\ UNCHANGED <<node, rules, snap, faults, ghost>>

StagedNowhere(s) ==
  /\ At(s, "meta")
  /\ txn = "none"
  /\ Goto(s, "undo")
  /\ UNCHANGED <<disk, faults, ghost>>

-----------------------------------------------------------------------------
(* finalize: no trap, a failure leaves the transaction pending.            *)

MayFinalize == txn = "staged" /\ node["edge"] = "confirmed"

FinalizeRefused(s) ==
  /\ At(s, "start") /\ procs[s].kind = "finalize"
  /\ ~MayFinalize
  /\ Exit(s, "ERROR")
  /\ UNCHANGED <<disk, faults, ghost>>

FinalizeStarts(s) ==
  /\ At(s, "start") /\ procs[s].kind = "finalize"
  /\ MayFinalize
  /\ Goto(s, "deleteReality")
  /\ UNCHANGED <<disk, faults, ghost>>

\* The orange route removes the Reality inbound, the dual route keeps it.
DeleteReality(s) ==
  /\ At(s, "deleteReality")
  /\ Put("xui", "final")
  /\ Goto(s, "commitState")
  /\ UNCHANGED <<rules, txn, snap, faults, ghost>>

CommitState(s) ==
  /\ At(s, "commitState")
  /\ Put("state", "final")
  /\ Goto(s, "commitTopology")
  /\ UNCHANGED <<rules, txn, snap, faults, ghost>>

\* The last write of a change, of finalize as of to_gray.
CommitTopology(s) ==
  /\ At(s, "commitTopology")
  /\ Put("topology", IF procs[s].kind = "finalize" THEN "final" ELSE "gray")
  /\ Goto(s, "wipe")
  /\ UNCHANGED <<rules, txn, snap, faults, ghost>>

-----------------------------------------------------------------------------
(* to_gray, after its trap is set                                          *)

Unstage(s) ==
  /\ At(s, "unstage")
  /\ Put("nginx", "absent")
  /\ Goto(s, "grayLock")
  /\ UNCHANGED <<rules, txn, snap, faults, ghost>>

GrayLock(s) ==
  /\ At(s, "grayLock")
  /\ RemoveRules
  /\ Goto(s, "delete")
  /\ UNCHANGED <<txn, snap, faults, ghost>>

DeleteXhttp(s) ==
  /\ At(s, "delete")
  /\ node' = [node EXCEPT !["xui"] = "gray", !["edge"] = "absent"]
  /\ Goto(s, "grayState")
  /\ UNCHANGED <<rules, txn, snap, faults, ghost>>

GrayState(s) ==
  /\ At(s, "grayState")
  /\ Put("state", "gray")
  /\ Goto(s, "commitTopology")
  /\ UNCHANGED <<rules, txn, snap, faults, ghost>>

-----------------------------------------------------------------------------
(* rollback_pending, called by its option or by the trap of the other two. *)

RollbackCalled(s) ==
  /\ At(s, "start") /\ procs[s].kind = "rollback"
  /\ Goto(s, "undo")
  /\ UNCHANGED <<disk, faults, ghost>>

NothingPending(s) ==
  /\ At(s, "undo")
  /\ txn = "none"
  /\ Exit(s, IF procs[s].kind = "rollback" THEN "NOTHING_PENDING" ELSE "ERROR")
  /\ UNCHANGED <<disk, faults, ghost>>

\* Whether the lock was applied before is read before anything is restored.
WasLockedNow == node["cidr"] = "on"
WasLocked == snap["cidr"].presence = "present" /\ snap["cidr"].copy = "on"

UndoStarts(s) ==
  /\ At(s, "undo")
  /\ txn # "none"
  /\ procs' = [procs EXCEPT ![s] = [@ EXCEPT !.pc = "unlockAgain", !.i = 1, !.rc = "ok",
                                      !.relock = IF WasLocked THEN "yes" ELSE "no"]]
  /\ UNCHANGED <<disk, faults, ghost>>

UnlockAgain(s) ==
  /\ At(s, "unlockAgain")
  /\ RemoveRules
  /\ Goto(s, "erase")
  /\ UNCHANGED <<txn, snap, faults, ghost>>

\* restore_path removes the path whether or not the snapshot knows it.
Erase(s) ==
  LET i == procs[s].i IN
  /\ At(s, "erase") /\ i <= Len(Order)
  /\ Put(Order[i], "absent")
  /\ IF snap[Order[i]].presence = "present"
       THEN Goto(s, "restore")
       ELSE Loop(s, "erase", i + 1)
  /\ UNCHANGED <<rules, txn, snap, faults, ghost>>

Restore(s) ==
  LET p == Order[procs[s].i] IN
  /\ At(s, "restore")
  /\ snap[p].presence = "present"
  /\ Put(p, snap[p].copy)
  /\ Loop(s, "erase", procs[s].i + 1)
  /\ UNCHANGED <<rules, txn, snap, faults, ghost>>

\* Another process removed the copy meanwhile.
RestoreVanished(s) ==
  /\ At(s, "restore")
  /\ snap[Order[procs[s].i]].presence # "present"
  /\ procs' = [procs EXCEPT ![s] = [@ EXCEPT !.pc = "erase", !.i = procs[s].i + 1,
                                      !.rc = "failed"]]
  /\ UNCHANGED <<disk, faults, ghost>>

Restored(s) ==
  /\ At(s, "erase") /\ procs[s].i > Len(Order)
  /\ Goto(s, IF procs[s].relock = "yes" THEN "relock" ELSE "restart")
  /\ UNCHANGED <<disk, faults, ghost>>

Relock(s) ==
  /\ At(s, "relock")
  /\ \/ Lockable /\ ApplyRules /\ Goto(s, "restart")
     \/ ~Lockable /\ Fail(s, "restart") /\ UNCHANGED <<node, rules>>
  /\ UNCHANGED <<txn, snap, faults, ghost>>

\* x-ui and nginx come back with what was restored.
RestartAnyway(s) ==
  /\ At(s, "restart")
  /\ Goto(s, "discard")
  /\ UNCHANGED <<disk, faults, ghost>>

Restart(s) ==
  /\ At(s, "restart")
  /\ \/ procs[s].rc = "ok" /\ Goto(s, "discard")
     \/ procs[s].rc = "failed" /\ Exit(s, "ERROR")
  /\ UNCHANGED <<disk, faults, ghost>>

\* rm -rf TXN, of a complete rollback ...
Discard(s) ==
  /\ At(s, "discard")
  /\ txn' = "none"
  /\ snap' = Unwritten
  /\ Exit(s, IF procs[s].kind = "rollback" THEN "ROLLED_BACK" ELSE "ERROR_ROLLED_BACK")
  /\ UNCHANGED <<node, rules, faults, ghost>>

\* ... and of a change that is done.
Wipe(s) ==
  /\ At(s, "wipe")
  /\ txn' = "none"
  /\ snap' = Unwritten
  /\ Exit(s, "RECONCILED")
  /\ UNCHANGED <<node, rules, faults, ghost>>

-----------------------------------------------------------------------------
(* What can go wrong                                                       *)

\* A copy into the snapshot fails: the script exits, TXN stays incomplete.
SnapFails(s) ==
  /\ procs[s].pc \in Snapping
  /\ Misfortune
  /\ Exit(s, "ERROR")
  /\ taint' = taint \cup {"partial"}
  /\ UNCHANGED <<disk, pre>>

\* A stage of apply_input or to_gray fails and the trap rolls back; a lock
\* that fails has removed its rules.
TrapFires(s) ==
  /\ \/ procs[s].pc \in (Staging \cup Graying) \ {"unlock"}
     \/ At(s, "commitTopology") /\ procs[s].kind = "toGray"
  /\ Misfortune
  /\ Goto(s, "undo")
  /\ IF At(s, "lock") THEN RemoveRules ELSE UNCHANGED <<node, rules>>
  /\ UNCHANGED <<txn, snap, ghost>>

UnlockIgnored(s) ==
  /\ At(s, "unlock")
  /\ Misfortune
  /\ rules' \in HalfRemoved
  /\ Goto(s, "fetch")
  /\ UNCHANGED <<node, txn, snap, ghost>>

FinalizeFails(s) ==
  /\ procs[s].kind = "finalize"
  /\ procs[s].pc \in {"deleteReality", "commitState", "commitTopology"}
  /\ Misfortune
  /\ Exit(s, "ERROR")
  /\ UNCHANGED <<disk, ghost>>

\* One step of a rollback fails; the rollback goes on and ends incomplete.
UndoFails(s) ==
  /\ Misfortune
  /\ \/ At(s, "unlockAgain") /\ Fail(s, "erase") /\ rules' \in HalfRemoved /\ UNCHANGED node
     \/ /\ At(s, "restore")
        /\ Put(Order[procs[s].i], "torn")
        /\ procs' = [procs EXCEPT ![s] = [@ EXCEPT !.pc = "erase", !.i = procs[s].i + 1,
                                      !.rc = "failed"]]
        /\ UNCHANGED rules
     \/ At(s, "relock") /\ Fail(s, "restart") /\ RemoveRules
     \/ At(s, "restart") /\ Exit(s, "ERROR") /\ UNCHANGED <<node, rules>>
  /\ UNCHANGED <<txn, snap, ghost>>

\* What rm -rf TXN, which removes its entries in no particular order, may have
\* left: BOUND: everything, all but one entry, or nothing.
Leftovers == {Paths, {}} \cup {Paths \ {p} : p \in Paths}

\* A kill or a reboot.  ufw rules are inserted and deleted one at a time.
Dies(s) ==
  /\ Alive(s)
  /\ Misfortune
  /\ Exit(s, "ERROR")
  /\ rules' \in CASE procs[s].pc \in {"lock", "relock"} -> {rules, "partial"}
                  [] procs[s].pc \in {"unlock", "grayLock", "unlockAgain"} -> HalfRemoved
                  [] OTHER -> {rules}
  /\ IF procs[s].pc \in {"wipe", "discard"}
       THEN /\ txn # "none"
            /\ txn' \in {"open", txn}
            /\ \E kept \in Leftovers :
                 snap' = [p \in Paths |-> IF p \in kept THEN snap[p] ELSE Unwritten[p]]
       ELSE UNCHANGED <<txn, snap>>
  /\ taint' = IF procs[s].pc \in Snapping \cup {"wipe", "discard"}
                THEN taint \cup {"partial"} ELSE taint
  /\ UNCHANGED <<node, pre>>

-----------------------------------------------------------------------------

Beginning(s)  == BeginRefused(s) \/ Begin(s) \/ SnapMark(s) \/ SnapCopy(s) \/ Begun(s)
Applying(s)   == \/ Create(s) \/ Unlock(s) \/ Fetch(s) \/ FetchRefused(s) \/ Lock(s)
                 \/ LockRefused(s) \/ Stage(s) \/ Edge(s) \/ Staged(s) \/ StagedNowhere(s)
Finalizing(s) == \/ FinalizeRefused(s) \/ FinalizeStarts(s) \/ DeleteReality(s)
                 \/ CommitState(s) \/ CommitTopology(s)
GoingGray(s)  == Unstage(s) \/ GrayLock(s) \/ DeleteXhttp(s) \/ GrayState(s)
RollingBack(s) == \/ RollbackCalled(s) \/ NothingPending(s) \/ UndoStarts(s)
                  \/ UnlockAgain(s) \/ Erase(s) \/ Restore(s) \/ RestoreVanished(s)
                  \/ Restored(s) \/ Relock(s) \/ Restart(s) \/ Discard(s)

ScriptStep(s) ==
  Beginning(s) \/ Applying(s) \/ Finalizing(s) \/ GoingGray(s) \/ RollingBack(s) \/ Wipe(s)

ScriptFault(s) ==
  \/ SnapFails(s) \/ TrapFires(s) \/ UnlockIgnored(s) \/ FinalizeFails(s)
  \/ UndoFails(s) \/ Dies(s)

-----------------------------------------------------------------------------
(* Properties                                                              *)

\* Every variable of the script stays in its domain.
RTypeOK ==
  /\ node \in [Paths -> Content]
  /\ rules \in Rules
  /\ txn \in {"none", "open", "staged"}
  /\ snap \in [Paths -> Saved]
  /\ procs \in [Slots -> Proc]
  /\ faults \in 0 .. MaxFaults
  /\ pre \in [node : [Paths -> Content], rules : Rules]
  /\ taint \subseteq {"overlap", "partial"}

\* The step in which a process reports a rollback as done.
ReportsRollback(s) ==
  /\ procs[s].out \notin {"ROLLED_BACK", "ERROR_ROLLED_BACK"}
  /\ procs'[s].out \in {"ROLLED_BACK", "ERROR_ROLLED_BACK"}

IsPreImage == node' = pre.node /\ rules' = pre.rules

\* A rollback that reports success has restored every file and the origin lock,
\* however many attempts were cut short or failed before it, if the snapshot
\* was complete and no two processes of the script ever ran at once.
CleanRollbackExact ==
  [][\A s \in Slots : ReportsRollback(s) /\ taint = {} => IsPreImage]_rvars

\* Statement of the code (cdn_reset.go:303): the marker of a rollback is emitted
\* after a complete restore and is safe evidence of it.
MarkerIsEvidence == [][\A s \in Slots : ReportsRollback(s) => IsPreImage]_rvars

\* No crash, failure or retry leaves a mixture of two routes with nothing
\* pending that could still roll it back: then the node is as before the last
\* change or as after it, the origin lock included.
NoMixedRoute ==
  txn = "none" /\ taint = {} /\ (\A s \in Slots : ~Alive(s) \/ At(s, "start")) =>
    \/ node = pre.node /\ rules = pre.rules
    \/ GrayDone
    \/ OrangeDone
=============================================================================
