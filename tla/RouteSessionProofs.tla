------------------------- MODULE RouteSessionProofs -------------------------
(***************************************************************************)
(* Proofs about RouteSession and the script it drives, for any number of   *)
(* processes and misfortunes: as long as no two processes of the script    *)
(* have run at once and no snapshot was cut, a rollback is exact, no       *)
(* mixture of routes is left without a transaction, and the session tells  *)
(* the truth.                                                              *)
(***************************************************************************)
EXTENDS RouteSession, TLAPS

-----------------------------------------------------------------------------
(* Paths, and nodes as functions of them.                                  *)

LEMMA OrderIs ==
  /\ Len(Order) = 6
  /\ Order[1] = "xui" /\ Order[2] = "nginx" /\ Order[3] = "cidr"
  /\ Order[4] = "edge" /\ Order[5] = "state" /\ Order[6] = "topology"
  BY DEF Order

LEMMA PathsAre == Paths = {"xui", "nginx", "cidr", "edge", "state", "topology"}
<1>1. \A i \in 1 .. Len(Order) : i \in {1, 2, 3, 4, 5, 6}
  BY OrderIs
<1>2. {1, 2, 3, 4, 5, 6} \subseteq 1 .. Len(Order)
  BY OrderIs
<1> QED
  BY <1>1, <1>2, OrderIs DEF Paths

LEMMA OrderedPath == ASSUME NEW i \in 1 .. Len(Order) PROVE Order[i] \in Paths
  BY DEF Paths

LEMMA OrderOnce == ASSUME NEW i \in 1 .. Len(Order), NEW j \in 1 .. Len(Order), i < j
                   PROVE  Order[i] # Order[j]
<1>1. i \in {1, 2, 3, 4, 5, 6} /\ j \in {1, 2, 3, 4, 5, 6}
  BY OrderIs
<1> QED
  BY <1>1, OrderIs

LEMMA SameNode ==
  ASSUME NEW f \in [Paths -> Content], NEW g \in [Paths -> Content],
         \A j \in 1 .. Len(Order) : f[Order[j]] = g[Order[j]]
  PROVE  f = g
<1>1. \A p \in Paths : f[p] = g[p]
  BY DEF Paths
<1> QED
  BY <1>1

LEMMA PutOnce ==
  ASSUME node \in [Paths -> Content], NEW i \in 1 .. Len(Order), NEW v,
         node' = [node EXCEPT ![Order[i]] = v]
  PROVE  /\ node'[Order[i]] = v
         /\ \A j \in 1 .. Len(Order) : j < i => node'[Order[j]] = node[Order[j]]
<1>1. \A j \in 1 .. Len(Order) : Order[j] \in Paths /\ (j < i => Order[j] # Order[i])
  BY OrderedPath, OrderOnce
<1> QED
  BY <1>1

LEMMA OrangeIs ==
  ASSUME NEW f \in [Paths -> Content]
  PROVE  f = GoneOrange <=>
           /\ f["xui"] = "final" /\ f["state"] = "final" /\ f["topology"] = "final"
           /\ f["nginx"] = "staged" /\ f["cidr"] = "on" /\ f["edge"] = "confirmed"
<1>1. \A p \in Paths : p \in {"xui", "nginx", "cidr", "edge", "state", "topology"}
  BY PathsAre
<1>2. {"xui", "nginx", "cidr", "edge", "state", "topology"} \subseteq Paths
  BY PathsAre
<1>3. f = GoneOrange <=> \A p \in Paths : f[p] = GoneOrange[p]
  BY DEF GoneOrange
<1> QED
  BY <1>1, <1>2, <1>3 DEF GoneOrange

LEMMA GrayIs ==
  ASSUME NEW f \in [Paths -> Content]
  PROVE  f = GoneGray <=>
           /\ f["xui"] = "gray" /\ f["state"] = "gray" /\ f["topology"] = "gray"
           /\ f["nginx"] = "absent" /\ f["cidr"] = "off" /\ f["edge"] = "absent"
<1>1. \A p \in Paths : p \in {"xui", "nginx", "cidr", "edge", "state", "topology"}
  BY PathsAre
<1>2. {"xui", "nginx", "cidr", "edge", "state", "topology"} \subseteq Paths
  BY PathsAre
<1>3. f = GoneGray <=> \A p \in Paths : f[p] = GoneGray[p]
  BY DEF GoneGray
<1> QED
  BY <1>1, <1>2, <1>3 DEF GoneGray

\* The origin lock of a whole node is what its files say.
LEMMA WholeAgrees ==
  IsWhole => rules = IF node["cidr"] = "on" THEN "managed" ELSE "none"
<1>1. "cidr" \in Paths /\ "nginx" \in Paths /\ "edge" \in Paths
  BY PathsAre
<1>2. GrayNode["cidr"] = "absent" /\ OrangeNode["cidr"] = "on"
  BY <1>1 DEF GrayNode, OrangeNode
<1>3. GoneGray["cidr"] = "off" /\ GoneOrange["cidr"] = "on"
  BY <1>1 DEF GoneGray, GoneOrange
<1> QED
  BY <1>2, <1>3 DEF IsWhole, GrayDone, OrangeDone

-----------------------------------------------------------------------------
(* What becomes of a process.                                              *)

Now(s, k, pc, i, rc, relock, out) ==
  /\ procs' \in [Slots -> Proc]
  /\ \A t \in Slots : t # s => procs'[t] = procs[t]
  /\ procs'[s].kind = k /\ procs'[s].pc = pc /\ procs'[s].i = i /\ procs'[s].rc = rc
  /\ procs'[s].relock = relock /\ procs'[s].out = out

LEMMA Replaced ==
  ASSUME procs \in [Slots -> Proc], NEW s \in Slots, NEW q \in Proc,
         procs' = [procs EXCEPT ![s] = q]
  PROVE  Now(s, q.kind, q.pc, q.i, q.rc, q.relock, q.out)
  BY DEF Now

LEMMA GotoNow ==
  ASSUME procs \in [Slots -> Proc], NEW s \in Slots, NEW pc \in Pc, Goto(s, pc)
  PROVE  Now(s, procs[s].kind, pc, procs[s].i, procs[s].rc, procs[s].relock, procs[s].out)
<1> DEFINE q == [procs[s] EXCEPT !.pc = pc]
<1>1. procs[s] \in Proc
  OBVIOUS
<1>2. q \in Proc
  BY <1>1 DEF Proc
<1>3. /\ q.kind = procs[s].kind /\ q.pc = pc /\ q.i = procs[s].i
     /\ q.rc = procs[s].rc /\ q.relock = procs[s].relock /\ q.out = procs[s].out
  BY <1>1 DEF Proc
<1>4. procs' = [procs EXCEPT ![s] = q]
  BY DEF Goto
<1> HIDE DEF q
<1>5. Now(s, q.kind, q.pc, q.i, q.rc, q.relock, q.out)
  BY <1>2, <1>4, Replaced
<1> QED
  BY <1>3, <1>5 DEF Now

LEMMA LoopNow ==
  ASSUME procs \in [Slots -> Proc], NEW s \in Slots, NEW pc \in Pc,
         NEW i \in 1 .. Len(Order) + 1, Loop(s, pc, i)
  PROVE  Now(s, procs[s].kind, pc, i, procs[s].rc, procs[s].relock, procs[s].out)
<1> DEFINE q == [procs[s] EXCEPT !.pc = pc, !.i = i]
<1>1. procs[s] \in Proc
  OBVIOUS
<1>2. q \in Proc
  BY <1>1 DEF Proc
<1>3. /\ q.kind = procs[s].kind /\ q.pc = pc /\ q.i = i
     /\ q.rc = procs[s].rc /\ q.relock = procs[s].relock /\ q.out = procs[s].out
  BY <1>1 DEF Proc
<1>4. procs' = [procs EXCEPT ![s] = q]
  BY DEF Loop
<1> HIDE DEF q
<1>5. Now(s, q.kind, q.pc, q.i, q.rc, q.relock, q.out)
  BY <1>2, <1>4, Replaced
<1> QED
  BY <1>3, <1>5 DEF Now

LEMMA FailNow ==
  ASSUME procs \in [Slots -> Proc], NEW s \in Slots, NEW pc \in Pc, Fail(s, pc)
  PROVE  Now(s, procs[s].kind, pc, procs[s].i, "failed", procs[s].relock, procs[s].out)
<1> DEFINE q == [procs[s] EXCEPT !.pc = pc, !.rc = "failed"]
<1>1. procs[s] \in Proc
  OBVIOUS
<1>2. q \in Proc
  BY <1>1 DEF Proc
<1>3. /\ q.kind = procs[s].kind /\ q.pc = pc /\ q.i = procs[s].i
     /\ q.rc = "failed" /\ q.relock = procs[s].relock /\ q.out = procs[s].out
  BY <1>1 DEF Proc
<1>4. procs' = [procs EXCEPT ![s] = q]
  BY DEF Fail
<1> HIDE DEF q
<1>5. Now(s, q.kind, q.pc, q.i, q.rc, q.relock, q.out)
  BY <1>2, <1>4, Replaced
<1> QED
  BY <1>3, <1>5 DEF Now

LEMMA SkipNow ==
  ASSUME procs \in [Slots -> Proc], NEW s \in Slots, procs[s].i + 1 \in 1 .. Len(Order) + 1,
         procs' = [procs EXCEPT ![s] = [@ EXCEPT !.pc = "erase", !.i = procs[s].i + 1,
                                               !.rc = "failed"]]
  PROVE  Now(s, procs[s].kind, "erase", procs[s].i + 1, "failed", procs[s].relock, procs[s].out)
<1> DEFINE q == [procs[s] EXCEPT !.pc = "erase", !.i = procs[s].i + 1, !.rc = "failed"]
<1>1. procs[s] \in Proc
  OBVIOUS
<1>2. q \in Proc
  BY <1>1 DEF Proc, Pc, Running, Undoing
<1>3. /\ q.kind = procs[s].kind /\ q.pc = "erase" /\ q.i = procs[s].i + 1
     /\ q.rc = "failed" /\ q.relock = procs[s].relock /\ q.out = procs[s].out
  BY <1>1 DEF Proc
<1>4. procs' = [procs EXCEPT ![s] = q]
  OBVIOUS
<1> HIDE DEF q
<1>5. Now(s, q.kind, q.pc, q.i, q.rc, q.relock, q.out)
  BY <1>2, <1>4, Replaced
<1> QED
  BY <1>3, <1>5 DEF Now

LEMMA OneIndex == 1 \in 1 .. Len(Order) + 1
  BY OrderIs

LEMMA FreeIs ==
  /\ FreeSlot \in Proc
  /\ FreeSlot.kind = "apply" /\ FreeSlot.pc = "free" /\ FreeSlot.i = 1
  /\ FreeSlot.rc = "ok" /\ FreeSlot.relock = "no" /\ FreeSlot.out = "-"
  BY OneIndex DEF FreeSlot, Proc, Pc, Kinds, Outs

LEMMA ExitNow ==
  ASSUME procs \in [Slots -> Proc], NEW s \in Slots, NEW out \in Outs, Exit(s, out)
  PROVE  Now(s, procs[s].kind, "exited", 1, "ok", "no", out)
<1> DEFINE q == [FreeSlot EXCEPT !.kind = procs[s].kind, !.pc = "exited", !.out = out]
<1>1. procs[s].kind \in Kinds
  BY DEF Proc
<1>2. q \in Proc
  BY <1>1, FreeIs DEF Proc, Pc, Running, Outs
<1>3. /\ q.kind = procs[s].kind /\ q.pc = "exited" /\ q.i = 1
     /\ q.rc = "ok" /\ q.relock = "no" /\ q.out = out
  BY FreeIs DEF Proc
<1>4. procs' = [procs EXCEPT ![s] = q]
  BY DEF Exit
<1> HIDE DEF q
<1>5. Now(s, q.kind, q.pc, q.i, q.rc, q.relock, q.out)
  BY <1>2, <1>4, Replaced
<1> QED
  BY <1>3, <1>5 DEF Now

LEMMA SpawnNow ==
  ASSUME procs \in [Slots -> Proc], NEW s \in Slots, NEW k \in Kinds, Spawn(s, k)
  PROVE  Now(s, k, "start", 1, "ok", "no", "-")
<1> DEFINE q == [FreeSlot EXCEPT !.kind = k, !.pc = "start"]
<1>1. procs[s].kind \in Kinds
  BY DEF Proc
<1>2. q \in Proc
  BY <1>1, FreeIs DEF Proc, Pc, Running, Outs
<1>3. /\ q.kind = k /\ q.pc = "start" /\ q.i = 1
     /\ q.rc = "ok" /\ q.relock = "no" /\ q.out = "-"
  BY FreeIs DEF Proc
<1>4. procs' = [procs EXCEPT ![s] = q]
  BY DEF Spawn
<1> HIDE DEF q
<1>5. Now(s, q.kind, q.pc, q.i, q.rc, q.relock, q.out)
  BY <1>2, <1>4, Replaced
<1> QED
  BY <1>3, <1>5 DEF Now

LEMMA ReapNow ==
  ASSUME procs \in [Slots -> Proc], NEW s \in Slots, Reap(s)
  PROVE  Now(s, "apply", "free", 1, "ok", "no", "-")
<1>1. procs' = [procs EXCEPT ![s] = FreeSlot]
  BY DEF Reap
<1> QED
  BY <1>1, FreeIs, Replaced

LEMMA UndoNow ==
  ASSUME procs \in [Slots -> Proc], NEW s \in Slots, NEW relock \in {"yes", "no"},
         procs' = [procs EXCEPT ![s] = [@ EXCEPT !.pc = "unlockAgain", !.i = 1,
                                                 !.rc = "ok", !.relock = relock]]
  PROVE  Now(s, procs[s].kind, "unlockAgain", 1, "ok", relock, procs[s].out)
<1> DEFINE q == [procs[s] EXCEPT !.pc = "unlockAgain", !.i = 1, !.rc = "ok",
                                 !.relock = relock]
<1>1. procs[s] \in Proc
  OBVIOUS
<1>2. q \in Proc
  BY <1>1, OneIndex DEF Proc, Pc, Running, Undoing
<1>3. /\ q.kind = procs[s].kind /\ q.pc = "unlockAgain" /\ q.i = 1
     /\ q.rc = "ok" /\ q.relock = relock /\ q.out = procs[s].out
  BY <1>1 DEF Proc
<1>4. procs' = [procs EXCEPT ![s] = q]
  OBVIOUS
<1> HIDE DEF q
<1>5. Now(s, q.kind, q.pc, q.i, q.rc, q.relock, q.out)
  BY <1>2, <1>4, Replaced
<1> QED
  BY <1>3, <1>5 DEF Now

-----------------------------------------------------------------------------
(* The invariant.  Nothing is claimed of a history with a taint.           *)

\* A path is saved as it was, and the lock of a node agrees with its files.
IsSaved(p) ==
  /\ snap[p].presence = IF pre.node[p] = "absent" THEN "absent" ELSE "present"
  /\ snap[p].copy = pre.node[p]
SnapExact == \A p \in Paths : IsSaved(p)
AsBefore == node = pre.node /\ rules = pre.rules
PreAgrees == pre.rules = IF pre.node["cidr"] = "on" THEN "managed" ELSE "none"

\* What --finalize may build on, also a second time.
StagedNode ==
  /\ node["nginx"] = "staged" /\ node["cidr"] = "on" /\ rules = "managed"
  /\ node["edge"] \in {"validated", "confirmed"}
FinalNode ==
  StagedNode /\ node["edge"] = "confirmed" /\ txn = "staged"

\* What the process that runs may rely on where it stands.
SnapStands(s) ==
  procs[s].pc \in Snapping =>
    /\ txn = "open" /\ AsBefore /\ procs[s].kind \in {"apply", "toGray"}
    /\ \A j \in 1 .. Len(Order) : j < procs[s].i => IsSaved(Order[j])
    /\ procs[s].pc = "copy" =>
         /\ procs[s].i <= Len(Order) /\ node[Order[procs[s].i]] # "absent"
         /\ snap[Order[procs[s].i]].presence = "present"

ApplyStands(s) ==
  /\ procs[s].pc \in Staging => procs[s].kind = "apply" /\ txn # "none"
  /\ procs[s].pc \in {"stage", "edge", "meta"} => node["cidr"] = "on" /\ rules = "managed"
  /\ procs[s].pc \in {"edge", "meta"} => node["nginx"] = "staged"
  /\ procs[s].pc = "meta" => node["edge"] = "validated"

FinalizeStands(s) ==
  /\ procs[s].pc = "deleteReality" => procs[s].kind = "finalize"
  /\ procs[s].pc = "commitState" => procs[s].kind = "finalize" /\ node["xui"] = "final"
  /\ procs[s].pc \in {"commitTopology", "wipe"} => procs[s].kind \in {"finalize", "toGray"}
  /\ procs[s].kind = "finalize" =>
       /\ procs[s].pc = "start" /\ txn = "staged" => StagedNode
       /\ procs[s].pc # "start" => FinalNode
       /\ procs[s].pc \in {"commitTopology", "wipe"} =>
            node["xui"] = "final" /\ node["state"] = "final"
       /\ procs[s].pc = "wipe" => OrangeDone
       /\ procs[s].pc \in {"start", "deleteReality", "commitState", "commitTopology", "wipe"}

GrayStands(s) ==
  /\ procs[s].pc \in Graying => procs[s].kind = "toGray" /\ txn # "none"
  /\ procs[s].kind = "toGray" =>
       /\ procs[s].pc \in {"grayLock", "delete", "grayState", "commitTopology"} =>
            node["nginx"] = "absent"
       /\ procs[s].pc \in {"delete", "grayState", "commitTopology"} =>
            node["cidr"] = "off" /\ rules = "none"
       /\ procs[s].pc \in {"grayState", "commitTopology"} =>
            node["xui"] = "gray" /\ node["edge"] = "absent"
       /\ procs[s].pc = "commitTopology" => node["state"] = "gray" /\ txn # "none"
       /\ procs[s].pc = "wipe" => GrayDone /\ txn # "none"

KnowsLock(s) == procs[s].relock = IF pre.node["cidr"] = "on" THEN "yes" ELSE "no"

Restoring == {"unlockAgain", "erase", "restore", "relock", "restart", "discard"}

UndoStands(s) ==
  /\ procs[s].pc = "undo" /\ procs[s].kind # "rollback" => txn # "none"
  /\ procs[s].pc \in Restoring => txn # "none" /\ KnowsLock(s)
  /\ procs[s].pc = "unlockAgain" => procs[s].i = 1
  /\ procs[s].pc \in {"erase", "restore"} /\ procs[s].rc = "ok" =>
       /\ rules = "none"
       /\ \A j \in 1 .. Len(Order) : j < procs[s].i => node[Order[j]] = pre.node[Order[j]]
  /\ procs[s].pc = "restore" =>
       procs[s].i <= Len(Order) /\ snap[Order[procs[s].i]].presence = "present"
  /\ procs[s].pc = "relock" =>
       /\ procs[s].relock = "yes"
       /\ procs[s].rc = "ok" => node = pre.node /\ rules = "none"
  /\ procs[s].pc = "restart" /\ procs[s].rc = "ok" => AsBefore
  /\ procs[s].pc = "discard" => AsBefore

Stands(s) ==
  SnapStands(s) /\ ApplyStands(s) /\ FinalizeStands(s) /\ GrayStands(s) /\ UndoStands(s)

\* A pending transaction can be rolled back, and without one the route is whole.
Pending ==
  txn # "none" /\ (\A s \in Slots : procs[s].pc \notin Snapping) => SnapExact
Settled == txn = "none" => AsBefore \/ GrayDone \/ OrangeDone

\* What the answers of a process say.
AnswerTrue(s) ==
  /\ procs[s].out = "STAGED" => txn = "staged" /\ StagedNode
  /\ procs[s].out = "RECONCILED" => txn = "none" /\ (GrayDone \/ OrangeDone)
  /\ procs[s].out \in {"ROLLED_BACK", "ERROR_ROLLED_BACK"} => txn = "none" /\ AsBefore

\* The session has no process beside the one it waits for.
Alone == \A s \in Slots : Alive(s) => \A t \in Slots : Alive(t) => t = s
Attached ==
  /\ cl.slot \in Slots => \A s \in Slots : Alive(s) => s = cl.slot
  /\ cl.pc \in {"validate", "finalize"} =>
       (\A s \in Slots : ~Alive(s)) /\ txn = "staged" /\ StagedNode
  /\ cl.pc = "finalizing" /\ txn = "staged" => StagedNode
  /\ cl.slot \in Slots => AnswerTrue(cl.slot)

Clean ==
  taint = {} =>
    /\ Alone /\ Attached /\ PreAgrees /\ Pending /\ Settled
    /\ \A s \in Slots : Alive(s) => Stands(s)

\* The kind of the request that the session waits for.
KindOf == [pc \in {"stage", "finalizing", "rollback", "gray"} |->
             CASE pc = "stage" -> "apply" [] pc = "finalizing" -> "finalize"
               [] pc = "rollback" -> "rollback" [] OTHER -> "toGray"]
Waits ==
  /\ cl.slot = NoSlot <=> cl.pc \in {"idle", "validate", "finalize", "undo"}
  /\ cl.slot \in Slots => procs[cl.slot].kind = KindOf[cl.pc] /\ ~At(cl.slot, "free")
\* Only a process that has exited has answered; the loops stay within Order.
Orderly(s) ==
  /\ ~At(s, "exited") => procs[s].out = "-"
  /\ procs[s].pc \in {"copy", "restore"} => procs[s].i \in 1 .. Len(Order)
  /\ At(s, "start") => procs[s].i = 1
AllOrderly == \A s \in Slots : Orderly(s)

-----------------------------------------------------------------------------
(* A step of one process of the script, seen from that process.            *)

Recoverable(s) == txn # "none" /\ procs[s].pc \notin Snapping => SnapExact
Finalizable(s) == procs[s].kind = "finalize" /\ txn = "staged" => StagedNode
Sound(s) ==
  /\ PreAgrees /\ Settled /\ Recoverable(s) /\ AnswerTrue(s) /\ Finalizable(s)
  /\ Alive(s) => Stands(s)

Here(s) == RTypeOK /\ Orderly(s)
Moves(s) ==
  /\ Alive(s) /\ procs' \in [Slots -> Proc]
  /\ \A t \in Slots : t # s => procs'[t] = procs[t]
  /\ procs'[s].kind = procs[s].kind /\ procs'[s].pc \in Running \cup {"exited"}
  /\ Orderly(s)'
  /\ procs'[s].out \in {"ROLLED_BACK", "ERROR_ROLLED_BACK"} => UNCHANGED ghost
Onward(s) == RTypeOK' /\ Moves(s) /\ (taint' = {} => taint = {} /\ (Sound(s) => Sound(s)'))

LEMMA BeginningStep ==
  ASSUME NEW s \in Slots, Here(s), Beginning(s)
  PROVE  Onward(s)
<1> USE DEF At, Running, Snapping, Staging, Graying, Undoing, Restoring
<1>1. ASSUME BeginRefused(s) PROVE Onward(s)
  <2>1. Now(s, procs[s].kind, "exited", 1, "ok", "no", "ERROR")
    BY <1>1, ExitNow DEF BeginRefused, RTypeOK, Here, Outs
  <2>2. RTypeOK' /\ Moves(s)
    BY <1>1, <2>1, PathsAre DEF BeginRefused, disk, ghost, Now, RTypeOK, Here,
       Content, Rules, Moves, Orderly, Alive
  <2>3. ASSUME taint' = {}, Sound(s) PROVE Sound(s)'
    <3>1. taint = {} /\ Sound(s)
      BY <1>1, <2>3 DEF BeginRefused, Here, disk, ghost
    <3>2. Stands(s) /\ procs[s].kind \in {"apply", "toGray"}
      BY <1>1, <3>1 DEF BeginRefused, Sound, Alive, Stands
    <3>3. PreAgrees' /\ Settled' /\ Recoverable(s)' /\ AnswerTrue(s)' /\ Finalizable(s)'
      BY <1>1, <2>1, <3>2, <3>1 DEF BeginRefused, disk, ghost, PreAgrees, Settled,
         Sound, AsBefore, GrayDone, OrangeDone, Now, Recoverable, SnapExact,
         IsSaved, AnswerTrue, Finalizable
    <3>4. ~Alive(s)'
      BY <2>1 DEF Now, Alive
    <3> QED
      BY <3>3, <3>4 DEF Sound
  <2> QED
    BY <1>1, <2>2, <2>3 DEF Onward, BeginRefused, disk, ghost
<1>2. ASSUME Begin(s) PROVE Onward(s)
  <2>1. Now(s, procs[s].kind, "mark", procs[s].i, procs[s].rc, procs[s].relock, procs[s].out)
    BY <1>2, GotoNow DEF Begin, RTypeOK, Here, Pc
  <2>2. RTypeOK' /\ Moves(s)
    BY <1>2, <2>1, PathsAre DEF Begin, ghost, Now, RTypeOK, Here, Content, Rules,
       Moves, Orderly, Alive, Unwritten, Saved
  <2>3. ASSUME taint' = {}, Sound(s) PROVE Sound(s)'
    <3>1. taint = {} /\ Sound(s)
      BY <1>2, <2>3 DEF Begin, Here
    <3>2. Stands(s) /\ procs[s].kind \in {"apply", "toGray"}
      BY <1>2, <3>1 DEF Begin, Sound, Alive, Stands
    <3>3. PreAgrees' /\ Settled' /\ Recoverable(s)' /\ AnswerTrue(s)' /\ Finalizable(s)'
      BY <1>2, <2>1, <3>2, <3>1, OrangeIs, GrayIs DEF Begin, PreAgrees, Settled,
         Sound, AsBefore, GrayDone, OrangeDone, Here, RTypeOK, Now, Recoverable,
         SnapExact, IsSaved, AnswerTrue, Orderly, Finalizable
    <3>4. Stands(s)'
      BY <1>2, <2>1, <3>2, <3>1, OrderIs, <2>2 DEF Begin, Now, Stands, SnapStands,
         AsBefore, RTypeOK, Proc, Here, Orderly, ApplyStands, FinalizeStands,
         GrayStands, UndoStands
    <3> QED
      BY <3>3, <3>4 DEF Sound
  <2> QED
    BY <1>2, <2>2, <2>3 DEF Onward, Begin
<1>3. ASSUME SnapMark(s), node[Order[procs[s].i]] = "absent" PROVE Onward(s)
  <2>a. procs[s].i + 1 \in 1 .. Len(Order) + 1
    BY <1>3, OrderIs DEF SnapMark, Here, RTypeOK, Proc, Orderly
  <2>b. Loop(s, "mark", procs[s].i + 1)
    BY <1>3 DEF SnapMark
  <2>1. Now(s, procs[s].kind, "mark", procs[s].i + 1, procs[s].rc, procs[s].relock, procs[s].out)
    BY <2>a, <2>b, LoopNow DEF RTypeOK, Here, Pc
  <2>2. RTypeOK' /\ Moves(s)
    BY <1>3, <2>1, PathsAre, OrderedPath, OrderIs DEF SnapMark, ghost, Now, RTypeOK,
       Here, Content, Rules, Moves, Orderly, Alive, Saved, Proc
  <2>3. ASSUME taint' = {}, Sound(s) PROVE Sound(s)'
    <3>1. taint = {} /\ Sound(s)
      BY <1>3, <2>3 DEF SnapMark, Here, ghost
    <3>2. Stands(s) /\ procs[s].kind \in {"apply", "toGray"} /\ txn = "open" /\ AsBefore
      BY <1>3, <3>1 DEF SnapMark, Sound, Alive, Stands, SnapStands
    <3>3. PreAgrees' /\ Settled' /\ Recoverable(s)' /\ AnswerTrue(s)' /\ Finalizable(s)'
      BY <1>3, <2>1, <3>2, <3>1 DEF SnapMark, ghost, PreAgrees, Settled, Sound,
         AsBefore, GrayDone, OrangeDone, Now, Recoverable, SnapExact, IsSaved,
         AnswerTrue, Here, Orderly, Finalizable
    <3>4. Stands(s)'
      BY <1>3, <2>1, <3>2, <3>1, OrderIs, OrderOnce, OrderedPath DEF SnapMark,
         ghost, Now, Stands, SnapStands, AsBefore, IsSaved, Here, RTypeOK, Orderly,
         Saved, Proc, ApplyStands, FinalizeStands, GrayStands, UndoStands
    <3> QED
      BY <3>3, <3>4 DEF Sound
  <2> QED
    BY <1>3, <2>2, <2>3 DEF Onward, SnapMark, ghost
<1>4. ASSUME SnapMark(s), node[Order[procs[s].i]] # "absent" PROVE Onward(s)
  <2>1. Now(s, procs[s].kind, "copy", procs[s].i, procs[s].rc, procs[s].relock, procs[s].out)
    BY <1>4, GotoNow DEF SnapMark, RTypeOK, Here, Pc, Orderly
  <2>2. RTypeOK' /\ Moves(s)
    BY <1>4, <2>1, PathsAre, OrderedPath, OrderIs DEF SnapMark, ghost, Now, RTypeOK,
       Here, Content, Rules, Moves, Orderly, Alive, Saved, Proc
  <2>3. ASSUME taint' = {}, Sound(s) PROVE Sound(s)'
    <3>1. taint = {} /\ Sound(s)
      BY <1>4, <2>3 DEF SnapMark, Here, ghost
    <3>2. Stands(s) /\ procs[s].kind \in {"apply", "toGray"} /\ txn = "open" /\ AsBefore
      BY <1>4, <3>1 DEF SnapMark, Sound, Alive, Stands, SnapStands
    <3>3. PreAgrees' /\ Settled' /\ Recoverable(s)' /\ AnswerTrue(s)' /\ Finalizable(s)'
      BY <1>4, <2>1, <3>2, <3>1 DEF SnapMark, ghost, PreAgrees, Settled, Sound,
         AsBefore, GrayDone, OrangeDone, Now, Recoverable, SnapExact, IsSaved,
         AnswerTrue, Here, Orderly, Finalizable
    <3>4. Stands(s)'
      BY <1>4, <2>1, <3>2, <3>1, OrderIs, OrderOnce, OrderedPath DEF SnapMark,
         ghost, Now, Stands, SnapStands, AsBefore, IsSaved, Here, RTypeOK, Orderly,
         Saved, Proc, ApplyStands, FinalizeStands, GrayStands, UndoStands
    <3> QED
      BY <3>3, <3>4 DEF Sound
  <2> QED
    BY <1>4, <2>2, <2>3 DEF Onward, SnapMark, ghost
<1>5. ASSUME SnapCopy(s), node[Order[procs[s].i]] # "absent" PROVE Onward(s)
  <2>a. procs[s].i + 1 \in 1 .. Len(Order) + 1
    BY <1>5, OrderIs DEF SnapCopy, Here, RTypeOK, Proc, Orderly
  <2>b. Loop(s, "mark", procs[s].i + 1)
    BY <1>5 DEF SnapCopy
  <2>1. Now(s, procs[s].kind, "mark", procs[s].i + 1, procs[s].rc, procs[s].relock, procs[s].out)
    BY <2>a, <2>b, LoopNow DEF RTypeOK, Here, Pc
  <2>2. RTypeOK' /\ Moves(s)
    BY <1>5, <2>1, PathsAre, OrderedPath, OrderIs DEF SnapCopy, ghost, Now, RTypeOK,
       Here, Content, Rules, Moves, Orderly, Alive, Saved, Proc
  <2>3. ASSUME taint' = {}, Sound(s) PROVE Sound(s)'
    <3>1. taint = {} /\ Sound(s)
      BY <1>5, <2>3 DEF SnapCopy, Here
    <3>2. Stands(s) /\ procs[s].kind \in {"apply", "toGray"} /\ txn = "open" /\ AsBefore
      BY <1>5, <3>1 DEF SnapCopy, Sound, Alive, Stands, SnapStands
    <3>3. procs[s].i \in 1 .. Len(Order)
      BY <1>5, <3>1, <3>2 DEF SnapCopy, Here, Orderly
    <3>4. \A j \in 1 .. Len(Order) : j < procs[s].i =>
           Order[j] # Order[procs[s].i] /\ IsSaved(Order[j])
      BY <1>5, <3>1, <3>2, <3>3, OrderOnce DEF SnapCopy, Stands, SnapStands
    <3>5. snap[Order[procs[s].i]].presence = "present"
      BY <1>5, <3>1, <3>2, <3>3, <3>4 DEF SnapCopy, Stands, SnapStands
    <3>6. \A j \in 1 .. Len(Order) : j < procs[s].i + 1 => IsSaved(Order[j])'
      BY <1>5, <3>1, <3>2, <3>3, <3>4, <3>5, OrderedPath DEF SnapCopy, IsSaved,
         AsBefore, Here, RTypeOK, Saved
    <3>7. PreAgrees' /\ Settled' /\ Recoverable(s)' /\ AnswerTrue(s)' /\ Finalizable(s)'
      BY <1>5, <2>1, <3>2, <3>1 DEF SnapCopy, PreAgrees, Settled, Sound, AsBefore,
         GrayDone, OrangeDone, Now, Recoverable, SnapExact, IsSaved, AnswerTrue,
         Here, Orderly, Finalizable
    <3>8. SnapStands(s)'
      BY <1>5, <2>1, <3>2, <3>6 DEF SnapCopy, Now, SnapStands, AsBefore
    <3>9. ApplyStands(s)' /\ FinalizeStands(s)' /\ GrayStands(s)' /\ UndoStands(s)'
      BY <2>1, <3>2 DEF Now, ApplyStands, FinalizeStands, GrayStands, UndoStands
    <3> QED
      BY <3>7, <3>8, <3>9 DEF Sound, Stands
  <2> QED
    BY <1>5, <2>2, <2>3 DEF Onward, SnapCopy
<1>6. ASSUME SnapCopy(s), node[Order[procs[s].i]] = "absent" PROVE Onward(s)
  <2>1. Now(s, procs[s].kind, "exited", 1, "ok", "no", "ERROR")
    BY <1>6, ExitNow DEF SnapCopy, RTypeOK, Here, Outs, Orderly
  <2>2. RTypeOK' /\ Moves(s)
    BY <1>6, <2>1, PathsAre, OrderedPath, OrderIs DEF SnapCopy, ghost, Now, RTypeOK,
       Here, Content, Rules, Moves, Orderly, Alive, Saved, Proc
  <2>3. ASSUME taint' = {}, Sound(s) PROVE Sound(s)'
    <3>1. taint = {} /\ Sound(s)
      BY <1>6, <2>3 DEF SnapCopy, Here
    <3>2. Stands(s) /\ procs[s].kind \in {"apply", "toGray"} /\ txn = "open" /\ AsBefore
      BY <1>6, <3>1 DEF SnapCopy, Sound, Alive, Stands, SnapStands
    <3>3. PreAgrees' /\ Settled' /\ Recoverable(s)' /\ AnswerTrue(s)' /\ Finalizable(s)'
      BY <1>6, <2>1, <3>2, <3>1 DEF SnapCopy, PreAgrees, Settled, Sound, AsBefore,
         GrayDone, OrangeDone, Now, Recoverable, SnapExact, IsSaved, SnapStands,
         Stands, AnswerTrue, Finalizable
    <3>4. ~Alive(s)'
      BY <2>1 DEF Now, Alive
    <3> QED
      BY <3>3, <3>4 DEF Sound
  <2> QED
    BY <1>6, <2>2, <2>3 DEF Onward, SnapCopy
<1>7. ASSUME Begun(s), procs[s].kind = "apply" PROVE Onward(s)
  <2>1. Now(s, procs[s].kind, "create", procs[s].i, procs[s].rc, procs[s].relock, procs[s].out)
    BY <1>7, GotoNow DEF Begun, RTypeOK, Here, Pc
  <2>2. RTypeOK' /\ Moves(s)
    BY <1>7, <2>1, PathsAre DEF Begun, disk, ghost, Now, RTypeOK, Here, Content,
       Rules, Moves, Orderly, Alive
  <2>3. ASSUME taint' = {}, Sound(s) PROVE Sound(s)'
    <3>1. taint = {} /\ Sound(s)
      BY <1>7, <2>3 DEF Begun, Here, disk, ghost
    <3>2. Stands(s) /\ procs[s].kind \in {"apply", "toGray"} /\ txn = "open" /\ AsBefore
      BY <1>7, <3>1 DEF Begun, Sound, Alive, Stands, SnapStands
    <3>3. PreAgrees' /\ Settled' /\ Recoverable(s)' /\ AnswerTrue(s)' /\ Finalizable(s)'
      BY <1>7, <2>1, <3>2, <3>1, OrderIs DEF Begun, disk, ghost, PreAgrees, Settled,
         Sound, AsBefore, GrayDone, OrangeDone, Now, Recoverable, SnapExact,
         IsSaved, SnapStands, Stands, Paths, RTypeOK, Here, Proc, AnswerTrue,
         Orderly, Finalizable
    <3>4. Stands(s)'
      BY <1>7, <2>1, <3>2, <3>1 DEF Begun, disk, ghost, Now, Stands, ApplyStands,
         SnapStands, FinalizeStands, GrayStands, UndoStands
    <3> QED
      BY <3>3, <3>4 DEF Sound
  <2> QED
    BY <1>7, <2>2, <2>3 DEF Onward, Begun, disk, ghost
<1>8. ASSUME Begun(s), procs[s].kind # "apply" PROVE Onward(s)
  <2>1. Now(s, procs[s].kind, "unstage", procs[s].i, procs[s].rc, procs[s].relock, procs[s].out)
    BY <1>8, GotoNow DEF Begun, RTypeOK, Here, Pc
  <2>2. RTypeOK' /\ Moves(s)
    BY <1>8, <2>1, PathsAre DEF Begun, disk, ghost, Now, RTypeOK, Here, Content,
       Rules, Moves, Orderly, Alive
  <2>3. ASSUME taint' = {}, Sound(s) PROVE Sound(s)'
    <3>1. taint = {} /\ Sound(s)
      BY <1>8, <2>3 DEF Begun, Here, disk, ghost
    <3>2. Stands(s) /\ procs[s].kind \in {"apply", "toGray"} /\ txn = "open" /\ AsBefore
      BY <1>8, <3>1 DEF Begun, Sound, Alive, Stands, SnapStands
    <3>3. PreAgrees' /\ Settled' /\ Recoverable(s)' /\ AnswerTrue(s)' /\ Finalizable(s)'
      BY <1>8, <2>1, <3>2, <3>1, OrderIs DEF Begun, disk, ghost, PreAgrees, Settled,
         Sound, AsBefore, GrayDone, OrangeDone, Now, Recoverable, SnapExact,
         IsSaved, SnapStands, Stands, Paths, RTypeOK, Here, Proc, AnswerTrue,
         Orderly, Finalizable
    <3>4. Stands(s)'
      BY <1>8, <2>1, <3>2, <3>1 DEF Begun, disk, ghost, Now, Stands, GrayStands,
         SnapStands, ApplyStands, FinalizeStands, UndoStands
    <3> QED
      BY <3>3, <3>4 DEF Sound
  <2> QED
    BY <1>8, <2>2, <2>3 DEF Onward, Begun, disk, ghost
<1> QED
  BY <1>1, <1>2, <1>3, <1>4, <1>5, <1>6, <1>7, <1>8 DEF Beginning

LEMMA ApplyingStep ==
  ASSUME NEW s \in Slots, Here(s), Applying(s)
  PROVE  Onward(s)
<1> USE DEF At, Running, Snapping, Staging, Graying, Undoing, Restoring
<1>1. ASSUME Create(s) PROVE Onward(s)
  <2>1. Now(s, procs[s].kind, "unlock", procs[s].i, procs[s].rc, procs[s].relock, procs[s].out)
    BY <1>1, GotoNow DEF Create, RTypeOK, Here, Pc
  <2>2. RTypeOK' /\ Moves(s)
    BY <1>1, <2>1, PathsAre DEF Create, Put, ghost, Now, RTypeOK, Here, Content,
       Rules, Moves, Orderly, Alive
  <2>3. ASSUME taint' = {}, Sound(s) PROVE Sound(s)'
    <3>1. taint = {} /\ Sound(s)
      BY <1>1, <2>3 DEF Create, Here, ghost
    <3>2. Stands(s) /\ procs[s].kind = "apply" /\ txn # "none"
      BY <1>1, <3>1 DEF Create, Sound, Alive, Stands, ApplyStands
    <3>3. PreAgrees' /\ Settled' /\ Recoverable(s)' /\ AnswerTrue(s)' /\ Finalizable(s)'
      BY <1>1, <2>1, <3>2, PathsAre, <3>1 DEF Create, Put, ghost, PreAgrees,
         Settled, Sound, Now, Recoverable, SnapExact, IsSaved, AnswerTrue, Here,
         Orderly, Finalizable
    <3>4. Stands(s)'
      BY <1>1, <2>1, <3>2, PathsAre, <3>1 DEF Create, Put, ghost, Now, Stands, Here,
         RTypeOK, ApplyStands, SnapStands, FinalizeStands, GrayStands, UndoStands
    <3> QED
      BY <3>3, <3>4 DEF Sound
  <2> QED
    BY <1>1, <2>2, <2>3 DEF Onward, Create, ghost
<1>2. ASSUME Unlock(s) PROVE Onward(s)
  <2>1. Now(s, procs[s].kind, "fetch", procs[s].i, procs[s].rc, procs[s].relock, procs[s].out)
    BY <1>2, GotoNow DEF Unlock, RTypeOK, Here, Pc
  <2>2. RTypeOK' /\ Moves(s)
    BY <1>2, <2>1, PathsAre DEF Unlock, RemoveRules, Put, ghost, Now, RTypeOK, Here,
       Content, Rules, Moves, Orderly, Alive
  <2>3. ASSUME taint' = {}, Sound(s) PROVE Sound(s)'
    <3>1. taint = {} /\ Sound(s)
      BY <1>2, <2>3 DEF Unlock, Here, ghost
    <3>2. Stands(s) /\ procs[s].kind = "apply" /\ txn # "none"
      BY <1>2, <3>1 DEF Unlock, Sound, Alive, Stands, ApplyStands
    <3>3. PreAgrees' /\ Settled' /\ Recoverable(s)' /\ AnswerTrue(s)' /\ Finalizable(s)'
      BY <1>2, <2>1, <3>2, PathsAre, <3>1 DEF Unlock, RemoveRules, Put, ghost,
         PreAgrees, Settled, Sound, Now, Recoverable, SnapExact, IsSaved,
         AnswerTrue, Here, Orderly, Finalizable
    <3>4. Stands(s)'
      BY <1>2, <2>1, <3>2, PathsAre, <3>1 DEF Unlock, RemoveRules, Put, ghost, Now,
         Stands, Here, RTypeOK, ApplyStands, SnapStands, FinalizeStands, GrayStands,
         UndoStands
    <3> QED
      BY <3>3, <3>4 DEF Sound
  <2> QED
    BY <1>2, <2>2, <2>3 DEF Onward, Unlock, ghost
<1>3. ASSUME Fetch(s) PROVE Onward(s)
  <2>1. Now(s, procs[s].kind, "lock", procs[s].i, procs[s].rc, procs[s].relock, procs[s].out)
    BY <1>3, GotoNow DEF Fetch, RTypeOK, Here, Pc
  <2>2. RTypeOK' /\ Moves(s)
    BY <1>3, <2>1, PathsAre DEF Fetch, Put, ghost, Now, RTypeOK, Here, Content,
       Rules, Moves, Orderly, Alive
  <2>3. ASSUME taint' = {}, Sound(s) PROVE Sound(s)'
    <3>1. taint = {} /\ Sound(s)
      BY <1>3, <2>3 DEF Fetch, Here, ghost
    <3>2. Stands(s) /\ procs[s].kind = "apply" /\ txn # "none"
      BY <1>3, <3>1 DEF Fetch, Sound, Alive, Stands, ApplyStands
    <3>3. PreAgrees' /\ Settled' /\ Recoverable(s)' /\ AnswerTrue(s)' /\ Finalizable(s)'
      BY <1>3, <2>1, <3>2, PathsAre, <3>1 DEF Fetch, Put, ghost, PreAgrees, Settled,
         Sound, Now, Recoverable, SnapExact, IsSaved, AnswerTrue, Here, Orderly,
         Finalizable
    <3>4. Stands(s)'
      BY <1>3, <2>1, <3>2, PathsAre, <3>1 DEF Fetch, Put, ghost, Now, Stands, Here,
         RTypeOK, ApplyStands, SnapStands, FinalizeStands, GrayStands, UndoStands
    <3> QED
      BY <3>3, <3>4 DEF Sound
  <2> QED
    BY <1>3, <2>2, <2>3 DEF Onward, Fetch, ghost
<1>4. ASSUME FetchRefused(s) PROVE Onward(s)
  <2>1. Now(s, procs[s].kind, "undo", procs[s].i, procs[s].rc, procs[s].relock, procs[s].out)
    BY <1>4, GotoNow DEF FetchRefused, RTypeOK, Here, Pc
  <2>2. RTypeOK' /\ Moves(s)
    BY <1>4, <2>1, PathsAre DEF FetchRefused, disk, ghost, Now, RTypeOK, Here,
       Content, Rules, Moves, Orderly, Alive
  <2>3. ASSUME taint' = {}, Sound(s) PROVE Sound(s)'
    <3>1. taint = {} /\ Sound(s)
      BY <1>4, <2>3 DEF FetchRefused, Here, disk, ghost
    <3>2. Stands(s) /\ procs[s].kind = "apply" /\ txn # "none"
      BY <1>4, <3>1 DEF FetchRefused, Sound, Alive, Stands, ApplyStands
    <3>3. PreAgrees' /\ Settled' /\ Recoverable(s)' /\ AnswerTrue(s)' /\ Finalizable(s)'
      BY <1>4, <2>1, <3>2, <3>1 DEF FetchRefused, disk, ghost, PreAgrees, Settled,
         Sound, AsBefore, GrayDone, OrangeDone, Now, Recoverable, SnapExact,
         IsSaved, AnswerTrue, Here, Orderly, Finalizable
    <3>4. Stands(s)'
      BY <1>4, <2>1, <3>2, <3>1 DEF FetchRefused, disk, ghost, Now, Stands,
         UndoStands, SnapStands, ApplyStands, FinalizeStands, GrayStands
    <3> QED
      BY <3>3, <3>4 DEF Sound
  <2> QED
    BY <1>4, <2>2, <2>3 DEF Onward, FetchRefused, disk, ghost
<1>5. ASSUME Lock(s) PROVE Onward(s)
  <2>1. Now(s, procs[s].kind, "stage", procs[s].i, procs[s].rc, procs[s].relock, procs[s].out)
    BY <1>5, GotoNow DEF Lock, RTypeOK, Here, Pc
  <2>2. RTypeOK' /\ Moves(s)
    BY <1>5, <2>1, PathsAre DEF Lock, ApplyRules, Lockable, Put, ghost, Now,
       RTypeOK, Here, Content, Rules, Moves, Orderly, Alive
  <2>3. ASSUME taint' = {}, Sound(s) PROVE Sound(s)'
    <3>1. taint = {} /\ Sound(s)
      BY <1>5, <2>3 DEF Lock, Here, ghost
    <3>2. Stands(s) /\ procs[s].kind = "apply" /\ txn # "none"
      BY <1>5, <3>1 DEF Lock, Sound, Alive, Stands, ApplyStands
    <3>3. PreAgrees' /\ Settled' /\ Recoverable(s)' /\ AnswerTrue(s)' /\ Finalizable(s)'
      BY <1>5, <2>1, <3>2, PathsAre, <3>1 DEF Lock, ApplyRules, Lockable, Put,
         ghost, PreAgrees, Settled, Sound, Now, Recoverable, SnapExact, IsSaved,
         AnswerTrue, Here, Orderly, Finalizable
    <3>4. Stands(s)'
      BY <1>5, <2>1, <3>2, PathsAre, <3>1 DEF Lock, ApplyRules, Lockable, Put,
         ghost, Now, Stands, Here, RTypeOK, ApplyStands, SnapStands, FinalizeStands,
         GrayStands, UndoStands
    <3> QED
      BY <3>3, <3>4 DEF Sound
  <2> QED
    BY <1>5, <2>2, <2>3 DEF Onward, Lock, ghost
<1>6. ASSUME LockRefused(s) PROVE Onward(s)
  <2>1. Now(s, procs[s].kind, "undo", procs[s].i, procs[s].rc, procs[s].relock, procs[s].out)
    BY <1>6, GotoNow DEF LockRefused, RTypeOK, Here, Pc
  <2>2. RTypeOK' /\ Moves(s)
    BY <1>6, <2>1, PathsAre DEF LockRefused, Lockable, disk, ghost, Now, RTypeOK,
       Here, Content, Rules, Moves, Orderly, Alive
  <2>3. ASSUME taint' = {}, Sound(s) PROVE Sound(s)'
    <3>1. taint = {} /\ Sound(s)
      BY <1>6, <2>3 DEF LockRefused, Here, disk, ghost
    <3>2. Stands(s) /\ procs[s].kind = "apply" /\ txn # "none"
      BY <1>6, <3>1 DEF LockRefused, Sound, Alive, Stands, ApplyStands
    <3>3. PreAgrees' /\ Settled' /\ Recoverable(s)' /\ AnswerTrue(s)' /\ Finalizable(s)'
      BY <1>6, <2>1, <3>2, <3>1 DEF LockRefused, Lockable, disk, ghost, PreAgrees,
         Settled, Sound, AsBefore, GrayDone, OrangeDone, Now, Recoverable,
         SnapExact, IsSaved, AnswerTrue, Here, Orderly, Finalizable
    <3>4. Stands(s)'
      BY <1>6, <2>1, <3>2, <3>1 DEF LockRefused, Lockable, disk, ghost, Now, Stands,
         UndoStands, SnapStands, ApplyStands, FinalizeStands, GrayStands
    <3> QED
      BY <3>3, <3>4 DEF Sound
  <2> QED
    BY <1>6, <2>2, <2>3 DEF Onward, LockRefused, disk, ghost
<1>7. ASSUME Stage(s) PROVE Onward(s)
  <2>1. Now(s, procs[s].kind, "edge", procs[s].i, procs[s].rc, procs[s].relock, procs[s].out)
    BY <1>7, GotoNow DEF Stage, RTypeOK, Here, Pc
  <2>2. RTypeOK' /\ Moves(s)
    BY <1>7, <2>1, PathsAre DEF Stage, Put, ghost, Now, RTypeOK, Here, Content,
       Rules, Moves, Orderly, Alive
  <2>3. ASSUME taint' = {}, Sound(s) PROVE Sound(s)'
    <3>1. taint = {} /\ Sound(s)
      BY <1>7, <2>3 DEF Stage, Here, ghost
    <3>2. Stands(s) /\ procs[s].kind = "apply" /\ txn # "none"
      BY <1>7, <3>1 DEF Stage, Sound, Alive, Stands, ApplyStands
    <3>3. PreAgrees' /\ Settled' /\ Recoverable(s)' /\ AnswerTrue(s)' /\ Finalizable(s)'
      BY <1>7, <2>1, <3>2, PathsAre, <3>1 DEF Stage, Put, ghost, PreAgrees, Settled,
         Sound, Now, Recoverable, SnapExact, IsSaved, AnswerTrue, Here, Orderly,
         Finalizable
    <3>4. Stands(s)'
      BY <1>7, <2>1, <3>2, PathsAre, <3>1 DEF Stage, Put, ghost, Now, Stands, Here,
         RTypeOK, ApplyStands, SnapStands, FinalizeStands, GrayStands, UndoStands
    <3> QED
      BY <3>3, <3>4 DEF Sound
  <2> QED
    BY <1>7, <2>2, <2>3 DEF Onward, Stage, ghost
<1>8. ASSUME Edge(s) PROVE Onward(s)
  <2>1. Now(s, procs[s].kind, "meta", procs[s].i, procs[s].rc, procs[s].relock, procs[s].out)
    BY <1>8, GotoNow DEF Edge, RTypeOK, Here, Pc
  <2>2. RTypeOK' /\ Moves(s)
    BY <1>8, <2>1, PathsAre DEF Edge, ghost, Now, RTypeOK, Here, Content, Rules,
       Moves, Orderly, Alive
  <2>3. ASSUME taint' = {}, Sound(s) PROVE Sound(s)'
    <3>1. taint = {} /\ Sound(s)
      BY <1>8, <2>3 DEF Edge, Here, ghost
    <3>2. Stands(s) /\ procs[s].kind = "apply" /\ txn # "none"
      BY <1>8, <3>1 DEF Edge, Sound, Alive, Stands, ApplyStands
    <3>3. PreAgrees' /\ Settled' /\ Recoverable(s)' /\ AnswerTrue(s)' /\ Finalizable(s)'
      BY <1>8, <2>1, <3>2, PathsAre, <3>1 DEF Edge, ghost, PreAgrees, Settled,
         Sound, Now, Recoverable, SnapExact, IsSaved, AnswerTrue, Here, Orderly,
         Finalizable
    <3>4. Stands(s)'
      BY <1>8, <2>1, <3>2, PathsAre, <3>1 DEF Edge, ghost, Now, Stands, Here,
         RTypeOK, ApplyStands, SnapStands, FinalizeStands, GrayStands, UndoStands
    <3> QED
      BY <3>3, <3>4 DEF Sound
  <2> QED
    BY <1>8, <2>2, <2>3 DEF Onward, Edge, ghost
<1>9. ASSUME Staged(s) PROVE Onward(s)
  <2>1. Now(s, procs[s].kind, "exited", 1, "ok", "no", "STAGED")
    BY <1>9, ExitNow DEF Staged, RTypeOK, Here, Outs
  <2>2. RTypeOK' /\ Moves(s)
    BY <1>9, <2>1, PathsAre DEF Staged, ghost, Now, RTypeOK, Here, Content, Rules,
       Moves, Orderly, Alive
  <2>3. ASSUME taint' = {}, Sound(s) PROVE Sound(s)'
    <3>1. taint = {} /\ Sound(s)
      BY <1>9, <2>3 DEF Staged, Here, ghost
    <3>2. Stands(s) /\ procs[s].kind = "apply" /\ txn # "none"
      BY <1>9, <3>1 DEF Staged, Sound, Alive, Stands, ApplyStands
    <3>3. PreAgrees' /\ Settled' /\ Recoverable(s)' /\ AnswerTrue(s)' /\ Finalizable(s)'
      BY <1>9, <2>1, <3>2, <3>1 DEF Staged, ghost, PreAgrees, Settled, Sound,
         AsBefore, GrayDone, OrangeDone, Now, Recoverable, SnapExact, IsSaved,
         AnswerTrue, ApplyStands, Stands, StagedNode, Finalizable
    <3>4. ~Alive(s)'
      BY <2>1 DEF Now, Alive
    <3> QED
      BY <3>3, <3>4 DEF Sound
  <2> QED
    BY <1>9, <2>2, <2>3 DEF Onward, Staged, ghost
<1>10. ASSUME StagedNowhere(s) PROVE Onward(s)
  <2>1. Now(s, procs[s].kind, "undo", procs[s].i, procs[s].rc, procs[s].relock, procs[s].out)
    BY <1>10, GotoNow DEF StagedNowhere, RTypeOK, Here, Pc
  <2>2. RTypeOK' /\ Moves(s)
    BY <1>10, <2>1, PathsAre DEF StagedNowhere, disk, ghost, Now, RTypeOK, Here,
       Content, Rules, Moves, Orderly, Alive
  <2>3. ASSUME taint' = {}, Sound(s) PROVE Sound(s)'
    <3>1. taint = {} /\ Sound(s)
      BY <1>10, <2>3 DEF StagedNowhere, Here, disk, ghost
    <3>2. FALSE
      BY <1>10, <3>1 DEF StagedNowhere, Sound, Alive, Stands, ApplyStands
    <3> QED
      BY <3>2
  <2> QED
    BY <1>10, <2>2, <2>3 DEF Onward, StagedNowhere, disk, ghost
<1> QED
  BY <1>1, <1>2, <1>3, <1>4, <1>5, <1>6, <1>7, <1>8, <1>9, <1>10 DEF Applying

LEMMA FinalizingStep ==
  ASSUME NEW s \in Slots, Here(s), Finalizing(s)
  PROVE  Onward(s)
<1> USE DEF At, Running, Snapping, Staging, Graying, Undoing, Restoring
<1>1. ASSUME FinalizeRefused(s) PROVE Onward(s)
  <2>1. Now(s, procs[s].kind, "exited", 1, "ok", "no", "ERROR")
    BY <1>1, ExitNow DEF FinalizeRefused, RTypeOK, Here, Outs
  <2>2. RTypeOK' /\ Moves(s)
    BY <1>1, <2>1, PathsAre DEF FinalizeRefused, MayFinalize, disk, ghost, Now,
       RTypeOK, Here, Content, Rules, Moves, Orderly, Alive
  <2>3. ASSUME taint' = {}, Sound(s) PROVE Sound(s)'
    <3>1. taint = {} /\ Sound(s)
      BY <1>1, <2>3 DEF FinalizeRefused, Here, disk, ghost
    <3>2. Stands(s) /\ procs[s].kind = "finalize"
      BY <1>1, <3>1 DEF FinalizeRefused, Sound, Alive, Stands
    <3>3. PreAgrees' /\ Settled' /\ Recoverable(s)' /\ AnswerTrue(s)' /\ Finalizable(s)'
      BY <1>1, <2>1, <3>2, <3>1 DEF FinalizeRefused, MayFinalize, disk, ghost,
         PreAgrees, Settled, Sound, AsBefore, GrayDone, OrangeDone, Now,
         Recoverable, SnapExact, IsSaved, AnswerTrue, Finalizable, StagedNode
    <3>4. ~Alive(s)'
      BY <2>1 DEF Now, Alive
    <3> QED
      BY <3>3, <3>4 DEF Sound
  <2> QED
    BY <1>1, <2>2, <2>3 DEF Onward, FinalizeRefused, disk, ghost
<1>2. ASSUME FinalizeStarts(s) PROVE Onward(s)
  <2>1. Now(s, procs[s].kind, "deleteReality", procs[s].i, procs[s].rc, procs[s].relock, procs[s].out)
    BY <1>2, GotoNow DEF FinalizeStarts, RTypeOK, Here, Pc
  <2>2. RTypeOK' /\ Moves(s)
    BY <1>2, <2>1, PathsAre DEF FinalizeStarts, MayFinalize, disk, ghost, Now,
       RTypeOK, Here, Content, Rules, Moves, Orderly, Alive
  <2>3. ASSUME taint' = {}, Sound(s) PROVE Sound(s)'
    <3>1. taint = {} /\ Sound(s)
      BY <1>2, <2>3 DEF FinalizeStarts, Here, disk, ghost
    <3>2. Stands(s) /\ procs[s].kind = "finalize" /\ FinalNode
      BY <1>2, <3>1 DEF FinalizeStarts, Sound, Alive, Stands, FinalizeStands,
         MayFinalize, FinalNode
    <3>3. PreAgrees' /\ Settled' /\ Recoverable(s)' /\ AnswerTrue(s)' /\ Finalizable(s)'
      BY <1>2, <2>1, <3>2, <3>1 DEF FinalizeStarts, MayFinalize, disk, ghost,
         PreAgrees, Settled, Sound, AsBefore, GrayDone, OrangeDone, FinalNode, Now,
         Recoverable, SnapExact, IsSaved, AnswerTrue, Here, Orderly, Finalizable,
         StagedNode
    <3>4. Stands(s)'
      BY <1>2, <2>1, <3>2, <3>1 DEF FinalizeStarts, MayFinalize, disk, ghost, Now,
         Stands, FinalizeStands, FinalNode, StagedNode, SnapStands, ApplyStands,
         GrayStands, UndoStands
    <3> QED
      BY <3>3, <3>4 DEF Sound
  <2> QED
    BY <1>2, <2>2, <2>3 DEF Onward, FinalizeStarts, disk, ghost
<1>3. ASSUME DeleteReality(s) PROVE Onward(s)
  <2>1. Now(s, procs[s].kind, "commitState", procs[s].i, procs[s].rc, procs[s].relock, procs[s].out)
    BY <1>3, GotoNow DEF DeleteReality, RTypeOK, Here, Pc
  <2>2. RTypeOK' /\ Moves(s)
    BY <1>3, <2>1, PathsAre DEF DeleteReality, Put, ghost, Now, RTypeOK, Here,
       Content, Rules, Moves, Orderly, Alive
  <2>3. ASSUME taint' = {}, Sound(s) PROVE Sound(s)'
    <3>1. taint = {} /\ Sound(s)
      BY <1>3, <2>3 DEF DeleteReality, Here, ghost
    <3>2. Stands(s) /\ procs[s].kind = "finalize" /\ FinalNode
      BY <1>3, <3>1 DEF DeleteReality, Sound, Alive, Stands, FinalizeStands
    <3>3. PreAgrees' /\ Settled' /\ Recoverable(s)' /\ AnswerTrue(s)' /\ Finalizable(s)'
      BY <1>3, <2>1, <3>2, PathsAre, <3>1 DEF DeleteReality, Put, ghost, PreAgrees,
         Settled, Sound, FinalNode, Now, Recoverable, SnapExact, IsSaved,
         AnswerTrue, Here, Orderly, Finalizable, StagedNode
    <3>4. Stands(s)'
      BY <1>3, <2>1, <3>2, PathsAre, <3>1 DEF DeleteReality, Put, ghost, Now,
         Stands, Here, RTypeOK, FinalizeStands, FinalNode, StagedNode, SnapStands,
         ApplyStands, GrayStands, UndoStands
    <3> QED
      BY <3>3, <3>4 DEF Sound
  <2> QED
    BY <1>3, <2>2, <2>3 DEF Onward, DeleteReality, ghost
<1>4. ASSUME CommitState(s) PROVE Onward(s)
  <2>1. Now(s, procs[s].kind, "commitTopology", procs[s].i, procs[s].rc, procs[s].relock, procs[s].out)
    BY <1>4, GotoNow DEF CommitState, RTypeOK, Here, Pc
  <2>2. RTypeOK' /\ Moves(s)
    BY <1>4, <2>1, PathsAre DEF CommitState, Put, ghost, Now, RTypeOK, Here,
       Content, Rules, Moves, Orderly, Alive
  <2>3. ASSUME taint' = {}, Sound(s) PROVE Sound(s)'
    <3>1. taint = {} /\ Sound(s)
      BY <1>4, <2>3 DEF CommitState, Here, ghost
    <3>2. Stands(s) /\ procs[s].kind = "finalize" /\ FinalNode
      BY <1>4, <3>1 DEF CommitState, Sound, Alive, Stands, FinalizeStands
    <3>3. PreAgrees' /\ Settled' /\ Recoverable(s)' /\ AnswerTrue(s)' /\ Finalizable(s)'
      BY <1>4, <2>1, <3>2, PathsAre, <3>1 DEF CommitState, Put, ghost, PreAgrees,
         Settled, Sound, FinalNode, Now, Recoverable, SnapExact, IsSaved,
         AnswerTrue, Here, Orderly, Finalizable, StagedNode
    <3>4. Stands(s)'
      BY <1>4, <2>1, <3>2, PathsAre, <3>1 DEF CommitState, Put, ghost, Now, Stands,
         Here, RTypeOK, FinalizeStands, FinalNode, StagedNode, GrayStands,
         SnapStands, ApplyStands, UndoStands
    <3> QED
      BY <3>3, <3>4 DEF Sound
  <2> QED
    BY <1>4, <2>2, <2>3 DEF Onward, CommitState, ghost
<1>5. ASSUME CommitTopology(s), procs[s].kind = "finalize" PROVE Onward(s)
  <2>1. Now(s, procs[s].kind, "wipe", procs[s].i, procs[s].rc, procs[s].relock, procs[s].out)
    BY <1>5, GotoNow DEF CommitTopology, RTypeOK, Here, Pc
  <2>2. RTypeOK' /\ Moves(s)
    BY <1>5, <2>1, PathsAre DEF CommitTopology, Put, ghost, Now, RTypeOK, Here,
       Content, Rules, Moves, Orderly, Alive
  <2>3. ASSUME taint' = {}, Sound(s) PROVE Sound(s)'
    <3>1. taint = {} /\ Sound(s)
      BY <1>5, <2>3 DEF CommitTopology, Here, ghost
    <3>2. Stands(s) /\ procs[s].kind = "finalize" /\ FinalNode
      BY <1>5, <3>1 DEF CommitTopology, Sound, Alive, Stands, FinalizeStands
    <3>3. PreAgrees' /\ Settled' /\ Recoverable(s)' /\ AnswerTrue(s)' /\ Finalizable(s)'
      BY <1>5, <2>1, <3>2, PathsAre, <3>1 DEF CommitTopology, Put, ghost, PreAgrees,
         Settled, Sound, FinalNode, Now, Recoverable, SnapExact, IsSaved,
         AnswerTrue, Here, Orderly, Finalizable, StagedNode
    <3>4. FinalizeStands(s)'
      BY <1>5, <2>1, <3>2, PathsAre, <3>1, <2>2, OrangeIs DEF CommitTopology, Put,
         ghost, Now, Stands, Here, RTypeOK, FinalizeStands, FinalNode, StagedNode,
         OrangeDone
    <3>5. GrayStands(s)'
      BY <1>5, <2>1, <3>2, PathsAre, <3>1, <2>2, GrayIs DEF CommitTopology, Put,
         ghost, Now, Stands, Here, RTypeOK, GrayStands, GrayDone
    <3>6. SnapStands(s)' /\ ApplyStands(s)' /\ UndoStands(s)'
      BY <2>1, <3>2 DEF Now, SnapStands, ApplyStands, UndoStands
    <3> QED
      BY <3>3, <3>4, <3>5, <3>6 DEF Sound, Stands
  <2> QED
    BY <1>5, <2>2, <2>3 DEF Onward, CommitTopology, ghost
<1>6. ASSUME CommitTopology(s), procs[s].kind # "finalize" PROVE Onward(s)
  <2>1. Now(s, procs[s].kind, "wipe", procs[s].i, procs[s].rc, procs[s].relock, procs[s].out)
    BY <1>6, GotoNow DEF CommitTopology, RTypeOK, Here, Pc
  <2>2. RTypeOK' /\ Moves(s)
    BY <1>6, <2>1, PathsAre DEF CommitTopology, Put, ghost, Now, RTypeOK, Here,
       Content, Rules, Moves, Orderly, Alive
  <2>3. ASSUME taint' = {}, Sound(s) PROVE Sound(s)'
    <3>1. taint = {} /\ Sound(s)
      BY <1>6, <2>3 DEF CommitTopology, Here, ghost
    <3>2. Stands(s) /\ procs[s].kind = "toGray" /\ txn # "none"
      BY <1>6, <3>1 DEF CommitTopology, Sound, Alive, Stands, FinalizeStands,
         GrayStands
    <3>3. PreAgrees' /\ Settled' /\ Recoverable(s)' /\ AnswerTrue(s)' /\ Finalizable(s)'
      BY <1>6, <2>1, <3>2, PathsAre, <3>1 DEF CommitTopology, Put, ghost, PreAgrees,
         Settled, Sound, FinalNode, Now, Recoverable, SnapExact, IsSaved,
         AnswerTrue, Here, Orderly, Finalizable, StagedNode
    <3>4. FinalizeStands(s)'
      BY <1>6, <2>1, <3>2, PathsAre, <3>1, <2>2, OrangeIs DEF CommitTopology, Put,
         ghost, Now, Stands, Here, RTypeOK, FinalizeStands, FinalNode, StagedNode,
         OrangeDone
    <3>5. GrayStands(s)'
      BY <1>6, <2>1, <3>2, PathsAre, <3>1, <2>2, GrayIs DEF CommitTopology, Put,
         ghost, Now, Stands, Here, RTypeOK, GrayStands, GrayDone
    <3>6. SnapStands(s)' /\ ApplyStands(s)' /\ UndoStands(s)'
      BY <2>1, <3>2 DEF Now, SnapStands, ApplyStands, UndoStands
    <3> QED
      BY <3>3, <3>4, <3>5, <3>6 DEF Sound, Stands
  <2> QED
    BY <1>6, <2>2, <2>3 DEF Onward, CommitTopology, ghost
<1> QED
  BY <1>1, <1>2, <1>3, <1>4, <1>5, <1>6 DEF Finalizing

LEMMA GoingGrayStep ==
  ASSUME NEW s \in Slots, Here(s), GoingGray(s)
  PROVE  Onward(s)
<1> USE DEF At, Running, Snapping, Staging, Graying, Undoing, Restoring
<1>1. ASSUME Unstage(s) PROVE Onward(s)
  <2>1. Now(s, procs[s].kind, "grayLock", procs[s].i, procs[s].rc, procs[s].relock, procs[s].out)
    BY <1>1, GotoNow DEF Unstage, RTypeOK, Here, Pc
  <2>2. RTypeOK' /\ Moves(s)
    BY <1>1, <2>1, PathsAre DEF Unstage, Put, ghost, Now, RTypeOK, Here, Content,
       Rules, Moves, Orderly, Alive
  <2>3. ASSUME taint' = {}, Sound(s) PROVE Sound(s)'
    <3>1. taint = {} /\ Sound(s)
      BY <1>1, <2>3 DEF Unstage, Here, ghost
    <3>2. Stands(s) /\ procs[s].kind = "toGray" /\ txn # "none"
      BY <1>1, <3>1 DEF Unstage, Sound, Alive, Stands, GrayStands
    <3>3. PreAgrees' /\ Settled' /\ Recoverable(s)' /\ AnswerTrue(s)' /\ Finalizable(s)'
      BY <1>1, <2>1, <3>2, PathsAre, <3>1 DEF Unstage, Put, ghost, PreAgrees,
         Settled, Sound, Now, Recoverable, SnapExact, IsSaved, AnswerTrue, Here,
         Orderly, Finalizable
    <3>4. Stands(s)'
      BY <1>1, <2>1, <3>2, PathsAre, <3>1 DEF Unstage, Put, ghost, Now, Stands,
         Here, RTypeOK, GrayStands, SnapStands, ApplyStands, FinalizeStands,
         UndoStands
    <3> QED
      BY <3>3, <3>4 DEF Sound
  <2> QED
    BY <1>1, <2>2, <2>3 DEF Onward, Unstage, ghost
<1>2. ASSUME GrayLock(s) PROVE Onward(s)
  <2>1. Now(s, procs[s].kind, "delete", procs[s].i, procs[s].rc, procs[s].relock, procs[s].out)
    BY <1>2, GotoNow DEF GrayLock, RTypeOK, Here, Pc
  <2>2. RTypeOK' /\ Moves(s)
    BY <1>2, <2>1, PathsAre DEF GrayLock, RemoveRules, Put, ghost, Now, RTypeOK,
       Here, Content, Rules, Moves, Orderly, Alive
  <2>3. ASSUME taint' = {}, Sound(s) PROVE Sound(s)'
    <3>1. taint = {} /\ Sound(s)
      BY <1>2, <2>3 DEF GrayLock, Here, ghost
    <3>2. Stands(s) /\ procs[s].kind = "toGray" /\ txn # "none"
      BY <1>2, <3>1 DEF GrayLock, Sound, Alive, Stands, GrayStands
    <3>3. PreAgrees' /\ Settled' /\ Recoverable(s)' /\ AnswerTrue(s)' /\ Finalizable(s)'
      BY <1>2, <2>1, <3>2, PathsAre, <3>1 DEF GrayLock, RemoveRules, Put, ghost,
         PreAgrees, Settled, Sound, Now, Recoverable, SnapExact, IsSaved,
         AnswerTrue, Here, Orderly, Finalizable
    <3>4. Stands(s)'
      BY <1>2, <2>1, <3>2, PathsAre, <3>1 DEF GrayLock, RemoveRules, Put, ghost,
         Now, Stands, Here, RTypeOK, GrayStands, SnapStands, ApplyStands,
         FinalizeStands, UndoStands
    <3> QED
      BY <3>3, <3>4 DEF Sound
  <2> QED
    BY <1>2, <2>2, <2>3 DEF Onward, GrayLock, ghost
<1>3. ASSUME DeleteXhttp(s) PROVE Onward(s)
  <2>1. Now(s, procs[s].kind, "grayState", procs[s].i, procs[s].rc, procs[s].relock, procs[s].out)
    BY <1>3, GotoNow DEF DeleteXhttp, RTypeOK, Here, Pc
  <2>2. RTypeOK' /\ Moves(s)
    BY <1>3, <2>1, PathsAre DEF DeleteXhttp, ghost, Now, RTypeOK, Here, Content,
       Rules, Moves, Orderly, Alive
  <2>3. ASSUME taint' = {}, Sound(s) PROVE Sound(s)'
    <3>1. taint = {} /\ Sound(s)
      BY <1>3, <2>3 DEF DeleteXhttp, Here, ghost
    <3>2. Stands(s) /\ procs[s].kind = "toGray" /\ txn # "none"
      BY <1>3, <3>1 DEF DeleteXhttp, Sound, Alive, Stands, GrayStands
    <3>3. PreAgrees' /\ Settled' /\ Recoverable(s)' /\ AnswerTrue(s)' /\ Finalizable(s)'
      BY <1>3, <2>1, <3>2, PathsAre, <3>1 DEF DeleteXhttp, ghost, PreAgrees,
         Settled, Sound, Now, Recoverable, SnapExact, IsSaved, AnswerTrue, Here,
         Orderly, Finalizable
    <3>4. Stands(s)'
      BY <1>3, <2>1, <3>2, PathsAre, <3>1 DEF DeleteXhttp, ghost, Now, Stands, Here,
         RTypeOK, GrayStands, SnapStands, ApplyStands, FinalizeStands, UndoStands
    <3> QED
      BY <3>3, <3>4 DEF Sound
  <2> QED
    BY <1>3, <2>2, <2>3 DEF Onward, DeleteXhttp, ghost
<1>4. ASSUME GrayState(s) PROVE Onward(s)
  <2>1. Now(s, procs[s].kind, "commitTopology", procs[s].i, procs[s].rc, procs[s].relock, procs[s].out)
    BY <1>4, GotoNow DEF GrayState, RTypeOK, Here, Pc
  <2>2. RTypeOK' /\ Moves(s)
    BY <1>4, <2>1, PathsAre DEF GrayState, Put, ghost, Now, RTypeOK, Here, Content,
       Rules, Moves, Orderly, Alive
  <2>3. ASSUME taint' = {}, Sound(s) PROVE Sound(s)'
    <3>1. taint = {} /\ Sound(s)
      BY <1>4, <2>3 DEF GrayState, Here, ghost
    <3>2. Stands(s) /\ procs[s].kind = "toGray" /\ txn # "none"
      BY <1>4, <3>1 DEF GrayState, Sound, Alive, Stands, GrayStands
    <3>3. PreAgrees' /\ Settled' /\ Recoverable(s)' /\ AnswerTrue(s)' /\ Finalizable(s)'
      BY <1>4, <2>1, <3>2, PathsAre, <3>1 DEF GrayState, Put, ghost, PreAgrees,
         Settled, Sound, Now, Recoverable, SnapExact, IsSaved, AnswerTrue, Here,
         Orderly, Finalizable
    <3>4. Stands(s)'
      BY <1>4, <2>1, <3>2, PathsAre, <3>1 DEF GrayState, Put, ghost, Now, Stands,
         Here, RTypeOK, FinalizeStands, GrayStands, SnapStands, ApplyStands,
         UndoStands
    <3> QED
      BY <3>3, <3>4 DEF Sound
  <2> QED
    BY <1>4, <2>2, <2>3 DEF Onward, GrayState, ghost
<1> QED
  BY <1>1, <1>2, <1>3, <1>4 DEF GoingGray

LEMMA RollingBackStep ==
  ASSUME NEW s \in Slots, Here(s), RollingBack(s)
  PROVE  Onward(s)
<1> USE DEF At, Running, Snapping, Staging, Graying, Undoing, Restoring
<1>1. ASSUME RollbackCalled(s) PROVE Onward(s)
  <2>1. Now(s, procs[s].kind, "undo", procs[s].i, procs[s].rc, procs[s].relock, procs[s].out)
    BY <1>1, GotoNow DEF RollbackCalled, RTypeOK, Here, Pc
  <2>2. RTypeOK' /\ Moves(s)
    BY <1>1, <2>1, PathsAre DEF RollbackCalled, disk, ghost, Now, RTypeOK, Here,
       Content, Rules, Moves, Orderly, Alive
  <2>3. ASSUME taint' = {}, Sound(s) PROVE Sound(s)'
    <3>1. taint = {} /\ Sound(s)
      BY <1>1, <2>3 DEF RollbackCalled, Here, disk, ghost
    <3>2. Stands(s) /\ procs[s].kind = "rollback"
      BY <1>1, <3>1 DEF RollbackCalled, Sound, Alive, Stands
    <3>3. PreAgrees' /\ Settled' /\ Recoverable(s)' /\ AnswerTrue(s)' /\ Finalizable(s)'
      BY <1>1, <2>1, <3>2, <3>1 DEF RollbackCalled, disk, ghost, PreAgrees, Settled,
         Sound, AsBefore, GrayDone, OrangeDone, Now, Recoverable, SnapExact,
         IsSaved, AnswerTrue, Here, Orderly, Finalizable
    <3>4. Stands(s)'
      BY <1>1, <2>1, <3>2, <3>1 DEF RollbackCalled, disk, ghost, Now, Stands,
         UndoStands, SnapStands, ApplyStands, FinalizeStands, GrayStands
    <3> QED
      BY <3>3, <3>4 DEF Sound
  <2> QED
    BY <1>1, <2>2, <2>3 DEF Onward, RollbackCalled, disk, ghost
<1>2. ASSUME NothingPending(s), procs[s].kind = "rollback" PROVE Onward(s)
  <2>1. Now(s, procs[s].kind, "exited", 1, "ok", "no", "NOTHING_PENDING")
    BY <1>2, ExitNow DEF NothingPending, RTypeOK, Here, Outs
  <2>2. RTypeOK' /\ Moves(s)
    BY <1>2, <2>1, PathsAre DEF NothingPending, disk, ghost, Now, RTypeOK, Here,
       Content, Rules, Moves, Orderly, Alive
  <2>3. ASSUME taint' = {}, Sound(s) PROVE Sound(s)'
    <3>1. taint = {} /\ Sound(s)
      BY <1>2, <2>3 DEF NothingPending, Here, disk, ghost
    <3>2. Stands(s) /\ procs[s].kind = "rollback"
      BY <1>2, <3>1 DEF NothingPending, Sound, Alive, Stands, UndoStands
    <3>3. PreAgrees' /\ Settled' /\ Recoverable(s)' /\ AnswerTrue(s)' /\ Finalizable(s)'
      BY <1>2, <2>1, <3>2, <3>1 DEF NothingPending, disk, ghost, PreAgrees, Settled,
         Sound, AsBefore, GrayDone, OrangeDone, Now, Recoverable, SnapExact,
         IsSaved, AnswerTrue, Finalizable
    <3>4. ~Alive(s)'
      BY <2>1 DEF Now, Alive
    <3> QED
      BY <3>3, <3>4 DEF Sound
  <2> QED
    BY <1>2, <2>2, <2>3 DEF Onward, NothingPending, disk, ghost
<1>3. ASSUME NothingPending(s), procs[s].kind # "rollback" PROVE Onward(s)
  <2>1. Now(s, procs[s].kind, "exited", 1, "ok", "no", "ERROR")
    BY <1>3, ExitNow DEF NothingPending, RTypeOK, Here, Outs
  <2>2. RTypeOK' /\ Moves(s)
    BY <1>3, <2>1, PathsAre DEF NothingPending, disk, ghost, Now, RTypeOK, Here,
       Content, Rules, Moves, Orderly, Alive
  <2>3. ASSUME taint' = {}, Sound(s) PROVE Sound(s)'
    <3>1. taint = {} /\ Sound(s)
      BY <1>3, <2>3 DEF NothingPending, Here, disk, ghost
    <3>2. FALSE
      BY <1>3, <3>1 DEF NothingPending, Sound, Alive, Stands, UndoStands
    <3> QED
      BY <3>2
  <2> QED
    BY <1>3, <2>2, <2>3 DEF Onward, NothingPending, disk, ghost
<1>4. ASSUME UndoStarts(s), WasLocked PROVE Onward(s)
  <2>1. Now(s, procs[s].kind, "unlockAgain", 1, "ok", "yes", procs[s].out)
    BY <1>4, UndoNow DEF UndoStarts, RTypeOK, Here
  <2>2. RTypeOK' /\ Moves(s)
    BY <1>4, <2>1, PathsAre DEF UndoStarts, WasLocked, disk, ghost, Now, RTypeOK,
       Here, Content, Rules, Moves, Orderly, Alive
  <2>3. ASSUME taint' = {}, Sound(s) PROVE Sound(s)'
    <3>1. taint = {} /\ Sound(s)
      BY <1>4, <2>3 DEF UndoStarts, Here, disk, ghost
    <3>2. Stands(s) /\ procs[s].kind # "finalize" /\ txn # "none"
      BY <1>4, <3>1 DEF UndoStarts, Sound, Alive, Stands, FinalizeStands
    <3>3. PreAgrees' /\ Settled' /\ Recoverable(s)' /\ AnswerTrue(s)' /\ Finalizable(s)'
      BY <1>4, <2>1, <3>2, <3>1 DEF UndoStarts, WasLocked, disk, ghost, PreAgrees,
         Settled, Sound, AsBefore, GrayDone, OrangeDone, Now, Recoverable,
         SnapExact, IsSaved, AnswerTrue, Here, Orderly, Finalizable
    <3>4. Stands(s)'
      BY <1>4, <2>1, <3>2, <3>1, PathsAre DEF UndoStarts, WasLocked, disk, ghost,
         Now, Stands, UndoStands, KnowsLock, Recoverable, SnapExact, IsSaved, Sound,
         SnapStands, ApplyStands, FinalizeStands, GrayStands
    <3> QED
      BY <3>3, <3>4 DEF Sound
  <2> QED
    BY <1>4, <2>2, <2>3 DEF Onward, UndoStarts, disk, ghost
<1>5. ASSUME UndoStarts(s), ~WasLocked PROVE Onward(s)
  <2>1. Now(s, procs[s].kind, "unlockAgain", 1, "ok", "no", procs[s].out)
    BY <1>5, UndoNow DEF UndoStarts, RTypeOK, Here
  <2>2. RTypeOK' /\ Moves(s)
    BY <1>5, <2>1, PathsAre DEF UndoStarts, WasLocked, disk, ghost, Now, RTypeOK,
       Here, Content, Rules, Moves, Orderly, Alive
  <2>3. ASSUME taint' = {}, Sound(s) PROVE Sound(s)'
    <3>1. taint = {} /\ Sound(s)
      BY <1>5, <2>3 DEF UndoStarts, Here, disk, ghost
    <3>2. Stands(s) /\ procs[s].kind # "finalize" /\ txn # "none"
      BY <1>5, <3>1 DEF UndoStarts, Sound, Alive, Stands, FinalizeStands
    <3>3. PreAgrees' /\ Settled' /\ Recoverable(s)' /\ AnswerTrue(s)' /\ Finalizable(s)'
      BY <1>5, <2>1, <3>2, <3>1 DEF UndoStarts, WasLocked, disk, ghost, PreAgrees,
         Settled, Sound, AsBefore, GrayDone, OrangeDone, Now, Recoverable,
         SnapExact, IsSaved, AnswerTrue, Here, Orderly, Finalizable
    <3>4. Stands(s)'
      BY <1>5, <2>1, <3>2, <3>1, PathsAre DEF UndoStarts, WasLocked, disk, ghost,
         Now, Stands, UndoStands, KnowsLock, Recoverable, SnapExact, IsSaved, Sound,
         SnapStands, ApplyStands, FinalizeStands, GrayStands
    <3> QED
      BY <3>3, <3>4 DEF Sound
  <2> QED
    BY <1>5, <2>2, <2>3 DEF Onward, UndoStarts, disk, ghost
<1>6. ASSUME UnlockAgain(s) PROVE Onward(s)
  <2>1. Now(s, procs[s].kind, "erase", procs[s].i, procs[s].rc, procs[s].relock, procs[s].out)
    BY <1>6, GotoNow DEF UnlockAgain, RTypeOK, Here, Pc
  <2>2. RTypeOK' /\ Moves(s)
    BY <1>6, <2>1, PathsAre DEF UnlockAgain, RemoveRules, Put, ghost, Now, RTypeOK,
       Here, Content, Rules, Moves, Orderly, Alive
  <2>3. ASSUME taint' = {}, Sound(s) PROVE Sound(s)'
    <3>1. taint = {} /\ Sound(s)
      BY <1>6, <2>3 DEF UnlockAgain, Here, ghost
    <3>2. Stands(s) /\ procs[s].kind # "finalize" /\ txn # "none" /\ KnowsLock(s)
      BY <1>6, <3>1 DEF UnlockAgain, Sound, Alive, Stands, FinalizeStands,
         UndoStands
    <3>3. PreAgrees' /\ Settled' /\ Recoverable(s)' /\ AnswerTrue(s)' /\ Finalizable(s)'
      BY <1>6, <2>1, <3>2, PathsAre, <3>1 DEF UnlockAgain, RemoveRules, Put, ghost,
         PreAgrees, Settled, Sound, Now, Recoverable, SnapExact, IsSaved,
         AnswerTrue, Here, Orderly, Finalizable
    <3>4. Stands(s)'
      BY <1>6, <2>1, <3>2, PathsAre, <3>1 DEF UnlockAgain, RemoveRules, Put, ghost,
         Now, Stands, Here, RTypeOK, UndoStands, KnowsLock, SnapStands, ApplyStands,
         FinalizeStands, GrayStands
    <3> QED
      BY <3>3, <3>4 DEF Sound
  <2> QED
    BY <1>6, <2>2, <2>3 DEF Onward, UnlockAgain, ghost
<1>7. ASSUME Erase(s), snap[Order[procs[s].i]].presence = "present" PROVE Onward(s)
  <2>1. Now(s, procs[s].kind, "restore", procs[s].i, procs[s].rc, procs[s].relock, procs[s].out)
    BY <1>7, GotoNow DEF Erase, RTypeOK, Here, Pc
  <2>2. RTypeOK' /\ Moves(s)
    BY <1>7, <2>1, PathsAre, OrderIs DEF Erase, Put, ghost, Now, RTypeOK, Here,
       Content, Rules, Moves, Orderly, Alive, Proc
  <2>3. ASSUME taint' = {}, Sound(s) PROVE Sound(s)'
    <3>1. taint = {} /\ Sound(s)
      BY <1>7, <2>3 DEF Erase, Here, ghost
    <3>2. Stands(s) /\ procs[s].kind # "finalize" /\ txn # "none" /\ KnowsLock(s)
      BY <1>7, <3>1 DEF Erase, Sound, Alive, Stands, FinalizeStands, UndoStands
    <3>3. procs[s].i \in 1 .. Len(Order)
      BY <1>7, <3>1, <3>2, OrderIs DEF Erase, Here, RTypeOK, Proc
    <3>4. node \in [Paths -> Content] /\ node' = [node EXCEPT ![Order[procs[s].i]] = "absent"]
      BY <1>7, <3>1, <3>2, <3>3 DEF Erase, Put, Here, RTypeOK
    <3>5. /\ node'[Order[procs[s].i]] = "absent"
         /\ \A j \in 1 .. Len(Order) : j < procs[s].i => node'[Order[j]] = node[Order[j]]
      BY <3>3, <3>4, PutOnce
    <3>6. procs[s].rc = "ok" =>
           /\ rules' = "none"
           /\ \A j \in 1 .. Len(Order) : j < procs[s].i =>
                node'[Order[j]] = pre'.node[Order[j]]
      BY <1>7, <3>1, <3>2, <3>3, <3>4, <3>5 DEF Erase, Stands, UndoStands, ghost,
         Put
    <3>7. PreAgrees' /\ Settled' /\ Recoverable(s)' /\ AnswerTrue(s)' /\ Finalizable(s)'
      BY <1>7, <2>1, <3>2, PathsAre, <3>1 DEF Erase, Put, ghost, PreAgrees, Settled,
         Sound, Now, Recoverable, SnapExact, IsSaved, AnswerTrue, Here, Orderly,
         Finalizable
    <3>8. UndoStands(s)'
      BY <1>7, <2>1, <3>2, <3>3, <3>6 DEF Erase, ghost, Now, UndoStands, KnowsLock
    <3>9. SnapStands(s)' /\ ApplyStands(s)' /\ FinalizeStands(s)' /\ GrayStands(s)'
      BY <2>1, <3>2 DEF Now, SnapStands, ApplyStands, FinalizeStands, GrayStands
    <3> QED
      BY <3>7, <3>8, <3>9 DEF Sound, Stands
  <2> QED
    BY <1>7, <2>2, <2>3 DEF Onward, Erase, ghost
<1>8. ASSUME Erase(s), snap[Order[procs[s].i]].presence # "present" PROVE Onward(s)
  <2>a. procs[s].i + 1 \in 1 .. Len(Order) + 1
    BY <1>8, OrderIs DEF Erase, Here, RTypeOK, Proc, Orderly
  <2>b. Loop(s, "erase", procs[s].i + 1)
    BY <1>8 DEF Erase
  <2>1. Now(s, procs[s].kind, "erase", procs[s].i + 1, procs[s].rc, procs[s].relock, procs[s].out)
    BY <2>a, <2>b, LoopNow DEF RTypeOK, Here, Pc
  <2>2. RTypeOK' /\ Moves(s)
    BY <1>8, <2>1, PathsAre, OrderIs DEF Erase, Put, ghost, Now, RTypeOK, Here,
       Content, Rules, Moves, Orderly, Alive, Proc
  <2>3. ASSUME taint' = {}, Sound(s) PROVE Sound(s)'
    <3>1. taint = {} /\ Sound(s)
      BY <1>8, <2>3 DEF Erase, Here, ghost
    <3>2. Stands(s) /\ procs[s].kind # "finalize" /\ txn # "none" /\ KnowsLock(s)
      BY <1>8, <3>1 DEF Erase, Sound, Alive, Stands, FinalizeStands, UndoStands
    <3>3. procs[s].i \in 1 .. Len(Order)
      BY <1>8, <3>1, <3>2, OrderIs DEF Erase, Here, RTypeOK, Proc
    <3>4. node \in [Paths -> Content] /\ node' = [node EXCEPT ![Order[procs[s].i]] = "absent"]
      BY <1>8, <3>1, <3>2, <3>3 DEF Erase, Put, Here, RTypeOK
    <3>5. /\ node'[Order[procs[s].i]] = "absent"
         /\ \A j \in 1 .. Len(Order) : j < procs[s].i => node'[Order[j]] = node[Order[j]]
      BY <3>3, <3>4, PutOnce
    <3>6. pre.node[Order[procs[s].i]] = "absent"
      BY <1>8, <3>1, <3>2, <3>3, <3>4, <3>5, OrderedPath DEF Erase, Sound,
         Recoverable, SnapExact, IsSaved
    <3>7. procs[s].rc = "ok" =>
           /\ rules' = "none"
           /\ \A j \in 1 .. Len(Order) : j < procs[s].i + 1 =>
                node'[Order[j]] = pre'.node[Order[j]]
      BY <1>8, <3>1, <3>2, <3>3, <3>4, <3>5, <3>6 DEF Erase, Stands, UndoStands,
         ghost, Put
    <3>8. PreAgrees' /\ Settled' /\ Recoverable(s)' /\ AnswerTrue(s)' /\ Finalizable(s)'
      BY <1>8, <2>1, <3>2, PathsAre, <3>1 DEF Erase, Put, ghost, PreAgrees, Settled,
         Sound, Now, Recoverable, SnapExact, IsSaved, AnswerTrue, Here, Orderly,
         Finalizable
    <3>9. UndoStands(s)'
      BY <1>8, <2>1, <3>2, <3>3, <3>7 DEF Erase, ghost, Now, UndoStands, KnowsLock
    <3>10. SnapStands(s)' /\ ApplyStands(s)' /\ FinalizeStands(s)' /\ GrayStands(s)'
      BY <2>1, <3>2 DEF Now, SnapStands, ApplyStands, FinalizeStands, GrayStands
    <3> QED
      BY <3>8, <3>9, <3>10 DEF Sound, Stands
  <2> QED
    BY <1>8, <2>2, <2>3 DEF Onward, Erase, ghost
<1>9. ASSUME Restore(s) PROVE Onward(s)
  <2>a. procs[s].i + 1 \in 1 .. Len(Order) + 1
    BY <1>9, OrderIs DEF Restore, Here, RTypeOK, Proc, Orderly
  <2>b. Loop(s, "erase", procs[s].i + 1)
    BY <1>9 DEF Restore
  <2>1. Now(s, procs[s].kind, "erase", procs[s].i + 1, procs[s].rc, procs[s].relock, procs[s].out)
    BY <2>a, <2>b, LoopNow DEF RTypeOK, Here, Pc
  <2>2. RTypeOK' /\ Moves(s)
    BY <1>9, <2>1, PathsAre, OrderedPath DEF Restore, Put, ghost, Now, RTypeOK,
       Here, Content, Rules, Moves, Orderly, Alive, Saved
  <2>3. ASSUME taint' = {}, Sound(s) PROVE Sound(s)'
    <3>1. taint = {} /\ Sound(s)
      BY <1>9, <2>3 DEF Restore, Here, ghost
    <3>2. Stands(s) /\ procs[s].kind # "finalize" /\ txn # "none" /\ KnowsLock(s)
      BY <1>9, <3>1 DEF Restore, Sound, Alive, Stands, FinalizeStands, UndoStands
    <3>3. procs[s].i \in 1 .. Len(Order)
      BY <1>9, <3>1, <3>2 DEF Restore, Here, Orderly
    <3>4. /\ node \in [Paths -> Content]
          /\ node' = [node EXCEPT ![Order[procs[s].i]] = snap[Order[procs[s].i]].copy]
      BY <1>9, <3>1, <3>2, <3>3 DEF Restore, Put, Here, RTypeOK
    <3>5. /\ node'[Order[procs[s].i]] = snap[Order[procs[s].i]].copy
         /\ \A j \in 1 .. Len(Order) : j < procs[s].i => node'[Order[j]] = node[Order[j]]
      BY <3>3, <3>4, PutOnce
    <3>6. snap[Order[procs[s].i]].copy = pre.node[Order[procs[s].i]]
      BY <1>9, <3>1, <3>2, <3>3, <3>4, <3>5, OrderedPath DEF Restore, Sound,
         Recoverable, SnapExact, IsSaved
    <3>7. procs[s].rc = "ok" =>
           /\ rules = "none"
           /\ \A j \in 1 .. Len(Order) : j < procs[s].i =>
                node[Order[j]] = pre.node[Order[j]]
      BY <1>9, <3>1, <3>2, <3>3, <3>4, <3>5, <3>6 DEF Restore, Stands, UndoStands
    <3>8. procs[s].rc = "ok" =>
           /\ rules' = "none"
           /\ \A j \in 1 .. Len(Order) : j < procs[s].i + 1 =>
                node'[Order[j]] = pre'.node[Order[j]]
      <4>1. rules' = rules /\ pre' = pre
        BY <1>9 DEF Restore, ghost
      <4> QED
        BY <3>3, <3>5, <3>6, <3>7, <4>1
    <3>9. PreAgrees' /\ Settled' /\ Recoverable(s)' /\ AnswerTrue(s)' /\ Finalizable(s)'
      BY <1>9, <2>1, <3>2, PathsAre, <3>1 DEF Restore, Put, ghost, PreAgrees,
         Settled, Sound, Now, Recoverable, SnapExact, IsSaved, AnswerTrue, Here,
         Orderly, Finalizable
    <3>10. UndoStands(s)'
      BY <1>9, <2>1, <3>2, <3>3, <3>8 DEF Restore, ghost, Now, UndoStands, KnowsLock
    <3>11. SnapStands(s)' /\ ApplyStands(s)' /\ FinalizeStands(s)' /\ GrayStands(s)'
      BY <2>1, <3>2 DEF Now, SnapStands, ApplyStands, FinalizeStands, GrayStands
    <3> QED
      BY <3>9, <3>10, <3>11 DEF Sound, Stands
  <2> QED
    BY <1>9, <2>2, <2>3 DEF Onward, Restore, ghost
<1>10. ASSUME RestoreVanished(s) PROVE Onward(s)
  <2>a. procs[s].i + 1 \in 1 .. Len(Order) + 1
    BY <1>10, OrderIs DEF RestoreVanished, Here, Orderly
  <2>b. procs' = [procs EXCEPT ![s] = [@ EXCEPT !.pc = "erase", !.i = procs[s].i + 1,
                                               !.rc = "failed"]]
    BY <1>10 DEF RestoreVanished
  <2>1. Now(s, procs[s].kind, "erase", procs[s].i + 1, "failed", procs[s].relock, procs[s].out)
    BY <1>10, <2>a, <2>b, SkipNow DEF RTypeOK, Here
  <2>2. RTypeOK' /\ Moves(s)
    BY <1>10, <2>1, PathsAre DEF RestoreVanished, disk, ghost, Now, RTypeOK, Here,
       Content, Rules, Moves, Orderly, Alive
  <2>3. ASSUME taint' = {}, Sound(s) PROVE Sound(s)'
    <3>1. taint = {} /\ Sound(s)
      BY <1>10, <2>3 DEF RestoreVanished, Here, disk, ghost
    <3>2. Stands(s) /\ procs[s].kind # "finalize" /\ txn # "none" /\ KnowsLock(s)
      BY <1>10, <3>1 DEF RestoreVanished, Sound, Alive, Stands, FinalizeStands,
         UndoStands
    <3>3. PreAgrees' /\ Settled' /\ Recoverable(s)' /\ AnswerTrue(s)' /\ Finalizable(s)'
      BY <1>10, <2>1, <3>2, <3>1 DEF RestoreVanished, disk, ghost, PreAgrees,
         Settled, Sound, AsBefore, GrayDone, OrangeDone, Now, Recoverable,
         SnapExact, IsSaved, AnswerTrue, Here, Orderly, Finalizable
    <3>4. Stands(s)'
      BY <1>10, <2>1, <3>2, <3>1 DEF RestoreVanished, disk, ghost, Now, Stands,
         UndoStands, KnowsLock, SnapStands, ApplyStands, FinalizeStands, GrayStands
    <3> QED
      BY <3>3, <3>4 DEF Sound
  <2> QED
    BY <1>10, <2>2, <2>3 DEF Onward, RestoreVanished, disk, ghost
<1>11. ASSUME Restored(s), procs[s].relock = "yes" PROVE Onward(s)
  <2>1. Now(s, procs[s].kind, "relock", procs[s].i, procs[s].rc, procs[s].relock, procs[s].out)
    BY <1>11, GotoNow DEF Restored, RTypeOK, Here, Pc
  <2>2. RTypeOK' /\ Moves(s)
    BY <1>11, <2>1, PathsAre DEF Restored, disk, ghost, Now, RTypeOK, Here, Content,
       Rules, Moves, Orderly, Alive
  <2>3. ASSUME taint' = {}, Sound(s) PROVE Sound(s)'
    <3>1. taint = {} /\ Sound(s)
      BY <1>11, <2>3 DEF Restored, Here, disk, ghost
    <3>2. Stands(s) /\ procs[s].kind # "finalize" /\ txn # "none" /\ KnowsLock(s)
      BY <1>11, <3>1 DEF Restored, Sound, Alive, Stands, FinalizeStands, UndoStands
    <3>3. procs[s].rc = "ok" => node = pre.node /\ rules = "none"
      BY <1>11, <3>1, <3>2, OrderIs, SameNode DEF Restored, UndoStands, Stands,
         Here, RTypeOK, Proc
    <3>4. PreAgrees' /\ Settled' /\ Recoverable(s)' /\ AnswerTrue(s)' /\ Finalizable(s)'
      BY <1>11, <2>1, <3>2, <3>3, <3>1 DEF Restored, disk, ghost, PreAgrees,
         Settled, Sound, AsBefore, GrayDone, OrangeDone, Now, Recoverable,
         SnapExact, IsSaved, AnswerTrue, Here, Orderly, Finalizable
    <3>5. Stands(s)'
      BY <1>11, <2>1, <3>2, <3>3, <3>1, SameNode DEF Restored, disk, ghost, Now,
         Stands, UndoStands, KnowsLock, AsBefore, Sound, PreAgrees, Here, RTypeOK,
         Proc, SnapStands, ApplyStands, FinalizeStands, GrayStands
    <3> QED
      BY <3>4, <3>5 DEF Sound
  <2> QED
    BY <1>11, <2>2, <2>3 DEF Onward, Restored, disk, ghost
<1>12. ASSUME Restored(s), procs[s].relock # "yes" PROVE Onward(s)
  <2>1. Now(s, procs[s].kind, "restart", procs[s].i, procs[s].rc, procs[s].relock, procs[s].out)
    BY <1>12, GotoNow DEF Restored, RTypeOK, Here, Pc
  <2>2. RTypeOK' /\ Moves(s)
    BY <1>12, <2>1, PathsAre DEF Restored, disk, ghost, Now, RTypeOK, Here, Content,
       Rules, Moves, Orderly, Alive
  <2>3. ASSUME taint' = {}, Sound(s) PROVE Sound(s)'
    <3>1. taint = {} /\ Sound(s)
      BY <1>12, <2>3 DEF Restored, Here, disk, ghost
    <3>2. Stands(s) /\ procs[s].kind # "finalize" /\ txn # "none" /\ KnowsLock(s)
      BY <1>12, <3>1 DEF Restored, Sound, Alive, Stands, FinalizeStands, UndoStands
    <3>3. procs[s].rc = "ok" => node = pre.node /\ rules = "none"
      BY <1>12, <3>1, <3>2, OrderIs, SameNode DEF Restored, UndoStands, Stands,
         Here, RTypeOK, Proc
    <3>4. PreAgrees' /\ Settled' /\ Recoverable(s)' /\ AnswerTrue(s)' /\ Finalizable(s)'
      BY <1>12, <2>1, <3>2, <3>3, <3>1 DEF Restored, disk, ghost, PreAgrees,
         Settled, Sound, AsBefore, GrayDone, OrangeDone, Now, Recoverable,
         SnapExact, IsSaved, AnswerTrue, Here, Orderly, Finalizable
    <3>5. Stands(s)'
      BY <1>12, <2>1, <3>2, <3>3, <3>1, SameNode DEF Restored, disk, ghost, Now,
         Stands, UndoStands, KnowsLock, AsBefore, Sound, PreAgrees, Here, RTypeOK,
         Proc, SnapStands, ApplyStands, FinalizeStands, GrayStands
    <3> QED
      BY <3>4, <3>5 DEF Sound
  <2> QED
    BY <1>12, <2>2, <2>3 DEF Onward, Restored, disk, ghost
<1>13. ASSUME Relock(s), Lockable PROVE Onward(s)
  <2>1. Now(s, procs[s].kind, "restart", procs[s].i, procs[s].rc, procs[s].relock, procs[s].out)
    BY <1>13, GotoNow DEF Relock, RTypeOK, Here, Pc
  <2>2. RTypeOK' /\ Moves(s)
    BY <1>13, <2>1, PathsAre DEF Relock, ApplyRules, Lockable, Put, ghost, Now,
       RTypeOK, Here, Content, Rules, Moves, Orderly, Alive
  <2>3. ASSUME taint' = {}, Sound(s) PROVE Sound(s)'
    <3>1. taint = {} /\ Sound(s)
      BY <1>13, <2>3 DEF Relock, Here, ghost
    <3>2. Stands(s) /\ procs[s].kind # "finalize" /\ txn # "none" /\ KnowsLock(s)
      BY <1>13, <3>1 DEF Relock, Sound, Alive, Stands, FinalizeStands, UndoStands
    <3>3. procs[s].rc = "ok" /\ Lockable => node' = node /\ rules' = "managed"
      BY <1>13, <3>1, <3>2 DEF Relock, ApplyRules, Put, KnowsLock, UndoStands,
         Stands, Here, RTypeOK
    <3>4. PreAgrees' /\ Settled' /\ Recoverable(s)' /\ AnswerTrue(s)' /\ Finalizable(s)'
      BY <1>13, <2>1, <3>2, <3>3, <3>1 DEF Relock, ApplyRules, Lockable, Put, ghost,
         PreAgrees, Settled, Sound, AsBefore, GrayDone, OrangeDone, Now,
         Recoverable, SnapExact, IsSaved, AnswerTrue, Here, Orderly, Finalizable
    <3>5. Stands(s)'
      BY <1>13, <2>1, <3>2, <3>3, <3>1, PathsAre DEF Relock, ApplyRules, Lockable,
         Put, ghost, Now, Stands, UndoStands, KnowsLock, AsBefore, Sound, PreAgrees,
         SnapStands, ApplyStands, FinalizeStands, GrayStands
    <3> QED
      BY <3>4, <3>5 DEF Sound
  <2> QED
    BY <1>13, <2>2, <2>3 DEF Onward, Relock, ghost
<1>14. ASSUME Relock(s), ~Lockable PROVE Onward(s)
  <2>1. Now(s, procs[s].kind, "restart", procs[s].i, "failed", procs[s].relock, procs[s].out)
    BY <1>14, FailNow DEF Relock, RTypeOK, Here, Pc
  <2>2. RTypeOK' /\ Moves(s)
    BY <1>14, <2>1, PathsAre DEF Relock, ApplyRules, Lockable, Put, ghost, Now,
       RTypeOK, Here, Content, Rules, Moves, Orderly, Alive
  <2>3. ASSUME taint' = {}, Sound(s) PROVE Sound(s)'
    <3>1. taint = {} /\ Sound(s)
      BY <1>14, <2>3 DEF Relock, Here, ghost
    <3>2. Stands(s) /\ procs[s].kind # "finalize" /\ txn # "none" /\ KnowsLock(s)
      BY <1>14, <3>1 DEF Relock, Sound, Alive, Stands, FinalizeStands, UndoStands
    <3>3. procs[s].rc = "ok" /\ Lockable => node' = node /\ rules' = "managed"
      BY <1>14, <3>1, <3>2 DEF Relock, ApplyRules, Put, KnowsLock, UndoStands,
         Stands, Here, RTypeOK
    <3>4. PreAgrees' /\ Settled' /\ Recoverable(s)' /\ AnswerTrue(s)' /\ Finalizable(s)'
      BY <1>14, <2>1, <3>2, <3>3, <3>1 DEF Relock, ApplyRules, Lockable, Put, ghost,
         PreAgrees, Settled, Sound, AsBefore, GrayDone, OrangeDone, Now,
         Recoverable, SnapExact, IsSaved, AnswerTrue, Here, Orderly, Finalizable
    <3>5. Stands(s)'
      BY <1>14, <2>1, <3>2, <3>3, <3>1, PathsAre DEF Relock, ApplyRules, Lockable,
         Put, ghost, Now, Stands, UndoStands, KnowsLock, AsBefore, Sound, PreAgrees,
         SnapStands, ApplyStands, FinalizeStands, GrayStands
    <3> QED
      BY <3>4, <3>5 DEF Sound
  <2> QED
    BY <1>14, <2>2, <2>3 DEF Onward, Relock, ghost
<1>15. ASSUME Restart(s), procs[s].rc = "ok" PROVE Onward(s)
  <2>1. Now(s, procs[s].kind, "discard", procs[s].i, procs[s].rc, procs[s].relock, procs[s].out)
    BY <1>15, GotoNow DEF Restart, RTypeOK, Here, Pc
  <2>2. RTypeOK' /\ Moves(s)
    BY <1>15, <2>1, PathsAre DEF Restart, disk, ghost, Now, RTypeOK, Here, Content,
       Rules, Moves, Orderly, Alive
  <2>3. ASSUME taint' = {}, Sound(s) PROVE Sound(s)'
    <3>1. taint = {} /\ Sound(s)
      BY <1>15, <2>3 DEF Restart, Here, disk, ghost
    <3>2. Stands(s) /\ procs[s].kind # "finalize" /\ txn # "none" /\ KnowsLock(s)
      BY <1>15, <3>1 DEF Restart, Sound, Alive, Stands, FinalizeStands, UndoStands
    <3>3. PreAgrees' /\ Settled' /\ Recoverable(s)' /\ AnswerTrue(s)' /\ Finalizable(s)'
      BY <1>15, <2>1, <3>2, <3>1 DEF Restart, disk, ghost, PreAgrees, Settled,
         Sound, AsBefore, GrayDone, OrangeDone, Now, Recoverable, SnapExact,
         IsSaved, AnswerTrue, Here, Orderly, Finalizable
    <3>4. Stands(s)'
      BY <1>15, <2>1, <3>2, <3>1 DEF Restart, disk, ghost, Now, Stands, UndoStands,
         KnowsLock, AsBefore, Sound, PreAgrees, SnapStands, ApplyStands,
         FinalizeStands, GrayStands
    <3> QED
      BY <3>3, <3>4 DEF Sound
  <2> QED
    BY <1>15, <2>2, <2>3 DEF Onward, Restart, disk, ghost
<1>16. ASSUME Restart(s), procs[s].rc # "ok" PROVE Onward(s)
  <2>1. Now(s, procs[s].kind, "exited", 1, "ok", "no", "ERROR")
    BY <1>16, ExitNow DEF Restart, RTypeOK, Here, Outs
  <2>2. RTypeOK' /\ Moves(s)
    BY <1>16, <2>1, PathsAre DEF Restart, disk, ghost, Now, RTypeOK, Here, Content,
       Rules, Moves, Orderly, Alive
  <2>3. ASSUME taint' = {}, Sound(s) PROVE Sound(s)'
    <3>1. taint = {} /\ Sound(s)
      BY <1>16, <2>3 DEF Restart, Here, disk, ghost
    <3>2. Stands(s) /\ procs[s].kind # "finalize" /\ txn # "none" /\ KnowsLock(s)
      BY <1>16, <3>1 DEF Restart, Sound, Alive, Stands, FinalizeStands, UndoStands
    <3>3. PreAgrees' /\ Settled' /\ Recoverable(s)' /\ AnswerTrue(s)' /\ Finalizable(s)'
      BY <1>16, <2>1, <3>2, <3>1 DEF Restart, disk, ghost, PreAgrees, Settled,
         Sound, AsBefore, GrayDone, OrangeDone, Now, Recoverable, SnapExact,
         IsSaved, AnswerTrue, Finalizable
    <3>4. ~Alive(s)'
      BY <2>1 DEF Now, Alive
    <3> QED
      BY <3>3, <3>4 DEF Sound
  <2> QED
    BY <1>16, <2>2, <2>3 DEF Onward, Restart, disk, ghost
<1>17. ASSUME Discard(s), procs[s].kind = "rollback" PROVE Onward(s)
  <2>1. Now(s, procs[s].kind, "exited", 1, "ok", "no", "ROLLED_BACK")
    BY <1>17, ExitNow DEF Discard, RTypeOK, Here, Outs
  <2>2. RTypeOK' /\ Moves(s)
    BY <1>17, <2>1, PathsAre DEF Discard, ghost, Now, RTypeOK, Here, Content, Rules,
       Moves, Orderly, Alive, Unwritten, Saved
  <2>3. ASSUME taint' = {}, Sound(s) PROVE Sound(s)'
    <3>1. taint = {} /\ Sound(s)
      BY <1>17, <2>3 DEF Discard, Here, ghost
    <3>2. Stands(s) /\ procs[s].kind # "finalize" /\ txn # "none" /\ KnowsLock(s)
      BY <1>17, <3>1 DEF Discard, Sound, Alive, Stands, FinalizeStands, UndoStands,
         AsBefore
    <3>3. PreAgrees' /\ Settled' /\ Recoverable(s)' /\ AnswerTrue(s)' /\ Finalizable(s)'
      BY <1>17, <2>1, <3>2, <3>1 DEF Discard, ghost, PreAgrees, Settled, Sound,
         AsBefore, GrayDone, OrangeDone, UndoStands, Stands, Now, Recoverable,
         SnapExact, IsSaved, AnswerTrue, Finalizable
    <3>4. ~Alive(s)'
      BY <2>1 DEF Now, Alive
    <3> QED
      BY <3>3, <3>4 DEF Sound
  <2> QED
    BY <1>17, <2>2, <2>3 DEF Onward, Discard, ghost
<1>18. ASSUME Discard(s), procs[s].kind # "rollback" PROVE Onward(s)
  <2>1. Now(s, procs[s].kind, "exited", 1, "ok", "no", "ERROR_ROLLED_BACK")
    BY <1>18, ExitNow DEF Discard, RTypeOK, Here, Outs
  <2>2. RTypeOK' /\ Moves(s)
    BY <1>18, <2>1, PathsAre DEF Discard, ghost, Now, RTypeOK, Here, Content, Rules,
       Moves, Orderly, Alive, Unwritten, Saved
  <2>3. ASSUME taint' = {}, Sound(s) PROVE Sound(s)'
    <3>1. taint = {} /\ Sound(s)
      BY <1>18, <2>3 DEF Discard, Here, ghost
    <3>2. Stands(s) /\ procs[s].kind # "finalize" /\ txn # "none" /\ KnowsLock(s)
      BY <1>18, <3>1 DEF Discard, Sound, Alive, Stands, FinalizeStands, UndoStands,
         AsBefore
    <3>3. PreAgrees' /\ Settled' /\ Recoverable(s)' /\ AnswerTrue(s)' /\ Finalizable(s)'
      BY <1>18, <2>1, <3>2, <3>1 DEF Discard, ghost, PreAgrees, Settled, Sound,
         AsBefore, GrayDone, OrangeDone, UndoStands, Stands, Now, Recoverable,
         SnapExact, IsSaved, AnswerTrue, Finalizable
    <3>4. ~Alive(s)'
      BY <2>1 DEF Now, Alive
    <3> QED
      BY <3>3, <3>4 DEF Sound
  <2> QED
    BY <1>18, <2>2, <2>3 DEF Onward, Discard, ghost
<1> QED
  BY <1>1, <1>2, <1>3, <1>4, <1>5, <1>6, <1>7, <1>8, <1>9, <1>10, <1>11, <1>12,
     <1>13, <1>14, <1>15, <1>16, <1>17, <1>18 DEF RollingBack

LEMMA DoneStep ==
  ASSUME NEW s \in Slots, Here(s), Wipe(s)
  PROVE  Onward(s)
<1> USE DEF At, Running, Snapping, Staging, Graying, Undoing, Restoring
<1>1. ASSUME Wipe(s) PROVE Onward(s)
  <2>1. Now(s, procs[s].kind, "exited", 1, "ok", "no", "RECONCILED")
    BY <1>1, ExitNow DEF Wipe, RTypeOK, Here, Outs
  <2>2. RTypeOK' /\ Moves(s)
    BY <1>1, <2>1, PathsAre DEF Wipe, ghost, Now, RTypeOK, Here, Content, Rules,
       Moves, Orderly, Alive, Unwritten, Saved
  <2>3. ASSUME taint' = {}, Sound(s) PROVE Sound(s)'
    <3>1. taint = {} /\ Sound(s)
      BY <1>1, <2>3 DEF Wipe, Here, ghost
    <3>2. Stands(s) /\ txn # "none" /\ (GrayDone \/ OrangeDone)
      BY <1>1, <3>1 DEF Wipe, Sound, Alive, Stands, FinalizeStands, GrayStands,
         FinalNode
    <3>3. PreAgrees' /\ Settled' /\ Recoverable(s)' /\ AnswerTrue(s)' /\ Finalizable(s)'
      BY <1>1, <2>1, <3>2, <3>1 DEF Wipe, ghost, PreAgrees, Settled, Sound,
         AsBefore, GrayDone, OrangeDone, Now, Recoverable, SnapExact, IsSaved,
         AnswerTrue, Finalizable
    <3>4. ~Alive(s)'
      BY <2>1 DEF Now, Alive
    <3> QED
      BY <3>3, <3>4 DEF Sound
  <2> QED
    BY <1>1, <2>2, <2>3 DEF Onward, Wipe, ghost
<1> QED
  BY <1>1

LEMMA ScriptFaultStep ==
  ASSUME NEW s \in Slots, Here(s), ScriptFault(s)
  PROVE  Onward(s)
<1> USE DEF At, Running, Snapping, Staging, Graying, Undoing, Restoring
<1>1. ASSUME SnapFails(s) PROVE Onward(s)
  <2>1. Now(s, procs[s].kind, "exited", 1, "ok", "no", "ERROR")
    BY <1>1, ExitNow DEF SnapFails, RTypeOK, Here, Outs
  <2>2. RTypeOK' /\ Moves(s)
    BY <1>1, <2>1, PathsAre, RouteFaultsAssumption DEF SnapFails, Misfortune, disk,
       ghost, Now, RTypeOK, Here, Content, Rules, Moves, Orderly, Alive
  <2>3. ASSUME taint' = {}, Sound(s) PROVE Sound(s)'
    BY <1>1, <2>3 DEF SnapFails
  <2> QED
    BY <1>1, <2>2, <2>3 DEF Onward, SnapFails, disk
<1>2. ASSUME TrapFires(s), At(s, "lock") PROVE Onward(s)
  <2>1. Now(s, procs[s].kind, "undo", procs[s].i, procs[s].rc, procs[s].relock, procs[s].out)
    BY <1>2, GotoNow DEF TrapFires, RTypeOK, Here, Pc
  <2>2. RTypeOK' /\ Moves(s)
    BY <1>2, <2>1, PathsAre, RouteFaultsAssumption DEF TrapFires, RemoveRules,
       Misfortune, Put, ghost, Now, RTypeOK, Here, Content, Rules, Moves, Orderly,
       Alive
  <2>3. ASSUME taint' = {}, Sound(s) PROVE Sound(s)'
    <3>1. taint = {} /\ Sound(s)
      BY <1>2, <2>3 DEF TrapFires, Here, ghost
    <3>2. Stands(s) /\ procs[s].kind # "finalize" /\ txn # "none"
      BY <1>2, <3>1 DEF TrapFires, Sound, Alive, Stands, ApplyStands, GrayStands
    <3>3. PreAgrees' /\ Settled' /\ Recoverable(s)' /\ AnswerTrue(s)' /\ Finalizable(s)'
      BY <1>2, <2>1, <3>2, <3>1 DEF TrapFires, RemoveRules, Misfortune, Put, ghost,
         PreAgrees, Settled, Sound, AsBefore, GrayDone, OrangeDone, Now,
         Recoverable, SnapExact, IsSaved, AnswerTrue, Here, Orderly, Finalizable
    <3>4. Stands(s)'
      BY <1>2, <2>1, <3>2, <3>1 DEF TrapFires, RemoveRules, Misfortune, Put, ghost,
         Now, Stands, UndoStands, SnapStands, ApplyStands, FinalizeStands,
         GrayStands
    <3> QED
      BY <3>3, <3>4 DEF Sound
  <2> QED
    BY <1>2, <2>2, <2>3 DEF Onward, TrapFires, ghost
<1>3. ASSUME TrapFires(s), ~At(s, "lock") PROVE Onward(s)
  <2>1. Now(s, procs[s].kind, "undo", procs[s].i, procs[s].rc, procs[s].relock, procs[s].out)
    BY <1>3, GotoNow DEF TrapFires, RTypeOK, Here, Pc
  <2>2. RTypeOK' /\ Moves(s)
    BY <1>3, <2>1, PathsAre, RouteFaultsAssumption DEF TrapFires, RemoveRules,
       Misfortune, Put, ghost, Now, RTypeOK, Here, Content, Rules, Moves, Orderly,
       Alive
  <2>3. ASSUME taint' = {}, Sound(s) PROVE Sound(s)'
    <3>1. taint = {} /\ Sound(s)
      BY <1>3, <2>3 DEF TrapFires, Here, ghost
    <3>2. Stands(s) /\ procs[s].kind # "finalize" /\ txn # "none"
      BY <1>3, <3>1 DEF TrapFires, Sound, Alive, Stands, ApplyStands, GrayStands
    <3>3. PreAgrees' /\ Settled' /\ Recoverable(s)' /\ AnswerTrue(s)' /\ Finalizable(s)'
      BY <1>3, <2>1, <3>2, <3>1 DEF TrapFires, RemoveRules, Misfortune, Put, ghost,
         PreAgrees, Settled, Sound, AsBefore, GrayDone, OrangeDone, Now,
         Recoverable, SnapExact, IsSaved, AnswerTrue, Here, Orderly, Finalizable
    <3>4. Stands(s)'
      BY <1>3, <2>1, <3>2, <3>1 DEF TrapFires, RemoveRules, Misfortune, Put, ghost,
         Now, Stands, UndoStands, SnapStands, ApplyStands, FinalizeStands,
         GrayStands
    <3> QED
      BY <3>3, <3>4 DEF Sound
  <2> QED
    BY <1>3, <2>2, <2>3 DEF Onward, TrapFires, ghost
<1>4. ASSUME UnlockIgnored(s) PROVE Onward(s)
  <2>1. Now(s, procs[s].kind, "fetch", procs[s].i, procs[s].rc, procs[s].relock, procs[s].out)
    BY <1>4, GotoNow DEF UnlockIgnored, RTypeOK, Here, Pc
  <2>2. RTypeOK' /\ Moves(s)
    BY <1>4, <2>1, PathsAre, RouteFaultsAssumption DEF UnlockIgnored, Misfortune,
       HalfRemoved, ghost, Now, RTypeOK, Here, Content, Rules, Moves, Orderly, Alive
  <2>3. ASSUME taint' = {}, Sound(s) PROVE Sound(s)'
    <3>1. taint = {} /\ Sound(s)
      BY <1>4, <2>3 DEF UnlockIgnored, Here, ghost
    <3>2. Stands(s) /\ procs[s].kind = "apply" /\ txn # "none"
      BY <1>4, <3>1 DEF UnlockIgnored, Sound, Alive, Stands, ApplyStands
    <3>3. PreAgrees' /\ Settled' /\ Recoverable(s)' /\ AnswerTrue(s)' /\ Finalizable(s)'
      BY <1>4, <2>1, <3>2, <3>1 DEF UnlockIgnored, Misfortune, HalfRemoved, ghost,
         PreAgrees, Settled, Sound, AsBefore, GrayDone, OrangeDone, Now,
         Recoverable, SnapExact, IsSaved, AnswerTrue, Here, Orderly, Finalizable
    <3>4. Stands(s)'
      BY <1>4, <2>1, <3>2, <3>1 DEF UnlockIgnored, Misfortune, HalfRemoved, ghost,
         Now, Stands, ApplyStands, SnapStands, FinalizeStands, GrayStands,
         UndoStands
    <3> QED
      BY <3>3, <3>4 DEF Sound
  <2> QED
    BY <1>4, <2>2, <2>3 DEF Onward, UnlockIgnored, ghost
<1>5. ASSUME FinalizeFails(s) PROVE Onward(s)
  <2>1. Now(s, procs[s].kind, "exited", 1, "ok", "no", "ERROR")
    BY <1>5, ExitNow DEF FinalizeFails, RTypeOK, Here, Outs
  <2>2. RTypeOK' /\ Moves(s)
    BY <1>5, <2>1, PathsAre, RouteFaultsAssumption DEF FinalizeFails, Misfortune,
       disk, ghost, Now, RTypeOK, Here, Content, Rules, Moves, Orderly, Alive
  <2>3. ASSUME taint' = {}, Sound(s) PROVE Sound(s)'
    <3>1. taint = {} /\ Sound(s)
      BY <1>5, <2>3 DEF FinalizeFails, Here, disk, ghost
    <3>2. Stands(s) /\ procs[s].kind = "finalize" /\ FinalNode
      BY <1>5, <3>1 DEF FinalizeFails, Sound, Alive, Stands, FinalizeStands
    <3>3. PreAgrees' /\ Settled' /\ Recoverable(s)' /\ AnswerTrue(s)' /\ Finalizable(s)'
      BY <1>5, <2>1, <3>2, <3>1 DEF FinalizeFails, Misfortune, disk, ghost,
         PreAgrees, Settled, Sound, AsBefore, GrayDone, OrangeDone, Now,
         Recoverable, SnapExact, IsSaved, AnswerTrue, Finalizable, FinalNode,
         StagedNode
    <3>4. ~Alive(s)'
      BY <2>1 DEF Now, Alive
    <3> QED
      BY <3>3, <3>4 DEF Sound
  <2> QED
    BY <1>5, <2>2, <2>3 DEF Onward, FinalizeFails, disk, ghost
<1>6. ASSUME UndoFails(s), At(s, "unlockAgain") PROVE Onward(s)
  <2>1. Now(s, procs[s].kind, "erase", procs[s].i, "failed", procs[s].relock, procs[s].out)
    BY <1>6, FailNow DEF UndoFails, RTypeOK, Here, Pc, Orderly
  <2>2. RTypeOK' /\ Moves(s)
    BY <1>6, <2>1, PathsAre, RouteFaultsAssumption, OrderedPath DEF UndoFails, Put,
       RemoveRules, Misfortune, HalfRemoved, ghost, Now, RTypeOK, Here, Content,
       Rules, Moves, Orderly, Alive, Saved
  <2>3. ASSUME taint' = {}, Sound(s) PROVE Sound(s)'
    <3>1. taint = {} /\ Sound(s)
      BY <1>6, <2>3 DEF UndoFails, Here, ghost
    <3>2. Stands(s) /\ procs[s].kind # "finalize" /\ txn # "none" /\ KnowsLock(s)
      BY <1>6, <3>1 DEF UndoFails, Sound, Alive, Stands, FinalizeStands, UndoStands
    <3>3. PreAgrees' /\ Settled' /\ Recoverable(s)' /\ AnswerTrue(s)' /\ Finalizable(s)'
      BY <1>6, <2>1, <3>2, <3>1 DEF UndoFails, Put, RemoveRules, Misfortune,
         HalfRemoved, ghost, PreAgrees, Settled, Sound, AsBefore, GrayDone,
         OrangeDone, Now, Recoverable, SnapExact, IsSaved, AnswerTrue, Here,
         Orderly, Finalizable
    <3>4. Stands(s)'
      BY <1>6, <2>1, <3>2, <3>1 DEF UndoFails, Put, RemoveRules, Misfortune,
         HalfRemoved, ghost, Now, Stands, UndoStands, KnowsLock, SnapStands,
         ApplyStands, FinalizeStands, GrayStands
    <3> QED
      BY <3>3, <3>4 DEF Sound
  <2> QED
    BY <1>6, <2>2, <2>3 DEF Onward, UndoFails, ghost
<1>7. ASSUME UndoFails(s), At(s, "restore") PROVE Onward(s)
  <2>a. procs[s].i + 1 \in 1 .. Len(Order) + 1
    BY <1>7, OrderIs DEF UndoFails, Here, Orderly
  <2>b. procs' = [procs EXCEPT ![s] = [@ EXCEPT !.pc = "erase", !.i = procs[s].i + 1,
                                               !.rc = "failed"]]
    BY <1>7 DEF UndoFails
  <2>1. Now(s, procs[s].kind, "erase", procs[s].i + 1, "failed", procs[s].relock, procs[s].out)
    BY <1>7, <2>a, <2>b, SkipNow DEF RTypeOK, Here
  <2>2. RTypeOK' /\ Moves(s)
    BY <1>7, <2>1, PathsAre, RouteFaultsAssumption, OrderedPath DEF UndoFails, Put,
       RemoveRules, Misfortune, HalfRemoved, ghost, Now, RTypeOK, Here, Content,
       Rules, Moves, Orderly, Alive, Saved
  <2>3. ASSUME taint' = {}, Sound(s) PROVE Sound(s)'
    <3>1. taint = {} /\ Sound(s)
      BY <1>7, <2>3 DEF UndoFails, Here, ghost
    <3>2. Stands(s) /\ procs[s].kind # "finalize" /\ txn # "none" /\ KnowsLock(s)
      BY <1>7, <3>1 DEF UndoFails, Sound, Alive, Stands, FinalizeStands, UndoStands
    <3>3. PreAgrees' /\ Settled' /\ Recoverable(s)' /\ AnswerTrue(s)' /\ Finalizable(s)'
      BY <1>7, <2>1, <3>2, <3>1 DEF UndoFails, Put, RemoveRules, Misfortune,
         HalfRemoved, ghost, PreAgrees, Settled, Sound, AsBefore, GrayDone,
         OrangeDone, Now, Recoverable, SnapExact, IsSaved, AnswerTrue, Here,
         Orderly, Finalizable
    <3>4. Stands(s)'
      BY <1>7, <2>1, <3>2, <3>1 DEF UndoFails, Put, RemoveRules, Misfortune,
         HalfRemoved, ghost, Now, Stands, UndoStands, KnowsLock, SnapStands,
         ApplyStands, FinalizeStands, GrayStands
    <3> QED
      BY <3>3, <3>4 DEF Sound
  <2> QED
    BY <1>7, <2>2, <2>3 DEF Onward, UndoFails, ghost
<1>8. ASSUME UndoFails(s), At(s, "relock") PROVE Onward(s)
  <2>1. Now(s, procs[s].kind, "restart", procs[s].i, "failed", procs[s].relock, procs[s].out)
    BY <1>8, FailNow DEF UndoFails, RTypeOK, Here, Pc, Orderly
  <2>2. RTypeOK' /\ Moves(s)
    BY <1>8, <2>1, PathsAre, RouteFaultsAssumption, OrderedPath DEF UndoFails, Put,
       RemoveRules, Misfortune, HalfRemoved, ghost, Now, RTypeOK, Here, Content,
       Rules, Moves, Orderly, Alive, Saved
  <2>3. ASSUME taint' = {}, Sound(s) PROVE Sound(s)'
    <3>1. taint = {} /\ Sound(s)
      BY <1>8, <2>3 DEF UndoFails, Here, ghost
    <3>2. Stands(s) /\ procs[s].kind # "finalize" /\ txn # "none" /\ KnowsLock(s)
      BY <1>8, <3>1 DEF UndoFails, Sound, Alive, Stands, FinalizeStands, UndoStands
    <3>3. PreAgrees' /\ Settled' /\ Recoverable(s)' /\ AnswerTrue(s)' /\ Finalizable(s)'
      BY <1>8, <2>1, <3>2, <3>1 DEF UndoFails, Put, RemoveRules, Misfortune,
         HalfRemoved, ghost, PreAgrees, Settled, Sound, AsBefore, GrayDone,
         OrangeDone, Now, Recoverable, SnapExact, IsSaved, AnswerTrue, Here,
         Orderly, Finalizable
    <3>4. Stands(s)'
      BY <1>8, <2>1, <3>2, <3>1 DEF UndoFails, Put, RemoveRules, Misfortune,
         HalfRemoved, ghost, Now, Stands, UndoStands, KnowsLock, SnapStands,
         ApplyStands, FinalizeStands, GrayStands
    <3> QED
      BY <3>3, <3>4 DEF Sound
  <2> QED
    BY <1>8, <2>2, <2>3 DEF Onward, UndoFails, ghost
<1>9. ASSUME UndoFails(s), At(s, "restart") PROVE Onward(s)
  <2>1. Now(s, procs[s].kind, "exited", 1, "ok", "no", "ERROR")
    BY <1>9, ExitNow DEF UndoFails, RTypeOK, Here, Outs, Orderly
  <2>2. RTypeOK' /\ Moves(s)
    BY <1>9, <2>1, PathsAre, RouteFaultsAssumption, OrderedPath DEF UndoFails, Put,
       RemoveRules, Misfortune, HalfRemoved, ghost, Now, RTypeOK, Here, Content,
       Rules, Moves, Orderly, Alive, Saved
  <2>3. ASSUME taint' = {}, Sound(s) PROVE Sound(s)'
    <3>1. taint = {} /\ Sound(s)
      BY <1>9, <2>3 DEF UndoFails, Here, ghost
    <3>2. Stands(s) /\ procs[s].kind # "finalize" /\ txn # "none" /\ KnowsLock(s)
      BY <1>9, <3>1 DEF UndoFails, Sound, Alive, Stands, FinalizeStands, UndoStands
    <3>3. PreAgrees' /\ Settled' /\ Recoverable(s)' /\ AnswerTrue(s)' /\ Finalizable(s)'
      BY <1>9, <2>1, <3>2, <3>1 DEF UndoFails, Put, RemoveRules, Misfortune,
         HalfRemoved, ghost, PreAgrees, Settled, Sound, AsBefore, GrayDone,
         OrangeDone, Now, Recoverable, SnapExact, IsSaved, AnswerTrue, Finalizable
    <3>4. ~Alive(s)'
      BY <2>1 DEF Now, Alive
    <3> QED
      BY <3>3, <3>4 DEF Sound
  <2> QED
    BY <1>9, <2>2, <2>3 DEF Onward, UndoFails, ghost
<1>10. ASSUME Dies(s) PROVE Onward(s)
  <2>1. Now(s, procs[s].kind, "exited", 1, "ok", "no", "ERROR")
    BY <1>10, ExitNow DEF Dies, RTypeOK, Here, Outs
  <2>2. RTypeOK' /\ Moves(s)
    BY <1>10, <2>1, PathsAre, RouteFaultsAssumption DEF Dies, Misfortune,
       HalfRemoved, Leftovers, ghost, Now, RTypeOK, Here, Content, Rules, Moves,
       Orderly, Alive, Unwritten, Saved
  <2>3. ASSUME taint' = {}, Sound(s) PROVE Sound(s)'
    <3>1. taint = {} /\ Sound(s)
      BY <1>10, <2>3 DEF Dies, Here
    <3>2. /\ Stands(s)
          /\ procs[s].pc \notin Snapping \cup {"wipe", "discard"}
          /\ procs[s].pc \in {"lock", "relock", "unlock", "grayLock", "unlockAgain"} =>
               txn # "none" /\ procs[s].kind # "finalize"
      BY <1>10, <3>1, <2>3 DEF Dies, Sound, Alive, Stands, ApplyStands, GrayStands,
         UndoStands, FinalizeStands
    <3>3. PreAgrees' /\ Settled' /\ Recoverable(s)' /\ AnswerTrue(s)' /\ Finalizable(s)'
      BY <1>10, <2>1, <3>2, <3>1 DEF Dies, Misfortune, HalfRemoved, Leftovers,
         PreAgrees, Settled, Sound, AsBefore, GrayDone, OrangeDone, StagedNode, Now,
         Recoverable, SnapExact, IsSaved, AnswerTrue, Finalizable
    <3>4. ~Alive(s)'
      BY <2>1 DEF Now, Alive
    <3> QED
      BY <3>3, <3>4 DEF Sound
  <2> QED
    BY <1>10, <2>2, <2>3 DEF Onward, Dies
<1> QED
  BY <1>1, <1>2, <1>3, <1>4, <1>5, <1>6, <1>7, <1>8, <1>9, <1>10 DEF ScriptFault,
     UndoFails
-----------------------------------------------------------------------------
(* From the process that steps to all of them and the session.             *)

\* No action of the script is taken by a process that does not run.
LEMMA StepAlive ==
  ASSUME NEW s \in Slots, ScriptStep(s) \/ ScriptFault(s)
  PROVE  Alive(s)
<1> USE DEF At, Alive, Running, Snapping, Staging, Graying, Undoing
<1>1. ASSUME Beginning(s) PROVE Alive(s)
  BY <1>1 DEF Beginning, BeginRefused, Begin, SnapMark, SnapCopy, Begun
<1>2. ASSUME Applying(s) PROVE Alive(s)
  BY <1>2 DEF Applying, Create, Unlock, Fetch, FetchRefused, Lock, LockRefused, Stage, Edge,
     Staged, StagedNowhere
<1>3. ASSUME Finalizing(s) PROVE Alive(s)
  BY <1>3 DEF Finalizing, FinalizeRefused, FinalizeStarts, DeleteReality, CommitState,
     CommitTopology
<1>4. ASSUME GoingGray(s) PROVE Alive(s)
  BY <1>4 DEF GoingGray, Unstage, GrayLock, DeleteXhttp, GrayState
<1>5. ASSUME RollingBack(s) PROVE Alive(s)
  BY <1>5 DEF RollingBack, RollbackCalled, NothingPending, UndoStarts, UnlockAgain, Erase,
     Restore, RestoreVanished, Restored, Relock, Restart, Discard
<1>6. ASSUME Wipe(s) PROVE Alive(s)
  BY <1>6 DEF Wipe
<1>7. ASSUME ScriptFault(s) PROVE Alive(s)
  BY <1>7 DEF ScriptFault, SnapFails, TrapFires, UnlockIgnored, FinalizeFails, UndoFails, Dies
<1> QED
  BY <1>1, <1>2, <1>3, <1>4, <1>5, <1>6, <1>7 DEF ScriptStep

\* The inductive invariant.
RouteInv == STypeOK /\ AllOrderly /\ Waits /\ Clean

\* A process is where its own steps find it, whatever others have done.
LEMMA ScriptOnward ==
  ASSUME STypeOK, AllOrderly, NEW s \in Slots, ScriptStep(s) \/ ScriptFault(s)
  PROVE  Onward(s)
<1>1. Here(s)
  BY DEF STypeOK, AllOrderly, Here
<1> QED
  BY <1>1, BeginningStep, ApplyingStep, FinalizingStep, GoingGrayStep, RollingBackStep,
     DoneStep, ScriptFaultStep DEF ScriptStep

LEMMA RunnerSound ==
  ASSUME RouteInv, NEW s \in Slots, Alive(s), taint = {}
  PROVE  Sound(s)
<1>1. \A t \in Slots : Alive(t) => t = s
  BY DEF RouteInv, Clean, Alone
<1>2. procs[s].pc \notin Snapping => \A t \in Slots : procs[t].pc \notin Snapping
  BY <1>1 DEF Alive, Running
<1>3. Stands(s)
  BY DEF RouteInv, Clean
<1>4. Recoverable(s)
  BY <1>2 DEF RouteInv, Clean, Pending, Recoverable
<1>5. AnswerTrue(s)
  BY DEF RouteInv, AllOrderly, Orderly, At, Alive, Running, Snapping, Staging, Graying,
     Undoing, AnswerTrue
<1>6. Finalizable(s)
  BY <1>3 DEF Stands, FinalizeStands, Finalizable, FinalNode
<1> QED
  BY <1>3, <1>4, <1>5, <1>6 DEF Sound, RouteInv, Clean

LEMMA ScriptKeeps ==
  ASSUME RouteInv, NEW s \in Slots, ScriptStep(s) \/ ScriptFault(s), UNCHANGED <<cl, told>>
  PROVE  RouteInv'
<1>1. Onward(s) /\ Alive(s)
  BY ScriptOnward, StepAlive DEF RouteInv
<1>2. Moves(s)
  BY <1>1 DEF Onward
<1>3. STypeOK'
  BY <1>1 DEF Onward, RouteInv, STypeOK
<1>4. AllOrderly'
  BY <1>2 DEF Moves, RouteInv, AllOrderly, Orderly, At
<1>5. Waits'
  BY <1>2 DEF Moves, RouteInv, Waits, At, Running, Snapping, Staging, Graying, Undoing
<1>6. ASSUME taint' = {} PROVE Clean'
  <2>1. taint = {} /\ Sound(s)'
    BY <1>1, <1>6, RunnerSound DEF Onward
  <2>2. \A t \in Slots : Alive(t)' => t = s
    BY <1>2, <2>1 DEF Moves, RouteInv, Clean, Alone, Alive
  <2>3. cl.slot \in Slots => cl.slot = s
    BY <1>2, <2>1 DEF Moves, RouteInv, Clean, Attached
  <2>4. cl.pc \notin {"validate", "finalize"}
    BY <1>2, <2>1 DEF Moves, RouteInv, Clean, Attached
  <2>5. cl.pc = "finalizing" => procs'[s].kind = "finalize"
    BY <1>2, <2>3 DEF Moves, RouteInv, Waits, KindOf, STypeOK, Session
  <2>6. Alone'
    BY <2>2 DEF Alone
  <2>7. Attached'
    BY <2>1, <2>2, <2>3, <2>4, <2>5 DEF Attached, Sound, Finalizable
  <2>8. Pending'
    BY <2>1 DEF Pending, Sound, Recoverable
  <2>9. \A t \in Slots : Alive(t)' => Stands(t)'
    BY <2>1, <2>2 DEF Sound
  <2> QED
    BY <2>1, <2>6, <2>7, <2>8, <2>9 DEF Clean, Sound
<1>7. Clean'
  BY <1>6 DEF Clean
<1> QED
  BY <1>3, <1>4, <1>5, <1>7 DEF RouteInv

-----------------------------------------------------------------------------
(* The session.                                                            *)

\* A request leaves one process that starts, or a tainted history.
LEMMA RequestKeeps ==
  ASSUME RouteInv, NEW s \in Slots, NEW k \in Kinds, Spawn(s, k),
         cl'.slot = s, cl'.pc \in DOMAIN KindOf, k = KindOf[cl'.pc],
         k = "finalize" => cl.pc \in {"finalize", "finalizing"}
  PROVE  AllOrderly' /\ Waits' /\ Clean'
<1>1. Now(s, k, "start", 1, "ok", "no", "-")
  BY SpawnNow DEF RouteInv, STypeOK, RTypeOK
<1>2. AllOrderly'
  BY <1>1 DEF Now, RouteInv, AllOrderly, Orderly, At
<1>3. Waits'
  BY <1>1, NoRouteSlotAssumption DEF Now, Waits, At, KindOf
<1>4. ASSUME taint' = {} PROVE Clean'
  <2>1. \A t \in Slots : ~Alive(t)
    BY <1>4 DEF Spawn
  <2>2. Alive(s)' /\ (\A t \in Slots : Alive(t)' => t = s)
    BY <1>1, <2>1 DEF Now, Alive, Running
  <2>3. UNCHANGED disk
    BY DEF Spawn
  <2>4. procs'[s].pc \notin Snapping
    BY <1>1 DEF Now, Snapping
  <2>5. CASE k \in {"apply", "toGray"} /\ txn = "none" /\ IsWhole
    <3>1. pre' = [node |-> node, rules |-> rules]
      BY <2>1, <2>5 DEF Spawn
    <3>2. PreAgrees' /\ Settled'
      BY <2>3, <2>5, <3>1, WholeAgrees DEF disk, PreAgrees, Settled, AsBefore
    <3>3. Pending' /\ Alone' /\ Attached'
      BY <1>1, <2>2, <2>3, <2>5 DEF Now, disk, Pending, Alone, Attached, AnswerTrue, KindOf
    <3>4. Stands(s)'
      BY <1>1, <2>3, <2>5 DEF Now, disk, Stands, SnapStands, ApplyStands, FinalizeStands,
         GrayStands, UndoStands, Snapping, Staging, Graying, Restoring
    <3> QED
      BY <2>2, <3>2, <3>3, <3>4 DEF Clean
  <2>6. CASE ~(k \in {"apply", "toGray"} /\ txn = "none" /\ IsWhole)
    <3>1. UNCHANGED ghost /\ taint = {}
      BY <1>4, <2>1, <2>6 DEF Spawn, ghost
    <3>2. PreAgrees' /\ Settled'
      BY <2>3, <3>1 DEF disk, ghost, RouteInv, Clean, PreAgrees, Settled, AsBefore, GrayDone,
         OrangeDone
    <3>3. \A t \in Slots : procs[t].pc \notin Snapping
      BY <2>1 DEF Alive, Running
    <3>4. Pending'
      BY <2>3, <3>1, <3>3 DEF disk, ghost, RouteInv, Clean, Pending, SnapExact, IsSaved
    <3>5. k = "finalize" /\ txn = "staged" => StagedNode
      BY <3>1 DEF RouteInv, Clean, Attached
    <3>6. Alone' /\ Attached'
      BY <1>1, <2>2, <2>3, <3>5 DEF Now, disk, Alone, Attached, AnswerTrue, KindOf, StagedNode
    <3>7. Stands(s)'
      BY <1>1, <2>3, <3>5 DEF Now, disk, Stands, SnapStands, ApplyStands, FinalizeStands,
         GrayStands, UndoStands, Snapping, Staging, Graying, Restoring, StagedNode
    <3> QED
      BY <2>2, <3>1, <3>2, <3>4, <3>6, <3>7 DEF Clean
  <2> QED
    BY <2>5, <2>6
<1> QED
  BY <1>2, <1>3, <1>4 DEF Clean

\* Reaping what has exited changes nothing that is known of the node.
Reaps ==
  /\ UNCHANGED <<disk, ghost>> /\ procs' \in [Slots -> Proc]
  /\ \A t \in Slots : procs'[t] = procs[t] \/ (At(t, "exited") /\ procs'[t] = FreeSlot)

LEMMA ReapsKeeps ==
  ASSUME RouteInv, Reaps
  PROVE  AllOrderly' /\ (taint' = {} /\ Attached' => Clean')
<1> USE DEF Reaps
<1>1. AllOrderly'
  BY FreeIs DEF RouteInv, AllOrderly, Orderly, At
<1>2. ASSUME taint' = {}, Attached' PROVE Clean'
  <2>1. taint = {}
    BY <1>2 DEF ghost
  <2>2. \A t \in Slots : (Alive(t)' <=> Alive(t)) /\ (Alive(t) => procs'[t] = procs[t])
    BY FreeIs DEF At, Alive, Running, Snapping, Staging, Graying, Undoing
  <2>3. Alone'
    BY <2>1, <2>2 DEF RouteInv, Clean, Alone
  <2>4. PreAgrees' /\ Settled'
    BY <2>1 DEF disk, ghost, RouteInv, Clean, PreAgrees, Settled, AsBefore, GrayDone,
       OrangeDone
  <2>5. \A t \in Slots : procs[t].pc \in Snapping => procs'[t].pc \in Snapping
    BY DEF At, Snapping
  <2>6. Pending'
    BY <2>1, <2>5 DEF disk, ghost, RouteInv, Clean, Pending, SnapExact, IsSaved
  <2>7. ASSUME NEW t \in Slots, Alive(t)' PROVE Stands(t)'
    <3>1. Stands(t) /\ procs'[t] = procs[t]
      BY <2>1, <2>2, <2>7 DEF RouteInv, Clean
    <3>2. SnapStands(t)' /\ ApplyStands(t)'
      BY <3>1 DEF disk, ghost, Stands, SnapStands, ApplyStands, AsBefore, IsSaved
    <3>3. FinalizeStands(t)' /\ GrayStands(t)'
      BY <3>1 DEF disk, ghost, Stands, FinalizeStands, GrayStands, FinalNode, StagedNode,
         GrayDone, OrangeDone
    <3>4. UndoStands(t)'
      BY <3>1 DEF disk, ghost, Stands, UndoStands, KnowsLock, AsBefore
    <3> QED
      BY <3>2, <3>3, <3>4 DEF Stands
  <2> QED
    BY <1>2, <2>3, <2>4, <2>6, <2>7 DEF Clean
<1> QED
  BY <1>1, <1>2

\* The session turns from its process, which may go on or have answered.
LEMMA LeavesKeeps ==
  ASSUME RouteInv, Reaps, cl'.slot = NoSlot, cl'.pc \in {"idle", "validate", "undo"},
         cl'.pc = "validate" /\ taint = {} =>
           (\A t \in Slots : ~Alive(t)) /\ txn = "staged" /\ StagedNode
  PROVE  AllOrderly' /\ Waits' /\ Clean'
<1>1. Waits'
  BY NoRouteSlotAssumption DEF Waits
<1>2. \A t \in Slots : Alive(t)' => Alive(t)
  BY FreeIs DEF Reaps, At, Alive, Running, Snapping, Staging, Graying, Undoing
<1>3. taint' = {} => Attached'
  BY <1>2, NoRouteSlotAssumption DEF Attached, Reaps, disk, ghost, StagedNode
<1> QED
  BY <1>1, <1>3, ReapsKeeps DEF Clean

\* An answer that the session takes, or a process that it forgot.
LEMMA ReapReaps ==
  ASSUME procs \in [Slots -> Proc], NEW s \in Slots, Reap(s)
  PROVE  Reaps
<1>1. procs' = [procs EXCEPT ![s] = FreeSlot] /\ At(s, "exited") /\ UNCHANGED <<disk, ghost>>
  BY DEF Reap
<1> QED
  BY <1>1, FreeIs DEF Reaps

LEMMA OrphanKeeps ==
  ASSUME RouteInv, NEW s \in Slots, ReapOrphan(s)
  PROVE  RouteInv'
<1>1. Reap(s) /\ s # cl.slot /\ UNCHANGED <<faults, cl, told>>
  BY DEF ReapOrphan
<1>2. procs' = [procs EXCEPT ![s] = FreeSlot] /\ At(s, "exited") /\ Reaps
  BY <1>1, ReapReaps DEF Reap, RouteInv, STypeOK, RTypeOK
<1>3. STypeOK'
  BY <1>1, <1>2 DEF RouteInv, STypeOK, RTypeOK, Reaps, disk, ghost
<1>4. Waits'
  BY <1>1, <1>2 DEF RouteInv, STypeOK, RTypeOK, Waits, At
<1>5. \A t \in Slots : Alive(t)' => Alive(t)
  BY <1>2, FreeIs DEF Reaps, At, Alive, Running, Snapping, Staging, Graying, Undoing
<1>6. taint' = {} => Attached'
  BY <1>1, <1>2, <1>5 DEF RouteInv, Clean, STypeOK, RTypeOK, Attached, AnswerTrue, Reaps,
     disk, ghost, StagedNode, AsBefore, GrayDone, OrangeDone
<1> QED
  BY <1>2, <1>3, <1>4, <1>6, ReapsKeeps DEF RouteInv, Clean

-----------------------------------------------------------------------------
(* Every step of the session keeps the invariant.                          *)

\* What the helpers make of the types.
LEMMA MoveTyped ==
  ASSUME NEW pc \in ClientPc, Move(pc)
  PROVE  cl' \in Session /\ cl'.pc = pc /\ cl'.slot = NoSlot
  BY DEF Move, AtMenu, Session

LEMMA EndTyped ==
  ASSUME NEW msg \in Message, End(msg)
  PROVE  cl' \in Session /\ cl'.pc = "idle" /\ cl'.slot = NoSlot /\ told' \in Message
  BY DEF End, AtMenu, Session, ClientPc

LEMMA RequestTyped ==
  ASSUME RouteInv, NEW k \in Kinds, NEW pc \in DOMAIN KindOf, Request(k, pc),
         k = KindOf[pc], k = "finalize" => cl.pc = "finalize",
         UNCHANGED faults, told' \in Message
  PROVE  RouteInv'
<1>1. PICK s \in Slots : Spawn(s, k) /\ cl' = [AtMenu EXCEPT !.pc = pc, !.slot = s]
  BY DEF Request
<1>2. cl' \in Session /\ cl'.slot = s /\ cl'.pc = pc
  BY <1>1 DEF AtMenu, Session, ClientPc, KindOf
<1>3. procs' \in [Slots -> Proc]
  BY <1>1, SpawnNow DEF RouteInv, STypeOK, RTypeOK, Now
<1>4. pre' \in [node : [Paths -> Content], rules : Rules] /\ taint' \subseteq {"overlap", "partial"}
  BY <1>1 DEF Spawn, ghost, RouteInv, STypeOK, RTypeOK
<1>5. STypeOK'
  BY <1>1, <1>2, <1>3, <1>4 DEF Spawn, disk, RouteInv, STypeOK, RTypeOK
<1> QED
  BY <1>1, <1>2, <1>5, RequestKeeps DEF RouteInv

\* What the session knows when its process has answered.
LEMMA AnswerKnown ==
  ASSUME RouteInv, NEW outs, Answered(outs), taint = {}
  PROVE  AnswerTrue(cl.slot) /\ (\A t \in Slots : ~Alive(t))
BY DEF RouteInv, Clean, Attached, Answered, At, Alive, Running, Snapping, Staging, Graying,
   Undoing

LEMMA AnsweredKeeps ==
  ASSUME RouteInv, NEW outs, Answered(outs), cl' \in Session, told' \in Message,
         cl'.slot = NoSlot, cl'.pc \in {"idle", "validate", "undo"},
         cl'.pc = "validate" => outs = {"STAGED"}
  PROVE  RouteInv'
<1>1. cl.slot \in Slots /\ Reap(cl.slot) /\ Answer \in outs /\ UNCHANGED faults
  BY DEF Answered
<1>2. Reaps
  BY <1>1, ReapReaps DEF RouteInv, STypeOK, RTypeOK
<1>3. STypeOK'
  BY <1>1, <1>2 DEF RouteInv, STypeOK, RTypeOK, Reaps, disk, ghost
<1>4. cl'.pc = "validate" /\ taint = {} =>
        (\A t \in Slots : ~Alive(t)) /\ txn = "staged" /\ StagedNode
  BY <1>1, AnswerKnown DEF AnswerTrue, Answer
<1> QED
  BY <1>2, <1>3, <1>4, LeavesKeeps DEF RouteInv

\* The session turns from a process that goes on.
LEMMA TurnsKeeps ==
  ASSUME RouteInv, UNCHANGED <<disk, procs, ghost>>, faults' \in 0 .. MaxFaults,
         cl' \in Session, told' \in Message, cl'.slot = NoSlot, cl'.pc \in {"idle", "undo"}
  PROVE  RouteInv'
<1>1. Reaps
  BY DEF Reaps, RouteInv, STypeOK, RTypeOK
<1>2. STypeOK'
  BY DEF RouteInv, STypeOK, RTypeOK, disk, ghost
<1> QED
  BY <1>1, <1>2, LeavesKeeps DEF RouteInv

LEMMA ConfirmedKeeps ==
  ASSUME RouteInv, Confirmed
  PROVE  RouteInv'
<1>1. /\ In("validate") /\ node["edge"] \in {"validated", "confirmed"}
      /\ node' = [node EXCEPT !["edge"] = "confirmed"]
      /\ UNCHANGED <<rules, txn, snap, procs, faults, ghost, told>>
  BY DEF Confirmed, Put
<1>2. cl' \in Session /\ cl'.slot = NoSlot /\ cl'.pc \in {"finalize", "undo"}
  BY MoveTyped DEF Confirmed, ClientPc
<1>3. STypeOK'
  BY <1>1, <1>2 DEF RouteInv, STypeOK, RTypeOK, Content, ghost
<1>4. AllOrderly' /\ Waits'
  BY <1>1, <1>2, NoRouteSlotAssumption DEF RouteInv, AllOrderly, Orderly, Waits, At
<1>5. ASSUME taint' = {} PROVE Clean'
  <2>1. taint = {} /\ txn = "staged" /\ StagedNode /\ \A t \in Slots : ~Alive(t)
    BY <1>1, <1>5 DEF ghost, RouteInv, Clean, Attached, In
  <2>2. \A t \in Slots : ~Alive(t)'
    BY <1>1, <2>1 DEF Alive
  <2>3. StagedNode'
    BY <1>1, <2>1, PathsAre DEF StagedNode, RouteInv, STypeOK, RTypeOK
  <2>4. Alone' /\ Attached'
    BY <1>1, <1>2, <2>1, <2>2, <2>3, NoRouteSlotAssumption DEF Alone, Attached
  <2>5. PreAgrees' /\ Settled'
    BY <1>1, <2>1 DEF ghost, RouteInv, Clean, PreAgrees, Settled
  <2>6. Pending'
    BY <1>1, <2>1 DEF ghost, RouteInv, Clean, Pending, SnapExact, IsSaved
  <2> QED
    BY <2>2, <2>4, <2>5, <2>6 DEF Clean
<1> QED
  BY <1>3, <1>4, <1>5 DEF RouteInv, Clean

LEMMA RetryKeeps ==
  ASSUME RouteInv, Retry
  PROVE  RouteInv'
<1>1. cl.slot \in Slots /\ faults' = faults + 1 /\ faults < MaxFaults /\ told' = told
  BY DEF Retry, Misfortune
<1>2. PICK s \in Slots, kept \in BOOLEAN :
        /\ Spawn(s, procs[cl.slot].kind)
        /\ cl' = [cl EXCEPT !.slot = s, !.retried = TRUE,
                            !.proof = kept /\ Answer = "ERROR_ROLLED_BACK"]
  BY DEF Retry
<1>3. cl' \in Session /\ cl'.slot = s /\ cl'.pc = cl.pc
  BY <1>2 DEF RouteInv, STypeOK, Session
<1>4. procs[cl.slot].kind \in Kinds /\ procs[cl.slot].kind = KindOf[cl.pc]
  BY <1>1 DEF RouteInv, STypeOK, RTypeOK, Waits, Proc
<1>5. cl.pc \in DOMAIN KindOf
  BY <1>1, NoRouteSlotAssumption DEF RouteInv, STypeOK, Session, ClientPc, Waits, KindOf
<1>6. procs[cl.slot].kind = "finalize" => cl.pc = "finalizing"
  BY <1>4, <1>5 DEF KindOf
<1>7. procs' \in [Slots -> Proc]
  BY <1>2, <1>4, SpawnNow DEF RouteInv, STypeOK, RTypeOK, Now
<1>8. pre' \in [node : [Paths -> Content], rules : Rules] /\ taint' \subseteq {"overlap", "partial"}
  BY <1>2 DEF Spawn, ghost, RouteInv, STypeOK, RTypeOK
<1>9. STypeOK'
  BY <1>1, <1>2, <1>3, <1>7, <1>8, RouteFaultsAssumption
     DEF Spawn, disk, RouteInv, STypeOK, RTypeOK
<1> QED
  BY <1>2, <1>3, <1>4, <1>5, <1>6, <1>9, RequestKeeps DEF RouteInv

LEMMA ClientKeeps ==
  ASSUME RouteInv, ClientStep
  PROVE  RouteInv'
<1> USE DEF Kinds, ClientPc, Message, KindOf
<1>1. ASSUME StartStaging PROVE RouteInv'
  BY <1>1, RequestTyped DEF StartStaging
<1>2. ASSUME StartGray PROVE RouteInv'
  BY <1>2, RequestTyped DEF StartGray
<1>3. ASSUME StageSucceeded PROVE RouteInv'
  BY <1>3, MoveTyped, AnsweredKeeps DEF StageSucceeded, RouteInv, STypeOK
<1>4. ASSUME StageFailed PROVE RouteInv'
  BY <1>4, MoveTyped, EndTyped, AnsweredKeeps DEF StageFailed, RouteInv, STypeOK
<1>5. ASSUME Confirmed PROVE RouteInv'
  BY <1>5, ConfirmedKeeps
<1>6. ASSUME ValidationFailed PROVE RouteInv'
  BY <1>6, MoveTyped, TurnsKeeps DEF ValidationFailed, rvars, RouteInv, STypeOK, RTypeOK
<1>7. ASSUME FinalizeRequested PROVE RouteInv'
  BY <1>7, RequestTyped DEF FinalizeRequested, In, RouteInv, STypeOK
<1>8. ASSUME FinalizeAnswered PROVE RouteInv'
  BY <1>8, MoveTyped, EndTyped, AnsweredKeeps DEF FinalizeAnswered, RouteInv, STypeOK
<1>9. ASSUME UndoRequested PROVE RouteInv'
  BY <1>9, RequestTyped DEF UndoRequested, RouteInv, STypeOK
<1>10. ASSUME RollbackAnswered PROVE RouteInv'
  BY <1>10, EndTyped, AnsweredKeeps DEF RollbackAnswered
<1>11. ASSUME GrayAnswered PROVE RouteInv'
  BY <1>11, EndTyped, AnsweredKeeps DEF GrayAnswered
<1> QED
  BY <1>1, <1>2, <1>3, <1>4, <1>5, <1>6, <1>7, <1>8, <1>9, <1>10, <1>11 DEF ClientStep

LEMMA FaultKeeps ==
  ASSUME RouteInv, ClientFault
  PROVE  RouteInv'
<1> USE DEF ClientPc, Message, Misfortune
<1>1. ASSUME GivesUp PROVE RouteInv'
  BY <1>1, MoveTyped, EndTyped, TurnsKeeps, RouteFaultsAssumption
     DEF GivesUp, RouteInv, STypeOK, RTypeOK
<1>2. ASSUME Killed PROVE RouteInv'
  BY <1>2, EndTyped, TurnsKeeps, RouteFaultsAssumption DEF Killed, RouteInv, STypeOK, RTypeOK
<1> QED
  BY <1>1, <1>2, RetryKeeps DEF ClientFault

LEMMA NextKeeps ==
  ASSUME RouteInv, SNext
  PROVE  RouteInv'
BY ClientKeeps, FaultKeeps, OrphanKeeps, ScriptKeeps DEF SNext

LEMMA StutterKeeps ==
  ASSUME RouteInv, UNCHANGED svars
  PROVE  RouteInv'
<1>1. Reaps
  BY DEF Reaps, svars, rvars, disk, ghost, RouteInv, STypeOK, RTypeOK
<1>2. STypeOK' /\ Waits'
  BY DEF svars, rvars, disk, ghost, RouteInv, STypeOK, RTypeOK, Waits, At
<1>3. taint' = {} => Attached'
  BY DEF svars, rvars, disk, ghost, RouteInv, Clean, Attached, Alive, AnswerTrue, StagedNode,
     AsBefore, GrayDone, OrangeDone
<1> QED
  BY <1>1, <1>2, <1>3, ReapsKeeps DEF RouteInv, Clean

LEMMA StartsWell == SInit => RouteInv
<1> SUFFICES ASSUME SInit PROVE RouteInv
  OBVIOUS
<1>1. (\A s \in Slots : procs[s] = FreeSlot) /\ procs \in [Slots -> Proc]
  BY FreeIs DEF SInit, RInit
<1>2. GrayNode \in [Paths -> Content] /\ OrangeNode \in [Paths -> Content]
  BY DEF GrayNode, OrangeNode, Content
<1>3. Unwritten \in [Paths -> Saved]
  BY DEF Unwritten, Saved, Content
<1>4. STypeOK
  BY <1>1, <1>2, <1>3, RouteFaultsAssumption
     DEF SInit, RInit, STypeOK, RTypeOK, Rules, AtMenu, Session, ClientPc, Message
<1>5. AllOrderly /\ Waits
  BY <1>1, FreeIs, NoRouteSlotAssumption DEF SInit, AllOrderly, Orderly, At, Waits, AtMenu
<1>6. \A s \in Slots : ~Alive(s)
  BY <1>1, FreeIs DEF Alive, Running, Snapping, Staging, Graying, Undoing
<1>7. IsWhole /\ AsBefore
  BY DEF SInit, RInit, IsWhole, AsBefore
<1>8. PreAgrees
  BY <1>7, WholeAgrees DEF PreAgrees, AsBefore
<1>9. Alone /\ Attached
  BY <1>6, NoRouteSlotAssumption DEF Alone, Attached, SInit, AtMenu
<1>10. Pending /\ Settled
  BY <1>7 DEF Pending, Settled, SInit, RInit
<1> QED
  BY <1>4, <1>5, <1>6, <1>8, <1>9, <1>10 DEF RouteInv, Clean

-----------------------------------------------------------------------------
(* The theorems.                                                           *)

LEMMA RouteInvariant == SSpec => []RouteInv
<1>1. SInit => RouteInv
  BY StartsWell
<1>2. RouteInv /\ [SNext]_svars => RouteInv'
  BY NextKeeps, StutterKeeps
<1> QED
  BY <1>1, <1>2, PTL DEF SSpec

\* Every variable of the session and of the script stays in its domain.
THEOREM RouteTypeCorrect == SSpec => []STypeOK
<1>1. RouteInv => STypeOK
  BY DEF RouteInv
<1> QED
  BY <1>1, RouteInvariant, PTL

\* Whatever crashes, fails or is repeated, no mixture of two routes is left
\* without a transaction, as long as no two processes of the script have run
\* at once and no snapshot was cut.
THEOREM RouteNeverMixed == SSpec => []NoMixedRoute
<1>1. RouteInv => NoMixedRoute
  BY DEF RouteInv, Clean, Settled, AsBefore, NoMixedRoute
<1> QED
  BY <1>1, RouteInvariant, PTL

\* A rollback that reports success has restored every file and the origin
\* lock, after any number of attempts that were cut short.
THEOREM RollbackIsExact == SSpec => CleanRollbackExact
<1> DEFINE Exact == \A s \in Slots : ReportsRollback(s) /\ taint = {} => IsPreImage
<1>1. ASSUME RouteInv, SNext, NEW s \in Slots, ReportsRollback(s), taint = {}
      PROVE  IsPreImage
  <2>1. procs' # procs /\ procs'[s].out # "-" /\ procs'[s].out # procs[s].out
    BY <1>1 DEF ReportsRollback
  <2>2. ASSUME NEW t \in Slots, ScriptStep(t) \/ ScriptFault(t) PROVE IsPreImage
    <3>1. Onward(t) /\ Moves(t) /\ Alive(t)
      BY <1>1, <2>2, ScriptOnward, StepAlive DEF Onward, RouteInv
    <3>2. t = s
      BY <2>1, <3>1 DEF Moves
    <3>3. UNCHANGED ghost
      BY <1>1, <3>1, <3>2 DEF Moves, ReportsRollback
    <3>4. AnswerTrue(s)'
      BY <1>1, <3>1, <3>2, <3>3, RunnerSound DEF Onward, Sound, ghost
    <3> QED
      BY <1>1, <3>3, <3>4 DEF AnswerTrue, ReportsRollback, AsBefore, IsPreImage, ghost
  <2>3. ASSUME NEW t \in Slots, Reap(t) PROVE FALSE
    BY <1>1, <2>1, <2>3, FreeIs DEF Reap, RouteInv, STypeOK, RTypeOK
  <2>4. ASSUME NEW t \in Slots, NEW k \in Kinds, Spawn(t, k) PROVE FALSE
    BY <1>1, <2>1, <2>4, SpawnNow DEF Now, RouteInv, STypeOK, RTypeOK
  <2>5. ASSUME NEW k \in Kinds, NEW pc, Request(k, pc) PROVE FALSE
    BY <2>4, <2>5 DEF Request
  <2>6. ASSUME NEW outs, Answered(outs) PROVE FALSE
    BY <2>3, <2>6 DEF Answered
  <2>7. ~ClientStep
    <3>1. ~StartStaging /\ ~StartGray /\ ~FinalizeRequested /\ ~UndoRequested
      BY <2>5 DEF StartStaging, StartGray, FinalizeRequested, UndoRequested, Kinds
    <3>2. ~StageSucceeded /\ ~StageFailed /\ ~FinalizeAnswered /\ ~RollbackAnswered
            /\ ~GrayAnswered
      BY <2>6 DEF StageSucceeded, StageFailed, FinalizeAnswered, RollbackAnswered,
         GrayAnswered
    <3>3. ~Confirmed /\ ~ValidationFailed
      BY <2>1 DEF Confirmed, ValidationFailed, rvars
    <3> QED
      BY <3>1, <3>2, <3>3 DEF ClientStep
  <2>8. ~ClientFault
    <3>1. ~Retry
      BY <1>1, <2>4 DEF Retry, RouteInv, STypeOK, RTypeOK, Proc
    <3>2. ~GivesUp /\ ~Killed
      BY <2>1 DEF GivesUp, Killed
    <3> QED
      BY <3>1, <3>2 DEF ClientFault
  <2> QED
    BY <1>1, <2>2, <2>3, <2>7, <2>8 DEF SNext, ReapOrphan
<1>2. RouteInv /\ [SNext]_svars => [Exact]_rvars
  BY <1>1 DEF svars
<1>3. CleanRollbackExact <=> [][Exact]_rvars
  BY DEF CleanRollbackExact
<1> QED
  BY <1>2, RouteInvariant, PTL DEF SSpec, CleanRollbackExact

\* A session that reports the change as made leaves a finished route.
THEOREM ReconciledSaysTrue == SSpec => ReconciledTrue
<1> DEFINE Honest == Says("reconciled") /\ taint = {} => txn = "none" /\ (GrayDone \/ OrangeDone)
<1>1. ASSUME RouteInv, SNext, Says("reconciled"), taint = {}
      PROVE  txn = "none" /\ (GrayDone \/ OrangeDone)
  <2>1. FinalizeAnswered \/ GrayAnswered
    BY <1>1 DEF Says, SNext, ClientStep, ClientFault, StartStaging, StartGray, StageSucceeded,
       StageFailed, Confirmed, ValidationFailed, FinalizeRequested, UndoRequested,
       RollbackAnswered, Retry, GivesUp, Killed, ReapOrphan, End
  <2>2. Answered({"RECONCILED"})
    BY <1>1, <2>1 DEF Says, FinalizeAnswered, GrayAnswered, FinalEvidence, End
  <2> QED
    BY <1>1, <2>2, AnswerKnown DEF Answered, Answer, AnswerTrue
<1>2. RouteInv /\ [SNext]_svars => [Honest]_svars
  BY <1>1
<1> QED
  BY <1>2, RouteInvariant, PTL DEF SSpec, ReconciledTrue

\* A session that does not report a failed rollback has left the node as it
\* was, with nothing pending.
THEOREM RestoredSaysTrue == SSpec => RestoredTrue
<1> DEFINE Honest == Says("restored") /\ taint = {} /\ ~cl.proof => txn = "none" /\ IsPreImage
<1>1. ASSUME RouteInv, SNext, Says("restored"), taint = {}, ~cl.proof
      PROVE  txn = "none" /\ IsPreImage
  <2>1. StageFailed \/ RollbackAnswered
    BY <1>1 DEF Says, SNext, ClientStep, ClientFault, StartStaging, StartGray, StageSucceeded,
       GrayAnswered, Confirmed, ValidationFailed, FinalizeRequested, UndoRequested,
       FinalizeAnswered, Retry, GivesUp, Killed, ReapOrphan, End
  <2>2. CASE StageFailed
    <3>1. Answered(Outs \ {"STAGED"}) /\ Answer = "ERROR_ROLLED_BACK"
      BY <1>1, <2>2 DEF Says, StageFailed
    <3> QED
      BY <1>1, <3>1, AnswerKnown DEF Answered, Answer, AnswerTrue, AsBefore, IsPreImage, Reap,
         disk, ghost
  <2>3. CASE RollbackAnswered
    <3>1. Answered({"ROLLED_BACK"})
      BY <1>1, <2>3 DEF Says, RollbackAnswered, RestoreEvidence, End
    <3> QED
      BY <1>1, <3>1, AnswerKnown DEF Answered, Answer, AnswerTrue, AsBefore, IsPreImage, Reap,
         disk, ghost
  <2> QED
    BY <2>1, <2>2, <2>3
<1>2. RouteInv /\ [SNext]_svars => [Honest]_svars
  BY <1>1
<1> QED
  BY <1>2, RouteInvariant, PTL DEF SSpec, RestoredTrue
=============================================================================
