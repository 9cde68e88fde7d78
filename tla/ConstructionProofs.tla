------------------------- MODULE ConstructionProofs -------------------------
(***************************************************************************)
(* Proofs about Construction, for any number of processes and misfortunes: *)
(* types, and that no order of the rollbacks of the two transactions, and  *)
(* no run that was killed, leaves a pending route transaction or a mixture *)
(* of routes after a construction.                                         *)
(*                                                                         *)
(* Whether a rollback of the route is exact is of no importance here: a    *)
(* run ends well only if the script has done the whole of a change, and is *)
(* undone by the install transaction otherwise.  So the invariant speaks   *)
(* of the steps of a change, never of its snapshot, and unlike that of     *)
(* RouteSessionProofs it survives a snapshot that is incomplete.           *)
(***************************************************************************)
EXTENDS Construction, RouteSessionProofs

-----------------------------------------------------------------------------
(* The invariant.                                                          *)

Nobody == \A s \in Slots : ~Alive(s)

\* The node of an image is on a whole route, and no transaction is pending in it.
Whole(n, r) == \/ n = GrayNode /\ r = "none"
               \/ n = OrangeNode /\ r = "managed"
               \/ n = GoneGray /\ r = "none"
               \/ n = GoneOrange /\ r = "managed"
GoodImage(image) == image.txn = "none" /\ Whole(image.node, image.rules)

\* What a process that runs may rely on, whatever became of the snapshot.
Standing(s) ==
  /\ procs[s].pc \in Snapping => procs[s].kind \in {"apply", "toGray"} /\ txn # "none"
  /\ ApplyStands(s) /\ FinalizeStands(s) /\ GrayStands(s)
\* What an answer says that lets a run go on.
Positive(s) ==
  /\ procs[s].out = "STAGED" => txn = "staged" /\ StagedNode
  /\ procs[s].out = "RECONCILED" => txn = "none" /\ (GrayDone \/ OrangeDone)
Follows(s) == (Alive(s) => Standing(s)) /\ Positive(s) /\ Finalizable(s)

\* A construction that is not under way, one before its change of route, and
\* one that has its answer, leave the node in one piece.
Rested == Nobody /\ txn = "none" /\ IsWhole
AtRest ==
  \/ inst = {}
  \/ menu \in {"wizard", "route", "handoff"}
  \/ menu = "reconcile" /\ told = "reconciled"

\* The session has no process beside the one it waits for.
Guided ==
  /\ \A s \in Slots : cl.slot = s => Follows(s) /\ \A t \in Slots : Alive(t) => t = s
  /\ cl.pc \in {"validate", "finalize"} => Nobody /\ txn = "staged" /\ StagedNode

Stages ==
  /\ menu # "reconcile" => In("idle")
  /\ menu # "idle" => inst # {}
  /\ menu = "reconcile" /\ ~In("idle") => told = "none"

CTyped == CTypeOK /\ AllOrderly
CInv ==
  /\ CTyped /\ Waits /\ Stages /\ Guided
  /\ \A image \in inst : GoodImage(image)
  /\ AtRest => Rested
-----------------------------------------------------------------------------
(* A step of the script, seen from the process that the session waits for. *)

\* What becomes of the process in a step, without what becomes of its loop.
Goes(s, pc, out) ==
  /\ procs'[s].kind = procs[s].kind /\ procs'[s].pc = pc /\ procs'[s].out = out

LEMMA GotoGoes ==
  ASSUME procs \in [Slots -> Proc], NEW s \in Slots, NEW pc, Goto(s, pc)
  PROVE  Goes(s, pc, procs[s].out)
  BY DEF Goto, Goes, Proc

LEMMA LoopGoes ==
  ASSUME procs \in [Slots -> Proc], NEW s \in Slots, NEW pc, NEW i, Loop(s, pc, i)
  PROVE  Goes(s, pc, procs[s].out)
  BY DEF Loop, Goes, Proc

LEMMA FailGoes ==
  ASSUME procs \in [Slots -> Proc], NEW s \in Slots, NEW pc, Fail(s, pc)
  PROVE  Goes(s, pc, procs[s].out)
  BY DEF Fail, Goes, Proc

LEMMA ExitGoes ==
  ASSUME procs \in [Slots -> Proc], NEW s \in Slots, NEW out, Exit(s, out)
  PROVE  Goes(s, "exited", out)
<1> DEFINE q == [FreeSlot EXCEPT !.kind = procs[s].kind, !.pc = "exited", !.out = out]
<1>1. q.kind = procs[s].kind /\ q.pc = "exited" /\ q.out = out
  BY DEF FreeSlot
<1>2. procs'[s] = q
  BY DEF Exit
<1> QED
  BY <1>1, <1>2 DEF Goes

\* A process that undoes a change, or has failed, says nothing that a run goes
\* on for.
LEMMA Negative ==
  ASSUME NEW s \in Slots, NEW pc \in Undoing \cup {"discard", "exited"}, NEW out, Goes(s, pc, out),
         out \notin {"STAGED", "RECONCILED"}, procs[s].kind # "finalize"
  PROVE  Follows(s)'
  BY DEF Goes, Follows, Standing, ApplyStands, FinalizeStands, GrayStands, Positive,
     Finalizable, Snapping, Staging, Graying, Undoing, Alive, Running

LEMMA BeginningFollows ==
  ASSUME NEW s \in Slots, Here(s), Alive(s), Follows(s), Beginning(s)
  PROVE  Follows(s)'
<1> USE DEF At, Running, Snapping, Staging, Graying, Undoing
<1>0. /\ Standing(s) /\ procs \in [Slots -> Proc] /\ node \in [Paths -> Content]
      /\ procs[s].out = "-"
  BY DEF Follows, Here, RTypeOK, Orderly, Alive
<1>1. ASSUME BeginRefused(s) PROVE Follows(s)'
  <2>1. Goes(s, "exited", "ERROR")
    BY <1>0, <1>1, ExitGoes DEF BeginRefused
  <2> QED
    BY <1>0, <1>1, <2>1, PathsAre DEF BeginRefused, Goes, Follows, Standing, ApplyStands,
       FinalizeStands, GrayStands, Positive, Finalizable, Alive
<1>2. ASSUME Begin(s) PROVE Follows(s)'
  <2>1. Goes(s, "mark", procs[s].out)
    BY <1>0, <1>2, GotoGoes DEF Begin
  <2> QED
    BY <1>0, <1>2, <2>1, PathsAre DEF Begin, Goes, Follows, Standing, ApplyStands,
       FinalizeStands, GrayStands, Positive, Finalizable, Alive
<1>3. ASSUME SnapMark(s), node[Order[procs[s].i]] = "absent" PROVE Follows(s)'
  <2>1. Goes(s, "mark", procs[s].out)
    BY <1>0, <1>3, LoopGoes DEF SnapMark
  <2> QED
    BY <1>0, <1>3, <2>1, PathsAre DEF SnapMark, Goes, Follows, Standing, ApplyStands,
       FinalizeStands, GrayStands, Positive, Finalizable, Alive
<1>4. ASSUME SnapMark(s), node[Order[procs[s].i]] # "absent" PROVE Follows(s)'
  <2>1. Goes(s, "copy", procs[s].out)
    BY <1>0, <1>4, GotoGoes DEF SnapMark
  <2> QED
    BY <1>0, <1>4, <2>1, PathsAre DEF SnapMark, Goes, Follows, Standing, ApplyStands,
       FinalizeStands, GrayStands, Positive, Finalizable, Alive
<1>5. ASSUME SnapCopy(s), node[Order[procs[s].i]] # "absent" PROVE Follows(s)'
  <2>1. Goes(s, "mark", procs[s].out)
    BY <1>0, <1>5, LoopGoes DEF SnapCopy
  <2> QED
    BY <1>0, <1>5, <2>1, PathsAre DEF SnapCopy, Goes, Follows, Standing, ApplyStands,
       FinalizeStands, GrayStands, Positive, Finalizable, Alive
<1>6. ASSUME SnapCopy(s), node[Order[procs[s].i]] = "absent" PROVE Follows(s)'
  <2>1. Goes(s, "exited", "ERROR")
    BY <1>0, <1>6, ExitGoes DEF SnapCopy
  <2> QED
    BY <1>0, <1>6, <2>1, PathsAre DEF SnapCopy, Goes, Follows, Standing, ApplyStands,
       FinalizeStands, GrayStands, Positive, Finalizable, Alive
<1>7. ASSUME Begun(s), procs[s].kind = "apply" PROVE Follows(s)'
  <2>1. Goes(s, "create", procs[s].out)
    BY <1>0, <1>7, GotoGoes DEF Begun
  <2> QED
    BY <1>0, <1>7, <2>1, PathsAre DEF Begun, disk, Goes, Follows, Standing, ApplyStands,
       FinalizeStands, GrayStands, Positive, Finalizable, Alive
<1>8. ASSUME Begun(s), procs[s].kind # "apply" PROVE Follows(s)'
  <2>1. Goes(s, "unstage", procs[s].out)
    BY <1>0, <1>8, GotoGoes DEF Begun
  <2> QED
    BY <1>0, <1>8, <2>1, PathsAre DEF Begun, disk, Goes, Follows, Standing, ApplyStands,
       FinalizeStands, GrayStands, Positive, Finalizable, Alive
<1> QED
  BY <1>1, <1>2, <1>3, <1>4, <1>5, <1>6, <1>7, <1>8 DEF Beginning

LEMMA ApplyingFollows ==
  ASSUME NEW s \in Slots, Here(s), Alive(s), Follows(s), Applying(s)
  PROVE  Follows(s)'
<1> USE DEF At, Running, Snapping, Staging, Graying, Undoing
<1>0. /\ Standing(s) /\ procs \in [Slots -> Proc] /\ node \in [Paths -> Content]
      /\ procs[s].out = "-"
  BY DEF Follows, Here, RTypeOK, Orderly, Alive
<1>1. ASSUME Create(s) PROVE Follows(s)'
  <2>1. Goes(s, "unlock", procs[s].out)
    BY <1>0, <1>1, GotoGoes DEF Create
  <2> QED
    BY <1>0, <1>1, <2>1, PathsAre DEF Create, Put, Goes, Follows, Standing, ApplyStands,
       FinalizeStands, GrayStands, Positive, Finalizable, Alive
<1>2. ASSUME Unlock(s) PROVE Follows(s)'
  <2>1. Goes(s, "fetch", procs[s].out)
    BY <1>0, <1>2, GotoGoes DEF Unlock
  <2> QED
    BY <1>0, <1>2, <2>1, PathsAre DEF Unlock, Put, RemoveRules, Goes, Follows, Standing,
       ApplyStands, FinalizeStands, GrayStands, Positive, Finalizable, Alive
<1>3. ASSUME Fetch(s) PROVE Follows(s)'
  <2>1. Goes(s, "lock", procs[s].out)
    BY <1>0, <1>3, GotoGoes DEF Fetch
  <2> QED
    BY <1>0, <1>3, <2>1, PathsAre DEF Fetch, Put, Goes, Follows, Standing, ApplyStands,
       FinalizeStands, GrayStands, Positive, Finalizable, Alive
<1>4. ASSUME FetchRefused(s) PROVE Follows(s)'
  <2>1. Goes(s, "undo", procs[s].out)
    BY <1>0, <1>4, GotoGoes DEF FetchRefused
  <2> QED
    BY <1>0, <1>4, <2>1, PathsAre DEF FetchRefused, Goes, Follows, Standing, ApplyStands,
       FinalizeStands, GrayStands, Positive, Finalizable, Alive
<1>5. ASSUME Lock(s) PROVE Follows(s)'
  <2>1. Goes(s, "stage", procs[s].out)
    BY <1>0, <1>5, GotoGoes DEF Lock
  <2> QED
    BY <1>0, <1>5, <2>1, PathsAre DEF Lock, Put, ApplyRules, Goes, Follows, Standing,
       ApplyStands, FinalizeStands, GrayStands, Positive, Finalizable, Alive
<1>6. ASSUME LockRefused(s) PROVE Follows(s)'
  <2>1. Goes(s, "undo", procs[s].out)
    BY <1>0, <1>6, GotoGoes DEF LockRefused
  <2> QED
    BY <1>0, <1>6, <2>1, PathsAre DEF LockRefused, Goes, Follows, Standing, ApplyStands,
       FinalizeStands, GrayStands, Positive, Finalizable, Alive
<1>7. ASSUME Stage(s) PROVE Follows(s)'
  <2>1. Goes(s, "edge", procs[s].out)
    BY <1>0, <1>7, GotoGoes DEF Stage
  <2> QED
    BY <1>0, <1>7, <2>1, PathsAre DEF Stage, Put, Goes, Follows, Standing, ApplyStands,
       FinalizeStands, GrayStands, Positive, Finalizable, Alive
<1>8. ASSUME Edge(s) PROVE Follows(s)'
  <2>1. Goes(s, "meta", procs[s].out)
    BY <1>0, <1>8, GotoGoes DEF Edge
  <2> QED
    BY <1>0, <1>8, <2>1, PathsAre DEF Edge, Goes, Follows, Standing, ApplyStands,
       FinalizeStands, GrayStands, Positive, Finalizable, Alive
<1>9. ASSUME Staged(s) PROVE Follows(s)'
  <2>1. Goes(s, "exited", "STAGED")
    BY <1>0, <1>9, ExitGoes DEF Staged
  <2> QED
    BY <1>0, <1>9, <2>1, PathsAre DEF Staged, StagedNode, Goes, Follows, Standing,
       ApplyStands, FinalizeStands, GrayStands, Positive, Finalizable, Alive
<1>10. ASSUME StagedNowhere(s) PROVE Follows(s)'
  <2>1. Goes(s, "undo", procs[s].out)
    BY <1>0, <1>10, GotoGoes DEF StagedNowhere
  <2> QED
    BY <1>0, <1>10, <2>1, PathsAre DEF StagedNowhere, Goes, Follows, Standing,
       ApplyStands, FinalizeStands, GrayStands, Positive, Finalizable, Alive
<1> QED
  BY <1>1, <1>2, <1>3, <1>4, <1>5, <1>6, <1>7, <1>8, <1>9, <1>10 DEF Applying

LEMMA FinalizingFollows ==
  ASSUME NEW s \in Slots, Here(s), Alive(s), Follows(s), Finalizing(s)
  PROVE  Follows(s)'
<1> USE DEF At, Running, Snapping, Staging, Graying, Undoing
<1>0. /\ Standing(s) /\ procs \in [Slots -> Proc] /\ node \in [Paths -> Content]
      /\ procs[s].out = "-"
  BY DEF Follows, Here, RTypeOK, Orderly, Alive
<1>1. ASSUME FinalizeRefused(s) PROVE Follows(s)'
  <2>1. Goes(s, "exited", "ERROR")
    BY <1>0, <1>1, ExitGoes DEF FinalizeRefused
  <2> QED
    BY <1>0, <1>1, <2>1, PathsAre DEF FinalizeRefused, disk, StagedNode, Goes, Follows,
       Standing, ApplyStands, FinalizeStands, GrayStands, Positive, Finalizable, Alive
<1>2. ASSUME FinalizeStarts(s) PROVE Follows(s)'
  <2>1. Goes(s, "deleteReality", procs[s].out)
    BY <1>0, <1>2, GotoGoes DEF FinalizeStarts
  <2> QED
    BY <1>0, <1>2, <2>1, PathsAre DEF FinalizeStarts, disk, StagedNode, FinalNode,
       MayFinalize, Goes, Follows, Standing, ApplyStands, FinalizeStands, GrayStands,
       Positive, Finalizable, Alive
<1>3. ASSUME DeleteReality(s) PROVE Follows(s)'
  <2>1. Goes(s, "commitState", procs[s].out)
    BY <1>0, <1>3, GotoGoes DEF DeleteReality
  <2> QED
    BY <1>0, <1>3, <2>1, PathsAre DEF DeleteReality, Put, StagedNode, FinalNode, Goes,
       Follows, Standing, ApplyStands, FinalizeStands, GrayStands, Positive, Finalizable,
       Alive
<1>4. ASSUME CommitState(s) PROVE Follows(s)'
  <2>1. Goes(s, "commitTopology", procs[s].out)
    BY <1>0, <1>4, GotoGoes DEF CommitState
  <2> QED
    BY <1>0, <1>4, <2>1, PathsAre DEF CommitState, Put, StagedNode, FinalNode, Goes,
       Follows, Standing, ApplyStands, FinalizeStands, GrayStands, Positive, Finalizable,
       Alive
<1>5. ASSUME CommitTopology(s), procs[s].kind = "finalize" PROVE Follows(s)'
  <2>1. Goes(s, "wipe", procs[s].out)
    BY <1>0, <1>5, GotoGoes DEF CommitTopology
  <2> QED
    BY <1>0, <1>5, <2>1, PathsAre, OrangeIs, GrayIs DEF CommitTopology, Put, StagedNode,
       FinalNode, OrangeDone, Content, Goes, Follows, Standing, ApplyStands,
       FinalizeStands, GrayStands, Positive, Finalizable, Alive
<1>6. ASSUME CommitTopology(s), procs[s].kind # "finalize" PROVE Follows(s)'
  <2>1. Goes(s, "wipe", procs[s].out)
    BY <1>0, <1>6, GotoGoes DEF CommitTopology
  <2> QED
    BY <1>0, <1>6, <2>1, PathsAre, OrangeIs, GrayIs DEF CommitTopology, Put, GrayDone,
       Content, Goes, Follows, Standing, ApplyStands, FinalizeStands, GrayStands,
       Positive, Finalizable, Alive
<1> QED
  BY <1>1, <1>2, <1>3, <1>4, <1>5, <1>6 DEF Finalizing

LEMMA GoingGrayFollows ==
  ASSUME NEW s \in Slots, Here(s), Alive(s), Follows(s), GoingGray(s)
  PROVE  Follows(s)'
<1> USE DEF At, Running, Snapping, Staging, Graying, Undoing
<1>0. /\ Standing(s) /\ procs \in [Slots -> Proc] /\ node \in [Paths -> Content]
      /\ procs[s].out = "-"
  BY DEF Follows, Here, RTypeOK, Orderly, Alive
<1>1. ASSUME Unstage(s) PROVE Follows(s)'
  <2>1. Goes(s, "grayLock", procs[s].out)
    BY <1>0, <1>1, GotoGoes DEF Unstage
  <2> QED
    BY <1>0, <1>1, <2>1, PathsAre DEF Unstage, Put, Goes, Follows, Standing, ApplyStands,
       FinalizeStands, GrayStands, Positive, Finalizable, Alive
<1>2. ASSUME GrayLock(s) PROVE Follows(s)'
  <2>1. Goes(s, "delete", procs[s].out)
    BY <1>0, <1>2, GotoGoes DEF GrayLock
  <2> QED
    BY <1>0, <1>2, <2>1, PathsAre DEF GrayLock, Put, RemoveRules, Goes, Follows, Standing,
       ApplyStands, FinalizeStands, GrayStands, Positive, Finalizable, Alive
<1>3. ASSUME DeleteXhttp(s) PROVE Follows(s)'
  <2>1. Goes(s, "grayState", procs[s].out)
    BY <1>0, <1>3, GotoGoes DEF DeleteXhttp
  <2> QED
    BY <1>0, <1>3, <2>1, PathsAre DEF DeleteXhttp, Goes, Follows, Standing, ApplyStands,
       FinalizeStands, GrayStands, Positive, Finalizable, Alive
<1>4. ASSUME GrayState(s) PROVE Follows(s)'
  <2>1. Goes(s, "commitTopology", procs[s].out)
    BY <1>0, <1>4, GotoGoes DEF GrayState
  <2> QED
    BY <1>0, <1>4, <2>1, PathsAre DEF GrayState, Put, Goes, Follows, Standing,
       ApplyStands, FinalizeStands, GrayStands, Positive, Finalizable, Alive
<1> QED
  BY <1>1, <1>2, <1>3, <1>4 DEF GoingGray

LEMMA RollingBackFollows ==
  ASSUME NEW s \in Slots, Here(s), Alive(s), Follows(s), RollingBack(s)
  PROVE  Follows(s)'
<1> USE DEF At, Running, Snapping, Staging, Graying, Undoing
<1>0. Standing(s) /\ procs \in [Slots -> Proc] /\ procs[s].out = "-"
  BY DEF Follows, Here, RTypeOK, Orderly, Alive
<1>1. procs[s].kind # "finalize"
  BY <1>0 DEF Standing, FinalizeStands, RollingBack, RollbackCalled, NothingPending,
     UndoStarts, UnlockAgain, Erase, Restore, RestoreVanished, Restored, Relock, Restart,
     Discard
<1>2. ASSUME NEW pc \in Undoing \cup {"discard"}, Goes(s, pc, "-") PROVE Follows(s)'
  BY <1>1, <1>2, Negative
<1>3. ASSUME NEW out \in Outs \ {"STAGED", "RECONCILED"}, Exit(s, out) PROVE Follows(s)'
  BY <1>0, <1>1, <1>3, ExitGoes, Negative
<1>4. ASSUME RollbackCalled(s) PROVE Follows(s)'
  BY <1>0, <1>2, <1>4, GotoGoes DEF RollbackCalled
<1>5. ASSUME NothingPending(s) PROVE Follows(s)'
  BY <1>3, <1>5 DEF NothingPending, Outs
<1>6. ASSUME UndoStarts(s) PROVE Follows(s)'
  <2>1. Goes(s, "unlockAgain", "-")
    BY <1>0, <1>6 DEF UndoStarts, Goes, Proc
  <2> QED
    BY <1>2, <2>1
<1>7. ASSUME UnlockAgain(s) PROVE Follows(s)'
  BY <1>0, <1>2, <1>7, GotoGoes DEF UnlockAgain
<1>8. ASSUME Erase(s) PROVE Follows(s)'
  BY <1>0, <1>2, <1>8, GotoGoes, LoopGoes DEF Erase
<1>9. ASSUME Restore(s) PROVE Follows(s)'
  BY <1>0, <1>2, <1>9, LoopGoes DEF Restore
<1>10. ASSUME RestoreVanished(s) PROVE Follows(s)'
  <2>1. Goes(s, "erase", "-")
    BY <1>0, <1>10 DEF RestoreVanished, Goes, Proc
  <2> QED
    BY <1>2, <2>1
<1>11. ASSUME Restored(s) PROVE Follows(s)'
  BY <1>0, <1>2, <1>11, GotoGoes DEF Restored
<1>12. ASSUME Relock(s) PROVE Follows(s)'
  BY <1>0, <1>2, <1>12, GotoGoes, FailGoes DEF Relock
<1>13. ASSUME Restart(s) PROVE Follows(s)'
  BY <1>0, <1>2, <1>3, <1>13, GotoGoes DEF Restart, Outs
<1>14. ASSUME Discard(s) PROVE Follows(s)'
  BY <1>3, <1>14 DEF Discard, Outs
<1> QED
  BY <1>4, <1>5, <1>6, <1>7, <1>8, <1>9, <1>10, <1>11, <1>12, <1>13, <1>14 DEF RollingBack

LEMMA WipeFollows ==
  ASSUME NEW s \in Slots, Here(s), Alive(s), Follows(s), Wipe(s)
  PROVE  Follows(s)'
<1>1. Standing(s) /\ Goes(s, "exited", "RECONCILED")
  BY ExitGoes DEF Wipe, Follows, Here, RTypeOK
<1>2. procs[s].pc = "wipe" /\ procs[s].kind \in {"finalize", "toGray"}
  BY <1>1 DEF Wipe, At, Standing, FinalizeStands
<1>3. GrayDone \/ OrangeDone
  BY <1>1, <1>2 DEF Standing, FinalizeStands, GrayStands
<1> QED
  BY <1>1, <1>2, <1>3 DEF Wipe, Goes, Follows, Positive, Finalizable, Alive, Running,
     Snapping,
     Staging, Graying, Undoing, GrayDone, OrangeDone

LEMMA FaultFollows ==
  ASSUME NEW s \in Slots, Here(s), Alive(s), Follows(s), ScriptFault(s)
  PROVE  Follows(s)'
<1> USE DEF At, Running, Snapping, Staging, Graying, Undoing
<1>0. /\ Standing(s) /\ procs \in [Slots -> Proc] /\ node \in [Paths -> Content]
      /\ procs[s].out = "-"
  BY DEF Follows, Here, RTypeOK, Orderly, Alive
<1>1. ASSUME SnapFails(s) PROVE Follows(s)'
  <2>1. Goes(s, "exited", "ERROR")
    BY <1>0, <1>1, ExitGoes DEF SnapFails
  <2> QED
    BY <1>0, <1>1, <2>1, PathsAre DEF SnapFails, Goes, Follows, Standing, ApplyStands,
       FinalizeStands, GrayStands, Positive, Finalizable, Alive
<1>2. ASSUME TrapFires(s) PROVE Follows(s)'
  <2>1. Goes(s, "undo", procs[s].out)
    BY <1>0, <1>2, GotoGoes DEF TrapFires
  <2> QED
    BY <1>0, <1>2, <2>1, PathsAre DEF TrapFires, Goes, Follows, Standing, ApplyStands,
       FinalizeStands, GrayStands, Positive, Finalizable, Alive
<1>3. ASSUME UnlockIgnored(s) PROVE Follows(s)'
  <2>1. Goes(s, "fetch", procs[s].out)
    BY <1>0, <1>3, GotoGoes DEF UnlockIgnored
  <2> QED
    BY <1>0, <1>3, <2>1, PathsAre DEF UnlockIgnored, Goes, Follows, Standing, ApplyStands,
       FinalizeStands, GrayStands, Positive, Finalizable, Alive
<1>4. ASSUME FinalizeFails(s) PROVE Follows(s)'
  <2>1. Goes(s, "exited", "ERROR")
    BY <1>0, <1>4, ExitGoes DEF FinalizeFails
  <2> QED
    BY <1>0, <1>4, <2>1, PathsAre DEF FinalizeFails, disk, StagedNode, FinalNode, Goes,
       Follows, Standing, ApplyStands, FinalizeStands, GrayStands, Positive, Finalizable,
       Alive
<1>5. ASSUME UndoFails(s), At(s, "unlockAgain") PROVE Follows(s)'
  <2>1. Goes(s, "erase", procs[s].out)
    BY <1>0, <1>5, FailGoes DEF UndoFails
  <2> QED
    BY <1>0, <1>5, <2>1, PathsAre DEF UndoFails, Goes, Follows, Standing, ApplyStands,
       FinalizeStands, GrayStands, Positive, Finalizable, Alive
<1>6. ASSUME UndoFails(s), At(s, "restore") PROVE Follows(s)'
  <2>a. procs' = [procs EXCEPT ![s] = [@ EXCEPT !.pc = "erase", !.i = procs[s].i + 1,
                                                !.rc = "failed"]]
    BY <1>6 DEF UndoFails
  <2>1. Goes(s, "erase", procs[s].out)
    BY <1>0, <2>a DEF Goes, Proc
  <2> QED
    BY <1>0, <1>6, <2>1, PathsAre DEF UndoFails, Goes, Follows, Standing, ApplyStands,
       FinalizeStands, GrayStands, Positive, Finalizable, Alive
<1>7. ASSUME UndoFails(s), At(s, "relock") PROVE Follows(s)'
  <2>1. Goes(s, "restart", procs[s].out)
    BY <1>0, <1>7, FailGoes DEF UndoFails
  <2> QED
    BY <1>0, <1>7, <2>1, PathsAre DEF UndoFails, Goes, Follows, Standing, ApplyStands,
       FinalizeStands, GrayStands, Positive, Finalizable, Alive
<1>8. ASSUME UndoFails(s), At(s, "restart") PROVE Follows(s)'
  <2>1. Goes(s, "exited", "ERROR")
    BY <1>0, <1>8, ExitGoes DEF UndoFails
  <2> QED
    BY <1>0, <1>8, <2>1, PathsAre DEF UndoFails, Goes, Follows, Standing, ApplyStands,
       FinalizeStands, GrayStands, Positive, Finalizable, Alive
<1>9. ASSUME Dies(s) PROVE Follows(s)'
  <2>1. Goes(s, "exited", "ERROR")
    BY <1>0, <1>9, ExitGoes DEF Dies
  <2> QED
    BY <1>0, <1>9, <2>1, PathsAre DEF Dies, StagedNode, FinalNode, Goes, Follows,
       Standing, ApplyStands, FinalizeStands, GrayStands, Positive, Finalizable, Alive
<1> QED
  BY <1>1, <1>2, <1>3, <1>4, <1>5, <1>6, <1>7, <1>8, <1>9 DEF ScriptFault, UndoFails

LEMMA ScriptFollows ==
  ASSUME NEW s \in Slots, Here(s), Follows(s), ScriptStep(s) \/ ScriptFault(s)
  PROVE  Follows(s)'
  BY StepAlive, BeginningFollows, ApplyingFollows, FinalizingFollows, GoingGrayFollows,
     RollingBackFollows, WipeFollows, FaultFollows DEF ScriptStep

-----------------------------------------------------------------------------
(* Types.                                                                  *)

LEMMA SpawnTyped ==
  ASSUME RTypeOK, AllOrderly, NEW s \in Slots, NEW k \in Kinds, Spawn(s, k),
         faults' \in 0 .. MaxFaults
  PROVE  RTypeOK' /\ AllOrderly'
<1>1. Now(s, k, "start", 1, "ok", "no", "-")
  BY SpawnNow DEF RTypeOK
<1>2. pre' \in [node : [Paths -> Content], rules : Rules] /\ taint' \subseteq {"overlap", "partial"}
  BY DEF Spawn, ghost, RTypeOK
<1>3. RTypeOK'
  BY <1>1, <1>2 DEF Spawn, disk, Now, RTypeOK
<1> QED
  BY <1>1, <1>3 DEF Now, AllOrderly, Orderly, At

LEMMA ReapTyped ==
  ASSUME RTypeOK, AllOrderly, NEW s \in Slots, Reap(s), UNCHANGED faults
  PROVE  RTypeOK' /\ AllOrderly' /\ Reaps
<1>1. Reaps
  BY ReapReaps DEF RTypeOK
<1>2. RTypeOK'
  BY <1>1 DEF Reaps, disk, ghost, RTypeOK
<1> QED
  BY <1>1, <1>2, FreeIs DEF Reaps, AllOrderly, Orderly, At

LEMMA ScriptTyped ==
  ASSUME STypeOK, AllOrderly, NEW s \in Slots, ScriptStep(s) \/ ScriptFault(s)
  PROVE  RTypeOK' /\ AllOrderly' /\ Moves(s)
<1>1. RTypeOK' /\ Moves(s)
  BY ScriptOnward DEF Onward
<1> QED
  BY <1>1 DEF Moves, AllOrderly, Orderly, At

LEMMA RequestTypes ==
  ASSUME STypeOK, AllOrderly, NEW k \in Kinds, NEW pc \in ClientPc, Request(k, pc),
         UNCHANGED faults
  PROVE  RTypeOK' /\ AllOrderly' /\ cl' \in Session
<1>1. PICK s \in Slots : Spawn(s, k) /\ cl' = [AtMenu EXCEPT !.pc = pc, !.slot = s]
  BY DEF Request
<1>2. cl' \in Session
  BY <1>1 DEF AtMenu, Session, ClientPc
<1> QED
  BY <1>1, <1>2, SpawnTyped DEF STypeOK, RTypeOK

LEMMA AnswerTypes ==
  ASSUME STypeOK, AllOrderly, NEW outs, Answered(outs)
  PROVE  RTypeOK' /\ AllOrderly' /\ Reaps
  BY ReapTyped DEF Answered, STypeOK

LEMMA SessionTyped ==
  ASSUME STypeOK, AllOrderly, ClientStep
  PROVE  STypeOK' /\ AllOrderly'
<1> USE DEF Kinds, ClientPc, Message
<1>1. ASSUME StartStaging PROVE STypeOK' /\ AllOrderly'
  BY <1>1, RequestTypes DEF StartStaging, STypeOK
<1>2. ASSUME StartGray PROVE STypeOK' /\ AllOrderly'
  BY <1>2, RequestTypes DEF StartGray, STypeOK
<1>3. ASSUME StageSucceeded PROVE STypeOK' /\ AllOrderly'
  BY <1>3, MoveTyped, AnswerTypes DEF StageSucceeded, STypeOK
<1>4. ASSUME StageFailed PROVE STypeOK' /\ AllOrderly'
  BY <1>4, MoveTyped, EndTyped, AnswerTypes DEF StageFailed, STypeOK
<1>5. ASSUME Confirmed PROVE STypeOK' /\ AllOrderly'
  <2>1. cl' \in Session
    BY <1>5, MoveTyped DEF Confirmed
  <2>2. /\ node' = [node EXCEPT !["edge"] = "confirmed"]
        /\ UNCHANGED <<rules, txn, snap, procs, faults, ghost, told>>
    BY <1>5 DEF Confirmed, Put
  <2> QED
    BY <2>1, <2>2 DEF STypeOK, RTypeOK, AllOrderly, Orderly, At, ghost, Content
<1>6. ASSUME ValidationFailed PROVE STypeOK' /\ AllOrderly'
  BY <1>6, MoveTyped DEF ValidationFailed, rvars, disk, ghost, STypeOK, RTypeOK, AllOrderly,
     Orderly, At
<1>7. ASSUME FinalizeRequested PROVE STypeOK' /\ AllOrderly'
  BY <1>7, RequestTypes DEF FinalizeRequested, STypeOK
<1>8. ASSUME FinalizeAnswered PROVE STypeOK' /\ AllOrderly'
  BY <1>8, MoveTyped, EndTyped, AnswerTypes DEF FinalizeAnswered, STypeOK
<1>9. ASSUME UndoRequested PROVE STypeOK' /\ AllOrderly'
  BY <1>9, RequestTypes DEF UndoRequested, STypeOK
<1>10. ASSUME RollbackAnswered PROVE STypeOK' /\ AllOrderly'
  BY <1>10, EndTyped, AnswerTypes DEF RollbackAnswered, STypeOK
<1>11. ASSUME GrayAnswered PROVE STypeOK' /\ AllOrderly'
  BY <1>11, EndTyped, AnswerTypes DEF GrayAnswered, STypeOK
<1> QED
  BY <1>1, <1>2, <1>3, <1>4, <1>5, <1>6, <1>7, <1>8, <1>9, <1>10, <1>11 DEF ClientStep

LEMMA FaultTyped ==
  ASSUME STypeOK, AllOrderly, Retry \/ GivesUp
  PROVE  STypeOK' /\ AllOrderly'
<1>0. Misfortune
  BY DEF Retry, GivesUp
<1>1. faults' \in 0 .. MaxFaults
  BY <1>0, RouteFaultsAssumption DEF Misfortune, STypeOK, RTypeOK
<1>2. CASE Retry
  <2>1. PICK s \in Slots, kept \in BOOLEAN :
          /\ Spawn(s, procs[cl.slot].kind)
          /\ cl' = [cl EXCEPT !.slot = s, !.retried = TRUE,
                              !.proof = kept /\ Answer = "ERROR_ROLLED_BACK"]
    BY <1>2 DEF Retry
  <2>2. cl' \in Session /\ cl.slot \in Slots /\ told' = told
    BY <1>2, <2>1 DEF Retry, STypeOK, Session
  <2>3. procs[cl.slot].kind \in Kinds
    BY <2>2 DEF STypeOK, RTypeOK, Proc
  <2> QED
    BY <1>1, <2>1, <2>2, <2>3, SpawnTyped DEF STypeOK
<1>3. CASE GivesUp
  <2>1. cl' \in Session /\ told' \in Message
    BY <1>3, MoveTyped, EndTyped DEF GivesUp, ClientPc, Message, STypeOK
  <2> QED
    BY <1>1, <1>3, <2>1 DEF GivesUp, disk, ghost, STypeOK, RTypeOK, AllOrderly, Orderly, At
<1> QED
  BY <1>2, <1>3

\* Putting a snapshot back.
LEMMA RestoreTyped ==
  ASSUME CTyped, RestoreImage, menu' \in MenuPc
  PROVE  CTyped'
<1>1. PICK image \in inst : /\ node' = image.node /\ rules' = image.rules
                            /\ txn' = image.txn /\ snap' = image.snap
  BY DEF RestoreImage
<1>2. image \in Image
  BY <1>1 DEF CTyped, CTypeOK
<1>3. RTypeOK'
  BY <1>1, <1>2 DEF RestoreImage, Image, CTyped, CTypeOK, STypeOK, RTypeOK
<1> QED
  BY <1>3 DEF RestoreImage, CTyped, CTypeOK, STypeOK, Said, AllOrderly, Orderly, At

LEMMA SvarsTyped ==
  ASSUME CTyped, UNCHANGED svars, menu' \in MenuPc, live' \in Rules, said' \in Said,
         inst' = {} \/ \E image \in inst' : inst' = {image} /\ image \in Image
  PROVE  CTyped'
  BY DEF svars, rvars, disk, ghost, CTyped, CTypeOK, STypeOK, RTypeOK, AllOrderly, Orderly, At

LEMMA ConstructionTyped ==
  ASSUME CTyped, CNext
  PROVE  CTyped'
<1> USE DEF Run, MenuPc, Said
<1>0. /\ live \in Rules /\ rules \in Rules /\ menu \in MenuPc /\ said \in Said
      /\ inst = {} \/ \E image \in inst : inst = {image} /\ image \in Image
      /\ STypeOK /\ RTypeOK /\ AllOrderly
  BY DEF CTyped, CTypeOK, STypeOK, RTypeOK
<1>1. ASSUME BeginConstruction PROVE CTyped'
  <2> DEFINE image == [node |-> node, rules |-> rules, txn |-> txn, snap |-> snap]
  <2>1. image \in Image
    BY <1>0 DEF Image, RTypeOK
  <2>2. inst' = {image} /\ UNCHANGED <<svars, live>> /\ menu' = "wizard" /\ said' = "none"
    BY <1>1 DEF BeginConstruction
  <2> HIDE DEF image
  <2> QED
    BY <1>0, <2>1, <2>2, SvarsTyped
<1>2. ASSUME CommitConstruction PROVE CTyped'
  BY <1>0, <1>2, SvarsTyped DEF CommitConstruction
<1>3. ASSUME Recover \/ UndoConstruction PROVE CTyped'
  BY <1>3, RestoreTyped DEF Recover, UndoConstruction
<1>4. ASSUME WizardDone \/ WizardFails \/ KeepRoute \/ HandoffFails \/ RouteEnds PROVE CTyped'
  BY <1>0, <1>4, SvarsTyped
     DEF WizardDone, WizardFails, KeepRoute, HandoffFails, RouteEnds, Stays
<1>5. ASSUME RouteStarts \/ RouteStep PROVE CTyped'
  <2>1. ClientStep /\ menu' \in MenuPc /\ UNCHANGED <<inst, live, said>>
    BY <1>0, <1>5 DEF RouteStarts, RouteStep, ClientStep
  <2> QED
    BY <1>0, <2>1, SessionTyped DEF CTyped, CTypeOK
<1>6. ASSUME RouteFault PROVE CTyped'
  <2>1. Retry \/ GivesUp
    BY <1>6 DEF RouteFault
  <2>2. UNCHANGED <<menu, inst, live, said>>
    BY <1>6 DEF RouteFault
  <2>3. STypeOK' /\ AllOrderly'
    BY <1>0, <2>1, FaultTyped
  <2>4. menu' \in MenuPc /\ live' \in Rules /\ said' \in Said
    BY <1>0, <2>2
  <2>5. inst' = {} \/ \E image \in inst' : inst' = {image} /\ image \in Image
    BY <1>0, <2>2
  <2> QED
    BY <2>3, <2>4, <2>5 DEF CTyped, CTypeOK
<1>7. ASSUME UndoFailed \/ ProgramKilled PROVE CTyped'
  <2>0. Misfortune
    BY <1>7 DEF UndoFailed, ProgramKilled
  <2>1. faults' \in 0 .. MaxFaults
    BY <1>0, <2>0, RouteFaultsAssumption DEF Misfortune, RTypeOK
  <2>2. cl' \in Session /\ told' \in Message
    <3>1. AtMenu \in Session /\ "none" \in Message
      BY DEF AtMenu, Session, ClientPc, Message
    <3>2. CASE UndoFailed
      BY <1>0, <3>2 DEF UndoFailed, STypeOK
    <3>3. CASE ProgramKilled
      BY <3>1, <3>3 DEF ProgramKilled
    <3> QED
      BY <1>7, <3>2, <3>3
  <2>3. UNCHANGED <<disk, procs, ghost, inst, live, said>> /\ menu' = "idle"
    BY <1>7 DEF UndoFailed, ProgramKilled
  <2> QED
    BY <1>0, <2>1, <2>2, <2>3
       DEF disk, ghost, CTyped, CTypeOK, STypeOK, RTypeOK, AllOrderly, Orderly, At
<1>8. ASSUME NEW s \in Slots, ScriptGoesOn(s) \/ ScriptGoesWrong(s) PROVE CTyped'
  <2>1. /\ ScriptStep(s) \/ ScriptFault(s)
        /\ live' = IF rules' # rules THEN rules' ELSE live
        /\ UNCHANGED <<cl, told, menu, inst, said>>
    BY <1>8 DEF ScriptGoesOn, ScriptGoesWrong, WithRules
  <2>2. RTypeOK' /\ AllOrderly'
    BY <1>0, <2>1, ScriptTyped
  <2>3. live' \in Rules
    BY <1>0, <2>1, <2>2 DEF RTypeOK
  <2> QED
    BY <1>0, <2>1, <2>2, <2>3 DEF CTyped, CTypeOK, STypeOK
<1>9. ASSUME NEW s \in Slots, OrphanEnds(s) PROVE CTyped'
  BY <1>0, <1>9, ReapTyped DEF OrphanEnds, ReapOrphan, CTyped, CTypeOK, STypeOK
<1> QED
  BY <1>1, <1>2, <1>3, <1>4, <1>5, <1>6, <1>7, <1>8, <1>9 DEF CNext, ProgramStep

LEMMA TypesStart == CInit => CTyped
<1> SUFFICES ASSUME CInit PROVE CTyped
  OBVIOUS
<1>1. RouteInv
  BY StartsWell DEF CInit
<1> QED
  BY <1>1 DEF CInit, RouteInv, STypeOK, RTypeOK, CTyped, CTypeOK, MenuPc, Said

LEMMA TypesStay == CTyped /\ [CNext]_cvars => CTyped'
<1> SUFFICES ASSUME CTyped, [CNext]_cvars PROVE CTyped'
  OBVIOUS
<1>1. CASE CNext
  BY <1>1, ConstructionTyped
<1>2. CASE UNCHANGED cvars
  BY <1>2, SvarsTyped DEF cvars, CTyped, CTypeOK
<1> QED
  BY <1>1, <1>2

\* Every variable of a run, of the session in it and of the script stays in its
\* domain.
THEOREM ConstructionTypeCorrect == CSpec => []CTypeOK
<1>1. CTyped => CTypeOK
  BY DEF CTyped
<1> QED
  BY <1>1, TypesStart, TypesStay, PTL DEF CSpec

-----------------------------------------------------------------------------
(* Every step of a run keeps the invariant, as long as nothing overlaps.   *)

\* What is known of a process and of the node lasts as long as they do.
LEMMA FollowsLasts ==
  ASSUME NEW s \in Slots, Follows(s), UNCHANGED <<node, rules, txn>>, procs'[s] = procs[s]
  PROVE  Follows(s)'
<1>1. StagedNode' = StagedNode /\ GrayDone' = GrayDone /\ OrangeDone' = OrangeDone
  BY DEF StagedNode, GrayDone, OrangeDone
<1>2. Alive(s)' <=> Alive(s)
  BY DEF Alive
<1>3. Standing(s) => Standing(s)'
  BY <1>1 DEF Standing, ApplyStands, FinalizeStands, FinalNode, GrayStands
<1> QED
  BY <1>1, <1>2, <1>3 DEF Follows, Positive, Finalizable

LEMMA RestLasts ==
  ASSUME Rested, UNCHANGED <<node, rules, txn>>,
         \A s \in Slots : procs'[s] = procs[s] \/ procs'[s] = FreeSlot
  PROVE  Rested'
<1>1. Nobody'
  BY FreeIs DEF Rested, Nobody, Alive, Running, Snapping, Staging, Graying, Undoing
<1>2. IsWhole'
  BY DEF Rested, IsWhole, GrayDone, OrangeDone
<1> QED
  BY <1>1, <1>2 DEF Rested

LEMMA WholeNode == IsWhole <=> Whole(node, rules)
  BY DEF IsWhole, Whole, GrayDone, OrangeDone

\* The session rests where it is, or waits for no process.
LEMMA SessionLasts ==
  ASSUME Waits, Guided, UNCHANGED <<node, rules, txn, procs, cl>>
  PROVE  Waits' /\ Guided'
<1>1. Waits'
  BY DEF Waits, At
<1>2. \A s \in Slots : Follows(s) => Follows(s)'
  BY FollowsLasts
<1>3. \A s \in Slots : Alive(s)' <=> Alive(s)
  BY DEF Alive
<1> QED
  BY <1>1, <1>2, <1>3 DEF Guided, Nobody, StagedNode

LEMMA NobodyAwaited ==
  ASSUME cl'.slot = NoSlot, cl'.pc \in {"idle", "undo"}
  PROVE  Waits' /\ Guided'
  BY NoRouteSlotAssumption DEF Waits, Guided

\* A request of a run is the only process, or there is an overlap.
LEMMA RequestInv ==
  ASSUME CInv, CTyped', NoOverlap', NEW s \in Slots, NEW k \in Kinds, Spawn(s, k),
         cl'.slot = s, cl'.pc \in DOMAIN KindOf, k = KindOf[cl'.pc],
         k = "finalize" /\ txn = "staged" => StagedNode,
         menu' = "reconcile", told' = "none", UNCHANGED inst, inst # {}
  PROVE  CInv'
<1>1. Now(s, k, "start", 1, "ok", "no", "-")
  BY SpawnNow DEF CInv, CTyped, CTypeOK, STypeOK, RTypeOK
<1>2. Nobody /\ UNCHANGED disk
  BY DEF Spawn, Nobody, NoOverlap
<1>3. Waits'
  BY <1>1, NoRouteSlotAssumption DEF Now, Waits, At, KindOf
<1>4. \A t \in Slots : Alive(t)' => t = s
  BY <1>1, <1>2 DEF Now, Nobody, Alive
<1>5. Follows(s)'
  BY <1>1, <1>2 DEF Now, disk, Follows, Standing, ApplyStands, FinalizeStands, GrayStands,
     Positive, Finalizable, StagedNode, Snapping, Staging, Graying
<1>6. Guided'
  BY <1>4, <1>5 DEF Guided, KindOf
<1>7. Stages' /\ ~AtRest'
  BY DEF Stages, AtRest
<1> QED
  BY <1>3, <1>6, <1>7 DEF CInv

\* The session turns from its process, in a run that goes on with the route.
LEMMA TurnInv ==
  ASSUME CInv, CTyped', menu = "reconcile", UNCHANGED <<node, rules, txn, menu, inst>>,
         \A s \in Slots : procs'[s] = procs[s] \/ procs'[s] = FreeSlot,
         cl'.slot = NoSlot, cl'.pc \in {"idle", "validate", "undo"},
         cl'.pc # "idle" => told' = "none",
         cl'.pc = "validate" => Nobody /\ txn = "staged" /\ StagedNode,
         told' = "reconciled" => Rested
  PROVE  CInv'
<1>1. Waits'
  BY NoRouteSlotAssumption DEF Waits
<1>2. Nobody => Nobody'
  BY FreeIs DEF Nobody, Alive, Running, Snapping, Staging, Graying, Undoing
<1>3. Guided'
  BY <1>2, NoRouteSlotAssumption DEF Guided, StagedNode
<1>4. Stages'
  BY DEF CInv, Stages, In
<1>5. AtRest' => Rested'
  BY RestLasts DEF CInv, Stages, AtRest
<1> QED
  BY <1>1, <1>3, <1>4, <1>5 DEF CInv

\* What a run knows when its request has been answered.
LEMMA AnswerSays ==
  ASSUME CInv, NEW outs, Answered(outs), UNCHANGED <<menu, inst>>
  PROVE  /\ Nobody /\ Positive(cl.slot) /\ Answer \in outs
         /\ UNCHANGED <<node, rules, txn>>
         /\ \A s \in Slots : procs'[s] = procs[s] \/ procs'[s] = FreeSlot
<1>1. cl.slot \in Slots /\ At(cl.slot, "exited") /\ Answer \in outs /\ Reap(cl.slot)
  BY DEF Answered
<1>2. Nobody /\ Positive(cl.slot)
  BY <1>1 DEF CInv, Guided, Follows, Nobody, Alive, At, Running, Snapping, Staging, Graying,
     Undoing
<1>3. procs \in [Slots -> Proc]
  BY DEF CInv, CTyped, CTypeOK, STypeOK, RTypeOK
<1> QED
  BY <1>1, <1>2, <1>3 DEF Reap, disk

LEMMA StepInv ==
  ASSUME CInv, CTyped', NoOverlap', menu = "reconcile", ~In("idle"), ClientStep,
         UNCHANGED <<menu, inst>>
  PROVE  CInv'
<1> USE DEF In
<1>0. told = "none" /\ inst # {} /\ cl.pc # "idle"
  BY DEF CInv, Stages
<1>1. ASSUME StageSucceeded PROVE CInv'
  <2>1. /\ Answered({"STAGED"}) /\ cl'.slot = NoSlot /\ cl'.pc = "validate" /\ told' = told
    BY <1>1, MoveTyped DEF StageSucceeded, ClientPc
  <2>2. Nobody /\ txn = "staged" /\ StagedNode
    BY <2>1, AnswerSays DEF Positive, Answer
  <2> QED
    BY <1>0, <2>1, <2>2, AnswerSays, TurnInv
<1>2. ASSUME NEW outs, Answered(outs), cl'.slot = NoSlot, cl'.pc \in {"idle", "undo"},
             cl'.pc # "idle" => told' = told, told' = "reconciled" => outs = {"RECONCILED"}
      PROVE  CInv'
  <2>1. told' = "reconciled" => Rested
    BY <1>2, AnswerSays DEF Positive, Answer, Rested, IsWhole
  <2> QED
    BY <1>0, <1>2, <2>1, AnswerSays, TurnInv
<1>3. ASSUME StageFailed PROVE CInv'
  BY <1>0, <1>2, <1>3, MoveTyped, EndTyped DEF StageFailed, ClientPc, Message, End
<1>4. ASSUME FinalizeAnswered \/ RollbackAnswered \/ GrayAnswered PROVE CInv'
  BY <1>0, <1>2, <1>4, MoveTyped, EndTyped
     DEF FinalizeAnswered, RollbackAnswered, GrayAnswered, FinalEvidence, ClientPc, Message, End
<1>5. ASSUME NEW k \in Kinds, NEW pc \in DOMAIN KindOf, Request(k, pc), k = KindOf[pc],
             told' = told, k = "finalize" => StagedNode
      PROVE  CInv'
  <2>1. PICK s \in Slots : Spawn(s, k) /\ cl' = [AtMenu EXCEPT !.pc = pc, !.slot = s]
    BY <1>5 DEF Request
  <2>2. cl'.slot = s /\ cl'.pc = pc
    BY <2>1 DEF AtMenu
  <2> QED
    BY <1>0, <1>5, <2>1, <2>2, RequestInv
<1>6. ASSUME FinalizeRequested PROVE CInv'
  <2>1. StagedNode
    BY <1>6 DEF FinalizeRequested, CInv, Guided
  <2> QED
    BY <1>5, <1>6, <2>1 DEF FinalizeRequested, Kinds, KindOf
<1>7. ASSUME UndoRequested PROVE CInv'
  BY <1>5, <1>7 DEF UndoRequested, Kinds, KindOf
<1>8. ASSUME ValidationFailed PROVE CInv'
  BY <1>0, <1>8, MoveTyped, TurnInv DEF ValidationFailed, rvars, disk, ClientPc
<1>9. ASSUME Confirmed PROVE CInv'
  <2>1. cl'.slot = NoSlot /\ cl'.pc \in {"finalize", "undo"}
    BY <1>9, MoveTyped DEF Confirmed, ClientPc
  <2>2. /\ node' = [node EXCEPT !["edge"] = "confirmed"] /\ cl.pc = "validate"
        /\ UNCHANGED <<rules, txn, snap, procs, faults, ghost, told>>
    BY <1>9 DEF Confirmed, Put
  <2>3. Nobody' /\ txn' = "staged"
    BY <2>2 DEF CInv, Guided, Nobody, Alive
  <2>4. StagedNode'
    BY <2>2, PathsAre DEF CInv, Guided, StagedNode, CTyped, CTypeOK, STypeOK, RTypeOK
  <2>5. Waits' /\ Guided'
    BY <2>1, <2>3, <2>4, NoRouteSlotAssumption DEF Waits, Guided
  <2>6. Stages' /\ ~AtRest'
    BY <1>0, <2>1, <2>2 DEF Stages, AtRest
  <2> QED
    BY <2>5, <2>6 DEF CInv
<1> QED
  BY <1>0, <1>1, <1>3, <1>4, <1>6, <1>7, <1>8, <1>9
     DEF ClientStep, StartStaging, StartGray

LEMMA RouteFaultInv ==
  ASSUME CInv, CTyped', NoOverlap', RouteFault
  PROVE  CInv'
<1>1. menu = "reconcile" /\ UNCHANGED <<menu, inst>> /\ (Retry \/ GivesUp) /\ inst # {}
  BY DEF RouteFault, CInv, Stages
<1>2. CASE Retry
  <2>1. PICK s \in Slots, kept \in BOOLEAN :
          /\ Spawn(s, procs[cl.slot].kind)
          /\ cl' = [cl EXCEPT !.slot = s, !.retried = TRUE,
                              !.proof = kept /\ Answer = "ERROR_ROLLED_BACK"]
    BY <1>2 DEF Retry
  <2>2. cl.slot \in Slots /\ told' = told /\ cl \in Session
    BY <1>2 DEF Retry, CInv, CTyped, CTypeOK, STypeOK
  <2>3. cl'.slot = s /\ cl'.pc = cl.pc
    BY <2>1, <2>2 DEF Session
  <2>4. /\ procs[cl.slot].kind = KindOf[cl.pc] /\ cl.pc \in DOMAIN KindOf
        /\ procs[cl.slot].kind \in Kinds
    BY <2>2, NoRouteSlotAssumption DEF CInv, Waits, KindOf, Session, ClientPc, CTyped,
       CTypeOK, STypeOK, RTypeOK, Proc
  <2>5. told = "none"
    BY <1>1, <2>4 DEF CInv, Stages, In, KindOf
  <2>6. procs[cl.slot].kind = "finalize" /\ txn = "staged" => StagedNode
    BY <2>2 DEF CInv, Guided, Follows, Finalizable
  <2> QED
    BY <1>1, <2>1, <2>2, <2>3, <2>4, <2>5, <2>6, RequestInv
<1>3. CASE GivesUp
  <2>1. /\ cl'.slot = NoSlot /\ cl'.pc \in {"idle", "undo"} /\ told' # "reconciled"
        /\ cl'.pc # "idle" => told' = "none"
    BY <1>1, <1>3, MoveTyped, EndTyped DEF GivesUp, In, End, ClientPc, Message, CInv, Stages
  <2> QED
    BY <1>1, <1>3, <2>1, TurnInv DEF GivesUp, disk
<1> QED
  BY <1>1, <1>2, <1>3

LEMMA ScriptInv ==
  ASSUME CInv, CTyped', NEW s \in Slots, ScriptStep(s) \/ ScriptFault(s),
         UNCHANGED <<cl, told, menu, inst>>
  PROVE  CInv'
<1>1. Alive(s) /\ Moves(s) /\ Here(s)
  BY StepAlive, ScriptTyped DEF CInv, CTyped, CTypeOK, STypeOK, AllOrderly, Here
<1>2. ~Nobody /\ ~AtRest
  BY <1>1 DEF Nobody, CInv, Rested
<1>3. cl.slot \in Slots => cl.slot = s /\ Follows(s)' /\ \A t \in Slots : Alive(t)' => t = s
  BY <1>1, ScriptFollows DEF CInv, Guided, Moves, Alive
<1>4. Guided'
  BY <1>2, <1>3 DEF CInv, Guided
<1>5. Waits'
  BY <1>1 DEF Moves, CInv, Waits, At, Running, Snapping, Staging, Graying, Undoing
<1>6. Stages' /\ ~AtRest'
  BY <1>2 DEF CInv, Stages, AtRest, In
<1> QED
  BY <1>4, <1>5, <1>6 DEF CInv

LEMMA OrphanInv ==
  ASSUME CInv, CTyped', NEW s \in Slots, OrphanEnds(s)
  PROVE  CInv'
<1>1. /\ s # cl.slot /\ procs' = [procs EXCEPT ![s] = FreeSlot]
      /\ UNCHANGED <<node, rules, txn, cl, told, menu, inst>>
  BY DEF OrphanEnds, ReapOrphan, Reap, disk
<1>2. procs \in [Slots -> Proc]
  BY DEF CInv, CTyped, CTypeOK, STypeOK, RTypeOK
<1>3. \A t \in Slots : (t # s => procs'[t] = procs[t]) /\ (procs'[t] = procs[t] \/ procs'[t] = FreeSlot)
  BY <1>1, <1>2
<1>4. \A t \in Slots : Alive(t)' => Alive(t)
  BY <1>3, FreeIs DEF Alive, Running, Snapping, Staging, Graying, Undoing
<1>5. \A t \in Slots : t # s /\ Follows(t) => Follows(t)'
  BY <1>1, <1>3, FollowsLasts
<1>7. Guided'
  BY <1>1, <1>4, <1>5 DEF CInv, Guided, Nobody, StagedNode
<1>8. Waits'
  BY <1>1, <1>3 DEF CInv, Waits, At
<1>9. Stages' /\ (AtRest' => Rested')
  BY <1>1, <1>3, RestLasts DEF CInv, Stages, AtRest, In
<1> QED
  BY <1>1, <1>7, <1>8, <1>9 DEF CInv

\* Nothing but the menu, or the snapshot that it holds, changes.
LEMMA MenuInv ==
  ASSUME CInv, CTyped', UNCHANGED <<node, rules, txn, procs, cl, told>>,
         menu' # "reconcile" => In("idle"), menu' # "idle" => inst' # {},
         menu' # "reconcile", \A image \in inst' : GoodImage(image), AtRest' => Rested
  PROVE  CInv'
<1>1. Waits' /\ Guided'
  BY SessionLasts DEF CInv
<1>2. Rested => Rested'
  BY RestLasts
<1>3. Stages'
  BY DEF Stages, In
<1> QED
  BY <1>1, <1>2, <1>3 DEF CInv

LEMMA RestoreInv ==
  ASSUME CInv, CTyped', NoOverlap', RestoreImage, menu # "reconcile", menu' = "idle"
  PROVE  CInv'
<1>1. PICK image \in inst : node' = image.node /\ rules' = image.rules /\ txn' = image.txn
  BY DEF RestoreImage
<1>2. inst' = {} /\ UNCHANGED <<procs, cl, told>>
  BY DEF RestoreImage
<1>3. Nobody
  BY DEF RestoreImage, NoOverlap, Nobody
<1>4. GoodImage(image) /\ In("idle")
  BY DEF CInv, Stages
<1>5. txn' = "none" /\ Whole(node', rules')
  BY <1>1, <1>4 DEF GoodImage
<1>6. IsWhole'
  BY <1>5 DEF IsWhole, Whole, GrayDone, OrangeDone
<1>7. Nobody'
  BY <1>2, <1>3 DEF Nobody, Alive
<1>8. cl'.slot = NoSlot /\ cl'.pc = "idle"
  BY <1>2, <1>4 DEF CInv, Waits, In
<1>9. Waits' /\ Guided'
  BY <1>8, NobodyAwaited
<1>10. Stages'
  BY <1>8 DEF Stages, In
<1> QED
  BY <1>2, <1>5, <1>6, <1>7, <1>9, <1>10 DEF CInv, Rested

LEMMA ConstructionInv ==
  ASSUME CInv, CNext, NoOverlap'
  PROVE  CInv'
<1> USE DEF Run
<1>0. CTyped'
  BY ConstructionTyped DEF CInv
<1>1. ASSUME BeginConstruction PROVE CInv'
  <2> DEFINE image == [node |-> node, rules |-> rules, txn |-> txn, snap |-> snap]
  <2>1. Rested /\ In("idle")
    BY <1>1 DEF BeginConstruction, CInv, AtRest, Stages
  <2>2. /\ inst' = {image} /\ menu' = "wizard"
        /\ UNCHANGED <<node, rules, txn, procs, cl, told>>
    BY <1>1 DEF BeginConstruction, svars, rvars, disk
  <2>3. GoodImage(image)
    BY <2>1, WholeNode DEF GoodImage, Rested
  <2> HIDE DEF image
  <2> QED
    BY <1>0, <2>1, <2>2, <2>3, MenuInv
<1>2. ASSUME Recover \/ UndoConstruction PROVE CInv'
  BY <1>0, <1>2, RestoreInv DEF Recover, UndoConstruction
<1>3. ASSUME WizardDone \/ WizardFails \/ KeepRoute \/ HandoffFails \/ CommitConstruction
      PROVE  CInv'
  <2>1. /\ menu \in {"wizard", "route", "handoff"} /\ menu' \in {"route", "undo", "handoff", "idle"}
        /\ UNCHANGED <<node, rules, txn, procs, cl, told>>
        /\ (inst' = inst /\ menu' # "idle") \/ (inst' = {} /\ menu' = "idle")
    BY <1>3 DEF WizardDone, WizardFails, KeepRoute, HandoffFails, CommitConstruction, Stays,
       svars, rvars, disk
  <2>2. Rested /\ In("idle") /\ inst # {} /\ \A image \in inst' : GoodImage(image)
    BY <2>1 DEF CInv, AtRest, Stages
  <2> QED
    BY <1>0, <2>1, <2>2, MenuInv
<1>4. ASSUME RouteEnds PROVE CInv'
  <2>1. /\ menu = "reconcile" /\ In("idle") /\ UNCHANGED <<node, rules, txn, procs, cl, told, inst>>
        /\ menu' = IF told = "reconciled" THEN "handoff" ELSE "undo"
    BY <1>4 DEF RouteEnds, MovesOn, Stays, svars, rvars, disk
  <2>2. inst # {} /\ (AtRest' => told = "reconciled")
    BY <2>1 DEF CInv, Stages, AtRest
  <2>3. AtRest' => Rested
    BY <2>1, <2>2 DEF CInv, AtRest
  <2> QED
    BY <1>0, <2>1, <2>2, <2>3, MenuInv DEF CInv
<1>5. ASSUME RouteStarts PROVE CInv'
  <2>1. PICK k \in {"apply", "toGray"}, pc \in {"stage", "gray"} :
          Request(k, pc) /\ k = KindOf[pc] /\ told' = "none"
    BY <1>5 DEF RouteStarts, StartStaging, StartGray, KindOf
  <2>2. PICK s \in Slots : Spawn(s, k) /\ cl' = [AtMenu EXCEPT !.pc = pc, !.slot = s]
    BY <2>1 DEF Request
  <2>3. cl'.slot = s /\ cl'.pc = pc /\ pc \in DOMAIN KindOf /\ k \in Kinds
    BY <2>2 DEF AtMenu, KindOf, Kinds
  <2>4. menu' = "reconcile" /\ UNCHANGED inst /\ inst # {}
    BY <1>5 DEF RouteStarts, CInv, Stages
  <2> QED
    BY <1>0, <2>1, <2>2, <2>3, <2>4, RequestInv
<1>6. ASSUME RouteStep PROVE CInv'
  BY <1>0, <1>6, StepInv DEF RouteStep
<1>7. ASSUME RouteFault PROVE CInv'
  BY <1>0, <1>7, RouteFaultInv
<1>8. ASSUME UndoFailed PROVE CInv'
  <2>1. /\ menu = "undo" /\ menu' = "idle" /\ UNCHANGED <<node, rules, txn, procs, cl, told, inst>>
    BY <1>8 DEF UndoFailed, disk
  <2>2. inst # {} /\ In("idle") /\ ~AtRest'
    BY <2>1 DEF CInv, Stages, AtRest
  <2> QED
    BY <1>0, <2>1, <2>2, MenuInv DEF CInv
<1>9. ASSUME ProgramKilled PROVE CInv'
  <2>1. menu # "idle" /\ menu' = "idle" /\ cl' = AtMenu /\ inst' = inst
    BY <1>9 DEF ProgramKilled
  <2>2. cl'.slot = NoSlot /\ cl'.pc = "idle"
    BY <2>1 DEF AtMenu
  <2>3. Stages' /\ ~AtRest'
    BY <2>1, <2>2 DEF CInv, Stages, AtRest, In
  <2> QED
    BY <1>0, <2>1, <2>2, <2>3, NobodyAwaited DEF CInv
<1>10. ASSUME NEW s \in Slots, ScriptGoesOn(s) \/ ScriptGoesWrong(s) PROVE CInv'
  BY <1>0, <1>10, ScriptInv DEF ScriptGoesOn, ScriptGoesWrong
<1>11. ASSUME NEW s \in Slots, OrphanEnds(s) PROVE CInv'
  BY <1>0, <1>11, OrphanInv
<1> QED
  BY <1>1, <1>2, <1>3, <1>4, <1>5, <1>6, <1>7, <1>8, <1>9, <1>10, <1>11 DEF CNext, ProgramStep

LEMMA InvStarts == CInit => CInv
<1> SUFFICES ASSUME CInit PROVE CInv
  OBVIOUS
<1>1. RouteInv /\ CTyped
  BY StartsWell, TypesStart DEF CInit
<1>2. Rested
  BY FreeIs DEF CInit, SInit, RInit, Rested, Nobody, Alive, Running, Snapping, Staging,
     Graying, Undoing, IsWhole
<1>3. cl.slot = NoSlot /\ cl.pc = "idle"
  BY DEF CInit, SInit, AtMenu
<1>4. Guided
  BY <1>3, NoRouteSlotAssumption DEF Guided
<1> QED
  BY <1>1, <1>2, <1>3, <1>4 DEF CInit, RouteInv, CInv, Stages, In

LEMMA InvStays == CInv /\ NoOverlap' /\ [CNext]_cvars => CInv'
<1> SUFFICES ASSUME CInv, NoOverlap', [CNext]_cvars PROVE CInv'
  OBVIOUS
<1>1. CASE UNCHANGED cvars
  <2>1. UNCHANGED <<node, rules, txn, procs, cl, told, menu, inst>>
    BY <1>1 DEF cvars, svars, rvars, disk
  <2>2. CTyped'
    BY <1>1, TypesStay DEF CInv
  <2>3. Waits' /\ Guided' /\ (Rested => Rested')
    BY <2>1, SessionLasts, RestLasts DEF CInv
  <2> QED
    BY <2>1, <2>2, <2>3 DEF CInv, Stages, In, AtRest
<1> QED
  BY <1>1, ConstructionInv

\* A construction that is over leaves a whole route and no pending route
\* transaction, whichever of the two transactions undid what, and however often
\* a request was repeated, given up or cut short; unless two processes of the
\* script, or the script and a restore, run at once.
THEOREM WholeAfterConstruction ==
  CSpec /\ []NoOverlap => []WholeBetweenConstructions
<1>1. CInv => WholeBetweenConstructions
  BY DEF CInv, AtRest, Rested, WholeBetweenConstructions
<1> QED
  BY <1>1, InvStarts, InvStays, PTL DEF CSpec
=============================================================================
