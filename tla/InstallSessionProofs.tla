------------------------ MODULE InstallSessionProofs ------------------------
(***************************************************************************)
(* Proofs about InstallHelper for every number of paths, of concurrent     *)
(* invocations and of transactions: types, the snapshot, the rollback and  *)
(* the refinement of AtomicConstruction; and about InstallSession for every *)
(* number of local programs: they use the script as its specification      *)
(* allows, and what they say about a commit is true.                       *)
(***************************************************************************)
EXTENDS InstallSession, TLAPS

-----------------------------------------------------------------------------
(* The inductive invariant of the script, in named parts.                  *)

\* flock: one process at most is in the critical section.
Mutex ==
  \A r, s \in Slots : procs[r].pc \in Inside /\ procs[s].pc \in Inside => r = s

\* The identifier of the transaction in progress is the latest one.
CurrentIsLatest ==
  /\ current.status = "NONE" <=> current.tx = 0
  /\ current.tx # 0 => current.tx = txCount

\* ended records the end of exactly the earlier transactions.
EndedIsPast ==
  \A t \in Tx :
    /\ ended[t] \in {"NONE", "PREPARING"} \cup Decided
    /\ ended[t] = "NONE" <=> (t > txCount \/ t = current.tx)

\* While the snapshot is taken the node is the one that was opened.
StillNode ==
  current.status = "PREPARING" /\ "snapshot" \notin overlap =>
    node = pre.node /\ svc = pre.svc

\* Path p is in the snapshot, with what it held at the start.
KeptIn(p) ==
  /\ snap[p].presence # "unwritten"
  /\ "snapshot" \notin overlap => Recorded(snap, p) = pre.node[p]

\* What process s may rely on where it stands while it takes a snapshot ...
Snapping(s) ==
  /\ procs[s].pc = "meta" => current = NoTx /\ txCount < MaxTx /\ snapDir
  /\ procs[s].pc \in {"mark", "copy", "activate"} =>
       /\ current.status = "PREPARING"
       /\ snapDir
       /\ \A p \in Paths : p < procs[s].i => KeptIn(p)
  /\ procs[s].pc = "copy" =>
       /\ procs[s].i \in Paths
       /\ snap[procs[s].i].presence = "present"
  /\ procs[s].pc = "activate" =>
       /\ procs[s].i \notin Paths
       /\ "snapshot" \notin overlap => svcSnap = pre.svc

\* ... and while it restores one.
Restoring(s) ==
  /\ procs[s].pc \in {"stop", "erase", "restore", "verdict"} =>
       current.status = "ROLLING_BACK"
  /\ procs[s].pc = "restore" =>
       /\ procs[s].i \in Paths
       /\ snap[procs[s].i].presence = "present"
  /\ procs[s].pc \in {"erase", "restore", "verdict"} /\ procs[s].failed = "no" /\ overlap = {} =>
       \A p \in Paths : p < procs[s].i => node[p] = pre.node[p]
  /\ procs[s].pc = "verdict" =>
       /\ procs[s].i \notin Paths
       /\ procs[s].failed = "no" /\ overlap = {} => svc = pre.svc

Concluding(s) ==
  /\ procs[s].pc = "discard" => current.status \in Decided
  /\ procs[s].pc = "drop" => current.status \in Decided \cup {"PREPARING"}

HInv ==
  /\ HTypeOK
  /\ Mutex
  /\ CurrentIsLatest
  /\ EndedIsPast
  /\ StillNode
  /\ \A s \in Slots : Snapping(s) /\ Restoring(s) /\ Concluding(s)
  /\ SnapshotHoldsPreImage
  /\ RolledBackIsPreImage

-----------------------------------------------------------------------------

(* The control state.                                                      *)

LEMMA GotoType ==
  ASSUME HTypeOK, NEW s \in Slots, NEW pc \in Pc, Goto(s, pc)
  PROVE  procs' \in [Slots -> Proc]
  BY SMTT(30) DEF HTypeOK, Goto, Proc

LEMMA StepType ==
  ASSUME HTypeOK, NEW s \in Slots, NEW pc \in Pc, NEW i \in 1 .. NumPaths + 1,
         NEW f \in {"no", "yes"}, Step(s, pc, i, f)
  PROVE  procs' \in [Slots -> Proc]
<1>1. procs[s] \in Proc
  BY DEF HTypeOK
<1>2. [procs[s] EXCEPT !.pc = pc, !.i = i, !.failed = f] \in Proc
  BY <1>1 DEF Proc
<1> QED
  BY <1>2 DEF HTypeOK, Step

LEMMA BoundType ==
  ASSUME HTypeOK, NEW s \in Slots, NEW pc \in Pc, NEW out \in Outs, Bound(s, pc, out)
  PROVE  procs' \in [Slots -> Proc]
<1>1. [procs[s] EXCEPT !.pc = pc, !.out = out] \in Proc
  BY DEF HTypeOK, Proc
<1> QED
  BY <1>1 DEF HTypeOK, Bound

LEMMA FreeSlotType == FreeSlot \in Proc
  BY PathsAssumption, MaxTxAssumption DEF FreeSlot, Proc, Kinds, Pc, Outs

LEMMA ExitType ==
  ASSUME HTypeOK, NEW s \in Slots, NEW out \in Outs, Exit(s, out)
  PROVE  procs' \in [Slots -> Proc]
<1>1. current.tx \in 0 .. MaxTx
  BY DEF HTypeOK
<1>2. procs[s].kind \in Kinds
  BY DEF HTypeOK, Proc
<1>3. [FreeSlot EXCEPT !.kind = procs[s].kind, !.pc = "exited", !.out = out, !.tx = current.tx]
        \in Proc
  BY <1>1, <1>2, FreeSlotType DEF FreeSlot, Proc, Pc
<1> QED
  BY <1>3 DEF HTypeOK, Exit

-----------------------------------------------------------------------------
(* Types.  Two facts about where a process stands are needed besides: a    *)
(* process about to write the metadata has a transaction left to open, and *)
(* one that copies or restores stands at a path.                           *)

LEMMA TypeStep ==
  ASSUME HTypeOK, \A s \in Slots : Snapping(s) /\ Restoring(s), HNext
  PROVE  HTypeOK'
<1> USE DEF disk, ghost
<1>a. {"meta", "mark", "copy", "activate", "stop", "erase", "restore", "verdict",
       "discard", "drop", "free", "lock", "exited"} \subseteq Pc
  BY DEF Pc, Inside
<1>b. {"ERROR", "BEGAN", "ROLLED_BACK", "PREPARE_ABORTED", "NOT_NEEDED", "COMMITTED"}
         \subseteq Outs
  BY DEF Outs
<1>c. {"NONE", "PREPARING", "ACTIVE", "ROLLING_BACK", "ROLLBACK_FAILED", "COMMITTED",
       "ROLLED_BACK"} \subseteq Status
  BY DEF Status, Rollbackable, Decided
<1>d. Unwritten \in [Paths -> Saved] /\ NoImage \in [node : [Paths -> Content], svc : Service]
  BY DEF Unwritten, Saved, NoImage, Service, Content
<1>e. ASSUME NEW s \in Slots PROVE procs[s].i \in 1 .. NumPaths + 1 /\ procs[s].failed \in {"no", "yes"} /\ procs[s].out \in Outs
  BY DEF HTypeOK, Proc
<1>f. \A i \in Paths : i + 1 \in 1 .. NumPaths + 1
  BY PathsAssumption DEF Paths
<1>g. ASSUME NEW st \in Status, SetStatus(st) PROVE current' \in [status : Status, tx : 0 .. MaxTx]
  BY <1>g DEF HTypeOK, SetStatus
<1>1. ASSUME NEW s \in Slots, NEW k \in Kinds, Spawn(s, k) PROVE HTypeOK'
  <2>1. [FreeSlot EXCEPT !.kind = k, !.pc = "lock"] \in Proc
    BY <1>a, FreeSlotType DEF Proc
  <2> QED
    BY <1>1, <2>1 DEF HTypeOK, Spawn
<1>2. ASSUME NEW s \in Slots, Reap(s) PROVE HTypeOK'
  BY <1>2, FreeSlotType DEF HTypeOK, Reap
<1>3. ASSUME NEW s \in Slots, BeginRefused(s) PROVE HTypeOK'
  BY <1>3, <1>b, ExitType DEF HTypeOK, BeginRefused
<1>4. ASSUME NEW s \in Slots, BeginOpens(s) PROVE HTypeOK'
  BY <1>4, <1>a, <1>d, GotoType DEF HTypeOK, Service, BeginOpens
<1>5. ASSUME NEW s \in Slots, WriteMeta(s) PROVE HTypeOK'
  <2>1. txCount < MaxTx /\ txCount \in Nat
    BY <1>5 DEF WriteMeta, At, Snapping, HTypeOK
  <2>2. FreshTx \in 0 .. MaxTx /\ txCount + 1 \in 0 .. MaxTx
    BY <2>1, MaxTxAssumption DEF FreshTx
  <2>3. procs' \in [Slots -> Proc]
    BY <1>5, <1>a, StepType, PathsAssumption DEF WriteMeta
  <2> QED
    BY <1>5, <1>c, <2>2, <2>3 DEF HTypeOK, WriteMeta, OpeningStatus
<1>6. ASSUME NEW s \in Slots, SnapMark(s) PROVE HTypeOK'
  <2>1. procs' \in [Slots -> Proc]
    BY <1>6, <1>a, <1>e, <1>f, StepType DEF SnapMark
  <2>2. snap' \in [Paths -> Saved]
    BY <1>6 DEF HTypeOK, SnapMark, Saved, Content
  <2> QED
    BY <1>6, <2>1, <2>2 DEF HTypeOK, SnapMark
<1>7. ASSUME NEW s \in Slots, SnapCopy(s) PROVE HTypeOK'
  <2>1. procs[s].i \in Paths
    BY <1>7 DEF SnapCopy, Snapping, At
  <2>2. procs' \in [Slots -> Proc]
    BY <1>7, <1>a, <1>b, <1>f, <2>1, StepType, ExitType DEF SnapCopy
  <2>3. snap' \in [Paths -> Saved]
    BY <1>7, <2>1 DEF HTypeOK, SnapCopy, Saved
  <2> QED
    BY <1>7, <2>2, <2>3 DEF HTypeOK, SnapCopy
<1>8. ASSUME NEW s \in Slots, SnapServices(s) PROVE HTypeOK'
  BY <1>8, <1>a, GotoType DEF HTypeOK, SnapServices
<1>9. ASSUME NEW s \in Slots, Activate(s) PROVE HTypeOK'
  BY <1>9, <1>b, <1>c, <1>g, ExitType DEF HTypeOK, Activate
<1>10. ASSUME NEW s \in Slots, RollbackNotNeeded(s) PROVE HTypeOK'
  BY <1>10, <1>b, ExitType DEF HTypeOK, RollbackNotNeeded
<1>11. ASSUME NEW s \in Slots, RollbackAborts(s) PROVE HTypeOK'
  BY <1>11, <1>a, <1>b, <1>d, BoundType DEF HTypeOK, Service, RollbackAborts
<1>12. ASSUME NEW s \in Slots, RollbackRefused(s) PROVE HTypeOK'
  BY <1>12, <1>b, ExitType DEF HTypeOK, RollbackRefused
<1>13. ASSUME NEW s \in Slots, RollbackStarts(s) PROVE HTypeOK'
  BY <1>13, <1>a, <1>c, <1>g, GotoType DEF HTypeOK, RollbackStarts
<1>14. ASSUME NEW s \in Slots, StopServices(s) PROVE HTypeOK'
  <2>1. procs' \in [Slots -> Proc]
    BY <1>14, <1>a, StepType, PathsAssumption DEF StopServices
  <2> QED
    BY <1>14, <2>1 DEF HTypeOK, StopServices, Service
<1>15. ASSUME NEW s \in Slots, ErasePath(s) PROVE HTypeOK'
  <2>1. procs' \in [Slots -> Proc]
    BY <1>15, <1>a, <1>e, <1>f, StepType, GotoType DEF ErasePath
  <2>2. node' \in [Paths -> Content]
    BY <1>15 DEF HTypeOK, ErasePath, Content
  <2> QED
    BY <1>15, <2>1, <2>2 DEF HTypeOK, ErasePath
<1>16. ASSUME NEW s \in Slots, NEW ok \in BOOLEAN, RestorePath(s, ok) PROVE HTypeOK'
  <2>1. procs[s].i \in Paths
    BY <1>16 DEF RestorePath, Restoring, At
  <2>2. procs' \in [Slots -> Proc]
    BY <1>16, <1>a, <1>e, <1>f, <2>1, StepType DEF RestorePath
  <2>3. node' \in [Paths -> Content]
    BY <1>16, <2>1 DEF HTypeOK, RestorePath, Content, Saved
  <2> QED
    BY <1>16, <2>2, <2>3 DEF HTypeOK, RestorePath
<1>17. ASSUME NEW s \in Slots, NEW ok \in BOOLEAN, RestoreServices(s, ok) PROVE HTypeOK'
  <2>1. procs' \in [Slots -> Proc]
    BY <1>17, <1>a, <1>e, StepType DEF RestoreServices
  <2> QED
    BY <1>17, <2>1 DEF HTypeOK, RestoreServices, Service
<1>18. ASSUME NEW s \in Slots, RollbackVerdict(s) PROVE HTypeOK'
  <2>1. procs' \in [Slots -> Proc] /\ current' \in [status : Status, tx : 0 .. MaxTx]
    BY <1>18, <1>a, <1>b, <1>c, <1>g, ExitType, BoundType DEF RollbackVerdict
  <2> QED
    BY <1>18, <2>1 DEF HTypeOK, RollbackVerdict
<1>19. ASSUME NEW s \in Slots, CommitRefused(s) PROVE HTypeOK'
  BY <1>19, <1>b, ExitType DEF HTypeOK, CommitRefused
<1>20. ASSUME NEW s \in Slots, CommitDecides(s) PROVE HTypeOK'
  BY <1>20, <1>a, <1>b, <1>c, <1>g, BoundType DEF HTypeOK, CommitDecides
<1>21. ASSUME NEW s \in Slots, Discard(s) PROVE HTypeOK'
  BY <1>21, <1>a, <1>d, GotoType DEF HTypeOK, Service, Discard
<1>22. ASSUME NEW s \in Slots, DropCurrent(s) PROVE HTypeOK'
  <2>1. current.status \in Status /\ NoTx \in [status : Status, tx : 0 .. MaxTx]
    BY <1>c, MaxTxAssumption DEF HTypeOK, NoTx
  <2>2. procs' \in [Slots -> Proc]
    BY <1>22, <1>e, ExitType DEF DropCurrent
  <2> QED
    BY <1>22, <1>d, <2>1, <2>2 DEF HTypeOK, DropCurrent
<1>23. ASSUME NEW s \in Slots, Dies(s) PROVE HTypeOK'
  BY <1>23, <1>b, ExitType DEF HTypeOK, Dies
<1>24. CASE NodeWrite
  <2>1. node' \in [Paths -> Content] /\ svc' \in Service
    BY <1>24 DEF HTypeOK, NodeWrite, Content
  <2>2. Phase \subseteq {"snapshot", "restore"}
    BY DEF Phase
  <2> QED
    BY <1>24, <2>1, <2>2 DEF HTypeOK, NodeWrite
<1> QED
  BY <1>1, <1>2, <1>3, <1>4, <1>5, <1>6, <1>7, <1>8, <1>9, <1>10, <1>11, <1>12, <1>13,
     <1>14, <1>15, <1>16, <1>17, <1>18, <1>19, <1>20, <1>21, <1>22, <1>23, <1>24
     DEF HNext, ScriptStep, ScriptFault

-----------------------------------------------------------------------------
(* Where a process stands after it moved, and what the lock gives.         *)

OthersStay(s) == \A r \in Slots \ {s} : procs'[r] = procs[r]
Alone(s)      == \A r \in Slots \ {s} : procs[r].pc \notin Inside

LEMMA GotoMoves ==
  ASSUME HTypeOK, NEW s \in Slots, NEW pc, Goto(s, pc)
  PROVE  /\ procs'[s].pc = pc
         /\ procs'[s].i = procs[s].i /\ procs'[s].failed = procs[s].failed
         /\ OthersStay(s)
  BY DEF HTypeOK, Proc, Goto, OthersStay

LEMMA StepMoves ==
  ASSUME HTypeOK, NEW s \in Slots, NEW pc, NEW i, NEW f, Step(s, pc, i, f)
  PROVE  /\ procs'[s].pc = pc /\ procs'[s].i = i /\ procs'[s].failed = f
         /\ OthersStay(s)
  BY DEF HTypeOK, Proc, Step, OthersStay

LEMMA BoundMoves ==
  ASSUME HTypeOK, NEW s \in Slots, NEW pc, NEW out, Bound(s, pc, out)
  PROVE  procs'[s].pc = pc /\ OthersStay(s)
  BY DEF HTypeOK, Proc, Bound, OthersStay

LEMMA ExitMoves ==
  ASSUME HTypeOK, NEW s \in Slots, NEW out, Exit(s, out)
  PROVE  procs'[s].pc = "exited" /\ OthersStay(s)
  BY DEF HTypeOK, Proc, Exit, OthersStay, FreeSlot

\* A process that holds or gets the lock is alone in the critical section,
\* and stays so while only it moves.
LEMMA HolderAlone ==
  ASSUME Mutex, NEW s \in Slots, procs[s].pc \in Inside \/ LockFree
  PROVE  Alone(s)
  BY DEF Mutex, LockFree, Alone

LEMMA StaysAlone ==
  ASSUME NEW s \in Slots, Alone(s), OthersStay(s)
  PROVE  Alone(s)' /\ Mutex'
  BY DEF Alone, OthersStay, Mutex

\* Outside the critical section nothing is relied on.
Relies(s) == Snapping(s) /\ Restoring(s) /\ Concluding(s)

LEMMA OutsideRelies ==
  ASSUME NEW s \in Slots, procs[s].pc \notin Inside
  PROVE  Relies(s)
  BY DEF Inside, Relies, Snapping, Restoring, Concluding

LEMMA AloneRelies ==
  ASSUME NEW s \in Slots, Alone(s)', Relies(s)'
  PROVE  \A r \in Slots : Relies(r)'
<1> SUFFICES ASSUME NEW r \in Slots, r # s PROVE Relies(r)'
  OBVIOUS
<1> procs'[r].pc \notin Inside
  BY DEF Alone
<1> QED
  BY DEF Inside, Relies, Snapping, Restoring, Concluding

\* What the invariant says about the files, besides what processes rely on.
Images == StillNode /\ SnapshotHoldsPreImage /\ RolledBackIsPreImage
Names  == CurrentIsLatest /\ EndedIsPast

-----------------------------------------------------------------------------
(* Steps that leave disk and history alone.                                *)

LEMMA QuietStep ==
  ASSUME HInv, UNCHANGED <<disk, ghost>>, NEW s \in Slots,
         procs'[s].pc \notin Inside, OthersStay(s)
  PROVE  Mutex' /\ Names' /\ Images' /\ \A r \in Slots : Relies(r)'
<1>1. Names' /\ Images'
  BY DEF HInv, disk, ghost, Names, Images, CurrentIsLatest, EndedIsPast, StillNode,
         SnapshotHoldsPreImage, RolledBackIsPreImage, Recorded
<1>2. Mutex'
  BY DEF HInv, Mutex, OthersStay
<1>3. ASSUME NEW r \in Slots PROVE Relies(r)'
  <2>1. CASE procs'[r].pc \notin Inside
    BY <2>1 DEF Inside, Relies, Snapping, Restoring, Concluding
  <2>2. CASE procs'[r].pc \in Inside
    <3>1. procs'[r] = procs[r]
      BY <2>2 DEF OthersStay
    <3> QED
      BY <3>1 DEF HInv, disk, ghost, Relies, Snapping, Restoring, Concluding, KeptIn, Recorded
  <2> QED
    BY <2>1, <2>2
<1> QED
  BY <1>1, <1>2, <1>3

-----------------------------------------------------------------------------
(* begin_transaction                                                       *)

LEMMA BeginOpensStep ==
  ASSUME HInv, NEW s \in Slots, BeginOpens(s)
  PROVE  Mutex' /\ Names' /\ Images' /\ \A r \in Slots : Relies(r)'
<1> USE DEF HInv, ghost
<1>1. Alone(s)
  BY HolderAlone DEF BeginOpens, GetsLock, Inside
<1>2. OthersStay(s)
  BY GotoMoves DEF BeginOpens
<1>3. Alone(s)' /\ Mutex'
  BY <1>1, <1>2, StaysAlone
<1>4. Relies(s)'
  BY GotoMoves DEF BeginOpens, At, GetsLock, Relies, Snapping, Restoring, Concluding, NoTx
<1>5. Images'
  BY GotoMoves DEF BeginOpens, At, GetsLock, Images, StillNode, SnapshotHoldsPreImage, RolledBackIsPreImage, NoTx, Rollbackable
<1>6. Names'
  BY DEF BeginOpens, GetsLock, At, Names, CurrentIsLatest, EndedIsPast, NoTx
<1> QED
  BY <1>3, <1>4, <1>5, <1>6, AloneRelies

LEMMA WriteMetaStep ==
  ASSUME HInv, NEW s \in Slots, WriteMeta(s)
  PROVE  Mutex' /\ Names' /\ Images' /\ \A r \in Slots : Relies(r)'
<1> USE DEF HInv, ghost
<1>1. Alone(s)
  BY HolderAlone DEF WriteMeta, At, Inside
<1>2. OthersStay(s)
  BY StepMoves DEF WriteMeta
<1>3. Alone(s)' /\ Mutex'
  BY <1>1, <1>2, StaysAlone
<1>4. Relies(s)'
  BY StepMoves DEF WriteMeta, At, GetsLock, Relies, Snapping, Restoring, Concluding, Inside, OpeningStatus, Paths
<1>5. Images'
  BY StepMoves DEF WriteMeta, At, GetsLock, Images, StillNode, SnapshotHoldsPreImage, RolledBackIsPreImage, OpeningStatus, Rollbackable
<1>6. Names'
  BY DEF WriteMeta, GetsLock, At, Names, CurrentIsLatest, EndedIsPast, OpeningStatus, FreshTx, NoTx, HTypeOK, Tx, Snapping
<1> QED
  BY <1>3, <1>4, <1>5, <1>6, AloneRelies

LEMMA SnapMarkStep ==
  ASSUME HInv, NEW s \in Slots, SnapMark(s)
  PROVE  Mutex' /\ Names' /\ Images' /\ \A r \in Slots : Relies(r)'
<1> USE DEF HInv, ghost
<1>1. Alone(s)
  BY HolderAlone DEF SnapMark, At, Inside
<1>2. OthersStay(s)
  BY StepMoves DEF SnapMark
<1>3. Alone(s)' /\ Mutex'
  BY <1>1, <1>2, StaysAlone
<1>4. Relies(s)'
  <2>1. PICK i \in Paths : procs[s].i = i /\ procs[s].pc = "mark"
    BY DEF SnapMark, At
  <2>2. \A p \in Paths : p < i => KeptIn(p)
    BY <2>1 DEF Relies, Snapping
  <2>3. snap'[i].presence # "unwritten" /\ \A p \in Paths \ {i} : snap'[p] = snap[p]
    BY <2>1 DEF SnapMark, HTypeOK, Saved
  <2>4. \A p \in Paths : p < i => KeptIn(p)'
    BY <2>2, <2>3, <2>1 DEF SnapMark, KeptIn, Recorded, Paths
  <2>5. CASE node[i] = Absent
    <3>1. snap'[i] = [presence |-> "absent", copy |-> Absent]
      BY <2>1, <2>5 DEF SnapMark, HTypeOK
    <3>2. KeptIn(i)'
      BY <2>1, <2>5, <3>1 DEF SnapMark, KeptIn, Recorded, StillNode, Snapping
    <3>3. procs'[s].pc = "mark" /\ procs'[s].i = i + 1
      BY <2>1, <2>5, StepMoves DEF SnapMark
    <3>4. \A p \in Paths : p < i + 1 => KeptIn(p)'
      BY <2>1, <2>4, <3>2 DEF Paths, KeptIn
    <3> QED
      BY <2>1, <3>3, <3>4 DEF SnapMark, Relies, Snapping, Restoring, Concluding
  <2>6. CASE node[i] # Absent
    <3>1. snap'[i] = [presence |-> "present", copy |-> Torn]
      BY <2>1, <2>6 DEF SnapMark, HTypeOK
    <3>2. procs'[s].pc = "copy" /\ procs'[s].i = i
      BY <2>1, <2>6, StepMoves DEF SnapMark
    <3> QED
      BY <2>1, <2>4, <3>1, <3>2 DEF SnapMark, Relies, Snapping, Restoring, Concluding
  <2> QED
    BY <2>5, <2>6
<1>5. Images'
  BY StepMoves DEF SnapMark, At, GetsLock, Images, StillNode, SnapshotHoldsPreImage, RolledBackIsPreImage, Rollbackable, Snapping
<1>6. Names'
  BY DEF SnapMark, GetsLock, At, Names, CurrentIsLatest, EndedIsPast
<1> QED
  BY <1>3, <1>4, <1>5, <1>6, AloneRelies

LEMMA SnapCopyStep ==
  ASSUME HInv, NEW s \in Slots, SnapCopy(s)
  PROVE  Mutex' /\ Names' /\ Images' /\ \A r \in Slots : Relies(r)'
<1> USE DEF HInv, ghost
<1>1. Alone(s)
  BY HolderAlone DEF SnapCopy, At, Inside
<1>2. OthersStay(s)
  BY StepMoves, ExitMoves DEF SnapCopy
<1>3. Alone(s)' /\ Mutex'
  BY <1>1, <1>2, StaysAlone
<1>4. Relies(s)'
  <2>1. PICK i \in Paths :
        /\ procs[s].i = i /\ procs[s].pc = "copy" /\ snap[i].presence = "present"
        /\ \A p \in Paths : p < i => KeptIn(p)
        /\ current.status = "PREPARING" /\ snapDir
    BY DEF SnapCopy, At, Snapping
  <2>2. CASE node[i] = Absent
    BY <2>1, <2>2, ExitMoves DEF SnapCopy, Relies, Snapping, Restoring, Concluding
  <2>3. CASE node[i] # Absent
    <3>1. /\ snap'[i].presence = "present" /\ snap'[i].copy = node[i]
          /\ \A p \in Paths \ {i} : snap'[p] = snap[p]
      BY <2>1, <2>3 DEF SnapCopy, HTypeOK, Saved
    <3>2. \A p \in Paths : p < i => KeptIn(p)'
      BY <2>1, <3>1 DEF SnapCopy, KeptIn, Recorded, Paths
    <3>3. KeptIn(i)'
      BY <2>1, <3>1 DEF SnapCopy, KeptIn, Recorded, StillNode
    <3>4. procs'[s].pc = "mark" /\ procs'[s].i = i + 1
      BY <2>1, <2>3, StepMoves DEF SnapCopy
    <3>5. \A p \in Paths : p < i + 1 => KeptIn(p)'
      BY <2>1, <3>2, <3>3 DEF Paths, KeptIn
    <3> QED
      BY <2>1, <3>4, <3>5 DEF SnapCopy, Relies, Snapping, Restoring, Concluding
  <2> QED
    BY <2>2, <2>3
<1>5. Images'
  BY StepMoves, ExitMoves DEF SnapCopy, At, GetsLock, Images, StillNode, SnapshotHoldsPreImage, RolledBackIsPreImage, Rollbackable, Snapping
<1>6. Names'
  BY DEF SnapCopy, GetsLock, At, Names, CurrentIsLatest, EndedIsPast
<1> QED
  BY <1>3, <1>4, <1>5, <1>6, AloneRelies

LEMMA SnapServicesStep ==
  ASSUME HInv, NEW s \in Slots, SnapServices(s)
  PROVE  Mutex' /\ Names' /\ Images' /\ \A r \in Slots : Relies(r)'
<1> USE DEF HInv, ghost
<1>1. Alone(s)
  BY HolderAlone DEF SnapServices, At, Inside
<1>2. OthersStay(s)
  BY GotoMoves DEF SnapServices
<1>3. Alone(s)' /\ Mutex'
  BY <1>1, <1>2, StaysAlone
<1>4. Relies(s)'
  BY GotoMoves DEF SnapServices, At, GetsLock, Relies, Snapping, Restoring, Concluding, StillNode, KeptIn, Recorded
<1>5. Images'
  BY GotoMoves DEF SnapServices, At, GetsLock, Images, StillNode, SnapshotHoldsPreImage, RolledBackIsPreImage, Rollbackable, Snapping
<1>6. Names'
  BY DEF SnapServices, GetsLock, At, Names, CurrentIsLatest, EndedIsPast
<1> QED
  BY <1>3, <1>4, <1>5, <1>6, AloneRelies

LEMMA ActivateStep ==
  ASSUME HInv, NEW s \in Slots, Activate(s)
  PROVE  Mutex' /\ Names' /\ Images' /\ \A r \in Slots : Relies(r)'
<1> USE DEF HInv, ghost
<1>1. Alone(s)
  BY HolderAlone DEF Activate, At, Inside
<1>2. OthersStay(s)
  BY ExitMoves DEF Activate
<1>3. Alone(s)' /\ Mutex'
  BY <1>1, <1>2, StaysAlone
<1>4. Relies(s)'
  BY ExitMoves DEF Activate, At, GetsLock, Relies, Snapping, Restoring, Concluding, Inside
<1>5. Images'
  <2>1. /\ procs[s].i \notin Paths /\ snapDir
        /\ "snapshot" \notin overlap => svcSnap = pre.svc
        /\ \A p \in Paths : p < procs[s].i => KeptIn(p)
    BY DEF Activate, At, Snapping
  <2>2. procs[s].i \in 1 .. NumPaths + 1
    BY DEF HTypeOK, Proc
  <2>3. \A p \in Paths : KeptIn(p)
    BY <2>1, <2>2, PathsAssumption DEF Paths
  <2>4. current'.status = "ACTIVE"
    BY DEF Activate, SetStatus, HTypeOK
  <2> QED
    BY <2>1, <2>3, <2>4
       DEF Activate, Images, StillNode, SnapshotHoldsPreImage, RolledBackIsPreImage,
           KeptIn, Recorded
<1>6. Names'
  BY DEF Activate, GetsLock, At, Names, CurrentIsLatest, EndedIsPast, SetStatus, HTypeOK, Snapping
<1> QED
  BY <1>3, <1>4, <1>5, <1>6, AloneRelies

-----------------------------------------------------------------------------
(* rollback_transaction                                                    *)

LEMMA RollbackAbortsStep ==
  ASSUME HInv, NEW s \in Slots, RollbackAborts(s)
  PROVE  Mutex' /\ Names' /\ Images' /\ \A r \in Slots : Relies(r)'
<1> USE DEF HInv, ghost
<1>1. Alone(s)
  BY HolderAlone DEF RollbackAborts, GetsLock, Inside
<1>2. OthersStay(s)
  BY BoundMoves DEF RollbackAborts
<1>3. Alone(s)' /\ Mutex'
  BY <1>1, <1>2, StaysAlone
<1>4. Relies(s)'
  BY BoundMoves DEF RollbackAborts, At, GetsLock, Relies, Snapping, Restoring, Concluding
<1>5. Images'
  BY BoundMoves DEF RollbackAborts, At, GetsLock, Images, StillNode, SnapshotHoldsPreImage, RolledBackIsPreImage, Rollbackable
<1>6. Names'
  BY DEF RollbackAborts, GetsLock, At, Names, CurrentIsLatest, EndedIsPast
<1> QED
  BY <1>3, <1>4, <1>5, <1>6, AloneRelies

LEMMA RollbackStartsStep ==
  ASSUME HInv, NEW s \in Slots, RollbackStarts(s)
  PROVE  Mutex' /\ Names' /\ Images' /\ \A r \in Slots : Relies(r)'
<1> USE DEF HInv, ghost
<1>1. Alone(s)
  BY HolderAlone DEF RollbackStarts, GetsLock, Inside
<1>2. OthersStay(s)
  BY GotoMoves DEF RollbackStarts
<1>3. Alone(s)' /\ Mutex'
  BY <1>1, <1>2, StaysAlone
<1>4. Relies(s)'
  BY GotoMoves DEF RollbackStarts, At, GetsLock, Relies, Snapping, Restoring, Concluding, SetStatus, HTypeOK
<1>5. Images'
  BY GotoMoves DEF RollbackStarts, At, GetsLock, Images, StillNode, SnapshotHoldsPreImage, RolledBackIsPreImage, SetStatus, MayRollBack, Rollbackable, HTypeOK, Recorded
<1>6. Names'
  BY DEF RollbackStarts, GetsLock, At, Names, CurrentIsLatest, EndedIsPast, SetStatus, MayRollBack, Rollbackable, HTypeOK
<1> QED
  BY <1>3, <1>4, <1>5, <1>6, AloneRelies

LEMMA StopServicesStep ==
  ASSUME HInv, NEW s \in Slots, StopServices(s)
  PROVE  Mutex' /\ Names' /\ Images' /\ \A r \in Slots : Relies(r)'
<1> USE DEF HInv, ghost
<1>1. Alone(s)
  BY HolderAlone DEF StopServices, At, Inside
<1>2. OthersStay(s)
  BY StepMoves DEF StopServices
<1>3. Alone(s)' /\ Mutex'
  BY <1>1, <1>2, StaysAlone
<1>4. Relies(s)'
  BY StepMoves DEF StopServices, At, GetsLock, Relies, Snapping, Restoring, Concluding, Paths
<1>5. Images'
  BY StepMoves DEF StopServices, At, GetsLock, Images, StillNode, SnapshotHoldsPreImage, RolledBackIsPreImage, Restoring, Rollbackable, Recorded
<1>6. Names'
  BY DEF StopServices, GetsLock, At, Names, CurrentIsLatest, EndedIsPast
<1> QED
  BY <1>3, <1>4, <1>5, <1>6, AloneRelies

LEMMA ErasePathStep ==
  ASSUME HInv, NEW s \in Slots, ErasePath(s)
  PROVE  Mutex' /\ Names' /\ Images' /\ \A r \in Slots : Relies(r)'
<1> USE DEF HInv, ghost
<1>1. Alone(s)
  BY HolderAlone DEF ErasePath, At, Inside
<1>2. OthersStay(s)
  BY StepMoves, GotoMoves DEF ErasePath
<1>3. Alone(s)' /\ Mutex'
  BY <1>1, <1>2, StaysAlone
<1>4. Relies(s)'
  <2> DEFINE Restored(p) == node[p] = pre.node[p]
  <2>1. PICK i \in Paths :
          procs[s].i = i /\ procs[s].pc = "erase" /\ current.status = "ROLLING_BACK"
    BY DEF ErasePath, At, Restoring
  <2>2. procs[s].failed = "no" /\ overlap = {} => \A p \in Paths : p < i => Restored(p)
    BY <2>1 DEF Restoring
  <2>3. CASE snap[i].presence = "unwritten"
    BY <2>1, <2>3 DEF SnapshotHoldsPreImage, Rollbackable
  <2>4. CASE snap[i].presence # "unwritten"
    <3>1. node'[i] = Absent /\ \A p \in Paths \ {i} : node'[p] = node[p]
      BY <2>1, <2>4 DEF ErasePath, HTypeOK
    <3>2. procs[s].failed = "no" /\ overlap = {} => \A p \in Paths : p < i => Restored(p)'
      BY <2>1, <2>2, <3>1 DEF ErasePath, Paths
    <3>3. CASE snap[i].presence = "present"
      <4>1. /\ procs'[s].pc = "restore" /\ procs'[s].i = i
            /\ procs'[s].failed = procs[s].failed
        BY <2>1, <2>4, <3>3, GotoMoves DEF ErasePath
      <4> QED
        BY <2>1, <3>2, <3>3, <4>1 DEF ErasePath, Relies, Snapping, Restoring, Concluding
    <3>4. CASE snap[i].presence # "present"
      <4>1. /\ procs'[s].pc = "erase" /\ procs'[s].i = i + 1
            /\ procs'[s].failed = procs[s].failed
        BY <2>1, <2>4, <3>4, StepMoves DEF ErasePath
      <4>2. overlap = {} => Restored(i)'
        BY <2>1, <3>1, <3>4
           DEF ErasePath, SnapshotHoldsPreImage, Rollbackable, Recorded
      <4>3. procs[s].failed = "no" /\ overlap = {} =>
              \A p \in Paths : p < i + 1 => Restored(p)'
        BY <2>1, <3>2, <4>2 DEF Paths
      <4> QED
        BY <2>1, <4>1, <4>3 DEF ErasePath, Relies, Snapping, Restoring, Concluding
    <3> QED
      BY <3>3, <3>4
  <2> QED
    BY <2>3, <2>4
<1>5. Images'
  BY StepMoves, GotoMoves DEF ErasePath, At, GetsLock, Images, StillNode, SnapshotHoldsPreImage, RolledBackIsPreImage, Restoring, Rollbackable, Recorded
<1>6. Names'
  BY DEF ErasePath, GetsLock, At, Names, CurrentIsLatest, EndedIsPast
<1> QED
  BY <1>3, <1>4, <1>5, <1>6, AloneRelies

LEMMA RestorePathStep ==
  ASSUME HInv, NEW s \in Slots, NEW ok \in BOOLEAN, RestorePath(s, ok)
  PROVE  Mutex' /\ Names' /\ Images' /\ \A r \in Slots : Relies(r)'
<1> USE DEF HInv, ghost
<1>1. Alone(s)
  BY HolderAlone DEF RestorePath, At, Inside
<1>2. OthersStay(s)
  BY StepMoves DEF RestorePath
<1>3. Alone(s)' /\ Mutex'
  BY <1>1, <1>2, StaysAlone
<1>4. Relies(s)'
  BY StepMoves DEF RestorePath, At, GetsLock, Relies, Snapping, Restoring, Concluding, Recorded, HTypeOK, Saved, Paths, SnapshotHoldsPreImage, Rollbackable
<1>5. Images'
  BY StepMoves DEF RestorePath, At, GetsLock, Images, StillNode, SnapshotHoldsPreImage, RolledBackIsPreImage, Restoring, Rollbackable, Recorded
<1>6. Names'
  BY DEF RestorePath, GetsLock, At, Names, CurrentIsLatest, EndedIsPast
<1> QED
  BY <1>3, <1>4, <1>5, <1>6, AloneRelies

LEMMA RestoreServicesStep ==
  ASSUME HInv, NEW s \in Slots, NEW ok \in BOOLEAN, RestoreServices(s, ok)
  PROVE  Mutex' /\ Names' /\ Images' /\ \A r \in Slots : Relies(r)'
<1> USE DEF HInv, ghost
<1>1. Alone(s)
  BY HolderAlone DEF RestoreServices, At, Inside
<1>2. OthersStay(s)
  BY StepMoves DEF RestoreServices
<1>3. Alone(s)' /\ Mutex'
  BY <1>1, <1>2, StaysAlone
<1>4. Relies(s)'
  BY StepMoves DEF RestoreServices, At, GetsLock, Relies, Snapping, Restoring, Concluding, SnapshotHoldsPreImage, Rollbackable, Paths
<1>5. Images'
  BY StepMoves DEF RestoreServices, At, GetsLock, Images, StillNode, SnapshotHoldsPreImage, RolledBackIsPreImage, Restoring, Rollbackable, Recorded
<1>6. Names'
  BY DEF RestoreServices, GetsLock, At, Names, CurrentIsLatest, EndedIsPast
<1> QED
  BY <1>3, <1>4, <1>5, <1>6, AloneRelies

LEMMA RollbackVerdictStep ==
  ASSUME HInv, NEW s \in Slots, RollbackVerdict(s)
  PROVE  Mutex' /\ Names' /\ Images' /\ \A r \in Slots : Relies(r)'
<1> USE DEF HInv, ghost
<1>1. Alone(s)
  BY HolderAlone DEF RollbackVerdict, At, Inside
<1>2. OthersStay(s)
  BY ExitMoves, BoundMoves DEF RollbackVerdict
<1>3. Alone(s)' /\ Mutex'
  BY <1>1, <1>2, StaysAlone
<1>4. Relies(s)'
  BY ExitMoves, BoundMoves DEF RollbackVerdict, At, GetsLock, Relies, Snapping, Restoring, Concluding, SetStatus, HTypeOK, Decided
<1>5. Images'
  <2>1. /\ procs[s].i \notin Paths /\ current.status = "ROLLING_BACK"
        /\ procs[s].failed = "no" /\ overlap = {} =>
             svc = pre.svc /\ \A p \in Paths : p < procs[s].i => node[p] = pre.node[p]
    BY DEF RollbackVerdict, At, Restoring
  <2>2. procs[s].i \in 1 .. NumPaths + 1
    BY DEF HTypeOK, Proc
  <2>3. procs[s].failed = "no" /\ overlap = {} => \A p \in Paths : node[p] = pre.node[p]
    BY <2>1, <2>2, PathsAssumption DEF Paths
  <2>4. procs[s].failed = "no" /\ overlap = {} => node = pre.node
    BY <2>3 DEF HTypeOK
  <2>5. \/ procs[s].failed = "yes" /\ current'.status = "ROLLBACK_FAILED"
        \/ procs[s].failed = "no" /\ current'.status = "ROLLED_BACK"
    BY DEF RollbackVerdict, SetStatus, HTypeOK
  <2> QED
    BY <2>1, <2>4, <2>5
       DEF RollbackVerdict, Images, StillNode, SnapshotHoldsPreImage, RolledBackIsPreImage,
           Rollbackable, Recorded
<1>6. Names'
  BY DEF RollbackVerdict, GetsLock, At, Names, CurrentIsLatest, EndedIsPast, SetStatus, HTypeOK, Restoring
<1> QED
  BY <1>3, <1>4, <1>5, <1>6, AloneRelies

-----------------------------------------------------------------------------
(* commit_transaction and the common tail                                  *)

LEMMA CommitDecidesStep ==
  ASSUME HInv, NEW s \in Slots, CommitDecides(s)
  PROVE  Mutex' /\ Names' /\ Images' /\ \A r \in Slots : Relies(r)'
<1> USE DEF HInv, ghost
<1>1. Alone(s)
  BY HolderAlone DEF CommitDecides, GetsLock, Inside
<1>2. OthersStay(s)
  BY BoundMoves DEF CommitDecides
<1>3. Alone(s)' /\ Mutex'
  BY <1>1, <1>2, StaysAlone
<1>4. Relies(s)'
  BY BoundMoves DEF CommitDecides, At, GetsLock, Relies, Snapping, Restoring, Concluding, SetStatus, HTypeOK, Decided
<1>5. Images'
  BY BoundMoves DEF CommitDecides, At, GetsLock, Images, StillNode, SnapshotHoldsPreImage, RolledBackIsPreImage, SetStatus, Rollbackable, HTypeOK
<1>6. Names'
  BY DEF CommitDecides, GetsLock, At, Names, CurrentIsLatest, EndedIsPast, SetStatus, MayCommit, HTypeOK
<1> QED
  BY <1>3, <1>4, <1>5, <1>6, AloneRelies

LEMMA DiscardStep ==
  ASSUME HInv, NEW s \in Slots, Discard(s)
  PROVE  Mutex' /\ Names' /\ Images' /\ \A r \in Slots : Relies(r)'
<1> USE DEF HInv, ghost
<1>1. Alone(s)
  BY HolderAlone DEF Discard, At, Inside
<1>2. OthersStay(s)
  BY GotoMoves DEF Discard
<1>3. Alone(s)' /\ Mutex'
  BY <1>1, <1>2, StaysAlone
<1>4. Relies(s)'
  BY GotoMoves DEF Discard, At, GetsLock, Relies, Snapping, Restoring, Concluding
<1>5. Images'
  BY GotoMoves DEF Discard, At, GetsLock, Images, StillNode, SnapshotHoldsPreImage, RolledBackIsPreImage, Concluding, Rollbackable, Decided
<1>6. Names'
  BY DEF Discard, GetsLock, At, Names, CurrentIsLatest, EndedIsPast
<1> QED
  BY <1>3, <1>4, <1>5, <1>6, AloneRelies

LEMMA DropCurrentStep ==
  ASSUME HInv, NEW s \in Slots, DropCurrent(s)
  PROVE  Mutex' /\ Names' /\ Images' /\ \A r \in Slots : Relies(r)'
<1> USE DEF HInv, ghost
<1>1. Alone(s)
  BY HolderAlone DEF DropCurrent, At, Inside
<1>2. OthersStay(s)
  BY ExitMoves DEF DropCurrent
<1>3. Alone(s)' /\ Mutex'
  BY <1>1, <1>2, StaysAlone
<1>4. Relies(s)'
  BY ExitMoves DEF DropCurrent, At, GetsLock, Relies, Snapping, Restoring, Concluding, Inside
<1>5. Images'
  BY ExitMoves DEF DropCurrent, At, GetsLock, Images, StillNode, SnapshotHoldsPreImage, RolledBackIsPreImage, NoTx, Rollbackable
<1>6. Names'
  BY DEF DropCurrent, GetsLock, At, Names, CurrentIsLatest, EndedIsPast, NoTx, HTypeOK, Tx, Concluding, Decided
<1> QED
  BY <1>3, <1>4, <1>5, <1>6, AloneRelies

-----------------------------------------------------------------------------
(* The environment                                                         *)

LEMMA NodeWriteStep ==
  ASSUME HInv, NodeWrite
  PROVE  Mutex' /\ Names' /\ Images' /\ \A r \in Slots : Relies(r)'
<1> USE DEF HInv
<1>1. Mutex' /\ Names'
  BY DEF NodeWrite, Mutex, Names, CurrentIsLatest, EndedIsPast
<1>2. /\ overlap \subseteq overlap'
      /\ current.status = "PREPARING" => "snapshot" \in overlap'
      /\ current.status \in {"ROLLING_BACK", "ROLLED_BACK"} => overlap' # {}
  BY DEF NodeWrite, Phase
<1>3. Images'
  BY <1>2 DEF NodeWrite, Images, StillNode, SnapshotHoldsPreImage, RolledBackIsPreImage,
              Recorded
<1>4. ASSUME NEW r \in Slots PROVE Relies(r)'
  BY <1>2 DEF NodeWrite, Relies, Snapping, Restoring, Concluding, KeptIn, Recorded
<1> QED
  BY <1>1, <1>3, <1>4

-----------------------------------------------------------------------------
(* The invariant is inductive.                                             *)

LEMMA InitInv == HInit => HInv
<1> SUFFICES ASSUME HInit PROVE HInv
  OBVIOUS
<1>1. HTypeOK
  <2>1. Absent \in Content /\ Files \cup {Absent} \subseteq Content
    BY DEF Content
  <2>2. node \in [Paths -> Content] /\ snap \in [Paths -> Saved] /\ svcSnap \in Service
    BY <2>1 DEF HInit, Unwritten, Saved, Service
  <2>3. current \in [status : Status, tx : 0 .. MaxTx] /\ txCount \in 0 .. MaxTx
    BY MaxTxAssumption DEF HInit, NoTx, Status
  <2>4. procs \in [Slots -> Proc]
    BY FreeSlotType DEF HInit
  <2>5. pre \in [node : [Paths -> Content], svc : Service]
    BY <2>1 DEF HInit, NoImage, Service
  <2>6. ended \in [Tx -> Status]
    BY DEF HInit, Status
  <2> QED
    BY <2>2, <2>3, <2>4, <2>5, <2>6 DEF HInit, HTypeOK
<1>2. \A s \in Slots : procs[s].pc = "free"
  BY DEF HInit, FreeSlot
<1>3. Mutex /\ \A s \in Slots : Relies(s)
  BY <1>2 DEF Mutex, Inside, Relies, Snapping, Restoring, Concluding
<1>4. Names /\ Images
  BY DEF HInit, NoTx, Names, Images, CurrentIsLatest, EndedIsPast, StillNode,
         SnapshotHoldsPreImage, RolledBackIsPreImage, Rollbackable, Tx
<1> QED
  BY <1>1, <1>3, <1>4 DEF HInv, Names, Images, Relies

LEMMA NextInv == HInv /\ [HNext]_hvars => HInv'
<1> SUFFICES ASSUME HInv, [HNext]_hvars PROVE HInv'
  OBVIOUS
<1> DEFINE Rest == Mutex /\ Names /\ Images /\ \A r \in Slots : Relies(r)
<1>1. CASE UNCHANGED hvars
  BY <1>1 DEF hvars, disk, ghost, HInv, HTypeOK, Mutex, CurrentIsLatest, EndedIsPast,
              StillNode, Snapping, Restoring, Concluding, KeptIn, Recorded,
              SnapshotHoldsPreImage, RolledBackIsPreImage
<1>2. CASE HNext
  <2>1. HTypeOK'
    BY <1>2, TypeStep DEF HInv
  <2>2. ASSUME NEW s \in Slots, NEW k \in Kinds, Spawn(s, k) PROVE Rest'
    <3>1. procs'[s].pc = "lock" /\ OthersStay(s)
      BY <2>2 DEF Spawn, HInv, HTypeOK, FreeSlot, OthersStay
    <3> QED
      BY <2>2, <3>1, QuietStep DEF Spawn, Inside
  <2>3. ASSUME NEW s \in Slots, Reap(s) PROVE Rest'
    <3>1. procs'[s].pc = "free" /\ OthersStay(s)
      BY <2>3 DEF Reap, HInv, HTypeOK, FreeSlot, OthersStay
    <3> QED
      BY <2>3, <3>1, QuietStep DEF Reap, Inside
  <2>4. ASSUME NEW s \in Slots,
               Dies(s) \/ BeginRefused(s) \/ RollbackNotNeeded(s) \/ RollbackRefused(s)
                 \/ CommitRefused(s)
        PROVE Rest'
    <3>1. procs'[s].pc = "exited" /\ OthersStay(s)
      BY <2>4, ExitMoves
         DEF Dies, BeginRefused, RollbackNotNeeded, RollbackRefused, CommitRefused, HInv
    <3>2. UNCHANGED <<disk, ghost>>
      BY <2>4 DEF Dies, BeginRefused, RollbackNotNeeded, RollbackRefused, CommitRefused
    <3> QED
      BY <3>1, <3>2, QuietStep DEF Inside
  <2>5. ASSUME NEW s \in Slots, ScriptStep(s) PROVE Rest'
    BY <2>4, <2>5, BeginOpensStep, WriteMetaStep, SnapMarkStep, SnapCopyStep,
       SnapServicesStep, ActivateStep, RollbackAbortsStep, RollbackStartsStep,
       StopServicesStep, ErasePathStep, RestorePathStep, RestoreServicesStep,
       RollbackVerdictStep, CommitDecidesStep, DiscardStep, DropCurrentStep
       DEF ScriptStep
  <2>6. ASSUME NEW s \in Slots, ScriptFault(s) PROVE Rest'
    BY <2>4, <2>6, RestorePathStep, RestoreServicesStep DEF ScriptFault
  <2>7. Rest'
    BY <1>2, <2>2, <2>3, <2>5, <2>6, NodeWriteStep DEF HNext
  <2> QED
    BY <2>1, <2>7 DEF HInv, Names, Images, Relies
<1> QED
  BY <1>1, <1>2

-----------------------------------------------------------------------------
(* Theorems                                                                *)

\* The strengthening HInv of the three properties below is an invariant of the
\* script under every interleaving of its invocations.
THEOREM Invariance == HSpec => []HInv
<1> QED
  BY InitInv, NextInv, PTL DEF HSpec

\* Every variable of the helper stays in its domain.
THEOREM TypeCorrect == HSpec => []HTypeOK
<1>1. HInv => HTypeOK
  BY DEF HInv
<1> QED
  BY <1>1, Invariance, PTL

\* However many invocations of the script overlap and die: as long as a
\* rollback may be needed the snapshot is complete and is the pre-image.
THEOREM SnapshotSafe == HSpec => []SnapshotHoldsPreImage
<1>1. HInv => SnapshotHoldsPreImage
  BY DEF HInv
<1> QED
  BY <1>1, Invariance, PTL

\* However many attempts it took, a rollback that reports success has
\* restored every path and the services.
THEOREM RollbackExact == HSpec => []RolledBackIsPreImage
<1>1. HInv => RolledBackIsPreImage
  BY DEF HInv
<1> QED
  BY <1>1, Invariance, PTL

-----------------------------------------------------------------------------
(* The helper implements AtomicConstruction.                               *)

FateMap == [t \in Tx |-> Fate(t)]

\* What a transaction in progress with status st counts as.
CountsAs(st) ==
  CASE st = "COMMITTED" -> "committed" [] st = "ROLLED_BACK" -> "undone"
    [] st = "NONE" -> "unused" [] OTHER -> "open"

LEMMA FateOfCurrent ==
  ASSUME HTypeOK, CurrentIsLatest, current.tx # 0
  PROVE  current.tx \in Tx /\ Fate(current.tx) = CountsAs(current.status)
  BY MaxTxAssumption DEF HTypeOK, CurrentIsLatest, Tx, Fate, CountsAs

\* Only the transaction in progress is open.
LEMMA OpenIsCurrent ==
  ASSUME HTypeOK, EndedIsPast, NEW t \in Tx, t # current.tx
  PROVE  Fate(t) # "open" /\ (t > txCount => Fate(t) = "unused")
  BY DEF HTypeOK, EndedIsPast, Fate, Decided, Tx

LEMMA FateUnmoved ==
  ASSUME UNCHANGED <<current, ended>>
  PROVE  UNCHANGED FateMap
  BY DEF FateMap, Fate

\* A new status moves the fate of the transaction in progress and no other.
LEMMA StatusMoves ==
  ASSUME HTypeOK, CurrentIsLatest, current.tx # 0, NEW st, st # "NONE",
         SetStatus(st), UNCHANGED ended
  PROVE  FateMap' = [FateMap EXCEPT ![current.tx] = CountsAs(st)]
<1>1. current'.tx = current.tx /\ current'.status = st
  BY DEF HTypeOK, SetStatus
<1>2. ASSUME NEW t \in Tx PROVE Fate(t)' = IF t = current.tx THEN CountsAs(st) ELSE Fate(t)
  BY <1>1 DEF Fate, CountsAs
<1> QED
  BY <1>2 DEF FateMap

LEMMA FateStep ==
  ASSUME HInv, HNext
  PROVE  Construction!ANext \/ UNCHANGED FateMap
<1> USE DEF HInv, ghost, disk
<1>a. ASSUME NEW st \in Rollbackable \cup Decided, SetStatus(st), UNCHANGED ended,
             current.status \in {"PREPARING"} \cup Rollbackable
      PROVE  Construction!ANext \/ UNCHANGED FateMap
  <2>1. PICK t \in Tx : t = current.tx /\ Fate(t) = "open" /\ FateMap[t] = "open"
    BY <1>a, FateOfCurrent DEF CurrentIsLatest, CountsAs, Rollbackable, FateMap
  <2>2. FateMap' = [FateMap EXCEPT ![t] = CountsAs(st)]
    BY <1>a, <2>1, StatusMoves DEF CurrentIsLatest, Rollbackable, Decided, Tx
  <2>3. CountsAs(st) \in {"open", "committed", "undone"}
    BY DEF CountsAs, Rollbackable, Decided
  <2>4. CASE CountsAs(st) = "open"
    <3>1. FateMap' = FateMap
      BY <2>1, <2>2, <2>4 DEF FateMap
    <3> QED
      BY <3>1
  <2>5. CASE CountsAs(st) = "committed"
    <3>1. Construction!Commit(t)
      BY <2>1, <2>2, <2>5 DEF Construction!Commit, FateMap
    <3> QED
      BY <3>1 DEF Construction!ANext
  <2>6. CASE CountsAs(st) = "undone"
    <3>1. Construction!Undo(t)
      BY <2>1, <2>2, <2>6 DEF Construction!Undo, FateMap
    <3> QED
      BY <3>1 DEF Construction!ANext
  <2> QED
    BY <2>3, <2>4, <2>5, <2>6
<1>1. ASSUME NEW s \in Slots, WriteMeta(s) PROVE Construction!ANext \/ UNCHANGED FateMap
  <2>1. PICK t \in Tx : t = txCount + 1 /\ current = NoTx
    BY <1>1, MaxTxAssumption DEF WriteMeta, At, Snapping, HTypeOK, Tx
  <2>2. current.tx # t
    BY <2>1 DEF NoTx, Tx
  <2>3. FateMap[t] = "unused" /\ \A u \in Tx : FateMap[u] # "open"
    BY <2>1, <2>2, OpenIsCurrent DEF FateMap, HTypeOK, NoTx, Tx
  <2>4. current' = [status |-> "PREPARING", tx |-> t] /\ ended' = ended
    BY <1>1, <2>1 DEF WriteMeta, OpeningStatus, FreshTx
  <2>5. ASSUME NEW u \in Tx PROVE Fate(u)' = IF u = t THEN "open" ELSE Fate(u)
    BY <2>1, <2>4 DEF Fate, NoTx, Tx
  <2>6. FateMap' = [FateMap EXCEPT ![t] = "open"]
    BY <2>5 DEF FateMap
  <2>7. Construction!Open(t)
    BY <2>3, <2>6 DEF Construction!Open, FateMap
  <2> QED
    BY <2>7 DEF Construction!ANext
<1>2. ASSUME NEW s \in Slots, DropCurrent(s) PROVE Construction!ANext \/ UNCHANGED FateMap
  <2>1. /\ current.status \in Decided \cup {"PREPARING"}
        /\ current' = NoTx /\ ended' = [ended EXCEPT ![current.tx] = current.status]
    BY <1>2 DEF DropCurrent, At, Concluding
  <2>2. PICK t \in Tx : t = current.tx /\ Fate(t) = CountsAs(current.status)
    BY <2>1, FateOfCurrent DEF CurrentIsLatest, Decided
  <2>3. ASSUME NEW u \in Tx
        PROVE  Fate(u)' = IF u = t /\ current.status = "PREPARING" THEN "undone" ELSE Fate(u)
    BY <2>1, <2>2 DEF Fate, CountsAs, NoTx, Tx, HTypeOK, Decided
  <2>4. CASE current.status = "PREPARING"
    <3>1. FateMap' = [FateMap EXCEPT ![t] = "undone"] /\ FateMap[t] = "open"
      BY <2>2, <2>3, <2>4 DEF FateMap, CountsAs
    <3>2. Construction!Undo(t)
      BY <3>1 DEF Construction!Undo, FateMap
    <3> QED
      BY <3>2 DEF Construction!ANext
  <2>5. CASE current.status # "PREPARING"
    BY <2>3, <2>5 DEF FateMap
  <2> QED
    BY <2>4, <2>5
<1>3. ASSUME NEW s \in Slots, Activate(s) PROVE Construction!ANext \/ UNCHANGED FateMap
  BY <1>3, <1>a DEF Activate, At, Snapping, Rollbackable
<1>4. ASSUME NEW s \in Slots, RollbackStarts(s)
      PROVE  Construction!ANext \/ UNCHANGED FateMap
  BY <1>4, <1>a DEF RollbackStarts, MayRollBack, Rollbackable
<1>5. ASSUME NEW s \in Slots, RollbackVerdict(s)
      PROVE  Construction!ANext \/ UNCHANGED FateMap
  BY <1>5, <1>a DEF RollbackVerdict, At, Restoring, Rollbackable, Decided
<1>6. ASSUME NEW s \in Slots, CommitDecides(s)
      PROVE  Construction!ANext \/ UNCHANGED FateMap
  BY <1>6, <1>a DEF CommitDecides, MayCommit, Rollbackable, Decided
<1>7. ASSUME NEW s \in Slots,
             \/ \E k \in Kinds : Spawn(s, k)
             \/ Reap(s) \/ BeginRefused(s) \/ BeginOpens(s) \/ SnapMark(s) \/ SnapCopy(s)
             \/ SnapServices(s) \/ RollbackNotNeeded(s) \/ RollbackAborts(s)
             \/ RollbackRefused(s) \/ StopServices(s) \/ ErasePath(s)
             \/ \E ok \in BOOLEAN : RestorePath(s, ok) \/ RestoreServices(s, ok)
             \/ CommitRefused(s) \/ Discard(s) \/ Dies(s)
      PROVE  UNCHANGED FateMap
  <2>1. UNCHANGED <<current, ended>>
    BY <1>7 DEF Spawn, Reap, BeginRefused, BeginOpens, SnapMark, SnapCopy, SnapServices,
                RollbackNotNeeded, RollbackAborts, RollbackRefused, StopServices,
                ErasePath, RestorePath, RestoreServices, CommitRefused, Discard, Dies
  <2> QED
    BY <2>1, FateUnmoved
<1>8. CASE NodeWrite
  BY <1>8, FateUnmoved DEF NodeWrite
<1> QED
  BY <1>1, <1>2, <1>3, <1>4, <1>5, <1>6, <1>7, <1>8 DEF HNext, ScriptStep, ScriptFault

\* For any number of paths, invocations and transactions the script implements
\* atomic constructions: every transaction is decided at most once, for good,
\* and none opens while another is undecided.
THEOREM Refinement == HSpec => AtomicConstructions
<1>1. HInit => Construction!AInit
  BY DEF HInit, NoTx, Construction!AInit, Fate, Tx
<1>2. HInv /\ [HNext]_hvars => [Construction!ANext]_FateMap
  <2> SUFFICES ASSUME HInv, [HNext]_hvars PROVE [Construction!ANext]_FateMap
    OBVIOUS
  <2>1. CASE HNext
    BY <2>1, FateStep
  <2>2. CASE UNCHANGED hvars
    BY <2>2, FateUnmoved DEF hvars, disk, ghost
  <2> QED
    BY <2>1, <2>2
<1> QED
  BY <1>1, <1>2, Invariance, PTL
     DEF HSpec, AtomicConstructions, Construction!ASpec, FateMap

-----------------------------------------------------------------------------
(* The sessions.  A transaction has begun once its identifier is printed.  *)

\* Transaction t was opened, and has left the state PREPARING if it lasts.
Started(t) ==
  /\ t \in 1 .. txCount
  /\ current.tx = t => current.status # "PREPARING"

\* Process s has printed the identifier of its transaction, unread so far.
Began(s) == At(s, "exited") /\ procs[s].out = "BEGAN"

BeganOnce ==
  /\ \A s \in Slots : Began(s) => Started(procs[s].tx)
  /\ \A r, s \in Slots : Began(r) /\ Began(s) /\ procs[r].tx = procs[s].tx => r = s
  /\ \A s \in Slots : procs[s].out = "BEGAN" => At(s, "exited")

\* The transactions that sessions, messages and wizards are about; what a
\* process has printed and nobody has read is none of them.
Claimed == ({cl[c].tx : c \in Clients} \cup {told[c].tx : c \in Clients} \cup wiz) \ {0}

ClaimedOnce ==
  \A t \in Claimed : Started(t) /\ \A s \in Slots : Began(s) => procs[s].tx # t

\* A session that knows its transaction, and the process it waits for.
Knows == {"wizard", "comStatus", "commit", "rbStatus", "rollback"}
Waits == {"recRollback", "begin", "commit", "rollback"}

Awaits ==
  /\ \A c \in Clients :
       /\ cl[c].tx # 0 <=> cl[c].pc \in Knows
       /\ In(c, "commit") => cl[c].slot \in Slots
       /\ cl[c].slot \in Slots => cl[c].pc \in Waits /\ ~At(cl[c].slot, "free")
  /\ \A c, d \in Clients : cl[c].slot = cl[d].slot /\ cl[c].slot \in Slots => c = d

\* From the end of the wizard on nothing of it is left on the node.
WizardOver ==
  /\ \A c \in Clients : cl[c].pc \in {"comStatus", "commit"} => cl[c].tx \notin wiz
  /\ \A c \in Clients : told[c].msg = "committed" => told[c].tx # 0 /\ told[c].tx \notin wiz

\* As long as nobody else changes the transaction, the commit process of the
\* session decides the transaction that was checked, or none.
CommitsOwn(c) ==
  LET p == procs[cl[c].slot]
      t == cl[c].tx IN
  In(c, "commit") /\ c \notin disturbed =>
    /\ p.kind = "commit" /\ p.pc \in {"lock", "discard", "drop", "exited"}
    /\ current.status = "ACTIVE" => current.tx = t
    /\ p.pc \in {"discard", "drop"} =>
         p.out = "COMMITTED" /\ current = [status |-> "COMMITTED", tx |-> t]
    /\ p.pc = "exited" /\ p.out = "COMMITTED" => Fate(t) = "committed"

CommittedTold ==
  \A c \in Clients : told[c].msg = "committed" /\ c \notin disturbed =>
    Fate(told[c].tx) = "committed"

SessionInv ==
  /\ HInv /\ STypeOK
  /\ BeganOnce /\ ClaimedOnce /\ Awaits /\ WizardOver
  /\ \A c \in Clients : CommitsOwn(c)
  /\ CommittedTold

-----------------------------------------------------------------------------
(* Every step of a session is one of the script, of the rest of the node,  *)
(* or none of theirs.                                                      *)

LEMMA SessionIsHelper ==
  ASSUME HTypeOK, SNext
  PROVE  HNext \/ UNCHANGED hvars
<1>1. ASSUME NEW s \in Slots, HelperStep(s) \/ HelperFault(s) PROVE HNext
  BY <1>1 DEF HelperStep, HelperFault, ReapOrphan, HNext
<1>2. CASE WizardWrites \/ WizardDies
  BY <1>2 DEF WizardWrites, WizardDies, HNext
<1>3. ASSUME NEW c \in Clients, NEW k \in Kinds, NEW pc, Request(c, k, pc) PROVE HNext
  BY <1>3 DEF Request, HNext
<1>4. ASSUME NEW c \in Clients, NEW outs, Answered(c, outs) PROVE HNext
  BY <1>4 DEF Answered, HNext
<1>5. ASSUME NEW c \in Clients, ClientStep(c) PROVE HNext \/ UNCHANGED hvars
  <2>1. CASE StartMenu1(c) \/ UpdateToolkitOnly(c) \/ WizardEnds(c, "comStatus")
             \/ WizardEnds(c, "rbStatus")
    BY <2>1 DEF StartMenu1, UpdateToolkitOnly, WizardEnds
  <2>2. CASE RecoverNothing(c) \/ RecoverUnsupported(c) \/ CommitMismatch(c)
             \/ RollbackFindsNothing(c) \/ RollbackMismatch(c)
    BY <2>2 DEF RecoverNothing, RecoverUnsupported, CommitMismatch, RollbackFindsNothing,
                RollbackMismatch, ReadsCurrent
  <2>3. CASE RecoverRollsBack(c) \/ BaselineThenBegin(c) \/ CommitRequested(c)
             \/ RollbackRequested(c)
    BY <2>3, <1>3 DEF RecoverRollsBack, BaselineThenBegin, CommitRequested,
                      RollbackRequested, Kinds
  <2>4. CASE RecoveryEnds(c) \/ BeginAnswered(c) \/ CommitAnswered(c) \/ RollbackAnswered(c)
    BY <2>4, <1>4 DEF RecoveryEnds, BeginAnswered, CommitAnswered, RollbackAnswered, Refused
  <2> QED
    BY <1>5, <2>1, <2>2, <2>3, <2>4 DEF ClientStep, Recovery, Constructing, Conclusion
<1>6. ASSUME NEW c \in Clients, ClientFault(c) PROVE HNext \/ UNCHANGED hvars
  <2>1. CASE Retry(c)
    BY <2>1 DEF Retry, HTypeOK, Proc, HNext
  <2>2. CASE OperatorDeclines(c) \/ GivesUp(c) \/ Killed(c)
    BY <2>2 DEF OperatorDeclines, ReadsCurrent, GivesUp, Killed
  <2> QED
    BY <1>6, <2>1, <2>2 DEF ClientFault
<1> QED
  BY <1>1, <1>2, <1>5, <1>6 DEF SNext

\* What is committed stays committed.
LEMMA CommittedStays ==
  ASSUME HInv, HNext \/ UNCHANGED hvars, NEW t \in Tx, Fate(t) = "committed"
  PROVE  Fate(t)' = "committed"
<1>1. Construction!ANext \/ UNCHANGED FateMap
  BY FateStep, FateUnmoved DEF hvars, disk, ghost
<1>2. FateMap[t] = "committed" /\ FateMap'[t] = Fate(t)'
  BY DEF FateMap
<1>3. ASSUME NEW u \in Tx, Construction!Open(u) \/ Construction!Commit(u) \/ Construction!Undo(u)
      PROVE  FateMap'[t] = "committed"
  <2>1. u # t
    BY <1>2, <1>3 DEF Construction!Open, Construction!Commit, Construction!Undo
  <2> QED
    BY <1>2, <1>3, <2>1 DEF Construction!Open, Construction!Commit, Construction!Undo, FateMap
<1> QED
  BY <1>1, <1>2, <1>3 DEF Construction!ANext

\* What a step of the script does to its process and to the other ones.
LEMMA ScriptMoves ==
  ASSUME HInv, NEW s \in Slots, ScriptStep(s) \/ ScriptFault(s)
  PROVE  /\ OthersStay(s) /\ procs'[s].kind = procs[s].kind
         /\ procs[s].pc \notin {"free", "exited"} /\ procs'[s].pc # "free"
         /\ procs[s].pc = "lock" => procs'[s].pc = "exited" \/ GetsLock(s, procs[s].kind)
         /\ procs'[s].out = procs[s].out \/ procs'[s].out # "BEGAN" \/ Activate(s)
<1> USE DEF HInv
<1>0. procs \in [Slots -> Proc] /\ procs[s] \in Proc
  BY DEF HTypeOK
<1>1. ASSUME NEW pc \in Pc \ {"free"}, procs[s].pc \notin {"free", "exited"},
             procs[s].pc = "lock" => GetsLock(s, procs[s].kind),
             \/ Goto(s, pc)
             \/ \E i, f : Step(s, pc, i, f)
             \/ \E out \in Outs \ {"BEGAN"} : Bound(s, pc, out)
      PROVE  /\ OthersStay(s) /\ procs'[s].kind = procs[s].kind
             /\ procs[s].pc \notin {"free", "exited"} /\ procs'[s].pc # "free"
             /\ procs[s].pc = "lock" => GetsLock(s, procs[s].kind)
             /\ procs'[s].out = procs[s].out \/ procs'[s].out # "BEGAN"
  <2>1. CASE Goto(s, pc)
    BY <1>0, <1>1, <2>1 DEF Goto, OthersStay, Proc
  <2>2. ASSUME NEW i, NEW f, Step(s, pc, i, f)
        PROVE  OthersStay(s) /\ procs'[s].kind = procs[s].kind /\ procs'[s].pc = pc
               /\ procs'[s].out = procs[s].out
    BY <1>0, <2>2 DEF Step, OthersStay, Proc
  <2>3. ASSUME NEW out \in Outs \ {"BEGAN"}, Bound(s, pc, out)
        PROVE  OthersStay(s) /\ procs'[s].kind = procs[s].kind /\ procs'[s].pc = pc
               /\ procs'[s].out = out
    BY <1>0, <2>3 DEF Bound, OthersStay, Proc
  <2> QED
    BY <1>1, <2>1, <2>2, <2>3
<1>2. ASSUME NEW out, procs[s].pc \notin {"free", "exited"}, Exit(s, out)
      PROVE  /\ OthersStay(s) /\ procs'[s].kind = procs[s].kind
             /\ procs[s].pc \notin {"free", "exited"} /\ procs'[s].pc = "exited"
             /\ procs'[s].out = out
  BY <1>0, <1>2 DEF Exit, OthersStay, Proc, FreeSlot
<1>3. CASE BeginOpens(s) \/ WriteMeta(s) \/ SnapServices(s)
           \/ RollbackStarts(s) \/ StopServices(s) \/ ErasePath(s) \/ Discard(s)
           \/ (\E ok \in BOOLEAN : RestorePath(s, ok) \/ RestoreServices(s, ok))
  BY <1>1, <1>3 DEF BeginOpens, WriteMeta, SnapServices, RollbackStarts,
     StopServices, ErasePath, RestorePath, RestoreServices, Discard, GetsLock, At, Pc, Inside
<1>4. CASE SnapMark(s) \/ SnapCopy(s)
  BY <1>1, <1>2, <1>4 DEF SnapMark, SnapCopy, At, Pc, Inside
<1>5. CASE RollbackAborts(s) \/ CommitDecides(s) \/ RollbackVerdict(s)
  BY <1>1, <1>2, <1>5 DEF RollbackAborts, CommitDecides, RollbackVerdict, GetsLock, At, Pc,
     Inside, Outs
<1>6. CASE BeginRefused(s) \/ RollbackNotNeeded(s) \/ RollbackRefused(s) \/ CommitRefused(s)
           \/ Dies(s) \/ Activate(s) \/ DropCurrent(s)
  BY <1>2, <1>6 DEF BeginRefused, RollbackNotNeeded, RollbackRefused, CommitRefused, Dies,
     Activate, DropCurrent, GetsLock, At, Inside
<1> QED
  BY <1>3, <1>4, <1>5, <1>6 DEF ScriptStep, ScriptFault

\* A process prints BEGAN for a transaction that has not been started before,
\* and only one does so at a time.
LEMMA BeginsOnce ==
  ASSUME HInv, BeganOnce, HNext \/ UNCHANGED hvars
  PROVE  /\ \A t : Started(t) => Started(t)'
         /\ \A s \in Slots : Began(s)' =>
              \/ Began(s) /\ procs'[s].tx = procs[s].tx
              \/ ~Started(procs'[s].tx) /\ Started(procs[s].tx)'
         /\ BeganOnce'
<1> USE DEF HInv
<1>0. /\ txCount \in 0 .. MaxTx /\ procs \in [Slots -> Proc] /\ current.tx \in 0 .. MaxTx
      /\ current \in [status : Status, tx : 0 .. MaxTx]
  BY DEF HTypeOK
<1> DEFINE Quiet == \A s \in Slots : procs'[s].out = "BEGAN" => procs'[s] = procs[s]
<1>1. ASSUME \A t : Started(t) => Started(t)', Quiet
      PROVE  /\ \A s \in Slots : Began(s)' => Began(s) /\ procs'[s].tx = procs[s].tx
             /\ BeganOnce'
  BY <1>1 DEF BeganOnce, At, Began
<1>2. ASSUME UNCHANGED txCount, current' = current \/ current'.status # "PREPARING"
      PROVE  \A t : Started(t) => Started(t)'
  BY <1>2 DEF Started
<1>3. CASE UNCHANGED hvars
  BY <1>1, <1>2, <1>3 DEF hvars, disk
<1>4. CASE NodeWrite
  BY <1>1, <1>2, <1>4 DEF NodeWrite
<1>5. ASSUME NEW s \in Slots, (\E k \in Kinds : Spawn(s, k)) \/ Reap(s)
      PROVE  Quiet /\ UNCHANGED <<current, txCount>>
  <2>1. ASSUME NEW k \in Kinds, Spawn(s, k) PROVE procs'[s].out = "-" /\ OthersStay(s)
    BY <1>0, <2>1 DEF Spawn, FreeSlot, OthersStay
  <2>2. ASSUME Reap(s) PROVE procs'[s].out = "-" /\ OthersStay(s)
    BY <1>0, <2>2 DEF Reap, FreeSlot, OthersStay
  <2>3. procs'[s].out = "-" /\ OthersStay(s)
    BY <1>5, <2>1, <2>2
  <2> QED
    BY <1>5, <2>3 DEF Spawn, Reap, OthersStay, disk
<1>6. ASSUME NEW s \in Slots, ScriptStep(s) \/ ScriptFault(s), ~Activate(s) PROVE Quiet
  BY <1>6, ScriptMoves DEF OthersStay, BeganOnce, At
<1>7. ASSUME NEW s \in Slots, ScriptStep(s) \/ ScriptFault(s), ~WriteMeta(s)
      PROVE  UNCHANGED txCount /\ (current' = current \/ current'.status # "PREPARING")
  BY <1>0, <1>7 DEF ScriptStep, ScriptFault, BeginRefused, BeginOpens, SnapMark, SnapCopy,
     SnapServices, RollbackNotNeeded, RollbackAborts, RollbackRefused, StopServices,
     ErasePath, RestorePath, RestoreServices, CommitRefused, Discard, Dies, disk, Activate,
     RollbackStarts, RollbackVerdict, CommitDecides, DropCurrent, SetStatus, NoTx
<1>8. ASSUME NEW s \in Slots, WriteMeta(s) PROVE \A t : Started(t) => Started(t)'
  BY <1>0, <1>8, MaxTxAssumption DEF WriteMeta, FreshTx, Started
<1>9. ASSUME NEW s \in Slots, Activate(s)
      PROVE  /\ OthersStay(s) /\ Began(s)' /\ ~Began(s)
             /\ procs'[s].tx = current.tx /\ current'.tx = current.tx
             /\ ~Started(current.tx) /\ Started(current.tx)'
             /\ \A r \in Slots \ {s} : Began(r)' => Began(r) /\ procs'[r].tx # current.tx
             /\ \A t : Started(t) => Started(t)'
  <2>1. OthersStay(s) /\ Began(s)' /\ ~Began(s) /\ procs'[s].tx = current.tx
    BY <1>0, <1>9 DEF Activate, Exit, OthersStay, Began, At, FreeSlot
  <2>2. current.status = "PREPARING" /\ current'.status = "ACTIVE" /\ current'.tx = current.tx
    BY <1>0, <1>9 DEF Activate, SetStatus, At, Snapping
  <2>3. ~Started(current.tx) /\ Started(current.tx)'
    BY <1>0, <1>9, <2>2 DEF Started, Activate, CurrentIsLatest
  <2>4. \A t : Started(t) => Started(t)'
    BY <1>2, <1>9, <2>2 DEF Activate
  <2> QED
    BY <2>1, <2>2, <2>3, <2>4 DEF OthersStay, Began, At, BeganOnce
<1>10. ASSUME NEW s \in Slots, Activate(s) PROVE BeganOnce'
  <2>1. \A r \in Slots \ {s} : procs'[r] = procs[r] /\ (Began(r)' <=> Began(r))
    BY <1>9, <1>10 DEF OthersStay, Began, At
  <2>2. \A r \in Slots : Began(r)' => Started(procs[r].tx)'
    BY <1>9, <1>10, <2>1 DEF BeganOnce, Began, At, Started
  <2>3. \A q, r \in Slots : Began(q)' /\ Began(r)' /\ procs'[q].tx = procs'[r].tx => q = r
    BY <1>9, <1>10, <2>1 DEF BeganOnce
  <2>4. \A r \in Slots : procs'[r].out = "BEGAN" => procs'[r].pc = "exited"
    BY <1>9, <1>10, <2>1 DEF BeganOnce, Began, At
  <2> QED
    BY <2>2, <2>3, <2>4 DEF BeganOnce, At
<1>11. ASSUME NEW s \in Slots, ScriptStep(s) \/ ScriptFault(s)
       PROVE  /\ \A t : Started(t) => Started(t)'
              /\ Quiet \/ Activate(s)
  BY <1>2, <1>6, <1>7, <1>8, <1>11
<1>12. CASE \E s \in Slots : Activate(s)
  <2>1. PICK s \in Slots : Activate(s)
    BY <1>12
  <2>2. \A r \in Slots \ {s} : procs'[r] = procs[r] /\ (Began(r)' <=> Began(r))
    BY <1>9, <2>1 DEF OthersStay, Began, At
  <2>3. \A r \in Slots : Began(r)' =>
              \/ Began(r) /\ procs'[r].tx = procs[r].tx
              \/ ~Started(procs'[r].tx) /\ Started(procs[r].tx)'
    BY <1>9, <2>1, <2>2 DEF Started, Began, At
  <2> QED
    BY <1>9, <1>10, <2>1, <2>3
<1> QED
  BY <1>1, <1>2, <1>3, <1>4, <1>5, <1>11, <1>12 DEF HNext

-----------------------------------------------------------------------------
(* A session goes on as r and tells m.                                     *)

Messages == [msg : Message, tx : 0 .. MaxTx]

\* What no session claims may be claimed if it was just begun, and read.
Fresh(t) ==
  /\ Started(t)
  /\ \A s \in Slots : procs'[s].pc = "exited" /\ procs'[s].out = "BEGAN" => procs'[s].tx # t

LEMMA SessionMoves ==
  ASSUME SessionInv, HInv', HNext \/ UNCHANGED hvars,
         NEW c \in Clients, NEW r \in Session, NEW m \in Messages,
         cl' = [cl EXCEPT ![c] = r], told' = [told EXCEPT ![c] = m],
         UNCHANGED <<current, ended, txCount>>,
         wiz' \subseteq Tx, faults' \in 0 .. MaxFaults,
         disturbed' \in {disturbed, disturbed \ {c}},
         \A d \in Clients \ {c} :
           cl[d].slot \in Slots => procs'[cl[d].slot] = procs[cl[d].slot],
         r.tx # 0 <=> r.pc \in Knows,
         r.slot \in Slots =>
           /\ r.pc \in Waits /\ procs'[r.slot].pc # "free"
           /\ \A d \in Clients \ {c} : cl[d].slot # r.slot,
         r.pc = "commit" =>
           /\ r.slot \in Slots
           /\ c \notin disturbed' =>
                /\ procs'[r.slot].kind = "commit" /\ procs'[r.slot].pc = "lock"
                /\ current.status = "ACTIVE" => current.tx = r.tx,
         r.pc \in {"comStatus", "commit"} => r.tx \notin wiz',
         m.msg = "committed" =>
           /\ m.tx # 0 /\ m.tx \notin wiz'
           /\ c \notin disturbed' => Fate(m.tx) = "committed",
         \A t \in wiz' \ wiz : t \notin Claimed,
         \A t \in ({r.tx, m.tx} \cup wiz') \ {0} : t \in Claimed \/ Fresh(t)
  PROVE  SessionInv'
<1> USE DEF SessionInv
<1>1. /\ cl \in [Clients -> Session] /\ told \in [Clients -> Messages]
      /\ cl' \in [Clients -> Session] /\ told' \in [Clients -> Messages]
      /\ cl'[c] = r /\ told'[c] = m
      /\ \A d \in Clients \ {c} : cl'[d] = cl[d] /\ told'[d] = told[d]
  BY DEF STypeOK, Messages
<1>2. STypeOK'
  BY <1>1 DEF STypeOK, Messages, HInv
<1>3. /\ BeganOnce'
      /\ \A t : Started(t) => Started(t)'
      /\ \A s \in Slots : Began(s)' =>
              \/ Began(s) /\ procs'[s].tx = procs[s].tx
              \/ ~Started(procs'[s].tx) /\ Started(procs[s].tx)'
  BY BeginsOnce
<1>4. Claimed' \subseteq Claimed \cup (({r.tx, m.tx} \cup wiz') \ {0})
  BY <1>1 DEF Claimed
<1>5. ClaimedOnce'
  <2>1. SUFFICES ASSUME NEW t \in Claimed'
                 PROVE  Started(t)' /\ \A s \in Slots : Began(s)' => procs'[s].tx # t
    BY DEF ClaimedOnce
  <2>2. CASE t \in Claimed
    BY <1>3, <2>2 DEF ClaimedOnce, Started, Began, At
  <2>3. CASE Fresh(t)
    BY <1>3, <2>3 DEF Fresh, Started, Began, At
  <2> QED
    BY <1>4, <2>2, <2>3
<1>6. Awaits'
  BY <1>1 DEF Awaits, In, At
<1>7. WizardOver'
  <2>1. \A d \in Clients : {cl[d].tx, told[d].tx} \ {0} \subseteq Claimed
    BY DEF Claimed
  <2>2. ASSUME NEW d \in Clients \ {c} PROVE
          /\ cl[d].pc \in {"comStatus", "commit"} => cl[d].tx \notin wiz'
          /\ told[d].msg = "committed" => told[d].tx # 0 /\ told[d].tx \notin wiz'
    BY <2>1 DEF WizardOver, Awaits, Knows
  <2> QED
    BY <1>1, <2>2 DEF WizardOver
<1>8. ASSUME NEW d \in Clients PROVE CommitsOwn(d)'
  <2>1. CASE d = c
    BY <1>1, <2>1 DEF CommitsOwn, In
  <2>2. CASE d # c
    BY <1>1, <2>2 DEF CommitsOwn, Awaits, In, Fate
  <2> QED
    BY <2>1, <2>2
<1>9. CommittedTold'
  BY <1>1 DEF CommittedTold, Fate
<1> QED
  BY <1>2, <1>3, <1>5, <1>6, <1>7, <1>8, <1>9

\* The step concerns no process that another session waits for.
OthersAwait(c) ==
  \A d \in Clients \ {c} : cl[d].slot \in Slots => procs'[cl[d].slot] = procs[cl[d].slot]

LEMMA ReapsOwn ==
  ASSUME SessionInv, NEW c \in Clients, NEW outs, Answered(c, outs) \/ Refused(c, outs)
  PROVE  UNCHANGED <<current, ended, txCount>> /\ OthersAwait(c)
<1>1. cl[c].slot \in Slots /\ Reap(cl[c].slot)
  BY DEF Answered, Refused
<1>2. procs \in [Slots -> Proc]
  BY DEF SessionInv, HInv, HTypeOK
<1> QED
  BY <1>1, <1>2 DEF SessionInv, Awaits, OthersAwait, Reap, disk, ghost

LEMMA MoveIs ==
  ASSUME STypeOK, NEW c \in Clients, NEW pc, Move(c, pc)
  PROVE  cl' = [cl EXCEPT ![c] = [pc |-> pc, tx |-> cl[c].tx, slot |-> NoSlot,
                                  retried |-> FALSE]]
<1> DEFINE r == [pc |-> pc, tx |-> cl[c].tx, slot |-> NoSlot, retried |-> FALSE]
<1>0. cl \in [Clients -> Session] /\ cl[c] \in Session
  BY DEF STypeOK
<1>1. [[[cl[c] EXCEPT !.pc = pc] EXCEPT !.slot = NoSlot] EXCEPT !.retried = FALSE] = r
  <2>1. PICK q : q = [cl[c] EXCEPT !.pc = pc]
    OBVIOUS
  <2>2. q = [pc |-> pc, tx |-> cl[c].tx, slot |-> cl[c].slot, retried |-> cl[c].retried]
    BY <1>0, <2>1 DEF Session
  <2>3. PICK u : u = [q EXCEPT !.slot = NoSlot]
    OBVIOUS
  <2>4. u = [pc |-> pc, tx |-> cl[c].tx, slot |-> NoSlot, retried |-> cl[c].retried]
    BY <2>2, <2>3
  <2>5. ASSUME NEW f
        PROVE  [u EXCEPT !.retried = f]
                 = [pc |-> pc, tx |-> cl[c].tx, slot |-> NoSlot, retried |-> f]
    BY <2>4
  <2> QED
    BY <2>1, <2>3, <2>5
<1>2. cl' = [cl EXCEPT ![c] = [[[cl[c] EXCEPT !.pc = pc] EXCEPT !.slot = NoSlot]
                                  EXCEPT !.retried = FALSE]]
  BY <1>0 DEF Move
<1> QED
  BY <1>1, <1>2

\* The session waits for no process any more and has learned of no transaction.
LEMMA SessionRests ==
  ASSUME SessionInv, HInv', HNext \/ UNCHANGED hvars, NEW c \in Clients,
         UNCHANGED <<current, ended, txCount>>, OthersAwait(c),
         wiz' \subseteq wiz, faults' \in 0 .. MaxFaults,
         NEW pc \in ClientPc \ {"commit"},
         \/ BackToMenu(c) /\ pc = "idle"
         \/ Move(c, pc) /\ (pc \in Knows <=> cl[c].pc \in Knows),
         pc = "comStatus" => cl[c].tx \notin wiz',
         \/ UNCHANGED <<told, disturbed>>
         \/ disturbed' \in {disturbed, disturbed \ {c}} /\ told' = [told EXCEPT ![c] = Silence]
         \/ UNCHANGED disturbed /\ \E msg \in Message \ {"committed"} : Tell(c, msg)
  PROVE  SessionInv'
<1> USE DEF SessionInv
<1>0. /\ cl \in [Clients -> Session] /\ told \in [Clients -> Messages] /\ wiz \subseteq Tx
      /\ cl[c] \in Session /\ told[c] \in Messages
  BY DEF STypeOK, Messages
<1>1. PICK r \in Session :
        /\ cl' = [cl EXCEPT ![c] = r] /\ r.slot = NoSlot /\ r.pc = pc /\ r.tx \in {0, cl[c].tx}
        /\ r.tx # 0 <=> r.pc \in Knows
        /\ r.pc = "comStatus" => r.tx = cl[c].tx
  <2>1. CASE BackToMenu(c) /\ pc = "idle"
    <3>1. AtMenu \in Session /\ AtMenu.tx = 0 /\ AtMenu.slot = NoSlot /\ AtMenu.pc = "idle"
      BY MaxTxAssumption DEF AtMenu, Session, ClientPc
    <3> QED
      BY <2>1, <3>1 DEF BackToMenu, Knows
  <2>2. CASE Move(c, pc) /\ (pc \in Knows <=> cl[c].pc \in Knows)
    <3>1. [pc |-> pc, tx |-> cl[c].tx, slot |-> NoSlot, retried |-> FALSE] \in Session
      BY <1>0 DEF Session
    <3> QED
      BY <2>2, <3>1, MoveIs DEF Awaits
  <2> QED
    BY <2>1, <2>2
<1>2. PICK m \in Messages :
        /\ told' = [told EXCEPT ![c] = m] /\ m.tx \in {0, cl[c].tx, told[c].tx}
        /\ m.msg = "committed" => m = told[c] /\ disturbed' = disturbed
        /\ disturbed' \in {disturbed, disturbed \ {c}}
  <2>1. CASE UNCHANGED <<told, disturbed>>
    BY <1>0, <2>1
  <2>2. CASE disturbed' \in {disturbed, disturbed \ {c}} /\ told' = [told EXCEPT ![c] = Silence]
    <3>1. Silence \in Messages /\ Silence.tx = 0 /\ Silence.msg = "none"
      BY MaxTxAssumption DEF Silence, Messages, Message
    <3> QED
      BY <2>2, <3>1
  <2>3. ASSUME NEW msg \in Message \ {"committed"}, Tell(c, msg), UNCHANGED disturbed
        PROVE  \E m \in Messages :
                 /\ told' = [told EXCEPT ![c] = m] /\ m.tx \in {0, cl[c].tx, told[c].tx}
                 /\ m.msg = "committed" => m = told[c] /\ disturbed' = disturbed
                 /\ disturbed' \in {disturbed, disturbed \ {c}}
    <3>1. [msg |-> msg, tx |-> cl[c].tx] \in Messages
      BY <1>0 DEF Messages, Session
    <3> QED
      BY <2>3, <3>1 DEF Tell
  <2> QED
    BY <2>1, <2>2, <2>3
<1>3. ({r.tx, m.tx} \cup wiz') \ {0} \subseteq Claimed
  BY <1>1, <1>2 DEF Claimed
<1>4. r.slot \notin Slots
  BY <1>1, NoSlotAssumption
<1>5. r.pc \in {"comStatus", "commit"} => r.tx \notin wiz'
  BY <1>1
<1>6. m.msg = "committed" => m.tx # 0 /\ m.tx \notin wiz' /\ (c \notin disturbed' => Fate(m.tx) = "committed")
  BY <1>2 DEF WizardOver, CommittedTold
<1> QED
  BY <1>0, <1>1, <1>2, <1>3, <1>4, <1>5, <1>6, SessionMoves DEF OthersAwait

-----------------------------------------------------------------------------
(* The steps of a session.                                                 *)

LEMMA QuietRests ==
  ASSUME SessionInv, HInv', NEW c \in Clients,
         \/ StartMenu1(c) \/ RecoverNothing(c) \/ OperatorDeclines(c) \/ RecoverUnsupported(c)
         \/ UpdateToolkitOnly(c) \/ CommitMismatch(c) \/ RollbackFindsNothing(c)
         \/ RollbackMismatch(c) \/ GivesUp(c) \/ Killed(c)
         \/ WizardEnds(c, "comStatus") \/ WizardEnds(c, "rbStatus")
  PROVE  SessionInv'
<1>1. /\ UNCHANGED hvars
      /\ UNCHANGED <<current, ended, txCount>> /\ OthersAwait(c)
  <2>1. UNCHANGED hvars
    BY DEF StartMenu1, RecoverNothing, OperatorDeclines, RecoverUnsupported, UpdateToolkitOnly,
       CommitMismatch, RollbackFindsNothing, RollbackMismatch, GivesUp, Killed, WizardEnds,
       ReadsCurrent
  <2> QED
    BY <2>1 DEF OthersAwait, hvars, disk, ghost
<1>2. faults \in 0 .. MaxFaults /\ (Misfortune => faults' \in 0 .. MaxFaults)
  BY MaxFaultsAssumption DEF SessionInv, STypeOK, Misfortune
<1>3. {"idle", "recStatus", "baseline", "comStatus", "rbStatus"} \subseteq ClientPc \ {"commit"}
      /\ {"unsupported", "nothingToRollBack", "rollbackFailed"} \subseteq Message \ {"committed"}
  BY DEF ClientPc, Message
<1>4. CASE StartMenu1(c)
  BY <1>1, <1>2, <1>3, <1>4, SessionRests DEF StartMenu1, In, Knows
<1>5. CASE RecoverNothing(c)
  BY <1>1, <1>2, <1>3, <1>5, SessionRests DEF RecoverNothing, In, Knows
<1>6. CASE OperatorDeclines(c)
  BY <1>1, <1>2, <1>3, <1>6, SessionRests DEF OperatorDeclines
<1>7. CASE RecoverUnsupported(c)
  BY <1>1, <1>2, <1>3, <1>7, SessionRests DEF RecoverUnsupported
<1>8. CASE UpdateToolkitOnly(c)
  BY <1>1, <1>2, <1>3, <1>8, SessionRests DEF UpdateToolkitOnly
<1>9. CASE CommitMismatch(c)
  BY <1>1, <1>2, <1>3, <1>9, SessionRests DEF CommitMismatch, In, Knows
<1>10. CASE RollbackFindsNothing(c)
  BY <1>1, <1>2, <1>3, <1>10, SessionRests DEF RollbackFindsNothing
<1>11. CASE RollbackMismatch(c)
  BY <1>1, <1>2, <1>3, <1>11, SessionRests DEF RollbackMismatch
<1>12. CASE GivesUp(c)
  <2>1. wiz' \subseteq wiz
    BY <1>12 DEF GivesUp, LeavesWizard
  <2>2. CASE cl[c].pc \in {"recStatus", "recRollback", "begin"}
    BY <1>1, <1>2, <1>3, <1>12, <2>1, <2>2, SessionRests DEF GivesUp
  <2>3. CASE cl[c].pc \in {"wizard", "comStatus", "commit"}
    BY <1>1, <1>2, <1>3, <1>12, <2>1, <2>3, SessionRests DEF GivesUp, Knows
  <2>4. CASE cl[c].pc \in {"rbStatus", "rollback"}
    BY <1>1, <1>2, <1>3, <1>12, <2>1, <2>4, SessionRests DEF GivesUp
  <2>5. cl[c].pc \in ClientPc \ {"idle", "baseline"}
    BY <1>12 DEF GivesUp, In, SessionInv, STypeOK, Session
  <2> QED
    BY <2>2, <2>3, <2>4, <2>5 DEF ClientPc
<1>13. CASE Killed(c)
  <2>1. wiz' \subseteq wiz
    BY <1>13 DEF Killed, LeavesWizard
  <2> QED
    BY <1>1, <1>2, <1>3, <1>13, <2>1, SessionRests DEF Killed
<1>14. CASE WizardEnds(c, "comStatus") \/ WizardEnds(c, "rbStatus")
  BY <1>1, <1>2, <1>3, <1>14, SessionRests DEF WizardEnds, In, Knows
<1> QED
  BY <1>4, <1>5, <1>6, <1>7, <1>8, <1>9, <1>10, <1>11, <1>12, <1>13, <1>14

\* A session that reads the answer to its request.
LEMMA AnswerRests ==
  ASSUME SessionInv, HInv', HNext, NEW c \in Clients,
         RecoveryEnds(c) \/ BeginAnswered(c) \/ CommitAnswered(c) \/ RollbackAnswered(c)
  PROVE  SessionInv'
<1>1. UNCHANGED <<current, ended, txCount>> /\ OthersAwait(c)
  BY ReapsOwn DEF RecoveryEnds, BeginAnswered, CommitAnswered, RollbackAnswered
<1>2. faults \in 0 .. MaxFaults /\ wiz \subseteq Tx
      /\ cl \in [Clients -> Session] /\ told \in [Clients -> Messages]
      /\ procs \in [Slots -> Proc]
  BY DEF SessionInv, STypeOK, Messages, HInv, HTypeOK
<1>3. {"idle", "baseline", "rbStatus"} \subseteq ClientPc \ {"commit"}
      /\ {"restored", "rollbackFailed"} \subseteq Message \ {"committed"}
  BY DEF ClientPc, Message
<1>4. CASE RecoveryEnds(c)
  BY <1>1, <1>2, <1>3, <1>4, SessionRests DEF RecoveryEnds, In, Knows
<1>5. CASE RollbackAnswered(c)
  BY <1>1, <1>2, <1>3, <1>5, SessionRests DEF RollbackAnswered
<1>6. CASE CommitAnswered(c)
  <2>1. CASE Refused(c, CommitEvidence) /\ Move(c, "rbStatus") /\ UNCHANGED told
    BY <1>1, <1>2, <1>3, <1>6, <2>1, SessionRests DEF CommitAnswered, In, Knows
  <2>2. CASE Answered(c, CommitEvidence) /\ Tell(c, "committed") /\ BackToMenu(c)
    <3> DEFINE m == [msg |-> "committed", tx |-> cl[c].tx]
    <3>1. /\ AtMenu \in Session /\ AtMenu.tx = 0 /\ AtMenu.slot = NoSlot /\ AtMenu.pc = "idle"
      BY MaxTxAssumption DEF AtMenu, Session, ClientPc
    <3>2. m \in Messages /\ m.msg = "committed" /\ m.tx = cl[c].tx
      BY <1>2 DEF Messages, Message, Session
    <3>3. m.tx # 0 /\ m.tx \notin wiz /\ m.tx \in Claimed
      BY <1>6, <3>2 DEF CommitAnswered, In, SessionInv, Awaits, Knows, WizardOver, Claimed
    <3>4. c \notin disturbed => Fate(m.tx) = "committed"
      BY <1>6, <2>2, <3>2 DEF CommitAnswered, Answered, CommitEvidence, At, SessionInv,
         CommitsOwn
    <3>5. ({AtMenu.tx, m.tx} \cup wiz) \ {0} \subseteq Claimed
      BY <3>1, <3>3 DEF Claimed
    <3> HIDE DEF m
    <3>6. cl' = [cl EXCEPT ![c] = AtMenu] /\ told' = [told EXCEPT ![c] = m]
          /\ UNCHANGED <<wiz, faults, disturbed>>
      BY <1>6, <2>2 DEF BackToMenu, Tell, CommitAnswered, m
    <3> QED
      BY <1>1, <1>2, <3>1, <3>2, <3>3, <3>4, <3>5, <3>6, NoSlotAssumption, SessionMoves
         DEF Knows, OthersAwait
  <2> QED
    BY <1>6, <2>1, <2>2 DEF CommitAnswered
<1>7. CASE BeginAnswered(c)
  <2>1. CASE Refused(c, {"BEGAN"}) /\ BackToMenu(c) /\ UNCHANGED wiz
    BY <1>1, <1>2, <1>3, <1>7, <2>1, SessionRests DEF BeginAnswered
  <2>2. CASE ~(Refused(c, {"BEGAN"}) /\ BackToMenu(c) /\ UNCHANGED wiz)
    <3> DEFINE s == cl[c].slot
               t == procs[s].tx
               r == [AtMenu EXCEPT !.pc = "wizard", !.tx = t]
    <3>1. /\ Answered(c, {"BEGAN"}) /\ cl' = [cl EXCEPT ![c] = r] /\ wiz' = wiz \cup {t}
          /\ UNCHANGED <<told, faults, disturbed>>
      BY <1>7, <2>2 DEF BeginAnswered
    <3>2. s \in Slots /\ Began(s) /\ procs' = [procs EXCEPT ![s] = FreeSlot]
      BY <3>1 DEF Answered, Reap, Began
    <3>3. t \in Tx /\ Started(t) /\ t \notin Claimed
      <4>1. Started(t) /\ t \notin Claimed
        BY <3>2 DEF SessionInv, BeganOnce, ClaimedOnce
      <4> QED
        BY <4>1, MaxTxAssumption DEF Started, SessionInv, HInv, HTypeOK, Tx
    <3>4. Fresh(t)
      BY <1>2, <3>2, <3>3 DEF Fresh, FreeSlot, SessionInv, BeganOnce, Began, At
    <3>5. ASSUME NEW f, f \in BOOLEAN, NEW x \in Tx,
                 NEW q, q = [pc |-> "idle", tx |-> 0, slot |-> NoSlot, retried |-> f]
          PROVE  /\ [q EXCEPT !.pc = "wizard", !.tx = x] \in Session
                 /\ [q EXCEPT !.pc = "wizard", !.tx = x].tx = x
                 /\ [q EXCEPT !.pc = "wizard", !.tx = x].slot = NoSlot
                 /\ [q EXCEPT !.pc = "wizard", !.tx = x].pc = "wizard"
      <4>1. PICK u : u = [q EXCEPT !.pc = "wizard", !.tx = x]
        OBVIOUS
      <4>2. u = [pc |-> "wizard", tx |-> x, slot |-> NoSlot, retried |-> f]
        BY <3>5, <4>1
      <4>3. u \in Session /\ u.tx = x /\ u.slot = NoSlot /\ u.pc = "wizard"
        BY <3>5, <4>2 DEF Session, ClientPc, Tx
      <4> QED
        BY <4>1, <4>3
    <3>6. r \in Session /\ r.tx = t /\ r.slot = NoSlot /\ r.pc = "wizard" /\ t # 0
      <4>1. \E f \in BOOLEAN : AtMenu = [pc |-> "idle", tx |-> 0, slot |-> NoSlot, retried |-> f]
        BY DEF AtMenu
      <4>2. t \in Tx /\ t # 0
        BY <3>3 DEF Tx
      <4> QED
        BY <3>5, <4>1, <4>2, ZenonT(60)
    <3>7. told' = [told EXCEPT ![c] = told[c]] /\ told[c] \in Messages
      BY <1>2, <3>1
    <3>8. told[c].msg = "committed" =>
            /\ told[c].tx # 0 /\ told[c].tx \notin wiz'
            /\ c \notin disturbed' => Fate(told[c].tx) = "committed"
      BY <3>1, <3>3 DEF SessionInv, WizardOver, CommittedTold, Claimed
    <3>9. /\ wiz' \subseteq Tx /\ \A u \in wiz' \ wiz : u \notin Claimed
          /\ \A u \in ({r.tx, told[c].tx} \cup wiz') \ {0} : u \in Claimed \/ Fresh(u)
      BY <1>2, <3>1, <3>3, <3>4, <3>6 DEF Claimed
    <3> HIDE DEF r, t, s
    <3> QED
      BY <1>1, <1>2, <3>1, <3>6, <3>7, <3>8, <3>9, NoSlotAssumption, SessionMoves
         DEF Knows, OthersAwait
  <2> QED
    BY <2>1, <2>2
<1> QED
  BY <1>4, <1>5, <1>6, <1>7

\* A new process, which nobody has waited for so far.
LEMMA SpawnsNew ==
  ASSUME SessionInv, NEW s \in Slots, NEW k, Spawn(s, k)
  PROVE  /\ UNCHANGED <<current, ended, txCount>>
         /\ procs'[s].kind = k /\ procs'[s].pc = "lock"
         /\ \A r \in Slots \ {s} : procs'[r] = procs[r]
         /\ \A d \in Clients : cl[d].slot # s
<1>1. procs \in [Slots -> Proc]
  BY DEF SessionInv, HInv, HTypeOK
<1>2. \A d \in Clients : cl[d].slot # s
  BY DEF Spawn, SessionInv, Awaits
<1> QED
  BY <1>1, <1>2 DEF Spawn, FreeSlot, disk, ghost

\* The session waits for a new process, in a state of the same kind.
LEMMA SessionSends ==
  ASSUME SessionInv, HInv', HNext, NEW c \in Clients, NEW s \in Slots, NEW k, Spawn(s, k),
         NEW r \in Session, cl' = [cl EXCEPT ![c] = r], r.slot = s, r.tx = cl[c].tx,
         r.pc \in Knows <=> cl[c].pc \in Knows,
         UNCHANGED <<told, wiz, disturbed>>, faults' \in 0 .. MaxFaults,
         r.pc \in Waits,
         r.pc = "commit" =>
           /\ cl[c].tx \notin wiz
           /\ c \notin disturbed =>
                k = "commit" /\ (current.status = "ACTIVE" => current.tx = cl[c].tx)
  PROVE  SessionInv'
<1>1. told \in [Clients -> Messages] /\ told' = [told EXCEPT ![c] = told[c]] /\ wiz \subseteq Tx
  BY DEF SessionInv, STypeOK, Messages
<1>2. /\ \A t \in wiz' \ wiz : t \notin Claimed
      /\ \A t \in ({r.tx, told[c].tx} \cup wiz') \ {0} : t \in Claimed \/ Fresh(t)
  BY DEF Claimed
<1>3. told[c].msg = "committed" =>
        /\ told[c].tx # 0 /\ told[c].tx \notin wiz'
        /\ c \notin disturbed' => Fate(told[c].tx) = "committed"
  BY DEF SessionInv, WizardOver, CommittedTold
<1>4. r.tx # 0 <=> r.pc \in Knows
  BY DEF SessionInv, Awaits
<1>5. /\ UNCHANGED <<current, ended, txCount>>
      /\ procs'[r.slot].kind = k /\ procs'[r.slot].pc = "lock"
      /\ \A d \in Clients : cl[d].slot # r.slot
      /\ \A d \in Clients : cl[d].slot \in Slots => procs'[cl[d].slot] = procs[cl[d].slot]
  BY SpawnsNew
<1>6. r.pc \in {"comStatus", "commit"} => r.tx \notin wiz'
  BY DEF Waits
<1>7. r.pc = "commit" =>
        /\ r.slot \in Slots
        /\ c \notin disturbed' =>
             /\ procs'[r.slot].kind = "commit" /\ procs'[r.slot].pc = "lock"
             /\ current.status = "ACTIVE" => current.tx = r.tx
  BY <1>5
<1> QED
  BY <1>1, <1>2, <1>3, <1>4, <1>5, <1>6, <1>7, SessionMoves, ZenonT(60)

LEMMA RequestIs ==
  ASSUME STypeOK, NEW c \in Clients, NEW k, NEW pc \in ClientPc, Request(c, k, pc)
  PROVE  \E s \in Slots, r \in Session :
           /\ Spawn(s, k) /\ cl' = [cl EXCEPT ![c] = r]
           /\ r.pc = pc /\ r.slot = s /\ r.tx = cl[c].tx
<1>a. PICK s \in Slots :
        Spawn(s, k) /\ cl' = [cl EXCEPT ![c].pc = pc, ![c].slot = s, ![c].retried = FALSE]
  BY DEF Request
<1>0. cl \in [Clients -> Session] /\ cl[c] \in Session
  BY DEF STypeOK
<1>1. PICK q : q = [cl[c] EXCEPT !.pc = pc]
  OBVIOUS
<1>2. q = [pc |-> pc, tx |-> cl[c].tx, slot |-> cl[c].slot, retried |-> cl[c].retried]
  BY <1>0, <1>1 DEF Session
<1>3. PICK u : u = [q EXCEPT !.slot = s]
  OBVIOUS
<1>4. u = [pc |-> pc, tx |-> cl[c].tx, slot |-> s, retried |-> cl[c].retried]
  BY <1>2, <1>3
<1>5. ASSUME NEW f \in BOOLEAN
      PROVE  /\ [u EXCEPT !.retried = f]
                  = [pc |-> pc, tx |-> cl[c].tx, slot |-> s, retried |-> f]
             /\ [pc |-> pc, tx |-> cl[c].tx, slot |-> s, retried |-> f] \in Session
  BY <1>0, <1>4 DEF Session
<1>6. PICK r : r = [u EXCEPT !.retried = FALSE]
  OBVIOUS
<1>7. r \in Session /\ r.pc = pc /\ r.slot = s /\ r.tx = cl[c].tx
  BY <1>5, <1>6
<1>8. cl' = [cl EXCEPT ![c] = r]
  BY <1>0, <1>a, <1>1, <1>3, <1>6
<1> QED
  BY <1>a, <1>7, <1>8

LEMMA RetryIs ==
  ASSUME STypeOK, NEW c \in Clients, Retry(c)
  PROVE  \E s \in Slots, r \in Session :
           /\ Spawn(s, procs[cl[c].slot].kind) /\ cl' = [cl EXCEPT ![c] = r]
           /\ r.pc = cl[c].pc /\ r.slot = s /\ r.tx = cl[c].tx
<1>a. PICK s \in Slots :
        /\ Spawn(s, procs[cl[c].slot].kind)
        /\ cl' = [cl EXCEPT ![c].slot = s, ![c].retried = TRUE]
  BY DEF Retry
<1>0. cl \in [Clients -> Session] /\ cl[c] \in Session
  BY DEF STypeOK
<1>3. PICK u : u = [cl[c] EXCEPT !.slot = s]
  OBVIOUS
<1>4. u = [pc |-> cl[c].pc, tx |-> cl[c].tx, slot |-> s, retried |-> cl[c].retried]
  BY <1>0, <1>3 DEF Session
<1>5. ASSUME NEW f \in BOOLEAN
      PROVE  /\ [u EXCEPT !.retried = f]
                  = [pc |-> cl[c].pc, tx |-> cl[c].tx, slot |-> s, retried |-> f]
             /\ [pc |-> cl[c].pc, tx |-> cl[c].tx, slot |-> s, retried |-> f] \in Session
  BY <1>0, <1>4 DEF Session
<1>6. PICK r : r = [u EXCEPT !.retried = TRUE]
  OBVIOUS
<1>7. r \in Session /\ r.pc = cl[c].pc /\ r.slot = s /\ r.tx = cl[c].tx
  BY <1>5, <1>6
<1>8. cl' = [cl EXCEPT ![c] = r]
  BY <1>0, <1>a, <1>3, <1>6
<1> QED
  BY <1>a, <1>7, <1>8

LEMMA RequestStep ==
  ASSUME SessionInv, HInv', HNext, NEW c \in Clients,
         \/ RecoverRollsBack(c) \/ BaselineThenBegin(c) \/ CommitRequested(c)
         \/ RollbackRequested(c) \/ Retry(c)
  PROVE  SessionInv'
<1>0. faults \in 0 .. MaxFaults /\ (Misfortune => faults' \in 0 .. MaxFaults) /\ STypeOK
  BY MaxFaultsAssumption DEF SessionInv, STypeOK, Misfortune
<1>1. ASSUME NEW k, NEW pc \in ClientPc, Request(c, k, pc),
             UNCHANGED <<told, wiz, faults, disturbed>>,
             pc \in Knows <=> cl[c].pc \in Knows, pc \in Waits,
             pc = "commit" =>
               /\ cl[c].tx \notin wiz
               /\ c \notin disturbed =>
                    k = "commit" /\ (current.status = "ACTIVE" => current.tx = cl[c].tx)
      PROVE  SessionInv'
  <2>1. PICK s \in Slots, r \in Session :
          /\ Spawn(s, k) /\ cl' = [cl EXCEPT ![c] = r]
          /\ r.pc = pc /\ r.slot = s /\ r.tx = cl[c].tx
    BY <1>0, <1>1, RequestIs
  <2> QED
    BY <1>0, <1>1, <2>1, SessionSends
<1>2. {"recRollback", "begin", "commit", "rollback"} \subseteq ClientPc
  BY DEF ClientPc
<1>3. CASE RecoverRollsBack(c)
  BY <1>1, <1>2, <1>3 DEF RecoverRollsBack, In, Knows, Waits
<1>4. CASE BaselineThenBegin(c)
  BY <1>1, <1>2, <1>4 DEF BaselineThenBegin, In, Knows, Waits
<1>5. CASE CommitRequested(c)
  <2>1. cl[c].tx \notin wiz /\ cl[c].pc = "comStatus" /\ current.tx = cl[c].tx
    BY <1>5 DEF CommitRequested, In, SessionInv, WizardOver
  <2> QED
    BY <1>1, <1>2, <1>5, <2>1 DEF CommitRequested, Knows, Waits
<1>6. CASE RollbackRequested(c)
  BY <1>1, <1>2, <1>6 DEF RollbackRequested, In, Knows, Waits
<1>7. CASE Retry(c)
  <2>2. PICK s \in Slots, r \in Session :
          /\ Spawn(s, procs[cl[c].slot].kind) /\ cl' = [cl EXCEPT ![c] = r]
          /\ r.pc = cl[c].pc /\ r.slot = s /\ r.tx = cl[c].tx
    BY <1>0, <1>7, RetryIs
  <2>3. r.pc \in Waits
    BY <1>7, <2>2 DEF Retry, SessionInv, Awaits
  <2>4. ASSUME r.pc = "commit"
        PROVE  /\ cl[c].tx \notin wiz
               /\ c \notin disturbed =>
                    /\ procs[cl[c].slot].kind = "commit"
                    /\ current.status = "ACTIVE" => current.tx = cl[c].tx
    BY <2>2, <2>4 DEF SessionInv, WizardOver, CommitsOwn, In
  <2> QED
    BY <1>0, <1>7, <2>2, <2>3, <2>4, SessionSends DEF Retry
<1> QED
  BY <1>3, <1>4, <1>5, <1>6, <1>7

-----------------------------------------------------------------------------
(* The steps of the script and of the rest of the node.                    *)

\* Sessions and messages stand still, wizards may come to their end.
LEMMA SessionsStand ==
  ASSUME SessionInv, HInv', HNext \/ UNCHANGED hvars, UNCHANGED <<cl, told>>,
         wiz' \subseteq wiz, faults' \in 0 .. MaxFaults,
         disturbed \subseteq disturbed', disturbed' \subseteq Clients,
         \A s \in Slots : procs'[s].pc = "free" => \A c \in Clients : cl[c].slot # s,
         \A c \in Clients : CommitsOwn(c)'
  PROVE  SessionInv'
<1> USE DEF SessionInv
<1>1. STypeOK'
  BY DEF STypeOK, HInv
<1>2. /\ BeganOnce'
      /\ \A t : Started(t) => Started(t)'
      /\ \A s \in Slots : Began(s)' =>
              \/ Began(s) /\ procs'[s].tx = procs[s].tx
              \/ ~Started(procs'[s].tx) /\ Started(procs[s].tx)'
  BY BeginsOnce
<1>3. ClaimedOnce'
  <2>1. Claimed' \subseteq Claimed
    BY DEF Claimed
  <2>2. SUFFICES ASSUME NEW t \in Claimed
                 PROVE  Started(t)' /\ \A s \in Slots : Began(s)' => procs'[s].tx # t
    BY <2>1 DEF ClaimedOnce
  <2> QED
    BY <1>2 DEF ClaimedOnce, Started, Began, At
<1>4. Awaits'
  BY DEF Awaits, In, At
<1>5. WizardOver'
  BY DEF WizardOver
<1>6. CommittedTold'
  <2>1. SUFFICES ASSUME NEW c \in Clients, told[c].msg = "committed", c \notin disturbed
                 PROVE  Fate(told[c].tx)' = "committed"
    BY DEF CommittedTold
  <2>2. told[c].tx \in Tx /\ Fate(told[c].tx) = "committed"
    BY <2>1, MaxTxAssumption DEF CommittedTold, WizardOver, STypeOK, Tx
  <2> QED
    BY <2>2, CommittedStays
<1> QED
  BY <1>1, <1>2, <1>3, <1>4, <1>5, <1>6

\* The commit process of a session that nobody has disturbed.
LEMMA CommitMoves ==
  ASSUME SessionInv, HNext, NEW s \in Slots, ScriptStep(s) \/ ScriptFault(s), UNCHANGED cl,
         NEW c \in Clients, In(c, "commit"), c \notin disturbed, cl[c].slot = s
  PROVE  /\ procs'[s].kind = "commit" /\ procs'[s].pc \in {"discard", "drop", "exited"}
         /\ current'.status = "ACTIVE" => current'.tx = cl[c].tx
         /\ procs'[s].pc \in {"discard", "drop"} =>
              procs'[s].out = "COMMITTED" /\ current' = [status |-> "COMMITTED", tx |-> cl[c].tx]
         /\ procs'[s].pc = "exited" /\ procs'[s].out = "COMMITTED" =>
              Fate(cl[c].tx)' = "committed"
<1> DEFINE t == cl[c].tx
<1>1. /\ procs \in [Slots -> Proc] /\ current \in [status : Status, tx : 0 .. MaxTx]
      /\ ended \in [Tx -> Status] /\ t \in Tx
  <2>1. t \in 0 .. MaxTx /\ t # 0
    BY DEF SessionInv, STypeOK, Session, Awaits, In, Knows
  <2> QED
    BY <2>1, MaxTxAssumption DEF SessionInv, HInv, HTypeOK, Tx
<1>2. /\ procs[s].kind = "commit" /\ procs[s].pc \in {"lock", "discard", "drop", "exited"}
      /\ current.status = "ACTIVE" => current.tx = t
      /\ procs[s].pc \in {"discard", "drop"} =>
           procs[s].out = "COMMITTED" /\ current = [status |-> "COMMITTED", tx |-> t]
  BY DEF SessionInv, CommitsOwn
<1>3. procs'[s].kind = "commit" /\ procs[s].pc \in {"lock", "discard", "drop"}
  BY <1>2, ScriptMoves DEF SessionInv
<1>4. CASE Dies(s) \/ CommitRefused(s)
  <2>0. ASSUME NEW out, Exit(s, out) PROVE procs'[s].pc = "exited" /\ procs'[s].out = out
    BY <1>1, <2>0 DEF Exit, FreeSlot, Proc
  <2>1. UNCHANGED current /\ procs'[s].pc = "exited" /\ procs'[s].out = "ERROR"
    BY <1>4, <2>0 DEF Dies, CommitRefused, disk
  <2> QED
    BY <1>2, <1>3, <2>1
<1>5. CASE CommitDecides(s)
  <2>1. current'.status = "COMMITTED" /\ current' = [status |-> "COMMITTED", tx |-> t]
    BY <1>1, <1>2, <1>5 DEF CommitDecides, MayCommit, SetStatus
  <2>2. procs'[s].pc = "discard" /\ procs'[s].out = "COMMITTED"
    BY <1>1, <1>5 DEF CommitDecides, Bound, Proc
  <2> QED
    BY <1>3, <2>1, <2>2
<1>6. CASE Discard(s)
  <2>1. procs'[s].pc = "drop" /\ procs'[s].out = procs[s].out /\ UNCHANGED current
    BY <1>1, <1>6 DEF Discard, Goto, Proc
  <2> QED
    BY <1>2, <1>3, <1>6, <2>1 DEF Discard, At
<1>7. CASE DropCurrent(s)
  <2>1. /\ procs'[s].pc = "exited" /\ current' = NoTx
        /\ ended' = [ended EXCEPT ![current.tx] = current.status]
    BY <1>1, <1>7, ExitMoves DEF DropCurrent, SessionInv, HInv
  <2>2. current.tx = t /\ current.status = "COMMITTED"
    BY <1>2, <1>7 DEF DropCurrent, At
  <2>3. Fate(t)' = "committed"
    BY <1>1, <2>1, <2>2 DEF Fate, NoTx, Tx
  <2> QED
    BY <1>3, <2>1, <2>3 DEF NoTx
<1> QED
  BY <1>2, <1>3, <1>4, <1>5, <1>6, <1>7
     DEF ScriptStep, ScriptFault, BeginRefused, BeginOpens, WriteMeta, SnapMark, SnapCopy,
         SnapServices, Activate, RollbackNotNeeded, RollbackAborts, RollbackRefused,
         RollbackStarts, StopServices, ErasePath, RestorePath, RestoreServices,
         RollbackVerdict, GetsLock, At

LEMMA HelperMoves ==
  ASSUME SessionInv, HInv', HNext, NEW s \in Slots, ScriptStep(s) \/ ScriptFault(s),
         UNCHANGED <<cl, told, wiz>>, faults' \in 0 .. MaxFaults,
         \/ UNCHANGED <<current, disturbed>> \/ Disturbs(s)
  PROVE  SessionInv'
<1>1. /\ OthersStay(s) /\ procs[s].pc # "free" /\ procs'[s].pc # "free"
  BY ScriptMoves DEF SessionInv
<1>2. disturbed \subseteq disturbed' /\ disturbed' \subseteq Clients
  BY DEF Disturbs, SessionInv, STypeOK
<1>3. \A r \in Slots : procs'[r].pc = "free" => \A c \in Clients : cl[c].slot # r
  BY <1>1 DEF OthersStay, SessionInv, Awaits, At
<1>4. ASSUME NEW c \in Clients PROVE CommitsOwn(c)'
  <2>1. SUFFICES ASSUME In(c, "commit"), c \notin disturbed' PROVE CommitsOwn(c)'
    BY DEF CommitsOwn, In
  <2>2. CASE cl[c].slot = s
    BY <1>2, <2>1, <2>2, CommitMoves DEF CommitsOwn
  <2>3. CASE cl[c].slot # s
    <3>1. UNCHANGED current
      BY <2>1, <2>3 DEF Disturbs
    <3>2. cl[c].slot \in Slots /\ procs'[cl[c].slot] = procs[cl[c].slot]
      BY <1>1, <2>1, <2>3 DEF OthersStay, SessionInv, Awaits
    <3>3. cl[c].tx \in Tx
      <4>1. cl[c].tx \in 0 .. MaxTx /\ cl[c].tx # 0
        BY <2>1 DEF SessionInv, STypeOK, Session, Awaits, In, Knows
      <4> QED
        BY <4>1, MaxTxAssumption DEF Tx
    <3>4. Fate(cl[c].tx) = "committed" => Fate(cl[c].tx)' = "committed"
      BY <3>3, CommittedStays DEF SessionInv
    <3>5. CommitsOwn(c) /\ c \notin disturbed
      BY <1>2, <2>1 DEF SessionInv
    <3> QED
      BY <2>1, <3>1, <3>2, <3>4, <3>5 DEF CommitsOwn, In
  <2> QED
    BY <2>2, <2>3
<1> QED
  BY <1>1, <1>2, <1>3, <1>4, SessionsStand

LEMMA NodeMoves ==
  ASSUME SessionInv, HInv', HNext \/ UNCHANGED hvars,
         WizardWrites \/ WizardDies \/ (\E s \in Slots : ReapOrphan(s)) \/ UNCHANGED svars
  PROVE  SessionInv'
<1>1. UNCHANGED <<cl, told, current, ended, faults, disturbed>> /\ wiz' \subseteq wiz
  BY DEF WizardWrites, WizardDies, ReapOrphan, NodeWrite, Reap, local, svars, hvars, disk, ghost
<1>2. \A c \in Clients : cl[c].slot \in Slots => procs'[cl[c].slot] = procs[cl[c].slot]
  <2>1. ASSUME NEW s \in Slots, ReapOrphan(s)
        PROVE  \A c \in Clients : cl[c].slot \in Slots => procs'[cl[c].slot] = procs[cl[c].slot]
    BY <2>1 DEF ReapOrphan, Orphan, Reap, SessionInv, HInv, HTypeOK
  <2> QED
    BY <2>1 DEF WizardWrites, WizardDies, NodeWrite, svars, hvars
<1>3. \A s \in Slots : procs'[s].pc = "free" => \A c \in Clients : cl[c].slot # s
  BY <1>2 DEF SessionInv, Awaits, At
<1>4. ASSUME NEW c \in Clients PROVE CommitsOwn(c)'
  BY <1>1, <1>2 DEF SessionInv, Awaits, CommitsOwn, In, Fate
<1>5. disturbed \subseteq Clients /\ faults \in 0 .. MaxFaults
  BY DEF SessionInv, STypeOK
<1> QED
  BY <1>1, <1>3, <1>4, <1>5, SessionsStand

-----------------------------------------------------------------------------
(* The invariant of the sessions.                                          *)

LEMMA SessionInitially == SInit => SessionInv
<1> SUFFICES ASSUME SInit PROVE SessionInv
  OBVIOUS
<1>1. HInv
  BY InitInv DEF SInit
<1>2. AtMenu \in Session /\ AtMenu.tx = 0 /\ AtMenu.slot = NoSlot /\ AtMenu.pc = "idle"
  BY MaxTxAssumption DEF AtMenu, Session, ClientPc
<1>3. Silence \in Messages /\ Silence.tx = 0 /\ Silence.msg = "none"
  BY MaxTxAssumption DEF Silence, Messages, Message
<1>4. STypeOK
  BY <1>1, <1>2, <1>3, MaxFaultsAssumption DEF SInit, STypeOK, Messages, HInv
<1>5. \A s \in Slots : procs[s].pc = "free" /\ procs[s].out = "-"
  BY DEF SInit, HInit, FreeSlot
<1>6. BeganOnce /\ ClaimedOnce
  BY <1>2, <1>3, <1>5 DEF SInit, BeganOnce, ClaimedOnce, Claimed, Began, At
<1>7. Awaits /\ WizardOver
  BY <1>2, <1>3, NoSlotAssumption DEF SInit, Awaits, WizardOver, In, Knows
<1>8. CommittedTold /\ \A c \in Clients : CommitsOwn(c)
  BY <1>2, <1>3 DEF SInit, CommittedTold, CommitsOwn, In
<1> QED
  BY <1>1, <1>4, <1>6, <1>7, <1>8 DEF SessionInv

LEMMA SessionStep == SessionInv /\ [SNext]_svars => SessionInv'
<1> SUFFICES ASSUME SessionInv, [SNext]_svars PROVE SessionInv'
  OBVIOUS
<1>1. HTypeOK /\ HInv
  BY DEF SessionInv, HInv
<1>2. HNext \/ UNCHANGED hvars
  BY <1>1, SessionIsHelper DEF svars
<1>3. HInv'
  BY <1>1, <1>2, NextInv
<1>4. ASSUME NEW s \in Slots, HelperStep(s) \/ HelperFault(s) PROVE SessionInv'
  <2>1. CASE ReapOrphan(s)
    BY <1>2, <1>3, <2>1, NodeMoves
  <2>2. CASE ScriptStep(s) /\ Disturbs(s) /\ UNCHANGED <<cl, told, wiz, faults>>
    <3>1. HNext /\ faults' \in 0 .. MaxFaults
      BY <2>2 DEF HNext, SessionInv, STypeOK
    <3> QED
      BY <1>3, <2>2, <3>1, HelperMoves
  <2>3. CASE HelperFault(s)
    <3>1. HNext /\ faults' \in 0 .. MaxFaults
      BY <2>3, MaxFaultsAssumption DEF HelperFault, Misfortune, HNext, SessionInv, STypeOK
    <3>2. UNCHANGED <<current, disturbed>>
      BY <2>3 DEF HelperFault, ScriptFault, Dies, RestorePath, RestoreServices, disk
    <3> QED
      BY <1>3, <2>3, <3>1, <3>2, HelperMoves DEF HelperFault
  <2> QED
    BY <1>4, <2>1, <2>2, <2>3 DEF HelperStep
<1>5. CASE WizardWrites \/ WizardDies \/ UNCHANGED svars
  BY <1>2, <1>3, <1>5, NodeMoves
<1>6. ASSUME NEW c \in Clients, ClientStep(c) \/ ClientFault(c) PROVE SessionInv'
  <2>1. CASE RecoveryEnds(c) \/ BeginAnswered(c) \/ CommitAnswered(c) \/ RollbackAnswered(c)
    <3>1. HNext
      BY <2>1 DEF RecoveryEnds, BeginAnswered, CommitAnswered, RollbackAnswered, Refused,
                  Answered, HNext
    <3> QED
      BY <1>3, <2>1, <3>1, AnswerRests
  <2>2. CASE RecoverRollsBack(c) \/ BaselineThenBegin(c) \/ CommitRequested(c)
             \/ RollbackRequested(c) \/ Retry(c)
    <3>1. HNext
      <4>1. ASSUME NEW k \in Kinds, NEW pc, Request(c, k, pc) PROVE HNext
        BY <4>1 DEF Request, HNext
      <4>2. CASE Retry(c)
        BY <1>1, <4>2 DEF Retry, HTypeOK, Proc, HNext
      <4> QED
        BY <2>2, <4>1, <4>2
           DEF RecoverRollsBack, BaselineThenBegin, CommitRequested, RollbackRequested, Kinds
    <3> QED
      BY <1>3, <2>2, <3>1, RequestStep
  <2> QED
    BY <1>3, <1>6, <2>1, <2>2, QuietRests
       DEF ClientStep, ClientFault, Recovery, Constructing, Conclusion
<1> QED
  BY <1>4, <1>5, <1>6 DEF SNext

-----------------------------------------------------------------------------
(* Theorems about the sessions                                             *)

\* SessionInv is an invariant of any number of local programs, whatever requests
\* are lost, repeated or delayed.
THEOREM SessionsAlways == SSpec => []SessionInv
<1> QED
  BY SessionInitially, SessionStep, PTL DEF SSpec

\* Every variable of the sessions stays in its domain.
THEOREM SessionsTypeCorrect == SSpec => []STypeOK
<1>1. SessionInv => STypeOK
  BY DEF SessionInv
<1> QED
  BY <1>1, SessionsAlways, PTL

\* The message that the construction was committed is true, and its wizard is
\* at its end, unless a process that the session did not wait for changed the
\* transaction between the check of its identity and the answer.
THEOREM CommitMessageTrue == SSpec => []UndisturbedCommitTrue
<1>1. SessionInv => UndisturbedCommitTrue
  BY DEF SessionInv, CommittedTold, WizardOver, UndisturbedCommitTrue
<1> QED
  BY <1>1, SessionsAlways, PTL

\* The sessions use the script as its specification allows, so that all its
\* theorems hold for them.
THEOREM SessionsRunScript == SSpec => HSpec
<1>1. SInit => HInit
  BY DEF SInit
<1>2. SessionInv /\ [SNext]_svars => [HNext]_hvars
  <2> SUFFICES ASSUME SessionInv, [SNext]_svars PROVE [HNext]_hvars
    OBVIOUS
  <2>1. HTypeOK
    BY DEF SessionInv, HInv
  <2> QED
    BY <2>1, SessionIsHelper DEF svars
<1> QED
  BY <1>1, <1>2, SessionsAlways, PTL DEF SSpec, HSpec

\* Programs that recover, begin, commit and roll back as they like never make
\* the script decide a transaction twice or open one beside another.
THEOREM SessionsAtomic == SSpec => AtomicConstructions
<1> QED
  BY SessionsRunScript, Refinement
=============================================================================
