----------------------------- MODULE NodeProofs -----------------------------
(***************************************************************************)
(* Proofs about the two parts of the node that outlive a run of the local  *)
(* program: the toolkit with its baseline and its dismantling (Lifecycle), *)
(* and the SS2022 service (Ss2022).  They share neither state nor a step.  *)
(***************************************************************************)
EXTENDS MCNode, InstallSessionProofs, TLAPS

-----------------------------------------------------------------------------
(* Lifecycle, for any number of builds, managed paths and packages: the    *)
(* baseline of a node always speaks of the node before it was managed, and *)
(* an exact dismantling returns to it.                                     *)

(* Types.                                                                  *)

Nodes == [paths : [ManagedPaths -> Contents], packages : SUBSET Packages, traces : BOOLEAN]
Ledgers == [ledger : {"none", "malformed", "exact", "legacy"}, packages : SUBSET Packages,
            files : [ManagedPaths -> Contents]]
TxSnapshots == [taken : {TRUE}, paths : [ManagedPaths -> Contents], traces : BOOLEAN,
                baseline : Ledgers]
Dismantling == {"rescue", "remove", "purge", "restore", "data", "traces", "baseline", "verify"}
Places == {"menu", "recover", "scp", "clear", "extract", "bootstrap", "probe", "capture",
           "ledger", "begin", "construct", "uninstall"} \cup Dismantling
Goals == {"none", "toolkit", "construct", "legacy", "exact"}
Visits == [pc : Places, build : 0..MaxBuild, goal : Goals, at : Nat]

LTyped ==
  /\ image \in Nodes /\ original \in Nodes /\ baseline \in Ledgers /\ visit \in Visits
  /\ unfinished = NoSnapshot \/ unfinished \in TxSnapshots

LEMMA Going == ASSUME visit \in Visits, NEW pc \in Places, GoesTo(pc)
               PROVE  visit' \in Visits
  BY DEF GoesTo, Visits

LEMMA Coming == ASSUME NEW pc \in Places, NEW b \in 0..MaxBuild, NEW g \in Goals, Visit(pc, b, g)
                PROVE  visit' \in Visits
  BY DEF Visit, Visits

LEMMA Leaving == ASSUME Leaves PROVE visit' \in Visits
  BY LifecycleAssumption DEF Leaves, Away, Visits, Places, Goals

LEMMA Restored == ASSUME LTyped, unfinished.taken, RolledBackTo(unfinished)
                  PROVE  image' \in Nodes /\ baseline' \in Ledgers
<1>1. unfinished \in TxSnapshots
  BY DEF LTyped, NoSnapshot
<1> QED
  BY <1>1 DEF RolledBackTo, LTyped, Nodes, TxSnapshots


-----------------------------------------------------------------------------
(* What the ledger, the node and the transaction know of the original.     *)

KnownOriginal ==
  /\ unfinished.taken =>
       unfinished.baseline = baseline /\ baseline.ledger \in {"exact", "legacy"}
  /\ baseline.ledger = "none" /\ ~image.traces => image = original
  /\ original.packages \subseteq image.packages
  /\ baseline.ledger = "exact" =>
       /\ baseline.files = original.paths /\ baseline.packages = original.packages
       /\ ~original.traces

\* What the program and the script may rely on where they stand.
Standing ==
  /\ visit.pc = "ledger" =>
       baseline.ledger = "none" /\ (~image.traces => baseline.files = original.paths)
  /\ visit.pc \in {"begin", "construct"} => baseline.ledger \in {"exact", "legacy"}
  /\ visit.pc = "construct" => unfinished.taken
  /\ visit.pc \in Dismantling \ {"verify"} => (visit.goal = "exact" <=> baseline.ledger = "exact")
  /\ visit.pc \in {"rescue", "remove", "purge"} => visit.at = 1
  /\ visit.pc = "restore" =>
       /\ visit.goal = "exact" /\ visit.at \in ManagedPaths
       /\ image.packages = original.packages
       /\ \A p \in ManagedPaths : p < visit.at => image.paths[p] = original.paths[p]
  /\ visit.pc \in {"data", "traces"} /\ visit.goal = "exact" =>
       /\ image.paths = original.paths /\ image.packages = original.packages
       /\ ~unfinished.taken
  /\ visit.pc \in {"traces", "baseline", "verify"} => ~unfinished.taken
  /\ visit.pc = "baseline" => image = original
  /\ visit.pc = "verify" /\ visit.goal = "exact" => image = original

LEMMA LifecycleTypes == LTyped /\ Standing /\ LifecycleNext => LTyped'
<1> SUFFICES ASSUME LTyped, Standing, LifecycleNext PROVE LTyped'
  OBVIOUS
<1>1. ASSUME NEW b \in Builds, Menu1(b) PROVE LTyped'
  <2>1. visit' \in Visits
    BY <1>1, Coming DEF Menu1, Builds, Places, Goals
  <2> QED
    BY <1>1, <2>1 DEF Menu1, LTyped, program
<1>2. ASSUME NEW b \in Builds, PlanDismantle(b) PROVE LTyped'
  <2>1. Grade \in Goals
    BY <1>2 DEF Grade, LTyped, Ledgers, Goals, PlanDismantle
  <2>2. visit' \in Visits
    BY <1>2, <2>1, Coming DEF PlanDismantle, Builds, Places, Dismantling
  <2> QED
    BY <1>2, <2>2 DEF PlanDismantle, LTyped, program
<1>3. ASSUME UploadArchive PROVE LTyped'
  BY <1>3, Going, Coming, Leaving, LifecycleAssumption DEF UploadArchive, program,
     LTyped, Nodes, Ledgers, Places, Dismantling
<1>4. ASSUME ClearToolkit PROVE LTyped'
  BY <1>4, Going, Coming, Leaving, LifecycleAssumption DEF ClearToolkit, program,
     LTyped, Nodes, Ledgers, Places, Dismantling
<1>5. ASSUME ExtractToolkit PROVE LTyped'
  BY <1>5, Going, Coming, Leaving, LifecycleAssumption DEF ExtractToolkit,
     program, LTyped, Nodes, Ledgers, Places, Dismantling
<1>6. ASSUME Bootstrap PROVE LTyped'
  BY <1>6, Going, Coming, Leaving, LifecycleAssumption DEF Bootstrap, program,
     LTyped, Nodes, Ledgers, Places, Dismantling
<1>7. ASSUME ToolkitInstalled PROVE LTyped'
  BY <1>7, Going, Coming, Leaving, LifecycleAssumption DEF ToolkitInstalled,
     Leaves, Away, program, LTyped, Nodes, Ledgers, Places, Dismantling
<1>8. ASSUME NothingToRecover PROVE LTyped'
  BY <1>8, Going, Coming, Leaving, LifecycleAssumption DEF NothingToRecover,
     AfterRecovery, program, LTyped, Nodes, Ledgers, Places, Dismantling
<1>9. ASSUME RecoverConstruction PROVE LTyped'
  <2>1. AfterRecovery \in Places
    BY DEF AfterRecovery, Places
  <2>2. visit' \in Visits
    BY <1>9, <2>1, Going DEF RecoverConstruction, LTyped
  <2> QED
    BY <1>9, <2>2, Restored DEF RecoverConstruction, LTyped, program
<1>10. ASSUME AlreadyCaptured PROVE LTyped'
  BY <1>10, Going, Coming, Leaving, LifecycleAssumption DEF AlreadyCaptured,
     program, LTyped, Nodes, Ledgers, Places, Dismantling
<1>11. ASSUME CaptureFiles PROVE LTyped'
  <2>1. visit' \in Visits
    BY <1>11, Going DEF CaptureFiles, LTyped, Places
  <2>2. baseline' \in Ledgers
    <3>1. CASE image.traces
      BY <1>11, <3>1 DEF CaptureFiles, LTyped, Ledgers, Contents
    <3>2. CASE ~image.traces
      BY <1>11, <3>2 DEF CaptureFiles, LTyped, Ledgers, Nodes
    <3> QED
      BY <3>1, <3>2
  <2> QED
    BY <1>11, <2>1, <2>2 DEF CaptureFiles, LTyped, program
<1>12. ASSUME WriteLedger PROVE LTyped'
  <2>1. visit' \in Visits
    BY <1>12, Going, Leaving DEF WriteLedger, LTyped, Places
  <2>2. baseline' \in Ledgers
    BY <1>12 DEF WriteLedger, LTyped, Ledgers, Nodes
  <2> QED
    BY <1>12, <2>1, <2>2 DEF WriteLedger, LTyped, program
<1>13. ASSUME BeginsConstruction PROVE LTyped'
  BY <1>13, Going, Coming, Leaving, LifecycleAssumption DEF BeginsConstruction,
     SnapshotNow, TxSnapshots, NoSnapshot, program, LTyped, Nodes, Ledgers,
     Places, Dismantling
<1>14. ASSUME Constructs PROVE LTyped'
  <2>1. image' \in Nodes
    <3>1. CASE \E p \in ManagedPaths : image' = [image EXCEPT !.paths[p] = "changed"]
      <4>1. PICK p \in ManagedPaths : image' = [image EXCEPT !.paths[p] = "changed"]
        BY <3>1
      <4> QED
        BY <4>1 DEF LTyped, Nodes, Contents
    <3>2. CASE \E k \in Packages : image' = [image EXCEPT !.packages = @ \cup {k}]
      <4>1. PICK k \in Packages : image' = [image EXCEPT !.packages = @ \cup {k}]
        BY <3>2
      <4> QED
        BY <4>1 DEF LTyped, Nodes
    <3>3. CASE image' = [image EXCEPT !.traces = TRUE]
      BY <3>3 DEF LTyped, Nodes
    <3> QED
      BY <1>14, <3>1, <3>2, <3>3 DEF Constructs
  <2> QED
    BY <1>14, <2>1 DEF Constructs, LTyped, program
<1>15. ASSUME ConstructionCommitted PROVE LTyped'
  BY <1>15, Going, Coming, Leaving, LifecycleAssumption DEF ConstructionCommitted,
     Leaves, Away, NoSnapshot, program, LTyped, Nodes, Ledgers, Places,
     Dismantling
<1>16. ASSUME ConstructionUndone PROVE LTyped'
  <2>1. unfinished.taken
    BY <1>16 DEF ConstructionUndone, Standing
  <2> QED
    BY <1>16, <2>1, Restored, Leaving DEF ConstructionUndone, LTyped, program
<1>17. ASSUME UninstallLinks PROVE LTyped'
  <2>1. visit' \in Visits
    BY <1>17, Coming, LifecycleAssumption DEF UninstallLinks, Places, Goals
  <2> QED
    BY <1>17, <2>1 DEF UninstallLinks, LTyped, program
<1>18. ASSUME UninstallDirectories PROVE LTyped'
  BY <1>18, Going, Coming, Leaving, LifecycleAssumption DEF UninstallDirectories,
     Leaves, Away, program, LTyped, Nodes, Ledgers, Places, Dismantling
<1>19. ASSUME RescueDownloaded PROVE LTyped'
  <2>1. visit' \in Visits
    BY <1>19, Going DEF RescueDownloaded, LTyped, Places, Dismantling
  <2> QED
    BY <1>19, <2>1 DEF RescueDownloaded, LTyped, program
<1>20. ASSUME RemoveStack PROVE LTyped'
  <2>1. visit' \in Visits
    BY <1>20, Going DEF RemoveStack, LTyped, Places, Dismantling
  <2>2. image' \in Nodes
    BY <1>20 DEF RemoveStack, LTyped, Nodes, Contents
  <2> QED
    BY <1>20, <2>1, <2>2 DEF RemoveStack, OriginalKept, LTyped, program
<1>21. ASSUME PurgePackages PROVE LTyped'
  <2>1. visit' \in Visits
    BY <1>21, Going DEF PurgePackages, LTyped, Places, Dismantling
  <2>2. image' \in Nodes
    BY <1>21 DEF PurgePackages, LTyped, Nodes
  <2> QED
    BY <1>21, <2>1, <2>2 DEF PurgePackages, OriginalKept, LTyped, program
<1>22. ASSUME RestoreManaged PROVE LTyped'
  <2>1. CASE visit.at = NumManaged
    <3>1. visit' \in Visits
      BY <1>22, <2>1, Going DEF RestoreManaged, LTyped, Places, Dismantling
    <3>2. image' \in Nodes
      BY <1>22, <2>1, LifecycleAssumption DEF RestoreManaged, LTyped, Nodes, Ledgers,
         ManagedPaths
    <3> QED
      BY <1>22, <2>1, <3>1, <3>2 DEF RestoreManaged, LTyped, program
  <2>2. CASE visit.at # NumManaged
    <3>1. visit' \in Visits
      BY <1>22, <2>2 DEF RestoreManaged, LTyped, Visits
    <3>2. image' \in Nodes
      BY <1>22 DEF RestoreManaged, LTyped, Nodes, Ledgers
    <3> QED
      BY <1>22, <2>2, <3>1, <3>2 DEF RestoreManaged, LTyped, program
  <2> QED
    BY <2>1, <2>2
<1>23. ASSUME RemoveToolData PROVE LTyped'
  <2>1. visit' \in Visits
    BY <1>23, Going DEF RemoveToolData, LTyped, Places, Dismantling
  <2>2. image' \in Nodes
    BY <1>23 DEF RemoveToolData, LTyped, Nodes, Contents
  <2> QED
    BY <1>23, <2>1, <2>2 DEF RemoveToolData, OriginalKept, LTyped, program
<1>24. ASSUME RemoveTraces PROVE LTyped'
  <2>1. visit' \in Visits
    BY <1>24, Going DEF RemoveTraces, LTyped, Places, Dismantling
  <2>2. image' \in Nodes
    BY <1>24 DEF RemoveTraces, LTyped, Nodes
  <2> QED
    BY <1>24, <2>1, <2>2 DEF RemoveTraces, OriginalKept, LTyped, program
<1>25. ASSUME RemoveBaseline PROVE LTyped'
  <2>1. visit' \in Visits
    BY <1>25, Going DEF RemoveBaseline, LTyped, Places, Dismantling
  <2>2. baseline' \in Ledgers
    BY <1>25 DEF RemoveBaseline, LTyped, Ledgers
  <2> QED
    BY <1>25, <2>1, <2>2 DEF RemoveBaseline, LTyped, program
<1>26. ASSUME DismantleReported PROVE LTyped'
  BY <1>26, Going, Coming, Leaving, LifecycleAssumption DEF DismantleReported,
     Leaves, Away, program, LTyped, Nodes, Ledgers, Places, Dismantling
<1>27. ASSUME Breaks PROVE LTyped'
  BY <1>27, Going, Coming, Leaving, LifecycleAssumption DEF Breaks, Leaves, Away,
     program, LTyped, Nodes, Ledgers, Places, Dismantling
<1> QED
  BY <1>1, <1>2, <1>3, <1>4, <1>5, <1>6, <1>7, <1>8, <1>9, <1>10, <1>11, <1>12,
     <1>13, <1>14, <1>15, <1>16, <1>17, <1>18, <1>19, <1>20, <1>21, <1>22, <1>23,
     <1>24, <1>25, <1>26, <1>27 DEF LifecycleNext

LEMMA LifecycleStep == LTyped /\ KnownOriginal /\ Standing /\ LifecycleNext => (KnownOriginal /\ Standing)'
<1> SUFFICES ASSUME LTyped, KnownOriginal, Standing, LifecycleNext PROVE (KnownOriginal /\ Standing)'
  OBVIOUS
<1>1. ASSUME NEW b \in Builds, Menu1(b) PROVE (KnownOriginal /\ Standing)'
  BY <1>1, LifecycleAssumption DEF Menu1, Visit, GoesTo, program, LTyped, Nodes,
     Ledgers, Visits, KnownOriginal, Standing, Dismantling
<1>2. ASSUME NEW b \in Builds, PlanDismantle(b) PROVE (KnownOriginal /\ Standing)'
  BY <1>2, LifecycleAssumption DEF PlanDismantle, Visit, Grade, Away, GoesTo,
     program, LTyped, Nodes, Ledgers, Visits, KnownOriginal, Standing, Dismantling
<1>3. ASSUME UploadArchive PROVE (KnownOriginal /\ Standing)'
  BY <1>3, LifecycleAssumption DEF UploadArchive, GoesTo, program, LTyped, Nodes,
     Ledgers, Visits, KnownOriginal, Standing, Dismantling
<1>4. ASSUME ClearToolkit PROVE (KnownOriginal /\ Standing)'
  BY <1>4, LifecycleAssumption DEF ClearToolkit, GoesTo, program, LTyped, Nodes,
     Ledgers, Visits, KnownOriginal, Standing, Dismantling
<1>5. ASSUME ExtractToolkit PROVE (KnownOriginal /\ Standing)'
  BY <1>5, LifecycleAssumption DEF ExtractToolkit, GoesTo, program, LTyped, Nodes,
     Ledgers, Visits, KnownOriginal, Standing, Dismantling
<1>6. ASSUME Bootstrap PROVE (KnownOriginal /\ Standing)'
  BY <1>6, LifecycleAssumption DEF Bootstrap, GoesTo, program, LTyped, Nodes,
     Ledgers, Visits, KnownOriginal, Standing, Dismantling
<1>7. ASSUME ToolkitInstalled PROVE (KnownOriginal /\ Standing)'
  BY <1>7, LifecycleAssumption DEF ToolkitInstalled, Leaves, Away, GoesTo,
     program, LTyped, Nodes, Ledgers, Visits, KnownOriginal, Standing, Dismantling
<1>8. ASSUME NothingToRecover PROVE (KnownOriginal /\ Standing)'
  BY <1>8, LifecycleAssumption DEF NothingToRecover, AfterRecovery, GoesTo,
     program, LTyped, Nodes, Ledgers, Visits, KnownOriginal, Standing, Dismantling
<1>9. ASSUME RecoverConstruction PROVE (KnownOriginal /\ Standing)'
  BY <1>9, LifecycleAssumption DEF RecoverConstruction, AfterRecovery,
     RolledBackTo, TxSnapshots, NoSnapshot, GoesTo, program, LTyped, Nodes,
     Ledgers, Visits, KnownOriginal, Standing, Dismantling
<1>10. ASSUME AlreadyCaptured PROVE (KnownOriginal /\ Standing)'
  BY <1>10, LifecycleAssumption DEF AlreadyCaptured, GoesTo, program, LTyped,
     Nodes, Ledgers, Visits, KnownOriginal, Standing, Dismantling
<1>11. ASSUME CaptureFiles PROVE (KnownOriginal /\ Standing)'
  BY <1>11, LifecycleAssumption DEF CaptureFiles, NotCaptured, GoesTo, program,
     LTyped, Nodes, Ledgers, Visits, KnownOriginal, Standing, Dismantling
<1>12. ASSUME WriteLedger PROVE (KnownOriginal /\ Standing)'
  <2>1. visit.pc = "ledger" /\ baseline.ledger = "none" /\ ~unfinished.taken
    BY <1>12 DEF WriteLedger, KnownOriginal, Standing
  <2>2. UNCHANGED <<image, unfinished, original>>
    BY <1>12 DEF WriteLedger
  <2>3. ASSUME baseline' = [baseline EXCEPT
                  !.ledger = IF image.traces THEN "legacy" ELSE "exact",
                  !.packages = image.packages],
               visit' = [visit EXCEPT !.pc = "begin"]
        PROVE  KnownOriginal' /\ Standing'
    <3>1. baseline'.files = baseline.files /\ baseline'.packages = image.packages
      BY <2>3 DEF LTyped, Ledgers
    <3>2. baseline'.ledger = IF image.traces THEN "legacy" ELSE "exact"
      BY <2>3 DEF LTyped, Ledgers
    <3>3. visit'.pc = "begin"
      BY <2>3 DEF LTyped, Visits
    <3> QED
      BY <2>1, <2>2, <3>1, <3>2, <3>3 DEF KnownOriginal, Standing, Dismantling
  <2>4. ASSUME baseline' = [baseline EXCEPT !.ledger = "malformed"], Leaves
        PROVE  KnownOriginal' /\ Standing'
    <3>1. baseline'.ledger = "malformed" /\ visit'.pc = "menu"
      BY <2>4 DEF LTyped, Ledgers, Leaves, Away
    <3> QED
      BY <2>1, <2>2, <3>1 DEF KnownOriginal, Standing, Dismantling
  <2> QED
    BY <1>12, <2>3, <2>4 DEF WriteLedger, GoesTo
<1>13. ASSUME BeginsConstruction PROVE (KnownOriginal /\ Standing)'
  BY <1>13, LifecycleAssumption DEF BeginsConstruction, SnapshotNow, TxSnapshots,
     NoSnapshot, GoesTo, program, LTyped, Nodes, Ledgers, Visits, KnownOriginal,
     Standing, Dismantling
<1>14. ASSUME Constructs PROVE (KnownOriginal /\ Standing)'
  BY <1>14, LifecycleAssumption DEF Constructs, GoesTo, program, LTyped, Nodes,
     Ledgers, Visits, KnownOriginal, Standing, Dismantling
<1>15. ASSUME ConstructionCommitted PROVE (KnownOriginal /\ Standing)'
  BY <1>15, LifecycleAssumption DEF ConstructionCommitted, Leaves, Away,
     NoSnapshot, GoesTo, program, LTyped, Nodes, Ledgers, Visits, KnownOriginal,
     Standing, Dismantling
<1>16. ASSUME ConstructionUndone PROVE (KnownOriginal /\ Standing)'
  BY <1>16, LifecycleAssumption DEF ConstructionUndone, RolledBackTo, TxSnapshots,
     NoSnapshot, Leaves, Away, GoesTo, program, LTyped, Nodes, Ledgers, Visits,
     KnownOriginal, Standing, Dismantling
<1>17. ASSUME UninstallLinks PROVE (KnownOriginal /\ Standing)'
  BY <1>17, LifecycleAssumption DEF UninstallLinks, Visit, GoesTo, program,
     LTyped, Nodes, Ledgers, Visits, KnownOriginal, Standing, Dismantling
<1>18. ASSUME UninstallDirectories PROVE (KnownOriginal /\ Standing)'
  BY <1>18, LifecycleAssumption DEF UninstallDirectories, Leaves, Away, GoesTo,
     program, LTyped, Nodes, Ledgers, Visits, KnownOriginal, Standing, Dismantling
<1>19. ASSUME RescueDownloaded PROVE (KnownOriginal /\ Standing)'
  BY <1>19, LifecycleAssumption DEF RescueDownloaded, GoesTo, program, LTyped,
     Nodes, Ledgers, Visits, KnownOriginal, Standing, Dismantling
<1>20. ASSUME RemoveStack PROVE (KnownOriginal /\ Standing)'
  BY <1>20, LifecycleAssumption DEF RemoveStack, OriginalKept, GoesTo, program,
     LTyped, Nodes, Ledgers, Visits, KnownOriginal, Standing, Dismantling
<1>21. ASSUME PurgePackages PROVE (KnownOriginal /\ Standing)'
  <2>1. /\ image' = [image EXCEPT !.packages = @ \cap Kept] /\ UNCHANGED <<baseline, unfinished>>
        /\ visit.pc = "purge" /\ visit.at = 1
        /\ visit' = [visit EXCEPT !.pc = IF visit.goal = "exact" THEN "restore" ELSE "data"]
        /\ original' = IF visit.goal = "exact" THEN original ELSE image'
    BY <1>21 DEF PurgePackages, OriginalKept, GoesTo, Standing
  <2>2. CASE visit.goal = "exact"
    <3>1. baseline.ledger = "exact" /\ original' = original /\ Kept = original.packages
      BY <2>1, <2>2 DEF Standing, Dismantling, KnownOriginal, Kept
    <3>2. /\ image'.packages = original.packages /\ image'.traces = image.traces
          /\ image'.paths = image.paths
      BY <2>1, <3>1 DEF KnownOriginal, LTyped, Nodes
    <3>3. visit'.pc = "restore" /\ visit'.at = 1 /\ visit'.goal = "exact"
      BY <2>1, <2>2 DEF LTyped, Visits
    <3>4. 1 \in ManagedPaths /\ \A p \in ManagedPaths : ~(p < 1)
      BY LifecycleAssumption DEF ManagedPaths
    <3>5. KnownOriginal'
      BY <2>1, <3>1, <3>2 DEF KnownOriginal
    <3>6. Standing'
      BY <2>1, <3>1, <3>2, <3>3, <3>4 DEF Standing, Dismantling
    <3> QED
      BY <3>5, <3>6
  <2>3. CASE visit.goal # "exact"
    <3>1. baseline.ledger # "exact" /\ original' = image'
      BY <2>1, <2>3 DEF Standing, Dismantling
    <3>2. visit'.pc = "data" /\ visit'.goal # "exact"
      BY <2>1, <2>3 DEF LTyped, Visits
    <3> QED
      BY <2>1, <3>1, <3>2 DEF KnownOriginal, Standing, Dismantling
  <2> QED
    BY <2>2, <2>3
<1>22. ASSUME RestoreManaged PROVE (KnownOriginal /\ Standing)'
  <2>1. /\ visit.pc = "restore" /\ visit.goal = "exact" /\ visit.at \in ManagedPaths
        /\ baseline.ledger = "exact" /\ baseline.files = original.paths
        /\ UNCHANGED <<baseline, original>>
    BY <1>22 DEF RestoreManaged, Standing, Dismantling, KnownOriginal
  <2>2. /\ image'.packages = original.packages /\ image'.traces = image.traces
        /\ image'.paths = [image.paths EXCEPT ![visit.at] = original.paths[visit.at]]
    BY <1>22, <2>1 DEF RestoreManaged, LTyped, Nodes, Standing
  <2>3. \A p \in ManagedPaths : p <= visit.at => image'.paths[p] = original.paths[p]
    <3>1. \A p \in ManagedPaths : p < visit.at => image'.paths[p] = original.paths[p]
      BY <2>1, <2>2 DEF LTyped, Nodes, Standing
    <3>2. image'.paths[visit.at] = original.paths[visit.at]
      BY <2>1, <2>2 DEF LTyped, Nodes
    <3>3. \A p \in ManagedPaths : p <= visit.at => p < visit.at \/ p = visit.at
      BY <2>1, LifecycleAssumption DEF ManagedPaths
    <3> QED
      BY <3>1, <3>2, <3>3
  <2>4. CASE visit.at = NumManaged
    <3>1. image'.paths = original.paths
      <4>1. \A p \in ManagedPaths : image'.paths[p] = original.paths[p]
        BY <2>3, <2>4, LifecycleAssumption DEF ManagedPaths
      <4>2. image'.paths \in [ManagedPaths -> Contents] /\ original.paths \in [ManagedPaths -> Contents]
        BY <2>1, <2>2 DEF LTyped, Nodes
      <4> QED
        BY <4>1, <4>2
    <3>2. ~unfinished'.taken /\ visit'.pc = "data" /\ visit'.goal = "exact"
      BY <1>22, <2>1, <2>4 DEF RestoreManaged, NoSnapshot, GoesTo, LTyped, Visits
    <3> QED
      BY <2>1, <2>2, <3>1, <3>2 DEF KnownOriginal, Standing, Dismantling
  <2>5. CASE visit.at # NumManaged
    <3>1. /\ visit'.pc = "restore" /\ visit'.goal = "exact" /\ visit'.at = visit.at + 1
          /\ unfinished' = unfinished
      BY <1>22, <2>1, <2>5 DEF RestoreManaged, LTyped, Visits
    <3>2. visit'.at \in ManagedPaths
      BY <2>1, <2>5, <3>1, LifecycleAssumption DEF ManagedPaths
    <3>3. \A p \in ManagedPaths : p < visit'.at => image'.paths[p] = original.paths[p]
      BY <2>1, <2>3, <3>1 DEF ManagedPaths
    <3>4. KnownOriginal'
      BY <2>1, <2>2, <3>1 DEF KnownOriginal
    <3> QED
      BY <2>1, <2>2, <3>1, <3>2, <3>3, <3>4 DEF Standing, Dismantling
  <2> QED
    BY <2>4, <2>5
<1>23. ASSUME RemoveToolData PROVE (KnownOriginal /\ Standing)'
  BY <1>23, LifecycleAssumption DEF RemoveToolData, OriginalKept, NoSnapshot,
     ManagedPaths, GoesTo, program, LTyped, Nodes, Ledgers, Visits, KnownOriginal,
     Standing, Dismantling
<1>24. ASSUME RemoveTraces PROVE (KnownOriginal /\ Standing)'
  <2>1. /\ image' = [image EXCEPT !.traces = FALSE] /\ UNCHANGED <<baseline, unfinished>>
        /\ visit.pc = "traces" /\ visit' = [visit EXCEPT !.pc = "baseline"]
        /\ original' = IF visit.goal = "exact" THEN original ELSE image'
    BY <1>24 DEF RemoveTraces, OriginalKept, GoesTo
  <2>2. image' = original' /\ (baseline.ledger = "exact" => original' = original)
    <3>1. CASE visit.goal = "exact"
      BY <2>1, <3>1 DEF LTyped, Nodes, KnownOriginal, Standing, Dismantling
    <3>2. CASE visit.goal # "exact"
      BY <2>1, <3>2 DEF KnownOriginal, Standing, Dismantling
    <3> QED
      BY <3>1, <3>2
  <2>3. KnownOriginal'
    BY <2>1, <2>2 DEF KnownOriginal, Standing
  <2>4. Standing'
    BY <2>1, <2>2 DEF LTyped, Visits, Standing, Dismantling
  <2> QED
    BY <2>3, <2>4
<1>25. ASSUME RemoveBaseline PROVE (KnownOriginal /\ Standing)'
  BY <1>25, LifecycleAssumption DEF RemoveBaseline, GoesTo, program, LTyped,
     Nodes, Ledgers, Visits, KnownOriginal, Standing, Dismantling
<1>26. ASSUME DismantleReported PROVE (KnownOriginal /\ Standing)'
  BY <1>26, LifecycleAssumption DEF DismantleReported, Leaves, Away, GoesTo,
     program, LTyped, Nodes, Ledgers, Visits, KnownOriginal, Standing, Dismantling
<1>27. ASSUME Breaks PROVE (KnownOriginal /\ Standing)'
  BY <1>27, LifecycleAssumption DEF Breaks, Leaves, Away, GoesTo, program, LTyped,
     Nodes, Ledgers, Visits, KnownOriginal, Standing, Dismantling
<1> QED
  BY <1>1, <1>2, <1>3, <1>4, <1>5, <1>6, <1>7, <1>8, <1>9, <1>10, <1>11, <1>12,
     <1>13, <1>14, <1>15, <1>16, <1>17, <1>18, <1>19, <1>20, <1>21, <1>22, <1>23,
     <1>24, <1>25, <1>26, <1>27 DEF LifecycleNext

-----------------------------------------------------------------------------
(* The toolkit.                                                            *)

Toolkits == [build : Nat, complete : BOOLEAN, present : BOOLEAN]

\* No toolkit is newer than the program that wrote it last.
ToolkitKnown ==
  /\ toolkit \in Toolkits /\ link \in {"none", "old", "new"}
  /\ lastBuild \in Nat /\ uploaded \in Nat
  /\ toolkit.build <= lastBuild
  /\ visit.pc = "clear" => uploaded = visit.build
  /\ visit.pc = "extract" => uploaded = lastBuild

LEMMA ToolkitStep == LTyped /\ ToolkitKnown /\ LifecycleNext => ToolkitKnown'
<1> SUFFICES ASSUME LTyped, ToolkitKnown, LifecycleNext PROVE ToolkitKnown'
  OBVIOUS
<1>1. ASSUME NEW b \in Builds, Menu1(b) PROVE ToolkitKnown'
  BY <1>1, LifecycleAssumption DEF Menu1, Visit, GoesTo, program, LTyped, Visits,
     ToolkitKnown, Toolkits, NoToolkit, Away, Leaves, Builds
<1>2. ASSUME NEW b \in Builds, PlanDismantle(b) PROVE ToolkitKnown'
  BY <1>2, LifecycleAssumption DEF PlanDismantle, Visit, Grade, Away, GoesTo,
     program, LTyped, Visits, ToolkitKnown, Toolkits, NoToolkit, Leaves, Builds
<1>3. ASSUME UploadArchive PROVE ToolkitKnown'
  BY <1>3, LifecycleAssumption DEF UploadArchive, GoesTo, program, LTyped, Visits,
     ToolkitKnown, Toolkits, NoToolkit, Away, Leaves, Builds
<1>4. ASSUME ClearToolkit PROVE ToolkitKnown'
  BY <1>4, LifecycleAssumption DEF ClearToolkit, GoesTo, program, LTyped, Visits,
     ToolkitKnown, Toolkits, NoToolkit, Away, Leaves, Builds
<1>5. ASSUME ExtractToolkit PROVE ToolkitKnown'
  <2>1. visit.pc = "extract" /\ toolkit' \in Extracted(uploaded) /\ UNCHANGED <<link, uploaded, lastBuild>>
    BY <1>5 DEF ExtractToolkit
  <2>2. toolkit' \in Toolkits /\ toolkit'.build \in {0, uploaded}
    <3>1. CASE \E c \in BOOLEAN : toolkit' = [build |-> uploaded, complete |-> c, present |-> TRUE]
      BY <3>1 DEF Toolkits, ToolkitKnown
    <3>2. CASE \E p \in BOOLEAN : toolkit' = [build |-> 0, complete |-> FALSE, present |-> p]
      BY <3>2 DEF Toolkits
    <3> QED
      BY <2>1, <3>1, <3>2 DEF Extracted
  <2>3. visit'.pc = "bootstrap"
    BY <1>5 DEF ExtractToolkit, GoesTo, LTyped, Visits
  <2> QED
    BY <2>1, <2>2, <2>3 DEF ToolkitKnown, Toolkits
<1>6. ASSUME Bootstrap PROVE ToolkitKnown'
  BY <1>6, LifecycleAssumption DEF Bootstrap, GoesTo, program, LTyped, Visits,
     ToolkitKnown, Toolkits, NoToolkit, Away, Leaves, Builds
<1>7. ASSUME ToolkitInstalled PROVE ToolkitKnown'
  BY <1>7, LifecycleAssumption DEF ToolkitInstalled, Leaves, Away, GoesTo,
     program, LTyped, Visits, ToolkitKnown, Toolkits, NoToolkit, Builds
<1>8. ASSUME NothingToRecover PROVE ToolkitKnown'
  BY <1>8, LifecycleAssumption DEF NothingToRecover, AfterRecovery, GoesTo,
     program, LTyped, Visits, ToolkitKnown, Toolkits, NoToolkit, Away, Leaves,
     Builds
<1>9. ASSUME RecoverConstruction PROVE ToolkitKnown'
  BY <1>9, LifecycleAssumption DEF RecoverConstruction, AfterRecovery,
     RolledBackTo, TxSnapshots, NoSnapshot, GoesTo, program, LTyped, Visits,
     ToolkitKnown, Toolkits, NoToolkit, Away, Leaves, Builds
<1>10. ASSUME AlreadyCaptured PROVE ToolkitKnown'
  BY <1>10, LifecycleAssumption DEF AlreadyCaptured, GoesTo, program, LTyped,
     Visits, ToolkitKnown, Toolkits, NoToolkit, Away, Leaves, Builds
<1>11. ASSUME CaptureFiles PROVE ToolkitKnown'
  BY <1>11, LifecycleAssumption DEF CaptureFiles, NotCaptured, GoesTo, program,
     LTyped, Visits, ToolkitKnown, Toolkits, NoToolkit, Away, Leaves, Builds
<1>12. ASSUME WriteLedger PROVE ToolkitKnown'
  BY <1>12, LifecycleAssumption DEF WriteLedger, Leaves, Away, GoesTo, program,
     LTyped, Visits, ToolkitKnown, Toolkits, NoToolkit, Builds
<1>13. ASSUME BeginsConstruction PROVE ToolkitKnown'
  BY <1>13, LifecycleAssumption DEF BeginsConstruction, SnapshotNow, TxSnapshots,
     NoSnapshot, GoesTo, program, LTyped, Visits, ToolkitKnown, Toolkits,
     NoToolkit, Away, Leaves, Builds
<1>14. ASSUME Constructs PROVE ToolkitKnown'
  BY <1>14, LifecycleAssumption DEF Constructs, GoesTo, program, LTyped, Visits,
     ToolkitKnown, Toolkits, NoToolkit, Away, Leaves, Builds
<1>15. ASSUME ConstructionCommitted PROVE ToolkitKnown'
  BY <1>15, LifecycleAssumption DEF ConstructionCommitted, Leaves, Away,
     NoSnapshot, GoesTo, program, LTyped, Visits, ToolkitKnown, Toolkits,
     NoToolkit, Builds
<1>16. ASSUME ConstructionUndone PROVE ToolkitKnown'
  BY <1>16, LifecycleAssumption DEF ConstructionUndone, RolledBackTo, TxSnapshots,
     NoSnapshot, Leaves, Away, GoesTo, program, LTyped, Visits, ToolkitKnown,
     Toolkits, NoToolkit, Builds
<1>17. ASSUME UninstallLinks PROVE ToolkitKnown'
  BY <1>17, LifecycleAssumption DEF UninstallLinks, Visit, GoesTo, program,
     LTyped, Visits, ToolkitKnown, Toolkits, NoToolkit, Away, Leaves, Builds
<1>18. ASSUME UninstallDirectories PROVE ToolkitKnown'
  BY <1>18, LifecycleAssumption DEF UninstallDirectories, Leaves, Away, GoesTo,
     program, LTyped, Visits, ToolkitKnown, Toolkits, NoToolkit, Builds
<1>19. ASSUME RescueDownloaded PROVE ToolkitKnown'
  BY <1>19, LifecycleAssumption DEF RescueDownloaded, GoesTo, program, LTyped,
     Visits, ToolkitKnown, Toolkits, NoToolkit, Away, Leaves, Builds
<1>20. ASSUME RemoveStack PROVE ToolkitKnown'
  BY <1>20, LifecycleAssumption DEF RemoveStack, OriginalKept, GoesTo, program,
     LTyped, Visits, ToolkitKnown, Toolkits, NoToolkit, Away, Leaves, Builds
<1>21. ASSUME PurgePackages PROVE ToolkitKnown'
  BY <1>21, LifecycleAssumption DEF PurgePackages, OriginalKept, Kept, GoesTo,
     program, LTyped, Visits, ToolkitKnown, Toolkits, NoToolkit, Away, Leaves,
     Builds
<1>22. ASSUME RestoreManaged PROVE ToolkitKnown'
  BY <1>22, LifecycleAssumption DEF RestoreManaged, NoSnapshot, ManagedPaths,
     GoesTo, program, LTyped, Visits, ToolkitKnown, Toolkits, NoToolkit, Away,
     Leaves, Builds
<1>23. ASSUME RemoveToolData PROVE ToolkitKnown'
  BY <1>23, LifecycleAssumption DEF RemoveToolData, OriginalKept, NoSnapshot,
     ManagedPaths, GoesTo, program, LTyped, Visits, ToolkitKnown, Toolkits,
     NoToolkit, Away, Leaves, Builds
<1>24. ASSUME RemoveTraces PROVE ToolkitKnown'
  BY <1>24, LifecycleAssumption DEF RemoveTraces, OriginalKept, GoesTo, program,
     LTyped, Visits, ToolkitKnown, Toolkits, NoToolkit, Away, Leaves, Builds
<1>25. ASSUME RemoveBaseline PROVE ToolkitKnown'
  BY <1>25, LifecycleAssumption DEF RemoveBaseline, GoesTo, program, LTyped,
     Visits, ToolkitKnown, Toolkits, NoToolkit, Away, Leaves, Builds
<1>26. ASSUME DismantleReported PROVE ToolkitKnown'
  BY <1>26, LifecycleAssumption DEF DismantleReported, Leaves, Away, GoesTo,
     program, LTyped, Visits, ToolkitKnown, Toolkits, NoToolkit, Builds
<1>27. ASSUME Breaks PROVE ToolkitKnown'
  BY <1>27, LifecycleAssumption DEF Breaks, Leaves, Away, GoesTo, program, LTyped,
     Visits, ToolkitKnown, Toolkits, NoToolkit, Builds
<1> QED
  BY <1>1, <1>2, <1>3, <1>4, <1>5, <1>6, <1>7, <1>8, <1>9, <1>10, <1>11, <1>12,
     <1>13, <1>14, <1>15, <1>16, <1>17, <1>18, <1>19, <1>20, <1>21, <1>22, <1>23,
     <1>24, <1>25, <1>26, <1>27 DEF LifecycleNext

\* Every build is one that a program carries, and a program that uploads is one.
Handling == {"recover", "scp", "clear", "extract", "bootstrap", "probe"}
BuildsKnown ==
  /\ toolkit.build \in 0..MaxBuild /\ (toolkit.complete => toolkit.build > 0)
  /\ uploaded \in 0..MaxBuild /\ lastBuild \in 0..MaxBuild
  /\ visit.pc \in Handling => visit.build > 0
  /\ visit.pc = "extract" => uploaded > 0

LEMMA BuildsStep == LTyped /\ ToolkitKnown /\ BuildsKnown /\ LifecycleNext => BuildsKnown'
<1> SUFFICES ASSUME LTyped, ToolkitKnown, BuildsKnown, LifecycleNext PROVE BuildsKnown'
  OBVIOUS
<1>0. /\ MaxBuild \in Nat /\ visit \in Visits /\ toolkit \in Toolkits
      /\ "menu" \notin Handling /\ "capture" \notin Handling
  BY LifecycleAssumption DEF LTyped, ToolkitKnown, Handling
<1>1. ASSUME NEW b \in Builds, Menu1(b) PROVE BuildsKnown'
  <2>1. visit'.build = b /\ visit'.pc # "extract" /\ UNCHANGED program
    BY <1>1 DEF Menu1, Visit
  <2> QED
    BY <1>0, <2>1 DEF program, Builds, BuildsKnown
<1>2. ASSUME UploadArchive PROVE BuildsKnown'
  BY <1>0, <1>2 DEF UploadArchive, GoesTo, Visits, BuildsKnown, Handling
<1>3. ASSUME ClearToolkit PROVE BuildsKnown'
  <2>1. uploaded > 0
    BY <1>3 DEF ClearToolkit, BuildsKnown, ToolkitKnown, Handling
  <2> QED
    BY <1>0, <1>3, <2>1 DEF ClearToolkit, NoToolkit, GoesTo, Visits, BuildsKnown, Handling
<1>4. ASSUME ExtractToolkit PROVE BuildsKnown'
  <2>1. toolkit'.build \in 0..MaxBuild /\ (toolkit'.complete => toolkit'.build > 0)
    <3>1. CASE \E c \in BOOLEAN : toolkit' = [build |-> uploaded, complete |-> c, present |-> TRUE]
      BY <1>4, <3>1 DEF ExtractToolkit, BuildsKnown
    <3>2. CASE \E p \in BOOLEAN : toolkit' = [build |-> 0, complete |-> FALSE, present |-> p]
      BY <1>0, <3>2
    <3> QED
      BY <1>4, <3>1, <3>2 DEF ExtractToolkit, Extracted
  <2> QED
    BY <1>0, <1>4, <2>1 DEF ExtractToolkit, GoesTo, Visits, BuildsKnown, Handling
<1>5. ASSUME Bootstrap \/ ToolkitInstalled PROVE BuildsKnown'
  BY <1>0, <1>5 DEF Bootstrap, ToolkitInstalled, GoesTo, Leaves, Away, Visits,
     BuildsKnown, Handling
<1>6. ASSUME NothingToRecover \/ RecoverConstruction PROVE BuildsKnown'
  <2>1. visit.pc = "recover" /\ GoesTo(AfterRecovery) /\ UNCHANGED program
    BY <1>6 DEF NothingToRecover, RecoverConstruction
  <2> QED
    BY <1>0, <2>1 DEF GoesTo, AfterRecovery, program, Visits, BuildsKnown, Handling
<1>7. ASSUME UninstallLinks \/ UninstallDirectories PROVE BuildsKnown'
  BY <1>0, <1>7 DEF UninstallLinks, UninstallDirectories, NoToolkit, Visit, Leaves, Away,
     BuildsKnown, Handling
<1>8. ASSUME UNCHANGED program, visit'.pc \notin Handling PROVE BuildsKnown'
  BY <1>0, <1>8 DEF program, BuildsKnown, Handling
<1>9. ASSUME UNCHANGED <<program, visit>> PROVE BuildsKnown'
  BY <1>0, <1>9 DEF program, BuildsKnown
<1>10. ASSUME NEW b \in Builds, PlanDismantle(b) PROVE BuildsKnown'
  BY <1>8, <1>10 DEF PlanDismantle, Visit, Handling
<1>11. ASSUME AlreadyCaptured \/ CaptureFiles \/ WriteLedger \/ BeginsConstruction
              \/ ConstructionCommitted \/ ConstructionUndone \/ Breaks
       PROVE  BuildsKnown'
  BY <1>0, <1>8, <1>11 DEF AlreadyCaptured, CaptureFiles, WriteLedger, BeginsConstruction,
     ConstructionCommitted, ConstructionUndone, Breaks, GoesTo, Leaves, Away, Visits, Handling
<1>12. ASSUME Constructs PROVE BuildsKnown'
  BY <1>9, <1>12 DEF Constructs
<1>13. ASSUME RescueDownloaded \/ RemoveStack \/ PurgePackages \/ RemoveToolData \/ RemoveTraces
              \/ RemoveBaseline \/ DismantleReported
       PROVE  BuildsKnown'
  BY <1>0, <1>8, <1>13 DEF RescueDownloaded, RemoveStack, PurgePackages, RemoveToolData,
     RemoveTraces, RemoveBaseline, DismantleReported, GoesTo, Leaves, Away, Visits, Handling
<1>14. ASSUME RestoreManaged PROVE BuildsKnown'
  BY <1>0, <1>8, <1>14 DEF RestoreManaged, GoesTo, Visits, Handling
<1> QED
  BY <1>1, <1>2, <1>3, <1>4, <1>5, <1>6, <1>7, <1>10, <1>11, <1>12, <1>13, <1>14
     DEF LifecycleNext

-----------------------------------------------------------------------------
(* The theorems.                                                           *)

LEMMA LifecycleStart == LifecycleInit => LTyped /\ KnownOriginal /\ Standing /\ ToolkitKnown
<1> SUFFICES ASSUME LifecycleInit PROVE LTyped /\ KnownOriginal /\ Standing /\ ToolkitKnown
  OBVIOUS
<1>1. image \in Nodes
  <2> DEFINE Own(own) == [p \in ManagedPaths |-> IF p = NumManaged THEN "absent" ELSE own]
             Built == [p \in ManagedPaths |-> "changed"]
  <2>1. PICK own \in {"absent", "original"}, ps \in {{}, Packages} :
          \/ image = [paths |-> Own(own), packages |-> ps, traces |-> FALSE]
          \/ image = [paths |-> Built, packages |-> ps, traces |-> TRUE]
    BY DEF LifecycleInit
  <2>2. Own(own) \in [ManagedPaths -> Contents] /\ Built \in [ManagedPaths -> Contents]
    BY DEF Contents
  <2> HIDE DEF Own, Built
  <2>3. ps \in SUBSET Packages
    OBVIOUS
  <2>4. CASE image = [paths |-> Own(own), packages |-> ps, traces |-> FALSE]
    BY <2>2, <2>3, <2>4 DEF Nodes
  <2>5. CASE image = [paths |-> Built, packages |-> ps, traces |-> TRUE]
    BY <2>2, <2>3, <2>5 DEF Nodes
  <2> QED
    BY <2>1, <2>4, <2>5
<1>2. LTyped
  BY <1>1, LifecycleAssumption
     DEF LifecycleInit, LTyped, Ledgers, Visits, Away, Places, Goals, Contents
<1>3. KnownOriginal
  BY DEF LifecycleInit, KnownOriginal, NoSnapshot
<1>4. Standing
  BY DEF LifecycleInit, Standing, Away, Dismantling
<1>5. ToolkitKnown
  BY DEF LifecycleInit, ToolkitKnown, Toolkits, NoToolkit, Away
<1> QED
  BY <1>2, <1>3, <1>4, <1>5

LEMMA LifecycleStutter ==
  LTyped /\ KnownOriginal /\ Standing /\ ToolkitKnown /\ UNCHANGED lifecycleVars
    => LTyped' /\ KnownOriginal' /\ Standing' /\ ToolkitKnown'
  BY DEF lifecycleVars, LTyped, KnownOriginal, Standing, ToolkitKnown

LEMMA LifecycleInvariance == LifecycleSpec => [](LTyped /\ KnownOriginal /\ Standing /\ ToolkitKnown)
<1>1. LTyped /\ KnownOriginal /\ Standing /\ ToolkitKnown /\ [LifecycleNext]_lifecycleVars
        => LTyped' /\ KnownOriginal' /\ Standing' /\ ToolkitKnown'
  BY LifecycleTypes, LifecycleStep, ToolkitStep, LifecycleStutter
<1> QED
  BY <1>1, LifecycleStart, PTL DEF LifecycleSpec

\* The toolkit, the node, its ledger and the archive keep their types: every
\* build that is found is one that a program carries, and none is 0 but that of
\* an upload cut before its metadata.
THEOREM LifecycleTypeCorrect == LifecycleSpec => []LTypeOK
<1>1. LifecycleInit => BuildsKnown
  BY LifecycleAssumption DEF LifecycleInit, BuildsKnown, NoToolkit, Away, Handling
<1>2. LTyped /\ ToolkitKnown /\ BuildsKnown /\ [LifecycleNext]_lifecycleVars => BuildsKnown'
  <2>1. BuildsKnown /\ UNCHANGED lifecycleVars => BuildsKnown'
    BY DEF lifecycleVars, BuildsKnown
  <2> QED
    BY <2>1, BuildsStep
<1>3. LTyped /\ ToolkitKnown /\ BuildsKnown => LTypeOK
  BY DEF LTyped, ToolkitKnown, BuildsKnown, LTypeOK, Nodes, Ledgers
<1> QED
  BY <1>1, <1>2, <1>3, LifecycleInvariance, PTL DEF LifecycleSpec

\* capture_original_baseline (menu [1]) and 22-dismantle: an exact ledger says
\* what the node was before any construction, however many constructions,
\* rollbacks and dismantlings were cut short since.
THEOREM ExactLedgerIsOriginal == LifecycleSpec => []BaselineIsOriginal
<1>1. KnownOriginal => BaselineIsOriginal
  BY DEF KnownOriginal, BaselineIsOriginal
<1> QED
  BY <1>1, LifecycleInvariance, PTL

\* 22-dismantle-managed-node.sh: an exact dismantling that reaches its check
\* has put every managed path and package back and left no transaction.
THEOREM ExactDismantleRestores == LifecycleSpec => []DismantledIsOriginal
<1>1. Standing => DismantledIsOriginal
  BY DEF Standing, DismantledIsOriginal
<1> QED
  BY <1>1, LifecycleInvariance, PTL

\* sameVersionToolkitOnlyUpdateRequired, sameVersionIncompleteRepairAllowed:
\* wherever an upload, a bootstrap or a removal of the toolkit was cut, the
\* program that began it can start again.
THEOREM RepairIsOpen == LifecycleSpec => []RepairAlwaysOpen
<1>1. ToolkitKnown => RepairAlwaysOpen
  <2> SUFFICES ASSUME ToolkitKnown PROVE Accepts(lastBuild)
    BY DEF RepairAlwaysOpen
  <2>1. CASE link # "new" \/ ~toolkit.present
    BY <2>1 DEF ToolkitKnown, Accepts, Missing, Older
  <2>2. CASE link = "new" /\ toolkit.present /\ ~toolkit.complete
    BY <2>2 DEF ToolkitKnown, Accepts, ToolkitOnly, SameVersion, RepairAllowed
  <2>3. CASE link = "new" /\ toolkit.present /\ toolkit.complete
    BY <2>3 DEF ToolkitKnown, Toolkits, Accepts, ToolkitOnly, SameVersion, OlderBuild,
       Usable
  <2> QED
    BY <2>1, <2>2, <2>3
<1> QED
  BY <1>1, LifecycleInvariance, PTL

-----------------------------------------------------------------------------
(* Ss2022, for every set of addresses: types, no reported removal is       *)
(* undone by a late helper, the list shown is enforced, and one file       *)
(* without the other is left only where it can be repaired.                *)

Requests == {"none", "allow", "remove", "status", "snapshot", "ensure",
             "purge"}
Places2022 == {"menu", "view", "entries", "change", "removal", "one-shot", "observed",
               "repair", "dismantle", "begun", "construct"}

(* Types.                                                                  *)

LEMMA Constants2022 == /\ NoOperation \in Operations /\ AtMainMenu \in Managers
  BY DEF NoOperation, Operations, AtMainMenu, Managers

LEMMA Begun == ASSUME NEW k \in Requests, NEW s \in SUBSET Sources, NEW b \in BOOLEAN,
                      Begins(k, s, b)
               PROVE  operation' \in Operations
  BY DEF Begins, Operations, Requests

LEMMA Asked == ASSUME operation \in Operations, NEW k \in Requests, NEW s \in SUBSET Sources,
                      NEW pc \in Places2022, Asks(k, s, pc)
               PROVE  /\ operation' \in Operations /\ manager' \in Managers
                      /\ display' \in {display, NothingShown}
<1>1. operation' \in Operations
  BY Begun DEF Asks
<1>2. manager' \in Managers /\ display' \in {display, NothingShown}
  <2>1. CASE operation = NoOperation
    BY <2>1 DEF Asks, Managers, Requests, Places2022
  <2>2. CASE operation # NoOperation
    BY <2>2, Constants2022 DEF Asks, Leaves2022, Managers, Requests, Places2022
  <2> QED
    BY <2>1, <2>2
<1> QED
  BY <1>1, <1>2

LEMMA Told == ASSUME manager \in Managers, NEW a \in {"ok", "failed", "lost"}, Hears2022(a)
              PROVE  manager' \in Managers /\ display' \in {display, NothingShown}
  BY Constants2022 DEF Hears2022, Leaves2022, Entered, AtMainMenu, Managers

LEMMA Reported == ASSUME operation \in Operations, manager \in Managers,
                         NEW a \in {"ok", "failed"}, Reports(a)
                  PROVE  /\ operation' \in Operations /\ manager' \in Managers
                         /\ display' \in {display, NothingShown}
<1>1. operation' \in Operations
  BY Constants2022 DEF Reports
<1>2. CASE operation.waits
  <2>1. PICK b \in {a, "lost"} : Hears2022(b)
    BY <1>2 DEF Reports
  <2> QED
    BY <1>1, <2>1, Told
<1>3. CASE ~operation.waits
  BY <1>1, <1>3 DEF Reports
<1> QED
  BY <1>2, <1>3

\* The output of the list.
LEMMA Output == ASSUME ListsSources
                PROVE  /\ operation' = NoOperation
                       /\ \/ manager' = Entered("ok") /\ display' = listed
                          \/ Hears2022("lost")
                          \/ UNCHANGED <<manager, display>>
  BY DEF ListsSources

LEMMA WentOn == ASSUME operation \in Operations,
                       NEW pc \in {"apply", "applying", "reapply", "reapplying", "verify",
                                   "handoff", "list", "meta", "unit", "purge"},
                       GoesOn(pc)
                PROVE  operation' \in Operations
  BY DEF GoesOn, Operations

LEMMA Displayed == ASSUME NEW pc \in Places2022, Displays(pc)
                   PROVE  manager' \in Managers /\ operation' = operation
  BY DEF Displays, AtMainMenu, Managers, Places2022

LEMMA KeptTyped == ASSUME SsTypeOK
                   PROVE  kept.taken \in BOOLEAN /\ (kept.taken => kept \in Snapshots2022)
<1>1. CASE kept = NothingKept
  BY <1>1 DEF NothingKept
<1>2. CASE kept \in Snapshots2022
  BY <1>2 DEF Snapshots2022
<1> QED
  BY <1>1, <1>2 DEF SsTypeOK

LEMMA StageSet == ASSUME kept \in Snapshots2022, NEW g \in {"held", "stopped"}
                  PROVE  [kept EXCEPT !.stage = g] \in Snapshots2022
  BY DEF Snapshots2022

\* A step of the requests alone.
LEMMA RequestsOnly == ASSUME SsTypeOK, Elsewhere, display' \in {display, NothingShown},
                             operation' \in Operations, manager' \in Managers
                      PROVE  SsTypeOK'
  BY DEF SsTypeOK, Elsewhere, service2022, told2022

LEMMA TypesStep == SsTypeOK /\ SsNext => SsTypeOK'
<1> SUFFICES ASSUME SsTypeOK, SsNext PROVE SsTypeOK'
  OBVIOUS
<1>1. ASSUME NEW w \in Workers, HelperSwaps(w) PROVE SsTypeOK'
  BY <1>1 DEF HelperSwaps, told2022, SsTypeOK
<1>2. ASSUME NEW w \in Workers, HelperInserts(w) PROVE SsTypeOK'
  BY <1>2 DEF HelperInserts, Resting, told2022, SsTypeOK, Services2022
<1>3. ASSUME NEW w \in Workers, HelperFails(w) PROVE SsTypeOK'
  BY <1>3 DEF HelperFails, Resting, told2022, SsTypeOK, Operations
<1>4. ASSUME ServiceStarts PROVE SsTypeOK'
  BY <1>4 DEF ServiceStarts, HelperStarts, told2022, SsTypeOK, Workers
<1>5. ASSUME ServiceCrashes PROVE SsTypeOK'
  BY <1>5 DEF ServiceCrashes, ChainRemoved, told2022, SsTypeOK, Services2022
<1>6. ASSUME NodeReboots PROVE SsTypeOK'
  <2>1. kept' = NothingKept \/ kept' \in Snapshots2022
    BY <1>6, KeptTyped, StageSet DEF NodeReboots, RollBackEnds, SsTypeOK
  <2> QED
    BY <1>6, <2>1, Constants2022 DEF NodeReboots, Resting, told2022, SsTypeOK,
       Services2022
<1>7. ASSUME InstallsList PROVE SsTypeOK'
  BY <1>7 DEF InstallsList, Changed, SsTypeOK, Operations
<1>8. ASSUME RefusesChange PROVE SsTypeOK'
  BY <1>8, Reported, RequestsOnly DEF RefusesChange, SsTypeOK, Elsewhere
<1>9. ASSUME StartsHelper PROVE SsTypeOK'
  BY <1>9, WentOn DEF StartsHelper, HelperStarts, Workers, told2022, SsTypeOK
<1>10. ASSUME HelperDone PROVE SsTypeOK'
  BY <1>10, WentOn, RequestsOnly DEF HelperDone, SsTypeOK, Elsewhere
<1>11. ASSUME Verifies PROVE SsTypeOK'
  BY <1>11, WentOn, RequestsOnly DEF Verifies, SsTypeOK, Elsewhere
<1>12. ASSUME UndoesChange PROVE SsTypeOK'
  <2>1. listed' \subseteq Sources
    BY <1>12 DEF UndoesChange, SsTypeOK, Operations
  <2> QED
    BY <1>12, <2>1, WentOn DEF UndoesChange, SsTypeOK, told2022
<1>13. ASSUME ChangeUndone PROVE SsTypeOK'
  BY <1>13, Reported, RequestsOnly DEF ChangeUndone, SsTypeOK, Elsewhere
<1>14. ASSUME WritesHandoff PROVE SsTypeOK'
  <2>1. /\ operation' \in Operations /\ manager' \in Managers
        /\ display' \in {display, NothingShown}
    BY <1>14, Reported DEF WritesHandoff, SsTypeOK
  <2>2. shutOut' \subseteq Sources /\ unsettled' \in BOOLEAN
    BY <1>14 DEF WritesHandoff, SsTypeOK, Operations, told2022
  <2> QED
    BY <1>14, <2>1, <2>2 DEF WritesHandoff, SsTypeOK, service2022
<1>15. ASSUME ReadsStatus PROVE SsTypeOK'
  BY <1>15, Reported, WentOn, RequestsOnly DEF ReadsStatus, SsTypeOK, Elsewhere
<1>16. ASSUME ListsSources PROVE SsTypeOK'
  <2>1. Entered("ok") \in Managers
    BY DEF Entered, AtMainMenu, Managers, SsTypeOK
  <2>2. /\ operation' \in Operations /\ manager' \in Managers
        /\ display' = NothingShown \/ display' \subseteq Sources
    BY <1>16, <2>1, Output, Told, Constants2022 DEF SsTypeOK
  <2> QED
    BY <1>16, <2>2 DEF ListsSources, SsTypeOK, service2022, told2022
<1>17. ASSUME EnsureRefused PROVE SsTypeOK'
  BY <1>17, Reported, RequestsOnly DEF EnsureRefused, SsTypeOK, Elsewhere
<1>18. ASSUME GeneratesConfig PROVE SsTypeOK'
  BY <1>18, WentOn DEF GeneratesConfig, SsTypeOK, StoredFiles, told2022
<1>19. ASSUME WritesMetadata PROVE SsTypeOK'
  BY <1>19, WentOn DEF WritesMetadata, SsTypeOK, StoredFiles, told2022
<1>20. ASSUME EnablesService PROVE SsTypeOK'
  BY <1>20, WentOn DEF EnablesService, SsTypeOK, Services2022, told2022
<1>21. ASSUME EnsureFails PROVE SsTypeOK'
  BY <1>21, Reported, RequestsOnly DEF EnsureFails, SsTypeOK, Elsewhere
<1>22. ASSUME StopsService PROVE SsTypeOK'
  BY <1>22, WentOn DEF StopsService, ChainRemoved, SsTypeOK, Services2022
<1>23. ASSUME RemovesFile PROVE SsTypeOK'
  BY <1>23 DEF RemovesFile, SsTypeOK, told2022
<1>24. ASSUME Purged PROVE SsTypeOK'
  <2>1. unsettled' \in BOOLEAN
    BY <1>24, KeptTyped DEF Purged
  <2> QED
    BY <1>24, <2>1, Reported DEF Purged, SsTypeOK, service2022
<1>25. ASSUME OpenEntries PROVE SsTypeOK'
  BY <1>25, Asked, RequestsOnly DEF OpenEntries, SsTypeOK, Requests,
     Places2022, Elsewhere
<1>26. ASSUME AddEntry PROVE SsTypeOK'
  BY <1>26, Asked, RequestsOnly DEF AddEntry, SsTypeOK, Requests, Places2022,
     Elsewhere
<1>27. ASSUME ListForRemoval PROVE SsTypeOK'
  BY <1>27, Asked, RequestsOnly DEF ListForRemoval, SsTypeOK, Requests,
     Places2022, Elsewhere
<1>28. ASSUME ChooseRemoval PROVE SsTypeOK'
  <2>1. CASE Displays("entries")
    BY <1>28, <2>1, Displayed, RequestsOnly DEF ChooseRemoval, Displays, SsTypeOK,
       Places2022
  <2>2. ASSUME NEW s \in Sources, Asks("remove", {s}, "change") PROVE SsTypeOK'
    BY <1>28, <2>2, Asked, RequestsOnly DEF ChooseRemoval, SsTypeOK, Requests, Places2022
  <2> QED
    BY <1>28, <2>1, <2>2 DEF ChooseRemoval
<1>29. ASSUME ChangeConfirmed PROVE SsTypeOK'
  BY <1>29, Asked, RequestsOnly DEF ChangeConfirmed, SsTypeOK, Requests,
     Places2022, Elsewhere
<1>30. ASSUME CloseEntries PROVE SsTypeOK'
  BY <1>30, Constants2022, RequestsOnly DEF CloseEntries, SsTypeOK,
     Leaves2022, Elsewhere
<1>31. ASSUME OpenOneShot PROVE SsTypeOK'
  BY <1>31, Asked, RequestsOnly DEF OpenOneShot, SsTypeOK, Requests,
     Places2022, Elsewhere
<1>32. ASSUME AddObserved PROVE SsTypeOK'
  BY <1>32, Asked, Constants2022, RequestsOnly DEF AddObserved, SsTypeOK,
     Leaves2022, Requests, Places2022, Elsewhere
<1>33. ASSUME Repair PROVE SsTypeOK'
  BY <1>33, Asked, RequestsOnly DEF Repair, SsTypeOK, Requests, Places2022, Elsewhere
<1>34. ASSUME Dismantle2022 PROVE SsTypeOK'
  BY <1>34, Asked, RequestsOnly DEF Dismantle2022, SsTypeOK, Requests,
     Places2022, Elsewhere
<1>35. ASSUME Resends PROVE SsTypeOK'
  <2>1. /\ operation' \in Operations /\ manager' \in Managers
        /\ display' \in {display, NothingShown}
    <3>1. CASE Leaves2022 /\ UNCHANGED operation
      BY <3>1, Constants2022 DEF Leaves2022, SsTypeOK
    <3>2. CASE Asks(manager.kind, manager.source, manager.pc)
      BY <3>2, Asked DEF SsTypeOK, Requests, Places2022, Managers
    <3> QED
      BY <1>35, <3>1, <3>2 DEF Resends
  <2> QED
    BY <1>35, <2>1, RequestsOnly DEF Resends, Leaves2022
<1>36. ASSUME GivesUpWaiting PROVE SsTypeOK'
  BY <1>36, Told, RequestsOnly DEF GivesUpWaiting, SsTypeOK, Operations, Elsewhere
<1>37. ASSUME SomebodyElse PROVE SsTypeOK'
  BY <1>37, Begun, RequestsOnly DEF SomebodyElse, SsTypeOK, Changes, Requests,
     Elsewhere
<1>38. ASSUME WizardLeftBehind PROVE SsTypeOK'
  BY <1>38, Begun DEF WizardLeftBehind, SsTypeOK, service2022, Requests
<1>39. ASSUME ScriptCut PROVE SsTypeOK'
  BY <1>39, Told, Constants2022, RequestsOnly DEF ScriptCut, SsTypeOK, Elsewhere
<1>40. ASSUME StartConstruction2022 PROVE SsTypeOK'
  <2>1. kept' \in Snapshots2022
    BY <1>40 DEF StartConstruction2022, KeptNow, Snapshots2022, SsTypeOK, Services2022
  <2>2. manager' \in Managers /\ UNCHANGED <<operation, display>>
    BY <1>40, Displayed DEF StartConstruction2022, Displays, Places2022
  <2> QED
    BY <1>40, <2>1, <2>2 DEF StartConstruction2022, WritesBeside, service2022, SsTypeOK
<1>41. ASSUME SetsUp2022 PROVE SsTypeOK'
  BY <1>41, Asked, RequestsOnly DEF SetsUp2022, SsTypeOK, Requests, Places2022,
     Elsewhere
<1>42. ASSUME CommitConstruction2022 PROVE SsTypeOK'
  BY <1>42, Constants2022 DEF CommitConstruction2022, Leaves2022, SsTypeOK,
     service2022
<1>43. ASSUME RollBackStops2022 PROVE SsTypeOK'
  <2>1. kept' \in Snapshots2022
    BY <1>43, KeptTyped, StageSet DEF RollBackStops2022
  <2>2. service' \in Services2022 /\ (chain' = NoChain \/ chain' \subseteq Sources)
    BY <1>43 DEF RollBackStops2022, Stops2022, ChainRemoved, SsTypeOK, Services2022
  <2> QED
    BY <1>43, <2>1, <2>2, Constants2022 DEF RollBackStops2022, SsTypeOK, told2022
<1>44. ASSUME RollBackRestores2022 PROVE SsTypeOK'
  <2>1. kept \in Snapshots2022
    BY <1>44 DEF RollBackRestores2022, SsTypeOK, NothingKept
  <2>2. stored' \subseteq StoredFiles /\ listed' \subseteq Sources
    BY <1>44, <2>1 DEF RollBackRestores2022, RestoresFiles2022, Snapshots2022
  <2>3. service' \in Services2022 /\ (chain' = NoChain \/ chain' \subseteq Sources)
    BY <1>44, <2>1 DEF RollBackRestores2022, Stops2022, ChainRemoved, SsTypeOK,
       Snapshots2022,
       Services2022
  <2>4. operation' \in Operations
    BY <1>44 DEF RollBackRestores2022, SsTypeOK, Operations
  <2>5. kept' = NothingKept \/ kept' \in Snapshots2022
    BY <1>44, <2>1, StageSet DEF RollBackRestores2022, RollBackEnds
  <2> QED
    BY <1>44, <2>2, <2>3, <2>4, <2>5 DEF RollBackRestores2022, WritesBeside, SsTypeOK
<1>45. ASSUME RollBackCut2022 PROVE SsTypeOK'
  <2>1. kept' \in Snapshots2022
    BY <1>45, KeptTyped, StageSet DEF RollBackCut2022, RollBackEnds
  <2> QED
    BY <1>45, <2>1 DEF RollBackCut2022, SsTypeOK, service2022, told2022
<1>46. ASSUME ProgramKilled2022 PROVE SsTypeOK'
  BY <1>46, Constants2022, RequestsOnly DEF ProgramKilled2022, SsTypeOK,
     Operations, Elsewhere
<1> QED
  BY <1>1, <1>2, <1>3, <1>4, <1>5, <1>6, <1>7, <1>8, <1>9, <1>10, <1>11, <1>12,
     <1>13, <1>14, <1>15, <1>16, <1>17, <1>18, <1>19, <1>20, <1>21, <1>22, <1>23,
     <1>24, <1>25, <1>26, <1>27, <1>28, <1>29, <1>30, <1>31, <1>32, 
     <1>33, <1>34, <1>35, <1>36, <1>37, <1>38, <1>39, <1>40,
     <1>41, <1>42, <1>43, <1>44, <1>45, <1>46 DEF SsNext

-----------------------------------------------------------------------------
(* A reported removal.                                                     *)

\* The sources X are neither listed, nor about to be, nor accepted.
Outside(X) ==
  /\ listed \cap X = {}
  /\ \A w \in Workers : helpers[w].read \cap X = {}
  /\ chain # NoChain => chain \cap X = {}

\* Where a change has installed its list and not undone it.
Late == {"apply", "applying", "apply failed", "verify", "handoff"}

\* The sources shut out stay outside, and what a failing change would put back
\* holds none of them; a removal that goes on has taken its source off the
\* list, and one about to be reported has it outside, unless a rollback has
\* brought the list of its snapshot back meanwhile.
Barred ==
  /\ Outside(shutOut)
  /\ operation.before \cap shutOut = {}
  /\ operation.kind = "remove" /\ operation.pc \in Late /\ ~operation.overtaken =>
       /\ listed \cap operation.source = {}
       /\ operation.pc = "handoff" => Outside(operation.source)

\* The script is at work as before, or has nothing of a removal in hand.
Alike ==
  /\ operation'.before \in {{}, operation.before}
  /\ operation'.kind = "remove" /\ operation'.pc \in Late =>
       /\ operation.kind = "remove" /\ operation.pc \in Late
       /\ operation'.source = operation.source
       /\ operation'.overtaken = operation.overtaken
       /\ operation'.pc = "handoff" => operation.pc = "handoff"

LEMMA Quiet == ASSUME Barred, Alike, UNCHANGED <<listed, chain, helpers, shutOut>>
               PROVE  Barred'
  BY DEF Barred, Alike, Outside, Late

LEMMA AskedAlike == ASSUME NEW k, NEW s, NEW pc, Asks(k, s, pc)
                    PROVE  Alike
<1>1. CASE operation = NoOperation
  <2>1. Begins(k, s, TRUE)
    BY <1>1 DEF Asks
  <2>2. operation'.before = {} /\ operation'.pc = "begin"
    BY <2>1 DEF Begins
  <2> QED
    BY <2>2 DEF Alike, Late
<1>2. CASE operation # NoOperation
  BY <1>2 DEF Asks, Alike
<1> QED
  BY <1>1, <1>2

LEMMA BarredStep == SsTypeOK /\ Barred /\ SsNext => Barred'
<1> SUFFICES ASSUME SsTypeOK, Barred, SsNext PROVE Barred'
  OBVIOUS
<1>1. ASSUME NEW w \in Workers, HelperSwaps(w) PROVE Barred'
  BY <1>1 DEF HelperSwaps, told2022, Barred, Outside, SsTypeOK
<1>2. ASSUME NEW w \in Workers, HelperInserts(w) PROVE Barred'
  BY <1>2 DEF HelperInserts, Resting, told2022, Barred, Outside, SsTypeOK
<1>3. ASSUME NEW w \in Workers, HelperFails(w) PROVE Barred'
  BY <1>3 DEF HelperFails, Resting, told2022, Barred, Outside, Late, SsTypeOK,
     Operations
<1>4. ASSUME ServiceStarts PROVE Barred'
  BY <1>4 DEF ServiceStarts, HelperStarts, told2022, Barred, Outside, SsTypeOK,
     Workers
<1>5. ASSUME ServiceCrashes PROVE Barred'
  BY <1>5 DEF ServiceCrashes, ChainRemoved, told2022, Barred, Outside
<1>6. ASSUME NodeReboots PROVE Barred'
  BY <1>6 DEF NodeReboots, Resting, NoOperation, told2022, Barred, Outside, Late
<1>7. ASSUME InstallsList PROVE Barred'
  BY <1>7 DEF InstallsList, Changes, Changed, Barred, Outside, Late, SsTypeOK,
     Operations
<1>8. ASSUME RefusesChange PROVE Barred'
  BY <1>8, Quiet DEF RefusesChange, Reports, NoOperation, service2022, told2022,
     Alike, Late
<1>9. ASSUME StartsHelper PROVE Barred'
  BY <1>9 DEF StartsHelper, HelperStarts, GoesOn, Workers, told2022, Barred,
     Outside, Late, SsTypeOK, Operations
<1>10. ASSUME HelperDone PROVE Barred'
  BY <1>10, Quiet DEF HelperDone, GoesOn, service2022, told2022, SsTypeOK,
     Operations, Alike, Late
<1>11. ASSUME Verifies PROVE Barred'
  <2>1. /\ operation'.kind = operation.kind /\ operation'.source = operation.source
        /\ operation'.before = operation.before /\ operation.pc \in Late
        /\ operation'.overtaken = operation.overtaken
    BY <1>11 DEF Verifies, GoesOn, SsTypeOK, Operations, Late
  <2>2. chain = listed /\ \A w \in Workers : helpers[w].read = {}
    BY <1>11 DEF Verifies, Verified, Enforced, HelperFree, Resting
  <2> QED
    BY <1>11, <2>1, <2>2 DEF Verifies, service2022, told2022, Barred, Outside
<1>12. ASSUME UndoesChange PROVE Barred'
  <2>1. /\ operation'.kind = operation.kind /\ operation'.before = operation.before
        /\ operation'.pc \notin Late /\ listed' \in {listed, operation.before}
    BY <1>12 DEF UndoesChange, GoesOn, Late, SsTypeOK, Operations
  <2> QED
    BY <1>12, <2>1 DEF UndoesChange, told2022, Barred, Outside
<1>13. ASSUME ChangeUndone PROVE Barred'
  BY <1>13, Quiet DEF ChangeUndone, Reports, NoOperation, service2022, told2022,
     Alike, Late
<1>14. ASSUME WritesHandoff PROVE Barred'
  <2>1. operation' = NoOperation /\ UNCHANGED <<listed, chain, helpers>>
    BY <1>14 DEF WritesHandoff, Reports, service2022
  <2>2. \/ shutOut' = shutOut
        \/ /\ operation.kind = "remove" /\ ~operation.overtaken
           /\ shutOut' = shutOut \cup operation.source
    BY <1>14 DEF WritesHandoff, told2022
  <2>3. operation.pc = "handoff" /\ operation.pc \in Late
    BY <1>14 DEF WritesHandoff, Late
  <2>4. Outside(shutOut)'
    BY <2>1, <2>2, <2>3 DEF Barred, Outside
  <2> QED
    BY <2>1, <2>4 DEF Barred, NoOperation, Late
<1>15. ASSUME ReadsStatus PROVE Barred'
  <2>1. CASE operation' = NoOperation
    BY <1>15, <2>1, Quiet DEF ReadsStatus, NoOperation, service2022, told2022, Alike, Late
  <2>2. CASE GoesOn("list")
    BY <1>15, <2>2, Quiet DEF ReadsStatus, GoesOn, service2022, told2022, Alike, Late,
                          SsTypeOK, Operations
  <2> QED
    BY <1>15, <2>1, <2>2 DEF ReadsStatus, Reports
<1>16. ASSUME ListsSources PROVE Barred'
  BY <1>16, Quiet DEF ListsSources, NoOperation, service2022, told2022,
     Alike, Late
<1>17. ASSUME EnsureRefused PROVE Barred'
  BY <1>17, Quiet DEF EnsureRefused, Reports, NoOperation, service2022, told2022,
     Alike, Late
<1>18. ASSUME GeneratesConfig PROVE Barred'
  BY <1>18, Quiet DEF GeneratesConfig, RunsAt, GoesOn, told2022, SsTypeOK,
     Operations, Alike, Late
<1>19. ASSUME WritesMetadata PROVE Barred'
  BY <1>19, Quiet DEF WritesMetadata, RunsAt, GoesOn, told2022, SsTypeOK,
     Operations, Alike, Late
<1>20. ASSUME EnablesService PROVE Barred'
  BY <1>20, Quiet DEF EnablesService, RunsAt, GoesOn, told2022, SsTypeOK,
     Operations, Alike, Late
<1>21. ASSUME EnsureFails PROVE Barred'
  BY <1>21, Quiet DEF EnsureFails, Reports, NoOperation, service2022, told2022,
     Alike, Late
<1>22. ASSUME StopsService PROVE Barred'
  <2>1. operation'.kind = "purge" /\ operation'.before = operation.before
    BY <1>22 DEF StopsService, RunsAt, GoesOn, SsTypeOK, Operations
  <2> QED
    BY <1>22, <2>1 DEF StopsService, ChainRemoved, Barred, Outside
<1>23. ASSUME RemovesFile PROVE Barred'
  BY <1>23 DEF RemovesFile, told2022, Barred, Outside
<1>24. ASSUME Purged PROVE Barred'
  BY <1>24, Quiet DEF Purged, Reports, NoOperation, service2022, Alike, Late
<1>25. ASSUME OpenEntries PROVE Barred'
  BY <1>25, Quiet, AskedAlike DEF OpenEntries, Elsewhere, service2022, told2022
<1>26. ASSUME AddEntry PROVE Barred'
  BY <1>26, Quiet, AskedAlike DEF AddEntry, Elsewhere, service2022, told2022
<1>27. ASSUME ListForRemoval PROVE Barred'
  BY <1>27, Quiet, AskedAlike DEF ListForRemoval, Elsewhere, service2022, told2022
<1>28. ASSUME ChooseRemoval PROVE Barred'
  BY <1>28, Quiet, AskedAlike DEF ChooseRemoval, Displays, Elsewhere, service2022,
     told2022, Alike, Late
<1>29. ASSUME ChangeConfirmed PROVE Barred'
  BY <1>29, Quiet, AskedAlike DEF ChangeConfirmed, Elsewhere, service2022, told2022
<1>30. ASSUME CloseEntries PROVE Barred'
  BY <1>30, Quiet DEF CloseEntries, Leaves2022, Elsewhere, service2022, told2022,
     Alike,
     Late
<1>31. ASSUME OpenOneShot PROVE Barred'
  BY <1>31, Quiet, AskedAlike DEF OpenOneShot, Elsewhere, service2022, told2022
<1>32. ASSUME AddObserved PROVE Barred'
  BY <1>32, Quiet, AskedAlike DEF AddObserved, Leaves2022, Elsewhere, service2022,
     told2022, Alike, Late
<1>33. ASSUME Repair PROVE Barred'
  BY <1>33, Quiet, AskedAlike DEF Repair, Elsewhere, service2022, told2022
<1>34. ASSUME Dismantle2022 PROVE Barred'
  BY <1>34, Quiet, AskedAlike DEF Dismantle2022, Elsewhere, service2022, told2022
<1>35. ASSUME Resends PROVE Barred'
  <2>1. Alike
    BY <1>35, AskedAlike DEF Resends, Leaves2022, Alike, Late
  <2> QED
    BY <1>35, <2>1, Quiet DEF Resends, Elsewhere, service2022, told2022
<1>36. ASSUME GivesUpWaiting PROVE Barred'
  BY <1>36, Quiet DEF GivesUpWaiting, Elsewhere, service2022, told2022, SsTypeOK,
     Operations, Alike, Late
<1>37. ASSUME SomebodyElse PROVE Barred'
  BY <1>37, Quiet DEF SomebodyElse, Begins, Elsewhere, service2022, told2022, Alike,
     Late
<1>38. ASSUME WizardLeftBehind PROVE Barred'
  BY <1>38, Quiet DEF WizardLeftBehind, Begins, service2022, Alike, Late
<1>39. ASSUME ScriptCut PROVE Barred'
  BY <1>39, Quiet DEF ScriptCut, NoOperation, Elsewhere, service2022, told2022,
     Alike,
     Late
<1>40. ASSUME StartConstruction2022 PROVE Barred'
  BY <1>40, Quiet DEF StartConstruction2022, Displays, service2022, Alike, Late
<1>41. ASSUME SetsUp2022 PROVE Barred'
  BY <1>41, Quiet, AskedAlike DEF SetsUp2022, Elsewhere, service2022, told2022
<1>42. ASSUME CommitConstruction2022 PROVE Barred'
  BY <1>42, Quiet DEF CommitConstruction2022, Leaves2022, service2022, told2022,
     Alike, Late
<1>43. ASSUME RollBackStops2022 PROVE Barred'
  BY <1>43 DEF RollBackStops2022, Stops2022, ChainRemoved, told2022, Barred, Outside
<1>44. ASSUME RollBackRestores2022 PROVE Barred'
  <2>1. /\ operation'.kind = operation.kind /\ operation'.pc = operation.pc
        /\ operation.kind = "remove" /\ operation.pc \in Late => operation'.overtaken = TRUE
    BY <1>44 DEF RollBackRestores2022, SsTypeOK, Operations, Late
  <2> QED
    BY <1>44, <2>1 DEF RollBackRestores2022, Barred, Outside
<1>45. ASSUME RollBackCut2022 PROVE Barred'
  BY <1>45, Quiet DEF RollBackCut2022, service2022, told2022, Alike, Late
<1>46. ASSUME ProgramKilled2022 PROVE Barred'
  BY <1>46, Quiet DEF ProgramKilled2022, Elsewhere, service2022, told2022, SsTypeOK,
     Operations, Alike, Late
<1> QED
  BY <1>1, <1>2, <1>3, <1>4, <1>5, <1>6, <1>7, <1>8, <1>9, <1>10, <1>11, <1>12,
     <1>13, <1>14, <1>15, <1>16, <1>17, <1>18, <1>19, <1>20, <1>21, <1>22, <1>23,
     <1>24, <1>25, <1>26, <1>27, <1>28, <1>29, <1>30, <1>31, <1>32, 
     <1>33, <1>34, <1>35, <1>36, <1>37, <1>38, <1>39, <1>40,
     <1>41, <1>42, <1>43, <1>44, <1>45, <1>46 DEF SsNext

-----------------------------------------------------------------------------
(* The list shown.                                                         *)

\* Between the health check and the output of the list, no helper has another
\* list in hand than the one in force, unless a rollback has changed the list.
ListedInForce ==
  /\ operation.pc = "list" => operation.kind = "snapshot"
  /\ operation.pc = "list" /\ ~operation.overtaken =>
       /\ chain \in {NoChain, listed}
       /\ \A w \in Workers : helpers[w] = Resting \/ helpers[w].read = listed

LEMMA ListQuiet ==
  ASSUME ListedInForce, UNCHANGED <<listed, chain, helpers>>,
         operation'.pc = "list" =>
           /\ operation'.kind = "snapshot"
           /\ Healthy \/ (operation.pc = "list" /\ operation'.overtaken = operation.overtaken)
  PROVE  ListedInForce'
  BY DEF ListedInForce, Healthy, Enforced, HelperFree

LEMMA ListSame ==
  ASSUME ListedInForce, UNCHANGED <<listed, chain, helpers>>,
         operation'.pc = "list" => operation' = operation
  PROVE  ListedInForce'
  BY ListQuiet DEF ListedInForce

LEMMA AskedNoList == ASSUME NEW k, NEW s, NEW pc, Asks(k, s, pc)
                     PROVE  operation'.pc = "list" => operation' = operation
<1>1. CASE operation = NoOperation
  <2>1. Begins(k, s, TRUE)
    BY <1>1 DEF Asks
  <2> QED
    BY <2>1 DEF Begins
<1>2. CASE operation # NoOperation
  BY <1>2 DEF Asks
<1> QED
  BY <1>1, <1>2

LEMMA ListedStep == SsTypeOK /\ ListedInForce /\ SsNext => ListedInForce'
<1> SUFFICES ASSUME SsTypeOK, ListedInForce, SsNext PROVE ListedInForce'
  OBVIOUS
<1>1. ASSUME NEW w \in Workers, HelperSwaps(w) PROVE ListedInForce'
  <2>1. operation' = operation /\ listed' = listed /\ chain' = NoChain
    BY <1>1 DEF HelperSwaps
  <2>2. ~(helpers[w] = Resting) /\ helpers'[w].read = helpers[w].read
    BY <1>1 DEF HelperSwaps, Resting, SsTypeOK
  <2>3. \A v \in Workers \ {w} : helpers'[v] = helpers[v]
    BY <1>1 DEF HelperSwaps, SsTypeOK
  <2> QED
    BY <2>1, <2>2, <2>3 DEF ListedInForce
<1>2. ASSUME NEW w \in Workers, HelperInserts(w) PROVE ListedInForce'
  <2>1. operation' = operation /\ listed' = listed /\ chain' = helpers[w].read
    BY <1>2 DEF HelperInserts
  <2>2. ~(helpers[w] = Resting)
    BY <1>2 DEF HelperInserts, Resting
  <2>3. \A v \in Workers : helpers'[v] = helpers[v] \/ helpers'[v] = Resting
    BY <1>2 DEF HelperInserts, SsTypeOK
  <2> QED
    BY <2>1, <2>2, <2>3 DEF ListedInForce
<1>3. ASSUME NEW w \in Workers, HelperFails(w) PROVE ListedInForce'
  <2>1. operation'.pc = "list" => operation' = operation
    BY <1>3 DEF HelperFails, SsTypeOK, Operations
  <2>2. listed' = listed /\ chain' = chain
    BY <1>3 DEF HelperFails
  <2>3. \A v \in Workers : helpers'[v] = helpers[v] \/ helpers'[v] = Resting
    BY <1>3 DEF HelperFails, SsTypeOK
  <2> QED
    BY <2>1, <2>2, <2>3 DEF ListedInForce
<1>4. ASSUME ServiceStarts PROVE ListedInForce'
  BY <1>4 DEF ServiceStarts, HelperStarts, HelperFree, SsTypeOK, Operations,
     ListedInForce
<1>5. ASSUME ServiceCrashes PROVE ListedInForce'
  BY <1>5 DEF ServiceCrashes, ChainRemoved, HelperFree, ListedInForce
<1>6. ASSUME NodeReboots PROVE ListedInForce'
  BY <1>6 DEF NodeReboots, NoOperation, ListedInForce
<1>7. ASSUME InstallsList PROVE ListedInForce'
  BY <1>7 DEF InstallsList, SsTypeOK, Operations, ListedInForce
<1>8. ASSUME RefusesChange PROVE ListedInForce'
  BY <1>8, ListQuiet DEF RefusesChange, service2022, Reports, NoOperation
<1>9. ASSUME StartsHelper PROVE ListedInForce'
  BY <1>9 DEF StartsHelper, GoesOn, SsTypeOK, Operations, ListedInForce
<1>10. ASSUME HelperDone PROVE ListedInForce'
  BY <1>10, ListQuiet DEF HelperDone, GoesOn, service2022, SsTypeOK, Operations
<1>11. ASSUME Verifies PROVE ListedInForce'
  BY <1>11, ListQuiet DEF Verifies, GoesOn, service2022, SsTypeOK, Operations
<1>12. ASSUME UndoesChange PROVE ListedInForce'
  BY <1>12 DEF UndoesChange, GoesOn, SsTypeOK, Operations, ListedInForce
<1>13. ASSUME ChangeUndone PROVE ListedInForce'
  BY <1>13, ListQuiet DEF ChangeUndone, service2022, Reports, NoOperation
<1>14. ASSUME WritesHandoff PROVE ListedInForce'
  BY <1>14, ListQuiet DEF WritesHandoff, service2022, Reports, NoOperation
<1>15. ASSUME ReadsStatus PROVE ListedInForce'
  <2>1. operation'.pc = "list" => Healthy /\ operation'.kind = "snapshot"
    <3>1. CASE operation' = NoOperation
      BY <3>1 DEF NoOperation
    <3>2. CASE Healthy /\ operation.kind = "snapshot" /\ GoesOn("list")
      BY <1>15, <3>2 DEF ReadsStatus, GoesOn, SsTypeOK, Operations
    <3>3. operation' = NoOperation \/ (Healthy /\ operation.kind = "snapshot" /\ GoesOn("list"))
      <4>1. CASE Healthy
        BY <1>15, <4>1 DEF ReadsStatus, Reports
      <4>2. CASE ~Healthy
        BY <1>15, <4>2 DEF ReadsStatus, Reports
      <4> QED
        BY <4>1, <4>2
    <3> QED
      BY <3>1, <3>2, <3>3
  <2> QED
    <3>1. UNCHANGED <<listed, chain, helpers>>
      BY <1>15 DEF ReadsStatus, service2022
    <3>2. operation'.pc = "list" =>
            /\ operation'.kind = "snapshot"
            /\ Healthy \/ (operation.pc = "list" /\ operation'.overtaken = operation.overtaken)
      BY <2>1
    <3> QED
      BY <3>1, <3>2, ListQuiet
<1>16. ASSUME ListsSources PROVE ListedInForce'
  BY <1>16, ListQuiet DEF ListsSources, service2022, NoOperation
<1>17. ASSUME EnsureRefused PROVE ListedInForce'
  BY <1>17, ListQuiet DEF EnsureRefused, RunsAt, service2022, Reports, NoOperation
<1>18. ASSUME GeneratesConfig PROVE ListedInForce'
  BY <1>18, ListQuiet DEF GeneratesConfig, GoesOn, RunsAt, SsTypeOK, Operations
<1>19. ASSUME WritesMetadata PROVE ListedInForce'
  BY <1>19, ListQuiet DEF WritesMetadata, GoesOn, RunsAt, SsTypeOK, Operations
<1>20. ASSUME EnablesService PROVE ListedInForce'
  BY <1>20, ListQuiet DEF EnablesService, GoesOn, RunsAt, SsTypeOK, Operations
<1>21. ASSUME EnsureFails PROVE ListedInForce'
  BY <1>21, ListQuiet DEF EnsureFails, service2022, Reports, NoOperation
<1>22. ASSUME StopsService PROVE ListedInForce'
  BY <1>22 DEF StopsService, GoesOn, RunsAt, SsTypeOK, Operations, ListedInForce
<1>23. ASSUME RemovesFile PROVE ListedInForce'
  BY <1>23 DEF RemovesFile, RunsAt, ListedInForce
<1>24. ASSUME Purged PROVE ListedInForce'
  BY <1>24, ListQuiet DEF Purged, RunsAt, service2022, Reports, NoOperation
<1>25. ASSUME OpenEntries PROVE ListedInForce'
  BY <1>25, AskedNoList, ListSame DEF OpenEntries, Elsewhere, service2022
<1>26. ASSUME AddEntry PROVE ListedInForce'
  BY <1>26, AskedNoList, ListSame DEF AddEntry, Elsewhere, service2022
<1>27. ASSUME ListForRemoval PROVE ListedInForce'
  BY <1>27, AskedNoList, ListSame DEF ListForRemoval, Elsewhere, service2022
<1>28. ASSUME ChooseRemoval PROVE ListedInForce'
  BY <1>28, AskedNoList, ListSame DEF ChooseRemoval, Displays, Elsewhere, service2022
<1>29. ASSUME ChangeConfirmed PROVE ListedInForce'
  BY <1>29, AskedNoList, ListSame DEF ChangeConfirmed, Elsewhere, service2022
<1>30. ASSUME CloseEntries PROVE ListedInForce'
  BY <1>30, ListSame DEF CloseEntries, Leaves2022, Elsewhere, service2022
<1>31. ASSUME OpenOneShot PROVE ListedInForce'
  BY <1>31, AskedNoList, ListSame DEF OpenOneShot, Elsewhere, service2022
<1>32. ASSUME AddObserved PROVE ListedInForce'
  BY <1>32, AskedNoList, ListSame DEF AddObserved, Leaves2022, Elsewhere, service2022
<1>33. ASSUME Repair PROVE ListedInForce'
  BY <1>33, AskedNoList, ListSame DEF Repair, Elsewhere, service2022
<1>34. ASSUME Dismantle2022 PROVE ListedInForce'
  BY <1>34, AskedNoList, ListSame DEF Dismantle2022, Elsewhere, service2022
<1>35. ASSUME Resends PROVE ListedInForce'
  <2>1. operation'.pc = "list" => operation' = operation
    BY <1>35, AskedNoList DEF Resends, Leaves2022
  <2> QED
    BY <1>35, <2>1, ListSame DEF Resends, Elsewhere, service2022
<1>36. ASSUME GivesUpWaiting PROVE ListedInForce'
  <2>1. /\ operation'.pc = operation.pc /\ operation'.kind = operation.kind
        /\ operation'.overtaken = operation.overtaken
    BY <1>36 DEF GivesUpWaiting, SsTypeOK, Operations
  <2> QED
    BY <1>36, <2>1 DEF GivesUpWaiting, Elsewhere, service2022, ListedInForce
<1>37. ASSUME SomebodyElse PROVE ListedInForce'
  BY <1>37, ListQuiet DEF SomebodyElse, Begins, Elsewhere, NoOperation, service2022
<1>38. ASSUME WizardLeftBehind PROVE ListedInForce'
  BY <1>38, ListQuiet DEF WizardLeftBehind, Begins, service2022
<1>39. ASSUME ScriptCut PROVE ListedInForce'
  BY <1>39, ListQuiet DEF ScriptCut, Elsewhere, NoOperation, service2022
<1>40. ASSUME StartConstruction2022 PROVE ListedInForce'
  BY <1>40, ListSame DEF StartConstruction2022, Displays, service2022
<1>41. ASSUME SetsUp2022 PROVE ListedInForce'
  BY <1>41, AskedNoList, ListSame DEF SetsUp2022, Elsewhere, service2022
<1>42. ASSUME CommitConstruction2022 PROVE ListedInForce'
  BY <1>42, ListSame DEF CommitConstruction2022, Leaves2022, service2022
<1>43. ASSUME RollBackStops2022 PROVE ListedInForce'
  BY <1>43 DEF RollBackStops2022, Stops2022, ChainRemoved, ListedInForce
<1>44. ASSUME RollBackRestores2022 PROVE ListedInForce'
  <2>1. /\ operation'.kind = operation.kind /\ operation'.pc = operation.pc
        /\ operation.kind = "snapshot" /\ operation.pc = "list" => operation'.overtaken = TRUE
    BY <1>44 DEF RollBackRestores2022, SsTypeOK, Operations
  <2> QED
    BY <2>1 DEF ListedInForce
<1>45. ASSUME RollBackCut2022 PROVE ListedInForce'
  BY <1>45, ListSame DEF RollBackCut2022, service2022
<1>46. ASSUME ProgramKilled2022 PROVE ListedInForce'
  <2>1. /\ operation'.pc = operation.pc /\ operation'.kind = operation.kind
        /\ operation'.overtaken = operation.overtaken
    BY <1>46 DEF ProgramKilled2022, SsTypeOK, Operations
  <2> QED
    BY <1>46, <2>1 DEF ProgramKilled2022, Elsewhere, service2022, ListedInForce
<1> QED
  BY <1>1, <1>2, <1>3, <1>4, <1>5, <1>6, <1>7, <1>8, <1>9, <1>10, <1>11, <1>12,
     <1>13, <1>14, <1>15, <1>16, <1>17, <1>18, <1>19, <1>20, <1>21, <1>22, <1>23,
     <1>24, <1>25, <1>26, <1>27, <1>28, <1>29, <1>30, <1>31, <1>32, 
     <1>33, <1>34, <1>35, <1>36, <1>37, <1>38, <1>39, <1>40,
     <1>41, <1>42, <1>43, <1>44, <1>45, <1>46 DEF SsNext

\* Only the output of the list puts a list before the operator.
LEMMA AskedShown == ASSUME NEW k, NEW s, NEW pc, Asks(k, s, pc)
                    PROVE  display' \in {display, NothingShown}
  BY DEF Asks, Leaves2022

LEMMA ToldShown == ASSUME NEW a, Hears2022(a) PROVE display' \in {display, NothingShown}
  BY DEF Hears2022, Leaves2022

LEMMA ReportedShown == ASSUME NEW a, Reports(a) PROVE display' \in {display, NothingShown}
  BY ToldShown DEF Reports

LEMMA DisplayKept == ASSUME SsNext, display' \notin {display, NothingShown} PROVE ListsSources
<1>1. ~(\E w \in Workers : HelperSwaps(w) \/ HelperInserts(w) \/ HelperFails(w))
  BY DEF HelperSwaps, HelperInserts, HelperFails
<1>2. ~(ServiceStarts \/ ServiceCrashes \/ NodeReboots \/ InstallsList)
  BY DEF ServiceStarts, ServiceCrashes, NodeReboots, InstallsList
<1>3. ~(RefusesChange \/ ChangeUndone \/ WritesHandoff \/ EnsureRefused \/ EnsureFails)
  BY ReportedShown DEF RefusesChange, ChangeUndone, WritesHandoff, EnsureRefused,
     EnsureFails
<1>4. ~(ReadsStatus \/ Purged)
  BY ReportedShown DEF ReadsStatus, Purged
<1>5. ~(StartsHelper \/ HelperDone \/ Verifies \/ UndoesChange)
  BY DEF StartsHelper, HelperDone, Verifies, UndoesChange
<1>6. ~(GeneratesConfig \/ WritesMetadata \/ EnablesService \/ StopsService \/ RemovesFile)
  BY DEF GeneratesConfig, WritesMetadata, EnablesService, StopsService, RemovesFile
<1>7. ~(OpenEntries \/ AddEntry \/ ListForRemoval \/ ChooseRemoval \/ ChangeConfirmed)
  BY AskedShown DEF OpenEntries, AddEntry, ListForRemoval, ChooseRemoval, Displays,
     ChangeConfirmed
<1>8. ~(CloseEntries \/ OpenOneShot \/ AddObserved \/ Repair \/ Dismantle2022 \/ Resends)
  BY AskedShown DEF CloseEntries, OpenOneShot, AddObserved, Repair, Dismantle2022, Resends,
     Leaves2022
<1>9. ~(GivesUpWaiting \/ SomebodyElse \/ WizardLeftBehind \/ ScriptCut)
  BY ToldShown DEF GivesUpWaiting, SomebodyElse, WizardLeftBehind, ScriptCut
<1>10. ~(StartConstruction2022 \/ SetsUp2022 \/ CommitConstruction2022)
  BY AskedShown DEF StartConstruction2022, Displays, SetsUp2022, CommitConstruction2022,
     Leaves2022
<1>11. ~(RollBackStops2022 \/ RollBackRestores2022 \/ RollBackCut2022 \/ ProgramKilled2022)
  BY DEF RollBackStops2022, RollBackRestores2022, RollBackCut2022, ProgramKilled2022
<1> QED
  BY <1>1, <1>2, <1>3, <1>4, <1>5, <1>6, <1>7, <1>8, <1>9, <1>10, <1>11 DEF SsNext

-----------------------------------------------------------------------------
(* The invariant, and the theorems.                                        *)

LEMMA SsStart == SsInit => SsTypeOK /\ Barred /\ ListedInForce
<1> SUFFICES ASSUME SsInit PROVE SsTypeOK /\ Barred /\ ListedInForce
  OBVIOUS
<1>1. SsTypeOK
  BY Constants2022 DEF SsInit, SsTypeOK, Resting, Services2022
<1>2. Barred
  BY DEF SsInit, Barred, Outside, NoOperation, Late, Resting
<1>3. ListedInForce
  BY DEF SsInit, ListedInForce, NoOperation
<1> QED
  BY <1>1, <1>2, <1>3

LEMMA SsStutter ==
  SsTypeOK /\ Barred /\ ListedInForce /\ UNCHANGED ssVars
    => SsTypeOK' /\ Barred' /\ ListedInForce'
  BY DEF ssVars, SsTypeOK, Barred, Outside, ListedInForce

LEMMA SsInvariance == SsSpec => [](SsTypeOK /\ Barred /\ ListedInForce)
<1>1. SsInit => SsTypeOK /\ Barred /\ ListedInForce
  BY SsStart
<1>2. SsTypeOK /\ Barred /\ ListedInForce /\ [SsNext]_ssVars
        => SsTypeOK' /\ Barred' /\ ListedInForce'
  BY TypesStep, BarredStep, ListedStep, SsStutter
<1> QED
  BY <1>1, <1>2, PTL DEF SsSpec

\* The variables of the service, the script and the menus keep their types,
\* whatever the set of addresses.
THEOREM SsTypeCorrect == SsSpec => []SsTypeOK
  BY SsInvariance, PTL

\* remove_source: a source whose removal was reported is never accepted again
\* by a helper that was started earlier, by systemd or by a change that is undone;
\* a removal that a rollback overtakes on its way to the report is not counted.
THEOREM RemovalHolds == SsSpec => []RemovedStaysOut
<1>1. Barred => RemovedStaysOut
  BY DEF Barred, Outside, RemovedStaysOut
<1> QED
  BY <1>1, SsInvariance, PTL

\* show_sources behind require_healthy_service: the list that the operator gets
\* to see is the one in force, although systemd may restart the service and
\* rebuild the chain between the check and the output; but for a rollback there.
THEOREM ShownListIsEnforced == SsSpec => ShownIsEnforced
<1>1. ListedInForce /\ [SsNext]_ssVars
        => [display' \notin {display, NothingShown} /\ ~operation.overtaken
              => chain \in {display', NoChain}]_ssVars
  <2> SUFFICES ASSUME ListedInForce, SsNext, display' \notin {display, NothingShown},
                      ~operation.overtaken
               PROVE  chain \in {display', NoChain}
    OBVIOUS
  <2>1. ListsSources
    BY DisplayKept
  <2>2. display' = listed
    BY <2>1, ToldShown DEF ListsSources
  <2> QED
    BY <2>1, <2>2 DEF ListsSources, ListedInForce
<1> QED
  BY <1>1, SsInvariance, PTL DEF SsSpec, ShownIsEnforced

-----------------------------------------------------------------------------
(* What a cut script leaves.                                               *)

\* The program waits for the very script it asked for, and holds a place of its
\* own for each kind of set-up; menu [1] has a snapshot that nobody restores yet.
WaitsForItsOwn ==
  operation.waits =>
    manager.answer = "none" /\ manager.kind = operation.kind /\ operation.kind # "none"
PlacesByKind ==
  /\ manager.kind = "ensure" => manager.pc \in {"construct", "repair"}
  /\ manager.pc \in {"construct", "repair"} /\ manager.answer # "ok" =>
       manager.kind = "ensure"
  /\ manager.pc = "entries" => manager.kind = "none"
  /\ manager.answer = "lost" => manager.kind # "none"
  /\ manager.pc \in {"begun", "construct"} => kept.taken /\ kept.stage = "held"
  /\ manager.pc = "begun" => manager.kind = "none" /\ manager.answer = "none"

\* As long as the state is settled: a removal has taken nothing away yet, and a
\* set-up begins only within a construction or where the metadata is there, and
\* writes the configuration before the metadata.
Phases(op) ==
  /\ op.kind = "purge" => op.pc = "begin"
  /\ op.kind = "ensure" =>
       /\ kept.taken \/ "meta" \in stored
       /\ op.pc = "meta" => "config" \in stored
       /\ op.pc \notin {"begin", "meta"} => stored = StoredFiles
\* A snapshot holds both files or none, a construction commits with both, and a
\* part is only seen while a construction has its snapshot.
KeptWhole == kept.taken => kept.stored \in {{}, StoredFiles}
OkHasBoth == Heard("construct", "ok") => stored = StoredFiles
PartCovered == Partial2022 => kept.taken

Settled ==
  ~unsettled => Phases(operation) /\ KeptWhole /\ OkHasBoth /\ PartCovered

RecoverInv == WaitsForItsOwn /\ PlacesByKind /\ Settled

\* The fields after a step of the script, an answer, and a request.
LEMMA GoneOn == ASSUME SsTypeOK, NEW pc, GoesOn(pc)
                PROVE  /\ operation'.pc = pc /\ operation'.kind = operation.kind
                       /\ operation'.waits = operation.waits
  BY DEF GoesOn, SsTypeOK, Operations

\* What the program holds after an answer.
AtRest(m) == m.pc \in {"menu", "entries"} /\ m.kind = "none" /\ m.answer = "none"
HoldsAnswer(m, a) ==
  /\ m.pc = manager.pc /\ m.answer = a
  /\ m.kind = IF a = "ok" THEN "none" ELSE manager.kind

LEMMA Hears == ASSUME SsTypeOK, NEW a \in {"ok", "failed", "lost"}, Hears2022(a)
               PROVE  AtRest(manager') \/ HoldsAnswer(manager', a)
<1>1. CASE manager' = AtMainMenu
  BY <1>1 DEF AtMainMenu, AtRest
<1>2. CASE manager' = Entered(a)
  <2>1. CASE a = "ok"
    BY <1>2, <2>1 DEF Entered, AtMainMenu, AtRest, HoldsAnswer
  <2>2. CASE a # "ok"
    BY <1>2, <2>2 DEF Entered, HoldsAnswer, SsTypeOK, Managers
  <2> QED
    BY <2>1, <2>2
<1> QED
  BY <1>1, <1>2 DEF Hears2022, Leaves2022

LEMMA AnsweredTo == ASSUME SsTypeOK, NEW a \in {"ok", "failed"}, Reports(a)
                    PROVE  /\ operation' = NoOperation
                           /\ \/ manager' = manager
                              \/ AtRest(manager')
                              \/ /\ operation.waits
                                 /\ \E b \in {a, "lost"} : HoldsAnswer(manager', b)
<1>1. operation' = NoOperation
  BY DEF Reports
<1>2. CASE operation.waits
  <2>1. PICK b \in {a, "lost"} : Hears2022(b)
    BY <1>2 DEF Reports
  <2> QED
    BY <1>1, <1>2, <2>1, Hears
<1>3. CASE ~operation.waits
  BY <1>1, <1>3 DEF Reports
<1> QED
  BY <1>2, <1>3

LEMMA AskedFor == ASSUME SsTypeOK, NEW k \in Requests, NEW s, NEW pc, Asks(k, s, pc)
                  PROVE  \/ /\ operation = NoOperation
                            /\ manager'.pc = pc /\ manager'.kind = k /\ manager'.answer = "none"
                            /\ operation'.pc = "begin" /\ operation'.kind = k
                            /\ operation'.waits = TRUE
                         \/ operation' = operation /\ AtRest(manager')
                         \/ /\ operation' = operation /\ pc = "construct"
                            /\ manager'.pc = pc /\ manager'.kind = k
                            /\ manager'.answer = "failed"
<1>1. CASE operation = NoOperation
  <2>1. /\ operation'.pc = "begin" /\ operation'.kind = k /\ operation'.waits = TRUE
    BY <1>1 DEF Asks, Begins
  <2> QED
    BY <1>1, <2>1 DEF Asks
<1>2. CASE operation # NoOperation
  BY <1>2 DEF Asks, Leaves2022, AtMainMenu, AtRest
<1> QED
  BY <1>1, <1>2

\* A step that leaves the files, the snapshot and the program alone, and moves
\* the script on within its phase.
LEMMA RecoverQuiet ==
  ASSUME RecoverInv, UNCHANGED <<stored, kept, unsettled, manager>>,
         operation'.kind = operation.kind, operation'.waits = operation.waits,
         ~unsettled => (Phases(operation) => Phases(operation)')
  PROVE  RecoverInv'
  BY DEF RecoverInv, WaitsForItsOwn, PlacesByKind, Settled, KeptWhole, OkHasBoth,
     PartCovered, Partial2022, Heard

\* The same, where the script only goes on.
LEMMA RecoverOn ==
  ASSUME RecoverInv, UNCHANGED <<stored, kept, unsettled, manager>>,
         operation'.kind = operation.kind, operation'.waits = operation.waits,
         \/ operation'.pc = operation.pc
         \/ operation.kind \in {"allow", "remove", "status", "snapshot"}
         \/ operation.pc \notin {"begin", "meta"}
  PROVE  RecoverInv'
<1>1. Phases(operation) => Phases(operation)'
  BY DEF Phases, StoredFiles
<1> QED
  BY <1>1, RecoverQuiet

\* The end of a script.
LEMMA RecoverEnd ==
  ASSUME SsTypeOK, RecoverInv, NEW a \in {"ok", "failed"}, operation' = NoOperation,
         \/ manager' = manager
         \/ AtRest(manager')
         \/ operation.waits /\ \E b \in {a, "lost"} : HoldsAnswer(manager', b),
         UNCHANGED <<stored, kept, unsettled>>,
         ~unsettled /\ a = "ok" /\ operation.kind = "ensure" => stored = StoredFiles
  PROVE  RecoverInv'
<1>1. Phases(operation)'
  BY DEF Phases, NoOperation
<1>2. CASE manager' = manager
  BY <1>1, <1>2 DEF NoOperation, RecoverInv, WaitsForItsOwn, PlacesByKind,
     Settled, KeptWhole, OkHasBoth, PartCovered, Partial2022, Heard
<1>3. CASE AtRest(manager')
  BY <1>1, <1>3 DEF AtRest, NoOperation, RecoverInv, WaitsForItsOwn, PlacesByKind,
     Settled, KeptWhole, OkHasBoth, PartCovered, Partial2022, Heard
<1>4. ASSUME operation.waits, NEW b \in {a, "lost"}, HoldsAnswer(manager', b)
      PROVE  RecoverInv'
  BY <1>1, <1>4 DEF HoldsAnswer, NoOperation, RecoverInv, WaitsForItsOwn, PlacesByKind,
     Settled, KeptWhole, OkHasBoth, PartCovered, Partial2022, Heard
<1> QED
  BY <1>2, <1>3, <1>4

\* The end of a script that settles the state.
LEMMA RecoverSettled ==
  ASSUME SsTypeOK, RecoverInv, Reports("ok"), UNCHANGED <<stored, kept>>,
         ~kept.taken, ~Partial2022
  PROVE  RecoverInv'
<1>1. Phases(operation)'
  BY AnsweredTo DEF Phases, NoOperation
<1>2. manager.pc \notin {"begun", "construct"}
  BY DEF RecoverInv, PlacesByKind
<1>3. CASE manager' = manager
  BY <1>1, <1>2, <1>3, AnsweredTo DEF NoOperation, RecoverInv, WaitsForItsOwn, PlacesByKind,
     Settled, KeptWhole, OkHasBoth, PartCovered, Partial2022, Heard
<1>4. CASE AtRest(manager')
  BY <1>1, <1>4, AnsweredTo DEF AtRest, NoOperation, RecoverInv, WaitsForItsOwn,
     PlacesByKind,
     Settled, KeptWhole, OkHasBoth, PartCovered, Partial2022, Heard
<1>5. ASSUME operation.waits, NEW b \in {"ok", "lost"}, HoldsAnswer(manager', b)
      PROVE  RecoverInv'
  BY <1>1, <1>2, <1>5, AnsweredTo DEF HoldsAnswer, NoOperation, RecoverInv,
     WaitsForItsOwn, PlacesByKind,
     Settled, KeptWhole, OkHasBoth, PartCovered, Partial2022, Heard
<1> QED
  BY <1>3, <1>4, <1>5, AnsweredTo

\* A request, or a refusal of it.
LEMMA RecoverAsked ==
  ASSUME SsTypeOK, RecoverInv, NEW k \in Requests, NEW s, NEW pc, Asks(k, s, pc),
         UNCHANGED <<stored, kept, unsettled>>,
         pc \notin {"begun", "entries"},
         pc \in {"repair", "construct"} <=> k = "ensure",
         pc = "repair" => "meta" \in stored,
         pc = "construct" => kept.taken /\ kept.stage = "held",
         k # "none", ~operation.waits
  PROVE  RecoverInv'
<1>1. CASE /\ manager'.pc = pc /\ manager'.kind = k /\ manager'.answer = "none"
           /\ operation'.pc = "begin" /\ operation'.kind = k /\ operation'.waits = TRUE
  <2>1. Phases(operation)'
    BY <1>1 DEF Phases
  <2> QED
    BY <1>1, <2>1 DEF RecoverInv, WaitsForItsOwn, PlacesByKind, Settled, KeptWhole,
       OkHasBoth, PartCovered, Partial2022, Heard
<1>2. CASE operation' = operation /\ AtRest(manager')
  <2>1. Phases(operation) => Phases(operation)'
    BY <1>2 DEF Phases
  <2> QED
    BY <1>2, <2>1 DEF AtRest, RecoverInv, WaitsForItsOwn, PlacesByKind,
       Settled, KeptWhole, OkHasBoth, PartCovered, Partial2022, Heard
<1>3. CASE /\ operation' = operation /\ pc = "construct" /\ manager'.pc = pc
           /\ manager'.kind = k /\ manager'.answer = "failed"
  <2>1. Phases(operation) => Phases(operation)'
    BY <1>3 DEF Phases
  <2> QED
    BY <1>3, <2>1 DEF RecoverInv, WaitsForItsOwn, PlacesByKind, Settled, KeptWhole,
       OkHasBoth, PartCovered, Partial2022, Heard
<1> QED
  BY <1>1, <1>2, <1>3, AskedFor

\* The program goes to a place where nothing is asked.
LEMMA RecoverLeft ==
  ASSUME RecoverInv, UNCHANGED <<stored, kept, unsettled>>,
         operation'.kind = operation.kind, operation'.pc = operation.pc,
         operation'.waits = FALSE,
         AtRest(manager')
  PROVE  RecoverInv'
<1>1. Phases(operation) => Phases(operation)'
  BY DEF Phases
<1> QED
  BY <1>1 DEF AtRest, RecoverInv, WaitsForItsOwn, PlacesByKind, Settled, KeptWhole,
     OkHasBoth,
     PartCovered, Partial2022, Heard

\* Nobody waits for an operation while the program is not waiting for one.
LEMMA NobodyWaits ==
  ASSUME SsTypeOK, RecoverInv,
         \/ manager.answer # "none"
         \/ manager.kind = "none"
  PROVE  operation.waits = FALSE
  BY DEF RecoverInv, WaitsForItsOwn, SsTypeOK, Operations

LEMMA RecoverStep == SsTypeOK /\ RecoverInv /\ SsNext => RecoverInv'
<1> SUFFICES ASSUME SsTypeOK, RecoverInv, SsNext PROVE RecoverInv'
  OBVIOUS
<1>1. ASSUME NEW w \in Workers, HelperSwaps(w) PROVE RecoverInv'
  BY <1>1, RecoverOn DEF HelperSwaps, told2022
<1>2. ASSUME NEW w \in Workers, HelperInserts(w) PROVE RecoverInv'
  BY <1>2, RecoverOn DEF HelperInserts, told2022
<1>3. ASSUME NEW w \in Workers, HelperFails(w) PROVE RecoverInv'
  <2>1. /\ operation'.kind = operation.kind /\ operation'.waits = operation.waits
        /\ operation'.pc = operation.pc \/ operation.pc = "applying"
    BY <1>3 DEF HelperFails, SsTypeOK, Operations
  <2> QED
    BY <1>3, <2>1, RecoverOn DEF HelperFails, told2022
<1>4. ASSUME ServiceStarts PROVE RecoverInv'
  BY <1>4, RecoverOn DEF ServiceStarts, told2022
<1>5. ASSUME ServiceCrashes PROVE RecoverInv'
  BY <1>5, RecoverOn DEF ServiceCrashes, told2022
<1>6. ASSUME NodeReboots PROVE RecoverInv'
  <2>1. /\ kept'.taken = kept.taken /\ kept'.stored = kept.stored
    BY <1>6, KeptTyped DEF NodeReboots, RollBackEnds, Snapshots2022
  <2>2. /\ manager' = AtMainMenu /\ operation' = NoOperation /\ UNCHANGED <<stored, unsettled>>
    BY <1>6 DEF NodeReboots, told2022
  <2>3. Phases(operation)'
    BY <2>2 DEF Phases, NoOperation
  <2> QED
    BY <2>1, <2>2, <2>3 DEF NoOperation, AtMainMenu, RecoverInv, WaitsForItsOwn,
       PlacesByKind, Settled, KeptWhole, OkHasBoth, PartCovered, Partial2022, Heard
<1>7. ASSUME InstallsList PROVE RecoverInv'
  <2>1. /\ operation'.kind = operation.kind /\ operation'.waits = operation.waits
        /\ operation.kind \in {"allow", "remove"}
    BY <1>7 DEF InstallsList, Changes, SsTypeOK, Operations
  <2> QED
    BY <1>7, <2>1, RecoverOn DEF InstallsList
<1>8. ASSUME RefusesChange PROVE RecoverInv'
  BY <1>8, AnsweredTo, RecoverEnd DEF RefusesChange, Changes, service2022, told2022
<1>9. ASSUME StartsHelper PROVE RecoverInv'
  <2>1. /\ operation'.kind = operation.kind /\ operation'.waits = operation.waits
        /\ operation.pc \notin {"begin", "meta"}
    BY <1>9, GoneOn DEF StartsHelper
  <2> QED
    BY <1>9, <2>1, RecoverOn DEF StartsHelper, told2022
<1>10. ASSUME HelperDone PROVE RecoverInv'
  <2>1. /\ operation'.kind = operation.kind /\ operation'.waits = operation.waits
        /\ operation.pc \notin {"begin", "meta"}
    BY <1>10, GoneOn DEF HelperDone
  <2> QED
    BY <1>10, <2>1, RecoverOn DEF HelperDone, service2022, told2022
<1>11. ASSUME Verifies PROVE RecoverInv'
  <2>1. /\ operation'.kind = operation.kind /\ operation'.waits = operation.waits
        /\ operation.pc \notin {"begin", "meta"}
    BY <1>11, GoneOn DEF Verifies
  <2> QED
    BY <1>11, <2>1, RecoverOn DEF Verifies, service2022, told2022
<1>12. ASSUME UndoesChange PROVE RecoverInv'
  <2>1. /\ operation'.kind = operation.kind /\ operation'.waits = operation.waits
        /\ operation.pc \notin {"begin", "meta"}
    BY <1>12, GoneOn DEF UndoesChange, ApplyFailed
  <2> QED
    BY <1>12, <2>1, RecoverOn DEF UndoesChange, told2022
<1>13. ASSUME ChangeUndone PROVE RecoverInv'
  BY <1>13, AnsweredTo, RecoverEnd DEF ChangeUndone, service2022, told2022
<1>14. ASSUME WritesHandoff PROVE RecoverInv'
  <2>1. operation.pc = "handoff" /\ UNCHANGED <<stored, kept>>
    BY <1>14 DEF WritesHandoff, service2022
  <2>2. ~unsettled /\ operation.kind = "ensure" => stored = StoredFiles
    BY <2>1 DEF RecoverInv, Settled, Phases
  <2>3. CASE Reports("ok") /\ unsettled' = (unsettled /\ ~SetUpWhole)
    <3>1. CASE SetUpWhole
      BY <2>1, <2>3, <3>1, RecoverSettled DEF SetUpWhole, Partial2022
    <3>2. CASE ~SetUpWhole
      <4>1. unsettled' = unsettled
        BY <2>3, <3>2 DEF SsTypeOK
      <4> QED
        BY <2>1, <2>2, <2>3, <4>1, AnsweredTo, RecoverEnd
    <3> QED
      BY <3>1, <3>2
  <2>4. CASE Reports("failed") /\ UNCHANGED told2022
    BY <2>1, <2>4, AnsweredTo, RecoverEnd DEF told2022
  <2> QED
    BY <1>14, <2>3, <2>4 DEF WritesHandoff
<1>15. ASSUME ReadsStatus PROVE RecoverInv'
  <2>1. /\ operation.kind \in {"status", "snapshot"}
        /\ UNCHANGED <<stored, kept, unsettled>>
    BY <1>15 DEF ReadsStatus, service2022, told2022
  <2>2. CASE \E a \in {"ok", "failed"} : Reports(a)
    BY <2>1, <2>2, AnsweredTo, RecoverEnd
  <2>3. CASE GoesOn("list") /\ UNCHANGED manager
    BY <2>1, <2>3, GoneOn, RecoverOn
  <2> QED
    BY <1>15, <2>2, <2>3 DEF ReadsStatus
<1>16. ASSUME ListsSources PROVE RecoverInv'
  <2>1. ~unsettled /\ operation.kind = "ensure" => stored = StoredFiles
    BY <1>16 DEF ListsSources, RecoverInv, Settled, Phases
  <2>2. CASE manager' = Entered("ok")
    <3>1. AtRest(manager') \/ HoldsAnswer(manager', "ok")
      BY <2>2 DEF Entered, AtMainMenu, AtRest, HoldsAnswer
    <3>2. operation.waits \/ manager' = manager
      BY <1>16 DEF ListsSources
    <3> QED
      BY <1>16, <2>1, <3>1, <3>2, RecoverEnd DEF ListsSources, service2022, told2022
  <2>3. CASE manager' = manager
    BY <1>16, <2>1, <2>3, RecoverEnd DEF ListsSources, service2022, told2022
  <2>4. CASE operation.waits /\ Hears2022("lost")
    BY <1>16, <2>1, <2>4, Hears, RecoverEnd DEF ListsSources, service2022, told2022
  <2> QED
    BY <1>16, <2>2, <2>3, <2>4 DEF ListsSources
<1>17. ASSUME EnsureRefused PROVE RecoverInv'
  BY <1>17, AnsweredTo, RecoverEnd DEF EnsureRefused, service2022, told2022
<1>18. ASSUME GeneratesConfig PROVE RecoverInv'
  <2>1. /\ operation'.kind = operation.kind /\ operation'.waits = operation.waits
        /\ operation'.pc = "meta"
    BY <1>18, GoneOn DEF GeneratesConfig
  <2>2. /\ UNCHANGED <<kept, unsettled, manager>> /\ stored' = stored \cup {"config"}
        /\ operation.kind = "ensure" /\ stored \in {{}, StoredFiles}
    BY <1>18 DEF GeneratesConfig, RunsAt, Partial2022, told2022
  <2>3. Phases(operation) => Phases(operation)'
    BY <2>1, <2>2 DEF Phases, StoredFiles
  <2>4. Phases(operation) /\ "meta" \notin stored => kept.taken
    BY <2>2 DEF Phases
  <2> QED
    BY <2>1, <2>2, <2>3, <2>4 DEF StoredFiles, RecoverInv, WaitsForItsOwn, PlacesByKind,
       Settled, KeptWhole, OkHasBoth, PartCovered, Partial2022, Heard
<1>19. ASSUME WritesMetadata PROVE RecoverInv'
  <2>1. /\ operation'.kind = operation.kind /\ operation'.waits = operation.waits
        /\ operation'.pc = "unit"
    BY <1>19, GoneOn DEF WritesMetadata
  <2>2. /\ UNCHANGED <<kept, unsettled, manager>>
        /\ operation.kind = "ensure" /\ stored' = StoredFiles
    BY <1>19 DEF WritesMetadata, RunsAt, StoredFiles, SsTypeOK, told2022
  <2>3. Phases(operation)'
    BY <2>1, <2>2 DEF Phases, StoredFiles
  <2> QED
    BY <2>1, <2>2, <2>3 DEF RecoverInv, WaitsForItsOwn, PlacesByKind, Settled, KeptWhole,
       OkHasBoth, PartCovered, Partial2022, Heard
<1>20. ASSUME EnablesService PROVE RecoverInv'
  <2>1. /\ operation'.kind = operation.kind /\ operation'.waits = operation.waits
        /\ operation.pc \notin {"begin", "meta"}
    BY <1>20, GoneOn DEF EnablesService, RunsAt
  <2> QED
    BY <1>20, <2>1, RecoverOn DEF EnablesService, told2022
<1>21. ASSUME EnsureFails PROVE RecoverInv'
  BY <1>21, AnsweredTo, RecoverEnd DEF EnsureFails, service2022, told2022
<1>22. ASSUME StopsService PROVE RecoverInv'
  <2>1. /\ operation'.kind = operation.kind /\ operation'.waits = operation.waits
    BY <1>22, GoneOn DEF StopsService
  <2>2. UNCHANGED <<kept, manager>> /\ unsettled' = TRUE
    BY <1>22 DEF StopsService
  <2> QED
    BY <2>1, <2>2 DEF RecoverInv, WaitsForItsOwn, PlacesByKind, Settled
<1>23. ASSUME RemovesFile PROVE RecoverInv'
  <2>1. unsettled
    BY <1>23 DEF RemovesFile, RunsAt, RecoverInv, Settled, Phases
  <2>2. UNCHANGED <<kept, manager, operation, unsettled>>
    BY <1>23 DEF RemovesFile, told2022
  <2> QED
    BY <2>1, <2>2 DEF RecoverInv, WaitsForItsOwn, PlacesByKind, Settled
<1>24. ASSUME Purged PROVE RecoverInv'
  <2>1. /\ Reports("ok") /\ UNCHANGED <<stored, kept>> /\ ~Partial2022
        /\ unsettled' = kept.taken /\ operation.kind = "purge" /\ operation.pc = "purge"
    BY <1>24 DEF Purged, RunsAt, Partial2022, service2022
  <2>2. unsettled = TRUE
    BY <2>1 DEF RecoverInv, Settled, Phases, SsTypeOK
  <2>3. CASE kept.taken
    BY <2>1, <2>2, <2>3, KeptTyped, AnsweredTo, RecoverEnd
  <2>4. CASE ~kept.taken
    BY <2>1, <2>4, RecoverSettled
  <2> QED
    BY <2>3, <2>4
<1>25. ASSUME OpenEntries PROVE RecoverInv'
  <2>1. operation.waits = FALSE
    BY <1>25, NobodyWaits DEF OpenEntries, Heard, AtMainMenu, PlacesByKind, RecoverInv
  <2> QED
    BY <1>25, <2>1, RecoverAsked DEF OpenEntries, Elsewhere, Requests, service2022,
       told2022
<1>26. ASSUME AddEntry PROVE RecoverInv'
  <2>1. operation.waits = FALSE
    BY <1>26, NobodyWaits DEF AddEntry, Heard, AtMainMenu, PlacesByKind, RecoverInv
  <2> QED
    BY <1>26, <2>1, RecoverAsked DEF AddEntry, Elsewhere, Requests, service2022,
       told2022
<1>27. ASSUME ListForRemoval PROVE RecoverInv'
  <2>1. operation.waits = FALSE
    BY <1>27, NobodyWaits DEF ListForRemoval, Heard, AtMainMenu, PlacesByKind, RecoverInv
  <2> QED
    BY <1>27, <2>1, RecoverAsked DEF ListForRemoval, Elsewhere, Requests,
       service2022, told2022
<1>28. ASSUME ChooseRemoval PROVE RecoverInv'
  <2>1. operation.waits = FALSE
    BY <1>28, NobodyWaits DEF ChooseRemoval, Heard
  <2>2. CASE Displays("entries")
    BY <1>28, <2>1, <2>2, RecoverLeft DEF ChooseRemoval, Displays, AtMainMenu, AtRest,
       Elsewhere, service2022, told2022
  <2>3. ASSUME NEW s \in Sources, Asks("remove", {s}, "change") PROVE RecoverInv'
    BY <1>28, <2>1, <2>3, RecoverAsked DEF ChooseRemoval, Elsewhere, Requests,
       service2022, told2022
  <2> QED
    BY <1>28, <2>2, <2>3 DEF ChooseRemoval
<1>29. ASSUME ChangeConfirmed PROVE RecoverInv'
  <2>1. operation.waits = FALSE
    BY <1>29, NobodyWaits DEF ChangeConfirmed, Heard, AtMainMenu, PlacesByKind, RecoverInv
  <2> QED
    BY <1>29, <2>1, RecoverAsked DEF ChangeConfirmed, Elsewhere, Requests,
       service2022, told2022
<1>30. ASSUME CloseEntries PROVE RecoverInv'
  <2>1. operation.waits = FALSE
    BY <1>30, NobodyWaits DEF CloseEntries, Heard, AtMainMenu, PlacesByKind,
       RecoverInv
  <2> QED
    BY <1>30, <2>1, RecoverLeft DEF CloseEntries, Leaves2022, AtMainMenu, AtRest,
       Elsewhere, service2022, told2022
<1>31. ASSUME OpenOneShot PROVE RecoverInv'
  <2>1. operation.waits = FALSE
    BY <1>31, NobodyWaits DEF OpenOneShot, Heard, AtMainMenu, PlacesByKind, RecoverInv
  <2> QED
    BY <1>31, <2>1, RecoverAsked DEF OpenOneShot, Elsewhere, Requests, service2022,
       told2022
<1>32. ASSUME AddObserved PROVE RecoverInv'
  <2>1. operation.waits = FALSE
    BY <1>32, NobodyWaits DEF AddObserved, Heard
  <2>2. CASE Leaves2022 /\ UNCHANGED operation
    BY <1>32, <2>1, <2>2, RecoverLeft DEF AddObserved, Leaves2022, AtMainMenu, AtRest,
       Elsewhere,
       service2022, told2022
  <2>3. ASSUME NEW s \in Sources, Asks("allow", {s}, "observed") PROVE RecoverInv'
    BY <1>32, <2>1, <2>3, RecoverAsked DEF AddObserved, Elsewhere, Requests, service2022,
       told2022
  <2> QED
    BY <1>32, <2>2, <2>3 DEF AddObserved
<1>33. ASSUME Repair PROVE RecoverInv'
  <2>1. operation.waits = FALSE
    BY <1>33, NobodyWaits DEF Repair, Heard, AtMainMenu, PlacesByKind, RecoverInv
  <2> QED
    BY <1>33, <2>1, RecoverAsked DEF Repair, Elsewhere, Requests, service2022,
       told2022
<1>34. ASSUME Dismantle2022 PROVE RecoverInv'
  <2>1. operation.waits = FALSE
    BY <1>34, NobodyWaits DEF Dismantle2022, Heard, AtMainMenu, PlacesByKind, RecoverInv
  <2> QED
    BY <1>34, <2>1, RecoverAsked DEF Dismantle2022, Elsewhere, Requests,
       service2022, told2022
<1>35. ASSUME Resends PROVE RecoverInv'
  <2>1. operation.waits = FALSE /\ UNCHANGED <<stored, kept, unsettled>>
    BY <1>35, NobodyWaits DEF Resends, Elsewhere, service2022, told2022
  <2>2. CASE Leaves2022 /\ UNCHANGED operation
    BY <2>1, <2>2, RecoverLeft DEF Leaves2022, AtMainMenu, AtRest
  <2>3. CASE /\ ~(manager.pc = "repair" /\ "meta" \notin stored)
             /\ Asks(manager.kind, manager.source, manager.pc)
    <3>1. manager.kind \in Requests
      BY DEF SsTypeOK, Managers, Requests
    <3>2. /\ manager.pc \notin {"begun", "entries"} /\ manager.kind # "none"
          /\ manager.pc \in {"repair", "construct"} <=> manager.kind = "ensure"
          /\ manager.pc = "construct" => kept.taken /\ kept.stage = "held"
      BY <1>35 DEF Resends, RecoverInv, PlacesByKind
    <3> QED
      BY <2>1, <2>3, <3>1, <3>2, RecoverAsked
  <2> QED
    BY <1>35, <2>2, <2>3 DEF Resends
<1>36. ASSUME GivesUpWaiting PROVE RecoverInv'
  <2>1. /\ operation'.kind = operation.kind /\ operation'.waits = FALSE
        /\ operation'.pc = operation.pc
    BY <1>36 DEF GivesUpWaiting, SsTypeOK, Operations
  <2>2. /\ UNCHANGED <<stored, kept, unsettled>>
        /\ AtRest(manager') \/ HoldsAnswer(manager', "failed")
    BY <1>36, Hears DEF GivesUpWaiting, Elsewhere, service2022, told2022
  <2>3. CASE AtRest(manager')
    BY <2>1, <2>2, <2>3, RecoverLeft
  <2>4. CASE HoldsAnswer(manager', "failed")
    <3>1. Phases(operation) => Phases(operation)'
      BY <2>1, <2>2 DEF Phases
    <3> QED
      BY <1>36, <2>1, <2>2, <2>4, <3>1 DEF GivesUpWaiting, HoldsAnswer, RecoverInv,
         WaitsForItsOwn,
         PlacesByKind, Settled, KeptWhole, OkHasBoth, PartCovered, Partial2022, Heard
  <2> QED
    BY <2>2, <2>3, <2>4
<1>37. ASSUME SomebodyElse PROVE RecoverInv'
  <2>1. operation'.kind \in {"allow", "remove"} /\ operation'.waits = FALSE
    BY <1>37 DEF SomebodyElse, Begins, Changes
  <2>2. UNCHANGED <<stored, kept, unsettled, manager>>
    BY <1>37 DEF SomebodyElse, Elsewhere, service2022, told2022
  <2>3. Phases(operation)'
    BY <2>1 DEF Phases
  <2> QED
    BY <2>1, <2>2, <2>3 DEF RecoverInv, WaitsForItsOwn, PlacesByKind, Settled, KeptWhole,
       OkHasBoth, PartCovered, Partial2022, Heard
<1>38. ASSUME WizardLeftBehind PROVE RecoverInv'
  <2>1. operation'.waits = FALSE /\ unsettled' = TRUE /\ UNCHANGED <<kept, manager>>
    BY <1>38 DEF WizardLeftBehind, Begins
  <2> QED
    BY <2>1 DEF RecoverInv, WaitsForItsOwn, PlacesByKind, Settled
<1>39. ASSUME ScriptCut PROVE RecoverInv'
  <2>1. operation' = NoOperation /\ UNCHANGED <<stored, kept, unsettled>>
    BY <1>39 DEF ScriptCut, Elsewhere, service2022, told2022
  <2>2. \/ manager' = manager
        \/ AtRest(manager')
        \/ operation.waits /\ HoldsAnswer(manager', "failed")
    <3>1. CASE operation.waits
      BY <1>39, <3>1, Hears DEF ScriptCut
    <3>2. CASE ~operation.waits
      BY <1>39, <3>2 DEF ScriptCut
    <3> QED
      BY <3>1, <3>2
  <2> QED
    BY <2>1, <2>2, RecoverEnd
<1>40. ASSUME StartConstruction2022 PROVE RecoverInv'
  <2>1. /\ manager'.pc = "begun" /\ manager'.kind = "none" /\ manager'.answer = "none"
        /\ UNCHANGED <<stored, operation>> /\ ~kept.taken /\ operation.waits = FALSE
    BY <1>40, NobodyWaits DEF StartConstruction2022, Displays, AtMainMenu, service2022
  <2>2. kept'.taken = TRUE /\ kept'.stage = "held" /\ kept'.stored = stored
    BY <1>40 DEF StartConstruction2022, KeptNow
  <2>3. ~unsettled' => ~unsettled
    BY <1>40 DEF StartConstruction2022
  <2>4. Phases(operation) => Phases(operation)'
    BY <2>1, <2>2 DEF Phases
  <2> QED
    BY <2>1, <2>2, <2>3, <2>4 DEF RecoverInv, WaitsForItsOwn, PlacesByKind, Settled,
       KeptWhole, OkHasBoth, PartCovered, Partial2022, Heard
<1>41. ASSUME SetsUp2022 PROVE RecoverInv'
  <2>1. operation.waits = FALSE /\ kept.taken /\ kept.stage = "held"
    BY <1>41, NobodyWaits DEF SetsUp2022, PlacesByKind, RecoverInv
  <2> QED
    BY <1>41, <2>1, RecoverAsked DEF SetsUp2022, Elsewhere, Requests, service2022,
       told2022
<1>42. ASSUME CommitConstruction2022 PROVE RecoverInv'
  <2>1. /\ manager' = AtMainMenu /\ UNCHANGED <<stored, operation>> /\ kept'.taken = FALSE
        /\ operation.waits = FALSE /\ Heard("construct", "ok")
    BY <1>42, NobodyWaits DEF CommitConstruction2022, Leaves2022, NothingKept, Heard,
       service2022
  <2>2. ~unsettled' => stored = StoredFiles
    BY <1>42, <2>1 DEF CommitConstruction2022, RecoverInv, Settled, OkHasBoth
  <2>3. ~unsettled' => Phases(operation)'
    <3>1. CASE ~unsettled
      BY <2>1, <2>2, <3>1 DEF RecoverInv, Settled, OkHasBoth, Phases, StoredFiles
    <3>2. CASE operation = NoOperation
      BY <2>1, <3>2 DEF Phases, NoOperation
    <3> QED
      BY <1>42, <3>1, <3>2 DEF CommitConstruction2022
  <2> QED
    BY <2>1, <2>2, <2>3 DEF AtMainMenu, RecoverInv, WaitsForItsOwn, PlacesByKind, Settled,
       KeptWhole, OkHasBoth, PartCovered, Partial2022, Heard
<1>43. ASSUME RollBackStops2022 PROVE RecoverInv'
  <2>1. operation.waits = FALSE
    <3>1. manager = AtMainMenu \/ manager.pc = "begun" \/ manager.answer # "none"
      BY <1>43 DEF RollBackStops2022
    <3>2. manager.kind = "none" \/ manager.answer # "none"
      BY <3>1 DEF AtMainMenu, RecoverInv, PlacesByKind
    <3> QED
      BY <3>2, NobodyWaits
  <2>2. kept'.taken = kept.taken /\ kept'.stored = kept.stored
    BY <1>43, KeptTyped DEF RollBackStops2022, Snapshots2022
  <2>3. manager' = AtMainMenu /\ UNCHANGED <<stored, operation, unsettled>>
    BY <1>43 DEF RollBackStops2022, told2022
  <2>4. Phases(operation) => Phases(operation)'
    BY <2>2, <2>3 DEF Phases
  <2> QED
    BY <2>1, <2>2, <2>3, <2>4 DEF AtMainMenu, RecoverInv, WaitsForItsOwn, PlacesByKind,
       Settled, KeptWhole, OkHasBoth, PartCovered, Partial2022, Heard
<1>44. ASSUME RollBackRestores2022 PROVE RecoverInv'
  <2>1. /\ operation'.pc = operation.pc /\ operation'.kind = operation.kind
        /\ operation'.waits = operation.waits
    BY <1>44 DEF RollBackRestores2022, SsTypeOK, Operations
  <2>2. /\ kept.taken /\ kept.stage = "stopped" /\ stored' = kept.stored
        /\ UNCHANGED manager
        /\ kept'.taken = FALSE \/ kept'.stored = kept.stored
    BY <1>44, KeptTyped DEF RollBackRestores2022, RestoresFiles2022, RollBackEnds,
       NothingKept, Snapshots2022
  <2>3. ~unsettled' => ~unsettled /\ operation.kind \notin {"ensure", "purge"}
    BY <1>44 DEF RollBackRestores2022, WritesBeside
  <2>4. manager.pc \notin {"begun", "construct"}
    BY <2>2 DEF RecoverInv, PlacesByKind
  <2>5. ~unsettled' => Phases(operation)'
    BY <2>1, <2>3 DEF Phases
  <2> QED
    BY <2>1, <2>2, <2>3, <2>4, <2>5 DEF RecoverInv, WaitsForItsOwn, PlacesByKind, Settled,
       KeptWhole, OkHasBoth, PartCovered, Partial2022, Heard
<1>45. ASSUME RollBackCut2022 PROVE RecoverInv'
  <2>1. kept'.taken = kept.taken /\ kept'.stored = kept.stored /\ kept'.stage = "held"
    BY <1>45, KeptTyped DEF RollBackCut2022, RollBackEnds, Snapshots2022
  <2>2. UNCHANGED <<stored, operation, manager, unsettled>>
    BY <1>45 DEF RollBackCut2022, service2022, told2022
  <2>3. Phases(operation) => Phases(operation)'
    BY <2>1, <2>2 DEF Phases
  <2> QED
    BY <2>1, <2>2, <2>3 DEF RecoverInv, WaitsForItsOwn, PlacesByKind, Settled, KeptWhole,
       OkHasBoth, PartCovered, Partial2022, Heard
<1>46. ASSUME ProgramKilled2022 PROVE RecoverInv'
  <2>1. /\ operation'.kind = operation.kind /\ operation'.waits = FALSE
        /\ operation'.pc = operation.pc
    BY <1>46 DEF ProgramKilled2022, SsTypeOK, Operations
  <2> QED
    BY <1>46, <2>1, RecoverLeft DEF ProgramKilled2022, AtMainMenu, AtRest, Elsewhere,
       service2022,
       told2022
<1> QED
  BY <1>1, <1>2, <1>3, <1>4, <1>5, <1>6, <1>7, <1>8, <1>9, <1>10, <1>11, <1>12, <1>13,
     <1>14, <1>15, <1>16, <1>17, <1>18, <1>19, <1>20, <1>21, <1>22, <1>23, <1>24, <1>25,
     <1>26, <1>27, <1>28, <1>29, <1>30, <1>31, <1>32, <1>33, <1>34,
     <1>35, <1>36, <1>37, <1>38, <1>39, <1>40, <1>41, <1>42, <1>43, <1>44,
     <1>45, <1>46 DEF SsNext

LEMMA RecoverStart == SsInit => RecoverInv
  BY DEF SsInit, NoOperation, AtMainMenu, NothingKept, RecoverInv, WaitsForItsOwn,
     PlacesByKind, Settled, Phases, KeptWhole, OkHasBoth, PartCovered, Partial2022, Heard

\* ensure_service and purge_service write and remove two files one after the
\* other: wherever either is cut, and whatever is repeated, rolled back or run by
\* another program, one file without the other is left only where the snapshot of
\* a construction is still to be restored, a removal is still to be repeated, or
\* a set-up or removal ran beside the snapshot, the rollback or the program.
THEOREM PartsRecoverable == SsSpec => []PartialIsRecoverable
<1>1. SsInit => RecoverInv
  BY RecoverStart
<1>2. SsTypeOK /\ RecoverInv /\ [SsNext]_ssVars => RecoverInv'
  <2>1. SsTypeOK /\ RecoverInv /\ SsNext => RecoverInv'
    BY RecoverStep
  <2>2. RecoverInv /\ UNCHANGED ssVars => RecoverInv'
    BY DEF ssVars, RecoverInv, WaitsForItsOwn, PlacesByKind, Settled, Phases, KeptWhole,
       OkHasBoth, PartCovered, Partial2022, Heard
  <2> QED
    BY <2>1, <2>2
<1>3. RecoverInv => PartialIsRecoverable
  BY DEF RecoverInv, Settled, PartCovered, PartialIsRecoverable
<1> QED
  BY <1>1, <1>2, <1>3, SsTypeCorrect, PTL DEF SsSpec

-----------------------------------------------------------------------------
(* The run of MCNode.                                                      *)

\* MCNode: with one part running at a time, every part behaves as its own
\* specification says, so that what is proved of a part holds of the whole.
THEOREM NodeRunsParts == MCSpec => HSpec /\ LifecycleSpec /\ SsSpec
<1> USE DEF MCInit, MCNext, TransactionPart, NodePart, Ss2022Part
<1> DEFINE all == <<part, hvars, lifecycleVars, ssVars>>
<1>1. MCInit => HInit /\ LifecycleInit /\ SsInit
  OBVIOUS
<1>2. [MCNext]_all => [HNext]_hvars
  OBVIOUS
<1>3. [MCNext]_all => [LifecycleNext]_lifecycleVars
  OBVIOUS
<1>4. [MCNext]_all => [SsNext]_ssVars
  OBVIOUS
<1> QED
  BY <1>1, <1>2, <1>3, <1>4, PTL DEF MCSpec, HSpec, LifecycleSpec, SsSpec

\* Transaction, toolkit and service keep their types side by side.
THEOREM NodeTypeCorrect == MCSpec => []NodeTypeOK
<1>1. HTypeOK /\ LTypeOK /\ SsTypeOK => NodeTypeOK
  BY DEF NodeTypeOK
<1> QED
  BY <1>1, NodeRunsParts, TypeCorrect, LifecycleTypeCorrect, SsTypeCorrect, PTL
=============================================================================
