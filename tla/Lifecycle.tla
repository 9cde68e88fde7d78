----------------------------- MODULE Lifecycle -----------------------------
(***************************************************************************)
(* The life of a node under one operator: the toolkit that menu [1]        *)
(* uploads and replaces, the baseline it captures before the first         *)
(* construction, the construction itself with its transaction, menu [13]   *)
(* which removes the toolkit, and menu [18] which dismantles the node      *)
(* (operations.go, remote.go, parsers.go, 22-dismantle-managed-node.sh).   *)
(*                                                                         *)
(* The connection, and the remote script with it, may go between any two   *)
(* steps.  The install transaction is one step per operation, as           *)
(* AtomicConstruction allows.                                              *)
(***************************************************************************)
EXTENDS Naturals

CONSTANTS
  MaxBuild,    \* builds of version 1.0.0 that programs carry: 1..MaxBuild
  NumManaged,  \* managed_paths, restored in order; the last holds the transaction
  Erased,      \* those that dismantling erases and does not only clean
  Packages     \* owned_packages

ASSUME LifecycleAssumption ==
  MaxBuild \in Nat /\ NumManaged \in Nat \ {0} /\ Erased \subseteq 1..NumManaged

VARIABLES
  toolkit,     \* content of the install directory: build (0 if not written), complete
  link,        \* where the links lead: "none", "old", "new"
  uploaded,    \* build of the archive in /tmp, 0 if none
  image,       \* the node: managed paths, packages, traces of a managed node
  baseline,    \* ledger and files of the original baseline
  unfinished,  \* the snapshot of the install transaction, or NoSnapshot
  visit,       \* what the local program is doing
  original,    \* history: the node before it was managed
  lastBuild    \* history: the program that wrote the toolkit last

lifecycleVars == <<toolkit, link, uploaded, image, baseline, unfinished, visit,
                   original, lastBuild>>
program == <<toolkit, link, uploaded, lastBuild>>

Builds == 1..MaxBuild
ManagedPaths == 1..NumManaged
Contents == {"absent", "original", "changed"}
NoToolkit == [build |-> 0, complete |-> FALSE, present |-> FALSE]
NoSnapshot == [taken |-> FALSE]
Away == [pc |-> "menu", build |-> 0, goal |-> "none", at |-> 0]
GoesTo(pc) == visit' = [visit EXCEPT !.pc = pc]
Visit(pc, b, goal) == visit' = [pc |-> pc, build |-> b, goal |-> goal, at |-> 1]
Leaves == visit' = Away

-----------------------------------------------------------------------------
(* The probe and what a program of build b makes of it.                    *)

Missing == link = "none" \/ (link = "new" /\ ~toolkit.present)
Older == link = "old"
SameVersion == link = "new" /\ toolkit.present
Usable(b) == SameVersion /\ toolkit.complete /\ toolkit.build = b

\* sameVersionIncompleteRepairAllowed: build 0 was cut before its metadata.
RepairMarked(b) == 0 < toolkit.build /\ toolkit.build <= b
RepairAllowed(b) == ~toolkit.complete /\ toolkit.build <= b
OlderBuild(b) == toolkit.complete /\ toolkit.build < b
ToolkitOnly(b) == SameVersion /\ (RepairAllowed(b) \/ OlderBuild(b))
Accepts(b) == Missing \/ Older \/ ToolkitOnly(b) \/ Usable(b)

-----------------------------------------------------------------------------
(* Menu [1]: the toolkit.                                                  *)

Menu1(b) ==
  /\ visit = Away /\ Accepts(b)
  /\ IF ToolkitOnly(b) THEN Visit("recover", b, "toolkit")
     ELSE Visit(IF Usable(b) THEN "recover" ELSE "scp", b, "construct")
  /\ UNCHANGED <<program, image, baseline, unfinished, original>>

UploadArchive ==
  /\ visit.pc = "scp" /\ uploaded' = visit.build /\ GoesTo("clear")
  /\ UNCHANGED <<toolkit, link, lastBuild, image, baseline, unfinished, original>>

ClearToolkit ==
  /\ visit.pc = "clear"
  /\ toolkit' = NoToolkit /\ lastBuild' = visit.build /\ GoesTo("extract")
  /\ UNCHANGED <<link, uploaded, image, baseline, unfinished, original>>

\* tar may stop anywhere, its status is ignored, and bootstrap runs if its
\* script has arrived.
Extracted(b) ==
  {[build |-> b, complete |-> c, present |-> TRUE] : c \in BOOLEAN}
  \cup {[build |-> 0, complete |-> FALSE, present |-> p] : p \in BOOLEAN}
ExtractToolkit ==
  /\ visit.pc = "extract" /\ toolkit' \in Extracted(uploaded)
  /\ GoesTo("bootstrap")
  /\ UNCHANGED <<link, uploaded, lastBuild, image, baseline, unfinished, original>>

Bootstrap ==
  /\ visit.pc = "bootstrap" /\ link' = "new" /\ GoesTo("probe")
  /\ UNCHANGED <<toolkit, uploaded, lastBuild, image, baseline, unfinished, original>>

\* The probe again, then the removal of older copies and of the archive.
ToolkitInstalled ==
  /\ visit.pc = "probe" /\ Usable(visit.build)
  /\ uploaded' = 0
  /\ IF visit.goal = "toolkit" THEN Leaves ELSE GoesTo("recover")
  /\ UNCHANGED <<toolkit, link, lastBuild, image, baseline, unfinished, original>>

-----------------------------------------------------------------------------
(* Menu [1]: recovery, baseline, construction.                             *)

SnapshotNow == [taken |-> TRUE, paths |-> image.paths, traces |-> image.traces,
                baseline |-> baseline]
RolledBackTo(s) ==
  /\ image' = [image EXCEPT !.paths = s.paths, !.traces = s.traces]
  /\ baseline' = s.baseline

\* A toolkit without the script answers like a node without a transaction.
SeesUnfinished == {unfinished} \cup (IF Usable(visit.build) THEN {} ELSE {NoSnapshot})
AfterRecovery == IF visit.goal = "toolkit" THEN "scp" ELSE "capture"

NothingToRecover ==
  /\ visit.pc = "recover" /\ NoSnapshot \in SeesUnfinished
  /\ GoesTo(AfterRecovery)
  /\ UNCHANGED <<program, image, baseline, unfinished, original>>

RecoverConstruction ==
  /\ visit.pc = "recover" /\ unfinished.taken
  /\ RolledBackTo(unfinished) /\ unfinished' = NoSnapshot
  /\ GoesTo(AfterRecovery)
  /\ UNCHANGED <<program, original>>

NotCapturedEver == TRUE
NotCaptured == baseline.ledger = "none"
AlreadyCaptured ==
  /\ visit.pc = "capture" /\ baseline.ledger \in {"exact", "legacy"}
  /\ GoesTo("begin")
  /\ UNCHANGED <<program, image, baseline, unfinished, original>>

\* The ledger is the last file written; a capture without one starts again.
CaptureFiles ==
  /\ visit.pc = "capture" /\ NotCaptured
  /\ baseline' = [baseline EXCEPT !.files =
       IF image.traces THEN [p \in ManagedPaths |-> "absent"] ELSE image.paths]
  /\ GoesTo("ledger")
  /\ UNCHANGED <<program, image, unfinished, original>>

\* The file appears empty before it is written: it may be left malformed.
WriteLedger ==
  /\ visit.pc = "ledger"
  /\ \/ /\ baseline' = [baseline EXCEPT
             !.ledger = IF image.traces THEN "legacy" ELSE "exact",
             !.packages = image.packages]
        /\ GoesTo("begin")
     \/ baseline' = [baseline EXCEPT !.ledger = "malformed"] /\ Leaves
  /\ UNCHANGED <<program, image, unfinished, original>>

BeginsConstruction ==
  /\ visit.pc = "begin" /\ ~unfinished.taken
  /\ unfinished' = SnapshotNow /\ GoesTo("construct")
  /\ UNCHANGED <<program, image, baseline, original>>

Constructs ==
  /\ visit.pc = "construct"
  /\ \/ \E p \in ManagedPaths : image' = [image EXCEPT !.paths[p] = "changed"]
     \/ \E k \in Packages : image' = [image EXCEPT !.packages = @ \cup {k}]
     \/ image' = [image EXCEPT !.traces = TRUE]
  /\ UNCHANGED <<program, baseline, unfinished, visit, original>>

ConstructionCommitted ==
  /\ visit.pc = "construct" /\ image.traces
  /\ unfinished' = NoSnapshot /\ Leaves
  /\ UNCHANGED <<program, image, baseline, original>>

ConstructionUndone ==
  /\ visit.pc = "construct"
  /\ RolledBackTo(unfinished) /\ unfinished' = NoSnapshot /\ Leaves
  /\ UNCHANGED <<program, original>>

-----------------------------------------------------------------------------
(* Menu [13]: links and launchers first, then directories and archives.    *)

UninstallLinks ==
  /\ visit = Away /\ link' = "none" /\ Visit("uninstall", 0, "none")
  /\ UNCHANGED <<toolkit, uploaded, lastBuild, image, baseline, unfinished, original>>

UninstallDirectories ==
  /\ visit.pc = "uninstall" /\ toolkit' = NoToolkit /\ uploaded' = 0 /\ Leaves
  /\ UNCHANGED <<link, lastBuild, image, baseline, unfinished, original>>

-----------------------------------------------------------------------------
(* Menu [18]: plan and confirmation, rescue archive, execution, check.     *)

Grade == IF baseline.ledger = "none" THEN "legacy" ELSE baseline.ledger

PlanDismantle(b) ==
  /\ visit = Away /\ Usable(b) /\ baseline.ledger # "malformed"
  /\ Visit("rescue", b, Grade)
  /\ UNCHANGED <<program, image, baseline, unfinished, original>>

\* Backup, download and comparison of the checksums; the node is untouched.
RescueDownloaded ==
  /\ visit.pc = "rescue" /\ GoesTo("remove")
  /\ UNCHANGED <<program, image, baseline, unfinished, original>>

\* A dismantling that is not exact gives the original up, with the consent of
\* the operator: from then on what it leaves is the original.
OriginalKept == original' = IF visit.goal = "exact" THEN original ELSE image'

RemoveStack ==
  /\ visit.pc = "remove"
  /\ image' = [image EXCEPT !.paths =
       [p \in ManagedPaths |-> IF p \in Erased THEN "absent" ELSE @[p]]]
  /\ OriginalKept /\ GoesTo("purge")
  /\ UNCHANGED <<program, baseline, unfinished>>

\* Exactly the packages that the ledger does not list, or all of them.
KeepAny == Packages
Kept == IF visit.goal = "exact" THEN baseline.packages ELSE {}
PurgePackages ==
  /\ visit.pc = "purge"
  /\ image' = [image EXCEPT !.packages = @ \cap Kept]
  /\ OriginalKept /\ GoesTo(IF visit.goal = "exact" THEN "restore" ELSE "data")
  /\ UNCHANGED <<program, baseline, unfinished>>

\* Restoring the last path takes the transaction back to before it existed.
RestoreManaged ==
  /\ visit.pc = "restore"
  /\ image' = [image EXCEPT !.paths[visit.at] = baseline.files[visit.at]]
  /\ IF visit.at = NumManaged
     THEN unfinished' = NoSnapshot /\ GoesTo("data")
     ELSE visit' = [visit EXCEPT !.at = @ + 1] /\ UNCHANGED unfinished
  /\ UNCHANGED <<program, baseline, original>>

\* Two of the three links go, the one of this product and its directory stay.
RemoveToolData ==
  /\ visit.pc = "data"
  /\ unfinished' = IF visit.goal = "exact" THEN unfinished ELSE NoSnapshot
  /\ image' = IF visit.goal = "exact" THEN image
              ELSE [image EXCEPT !.paths[NumManaged] = "absent"]
  /\ OriginalKept /\ GoesTo("traces")
  /\ UNCHANGED <<program, baseline>>

RemoveTraces ==
  /\ visit.pc = "traces"
  /\ image' = [image EXCEPT !.traces = FALSE]
  /\ OriginalKept /\ GoesTo("baseline")
  /\ UNCHANGED <<program, baseline, unfinished>>

RemoveBaseline ==
  /\ visit.pc = "baseline"
  /\ baseline' = [baseline EXCEPT !.ledger = "none"] /\ GoesTo("verify")
  /\ UNCHANGED <<program, image, unfinished, original>>

\* operations.go:629, from the outside.
VerifyHolds == link # "new" /\ ~image.traces /\ baseline.ledger = "none"
DismantleReported ==
  /\ visit.pc = "verify" /\ Leaves
  /\ UNCHANGED <<program, image, baseline, unfinished, original>>

-----------------------------------------------------------------------------
\* A step fails, the connection is lost, or the operator declines.
Breaks ==
  /\ visit # Away /\ Leaves
  /\ UNCHANGED <<program, image, baseline, unfinished, original>>

\* A blank VPS, perhaps with packages and paths of its owner, or a node that
\* an older release built and left without a baseline.
LifecycleInit ==
  /\ \E own \in {"absent", "original"}, ps \in {{}, Packages} :
       \/ /\ link = "none"
          /\ image = [paths |-> [p \in ManagedPaths |-> IF p = NumManaged THEN "absent" ELSE own],
                      packages |-> ps, traces |-> FALSE]
       \/ /\ link = "old"
          /\ image = [paths |-> [p \in ManagedPaths |-> "changed"],
                      packages |-> ps, traces |-> TRUE]
  /\ toolkit = NoToolkit /\ uploaded = 0 /\ lastBuild = 0
  /\ baseline = [ledger |-> "none", packages |-> {},
                 files |-> [p \in ManagedPaths |-> "absent"]]
  /\ unfinished = NoSnapshot /\ visit = Away /\ original = image

LifecycleNext ==
  \/ \E b \in Builds : Menu1(b) \/ PlanDismantle(b)
  \/ UploadArchive \/ ClearToolkit \/ ExtractToolkit \/ Bootstrap \/ ToolkitInstalled
  \/ NothingToRecover \/ RecoverConstruction
  \/ AlreadyCaptured \/ CaptureFiles \/ WriteLedger
  \/ BeginsConstruction \/ Constructs \/ ConstructionCommitted \/ ConstructionUndone
  \/ UninstallLinks \/ UninstallDirectories
  \/ RescueDownloaded \/ RemoveStack \/ PurgePackages \/ RestoreManaged
  \/ RemoveToolData \/ RemoveTraces \/ RemoveBaseline \/ DismantleReported
  \/ Breaks

LifecycleSpec == LifecycleInit /\ [][LifecycleNext]_lifecycleVars

-----------------------------------------------------------------------------
\* Type invariant.
LTypeOK ==
  /\ toolkit.build \in 0..MaxBuild /\ (toolkit.complete => toolkit.build > 0)
  /\ link \in {"none", "old", "new"} /\ uploaded \in 0..MaxBuild
  /\ image.paths \in [ManagedPaths -> Contents] /\ image.packages \subseteq Packages
  /\ baseline.ledger \in {"none", "malformed", "exact", "legacy"}
  /\ baseline.files \in [ManagedPaths -> Contents]
  /\ lastBuild \in 0..MaxBuild

\* An exact ledger always speaks of the node before it was ever managed: no
\* interrupted construction, recovery, rollback, dismantling or replacement of
\* the toolkit lets a later capture take a managed node for the original.
BaselineIsOriginal ==
  baseline.ledger = "exact" =>
    baseline.files = original.paths /\ baseline.packages = original.packages

\* An exact dismantling that reaches its end leaves the original node, however
\* many dismantlings and constructions were cut short before it.
DismantledIsOriginal ==
  visit.pc = "verify" /\ visit.goal = "exact" =>
    image = original /\ ~unfinished.taken

\* Nothing that was interrupted locks out the program that did it: menu [1] of
\* the same build always accepts the node again.
RepairAlwaysOpen ==
  visit = Away /\ lastBuild > 0 => Accepts(lastBuild)

\* README.md:135 and operations.go:629: menu [18] also removes the toolkit,
\* and a dismantling that ends passes the independent check.
DismantleVerifies ==
  visit.pc = "verify" => VerifyHolds
=============================================================================
