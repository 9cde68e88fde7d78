---------------------------- MODULE Construction ----------------------------
(***************************************************************************)
(* A whole run of menu [1]: the route transaction of RouteSession inside   *)
(* the install transaction.  The install transaction is taken as one step  *)
(* per operation here, which InstallHelper details: its snapshot of the    *)
(* files includes the directory of a pending route transaction and the     *)
(* rule files of ufw, but not the rules in force in the kernel.            *)
(*                                                                         *)
(* What the wizard writes before the route changes is restored with the    *)
(* rest and is left out.                                                   *)
(*                                                                         *)
(* rules of RouteHelper are the rule files, which ufw status shows and the *)
(* script counts; live are the rules in force.  A ufw command changes both.*)
(***************************************************************************)
EXTENDS RouteSession

VARIABLES
  menu,    \* where the run of menu [1] stands
  inst,    \* the install transaction: none, or the snapshot it holds
  live,    \* the rules in force
  said     \* what the operator was told last

cvars == <<svars, menu, inst, live, said>>

MenuPc == {"idle", "wizard", "route", "reconcile", "handoff", "undo"}
Said   == {"none", "committed", "rolledBack"}

Image == [node : [Paths -> Content], rules : Rules, txn : {"none", "open", "staged"},
          snap : [Paths -> Saved]]

CInit ==
  /\ SInit
  /\ menu = "idle"
  /\ inst = {}
  /\ live = rules
  /\ said = "none"

Run(from, to) == menu = from /\ menu' = to

-----------------------------------------------------------------------------
(* The install transaction                                                 *)

BeginConstructionAgain ==
  /\ Run("idle", "wizard")
  /\ inst' = inst \cup {[node |-> node, rules |-> rules, txn |-> txn, snap |-> snap]}
  /\ said' = "none"
  /\ UNCHANGED <<svars, live>>

BeginConstruction ==
  /\ Run("idle", "wizard")
  /\ inst = {}
  /\ inst' = {[node |-> node, rules |-> rules, txn |-> txn, snap |-> snap]}
  /\ said' = "none"
  /\ UNCHANGED <<svars, live>>

RestoreImageWithoutRoute ==
  /\ inst' = {}
  /\ \E image \in inst : node' = image.node /\ rules' = image.rules
  /\ taint' = IF \E s \in Slots : Alive(s) THEN taint \cup {"overlap"} ELSE taint
  /\ said' = "rolledBack"
  /\ UNCHANGED <<txn, snap, procs, faults, pre, cl, told, live>>

\* Restoring files over a script that still runs is an overlap like another.
RestoreImage ==
  /\ inst' = {}
  /\ \E image \in inst : /\ node' = image.node /\ rules' = image.rules
                         /\ txn' = image.txn /\ snap' = image.snap
  /\ taint' = IF \E s \in Slots : Alive(s) THEN taint \cup {"overlap"} ELSE taint
  /\ said' = "rolledBack"
  /\ UNCHANGED <<procs, faults, pre, cl, told, live>>

\* The next run finds the transaction of one that did not end.
Recover ==
  /\ Run("idle", "idle")
  /\ RestoreImage

\* The deferred rollback of a run that fails; it may fail too.
UndoConstruction ==
  /\ Run("undo", "idle")
  /\ RestoreImage

UndoFailed ==
  /\ Run("undo", "idle")
  /\ Misfortune
  /\ UNCHANGED <<disk, procs, ghost, cl, told, inst, live, said>>

CommitConstruction ==
  /\ Run("handoff", "idle")
  /\ inst' = {}
  /\ said' = "committed"
  /\ UNCHANGED <<svars, live>>

-----------------------------------------------------------------------------
(* The stages of a run                                                     *)

Stays == UNCHANGED <<svars, inst, said>>

\* The wizard adds rules that may be there already and enables a ufw that may
\* be enabled already: the rule files are loaded again, or are not.
WizardDone   == Run("wizard", "route") /\ live' \in {live, rules} /\ Stays
WizardFails  == Run("wizard", "undo") /\ UNCHANGED live /\ Stays
KeepRoute    == Run("route", "handoff") /\ UNCHANGED live /\ Stays
HandoffFails == Run("handoff", "undo") /\ UNCHANGED live /\ Stays

RouteStarts ==
  /\ Run("route", "reconcile")
  /\ StartStaging \/ StartGray
  /\ UNCHANGED <<inst, live, said>>

\* A session that does not report the change as made ends the run.
MovesOnAny == TRUE
MovesOn == told = "reconciled"

RouteEnds ==
  /\ In("idle")
  /\ Run("reconcile", IF MovesOn THEN "handoff" ELSE "undo")
  /\ UNCHANGED live /\ Stays

\* What the scripts do to the rule files they do to the rules in force.
WithRules == live' = IF rules' # rules THEN rules' ELSE live

RouteStep ==
  /\ menu = "reconcile" /\ ~In("idle")
  /\ ClientStep
  /\ UNCHANGED <<menu, inst, live, said>>

RouteFault ==
  /\ menu = "reconcile"
  /\ Retry \/ GivesUp
  /\ UNCHANGED <<menu, inst, live, said>>

ScriptGoesOn(s) ==
  /\ ScriptStep(s) /\ WithRules
  /\ UNCHANGED <<cl, told, menu, inst, said>>

ScriptGoesWrong(s) ==
  /\ ScriptFault(s) /\ WithRules
  /\ UNCHANGED <<cl, told, menu, inst, said>>

OrphanEnds(s) == ReapOrphan(s) /\ UNCHANGED <<menu, inst, live, said>>

ProgramKilled ==
  /\ menu # "idle" /\ menu' = "idle"
  /\ Misfortune
  /\ cl' = AtMenu /\ told' = "none"
  /\ UNCHANGED <<disk, procs, ghost, inst, live, said>>

-----------------------------------------------------------------------------

ProgramStep ==
  \/ BeginConstruction \/ Recover \/ UndoConstruction \/ CommitConstruction
  \/ WizardDone \/ WizardFails \/ KeepRoute \/ HandoffFails
  \/ RouteStarts \/ RouteStep \/ RouteEnds

CNext ==
  \/ ProgramStep \/ UndoFailed \/ RouteFault \/ ProgramKilled
  \/ \E s \in Slots : ScriptGoesOn(s) \/ ScriptGoesWrong(s) \/ OrphanEnds(s)

\* The operator keeps running menu [1]; programs and scripts do not stop by
\* themselves.
CFairness ==
  /\ WF_cvars(ProgramStep)
  /\ \A s \in Slots : WF_cvars(ScriptGoesOn(s)) /\ WF_cvars(OrphanEnds(s))

CSpec == CInit /\ [][CNext]_cvars
CFairSpec == CSpec /\ CFairness

-----------------------------------------------------------------------------
(* Properties                                                              *)

\* Every variable stays in its domain.
CTypeOK ==
  /\ STypeOK
  /\ menu \in MenuPc
  /\ inst = {} \/ \E image \in inst : inst = {image} /\ image \in Image
  /\ live \in Rules
  /\ said \in Said

\* No two processes of the script, nor the script and a restore, at once.
NoOverlap == "overlap" \notin taint

\* Between constructions the node is on a whole route with nothing pending,
\* whichever of the two transactions undid what: no order of their rollbacks,
\* nor a run that was killed, leaves a route transaction that outlives its
\* construction and would be taken into the next snapshot; and what a rollback
\* of the route destroys, its snapshot being incomplete, the other one restores.
WholeBetweenConstructions == inst = {} /\ NoOverlap => txn = "none" /\ IsWhole

\* Statement of the code (operations.go:319, 28-topology-reconcile.sh:57): a
\* construction that is not committed is rolled back to its snapshot, and files
\* alone are not a rollback of the firewall.
RolledBackInForce == said = "rolledBack" /\ taint = {} => live = rules

\* A route transaction does not stay pending: once misfortunes stop, it is
\* finished, rolled back or gone with its construction.
RouteDecided == txn # "none" /\ NoOverlap ~> txn = "none" \/ ~NoOverlap
=============================================================================
