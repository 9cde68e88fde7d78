---------------------------- MODULE RouteSession ----------------------------
(***************************************************************************)
(* reconcileCDNRoute of the local program (cdn_reset.go) driving the       *)
(* script of RouteHelper: stage, validate from outside, have the client    *)
(* confirmed, finalize, and roll back on any failure in between; or go     *)
(* gray in one request.                                                    *)
(*                                                                         *)
(* A captured SSH command is given up after 30 s while its process lives   *)
(* on, and it is run a second time when its output looks like that of a    *)
(* transport failure, the first output being kept in front of the second.  *)
(***************************************************************************)
EXTENDS RouteHelper

CONSTANT NoSlot   \* the session waits for no process

ASSUME NoRouteSlotAssumption == NoSlot \notin Slots

ClientPc == {"idle", "stage", "validate", "finalize", "finalizing", "undo", "rollback",
             "gray"}

\* How the last session ended, as its caller learns it: the change is made, it
\* failed and was rolled back, the rollback failed as well, or gray failed.
Message == {"none", "reconciled", "restored", "rollbackFailed", "grayFailed"}

VARIABLES
  cl,     \* the session
  told    \* its last message

svars == <<rvars, cl, told>>

\* proof: the output kept from a first attempt reports a rollback.
Session == [pc : ClientPc, slot : Slots \cup {NoSlot}, retried : BOOLEAN, proof : BOOLEAN]
AtMenu  == [pc |-> "idle", slot |-> NoSlot, retried |-> FALSE, proof |-> FALSE]

SInit == RInit /\ cl = AtMenu /\ told = "none"

In(pc)   == cl.pc = pc
Move(pc) == cl' = [AtMenu EXCEPT !.pc = pc]
End(msg) == cl' = AtMenu /\ told' = msg

Request(k, pc) ==
  \E s \in Slots : Spawn(s, k) /\ cl' = [AtMenu EXCEPT !.pc = pc, !.slot = s]

Answer == procs[cl.slot].out
Answered(outs) ==
  /\ cl.slot \in Slots
  /\ At(cl.slot, "exited")
  /\ Answer \in outs
  /\ Reap(cl.slot)
  /\ UNCHANGED faults

-----------------------------------------------------------------------------
(* The session                                                             *)

StartStaging ==
  /\ In("idle")
  /\ Request("apply", "stage")
  /\ told' = "none"
  /\ UNCHANGED faults

StartGray ==
  /\ In("idle")
  /\ Request("toGray", "gray")
  /\ told' = "none"
  /\ UNCHANGED faults

StageSucceeded ==
  /\ In("stage")
  /\ Answered({"STAGED"})
  /\ Move("validate")
  /\ UNCHANGED told

\* A failed stage whose output proves a rollback needs no second one.
StageFailed ==
  /\ In("stage")
  /\ Answered(Outs \ {"STAGED"})
  /\ IF Answer = "ERROR_ROLLED_BACK" \/ cl.proof
       THEN End("restored")
       ELSE Move("undo") /\ UNCHANGED told

\* validateCDNEdge, validateCDNOriginLocked, the share link and the client's
\* proof only read; --confirm-client writes the confirmation on the node.
Confirmed ==
  /\ In("validate")
  /\ node["edge"] \in {"validated", "confirmed"}
  /\ Put("edge", "confirmed")
  /\ Move("finalize") \/ Move("undo")   \* the answer arrives or is lost
  /\ UNCHANGED <<rules, txn, snap, procs, faults, ghost, told>>

ValidationFailed ==
  /\ In("validate")
  /\ Move("undo")
  /\ UNCHANGED <<rvars, told>>

FinalizeRequested ==
  /\ In("finalize")
  /\ Request("finalize", "finalizing")
  /\ UNCHANGED <<faults, told>>

FinalEvidenceAny == {"RECONCILED", "ERROR"}
FinalEvidence == {"RECONCILED"}

FinalizeAnswered ==
  /\ In("finalizing")
  /\ \/ Answered(FinalEvidence) /\ End("reconciled")
     \/ Answered(Outs \ FinalEvidence) /\ Move("undo") /\ UNCHANGED told

UndoRequested ==
  /\ In("undo")
  /\ Request("rollback", "rollback")
  /\ UNCHANGED <<faults, told>>

\* NOTHING_PENDING is no evidence of a rollback.
RestoreEvidenceAny == {"ROLLED_BACK", "NOTHING_PENDING"}
RestoreEvidence == {"ROLLED_BACK"}

RollbackAnswered ==
  /\ In("rollback")
  /\ \/ Answered(RestoreEvidence) /\ End("restored")
     \/ Answered(Outs \ RestoreEvidence) /\ End("rollbackFailed")

GrayAnswered ==
  /\ In("gray")
  /\ \/ Answered({"RECONCILED"}) /\ End("reconciled")
     \/ Answered(Outs \ {"RECONCILED"}) /\ End("grayFailed")

-----------------------------------------------------------------------------
(* Misfortunes                                                             *)

\* runCaptured: the connection breaks while the command runs or before its answer
\* arrives, or the output of a failed command reads like a transport failure.
\* The command runs again; of the first answer only its stderr is kept, which
\* is where the trap of a change reports its rollback.
Retry ==
  /\ cl.slot \in Slots /\ ~cl.retried
  /\ Misfortune
  /\ \E s \in Slots, kept \in BOOLEAN :
       /\ Spawn(s, procs[cl.slot].kind)
       /\ cl' = [cl EXCEPT !.slot = s, !.retried = TRUE,
                           !.proof = kept /\ Answer = "ERROR_ROLLED_BACK"]
  /\ UNCHANGED told

\* The command is given up; its process is not.
GivesUp ==
  /\ Misfortune
  /\ \/ cl.pc \in {"stage", "finalizing"} /\ Move("undo") /\ UNCHANGED told
     \/ In("rollback") /\ End("rollbackFailed")
     \/ In("gray") /\ End("grayFailed")
  /\ UNCHANGED <<disk, procs, ghost>>

Killed ==
  /\ ~In("idle")
  /\ Misfortune
  /\ End("none")
  /\ UNCHANGED <<disk, procs, ghost>>

ReapOrphan(s) == s # cl.slot /\ Reap(s) /\ UNCHANGED <<faults, cl, told>>

-----------------------------------------------------------------------------

ClientStep ==
  \/ StartStaging \/ StartGray \/ StageSucceeded \/ StageFailed \/ Confirmed
  \/ ValidationFailed \/ FinalizeRequested \/ FinalizeAnswered \/ UndoRequested
  \/ RollbackAnswered \/ GrayAnswered

ClientFault == Retry \/ GivesUp \/ Killed

SNext ==
  \/ ClientStep \/ ClientFault
  \/ \E s \in Slots : ReapOrphan(s)
  \/ \E s \in Slots : (ScriptStep(s) \/ ScriptFault(s)) /\ UNCHANGED <<cl, told>>

SSpec == SInit /\ [][SNext]_svars

-----------------------------------------------------------------------------
(* Properties                                                              *)

\* Every variable stays in its domain.
STypeOK == RTypeOK /\ cl \in Session /\ told \in Message

Says(msg) == told' = msg /\ told # msg

\* A session that reports the change as made leaves a finished route and no
\* pending transaction, whatever was lost, repeated or cut short on the way.
ReconciledTrue ==
  [][Says("reconciled") /\ taint = {} => txn = "none" /\ (GrayDone \/ OrangeDone)]_svars

\* A session that returns its failure without reporting a failed rollback has
\* left the node as it was, and nothing pending; in particular it never says
\* so of a change whose success it only failed to hear of.
RestoredTrue ==
  [][Says("restored") /\ taint = {} /\ ~cl.proof => txn = "none" /\ IsPreImage]_svars
=============================================================================
