------------------------------- MODULE MCNode -------------------------------
(***************************************************************************)
(* The node: the script of the install transaction with two overlapping    *)
(* invocations, the toolkit with its baseline and dismantling, and the     *)
(* SS2022 service.  They share no state here, so a behaviour is one of a   *)
(* single part, while the others rest in one of their initial states.      *)
(***************************************************************************)
EXTENDS InstallHelper, Lifecycle, Ss2022, TLC

CONSTANTS slot1, slot2, file, source1

VARIABLE part

MCSlots == {slot1, slot2}
MCFiles == {file}
MCSources == {source1}

\* The state in which a part rests while another one runs.
TransactionRest == svc = "down" /\ \A p \in Paths : node[p] = Absent
NodeRest == link = "none" /\ image.packages = {} /\ image.paths[1] = "absent"

MCInit ==
  /\ part \in {"transaction", "node", "ss2022"}
  /\ HInit /\ LifecycleInit /\ SsInit
  /\ part # "transaction" => TransactionRest
  /\ part # "node" => NodeRest

TransactionPart ==
  part = "transaction" /\ HNext /\ UNCHANGED <<part, lifecycleVars, ssVars>>
NodePart ==
  part = "node" /\ LifecycleNext /\ UNCHANGED <<part, hvars, ssVars>>
Ss2022Part ==
  part = "ss2022" /\ SsNext /\ UNCHANGED <<part, hvars, lifecycleVars>>

MCNext == TransactionPart \/ NodePart \/ Ss2022Part
MCSpec == MCInit /\ [][MCNext]_<<part, hvars, lifecycleVars, ssVars>>

\* The type invariant of every part.
NodeTypeOK == HTypeOK /\ LTypeOK /\ SsTypeOK
=============================================================================
