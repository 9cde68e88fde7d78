------------------------- MODULE AtomicConstruction -------------------------
(***************************************************************************)
(* What a construction transaction promises its users: transactions are    *)
(* opened one at a time, each under an identifier of its own, and each ends *)
(* once and for all, either committed or undone.                           *)
(***************************************************************************)
CONSTANT Tx     \* transaction identifiers

VARIABLE fate   \* [Tx -> what became of it]

Fates == {"unused", "open", "committed", "undone"}

AInit == fate = [t \in Tx |-> "unused"]

Open(t) ==
  /\ fate[t] = "unused"
  /\ \A u \in Tx : fate[u] # "open"
  /\ fate' = [fate EXCEPT ![t] = "open"]

Commit(t) ==
  /\ fate[t] = "open"
  /\ fate' = [fate EXCEPT ![t] = "committed"]

Undo(t) ==
  /\ fate[t] = "open"
  /\ fate' = [fate EXCEPT ![t] = "undone"]

ANext == \E t \in Tx : Open(t) \/ Commit(t) \/ Undo(t)

ASpec == AInit /\ [][ANext]_fate
=============================================================================
