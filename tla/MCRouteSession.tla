--------------------------- MODULE MCRouteSession ---------------------------
(* A small instance of RouteSession: two invocations of the script at once. *)
EXTENDS RouteSession, TLC

CONSTANTS s1, s2

MCSlots  == {s1, s2}

\* BOUND: a disturbed history, of which the properties promise nothing, has one
\* fault at the most and ends with the session.
HistoryBound == taint # {} => faults <= 1 /\ ~In("idle")

Symmetry == Permutations(MCSlots)
=============================================================================
