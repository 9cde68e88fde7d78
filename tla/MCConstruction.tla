--------------------------- MODULE MCConstruction ---------------------------
(* A small instance of Construction: two invocations of the script at once. *)
EXTENDS Construction, TLC

CONSTANTS s1, s2

MCSlots == {s1, s2}

\* BOUND: what follows an overlap, of which the properties promise nothing, is
\* not explored.
Undisturbed == NoOverlap
=============================================================================
