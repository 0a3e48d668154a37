--------------------------- MODULE MCIDGenerator ---------------------------
(***************************************************************************)
(* IDGenerator for TLC, with a counter of a few bits.                      *)
(***************************************************************************)
EXTENDS IDGenerator, TLC

Symmetry == Permutations(Callers)

=============================================================================
