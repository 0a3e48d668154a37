------------------------------- MODULE MCWal -------------------------------
(***************************************************************************)
(* Wal for TLC.  Handlers of writes are interchangeable, so are readers.   *)
(***************************************************************************)
EXTENDS WalRefines

Symmetry == Permutations(Clients) \cup Permutations(Readers)

=============================================================================
