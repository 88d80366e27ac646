---------------------------- MODULE MCOriginalTCP ----------------------------
(* Small instances of OriginalTCP for TLC. *)
EXTENDS OriginalTCP, TLC

Symmetry == Permutations(Conns) \cup Permutations(Requests)

=============================================================================
