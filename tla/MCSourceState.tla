--------------------------- MODULE MCSourceState ---------------------------
(* An instance of SourceState for TLC.                                     *)
EXTENDS SourceState, TLC

Symmetry == Permutations(Entries) \cup Permutations(Bindings)
=============================================================================
