----------------------------- MODULE MCScheduler -----------------------------
(* Instances of Scheduler for TLC.                                         *)
EXTENDS Scheduler, TLC

MCSymmetry == Permutations(Ids) \cup Permutations(Workers) \cup Permutations(Futures)
=============================================================================
