----------------------------- MODULE MCUseCount -----------------------------
(* Instances of UseCount for TLC.                                           *)
EXTENDS UseCount, TLC

ThreadSymmetry == Permutations(Threads)
=============================================================================
