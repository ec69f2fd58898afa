----------------------------- MODULE MCMutexes ------------------------------
(* Instances of Mutexes for TLC.                                            *)
EXTENDS Mutexes, TLC

MutexSymmetry == Permutations(Runners)
=============================================================================
