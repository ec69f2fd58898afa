-------------------------- MODULE MCSocketService ---------------------------
(* Instances of SocketService for TLC.                                      *)
EXTENDS SocketService, TLC

ServiceSymmetry == Permutations(Sockets) \cup Permutations(Fds) \cup Permutations(Ops)
=============================================================================
