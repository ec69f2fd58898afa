---------------------------- MODULE MCTcpServer -----------------------------
(* Instances of TcpServerEndpoint for TLC.                                  *)
EXTENDS TcpServerEndpoint, TLC

ServerSymmetry ==
    Permutations(Workers) \cup Permutations(Connections) \cup Permutations(Remotes)
=============================================================================
