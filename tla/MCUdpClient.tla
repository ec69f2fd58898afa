---------------------------- MODULE MCUdpClient -----------------------------
(* Instances of UdpClientEndpoint, with its addresses, for TLC.             *)
EXTENDS UdpClientRemote, TLC

WorkerSymmetry == Permutations(Workers)
=============================================================================
