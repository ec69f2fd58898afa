------------------------- MODULE MCEndpointManager --------------------------
(* Instances of EndpointManager for TLC.                                    *)
EXTENDS EndpointManager, TLC

ManagerSymmetry ==
    Permutations(Threads) \cup Permutations(Endpoints)
        \cup Permutations(Ips) \cup Permutations(Ports)

(* What is remembered of an endpoint that no longer exists makes no         *)
(* difference: Construct sets all of it anew.  Of the history variable      *)
(* initial only whether it is 0 is ever looked at, and of latecomers only   *)
(* when it is.                                                              *)
LivingEndpoints ==
    << mapVars, refs, removing,
       [e \in Endpoints |->
          IF Alive(e) THEN <<kind[e], home[e], activity[e], useCount[e], users[e],
                             initial[e] = 0, IF initial[e] = 0 THEN latecomers[e] ELSE {},
                             e \in removed, e \in overwritten>>
          ELSE <<>>] >>
=============================================================================
