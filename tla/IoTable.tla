------------------------------- MODULE IoTable ------------------------------
(***************************************************************************)
(* What the endpoints take the asynchronous operations of a socket for:    *)
(* the two tables of IoOps, one pair for each descriptor.  An operation    *)
(* that was started either waits in the reactor or is queued with its      *)
(* result at once; the kernel finishes a waiting one; closing or           *)
(* cancelling queues all that wait on the descriptor as aborted; a worker  *)
(* runs what is queued.  Nothing is lost, nothing runs twice, and no step  *)
(* touches the operations of two descriptors.                              *)
(*                                                                         *)
(* SocketService implements it.                                            *)
(***************************************************************************)
EXTENDS IoOps

CONSTANTS Descriptors, Callbacks, Results

VARIABLES pending,  (* pending[d][c]                                       *)
          ready     (* ready[d][c][r]                                      *)

tableVars == <<pending, ready>>

Init ==
    /\ pending = [d \in Descriptors |-> [c \in Callbacks |-> 0]]
    /\ ready = [d \in Descriptors |-> [c \in Callbacks |-> [r \in Results |-> 0]]]

Become(d, waiting, queued) ==
    /\ pending' = [pending EXCEPT ![d] = waiting]
    /\ ready' = [ready EXCEPT ![d] = queued]

Start(d, c) == Become(d, StartOp(pending[d], c), ready[d])

CompleteAtOnce(d, c, r) == Become(d, pending[d], Post(ready[d], c, r))

Finish(d, c, r) ==
    /\ pending[d][c] > 0
    /\ Become(d, EndOp(pending[d], c), Post(ready[d], c, r))

AbortAll(d) == Become(d, NonePending(pending[d]), Aborted(pending[d], ready[d]))

Run(d, c, r) == ready[d][c][r] > 0 /\ Become(d, pending[d], Take(ready[d], c, r))

Next ==
    \E d \in Descriptors :
        \/ AbortAll(d)
        \/ \E c \in Callbacks :
             \/ Start(d, c)
             \/ \E r \in Results : CompleteAtOnce(d, c, r) \/ Finish(d, c, r) \/ Run(d, c, r)

Spec == Init /\ [][Next]_tableVars
=============================================================================
