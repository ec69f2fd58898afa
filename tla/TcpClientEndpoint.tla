------------------------- MODULE TcpClientEndpoint --------------------------
(***************************************************************************)
(* tcp_client_endpoint_impl: the client endpoint over a TCP socket.        *)
(*                                                                         *)
(* send_data is an async_write, which the library carries out as a chain   *)
(* of partial writes; when the last one is done send_cbk of the base class *)
(* runs.  The class's own send_cbk, which takes three arguments and would  *)
(* reset is_sending_, is bound to no operation.                            *)
(***************************************************************************)
EXTENDS ClientEndpoint

VARIABLE isSending  (* is_sending_; the constructor leaves it uninitialized *)

vars == <<clientVars, isSending>>

(* A TCP connect usually stays in progress but may complete at once.  The  *)
(* kernel refuses to bind a connecting or a connected socket; it may bind  *)
(* one again whose connect failed, if the port was an ephemeral one.       *)
Tcp == [starts |-> {"pending", "ok", "failed"},
        bindable |-> {"unbound", "unconnected"}]

TypeOK == ClientTypeOK /\ isSending \in BOOLEAN

Init == ClientInit /\ isSending \in BOOLEAN

-----------------------------------------------------------------------------
(* receive(): one async_receive into recv_buffer_, if the socket is open.   *)
(* The kernel answers a read or a write on an unconnected socket at once.   *)
NotConnected == sock \in {"unbound", "unconnected"}

receive(w) ==
    /\ frame[w] = "connect_cbk.receive"
    /\ \/ ~is_open /\ UNCHANGED <<pending, ready>>
       \/ NotConnected /\ ready' = Post(ready, "receive", "done") /\ UNCHANGED pending
       \/ sock \in {"connecting", "connected"}
            /\ pending' = StartOp(pending, "receive") /\ UNCHANGED ready
    /\ Goto(w, "idle")
    /\ UNCHANGED <<sock, localPort, flagVars, historyVars, isSending>>

(* receive_cbk only logs; it does not call receive() again.                *)
receive_cbk(w, r) ==
    /\ Dispatch(w, "receive", r)
    /\ UNCHANGED <<sock, localPort, pending, flagVars, frame, historyVars, isSending>>

(***************************************************************************)
(* A write of async_write on the socket object as it is now, taking the    *)
(* queued completions without it to be rest: waiting for the kernel, or    *)
(* failed at once, with bad_descriptor on a closed socket and with         *)
(* broken_pipe (once with the error that broke the connection, which       *)
(* send_cbk only logs) on an unconnected one.                              *)
(***************************************************************************)
WriteSome(rest) ==
    \/ /\ sock \in {"connecting", "connected"}
       /\ pending' = StartOp(pending, "send")
       /\ ready' = rest
    \/ /\ ~is_open \/ NotConnected
       /\ ready' = Post(rest, "send", "lost")
       /\ UNCHANGED pending
    \/ /\ NotConnected
       /\ ready' = Post(rest, "send", "done")
       /\ UNCHANGED pending

(***************************************************************************)
(* send() and send_data(): under socket_mutex_, if the socket is open, set *)
(* is_sending_ and start an async_write.                                   *)
(***************************************************************************)
send_data_unchecked(t) ==
    /\ CanCall(t)
    /\ isSending' = TRUE
    /\ WriteSome(ready)
    /\ UNCHANGED <<sock, localPort, flagVars, frame, historyVars>>

send_data(t) ==
    /\ CanCall(t)
    /\ is_open
    /\ isSending' = TRUE
    /\ WriteSome(ready)
    /\ UNCHANGED <<sock, localPort, flagVars, frame, historyVars>>

(***************************************************************************)
(* After a partial write write_completion_condition asks for the rest and  *)
(* async_write writes to the socket object again: to the one it was        *)
(* started on, closed or reopened as it may be, or, when send_cbk has freed *)
(* that one under the operation, to what its memory holds by then: a       *)
(* closed socket or the new one.                                           *)
(***************************************************************************)
WriteOn(rest, result) ==
    \/ WriteSome(rest)
    \/ /\ result = "orphaned"
       /\ ready' = Post(rest, "send", "lost")
       /\ UNCHANGED pending

write_completion_condition(w) ==
    /\ frame[w] = "idle"
    /\ \E r \in {"partial", "orphaned"} :
         ready["send"][r] > 0 /\ WriteOn(Take(ready, "send", r), r)
    /\ UNCHANGED <<sock, localPort, flagVars, frame, historyVars, isSending>>

-----------------------------------------------------------------------------
(***************************************************************************)
(* The kernel.  A send on a socket that is still connecting waits.  When   *)
(* the connect fails or the connection breaks, everything pending is       *)
(* finished with an error, some sends with one that send_cbk only logs.    *)
(***************************************************************************)
ConnectDone ==
    /\ sock = "connecting"
    /\ sock' = "connected"
    /\ pending' = EndOp(pending, "connect")
    /\ ready' = Post(ready, "connect", "ok")
    /\ UNCHANGED <<localPort, flagVars, frame, historyVars>>

ConnectionFails ==
    /\ sock \in {"connecting", "connected"}
    /\ sock' = "unconnected"
    /\ pending' = NonePending(pending)
    /\ \E logged \in 0..pending["send"] :
         ready' = [ready EXCEPT
                     !["connect"]["failed"] = @ + pending["connect"],
                     !["receive"]["done"] = @ + pending["receive"],
                     !["send"]["lost"] = @ + (pending["send"] - logged),
                     !["send"]["done"] = @ + logged]
    /\ UNCHANGED <<localPort, flagVars, frame, historyVars>>

SendDone == sock = "connected" /\ \E r \in {"done", "partial"} : OpDone("send", r)
ReceiveDone == sock = "connected" /\ OpDone("receive", "done")

Worker(w) ==
    \/ SharedCallbacks(w, Tcp) /\ UNCHANGED isSending
    \/ receive(w)
    \/ \E r \in Results : receive_cbk(w, r)
    \/ write_completion_condition(w)

Caller(t) ==
    \/ SharedCalls(t, Tcp) /\ UNCHANGED isSending
    \/ send_data(t)

Kernel ==
    /\ ConnectDone \/ ConnectionFails \/ SendDone \/ ReceiveDone
    /\ UNCHANGED isSending

Next ==
    \/ \E w \in Workers : Worker(w)
    \/ \E t \in Callers : Caller(t)
    \/ Kernel

Spec == Init /\ [][Next]_vars

(***************************************************************************)
(* Fairness.  A worker in the middle of a callback goes on; the io_service *)
(* queue is first in first out, so some queued connect_cbk is run in the   *)
(* end however many other callbacks come and go; the kernel ends every     *)
(* connect, if only by its timeout.  Nothing is assumed of the application. *)
(***************************************************************************)
Fairness ==
    /\ \A w \in Workers : WF_vars(frame[w] # "idle" /\ Worker(w))
    /\ SF_vars(\E w \in Workers, r \in Results :
                   connect_cbk(w, r) /\ UNCHANGED isSending)
    /\ WF_vars((ConnectDone \/ ConnectionFails) /\ UNCHANGED isSending)

FairSpec == Spec /\ Fairness

-----------------------------------------------------------------------------
(* connect_cbk and send_cbk comment the branch that operation_aborted takes *)
(* with "endpoint was stopped"; in it send_cbk sets sending_blocked_, which *)
(* no code ever resets.                                                     *)
BlockedMeansStopped == sendingBlocked => everStopped

(***************************************************************************)
(* The endpoint implements ClientLink: step by step, no connected          *)
(* socket is dialled again before it was closed, no callback opens the     *)
(* socket after stop(), and no port is known of a closed one, whichever    *)
(* threads take part.                                                      *)
(***************************************************************************)
Link == INSTANCE ClientLink WITH
    SendWakes <- FALSE, link <- LinkOf, port <- localPort, stopped <- quietStop
ImplementsClientLink == Link!Spec
=============================================================================
