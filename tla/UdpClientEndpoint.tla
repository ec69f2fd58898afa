------------------------- MODULE UdpClientEndpoint --------------------------
(***************************************************************************)
(* udp_client_endpoint_impl: the client endpoint over a UDP socket.        *)
(*                                                                         *)
(* It differs from the TCP endpoint in three ways: receive_cbk calls       *)
(* receive() again, so that an open socket is always listened to; send_data *)
(* does not ask whether the socket is open; and nothing is sent in parts.  *)
(***************************************************************************)
EXTENDS ClientEndpoint

vars == clientVars

(* connect on a datagram socket completes at once, and a datagram socket   *)
(* that has a port cannot be bound again.                                  *)
Udp == [starts |-> {"ok", "failed"}, bindable |-> {"unbound"}]

TypeOK == ClientTypeOK

Init == ClientInit

-----------------------------------------------------------------------------
(***************************************************************************)
(* receive(): one more async_receive_from, if the socket is open.  Both    *)
(* connect_cbk and receive_cbk end with it.                                *)
(***************************************************************************)
receive(w) ==
    /\ frame[w] \in {"connect_cbk.receive", "receive_cbk.receive"}
    /\ pending' = IF is_open THEN StartOp(pending, "receive") ELSE pending
    /\ Goto(w, "idle")
    /\ UNCHANGED <<sock, localPort, ready, flagVars, historyVars>>

(* connection_refused closes; any other result but aborted listens again.  *)
receive_cbk_listening_once(w, r) ==
    /\ Dispatch(w, "receive", r)
    /\ Goto(w, IF r = "refused" THEN "receive_cbk.close" ELSE "idle")
    /\ kept' = (kept /\ r # "refused")
    /\ UNCHANGED <<sock, localPort, pending, flagVars, everStopped, quietStop, appClosed>>

receive_cbk_reconnecting(w, r) ==
    /\ Dispatch(w, "receive", r)
    /\ Goto(w, CASE r = "aborted" -> "idle"
                 [] r = "refused" -> "send_cbk.recreate"
                 [] OTHER -> "receive_cbk.receive")
    /\ kept' = (kept /\ r # "refused")
    /\ UNCHANGED <<sock, localPort, pending, flagVars, everStopped, quietStop, appClosed>>

receive_cbk(w, r) ==
    /\ Dispatch(w, "receive", r)
    /\ Goto(w, CASE r = "aborted" -> "idle"
                 [] r = "refused" -> "receive_cbk.close"
                 [] OTHER -> "receive_cbk.receive")
    /\ kept' = (kept /\ r # "refused")
    /\ UNCHANGED <<sock, localPort, pending, flagVars, everStopped, quietStop, appClosed>>

(***************************************************************************)
(* send() and send_data(): async_send on whatever socket_ is.  A closed    *)
(* socket fails with bad_descriptor, which makes send_cbk connect; a       *)
(* socket without a peer with destination_address_required, after the      *)
(* kernel has given it a port of its own if it had none.                   *)
(***************************************************************************)
send_data(t) ==
    /\ CanCall(t)
    /\ \/ /\ ~is_open
          /\ ready' = Post(ready, "send", "lost")
          /\ UNCHANGED <<sock, pending>>
       \/ /\ sock \in {"unbound", "unconnected"}
          /\ sock' = "unconnected"
          /\ ready' = Post(ready, "send", "no_destination")
          /\ UNCHANGED pending
       \/ /\ sock = "connected"
          /\ pending' = StartOp(pending, "send")
          /\ UNCHANGED <<sock, ready>>
    /\ quietStop' = FALSE
    /\ UNCHANGED <<localPort, flagVars, frame, everStopped, appClosed, kept>>

-----------------------------------------------------------------------------
(***************************************************************************)
(* The kernel.  A datagram arrives on a socket that has a port, a refusal  *)
(* of the peer only on a connected one; a send may be forbidden.           *)
(***************************************************************************)
DatagramArrives == IsBound /\ OpDone("receive", "done")
PeerRefuses == sock = "connected" /\ OpDone("receive", "refused")
SendDone == sock = "connected" /\ \E r \in {"done", "lost"} : OpDone("send", r)

Worker(w) ==
    \/ SharedCallbacks(w, Udp)
    \/ send_cbk_no_destination(w)
    \/ receive(w)
    \/ \E r \in Results : receive_cbk(w, r)

Caller(t) == SharedCalls(t, Udp) \/ send_data(t)

Kernel == DatagramArrives \/ PeerRefuses \/ SendDone

Next ==
    \/ \E w \in Workers : Worker(w)
    \/ \E t \in Callers : Caller(t)
    \/ Kernel

Spec == Init /\ [][Next]_vars

-----------------------------------------------------------------------------
(* No open UDP socket goes deaf: a receive is pending, or a callback is     *)
(* queued or running that starts one or closes the socket.  It takes the    *)
(* re-arming in receive_cbk together with the connect_cbk that every        *)
(* connect(), failed ones included, leads to; completions of a socket that  *)
(* was replaced in between must not break the chain of the new one.         *)
ReceiveDue ==
    \/ pending["receive"] > 0
    \/ \E r \in Results \ {"aborted"} : ready["receive"][r] > 0
    \/ \E w \in Workers : frame[w] \in StrandSteps
OpenSocketIsServed == is_open => ReceiveDue \/ ConnectCbkDue \/ CloseDue

(***************************************************************************)
(* The endpoint implements ClientLink: step by step, no connected          *)
(* socket is dialled again before it was closed, no callback opens the     *)
(* socket after stop(), and no port is known of a closed one, whichever    *)
(* threads take part.                                                      *)
(***************************************************************************)
Link == INSTANCE ClientLink WITH
    SendWakes <- TRUE, link <- LinkOf, port <- localPort, stopped <- quietStop
ImplementsClientLink == Link!Spec
=============================================================================
