----------------------- MODULE UdpClientEndpoint_proofs ----------------------
(***************************************************************************)
(* Theorems about UdpClientEndpoint, and about UdpClientRemote which adds  *)
(* the addresses, for any sets of threads and of senders and any bound on  *)
(* the callbacks outstanding.  The callbacks and calls it shares with the  *)
(* TCP endpoint are dealt with in ClientEndpoint_proofs.                   *)
(***************************************************************************)
EXTENDS UdpClientRemote, ClientEndpoint_proofs

(* UDP is a protocol the lemmas on the shared actions speak of.            *)
LEMMA UdpIsProtocol == IsProtocol(Udp)
BY DEF IsProtocol, Udp

(* What the steps of the UDP endpoint itself have in common: they neither   *)
(* touch a connect, nor its callbacks, nor what only shared steps assign.   *)
OwnStep ==
    /\ pending' \in Pendings /\ ready' \in Readies
    /\ pending'["connect"] = pending["connect"]
    /\ ready'["connect"] = ready["connect"]
    /\ frame' \in [Threads -> Steps]
    /\ UNCHANGED <<localPort, state, sendingBlocked, everStopped, appClosed>>
    /\ wasNotConnected' \in BOOLEAN /\ quietStop' \in BOOLEAN
    /\ kept' \in BOOLEAN
    /\ kept' => kept /\ \A u \in Workers : frame'[u] \in CloseSteps => frame[u] \in CloseSteps
    /\ \/ sock' = sock
       \/ sock \in {"unbound", "unconnected"} /\ sock' = "unconnected"
    /\ FramesKept(CloseSteps \cup {"send_cbk.recreate", "send_cbk.connect"})

(* What the kernel ends is the UDP client's own: a receive or a send.       *)
LEMMA OpDoneLemma ==
    ASSUME ClientTypeOK, NEW c \in {"receive", "send"}, NEW r \in Results, OpDone(c, r)
    PROVE  OwnStep
<1>0. /\ pending \in Pendings /\ ready \in Readies /\ c \in Callbacks
      /\ "connect" \in Callbacks /\ "connect" # c
      /\ frame \in [Threads -> Steps] /\ wasNotConnected \in BOOLEAN /\ quietStop \in BOOLEAN
      /\ kept \in BOOLEAN
  BY DEF ClientTypeOK, Pendings, Readies, Callbacks
<1>1. pending' \in Pendings /\ pending'["connect"] = pending["connect"]
  BY <1>0, EndOpLemma DEF OpDone
<1>2. ready' \in Readies /\ ready'["connect"] = ready["connect"]
  BY <1>0, PostLemma DEF OpDone
<1> QED BY <1>0, <1>1, <1>2 DEF OpDone, OwnStep, flagVars, historyVars, FramesKept

(* The steps are receive, receive_cbk, send_data, the send_cbk with          *)
(* destination_address_required, and those of the kernel.                    *)
LEMMA OwnSteps ==
    ASSUME ClientTypeOK,
           \/ \E w \in Workers : \/ send_cbk_no_destination(w) \/ receive(w)
                                 \/ \E r \in Results : receive_cbk(w, r)
           \/ \E t \in Callers : send_data(t)
           \/ Kernel
    PROVE  OwnStep
<1>0. /\ pending \in Pendings /\ ready \in Readies
      /\ \A c \in {"connect", "receive", "send"} : c \in Callbacks
      /\ frame \in [Threads -> Steps] /\ wasNotConnected \in BOOLEAN /\ quietStop \in BOOLEAN
      /\ kept \in BOOLEAN
      /\ "done" \in Results /\ "refused" \in Results /\ "lost" \in Results
      /\ "no_destination" \in Results
      /\ \A w \in Workers : w \in Threads
  BY DEF ClientTypeOK, Pendings, Readies, Callbacks, Results, Threads
<1>a. /\ "idle" \in Steps /\ "receive_cbk.close" \in Steps /\ "receive_cbk.receive" \in Steps
  BY DEF Steps, StrandSteps
<1>1. ASSUME NEW w \in Workers, send_cbk_no_destination(w)
      PROVE  OwnStep
  <2>1. ready' \in Readies /\ ready'["connect"] = ready["connect"]
    BY <1>0, <1>1, DispatchLemma DEF send_cbk_no_destination
  <2> QED BY <1>0, <1>1, <2>1
          DEF send_cbk_no_destination, OwnStep, historyVars, FramesKept
<1>2. ASSUME NEW w \in Workers, receive(w)
      PROVE  OwnStep
  <2>1. pending' \in Pendings /\ pending'["connect"] = pending["connect"]
    BY <1>0, <1>2, StartOpLemma DEF receive
  <2>2. frame' \in [Threads -> Steps]
    BY <1>0, <1>a, <1>2, GotoLemma DEF receive
  <2>3. FramesKept(CloseSteps \cup {"send_cbk.recreate", "send_cbk.connect"})
    BY <1>0, <1>a, <1>2, GotoKeeps DEF receive, CloseSteps
  <2>4. \A u \in Workers : frame'[u] \in CloseSteps => frame[u] \in CloseSteps
    BY <1>0, <1>a, <1>2, GotoNoClose DEF receive, CloseSteps
  <2> QED BY <1>0, <1>2, <2>1, <2>2, <2>3, <2>4 DEF receive, OwnStep, flagVars, historyVars
<1>3. ASSUME NEW w \in Workers, NEW r \in Results, receive_cbk(w, r)
      PROVE  OwnStep
  <2>1. ready' \in Readies /\ ready'["connect"] = ready["connect"]
    BY <1>0, <1>3, DispatchLemma DEF receive_cbk
  <2>2. /\ frame[w] = "idle"
        /\ \E s \in {"idle", "receive_cbk.close", "receive_cbk.receive"} : Goto(w, s)
    BY <1>3 DEF receive_cbk, Dispatch
  <2>3. frame' \in [Threads -> Steps]
    BY <1>0, <1>a, <2>2, GotoLemma
  <2>4. FramesKept(CloseSteps \cup {"send_cbk.recreate", "send_cbk.connect"})
    BY <1>0, <1>a, <2>2, GotoKeeps DEF CloseSteps
  <2>5. r # "refused" =>
          \A u \in Workers : frame'[u] \in CloseSteps => frame[u] \in CloseSteps
    BY <1>0, <1>a, <1>3, GotoNoClose DEF receive_cbk, CloseSteps
  <2> QED BY <1>0, <1>3, <2>1, <2>3, <2>4, <2>5 DEF receive_cbk, OwnStep, flagVars
<1>4. ASSUME NEW t \in Callers, send_data(t)
      PROVE  OwnStep
  <2>1. /\ pending' \in Pendings /\ pending'["connect"] = pending["connect"]
        /\ ready' \in Readies /\ ready'["connect"] = ready["connect"]
    <3>1. ASSUME NEW r \in {"lost", "no_destination"}, ready' = Post(ready, "send", r)
          PROVE  ready' \in Readies /\ ready'["connect"] = ready["connect"]
      <4>1. r \in Results /\ "connect" # "send"
        BY <1>0
      <4>2. Post(ready, "send", r) \in Readies
        BY <1>0, <4>1, PostLemma
      <4>3. Post(ready, "send", r)["connect"] = ready["connect"]
        BY <1>0, <4>1, PostLemma
      <4> QED BY <3>1, <4>2, <4>3
    <3>2. CASE UNCHANGED pending /\ \E r \in {"lost", "no_destination"} :
                                      ready' = Post(ready, "send", r)
      BY <1>0, <3>1, <3>2
    <3>3. CASE pending' = StartOp(pending, "send") /\ UNCHANGED ready
      BY <1>0, <3>3, StartOpLemma
    <3> QED BY <1>4, <3>2, <3>3 DEF send_data
  <2> QED BY <1>0, <1>4, <2>1 DEF send_data, OwnStep, flagVars, FramesKept
<1>5. CASE Kernel
  <2>1. \E c \in {"receive", "send"}, r \in {"done", "refused", "lost"} : OpDone(c, r)
    BY <1>5 DEF Kernel, DatagramArrives, PeerRefuses, SendDone
  <2> QED BY <1>0, <2>1, OpDoneLemma
<1> QED BY <1>1, <1>2, <1>3, <1>4, <1>5

(* Every step is a shared one, one of the UDP endpoint's own, or a stutter. *)
LEMMA StepCases ==
    ASSUME ClientTypeOK, [Next]_vars
    PROVE  \/ \E w \in Workers : SharedCallbacks(w, Udp)
           \/ \E t \in Callers : SharedCalls(t, Udp)
           \/ OwnStep
<1>1. CASE UNCHANGED vars
  BY <1>1 DEF vars, clientVars, socketVars, flagVars, historyVars, OwnStep,
             ClientTypeOK, Pendings, Readies, FramesKept
<1> QED BY <1>1, OwnSteps DEF Next, Worker, Caller

-----------------------------------------------------------------------------
(***************************************************************************)
(* Types, and the agreement of port, block and state_ with the socket.     *)
(***************************************************************************)
SocketInv ==
    LocalPortOfOpenSocket /\ BlockedEndpointCloses /\ ClosedStateNotOverLiveSocket

(* The constructed client has the types and no connect in progress.         *)
LEMMA BaseInit == Init => Base
<1> SUFFICES ASSUME Init
             PROVE  Base
  OBVIOUS
<1>1. /\ pending = [c \in Callbacks |-> 0] /\ "connect" \in Callbacks
      /\ ready = [c \in Callbacks |-> [r \in Results |-> 0]]
      /\ frame = [t \in Threads |-> "idle"] /\ "idle" \in Steps
  BY DEF Init, ClientInit, Callbacks, Steps
<1>2. /\ state \in cei_state_e /\ sock \in SockStates /\ sock # "connecting"
      /\ localPort \in BOOLEAN /\ sendingBlocked \in BOOLEAN
      /\ wasNotConnected \in BOOLEAN /\ everStopped \in BOOLEAN
      /\ quietStop \in BOOLEAN /\ appClosed \in BOOLEAN /\ kept \in BOOLEAN
  BY DEF Init, ClientInit, cei_state_e, SockStates
<1>3. /\ pending \in [Callbacks -> Nat] /\ frame \in [Threads -> Steps]
      /\ pending["connect"] = 0
  BY <1>1
<1>4. ready \in [Callbacks -> [Results -> Nat]]
  BY <1>1
<1> QED BY <1>2, <1>3, <1>4 DEF Base, ClientTypeOK, OneConnectInProgress

(* No operation completes that was not started, and a UDP socket never has  *)
(* a connect in progress.                                                   *)
LEMMA BaseStep == Base /\ [Next]_vars => Base'
<1> SUFFICES ASSUME Base, [Next]_vars
             PROVE  Base'
  OBVIOUS
<1>1. CASE OwnStep
  BY <1>1 DEF Base, OwnStep, ClientTypeOK, OneConnectInProgress, SockStates,
             Pendings, Readies
<1>2. ClientTypeOK
  BY DEF Base
<1> QED BY <1>1, <1>2, StepCases, UdpIsProtocol, BaseCallbacks, BaseCalls

(* The types, and at most one connect in progress (for UDP, none: connect() *)
(* of a datagram socket ends at once), in every reachable state.            *)
THEOREM UdpTypeCorrect == Spec => [](TypeOK /\ OneConnectInProgress)
<1>1. Base <=> TypeOK /\ OneConnectInProgress
  BY DEF Base, TypeOK
<1> QED BY <1>1, BaseInit, BaseStep, PTL DEF Spec

(* Every step keeps local_port_, sending_blocked_ and state_ in agreement   *)
(* with the socket.                                                         *)
LEMMA SocketInvStep == Base /\ SocketInv /\ [Next]_vars => SocketInv'
<1> SUFFICES ASSUME Base, SocketInv, [Next]_vars
             PROVE  SocketInv'
  OBVIOUS
<1>0. /\ ClientTypeOK
      /\ LocalPortOfOpenSocket /\ BlockedEndpointCloses /\ ClosedStateNotOverLiveSocket
  BY DEF Base, SocketInv
<1>1. CASE OwnStep
  <2>1. FramesKept(CloseSteps) /\ FramesKept({"send_cbk.recreate"})
    BY <1>1 DEF OwnStep, FramesKept
  <2>2. LocalPortOfOpenSocket'
    BY <1>0, <1>1 DEF OwnStep, LocalPortOfOpenSocket, IsBound
  <2>3. BlockedEndpointCloses'
    BY <1>0, <1>1, <2>1, BlockedKept DEF OwnStep, is_open
  <2>4. ClosedStateNotOverLiveSocket'
    BY <1>0, <1>1, <2>1, ClosedKept DEF OwnStep, Alive
  <2> QED BY <2>2, <2>3, <2>4 DEF SocketInv
<1>2. ASSUME NEW w \in Workers, SharedCallbacks(w, Udp)
      PROVE  SocketInv'
  BY <1>0, <1>2, UdpIsProtocol, LocalPortShared, BlockedCallbacks, ClosedCallbacks
     DEF SocketInv
<1>3. ASSUME NEW t \in Callers, SharedCalls(t, Udp)
      PROVE  SocketInv'
  BY <1>0, <1>3, UdpIsProtocol, LocalPortShared, BlockedCalls, ClosedCalls
     DEF SocketInv
<1> QED BY <1>0, <1>1, <1>2, <1>3, StepCases

(* Port, block and state_ of a UDP endpoint agree with its socket, for any  *)
(* number of threads and of callbacks.                                      *)
THEOREM UdpSocketInvHolds ==
    Spec => [](LocalPortOfOpenSocket /\ BlockedEndpointCloses /\ ClosedStateNotOverLiveSocket)
<1>1. Init => SocketInv
  BY DEF Init, ClientInit, SocketInv, LocalPortOfOpenSocket, BlockedEndpointCloses,
         ClosedStateNotOverLiveSocket, is_open
<1>2. SocketInv => /\ LocalPortOfOpenSocket /\ BlockedEndpointCloses
                   /\ ClosedStateNotOverLiveSocket
  BY DEF SocketInv
<1> QED BY <1>1, <1>2, BaseInit, BaseStep, SocketInvStep, PTL DEF Spec

-----------------------------------------------------------------------------
(***************************************************************************)
(* An open UDP socket is served.                                           *)
(***************************************************************************)
ServingSteps == StrandSteps \cup CloseSteps

(* A step that leaves the receives, the connects, and the workers that are  *)
(* about to receive or to close alone keeps the reason why an open socket   *)
(* is served.                                                               *)
LEMMA ServedKept ==
    ASSUME OpenSocketIsServed, is_open' => is_open,
           pending'["receive"] = pending["receive"],
           pending'["connect"] = pending["connect"],
           \A r \in Results \ {"aborted"} : ready'["receive"][r] = ready["receive"][r],
           ready'["connect"] = ready["connect"],
           FramesKept(ServingSteps)
    PROVE  OpenSocketIsServed'
<1>1. ReceiveDue => ReceiveDue'
  BY DEF ReceiveDue, FramesKept, ServingSteps
<1>2. ConnectCbkDue => ConnectCbkDue'
  BY DEF ConnectCbkDue
<1>3. CloseDue => CloseDue'
  BY DEF CloseDue, FramesKept, ServingSteps
<1> QED BY <1>1, <1>2, <1>3 DEF OpenSocketIsServed

(* A worker inside a strand callback serves the socket.                    *)
LEMMA ServedByWorker ==
    ASSUME NEW w \in Workers, frame'[w] \in StrandSteps
    PROVE  OpenSocketIsServed'
BY DEF OpenSocketIsServed, ReceiveDue

(* The shared callbacks leave an open socket with a receive, or with a      *)
(* callback to come that starts one or closes it.                           *)
LEMMA ServedCallbacks ==
    ASSUME Base, OpenSocketIsServed, NEW w \in Workers, SharedCallbacks(w, Udp)
    PROVE  OpenSocketIsServed'
<1>0. /\ ClientTypeOK /\ w \in Threads
      /\ \A c \in {"connect", "receive", "send"} : c \in Callbacks
      /\ \A r \in {"lost", "aborted", "done"} : r \in Results
  BY DEF Base, Threads, Callbacks, Results
<1>1. ASSUME NEW r \in Results, connect_cbk(w, r)
      PROVE  OpenSocketIsServed'
  <2>1. frame'[w] \in StrandSteps
    BY <1>0, <1>1, GotoLemma DEF connect_cbk, Steps, StrandSteps
  <2> QED BY <2>1, ServedByWorker
<1>2. CASE set_local_port(w)
  <2>1. frame'[w] \in StrandSteps
    BY <1>0, <1>2, GotoLemma DEF set_local_port, Steps, StrandSteps
  <2> QED BY <2>1, ServedByWorker
<1>3. ASSUME NEW r \in {"lost", "aborted", "done"}, Dispatch(w, "send", r),
             UNCHANGED <<sock, pending>>,
             UNCHANGED frame \/ \E s \in Steps : Goto(w, s)
      PROVE  OpenSocketIsServed'
  <2>1. FramesKept(ServingSteps)
    <3>1. frame[w] \notin ServingSteps
      BY <1>3 DEF Dispatch, ServingSteps, StrandSteps, CloseSteps
    <3> QED BY <1>0, <1>3, <3>1, GotoKeeps DEF FramesKept
  <2>2. ready'["connect"] = ready["connect"] /\ ready'["receive"] = ready["receive"]
    BY <1>0, <1>3, DispatchLemma
  <2> QED BY <1>3, <2>1, <2>2, ServedKept DEF is_open
<1>4. CASE send_cbk_lost(w)
  BY <1>3, <1>4 DEF send_cbk_lost, Steps
<1>5. CASE send_cbk_aborted(w)
  BY <1>3, <1>5 DEF send_cbk_aborted, Steps, CloseSteps
<1>6. CASE send_cbk_done(w)
  BY <1>3, <1>6 DEF send_cbk_done
<1>7. CASE recreate(w) \/ close(w)
  BY <1>0, <1>7, ShutdownLemma DEF recreate, close, OpenSocketIsServed, is_open
<1>8. CASE reconnect(w, Udp)
  BY <1>8, UdpIsProtocol, ConnectLemma DEF reconnect, OpenSocketIsServed
<1> QED BY <1>1, <1>2, <1>4, <1>5, <1>6, <1>7, <1>8 DEF SharedCallbacks

(* So do the application's calls.                                           *)
LEMMA ServedCalls ==
    ASSUME Base, OpenSocketIsServed, NEW t \in Callers, SharedCalls(t, Udp)
    PROVE  OpenSocketIsServed'
<1>0. ClientTypeOK /\ t \in Threads /\ t \notin Workers
  BY ThreadsAssumption DEF Base, Threads
<1>1. CASE start(t, Udp)
  BY <1>1, UdpIsProtocol, ConnectLemma DEF start, OpenSocketIsServed
<1>2. CASE stop(t)
  BY <1>0, <1>2, ShutdownLemma DEF stop, OpenSocketIsServed, is_open
<1>3. ASSUME UNCHANGED socketVars, UNCHANGED frame \/ \E s \in Steps : Goto(t, s)
      PROVE  OpenSocketIsServed'
  <2>1. FramesKept(ServingSteps)
    BY <1>0, <1>3, GotoLemma DEF FramesKept, Threads
  <2> QED BY <1>3, <2>1, ServedKept DEF socketVars, is_open
<1>4. ASSUME NEW b \in BOOLEAN, set_connected(t, b) \/ set_established(t, b)
      PROVE  OpenSocketIsServed'
  BY <1>3, <1>4 DEF set_connected, set_established, Steps
<1>5. CASE set_established_locked(t)
  BY <1>3, <1>5 DEF set_established_locked, Steps
<1> QED BY <1>1, <1>2, <1>4, <1>5 DEF SharedCalls

(* The receive loop: receive_cbk hands the receive on to receive(), which   *)
(* starts the next one while the socket is open.                            *)
LEMMA ServedStep == Base /\ OpenSocketIsServed /\ [Next]_vars => OpenSocketIsServed'
<1> SUFFICES ASSUME Base, OpenSocketIsServed, [Next]_vars
             PROVE  OpenSocketIsServed'
  OBVIOUS
<1>0. /\ ClientTypeOK /\ pending \in Pendings /\ ready \in Readies
      /\ \A c \in {"connect", "receive", "send"} : c \in Callbacks
      /\ \A r \in {"done", "refused", "lost", "no_destination"} : r \in Results
      /\ \A w \in Workers : w \in Threads
  BY DEF Base, ClientTypeOK, Pendings, Readies, Callbacks, Results, Threads
<1>a. /\ "idle" \in Steps /\ "receive_cbk.close" \in Steps /\ "receive_cbk.receive" \in Steps
  BY DEF Steps, StrandSteps
<1>1. ASSUME NEW w \in Workers, send_cbk_no_destination(w)
      PROVE  OpenSocketIsServed'
  <2>1. ready'["connect"] = ready["connect"] /\ ready'["receive"] = ready["receive"]
    BY <1>0, <1>1, DispatchLemma DEF send_cbk_no_destination
  <2> QED BY <1>1, <2>1, ServedKept DEF send_cbk_no_destination, FramesKept, is_open
<1>2. ASSUME NEW w \in Workers, receive(w)
      PROVE  OpenSocketIsServed'
  <2>1. pending["receive"] \in Nat /\ is_open' = is_open
    BY <1>0, <1>2 DEF Pendings, receive, is_open
  <2>2. is_open => pending'["receive"] = pending["receive"] + 1
    BY <1>0, <1>2, StartOpLemma DEF receive
  <2> QED BY <2>1, <2>2 DEF OpenSocketIsServed, ReceiveDue
<1>3. ASSUME NEW w \in Workers, NEW r \in Results, receive_cbk(w, r)
      PROVE  OpenSocketIsServed'
  <2>1. CASE r = "aborted"
    <3>1. /\ ready'["connect"] = ready["connect"]
          /\ \A s \in Results \ {"aborted"} : ready'["receive"][s] = ready["receive"][s]
      <4>1. Dispatch(w, "receive", "aborted") /\ "aborted" \in Results
        BY <1>3, <2>1 DEF receive_cbk
      <4>2. /\ \A s \in Results : s # "aborted" => ready'["receive"][s] = ready["receive"][s]
            /\ \A d \in Callbacks : d # "receive" => ready'[d] = ready[d]
        BY <1>0, <4>1, DispatchLemma
      <4> QED BY <1>0, <4>2
    <3>2. frame[w] = "idle" /\ Goto(w, "idle")
      BY <1>3, <2>1 DEF receive_cbk, Dispatch
    <3>3. FramesKept(ServingSteps)
      BY <1>0, <1>a, <3>2, GotoKeeps DEF ServingSteps, StrandSteps, CloseSteps
    <3> QED BY <1>3, <3>1, <3>3, ServedKept DEF receive_cbk, is_open
  <2>2. CASE r # "aborted"
    <3>1. \E s \in {"receive_cbk.close", "receive_cbk.receive"} : Goto(w, s)
      BY <1>3, <2>2 DEF receive_cbk
    <3>2. frame'[w] \in {"receive_cbk.close", "receive_cbk.receive"}
      BY <1>0, <1>a, <3>1, GotoLemma
    <3> QED BY <3>2, ServedByWorker DEF StrandSteps
  <2> QED BY <2>1, <2>2
<1>4. ASSUME NEW t \in Callers, send_data(t)
      PROVE  OpenSocketIsServed'
  <2>1. /\ pending'["receive"] = pending["receive"] /\ ready'["receive"] = ready["receive"]
        /\ pending'["connect"] = pending["connect"] /\ ready'["connect"] = ready["connect"]
    <3>1. ASSUME NEW r \in {"lost", "no_destination"}, ready' = Post(ready, "send", r)
          PROVE  ready'["receive"] = ready["receive"] /\ ready'["connect"] = ready["connect"]
      <4>1. r \in Results /\ "connect" # "send" /\ "receive" # "send"
        BY <1>0
      <4>2. Post(ready, "send", r)["connect"] = ready["connect"]
        BY <1>0, <4>1, PostLemma
      <4>3. Post(ready, "send", r)["receive"] = ready["receive"]
        BY <1>0, <4>1, PostLemma
      <4> QED BY <3>1, <4>2, <4>3
    <3>2. CASE UNCHANGED pending /\ \E r \in {"lost", "no_destination"} :
                                      ready' = Post(ready, "send", r)
      BY <3>1, <3>2
    <3>3. CASE pending' = StartOp(pending, "send") /\ UNCHANGED ready
      BY <1>0, <3>3, StartOpLemma
    <3> QED BY <1>4, <3>2, <3>3 DEF send_data
  <2>2. is_open' => is_open
    BY <1>4 DEF send_data, is_open
  <2> QED BY <1>4, <2>1, <2>2, ServedKept DEF send_data, FramesKept
<1>5. CASE Kernel
  <2>1. PICK c \in {"receive", "send"}, r \in {"done", "refused", "lost"} : OpDone(c, r)
    BY <1>5 DEF Kernel, DatagramArrives, PeerRefuses, SendDone
  <2>2. /\ c \in Callbacks /\ r \in Results /\ r # "aborted" /\ c # "connect"
        /\ pending[c] > 0 /\ UNCHANGED <<sock, frame>>
        /\ pending' = EndOp(pending, c) /\ ready' = Post(ready, c, r)
    BY <1>0, <2>1 DEF OpDone
  <2>3. /\ ready'[c][r] = ready[c][r] + 1
        /\ \A d \in Callbacks : d # c => ready'[d] = ready[d]
    <3>1. ready \in Readies /\ c \in Callbacks /\ r \in Results
      BY <1>0, <2>2
    <3>2. ready' = Post(ready, c, r)
      BY <2>2
    <3> QED BY <3>1, <3>2, PostLemma
  <2>4. \A d \in Callbacks : d # c => pending'[d] = pending[d]
    BY <1>0, <2>2, EndOpLemma
  <2>5. CASE c = "receive"
    <3>1. ready["receive"][r] \in Nat
      BY <1>0, <2>2 DEF Readies
    <3> QED BY <2>2, <2>3, <2>5, <3>1 DEF OpenSocketIsServed, ReceiveDue
  <2>6. CASE c = "send"
    <3>1. /\ pending'["receive"] = pending["receive"] /\ ready'["receive"] = ready["receive"]
          /\ pending'["connect"] = pending["connect"] /\ ready'["connect"] = ready["connect"]
      BY <1>0, <2>3, <2>4, <2>6
    <3> QED BY <2>2, <3>1, ServedKept DEF FramesKept, is_open
  <2> QED BY <2>5, <2>6
<1>6. CASE UNCHANGED vars
  BY <1>6, ServedKept DEF vars, clientVars, socketVars, FramesKept, is_open
<1> QED BY <1>1, <1>2, <1>3, <1>4, <1>5, <1>6, ServedCallbacks, ServedCalls
        DEF Next, Worker, Caller

(* No open UDP socket goes deaf, however many callbacks of sockets that were *)
(* replaced are still to come.                                               *)
THEOREM OpenSocketIsServedHolds == Spec => []OpenSocketIsServed
<1>1. Init => OpenSocketIsServed
  BY DEF Init, ClientInit, OpenSocketIsServed, is_open
<1> QED BY <1>1, BaseInit, BaseStep, ServedStep, PTL DEF Spec

-----------------------------------------------------------------------------
(***************************************************************************)
(* A stopped UDP socket.                                                   *)
(***************************************************************************)

(* After a quiet stop receive() finds the socket closed and the kernel has  *)
(* nothing to finish; a send ends the promise.                              *)
LEMMA QuietInvStep == Base /\ QuietInv /\ [Next]_vars => QuietInv'
<1> SUFFICES ASSUME Base, QuietInv, [Next]_vars
             PROVE  QuietInv'
  OBVIOUS
<1>0. /\ ClientTypeOK
      /\ \A c \in {"connect", "receive", "send"} : c \in Callbacks
      /\ \A r \in {"lost", "partial", "orphaned", "no_destination"} : r \in Results
      /\ \A w \in Workers : w \in Threads
  BY DEF Base, Callbacks, Results, Threads
<1>a. /\ "idle" \in Steps /\ "receive_cbk.close" \in Steps /\ "receive_cbk.receive" \in Steps
  BY DEF Steps, StrandSteps
<1>1. ASSUME NEW w \in Workers, send_cbk_no_destination(w)
      PROVE  QuietInv'
  <2>1. \A r \in {"lost", "partial", "orphaned"} : ready'["send"][r] = ready["send"][r]
    <3>1. Dispatch(w, "send", "no_destination")
      BY <1>1 DEF send_cbk_no_destination
    <3>2. \A s \in Results : s # "no_destination" => ready'["send"][s] = ready["send"][s]
      BY <1>0, <3>1, DispatchLemma
    <3> QED BY <1>0, <3>2
  <2> QED BY <1>1, <2>1
          DEF send_cbk_no_destination, QuietInv, NoReconnectDue, historyVars
<1>2. ASSUME NEW w \in Workers, receive(w)
      PROVE  QuietInv'
  <2>1. \A u \in Workers : frame'[u] \in {frame[u], "idle"}
    BY <1>0, <1>a, <1>2, GotoLemma DEF receive
  <2>2. sock = "closed" => pending' = pending
    BY <1>2 DEF receive, is_open
  <2> QED BY <1>2, <2>1, <2>2 DEF receive, QuietInv, NoReconnectDue, historyVars
<1>3. ASSUME NEW w \in Workers, NEW r \in Results, receive_cbk(w, r)
      PROVE  QuietInv'
  <2>1. ready'["send"] = ready["send"]
    BY <1>0, <1>3, DispatchLemma DEF receive_cbk
  <2>2. \E s \in {"idle", "receive_cbk.close", "receive_cbk.receive"} : Goto(w, s)
    BY <1>3 DEF receive_cbk
  <2>3. \A u \in Workers :
           frame'[u] \in {frame[u], "idle", "receive_cbk.close", "receive_cbk.receive"}
    BY <1>0, <1>a, <2>2, GotoLemma
  <2> QED BY <1>3, <2>1, <2>3 DEF receive_cbk, QuietInv, NoReconnectDue
<1>4. ASSUME NEW t \in Callers, send_data(t)
      PROVE  QuietInv'
  BY <1>4 DEF send_data, QuietInv
<1>5. CASE Kernel
  <2>1. PICK c \in {"receive", "send"} : pending[c] > 0 /\ quietStop' = quietStop
    BY <1>5 DEF Kernel, DatagramArrives, PeerRefuses, SendDone, OpDone, historyVars
  <2>2. ~quietStop
    BY <1>0, <2>1 DEF QuietInv
  <2> QED BY <2>1, <2>2 DEF QuietInv
<1>6. CASE UNCHANGED vars
  BY <1>6 DEF vars, clientVars, socketVars, historyVars, QuietInv, NoReconnectDue
<1> QED BY <1>1, <1>2, <1>3, <1>4, <1>5, <1>6, QuietCallbacks, QuietCalls
        DEF Next, Worker, Caller

(* stop() keeps its promise until start() or the next send.                *)
THEOREM UdpStopHolds == Spec => []StoppedStaysClosed
<1>1. Init => QuietInv
  BY DEF Init, ClientInit, QuietInv
<1>2. QuietInv => StoppedStaysClosed
  BY DEF QuietInv, StoppedStaysClosed, is_open
<1> QED BY <1>1, <1>2, BaseInit, BaseStep, QuietInvStep, PTL DEF Spec

-----------------------------------------------------------------------------
(* The own steps of the UDP endpoint start one callback that closes, the    *)
(* one on a refusal of the peer, and leave an open socket open.             *)
LEMMA KeptInvStep == Base /\ KeptInv /\ [Next]_vars => KeptInv'
<1> SUFFICES ASSUME Base, KeptInv, [Next]_vars
             PROVE  KeptInv'
  OBVIOUS
<1>1. CASE OwnStep
  <2>1. CASE ~kept'
    BY <2>1 DEF KeptInv
  <2>2. CASE kept'
    <3>1. /\ is_open => is_open'
          /\ ready'["connect"]["aborted"] = ready["connect"]["aborted"]
          /\ sendingBlocked' = sendingBlocked
      BY <1>1 DEF OwnStep, is_open
    <3>2. FramesKept({"send_cbk.connect"})
      BY <1>1 DEF OwnStep, FramesKept
    <3>3. kept /\ \A u \in Workers : frame'[u] \in CloseSteps => frame[u] \in CloseSteps
      BY <1>1, <2>2 DEF OwnStep
    <3> QED BY <3>1, <3>2, <3>3, KeptKept
  <2> QED BY <2>1, <2>2
<1>2. ClientTypeOK
  BY DEF Base
<1> QED BY <1>1, <1>2, StepCases, UdpIsProtocol, KeptCallbacks, KeptCalls

(* An endpoint that connect() opened stays open, or is about to connect     *)
(* again, as long as it is not blocked and none of the reasons listed with  *)
(* the property has come up, for any number of threads.                     *)
THEOREM UdpClosesForAReason == Spec => []ClosesForAReason
<1>1. Init => KeptInv
  BY DEF Init, ClientInit, KeptInv
<1>2. KeptInv => ClosesForAReason
  BY DEF KeptInv, ClosesForAReason, Reconnecting
<1> QED BY <1>1, <1>2, BaseInit, BaseStep, KeptInvStep, PTL DEF Spec

-----------------------------------------------------------------------------
(***************************************************************************)
(* The endpoint implements ClientLink.                                     *)
(***************************************************************************)

(* What the shared steps do is a step of ClientLink, or none.               *)
LEMMA SharedLinkSteps ==
    ASSUME Base, sock' \in SockStates
    PROVE  /\ LinkKept => UNCHANGED Link!linkVars
           /\ Dials => Link!Start
           /\ Dials /\ ~quietStop => Link!Redial
           /\ PortRead => Link!LearnPort
           /\ Hangs => Link!Stop
           /\ Hangs /\ UNCHANGED quietStop => Link!Close
<1>0. sock \in SockStates /\ quietStop \in BOOLEAN
  BY DEF Base, ClientTypeOK
<1>1. LinkKept => UNCHANGED Link!linkVars
  BY DEF LinkKept, Link!linkVars, LinkOf
<1>2. Dials => Link!Dialled
  BY <1>0 DEF Dials, Link!Dialled, LinkOf, SockStates
<1>3. PortRead => Link!LearnPort
  BY <1>0 DEF PortRead, Link!LearnPort, LinkOf, SockStates, is_open
<1>4. Hangs => LinkOf' = "closed"
  BY DEF Hangs, LinkOf
<1> QED BY <1>0, <1>1, <1>2, <1>3, <1>4
        DEF Dials, Hangs, Link!Start, Link!Redial, Link!Stop, Link!Close

(* Every step of the endpoint is a step of ClientLink or leaves it alone; a *)
(* send, which may have a callback open the socket, is its Wake.            *)
LEMMA LinkStep ==
    ASSUME Base, Base', QuietInv, LocalPortOfOpenSocket, [Next]_vars
    PROVE  [Link!Next]_(Link!linkVars)
<1>0. sock \in SockStates /\ sock' \in SockStates
  BY DEF Base, ClientTypeOK
<1>1. ASSUME NEW w \in Workers, SharedCallbacks(w, Udp)
      PROVE  [Link!Next]_(Link!linkVars)
  BY <1>0, <1>1, LinkCallbacks, SharedLinkSteps, UdpIsProtocol DEF Link!Next
<1>2. ASSUME NEW t \in Callers, SharedCalls(t, Udp)
      PROVE  [Link!Next]_(Link!linkVars)
  BY <1>0, <1>2, LinkCalls, SharedLinkSteps, UdpIsProtocol DEF Link!Next
<1>3. ASSUME NEW w \in Workers, \/ send_cbk_no_destination(w) \/ receive(w)
                                \/ \E r \in Results : receive_cbk(w, r)
      PROVE  LinkKept
  BY <1>3 DEF send_cbk_no_destination, receive, receive_cbk, LinkKept, historyVars
<1>4. ASSUME NEW t \in Callers, send_data(t)
      PROVE  Link!Wake
  BY <1>4 DEF send_data, Link!Wake, LinkOf
<1>5. ASSUME Kernel \/ UNCHANGED vars
      PROVE  LinkKept
  BY <1>5 DEF Kernel, DatagramArrives, PeerRefuses, SendDone, OpDone, LinkKept,
              vars, clientVars, socketVars, historyVars
<1> QED BY <1>0, <1>1, <1>2, <1>3, <1>4, <1>5, SharedLinkSteps
        DEF Next, Worker, Caller, Link!Next

(* The UDP client endpoint implements ClientLink too, with the one licence  *)
(* that a send on a stopped endpoint may open it again, for any number of   *)
(* threads and callbacks.                                                   *)
THEOREM UdpImplementsClientLink == Spec => ImplementsClientLink
<1>1. Init => Link!Init
  BY DEF Init, ClientInit, Link!Init, LinkOf
<1>2. Base /\ Base' /\ QuietInv /\ LocalPortOfOpenSocket /\ [Next]_vars
        => [Link!Next]_(Link!linkVars)
  BY LinkStep
<1>3. Init => Base /\ QuietInv
  BY BaseInit DEF Init, ClientInit, QuietInv
<1>4. Base /\ QuietInv /\ [Next]_vars => (Base /\ QuietInv)'
  BY BaseStep, QuietInvStep
<1> QED BY <1>1, <1>2, <1>3, <1>4, UdpSocketInvHolds, PTL
        DEF Spec, ImplementsClientLink, Link!Spec

-----------------------------------------------------------------------------
(***************************************************************************)
(* Whom the client talks to.  The datagrams that pass are those of the     *)
(* target, once it is clear that no UDP socket is ever connecting and that *)
(* one which is neither connected nor unconnected receives nothing.        *)
(***************************************************************************)
NeverConnecting == sock # "connecting"

ToPeer ==
    /\ remote = Peer /\ strays = {}
    /\ target \in {Peer, Nobody}
    /\ sock # "unconnected"
    /\ sock = "connected" => target = Peer

RemoteInv == exposed \in BOOLEAN /\ NeverConnecting /\ (~exposed => ToPeer)

(* The addresses only watch: the client with them takes the steps of the    *)
(* client without.                                                          *)
LEMMA RemoteSteps == [RemoteNext]_remoteVars => [Next]_vars
BY DEF RemoteNext, remoteVars, ReceivedFrom, Next, Kernel

(* connect() of a datagram socket ends at once.                             *)
LEMMA NeverConnectingStep ==
    ASSUME NeverConnecting, ClientTypeOK, [Next]_vars
    PROVE  NeverConnecting'
<1>1. ASSUME connect(Udp)
      PROVE  NeverConnecting'
  BY <1>1 DEF connect, Udp, OpenFails, BindFails, async_connect, NeverConnecting
<1>2. ASSUME NEW b, shutdown_and_close_socket(b)
      PROVE  NeverConnecting'
  BY <1>2 DEF shutdown_and_close_socket, NeverConnecting
<1>3. ASSUME UNCHANGED sock
      PROVE  NeverConnecting'
  BY <1>3 DEF NeverConnecting
<1>4. ASSUME NEW w \in Workers, SharedCallbacks(w, Udp)
      PROVE  NeverConnecting'
  BY <1>1, <1>2, <1>3, <1>4
     DEF SharedCallbacks, connect_cbk, set_local_port, send_cbk_lost, send_cbk_aborted,
         send_cbk_done, recreate, reconnect, close
<1>5. ASSUME NEW t \in Callers, SharedCalls(t, Udp)
      PROVE  NeverConnecting'
  BY <1>1, <1>2, <1>3, <1>5
     DEF SharedCalls, start, stop, set_connected, set_established,
         set_established_locked, socketVars
<1>6. CASE OwnStep
  BY <1>6 DEF OwnStep, NeverConnecting
<1> QED BY <1>4, <1>5, <1>6, StepCases

(* A step that sets the target to remote_ keeps it the peer; a datagram that *)
(* passes is the target's.                                                   *)
LEMMA RemoteStep == Base /\ RemoteInv /\ [RemoteNext]_remoteVars => RemoteInv'
<1> SUFFICES ASSUME Base, RemoteInv, [RemoteNext]_remoteVars
             PROVE  RemoteInv'
  OBVIOUS
<1>0. exposed \in BOOLEAN /\ sock \in SockStates /\ NeverConnecting /\ (~exposed => ToPeer)
  BY DEF Base, ClientTypeOK, RemoteInv
<1>1. NeverConnecting'
  BY <1>0, RemoteSteps, NeverConnectingStep DEF Base
<1>2. CASE Addressed
  <2>1. exposed' \in BOOLEAN
    BY <1>0, <1>2 DEF Addressed
  <2>2. ASSUME ~exposed'
        PROVE  ToPeer'
    <3>1. ~exposed /\ strays' = {} /\ sock' # "unconnected" /\ remote' = remote
      BY <1>2, <2>2 DEF Addressed
    <3>2. ToPeer
      BY <1>0, <3>1
    <3> QED BY <1>2, <3>1, <3>2 DEF Addressed, ToPeer
  <2> QED BY <1>1, <2>1, <2>2 DEF RemoteInv
<1>3. ASSUME NEW sender, ReceivedFrom(sender)
      PROVE  RemoteInv'
  <2>1. exposed' = exposed /\ target' = target /\ sock' = sock
    BY <1>3 DEF ReceivedFrom, DatagramArrives, OpDone
  <2>2. ASSUME ~exposed
        PROVE  ToPeer'
    <3>1. ToPeer /\ sock = "connected"
      BY <1>0, <1>3, <2>2 DEF ReceivedFrom, DatagramArrives, IsBound, NeverConnecting, ToPeer
    <3>2. sender = Peer
      BY <1>3, <3>1 DEF ReceivedFrom, ToPeer
    <3> QED BY <1>3, <2>1, <3>1, <3>2 DEF ReceivedFrom, ToPeer
  <2> QED BY <1>0, <1>1, <2>1, <2>2 DEF RemoteInv
<1>4. CASE UNCHANGED remoteVars
  <2>1. UNCHANGED <<sock, remote, target, strays, exposed>>
    BY <1>4 DEF remoteVars, vars, clientVars, socketVars
  <2> QED BY <1>0, <1>1, <2>1 DEF RemoteInv, ToPeer
<1> QED BY <1>2, <1>3, <1>4 DEF RemoteNext

(* The client with its addresses is the client, so that every theorem about  *)
(* Spec is one about RemoteSpec.                                             *)
THEOREM RemoteIsUdpClient == RemoteSpec => Spec
<1>1. RemoteInit => Init
  BY DEF RemoteInit
<1> QED BY <1>1, RemoteSteps, PTL DEF RemoteSpec, Spec

(* A client that no stray datagram reached and whose connects did not fail   *)
(* keeps the peer it was made for, although every datagram overwrites        *)
(* remote_: for any senders, threads and callbacks.                          *)
THEOREM PeerKeptHolds == RemoteSpec => []PeerKeptUnlessExposed
<1>1. RemoteInit => RemoteInv
  BY DEF RemoteInit, Init, ClientInit, RemoteInv, ToPeer, NeverConnecting
<1>2. RemoteInv => PeerKeptUnlessExposed
  BY DEF RemoteInv, ToPeer, PeerKeptUnlessExposed
<1>3. RemoteSpec => []Base
  BY RemoteIsUdpClient, BaseInit, BaseStep, PTL DEF Spec
<1> QED BY <1>1, <1>2, <1>3, RemoteStep, PTL DEF RemoteSpec
=============================================================================
