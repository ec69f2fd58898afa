---------------------- MODULE TcpClientEndpoint_proofs ----------------------
(***************************************************************************)
(* Theorems about TcpClientEndpoint, for any sets of threads and any bound *)
(* on the callbacks outstanding.  TypeInv is inductive and carries the     *)
(* others.  At the end, those about TcpClientStream, for any messages of   *)
(* any number of parts and any number of connections.                      *)
(***************************************************************************)
EXTENDS TcpClientEndpoint, TcpClientStream, ClientEndpoint_proofs

TypeInv == TypeOK /\ OneConnectInProgress

(* TCP is a protocol the lemmas on the shared actions speak of.            *)
LEMMA TcpIsProtocol == IsProtocol(Tcp)
BY DEF IsProtocol, Tcp

(* What TypeInv says of the shared variables.                              *)
LEMMA TypeInvBase == TypeInv <=> Base /\ isSending \in BOOLEAN
BY DEF TypeInv, TypeOK, Base

-----------------------------------------------------------------------------
(* WriteSome only adds: a pending send, or a completion on top of rest.    *)
LEMMA WriteSomeLemma ==
    ASSUME ClientTypeOK, NEW rest \in Readies, WriteSome(rest)
    PROVE  /\ pending' \in Pendings /\ ready' \in Readies
           /\ pending'["connect"] = pending["connect"]
           /\ \A r \in Results : ready'["connect"][r] = rest["connect"][r]
<1>0. /\ pending \in Pendings /\ "send" \in Callbacks /\ "connect" \in Callbacks
      /\ "lost" \in Results /\ "done" \in Results
  BY DEF ClientTypeOK, Pendings, Callbacks, Results
<1>1. ASSUME NEW r \in {"lost", "done"}
      PROVE  /\ Post(rest, "send", r) \in Readies
             /\ \A s \in Results : Post(rest, "send", r)["connect"][s] = rest["connect"][s]
  <2>1. r \in Results
    BY <1>0
  <2>2. Post(rest, "send", r) \in Readies
    BY <1>0, <2>1, PostLemma
  <2>3. "connect" # "send" => Post(rest, "send", r)["connect"] = rest["connect"]
    BY <1>0, <2>1, PostLemma
  <2> QED BY <2>2, <2>3
<1>2. CASE pending' = StartOp(pending, "send") /\ ready' = rest
  BY <1>0, <1>2, StartOpLemma
<1>3. ASSUME NEW r \in {"lost", "done"}, ready' = Post(rest, "send", r), UNCHANGED pending
      PROVE  /\ pending' \in Pendings /\ ready' \in Readies
             /\ pending'["connect"] = pending["connect"]
             /\ \A s \in Results : ready'["connect"][s] = rest["connect"][s]
  BY <1>0, <1>1, <1>3
<1> QED BY <1>2, <1>3 DEF WriteSome

(* The next part of a half-written send leaves the connects alone, wherever *)
(* it is written.                                                           *)
LEMMA WriteOnLemma ==
    ASSUME ClientTypeOK, NEW w, write_completion_condition(w)
    PROVE  /\ pending' \in Pendings /\ ready' \in Readies
           /\ pending'["connect"] = pending["connect"]
           /\ \A r \in Results : ready'["connect"][r] = ready["connect"][r]
           /\ ready["send"]["partial"] > 0 \/ ready["send"]["orphaned"] > 0
<1>0. /\ pending \in Pendings /\ ready \in Readies
      /\ "send" \in Callbacks /\ "connect" \in Callbacks /\ "connect" # "send"
      /\ \A r \in {"partial", "orphaned", "lost"} : r \in Results
  BY DEF ClientTypeOK, Pendings, Readies, Callbacks, Results
<1>1. PICK r \in {"partial", "orphaned"} :
        ready["send"][r] > 0 /\ WriteOn(Take(ready, "send", r), r)
  BY DEF write_completion_condition
<1> DEFINE rest == Take(ready, "send", r)
<1>2. rest \in Readies /\ rest["connect"] = ready["connect"]
  BY <1>0, <1>1, TakeLemma
<1> HIDE DEF rest
<1>3. CASE WriteSome(rest)
  BY <1>1, <1>2, <1>3, WriteSomeLemma
<1>4. CASE ready' = Post(rest, "send", "lost") /\ UNCHANGED pending
  <2>1. rest \in Readies /\ "lost" \in Results
    BY <1>0, <1>2
  <2>2. /\ Post(rest, "send", "lost") \in Readies
        /\ Post(rest, "send", "lost")["connect"] = rest["connect"]
    BY <1>0, <2>1, PostLemma
  <2> QED BY <1>0, <1>1, <1>2, <1>4, <2>2
<1> QED BY <1>1, <1>3, <1>4 DEF WriteOn, rest

(* An operation that ends was pending, and its completion is queued.       *)
LEMMA OpDoneLemma ==
    ASSUME ClientTypeOK, NEW c \in Callbacks \ {"connect"}, NEW r \in Results, OpDone(c, r)
    PROVE  /\ pending' \in Pendings /\ ready' \in Readies
           /\ pending'["connect"] = pending["connect"]
           /\ \A s \in Results : ready'["connect"][s] = ready["connect"][s]
<1>1. pending \in Pendings /\ ready \in Readies /\ "connect" \in Callbacks
  BY DEF ClientTypeOK, Pendings, Readies, Callbacks
<1>2. pending' \in Pendings /\ pending'["connect"] = pending["connect"]
  BY <1>1, EndOpLemma DEF OpDone
<1>3. ready' \in Readies /\ \A s \in Results : ready'["connect"][s] = ready["connect"][s]
  BY <1>1, PostLemma DEF OpDone
<1> QED BY <1>2, <1>3

(* When the connection fails nothing stays pending, and every connect_cbk   *)
(* that was due is queued.                                                  *)
LEMMA ConnectionFailsLemma ==
    ASSUME ClientTypeOK, ConnectionFails
    PROVE  /\ pending' \in Pendings /\ ready' \in Readies
           /\ \A c \in Callbacks : pending'[c] = 0
           /\ ready'["connect"]["failed"] = ready["connect"]["failed"] + pending["connect"]
           /\ \A r \in Results \ {"failed"} : ready'["connect"][r] = ready["connect"][r]
<1>1. pending \in Pendings /\ ready \in Readies
  BY DEF ClientTypeOK, Pendings, Readies
<1>2. pending' \in Pendings /\ \A c \in Callbacks : pending'[c] = 0
  BY <1>1, CloseLemma DEF ConnectionFails
<1>3. PICK logged \in 0..pending["send"] :
        ready' = [ready EXCEPT
                    !["connect"]["failed"] = @ + pending["connect"],
                    !["receive"]["done"] = @ + pending["receive"],
                    !["send"]["lost"] = @ + (pending["send"] - logged),
                    !["send"]["done"] = @ + logged]
  BY DEF ConnectionFails
<1>4. /\ pending["connect"] \in Nat /\ pending["receive"] \in Nat
      /\ pending["send"] - logged \in Nat /\ logged \in Nat
  BY <1>1, <1>3 DEF Pendings, Callbacks
<1> QED BY <1>1, <1>2, <1>3, <1>4 DEF Readies, Callbacks, Results

-----------------------------------------------------------------------------
(* Every step of the endpoint keeps TypeInv.                               *)
LEMMA TypeInvStep == TypeInv /\ [Next]_vars => TypeInv'
<1> SUFFICES ASSUME TypeInv, [Next]_vars
             PROVE  Base' /\ isSending' \in BOOLEAN
  BY TypeInvBase DEF TypeInv, TypeOK, Base
<1>0. /\ Base /\ ClientTypeOK /\ isSending \in BOOLEAN
      /\ pending \in Pendings /\ ready \in Readies
      /\ \A c \in {"connect", "receive", "send"} : c \in Callbacks
  BY TypeInvBase DEF Base, ClientTypeOK, Pendings, Readies, Callbacks
<1>1. ASSUME NEW w \in Workers, SharedCallbacks(w, Tcp), UNCHANGED isSending
      PROVE  Base' /\ isSending' \in BOOLEAN
  BY <1>0, <1>1, TcpIsProtocol, BaseCallbacks
<1>2. ASSUME NEW t \in Callers, SharedCalls(t, Tcp), UNCHANGED isSending
      PROVE  Base' /\ isSending' \in BOOLEAN
  BY <1>0, <1>2, TcpIsProtocol, BaseCalls
<1>3. ASSUME NEW w \in Workers, receive(w)
      PROVE  Base' /\ isSending' \in BOOLEAN
  <2>1. frame' \in [Threads -> Steps]
    BY <1>0, <1>3, GotoLemma DEF receive, Threads, Steps
  <2>2. /\ pending' \in Pendings /\ ready' \in Readies
        /\ pending'["connect"] = pending["connect"]
    <3>1. "done" \in Results /\ "connect" # "receive"
      BY DEF Results
    <3>2. CASE UNCHANGED <<pending, ready>>
      BY <1>0, <3>2
    <3>3. CASE ready' = Post(ready, "receive", "done") /\ UNCHANGED pending
      BY <1>0, <3>1, <3>3, PostLemma
    <3>4. CASE pending' = StartOp(pending, "receive") /\ UNCHANGED ready
      BY <1>0, <3>1, <3>4, StartOpLemma
    <3> QED BY <1>3, <3>2, <3>3, <3>4 DEF receive
  <2> QED BY <1>0, <1>3, <2>1, <2>2
          DEF Base, receive, ClientTypeOK, OneConnectInProgress, Pendings, Readies,
              flagVars, historyVars
<1>4. ASSUME NEW w \in Workers, NEW r \in Results, receive_cbk(w, r)
      PROVE  Base' /\ isSending' \in BOOLEAN
  <2>1. ready' \in Readies
    BY <1>0, <1>4, DispatchLemma DEF receive_cbk
  <2> QED BY <1>0, <1>4, <2>1
          DEF Base, receive_cbk, ClientTypeOK, OneConnectInProgress, Readies,
              flagVars, historyVars
<1>5. ASSUME NEW w \in Workers, write_completion_condition(w)
      PROVE  Base' /\ isSending' \in BOOLEAN
  <2>1. /\ pending' \in Pendings /\ ready' \in Readies
        /\ pending'["connect"] = pending["connect"]
    BY <1>0, <1>5, WriteOnLemma
  <2> QED BY <1>0, <1>5, <2>1
          DEF Base, write_completion_condition, ClientTypeOK, OneConnectInProgress,
              Pendings, Readies, flagVars, historyVars
<1>6. ASSUME NEW t \in Callers, send_data(t)
      PROVE  Base' /\ isSending' \in BOOLEAN
  <2>1. /\ pending' \in Pendings /\ ready' \in Readies
        /\ pending'["connect"] = pending["connect"]
    BY <1>0, <1>6, WriteSomeLemma DEF send_data
  <2> QED BY <1>0, <1>6, <2>1
          DEF Base, send_data, ClientTypeOK, OneConnectInProgress,
              Pendings, Readies, flagVars, historyVars
<1>7. CASE ConnectDone /\ UNCHANGED isSending
  <2>1. pending["connect"] = 1 /\ pending["connect"] > 0
    BY <1>0, <1>7 DEF Base, OneConnectInProgress, ConnectDone
  <2>2. pending' \in Pendings /\ pending'["connect"] = 1 - 1
    BY <1>0, <1>7, <2>1, EndOpLemma DEF ConnectDone
  <2>3. ready' \in Readies
    BY <1>0, <1>7, PostLemma DEF ConnectDone, Results
  <2> QED BY <1>0, <1>7, <2>2, <2>3
          DEF Base, ConnectDone, ClientTypeOK, OneConnectInProgress, Pendings, Readies,
              SockStates, flagVars, historyVars
<1>8. CASE ConnectionFails /\ UNCHANGED isSending
  <2>1. /\ pending' \in Pendings /\ ready' \in Readies /\ pending'["connect"] = 0
        /\ sock' = "unconnected"
    BY <1>0, <1>8, ConnectionFailsLemma DEF ConnectionFails
  <2> QED BY <1>0, <1>8, <2>1
          DEF Base, ConnectionFails, ClientTypeOK, OneConnectInProgress, Pendings, Readies,
              SockStates, flagVars, historyVars
<1>9. CASE (SendDone \/ ReceiveDone) /\ UNCHANGED isSending
  <2>1. PICK c \in {"receive", "send"}, r \in {"done", "partial"} : OpDone(c, r)
    BY <1>9 DEF SendDone, ReceiveDone
  <2>2. /\ pending' \in Pendings /\ ready' \in Readies
        /\ pending'["connect"] = pending["connect"]
    BY <1>0, <2>1, OpDoneLemma DEF Results
  <2> QED BY <1>0, <1>9, <2>1, <2>2
          DEF Base, OpDone, ClientTypeOK, OneConnectInProgress, Pendings, Readies,
              flagVars, historyVars
<1>10. CASE UNCHANGED vars
  BY <1>0, <1>10
     DEF Base, vars, clientVars, socketVars, flagVars, historyVars, ClientTypeOK,
         OneConnectInProgress
<1> QED BY <1>1, <1>2, <1>3, <1>4, <1>5, <1>6, <1>7, <1>8, <1>9, <1>10
        DEF Next, Worker, Caller, Kernel

(* The constructor establishes TypeInv, whatever it leaves in is_sending_.  *)
LEMMA TypeInvInit == Init => TypeInv
<1> SUFFICES ASSUME Init
             PROVE  TypeInv
  OBVIOUS
<1>1. /\ pending = [c \in Callbacks |-> 0] /\ "connect" \in Callbacks
      /\ ready = [c \in Callbacks |-> [r \in Results |-> 0]]
      /\ frame = [t \in Threads |-> "idle"] /\ "idle" \in Steps
  BY DEF Init, ClientInit, Callbacks, Steps
<1>2. /\ state \in cei_state_e /\ sock \in SockStates /\ sock # "connecting"
      /\ localPort \in BOOLEAN /\ sendingBlocked \in BOOLEAN
      /\ wasNotConnected \in BOOLEAN /\ everStopped \in BOOLEAN
      /\ quietStop \in BOOLEAN /\ appClosed \in BOOLEAN /\ kept \in BOOLEAN
      /\ isSending \in BOOLEAN
  BY DEF Init, ClientInit, cei_state_e, SockStates
<1>3. /\ pending \in [Callbacks -> Nat] /\ frame \in [Threads -> Steps]
      /\ pending["connect"] = 0
  BY <1>1
<1>4. ready \in [Callbacks -> [Results -> Nat]]
  BY <1>1
<1> QED BY <1>2, <1>3, <1>4 DEF TypeInv, TypeOK, ClientTypeOK, OneConnectInProgress

(* The variables keep their types, and the operation counts stay natural    *)
(* numbers: nothing completes that was not started, and there is never more *)
(* than one async_connect in progress, namely on a socket that connects.    *)
THEOREM TypeCorrect == Spec => [](TypeOK /\ OneConnectInProgress)
<1>1. TypeInv <=> TypeOK /\ OneConnectInProgress
  BY DEF TypeInv
<1> QED BY <1>1, TypeInvInit, TypeInvStep, PTL DEF Spec

-----------------------------------------------------------------------------
(* No step of the TCP endpoint opens a quietly stopped socket: send_data    *)
(* finds it closed, no half-written send goes on, the kernel has nothing to *)
(* finish.                                                                  *)
LEMMA QuietInvStep == TypeInv /\ QuietInv /\ [Next]_vars => QuietInv'
<1> SUFFICES ASSUME TypeInv, QuietInv, [Next]_vars
             PROVE  QuietInv'
  OBVIOUS
<1>0. /\ Base /\ ClientTypeOK /\ ready \in Readies
      /\ \A c \in {"connect", "receive", "send"} : c \in Callbacks
  BY TypeInvBase DEF Base, ClientTypeOK, Readies, Callbacks
<1>1. ASSUME NEW w \in Workers, SharedCallbacks(w, Tcp)
      PROVE  QuietInv'
  BY <1>0, <1>1, QuietCallbacks
<1>2. ASSUME NEW t \in Callers, SharedCalls(t, Tcp)
      PROVE  QuietInv'
  BY <1>0, <1>2, QuietCalls
<1>3. ASSUME NEW w \in Workers, receive(w)
      PROVE  QuietInv'
  <2>1. \A u \in Workers : frame'[u] \in {frame[u], "idle"}
    BY <1>0, <1>3, GotoLemma DEF receive, Threads, Steps
  <2>2. sock = "closed" => UNCHANGED <<pending, ready>>
    BY <1>3 DEF receive, NotConnected
  <2> QED BY <1>3, <2>1, <2>2 DEF receive, QuietInv, NoReconnectDue, historyVars
<1>4. ASSUME NEW w \in Workers, NEW r \in Results, receive_cbk(w, r)
      PROVE  QuietInv'
  <2>1. ready'["send"] = ready["send"]
    BY <1>0, <1>4, DispatchLemma DEF receive_cbk
  <2> QED BY <1>4, <2>1 DEF receive_cbk, QuietInv, NoReconnectDue, historyVars
<1>5. ASSUME NEW w \in Workers, write_completion_condition(w)
      PROVE  QuietInv'
  BY <1>0, <1>5, WriteOnLemma
     DEF write_completion_condition, QuietInv, NoReconnectDue, historyVars
<1>6. ASSUME NEW t \in Callers, send_data(t)
      PROVE  QuietInv'
  BY <1>6 DEF send_data, is_open, QuietInv, historyVars
<1>7. CASE ConnectDone \/ ConnectionFails \/ SendDone \/ ReceiveDone
  BY <1>7 DEF ConnectDone, ConnectionFails, SendDone, ReceiveDone, OpDone, QuietInv,
             historyVars
<1>8. CASE UNCHANGED vars
  BY <1>8 DEF vars, clientVars, socketVars, historyVars, QuietInv, NoReconnectDue
<1> QED BY <1>1, <1>2, <1>3, <1>4, <1>5, <1>6, <1>7, <1>8
        DEF Next, Worker, Caller, Kernel

(* stop() keeps its promise: whatever completes, is sent or was queued      *)
(* afterwards, the socket of a quietly stopped endpoint stays closed until  *)
(* start().                                                                 *)
THEOREM StopHolds == Spec => []StoppedStaysClosed
<1>1. Init => TypeInv /\ QuietInv
  BY TypeInvInit DEF Init, ClientInit, QuietInv
<1>2. TypeInv /\ QuietInv /\ [Next]_vars => (TypeInv /\ QuietInv)'
  BY TypeInvStep, QuietInvStep
<1>3. QuietInv => StoppedStaysClosed
  BY DEF QuietInv, StoppedStaysClosed, is_open
<1> QED BY <1>1, <1>2, <1>3, PTL DEF Spec

-----------------------------------------------------------------------------
(* local_port_, sending_blocked_ and state_ go together with the socket     *)
(* through every step.                                                      *)
SocketInv ==
    LocalPortOfOpenSocket /\ BlockedEndpointCloses /\ ClosedStateNotOverLiveSocket

(* send_data, receive and receive_cbk do not touch them; the kernel turns a *)
(* pending connect into a queued connect_cbk and leaves a live socket bound.*)
LEMMA SocketInvStep == TypeInv /\ SocketInv /\ [Next]_vars => SocketInv'
<1> SUFFICES ASSUME TypeInv, SocketInv, [Next]_vars
             PROVE  SocketInv'
  OBVIOUS
<1>0. /\ Base /\ ClientTypeOK /\ pending \in Pendings /\ ready \in Readies
      /\ LocalPortOfOpenSocket /\ BlockedEndpointCloses /\ ClosedStateNotOverLiveSocket
      /\ \A c \in {"connect", "receive", "send"} : c \in Callbacks
      /\ \A r \in {"ok", "failed", "done", "partial"} : r \in Results
  BY TypeInvBase DEF SocketInv, Base, ClientTypeOK, Pendings, Readies, Callbacks, Results
<1>1. ASSUME NEW w \in Workers, SharedCallbacks(w, Tcp)
      PROVE  SocketInv'
  BY <1>0, <1>1, TcpIsProtocol, LocalPortShared, BlockedCallbacks, ClosedCallbacks
     DEF SocketInv
<1>2. ASSUME NEW t \in Callers, SharedCalls(t, Tcp)
      PROVE  SocketInv'
  BY <1>0, <1>2, TcpIsProtocol, LocalPortShared, BlockedCalls, ClosedCalls
     DEF SocketInv
<1>3. ASSUME UNCHANGED <<sock, localPort, flagVars, appClosed>>,
             pending'["connect"] = pending["connect"],
             \A r \in Results : ready'["connect"][r] = ready["connect"][r],
             FramesKept(CloseSteps \cup {"send_cbk.recreate"})
      PROVE  SocketInv'
  <2>1. FramesKept(CloseSteps) /\ FramesKept({"send_cbk.recreate"})
    BY <1>3 DEF FramesKept
  <2>2. LocalPortOfOpenSocket'
    BY <1>0, <1>3 DEF LocalPortOfOpenSocket, IsBound
  <2>3. BlockedEndpointCloses'
    BY <1>0, <1>3, <2>1, BlockedKept DEF flagVars, is_open
  <2>4. ClosedStateNotOverLiveSocket'
    BY <1>0, <1>3, <2>1, ClosedKept DEF flagVars
  <2> QED BY <2>2, <2>3, <2>4 DEF SocketInv
<1>4. ASSUME NEW w \in Workers, receive(w)
      PROVE  SocketInv'
  <2>1. FramesKept(CloseSteps \cup {"send_cbk.recreate"})
    BY <1>0, <1>4, GotoKeeps DEF receive, Threads, Steps, CloseSteps
  <2>2. /\ pending'["connect"] = pending["connect"]
        /\ ready'["connect"] = ready["connect"]
    <3>0. /\ "done" \in Results /\ "connect" # "receive" /\ ready \in Readies
          /\ "receive" \in Callbacks /\ "connect" \in Callbacks
      BY <1>0
    <3>1. CASE UNCHANGED <<pending, ready>>
      BY <3>1
    <3>2. CASE ready' = Post(ready, "receive", "done") /\ UNCHANGED pending
      <4>1. ready'["connect"] = ready["connect"]
        BY <3>0, <3>2, PostLemma
      <4> QED BY <3>2, <4>1
    <3>3. CASE pending' = StartOp(pending, "receive") /\ UNCHANGED ready
      BY <1>0, <3>3, StartOpLemma
    <3> QED BY <1>4, <3>1, <3>2, <3>3 DEF receive
  <2> QED BY <1>3, <1>4, <2>1, <2>2 DEF receive, historyVars
<1>5. ASSUME NEW w \in Workers, NEW r \in Results, receive_cbk(w, r)
      PROVE  SocketInv'
  <2>1. ready'["connect"] = ready["connect"]
    BY <1>0, <1>5, DispatchLemma DEF receive_cbk
  <2> QED BY <1>3, <1>5, <2>1 DEF receive_cbk, FramesKept, historyVars
<1>6. ASSUME NEW w \in Workers, write_completion_condition(w)
      PROVE  SocketInv'
  <2>1. /\ pending'["connect"] = pending["connect"]
        /\ \A r \in Results : ready'["connect"][r] = ready["connect"][r]
    BY <1>0, <1>6, WriteOnLemma
  <2> QED BY <1>3, <1>6, <2>1 DEF write_completion_condition, FramesKept, historyVars
<1>7. ASSUME NEW t \in Callers, send_data(t)
      PROVE  SocketInv'
  <2>1. /\ pending'["connect"] = pending["connect"]
        /\ \A r \in Results : ready'["connect"][r] = ready["connect"][r]
    BY <1>0, <1>7, WriteSomeLemma DEF send_data
  <2> QED BY <1>3, <1>7, <2>1 DEF send_data, FramesKept, historyVars
<1>8. CASE ConnectDone
  <2>1. ready'["connect"]["ok"] = ready["connect"]["ok"] + 1
    BY <1>0, <1>8, PostLemma DEF ConnectDone
  <2>2. ready["connect"]["ok"] \in Nat
    BY <1>0 DEF Readies
  <2>3. BlockedEndpointCloses'
    BY <1>0, <2>1, <2>2 DEF BlockedEndpointCloses, ConnectCbkDue
  <2>4. ClosedStateNotOverLiveSocket'
    BY <1>0, <1>8, ClosedKept DEF ConnectDone, flagVars, historyVars, Alive, FramesKept
  <2>5. LocalPortOfOpenSocket'
    BY <1>8 DEF ConnectDone, LocalPortOfOpenSocket, IsBound
  <2> QED BY <2>3, <2>4, <2>5 DEF SocketInv
<1>9. CASE ConnectionFails
  <2>1. ready["connect"]["failed"] \in Nat /\ pending["connect"] \in Nat
    BY <1>0 DEF Readies, Pendings
  <2>2. ConnectCbkDue => ConnectCbkDue'
    <3>1. CASE pending["connect"] > 0
      BY <1>0, <1>9, <2>1, <3>1, ConnectionFailsLemma DEF ConnectCbkDue
    <3>2. ASSUME NEW r \in Results, ready["connect"][r] > 0
          PROVE  ready'["connect"][r] > 0
      BY <1>0, <1>9, <2>1, <3>2, ConnectionFailsLemma
    <3> QED BY <3>1, <3>2 DEF ConnectCbkDue
  <2>3. BlockedEndpointCloses'
    BY <1>0, <1>9, <2>2
       DEF ConnectionFails, BlockedEndpointCloses, CloseDue, is_open, flagVars
  <2>4. ClosedStateNotOverLiveSocket' /\ LocalPortOfOpenSocket'
    BY <1>9 DEF ConnectionFails, ClosedStateNotOverLiveSocket, LocalPortOfOpenSocket, IsBound
  <2> QED BY <2>3, <2>4 DEF SocketInv
<1>10. CASE SendDone \/ ReceiveDone
  <2>1. PICK c \in {"receive", "send"}, r \in {"done", "partial"} : OpDone(c, r)
    BY <1>10 DEF SendDone, ReceiveDone
  <2>2. /\ pending'["connect"] = pending["connect"]
        /\ \A s \in Results : ready'["connect"][s] = ready["connect"][s]
    BY <1>0, <2>1, OpDoneLemma
  <2> QED BY <1>3, <2>1, <2>2 DEF OpDone, FramesKept, historyVars
<1>11. CASE UNCHANGED vars
  BY <1>3, <1>11 DEF vars, clientVars, socketVars, flagVars, historyVars, FramesKept
<1> QED BY <1>1, <1>2, <1>4, <1>5, <1>6, <1>7, <1>8, <1>9, <1>10, <1>11
        DEF Next, Worker, Caller, Kernel

(* The port an application reads is the port of an open socket; a blocked   *)
(* endpoint has a callback to come that closes it; state_ does not say      *)
(* CLOSED over a live socket unless send_cbk is about to replace it or the  *)
(* application said so: for any number of threads and of callbacks.         *)
THEOREM SocketInvHolds ==
    Spec => [](LocalPortOfOpenSocket /\ BlockedEndpointCloses /\ ClosedStateNotOverLiveSocket)
<1>1. Init => TypeInv /\ SocketInv
  BY TypeInvInit
     DEF Init, ClientInit, SocketInv, LocalPortOfOpenSocket, BlockedEndpointCloses,
         ClosedStateNotOverLiveSocket, is_open
<1>2. TypeInv /\ SocketInv /\ [Next]_vars => (TypeInv /\ SocketInv)'
  BY TypeInvStep, SocketInvStep
<1>3. SocketInv => /\ LocalPortOfOpenSocket /\ BlockedEndpointCloses
                   /\ ClosedStateNotOverLiveSocket
  BY DEF SocketInv
<1> QED BY <1>1, <1>2, <1>3, PTL DEF Spec

(* The three parts that a reader looks for by name.  However start() and    *)
(* the reconnects of several send_cbk interleave, connect() never has two   *)
(* async_connect in progress.                                               *)
THEOREM OneConnectHolds == Spec => []OneConnectInProgress
BY TypeCorrect, PTL

(* local_port_ is only ever the port of an open, bound socket.              *)
THEOREM LocalPortHolds == Spec => []LocalPortOfOpenSocket
BY SocketInvHolds, PTL

(* state_ says CLOSED over a live socket only where the code means it.      *)
THEOREM ClosedStateHolds == Spec => []ClosedStateNotOverLiveSocket
BY SocketInvHolds, PTL

-----------------------------------------------------------------------------
(* The own steps of the TCP endpoint start no callback that closes, and the *)
(* kernel leaves an open descriptor open.                                   *)
LEMMA KeptInvStep == TypeInv /\ KeptInv /\ [Next]_vars => KeptInv'
<1> SUFFICES ASSUME TypeInv, KeptInv, [Next]_vars
             PROVE  KeptInv'
  OBVIOUS
<1>0. /\ Base /\ ClientTypeOK /\ pending \in Pendings /\ ready \in Readies
      /\ \A c \in {"connect", "receive", "send"} : c \in Callbacks
      /\ \A r \in {"ok", "done", "partial", "aborted"} : r \in Results
      /\ "connect" # "receive" /\ "ok" # "aborted"
  BY TypeInvBase DEF Base, ClientTypeOK, Pendings, Readies, Callbacks, Results
<1>1. ASSUME NEW w \in Workers, SharedCallbacks(w, Tcp)
      PROVE  KeptInv'
  BY <1>0, <1>1, TcpIsProtocol, KeptCallbacks
<1>2. ASSUME NEW t \in Callers, SharedCalls(t, Tcp)
      PROVE  KeptInv'
  BY <1>0, <1>2, TcpIsProtocol, KeptCalls
<1>3. ASSUME UNCHANGED <<kept, sendingBlocked>>, is_open => is_open',
             ready'["connect"]["aborted"] = ready["connect"]["aborted"],
             \A u \in Workers : frame'[u] = frame[u]
      PROVE  KeptInv'
  BY <1>3, KeptKept DEF FramesKept
<1>4. ASSUME NEW w \in Workers, receive(w)
      PROVE  KeptInv'
  <2>1. \A u \in Workers : frame'[u] \in CloseSteps => frame[u] \in CloseSteps
    BY <1>0, <1>4, GotoNoClose DEF receive, Threads, Steps, CloseSteps
  <2>2. FramesKept({"send_cbk.connect"})
    BY <1>0, <1>4, GotoKeeps DEF receive, Threads, Steps
  <2>3. ready'["connect"]["aborted"] = ready["connect"]["aborted"]
    <3>1. CASE UNCHANGED ready
      BY <3>1
    <3>2. CASE ready' = Post(ready, "receive", "done")
      <4>1. ready \in Readies /\ "done" \in Results
        BY <1>0
      <4>2. Post(ready, "receive", "done")["connect"] = ready["connect"]
        BY <1>0, <4>1, PostLemma
      <4> QED BY <3>2, <4>2
    <3> QED BY <1>4, <3>1, <3>2 DEF receive
  <2> QED BY <1>4, <2>1, <2>2, <2>3, KeptKept DEF receive, is_open, flagVars, historyVars
<1>5. ASSUME NEW w \in Workers, NEW r \in Results, receive_cbk(w, r)
      PROVE  KeptInv'
  <2>1. ready'["connect"] = ready["connect"]
    BY <1>0, <1>5, DispatchLemma DEF receive_cbk
  <2> QED BY <1>3, <1>5, <2>1 DEF receive_cbk, is_open, flagVars, historyVars
<1>6. ASSUME NEW w \in Workers, write_completion_condition(w)
      PROVE  KeptInv'
  <2>1. ready'["connect"]["aborted"] = ready["connect"]["aborted"]
    BY <1>0, <1>6, WriteOnLemma
  <2> QED BY <1>3, <1>6, <2>1 DEF write_completion_condition, is_open, flagVars, historyVars
<1>7. ASSUME NEW t \in Callers, send_data(t)
      PROVE  KeptInv'
  <2>1. ready'["connect"]["aborted"] = ready["connect"]["aborted"]
    BY <1>0, <1>7, WriteSomeLemma DEF send_data
  <2> QED BY <1>3, <1>7, <2>1 DEF send_data, is_open, flagVars, historyVars
<1>8. CASE ConnectDone
  <2>1. ready'["connect"]["aborted"] = ready["connect"]["aborted"]
    <3>1. ready \in Readies /\ "ok" \in Results /\ "aborted" \in Results
      BY <1>0
    <3>2. Post(ready, "connect", "ok")["connect"]["aborted"] = ready["connect"]["aborted"]
      BY <1>0, <3>1, PostLemma
    <3> QED BY <1>8, <3>2 DEF ConnectDone
  <2> QED BY <1>3, <1>8, <2>1 DEF ConnectDone, is_open, flagVars, historyVars
<1>9. CASE ConnectionFails
  <2>1. ready'["connect"]["aborted"] = ready["connect"]["aborted"]
    BY <1>0, <1>9, ConnectionFailsLemma
  <2> QED BY <1>3, <1>9, <2>1 DEF ConnectionFails, is_open, flagVars, historyVars
<1>10. CASE SendDone \/ ReceiveDone
  <2>1. PICK c \in {"receive", "send"}, r \in {"done", "partial"} : OpDone(c, r)
    BY <1>10 DEF SendDone, ReceiveDone
  <2>2. ready'["connect"]["aborted"] = ready["connect"]["aborted"]
    BY <1>0, <2>1, OpDoneLemma
  <2> QED BY <1>3, <2>1, <2>2 DEF OpDone, is_open, flagVars, historyVars
<1>11. CASE UNCHANGED vars
  BY <1>3, <1>11 DEF vars, clientVars, socketVars, flagVars, historyVars, is_open
<1> QED BY <1>1, <1>2, <1>4, <1>5, <1>6, <1>7, <1>8, <1>9, <1>10, <1>11
        DEF Next, Worker, Caller, Kernel

(* An endpoint that connect() opened stays open, or is about to connect     *)
(* again, as long as it is not blocked and none of the reasons listed with  *)
(* the property has come up: no callback closes it by surprise, for any     *)
(* number of threads.                                                       *)
THEOREM ClosesForAReasonHolds == Spec => []ClosesForAReason
<1>1. Init => TypeInv /\ KeptInv
  BY TypeInvInit DEF Init, ClientInit, KeptInv
<1>2. TypeInv /\ KeptInv /\ [Next]_vars => (TypeInv /\ KeptInv)'
  BY TypeInvStep, KeptInvStep
<1>3. KeptInv => ClosesForAReason
  BY DEF KeptInv, ClosesForAReason, Reconnecting
<1> QED BY <1>1, <1>2, <1>3, PTL DEF Spec

-----------------------------------------------------------------------------
(***************************************************************************)
(* The endpoint implements ClientLink.                                     *)
(***************************************************************************)

(* What the shared steps do is a step of ClientLink, or none.               *)
LEMMA SharedLinkSteps ==
    ASSUME TypeInv, sock' \in SockStates
    PROVE  /\ LinkKept => UNCHANGED Link!linkVars
           /\ Dials => Link!Start
           /\ Dials /\ ~quietStop => Link!Redial
           /\ PortRead => Link!LearnPort
           /\ Hangs => Link!Stop
           /\ Hangs /\ UNCHANGED quietStop => Link!Close
<1>0. sock \in SockStates /\ quietStop \in BOOLEAN
  BY DEF TypeInv, TypeOK, ClientTypeOK
<1>1. LinkKept => UNCHANGED Link!linkVars
  BY DEF LinkKept, Link!linkVars, LinkOf
<1>2. Dials => Link!Dialled
  BY <1>0 DEF Dials, Link!Dialled, LinkOf, SockStates
<1>3. PortRead => Link!LearnPort
  BY <1>0 DEF PortRead, Link!LearnPort, LinkOf, SockStates, is_open
<1>4. Hangs => LinkOf' = "closed"
  BY DEF Hangs, LinkOf
<1> QED BY <1>0, <1>1, <1>2, <1>3, <1>4
        DEF Dials, Hangs, Link!Start, Link!Redial, Link!Stop, Link!Close

(* Every step of the endpoint is a step of ClientLink or leaves it alone.   *)
LEMMA LinkStep ==
    ASSUME TypeInv, TypeInv', QuietInv, LocalPortOfOpenSocket, [Next]_vars
    PROVE  [Link!Next]_(Link!linkVars)
<1>0. /\ Base /\ sock \in SockStates /\ sock' \in SockStates
  BY TypeInvBase DEF TypeInv, TypeOK, ClientTypeOK
<1>1. ASSUME NEW w \in Workers, SharedCallbacks(w, Tcp)
      PROVE  [Link!Next]_(Link!linkVars)
  BY <1>0, <1>1, LinkCallbacks, SharedLinkSteps, TcpIsProtocol DEF Link!Next
<1>2. ASSUME NEW t \in Callers, SharedCalls(t, Tcp)
      PROVE  [Link!Next]_(Link!linkVars)
  BY <1>0, <1>2, LinkCalls, SharedLinkSteps, TcpIsProtocol DEF Link!Next
<1>3. ASSUME NEW w \in Workers, \/ receive(w) \/ write_completion_condition(w)
                                \/ \E r \in Results : receive_cbk(w, r)
      PROVE  LinkKept
  BY <1>3 DEF receive, write_completion_condition, receive_cbk, LinkKept, historyVars
<1>4. ASSUME NEW t \in Callers, send_data(t)
      PROVE  LinkKept
  BY <1>4 DEF send_data, LinkKept, historyVars
<1>5. ASSUME SendDone \/ ReceiveDone \/ UNCHANGED vars
      PROVE  LinkKept
  BY <1>5 DEF SendDone, ReceiveDone, OpDone, LinkKept, vars, clientVars, socketVars, historyVars
<1>6. ASSUME ConnectDone
      PROVE  Link!Answered
  BY <1>6 DEF ConnectDone, Link!Answered, LinkOf, historyVars
<1>7. ASSUME ConnectionFails
      PROVE  Link!Broken
  BY <1>7 DEF ConnectionFails, Link!Broken, LinkOf, historyVars
<1> QED BY <1>0, <1>1, <1>2, <1>3, <1>4, <1>5, <1>6, <1>7, SharedLinkSteps
        DEF Next, Worker, Caller, Kernel, Link!Next

(* The TCP client endpoint implements ClientLink: it is never dialled again *)
(* while it connects or is connected, dials by itself only if it was not    *)
(* stopped, and knows no port of a closed socket, for any number of threads *)
(* and callbacks.                                                           *)
THEOREM ImplementsClientLinkHolds == Spec => ImplementsClientLink
<1>1. Init => Link!Init
  BY DEF Init, ClientInit, Link!Init, LinkOf
<1>2. TypeInv /\ TypeInv' /\ QuietInv /\ LocalPortOfOpenSocket /\ [Next]_vars
        => [Link!Next]_(Link!linkVars)
  BY LinkStep
<1>3. Init => TypeInv /\ QuietInv
  BY TypeInvInit DEF Init, ClientInit, QuietInv
<1>4. TypeInv /\ QuietInv /\ [Next]_vars => (TypeInv /\ QuietInv)'
  BY TypeInvStep, QuietInvStep
<1> QED BY <1>1, <1>2, <1>3, <1>4, LocalPortHolds, PTL DEF Spec, ImplementsClientLink, Link!Spec

-----------------------------------------------------------------------------
(***************************************************************************)
(* The stream on the wire: TcpClientStream, with constants and variables   *)
(* of its own.                                                             *)
(***************************************************************************)

(* What holds whatever overlaps: the connections are made one after the     *)
(* other, and only on an open one does a write wait.                        *)
QueueInv ==
    /\ \A i \in 1 .. Len(queue) : stage[queue[i]] = "waiting"
    /\ \A i, j \in 1 .. Len(queue) : queue[i] = queue[j] => i = j
    /\ conn = 0 => queue = <<>> /\ \A m \in Messages : stage[m] # "waiting"
WireInv ==
    /\ conn # 0 => conn = made
    /\ \A k \in 1 .. MaxConnections : k > made => wire[k] = <<>>
NewInv == \A m \in Messages : stage[m] = "new" => sent[m] = 0
StreamInv == StreamTypeOK /\ QueueInv /\ WireInv /\ NewInv

(* What a sequence of parts gains at its end.                               *)
LEMMA ConcatLemma ==
    ASSUME NEW T, NEW s \in Seq(T), NEW n \in Nat, NEW t \in [1 .. n -> T]
    PROVE  /\ s \o t \in Seq(T) /\ Len(s \o t) = Len(s) + n
           /\ \A i \in 1 .. Len(s) : (s \o t)[i] = s[i]
           /\ \A i \in (Len(s) + 1) .. (Len(s) + n) : (s \o t)[i] = t[i - Len(s)]
<1>1. t \in Seq(T) /\ Len(t) = n
  OBVIOUS
<1> QED BY <1>1

(* What the kernel's taking of n parts does: it extends the stream of the    *)
(* open connection by the next n parts of the message in front.              *)
TakesParts(m, n) ==
    /\ m = Head(queue) /\ m \in Messages /\ stage[m] = "waiting" /\ queue # <<>>
    /\ conn \in 1 .. MaxConnections /\ conn = made
    /\ n \in 1 .. Parts /\ sent[m] + n \in 1 .. Parts
    /\ wire' \in [1 .. MaxConnections -> Seq(Messages \X (1 .. Parts))]
    /\ \A k \in 1 .. MaxConnections : k # conn => wire'[k] = wire[k]
    /\ Len(wire'[conn]) = Len(wire[conn]) + n
    /\ \A i \in 1 .. Len(wire[conn]) : wire'[conn][i] = wire[conn][i]
    /\ \A i \in (Len(wire[conn]) + 1) .. (Len(wire[conn]) + n) :
         wire'[conn][i] = <<m, sent[m] + (i - Len(wire[conn]))>>
    /\ sent' \in [Messages -> 0 .. Parts] /\ sent'[m] = sent[m] + n
    /\ \A x \in Messages : x # m => sent'[x] = sent[x] /\ stage'[x] = stage[x]
    /\ stage' \in [Messages -> Stages]
    /\ stage'[m] = IF sent[m] + n = Parts THEN "over" ELSE "partial"
    /\ queue' = Tail(queue)
    /\ UNCHANGED <<conn, made, freed, mixed>>

(* That is what the action says, as a write waits only on an open socket.    *)
LEMMA TakePartsLemma ==
    ASSUME StreamInv, NEW n \in 1 .. Parts, TakeParts(n)
    PROVE  TakesParts(Head(queue), n)
<1> DEFINE m == Head(queue)
           part == [i \in 1 .. n |-> <<m, sent[m] + i>>]
<1>0. /\ Parts \in Nat \ {0} /\ MaxConnections \in Nat /\ n \in Nat
      /\ conn \in 0 .. MaxConnections /\ queue \in Seq(Messages)
      /\ stage \in [Messages -> Stages] /\ sent \in [Messages -> 0 .. Parts]
      /\ wire \in [1 .. MaxConnections -> Seq(Messages \X (1 .. Parts))]
  BY StreamAssumption DEF StreamInv, StreamTypeOK
<1>1. queue # <<>> /\ n <= Parts - sent[m] /\ TakeFirst(n)
  BY DEF TakeParts
<1>2. m \in Messages /\ stage[m] = "waiting"
  BY <1>0, <1>1 DEF StreamInv, QueueInv
<1>3. conn \in 1 .. MaxConnections /\ conn = made
  BY <1>0, <1>1 DEF StreamInv, QueueInv, WireInv
<1>4. /\ wire' = [wire EXCEPT ![conn] = @ \o part]
      /\ sent' = [sent EXCEPT ![m] = @ + n]
      /\ stage' = [stage EXCEPT ![m] = IF sent[m] + n = Parts THEN "over" ELSE "partial"]
      /\ queue' = Tail(queue) /\ UNCHANGED <<conn, made, freed, mixed>>
  BY <1>1 DEF TakeFirst
<1>5. sent[m] \in 0 .. Parts /\ sent[m] + n \in 1 .. Parts
  BY <1>0, <1>1, <1>2
<1>6. part \in [1 .. n -> Messages \X (1 .. Parts)]
  <2>1. \A i \in 1 .. n : sent[m] + i \in 1 .. Parts
    BY <1>0, <1>5
  <2>2. \A i \in 1 .. n : <<m, sent[m] + i>> \in Messages \X (1 .. Parts)
    BY <1>2, <2>1
  <2> HIDE DEF m
  <2> QED BY <2>2
<1>a. \A i \in 1 .. n : part[i] = <<m, sent[m] + i>>
  OBVIOUS
<1> HIDE DEF m, part
<1>7. wire[conn] \in Seq(Messages \X (1 .. Parts)) /\ Len(wire[conn]) \in Nat
  BY <1>0, <1>3
<1>8. wire'[conn] = wire[conn] \o part /\ \A k \in 1 .. MaxConnections : k # conn => wire'[k] = wire[k]
  BY <1>0, <1>3, <1>4
<1>9. /\ wire'[conn] \in Seq(Messages \X (1 .. Parts)) /\ Len(wire'[conn]) = Len(wire[conn]) + n
      /\ \A i \in 1 .. Len(wire[conn]) : wire'[conn][i] = wire[conn][i]
      /\ \A i \in (Len(wire[conn]) + 1) .. (Len(wire[conn]) + n) :
           wire'[conn][i] = part[i - Len(wire[conn])]
  <2>1. ASSUME NEW T, NEW s \in Seq(T), part \in [1 .. n -> T], NEW r, r = s \o part
        PROVE  /\ r \in Seq(T) /\ Len(r) = Len(s) + n
               /\ \A i \in 1 .. Len(s) : r[i] = s[i]
               /\ \A i \in (Len(s) + 1) .. (Len(s) + n) : r[i] = part[i - Len(s)]
    BY <1>0, <2>1, ConcatLemma
  <2> DEFINE T == Messages \X (1 .. Parts)
             s == wire[conn]
             r == wire'[conn]
  <2>2. s \in Seq(T) /\ part \in [1 .. n -> T] /\ r = s \o part
    BY <1>6, <1>7, <1>8
  <2> HIDE DEF T, s, r
  <2>3. /\ r \in Seq(T) /\ Len(r) = Len(s) + n
        /\ \A i \in 1 .. Len(s) : r[i] = s[i]
        /\ \A i \in (Len(s) + 1) .. (Len(s) + n) : r[i] = part[i - Len(s)]
    BY <2>1, <2>2
  <2> QED BY <2>3 DEF T, s, r
<1>10. \A i \in (Len(wire[conn]) + 1) .. (Len(wire[conn]) + n) :
         wire'[conn][i] = <<m, sent[m] + (i - Len(wire[conn]))>>
  <2>1. \A i \in (Len(wire[conn]) + 1) .. (Len(wire[conn]) + n) : i - Len(wire[conn]) \in 1 .. n
    BY <1>0, <1>7
  <2> QED BY <1>9, <1>a, <2>1
<1>11. wire' \in [1 .. MaxConnections -> Seq(Messages \X (1 .. Parts))]
  BY <1>0, <1>3, <1>4, <1>8, <1>9
<1>12. /\ sent' \in [Messages -> 0 .. Parts] /\ sent'[m] = sent[m] + n
       /\ \A x \in Messages : x # m => sent'[x] = sent[x] /\ stage'[x] = stage[x]
       /\ stage' \in [Messages -> Stages]
       /\ stage'[m] = IF sent[m] + n = Parts THEN "over" ELSE "partial"
  BY <1>0, <1>2, <1>4, <1>5 DEF Stages
<1> QED BY <1>1, <1>2, <1>3, <1>4, <1>5, <1>8, <1>9, <1>10, <1>11, <1>12 DEF TakesParts, m

(* Streams and queue are well formed.                                       *)
LEMMA StreamInvStep == StreamInv /\ [StreamNext]_streamVars => StreamInv'
<1> SUFFICES ASSUME StreamInv, [StreamNext]_streamVars
             PROVE  StreamInv'
  OBVIOUS
<1>0. /\ StreamTypeOK /\ QueueInv /\ WireInv /\ NewInv
      /\ Parts \in Nat \ {0} /\ MaxConnections \in Nat
      /\ conn \in 0 .. MaxConnections /\ queue \in Seq(Messages) /\ made \in 0 .. MaxConnections
      /\ stage \in [Messages -> Stages]
      /\ "waiting" \in Stages /\ "over" \in Stages
  BY StreamAssumption DEF StreamInv, StreamTypeOK, Stages
<1>1. CASE stream_connect
  <2>1. StreamTypeOK'
    <3>1. made + 1 \in 1 .. MaxConnections
      BY <1>0, <1>1 DEF stream_connect
    <3> QED BY <1>0, <1>1, <3>1 DEF stream_connect, StreamTypeOK
  <2> QED BY <1>0, <1>1, <2>1 DEF stream_connect, StreamInv, QueueInv, WireInv, NewInv
<1>2. ASSUME NEW recreated \in BOOLEAN, stream_shutdown_and_close_socket(recreated)
      PROVE  StreamInv'
  <2>1. StreamTypeOK'
    BY <1>0, <1>2 DEF stream_shutdown_and_close_socket, StreamTypeOK, InParts
  <2> QED BY <1>0, <1>2, <2>1 DEF stream_shutdown_and_close_socket, StreamInv, QueueInv, WireInv, NewInv
<1>3. ASSUME NEW m \in Messages, stage[m] # "waiting", conn # 0,
             queue' = Append(queue, m), stage' = [stage EXCEPT ![m] = "waiting"],
             UNCHANGED conn
      PROVE  /\ queue' \in Seq(Messages) /\ stage' \in [Messages -> Stages] /\ QueueInv'
  <2>1. /\ queue' \in Seq(Messages) /\ Len(queue') = Len(queue) + 1
        /\ \A i \in 1 .. Len(queue) : queue'[i] = queue[i] /\ queue[i] \in Messages
        /\ queue'[Len(queue) + 1] = m /\ Len(queue) \in Nat
    BY <1>0, <1>3
  <2>2. stage' \in [Messages -> Stages]
    BY <1>0, <1>3
  <2>3. \A x \in Messages : stage[x] = "waiting" \/ x = m => stage'[x] = "waiting"
    BY <1>0, <1>3
  <2>4. \A i \in 1 .. Len(queue') : stage'[queue'[i]] = "waiting"
    <3> TAKE i \in 1 .. Len(queue')
    <3>1. CASE i \in 1 .. Len(queue)
      BY <1>0, <2>1, <2>3, <3>1 DEF QueueInv
    <3>2. CASE i = Len(queue) + 1
      BY <2>1, <2>3, <3>2
    <3> QED BY <2>1, <3>1, <3>2
  <2>5. \A i, j \in 1 .. Len(queue') : queue'[i] = queue'[j] => i = j
    <3>1. \A i \in 1 .. Len(queue) : queue[i] # m
      BY <1>0, <1>3 DEF QueueInv
    <3> QED BY <1>0, <2>1, <3>1 DEF QueueInv
  <2> QED BY <1>3, <2>1, <2>2, <2>4, <2>5 DEF QueueInv
<1>4. ASSUME NEW m \in Messages, stream_send_data(m)
      PROVE  StreamInv'
  <2>1. /\ queue' \in Seq(Messages) /\ stage' \in [Messages -> Stages] /\ QueueInv'
    BY <1>3, <1>4 DEF stream_send_data
  <2>2. StreamTypeOK'
    BY <1>0, <1>4, <2>1 DEF stream_send_data, StreamTypeOK
  <2> QED BY <1>0, <1>4, <2>1, <2>2 DEF stream_send_data, StreamInv, WireInv, NewInv
<1>5. ASSUME NEW m \in Messages, stream_write_completion_condition(m)
      PROVE  StreamInv'
  <2>1. /\ queue' \in Seq(Messages) /\ stage' \in [Messages -> Stages] /\ QueueInv'
    <3>1. CASE conn # 0 /\ queue' = Append(queue, m) /\ stage' = [stage EXCEPT ![m] = "waiting"]
      BY <1>3, <1>5, <3>1 DEF stream_write_completion_condition
    <3>2. CASE stage' = [stage EXCEPT ![m] = "over"] /\ UNCHANGED queue
      <4>1. \A x \in Messages : stage[x] = "waiting" <=> stage'[x] = "waiting"
        BY <1>0, <1>5, <3>2 DEF stream_write_completion_condition
      <4>2. \A i \in 1 .. Len(queue) : queue[i] \in Messages
        BY <1>0
      <4> QED BY <1>0, <1>5, <3>2, <4>1, <4>2 DEF stream_write_completion_condition, QueueInv
    <3> QED BY <1>5, <3>1, <3>2 DEF stream_write_completion_condition
  <2>2. StreamTypeOK'
    BY <1>0, <1>5, <2>1 DEF stream_write_completion_condition, StreamTypeOK
  <2> QED BY <1>0, <1>5, <2>1, <2>2 DEF stream_write_completion_condition, StreamInv, WireInv, NewInv
<1>6. ASSUME NEW n \in 1 .. Parts, TakeParts(n)
      PROVE  StreamInv'
  <2> DEFINE m == Head(queue)
  <2>1. TakesParts(m, n)
    BY <1>6, TakePartsLemma
  <2> HIDE DEF m
  <2>a. queue # <<>> /\ m = Head(queue)
    BY <2>1 DEF TakesParts
  <2>b. m = queue[1]
    BY <1>0, <2>a
  <2>2. /\ queue # <<>> /\ queue' = Tail(queue) /\ m = queue[1]
        /\ UNCHANGED <<conn, made, freed, mixed>> /\ conn # 0
        /\ sent' \in [Messages -> 0 .. Parts] /\ stage' \in [Messages -> Stages]
        /\ wire' \in [1 .. MaxConnections -> Seq(Messages \X (1 .. Parts))]
        /\ \A k \in 1 .. MaxConnections : k # made => wire'[k] = wire[k]
        /\ \A x \in Messages : x # m => stage'[x] = stage[x]
    BY <2>1, <2>b DEF TakesParts
  <2>3. /\ queue' \in Seq(Messages) /\ Len(queue') = Len(queue) - 1 /\ Len(queue) \in Nat
        /\ \A i \in 1 .. Len(queue') : /\ queue'[i] = queue[i + 1] /\ queue[i + 1] \in Messages
                                        /\ i + 1 \in 1 .. Len(queue) /\ 1 \in 1 .. Len(queue)
    BY <1>0, <2>2
  <2>4. StreamTypeOK'
    BY <1>0, <2>2, <2>3 DEF StreamTypeOK
  <2>5. WireInv'
    <3>1. ASSUME NEW k \in 1 .. MaxConnections, k > made
          PROVE  wire'[k] = <<>>
      <4>1. k # made
        BY <1>0, <3>1
      <4>2. wire'[k] = wire[k] /\ wire[k] = <<>>
        BY <1>0, <2>2, <3>1, <4>1 DEF WireInv
      <4> QED BY <4>2
    <3> QED BY <1>0, <2>2, <3>1 DEF WireInv
  <2>6. \A i \in 1 .. Len(queue') : queue'[i] # m /\ stage'[queue'[i]] = "waiting"
    <3> TAKE i \in 1 .. Len(queue')
    <3>1. i + 1 # 1 /\ queue[i + 1] # queue[1]
      BY <1>0, <2>3 DEF QueueInv
    <3> QED BY <1>0, <2>2, <2>3, <3>1 DEF QueueInv
  <2>7. \A i, j \in 1 .. Len(queue') : queue'[i] = queue'[j] => i = j
    BY <1>0, <2>3 DEF QueueInv
  <2>8. QueueInv'
    BY <2>2, <2>6, <2>7 DEF QueueInv
  <2>9. NewInv'
    BY <1>0, <2>1 DEF TakesParts, NewInv
  <2> QED BY <2>4, <2>5, <2>8, <2>9 DEF StreamInv
<1>7. CASE UNCHANGED streamVars
  BY <1>0, <1>7 DEF streamVars, StreamInv, StreamTypeOK, QueueInv, WireInv, NewInv
<1> QED BY <1>1, <1>2, <1>4, <1>5, <1>6, <1>7 DEF StreamNext

(***************************************************************************)
(* While the open connection is not mixed at most one write is under way,  *)
(* and its stream ends with the last part of a message or with what was    *)
(* taken of this one.                                                      *)
(***************************************************************************)
End(k) == wire[k][Len(wire[k])]

Continues ==
    conn # 0 =>
        /\ \A m \in Messages : UnderWay(m) /\ sent[m] > 0 =>
             Len(wire[conn]) > 0 /\ End(conn) = <<m, sent[m]>>
        /\ Len(wire[conn]) > 0 =>
             \/ End(conn)[2] = Parts
             \/ UnderWay(End(conn)[1]) /\ sent[End(conn)[1]] = End(conn)[2]

OneWrite == \A m, n \in Messages : UnderWay(m) /\ UnderWay(n) => m = n

Whole(s) ==
    /\ Len(s) > 0 => s[1][2] = 1
    /\ \A i \in 1 .. (Len(s) - 1) : FollowsInStream(s[i], s[i + 1])

CalmInv ==
    /\ conn # 0 /\ conn \notin mixed => OneWrite /\ Continues
    /\ \A k \in (1 .. MaxConnections) \ mixed : Whole(wire[k])

(* A connection opened while a write stands on a freed object is mixed.      *)
FreedInv ==
    /\ freed \subseteq InParts
    /\ freed # {} /\ conn # 0 => conn \in mixed

(* Only a write between two of its parts loses its object, and going on it   *)
(* takes what is there now.                                                  *)
LEMMA FreedStep == StreamInv /\ FreedInv /\ [StreamNext]_streamVars => FreedInv'
<1> SUFFICES ASSUME StreamInv, FreedInv, [StreamNext]_streamVars
             PROVE  FreedInv'
  OBVIOUS
<1>0. /\ stage \in [Messages -> Stages] /\ freed \subseteq InParts
      /\ freed # {} /\ conn # 0 => conn \in mixed
  BY DEF StreamInv, StreamTypeOK, FreedInv
<1>1. CASE stream_connect
  BY <1>0, <1>1 DEF stream_connect, FreedInv, InParts
<1>2. ASSUME NEW recreated \in BOOLEAN, stream_shutdown_and_close_socket(recreated)
      PROVE  FreedInv'
  BY <1>0, <1>2 DEF stream_shutdown_and_close_socket, FreedInv, InParts
<1>3. ASSUME NEW m \in Messages, stream_send_data(m)
      PROVE  FreedInv'
  BY <1>0, <1>3 DEF stream_send_data, FreedInv, InParts
<1>4. ASSUME NEW m \in Messages, stream_write_completion_condition(m)
      PROVE  FreedInv'
  <2>1. \A x \in Messages : x # m => stage'[x] = stage[x]
    BY <1>0, <1>4 DEF stream_write_completion_condition
  <2> QED BY <1>0, <1>4, <2>1 DEF stream_write_completion_condition, FreedInv, InParts
<1>5. ASSUME NEW n \in 1 .. Parts, TakeParts(n)
      PROVE  FreedInv'
  <2>1. PICK m : TakesParts(m, n)
    BY <1>5, TakePartsLemma
  <2>2. m \notin freed /\ UNCHANGED <<conn, freed, mixed>>
    BY <1>0, <2>1 DEF TakesParts, InParts
  <2>3. \A x \in Messages : x # m => stage'[x] = stage[x]
    BY <2>1 DEF TakesParts
  <2> QED BY <1>0, <2>2, <2>3 DEF FreedInv, InParts
<1>6. CASE UNCHANGED streamVars
  BY <1>0, <1>6 DEF streamVars, FreedInv, InParts
<1> QED BY <1>1, <1>2, <1>3, <1>4, <1>5, <1>6 DEF StreamNext

(* A part that is taken follows on the last one.                             *)
LEMMA CalmStep == StreamInv /\ FreedInv /\ CalmInv /\ [StreamNext]_streamVars => CalmInv'
<1> SUFFICES ASSUME StreamInv, FreedInv, CalmInv, [StreamNext]_streamVars
             PROVE  CalmInv'
  OBVIOUS
<1>0. /\ StreamTypeOK /\ QueueInv /\ WireInv /\ NewInv
      /\ Parts \in Nat \ {0} /\ MaxConnections \in Nat
      /\ conn \in 0 .. MaxConnections /\ made \in 0 .. MaxConnections
      /\ stage \in [Messages -> Stages] /\ sent \in [Messages -> 0 .. Parts]
      /\ \A k \in 1 .. MaxConnections : /\ wire[k] \in Seq(Messages \X (1 .. Parts))
                                        /\ Len(wire[k]) \in Nat
  BY StreamAssumption DEF StreamInv, StreamTypeOK
<1>1. /\ conn # 0 /\ conn \notin mixed => OneWrite /\ Continues
      /\ \A k \in (1 .. MaxConnections) \ mixed : Whole(wire[k])
  BY DEF CalmInv
<1>2. ASSUME wire' = wire, mixed \subseteq mixed',
             conn' # 0 /\ conn' \notin mixed' => OneWrite' /\ Continues'
      PROVE  CalmInv'
  BY <1>1, <1>2 DEF CalmInv
<1>3. CASE stream_connect
  <2>1. /\ conn = 0 /\ conn' = made + 1 /\ conn' \in 1 .. MaxConnections
        /\ wire' = wire /\ stage' = stage /\ sent' = sent /\ mixed \subseteq mixed'
    BY <1>0, <1>3 DEF stream_connect
  <2>2. ASSUME conn' \notin mixed'
        PROVE  OneWrite' /\ Continues'
    <3>1. Len(wire'[conn']) = 0
      <4>1. conn' > made
        BY <1>0, <2>1
      <4>2. wire[conn'] = <<>>
        BY <1>0, <2>1, <4>1 DEF WireInv
      <4> QED BY <2>1, <4>2
    <3>2. \A m \in Messages : stage[m] # "partial"
      <4>1. InParts = {}
        BY <1>3, <2>2 DEF stream_connect
      <4> QED BY <4>1 DEF InParts
    <3>3. \A m \in Messages : ~UnderWay(m)'
      BY <1>0, <2>1, <3>2 DEF UnderWay, QueueInv
    <3> QED BY <3>1, <3>3 DEF OneWrite, Continues
  <2> QED BY <1>2, <2>1, <2>2
<1>4. ASSUME NEW recreated \in BOOLEAN, stream_shutdown_and_close_socket(recreated)
      PROVE  CalmInv'
  BY <1>2, <1>4 DEF stream_shutdown_and_close_socket
<1>5. ASSUME NEW m \in Messages, stream_send_data(m)
      PROVE  CalmInv'
  <2>1. /\ conn' = conn /\ wire' = wire /\ sent' = sent /\ sent[m] = 0 /\ conn # 0
        /\ mixed \subseteq mixed'
        /\ \A x \in Messages : x # m => stage'[x] = stage[x]
    BY <1>0, <1>5 DEF stream_send_data, NewInv
  <2>2. ASSUME conn' \notin mixed'
        PROVE  OneWrite' /\ Continues'
    <3>1. OneWrite /\ Continues
      BY <1>1, <2>1, <2>2
    <3>2. \A x \in Messages : ~UnderWay(x)
      BY <1>5, <2>1, <2>2 DEF stream_send_data
    <3>3. \A x \in Messages : UnderWay(x)' => x = m
      BY <2>1, <3>2 DEF UnderWay
    <3>4. Len(wire[conn]) > 0 => End(conn)[2] = Parts
      <4>1. ASSUME Len(wire[conn]) > 0
            PROVE  End(conn)[1] \in Messages
        BY <1>0, <2>1, <4>1 DEF End
      <4> QED BY <2>1, <3>1, <3>2, <4>1 DEF Continues
    <3> QED BY <2>1, <3>3, <3>4 DEF OneWrite, Continues, End
  <2> QED BY <1>2, <2>1, <2>2
<1>6. ASSUME NEW m \in Messages, stream_write_completion_condition(m)
      PROVE  CalmInv'
  <2>1. /\ conn' = conn /\ wire' = wire /\ sent' = sent /\ mixed' = mixed
    BY <1>6 DEF stream_write_completion_condition
  <2>2. ASSUME conn # 0, conn \notin mixed
        PROVE  OneWrite' /\ Continues'
    <3>1. OneWrite /\ Continues
      BY <1>1, <2>2
    <3>2. m \notin freed
      BY <2>2 DEF FreedInv
    <3>3. \A x \in Messages : UnderWay(x)' <=> UnderWay(x)
      BY <1>0, <1>6, <2>2, <3>2 DEF stream_write_completion_condition, UnderWay
    <3>4. ASSUME Len(wire[conn]) > 0
          PROVE  End(conn)[1] \in Messages
      BY <1>0, <2>2, <3>4 DEF End
    <3> QED BY <2>1, <3>1, <3>3, <3>4 DEF OneWrite, Continues, End
  <2> QED BY <1>2, <2>1, <2>2
<1>7. ASSUME NEW n \in 1 .. Parts, TakeParts(n), conn \notin mixed
      PROVE  CalmInv'
  <2> DEFINE L == Len(wire[conn])
  <2>0. TakesParts(Head(queue), n)
    BY <1>7, TakePartsLemma
  <2>1. PICK m : TakesParts(m, n)
    BY <2>0
  <2>2. /\ m \in Messages /\ UnderWay(m) /\ conn' = conn /\ conn # 0
        /\ conn \in 1 .. MaxConnections /\ sent'[m] = sent[m] + n
        /\ stage'[m] = IF sent[m] + n = Parts THEN "over" ELSE "partial"
        /\ \A x \in Messages : x # m => stage'[x] = stage[x]
        /\ \A k \in 1 .. MaxConnections : k # conn => wire'[k] = wire[k]
        /\ Len(wire'[conn]) = L + n
    <3>1. /\ m \in Messages /\ stage[m] = "waiting" /\ conn' = conn
          /\ conn \in 1 .. MaxConnections /\ sent'[m] = sent[m] + n
          /\ stage'[m] = IF sent[m] + n = Parts THEN "over" ELSE "partial"
          /\ \A x \in Messages : x # m => stage'[x] = stage[x]
          /\ \A k \in 1 .. MaxConnections : k # conn => wire'[k] = wire[k]
          /\ Len(wire'[conn]) = L + n
      BY <2>1 DEF TakesParts
    <3>2. UnderWay(m)
      BY <3>1 DEF UnderWay
    <3>3. conn # 0
      BY <3>1
    <3> QED BY <3>1, <3>2, <3>3
  <2>a. OneWrite /\ Continues /\ Whole(wire[conn])
    BY <1>1, <1>7, <2>2
  <2>3. /\ L \in Nat /\ n \in Nat \ {0} /\ sent[m] \in Nat /\ wire[conn] \in Seq(Messages \X (1 .. Parts))
    BY <1>0, <2>2
  <2>4. /\ \A i \in 1 .. L : wire'[conn][i] = wire[conn][i]
        /\ \A i \in (L + 1) .. (L + n) : wire'[conn][i] = <<m, sent[m] + (i - L)>>
    BY <2>1 DEF TakesParts
  <2>5. \A x \in Messages : UnderWay(x)' => UnderWay(x) /\ x = m
    BY <2>a, <2>2 DEF UnderWay, OneWrite
  <2>6. OneWrite'
    BY <2>5 DEF OneWrite
  <2>7. sent[m] > 0 => L > 0 /\ wire[conn][L] = <<m, sent[m]>>
    BY <2>a, <2>2 DEF Continues, End
  <2>8. sent[m] = 0 /\ L > 0 => wire[conn][L][2] = Parts
    <3> SUFFICES ASSUME sent[m] = 0, L > 0 PROVE wire[conn][L][2] = Parts
      OBVIOUS
    <3>1. wire[conn][L] \in Messages \X (1 .. Parts)
      BY <2>3
    <3>2. wire[conn][L][1] \in Messages /\ wire[conn][L][2] # 0
      BY <1>0, <3>1
    <3>3. \/ wire[conn][L][2] = Parts
          \/ UnderWay(wire[conn][L][1]) /\ sent[wire[conn][L][1]] = wire[conn][L][2]
      BY <2>a, <2>2 DEF Continues, End
    <3> QED BY <2>a, <2>2, <3>2, <3>3 DEF OneWrite
  <2> HIDE DEF L
  <2>9. wire'[conn][L + n] = <<m, sent[m] + n>>
    <3>1. L + n \in (L + 1) .. (L + n) /\ (L + n) - L = n
      BY <2>3
    <3> QED BY <2>4, <3>1
  <2>10. Continues'
    <3>1. /\ End(conn)' = <<m, sent'[m]>> /\ Len(wire'[conn']) > 0
      BY <2>2, <2>3, <2>9 DEF End
    <3>2. End(conn)'[2] = Parts \/ UnderWay(m)'
      BY <2>2, <3>1 DEF UnderWay
    <3> QED BY <2>2, <2>5, <3>1, <3>2 DEF Continues, End
  <2>11. Whole(wire'[conn])
    <3> DEFINE s == wire'[conn]
    <3>0. Len(s) = L + n /\ Whole(wire[conn])
      BY <2>a, <2>2
    <3>1. s[1][2] = 1
      <4>1. CASE L > 0
        <5>1. s[1] = wire[conn][1]
          BY <2>3, <2>4, <4>1
        <5> QED BY <3>0, <4>1, <5>1 DEF Whole, L
      <4>2. CASE L = 0
        <5>1. sent[m] = 0
          BY <2>3, <2>7, <4>2
        <5>2. 1 \in (L + 1) .. (L + n) /\ sent[m] + (1 - L) = 1
          BY <2>3, <4>2, <5>1
        <5> QED BY <2>4, <5>2
      <4> QED BY <2>3, <4>1, <4>2
    <3>2. ASSUME NEW i \in 1 .. (L + n - 1)
          PROVE  FollowsInStream(s[i], s[i + 1])
      <4>1. CASE i < L
        <5>1. i \in 1 .. L /\ i + 1 \in 1 .. L /\ i \in 1 .. (L - 1)
          BY <2>3, <4>1
        <5>2. s[i] = wire[conn][i] /\ s[i + 1] = wire[conn][i + 1]
          BY <2>4, <5>1
        <5> QED BY <3>0, <5>1, <5>2 DEF Whole, L
      <4>2. CASE i = L
        <5>1. i \in 1 .. L /\ i + 1 \in (L + 1) .. (L + n) /\ (i + 1) - L = 1 /\ L > 0
          BY <2>3, <4>2
        <5>2. s[i] = wire[conn][L] /\ s[i + 1] = <<m, sent[m] + 1>>
          BY <2>4, <4>2, <5>1
        <5>3. CASE sent[m] > 0
          BY <2>7, <5>2, <5>3 DEF FollowsInStream
        <5>4. CASE sent[m] = 0
          <6>1. s[i][2] = Parts /\ s[i + 1][2] = 1
            BY <2>8, <5>1, <5>2, <5>4
          <6> QED BY <6>1 DEF FollowsInStream
        <5> QED BY <2>3, <5>3, <5>4
      <4>3. CASE i > L
        <5>1. /\ i \in (L + 1) .. (L + n) /\ i + 1 \in (L + 1) .. (L + n)
              /\ sent[m] + ((i + 1) - L) = (sent[m] + (i - L)) + 1
          BY <2>3, <4>3
        <5>2. s[i] = <<m, sent[m] + (i - L)>> /\ s[i + 1] = <<m, sent[m] + ((i + 1) - L)>>
          BY <2>4, <5>1
        <5> QED BY <5>1, <5>2 DEF FollowsInStream
      <4> QED BY <2>3, <4>1, <4>2, <4>3
    <3>3. Len(s) - 1 = L + n - 1
      BY <2>3, <3>0
    <3> HIDE DEF s
    <3>4. Whole(s)
      BY <3>1, <3>2, <3>3 DEF Whole
    <3> QED BY <3>4 DEF s
  <2>12. mixed' = mixed
    BY <2>1 DEF TakesParts
  <2> QED BY <1>1, <2>2, <2>6, <2>10, <2>11, <2>12 DEF CalmInv
<1>8. ASSUME NEW n \in 1 .. Parts, TakeParts(n), conn \in mixed
      PROVE  CalmInv'
  <2>1. PICK m : TakesParts(m, n)
    BY <1>8, TakePartsLemma
  <2>2. /\ UNCHANGED <<conn, mixed>>
        /\ \A k \in 1 .. MaxConnections : k # conn => wire'[k] = wire[k]
    BY <2>1 DEF TakesParts
  <2> QED BY <1>1, <1>8, <2>2 DEF CalmInv
<1>9. CASE UNCHANGED streamVars
  <2>1. /\ conn' = conn /\ wire' = wire /\ sent' = sent /\ stage' = stage
        /\ mixed' = mixed
    BY <1>9 DEF streamVars
  <2> QED BY <1>1, <2>1 DEF CalmInv, OneWrite, Continues, End, UnderWay
<1> QED BY <1>3, <1>4, <1>5, <1>6, <1>7, <1>8, <1>9 DEF StreamNext

(* No connection was made yet.                                               *)
LEMMA StreamInvInit == StreamInit => StreamInv /\ FreedInv /\ CalmInv
<1> SUFFICES ASSUME StreamInit
             PROVE  StreamInv /\ FreedInv /\ CalmInv
  OBVIOUS
<1>0. Parts \in Nat \ {0} /\ MaxConnections \in Nat
  BY StreamAssumption
<1>1. /\ \A k \in 1 .. MaxConnections : wire[k] = <<>> /\ Len(wire[k]) = 0
      /\ \A m \in Messages : sent[m] = 0 /\ ~UnderWay(m)
  BY DEF StreamInit, UnderWay
<1>2. StreamInv
  <2>0. \A T : <<>> \in Seq(T)
    OBVIOUS
  <2>a. wire \in [1 .. MaxConnections -> Seq(Messages \X (1 .. Parts))]
    BY <2>0 DEF StreamInit
  <2>b. /\ conn \in 0 .. MaxConnections /\ made \in 0 .. MaxConnections
        /\ sent \in [Messages -> 0 .. Parts] /\ stage \in [Messages -> Stages]
    BY <1>0 DEF StreamInit, Stages
  <2>1. StreamTypeOK
    BY <2>0, <2>a, <2>b DEF StreamInit, StreamTypeOK
  <2> QED BY <2>1 DEF StreamInit, StreamInv, QueueInv, WireInv, NewInv
<1>3. FreedInv
  BY DEF StreamInit, FreedInv
<1>4. CalmInv
  <2>1. \A k \in 1 .. MaxConnections : Whole(wire[k])
    BY <1>1 DEF Whole
  <2> QED BY <2>1 DEF StreamInit, CalmInv
<1> QED BY <1>2, <1>3, <1>4

(* The peer reads whole messages on every connection on which the writes did *)
(* not overlap and which was not opened under one of them: for any messages, *)
(* any number of parts and of connections.                                   *)
THEOREM WholeMessagesHolds == StreamSpec => []WholeMessages
<1>1. StreamInv /\ CalmInv => WholeMessages
  <2> SUFFICES ASSUME StreamInv, CalmInv, NEW k \in (1 .. MaxConnections) \ mixed
               PROVE  /\ wire[k] # <<>> => wire[k][1][2] = 1
                      /\ \A i \in 1 .. (Len(wire[k]) - 1) :
                           FollowsInStream(wire[k][i], wire[k][i + 1])
    BY DEF WholeMessages
  <2>1. Whole(wire[k]) /\ wire[k] \in Seq(Messages \X (1 .. Parts))
    BY DEF CalmInv, StreamInv, StreamTypeOK
  <2>2. wire[k] # <<>> => Len(wire[k]) > 0
    BY <2>1
  <2> QED BY <2>1, <2>2 DEF Whole
<1> QED BY <1>1, StreamInvInit, StreamInvStep, FreedStep, CalmStep, PTL DEF StreamSpec
=============================================================================
