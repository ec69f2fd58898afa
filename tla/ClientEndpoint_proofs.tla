----------------------- MODULE ClientEndpoint_proofs ------------------------
(***************************************************************************)
(* What the steps of client_endpoint_impl preserve, whichever protocol the *)
(* template is instantiated with.  The modules on the TCP and the UDP      *)
(* endpoint add their own steps to these lemmas.                           *)
(***************************************************************************)
EXTENDS ClientEndpoint, TLAPS

(* What a protocol may be.                                                 *)
IsProtocol(protocol) ==
    /\ protocol.starts \subseteq {"pending", "ok", "failed"}
    /\ protocol.bindable \subseteq {"unbound", "unconnected"}

Pendings == [Callbacks -> Nat]
Readies == [Callbacks -> [Results -> Nat]]

-----------------------------------------------------------------------------
(***************************************************************************)
(* The tables of IoOps, for the callbacks and results of a client.         *)
(***************************************************************************)

(* Starting an operation adds one to its callback's count and to no other.  *)
LEMMA StartOpLemma ==
    ASSUME NEW p \in Pendings, NEW c \in Callbacks
    PROVE  /\ StartOp(p, c) \in Pendings
           /\ StartOp(p, c)[c] = p[c] + 1
           /\ \A d \in Callbacks : d # c => StartOp(p, c)[d] = p[d]
BY DEF Pendings, StartOp

(* Ending a pending operation keeps the counts natural numbers.            *)
LEMMA EndOpLemma ==
    ASSUME NEW p \in Pendings, NEW c \in Callbacks, p[c] > 0
    PROVE  /\ EndOp(p, c) \in Pendings
           /\ EndOp(p, c)[c] = p[c] - 1
           /\ \A d \in Callbacks : d # c => EndOp(p, c)[d] = p[d]
BY DEF Pendings, EndOp

(* Queueing a completion adds one to its own entry.                        *)
LEMMA PostLemma ==
    ASSUME NEW q \in Readies, NEW c \in Callbacks, NEW r \in Results
    PROVE  /\ Post(q, c, r) \in Readies
           /\ Post(q, c, r)[c][r] = q[c][r] + 1
           /\ \A s \in Results : s # r => Post(q, c, r)[c][s] = q[c][s]
           /\ \A d \in Callbacks : d # c => Post(q, c, r)[d] = q[d]
BY DEF Readies, Post

(* Running a queued completion takes one from its own entry.               *)
LEMMA TakeLemma ==
    ASSUME NEW q \in Readies, NEW c \in Callbacks, NEW r \in Results, q[c][r] > 0
    PROVE  /\ Take(q, c, r) \in Readies
           /\ Take(q, c, r)[c][r] = q[c][r] - 1
           /\ \A s \in Results : s # r => Take(q, c, r)[c][s] = q[c][s]
           /\ \A d \in Callbacks : d # c => Take(q, c, r)[d] = q[d]
BY DEF Readies, Take

(* Closing leaves nothing pending and only adds aborted completions.       *)
LEMMA CloseLemma ==
    ASSUME NEW p \in Pendings, NEW q \in Readies
    PROVE  /\ NonePending(p) \in Pendings
           /\ \A c \in Callbacks : NonePending(p)[c] = 0
           /\ Aborted(p, q) \in Readies
           /\ \A c \in Callbacks : Aborted(p, q)[c]["aborted"] = q[c]["aborted"] + p[c]
           /\ \A c \in Callbacks, r \in Results \ {"aborted"} : Aborted(p, q)[c][r] = q[c][r]
BY DEF Pendings, Readies, NonePending, Aborted, Results

-----------------------------------------------------------------------------
(***************************************************************************)
(* The critical sections.                                                  *)
(***************************************************************************)

(* The types and the counts of operations go together: a connect ends only  *)
(* because one is pending when the socket is connecting.                    *)
Base == ClientTypeOK /\ OneConnectInProgress

(* connect() keeps the types and at most one connect pending; a connect_cbk *)
(* is due after it; a socket with a port keeps it; state_ stays CLOSED only *)
(* when the attempt did not reach async_connect.                            *)
LEMMA ConnectLemma ==
    ASSUME Base, NEW protocol, IsProtocol(protocol), connect(protocol)
    PROVE  /\ sock' \in SockStates /\ localPort' = localPort
           /\ pending' \in Pendings /\ ready' \in Readies
           /\ state' \in cei_state_e /\ appClosed' \in BOOLEAN
           /\ kept' = (NothingCloses /\ is_open') /\ kept' \in BOOLEAN
           /\ ready'["connect"]["aborted"] = ready["connect"]["aborted"]
           /\ OneConnectInProgress'
           /\ ConnectCbkDue'
           /\ IsBound => IsBound'
           /\ state' = "CLOSED" /\ sock' \in {"connecting", "connected"}
                => UNCHANGED <<sock, state, appClosed>>
<1>0. /\ pending \in Pendings /\ ready \in Readies
      /\ sock \in SockStates /\ state \in cei_state_e /\ appClosed \in BOOLEAN
      /\ pending["connect"] = IF sock = "connecting" THEN 1 ELSE 0
  BY DEF Base, ClientTypeOK, OneConnectInProgress, Pendings, Readies
<1>1. "connect" \in Callbacks /\ "aborted" \in Results
  BY DEF Callbacks, Results
<1>k. NothingCloses \in BOOLEAN
  BY DEF NothingCloses
<1>2. ASSUME NEW r \in {"ok", "failed"}, ready' = Post(ready, "connect", r)
      PROVE  /\ ready' \in Readies /\ ConnectCbkDue'
             /\ ready'["connect"]["aborted"] = ready["connect"]["aborted"]
  <2>1. r \in Results /\ r # "aborted"
    BY DEF Results
  <2>2. /\ ready' \in Readies /\ ready'["connect"][r] = ready["connect"][r] + 1
        /\ \A s \in Results : s # r => ready'["connect"][s] = ready["connect"][s]
    BY <1>0, <1>1, <1>2, <2>1, PostLemma
  <2>3. ready["connect"][r] \in Nat
    BY <1>0, <1>1, <2>1 DEF Readies
  <2>4. ready'["connect"][r] > 0
    BY <2>2, <2>3
  <2> QED BY <1>1, <2>1, <2>2, <2>4 DEF ConnectCbkDue
<1>3. CASE OpenFails
  <2>1. /\ ready' \in Readies /\ ConnectCbkDue'
        /\ ready'["connect"]["aborted"] = ready["connect"]["aborted"]
    BY <1>2, <1>3 DEF OpenFails
  <2>2. ~is_open' /\ kept' = FALSE
    BY <1>3 DEF OpenFails, is_open
  <2> QED BY <1>0, <1>3, <1>k, <2>1, <2>2
          DEF OpenFails, connect, OneConnectInProgress, IsBound
<1>4. CASE BindFails
  <2>1. /\ ready' \in Readies /\ ConnectCbkDue'
        /\ ready'["connect"]["aborted"] = ready["connect"]["aborted"]
    BY <1>2, <1>4 DEF BindFails
  <2>2. is_open' /\ kept' = NothingCloses
    BY <1>4 DEF BindFails, is_open
  <2> QED BY <1>0, <1>4, <1>k, <2>1, <2>2
          DEF BindFails, connect, OneConnectInProgress, IsBound, SockStates
<1>5. CASE /\ is_open => sock \in protocol.bindable
           /\ async_connect(protocol)
  <2>1. sock # "connecting" /\ pending["connect"] = 0
    BY <1>0, <1>5 DEF IsProtocol, is_open
  <2>2. /\ state' = "CONNECTING" /\ appClosed' = FALSE /\ localPort' = localPort
        /\ kept' = NothingCloses
    BY <1>5 DEF async_connect, connect
  <2>3. CASE /\ sock' = "connecting"
             /\ pending' = StartOp(pending, "connect") /\ UNCHANGED ready
    <3>1. pending' \in Pendings /\ pending'["connect"] = 1
      BY <1>0, <1>1, <2>1, <2>3, StartOpLemma
    <3>2. OneConnectInProgress' /\ ConnectCbkDue' /\ IsBound' /\ is_open'
      BY <2>3, <3>1 DEF OneConnectInProgress, ConnectCbkDue, IsBound, is_open
    <3> QED BY <1>0, <1>k, <2>2, <2>3, <3>1, <3>2 DEF SockStates, cei_state_e
  <2>4. ASSUME NEW r \in protocol.starts \ {"pending"},
               sock' = IF r = "ok" THEN "connected" ELSE "unconnected",
               ready' = Post(ready, "connect", r), UNCHANGED pending
        PROVE  /\ sock' \in {"connected", "unconnected"}
               /\ ready' \in Readies /\ ConnectCbkDue'
               /\ ready'["connect"]["aborted"] = ready["connect"]["aborted"]
               /\ pending' = pending
    BY <1>2, <2>4 DEF IsProtocol
  <2>5. ASSUME sock' \in {"connected", "unconnected"},
               ready' \in Readies, ConnectCbkDue', pending' = pending
        PROVE  OneConnectInProgress' /\ IsBound' /\ is_open' /\ sock' \in SockStates
    BY <2>1, <2>5 DEF OneConnectInProgress, IsBound, SockStates, is_open
  <2>6. CASE \E r \in protocol.starts \ {"pending"} :
               /\ sock' = IF r = "ok" THEN "connected" ELSE "unconnected"
               /\ ready' = Post(ready, "connect", r)
               /\ UNCHANGED pending
    BY <1>0, <1>k, <2>2, <2>4, <2>5, <2>6 DEF cei_state_e
  <2> QED BY <1>5, <2>3, <2>6 DEF async_connect
<1> QED BY <1>3, <1>4, <1>5 DEF connect

(* Freeing the socket object moves half-written sends from one count to     *)
(* another.                                                                 *)
LEMMA OrphanedLemma ==
    ASSUME NEW q \in Readies
    PROVE  /\ Orphaned(q) \in Readies
           /\ \A c \in Callbacks, r \in Results \ {"partial", "orphaned"} :
                Orphaned(q)[c][r] = q[c][r]
<1>1. q["send"]["orphaned"] + q["send"]["partial"] \in Nat
  BY DEF Readies, Callbacks, Results
<1> QED BY <1>1 DEF Orphaned, Readies, Callbacks, Results

(* shutdown_and_close_socket leaves a closed socket without a port and      *)
(* without operations, and takes no completion away.                        *)
LEMMA ShutdownLemma ==
    ASSUME ClientTypeOK, NEW recreated \in BOOLEAN, shutdown_and_close_socket(recreated)
    PROVE  /\ sock' = "closed" /\ localPort' = FALSE
           /\ pending' \in Pendings /\ ready' \in Readies
           /\ \A c \in Callbacks : pending'[c] = 0
           /\ \A c \in Callbacks :
                ready'[c]["aborted"] = ready[c]["aborted"] + pending[c]
           /\ \A c \in Callbacks, r \in Results \ {"aborted", "partial", "orphaned"} :
                ready'[c][r] = ready[c][r]
           /\ ~recreated => \A c \in Callbacks, r \in Results \ {"aborted"} :
                               ready'[c][r] = ready[c][r]
           /\ OneConnectInProgress'
<1> DEFINE q == Aborted(pending, ready)
<1>1. pending \in Pendings /\ ready \in Readies /\ "aborted" \in Results
  BY DEF ClientTypeOK, Pendings, Readies, Results
<1>2. /\ q \in Readies
      /\ \A c \in Callbacks : q[c]["aborted"] = ready[c]["aborted"] + pending[c]
      /\ \A c \in Callbacks, r \in Results \ {"aborted"} : q[c][r] = ready[c][r]
  BY <1>1, CloseLemma
<1>3. /\ sock' = "closed" /\ localPort' = FALSE
      /\ pending' = NonePending(pending)
      /\ ready' = IF recreated THEN Orphaned(q) ELSE q
  BY DEF shutdown_and_close_socket
<1>4. pending' \in Pendings /\ \A c \in Callbacks : pending'[c] = 0
  BY <1>1, <1>3, CloseLemma
<1>5. OneConnectInProgress'
  BY <1>3, <1>4 DEF OneConnectInProgress, Callbacks
<1> HIDE DEF q
<1>6. CASE recreated
  BY <1>1, <1>2, <1>3, <1>4, <1>5, <1>6, OrphanedLemma
<1>7. CASE ~recreated
  BY <1>1, <1>2, <1>3, <1>4, <1>5, <1>7
<1> QED BY <1>6, <1>7

(* Taking a completion out of the queue keeps the table of completions.    *)
LEMMA DispatchLemma ==
    ASSUME ClientTypeOK, NEW w, NEW c \in Callbacks, NEW r \in Results,
           Dispatch(w, c, r)
    PROVE  /\ ready' \in Readies
           /\ ready'[c][r] = ready[c][r] - 1 /\ ready[c][r] > 0
           /\ \A s \in Results : s # r => ready'[c][s] = ready[c][s]
           /\ \A d \in Callbacks : d # c => ready'[d] = ready[d]
<1>1. ready \in Readies /\ ready[c][r] > 0 /\ ready' = Take(ready, c, r)
  BY DEF ClientTypeOK, Readies, Dispatch
<1> QED BY <1>1, TakeLemma

(* A thread that moves on stays at a step there is.                        *)
LEMMA GotoLemma ==
    ASSUME ClientTypeOK, NEW t \in Threads, NEW step \in Steps, Goto(t, step)
    PROVE  /\ frame' \in [Threads -> Steps]
           /\ frame'[t] = step
           /\ \A u \in Threads : u # t => frame'[u] = frame[u]
BY DEF ClientTypeOK, Goto

-----------------------------------------------------------------------------
(***************************************************************************)
(* Types and operation counts.                                             *)
(***************************************************************************)

(* A callback of the base class keeps the types, and only reconnect() may   *)
(* start a connect.                                                         *)
LEMMA BaseCallbacks ==
    ASSUME Base, NEW w \in Workers, NEW protocol, IsProtocol(protocol),
           SharedCallbacks(w, protocol)
    PROVE  Base'
<1>0. ClientTypeOK /\ w \in Threads /\ "connect" \in Callbacks /\ "send" \in Callbacks
  BY DEF Base, Threads, Callbacks
<1>1. ASSUME NEW r \in Results, connect_cbk(w, r)
      PROVE  Base'
  <2>1. ready' \in Readies
    BY <1>0, <1>1, DispatchLemma DEF connect_cbk
  <2>2. frame' \in [Threads -> Steps]
    BY <1>0, <1>1, GotoLemma DEF connect_cbk, Steps, StrandSteps
  <2> QED BY <1>1, <2>1, <2>2
          DEF Base, connect_cbk, ClientTypeOK, OneConnectInProgress, Readies,
              flagVars, historyVars
<1>2. CASE set_local_port(w)
  <2>1. frame' \in [Threads -> Steps]
    BY <1>0, <1>2, GotoLemma DEF set_local_port, Steps, StrandSteps
  <2>2. localPort' \in BOOLEAN /\ wasNotConnected' = FALSE
    BY <1>0, <1>2 DEF set_local_port, ClientTypeOK
  <2> QED BY <1>2, <2>1, <2>2
          DEF Base, set_local_port, ClientTypeOK, OneConnectInProgress, historyVars
<1>3. CASE send_cbk_lost(w)
  <2>1. ready' \in Readies
    BY <1>0, <1>3, DispatchLemma DEF send_cbk_lost, Results
  <2>2. frame' \in [Threads -> Steps]
    BY <1>0, <1>3, GotoLemma DEF send_cbk_lost, Steps
  <2> QED BY <1>3, <2>1, <2>2
          DEF Base, send_cbk_lost, ClientTypeOK, OneConnectInProgress, Readies,
              cei_state_e, historyVars
<1>4. CASE send_cbk_aborted(w)
  <2>1. ready' \in Readies
    BY <1>0, <1>4, DispatchLemma DEF send_cbk_aborted, Results
  <2>2. frame' \in [Threads -> Steps]
    BY <1>0, <1>4, GotoLemma DEF send_cbk_aborted, Steps, CloseSteps
  <2> QED BY <1>4, <2>1, <2>2
          DEF Base, send_cbk_aborted, ClientTypeOK, OneConnectInProgress, Readies,
              historyVars
<1>5. CASE send_cbk_done(w)
  <2>1. ready' \in Readies
    BY <1>0, <1>5, DispatchLemma DEF send_cbk_done, Results
  <2> QED BY <1>5, <2>1
          DEF Base, send_cbk_done, ClientTypeOK, OneConnectInProgress, Readies,
              flagVars, historyVars
<1>6. CASE recreate(w)
  <2>1. frame' \in [Threads -> Steps]
    BY <1>0, <1>6, GotoLemma DEF recreate, Steps
  <2> QED BY <1>0, <1>6, <2>1, ShutdownLemma
          DEF Base, recreate, ClientTypeOK, Pendings, Readies, SockStates,
              flagVars, historyVars
<1>7. CASE reconnect(w, protocol)
  <2>1. frame' \in [Threads -> Steps]
    BY <1>0, <1>7, GotoLemma DEF reconnect, Steps
  <2> QED BY <1>0, <1>7, <2>1, ConnectLemma
          DEF Base, reconnect, ClientTypeOK, Pendings, Readies
<1>8. CASE close(w)
  <2>1. frame' \in [Threads -> Steps]
    BY <1>0, <1>8, GotoLemma DEF close, Steps
  <2> QED BY <1>0, <1>8, <2>1, ShutdownLemma
          DEF Base, close, ClientTypeOK, Pendings, Readies, SockStates,
              flagVars, historyVars
<1> QED BY <1>1, <1>2, <1>3, <1>4, <1>5, <1>6, <1>7, <1>8 DEF SharedCallbacks

(* So does a call of the application.                                      *)
LEMMA BaseCalls ==
    ASSUME Base, NEW t \in Callers, NEW protocol, IsProtocol(protocol),
           SharedCalls(t, protocol)
    PROVE  Base'
<1>0. ClientTypeOK /\ t \in Threads
  BY DEF Base, Threads
<1>1. CASE start(t, protocol)
  BY <1>0, <1>1, ConnectLemma
     DEF Base, start, ClientTypeOK, Pendings, Readies
<1>2. CASE stop(t)
  <2>1. NoReconnectDue \in BOOLEAN
    BY DEF NoReconnectDue
  <2> QED BY <1>0, <1>2, <2>1, ShutdownLemma
          DEF Base, stop, ClientTypeOK, Pendings, Readies, SockStates, flagVars
<1>3. ASSUME NEW b \in BOOLEAN, set_connected(t, b)
      PROVE  Base'
  <2>1. state' \in cei_state_e /\ appClosed' \in BOOLEAN
    BY <1>0, <1>3 DEF set_connected, cei_state_e, ClientTypeOK, is_open
  <2> QED BY <1>3, <2>1
          DEF Base, set_connected, ClientTypeOK, OneConnectInProgress, socketVars
<1>4. ASSUME NEW b \in BOOLEAN, set_established(t, b)
      PROVE  Base'
  <2>1. state' \in cei_state_e /\ appClosed' \in BOOLEAN
    BY <1>0, <1>4 DEF set_established, cei_state_e, ClientTypeOK
  <2>2. frame' \in [Threads -> Steps]
    BY <1>0, <1>4, GotoLemma DEF set_established, Steps, ClientTypeOK
  <2> QED BY <1>4, <2>1, <2>2
          DEF Base, set_established, ClientTypeOK, OneConnectInProgress, socketVars
<1>5. CASE set_established_locked(t)
  <2>1. state' \in cei_state_e /\ appClosed' \in BOOLEAN
    BY <1>0, <1>5 DEF set_established_locked, cei_state_e, ClientTypeOK, is_open
  <2>2. frame' \in [Threads -> Steps]
    BY <1>0, <1>5, GotoLemma DEF set_established_locked, Steps
  <2> QED BY <1>5, <2>1, <2>2
          DEF Base, set_established_locked, ClientTypeOK, OneConnectInProgress, socketVars
<1> QED BY <1>1, <1>2, <1>3, <1>4, <1>5 DEF SharedCalls

-----------------------------------------------------------------------------
(***************************************************************************)
(* After a quiet stop the socket is closed, no operation is pending, and   *)
(* neither the queue nor a callback under way asks for a reconnect: this   *)
(* is what keeps the endpoint closed.                                      *)
(***************************************************************************)
QuietInv ==
    quietStop => sock = "closed" /\ NoReconnectDue /\ \A c \in Callbacks : pending[c] = 0

(* The callbacks of the base class: those that would reconnect are not due, *)
(* the others leave a closed socket closed.                                 *)
LEMMA QuietCallbacks ==
    ASSUME Base, QuietInv, NEW w \in Workers, NEW protocol, SharedCallbacks(w, protocol)
    PROVE  QuietInv'
<1>0. /\ ClientTypeOK /\ w \in Threads
      /\ \A c \in {"connect", "send"} : c \in Callbacks
      /\ \A r \in {"lost", "partial", "orphaned", "aborted", "done"} : r \in Results
  BY DEF Base, Threads, Callbacks, Results
<1> SUFFICES ASSUME quietStop'
             PROVE  sock' = "closed" /\ NoReconnectDue' /\ \A c \in Callbacks : pending'[c] = 0
  BY DEF QuietInv
<1>1. quietStop' = quietStop
  BY DEF SharedCallbacks, connect_cbk, set_local_port, send_cbk_lost, send_cbk_aborted,
         send_cbk_done, recreate, reconnect, close, historyVars
<1>2. sock = "closed" /\ NoReconnectDue /\ \A c \in Callbacks : pending[c] = 0
  BY <1>1 DEF QuietInv
<1>3. ASSUME NEW step \in Steps \ {"send_cbk.recreate", "send_cbk.connect"}, Goto(w, step)
      PROVE  \A u \in Workers : frame'[u] \notin {"send_cbk.recreate", "send_cbk.connect"}
  BY <1>0, <1>2, <1>3, GotoLemma DEF NoReconnectDue, Threads
<1>4. ASSUME NEW r \in Results, connect_cbk(w, r)
      PROVE  sock' = "closed" /\ NoReconnectDue' /\ \A c \in Callbacks : pending'[c] = 0
  <2>1. ready'["send"] = ready["send"]
    BY <1>0, <1>4, DispatchLemma DEF connect_cbk
  <2>2. \A u \in Workers : frame'[u] \notin {"send_cbk.recreate", "send_cbk.connect"}
    BY <1>3, <1>4 DEF connect_cbk, Steps, StrandSteps
  <2> QED BY <1>2, <1>4, <2>1, <2>2 DEF connect_cbk, NoReconnectDue
<1>5. CASE set_local_port(w)
  <2>1. \A u \in Workers : frame'[u] \notin {"send_cbk.recreate", "send_cbk.connect"}
    BY <1>3, <1>5 DEF set_local_port, Steps, StrandSteps
  <2> QED BY <1>2, <1>5, <2>1 DEF set_local_port, NoReconnectDue
<1>6. CASE send_cbk_lost(w)
  BY <1>0, <1>2, <1>6, DispatchLemma DEF send_cbk_lost, NoReconnectDue
<1>7. CASE send_cbk_aborted(w)
  <2>0. /\ Dispatch(w, "send", "aborted") /\ "send" \in Callbacks
        /\ \A r \in {"lost", "partial", "orphaned", "aborted"} : r \in Results
    BY <1>0, <1>7 DEF send_cbk_aborted
  <2>1. ready'["send"]["lost"] = ready["send"]["lost"]
    BY <1>0, <2>0, DispatchLemma
  <2>3. /\ ready'["send"]["partial"] = ready["send"]["partial"]
        /\ ready'["send"]["orphaned"] = ready["send"]["orphaned"]
    BY <1>0, <2>0, DispatchLemma
  <2>2. \A u \in Workers : frame'[u] \notin {"send_cbk.recreate", "send_cbk.connect"}
    BY <1>3, <1>7 DEF send_cbk_aborted, Steps, CloseSteps
  <2> QED BY <1>2, <1>7, <2>1, <2>2, <2>3 DEF send_cbk_aborted, NoReconnectDue
<1>8. CASE send_cbk_done(w)
  <2>0. /\ Dispatch(w, "send", "done") /\ "send" \in Callbacks
        /\ \A r \in {"lost", "partial", "orphaned", "done"} : r \in Results
    BY <1>0, <1>8 DEF send_cbk_done
  <2>1. ready'["send"]["lost"] = ready["send"]["lost"]
    BY <1>0, <2>0, DispatchLemma
  <2>3. /\ ready'["send"]["partial"] = ready["send"]["partial"]
        /\ ready'["send"]["orphaned"] = ready["send"]["orphaned"]
    BY <1>0, <2>0, DispatchLemma
  <2> QED BY <1>2, <1>8, <2>1, <2>3 DEF send_cbk_done, NoReconnectDue
<1>9. CASE recreate(w) \/ reconnect(w, protocol)
  BY <1>2, <1>9 DEF recreate, reconnect, NoReconnectDue
<1>10. CASE close(w)
  <2>1. \A u \in Workers : frame'[u] \notin {"send_cbk.recreate", "send_cbk.connect"}
    BY <1>3, <1>10 DEF close, Steps
  <2>2. /\ ready'["send"]["lost"] = 0 /\ ready'["send"]["partial"] = 0
        /\ ready'["send"]["orphaned"] = 0
    BY <1>0, <1>2, <1>10, ShutdownLemma DEF close, NoReconnectDue
  <2> QED BY <1>0, <1>10, <2>1, <2>2, ShutdownLemma DEF close, NoReconnectDue
<1> QED BY <1>4, <1>5, <1>6, <1>7, <1>8, <1>9, <1>10 DEF SharedCallbacks

(* The calls of the application: start() ends the promise, stop() makes it  *)
(* when nothing is due, and the others do not touch the socket.             *)
LEMMA QuietCalls ==
    ASSUME Base, QuietInv, NEW t \in Callers, NEW protocol, SharedCalls(t, protocol)
    PROVE  QuietInv'
<1>0. /\ ClientTypeOK /\ t \in Threads /\ t \notin Workers /\ "send" \in Callbacks
      /\ "lost" \in Results /\ "partial" \in Results /\ "orphaned" \in Results
  BY ThreadsAssumption DEF Base, Threads, Callbacks, Results
<1>1. CASE start(t, protocol)
  BY <1>1 DEF start, QuietInv
<1>2. CASE stop(t)
  <2>1. /\ sock' = "closed" /\ \A c \in Callbacks : pending'[c] = 0
        /\ ready'["send"]["lost"] = ready["send"]["lost"]
        /\ ready'["send"]["partial"] = ready["send"]["partial"]
        /\ ready'["send"]["orphaned"] = ready["send"]["orphaned"]
    BY <1>0, <1>2, ShutdownLemma DEF stop
  <2> QED BY <1>2, <2>1 DEF stop, QuietInv, NoReconnectDue
<1>3. ASSUME NEW b \in BOOLEAN, set_connected(t, b)
      PROVE  QuietInv'
  BY <1>3 DEF set_connected, QuietInv, NoReconnectDue, socketVars
<1>4. ASSUME UNCHANGED <<socketVars, quietStop>>,
             \A u \in Workers : frame'[u] = frame[u]
      PROVE  QuietInv'
  BY <1>4 DEF QuietInv, NoReconnectDue, socketVars
<1>5. ASSUME NEW step \in Steps, Goto(t, step)
      PROVE  \A u \in Workers : frame'[u] = frame[u]
  BY <1>0, <1>5, GotoLemma DEF Threads
<1>6. ASSUME NEW b \in BOOLEAN, set_established(t, b)
      PROVE  QuietInv'
  <2>1. \A u \in Workers : frame'[u] = frame[u]
    BY <1>5, <1>6 DEF set_established, Steps
  <2> QED BY <1>4, <1>6, <2>1 DEF set_established
<1>7. CASE set_established_locked(t)
  <2>1. \A u \in Workers : frame'[u] = frame[u]
    BY <1>5, <1>7 DEF set_established_locked, Steps
  <2> QED BY <1>4, <1>7, <2>1 DEF set_established_locked
<1> QED BY <1>1, <1>2, <1>3, <1>6, <1>7 DEF SharedCalls

-----------------------------------------------------------------------------
(***************************************************************************)
(* local_port_, sending_blocked_ and the state CLOSED.                     *)
(***************************************************************************)

(* What a step may do to frame without losing a step that was due.         *)
FramesKept(steps) ==
    \A u \in Workers : frame[u] \in steps => frame'[u] = frame[u]

(* A worker that was not at one of these steps cannot disturb them.        *)
LEMMA GotoKeeps ==
    ASSUME ClientTypeOK, NEW t \in Threads, NEW steps, frame[t] \notin steps,
           NEW step \in Steps, Goto(t, step)
    PROVE  FramesKept(steps)
BY GotoLemma DEF FramesKept, Threads

(* The port is reset whenever the socket is closed, and set only from a     *)
(* socket that has one.                                                     *)
LEMMA LocalPortShared ==
    ASSUME Base, LocalPortOfOpenSocket, NEW protocol, IsProtocol(protocol), NEW t,
           SharedCallbacks(t, protocol) \/ SharedCalls(t, protocol)
    PROVE  LocalPortOfOpenSocket'
<1>0. ClientTypeOK
  BY DEF Base
<1>1. CASE connect(protocol)
  BY <1>1, ConnectLemma DEF LocalPortOfOpenSocket
<1>2. ASSUME NEW recreated \in BOOLEAN, shutdown_and_close_socket(recreated)
      PROVE  LocalPortOfOpenSocket'
  BY <1>0, <1>2, ShutdownLemma DEF LocalPortOfOpenSocket
<1>3. CASE set_local_port(t)
  BY <1>3 DEF set_local_port, LocalPortOfOpenSocket, IsBound, is_open
<1>4. CASE UNCHANGED <<sock, localPort>>
  BY <1>4 DEF LocalPortOfOpenSocket, IsBound
<1> QED BY <1>1, <1>2, <1>3, <1>4
        DEF SharedCallbacks, SharedCalls, connect_cbk, send_cbk_lost, send_cbk_aborted,
            send_cbk_done, recreate, reconnect, close, start, stop, set_connected,
            set_established, set_established_locked, socketVars

(* A step that leaves connect_cbk's operations and the steps that close     *)
(* alone leaves a blocked endpoint with its close to come.                  *)
LEMMA BlockedKept ==
    ASSUME BlockedEndpointCloses, UNCHANGED sendingBlocked, is_open' => is_open,
           pending'["connect"] = pending["connect"],
           \A r \in Results : ready'["connect"][r] = ready["connect"][r],
           FramesKept(CloseSteps)
    PROVE  BlockedEndpointCloses'
<1>1. ConnectCbkDue => ConnectCbkDue'
  BY DEF ConnectCbkDue
<1>2. CloseDue => CloseDue'
  BY DEF CloseDue, FramesKept
<1> QED BY <1>1, <1>2 DEF BlockedEndpointCloses

(* Every callback of the base class keeps the close to come, or makes it    *)
(* come: connect_cbk by going on to close, send_cbk when it sets the flag.  *)
LEMMA BlockedCallbacks ==
    ASSUME Base, BlockedEndpointCloses, NEW w \in Workers, NEW protocol,
           IsProtocol(protocol), SharedCallbacks(w, protocol)
    PROVE  BlockedEndpointCloses'
<1>0. /\ ClientTypeOK /\ w \in Threads /\ "connect" # "send"
      /\ \A c \in {"connect", "send"} : c \in Callbacks
      /\ \A r \in {"lost", "done"} : r \in Results
  BY DEF Base, Threads, Callbacks, Results
<1>1. ASSUME NEW r \in Results, connect_cbk(w, r)
      PROVE  BlockedEndpointCloses'
  <2>1. sendingBlocked => frame'[w] \in CloseSteps
    BY <1>0, <1>1, GotoLemma DEF connect_cbk, Steps, CloseSteps, StrandSteps
  <2> QED BY <1>1, <2>1 DEF connect_cbk, flagVars, CloseDue, BlockedEndpointCloses
<1>2. CASE set_local_port(w)
  <2>1. FramesKept(CloseSteps)
    BY <1>0, <1>2, GotoKeeps DEF set_local_port, Steps, StrandSteps, CloseSteps
  <2> QED BY <1>2, <2>1, BlockedKept DEF set_local_port, is_open
<1>3. CASE send_cbk_lost(w)
  <2>1. FramesKept(CloseSteps)
    BY <1>0, <1>3, GotoKeeps DEF send_cbk_lost, Dispatch, Steps, CloseSteps
  <2>2. ready'["connect"] = ready["connect"]
    BY <1>0, <1>3, DispatchLemma DEF send_cbk_lost
  <2> QED BY <1>3, <2>1, <2>2, BlockedKept DEF send_cbk_lost, is_open
<1>4. CASE send_cbk_aborted(w)
  <2>1. frame'[w] \in CloseSteps
    BY <1>0, <1>4, GotoLemma DEF send_cbk_aborted, Steps, CloseSteps
  <2> QED BY <2>1 DEF CloseDue, BlockedEndpointCloses
<1>5. CASE send_cbk_done(w)
  <2>1. ready'["connect"] = ready["connect"]
    BY <1>0, <1>5, DispatchLemma DEF send_cbk_done
  <2> QED BY <1>5, <2>1, BlockedKept DEF send_cbk_done, is_open, FramesKept, flagVars
<1>6. CASE recreate(w) \/ close(w)
  BY <1>0, <1>6, ShutdownLemma DEF recreate, close, BlockedEndpointCloses, is_open
<1>7. CASE reconnect(w, protocol)
  BY <1>7, ConnectLemma DEF reconnect, BlockedEndpointCloses
<1> QED BY <1>1, <1>2, <1>3, <1>4, <1>5, <1>6, <1>7 DEF SharedCallbacks

(* Of the application's calls only start() opens the socket, and connect_cbk *)
(* is due after it.                                                          *)
LEMMA BlockedCalls ==
    ASSUME Base, BlockedEndpointCloses, NEW t \in Callers, NEW protocol,
           IsProtocol(protocol), SharedCalls(t, protocol)
    PROVE  BlockedEndpointCloses'
<1>0. ClientTypeOK /\ t \in Threads /\ t \notin Workers
  BY ThreadsAssumption DEF Base, Threads
<1>1. CASE start(t, protocol)
  BY <1>1, ConnectLemma DEF start, BlockedEndpointCloses
<1>2. CASE stop(t)
  BY <1>0, <1>2, ShutdownLemma DEF stop, BlockedEndpointCloses, is_open
<1>3. ASSUME NEW step \in Steps, Goto(t, step)
      PROVE  FramesKept(CloseSteps)
  BY <1>0, <1>3, GotoLemma DEF FramesKept, Threads
<1>4. ASSUME NEW b \in BOOLEAN, set_connected(t, b)
      PROVE  BlockedEndpointCloses'
  BY <1>4, BlockedKept DEF set_connected, socketVars, is_open, FramesKept
<1>5. ASSUME NEW b \in BOOLEAN, set_established(t, b)
      PROVE  BlockedEndpointCloses'
  <2>1. FramesKept(CloseSteps)
    BY <1>3, <1>5 DEF set_established, Steps, FramesKept
  <2> QED BY <1>5, <2>1, BlockedKept DEF set_established, socketVars, is_open
<1>6. CASE set_established_locked(t)
  <2>1. FramesKept(CloseSteps)
    BY <1>3, <1>6 DEF set_established_locked, Steps
  <2> QED BY <1>6, <2>1, BlockedKept DEF set_established_locked, socketVars, is_open
<1> QED BY <1>1, <1>2, <1>4, <1>5, <1>6 DEF SharedCalls

Alive(s) == s \in {"connecting", "connected"}

(* A step that keeps state_ and who set it, does not make a socket live and *)
(* leaves the callers of recreate alone keeps the reason for CLOSED.        *)
LEMMA ClosedKept ==
    ASSUME ClosedStateNotOverLiveSocket, UNCHANGED <<state, appClosed>>,
           Alive(sock') => Alive(sock), FramesKept({"send_cbk.recreate"})
    PROVE  ClosedStateNotOverLiveSocket'
BY DEF ClosedStateNotOverLiveSocket, FramesKept, Alive

(* send_cbk announces the loss before it sets state_ to CLOSED over a live  *)
(* socket, and connect() that ends with CLOSED over one has changed nothing.*)
LEMMA ClosedCallbacks ==
    ASSUME Base, ClosedStateNotOverLiveSocket, NEW w \in Workers, NEW protocol,
           IsProtocol(protocol), SharedCallbacks(w, protocol)
    PROVE  ClosedStateNotOverLiveSocket'
<1>0. ClientTypeOK /\ w \in Threads
  BY DEF Base, Threads
<1>1. ASSUME NEW step \in Steps, Goto(w, step), frame[w] # "send_cbk.recreate"
      PROVE  FramesKept({"send_cbk.recreate"})
  BY <1>0, <1>1, GotoKeeps
<1>2. ASSUME NEW r \in Results, connect_cbk(w, r)
      PROVE  ClosedStateNotOverLiveSocket'
  <2>1. FramesKept({"send_cbk.recreate"})
    BY <1>1, <1>2 DEF connect_cbk, Dispatch, Steps, StrandSteps
  <2> QED BY <1>2, <2>1, ClosedKept DEF connect_cbk, flagVars, historyVars
<1>3. CASE set_local_port(w)
  <2>1. FramesKept({"send_cbk.recreate"})
    BY <1>1, <1>3 DEF set_local_port, Steps, StrandSteps
  <2> QED BY <1>3, <2>1, ClosedKept DEF set_local_port, historyVars
<1>4. CASE send_cbk_lost(w)
  <2>1. frame'[w] = "send_cbk.recreate"
    BY <1>0, <1>4, GotoLemma DEF send_cbk_lost, Steps
  <2> QED BY <2>1 DEF ClosedStateNotOverLiveSocket
<1>5. CASE send_cbk_aborted(w)
  <2>1. FramesKept({"send_cbk.recreate"})
    BY <1>1, <1>5 DEF send_cbk_aborted, Dispatch, Steps, CloseSteps
  <2> QED BY <1>5, <2>1, ClosedKept DEF send_cbk_aborted, historyVars
<1>6. CASE send_cbk_done(w)
  BY <1>6, ClosedKept DEF send_cbk_done, FramesKept, flagVars, historyVars
<1>7. CASE recreate(w) \/ close(w)
  BY <1>0, <1>7, ShutdownLemma DEF recreate, close, ClosedStateNotOverLiveSocket
<1>8. CASE reconnect(w, protocol)
  <2>1. FramesKept({"send_cbk.recreate"})
    BY <1>1, <1>8 DEF reconnect, Steps
  <2>2. CASE UNCHANGED <<sock, state, appClosed>>
    BY <2>1, <2>2, ClosedKept
  <2> QED BY <1>8, <2>2, ConnectLemma DEF reconnect, ClosedStateNotOverLiveSocket
<1> QED BY <1>2, <1>3, <1>4, <1>5, <1>6, <1>7, <1>8 DEF SharedCallbacks

(* The application's calls either look at the socket before they write      *)
(* state_ or say CLOSED on their own account.                               *)
LEMMA ClosedCalls ==
    ASSUME Base, ClosedStateNotOverLiveSocket, NEW t \in Callers, NEW protocol,
           IsProtocol(protocol), SharedCalls(t, protocol)
    PROVE  ClosedStateNotOverLiveSocket'
<1>0. ClientTypeOK /\ t \in Threads /\ t \notin Workers
  BY ThreadsAssumption DEF Base, Threads
<1>1. CASE start(t, protocol)
  <2>1. CASE UNCHANGED <<sock, state, appClosed>>
    BY <1>1, <2>1, ClosedKept DEF start, FramesKept
  <2> QED BY <1>1, <2>1, ConnectLemma DEF start, ClosedStateNotOverLiveSocket
<1>2. CASE stop(t)
  BY <1>0, <1>2, ShutdownLemma DEF stop, ClosedStateNotOverLiveSocket
<1>3. ASSUME state' = "CLOSED" => appClosed' \/ ~Alive(sock')
      PROVE  ClosedStateNotOverLiveSocket'
  BY <1>3 DEF ClosedStateNotOverLiveSocket, Alive
<1>4. ASSUME NEW b \in BOOLEAN, set_connected(t, b)
      PROVE  ClosedStateNotOverLiveSocket'
  <2>1. sock' = sock /\ (state' = "CLOSED" => appClosed' \/ sock = "closed")
    BY <1>4 DEF set_connected, socketVars, is_open
  <2> QED BY <1>3, <2>1 DEF Alive
<1>5. ASSUME NEW b \in BOOLEAN, set_established(t, b)
      PROVE  ClosedStateNotOverLiveSocket'
  <2>1. CASE ~b
    BY <1>3, <1>5, <2>1 DEF set_established
  <2>2. CASE b
    <3>1. FramesKept({"send_cbk.recreate"})
      BY <1>0, <1>5, <2>2, GotoLemma DEF set_established, Steps, FramesKept, Threads
    <3> QED BY <1>5, <2>2, <3>1, ClosedKept DEF set_established, socketVars
  <2> QED BY <2>1, <2>2
<1>6. CASE set_established_locked(t)
  <2>1. sock' = sock /\ (state' = "CLOSED" => sock = "closed")
    BY <1>6 DEF set_established_locked, socketVars, is_open
  <2> QED BY <1>3, <2>1 DEF Alive
<1> QED BY <1>1, <1>2, <1>4, <1>5, <1>6 DEF SharedCalls

-----------------------------------------------------------------------------
(***************************************************************************)
(* Nothing is left that would close a kept socket, unless the endpoint is  *)
(* blocked: this is why it stays open.                                     *)
(***************************************************************************)
Reconnecting == \E w \in Workers : frame[w] = "send_cbk.connect"
KeptInv == kept /\ ~sendingBlocked => NothingCloses /\ (is_open \/ Reconnecting)

(* A step that starts none of the callbacks that close, and leaves an open  *)
(* socket open and a reconnect to come.                                     *)
LEMMA KeptKept ==
    ASSUME KeptInv, kept' => kept, sendingBlocked' = sendingBlocked, is_open => is_open',
           ready'["connect"]["aborted"] = ready["connect"]["aborted"],
           \A u \in Workers : frame'[u] \in CloseSteps => frame[u] \in CloseSteps,
           FramesKept({"send_cbk.connect"})
    PROVE  KeptInv'
BY DEF KeptInv, NothingCloses, Reconnecting, FramesKept

(* A worker that goes to a step that does not close.                        *)
LEMMA GotoNoClose ==
    ASSUME ClientTypeOK, NEW t \in Threads, NEW step \in Steps \ CloseSteps, Goto(t, step)
    PROVE  \A u \in Workers : frame'[u] \in CloseSteps => frame[u] \in CloseSteps
BY GotoLemma DEF Threads

(* The callbacks of the base class: connect_cbk closes only when it was     *)
(* aborted, and a send_cbk that closes connects again.                      *)
LEMMA KeptCallbacks ==
    ASSUME Base, KeptInv, NEW w \in Workers, NEW protocol, IsProtocol(protocol),
           SharedCallbacks(w, protocol)
    PROVE  KeptInv'
<1>0. /\ ClientTypeOK /\ w \in Threads /\ "connect" # "send"
      /\ \A c \in {"connect", "send"} : c \in Callbacks
      /\ \A r \in {"lost", "done", "aborted"} : r \in Results
      /\ pending["connect"] \in Nat
      /\ \A r \in Results : ready["connect"][r] \in Nat
  BY DEF Base, ClientTypeOK, Threads, Callbacks, Results
<1>a. /\ "connect_cbk.port" \in Steps \ CloseSteps /\ "connect_cbk.receive" \in Steps \ CloseSteps
      /\ "send_cbk.recreate" \in Steps \ CloseSteps /\ "send_cbk.connect" \in Steps \ CloseSteps
      /\ "idle" \in Steps \ CloseSteps
  BY DEF Steps, StrandSteps, CloseSteps
<1>1. ASSUME NEW r \in Results, connect_cbk(w, r)
      PROVE  KeptInv'
  <2>1. CASE r = "aborted"
    <3>1. ready["connect"]["aborted"] > 0 /\ UNCHANGED <<kept, sendingBlocked>>
      BY <1>1, <2>1 DEF connect_cbk, Dispatch, flagVars, historyVars
    <3> QED BY <3>1 DEF KeptInv, NothingCloses
  <2>2. CASE sendingBlocked
    BY <1>1, <2>2 DEF connect_cbk, KeptInv, flagVars
  <2>3. CASE r # "aborted" /\ ~sendingBlocked
    <3>1. Goto(w, "connect_cbk.port") /\ Dispatch(w, "connect", r)
          /\ UNCHANGED <<sock, sendingBlocked, kept>>
      BY <1>1, <2>3 DEF connect_cbk, flagVars, historyVars
    <3>2. ready'["connect"]["aborted"] = ready["connect"]["aborted"]
      BY <1>0, <2>3, <3>1, DispatchLemma
    <3>3. FramesKept({"send_cbk.connect"})
      BY <1>0, <1>a, <3>1, GotoKeeps DEF Dispatch
    <3> QED BY <1>0, <1>a, <3>1, <3>2, <3>3, GotoNoClose, KeptKept DEF is_open
  <2> QED BY <2>1, <2>2, <2>3
<1>2. CASE set_local_port(w)
  <2>1. FramesKept({"send_cbk.connect"})
    BY <1>0, <1>a, <1>2, GotoKeeps DEF set_local_port
  <2>2. \A u \in Workers : frame'[u] \in CloseSteps => frame[u] \in CloseSteps
    BY <1>0, <1>a, <1>2, GotoNoClose DEF set_local_port
  <2> QED BY <1>2, <2>1, <2>2, KeptKept DEF set_local_port, is_open, historyVars
<1>3. CASE send_cbk_lost(w)
  <2>1. FramesKept({"send_cbk.connect"})
    BY <1>0, <1>a, <1>3, GotoKeeps DEF send_cbk_lost, Dispatch
  <2>2. \A u \in Workers : frame'[u] \in CloseSteps => frame[u] \in CloseSteps
    BY <1>0, <1>a, <1>3, GotoNoClose DEF send_cbk_lost
  <2>3. ready'["connect"] = ready["connect"]
    BY <1>0, <1>3, DispatchLemma DEF send_cbk_lost
  <2> QED BY <1>3, <2>1, <2>2, <2>3, KeptKept DEF send_cbk_lost, is_open, historyVars
<1>4. CASE send_cbk_aborted(w)
  BY <1>4 DEF send_cbk_aborted, KeptInv
<1>5. CASE send_cbk_done(w)
  <2>1. ready'["connect"] = ready["connect"]
    BY <1>0, <1>5, DispatchLemma DEF send_cbk_done
  <2> QED BY <1>5, <2>1, KeptKept DEF send_cbk_done, FramesKept, is_open, flagVars, historyVars
<1>6. CASE recreate(w)
  <2>1. shutdown_and_close_socket(TRUE) /\ Goto(w, "send_cbk.connect")
        /\ kept' = (kept /\ pending["connect"] = 0) /\ sendingBlocked' = sendingBlocked
    BY <1>6 DEF recreate, flagVars
  <2>2. ready'["connect"]["aborted"] = ready["connect"]["aborted"] + pending["connect"]
    BY <1>0, <2>1, ShutdownLemma
  <2>3. Reconnecting'
    BY <1>0, <1>a, <2>1, GotoLemma DEF Reconnecting
  <2>4. \A u \in Workers : frame'[u] \in CloseSteps => frame[u] \in CloseSteps
    BY <1>0, <1>a, <2>1, GotoNoClose
  <2>5. ASSUME kept', ~sendingBlocked'
        PROVE  NothingCloses'
    <3>1. kept /\ ~sendingBlocked /\ pending["connect"] = 0
      BY <2>1, <2>5
    <3>2. NothingCloses
      BY <3>1 DEF KeptInv
    <3>3. ready'["connect"]["aborted"] = 0
      BY <2>2, <3>1, <3>2 DEF NothingCloses
    <3> QED BY <2>4, <3>2, <3>3 DEF NothingCloses
  <2> QED BY <2>3, <2>5 DEF KeptInv
<1>7. CASE reconnect(w, protocol)
  <2>1. /\ kept' = (NothingCloses /\ is_open')
        /\ ready'["connect"]["aborted"] = ready["connect"]["aborted"]
    BY <1>7, ConnectLemma DEF reconnect
  <2>2. \A u \in Workers : frame'[u] \in CloseSteps => frame[u] \in CloseSteps
    BY <1>0, <1>a, <1>7, GotoNoClose DEF reconnect
  <2> QED BY <2>1, <2>2 DEF KeptInv, NothingCloses
<1>8. CASE close(w)
  BY <1>8 DEF close, KeptInv, NothingCloses, flagVars, historyVars
<1> QED BY <1>1, <1>2, <1>3, <1>4, <1>5, <1>6, <1>7, <1>8 DEF SharedCallbacks

(* Of the calls start() begins to keep a socket only when nothing is left   *)
(* to close it, and stop() gives it up.                                     *)
LEMMA KeptCalls ==
    ASSUME Base, KeptInv, NEW t \in Callers, NEW protocol, IsProtocol(protocol),
           SharedCalls(t, protocol)
    PROVE  KeptInv'
<1>0. ClientTypeOK /\ t \in Threads /\ t \notin Workers
  BY ThreadsAssumption DEF Base, Threads
<1>1. CASE start(t, protocol)
  <2>1. /\ kept' = (NothingCloses /\ is_open')
        /\ ready'["connect"]["aborted"] = ready["connect"]["aborted"]
        /\ UNCHANGED <<sendingBlocked, frame>>
    BY <1>1, ConnectLemma DEF start
  <2> QED BY <2>1 DEF KeptInv, NothingCloses
<1>2. CASE stop(t)
  BY <1>2 DEF stop, KeptInv
<1>3. ASSUME UNCHANGED <<socketVars, sendingBlocked, kept>>,
             \A u \in Workers : frame'[u] = frame[u]
      PROVE  KeptInv'
  BY <1>3, KeptKept DEF socketVars, is_open, FramesKept
<1>4. ASSUME NEW step \in Steps, Goto(t, step)
      PROVE  \A u \in Workers : frame'[u] = frame[u]
  BY <1>0, <1>4, GotoLemma DEF Threads
<1>5. ASSUME NEW b \in BOOLEAN, set_connected(t, b)
      PROVE  KeptInv'
  BY <1>3, <1>5 DEF set_connected
<1>6. ASSUME NEW b \in BOOLEAN, set_established(t, b)
      PROVE  KeptInv'
  <2>1. \A u \in Workers : frame'[u] = frame[u]
    BY <1>4, <1>6 DEF set_established, Steps
  <2> QED BY <1>3, <1>6, <2>1 DEF set_established
<1>7. CASE set_established_locked(t)
  <2>1. \A u \in Workers : frame'[u] = frame[u]
    BY <1>4, <1>7 DEF set_established_locked, Steps
  <2> QED BY <1>3, <1>7, <2>1 DEF set_established_locked
<1> QED BY <1>1, <1>2, <1>5, <1>6, <1>7 DEF SharedCalls

-----------------------------------------------------------------------------
(***************************************************************************)
(* What the shared steps do to the socket, the port and the promise of a   *)
(* stop: all that ClientLink speaks of.                                    *)
(***************************************************************************)
LinkKept == UNCHANGED <<sock, localPort, quietStop>>

Dials ==
    /\ \/ /\ sock \in {"closed", "unbound", "unconnected"}
          /\ sock' \in {"unbound", "unconnected", "connecting", "connected"}
       \/ UNCHANGED sock
    /\ UNCHANGED localPort
    /\ quietStop' = FALSE

PortRead ==
    /\ is_open
    /\ localPort' \in BOOLEAN
    /\ sock \in {"connecting", "connected"} => localPort' = TRUE
    /\ UNCHANGED <<sock, quietStop>>

Hangs ==
    /\ sock' = "closed"
    /\ localPort' = FALSE
    /\ quietStop' \in BOOLEAN

(* connect() leaves a socket that connects or is connected as it is.        *)
LEMMA ConnectDials ==
    ASSUME Base, NEW protocol, IsProtocol(protocol), connect(protocol)
    PROVE  /\ \/ /\ sock \in {"closed", "unbound", "unconnected"}
                 /\ sock' \in {"unbound", "unconnected", "connecting", "connected"}
              \/ UNCHANGED sock
           /\ UNCHANGED localPort
<1>1. sock \in SockStates
  BY DEF Base, ClientTypeOK
<1>2. CASE OpenFails \/ BindFails
  BY <1>1, <1>2 DEF OpenFails, BindFails, connect
<1>3. CASE (is_open => sock \in protocol.bindable) /\ async_connect(protocol)
  <2>1. sock \in {"closed", "unbound", "unconnected"}
    BY <1>1, <1>3 DEF is_open, IsProtocol
  <2>2. sock' \in {"connecting", "connected", "unconnected"}
    BY <1>3 DEF async_connect
  <2> QED BY <2>1, <2>2 DEF connect
<1> QED BY <1>2, <1>3 DEF connect

(* The callbacks: only reconnect() dials, and it runs only while no stop is *)
(* in force.                                                                *)
LEMMA LinkCallbacks ==
    ASSUME Base, QuietInv, LocalPortOfOpenSocket, NEW w \in Workers, NEW protocol,
           IsProtocol(protocol), SharedCallbacks(w, protocol)
    PROVE  \/ LinkKept \/ PortRead
           \/ Dials /\ ~quietStop
           \/ Hangs /\ UNCHANGED quietStop
<1>0. ClientTypeOK /\ quietStop \in BOOLEAN
  BY DEF Base, ClientTypeOK
<1>1. CASE \/ \E r \in Results : connect_cbk(w, r)
           \/ send_cbk_lost(w) \/ send_cbk_aborted(w) \/ send_cbk_done(w)
  BY <1>1 DEF connect_cbk, send_cbk_lost, send_cbk_aborted, send_cbk_done, LinkKept, historyVars
<1>2. CASE set_local_port(w)
  BY <1>0, <1>2 DEF set_local_port, LinkKept, PortRead, is_open, historyVars
<1>3. CASE recreate(w) \/ close(w)
  BY <1>0, <1>3, ShutdownLemma DEF recreate, close, Hangs, historyVars
<1>4. CASE reconnect(w, protocol)
  <2>1. ~quietStop /\ quietStop' = FALSE
    BY <1>0, <1>4 DEF reconnect, QuietInv, NoReconnectDue
  <2> QED BY <1>4, <2>1, ConnectDials DEF reconnect, Dials
<1> QED BY <1>1, <1>2, <1>3, <1>4 DEF SharedCallbacks

(* The calls: start() dials and ends a stop, stop() hangs up.               *)
LEMMA LinkCalls ==
    ASSUME Base, NEW t \in Callers, NEW protocol, IsProtocol(protocol), SharedCalls(t, protocol)
    PROVE  LinkKept \/ Dials \/ Hangs
<1>0. ClientTypeOK
  BY DEF Base
<1>1. CASE start(t, protocol)
  BY <1>1, ConnectDials DEF start, Dials
<1>2. CASE stop(t)
  <2>1. NoReconnectDue \in BOOLEAN
    BY DEF NoReconnectDue
  <2> QED BY <1>0, <1>2, <2>1, ShutdownLemma DEF stop, Hangs
<1>3. CASE \/ \E b \in BOOLEAN : set_connected(t, b) \/ set_established(t, b)
           \/ set_established_locked(t)
  BY <1>3 DEF set_connected, set_established, set_established_locked, LinkKept, socketVars
<1> QED BY <1>1, <1>2, <1>3 DEF SharedCalls
=============================================================================
