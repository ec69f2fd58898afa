---------------------- MODULE TcpServerEndpoint_proofs ----------------------
(***************************************************************************)
(* Theorems about TcpServerEndpoint, for any sets of threads, connections  *)
(* and peers.                                                              *)
(***************************************************************************)
EXTENDS TcpServerEndpoint, TLAPS

-----------------------------------------------------------------------------
(***************************************************************************)
(* Frames.                                                                 *)
(***************************************************************************)

FrameTable == [Threads -> Frames]

(* The frame of a thread that does nothing, at any of the steps that need   *)
(* no connection, is a frame.                                               *)
LEMMA IdleLemma ==
    /\ Idle \in Frames
    /\ \A s \in Steps : /\ [Idle EXCEPT !.step = s] \in Frames
                        /\ [Idle EXCEPT !.step = s].step = s
                        /\ [Idle EXCEPT !.step = s].conn = NoConnection
BY DEF Idle, Frames, Steps, Addresses

(* Going to a step changes one frame, and of it the step alone.             *)
LEMMA GotoLemma ==
    ASSUME frame \in FrameTable, NEW t \in Threads, NEW s \in Steps, Goto(t, s)
    PROVE  /\ frame' \in FrameTable
           /\ frame'[t].step = s
           /\ frame'[t].conn = frame[t].conn
           /\ frame'[t].remote = frame[t].remote
           /\ \A u \in Threads : u # t => frame'[u] = frame[u]
BY DEF FrameTable, Goto, Frames

(* Putting a frame in the place of another changes no other.                *)
LEMMA SetFrameLemma ==
    ASSUME frame \in FrameTable, NEW t \in Threads, NEW f \in Frames,
           frame' = [frame EXCEPT ![t] = f]
    PROVE  /\ frame' \in FrameTable
           /\ frame'[t] = f
           /\ \A u \in Threads : u # t => frame'[u] = frame[u]
BY DEF FrameTable

(* Going on with a connection in the frame.                                 *)
LEMMA GoWithLemma ==
    ASSUME TypeOK, NEW t \in Threads, NEW s \in Steps, NEW c \in Connections,
           GoWith(t, s, c)
    PROVE  /\ frame' \in FrameTable
           /\ frame'[t].step = s
           /\ frame'[t].conn = c
           /\ frame'[t].remote = peer[c]
           /\ \A u \in Threads : u # t => frame'[u] = frame[u]
<1> DEFINE f == [step |-> s, conn |-> c, remote |-> peer[c]]
<1>1. f \in Frames /\ frame \in FrameTable
  BY DEF TypeOK, Frames, FrameTable
<1>2. frame' = [frame EXCEPT ![t] = f]
  BY DEF GoWith
<1>3. f.step = s /\ f.conn = c /\ f.remote = peer[c]
  OBVIOUS
<1> HIDE DEF f
<1> QED BY <1>1, <1>2, <1>3, SetFrameLemma

(* A callback changes no frame but that of its worker: on the accept loop,  *)
LEMMA AcceptFrames ==
    ASSUME frame \in FrameTable, NEW w \in Threads, AcceptCallback(w)
    PROVE  \A u \in Threads : u # w => frame'[u] = frame[u]
BY DEF AcceptCallback, accept_cbk, accept_cbk_ok, accept_cbk_options_fail,
       accept_cbk_failed, accept_cbk_no_descriptors, accept_cbk_aborted,
       retry, insert, Insert, connection_start, start_again, Return, Goto, GoWith, FrameTable

(* and on the connections.                                                  *)
LEMMA ConnectionFrames ==
    ASSUME frame \in FrameTable, NEW w \in Threads, ConnectionCallback(w)
    PROVE  \A u \in Threads : u # w => frame'[u] = frame[u]
BY DEF ConnectionCallback, receive_cbk, write_completion_condition, write_done,
       stop_and_remove_connection, remove_connection, Remove, send_cbk, Return, Goto,
       FrameTable

(* A worker is not on the accept loop and in the callback of a write at once.*)
LEMMA AcceptSteps ==
    ASSUME NEW w, AcceptCallback(w)
    PROVE  frame[w].step \in LoopSteps \cup {"idle"}
BY DEF AcceptCallback, accept_cbk, accept_cbk_ok, accept_cbk_options_fail,
       accept_cbk_failed, accept_cbk_no_descriptors, accept_cbk_aborted, AcceptCompletes,
       retry, TimerFires, insert, Insert, connection_start, start_again, At, LoopSteps, NewSteps

(* The same for the callbacks of the connections.                           *)
LEMMA ConnectionSteps ==
    ASSUME NEW w, ConnectionCallback(w)
    PROVE  frame[w].step \in {"idle", "write_failed.remove", "send_cbk"}
BY DEF ConnectionCallback, receive_cbk, write_completion_condition, write_done,
       stop_and_remove_connection, remove_connection, Remove, send_cbk, At

(* Where a worker goes from there: on the accept loop,                      *)
LEMMA AcceptGoesTo ==
    ASSUME frame \in FrameTable, NEW w \in Threads, AcceptCallback(w)
    PROVE  frame'[w].step \in LoopSteps \cup {"idle"}
<1>0. LoopSteps = {"accept_cbk.insert", "drop.start", "connection.start", "start"}
  BY DEF LoopSteps, NewSteps
<1>1. \A s \in LoopSteps : Goto(w, s) => frame'[w].step = s
  BY DEF Goto, FrameTable, Frames
<1>2. \A s \in LoopSteps, c \in Connections : GoWith(w, s, c) => frame'[w].step = s
  BY DEF GoWith, FrameTable
<1>3. ASSUME NEW c \in Connections, accept_cbk(w, c)
      PROVE  frame'[w].step \in LoopSteps \cup {"idle"}
  BY <1>0, <1>2, <1>3 DEF accept_cbk, accept_cbk_ok, accept_cbk_options_fail, accept_cbk_failed,
     accept_cbk_no_descriptors, accept_cbk_aborted, AcceptCompletes, At
<1>4. ASSUME start_again(w)
      PROVE  frame'[w].step = "idle"
  BY <1>4 DEF start_again, Return, Idle, FrameTable
<1> QED BY <1>0, <1>1, <1>3, <1>4 DEF AcceptCallback, retry, insert, Insert, connection_start

(* and on the connections.                                                  *)
LEMMA ConnectionGoesTo ==
    ASSUME frame \in FrameTable, NEW w \in Threads, ConnectionCallback(w)
    PROVE  frame'[w].step \in {"idle", "write_failed.remove", "send_cbk"}
<1>1. ASSUME NEW c \in Connections, receive_cbk(w, c) \/ write_completion_condition(w, c)
      PROVE  frame'[w].step = "idle"
  BY <1>1 DEF receive_cbk, write_completion_condition, At
<1>2. ASSUME NEW c \in Connections, write_done(w, c)
      PROVE  frame'[w].step = "send_cbk"
  BY <1>2 DEF write_done, Goto, FrameTable, Frames
<1>3. ASSUME NEW c \in Connections, stop_and_remove_connection(w, c)
      PROVE  frame'[w].step = "write_failed.remove"
  BY <1>3 DEF stop_and_remove_connection, Idle, FrameTable
<1>4. ASSUME remove_connection(w) \/ send_cbk(w)
      PROVE  frame'[w].step \in {"idle", "send_cbk"}
  BY <1>4 DEF remove_connection, Remove, send_cbk, Return, Idle, FrameTable
<1> QED BY <1>1, <1>2, <1>3, <1>4 DEF ConnectionCallback

-----------------------------------------------------------------------------
(***************************************************************************)
(* Type correctness.                                                       *)
(***************************************************************************)

(* The constructed server has the types.                                    *)
LEMMA TypeOKInit == Init => TypeOK
<1> SUFFICES ASSUME Init PROVE TypeOK
  OBVIOUS
<1>1. frame \in [Threads -> Frames]
  BY IdleLemma DEF Init
<1> QED BY <1>1 DEF Init, TypeOK, AcceptStages, ReceiveStages, SendStages, Addresses

(* start() keeps the types of what it changes.                              *)
LEMMA StartType ==
    ASSUME TypeOK, start
    PROVE  /\ acceptorOpen' = acceptorOpen /\ retryTimers' = retryTimers
           /\ accepting' \in [Connections -> AcceptStages]
           /\ open' \in [Connections -> BOOLEAN] /\ peer' \in [Connections -> Addresses]
           /\ receiving' = receiving /\ sending' = sending
BY DEF TypeOK, start, accept_into_new_connection, acceptVars, connVars, AcceptStages,
       Addresses

(* Every result of a write is one of its stages.                            *)
LEMMA WriteSomeType ==
    ASSUME TypeOK, NEW c \in Connections, WriteSome(c)
    PROVE  sending' \in [Connections -> SendStages]
BY DEF TypeOK, WriteSome, SendStages

(* No step of a worker on the accept loop leaves the types.                 *)
LEMMA TypeOKAccept ==
    ASSUME TypeOK, NEW w \in Workers, AcceptCallback(w)
    PROVE  TypeOK'
<1>0. frame \in FrameTable /\ w \in Threads /\ LoopSteps \subseteq Steps
  BY DEF TypeOK, FrameTable, Threads, Steps
<1>00. \A s \in {"accept_cbk.insert", "drop.start", "connection.start", "start"} : s \in LoopSteps
  BY DEF LoopSteps, NewSteps
<1>a. ASSUME NEW s \in LoopSteps, Goto(w, s) PROVE frame' \in [Threads -> Frames]
  BY <1>0, <1>a, GotoLemma DEF FrameTable
<1>b. "none" \in AcceptStages
  BY DEF AcceptStages
<1>c. ASSUME NEW s \in LoopSteps, NEW c \in Connections, GoWith(w, s, c)
      PROVE  frame' \in [Threads -> Frames]
  BY <1>0, <1>c, GoWithLemma DEF FrameTable
<1>1. ASSUME NEW c \in Connections, accept_cbk_ok(w, c) PROVE TypeOK'
  BY <1>1, <1>00, <1>b, <1>c DEF accept_cbk_ok, AcceptCompletes, TypeOK, connVars
<1>2. ASSUME NEW c \in Connections, accept_cbk_options_fail(w, c) PROVE TypeOK'
  BY <1>2, <1>00, <1>b, <1>c DEF accept_cbk_options_fail, AcceptCompletes, TypeOK, connVars
<1>3. ASSUME NEW c \in Connections, accept_cbk_failed(w, c) PROVE TypeOK'
  BY <1>3, <1>00, <1>b, <1>c DEF accept_cbk_failed, AcceptCompletes, TypeOK, connVars
<1>4. ASSUME NEW c \in Connections, accept_cbk_no_descriptors(w, c) PROVE TypeOK'
  BY <1>4, <1>b DEF accept_cbk_no_descriptors, AcceptCompletes, TypeOK, connVars
<1>5. ASSUME NEW c \in Connections, accept_cbk_aborted(w, c) PROVE TypeOK'
  BY <1>5, <1>b DEF accept_cbk_aborted, AcceptCompletes, TypeOK, connVars
<1>6. ASSUME retry(w) PROVE TypeOK'
  BY <1>6, <1>00, <1>a DEF retry, TimerFires, TypeOK, connVars
<1>7. ASSUME insert(w) PROVE TypeOK'
  <2>1. frame' \in [Threads -> Frames]
    BY <1>7, <1>00, <1>a DEF insert, Insert
  <2>2. connections' \in [Addresses -> Connections \cup {NoConnection}]
    BY <1>0, <1>7 DEF insert, Insert, TypeOK, Frames
  <2> QED BY <1>7, <2>1, <2>2 DEF insert, Insert, TypeOK, acceptVars, connVars
<1>8. ASSUME connection_start(w) PROVE TypeOK'
  <2>1. frame' \in [Threads -> Frames]
    BY <1>8, <1>00, <1>a DEF connection_start
  <2>2. receiving' \in [Connections -> ReceiveStages]
    BY <1>8 DEF connection_start, TypeOK, ReceiveStages
  <2> QED BY <1>8, <2>1, <2>2 DEF connection_start, TypeOK, acceptVars
<1>9. ASSUME start_again(w) PROVE TypeOK'
  <2>1. frame' \in [Threads -> Frames]
    BY <1>0, <1>9, IdleLemma, SetFrameLemma DEF start_again, Return, FrameTable
  <2> QED BY <1>9, <2>1, StartType DEF start_again, TypeOK
<1> QED BY <1>1, <1>2, <1>3, <1>4, <1>5, <1>6, <1>7, <1>8, <1>9 DEF AcceptCallback, accept_cbk

(* No callback of a connection does.                                        *)
LEMMA TypeOKConnection ==
    ASSUME TypeOK, NEW w \in Workers, ConnectionCallback(w)
    PROVE  TypeOK'
<1>0. /\ frame \in FrameTable /\ w \in Threads
      /\ \A s \in {"send_cbk", "write_failed.remove"} : s \in Steps
  BY DEF TypeOK, FrameTable, Threads, Steps
<1>1. ASSUME NEW c \in Connections, receive_cbk(w, c) PROVE TypeOK'
  BY <1>1 DEF receive_cbk, TypeOK, acceptVars, ReceiveStages
<1>2. ASSUME NEW c \in Connections, write_completion_condition(w, c) PROVE TypeOK'
  BY <1>2, WriteSomeType DEF write_completion_condition, TypeOK, acceptVars
<1>3. ASSUME NEW c \in Connections, write_done(w, c) PROVE TypeOK'
  <2>1. frame' \in [Threads -> Frames]
    BY <1>0, <1>3, GotoLemma DEF write_done, FrameTable
  <2> QED BY <1>3, <2>1 DEF write_done, TypeOK, acceptVars, SendStages
<1>4. ASSUME NEW c \in Connections, stop_and_remove_connection(w, c) PROVE TypeOK'
  <2>1. [Idle EXCEPT !.step = "write_failed.remove", !.conn = c] \in Frames
    BY DEF Idle, Frames, Steps, Addresses
  <2>2. frame' \in [Threads -> Frames]
    BY <1>0, <1>4, <2>1, SetFrameLemma DEF stop_and_remove_connection, FrameTable
  <2>3. receiving' \in [Connections -> ReceiveStages] /\ sending' \in [Connections -> SendStages]
    BY <1>4 DEF stop_and_remove_connection, TypeOK, SendStages, ReceiveStages
  <2> QED BY <1>4, <2>2, <2>3 DEF stop_and_remove_connection, TypeOK, acceptVars
<1>5. ASSUME remove_connection(w) PROVE TypeOK'
  <2>1. frame' \in [Threads -> Frames]
    BY <1>0, <1>5, IdleLemma, SetFrameLemma DEF remove_connection, Remove, FrameTable
  <2> QED BY <1>5, <2>1 DEF remove_connection, Remove, TypeOK, acceptVars, connVars
<1>6. ASSUME send_cbk(w) PROVE TypeOK'
  <2>1. frame' \in [Threads -> Frames]
    BY <1>0, <1>6, IdleLemma, SetFrameLemma DEF send_cbk, Return, FrameTable
  <2> QED BY <1>6, <2>1 DEF send_cbk, TypeOK, acceptVars, connVars
<1> QED BY <1>1, <1>2, <1>3, <1>4, <1>5, <1>6 DEF ConnectionCallback

(* Nor does a call of the application.                                      *)
LEMMA TypeOKCaller ==
    ASSUME TypeOK, NEW t \in Callers, Caller(t)
    PROVE  TypeOK'
<1>0. frame \in FrameTable /\ t \in Threads /\ "stop.connections" \in Steps
  BY DEF TypeOK, FrameTable, Threads, Steps
<1>1. ASSUME start_called(t) PROVE TypeOK'
  BY <1>1, StartType DEF start_called, TypeOK
<1>2. ASSUME stop(t) PROVE TypeOK'
  <2>1. frame' \in [Threads -> Frames]
    BY <1>0, <1>2, GotoLemma DEF stop, FrameTable
  <2> QED BY <1>2, <2>1 DEF stop, TypeOK, connVars, AcceptStages
<1>3. ASSUME stop_connections(t) PROVE TypeOK'
  <2>1. frame' \in [Threads -> Frames]
    BY <1>0, <1>3, IdleLemma, SetFrameLemma
       DEF stop_connections, ForgetConnections, Return, FrameTable
  <2>2. /\ open' \in [Connections -> BOOLEAN]
        /\ receiving' \in [Connections -> ReceiveStages]
        /\ sending' \in [Connections -> SendStages]
        /\ peer' = peer
    BY <1>3 DEF stop_connections, CloseSockets, TypeOK, ReceiveStages, SendStages
  <2> QED BY <1>3, <2>1, <2>2 DEF stop_connections, ForgetConnections, TypeOK, acceptVars
<1>4. ASSUME NEW c \in Connections, send_data(t, c) PROVE TypeOK'
  BY <1>4, WriteSomeType DEF send_data, TypeOK, acceptVars
<1> QED BY <1>1, <1>2, <1>3, <1>4 DEF Caller

(* Nor does the kernel.                                                     *)
LEMMA TypeOKKernel == TypeOK /\ Kernel => TypeOK'
<1> SUFFICES ASSUME TypeOK, Kernel PROVE TypeOK'
  OBVIOUS
<1>1. ASSUME NEW c \in Connections, NEW r \in Remotes, AcceptOk(c, r) PROVE TypeOK'
  BY <1>1 DEF AcceptOk, Kernel, TypeOK, AcceptStages, Addresses
<1>2. ASSUME NEW c \in Connections, AcceptFails(c) PROVE TypeOK'
  BY <1>2 DEF AcceptFails, Kernel, TypeOK, connVars, AcceptStages
<1>3. ASSUME NEW c \in Connections, PeerGone(c) PROVE TypeOK'
  <2>1. receiving' \in [Connections -> ReceiveStages] /\ sending' \in [Connections -> SendStages]
    BY <1>3 DEF PeerGone, TypeOK, SendStages, ReceiveStages
  <2> QED BY <1>3, <2>1 DEF PeerGone, Kernel, TypeOK, acceptVars, Addresses
<1>4. ASSUME NEW c \in Connections, DataArrives(c) PROVE TypeOK'
  BY <1>4 DEF DataArrives, Kernel, TypeOK, acceptVars, ReceiveStages
<1>5. ASSUME NEW c \in Connections, SendProgress(c) PROVE TypeOK'
  BY <1>5 DEF SendProgress, Kernel, TypeOK, acceptVars, SendStages
<1> QED BY <1>1, <1>2, <1>3, <1>4, <1>5 DEF Kernel

(* No step leaves the types.                                                *)
LEMMA TypeOKStep == TypeOK /\ [Next]_vars => TypeOK'
<1>1. TypeOK /\ UNCHANGED vars => TypeOK'
  BY DEF vars, acceptVars, connVars, TypeOK
<1> QED BY <1>1, TypeOKAccept, TypeOKConnection, TypeOKCaller, TypeOKKernel DEF Next

(* Every variable of the server keeps its type: a timer that fires was      *)
(* armed, and what a callback inserts or removes is a connection.           *)
THEOREM TcpServerTypeCorrect == Spec => []TypeOK
<1>1. Init => TypeOK
  BY TypeOKInit
<1>2. TypeOK /\ [Next]_vars => TypeOK'
  BY TypeOKStep
<1> QED BY <1>1, <1>2, PTL DEF Spec

-----------------------------------------------------------------------------
(***************************************************************************)
(* The accept loop.                                                        *)
(***************************************************************************)
InLoop(t) == frame[t].step \in LoopSteps

(* What keeps the loop going.                                               *)
LoopGoesOn ==
    \/ \E c \in Connections : accepting[c] \notin {"none", "aborted"}
    \/ retryTimers > 0
    \/ \E w \in Workers : InLoop(w)

(* A step that leaves accepts and timers alone and takes no worker out of   *)
(* the loop keeps it going.                                                 *)
LEMMA LoopUntouched ==
    ASSUME LoopGoesOn, accepting' = accepting, retryTimers' = retryTimers,
           \A w \in Workers : InLoop(w) => InLoop(w)'
    PROVE  LoopGoesOn'
BY DEF LoopGoesOn

(* start() on an open acceptor keeps the loop going.                        *)
LEMMA StartGoesOn ==
    ASSUME TypeOK, start, acceptorOpen
    PROVE  LoopGoesOn' /\ acceptorOpen'
<1>1. PICK c \in Connections : accepting' = [accepting EXCEPT ![c] = "pending"]
  BY DEF start, accept_into_new_connection
<1>2. accepting'[c] = "pending" /\ acceptorOpen'
  BY <1>1 DEF TypeOK, start, accept_into_new_connection
<1> QED BY <1>2 DEF LoopGoesOn

(* A worker that goes from idle to a step of the loop keeps it going.       *)
LEMMA WorkerGoesOn ==
    ASSUME TypeOK, NEW w \in Workers, NEW s \in LoopSteps,
           Goto(w, s) \/ \E c \in Connections : GoWith(w, s, c)
    PROVE  LoopGoesOn'
<1>1. w \in Threads /\ frame \in FrameTable /\ s \in Steps
  BY DEF TypeOK, FrameTable, Threads, Steps
<1> QED BY <1>1, GotoLemma, GoWithLemma DEF LoopGoesOn, InLoop

(* The callbacks of the accept loop keep it going: each path of accept_cbk  *)
(* but that of an abort goes on to start() or arms the timer.               *)
LEMMA AcceptGoesOn ==
    ASSUME TypeOK, NEW w \in Workers, AcceptCallback(w), acceptorOpen, LoopGoesOn
    PROVE  LoopGoesOn'
<1>0. /\ frame \in FrameTable /\ w \in Threads
      /\ "start" \in LoopSteps /\ "connection.start" \in LoopSteps
      /\ "accept_cbk.insert" \in LoopSteps /\ "drop.start" \in LoopSteps
  BY DEF TypeOK, FrameTable, Threads, LoopSteps, NewSteps
<1>1. ASSUME NEW c \in Connections, accept_cbk_ok(w, c) PROVE LoopGoesOn'
  BY <1>0, <1>1, WorkerGoesOn DEF accept_cbk_ok
<1>2. ASSUME NEW c \in Connections, accept_cbk_options_fail(w, c) PROVE LoopGoesOn'
  BY <1>0, <1>2, WorkerGoesOn DEF accept_cbk_options_fail
<1>3. ASSUME NEW c \in Connections, accept_cbk_failed(w, c) PROVE LoopGoesOn'
  BY <1>0, <1>3, WorkerGoesOn DEF accept_cbk_failed
<1>4. ASSUME NEW c \in Connections, accept_cbk_no_descriptors(w, c) PROVE LoopGoesOn'
  <2>1. retryTimers' > 0
    BY <1>4 DEF accept_cbk_no_descriptors, TypeOK
  <2> QED BY <2>1 DEF LoopGoesOn
<1>5. ASSUME NEW c \in Connections, accept_cbk_aborted(w, c) PROVE LoopGoesOn'
  <2>1. \A d \in Connections : accepting[d] \notin {"none", "aborted"} => accepting'[d] = accepting[d]
    BY <1>5 DEF accept_cbk_aborted, AcceptCompletes, TypeOK
  <2> QED BY <1>5, <2>1 DEF accept_cbk_aborted, LoopGoesOn, InLoop
<1>6. ASSUME retry(w) PROVE LoopGoesOn'
  BY <1>0, <1>6, WorkerGoesOn DEF retry
<1>7. ASSUME insert(w) PROVE LoopGoesOn'
  BY <1>0, <1>7, WorkerGoesOn DEF insert, Insert
<1>8. ASSUME connection_start(w) PROVE LoopGoesOn'
  BY <1>0, <1>8, WorkerGoesOn DEF connection_start
<1>9. ASSUME start_again(w) PROVE LoopGoesOn'
  BY <1>9, StartGoesOn DEF start_again
<1> QED BY <1>1, <1>2, <1>3, <1>4, <1>5, <1>6, <1>7, <1>8, <1>9 DEF AcceptCallback, accept_cbk

(* The callbacks of the connections take no worker out of the loop.         *)
LEMMA ConnectionGoesOn ==
    ASSUME TypeOK, NEW w \in Workers, ConnectionCallback(w), LoopGoesOn
    PROVE  LoopGoesOn'
<1>0. frame \in FrameTable /\ w \in Threads /\ Workers \subseteq Threads
  BY DEF TypeOK, FrameTable, Threads
<1>1. accepting' = accepting /\ retryTimers' = retryTimers
  BY DEF ConnectionCallback, receive_cbk, write_completion_condition, write_done,
         stop_and_remove_connection, remove_connection, Remove, send_cbk, acceptVars
<1>2. ~InLoop(w)
  BY ConnectionSteps DEF InLoop, LoopSteps, NewSteps
<1> QED BY <1>0, <1>1, <1>2, ConnectionFrames, LoopUntouched DEF InLoop

(* AcceptLoopAlive is inductive together with the types.                    *)
LEMMA AcceptLoopAliveStep ==
    ASSUME TypeOK, AcceptLoopAlive, [Next]_vars
    PROVE  AcceptLoopAlive'
<1>0. AcceptLoopAlive <=> (acceptorOpen /\ starts > 0 => LoopGoesOn)
  BY DEF AcceptLoopAlive, LoopGoesOn, InLoop
<1>00. AcceptLoopAlive' <=> (acceptorOpen' /\ starts' > 0 => LoopGoesOn')
  BY DEF AcceptLoopAlive, LoopGoesOn, InLoop
<1>1. ASSUME NEW w \in Workers, AcceptCallback(w) PROVE AcceptLoopAlive'
  <2>1. acceptorOpen' = acceptorOpen /\ starts' = starts
    BY <1>1 DEF AcceptCallback, accept_cbk, accept_cbk_ok, accept_cbk_options_fail,
       accept_cbk_failed, accept_cbk_no_descriptors, accept_cbk_aborted, AcceptCompletes,
       retry, TimerFires, insert, Insert, connection_start, start_again, start,
       accept_into_new_connection, acceptVars
  <2> QED BY <1>0, <1>00, <1>1, <2>1, AcceptGoesOn
<1>2. ASSUME NEW w \in Workers, ConnectionCallback(w) PROVE AcceptLoopAlive'
  <2>1. acceptorOpen' = acceptorOpen /\ starts' = starts
    BY <1>2 DEF ConnectionCallback, receive_cbk, write_completion_condition, write_done,
       stop_and_remove_connection, remove_connection, Remove, send_cbk, acceptVars
  <2> QED BY <1>0, <1>00, <1>2, <2>1, ConnectionGoesOn
<1>3. ASSUME NEW t \in Callers, start_called(t) PROVE AcceptLoopAlive'
  <2>1. ~acceptorOpen => ~acceptorOpen'
    BY <1>3 DEF start_called, start, acceptVars
  <2> QED BY <1>00, <1>3, <2>1, StartGoesOn DEF start_called
<1>4. ASSUME NEW t \in Callers, stop(t) PROVE AcceptLoopAlive'
  BY <1>4 DEF stop, AcceptLoopAlive
<1>5. ASSUME NEW t \in Callers, stop_connections(t) PROVE AcceptLoopAlive'
  <2>1. \A w \in Workers : InLoop(w) => InLoop(w)'
    BY <1>5, IdleLemma, SetFrameLemma
       DEF stop_connections, ForgetConnections, Return, InLoop, LoopSteps, NewSteps, At, TypeOK,
           FrameTable, Threads
  <2> QED BY <1>0, <1>00, <1>5, <2>1, LoopUntouched
          DEF stop_connections, ForgetConnections, acceptVars
<1>6. ASSUME NEW t \in Callers, NEW c \in Connections, send_data(t, c) PROVE AcceptLoopAlive'
  BY <1>6 DEF send_data, acceptVars, AcceptLoopAlive
<1>7. ASSUME Kernel PROVE AcceptLoopAlive'
  <2>1. \A c \in Connections : accepting[c] \notin {"none", "aborted"}
                                 => accepting'[c] \notin {"none", "aborted"}
    BY <1>7 DEF Kernel, AcceptOk, AcceptFails, PeerGone, DataArrives, SendProgress,
                TypeOK, acceptVars
  <2>2. acceptorOpen' = acceptorOpen /\ retryTimers' = retryTimers
    BY <1>7 DEF Kernel, AcceptOk, AcceptFails, PeerGone, DataArrives, SendProgress, acceptVars
  <2> QED BY <1>0, <1>00, <1>7, <2>1, <2>2 DEF Kernel, LoopGoesOn, InLoop
<1>8. ASSUME UNCHANGED vars PROVE AcceptLoopAlive'
  BY <1>8 DEF vars, acceptVars, AcceptLoopAlive
<1> QED BY <1>1, <1>2, <1>3, <1>4, <1>5, <1>6, <1>7, <1>8 DEF Next, Caller

(* A started server never stops accepting before stop(): whatever results   *)
(* accept_cbk meets, something is left that leads to the next start().      *)
THEOREM AcceptLoopAliveHolds == Spec => []AcceptLoopAlive
<1>1. Init => AcceptLoopAlive
  BY DEF Init, AcceptLoopAlive
<1>2. TypeOK /\ AcceptLoopAlive /\ [Next]_vars => AcceptLoopAlive'
  BY AcceptLoopAliveStep
<1> QED BY <1>1, <1>2, TcpServerTypeCorrect, PTL DEF Spec

-----------------------------------------------------------------------------
(***************************************************************************)
(* The flag is_sending_.                                                   *)
(***************************************************************************)

(* SendingFlagNotStuck is inductive together with the types: a write that   *)
(* ends becomes a callback, and every callback of a write goes on to        *)
(* send_cbk.                                                                *)
LEMMA SendingFlagStep ==
    ASSUME TypeOK, SendingFlagNotStuck, [Next]_vars
    PROVE  SendingFlagNotStuck'
<1> DEFINE Ends(t) == frame[t].step \in {"write_failed.remove", "send_cbk"}
<1>0. frame \in FrameTable /\ Workers \subseteq Threads /\ Callers \subseteq Threads
  BY DEF TypeOK, FrameTable, Threads
<1>a. ASSUME isSending' = isSending,
             \A c \in Connections : sending[c] # "none" => sending'[c] # "none",
             \A w \in Workers : Ends(w) => Ends(w)'
      PROVE  SendingFlagNotStuck'
  BY <1>a DEF SendingFlagNotStuck
<1>b. ASSUME NEW t \in Threads, ~Ends(t), isSending' = isSending, sending' = sending,
             \A u \in Threads : u # t => frame'[u] = frame[u]
      PROVE  SendingFlagNotStuck'
  BY <1>0, <1>a, <1>b
<1>1. ASSUME NEW w \in Workers, AcceptCallback(w) PROVE SendingFlagNotStuck'
  <2>1. isSending' = isSending /\ sending' = sending
    BY <1>1 DEF AcceptCallback, accept_cbk, accept_cbk_ok, accept_cbk_options_fail,
       accept_cbk_failed, accept_cbk_no_descriptors, accept_cbk_aborted, AcceptCompletes,
       retry, TimerFires, insert, Insert, connection_start, start_again, start,
       accept_into_new_connection, acceptVars, connVars
  <2>2. ~Ends(w)
    BY <1>1, AcceptSteps DEF LoopSteps, NewSteps
  <2> QED BY <1>0, <1>1, <1>b, <2>1, <2>2, AcceptFrames
<1>2. ASSUME NEW w \in Workers, NEW c \in Connections, receive_cbk(w, c)
      PROVE  SendingFlagNotStuck'
  BY <1>2 DEF receive_cbk, SendingFlagNotStuck
<1>3. ASSUME NEW w \in Workers, NEW c \in Connections, write_completion_condition(w, c)
      PROVE  SendingFlagNotStuck'
  BY <1>3, <1>a DEF write_completion_condition, WriteSome, TypeOK
<1>4. ASSUME NEW w \in Workers, NEW c \in Connections, write_done(w, c)
      PROVE  SendingFlagNotStuck'
  <2>1. frame'[w].step = "send_cbk"
    BY <1>4, <1>0 DEF write_done, Goto, FrameTable, Frames
  <2> QED BY <2>1 DEF SendingFlagNotStuck
<1>5. ASSUME NEW w \in Workers, NEW c \in Connections, stop_and_remove_connection(w, c)
      PROVE  SendingFlagNotStuck'
  <2>1. frame'[w].step = "write_failed.remove"
    BY <1>5, <1>0 DEF stop_and_remove_connection, FrameTable, Idle
  <2> QED BY <2>1 DEF SendingFlagNotStuck
<1>6. ASSUME NEW w \in Workers, remove_connection(w)
      PROVE  SendingFlagNotStuck'
  <2>1. frame'[w].step = "send_cbk"
    BY <1>6, <1>0 DEF remove_connection, Remove, FrameTable, Idle
  <2> QED BY <2>1 DEF SendingFlagNotStuck
<1>7. ASSUME NEW w \in Workers, send_cbk(w)
      PROVE  SendingFlagNotStuck'
  BY <1>7 DEF send_cbk, SendingFlagNotStuck
<1>8. ASSUME NEW t \in Callers, start_called(t)
      PROVE  SendingFlagNotStuck'
  BY <1>8, <1>a, StartType DEF start_called
<1>9. ASSUME NEW t \in Callers, stop(t)
      PROVE  SendingFlagNotStuck'
  <2>1. ~Ends(t)
    BY <1>9 DEF stop, At
  <2>2. \A u \in Threads : u # t => frame'[u] = frame[u]
    BY <1>9, <1>0 DEF stop, Goto, FrameTable
  <2> QED BY <1>9, <1>0, <1>b, <2>1, <2>2 DEF stop, connVars
<1>10. ASSUME NEW t \in Callers, stop_connections(t)
       PROVE  SendingFlagNotStuck'
  <2>1. \A w \in Workers : Ends(w) => Ends(w)'
    <3>1. ~Ends(t) /\ \A u \in Threads : u # t => frame'[u] = frame[u]
      BY <1>10, <1>0 DEF stop_connections, ForgetConnections, Return, At, FrameTable
    <3> QED BY <1>0, <3>1
  <2>2. \A c \in Connections : sending[c] # "none" => sending'[c] # "none"
    BY <1>10 DEF stop_connections, CloseSockets
  <2> QED BY <1>10, <1>a, <2>1, <2>2 DEF stop_connections, ForgetConnections
<1>11. ASSUME NEW t \in Callers, NEW c \in Connections, send_data(t, c)
       PROVE  SendingFlagNotStuck'
  <2>1. sending'[c] # "none"
    BY <1>11 DEF send_data, WriteSome, TypeOK
  <2> QED BY <2>1 DEF SendingFlagNotStuck
<1>12. ASSUME Kernel PROVE SendingFlagNotStuck'
  <2>1. \A c \in Connections : sending[c] # "none" => sending'[c] # "none"
    BY <1>12 DEF Kernel, AcceptOk, AcceptFails, PeerGone, DataArrives, SendProgress,
                 TypeOK, connVars
  <2> QED BY <1>12, <1>a, <2>1 DEF Kernel
<1>13. ASSUME UNCHANGED vars PROVE SendingFlagNotStuck'
  BY <1>13 DEF vars, connVars, SendingFlagNotStuck
<1> QED BY <1>1, <1>2, <1>3, <1>4, <1>5, <1>6, <1>7, <1>8, <1>9, <1>10, <1>11, <1>12, <1>13
        DEF Next, ConnectionCallback, Caller

(* is_sending_ is never left set with no write or callback to reset it, on  *)
(* whatever connections writes fail, are aborted by stop(), or end while    *)
(* their connection is replaced.                                            *)
THEOREM SendingFlagHolds == Spec => []SendingFlagNotStuck
<1>1. Init => SendingFlagNotStuck
  BY DEF Init, SendingFlagNotStuck
<1>2. TypeOK /\ SendingFlagNotStuck /\ [Next]_vars => SendingFlagNotStuck'
  BY SendingFlagStep
<1> QED BY <1>1, <1>2, TcpServerTypeCorrect, PTL DEF Spec

-----------------------------------------------------------------------------
(***************************************************************************)
(* What a step can do to a connection.  The invariants below follow from   *)
(* these lemmas, without a look at the actions.                            *)
(***************************************************************************)

(* A connection object is taken for an accept only if nothing holds it, and *)
(* an accept succeeds only in the kernel.                                   *)
LEMMA AcceptingStep ==
    ASSUME TypeOK, [Next]_vars, NEW c \in Connections
    PROVE  /\ accepting'[c] # "none" => \/ accepting[c] # "none"
                                        \/ ~Held(c) /\ ~open'[c]
           /\ accepting'[c] = "ok" => \/ accepting[c] = "ok"
                                      \/ \E r \in Remotes : AcceptOk(c, r)
<1>1. CASE \E w \in Workers : AcceptCallback(w)
  BY <1>1 DEF AcceptCallback, accept_cbk, accept_cbk_ok, accept_cbk_options_fail,
       accept_cbk_failed, accept_cbk_no_descriptors, accept_cbk_aborted, AcceptCompletes,
       retry, TimerFires, insert, Insert, connection_start, start_again, start,
       accept_into_new_connection, acceptVars, TypeOK
<1>2. CASE \E w \in Workers : ConnectionCallback(w)
  BY <1>2 DEF ConnectionCallback, receive_cbk, write_completion_condition, write_done,
       stop_and_remove_connection, remove_connection, Remove, send_cbk, acceptVars
<1>3. CASE \E t \in Callers : Caller(t)
  BY <1>3 DEF Caller, start_called, stop, stop_connections, ForgetConnections, send_data,
       start, accept_into_new_connection, acceptVars, TypeOK
<1>4. CASE Kernel
  BY <1>4 DEF Kernel, AcceptOk, AcceptFails, PeerGone, DataArrives, SendProgress,
       acceptVars, TypeOK
<1>5. CASE UNCHANGED vars
  BY <1>5 DEF vars, acceptVars
<1> QED BY <1>1, <1>2, <1>3, <1>4, <1>5 DEF Next
(* Nothing was done with c since it was created.                            *)
Unused(c) == ~InMap(c) /\ receiving[c] = "none" /\ sending[c] = "none"

(* A socket is opened by the kernel's accept only.  One that is closed is of *)
(* a connection that is in connections_, is writing, or is not held.        *)
LEMMA OpenStep ==
    ASSUME TypeOK, [Next]_vars, NEW c \in Connections
    PROVE  /\ open'[c] => open[c] \/ \E r \in Remotes : AcceptOk(c, r)
           /\ open[c] => open'[c] \/ InMap(c) \/ sending[c] # "none" \/ ~Held(c)
<1>1. CASE \E w \in Workers : AcceptCallback(w)
  BY <1>1 DEF AcceptCallback, accept_cbk, accept_cbk_ok, accept_cbk_options_fail,
       accept_cbk_failed, accept_cbk_no_descriptors, accept_cbk_aborted, AcceptCompletes,
       retry, TimerFires, insert, Insert, connection_start, start_again, start,
       accept_into_new_connection,
       acceptVars, connVars, TypeOK, WriteSome, CloseSockets
<1>2. CASE \E w \in Workers : ConnectionCallback(w)
  BY <1>2 DEF ConnectionCallback, receive_cbk, write_completion_condition, write_done,
       stop_and_remove_connection, remove_connection, Remove, send_cbk,
       acceptVars, connVars, TypeOK, WriteSome, CloseSockets
<1>3. CASE \E t \in Callers : Caller(t)
  BY <1>3 DEF Caller, start_called, stop, stop_connections, ForgetConnections, send_data,
       start, accept_into_new_connection,
       acceptVars, connVars, TypeOK, WriteSome, CloseSockets
<1>4. CASE Kernel
  <2>1. CASE \E d \in Connections, r \in Remotes : AcceptOk(d, r)
    <3>1. PICK d \in Connections, r \in Remotes : AcceptOk(d, r)
      BY <2>1
    <3>2. open' = [open EXCEPT ![d] = TRUE]
      BY <3>1 DEF AcceptOk
    <3> QED BY <3>1, <3>2 DEF TypeOK
  <2>2. CASE open' = open
    BY <2>2
  <2> QED BY <1>4, <2>1, <2>2 DEF Kernel, AcceptFails, PeerGone, DataArrives, SendProgress,
                                  connVars
<1>5. CASE UNCHANGED vars
  BY <1>5 DEF vars, acceptVars, connVars
<1> QED BY <1>1, <1>2, <1>3, <1>4, <1>5 DEF Next

(* Into connections_ comes only what accept_cbk inserts, under its remote.  *)
LEMMA MapStep ==
    ASSUME TypeOK, [Next]_vars, NEW a \in Addresses, NEW c \in Connections,
           connections'[a] = c
    PROVE  \/ connections[a] = c
           \/ \E w \in Workers : /\ At(w, "accept_cbk.insert") /\ frame[w].conn = c
                                 /\ frame[w].remote = a
                                 /\ At(w, "connection.start")' 
<1>1. CASE \E w \in Workers : AcceptCallback(w)
  BY <1>1, NamesAssumption DEF AcceptCallback, accept_cbk, accept_cbk_ok, accept_cbk_options_fail,
       accept_cbk_failed, accept_cbk_no_descriptors, accept_cbk_aborted, AcceptCompletes,
       retry, TimerFires, insert, Insert, connection_start, start_again, start,
       accept_into_new_connection,
       acceptVars, connVars, TypeOK, Goto, Threads, Frames, At
<1>2. CASE \E w \in Workers : ConnectionCallback(w)
  BY <1>2, NamesAssumption DEF ConnectionCallback, receive_cbk, write_completion_condition, write_done,
       stop_and_remove_connection, remove_connection, Remove, send_cbk,
       acceptVars, connVars, TypeOK, Goto, Threads, Frames, At
<1>3. CASE \E t \in Callers : Caller(t)
  BY <1>3, NamesAssumption DEF Caller, start_called, stop, stop_connections, ForgetConnections, send_data,
       start, accept_into_new_connection,
       acceptVars, connVars, TypeOK, Goto, Threads, Frames, At
<1>4. CASE Kernel
  BY <1>4, NamesAssumption DEF Kernel, AcceptOk, AcceptFails, PeerGone, DataArrives, SendProgress,
       acceptVars, connVars, TypeOK, Goto, Threads, Frames, At
<1>5. CASE UNCHANGED vars
  BY <1>5 DEF vars, acceptVars, connVars
<1> QED BY <1>1, <1>2, <1>3, <1>4, <1>5 DEF Next

(* A connection receives only after connection::start().                   *)
LEMMA ReceivingStep ==
    ASSUME TypeOK, [Next]_vars, NEW c \in Connections, receiving'[c] # "none"
    PROVE  \/ receiving[c] # "none"
           \/ \E w \in Workers : /\ At(w, "connection.start") /\ frame[w].conn = c
                                 /\ At(w, "start")' 
<1>1. CASE \E w \in Workers : AcceptCallback(w)
  BY <1>1 DEF AcceptCallback, accept_cbk, accept_cbk_ok, accept_cbk_options_fail,
       accept_cbk_failed, accept_cbk_no_descriptors, accept_cbk_aborted, AcceptCompletes,
       retry, TimerFires, insert, Insert, connection_start, start_again, start,
       accept_into_new_connection,
       acceptVars, connVars, TypeOK, Goto, Frames, Threads, At, CloseSockets
<1>2. CASE \E w \in Workers : ConnectionCallback(w)
  BY <1>2 DEF ConnectionCallback, receive_cbk, write_completion_condition, write_done,
       stop_and_remove_connection, remove_connection, Remove, send_cbk,
       acceptVars, connVars, TypeOK, Idle, Threads, At, CloseSockets
<1>3. CASE \E t \in Callers : Caller(t)
  BY <1>3 DEF Caller, start_called, stop, stop_connections, ForgetConnections, send_data,
       start, accept_into_new_connection,
       acceptVars, connVars, TypeOK, Idle, Threads, At, CloseSockets
<1>4. CASE Kernel
  BY <1>4 DEF Kernel, AcceptOk, AcceptFails, PeerGone, DataArrives, SendProgress,
       acceptVars, connVars, TypeOK, Idle, Threads, At, CloseSockets
<1>5. CASE UNCHANGED vars
  BY <1>5 DEF vars, acceptVars, connVars
<1> QED BY <1>1, <1>2, <1>3, <1>4, <1>5 DEF Next

(* It writes only while it is in connections_.                              *)
LEMMA SendingStep ==
    ASSUME TypeOK, [Next]_vars, NEW c \in Connections, sending'[c] # "none"
    PROVE  sending[c] # "none" \/ InMap(c)
<1>1. CASE \E w \in Workers : AcceptCallback(w)
  BY <1>1 DEF AcceptCallback, accept_cbk, accept_cbk_ok, accept_cbk_options_fail,
       accept_cbk_failed, accept_cbk_no_descriptors, accept_cbk_aborted, AcceptCompletes,
       retry, TimerFires, insert, Insert, connection_start, start_again, start,
       accept_into_new_connection,
       acceptVars, connVars, TypeOK, WriteSome, CloseSockets
<1>2. CASE \E w \in Workers : ConnectionCallback(w)
  BY <1>2 DEF ConnectionCallback, receive_cbk, write_completion_condition, write_done,
       stop_and_remove_connection, remove_connection, Remove, send_cbk,
       acceptVars, connVars, TypeOK, WriteSome, CloseSockets
<1>3. CASE \E t \in Callers : Caller(t)
  BY <1>3 DEF Caller, start_called, stop, stop_connections, ForgetConnections, send_data,
       start, accept_into_new_connection,
       acceptVars, connVars, TypeOK, WriteSome, CloseSockets
<1>4. CASE Kernel
  BY <1>4 DEF Kernel, AcceptOk, AcceptFails, PeerGone, DataArrives, SendProgress,
       acceptVars, connVars, TypeOK, WriteSome, CloseSockets
<1>5. CASE UNCHANGED vars
  BY <1>5 DEF vars, acceptVars, connVars
<1> QED BY <1>1, <1>2, <1>3, <1>4, <1>5 DEF Next

(* Worker t has a new connection to itself; takes c out of the kernel's     *)
(* hands.                                                                   *)
IsNew(t) == frame[t].step \in NewSteps
TakesAccepted(t, c) ==
    accept_cbk_ok(t, c) \/ accept_cbk_options_fail(t, c) \/ accept_cbk_failed(t, c)

(* A frame gets its connection from a finished accept or a failed write.    *)
LEMMA FrameStep ==
    ASSUME TypeOK, [Next]_vars, NEW t \in Threads, NEW c \in Connections,
           frame'[t].conn = c
    PROVE  \/ /\ frame[t].conn = c
              /\ IsNew(t)' \/ At(t, "write_failed.remove")' => frame'[t] = frame[t]
           \/ t \in Workers /\ TakesAccepted(t, c)
           \/ sending[c] # "none" /\ At(t, "write_failed.remove")' /\ ~open'[c]
<1>0. /\ frame \in FrameTable /\ Workers \subseteq Threads /\ Callers \subseteq Threads
      /\ Idle.conn = NoConnection /\ c # NoConnection
      /\ [Idle EXCEPT !.step = "send_cbk"].conn = NoConnection
      /\ \A s \in {"start", "connection.start", "send_cbk", "stop.connections"} :
           s \in Steps /\ s \notin NewSteps
      /\ \A s \in {"accept_cbk.insert", "drop.start", "start"} : s \in Steps
  BY NamesAssumption DEF TypeOK, FrameTable, Threads, Idle, Steps, LoopSteps, NewSteps
<1>1. ASSUME frame'[t] = frame[t] PROVE frame[t].conn = c
  BY <1>1
<1>2. ASSUME NEW s \in {"start", "connection.start", "send_cbk", "stop.connections"}, Goto(t, s)
      PROVE  /\ frame[t].conn = c
             /\ ~IsNew(t)' /\ ~At(t, "write_failed.remove")'
  BY <1>0, <1>2, GotoLemma DEF At, IsNew
<1>3. CASE \E w \in Workers : AcceptCallback(w)
  <2>0. PICK w \in Workers : AcceptCallback(w)
    BY <1>3
  <2>1. CASE w # t
    BY <1>0, <1>1, <2>0, <2>1, AcceptFrames
  <2>2. CASE w = t
    <3>1. ASSUME NEW d \in Connections, TakesAccepted(t, d) PROVE c = d
      <4>1. \A s \in Steps : GoWith(t, s, d) => frame'[t].conn = d
        BY GoWithLemma
      <4> QED BY <1>0, <3>1, <4>1 DEF TakesAccepted, accept_cbk_ok, accept_cbk_options_fail,
                                      accept_cbk_failed
    <3>2. ~start_again(t)
      BY <1>0 DEF start_again, Return, FrameTable
    <3>3. ASSUME insert(t) \/ retry(t) \/ connection_start(t)
          PROVE  Goto(t, "start") \/ Goto(t, "connection.start")
      BY <3>3 DEF insert, Insert, retry, connection_start
    <3>4. ASSUME NEW d \in Connections,
                 accept_cbk_no_descriptors(t, d) \/ accept_cbk_aborted(t, d)
          PROVE  frame'[t] = frame[t]
      BY <3>4 DEF accept_cbk_no_descriptors, accept_cbk_aborted
    <3> QED BY <1>1, <1>2, <2>0, <2>2, <3>1, <3>2, <3>3, <3>4
            DEF AcceptCallback, accept_cbk, TakesAccepted
  <2> QED BY <2>1, <2>2
<1>4. CASE \E w \in Workers : ConnectionCallback(w)
  <2>0. PICK w \in Workers : ConnectionCallback(w)
    BY <1>4
  <2>1. CASE w # t
    BY <1>0, <1>1, <2>0, <2>1, ConnectionFrames
  <2>2. CASE w = t
    <3>1. ASSUME NEW d \in Connections, stop_and_remove_connection(t, d)
          PROVE  c = d /\ sending[c] # "none" /\ At(t, "write_failed.remove")' /\ ~open'[c]
      BY <1>0, <3>1 DEF stop_and_remove_connection, FrameTable, Idle, At, TypeOK
    <3>2. ~remove_connection(t) /\ ~send_cbk(t)
      BY <1>0 DEF remove_connection, Remove, send_cbk, Return, FrameTable
    <3>3. ASSUME NEW d \in Connections, write_done(t, d) PROVE Goto(t, "send_cbk")
      BY <3>3 DEF write_done
    <3>4. ASSUME NEW d \in Connections, receive_cbk(t, d) \/ write_completion_condition(t, d)
          PROVE  frame'[t] = frame[t]
      BY <3>4 DEF receive_cbk, write_completion_condition
    <3> QED BY <1>1, <1>2, <2>0, <2>2, <3>1, <3>2, <3>3, <3>4 DEF ConnectionCallback
  <2> QED BY <2>1, <2>2
<1>5. CASE \E u \in Callers : Caller(u)
  <2>0. PICK u \in Callers : Caller(u)
    BY <1>5
  <2>1. CASE u # t
    <3>1. frame'[t] = frame[t]
      BY <1>0, <2>0, <2>1 DEF Caller, start_called, stop, stop_connections, ForgetConnections,
         send_data, Goto, Return, FrameTable
    <3> QED BY <1>1, <3>1
  <2>2. CASE u = t
    <3>1. ~stop_connections(t)
      BY <1>0 DEF stop_connections, ForgetConnections, Return, FrameTable
    <3>2. ASSUME stop(t) PROVE Goto(t, "stop.connections")
      BY <3>2 DEF stop
    <3>3. ASSUME start_called(t) \/ \E d \in Connections : send_data(t, d)
          PROVE  frame'[t] = frame[t]
      BY <3>3 DEF start_called, send_data
    <3> QED BY <1>1, <1>2, <2>0, <2>2, <3>1, <3>2, <3>3 DEF Caller
  <2> QED BY <2>1, <2>2
<1>6. CASE Kernel \/ UNCHANGED vars
  BY <1>1, <1>6 DEF Kernel, vars
<1> QED BY <1>3, <1>4, <1>5, <1>6 DEF Next

(* A connection's peer never becomes another one, except by an accept.      *)
LEMMA PeerStep ==
    ASSUME TypeOK, [Next]_vars, NEW c \in Connections
    PROVE  \/ peer'[c] = peer[c] \/ peer'[c] = Unspecified
           \/ \E r \in Remotes : AcceptOk(c, r)
<1>1. CASE \E w \in Workers : AcceptCallback(w)
  BY <1>1 DEF AcceptCallback, accept_cbk, accept_cbk_ok, accept_cbk_options_fail,
       accept_cbk_failed, accept_cbk_no_descriptors, accept_cbk_aborted, AcceptCompletes,
       retry, TimerFires, insert, Insert, connection_start, start_again, start,
       accept_into_new_connection,
       acceptVars, connVars, TypeOK, CloseSockets
<1>2. CASE \E w \in Workers : ConnectionCallback(w)
  BY <1>2 DEF ConnectionCallback, receive_cbk, write_completion_condition, write_done,
       stop_and_remove_connection, remove_connection, Remove, send_cbk,
       acceptVars, connVars, TypeOK, CloseSockets
<1>3. CASE \E t \in Callers : Caller(t)
  BY <1>3 DEF Caller, start_called, stop, stop_connections, ForgetConnections, send_data,
       start, accept_into_new_connection,
       acceptVars, connVars, TypeOK, CloseSockets
<1>4. CASE Kernel
  BY <1>4 DEF Kernel, AcceptOk, AcceptFails, PeerGone, DataArrives, SendProgress,
       acceptVars, connVars, TypeOK, CloseSockets
<1>5. CASE UNCHANGED vars
  BY <1>5 DEF vars, acceptVars, connVars
<1> QED BY <1>1, <1>2, <1>3, <1>4, <1>5 DEF Next

(* What nothing holds is not held after a step, unless it is taken for an   *)
(* accept and is closed.                                                    *)
LEMMA HeldStep ==
    ASSUME TypeOK, [Next]_vars, NEW c \in Connections, Held(c)'
    PROVE  Held(c) \/ ~open'[c]
<1>1. CASE InMap(c)'
  <2>1. PICK a \in Addresses : connections'[a] = c
    BY <1>1 DEF InMap
  <2>2. connections[a] = c \/ \E w \in Workers : frame[w].conn = c
    BY <2>1, MapStep
  <2> QED BY <2>2 DEF Held, InMap, Threads
<1>2. CASE accepting'[c] # "none"
  BY <1>2, AcceptingStep DEF Held
<1>3. CASE receiving'[c] # "none"
  BY <1>3, ReceivingStep DEF Held, Threads
<1>4. CASE sending'[c] # "none"
  BY <1>4, SendingStep DEF Held
<1>5. CASE \E t \in Threads : frame'[t].conn = c
  <2>1. PICK t \in Threads : frame'[t].conn = c
    BY <1>5
  <2>2. frame[t].conn = c \/ TakesAccepted(t, c) \/ sending[c] # "none"
    BY <2>1, FrameStep
  <2>3. TakesAccepted(t, c) => accepting[c] # "none"
    BY DEF TakesAccepted, accept_cbk_ok, accept_cbk_options_fail, accept_cbk_failed,
           AcceptCompletes
  <2> QED BY <2>2, <2>3 DEF Held
<1> QED BY <1>1, <1>2, <1>3, <1>4, <1>5 DEF Held

(* A connection comes to life only by an accept, and keeps its peer while   *)
(* it lives.                                                                *)
LEMMA LiveStep ==
    ASSUME TypeOK, [Next]_vars, NEW c \in Connections, Live(c)'
    PROVE  \/ Live(c) /\ peer'[c] = peer[c]
           \/ \E r \in Remotes : AcceptOk(c, r)
<1>1. Held(c)' /\ open'[c] /\ peer'[c] # Unspecified
  BY DEF Live
<1>2. Held(c)
  BY <1>1, HeldStep
<1> QED BY <1>1, <1>2, OpenStep, PeerStep DEF Live

(* A connection leaves its place in connections_ closed, removed after a    *)
(* failed write, or replaced by one that accept_cbk inserts.                *)
LEMMA MapLeaves ==
    ASSUME TypeOK, [Next]_vars, NEW a \in Addresses, NEW c \in Connections,
           connections[a] = c, connections'[a] # c
    PROVE  \/ ~open'[c]
           \/ \E w \in Workers : At(w, "write_failed.remove") /\ frame[w].conn = c
           \/ \E w \in Workers : /\ At(w, "accept_cbk.insert") /\ frame[w].conn # c
                                 /\ frame[w].remote = a
<1>1. CASE \E w \in Workers : AcceptCallback(w)
  BY <1>1, NamesAssumption DEF AcceptCallback, accept_cbk, accept_cbk_ok, accept_cbk_options_fail,
       accept_cbk_failed, accept_cbk_no_descriptors, accept_cbk_aborted, AcceptCompletes,
       retry, TimerFires, insert, Insert, connection_start, start_again, start,
       accept_into_new_connection,
       acceptVars, connVars, TypeOK, At, CloseSockets, InMap
<1>2. CASE \E w \in Workers : ConnectionCallback(w)
  BY <1>2, NamesAssumption DEF ConnectionCallback, receive_cbk, write_completion_condition, write_done,
       stop_and_remove_connection, remove_connection, Remove, send_cbk,
       acceptVars, connVars, TypeOK, At, CloseSockets, InMap
<1>3. CASE \E t \in Callers : Caller(t)
  BY <1>3, NamesAssumption DEF Caller, start_called, stop, stop_connections, ForgetConnections, send_data,
       start, accept_into_new_connection,
       acceptVars, connVars, TypeOK, At, CloseSockets, InMap
<1>4. CASE Kernel
  BY <1>4, NamesAssumption DEF Kernel, AcceptOk, AcceptFails, PeerGone, DataArrives, SendProgress,
       acceptVars, connVars, TypeOK, At, CloseSockets, InMap
<1>5. CASE UNCHANGED vars
  BY <1>5 DEF vars, acceptVars, connVars
<1> QED BY <1>1, <1>2, <1>3, <1>4, <1>5 DEF Next

(* An accepted connection leaves the kernel in the hands of accept_cbk, or  *)
(* is dropped because an option could not be set.                           *)
LEMMA AcceptedStep ==
    ASSUME TypeOK, [Next]_vars, NEW c \in Connections,
           accepting[c] = "ok", accepting'[c] # "ok"
    PROVE  /\ accepting'[c] = "none"
           /\ \E w \in Workers : accept_cbk_ok(w, c) \/ accept_cbk_options_fail(w, c)
<1>0. Held(c)
  BY DEF Held
<1>1. CASE \E w \in Workers : AcceptCallback(w)
  <2>0. PICK w \in Workers : AcceptCallback(w)
    BY <1>1
  <2>1. \A d \in Connections, r \in {"ok", "failed", "no_descriptors", "aborted"} :
          AcceptCompletes(w, d, r) => d = c /\ r = "ok" /\ accepting'[c] = "none"
    BY DEF AcceptCompletes, TypeOK
  <2>2. ~retry(w) /\ ~insert(w) /\ ~connection_start(w)
    BY DEF retry, TimerFires, insert, Insert, connection_start, acceptVars
  <2>3. ~start_again(w)
    BY <1>0 DEF start_again, start, accept_into_new_connection, acceptVars, TypeOK
  <2>4. PICK d \in Connections : accept_cbk(w, d)
    BY <2>0, <2>2, <2>3 DEF AcceptCallback
  <2> QED BY <2>1, <2>4 DEF accept_cbk, accept_cbk_ok, accept_cbk_options_fail,
       accept_cbk_failed, accept_cbk_no_descriptors, accept_cbk_aborted
<1>2. CASE \E w \in Workers : ConnectionCallback(w)
  BY <1>2 DEF ConnectionCallback, receive_cbk, write_completion_condition, write_done,
       stop_and_remove_connection, remove_connection, Remove, send_cbk,
       acceptVars, connVars, TypeOK
<1>3. CASE \E t \in Callers : Caller(t)
  BY <1>0, <1>3 DEF Caller, start_called, stop, stop_connections, ForgetConnections, send_data,
       start, accept_into_new_connection,
       acceptVars, connVars, TypeOK
<1>4. CASE Kernel
  BY <1>4 DEF Kernel, AcceptOk, AcceptFails, PeerGone, DataArrives, SendProgress,
       acceptVars, connVars, TypeOK
<1>5. CASE UNCHANGED vars
  BY <1>5 DEF vars, acceptVars, connVars
<1> QED BY <1>1, <1>2, <1>3, <1>4, <1>5 DEF Next

(* Who takes a connection has it in the frame, with the address of its peer,*)
(* and inserts it only when the accept succeeded.                           *)
LEMMA TakesLemma ==
    ASSUME TypeOK, NEW t \in Threads, NEW c \in Connections, TakesAccepted(t, c)
    PROVE  /\ accepting[c] \in {"ok", "failed"} /\ accepting'[c] = "none"
           /\ frame'[t].conn = c /\ frame'[t].remote = peer[c]
           /\ At(t, "accept_cbk.insert")' => accepting[c] = "ok"
           /\ accepting[c] = "ok" => IsNew(t)'
<1>0. /\ "accept_cbk.insert" \in Steps /\ "drop.start" \in Steps /\ "start" \in Steps
      /\ "accept_cbk.insert" \in NewSteps /\ "drop.start" \in NewSteps
  BY DEF Steps, LoopSteps, NewSteps
<1>1. CASE accept_cbk_ok(t, c)
  BY <1>0, <1>1, GoWithLemma DEF accept_cbk_ok, AcceptCompletes, TypeOK, IsNew
<1>2. CASE accept_cbk_options_fail(t, c)
  BY <1>0, <1>2, GoWithLemma DEF accept_cbk_options_fail, AcceptCompletes, TypeOK, IsNew
<1>3. CASE accept_cbk_failed(t, c)
  BY <1>0, <1>3, GoWithLemma DEF accept_cbk_failed, AcceptCompletes, TypeOK, At
<1> QED BY <1>1, <1>2, <1>3 DEF TakesAccepted

(* A thread inserts the connection of a finished accept.                    *)
LEMMA InsertStep ==
    ASSUME TypeOK, [Next]_vars, NEW t \in Threads, At(t, "accept_cbk.insert")'
    PROVE  frame'[t] = frame[t] \/ \E c \in Connections : frame'[t].conn = c
<1>0. /\ frame \in FrameTable /\ Workers \subseteq Threads /\ Callers \subseteq Threads
      /\ \A s \in {"start", "drop.start", "connection.start", "accept_cbk.insert", "send_cbk",
                   "stop.connections"} : s \in Steps
  BY DEF TypeOK, FrameTable, Threads, Steps, LoopSteps, NewSteps
<1>1. \A s \in {"start", "connection.start", "send_cbk", "stop.connections"} : ~Goto(t, s)
  BY <1>0, GotoLemma DEF At
<1>2. /\ frame' # [frame EXCEPT ![t] = Idle]
      /\ frame' # [frame EXCEPT ![t] = [Idle EXCEPT !.step = "send_cbk"]]
  BY <1>0 DEF At, Idle, FrameTable
<1>3. CASE \E w \in Workers : AcceptCallback(w)
  <2>0. PICK w \in Workers : AcceptCallback(w)
    BY <1>3
  <2>1. CASE w # t
    BY <1>0, <2>0, <2>1, AcceptFrames
  <2>2. CASE w = t
    <3>1. ASSUME NEW d \in Connections, accept_cbk_ok(t, d) PROVE frame'[t].conn = d
      BY <1>0, <3>1, GoWithLemma DEF accept_cbk_ok
    <3>2. ASSUME NEW d \in Connections,
                 accept_cbk_no_descriptors(t, d) \/ accept_cbk_aborted(t, d)
          PROVE  frame'[t] = frame[t]
      BY <3>2 DEF accept_cbk_no_descriptors, accept_cbk_aborted
    <3>3. ~insert(t) /\ ~retry(t) /\ ~connection_start(t) /\ ~start_again(t)
      BY <1>1, <1>2 DEF insert, Insert, retry, connection_start, start_again, Return
    <3>4. ASSUME NEW d \in Connections PROVE ~accept_cbk_options_fail(t, d) /\ ~accept_cbk_failed(t, d)
      <4>1. ~GoWith(t, "drop.start", d) /\ ~GoWith(t, "start", d)
        BY <1>0, GoWithLemma DEF At
      <4> QED BY <4>1 DEF accept_cbk_options_fail, accept_cbk_failed
    <3> QED BY <2>0, <2>2, <3>1, <3>2, <3>3, <3>4 DEF AcceptCallback, accept_cbk
  <2> QED BY <2>1, <2>2
<1>4. CASE \E w \in Workers : ConnectionCallback(w)
  <2>0. PICK w \in Workers : ConnectionCallback(w)
    BY <1>4
  <2>1. CASE w # t
    BY <1>0, <2>0, <2>1, ConnectionFrames
  <2>2. CASE w = t
    <3>1. /\ ~remove_connection(t) /\ ~send_cbk(t)
          /\ \A d \in Connections : ~write_done(t, d)
      BY <1>1, <1>2 DEF remove_connection, Remove, send_cbk, Return, write_done
    <3>2. \A d \in Connections : ~stop_and_remove_connection(t, d)
      BY <1>0 DEF stop_and_remove_connection, FrameTable, At, Idle
    <3>3. \A d \in Connections : receive_cbk(t, d) \/ write_completion_condition(t, d)
                                    => frame'[t] = frame[t]
      BY DEF receive_cbk, write_completion_condition
    <3> QED BY <2>0, <2>2, <3>1, <3>2, <3>3 DEF ConnectionCallback
  <2> QED BY <2>1, <2>2
<1>5. CASE \E u \in Callers : Caller(u)
  BY <1>0, <1>5 DEF Caller, start_called, stop, stop_connections, ForgetConnections, send_data,
     Return, Goto, At, Idle, FrameTable, Frames
<1>6. CASE Kernel \/ UNCHANGED vars
  BY <1>6 DEF Kernel, vars
<1> QED BY <1>3, <1>4, <1>5, <1>6 DEF Next

(* From there it goes on by inserting it.                                   *)
LEMMA InsertLeaves ==
    ASSUME TypeOK, [Next]_vars, NEW t \in Threads, At(t, "accept_cbk.insert"),
           frame'[t] # frame[t]
    PROVE  insert(t)
<1>0. frame \in FrameTable /\ Workers \subseteq Threads /\ Callers \subseteq Threads
  BY DEF TypeOK, FrameTable, Threads
<1>1. CASE \E w \in Workers : AcceptCallback(w)
  <2>1. AcceptCallback(t)
    BY <1>0, <1>1, AcceptFrames
  <2> QED BY <2>1 DEF AcceptCallback, accept_cbk, accept_cbk_ok, accept_cbk_options_fail,
       accept_cbk_failed, accept_cbk_no_descriptors, accept_cbk_aborted, AcceptCompletes,
       retry, TimerFires, connection_start, start_again, At
<1>2. CASE \E w \in Workers : ConnectionCallback(w)
  <2>1. ConnectionCallback(t)
    BY <1>0, <1>2, ConnectionFrames
  <2> QED BY <2>1, ConnectionSteps DEF At
<1>3. CASE \E u \in Callers : Caller(u)
  BY <1>0, <1>3 DEF Caller, start_called, stop, stop_connections, ForgetConnections, send_data,
     Return, Goto, At, FrameTable
<1>4. CASE Kernel \/ UNCHANGED vars
  BY <1>4 DEF Kernel, vars
<1> QED BY <1>1, <1>2, <1>3, <1>4 DEF Next

(* A callback that drops its connection ends.                               *)
LEMMA DropLeaves ==
    ASSUME TypeOK, [Next]_vars, NEW t \in Threads, At(t, "drop.start"),
           frame'[t] # frame[t]
    PROVE  frame' = [frame EXCEPT ![t] = Idle]
<1>0. frame \in FrameTable /\ Workers \subseteq Threads /\ Callers \subseteq Threads
  BY DEF TypeOK, FrameTable, Threads
<1>1. CASE \E w \in Workers : AcceptCallback(w)
  <2>1. AcceptCallback(t)
    BY <1>0, <1>1, AcceptFrames
  <2> QED BY <2>1 DEF AcceptCallback, accept_cbk, accept_cbk_ok, accept_cbk_options_fail,
       accept_cbk_failed, accept_cbk_no_descriptors, accept_cbk_aborted, AcceptCompletes,
       retry, TimerFires, insert, Insert, connection_start, start_again, Return, At
<1>2. CASE \E w \in Workers : ConnectionCallback(w)
  <2>1. ConnectionCallback(t)
    BY <1>0, <1>2, ConnectionFrames
  <2> QED BY <2>1, ConnectionSteps DEF At
<1>3. CASE \E u \in Callers : Caller(u)
  BY <1>0, <1>3 DEF Caller, start_called, stop, stop_connections, ForgetConnections, send_data,
     Return, Goto, At, FrameTable
<1>4. CASE Kernel \/ UNCHANGED vars
  BY <1>4 DEF Kernel, vars
<1> QED BY <1>1, <1>2, <1>3, <1>4 DEF Next

-----------------------------------------------------------------------------
(***************************************************************************)
(* The connections: who holds a new one, and who is at the other end.      *)
(***************************************************************************)

(* A connection that is being accepted is held by its accept alone; one     *)
(* that accept_cbk is about to insert, or to drop, by that callback alone.  *)
(* One that is being removed is closed.                                     *)
NewInv ==
    \A c \in Connections :
        /\ accepting[c] # "none" => Unused(c) /\ \A t \in Threads : frame[t].conn # c
        /\ accepting[c] = "ok" => open[c]
        /\ \A t \in Threads : IsNew(t) /\ frame[t].conn = c =>
             /\ Unused(c) /\ t \in Workers
             /\ \A u \in Threads : frame[u].conn = c => u = t
        /\ \A t \in Threads :
             At(t, "write_failed.remove") /\ frame[t].conn = c => ~open[c]

(* Two live connections have two peers; connections_ keeps a live connection*)
(* under the address of its peer, and accept_cbk is about to do so.         *)
PeerInv ==
    /\ \A c, d \in Connections : Live(c) /\ Live(d) /\ peer[c] = peer[d] => c = d
    /\ \A a \in Addresses, c \in Connections : connections[a] = c /\ Live(c) => peer[c] = a
    /\ \A t \in Threads, c \in Connections :
         At(t, "accept_cbk.insert") /\ frame[t].conn = c /\ Live(c) => peer[c] = frame[t].remote
    /\ \A t \in Threads : At(t, "accept_cbk.insert") => frame[t].conn \in Connections

(* A connection that no callback has in its hands stays unused.             *)
LEMMA UnusedStep ==
    ASSUME TypeOK, [Next]_vars, NEW c \in Connections, Unused(c),
           \A w \in Workers : frame[w].conn = c =>
               /\ ~(At(w, "accept_cbk.insert") /\ At(w, "connection.start")')
               /\ ~(At(w, "connection.start") /\ At(w, "start")')
    PROVE  Unused(c)'
<1>1. ~InMap(c)'
  BY MapStep DEF Unused, InMap
<1> QED BY <1>1, ReceivingStep, SendingStep DEF Unused

(* NewInv is inductive together with the types.                             *)
LEMMA NewInvStep ==
    ASSUME TypeOK, NewInv, [Next]_vars
    PROVE  NewInv'
<1> SUFFICES ASSUME NEW c \in Connections
    PROVE
        /\ accepting'[c] # "none" => Unused(c)' /\ \A t \in Threads : frame'[t].conn # c
        /\ accepting'[c] = "ok" => open'[c]
        /\ \A t \in Threads : IsNew(t)' /\ frame'[t].conn = c =>
             /\ Unused(c)' /\ t \in Workers
             /\ \A u \in Threads : frame'[u].conn = c => u = t
        /\ \A t \in Threads :
             At(t, "write_failed.remove")' /\ frame'[t].conn = c => ~open'[c]
  BY DEF NewInv
<1>0. Workers \subseteq Threads
  BY DEF Threads
<1>a. ASSUME NEW t \in Threads, TakesAccepted(t, c)
      PROVE  /\ accepting[c] # "none" /\ accepting'[c] = "none"
             /\ ~At(t, "write_failed.remove")'
             /\ \A u \in Threads : u # t => frame'[u] = frame[u]
  <2>1. PICK s \in {"accept_cbk.insert", "drop.start", "start"} : GoWith(t, s, c)
    BY <1>a DEF TakesAccepted, accept_cbk_ok, accept_cbk_options_fail, accept_cbk_failed
  <2>2. s \in Steps /\ s # "write_failed.remove"
    BY DEF Steps, LoopSteps, NewSteps
  <2>3. accepting[c] # "none" /\ accepting'[c] = "none"
    BY <1>a DEF TakesAccepted, accept_cbk_ok, accept_cbk_options_fail, accept_cbk_failed,
                AcceptCompletes, TypeOK
  <2> QED BY <2>1, <2>2, <2>3, GoWithLemma DEF At
<1>b. \A r \in Remotes : AcceptOk(c, r) => accepting[c] = "pending" /\ open'[c]
  BY DEF AcceptOk, TypeOK
<1>1. ASSUME accepting'[c] # "none"
      PROVE  Unused(c)' /\ \A t \in Threads : frame'[t].conn # c
  <2>1. Unused(c) /\ \A t \in Threads : frame[t].conn # c
    BY <1>1, AcceptingStep DEF NewInv, Held, Unused
  <2>2. Unused(c)'
    BY <1>0, <2>1, UnusedStep
  <2>3. \A t \in Threads : frame'[t].conn # c
    BY <1>1, <1>a, <2>1, FrameStep DEF Unused
  <2> QED BY <2>2, <2>3
<1>2. ASSUME accepting'[c] = "ok"
      PROVE  open'[c]
  <2>1. CASE accepting[c] = "ok"
    BY <2>1, OpenStep DEF NewInv, Unused, Held
  <2>2. CASE \E r \in Remotes : AcceptOk(c, r)
    BY <1>b, <2>2
  <2> QED BY <1>2, <2>1, <2>2, AcceptingStep
<1>3. ASSUME NEW t \in Threads, IsNew(t)', frame'[t].conn = c
      PROVE  /\ Unused(c)' /\ t \in Workers
             /\ \A u \in Threads : frame'[u].conn = c => u = t
  <2>0. ~At(t, "connection.start")' /\ ~At(t, "start")' /\ ~At(t, "write_failed.remove")'
    BY <1>3 DEF At, IsNew, NewSteps
  <2>1. CASE frame'[t] = frame[t] /\ frame[t].conn = c
    <3>1. /\ Unused(c) /\ t \in Workers /\ accepting[c] = "none"
          /\ \A u \in Threads : frame[u].conn = c => u = t
      BY <1>3, <2>1 DEF NewInv, IsNew
    <3>2. Unused(c)'
      BY <1>0, <2>0, <3>1, UnusedStep
    <3>3. \A u \in Threads : frame'[u].conn = c => u = t
      BY <1>a, <3>1, FrameStep DEF Unused
    <3> QED BY <3>1, <3>2, <3>3
  <2>2. CASE t \in Workers /\ TakesAccepted(t, c)
    <3>1. Unused(c) /\ \A u \in Threads : frame[u].conn # c
      BY <1>a, <2>2 DEF NewInv
    <3>2. Unused(c)'
      BY <1>0, <3>1, UnusedStep
    <3> QED BY <1>a, <2>2, <3>1, <3>2
  <2> QED BY <1>3, <2>0, <2>1, <2>2, FrameStep
<1>4. ASSUME NEW t \in Threads, At(t, "write_failed.remove")', frame'[t].conn = c
      PROVE  ~open'[c]
  <2>1. CASE frame'[t] = frame[t] /\ frame[t].conn = c
    <3>1. ~open[c] /\ accepting[c] = "none"
      BY <1>4, <2>1 DEF NewInv, At
    <3> QED BY <1>b, <3>1, OpenStep
  <2> QED BY <1>4, <1>a, <2>1, FrameStep
<1> QED BY <1>1, <1>2, <1>3, <1>4

(* PeerInv is inductive together with NewInv.                               *)
LEMMA PeerInvStep ==
    ASSUME TypeOK, NewInv, PeerInv, [Next]_vars
    PROVE  PeerInv'
<1>a. \A c \in Connections, r \in Remotes : AcceptOk(c, r) =>
        /\ accepting[c] = "pending" /\ peer'[c] = r
        /\ \A d \in Connections : Live(d) => peer[d] # r
        /\ \A d \in Connections : d # c => accepting'[d] = accepting[d]
        /\ accepting'[c] = "ok"
        /\ Unused(c) /\ \A t \in Threads : frame[t].conn # c
  BY DEF AcceptOk, TypeOK, NewInv
<1>b. ASSUME NEW t \in Threads, NEW c \in Connections, TakesAccepted(t, c),
             At(t, "accept_cbk.insert")'
      PROVE  accepting[c] \in {"ok", "failed"} /\ frame'[t].remote = peer[c]
  BY <1>b, TakesLemma
<1>1. ASSUME NEW c \in Connections, NEW d \in Connections,
             Live(c)', Live(d)', peer'[c] = peer'[d]
      PROVE  c = d
  <2>1. CASE \E r \in Remotes : AcceptOk(c, r)
    <3>1. PICK r \in Remotes : AcceptOk(c, r)
      BY <2>1
    <3>2. ASSUME d # c PROVE \A q \in Remotes : ~AcceptOk(d, q)
      BY <1>a, <3>1, <3>2
    <3> QED BY <1>1, <1>a, <3>1, <3>2, LiveStep
  <2>2. CASE \E r \in Remotes : AcceptOk(d, r)
    <3>1. PICK r \in Remotes : AcceptOk(d, r)
      BY <2>2
    <3>2. ASSUME d # c PROVE \A q \in Remotes : ~AcceptOk(c, q)
      BY <1>a, <3>1, <3>2
    <3> QED BY <1>1, <1>a, <3>1, <3>2, LiveStep
  <2>3. CASE Live(c) /\ peer'[c] = peer[c] /\ Live(d) /\ peer'[d] = peer[d]
    BY <1>1, <2>3 DEF PeerInv
  <2> QED BY <1>1, <2>1, <2>2, <2>3, LiveStep
<1>2. ASSUME NEW a \in Addresses, NEW c \in Connections, connections'[a] = c, Live(c)'
      PROVE  peer'[c] = a
  <2>1. connections[a] = c \/ \E w \in Workers : /\ At(w, "accept_cbk.insert")
                                                 /\ frame[w].conn = c /\ frame[w].remote = a
    BY <1>2, MapStep
  <2>2. \A r \in Remotes : ~AcceptOk(c, r)
    BY <1>a, <2>1 DEF Unused, InMap, Threads
  <2>3. Live(c) /\ peer'[c] = peer[c]
    BY <1>2, <2>2, LiveStep
  <2> QED BY <2>1, <2>3 DEF PeerInv, Threads
<1>3. ASSUME NEW t \in Threads, NEW c \in Connections, At(t, "accept_cbk.insert")',
             frame'[t].conn = c, Live(c)'
      PROVE  peer'[c] = frame'[t].remote
  <2>1. \/ frame[t].conn = c /\ frame'[t] = frame[t]
        \/ TakesAccepted(t, c)
    BY <1>3, FrameStep DEF At, IsNew, NewSteps
  <2>2. \A r \in Remotes : ~AcceptOk(c, r)
    BY <1>3, <1>a, <1>b, <2>1
  <2>3. Live(c) /\ peer'[c] = peer[c]
    BY <1>3, <2>2, LiveStep
  <2> QED BY <1>3, <1>b, <2>1, <2>3 DEF PeerInv, At
<1>4. ASSUME NEW t \in Threads, At(t, "accept_cbk.insert")'
      PROVE  frame'[t].conn \in Connections
  BY <1>4, InsertStep DEF PeerInv, At
<1> QED BY <1>1, <1>2, <1>3, <1>4 DEF PeerInv

(***************************************************************************)
(* The acceptor.                                                           *)
(***************************************************************************)

(* Nobody is forgotten before the acceptor is closed, and a closed acceptor *)
(* has no accept pending.                                                   *)
AcceptorInv ==
    /\ acceptorOpen => late = Connections /\ \A t \in Threads : ~At(t, "stop.connections")
    /\ ~acceptorOpen => \A c \in Connections : accepting[c] # "pending"

(* A closed acceptor stays closed, and only a thread that comes from closing *)
(* it forgets the connections.                                              *)
LEMMA AcceptorStep ==
    ASSUME TypeOK, [Next]_vars
    PROVE  /\ acceptorOpen' => acceptorOpen
           /\ late' = late \/ \E t \in Callers : stop_connections(t)
           /\ starts' = starts \/ starts' = starts + 1
<1>1. CASE \E w \in Workers : AcceptCallback(w)
  <2>1. late' = late /\ starts' = starts
    BY <1>1 DEF AcceptCallback, accept_cbk, accept_cbk_ok, accept_cbk_options_fail,
       accept_cbk_failed, accept_cbk_no_descriptors, accept_cbk_aborted, AcceptCompletes,
       retry, TimerFires, insert, Insert, connection_start, start_again
  <2>2. acceptorOpen' = acceptorOpen
    BY <1>1 DEF AcceptCallback, accept_cbk, accept_cbk_ok, accept_cbk_options_fail,
       accept_cbk_failed, accept_cbk_no_descriptors, accept_cbk_aborted, AcceptCompletes,
       retry, TimerFires, insert, Insert, connection_start, start_again, start,
       accept_into_new_connection, acceptVars
  <2> QED BY <2>1, <2>2
<1>2. CASE \E w \in Workers : ConnectionCallback(w)
  <2>1. acceptorOpen' = acceptorOpen /\ late' = late /\ starts' = starts
    BY <1>2 DEF ConnectionCallback, receive_cbk, write_completion_condition, write_done,
       stop_and_remove_connection, remove_connection, Remove, send_cbk, acceptVars
  <2> QED BY <2>1
<1>3. CASE \E t \in Callers : Caller(t)
  <2>1. PICK t \in Callers : Caller(t)
    BY <1>3
  <2>2. CASE start_called(t)
    BY <2>2, StartType DEF start_called
  <2>3. CASE stop(t)
    BY <2>3 DEF stop
  <2>4. CASE stop_connections(t)
    <3>1. acceptorOpen' = acceptorOpen /\ starts' = starts
      BY <2>4 DEF stop_connections, ForgetConnections, acceptVars
    <3> QED BY <2>4, <3>1
  <2>5. CASE \E c \in Connections : send_data(t, c)
    BY <2>5 DEF send_data, acceptVars
  <2> QED BY <2>1, <2>2, <2>3, <2>4, <2>5 DEF Caller
<1>4. CASE Kernel
  <2>1. acceptorOpen' = acceptorOpen /\ late' = late /\ starts' = starts
    BY <1>4 DEF Kernel, AcceptOk, AcceptFails, PeerGone, DataArrives, SendProgress, acceptVars
  <2> QED BY <2>1
<1>5. CASE UNCHANGED vars
  BY <1>5 DEF vars, acceptVars
<1> QED BY <1>1, <1>2, <1>3, <1>4, <1>5 DEF Next

(* A new accept takes an open acceptor, and closing it ends all accepts.    *)
LEMMA PendingStep ==
    ASSUME TypeOK, [Next]_vars, NEW c \in Connections, accepting'[c] = "pending"
    PROVE  /\ accepting[c] = "pending" \/ acceptorOpen
           /\ acceptorOpen' = acceptorOpen
<1>1. CASE \E w \in Workers : AcceptCallback(w)
  BY <1>1 DEF AcceptCallback, accept_cbk, accept_cbk_ok, accept_cbk_options_fail,
       accept_cbk_failed, accept_cbk_no_descriptors, accept_cbk_aborted, AcceptCompletes,
       retry, TimerFires, insert, Insert, connection_start, start_again, start,
       accept_into_new_connection,
       acceptVars, connVars, TypeOK
<1>2. CASE \E w \in Workers : ConnectionCallback(w)
  BY <1>2 DEF ConnectionCallback, receive_cbk, write_completion_condition, write_done,
       stop_and_remove_connection, remove_connection, Remove, send_cbk,
       acceptVars, connVars, TypeOK
<1>3. CASE \E t \in Callers : Caller(t)
  BY <1>3 DEF Caller, start_called, stop, stop_connections, ForgetConnections, send_data,
       start, accept_into_new_connection,
       acceptVars, connVars, TypeOK
<1>4. CASE Kernel
  BY <1>4 DEF Kernel, AcceptOk, AcceptFails, PeerGone, DataArrives, SendProgress,
       acceptVars, connVars, TypeOK
<1>5. CASE UNCHANGED vars
  BY <1>5 DEF vars, acceptVars, connVars
<1> QED BY <1>1, <1>2, <1>3, <1>4, <1>5 DEF Next

(* Only stop() goes on to the connections.                                  *)
LEMMA StoppingStep ==
    ASSUME TypeOK, [Next]_vars, NEW t \in Threads, At(t, "stop.connections")'
    PROVE  At(t, "stop.connections") \/ ~acceptorOpen'
<1>0. /\ frame \in FrameTable /\ Workers \subseteq Threads /\ Callers \subseteq Threads
  BY DEF TypeOK, FrameTable, Threads
<1>1. CASE \E w \in Workers : AcceptCallback(w)
  <2>0. PICK w \in Workers : AcceptCallback(w)
    BY <1>1
  <2>1. w # t
    BY <1>0, <2>0, AcceptGoesTo DEF At, LoopSteps, NewSteps
  <2> QED BY <1>0, <2>0, <2>1, AcceptFrames DEF At
<1>2. CASE \E w \in Workers : ConnectionCallback(w)
  <2>0. PICK w \in Workers : ConnectionCallback(w)
    BY <1>2
  <2>1. w # t
    BY <1>0, <2>0, ConnectionGoesTo DEF At
  <2> QED BY <1>0, <2>0, <2>1, ConnectionFrames DEF At
<1>3. CASE \E u \in Callers : Caller(u)
  <2>1. PICK u \in Callers : Caller(u)
    BY <1>3
  <2>2. CASE stop(u)
    BY <2>2 DEF stop
  <2>3. CASE stop_connections(u)
    BY <1>0, <2>3 DEF stop_connections, ForgetConnections, Return, Idle, At, FrameTable
  <2>4. CASE frame' = frame
    BY <2>4 DEF At
  <2> QED BY <2>1, <2>2, <2>3, <2>4 DEF Caller, start_called, send_data
<1>4. CASE Kernel \/ UNCHANGED vars
  BY <1>4 DEF Kernel, vars, At
<1> QED BY <1>1, <1>2, <1>3, <1>4 DEF Next

(* AcceptorInv is inductive together with the types.                        *)
LEMMA AcceptorInvStep ==
    ASSUME TypeOK, AcceptorInv, [Next]_vars
    PROVE  AcceptorInv'
<1>0. \A t \in Callers : stop_connections(t) => t \in Threads /\ At(t, "stop.connections")
  BY DEF stop_connections, ForgetConnections, Threads
<1>1. ASSUME acceptorOpen' PROVE late' = Connections
  BY <1>0, <1>1, AcceptorStep DEF AcceptorInv
<1>2. ASSUME acceptorOpen', NEW t \in Threads PROVE ~At(t, "stop.connections")'
  BY <1>2, AcceptorStep, StoppingStep DEF AcceptorInv
<1>3. ASSUME ~acceptorOpen', NEW c \in Connections PROVE accepting'[c] # "pending"
  BY <1>3, PendingStep DEF AcceptorInv
<1> QED BY <1>1, <1>2, <1>3 DEF AcceptorInv

-----------------------------------------------------------------------------
(***************************************************************************)
(* One call of start(): one accept loop.                                   *)
(***************************************************************************)

(* Until start() is called again there is at most one of: an accept, a      *)
(* timer, a worker in the loop.                                             *)
OneLoop ==
    /\ starts = 0 => /\ retryTimers = 0
                     /\ \A c \in Connections : accepting[c] = "none"
                     /\ \A t \in Threads : ~InLoop(t)
    /\ retryTimers = 0 \/ retryTimers = 1
    /\ \A c \in Connections : accepting[c] # "none" =>
         /\ retryTimers = 0
         /\ \A d \in Connections : accepting[d] # "none" => d = c
         /\ \A t \in Threads : ~InLoop(t)
    /\ \A t \in Threads : InLoop(t) =>
         retryTimers = 0 /\ \A u \in Threads : InLoop(u) => u = t

(* Nothing adds to the loop.                                                *)
LEMMA LoopNotLonger ==
    ASSUME OneLoop, starts' = starts, retryTimers' = retryTimers,
           \A c \in Connections : accepting'[c] # "none" => accepting[c] # "none",
           \A t \in Threads : InLoop(t)' => InLoop(t)
    PROVE  OneLoop'
BY DEF OneLoop

(* The loop is handed on to a worker.                                       *)
LEMMA LoopToWorker ==
    ASSUME starts # 0, starts' = starts, retryTimers' = 0, NEW w \in Threads,
           \A c \in Connections : accepting'[c] = "none",
           \A t \in Threads : t # w => ~InLoop(t)'
    PROVE  OneLoop'
BY DEF OneLoop

(* start() begins an accept, where nothing else of a loop is left.          *)
LEMMA StartsOneLoop ==
    ASSUME TypeOK, start, starts' # 0, retryTimers = 0,
           \A c \in Connections : accepting[c] = "none",
           \A t \in Threads : ~InLoop(t)'
    PROVE  OneLoop'
<1>1. retryTimers' = 0
  BY StartType
<1>2. ASSUME NEW c \in Connections, NEW d \in Connections,
             accepting'[c] # "none", accepting'[d] # "none"
      PROVE  d = c
  BY <1>2 DEF start, accept_into_new_connection, acceptVars, TypeOK
<1> QED BY <1>1, <1>2 DEF OneLoop

(* A callback of the accept loop hands the loop on.                         *)
LEMMA OneLoopAccept ==
    ASSUME TypeOK, OneLoop, NEW w \in Workers, AcceptCallback(w)
    PROVE  OneLoop'
<1>0. frame \in FrameTable /\ w \in Threads
  BY DEF TypeOK, FrameTable, Threads
<1>a. \A t \in Threads : t # w => InLoop(t)' = InLoop(t)
  BY <1>0, AcceptFrames DEF InLoop
<1>b. ASSUME NEW c \in Connections,
             NEW r \in {"ok", "failed", "no_descriptors", "aborted"}, AcceptCompletes(w, c, r)
      PROVE  /\ starts # 0 /\ starts' = starts /\ retryTimers = 0
             /\ \A d \in Connections : accepting'[d] = "none"
             /\ \A t \in Threads : ~InLoop(t)
  <2>1. accepting[c] # "none"
    BY <1>b DEF AcceptCompletes
  <2> QED BY <1>b, <2>1 DEF AcceptCompletes, TypeOK, OneLoop
<1>1. ASSUME NEW c \in Connections, accept_cbk_ok(w, c) PROVE OneLoop'
  BY <1>0, <1>1, <1>a, <1>b, LoopToWorker DEF accept_cbk_ok
<1>2. ASSUME NEW c \in Connections, accept_cbk_options_fail(w, c) PROVE OneLoop'
  BY <1>0, <1>2, <1>a, <1>b, LoopToWorker DEF accept_cbk_options_fail
<1>3. ASSUME NEW c \in Connections, accept_cbk_failed(w, c) PROVE OneLoop'
  BY <1>0, <1>3, <1>a, <1>b, LoopToWorker DEF accept_cbk_failed
<1>4. ASSUME NEW c \in Connections, accept_cbk_no_descriptors(w, c) PROVE OneLoop'
  <2>1. retryTimers' = 1 /\ \A t \in Threads : ~InLoop(t)'
    BY <1>4, <1>b DEF accept_cbk_no_descriptors, InLoop
  <2> QED BY <1>4, <1>b, <2>1 DEF accept_cbk_no_descriptors, OneLoop
<1>5. ASSUME NEW c \in Connections, accept_cbk_aborted(w, c) PROVE OneLoop'
  BY <1>0, <1>5, <1>a, <1>b, LoopToWorker DEF accept_cbk_aborted
<1>6. ASSUME retry(w) PROVE OneLoop'
  <2>1. /\ retryTimers = 1 /\ retryTimers' = 0 /\ starts # 0 /\ starts' = starts
        /\ \A c \in Connections : accepting[c] = "none"
        /\ \A t \in Threads : ~InLoop(t)
    BY <1>6 DEF retry, TimerFires, OneLoop
  <2> QED BY <1>0, <1>6, <1>a, <2>1, LoopToWorker DEF retry, TimerFires
<1>7. ASSUME InLoop(w)
      PROVE  /\ starts # 0 /\ retryTimers = 0
             /\ \A c \in Connections : accepting[c] = "none"
             /\ \A t \in Threads : t # w => ~InLoop(t)
  BY <1>0, <1>7 DEF OneLoop
<1>8. ASSUME insert(w) \/ connection_start(w) PROVE OneLoop'
  <2>1. InLoop(w)
    BY <1>8 DEF insert, Insert, connection_start, At, InLoop, LoopSteps, NewSteps
  <2> QED BY <1>0, <1>7, <1>8, <1>a, <2>1, LoopToWorker
          DEF insert, Insert, connection_start, acceptVars
<1>9. ASSUME start_again(w) PROVE OneLoop'
  <2>1. InLoop(w)
    BY <1>9 DEF start_again, At, InLoop, LoopSteps, NewSteps
  <2>2. ~InLoop(w)'
    BY <1>0, <1>9 DEF start_again, Return, Idle, InLoop, LoopSteps, NewSteps, FrameTable
  <2> QED BY <1>7, <1>9, <1>a, <2>1, <2>2, StartsOneLoop DEF start_again
<1> QED BY <1>1, <1>2, <1>3, <1>4, <1>5, <1>6, <1>8, <1>9 DEF AcceptCallback, accept_cbk

(* OneLoop is kept by every step that is not a second start().              *)
LEMMA OneLoopStep ==
    ASSUME TypeOK, OneLoop, [Next]_vars, starts' <= 1
    PROVE  OneLoop'
<1>0. frame \in FrameTable /\ Workers \subseteq Threads /\ Callers \subseteq Threads
  BY DEF TypeOK, FrameTable, Threads
<1>1. ASSUME NEW w \in Workers, ConnectionCallback(w) PROVE OneLoop'
  <2>1. starts' = starts /\ retryTimers' = retryTimers /\ accepting' = accepting
    BY <1>1 DEF ConnectionCallback, receive_cbk, write_completion_condition, write_done,
       stop_and_remove_connection, remove_connection, Remove, send_cbk, acceptVars
  <2>2. ~InLoop(w)'
    BY <1>0, <1>1, ConnectionGoesTo DEF InLoop, LoopSteps, NewSteps
  <2> QED BY <1>0, <1>1, <2>1, <2>2, ConnectionFrames, LoopNotLonger DEF InLoop
<1>2. ASSUME NEW t \in Callers, start_called(t) PROVE OneLoop'
  <2>1. starts = 0 /\ starts' = 1
    BY <1>2 DEF start_called, TypeOK
  <2>2. frame' = frame
    BY <1>2 DEF start_called
  <2> QED BY <1>2, <2>1, <2>2, StartsOneLoop DEF start_called, OneLoop, InLoop
<1>3. ASSUME NEW t \in Callers, stop(t) \/ stop_connections(t) PROVE OneLoop'
  <2>1. \A c \in Connections : accepting'[c] # "none" => accepting[c] # "none"
    BY <1>3 DEF stop, stop_connections, ForgetConnections, acceptVars
  <2>2. \A u \in Threads : InLoop(u)' => InLoop(u)
    BY <1>0, <1>3 DEF stop, stop_connections, ForgetConnections, Goto, Return, InLoop,
                      LoopSteps, NewSteps, Idle, FrameTable, Frames
  <2> QED BY <1>3, <2>1, <2>2, LoopNotLonger DEF stop, stop_connections, ForgetConnections, acceptVars
<1>4. ASSUME NEW t \in Callers, NEW c \in Connections, send_data(t, c) PROVE OneLoop'
  BY <1>4, LoopNotLonger DEF send_data, acceptVars, InLoop
<1>5. ASSUME Kernel PROVE OneLoop'
  <2>1. \A c \in Connections : accepting'[c] # "none" => accepting[c] # "none"
    BY <1>5 DEF Kernel, AcceptOk, AcceptFails, PeerGone, DataArrives, SendProgress, TypeOK,
                acceptVars
  <2>2. retryTimers' = retryTimers
    BY <1>5 DEF Kernel, AcceptOk, AcceptFails, PeerGone, DataArrives, SendProgress, acceptVars
  <2> QED BY <1>5, <2>1, <2>2, LoopNotLonger DEF Kernel, InLoop
<1>6. ASSUME UNCHANGED vars PROVE OneLoop'
  BY <1>6, LoopNotLonger DEF vars, acceptVars, InLoop
<1> QED BY <1>1, <1>2, <1>3, <1>4, <1>5, <1>6, OneLoopAccept DEF Next, Caller

-----------------------------------------------------------------------------
(***************************************************************************)
(* connections_ knows every live connection, and stop() reaches it.        *)
(***************************************************************************)

(* While accept_cbk is about to insert a connection, no other one has its   *)
(* peer's address: even if the peer has gone meanwhile, it cannot have come *)
(* back, because the loop is not yet accepting again.                       *)
InsertInv ==
    \A t \in Threads, c \in Connections :
        At(t, "accept_cbk.insert") /\ Live(c) /\ c # frame[t].conn => peer[c] # frame[t].remote

(* The inductive invariant.                                                 *)
ServerInv ==
    /\ TypeOK /\ NewInv /\ PeerInv /\ AcceptorInv
    /\ starts <= 1 => OneLoop /\ InsertInv /\ LiveConnectionKnown /\ StopLeavesOnlyLate

(* InsertInv is kept while there is one loop.                               *)
LEMMA InsertInvStep ==
    ASSUME TypeOK, NewInv, PeerInv, OneLoop, InsertInv, [Next]_vars
    PROVE  InsertInv'
<1> SUFFICES ASSUME NEW t \in Threads, NEW c \in Connections,
                    At(t, "accept_cbk.insert")', Live(c)', c # frame'[t].conn
             PROVE  peer'[c] # frame'[t].remote
  BY DEF InsertInv
<1>1a. At(t, "accept_cbk.insert")'
  OBVIOUS
<1>1. CASE frame'[t] = frame[t]
  <2>1. At(t, "accept_cbk.insert") /\ InLoop(t)
    BY <1>1 DEF At, InLoop, LoopSteps, NewSteps
  <2>2. \A r \in Remotes : ~AcceptOk(c, r)
    BY <2>1 DEF OneLoop, AcceptOk
  <2> QED BY <1>1, <2>1, <2>2, LiveStep DEF InsertInv
<1>2. CASE frame'[t] # frame[t]
  <2>1. PICK d \in Connections : frame'[t].conn = d
    BY <1>2, InsertStep
  <2>2. TakesAccepted(t, d)
    BY <1>2, <2>1, FrameStep DEF At, IsNew, NewSteps
  <2>3. /\ accepting[d] = "ok" /\ accepting'[d] = "none"
        /\ frame'[t].remote = peer[d]
    BY <1>1a, <2>2, TakesLemma
  <2>4. \A r \in Remotes : ~AcceptOk(c, r)
    BY <2>1, <2>3 DEF AcceptOk, TypeOK
  <2>5. Live(c) /\ peer'[c] = peer[c] /\ peer[c] # Unspecified
    BY <2>4, LiveStep DEF Live
  <2>6. peer[d] # Unspecified => Live(d)
    BY <2>3 DEF Live, Held, NewInv
  <2> QED BY <2>1, <2>3, <2>5, <2>6 DEF PeerInv
<1> QED BY <1>1, <1>2

(* A live connection stays known.  It leaves connections_ only closed, or   *)
(* removed and then closed already, or replaced, which InsertInv excludes.  *)
LEMMA KnownStep ==
    ASSUME TypeOK, NewInv, PeerInv, InsertInv, LiveConnectionKnown, [Next]_vars
    PROVE  LiveConnectionKnown'
<1> SUFFICES ASSUME NEW c \in Connections, Live(c)', ~BeingAccepted(c)'
             PROVE  connections'[peer'[c]] = c
  BY DEF LiveConnectionKnown
<1>0. Workers \subseteq Threads
  BY DEF Threads
<1>1. \A r \in Remotes : ~AcceptOk(c, r)
  BY DEF AcceptOk, BeingAccepted, TypeOK
<1>2. Live(c) /\ open'[c] /\ peer'[c] = peer[c] /\ peer[c] \in Addresses
  BY <1>1, LiveStep DEF Live, TypeOK
<1>3. CASE connections[peer[c]] = c
  <2>2. ASSUME NEW w \in Workers, At(w, "write_failed.remove"), frame[w].conn = c
        PROVE  FALSE
    BY <1>0, <1>2, <2>2 DEF NewInv, Live
  <2>3. ASSUME NEW w \in Workers, At(w, "accept_cbk.insert"), frame[w].conn # c,
               frame[w].remote = peer[c]
        PROVE  FALSE
    BY <1>0, <1>2, <2>3 DEF InsertInv
  <2> QED BY <1>2, <1>3, <2>2, <2>3, MapLeaves
<1>4. CASE accepting[c] = "ok"
  <2>1. PICK w \in Workers : accept_cbk_ok(w, c) \/ accept_cbk_options_fail(w, c)
    BY <1>4, AcceptedStep DEF BeingAccepted
  <2>2. IsNew(w)' /\ frame'[w].conn = c
    BY <1>0, <1>4, <2>1, TakesLemma DEF TakesAccepted
  <2> QED BY <2>2 DEF BeingAccepted, IsNew
<1>5. CASE \E w \in Workers : frame[w].step \in NewSteps /\ frame[w].conn = c
  <2>1. PICK w \in Workers : frame[w].step \in NewSteps /\ frame[w].conn = c
    BY <1>5
  <2>2. frame'[w] # frame[w]
    BY <2>1 DEF BeingAccepted
  <2>3. CASE At(w, "accept_cbk.insert")
    <3>1. insert(w)
      BY <1>0, <2>2, <2>3, InsertLeaves
    <3>2. frame[w].remote = peer[c]
      BY <1>0, <1>2, <2>1, <2>3 DEF PeerInv
    <3> QED BY <1>2, <2>1, <3>1, <3>2 DEF insert, Insert, TypeOK
  <2>4. CASE At(w, "drop.start")
    <3>1. frame' = [frame EXCEPT ![w] = Idle]
      BY <1>0, <2>2, <2>4, DropLeaves
    <3>2. Unused(c) /\ accepting[c] = "none" /\ \A u \in Threads : frame[u].conn = c => u = w
      BY <1>0, <2>1 DEF NewInv, IsNew
    <3>3. \A u \in Threads : frame'[u].conn # c
      BY <1>0, <3>1, <3>2, NamesAssumption DEF TypeOK, Idle
    <3>4. Unused(c)'
      BY <1>0, <2>1, <2>4, <3>1, <3>2, UnusedStep DEF At
    <3>5. accepting'[c] = "none"
      BY <1>2, <3>2, AcceptingStep DEF Live
    <3> QED BY <3>3, <3>4, <3>5 DEF Live, Held, Unused
  <2> QED BY <2>1, <2>3, <2>4 DEF At, NewSteps
<1> QED BY <1>2, <1>3, <1>4, <1>5 DEF LiveConnectionKnown, BeingAccepted

(* stop() leaves behind only what the kernel had handed out.                *)
LEMMA LateStep ==
    ASSUME TypeOK, AcceptorInv, LiveConnectionKnown, StopLeavesOnlyLate, [Next]_vars
    PROVE  StopLeavesOnlyLate'
<1> SUFFICES ASSUME NEW c \in Connections, Live(c)'
             PROVE  c \in late'
  BY DEF StopLeavesOnlyLate
<1>1. CASE \E t \in Callers : stop_connections(t)
  <2>1. PICK t \in Callers : stop_connections(t)
    BY <1>1
  <2>2. \A r \in Remotes : ~AcceptOk(c, r)
    BY <2>1 DEF stop_connections, ForgetConnections, acceptVars, AcceptOk, TypeOK
  <2>3. Live(c) /\ open'[c]
    BY <2>2, LiveStep DEF Live
  <2>4. ~InMap(c)
    BY <2>1, <2>3 DEF stop_connections, CloseSockets
  <2>5. peer[c] \in Addresses
    BY DEF TypeOK
  <2> QED BY <2>1, <2>3, <2>4, <2>5 DEF LiveConnectionKnown, InMap, stop_connections,
                                       ForgetConnections
<1>2. CASE late' = late
  <2>1. CASE Live(c)
    BY <1>2, <2>1 DEF StopLeavesOnlyLate
  <2>2. CASE \E r \in Remotes : AcceptOk(c, r)
    BY <1>2, <2>2 DEF AcceptorInv, AcceptOk
  <2> QED BY <2>1, <2>2, LiveStep
<1> QED BY <1>1, <1>2, AcceptorStep

(* The constructed server satisfies the invariant.                          *)
LEMMA ServerInvInit == Init => ServerInv
<1> SUFFICES ASSUME Init PROVE ServerInv
  OBVIOUS
<1>0. /\ \A c \in Connections : ~Held(c) /\ ~Live(c) /\ accepting[c] = "none"
      /\ \A t \in Threads : frame[t].step = "idle" /\ frame[t].conn = NoConnection
  BY NamesAssumption DEF Init, Held, Live, InMap, Idle
<1>1. TypeOK
  BY TypeOKInit
<1>2. NewInv
  BY <1>0 DEF NewInv, At, IsNew, NewSteps
<1>3. PeerInv
  BY <1>0 DEF PeerInv, At
<1>4. AcceptorInv
  BY <1>0 DEF Init, AcceptorInv, At
<1>5. OneLoop
  BY <1>0 DEF Init, OneLoop, InLoop, LoopSteps, NewSteps
<1>6. InsertInv /\ LiveConnectionKnown /\ StopLeavesOnlyLate
  BY <1>0 DEF InsertInv, LiveConnectionKnown, StopLeavesOnlyLate
<1> QED BY <1>1, <1>2, <1>3, <1>4, <1>5, <1>6 DEF ServerInv

(* Every step keeps it.                                                     *)
LEMMA ServerInvStep == ServerInv /\ [Next]_vars => ServerInv'
<1> SUFFICES ASSUME ServerInv, [Next]_vars PROVE ServerInv'
  OBVIOUS
<1>1. TypeOK /\ NewInv /\ PeerInv /\ AcceptorInv
  BY DEF ServerInv
<1>2. TypeOK' /\ NewInv' /\ PeerInv' /\ AcceptorInv'
  BY <1>1, TypeOKStep, NewInvStep, PeerInvStep, AcceptorInvStep
<1>3. ASSUME starts' <= 1
      PROVE  OneLoop' /\ InsertInv' /\ LiveConnectionKnown' /\ StopLeavesOnlyLate'
  <2>1. starts <= 1
    BY <1>1, <1>3, AcceptorStep DEF TypeOK
  <2>2. OneLoop /\ InsertInv /\ LiveConnectionKnown /\ StopLeavesOnlyLate
    BY <2>1 DEF ServerInv
  <2> QED BY <1>1, <1>3, <2>2, OneLoopStep, InsertInvStep, KnownStep, LateStep
<1> QED BY <1>2, <1>3 DEF ServerInv

(* The invariant holds.                                                     *)
THEOREM ServerInvHolds == Spec => []ServerInv
BY ServerInvInit, ServerInvStep, PTL DEF Spec

(* Until the application calls start() a second time, connections_ knows    *)
(* every accepted connection whose peer is there, however peers come back   *)
(* from the same address, writes fail and stop() interferes.                *)
THEOREM LiveConnectionKnownHolds == Spec => [](starts <= 1 => LiveConnectionKnown)
<1>1. ServerInv => (starts <= 1 => LiveConnectionKnown)
  BY DEF ServerInv
<1> QED BY <1>1, ServerInvHolds, PTL

(* Until then, a connection that survives stop() was between the kernel and *)
(* the map when stop() cleared connections_.                                *)
THEOREM StopLeavesOnlyLateHolds == Spec => [](starts <= 1 => StopLeavesOnlyLate)
<1>1. ServerInv => (starts <= 1 => StopLeavesOnlyLate)
  BY DEF ServerInv
<1> QED BY <1>1, ServerInvHolds, PTL
=============================================================================
