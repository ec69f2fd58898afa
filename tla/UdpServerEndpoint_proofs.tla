---------------------- MODULE UdpServerEndpoint_proofs ----------------------
(***************************************************************************)
(* Theorems about UdpServerEndpoint, for any sets of threads and any       *)
(* bounds.                                                                 *)
(***************************************************************************)
EXTENDS UdpServerEndpoint, FiniteSetTheorems, TLAPS

Pendings == [Callbacks -> Nat]
Readies == [Callbacks -> [Results -> Nat]]

(* The operators on the tables keep the counts natural numbers and change   *)
(* the entries they name, no other.  StartOp adds one operation to its entry.*)
LEMMA StartOpLemma ==
    ASSUME NEW p \in Pendings, NEW c \in Callbacks
    PROVE  /\ StartOp(p, c) \in Pendings
           /\ StartOp(p, c)[c] = p[c] + 1
           /\ \A d \in Callbacks : d # c => StartOp(p, c)[d] = p[d]
BY DEF Pendings, StartOp

(* EndOp takes one operation from its entry.                                *)
LEMMA EndOpLemma ==
    ASSUME NEW p \in Pendings, NEW c \in Callbacks, p[c] > 0
    PROVE  /\ EndOp(p, c) \in Pendings
           /\ EndOp(p, c)[c] = p[c] - 1
           /\ \A d \in Callbacks : d # c => EndOp(p, c)[d] = p[d]
BY DEF Pendings, EndOp

(* Post adds one completion to its entry.                                   *)
LEMMA PostLemma ==
    ASSUME NEW q \in Readies, NEW c \in Callbacks, NEW r \in Results
    PROVE  /\ Post(q, c, r) \in Readies
           /\ Post(q, c, r)[c][r] = q[c][r] + 1
           /\ \A s \in Results : s # r => Post(q, c, r)[c][s] = q[c][s]
           /\ \A d \in Callbacks : d # c => Post(q, c, r)[d] = q[d]
BY DEF Readies, Post

(* Take removes one completion from its entry.                              *)
LEMMA TakeLemma ==
    ASSUME NEW q \in Readies, NEW c \in Callbacks, NEW r \in Results, q[c][r] > 0
    PROVE  /\ Take(q, c, r) \in Readies
           /\ Take(q, c, r)[c][r] = q[c][r] - 1
           /\ \A s \in Results : s # r => Take(q, c, r)[c][s] = q[c][s]
           /\ \A d \in Callbacks : d # c => Take(q, c, r)[d] = q[d]
BY DEF Readies, Take

(* Closing the socket turns every pending operation into an aborted one.    *)
LEMMA CloseLemma ==
    ASSUME NEW p \in Pendings, NEW q \in Readies
    PROVE  /\ NonePending(p) \in Pendings
           /\ \A c \in Callbacks : NonePending(p)[c] = 0
           /\ Aborted(p, q) \in Readies
           /\ \A c \in Callbacks : Aborted(p, q)[c]["aborted"] = q[c]["aborted"] + p[c]
           /\ \A c \in Callbacks, r \in Results \ {"aborted"} : Aborted(p, q)[c][r] = q[c][r]
BY DEF Pendings, Readies, NonePending, Aborted, Results

-----------------------------------------------------------------------------
(***************************************************************************)
(* Type correctness.                                                       *)
(***************************************************************************)

(* receive_unicast starts one operation, or none on a closed socket.       *)
LEMMA ReceiveLemma ==
    ASSUME TypeOK, receive_unicast
    PROVE  /\ pending' \in Pendings /\ ready' = ready /\ open' = open
           /\ pending'["receive"] = IF open THEN pending["receive"] + 1
                                            ELSE pending["receive"]
<1>1. "receive" \in Callbacks /\ pending \in Pendings
  BY DEF Callbacks, TypeOK, Pendings
<1> QED BY <1>1, StartOpLemma DEF receive_unicast

(* Going to a step changes one frame.                                      *)
LEMMA GotoLemma ==
    ASSUME TypeOK, NEW t \in Threads, NEW s \in Steps, Goto(t, s)
    PROVE  /\ frame' \in [Threads -> Steps]
           /\ frame'[t] = s
           /\ \A u \in Threads : u # t => frame'[u] = frame[u]
BY DEF TypeOK, Goto

(* The constructed server has the types.                                    *)
LEMMA TypeOKInit == Init => TypeOK
<1> SUFFICES ASSUME Init PROVE TypeOK
  OBVIOUS
<1>1. ready \in [Callbacks -> [Results -> Nat]]
  BY DEF Init
<1>2. pending \in [Callbacks -> Nat] /\ frame \in [Threads -> Steps]
  BY DEF Init, Steps
<1> QED BY <1>1, <1>2 DEF Init, TypeOK

(* No step leaves the types: a worker runs only callbacks that are queued,  *)
(* the kernel ends only operations that are pending.                        *)
LEMMA TypeOKStep == TypeOK /\ [Next]_vars => TypeOK'
<1> SUFFICES ASSUME TypeOK, [Next]_vars
             PROVE  TypeOK'
  OBVIOUS
<1>0. /\ pending \in Pendings /\ ready \in Readies
      /\ open \in BOOLEAN /\ starts \in Nat /\ stopped \in BOOLEAN /\ lateMessages \in Nat
      /\ frame \in [Threads -> Steps]
      /\ \A w \in Workers : w \in Threads
      /\ \A t \in Callers : t \in Threads
  BY DEF TypeOK, Pendings, Readies, Threads
<1>a. /\ "receive" \in Callbacks /\ "send" \in Callbacks
      /\ "error" \in Results /\ "done" \in Results
  BY DEF Callbacks, Results
<1>b. /\ "idle" \in Steps /\ "on_unicast_received" \in Steps
      /\ "on_message_received" \in Steps /\ "receive_unicast" \in Steps
      /\ "stop.multicast" \in Steps
  BY DEF Steps, LoopSteps
<1>c. ASSUME pending' \in Pendings, ready' \in Readies, frame' \in [Threads -> Steps],
             open' \in BOOLEAN, starts' \in Nat, stopped' \in BOOLEAN, lateMessages' \in Nat
      PROVE  TypeOK'
  BY <1>c DEF TypeOK, Pendings, Readies
<1>1. ASSUME NEW w \in Workers, NEW r \in Results, on_unicast_received(w, r)
      PROVE  TypeOK'
  <2>1. ready' \in Readies
    BY <1>0, <1>a, <1>1, TakeLemma DEF on_unicast_received
  <2>2. frame' \in [Threads -> Steps]
    BY <1>0, <1>b, <1>1, GotoLemma DEF on_unicast_received
  <2> QED BY <1>0, <1>1, <1>c, <2>1, <2>2 DEF on_unicast_received, historyVars
<1>2. ASSUME NEW w \in Workers, NEW r \in Results, send_cbk(w, r)
      PROVE  TypeOK'
  <2>1. ready' \in Readies
    BY <1>0, <1>a, <1>2, TakeLemma DEF send_cbk
  <2> QED BY <1>0, <1>2, <1>c, <2>1 DEF send_cbk, historyVars
<1>3. ASSUME NEW w \in Workers, lock_multicast_mutex(w)
      PROVE  TypeOK'
  <2>1. frame' \in [Threads -> Steps]
    BY <1>0, <1>b, <1>3, GotoLemma DEF lock_multicast_mutex
  <2> QED BY <1>0, <1>3, <1>c, <2>1 DEF lock_multicast_mutex, opVars
<1>4. ASSUME NEW w \in Workers, on_message_received(w)
      PROVE  TypeOK'
  <2>1. frame' \in [Threads -> Steps]
    BY <1>0, <1>b, <1>4, GotoLemma DEF on_message_received
  <2> QED BY <1>0, <1>4, <1>c, <2>1 DEF on_message_received, opVars, historyVars
<1>5. ASSUME NEW w \in Workers, receive_again(w)
      PROVE  TypeOK'
  <2>1. frame' \in [Threads -> Steps]
    BY <1>0, <1>b, <1>5, GotoLemma DEF receive_again
  <2> QED BY <1>0, <1>5, <1>c, <2>1, ReceiveLemma DEF receive_again, historyVars
<1>6. ASSUME NEW t \in Callers, start(t)
      PROVE  TypeOK'
  BY <1>0, <1>6, <1>c, ReceiveLemma DEF start
<1>7. ASSUME NEW t \in Callers, send_data(t)
      PROVE  TypeOK'
  <2>1. pending' \in Pendings /\ ready' \in Readies
    BY <1>0, <1>a, <1>7, StartOpLemma, PostLemma DEF send_data
  <2> QED BY <1>0, <1>7, <1>c, <2>1 DEF send_data, historyVars
<1>8. ASSUME NEW t \in Callers, stop(t)
      PROVE  TypeOK'
  <2>1. pending' \in Pendings /\ ready' \in Readies
    BY <1>0, <1>8, CloseLemma DEF stop
  <2>2. frame' \in [Threads -> Steps]
    BY <1>0, <1>b, <1>8, GotoLemma DEF stop
  <2> QED BY <1>0, <1>8, <1>c, <2>1, <2>2 DEF stop, historyVars
<1>9. ASSUME NEW t \in Callers, stop_multicast(t)
      PROVE  TypeOK'
  <2>1. frame' \in [Threads -> Steps]
    BY <1>0, <1>b, <1>9, GotoLemma DEF stop_multicast
  <2> QED BY <1>0, <1>9, <1>c, <2>1 DEF stop_multicast, opVars
<1>10. ASSUME NEW c \in Callbacks, OpDone(c)
       PROVE  TypeOK'
  <2>1. pending' \in Pendings /\ ready' \in Readies
    BY <1>0, <1>a, <1>10, EndOpLemma, PostLemma DEF OpDone
  <2> QED BY <1>0, <1>10, <1>c, <2>1 DEF OpDone, historyVars
<1>11. CASE UNCHANGED vars
  BY <1>0, <1>11, <1>c DEF vars, opVars, historyVars
<1> QED BY <1>1, <1>2, <1>3, <1>4, <1>5, <1>6, <1>7, <1>8, <1>9, <1>10, <1>11
        DEF Next, Worker, Loop, Caller

(* The variables keep their types: in particular no callback runs for an    *)
(* operation that was not started.                                          *)
THEOREM UdpServerTypeCorrect == Spec => []TypeOK
BY TypeOKInit, TypeOKStep, PTL DEF Spec

-----------------------------------------------------------------------------
(***************************************************************************)
(* The message is not overwritten.  A server started once has one receive, *)
(* and it is in one place: in the reactor, in the queue, with a worker, or *)
(* given up.                                                               *)
(***************************************************************************)
NotQueued == \A r \in Results : ready["receive"][r] = 0

GivenUp   == pending["receive"] = 0 /\ NotQueued /\ ~LoopStep
InReactor == pending["receive"] = 1 /\ NotQueued /\ ~LoopStep
InQueue   == /\ pending["receive"] = 0
             /\ \E r \in Results : /\ ready["receive"][r] = 1
                                  /\ \A s \in Results : s # r => ready["receive"][s] = 0
             /\ ~LoopStep
WithWorker(w) == /\ pending["receive"] = 0
                 /\ NotQueued
                 /\ frame[w] \in LoopSteps
                 /\ \A v \in Workers : v # w => frame[v] \notin LoopSteps
OnePlace == GivenUp \/ InReactor \/ InQueue \/ \E w \in Workers : WithWorker(w)
OneLoop == (starts = 0 => GivenUp) /\ (starts = 1 => OnePlace)

(* A step that leaves the receive and the workers' loop steps alone leaves  *)
(* the receive where it is.                                                 *)
LEMMA SamePlace ==
    ASSUME OneLoop, starts' = starts, pending'["receive"] = pending["receive"],
           ready'["receive"] = ready["receive"],
           \A w \in Workers : frame'[w] = frame[w]
    PROVE  OneLoop'
<1>1. LoopStep' <=> LoopStep
  BY DEF LoopStep
<1>2. GivenUp => GivenUp'
  BY <1>1 DEF GivenUp, NotQueued
<1>3. InReactor => InReactor'
  BY <1>1 DEF InReactor, NotQueued
<1>4. InQueue => InQueue'
  BY <1>1 DEF InQueue
<1>5. ASSUME NEW w \in Workers, WithWorker(w) PROVE WithWorker(w)'
  BY <1>5 DEF WithWorker, NotQueued
<1> QED BY <1>2, <1>3, <1>4, <1>5 DEF OneLoop, OnePlace

(* No step of a server started once makes a second receive or loses count   *)
(* of the one it has.                                                       *)
LEMMA OneLoopStep == TypeOK /\ OneLoop /\ [Next]_vars => OneLoop'
<1> SUFFICES ASSUME TypeOK, OneLoop, [Next]_vars
             PROVE  OneLoop'
  OBVIOUS
<1>0. /\ pending \in Pendings /\ ready \in Readies /\ starts \in Nat
      /\ frame \in [Threads -> Steps]
      /\ \A w \in Workers : w \in Threads
      /\ \A t \in Callers : t \in Threads /\ t \notin Workers
      /\ pending["receive"] \in Nat
  BY ThreadsAssumption DEF TypeOK, Pendings, Readies, Threads, Callbacks
<1>a. /\ "receive" \in Callbacks /\ "send" \in Callbacks
      /\ "error" \in Results /\ "done" \in Results /\ "aborted" \in Results
  BY DEF Callbacks, Results
<1>b. \A r \in Results : ready["receive"][r] \in Nat
  BY <1>0, <1>a DEF Readies
(* A worker that is inside the loop has the receive.                       *)
<1>c. ASSUME NEW w \in Workers, frame[w] \in LoopSteps, starts \in {0, 1}
      PROVE  WithWorker(w) /\ starts = 1
  <2>1. LoopStep
    BY <1>c DEF LoopStep
  <2>2. PICK v \in Workers : WithWorker(v) /\ starts = 1
    BY <1>c, <2>1 DEF OneLoop, OnePlace, GivenUp, InReactor, InQueue
  <2> QED BY <1>c, <2>2 DEF WithWorker
<1>1. ASSUME NEW w \in Workers, NEW r \in Results, on_unicast_received(w, r)
      PROVE  OneLoop'
  <2>1. /\ ready["receive"][r] > 0 /\ ready' = Take(ready, "receive", r)
        /\ frame[w] = "idle" /\ UNCHANGED <<pending, starts>>
        /\ \A v \in Workers : v # w => frame'[v] = frame[v]
    BY <1>0, <1>1 DEF on_unicast_received, At, Goto, historyVars
  <2>2. frame'[w] = IF r = "aborted" THEN "idle" ELSE "on_unicast_received"
    BY <1>0, <1>1 DEF on_unicast_received, Goto
  <2>3. SUFFICES ASSUME starts \in {0, 1} PROVE starts = 1 /\ OnePlace'
    BY <2>1 DEF OneLoop
  <2>4. starts = 1 /\ InQueue
    BY <2>1, <2>3 DEF OneLoop, OnePlace, GivenUp, InReactor, WithWorker, NotQueued
  <2>5. ready["receive"][r] = 1 /\ \A s \in Results : s # r => ready["receive"][s] = 0
    BY <2>1, <2>4 DEF InQueue
  <2>6. pending["receive"] = 0 /\ \A v \in Workers : frame[v] \notin LoopSteps
    BY <2>4 DEF InQueue, LoopStep
  <2>7. NotQueued'
    BY <1>0, <1>a, <2>1, <2>5, TakeLemma DEF NotQueued
  <2>8. CASE r = "aborted"
    <3>1. \A v \in Workers : frame'[v] \notin LoopSteps
      BY <2>1, <2>2, <2>6, <2>8 DEF LoopSteps
    <3>2. GivenUp'
      BY <2>1, <2>6, <2>7, <3>1 DEF GivenUp, LoopStep
    <3> QED BY <2>4, <3>2 DEF OnePlace
  <2>9. CASE r # "aborted"
    <3>1. frame'[w] \in LoopSteps
      BY <2>2, <2>9 DEF LoopSteps
    <3>2. WithWorker(w)'
      BY <2>1, <2>6, <2>7, <3>1 DEF WithWorker
    <3> QED BY <2>4, <3>2 DEF OnePlace
  <2> QED BY <2>8, <2>9
<1>2. ASSUME NEW w \in Workers, NEW r \in Results, send_cbk(w, r)
      PROVE  OneLoop'
  <2>1. ready'["receive"] = ready["receive"]
    BY <1>0, <1>a, <1>2, TakeLemma DEF send_cbk
  <2> QED BY <1>2, <2>1, SamePlace DEF send_cbk, historyVars
<1>3. ASSUME NEW w \in Workers, lock_multicast_mutex(w) \/ on_message_received(w)
      PROVE  OneLoop'
  <2>1. /\ frame[w] \in LoopSteps /\ frame'[w] \in LoopSteps
        /\ UNCHANGED <<pending, ready, starts>>
        /\ \A v \in Workers : v # w => frame'[v] = frame[v]
    BY <1>0, <1>3
       DEF lock_multicast_mutex, on_message_received, At, Goto, LoopSteps, opVars, historyVars
  <2>2. starts \in {0, 1} => WithWorker(w)' /\ starts = 1
    BY <1>c, <2>1 DEF WithWorker, NotQueued
  <2> QED BY <2>1, <2>2 DEF OneLoop, OnePlace
<1>4. ASSUME NEW w \in Workers, receive_again(w)
      PROVE  OneLoop'
  <2>1. /\ frame[w] \in LoopSteps /\ frame'[w] \notin LoopSteps
        /\ starts' = starts /\ receive_unicast
        /\ \A v \in Workers : v # w => frame'[v] = frame[v]
    BY <1>0, <1>4 DEF receive_again, At, Goto, LoopSteps, historyVars
  <2>2. SUFFICES ASSUME starts \in {0, 1} PROVE starts = 1 /\ OnePlace'
    BY <2>1 DEF OneLoop
  <2>3. WithWorker(w) /\ starts = 1
    BY <1>c, <2>1, <2>2
  <2>4. ~LoopStep'
    BY <2>1, <2>3 DEF WithWorker, LoopStep
  <2>5. pending'["receive"] \in {0, 1} /\ ready' = ready
    BY <2>1, <2>3, ReceiveLemma DEF WithWorker
  <2> QED BY <2>3, <2>4, <2>5 DEF WithWorker, NotQueued, OnePlace, GivenUp, InReactor
<1>5. ASSUME NEW t \in Callers, start(t)
      PROVE  OneLoop'
  <2>1. starts' = starts + 1 /\ receive_unicast /\ frame' = frame
    BY <1>5 DEF start
  <2>2. SUFFICES ASSUME starts = 0 PROVE OnePlace'
    BY <1>0, <2>1 DEF OneLoop
  <2>3. GivenUp
    BY <2>2 DEF OneLoop
  <2>4. pending'["receive"] \in {0, 1} /\ ready' = ready
    BY <2>1, <2>3, ReceiveLemma DEF GivenUp
  <2> QED BY <2>1, <2>3, <2>4 DEF OnePlace, GivenUp, InReactor, NotQueued, LoopStep
<1>6. ASSUME NEW t \in Callers, send_data(t)
      PROVE  OneLoop'
  <2>1. pending'["receive"] = pending["receive"] /\ ready'["receive"] = ready["receive"]
    BY <1>0, <1>a, <1>6, StartOpLemma, PostLemma DEF send_data
  <2> QED BY <1>6, <2>1, SamePlace DEF send_data, historyVars
<1>7. ASSUME NEW t \in Callers, stop(t)
      PROVE  OneLoop'
  <2>1. /\ pending'["receive"] = 0
        /\ ready'["receive"]["aborted"] = ready["receive"]["aborted"] + pending["receive"]
        /\ \A r \in Results \ {"aborted"} : ready'["receive"][r] = ready["receive"][r]
        /\ starts' = starts
    BY <1>0, <1>a, <1>7, CloseLemma DEF stop, historyVars
  <2>2. \A v \in Workers : frame'[v] = frame[v]
    BY <1>0, <1>7 DEF stop, Goto
  <2>3. LoopStep' <=> LoopStep
    BY <2>2 DEF LoopStep
  <2>4. pending["receive"] = 0 => ready'["receive"]["aborted"] = ready["receive"]["aborted"]
    BY <1>a, <1>b, <2>1
  <2>5. ASSUME pending["receive"] = 0, NEW r \in Results
        PROVE  ready'["receive"][r] = ready["receive"][r]
    BY <2>1, <2>4, <2>5
  <2>6. GivenUp => GivenUp'
    BY <2>1, <2>3, <2>5 DEF GivenUp, NotQueued
  <2>7. InReactor => InQueue'
    BY <1>a, <2>1, <2>3 DEF InReactor, InQueue, NotQueued
  <2>8. InQueue => InQueue'
    BY <2>1, <2>3, <2>5 DEF InQueue
  <2>9. ASSUME NEW w \in Workers, WithWorker(w) PROVE WithWorker(w)'
    BY <2>1, <2>2, <2>5, <2>9 DEF WithWorker, NotQueued
  <2> QED BY <2>1, <2>6, <2>7, <2>8, <2>9 DEF OneLoop, OnePlace
<1>8. ASSUME NEW t \in Callers, stop_multicast(t)
      PROVE  OneLoop'
  <2>1. \A v \in Workers : frame'[v] = frame[v]
    BY <1>0, <1>8 DEF stop_multicast, Goto
  <2> QED BY <1>8, <2>1, SamePlace DEF stop_multicast, opVars
<1>9. ASSUME NEW c \in Callbacks, OpDone(c)
      PROVE  OneLoop'
  <2>1. PICK r \in Results : ready' = Post(ready, c, r)
    BY <1>a, <1>9 DEF OpDone
  <2>2. /\ pending' = EndOp(pending, c) /\ pending[c] > 0
        /\ UNCHANGED <<starts, frame>>
    BY <1>9 DEF OpDone, historyVars
  <2>a. /\ ready'[c][r] = ready[c][r] + 1
        /\ \A s \in Results : s # r => ready'[c][s] = ready[c][s]
        /\ \A d \in Callbacks : d # c => ready'[d] = ready[d]
    BY <1>0, <2>1, PostLemma
  <2>b. /\ pending'[c] = pending[c] - 1
        /\ \A d \in Callbacks : d # c => pending'[d] = pending[d]
    BY <1>0, <2>2, EndOpLemma
  <2>3. CASE c = "receive"
    <3>1. ASSUME starts \in {0, 1} PROVE starts = 1 /\ InReactor
      BY <2>2, <2>3, <3>1 DEF OneLoop, OnePlace, GivenUp, InQueue, WithWorker
    <3>2. ASSUME InReactor PROVE InQueue'
      <4>1. pending'["receive"] = 0
        BY <2>3, <2>b, <3>2 DEF InReactor
      <4>2. /\ ready'["receive"][r] = 1
            /\ \A s \in Results : s # r => ready'["receive"][s] = 0
        BY <2>3, <2>a, <3>2 DEF InReactor, NotQueued
      <4>3. ~LoopStep'
        BY <2>2, <3>2 DEF InReactor, LoopStep
      <4> QED BY <4>1, <4>2, <4>3 DEF InQueue
    <3> QED BY <2>2, <3>1, <3>2 DEF OneLoop, OnePlace
  <2>4. CASE c # "receive"
    BY <1>a, <2>2, <2>4, <2>a, <2>b, SamePlace
  <2> QED BY <2>3, <2>4
<1>10. CASE UNCHANGED vars
  BY <1>10, SamePlace DEF vars, opVars, historyVars
<1> QED BY <1>1, <1>2, <1>3, <1>4, <1>5, <1>6, <1>7, <1>8, <1>9, <1>10
        DEF Next, Worker, Loop, Caller

(* The one receive buffer is never written while a worker reads it, in a    *)
(* server that was started once.                                            *)
THEOREM MessageNotOverwrittenHolds == Spec => []MessageNotOverwritten
<1>1. Init => OneLoop
  BY DEF Init, OneLoop, GivenUp, NotQueued, LoopStep, LoopSteps, Callbacks, Threads
<1>2. TypeOK /\ OneLoop => MessageNotOverwritten
  <2> SUFFICES ASSUME TypeOK, OneLoop, starts <= 1, NEW w \in Workers,
                      At(w, "on_message_received")
               PROVE  pending["receive"] = 0
    BY DEF MessageNotOverwritten
  <2>1. starts \in {0, 1}
    BY DEF TypeOK
  <2>2. LoopStep
    BY DEF LoopStep, At, LoopSteps
  <2> QED BY <2>1, <2>2
          DEF OneLoop, OnePlace, GivenUp, InReactor, InQueue, WithWorker
<1> QED BY <1>1, <1>2, TypeOKInit, TypeOKStep, OneLoopStep, PTL DEF Spec

-----------------------------------------------------------------------------
(***************************************************************************)
(* A stopped server falls silent.                                          *)
(*                                                                         *)
(* Each call of start() gives at most one receive loop.  A loop owes a     *)
(* message while a receive of it is pending, its completion is queued      *)
(* without an abort, or a worker has it and waits for the mutex; once the  *)
(* message is handled the loop owes one again only if the socket is open.  *)
(* The socket of a server is never opened again, so that on a closed one   *)
(* the messages owed and the late ones together never grow.                *)
(***************************************************************************)
Received == {"on_unicast_received"}
Handling == {"on_message_received", "receive_unicast"}

(* The number of workers that are at one of the given steps.               *)
Inside(S) == Cardinality({w \in Workers : frame[w] \in S})

Completed == ready["receive"]["done"] + ready["receive"]["error"]
Owed == pending["receive"] + Completed + Inside(Received)

SilentInv ==
    /\ stopped => ~open
    /\ \A t \in Callers : frame[t] = "stop.multicast" => ~open
    /\ open => lateMessages = 0 /\ Owed + Inside(Handling) <= starts
    /\ ~open => lateMessages + Owed <= starts

(* The workers at a step are finitely many, before and after a step.       *)
LEMMA InsideNat ==
    ASSUME NEW S
    PROVE  /\ Inside(S) \in Nat /\ Inside(S)' \in Nat
           /\ IsFiniteSet({w \in Workers : frame[w] \in S})
<1>1. ASSUME NEW T \in SUBSET Workers
      PROVE  IsFiniteSet(T) /\ Cardinality(T) \in Nat
  BY ThreadsAssumption, FS_Subset, FS_CardinalityType
<1>2. /\ {w \in Workers : frame[w] \in S} \in SUBSET Workers
      /\ {w \in Workers : frame'[w] \in S} \in SUBSET Workers
  OBVIOUS
<1> QED BY <1>1, <1>2 DEF Inside

(* A worker that goes from one step to another is counted out and in.       *)
LEMMA InsideGoto ==
    ASSUME TypeOK, NEW w \in Workers, NEW step, Goto(w, step), NEW S
    PROVE  Inside(S)' = IF step \in S /\ frame[w] \notin S THEN Inside(S) + 1
                        ELSE IF step \notin S /\ frame[w] \in S THEN Inside(S) - 1
                        ELSE Inside(S)
<1> DEFINE A == {v \in Workers : frame[v] \in S}
           B == {v \in Workers : frame'[v] \in S}
<1>0. /\ IsFiniteSet(A) /\ Inside(S) = Cardinality(A) /\ Inside(S)' = Cardinality(B)
  BY InsideNat DEF Inside
<1>1. frame'[w] = step /\ \A v \in Workers : v # w => frame'[v] = frame[v]
  BY DEF TypeOK, Goto, Threads
<1>2. CASE step \in S /\ frame[w] \notin S
  <2>1. B = A \cup {w} /\ w \notin A
    BY <1>1, <1>2
  <2> HIDE DEF A, B
  <2> QED BY <1>0, <1>2, <2>1, FS_AddElement
<1>3. CASE step \notin S /\ frame[w] \in S
  <2>1. B = A \ {w} /\ w \in A
    BY <1>1, <1>3
  <2> HIDE DEF A, B
  <2> QED BY <1>0, <1>3, <2>1, FS_RemoveElement
<1>4. CASE step \in S <=> frame[w] \in S
  <2>1. B = A
    BY <1>1, <1>4
  <2> HIDE DEF A, B
  <2> QED BY <1>0, <1>4, <2>1
<1> QED BY <1>2, <1>3, <1>4

(* A step that moves no worker moves none in or out.                        *)
LEMMA InsideKept ==
    ASSUME \A w \in Workers : frame'[w] = frame[w], NEW S
    PROVE  Inside(S)' = Inside(S)
<1>1. {w \in Workers : frame'[w] \in S} = {w \in Workers : frame[w] \in S}
  OBVIOUS
<1> QED BY <1>1 DEF Inside

(* The kernel hands a receive from the reactor to the queue.                *)
LEMMA OpDoneHandsOn ==
    ASSUME TypeOK, NEW c \in Callbacks, OpDone(c)
    PROVE  pending'["receive"] + Completed' = pending["receive"] + Completed
<1>0. /\ pending \in Pendings /\ ready \in Readies
      /\ "receive" \in Callbacks /\ "error" \in Results /\ "done" \in Results
  BY DEF TypeOK, Pendings, Readies, Callbacks, Results
<1>a. /\ pending["receive"] \in Nat
      /\ ready["receive"]["done"] \in Nat /\ ready["receive"]["error"] \in Nat
  BY <1>0 DEF Pendings, Readies
<1>1. pending[c] > 0 /\ pending' = EndOp(pending, c)
  BY DEF OpDone
<1>2. PICK r \in {"done", "error"} : ready' = Post(ready, c, r)
  BY DEF OpDone
<1>3. /\ ready'[c][r] = ready[c][r] + 1
      /\ \A q \in Results : q # r => ready'[c][q] = ready[c][q]
      /\ \A d \in Callbacks : d # c => ready'[d] = ready[d]
  <2>1. r \in Results
    BY <1>0
  <2>2. /\ Post(ready, c, r)[c][r] = ready[c][r] + 1
        /\ \A q \in Results : q # r => Post(ready, c, r)[c][q] = ready[c][q]
        /\ \A d \in Callbacks : d # c => Post(ready, c, r)[d] = ready[d]
    BY <1>0, <2>1, PostLemma
  <2> QED BY <1>2, <2>2
<1>4. CASE c = "receive"
  <2>1. pending'["receive"] = pending["receive"] - 1
    BY <1>0, <1>1, <1>4, EndOpLemma
  <2>2. Completed' = Completed + 1
    BY <1>0, <1>a, <1>3, <1>4 DEF Completed
  <2> QED BY <1>a, <2>1, <2>2 DEF Completed
<1>5. CASE c # "receive"
  <2>1. pending'["receive"] = pending["receive"]
    BY <1>0, <1>1, <1>5, EndOpLemma
  <2>2. ready'["receive"] = ready["receive"]
    BY <1>0, <1>3, <1>5
  <2> QED BY <2>1, <2>2 DEF Completed
<1> QED BY <1>4, <1>5

(* What is owed, and the late messages, are exchanged one for one.          *)
LEMMA SilentStep == TypeOK /\ SilentInv /\ [Next]_vars => SilentInv'
<1> SUFFICES ASSUME TypeOK, SilentInv, [Next]_vars
             PROVE  SilentInv'
  OBVIOUS
<1>0. /\ pending \in Pendings /\ ready \in Readies /\ starts \in Nat
      /\ lateMessages \in Nat /\ open \in BOOLEAN /\ stopped \in BOOLEAN
      /\ frame \in [Threads -> Steps]
      /\ \A w \in Workers : w \in Threads
      /\ \A t \in Callers : t \in Threads /\ t \notin Workers
      /\ "receive" \in Callbacks /\ "send" \in Callbacks /\ "send" # "receive"
      /\ "error" \in Results /\ "done" \in Results /\ "aborted" \in Results
  BY ThreadsAssumption DEF TypeOK, Pendings, Readies, Threads, Callbacks, Results
<1>a. /\ pending["receive"] \in Nat
      /\ ready["receive"]["done"] \in Nat /\ ready["receive"]["error"] \in Nat
      /\ Inside(Received) \in Nat /\ Inside(Handling) \in Nat
      /\ Inside(Received)' \in Nat /\ Inside(Handling)' \in Nat
  BY <1>0, InsideNat DEF Pendings, Readies
<1>b. ASSUME NEW w \in Workers, NEW s, Goto(w, s)
      PROVE  \A t \in Callers : frame'[t] = frame[t]
  BY <1>0, <1>b DEF Goto
<1>1. ASSUME NEW w \in Workers, NEW r \in Results, on_unicast_received(w, r)
      PROVE  SilentInv'
  <2>0. /\ frame[w] = "idle" /\ UNCHANGED <<open, pending, starts, stopped, lateMessages>>
        /\ ready' = Take(ready, "receive", r) /\ ready["receive"][r] > 0
    BY <1>1 DEF on_unicast_received, historyVars, At
  <2>1. CASE r = "aborted"
    <3>1. Completed' = Completed
      BY <1>0, <2>0, <2>1, TakeLemma DEF Completed
    <3>2. Goto(w, "idle")
      BY <1>1, <2>1 DEF on_unicast_received
    <3>3. Inside(Received)' = Inside(Received) /\ Inside(Handling)' = Inside(Handling)
      BY <2>0, <3>2, InsideGoto DEF Received, Handling
    <3>4. \A t \in Callers : frame'[t] = frame[t]
      BY <3>2, <1>b
    <3> QED BY <2>0, <3>1, <3>3, <3>4 DEF SilentInv, Owed
  <2>2. CASE r # "aborted"
    <3>1. Completed' = Completed - 1
      BY <1>0, <1>a, <2>0, <2>2, TakeLemma DEF Completed, Results
    <3>2. Goto(w, "on_unicast_received")
      BY <1>1, <2>2 DEF on_unicast_received
    <3>3. Inside(Received)' = Inside(Received) + 1 /\ Inside(Handling)' = Inside(Handling)
      BY <2>0, <3>2, InsideGoto DEF Received, Handling
    <3>4. \A t \in Callers : frame'[t] = frame[t]
      BY <3>2, <1>b
    <3>5. Owed' = Owed
      BY <1>a, <2>0, <3>1, <3>3 DEF Owed, Completed
    <3> QED BY <2>0, <3>3, <3>4, <3>5 DEF SilentInv
  <2> QED BY <2>1, <2>2
<1>2. ASSUME NEW w \in Workers, NEW r \in Results, send_cbk(w, r)
      PROVE  SilentInv'
  <2>1. ready'["receive"] = ready["receive"]
    BY <1>0, <1>2, TakeLemma DEF send_cbk
  <2>2. UNCHANGED <<open, pending, frame, starts, stopped, lateMessages>>
    BY <1>2 DEF send_cbk, historyVars
  <2>3. Inside(Received)' = Inside(Received) /\ Inside(Handling)' = Inside(Handling)
    BY <2>2, InsideKept
  <2> QED BY <2>1, <2>2, <2>3 DEF SilentInv, Owed, Completed
<1>3. ASSUME NEW w \in Workers, lock_multicast_mutex(w)
      PROVE  SilentInv'
  <2>0. /\ frame[w] = "on_unicast_received" /\ Goto(w, "on_message_received")
        /\ UNCHANGED <<open, pending, ready, starts, stopped>>
        /\ lateMessages' = IF stopped THEN lateMessages + 1 ELSE lateMessages
    BY <1>3 DEF lock_multicast_mutex, opVars, At
  <2>1. /\ Inside(Received)' = Inside(Received) - 1
        /\ Inside(Handling)' = Inside(Handling) + 1
    BY <2>0, InsideGoto DEF Received, Handling
  <2>2. Owed' = Owed - 1 /\ Owed \in Nat
    BY <1>a, <2>0, <2>1 DEF Owed, Completed
  <2>3. \A t \in Callers : frame'[t] = frame[t]
    BY <2>0, <1>b
  <2>4. lateMessages' = lateMessages \/ (~open /\ lateMessages' = lateMessages + 1)
    BY <2>0 DEF SilentInv
  <2>5. /\ open => lateMessages' = 0 /\ Owed' + Inside(Handling)' <= starts
        /\ ~open => lateMessages' + Owed' <= starts
    BY <1>0, <1>a, <2>1, <2>2, <2>4 DEF SilentInv
  <2> QED BY <2>0, <2>3, <2>5 DEF SilentInv
<1>4. ASSUME NEW w \in Workers, on_message_received(w)
      PROVE  SilentInv'
  <2>0. /\ frame[w] = "on_message_received" /\ Goto(w, "receive_unicast")
        /\ UNCHANGED <<open, pending, ready, starts, stopped, lateMessages>>
    BY <1>4 DEF on_message_received, opVars, historyVars, At
  <2>1. Inside(Received)' = Inside(Received) /\ Inside(Handling)' = Inside(Handling)
    BY <2>0, InsideGoto DEF Received, Handling
  <2>2. \A t \in Callers : frame'[t] = frame[t]
    BY <2>0, <1>b
  <2> QED BY <2>0, <2>1, <2>2 DEF SilentInv, Owed, Completed
<1>5. ASSUME NEW w \in Workers, receive_again(w)
      PROVE  SilentInv'
  <2>0. /\ frame[w] = "receive_unicast" /\ Goto(w, "idle") /\ receive_unicast
        /\ UNCHANGED <<starts, stopped, lateMessages>>
    BY <1>5 DEF receive_again, historyVars, At
  <2>1. Inside(Received)' = Inside(Received) /\ Inside(Handling)' = Inside(Handling) - 1
    BY <2>0, InsideGoto DEF Received, Handling
  <2>2. \A t \in Callers : frame'[t] = frame[t]
    BY <2>0, <1>b
  <2>3. /\ UNCHANGED <<open, ready>>
        /\ pending'["receive"] = IF open THEN pending["receive"] + 1 ELSE pending["receive"]
    BY <2>0, ReceiveLemma
  <2>4. Owed' = (IF open THEN Owed + 1 ELSE Owed) /\ Owed \in Nat
    BY <1>a, <2>1, <2>3 DEF Owed, Completed
  <2>5. /\ open => lateMessages' = 0 /\ Owed' + Inside(Handling)' <= starts
        /\ ~open => lateMessages' + Owed' <= starts
    BY <1>0, <1>a, <2>0, <2>1, <2>4 DEF SilentInv
  <2> QED BY <2>0, <2>2, <2>3, <2>5 DEF SilentInv
<1>6. ASSUME NEW t \in Callers, start(t)
      PROVE  SilentInv'
  <2>0. receive_unicast /\ starts' = starts + 1 /\ UNCHANGED <<frame, stopped, lateMessages>>
    BY <1>6 DEF start
  <2>1. Inside(Received)' = Inside(Received) /\ Inside(Handling)' = Inside(Handling)
    BY <2>0, InsideKept
  <2>2. /\ UNCHANGED <<open, ready>>
        /\ pending'["receive"] = IF open THEN pending["receive"] + 1 ELSE pending["receive"]
    BY <2>0, ReceiveLemma
  <2>3. Owed' = (IF open THEN Owed + 1 ELSE Owed) /\ Owed \in Nat
    BY <1>a, <2>1, <2>2 DEF Owed, Completed
  <2>4. /\ open => lateMessages' = 0 /\ Owed' + Inside(Handling)' <= starts'
        /\ ~open => lateMessages' + Owed' <= starts'
    BY <1>0, <1>a, <2>0, <2>1, <2>3 DEF SilentInv
  <2> QED BY <2>0, <2>2, <2>4 DEF SilentInv
<1>7. ASSUME NEW t \in Callers, send_data(t)
      PROVE  SilentInv'
  <2>1. pending'["receive"] = pending["receive"] /\ ready'["receive"] = ready["receive"]
    BY <1>0, <1>7, StartOpLemma, PostLemma DEF send_data
  <2>2. UNCHANGED <<open, frame, starts, stopped, lateMessages>>
    BY <1>7 DEF send_data, historyVars
  <2>3. Inside(Received)' = Inside(Received) /\ Inside(Handling)' = Inside(Handling)
    BY <2>2, InsideKept
  <2> QED BY <2>1, <2>2, <2>3 DEF SilentInv, Owed, Completed
<1>8. ASSUME NEW t \in Callers, stop(t)
      PROVE  SilentInv'
  <2>0. /\ open' = FALSE /\ pending' = NonePending(pending) /\ ready' = Aborted(pending, ready)
        /\ Goto(t, "stop.multicast") /\ UNCHANGED <<starts, stopped, lateMessages>>
    BY <1>8 DEF stop, historyVars
  <2>1. pending'["receive"] = 0 /\ Completed' = Completed
    BY <1>0, <2>0, CloseLemma DEF Completed
  <2>2. \A w \in Workers : frame'[w] = frame[w]
    BY <1>0, <2>0 DEF Goto
  <2>3. Inside(Received)' = Inside(Received)
    BY <2>2, InsideKept
  <2>4. Owed' <= Owed /\ Owed' \in Nat /\ Owed \in Nat
    BY <1>a, <2>1, <2>3 DEF Owed, Completed
  <2>5. lateMessages + Owed <= starts
    BY <1>0, <1>a, <2>4 DEF SilentInv
  <2>6. lateMessages + Owed' <= starts
    <3>1. \A m, n, o, k \in Nat : m <= n /\ k + n <= o => k + m <= o
      OBVIOUS
    <3> QED BY <1>0, <2>4, <2>5, <3>1
  <2>7. lateMessages' + Owed' <= starts'
    BY <2>0, <2>6
  <2> QED BY <2>0, <2>7 DEF SilentInv
<1>9. ASSUME NEW t \in Callers, stop_multicast(t)
      PROVE  SilentInv'
  <2>0. /\ frame[t] = "stop.multicast" /\ Goto(t, "idle")
        /\ UNCHANGED <<open, pending, ready, starts, lateMessages>>
    BY <1>9 DEF stop_multicast, opVars, At
  <2>1. \A w \in Workers : frame'[w] = frame[w]
    BY <1>0, <2>0 DEF Goto
  <2>2. Inside(Received)' = Inside(Received) /\ Inside(Handling)' = Inside(Handling)
    BY <2>1, InsideKept
  <2>3. ~open
    BY <2>0 DEF SilentInv
  <2> QED BY <2>0, <2>2, <2>3 DEF SilentInv, Owed, Completed
<1>10. ASSUME NEW c \in Callbacks, OpDone(c)
       PROVE  SilentInv'
  <2>0. /\ pending[c] > 0 /\ pending' = EndOp(pending, c)
        /\ UNCHANGED <<open, frame, starts, stopped, lateMessages>>
    BY <1>10 DEF OpDone, historyVars
  <2>2. Inside(Received)' = Inside(Received) /\ Inside(Handling)' = Inside(Handling)
    BY <2>0, InsideKept
  <2>3. pending'["receive"] + Completed' = pending["receive"] + Completed
    BY <1>10, OpDoneHandsOn
  <2>4. Owed' = Owed
    BY <2>2, <2>3 DEF Owed
  <2> QED BY <2>0, <2>2, <2>4 DEF SilentInv
<1>11. CASE UNCHANGED vars
  <2>1. Inside(Received)' = Inside(Received) /\ Inside(Handling)' = Inside(Handling)
    BY <1>11, InsideKept DEF vars
  <2> QED BY <1>11, <2>1 DEF vars, opVars, historyVars, SilentInv, Owed, Completed
<1> QED BY <1>1, <1>2, <1>3, <1>4, <1>5, <1>6, <1>7, <1>8, <1>9, <1>10, <1>11
        DEF Next, Worker, Loop, Caller

(* After stop() each receive loop handles at most the message it had        *)
(* received before, for any number of workers and of calls of start().      *)
THEOREM StoppedFallsSilentHolds == Spec => []StoppedFallsSilent
<1>1. Init => SilentInv
  <2> SUFFICES ASSUME Init
               PROVE  SilentInv
    OBVIOUS
  <2>1. /\ pending["receive"] = 0 /\ ready["receive"]["done"] = 0
        /\ ready["receive"]["error"] = 0
    BY DEF Init, Callbacks, Results
  <2>2. /\ {w \in Workers : frame[w] \in Received} = {}
        /\ {w \in Workers : frame[w] \in Handling} = {}
    BY DEF Init, Threads, Received, Handling
  <2>3. Inside(Received) = 0 /\ Inside(Handling) = 0
    BY <2>2, FS_EmptySet DEF Inside
  <2>4. Owed = 0
    BY <2>1, <2>3 DEF Owed, Completed
  <2> QED BY <2>3, <2>4 DEF Init, SilentInv, Threads
<1>2. TypeOK /\ SilentInv => StoppedFallsSilent
  <2> SUFFICES ASSUME TypeOK, SilentInv
               PROVE  StoppedFallsSilent
    OBVIOUS
  <2>1. Owed \in Nat /\ starts \in Nat /\ lateMessages \in Nat
    <3>1. "receive" \in Callbacks /\ "done" \in Results /\ "error" \in Results
      BY DEF Callbacks, Results
    <3>2. /\ pending["receive"] \in Nat /\ ready["receive"]["done"] \in Nat
          /\ ready["receive"]["error"] \in Nat
      BY <3>1 DEF TypeOK
    <3>3. Inside(Received) \in Nat
      BY InsideNat
    <3>4. Owed \in Nat
      BY <3>2, <3>3 DEF Owed, Completed
    <3> QED BY <3>4 DEF TypeOK
  <2>2. CASE open
    <3>1. lateMessages = 0
      BY <2>2 DEF SilentInv
    <3> QED BY <2>1, <3>1 DEF StoppedFallsSilent
  <2>3. CASE ~open
    <3>1. lateMessages + Owed <= starts
      BY <2>3 DEF SilentInv
    <3> QED BY <2>1, <3>1 DEF StoppedFallsSilent
  <2> QED BY <2>2, <2>3
<1> QED BY <1>1, <1>2, TypeOKInit, TypeOKStep, SilentStep, PTL DEF Spec
-----------------------------------------------------------------------------
(***************************************************************************)
(* Each start() has one loop: a receive in the reactor, in the queue or    *)
(* with a worker, and every step on an open socket hands it on.            *)
(***************************************************************************)
Loops == pending["receive"] + Completed + Inside(LoopSteps)

(* The invariant in these terms.                                            *)
LEMMA LoopsAre == TypeOK => (EachStartOneLoop <=> (open => Loops = starts))
<1> SUFFICES ASSUME TypeOK PROVE EachStartOneLoop <=> (open => Loops = starts)
  OBVIOUS
<1>1. /\ pending["receive"] \in Nat
      /\ ready["receive"]["done"] \in Nat /\ ready["receive"]["error"] \in Nat
  BY DEF TypeOK, Callbacks, Results
<1>2. /\ Inside(LoopSteps) \in Nat
      /\ Inside(LoopSteps) = Cardinality({w \in Workers : frame[w] \in LoopSteps})
  BY InsideNat DEF Inside
<1> QED BY <1>1, <1>2 DEF EachStartOneLoop, Loops, Completed

(* No step on an open socket makes or loses a loop.                         *)
LEMMA LoopsStep ==
    TypeOK /\ (open => Loops = starts) /\ [Next]_vars => (open => Loops = starts)'
<1> SUFFICES ASSUME TypeOK, open => Loops = starts, [Next]_vars, open'
             PROVE  Loops' = starts'
  OBVIOUS
<1>0. /\ pending \in Pendings /\ ready \in Readies /\ starts \in Nat
      /\ frame \in [Threads -> Steps]
      /\ \A w \in Workers : w \in Threads
      /\ \A t \in Callers : t \in Threads /\ t \notin Workers
      /\ "receive" \in Callbacks /\ "send" \in Callbacks /\ "send" # "receive"
      /\ "error" \in Results /\ "done" \in Results /\ "aborted" \in Results
  BY ThreadsAssumption DEF TypeOK, Pendings, Readies, Threads, Callbacks, Results
<1>a. /\ pending["receive"] \in Nat
      /\ ready["receive"]["done"] \in Nat /\ ready["receive"]["error"] \in Nat
      /\ Inside(LoopSteps) \in Nat /\ Inside(LoopSteps)' \in Nat
  BY <1>0, InsideNat DEF Pendings, Readies
<1>1. ASSUME NEW w \in Workers, NEW r \in Results, on_unicast_received(w, r)
      PROVE  Loops' = starts'
  <2>0. /\ frame[w] = "idle" /\ UNCHANGED <<open, pending, starts>>
        /\ ready' = Take(ready, "receive", r) /\ ready["receive"][r] > 0
    BY <1>1 DEF on_unicast_received, historyVars, At
  <2>1. CASE r = "aborted"
    <3>1. Completed' = Completed
      BY <1>0, <2>0, <2>1, TakeLemma DEF Completed
    <3>2. Goto(w, "idle")
      BY <1>1, <2>1 DEF on_unicast_received
    <3>3. Inside(LoopSteps)' = Inside(LoopSteps)
      BY <2>0, <3>2, InsideGoto DEF LoopSteps
    <3> QED BY <2>0, <3>1, <3>3 DEF Loops
  <2>2. CASE r # "aborted"
    <3>1. Completed' = Completed - 1
      BY <1>0, <1>a, <2>0, <2>2, TakeLemma DEF Completed, Results
    <3>2. Goto(w, "on_unicast_received")
      BY <1>1, <2>2 DEF on_unicast_received
    <3>3. Inside(LoopSteps)' = Inside(LoopSteps) + 1
      BY <2>0, <3>2, InsideGoto DEF LoopSteps
    <3> QED BY <1>a, <2>0, <3>1, <3>3 DEF Loops, Completed
  <2> QED BY <2>1, <2>2
<1>2. ASSUME NEW w \in Workers, NEW r \in Results, send_cbk(w, r)
      PROVE  Loops' = starts'
  <2>1. ready'["receive"] = ready["receive"]
    BY <1>0, <1>2, TakeLemma DEF send_cbk
  <2>2. UNCHANGED <<open, pending, frame, starts>>
    BY <1>2 DEF send_cbk, historyVars
  <2>3. Inside(LoopSteps)' = Inside(LoopSteps)
    BY <2>2, InsideKept
  <2> QED BY <2>1, <2>2, <2>3 DEF Loops, Completed
(* A worker that stays inside the loop leaves the count alone.              *)
<1>3. ASSUME NEW w \in Workers, lock_multicast_mutex(w) \/ on_message_received(w)
      PROVE  Loops' = starts'
  <2>1. PICK s \in LoopSteps : Goto(w, s)
    BY <1>3 DEF lock_multicast_mutex, on_message_received, LoopSteps
  <2>2. frame[w] \in LoopSteps /\ UNCHANGED <<opVars, starts>>
    BY <1>3 DEF lock_multicast_mutex, on_message_received, historyVars, LoopSteps, At
  <2>3. Inside(LoopSteps)' = Inside(LoopSteps)
    BY <2>1, <2>2, InsideGoto
  <2> QED BY <2>2, <2>3 DEF Loops, Completed, opVars
<1>4. ASSUME NEW w \in Workers, receive_again(w)
      PROVE  Loops' = starts'
  <2>0. /\ frame[w] = "receive_unicast" /\ Goto(w, "idle") /\ receive_unicast
        /\ starts' = starts
    BY <1>4 DEF receive_again, historyVars, At
  <2>1. Inside(LoopSteps)' = Inside(LoopSteps) - 1
    BY <2>0, InsideGoto DEF LoopSteps
  <2>2. open /\ ready' = ready /\ pending'["receive"] = pending["receive"] + 1
    BY <2>0, ReceiveLemma
  <2> QED BY <1>a, <2>0, <2>1, <2>2 DEF Loops, Completed
<1>5. ASSUME NEW t \in Callers, start(t)
      PROVE  Loops' = starts'
  <2>0. receive_unicast /\ starts' = starts + 1 /\ UNCHANGED frame
    BY <1>5 DEF start
  <2>1. Inside(LoopSteps)' = Inside(LoopSteps)
    BY <2>0, InsideKept
  <2>2. open /\ ready' = ready /\ pending'["receive"] = pending["receive"] + 1
    BY <2>0, ReceiveLemma
  <2> QED BY <1>a, <2>0, <2>1, <2>2 DEF Loops, Completed
<1>6. ASSUME NEW t \in Callers, send_data(t)
      PROVE  Loops' = starts'
  <2>1. pending'["receive"] = pending["receive"] /\ ready'["receive"] = ready["receive"]
    BY <1>0, <1>6, StartOpLemma, PostLemma DEF send_data
  <2>2. UNCHANGED <<open, frame, starts>>
    BY <1>6 DEF send_data, historyVars
  <2>3. Inside(LoopSteps)' = Inside(LoopSteps)
    BY <2>2, InsideKept
  <2> QED BY <2>1, <2>2, <2>3 DEF Loops, Completed
<1>7. ASSUME NEW t \in Callers, stop(t)
      PROVE  Loops' = starts'
  BY <1>7 DEF stop
<1>8. ASSUME NEW t \in Callers, stop_multicast(t)
      PROVE  Loops' = starts'
  <2>0. UNCHANGED <<opVars, starts>> /\ \A w \in Workers : frame'[w] = frame[w]
    BY <1>0, <1>8 DEF stop_multicast, Goto
  <2>1. Inside(LoopSteps)' = Inside(LoopSteps)
    BY <2>0, InsideKept
  <2> QED BY <2>0, <2>1 DEF Loops, Completed, opVars
<1>9. ASSUME NEW c \in Callbacks, OpDone(c)
      PROVE  Loops' = starts'
  <2>0. pending' = EndOp(pending, c) /\ pending[c] > 0 /\ UNCHANGED <<open, frame, starts>>
    BY <1>9 DEF OpDone, historyVars
  <2>1. Inside(LoopSteps)' = Inside(LoopSteps)
    BY <2>0, InsideKept
  <2>2. pending'["receive"] + Completed' = pending["receive"] + Completed
    BY <1>9, OpDoneHandsOn
  <2> QED BY <2>0, <2>1, <2>2 DEF Loops
<1>10. CASE UNCHANGED vars
  <2>1. Inside(LoopSteps)' = Inside(LoopSteps)
    BY <1>10, InsideKept DEF vars
  <2> QED BY <1>10, <2>1 DEF vars, opVars, historyVars, Loops, Completed
<1> QED BY <1>1, <1>2, <1>3, <1>4, <1>5, <1>6, <1>7, <1>8, <1>9, <1>10
        DEF Next, Worker, Loop, Caller

(* However often start() was called and whatever the receives end with, a   *)
(* server whose socket is open has exactly one loop for each start().       *)
THEOREM EachStartOneLoopHolds == Spec => []EachStartOneLoop
<1>1. Init => EachStartOneLoop
  <2> SUFFICES ASSUME Init
               PROVE  EachStartOneLoop
    OBVIOUS
  <2>1. /\ pending["receive"] = 0 /\ ready["receive"]["done"] = 0
        /\ ready["receive"]["error"] = 0
    BY DEF Init, Callbacks, Results
  <2>2. {w \in Workers : frame[w] \in LoopSteps} = {}
    BY DEF Init, Threads, LoopSteps
  <2> QED BY <2>1, <2>2, FS_EmptySet DEF Init, EachStartOneLoop
<1> QED BY <1>1, TypeOKInit, TypeOKStep, LoopsAre, LoopsStep, PTL DEF Spec
=============================================================================
