------------------------- MODULE UdpServerEndpoint --------------------------
(***************************************************************************)
(* udp_server_endpoint_impl: one bound socket, one receive buffer, and a   *)
(* receive loop that on_unicast_received keeps going.                      *)
(*                                                                         *)
(* The critical sections of unicast_mutex_ are steps.  multicast_mutex_ is *)
(* held while a message is handled, so its holder is visible: the worker   *)
(* whose frame is "on_message_received".  multicast_socket_ is never       *)
(* created; stop() takes its mutex for nothing but still waits for it.     *)
(***************************************************************************)
EXTENDS IoOps, FiniteSets

CONSTANTS Workers,    (* threads running the io_service                    *)
          Callers,    (* application threads                               *)
          MaxStarts,  (* bound: calls of start()                           *)
          MaxSends    (* bound: sends outstanding                          *)

ASSUME ThreadsAssumption == Workers \cap Callers = {} /\ IsFiniteSet(Workers)
ASSUME BoundsAssumption == MaxStarts \in Nat /\ MaxSends \in Nat

VARIABLES
    open,          (* unicast_socket_ is open                              *)
    pending, ready,(* asynchronous operations of the socket, see IoOps     *)
    frame,         (* frame[t]: the step thread t makes next               *)
    starts,        (* number of calls of start()                           *)
    stopped,       (* history: stop() returned                             *)
    lateMessages   (* history: calls of on_message_received begun since    *)

opVars == <<open, pending, ready>>
historyVars == <<starts, stopped, lateMessages>>
vars == <<opVars, frame, historyVars>>

-----------------------------------------------------------------------------
Threads == Workers \cup Callers
Callbacks == {"receive", "send"}
(* on_unicast_received tells operation_aborted from all other results.     *)
Results == {"done", "error", "aborted"}
LoopSteps == {"on_unicast_received", "on_message_received", "receive_unicast"}
Steps == LoopSteps \cup {"idle", "stop.multicast"}

TypeOK ==
    /\ open \in BOOLEAN
    /\ pending \in [Callbacks -> Nat]
    /\ ready \in [Callbacks -> [Results -> Nat]]
    /\ frame \in [Threads -> Steps]
    /\ starts \in Nat
    /\ stopped \in BOOLEAN
    /\ lateMessages \in Nat

(* The constructor opens and binds, or throws.                             *)
Init ==
    /\ open = TRUE
    /\ pending = [c \in Callbacks |-> 0]
    /\ ready = [c \in Callbacks |-> [r \in Results |-> 0]]
    /\ frame = [t \in Threads |-> "idle"]
    /\ starts = 0
    /\ stopped = FALSE
    /\ lateMessages = 0

At(t, step) == frame[t] = step
Goto(t, step) == frame' = [frame EXCEPT ![t] = step]

(* multicast_mutex_ is held exactly while its holder is in                  *)
(* on_message_received, so that the holder's frame says that it is taken.   *)
MulticastMutexFree == \A w \in Workers : ~At(w, "on_message_received")

-----------------------------------------------------------------------------
(* receive_unicast(): one async_receive_from, if the socket is open.       *)
receive_unicast_unchecked ==
    /\ IF open
       THEN pending' = StartOp(pending, "receive") /\ UNCHANGED ready
       ELSE ready' = Post(ready, "receive", "error") /\ UNCHANGED pending
    /\ UNCHANGED open

receive_unicast ==
    /\ pending' = IF open THEN StartOp(pending, "receive") ELSE pending
    /\ UNCHANGED <<open, ready>>

start(t) ==
    /\ At(t, "idle")
    /\ starts < MaxStarts
    /\ receive_unicast
    /\ starts' = starts + 1
    /\ UNCHANGED <<frame, stopped, lateMessages>>

(***************************************************************************)
(* on_unicast_received: an abort ends the loop; anything else, an error as *)
(* well, is handled under multicast_mutex_ and followed by a receive.      *)
(***************************************************************************)
on_unicast_received_if_success(w, r) ==
    /\ At(w, "idle")
    /\ ready["receive"][r] > 0
    /\ ready' = Take(ready, "receive", r)
    /\ Goto(w, IF r = "done" THEN "on_unicast_received" ELSE "idle")
    /\ UNCHANGED <<open, pending, historyVars>>

on_unicast_received(w, r) ==
    /\ At(w, "idle")
    /\ ready["receive"][r] > 0
    /\ ready' = Take(ready, "receive", r)
    /\ Goto(w, IF r = "aborted" THEN "idle" ELSE "on_unicast_received")
    /\ UNCHANGED <<open, pending, historyVars>>

lock_multicast_mutex_after_receive(w) ==
    /\ At(w, "on_unicast_received")
    /\ MulticastMutexFree
    /\ lateMessages' = IF stopped THEN lateMessages + 1 ELSE lateMessages
    /\ receive_unicast
    /\ Goto(w, "on_message_received")
    /\ UNCHANGED <<starts, stopped>>

lock_multicast_mutex(w) ==
    /\ At(w, "on_unicast_received")
    /\ MulticastMutexFree
    /\ lateMessages' = IF stopped THEN lateMessages + 1 ELSE lateMessages
    /\ Goto(w, "on_message_received")
    /\ UNCHANGED <<opVars, starts, stopped>>

(* on_message_received prints the buffer; the mutex is released after it.  *)
on_message_received(w) ==
    /\ At(w, "on_message_received")
    /\ Goto(w, "receive_unicast")
    /\ UNCHANGED <<opVars, historyVars>>

receive_again(w) ==
    /\ At(w, "receive_unicast")
    /\ receive_unicast
    /\ Goto(w, "idle")
    /\ UNCHANGED historyVars

-----------------------------------------------------------------------------
(* send_data: async_send_to, whether the socket is open or not.            *)
send_data(t) ==
    /\ At(t, "idle")
    /\ pending["send"] + Total(ready["send"]) < MaxSends
    /\ IF open
       THEN pending' = StartOp(pending, "send") /\ UNCHANGED ready
       ELSE ready' = Post(ready, "send", "error") /\ UNCHANGED pending
    /\ UNCHANGED <<open, frame, historyVars>>

(* send_cbk resets is_sending_, which nothing in this class sets.          *)
send_cbk(w, r) ==
    /\ At(w, "idle")
    /\ ready["send"][r] > 0
    /\ ready' = Take(ready, "send", r)
    /\ UNCHANGED <<open, pending, frame, historyVars>>

-----------------------------------------------------------------------------
(* stop(): close the socket; then wait for multicast_mutex_.               *)
stop(t) ==
    /\ At(t, "idle")
    /\ open' = FALSE
    /\ pending' = NonePending(pending)
    /\ ready' = Aborted(pending, ready)
    /\ Goto(t, "stop.multicast")
    /\ UNCHANGED historyVars

stop_multicast(t) ==
    /\ At(t, "stop.multicast")
    /\ MulticastMutexFree
    /\ stopped' = TRUE
    /\ Goto(t, "idle")
    /\ UNCHANGED <<opVars, starts, lateMessages>>

-----------------------------------------------------------------------------
(* The kernel finishes an operation: a datagram, an ICMP error, a send.    *)
OpDone(c) ==
    /\ pending[c] > 0
    /\ pending' = EndOp(pending, c)
    /\ \E r \in {"done", "error"} : ready' = Post(ready, c, r)
    /\ UNCHANGED <<open, frame, historyVars>>

Loop(w) == lock_multicast_mutex(w) \/ on_message_received(w) \/ receive_again(w)

Worker(w) ==
    \/ Loop(w)
    \/ \E r \in Results : on_unicast_received(w, r) \/ send_cbk(w, r)

Caller(t) == start(t) \/ send_data(t) \/ stop(t) \/ stop_multicast(t)

Next ==
    \/ \E w \in Workers : Worker(w)
    \/ \E t \in Callers : Caller(t)
    \/ \E c \in Callbacks : OpDone(c)

Spec == Init /\ [][Next]_vars

(***************************************************************************)
(* Fairness.  A callback that runs goes on; one that waits for the mutex   *)
(* gets it, and one that is queued is run, however often others come first *)
(* (the io_service queue is first in first out).  A call of stop() that    *)
(* was begun is not assumed to return.                                     *)
(***************************************************************************)
Fairness ==
    /\ \A w \in Workers : SF_vars(Loop(w))
    /\ \A r \in Results : SF_vars(\E w \in Workers : on_unicast_received(w, r))

FairSpec == Spec /\ Fairness

-----------------------------------------------------------------------------
LoopStep == \E w \in Workers : frame[w] \in LoopSteps

(* Each start() makes one receive loop, and while the socket is open no     *)
(* result of a receive ends a loop and none doubles one: a loop has a        *)
(* receive pending, or a completion queued that will start the next, or a    *)
(* worker that is on its way to.                                             *)
EachStartOneLoop ==
    open => pending["receive"] + ready["receive"]["done"] + ready["receive"]["error"]
              + Cardinality({w \in Workers : frame[w] \in LoopSteps}) = starts

(* A message is not overwritten while it is handled: the receive that would *)
(* write into the one buffer is not pending then.  This takes a server that *)
(* was started once, as endpoint_manager_impl does.                         *)
MessageNotOverwritten ==
    starts <= 1 => \A w \in Workers :
        At(w, "on_message_received") => pending["receive"] = 0

(* A stopped server falls silent: once stop() has returned, each receive    *)
(* loop handles at most the one message it had received before.             *)
StoppedFallsSilent == lateMessages <= starts

(* ... and its loops end, so that they no longer keep the endpoint alive.   *)
Receiving ==
    \/ pending["receive"] > 0
    \/ \E r \in Results : ready["receive"][r] > 0
    \/ LoopStep
LoopsEndAfterStop == ~open ~> ~Receiving
=============================================================================
