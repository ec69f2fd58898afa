------------------------- MODULE TcpServerEndpoint --------------------------
(***************************************************************************)
(* tcp_server_endpoint_impl: the acceptor, the loop that accepts, and the  *)
(* connections, kept in connections_ under the address of their peer.      *)
(*                                                                         *)
(* Each critical section of acceptor_mutex_, connections_mutex_ and        *)
(* sent_mutex_ is a step, frame[t] says what thread t does next; a         *)
(* connection's socket_mutex_ is only taken inside these steps.            *)
(*                                                                         *)
(* A connection object lives as long as something holds it: connections_,  *)
(* an operation or a callback.  An object that nothing holds is destroyed, *)
(* its socket with it; its entries below mean nothing until create() takes *)
(* the name again.                                                         *)
(***************************************************************************)
EXTENDS Naturals, FiniteSets

CONSTANTS Workers,      (* threads running the io_service                  *)
          Callers,      (* application threads                             *)
          Connections,  (* bound: connection objects alive at a time       *)
          Remotes,      (* addresses of peers                              *)
          MaxStarts,    (* bound: calls of start() by the application      *)
          Unspecified,  (* the endpoint that remote_endpoint() returns     *)
                        (* when it fails; also the peer of a connection    *)
                        (* that has none any more                          *)
          NoConnection

ASSUME NamesAssumption ==
    /\ Workers \cap Callers = {}
    /\ Unspecified \notin Remotes
    /\ NoConnection \notin Connections

VARIABLES
    acceptorOpen,  (* acceptor_.is_open()                                  *)
    accepting,     (* accepting[c]: async_accept into c, and its result    *)
    retryTimers,   (* number of timers that will accept again              *)
    open,          (* open[c]: the socket of c is open                     *)
    peer,          (* peer[c]: who is at the other end                     *)
    receiving,     (* receiving[c]: async_receive of c                     *)
    sending,       (* sending[c]: async_write of c                         *)
    connections,   (* connections_                                         *)
    isSending,     (* is_sending_, one flag for all connections            *)
    frame,         (* frame[t]: the step thread t makes next               *)
    starts,        (* number of start() calls of the application           *)
    late           (* history: the connections that had been accepted, but *)
                   (* not inserted, when stop() cleared connections_;      *)
                   (* Connections before that                              *)

connVars   == <<open, peer, receiving, sending>>
acceptVars == <<acceptorOpen, accepting, retryTimers>>
vars == <<acceptVars, connVars, connections, isSending, frame, starts, late>>

-----------------------------------------------------------------------------
Addresses == Remotes \cup {Unspecified}
Threads == Workers \cup Callers
AcceptStages == {"none", "pending", "ok", "failed", "no_descriptors", "aborted"}
ReceiveStages == {"none", "pending", "queued"}
SendStages == {"none", "pending", "done", "partial", "failed"}

(* Where accept_cbk still has the connection to itself; drop.start is its   *)
(* call of start() for one that it will not keep.  All of the accept loop.  *)
NewSteps == {"accept_cbk.insert", "drop.start"}
LoopSteps == NewSteps \cup {"connection.start", "start"}
Steps == LoopSteps \cup {"idle", "write_failed.remove", "send_cbk", "stop.connections"}
Frames == [step : Steps, conn : Connections \cup {NoConnection}, remote : Addresses]
Idle == [step |-> "idle", conn |-> NoConnection, remote |-> Unspecified]

TypeOK ==
    /\ acceptorOpen \in BOOLEAN
    /\ accepting \in [Connections -> AcceptStages]
    /\ retryTimers \in Nat
    /\ open \in [Connections -> BOOLEAN]
    /\ peer \in [Connections -> Addresses]
    /\ receiving \in [Connections -> ReceiveStages]
    /\ sending \in [Connections -> SendStages]
    /\ connections \in [Addresses -> Connections \cup {NoConnection}]
    /\ isSending \in BOOLEAN
    /\ frame \in [Threads -> Frames]
    /\ starts \in Nat
    /\ late \subseteq Connections

Init ==
    /\ acceptorOpen = TRUE
    /\ accepting = [c \in Connections |-> "none"]
    /\ retryTimers = 0
    /\ open = [c \in Connections |-> FALSE]
    /\ peer = [c \in Connections |-> Unspecified]
    /\ receiving = [c \in Connections |-> "none"]
    /\ sending = [c \in Connections |-> "none"]
    /\ connections = [a \in Addresses |-> NoConnection]
    /\ isSending = FALSE
    /\ frame = [t \in Threads |-> Idle]
    /\ starts = 0
    /\ late = Connections

InMap(c) == \E a \in Addresses : connections[a] = c

Held(c) ==
    \/ InMap(c)
    \/ accepting[c] # "none" \/ receiving[c] # "none" \/ sending[c] # "none"
    \/ \E t \in Threads : frame[t].conn = c

(* A connection whose peer is still there.                                 *)
Live(c) == Held(c) /\ open[c] /\ peer[c] # Unspecified

(* Accepted by the kernel, and not, or not yet, put into connections_.     *)
BeingAccepted(c) ==
    \/ accepting[c] = "ok"
    \/ \E w \in Workers : frame[w].step \in NewSteps /\ frame[w].conn = c

At(t, step) == frame[t].step = step
Goto(t, step) == frame' = [frame EXCEPT ![t] = [@ EXCEPT !.step = step]]
GoWith(w, step, c) ==
    frame' = [frame EXCEPT ![w] = [step |-> step, conn |-> c, remote |-> peer[c]]]
Return(t) == frame' = [frame EXCEPT ![t] = Idle]

(***************************************************************************)
(* Closing sockets: whatever was pending on them is queued as aborted.     *)
(***************************************************************************)
CloseSockets(C) ==
    /\ open' = [c \in Connections |-> open[c] /\ c \notin C]
    /\ receiving' = [c \in Connections |->
           IF c \in C /\ receiving[c] = "pending" THEN "queued" ELSE receiving[c]]
    /\ sending' = [c \in Connections |->
           IF c \in C /\ sending[c] = "pending" THEN "failed" ELSE sending[c]]
    /\ UNCHANGED peer

-----------------------------------------------------------------------------
(***************************************************************************)
(* start(): if the acceptor is open, create a connection and accept into   *)
(* it.  Room for one more object is a bound, see AcceptOk.                 *)
(***************************************************************************)
accept_into_new_connection ==
    \E c \in {d \in Connections : ~Held(d)} :
        /\ accepting' = [accepting EXCEPT ![c] = "pending"]
        /\ open' = [open EXCEPT ![c] = FALSE]
        /\ peer' = [peer EXCEPT ![c] = Unspecified]
        /\ UNCHANGED <<acceptorOpen, retryTimers, receiving, sending>>

start ==
    \/ acceptorOpen /\ accept_into_new_connection
    \/ ~acceptorOpen /\ UNCHANGED <<acceptVars, connVars>>

start_called(t) ==
    /\ At(t, "idle")
    /\ starts < MaxStarts
    /\ start
    /\ starts' = starts + 1
    /\ UNCHANGED <<connections, isSending, frame, late>>

start_again(w) ==
    /\ frame[w].step \in {"start", "drop.start"}
    /\ start
    /\ Return(w)
    /\ UNCHANGED <<connections, isSending, starts, late>>

(***************************************************************************)
(* accept_cbk, first part.  When the connection is there, its peer's       *)
(* address is read; the error of remote_endpoint() is overwritten by that  *)
(* of set_option, which alone decides whether the connection is kept.  The *)
(* callback holds the connection until it returns, after start().          *)
(***************************************************************************)
AcceptCompletes(w, c, result) ==
    /\ At(w, "idle")
    /\ accepting[c] = result
    /\ accepting' = [accepting EXCEPT ![c] = "none"]
    /\ UNCHANGED <<acceptorOpen, connVars, connections, isSending, starts, late>>

accept_cbk_ok(w, c) ==
    /\ AcceptCompletes(w, c, "ok")
    /\ GoWith(w, "accept_cbk.insert", c)
    /\ UNCHANGED retryTimers

accept_cbk_options_fail(w, c) ==
    /\ AcceptCompletes(w, c, "ok")
    /\ GoWith(w, "drop.start", c)
    /\ UNCHANGED retryTimers

accept_cbk_failed_without_start(w, c) ==
    AcceptCompletes(w, c, "failed") /\ UNCHANGED <<retryTimers, frame>>

accept_cbk_failed(w, c) ==
    AcceptCompletes(w, c, "failed") /\ GoWith(w, "start", c) /\ UNCHANGED retryTimers

accept_cbk_no_descriptors(w, c) ==
    /\ AcceptCompletes(w, c, "no_descriptors")
    /\ retryTimers' = retryTimers + 1
    /\ UNCHANGED frame

accept_cbk_aborted(w, c) ==
    AcceptCompletes(w, c, "aborted") /\ UNCHANGED <<retryTimers, frame>>

(* The timer of accept_cbk expires.                                        *)
TimerFires(w) ==
    /\ At(w, "idle")
    /\ retryTimers' = retryTimers - 1
    /\ UNCHANGED <<acceptorOpen, accepting, connVars, connections, isSending,
                   starts, late>>

retry_unless_expired(w) == retryTimers > 0 /\ TimerFires(w) /\ UNCHANGED frame
retry_periodically(w) ==
    /\ retryTimers > 0 /\ At(w, "idle")
    /\ Goto(w, "start")
    /\ UNCHANGED <<acceptVars, connVars, connections, isSending, starts, late>>
retry(w) == retryTimers > 0 /\ TimerFires(w) /\ Goto(w, "start")

(* accept_cbk, second part: connections_[remote] = _connection.            *)
Insert(w, keep) ==
    /\ At(w, "accept_cbk.insert")
    /\ connections' = [connections EXCEPT ![frame[w].remote] =
                          IF keep /\ @ # NoConnection THEN @ ELSE frame[w].conn]
    /\ Goto(w, "connection.start")
    /\ UNCHANGED <<acceptVars, connVars, isSending, starts, late>>

insert_if_absent(w) == Insert(w, TRUE)
insert(w) == Insert(w, FALSE)

(* accept_cbk, third part: receive() once, then accept the next one.       *)
connection_start(w) ==
    /\ At(w, "connection.start")
    /\ LET c == frame[w].conn IN
         receiving' = [receiving EXCEPT ![c] =
             IF ~open[c] THEN @ ELSE IF Live(c) THEN "pending" ELSE "queued"]
    /\ Goto(w, "start")
    /\ UNCHANGED <<acceptVars, open, peer, sending, connections, isSending, starts, late>>

-----------------------------------------------------------------------------
(* receive_cbk only logs and, on eof or reset, calls wait_until_sent, which *)
(* is declared and not defined.  It does not receive again.                *)
receive_cbk(w, c) ==
    /\ At(w, "idle")
    /\ receiving[c] = "queued"
    /\ receiving' = [receiving EXCEPT ![c] = "none"]
    /\ UNCHANGED <<acceptVars, open, peer, sending, connections, isSending, frame,
                   starts, late>>

(* Writing to a connection: it fails unless the peer is there.             *)
WriteSome(c) ==
    sending' = [sending EXCEPT ![c] = IF Live(c) THEN "pending" ELSE "failed"]

(***************************************************************************)
(* connection::send_data, which asks neither whether the socket is open    *)
(* nor whether a write is under way.  (Bound: one write per connection.)   *)
(***************************************************************************)
send_data(t, c) ==
    /\ At(t, "idle")
    /\ InMap(c) /\ sending[c] = "none"
    /\ isSending' = TRUE
    /\ WriteSome(c)
    /\ UNCHANGED <<acceptVars, open, peer, receiving, connections, frame, starts, late>>

(* write_completion_condition after a partial write: the rest is written.  *)
write_completion_condition(w, c) ==
    /\ At(w, "idle")
    /\ sending[c] = "partial"
    /\ WriteSome(c)
    /\ UNCHANGED <<acceptVars, open, peer, receiving, connections, isSending, frame,
                   starts, late>>

write_done(w, c) ==
    /\ At(w, "idle")
    /\ sending[c] = "done"
    /\ sending' = [sending EXCEPT ![c] = "none"]
    /\ Goto(w, "send_cbk")
    /\ UNCHANGED <<acceptVars, open, peer, receiving, connections, isSending, starts, late>>

(***************************************************************************)
(* After an error write_completion_condition stops the connection, then    *)
(* removes it from connections_; send_cbk runs after that.                 *)
(***************************************************************************)
stop_and_remove_connection(w, c) ==
    /\ At(w, "idle")
    /\ sending[c] = "failed"
    /\ open' = [open EXCEPT ![c] = FALSE]
    /\ receiving' = [receiving EXCEPT ![c] = IF @ = "pending" THEN "queued" ELSE @]
    /\ sending' = [sending EXCEPT ![c] = "none"]
    /\ frame' = [frame EXCEPT ![w] =
           [Idle EXCEPT !.step = "write_failed.remove", !.conn = c]]
    /\ UNCHANGED <<acceptVars, peer, connections, isSending, starts, late>>

Remove(w, next) ==
    /\ At(w, "write_failed.remove")
    /\ connections' = [a \in Addresses |->
           IF connections[a] = frame[w].conn THEN NoConnection ELSE connections[a]]
    /\ frame' = [frame EXCEPT ![w] = [Idle EXCEPT !.step = next]]
    /\ UNCHANGED <<acceptVars, connVars, isSending, starts, late>>

remove_connection_and_return(w) == Remove(w, "idle")
remove_connection(w) == Remove(w, "send_cbk")

(* server_endpoint_impl::send_cbk.                                         *)
send_cbk(w) ==
    /\ At(w, "send_cbk")
    /\ isSending' = FALSE
    /\ Return(w)
    /\ UNCHANGED <<acceptVars, connVars, connections, starts, late>>

-----------------------------------------------------------------------------
(* stop(): close the acceptor; then stop all connections and forget them.  *)
stop(t) ==
    /\ At(t, "idle")
    /\ acceptorOpen' = FALSE
    /\ accepting' = [c \in Connections |->
           IF accepting[c] = "pending" THEN "aborted" ELSE accepting[c]]
    /\ Goto(t, "stop.connections")
    /\ UNCHANGED <<retryTimers, connVars, connections, isSending, starts, late>>

ForgetConnections(t) ==
    /\ At(t, "stop.connections")
    /\ connections' = [a \in Addresses |-> NoConnection]
    /\ late' = {c \in Connections : BeingAccepted(c)}
    /\ Return(t)
    /\ UNCHANGED <<acceptVars, isSending, starts>>

stop_connections_without_close(t) == ForgetConnections(t) /\ UNCHANGED connVars

stop_connections(t) ==
    ForgetConnections(t) /\ CloseSockets({c \in Connections : InMap(c)})

-----------------------------------------------------------------------------
(***************************************************************************)
(* The kernel.  Two live connections never have the same peer.  An accept  *)
(* that another one will follow ends only while an object is left for that *)
(* one (a bound of the model).                                             *)
(***************************************************************************)
RoomForNext == Cardinality({d \in Connections : ~Held(d)}) >= MaxStarts

AcceptOk(c, r) ==
    /\ accepting[c] = "pending"
    /\ RoomForNext
    /\ \A d \in Connections : Live(d) => peer[d] # r
    /\ accepting' = [accepting EXCEPT ![c] = "ok"]
    /\ open' = [open EXCEPT ![c] = TRUE]
    /\ peer' = [peer EXCEPT ![c] = r]
    /\ UNCHANGED <<acceptorOpen, retryTimers, receiving, sending>>

AcceptFails(c) ==
    /\ accepting[c] = "pending"
    /\ \E r \in {"failed", "no_descriptors"} :
         /\ r = "failed" => RoomForNext
         /\ accepting' = [accepting EXCEPT ![c] = r]
    /\ UNCHANGED <<acceptorOpen, retryTimers, connVars>>

PeerGone(c) ==
    /\ Live(c)
    /\ peer' = [peer EXCEPT ![c] = Unspecified]
    /\ receiving' = [receiving EXCEPT ![c] = IF @ = "pending" THEN "queued" ELSE @]
    /\ sending' = [sending EXCEPT ![c] = IF @ = "pending" THEN "failed" ELSE @]
    /\ UNCHANGED <<acceptVars, open>>

DataArrives(c) ==
    /\ receiving[c] = "pending"
    /\ receiving' = [receiving EXCEPT ![c] = "queued"]
    /\ UNCHANGED <<acceptVars, open, peer, sending>>

SendProgress(c) ==
    /\ sending[c] = "pending"
    /\ \E r \in {"done", "partial"} : sending' = [sending EXCEPT ![c] = r]
    /\ UNCHANGED <<acceptVars, open, peer, receiving>>

Kernel ==
    /\ \E c \in Connections :
         \/ \E r \in Remotes : AcceptOk(c, r)
         \/ AcceptFails(c) \/ PeerGone(c) \/ DataArrives(c) \/ SendProgress(c)
    /\ UNCHANGED <<connections, isSending, frame, starts, late>>

accept_cbk(w, c) ==
    \/ accept_cbk_ok(w, c) \/ accept_cbk_options_fail(w, c)
    \/ accept_cbk_failed(w, c) \/ accept_cbk_no_descriptors(w, c)
    \/ accept_cbk_aborted(w, c)

AcceptCallback(w) ==
    \/ \E c \in Connections : accept_cbk(w, c)
    \/ retry(w) \/ insert(w) \/ connection_start(w) \/ start_again(w)

ConnectionCallback(w) ==
    \/ \E c \in Connections :
         \/ receive_cbk(w, c) \/ write_completion_condition(w, c)
         \/ write_done(w, c) \/ stop_and_remove_connection(w, c)
    \/ remove_connection(w) \/ send_cbk(w)

Caller(t) ==
    \/ start_called(t) \/ stop(t) \/ stop_connections(t)
    \/ \E c \in Connections : send_data(t, c)

Next ==
    \/ \E w \in Workers : AcceptCallback(w) \/ ConnectionCallback(w)
    \/ \E t \in Callers : Caller(t)
    \/ Kernel

Spec == Init /\ [][Next]_vars

(***************************************************************************)
(* Fairness.  A callback that runs goes on; a queued accept_cbk and an     *)
(* expired timer get a worker: the io_service queue is first in first out. *)
(***************************************************************************)
Fairness ==
    /\ \A w \in Workers : WF_vars(~At(w, "idle")
                                 /\ (AcceptCallback(w) \/ ConnectionCallback(w)))
    /\ SF_vars(\E w \in Workers : retry(w))
    /\ \A c \in Connections : SF_vars(\E w \in Workers : accept_cbk(w, c))

FairSpec == Spec /\ Fairness

-----------------------------------------------------------------------------
(* A started server never stops accepting before stop() is called: at any   *)
(* moment an accept is under way, or a callback or a timer is on its way to *)
(* start one, whatever errors accept_cbk meets.                             *)
AcceptLoopAlive ==
    acceptorOpen /\ starts > 0 =>
        \/ \E c \in Connections : accepting[c] \notin {"none", "aborted"}
        \/ retryTimers > 0
        \/ \E w \in Workers : frame[w].step \in LoopSteps

(* connections_ knows every accepted connection whose peer is there, under  *)
(* the address of that peer, so that stop() and a search by address reach   *)
(* it: when a peer comes back from the same address while its old           *)
(* connection is still in the map, or is being removed by a failed write,   *)
(* it is the new one that stays, and connections that are stored under the  *)
(* unspecified address, because their peer left before accept_cbk asked for *)
(* it, only displace each other.  It takes the accept loop to be re-armed   *)
(* only after the insertion.                                                *)
LiveConnectionKnown ==
    \A c \in Connections : Live(c) => BeingAccepted(c) \/ connections[peer[c]] = c

(* stop() leaves no connection behind but those that the kernel had handed  *)
(* out, and accept_cbk had not inserted, when it cleared connections_.      *)
StopLeavesOnlyLate == \A c \in Connections : Live(c) => c \in late

(* is_sending_ is never left set: some write, or the callback that resets   *)
(* the flag, is still to come, also when the connection of the write was    *)
(* stopped, removed or replaced.                                            *)
SendingFlagNotStuck ==
    isSending =>
        \/ \E c \in Connections : sending[c] # "none"
        \/ \E w \in Workers : frame[w].step \in {"write_failed.remove", "send_cbk"}

(* "Will try to accept again in 1000ms": it does, or the server is stopped. *)
RetryAccepts ==
    retryTimers > 0 ~>
        \/ \E c \in Connections : accepting[c] = "pending"
        \/ ~acceptorOpen

(* After stop() the accept loop dies out: no accept, no accept_cbk and no   *)
(* retry timer is left in the end, so that nothing holds the stopped        *)
(* server any more; a timer that was armed when stop() ran fires once and   *)
(* finds the acceptor closed.                                               *)
AcceptingEndsAfterStop ==
    ~acceptorOpen ~>
        /\ \A c \in Connections : accepting[c] = "none"
        /\ retryTimers = 0
        /\ \A w \in Workers : frame[w].step \notin LoopSteps
=============================================================================
