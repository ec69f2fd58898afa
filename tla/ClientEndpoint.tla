--------------------------- MODULE ClientEndpoint ---------------------------
(***************************************************************************)
(* client_endpoint_impl: the state and the callbacks that the TCP and the  *)
(* UDP client endpoint share.  TcpClientEndpoint and UdpClientEndpoint     *)
(* extend this module with send_data, receive and receive_cbk, which the   *)
(* C++ base class leaves to its subclasses.                                *)
(*                                                                         *)
(* Threads.  Workers are the threads that run the io_service; Callers are  *)
(* the application threads that use the public interface.  Every access to *)
(* the socket is a critical section of socket_mutex_ and is one step here; *)
(* a callback that takes the mutex several times is several steps, and     *)
(* frame[t] says where thread t is.  connect_cbk and receive_cbk go        *)
(* through strand_ and exclude each other; send_cbk does not.              *)
(***************************************************************************)
EXTENDS IoOps

CONSTANTS Workers,        (* threads running the io_service                *)
          Callers,        (* application threads                           *)
          MaxOutstanding  (* bound: an application thread makes a call only *)
                          (* while fewer callbacks than this are           *)
                          (* outstanding                                   *)

ASSUME ThreadsAssumption == Workers \cap Callers = {}
ASSUME BoundAssumption == MaxOutstanding \in Nat

VARIABLES
    state,           (* state_                                             *)
    sock,            (* the descriptor socket_ holds, as the kernel has it *)
    localPort,       (* local_port_ # 0                                    *)
    sendingBlocked,  (* sending_blocked_                                   *)
    wasNotConnected, (* was_not_connected_                                 *)
    pending, ready,  (* asynchronous operations of socket_, see IoOps      *)
    frame,           (* frame[t]: the step thread t makes next             *)
    everStopped,     (* history: stop() was called                         *)
    quietStop,       (* history: the last of start() and stop() was a      *)
                     (* stop() that found no send failed or half written   *)
    appClosed,       (* history: the application put state_ to CLOSED and  *)
                     (* no connect() was issued since                      *)
    kept             (* history: connect() has opened the socket and no    *)
                     (* reason to close it has come up since, see          *)
                     (* ClosesForAReason                                   *)

socketVars  == <<sock, localPort, pending, ready>>
flagVars    == <<state, sendingBlocked, wasNotConnected>>
historyVars == <<everStopped, quietStop, appClosed, kept>>
clientVars  == <<socketVars, flagVars, frame, historyVars>>

-----------------------------------------------------------------------------
cei_state_e == {"CLOSED", "CONNECTING", "CONNECTED", "ESTABLISHED"}

(***************************************************************************)
(* The kernel's view of the descriptor: closed; open but not bound, since  *)
(* bind() failed; bound with a connect in progress; connected; bound       *)
(* without a connection, the connect having failed or the peer being gone. *)
(***************************************************************************)
SockStates == {"closed", "unbound", "connecting", "connected", "unconnected"}

Callbacks == {"connect", "receive", "send"}

(***************************************************************************)
(* Results, as far as the callbacks tell them apart.                       *)
(*   ok, failed      outcome of a connect                                  *)
(*   done            finished in a way the callback only logs              *)
(*   lost            broken_pipe, not_connected, bad_descriptor or         *)
(*                   no_permission                                         *)
(*   no_destination  destination_address_required                          *)
(*   partial         async_write wrote a part, its own handler goes on     *)
(*   orphaned        as partial, but the socket object that the operation  *)
(*                   refers to was freed by send_cbk                       *)
(*   refused         connection_refused                                    *)
(*   aborted         operation_aborted                                     *)
(***************************************************************************)
Results == {"ok", "failed", "done", "lost", "no_destination", "partial",
            "orphaned", "refused", "aborted"}

StrandSteps == {"connect_cbk.close", "connect_cbk.port", "connect_cbk.receive",
                "receive_cbk.receive", "receive_cbk.close"}
CloseSteps  == {"connect_cbk.close", "send_cbk.close", "receive_cbk.close"}
Steps == StrandSteps \cup CloseSteps
         \cup {"idle", "send_cbk.recreate", "send_cbk.connect", "set_established"}

Threads == Workers \cup Callers

ClientTypeOK ==
    /\ state \in cei_state_e
    /\ sock \in SockStates
    /\ localPort \in BOOLEAN
    /\ sendingBlocked \in BOOLEAN
    /\ wasNotConnected \in BOOLEAN
    /\ pending \in [Callbacks -> Nat]
    /\ ready \in [Callbacks -> [Results -> Nat]]
    /\ frame \in [Threads -> Steps]
    /\ everStopped \in BOOLEAN
    /\ quietStop \in BOOLEAN
    /\ appClosed \in BOOLEAN
    /\ kept \in BOOLEAN

ClientInit ==
    /\ state = "CLOSED"
    /\ sock = "closed"
    /\ localPort = FALSE
    /\ sendingBlocked = FALSE
    /\ wasNotConnected = FALSE
    /\ pending = [c \in Callbacks |-> 0]
    /\ ready = [c \in Callbacks |-> [r \in Results |-> 0]]
    /\ frame = [t \in Threads |-> "idle"]
    /\ everStopped = FALSE
    /\ quietStop = FALSE
    /\ appClosed = FALSE
    /\ kept = FALSE

is_open == sock # "closed"

(* The socket as ClientLink sees it.                                       *)
LinkOf == CASE sock = "closed" -> "closed"
            [] sock \in {"unbound", "unconnected"} -> "idle"
            [] sock = "connecting" -> "dialling"
            [] sock = "connected" -> "up"
IsBound == sock \in {"connecting", "connected", "unconnected"}

(***************************************************************************)
(* Callbacks pending, queued or being run.  No callback adds to it, so the *)
(* guard of the application's calls bounds the model.                      *)
(***************************************************************************)
Outstanding ==
    Total(pending) + Total([c \in Callbacks |-> Total(ready[c])])
      + Total([w \in Workers |-> IF frame[w] = "idle" THEN 0 ELSE 1])

CanCall(t) == frame[t] = "idle" /\ Outstanding < MaxOutstanding

StrandFree == \A w \in Workers : frame[w] \notin StrandSteps

Goto(t, step) == frame' = [frame EXCEPT ![t] = step]

(* Worker w takes callback c with result r out of the io_service queue.    *)
Dispatch(w, c, r) ==
    /\ frame[w] = "idle"
    /\ c \in {"connect", "receive"} => StrandFree
    /\ ready[c][r] > 0
    /\ ready' = Take(ready, c, r)

-----------------------------------------------------------------------------
(***************************************************************************)
(* Critical sections of socket_mutex_.                                     *)
(*                                                                         *)
(* shutdown_and_close_socket(_recreate_socket): with the flag set socket_  *)
(* becomes a new object, which is closed as well; the old one is freed     *)
(* under an async_write that stands between two of its parts.              *)
(***************************************************************************)
Orphaned(q) == [q EXCEPT !["send"]["orphaned"] = @ + q["send"]["partial"],
                         !["send"]["partial"] = 0]

shutdown_and_close_socket_keeps_port(recreated) ==
    /\ sock' = "closed"
    /\ pending' = NonePending(pending)
    /\ ready' = IF recreated THEN Orphaned(Aborted(pending, ready))
                             ELSE Aborted(pending, ready)
    /\ UNCHANGED localPort

shutdown_and_close_socket(recreated) ==
    /\ localPort' = FALSE
    /\ sock' = "closed"
    /\ pending' = NonePending(pending)
    /\ ready' = IF recreated THEN Orphaned(Aborted(pending, ready))
                             ELSE Aborted(pending, ready)

(***************************************************************************)
(* connect(): open (which may fail, and is skipped on an open socket),     *)
(* bind, async_connect.  A bind error is posted to connect_cbk and ends    *)
(* the attempt.  protocol stands for the template parameter:               *)
(*    starts    what async_connect may do: keep the operation pending, or  *)
(*              complete at once with ok or failed                         *)
(*    bindable  the open sockets that the kernel lets bind() bind          *)
(***************************************************************************)
NothingCloses ==
    /\ ready["connect"]["aborted"] = 0
    /\ \A w \in Workers : frame[w] \notin CloseSteps

OpenFails ==
    /\ sock = "closed"
    /\ ready' = Post(ready, "connect", "failed")
    /\ kept' = FALSE
    /\ UNCHANGED <<sock, pending, state, appClosed>>

BindFails ==
    /\ sock' = IF sock = "closed" THEN "unbound" ELSE sock
    /\ ready' = Post(ready, "connect", "failed")
    /\ kept' = NothingCloses
    /\ UNCHANGED <<pending, state, appClosed>>

async_connect_in_silence(protocol) ==
    /\ kept' = NothingCloses
    /\ UNCHANGED <<state, appClosed>>
    /\ \/ /\ "pending" \in protocol.starts
          /\ sock' = "connecting"
          /\ pending' = StartOp(pending, "connect")
          /\ UNCHANGED ready
       \/ \E r \in protocol.starts \ {"pending"} :
          /\ sock' = IF r = "ok" THEN "connected" ELSE "unconnected"
          /\ ready' = Post(ready, "connect", r)
          /\ UNCHANGED pending

async_connect(protocol) ==
    /\ state' = "CONNECTING"
    /\ appClosed' = FALSE
    /\ kept' = NothingCloses
    /\ \/ /\ "pending" \in protocol.starts
          /\ sock' = "connecting"
          /\ pending' = StartOp(pending, "connect")
          /\ UNCHANGED ready
       \/ \E r \in protocol.starts \ {"pending"} :
          /\ sock' = IF r = "ok" THEN "connected" ELSE "unconnected"
          /\ ready' = Post(ready, "connect", r)
          /\ UNCHANGED pending

connect_ignoring_bind_error(protocol) ==
    /\ UNCHANGED localPort
    /\ OpenFails \/ async_connect(protocol)

connect(protocol) ==
    /\ UNCHANGED localPort
    /\ \/ OpenFails
       \/ BindFails
       \/ /\ is_open => sock \in protocol.bindable
          /\ async_connect(protocol)

-----------------------------------------------------------------------------
(***************************************************************************)
(* connect_cbk.  operation_aborted, or a blocked endpoint, closes whatever *)
(* socket_ holds by then; every other result, a failed connect or bind     *)
(* included, is taken for a connection.                                    *)
(***************************************************************************)
connect_cbk_ignoring_block(w, r) ==
    /\ Dispatch(w, "connect", r)
    /\ Goto(w, IF r = "aborted" THEN "connect_cbk.close" ELSE "connect_cbk.port")
    /\ UNCHANGED <<sock, localPort, pending, flagVars, historyVars>>

connect_cbk_closing_failed(w, r) ==
    /\ Dispatch(w, "connect", r)
    /\ Goto(w, IF r \in {"aborted", "failed"} \/ sendingBlocked
               THEN "connect_cbk.close" ELSE "connect_cbk.port")
    /\ UNCHANGED <<sock, localPort, pending, flagVars, historyVars>>

connect_cbk(w, r) ==
    /\ Dispatch(w, "connect", r)
    /\ Goto(w, IF r = "aborted" \/ sendingBlocked
               THEN "connect_cbk.close" ELSE "connect_cbk.port")
    /\ UNCHANGED <<sock, localPort, pending, flagVars, historyVars>>

(***************************************************************************)
(* set_local_port and the reset of was_not_connected_.  The kernel reports *)
(* port 0 for an unbound socket, and may have taken back an ephemeral port *)
(* after a failed connect.                                                 *)
(***************************************************************************)
set_local_port(w) ==
    /\ frame[w] = "connect_cbk.port"
    /\ \/ ~is_open /\ UNCHANGED localPort
       \/ sock \in {"connecting", "connected"} /\ localPort' = TRUE
       \/ sock = "unbound" /\ localPort' = FALSE
       \/ sock = "unconnected" /\ localPort' \in BOOLEAN
    /\ wasNotConnected' = FALSE
    /\ Goto(w, "connect_cbk.receive")
    /\ UNCHANGED <<sock, pending, ready, state, sendingBlocked, historyVars>>

(***************************************************************************)
(* send_cbk of the base class, by result.                                  *)
(***************************************************************************)
send_cbk_lost(w) ==
    /\ Dispatch(w, "send", "lost")
    /\ state' = "CLOSED"
    /\ wasNotConnected' = TRUE
    /\ Goto(w, "send_cbk.recreate")
    /\ UNCHANGED <<sock, localPort, pending, sendingBlocked, historyVars>>

send_cbk_aborted(w) ==
    /\ Dispatch(w, "send", "aborted")
    /\ sendingBlocked' = TRUE
    /\ Goto(w, "send_cbk.close")
    /\ UNCHANGED <<sock, localPort, pending, state, wasNotConnected, historyVars>>

send_cbk_no_destination(w) ==
    /\ Dispatch(w, "send", "no_destination")
    /\ wasNotConnected' = TRUE
    /\ UNCHANGED <<sock, localPort, pending, state, sendingBlocked, frame, historyVars>>

send_cbk_done(w) ==
    /\ Dispatch(w, "send", "done")
    /\ UNCHANGED <<sock, localPort, pending, flagVars, frame, historyVars>>

(* send_cbk goes on: shutdown_and_close_socket(true), then connect().      *)
recreate_for_good(w) ==
    /\ frame[w] = "send_cbk.recreate"
    /\ shutdown_and_close_socket(TRUE)
    /\ kept' = (kept /\ pending["connect"] = 0)
    /\ Goto(w, "idle")
    /\ UNCHANGED <<flagVars, everStopped, quietStop, appClosed>>

recreate(w) ==
    /\ frame[w] = "send_cbk.recreate"
    /\ shutdown_and_close_socket(TRUE)
    /\ kept' = (kept /\ pending["connect"] = 0)
    /\ Goto(w, "send_cbk.connect")
    /\ UNCHANGED <<flagVars, everStopped, quietStop, appClosed>>

reconnect(w, protocol) ==
    /\ frame[w] = "send_cbk.connect"
    /\ connect(protocol)
    /\ Goto(w, "idle")
    /\ UNCHANGED <<sendingBlocked, wasNotConnected, everStopped, quietStop>>

(* shutdown_and_close_socket(false) as the last step of a callback.        *)
close(w) ==
    /\ frame[w] \in CloseSteps
    /\ shutdown_and_close_socket(FALSE)
    /\ Goto(w, "idle")
    /\ UNCHANGED <<flagVars, historyVars>>

SharedCallbacks(w, protocol) ==
    \/ \E r \in Results : connect_cbk(w, r)
    \/ set_local_port(w)
    \/ send_cbk_lost(w) \/ send_cbk_aborted(w) \/ send_cbk_done(w)
    \/ recreate(w) \/ reconnect(w, protocol)
    \/ close(w)

-----------------------------------------------------------------------------
(***************************************************************************)
(* The public interface.                                                   *)
(***************************************************************************)
start(t, protocol) ==
    /\ CanCall(t)
    /\ connect(protocol)
    /\ quietStop' = FALSE
    /\ UNCHANGED <<sendingBlocked, wasNotConnected, frame, everStopped>>

(* No send completed in a way that makes the endpoint connect again.       *)
NoReconnectDue ==
    /\ ready["send"]["lost"] = 0
    /\ ready["send"]["partial"] = 0
    /\ ready["send"]["orphaned"] = 0
    /\ \A w \in Workers : frame[w] \notin {"send_cbk.recreate", "send_cbk.connect"}

stop(t) ==
    /\ CanCall(t)
    /\ shutdown_and_close_socket(FALSE)
    /\ everStopped' = TRUE
    /\ quietStop' = NoReconnectDue
    /\ kept' = FALSE
    /\ UNCHANGED <<flagVars, frame, appClosed>>

set_connected(t, connected) ==
    /\ CanCall(t)
    /\ state' = IF connected /\ is_open THEN "CONNECTED" ELSE "CLOSED"
    /\ appClosed' = IF connected THEN appClosed /\ ~is_open ELSE TRUE
    /\ UNCHANGED <<socketVars, sendingBlocked, wasNotConnected, frame,
                   everStopped, quietStop, kept>>

(***************************************************************************)
(* set_established(true) tests state_ first and looks at the socket under  *)
(* the mutex in a second step; set_established(false) is one assignment.   *)
(***************************************************************************)
set_established(t, established) ==
    /\ CanCall(t)
    /\ \/ /\ established /\ state # "CONNECTING"
          /\ Goto(t, "set_established")
          /\ UNCHANGED <<state, appClosed>>
       \/ /\ ~established
          /\ state' = "CLOSED"
          /\ appClosed' = TRUE
          /\ UNCHANGED frame
    /\ UNCHANGED <<socketVars, sendingBlocked, wasNotConnected,
                   everStopped, quietStop, kept>>

set_established_locked(t) ==
    /\ frame[t] = "set_established"
    /\ state' = IF is_open THEN "ESTABLISHED" ELSE "CLOSED"
    /\ appClosed' = (appClosed /\ ~is_open)
    /\ Goto(t, "idle")
    /\ UNCHANGED <<socketVars, sendingBlocked, wasNotConnected,
                   everStopped, quietStop, kept>>

SharedCalls(t, protocol) ==
    \/ start(t, protocol) \/ stop(t)
    \/ \E b \in BOOLEAN : set_connected(t, b) \/ set_established(t, b)
    \/ set_established_locked(t)

-----------------------------------------------------------------------------
(* The kernel finishes one operation of the open descriptor.               *)
OpDone(c, r) ==
    /\ pending[c] > 0
    /\ pending' = EndOp(pending, c)
    /\ ready' = Post(ready, c, r)
    /\ UNCHANGED <<sock, localPort, flagVars, frame, historyVars>>

-----------------------------------------------------------------------------
(***************************************************************************)
(* Safety shared by both client endpoints.                                 *)
(***************************************************************************)

(* local_port_ is only ever the port of a socket that is open and bound:    *)
(* shutdown_and_close_socket_unlocked resets it in the critical section     *)
(* that closes, set_local_port reads it in one that finds the socket open.  *)
LocalPortOfOpenSocket == localPort => IsBound

(* connect() never has two async_connect in progress, however the           *)
(* application's start() and the reconnects of several send_cbk interleave: *)
(* the second attempt ends at the bind error, and a connect in progress     *)
(* belongs to the socket that is still connecting.                          *)
OneConnectInProgress ==
    pending["connect"] = IF sock = "connecting" THEN 1 ELSE 0

(* Once sending_blocked_ is set the endpoint cannot keep a socket open: the *)
(* connect_cbk of that socket, or a callback about to close it, is always   *)
(* still to come, also when connect() runs after the block.                 *)
ConnectCbkDue ==
    \/ pending["connect"] > 0
    \/ \E r \in Results : ready["connect"][r] > 0
CloseDue == \E w \in Workers : frame[w] \in CloseSteps
BlockedEndpointCloses == sendingBlocked /\ is_open => ConnectCbkDue \/ CloseDue

(* A stopped endpoint stays closed until start() is called again, provided  *)
(* no send had already failed, or stopped half way, when stop() ran: no     *)
(* callback and no reconnect that comes later opens the socket.  (A UDP     *)
(* endpoint sends on a closed socket, fails and reconnects: there the       *)
(* promise ends with the next send as well.)                                *)
StoppedStaysClosed == quietStop => ~is_open

(* A blocked endpoint does close in the end, whichever callbacks race.      *)
BlockedEventuallyClosed == sendingBlocked ~> ~is_open

(* state_ says CLOSED over a live socket only while a send_cbk that has    *)
(* announced the loss is about to recreate that socket, or when the         *)
(* application itself set it to CLOSED after the last connect().            *)
ClosedStateNotOverLiveSocket ==
    state = "CLOSED" /\ sock \in {"connecting", "connected"} =>
        \/ appClosed
        \/ \E w \in Workers : frame[w] = "send_cbk.recreate"

(* An endpoint that connect() opened is not closed behind the application's *)
(* back: unless it is blocked, it stays open, or a send_cbk has just closed *)
(* it and is about to connect again.  What ends this are stop(), a failed   *)
(* attempt to open (nothing repeats it), a UDP peer's refusal, and a        *)
(* send_cbk that replaces a socket still connecting, since its connect_cbk  *)
(* comes back aborted and closes the socket opened meanwhile; and connect() *)
(* begins it anew only when no such late callback is left.                  *)
ClosesForAReason ==
    kept /\ ~sendingBlocked =>
        is_open \/ \E w \in Workers : frame[w] = "send_cbk.connect"
=============================================================================
