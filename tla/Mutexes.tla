------------------------------ MODULE Mutexes -------------------------------
(***************************************************************************)
(* The mutexes of the endpoints and of the manager, and the order in which *)
(* each function takes them.                                               *)
(*                                                                         *)
(* The modules of the endpoints take a critical section for one step; that *)
(* it is ever left is shown here.  A function is the sequence of its lock  *)
(* and unlock operations on its longest path: std::lock_guard nests them,  *)
(* and an early return leaves whole sections out, which adds no order.     *)
(* Any thread may call any function: the io_service's threads run the      *)
(* callbacks, the application's the others.  The objects are a manager, a  *)
(* TCP server with its connections, a UDP server and a client; two         *)
(* functions of different objects meet only under the manager's create.    *)
(***************************************************************************)
EXTENDS Naturals, Sequences, FiniteSets

CONSTANTS Runners,     (* the threads of the process                            *)
          Connections  (* connection objects of the TCP server             *)

ASSUME ConnectionsAssumption == IsFiniteSet(Connections)

VARIABLES todo,   (* todo[t]: the operations thread t has still to make     *)
          owner   (* owner[m]: the thread that holds m, if any              *)

lockVars == <<todo, owner>>

-----------------------------------------------------------------------------
(* A mutex is named by its member and its object.                          *)
endpoint_mutex      == <<"endpoint_mutex_", "manager">>
acceptor_mutex      == <<"acceptor_mutex_", "tcp_server">>
connections_mutex   == <<"connections_mutex_", "tcp_server">>
sent_mutex(o)       == <<"sent_mutex_", o>>
mutex(o)            == <<"mutex_", o>>
socket_mutex(o)     == <<"socket_mutex_", o>>
connect_timer_mutex == <<"connect_timer_mutex_", "client">>
unicast_mutex       == <<"unicast_mutex_", "udp_server">>
multicast_mutex     == <<"multicast_mutex_", "udp_server">>

AllMutexes ==
    {endpoint_mutex, acceptor_mutex, connections_mutex, connect_timer_mutex,
     unicast_mutex, multicast_mutex}
    \cup {sent_mutex(o) : o \in {"tcp_server", "udp_server", "client"}}
    \cup {mutex(o) : o \in {"tcp_server", "udp_server", "client"}}
    \cup {socket_mutex(o) : o \in Connections \cup {"client"}}

(* { std::lock_guard<std::mutex> its_lock(m); body }                       *)
Guarded(m, body) == <<[op |-> "lock", m |-> m]>> \o body \o <<[op |-> "unlock", m |-> m]>>
Section(m) == Guarded(m, <<>>)

(* for (...) { std::lock_guard<std::mutex> its_lock(ms[i]); }               *)
SectionOfEach(ms) ==
    [i \in 1 .. 2 * Len(ms) |->
        [op |-> IF i % 2 = 1 THEN "lock" ELSE "unlock", m |-> ms[(i + 1) \div 2]]]

-----------------------------------------------------------------------------
(* The TCP server and its connections.                                     *)
server_start(c) == Guarded(acceptor_mutex, Section(socket_mutex(c)))

(* stop() meets the connections in the order of the map.                   *)
Orders ==
    {cs \in [1 .. Cardinality(Connections) -> Connections] :
        \A i, j \in DOMAIN cs : cs[i] = cs[j] => i = j}

server_stop(cs) ==
    Section(acceptor_mutex)
    \o Guarded(connections_mutex, SectionOfEach([i \in DOMAIN cs |-> socket_mutex(cs[i])]))

(* receive() closes the connection and removes it if its buffer cannot     *)
(* grow.  It never grows: missing_capacity_ is 0.                          *)
connection_receive_growing(c) ==
    Guarded(socket_mutex(c), Section(connections_mutex))

connection_receive(c) == Section(socket_mutex(c))

(* receive_cbk() takes the mutex to report a timeout.  The wait_until_sent() *)
(* it calls afterwards has no definition in the server.                      *)
connection_receive_cbk(c) == Section(socket_mutex(c))

accept_cbk(c, next) ==
    Section(socket_mutex(c)) \o Section(connections_mutex)
    \o connection_receive(c) \o server_start(next)

connection_send_data(c) == Guarded(socket_mutex(c), Section(sent_mutex("tcp_server")))

server_send_cbk(o) == Section(sent_mutex(o)) \o Section(mutex(o))

stop_and_remove_connection(c) ==
    Guarded(connections_mutex, Section(socket_mutex(c)))
    \o Section(connections_mutex) \o server_send_cbk("tcp_server")

ServerFunctions ==
    {server_send_cbk("tcp_server")} \cup {server_stop(cs) : cs \in Orders}
    \cup {connection_send_data(c) : c \in Connections}
    \cup {stop_and_remove_connection(c) : c \in Connections}
    \cup {server_start(c) : c \in Connections}
    \cup {accept_cbk(c, next) : c, next \in Connections}
    \cup {connection_receive_cbk(c) : c \in Connections}

(* The client.  Callbacks are posted or run by the io_service, never under *)
(* the mutex that connect() or send_data() holds.                          *)
connect == Section(socket_mutex("client"))
client_stop == Section(connect_timer_mutex) \o Section(socket_mutex("client"))

client_send ==
    Guarded(mutex("client"),
            Guarded(socket_mutex("client"), Section(sent_mutex("client"))))

client_receive == Section(socket_mutex("client")) \o Section(socket_mutex("client"))

connect_cbk ==
    Section(connect_timer_mutex)
    \o Section(socket_mutex("client")) \o client_receive

client_send_cbk == Section(mutex("client")) \o Section(socket_mutex("client")) \o connect

(* The UDP server.                                                         *)
receive_unicast == Section(unicast_mutex)
udp_server_send_data == Section(unicast_mutex)
on_unicast_received == Section(multicast_mutex) \o receive_unicast
udp_server_stop == Section(unicast_mutex) \o Section(multicast_mutex)

(* The manager starts what it creates with its mutex held.                 *)
create_endpoint ==
    {Guarded(endpoint_mutex, server_start(c)) : c \in Connections}
    \cup {Guarded(endpoint_mutex, receive_unicast), Guarded(endpoint_mutex, connect)}
find_or_remove_endpoint == Section(endpoint_mutex)

CallableFunctions ==
    ServerFunctions
    \cup {connect, client_stop, client_send, connect_cbk, client_send_cbk}
    \cup {on_unicast_received, udp_server_stop, udp_server_send_data,
          server_send_cbk("udp_server")}
    \cup create_endpoint \cup {find_or_remove_endpoint}

-----------------------------------------------------------------------------
Free(m) == owner[m] = {}

LockInit ==
    /\ todo = [t \in Runners |-> <<>>]
    /\ owner = [m \in AllMutexes |-> {}]

Call(t) ==
    /\ todo[t] = <<>>
    /\ \E f \in CallableFunctions : todo' = [todo EXCEPT ![t] = f]
    /\ UNCHANGED owner

Lock(t) ==
    /\ todo[t] # <<>> /\ Head(todo[t]).op = "lock"
    /\ Free(Head(todo[t]).m)
    /\ owner' = [owner EXCEPT ![Head(todo[t]).m] = {t}]
    /\ todo' = [todo EXCEPT ![t] = Tail(@)]

Unlock(t) ==
    /\ todo[t] # <<>> /\ Head(todo[t]).op = "unlock"
    /\ owner' = [owner EXCEPT ![Head(todo[t]).m] = {}]
    /\ todo' = [todo EXCEPT ![t] = Tail(@)]

LockNext == \E t \in Runners : Call(t) \/ Lock(t) \/ Unlock(t)

LockSpec == LockInit /\ [][LockNext]_lockVars

-----------------------------------------------------------------------------
(* No threads wait for each other in a circle, a thread for itself          *)
(* included: stop() and a failed write take connections_mutex_ before a     *)
(* socket_mutex_, start() acceptor_mutex_ before one, a send sent_mutex_    *)
(* last, and create all of it inside endpoint_mutex_; no function takes     *)
(* them the other way round.                                                *)
Waits(t) == todo[t] # <<>> /\ Head(todo[t]).op = "lock" /\ ~Free(Head(todo[t]).m)
NoCircularWait ==
    \A S \in (SUBSET Runners) \ {{}} :
        \E t \in S : ~(Waits(t) /\ owner[Head(todo[t]).m] \subseteq S)
=============================================================================
