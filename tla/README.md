# Endpoints over Boost.Asio: TLA+ models, checks and proofs

This directory verifies `src/doipendpoint`: the TCP and UDP, client and server
endpoints of a DoIP stack (cut down from vsomeip's endpoints), the manager that
creates them, and, as far as they matter, the Boost.Asio operations they use.
The modules are written from the C++ text; where a comment of the code says
something else than the code does, a *violation* run shows it.

    ClientEndpoint              client_endpoint_impl: state and callbacks of both clients
      TcpClientEndpoint         tcp_client_endpoint_impl
      UdpClientEndpoint         udp_client_endpoint_impl
    TcpServerEndpoint           tcp_server_endpoint_impl, its connections, server_endpoint_impl
    UdpServerEndpoint           udp_server_endpoint_impl
    ClientLink                  what a client endpoint promises, abstractly; both clients implement it
    UdpClientRemote             UdpClientEndpoint with addresses: whom it talks to
    TcpClientStream             what the TCP client puts on the wire
    UseCount                    endpoint_impl: use_count_
    EndpointManager             endpoint_manager_impl: maps and ownership of endpoints
    Mutexes                     every mutex, and the order in which each function takes them
    IoOps                       operations pending in the reactor, completions queued
    IoTable                     IoOps as a specification, for each descriptor
    SocketService               the helper's socket service (1.74), which implements IoTable
    MC*.tla, *.cfg              instances for TLC
    *_proofs.tla                theorems, checked by TLAPS

## 1. The system

### Components

| component | state it keeps | operations |
|---|---|---|
| client endpoint base, `client_endpoint_impl` | `state_` (atomic), `socket_` (under `socket_mutex_`), `local_port_`, `sending_blocked_`, `was_not_connected_` (atomic), `strand_`, connect timer | `stop`, `set_connected`, `set_established`, `send`; callbacks `connect_cbk`, `send_cbk`, `wait_connect_cbk`; `shutdown_and_close_socket(recreate)` |
| TCP client | `recv_buffer_`, `is_sending_`, `sent_timer_` | `start`, `connect`, `receive`, `send_data`; callbacks `receive_cbk`, `write_completion_condition`, an unused three-argument `send_cbk` |
| UDP client | `recv_buffer_`, `remote_` | `start`, `connect`, `receive`, `send_data`; callback `receive_cbk` |
| server endpoint base, `server_endpoint_impl` | `is_sending_`, `sent_timer_` | `send`; callback `send_cbk` |
| TCP server | `acceptor_` (under `acceptor_mutex_`), `connections_` (under `connections_mutex_`); per connection a socket, a receive buffer and its counters | `start`, `stop`; callbacks `accept_cbk`, the retry timer; `connection::start`, `stop`, `receive`, `receive_cbk`, `send_data`, `write_completion_condition`, `remove_connection` |
| UDP server | `unicast_socket_`, `unicast_remote_`, one receive buffer | `start`, `stop`, `send_data`; callback `on_unicast_received` |
| endpoint manager | `server_endpoints_`, `client_endpoints_` (one recursive mutex) | create, find, remove, for clients and servers |
| endpoint base | `use_count_` (atomic, uninitialized) | increment, decrement, read |
| helper | copies of Boost.Asio's socket services for Boost 1.55 to 1.74, extended to report a datagram's destination | open, bind, close, start and complete operations |

### How they interact

The application calls the public interface from threads of its own; the
callbacks run on the threads that run the one `io_service`. An endpoint starts
an operation on its socket while it holds the socket's mutex; the reactor keeps
it until the kernel finishes it or the descriptor is closed, then queues the
callback. `connect_cbk` and `receive_cbk` of the clients are wrapped in
`strand_` and exclude each other; `send_cbk` is not. A callback holds the
endpoint by a `shared_ptr`, so an endpoint the manager forgets lives on while
operations of it are pending. Clients and servers share no state but the
`io_service` and the manager's maps.

### What is hard

* A callback runs long after its operation ended, on whatever the endpoint has
  become: `connect_cbk` and the UDP `receive_cbk` close *the current* socket.
* `send_cbk` reconnects in two critical sections (`shutdown_and_close_socket(true)`,
  then `connect()`), on any worker, while `start`, `stop` and another `send_cbk`
  do the same.
* `sending_blocked_` is a latch: it is set by an aborted send and never reset.
* An `async_write` that has written a part goes on by itself, on a socket that
  may have been closed, reopened or replaced.
* The accept loop is kept going by its own callback, on every path, one of them
  a timer; `stop()` closes the acceptor and clears the map in two critical
  sections while a connection is between the kernel and the map.
* One `is_sending_` for all connections of a server; one that is never reset in
  the TCP client.
* Locks nest: `create_*` starts an endpoint inside `endpoint_mutex_`, `stop()`
  of the TCP server stops connections inside `connections_mutex_`.
* `decrement_use_count` tests and subtracts in two steps; `remove_*` tests the
  count under a mutex that `increment_use_count` does not take.
* A descriptor is a number that the kernel hands out again, and an operation
  keeps the number it was started with.
* `receive()` of the UDP client lets every datagram overwrite `remote_`, the
  address `connect()` uses.

`PROJECT.json` lists each such place with its line under "hazards", and the
properties that would notice if it went wrong.

### What makes a component correct

* **Clients.** One connect at a time; the port reported is that of an open,
  bound socket; a stopped endpoint stays closed, an open one is closed only for
  a reason; a blocked one closes; `state_` is CLOSED over a live socket only
  where the code is about to change that; an open UDP socket is listened to.
* **TCP server.** The accept loop never dies; every live connection is in the
  map under its peer's address, so that `stop()` reaches it; the flag
  `is_sending_` does not stick.
* **UDP server.** Each `start()` makes one receive loop, which no error ends and
  none doubles; no receive writes the buffer while a message is handled; a
  stopped server falls silent.
* **Wire.** The peer reads whole messages on every connection on which writes
  did not overlap and which was not opened under a half-written message.
* **Manager.** A used endpoint stays findable; a listening server is known; no
  empty inner map is left behind.
* **Use count.** It counts the users, and does not wrap below zero.
* **Mutexes.** No circle of threads that wait for each other.
* **Socket service.** An operation waits on a descriptor only while its socket
  has it; each descriptor has one owner; no worker blocks in a system call.

### The code as it stands

The code does not compile at this commit: `sending_blocked_` is used and not
declared, the three-argument constructor of `endpoint_impl` is missing,
`server_endpoint_impl::stop()`, the server's `connection::wait_until_sent` and
`calculate_shrink_count` are declared or called and have no body, and
`client_endpoint_impl::send` calls `send_data` of its subclasses. The models
read each function as it is written: `sending_blocked_` is a flag that starts
false, a function without a body does nothing, `send` runs the subclass's
`send_data`. `connection::send_data` of the TCP server has no caller; the model
lets the application call it for a connection in `connections_`.
`start_connect_timer`, `wait_connecting_timer` and the client's `wait_until_sent` have no
caller either, and are not modelled.

## 2. The models

### Steps

Every access to a socket is inside a critical section of its mutex, so a
critical section is one step. A callback that takes the mutex several times is
several steps; `frame[t]` is where thread `t` stands, and any other thread may
step in between. An atomic that a callback writes next to no other shared access
is merged with the neighbouring step. A worker takes *any* queued completion: with two or more
workers a callback taken first may be overtaken before its first critical
section, so the order of the queue orders nothing. The strand is the condition
that no worker is inside a strand callback (`StrandFree`).

The kernel and the reactor are actions of their own (`ConnectDone`,
`ConnectionFails`, `SendDone`, `AcceptOk`, ...): they end pending operations,
with any result that the callbacks tell apart. Closing a descriptor turns what
is pending into `operation_aborted` and leaves what is queued as it is. Errors
that the callbacks treat alike are one result (`lost` stands for broken_pipe,
not_connected, bad_descriptor and no_permission).

Undefined behaviour is a choice over its outcomes: the client's `is_sending_`
starts with either value; a partial write that goes on after its socket object
was freed (`orphaned` in `TcpClientEndpoint`, `freed` in `TcpClientStream`) meets
a closed socket, whatever the new one is, or the object that took its place.

### ClientEndpoint, TcpClientEndpoint, UdpClientEndpoint

`sock` is the descriptor as the kernel has it (closed, unbound, connecting,
connected, unconnected); `pending[c]` and `ready[c][r]` count the operations
with callback `c` and their queued completions (IoOps), because two of a kind
are interchangeable. `connect(protocol)` is `connect()` with its three endings:
`open` fails, `bind` fails (both post `connect_cbk` with the error), or
`async_connect` starts. The record `protocol` is what the template parameter
changes: whether a connect stays in progress, and which open sockets the kernel
binds again.

| code | actions |
|---|---|
| `connect_cbk` | `connect_cbk`, then `close`; or `set_local_port`, then `receive` |
| `send_cbk` (base) | `send_cbk_lost`, `recreate`, `reconnect`; `send_cbk_aborted`, `close`; `send_cbk_done`; `send_cbk_no_destination` (UDP) |
| `receive_cbk` | TCP: `receive_cbk`, which only logs. UDP: `receive_cbk`, then `receive` or `close` |
| `start`, `stop`, `set_connected` | one step each |
| `set_established` | `set_established` (reads `state_`), `set_established_locked` |
| `send`, `send_data` | `send_data` |
| rest of an `async_write` | `write_completion_condition` |

Four history variables carry what the properties speak of: `everStopped`,
`quietStop` (the last of start and stop was a stop that found no failed or
half-written send), `appClosed` (the application itself set CLOSED since the
last connect) and `kept` (connect() opened the socket when no callback was left
that would close it, and nothing has happened since that is a reason to). No
guard reads them.

`ClosesForAReason` says what `kept` is for. The callbacks close *the current*
socket: a late aborted `connect_cbk`, and a late refusal of a UDP peer, do close a
newer, connected one. That is what the code does; the property confines closing
to these causes, `stop()`, a block and a failed `open`. Nothing connects again
after a failed connect either, and no property asks for it: `start_connect_timer`
has no caller.

### ClientLink

The abstract specification of a client endpoint: a link that is closed, idle,
dialling or up, a port that may be known, and whether it was stopped for good.
It is dialled only while closed or idle, so never under a connection that is up
or a connect that is under way; it dials by itself (`Redial`) only if it was not
stopped; a port is known only while it is open. `TcpClientEndpoint` and
`UdpClientEndpoint` implement it under the mapping `link <- LinkOf` (the socket;
unbound and unconnected are idle), `port <- localPort`, `stopped <- quietStop`.
`SendWakes` is the difference: a UDP `send` on a stopped endpoint is started on
a closed socket, fails, and reconnects; the TCP one tests the socket first.

### UdpClientRemote

A superposition: every step of `UdpClientEndpoint` with what it does to
`remote_`, to the address the kernel connected the socket to, and to datagrams
of strangers that came between `bind()` and `connect()`. `receive()` hands
`remote_` itself to `async_receive_from`, so a datagram replaces it.

### TcpClientStream

The actions are named after the functions, with `stream_` in front: the module of
the proofs extends this one and `TcpClientEndpoint`, which counts sends; here each
has an identity and a number of parts, so that one can say what arrives. An `async_write` is `send_data`, then
`TakeParts` (the kernel takes some of it) and `write_completion_condition` (the
rest is queued on the socket as it is then, behind what waits there already, or
fails: on a closed socket, or on the freed object of a write in `freed`) in
turn. The history `mixed` names the connections on which the peer may read a
mixture: those on which a send was called with a write under way (`send_data`
does not look at `is_sending_`), and those opened under a write between two of
its parts. `WholeMessages` speaks of all others, so that such a write spoils one
connection and not the next. That each part of a message is written once is
the library's own bookkeeping, and is not claimed. That the caller's buffer
lives until the write is over is assumed; nothing in the code sees to it.

### TcpServerEndpoint

A connection object is a name of the set `Connections`, free again when nothing
holds it (`Held`): that is the `shared_ptr` count. `accepting[c]`,
`receiving[c]` and `sending[c]` are the stages of its three operations,
`connections` is the map by peer address, with the extra key `Unspecified` for
the address that `remote_endpoint()` returns when it fails. `accept_cbk` is
`accept_cbk_ok`, `insert`, `connection_start`, `start_again`, or one of its error
branches; its frame holds the connection until `start_again`, as the callback's
argument does. The retry timer is `retry`; a failed write is
`stop_and_remove_connection`, `remove_connection`, `send_cbk`; `stop` is `stop`
and `stop_connections`.

### UdpServerEndpoint

`open` is the socket, `pending` and `ready` the operations of IoOps, `frame` as
above. `on_unicast_received` is the action of that name (an abort ends it),
`lock_multicast_mutex`, `on_message_received` (which ends with the unlock) and
`receive_again`; the worker whose frame is `on_message_received` holds
`multicast_mutex_`. That is how the mutex is abstracted, so that two messages are
never handled in parallel holds by the shape of the model and is no property.
`stop` is `stop` (close the socket) and `stop_multicast`
(wait for the mutex; there is no multicast socket to close). `is_sending_` is
left out: this class never sets it. A second call of `start()` makes a second
receive loop on the one buffer, and one loop's receive may write what the other
reads. So `MessageNotOverwritten` speaks of a server started once, as the manager
does. `EachStartOneLoop` counts the loops: no result of a receive ends one or
makes two of it while the socket is open.
Two histories, `stopped` and `lateMessages`, count the messages handled after
`stop()` returned.

### UseCount

`use_count_` as a word of `Word` values, with any initial value, because the
constructor leaves it uninitialized. `decrement_use_count` is its test
(`test_use_count`) and its subtraction. A thread may decrement without having
incremented; that is remembered in `surplus`, and in `raced` that a thread passed
the test when the count was no larger than the number of threads already between
test and subtraction (`Races`): there, and only there, the word can wrap.

### EndpointManager

The two three-level maps as functions, with `operator[]` that creates
(`Assign`) and an erase that removes the inner maps it empties (`Erase`). An
endpoint is an object that lives while a map, an application thread or one of
its own callbacks holds it; of its behaviour the module keeps whether it is
running, closing or idle, which the endpoints' modules justify. All operations
hold `endpoint_mutex_` and are one step, but `remove_*`: the count it tests may
change before it erases. `create_*` of a TCP server fails while another one
listens on the port; a UDP server binds with SO_REUSEADDR and replaces the one
in the map. The application is assumed to count itself out before it drops its
pointer.

### Mutexes

Each function is the sequence of lock and unlock operations on its longest
path (`stop()` of the TCP server meets the connections in any order); an early
return leaves whole sections out, and so adds no order. Any
thread may call any function at any time. The other modules take a critical
section for one step; this one shows that the nesting that is left behind does
not deadlock.

### IoOps, IoTable, SocketService

What the endpoints' modules assume of Boost.Asio is `IoOps`: starting an
operation makes it pending, the kernel ends it, a close turns all that is
pending into aborted completions. `IoTable` states this as a specification, one
pair of tables for each descriptor. `SocketService` is the code:
`reactive_socket_service_base_ext` and the receive operation of the 1.74 copy,
with socket objects that are constructed, moved and destroyed, descriptor
numbers that the process reuses, the flags `internal_non_blocking` and
`possible_dup`, and operations with an identity. It implements `IoTable` under
the mapping that counts operations by descriptor, stage, callback and result.
`base_move_assign` has no test for moving an object to itself, and neither has
the model. The repository's own code only opens, closes and destroys such
sockets and starts operations on them; assigning and moving are the rest of the
helper's interface, which nothing in the repository calls. A descriptor
that `do_open` opened is assumed never to be duplicated later (`dup()`, `fork()`):
`NoOrphanedRegistration` rests on this, as `possible_dup` does in the code.
Epoll and the `io_service` themselves are external.

### Faulty variants

An operator such as `send_data_unchecked` stands before the definition it
varies and is used by nothing. `PROJECT.json` ("mutants") pairs it with the
property that fails when it takes the definition's place: this shows which
detail of the code the property depends on.

## 3. What the runs show

| run | properties | instance | what it shows |
|---|---|---|---|
| `tcp_client` | LocalPortOfOpenSocket, OneConnectInProgress, BlockedEndpointCloses, ClosedStateNotOverLiveSocket, StoppedStaysClosed, ClosesForAReason, ImplementsClientLink, BlockedEventuallyClosed | 2 workers, 1 application thread, 3 callbacks, fairness | however reconnects, starts, stops and late callbacks cross, there is one connect at a time, socket, port, `state_` and the block agree, an open endpoint is closed for the named causes only, it implements ClientLink, and a blocked one closes in the end |
| `udp_client` | BlockedEndpointCloses, StoppedStaysClosed, ClosesForAReason, ImplementsClientLink, OpenSocketIsServed, PeerKeptUnlessExposed | 2 workers, 1 thread, 3 callbacks, 1 stranger | an open UDP socket never goes deaf; overwriting `remote_` is harmless while every connect succeeds and no datagram slips in before it |
| `tcp_stream` | WholeMessages | 3 messages of 3 parts, 3 connections | overlapping writes, a reopened and a freed socket spoil the connection they happen on and no other: on the rest the peer reads whole messages |
| `tcp_server` | AcceptLoopAlive, LiveConnectionKnown, StopLeavesOnlyLate, SendingFlagNotStuck | 2 workers, 1 thread, 3 objects, 2 peers | no error ends the accept loop; `stop()` misses only connections that were between kernel and map |
| `tcp_server_retry` | RetryAccepts, AcceptingEndsAfterStop | 2 workers, 2 objects, 1 peer, fairness | after running out of descriptors the server accepts again, or is stopped; a stopped one ends its accept loop and its timer, and is not kept alive by them |
| `udp_server` | EachStartOneLoop, MessageNotOverwritten, StoppedFallsSilent, LoopsEndAfterStop | 3 workers, 2 threads, 2 starts, 1 send, fairness | one loop or two, as many as calls of `start()`: no error ends or doubles them, a server started once does not overwrite what it handles, each loop handles at most one message after `stop()` returned, and ends, so that it no longer keeps the endpoint alive |
| `use_count` | CountIsUsers, NoUnderflow | 3 threads, word of 4 | the two-step decrement is exact for users; surplus decrements wrap the word only when more have passed the test than the count can bear |
| `manager` | MapsWellFormed, UsedIsFindable, RunningServerKnown | 2 threads, 2 objects, 2 ports | erase and create keep the nested maps free of empty maps and wrong keys; what a race of remove and increment, or a second create, may and may not lose |
| `mutexes` | NoCircularWait | 3 threads, 2 connections | no function takes two mutexes against the order of another |
| `socket_service` | WaitsOnOwnDescriptor, OneOwnerPerDescriptor, WorkersNeverBlock, NoOrphanedRegistration, ImplementsIoTable | 2 sockets, 2 descriptors, 2 operations | no operation is performed on a descriptor number that has changed hands; the service does what IoOps assumes |
| `tcp_client_block` (violation) | BlockedMeansStopped | 1 worker | finding 1 |
| `udp_remote` (violation) | ConnectsToItsPeer | 1 worker, 1 stranger | finding 2 |

### Bounds

* `MaxOutstanding`: the application calls only while fewer callbacks are
  pending, queued or running. No callback adds to their number, so this bounds
  the clients' state and nothing else. Three admit two failing sends and a
  receive; a `send_cbk` that reconnects turns into the connect, so this is a
  crowd in which one reconnect disturbs another. TLAPS proves the invariants and
  the refinements of `tcp_client` and `udp_client` without the bound (section 4).
* `Workers`: two, so that two callbacks interleave; a third adds a third
  callback that is anywhere, and the clients' steps touch only one socket.
  `Callers`: one, whose calls already interleave with the workers; only
  `set_established` has an intermediate step.
* `Connections`, `Remotes`: an old and a new connection of one peer, a
  connection of another, and the one being accepted. A connection's peer, once
  gone, does not come back on the same connection. The kernel hands out a
  connection only while an object is left for the next accept (`AcceptOk`).
* `MaxStarts` of the TCP server: one call of `start()`, as the manager makes. With
  a second one, two accept loops insert connections, and the slower may replace a
  live one; LiveConnectionKnown and StopLeavesOnlyLate are about a server started
  once. One write at a time per connection (`send_data`).
* `MaxStarts` of the UDP server: two, so that two loops compete for the buffer
  and the mutex; three workers, so that one is free while both loops run.
  `MaxSends`: one; sends touch nothing the loops use.
* `Strangers`: one stranger is as good as many.
* `TcpClientStream`: with three parts a write is interrupted twice, with three
  messages one write can be between two others, and a write can go on two
  connections after the one it began on. `MaxConnections` bounds the behaviour.
* `UseCount`: `Word` is 2^32 in the code and 4 in the run, one more than the
  threads (`WordAssumption`); proved for every such word.
* `EndpointManager`: two objects, the one in the map and the one that replaces
  or outlives it; two threads, one that removes and one that counts; two ports of
  one address, so that an inner map is emptied while its neighbour is not. The
  view `LivingEndpoints` drops what is remembered of an object that no longer
  exists, which `Construct` sets anew and no property looks at, and of the
  histories `initial` and `latecomers` what no guard and no property reads.
* `Mutexes`: no function holds more than three mutexes, and three threads are
  enough for the circles that their nesting can close (a circle of two locks
  needs two threads).
* `SocketService`: `Ops` bounds the operations alive at a time; two sockets to
  move between, two numbers, so that one may be somebody else's.

Deadlock is checked in `use_count`, `mutexes` and `socket_service`, whose
callers can always make a call. It is not checked in the others: an endpoint
that nobody calls and whose operations have ended does stop, and the bounds end
the behaviours of the rest. Symmetry is over workers, threads, connections,
peers, endpoints, ports, sockets, descriptors and operations, never in a run that
checks liveness; the refinements are checked as step properties and treat the
names alike.

### Fairness

A worker in the middle of a callback goes on (weak fairness of the worker's
step). The `io_service` queue is first in, first out, so a queued callback runs
in the end however many others come and go. That is strong fairness of the
callbacks a property waits for, since another worker inside the strand, or all
workers busy, may disable them again and again: in the TCP client of
`connect_cbk` with whatever result, in the TCP server of the `accept_cbk` of each
connection and of the timer, in the UDP server of the loop's callback.
In the UDP server a worker between two steps
of the loop may find `multicast_mutex_` taken again and again; it gets it in the
end (strong fairness of `Loop(w)`). The kernel ends every connect, if only
by its timeout (weak fairness of `ConnectDone \/ ConnectionFails`). Nothing is
assumed of the application, of peers, or of the end of a send, a receive or an accept.

### Findings

1. `connect_cbk` and `send_cbk` say "endpoint was stopped" where they meet
   `operation_aborted`. A reconnect aborts operations as well: two sends on a
   connection that breaks are enough for `send_cbk` to set `sending_blocked_`
   although nobody called `stop()`. Nothing resets the flag; from then on every
   `connect_cbk` closes the new socket.
2. The UDP client's `receive()` casts the `const` away from `remote_` and lets
   `async_receive_from` write the sender there. After a failed connect, or a
   datagram between `bind()` and `connect()`, the client reconnects to a stranger.

Seen in passing, without consequence as long as `wait_until_sent` has no caller:
`is_sending_` of the TCP client is set by `send_data` and reset only by a
three-argument `send_cbk`, which no operation runs, because `send_data` binds the
two-argument one of the base class.

## 4. What is proved

Every invariant and every refinement that a run checks is also proved, and so
are the types of the state (that a variable has its type is no claim of a run), for all
values of the constants that meet the named assumptions; what stays with TLC is
listed at the end of this section.

* `ClientEndpoint_proofs` holds the lemmas on the tables of operations and, for
  each shared callback and call, what it preserves, for any `protocol` record.
  `TcpClientEndpoint_proofs` and `UdpClientEndpoint_proofs` combine them with the
  endpoint's own actions. The first also holds the theorems about
  `TcpClientStream`, the second those about `UdpClientRemote`.
* `TcpServerEndpoint_proofs`, `UdpServerEndpoint_proofs`, `SocketService_proofs`
  and `UseCount_proofs` are about the modules they are named for.
* `EndpointManager_proofs` is about the manager and, at its end, about `Mutexes`.

The assumptions. Workers and callers are disjoint (`ThreadsAssumption`,
`NamesAssumption`); the bounds are natural numbers (`BoundAssumption`,
`BoundsAssumption`, `StreamAssumption`); what stands for "none" is no member of
its set (`NamesAssumption`, `PeersAssumption`, `ServiceAssumption`,
`ManagerAssumption`). Where something is counted the set is finite: the workers
of the UDP server, the operations of the socket service, the connections whose
mutexes `stop()` takes, the threads that count themselves in; the latter are
fewer than the values of the word (`WordAssumption`, `ManagerAssumption`: 2^32 in
the code). No proof fixes the size of a set.

| theorem | statement | argument |
|---|---|---|
| `TypeCorrect` | `Spec => [](TypeOK /\ OneConnectInProgress)` | `TypeInv`: that `pending` stays a natural number needs that an operation the kernel ends is pending, which for the connect is exactly `OneConnectInProgress`; the two are inductive together |
| `StopHolds` | `Spec => []StoppedStaysClosed` | `QuietInv`: the promise is not inductive, since a `send_cbk` between `recreate` and `reconnect` may reopen the socket. The strengthening says that after a quiet stop the socket is closed, nothing pends, and no lost or half-written send is queued or being handled |
| `SocketInvHolds` | `Spec => [](LocalPortOfOpenSocket /\ BlockedEndpointCloses /\ ClosedStateNotOverLiveSocket)` | `SocketInv`: the three together with `TypeInv`. Each open socket of a blocked endpoint has a connect callback to come because only a `connect_cbk` that saw the block false passes the test |
| `OneConnectHolds` | `Spec => []OneConnectInProgress` | from `TypeCorrect` |
| `ClosesForAReasonHolds`, `UdpClosesForAReason` | `Spec => []ClosesForAReason` | `KeptInv`: while `kept` holds of an endpoint that is not blocked, no aborted connect is queued and no worker is about to close, and the socket is open unless a `send_cbk` is between `recreate` and `reconnect`. The property alone does not exclude the late callback that closes |
| `LocalPortHolds`, `ClosedStateHolds` | `Spec => []LocalPortOfOpenSocket`, `Spec => []ClosedStateNotOverLiveSocket` | from `SocketInvHolds` |
| `UdpTypeCorrect` | as `TypeCorrect`, for the UDP client | `Base`: every step is a shared callback, a shared call or an `OwnStep`, which leaves the connect alone; the shared lemmas do the rest |
| `UdpSocketInvHolds`, `UdpStopHolds` | as `SocketInvHolds` and `StopHolds` | the same strengthenings, from the same shared lemmas |
| `OpenSocketIsServedHolds` | `Spec => []OpenSocketIsServed` | inductive with the types: a worker in the strand is bound to receive or to close, a receive that ends leaves its callback queued, and whatever opens the socket also posts a connect callback, which starts the next receive |
| `UdpServerTypeCorrect` | `Spec => []TypeOK` | only queued callbacks run, only pending operations end |
| `EachStartOneLoopHolds` | `Spec => []EachStartOneLoop` | inductive with the types: a receive that ends, the callback that is run and the next receive move one loop from one count to the next; an aborted receive is only queued by the close |
| `MessageNotOverwrittenHolds` | `Spec => []MessageNotOverwritten` | `OneLoop`: until the second start the only receive is given up, in the reactor, in the queue or with one worker. The property is not inductive, because it does not exclude a second receive elsewhere |
| `UseCountTypeCorrect` | `Spec => []TypeOK` | `ModType`: what is taken modulo the word is a value of it |
| `CountIsUsersHolds` | `Spec => []CountIsUsers` | `CountInv`: a thread that passed the test is still a user, hence still counted, so the subtraction finds at least 1. The property alone does not say so |
| `NoUnderflowHolds` | `Spec => []NoUnderflow` | `UnderflowInv`: until the race, no more threads are past the test than the count is high, and the count is at most the number of users. `Counted` says what adding and removing a thread does to the number of users |
| `ImplementsClientLinkHolds`, `UdpImplementsClientLink` | `Spec => ImplementsClientLink` | step by step. A step that opens or connects the socket is a `Start` or a `Redial`; that it is no `Redial` after a quiet stop is `QuietInv`, that the port is known only of an open link is `LocalPortOfOpenSocket`; a UDP send on a stopped endpoint is a `Wake` |
| `RemoteIsUdpClient` | `RemoteSpec => Spec` | every step of the superposition is one of `UdpClientEndpoint`, so that all theorems on the client hold with addresses |
| `PeerKeptHolds` | `RemoteSpec => []PeerKeptUnlessExposed` | `RemoteInv`: until the exposure the peer is in `remote_`, no stray datagram waits and no socket is bound without being connected; a UDP connect never stays in progress (`NeverConnecting`) |
| `WholeMessagesHolds` | `StreamSpec => []WholeMessages` | `StreamInv`: only writes that wait are queued, and no message twice; later connections are empty. `CalmInv`: on a connection that is not in `mixed` one write is under way; if it is half done, its last part ends that connection's stream, and its next part follows it |
| `TcpServerTypeCorrect` | `Spec => []TypeOK` | one lemma for each kind of callback, call and kernel step |
| `AcceptLoopAliveHolds` | `Spec => []AcceptLoopAlive` | inductive with the types: whatever takes an accept out of the loop puts a frame, a timer or the next accept in; an aborted accept only comes with a closed acceptor |
| `SendingFlagHolds` | `Spec => []SendingFlagNotStuck` | inductive with the types: a write leaves `sending` only towards a frame that ends in `send_cbk`, which resets the flag |
| `ServerInvHolds`, `LiveConnectionKnownHolds` | `Spec => [](starts <= 1 => LiveConnectionKnown)` | the property rests on how often `start()` was called. `OneLoop`: with one call, at most one accept, callback of it or timer exists. `NewInv`: a connection being accepted has one holder. `PeerInv`: two live connections have two peers, and the map keeps them under these. `InsertInv`: while `accept_cbk` is about to insert, no other live connection has the same peer, since the peer could only have come back through the loop that this very callback has still to start |
| `StopLeavesOnlyLateHolds` | `Spec => [](starts <= 1 => StopLeavesOnlyLate)` | `AcceptorInv`: before `stop()` everything counts as late, after it a closed acceptor hands out nothing; what `stop_connections` does not find in the map is, by LiveConnectionKnown, being accepted |
| `StoppedFallsSilentHolds` | `Spec => []StoppedFallsSilent` | `SilentInv` counts: the receives pending, queued and being handled, and the late messages, are at most the calls of `start()`; once stopped nothing starts a receive that could bring another message |
| `WaitsOnOwnHolds`, `WorkersNeverBlockHolds`, `NoOrphanHolds` | `Spec => []WaitsOnOwnDescriptor`, ... | `ServiceInv`: `OwnsInv`, no two objects have a descriptor and each open one is alive; `FlagsInv`, what `state_` says of blocking and duplicates is so; `QueuedInv`, what is queued has a descriptor of the service. Only the flags make `start_op` and `close` do the right thing, so the properties are not inductive without them |
| `OneOwnerHolds` | `Spec => []OneOwnerPerDescriptor` | `OwnsInv`, and that a set with one member counts 1 |
| `ImplementsIoTableHolds` | `Spec => ImplementsIoTable` | one operation that starts, ends or is taken changes one count by one; a close moves the count of all that are queued on its descriptor |
| `ManagerTypeCorrect`, `MapsWellFormedHolds` | `Spec => []TypeOK`, `Spec => []MapsWellFormed` | what `Assign` and `Erase` make of a nested map, as lemmas; a remove between its test and its erase finds the entry again, as it holds the mutex (`RemovingInv`) |
| `RunningServerKnownHolds` | `Spec => []RunningServerKnown` | `KnownInv` speaks of every object alive, running or not, because a stopped client may start again; a second TCP server of a port is not constructed while one runs |
| `UsedIsFindableHolds` | `Spec => []UsedIsFindable` | `CountInv`: a count that began at 0 is the number of users; so the remove that read 0 erases an endpoint whose users all came after the reading (`ErasingInv`) |
| `NoCircularWaitHolds` | `LockSpec => []NoCircularWait` | each mutex has a level from 1 to 4, and a function is `Nested` if it gives back what it takes and takes only what is above all it holds. That is closed under `Guarded`, under sequence and under a loop of sections, so each function is shown to be nested the way it is written. `LockInv`: a thread owns what the rest of its function unlocks first. In a circle the levels waited for would rise forever |

The proofs found two things. LiveConnectionKnown is false of a server that is
started twice, which the run's bound had hidden; the theorem says so. And
`UsedIsFindable` needs fewer threads than the word has values, now an assumption.

Only model-checked: the liveness properties `BlockedEventuallyClosed`,
`RetryAccepts`, `AcceptingEndsAfterStop` and `LoopsEndAfterStop`, since TLAPS
reasons neither about fairness nor about ENABLED here; and the two violations,
which are counterexamples.

## 5. What is not modelled

* **The copies of Boost.Asio.** Of the repository's 52,856 lines of C++, 50,634
  are four copies (Boost 1.55, 1.66, 1.70, 1.74) of Boost.Asio's sockets,
  acceptors and services under `include/helper`; a build selects one by its
  Boost version. They differ from Boost by a receive operation that also
  reports a datagram's destination, and only the UDP server uses them. Modelled
  is what such a socket runs, from the 1.74 copy: the service base and the
  receive operation. The 1.70 copy of the service base is the same text, that of
  1.66 differs in the constructor, that of 1.55 in the interface. The rest are
  class templates that forward to the service, synchronous calls, `release`,
  accept and connect operations, and `_local` variants, none of which the
  repository's own code gives a behaviour of its own: there is nothing of this
  system to model in them. The own code is 2,222 lines, and the modules cover
  about half of those; the other half is mostly declarations, logging, includes,
  and the functions without a caller named below.
* **Bytes.** Buffers, sizes, the growth of the server's receive buffer.
  `missing_capacity_` and `shrink_count_` never leave 0, so the exception branch
  of the server's `receive()` cannot be taken. (It would take mutexes in the
  wrong order: the faulty variant `connection_receive_growing` shows it.) How
  long the caller's buffer must live is a precondition of `send_data`.
* **Timers without a caller**: the connect timer, `wait_until_sent`.
* Socket options, except that failing to set one drops an accepted connection.
* `receive_multicast`, `set_broadcast` and the like, which have no body; code
  that the preprocessor drops, such as the creation of UDP clients.
* Weak points that the models contain and no property speaks of, since nothing
  promises otherwise or nothing that runs depends on it: `set_established` may
  overwrite a CONNECTING it did not see; the end of one connection's write clears
  the `is_sending_` of another's; nothing retries a failed connect; a use count
  that does not begin at 0 may wrap with its users. Late callbacks that close a
  newer socket, a latecomer between the test and the erase of `remove_*`, and UDP
  servers and clients that `create_*` overwrites are named as exceptions by
  `ClosesForAReason`, `UsedIsFindable` and `RunningServerKnown`.

## 6. Plan

Done: the modules of both clients, both servers, the manager, the use count,
the mutexes and the socket service with their runs; the abstract specifications
ClientLink and IoTable with their refinements; the theorems of section 4, which
cover every invariant and refinement of the runs.

Next:

1. Action properties worth proving from the invariants at hand, such as what may
   change `remote_` or take an entry out of `connections_`.
2. If the code comes to call them: the connect timer and `wait_until_sent`.
