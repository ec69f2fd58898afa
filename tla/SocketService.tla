--------------------------- MODULE SocketService ----------------------------
(***************************************************************************)
(* reactive_socket_service_base_ext, the part of the helper's copy of      *)
(* Boost.Asio (1.74) that the UDP server's sockets are made of: socket     *)
(* objects, their descriptors, and the operations started on them, each    *)
(* with an identity.                                                       *)
(*                                                                         *)
(* A descriptor is a number that the kernel hands out again after a close, *)
(* to these sockets or to others in the process.  An operation keeps the   *)
(* number it was started with.  The reactor is epoll; it and the           *)
(* io_service are not part of the repository.  An object is used by one    *)
(* thread at a time, which its owner's mutex sees to.                      *)
(***************************************************************************)
EXTENDS Naturals, FiniteSets

CONSTANTS Sockets,    (* socket objects                                    *)
          Fds,        (* descriptor numbers                                *)
          Ops,        (* bound: operation objects alive at a time          *)
          invalid_socket

ASSUME ServiceAssumption == invalid_socket \notin Fds
ASSUME OpsAssumption == IsFiniteSet(Ops)

VARIABLES
    alive,     (* the objects that exist                                   *)
    socket,    (* socket[s]: impl.socket_                                  *)
    state,     (* state[s]: impl.state_, a set of flags                    *)
    fds,       (* fds[f]: the descriptor f as the kernel has it            *)
    orphans,   (* epoll still knows a descriptor whose registration the    *)
               (* reactor has released                                     *)
    ops        (* ops[o]: the operation objects                            *)

vars == <<alive, socket, state, fds, orphans, ops>>

Callbacks == {"receive", "send"}
Results == {"done", "bad_descriptor", "failed", "aborted"}
Flags == {"internal_non_blocking", "possible_dup"}

(* closed, or open by one of these sockets or by somebody else; an open    *)
(* descriptor may have been duplicated.                                    *)
Closed == [owner |-> "none", blocking |-> FALSE, dup |-> FALSE]
Free == [stage |-> "free", cbk |-> "none", fd |-> invalid_socket, result |-> "none"]

TypeOK ==
    /\ alive \subseteq Sockets
    /\ socket \in [Sockets -> Fds \cup {invalid_socket}]
    /\ state \in [Sockets -> SUBSET Flags]
    /\ fds \in [Fds -> [owner : {"none", "self", "other"}, blocking : BOOLEAN,
                        dup : BOOLEAN]]
    /\ orphans \in BOOLEAN
    /\ ops \in [Ops -> {Free}
                 \cup [stage : {"queued"}, cbk : Callbacks, fd : Fds, result : {"none"}]
                 \cup [stage : {"posted"}, cbk : Callbacks,
                       fd : Fds \cup {invalid_socket}, result : Results]]

Init ==
    /\ alive = {}
    /\ socket = [s \in Sockets |-> invalid_socket]
    /\ state = [s \in Sockets |-> {}]
    /\ fds = [f \in Fds |-> Closed]
    /\ orphans = FALSE
    /\ ops = [o \in Ops |-> Free]

is_open(s) == socket[s] # invalid_socket

Set(s, f, flags) ==
    /\ socket' = [socket EXCEPT ![s] = f]
    /\ state' = [state EXCEPT ![s] = flags]

-----------------------------------------------------------------------------
(* construct, in the constructor of an object.                             *)
construct(s) == Set(s, invalid_socket, {})

constructor(s) ==
    /\ s \notin alive
    /\ alive' = alive \cup {s}
    /\ construct(s)
    /\ UNCHANGED <<fds, orphans, ops>>

(***************************************************************************)
(* do_open: a new descriptor, which blocks.  When the socket is open       *)
(* already, the kernel gives none or the reactor refuses it, nothing       *)
(* changes: socket_holder closes what was opened.  Nobody is assumed to     *)
(* duplicate it afterwards (dup(), fork()): the service would not know.     *)
(***************************************************************************)
do_open(s) ==
    /\ s \in alive /\ ~is_open(s)
    /\ \E f \in Fds :
         /\ fds[f] = Closed
         /\ fds' = [fds EXCEPT ![f] = [owner |-> "self", blocking |-> TRUE, dup |-> FALSE]]
         /\ Set(s, f, {})
    /\ UNCHANGED <<alive, orphans, ops>>

(* do_assign: a descriptor that somebody else opened.                      *)
Assign(s, flags) ==
    /\ s \in alive /\ ~is_open(s)
    /\ \E f \in Fds :
         /\ fds[f].owner = "other"
         /\ fds' = [fds EXCEPT ![f].owner = "self"]
         /\ Set(s, f, flags)
    /\ UNCHANGED <<alive, orphans, ops>>

do_assign_as_opened(s) == Assign(s, {})
do_assign(s) == Assign(s, {"possible_dup"})

(***************************************************************************)
(* The reactor gives up all operations that wait on f: they are posted     *)
(* with operation_aborted.                                                 *)
(***************************************************************************)
cancel_ops(f) ==
    ops' = [o \in Ops |-> IF ops[o].stage = "queued" /\ ops[o].fd = f
                          THEN [ops[o] EXCEPT !.stage = "posted", !.result = "aborted"]
                          ELSE ops[o]]

(***************************************************************************)
(* deregister_descriptor.  With closing set the reactor leaves it to the   *)
(* kernel to take the descriptor out of epoll when it is closed, which it  *)
(* does not do while a duplicate is open.                                  *)
(***************************************************************************)
deregister_descriptor(f, closing) ==
    /\ cancel_ops(f)
    /\ orphans' = (orphans \/ (closing /\ fds[f].dup))

(* What close and destroy do to the descriptor of an object that is open.  *)
Close_without_deregister(s) ==
    /\ fds' = [fds EXCEPT ![socket[s]] = Closed]
    /\ UNCHANGED <<orphans, ops>>

Close_dropping_ops(s) ==
    /\ fds' = [fds EXCEPT ![socket[s]] = Closed]
    /\ ops' = [o \in Ops |-> IF ops[o].stage = "queued" /\ ops[o].fd = socket[s]
                              THEN Free ELSE ops[o]]
    /\ UNCHANGED orphans

Close(s) ==
    /\ deregister_descriptor(socket[s], "possible_dup" \notin state[s])
    /\ fds' = [fds EXCEPT ![socket[s]] = Closed]

close(s) ==
    /\ is_open(s)
    /\ Close(s)
    /\ construct(s)
    /\ UNCHANGED alive

destroy(s) ==
    \/ is_open(s) /\ Close(s)
    \/ ~is_open(s) /\ UNCHANGED <<fds, orphans, ops>>

destructor(s) ==
    /\ s \in alive
    /\ destroy(s)
    /\ alive' = alive \ {s}
    /\ Set(s, invalid_socket, {})

(* Moving: the descriptor, its flags and its operations change hands.      *)
Move_keeping_source(from, to) ==
    /\ socket' = [socket EXCEPT ![to] = socket[from]]
    /\ state' = [state EXCEPT ![to] = state[from]]

Move(from, to) ==
    /\ socket' = [socket EXCEPT ![to] = socket[from], ![from] = invalid_socket]
    /\ state' = [state EXCEPT ![to] = state[from], ![from] = {}]

base_move_construct(s, other) ==
    /\ s \notin alive /\ other \in alive
    /\ alive' = alive \cup {s}
    /\ Move(other, s)
    /\ UNCHANGED <<fds, orphans, ops>>

base_move_assign(s, other) ==
    /\ {s, other} \subseteq alive
    /\ destroy(s)
    /\ Move(other, s)
    /\ UNCHANGED alive

cancel(s) ==
    /\ is_open(s)
    /\ cancel_ops(socket[s])
    /\ UNCHANGED <<alive, socket, state, fds, orphans>>

-----------------------------------------------------------------------------
(***************************************************************************)
(* socket_ops::set_internal_non_blocking, in case it succeeds.             *)
(***************************************************************************)
SetNonBlocking_ignoring_failure(s) ==
    /\ state' = [state EXCEPT ![s] = @ \cup {"internal_non_blocking"}]
    /\ UNCHANGED fds

SetNonBlocking(s) ==
    IF "internal_non_blocking" \in state[s] THEN UNCHANGED <<state, fds>>
    ELSE /\ state' = [state EXCEPT ![s] = @ \cup {"internal_non_blocking"}]
         /\ fds' = [fds EXCEPT ![socket[s]].blocking = FALSE]

(* The results with which non_blocking_recvfrom says that the operation is *)
(* over: recvfrom is repeated after a signal; would_block and try_again    *)
(* leave the operation waiting.                                            *)
non_blocking_recvfrom == {"done", "failed"}

New(o, cbk, f, stage, result) ==
    /\ ops[o].stage = "free"
    /\ ops' = [ops EXCEPT ![o] =
                  [stage |-> stage, cbk |-> cbk, fd |-> f, result |-> result]]

(***************************************************************************)
(* start_op, for async_receive_from and async_send_to: the operation is    *)
(* tried at once and waits if the kernel cannot do it yet; a descriptor    *)
(* that cannot be made non-blocking, or none at all, completes it with an  *)
(* error.                                                                  *)
(***************************************************************************)
start_op(s, o, cbk) ==
    /\ s \in alive
    /\ \/ /\ is_open(s)
          /\ SetNonBlocking(s)
          /\ \/ New(o, cbk, socket[s], "queued", "none")
             \/ \E r \in non_blocking_recvfrom : New(o, cbk, socket[s], "posted", r)
       \/ /\ is_open(s) /\ "internal_non_blocking" \notin state[s]
          /\ New(o, cbk, socket[s], "posted", "failed")
          /\ UNCHANGED <<state, fds>>
       \/ /\ ~is_open(s)
          /\ New(o, cbk, invalid_socket, "posted", "bad_descriptor")
          /\ UNCHANGED <<state, fds>>
    /\ UNCHANGED <<alive, socket, orphans>>

(* do_perform, when epoll reports the descriptor.                          *)
do_perform(o) ==
    /\ ops[o].stage = "queued"
    /\ \E r \in non_blocking_recvfrom :
         ops' = [ops EXCEPT ![o].stage = "posted", ![o].result = r]
    /\ UNCHANGED <<alive, socket, state, fds, orphans>>

(* A worker calls the handler; the operation object is freed before.       *)
do_complete(o) ==
    /\ ops[o].stage = "posted"
    /\ ops' = [ops EXCEPT ![o] = Free]
    /\ UNCHANGED <<alive, socket, state, fds, orphans>>

(* Elsewhere in the process descriptors are opened, duplicated and closed. *)
OthersOpen(f) ==
    /\ fds[f] = Closed
    /\ \E b, d \in BOOLEAN :
         fds' = [fds EXCEPT ![f] = [owner |-> "other", blocking |-> b, dup |-> d]]
    /\ UNCHANGED <<alive, socket, state, orphans, ops>>

OthersClose(f) ==
    /\ fds[f].owner = "other"
    /\ fds' = [fds EXCEPT ![f] = Closed]
    /\ UNCHANGED <<alive, socket, state, orphans, ops>>

Next ==
    \/ \E s \in Sockets :
         \/ constructor(s) \/ destructor(s)
         \/ do_open(s) \/ do_assign(s) \/ close(s) \/ cancel(s)
         \/ \E other \in Sockets : base_move_construct(s, other) \/ base_move_assign(s, other)
         \/ \E o \in Ops, cbk \in Callbacks : start_op(s, o, cbk)
    \/ \E o \in Ops : do_perform(o) \/ do_complete(o)
    \/ \E f \in Fds : OthersOpen(f) \/ OthersClose(f)

Spec == Init /\ [][Next]_vars

-----------------------------------------------------------------------------
(* An operation that waits is one of a descriptor that a living socket has  *)
(* now: no receive that was started before a close, a destructor or a move  *)
(* is ever performed on a number that the kernel has given to somebody else *)
(* since.                                                                   *)
WaitsOnOwnDescriptor ==
    \A o \in Ops : ops[o].stage = "queued" =>
        /\ fds[ops[o].fd].owner = "self"
        /\ \E s \in alive : socket[s] = ops[o].fd

(* Every descriptor has one owner: each one opened or assigned is the       *)
(* socket_ of exactly one living object, so that none leaks and none is     *)
(* closed twice, over any sequence of moves, closes and destructions.       *)
OneOwnerPerDescriptor ==
    \A f \in Fds : Cardinality({s \in alive : socket[s] = f})
                      = IF fds[f].owner = "self" THEN 1 ELSE 0

(* No worker blocks in recvmsg or sendto: whatever waits in the reactor     *)
(* waits on a descriptor that was made non-blocking, also after the socket  *)
(* was closed and opened again, and state_ says nothing of the old one.     *)
WorkersNeverBlock ==
    \A o \in Ops : ops[o].stage = "queued" => ~fds[ops[o].fd].blocking

(* epoll is never left with a descriptor whose registration is released:    *)
(* possible_dup makes close() take out a descriptor that was assigned, and  *)
(* may have a duplicate, before it is closed.                               *)
NoOrphanedRegistration == ~orphans

(* The operations on each descriptor, counted by stage, callback and        *)
(* result, are those of IoTable: what the endpoints' modules assume of      *)
(* StartOp, EndOp and Aborted is what the service does.                     *)
Count(d, stage, cbk, result) ==
    Cardinality({o \in Ops : ops[o] = [stage |-> stage, cbk |-> cbk, fd |-> d,
                                      result |-> result]})
Descriptors == Fds \cup {invalid_socket}
Table == INSTANCE IoTable WITH
    pending <- [d \in Descriptors |-> [c \in Callbacks |-> Count(d, "queued", c, "none")]],
    ready <- [d \in Descriptors |-> [c \in Callbacks |-> [r \in Results |->
                 Count(d, "posted", c, r)]]]
ImplementsIoTable == Table!Spec
=============================================================================
