------------------------- MODULE SocketService_proofs ------------------------
(***************************************************************************)
(* Theorems about SocketService, for any sets of socket objects,           *)
(* descriptors and operations.                                             *)
(***************************************************************************)
EXTENDS SocketService, FiniteSetTheorems, TLAPS

FdRecords == [owner : {"none", "self", "other"}, blocking : BOOLEAN, dup : BOOLEAN]

OpRecords ==
    {Free}
    \cup [stage : {"queued"}, cbk : Callbacks, fd : Fds, result : {"none"}]
    \cup [stage : {"posted"}, cbk : Callbacks, fd : Fds \cup {invalid_socket},
          result : Results]

(***************************************************************************)
(* The inductive invariant.  OwnsInv says who owns a descriptor without    *)
(* counting; FlagsInv what state_ knows of it: a descriptor that state_    *)
(* says is non-blocking is, and one that has a duplicate is marked.  It is *)
(* what close() and start_op rely on, so that neither the properties of    *)
(* the operations nor that of epoll are inductive without it.              *)
(***************************************************************************)
OwnsInv ==
    /\ \A s \in Sockets : is_open(s) => s \in alive /\ fds[socket[s]].owner = "self"
    /\ \A s, other \in Sockets : is_open(s) /\ socket[s] = socket[other] => s = other
    /\ \A f \in Fds : fds[f].owner = "self" => \E s \in alive : socket[s] = f

FlagsInv ==
    \A s \in Sockets : is_open(s) =>
        /\ "internal_non_blocking" \in state[s] => ~fds[socket[s]].blocking
        /\ fds[socket[s]].dup => "possible_dup" \in state[s]

QueuedInv ==
    \A o \in Ops : ops[o].stage = "queued" =>
        fds[ops[o].fd].owner = "self" /\ ~fds[ops[o].fd].blocking

ServiceInv == TypeOK /\ OwnsInv /\ FlagsInv /\ QueuedInv /\ NoOrphanedRegistration

-----------------------------------------------------------------------------
(***************************************************************************)
(* What the operators do.                                                  *)
(***************************************************************************)

(* The descriptor of an open socket is one of the kernel's.                 *)
LEMMA OpenDescriptor ==
    ASSUME TypeOK, NEW s \in Sockets
    PROVE  is_open(s) <=> socket[s] \in Fds
BY ServiceAssumption DEF TypeOK, is_open

(* A queued operation waits on a descriptor.                                *)
LEMMA QueuedOp ==
    ASSUME NEW x \in OpRecords, x.stage = "queued"
    PROVE  x \in [stage : {"queued"}, cbk : Callbacks, fd : Fds, result : {"none"}]
BY DEF OpRecords, Free

(* cancel_ops leaves no operation waiting on f, and all others alone.       *)
LEMMA CancelLemma ==
    ASSUME TypeOK, NEW f \in Fds, cancel_ops(f)
    PROVE  /\ ops' \in [Ops -> OpRecords]
           /\ \A o \in Ops : ops'[o].stage = "queued" => ops'[o] = ops[o] /\ ops[o].fd # f
<1>0. ops \in [Ops -> OpRecords]
  BY DEF TypeOK, OpRecords
<1>1. ASSUME NEW o \in Ops
      PROVE  /\ ops'[o] \in OpRecords
             /\ ops'[o].stage = "queued" => ops'[o] = ops[o] /\ ops[o].fd # f
  <2>1. CASE ops[o].stage = "queued" /\ ops[o].fd = f
    <3>1. ops[o] \in [stage : {"queued"}, cbk : Callbacks, fd : Fds, result : {"none"}]
      BY <1>0, <2>1, QueuedOp
    <3>2. ops'[o] = [ops[o] EXCEPT !.stage = "posted", !.result = "aborted"]
      BY <2>1 DEF cancel_ops
    <3>3. /\ ops'[o] \in [stage : {"posted"}, cbk : Callbacks, fd : Fds \cup {invalid_socket},
                          result : Results]
          /\ ops'[o].stage = "posted"
      BY <3>1, <3>2 DEF Results
    <3> QED BY <3>3 DEF OpRecords
  <2>2. CASE ~(ops[o].stage = "queued" /\ ops[o].fd = f)
    <3>1. ops'[o] = ops[o]
      BY <2>2 DEF cancel_ops
    <3> QED BY <1>0, <2>2, <3>1
  <2> QED BY <2>1, <2>2
<1>2. ops' = [o \in Ops |-> ops'[o]]
  BY DEF cancel_ops
<1> QED BY <1>1, <1>2

(* Closing an open socket gives its descriptor back to the kernel, takes    *)
(* its operations out of the reactor, and leaves no registration behind.    *)
LEMMA CloseLemma ==
    ASSUME ServiceInv, NEW s \in Sockets, is_open(s), Close(s)
    PROVE  /\ ops' \in [Ops -> OpRecords] /\ fds' \in [Fds -> FdRecords]
           /\ fds'[socket[s]] = Closed
           /\ \A f \in Fds : f # socket[s] => fds'[f] = fds[f]
           /\ \A o \in Ops : ops'[o].stage = "queued"
                                => ops'[o] = ops[o] /\ ops[o].fd # socket[s]
           /\ orphans' = FALSE
<1>0. /\ TypeOK /\ socket[s] \in Fds /\ fds \in [Fds -> FdRecords]
      /\ orphans = FALSE
  BY OpenDescriptor DEF ServiceInv, TypeOK, FdRecords, NoOrphanedRegistration
<1>1. Closed \in FdRecords
  BY DEF Closed, FdRecords
<1>2. fds[socket[s]].dup => "possible_dup" \in state[s]
  BY DEF ServiceInv, FlagsInv
<1>3. orphans' = FALSE
  BY <1>0, <1>2 DEF Close, deregister_descriptor
<1>4. /\ fds' \in [Fds -> FdRecords] /\ fds'[socket[s]] = Closed
      /\ \A f \in Fds : f # socket[s] => fds'[f] = fds[f]
  BY <1>0, <1>1 DEF Close
<1>5. cancel_ops(socket[s])
  BY DEF Close, deregister_descriptor
<1> QED BY <1>0, <1>3, <1>4, <1>5, CancelLemma

-----------------------------------------------------------------------------
(***************************************************************************)
(* The steps.                                                              *)
(***************************************************************************)

(* What no step leaves: sets, tables and flags.                             *)
TypesKept ==
    /\ alive' \subseteq Sockets
    /\ socket' \in [Sockets -> Fds \cup {invalid_socket}]
    /\ state' \in [Sockets -> SUBSET Flags]
    /\ fds' \in [Fds -> FdRecords]
    /\ ops' \in [Ops -> OpRecords]
    /\ orphans' = FALSE

(* It is all that the type invariant and epoll ask for.                     *)
LEMMA TypesKeptLemma ==
    ASSUME TypesKept
    PROVE  TypeOK' /\ NoOrphanedRegistration'
BY DEF TypesKept, TypeOK, FdRecords, OpRecords, NoOrphanedRegistration

(* An object that holds no descriptor may come, go, or change its flags.    *)
LEMMA EmptyObject ==
    ASSUME ServiceInv, NEW s \in Sockets, ~is_open(s),
           alive' \in {alive, alive \cup {s}, alive \ {s}},
           Set(s, invalid_socket, {}), UNCHANGED <<fds, orphans, ops>>
    PROVE  ServiceInv'
<1>0. /\ TypeOK /\ OwnsInv /\ FlagsInv /\ QueuedInv /\ orphans = FALSE
      /\ socket[s] = invalid_socket
  BY DEF ServiceInv, NoOrphanedRegistration, is_open
<1>1. /\ socket' = socket /\ TypesKept
      /\ \A r \in Sockets : r # s => state'[r] = state[r]
  BY <1>0 DEF TypeOK, TypesKept, FdRecords, OpRecords, Set
<1>2. OwnsInv'
  BY <1>0, <1>1, OpenDescriptor, ServiceAssumption DEF OwnsInv, is_open
<1>3. FlagsInv'
  BY <1>0, <1>1 DEF FlagsInv, is_open
<1>4. QueuedInv'
  BY <1>0 DEF QueuedInv
<1> QED BY <1>1, <1>2, <1>3, <1>4, TypesKeptLemma DEF ServiceInv

(* close() and the destructor of an open socket: nobody else had its         *)
(* descriptor, so that no socket is left with a closed one.                  *)
LEMMA ClosedObject ==
    ASSUME ServiceInv, NEW s \in Sockets, is_open(s), Close(s),
           alive' \in {alive, alive \ {s}}, Set(s, invalid_socket, {})
    PROVE  ServiceInv'
<1>0. /\ TypeOK /\ OwnsInv /\ FlagsInv /\ QueuedInv /\ socket[s] \in Fds
  BY OpenDescriptor DEF ServiceInv
<1>1. /\ TypesKept
      /\ fds'[socket[s]] = Closed
      /\ \A f \in Fds : f # socket[s] => fds'[f] = fds[f]
      /\ \A o \in Ops : ops'[o].stage = "queued"
                           => ops'[o] = ops[o] /\ ops[o].fd # socket[s]
  BY <1>0, CloseLemma DEF TypeOK, TypesKept, Set
<1>2. /\ socket'[s] = invalid_socket
      /\ \A r \in Sockets : r # s => socket'[r] = socket[r] /\ state'[r] = state[r]
  BY <1>0 DEF TypeOK, Set
<1>3. \A r \in Sockets : is_open(r)' =>
          /\ r # s /\ is_open(r) /\ socket[r] \in Fds /\ socket[r] # socket[s]
          /\ socket'[r] = socket[r] /\ state'[r] = state[r]
          /\ fds'[socket[r]] = fds[socket[r]]
  BY <1>0, <1>1, <1>2, OpenDescriptor DEF is_open, OwnsInv
<1>4. OwnsInv'
  <2>1. ASSUME NEW f \in Fds, fds'[f].owner = "self"
        PROVE  \E r \in alive' : socket'[r] = f
    <3>1. f # socket[s] /\ fds[f].owner = "self"
      BY <1>1, <2>1 DEF Closed
    <3>2. PICK r \in alive : socket[r] = f
      BY <1>0, <3>1 DEF OwnsInv
    <3> QED BY <1>0, <1>2, <3>1, <3>2 DEF TypeOK
  <2>2. \A r \in Sockets : is_open(r)' => r \in alive' /\ fds'[socket'[r]].owner = "self"
    BY <1>0, <1>3 DEF OwnsInv
  <2>3. \A r, q \in Sockets : is_open(r)' /\ socket'[r] = socket'[q] => r = q
    BY <1>0, <1>3 DEF OwnsInv, is_open
  <2> QED BY <2>1, <2>2, <2>3 DEF OwnsInv
<1>5. FlagsInv'
  BY <1>0, <1>3 DEF FlagsInv
<1>6. QueuedInv'
  <2>1. ASSUME NEW o \in Ops, ops'[o].stage = "queued"
        PROVE  ops[o].fd \in Fds
    BY <1>0, <1>1, <2>1, QueuedOp DEF TypeOK, OpRecords
  <2> QED BY <1>0, <1>1, <2>1 DEF QueuedInv
<1> QED BY <1>1, <1>4, <1>5, <1>6, TypesKeptLemma DEF ServiceInv

(* A socket that had no descriptor gets one that nobody of these had: a new  *)
(* one, which has no duplicate, or one that was somebody else's, marked.     *)
LEMMA OpenedObject ==
    ASSUME ServiceInv, NEW s \in Sockets, s \in alive, ~is_open(s),
           NEW f \in Fds, fds[f].owner # "self",
           NEW flags \in SUBSET Flags, "internal_non_blocking" \notin flags,
           NEW d \in FdRecords, d.owner = "self", d.dup => "possible_dup" \in flags,
           fds' = [fds EXCEPT ![f] = d], Set(s, f, flags), UNCHANGED <<alive, orphans, ops>>
    PROVE  ServiceInv'
<1>0. /\ TypeOK /\ OwnsInv /\ FlagsInv /\ QueuedInv /\ orphans = FALSE
      /\ f # invalid_socket
  BY ServiceAssumption DEF ServiceInv, NoOrphanedRegistration
<1>1. TypesKept
  BY <1>0 DEF TypeOK, TypesKept, FdRecords, OpRecords, Set
<1>2. /\ socket'[s] = f /\ state'[s] = flags /\ fds'[f] = d
      /\ \A r \in Sockets : r # s => socket'[r] = socket[r] /\ state'[r] = state[r]
      /\ \A g \in Fds : g # f => fds'[g] = fds[g]
  BY <1>0 DEF TypeOK, Set
<1>3. \A r \in Sockets : is_open(r)' /\ r # s =>
          /\ is_open(r) /\ socket[r] \in Fds /\ socket[r] # f
          /\ socket'[r] = socket[r] /\ state'[r] = state[r]
          /\ fds'[socket[r]] = fds[socket[r]]
  BY <1>0, <1>2, OpenDescriptor DEF is_open, OwnsInv
<1>4. OwnsInv'
  <2>1. ASSUME NEW g \in Fds, fds'[g].owner = "self"
        PROVE  \E r \in alive' : socket'[r] = g
    <3>1. CASE g = f
      BY <1>2, <3>1
    <3>2. CASE g # f
      <4>1. PICK r \in alive : socket[r] = g
        BY <1>0, <1>2, <2>1, <3>2 DEF OwnsInv
      <4>2. r # s /\ r \in Sockets
        BY <1>0, <4>1, ServiceAssumption DEF is_open, TypeOK
      <4> QED BY <1>2, <4>1, <4>2
    <3> QED BY <3>1, <3>2
  <2>2. \A r \in Sockets : is_open(r)' => r \in alive' /\ fds'[socket'[r]].owner = "self"
    BY <1>0, <1>2, <1>3 DEF OwnsInv
  <2>3. \A r, q \in Sockets : is_open(r)' /\ socket'[r] = socket'[q] => r = q
    BY <1>0, <1>2, <1>3 DEF OwnsInv, is_open
  <2> QED BY <2>1, <2>2, <2>3 DEF OwnsInv
<1>5. FlagsInv'
  BY <1>0, <1>2, <1>3 DEF FlagsInv
<1>6. QueuedInv'
  <2>1. ASSUME NEW o \in Ops, ops[o].stage = "queued"
        PROVE  ops[o].fd \in Fds /\ ops[o].fd # f
    BY <1>0, <2>1, QueuedOp DEF TypeOK, OpRecords, QueuedInv
  <2> QED BY <1>0, <1>2, <2>1 DEF QueuedInv
<1> QED BY <1>1, <1>4, <1>5, <1>6, TypesKeptLemma DEF ServiceInv

(* A move: the source gives its descriptor and its flags away and keeps      *)
(* neither.  What the target had was closed before.                          *)
LEMMA MovedObject ==
    ASSUME ServiceInv, NEW s \in Sockets, NEW other \in Sockets, s # other,
           other \in alive, alive' = alive \cup {s}, Move(other, s), destroy(s)
    PROVE  ServiceInv'
<1>0. /\ TypeOK /\ OwnsInv /\ FlagsInv /\ QueuedInv /\ orphans = FALSE
  BY DEF ServiceInv, NoOrphanedRegistration
<1>1. /\ socket'[s] = socket[other] /\ state'[s] = state[other]
      /\ socket'[other] = invalid_socket
      /\ \A r \in Sockets \ {s, other} : socket'[r] = socket[r] /\ state'[r] = state[r]
      /\ socket' \in [Sockets -> Fds \cup {invalid_socket}]
      /\ state' \in [Sockets -> SUBSET Flags]
  BY <1>0 DEF TypeOK, Move
<1>2. /\ ops' \in [Ops -> OpRecords] /\ fds' \in [Fds -> FdRecords] /\ orphans' = FALSE
      /\ \A f \in Fds : fds'[f] = IF f = socket[s] THEN Closed ELSE fds[f]
      /\ \A o \in Ops : ops'[o].stage = "queued"
                           => ops'[o] = ops[o] /\ ops[o].fd # socket[s]
  <2>1. CASE is_open(s) /\ Close(s)
    BY <2>1, CloseLemma
  <2>2. CASE ~is_open(s) /\ UNCHANGED <<fds, orphans, ops>>
    <3>1. socket[s] \notin Fds
      BY <1>0, <2>2, OpenDescriptor
    <3>2. \A o \in Ops : ops[o].stage = "queued" => ops[o].fd \in Fds
      BY <1>0, QueuedOp DEF TypeOK, OpRecords
    <3> QED BY <1>0, <2>2, <3>1, <3>2 DEF TypeOK, FdRecords, OpRecords
  <2> QED BY <2>1, <2>2 DEF destroy
<1>3. TypesKept
  BY <1>0, <1>1, <1>2 DEF TypeOK, TypesKept
<1>a. socket[other] \in Fds => socket[other] # socket[s]
  BY <1>0, OpenDescriptor DEF OwnsInv
<1>4. \A r \in Sockets : is_open(r)' =>
          \E q \in Sockets :
              /\ is_open(q) /\ q # s /\ q = (IF r = s THEN other ELSE r) /\ q \in alive
              /\ r # other /\ r \in alive'
              /\ socket'[r] = socket[q] /\ state'[r] = state[q]
              /\ fds'[socket[q]] = fds[socket[q]]
  <2> SUFFICES ASSUME NEW r \in Sockets, is_open(r)'
               PROVE  \E q \in Sockets :
                          /\ is_open(q) /\ q # s /\ q = (IF r = s THEN other ELSE r)
                          /\ q \in alive /\ r # other /\ r \in alive'
                          /\ socket'[r] = socket[q] /\ state'[r] = state[q]
                          /\ fds'[socket[q]] = fds[socket[q]]
    OBVIOUS
  <2> DEFINE q == IF r = s THEN other ELSE r
  <2>1. r # other /\ socket'[r] = socket[q] /\ state'[r] = state[q]
    BY <1>1 DEF is_open
  <2>2. q \in Sockets /\ q # s /\ is_open(q)
    BY <2>1 DEF is_open
  <2>3. q \in alive /\ r \in alive'
    BY <1>0, <2>2 DEF OwnsInv
  <2>4. socket[q] \in Fds /\ socket[q] # socket[s]
    BY <1>0, <2>2, OpenDescriptor DEF OwnsInv
  <2> QED BY <1>2, <2>1, <2>2, <2>3, <2>4
<1>5. OwnsInv'
  <2>1. ASSUME NEW f \in Fds, fds'[f].owner = "self"
        PROVE  \E r \in alive' : socket'[r] = f
    <3>1. f # socket[s] /\ fds[f].owner = "self"
      BY <1>2, <2>1 DEF Closed
    <3>2. PICK r \in alive : socket[r] = f
      BY <1>0, <3>1 DEF OwnsInv
    <3>3. r \in Sockets /\ r # s
      BY <1>0, <3>1, <3>2 DEF TypeOK
    <3> QED BY <1>1, <3>2, <3>3
  <2>2. \A r \in Sockets : is_open(r)' => r \in alive' /\ fds'[socket'[r]].owner = "self"
    BY <1>0, <1>4 DEF OwnsInv
  <2>3. ASSUME NEW r \in Sockets, NEW q \in Sockets, is_open(r)', socket'[r] = socket'[q]
        PROVE  r = q
    <3>1. is_open(q)'
      BY <2>3 DEF is_open
    <3>2. PICK r1 \in Sockets : /\ is_open(r1) /\ r1 # s /\ r1 = (IF r = s THEN other ELSE r)
                                /\ r # other /\ socket'[r] = socket[r1]
      BY <1>4, <2>3
    <3>3. PICK q1 \in Sockets : /\ is_open(q1) /\ q1 # s /\ q1 = (IF q = s THEN other ELSE q)
                                /\ q # other /\ socket'[q] = socket[q1]
      BY <1>4, <3>1
    <3>4. r1 = q1
      BY <1>0, <2>3, <3>2, <3>3 DEF OwnsInv
    <3> QED BY <3>2, <3>3, <3>4
  <2> QED BY <2>1, <2>2, <2>3 DEF OwnsInv
<1>6. FlagsInv'
  BY <1>0, <1>4 DEF FlagsInv
<1>7. QueuedInv'
  <2>1. ASSUME NEW o \in Ops, ops'[o].stage = "queued"
        PROVE  ops[o].fd \in Fds
    BY <1>0, <1>2, <2>1, QueuedOp DEF TypeOK, OpRecords
  <2> QED BY <1>0, <1>2, <2>1 DEF QueuedInv
<1> QED BY <1>3, <1>5, <1>6, <1>7, TypesKeptLemma DEF ServiceInv

(* A step of the operations alone: what it leaves waiting either waited      *)
(* before or waits on a descriptor of a socket that is non-blocking.         *)
LEMMA OperationStep ==
    ASSUME ServiceInv, UNCHANGED <<alive, socket, state, fds, orphans>>,
           ops' \in [Ops -> OpRecords],
           \A o \in Ops : ops'[o].stage = "queued" => ops'[o] = ops[o]
    PROVE  ServiceInv'
<1>1. TypesKept
  BY DEF ServiceInv, NoOrphanedRegistration, TypeOK, TypesKept, FdRecords
<1> QED BY <1>1, TypesKeptLemma DEF ServiceInv, OwnsInv, FlagsInv, QueuedInv, is_open

(* A new operation object is one of a stage, a callback and a result.       *)
LEMMA NewLemma ==
    ASSUME TypeOK, NEW o \in Ops, NEW cbk \in Callbacks, NEW f, NEW stage, NEW result,
           \/ f \in Fds /\ stage = "queued" /\ result = "none"
           \/ f \in Fds \cup {invalid_socket} /\ stage = "posted" /\ result \in Results,
           New(o, cbk, f, stage, result)
    PROVE  /\ ops' \in [Ops -> OpRecords]
           /\ ops'[o].stage = stage /\ ops'[o].fd = f
           /\ \A p \in Ops : p # o => ops'[p] = ops[p]
<1>1. ops \in [Ops -> OpRecords]
  BY DEF TypeOK, OpRecords
<1>2. [stage |-> stage, cbk |-> cbk, fd |-> f, result |-> result] \in OpRecords
  BY DEF OpRecords
<1> QED BY <1>1, <1>2 DEF New

(* start_op on an open socket has made the descriptor non-blocking, now or   *)
(* before, when it leaves the operation to the reactor.                      *)
LEMMA StartedOperation ==
    ASSUME ServiceInv, NEW s \in Sockets, NEW o \in Ops, NEW cbk \in Callbacks,
           is_open(s), SetNonBlocking(s), UNCHANGED <<alive, socket, orphans>>,
           ops' \in [Ops -> OpRecords],
           ops'[o].fd = socket[s], \A p \in Ops : p # o => ops'[p] = ops[p]
    PROVE  ServiceInv'
<1>0. /\ TypeOK /\ OwnsInv /\ FlagsInv /\ QueuedInv /\ orphans = FALSE
      /\ socket[s] \in Fds /\ fds \in [Fds -> FdRecords]
  BY OpenDescriptor DEF ServiceInv, TypeOK, FdRecords, NoOrphanedRegistration
<1>1. /\ fds' \in [Fds -> FdRecords] /\ state' \in [Sockets -> SUBSET Flags]
      /\ fds'[socket[s]] = [fds[socket[s]] EXCEPT !.blocking = FALSE]
      /\ \A f \in Fds : f # socket[s] => fds'[f] = fds[f]
      /\ \A r \in Sockets : r # s => state'[r] = state[r]
      /\ "possible_dup" \in state[s] => "possible_dup" \in state'[s]
  <2>1. CASE "internal_non_blocking" \in state[s]
    <3>1. fds[socket[s]].blocking = FALSE
      BY <1>0, <2>1 DEF FlagsInv, FdRecords
    <3>2. fds[socket[s]] = [fds[socket[s]] EXCEPT !.blocking = FALSE]
      BY <1>0, <3>1 DEF FdRecords
    <3> QED BY <1>0, <2>1, <3>2 DEF SetNonBlocking, TypeOK
  <2>2. CASE "internal_non_blocking" \notin state[s]
    <3>1. [fds[socket[s]] EXCEPT !.blocking = FALSE] \in FdRecords
      BY <1>0 DEF FdRecords
    <3>2. /\ state' = [state EXCEPT ![s] = @ \cup {"internal_non_blocking"}]
          /\ fds' = [fds EXCEPT ![socket[s]] = [fds[socket[s]] EXCEPT !.blocking = FALSE]]
      BY <2>2 DEF SetNonBlocking
    <3>3. state' \in [Sockets -> SUBSET Flags]
      BY <1>0, <3>2 DEF TypeOK, Flags
    <3> QED BY <1>0, <3>1, <3>2, <3>3 DEF TypeOK
  <2> QED BY <2>1, <2>2
<1>2. \A f \in Fds : /\ fds'[f].owner = fds[f].owner /\ fds'[f].dup = fds[f].dup
                     /\ fds'[f].blocking => fds[f].blocking
                     /\ f = socket[s] => ~fds'[f].blocking
  BY <1>0, <1>1 DEF FdRecords
<1>3. TypesKept
  BY <1>0, <1>1 DEF TypeOK, TypesKept
<1>4. OwnsInv'
  BY <1>0, <1>2, OpenDescriptor DEF OwnsInv, is_open
<1>5. FlagsInv'
  <2>1. \A r \in Sockets : r # s /\ is_open(r) => socket[r] \in Fds /\ socket[r] # socket[s]
    BY <1>0, OpenDescriptor DEF OwnsInv
  <2> QED BY <1>0, <1>1, <1>2, <2>1 DEF FlagsInv, is_open
<1>6. QueuedInv'
  <2>1. fds[socket[s]].owner = "self"
    BY <1>0 DEF OwnsInv
  <2>2. \A p \in Ops : ops[p].stage = "queued" => ops[p].fd \in Fds
    BY <1>0, QueuedOp DEF TypeOK, OpRecords
  <2>3. ASSUME NEW p \in Ops, ops'[p].stage = "queued"
        PROVE  fds'[ops'[p].fd].owner = "self" /\ ~fds'[ops'[p].fd].blocking
    <3>1. CASE p = o
      BY <1>0, <1>2, <2>1, <3>1
    <3>2. CASE p # o
      BY <1>0, <1>2, <2>2, <2>3, <3>2 DEF QueuedInv
    <3> QED BY <3>1, <3>2
  <2> QED BY <2>3 DEF QueuedInv
<1> QED BY <1>3, <1>4, <1>5, <1>6, TypesKeptLemma DEF ServiceInv

(* A descriptor that is none of these sockets' is opened or closed          *)
(* elsewhere in the process.                                                *)
LEMMA OthersStep ==
    ASSUME ServiceInv, NEW f \in Fds, fds[f].owner # "self",
           NEW d \in FdRecords, d.owner # "self", fds' = [fds EXCEPT ![f] = d],
           UNCHANGED <<alive, socket, state, orphans, ops>>
    PROVE  ServiceInv'
<1>0. /\ TypeOK /\ OwnsInv /\ FlagsInv /\ QueuedInv /\ orphans = FALSE
  BY DEF ServiceInv, NoOrphanedRegistration
<1>1. /\ TypesKept /\ fds'[f] = d
      /\ \A g \in Fds : g # f => fds'[g] = fds[g]
  BY <1>0 DEF TypeOK, TypesKept, FdRecords, OpRecords
<1>2. \A s \in Sockets : is_open(s) => socket[s] \in Fds /\ socket[s] # f
  BY <1>0, OpenDescriptor DEF OwnsInv
<1>3. OwnsInv'
  BY <1>0, <1>1, <1>2 DEF OwnsInv, is_open
<1>4. FlagsInv'
  BY <1>0, <1>1, <1>2 DEF FlagsInv, is_open
<1>5. QueuedInv'
  <2>1. \A o \in Ops : ops[o].stage = "queued" => ops[o].fd \in Fds /\ ops[o].fd # f
    BY <1>0, QueuedOp DEF TypeOK, OpRecords, QueuedInv
  <2> QED BY <1>0, <1>1, <2>1 DEF QueuedInv
<1> QED BY <1>1, <1>3, <1>4, <1>5, TypesKeptLemma DEF ServiceInv

(* start_op: whether the operation waits, is over at once or fails.          *)
LEMMA StartOpStep ==
    ASSUME ServiceInv, NEW s \in Sockets, NEW o \in Ops, NEW cbk \in Callbacks,
           start_op(s, o, cbk)
    PROVE  ServiceInv'
<1>0. TypeOK /\ non_blocking_recvfrom \subseteq Results /\ "failed" \in Results
      /\ "bad_descriptor" \in Results
  BY DEF ServiceInv, non_blocking_recvfrom, Results
<1>1. CASE /\ is_open(s) /\ SetNonBlocking(s)
           /\ \/ New(o, cbk, socket[s], "queued", "none")
              \/ \E r \in non_blocking_recvfrom : New(o, cbk, socket[s], "posted", r)
  <2>1. socket[s] \in Fds
    BY <1>0, <1>1, OpenDescriptor
  <2>2. /\ ops' \in [Ops -> OpRecords] /\ ops'[o].fd = socket[s]
        /\ \A p \in Ops : p # o => ops'[p] = ops[p]
    <3>1. CASE New(o, cbk, socket[s], "queued", "none")
      BY <1>0, <2>1, <3>1, NewLemma
    <3>2. ASSUME NEW r \in non_blocking_recvfrom, New(o, cbk, socket[s], "posted", r)
          PROVE  /\ ops' \in [Ops -> OpRecords] /\ ops'[o].fd = socket[s]
                 /\ \A p \in Ops : p # o => ops'[p] = ops[p]
      <4>1. r \in Results
        BY <1>0
      <4> QED BY <1>0, <2>1, <3>2, <4>1, NewLemma
    <3> QED BY <1>1, <3>1, <3>2
  <2>3. UNCHANGED <<alive, socket, orphans>>
    BY DEF start_op
  <2> QED BY <1>1, <2>2, <2>3, StartedOperation
<1>2. ASSUME NEW f \in Fds \cup {invalid_socket}, NEW r \in Results,
             New(o, cbk, f, "posted", r), UNCHANGED <<state, fds>>
      PROVE  ServiceInv'
  <2>1. /\ ops' \in [Ops -> OpRecords] /\ ops'[o].stage = "posted"
        /\ \A p \in Ops : p # o => ops'[p] = ops[p]
    BY <1>0, <1>2, NewLemma
  <2>2. UNCHANGED <<alive, socket, orphans>>
    BY DEF start_op
  <2> QED BY <1>2, <2>1, <2>2, OperationStep
<1>3. CASE /\ is_open(s) /\ "internal_non_blocking" \notin state[s]
           /\ New(o, cbk, socket[s], "posted", "failed") /\ UNCHANGED <<state, fds>>
  BY <1>0, <1>2, <1>3 DEF TypeOK
<1>4. CASE /\ ~is_open(s) /\ New(o, cbk, invalid_socket, "posted", "bad_descriptor")
           /\ UNCHANGED <<state, fds>>
  BY <1>0, <1>2, <1>4
<1> QED BY <1>1, <1>3, <1>4 DEF start_op

(* Nothing exists at first.                                                  *)
LEMMA ServiceInvInit == Init => ServiceInv
<1> SUFFICES ASSUME Init PROVE ServiceInv
  OBVIOUS
<1>1. Closed \in FdRecords /\ Closed.owner # "self" /\ Free \in OpRecords
      /\ Free.stage # "queued"
  BY DEF Closed, FdRecords, OpRecords, Free
<1>2. TypeOK
  BY <1>1 DEF Init, TypeOK, FdRecords, OpRecords
<1>3. OwnsInv /\ FlagsInv
  BY <1>1 DEF Init, OwnsInv, FlagsInv, is_open
<1>4. QueuedInv
  BY <1>1 DEF Init, QueuedInv
<1> QED BY <1>2, <1>3, <1>4 DEF Init, ServiceInv, NoOrphanedRegistration

(* No step of the objects, the operations or the rest of the process breaks  *)
(* the invariant.                                                            *)
LEMMA ServiceInvStep == ServiceInv /\ [Next]_vars => ServiceInv'
<1> SUFFICES ASSUME ServiceInv, [Next]_vars
             PROVE  ServiceInv'
  OBVIOUS
<1>0. /\ TypeOK /\ OwnsInv /\ ops \in [Ops -> OpRecords] /\ fds \in [Fds -> FdRecords]
      /\ Closed \in FdRecords /\ Closed.owner = "none"
      /\ Free \in OpRecords /\ Free.stage = "free"
  BY DEF ServiceInv, TypeOK, OpRecords, FdRecords, Closed, Free
<1>1. ASSUME NEW s \in Sockets, constructor(s)
      PROVE  ServiceInv'
  <2>1. ~is_open(s)
    BY <1>0, <1>1 DEF constructor, OwnsInv
  <2> QED BY <1>1, <2>1, EmptyObject DEF constructor, construct
<1>2. ASSUME NEW s \in Sockets, destructor(s)
      PROVE  ServiceInv'
  BY <1>2, EmptyObject, ClosedObject DEF destructor, destroy
<1>3. ASSUME NEW s \in Sockets, do_open(s)
      PROVE  ServiceInv'
  <2>1. PICK f \in Fds :
          /\ fds[f] = Closed
          /\ fds' = [fds EXCEPT ![f] = [owner |-> "self", blocking |-> TRUE, dup |-> FALSE]]
          /\ Set(s, f, {})
    BY <1>3 DEF do_open
  <2>2. [owner |-> "self", blocking |-> TRUE, dup |-> FALSE] \in FdRecords
    BY DEF FdRecords
  <2>3. {} \in SUBSET Flags /\ fds[f].owner # "self"
    BY <1>0, <2>1
  <2> QED BY <1>3, <2>1, <2>2, <2>3, OpenedObject DEF do_open
<1>4. ASSUME NEW s \in Sockets, do_assign(s)
      PROVE  ServiceInv'
  <2>1. PICK f \in Fds :
          /\ fds[f].owner = "other"
          /\ fds' = [fds EXCEPT ![f].owner = "self"]
          /\ Set(s, f, {"possible_dup"})
    BY <1>4 DEF do_assign, Assign
  <2> DEFINE d == [fds[f] EXCEPT !.owner = "self"]
  <2>2. d \in FdRecords /\ d.owner = "self" /\ fds' = [fds EXCEPT ![f] = d]
    BY <1>0, <2>1 DEF FdRecords
  <2>3. {"possible_dup"} \in SUBSET Flags /\ "internal_non_blocking" \notin {"possible_dup"}
    BY DEF Flags
  <2>4. s \in alive /\ ~is_open(s) /\ UNCHANGED <<alive, orphans, ops>>
    BY <1>4 DEF do_assign, Assign
  <2> HIDE DEF d
  <2> QED BY <2>1, <2>2, <2>3, <2>4, OpenedObject
<1>5. ASSUME NEW s \in Sockets, close(s)
      PROVE  ServiceInv'
  BY <1>5, ClosedObject DEF close, construct
<1>6. ASSUME NEW s \in Sockets, cancel(s)
      PROVE  ServiceInv'
  <2>1. socket[s] \in Fds /\ cancel_ops(socket[s])
    BY <1>0, <1>6, OpenDescriptor DEF cancel
  <2> QED BY <1>0, <1>6, <2>1, CancelLemma, OperationStep DEF cancel
<1>7. ASSUME NEW s \in Sockets, NEW other \in Sockets, base_move_construct(s, other)
      PROVE  ServiceInv'
  <2>1. ~is_open(s)
    BY <1>0, <1>7 DEF base_move_construct, OwnsInv
  <2> QED BY <1>7, <2>1, MovedObject DEF base_move_construct, destroy
<1>8. ASSUME NEW s \in Sockets, NEW other \in Sockets, base_move_assign(s, other)
      PROVE  ServiceInv'
  <2>1. CASE s = other
    <3>1. Set(s, invalid_socket, {})
      BY <1>0, <1>8, <2>1 DEF base_move_assign, Move, Set, TypeOK
    <3> QED BY <1>8, <3>1, EmptyObject, ClosedObject DEF base_move_assign, destroy
  <2>2. CASE s # other
    <3>1. alive' = alive \cup {s} /\ other \in alive
      BY <1>8 DEF base_move_assign
    <3> QED BY <1>8, <2>2, <3>1, MovedObject DEF base_move_assign
  <2> QED BY <2>1, <2>2
<1>9. ASSUME NEW o \in Ops, do_perform(o)
      PROVE  ServiceInv'
  <2>1. PICK r \in non_blocking_recvfrom :
          ops' = [ops EXCEPT ![o].stage = "posted", ![o].result = r]
    BY <1>9 DEF do_perform
  <2>2. ops[o] \in [stage : {"queued"}, cbk : Callbacks, fd : Fds, result : {"none"}]
    BY <1>0, <1>9, QueuedOp DEF do_perform
  <2>3. /\ [ops[o] EXCEPT !.stage = "posted", !.result = r] \in OpRecords
        /\ [ops[o] EXCEPT !.stage = "posted", !.result = r].stage = "posted"
    <3>1. r \in Results
      BY DEF non_blocking_recvfrom, Results
    <3>2. [ops[o] EXCEPT !.stage = "posted", !.result = r] \in
             [stage : {"posted"}, cbk : Callbacks, fd : Fds \cup {invalid_socket},
              result : Results]
      BY <2>2, <3>1
    <3> QED BY <2>2, <3>2 DEF OpRecords
  <2>4. ops' = [ops EXCEPT ![o] = [ops[o] EXCEPT !.stage = "posted", !.result = r]]
    BY <1>0, <2>1
  <2>5. /\ ops' \in [Ops -> OpRecords]
        /\ \A p \in Ops : ops'[p].stage = "queued" => ops'[p] = ops[p]
    BY <1>0, <2>3, <2>4
  <2> QED BY <1>9, <2>5, OperationStep DEF do_perform
<1>10. ASSUME NEW o \in Ops, do_complete(o)
      PROVE  ServiceInv'
  <2>1. /\ ops' \in [Ops -> OpRecords]
        /\ \A p \in Ops : ops'[p].stage = "queued" => ops'[p] = ops[p]
    BY <1>0, <1>10 DEF do_complete
  <2> QED BY <1>10, <2>1, OperationStep DEF do_complete
<1>11. ASSUME NEW f \in Fds, OthersOpen(f)
      PROVE  ServiceInv'
  <2>1. PICK b \in BOOLEAN, d \in BOOLEAN :
          fds' = [fds EXCEPT ![f] = [owner |-> "other", blocking |-> b, dup |-> d]]
    BY <1>11 DEF OthersOpen
  <2>2. /\ [owner |-> "other", blocking |-> b, dup |-> d] \in FdRecords
        /\ fds[f].owner # "self"
    BY <1>0, <1>11 DEF FdRecords, OthersOpen
  <2> QED BY <1>11, <2>1, <2>2, OthersStep DEF OthersOpen
<1>12. ASSUME NEW f \in Fds, OthersClose(f)
      PROVE  ServiceInv'
  BY <1>0, <1>12, OthersStep DEF OthersClose
<1>13. CASE UNCHANGED vars
  BY <1>0, <1>13, OperationStep DEF vars
<1> QED BY <1>1, <1>2, <1>3, <1>4, <1>5, <1>6, <1>7, <1>8, <1>9, <1>10, <1>11, <1>12,
           <1>13, StartOpStep DEF Next

-----------------------------------------------------------------------------
(* The inductive invariant holds of the service.                             *)
THEOREM ServiceInvHolds == Spec => []ServiceInv
BY ServiceInvInit, ServiceInvStep, PTL DEF Spec

(* The objects, descriptors and operations have their types in every state. *)
THEOREM ServiceTypeCorrect == Spec => []TypeOK
<1>1. ServiceInv => TypeOK
  BY DEF ServiceInv
<1> QED BY <1>1, ServiceInvHolds, PTL

(* The invariant is about what waits in the reactor.                         *)
LEMMA WhatWaits == ServiceInv => WaitsOnOwnDescriptor /\ WorkersNeverBlock
<1> SUFFICES ASSUME ServiceInv
             PROVE  WaitsOnOwnDescriptor /\ WorkersNeverBlock
  OBVIOUS
<1>1. TypeOK /\ OwnsInv /\ QueuedInv /\ ops \in [Ops -> OpRecords]
  BY DEF ServiceInv, TypeOK, OpRecords
<1>2. \A o \in Ops : ops[o].stage = "queued" => ops[o].fd \in Fds
  BY <1>1, QueuedOp
<1> QED BY <1>1, <1>2 DEF OwnsInv, QueuedInv, WaitsOnOwnDescriptor, WorkersNeverBlock

(* What waits in the reactor waits on a descriptor that a living socket has  *)
(* now, never on a number that the kernel has handed out again, for any      *)
(* number of sockets, descriptors and operations.                            *)
THEOREM WaitsOnOwnHolds == Spec => []WaitsOnOwnDescriptor
BY WhatWaits, ServiceInvHolds, PTL

(* No worker blocks in a system call: the descriptor an operation waits on   *)
(* was made non-blocking, over any sequence of close, open and move.         *)
THEOREM WorkersNeverBlockHolds == Spec => []WorkersNeverBlock
BY WhatWaits, ServiceInvHolds, PTL

(* Each descriptor the service has is the socket_ of exactly one living      *)
(* object: none leaks and none is closed twice, over any sequence of moves.  *)
THEOREM OneOwnerHolds == Spec => []OneOwnerPerDescriptor
<1>1. ServiceInv => OneOwnerPerDescriptor
  <2> SUFFICES ASSUME ServiceInv, NEW f \in Fds
               PROVE  Cardinality({s \in alive : socket[s] = f})
                         = IF fds[f].owner = "self" THEN 1 ELSE 0
    BY DEF OneOwnerPerDescriptor
  <2>0. TypeOK /\ OwnsInv
    BY DEF ServiceInv
  <2>1. CASE fds[f].owner = "self"
    <3>1. PICK s \in alive : socket[s] = f
      BY <2>0, <2>1 DEF OwnsInv
    <3>2. \A r \in alive : socket[r] = f => r = s
      BY <2>0, <3>1, OpenDescriptor DEF OwnsInv, TypeOK
    <3>3. {r \in alive : socket[r] = f} = {s}
      BY <3>1, <3>2
    <3> QED BY <2>1, <3>3, FS_Singleton
  <2>2. CASE fds[f].owner # "self"
    <3>1. \A s \in alive : socket[s] # f
      BY <2>0, <2>2, OpenDescriptor DEF OwnsInv, TypeOK
    <3>2. {s \in alive : socket[s] = f} = {}
      BY <3>1
    <3> QED BY <2>2, <3>2, FS_EmptySet
  <2> QED BY <2>1, <2>2
<1> QED BY <1>1, ServiceInvHolds, PTL

(* epoll is never left with a descriptor whose registration is released.    *)
THEOREM NoOrphanHolds == Spec => []NoOrphanedRegistration
<1>1. ServiceInv => NoOrphanedRegistration
  BY DEF ServiceInv
<1> QED BY <1>1, ServiceInvHolds, PTL

-----------------------------------------------------------------------------
(***************************************************************************)
(* The service implements IoTable: the operations, counted, are the two    *)
(* tables that the endpoints' modules work with.                           *)
(***************************************************************************)
Waiting(d) == [c \in Callbacks |-> Count(d, "queued", c, "none")]
Queued(d) == [c \in Callbacks |-> [r \in Results |-> Count(d, "posted", c, r)]]
WaitingTable == [d \in Descriptors |-> Waiting(d)]
QueuedTable == [d \in Descriptors |-> Queued(d)]

Counted(x) == Cardinality({o \in Ops : ops[o] = x})
OpRecord(d, stage, cbk, result) == [stage |-> stage, cbk |-> cbk, fd |-> d, result |-> result]

(* Finitely many operations are counted.                                    *)
LEMMA CountedNat ==
    ASSUME NEW x
    PROVE  /\ Counted(x) \in Nat /\ Counted(x)' \in Nat
           /\ IsFiniteSet({o \in Ops : ops[o] = x})
<1>1. ASSUME NEW T \in SUBSET Ops
      PROVE  IsFiniteSet(T) /\ Cardinality(T) \in Nat
  BY OpsAssumption, FS_Subset, FS_CardinalityType
<1>2. {o \in Ops : ops[o] = x} \in SUBSET Ops /\ {o \in Ops : ops'[o] = x} \in SUBSET Ops
  OBVIOUS
<1> QED BY <1>1, <1>2 DEF Counted

(* When one operation becomes another, one less of what it was and one more *)
(* of what it is are counted.                                               *)
LEMMA OneOperation ==
    ASSUME NEW o \in Ops, \A p \in Ops : p # o => ops'[p] = ops[p], ops'[o] # ops[o], NEW x
    PROVE  /\ Counted(x)' = IF ops'[o] = x THEN Counted(x) + 1
                            ELSE IF ops[o] = x THEN Counted(x) - 1
                            ELSE Counted(x)
           /\ ops[o] = x => Counted(x) > 0
<1> DEFINE S == {p \in Ops : ops[p] = x}
           T == {p \in Ops : ops'[p] = x}
<1>0. IsFiniteSet(S) /\ Counted(x) = Cardinality(S) /\ Counted(x)' = Cardinality(T)
      /\ Counted(x) \in Nat
  BY CountedNat DEF Counted
<1>1. CASE ops'[o] = x
  <2>1. T = S \cup {o} /\ o \notin S
    BY <1>1
  <2> HIDE DEF S, T
  <2> QED BY <1>0, <1>1, <2>1, FS_AddElement
<1>2. CASE ops[o] = x /\ ops'[o] # x
  <2>1. T = S \ {o} /\ o \in S
    BY <1>2
  <2>2. S # {}
    BY <2>1
  <2> HIDE DEF S, T
  <2>3. Cardinality(T) = Cardinality(S) - 1 /\ Cardinality(S) # 0
    BY <1>0, <2>1, <2>2, FS_RemoveElement, FS_EmptySet
  <2> QED BY <1>0, <1>2, <2>3
<1>3. CASE ops[o] # x /\ ops'[o] # x
  <2>1. T = S
    BY <1>3
  <2> HIDE DEF S, T
  <2> QED BY <1>0, <1>3, <2>1
<1> QED BY <1>1, <1>2, <1>3

(* An entry of a table is a count.                                          *)
LEMMA Entries ==
    ASSUME NEW d \in Descriptors, NEW c \in Callbacks
    PROVE  /\ WaitingTable[d][c] = Counted(OpRecord(d, "queued", c, "none"))
           /\ WaitingTable'[d][c] = Counted(OpRecord(d, "queued", c, "none"))'
           /\ \A r \in Results :
                /\ QueuedTable[d][c][r] = Counted(OpRecord(d, "posted", c, r))
                /\ QueuedTable'[d][c][r] = Counted(OpRecord(d, "posted", c, r))'
BY DEF WaitingTable, QueuedTable, Waiting, Queued, Count, Counted, OpRecord

(* Two tables with the same entries are the same.                           *)
LEMMA TableStep ==
    ASSUME NEW d \in Descriptors,
           NEW waiting \in [Callbacks -> Nat], NEW queued \in [Callbacks -> [Results -> Nat]],
           \A e \in Descriptors, c \in Callbacks :
               WaitingTable'[e][c] = IF e = d THEN waiting[c] ELSE WaitingTable[e][c],
           \A e \in Descriptors, c \in Callbacks, r \in Results :
               QueuedTable'[e][c][r] = IF e = d THEN queued[c][r] ELSE QueuedTable[e][c][r]
    PROVE  Table!Become(d, waiting, queued)
<1>1. /\ WaitingTable \in [Descriptors -> [Callbacks -> Nat]]
      /\ WaitingTable' \in [Descriptors -> [Callbacks -> Nat]]
      /\ QueuedTable \in [Descriptors -> [Callbacks -> [Results -> Nat]]]
      /\ QueuedTable' \in [Descriptors -> [Callbacks -> [Results -> Nat]]]
  <2>1. \A e \in Descriptors, c \in Callbacks, r \in Results :
           /\ Count(e, "queued", c, "none") \in Nat /\ Count(e, "queued", c, "none")' \in Nat
           /\ Count(e, "posted", c, r) \in Nat /\ Count(e, "posted", c, r)' \in Nat
    BY CountedNat DEF Count, Counted
  <2>2. Callbacks # {} /\ Results # {}
    BY DEF Callbacks, Results
  <2>3. \A e \in Descriptors :
           /\ Waiting(e) \in [Callbacks -> Nat] /\ Waiting(e)' \in [Callbacks -> Nat]
    BY <2>1, <2>2 DEF Waiting
  <2>4. \A e \in Descriptors :
           /\ Queued(e) \in [Callbacks -> [Results -> Nat]]
           /\ Queued(e)' \in [Callbacks -> [Results -> Nat]]
    BY <2>1 DEF Queued
  <2> QED BY <2>3, <2>4 DEF WaitingTable, QueuedTable
<1>2. WaitingTable' = [WaitingTable EXCEPT ![d] = waiting]
  <2>1. \A e \in Descriptors : WaitingTable'[e] = [WaitingTable EXCEPT ![d] = waiting][e]
    <3> SUFFICES ASSUME NEW e \in Descriptors
                 PROVE  WaitingTable'[e] = [WaitingTable EXCEPT ![d] = waiting][e]
      OBVIOUS
    <3>1. \A c \in Callbacks : WaitingTable'[e][c] = [WaitingTable EXCEPT ![d] = waiting][e][c]
      BY <1>1
    <3> QED BY <1>1, <3>1
  <2> QED BY <1>1, <2>1
<1>3. QueuedTable' = [QueuedTable EXCEPT ![d] = queued]
  <2>1. \A e \in Descriptors : QueuedTable'[e] = [QueuedTable EXCEPT ![d] = queued][e]
    <3> SUFFICES ASSUME NEW e \in Descriptors
                 PROVE  QueuedTable'[e] = [QueuedTable EXCEPT ![d] = queued][e]
      OBVIOUS
    <3>1. ASSUME NEW c \in Callbacks
          PROVE  QueuedTable'[e][c] = [QueuedTable EXCEPT ![d] = queued][e][c]
      <4>1. \A r \in Results :
               QueuedTable'[e][c][r] = [QueuedTable EXCEPT ![d] = queued][e][c][r]
        BY <1>1
      <4> QED BY <1>1, <4>1
    <3> QED BY <1>1, <3>1
  <2> QED BY <1>1, <2>1
<1> QED BY <1>2, <1>3 DEF Table!Become, WaitingTable, QueuedTable, Waiting, Queued

(* Operations of two descriptors, stages, callbacks or results are counted  *)
(* apart, and a free object is none of them.                                *)
LEMMA RecordsDiffer ==
    ASSUME NEW d, NEW stage, NEW c, NEW r, NEW e, NEW stage2, NEW c2, NEW r2
    PROVE  /\ OpRecord(d, stage, c, r) = OpRecord(e, stage2, c2, r2)
                 <=> d = e /\ stage = stage2 /\ c = c2 /\ r = r2
           /\ stage # "free" => OpRecord(d, stage, c, r) # Free
BY DEF OpRecord, Free

(* The tables hold numbers.                                                  *)
LEMMA TableTypes ==
    ASSUME NEW d \in Descriptors
    PROVE  /\ WaitingTable[d] \in [Callbacks -> Nat]
           /\ QueuedTable[d] \in [Callbacks -> [Results -> Nat]]
<1>1. \A c \in Callbacks, r \in Results :
         Count(d, "queued", c, "none") \in Nat /\ Count(d, "posted", c, r) \in Nat
  BY CountedNat DEF Count, Counted
<1>2. Results # {}
  BY DEF Results
<1>3. Waiting(d) \in [Callbacks -> Nat]
  BY <1>1, <1>2 DEF Waiting
<1>4. Queued(d) \in [Callbacks -> [Results -> Nat]]
  BY <1>1 DEF Queued
<1> QED BY <1>3, <1>4 DEF WaitingTable, QueuedTable

(* An operation that is left to the reactor is IoTable's Start.              *)
LEMMA WaitsIsStart ==
    ASSUME NEW o \in Ops, NEW d \in Descriptors, NEW cbk \in Callbacks,
           \A p \in Ops : p # o => ops'[p] = ops[p],
           ops[o] = Free, ops'[o] = OpRecord(d, "queued", cbk, "none")
    PROVE  Table!Start(d, cbk)
<1>0. ops'[o] # ops[o]
  BY RecordsDiffer
<1> DEFINE waiting == [WaitingTable[d] EXCEPT ![cbk] = @ + 1]
           queued == QueuedTable[d]
<1>1. waiting \in [Callbacks -> Nat] /\ queued \in [Callbacks -> [Results -> Nat]]
  BY TableTypes
<1>2. ASSUME NEW e \in Descriptors, NEW c \in Callbacks
      PROVE  WaitingTable'[e][c] = IF e = d THEN waiting[c] ELSE WaitingTable[e][c]
  <2>1. ops'[o] = OpRecord(e, "queued", c, "none") <=> e = d /\ c = cbk
    BY RecordsDiffer
  <2>2. ops[o] # OpRecord(e, "queued", c, "none")
    BY RecordsDiffer
  <2>3. Counted(OpRecord(e, "queued", c, "none"))'
           = IF e = d /\ c = cbk THEN Counted(OpRecord(e, "queued", c, "none")) + 1
                                 ELSE Counted(OpRecord(e, "queued", c, "none"))
    BY <1>0, <2>1, <2>2, OneOperation
  <2> QED BY <2>3, Entries, TableTypes
<1>3. ASSUME NEW e \in Descriptors, NEW c \in Callbacks, NEW r \in Results
      PROVE  QueuedTable'[e][c][r] = IF e = d THEN queued[c][r] ELSE QueuedTable[e][c][r]
  <2>1. ops'[o] # OpRecord(e, "posted", c, r) /\ ops[o] # OpRecord(e, "posted", c, r)
    BY RecordsDiffer
  <2> QED BY <1>0, <2>1, OneOperation, Entries
<1> HIDE DEF waiting, queued
<1>4. Table!Become(d, waiting, queued)
  BY <1>1, <1>2, <1>3, TableStep
<1> QED BY <1>4 DEF Table!Start, Table!StartOp, waiting, queued, WaitingTable, QueuedTable,
                    Waiting, Queued

(* One that is over at once is its CompleteAtOnce.                           *)
LEMMA OverIsCompleteAtOnce ==
    ASSUME NEW o \in Ops, NEW d \in Descriptors, NEW cbk \in Callbacks, NEW res \in Results,
           \A p \in Ops : p # o => ops'[p] = ops[p],
           ops[o] = Free, ops'[o] = OpRecord(d, "posted", cbk, res)
    PROVE  Table!CompleteAtOnce(d, cbk, res)
<1>0. ops'[o] # ops[o]
  BY RecordsDiffer
<1> DEFINE waiting == WaitingTable[d]
           queued == [QueuedTable[d] EXCEPT ![cbk][res] = @ + 1]
<1>1. waiting \in [Callbacks -> Nat] /\ queued \in [Callbacks -> [Results -> Nat]]
  BY TableTypes
<1>2. ASSUME NEW e \in Descriptors, NEW c \in Callbacks
      PROVE  WaitingTable'[e][c] = IF e = d THEN waiting[c] ELSE WaitingTable[e][c]
  <2>1. ops'[o] # OpRecord(e, "queued", c, "none") /\ ops[o] # OpRecord(e, "queued", c, "none")
    BY RecordsDiffer
  <2> QED BY <1>0, <2>1, OneOperation, Entries
<1>3. ASSUME NEW e \in Descriptors, NEW c \in Callbacks, NEW r \in Results
      PROVE  QueuedTable'[e][c][r] = IF e = d THEN queued[c][r] ELSE QueuedTable[e][c][r]
  <2>1. ops'[o] = OpRecord(e, "posted", c, r) <=> e = d /\ c = cbk /\ r = res
    BY RecordsDiffer
  <2>2. ops[o] # OpRecord(e, "posted", c, r)
    BY RecordsDiffer
  <2>3. Counted(OpRecord(e, "posted", c, r))'
           = IF e = d /\ c = cbk /\ r = res THEN Counted(OpRecord(e, "posted", c, r)) + 1
                                            ELSE Counted(OpRecord(e, "posted", c, r))
    BY <1>0, <2>1, <2>2, OneOperation
  <2> QED BY <2>3, Entries, TableTypes
<1> HIDE DEF waiting, queued
<1>4. Table!Become(d, waiting, queued)
  BY <1>1, <1>2, <1>3, TableStep
<1> QED BY <1>4 DEF Table!CompleteAtOnce, Table!Post, waiting, queued,
                    WaitingTable, QueuedTable, Waiting, Queued

(* One that the kernel finishes is its Finish.                               *)
LEMMA PerformedIsFinish ==
    ASSUME NEW o \in Ops, NEW d \in Descriptors, NEW cbk \in Callbacks, NEW res \in Results,
           \A p \in Ops : p # o => ops'[p] = ops[p],
           ops[o] = OpRecord(d, "queued", cbk, "none"),
           ops'[o] = OpRecord(d, "posted", cbk, res)
    PROVE  Table!Finish(d, cbk, res)
<1>0. ops'[o] # ops[o]
  BY RecordsDiffer
<1> DEFINE waiting == [WaitingTable[d] EXCEPT ![cbk] = @ - 1]
           queued == [QueuedTable[d] EXCEPT ![cbk][res] = @ + 1]
<1>a. WaitingTable[d][cbk] > 0
  BY <1>0, OneOperation, Entries
<1>1. waiting \in [Callbacks -> Nat] /\ queued \in [Callbacks -> [Results -> Nat]]
  BY <1>a, TableTypes
<1>2. ASSUME NEW e \in Descriptors, NEW c \in Callbacks
      PROVE  WaitingTable'[e][c] = IF e = d THEN waiting[c] ELSE WaitingTable[e][c]
  <2>1. ops[o] = OpRecord(e, "queued", c, "none") <=> e = d /\ c = cbk
    BY RecordsDiffer
  <2>2. ops'[o] # OpRecord(e, "queued", c, "none")
    BY RecordsDiffer
  <2>3. Counted(OpRecord(e, "queued", c, "none"))'
           = IF e = d /\ c = cbk THEN Counted(OpRecord(e, "queued", c, "none")) - 1
                                 ELSE Counted(OpRecord(e, "queued", c, "none"))
    BY <1>0, <2>1, <2>2, OneOperation
  <2> QED BY <2>3, Entries, TableTypes
<1>3. ASSUME NEW e \in Descriptors, NEW c \in Callbacks, NEW r \in Results
      PROVE  QueuedTable'[e][c][r] = IF e = d THEN queued[c][r] ELSE QueuedTable[e][c][r]
  <2>1. ops'[o] = OpRecord(e, "posted", c, r) <=> e = d /\ c = cbk /\ r = res
    BY RecordsDiffer
  <2>2. ops[o] # OpRecord(e, "posted", c, r)
    BY RecordsDiffer
  <2>3. Counted(OpRecord(e, "posted", c, r))'
           = IF e = d /\ c = cbk /\ r = res THEN Counted(OpRecord(e, "posted", c, r)) + 1
                                            ELSE Counted(OpRecord(e, "posted", c, r))
    BY <1>0, <2>1, <2>2, OneOperation
  <2> QED BY <2>3, Entries, TableTypes
<1> HIDE DEF waiting, queued
<1>4. Table!Become(d, waiting, queued)
  BY <1>1, <1>2, <1>3, TableStep
<1> QED BY <1>a, <1>4 DEF Table!Finish, Table!EndOp, Table!Post, waiting, queued,
                          WaitingTable, QueuedTable, Waiting, Queued

(* One whose handler a worker calls is its Run.                              *)
LEMMA CompletedIsRun ==
    ASSUME NEW o \in Ops, NEW d \in Descriptors, NEW cbk \in Callbacks, NEW res \in Results,
           \A p \in Ops : p # o => ops'[p] = ops[p],
           ops[o] = OpRecord(d, "posted", cbk, res), ops'[o] = Free
    PROVE  Table!Run(d, cbk, res)
<1>0. ops'[o] # ops[o]
  BY RecordsDiffer
<1> DEFINE waiting == WaitingTable[d]
           queued == [QueuedTable[d] EXCEPT ![cbk][res] = @ - 1]
<1>a. QueuedTable[d][cbk][res] > 0
  BY <1>0, OneOperation, Entries
<1>1. waiting \in [Callbacks -> Nat] /\ queued \in [Callbacks -> [Results -> Nat]]
  BY <1>a, TableTypes
<1>2. ASSUME NEW e \in Descriptors, NEW c \in Callbacks
      PROVE  WaitingTable'[e][c] = IF e = d THEN waiting[c] ELSE WaitingTable[e][c]
  <2>1. ops'[o] # OpRecord(e, "queued", c, "none") /\ ops[o] # OpRecord(e, "queued", c, "none")
    BY RecordsDiffer
  <2> QED BY <1>0, <2>1, OneOperation, Entries
<1>3. ASSUME NEW e \in Descriptors, NEW c \in Callbacks, NEW r \in Results
      PROVE  QueuedTable'[e][c][r] = IF e = d THEN queued[c][r] ELSE QueuedTable[e][c][r]
  <2>1. ops[o] = OpRecord(e, "posted", c, r) <=> e = d /\ c = cbk /\ r = res
    BY RecordsDiffer
  <2>2. ops'[o] # OpRecord(e, "posted", c, r)
    BY RecordsDiffer
  <2>3. Counted(OpRecord(e, "posted", c, r))'
           = IF e = d /\ c = cbk /\ r = res THEN Counted(OpRecord(e, "posted", c, r)) - 1
                                            ELSE Counted(OpRecord(e, "posted", c, r))
    BY <1>0, <2>1, <2>2, OneOperation
  <2> QED BY <2>3, Entries, TableTypes
<1> HIDE DEF waiting, queued
<1>4. Table!Become(d, waiting, queued)
  BY <1>1, <1>2, <1>3, TableStep
<1> QED BY <1>a, <1>4 DEF Table!Run, Table!Take, waiting, queued,
                          WaitingTable, QueuedTable, Waiting, Queued

(* cancel_ops is its AbortAll: what waited on the descriptor is counted with *)
(* what had been aborted before, and nothing else changes.                   *)
LEMMA CancelIsAbortAll ==
    ASSUME TypeOK, NEW f \in Fds, cancel_ops(f)
    PROVE  Table!AbortAll(f)
<1>0. ops \in [Ops -> OpRecords] /\ f \in Descriptors /\ "aborted" \in Results
  BY DEF TypeOK, OpRecords, Descriptors, Results
<1>1. \A o \in Ops, e \in Descriptors, c \in Callbacks, r \in Results :
         /\ ops'[o] = OpRecord(e, "queued", c, "none")
                <=> ops[o] = OpRecord(e, "queued", c, "none") /\ e # f
         /\ ops'[o] = OpRecord(e, "posted", c, r)
                <=> \/ ops[o] = OpRecord(e, "posted", c, r)
                    \/ e = f /\ r = "aborted" /\ ops[o] = OpRecord(f, "queued", c, "none")
  <2> SUFFICES ASSUME NEW o \in Ops, NEW e \in Descriptors, NEW c \in Callbacks, NEW r \in Results
               PROVE  /\ ops'[o] = OpRecord(e, "queued", c, "none")
                            <=> ops[o] = OpRecord(e, "queued", c, "none") /\ e # f
                      /\ ops'[o] = OpRecord(e, "posted", c, r)
                            <=> \/ ops[o] = OpRecord(e, "posted", c, r)
                                \/ /\ e = f /\ r = "aborted"
                                   /\ ops[o] = OpRecord(f, "queued", c, "none")
    OBVIOUS
  <2>1. CASE ops[o].stage = "queued" /\ ops[o].fd = f
    <3>1. ops[o] \in [stage : {"queued"}, cbk : Callbacks, fd : Fds, result : {"none"}]
      BY <1>0, <2>1, QueuedOp
    <3>2. ops[o] = OpRecord(f, "queued", ops[o].cbk, "none")
      BY <2>1, <3>1 DEF OpRecord
    <3>3. ops'[o] = [ops[o] EXCEPT !.stage = "posted", !.result = "aborted"]
      BY <2>1 DEF cancel_ops
    <3>4. ops'[o] = OpRecord(f, "posted", ops[o].cbk, "aborted")
      BY <2>1, <3>1, <3>3 DEF OpRecord
    <3> QED BY <3>2, <3>4, RecordsDiffer
  <2>2. CASE ~(ops[o].stage = "queued" /\ ops[o].fd = f)
    <3>1. ops'[o] = ops[o]
      BY <2>2 DEF cancel_ops
    <3>2. ops[o] # OpRecord(f, "queued", c, "none")
      BY <2>2 DEF OpRecord
    <3> QED BY <3>1, <3>2
  <2> QED BY <2>1, <2>2
<1> DEFINE waiting == [c \in Callbacks |-> 0]
           queued == [c \in Callbacks |->
                         [QueuedTable[f][c] EXCEPT !["aborted"] = @ + WaitingTable[f][c]]]
<1>2. waiting \in [Callbacks -> Nat] /\ queued \in [Callbacks -> [Results -> Nat]]
  BY <1>0, TableTypes
<1>3. ASSUME NEW e \in Descriptors, NEW c \in Callbacks
      PROVE  WaitingTable'[e][c] = IF e = f THEN waiting[c] ELSE WaitingTable[e][c]
  <2> DEFINE x == OpRecord(e, "queued", c, "none")
  <2>1. "aborted" \in Results
    BY DEF Results
  <2>2. {o \in Ops : ops'[o] = x} = IF e = f THEN {} ELSE {o \in Ops : ops[o] = x}
    BY <1>1, <2>1
  <2>3. Counted(x)' = IF e = f THEN 0 ELSE Counted(x)
    <3> HIDE DEF x
    <3> QED BY <2>2, FS_EmptySet DEF Counted
  <2> QED BY <2>3, Entries
<1>4. ASSUME NEW e \in Descriptors, NEW c \in Callbacks, NEW r \in Results
      PROVE  QueuedTable'[e][c][r] = IF e = f THEN queued[c][r] ELSE QueuedTable[e][c][r]
  <2> DEFINE x == OpRecord(e, "posted", c, r)
             y == OpRecord(f, "queued", c, "none")
  <2>1. CASE e = f /\ r = "aborted"
    <3>1. {o \in Ops : ops'[o] = x} = {o \in Ops : ops[o] = x} \cup {o \in Ops : ops[o] = y}
      BY <1>1, <2>1
    <3>2. x # y
      BY RecordsDiffer
    <3>a. x = OpRecord(f, "posted", c, "aborted")
      BY <2>1
    <3> HIDE DEF x, y
    <3>3. {o \in Ops : ops[o] = x} \cap {o \in Ops : ops[o] = y} = {}
      BY <3>2
    <3>4. Counted(x)' = Counted(x) + Counted(y)
      <4> DEFINE S == {o \in Ops : ops[o] = x}
                 T == {o \in Ops : ops[o] = y}
      <4>1. /\ IsFiniteSet(S) /\ IsFiniteSet(T) /\ Counted(x)' = Cardinality(S \cup T)
            /\ S \cap T = {} /\ Counted(x) = Cardinality(S) /\ Counted(y) = Cardinality(T)
            /\ Counted(x) \in Nat /\ Counted(y) \in Nat
        BY <3>1, <3>3, CountedNat DEF Counted
      <4> HIDE DEF S, T
      <4>2. Cardinality(S \cup T) = Cardinality(S) + Cardinality(T) - Cardinality(S \cap T)
        BY <4>1, FS_Union
      <4>3. Cardinality(S \cap T) = 0
        BY <4>1, FS_EmptySet
      <4> QED BY <4>1, <4>2, <4>3
    <3>5. QueuedTable'[f][c]["aborted"] = QueuedTable[f][c]["aborted"] + WaitingTable[f][c]
      <4>1. /\ QueuedTable'[f][c]["aborted"] = Counted(x)'
            /\ QueuedTable[f][c]["aborted"] = Counted(x)
            /\ WaitingTable[f][c] = Counted(y)
        BY <1>0, <3>a, Entries DEF y
      <4> QED BY <3>4, <4>1
    <3> QED BY <1>0, <2>1, <3>5, TableTypes
  <2>2. CASE ~(e = f /\ r = "aborted")
    <3>1. {o \in Ops : ops'[o] = x} = {o \in Ops : ops[o] = x}
      BY <1>1, <2>2
    <3>2. Counted(x)' = Counted(x)
      <4> HIDE DEF x
      <4> QED BY <3>1 DEF Counted
    <3>3. QueuedTable'[e][c][r] = QueuedTable[e][c][r]
      BY <3>2, Entries
    <3> QED BY <1>0, <2>2, <3>3, TableTypes
  <2> QED BY <2>1, <2>2
<1> HIDE DEF waiting, queued
<1>5. Table!Become(f, waiting, queued)
  BY <1>0, <1>2, <1>3, <1>4, TableStep
<1>6. /\ waiting = Table!NonePending(WaitingTable[f])
      /\ queued = Table!Aborted(WaitingTable[f], QueuedTable[f])
  BY <1>0, TableTypes DEF waiting, queued, Table!NonePending, Table!Aborted
<1> QED BY <1>5, <1>6 DEF Table!AbortAll, WaitingTable, QueuedTable, Waiting, Queued

(* Every step of the service is a step of IoTable on one descriptor, or     *)
(* leaves the tables alone.                                                 *)
LEMMA IoTableStep ==
    ASSUME ServiceInv, [Next]_vars
    PROVE  [Table!Next]_(Table!tableVars)
<1>0. /\ TypeOK /\ ops \in [Ops -> OpRecords]
      /\ \A f \in Fds : f \in Descriptors
      /\ invalid_socket \in Descriptors
      /\ non_blocking_recvfrom \subseteq Results /\ "failed" \in Results
      /\ "bad_descriptor" \in Results
  BY DEF ServiceInv, TypeOK, OpRecords, Descriptors, non_blocking_recvfrom, Results
<1>1. CASE UNCHANGED ops
  BY <1>1 DEF Table!tableVars, Count
<1>2. ASSUME NEW s \in Sockets, is_open(s), Close(s) \/ cancel_ops(socket[s])
      PROVE  Table!Next
  <2>1. socket[s] \in Fds /\ cancel_ops(socket[s])
    BY <1>0, <1>2, OpenDescriptor DEF Close, deregister_descriptor
  <2>2. Table!AbortAll(socket[s])
    BY <1>0, <2>1, CancelIsAbortAll
  <2> QED BY <1>0, <2>1, <2>2 DEF Table!Next
<1>3. ASSUME NEW s \in Sockets, destroy(s)
      PROVE  Table!Next \/ UNCHANGED ops
  BY <1>2, <1>3 DEF destroy
<1>4. ASSUME NEW s \in Sockets,
             \/ constructor(s) \/ destructor(s) \/ do_open(s) \/ do_assign(s)
             \/ close(s) \/ cancel(s)
             \/ \E other \in Sockets : base_move_construct(s, other) \/ base_move_assign(s, other)
      PROVE  Table!Next \/ UNCHANGED ops
  BY <1>2, <1>3, <1>4 DEF constructor, destructor, do_open, do_assign, Assign, close, cancel,
                          base_move_construct, base_move_assign
<1>5. ASSUME NEW s \in Sockets, NEW o \in Ops, NEW cbk \in Callbacks, start_op(s, o, cbk)
      PROVE  Table!Next
  <2>0. socket[s] \in Descriptors /\ ops[o] \in OpRecords
    BY <1>0 DEF TypeOK, Descriptors
  <2>1. ASSUME NEW d \in Descriptors, NEW stage, NEW r, New(o, cbk, d, stage, r)
        PROVE  /\ ops[o] = Free /\ ops'[o] = OpRecord(d, stage, cbk, r)
               /\ \A p \in Ops : p # o => ops'[p] = ops[p]
    <3>1. ops[o] = Free
      BY <2>0, <2>1 DEF New, OpRecords
    <3> QED BY <1>0, <2>1, <3>1 DEF New, OpRecord
  <2>2. CASE New(o, cbk, socket[s], "queued", "none")
    <3>1. Table!Start(socket[s], cbk)
      BY <2>0, <2>1, <2>2, WaitsIsStart
    <3> QED BY <2>0, <3>1 DEF Table!Next
  <2>3. ASSUME NEW d \in Descriptors, NEW r \in Results, New(o, cbk, d, "posted", r)
        PROVE  Table!Next
    <3>1. Table!CompleteAtOnce(d, cbk, r)
      BY <2>1, <2>3, OverIsCompleteAtOnce
    <3> QED BY <3>1 DEF Table!Next
  <2> QED BY <1>0, <1>5, <2>0, <2>2, <2>3 DEF start_op
<1>6. ASSUME NEW o \in Ops, do_perform(o)
      PROVE  Table!Next
  <2>1. PICK r \in non_blocking_recvfrom :
          ops' = [ops EXCEPT ![o].stage = "posted", ![o].result = r]
    BY <1>6 DEF do_perform
  <2>2. ops[o] \in [stage : {"queued"}, cbk : Callbacks, fd : Fds, result : {"none"}]
    BY <1>0, <1>6, QueuedOp DEF do_perform
  <2>3. ops[o] = OpRecord(ops[o].fd, "queued", ops[o].cbk, "none")
    BY <2>2 DEF OpRecord
  <2>4. /\ ops'[o] = [ops[o] EXCEPT !.stage = "posted", !.result = r]
        /\ \A p \in Ops : p # o => ops'[p] = ops[p]
    BY <1>0, <2>1
  <2>5. ops'[o] = OpRecord(ops[o].fd, "posted", ops[o].cbk, r)
    BY <2>2, <2>4 DEF OpRecord
  <2>6. ops[o].fd \in Descriptors /\ ops[o].cbk \in Callbacks /\ r \in Results
    BY <1>0, <2>2
  <2>7. Table!Finish(ops[o].fd, ops[o].cbk, r)
    BY <2>3, <2>4, <2>5, <2>6, PerformedIsFinish
  <2> QED BY <2>6, <2>7 DEF Table!Next
<1>7. ASSUME NEW o \in Ops, do_complete(o)
      PROVE  Table!Next
  <2>1. ops[o] \in [stage : {"posted"}, cbk : Callbacks, fd : Fds \cup {invalid_socket},
                    result : Results]
    BY <1>0, <1>7 DEF do_complete, OpRecords, Free
  <2>2. ops[o] = OpRecord(ops[o].fd, "posted", ops[o].cbk, ops[o].result)
    BY <2>1 DEF OpRecord
  <2>3. ops'[o] = Free /\ \A p \in Ops : p # o => ops'[p] = ops[p]
    BY <1>0, <1>7 DEF do_complete
  <2>4. ops[o].fd \in Descriptors /\ ops[o].cbk \in Callbacks /\ ops[o].result \in Results
    BY <2>1 DEF Descriptors
  <2>5. Table!Run(ops[o].fd, ops[o].cbk, ops[o].result)
    BY <2>2, <2>3, <2>4, CompletedIsRun
  <2> QED BY <2>4, <2>5 DEF Table!Next
<1>8. CASE \/ \E f \in Fds : OthersOpen(f) \/ OthersClose(f)
           \/ UNCHANGED vars
  BY <1>1, <1>8 DEF OthersOpen, OthersClose, vars
<1> QED BY <1>1, <1>4, <1>5, <1>6, <1>7, <1>8 DEF Next

(* The service implements IoTable: no operation is lost, none runs twice,   *)
(* and closing a descriptor aborts its own and no other, for any number of  *)
(* sockets, descriptors and operations.  This is what the modules of the    *)
(* endpoints take the operations of a socket for.                           *)
THEOREM ImplementsIoTableHolds == Spec => ImplementsIoTable
<1>1. Init => Table!Init
  <2> SUFFICES ASSUME Init
               PROVE  Table!Init
    OBVIOUS
  <2>1. \A o \in Ops : ops[o] = Free
    BY DEF Init
  <2>2. \A d \in Descriptors, c \in Callbacks, r \in Results :
           /\ {o \in Ops : ops[o] = OpRecord(d, "queued", c, "none")} = {}
           /\ {o \in Ops : ops[o] = OpRecord(d, "posted", c, r)} = {}
    BY <2>1, RecordsDiffer
  <2>3. \A d \in Descriptors, c \in Callbacks, r \in Results :
           Count(d, "queued", c, "none") = 0 /\ Count(d, "posted", c, r) = 0
    BY <2>2, FS_EmptySet DEF Count, OpRecord
  <2>4. Results # {}
    BY DEF Results
  <2> QED BY <2>3, <2>4 DEF Table!Init
<1>2. ServiceInv /\ [Next]_vars => [Table!Next]_(Table!tableVars)
  BY IoTableStep
<1> QED BY <1>1, <1>2, ServiceInvHolds, PTL DEF Spec, ImplementsIoTable, Table!Spec
=============================================================================
