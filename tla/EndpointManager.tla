-------------------------- MODULE EndpointManager ---------------------------
(***************************************************************************)
(* endpoint_manager_impl: creates endpoints and keeps them in two maps,    *)
(* ip -> port -> reliable -> endpoint, one for servers, one for clients.   *)
(*                                                                         *)
(* An endpoint is an object that lives as long as something holds a        *)
(* shared_ptr to it: a map, an application thread, or its own pending      *)
(* operations and queued callbacks.  Its name is free again when nothing   *)
(* does.  Of the endpoint itself only what matters to its owners is kept:  *)
(*    running   its socket is open and operations of it are pending        *)
(*    closing   stop() closed the socket, aborted callbacks are queued     *)
(*    idle      no operation and no callback is left                       *)
(* The modules of the endpoints say how each of them gets from one to the  *)
(* other.                                                                  *)
(*                                                                         *)
(* Every operation of the manager holds endpoint_mutex_ and is one step,   *)
(* except remove, which reads the use count and erases in two: the count   *)
(* is not protected by that mutex.  UseCount has the decrement in its two  *)
(* steps; here it is one.                                                  *)
(***************************************************************************)
EXTENDS Naturals, FiniteSets, Functions

CONSTANTS Threads,    (* application threads                               *)
          Endpoints,  (* bound: endpoint objects alive at a time           *)
          Ips, Ports, (* addresses of endpoints                            *)
          Word,       (* use_count_ is a number below Word                 *)
          NoThread

ASSUME ManagerAssumption ==
    /\ IsFiniteSet(Threads) /\ NoThread \notin Threads
    /\ Word \in Nat /\ Cardinality(Threads) < Word

VARIABLES
    server_endpoints, client_endpoints,
    kind,        (* kind[e]: the class of e                                *)
    home,        (* home[e]: the address e was created for                 *)
    activity,    (* activity[e]: running, closing or idle                  *)
    useCount,    (* useCount[e]: use_count_                                *)
    initial,     (* history: use_count_ as the constructor left it         *)
    users,       (* history: users[e]: the threads counted in              *)
    latecomers,  (* history: those of users[e] that counted themselves in  *)
                 (* when e was not in its map, or was being erased         *)
    removed,     (* history: the endpoints that remove took out            *)
    overwritten, (* history: the endpoints that create replaced            *)
    refs,        (* refs[t]: the endpoints thread t holds a shared_ptr to  *)
    removing     (* the remove that holds endpoint_mutex_ and has found    *)
                 (* the use count 0                                        *)

mapVars      == <<server_endpoints, client_endpoints>>
objectVars   == <<kind, home, activity>>
countVars    == <<useCount, initial, users, latecomers>>
historyVars  == <<removed, overwritten>>
vars == <<mapVars, objectVars, countVars, historyVars, refs, removing>>

-----------------------------------------------------------------------------
Kinds == {"tcp_server", "udp_server", "tcp_client"}
Activities == {"running", "closing", "idle"}
Addresses == [ip : Ips, port : Ports]
NotRemoving == [by |-> NoThread]

TypeOK ==
    /\ kind \in [Endpoints -> Kinds]
    /\ home \in [Endpoints -> Addresses]
    /\ activity \in [Endpoints -> Activities]
    /\ useCount \in [Endpoints -> 0 .. Word - 1]
    /\ initial \in [Endpoints -> 0 .. Word - 1]
    /\ users \in [Endpoints -> SUBSET Threads]
    /\ latecomers \in [Endpoints -> SUBSET Threads]
    /\ removed \subseteq Endpoints
    /\ overwritten \subseteq Endpoints
    /\ refs \in [Threads -> SUBSET Endpoints]
    /\ removing = NotRemoving \/ removing.by \in Threads

(***************************************************************************)
(* std::map: a function whose domain is the set of the keys that are in    *)
(* it.  endpoints_t nests three of them.                                   *)
(***************************************************************************)
EmptyMap == [k \in {} |-> {}]
Set(map, k, v) == [x \in DOMAIN map \cup {k} |-> IF x = k THEN v ELSE map[x]]
Without(map, k) == Restrict(map, DOMAIN map \ {k})
At(map, k) == IF k \in DOMAIN map THEN map[k] ELSE EmptyMap  \* operator[]

Contains(map, a, reliable) ==
    /\ a.ip \in DOMAIN map
    /\ a.port \in DOMAIN map[a.ip]
    /\ reliable \in DOMAIN map[a.ip][a.port]

Entry(map, a, reliable) == map[a.ip][a.port][reliable]

(* map[ip][port][reliable] = e.                                            *)
Assign(map, a, reliable, e) ==
    LET ports == At(map, a.ip)
    IN  Set(map, a.ip, Set(ports, a.port, Set(At(ports, a.port), reliable, e)))

(* erase, with the maps it leaves empty: first that of the port, then that *)
(* of the address.                                                         *)
Erase_leaving_address(map, a, reliable) ==
    LET flags == Without(map[a.ip][a.port], reliable)
    IN  Set(map, a.ip, IF flags = EmptyMap THEN Without(map[a.ip], a.port)
                       ELSE Set(map[a.ip], a.port, flags))

Erase(map, a, reliable) ==
    LET flags == Without(map[a.ip][a.port], reliable)
        ports == IF flags = EmptyMap THEN Without(map[a.ip], a.port)
                 ELSE Set(map[a.ip], a.port, flags)
    IN  IF ports = EmptyMap THEN Without(map, a.ip) ELSE Set(map, a.ip, ports)

Values(map) ==
    UNION {UNION {Range(map[ip][port]) : port \in DOMAIN map[ip]} : ip \in DOMAIN map}

-----------------------------------------------------------------------------
Registered(e) == e \in Values(server_endpoints) \cup Values(client_endpoints)

Alive(e) ==
    \/ Registered(e)
    \/ \E t \in Threads : e \in refs[t]
    \/ activity[e] # "idle"

Init ==
    /\ server_endpoints = EmptyMap
    /\ client_endpoints = EmptyMap
    /\ kind = [e \in Endpoints |-> "tcp_server"]
    /\ home \in [Endpoints -> Addresses] /\ \A e, f \in Endpoints : home[e] = home[f]
    /\ activity = [e \in Endpoints |-> "idle"]
    /\ useCount = [e \in Endpoints |-> 0]
    /\ initial = [e \in Endpoints |-> 0]
    /\ users = [e \in Endpoints |-> {}]
    /\ latecomers = [e \in Endpoints |-> {}]
    /\ removed = {}
    /\ overwritten = {}
    /\ refs = [t \in Threads |-> {}]
    /\ removing = NotRemoving

MutexFree == removing = NotRemoving

(***************************************************************************)
(* make_shared, insertion and start(), all under the mutex.  The caller    *)
(* gets the endpoint as well.  use_count_ is whatever the memory held.     *)
(***************************************************************************)
Construct(t, e, k, a) ==
    /\ ~Alive(e)
    /\ kind' = [kind EXCEPT ![e] = k]
    /\ home' = [home EXCEPT ![e] = a]
    /\ activity' = [activity EXCEPT ![e] = "running"]
    /\ \E n \in 0 .. Word - 1 :
         /\ useCount' = [useCount EXCEPT ![e] = n]
         /\ initial' = [initial EXCEPT ![e] = n]
    /\ users' = [users EXCEPT ![e] = {}]
    /\ latecomers' = [latecomers EXCEPT ![e] = {}]
    /\ refs' = [refs EXCEPT ![t] = @ \cup {e}]

(* An object dropped from a map, remembered only while it is alive.        *)
Replaced(map, a, reliable) ==
    IF Contains(map, a, reliable) THEN {Entry(map, a, reliable)} ELSE {}

Inserted(map, e, a, reliable) ==
    /\ overwritten' = (overwritten \ {e}) \cup Replaced(map, a, reliable)
    /\ removed' = removed \ {e}

(***************************************************************************)
(* The constructor of a TCP server binds and listens, and throws if the    *)
(* port is taken: the map is not touched then.  The one of a UDP server    *)
(* binds with SO_REUSEADDR, to a port another one may have.  Both may fail *)
(* for other reasons.  A failed creation changes nothing.                  *)
(***************************************************************************)
tcp_port_reusable(a) == TRUE

tcp_port_free(a) ==
    \A e \in Endpoints :
        ~(kind[e] = "tcp_server" /\ activity[e] = "running" /\ home[e] = a)

create_server_endpoint(t, a, reliable) ==
    /\ MutexFree
    /\ reliable => tcp_port_free(a)
    /\ \E e \in Endpoints :
         /\ Construct(t, e, IF reliable THEN "tcp_server" ELSE "udp_server", a)
         /\ server_endpoints' = Assign(server_endpoints, a, reliable, e)
         /\ Inserted(server_endpoints, e, a, reliable)
    /\ UNCHANGED <<client_endpoints, removing>>

(* Only TCP clients are created: the other branch is compiled out and      *)
(* returns a null pointer.                                                 *)
create_client_endpoint(t, a) ==
    /\ MutexFree
    /\ \E e \in Endpoints :
         /\ Construct(t, e, "tcp_client", a)
         /\ client_endpoints' = Assign(client_endpoints, a, TRUE, e)
         /\ Inserted(client_endpoints, e, a, TRUE)
    /\ UNCHANGED <<server_endpoints, removing>>

Find(t, map, a, reliable) ==
    /\ MutexFree
    /\ Contains(map, a, reliable)
    /\ refs' = [refs EXCEPT ![t] = @ \cup {Entry(map, a, reliable)}]
    /\ UNCHANGED <<mapVars, objectVars, countVars, historyVars, removing>>

find_server_endpoint(t, a, reliable) == Find(t, server_endpoints, a, reliable)
find_client_endpoint(t, a, reliable) == Find(t, client_endpoints, a, reliable)

(* remove, up to the test of the use count.                                *)
RemoveBegins(t, role, map, a, reliable) ==
    /\ MutexFree
    /\ Contains(map, a, reliable)
    /\ removing' = [by |-> t, role |-> role, address |-> a, reliable |-> reliable]
    /\ UNCHANGED <<mapVars, objectVars, countVars, historyVars, refs>>

remove_server_endpoint_unconditionally(t, a, reliable) ==
    RemoveBegins(t, "server", server_endpoints, a, reliable)

remove_server_endpoint(t, a, reliable) ==
    /\ RemoveBegins(t, "server", server_endpoints, a, reliable)
    /\ useCount[Entry(server_endpoints, a, reliable)] = 0

remove_client_endpoint(t, a, reliable) ==
    /\ RemoveBegins(t, "client", client_endpoints, a, reliable)
    /\ useCount[Entry(client_endpoints, a, reliable)] = 0

(* The erasure, and the release of the mutex.  The endpoint is not stopped. *)
erase_server_endpoint ==
    /\ removing.role = "server"
    /\ server_endpoints' =
           Erase(server_endpoints, removing.address, removing.reliable)
    /\ removed' = removed
           \cup {Entry(server_endpoints, removing.address, removing.reliable)}
    /\ UNCHANGED client_endpoints

erase_client_endpoint ==
    /\ removing.role = "client"
    /\ client_endpoints' =
           Erase(client_endpoints, removing.address, removing.reliable)
    /\ removed' = removed
           \cup {Entry(client_endpoints, removing.address, removing.reliable)}
    /\ UNCHANGED server_endpoints

erase(t) ==
    /\ removing.by = t
    /\ erase_server_endpoint \/ erase_client_endpoint
    /\ removing' = NotRemoving
    /\ UNCHANGED <<objectVars, countVars, overwritten, refs>>

-----------------------------------------------------------------------------
(***************************************************************************)
(* The application's use of an endpoint it holds.  A thread counts itself  *)
(* out before it drops its pointer.                                        *)
(***************************************************************************)
release(t, e) ==
    /\ e \in refs[t] /\ t \notin users[e]
    /\ refs' = [refs EXCEPT ![t] = @ \ {e}]
    /\ UNCHANGED <<mapVars, objectVars, countVars, historyVars, removing>>

BeingErased(e) ==
    /\ ~MutexFree
    /\ e = Entry(IF removing.role = "server" THEN server_endpoints ELSE client_endpoints,
                 removing.address, removing.reliable)

increment_use_count(t, e) ==
    /\ e \in refs[t] /\ t \notin users[e]
    /\ useCount' = [useCount EXCEPT ![e] = (@ + 1) % Word]
    /\ users' = [users EXCEPT ![e] = @ \cup {t}]
    /\ latecomers' = [latecomers EXCEPT ![e] =
           IF Registered(e) /\ ~BeingErased(e) THEN @ ELSE @ \cup {t}]
    /\ UNCHANGED <<mapVars, objectVars, initial, historyVars, refs, removing>>

decrement_use_count(t, e) ==
    /\ e \in refs[t] /\ t \in users[e]
    /\ useCount' = [useCount EXCEPT ![e] = IF @ > 0 THEN @ - 1 ELSE @]
    /\ users' = [users EXCEPT ![e] = @ \ {t}]
    /\ latecomers' = [latecomers EXCEPT ![e] = @ \ {t}]
    /\ UNCHANGED <<mapVars, objectVars, initial, historyVars, refs, removing>>

Becomes(e, from, to) ==
    /\ activity[e] \in from
    /\ activity' = [activity EXCEPT ![e] = to]
    /\ UNCHANGED <<mapVars, kind, home, countVars, historyVars, refs, removing>>

stop(t, e) == e \in refs[t] /\ Becomes(e, {"running"}, "closing")

(* start() or send() on a client; a stopped server stays closed.           *)
restart(t, e) ==
    /\ e \in refs[t] /\ kind[e] = "tcp_client"
    /\ Becomes(e, {"idle", "closing"}, "running")

(***************************************************************************)
(* The io_service: the aborted callbacks of a stopped endpoint have run; a *)
(* client has no operation left, its receive_cbk having started none; a    *)
(* client reconnects because a send failed before it was stopped.          *)
(***************************************************************************)
drained(e) == Becomes(e, {"closing"}, "idle")
client_falls_idle(e) == kind[e] = "tcp_client" /\ Becomes(e, {"running"}, "idle")
client_reconnects(e) == kind[e] = "tcp_client" /\ Becomes(e, {"closing"}, "running")

Manage(t) == \E a \in Addresses :
    \/ create_client_endpoint(t, a)
    \/ \E reliable \in BOOLEAN :
         \/ create_server_endpoint(t, a, reliable)
         \/ find_server_endpoint(t, a, reliable)
         \/ find_client_endpoint(t, a, reliable)
         \/ remove_server_endpoint(t, a, reliable)
         \/ remove_client_endpoint(t, a, reliable)

Use(t, e) ==
    \/ release(t, e)
    \/ increment_use_count(t, e) \/ decrement_use_count(t, e)
    \/ stop(t, e) \/ restart(t, e)

Next ==
    \/ \E t \in Threads : Manage(t) \/ erase(t) \/ \E e \in Endpoints : Use(t, e)
    \/ \E e \in Endpoints :
         drained(e) \/ client_falls_idle(e) \/ client_reconnects(e)

Spec == Init /\ [][Next]_vars

-----------------------------------------------------------------------------
(* No map of a port or of an address is ever empty, and an endpoint is      *)
(* found under the address and the kind it was created for, and under no    *)
(* other: remove cleans up behind itself and create fills in what is        *)
(* missing, in any order of calls.                                          *)
WellFormed(map, kinds) ==
    \A ip \in DOMAIN map :
        /\ map[ip] # EmptyMap
        /\ \A port \in DOMAIN map[ip] :
             /\ map[ip][port] # EmptyMap
             /\ \A reliable \in DOMAIN map[ip][port] :
                  LET e == map[ip][port][reliable] IN
                  /\ home[e] = [ip |-> ip, port |-> port]
                  /\ kind[e] = kinds[reliable]
MapsWellFormed ==
    /\ WellFormed(server_endpoints, [r \in BOOLEAN |->
                      IF r THEN "tcp_server" ELSE "udp_server"])
    /\ WellFormed(client_endpoints, [r \in BOOLEAN |->
                      IF r THEN "tcp_client" ELSE "none"])

(* A thread that counted itself in keeps its endpoint findable until it     *)
(* counts itself out, whatever removes the others try: remove reads the     *)
(* count under a mutex that increment does not take, so this is true only   *)
(* of a count that began at 0, of a thread that was not late, and unless    *)
(* create replaces the endpoint.                                            *)
UsedIsFindable ==
    \A e \in Endpoints, t \in Threads :
        t \in users[e] /\ Alive(e) /\ initial[e] = 0 =>
            Registered(e) \/ t \in latecomers[e] \/ e \in overwritten

(* A listening TCP server is known to the manager unless remove took it     *)
(* out: the port it holds makes the constructor of its successor throw      *)
(* before the map is touched.  UDP servers and clients have no such         *)
(* protection, create replaces them while they run.                         *)
RunningServerKnown ==
    \A e \in Endpoints : activity[e] = "running" =>
        \/ Registered(e)
        \/ e \in removed
        \/ kind[e] # "tcp_server" /\ e \in overwritten
=============================================================================
