------------------------ MODULE EndpointManager_proofs -----------------------
(***************************************************************************)
(* Theorems about EndpointManager, for any number of threads that the use  *)
(* count can count, and any endpoints and addresses; and, at the end,      *)
(* about Mutexes, for any number of threads and connections: the manager's *)
(* endpoint_mutex_ is the outermost of them.                               *)
(***************************************************************************)
EXTENDS EndpointManager, Mutexes, FiniteSetTheorems, TLAPS

-----------------------------------------------------------------------------
(***************************************************************************)
(* The nested maps.  What matters of one is which endpoints it has under   *)
(* which keys, and that it keeps no empty map.                             *)
(***************************************************************************)
Has(map, ip, port, reliable, e) ==
    /\ ip \in DOMAIN map
    /\ port \in DOMAIN map[ip]
    /\ reliable \in DOMAIN map[ip][port]
    /\ map[ip][port][reliable] = e

NoEmptyMap(map) ==
    \A ip \in DOMAIN map :
        map[ip] # EmptyMap /\ \A port \in DOMAIN map[ip] : map[ip][port] # EmptyMap

(* The empty map has no key.                                                *)
LEMMA EmptyMapLemma == DOMAIN EmptyMap = {}
BY DEF EmptyMap

(* The assignment makes e the entry under its keys, keeps all others, and    *)
(* leaves no map empty.                                                      *)
LEMMA AssignLemma ==
    ASSUME NEW map, NEW a, NEW reliable, NEW e, NoEmptyMap(map)
    PROVE  /\ NoEmptyMap(Assign(map, a, reliable, e))
           /\ \A ip, port, r, x :
                Has(Assign(map, a, reliable, e), ip, port, r, x) <=>
                    IF ip = a.ip /\ port = a.port /\ r = reliable
                    THEN x = e ELSE Has(map, ip, port, r, x)
<1> DEFINE ports == At(map, a.ip)
           flags == At(ports, a.port)
           flags2 == Set(flags, reliable, e)
           ports2 == Set(ports, a.port, flags2)
           map2 == Set(map, a.ip, ports2)
<1>0. Assign(map, a, reliable, e) = map2
  BY DEF Assign
<1>a. /\ map2 = Set(map, a.ip, ports2) /\ ports2 = Set(ports, a.port, flags2)
      /\ flags2 = Set(flags, reliable, e)
  OBVIOUS
<1>4. /\ a.ip \in DOMAIN map => ports = map[a.ip]
      /\ a.ip \notin DOMAIN map => DOMAIN ports = {}
      /\ a.port \in DOMAIN ports => flags = ports[a.port]
      /\ a.port \notin DOMAIN ports => DOMAIN flags = {}
  BY EmptyMapLemma DEF At
<1> HIDE DEF ports, flags, flags2, ports2, map2
<1>1. /\ DOMAIN map2 = DOMAIN map \cup {a.ip} /\ map2[a.ip] = ports2
      /\ \A x \in DOMAIN map : x # a.ip => map2[x] = map[x]
  BY <1>a DEF Set
<1>2. /\ DOMAIN ports2 = DOMAIN ports \cup {a.port} /\ ports2[a.port] = flags2
      /\ \A x \in DOMAIN ports : x # a.port => ports2[x] = ports[x]
      /\ ports2 # EmptyMap
  BY <1>a, EmptyMapLemma DEF Set
<1>3. /\ DOMAIN flags2 = DOMAIN flags \cup {reliable} /\ flags2[reliable] = e
      /\ \A x \in DOMAIN flags : x # reliable => flags2[x] = flags[x]
      /\ flags2 # EmptyMap
  BY <1>a, EmptyMapLemma DEF Set
<1>5. NoEmptyMap(map2)
  BY <1>1, <1>2, <1>3, <1>4 DEF NoEmptyMap
<1>6. ASSUME NEW ip, NEW port, NEW r, NEW x
      PROVE  Has(map2, ip, port, r, x) <=>
                 IF ip = a.ip /\ port = a.port /\ r = reliable
                 THEN x = e ELSE Has(map, ip, port, r, x)
  <2>1. CASE ip # a.ip
    BY <1>1, <2>1 DEF Has
  <2>2. CASE ip = a.ip /\ port # a.port
    BY <1>1, <1>2, <1>4, <2>2 DEF Has
  <2>3. CASE ip = a.ip /\ port = a.port /\ r # reliable
    BY <1>1, <1>2, <1>3, <1>4, <2>3 DEF Has
  <2>4. CASE ip = a.ip /\ port = a.port /\ r = reliable
    BY <1>1, <1>2, <1>3, <2>4 DEF Has
  <2> QED BY <2>1, <2>2, <2>3, <2>4
<1> QED BY <1>0, <1>5, <1>6

(* The erasure takes out the entry under its keys and no other, and leaves   *)
(* no map empty behind.                                                      *)
LEMMA EraseLemma ==
    ASSUME NEW map, NEW a, NEW reliable, NoEmptyMap(map), Contains(map, a, reliable)
    PROVE  /\ NoEmptyMap(Erase(map, a, reliable))
           /\ \A ip, port, r, x :
                Has(Erase(map, a, reliable), ip, port, r, x) <=>
                    /\ Has(map, ip, port, r, x)
                    /\ ~(ip = a.ip /\ port = a.port /\ r = reliable)
<1> DEFINE flags == Without(map[a.ip][a.port], reliable)
           ports == IF flags = EmptyMap THEN Without(map[a.ip], a.port)
                    ELSE Set(map[a.ip], a.port, flags)
           map2 == IF ports = EmptyMap THEN Without(map, a.ip) ELSE Set(map, a.ip, ports)
<1>0. /\ Erase(map, a, reliable) = map2
      /\ a.ip \in DOMAIN map /\ a.port \in DOMAIN map[a.ip]
      /\ reliable \in DOMAIN map[a.ip][a.port]
  BY DEF Erase, Contains
<1>1. /\ DOMAIN flags = DOMAIN map[a.ip][a.port] \ {reliable}
      /\ \A x \in DOMAIN map[a.ip][a.port] : x # reliable => flags[x] = map[a.ip][a.port][x]
      /\ flags = EmptyMap => DOMAIN flags = {}
  BY EmptyMapLemma DEF Without, Restrict
<1>2. /\ \A x \in DOMAIN map[a.ip] : x # a.port => x \in DOMAIN ports /\ ports[x] = map[a.ip][x]
      /\ DOMAIN ports \subseteq DOMAIN map[a.ip]
      /\ a.port \in DOMAIN ports => ports[a.port] = flags /\ flags # EmptyMap
      /\ a.port \notin DOMAIN ports => flags = EmptyMap
      /\ ports = EmptyMap => DOMAIN ports = {}
  <2>1. CASE flags = EmptyMap
    <3>1. ports = Without(map[a.ip], a.port)
      BY <2>1
    <3> HIDE DEF ports, flags
    <3> QED BY <2>1, <3>1, EmptyMapLemma DEF Without, Restrict
  <2>2. CASE flags # EmptyMap
    <3>1. ports = Set(map[a.ip], a.port, flags)
      BY <2>2
    <3> HIDE DEF ports, flags
    <3> QED BY <1>0, <2>2, <3>1, EmptyMapLemma DEF Set
  <2> QED BY <2>1, <2>2
<1>3. /\ \A x \in DOMAIN map : x # a.ip => x \in DOMAIN map2 /\ map2[x] = map[x]
      /\ DOMAIN map2 \subseteq DOMAIN map
      /\ a.ip \in DOMAIN map2 => map2[a.ip] = ports /\ ports # EmptyMap
      /\ a.ip \notin DOMAIN map2 => ports = EmptyMap
  <2> HIDE DEF ports
  <2>1. CASE ports = EmptyMap
    <3>1. map2 = Without(map, a.ip)
      BY <2>1
    <3> HIDE DEF map2
    <3> QED BY <2>1, <3>1, EmptyMapLemma DEF Without, Restrict
  <2>2. CASE ports # EmptyMap
    <3>1. map2 = Set(map, a.ip, ports)
      BY <2>2
    <3> HIDE DEF map2
    <3> QED BY <1>0, <2>2, <3>1, EmptyMapLemma DEF Set
  <2> QED BY <2>1, <2>2
<1> HIDE DEF flags, ports, map2
<1>4. NoEmptyMap(map2)
  BY <1>1, <1>2, <1>3 DEF NoEmptyMap
<1>5. ASSUME NEW ip, NEW port, NEW r, NEW x
      PROVE  Has(map2, ip, port, r, x) <=>
                 Has(map, ip, port, r, x) /\ ~(ip = a.ip /\ port = a.port /\ r = reliable)
  <2>1. CASE ip # a.ip
    BY <1>3, <2>1 DEF Has
  <2>2. CASE ip = a.ip /\ port # a.port
    BY <1>2, <1>3, <2>2 DEF Has
  <2>3. CASE ip = a.ip /\ port = a.port
    BY <1>1, <1>2, <1>3, <2>3 DEF Has
  <2> QED BY <2>1, <2>2, <2>3
<1> QED BY <1>0, <1>4, <1>5

(* An endpoint is in a map if it is under some keys.                         *)
LEMMA ValuesLemma ==
    ASSUME NEW map, NEW e
    PROVE  e \in Values(map) <=> \E ip, port, r : Has(map, ip, port, r, e)
BY DEF Values, Range, Has

-----------------------------------------------------------------------------
(***************************************************************************)
(* The invariant of the maps, and of the remove that holds the mutex.      *)
(***************************************************************************)
ServerKinds == [r \in BOOLEAN |-> IF r THEN "tcp_server" ELSE "udp_server"]
ClientKinds == [r \in BOOLEAN |-> IF r THEN "tcp_client" ELSE "none"]

(* Every entry is an endpoint created for these keys, homes and kinds being  *)
(* what the endpoints were created for.                                      *)
MapOK(map, kinds, homes, classes) ==
    /\ NoEmptyMap(map)
    /\ \A ip, port, r, e : Has(map, ip, port, r, e) =>
         /\ r \in BOOLEAN /\ e \in Endpoints
         /\ homes[e] = [ip |-> ip, port |-> port]
         /\ classes[e] = kinds[r]

Removals == [by : Threads, role : {"server", "client"}, address : Addresses,
             reliable : BOOLEAN]
MapOf(role) == IF role = "server" THEN server_endpoints ELSE client_endpoints

RemovingInv ==
    \/ removing = NotRemoving
    \/ /\ removing \in Removals
       /\ Contains(MapOf(removing.role), removing.address, removing.reliable)

ManagerInv ==
    /\ TypeOK
    /\ MapOK(server_endpoints, ServerKinds, home, kind)
    /\ MapOK(client_endpoints, ClientKinds, home, kind)
    /\ RemovingInv

(* An address has an entry if the map contains one.                          *)
LEMMA ContainsLemma ==
    ASSUME NEW map, NEW a, NEW reliable
    PROVE  /\ Contains(map, a, reliable)
                 => Has(map, a.ip, a.port, reliable, Entry(map, a, reliable))
           /\ \A e : Has(map, a.ip, a.port, reliable, e)
                 => Contains(map, a, reliable) /\ e = Entry(map, a, reliable)
BY DEF Contains, Entry, Has

(* What create makes of a map: a new endpoint under its own keys.  What it   *)
(* drops is the one it replaces.                                             *)
LEMMA InsertLemma ==
    ASSUME NEW map, NEW kinds, MapOK(map, kinds, home, kind), TypeOK,
           NEW e \in Endpoints, e \notin Values(map),
           NEW a \in Addresses, NEW reliable \in BOOLEAN,
           home' = [home EXCEPT ![e] = a], kind' = [kind EXCEPT ![e] = kinds[reliable]]
    PROVE  /\ MapOK(Assign(map, a, reliable, e), kinds, home', kind')
           /\ e \in Values(Assign(map, a, reliable, e))
           /\ \A x \in Values(map) : \/ x \in Values(Assign(map, a, reliable, e))
                                     \/ x \in Replaced(map, a, reliable)
<1>0. NoEmptyMap(map) /\ a = [ip |-> a.ip, port |-> a.port]
  BY DEF MapOK, Addresses
<1> DEFINE map2 == Assign(map, a, reliable, e)
<1>1. /\ NoEmptyMap(map2)
      /\ \A ip, port, r, x :
           Has(map2, ip, port, r, x) <=>
               IF ip = a.ip /\ port = a.port /\ r = reliable
               THEN x = e ELSE Has(map, ip, port, r, x)
  BY <1>0, AssignLemma
<1> HIDE DEF map2
<1>2. ASSUME NEW ip, NEW port, NEW r, NEW x, Has(map2, ip, port, r, x)
      PROVE  /\ r \in BOOLEAN /\ x \in Endpoints
             /\ home'[x] = [ip |-> ip, port |-> port] /\ kind'[x] = kinds[r]
  <2>1. CASE ip = a.ip /\ port = a.port /\ r = reliable
    <3>1. x = e
      BY <1>1, <1>2, <2>1
    <3> QED BY <1>0, <2>1, <3>1 DEF TypeOK
  <2>2. CASE ~(ip = a.ip /\ port = a.port /\ r = reliable)
    <3>1. Has(map, ip, port, r, x)
      BY <1>1, <1>2, <2>2
    <3>2. x # e
      BY <3>1, ValuesLemma
    <3>3. /\ r \in BOOLEAN /\ x \in Endpoints
          /\ home[x] = [ip |-> ip, port |-> port] /\ kind[x] = kinds[r]
      BY <3>1 DEF MapOK
    <3> QED BY <3>2, <3>3 DEF TypeOK
  <2> QED BY <2>1, <2>2
<1>3. MapOK(map2, kinds, home', kind')
  BY <1>1, <1>2 DEF MapOK
<1>4. e \in Values(map2)
  BY <1>1, ValuesLemma
<1>5. ASSUME NEW x \in Values(map)
      PROVE  x \in Values(map2) \/ x \in Replaced(map, a, reliable)
  <2>1. PICK ip, port, r : Has(map, ip, port, r, x)
    BY <1>5, ValuesLemma
  <2>2. CASE ip = a.ip /\ port = a.port /\ r = reliable
    BY <2>1, <2>2, ContainsLemma DEF Replaced
  <2>3. CASE ~(ip = a.ip /\ port = a.port /\ r = reliable)
    BY <1>1, <2>1, <2>3, ValuesLemma
  <2> QED BY <2>2, <2>3
<1> QED BY <1>3, <1>4, <1>5 DEF map2

(* The other map does not know the new endpoint.                             *)
LEMMA OtherMapLemma ==
    ASSUME NEW map, NEW kinds, MapOK(map, kinds, home, kind), TypeOK,
           NEW e \in Endpoints, e \notin Values(map), NEW a, NEW k,
           home' = [home EXCEPT ![e] = a], kind' = [kind EXCEPT ![e] = k]
    PROVE  MapOK(map, kinds, home', kind')
<1>1. ASSUME NEW ip, NEW port, NEW r, NEW x, Has(map, ip, port, r, x)
      PROVE  /\ r \in BOOLEAN /\ x \in Endpoints
             /\ home'[x] = [ip |-> ip, port |-> port] /\ kind'[x] = kinds[r]
  <2>1. x # e
    BY <1>1, ValuesLemma
  <2>2. /\ r \in BOOLEAN /\ x \in Endpoints
        /\ home[x] = [ip |-> ip, port |-> port] /\ kind[x] = kinds[r]
    BY <1>1 DEF MapOK
  <2> QED BY <2>1, <2>2 DEF TypeOK
<1> QED BY <1>1 DEF MapOK

(* What remove makes of a map: it loses the one entry.                       *)
LEMMA RemoveLemma ==
    ASSUME NEW map, NEW kinds, MapOK(map, kinds, home, kind),
           NEW a, NEW reliable, Contains(map, a, reliable)
    PROVE  /\ MapOK(Erase(map, a, reliable), kinds, home, kind)
           /\ \A x \in Values(map) : \/ x \in Values(Erase(map, a, reliable))
                                     \/ x = Entry(map, a, reliable)
           /\ Entry(map, a, reliable) \in Endpoints
<1> DEFINE map2 == Erase(map, a, reliable)
<1>0. NoEmptyMap(map)
  BY DEF MapOK
<1>1. /\ NoEmptyMap(map2)
      /\ \A ip, port, r, x : Has(map2, ip, port, r, x) <=>
             Has(map, ip, port, r, x) /\ ~(ip = a.ip /\ port = a.port /\ r = reliable)
  BY <1>0, EraseLemma
<1> HIDE DEF map2
<1>2. MapOK(map2, kinds, home, kind)
  BY <1>1 DEF MapOK
<1>3. ASSUME NEW x \in Values(map)
      PROVE  x \in Values(map2) \/ x = Entry(map, a, reliable)
  <2>1. PICK ip, port, r : Has(map, ip, port, r, x)
    BY <1>3, ValuesLemma
  <2>2. CASE ip = a.ip /\ port = a.port /\ r = reliable
    BY <2>1, <2>2, ContainsLemma
  <2>3. CASE ~(ip = a.ip /\ port = a.port /\ r = reliable)
    BY <1>1, <2>1, <2>3, ValuesLemma
  <2> QED BY <2>2, <2>3
<1>4. Entry(map, a, reliable) \in Endpoints
  BY ContainsLemma DEF MapOK
<1> QED BY <1>2, <1>3, <1>4 DEF map2

-----------------------------------------------------------------------------
(***************************************************************************)
(* What a step does, for all the invariants that follow.                   *)
(***************************************************************************)

(* make_shared sets everything that is remembered of the endpoint.          *)
LEMMA ConstructTypes ==
    ASSUME TypeOK, NEW t \in Threads, NEW e \in Endpoints, NEW k \in Kinds,
           NEW a \in Addresses, Construct(t, e, k, a)
    PROVE  /\ kind' \in [Endpoints -> Kinds] /\ home' \in [Endpoints -> Addresses]
           /\ activity' \in [Endpoints -> Activities]
           /\ useCount' \in [Endpoints -> 0 .. Word - 1]
           /\ initial' \in [Endpoints -> 0 .. Word - 1]
           /\ users' \in [Endpoints -> SUBSET Threads]
           /\ latecomers' \in [Endpoints -> SUBSET Threads]
           /\ refs' \in [Threads -> SUBSET Endpoints]
BY DEF TypeOK, Construct, Activities

(* An endpoint that is not alive is in no map.                              *)
LEMMA NotAlive ==
    ASSUME NEW e, ~Alive(e)
    PROVE  /\ e \notin Values(server_endpoints) /\ e \notin Values(client_endpoints)
           /\ \A t \in Threads : e \notin refs[t]
BY DEF Alive, Registered

(* What create replaces is an endpoint.                                     *)
LEMMA ReplacedLemma ==
    ASSUME NEW map, NEW kinds, MapOK(map, kinds, home, kind), NEW a, NEW reliable,
           NEW x \in Replaced(map, a, reliable)
    PROVE  /\ x \in Endpoints /\ reliable \in BOOLEAN
           /\ home[x] = [ip |-> a.ip, port |-> a.port] /\ kind[x] = kinds[reliable]
<1>1. Contains(map, a, reliable) /\ x = Entry(map, a, reliable)
  BY DEF Replaced
<1> QED BY <1>1, ContainsLemma DEF MapOK

(* A creation: a name that was free is an endpoint in its map now; one that *)
(* dropped out of the maps is remembered as overwritten, and was not a       *)
(* running TCP server, for that would have kept the port.                    *)
CreateStep ==
    \E t \in Threads, e \in Endpoints, k \in Kinds, a \in Addresses :
        /\ Construct(t, e, k, a)
        /\ Registered(e)'
        /\ \A x \in Endpoints : Registered(x) =>
             \/ Registered(x)'
             \/ x \in overwritten' /\ (kind[x] = "tcp_server" => activity[x] # "running")
        /\ \A x \in overwritten : x # e => x \in overwritten'
        /\ removed' = removed \ {e}
        /\ removing = NotRemoving /\ removing' = NotRemoving

(* Both creations are.                                                      *)
LEMMA CreateLemma ==
    ASSUME ManagerInv, NEW t \in Threads, NEW a \in Addresses,
           \/ create_client_endpoint(t, a)
           \/ \E reliable \in BOOLEAN : create_server_endpoint(t, a, reliable)
    PROVE  ManagerInv' /\ CreateStep
<1>0. /\ TypeOK
      /\ MapOK(server_endpoints, ServerKinds, home, kind)
      /\ MapOK(client_endpoints, ClientKinds, home, kind)
      /\ a = [ip |-> a.ip, port |-> a.port]
  BY DEF ManagerInv, Addresses
<1>1. CASE create_client_endpoint(t, a)
  <2>1. PICK e \in Endpoints :
          /\ Construct(t, e, "tcp_client", a)
          /\ client_endpoints' = Assign(client_endpoints, a, TRUE, e)
          /\ Inserted(client_endpoints, e, a, TRUE)
    BY <1>1 DEF create_client_endpoint
  <2>2. /\ server_endpoints' = server_endpoints
        /\ removing = NotRemoving /\ removing' = NotRemoving
    BY <1>1 DEF create_client_endpoint, MutexFree
  <2>3. /\ e \notin Values(server_endpoints) /\ e \notin Values(client_endpoints)
        /\ home' = [home EXCEPT ![e] = a] /\ kind' = [kind EXCEPT ![e] = "tcp_client"]
    BY <2>1, NotAlive DEF Construct
  <2>4. ClientKinds[TRUE] = "tcp_client" /\ TRUE \in BOOLEAN /\ "tcp_client" \in Kinds
    BY DEF ClientKinds, Kinds
  <2>5. /\ MapOK(client_endpoints', ClientKinds, home', kind')
        /\ e \in Values(client_endpoints')
        /\ \A x \in Values(client_endpoints) :
             x \in Values(client_endpoints') \/ x \in Replaced(client_endpoints, a, TRUE)
    BY <1>0, <2>1, <2>3, <2>4, InsertLemma
  <2>6. MapOK(server_endpoints', ServerKinds, home', kind')
    BY <1>0, <2>2, <2>3, OtherMapLemma
  <2>7. \A x \in Replaced(client_endpoints, a, TRUE) :
           x \in Endpoints /\ kind[x] = "tcp_client"
    <3>1. ASSUME NEW reliable \in BOOLEAN, NEW x \in Replaced(client_endpoints, a, reliable)
          PROVE  x \in Endpoints /\ kind[x] = ClientKinds[reliable]
      BY <1>0, <3>1, ReplacedLemma
    <3> QED BY <2>4, <3>1
  <2>8. /\ overwritten' = (overwritten \ {e}) \cup Replaced(client_endpoints, a, TRUE)
        /\ removed' = removed \ {e}
    BY <2>1 DEF Inserted
  <2>9. TypeOK'
    BY <1>0, <2>1, <2>2, <2>4, <2>7, <2>8, ConstructTypes DEF TypeOK
  <2>10. ManagerInv'
    BY <2>2, <2>5, <2>6, <2>9 DEF ManagerInv, RemovingInv
  <2>11. ASSUME NEW x \in Endpoints, Registered(x)
         PROVE  \/ Registered(x)'
                \/ x \in overwritten' /\ (kind[x] = "tcp_server" => activity[x] # "running")
    BY <2>2, <2>5, <2>7, <2>8, <2>11 DEF Registered
  <2>12. Registered(e)'
    BY <2>5 DEF Registered
  <2>13. \A x \in overwritten : x # e => x \in overwritten'
    BY <2>8
  <2> QED BY <2>1, <2>2, <2>4, <2>8, <2>10, <2>11, <2>12, <2>13 DEF CreateStep
<1>2. ASSUME NEW reliable \in BOOLEAN, create_server_endpoint(t, a, reliable)
      PROVE  ManagerInv' /\ CreateStep
  <2> DEFINE k == IF reliable THEN "tcp_server" ELSE "udp_server"
  <2>1. PICK e \in Endpoints :
          /\ Construct(t, e, k, a)
          /\ server_endpoints' = Assign(server_endpoints, a, reliable, e)
          /\ Inserted(server_endpoints, e, a, reliable)
    BY <1>2 DEF create_server_endpoint
  <2>2. /\ client_endpoints' = client_endpoints
        /\ removing = NotRemoving /\ removing' = NotRemoving
        /\ reliable => tcp_port_free(a)
    BY <1>2 DEF create_server_endpoint, MutexFree
  <2>3. /\ e \notin Values(server_endpoints) /\ e \notin Values(client_endpoints)
        /\ home' = [home EXCEPT ![e] = a] /\ kind' = [kind EXCEPT ![e] = k]
    BY <2>1, NotAlive DEF Construct
  <2>4. ServerKinds[reliable] = k /\ k \in Kinds
    BY DEF ServerKinds, Kinds
  <2> HIDE DEF k
  <2>5. /\ MapOK(server_endpoints', ServerKinds, home', kind')
        /\ e \in Values(server_endpoints')
        /\ \A x \in Values(server_endpoints) :
             x \in Values(server_endpoints') \/ x \in Replaced(server_endpoints, a, reliable)
    BY <1>0, <2>1, <2>3, <2>4, InsertLemma
  <2>6. MapOK(client_endpoints', ClientKinds, home', kind')
    BY <1>0, <2>2, <2>3, OtherMapLemma
  <2>7. \A x \in Replaced(server_endpoints, a, reliable) :
           x \in Endpoints /\ kind[x] = k /\ home[x] = a
    BY <1>0, <2>4, ReplacedLemma
  <2>8. /\ overwritten' = (overwritten \ {e}) \cup Replaced(server_endpoints, a, reliable)
        /\ removed' = removed \ {e}
    BY <2>1 DEF Inserted
  <2>9. TypeOK'
    BY <1>0, <2>1, <2>2, <2>4, <2>7, <2>8, ConstructTypes DEF TypeOK
  <2>10. ManagerInv'
    BY <2>2, <2>5, <2>6, <2>9 DEF ManagerInv, RemovingInv
  <2>a. \A x \in Replaced(server_endpoints, a, reliable) :
           kind[x] = "tcp_server" => activity[x] # "running"
    BY <2>2, <2>7 DEF k, tcp_port_free
  <2>11. ASSUME NEW x \in Endpoints, Registered(x)
         PROVE  \/ Registered(x)'
                \/ x \in overwritten' /\ (kind[x] = "tcp_server" => activity[x] # "running")
    BY <2>2, <2>5, <2>8, <2>a, <2>11 DEF Registered
  <2>12. Registered(e)'
    BY <2>5 DEF Registered
  <2>13. \A x \in overwritten : x # e => x \in overwritten'
    BY <2>8
  <2> QED BY <2>1, <2>2, <2>4, <2>8, <2>10, <2>11, <2>12, <2>13 DEF CreateStep
<1> QED BY <1>1, <1>2

(* The second half of a remove: one endpoint drops out of the maps.         *)
EraseStep ==
    \E d \in Endpoints :
        /\ BeingErased(d)
        /\ removed' = removed \cup {d}
        /\ \A x \in Endpoints : Registered(x) => Registered(x)' \/ x = d
        /\ removing' = NotRemoving
        /\ UNCHANGED <<objectVars, countVars, overwritten, refs>>

(* The mutex was not given away since the entry was found, so it is there.  *)
LEMMA EraseStepLemma ==
    ASSUME ManagerInv, NEW t \in Threads, erase(t)
    PROVE  ManagerInv' /\ EraseStep
<1>0. /\ TypeOK
      /\ MapOK(server_endpoints, ServerKinds, home, kind)
      /\ MapOK(client_endpoints, ClientKinds, home, kind)
  BY DEF ManagerInv
<1>1. /\ removing # NotRemoving /\ removing \in Removals
      /\ Contains(MapOf(removing.role), removing.address, removing.reliable)
  <2>1. removing # NotRemoving
    BY ManagerAssumption DEF erase, NotRemoving
  <2> QED BY <2>1 DEF ManagerInv, RemovingInv
<1> DEFINE a == removing.address
           reliable == removing.reliable
           d == Entry(MapOf(removing.role), a, reliable)
<1>2. /\ BeingErased(d)
      /\ \A e : BeingErased(e) => e = d
  BY <1>1 DEF BeingErased, MutexFree, MapOf
<1>3. /\ removing' = NotRemoving /\ UNCHANGED <<objectVars, countVars, overwritten, refs>>
      /\ home' = home /\ kind' = kind
  BY DEF erase, objectVars
<1>4. /\ d \in Endpoints /\ removed' = removed \cup {d}
      /\ MapOK(server_endpoints', ServerKinds, home, kind)
      /\ MapOK(client_endpoints', ClientKinds, home, kind)
      /\ \A x : Registered(x) => Registered(x)' \/ x = d
  <2>1. CASE erase_server_endpoint
    <3>1. /\ server_endpoints' = Erase(server_endpoints, a, reliable)
          /\ removed' = removed \cup {Entry(server_endpoints, a, reliable)}
          /\ client_endpoints' = client_endpoints
          /\ MapOf(removing.role) = server_endpoints
      BY <2>1 DEF erase_server_endpoint, MapOf
    <3>2. d = Entry(server_endpoints, a, reliable) /\ Contains(server_endpoints, a, reliable)
      BY <1>1, <3>1
    <3> HIDE DEF a, reliable, d
    <3>3. /\ MapOK(server_endpoints', ServerKinds, home, kind) /\ d \in Endpoints
          /\ \A x \in Values(server_endpoints) : x \in Values(server_endpoints') \/ x = d
      BY <1>0, <3>1, <3>2, RemoveLemma
    <3> QED BY <1>0, <3>1, <3>2, <3>3 DEF Registered
  <2>2. CASE erase_client_endpoint
    <3>1. /\ client_endpoints' = Erase(client_endpoints, a, reliable)
          /\ removed' = removed \cup {Entry(client_endpoints, a, reliable)}
          /\ server_endpoints' = server_endpoints
          /\ MapOf(removing.role) = client_endpoints
      BY <2>2 DEF erase_client_endpoint, MapOf
    <3>2. d = Entry(client_endpoints, a, reliable) /\ Contains(client_endpoints, a, reliable)
      BY <1>1, <3>1
    <3> HIDE DEF a, reliable, d
    <3>3. /\ MapOK(client_endpoints', ClientKinds, home, kind) /\ d \in Endpoints
          /\ \A x \in Values(client_endpoints) : x \in Values(client_endpoints') \/ x = d
      BY <1>0, <3>1, <3>2, RemoveLemma
    <3> QED BY <1>0, <3>1, <3>2, <3>3 DEF Registered
  <2> QED BY <2>1, <2>2 DEF erase
<1> HIDE DEF a, reliable, d
<1>5. TypeOK'
  BY <1>0, <1>3, <1>4 DEF TypeOK, objectVars, countVars
<1>6. ManagerInv'
  BY <1>3, <1>4, <1>5 DEF ManagerInv, RemovingInv
<1>7. EraseStep
  BY <1>2, <1>3, <1>4 DEF EraseStep
<1> QED BY <1>6, <1>7

(* The steps that leave the maps alone: a find, the first half of a remove, *)
(* the counting, and what the endpoints do by themselves.                   *)
OtherActions ==
    \/ \E t \in Threads, a \in Addresses, reliable \in BOOLEAN :
         \/ find_server_endpoint(t, a, reliable) \/ find_client_endpoint(t, a, reliable)
         \/ remove_server_endpoint(t, a, reliable) \/ remove_client_endpoint(t, a, reliable)
    \/ \E t \in Threads, e \in Endpoints : Use(t, e)
    \/ \E e \in Endpoints : drained(e) \/ client_falls_idle(e) \/ client_reconnects(e)
    \/ UNCHANGED vars

(* Every step is one of the three.                                           *)
LEMMA StepCases ==
    ASSUME ManagerInv, [Next]_vars
    PROVE  \/ ManagerInv' /\ CreateStep
           \/ ManagerInv' /\ EraseStep
           \/ OtherActions
BY CreateLemma, EraseStepLemma DEF Next, Manage, OtherActions

(* The remainder of a number by the size of the word.                       *)
LEMMA ModLemma ==
    ASSUME NEW n \in Nat
    PROVE  n % Word \in 0 .. Word - 1 /\ (n < Word => n % Word = n)
<1>1. Word \in Nat /\ Word > 0
  BY ManagerAssumption, FS_CardinalityType
<1> QED BY <1>1

(* The entry of an address is an endpoint.                                  *)
LEMMA EntryLemma ==
    ASSUME NEW map, NEW kinds, MapOK(map, kinds, home, kind), NEW a, NEW reliable,
           Contains(map, a, reliable)
    PROVE  Entry(map, a, reliable) \in Endpoints /\ Entry(map, a, reliable) \in Values(map)
BY ContainsLemma, ValuesLemma DEF MapOK

(* They keep the types, and a remove that begins has found its entry.       *)
LEMMA OtherInv ==
    ASSUME ManagerInv, OtherActions
    PROVE  /\ ManagerInv'
           /\ UNCHANGED <<mapVars, kind, home, historyVars>>
<1>0. /\ TypeOK
      /\ MapOK(server_endpoints, ServerKinds, home, kind)
      /\ MapOK(client_endpoints, ClientKinds, home, kind)
      /\ RemovingInv
  BY DEF ManagerInv
<1>1. ASSUME UNCHANGED <<mapVars, kind, home, historyVars>>, TypeOK', RemovingInv'
      PROVE  ManagerInv'
  BY <1>0, <1>1 DEF ManagerInv, mapVars
<1>2. ASSUME NEW t \in Threads, NEW a \in Addresses, NEW reliable \in BOOLEAN,
             find_server_endpoint(t, a, reliable) \/ find_client_endpoint(t, a, reliable)
      PROVE  ManagerInv' /\ UNCHANGED <<mapVars, kind, home, historyVars>>
  <2>1. PICK e \in Endpoints : refs' = [refs EXCEPT ![t] = @ \cup {e}]
    BY <1>0, <1>2, EntryLemma DEF find_server_endpoint, find_client_endpoint, Find
  <2>2. UNCHANGED <<mapVars, objectVars, countVars, historyVars, removing>>
    BY <1>2 DEF find_server_endpoint, find_client_endpoint, Find
  <2>3. TypeOK'
    BY <1>0, <2>1, <2>2 DEF TypeOK, objectVars, countVars, historyVars
  <2>4. RemovingInv'
    BY <1>0, <2>2 DEF RemovingInv, MapOf, mapVars
  <2> QED BY <1>1, <2>2, <2>3, <2>4 DEF objectVars
<1>3. ASSUME NEW t \in Threads, NEW a \in Addresses, NEW reliable \in BOOLEAN,
             remove_server_endpoint(t, a, reliable) \/ remove_client_endpoint(t, a, reliable)
      PROVE  ManagerInv' /\ UNCHANGED <<mapVars, kind, home, historyVars>>
  <2>1. PICK role \in {"server", "client"} :
          /\ removing' = [by |-> t, role |-> role, address |-> a, reliable |-> reliable]
          /\ Contains(MapOf(role), a, reliable)
    BY <1>3 DEF remove_server_endpoint, remove_client_endpoint, RemoveBegins, MapOf
  <2>2. UNCHANGED <<mapVars, objectVars, countVars, historyVars, refs>>
    BY <1>3 DEF remove_server_endpoint, remove_client_endpoint, RemoveBegins
  <2>3. /\ removing' \in Removals /\ removing'.role = role
        /\ removing'.address = a /\ removing'.reliable = reliable
    BY <2>1 DEF Removals
  <2>4. TypeOK'
    BY <1>0, <2>2, <2>3 DEF TypeOK, objectVars, countVars, historyVars, Removals
  <2>5. RemovingInv'
    BY <2>1, <2>2, <2>3 DEF RemovingInv, MapOf, mapVars
  <2> QED BY <1>1, <2>2, <2>4, <2>5 DEF objectVars
<1>4. ASSUME NEW t \in Threads, NEW e \in Endpoints,
             increment_use_count(t, e) \/ decrement_use_count(t, e)
      PROVE  ManagerInv' /\ UNCHANGED <<mapVars, kind, home, historyVars>>
  <2>0. UNCHANGED <<mapVars, objectVars, initial, historyVars, refs, removing>>
    BY <1>4 DEF increment_use_count, decrement_use_count
  <2>1. PICK n \in 0 .. Word - 1 : useCount' = [useCount EXCEPT ![e] = n]
    <3>0. useCount[e] \in 0 .. Word - 1 /\ Word \in Nat
      BY <1>0, ManagerAssumption DEF TypeOK
    <3>1. CASE increment_use_count(t, e)
      <4>1. (useCount[e] + 1) % Word \in 0 .. Word - 1
        BY <3>0, ModLemma
      <4> QED BY <3>1, <4>1 DEF increment_use_count
    <3>2. CASE decrement_use_count(t, e)
      <4>1. (IF useCount[e] > 0 THEN useCount[e] - 1 ELSE useCount[e]) \in 0 .. Word - 1
        BY <3>0
      <4> QED BY <3>2, <4>1 DEF decrement_use_count
    <3> QED BY <1>4, <3>1, <3>2
  <2>2. /\ users' \in [Endpoints -> SUBSET Threads]
        /\ latecomers' \in [Endpoints -> SUBSET Threads]
    BY <1>0, <1>4 DEF TypeOK, increment_use_count, decrement_use_count
  <2>3. TypeOK'
    BY <1>0, <2>0, <2>1, <2>2 DEF TypeOK, objectVars, historyVars
  <2>4. RemovingInv'
    BY <1>0, <2>0 DEF RemovingInv, MapOf, mapVars
  <2> QED BY <1>1, <2>0, <2>3, <2>4 DEF objectVars
<1>5. ASSUME NEW t \in Threads, NEW e \in Endpoints, release(t, e)
      PROVE  ManagerInv' /\ UNCHANGED <<mapVars, kind, home, historyVars>>
  <2>1. TypeOK'
    BY <1>0, <1>5 DEF TypeOK, release, objectVars, countVars, historyVars
  <2>2. RemovingInv'
    BY <1>0, <1>5 DEF RemovingInv, MapOf, release, mapVars
  <2> QED BY <1>1, <1>5, <2>1, <2>2 DEF release, objectVars
<1>6. ASSUME NEW e \in Endpoints, NEW from, NEW to \in Activities, Becomes(e, from, to)
      PROVE  ManagerInv' /\ UNCHANGED <<mapVars, kind, home, historyVars>>
  <2>1. TypeOK'
    BY <1>0, <1>6 DEF TypeOK, Becomes, countVars, historyVars
  <2>2. RemovingInv'
    BY <1>0, <1>6 DEF RemovingInv, MapOf, Becomes, mapVars
  <2> QED BY <1>1, <1>6, <2>1, <2>2 DEF Becomes
<1>7. CASE UNCHANGED vars
  <2>1. TypeOK' /\ RemovingInv'
    BY <1>0, <1>7 DEF TypeOK, RemovingInv, MapOf, vars, mapVars, objectVars, countVars, historyVars
  <2> QED BY <1>1, <1>7, <2>1 DEF vars, objectVars
<1>8. "running" \in Activities /\ "closing" \in Activities /\ "idle" \in Activities
  BY DEF Activities
<1> QED BY <1>2, <1>3, <1>4, <1>5, <1>6, <1>7, <1>8
        DEF OtherActions, Use, stop, restart, drained, client_falls_idle, client_reconnects

-----------------------------------------------------------------------------
(***************************************************************************)
(* The maps are well formed.                                               *)
(***************************************************************************)

(* The manager starts with empty maps.                                      *)
LEMMA ManagerInvInit == Init => ManagerInv
<1> SUFFICES ASSUME Init PROVE ManagerInv
  OBVIOUS
<1>0. Word \in Nat /\ Word > 0
  BY ManagerAssumption, FS_CardinalityType
<1>1. \A kinds : MapOK(EmptyMap, kinds, home, kind)
  BY EmptyMapLemma DEF MapOK, NoEmptyMap, Has
<1>2. /\ 0 \in 0 .. Word - 1 /\ "idle" \in Activities /\ "tcp_server" \in Kinds
  BY <1>0 DEF Activities, Kinds
<1>3. TypeOK
  BY <1>2 DEF Init, TypeOK
<1> QED BY <1>1, <1>3 DEF Init, ManagerInv, RemovingInv

(* No step disturbs them.                                                   *)
LEMMA ManagerInvStep == ManagerInv /\ [Next]_vars => ManagerInv'
BY StepCases, OtherInv

(* The types of the manager's state.                                        *)
THEOREM ManagerTypeCorrect == Spec => []TypeOK
<1>1. ManagerInv => TypeOK
  BY DEF ManagerInv
<1> QED BY <1>1, ManagerInvInit, ManagerInvStep, PTL DEF Spec

(* An endpoint is found under the keys it was created for and no others, and *)
(* no map is left empty, for any threads, endpoints and addresses.           *)
THEOREM MapsWellFormedHolds == Spec => []MapsWellFormed
<1>1. ManagerInv => MapsWellFormed
  <2> SUFFICES ASSUME ManagerInv
               PROVE  MapsWellFormed
    OBVIOUS
  <2>1. ASSUME NEW map, NEW kinds, MapOK(map, kinds, home, kind)
        PROVE  WellFormed(map, kinds)
    <3>1. ASSUME NEW ip \in DOMAIN map, NEW port \in DOMAIN map[ip],
                 NEW r \in DOMAIN map[ip][port]
          PROVE  /\ home[map[ip][port][r]] = [ip |-> ip, port |-> port]
                 /\ kind[map[ip][port][r]] = kinds[r]
      <4>1. Has(map, ip, port, r, map[ip][port][r])
        BY <3>1 DEF Has
      <4> QED BY <2>1, <4>1 DEF MapOK
    <3> QED BY <2>1, <3>1 DEF WellFormed, MapOK, NoEmptyMap
  <2> QED BY <2>1 DEF ManagerInv, MapsWellFormed, ServerKinds, ClientKinds
<1> QED BY <1>1, ManagerInvInit, ManagerInvStep, PTL DEF Spec

-----------------------------------------------------------------------------
(***************************************************************************)
(* A listening TCP server is known.                                        *)
(*                                                                         *)
(* A client that was stopped may start to run again, so that the property  *)
(* needs to know of every endpoint alive, running or not.                  *)
(***************************************************************************)
KnownInv ==
    \A e \in Endpoints : Alive(e) => Registered(e) \/ e \in removed \/ e \in overwritten

(* An endpoint comes to life in create only, and one that starts to run      *)
(* again is a client.                                                        *)
LEMMA OtherLives ==
    ASSUME ManagerInv, OtherActions
    PROVE  \A x \in Endpoints :
             /\ Registered(x)' <=> Registered(x)
             /\ Alive(x)' => Alive(x)
             /\ activity'[x] = "running" =>
                   activity[x] = "running" \/ (kind[x] = "tcp_client" /\ Alive(x))
<1>0. /\ TypeOK
      /\ MapOK(server_endpoints, ServerKinds, home, kind)
      /\ MapOK(client_endpoints, ClientKinds, home, kind)
      /\ UNCHANGED mapVars
  BY OtherInv DEF ManagerInv
<1>1. \A x : Registered(x)' <=> Registered(x)
  BY <1>0 DEF Registered, mapVars
<1>2. ASSUME UNCHANGED activity,
             \A t \in Threads, x \in Endpoints : x \in refs'[t] => Alive(x)
      PROVE  \A x \in Endpoints :
               /\ Alive(x)' => Alive(x)
               /\ activity'[x] = "running" => activity[x] = "running"
  BY <1>1, <1>2 DEF Alive
<1>3. ASSUME NEW t \in Threads, NEW a \in Addresses, NEW reliable \in BOOLEAN,
             find_server_endpoint(t, a, reliable) \/ find_client_endpoint(t, a, reliable)
      PROVE  \A x \in Endpoints :
               /\ Alive(x)' => Alive(x)
               /\ activity'[x] = "running" => activity[x] = "running"
  <2>1. PICK e \in Endpoints : refs' = [refs EXCEPT ![t] = @ \cup {e}] /\ Registered(e)
    BY <1>0, <1>3, EntryLemma DEF find_server_endpoint, find_client_endpoint, Find, Registered
  <2>2. \A u \in Threads, x \in Endpoints : x \in refs'[u] => x \in refs[u] \/ x = e
    BY <1>0, <2>1 DEF TypeOK
  <2>3. UNCHANGED activity
    BY <1>3 DEF find_server_endpoint, find_client_endpoint, Find, objectVars
  <2>4. \A u \in Threads, x \in Endpoints : x \in refs'[u] => Alive(x)
    BY <2>1, <2>2 DEF Alive
  <2> QED BY <1>2, <2>3, <2>4
<1>4. ASSUME UNCHANGED <<activity, refs>>
      PROVE  \A x \in Endpoints :
               /\ Alive(x)' => Alive(x)
               /\ activity'[x] = "running" => activity[x] = "running"
  BY <1>2, <1>4 DEF Alive
<1>5. ASSUME NEW t \in Threads, NEW a \in Addresses, NEW reliable \in BOOLEAN,
             remove_server_endpoint(t, a, reliable) \/ remove_client_endpoint(t, a, reliable)
      PROVE  UNCHANGED <<activity, refs>>
  BY <1>5 DEF remove_server_endpoint, remove_client_endpoint, RemoveBegins, objectVars
<1>6. ASSUME NEW t \in Threads, NEW e \in Endpoints,
             increment_use_count(t, e) \/ decrement_use_count(t, e)
      PROVE  UNCHANGED <<activity, refs>>
  BY <1>6 DEF increment_use_count, decrement_use_count, objectVars
<1>7. ASSUME NEW t \in Threads, NEW e \in Endpoints, release(t, e)
      PROVE  \A x \in Endpoints :
               /\ Alive(x)' => Alive(x)
               /\ activity'[x] = "running" => activity[x] = "running"
  <2>1. UNCHANGED activity /\ \A u \in Threads : refs'[u] \subseteq refs[u]
    BY <1>0, <1>7 DEF TypeOK, release, objectVars
  <2>2. \A u \in Threads, x \in Endpoints : x \in refs'[u] => Alive(x)
    BY <2>1 DEF Alive
  <2> QED BY <1>2, <2>1, <2>2
<1>8. ASSUME NEW e \in Endpoints, NEW from, NEW to, Becomes(e, from, to), Alive(e),
             to = "running" => kind[e] = "tcp_client"
      PROVE  \A x \in Endpoints :
               /\ Alive(x)' => Alive(x)
               /\ activity'[x] = "running" =>
                     activity[x] = "running" \/ (kind[x] = "tcp_client" /\ Alive(x))
  <2>1. refs' = refs /\ \A x \in Endpoints : x # e => activity'[x] = activity[x]
    BY <1>0, <1>8 DEF Becomes, TypeOK
  <2>2. activity'[e] = to
    BY <1>0, <1>8 DEF Becomes, TypeOK
  <2>3. \A x \in Endpoints : x # e => (Alive(x)' => Alive(x))
    BY <1>1, <2>1 DEF Alive
  <2> QED BY <1>8, <2>1, <2>2, <2>3
<1>9. ASSUME NEW t \in Threads, NEW e \in Endpoints, stop(t, e) \/ restart(t, e)
      PROVE  \E from, to : /\ Becomes(e, from, to) /\ Alive(e)
                           /\ to = "running" => kind[e] = "tcp_client"
  BY <1>9 DEF stop, restart, Alive
<1>10. ASSUME NEW e \in Endpoints, drained(e) \/ client_falls_idle(e) \/ client_reconnects(e)
       PROVE  \E from, to : /\ Becomes(e, from, to) /\ Alive(e)
                            /\ to = "running" => kind[e] = "tcp_client"
  BY <1>10 DEF drained, client_falls_idle, client_reconnects, Becomes, Alive
<1>11. CASE UNCHANGED vars
  <2>1. UNCHANGED <<activity, refs>>
    BY <1>11 DEF vars, objectVars
  <2> QED BY <1>1, <1>4, <2>1
<1> QED BY <1>1, <1>3, <1>4, <1>5, <1>6, <1>7, <1>8, <1>9, <1>10, <1>11 DEF OtherActions, Use

(* The new name is registered; what drops out of the maps is remembered.    *)
LEMMA KnownStep ==
    ManagerInv /\ KnownInv /\ RunningServerKnown /\ [Next]_vars
        => KnownInv' /\ RunningServerKnown'
<1> SUFFICES ASSUME ManagerInv, KnownInv, RunningServerKnown, [Next]_vars
             PROVE  KnownInv' /\ RunningServerKnown'
  OBVIOUS
<1>0. TypeOK
  BY DEF ManagerInv
<1>1. CASE CreateStep
  <2>1. PICK t \in Threads, e \in Endpoints, k \in Kinds, a \in Addresses :
          /\ Construct(t, e, k, a)
          /\ Registered(e)'
          /\ \A x \in Endpoints : Registered(x) =>
               \/ Registered(x)'
               \/ x \in overwritten' /\ (kind[x] = "tcp_server" => activity[x] # "running")
          /\ \A x \in overwritten : x # e => x \in overwritten'
          /\ removed' = removed \ {e}
    BY <1>1 DEF CreateStep
  <2>2. \A x \in Endpoints : x # e =>
          /\ activity'[x] = activity[x] /\ kind'[x] = kind[x]
          /\ \A u \in Threads : x \in refs'[u] => x \in refs[u]
    BY <1>0, <2>1 DEF Construct, TypeOK
  <2>3. ASSUME NEW x \in Endpoints, x # e, Alive(x)'
        PROVE  Registered(x)' \/ x \in removed' \/ x \in overwritten'
    <3>1. Registered(x)' \/ Alive(x)
      BY <2>2, <2>3 DEF Alive
    <3> QED BY <2>1, <2>3, <3>1 DEF KnownInv
  <2>4. ASSUME NEW x \in Endpoints, x # e, activity'[x] = "running"
        PROVE  Registered(x)' \/ x \in removed' \/ (kind'[x] # "tcp_server" /\ x \in overwritten')
    <3>1. activity[x] = "running" /\ kind'[x] = kind[x]
      BY <2>2, <2>4
    <3>2. Registered(x) \/ x \in removed \/ (kind[x] # "tcp_server" /\ x \in overwritten)
      BY <3>1 DEF RunningServerKnown
    <3> QED BY <2>1, <2>4, <3>1, <3>2
  <2>5. KnownInv'
    BY <2>1, <2>3 DEF KnownInv
  <2>6. RunningServerKnown'
    BY <2>1, <2>4 DEF RunningServerKnown
  <2> QED BY <2>5, <2>6
<1>2. CASE EraseStep
  <2>1. PICK d \in Endpoints :
          /\ removed' = removed \cup {d}
          /\ \A x \in Endpoints : Registered(x) => Registered(x)' \/ x = d
          /\ UNCHANGED <<objectVars, countVars, overwritten, refs>>
    BY <1>2 DEF EraseStep
  <2>2. \A x \in Endpoints : Alive(x)' => Registered(x)' \/ Alive(x)
    BY <2>1 DEF Alive, objectVars
  <2>3. KnownInv'
    BY <2>1, <2>2 DEF KnownInv
  <2>4. RunningServerKnown'
    BY <2>1 DEF RunningServerKnown, objectVars
  <2> QED BY <2>3, <2>4
<1>3. CASE OtherActions
  <2>1. removed' = removed /\ overwritten' = overwritten /\ kind' = kind
    BY <1>3, OtherInv DEF historyVars
  <2>2. KnownInv'
    BY <1>3, <2>1, OtherLives DEF KnownInv
  <2>3. ASSUME NEW x \in Endpoints, activity'[x] = "running"
        PROVE  Registered(x)' \/ x \in removed' \/ (kind'[x] # "tcp_server" /\ x \in overwritten')
    <3>1. /\ Registered(x)' <=> Registered(x)
          /\ activity[x] = "running" \/ (kind[x] = "tcp_client" /\ Alive(x))
      BY <1>3, <2>3, OtherLives
    <3>2. CASE activity[x] = "running"
      BY <2>1, <3>1, <3>2 DEF RunningServerKnown
    <3>3. CASE kind[x] = "tcp_client" /\ Alive(x)
      BY <2>1, <3>1, <3>3 DEF KnownInv
    <3> QED BY <3>1, <3>2, <3>3
  <2>4. RunningServerKnown'
    BY <2>3 DEF RunningServerKnown
  <2> QED BY <2>2, <2>4
<1> QED BY <1>1, <1>2, <1>3, StepCases

(* The manager knows every TCP server that listens, unless remove took it    *)
(* out, for any number of endpoints, addresses and threads.                  *)
THEOREM RunningServerKnownHolds == Spec => []RunningServerKnown
<1>1. Init => KnownInv /\ RunningServerKnown
  <2> SUFFICES ASSUME Init PROVE KnownInv /\ RunningServerKnown
    OBVIOUS
  <2>1. \A e \in Endpoints : activity[e] = "idle" /\ \A t \in Threads : e \notin refs[t]
    BY DEF Init
  <2> QED BY <2>1 DEF KnownInv, RunningServerKnown, Alive
<1> QED BY <1>1, ManagerInvInit, ManagerInvStep, KnownStep, PTL DEF Spec

-----------------------------------------------------------------------------
(***************************************************************************)
(* A used endpoint stays findable.                                         *)
(*                                                                         *)
(* The count of an object that began at 0 is the number of its users, as   *)
(* there are too few threads to wrap it around; the remove that read 0     *)
(* therefore erases an endpoint whose users, if it has any by then, all    *)
(* came after the reading.                                                 *)
(***************************************************************************)
CountInv == \A e \in Endpoints : initial[e] = 0 => useCount[e] = Cardinality(users[e])

ErasingInv ==
    \A e \in Endpoints : BeingErased(e) /\ initial[e] = 0 => users[e] \subseteq latecomers[e]

UsedInv ==
    \A e \in Endpoints, t \in Threads : t \in users[e] /\ initial[e] = 0 =>
        Registered(e) \/ t \in latecomers[e] \/ e \in overwritten

CountingInv == CountInv /\ ErasingInv /\ UsedInv

(* What the steps that leave the maps alone do to the counts.                *)
LEMMA OtherCounts ==
    ASSUME OtherActions
    PROVE  \/ UNCHANGED <<countVars, removing>>
           \/ /\ UNCHANGED countVars
              /\ \E t \in Threads, a \in Addresses, reliable \in BOOLEAN :
                   \/ remove_server_endpoint(t, a, reliable)
                   \/ remove_client_endpoint(t, a, reliable)
           \/ \E t \in Threads, e \in Endpoints :
                increment_use_count(t, e) \/ decrement_use_count(t, e)
<1>1. ASSUME NEW t \in Threads, NEW a \in Addresses, NEW reliable \in BOOLEAN,
             find_server_endpoint(t, a, reliable) \/ find_client_endpoint(t, a, reliable)
      PROVE  UNCHANGED <<countVars, removing>>
  BY <1>1 DEF find_server_endpoint, find_client_endpoint, Find
<1>2. ASSUME NEW t \in Threads, NEW a \in Addresses, NEW reliable \in BOOLEAN,
             remove_server_endpoint(t, a, reliable) \/ remove_client_endpoint(t, a, reliable)
      PROVE  UNCHANGED countVars
  BY <1>2 DEF remove_server_endpoint, remove_client_endpoint, RemoveBegins
<1>3. ASSUME NEW t \in Threads, NEW e \in Endpoints,
             release(t, e) \/ stop(t, e) \/ restart(t, e)
      PROVE  UNCHANGED <<countVars, removing>>
  BY <1>3 DEF release, stop, restart, Becomes
<1>4. ASSUME NEW e \in Endpoints, drained(e) \/ client_falls_idle(e) \/ client_reconnects(e)
      PROVE  UNCHANGED <<countVars, removing>>
  BY <1>4 DEF drained, client_falls_idle, client_reconnects, Becomes
<1>5. CASE UNCHANGED vars
  BY <1>5 DEF vars
<1> QED BY <1>1, <1>2, <1>3, <1>4, <1>5 DEF OtherActions, Use

(* The users of an endpoint are finitely many, and fewer than a word holds. *)
LEMMA UsersLemma ==
    ASSUME NEW S \in SUBSET Threads
    PROVE  /\ IsFiniteSet(S) /\ Cardinality(S) \in Nat /\ Cardinality(S) < Word
           /\ Cardinality(S) = 0 <=> S = {}
           /\ \A t : t \notin S => Cardinality(S \cup {t}) = Cardinality(S) + 1
           /\ \A t : t \in S => /\ Cardinality(S \ {t}) = Cardinality(S) - 1
                                /\ Cardinality(S) > 0
<1>1. IsFiniteSet(Threads) /\ Word \in Nat /\ Cardinality(Threads) < Word
  BY ManagerAssumption
<1>2. IsFiniteSet(S) /\ Cardinality(S) <= Cardinality(Threads)
  BY <1>1, FS_Subset
<1>3. Cardinality(S) \in Nat /\ Cardinality(Threads) \in Nat
  BY <1>1, <1>2, FS_CardinalityType
<1>4. Cardinality(S) = 0 <=> S = {}
  BY <1>2, FS_EmptySet
<1>5. \A t : t \notin S => Cardinality(S \cup {t}) = Cardinality(S) + 1
  BY <1>2, FS_AddElement
<1>6. ASSUME NEW t, t \in S
      PROVE  Cardinality(S \ {t}) = Cardinality(S) - 1 /\ Cardinality(S) > 0
  <2>1. Cardinality(S \ {t}) = Cardinality(S) - 1
    BY <1>2, <1>6, FS_RemoveElement
  <2>2. Cardinality(S) # 0
    BY <1>4, <1>6
  <2> QED BY <1>3, <2>1, <2>2
<1> QED BY <1>1, <1>2, <1>3, <1>4, <1>5, <1>6

(* A thread that counts itself in or out keeps the count, and is late if it  *)
(* comes when the remove has decided.                                        *)
LEMMA CountStep ==
    ASSUME ManagerInv, CountingInv, NEW t \in Threads, NEW e \in Endpoints,
           increment_use_count(t, e) \/ decrement_use_count(t, e)
    PROVE  CountingInv'
<1>0. /\ TypeOK /\ CountInv /\ ErasingInv /\ UsedInv
      /\ users[e] \in SUBSET Threads /\ useCount[e] \in 0 .. Word - 1 /\ Word \in Nat
  BY ManagerAssumption DEF ManagerInv, CountingInv, TypeOK
<1>1. UNCHANGED <<server_endpoints, client_endpoints, initial, overwritten, removing>>
  BY DEF increment_use_count, decrement_use_count, mapVars, historyVars
<1>2. \A x \in Endpoints : x # e => /\ useCount'[x] = useCount[x] /\ users'[x] = users[x]
                                    /\ latecomers'[x] = latecomers[x]
  BY <1>0 DEF increment_use_count, decrement_use_count, TypeOK
<1>3. /\ \A x : Registered(x)' <=> Registered(x)
      /\ \A x : BeingErased(x)' <=> BeingErased(x)
  BY <1>1 DEF Registered, BeingErased, MutexFree
<1>4. CASE increment_use_count(t, e)
  <2>1. /\ useCount'[e] = (useCount[e] + 1) % Word /\ users'[e] = users[e] \cup {t}
        /\ latecomers'[e] = IF Registered(e) /\ ~BeingErased(e) THEN latecomers[e]
                            ELSE latecomers[e] \cup {t}
        /\ t \notin users[e]
    BY <1>0, <1>4 DEF increment_use_count, TypeOK
  <2>2. ASSUME initial[e] = 0
        PROVE  useCount'[e] = Cardinality(users'[e])
    <3>1. useCount[e] = Cardinality(users[e])
      BY <1>0, <2>2 DEF CountInv
    <3>2. users[e] \cup {t} \in SUBSET Threads
      BY <1>0
    <3>3. Cardinality(users[e] \cup {t}) < Word
      BY <3>2, UsersLemma
    <3>4. Cardinality(users[e] \cup {t}) = useCount[e] + 1
      BY <1>0, <2>1, <3>1, UsersLemma
    <3>5. useCount[e] + 1 \in Nat /\ useCount[e] + 1 < Word
      BY <1>0, <3>3, <3>4
    <3>6. (useCount[e] + 1) % Word = useCount[e] + 1
      BY <3>5, ModLemma
    <3> QED BY <2>1, <3>4, <3>6
  <2>3. CountInv'
    BY <1>0, <1>1, <1>2, <2>2 DEF CountInv
  <2>4. ErasingInv'
    BY <1>0, <1>1, <1>2, <1>3, <2>1 DEF ErasingInv
  <2>5. UsedInv'
    BY <1>0, <1>1, <1>2, <1>3, <2>1 DEF UsedInv
  <2> QED BY <2>3, <2>4, <2>5 DEF CountingInv
<1>5. CASE decrement_use_count(t, e)
  <2>1. /\ useCount'[e] = IF useCount[e] > 0 THEN useCount[e] - 1 ELSE useCount[e]
        /\ users'[e] = users[e] \ {t} /\ latecomers'[e] = latecomers[e] \ {t}
        /\ t \in users[e]
    BY <1>0, <1>5 DEF decrement_use_count, TypeOK
  <2>2. ASSUME initial[e] = 0
        PROVE  useCount'[e] = Cardinality(users'[e])
    <3>1. useCount[e] = Cardinality(users[e])
      BY <1>0, <2>2 DEF CountInv
    <3>2. Cardinality(users[e] \ {t}) = useCount[e] - 1 /\ useCount[e] > 0
      BY <1>0, <2>1, <3>1, UsersLemma
    <3> QED BY <2>1, <3>2
  <2>3. CountInv'
    BY <1>0, <1>1, <1>2, <2>2 DEF CountInv
  <2>4. ErasingInv'
    BY <1>0, <1>1, <1>2, <1>3, <2>1 DEF ErasingInv
  <2>5. UsedInv'
    BY <1>0, <1>1, <1>2, <1>3, <2>1 DEF UsedInv
  <2> QED BY <2>3, <2>4, <2>5 DEF CountingInv
<1> QED BY <1>4, <1>5

(* The remove that begins has read that no thread is counted in.            *)
LEMMA RemoveCountStep ==
    ASSUME ManagerInv, CountingInv, NEW t \in Threads, NEW a \in Addresses,
           NEW reliable \in BOOLEAN,
           remove_server_endpoint(t, a, reliable) \/ remove_client_endpoint(t, a, reliable)
    PROVE  CountingInv'
<1>0. TypeOK /\ CountInv /\ UsedInv
  BY DEF ManagerInv, CountingInv
<1>1. UNCHANGED <<server_endpoints, client_endpoints, useCount, initial, users, latecomers,
                  overwritten>>
  BY DEF remove_server_endpoint, remove_client_endpoint, RemoveBegins,
         mapVars, countVars, historyVars
<1>2. ASSUME NEW e \in Endpoints, BeingErased(e)', initial[e] = 0
      PROVE  users[e] = {}
  <2>1. useCount[e] = 0
    <3>1. CASE remove_server_endpoint(t, a, reliable)
      <4>1. /\ removing'.role = "server" /\ removing'.address = a
            /\ removing'.reliable = reliable
            /\ useCount[Entry(server_endpoints, a, reliable)] = 0
        BY <3>1 DEF remove_server_endpoint, RemoveBegins
      <4> QED BY <1>1, <1>2, <4>1 DEF BeingErased
    <3>2. CASE remove_client_endpoint(t, a, reliable)
      <4>1. /\ removing'.role = "client" /\ removing'.address = a
            /\ removing'.reliable = reliable
            /\ useCount[Entry(client_endpoints, a, reliable)] = 0
        BY <3>2 DEF remove_client_endpoint, RemoveBegins
      <4> QED BY <1>1, <1>2, <4>1 DEF BeingErased
    <3> QED BY <3>1, <3>2
  <2>2. Cardinality(users[e]) = 0 /\ users[e] \in SUBSET Threads
    BY <1>0, <1>2, <2>1 DEF CountInv, TypeOK
  <2> QED BY <2>2, UsersLemma
<1>3. ErasingInv'
  BY <1>1, <1>2 DEF ErasingInv
<1>4. CountInv' /\ UsedInv'
  BY <1>0, <1>1 DEF CountInv, UsedInv, Registered
<1> QED BY <1>3, <1>4 DEF CountingInv

(* Every step keeps the counts, and drops from the maps only an endpoint     *)
(* whose users are all late or one that create replaced.                     *)
LEMMA CountingStep == ManagerInv /\ CountingInv /\ [Next]_vars => CountingInv'
<1> SUFFICES ASSUME ManagerInv, CountingInv, [Next]_vars
             PROVE  CountingInv'
  OBVIOUS
<1>0. TypeOK /\ CountInv /\ ErasingInv /\ UsedInv
  BY DEF ManagerInv, CountingInv
<1>1. CASE CreateStep
  <2>1. PICK t \in Threads, e \in Endpoints, k \in Kinds, a \in Addresses :
          /\ Construct(t, e, k, a)
          /\ \A x \in Endpoints : Registered(x) => Registered(x)' \/ x \in overwritten'
          /\ \A x \in overwritten : x # e => x \in overwritten'
          /\ removing' = NotRemoving
    BY <1>1 DEF CreateStep
  <2>2. \A x \in Endpoints : x # e =>
          /\ useCount'[x] = useCount[x] /\ initial'[x] = initial[x]
          /\ users'[x] = users[x] /\ latecomers'[x] = latecomers[x]
    BY <1>0, <2>1 DEF Construct, TypeOK
  <2>3. users'[e] = {} /\ useCount'[e] = initial'[e]
    BY <1>0, <2>1 DEF Construct, TypeOK
  <2>4. Cardinality(users'[e]) = 0
    BY <2>3, FS_EmptySet
  <2>5. CountInv'
    BY <1>0, <2>2, <2>3, <2>4 DEF CountInv
  <2>6. ErasingInv'
    BY <2>1 DEF ErasingInv, BeingErased, MutexFree
  <2>7. UsedInv'
    BY <1>0, <2>1, <2>2, <2>3 DEF UsedInv
  <2> QED BY <2>5, <2>6, <2>7 DEF CountingInv
<1>2. CASE EraseStep
  <2>1. PICK d \in Endpoints :
          /\ BeingErased(d)
          /\ \A x \in Endpoints : Registered(x) => Registered(x)' \/ x = d
          /\ removing' = NotRemoving
          /\ UNCHANGED <<useCount, initial, users, latecomers, overwritten>>
    BY <1>2 DEF EraseStep, countVars
  <2>2. CountInv'
    BY <1>0, <2>1 DEF CountInv
  <2>3. ErasingInv'
    BY <2>1 DEF ErasingInv, BeingErased, MutexFree
  <2>4. initial[d] = 0 => users[d] \subseteq latecomers[d]
    BY <1>0, <2>1 DEF ErasingInv
  <2>5. UsedInv'
    BY <1>0, <2>1, <2>4 DEF UsedInv
  <2> QED BY <2>2, <2>3, <2>5 DEF CountingInv
<1>3. CASE OtherActions
  <2>1. UNCHANGED <<server_endpoints, client_endpoints, overwritten>>
    BY <1>3, OtherInv DEF mapVars, historyVars
  <2>2. CASE UNCHANGED <<countVars, removing>>
    <3>1. UNCHANGED <<useCount, initial, users, latecomers, removing>>
      BY <2>2 DEF countVars
    <3> QED BY <1>0, <2>1, <3>1 DEF CountingInv, CountInv, ErasingInv, UsedInv,
                                    Registered, BeingErased, MutexFree
  <2> QED BY <1>3, <2>2, OtherCounts, RemoveCountStep, CountStep
<1> QED BY <1>1, <1>2, <1>3, StepCases

(* A thread that counted itself in keeps its endpoint findable, unless the   *)
(* count began with garbage, the thread was late, or create replaced the     *)
(* endpoint: for any endpoints and addresses, and as many threads as the     *)
(* count can hold.                                                           *)
THEOREM UsedIsFindableHolds == Spec => []UsedIsFindable
<1>1. Init => CountingInv
  <2> SUFFICES ASSUME Init PROVE CountingInv
    OBVIOUS
  <2>1. \A e \in Endpoints : users[e] = {} /\ useCount[e] = 0
    BY DEF Init
  <2>2. Cardinality({}) = 0
    BY FS_EmptySet
  <2> QED BY <2>1, <2>2 DEF CountingInv, CountInv, ErasingInv, UsedInv
<1>2. CountingInv => UsedIsFindable
  BY DEF CountingInv, UsedInv, UsedIsFindable
<1> QED BY <1>1, <1>2, ManagerInvInit, ManagerInvStep, CountingStep, PTL DEF Spec

-----------------------------------------------------------------------------
(***************************************************************************)
(* The mutexes.  Every function takes them by rising level, and gives back *)
(* what it took; this is closed under nesting and sequence, so it is shown *)
(* of a function the way the function is written.                          *)
(***************************************************************************)
Level ==
    [endpoint_mutex_ |-> 1,
     acceptor_mutex_ |-> 2, connections_mutex_ |-> 2, mutex_ |-> 2,
     socket_mutex_ |-> 3, connect_timer_mutex_ |-> 3,
     unicast_mutex_ |-> 3, multicast_mutex_ |-> 3,
     sent_mutex_ |-> 4]
Rank(m) == Level[m[1]]

Operations == [op : {"lock", "unlock"}, m : AllMutexes]

(* Who makes the operations of s from the i-th on holds m: the next of them *)
(* that is about m unlocks it.                                              *)
HeldFrom(s, i, m) ==
    \E j \in i .. Len(s) :
        s[j].op = "unlock" /\ s[j].m = m /\ \A k \in i .. j - 1 : s[k].m # m

(* Each lock is followed by its unlock, and is above what is held.          *)
Tidy(s) ==
    \A i \in 1 .. Len(s) :
        /\ s[i].op = "lock" =>
             /\ HeldFrom(s, i + 1, s[i].m)
             /\ \A m \in AllMutexes : HeldFrom(s, i, m) => Rank(m) < Rank(s[i].m)
        /\ s[i].op = "unlock" => ~HeldFrom(s, i + 1, s[i].m)

(* s is tidy, needs nothing held, and takes only mutexes above level r.     *)
Nested(s, r) ==
    /\ s \in Seq(Operations)
    /\ Tidy(s)
    /\ \A m \in AllMutexes : ~HeldFrom(s, 1, m)
    /\ \A i \in 1 .. Len(s) : Rank(s[i].m) > r

(* Levels are numbers from 1 to 4.                                          *)
LEMMA Levels ==
    /\ \A m \in AllMutexes : Rank(m) \in 1 .. 4
    /\ endpoint_mutex \in AllMutexes /\ Rank(endpoint_mutex) = 1
    /\ acceptor_mutex \in AllMutexes /\ Rank(acceptor_mutex) = 2
    /\ connections_mutex \in AllMutexes /\ Rank(connections_mutex) = 2
    /\ connect_timer_mutex \in AllMutexes /\ Rank(connect_timer_mutex) = 3
    /\ unicast_mutex \in AllMutexes /\ Rank(unicast_mutex) = 3
    /\ multicast_mutex \in AllMutexes /\ Rank(multicast_mutex) = 3
    /\ \A o \in {"tcp_server", "udp_server", "client"} :
         /\ mutex(o) \in AllMutexes /\ Rank(mutex(o)) = 2
         /\ sent_mutex(o) \in AllMutexes /\ Rank(sent_mutex(o)) = 4
    /\ \A o \in Connections \cup {"client"} :
         socket_mutex(o) \in AllMutexes /\ Rank(socket_mutex(o)) = 3
BY DEF Rank, Level, AllMutexes, endpoint_mutex, acceptor_mutex,
       connections_mutex, connect_timer_mutex, unicast_mutex,
       multicast_mutex, mutex, sent_mutex, socket_mutex

(* The empty sequence.                                                      *)
LEMMA NestedEmpty == \A r \in Nat : Nested(<<>>, r)
<1>1. <<>> \in Seq(Operations) /\ Len(<<>>) = 0
  OBVIOUS
<1> QED BY <1>1 DEF Nested, Tidy, HeldFrom

(* The same operations, at a lower level.                                   *)
LEMMA NestedLower ==
    ASSUME NEW r \in Nat, NEW q \in Nat, q <= r, NEW s, Nested(s, r)
    PROVE  Nested(s, q)
<1>0. \A i \in 1 .. Len(s) : s[i] \in Operations
  BY DEF Nested
<1>1. \A i \in 1 .. Len(s) : Rank(s[i].m) \in 1 .. 4
  BY <1>0, Levels DEF Operations
<1> QED BY <1>1 DEF Nested

(* A guard around what is above its mutex.                                  *)
LEMMA NestedGuard ==
    ASSUME NEW m \in AllMutexes, NEW r \in Nat, r < Rank(m),
           NEW s, Nested(s, Rank(m))
    PROVE  Nested(Guarded(m, s), r)
<1> DEFINE g == Guarded(m, s)
           n == Len(s)
<1>0. s \in Seq(Operations) /\ n \in Nat /\ \A i \in 1 .. n : s[i] \in Operations
  BY DEF Nested
<1>1. /\ g \in Seq(Operations) /\ Len(g) = n + 2
      /\ g[1] = [op |-> "lock", m |-> m]
      /\ g[n + 2] = [op |-> "unlock", m |-> m]
      /\ \A i \in 1 .. n : g[i + 1] = s[i]
  BY <1>0 DEF Guarded, Operations
<1>2. \A i \in 1 .. n : s[i].m # m /\ Rank(m) < Rank(s[i].m) /\ Rank(s[i].m) \in 1 .. 4
  BY <1>0, Levels DEF Nested, Operations
<1>3. ASSUME NEW i \in 2 .. n + 2 PROVE HeldFrom(g, i, m)
  <2>1. \A k \in i .. n + 1 : g[k] = s[k - 1] /\ k - 1 \in 1 .. n
    BY <1>0, <1>1, <1>3
  <2>2. \A k \in i .. n + 1 : g[k].m # m
    BY <2>1, <1>2
  <2>3. n + 2 \in i .. Len(g) /\ (n + 2) - 1 = n + 1
    BY <1>0, <1>1
  <2> QED BY <1>1, <2>2, <2>3 DEF HeldFrom
<1>4. ASSUME NEW i \in 2 .. n + 2, NEW x \in AllMutexes, x # m
      PROVE  HeldFrom(g, i, x) <=> HeldFrom(s, i - 1, x)
  <2>1. ASSUME HeldFrom(g, i, x) PROVE HeldFrom(s, i - 1, x)
    <3>1. PICK j \in i .. n + 2 : g[j].op = "unlock" /\ g[j].m = x
                                 /\ \A k \in i .. j - 1 : g[k].m # x
      BY <2>1, <1>1 DEF HeldFrom
    <3>2. j # n + 2
      BY <3>1, <1>1, <1>4
    <3>3. j - 1 \in (i - 1) .. n /\ g[j] = s[j - 1]
      <4>1. j - 1 \in 1 .. n /\ (j - 1) + 1 = j
        BY <3>1, <3>2, <1>0
      <4> QED BY <4>1, <3>1, <1>0, <1>1
    <3>4. ASSUME NEW k \in (i - 1) .. (j - 1) - 1 PROVE s[k].m # x
      <4>1. k \in 1 .. n /\ k + 1 \in i .. j - 1
        BY <3>3, <1>0
      <4> QED BY <4>1, <1>1, <3>1
    <3> QED BY <3>1, <3>3, <3>4 DEF HeldFrom
  <2>2. ASSUME HeldFrom(s, i - 1, x) PROVE HeldFrom(g, i, x)
    <3>1. PICK j \in (i - 1) .. n : s[j].op = "unlock" /\ s[j].m = x
                                   /\ \A k \in (i - 1) .. j - 1 : s[k].m # x
      BY <2>2 DEF HeldFrom
    <3>2. j + 1 \in i .. Len(g) /\ g[j + 1] = s[j]
      BY <1>0, <1>1, <3>1
    <3>3. ASSUME NEW k \in i .. (j + 1) - 1 PROVE g[k].m # x
      <4>1. k - 1 \in 1 .. n /\ k - 1 \in (i - 1) .. j - 1 /\ (k - 1) + 1 = k
        BY <3>1, <1>0
      <4> QED BY <4>1, <1>1, <3>1
    <3> QED BY <3>1, <3>2, <3>3 DEF HeldFrom
  <2> QED BY <2>1, <2>2
<1>5. ASSUME NEW x \in AllMutexes PROVE ~HeldFrom(g, 1, x)
  <2> SUFFICES ASSUME HeldFrom(g, 1, x) PROVE FALSE
    OBVIOUS
  <2>1. PICK j \in 1 .. n + 2 : g[j].op = "unlock" /\ g[j].m = x
                               /\ \A k \in 1 .. j - 1 : g[k].m # x
    BY <1>1 DEF HeldFrom
  <2>2. j \in 2 .. n + 2 /\ 1 \in 1 .. j - 1
    BY <2>1, <1>1, <1>0
  <2>3. x # m
    BY <2>1, <2>2, <1>1
  <2>4. HeldFrom(g, 2, x)
    BY <2>1, <2>2, <1>1 DEF HeldFrom
  <2>5. HeldFrom(s, 1, x)
    BY <2>3, <2>4, <1>4, <1>0
  <2> QED BY <2>5 DEF Nested
<1>6. ~HeldFrom(g, (n + 2) + 1, m)
  BY <1>0, <1>1 DEF HeldFrom
<1>7. Tidy(g)
  <2> SUFFICES ASSUME NEW i \in 1 .. n + 2
               PROVE  /\ g[i].op = "lock" =>
                           /\ HeldFrom(g, i + 1, g[i].m)
                           /\ \A x \in AllMutexes :
                                HeldFrom(g, i, x) => Rank(x) < Rank(g[i].m)
                      /\ g[i].op = "unlock" => ~HeldFrom(g, i + 1, g[i].m)
    BY <1>1 DEF Tidy
  <2>1. CASE i = 1
    <3>1. HeldFrom(g, 2, m)
      BY <1>3, <1>0
    <3>2. g[i].op = "lock" /\ g[i].m = m /\ i + 1 = 2
      BY <2>1, <1>1
    <3> HIDE DEF g
    <3> QED BY <2>1, <3>1, <3>2, <1>5
  <2>2. CASE i = n + 2
    BY <2>2, <1>1, <1>6
  <2>3. CASE i \in 2 .. n + 1
    <3>1. i - 1 \in 1 .. n /\ g[i] = s[i - 1] /\ i + 1 \in 2 .. n + 2 /\ (i + 1) - 1 = i
          /\ (i - 1) + 1 = i
      BY <2>3, <1>0, <1>1
    <3>2. /\ s[i - 1].op = "lock" =>
               /\ HeldFrom(s, i, s[i - 1].m)
               /\ \A x \in AllMutexes :
                    HeldFrom(s, i - 1, x) => Rank(x) < Rank(s[i - 1].m)
          /\ s[i - 1].op = "unlock" => ~HeldFrom(s, i, s[i - 1].m)
      BY <3>1 DEF Nested, Tidy
    <3>3. s[i - 1].m \in AllMutexes /\ s[i - 1].m # m /\ Rank(m) < Rank(s[i - 1].m)
      BY <3>1, <1>0, <1>2 DEF Operations
    <3>4. HeldFrom(g, i + 1, s[i - 1].m) <=> HeldFrom(s, i, s[i - 1].m)
      BY <3>1, <3>3, <1>4
    <3>5. \A x \in AllMutexes : x # m => (HeldFrom(g, i, x) <=> HeldFrom(s, i - 1, x))
      BY <2>3, <1>4, <1>0
    <3> HIDE DEF g, n
    <3> QED BY <3>1, <3>2, <3>3, <3>4, <3>5
  <2> QED BY <2>1, <2>2, <2>3, <1>0
<1>8. \A i \in 1 .. Len(g) : Rank(g[i].m) > r
  <2> SUFFICES ASSUME NEW i \in 1 .. n + 2 PROVE Rank(g[i].m) > r
    BY <1>1
  <2>1. Rank(m) \in 1 .. 4
    BY Levels
  <2>2. CASE i \in {1, n + 2}
    BY <2>1, <2>2, <1>1
  <2>3. CASE i \in 2 .. n + 1
    <3>1. i - 1 \in 1 .. n /\ g[i] = s[i - 1]
      BY <2>3, <1>0, <1>1
    <3> QED BY <3>1, <2>1, <1>2
  <2> QED BY <2>2, <2>3, <1>0
<1> QED BY <1>1, <1>5, <1>7, <1>8 DEF Nested

(* One sequence after the other.                                            *)
LEMMA NestedConcat ==
    ASSUME NEW r \in Nat, NEW s, NEW u, Nested(s, r), Nested(u, r)
    PROVE  Nested(s \o u, r)
<1> DEFINE g == s \o u
           n == Len(s)
           p == Len(u)
<1>0. /\ s \in Seq(Operations) /\ n \in Nat /\ \A i \in 1 .. n : s[i] \in Operations
      /\ u \in Seq(Operations) /\ p \in Nat /\ \A i \in 1 .. p : u[i] \in Operations
  BY DEF Nested
<1>1. /\ g \in Seq(Operations) /\ Len(g) = n + p
      /\ \A i \in 1 .. n : g[i] = s[i]
      /\ \A i \in 1 .. p : g[n + i] = u[i]
  BY <1>0
<1>2. ASSUME NEW i \in 1 .. p + 1, NEW x PROVE HeldFrom(g, n + i, x) <=> HeldFrom(u, i, x)
  <2>1. ASSUME HeldFrom(g, n + i, x) PROVE HeldFrom(u, i, x)
    <3>1. PICK j \in n + i .. n + p : g[j].op = "unlock" /\ g[j].m = x
                                     /\ \A k \in n + i .. j - 1 : g[k].m # x
      BY <2>1, <1>1 DEF HeldFrom
    <3>2. j - n \in i .. p /\ n + (j - n) = j /\ j - n \in 1 .. p
      BY <3>1, <1>0
    <3>3. g[j] = u[j - n]
      BY <3>2, <1>1
    <3>4. ASSUME NEW k \in i .. (j - n) - 1 PROVE u[k].m # x
      <4>1. k \in 1 .. p /\ n + k \in n + i .. j - 1
        BY <3>2, <1>0
      <4> QED BY <4>1, <1>1, <3>1
    <3> QED BY <3>1, <3>2, <3>3, <3>4 DEF HeldFrom
  <2>2. ASSUME HeldFrom(u, i, x) PROVE HeldFrom(g, n + i, x)
    <3>1. PICK j \in i .. p : u[j].op = "unlock" /\ u[j].m = x
                              /\ \A k \in i .. j - 1 : u[k].m # x
      BY <2>2 DEF HeldFrom
    <3>2. n + j \in n + i .. Len(g) /\ g[n + j] = u[j]
      BY <1>0, <1>1, <3>1
    <3>3. ASSUME NEW k \in n + i .. (n + j) - 1 PROVE g[k].m # x
      <4>1. k - n \in 1 .. p /\ k - n \in i .. j - 1 /\ n + (k - n) = k
        BY <3>1, <1>0
      <4> QED BY <4>1, <1>1, <3>1
    <3> QED BY <3>1, <3>2, <3>3 DEF HeldFrom
  <2> QED BY <2>1, <2>2
<1>3. ASSUME NEW i \in 1 .. n + 1, NEW x \in AllMutexes
      PROVE  HeldFrom(g, i, x) <=> HeldFrom(s, i, x)
  <2>1. ASSUME HeldFrom(g, i, x) PROVE HeldFrom(s, i, x)
    <3>1. PICK j \in i .. n + p : g[j].op = "unlock" /\ g[j].m = x
                                 /\ \A k \in i .. j - 1 : g[k].m # x
      BY <2>1, <1>1 DEF HeldFrom
    <3>2. CASE j <= n
      <4>1. j \in i .. n /\ \A k \in i .. j : g[k] = s[k]
        BY <3>1, <3>2, <1>0, <1>1
      <4> QED BY <4>1, <3>1 DEF HeldFrom
    <3>3. CASE j > n
      <4>1. j \in n + 1 .. Len(g) /\ \A k \in n + 1 .. j - 1 : k \in i .. j - 1
        BY <3>1, <3>3, <1>0, <1>1
      <4>2. HeldFrom(g, n + 1, x)
        BY <4>1, <3>1 DEF HeldFrom
      <4>3. HeldFrom(u, 1, x)
        BY <4>2, <1>2, <1>0
      <4> QED BY <4>3 DEF Nested
    <3> QED BY <3>1, <3>2, <3>3, <1>0
  <2>2. ASSUME HeldFrom(s, i, x) PROVE HeldFrom(g, i, x)
    <3>1. PICK j \in i .. n : s[j].op = "unlock" /\ s[j].m = x
                              /\ \A k \in i .. j - 1 : s[k].m # x
      BY <2>2 DEF HeldFrom
    <3>2. j \in i .. Len(g) /\ \A k \in i .. j : g[k] = s[k]
      BY <3>1, <1>0, <1>1
    <3> QED BY <3>1, <3>2 DEF HeldFrom
  <2> QED BY <2>1, <2>2
<1>4. Tidy(g)
  <2> SUFFICES ASSUME NEW i \in 1 .. n + p
               PROVE  /\ g[i].op = "lock" =>
                           /\ HeldFrom(g, i + 1, g[i].m)
                           /\ \A x \in AllMutexes :
                                HeldFrom(g, i, x) => Rank(x) < Rank(g[i].m)
                      /\ g[i].op = "unlock" => ~HeldFrom(g, i + 1, g[i].m)
    BY <1>1 DEF Tidy
  <2>1. CASE i <= n
    <3>1. i \in 1 .. n /\ i + 1 \in 1 .. n + 1 /\ i \in 1 .. n + 1
      BY <2>1, <1>0
    <3>2. g[i] = s[i] /\ s[i].m \in AllMutexes
      BY <3>1, <1>0, <1>1 DEF Operations
    <3>3. /\ HeldFrom(g, i + 1, s[i].m) <=> HeldFrom(s, i + 1, s[i].m)
          /\ \A x \in AllMutexes : HeldFrom(g, i, x) <=> HeldFrom(s, i, x)
      BY <3>1, <3>2, <1>3
    <3> QED BY <3>1, <3>2, <3>3 DEF Nested, Tidy
  <2>2. CASE i > n
    <3> DEFINE k == i - n
    <3>1. k \in 1 .. p /\ k + 1 \in 1 .. p + 1 /\ k \in 1 .. p + 1
          /\ n + k = i /\ n + (k + 1) = i + 1
      BY <2>2, <1>0
    <3>2. g[i] = u[k] /\ u[k].m \in AllMutexes
      BY <3>1, <1>0, <1>1 DEF Operations
    <3>3. HeldFrom(g, i + 1, u[k].m) <=> HeldFrom(u, k + 1, u[k].m)
      BY <3>1, <1>2
    <3>4. \A x \in AllMutexes : HeldFrom(g, i, x) <=> HeldFrom(u, k, x)
      BY <3>1, <1>2
    <3>5. /\ u[k].op = "lock" =>
               /\ HeldFrom(u, k + 1, u[k].m)
               /\ \A x \in AllMutexes : HeldFrom(u, k, x) => Rank(x) < Rank(u[k].m)
          /\ u[k].op = "unlock" => ~HeldFrom(u, k + 1, u[k].m)
      BY <3>1 DEF Nested, Tidy
    <3> HIDE DEF g, k
    <3> QED BY <3>2, <3>3, <3>4, <3>5
  <2> QED BY <2>1, <2>2, <1>0
<1>5. \A x \in AllMutexes : ~HeldFrom(g, 1, x)
  BY <1>0, <1>3 DEF Nested
<1>6. \A i \in 1 .. Len(g) : Rank(g[i].m) > r
  <2> SUFFICES ASSUME NEW i \in 1 .. n + p PROVE Rank(g[i].m) > r
    BY <1>1
  <2>1. CASE i <= n
    BY <2>1, <1>0, <1>1 DEF Nested
  <2>2. CASE i > n
    <3>1. i - n \in 1 .. p /\ n + (i - n) = i
      BY <2>2, <1>0
    <3> QED BY <3>1, <1>1 DEF Nested
  <2> QED BY <2>1, <2>2, <1>0
<1> QED BY <1>1, <1>4, <1>5, <1>6 DEF Nested

(* One section after the other.                                             *)
LEMMA NestedEach ==
    ASSUME NEW r \in Nat, NEW ms \in Seq(AllMutexes),
           \A i \in 1 .. Len(ms) : Rank(ms[i]) > r
    PROVE  Nested(SectionOfEach(ms), r)
<1> DEFINE g == SectionOfEach(ms)
           n == Len(ms)
<1>0. n \in Nat /\ \A i \in 1 .. n : ms[i] \in AllMutexes
  OBVIOUS
<1>1. ASSUME NEW i \in 1 .. 2 * n
      PROVE  \E q \in 1 .. n : (i = 2 * q - 1 \/ i = 2 * q) /\ (i + 1) \div 2 = q
                             /\ (i % 2 = 1 <=> i = 2 * q - 1)
  <2>1. (i + 1) \div 2 \in 1 .. n
    BY <1>0
  <2>2. i = 2 * ((i + 1) \div 2) - 1 \/ i = 2 * ((i + 1) \div 2)
    BY <1>0
  <2>3. i % 2 = 1 <=> i = 2 * ((i + 1) \div 2) - 1
    BY <1>0
  <2> QED BY <2>1, <2>2, <2>3
<1>2. ASSUME NEW i \in 1 .. 2 * n, NEW q \in 1 .. n
      PROVE  /\ i = 2 * q - 1 => g[i].op = "lock" /\ g[i].m = ms[q]
             /\ i = 2 * q => g[i].op = "unlock" /\ g[i].m = ms[q]
  <2>1. g[i] = [op |-> IF i % 2 = 1 THEN "lock" ELSE "unlock", m |-> ms[(i + 1) \div 2]]
    BY DEF SectionOfEach
  <2>2. /\ i = 2 * q - 1 => i % 2 = 1 /\ (i + 1) \div 2 = q
        /\ i = 2 * q => i % 2 # 1 /\ (i + 1) \div 2 = q
    BY <1>0
  <2> QED BY <2>1, <2>2
<1>3. g \in Seq(Operations) /\ Len(g) = 2 * n
  <2>1. g \in [1 .. 2 * n -> Operations]
    BY <1>0, <1>1 DEF SectionOfEach, Operations
  <2>2. 2 * n \in Nat
    BY <1>0
  <2> HIDE DEF g
  <2> QED BY <2>1, <2>2
<1> HIDE DEF g
<1>4. ASSUME NEW q \in 1 .. n + 1, NEW x PROVE ~HeldFrom(g, 2 * q - 1, x)
  <2> SUFFICES ASSUME HeldFrom(g, 2 * q - 1, x) PROVE FALSE
    OBVIOUS
  <2>1. PICK j \in 2 * q - 1 .. 2 * n : g[j].op = "unlock" /\ g[j].m = x
                                       /\ \A k \in 2 * q - 1 .. j - 1 : g[k].m # x
    BY <1>3 DEF HeldFrom
  <2>2. j \in 1 .. 2 * n
    BY <1>0
  <2>3. PICK p \in 1 .. n : j = 2 * p - 1 \/ j = 2 * p
    BY <2>2, <1>1
  <2>4. j = 2 * p
    BY <2>1, <2>2, <2>3, <1>2
  <2>5. j - 1 \in 2 * q - 1 .. j - 1 /\ j - 1 \in 1 .. 2 * n /\ j - 1 = 2 * p - 1
    BY <2>4, <1>0
  <2>6. g[j - 1].m = g[j].m
    BY <2>2, <2>4, <2>5, <1>2
  <2> QED BY <2>1, <2>5, <2>6
<1>5. ASSUME NEW q \in 1 .. n, NEW i \in 1 .. 2 * n, i = 2 * q PROVE HeldFrom(g, i, ms[q])
  <2>1. i \in i .. Len(g) /\ i .. (i - 1) = {}
    BY <1>0, <1>3
  <2>2. g[i].op = "unlock" /\ g[i].m = ms[q]
    BY <1>2, <1>5
  <2> QED BY <2>1, <2>2 DEF HeldFrom
<1>6. Tidy(g)
  <2> SUFFICES ASSUME NEW i \in 1 .. 2 * n
               PROVE  /\ g[i].op = "lock" =>
                           /\ HeldFrom(g, i + 1, g[i].m)
                           /\ \A x \in AllMutexes :
                                HeldFrom(g, i, x) => Rank(x) < Rank(g[i].m)
                      /\ g[i].op = "unlock" => ~HeldFrom(g, i + 1, g[i].m)
    BY <1>3 DEF Tidy
  <2>1. PICK q \in 1 .. n : i = 2 * q - 1 \/ i = 2 * q
    BY <1>1
  <2>2. CASE i = 2 * q - 1
    <3>1. i + 1 = 2 * q /\ i + 1 \in 1 .. 2 * n /\ q \in 1 .. n + 1
      BY <2>2, <1>0
    <3>2. g[i].op = "lock" /\ g[i].m = ms[q]
      BY <2>2, <1>2
    <3>3. HeldFrom(g, i + 1, ms[q]) /\ \A x : ~HeldFrom(g, i, x)
      BY <2>2, <3>1, <1>4, <1>5
    <3> QED BY <3>2, <3>3
  <2>3. CASE i = 2 * q
    <3>1. i + 1 = 2 * (q + 1) - 1 /\ q + 1 \in 1 .. n + 1
      BY <2>3, <1>0
    <3>2. g[i].op = "unlock"
      BY <2>3, <1>2
    <3> QED BY <3>1, <3>2, <1>4
  <2> QED BY <2>1, <2>2, <2>3
<1>7. \A x \in AllMutexes : ~HeldFrom(g, 1, x)
  <2>1. 1 \in 1 .. n + 1 /\ 2 * 1 - 1 = 1
    BY <1>0
  <2> QED BY <2>1, <1>4
<1>8. \A i \in 1 .. Len(g) : Rank(g[i].m) > r
  <2> SUFFICES ASSUME NEW i \in 1 .. 2 * n PROVE Rank(g[i].m) > r
    BY <1>3
  <2>1. PICK q \in 1 .. n : i = 2 * q - 1 \/ i = 2 * q
    BY <1>1
  <2> QED BY <2>1, <1>2
<1> QED BY <1>3, <1>6, <1>7, <1>8 DEF Nested, g

(* A section that takes no other mutex.                                     *)
LEMMA NestedSection ==
    ASSUME NEW m \in AllMutexes, NEW r \in Nat, r < Rank(m)
    PROVE  Nested(Section(m), r)
BY NestedEmpty, NestedGuard, Levels DEF Section

(* Every function of the endpoints and of the manager.                      *)
LEMMA EveryFunction ==
    ASSUME ConnectionsAssumption, NEW f \in CallableFunctions
    PROVE  Nested(f, 0)
<1>s. \A m \in AllMutexes : \A r \in 0 .. 3 : r < Rank(m) => Nested(Section(m), r)
  BY NestedSection
<1>c. \A r \in 0 .. 3 : \A s, u : Nested(s, r) /\ Nested(u, r) => Nested(s \o u, r)
  BY NestedConcat
<1>1. \A c \in Connections : /\ Nested(server_start(c), 0)
                              /\ Nested(server_start(c), 1)
  BY <1>s, NestedGuard, Levels DEF server_start
<1>2. ASSUME NEW cs \in Orders PROVE Nested(server_stop(cs), 0)
  <2> DEFINE ms == [i \in DOMAIN cs |-> socket_mutex(cs[i])]
  <2>1. Cardinality(Connections) \in Nat
    BY FS_CardinalityType DEF ConnectionsAssumption
  <2>2. cs \in [1 .. Cardinality(Connections) -> Connections]
    BY DEF Orders
  <2>3. ms \in [1 .. Cardinality(Connections) -> AllMutexes]
    BY <2>2, Levels
  <2>4. \A i \in 1 .. Cardinality(Connections) : Rank(ms[i]) = 3
    BY <2>2, Levels
  <2> HIDE DEF ms
  <2>5. ms \in Seq(AllMutexes) /\ \A i \in 1 .. Len(ms) : Rank(ms[i]) > 2
    BY <2>1, <2>3, <2>4
  <2>6. Nested(SectionOfEach(ms), 2)
    BY <2>5, NestedEach
  <2>7. Nested(Guarded(connections_mutex, SectionOfEach(ms)), 0)
    BY <2>6, NestedGuard, Levels
  <2>8. Nested(Section(acceptor_mutex), 0)
    BY <1>s, Levels
  <2>9. Nested(Section(acceptor_mutex) \o Guarded(connections_mutex, SectionOfEach(ms)), 0)
    BY <2>7, <2>8, <1>c
  <2> QED BY <2>9 DEF server_stop, ms
<1>3. \A o \in {"tcp_server", "udp_server"} : Nested(server_send_cbk(o), 0)
  BY <1>s, <1>c, Levels DEF server_send_cbk
<1>4. \A c \in Connections : Nested(connection_send_data(c), 0)
  BY <1>s, NestedGuard, Levels DEF connection_send_data
<1>5. ASSUME NEW c \in Connections PROVE Nested(stop_and_remove_connection(c), 0)
  <2>1. Nested(Guarded(connections_mutex, Section(socket_mutex(c))), 0)
    BY <1>s, NestedGuard, Levels
  <2>2. Nested(Section(connections_mutex), 0)
    BY <1>s, Levels
  <2> QED BY <2>1, <2>2, <1>3, <1>c DEF stop_and_remove_connection
<1>6. ASSUME NEW c \in Connections, NEW next \in Connections PROVE Nested(accept_cbk(c, next), 0)
  <2>1. /\ Nested(Section(socket_mutex(c)), 0) /\ Nested(Section(connections_mutex), 0)
        /\ Nested(connection_receive(c), 0)
    BY <1>s, Levels DEF connection_receive
  <2> QED BY <2>1, <1>1, <1>c DEF accept_cbk
<1>r. \A c \in Connections : Nested(connection_receive_cbk(c), 0)
  BY <1>s, Levels DEF connection_receive_cbk
<1>7. CASE f \in ServerFunctions
  BY <1>7, <1>1, <1>2, <1>3, <1>4, <1>5, <1>6, <1>r DEF ServerFunctions
<1>8. /\ Nested(Section(socket_mutex("client")), 0) /\ Nested(Section(socket_mutex("client")), 1)
      /\ Nested(Section(connect_timer_mutex), 0) /\ Nested(Section(mutex("client")), 0)
      /\ Nested(Section(unicast_mutex), 0) /\ Nested(Section(unicast_mutex), 1)
      /\ Nested(Section(multicast_mutex), 0) /\ Nested(Section(endpoint_mutex), 0)
  BY <1>s, Levels
<1>9. Nested(client_send, 0)
  <2>1. Nested(Section(sent_mutex("client")), 3)
    BY <1>s, Levels
  <2>2. Nested(Guarded(socket_mutex("client"), Section(sent_mutex("client"))), 2)
    BY <2>1, NestedGuard, Levels
  <2> QED BY <2>2, NestedGuard, Levels DEF client_send
<1>10. Nested(connect, 0) /\ Nested(client_stop, 0) /\ Nested(client_send_cbk, 0)
  BY <1>8, <1>c DEF connect, client_stop, client_send_cbk
<1>11. Nested(connect_cbk, 0)
  BY <1>8, <1>c DEF connect_cbk, client_receive
<1>12. /\ Nested(on_unicast_received, 0) /\ Nested(udp_server_stop, 0)
       /\ Nested(udp_server_send_data, 0)
  BY <1>8, <1>c DEF on_unicast_received, receive_unicast, udp_server_stop, udp_server_send_data
<1>13. CASE f \in create_endpoint
  <2>1. \A s : Nested(s, 1) => Nested(Guarded(endpoint_mutex, s), 0)
    BY NestedGuard, Levels
  <2> QED BY <1>13, <2>1, <1>1, <1>8 DEF create_endpoint, receive_unicast, connect
<1>14. Nested(find_or_remove_endpoint, 0)
  BY <1>8 DEF find_or_remove_endpoint
<1> QED BY <1>3, <1>7, <1>9, <1>10, <1>11, <1>12, <1>13, <1>14 DEF CallableFunctions

-----------------------------------------------------------------------------
(* A thread owns what the rest of its function unlocks first, nobody else   *)
(* owns it, and the rest is tidy.                                           *)
LockInv ==
    /\ todo \in [Runners -> Seq(Operations)]
    /\ owner \in [AllMutexes -> SUBSET Runners]
    /\ \A t \in Runners : Tidy(todo[t])
    /\ \A m \in AllMutexes : \A t \in Runners : t \in owner[m] <=> HeldFrom(todo[t], 1, m)
    /\ \A m \in AllMutexes : \A t, u \in owner[m] : t = u

(* What the rest of a sequence holds, and that it is tidy as well.          *)
LEMMA Rest ==
    ASSUME NEW s \in Seq(Operations), s # <<>>, Tidy(s)
    PROVE  /\ Tail(s) \in Seq(Operations) /\ Tidy(Tail(s))
           /\ Head(s) = s[1] /\ s[1] \in Operations /\ 1 \in 1 .. Len(s)
           /\ \A m : HeldFrom(Tail(s), 1, m) <=> HeldFrom(s, 2, m)
           /\ \A m : m # s[1].m => (HeldFrom(s, 2, m) <=> HeldFrom(s, 1, m))
<1> DEFINE u == Tail(s)
<1>1. /\ Len(s) \in Nat \ {0} /\ u \in Seq(Operations) /\ Len(u) = Len(s) - 1
      /\ \A i \in 1 .. Len(s) - 1 : u[i] = s[i + 1]
      /\ Head(s) = s[1] /\ s[1] \in Operations /\ 1 \in 1 .. Len(s)
      /\ \A i \in 1 .. Len(s) : s[i] \in Operations
  OBVIOUS
<1> HIDE DEF u
<1>2. ASSUME NEW i \in 1 .. Len(s), NEW m PROVE HeldFrom(u, i, m) <=> HeldFrom(s, i + 1, m)
  <2>1. ASSUME HeldFrom(u, i, m) PROVE HeldFrom(s, i + 1, m)
    <3>1. PICK j \in i .. Len(u) : u[j].op = "unlock" /\ u[j].m = m
                                   /\ \A k \in i .. j - 1 : u[k].m # m
      BY <2>1 DEF HeldFrom
    <3>2. j + 1 \in i + 1 .. Len(s) /\ s[j + 1] = u[j]
      BY <3>1, <1>1
    <3>3. ASSUME NEW k \in i + 1 .. (j + 1) - 1 PROVE s[k].m # m
      <4>1. k - 1 \in i .. j - 1 /\ k - 1 \in 1 .. Len(s) - 1 /\ (k - 1) + 1 = k
        BY <3>1, <1>1
      <4> QED BY <4>1, <3>1, <1>1
    <3> QED BY <3>1, <3>2, <3>3 DEF HeldFrom
  <2>2. ASSUME HeldFrom(s, i + 1, m) PROVE HeldFrom(u, i, m)
    <3>1. PICK j \in i + 1 .. Len(s) : s[j].op = "unlock" /\ s[j].m = m
                                       /\ \A k \in i + 1 .. j - 1 : s[k].m # m
      BY <2>2 DEF HeldFrom
    <3>2. j - 1 \in i .. Len(u) /\ u[j - 1] = s[j]
      <4>1. j - 1 \in i .. Len(u) /\ j - 1 \in 1 .. Len(s) - 1 /\ (j - 1) + 1 = j
        BY <3>1, <1>1
      <4> QED BY <4>1, <1>1
    <3>3. ASSUME NEW k \in i .. (j - 1) - 1 PROVE u[k].m # m
      <4>1. k + 1 \in i + 1 .. j - 1 /\ k \in 1 .. Len(s) - 1
        BY <3>1, <1>1
      <4> QED BY <4>1, <3>1, <1>1
    <3> QED BY <3>1, <3>2, <3>3 DEF HeldFrom
  <2> QED BY <2>1, <2>2
<1>3. Tidy(u)
  <2> SUFFICES ASSUME NEW i \in 1 .. Len(u)
               PROVE  /\ u[i].op = "lock" =>
                           /\ HeldFrom(u, i + 1, u[i].m)
                           /\ \A x \in AllMutexes :
                                HeldFrom(u, i, x) => Rank(x) < Rank(u[i].m)
                      /\ u[i].op = "unlock" => ~HeldFrom(u, i + 1, u[i].m)
    BY DEF Tidy
  <2>1. i \in 1 .. Len(s) /\ i + 1 \in 1 .. Len(s) /\ u[i] = s[i + 1]
    BY <1>1
  <2>2. \A x : /\ HeldFrom(u, i, x) <=> HeldFrom(s, i + 1, x)
               /\ HeldFrom(u, i + 1, x) <=> HeldFrom(s, (i + 1) + 1, x)
    BY <2>1, <1>2
  <2>3. /\ s[i + 1].op = "lock" =>
             /\ HeldFrom(s, (i + 1) + 1, s[i + 1].m)
             /\ \A x \in AllMutexes :
                  HeldFrom(s, i + 1, x) => Rank(x) < Rank(s[i + 1].m)
        /\ s[i + 1].op = "unlock" => ~HeldFrom(s, (i + 1) + 1, s[i + 1].m)
    BY <2>1 DEF Tidy
  <2> QED BY <2>1, <2>2, <2>3
<1>4. ASSUME NEW m, m # s[1].m PROVE HeldFrom(s, 2, m) <=> HeldFrom(s, 1, m)
  <2>1. ASSUME HeldFrom(s, 2, m) PROVE HeldFrom(s, 1, m)
    <3>1. PICK j \in 2 .. Len(s) : s[j].op = "unlock" /\ s[j].m = m
                                   /\ \A k \in 2 .. j - 1 : s[k].m # m
      BY <2>1 DEF HeldFrom
    <3>2. j \in 1 .. Len(s) /\ \A k \in 1 .. j - 1 : k = 1 \/ k \in 2 .. j - 1
      BY <3>1, <1>1
    <3> QED BY <3>1, <3>2, <1>4 DEF HeldFrom
  <2>2. ASSUME HeldFrom(s, 1, m) PROVE HeldFrom(s, 2, m)
    <3>1. PICK j \in 1 .. Len(s) : s[j].op = "unlock" /\ s[j].m = m
                                   /\ \A k \in 1 .. j - 1 : s[k].m # m
      BY <2>2 DEF HeldFrom
    <3>2. j \in 2 .. Len(s) /\ \A k \in 2 .. j - 1 : k \in 1 .. j - 1
      BY <3>1, <1>1, <1>4
    <3> QED BY <3>1, <3>2 DEF HeldFrom
  <2> QED BY <2>1, <2>2
<1>5. \A m : HeldFrom(u, 1, m) <=> HeldFrom(s, 2, m)
  BY <1>1, <1>2
<1> QED BY <1>1, <1>3, <1>4, <1>5 DEF u

(* At first nobody has anything to do.                                      *)
LEMMA LockInvInit == LockInit => LockInv
<1>1. \A m \in AllMutexes : ~HeldFrom(<<>>, 1, m)
  BY NestedEmpty DEF Nested
<1>2. Tidy(<<>>) /\ <<>> \in Seq(Operations)
  BY NestedEmpty DEF Nested
<1> QED BY <1>1, <1>2 DEF LockInit, LockInv

(* A call begins a function that needs nothing; a lock and an unlock are    *)
(* the first operation of a tidy sequence.                                  *)
LEMMA LockInvStep ==
    ASSUME ConnectionsAssumption, LockInv, [LockNext]_lockVars
    PROVE  LockInv'
<1>0. CASE UNCHANGED lockVars
  BY <1>0 DEF lockVars, LockInv
<1>1. ASSUME NEW t \in Runners, Call(t) PROVE LockInv'
  <2>1. PICK f \in CallableFunctions : todo' = [todo EXCEPT ![t] = f]
    BY <1>1 DEF Call
  <2>2. /\ f \in Seq(Operations) /\ Tidy(f)
        /\ \A m \in AllMutexes : ~HeldFrom(f, 1, m)
    BY EveryFunction DEF Nested
  <2>3. \A m \in AllMutexes : ~HeldFrom(<<>>, 1, m)
    BY NestedEmpty DEF Nested
  <2>4. todo[t] = <<>> /\ owner' = owner
    BY <1>1 DEF Call
  <2>5. todo'[t] = f /\ \A u \in Runners : u # t => todo'[u] = todo[u]
    BY <2>1 DEF LockInv
  <2> QED BY <2>1, <2>2, <2>3, <2>4, <2>5 DEF LockInv
<1>2. ASSUME NEW t \in Runners, Lock(t) \/ Unlock(t) PROVE LockInv'
  <2> DEFINE s == todo[t]
             x == s[1].m
  <2>1. s \in Seq(Operations) /\ s # <<>> /\ Tidy(s)
    BY <1>2 DEF Lock, Unlock, LockInv
  <2>2. /\ Tail(s) \in Seq(Operations) /\ Tidy(Tail(s))
        /\ Head(s) = s[1] /\ s[1] \in Operations /\ 1 \in 1 .. Len(s)
        /\ \A m : HeldFrom(Tail(s), 1, m) <=> HeldFrom(s, 2, m)
        /\ \A m : m # x => (HeldFrom(s, 2, m) <=> HeldFrom(s, 1, m))
    BY <2>1, Rest
  <2>3. x \in AllMutexes
    BY <2>2 DEF Operations
  <2>4. /\ todo' = [todo EXCEPT ![t] = Tail(s)] /\ todo'[t] = Tail(s)
        /\ \A u \in Runners : u # t => todo'[u] = todo[u]
    BY <1>2 DEF Lock, Unlock, LockInv
  <2>5. \A m \in AllMutexes : m # x => owner'[m] = owner[m]
    BY <1>2, <2>2 DEF Lock, Unlock, LockInv
  <2>6. /\ s[1].op = "lock" => HeldFrom(s, 2, x)
        /\ s[1].op = "unlock" => ~HeldFrom(s, 2, x)
    BY <2>1, <2>2 DEF Tidy
  <2>7. CASE Lock(t)
    <3>1. s[1].op = "lock" /\ owner[x] = {} /\ owner' = [owner EXCEPT ![x] = {t}]
      BY <2>7, <2>2 DEF Lock, Free
    <3>2. owner'[x] = {t}
      BY <3>1, <2>3 DEF LockInv
    <3>3. \A u \in Runners : u \in owner'[x] <=> HeldFrom(todo'[u], 1, x)
      BY <3>1, <3>2, <2>2, <2>3, <2>4, <2>6 DEF LockInv
    <3>4. \A m \in AllMutexes : m # x =>
            \A u \in Runners : u \in owner'[m] <=> HeldFrom(todo'[u], 1, m)
      BY <2>2, <2>4, <2>5 DEF LockInv
    <3>5. todo' \in [Runners -> Seq(Operations)] /\ owner' \in [AllMutexes -> SUBSET Runners]
      BY <3>1, <2>2, <2>4 DEF LockInv
    <3>6. \A u \in Runners : Tidy(todo'[u])
      BY <2>2, <2>4 DEF LockInv
    <3>7. ASSUME NEW m \in AllMutexes PROVE \A u, v \in owner'[m] : u = v
      <4>1. CASE m = x
        BY <4>1, <3>2
      <4>2. CASE m # x
        BY <4>2, <2>5 DEF LockInv
      <4> QED BY <4>1, <4>2
    <3>8. \A m \in AllMutexes : \A u \in Runners : u \in owner'[m] <=> HeldFrom(todo'[u], 1, m)
      BY <3>3, <3>4
    <3> QED BY <3>5, <3>6, <3>7, <3>8 DEF LockInv
  <2>8. CASE Unlock(t)
    <3>1. s[1].op = "unlock" /\ owner' = [owner EXCEPT ![x] = {}]
      BY <2>8, <2>2 DEF Unlock
    <3>2. owner'[x] = {}
      BY <3>1, <2>3 DEF LockInv
    <3>a. HeldFrom(s, 1, x)
      <4>1. 1 \in 1 .. Len(s) /\ 1 .. (1 - 1) = {}
        BY <2>2
      <4> QED BY <4>1, <3>1 DEF HeldFrom
    <3>b. owner[x] = {t}
      BY <3>a, <2>3 DEF LockInv
    <3>3. \A u \in Runners : u \in owner'[x] <=> HeldFrom(todo'[u], 1, x)
      BY <3>1, <3>2, <3>b, <2>2, <2>3, <2>4, <2>6 DEF LockInv
    <3>4. \A m \in AllMutexes : m # x =>
            \A u \in Runners : u \in owner'[m] <=> HeldFrom(todo'[u], 1, m)
      BY <2>2, <2>4, <2>5 DEF LockInv
    <3>5. todo' \in [Runners -> Seq(Operations)] /\ owner' \in [AllMutexes -> SUBSET Runners]
      BY <3>1, <2>2, <2>4 DEF LockInv
    <3>6. \A u \in Runners : Tidy(todo'[u])
      BY <2>2, <2>4 DEF LockInv
    <3>7. ASSUME NEW m \in AllMutexes PROVE \A u, v \in owner'[m] : u = v
      <4>1. CASE m = x
        BY <4>1, <3>2
      <4>2. CASE m # x
        BY <4>2, <2>5 DEF LockInv
      <4> QED BY <4>1, <4>2
    <3>8. \A m \in AllMutexes : \A u \in Runners : u \in owner'[m] <=> HeldFrom(todo'[u], 1, m)
      BY <3>3, <3>4
    <3> QED BY <3>5, <3>6, <3>7, <3>8 DEF LockInv
  <2> QED BY <1>2, <2>7, <2>8
<1> QED BY <1>0, <1>1, <1>2 DEF LockNext

(* In a circle the mutexes waited for would rise without end.               *)
LEMMA NoCircle == LockInv => NoCircularWait
<1> SUFFICES ASSUME LockInv, NEW S \in SUBSET Runners, S # {},
                    \A t \in S : Waits(t) /\ owner[Head(todo[t]).m] \subseteq S
             PROVE  FALSE
  BY DEF NoCircularWait
<1> DEFINE W(t) == Rank(Head(todo[t]).m)
<1>1. ASSUME NEW t \in S PROVE W(t) \in 1 .. 4 /\ \E u \in S : W(t) < W(u)
  <2>1. /\ todo[t] \in Seq(Operations) /\ todo[t] # <<>> /\ Tidy(todo[t])
        /\ Head(todo[t]).op = "lock" /\ owner[Head(todo[t]).m] # {}
    BY DEF Waits, Free, LockInv
  <2>2. Head(todo[t]).m \in AllMutexes
    BY <2>1, Rest DEF Operations
  <2>3. PICK u \in S : u \in owner[Head(todo[t]).m]
    BY <2>1
  <2>4. HeldFrom(todo[u], 1, Head(todo[t]).m)
    BY <2>2, <2>3 DEF LockInv
  <2>5. /\ todo[u] \in Seq(Operations) /\ todo[u] # <<>> /\ Tidy(todo[u])
        /\ Head(todo[u]).op = "lock"
    BY DEF Waits, LockInv
  <2>6. Head(todo[u]) = todo[u][1] /\ 1 \in 1 .. Len(todo[u])
    BY <2>5, Rest
  <2>7. W(t) < W(u)
    BY <2>2, <2>4, <2>5, <2>6 DEF Tidy
  <2> QED BY <2>2, <2>7, Levels
<1> HIDE DEF W
<1>2. PICK t1 \in S : W(t1) >= 1
  BY <1>1
<1>3. PICK t2 \in S : W(t2) >= 2
  BY <1>1, <1>2
<1>4. PICK t3 \in S : W(t3) >= 3
  BY <1>1, <1>3
<1>5. PICK t4 \in S : W(t4) >= 4
  BY <1>1, <1>4
<1> QED BY <1>1, <1>5

(* However many threads run the callbacks and call the endpoints and the    *)
(* manager, and however many connections there are, no threads wait for     *)
(* each other's mutexes in a circle.                                        *)
THEOREM NoCircularWaitHolds == LockSpec => []NoCircularWait
<1>1. LockInv /\ [LockNext]_lockVars => LockInv'
  BY LockInvStep, ConnectionsAssumption
<1> QED BY <1>1, LockInvInit, NoCircle, PTL DEF LockSpec
=============================================================================
