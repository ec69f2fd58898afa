-------------------------- MODULE TcpClientStream ---------------------------
(***************************************************************************)
(* What the TCP client puts on the wire.                                   *)
(*                                                                         *)
(* send_data starts an async_write, which the library carries out as       *)
(* several writes; between two of them write_completion_condition runs on  *)
(* a worker, without socket_mutex_, and the next one goes to the socket    *)
(* object as it is then.  send_data sets is_sending_ and does not look at  *)
(* it.  TcpClientEndpoint counts these operations; here each one is the    *)
(* message that it sends, and the callbacks that open and close the socket *)
(* are reduced to what they do to it.  The actions have the names of the   *)
(* functions behind stream_, to tell them from TcpClientEndpoint's.        *)
(*                                                                         *)
(* A message has Parts parts, the units that the kernel takes.             *)
(***************************************************************************)
EXTENDS Naturals, Sequences

CONSTANTS Messages,
          Parts,          (* parts of a message                            *)
          MaxConnections  (* bound: connections made in a behaviour        *)

ASSUME StreamAssumption == Parts \in Nat \ {0} /\ MaxConnections \in Nat

VARIABLES
    conn,        (* the connection that socket_ is open for, 0 if none      *)
    made,        (* number of connections made                              *)
    queue,       (* the writes that wait on the descriptor, oldest first    *)
    stage,       (* stage[m]: how far the async_write of m has come         *)
    sent,        (* sent[m]: parts of m that the kernel has taken           *)
    wire,        (* wire[k]: the parts taken on connection k                *)
    freed,       (* the writes between two of their parts whose socket      *)
                 (* object was freed by send_cbk                            *)
    mixed        (* history: the connections on which two writes were under *)
                 (* way at once, or that were opened under a write which    *)
                 (* stood between two of its parts                          *)

streamVars == <<conn, made, queue, stage, sent, wire, freed, mixed>>

(* not called; waiting for the kernel; written in part; over, send_cbk due *)
(* or done.                                                                *)
Stages == {"new", "waiting", "partial", "over"}

StreamTypeOK ==
    /\ conn \in 0 .. MaxConnections
    /\ made \in 0 .. MaxConnections
    /\ queue \in Seq(Messages)
    /\ stage \in [Messages -> Stages]
    /\ sent \in [Messages -> 0 .. Parts]
    /\ wire \in [1 .. MaxConnections -> Seq(Messages \X (1 .. Parts))]
    /\ freed \subseteq Messages
    /\ mixed \subseteq 1 .. MaxConnections

StreamInit ==
    /\ conn = 0
    /\ made = 0
    /\ queue = <<>>
    /\ stage = [m \in Messages |-> "new"]
    /\ sent = [m \in Messages |-> 0]
    /\ wire = [k \in 1 .. MaxConnections |-> <<>>]
    /\ freed = {}
    /\ mixed = {}

UnderWay(m) == stage[m] \in {"waiting", "partial"}
InParts == {m \in Messages : stage[m] = "partial"}

-----------------------------------------------------------------------------
(* connect() on a closed socket, by start() or by send_cbk.                *)
stream_connect ==
    /\ conn = 0
    /\ made < MaxConnections
    /\ conn' = made + 1
    /\ made' = made + 1
    /\ mixed' = mixed \cup (IF InParts # {} THEN {made + 1} ELSE {})
    /\ UNCHANGED <<queue, stage, sent, wire, freed>>

(* shutdown_and_close_socket, or a connection that breaks: what waits ends  *)
(* with an error; a write between two of its parts waits for nothing and    *)
(* notices nothing, not even that send_cbk, which recreates the socket,     *)
(* frees the object it goes on with.                                        *)
stream_shutdown_and_close_socket(recreated) ==
    /\ conn # 0 \/ recreated
    /\ conn' = 0
    /\ freed' = IF recreated THEN freed \cup InParts ELSE freed
    /\ queue' = <<>>
    /\ stage' = [m \in Messages |-> IF stage[m] = "waiting" THEN "over" ELSE stage[m]]
    /\ UNCHANGED <<made, sent, wire, mixed>>

stream_send_data(m) ==
    /\ stage[m] = "new"
    /\ conn # 0
    /\ queue' = Append(queue, m)
    /\ stage' = [stage EXCEPT ![m] = "waiting"]
    /\ mixed' = mixed \cup (IF \E n \in Messages : UnderWay(n) THEN {conn} ELSE {})
    /\ UNCHANGED <<conn, made, sent, wire, freed>>

(* The kernel takes n more parts of the write that waits longest, of the   *)
(* ones that write_completion_condition asked for.                         *)
TakeFirst(n) ==
    /\ LET m == Head(queue) IN
         /\ wire' = [wire EXCEPT ![conn] = @ \o [i \in 1 .. n |-> <<m, sent[m] + i>>]]
         /\ sent' = [sent EXCEPT ![m] = @ + n]
         /\ stage' = [stage EXCEPT ![m] = IF sent[m] + n = Parts THEN "over" ELSE "partial"]
    /\ queue' = Tail(queue)
    /\ UNCHANGED <<conn, made, freed, mixed>>

TakeParts(n) == queue # <<>> /\ n <= Parts - sent[Head(queue)] /\ TakeFirst(n)

(***************************************************************************)
(* write_completion_condition without an error asks for what is left, and  *)
(* the library writes it, behind the writes that wait already.  That fails *)
(* on a closed socket; a freed one may look closed, or like the socket     *)
(* that took its memory.                                                   *)
(***************************************************************************)
stream_write_completion_condition_short(m) ==
    /\ stage[m] = "partial"
    /\ stage' = [stage EXCEPT ![m] = "over"]
    /\ freed' = freed \ {m}
    /\ UNCHANGED <<conn, made, queue, sent, wire, mixed>>

stream_write_completion_condition(m) ==
    /\ stage[m] = "partial"
    /\ \/ /\ conn # 0
          /\ queue' = Append(queue, m)
          /\ stage' = [stage EXCEPT ![m] = "waiting"]
       \/ /\ conn = 0 \/ m \in freed
          /\ stage' = [stage EXCEPT ![m] = "over"]
          /\ UNCHANGED queue
    /\ freed' = freed \ {m}
    /\ UNCHANGED <<conn, made, sent, wire, mixed>>

StreamNext ==
    \/ stream_connect
    \/ \E recreated \in BOOLEAN : stream_shutdown_and_close_socket(recreated)
    \/ \E m \in Messages : stream_send_data(m) \/ stream_write_completion_condition(m)
    \/ \E n \in 1 .. Parts : TakeParts(n)

StreamSpec == StreamInit /\ [][StreamNext]_streamVars

-----------------------------------------------------------------------------
(* The peer reads whole messages, one after the other, the last perhaps cut *)
(* off by the end of the connection, on every connection on which send()    *)
(* was not called before the last write was over, and which was not opened  *)
(* under a write that stood between two of its parts.  What such a write or *)
(* a freed socket object spoils is that connection: not an earlier one, and *)
(* not the next that is opened after the write has ended.                   *)
FollowsInStream(p, q) ==
    \/ q[1] = p[1] /\ q[2] = p[2] + 1
    \/ p[2] = Parts /\ q[2] = 1
WholeMessages ==
    \A k \in (1 .. MaxConnections) \ mixed :
        /\ wire[k] # <<>> => wire[k][1][2] = 1
        /\ \A i \in 1 .. (Len(wire[k]) - 1) : FollowsInStream(wire[k][i], wire[k][i + 1])
=============================================================================
