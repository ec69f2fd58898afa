----------------------------- MODULE ClientLink -----------------------------
(***************************************************************************)
(* What a client endpoint promises, without its threads, callbacks and     *)
(* queues: a link that is dialled only while it is idle or closed, is      *)
(* never dialled again while it is up, remembers a port no longer than it  *)
(* is open, and is left alone once it is stopped.                          *)
(*                                                                         *)
(* TcpClientEndpoint and UdpClientEndpoint implement it.                   *)
(***************************************************************************)
CONSTANT SendWakes  (* a send on a stopped endpoint may open it again      *)

VARIABLES link,     (* closed, idle (open without a peer), dialling, up     *)
          port,     (* the endpoint knows a local port                      *)
          stopped   (* stopped, and nothing is left that may open it again  *)

linkVars == <<link, port, stopped>>

Links == {"closed", "idle", "dialling", "up"}

Init == link = "closed" /\ port = FALSE /\ stopped = FALSE

(* An attempt to open and connect, which may get stuck on its way.         *)
Dialled ==
    \/ link \in {"closed", "idle"} /\ link' \in {"idle", "dialling", "up"}
    \/ UNCHANGED link

Start == Dialled /\ stopped' = FALSE /\ UNCHANGED port

(* The endpoint dials by itself after a loss, unless it was stopped.       *)
Redial == ~stopped /\ Dialled /\ UNCHANGED <<port, stopped>>

Wake == SendWakes /\ stopped' = FALSE /\ UNCHANGED <<link, port>>

Answered == link = "dialling" /\ link' = "up" /\ UNCHANGED <<port, stopped>>

Broken ==
    /\ link \in {"dialling", "up"}
    /\ link' = "idle"
    /\ UNCHANGED <<port, stopped>>

LearnPort ==
    /\ link # "closed"
    /\ port' \in BOOLEAN
    /\ link \in {"dialling", "up"} => port' = TRUE
    /\ UNCHANGED <<link, stopped>>

Close == link' = "closed" /\ port' = FALSE /\ UNCHANGED stopped

Stop == link' = "closed" /\ port' = FALSE /\ stopped' \in BOOLEAN

Next ==
    \/ Start \/ Redial \/ Wake
    \/ Answered \/ Broken \/ LearnPort
    \/ Close \/ Stop

Spec == Init /\ [][Next]_linkVars
=============================================================================
