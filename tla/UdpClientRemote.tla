-------------------------- MODULE UdpClientRemote ---------------------------
(***************************************************************************)
(* Whom the UDP client talks to.                                           *)
(*                                                                         *)
(* receive() hands remote_, the address that the client was configured     *)
(* with and that connect() uses, to async_receive_from as the place for    *)
(* the sender's address: every datagram received overwrites it.  This      *)
(* module adds the addresses to UdpClientEndpoint, whose steps stay as     *)
(* they are.                                                               *)
(***************************************************************************)
EXTENDS UdpClientEndpoint

CONSTANTS Peer,       (* the address given to the constructor              *)
          Strangers,  (* other senders                                     *)
          Nobody

ASSUME PeersAssumption == Peer \notin Strangers /\ Nobody \notin Strangers \cup {Peer}

VARIABLES remote,  (* remote_                                              *)
          target,  (* whom the kernel connected the socket to              *)
          strays,  (* strangers whose datagram lies in the socket's buffer, *)
                   (* since it came between bind() and connect()           *)
          exposed  (* history: a socket with a port was left unconnected,  *)
                   (* or a stray datagram came                             *)

remoteVars == <<vars, remote, target, strays, exposed>>

RemoteInit ==
    Init /\ remote = Peer /\ target = Nobody /\ strays = {} /\ exposed = FALSE

(* A socket that becomes connected is connected to remote_; another one to *)
(* nobody.                                                                 *)
Addressed ==
    /\ UNCHANGED remote
    /\ \/ sock' = sock /\ UNCHANGED <<target, strays>>
       \/ /\ sock' # sock /\ sock' = "connected"
          /\ target' = remote
          /\ strays' \in SUBSET Strangers
       \/ /\ sock' # sock /\ sock' # "connected"
          /\ target' = Nobody
          /\ strays' = {}
    /\ exposed' = (exposed \/ strays' # {} \/ sock' = "unconnected")

(* A connected socket takes datagrams from its target, and the strays; an  *)
(* unconnected one from everybody.  The kernel writes the sender down.     *)
ReceivedFrom_unfiltered(sender) ==
    /\ DatagramArrives
    /\ sender \in Strangers \cup {Peer}
    /\ remote' = sender
    /\ strays' = strays \ {sender}
    /\ UNCHANGED <<target, exposed>>

ReceivedFrom(sender) ==
    /\ DatagramArrives
    /\ sender \in IF sock = "connected" THEN {target} \cup strays
                  ELSE Strangers \cup {Peer}
    /\ remote' = sender
    /\ strays' = strays \ {sender}
    /\ UNCHANGED <<target, exposed>>

RemoteNext ==
    \/ /\ \/ \E w \in Workers : Worker(w)
          \/ \E t \in Callers : Caller(t)
          \/ PeerRefuses \/ SendDone
       /\ Addressed
    \/ \E sender \in Strangers \cup {Peer} : ReceivedFrom(sender)

RemoteSpec == RemoteInit /\ [][RemoteNext]_remoteVars

-----------------------------------------------------------------------------
(* "const endpoint_type remote_": a client that reconnects, connects to the *)
(* peer it was made for.                                                    *)
ConnectsToItsPeer == target \in {Peer, Nobody}

(* Overwriting remote_ does no harm while every connect() succeeds and no   *)
(* datagram slips in between bind() and connect(): the kernel passes only   *)
(* datagrams of the peer, over any number of stops, losses and reconnects.  *)
PeerKeptUnlessExposed == ~exposed => remote = Peer /\ target \in {Peer, Nobody}
=============================================================================
