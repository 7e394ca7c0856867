------------------------------ MODULE Routing -------------------------------
(***************************************************************************)
(* What the data path promises, without bytes, offsets, words and program  *)
(* points.  What becomes of a packet is decided in one step: it is left as *)
(* it is and passed on or dropped, or its three addresses rotate, it goes  *)
(* to the gateway of that moment, its header verifies, and its UDP         *)
(* checksum is as good or as bad as it was.  Only the network by which a   *)
(* packet was found not to be local may have been replaced by then.        *)
(* XdpRouter implements this; under a configuration that does not change   *)
(* it is the one-step router of Network.                                   *)
(***************************************************************************)
EXTENDS ConfigMaps

CONSTANTS
  Cpus,       \* CPUs that handle packets
  Packets,    \* packets that may arrive
  LinkLocal   \* addresses whose traffic is never forwarded

VARIABLES
  intended,   \* the configuration the controller last asked for
  networks,   \* per CPU: the local networks asked for since its packet arrived
  packet,     \* per CPU: its packet
  fate        \* per CPU: what became of the packet

Config == [local : NetAndMask, gateway : MacU64]

-----------------------------------------------------------------------------
Init ==
  /\ intended = [local |-> ZeroNetAndMask, gateway |-> ZeroMac]
  /\ networks = [c \in Cpus |-> {}]
  /\ packet = [c \in Cpus |-> <<>>]
  /\ fate = [c \in Cpus |-> "none"]

Arrive(c) ==
  /\ fate[c] = "none"
  /\ fate' = [fate EXCEPT ![c] = "open"]
  /\ packet'[c] \in Packets
  /\ packet' = [packet EXCEPT ![c] = packet'[c]]
  /\ networks' = [networks EXCEPT ![c] = {intended.local}]
  /\ UNCHANGED intended

\* The packet is left as it is.
Leave(c, verdict) ==
  /\ fate' = [fate EXCEPT ![c] = verdict]
  /\ UNCHANGED <<intended, networks, packet>>

\* A packet of another protocol, or from a host that is local by now.
Pass(c) ==
  /\ fate[c] = "open"
  /\ LET p == packet[c]
     IN  \/ p.kind = "other"
         \/ /\ p.kind \in {"short", "udp"}
            /\ p.src \in LinkLocal \/ InNetwork(p.src, intended.local)
  /\ Leave(c, "XDP_PASS")

\* A packet from outside a network in force since it arrived.
Foreign(c) ==
  /\ packet[c].src \notin LinkLocal
  /\ \E net \in networks[c] : ~InNetwork(packet[c].src, net)

\* A packet that is cut off, in its headers or before the address to go to.
Abort(c) ==
  /\ fate[c] = "open"
  /\ \/ packet[c].kind = "broken"
     \/ packet[c].kind = "short" /\ Foreign(c)
  /\ Leave(c, "XDP_ABORTED")

\* p on its way to the gateway.  A header with options may end up wrong.
Routed(p, mac) ==
  { [p EXCEPT !.src = p.dst, !.dst = p.payload, !.payload = p.src,
              !.eth_src = p.eth_dst, !.eth_dst = [i \in 1 .. 6 |-> mac[i + 2]],
              !.ip_ok = ok] : ok \in { b \in BOOLEAN : p.plain => b } }

Transmit(c) ==
  /\ fate[c] = "open"
  /\ packet[c].kind = "udp" /\ Foreign(c)
  /\ fate' = [fate EXCEPT ![c] = "XDP_TX"]
  /\ \E q \in Routed(packet[c], intended.gateway) : packet' = [packet EXCEPT ![c] = q]
  /\ UNCHANGED <<intended, networks>>

Finish(c) ==
  /\ fate[c] \notin {"none", "open"}
  /\ fate' = [fate EXCEPT ![c] = "none"]
  /\ packet' = [packet EXCEPT ![c] = <<>>]
  /\ networks' = [networks EXCEPT ![c] = {}]
  /\ UNCHANGED intended

Configure ==
  /\ intended' \in Config
  /\ networks' = [c \in Cpus |-> IF fate[c] = "none" THEN networks[c]
                                 ELSE networks[c] \cup {intended'.local}]
  /\ UNCHANGED <<packet, fate>>

Next ==
  \/ \E c \in Cpus : Arrive(c) \/ Pass(c) \/ Abort(c) \/ Transmit(c) \/ Finish(c)
  \/ Configure

Spec == Init /\ [][Next]_<<intended, networks, packet, fate>>
=============================================================================
