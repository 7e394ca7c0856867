----------------------------- MODULE XdpRouter ------------------------------
(***************************************************************************)
(* The data path: the XDP program udp_router (udp-router-ebpf/src/main.rs) *)
(* running on every CPU, and the configuration maps it reads while the     *)
(* controller writes them.                                                 *)
(*                                                                         *)
(* A run of the program reads two maps, the local network in               *)
(* try_udp_router and the gateway in try_forward_packet.  Nothing keeps    *)
(* the controller from writing between the two reads, so a run takes two   *)
(* steps.  Everything else a run touches is its own packet.                *)
(*                                                                         *)
(* A packet is a record of the fields the program reads or writes, named   *)
(* for what it takes the bytes at that offset to be; words it never        *)
(* touches only matter through their share of the two checksums.           *)
(***************************************************************************)
EXTENDS Checksum, ConfigMaps, Packet

CONSTANTS
  Cpus,            \* CPUs that run the program
  Frames,          \* frames that may arrive
  upper, lower,    \* the two 16-bit halves of an address
  LinkLocalNet, LinkLocalMask,  \* 169.254.0.0 and 255.255.0.0
  LocalNets,       \* <<net, mask>> pairs the controller may write
  GatewayMacs,     \* gateway MAC addresses the controller may write
  MaxFrames        \* bound: frames received in a behavior

\* Sizes of the headers and of the address at the head of the payload.
EthHdrLen == 14
Ipv4HdrLen == 20
UdpHdrLen == 8
PayloadLen == 4

Frame ==
  [ len        : Nat,                \* data_end - data
    eth_dst    : EthAddr,
    eth_src    : EthAddr,
    ether_type : {"Ipv4", "Other"},
    proto      : {"Udp", "Other"},
    ip_words   : [1 .. 5 -> Word],   \* header words before the checksum
    ip_check   : Word,
    src        : U32,
    dst        : U32,
    ip_options : Nat,                \* sum of the option words, if any
    udp_check  : Word,               \* the word 40 bytes into the frame
    payload    : U32,                \* the word 42 bytes into the frame
    udp_rest   : Nat ]               \* sum of all other words UDP covers

ASSUME XdpAssumption ==
  /\ upper \in [U32 -> Word]
  /\ lower \in [U32 -> Word]
  /\ LinkLocalNet \in U32 /\ LinkLocalMask \in U32
  /\ LocalNets \subseteq U32 \X U32
  /\ GatewayMacs \subseteq MacU64
  /\ MaxFrames \in Nat
  /\ \A f \in Frames : f \in Frame

VARIABLES
  local,     \* LOCAL_NET_AND_MASK
  gateway,   \* GATEWAY_MAC_ADDRESS
  counters,  \* TOTAL_PACKETS, CLIENT_TO_SERVER_PACKETS, SERVER_TO_CLIENT_PACKETS
  pc,        \* per CPU: where its run of the program is
  pkt,       \* per CPU: the packet of the run
  verdict    \* per CPU: what the run returned

\* History, not part of the program.
VARIABLES
  orig,      \* per CPU: the packet as it arrived
  intended,  \* the configuration the controller last asked for
  inForce,   \* per CPU: the values asked for while its run lasted
  received   \* number of frames received

maps == <<local, gateway, counters>>
cpu == <<pc, pkt, verdict, orig>>
vars == <<maps, cpu, intended, inForce, received>>

Config == [local : NetAndMask, gateway : MacU64]
InForce == [local : SUBSET NetAndMask, gateway : SUBSET MacU64]
NothingInForce == [local |-> {}, gateway |-> {}]

\* The program declares the counters, and no statement of it writes them.
Counters == [total : Nat, client_to_server : Nat, server_to_client : Nat]

-----------------------------------------------------------------------------
\* ptr_at_mut: does [offset, offset + len) lie inside the packet?
ptr_at_mut(p, offset, len) == offset + len <= p.len

HasEth(p) == ptr_at_mut(p, 0, EthHdrLen)
HasIp(p) == ptr_at_mut(p, EthHdrLen, Ipv4HdrLen)
HasUdp(p) == ptr_at_mut(p, EthHdrLen + Ipv4HdrLen, UdpHdrLen)
HasPayload(p) ==
  ptr_at_mut(p, EthHdrLen + Ipv4HdrLen + UdpHdrLen, PayloadLen)

is_link_local_ip(ip) == ip \cap LinkLocalMask = LinkLocalNet

\* Mutants: the halves of the map value swapped; an unset map matches nothing.
is_from_local_network_Swapped(ip, net_and_mask) ==
  InNetwork(ip, [hi |-> net_and_mask.lo, lo |-> net_and_mask.hi])
is_from_local_network_ZeroIsUnset(ip, net_and_mask) ==
  net_and_mask # ZeroNetAndMask /\ InNetwork(ip, net_and_mask)

is_from_local_network(ip, net_and_mask) == InNetwork(ip, net_and_mask)

\* Traffic for the host itself, given the value of the local network map.
PassedThrough(p, net_and_mask) ==
  /\ HasEth(p)
  /\ \/ p.ether_type # "Ipv4"
     \/ /\ HasIp(p)
        /\ \/ p.proto # "Udp"
           \/ is_link_local_ip(p.src)
           \/ is_from_local_network(p.src, net_and_mask)

\* A header the program needs is cut off: ptr_at_mut returns an error.
CutShort(p) ==
  \/ ~HasEth(p)
  \/ p.ether_type = "Ipv4" /\ ~HasIp(p)

\* The header words calculate_ip_checksum adds up.
Ipv4Header(p) ==
  [i \in 1 .. 10 |-> CASE i <= 5 -> p.ip_words[i]
                       [] i = 6  -> p.ip_check
                       [] i = 7  -> upper[p.src]
                       [] i = 8  -> lower[p.src]
                       [] i = 9  -> upper[p.dst]
                       [] i = 10 -> lower[p.dst]]

\* The checksum after an address in the packet changes from old to new.
PatchAddr(csum, old, new) ==
  update_udp_checksum(update_udp_checksum(csum, upper[old], upper[new]),
                      lower[old], lower[new])

\* The UDP checksum after the writes of destination and source.
PatchedAddrs(p) == PatchAddr(PatchAddr(p.udp_check, p.dst, p.payload), p.src, p.dst)

\* MAC addresses and checksums of a packet whose addresses are rewritten.  The
\* IP checksum is recomputed over the rewritten header.
Rewritten(p, mac, csum) ==
  LET q == [p EXCEPT !.eth_src = p.eth_dst, !.eth_dst = get_gateway_mac_address(mac),
                     !.udp_check = csum]
  IN  [q EXCEPT !.ip_check = calculate_ip_checksum(Ipv4Header(q))]

\* Mutant: the last patch of the UDP checksum is forgotten.
Forwarded_NoPayloadPatch(p, mac) == Rewritten(Rotated(p), mac, PatchedAddrs(p))

\* The packet try_forward_packet sends, given the gateway map: the UDP checksum
\* is patched after each of the three writes.
Forwarded(p, mac) ==
  Rewritten(Rotated(p), mac, PatchAddr(PatchedAddrs(p), p.payload, p.src))

-----------------------------------------------------------------------------
Init ==
  /\ local = ZeroNetAndMask
  /\ gateway = ZeroMac
  /\ counters = [c \in Cpus |-> [total |-> 0, client_to_server |-> 0,
                                 server_to_client |-> 0]]
  /\ pc = [c \in Cpus |-> "idle"]
  /\ pkt = [c \in Cpus |-> <<>>]
  /\ verdict = [c \in Cpus |-> "none"]
  /\ orig = [c \in Cpus |-> <<>>]
  /\ intended = [local |-> ZeroNetAndMask, gateway |-> ZeroMac]
  /\ inForce = [c \in Cpus |-> NothingInForce]
  /\ received = 0

\* The driver hands a frame to the program.
Receive(c, f) ==
  /\ pc[c] = "idle"
  /\ received < MaxFrames
  /\ pc' = [pc EXCEPT ![c] = "try_udp_router"]
  /\ pkt' = [pkt EXCEPT ![c] = f]
  /\ orig' = [orig EXCEPT ![c] = f]
  /\ inForce' = [inForce EXCEPT ![c] = [local |-> {intended.local},
                                       gateway |-> {intended.gateway}]]
  /\ received' = received + 1
  /\ UNCHANGED <<maps, verdict, intended>>

\* The program returns v and leaves packet p.
Return(c, v, p) ==
  /\ pc' = [pc EXCEPT ![c] = "done"]
  /\ verdict' = [verdict EXCEPT ![c] = v]
  /\ pkt' = [pkt EXCEPT ![c] = p]

\* The three ways out of try_udp_router.
try_udp_router(c) ==
  /\ pc[c] = "try_udp_router"
  /\ \/ /\ CutShort(pkt[c])
        /\ Return(c, "XDP_ABORTED", pkt[c])
     \/ /\ PassedThrough(pkt[c], local)
        /\ Return(c, "XDP_PASS", pkt[c])
     \/ /\ ~CutShort(pkt[c]) /\ ~PassedThrough(pkt[c], local)
        /\ pc' = [pc EXCEPT ![c] = "try_forward_packet"]
        /\ UNCHANGED <<pkt, verdict>>
  /\ UNCHANGED <<maps, orig, intended, inForce, received>>

\* Forwards the packet, or leaves p when its UDP header or payload is cut off.
ForwardOr(c, p) ==
  /\ pc[c] = "try_forward_packet"
  /\ \/ /\ ~(HasUdp(pkt[c]) /\ HasPayload(pkt[c]))
        /\ Return(c, "XDP_ABORTED", p)
     \/ /\ HasUdp(pkt[c]) /\ HasPayload(pkt[c])
        /\ Return(c, "XDP_TX", Forwarded(pkt[c], gateway))
  /\ UNCHANGED <<maps, orig, intended, inForce, received>>

\* Mutant: the destination is written before the payload is known to be there.
try_forward_packet_WritesEarly(c) == ForwardOr(c, [pkt[c] EXCEPT !.dst = pkt[c].payload])

\* All pointers are checked before the first write to the packet.
try_forward_packet(c) == ForwardOr(c, pkt[c])

\* The driver acts on the verdict and the CPU is free again.
Complete(c) ==
  /\ pc[c] = "done"
  /\ pc' = [pc EXCEPT ![c] = "idle"]
  /\ pkt' = [pkt EXCEPT ![c] = <<>>]
  /\ orig' = [orig EXCEPT ![c] = <<>>]
  /\ verdict' = [verdict EXCEPT ![c] = "none"]
  /\ inForce' = [inForce EXCEPT ![c] = NothingInForce]
  /\ UNCHANGED <<maps, intended, received>>

\* The controller asks for cfg: runs in progress may see it from now on.
Intend(cfg) ==
  /\ intended' = cfg
  /\ inForce' = [c \in Cpus |-> IF pc[c] = "idle" THEN inForce[c]
                                ELSE [local |-> inForce[c].local \cup {cfg.local},
                                      gateway |-> inForce[c].gateway \cup {cfg.gateway}]]

\* A write of one array element, and what the controller meant it to do.
Write(newLocal, newGateway, cfg) ==
  /\ local' = newLocal /\ gateway' = newGateway
  /\ Intend(cfg)
  /\ UNCHANGED <<counters, cpu, received>>

\* Mutants: net and mask in two writes; the write of the gateway fails and
\* nobody notices.
set_local_net_mask_Torn(net, mask) ==
  \/ Write(Pack(net, mask), gateway, [intended EXCEPT !.local = [hi |-> net, lo |-> mask]])
  \/ Write(Pack(net, local.lo), gateway, intended)
set_gateway_mac_address_Lost(mac) ==
  Write(local, gateway, [intended EXCEPT !.gateway = mac])

\* The controller's writes.
set_local_net_mask(net, mask) ==
  Write(Pack(net, mask), gateway, [intended EXCEPT !.local = [hi |-> net, lo |-> mask]])

set_gateway_mac_address(mac) == Write(local, mac, [intended EXCEPT !.gateway = mac])

Next ==
  \/ \E c \in Cpus : \/ \E f \in Frames : Receive(c, f)
                     \/ try_udp_router(c)
                     \/ try_forward_packet(c)
                     \/ Complete(c)
  \/ \E nm \in LocalNets : set_local_net_mask(nm[1], nm[2])
  \/ \E mac \in GatewayMacs : set_gateway_mac_address(mac)

Spec == Init /\ [][Next]_vars

-----------------------------------------------------------------------------
\* Every variable has its type; a busy CPU has a packet.
TypeOK ==
  /\ local \in NetAndMask
  /\ gateway \in MacU64
  /\ counters \in [Cpus -> Counters]
  /\ pc \in [Cpus -> {"idle", "try_udp_router", "try_forward_packet", "done"}]
  /\ verdict \in [Cpus -> {"none", "XDP_PASS", "XDP_ABORTED", "XDP_TX"}]
  /\ DOMAIN pkt = Cpus /\ DOMAIN orig = Cpus
  /\ \A c \in Cpus : pc[c] # "idle" => pkt[c] \in Frame /\ orig[c] \in Frame
  /\ intended \in Config
  /\ inForce \in [Cpus -> InForce]
  /\ received \in Nat

Transmitted(c) == pc[c] = "done" /\ verdict[c] = "XDP_TX"

\* The packets the configuration decides about: complete, IPv4, UDP, and not
\* link-local (main.rs:86-100).
Routable(p) ==
  /\ p.ether_type = "Ipv4" /\ p.proto = "Udp"
  /\ HasPayload(p)
  /\ ~is_link_local_ip(p.src)

(***************************************************************************)
(* A verdict is the right one for some configuration the controller asked  *)
(* for while the run lasted: never for a mixture of an old network and a   *)
(* new mask, never for one that was replaced before the packet arrived.    *)
(* This is what packing net and mask into one u64 is for                   *)
(* (bpf_actor.rs:163, main.rs:115-119).                                    *)
(***************************************************************************)
VerdictJustified ==
  \A c \in Cpus :
    pc[c] = "done" /\ Routable(orig[c]) =>
      \E net_and_mask \in inForce[c].local :
        verdict[c] = IF InNetwork(orig[c].src, net_and_mask)
                     THEN "XDP_PASS" ELSE "XDP_TX"

\* Until the controller has asked for a local network nothing is forwarded:
\* a map of zeroes makes every source local (main.rs:119).
NothingForwardedUnconfigured ==
  \A c \in Cpus :
    Transmitted(c) => inForce[c].local # {ZeroNetAndMask}

\* A forwarded frame goes from the router's own MAC to a gateway the
\* controller asked for while the run lasted (main.rs:199-202, 217-220).
SentToGatewayInForce ==
  \A c \in Cpus :
    Transmitted(c) =>
      /\ pkt[c].eth_src = orig[c].eth_dst
      /\ \E mac \in inForce[c].gateway :
           \A i \in 1 .. 6 : pkt[c].eth_dst[i] = mac[i + 2]

\* A packet the program does not transmit leaves it byte for byte as it came,
\* also when the run fails half way (main.rs:131-142 before 160).
OnlyForwardedPacketsChange ==
  \A c \in Cpus : pc[c] # "idle" /\ ~Transmitted(c) => pkt[c] = orig[c]

\* Sum of the words the UDP checksum covers, and whether a receiver takes it.
UdpSum(p) ==
  upper[p.src] + lower[p.src] + upper[p.dst] + lower[p.dst]
    + upper[p.payload] + lower[p.payload] + p.udp_rest + p.udp_check
UdpAccepted(p) == p.udp_check = 0 \/ Verifies(UdpSum(p))

(***************************************************************************)
(* A forwarded packet without IP options has a good IP checksum, and a UDP *)
(* checksum that is good exactly when the sender's was: the router neither *)
(* breaks a datagram nor hides that one was broken (main.rs:204-211).      *)
(***************************************************************************)
ChecksumsFixed ==
  \A c \in Cpus :
    Transmitted(c) /\ orig[c].ip_options = 0 =>
      /\ Verifies(HeaderSum(Ipv4Header(pkt[c])))
      /\ UdpAccepted(pkt[c]) <=> UdpAccepted(orig[c])

\* README.md:8-11: the backend that a client named gets the packet, and when
\* it answers, the router sends the answer to that client, from the address
\* the client had used, with the backend's address back in the payload.
ResponseReachesClient ==
  \A c \in Cpus :
    Transmitted(c) =>
      LET response == Forwarded(Echo(pkt[c]), gateway)
      IN  /\ pkt[c].dst = orig[c].payload
          /\ response.dst = orig[c].src
          /\ response.src = orig[c].dst
          /\ response.payload = orig[c].payload

(***************************************************************************)
(* Why the properties hold, as an inductive invariant: the maps hold what  *)
(* the controller asked for, and each run has so far only used values that *)
(* were in force since its packet arrived.                                 *)
(***************************************************************************)
MapsAsIntended == local = intended.local /\ gateway = intended.gateway

IntendedInForce(c) ==
  pc[c] # "idle" => /\ intended.local \in inForce[c].local
                    /\ intended.gateway \in inForce[c].gateway

\* p is complete enough to be routed, and non-local for a value in force.
Accepted(c, p) ==
  /\ ~CutShort(p)
  /\ p.ether_type = "Ipv4" /\ p.proto = "Udp" /\ ~is_link_local_ip(p.src)
  /\ \E net_and_mask \in inForce[c].local : ~InNetwork(p.src, net_and_mask)

RunInv(c) ==
  /\ pc[c] = "try_udp_router" => pkt[c] = orig[c]
  /\ pc[c] = "try_forward_packet" => pkt[c] = orig[c] /\ Accepted(c, orig[c])
  /\ pc[c] = "done" =>
       \/ /\ verdict[c] = "XDP_ABORTED"
          /\ pkt[c] = orig[c]
          /\ ~Routable(orig[c])
       \/ /\ verdict[c] = "XDP_PASS"
          /\ pkt[c] = orig[c]
          /\ Routable(orig[c]) => \E net_and_mask \in inForce[c].local :
                                    InNetwork(orig[c].src, net_and_mask)
       \/ /\ verdict[c] = "XDP_TX"
          /\ Accepted(c, orig[c])
          /\ \E mac \in inForce[c].gateway : pkt[c] = Forwarded(orig[c], mac)

IndInv ==
  /\ TypeOK
  /\ MapsAsIntended
  /\ \A c \in Cpus : IntendedInForce(c) /\ RunInv(c)

\* main.rs:205: "Step 4: Fix checksums".  The header of a forwarded packet is
\* accepted by the next hop, with its options if it has any.
IpHeaderAccepted ==
  \A c \in Cpus :
    Transmitted(c) =>
      Verifies(HeaderSum(Ipv4Header(pkt[c])) + pkt[c].ip_options)

-----------------------------------------------------------------------------
(***************************************************************************)
(* The data path implements Routing.  A packet is seen as its addresses,   *)
(* where it ends, and whether a receiver takes its checksums; a run that   *)
(* has found its packet not to be local has not decided yet.               *)
(***************************************************************************)
View(p) ==
  [ kind |-> IF CutShort(p) THEN "broken"
             ELSE IF p.ether_type # "Ipv4" \/ p.proto # "Udp" THEN "other"
             ELSE IF HasUdp(p) /\ HasPayload(p) THEN "udp" ELSE "short",
    src |-> p.src, dst |-> p.dst, payload |-> p.payload,
    eth_src |-> p.eth_src, eth_dst |-> p.eth_dst,
    plain |-> p.ip_options = 0,
    ip_ok |-> Verifies(HeaderSum(Ipv4Header(p)) + p.ip_options),
    udp_ok |-> UdpAccepted(p) ]

Views == { View(f) : f \in Frames }
LinkLocalAddresses == { ip \in U32 : is_link_local_ip(ip) }

Networks == [c \in Cpus |-> inForce[c].local]
PacketView == [c \in Cpus |-> IF pc[c] = "idle" THEN <<>> ELSE View(pkt[c])]
Fate == [c \in Cpus |-> CASE pc[c] = "idle" -> "none"
                          [] pc[c] = "done" -> verdict[c]
                          [] OTHER -> "open"]

Contract == INSTANCE Routing WITH
  Packets <- Views, LinkLocal <- LinkLocalAddresses,
  networks <- Networks, packet <- PacketView, fate <- Fate

\* Every step of the program, on any CPU and between any two writes of the
\* controller, is a step of that router or invisible to it: no half-rewritten
\* packet is ever there to be seen, and a verdict and the packet it is about
\* are decided together (main.rs:77-214).
ImplementsRouting == Contract!Spec
=============================================================================
