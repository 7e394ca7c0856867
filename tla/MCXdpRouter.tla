---------------------------- MODULE MCXdpRouter -----------------------------
(***************************************************************************)
(* A scaled-down network for the data path: addresses of 8 bits, words of  *)
(* 4 bits.  The high half of an address is its subnet: 1 for clients, 2    *)
(* for the router, 3 for servers, 10 link-local.                           *)
(***************************************************************************)
EXTENDS XdpRouter, FiniteSetsExt, TLC

AddrOf(n) == { b \in Bits : (n \div 2^b) % 2 = 1 }

\* The four bits of an address from bit b on, as a number.
Word4(a, b) ==
  LET Bit(i) == IF b + i \in a THEN 2^i ELSE 0
  IN  Bit(0) + Bit(1) + Bit(2) + Bit(3)

MCUpper == [a \in U32 |-> Word4(a, 4)]
MCLower == [a \in U32 |-> Word4(a, 0)]

Client == AddrOf(26)      \* subnet 1, host 10
Router == AddrOf(42)      \* subnet 2, host 10
Neighbour == AddrOf(33)   \* subnet 2, host 1
Server == AddrOf(63)      \* subnet 3, host 15
LinkLocal == AddrOf(161)  \* subnet 10, host 1

MCLinkLocalNet == AddrOf(160)
MCLinkLocalMask == AddrOf(240)

\* The router's subnet, the router and server subnets together, and the initial
\* zeroes.
MCLocalNets == { <<AddrOf(32), AddrOf(240)>>, <<AddrOf(32), AddrOf(224)>>, <<{}, {}>> }

\* A gateway with bits above the 48 of a MAC address, and the initial zeroes.
MCGatewayMacs == { <<2, 2, 0, 1, 0, 1, 0, 1>>, ZeroMac }

\* A sender's checksums: both good.
Sealed(p) ==
  [p EXCEPT !.ip_check = CHOOSE w \in Word :
                           Verifies(HeaderSum(Ipv4Header([p EXCEPT !.ip_check = w])) + p.ip_options),
            !.udp_check = CHOOSE w \in Word \ {0} :
                            Verifies(UdpSum([p EXCEPT !.udp_check = w]))]

Datagram(src, dst, payload) ==
  Sealed([len |-> 46,
          eth_dst |-> <<0, 0, 0, 0, 0, 1>>, eth_src |-> <<0, 0, 0, 0, 0, 2>>,
          ether_type |-> "Ipv4", proto |-> "Udp",
          ip_words |-> <<4, 15, 9, 0, 15>>, ip_check |-> 0,
          src |-> src, dst |-> dst, ip_options |-> 0,
          udp_check |-> 0, payload |-> payload, udp_rest |-> 23])

Request == Datagram(Client, Router, Server)
Response == Datagram(Server, Router, Client)

MCFrames ==
  { Request, Response,
    Datagram(Neighbour, Router, Client),
    Datagram(LinkLocal, Router, Client),
    Datagram(Client, Router, Router),
    [Request EXCEPT !.udp_check = 0],
    [Request EXCEPT !.udp_check = (@ % 15) + 1, !.ip_check = (@ + 1) % 16],
    [Request EXCEPT !.ether_type = "Other"],
    [Request EXCEPT !.proto = "Other"] }
  \cup { [Request EXCEPT !.len = n] : n \in {13, 33, 41, 45} }

\* A request, its response, and one that is cut off.
FewFrames == { Request, Response, [Request EXCEPT !.len = 45] }

\* A header with one option word pair, sealed with it.
FramesWithOptions == { Request, Sealed([Request EXCEPT !.ip_options = 20]) }

CpuSymmetry == Permutations(Cpus)
\* The statistics the controller reports: each counter added up over the CPUs.
read_metric(field) == MapThenSumSet(LAMBDA c : counters[c][field], Cpus)
get_stats ==
  [ total_packets |-> read_metric("total"),
    client_to_server_packets |-> read_metric("client_to_server"),
    server_to_client_packets |-> read_metric("server_to_client") ]

\* udp-router-tool prints total_packets as the "filter statistics"
\* (udp-router-tool/src/main.rs:16, 52): the packets the program has seen.
StatisticsCountPackets ==
  (\A c \in Cpus : pc[c] = "idle") =>
    get_stats.total_packets = received
=============================================================================
