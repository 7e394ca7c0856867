--------------------------- MODULE XdpRouterProofs --------------------------
(***************************************************************************)
(* The data path's properties for any number of CPUs, any frames, any      *)
(* address and word size and any sequence of configurations.               *)
(***************************************************************************)
EXTENDS XdpRouter, ChecksumProofs

LEMMA PatchAddrType ==
  ASSUME NEW csum \in Word, NEW old \in U32, NEW new \in U32
  PROVE  PatchAddr(csum, old, new) \in Word
  BY UpdateType, XdpAssumption DEF PatchAddr

\* The three patches of try_forward_packet leave the UDP checksum as it was.
LEMMA PatchCycle ==
  ASSUME NEW csum \in Word, NEW d \in U32, NEW s \in U32, NEW p \in U32
  PROVE  PatchAddr(PatchAddr(PatchAddr(csum, d, p), s, d), p, s) = csum
  <1>. DEFINE U1(x) == update_udp_checksum(x, upper[d], upper[p])
              U2(x) == update_udp_checksum(x, upper[s], upper[d])
              U3(x) == update_udp_checksum(x, upper[p], upper[s])
              L1(x) == update_udp_checksum(x, lower[d], lower[p])
              L2(x) == update_udp_checksum(x, lower[s], lower[d])
              L3(x) == update_udp_checksum(x, lower[p], lower[s])
  <1>1. /\ upper[d] \in Word /\ upper[s] \in Word /\ upper[p] \in Word
        /\ lower[d] \in Word /\ lower[s] \in Word /\ lower[p] \in Word
    BY XdpAssumption
  <1>2. \A x \in Word : /\ U1(x) \in Word /\ U2(x) \in Word /\ U3(x) \in Word
                       /\ L1(x) \in Word /\ L2(x) \in Word /\ L3(x) \in Word
    BY <1>1, UpdateType
  <1>3. \A x \in Word : /\ U2(L1(x)) = L1(U2(x))
                       /\ U3(L1(x)) = L1(U3(x))
                       /\ U3(L2(x)) = L2(U3(x))
    BY <1>1, UpdateCommutes
  <1>4. \A x \in Word : U3(U2(U1(x))) = x /\ L3(L2(L1(x))) = x
    BY <1>1, UpdateCycle
  <1>5. PatchAddr(PatchAddr(PatchAddr(csum, d, p), s, d), p, s)
          = L3(U3(L2(U2(L1(U1(csum))))))
    BY DEF PatchAddr
  <1>. HIDE DEF U1, U2, U3, L1, L2, L3
  <1>6. U2(L1(U1(csum))) = L1(U2(U1(csum)))
    BY <1>2, <1>3
  <1>7. U3(L2(L1(U2(U1(csum))))) = L2(L1(U3(U2(U1(csum)))))
    BY <1>2, <1>3
  <1>8. QED
    BY <1>4, <1>5, <1>6, <1>7

\* The header words of a packet are words.
LEMMA Ipv4HeaderType ==
  ASSUME NEW p \in Frame
  PROVE  /\ Ipv4Header(p) \in Header
         /\ HeaderSum(Ipv4Header(p)) =
              p.ip_words[1] + p.ip_words[2] + p.ip_words[3] + p.ip_words[4]
                + p.ip_words[5] + p.ip_check
                + upper[p.src] + lower[p.src] + upper[p.dst] + lower[p.dst]
         /\ Ipv4Header(p)[6] = p.ip_check
  <1>1. /\ p.ip_check \in Word
        /\ p.ip_words \in [1 .. 5 -> Word]
        /\ upper[p.src] \in Word /\ lower[p.src] \in Word
        /\ upper[p.dst] \in Word /\ lower[p.dst] \in Word
    BY XdpAssumption DEF Frame
  <1>2. \A i \in 1 .. 10 : Ipv4Header(p)[i] \in Word
    BY <1>1 DEF Ipv4Header
  <1>3. Ipv4Header(p) \in Header
    BY <1>2 DEF Ipv4Header, Header
  <1>4. QED
    BY <1>3 DEF Ipv4Header, HeaderSum

\* The fields that are not addresses and not checksums stay.
SameShape(p, q) ==
  /\ q.len = p.len
  /\ q.ether_type = p.ether_type /\ q.proto = p.proto
  /\ q.ip_options = p.ip_options

(***************************************************************************)
(* What try_forward_packet does to a packet: source, destination and       *)
(* payload rotate, the IP checksum becomes right and the UDP checksum      *)
(* stays what it was.                                                      *)
(***************************************************************************)
LEMMA ForwardedFields ==
  ASSUME NEW p \in Frame, NEW mac \in MacU64
  PROVE  /\ Forwarded(p, mac) \in Frame
         /\ Forwarded(p, mac).src = p.dst
         /\ Forwarded(p, mac).dst = p.payload
         /\ Forwarded(p, mac).payload = p.src
         /\ Forwarded(p, mac).eth_src = p.eth_dst
         /\ Forwarded(p, mac).eth_dst = get_gateway_mac_address(mac)
         /\ Forwarded(p, mac).udp_check = p.udp_check
         /\ Forwarded(p, mac).udp_rest = p.udp_rest
         /\ SameShape(p, Forwarded(p, mac))
         /\ Verifies(HeaderSum(Ipv4Header(Forwarded(p, mac))))
  <1>. DEFINE r == Rotated(p)
              q == [r EXCEPT !.eth_src = r.eth_dst, !.eth_dst = get_gateway_mac_address(mac),
                             !.udp_check = p.udp_check]
              check == calculate_ip_checksum(Ipv4Header(q))
              f == [q EXCEPT !.ip_check = check]
  <1>1. get_gateway_mac_address(mac) \in EthAddr
    BY DEF get_gateway_mac_address, MacU64, EthAddr
  <1>2. /\ q \in Frame
        /\ q.src = p.dst /\ q.dst = p.payload /\ q.payload = p.src
        /\ q.eth_src = p.eth_dst /\ q.eth_dst = get_gateway_mac_address(mac)
        /\ q.udp_rest = p.udp_rest /\ q.udp_check = p.udp_check
        /\ SameShape(p, q)
    <2>1. /\ r \in Frame
          /\ r.src = p.dst /\ r.dst = p.payload /\ r.payload = p.src
          /\ r.eth_dst = p.eth_dst /\ r.udp_rest = p.udp_rest
          /\ SameShape(p, r)
      BY DEF Rotated, Frame, SameShape
    <2>2. p.udp_check \in Word /\ p.eth_dst \in EthAddr
      BY DEF Frame
    <2>. HIDE DEF r
    <2>3. QED
      BY <1>1, <2>1, <2>2 DEF Frame, SameShape
  <1>3. Forwarded(p, mac) = f
    <2>1. p.udp_check \in Word /\ p.dst \in U32 /\ p.src \in U32 /\ p.payload \in U32
      BY DEF Frame
    <2>2. PatchAddr(PatchAddr(PatchAddr(p.udp_check, p.dst, p.payload),
                              p.src, p.dst), p.payload, p.src) = p.udp_check
      BY <2>1, PatchCycle
    <2>3. QED
      BY <2>2 DEF Forwarded, Rewritten, PatchedAddrs
  <1>. HIDE DEF q
  <1>4. /\ check \in Word
        /\ Verifies((HeaderSum(Ipv4Header(q)) - Ipv4Header(q)[6]) + check)
    BY <1>2, Ipv4HeaderType, IpChecksumVerifies
  <1>. HIDE DEF check
  <1>5. p.udp_check \in Word
    BY DEF Frame
  <1>6. /\ f \in Frame
        /\ f.src = q.src /\ f.dst = q.dst /\ f.payload = q.payload
        /\ f.eth_src = q.eth_src /\ f.eth_dst = q.eth_dst
        /\ f.udp_check = p.udp_check /\ f.udp_rest = q.udp_rest
        /\ f.ip_check = check /\ f.ip_words = q.ip_words
        /\ SameShape(p, f)
    BY <1>2, <1>4, <1>5 DEF Frame, SameShape
  <1>. HIDE DEF f
  <1>7. HeaderSum(Ipv4Header(f)) = (HeaderSum(Ipv4Header(q)) - Ipv4Header(q)[6]) + check
    <2>1. /\ q.ip_check \in Word /\ check \in Word
          /\ q.ip_words \in [1 .. 5 -> Word]
          /\ upper[q.src] \in Word /\ lower[q.src] \in Word
          /\ upper[q.dst] \in Word /\ lower[q.dst] \in Word
      BY <1>2, <1>4, XdpAssumption DEF Frame
    <2>. DEFINE rest == q.ip_words[1] + q.ip_words[2] + q.ip_words[3] + q.ip_words[4]
                          + q.ip_words[5]
    <2>2. rest \in Int /\ q.ip_check \in Int /\ check \in Int
      BY <2>1, WordModAssumption DEF Word
    <2>3. /\ HeaderSum(Ipv4Header(q)) = rest + q.ip_check
                 + upper[q.src] + lower[q.src] + upper[q.dst] + lower[q.dst]
          /\ Ipv4Header(q)[6] = q.ip_check
      BY <1>2, Ipv4HeaderType
    <2>4. HeaderSum(Ipv4Header(f)) = rest + check
                 + upper[q.src] + lower[q.src] + upper[q.dst] + lower[q.dst]
      BY <1>6, Ipv4HeaderType
    <2>5. /\ upper[q.src] \in Int /\ lower[q.src] \in Int
          /\ upper[q.dst] \in Int /\ lower[q.dst] \in Int
      BY <2>1, WordModAssumption DEF Word
    <2>. HIDE DEF rest
    <2>6. QED
      BY <2>2, <2>3, <2>4, <2>5
  <1>8. QED
    BY <1>2, <1>3, <1>4, <1>6, <1>7

-----------------------------------------------------------------------------
LEMMA InitInd == Init => IndInv
  <1>. SUFFICES ASSUME Init PROVE IndInv
    OBVIOUS
  <1>1. ZeroNetAndMask \in NetAndMask /\ ZeroMac \in MacU64
    BY BytesAssumption DEF ZeroNetAndMask, NetAndMask, ZeroMac, MacU64, U32
  <1>2. TypeOK
    BY <1>1 DEF Init, TypeOK, Counters, Config, InForce, NothingInForce
  <1>3. QED
    BY <1>2 DEF Init, IndInv, MapsAsIntended, IntendedInForce, RunInv

\* A step of one CPU leaves what the invariant says of the others alone.
LEMMA OtherCpus ==
  ASSUME NEW c \in Cpus, NEW d \in Cpus, IntendedInForce(d), RunInv(d),
         pc'[d] = pc[d], pkt'[d] = pkt[d], orig'[d] = orig[d],
         verdict'[d] = verdict[d], inForce'[d] = inForce[d],
         intended' = intended
  PROVE  IntendedInForce(d)' /\ RunInv(d)'
  BY DEF IntendedInForce, RunInv, Accepted, Routable

LEMMA ReceiveInd ==
  ASSUME IndInv, NEW c \in Cpus, NEW f \in Frames, Receive(c, f)
  PROVE  IndInv'
  <1>1. f \in Frame
    BY XdpAssumption
  <1>2. TypeOK'
    BY <1>1 DEF IndInv, TypeOK, Receive, maps, Config, InForce
  <1>3. MapsAsIntended'
    BY DEF IndInv, MapsAsIntended, Receive, maps
  <1>4. ASSUME NEW d \in Cpus PROVE IntendedInForce(d)' /\ RunInv(d)'
    <2>1. CASE d = c
      BY <2>1 DEF IndInv, TypeOK, Receive, IntendedInForce, RunInv
    <2>2. CASE d # c
      BY <2>2, OtherCpus DEF IndInv, TypeOK, Receive
    <2>3. QED
      BY <2>1, <2>2
  <1>5. QED
    BY <1>2, <1>3, <1>4 DEF IndInv

LEMMA TryUdpRouterInd ==
  ASSUME IndInv, NEW c \in Cpus, try_udp_router(c)
  PROVE  IndInv'
  <1>. USE DEF try_udp_router, maps
  <1>1. TypeOK'
    BY DEF IndInv, TypeOK, Return
  <1>2. MapsAsIntended'
    BY DEF IndInv, MapsAsIntended
  <1>3. ASSUME NEW d \in Cpus PROVE IntendedInForce(d)' /\ RunInv(d)'
    <2>1. CASE d = c
      <3>. DEFINE p == orig[c]
      <3>1. /\ pkt[c] = p /\ p \in Frame
            /\ local \in inForce[c].local
            /\ pc[c] = "try_udp_router"
        BY DEF IndInv, RunInv, IntendedInForce, MapsAsIntended, TypeOK
      <3>2. /\ p.len \in Nat
            /\ p.ether_type \in {"Ipv4", "Other"} /\ p.proto \in {"Udp", "Other"}
        BY <3>1 DEF Frame
      <3>3. IntendedInForce(c)'
        BY DEF IndInv, IntendedInForce, TypeOK, Return
      <3>4. CASE CutShort(p) /\ Return(c, "XDP_ABORTED", pkt[c])
        <4>1. ~Routable(p)
          BY <3>2, <3>4 DEF CutShort, Routable, HasEth, HasIp, HasPayload, ptr_at_mut,
               EthHdrLen, Ipv4HdrLen, UdpHdrLen, PayloadLen
        <4>2. QED
          BY <2>1, <3>1, <3>3, <3>4, <4>1 DEF IndInv, TypeOK, Return, RunInv, Routable
      <3>5. CASE PassedThrough(p, local) /\ Return(c, "XDP_PASS", pkt[c])
        <4>1. Routable(p) => InNetwork(p.src, local)
          BY <3>5 DEF PassedThrough, Routable, is_from_local_network
        <4>2. QED
          BY <2>1, <3>1, <3>3, <3>5, <4>1 DEF IndInv, TypeOK, Return, RunInv, Routable
      <3>6. CASE /\ ~CutShort(p) /\ ~PassedThrough(p, local)
                 /\ pc' = [pc EXCEPT ![c] = "try_forward_packet"]
                 /\ UNCHANGED <<pkt, verdict>>
        <4>1. /\ p.ether_type = "Ipv4" /\ p.proto = "Udp" /\ ~is_link_local_ip(p.src)
              /\ ~InNetwork(p.src, local)
          BY <3>2, <3>6 DEF PassedThrough, CutShort, is_from_local_network
        <4>2. Accepted(c, p)'
          BY <3>1, <3>6, <4>1 DEF Accepted
        <4>3. QED
          BY <2>1, <3>1, <3>3, <3>6, <4>2 DEF IndInv, TypeOK, RunInv
      <3>7. QED
        BY <3>1, <3>4, <3>5, <3>6
    <2>2. CASE d # c
      BY <2>2, OtherCpus DEF IndInv, TypeOK, Return
    <2>3. QED
      BY <2>1, <2>2
  <1>4. QED
    BY <1>1, <1>2, <1>3 DEF IndInv

LEMMA TryForwardPacketInd ==
  ASSUME IndInv, NEW c \in Cpus, try_forward_packet(c)
  PROVE  IndInv'
  <1>. USE DEF try_forward_packet, ForwardOr, maps
  <1>1. /\ pkt[c] = orig[c] /\ orig[c] \in Frame /\ Accepted(c, orig[c])
        /\ gateway \in inForce[c].gateway /\ gateway \in MacU64
        /\ pc[c] = "try_forward_packet"
    BY DEF IndInv, RunInv, IntendedInForce, MapsAsIntended, TypeOK
  <1>2. Forwarded(pkt[c], gateway) \in Frame
    BY <1>1, ForwardedFields
  <1>3. TypeOK'
    BY <1>2 DEF IndInv, TypeOK, Return
  <1>4. MapsAsIntended'
    BY DEF IndInv, MapsAsIntended
  <1>5. ASSUME NEW d \in Cpus PROVE IntendedInForce(d)' /\ RunInv(d)'
    <2>1. CASE d = c
      <3>1. IntendedInForce(c)'
        BY DEF IndInv, IntendedInForce, TypeOK, Return
      <3>2. CASE /\ ~(HasUdp(pkt[c]) /\ HasPayload(pkt[c]))
                 /\ Return(c, "XDP_ABORTED", pkt[c])
        <4>1. orig[c].len \in Nat
          BY <1>1 DEF Frame
        <4>2. ~HasPayload(orig[c])
          BY <1>1, <3>2, <4>1 DEF HasUdp, HasPayload, ptr_at_mut,
               EthHdrLen, Ipv4HdrLen, UdpHdrLen, PayloadLen
        <4>3. QED
          BY <1>1, <2>1, <3>1, <3>2, <4>2 DEF IndInv, TypeOK, Return, RunInv, Routable
      <3>3. CASE Return(c, "XDP_TX", Forwarded(pkt[c], gateway))
        <4>1. Accepted(c, orig[c])'
          BY <1>1, <3>3 DEF Accepted, Return
        <4>2. /\ pkt'[c] = Forwarded(orig[c], gateway)
              /\ pc'[c] = "done" /\ verdict'[c] = "XDP_TX"
          BY <1>1, <3>3 DEF IndInv, TypeOK, Return
        <4>3. QED
          BY <1>1, <2>1, <3>1, <3>3, <4>1, <4>2 DEF RunInv
      <3>4. QED
        BY <3>2, <3>3
    <2>2. CASE d # c
      BY <2>2, OtherCpus DEF IndInv, TypeOK, Return
    <2>3. QED
      BY <2>1, <2>2
  <1>6. QED
    BY <1>3, <1>4, <1>5 DEF IndInv

LEMMA CompleteInd ==
  ASSUME IndInv, NEW c \in Cpus, Complete(c)
  PROVE  IndInv'
  <1>. USE DEF Complete, maps
  <1>1. TypeOK'
    BY DEF IndInv, TypeOK, InForce, NothingInForce
  <1>2. MapsAsIntended'
    BY DEF IndInv, MapsAsIntended
  <1>3. ASSUME NEW d \in Cpus PROVE IntendedInForce(d)' /\ RunInv(d)'
    <2>1. CASE d = c
      BY <2>1 DEF IndInv, TypeOK, IntendedInForce, RunInv
    <2>2. CASE d # c
      BY <2>2, OtherCpus DEF IndInv, TypeOK
    <2>3. QED
      BY <2>1, <2>2
  <1>4. QED
    BY <1>1, <1>2, <1>3 DEF IndInv

\* A new configuration only adds to what is in force.
LEMMA IntendInd ==
  ASSUME IndInv, NEW cfg \in Config, Intend(cfg), UNCHANGED cpu,
         NEW d \in Cpus
  PROVE  IntendedInForce(d)' /\ RunInv(d)' /\ inForce'[d] \in InForce
  <1>1. /\ inForce[d] \in InForce
        /\ pc[d] # "idle" => inForce'[d] =
             [local |-> inForce[d].local \cup {cfg.local},
              gateway |-> inForce[d].gateway \cup {cfg.gateway}]
        /\ pc[d] = "idle" => inForce'[d] = inForce[d]
    BY DEF IndInv, TypeOK, Intend
  <1>2. /\ inForce'[d] \in InForce
        /\ inForce[d].local \subseteq inForce'[d].local
        /\ inForce[d].gateway \subseteq inForce'[d].gateway
    <2>1. CASE pc[d] = "idle"
      BY <1>1, <2>1
    <2>2. CASE pc[d] # "idle"
      <3>1. cfg.local \in NetAndMask /\ cfg.gateway \in MacU64
        BY DEF Config
      <3>2. QED
        BY <1>1, <2>2, <3>1 DEF InForce
    <2>3. QED
      BY <2>1, <2>2
  <1>3. IntendedInForce(d)'
    BY <1>1 DEF IntendedInForce, Intend, cpu, InForce
  <1>4. Accepted(d, orig[d]) => Accepted(d, orig[d])'
    BY <1>2 DEF Accepted, cpu
  <1>5. RunInv(d)'
    BY <1>2, <1>4 DEF IndInv, RunInv, cpu, Routable
  <1>6. QED
    BY <1>2, <1>3, <1>5

LEMMA SetLocalInd ==
  ASSUME IndInv, NEW net \in U32, NEW mask \in U32, set_local_net_mask(net, mask)
  PROVE  IndInv'
  <1>. DEFINE cfg == [intended EXCEPT !.local = [hi |-> net, lo |-> mask]]
  <1>1. cfg \in Config /\ Intend(cfg) /\ UNCHANGED cpu
    BY DEF IndInv, TypeOK, set_local_net_mask, Write, Config, NetAndMask
  <1>2. \A d \in Cpus : IntendedInForce(d)' /\ RunInv(d)' /\ inForce'[d] \in InForce
    BY <1>1, IntendInd
  <1>3. inForce' \in [Cpus -> InForce]
    BY <1>1, <1>2 DEF Intend
  <1>4. TypeOK'
    BY <1>1, <1>3 DEF IndInv, TypeOK, set_local_net_mask, Write, cpu, Intend, Pack, NetAndMask
  <1>5. MapsAsIntended'
    BY DEF IndInv, TypeOK, MapsAsIntended, set_local_net_mask, Write, Intend, Pack, Config
  <1>6. QED
    BY <1>2, <1>4, <1>5 DEF IndInv

LEMMA SetGatewayInd ==
  ASSUME IndInv, NEW mac \in MacU64, set_gateway_mac_address(mac)
  PROVE  IndInv'
  <1>. DEFINE cfg == [intended EXCEPT !.gateway = mac]
  <1>1. cfg \in Config /\ Intend(cfg) /\ UNCHANGED cpu
    BY DEF IndInv, TypeOK, set_gateway_mac_address, Write, Config
  <1>2. \A d \in Cpus : IntendedInForce(d)' /\ RunInv(d)' /\ inForce'[d] \in InForce
    BY <1>1, IntendInd
  <1>3. inForce' \in [Cpus -> InForce]
    BY <1>1, <1>2 DEF Intend
  <1>4. TypeOK'
    BY <1>1, <1>3 DEF IndInv, TypeOK, set_gateway_mac_address, Write, cpu, Intend
  <1>5. MapsAsIntended'
    BY DEF IndInv, TypeOK, MapsAsIntended, set_gateway_mac_address, Write, Intend, Config
  <1>6. QED
    BY <1>2, <1>4, <1>5 DEF IndInv

\* The inductive invariant holds for ever: the maps hold what was asked for,
\* and a run uses only configurations in force since its packet arrived.
THEOREM Inductive == Spec => []IndInv
  <1>1. IndInv /\ [Next]_vars => IndInv'
    <2>. SUFFICES ASSUME IndInv, [Next]_vars PROVE IndInv'
      OBVIOUS
    <2>1. ASSUME NEW c \in Cpus, NEW f \in Frames, Receive(c, f) PROVE IndInv'
      BY <2>1, ReceiveInd
    <2>2. ASSUME NEW c \in Cpus, try_udp_router(c) PROVE IndInv'
      BY <2>2, TryUdpRouterInd
    <2>3. ASSUME NEW c \in Cpus, try_forward_packet(c) PROVE IndInv'
      BY <2>3, TryForwardPacketInd
    <2>4. ASSUME NEW c \in Cpus, Complete(c) PROVE IndInv'
      BY <2>4, CompleteInd
    <2>5. ASSUME NEW nm \in LocalNets, set_local_net_mask(nm[1], nm[2]) PROVE IndInv'
      BY <2>5, SetLocalInd, XdpAssumption
    <2>6. ASSUME NEW mac \in GatewayMacs, set_gateway_mac_address(mac) PROVE IndInv'
      BY <2>6, SetGatewayInd, XdpAssumption
    <2>7. CASE UNCHANGED vars
      BY <2>7 DEF vars, maps, cpu, IndInv, TypeOK, MapsAsIntended, IntendedInForce,
           RunInv, Accepted, Routable
    <2>8. QED
      BY <2>1, <2>2, <2>3, <2>4, <2>5, <2>6, <2>7 DEF Next
  <1>2. QED
    BY <1>1, InitInd, PTL DEF Spec
-----------------------------------------------------------------------------
\* Every variable keeps its type, and a busy CPU its packet, in every
\* behavior of the XDP program and the controller's writes.
THEOREM TypeCorrect == Spec => []TypeOK
  <1>1. IndInv => TypeOK
    BY DEF IndInv
  <1>2. QED
    BY <1>1, Inductive, PTL

\* A routable packet gets the verdict of a configuration in force while its
\* run lasted, however the controller's writes fall between the reads of the
\* maps (main.rs:98-104).
THEOREM VerdictsJustified == Spec => []VerdictJustified
  <1>1. IndInv => VerdictJustified
    <2>. SUFFICES ASSUME IndInv, NEW c \in Cpus,
                         pc[c] = "done", Routable(orig[c])
                  PROVE  \E net_and_mask \in inForce[c].local :
                           verdict[c] = IF InNetwork(orig[c].src, net_and_mask)
                                        THEN "XDP_PASS" ELSE "XDP_TX"
      BY DEF VerdictJustified
    <2>1. RunInv(c)
      BY DEF IndInv
    <2>2. QED
      BY <2>1 DEF RunInv, Accepted
  <1>2. QED
    BY <1>1, Inductive, PTL

\* While only the zeroed local network map has been in force, no packet is
\* transmitted (main.rs:114-120).
THEOREM UnconfiguredForwardsNothing == Spec => []NothingForwardedUnconfigured
  <1>1. IndInv => NothingForwardedUnconfigured
    <2>. SUFFICES ASSUME IndInv, NEW c \in Cpus, Transmitted(c)
                  PROVE  inForce[c].local # {ZeroNetAndMask}
      BY DEF NothingForwardedUnconfigured
    <2>1. PICK net_and_mask \in inForce[c].local :
            ~InNetwork(orig[c].src, net_and_mask)
      BY DEF IndInv, RunInv, Accepted, Transmitted
    <2>2. InNetwork(orig[c].src, ZeroNetAndMask)
      BY DEF InNetwork, ZeroNetAndMask
    <2>3. QED
      BY <2>1, <2>2
  <1>2. QED
    BY <1>1, Inductive, PTL

\* What a transmitted packet is, in terms of the packet that arrived.
LEMMA TransmittedPacket ==
  ASSUME IndInv, NEW c \in Cpus, Transmitted(c)
  PROVE  /\ orig[c] \in Frame
         /\ pkt[c] \in Frame
         /\ \E mac \in MacU64 : /\ mac \in inForce[c].gateway
                               /\ pkt[c] = Forwarded(orig[c], mac)
  <1>1. /\ orig[c] \in Frame /\ pkt[c] \in Frame
        /\ inForce[c] \in InForce
    BY DEF IndInv, TypeOK, Transmitted
  <1>2. \E mac \in inForce[c].gateway : pkt[c] = Forwarded(orig[c], mac)
    BY DEF IndInv, RunInv, Transmitted
  <1>3. inForce[c].gateway \subseteq MacU64
    BY <1>1 DEF InForce
  <1>4. QED
    BY <1>1, <1>2, <1>3

\* A transmitted frame is addressed to a gateway in force while the run
\* lasted and comes from the MAC it was sent to (main.rs:199-202).
THEOREM GatewayInForce == Spec => []SentToGatewayInForce
  <1>1. IndInv => SentToGatewayInForce
    <2>. SUFFICES ASSUME IndInv, NEW c \in Cpus, Transmitted(c)
                  PROVE  /\ pkt[c].eth_src = orig[c].eth_dst
                         /\ \E mac \in inForce[c].gateway :
                              \A i \in 1 .. 6 : pkt[c].eth_dst[i] = mac[i + 2]
      BY DEF SentToGatewayInForce
    <2>1. PICK mac \in MacU64 : /\ mac \in inForce[c].gateway
                               /\ pkt[c] = Forwarded(orig[c], mac)
      BY TransmittedPacket
    <2>2. /\ pkt[c].eth_src = orig[c].eth_dst
          /\ pkt[c].eth_dst = get_gateway_mac_address(mac)
      BY <2>1, TransmittedPacket, ForwardedFields
    <2>3. \A i \in 1 .. 6 : pkt[c].eth_dst[i] = mac[i + 2]
      BY <2>2 DEF get_gateway_mac_address
    <2>4. QED
      BY <2>1, <2>2, <2>3
  <1>2. QED
    BY <1>1, Inductive, PTL

\* A packet that is passed up or aborted was not written to, also when the
\* run failed after try_forward_packet had begun (main.rs:131-142).
THEOREM OthersUnchanged == Spec => []OnlyForwardedPacketsChange
  <1>1. IndInv => OnlyForwardedPacketsChange
    BY DEF IndInv, TypeOK, RunInv, OnlyForwardedPacketsChange, Transmitted
  <1>2. QED
    BY <1>1, Inductive, PTL

\* The words UDP covers are only permuted.
LEMMA SameUdpSum ==
  ASSUME NEW p \in Frame, NEW mac \in MacU64
  PROVE  UdpAccepted(Forwarded(p, mac)) <=> UdpAccepted(p)
  <1>. DEFINE f == Forwarded(p, mac)
  <1>1. /\ f.src = p.dst /\ f.dst = p.payload /\ f.payload = p.src
        /\ f.udp_check = p.udp_check /\ f.udp_rest = p.udp_rest
    BY ForwardedFields
  <1>. HIDE DEF f
  <1>2. /\ upper[p.src] \in Word /\ lower[p.src] \in Word
        /\ upper[p.dst] \in Word /\ lower[p.dst] \in Word
        /\ upper[p.payload] \in Word /\ lower[p.payload] \in Word
        /\ p.udp_rest \in Nat /\ p.udp_check \in Word
    BY XdpAssumption DEF Frame
  <1>3. UdpSum(f) = UdpSum(p)
    BY <1>1, <1>2, WordModAssumption DEF UdpSum, Word
  <1>4. QED
    BY <1>1, <1>3 DEF UdpAccepted, f

\* The rewritten header verifies, and the six incremental updates of the UDP
\* checksum neither break nor mend it, for every word size (main.rs:204-211).
THEOREM ChecksumsRight == Spec => []ChecksumsFixed
  <1>1. IndInv => ChecksumsFixed
    <2>. SUFFICES ASSUME IndInv, NEW c \in Cpus, Transmitted(c)
                  PROVE  /\ Verifies(HeaderSum(Ipv4Header(pkt[c])))
                         /\ UdpAccepted(pkt[c]) <=> UdpAccepted(orig[c])
      BY DEF ChecksumsFixed
    <2>1. PICK mac \in MacU64 : pkt[c] = Forwarded(orig[c], mac)
      BY TransmittedPacket
    <2>2. QED
      BY <2>1, TransmittedPacket, ForwardedFields, SameUdpSum
  <1>2. QED
    BY <1>1, Inductive, PTL

\* The backend the client named gets the packet, and its echo comes back to
\* the client from the router's address with the payload the client sent
\* (README.md:8-11).
THEOREM RoundTrip == Spec => []ResponseReachesClient
  <1>1. IndInv => ResponseReachesClient
    <2>. SUFFICES ASSUME IndInv, NEW c \in Cpus, Transmitted(c)
                  PROVE  LET response == Forwarded(Echo(pkt[c]), gateway)
                         IN  /\ pkt[c].dst = orig[c].payload
                             /\ response.dst = orig[c].src
                             /\ response.src = orig[c].dst
                             /\ response.payload = orig[c].payload
      BY DEF ResponseReachesClient
    <2>1. PICK mac \in MacU64 : pkt[c] = Forwarded(orig[c], mac)
      BY TransmittedPacket
    <2>2. /\ pkt[c] \in Frame
          /\ pkt[c].src = orig[c].dst
          /\ pkt[c].dst = orig[c].payload
          /\ pkt[c].payload = orig[c].src
      BY <2>1, TransmittedPacket, ForwardedFields
    <2>3. /\ Echo(pkt[c]) \in Frame
          /\ Echo(pkt[c]).src = pkt[c].dst
          /\ Echo(pkt[c]).dst = pkt[c].src
          /\ Echo(pkt[c]).payload = pkt[c].payload
      BY <2>2 DEF Echo, Frame
    <2>4. gateway \in MacU64
      BY DEF IndInv, TypeOK
    <2>5. QED
      BY <2>2, <2>3, <2>4, ForwardedFields
  <1>2. QED
    BY <1>1, Inductive, PTL
-----------------------------------------------------------------------------
(***************************************************************************)
(* The data path implements Routing.  The lemmas say what each step of the *)
(* program is on the abstract router.                                      *)
(***************************************************************************)
\* What a step that concerns CPU c alone does to the views of the others.
LEMMA OneView ==
  ASSUME IndInv, NEW c \in Cpus,
         \A d \in Cpus \ {c} : /\ pc'[d] = pc[d] /\ pkt'[d] = pkt[d]
                              /\ verdict'[d] = verdict[d] /\ inForce'[d] = inForce[d]
  PROVE  /\ PacketView' = [PacketView EXCEPT ![c] = PacketView'[c]]
         /\ Fate' = [Fate EXCEPT ![c] = Fate'[c]]
         /\ Networks' = [Networks EXCEPT ![c] = Networks'[c]]
  <1>1. PacketView' = [PacketView EXCEPT ![c] = PacketView'[c]]
    BY DEF PacketView
  <1>2. Fate' = [Fate EXCEPT ![c] = Fate'[c]]
    BY DEF Fate
  <1>3. Networks' = [Networks EXCEPT ![c] = Networks'[c]]
    BY DEF Networks
  <1>4. QED
    BY <1>1, <1>2, <1>3

\* The views of a CPU that is handling a packet, and of one that returns.
LEMMA OpenView ==
  ASSUME NEW c \in Cpus, pc[c] \in {"try_udp_router", "try_forward_packet"}
  PROVE  Fate[c] = "open" /\ PacketView[c] = View(pkt[c])
  BY DEF Fate, PacketView

LEMMA ReturnView ==
  ASSUME IndInv, NEW c \in Cpus, pc[c] # "idle", NEW v, NEW p,
         Return(c, v, p), UNCHANGED <<intended, inForce>>
  PROVE  /\ Fate' = [Fate EXCEPT ![c] = v]
         /\ PacketView' = [PacketView EXCEPT ![c] = View(p)]
         /\ Networks' = Networks
         /\ p = pkt[c] => PacketView' = PacketView
  <1>1. /\ pc'[c] = "done" /\ verdict'[c] = v /\ pkt'[c] = p
        /\ \A d \in Cpus \ {c} : /\ pc'[d] = pc[d] /\ pkt'[d] = pkt[d]
                                /\ verdict'[d] = verdict[d]
    BY DEF Return, IndInv, TypeOK
  <1>2. Fate'[c] = v /\ PacketView'[c] = View(p)
    BY <1>1 DEF Fate, PacketView
  <1>3. /\ PacketView' = [PacketView EXCEPT ![c] = PacketView'[c]]
        /\ Fate' = [Fate EXCEPT ![c] = Fate'[c]]
    BY <1>1, OneView
  <1>4. Networks' = Networks
    BY DEF Networks
  <1>5. PacketView[c] = View(pkt[c]) /\ PacketView = [PacketView EXCEPT ![c] = PacketView[c]]
    BY DEF PacketView
  <1>6. QED
    BY <1>2, <1>3, <1>4, <1>5

\* A forwarded packet, seen from outside, is routed to the gateway.
LEMMA ForwardedView ==
  ASSUME NEW p \in Frame, NEW mac \in MacU64, View(p).kind = "udp"
  PROVE  View(Forwarded(p, mac)) \in Contract!Routed(View(p), mac)
  <1>. DEFINE f == Forwarded(p, mac)
              ok == Verifies(HeaderSum(Ipv4Header(f)) + f.ip_options)
  <1>1. /\ f \in Frame /\ SameShape(p, f)
        /\ f.src = p.dst /\ f.dst = p.payload /\ f.payload = p.src
        /\ f.eth_src = p.eth_dst /\ f.eth_dst = get_gateway_mac_address(mac)
        /\ Verifies(HeaderSum(Ipv4Header(f)))
        /\ UdpAccepted(f) <=> UdpAccepted(p)
    BY ForwardedFields, SameUdpSum
  <1>. HIDE DEF f
  <1>2. f.ip_options = 0 => ok
    <2>1. HeaderSum(Ipv4Header(f)) \in Int
      <3>1. \A i \in 1 .. 10 : Ipv4Header(f)[i] \in Int
        BY <1>1, Ipv4HeaderType, WordModAssumption DEF Header, Word
      <3>2. QED
        BY <3>1 DEF HeaderSum
    <2>2. HeaderSum(Ipv4Header(f)) + 0 = HeaderSum(Ipv4Header(f))
      BY <2>1
    <2>3. QED
      BY <1>1, <2>2
  <1>3. ok \in BOOLEAN /\ UdpAccepted(f) = UdpAccepted(p)
    BY <1>1 DEF Verifies, UdpAccepted
  <1>4. View(f).kind = "udp"
    BY <1>1 DEF View, SameShape, CutShort, HasEth, HasIp, HasUdp, HasPayload, ptr_at_mut
  <1>. HIDE DEF ok
  <1>5. View(f) = [View(p) EXCEPT !.src = View(p).dst, !.dst = View(p).payload,
                                  !.payload = View(p).src, !.eth_src = View(p).eth_dst,
                                  !.eth_dst = [i \in 1 .. 6 |-> mac[i + 2]], !.ip_ok = ok]
    <2>. DEFINE kind == View(p).kind
                src == p.src
                dst == p.dst
                payload == p.payload
                eth_src == p.eth_src
                eth_dst == p.eth_dst
                plain == p.ip_options = 0
                ip == Verifies(HeaderSum(Ipv4Header(p)) + p.ip_options)
                udp == UdpAccepted(p)
                mac6 == [i \in 1 .. 6 |-> mac[i + 2]]
                v == View(p)
                w == [kind |-> kind, src |-> dst, dst |-> payload, payload |-> src,
                      eth_src |-> eth_dst, eth_dst |-> mac6,
                      plain |-> plain, ip_ok |-> ok, udp_ok |-> udp]
    <2>1. v = [kind |-> kind, src |-> src, dst |-> dst, payload |-> payload,
               eth_src |-> eth_src, eth_dst |-> eth_dst,
               plain |-> plain, ip_ok |-> ip, udp_ok |-> udp]
      BY DEF View
    <2>2. View(f) = w
      <3>1. View(f) = [kind |-> View(f).kind, src |-> f.src, dst |-> f.dst,
                       payload |-> f.payload, eth_src |-> f.eth_src, eth_dst |-> f.eth_dst,
                       plain |-> f.ip_options = 0, ip_ok |-> ok, udp_ok |-> UdpAccepted(f)]
        BY DEF View, ok
      <3>2. View(f).kind = kind /\ f.ip_options = p.ip_options
        BY <1>1, <1>4 DEF SameShape
      <3>3. f.eth_dst = mac6
        BY <1>1 DEF get_gateway_mac_address
      <3>4. QED
        BY <1>1, <1>3, <3>1, <3>2, <3>3, Zenon
    <2>. DEFINE S == {kind, src, dst, payload, eth_src, eth_dst, mac6, plain, ip, ok, udp}
                R == [kind : S, src : S, dst : S, payload : S, eth_src : S, eth_dst : S,
                      plain : S, ip_ok : S, udp_ok : S]
                addrs == [v EXCEPT !.src = v.dst, !.dst = v.payload, !.payload = v.src]
                all == [addrs EXCEPT !.eth_src = v.eth_dst, !.eth_dst = mac6, !.ip_ok = ok]
    <2>. HIDE DEF kind, src, dst, payload, eth_src, eth_dst, plain, ip, udp, mac6, v
    <2>3. /\ kind \in S /\ src \in S /\ dst \in S /\ payload \in S /\ eth_src \in S
          /\ eth_dst \in S /\ mac6 \in S /\ plain \in S /\ ip \in S /\ ok \in S /\ udp \in S
      OBVIOUS
    <2>. HIDE DEF S
    <2>4. v \in R /\ w \in R
      BY <2>1, <2>3
    <2>5. /\ addrs \in R
          /\ addrs.kind = kind
          /\ addrs.src = dst /\ addrs.dst = payload /\ addrs.payload = src
          /\ addrs.plain = plain /\ addrs.udp_ok = udp
      BY <2>1, <2>3, <2>4
    <2>. HIDE DEF addrs
    <2>6. /\ all \in R
          /\ all.kind = kind
          /\ all.src = dst /\ all.dst = payload /\ all.payload = src
          /\ all.eth_src = eth_dst /\ all.eth_dst = mac6
          /\ all.plain = plain /\ all.ip_ok = ok /\ all.udp_ok = udp
      BY <2>1, <2>3, <2>5
    <2>. HIDE DEF all
    <2>7. all = w
      BY <2>4, <2>6
    <2>8. QED
      BY <2>2, <2>7, Zenon DEF all, addrs, v, mac6
  <1>6. ok \in { b \in BOOLEAN : View(p).plain => b }
    BY <1>1, <1>2, <1>3 DEF View, SameShape
  <1>7. QED
    BY <1>5, <1>6 DEF Contract!Routed, f

LEMMA ReceiveArrives ==
  ASSUME IndInv, NEW c \in Cpus, NEW f \in Frames, Receive(c, f)
  PROVE  Contract!Arrive(c)
  <1>1. /\ pc[c] = "idle" /\ pc'[c] = "try_udp_router" /\ pkt'[c] = f
        /\ inForce'[c].local = {intended.local}
        /\ \A d \in Cpus \ {c} : /\ pc'[d] = pc[d] /\ pkt'[d] = pkt[d]
                                /\ verdict'[d] = verdict[d] /\ inForce'[d] = inForce[d]
    BY DEF Receive, IndInv, TypeOK
  <1>2. Fate[c] = "none" /\ Fate'[c] = "open" /\ PacketView'[c] = View(f)
    BY <1>1 DEF Fate, PacketView
  <1>3. Networks'[c] = {intended.local}
    BY <1>1 DEF Networks
  <1>4. View(f) \in Views
    BY DEF Views
  <1>5. /\ PacketView' = [PacketView EXCEPT ![c] = PacketView'[c]]
        /\ Fate' = [Fate EXCEPT ![c] = Fate'[c]]
        /\ Networks' = [Networks EXCEPT ![c] = Networks'[c]]
    BY <1>1, OneView
  <1>6. QED
    BY <1>2, <1>3, <1>4, <1>5 DEF Contract!Arrive, Receive

\* try_udp_router leaves a packet alone in every case: it decides, or nothing
\* of what it found shows yet.
LEMMA TryUdpRouterDecides ==
  ASSUME IndInv, NEW c \in Cpus, try_udp_router(c)
  PROVE  \/ Contract!Pass(c) \/ Contract!Abort(c)
         \/ UNCHANGED <<intended, Networks, PacketView, Fate>>
  <1>1. /\ pc[c] = "try_udp_router" /\ pkt[c] \in Frame
        /\ local = intended.local
        /\ UNCHANGED <<intended, inForce>>
    BY DEF try_udp_router, IndInv, TypeOK, MapsAsIntended
  <1>2. Fate[c] = "open" /\ PacketView[c] = View(pkt[c])
    BY <1>1, OpenView
  <1>3. CASE CutShort(pkt[c]) /\ Return(c, "XDP_ABORTED", pkt[c])
    <2>1. View(pkt[c]).kind = "broken"
      BY <1>3 DEF View
    <2>2. QED
      BY <1>1, <1>2, <1>3, <2>1, ReturnView DEF Contract!Abort, Contract!Leave
  <1>4. CASE PassedThrough(pkt[c], local) /\ Return(c, "XDP_PASS", pkt[c])
    <2>1. \/ View(pkt[c]).kind = "other"
          \/ /\ View(pkt[c]).kind \in {"short", "udp"}
             /\ \/ View(pkt[c]).src \in LinkLocalAddresses
                \/ Contract!InNetwork(View(pkt[c]).src, intended.local)
      <3>1. ~CutShort(pkt[c])
        BY <1>4 DEF PassedThrough, CutShort
      <3>2. pkt[c].src \in U32 /\ View(pkt[c]).src = pkt[c].src
        BY <1>1 DEF Frame, View
      <3>3. \/ pkt[c].ether_type # "Ipv4" \/ pkt[c].proto # "Udp"
            \/ is_link_local_ip(pkt[c].src) \/ InNetwork(pkt[c].src, intended.local)
        BY <1>1, <1>4 DEF PassedThrough, is_from_local_network
      <3>4. QED
        BY <3>1, <3>2, <3>3 DEF View, LinkLocalAddresses, InNetwork, Contract!InNetwork
    <2>2. QED
      BY <1>1, <1>2, <1>4, <2>1, ReturnView DEF Contract!Pass, Contract!Leave
  <1>5. CASE /\ pc' = [pc EXCEPT ![c] = "try_forward_packet"]
             /\ UNCHANGED <<pkt, verdict>>
    <2>1. /\ pc'[c] = "try_forward_packet"
          /\ \A d \in Cpus \ {c} : pc'[d] = pc[d]
      BY <1>5 DEF IndInv, TypeOK
    <2>2. \A d \in Cpus : PacketView'[d] = PacketView[d] /\ Fate'[d] = Fate[d]
      BY <1>1, <1>5, <2>1 DEF PacketView, Fate
    <2>3. PacketView' = PacketView /\ Fate' = Fate
      BY <2>2 DEF PacketView, Fate
    <2>4. QED
      BY <1>1, <2>3 DEF Networks
  <1>6. QED
    BY <1>3, <1>4, <1>5 DEF try_udp_router

LEMMA TryForwardPacketDecides ==
  ASSUME IndInv, NEW c \in Cpus, try_forward_packet(c)
  PROVE  Contract!Abort(c) \/ Contract!Transmit(c)
  <1>1. /\ pc[c] = "try_forward_packet" /\ pkt[c] \in Frame /\ Accepted(c, pkt[c])
        /\ gateway = intended.gateway /\ gateway \in MacU64
        /\ UNCHANGED <<intended, inForce>>
    BY DEF try_forward_packet, ForwardOr, IndInv, TypeOK, MapsAsIntended, RunInv
  <1>2. Fate[c] = "open" /\ PacketView[c] = View(pkt[c])
    BY <1>1, OpenView
  <1>3. /\ View(pkt[c]).kind =
             IF HasUdp(pkt[c]) /\ HasPayload(pkt[c]) THEN "udp" ELSE "short"
        /\ View(pkt[c]).src = pkt[c].src
    BY <1>1 DEF Accepted, View
  <1>4. Contract!Foreign(c)
    BY <1>1, <1>2, <1>3 DEF Contract!Foreign, Accepted, LinkLocalAddresses, Networks,
       InNetwork, Contract!InNetwork
  <1>5. CASE /\ ~(HasUdp(pkt[c]) /\ HasPayload(pkt[c]))
             /\ Return(c, "XDP_ABORTED", pkt[c])
    BY <1>1, <1>2, <1>3, <1>4, <1>5, ReturnView DEF Contract!Abort, Contract!Leave
  <1>6. CASE /\ HasUdp(pkt[c]) /\ HasPayload(pkt[c])
             /\ Return(c, "XDP_TX", Forwarded(pkt[c], gateway))
    <2>1. View(Forwarded(pkt[c], gateway)) \in Contract!Routed(View(pkt[c]), gateway)
      BY <1>1, <1>3, <1>6, ForwardedView
    <2>2. /\ Fate' = [Fate EXCEPT ![c] = "XDP_TX"]
          /\ PacketView' = [PacketView EXCEPT ![c] = View(Forwarded(pkt[c], gateway))]
          /\ Networks' = Networks
      BY <1>1, <1>6, ReturnView
    <2>3. QED
      BY <1>1, <1>2, <1>3, <1>4, <1>6, <2>1, <2>2 DEF Contract!Transmit
  <1>7. QED
    BY <1>5, <1>6 DEF try_forward_packet, ForwardOr

LEMMA CompleteFinishes ==
  ASSUME IndInv, NEW c \in Cpus, Complete(c)
  PROVE  Contract!Finish(c)
  <1>1. /\ pc[c] = "done" /\ pc'[c] = "idle" /\ inForce'[c].local = {}
        /\ verdict[c] \in {"XDP_ABORTED", "XDP_PASS", "XDP_TX"}
        /\ \A d \in Cpus \ {c} : /\ pc'[d] = pc[d] /\ pkt'[d] = pkt[d]
                                /\ verdict'[d] = verdict[d] /\ inForce'[d] = inForce[d]
    BY DEF Complete, IndInv, TypeOK, RunInv, NothingInForce
  <1>2. Fate[c] \notin {"none", "open"} /\ Fate'[c] = "none" /\ PacketView'[c] = <<>>
    BY <1>1 DEF Fate, PacketView
  <1>3. Networks'[c] = {}
    BY <1>1 DEF Networks
  <1>4. /\ PacketView' = [PacketView EXCEPT ![c] = PacketView'[c]]
        /\ Fate' = [Fate EXCEPT ![c] = Fate'[c]]
        /\ Networks' = [Networks EXCEPT ![c] = Networks'[c]]
    BY <1>1, OneView
  <1>5. QED
    BY <1>2, <1>3, <1>4 DEF Contract!Finish, Complete

\* A write of the controller: the packets stay, whatever is happening to them.
LEMMA IntendConfigures ==
  ASSUME IndInv, NEW cfg \in Config, Intend(cfg), UNCHANGED cpu
  PROVE  Contract!Configure
  <1>1. intended' \in Contract!Config
    BY DEF Intend, Config, Contract!Config, NetAndMask, Contract!NetAndMask,
       U32, Contract!U32, MacU64, Contract!MacU64
  <1>2. UNCHANGED <<PacketView, Fate>>
    BY DEF cpu, PacketView, Fate
  <1>3. \A d \in Cpus : Fate[d] = "none" <=> pc[d] = "idle"
    BY DEF Fate, IndInv, RunInv, TypeOK
  <1>4. \A d \in Cpus : Networks'[d] = IF Fate[d] = "none" THEN Networks[d]
                                       ELSE Networks[d] \cup {intended'.local}
    BY <1>3 DEF Networks, Intend
  <1>5. Networks' = [d \in Cpus |-> IF Fate[d] = "none" THEN Networks[d]
                                    ELSE Networks[d] \cup {intended'.local}]
    BY <1>4 DEF Networks
  <1>6. QED
    BY <1>1, <1>2, <1>5 DEF Contract!Configure

\* The program is the one-step router of Routing, for any number of CPUs and
\* any frames, however its steps and the controller's writes interleave
\* (main.rs:77-214).
THEOREM Refinement == Spec => ImplementsRouting
  <1>1. Init => Contract!Init
    <2>. SUFFICES ASSUME Init PROVE Contract!Init
      OBVIOUS
    <2>1. /\ Networks = [c \in Cpus |-> {}]
          /\ PacketView = [c \in Cpus |-> <<>>]
          /\ Fate = [c \in Cpus |-> "none"]
      BY DEF Init, Networks, PacketView, Fate, NothingInForce
    <2>2. QED
      BY <2>1 DEF Init, Contract!Init, ZeroNetAndMask, Contract!ZeroNetAndMask,
         ZeroMac, Contract!ZeroMac
  <1>2. IndInv /\ [Next]_vars
          => [Contract!Next]_<<intended, Networks, PacketView, Fate>>
    <2>. SUFFICES ASSUME IndInv, [Next]_vars
                  PROVE  Contract!Next \/ UNCHANGED <<intended, Networks, PacketView, Fate>>
      OBVIOUS
    <2>1. ASSUME NEW c \in Cpus, NEW f \in Frames, Receive(c, f) PROVE Contract!Next
      BY <2>1, ReceiveArrives DEF Contract!Next
    <2>2. ASSUME NEW c \in Cpus, try_udp_router(c)
          PROVE  Contract!Next \/ UNCHANGED <<intended, Networks, PacketView, Fate>>
      BY <2>2, TryUdpRouterDecides DEF Contract!Next
    <2>3. ASSUME NEW c \in Cpus, try_forward_packet(c) PROVE Contract!Next
      BY <2>3, TryForwardPacketDecides DEF Contract!Next
    <2>4. ASSUME NEW c \in Cpus, Complete(c) PROVE Contract!Next
      BY <2>4, CompleteFinishes DEF Contract!Next
    <2>5. ASSUME NEW nm \in LocalNets, set_local_net_mask(nm[1], nm[2])
          PROVE  Contract!Next
      <3>1. [intended EXCEPT !.local = [hi |-> nm[1], lo |-> nm[2]]] \in Config
        BY XdpAssumption DEF IndInv, TypeOK, Config, NetAndMask
      <3>2. QED
        BY <2>5, <3>1, IntendConfigures DEF set_local_net_mask, Write, Contract!Next
    <2>6. ASSUME NEW mac \in GatewayMacs, set_gateway_mac_address(mac)
          PROVE  Contract!Next
      <3>1. [intended EXCEPT !.gateway = mac] \in Config
        BY XdpAssumption DEF IndInv, TypeOK, Config
      <3>2. QED
        BY <2>6, <3>1, IntendConfigures DEF set_gateway_mac_address, Write, Contract!Next
    <2>7. CASE UNCHANGED vars
      BY <2>7 DEF vars, cpu, Networks, PacketView, Fate
    <2>8. QED
      BY <2>1, <2>2, <2>3, <2>4, <2>5, <2>6, <2>7 DEF Next
  <1>3. QED
    BY <1>1, <1>2, Inductive, PTL DEF Spec, ImplementsRouting, Contract!Spec
=============================================================================
