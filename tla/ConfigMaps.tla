----------------------------- MODULE ConfigMaps -----------------------------
(***************************************************************************)
(* The values kept in the configuration maps that the controller and the   *)
(* XDP program share, and the conversions on both sides of them            *)
(* (udp-router/src/bpf_actor.rs writes, udp-router-ebpf/src/main.rs reads).*)
(*                                                                         *)
(* A u32 address is the set of its one bits, so that & is intersection.    *)
(* A u64 that holds a network and a mask is its two halves; a u64 that     *)
(* holds a MAC address is its eight bytes, most significant first.         *)
(***************************************************************************)
EXTENDS Integers, Sequences

CONSTANTS Bits,   \* bit positions of an address: 0..31
          Byte    \* values of a u8: 0..255

ASSUME BytesAssumption == 0 \in Byte

U32 == SUBSET Bits
NetAndMask == [hi : U32, lo : U32]
MacU64 == [1 .. 8 -> Byte]
EthAddr == [1 .. 6 -> Byte]

Maps == [local : NetAndMask, backend : NetAndMask, gateway : MacU64]

\* Array maps start out as zeroes.
ZeroNetAndMask == [hi |-> {}, lo |-> {}]
ZeroMac == [i \in 1 .. 8 |-> 0]
ZeroMaps == [local |-> ZeroNetAndMask, backend |-> ZeroNetAndMask, gateway |-> ZeroMac]

\* The requests of the management service.
Message ==
  [type : {"GetStats"}]
    \cup [type : {"SetLocalNetAndMask", "SetBackendNetAndMask"}, net : U32, mask : U32]
    \cup [type : {"SetGatewayMacAddress"}, mac : MacU64]

\* The map a setter is about, and what its client means it to hold.
Target(m) == [SetLocalNetAndMask |-> "local", SetBackendNetAndMask |-> "backend",
              SetGatewayMacAddress |-> "gateway"][m.type]
Meaning(m) ==
  IF m.type = "SetGatewayMacAddress" THEN m.mac ELSE [hi |-> m.net, lo |-> m.mask]

\* ((net as u64) << 32) | (mask as u64)
Pack(net, mask) == [hi |-> net, lo |-> mask]

\* (ip & mask) == net, for the net and mask of a packed map value.
InNetwork(ip, net_and_mask) ==
  LET net == net_and_mask.hi
      mask == net_and_mask.lo
  IN  ip \cap mask = net

\* Mutants: all eight bytes; the wrong six.
get_gateway_mac_address_AllBytes(mac) == mac
get_gateway_mac_address_Shifted(mac) == [i \in 1 .. 6 |-> mac[i + 1]]

\* mac.to_be_bytes() without its two leading bytes.
get_gateway_mac_address(mac) == [i \in 1 .. 6 |-> mac[i + 2]]
=============================================================================
