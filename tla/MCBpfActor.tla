----------------------------- MODULE MCBpfActor -----------------------------
(***************************************************************************)
(* Small controllers: addresses of two bits, three RPCs, a channel of two  *)
(* slots where the code has eight.                                         *)
(***************************************************************************)
EXTENDS BpfActor, TLC

MacA == <<0, 0, 1, 1, 1, 1, 1, 1>>

Local(net, mask) == [type |-> "SetLocalNetAndMask", net |-> net, mask |-> mask]
Backend(net, mask) == [type |-> "SetBackendNetAndMask", net |-> net, mask |-> mask]
Gateway(mac) == [type |-> "SetGatewayMacAddress", mac |-> mac]

\* Two values of one map, one of each other map, and the statistics.
MCRequests ==
  { [type |-> "GetStats"], Local({0}, {0, 1}), Local({1}, {1}),
    Backend({0}, {0, 1}), Gateway(MacA) }

\* The gateway is handled like the networks.
FewRequests == MCRequests \ {Gateway(MacA)}

OneOpt == { [force_skb_mode |-> FALSE, force_hw_mode |-> FALSE,
             force_drv_mode |-> FALSE, allow_skb_mode |-> FALSE] }
DriverMode == { {"DRV", "SKB"} }
AnyNic == SUBSET Modes

TaskSymmetry == Permutations(Tasks)
=============================================================================
