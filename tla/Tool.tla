-------------------------------- MODULE Tool --------------------------------
(***************************************************************************)
(* The configuration tool (udp-router-tool/src/main.rs): its two parsers   *)
(* and the sequence of RPCs by which it configures the router, run by      *)
(* operators who may run it at the same time, against the controller as    *)
(* ConfigStore describes it (BpfActor implements ConfigStore).             *)
(*                                                                         *)
(* A setter is answered when it is accepted, before the map is written; it *)
(* may fail before the controller has accepted it, or after, when only the *)
(* answer is lost.  The controller may die at any time, also between two   *)
(* RPCs of one run: the tool's channel connects again for the next RPC,    *)
(* and the tool does not notice.                                           *)
(***************************************************************************)
EXTENDS ConfigMaps

CONSTANTS
  Tools,      \* runs of the tool
  Width,      \* bits of an address: 32
  NoByte,     \* a part of a MAC argument that is not a byte
  Args,       \* per run: the command lines it may be given
  MaxPrefix   \* bound: largest number after the slash

\* A network argument: missing, not of the form a.b.c.d/n, or its two parts.
NetArg ==
  [form : {"empty", "bad"}] \cup [form : {"cidr"}, net : U32, prefix : 0 .. MaxPrefix]

\* A MAC argument: its parts between the colons, of which there may be too
\* many.
MacArg(n) == [1 .. n -> Byte \cup {NoByte}]

\* A command line, and whether it is given to a release build.
IsOpt(a) ==
  /\ a.stats \in BOOLEAN /\ a.release \in BOOLEAN
  /\ a.local \in NetArg /\ a.backend \in NetArg
  /\ \E n \in 1 .. 7 : a.mac \in MacArg(n)

ASSUME ToolAssumption ==
  /\ Width \in Nat \ {0} /\ Bits = 0 .. (Width - 1)
  /\ NoByte \notin Byte
  /\ MaxPrefix \in Nat
  /\ \A t \in Tools : Args[t] # {} /\ \A a \in Args[t] : IsOpt(a)

VARIABLES
  pc,       \* per run: the next step of main
  opt,      \* per run: its command line
  maps,     \* the controller's configuration maps
  waiting   \* requests the controller has accepted and not yet carried out

\* History: the configuration that the accepted requests add up to, what it was
\* when a run began, whether no other run and no death of the controller has
\* come between.
VARIABLES config, entry, alone, intact

controller == <<maps, waiting, config>>
history == <<entry, alone, intact>>
vars == <<pc, opt, controller, history>>

Controller == INSTANCE ConfigStore

Finished == {"done", "failed"}
Active(t) == pc[t] \notin {"idle"} \cup Finished

-----------------------------------------------------------------------------
\* 32 - prefix and the shift by it: panics in a debug build, wraps in a
\* release build, where only the low five bits of the shift count.
ShiftOverflows(prefix) == prefix = 0 \/ prefix > Width
OnesShiftedLeft(prefix) == { b \in Bits : b >= (Width - prefix) % Width }

IpMaskPanics(s, release) ==
  \/ s.form = "bad"
  \/ s.form = "cidr" /\ ShiftOverflows(s.prefix) /\ ~release

\* Mutant: the shift is by the prefix.
parse_ip_mask_Inverted(s) ==
  IF s.form = "cidr" THEN <<s.net, { b \in Bits : b >= s.prefix % Width }>>
                     ELSE <<{}, Bits>>

\* Network and mask.
parse_ip_mask(s) ==
  IF s.form = "cidr" THEN <<s.net, OnesShiftedLeft(s.prefix)>>
                     ELSE <<{}, Bits>>

\* Mutant: a part that is not a byte goes unnoticed.
MacPanics_LengthOnly(parts) == Len(parts) # 6

MacPanics(parts) == Len(parts) # 6 \/ \E i \in 1 .. Len(parts) : parts[i] = NoByte

\* (res << 8) | byte
ShiftIn(res, byte) == [i \in 1 .. 8 |-> IF i < 8 THEN res[i + 1] ELSE byte]

parse_mac_address(parts) ==
  ShiftIn(ShiftIn(ShiftIn(ShiftIn(ShiftIn(ShiftIn(ZeroMac,
    parts[1]), parts[2]), parts[3]), parts[4]), parts[5]), parts[6])

-----------------------------------------------------------------------------
Init ==
  /\ pc = [t \in Tools |-> "idle"]
  /\ opt = [t \in Tools |-> CHOOSE a \in Args[t] : TRUE]
  /\ Controller!Init /\ config = ZeroMaps
  /\ entry = [t \in Tools |-> ZeroMaps]
  /\ alone = [t \in Tools |-> FALSE]
  /\ intact = [t \in Tools |-> FALSE]

Goto(t, l) == pc' = [pc EXCEPT ![t] = l]

\* Mutant: the gateway first.
Steps_GatewayFirst == <<"gateway", "local", "backend">>

\* The RPCs of main, in their order.
Steps == <<"local", "backend", "gateway">>

Following(l) ==
  LET i == CHOOSE j \in 1 .. 3 : Steps[j] = l
  IN  IF i = 3 THEN "done" ELSE Steps[i + 1]

\* An operator runs the tool.
Start(t) ==
  /\ pc[t] = "idle"
  /\ Goto(t, "connect")
  /\ \E a \in Args[t] : opt' = [opt EXCEPT ![t] = a]
  /\ entry' = [entry EXCEPT ![t] = config]
  /\ alone' = [u \in Tools |-> u = t /\ ~\E v \in Tools : Active(v)]
  /\ intact' = [intact EXCEPT ![t] = TRUE]
  /\ UNCHANGED controller

Connect(t) ==
  /\ pc[t] = "connect"
  /\ Goto(t, "parse") \/ Goto(t, "failed")
  /\ UNCHANGED <<opt, controller, history>>

NetPanics(a) == IpMaskPanics(a.local, a.release) \/ IpMaskPanics(a.backend, a.release)

ParseUnless(t, panics) ==
  /\ pc[t] = "parse"
  /\ Goto(t, IF panics THEN "failed" ELSE IF opt[t].stats THEN "stats" ELSE Steps[1])
  /\ UNCHANGED <<opt, controller, history>>

\* Mutant: the gateway's address is parsed when it is needed.
Parse_MacLater(t) == ParseUnless(t, NetPanics(opt[t]))

\* All arguments are parsed before anything is asked of the controller.
Parse(t) == ParseUnless(t, NetPanics(opt[t]) \/ MacPanics(opt[t].mac))

GetStats(t) ==
  /\ pc[t] = "stats"
  /\ Goto(t, "done") \/ Goto(t, "failed")
  /\ UNCHANGED <<opt, controller, history>>

\* The generated client's call of a setter: answered, accepted with the answer
\* lost, or not accepted.
Rpc(t, m) ==
  /\ \/ /\ Controller!Accept(m)
        /\ config' = [config EXCEPT ![Target(m)] = Meaning(m)]
        /\ Goto(t, Following(pc[t])) \/ Goto(t, "failed")
     \/ Goto(t, "failed") /\ UNCHANGED controller
  /\ UNCHANGED <<opt, history>>

\* A network is only sent if its argument was given.
SetNet(t, arg, type) ==
  \/ /\ arg.form = "empty"
     /\ Goto(t, Following(pc[t]))
     /\ UNCHANGED <<opt, controller, history>>
  \/ /\ arg.form # "empty"
     /\ Rpc(t, [type |-> type, net |-> parse_ip_mask(arg)[1],
                mask |-> parse_ip_mask(arg)[2]])

SetLocal(t) ==
  pc[t] = "local" /\ SetNet(t, opt[t].local, "SetLocalNetAndMask")

\* Mutant: the two networks swapped.
SetBackend_Local(t) ==
  pc[t] = "backend" /\ SetNet(t, opt[t].backend, "SetLocalNetAndMask")

SetBackend(t) ==
  pc[t] = "backend" /\ SetNet(t, opt[t].backend, "SetBackendNetAndMask")

\* A MAC argument that was parsed is never empty.
SetGateway(t) ==
  /\ pc[t] = "gateway"
  /\ Rpc(t, [type |-> "SetGatewayMacAddress", mac |-> parse_mac_address(opt[t].mac)])

\* The controller carries out a request, or dies.
Apply == Controller!Apply /\ UNCHANGED <<pc, opt, config, history>>

Die ==
  /\ Controller!Lose /\ config' = ZeroMaps
  /\ intact' = [t \in Tools |-> FALSE]
  /\ UNCHANGED <<pc, opt, entry, alone>>

Next ==
  \/ \E t \in Tools : \/ Start(t) \/ Connect(t) \/ Parse(t) \/ GetStats(t)
                      \/ SetLocal(t) \/ SetBackend(t) \/ SetGateway(t)
  \/ Apply \/ Die

Spec == Init /\ [][Next]_vars

\* The controller gets round to what it has accepted (AckedIsApplied of
\* BpfActor).
FairSpec == Spec /\ WF_vars(Apply)

-----------------------------------------------------------------------------
\* Every variable has its type.
TypeOK ==
  /\ pc \in [Tools -> {"idle", "connect", "parse", "stats", "local", "backend",
                       "gateway"} \cup Finished]
  /\ DOMAIN opt = Tools /\ \A t \in Tools : opt[t] \in Args[t]
  /\ maps \in Maps /\ config \in Maps
  /\ waiting \in Seq(Message)
  /\ entry \in [Tools -> Maps]
  /\ alone \in [Tools -> BOOLEAN] /\ intact \in [Tools -> BOOLEAN]

\* The addresses of net/prefix: the leading prefix bits agree.
InCidr(ip, s) ==
  \A b \in Bits : b >= Width - s.prefix => (b \in ip <=> b \in s.net)

\* A network written the usual way: a mask length that exists, no host bits.
Canonical(s) ==
  s.form = "cidr" => /\ s.prefix \in 1 .. Width
                     /\ \A b \in s.net : b >= Width - s.prefix

\* The setting is what the argument says, or what it was if there is none.
SetAsTyped(s, setting, was) ==
  IF s.form = "empty" THEN setting = was
  ELSE \A ip \in U32 : InNetwork(ip, setting) <=> InCidr(ip, s)

\* The router does what the command line says: networks written the usual way
\* hold for exactly their addresses, the gateway is the six bytes in their
\* order, and settings that were not given are what they were.
AsTyped(t) ==
  /\ Canonical(opt[t].local) => SetAsTyped(opt[t].local, maps.local, entry[t].local)
  /\ Canonical(opt[t].backend) =>
       SetAsTyped(opt[t].backend, maps.backend, entry[t].backend)
  /\ get_gateway_mac_address(maps.gateway) = opt[t].mac

\* A run that configures the router succeeded and no other run interfered.
Succeeded(t) == pc[t] = "done" /\ alone[t] /\ ~opt[t].stats

\* A run that succeeds leaves the router configured as typed once the
\* controller has carried out what it accepted, if it lives so long (tool
\* main.rs:63-137 through bpf_actor.rs:162-179 to ebpf main.rs:114-120,
\* 216-220).
ConfiguredAsTyped ==
  \A t \in Tools : Succeeded(t) /\ intact[t] /\ waiting = <<>> => AsTyped(t)

\* A run whose arguments cannot be parsed, or that asks for statistics, leaves
\* every map alone, not only those with a bad argument (tool main.rs:44-61).
BadArgumentsChangeNothing ==
  \A t \in Tools :
    /\ alone[t] /\ intact[t] /\ waiting = <<>>
    /\ \/ opt[t].stats \/ opt[t].local.form = "bad"
       \/ opt[t].backend.form = "bad" \/ MacPanics(opt[t].mac)
    => maps = entry[t]

Forwards == \E ip \in U32 : ~InNetwork(ip, maps.local)

(***************************************************************************)
(* A controller that dies in the middle of a run takes a part of the       *)
(* configuration with it, and the run may still succeed.  It never leaves  *)
(* a router that forwards to another gateway than the one typed: the       *)
(* gateway is set last, so whoever has the local network also has the      *)
(* gateway (tool main.rs:63, 93).                                          *)
(***************************************************************************)
NoHalfConfiguration ==
  \A t \in Tools :
    Succeeded(t) /\ waiting = <<>> /\ Forwards =>
      get_gateway_mac_address(maps.gateway) = opt[t].mac

\* Run t has got past its arguments, and is not one for statistics.
Asked(t) ==
  /\ pc[t] \in {"local", "backend", "gateway"} \cup Finished
  /\ ~opt[t].stats
  /\ opt[t].local.form # "bad" /\ opt[t].backend.form # "bad" /\ ~MacPanics(opt[t].mac)

\* What a run asks for by a network argument.
AskedFor(s, setting) ==
  s.form = "cidr" /\ setting = Pack(parse_ip_mask(s)[1], parse_ip_mask(s)[2])

(***************************************************************************)
(* However many runs overlap, whichever of them fail half way and whenever *)
(* the controller dies: each map holds its zeroes or what one run was      *)
(* given for it.  Two runs may each have set some of the maps, but never   *)
(* parts of one, and a run that was going to fail on its arguments has set *)
(* none (tool main.rs:58-137, bpf_actor.rs:162-179).                       *)
(***************************************************************************)
OnlyWhatWasTyped ==
  /\ \/ maps.local = ZeroNetAndMask
     \/ \E t \in Tools : Asked(t) /\ AskedFor(opt[t].local, maps.local)
  /\ \/ maps.backend = ZeroNetAndMask
     \/ \E t \in Tools : Asked(t) /\ AskedFor(opt[t].backend, maps.backend)
  /\ \/ maps.gateway = ZeroMac
     \/ \E t \in Tools : Asked(t) /\ get_gateway_mac_address(maps.gateway) = opt[t].mac

\* What an operator was told is done comes into effect, unless the controller
\* dies or somebody runs the tool again (tool main.rs:64-105).
TakesEffect ==
  \A t \in Tools : Succeeded(t) ~> ((Succeeded(t) /\ AsTyped(t)) \/ ~alone[t] \/ ~intact[t])

\* tool main.rs:25: "Set local network & mask (e.g. 10.0.0.0/8)".  The local
\* network of a successful run is the one of the argument, for every prefix an
\* address can have.
LocalNetworkAsDocumented ==
  \A t \in Tools :
    /\ Succeeded(t) /\ intact[t] /\ waiting = <<>>
    /\ opt[t].local.form = "cidr" /\ opt[t].local.prefix <= Width
    => SetAsTyped(opt[t].local, maps.local, entry[t].local)

\* ebpf main.rs:36-39: "putting the MAC address of the GW as the destination MAC
\* address on all forwarded packets".  As long as every run of the tool is
\* given the gateway's address, that is what forwarded frames are sent to.
GatewayOnAllForwarded ==
  Forwards => \E t \in Tools : get_gateway_mac_address(maps.gateway) = opt[t].mac
=============================================================================
