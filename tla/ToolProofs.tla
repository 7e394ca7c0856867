----------------------------- MODULE ToolProofs -----------------------------
(***************************************************************************)
(* Proofs about Tool, for addresses of any width, any command lines and    *)
(* any number of runs, of which any may overlap.                           *)
(***************************************************************************)
EXTENDS Tool, SequenceTheorems, TLAPS

Fields == {"local", "backend", "gateway"}
Labels == {"idle", "connect", "parse", "stats", "local", "backend", "gateway"} \cup Finished

Setter(m) == m \in Message /\ m.type # "GetStats"
Put(ms, m) == [ms EXCEPT ![Target(m)] = Meaning(m)]

\* What the maps will be when the controller has caught up: of the requests
\* for a map that still wait, the last one decides.
Agrees ==
  /\ \A i \in 1 .. Len(waiting) : Setter(waiting[i])
  /\ \A f \in Fields :
       \/ /\ maps[f] = config[f]
          /\ \A i \in 1 .. Len(waiting) : Target(waiting[i]) # f
       \/ \E i \in 1 .. Len(waiting) :
            /\ Target(waiting[i]) = f /\ Meaning(waiting[i]) = config[f]
            /\ \A j \in (i + 1) .. Len(waiting) : Target(waiting[j]) # f

\* A run that is alone is the only one at work.
Alone ==
  \A t \in Tools : alone[t] =>
    pc[t] # "idle" /\ \A u \in Tools : u # t => ~Active(u)

\* Arguments with which a run changes nothing.
Bad(a) == a.stats \/ a.local.form = "bad" \/ a.backend.form = "bad" \/ MacPanics(a.mac)

\* Only a run with good arguments gets as far as a setter.
Parsed(a, l) ==
  /\ l \in {"local", "backend", "gateway"} => ~Bad(a)
  /\ l = "done" => a.stats \/ ~Bad(a)
  /\ l = "stats" => a.stats

\* The setting an argument asks for.
Wanted(s, was) ==
  IF s.form = "empty" THEN was
  ELSE [hi |-> parse_ip_mask(s)[1], lo |-> parse_ip_mask(s)[2]]

\* How much of the configuration a has been accepted, where c was e at first.
Progress(a, l, c, e) ==
  /\ l \in {"connect", "parse", "stats", "local"} => c = e
  /\ l = "failed" /\ Bad(a) => c = e
  /\ l = "done" /\ a.stats => c = e
  /\ l \in {"backend", "gateway"} \/ (l = "done" /\ ~a.stats) =>
       c.local = Wanted(a.local, e.local)
  /\ l = "backend" => c.backend = e.backend
  /\ l = "gateway" \/ (l = "done" /\ ~a.stats) => c.backend = Wanted(a.backend, e.backend)
  /\ l = "done" /\ ~a.stats => c.gateway = parse_mac_address(a.mac)

\* After a run the gateway is the one typed, or the controller has died since.
GatewayOrNothing(a, l, c) ==
  l = "done" /\ ~a.stats => c.gateway = parse_mac_address(a.mac) \/ c = ZeroMaps

Runs ==
  \A t \in Tools :
    /\ Parsed(opt[t], pc[t])
    /\ alone[t] /\ intact[t] => Progress(opt[t], pc[t], config, entry[t])
    /\ alone[t] => GatewayOrNothing(opt[t], pc[t], config)

IndInv == TypeOK /\ Agrees /\ Alone /\ Runs

-----------------------------------------------------------------------------
LEMMA ZeroMapsType == ZeroMaps \in Maps
  BY BytesAssumption DEF Maps, ZeroMaps, ZeroNetAndMask, NetAndMask, ZeroMac, MacU64, U32

\* A setter has a map, and changes no other.
LEMMA PutFacts ==
  ASSUME NEW ms \in Maps, NEW m, Setter(m)
  PROVE  /\ Target(m) \in Fields /\ Put(ms, m) \in Maps
         /\ Put(ms, m)[Target(m)] = Meaning(m)
         /\ \A f \in Fields : f # Target(m) => Put(ms, m)[f] = ms[f]
<1>1. CASE m.type = "SetLocalNetAndMask"
  <2>1. Target(m) = "local" /\ Meaning(m) = [hi |-> m.net, lo |-> m.mask]
    BY <1>1 DEF Target, Meaning
  <2>2. Meaning(m) \in NetAndMask
    BY <1>1, <2>1 DEF Setter, Message, NetAndMask
  <2> QED BY <2>1, <2>2 DEF Put, Maps, Fields
<1>2. CASE m.type = "SetBackendNetAndMask"
  <2>1. Target(m) = "backend" /\ Meaning(m) = [hi |-> m.net, lo |-> m.mask]
    BY <1>2 DEF Target, Meaning
  <2>2. Meaning(m) \in NetAndMask
    BY <1>2, <2>1 DEF Setter, Message, NetAndMask
  <2> QED BY <2>1, <2>2 DEF Put, Maps, Fields
<1>3. CASE m.type = "SetGatewayMacAddress"
  <2>1. Target(m) = "gateway" /\ Meaning(m) = m.mac
    BY <1>3 DEF Target, Meaning
  <2>2. Meaning(m) \in MacU64
    BY <1>3, <2>1 DEF Setter, Message
  <2> QED BY <2>1, <2>2 DEF Put, Maps, Fields
<1> QED BY <1>1, <1>2, <1>3 DEF Setter, Message

\* A setter that is accepted takes the last place among those that wait.
LEMMA AcceptFacts ==
  ASSUME TypeOK, Agrees, NEW m, Setter(m), Controller!Accept(m), config' = Put(config, m)
  PROVE  Agrees' /\ waiting' \in Seq(Message) /\ maps' = maps /\ config' \in Maps
<1>1. /\ waiting \in Seq(Message) /\ config \in Maps /\ maps \in Maps
      /\ m \in Message /\ waiting' = Append(waiting, m) /\ maps' = maps
  BY DEF TypeOK, Setter, Controller!Accept
<1>2. /\ waiting' \in Seq(Message) /\ Len(waiting') = Len(waiting) + 1
      /\ waiting'[Len(waiting) + 1] = m
      /\ \A i \in 1 .. Len(waiting) : waiting'[i] = waiting[i]
      /\ Len(waiting) \in Nat
  BY <1>1
<1>3. /\ Target(m) \in Fields /\ config' \in Maps /\ config'[Target(m)] = Meaning(m)
      /\ \A f \in Fields : f # Target(m) => config'[f] = config[f]
  BY <1>1, PutFacts
<1>4. \A i \in 1 .. Len(waiting') : Setter(waiting'[i])
  BY <1>2 DEF Agrees
<1>5. ASSUME NEW f \in Fields
      PROVE  \/ /\ maps'[f] = config'[f]
                /\ \A i \in 1 .. Len(waiting') : Target(waiting'[i]) # f
             \/ \E i \in 1 .. Len(waiting') :
                  /\ Target(waiting'[i]) = f /\ Meaning(waiting'[i]) = config'[f]
                  /\ \A j \in (i + 1) .. Len(waiting') : Target(waiting'[j]) # f
  <2>1. CASE f = Target(m)
    BY <1>2, <1>3, <2>1
  <2>2. CASE f # Target(m)
    <3>1. CASE /\ maps[f] = config[f]
               /\ \A i \in 1 .. Len(waiting) : Target(waiting[i]) # f
      BY <1>1, <1>2, <1>3, <2>2, <3>1
    <3>2. CASE \E i \in 1 .. Len(waiting) :
                 /\ Target(waiting[i]) = f /\ Meaning(waiting[i]) = config[f]
                 /\ \A j \in (i + 1) .. Len(waiting) : Target(waiting[j]) # f
      <4>1. PICK i \in 1 .. Len(waiting) :
                 /\ Target(waiting[i]) = f /\ Meaning(waiting[i]) = config[f]
                 /\ \A j \in (i + 1) .. Len(waiting) : Target(waiting[j]) # f
        BY <3>2
      <4>2. Target(waiting'[i]) = f /\ Meaning(waiting'[i]) = config'[f]
        BY <1>2, <1>3, <2>2, <4>1
      <4>3. \A j \in (i + 1) .. Len(waiting') : Target(waiting'[j]) # f
        BY <1>2, <2>2, <4>1
      <4> QED BY <1>2, <4>1, <4>2, <4>3
    <3> QED BY <3>1, <3>2 DEF Agrees
  <2> QED BY <2>1, <2>2
<1> QED BY <1>1, <1>2, <1>3, <1>4, <1>5 DEF Agrees, Setter, Target, Meaning

\* The first request that waits is carried out.
LEMMA ApplyStep ==
  ASSUME TypeOK, Agrees, Controller!Apply
  PROVE  /\ Len(waiting) \in Nat /\ Len(waiting) > 0 /\ Setter(waiting[1])
         /\ maps' = Put(maps, waiting[1])
         /\ waiting' \in Seq(Message) /\ Len(waiting') = Len(waiting) - 1
         /\ \A i \in 1 .. Len(waiting') : waiting'[i] = waiting[i + 1]
<1> DEFINE m == waiting[1]
<1>1. /\ waiting \in Seq(Message) /\ waiting # <<>>
      /\ waiting' = Tail(waiting) /\ Head(waiting) = m
  BY DEF TypeOK, Controller!Apply
<1>2. /\ waiting' \in Seq(Message) /\ Len(waiting) \in Nat /\ Len(waiting) > 0
      /\ Len(waiting') = Len(waiting) - 1
      /\ \A i \in 1 .. Len(waiting') : waiting'[i] = waiting[i + 1]
  BY <1>1
<1>3. Setter(m)
  BY <1>2 DEF Agrees
<1>4. maps' = Put(maps, m)
  BY <1>1, <1>3 DEF Controller!Apply, Controller!Written, Controller!Target,
                    Controller!Meaning, Put, Target, Meaning, Setter
<1> QED BY <1>2, <1>3, <1>4

\* Carrying it out brings the maps nearer to what was accepted.
LEMMA ApplyFacts ==
  ASSUME TypeOK, Agrees, Controller!Apply, config' = config
  PROVE  Agrees' /\ waiting' \in Seq(Message) /\ maps' \in Maps
<1> DEFINE m == waiting[1]
<1>1. maps \in Maps /\ config \in Maps
  BY DEF TypeOK
<1>2. /\ waiting' \in Seq(Message) /\ Len(waiting) \in Nat /\ Len(waiting) > 0
      /\ Len(waiting') = Len(waiting) - 1
      /\ \A i \in 1 .. Len(waiting') : waiting'[i] = waiting[i + 1]
  BY ApplyStep
<1>3. Setter(m) /\ maps' = Put(maps, m)
  BY ApplyStep
<1> HIDE DEF m
<1>5. /\ Target(m) \in Fields /\ maps' \in Maps /\ maps'[Target(m)] = Meaning(m)
      /\ \A f \in Fields : f # Target(m) => maps'[f] = maps[f]
  BY <1>1, <1>3, PutFacts
<1>6. \A i \in 1 .. Len(waiting') : Setter(waiting'[i])
  BY <1>2 DEF Agrees
<1>7. ASSUME NEW f \in Fields
      PROVE  \/ /\ maps'[f] = config'[f]
                /\ \A i \in 1 .. Len(waiting') : Target(waiting'[i]) # f
             \/ \E i \in 1 .. Len(waiting') :
                  /\ Target(waiting'[i]) = f /\ Meaning(waiting'[i]) = config'[f]
                  /\ \A j \in (i + 1) .. Len(waiting') : Target(waiting'[j]) # f
  <2>1. CASE /\ maps[f] = config[f]
             /\ \A i \in 1 .. Len(waiting) : Target(waiting[i]) # f
    <3>1. Target(m) # f
      BY <1>2, <2>1 DEF m
    <3> QED BY <1>2, <1>5, <2>1, <3>1
  <2>2. CASE \E i \in 1 .. Len(waiting) :
               /\ Target(waiting[i]) = f /\ Meaning(waiting[i]) = config[f]
               /\ \A j \in (i + 1) .. Len(waiting) : Target(waiting[j]) # f
    <3>1. PICK i \in 1 .. Len(waiting) :
               /\ Target(waiting[i]) = f /\ Meaning(waiting[i]) = config[f]
               /\ \A j \in (i + 1) .. Len(waiting) : Target(waiting[j]) # f
      BY <2>2
    <3>2. CASE i = 1
      <4>1. maps'[f] = config'[f]
        BY <1>5, <3>1, <3>2 DEF m
      <4>2. \A j \in 1 .. Len(waiting') : Target(waiting'[j]) # f
        BY <1>2, <3>1, <3>2
      <4> QED BY <4>1, <4>2
    <3>3. CASE i # 1
      <4>1. i - 1 \in 1 .. Len(waiting') /\ waiting'[i - 1] = waiting[i]
        BY <1>2, <3>3
      <4>2. \A j \in ((i - 1) + 1) .. Len(waiting') : Target(waiting'[j]) # f
        BY <1>2, <3>1, <3>3
      <4> QED BY <3>1, <4>1, <4>2
    <3> QED BY <3>2, <3>3
  <2> QED BY <2>1, <2>2 DEF Agrees
<1> QED BY <1>2, <1>5, <1>6, <1>7 DEF Agrees, Setter, Target, Meaning

\* A controller that has caught up has carried out all it accepted.
LEMMA CaughtUp ==
  ASSUME TypeOK, Agrees, waiting = <<>>
  PROVE  maps = config
<1>1. Len(waiting) = 0 /\ maps \in Maps /\ config \in Maps
  BY DEF TypeOK
<1>2. maps.local = config.local /\ maps.backend = config.backend
      /\ maps.gateway = config.gateway
  BY <1>1 DEF Agrees, Fields
<1> QED BY <1>1, <1>2 DEF Maps

-----------------------------------------------------------------------------
\* The RPCs in their order.
LEMMA FollowingFacts ==
  /\ Steps[1] = "local"
  /\ Following("local") = "backend" /\ Following("backend") = "gateway"
  /\ Following("gateway") = "done"
<1>1. Steps[1] = "local" /\ Steps[2] = "backend" /\ Steps[3] = "gateway"
  BY DEF Steps
<1>2. /\ (CHOOSE j \in 1 .. 3 : Steps[j] = "local") = 1
      /\ (CHOOSE j \in 1 .. 3 : Steps[j] = "backend") = 2
      /\ (CHOOSE j \in 1 .. 3 : Steps[j] = "gateway") = 3
  BY <1>1
<1> QED BY <1>1, <1>2 DEF Following

LEMMA OptType ==
  ASSUME TypeOK, NEW t \in Tools
  PROVE  IsOpt(opt[t])
  BY ToolAssumption DEF TypeOK

\* Shifting in a byte moves every other one up by one.
LEMMA ShiftFacts ==
  ASSUME NEW r \in MacU64, NEW b \in Byte
  PROVE  /\ ShiftIn(r, b) \in MacU64 /\ ShiftIn(r, b)[8] = b
         /\ ShiftIn(r, b)[7] = r[8] /\ ShiftIn(r, b)[6] = r[7] /\ ShiftIn(r, b)[5] = r[6]
         /\ ShiftIn(r, b)[4] = r[5] /\ ShiftIn(r, b)[3] = r[4]
<1>1. \A i \in 1 .. 7 : ShiftIn(r, b)[i] = r[i + 1]
  BY DEF ShiftIn, MacU64
<1>2. ShiftIn(r, b) \in MacU64 /\ ShiftIn(r, b)[8] = b
  BY DEF ShiftIn, MacU64
<1>3. /\ ShiftIn(r, b)[7] = r[7 + 1] /\ ShiftIn(r, b)[6] = r[6 + 1]
      /\ ShiftIn(r, b)[5] = r[5 + 1] /\ ShiftIn(r, b)[4] = r[4 + 1]
      /\ ShiftIn(r, b)[3] = r[3 + 1]
  BY <1>1
<1> QED BY <1>2, <1>3

\* The six bytes, in their order.
LEMMA MacFacts ==
  ASSUME NEW a, IsOpt(a), ~MacPanics(a.mac)
  PROVE  /\ a.mac \in EthAddr
         /\ parse_mac_address(a.mac) \in MacU64
         /\ get_gateway_mac_address(parse_mac_address(a.mac)) = a.mac
<1>1. PICK n \in 1 .. 7 : a.mac \in [1 .. n -> Byte \cup {NoByte}]
  BY DEF IsOpt, MacArg
<1>2. Len(a.mac) = n
  BY <1>1
<1>3. n = 6 /\ \A i \in 1 .. 6 : a.mac[i] # NoByte
  BY <1>2 DEF MacPanics
<1>4. a.mac \in EthAddr
  BY <1>1, <1>3 DEF EthAddr
<1> DEFINE m == a.mac
<1>5. /\ m[1] \in Byte /\ m[2] \in Byte /\ m[3] \in Byte
      /\ m[4] \in Byte /\ m[5] \in Byte /\ m[6] \in Byte
  BY <1>4 DEF EthAddr
<1> HIDE DEF m
<1> DEFINE r1 == ShiftIn(ZeroMac, m[1])
           r2 == ShiftIn(r1, m[2])
           r3 == ShiftIn(r2, m[3])
           r4 == ShiftIn(r3, m[4])
           r5 == ShiftIn(r4, m[5])
           r6 == ShiftIn(r5, m[6])
<1>7. r6 = parse_mac_address(a.mac)
  BY DEF parse_mac_address, m
<1>8. ZeroMac \in MacU64
  BY BytesAssumption DEF ZeroMac, MacU64
<1>9. r1 \in MacU64 /\ r1[8] = m[1]
  <2>1. r1 = ShiftIn(ZeroMac, m[1])
    OBVIOUS
  <2> HIDE DEF r1
  <2> QED BY <1>5, ShiftFacts, <1>8, <2>1
<1>10. /\ r2 \in MacU64 /\ r2[8] = m[2]
      /\ r2[7] = m[1]
  <2> HIDE DEF r1
  <2>1. r2 = ShiftIn(r1, m[2])
    OBVIOUS
  <2> HIDE DEF r2
  <2> QED BY <1>5, ShiftFacts, <1>9, <2>1
<1>11. /\ r3 \in MacU64 /\ r3[8] = m[3]
      /\ r3[7] = m[2] /\ r3[6] = m[1]
  <2> HIDE DEF r2
  <2>1. r3 = ShiftIn(r2, m[3])
    OBVIOUS
  <2> HIDE DEF r3
  <2> QED BY <1>5, ShiftFacts, <1>10, <2>1
<1>12. /\ r4 \in MacU64 /\ r4[8] = m[4]
      /\ r4[7] = m[3] /\ r4[6] = m[2] /\ r4[5] = m[1]
  <2> HIDE DEF r3
  <2>1. r4 = ShiftIn(r3, m[4])
    OBVIOUS
  <2> HIDE DEF r4
  <2> QED BY <1>5, ShiftFacts, <1>11, <2>1
<1>13. /\ r5 \in MacU64 /\ r5[8] = m[5]
      /\ r5[7] = m[4] /\ r5[6] = m[3] /\ r5[5] = m[2] /\ r5[4] = m[1]
  <2> HIDE DEF r4
  <2>1. r5 = ShiftIn(r4, m[5])
    OBVIOUS
  <2> HIDE DEF r5
  <2> QED BY <1>5, ShiftFacts, <1>12, <2>1
<1>14. /\ r6 \in MacU64 /\ r6[8] = m[6]
      /\ r6[7] = m[5] /\ r6[6] = m[4] /\ r6[5] = m[3] /\ r6[4] = m[2] /\ r6[3] = m[1]
  <2> HIDE DEF r5
  <2>1. r6 = ShiftIn(r5, m[6])
    OBVIOUS
  <2> HIDE DEF r6
  <2> QED BY <1>5, ShiftFacts, <1>13, <2>1
<1> HIDE DEF r6
<1>15. get_gateway_mac_address(r6) = m
  <2>1. m \in [1 .. 6 -> Byte]
    BY <1>4 DEF m, EthAddr
  <2>2. \A i \in 1 .. 6 : r6[i + 2] = m[i]
    BY <1>14
  <2> QED BY <2>1, <2>2 DEF get_gateway_mac_address
<1> QED BY <1>4, <1>7, <1>14, <1>15 DEF m

\* A mask of the leading bits tells exactly the addresses of net/prefix.
LEMMA MaskFacts ==
  ASSUME NEW s \in NetArg, s.form = "cidr", Canonical(s), NEW ip \in U32
  PROVE  InNetwork(ip, [hi |-> parse_ip_mask(s)[1], lo |-> parse_ip_mask(s)[2]])
           <=> InCidr(ip, s)
<1>1. s.prefix \in 1 .. Width /\ s.net \subseteq Bits /\ Width \in Nat
      /\ \A b \in s.net : b >= Width - s.prefix
  BY ToolAssumption DEF NetArg, U32, Canonical
<1>2. (Width - s.prefix) % Width = Width - s.prefix
  BY <1>1
<1>3. /\ parse_ip_mask(s)[1] = s.net
      /\ parse_ip_mask(s)[2] = { b \in Bits : b >= Width - s.prefix }
  BY <1>2 DEF parse_ip_mask, OnesShiftedLeft
<1> QED BY <1>1, <1>3 DEF InNetwork, InCidr, U32

\* What a run sends is a setter, of the map that it is about.
LEMMA NetSetter ==
  ASSUME NEW s \in NetArg,
         NEW type \in {"SetLocalNetAndMask", "SetBackendNetAndMask"}
  PROVE  LET m == [type |-> type, net |-> parse_ip_mask(s)[1], mask |-> parse_ip_mask(s)[2]]
         IN  /\ Setter(m) /\ Meaning(m) = [hi |-> parse_ip_mask(s)[1], lo |-> parse_ip_mask(s)[2]]
             /\ Target(m) = IF type = "SetLocalNetAndMask" THEN "local" ELSE "backend"
<1>1. parse_ip_mask(s)[1] \in U32 /\ parse_ip_mask(s)[2] \in U32
  BY DEF parse_ip_mask, NetArg, U32, OnesShiftedLeft
<1> QED BY <1>1 DEF Setter, Message, Meaning, Target

-----------------------------------------------------------------------------
\* Runs of the next state, in terms of the next values of the variables.
LEMMA RunsPrime ==
  ASSUME \A u \in Tools :
           /\ Parsed(opt'[u], pc'[u])
           /\ alone'[u] /\ intact'[u] => Progress(opt'[u], pc'[u], config', entry'[u])
           /\ alone'[u] => GatewayOrNothing(opt'[u], pc'[u], config')
  PROVE  Runs'
<1>1. \A u \in Tools : Bad(opt[u])' <=> Bad(opt'[u])
  BY DEF Bad, MacPanics
<1>2. \A u \in Tools :
        /\ Wanted(opt[u].local, entry[u].local)' = Wanted(opt'[u].local, entry'[u].local)
        /\ Wanted(opt[u].backend, entry[u].backend)'
             = Wanted(opt'[u].backend, entry'[u].backend)
  BY DEF Wanted, parse_ip_mask, OnesShiftedLeft
<1>3. \A u \in Tools : parse_mac_address(opt[u].mac)' = parse_mac_address(opt'[u].mac)
  BY DEF parse_mac_address, ShiftIn
<1>4. \A u \in Tools : Parsed(opt[u], pc[u])'
  BY <1>1 DEF Parsed
<1>5. \A u \in Tools :
        (alone[u] /\ intact[u] => Progress(opt[u], pc[u], config, entry[u]))'
  BY <1>1, <1>2, <1>3 DEF Progress
<1>6. \A u \in Tools : (alone[u] => GatewayOrNothing(opt[u], pc[u], config))'
  BY <1>3 DEF GatewayOrNothing
<1> QED BY <1>4, <1>5, <1>6 DEF Runs

\* A step of run t, to label l: others are not alone while it is at work.
LEMMA StepInd ==
  ASSUME IndInv, NEW t \in Tools, Active(t), NEW l \in Labels \ {"idle"},
         pc' = [pc EXCEPT ![t] = l], UNCHANGED <<opt, history>>,
         maps' \in Maps, config' \in Maps, waiting' \in Seq(Message), Agrees',
         Parsed(opt[t], l),
         alone[t] /\ intact[t] => Progress(opt[t], l, config', entry[t]),
         alone[t] => GatewayOrNothing(opt[t], l, config')
  PROVE  IndInv'
<1> USE DEF IndInv
<1>1. pc \in [Tools -> Labels] /\ UNCHANGED <<opt, entry, alone, intact>>
  BY DEF TypeOK, Labels, history
<1>2. TypeOK'
  BY <1>1 DEF TypeOK, Labels
<1>3. \A u \in Tools : u # t => ~alone[u] /\ pc'[u] = pc[u]
  BY <1>1 DEF Alone
<1>4. Alone'
  BY <1>1, <1>3 DEF Alone, Active
<1>5. Runs'
  <2>1. ASSUME NEW u \in Tools
        PROVE  /\ Parsed(opt'[u], pc'[u])
               /\ alone'[u] /\ intact'[u] => Progress(opt'[u], pc'[u], config', entry'[u])
               /\ alone'[u] => GatewayOrNothing(opt'[u], pc'[u], config')
    <3>1. CASE u = t
      BY <1>1, <3>1
    <3>2. CASE u # t
      BY <1>1, <1>3, <3>2 DEF Runs
    <3> QED BY <3>1, <3>2
  <2> QED BY <2>1, RunsPrime
<1> QED BY <1>2, <1>4, <1>5

\* A step that asks nothing of the controller.
LEMMA MoveInd ==
  ASSUME IndInv, NEW t \in Tools, Active(t), NEW l \in Labels \ {"idle"},
         Goto(t, l), UNCHANGED <<opt, controller, history>>,
         Parsed(opt[t], l),
         alone[t] /\ intact[t] => Progress(opt[t], l, config, entry[t]),
         alone[t] => GatewayOrNothing(opt[t], l, config)
  PROVE  IndInv'
<1>1. UNCHANGED <<maps, waiting, config>>
  BY DEF controller
<1>2. maps' \in Maps /\ config' \in Maps /\ waiting' \in Seq(Message)
  BY <1>1 DEF IndInv, TypeOK
<1>3. Agrees'
  <2>1. \A i \in 1 .. Len(waiting') : Setter(waiting'[i])
    BY <1>1 DEF IndInv, Agrees
  <2>2. \A f \in Fields :
          \/ /\ maps'[f] = config'[f]
             /\ \A i \in 1 .. Len(waiting') : Target(waiting'[i]) # f
          \/ \E i \in 1 .. Len(waiting') :
               /\ Target(waiting'[i]) = f /\ Meaning(waiting'[i]) = config'[f]
               /\ \A j \in (i + 1) .. Len(waiting') : Target(waiting'[j]) # f
    BY <1>1 DEF IndInv, Agrees
  <2> QED BY <2>1, <2>2 DEF Agrees, Setter, Target, Meaning
<1> QED BY <1>1, <1>2, <1>3, StepInd DEF Goto

LEMMA ConnectInd == ASSUME NEW t \in Tools PROVE IndInv /\ Connect(t) => IndInv'
<1> SUFFICES ASSUME IndInv, Connect(t) PROVE IndInv'
  OBVIOUS
<1>1. PICK l \in {"parse", "failed"} : Goto(t, l)
  BY DEF Connect
<1>2. Active(t) /\ pc[t] = "connect" /\ UNCHANGED <<opt, controller, history>>
  BY DEF Connect, Active, Finished
<1>3. Parsed(opt[t], l) /\ GatewayOrNothing(opt[t], l, config)
  BY DEF Parsed, GatewayOrNothing
<1>4. alone[t] /\ intact[t] => Progress(opt[t], l, config, entry[t])
  BY <1>2 DEF IndInv, Runs, Progress
<1> QED BY <1>1, <1>2, <1>3, <1>4, MoveInd DEF Labels, Finished

LEMMA ParseInd == ASSUME NEW t \in Tools PROVE IndInv /\ Parse(t) => IndInv'
<1> SUFFICES ASSUME IndInv, Parse(t) PROVE IndInv'
  OBVIOUS
<1> DEFINE panics == NetPanics(opt[t]) \/ MacPanics(opt[t].mac)
           l == IF panics THEN "failed" ELSE IF opt[t].stats THEN "stats" ELSE "local"
<1>1. Goto(t, l) /\ pc[t] = "parse" /\ UNCHANGED <<opt, controller, history>>
  BY FollowingFacts DEF Parse, ParseUnless
<1>2. Active(t)
  BY <1>1 DEF Active, Finished
<1>3. ~panics /\ ~opt[t].stats => ~Bad(opt[t])
  BY DEF NetPanics, IpMaskPanics, Bad
<1> HIDE DEF panics
<1>4. l \in {"failed", "stats", "local"}
  OBVIOUS
<1>5. (l = "local" => ~Bad(opt[t])) /\ (l = "stats" => opt[t].stats)
  BY <1>3
<1> HIDE DEF l
<1>6. Parsed(opt[t], l) /\ GatewayOrNothing(opt[t], l, config)
  BY <1>4, <1>5 DEF Parsed, GatewayOrNothing
<1>7. alone[t] /\ intact[t] => Progress(opt[t], l, config, entry[t])
  BY <1>1, <1>4 DEF IndInv, Runs, Progress
<1> QED BY <1>1, <1>2, <1>4, <1>6, <1>7, MoveInd DEF Labels, Finished

LEMMA GetStatsInd == ASSUME NEW t \in Tools PROVE IndInv /\ GetStats(t) => IndInv'
<1> SUFFICES ASSUME IndInv, GetStats(t) PROVE IndInv'
  OBVIOUS
<1>1. PICK l \in {"done", "failed"} : Goto(t, l)
  BY DEF GetStats
<1>2. pc[t] = "stats" /\ UNCHANGED <<opt, controller, history>>
  BY DEF GetStats
<1>3. Active(t) /\ opt[t].stats
  BY <1>2 DEF Active, Finished, IndInv, Runs, Parsed
<1>4. Parsed(opt[t], l) /\ GatewayOrNothing(opt[t], l, config)
  BY <1>3 DEF Parsed, GatewayOrNothing
<1>5. alone[t] /\ intact[t] => Progress(opt[t], l, config, entry[t])
  BY <1>2, <1>3 DEF IndInv, Runs, Progress
<1> QED BY <1>1, <1>2, <1>3, <1>4, <1>5, MoveInd DEF Labels, Finished

\* A step that has the controller accept a setter.
LEMMA AcceptInd ==
  ASSUME IndInv, NEW t \in Tools, Active(t), NEW l \in Labels \ {"idle"}, Goto(t, l),
         NEW m, Setter(m), Controller!Accept(m), config' = Put(config, m),
         UNCHANGED <<opt, history>>, Parsed(opt[t], l),
         alone[t] /\ intact[t] => Progress(opt[t], l, Put(config, m), entry[t]),
         alone[t] => GatewayOrNothing(opt[t], l, Put(config, m))
  PROVE  IndInv'
<1>1. Agrees' /\ waiting' \in Seq(Message) /\ maps' = maps /\ config' \in Maps
  BY AcceptFacts DEF IndInv
<1> QED BY <1>1, StepInd DEF IndInv, TypeOK, Goto

\* A setter that fails before it is accepted.
LEMMA FailInd ==
  ASSUME IndInv, NEW t \in Tools, pc[t] \in {"local", "backend", "gateway"},
         Goto(t, "failed"), UNCHANGED <<opt, controller, history>>
  PROVE  IndInv'
<1>1. Active(t) /\ ~Bad(opt[t])
  BY DEF Active, Finished, IndInv, Runs, Parsed
<1>2. /\ Parsed(opt[t], "failed") /\ GatewayOrNothing(opt[t], "failed", config)
      /\ Progress(opt[t], "failed", config, entry[t])
  BY <1>1 DEF Parsed, GatewayOrNothing, Progress
<1> QED BY <1>1, <1>2, MoveInd DEF Labels, Finished

LEMMA SetLocalInd == ASSUME NEW t \in Tools PROVE IndInv /\ SetLocal(t) => IndInv'
<1> SUFFICES ASSUME IndInv, SetLocal(t) PROVE IndInv'
  OBVIOUS
<1> DEFINE a == opt[t]
           m == [type |-> "SetLocalNetAndMask", net |-> parse_ip_mask(a.local)[1],
                 mask |-> parse_ip_mask(a.local)[2]]
<1>1. pc[t] = "local" /\ Active(t) /\ ~Bad(a) /\ a.local \in NetArg
  BY OptType DEF SetLocal, Active, Finished, IndInv, Runs, Parsed, IsOpt
<1>2. /\ Setter(m) /\ Target(m) = "local"
      /\ Meaning(m) = [hi |-> parse_ip_mask(a.local)[1], lo |-> parse_ip_mask(a.local)[2]]
  BY <1>1, NetSetter
<1>3. \/ a.local.form = "empty" /\ Goto(t, "backend") /\ UNCHANGED <<opt, controller, history>>
      \/ /\ a.local.form # "empty" /\ Controller!Accept(m)
         /\ config' = [config EXCEPT ![Target(m)] = Meaning(m)]
         /\ Goto(t, "backend") \/ Goto(t, "failed")
         /\ UNCHANGED <<opt, history>>
      \/ Goto(t, "failed") /\ UNCHANGED <<opt, controller, history>>
  BY <1>1, FollowingFacts DEF SetLocal, SetNet, Rpc
<1> HIDE DEF m
<1>4. /\ Parsed(a, "backend") /\ Parsed(a, "failed")
      /\ \A c : GatewayOrNothing(a, "backend", c) /\ GatewayOrNothing(a, "failed", c)
      /\ \A c : Progress(a, "failed", c, entry[t])
  BY <1>1 DEF Parsed, GatewayOrNothing, Progress
<1>5. alone[t] /\ intact[t] => config = entry[t]
  BY <1>1 DEF IndInv, Runs, Progress
<1>6. CASE /\ a.local.form = "empty" /\ Goto(t, "backend")
           /\ UNCHANGED <<opt, controller, history>>
  <2>1. alone[t] /\ intact[t] => Progress(a, "backend", config, entry[t])
    BY <1>5, <1>6 DEF Progress, Wanted
  <2> QED BY <1>1, <1>4, <1>6, <2>1, MoveInd DEF Labels, Finished
<1>7. CASE /\ a.local.form # "empty" /\ Controller!Accept(m)
           /\ config' = [config EXCEPT ![Target(m)] = Meaning(m)]
           /\ Goto(t, "backend") \/ Goto(t, "failed")
           /\ UNCHANGED <<opt, history>>
  <2>1. /\ Put(config, m)["local"] = Meaning(m)
        /\ Put(config, m)["backend"] = config["backend"]
    BY <1>2, PutFacts DEF IndInv, TypeOK, Fields
  <2>2. alone[t] /\ intact[t] => Progress(a, "backend", Put(config, m), entry[t])
    BY <1>2, <1>5, <1>7, <2>1 DEF Progress, Wanted
  <2>3. config' = Put(config, m)
    BY <1>7 DEF Put
  <2>4. CASE Goto(t, "backend")
    BY <1>1, <1>2, <1>4, <1>7, <2>2, <2>3, <2>4, AcceptInd DEF Labels, Finished
  <2>5. CASE Goto(t, "failed")
    BY <1>1, <1>2, <1>4, <1>7, <2>3, <2>5, AcceptInd DEF Labels, Finished
  <2> QED BY <1>7, <2>4, <2>5
<1>8. CASE Goto(t, "failed") /\ UNCHANGED <<opt, controller, history>>
  BY <1>1, <1>8, FailInd
<1> QED BY <1>3, <1>6, <1>7, <1>8

LEMMA SetBackendInd == ASSUME NEW t \in Tools PROVE IndInv /\ SetBackend(t) => IndInv'
<1> SUFFICES ASSUME IndInv, SetBackend(t) PROVE IndInv'
  OBVIOUS
<1> DEFINE a == opt[t]
           m == [type |-> "SetBackendNetAndMask", net |-> parse_ip_mask(a.backend)[1],
                 mask |-> parse_ip_mask(a.backend)[2]]
<1>1. pc[t] = "backend" /\ Active(t) /\ ~Bad(a) /\ a.backend \in NetArg
  BY OptType DEF SetBackend, Active, Finished, IndInv, Runs, Parsed, IsOpt
<1>2. /\ Setter(m) /\ Target(m) = "backend"
      /\ Meaning(m) = [hi |-> parse_ip_mask(a.backend)[1], lo |-> parse_ip_mask(a.backend)[2]]
  BY <1>1, NetSetter
<1>3. \/ a.backend.form = "empty" /\ Goto(t, "gateway") /\ UNCHANGED <<opt, controller, history>>
      \/ /\ a.backend.form # "empty" /\ Controller!Accept(m)
         /\ config' = [config EXCEPT ![Target(m)] = Meaning(m)]
         /\ Goto(t, "gateway") \/ Goto(t, "failed")
         /\ UNCHANGED <<opt, history>>
      \/ Goto(t, "failed") /\ UNCHANGED <<opt, controller, history>>
  BY <1>1, FollowingFacts DEF SetBackend, SetNet, Rpc
<1> HIDE DEF m
<1>4. /\ Parsed(a, "gateway") /\ Parsed(a, "failed")
      /\ \A c : GatewayOrNothing(a, "gateway", c) /\ GatewayOrNothing(a, "failed", c)
      /\ \A c : Progress(a, "failed", c, entry[t])
  BY <1>1 DEF Parsed, GatewayOrNothing, Progress
<1>5. alone[t] /\ intact[t] =>
        config.local = Wanted(a.local, entry[t].local) /\ config.backend = entry[t].backend
  BY <1>1 DEF IndInv, Runs, Progress
<1>6. CASE /\ a.backend.form = "empty" /\ Goto(t, "gateway")
           /\ UNCHANGED <<opt, controller, history>>
  <2>1. alone[t] /\ intact[t] => Progress(a, "gateway", config, entry[t])
    BY <1>5, <1>6 DEF Progress, Wanted
  <2> QED BY <1>1, <1>4, <1>6, <2>1, MoveInd DEF Labels, Finished
<1>7. CASE /\ a.backend.form # "empty" /\ Controller!Accept(m)
           /\ config' = [config EXCEPT ![Target(m)] = Meaning(m)]
           /\ Goto(t, "gateway") \/ Goto(t, "failed")
           /\ UNCHANGED <<opt, history>>
  <2>1. /\ Put(config, m)["backend"] = Meaning(m)
        /\ Put(config, m)["local"] = config["local"]
    BY <1>2, PutFacts DEF IndInv, TypeOK, Fields
  <2>2. alone[t] /\ intact[t] => Progress(a, "gateway", Put(config, m), entry[t])
    BY <1>2, <1>5, <1>7, <2>1 DEF Progress, Wanted
  <2>3. config' = Put(config, m)
    BY <1>7 DEF Put
  <2>4. CASE Goto(t, "gateway")
    BY <1>1, <1>2, <1>4, <1>7, <2>2, <2>3, <2>4, AcceptInd DEF Labels, Finished
  <2>5. CASE Goto(t, "failed")
    BY <1>1, <1>2, <1>4, <1>7, <2>3, <2>5, AcceptInd DEF Labels, Finished
  <2> QED BY <1>7, <2>4, <2>5
<1>8. CASE Goto(t, "failed") /\ UNCHANGED <<opt, controller, history>>
  BY <1>1, <1>8, FailInd
<1> QED BY <1>3, <1>6, <1>7, <1>8

LEMMA SetGatewayInd == ASSUME NEW t \in Tools PROVE IndInv /\ SetGateway(t) => IndInv'
<1> SUFFICES ASSUME IndInv, SetGateway(t) PROVE IndInv'
  OBVIOUS
<1> DEFINE a == opt[t]
           m == [type |-> "SetGatewayMacAddress", mac |-> parse_mac_address(a.mac)]
<1>1. pc[t] = "gateway" /\ Active(t) /\ ~Bad(a) /\ IsOpt(a)
  BY OptType DEF SetGateway, Active, Finished, IndInv, Runs, Parsed
<1>2. Setter(m) /\ Target(m) = "gateway" /\ Meaning(m) = parse_mac_address(a.mac)
  <2>1. parse_mac_address(a.mac) \in MacU64
    BY <1>1, MacFacts DEF Bad
  <2> QED BY <2>1 DEF Setter, Message, Target, Meaning
<1>3. \/ /\ Controller!Accept(m) /\ config' = [config EXCEPT ![Target(m)] = Meaning(m)]
         /\ Goto(t, "done") \/ Goto(t, "failed")
         /\ UNCHANGED <<opt, history>>
      \/ Goto(t, "failed") /\ UNCHANGED <<opt, controller, history>>
  BY <1>1, FollowingFacts DEF SetGateway, Rpc
<1> HIDE DEF m
<1>4. /\ Parsed(a, "done") /\ Parsed(a, "failed") /\ ~a.stats
      /\ \A c : GatewayOrNothing(a, "failed", c)
      /\ \A c : Progress(a, "failed", c, entry[t])
  BY <1>1 DEF Parsed, GatewayOrNothing, Progress, Bad
<1>5. alone[t] /\ intact[t] =>
        /\ config.local = Wanted(a.local, entry[t].local)
        /\ config.backend = Wanted(a.backend, entry[t].backend)
  BY <1>1 DEF IndInv, Runs, Progress
<1>6. CASE /\ Controller!Accept(m) /\ config' = [config EXCEPT ![Target(m)] = Meaning(m)]
           /\ Goto(t, "done") \/ Goto(t, "failed")
           /\ UNCHANGED <<opt, history>>
  <2>1. /\ Put(config, m)["gateway"] = Meaning(m)
        /\ Put(config, m)["local"] = config["local"]
        /\ Put(config, m)["backend"] = config["backend"]
    BY <1>2, PutFacts DEF IndInv, TypeOK, Fields
  <2>2. alone[t] /\ intact[t] => Progress(a, "done", Put(config, m), entry[t])
    BY <1>2, <1>4, <1>5, <2>1 DEF Progress
  <2>3. GatewayOrNothing(a, "done", Put(config, m))
    BY <1>2, <2>1 DEF GatewayOrNothing
  <2>4. config' = Put(config, m)
    BY <1>6 DEF Put
  <2>5. CASE Goto(t, "done")
    BY <1>1, <1>2, <1>4, <1>6, <2>2, <2>3, <2>4, <2>5, AcceptInd DEF Labels, Finished
  <2>6. CASE Goto(t, "failed")
    BY <1>1, <1>2, <1>4, <1>6, <2>4, <2>6, AcceptInd DEF Labels, Finished
  <2> QED BY <1>6, <2>5, <2>6
<1>7. CASE Goto(t, "failed") /\ UNCHANGED <<opt, controller, history>>
  BY <1>1, <1>7, FailInd
<1> QED BY <1>3, <1>6, <1>7

\* A new run finds the configuration that was accepted so far; no run is alone
\* that was at work before.
LEMMA StartInd == ASSUME NEW t \in Tools PROVE IndInv /\ Start(t) => IndInv'
<1> SUFFICES ASSUME IndInv, Start(t) PROVE IndInv'
  OBVIOUS
<1> USE DEF IndInv
<1>1. PICK a \in Args[t] : opt' = [opt EXCEPT ![t] = a]
  BY DEF Start
<1>2. /\ pc[t] = "idle" /\ pc' = [pc EXCEPT ![t] = "connect"]
      /\ entry' = [entry EXCEPT ![t] = config]
      /\ alone' = [u \in Tools |-> u = t /\ ~\E v \in Tools : Active(v)]
      /\ intact' = [intact EXCEPT ![t] = TRUE]
      /\ UNCHANGED <<maps, waiting, config>>
  BY DEF Start, Goto, controller
<1>3. TypeOK'
  <2>1. DOMAIN opt' = Tools /\ \A u \in Tools : opt'[u] \in Args[u]
    BY <1>1 DEF TypeOK
  <2>2. alone' \in [Tools -> BOOLEAN]
    BY <1>2
  <2> QED BY <1>2, <2>1, <2>2 DEF TypeOK
<1>4. Agrees'
  <2>1. \A i \in 1 .. Len(waiting') : Setter(waiting'[i])
    BY <1>2 DEF Agrees
  <2>2. \A f \in Fields :
          \/ /\ maps'[f] = config'[f]
             /\ \A i \in 1 .. Len(waiting') : Target(waiting'[i]) # f
          \/ \E i \in 1 .. Len(waiting') :
               /\ Target(waiting'[i]) = f /\ Meaning(waiting'[i]) = config'[f]
               /\ \A j \in (i + 1) .. Len(waiting') : Target(waiting'[j]) # f
    BY <1>2 DEF Agrees
  <2> QED BY <2>1, <2>2 DEF Agrees, Setter, Target, Meaning
<1>5. Alone'
  <2>1. SUFFICES ASSUME NEW u \in Tools, alone'[u]
                 PROVE  pc'[u] # "idle" /\ \A v \in Tools : v # u => ~Active(v)'
    BY DEF Alone
  <2>2. u = t /\ \A v \in Tools : ~Active(v)
    BY <1>2, <2>1
  <2> QED BY <1>2, <2>2 DEF TypeOK, Active
<1>6. Runs'
  <2>1. ASSUME NEW u \in Tools
        PROVE  /\ Parsed(opt'[u], pc'[u])
               /\ alone'[u] => Progress(opt'[u], pc'[u], config', entry'[u])
               /\ alone'[u] => GatewayOrNothing(opt'[u], pc'[u], config')
    <3>1. CASE u = t
      <4>1. pc'[u] = "connect" /\ entry'[u] = config'
        BY <1>2, <3>1 DEF TypeOK
      <4> QED BY <4>1 DEF Parsed, Progress, GatewayOrNothing
    <3>2. CASE u # t
      <4>1. ~alone'[u] /\ opt'[u] = opt[u] /\ pc'[u] = pc[u]
        BY <1>1, <1>2, <3>2 DEF TypeOK
      <4> QED BY <4>1 DEF Runs
    <3> QED BY <3>1, <3>2
  <2> QED BY <2>1, RunsPrime
<1> QED BY <1>3, <1>4, <1>5, <1>6

LEMMA ApplyInd == IndInv /\ Apply => IndInv'
<1> SUFFICES ASSUME IndInv, Apply PROVE IndInv'
  OBVIOUS
<1>1. /\ Controller!Apply /\ UNCHANGED <<pc, opt, config, entry, alone, intact>>
  BY DEF Apply, history
<1>2. Agrees' /\ waiting' \in Seq(Message) /\ maps' \in Maps
  BY <1>1, ApplyFacts DEF IndInv
<1>3. TypeOK' /\ Alone'
  BY <1>1, <1>2 DEF IndInv, TypeOK, Alone, Active
<1>4. Runs'
  BY <1>1, RunsPrime DEF IndInv, Runs
<1> QED BY <1>2, <1>3, <1>4 DEF IndInv

\* Death forgets what was accepted, and nothing is intact that was under way.
LEMMA DieInd == IndInv /\ Die => IndInv'
<1> SUFFICES ASSUME IndInv, Die PROVE IndInv'
  OBVIOUS
<1>1. /\ maps' = ZeroMaps /\ waiting' = <<>> /\ config' = ZeroMaps
      /\ intact' = [t \in Tools |-> FALSE]
      /\ UNCHANGED <<pc, opt, entry, alone>>
  BY DEF Die, Controller!Lose, Controller!ZeroMaps, Controller!ZeroNetAndMask,
         Controller!ZeroMac, ZeroMaps, ZeroNetAndMask, ZeroMac
<1>2. TypeOK'
  BY <1>1, ZeroMapsType DEF IndInv, TypeOK
<1>3. Agrees' /\ Alone'
  <2>1. Len(waiting') = 0 /\ \A f \in Fields : maps'[f] = config'[f]
    BY <1>1
  <2>2. Agrees'
    BY <2>1 DEF Agrees
  <2> QED BY <1>1, <2>2 DEF IndInv, Alone, Active
<1>4. Runs'
  <2>1. ASSUME NEW u \in Tools
        PROVE  /\ Parsed(opt'[u], pc'[u])
               /\ alone'[u] /\ intact'[u] => Progress(opt'[u], pc'[u], config', entry'[u])
               /\ alone'[u] => GatewayOrNothing(opt'[u], pc'[u], config')
    BY <1>1 DEF IndInv, Runs, GatewayOrNothing
  <2> QED BY <2>1, RunsPrime
<1> QED BY <1>2, <1>3, <1>4 DEF IndInv

LEMMA StutterInd == IndInv /\ UNCHANGED vars => IndInv'
<1> SUFFICES ASSUME IndInv, UNCHANGED vars PROVE IndInv'
  OBVIOUS
<1>1. UNCHANGED <<pc, opt, maps, waiting, config, entry, alone, intact>>
  BY DEF vars, controller, history
<1>2. TypeOK' /\ Alone'
  BY <1>1 DEF IndInv, TypeOK, Alone, Active
<1>3. Runs'
  BY <1>1, RunsPrime DEF IndInv, Runs
<1>4. Agrees'
  <2>1. \A i \in 1 .. Len(waiting') : Setter(waiting'[i])
    BY <1>1 DEF IndInv, Agrees
  <2>2. \A f \in Fields :
          \/ /\ maps'[f] = config'[f]
             /\ \A i \in 1 .. Len(waiting') : Target(waiting'[i]) # f
          \/ \E i \in 1 .. Len(waiting') :
               /\ Target(waiting'[i]) = f /\ Meaning(waiting'[i]) = config'[f]
               /\ \A j \in (i + 1) .. Len(waiting') : Target(waiting'[j]) # f
    BY <1>1 DEF IndInv, Agrees
  <2> QED BY <2>1, <2>2 DEF Agrees, Setter, Target, Meaning
<1> QED BY <1>2, <1>3, <1>4 DEF IndInv

LEMMA InitInd == Init => IndInv
<1> SUFFICES ASSUME Init PROVE IndInv
  OBVIOUS
<1>1. /\ maps = ZeroMaps /\ waiting = <<>> /\ config = ZeroMaps
      /\ pc = [t \in Tools |-> "idle"]
      /\ alone = [t \in Tools |-> FALSE] /\ intact = [t \in Tools |-> FALSE]
  BY DEF Init, Controller!Init, Controller!ZeroMaps, Controller!ZeroNetAndMask,
         Controller!ZeroMac, ZeroMaps, ZeroNetAndMask, ZeroMac
<1>2. TypeOK
  <2>1. DOMAIN opt = Tools /\ \A t \in Tools : opt[t] \in Args[t]
    BY ToolAssumption DEF Init
  <2>2. entry \in [Tools -> Maps]
    BY ZeroMapsType DEF Init
  <2> QED BY <1>1, <2>1, <2>2, ZeroMapsType DEF TypeOK
<1>3. Len(waiting) = 0 /\ maps = config
  BY <1>1
<1>4. Agrees /\ Alone
  BY <1>1, <1>3 DEF Agrees, Alone
<1>5. Runs
  BY <1>1 DEF Runs, Parsed
<1> QED BY <1>2, <1>4, <1>5 DEF IndInv

\* The inductive invariant holds of every behavior.
THEOREM Invariance == Spec => []IndInv
<1>1. ASSUME IndInv, NEW t \in Tools,
             \/ Start(t) \/ Connect(t) \/ Parse(t) \/ GetStats(t)
             \/ SetLocal(t) \/ SetBackend(t) \/ SetGateway(t)
      PROVE  IndInv'
  BY <1>1, StartInd, ConnectInd, ParseInd, GetStatsInd, SetLocalInd, SetBackendInd,
     SetGatewayInd
<1>2. IndInv /\ [Next]_vars => IndInv'
  BY <1>1, ApplyInd, DieInd, StutterInd DEF Next
<1> QED BY <1>2, InitInd, PTL DEF Spec

\* Every variable has its type.
THEOREM TypeCorrect == Spec => []TypeOK
<1>1. IndInv => TypeOK
  BY DEF IndInv
<1> QED BY <1>1, Invariance, PTL

\* What a successful run has typed is what the XDP program reads, for addresses
\* of any width.
THEOREM DoesAsTyped == Spec => []ConfiguredAsTyped
<1>1. ASSUME IndInv, NEW t \in Tools, Succeeded(t), intact[t], waiting = <<>>
      PROVE  AsTyped(t)
  <2> DEFINE a == opt[t]
             e == entry[t]
  <2>1. pc[t] = "done" /\ alone[t] /\ ~a.stats /\ IsOpt(a) /\ ~Bad(a)
    BY <1>1, OptType DEF IndInv, Succeeded, Runs, Parsed
  <2>2. maps = config
    BY <1>1, CaughtUp DEF IndInv
  <2>3. /\ maps.local = Wanted(a.local, e.local)
        /\ maps.backend = Wanted(a.backend, e.backend)
        /\ maps.gateway = parse_mac_address(a.mac)
    BY <1>1, <2>1, <2>2 DEF IndInv, Runs, Progress
  <2>4. ASSUME NEW s \in NetArg, s.form # "bad", Canonical(s), NEW was
        PROVE  SetAsTyped(s, Wanted(s, was), was)
    <3>1. CASE s.form = "empty"
      BY <3>1 DEF SetAsTyped, Wanted
    <3>2. CASE s.form = "cidr"
      <4>1. s.form # "empty"
        BY <3>2
      <4> QED BY <2>4, <3>2, <4>1, MaskFacts DEF SetAsTyped, Wanted
    <3> QED BY <2>4, <3>1, <3>2 DEF NetArg
  <2>5. get_gateway_mac_address(maps.gateway) = a.mac
    BY <2>1, <2>3, MacFacts DEF Bad
  <2>6. /\ a.local \in NetArg /\ a.local.form # "bad"
        /\ a.backend \in NetArg /\ a.backend.form # "bad"
    BY <2>1 DEF IsOpt, Bad
  <2>7. Canonical(a.local) => SetAsTyped(a.local, maps.local, e.local)
    BY <2>3, <2>4, <2>6
  <2>8. Canonical(a.backend) => SetAsTyped(a.backend, maps.backend, e.backend)
    BY <2>3, <2>4, <2>6
  <2> QED BY <2>5, <2>7, <2>8 DEF AsTyped
<1>2. IndInv => ConfiguredAsTyped
  BY <1>1 DEF ConfiguredAsTyped
<1> QED BY <1>2, Invariance, PTL

\* A bad argument is noticed before anything has been changed.
THEOREM NothingIfBad == Spec => []BadArgumentsChangeNothing
<1>1. ASSUME IndInv, NEW t \in Tools, alone[t], intact[t], waiting = <<>>, Bad(opt[t])
      PROVE  maps = entry[t]
  <2>1. maps = config
    BY <1>1, CaughtUp DEF IndInv
  <2>2. pc[t] \in {"connect", "parse", "stats", "failed"} \/ (pc[t] = "done" /\ opt[t].stats)
    BY <1>1 DEF IndInv, TypeOK, Alone, Runs, Parsed, Finished
  <2>3. Progress(opt[t], pc[t], config, entry[t])
    BY <1>1 DEF IndInv, Runs
  <2> QED BY <1>1, <2>1, <2>2, <2>3 DEF Progress
<1>2. IndInv => BadArgumentsChangeNothing
  BY <1>1 DEF BadArgumentsChangeNothing, Bad
<1> QED BY <1>2, Invariance, PTL

\* Whenever the controller dies, a run that succeeds does not leave a router
\* that forwards to another gateway than the one typed.
THEOREM NoHalf == Spec => []NoHalfConfiguration
<1>1. ASSUME IndInv, NEW t \in Tools, Succeeded(t), waiting = <<>>, Forwards
      PROVE  get_gateway_mac_address(maps.gateway) = opt[t].mac
  <2>1. pc[t] = "done" /\ alone[t] /\ ~opt[t].stats /\ IsOpt(opt[t]) /\ ~Bad(opt[t])
    BY <1>1, OptType DEF IndInv, Succeeded, Runs, Parsed
  <2>2. maps = config
    BY <1>1, CaughtUp DEF IndInv
  <2>3. config # ZeroMaps
    BY <1>1, <2>2 DEF Forwards, InNetwork, ZeroMaps, ZeroNetAndMask
  <2>4. maps.gateway = parse_mac_address(opt[t].mac)
    <3>1. GatewayOrNothing(opt[t], pc[t], config)
      BY <1>1, <2>1 DEF IndInv, Runs
    <3>2. config.gateway = parse_mac_address(opt[t].mac)
      BY <2>1, <2>3, <3>1, Zenon DEF GatewayOrNothing
    <3> QED BY <2>2, <3>2
  <2> QED BY <2>1, <2>4, MacFacts DEF Bad
<1>2. IndInv => NoHalfConfiguration
  BY <1>1 DEF NoHalfConfiguration
<1> QED BY <1>2, Invariance, PTL

-----------------------------------------------------------------------------
(***************************************************************************)
(* Where a setting comes from.  What a run asked for stays on record, as   *)
(* its command line does not change and it does not start twice.           *)
(***************************************************************************)
\* A run with command line a that has got to l is past its arguments.
AskedAt(a, l) == l \in {"local", "backend", "gateway"} \cup Finished /\ ~Bad(a)

\* Command line a asks for v in map f.
Asks(a, f, v) ==
  \/ f = "local" /\ AskedFor(a.local, v)
  \/ f = "backend" /\ AskedFor(a.backend, v)
  \/ f = "gateway" /\ get_gateway_mac_address(v) = a.mac

\* v is what map f starts with or what some run has asked for, where the runs
\* are at p with the command lines o.
Typed(p, o, f, v) ==
  v = ZeroMaps[f] \/ \E t \in Tools : AskedAt(o[t], p[t]) /\ Asks(o[t], f, v)

\* The maps, and the requests that will be written to them.
Origins ==
  /\ \A f \in Fields : Typed(pc, opt, f, maps[f])
  /\ \A i \in 1 .. Len(waiting) : Typed(pc, opt, Target(waiting[i]), Meaning(waiting[i]))

LEMMA AskedStays ==
  ASSUME IndInv, [Next]_vars, NEW t \in Tools, AskedAt(opt[t], pc[t])
  PROVE  AskedAt(opt'[t], pc'[t]) /\ opt'[t] = opt[t]
<1> DEFINE Past == {"local", "backend", "gateway"} \cup Finished
<1>1. pc \in [Tools -> Labels] /\ pc[t] \in Past /\ pc[t] # "idle"
  BY DEF IndInv, TypeOK, Labels, AskedAt, Finished
<1>2. \A l \in {"local", "backend", "gateway"} : Following(l) \in Past
  BY FollowingFacts DEF Finished
<1>3. ASSUME NEW u \in Tools, NEW l, Goto(u, l), opt' = opt, u = t => l \in Past
      PROVE  pc'[t] \in Past /\ opt'[t] = opt[t]
  BY <1>1, <1>3 DEF Goto
<1>4. ASSUME NEW u \in Tools, Start(u) PROVE pc'[t] \in Past /\ opt'[t] = opt[t]
  <2>1. u # t
    BY <1>1, <1>4 DEF Start
  <2> QED BY <1>1, <1>4, <2>1 DEF Start, Goto, IndInv, TypeOK
<1>5. ASSUME NEW u \in Tools, Connect(u) \/ Parse(u) \/ GetStats(u)
      PROVE  pc'[t] \in Past /\ opt'[t] = opt[t]
  <2>1. \E l : Goto(u, l) /\ opt' = opt
    BY <1>5 DEF Connect, Parse, ParseUnless, GetStats
  <2>2. u # t \/ GetStats(u)
    BY <1>1, <1>5 DEF Connect, Parse, ParseUnless, Finished
  <2>3. CASE u # t
    BY <1>3, <2>1, <2>3
  <2>4. CASE GetStats(u)
    BY <1>3, <2>4 DEF GetStats, Finished
  <2> QED BY <2>2, <2>3, <2>4
<1>6. ASSUME NEW u \in Tools, SetLocal(u) \/ SetBackend(u) \/ SetGateway(u)
      PROVE  pc'[t] \in Past /\ opt'[t] = opt[t]
  <2>1. opt' = opt /\ (Goto(u, Following(pc[u])) \/ Goto(u, "failed"))
    BY <1>6 DEF SetLocal, SetBackend, SetGateway, SetNet, Rpc
  <2>2. Following(pc[u]) \in Past
    BY <1>2, <1>6 DEF SetLocal, SetBackend, SetGateway
  <2> QED BY <1>3, <2>1, <2>2 DEF Finished
<1>7. CASE Apply \/ Die \/ UNCHANGED vars
  BY <1>1, <1>7 DEF Apply, Die, vars
<1> HIDE DEF Past
<1>8. ASSUME NEW u \in Tools,
             \/ Start(u) \/ Connect(u) \/ Parse(u) \/ GetStats(u)
             \/ SetLocal(u) \/ SetBackend(u) \/ SetGateway(u)
      PROVE  pc'[t] \in Past /\ opt'[t] = opt[t]
  BY <1>4, <1>5, <1>6, <1>8
<1>9. ASSUME pc'[t] \in Past, opt'[t] = opt[t]
      PROVE  AskedAt(opt'[t], pc'[t])
  BY <1>9 DEF AskedAt, Past
<1> QED BY <1>7, <1>8, <1>9 DEF Next

LEMMA TypedStays ==
  ASSUME IndInv, [Next]_vars, NEW f, NEW v, Typed(pc, opt, f, v)
  PROVE  Typed(pc', opt', f, v)
<1>1. CASE v = ZeroMaps[f]
  BY <1>1 DEF Typed
<1>2. CASE \E t \in Tools : AskedAt(opt[t], pc[t]) /\ Asks(opt[t], f, v)
  <2>1. PICK t \in Tools : AskedAt(opt[t], pc[t]) /\ Asks(opt[t], f, v)
    BY <1>2
  <2>2. AskedAt(opt'[t], pc'[t]) /\ opt'[t] = opt[t]
    BY <2>1, AskedStays
  <2>3. Asks(opt'[t], f, v)
    BY <2>1, <2>2
  <2> QED BY <2>2, <2>3 DEF Typed
<1> QED BY <1>1, <1>2 DEF Typed

\* What a run sends is what it was asked for.
LEMMA SentIsAsked ==
  ASSUME IndInv, NEW t \in Tools, SetLocal(t) \/ SetBackend(t) \/ SetGateway(t)
  PROVE  \/ UNCHANGED <<maps, waiting>>
         \/ \E m : Setter(m) /\ Controller!Accept(m) /\ Typed(pc, opt, Target(m), Meaning(m))
<1> DEFINE a == opt[t]
<1>1. IsOpt(a) /\ ~Bad(a) /\ AskedAt(a, pc[t])
  BY OptType DEF IndInv, Runs, Parsed, AskedAt, SetLocal, SetBackend, SetGateway
<1>2. a.local \in NetArg /\ a.backend \in NetArg
      /\ a.local.form # "bad" /\ a.backend.form # "bad" /\ ~MacPanics(a.mac)
  BY <1>1 DEF IsOpt, Bad
<1>3. ASSUME NEW m, Setter(m), Controller!Accept(m), NEW f, Target(m) = f, Asks(a, f, Meaning(m))
      PROVE  \E n : Setter(n) /\ Controller!Accept(n) /\ Typed(pc, opt, Target(n), Meaning(n))
  BY <1>1, <1>3 DEF Typed
<1>4. ASSUME NEW s \in NetArg, s.form # "bad", s.form # "empty",
             NEW type \in {"SetLocalNetAndMask", "SetBackendNetAndMask"}
      PROVE  LET m == [type |-> type, net |-> parse_ip_mask(s)[1],
                       mask |-> parse_ip_mask(s)[2]]
             IN  /\ Setter(m)
                 /\ Target(m) = IF type = "SetLocalNetAndMask" THEN "local" ELSE "backend"
                 /\ AskedFor(s, Meaning(m))
  <2>1. s.form = "cidr"
    BY <1>4 DEF NetArg
  <2> QED BY <2>1, NetSetter DEF AskedFor, Pack
<1>5. CASE SetLocal(t)
  <2> DEFINE m == [type |-> "SetLocalNetAndMask", net |-> parse_ip_mask(a.local)[1],
                   mask |-> parse_ip_mask(a.local)[2]]
  <2>1. \/ UNCHANGED controller
        \/ a.local.form # "empty" /\ Controller!Accept(m)
    BY <1>5 DEF SetLocal, SetNet, Rpc
  <2>2. a.local.form # "empty" => Setter(m) /\ Target(m) = "local" /\ Asks(a, "local", Meaning(m))
    BY <1>2, <1>4 DEF Asks
  <2> HIDE DEF m
  <2> QED BY <1>3, <2>1, <2>2 DEF controller
<1>6. CASE SetBackend(t)
  <2> DEFINE m == [type |-> "SetBackendNetAndMask", net |-> parse_ip_mask(a.backend)[1],
                   mask |-> parse_ip_mask(a.backend)[2]]
  <2>1. \/ UNCHANGED controller
        \/ a.backend.form # "empty" /\ Controller!Accept(m)
    BY <1>6 DEF SetBackend, SetNet, Rpc
  <2>2. a.backend.form # "empty" =>
          Setter(m) /\ Target(m) = "backend" /\ Asks(a, "backend", Meaning(m))
    BY <1>2, <1>4 DEF Asks
  <2> HIDE DEF m
  <2> QED BY <1>3, <2>1, <2>2 DEF controller
<1>7. CASE SetGateway(t)
  <2> DEFINE m == [type |-> "SetGatewayMacAddress", mac |-> parse_mac_address(a.mac)]
  <2>1. UNCHANGED controller \/ Controller!Accept(m)
    BY <1>7 DEF SetGateway, Rpc
  <2>2. Setter(m) /\ Target(m) = "gateway" /\ Asks(a, "gateway", Meaning(m))
    BY <1>1, <1>2, MacFacts DEF Setter, Message, Target, Meaning, Asks
  <2> HIDE DEF m
  <2> QED BY <1>3, <2>1, <2>2 DEF controller
<1> QED BY <1>5, <1>6, <1>7

LEMMA OriginsInd == IndInv /\ Origins /\ [Next]_vars => Origins'
<1> SUFFICES ASSUME IndInv, Origins, [Next]_vars PROVE Origins'
  OBVIOUS
<1>1. SUFFICES /\ \A f \in Fields : Typed(pc', opt', f, maps'[f])
               /\ \A i \in 1 .. Len(waiting') :
                    Typed(pc', opt', Target(waiting'[i]), Meaning(waiting'[i]))
  <2>1. \A t \in Tools : AskedAt(opt[t], pc[t])' <=> AskedAt(opt'[t], pc'[t])
    BY DEF AskedAt, Bad, MacPanics
  <2>2. \A t \in Tools, f \in Fields :
          Asks(opt[t], f, maps[f])' <=> Asks(opt'[t], f, maps'[f])
    BY DEF Asks, AskedFor, parse_ip_mask, OnesShiftedLeft, Pack, get_gateway_mac_address
  <2>3. \A t \in Tools, i \in 1 .. Len(waiting') :
          Asks(opt[t], Target(waiting[i]), Meaning(waiting[i]))'
            <=> Asks(opt'[t], Target(waiting'[i]), Meaning(waiting'[i]))
    BY DEF Asks, AskedFor, parse_ip_mask, OnesShiftedLeft, Pack, get_gateway_mac_address,
           Target, Meaning
  <2>4. (\A f \in Fields : Typed(pc', opt', f, maps'[f]))
          => \A f \in Fields : Typed(pc, opt, f, maps[f])'
    BY <2>1, <2>2 DEF Typed
  <2>5. ASSUME NEW i \in 1 .. Len(waiting'),
               Typed(pc', opt', Target(waiting'[i]), Meaning(waiting'[i]))
        PROVE  Typed(pc, opt, Target(waiting[i]), Meaning(waiting[i]))'
    <3>1. Target(waiting[i])' = Target(waiting'[i]) /\ Meaning(waiting[i])' = Meaning(waiting'[i])
      BY DEF Target, Meaning
    <3> QED BY <2>1, <2>3, <2>5, <3>1 DEF Typed
  <2> QED BY <2>4, <2>5 DEF Origins
<1>2. /\ \A f \in Fields : Typed(pc', opt', f, maps[f])
      /\ \A i \in 1 .. Len(waiting) :
           Typed(pc', opt', Target(waiting[i]), Meaning(waiting[i]))
  BY TypedStays DEF Origins
<1>3. CASE UNCHANGED <<maps, waiting>>
  BY <1>2, <1>3
<1>4. ASSUME NEW m, Controller!Accept(m), Typed(pc, opt, Target(m), Meaning(m))
      PROVE  /\ \A f \in Fields : Typed(pc', opt', f, maps'[f])
             /\ \A i \in 1 .. Len(waiting') :
                  Typed(pc', opt', Target(waiting'[i]), Meaning(waiting'[i]))
  <2>1. waiting \in Seq(Message) /\ waiting' = Append(waiting, m) /\ maps' = maps
    BY <1>4 DEF IndInv, TypeOK, Controller!Accept
  <2>2. /\ Len(waiting') = Len(waiting) + 1 /\ waiting'[Len(waiting) + 1] = m
        /\ \A i \in 1 .. Len(waiting) : waiting'[i] = waiting[i]
    BY <2>1
  <2>3. Typed(pc', opt', Target(m), Meaning(m))
    BY <1>4, TypedStays
  <2>4. ASSUME NEW i \in 1 .. Len(waiting')
        PROVE  Typed(pc', opt', Target(waiting'[i]), Meaning(waiting'[i]))
    <3>1. i = Len(waiting) + 1 \/ i \in 1 .. Len(waiting)
      BY <2>1, <2>2
    <3> QED BY <1>2, <2>2, <2>3, <3>1
  <2> QED BY <1>2, <2>1, <2>4
<1>5. CASE Apply
  <2>1. /\ Len(waiting) \in Nat /\ Len(waiting) > 0 /\ Setter(waiting[1])
        /\ maps' = Put(maps, waiting[1])
        /\ Len(waiting') = Len(waiting) - 1
        /\ \A i \in 1 .. Len(waiting') : waiting'[i] = waiting[i + 1]
    BY <1>5, ApplyStep DEF IndInv, Apply
  <2>2. /\ maps'[Target(waiting[1])] = Meaning(waiting[1])
        /\ \A f \in Fields : f # Target(waiting[1]) => maps'[f] = maps[f]
    BY <2>1, PutFacts DEF IndInv, TypeOK
  <2>3. Typed(pc', opt', Target(waiting[1]), Meaning(waiting[1]))
    BY <1>2, <2>1
  <2>4. \A f \in Fields : Typed(pc', opt', f, maps'[f])
    BY <1>2, <2>2, <2>3
  <2>5. ASSUME NEW i \in 1 .. Len(waiting')
        PROVE  Typed(pc', opt', Target(waiting'[i]), Meaning(waiting'[i]))
    <3>1. i + 1 \in 1 .. Len(waiting)
      BY <2>1
    <3> QED BY <1>2, <2>1, <3>1
  <2> QED BY <2>4, <2>5
<1>6. CASE Die
  <2>1. maps' = ZeroMaps /\ Len(waiting') = 0
    BY <1>6 DEF Die, Controller!Lose, Controller!ZeroMaps, Controller!ZeroNetAndMask,
         Controller!ZeroMac, ZeroMaps, ZeroNetAndMask, ZeroMac
  <2> QED BY <2>1 DEF Typed
<1>7. ASSUME NEW t \in Tools, Start(t) \/ Connect(t) \/ Parse(t) \/ GetStats(t)
      PROVE  UNCHANGED <<maps, waiting>>
  BY <1>7 DEF Start, Connect, Parse, ParseUnless, GetStats, controller
<1>8. ASSUME NEW t \in Tools, SetLocal(t) \/ SetBackend(t) \/ SetGateway(t)
      PROVE  \/ UNCHANGED <<maps, waiting>>
             \/ \E m : Setter(m) /\ Controller!Accept(m) /\ Typed(pc, opt, Target(m), Meaning(m))
  BY <1>8, SentIsAsked
<1>9. CASE UNCHANGED vars
  BY <1>3, <1>9 DEF vars, controller
<1> QED BY <1>3, <1>4, <1>5, <1>6, <1>7, <1>8, <1>9 DEF Next

\* Under any interleaving of runs, failures and deaths of the controller, a
\* map holds its zeroes or what one run with good arguments was given for it.
THEOREM OnlyTyped == Spec => []OnlyWhatWasTyped
<1>1. Init => Origins
  <2> SUFFICES ASSUME Init PROVE Origins
    OBVIOUS
  <2>1. maps = ZeroMaps /\ Len(waiting) = 0
    BY DEF Init, Controller!Init, Controller!ZeroMaps, Controller!ZeroNetAndMask,
           Controller!ZeroMac, ZeroMaps, ZeroNetAndMask, ZeroMac
  <2> QED BY <2>1 DEF Origins, Typed
<1>2. Origins => OnlyWhatWasTyped
  <2> SUFFICES ASSUME Origins PROVE OnlyWhatWasTyped
    OBVIOUS
  <2>1. \A t \in Tools : AskedAt(opt[t], pc[t]) <=> Asked(t)
    BY DEF AskedAt, Asked, Bad
  <2>2. ASSUME NEW f \in Fields
        PROVE  \/ maps[f] = ZeroMaps[f]
               \/ \E t \in Tools : Asked(t) /\ Asks(opt[t], f, maps[f])
    BY <2>1 DEF Origins, Typed
  <2>3. /\ ZeroMaps["local"] = ZeroNetAndMask /\ ZeroMaps["backend"] = ZeroNetAndMask
        /\ ZeroMaps["gateway"] = ZeroMac
    BY DEF ZeroMaps
  <2>4. \/ maps.local = ZeroNetAndMask
        \/ \E t \in Tools : Asked(t) /\ AskedFor(opt[t].local, maps.local)
    BY <2>2, <2>3 DEF Asks, Fields
  <2>5. \/ maps.backend = ZeroNetAndMask
        \/ \E t \in Tools : Asked(t) /\ AskedFor(opt[t].backend, maps.backend)
    BY <2>2, <2>3 DEF Asks, Fields
  <2>6. \/ maps.gateway = ZeroMac
        \/ \E t \in Tools : Asked(t) /\ get_gateway_mac_address(maps.gateway) = opt[t].mac
    BY <2>2, <2>3 DEF Asks, Fields
  <2> QED BY <2>4, <2>5, <2>6 DEF OnlyWhatWasTyped
<1> QED BY <1>1, <1>2, OriginsInd, Invariance, PTL DEF Spec

\* Whatever is typed, however many run it and whenever the controller dies:
\* the tool only makes steps that ConfigStore allows its clients, so BpfActor,
\* which implements ConfigStore, may take its place (tool main.rs:63-105).
THEOREM KeepsToStore == Spec => Controller!Spec
<1>1. Init => Controller!Init
  BY DEF Init
<1>2. ASSUME IndInv, NEW t \in Tools, SetLocal(t) \/ SetBackend(t) \/ SetGateway(t)
      PROVE  Controller!Next \/ UNCHANGED <<maps, waiting>>
  <2>1. CASE \E m : Setter(m) /\ Controller!Accept(m) /\ Typed(pc, opt, Target(m), Meaning(m))
    <3>1. PICK m : Setter(m) /\ Controller!Accept(m)
      BY <2>1
    <3>2. m \in Controller!Message
      BY <3>1 DEF Setter, Message, Controller!Message, MacU64, Controller!MacU64,
                  U32, Controller!U32
    <3> QED BY <3>1, <3>2 DEF Controller!Next
  <2> QED BY <1>2, <2>1, SentIsAsked
<1>3. IndInv /\ [Next]_vars => [Controller!Next]_<<maps, waiting>>
  <2> SUFFICES ASSUME IndInv, [Next]_vars
               PROVE  Controller!Next \/ UNCHANGED <<maps, waiting>>
    OBVIOUS
  <2>1. ASSUME NEW t \in Tools, Start(t) \/ Connect(t) \/ Parse(t) \/ GetStats(t)
        PROVE  UNCHANGED <<maps, waiting>>
    BY <2>1 DEF Start, Connect, Parse, ParseUnless, GetStats, controller
  <2>2. CASE Apply \/ Die
    BY <2>2 DEF Apply, Die, Controller!Next
  <2>3. CASE UNCHANGED vars
    BY <2>3 DEF vars, controller
  <2> QED BY <1>2, <2>1, <2>2, <2>3 DEF Next
<1> QED BY <1>1, <1>3, Invariance, PTL DEF Spec, Controller!Spec
=============================================================================
