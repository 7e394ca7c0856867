--------------------------- MODULE BpfActorProofs ---------------------------
(***************************************************************************)
(* The controller's promises for any number of RPCs, any requests and any  *)
(* channel capacity.                                                       *)
(***************************************************************************)
EXTENDS BpfActor, SequenceTheorems, TLAPS

LEMMA ZeroMapsType ==
  ZeroMaps \in Maps
  BY BytesAssumption DEF Maps, ZeroMaps, ZeroNetAndMask, NetAndMask, ZeroMac, MacU64, U32

LEMMA AttachOrderType ==
  ASSUME NEW o \in Opt
  PROVE  AttachOrder(o) \in Seq(Modes)
  <1>1. /\ <<"SKB">> \in Seq(Modes) /\ <<"HW">> \in Seq(Modes) /\ <<"DRV">> \in Seq(Modes)
        /\ <<"HW", "DRV">> \in Seq(Modes)
        /\ <<"HW", "DRV", "SKB">> \in Seq(Modes)
    BY DEF Modes
  <1>2. QED
    BY <1>1 DEF AttachOrder, Forced

LEMMA InitInd == Init => IndInv
  <1>. SUFFICES ASSUME Init PROVE IndInv
    OBVIOUS
  <1>1. TypeOK
    <2>1. [type |-> "GetStats"] \in Message
      BY DEF Message
    <2>2. opt \in Opt /\ nic \subseteq Modes
      BY ActorAssumption DEF Init
    <2>3. queue \in Seq(Tasks) /\ Len(queue) <= ChannelCapacity /\ tries \in Seq(Modes)
      BY ActorAssumption DEF Init
    <2>4. req \in [Tasks -> Message]
      BY <2>1 DEF Init
    <2>5. QED
      BY <2>2, <2>3, <2>4, ZeroMapsType DEF Init, TypeOK
  <1>2. Len(queue) = 0
    BY DEF Init
  <1>3. \A t \in Tasks : ~InFlight(t)
    BY <1>2, ActorAssumption DEF Init, InFlight, Queued
  <1>4. Bookkeeping
    BY <1>2, <1>3 DEF Init, Bookkeeping
  <1>5. NothingDropped /\ NothingOvertakes /\ Stands
    BY DEF Init, NothingDropped, NothingOvertakes, Stands
  <1>6. Ahead
    BY <1>2 DEF Init, Ahead
  <1>7. QED
    BY <1>1, <1>4, <1>5, <1>6 DEF IndInv

\* While the maps stay as they are, so does what was carried out.
LEMMA StandsKept ==
  ASSUME Stands, UNCHANGED <<maps, applied>>,
         \A v \in applied : req'[v] = req[v] /\ before'[v] = before[v]
  PROVE  Stands'
  <1>. SUFFICES ASSUME NEW v \in applied
                PROVE  \/ maps[Target(req[v])] = Meaning(req[v])
                       \/ \E u \in applied : /\ u # v /\ req[u].type = req[v].type
                                             /\ u \notin before[v]
    BY DEF Stands, Target, Meaning
  <1>1. QED
    BY DEF Stands

\* Steps of the operator, the server socket and the attach sequence leave
\* requests alone.
LEMMA QuietInd ==
  ASSUME IndInv, TypeOK', UNCHANGED <<maps, channel, rpc, req, history>>
  PROVE  IndInv'
  <1>1. Bookkeeping'
    BY DEF IndInv, Bookkeeping, InFlight, Queued, IsSet, channel, history
  <1>2. NothingDropped' /\ NothingOvertakes'
    BY DEF IndInv, NothingDropped, NothingOvertakes, InFlight, Queued, IsSet, channel, history
  <1>3. Ahead'
    BY DEF IndInv, Ahead, channel, history
  <1>4. Stands'
    BY StandsKept DEF IndInv, history
  <1>5. QED
    BY <1>1, <1>2, <1>3, <1>4 DEF IndInv

\* Death leaves nothing to be kept in order.
LEMMA DieInd ==
  ASSUME IndInv, Die
  PROVE  IndInv'
  <1>1. TypeOK'
    <2>1. queue' \in Seq(Tasks) /\ Len(queue') <= ChannelCapacity /\ tries' \in Seq(Modes)
      BY ActorAssumption DEF Die
    <2>2. rpc' \in [Tasks -> {"idle", "sending", "awaiting", "ok", "cancelled", "failed"}]
      BY DEF IndInv, TypeOK, Die
    <2>3. QED
      BY <2>1, <2>2, ZeroMapsType DEF IndInv, TypeOK, Die
  <1>2. Len(queue') = 0
    BY DEF Die
  <1>3. \A t \in Tasks : ~InFlight(t)' /\ rpc'[t] # "awaiting"
    BY <1>2, ActorAssumption DEF Die, InFlight, Queued
  <1>4. Bookkeeping'
    BY <1>2, <1>3 DEF Die, Bookkeeping
  <1>5. NothingDropped' /\ NothingOvertakes' /\ Stands'
    BY <1>3 DEF Die, NothingDropped, NothingOvertakes, Stands
  <1>6. Ahead'
    BY <1>2 DEF Die, Ahead
  <1>7. QED
    BY <1>1, <1>4, <1>5, <1>6 DEF IndInv

LEMMA StartInd ==
  ASSUME IndInv, Start
  PROVE  IndInv'
  <1>1. PICK o \in Opt : opt' = o /\ tries' = AttachOrder(o)
    BY ActorAssumption DEF Start
  <1>2. TypeOK'
    BY <1>1, AttachOrderType DEF IndInv, TypeOK, Start, channel, history
  <1>3. QED
    BY <1>2, QuietInd DEF Start

LEMMA AttachInd ==
  ASSUME IndInv, Attach
  PROVE  IndInv'
  <1>1. CASE tries = <<>> /\ Die
    BY <1>1, DieInd
  <1>2. CASE /\ tries # <<>>
             /\ \/ mode' = Head(tries) /\ actor' = "running" /\ tries' = tries
                \/ tries' = Tail(tries) /\ UNCHANGED <<actor, mode>>
             /\ UNCHANGED <<listening, opt, nic, maps, channel, rpc, req, history, starts>>
    <2>1. tries \in Seq(Modes)
      BY DEF IndInv, TypeOK
    <2>2. Head(tries) \in Modes /\ Tail(tries) \in Seq(Modes)
      BY <1>2, <2>1
    <2>3. /\ actor' \in {"down", "load", "attach", "running"}
          /\ tries' \in Seq(Modes) /\ mode' \in Modes \cup {"none"}
      BY <1>2, <2>1, <2>2 DEF IndInv, TypeOK
    <2>4. TypeOK'
      BY <1>2, <2>3 DEF IndInv, TypeOK, channel, history
    <2>5. QED
      BY <1>2, <2>4, QuietInd
  <1>3. CASE tries # <<>> /\ Attached
    BY <1>2, <1>3 DEF Attached
  <1>4. CASE /\ tries # <<>> /\ tries' = Tail(tries)
             /\ UNCHANGED <<actor, mode, listening, opt, nic, maps, channel, rpc, req, history, starts>>
    BY <1>2, <1>4
  <1>5. QED
    BY <1>1, <1>3, <1>4 DEF Attach

-----------------------------------------------------------------------------
LEMMA CallInd ==
  ASSUME IndInv, NEW t \in Tasks, NEW r \in Message, Call(t, r)
  PROVE  IndInv'
  <1>. USE DEF Call, Handle, process, channel
  <1>1. TypeOK'
    BY DEF IndInv, TypeOK
  <1>2. /\ rpc[t] = "idle" /\ ~InFlight(t) /\ t \notin acked /\ t \notin applied
    BY DEF IndInv, Bookkeeping
  <1>3. /\ \A u \in Tasks : InFlight(u)' <=> InFlight(u)
        /\ \A u \in Tasks \ {t} : /\ rpc'[u] = rpc[u] /\ req'[u] = req[u]
                                  /\ before'[u] = before[u]
        /\ rpc'[t] = "sending" /\ before'[t] = acked
    BY DEF IndInv, TypeOK, InFlight, Queued
  <1>4. Bookkeeping'
    BY <1>2, <1>3 DEF IndInv, TypeOK, Bookkeeping, IsSet
  <1>5. NothingDropped'
    BY <1>2, <1>3 DEF IndInv, TypeOK, NothingDropped
  <1>6. Ahead'
    BY <1>2, <1>3 DEF IndInv, TypeOK, Ahead, InFlight, Queued
  <1>7. NothingOvertakes'
    BY <1>2, <1>3 DEF IndInv, TypeOK, NothingOvertakes, IsSet
  <1>8. Stands'
    <2>1. applied \subseteq Tasks \ {t}
      BY <1>2 DEF IndInv, TypeOK
    <2>2. QED
      BY <1>3, <2>1, StandsKept DEF IndInv
  <1>9. QED
    BY <1>1, <1>4, <1>5, <1>6, <1>7, <1>8 DEF IndInv

\* A task that is given up was not answered, and is on its way to the actor
\* only if it was cancelled.
LEMMA GivenUpInd ==
  ASSUME IndInv, NEW t \in Tasks, NEW end \in {"cancelled", "failed"},
         rpc[t] # "ok", end = "failed" => rpc[t] = "idle",
         rpc' = [rpc EXCEPT ![t] = end],
         UNCHANGED <<process, maps, channel, req, history, starts>>
  PROVE  IndInv'
  <1>. USE DEF process, channel, history
  <1>1. TypeOK'
    BY DEF IndInv, TypeOK
  <1>2. /\ \A u \in Tasks : InFlight(u)' <=> InFlight(u)
        /\ \A u \in Tasks \ {t} : rpc'[u] = rpc[u]
        /\ rpc'[t] = end /\ t \notin acked
        /\ InFlight(t) => end = "cancelled"
        /\ \A u \in Tasks : IsSet(u)' <=> IsSet(u)
    BY DEF IndInv, TypeOK, Bookkeeping, InFlight, Queued, IsSet
  <1>3. Bookkeeping'
    BY <1>2 DEF IndInv, TypeOK, Bookkeeping
  <1>4. NothingDropped'
    BY <1>2 DEF IndInv, TypeOK, NothingDropped
  <1>5. Ahead'
    BY DEF IndInv, Ahead
  <1>6. NothingOvertakes'
    BY <1>2 DEF IndInv, TypeOK, NothingOvertakes
  <1>7. Stands'
    BY StandsKept DEF IndInv
  <1>8. QED
    BY <1>1, <1>3, <1>4, <1>5, <1>6, <1>7 DEF IndInv

LEMMA CancelInd ==
  ASSUME IndInv, NEW t \in Tasks, Cancel(t)
  PROVE  IndInv'
  BY GivenUpInd DEF Cancel

LEMMA UnimplementedInd ==
  ASSUME IndInv, NEW t \in Tasks, Unimplemented(t)
  PROVE  IndInv'
  BY GivenUpInd DEF Unimplemented

LEMMA SendInd ==
  ASSUME IndInv, NEW t \in Tasks, Send(t)
  PROVE  IndInv'
  <1>. USE DEF Send, Sent, process
  <1>1. /\ queue \in Seq(Tasks) /\ queue' = Append(queue, t)
        /\ rpc[t] = "sending"
        /\ Len(queue') = Len(queue) + 1
        /\ queue'[Len(queue) + 1] = t
        /\ \A i \in 1 .. Len(queue) : queue'[i] = queue[i]
        /\ Len(queue) \in Nat
    BY DEF IndInv, TypeOK
  <1>2. ~InFlight(t) /\ t \notin acked /\ t \notin applied
    BY <1>1 DEF IndInv, Bookkeeping
  <1>3. /\ InFlight(t)'
        /\ \A u \in Tasks \ {t} : InFlight(u)' <=> InFlight(u)
    BY <1>1 DEF InFlight, Queued
  <1>4. /\ \A u \in Tasks \ {t} : rpc'[u] = rpc[u] /\ (u \in acked' <=> u \in acked)
        /\ rpc'[t] = IF IsSet(t) THEN "ok" ELSE "awaiting"
        /\ t \in acked' <=> IsSet(t)
        /\ \A u \in Tasks : IsSet(u)' <=> IsSet(u)
    BY <1>2 DEF IndInv, TypeOK, IsSet
  <1>5. TypeOK'
    <2>1. queue' \in Seq(Tasks) /\ Len(queue') <= ChannelCapacity
      BY <1>1, ActorAssumption
    <2>2. acked' \subseteq Tasks /\ rpc' \in [Tasks -> {"idle", "sending", "awaiting", "ok", "cancelled", "failed"}]
      BY DEF IndInv, TypeOK
    <2>3. QED
      BY <2>1, <2>2 DEF IndInv, TypeOK
  <1>6. Bookkeeping'
    <2>1. \A i \in 1 .. Len(queue) : queue[i] # t
      BY <1>2 DEF InFlight, Queued
    <2>2. \A i, j \in 1 .. Len(queue') : queue'[i] = queue'[j] => i = j
      BY <1>1, <2>1 DEF IndInv, Bookkeeping
    <2>3. \A i \in 1 .. Len(queue') : queue'[i] # handling'
      BY <1>1, <1>2 DEF IndInv, Bookkeeping, InFlight
    <2>4. QED
      BY <1>2, <1>3, <1>4, <2>2, <2>3 DEF IndInv, TypeOK, Bookkeeping
  <1>7. NothingDropped'
    BY <1>3, <1>4 DEF IndInv, NothingDropped
  <1>8. Ahead'
    <2>. SUFFICES ASSUME NEW v \in Tasks, NEW u \in before[v]
                  PROVE  /\ \A i \in 1 .. Len(queue') : queue'[i] = v =>
                              \/ u \in applied \/ handling = u
                              \/ \E j \in 1 .. (i - 1) : queue'[j] = u
                         /\ handling = v => u \in applied
      BY DEF Ahead
    <2>1. handling = v => u \in applied
      BY DEF IndInv, Ahead
    <2>2. ASSUME NEW i \in 1 .. Len(queue), queue'[i] = v
          PROVE  \/ u \in applied \/ handling = u
                 \/ \E j \in 1 .. (i - 1) : queue'[j] = u
      BY <1>1, <2>2 DEF IndInv, Ahead
    <2>3. u \in Tasks /\ u \in acked
      BY DEF IndInv, TypeOK, Bookkeeping
    <2>4. \/ u \in applied \/ handling = u
          \/ \E j \in 1 .. Len(queue) : queue'[j] = u
      BY <1>1, <2>3 DEF IndInv, NothingDropped, InFlight, Queued
    <2>5. QED
      BY <1>1, <2>1, <2>2, <2>4
  <1>9. NothingOvertakes'
    BY <1>2, <1>4 DEF IndInv, TypeOK, NothingOvertakes
  <1>10. Stands'
    BY StandsKept DEF IndInv
  <1>11. QED
    BY <1>5, <1>6, <1>7, <1>8, <1>9, <1>10 DEF IndInv

-----------------------------------------------------------------------------
LEMMA RecvInd ==
  ASSUME IndInv, Recv
  PROVE  IndInv'
  <1>. USE DEF Recv, Take, process, history
  <1>1. /\ queue \in Seq(Tasks) /\ queue # <<>>
        /\ handling' = queue[1] /\ handling' \in Tasks
        /\ queue' \in Seq(Tasks)
        /\ Len(queue) \in Nat \ {0}
        /\ Len(queue') = Len(queue) - 1
        /\ \A i \in 1 .. Len(queue') : queue'[i] = queue[i + 1]
        /\ handling = None
    BY DEF IndInv, TypeOK
  <1>2. \A u \in Tasks : InFlight(u)' <=> InFlight(u)
    <2>. SUFFICES ASSUME NEW u \in Tasks PROVE InFlight(u)' <=> InFlight(u)
      OBVIOUS
    <2>1. handling # u
      BY <1>1, ActorAssumption
    <2>2. InFlight(u)' => InFlight(u)
      BY <1>1 DEF InFlight, Queued
    <2>3. ASSUME NEW i \in 1 .. Len(queue), queue[i] = u PROVE InFlight(u)'
      <3>1. CASE i = 1
        BY <1>1, <2>3, <3>1 DEF InFlight
      <3>2. CASE i # 1
        <4>1. i - 1 \in 1 .. Len(queue') /\ queue'[i - 1] = u
          BY <1>1, <2>3, <3>2
        <4>2. QED
          BY <4>1 DEF InFlight, Queued
      <3>3. QED
        BY <3>1, <3>2
    <2>4. QED
      BY <2>1, <2>2, <2>3 DEF InFlight, Queued
  <1>3. TypeOK'
    BY <1>1, ActorAssumption DEF IndInv, TypeOK
  <1>4. Bookkeeping'
    <2>1. \A i, j \in 1 .. Len(queue') : queue'[i] = queue'[j] => i = j
      BY <1>1 DEF IndInv, Bookkeeping
    <2>2. \A i \in 1 .. Len(queue') : queue'[i] # handling'
      BY <1>1 DEF IndInv, Bookkeeping
    <2>3. QED
      BY <1>2, <2>1, <2>2 DEF IndInv, Bookkeeping, IsSet
  <1>5. NothingDropped'
    BY <1>2 DEF IndInv, NothingDropped
  <1>6. Ahead'
    <2>. SUFFICES ASSUME NEW v \in Tasks, NEW u \in before[v]
                  PROVE  /\ \A i \in 1 .. Len(queue') : queue'[i] = v =>
                              \/ u \in applied \/ handling' = u
                              \/ \E j \in 1 .. (i - 1) : queue'[j] = u
                         /\ handling' = v => u \in applied
      BY DEF Ahead
    <2>1. handling # u
      BY <1>1, ActorAssumption DEF IndInv, TypeOK
    <2>2. \A i \in 1 .. Len(queue) : queue[i] = v =>
            u \in applied \/ \E j \in 1 .. (i - 1) : queue[j] = u
      BY <2>1 DEF IndInv, Ahead
    <2>3. handling' = v => u \in applied
      BY <1>1, <2>2
    <2>4. ASSUME NEW i \in 1 .. Len(queue'), queue'[i] = v, u \notin applied
          PROVE  handling' = u \/ \E j \in 1 .. (i - 1) : queue'[j] = u
      <3>1. PICK j \in 1 .. i : queue[j] = u
        BY <1>1, <2>2, <2>4
      <3>2. CASE j = 1
        BY <1>1, <3>1, <3>2
      <3>3. CASE j # 1
        <4>1. j - 1 \in 1 .. (i - 1) /\ queue'[j - 1] = u
          BY <1>1, <3>1, <3>3
        <4>2. QED
          BY <4>1
      <3>4. QED
        BY <3>2, <3>3
    <2>5. QED
      BY <2>3, <2>4
  <1>7. NothingOvertakes'
    BY DEF IndInv, NothingOvertakes, IsSet
  <1>8. Stands'
    BY StandsKept DEF IndInv
  <1>9. QED
    BY <1>3, <1>4, <1>5, <1>6, <1>7, <1>8 DEF IndInv

\* When the actor is done with a message, only that message has left.
LEMMA Finished ==
  ASSUME IndInv, NEW t \in Tasks, handling = t, handling' = None, queue' = queue
  PROVE  /\ ~InFlight(t)'
         /\ \A u \in Tasks \ {t} : InFlight(u)' <=> InFlight(u)
         /\ \A i \in 1 .. Len(queue') : queue'[i] # handling'
  <1>1. \A i \in 1 .. Len(queue) : queue[i] # t /\ queue[i] \in Tasks
    BY DEF IndInv, TypeOK, Bookkeeping
  <1>2. QED
    BY <1>1, ActorAssumption DEF InFlight, Queued

LEMMA GetStatsInd ==
  ASSUME IndInv, handle_message, NEW t \in Tasks, handling = t, GetStats(t)
  PROVE  IndInv'
  <1>. USE DEF handle_message, process
  <1>1. ~IsSet(t) /\ t \notin acked /\ t \notin applied
    BY DEF IndInv, TypeOK, Bookkeeping, GetStats, IsSet
  <1>2. /\ UNCHANGED <<maps, queue, req, acked, applied, before>>
        /\ handling' = None
        /\ \A u \in Tasks \ {t} : rpc'[u] = rpc[u]
        /\ rpc'[t] = IF rpc[t] = "awaiting" THEN "ok" ELSE rpc[t]
        /\ \A u \in Tasks : IsSet(u)' <=> IsSet(u)
    BY DEF IndInv, TypeOK, GetStats, IsSet
  <1>3. /\ ~InFlight(t)'
        /\ \A u \in Tasks \ {t} : InFlight(u)' <=> InFlight(u)
        /\ \A i \in 1 .. Len(queue') : queue'[i] # handling'
    BY <1>2, Finished
  <1>4. TypeOK'
    BY DEF IndInv, TypeOK, GetStats
  <1>5. Bookkeeping'
    BY <1>1, <1>2, <1>3 DEF IndInv, Bookkeeping
  <1>6. NothingDropped'
    BY <1>1, <1>2, <1>3 DEF IndInv, NothingDropped
  <1>7. Ahead'
    <2>1. \A v \in Tasks : t \notin before[v]
      BY <1>1 DEF IndInv, Bookkeeping
    <2>2. QED
      BY <1>2, <2>1, ActorAssumption DEF IndInv, Ahead
  <1>8. NothingOvertakes'
    <2>1. before[t] \subseteq applied
      BY <1>1 DEF IndInv, Ahead
    <2>2. QED
      BY <1>1, <1>2, <2>1 DEF IndInv, NothingOvertakes
  <1>9. Stands'
    BY <1>2, StandsKept DEF IndInv
  <1>10. QED
    BY <1>4, <1>5, <1>6, <1>7, <1>8, <1>9 DEF IndInv

\* A setter writes the map it is about, with what its client meant, and no
\* other map.
LEMMA WriteIsMeant ==
  ASSUME TypeOK, NEW t \in Tasks, SetConfig(t)
  PROVE  /\ IsSet(t)
         /\ Target(req[t]) \in {"local", "backend", "gateway"}
         /\ maps' = [maps EXCEPT ![Target(req[t])] = Meaning(req[t])]
         /\ maps' \in Maps
  <1>. DEFINE m == req[t]
  <1>1. m \in Message /\ maps \in Maps
    BY DEF TypeOK
  <1>2. CASE m.type = "SetLocalNetAndMask" /\ set_local_net_mask(m)
    <2>1. Target(m) = "local" /\ Meaning(m) = Pack(m.net, m.mask)
      BY <1>2 DEF Target, Meaning, Pack
    <2>2. Pack(m.net, m.mask) \in NetAndMask
      BY <1>1, <1>2 DEF Message, Pack, NetAndMask
    <2>3. QED
      BY <1>1, <1>2, <2>1, <2>2 DEF Maps, set_local_net_mask, IsSet
  <1>3. CASE m.type = "SetBackendNetAndMask" /\ set_backend_net_mask(m)
    <2>1. Target(m) = "backend" /\ Meaning(m) = Pack(m.net, m.mask)
      BY <1>3 DEF Target, Meaning, Pack
    <2>2. Pack(m.net, m.mask) \in NetAndMask
      BY <1>1, <1>3 DEF Message, Pack, NetAndMask
    <2>3. QED
      BY <1>1, <1>3, <2>1, <2>2 DEF Maps, set_backend_net_mask, IsSet
  <1>4. CASE m.type = "SetGatewayMacAddress" /\ set_gateway_mac_address(m)
    <2>1. Target(m) = "gateway" /\ Meaning(m) = m.mac
      BY <1>4 DEF Target, Meaning
    <2>2. m.mac \in MacU64
      BY <1>1, <1>4 DEF Message
    <2>3. QED
      BY <1>1, <1>4, <2>1, <2>2 DEF Maps, set_gateway_mac_address, IsSet
  <1>5. QED
    BY <1>2, <1>3, <1>4 DEF SetConfig

\* Two setters of different types are about different maps.
LEMMA TargetsDiffer ==
  ASSUME TypeOK, NEW t \in Tasks, NEW u \in Tasks, IsSet(t), IsSet(u),
         req[t].type # req[u].type
  PROVE  Target(req[t]) # Target(req[u])
  <1>1. /\ req[t].type \in {"SetLocalNetAndMask", "SetBackendNetAndMask", "SetGatewayMacAddress"}
        /\ req[u].type \in {"SetLocalNetAndMask", "SetBackendNetAndMask", "SetGatewayMacAddress"}
    BY DEF TypeOK, Message, IsSet
  <1>2. QED
    BY <1>1 DEF Target

LEMMA SetConfigInd ==
  ASSUME IndInv, handle_message, NEW t \in Tasks, handling = t, SetConfig(t)
  PROVE  IndInv'
  <1>. USE DEF handle_message, process
  <1>1. /\ IsSet(t) /\ InFlight(t) /\ t \in acked /\ t \notin applied
        /\ rpc[t] = "ok" /\ before[t] \subseteq applied
    BY WriteIsMeant DEF IndInv, Bookkeeping, Ahead, InFlight
  <1>2. /\ UNCHANGED <<queue, rpc, req, acked, before>>
        /\ applied' = applied \cup {t}
        /\ handling' = None
        /\ \A u \in Tasks : IsSet(u)' <=> IsSet(u)
    BY DEF SetConfig, IsSet
  <1>3. /\ ~InFlight(t)'
        /\ \A u \in Tasks \ {t} : InFlight(u)' <=> InFlight(u)
        /\ \A i \in 1 .. Len(queue') : queue'[i] # handling'
    BY <1>2, Finished
  <1>4. TypeOK'
    <2>1. maps' \in Maps
      BY WriteIsMeant DEF IndInv
    <2>2. QED
      BY <1>2, <2>1 DEF IndInv, TypeOK
  <1>5. Bookkeeping'
    BY <1>1, <1>2, <1>3 DEF IndInv, Bookkeeping
  <1>6. NothingDropped'
    BY <1>1, <1>2, <1>3 DEF IndInv, NothingDropped
  <1>7. Ahead'
    BY <1>2, ActorAssumption DEF IndInv, Ahead
  <1>8. NothingOvertakes'
    BY <1>1, <1>2 DEF IndInv, NothingOvertakes
  <1>9. Stands'
    <2>. SUFFICES ASSUME NEW v \in applied'
                  PROVE  \/ maps'[Target(req[v])] = Meaning(req[v])
                         \/ \E u \in applied' : /\ u # v /\ req[u].type = req[v].type
                                                /\ u \notin before[v]
      BY <1>2 DEF Stands, Target, Meaning
    <2>1. /\ Target(req[t]) \in {"local", "backend", "gateway"}
          /\ maps' = [maps EXCEPT ![Target(req[t])] = Meaning(req[t])]
          /\ maps \in Maps
      BY WriteIsMeant DEF IndInv, TypeOK
    <2>2. CASE v = t
      BY <2>1, <2>2 DEF Maps
    <2>3. CASE v # t /\ req[v].type = req[t].type
      <3>1. v \in Tasks /\ v \in applied
        BY <1>2, <2>3 DEF IndInv, TypeOK
      <3>2. t \notin before[v]
        BY <1>1, <3>1 DEF IndInv, NothingOvertakes
      <3>3. QED
        BY <1>2, <2>3, <3>2
    <2>4. CASE v # t /\ req[v].type # req[t].type
      <3>1. v \in Tasks /\ v \in applied /\ IsSet(v)
        BY <1>2, <2>4 DEF IndInv, TypeOK, Bookkeeping
      <3>2. Target(req[v]) # Target(req[t])
        BY <1>1, <2>4, <3>1, TargetsDiffer DEF IndInv
      <3>3. maps'[Target(req[v])] = maps[Target(req[v])]
        <4>1. Target(req[v]) \in {"local", "backend", "gateway"}
          BY <3>1 DEF IndInv, TypeOK, Message, IsSet, Target
        <4>2. QED
          BY <2>1, <3>2, <4>1 DEF Maps
      <3>4. QED
        BY <1>2, <3>1, <3>3 DEF IndInv, Stands
    <2>5. QED
      BY <2>2, <2>3, <2>4
  <1>10. QED
    BY <1>4, <1>5, <1>6, <1>7, <1>8, <1>9 DEF IndInv

-----------------------------------------------------------------------------
\* The bookkeeping of channel, actor and tasks holds in every state of every
\* controller, through cancellations, crashes and restarts.
THEOREM Inductive == Spec => []IndInv
  <1>1. IndInv /\ [Next]_vars => IndInv'
    <2>. SUFFICES ASSUME IndInv, [Next]_vars PROVE IndInv'
      OBVIOUS
    <2>1. CASE Start
      BY <2>1, StartInd
    <2>2. CASE Crash
      BY <2>2, DieInd DEF Crash
    <2>3. CASE Listen
      <3>1. TypeOK'
        BY <2>3 DEF IndInv, TypeOK, Listen, channel, history
      <3>2. QED
        BY <2>3, <3>1, QuietInd DEF Listen
    <2>4. CASE Load
      <3>1. TypeOK'
        BY <2>4 DEF IndInv, TypeOK, Load, channel, history
      <3>2. QED
        BY <2>4, <3>1, QuietInd DEF Load
    <2>5. CASE Attach
      BY <2>5, AttachInd
    <2>6. CASE Recv
      BY <2>6, RecvInd
    <2>7. CASE handle_message
      <3>1. handling \in Tasks
        BY <2>7 DEF IndInv, TypeOK, handle_message
      <3>2. GetStats(handling) \/ SetConfig(handling)
        BY <2>7 DEF handle_message
      <3>3. QED
        BY <2>7, <3>1, <3>2, GetStatsInd, SetConfigInd
    <2>8. ASSUME NEW t \in Tasks, NEW r \in Requests, Call(t, r) PROVE IndInv'
      BY <2>8, CallInd, ActorAssumption
    <2>9. ASSUME NEW t \in Tasks, Send(t) PROVE IndInv'
      BY <2>9, SendInd
    <2>10. ASSUME NEW t \in Tasks, Cancel(t) PROVE IndInv'
      BY <2>10, CancelInd
    <2>13. ASSUME NEW t \in Tasks, Unimplemented(t) PROVE IndInv'
      BY <2>13, UnimplementedInd
    <2>11. CASE UNCHANGED vars
      <3>1. TypeOK'
        BY <2>11 DEF IndInv, TypeOK, vars, process, channel, history
      <3>2. QED
        BY <2>11, <3>1, QuietInd DEF vars
    <2>12. QED
      BY <2>1, <2>2, <2>3, <2>4, <2>5, <2>6, <2>7, <2>8, <2>9, <2>10, <2>11, <2>13 DEF Next
  <1>2. QED
    BY <1>1, InitInd, PTL DEF Spec

\* Every variable of the controller keeps its type and the channel never
\* exceeds its capacity.
THEOREM TypeCorrect == Spec => []TypeOK
  <1>1. IndInv => TypeOK
    BY DEF IndInv
  <1>2. QED
    BY <1>1, Inductive, PTL

\* No answered setter and no waiting get_stats is ever dropped, so the expect
\* of bpf_actor.rs:33 is unreachable while the process lives.
THEOREM RequestsNotDropped == Spec => []NothingDropped
  <1>1. IndInv => NothingDropped
    BY DEF IndInv
  <1>2. QED
    BY <1>1, Inductive, PTL

\* Requests take effect in the order of their answers, and an answered
\* get_stats is a barrier for all setters answered before it began.
THEOREM RequestsInOrder == Spec => []NothingOvertakes
  <1>1. IndInv => NothingOvertakes
    BY DEF IndInv
  <1>2. QED
    BY <1>1, Inductive, PTL

\* With an empty channel a map holds the value of the setter that began after
\* all other setters of the map had been answered.
THEOREM LastSetterWins == Spec => []LastWordWins
  <1>1. IndInv => LastWordWins
    <2>. SUFFICES ASSUME IndInv, NEW t \in acked,
                         ~\E u \in Tasks : InFlight(u),
                         \A u \in acked \ {t} : req[u].type = req[t].type => u \in before[t]
                  PROVE  maps[Target(req[t])] = Meaning(req[t])
      BY DEF LastWordWins
    <2>1. t \in applied
      BY DEF IndInv, TypeOK, NothingDropped
    <2>2. applied \subseteq acked
      BY DEF IndInv, Bookkeeping
    <2>3. QED
      BY <2>1, <2>2 DEF IndInv, Stands
  <1>2. QED
    BY <1>1, Inductive, PTL

-----------------------------------------------------------------------------
(***************************************************************************)
(* The controller implements ConfigStore.                                  *)
(***************************************************************************)
\* What is pending is a sequence of tasks, and with it the store's requests.
LEMMA PendingType ==
  ASSUME IndInv
  PROVE  /\ Pending \in Seq(Tasks)
         /\ \A i \in 1 .. Len(Pending) : Pending[i] \in Tasks /\ InFlight(Pending[i])
         /\ AcceptedRequests \in Seq(Message)
         /\ Len(AcceptedRequests) = Len(Pending)
  <1>1. queue \in Seq(Tasks) /\ req \in [Tasks -> Message]
    BY DEF IndInv, TypeOK
  <1>2. /\ Pending \in Seq(Tasks)
        /\ \A i \in 1 .. Len(Pending) : Pending[i] \in Tasks /\ InFlight(Pending[i])
    <2>1. CASE handling = None
      BY <1>1, <2>1 DEF Pending, InFlight, Queued
    <2>2. CASE handling \in Tasks
      <3>1. Pending = <<handling>> \o queue
        BY <2>2, ActorAssumption DEF Pending
      <3>2. /\ Pending \in Seq(Tasks) /\ Len(Pending) = Len(queue) + 1
            /\ Pending[1] = handling
            /\ \A i \in 2 .. Len(Pending) : Pending[i] = queue[i - 1] /\ i - 1 \in 1 .. Len(queue)
        BY <1>1, <2>2, <3>1
      <3>3. QED
        BY <1>1, <2>2, <3>2 DEF InFlight, Queued
    <2>3. QED
      BY <2>1, <2>2 DEF IndInv, TypeOK
  <1>3. QED
    BY <1>1, <1>2 DEF AcceptedRequests

\* As long as nothing enters or leaves and the requests in flight stay the
\* same, so do the store's.
LEMMA SamePending ==
  ASSUME IndInv, Pending' = Pending,
         \A u \in Tasks : InFlight(u) => req'[u] = req[u]
  PROVE  AcceptedRequests' = AcceptedRequests
  BY PendingType DEF AcceptedRequests

LEMMA SendAccepts ==
  ASSUME IndInv, NEW t \in Tasks, Send(t)
  PROVE  Store!Accept(req[t])
  <1>. USE DEF Send, Sent
  <1>1. queue \in Seq(Tasks) /\ queue' = Append(queue, t) /\ handling' = handling /\ req' = req
    BY DEF IndInv, TypeOK
  <1>2. /\ Pending \in Seq(Tasks) /\ Len(AcceptedRequests) = Len(Pending)
        /\ AcceptedRequests \in Seq(Message)
    BY PendingType
  <1>3. Pending' = Append(Pending, t)
    <2>1. CASE handling = None
      BY <1>1, <2>1 DEF Pending
    <2>2. CASE handling # None
      <3>1. handling \in Tasks
        BY <2>2 DEF IndInv, TypeOK
      <3>2. <<handling>> \o Append(queue, t) = Append(<<handling>> \o queue, t)
        BY <1>1, <3>1
      <3>3. QED
        BY <1>1, <2>2, <3>2 DEF Pending
    <2>3. QED
      BY <2>1, <2>2
  <1>4. AcceptedRequests' = Append(AcceptedRequests, req[t])
    BY <1>1, <1>2, <1>3 DEF AcceptedRequests
  <1>5. QED
    BY <1>4 DEF Store!Accept

LEMMA HandleApplies ==
  ASSUME IndInv, handle_message
  PROVE  Store!Apply
  <1>1. /\ handling \in Tasks /\ handling' = None /\ queue' = queue /\ req' = req
        /\ queue \in Seq(Tasks) /\ req \in [Tasks -> Message]
    BY DEF IndInv, TypeOK, handle_message
  <1>2. Pending = <<handling>> \o queue /\ Pending' = queue
    BY <1>1, ActorAssumption DEF Pending
  <1>3. /\ Len(Pending) = Len(queue) + 1 /\ Pending[1] = handling
        /\ \A i \in 1 .. Len(queue) : Pending[i + 1] = queue[i]
    BY <1>1, <1>2
  <1>4. /\ AcceptedRequests \in Seq(Message) /\ Len(AcceptedRequests) = Len(Pending)
        /\ \A i \in 1 .. Len(Pending) : AcceptedRequests[i] = req[Pending[i]]
    BY PendingType DEF AcceptedRequests
  <1>5. AcceptedRequests' = [i \in 1 .. Len(queue) |-> req[queue[i]]]
    BY <1>1, <1>2 DEF AcceptedRequests
  <1>6. AcceptedRequests # <<>> /\ Head(AcceptedRequests) = req[handling]
    BY <1>1, <1>3, <1>4
  <1>7. AcceptedRequests' = Tail(AcceptedRequests)
    <2>. DEFINE rest == Tail(AcceptedRequests)
    <2>1. /\ rest \in Seq(Message) /\ Len(rest) = Len(queue)
          /\ \A i \in 1 .. Len(queue) : rest[i] = AcceptedRequests[i + 1]
      BY <1>1, <1>3, <1>4, <1>6
    <2>2. \A i \in 1 .. Len(queue) : rest[i] = req[queue[i]]
      BY <1>1, <1>3, <1>4, <2>1
    <2>3. /\ AcceptedRequests' \in Seq(Message) /\ Len(AcceptedRequests') = Len(queue)
          /\ \A i \in 1 .. Len(queue) : AcceptedRequests'[i] = req[queue[i]]
      BY <1>1, <1>5
    <2>. HIDE DEF rest
    <2>4. AcceptedRequests' = rest
      BY <2>1, <2>2, <2>3, SeqEqual
    <2>5. QED
      BY <2>4 DEF rest
  <1>8. maps' = Store!Written(maps, req[handling])
    <2>1. CASE GetStats(handling)
      BY <2>1 DEF GetStats, Store!Written
    <2>2. CASE SetConfig(handling)
      <3>1. maps' = [maps EXCEPT ![Target(req[handling])] = Meaning(req[handling])]
            /\ req[handling].type # "GetStats"
        BY <1>1, <2>2, WriteIsMeant DEF IndInv, IsSet
      <3>2. QED
        BY <3>1 DEF Store!Written, Store!Target, Store!Meaning, Target, Meaning
    <2>3. QED
      BY <2>1, <2>2 DEF handle_message
  <1>9. QED
    BY <1>6, <1>7, <1>8 DEF Store!Apply

LEMMA DieLoses ==
  ASSUME Die
  PROVE  Store!Lose
  <1>1. Pending' = <<>>
    BY DEF Die, Pending
  <1>2. AcceptedRequests' = <<>>
    BY <1>1 DEF AcceptedRequests
  <1>3. QED
    BY <1>2 DEF Die, Store!Lose, Store!ZeroMaps, Store!ZeroNetAndMask, Store!ZeroMac,
                ZeroMaps, ZeroNetAndMask, ZeroMac

\* Every step of the controller is a step of the store or changes nothing of
\* it.
LEMMA StepSimulation ==
  ASSUME IndInv, [Next]_vars
  PROVE  [Store!Next]_<<maps, AcceptedRequests>>
  <1>1. CASE Crash \/ Attach \/ Start \/ Listen \/ Load \/ UNCHANGED vars
    <2>1. CASE Die
      BY <2>1, DieLoses DEF Store!Next
    <2>2. CASE UNCHANGED <<maps, queue, handling, req>>
      BY <2>2, SamePending DEF Pending
    <2>3. QED
      BY <1>1, <2>1, <2>2 DEF Crash, Attach, Attached, Start, Listen, Load, vars, channel
  <1>2. CASE Recv
    <2>1. /\ queue \in Seq(Tasks) /\ queue # <<>> /\ handling = None
          /\ handling' = Head(queue) /\ queue' = Tail(queue) /\ UNCHANGED <<maps, req>>
      BY <1>2 DEF IndInv, TypeOK, Recv, Take
    <2>2. Head(queue) \in Tasks /\ <<Head(queue)>> \o Tail(queue) = queue
      BY <2>1
    <2>3. Pending' = Pending
      <3>1. handling' # None
        BY <2>1, <2>2, ActorAssumption
      <3>2. Pending = queue /\ Pending' = <<Head(queue)>> \o Tail(queue)
        BY <2>1, <3>1, Zenon DEF Pending
      <3>3. QED
        BY <2>2, <3>2, Zenon
    <2>4. QED
      BY <2>1, <2>3, SamePending
  <1>3. CASE handle_message
    BY <1>3, HandleApplies DEF Store!Next
  <1>4. ASSUME NEW t \in Tasks, NEW r \in Requests, Call(t, r)
        PROVE  UNCHANGED <<maps, AcceptedRequests>>
    <2>1. ~InFlight(t)
      BY <1>4 DEF IndInv, Bookkeeping, Call
    <2>2. \A u \in Tasks : InFlight(u) => req'[u] = req[u]
      BY <1>4, <2>1 DEF IndInv, TypeOK, Call, Handle
    <2>3. Pending' = Pending /\ maps' = maps
      BY <1>4 DEF Call, Handle, Pending, channel
    <2>4. QED
      BY <2>2, <2>3, SamePending
  <1>5. ASSUME NEW t \in Tasks, Unimplemented(t) \/ Cancel(t)
        PROVE  UNCHANGED <<maps, AcceptedRequests>>
    <2>1. UNCHANGED <<maps, queue, handling, req>>
      BY <1>5 DEF Unimplemented, Cancel, channel
    <2>2. QED
      BY <2>1, SamePending DEF Pending
  <1>6. ASSUME NEW t \in Tasks, Send(t)
        PROVE  Store!Next
    <2>1. req[t] \in Store!Message
      BY DEF IndInv, TypeOK, Message, Store!Message, MacU64, Store!MacU64, U32, Store!U32
    <2>2. QED
      BY <1>6, <2>1, SendAccepts DEF Store!Next
  <1>7. QED
    BY <1>1, <1>2, <1>3, <1>4, <1>5, <1>6 DEF Next

\* The controller implements the abstract store, for any number of RPCs and
\* any capacity: what it accepted is carried out once and in order, or lost
\* as a whole when the process dies.
THEOREM Refinement == Spec => ImplementsStore
  <1>1. Init => Store!Init
    <2>. SUFFICES ASSUME Init PROVE Store!Init
      OBVIOUS
    <2>1. AcceptedRequests = <<>>
      BY DEF Init, AcceptedRequests, Pending
    <2>2. QED
      BY <2>1 DEF Init, Store!Init, Store!ZeroMaps, Store!ZeroNetAndMask, Store!ZeroMac,
                  ZeroMaps, ZeroNetAndMask, ZeroMac
  <1>2. IndInv /\ [Next]_vars => [Store!Next]_<<maps, AcceptedRequests>>
    BY StepSimulation
  <1>3. QED
    BY <1>1, <1>2, Inductive, PTL DEF Spec, ImplementsStore, Store!Spec

-----------------------------------------------------------------------------
(***************************************************************************)
(* Where the contents of the maps come from.                               *)
(***************************************************************************)
LEMMA OwnKept ==
  ASSUME ConfigOfThisProcess, UNCHANGED <<maps, applied>>,
         \A t \in applied : req'[t] = req[t]
  PROVE  ConfigOfThisProcess'
  <1>. SUFFICES ASSUME NEW f \in {"local", "backend", "gateway"}
                PROVE  \/ maps[f] = ZeroMaps[f]
                       \/ \E t \in applied : Target(req'[t]) = f /\ Meaning(req'[t]) = maps[f]
    BY DEF ConfigOfThisProcess, ZeroMaps, ZeroNetAndMask, ZeroMac, Target, Meaning
  <1>1. CASE maps[f] = ZeroMaps[f]
    BY <1>1
  <1>2. CASE \E t \in applied : Target(req[t]) = f /\ Meaning(req[t]) = maps[f]
    BY <1>2
  <1>3. QED
    BY <1>1, <1>2 DEF ConfigOfThisProcess

LEMMA OwnStep ==
  ASSUME IndInv, ConfigOfThisProcess, [Next]_vars
  PROVE  ConfigOfThisProcess'
  <1>1. CASE Die
    BY <1>1 DEF Die, ConfigOfThisProcess, ZeroMaps, ZeroNetAndMask, ZeroMac
  <1>2. CASE UNCHANGED <<maps, applied, req>>
    BY <1>2, OwnKept
  <1>3. ASSUME NEW t \in Tasks, NEW r \in Requests, Call(t, r)
        PROVE  ConfigOfThisProcess'
    <2>1. t \notin applied /\ applied \subseteq Tasks
      BY <1>3 DEF IndInv, TypeOK, Bookkeeping, Call
    <2>2. UNCHANGED <<maps, applied>> /\ \A u \in applied : req'[u] = req[u]
      BY <1>3, <2>1 DEF IndInv, TypeOK, Call, Handle
    <2>3. QED
      BY <2>2, OwnKept
  <1>4. CASE handle_message
    <2>1. handling \in Tasks /\ req' = req
      BY <1>4 DEF IndInv, TypeOK, handle_message
    <2>2. CASE GetStats(handling)
      BY <1>2, <2>1, <2>2 DEF GetStats
    <2>3. CASE SetConfig(handling)
      <3>1. PICK t \in Tasks : t = handling
        BY <2>1
      <3>2. /\ Target(req[t]) \in {"local", "backend", "gateway"}
            /\ maps' = [maps EXCEPT ![Target(req[t])] = Meaning(req[t])]
            /\ applied' = applied \cup {t} /\ maps \in Maps
        BY <2>3, <3>1, WriteIsMeant DEF IndInv, TypeOK, SetConfig
      <3>3. SUFFICES ASSUME NEW f \in {"local", "backend", "gateway"}
                     PROVE  \/ maps'[f] = ZeroMaps[f]
                            \/ \E u \in applied' : Target(req[u]) = f /\ Meaning(req[u]) = maps'[f]
        BY <2>1 DEF ConfigOfThisProcess, ZeroMaps, ZeroNetAndMask, ZeroMac, Target, Meaning
      <3>4. CASE f = Target(req[t])
        BY <3>2, <3>4 DEF Maps
      <3>5. CASE f # Target(req[t])
        <4>1. maps'[f] = maps[f]
          BY <3>2, <3>5 DEF Maps
        <4>2. QED
          BY <3>2, <4>1 DEF ConfigOfThisProcess
      <3>6. QED
        BY <3>4, <3>5
    <2>4. QED
      BY <1>4, <2>2, <2>3 DEF handle_message
  <1>5. CASE Start \/ Crash \/ Listen \/ Load \/ Attach \/ Recv \/ UNCHANGED vars
    BY <1>1, <1>2, <1>5 DEF Start, Crash, Listen, Load, Attach, Attached, Recv, Take, vars, history
  <1>6. ASSUME NEW t \in Tasks, Unimplemented(t) \/ Send(t) \/ Cancel(t)
        PROVE  ConfigOfThisProcess'
    BY <1>2, <1>6 DEF Unimplemented, Send, Sent, Cancel, history
  <1>7. QED
    BY <1>3, <1>4, <1>5, <1>6 DEF Next

\* A map only ever holds zeroes or what this process was asked to put there.
THEOREM ConfigurationIsOwn == Spec => []ConfigOfThisProcess
  <1>1. Init => ConfigOfThisProcess
    BY DEF Init, ConfigOfThisProcess
  <1>2. QED
    BY <1>1, OwnStep, Inductive, PTL DEF Spec

-----------------------------------------------------------------------------
(***************************************************************************)
(* The attach sequence.  What is left to try is a tail of AttachOrder, and *)
(* the modes before it have failed.                                        *)
(***************************************************************************)
Forcing == opt.force_skb_mode \/ opt.force_hw_mode \/ opt.force_drv_mode

WithSkb == {<<"HW", "DRV", "SKB">>, <<"DRV", "SKB">>, <<"SKB">>}

AttachInv ==
  /\ actor # "down" =>
       \/ Forcing /\ (tries = AttachOrder(opt) \/ tries = <<>>)
       \/ /\ ~Forcing
          /\ tries \in WithSkb \cup {<<"HW", "DRV">>, <<"DRV">>, <<>>}
          /\ tries \in WithSkb => opt.allow_skb_mode
          /\ tries \in {<<"DRV", "SKB">>, <<"SKB">>, <<"DRV">>, <<>>} => "HW" \notin nic
          /\ tries \in {<<"SKB">>, <<>>} => "DRV" \notin nic
  /\ actor = "running" => tries # <<>> /\ mode = Head(tries) /\ mode \in nic

LEMMA AttachStep ==
  ASSUME TypeOK, AttachInv, [Next]_vars
  PROVE  AttachInv'
  <1>1. CASE Die
    BY <1>1 DEF Die, AttachInv
  <1>2. CASE UNCHANGED <<actor, opt, nic, tries, mode>>
    BY <1>2 DEF AttachInv, Forcing, WithSkb, AttachOrder, Forced
  <1>3. CASE Load
    BY <1>3 DEF Load, AttachInv, Forcing, WithSkb, AttachOrder, Forced
  <1>4. CASE Start
    <2>1. PICK o \in Opt : opt' = o /\ tries' = AttachOrder(o)
      BY <1>4, ActorAssumption DEF Start
    <2>2. actor' = "load"
      BY <1>4 DEF Start
    <2>3. CASE o.force_skb_mode \/ o.force_hw_mode \/ o.force_drv_mode
      BY <2>1, <2>2, <2>3 DEF AttachInv, Forcing, AttachOrder, Forced
    <2>4. CASE ~(o.force_skb_mode \/ o.force_hw_mode \/ o.force_drv_mode)
      BY <2>1, <2>2, <2>4 DEF AttachInv, Forcing, WithSkb, AttachOrder, Forced
    <2>5. QED
      BY <2>3, <2>4
  <1>5. CASE /\ actor = "attach" /\ tries # <<>>
             /\ Attached
    BY <1>5 DEF Attached, AttachInv, Forcing, WithSkb, AttachOrder, Forced
  <1>6. CASE /\ actor = "attach" /\ tries # <<>> /\ Head(tries) \notin nic
             /\ tries' = Tail(tries) /\ UNCHANGED <<actor, opt, nic>>
    <2>1. CASE Forcing
      <3>1. tries = <<"SKB">> \/ tries = <<"HW">> \/ tries = <<"DRV">>
        BY <1>6, <2>1 DEF AttachInv, Forcing, AttachOrder, Forced
      <3>2. tries' = <<>>
        BY <1>6, <3>1
      <3>3. QED
        BY <1>6, <2>1, <3>2 DEF AttachInv, Forcing
    <2>2. CASE ~Forcing
      <3>1. CASE tries = <<"HW", "DRV", "SKB">>
        BY <1>6, <2>2, <3>1 DEF AttachInv, Forcing, WithSkb
      <3>2. CASE tries = <<"HW", "DRV">>
        BY <1>6, <2>2, <3>2 DEF AttachInv, Forcing, WithSkb
      <3>3. CASE tries = <<"DRV", "SKB">>
        BY <1>6, <2>2, <3>3 DEF AttachInv, Forcing, WithSkb
      <3>4. CASE tries = <<"SKB">>
        BY <1>6, <2>2, <3>4 DEF AttachInv, Forcing, WithSkb
      <3>5. CASE tries = <<"DRV">>
        BY <1>6, <2>2, <3>5 DEF AttachInv, Forcing, WithSkb
      <3>6. QED
        BY <1>6, <2>2, <3>1, <3>2, <3>3, <3>4, <3>5 DEF AttachInv, Forcing, WithSkb
    <2>3. QED
      BY <2>1, <2>2
  <1>7. CASE Attach
    BY <1>1, <1>5, <1>6, <1>7 DEF Attach
  <1>8. CASE Crash \/ Listen \/ Recv \/ handle_message \/ UNCHANGED vars
    BY <1>1, <1>2, <1>8 DEF Crash, Listen, Recv, Take, handle_message, vars, process
  <1>9. ASSUME NEW t \in Tasks,
               \/ \E r \in Requests : Call(t, r)
               \/ Unimplemented(t) \/ Send(t) \/ Cancel(t)
        PROVE  AttachInv'
    BY <1>2, <1>9 DEF Call, Handle, Unimplemented, Send, Sent, Cancel, process
  <1>10. QED
    BY <1>3, <1>4, <1>7, <1>8, <1>9 DEF Next

\* For every command line and every card: an attached program is in a mode the
\* card has and the operator did not exclude, and in no slower one than
\* necessary.
THEOREM AttachedAsAsked == Spec => []ModeJustified
  <1>1. Init => AttachInv
    BY DEF Init, AttachInv
  <1>2. TypeOK /\ AttachInv => ModeJustified
    <2>. SUFFICES ASSUME TypeOK, AttachInv, actor = "running" PROVE ModeJustified
      BY DEF ModeJustified
    <2>1. mode \in nic /\ mode = Head(tries) /\ tries # <<>> /\ nic \subseteq {"HW", "DRV", "SKB"}
      BY DEF AttachInv, TypeOK, Modes
    <2>2. CASE Forcing
      BY <2>1, <2>2 DEF AttachInv, Forcing, AttachOrder, Forced, ModeJustified
    <2>3. CASE ~Forcing
      <3>1. CASE tries \in {<<"HW", "DRV", "SKB">>, <<"HW", "DRV">>}
        BY <2>1, <2>3, <3>1 DEF Forcing, ModeJustified
      <3>2. CASE tries \in {<<"DRV", "SKB">>, <<"DRV">>}
        BY <2>1, <2>3, <3>2 DEF AttachInv, Forcing, ModeJustified
      <3>3. CASE tries = <<"SKB">>
        BY <2>1, <2>3, <3>3 DEF AttachInv, Forcing, WithSkb, ModeJustified
      <3>4. QED
        BY <2>1, <2>3, <3>1, <3>2, <3>3 DEF AttachInv, Forcing, WithSkb
    <2>4. QED
      BY <2>2, <2>3
  <1>3. QED
    BY <1>1, <1>2, AttachStep, TypeCorrect, PTL DEF Spec
=============================================================================
