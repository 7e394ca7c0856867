------------------------------ MODULE BpfActor ------------------------------
(***************************************************************************)
(* The controller process udp-router: the gRPC management server           *)
(* (server.rs), the BPF actor that owns the maps (bpf_actor.rs), and the   *)
(* bounded channel between them.                                           *)
(*                                                                         *)
(* Each RPC runs in a task of its own.  A setter returns when its message  *)
(* is in the channel, not when the map has been written; get_stats waits   *)
(* for the actor's answer on a oneshot.  The server listens while the      *)
(* actor is still loading and attaching the XDP program, clients may       *)
(* disconnect at any time, and any panic aborts the process (Cargo.toml:   *)
(* panic = "abort"), which takes the channel, the XDP program and its maps *)
(* with it.                                                                *)
(*                                                                         *)
(* A message is named by the task that sends it: its content is that       *)
(* task's request and its oneshot answers that task.                       *)
(***************************************************************************)
EXTENDS ConfigMaps

CONSTANTS
  Tasks,            \* RPCs, each made at most once
  None,             \* no message
  Requests,         \* the requests that clients make
  ChannelCapacity,  \* mpsc::channel(8)
  Opts,             \* command lines the controller may be started with
  Nics,             \* what network cards can do: sets of XDP modes
  MaxStarts         \* bound: times the process is started

Modes == {"HW", "DRV", "SKB"}

Opt == [force_skb_mode : BOOLEAN, force_hw_mode : BOOLEAN,
        force_drv_mode : BOOLEAN, allow_skb_mode : BOOLEAN]

ASSUME ActorAssumption ==
  /\ None \notin Tasks
  /\ Requests \subseteq Message
  /\ ChannelCapacity \in Nat \ {0}
  /\ Opts \subseteq Opt
  /\ Nics \subseteq SUBSET Modes
  /\ MaxStarts \in Nat

VARIABLES
  actor,      \* run_actor: "down", "load", "attach" or "running"
  listening,  \* ManagementServer: the socket accepts connections
  opt,        \* the command line
  nic,        \* the modes in which the kernel lets the program attach
  tries,      \* modes still to be tried, in order
  mode,       \* the mode the program is attached in
  maps,       \* LOCAL_NET_AND_MASK, BACKEND_NET_AND_MASK, GATEWAY_MAC_ADDRESS
  queue,      \* the channel
  handling,   \* the message the actor has received
  rpc,        \* per task: how far its RPC is
  req         \* per task: its request

\* History, not part of the program.
VARIABLES
  acked,      \* setters this process has answered
  applied,    \* setters whose map this process has written
  before,     \* per task: the setters answered when its RPC began
  starts      \* times the process was started

process == <<actor, listening, opt, nic, tries, mode>>
channel == <<queue, handling>>
history == <<acked, applied, before>>
vars == <<process, maps, channel, rpc, req, history, starts>>

IsSet(t) == req[t].type # "GetStats"

-----------------------------------------------------------------------------
\* The modes run_actor tries to attach in, first to last: the forced one, or
\* those of the fallback.
Forced(o, fallback) ==
  IF o.force_skb_mode THEN <<"SKB">>
  ELSE IF o.force_hw_mode THEN <<"HW">>
  ELSE IF o.force_drv_mode THEN <<"DRV">> ELSE fallback

\* Mutant: SKB mode is tried whether the operator allows it or not.
AttachOrder_AlwaysSkb(o) == Forced(o, <<"HW", "DRV", "SKB">>)

AttachOrder(o) ==
  Forced(o, IF o.allow_skb_mode THEN <<"HW", "DRV", "SKB">> ELSE <<"HW", "DRV">>)

Start ==
  /\ actor = "down"
  /\ starts < MaxStarts
  /\ starts' = starts + 1
  /\ actor' = "load"
  /\ \E o \in Opts : opt' = o /\ tries' = AttachOrder(o)
  /\ UNCHANGED <<listening, nic, mode, maps, channel, rpc, req, history>>

Init ==
  /\ actor = "down" /\ listening = FALSE
  /\ opt \in Opts /\ nic \in Nics
  /\ tries = <<>> /\ mode = "none"
  /\ maps = ZeroMaps
  /\ queue = <<>> /\ handling = None
  /\ rpc = [t \in Tasks |-> "idle"]
  /\ req = [t \in Tasks |-> [type |-> "GetStats"]]
  /\ acked = {} /\ applied = {}
  /\ before = [t \in Tasks |-> {}]
  /\ starts = 0

\* The process is gone, and all it held with it: the channel, the tasks, the
\* link that kept the program attached and the maps.
Die ==
  /\ actor' = "down" /\ listening' = FALSE
  /\ tries' = <<>> /\ mode' = "none"
  /\ maps' = ZeroMaps
  /\ queue' = <<>> /\ handling' = None
  /\ rpc' = [t \in Tasks |-> IF rpc[t] \in {"sending", "awaiting"}
                             THEN "failed" ELSE rpc[t]]
  /\ acked' = {} /\ applied' = {}
  /\ before' = [t \in Tasks |-> {}]
  /\ UNCHANGED <<opt, nic, req, starts>>

\* A panic (an unwrap or expect in load, bind, or a map access) or a signal.
Crash == actor # "down" /\ Die

\* ManagementServer::start, up to the accept loop.
Listen ==
  /\ actor # "down"
  /\ ~listening
  /\ listening' = TRUE
  /\ UNCHANGED <<actor, opt, nic, tries, mode, maps, channel, rpc, req, history, starts>>

\* Ebpf::load_file and program.load.
Load ==
  /\ actor = "load"
  /\ actor' = "attach"
  /\ UNCHANGED <<listening, opt, nic, tries, mode, maps, channel, rpc, req, history, starts>>

Attached ==
  /\ Head(tries) \in nic
  /\ mode' = Head(tries)
  /\ actor' = "running"
  /\ UNCHANGED <<tries, listening, opt, nic, maps, channel, rpc, req, history, starts>>

\* Mutant: no other mode is tried after a failure.
Attach_NoFallback == actor = "attach" /\ Attached

\* One call of program.attach, or the panic when there is none left to make.
Attach ==
  /\ actor = "attach"
  /\ \/ tries # <<>> /\ Attached
     \/ /\ tries # <<>> /\ Head(tries) \notin nic
        /\ tries' = Tail(tries)
        /\ UNCHANGED <<actor, mode, listening, opt, nic, maps, channel, rpc, req, history, starts>>
     \/ tries = <<>> /\ Die

-----------------------------------------------------------------------------
\* The four handlers of ManagementServer: each calls the actor's handle.
Handle(t, r) ==
  /\ rpc' = [rpc EXCEPT ![t] = "sending"]
  /\ req' = [req EXCEPT ![t] = r]
  /\ before' = [before EXCEPT ![t] = acked]
  /\ UNCHANGED <<process, maps, channel, acked, applied, starts>>

\* The generated server matches the path of a request.
Call(t, r) == listening /\ rpc[t] = "idle" /\ r \in Message /\ Handle(t, r)

\* No method of the service has this path.
Unimplemented(t) ==
  /\ listening /\ rpc[t] = "idle"
  /\ rpc' = [rpc EXCEPT ![t] = "failed"]
  /\ UNCHANGED <<process, maps, channel, req, history, starts>>

\* The channel becomes q; a setter returns, get_stats waits for its oneshot.
Sent(t, q) ==
  /\ rpc[t] = "sending"
  /\ queue' = q
  /\ rpc' = [rpc EXCEPT ![t] = IF IsSet(t) THEN "ok" ELSE "awaiting"]
  /\ acked' = IF IsSet(t) THEN acked \cup {t} ELSE acked
  /\ UNCHANGED <<process, maps, handling, req, applied, before, starts>>

\* Mutants: an unbounded channel; a send that does not wait for a slot.
Send_Unbounded(t) == Sent(t, Append(queue, t))
Send_TrySend(t) == Sent(t, IF Len(queue) < ChannelCapacity THEN Append(queue, t) ELSE queue)

\* self.sender.send(msg).await: waits for a free slot.
Send(t) == Len(queue) < ChannelCapacity /\ Sent(t, Append(queue, t))

\* The client disconnects: the server drops the task where it waits.
Cancel(t) ==
  /\ rpc[t] \in {"sending", "awaiting"}
  /\ rpc' = [rpc EXCEPT ![t] = "cancelled"]
  /\ UNCHANGED <<process, maps, channel, req, history, starts>>

\* The actor takes a message and leaves q.
Take(t, q) ==
  /\ actor = "running"
  /\ handling = None
  /\ queue # <<>>
  /\ handling' = t
  /\ queue' = q
  /\ UNCHANGED <<process, maps, rpc, req, history, starts>>

\* Mutant: the newest message first.
Recv_Newest == Take(queue[Len(queue)], SubSeq(queue, 1, Len(queue) - 1))

\* actor.receiver.recv().await
Recv == Take(Head(queue), Tail(queue))

set_local_net_mask(m) == maps' = [maps EXCEPT !.local = Pack(m.net, m.mask)]

\* Mutant: the backend network goes into the map of the local one.
set_backend_net_mask_WrongMap(m) == maps' = [maps EXCEPT !.local = Pack(m.net, m.mask)]

set_backend_net_mask(m) == maps' = [maps EXCEPT !.backend = Pack(m.net, m.mask)]
set_gateway_mac_address(m) == maps' = [maps EXCEPT !.gateway = m.mac]

\* Mutant: the statistics are read and never sent.
GetStats_NoReply(t) ==
  /\ req[t].type = "GetStats"
  /\ UNCHANGED <<rpc, maps, applied>>

\* respond_to.send: nobody may be waiting any more.
GetStats(t) ==
  /\ req[t].type = "GetStats"
  /\ rpc' = [rpc EXCEPT ![t] = IF @ = "awaiting" THEN "ok" ELSE @]
  /\ UNCHANGED <<maps, applied>>

SetConfig(t) ==
  /\ \/ req[t].type = "SetLocalNetAndMask" /\ set_local_net_mask(req[t])
     \/ req[t].type = "SetBackendNetAndMask" /\ set_backend_net_mask(req[t])
     \/ req[t].type = "SetGatewayMacAddress" /\ set_gateway_mac_address(req[t])
  /\ applied' = applied \cup {t}
  /\ UNCHANGED rpc

handle_message ==
  /\ handling # None
  /\ GetStats(handling) \/ SetConfig(handling)
  /\ handling' = None
  /\ UNCHANGED <<process, queue, req, acked, before, starts>>

Next ==
  \/ Start \/ Crash \/ Listen \/ Load \/ Attach
  \/ Recv \/ handle_message
  \/ \E t \in Tasks : \/ \E r \in Requests : Call(t, r)
                      \/ Unimplemented(t)
                      \/ Send(t)
                      \/ Cancel(t)

\* tokio runs the actor's loop and a task that has a slot in the channel; the
\* calls that load, attach and access maps return.  Nothing obliges a client
\* or the operator to do anything, and the process may die at any time.
Fairness ==
  /\ WF_vars(Load) /\ WF_vars(Attach) /\ WF_vars(Recv) /\ WF_vars(handle_message)
  /\ \A t \in Tasks : WF_vars(Send(t))

Spec == Init /\ [][Next]_vars
FairSpec == Spec /\ Fairness

-----------------------------------------------------------------------------
\* Every variable has its type, and the channel respects its capacity.
TypeOK ==
  /\ actor \in {"down", "load", "attach", "running"}
  /\ listening \in BOOLEAN
  /\ opt \in Opt /\ nic \subseteq Modes
  /\ tries \in Seq(Modes) /\ mode \in Modes \cup {"none"}
  /\ maps \in Maps
  /\ queue \in Seq(Tasks) /\ Len(queue) <= ChannelCapacity
  /\ handling \in Tasks \cup {None}
  /\ rpc \in [Tasks -> {"idle", "sending", "awaiting", "ok", "cancelled", "failed"}]
  /\ req \in [Tasks -> Message]
  /\ acked \subseteq Tasks /\ applied \subseteq Tasks
  /\ before \in [Tasks -> SUBSET Tasks]
  /\ starts \in Nat

Queued(t) == \E i \in 1 .. Len(queue) : queue[i] = t
InFlight(t) == handling = t \/ Queued(t)

(***************************************************************************)
(* No request is dropped while the process lives, although every send to   *)
(* the channel ignores its result: a setter that was answered has written  *)
(* its map or is on its way to the actor, also before the program is       *)
(* attached.  And the oneshot of a waiting get_stats is on its way too, so *)
(* the "BPF actor has been killed" of bpf_actor.rs:33 is never reached.    *)
(***************************************************************************)
NothingDropped ==
  \A t \in Tasks :
    /\ t \in acked => t \in applied \/ InFlight(t)
    /\ rpc[t] = "awaiting" => InFlight(t)

(***************************************************************************)
(* Requests take effect in the order in which clients saw them answered:   *)
(* when a setter has written its map, so has every setter that had been    *)
(* answered before its RPC began.  An answered get_stats is therefore a    *)
(* barrier (bpf_actor.rs:28-34, 239-241).                                  *)
(***************************************************************************)
NothingOvertakes ==
  \A t \in Tasks : t \in applied \/ (rpc[t] = "ok" /\ ~IsSet(t)) =>
    before[t] \subseteq applied

\* A client that sets a map after every other setter of that map had been
\* answered finds its value there once the channel has drained
\* (bpf_actor.rs:131-146, 162-179).
LastWordWins ==
  \A t \in acked :
    /\ ~\E u \in Tasks : InFlight(u)
    /\ \A u \in acked \ {t} : req[u].type = req[t].type => u \in before[t]
    => maps[Target(req[t])] = Meaning(req[t])

\* A map holds zeroes or what somebody asked this process to put into that
\* map: nothing of another map, and nothing left over from a process that died
\* (bpf_actor.rs:162-179, 220-237).
ConfigOfThisProcess ==
  \A f \in {"local", "backend", "gateway"} :
    \/ maps[f] = ZeroMaps[f]
    \/ \E t \in applied : Target(req[t]) = f /\ Meaning(req[t]) = maps[f]

(***************************************************************************)
(* The mode of an attached program: the card supports it; SKB mode is one  *)
(* the operator asked for or allowed; a forced mode is never replaced by   *)
(* another; and no slower mode than necessary is used (bpf_actor.rs:193-   *)
(* 218, Opt in main.rs:24-35).                                             *)
(***************************************************************************)
ModeJustified ==
  actor = "running" =>
    /\ mode \in nic
    /\ mode = "SKB" => opt.force_skb_mode \/ opt.allow_skb_mode
    /\ opt.force_skb_mode \/ opt.force_hw_mode \/ opt.force_drv_mode =>
         \/ mode = "SKB" /\ opt.force_skb_mode
         \/ mode = "HW" /\ opt.force_hw_mode
         \/ mode = "DRV" /\ opt.force_drv_mode
    /\ mode = "DRV" => opt.force_drv_mode \/ "HW" \notin nic
    /\ mode = "SKB" => opt.force_skb_mode \/ nic = {"SKB"}

\* Every RPC the server accepted ends: with an answer, with the client's
\* disconnection or with the process.
EveryCallEnds ==
  \A t \in Tasks :
    rpc[t] = "sending" ~> rpc[t] \in {"ok", "cancelled", "failed"}

\* A setter that was answered is carried out, unless the process dies first.
AckedIsApplied ==
  \A t \in Tasks : t \in acked ~> (t \in applied \/ t \notin acked)

(***************************************************************************)
(* The controller is a store of three settings: what is in the actor's     *)
(* hands and in the channel is what has been accepted and not carried out. *)
(* A request is accepted when it gets its slot in the channel; it is       *)
(* carried out once, in order, also when its client has disconnected       *)
(* (bpf_actor.rs:28-49, 131-146, 239-241).                                 *)
(***************************************************************************)
Pending == IF handling = None THEN queue ELSE <<handling>> \o queue

AcceptedRequests == [i \in 1 .. Len(Pending) |-> req[Pending[i]]]

Store == INSTANCE ConfigStore WITH waiting <- AcceptedRequests

ImplementsStore == Store!Spec

(***************************************************************************)
(* Why requests are neither dropped nor overtaken, as an inductive         *)
(* invariant.                                                              *)
(***************************************************************************)
\* A message is in one place, once, and its sender has got past send; an
\* answered setter is one whose message got into the channel.
Bookkeeping ==
  /\ \A i, j \in 1 .. Len(queue) : queue[i] = queue[j] => i = j
  /\ \A i \in 1 .. Len(queue) : queue[i] # handling
  /\ applied \subseteq acked
  /\ \A t \in Tasks :
       /\ t \in acked => rpc[t] = "ok" /\ IsSet(t)
       /\ InFlight(t) => /\ rpc[t] \in {"awaiting", "ok", "cancelled"}
                         /\ t \notin applied
                         /\ IsSet(t) => t \in acked
       /\ before[t] \subseteq acked

\* What was answered before a request began is ahead of it in the channel, in
\* the actor's hands, or carried out.
Ahead ==
  \A t \in Tasks : \A u \in before[t] :
    /\ \A i \in 1 .. Len(queue) : queue[i] = t =>
         \/ u \in applied \/ handling = u
         \/ \E j \in 1 .. (i - 1) : queue[j] = u
    /\ handling = t => u \in applied

\* A setter's value stands until one that was not before it replaces it.
Stands ==
  \A t \in applied :
    \/ maps[Target(req[t])] = Meaning(req[t])
    \/ \E u \in applied : /\ u # t /\ req[u].type = req[t].type
                          /\ u \notin before[t]

IndInv ==
  TypeOK /\ Bookkeeping /\ NothingDropped /\ Ahead /\ NothingOvertakes /\ Stands
=============================================================================
