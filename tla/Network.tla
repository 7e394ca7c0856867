------------------------------ MODULE Network -------------------------------
(***************************************************************************)
(* Ping clients (udp-router-client/src/main.rs), echo servers              *)
(* (udp-router-server/src/main.rs), routers that are configured and other  *)
(* hosts, on a network that loses, duplicates and reorders datagrams.      *)
(*                                                                         *)
(* A client pings its server, first directly and then through a router,    *)
(* from a socket for each of the two.  It waits for each reply without a   *)
(* timeout, and takes whatever its socket receives for the reply.          *)
(*                                                                         *)
(* Every service listens on port 8888.  The router leaves ports alone, so  *)
(* a datagram keeps the port of the socket it was sent from; it is on its  *)
(* way to 8888, or, once a server has echoed it, back from there to that   *)
(* port.  Sockets of different clients have the same port: a router and a  *)
(* server have only the addresses to tell them apart.                      *)
(***************************************************************************)
EXTENDS Packet, Integers, FiniteSets

CONSTANTS
  Clients, Servers, Routers, Others,   \* addresses
  Local,      \* the addresses of the local network the routers are told
  ServerOf,   \* per client: --server
  ProxyOf,    \* per client: --proxy
  Pings,      \* pings of each loop: 10000
  None,       \* no client, server or datagram
  MaxCopies,  \* bound: duplicates of one client's datagrams
  MaxStrays   \* bound: datagrams of hosts that are not pinging

Address == Clients \cup Servers \cup Routers \cup Others
Hosts == Address \ Routers

\* "clients and servers must be on different subnets as the router", and "on
\* distinct subnets" (ebpf main.rs:41-46).
ASSUME NetworkAssumption ==
  /\ Routers \subseteq Local
  /\ (Clients \cup Servers) \cap Local = {} /\ Clients \cap Servers = {}
  /\ ServerOf \in [Clients -> Servers] /\ ProxyOf \in [Clients -> Routers]
  /\ Pings \in Nat \ {0} /\ MaxCopies \in Nat /\ MaxStrays \in Nat
  /\ None \notin Clients \cup Servers

VARIABLES
  pc,       \* per client: where main is
  round,    \* per client: the number of the next ping, over both loops
  up,       \* servers that are running
  net       \* datagrams on their way, in a socket's buffer too

\* History.
VARIABLES
  last,     \* per client: the datagram of the latest sample
  copies,   \* per client: how often a datagram of its pings was duplicated
  lost,     \* clients that a datagram of a ping was lost of
  strays    \* number of datagrams sent by hosts that are not pinging

client == <<pc, round, last>>
vars == <<client, up, net, copies, lost, strays>>

Rounds == 1 .. 2 * Pings

\* The two loops.
Route(n) == IF n <= Pings THEN "direct" ELSE "proxy"

\* Mutant: one socket for both loops.
Socket_One(n) == "direct"

\* direct_socket and proxy_socket.
Socket(n) == Route(n)

\* Addresses and ports; then history: the ping it belongs to, the server that
\* echoed it, how often it was forwarded.
Datagram ==
  [ src : Address, dst : Address, payload : Address,
    port : {"direct", "proxy", "other"}, back : BOOLEAN,
    client : Clients \cup {None}, round : Rounds,
    by : Servers \cup {None}, hops : Nat ]

-----------------------------------------------------------------------------
Init ==
  /\ pc = [c \in Clients |-> "bind"]
  /\ round = [c \in Clients |-> 1]
  /\ up = Servers
  /\ net = {}
  /\ last = [c \in Clients |-> None]
  /\ copies = [c \in Clients |-> 0]
  /\ lost = {}
  /\ strays = 0

\* A datagram arrives and others are sent in answer; the network may have
\* another copy of it.
Arrives(d, answers) ==
  \/ net' = (net \ {d}) \cup answers /\ UNCHANGED copies
  \/ /\ d.client # None /\ copies[d.client] < MaxCopies
     /\ copies' = [copies EXCEPT ![d.client] = @ + 1]
     /\ net' = net \cup answers

\* The sockets are bound and the server's address is parsed.
Bind(c) ==
  /\ pc[c] = "bind"
  /\ pc' = [pc EXCEPT ![c] = "send"]
  /\ UNCHANGED <<round, last, up, net, copies, lost, strays>>

Ping(c, n) ==
  [ src |-> c, dst |-> IF Route(n) = "direct" THEN ServerOf[c] ELSE ProxyOf[c],
    payload |-> ServerOf[c], port |-> Socket(n), back |-> FALSE,
    client |-> c, round |-> n, by |-> None, hops |-> 0 ]

SendWhen(c, ready) ==
  /\ ready
  /\ net' = net \cup {Ping(c, round[c])}
  /\ pc' = [pc EXCEPT ![c] = "wait"]
  /\ UNCHANGED <<round, last, up, copies, lost, strays>>

\* Mutant: the client pings again when no reply comes.
Send_Again(c) == SendWhen(c, pc[c] \in {"send", "wait"})

Send(c) == SendWhen(c, pc[c] = "send")

\* Mutant: the second loop goes round once more.
After_OneMore(n) == IF n > 2 * Pings THEN "done" ELSE "send"

\* After the reply to ping n.
After(n) == IF n = 2 * Pings THEN "done" ELSE "send"

\* The socket of the current loop has a datagram, from whoever it is.
Receive(c) ==
  /\ pc[c] = "wait"
  /\ \E d \in net :
       /\ d.dst = c /\ d.back /\ d.port = Socket(round[c])
       /\ last' = [last EXCEPT ![c] = d]
       /\ Arrives(d, {})
  /\ round' = [round EXCEPT ![c] = @ + 1]
  /\ pc' = [pc EXCEPT ![c] = After(round[c])]
  /\ UNCHANGED <<up, lost, strays>>

\* bind, send_to, recv_from or the parser fails: main returns or panics.
Fail(c) ==
  /\ pc[c] \in {"bind", "send", "wait"}
  /\ pc' = [pc EXCEPT ![c] = "failed"]
  /\ UNCHANGED <<round, last, up, net, copies, lost, strays>>

\* The same payload, from port 8888 to where it came from.
Echoed(s, d) == [Echo(d) EXCEPT !.back = TRUE, !.by = s]

EchoTo(s) ==
  /\ s \in up
  /\ \E d \in net :
       /\ d.dst = s /\ ~d.back
       /\ Arrives(d, {Echoed(s, d)})
  /\ UNCHANGED <<client, up, lost, strays>>

\* recv_from or send_to fails, whoever it was for: the server ends.
Stop(s) ==
  /\ s \in up
  /\ up' = up \ {s}
  /\ UNCHANGED <<client, net, copies, lost, strays>>

\* Mutant: traffic of the local network is forwarded.
PassedToHost_Never(d) == FALSE

\* is_from_local_network
PassedToHost(d) == d.src \in Local

Forwarded(d) == [Rotated(d) EXCEPT !.hops = @ + 1]

Forward ==
  /\ \E d \in net :
       /\ d.dst \in Routers /\ ~PassedToHost(d)
       /\ Arrives(d, {Forwarded(d)})
  /\ UNCHANGED <<client, up, lost, strays>>

\* A datagram reaches a host that has no socket for it.
Discard ==
  /\ \E d \in net :
       /\ \/ d.dst \in Routers /\ PassedToHost(d)
          \/ d.dst \notin Routers \cup (IF d.back THEN Clients ELSE Servers)
       /\ net' = net \ {d}
  /\ UNCHANGED <<client, up, copies, lost, strays>>

\* Any host sends to a server or a router, with any payload (README.md:119:
\* "bombard the router").
Stray ==
  /\ strays < MaxStrays
  /\ strays' = strays + 1
  /\ \E h \in Hosts, to \in Servers \cup Routers, x \in Address :
       net' = net \cup
         {[ src |-> h, dst |-> to, payload |-> x, port |-> "other", back |-> FALSE,
            client |-> None, round |-> 1, by |-> None, hops |-> 0 ]}
  /\ UNCHANGED <<client, up, copies, lost>>

Lose ==
  /\ \E d \in net : net' = net \ {d} /\ lost' = lost \cup ({d.client} \ {None})
  /\ UNCHANGED <<client, up, copies, strays>>

Next ==
  \/ \E c \in Clients : Bind(c) \/ Send(c) \/ Receive(c) \/ Fail(c)
  \/ \E s \in Servers : EchoTo(s) \/ Stop(s)
  \/ Forward \/ Discard \/ Stray \/ Lose

Spec == Init /\ [][Next]_vars

\* Programs run, and a datagram that is not lost arrives.
Fairness ==
  /\ \A c \in Clients : WF_vars(Bind(c)) /\ WF_vars(Send(c)) /\ WF_vars(Receive(c))
  /\ \A s \in Servers : WF_vars(EchoTo(s))
  /\ WF_vars(Forward)

FairSpec == Spec /\ Fairness

-----------------------------------------------------------------------------
\* Every variable has its type.
TypeOK ==
  /\ pc \in [Clients -> {"bind", "send", "wait", "done", "failed"}]
  /\ round \in [Clients -> 1 .. 2 * Pings + 1]
  /\ \A c \in Clients : pc[c] \in {"bind", "send", "wait"} => round[c] \in Rounds
  /\ up \subseteq Servers
  /\ net \subseteq Datagram
  /\ last \in [Clients -> Datagram \cup {None}]
  /\ copies \in [Clients -> 0 .. MaxCopies]
  /\ lost \subseteq Clients
  /\ strays \in 0 .. MaxStrays

\* No datagram is forwarded more than twice, once on its way to a server and
\* once on its way back, not even one whose payload names a router or a server
\* whose reply comes back to it (ebpf main.rs:101-105, 145-197).
AtMostTwoHops == \A d \in net : d.hops <= 2

(***************************************************************************)
(* Every sample of the first loop is a round trip of the client's own ping *)
(* that no router saw, every sample of the second one that a router        *)
(* forwarded both ways; the client's own server echoed it, and the reply   *)
(* names that server: whatever is duplicated or late, whoever else pings   *)
(* through the same router from the same port (client main.rs:24-61).      *)
(***************************************************************************)
SamplesAreRoundTrips ==
  \A c \in Clients : last[c] # None =>
    LET d == last[c]
    IN  /\ d.client = c /\ d.by = ServerOf[c] /\ d.payload = ServerOf[c]
        /\ \/ round[c] - 1 <= Pings /\ d.hops = 0 /\ d.src = ServerOf[c]
           \/ round[c] - 1 > Pings /\ d.hops = 2 /\ d.src = ProxyOf[c]

\* Unless the network duplicates one of its datagrams, a client takes each
\* reply for the ping it belongs to (client main.rs:36-61).
SamplesOfTheirPing ==
  \A c \in Clients : last[c] # None /\ copies[c] = 0 => last[c].round = round[c] - 1

\* A client has one ping on its way at most, and only while it waits for the
\* reply (or waited, and failed); beyond that there are the network's own
\* duplicates.  No router and no server sends more than it was sent, and no
\* reply to an earlier ping makes the client run ahead (client main.rs:36-61).
InFlight(c) == {d \in net : d.client = c}

FewInFlight ==
  \A c \in Clients :
    Cardinality(InFlight(c)) <=
      copies[c] + (IF pc[c] \in {"wait", "failed"} THEN 1 ELSE 0)

\* A client that waits has its ping or the reply on the way, unless one of its
\* own datagrams was lost or its server has ended: no traffic of others, and
\* nothing the router does, leaves it waiting in vain (client main.rs:41, 58).
WaitsForSomething ==
  \A c \in Clients :
    pc[c] = "wait" /\ c \notin lost /\ ServerOf[c] \in up =>
      \E d \in net : d.client = c /\ d.round = round[c]

\* Every measurement comes to an end, unless a datagram of it is lost or its
\* server ends (client main.rs:36-76).
MeasurementEnds ==
  \A c \in Clients :
    <>(pc[c] \in {"done", "failed"} \/ c \in lost \/ ServerOf[c] \notin up)
=============================================================================
