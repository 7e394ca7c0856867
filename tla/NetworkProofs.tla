--------------------------- MODULE NetworkProofs ----------------------------
(***************************************************************************)
(* Proofs about Network, for any number of clients, servers, routers and   *)
(* pings, any loss, and any number of duplicates and of other datagrams.   *)
(***************************************************************************)
EXTENDS Network, FiniteSetTheorems, TLAPS

\* Where a datagram of a ping can be, and what it then looks like.
PingForm(d) ==
  LET c == d.client
      s == ServerOf[c]
      r == ProxyOf[c]
  IN  /\ d.port = Route(d.round)
      /\ d.by = IF d.back THEN s ELSE None
      /\ \/ /\ Route(d.round) = "direct" /\ d.hops = 0 /\ d.payload = s
            /\ \/ ~d.back /\ d.src = c /\ d.dst = s
               \/ d.back /\ d.src = s /\ d.dst = c
         \/ /\ Route(d.round) = "proxy"
            /\ \/ ~d.back /\ d.hops = 0 /\ d.src = c /\ d.dst = r /\ d.payload = s
               \/ ~d.back /\ d.hops = 1 /\ d.src = r /\ d.dst = s /\ d.payload = c
               \/ d.back /\ d.hops = 1 /\ d.src = s /\ d.dst = r /\ d.payload = c
               \/ d.back /\ d.hops = 2 /\ d.src = r /\ d.dst = c /\ d.payload = s

\* What any other datagram looks like after each hop.  A router's own address
\* as the source is what stops a second hop on the way to a server.
StrayForm(d) ==
  /\ d.port = "other"
  /\ \/ d.hops = 0 /\ ~d.back /\ d.src \notin Routers
     \/ d.hops = 0 /\ d.back /\ d.dst \notin Routers
     \/ d.hops = 1 /\ ~d.back /\ d.src \in Routers /\ d.payload \notin Local
     \/ d.hops = 1 /\ d.back /\ d.payload \notin Local
     \/ d.hops = 2 /\ d.back /\ d.dst \notin Routers

Form(d) == IF d.client = None THEN StrayForm(d) ELSE PingForm(d)

Forms == \A d \in net : Form(d)

\* Without duplicates a client has one datagram in the network, that of the
\* ping it waits for.
OneAtATime ==
  \A c \in Clients : copies[c] = 0 =>
    \A d \in net : d.client = c =>
      /\ pc[c] \in {"wait", "failed"} /\ d.round = round[c]
      /\ \A e \in net : e.client = c => e = d

\* A sample is a reply that came all the way back to the socket of its loop.
SampleForms ==
  \A c \in Clients : last[c] # None =>
    /\ last[c].client = c /\ last[c].dst = c /\ last[c].back
    /\ PingForm(last[c])
    /\ Route(last[c].round) = Route(round[c] - 1)

IndInv ==
  /\ TypeOK /\ Forms /\ OneAtATime
  /\ SampleForms /\ SamplesOfTheirPing /\ WaitsForSomething

\* What the network does to a datagram that arrives.
LEMMA ArrivesFacts ==
  ASSUME TypeOK, NEW d \in net, NEW A, Arrives(d, A)
  PROVE  /\ net' \subseteq net \cup A /\ (net \ {d}) \cup A \subseteq net'
         /\ copies' \in [Clients -> 0 .. MaxCopies]
         /\ \A c \in Clients : copies'[c] = 0 =>
              copies[c] = 0 /\ (d.client = c => net' = (net \ {d}) \cup A)
  BY NetworkAssumption DEF TypeOK, Arrives, Datagram

\* What the two operations on packets do to each field.
LEMMA RotatedFacts ==
  ASSUME NEW d \in Datagram
  PROVE  /\ Rotated(d) \in Datagram
         /\ Rotated(d).src = d.dst /\ Rotated(d).dst = d.payload
         /\ Rotated(d).payload = d.src /\ Rotated(d).hops = d.hops
         /\ Rotated(d).port = d.port /\ Rotated(d).back = d.back
         /\ Rotated(d).client = d.client /\ Rotated(d).round = d.round
         /\ Rotated(d).by = d.by
<1>1. Rotated(d) \in Datagram
  BY DEF Datagram, Rotated
<1>2. /\ Rotated(d).src = d.dst /\ Rotated(d).dst = d.payload
      /\ Rotated(d).payload = d.src
  BY DEF Datagram, Rotated
<1>3. /\ Rotated(d).hops = d.hops /\ Rotated(d).port = d.port
      /\ Rotated(d).back = d.back
  BY DEF Datagram, Rotated
<1>4. /\ Rotated(d).client = d.client /\ Rotated(d).round = d.round
      /\ Rotated(d).by = d.by
  BY DEF Datagram, Rotated
<1> QED BY <1>1, <1>2, <1>3, <1>4

LEMMA EchoFacts ==
  ASSUME NEW d \in Datagram
  PROVE  /\ Echo(d) \in Datagram
         /\ Echo(d).src = d.dst /\ Echo(d).dst = d.src
         /\ Echo(d).payload = d.payload /\ Echo(d).hops = d.hops
         /\ Echo(d).port = d.port /\ Echo(d).client = d.client
         /\ Echo(d).round = d.round
<1>1. Echo(d) \in Datagram
  BY DEF Datagram, Echo
<1>2. /\ Echo(d).src = d.dst /\ Echo(d).dst = d.src
      /\ Echo(d).payload = d.payload /\ Echo(d).hops = d.hops
  BY DEF Datagram, Echo
<1>3. /\ Echo(d).port = d.port /\ Echo(d).client = d.client
      /\ Echo(d).round = d.round
  BY DEF Datagram, Echo
<1> QED BY <1>1, <1>2, <1>3

\* A datagram stays one when it is forwarded, and which fields change.
LEMMA ForwardedFacts ==
  ASSUME NEW d \in Datagram
  PROVE  /\ Forwarded(d) \in Datagram
         /\ Forwarded(d).src = d.dst /\ Forwarded(d).dst = d.payload
         /\ Forwarded(d).payload = d.src /\ Forwarded(d).hops = d.hops + 1
         /\ Forwarded(d).port = d.port /\ Forwarded(d).back = d.back
         /\ Forwarded(d).client = d.client /\ Forwarded(d).round = d.round
         /\ Forwarded(d).by = d.by
<1> DEFINE q == Rotated(d)
<1>1. q \in Datagram
  BY RotatedFacts
<1>2. Forwarded(d) = [q EXCEPT !.hops = q.hops + 1]
  BY DEF Forwarded
<1>3. ASSUME NEW r \in Datagram
      PROVE  LET f == [r EXCEPT !.hops = r.hops + 1]
             IN  /\ f \in Datagram /\ f.hops = r.hops + 1
                 /\ f.src = r.src /\ f.dst = r.dst /\ f.payload = r.payload
                 /\ f.port = r.port /\ f.back = r.back
                 /\ f.client = r.client /\ f.round = r.round /\ f.by = r.by
  BY DEF Datagram
<1> HIDE DEF q
<1>4. /\ Forwarded(d) \in Datagram /\ Forwarded(d).hops = q.hops + 1
      /\ Forwarded(d).src = q.src /\ Forwarded(d).dst = q.dst
      /\ Forwarded(d).payload = q.payload
      /\ Forwarded(d).port = q.port /\ Forwarded(d).back = q.back
      /\ Forwarded(d).client = q.client /\ Forwarded(d).round = q.round
      /\ Forwarded(d).by = q.by
  BY <1>1, <1>2, <1>3
<1> QED BY <1>4, RotatedFacts DEF q

\* The same for an echo.
LEMMA EchoedFacts ==
  ASSUME NEW s \in Servers, NEW d \in Datagram
  PROVE  /\ Echoed(s, d) \in Datagram
         /\ Echoed(s, d).src = d.dst /\ Echoed(s, d).dst = d.src
         /\ Echoed(s, d).payload = d.payload /\ Echoed(s, d).hops = d.hops
         /\ Echoed(s, d).port = d.port /\ Echoed(s, d).back
         /\ Echoed(s, d).client = d.client /\ Echoed(s, d).round = d.round
         /\ Echoed(s, d).by = s
<1> DEFINE q == Echo(d)
<1>1. q \in Datagram
  BY EchoFacts
<1>2. Echoed(s, d) = [q EXCEPT !.back = TRUE, !.by = s]
  BY DEF Echoed
<1>3. ASSUME NEW r \in Datagram
      PROVE  LET f == [r EXCEPT !.back = TRUE, !.by = s]
             IN  /\ f \in Datagram /\ f.hops = r.hops
                 /\ f.src = r.src /\ f.dst = r.dst /\ f.payload = r.payload
                 /\ f.port = r.port /\ f.back
                 /\ f.client = r.client /\ f.round = r.round /\ f.by = s
  BY DEF Datagram
<1> HIDE DEF q
<1>4. /\ Echoed(s, d) \in Datagram /\ Echoed(s, d).hops = q.hops
      /\ Echoed(s, d).src = q.src /\ Echoed(s, d).dst = q.dst
      /\ Echoed(s, d).payload = q.payload
      /\ Echoed(s, d).port = q.port /\ Echoed(s, d).back
      /\ Echoed(s, d).client = q.client /\ Echoed(s, d).round = q.round
      /\ Echoed(s, d).by = s
  BY <1>1, <1>2, <1>3, Zenon
<1> QED BY <1>4, EchoFacts DEF q

\* A router takes a datagram from one form to another.
LEMMA ForwardedForm ==
  ASSUME NEW d \in Datagram, Form(d), d.dst \in Routers, d.src \notin Local
  PROVE  Form(Forwarded(d))
<1> DEFINE e == Forwarded(d)
<1> SUFFICES Form(e)
  OBVIOUS
<1>1. /\ e.src = d.dst /\ e.dst = d.payload /\ e.payload = d.src
      /\ e.port = d.port /\ e.back = d.back /\ e.client = d.client
      /\ e.round = d.round /\ e.by = d.by /\ e.hops = d.hops + 1
  BY ForwardedFacts
<1> HIDE DEF e
<1>2. d.hops \in Nat /\ d.client \in Clients \cup {None}
  BY DEF Datagram
<1>3. CASE d.client = None
  BY <1>1, <1>2, <1>3, NetworkAssumption DEF Form, StrayForm
<1>4. CASE d.client # None
  BY <1>1, <1>2, <1>4, NetworkAssumption DEF Form, PingForm
<1> QED BY <1>3, <1>4

\* So does a server.
LEMMA EchoedForm ==
  ASSUME NEW s \in Servers, NEW d \in Datagram, Form(d), d.dst = s, ~d.back
  PROVE  Form(Echoed(s, d))
<1> DEFINE e == Echoed(s, d)
<1> SUFFICES Form(e)
  OBVIOUS
<1>1. /\ e.src = d.dst /\ e.dst = d.src /\ e.payload = d.payload
      /\ e.port = d.port /\ e.back /\ e.client = d.client
      /\ e.round = d.round /\ e.by = s /\ e.hops = d.hops
  BY EchoedFacts
<1> HIDE DEF e
<1>2. d.hops \in Nat /\ d.client \in Clients \cup {None}
  BY DEF Datagram
<1>3. CASE d.client = None
  BY <1>1, <1>2, <1>3, NetworkAssumption DEF Form, StrayForm
<1>4. CASE d.client # None
  BY <1>1, <1>2, <1>4, NetworkAssumption DEF Form, PingForm
<1> QED BY <1>3, <1>4

\* A datagram that arrives and is answered by one of the same ping, whoever
\* answers it.
LEMMA RelayInd ==
  ASSUME IndInv, NEW d \in net, NEW e \in Datagram, Form(e),
         e.client = d.client, e.round = d.round,
         Arrives(d, {e}), UNCHANGED <<client, up, lost, strays>>
  PROVE  IndInv'
<1> USE DEF IndInv
<1>1. /\ net' \subseteq net \cup {e} /\ (net \ {d}) \cup {e} \subseteq net'
      /\ copies' \in [Clients -> 0 .. MaxCopies]
      /\ \A c \in Clients : copies'[c] = 0 =>
           copies[c] = 0 /\ (d.client = c => net' = (net \ {d}) \cup {e})
  BY ArrivesFacts
<1>2. TypeOK'
  BY <1>1 DEF TypeOK, client
<1>3. Forms'
  BY <1>1 DEF Forms, Form, PingForm, StrayForm
<1>4. OneAtATime'
  BY <1>1 DEF OneAtATime, client
<1>5. SampleForms' /\ SamplesOfTheirPing'
  BY <1>1 DEF SampleForms, SamplesOfTheirPing, PingForm, client
<1>6. WaitsForSomething'
  BY <1>1 DEF WaitsForSomething, client
<1> QED BY <1>2, <1>3, <1>4, <1>5, <1>6

\* One lemma per action.
LEMMA ForwardInd == IndInv /\ Forward => IndInv'
<1> SUFFICES ASSUME IndInv, Forward PROVE IndInv'
  OBVIOUS
<1>1. PICK d \in net : /\ d.dst \in Routers /\ d.src \notin Local
                       /\ Arrives(d, {Forwarded(d)})
  BY DEF Forward, PassedToHost
<1>2. d \in Datagram /\ Form(d)
  BY <1>1 DEF IndInv, TypeOK, Forms
<1>3. /\ Forwarded(d) \in Datagram /\ Forwarded(d).client = d.client
      /\ Forwarded(d).round = d.round
  BY <1>2, ForwardedFacts
<1>4. Form(Forwarded(d))
  BY <1>1, <1>2, ForwardedForm
<1> QED BY <1>1, <1>3, <1>4, RelayInd DEF Forward

LEMMA EchoInd == ASSUME NEW s \in Servers PROVE IndInv /\ EchoTo(s) => IndInv'
<1> SUFFICES ASSUME IndInv, EchoTo(s) PROVE IndInv'
  OBVIOUS
<1>1. PICK d \in net : d.dst = s /\ ~d.back /\ Arrives(d, {Echoed(s, d)})
  BY DEF EchoTo
<1>2. d \in Datagram /\ Form(d)
  BY <1>1 DEF IndInv, TypeOK, Forms
<1>3. /\ Echoed(s, d) \in Datagram /\ Echoed(s, d).client = d.client
      /\ Echoed(s, d).round = d.round
  BY <1>2, EchoedFacts
<1>4. Form(Echoed(s, d))
  BY <1>1, <1>2, EchoedForm
<1> QED BY <1>1, <1>3, <1>4, RelayInd DEF EchoTo

LEMMA BindInd == ASSUME NEW c \in Clients PROVE IndInv /\ Bind(c) => IndInv'
<1> SUFFICES ASSUME IndInv, Bind(c) PROVE IndInv'
  OBVIOUS
<1> USE DEF IndInv
<1>1. TypeOK'
  BY NetworkAssumption DEF TypeOK, Bind, Rounds
<1>2. Forms' /\ SampleForms' /\ SamplesOfTheirPing' /\ WaitsForSomething'
  BY DEF TypeOK, Forms, Form, PingForm, StrayForm, SampleForms, SamplesOfTheirPing,
         WaitsForSomething, Bind
<1>3. OneAtATime'
  BY DEF TypeOK, OneAtATime, Bind
<1> QED BY <1>1, <1>2, <1>3

LEMMA FailInd == ASSUME NEW c \in Clients PROVE IndInv /\ Fail(c) => IndInv'
<1> SUFFICES ASSUME IndInv, Fail(c) PROVE IndInv'
  OBVIOUS
<1> USE DEF IndInv
<1>1. TypeOK'
  BY DEF TypeOK, Fail
<1>2. Forms' /\ SampleForms' /\ SamplesOfTheirPing' /\ WaitsForSomething'
  BY DEF TypeOK, Forms, Form, PingForm, StrayForm, SampleForms, SamplesOfTheirPing,
         WaitsForSomething, Fail
<1>3. OneAtATime'
  BY DEF TypeOK, OneAtATime, Fail
<1> QED BY <1>1, <1>2, <1>3

\* A ping is a datagram in the first of its forms.
LEMMA PingFacts ==
  ASSUME NEW c \in Clients, NEW n \in Rounds
  PROVE  /\ Ping(c, n) \in Datagram /\ Form(Ping(c, n))
         /\ Ping(c, n).client = c /\ Ping(c, n).round = n
<1> DEFINE p == Ping(c, n)
<1>1. /\ p.src = c /\ p.dst = (IF Route(n) = "direct" THEN ServerOf[c] ELSE ProxyOf[c])
      /\ p.payload = ServerOf[c] /\ p.port = Route(n) /\ ~p.back
      /\ p.client = c /\ p.round = n /\ p.by = None /\ p.hops = 0
  BY DEF Ping, Socket
<1>2. p \in Datagram
  <2>1. Route(n) \in {"direct", "proxy"}
    BY DEF Route
  <2>2. (IF Route(n) = "direct" THEN ServerOf[c] ELSE ProxyOf[c]) \in Address
    BY NetworkAssumption DEF Address
  <2>3. ServerOf[c] \in Address /\ c \in Address
    BY NetworkAssumption DEF Address
  <2> QED BY <2>1, <2>2, <2>3 DEF Ping, Socket, Datagram
<1> HIDE DEF p
<1>3. Form(p)
  <2>1. Route(n) = "direct" \/ Route(n) = "proxy"
    BY DEF Route
  <2>2. p.client # None
    BY <1>1, NetworkAssumption
  <2> QED BY <1>1, <2>1, <2>2 DEF Form, PingForm
<1> QED BY <1>1, <1>2, <1>3 DEF p

LEMMA SendInd == ASSUME NEW c \in Clients PROVE IndInv /\ Send(c) => IndInv'
<1> SUFFICES ASSUME IndInv, Send(c) PROVE IndInv'
  OBVIOUS
<1> USE DEF IndInv
<1> DEFINE p == Ping(c, round[c])
<1>1. /\ pc[c] = "send" /\ net' = net \cup {p} /\ pc' = [pc EXCEPT ![c] = "wait"]
      /\ UNCHANGED <<round, last, up, copies, lost, strays>>
  BY DEF Send, SendWhen
<1>2. p \in Datagram /\ Form(p) /\ p.client = c /\ p.round = round[c]
  <2>1. round[c] \in Rounds
    BY <1>1 DEF TypeOK
  <2> QED BY <2>1, PingFacts
<1> HIDE DEF p
<1>3. TypeOK'
  BY <1>1, <1>2 DEF TypeOK
<1>4. Forms'
  BY <1>1, <1>2 DEF Forms, Form, PingForm, StrayForm
<1>5. SampleForms' /\ SamplesOfTheirPing'
  BY <1>1 DEF SampleForms, SamplesOfTheirPing, PingForm
<1>6. WaitsForSomething'
  BY <1>1, <1>2 DEF TypeOK, WaitsForSomething
<1>7. OneAtATime'
  BY <1>1, <1>2 DEF TypeOK, OneAtATime
<1> QED BY <1>3, <1>4, <1>5, <1>6, <1>7

\* What a client takes for a reply is a reply to one of its own pings, of the
\* loop it is in.
LEMMA ReplyFacts ==
  ASSUME IndInv, NEW c \in Clients, NEW d \in net, pc[c] = "wait",
         d.dst = c, d.back, d.port = Socket(round[c])
  PROVE  d.client = c /\ PingForm(d) /\ Route(d.round) = Route(round[c])
<1>1. d \in Datagram /\ Form(d)
  BY DEF IndInv, TypeOK, Forms
<1>2. d.port # "other"
  BY DEF Socket, Route
<1>3. d.client # None /\ PingForm(d)
  BY <1>1, <1>2 DEF Form, StrayForm
<1>4. d.client \in Clients
  BY <1>1, <1>3 DEF Datagram
<1>5. d.dst # ProxyOf[d.client]
  BY <1>4, NetworkAssumption
<1>6. d.client = c
  BY <1>3, <1>5 DEF PingForm
<1> QED BY <1>3, <1>6 DEF PingForm, Socket

LEMMA ReceiveInd == ASSUME NEW c \in Clients PROVE IndInv /\ Receive(c) => IndInv'
<1> SUFFICES ASSUME IndInv, Receive(c) PROVE IndInv'
  OBVIOUS
<1> USE DEF IndInv
<1>1. PICK d \in net : /\ d.dst = c /\ d.back /\ d.port = Socket(round[c])
                       /\ last' = [last EXCEPT ![c] = d]
                       /\ Arrives(d, {})
  BY DEF Receive
<1>2. /\ pc[c] = "wait" /\ round' = [round EXCEPT ![c] = @ + 1]
      /\ pc' = [pc EXCEPT ![c] = After(round[c])]
      /\ UNCHANGED <<up, lost, strays>>
  BY DEF Receive
<1>3. d \in Datagram /\ round[c] \in Rounds
  BY <1>2 DEF TypeOK
<1>4. d.client = c /\ PingForm(d) /\ Route(d.round) = Route(round[c])
  BY <1>1, <1>2, ReplyFacts
<1>5. /\ net' \subseteq net /\ net \ {d} \subseteq net'
      /\ copies' \in [Clients -> 0 .. MaxCopies]
      /\ \A b \in Clients : copies'[b] = 0 =>
           copies[b] = 0 /\ (d.client = b => net' = net \ {d})
  BY <1>1, ArrivesFacts
<1>6. TypeOK'
  <2>1. /\ After(round[c]) \in {"send", "done"}
        /\ After(round[c]) = "send" => round[c] + 1 \in Rounds
    BY <1>3, NetworkAssumption DEF After, Rounds
  <2>2. pc' \in [Clients -> {"bind", "send", "wait", "done", "failed"}]
    BY <1>2, <2>1 DEF TypeOK
  <2>3. round' \in [Clients -> 1 .. 2 * Pings + 1]
    BY <1>2, <1>3, NetworkAssumption DEF TypeOK, Rounds
  <2>4. \A b \in Clients : pc'[b] \in {"bind", "send", "wait"} => round'[b] \in Rounds
    BY <1>2, <2>1 DEF TypeOK
  <2>5. last' \in [Clients -> Datagram \cup {None}]
    BY <1>1, <1>3 DEF TypeOK
  <2> QED BY <1>2, <1>5, <2>2, <2>3, <2>4, <2>5 DEF TypeOK
<1>7. Forms'
  BY <1>5 DEF Forms, Form, PingForm, StrayForm
<1>8. OneAtATime'
  BY <1>1, <1>2, <1>4, <1>5 DEF TypeOK, OneAtATime
<1>9. SampleForms'
  <2>1. round[c] + 1 - 1 = round[c]
    BY <1>3 DEF Rounds
  <2>2. SUFFICES ASSUME NEW b \in Clients, last'[b] # None
                 PROVE  /\ last'[b].client = b /\ last'[b].dst = b /\ last'[b].back
                        /\ PingForm(last'[b])
                        /\ Route(last'[b].round) = Route(round'[b] - 1)
    BY DEF SampleForms, PingForm
  <2>3. CASE b = c
    BY <1>1, <1>2, <1>4, <2>1, <2>3 DEF TypeOK
  <2>4. CASE b # c
    BY <1>1, <1>2, <2>2, <2>4 DEF TypeOK, SampleForms
  <2> QED BY <2>3, <2>4
<1>10. SamplesOfTheirPing'
  <2>1. round[c] + 1 - 1 = round[c]
    BY <1>3 DEF Rounds
  <2>2. copies[c] = 0 => d.round = round[c]
    BY <1>4 DEF OneAtATime
  <2>3. \A b \in Clients : copies'[b] = 0 => copies[b] = 0
    BY <1>5
  <2> QED BY <1>1, <1>2, <2>1, <2>2, <2>3 DEF TypeOK, SamplesOfTheirPing
<1>11. WaitsForSomething'
  BY <1>2, <1>4, <1>5 DEF TypeOK, WaitsForSomething, After
<1> QED BY <1>6, <1>7, <1>8, <1>9, <1>10, <1>11

LEMMA StopInd == ASSUME NEW s \in Servers PROVE IndInv /\ Stop(s) => IndInv'
  BY DEF IndInv, TypeOK, Forms, Form, PingForm, StrayForm, SampleForms, OneAtATime,
         SamplesOfTheirPing, WaitsForSomething, Stop, client

\* A datagram of a ping is never where no socket is for it.
LEMMA DiscardInd == IndInv /\ Discard => IndInv'
<1> SUFFICES ASSUME IndInv, Discard PROVE IndInv'
  OBVIOUS
<1> USE DEF IndInv
<1>1. PICK d \in net :
        /\ \/ d.dst \in Routers /\ PassedToHost(d)
           \/ d.dst \notin Routers \cup (IF d.back THEN Clients ELSE Servers)
        /\ net' = net \ {d}
  BY DEF Discard
<1>2. UNCHANGED <<pc, round, last, up, copies, lost, strays>>
  BY DEF Discard, client
<1>3. d.client = None
  <2>1. d \in Datagram /\ Form(d)
    BY DEF TypeOK, Forms
  <2>2. SUFFICES ASSUME d.client # None PROVE FALSE
    OBVIOUS
  <2>3. d.client \in Clients /\ PingForm(d)
    BY <2>1, <2>2 DEF Datagram, Form
  <2>4. /\ ServerOf[d.client] \in Servers /\ ServerOf[d.client] \notin Local
        /\ ProxyOf[d.client] \in Routers /\ d.client \notin Local
    BY <2>3, NetworkAssumption
  <2>5. d.src \in Local => d.dst \notin Routers
    BY <2>3, <2>4, NetworkAssumption DEF PingForm
  <2>6. d.dst \in Routers \cup (IF d.back THEN Clients ELSE Servers)
    BY <2>3, <2>4 DEF PingForm
  <2> QED BY <1>1, <2>5, <2>6 DEF PassedToHost
<1>4. TypeOK' /\ Forms'
  BY <1>1, <1>2 DEF TypeOK, Forms, Form, PingForm, StrayForm
<1>5. OneAtATime' /\ SampleForms' /\ SamplesOfTheirPing'
  BY <1>1, <1>2 DEF OneAtATime, SampleForms, SamplesOfTheirPing, PingForm
<1>6. WaitsForSomething'
  BY <1>1, <1>2, <1>3, NetworkAssumption DEF WaitsForSomething
<1> QED BY <1>4, <1>5, <1>6

LEMMA LoseInd == IndInv /\ Lose => IndInv'
<1> SUFFICES ASSUME IndInv, Lose PROVE IndInv'
  OBVIOUS
<1> USE DEF IndInv
<1>1. PICK d \in net : net' = net \ {d} /\ lost' = lost \cup ({d.client} \ {None})
  BY DEF Lose
<1>2. UNCHANGED <<pc, round, last, up, copies, strays>>
  BY DEF Lose, client
<1>3. d.client \in Clients \cup {None}
  BY DEF TypeOK, Datagram
<1>4. TypeOK' /\ Forms'
  BY <1>1, <1>2, <1>3 DEF TypeOK, Forms, Form, PingForm, StrayForm
<1>5. OneAtATime' /\ SampleForms' /\ SamplesOfTheirPing'
  BY <1>1, <1>2 DEF OneAtATime, SampleForms, SamplesOfTheirPing, PingForm
<1>6. WaitsForSomething'
  BY <1>1, <1>2, NetworkAssumption DEF WaitsForSomething
<1> QED BY <1>4, <1>5, <1>6

LEMMA StrayInd == IndInv /\ Stray => IndInv'
<1> SUFFICES ASSUME IndInv, Stray PROVE IndInv'
  OBVIOUS
<1> USE DEF IndInv
<1> DEFINE d(h, to, x) ==
      [ src |-> h, dst |-> to, payload |-> x, port |-> "other", back |-> FALSE,
        client |-> None, round |-> 1, by |-> None, hops |-> 0 ]
<1>1. PICK h \in Hosts, to \in Servers \cup Routers, x \in Address :
        net' = net \cup {d(h, to, x)}
  BY DEF Stray
<1> DEFINE e == d(h, to, x)
<1>2. e \in Datagram
  BY <1>1, NetworkAssumption DEF Datagram, Hosts, Address, Rounds
<1>3. /\ e.client = None /\ e.port = "other" /\ e.hops = 0 /\ ~e.back
      /\ e.src \notin Routers
  BY <1>1 DEF Hosts
<1>4. net' = net \cup {e}
  BY <1>1
<1> HIDE DEF e, d
<1>5. /\ strays < MaxStrays /\ strays' = strays + 1
      /\ UNCHANGED <<pc, round, last, up, copies, lost>>
  BY DEF Stray, client
<1>6. TypeOK'
  BY <1>2, <1>4, <1>5, NetworkAssumption DEF TypeOK
<1>7. Forms'
  BY <1>3, <1>4 DEF Forms, Form, PingForm, StrayForm
<1>8. OneAtATime'
  BY <1>3, <1>4, <1>5, NetworkAssumption DEF OneAtATime
<1>9. SampleForms' /\ SamplesOfTheirPing' /\ WaitsForSomething'
  BY <1>4, <1>5 DEF SampleForms, SamplesOfTheirPing, WaitsForSomething, PingForm
<1> QED BY <1>6, <1>7, <1>8, <1>9

LEMMA InitInd == Init => IndInv
<1> SUFFICES ASSUME Init PROVE IndInv
  OBVIOUS
<1>1. TypeOK
  BY NetworkAssumption DEF Init, TypeOK, Rounds
<1>2. Forms /\ OneAtATime /\ SampleForms /\ SamplesOfTheirPing /\ WaitsForSomething
  BY DEF Init, Forms, OneAtATime, SampleForms, SamplesOfTheirPing, WaitsForSomething
<1> QED BY <1>1, <1>2 DEF IndInv

LEMMA StutterInd == IndInv /\ UNCHANGED vars => IndInv'
  BY DEF IndInv, TypeOK, Forms, Form, PingForm, StrayForm, SampleForms, OneAtATime,
         SamplesOfTheirPing, WaitsForSomething, vars, client

\* The inductive invariant holds of every behavior.
THEOREM Invariance == Spec => []IndInv
<1>1. IndInv /\ [Next]_vars => IndInv'
  BY BindInd, SendInd, ReceiveInd, FailInd, EchoInd, StopInd, ForwardInd,
     DiscardInd, StrayInd, LoseInd, StutterInd DEF Next
<1> QED BY <1>1, InitInd, PTL DEF Spec

\* Every variable has its type.
THEOREM TypeCorrect == Spec => []TypeOK
<1>1. IndInv => TypeOK
  BY DEF IndInv
<1> QED BY <1>1, Invariance, PTL

\* However many routers and servers there are and whatever is sent to them, no
\* datagram goes round in circles.
THEOREM NoCircle == Spec => []AtMostTwoHops
<1>1. IndInv => AtMostTwoHops
  BY DEF IndInv, TypeOK, Forms, Form, PingForm, StrayForm, AtMostTwoHops, Datagram
<1> QED BY <1>1, Invariance, PTL

\* What the client reports as direct pings and as pings through the router are
\* just that, for any number of clients that share a router and a port.
THEOREM RoundTrips == Spec => []SamplesAreRoundTrips
<1>1. IndInv => SamplesAreRoundTrips
  <2> SUFFICES ASSUME IndInv, NEW c \in Clients, last[c] # None
               PROVE  LET d == last[c]
                      IN  /\ d.client = c /\ d.by = ServerOf[c] /\ d.payload = ServerOf[c]
                          /\ \/ round[c] - 1 <= Pings /\ d.hops = 0 /\ d.src = ServerOf[c]
                             \/ round[c] - 1 > Pings /\ d.hops = 2 /\ d.src = ProxyOf[c]
    BY DEF SamplesAreRoundTrips
  <2>1. /\ last[c].client = c /\ last[c].dst = c /\ last[c].back
        /\ PingForm(last[c]) /\ Route(last[c].round) = Route(round[c] - 1)
    BY DEF IndInv, SampleForms
  <2>2. c # ProxyOf[c] /\ c # ServerOf[c]
    BY NetworkAssumption
  <2>3. round[c] - 1 \in Int /\ Pings \in Nat
    BY NetworkAssumption DEF IndInv, TypeOK
  <2> QED BY <2>1, <2>2, <2>3 DEF PingForm, Route
<1> QED BY <1>1, Invariance, PTL

\* Pairing replies with pings by their order is right as long as the network
\* does not duplicate.
THEOREM OwnReplies == Spec => []SamplesOfTheirPing
<1>1. IndInv => SamplesOfTheirPing
  BY DEF IndInv
<1> QED BY <1>1, Invariance, PTL

\* Only a lost datagram of its own or the end of its server leaves a client
\* waiting in vain.
THEOREM NoWaitInVain == Spec => []WaitsForSomething
<1>1. IndInv => WaitsForSomething
  BY DEF IndInv
<1> QED BY <1>1, Invariance, PTL

\* How many datagrams each client has in the network: the inductive part of
\* FewInFlight.
Allowed(c) == copies[c] + (IF pc[c] \in {"wait", "failed"} THEN 1 ELSE 0)

Few(c) == IsFiniteSet(InFlight(c)) /\ Cardinality(InFlight(c)) <= Allowed(c)

CountInv == \A c \in Clients : Few(c)

\* A datagram that arrives takes its place away, or is copied.
LEMMA ArrivesCount ==
  ASSUME TypeOK, NEW d \in net, NEW A, Arrives(d, A), NEW c \in Clients
  PROVE  \/ /\ UNCHANGED copies
            /\ InFlight(c)' = (InFlight(c) \ {d}) \cup {e \in A : e.client = c}
         \/ /\ d.client = c /\ copies'[c] = copies[c] + 1
            /\ InFlight(c)' = InFlight(c) \cup {e \in A : e.client = c}
         \/ /\ d.client # c /\ copies'[c] = copies[c]
            /\ InFlight(c)' = InFlight(c) \cup {e \in A : e.client = c}
<1>1. CASE net' = (net \ {d}) \cup A /\ UNCHANGED copies
  BY <1>1 DEF InFlight
<1>2. CASE /\ d.client # None /\ copies[d.client] < MaxCopies
           /\ copies' = [copies EXCEPT ![d.client] = @ + 1]
           /\ net' = net \cup A
  <2>1. InFlight(c)' = InFlight(c) \cup {e \in A : e.client = c}
    BY <1>2 DEF InFlight
  <2>2. d.client = c => copies'[c] = copies[c] + 1
    BY <1>2 DEF TypeOK
  <2>3. d.client # c => copies'[c] = copies[c]
    BY <1>2 DEF TypeOK
  <2> QED BY <2>1, <2>2, <2>3
<1> QED BY <1>1, <1>2 DEF Arrives

\* One answer to each datagram keeps the count, wherever it is answered.
LEMMA RelayCount ==
  ASSUME TypeOK, CountInv, NEW d \in net, NEW e, e.client = d.client,
         Arrives(d, {e}), UNCHANGED pc
  PROVE  CountInv'
<1> SUFFICES ASSUME NEW c \in Clients PROVE Few(c)'
  BY DEF CountInv
<1> DEFINE S == InFlight(c)
           n == Cardinality(S)
           more == IF pc[c] \in {"wait", "failed"} THEN 1 ELSE 0
           A == {f \in {e} : f.client = c}
<1>1. IsFiniteSet(S) /\ n <= copies[c] + more
  BY DEF CountInv, Few, Allowed
<1>2. /\ n \in Nat /\ copies[c] \in Nat /\ more \in Nat
      /\ more' = more
  BY <1>1, FS_CardinalityType, NetworkAssumption DEF TypeOK
<1>3. A = IF d.client = c THEN {e} ELSE {}
  OBVIOUS
<1>4. d \in S <=> d.client = c
  BY DEF InFlight
<1>5. \/ UNCHANGED copies /\ S' = (S \ {d}) \cup A
      \/ d.client = c /\ copies'[c] = copies[c] + 1 /\ S' = S \cup A
      \/ d.client # c /\ copies'[c] = copies[c] /\ S' = S \cup A
  BY ArrivesCount
<1> HIDE DEF S, A, more
<1>6. IsFiniteSet(S') /\ Cardinality(S') <= copies'[c] + more
  <2>1. CASE d.client # c
    <3>1. S' = S /\ copies'[c] = copies[c]
      BY <1>3, <1>4, <1>5, <2>1
    <3> QED BY <1>1, <3>1
  <2>2. CASE d.client = c /\ UNCHANGED copies /\ S' = (S \ {d}) \cup {e}
    <3>1. IsFiniteSet(S \ {d}) /\ Cardinality(S \ {d}) = n - 1
      BY <1>1, <1>4, <2>2, FS_RemoveElement
    <3>2. /\ IsFiniteSet((S \ {d}) \cup {e})
          /\ \/ Cardinality((S \ {d}) \cup {e}) = n - 1
             \/ Cardinality((S \ {d}) \cup {e}) = n - 1 + 1
      BY <3>1, FS_AddElement
    <3> QED BY <1>1, <1>2, <2>2, <3>2
  <2>3. CASE d.client = c /\ copies'[c] = copies[c] + 1 /\ S' = S \cup {e}
    <3>1. /\ IsFiniteSet(S \cup {e})
          /\ \/ Cardinality(S \cup {e}) = n
             \/ Cardinality(S \cup {e}) = n + 1
      BY <1>1, FS_AddElement
    <3> QED BY <1>1, <1>2, <2>3, <3>1
  <2> QED BY <1>3, <1>5, <2>1, <2>2, <2>3
<1>7. Cardinality(InFlight(c)') = Cardinality(InFlight(c))'
      /\ (IsFiniteSet(InFlight(c)))' = IsFiniteSet(InFlight(c)')
  OBVIOUS
<1> QED BY <1>2, <1>6 DEF Few, Allowed, S, more

\* Nothing else adds a datagram that belongs to a client.
LEMMA FewerCount ==
  ASSUME CountInv, UNCHANGED copies, NEW c \in Clients,
         InFlight(c)' \subseteq InFlight(c),
         pc[c] \in {"wait", "failed"} => pc'[c] \in {"wait", "failed"},
         copies[c] \in Nat
  PROVE  Few(c)'
<1>1. IsFiniteSet(InFlight(c)) /\ Cardinality(InFlight(c)) <= Allowed(c)
  BY DEF CountInv, Few
<1>2. /\ IsFiniteSet(InFlight(c)') /\ Cardinality(InFlight(c)') \in Nat
      /\ Cardinality(InFlight(c)) \in Nat
      /\ Cardinality(InFlight(c)') <= Cardinality(InFlight(c))
  BY <1>1, FS_Subset, FS_CardinalityType
<1>3. Allowed(c) \in Nat /\ Allowed(c)' \in Nat /\ Allowed(c) <= Allowed(c)'
  BY DEF Allowed
<1> QED BY <1>1, <1>2, <1>3 DEF Few

LEMMA SendCount ==
  ASSUME NEW c \in Clients
  PROVE  IndInv /\ CountInv /\ Send(c) => CountInv'
<1> SUFFICES ASSUME IndInv, CountInv, Send(c), NEW b \in Clients PROVE Few(b)'
  BY DEF CountInv
<1> DEFINE p == Ping(c, round[c])
<1>1. /\ pc[c] = "send" /\ net' = net \cup {p} /\ pc' = [pc EXCEPT ![c] = "wait"]
      /\ UNCHANGED copies
  BY DEF Send, SendWhen
<1>2. p.client = c
  <2>1. round[c] \in Rounds
    BY <1>1 DEF IndInv, TypeOK
  <2> QED BY <2>1, PingFacts
<1> HIDE DEF p
<1>3. pc \in [Clients -> {"bind", "send", "wait", "done", "failed"}]
      /\ copies[b] \in Nat
  BY NetworkAssumption DEF IndInv, TypeOK
<1>4. CASE b # c
  <2>1. InFlight(b)' = InFlight(b) /\ pc'[b] = pc[b]
    BY <1>1, <1>2, <1>3, <1>4 DEF InFlight
  <2> QED BY <1>1, <1>3, <2>1, FewerCount
<1>5. CASE b = c
  <2>1. InFlight(c)' = InFlight(c) \cup {p}
    BY <1>1, <1>2 DEF InFlight
  <2>2. IsFiniteSet(InFlight(c)) /\ Cardinality(InFlight(c)) <= copies[c]
    BY <1>1, <1>3, <1>5 DEF CountInv, Few, Allowed
  <2>3. Cardinality(InFlight(c)) \in Nat
    BY <2>2, FS_CardinalityType
  <2>4. /\ IsFiniteSet(InFlight(c) \cup {p})
        /\ \/ Cardinality(InFlight(c) \cup {p}) = Cardinality(InFlight(c))
           \/ Cardinality(InFlight(c) \cup {p}) = Cardinality(InFlight(c)) + 1
    BY <2>2, FS_AddElement
  <2>5. pc'[c] = "wait" /\ copies'[c] = copies[c]
    BY <1>1, <1>3
  <2>6. /\ IsFiniteSet(InFlight(c)')
        /\ Cardinality(InFlight(c)') <= copies'[c] + 1
    BY <1>3, <1>5, <2>1, <2>2, <2>3, <2>4, <2>5
  <2> QED BY <1>5, <2>5, <2>6 DEF Few, Allowed
<1> QED BY <1>4, <1>5

\* The reply that ends the waiting is one of the client's own datagrams.
LEMMA ReceiveCount ==
  ASSUME NEW c \in Clients
  PROVE  IndInv /\ CountInv /\ Receive(c) => CountInv'
<1> SUFFICES ASSUME IndInv, CountInv, Receive(c), NEW b \in Clients PROVE Few(b)'
  BY DEF CountInv
<1>1. PICK d \in net : /\ d.dst = c /\ d.back /\ d.port = Socket(round[c])
                       /\ Arrives(d, {})
  BY DEF Receive
<1>2. pc[c] = "wait" /\ pc' = [pc EXCEPT ![c] = After(round[c])]
  BY DEF Receive
<1>3. d.client = c
  BY <1>1, <1>2, ReplyFacts
<1>4. TypeOK /\ copies[b] \in Nat
  BY NetworkAssumption DEF IndInv, TypeOK
<1> DEFINE S == InFlight(b)
           n == Cardinality(S)
<1>5. IsFiniteSet(S) /\ n \in Nat /\ n <= Allowed(b)
  BY FS_CardinalityType DEF CountInv, Few
<1>6. \/ UNCHANGED copies /\ S' = S \ {d}
      \/ d.client = b /\ copies'[b] = copies[b] + 1 /\ S' = S
      \/ d.client # b /\ copies'[b] = copies[b] /\ S' = S
  <2>1. PICK A : A = {}
    OBVIOUS
  <2>2. {e \in A : e.client = b} = {} /\ Arrives(d, A)
    BY <1>1, <2>1
  <2>3. \/ UNCHANGED copies /\ S' = (S \ {d}) \cup {e \in A : e.client = b}
        \/ /\ d.client = b /\ copies'[b] = copies[b] + 1
           /\ S' = S \cup {e \in A : e.client = b}
        \/ /\ d.client # b /\ copies'[b] = copies[b]
           /\ S' = S \cup {e \in A : e.client = b}
    BY <1>4, <2>2, ArrivesCount
  <2> HIDE DEF S
  <2> QED BY <2>2, <2>3
<1>7. d \in S <=> b = c
  BY <1>3 DEF InFlight
<1>8. IsFiniteSet(S \ {d}) /\ (b = c => Cardinality(S \ {d}) = n - 1)
  BY <1>5, <1>7, FS_RemoveElement
<1>9. b # c => pc'[b] = pc[b]
  BY <1>2, <1>4 DEF TypeOK
<1> HIDE DEF S
<1>10. CASE b # c
  <2>1. S' = S /\ copies'[b] = copies[b]
    BY <1>3, <1>6, <1>7, <1>10
  <2> QED BY <1>5, <1>9, <1>10, <2>1 DEF Few, Allowed, S
<1>11. CASE b = c
  <2>1. Allowed(b) = copies[b] + 1 /\ copies[b] <= copies'[b]
    BY <1>2, <1>4, <1>6, <1>11 DEF Allowed
  <2>2. IsFiniteSet(S') /\ Cardinality(S') <= copies'[b]
    BY <1>3, <1>4, <1>5, <1>6, <1>8, <1>11, <2>1
  <2>3. copies'[b] \in Nat
    BY <1>3, <1>4, <1>6, <1>11
  <2> QED BY <2>2, <2>3, FS_CardinalityType DEF Few, Allowed, S
<1> QED BY <1>10, <1>11

\* The other steps only take datagrams away or add one of no client.
LEMMA OtherCount ==
  ASSUME IndInv, CountInv,
         \/ \E c \in Clients : Bind(c) \/ Fail(c)
         \/ \E s \in Servers : Stop(s)
         \/ Discard \/ Stray \/ Lose \/ UNCHANGED vars
  PROVE  CountInv'
<1> SUFFICES ASSUME NEW b \in Clients PROVE Few(b)'
  BY DEF CountInv
<1>1. UNCHANGED copies
  BY DEF Bind, Fail, Stop, Discard, Stray, Lose, vars
<1>2. InFlight(b)' \subseteq InFlight(b)
  <2>1. b # None
    BY NetworkAssumption
  <2> QED BY <2>1 DEF InFlight, Bind, Fail, Stop, Discard, Stray, Lose, vars
<1>3. pc[b] \in {"wait", "failed"} => pc'[b] \in {"wait", "failed"}
  BY DEF IndInv, TypeOK, Bind, Fail, Stop, Discard, Stray, Lose, vars, client
<1>4. copies[b] \in Nat
  BY NetworkAssumption DEF IndInv, TypeOK
<1> QED BY <1>1, <1>2, <1>3, <1>4, FewerCount

\* Neither the clients nor the routers nor the servers multiply traffic: what
\* a client has in the network is its one ping and the network's duplicates.
THEOREM NoAmplification == Spec => []FewInFlight
<1>1. Init => CountInv
  <2> SUFFICES ASSUME Init, NEW c \in Clients PROVE Few(c)
    BY DEF CountInv
  <2>1. InFlight(c) = {}
    BY DEF Init, InFlight
  <2>2. copies[c] = 0 /\ pc[c] = "bind"
    BY DEF Init
  <2> QED BY <2>1, <2>2, FS_EmptySet DEF Few, Allowed
<1>2. IndInv /\ CountInv /\ [Next]_vars => CountInv'
  <2> SUFFICES ASSUME IndInv, CountInv, [Next]_vars PROVE CountInv'
    OBVIOUS
  <2>1. ASSUME NEW s \in Servers, EchoTo(s) PROVE CountInv'
    <3>1. PICK d \in net : d.dst = s /\ ~d.back /\ Arrives(d, {Echoed(s, d)})
      BY <2>1 DEF EchoTo
    <3>2. TypeOK /\ d \in Datagram
      BY DEF IndInv, TypeOK
    <3>3. Echoed(s, d).client = d.client
      BY <3>2, EchoedFacts
    <3> QED BY <2>1, <3>1, <3>2, <3>3, RelayCount DEF EchoTo, client
  <2>2. CASE Forward
    <3>1. PICK d \in net : Arrives(d, {Forwarded(d)})
      BY <2>2 DEF Forward
    <3>2. TypeOK /\ d \in Datagram
      BY DEF IndInv, TypeOK
    <3>3. Forwarded(d).client = d.client
      BY <3>2, ForwardedFacts
    <3> QED BY <2>2, <3>1, <3>2, <3>3, RelayCount DEF Forward, client
  <2> QED BY <2>1, <2>2, SendCount, ReceiveCount, OtherCount DEF Next
<1>3. CountInv => FewInFlight
  BY DEF CountInv, Few, Allowed, FewInFlight
<1> QED BY <1>1, <1>2, <1>3, Invariance, PTL DEF Spec
=============================================================================
