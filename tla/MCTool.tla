------------------------------- MODULE MCTool -------------------------------
(***************************************************************************)
(* Command lines over addresses of three bits and bytes 0 to 2.            *)
(***************************************************************************)
EXTENDS Tool

Empty == [form |-> "empty"]
BadNet == [form |-> "bad"]
Cidr(net, prefix) == [form |-> "cidr", net |-> net, prefix |-> prefix]
Mac == <<0, 1, 2, 2, 1, 0>>

CommandLine(s, l, b, m) ==
  [stats |-> s, local |-> l, backend |-> b, mac |-> m, release |-> TRUE]

\* A debug build panics where a release build wraps.
InDebug(a) == [a EXCEPT !.release = FALSE]

\* Every network and every prefix, with and without a backend network, good
\* and bad addresses of the gateway, statistics.
AnyArgs ==
  { CommandLine(FALSE, Cidr(n, p), Empty, Mac) : n \in SUBSET Bits, p \in 0 .. MaxPrefix }
  \cup { CommandLine(FALSE, Cidr({2}, 1), b, Mac) : b \in {BadNet, Cidr({2, 1}, 2)} }
  \cup { CommandLine(FALSE, l, Cidr({2, 1}, 2), m) :
           l \in {Empty, BadNet, Cidr({1}, 3)}, m \in {Mac, <<2, 0, 0, 0, 1, 1>>} }
  \cup { CommandLine(s, Cidr({2}, 1), Empty, m) :
           s \in BOOLEAN, m \in {Mac, <<NoByte>>, <<0, 1, 2, 2, 1, NoByte>>,
                                 <<0, 1, 2, 2, 1>>, <<0, 1, 2, 2, 1, 0, 1>>} }
  \cup { InDebug(CommandLine(FALSE, Cidr({2}, p), Empty, Mac)) : p \in 0 .. MaxPrefix }

\* A first run with few command lines and a second one with any.
MCArgs == <<
  { CommandLine(FALSE, Cidr({2}, 1), Cidr({2, 1}, 2), Mac),
    CommandLine(FALSE, Empty, Empty, <<2, 0, 0, 0, 1, 1>>) },
  AnyArgs >>

\* Configurations that differ in everything.
FewArgs == <<
  { CommandLine(FALSE, Cidr({2}, 1), Cidr({2, 1}, 2), Mac) },
  { CommandLine(FALSE, Cidr({0}, 3), Cidr({1}, 2), <<2, 0, 0, 0, 1, 1>>),
    CommandLine(FALSE, Empty, Empty, Mac) } >>

\* The networks alone.
NetArgs == << { CommandLine(FALSE, Cidr(n, p), Empty, Mac) : n \in SUBSET Bits, p \in 0 .. Width } >>
=============================================================================
