----------------------------- MODULE MCNetwork ------------------------------
(***************************************************************************)
(* Clients that share a server and a router.                               *)
(***************************************************************************)
EXTENDS Network

CONSTANTS c1, c2, s1, s2, r1, r2, h1, h2

OneServer == [c \in Clients |-> s1]
OneRouter == [c \in Clients |-> r1]
=============================================================================
