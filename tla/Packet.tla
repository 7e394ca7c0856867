------------------------------- MODULE Packet -------------------------------
(***************************************************************************)
(* What the router and the echo server do to the three addresses of a      *)
(* datagram: source, destination, and the address at the head of its       *)
(* payload.  A packet is any record with fields src, dst and payload.      *)
(***************************************************************************)

\* Mutant: the source does not go into the payload.
Rotated_KeepsPayload(p) == [p EXCEPT !.dst = p.payload, !.src = p.dst]

\* try_forward_packet: to the address in the payload, from the address it was
\* sent to, with its sender in the payload.
Rotated(p) == [p EXCEPT !.dst = p.payload, !.src = p.dst, !.payload = p.src]

\* Mutant: the reply goes to the address in the payload.
Echo_ToPayload(p) == [p EXCEPT !.src = p.dst, !.dst = p.payload]

\* The echo server sends the same payload back to where it came from.
Echo(p) == [p EXCEPT !.src = p.dst, !.dst = p.src]
=============================================================================
