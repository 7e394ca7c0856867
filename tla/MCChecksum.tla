----------------------------- MODULE MCChecksum -----------------------------
(***************************************************************************)
(* Model checking of the checksum arithmetic against the receiver of       *)
(* RFC 1071, which adds words with end-around carry.                       *)
(*                                                                         *)
(* Two small machines share the variables: the IPv4 header whose address   *)
(* words are overwritten and whose checksum is recomputed (HeaderSpec),    *)
(* and a datagram whose words are overwritten one at a time while its      *)
(* checksum is patched (PatchSpec).                                        *)
(***************************************************************************)
EXTENDS Checksum

CONSTANTS Sample,    \* words written into a header or a datagram
          DataWords  \* number of words of the datagram

VARIABLES words,     \* the words of the header or of the datagram
          check,     \* the checksum of the datagram (a header holds its own)
          rewritten  \* has the header been through the router?

vars == <<words, check, rewritten>>

ASSUME SampleAssumption == Sample \subseteq Word /\ DataWords \in Nat

-----------------------------------------------------------------------------
\* Headers as they arrive: any of the sampled words before the addresses, a
\* checksum that may be wrong, a first word that holds version and length.
HeaderInit ==
  /\ words \in { <<4, l, i, f, p, c, 1, 2, 3, 4>> :
                   l, i, f, p, c \in {0, Ones} }
  /\ check = 0
  /\ rewritten = FALSE

RewriteHeader(a, b, c, d) ==
  LET hdr == <<words[1], words[2], words[3], words[4], words[5], words[6],
               a, b, c, d>>
  IN  /\ words' = [hdr EXCEPT ![6] = calculate_ip_checksum(hdr)]
      /\ rewritten' = TRUE
      /\ UNCHANGED check

HeaderNext == \E a, b, c, d \in Sample : RewriteHeader(a, b, c, d)

HeaderSpec == HeaderInit /\ [][HeaderNext]_vars

\* A header that left the router is accepted by every receiver: the plain sum
\* minus the old checksum, folded twice and complemented, is the one's
\* complement checksum, whatever the header held when it arrived.
HeaderAccepted == rewritten => ReceiverSum(words, 10) = Ones

-----------------------------------------------------------------------------
\* A datagram and the checksum its sender computed for it (0 is sent as Ones).
PatchInit ==
  /\ words \in [1 .. DataWords -> Word]
  /\ check = LET c == Complement(ReceiverSum(words, DataWords))
             IN  IF c = 0 THEN Ones ELSE c
  /\ rewritten = FALSE

Patch(i, w) ==
  /\ words' = [words EXCEPT ![i] = w]
  /\ check' = update_udp_checksum(check, words[i], w)
  /\ rewritten' = TRUE

PatchNext == \E i \in 1 .. DataWords, w \in Sample : Patch(i, w)

PatchSpec == PatchInit /\ [][PatchNext]_vars

\* The comment on update_udp_checksum: it "calculates updated UDP checksum
\* when changing a word 'old' to 'new' in packet", by the algorithm of
\* RFC 1624.  A receiver then accepts the patched datagram.
PatchedDatagramAccepted ==
  EndAroundAdd(ReceiverSum(words, DataWords), check) = Ones
=============================================================================
