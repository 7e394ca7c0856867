------------------------------ MODULE Checksum ------------------------------
(***************************************************************************)
(* The checksum arithmetic of the XDP program                              *)
(* (udp-router-ebpf/src/main.rs): the full computation of the IPv4 header  *)
(* checksum and the incremental update of the UDP checksum.                *)
(*                                                                         *)
(* A 16-bit word is a number below WordMod.  WordMod is 2^16 in the code   *)
(* and a parameter here: nothing below depends on it being a power of two, *)
(* so the model checker uses 4-bit words and the proofs cover every width. *)
(* Words are in host order; from_be and to_be only move them in and out of *)
(* the packet.                                                             *)
(***************************************************************************)
EXTENDS Integers

CONSTANT WordMod   \* the number of values of a u16

\* Nine words must fold into one word and a carry of at most eight.
ASSUME WordModAssumption == WordMod \in Nat /\ WordMod >= 16

Word == 0 .. (WordMod - 1)

Ones == WordMod - 1   \* 0xffff

\* !w
Complement(w) == Ones - w

\* u16::wrapping_sub and u16::wrapping_add
WrappingSub(a, b) == IF a >= b THEN a - b ELSE (a - b) + WordMod
WrappingAdd(a, b) == IF a + b < WordMod THEN a + b ELSE (a + b) - WordMod

\* The checksum after a word of the packet changes from old to new.
update_udp_checksum(csum, old, new) ==
  Complement(WrappingAdd(WrappingSub(Complement(csum), old), new))

\* (checksum & 0xffff) + (checksum >> 16)
FoldCarry(sum) == (sum % WordMod) + (sum \div WordMod)

\* An IPv4 header without options: ten words, the sixth is its checksum.
Header == [1 .. 10 -> Word]

HeaderSum(hdr) ==
  hdr[1] + hdr[2] + hdr[3] + hdr[4] + hdr[5] + hdr[6]
    + hdr[7] + hdr[8] + hdr[9] + hdr[10]

\* Mutant: the carry out of the first fold is lost.
calculate_ip_checksum_OneFold(hdr) ==
  Complement(FoldCarry(HeaderSum(hdr) - hdr[6]) % WordMod)

calculate_ip_checksum(hdr) ==
  LET sum == HeaderSum(hdr) - hdr[6]
  IN  Complement(FoldCarry(FoldCarry(sum)) % WordMod)

-----------------------------------------------------------------------------
(***************************************************************************)
(* Reference.  A receiver adds the words one by one with end-around carry  *)
(* and accepts when the result is 0xffff (RFC 1071).                       *)
(***************************************************************************)
EndAroundAdd(a, b) == IF a + b >= WordMod THEN (a + b) - Ones ELSE a + b

\* What the receiver has after the first n words of ws.
ReceiverSum(ws, n) ==
  LET sum[i \in 0 .. n] == IF i = 0 THEN 0 ELSE EndAroundAdd(sum[i - 1], ws[i])
  IN  sum[n]

\* The plain sum of the same words.
PlainSum(ws, n) ==
  LET sum[i \in 0 .. n] == IF i = 0 THEN 0 ELSE sum[i - 1] + ws[i]
  IN  sum[n]

\* The receiver accepts exactly when the plain sum is a positive multiple of
\* 0xffff (ReceiverAgrees in ChecksumProofs).  The properties of the data path
\* use this form, which asks for no order of the words.
Verifies(sum) == sum > 0 /\ sum % Ones = 0
=============================================================================
