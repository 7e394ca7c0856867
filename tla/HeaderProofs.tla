----------------------------- MODULE HeaderProofs ---------------------------
(***************************************************************************)
(* A receiver that adds up the words of a header in a loop accepts every   *)
(* header that left the router, for any word size.                         *)
(***************************************************************************)
EXTENDS MCChecksum, ChecksumProofs

\* Ten words and their sum, written out.
LEMMA HeaderPlainSum ==
  ASSUME NEW hdr \in Header
  PROVE  PlainSum(hdr, 10) = HeaderSum(hdr)
  <1>1. 10 \in Nat /\ hdr \in [1 .. 10 -> Word]
    BY DEF Header
  <1>2. PICK s : /\ PlainSum(hdr, 10) = s[10]
                 /\ s[0] = 0
                 /\ \A i \in 1 .. 10 : s[i] = s[i - 1] + hdr[i]
    BY <1>1, PlainLoop
  <1>3. \A i \in 1 .. 10 : hdr[i] \in Int
    BY <1>1, WordModAssumption DEF Word
  <1>4. /\ s[1] = 0 + hdr[1]      /\ s[2] = s[1] + hdr[2]
        /\ s[3] = s[2] + hdr[3]   /\ s[4] = s[3] + hdr[4]
        /\ s[5] = s[4] + hdr[5]   /\ s[6] = s[5] + hdr[6]
        /\ s[7] = s[6] + hdr[7]   /\ s[8] = s[7] + hdr[8]
        /\ s[9] = s[8] + hdr[9]   /\ s[10] = s[9] + hdr[10]
    BY <1>2
  <1>5. QED
    BY <1>2, <1>3, <1>4 DEF HeaderSum

\* The header that calculate_ip_checksum leaves verifies.
Recomputed(hdr) == [hdr EXCEPT ![6] = calculate_ip_checksum(hdr)]

LEMMA RecomputedVerifies ==
  ASSUME NEW hdr \in Header
  PROVE  Recomputed(hdr) \in Header /\ Verifies(HeaderSum(Recomputed(hdr)))
  <1>. DEFINE k == calculate_ip_checksum(hdr)
              new == Recomputed(hdr)
  <1>1. k \in Word /\ Verifies((HeaderSum(hdr) - hdr[6]) + k)
    BY IpChecksumVerifies
  <1>2. new = [hdr EXCEPT ![6] = k]
    BY DEF Recomputed
  <1>. HIDE DEF k, new
  <1>3. new \in Header
    BY <1>1, <1>2 DEF Header
  <1>4. HeaderSum(new) = (HeaderSum(hdr) - hdr[6]) + k
    <2>1. \A i \in 1 .. 10 : hdr[i] \in Int
      BY WordModAssumption DEF Header, Word
    <2>2. k \in Int
      BY <1>1, WordModAssumption DEF Word
    <2>3. /\ new[6] = k
          /\ \A i \in (1 .. 10) \ {6} : new[i] = hdr[i]
      BY <1>2 DEF Header
    <2>4. HeaderSum(new) = hdr[1] + hdr[2] + hdr[3] + hdr[4] + hdr[5] + k
                             + hdr[7] + hdr[8] + hdr[9] + hdr[10]
      BY <2>3 DEF HeaderSum
    <2>5. QED
      BY <2>1, <2>2, <2>4 DEF HeaderSum
  <1>5. QED
    BY <1>1, <1>3, <1>4 DEF new

\* A receiver's loop takes a header that verifies.
LEMMA ReceiverTakes ==
  ASSUME NEW hdr \in Header, Verifies(HeaderSum(hdr))
  PROVE  ReceiverSum(hdr, 10) = Ones
  <1>1. Verifies(PlainSum(hdr, 10))
    BY HeaderPlainSum
  <1>2. QED
    BY <1>1, ReceiverAgrees DEF Header

\* Whatever a header holds, its old checksum included: once the program has
\* recomputed the checksum, a receiver that adds up its ten words with
\* end-around carry accepts it (main.rs:222-236).
THEOREM EveryHeaderAccepted ==
  \A hdr \in Header : ReceiverSum(Recomputed(hdr), 10) = Ones
  BY RecomputedVerifies, ReceiverTakes

\* The words are a header, and one that was rewritten verifies.
HeaderInv ==
  /\ words \in Header
  /\ rewritten => Verifies(HeaderSum(words))

LEMMA RewriteHeaderInd ==
  ASSUME HeaderInv, NEW a \in Word, NEW b \in Word, NEW c \in Word, NEW d \in Word,
         RewriteHeader(a, b, c, d)
  PROVE  HeaderInv'
  <1>. DEFINE hdr == <<words[1], words[2], words[3], words[4], words[5], words[6],
                       a, b, c, d>>
  <1>1. hdr \in Header
    BY DEF HeaderInv, Header
  <1>2. words' = Recomputed(hdr)
    BY DEF RewriteHeader, Recomputed
  <1>. HIDE DEF hdr
  <1>3. QED
    BY <1>1, <1>2, RecomputedVerifies DEF HeaderInv

\* The receiver's loop over the ten words of a header that left the router
\* ends at 0xffff, whatever the header held when it came (main.rs:222-236).
THEOREM HeadersAccepted == HeaderSpec => []HeaderAccepted
  <1>1. HeaderInit => HeaderInv
    <2>1. /\ 0 \in Word /\ 1 \in Word /\ 2 \in Word /\ 3 \in Word /\ 4 \in Word
          /\ Ones \in Word
      BY WordModAssumption DEF Word, Ones
    <2>2. ASSUME HeaderInit PROVE words \in Header
      <3>1. PICK l, i, f, p, c \in {0, Ones} : words = <<4, l, i, f, p, c, 1, 2, 3, 4>>
        BY <2>2 DEF HeaderInit
      <3>2. /\ l \in Word /\ i \in Word /\ f \in Word /\ p \in Word /\ c \in Word
        BY <2>1
      <3>3. QED
        BY <2>1, <3>1, <3>2 DEF Header
    <2>3. HeaderInit => ~rewritten
      BY DEF HeaderInit
    <2>4. QED
      BY <2>2, <2>3 DEF HeaderInv
  <1>2. HeaderInv /\ [HeaderNext]_vars => HeaderInv'
    <2>. SUFFICES ASSUME HeaderInv, [HeaderNext]_vars PROVE HeaderInv'
      OBVIOUS
    <2>1. ASSUME NEW a \in Sample, NEW b \in Sample, NEW c \in Sample, NEW d \in Sample,
                 RewriteHeader(a, b, c, d)
          PROVE  HeaderInv'
      BY <2>1, RewriteHeaderInd, SampleAssumption
    <2>2. CASE UNCHANGED vars
      BY <2>2 DEF vars, HeaderInv
    <2>3. QED
      BY <2>1, <2>2 DEF HeaderNext
  <1>3. HeaderInv => HeaderAccepted
    <2>. SUFFICES ASSUME HeaderInv, rewritten PROVE ReceiverSum(words, 10) = Ones
      BY DEF HeaderAccepted
    <2>1. words \in Header /\ Verifies(HeaderSum(words))
      BY DEF HeaderInv
    <2>2. QED
      BY <2>1, ReceiverTakes
  <1>4. QED
    BY <1>1, <1>2, <1>3, PTL DEF HeaderSpec
=============================================================================
