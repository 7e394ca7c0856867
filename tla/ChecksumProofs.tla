--------------------------- MODULE ChecksumProofs ---------------------------
(***************************************************************************)
(* Facts about the checksum arithmetic, for every word size.               *)
(***************************************************************************)
EXTENDS Checksum, WellFoundedInduction, TLAPS

\* update_udp_checksum returns a u16.
LEMMA UpdateType ==
  ASSUME NEW csum \in Word, NEW old \in Word, NEW new \in Word
  PROVE  update_udp_checksum(csum, old, new) \in Word
  BY WordModAssumption
     DEF update_udp_checksum, WrappingAdd, WrappingSub, Complement, Ones, Word

(***************************************************************************)
(* try_forward_packet replaces three words in a cycle (the destination by  *)
(* the target, the source by the router, the payload by the source).  One  *)
(* update loses the end-around carry of RFC 1624, but the three updates of *)
(* the cycle cancel: the checksum comes back unchanged, which is right     *)
(* because the three words are only permuted.                              *)
(***************************************************************************)
LEMMA UpdateCycle ==
  ASSUME NEW csum \in Word, NEW r \in Word, NEW s \in Word, NEW t \in Word
  PROVE  update_udp_checksum(
           update_udp_checksum(
             update_udp_checksum(csum, r, t), s, r), t, s) = csum
  BY WordModAssumption
     DEF update_udp_checksum, WrappingAdd, WrappingSub, Complement, Ones, Word

\* Updates commute, so the halves of the addresses can be patched in the
\* interleaved order of the code.
LEMMA UpdateCommutes ==
  ASSUME NEW csum \in Word, NEW a \in Word, NEW b \in Word,
         NEW c \in Word, NEW d \in Word
  PROVE  update_udp_checksum(update_udp_checksum(csum, a, b), c, d)
           = update_udp_checksum(update_udp_checksum(csum, c, d), a, b)
  BY WordModAssumption
     DEF update_udp_checksum, WrappingAdd, WrappingSub, Complement, Ones, Word

\* What the division by WordMod yields for a sum below nine times WordMod.
LEMMA DivMod ==
  ASSUME NEW x \in Nat, x < 9 * WordMod
  PROVE  /\ x \div WordMod \in 0 .. 8
         /\ x % WordMod \in Word
         /\ x = WordMod * (x \div WordMod) + (x % WordMod)
  <1>1. /\ x \div WordMod \in Int
        /\ x % WordMod \in Word
        /\ x = WordMod * (x \div WordMod) + (x % WordMod)
    BY WordModAssumption DEF Word
  <1>. DEFINE q == x \div WordMod
  <1>2. q \in Int
    BY <1>1
  <1>3. WordMod * q <= x /\ x < WordMod * q + WordMod
    BY <1>1, WordModAssumption DEF Word
  <1>. HIDE DEF q
  <1>4. q >= 0
    <2>1. ASSUME q <= -1 PROVE FALSE
      <3>1. WordMod * q <= -WordMod
        BY <2>1, <1>2, WordModAssumption
      <3>2. QED
        BY <3>1, <1>3, <1>2, WordModAssumption
    <2>2. QED
      BY <2>1, <1>2
  <1>5. q <= 8
    <2>1. ASSUME q >= 9 PROVE FALSE
      <3>1. WordMod * q >= WordMod * 9
        BY <2>1, <1>2, WordModAssumption
      <3>2. QED
        BY <3>1, <1>3, <1>2, WordModAssumption
    <2>2. QED
      BY <2>1, <1>2
  <1>6. QED
    BY <1>1, <1>2, <1>4, <1>5 DEF q

\* Two folds of a sum of nine words leave one word, and take away a multiple
\* of 0xffff.
LEMMA TwoFolds ==
  ASSUME NEW x \in Nat, x <= 9 * Ones
  PROVE  /\ FoldCarry(FoldCarry(x)) \in Word
         /\ \E k \in 0 .. 9 : x = FoldCarry(FoldCarry(x)) + k * Ones
  <1>. DEFINE q == x \div WordMod
              r == x % WordMod
              y == FoldCarry(x)
              u == y \div WordMod
              v == y % WordMod
  <1>1. q \in 0 .. 8 /\ r \in Word /\ x = WordMod * q + r
    BY DivMod, WordModAssumption DEF Ones
  <1>2. y = q + r
    BY <1>1 DEF FoldCarry, Word
  <1>. HIDE DEF q, r
  <1>3. x = y + q * Ones
    BY <1>1, <1>2, WordModAssumption DEF Ones, Word
  <1>4. y \in Nat /\ y <= Ones + 8
    BY <1>1, <1>2, WordModAssumption DEF Ones, Word
  <1>5. y < 9 * WordMod
    BY <1>4, WordModAssumption DEF Ones
  <1>6. u \in 0 .. 8 /\ v \in Word /\ y = WordMod * u + v
    <2>. HIDE DEF y
    <2>. QED
      BY <1>4, <1>5, DivMod
  <1>7. FoldCarry(y) = u + v
    BY <1>6 DEF FoldCarry, Word
  <1>. HIDE DEF y, u, v
  <1>8. u \in {0, 1}
    BY <1>4, <1>6, WordModAssumption DEF Ones, Word
  <1>9. y = (u + v) + u * Ones
    BY <1>6, <1>8, WordModAssumption DEF Ones, Word
  <1>10. u + v \in Word
    BY <1>4, <1>6, <1>8, WordModAssumption DEF Ones, Word
  <1>11. q + u \in 0 .. 9 /\ x = (u + v) + (q + u) * Ones
    BY <1>1, <1>3, <1>6, <1>8, <1>9, WordModAssumption DEF Ones, Word
  <1>12. QED
    BY <1>7, <1>10, <1>11 DEF y

\* A multiple is what division by 0xffff leaves no remainder of.
LEMMA VerifiesIff ==
  ASSUME NEW sum \in Nat
  PROVE  Verifies(sum) <=> \E k \in 1 .. sum : sum = k * Ones
  <1>. DEFINE q == sum \div Ones
              r == sum % Ones
  <1>1. Ones \in Nat /\ Ones >= 15
    BY WordModAssumption DEF Ones
  <1>2. q \in Int /\ r \in Int /\ 0 <= r /\ r < Ones /\ sum = Ones * q + r
    BY <1>1
  <1>3. Verifies(sum) <=> sum > 0 /\ r = 0
    BY DEF Verifies
  <1>. HIDE DEF q, r
  <1>4. ASSUME sum > 0, r = 0 PROVE \E k \in 1 .. sum : sum = k * Ones
    <2>1. sum = q * Ones
      BY <1>1, <1>2, <1>4
    <2>2. q > 0
      <3>1. q <= 0 => q * Ones <= 0
        BY <1>1, <1>2
      <3>2. QED
        BY <1>2, <1>4, <2>1, <3>1
    <2>3. q <= q * Ones
      BY <1>1, <1>2, <2>2
    <2>4. QED
      BY <1>2, <2>1, <2>2, <2>3
  <1>5. ASSUME NEW k \in 1 .. sum, sum = k * Ones PROVE sum > 0 /\ r = 0
    <2>. DEFINE m == k - q
    <2>1. m \in Int /\ r = m * Ones
      BY <1>1, <1>2, <1>5
    <2>. HIDE DEF m
    <2>2. m < 1
      <3>1. m >= 1 => m * Ones >= Ones
        BY <1>1, <2>1
      <3>2. QED
        BY <1>1, <1>2, <2>1, <3>1
    <2>3. m > -1
      <3>1. m <= -1 => m * Ones <= -Ones
        BY <1>1, <2>1
      <3>2. QED
        BY <1>1, <1>2, <2>1, <3>1
    <2>4. m = 0
      BY <2>1, <2>2, <2>3
    <2>5. QED
      BY <1>1, <2>1, <2>4
  <1>6. QED
    BY <1>3, <1>4, <1>5

\* calculate_ip_checksum returns a u16, and the header that carries it is
\* accepted by a receiver, whatever checksum the header carried before.
THEOREM IpChecksumVerifies ==
  ASSUME NEW hdr \in Header
  PROVE  /\ calculate_ip_checksum(hdr) \in Word
         /\ Verifies((HeaderSum(hdr) - hdr[6]) + calculate_ip_checksum(hdr))
  <1>. DEFINE x == HeaderSum(hdr) - hdr[6]
              f == FoldCarry(FoldCarry(x))
  <1>1. x \in Nat /\ x <= 9 * Ones
    BY WordModAssumption DEF Header, HeaderSum, Word, Ones
  <1>. HIDE DEF x
  <1>2. f \in Word
    BY <1>1, TwoFolds
  <1>3. PICK k \in 0 .. 9 : x = f + k * Ones
    BY <1>1, TwoFolds
  <1>4. f % WordMod = f
    <2>. HIDE DEF f
    <2>. QED
      BY <1>2, WordModAssumption DEF Word
  <1>. HIDE DEF f
  <1>5. calculate_ip_checksum(hdr) = Ones - f
    BY <1>4 DEF calculate_ip_checksum, Complement, x, f
  <1>6. Ones - f \in Word
    BY <1>2, WordModAssumption DEF Word, Ones
  <1>7. x + (Ones - f) = (k + 1) * Ones
    BY <1>2, <1>3, WordModAssumption DEF Word, Ones
  <1>8. k + 1 \in 1 .. (x + (Ones - f))
    BY <1>2, <1>3, <1>7, WordModAssumption DEF Word, Ones
  <1>9. Verifies(x + (Ones - f))
    <2>1. x + (Ones - f) \in Nat
      BY <1>1, <1>6, WordModAssumption DEF Word
    <2>2. QED
      BY <1>7, <1>8, <2>1, VerifiesIff
  <1>10. QED
    BY <1>5, <1>6, <1>9 DEF x

-----------------------------------------------------------------------------
(***************************************************************************)
(* The receiver's loop.  Both sums of the reference are recursive          *)
(* functions of the number of words, and what they compute is shown by     *)
(* induction on it.                                                        *)
(***************************************************************************)
\* Induction over the natural numbers, for a set.
LEMMA Induction ==
  ASSUME NEW S, 0 \in S, \A n \in Nat : n \in S => n + 1 \in S
  PROVE  Nat \subseteq S
  <1>. DEFINE Less == {ss \in Nat \X Nat : ss[1] < ss[2]}
  <1>1. IsWellFoundedOn(Less, Nat)
    BY Zenon, NatLessThanWellFounded DEF OpToRel
  <1>. SUFFICES ASSUME Nat \ S # {} PROVE FALSE
    OBVIOUS
  <1>2. PICK n \in Nat \ S : \A m \in Nat \ S : ~(<<m, n>> \in Less)
    <2>1. Nat \ S \subseteq Nat
      OBVIOUS
    <2>2. QED
      BY <1>1, <2>1, WFMin
  <1>3. n # 0
    OBVIOUS
  <1>4. n - 1 \in Nat /\ n - 1 < n
    BY <1>3
  <1>5. n - 1 \in S
    BY <1>2, <1>4
  <1>6. (n - 1) + 1 \in S
    BY <1>4, <1>5
  <1>7. QED
    BY <1>6

\* A loop over words that adds them up in some way defines a function.
LEMMA LoopDefined ==
  ASSUME NEW step \in [Int \X Int -> Int], NEW n \in Nat, NEW ws \in [1 .. n -> Int]
  PROVE  \E f \in [0 .. n -> Int] :
           f = [i \in 0 .. n |-> IF i = 0 THEN 0 ELSE step[<<f[i - 1], ws[i]>>]]
  <1>. DEFINE Upto(m) == \E f \in [0 .. m -> Int] :
                 f = [i \in 0 .. m |-> IF i = 0 THEN 0 ELSE step[<<f[i - 1], ws[i]>>]]
              S == { m \in Nat : m <= n => Upto(m) }
  <1>1. Upto(0)
    <2>1. [i \in 0 .. 0 |-> 0] \in [0 .. 0 -> Int]
      OBVIOUS
    <2>2. [i \in 0 .. 0 |-> 0]
            = [i \in 0 .. 0 |-> IF i = 0 THEN 0 ELSE step[<<[j \in 0 .. 0 |-> 0][i - 1], ws[i]>>]]
      OBVIOUS
    <2>3. QED
      BY <2>1, <2>2
  <1>2. ASSUME NEW m \in Nat, m + 1 <= n, Upto(m) PROVE Upto(m + 1)
    <2>1. PICK f \in [0 .. m -> Int] :
            f = [i \in 0 .. m |-> IF i = 0 THEN 0 ELSE step[<<f[i - 1], ws[i]>>]]
      BY <1>2
    <2>. DEFINE g == [i \in 0 .. (m + 1) |-> IF i = m + 1 THEN step[<<f[m], ws[m + 1]>>] ELSE f[i]]
    <2>2. step[<<f[m], ws[m + 1]>>] \in Int
      <3>1. m \in 0 .. m /\ m + 1 \in 1 .. n
        BY <1>2
      <3>2. f[m] \in Int /\ ws[m + 1] \in Int
        BY <3>1
      <3>3. QED
        BY <3>2
    <2>3. g \in [0 .. (m + 1) -> Int]
      BY <2>2
    <2>4. ASSUME NEW i \in 0 .. (m + 1)
          PROVE  g[i] = IF i = 0 THEN 0 ELSE step[<<g[i - 1], ws[i]>>]
      <3>1. CASE i = m + 1
        <4>1. g[i] = step[<<f[m], ws[m + 1]>>]
          BY <3>1
        <4>2. i # 0 /\ g[i - 1] = f[m]
          BY <3>1
        <4>3. QED
          BY <3>1, <4>1, <4>2
      <3>2. CASE i \in 0 .. m
        <4>1. g[i] = f[i]
          BY <3>2
        <4>2. i # 0 => g[i - 1] = f[i - 1]
          BY <3>2
        <4>3. QED
          BY <2>1, <3>2, <4>1, <4>2
      <3>3. QED
        BY <3>1, <3>2
    <2>. HIDE DEF g
    <2>5. g = [i \in 0 .. (m + 1) |-> IF i = 0 THEN 0 ELSE step[<<g[i - 1], ws[i]>>]]
      BY <2>3, <2>4
    <2>6. QED
      BY <2>3, <2>5
  <1>3. Upto(n)
    <2>. HIDE DEF Upto
    <2>1. 0 \in S
      BY <1>1
    <2>2. \A m \in Nat : m \in S => m + 1 \in S
      BY <1>2
    <2>3. n \in S
      <3>. HIDE DEF S
      <3>1. Nat \subseteq S
        BY <2>1, <2>2, Induction
      <3>2. QED
        BY <3>1
    <2>4. QED
      BY <2>3
  <1>4. QED
    BY <1>3

\* What the two loops of the reference compute, word by word.
LEMMA ReceiverLoop ==
  ASSUME NEW n \in Nat, NEW ws \in [1 .. n -> Word]
  PROVE  \E r : /\ ReceiverSum(ws, n) = r[n]
                /\ r[0] = 0
                /\ \A i \in 1 .. n : r[i] = EndAroundAdd(r[i - 1], ws[i])
  <1>. DEFINE step == [p \in Int \X Int |-> EndAroundAdd(p[1], p[2])]
              Loop(f) == f = [i \in 0 .. n |-> IF i = 0 THEN 0 ELSE EndAroundAdd(f[i - 1], ws[i])]
              s == CHOOSE f : Loop(f)
  <1>1. ws \in [1 .. n -> Int]
    BY WordModAssumption DEF Word
  <1>2. step \in [Int \X Int -> Int]
    BY WordModAssumption DEF EndAroundAdd, Ones
  <1>3. \A a, b \in Int : step[<<a, b>>] = EndAroundAdd(a, b)
    OBVIOUS
  <1>4. ReceiverSum(ws, n) = s[n]
    BY DEF ReceiverSum
  <1>5. \E f : Loop(f)
    <2>. HIDE DEF step
    <2>1. PICK f \in [0 .. n -> Int] :
            f = [i \in 0 .. n |-> IF i = 0 THEN 0 ELSE step[<<f[i - 1], ws[i]>>]]
      BY <1>1, <1>2, LoopDefined
    <2>2. \A i \in 1 .. n : f[i - 1] \in Int /\ ws[i] \in Int
      BY <1>1
    <2>3. \A i \in 1 .. n : step[<<f[i - 1], ws[i]>>] = EndAroundAdd(f[i - 1], ws[i])
      BY <1>3, <2>2
    <2>4. Loop(f)
      BY <2>1, <2>3
    <2>5. QED
      BY <2>4
  <1>6. Loop(s)
    <2>. HIDE DEF Loop
    <2>1. QED
      BY <1>5
  <1>. HIDE DEF s
  <1>7. s[0] = 0 /\ \A i \in 1 .. n : s[i] = EndAroundAdd(s[i - 1], ws[i])
    BY <1>6
  <1>8. QED
    BY <1>4, <1>7

LEMMA PlainLoop ==
  ASSUME NEW n \in Nat, NEW ws \in [1 .. n -> Word]
  PROVE  \E s : /\ PlainSum(ws, n) = s[n]
                /\ s[0] = 0
                /\ \A i \in 1 .. n : s[i] = s[i - 1] + ws[i]
  <1>. DEFINE step == [p \in Int \X Int |-> p[1] + p[2]]
              Loop(f) == f = [i \in 0 .. n |-> IF i = 0 THEN 0 ELSE f[i - 1] + ws[i]]
              s == CHOOSE f : Loop(f)
  <1>1. ws \in [1 .. n -> Int]
    BY WordModAssumption DEF Word
  <1>2. step \in [Int \X Int -> Int]
    OBVIOUS
  <1>3. \A a, b \in Int : step[<<a, b>>] = a + b
    OBVIOUS
  <1>4. PlainSum(ws, n) = s[n]
    BY DEF PlainSum
  <1>5. \E f : Loop(f)
    <2>. HIDE DEF step
    <2>1. PICK f \in [0 .. n -> Int] :
            f = [i \in 0 .. n |-> IF i = 0 THEN 0 ELSE step[<<f[i - 1], ws[i]>>]]
      BY <1>1, <1>2, LoopDefined
    <2>2. \A i \in 1 .. n : f[i - 1] \in Int /\ ws[i] \in Int
      BY <1>1
    <2>3. \A i \in 1 .. n : step[<<f[i - 1], ws[i]>>] = f[i - 1] + ws[i]
      BY <1>3, <2>2
    <2>4. ASSUME NEW i \in 0 .. n
          PROVE  f[i] = IF i = 0 THEN 0 ELSE f[i - 1] + ws[i]
      <3>1. f[i] = IF i = 0 THEN 0 ELSE step[<<f[i - 1], ws[i]>>]
        BY <2>1
      <3>2. i # 0 => i \in 1 .. n
        OBVIOUS
      <3>3. QED
        BY <2>3, <3>1, <3>2
    <2>5. Loop(f)
      BY <2>4
    <2>6. QED
      BY <2>5
  <1>6. Loop(s)
    <2>. HIDE DEF Loop
    <2>1. QED
      BY <1>5
  <1>. HIDE DEF s
  <1>7. s[0] = 0 /\ \A i \in 1 .. n : s[i] = s[i - 1] + ws[i]
    BY <1>6
  <1>8. QED
    BY <1>4, <1>7

\* The receiver's loop is the plain sum reduced modulo 0xffff, except that it
\* only comes to 0 when all words are 0.
LEMMA Reduced ==
  ASSUME NEW n \in Nat, NEW ws \in [1 .. n -> Word]
  PROVE  /\ ReceiverSum(ws, n) \in Word
         /\ PlainSum(ws, n) \in Nat
         /\ \E k \in Nat : PlainSum(ws, n) = ReceiverSum(ws, n) + k * Ones
         /\ ReceiverSum(ws, n) = 0 => PlainSum(ws, n) = 0
  <1>1. PICK r : /\ ReceiverSum(ws, n) = r[n]
                 /\ r[0] = 0
                 /\ \A i \in 1 .. n : r[i] = EndAroundAdd(r[i - 1], ws[i])
    BY ReceiverLoop
  <1>2. PICK s : /\ PlainSum(ws, n) = s[n]
                 /\ s[0] = 0
                 /\ \A i \in 1 .. n : s[i] = s[i - 1] + ws[i]
    BY PlainLoop
  <1>. DEFINE Upto(i) == /\ r[i] \in Word
                         /\ s[i] \in Nat
                         /\ \E k \in Nat : s[i] = r[i] + k * Ones
                         /\ r[i] = 0 => s[i] = 0
              S == { i \in Nat : i <= n => Upto(i) }
  <1>3. Upto(0)
    <2>1. 0 = 0 + 0 * Ones /\ 0 \in Word
      BY WordModAssumption DEF Ones, Word
    <2>2. QED
      BY <1>1, <1>2, <2>1
  <1>4. ASSUME NEW i \in Nat, i + 1 <= n, Upto(i) PROVE Upto(i + 1)
    <2>1. i + 1 \in 1 .. n /\ (i + 1) - 1 = i
      BY <1>4
    <2>2. /\ r[i + 1] = EndAroundAdd(r[i], ws[i + 1])
          /\ s[i + 1] = s[i] + ws[i + 1]
      BY <1>1, <1>2, <2>1
    <2>3. ws[i + 1] \in Word
      BY <2>1
    <2>4. PICK k \in Nat : s[i] = r[i] + k * Ones
      BY <1>4
    <2>5. s[i + 1] \in Nat
      BY <1>4, <2>2, <2>3, WordModAssumption DEF Word
    <2>6. CASE r[i] + ws[i + 1] >= WordMod
      <3>1. r[i + 1] = (r[i] + ws[i + 1]) - Ones
        BY <2>2, <2>6 DEF EndAroundAdd
      <3>2. r[i + 1] \in Word /\ r[i + 1] # 0
        BY <1>4, <2>3, <2>6, <3>1, WordModAssumption DEF Word, Ones
      <3>3. s[i + 1] = r[i + 1] + (k + 1) * Ones
        BY <1>4, <2>2, <2>3, <2>4, <3>1, WordModAssumption DEF Word, Ones
      <3>4. QED
        BY <2>5, <3>2, <3>3
    <2>7. CASE r[i] + ws[i + 1] < WordMod
      <3>1. r[i + 1] = r[i] + ws[i + 1]
        BY <1>4, <2>2, <2>3, <2>7, WordModAssumption DEF EndAroundAdd, Word
      <3>2. r[i + 1] \in Word
        BY <1>4, <2>3, <2>7, <3>1, WordModAssumption DEF Word
      <3>3. s[i + 1] = r[i + 1] + k * Ones
        BY <1>4, <2>2, <2>3, <2>4, <3>1, WordModAssumption DEF Word, Ones
      <3>4. r[i + 1] = 0 => s[i + 1] = 0
        BY <1>4, <2>2, <2>3, <3>1, WordModAssumption DEF Word
      <3>5. QED
        BY <2>5, <3>2, <3>3, <3>4
    <2>8. QED
      BY <1>4, <2>3, <2>6, <2>7, WordModAssumption DEF Word
  <1>5. Upto(n)
    <2>. HIDE DEF Upto
    <2>1. 0 \in S
      BY <1>3
    <2>2. \A i \in Nat : i \in S => i + 1 \in S
      BY <1>4
    <2>3. n \in S
      <3>. HIDE DEF S
      <3>1. Nat \subseteq S
        BY <2>1, <2>2, Induction
      <3>2. QED
        BY <3>1
    <2>4. QED
      BY <2>3
  <1>6. QED
    BY <1>1, <1>2, <1>5

\* The closed form of the reference is the receiver's loop, for any number of
\* words of any size.
THEOREM ReceiverAgrees ==
  ASSUME NEW n \in Nat, NEW ws \in [1 .. n -> Word]
  PROVE  ReceiverSum(ws, n) = Ones <=> Verifies(PlainSum(ws, n))
  <1>. DEFINE r == ReceiverSum(ws, n)
              s == PlainSum(ws, n)
  <1>1. /\ r \in Word /\ s \in Nat
        /\ r = 0 => s = 0
    BY Reduced
  <1>2. PICK k \in Nat : s = r + k * Ones
    BY Reduced
  <1>. HIDE DEF r, s
  <1>3. ASSUME r = Ones PROVE Verifies(s)
    <2>1. s = (k + 1) * Ones
      BY <1>1, <1>2, <1>3, WordModAssumption DEF Ones
    <2>2. k + 1 <= (k + 1) * Ones
      BY WordModAssumption DEF Ones
    <2>3. k + 1 \in 1 .. s
      BY <1>1, <2>1, <2>2
    <2>4. QED
      BY <1>1, <2>1, <2>3, VerifiesIff
  <1>4. ASSUME Verifies(s) PROVE r = Ones
    <2>1. PICK j \in 1 .. s : s = j * Ones
      BY <1>1, <1>4, VerifiesIff
    <2>2. r # 0 /\ r <= Ones
      BY <1>1, <2>1, WordModAssumption DEF Word, Ones
    <2>3. r = (j - k) * Ones
      BY <1>1, <1>2, <2>1, WordModAssumption DEF Word, Ones
    <2>. DEFINE m == j - k
    <2>4. m \in Int /\ r = m * Ones
      BY <2>1, <2>3
    <2>. HIDE DEF m
    <2>5. m = 1
      <3>1. m > 0
        <4>1. m <= 0 => m * Ones <= 0
          BY <2>4, WordModAssumption DEF Ones
        <4>2. QED
          BY <1>1, <2>2, <2>4, <4>1 DEF Word
      <3>2. m < 2
        <4>1. m >= 2 => m * Ones >= 2 * Ones
          BY <2>4, WordModAssumption DEF Ones
        <4>2. QED
          BY <2>2, <2>4, <4>1, WordModAssumption DEF Ones
      <3>3. QED
        BY <2>4, <3>1, <3>2
    <2>6. QED
      BY <2>4, <2>5, WordModAssumption DEF Ones
  <1>5. QED
    BY <1>3, <1>4 DEF r, s
=============================================================================
