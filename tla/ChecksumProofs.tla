--------------------------- MODULE ChecksumProofs ---------------------------
(***************************************************************************)
(* The checksum of utils.cpp, for words of any size and datagrams of any    *)
(* length: a filled datagram verifies, the loop computes the one's          *)
(* complement sum, and damage of one word is noticed.                       *)
(***************************************************************************)
EXTENDS Checksum, TLAPS, FiniteSetTheorems, WellFoundedInduction

-----------------------------------------------------------------------------
(* A filled datagram. *)

FilledInv ==
    /\ stage = "made" => words \in [1..Words -> Word]
    /\ FilledIsAccepted

\* Clearing the field undoes filling it (utils.cpp 72, recvfile.cpp 153).
LEMMA ClearedAfterFilled ==
  ASSUME NEW w \in [1..Words -> Word]
  PROVE  /\ Cleared(Filled(w)) = Cleared(w)
         /\ Filled(w)[Field] = cksum(Cleared(w))
  <1>1. Field \in DOMAIN w
    BY WordAssumption
  <1> QED BY <1>1 DEF Filled, Cleared

\* What fillackPacket and fillPacket fill verifies at the other side.
LEMMA FilledVerifies ==
  ASSUME NEW w \in [1..Words -> Word]
  PROVE  Verifies(Filled(w))
  BY ClearedAfterFilled DEF Verifies

\* A datagram that arrives as it was filled is accepted, whatever its field held
\* before, for every number and width of words (utils.cpp 71-76).
THEOREM FilledAccepted == Spec => []FilledIsAccepted
  <1>1. Init => FilledInv
    BY DEF Init, FilledInv, FilledIsAccepted
  <1>2. FilledInv /\ [Next]_vars => FilledInv'
    <2> SUFFICES ASSUME FilledInv, [Next]_vars PROVE FilledInv'
      OBVIOUS
    <2>1. CASE Fill
      <3>1. words \in [1..Words -> Word] /\ words' = Filled(words) /\ stage' = "filled"
        BY <2>1 DEF Fill, FilledInv
      <3>2. accepted' = Verifies(words')
        BY <2>1 DEF Fill
      <3>3. Verifies(words')
        BY <3>1, FilledVerifies
      <3> QED BY <3>1, <3>2, <3>3 DEF FilledInv, FilledIsAccepted
    <2>2. CASE Damage
      BY <2>2 DEF Damage, FilledInv, FilledIsAccepted
    <2>3. CASE UNCHANGED vars
      BY <2>3 DEF vars, FilledInv, FilledIsAccepted
    <2> QED BY <2>1, <2>2, <2>3 DEF Next
  <1> QED BY <1>1, <1>2, PTL DEF Spec, FilledInv

-----------------------------------------------------------------------------
(* Induction and recursion over the words. *)

\* Every set of naturals that is not empty has a least element.
LEMMA LeastNat ==
  ASSUME NEW S \in SUBSET Nat, S # {}
  PROVE  \E m \in S : \A n \in S : m <= n
  <1> DEFINE below(n) == 0..n
             initials == {below(n) : n \in S}
  <1>1. initials \subseteq FiniteSubsetsOf(Nat) /\ initials # {}
    <2>1. \A n \in S : below(n) \in SUBSET Nat /\ IsFiniteSet(below(n))
      BY FS_Interval
    <2> QED BY <2>1 DEF FiniteSubsetsOf
  <1>2. \E t \in initials : \A u \in initials : <<u, t>> \notin StrictSubsetOrdering(Nat)
    <2> HIDE DEF initials
    <2> QED BY <1>1, FS_StrictSubsetOrderingWellFounded, WFMin
  <1>3. PICK m \in S : \A u \in initials : <<u, below(m)>> \notin StrictSubsetOrdering(Nat)
    BY <1>2
  <1>4. SUFFICES ASSUME NEW n \in S, n < m PROVE FALSE
    BY DEF initials
  <1>5. /\ below(n) \in SUBSET Nat /\ below(m) \in SUBSET Nat
        /\ below(n) \subseteq below(m) /\ m \in below(m) \ below(n)
    BY <1>4
  <1>6. <<below(n), below(m)>> \in StrictSubsetOrdering(Nat)
    BY <1>5 DEF StrictSubsetOrdering
  <1> QED BY <1>3, <1>6

\* Induction up to a bound, on a set of naturals.
LEMMA Induction ==
  ASSUME NEW K \in Nat, NEW S, 0 \in S, \A k \in 1..K : k - 1 \in S => k \in S
  PROVE  \A k \in 0..K : k \in S
  <1> DEFINE wrong == (0..K) \ S
  <1>1. SUFFICES ASSUME wrong # {} PROVE FALSE
    OBVIOUS
  <1>2. PICK n \in wrong : \A m \in wrong : n <= m
    <2>1. wrong \in SUBSET Nat
      OBVIOUS
    <2> HIDE DEF wrong
    <2> QED BY <1>1, <2>1, LeastNat
  <1>3. n \in 1..K /\ n - 1 \in 0..K /\ n - 1 \notin wrong
    BY <1>2
  <1> QED BY <1>2, <1>3

\* What is given step by step exists: a function that starts from c and goes on
\* by step.
IsIteration(f, n, D, c, step) ==
    /\ f \in [0..n -> D] /\ f[0] = c
    /\ \A k \in 1..n : f[k] = step[k][f[k - 1]]

LEMMA Iteration ==
  ASSUME NEW K \in Nat, NEW D, NEW c \in D, NEW step \in [1..K -> [D -> D]]
  PROVE  \E f : IsIteration(f, K, D, c, step)
  <1> DEFINE upTo(f, n) == IsIteration(f, n, D, c, step)
             found == {n \in 0..K : \E f : upTo(f, n)}
  <1>1. 0 \in found
    <2>1. upTo([i \in 0..0 |-> c], 0)
      BY DEF IsIteration
    <2> QED BY <2>1
  <1>2. ASSUME NEW n \in 1..K, n - 1 \in found PROVE n \in found
    <2>1. PICK f : upTo(f, n - 1)
      BY <1>2
    <2> DEFINE g == [i \in 0..n |-> IF i = n THEN step[n][f[n - 1]] ELSE f[i]]
    <2>2. f[n - 1] \in D /\ step[n] \in [D -> D]
      BY <2>1 DEF IsIteration
    <2>3. \A i \in 0..(n - 1) : f[i] \in D
      BY <2>1 DEF IsIteration
    <2>4. g \in [0..n -> D]
      BY <2>2, <2>3
    <2>5. g[0] = c
      BY <2>1 DEF IsIteration
    <2>6. ASSUME NEW k \in 1..n PROVE g[k] = step[k][g[k - 1]]
      <3>1. CASE k = n
        BY <3>1
      <3>2. CASE k # n
        <4>1. k \in 1..(n - 1) /\ k \in 0..(n - 1) /\ k - 1 \in 0..(n - 1) /\ k - 1 # n
          BY <3>2
        <4>2. g[k] = f[k] /\ g[k - 1] = f[k - 1]
          BY <4>1, <3>2
        <4> QED BY <4>1, <4>2, <2>1 DEF IsIteration
      <3> QED BY <3>1, <3>2
    <2>7. upTo(g, n)
      <3> HIDE DEF g
      <3> QED BY <2>4, <2>5, <2>6 DEF IsIteration
    <2> QED BY <2>7
  <1>3. K \in found
    <2>1. K \in 0..K
      OBVIOUS
    <2> HIDE DEF found
    <2> QED BY <1>1, <1>2, <2>1, Induction
  <1> QED BY <1>3

-----------------------------------------------------------------------------
(* The sum. *)

Datagram == [1..Words -> Word]

LEMMA WordsAreNat == Ones \in Nat \ {0} /\ Base = Ones + 1 /\ Word \subseteq Nat
  BY WordAssumption DEF Ones, Word

\* The sum of the loop after k words, and the plain one.
IsLoopSum(s, w) ==
    /\ s \in [0..Words -> Word] /\ s[0] = 0
    /\ \A k \in 1..Words : s[k] = Wrapped(s[k - 1] + w[k])
IsPlainSum(t, w) ==
    /\ t \in [0..Words -> Nat] /\ t[0] = 0
    /\ \A k \in 1..Words : t[k] = t[k - 1] + w[k]

\* The carry is at most one, and with it the sum is a word again (utils.cpp 58-61).
LEMMA WrappedIsWord ==
  ASSUME NEW a \in Word, NEW b \in Word
  PROVE  /\ Wrapped(a + b) \in Word
         /\ Wrapped(a + b) = IF a + b > Ones THEN a + b - Ones ELSE a + b
  <1>1. Ones \in Nat \ {0} /\ Base = Ones + 1 /\ a \in 0..Ones /\ b \in 0..Ones
    BY WordsAreNat DEF Word
  <1>2. CASE a + b >= Base
    <2>1. (a + b) % Base = (a + b) - Base
      <3>1. Base \in Nat \ {0} /\ a + b \in Nat /\ a + b < 2 * Base
        BY <1>1
      <3> QED BY <1>2, <3>1
    <2>2. Wrapped(a + b) = a + b - Ones
      BY <1>1, <1>2, <2>1 DEF Wrapped
    <2> QED BY <1>1, <1>2, <2>2 DEF Word
  <1>3. CASE ~(a + b >= Base)
    BY <1>1, <1>3 DEF Wrapped, Word
  <1> QED BY <1>2, <1>3

\* The recursion by which cksum is defined has a solution.
LEMMA LoopSum ==
  ASSUME NEW w \in Datagram
  PROVE  \E s : IsLoopSum(s, w) /\ cksum(w) = Ones - s[Words]
  <1> USE WordAssumption
  <1> DEFINE step == [k \in 1..Words |-> [a \in Word |-> Wrapped(a + w[k])]]
             def(g) == [i \in 0..Words |-> IF i = 0 THEN 0 ELSE Wrapped(g[i - 1] + w[i])]
             sum == CHOOSE g : g = def(g)
  <1>1. 0 \in Word /\ \A k \in 1..Words : w[k] \in Word
    BY WordsAreNat DEF Word, Datagram
  <1>2. \A k \in 1..Words : \A a \in Word : Wrapped(a + w[k]) \in Word
    BY <1>1, WrappedIsWord
  <1>3. step \in [1..Words -> [Word -> Word]]
    BY <1>2
  <1>4. PICK f : IsIteration(f, Words, Word, 0, step)
    <2> HIDE DEF step
    <2> QED BY <1>1, <1>3, Iteration
  <1>5. f = def(f)
    <2>1. \A k \in 1..Words : k - 1 \in 0..Words
      OBVIOUS
    <2>2. \A k \in 1..Words : f[k] = Wrapped(f[k - 1] + w[k])
      BY <1>4, <2>1 DEF IsIteration
    <2> QED BY <1>4, <2>2 DEF IsIteration
  <1>6. sum = def(sum)
    <2> HIDE DEF def
    <2> QED BY <1>5
  <1>7. cksum(w) = Ones - sum[Words]
    BY DEF cksum
  <1> HIDE DEF sum
  <1>8. sum[0] = 0 /\ \A k \in 1..Words : sum[k] = Wrapped(sum[k - 1] + w[k])
    BY <1>6
  <1>9. \A k \in 0..Words : sum[k] \in Word
    <2> DEFINE S == {k \in 0..Words : sum[k] \in Word}
    <2>1. 0 \in S
      BY <1>1, <1>8
    <2>2. \A k \in 1..Words : k - 1 \in S => k \in S
      BY <1>2, <1>8
    <2>3. \A k \in 0..Words : k \in S
      <3> HIDE DEF S
      <3> QED BY <2>1, <2>2, Induction
    <2> QED BY <2>3
  <1>10. IsLoopSum(sum, w)
    BY <1>6, <1>8, <1>9 DEF IsLoopSum
  <1> QED BY <1>7, <1>10

LEMMA PlainSum ==
  ASSUME NEW w \in Datagram
  PROVE  \E t : IsPlainSum(t, w) /\ Total(w) = t[Words]
  <1> USE WordAssumption
  <1> DEFINE step == [k \in 1..Words |-> [a \in Nat |-> a + w[k]]]
             def(g) == [i \in 0..Words |-> IF i = 0 THEN 0 ELSE g[i - 1] + w[i]]
             sum == CHOOSE g : g = def(g)
  <1>1. \A k \in 1..Words : w[k] \in Nat
    BY WordsAreNat DEF Datagram
  <1>2. \A k \in 1..Words : \A a \in Nat : a + w[k] \in Nat
    BY <1>1
  <1>3. step \in [1..Words -> [Nat -> Nat]]
    BY <1>2
  <1>4. PICK f : IsIteration(f, Words, Nat, 0, step)
    <2> HIDE DEF step
    <2> QED BY <1>3, Iteration
  <1>5. f = def(f)
    <2>1. \A k \in 1..Words : k - 1 \in 0..Words
      OBVIOUS
    <2>2. \A k \in 1..Words : f[k] = f[k - 1] + w[k]
      BY <1>4, <2>1 DEF IsIteration
    <2> QED BY <1>4, <2>2 DEF IsIteration
  <1>6. sum = def(sum)
    <2> HIDE DEF def
    <2> QED BY <1>5
  <1>7. Total(w) = sum[Words]
    BY DEF Total
  <1> HIDE DEF sum
  <1>8. sum[0] = 0 /\ \A k \in 1..Words : sum[k] = sum[k - 1] + w[k]
    BY <1>6
  <1>9. \A k \in 0..Words : sum[k] \in Nat
    <2> DEFINE S == {k \in 0..Words : sum[k] \in Nat}
    <2>1. 0 \in S
      BY <1>8
    <2>2. \A k \in 1..Words : k - 1 \in S => k \in S
      BY <1>2, <1>8
    <2>3. \A k \in 0..Words : k \in S
      <3> HIDE DEF S
      <3> QED BY <2>1, <2>2, Induction
    <2> QED BY <2>3
  <1>10. IsPlainSum(sum, w)
    BY <1>6, <1>8, <1>9 DEF IsPlainSum
  <1> QED BY <1>7, <1>10

\* The loop takes Ones away whenever the sum passes it, and so never comes back to
\* zero.
LEMMA LoopSumIsRemainder ==
  ASSUME NEW w \in Datagram, NEW s, IsLoopSum(s, w), NEW t, IsPlainSum(t, w)
  PROVE  /\ s[Words] \in 0..Ones /\ t[Words] \in Nat
         /\ s[Words] = 0 <=> t[Words] = 0
         /\ \E q \in Nat : t[Words] = q * Ones + s[Words]
  <1> USE WordAssumption
  <1> DEFINE S == {k \in 0..Words : (s[k] = 0 <=> t[k] = 0) /\ \E q \in Nat : t[k] = q * Ones + s[k]}
  <1>1. Ones \in Nat \ {0}
    BY WordsAreNat
  <1>2. 0 \in S
    <2>1. t[0] = 0 * Ones + s[0] /\ s[0] = 0 /\ t[0] = 0
      BY <1>1 DEF IsLoopSum, IsPlainSum
    <2> QED BY <2>1
  <1>3. ASSUME NEW k \in 1..Words, k - 1 \in S PROVE k \in S
    <2> DEFINE a == s[k - 1]
               b == w[k]
               c == t[k - 1]
    <2>1. PICK q \in Nat : c = q * Ones + a
      BY <1>3
    <2>2. /\ a = 0 <=> c = 0
          /\ s[k] = Wrapped(a + b) /\ t[k] = c + b
          /\ a \in Word /\ b \in Word /\ c \in Nat
      <3>1. k - 1 \in 0..Words
        OBVIOUS
      <3> QED BY <3>1, <1>3 DEF IsLoopSum, IsPlainSum, Datagram
    <2>3. a \in 0..Ones /\ b \in 0..Ones
      BY <2>2 DEF Word
    <2>4. s[k] = IF a + b > Ones THEN a + b - Ones ELSE a + b
      BY <2>2, WrappedIsWord
    <2> HIDE DEF a, b, c
    <2>5. s[k] = 0 <=> t[k] = 0
      BY <2>2, <2>3, <2>4, <1>1
    <2>6. CASE a + b > Ones
      <3>1. (q + 1) * Ones = q * Ones + Ones /\ q * Ones \in Nat
        BY <1>1
      <3>2. t[k] = (q + 1) * Ones + s[k]
        BY <3>1, <2>1, <2>2, <2>3, <2>4, <2>6, <1>1
      <3>3. q + 1 \in Nat
        OBVIOUS
      <3> QED BY <3>2, <3>3, <2>5
    <2>7. CASE ~(a + b > Ones)
      <3>1. q * Ones \in Nat
        BY <1>1
      <3>2. t[k] = q * Ones + s[k]
        BY <3>1, <2>1, <2>2, <2>3, <2>4, <2>7, <1>1
      <3> QED BY <3>2, <2>5
    <2> QED BY <2>6, <2>7
  <1>4. Words \in S
    <2>1. \A k \in 0..Words : k \in S
      <3> HIDE DEF S
      <3> QED BY <1>2, <1>3, Induction
    <2> QED BY <2>1
  <1>5. s[Words] \in 0..Ones /\ t[Words] \in Nat
    BY DEF IsLoopSum, IsPlainSum, Word
  <1> QED BY <1>4, <1>5

\* What a multiple and a rest leave behind is the rest.
LEMMA RestOfMultiple ==
  ASSUME NEW m \in Nat \ {0}, NEW q \in Nat, NEW r \in 0..(m - 1)
  PROVE  (q * m + r) % m = r
  OBVIOUS

\* cksum gives the one's complement of the one's complement sum.
LEMMA CksumOfTotal ==
  ASSUME NEW w \in Datagram
  PROVE  /\ cksum(w) \in Word
         /\ Ones - cksum(w) = IF Total(w) = 0 THEN 0 ELSE ((Total(w) - 1) % Ones) + 1
  <1>1. PICK s : IsLoopSum(s, w) /\ cksum(w) = Ones - s[Words]
    BY LoopSum
  <1>2. PICK t : IsPlainSum(t, w) /\ Total(w) = t[Words]
    BY PlainSum
  <1>3. /\ s[Words] \in 0..Ones /\ t[Words] \in Nat
        /\ s[Words] = 0 <=> t[Words] = 0
        /\ \E q \in Nat : t[Words] = q * Ones + s[Words]
    BY <1>1, <1>2, LoopSumIsRemainder
  <1>4. Ones \in Nat \ {0}
    BY WordsAreNat
  <1>5. cksum(w) \in Word /\ Ones - cksum(w) = s[Words]
    BY <1>1, <1>3, <1>4 DEF Word
  <1>6. CASE t[Words] = 0
    BY <1>2, <1>3, <1>5, <1>6
  <1>7. CASE t[Words] # 0
    <2>1. PICK q \in Nat : t[Words] = q * Ones + s[Words]
      BY <1>3
    <2>2. q * Ones \in Nat /\ s[Words] - 1 \in 0..(Ones - 1)
      BY <1>3, <1>4, <1>7
    <2>3. t[Words] - 1 = q * Ones + (s[Words] - 1)
      BY <2>1, <2>2, <1>3
    <2>4. (t[Words] - 1) % Ones = s[Words] - 1
      BY <2>2, <2>3, <1>4, RestOfMultiple
    <2>5. ((t[Words] - 1) % Ones) + 1 = s[Words]
      BY <2>4, <1>3
    <2> QED BY <2>5, <1>2, <1>5, <1>7
  <1> QED BY <1>6, <1>7

-----------------------------------------------------------------------------
(* Damage. *)

\* If one word is exchanged, the sum changes by what the word does.
LEMMA OneWordInTotal ==
  ASSUME NEW w \in Datagram, NEW v \in Datagram, NEW i \in 1..Words,
         \A k \in 1..Words : k # i => v[k] = w[k]
  PROVE  Total(v) - Total(w) = v[i] - w[i]
  <1> USE WordAssumption
  <1>1. PICK t : IsPlainSum(t, w) /\ Total(w) = t[Words]
    BY PlainSum
  <1>2. PICK u : IsPlainSum(u, v) /\ Total(v) = u[Words]
    BY PlainSum
  <1> DEFINE S == {k \in 0..Words : u[k] - t[k] = IF k < i THEN 0 ELSE v[i] - w[i]}
  <1>3. /\ \A k \in 0..Words : t[k] \in Nat /\ u[k] \in Nat
        /\ \A k \in 1..Words : w[k] \in Nat /\ v[k] \in Nat
    BY <1>1, <1>2, WordsAreNat DEF IsPlainSum, Datagram
  <1>4. 0 \in S
    BY <1>1, <1>2 DEF IsPlainSum
  <1>5. ASSUME NEW k \in 1..Words, k - 1 \in S PROVE k \in S
    <2>1. /\ t[k] = t[k - 1] + w[k] /\ u[k] = u[k - 1] + v[k]
          /\ t[k] \in Nat /\ t[k - 1] \in Nat /\ u[k] \in Nat /\ u[k - 1] \in Nat
          /\ w[k] \in Nat /\ v[k] \in Nat /\ w[i] \in Nat /\ v[i] \in Nat
      <3>1. k - 1 \in 0..Words /\ k \in 0..Words
        OBVIOUS
      <3> QED BY <3>1, <1>1, <1>2, <1>3 DEF IsPlainSum
    <2>2. u[k - 1] - t[k - 1] = IF k - 1 < i THEN 0 ELSE v[i] - w[i]
      BY <1>5
    <2>3. u[k] - t[k] = IF k < i THEN 0 ELSE v[i] - w[i]
      <3>1. CASE k = i
        BY <3>1, <2>1, <2>2
      <3>2. CASE k # i
        <4>1. v[k] = w[k] /\ (k - 1 < i <=> k < i)
          BY <3>2
        <4> QED BY <4>1, <2>1, <2>2
      <3> QED BY <3>1, <3>2
    <2> QED BY <2>3
  <1>6. Words \in S
    <2>1. \A k \in 0..Words : k \in S
      <3> HIDE DEF S
      <3> QED BY <1>4, <1>5, Induction
    <2> QED BY <2>1
  <1> QED BY <1>1, <1>2, <1>6

\* Multiples of m that differ by at most m are neighbours.
LEMMA MultiplesApart ==
  ASSUME NEW m \in Nat \ {0}, NEW q \in Nat, NEW p \in Nat, NEW d \in Int,
         p * m - q * m = d, d # 0, d <= m, -m <= d
  PROVE  d = m \/ d = -m
  <1>1. p - q \in Int /\ d = (p - q) * m
    OBVIOUS
  <1> QED BY <1>1

\* Two words with the same rest are the two zeros, if they differ.
LEMMA SameSumSameWord ==
  ASSUME NEW w \in Datagram, NEW v \in Datagram, NEW i \in 1..Words,
         \A k \in 1..Words : k # i => v[k] = w[k],
         v[i] # w[i], cksum(v) = cksum(w)
  PROVE  {w[i], v[i]} = {0, Ones}
  <1>1. PICK s : IsLoopSum(s, w) /\ cksum(w) = Ones - s[Words]
    BY LoopSum
  <1>2. PICK r : IsLoopSum(r, v) /\ cksum(v) = Ones - r[Words]
    BY LoopSum
  <1>3. PICK t : IsPlainSum(t, w) /\ Total(w) = t[Words]
    BY PlainSum
  <1>4. PICK u : IsPlainSum(u, v) /\ Total(v) = u[Words]
    BY PlainSum
  <1>5. Ones \in Nat \ {0} /\ w[i] \in 0..Ones /\ v[i] \in 0..Ones
    BY WordsAreNat DEF Datagram, Word
  <1>6. PICK q \in Nat : t[Words] = q * Ones + s[Words] /\ s[Words] \in 0..Ones
    BY <1>1, <1>3, LoopSumIsRemainder
  <1>7. PICK p \in Nat : u[Words] = p * Ones + r[Words] /\ r[Words] \in 0..Ones
    BY <1>2, <1>4, LoopSumIsRemainder
  <1>8. r[Words] = s[Words]
    BY <1>1, <1>2, <1>5, <1>6, <1>7
  <1>9. u[Words] - t[Words] = v[i] - w[i]
    BY <1>3, <1>4, OneWordInTotal
  <1> DEFINE d == v[i] - w[i]
  <1>10. d \in Int /\ d # 0 /\ d <= Ones /\ -Ones <= d
    BY <1>5
  <1>11. p * Ones - q * Ones = d
    <2>1. p * Ones \in Nat /\ q * Ones \in Nat
      BY <1>5
    <2> QED BY <2>1, <1>6, <1>7, <1>8, <1>9
  <1>12. d = Ones \/ d = -Ones
    <2> HIDE DEF d
    <2> QED BY <1>5, <1>10, <1>11, MultiplesApart
  <1>13. (v[i] = Ones /\ w[i] = 0) \/ (v[i] = 0 /\ w[i] = Ones)
    BY <1>5, <1>12
  <1> QED BY <1>13

SumInv ==
    /\ words \in Datagram
    /\ stage = "filled" => Verifies(words)

LEMMA ClearedIsDatagram ==
  ASSUME NEW w \in Datagram
  PROVE  /\ Cleared(w) \in Datagram /\ Cleared(w)[Field] = 0
         /\ \A k \in 1..Words : k # Field => Cleared(w)[k] = w[k]
  <1>1. 0 \in Word
    BY WordsAreNat DEF Word
  <1> QED BY <1>1, WordAssumption DEF Cleared, Datagram

\* Words stay words, and a filled datagram verifies until it is damaged.
THEOREM SumInvariance == Spec => []SumInv
  <1>1. Init => SumInv
    BY DEF Init, SumInv, Datagram
  <1>2. SumInv /\ [Next]_vars => SumInv'
    <2> SUFFICES ASSUME SumInv, [Next]_vars PROVE SumInv'
      OBVIOUS
    <2>1. CASE Fill
      <3>1. words \in Datagram /\ words' = Filled(words)
        BY <2>1 DEF Fill, SumInv
      <3>2. cksum(Cleared(words)) \in Word
        BY <3>1, ClearedIsDatagram, CksumOfTotal
      <3>3. Filled(words) \in Datagram
        BY <3>1, <3>2 DEF Filled, Datagram
      <3>4. Verifies(Filled(words))
        BY <3>1, FilledVerifies DEF Datagram
      <3> QED BY <3>1, <3>3, <3>4 DEF SumInv
    <2>2. CASE Damage
      <3>1. words \in Datagram /\ stage' = "damaged"
        BY <2>2 DEF Damage, SumInv
      <3>2. words' \in Datagram
        <4>1. CASE \E i \in 1..Words, v \in Word : words' = [words EXCEPT ![i] = v]
          BY <4>1, <3>1 DEF Datagram
        <4>2. CASE \E i, j \in 1..Words : words' = [words EXCEPT ![i] = words[j], ![j] = words[i]]
          <5>1. PICK i, j \in 1..Words : words' = [words EXCEPT ![i] = words[j], ![j] = words[i]]
            BY <4>2
          <5>2. words[i] \in Word /\ words[j] \in Word
            BY <3>1 DEF Datagram
          <5> QED BY <5>1, <5>2, <3>1 DEF Datagram
        <4> QED BY <4>1, <4>2, <2>2 DEF Damage
      <3> QED BY <3>1, <3>2 DEF SumInv
    <2>3. CASE UNCHANGED vars
      BY <2>3 DEF vars, SumInv
    <2> QED BY <2>1, <2>2, <2>3 DEF Next
  <1> QED BY <1>1, <1>2, PTL DEF Spec

\* The loop computes the one's complement of the one's complement sum, for every
\* datagram (utils.cpp 51-65).
THEOREM SumIsRight == Spec => []SumIsOnesComplement
  <1>1. SumInv => SumIsOnesComplement
    BY ClearedIsDatagram, CksumOfTotal DEF SumInv, SumIsOnesComplement
  <1> QED BY <1>1, SumInvariance, PTL

\* Damage of one word is refused, unless it exchanges the two zeros: for every size
\* of words and datagrams (utils.cpp 51-76, recvfile.cpp 154, sendfile.cpp 331).
THEOREM OneWordNoticed == Spec => OneWordIsNoticed
  <1> DEFINE Noticed == \A i \in 1..Words :
                stage = "filled" /\ Damaged = {i} /\ accepted'
                    => i # Field /\ {words[i], words'[i]} = {0, Ones}
  <1>1. SumInv /\ SumInv' /\ [Next]_vars => [Noticed]_vars
    <2> SUFFICES ASSUME SumInv, SumInv', [Next]_vars,
                        NEW i \in 1..Words, stage = "filled", Damaged = {i}, accepted'
                 PROVE  i # Field /\ {words[i], words'[i]} = {0, Ones}
      OBVIOUS
    <2>1. accepted' = Verifies(words')
      <3>1. words' # words
        BY DEF Damaged
      <3> QED BY <3>1 DEF Next, Fill, Damage, vars
    <2>2. words \in Datagram /\ words' \in Datagram
      BY DEF SumInv
    <2>3. words'[i] # words[i] /\ \A k \in 1..Words : k # i => words'[k] = words[k]
      BY DEF Damaged
    <2> DEFINE w == Cleared(words)
               v == Cleared(words')
    <2>4. words[Field] = cksum(w) /\ words'[Field] = cksum(v)
      BY <2>1 DEF SumInv, Verifies
    <2>5. /\ w \in Datagram /\ v \in Datagram /\ w[Field] = 0 /\ v[Field] = 0
          /\ \A k \in 1..Words : k # Field => w[k] = words[k] /\ v[k] = words'[k]
      BY <2>2, ClearedIsDatagram
    <2> HIDE DEF w, v
    <2>6. \A k \in 1..Words : k # i => v[k] = w[k]
      BY <2>3, <2>5
    <2>7. i # Field
      <3> SUFFICES ASSUME i = Field PROVE FALSE
        OBVIOUS
      <3>1. \A k \in 1..Words : v[k] = w[k]
        BY <2>5, <2>6
      <3>2. v = w
        <4>1. v \in [1..Words -> Word] /\ w \in [1..Words -> Word]
          BY <2>5 DEF Datagram
        <4>2. v = [k \in 1..Words |-> v[k]] /\ w = [k \in 1..Words |-> w[k]]
          BY <4>1, Zenon
        <4>3. [k \in 1..Words |-> v[k]] = [k \in 1..Words |-> w[k]]
          BY <3>1, Zenon
        <4> QED BY <4>2, <4>3
      <3> QED BY <3>2, <2>3, <2>4
    <2>8. w[i] = words[i] /\ v[i] = words'[i] /\ v[i] # w[i]
      BY <2>3, <2>5, <2>7
    <2>9. cksum(v) = cksum(w)
      BY <2>3, <2>4, <2>7, WordAssumption
    <2>10. {w[i], v[i]} = {0, Ones}
      BY <2>5, <2>6, <2>8, <2>9, SameSumSameWord
    <2> QED BY <2>7, <2>8, <2>10
  <1> QED BY <1>1, SumInvariance, PTL DEF Spec, OneWordIsNoticed
=============================================================================
