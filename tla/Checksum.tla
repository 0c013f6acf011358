------------------------------ MODULE Checksum ------------------------------
(***************************************************************************)
(* utils.cpp: the checksum of both datagram formats.  A datagram is a       *)
(* sequence of words, one of which is its checksum field; it is filled by   *)
(* the sending side, may be damaged, and is verified by the other side.     *)
(***************************************************************************)
EXTENDS Integers

CONSTANTS
    Base,   \* values of a word: 2^16 for u_short
    Words,  \* words of a datagram
    Field   \* which of them is the checksum

ASSUME WordAssumption == Base \in Nat \ {0, 1} /\ Words \in Nat \ {0} /\ Field \in 1..Words

Ones == Base - 1
Word == 0..Ones

VARIABLES
    words,      \* the datagram
    stage,      \* "made", "filled", "damaged"
    accepted    \* whether the receiving side would accept it
vars == <<words, stage, accepted>>

-----------------------------------------------------------------------------
\* A mistake: the carry is cut off and not added.
WrappedLost(sum) == sum % Base

\* The running sum: a carry out of the word is added back at the low end.
Wrapped(sum) == IF sum >= Base THEN (sum % Base) + 1 ELSE sum

\* A mistake: one word too few (while (--count)).
cksumShort(w) ==
    LET sum[i \in 0..Words] == IF i = 0 THEN 0 ELSE Wrapped(sum[i - 1] + w[i])
    IN  Ones - sum[Words - 1]

cksum(w) ==
    LET sum[i \in 0..Words] == IF i = 0 THEN 0 ELSE Wrapped(sum[i - 1] + w[i])
    IN  Ones - sum[Words]

Cleared(w) == [w EXCEPT ![Field] = 0]

\* A mistake: the sum takes in what the field held before.
FilledUncleared(w) == [w EXCEPT ![Field] = cksum(w)]

\* fillPacket, fillFilePacket and fillackPacket alike.
Filled(w) == [w EXCEPT ![Field] = cksum(Cleared(w))]

\* The field is saved, cleared, and compared.
Verifies(w) == w[Field] = cksum(Cleared(w))

-----------------------------------------------------------------------------
\* A fresh datagram holds in its checksum field whatever was there before.
Init ==
    /\ words \in [1..Words -> Word]
    /\ stage = "made" /\ accepted = Verifies(words)

Fill ==
    /\ stage = "made" /\ stage' = "filled"
    /\ words' = Filled(words)
    /\ accepted' = Verifies(words')

\* The network damages one word, or exchanges two.
Damage ==
    /\ stage = "filled" /\ stage' = "damaged"
    /\ \/ \E i \in 1..Words, v \in Word : words' = [words EXCEPT ![i] = v]
       \/ \E i, j \in 1..Words :
             words' = [words EXCEPT ![i] = words[j], ![j] = words[i]]
    /\ accepted' = Verifies(words')

Next == Fill \/ Damage

Spec == Init /\ [][Next]_vars

-----------------------------------------------------------------------------
Damaged == {i \in 1..Words : words'[i] # words[i]}

\* A datagram that arrives as it was filled is never refused, whatever its
\* checksum field held before and even if the sum is zero (utils.cpp 71-76).
FilledIsAccepted == stage = "filled" => accepted

\* The damage of one word is noticed, but for an exchange of the two zeros of
\* one's complement, 0x0000 and 0xFFFF: what lets the transfer treat a damaged
\* datagram as refused (sendfile.cpp 331, recvfile.cpp 154).
OneWordIsNoticed ==
    [][\A i \in 1..Words :
          stage = "filled" /\ Damaged = {i} /\ accepted'
              => i # Field /\ {words[i], words'[i]} = {0, Ones}]_vars

\* The loop computes the one's complement of the one's complement sum: the sum
\* modulo Ones, with the zero that is not reached by adding positive numbers
\* written as all ones (utils.cpp 51-65).
Total(w) ==
    LET sum[i \in 0..Words] == IF i = 0 THEN 0 ELSE sum[i - 1] + w[i]
    IN  sum[Words]
SumIsOnesComplement ==
    LET total == Total(Cleared(words))
    IN  Ones - cksum(Cleared(words)) = IF total = 0 THEN 0 ELSE ((total - 1) % Ones) + 1
=============================================================================
