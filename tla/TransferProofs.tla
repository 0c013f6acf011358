--------------------------- MODULE TransferProofs ---------------------------
(***************************************************************************)
(* Proofs about Transfer, for every file size N, window size W, network     *)
(* bound NetCap, and for networks that may or may not repeat and corrupt.   *)
(***************************************************************************)
EXTENDS TransferInv, TLAPS, FiniteSetTheorems, WellFoundedInduction

USE DEF IGNORE_CODE, NoFin, FIN, FINACK, Path, Blank, FinWord, IsFin

-----------------------------------------------------------------------------
(* Arithmetic and sequences. *)

\* Every set of naturals that is not empty has a least element.
LEMMA LeastElement ==
    ASSUME NEW M \in SUBSET Nat, M # {}
    PROVE  \E m \in M : \A n \in M : m <= n
<1> DEFINE T == {0..n : n \in M}
<1>1. IsWellFoundedOn(StrictSubsetOrdering(Nat), FiniteSubsetsOf(Nat))
  BY FS_StrictSubsetOrderingWellFounded
<1>2. \A n \in Nat : IsFiniteSet(0..n)
  BY FS_Interval
<1>3. T \subseteq FiniteSubsetsOf(Nat)
  BY <1>2 DEF FiniteSubsetsOf
<1>4. T # {}
  OBVIOUS
<1>5. \E t \in T : \A u \in T : ~(<<u, t>> \in StrictSubsetOrdering(Nat))
  <2> HIDE DEF T
  <2> QED BY <1>1, <1>3, <1>4, WFMin
<1>6. PICK m \in M :
          \A u \in T : ~(<<u, 0..m>> \in StrictSubsetOrdering(Nat))
  BY <1>5
<1>7. ASSUME NEW n \in M, n < m PROVE FALSE
  <2>1. <<0..n, 0..m>> \in (SUBSET Nat) \X (SUBSET Nat)
    BY <1>7
  <2>2. 0..n \subseteq 0..m /\ m \in 0..m /\ m \notin 0..n
    BY <1>7
  <2>3. <<0..n, 0..m>> \in StrictSubsetOrdering(Nat)
    BY <2>1, <2>2 DEF StrictSubsetOrdering
  <2> QED BY <2>3, <1>6
<1> QED BY <1>7

\* A loop that goes up from 0 as long as it stays in S, and at most to n.
LEMMA RunLength ==
    ASSUME NEW n \in Nat, NEW S
    PROVE  \E k \in 0..n : /\ \A j \in 0..(k - 1) : j \in S
                           /\ k = n \/ k \notin S
<1> DEFINE M == {k \in 0..n : k = n \/ k \notin S}
<1>1. M \in SUBSET Nat /\ n \in M
  OBVIOUS
<1>2. PICK k \in M : \A m \in M : k <= m
  BY <1>1, LeastElement
<1>3. \A j \in 0..(k - 1) : j \in S
  BY <1>2
<1> QED BY <1>2, <1>3

LEMMA AppendPrefix ==
    ASSUME NEW n \in Nat
    PROVE  Append([k \in 1..n |-> k], n + 1) = [k \in 1..(n + 1) |-> k]
OBVIOUS

LEMMA ConcatPrefix ==
    ASSUME NEW n \in Nat, NEW m \in Nat
    PROVE  [k \in 1..n |-> k] \o [j \in 1..m |-> n + j]
             = [k \in 1..(n + m) |-> k]
OBVIOUS

-----------------------------------------------------------------------------
(* The network, and the operators of the two processes. *)

LEMMA CarrySubset ==
    ASSUME NEW net, NEW S, NEW m \in Carry(net, S)
    PROVE  m \subseteq net \cup S
BY DEF Carry

LEMMA LeftSubset ==
    ASSUME NEW net, NEW d, NEW m \in Left(net, d)
    PROVE  m \subseteq net
BY DEF Left

LEMMA AtWraps ==
    ASSUME NEW i \in Slots, NEW k \in 0..W
    PROVE  At(i, k) = (IF i + k < W THEN i + k ELSE i + k - W) /\ At(i, k) \in Slots
BY SizeAssumption DEF At, Slots

LEMMA AtInjective ==
    ASSUME NEW i \in Slots, NEW j \in 0..(W - 1), NEW k \in 0..(W - 1),
           At(i, j) = At(i, k)
    PROVE  j = k
<1>1. i \in 0..(W - 1) /\ W \in Nat
  BY SizeAssumption DEF Slots
<1>2. At(i, j) \in {i + j, i + j - W} /\ At(i, k) \in {i + k, i + k - W}
  BY <1>1, AtWraps
<1>3. j - k \in {0, W, 0 - W}
  BY <1>1, <1>2
<1> QED BY <1>1, <1>3

LEMMA AtAdds ==
    ASSUME NEW i \in Slots, NEW j \in 0..W, NEW k \in 0..W, j + k <= W
    PROVE  At(At(i, j), k) = At(i, j + k)
<1> DEFINE m == At(i, j)
<1>1. m = (IF i + j < W THEN i + j ELSE i + j - W) /\ m \in Slots
  BY AtWraps
<1>2. At(m, k) = IF m + k < W THEN m + k ELSE m + k - W
  BY <1>1, AtWraps
<1>3. At(i, j + k) = IF i + (j + k) < W THEN i + (j + k) ELSE i + (j + k) - W
  BY AtWraps, SizeAssumption
<1> HIDE DEF m
<1>4. At(m, k) = At(i, j + k)
  BY <1>1, <1>2, <1>3, SizeAssumption DEF Slots
<1> QED BY <1>4 DEF m

\* The first Dequeue loop frees exactly the packets Base .. last.
LEMMA FreedValue ==
    ASSUME TypeOK, SenderInv, NEW a \in AckPacket, InWindow(a)
    PROVE  Freed(a.last) = a.last - Base + 1 /\ Freed(a.last) \in 1..qsize
<1> DEFINE P(k) == /\ \A j \in 0..(k - 1) : slot[At(front, j)].seq <= a.last
                   /\ k = qsize \/ slot[At(front, k)].seq > a.last
<1>0. /\ qsize \in Nat /\ Base \in Nat /\ a.last \in Nat /\ front \in Slots
      /\ W \in Nat \ {0} /\ qsize <= W
  BY SizeAssumption DEF TypeOK, SenderTypeOK, SenderInv, Base, AckPacket
<1>1. \A j \in 0..(qsize - 1) : slot[At(front, j)].seq = Base + j
  <2>1. \A j \in 0..(qsize - 1) : slot[At(front, j)] = DataPacket(Base + j)
    BY DEF SenderInv
  <2>2. \A s : DataPacket(s).seq = s
    BY DEF DataPacket
  <2> QED BY <2>1, <2>2
<1>2. Base <= a.last /\ a.last < Base + qsize
  <2>1. At(front, 0) = front
    BY <1>0, AtWraps DEF Slots
  <2>2. CASE qsize = 0
    <3>1. slot[front].seq \in Nat
      BY <1>0 DEF TypeOK, SenderTypeOK, Packet
    <3> QED BY <2>2, <3>1, <1>0 DEF InWindow
  <2>3. CASE qsize > 0
    BY <2>1, <2>3, <1>0, <1>1 DEF InWindow
  <2> QED BY <2>2, <2>3, <1>0
<1>3. P(a.last - Base + 1) /\ a.last - Base + 1 \in 1..qsize
  BY <1>0, <1>1, <1>2
<1>4. ASSUME NEW k \in 0..qsize, P(k) PROVE k = a.last - Base + 1
  <2>1. ASSUME k < a.last - Base + 1 PROVE FALSE
    BY <2>1, <1>0, <1>1, <1>2, <1>4
  <2>2. ASSUME k > a.last - Base + 1 PROVE FALSE
    <3>1. slot[At(front, a.last - Base + 1)].seq <= a.last
      BY <2>2, <1>0, <1>2, <1>4
    <3> QED BY <3>1, <2>2, <1>0, <1>1, <1>2
  <2> QED BY <2>1, <2>2, <1>0
<1>5. Freed(a.last) = CHOOSE k \in 0..qsize : P(k)
  BY DEF Freed
<1>6. Freed(a.last) \in 0..qsize /\ P(Freed(a.last))
  BY <1>3, <1>5, <1>0
<1> QED BY <1>4, <1>6, <1>3

\* The second Dequeue loop frees only marked slots.
LEMMA MarkedRunFact ==
    ASSUME NEW f, NEW n \in Nat, NEW marks
    PROVE  /\ MarkedRun(f, n, marks) \in 0..n
           /\ \A j \in 0..(MarkedRun(f, n, marks) - 1) : marks[At(f, j)]
<1> DEFINE S == {j \in Nat : marks[At(f, j)]}
           P(k) == /\ \A j \in 0..(k - 1) : marks[At(f, j)]
                   /\ k = n \/ ~marks[At(f, k)]
<1>1. PICK k \in 0..n : (\A j \in 0..(k - 1) : j \in S) /\ (k = n \/ k \notin S)
  BY RunLength
<1>2. P(k)
  BY <1>1
<1>3. MarkedRun(f, n, marks) = CHOOSE m \in 0..n : P(m)
  BY DEF MarkedRun
<1> QED BY <1>2, <1>3

\* LinkList::pop takes a run that starts after a and ends before a gap.
LEMMA RunEndFact ==
    ASSUME NEW l, NEW a \in Nat,
           \A s \in Seqs(l) : s \in Nat /\ s <= a + W
    PROVE  /\ RunEnd(l, a) \in a..(a + W)
           /\ \A s \in (a + 1)..RunEnd(l, a) : s \in Seqs(l)
           /\ RunEnd(l, a) + 1 \notin Seqs(l)
<1> DEFINE S == {j \in Nat : a + 1 + j \in Seqs(l)}
           P(m) == /\ \A s \in (a + 1)..m : s \in Seqs(l)
                   /\ m + 1 \notin Seqs(l)
<1>0. W \in Nat
  BY SizeAssumption
<1>1. PICK k \in 0..W : (\A j \in 0..(k - 1) : j \in S) /\ (k = W \/ k \notin S)
  BY <1>0, RunLength
<1>2. ASSUME NEW s \in (a + 1)..(a + k) PROVE s \in Seqs(l)
  <2>1. s - a - 1 \in 0..(k - 1) /\ a + 1 + (s - a - 1) = s
    OBVIOUS
  <2> QED BY <2>1, <1>1
<1>3. a + k + 1 \notin Seqs(l)
  BY <1>0, <1>1
<1>4. a + k \in a..(a + W) /\ P(a + k)
  BY <1>0, <1>2, <1>3
<1>5. RunEnd(l, a) = CHOOSE m \in a..(a + W) : P(m)
  BY DEF RunEnd
<1> QED BY <1>4, <1>5

-----------------------------------------------------------------------------
(* What a step leaves alone stays as it was. *)

LEMMA DatagramStaysGood ==
    ASSUME NEW d, GoodDatagram(d), SentPackets \subseteq SentPackets',
           spc \in {"fin", "exit"} => spc' \in {"fin", "exit"}
    PROVE  GoodDatagram(d)'
BY DEF GoodDatagram, FilePacket, UnfilledSlot, FinAckPacket, Packet

\* SendData is the only step that changes the set of packets sent so far.
LEMMA SentPacketsGrow ==
    ASSUME toBeSend \in Nat, toBeSend' = toBeSend \/ toBeSend' = toBeSend + 1
    PROVE  SentPackets \subseteq SentPackets'
<1>1. CASE toBeSend' = toBeSend
  BY <1>1 DEF SentPackets
<1>2. CASE toBeSend' = toBeSend + 1
  <2>1. 1..(toBeSend - 1) \subseteq 1..(toBeSend + 1 - 1)
    OBVIOUS
  <2>2. SentPackets' = {DataPacket(s) : s \in 1..(toBeSend + 1 - 1)}
    BY <1>2 DEF SentPackets
  <2> QED BY <2>1, <2>2 DEF SentPackets
<1> QED BY <1>1, <1>2

LEMMA AckStaysGood ==
    ASSUME NEW a, GoodAck(a), ack \in Nat, ack' \in Nat, ack <= ack',
           Delivered \subseteq Delivered', rpc # "name" => rpc' # "name",
           rpc \in {"fin", "exit"} => rpc' \in {"fin", "exit"}
    PROVE  GoodAck(a)'
BY DEF GoodAck, AckPacket

\* A step of the sender: what has to be shown of it.
LEMMA SenderMove ==
    ASSUME IInv, UNCHANGED receiverVars,
           SenderTypeOK', SenderInv', AgreementInv',
           toBeSend' = toBeSend \/ toBeSend' = toBeSend + 1,
           spc \in {"fin", "exit"} => spc' \in {"fin", "exit"},
           \A d \in toRecv' : d \in toRecv \/ GoodDatagram(d)',
           toSend' \subseteq toSend
    PROVE  IInv'
<1>1. toBeSend \in Nat /\ ack \in Nat
  BY DEF IInv, TypeOK, SenderTypeOK, ReceiverTypeOK
<1>2. ToRecvInv'
  BY <1>1, DatagramStaysGood, SentPacketsGrow DEF IInv, ToRecvInv
<1>3. \A d \in toRecv' : d \in Packet
  BY <1>2 DEF ToRecvInv, GoodDatagram, Packet
<1>4. ReceiverInv' /\ ReceiverTypeOK'
  BY <1>1 DEF IInv, TypeOK, ReceiverInv, ReceiverTypeOK, receiverVars,
              Delivered, Seqs
<1>5. ToSendInv'
  BY <1>1 DEF IInv, ToSendInv, GoodAck, receiverVars, Delivered, Seqs
<1>6. TypeOK'
  BY <1>3, <1>4 DEF IInv, TypeOK
<1> QED BY <1>2, <1>4, <1>5, <1>6 DEF IInv

\* A step of the receiver: what has to be shown of it.
LEMMA ReceiverMove ==
    ASSUME IInv, UNCHANGED senderVars,
           ReceiverTypeOK', ReceiverInv', ack <= ack',
           Delivered \subseteq Delivered', rpc # "name" => rpc' # "name",
           rpc \in {"fin", "exit"} => rpc' \in {"fin", "exit"},
           toRecv' \subseteq toRecv,
           \A a \in toSend' : a \in toSend \/ GoodAck(a)'
    PROVE  IInv'
<1>1. toBeSend \in Nat /\ ack \in Nat /\ ack' \in Nat /\ qsize \in Nat
  BY DEF IInv, TypeOK, SenderTypeOK, ReceiverTypeOK
<1>2. ToSendInv'
  BY <1>1, AckStaysGood DEF IInv, ToSendInv
<1>3. SenderInv' /\ SenderTypeOK'
  BY DEF IInv, TypeOK, SenderInv, SenderTypeOK, senderVars, Base, SentPackets
<1>4. ToRecvInv'
  BY DEF IInv, ToRecvInv, GoodDatagram, senderVars, SentPackets
<1>5. AgreementInv'
  <2>1. /\ qsize' = qsize /\ isAck' = isAck /\ front' = front
        /\ spc' = spc /\ Base' = Base
    BY DEF senderVars, Base
  <2>2. At(front, 0)' = At(front, 0)
    BY <2>1
  <2>3. \A j \in 0..(qsize - 1) :
            isAck'[At(front', j)] => Base' + j \in Delivered'
    BY <2>1 DEF IInv, AgreementInv
  <2>4. Base' <= ack' + 1
    BY <1>1, <2>1 DEF IInv, AgreementInv, Base
  <2>5. /\ spc' # "name" => rpc' # "name"
        /\ spc' \in {"fin", "exit"} => rpc' \in {"fin", "exit"}
    BY <2>1 DEF IInv, AgreementInv
  <2> QED BY <2>1, <2>3, <2>4, <2>5 DEF AgreementInv
<1>6. TypeOK'
  BY <1>2, <1>3 DEF IInv, TypeOK, ToSendInv, GoodAck
<1> QED BY <1>2, <1>3, <1>4, <1>5, <1>6 DEF IInv

-----------------------------------------------------------------------------
(* Steps of the sender. *)

\* Whatever the slots of the ring hold may be sent.
LEMMA GoodToSend ==
    ASSUME IInv
    PROVE  /\ GoodDatagram(FilePacket)
           /\ \A i \in Slots : GoodDatagram(slot[i])
           /\ spc \in {"fin", "exit"} => GoodDatagram(FinAckPacket)
<1>1. \A i \in Slots : /\ slot[i] \in Packet
                        /\ slot[i] \in SentPackets \cup {UnfilledSlot}
  BY DEF IInv, TypeOK, SenderTypeOK, SenderInv
<1>2. FilePacket \in Packet /\ FinAckPacket \in Packet
  BY SizeAssumption DEF FilePacket, FinAckPacket, Packet
<1> QED BY <1>1, <1>2 DEF GoodDatagram

\* A step of the sender that changes nothing but the network and the timer.
LEMMA SenderQuietMove ==
    ASSUME IInv, UNCHANGED <<spc, windowVars, dupVars, receiverVars>>, overdue' \in BOOLEAN,
           \A d \in toRecv' : d \in toRecv \/ GoodDatagram(d),
           toSend' \subseteq toSend
    PROVE  IInv'
<1>1. SenderTypeOK' /\ SenderInv'
  BY DEF IInv, TypeOK, SenderTypeOK, SenderInv, windowVars, dupVars, Base, SentPackets
<1>2. AgreementInv'
  BY DEF IInv, AgreementInv, windowVars, receiverVars, Base, Delivered, Seqs
<1>3. \A d \in toRecv' : d \in toRecv \/ GoodDatagram(d)'
  BY DEF GoodDatagram, SentPackets, windowVars
<1> QED BY <1>1, <1>2, <1>3, SenderMove DEF windowVars

\* A step of the sender that changes nothing but the network.
LEMMA SenderNetMove ==
    ASSUME IInv, UNCHANGED <<senderVars, receiverVars>>,
           \A d \in toRecv' : d \in toRecv \/ GoodDatagram(d),
           toSend' \subseteq toSend
    PROVE  IInv'
<1>1. UNCHANGED <<spc, windowVars, dupVars, receiverVars>> /\ overdue' \in BOOLEAN
  BY DEF IInv, TypeOK, SenderTypeOK, senderVars, windowVars, dupVars
<1> QED BY <1>1, SenderQuietMove

LEMMA SendFileNameStep ==
    ASSUME IInv, SendFileName, UNCHANGED receiverVars
    PROVE  IInv'
<1>1. \A d \in toRecv' : d \in toRecv \/ d = FilePacket
  BY CarrySubset DEF SendFileName
<1> QED BY <1>1, GoodToSend, SenderNetMove DEF SendFileName

LEMMA TimeoutResendStep ==
    ASSUME IInv, TimeoutResend, UNCHANGED receiverVars
    PROVE  IInv'
<1>1. front \in Slots /\ qsize \in 0..W
  BY DEF IInv, TypeOK, SenderTypeOK
<1>2. \A d \in Unmarked : GoodDatagram(d)
  BY <1>1, AtWraps, GoodToSend, SizeAssumption DEF Unmarked
<1>3. \A d \in toRecv' : d \in toRecv \/ d \in Unmarked
  BY CarrySubset DEF TimeoutResend
<1> QED BY <1>2, <1>3, SenderNetMove DEF TimeoutResend

LEMMA AckDiscardedStep ==
    ASSUME IInv, NEW a \in toSend, AckCorrupt(a) \/ FinIgnored(a),
           UNCHANGED receiverVars
    PROVE  IInv'
<1>1. toSend' \subseteq toSend
  BY LeftSubset DEF AckCorrupt, FinIgnored
<1> QED BY <1>1, SenderNetMove DEF AckCorrupt, FinIgnored

\* The timer of the closing loop starts anew or runs out.
LEMMA FinAgainStep ==
    ASSUME IInv, NEW a \in toSend, FinAgain(a), UNCHANGED receiverVars
    PROVE  IInv'
<1>1. toSend' \subseteq toSend
  BY LeftSubset DEF FinAgain
<1>2. \A d \in toRecv' : d \in toRecv \/ GoodDatagram(d)
  BY CarrySubset, GoodToSend DEF FinAgain
<1> QED BY <1>1, <1>2, SenderQuietMove DEF FinAgain

LEMMA FinTimeoutStep ==
    ASSUME IInv, FinTimeout, UNCHANGED receiverVars
    PROVE  IInv'
BY SenderQuietMove DEF FinTimeout, netVars

LEMMA RecvNameAckStep ==
    ASSUME IInv, NEW a \in toSend, RecvNameAck(a), UNCHANGED receiverVars
    PROVE  IInv'
<1>1. /\ spc = "name" /\ spc' \in {"name", "data"} /\ toRecv' = toRecv
      /\ UNCHANGED windowVars /\ UNCHANGED dupVars /\ toSend' \subseteq toSend
      /\ overdue' = overdue
  BY LeftSubset DEF RecvNameAck
<1>2. SenderTypeOK' /\ SenderInv'
  BY <1>1 DEF IInv, TypeOK, SenderTypeOK, SenderInv, windowVars, dupVars, Base,
              SentPackets
<1>3. rpc # "name"
  BY DEF IInv, ToSendInv, GoodAck
<1>4. AgreementInv'
  BY <1>1, <1>3 DEF IInv, AgreementInv, windowVars, receiverVars, Base,
                    Delivered, Seqs
<1> QED BY <1>1, <1>2, <1>4, SenderMove DEF windowVars

LEMMA RecvFinStep ==
    ASSUME IInv, NEW a \in toSend, RecvFin(a), UNCHANGED receiverVars
    PROVE  IInv'
<1>1. /\ spc = "data" /\ spc' = "fin" /\ UNCHANGED windowVars
      /\ UNCHANGED dupVars /\ overdue' = FALSE /\ toSend' \subseteq toSend
      /\ \A d \in toRecv' : d \in toRecv \/ d = FinAckPacket
  BY LeftSubset, CarrySubset DEF RecvFin, MayRecv
<1>2. SenderTypeOK' /\ SenderInv'
  BY <1>1 DEF IInv, TypeOK, SenderTypeOK, SenderInv, windowVars, dupVars, Base,
              SentPackets
<1>3. rpc \in {"fin", "exit"}
  BY DEF IInv, ToSendInv, GoodAck, RecvFin
<1>4. AgreementInv'
  BY <1>1, <1>3 DEF IInv, AgreementInv, windowVars, receiverVars, Base,
                    Delivered, Seqs
<1>5. FinAckPacket \in Packet'
  BY SizeAssumption DEF FinAckPacket, Packet
<1>6. \A d \in toRecv' : d \in toRecv \/ GoodDatagram(d)'
  BY <1>1, <1>5 DEF GoodDatagram
<1> QED BY <1>1, <1>2, <1>4, <1>6, SenderMove DEF windowVars

LEMMA SenderExitStep ==
    ASSUME IInv, SenderExit, UNCHANGED receiverVars
    PROVE  IInv'
<1>1. /\ spc = "fin" /\ spc' = "exit" /\ UNCHANGED windowVars
      /\ UNCHANGED <<dupVars, overdue>> /\ toSend' = toSend /\ toRecv' = toRecv
  BY DEF SenderExit, netVars
<1>2. SenderTypeOK' /\ SenderInv'
  BY <1>1 DEF IInv, TypeOK, SenderTypeOK, SenderInv, windowVars, dupVars, Base,
              SentPackets
<1>3. AgreementInv'
  BY <1>1 DEF IInv, AgreementInv, windowVars, receiverVars, Base, Delivered, Seqs
<1> QED BY <1>1, <1>2, <1>3, SenderMove DEF windowVars

\* An ack marks only slots whose packet the receiver has.
LEMMA MarkedIsDelivered ==
    ASSUME IInv, NEW a \in toSend, a.isFin # FIN, NEW f, NEW n
    PROVE  /\ Marked(f, n, a) \in [Slots -> BOOLEAN]
           /\ \A j \in 0..(qsize - 1) :
                 Marked(f, n, a)[At(front, j)] => Base + j \in Delivered
<1>1. /\ isAck \in [Slots -> BOOLEAN] /\ front \in Slots /\ qsize \in 0..W
      /\ Base \in Nat /\ Base >= 1
  BY DEF IInv, TypeOK, SenderTypeOK, SenderInv, Base
<1>2. a.ack \in Delivered \cup {0}
  BY DEF IInv, ToSendInv, GoodAck
<1>3. Marked(f, n, a) \in [Slots -> BOOLEAN]
  BY <1>1 DEF Marked
<1>4. ASSUME NEW j \in 0..(qsize - 1), Marked(f, n, a)[At(front, j)]
      PROVE  Base + j \in Delivered
  <2>1. At(front, j) \in Slots
    BY <1>1, AtWraps, SizeAssumption
  <2>2. isAck[At(front, j)] \/ slot[At(front, j)].seq = a.ack
    BY <1>4, <2>1 DEF Marked
  <2>3. slot[At(front, j)] = DataPacket(Base + j)
    BY DEF IInv, SenderInv
  <2>4. slot[At(front, j)].seq = Base + j
    BY <2>3 DEF DataPacket
  <2>5. isAck[At(front, j)] => Base + j \in Delivered
    BY DEF IInv, AgreementInv
  <2>6. a.ack = Base + j => Base + j \in Delivered
    BY <1>1, <1>2
  <2> QED BY <2>2, <2>4, <2>5, <2>6
<1> QED BY <1>3, <1>4

LEMMA AckRepeatedStep ==
    ASSUME IInv, NEW a \in toSend, AckCounted(a) \/ FastRetransmit(a),
           UNCHANGED receiverVars
    PROVE  IInv'
<1>1. /\ a.isFin # FIN /\ toSend' \subseteq toSend
      /\ isAck' = Marked(front, qsize, a)
      /\ UNCHANGED <<spc, toBeSend, usable, front, rear, qsize, slot, overdue, fpos>>
  BY LeftSubset DEF AckCounted, FastRetransmit
<1>2. a.last \in Nat /\ front \in Slots
      /\ dupCount \in Nat \cup {-1} /\ dupAck \in Nat \cup {-1}
  BY DEF IInv, TypeOK, SenderTypeOK, AckPacket
<1>3. dupAck' \in Nat \cup {-1} /\ dupCount' \in Nat \cup {-1}
  BY <1>2 DEF AckCounted, FastRetransmit
<1>4. SenderTypeOK'
  BY <1>1, <1>3, MarkedIsDelivered DEF IInv, TypeOK, SenderTypeOK
<1>5. SenderInv'
  BY <1>1 DEF IInv, SenderInv, Base, SentPackets
<1>6. \A j \in 0..(qsize - 1) : isAck'[At(front, j)] => Base + j \in Delivered
  BY <1>1, MarkedIsDelivered
<1>7. AgreementInv'
  BY <1>1, <1>6 DEF IInv, AgreementInv, receiverVars, Base, Delivered, Seqs
<1>8. \A d \in toRecv' : d \in toRecv \/ GoodDatagram(d)
  BY <1>2, CarrySubset, GoodToSend DEF AckCounted, FastRetransmit
<1>9. \A d \in toRecv' : d \in toRecv \/ GoodDatagram(d)'
  BY <1>1, <1>8 DEF GoodDatagram, SentPackets
<1> QED BY <1>1, <1>4, <1>5, <1>7, <1>9, SenderMove

LEMMA AckAdvancesStep ==
    ASSUME IInv, NEW a \in toSend, AckAdvances(a), UNCHANGED receiverVars
    PROVE  IInv'
<1> DEFINE k == Freed(a.last)
           f == At(front, k)
           n == qsize - k
           marks == IF OutOfOrder(f, a) THEN Marked(f, n, a) ELSE isAck
           m == IF OutOfOrder(f, a) THEN MarkedRun(f, n, marks) ELSE 0
<1>1. /\ a.isFin # FIN /\ InWindow(a) /\ toSend' \subseteq toSend
      /\ dupAck' = a.last /\ dupCount' = 1
      /\ front' = At(f, m) /\ qsize' = qsize - k - m
      /\ usable' = usable + k + m /\ isAck' = marks
      /\ UNCHANGED <<toRecv, spc, toBeSend, rear, slot, overdue, fpos>>
  BY LeftSubset DEF AckAdvances
<1>2. /\ front \in Slots /\ qsize \in Nat /\ qsize <= W /\ W \in Nat
      /\ usable \in Nat /\ usable + qsize = W /\ rear = At(front, qsize)
      /\ ack \in Nat /\ toBeSend \in Nat /\ a.last \in Nat
      /\ a \in AckPacket /\ Base = toBeSend - qsize /\ isAck \in [Slots -> BOOLEAN]
  BY SizeAssumption DEF IInv, TypeOK, SenderTypeOK, ReceiverTypeOK, AckPacket,
                        SenderInv, Base
<1>3. k \in 1..qsize /\ a.last = Base + k - 1
  BY <1>1, <1>2, FreedValue DEF IInv
<1>4. a.last <= ack
  BY <1>1 DEF IInv, ToSendInv, GoodAck
<1>5. /\ marks \in [Slots -> BOOLEAN]
      /\ \A j \in 0..(qsize - 1) : marks[At(front, j)] => Base + j \in Delivered
  BY <1>1, <1>2, MarkedIsDelivered DEF IInv, AgreementInv
<1>6. m \in 0..n /\ \A j \in 0..(m - 1) : marks[At(f, j)]
  BY <1>2, <1>3, MarkedRunFact
<1> HIDE DEF k, f, n, m, marks
<1> DEFINE t == k + m
<1>7. n = qsize - k /\ f = At(front, k)
  BY DEF n, f
<1>8. t \in 1..qsize /\ front' = At(front, t) /\ qsize' = qsize - t
      /\ usable' = usable + t /\ Base' = Base + t
  <2>1. At(f, m) = At(front, t)
    BY <1>2, <1>3, <1>6, <1>7, AtAdds
  <2> QED BY <2>1, <1>1, <1>2, <1>3, <1>6, <1>7 DEF Base
<1>9. \A j \in 0..(qsize - t - 1) :
          /\ At(front', j) = At(front, t + j) /\ t + j \in 0..(qsize - 1)
  BY <1>2, <1>8, AtAdds
<1>10. At(front', qsize') = rear
  BY <1>2, <1>8, AtAdds
<1>11. Base' <= ack + 1
  <2>1. CASE m = 0
    BY <2>1, <1>2, <1>3, <1>4, <1>8
  <2>2. CASE m > 0
    <3>1. SUFFICES ASSUME ack + 1 < Base + t PROVE FALSE
      BY <1>2, <1>8 DEF Base
    <3> DEFINE j == ack + 1 - (Base + k)
    <3>2. j \in 0..(m - 1) /\ k + j \in 0..(qsize - 1) /\ Base + (k + j) = ack + 1
      BY <3>1, <1>2, <1>3, <1>4, <1>6, <1>7
    <3>3. At(f, j) = At(front, k + j)
      BY <3>2, <1>2, <1>3, <1>6, <1>7, AtAdds
    <3>4. ack + 1 \in Delivered
      BY <3>2, <3>3, <1>5, <1>6
    <3>5. ack + 1 \notin Delivered
      BY <1>2 DEF IInv, ReceiverInv, Delivered, Seqs
    <3> QED BY <3>4, <3>5
  <2> QED BY <2>1, <2>2, <1>6
<1>12. SenderTypeOK'
  <2>1. front' \in Slots
    BY <1>2, <1>8, AtWraps
  <2> QED BY <2>1, <1>1, <1>2, <1>5, <1>8 DEF IInv, TypeOK, SenderTypeOK
<1>13. SenderInv'
  <2>1. \A j \in 0..(qsize' - 1) : slot'[At(front', j)] = DataPacket(Base' + j)
    <3> TAKE j \in 0..(qsize' - 1)
    <3>1. j \in 0..(qsize - t - 1)
      BY <1>8
    <3>2. slot[At(front, t + j)] = DataPacket(Base + (t + j))
      BY <3>1, <1>9 DEF IInv, SenderInv
    <3>3. Base + (t + j) = Base' + j
      BY <3>1, <1>2, <1>8
    <3> QED BY <3>1, <3>2, <3>3, <1>1, <1>9
  <2>2. /\ usable' + qsize' = W /\ rear' = At(front', qsize') /\ fpos' = toBeSend' - 1
        /\ 1 <= Base' /\ toBeSend' <= N + 1 /\ (spc' = "name" => toBeSend' = 1)
    BY <1>1, <1>2, <1>8, <1>10 DEF IInv, SenderInv
  <2>3. \A i \in Slots : slot'[i] \in SentPackets' \cup {UnfilledSlot}
    BY <1>1 DEF IInv, SenderInv, SentPackets
  <2> QED BY <2>1, <2>2, <2>3 DEF SenderInv
<1>14. AgreementInv'
  <2>1. \A j \in 0..(qsize' - 1) : isAck'[At(front', j)] => Base' + j \in Delivered
    <3> TAKE j \in 0..(qsize' - 1)
    <3>1. j \in 0..(qsize - t - 1)
      BY <1>8
    <3>2. marks[At(front, t + j)] => Base + (t + j) \in Delivered
      BY <3>1, <1>5, <1>9
    <3>3. Base + (t + j) = Base' + j
      BY <3>1, <1>2, <1>8
    <3> QED BY <3>1, <3>2, <3>3, <1>1, <1>9
  <2>2. Delivered' = Delivered /\ ack' = ack /\ rpc' = rpc
    BY DEF receiverVars, Delivered, Seqs
  <2> QED BY <2>1, <2>2, <1>1, <1>11 DEF IInv, AgreementInv
<1>15. \A d \in toRecv' : d \in toRecv \/ GoodDatagram(d)'
  BY <1>1
<1> QED BY <1>1, <1>12, <1>13, <1>14, <1>15, SenderMove

LEMMA SendDataStep ==
    ASSUME IInv, SendData, UNCHANGED receiverVars
    PROVE  IInv'
<1>1. /\ spc = "data" /\ usable > 0 /\ toBeSend <= N
      /\ slot' = [slot EXCEPT ![rear] = NextPacket]
      /\ isAck' = [isAck EXCEPT ![rear] = FALSE]
      /\ fpos' = fpos + 1 /\ usable' = usable - 1 /\ toBeSend' = toBeSend + 1
      /\ qsize' = qsize + 1 /\ rear' = At(rear, 1)
      /\ UNCHANGED <<toSend, spc, front, dupVars, overdue>>
  BY DEF SendData, MaySend, Unmark
<1>2. /\ front \in Slots /\ qsize \in Nat /\ W \in Nat /\ usable \in Nat
      /\ usable + qsize = W /\ rear = At(front, qsize) /\ rear \in Slots
      /\ toBeSend \in Nat /\ toBeSend >= 1 /\ fpos = toBeSend - 1
      /\ isAck \in [Slots -> BOOLEAN] /\ slot \in [Slots -> Packet]
      /\ N \in Nat /\ fpos \in Nat
  BY SizeAssumption DEF IInv, TypeOK, SenderTypeOK, SenderInv, Base
<1>3. NextPacket = DataPacket(toBeSend)
  BY <1>2 DEF NextPacket, DataPacket
<1>4. DataPacket(toBeSend) \in Packet /\ DataPacket(toBeSend) \in SentPackets'
  <2>1. DataPacket(toBeSend) \in Packet
    BY <1>1, <1>2 DEF DataPacket, Packet
  <2>2. toBeSend \in 1..(toBeSend + 1 - 1)
    BY <1>2
  <2>3. toBeSend' = toBeSend + 1 /\ toBeSend \in Nat
    BY <1>1, <1>2
  <2>4. SentPackets' = {DataPacket(s) : s \in 1..(toBeSend + 1 - 1)}
    BY <2>3 DEF SentPackets
  <2> QED BY <2>1, <2>2, <2>4
<1>5. Base' = Base
  BY <1>1, <1>2 DEF Base
<1>6. \A j \in 0..(qsize - 1) : At(front, j) \in Slots /\ At(front, j) # rear
  <2> TAKE j \in 0..(qsize - 1)
  <2>1. j \in 0..(W - 1) /\ qsize \in 0..(W - 1) /\ j # qsize
    BY <1>1, <1>2
  <2>2. At(front, j) # At(front, qsize)
    BY <2>1, <1>2, AtInjective
  <2>3. At(front, j) \in Slots
    BY <2>1, <1>2, AtWraps
  <2> QED BY <2>2, <2>3, <1>2
<1>7. rear' = At(front, qsize') /\ rear' \in Slots
  <2>1. At(At(front, qsize), 1) = At(front, qsize + 1)
    BY <1>1, <1>2, AtAdds
  <2>2. At(rear, 1) \in Slots
    BY <1>1, <1>2, AtWraps
  <2> QED BY <2>1, <2>2, <1>1, <1>2
<1>8. SenderTypeOK'
  <2>1. slot' \in [Slots -> Packet] /\ isAck' \in [Slots -> BOOLEAN]
    BY <1>1, <1>2, <1>3, <1>4
  <2>2. usable' \in 0..W /\ qsize' \in 0..W /\ toBeSend' \in Nat /\ fpos' \in Nat
    BY <1>1, <1>2
  <2> QED BY <2>1, <2>2, <1>1, <1>7 DEF IInv, TypeOK, SenderTypeOK, dupVars
<1>9. SentPackets \subseteq SentPackets'
  BY <1>1, <1>2, SentPacketsGrow
<1>10. SenderInv'
  <2>1. \A j \in 0..(qsize' - 1) : slot'[At(front', j)] = DataPacket(Base' + j)
    <3> TAKE j \in 0..(qsize' - 1)
    <3>1. CASE j = qsize
      <4>1. Base + qsize = toBeSend
        BY <1>2 DEF Base
      <4> QED BY <3>1, <4>1, <1>1, <1>2, <1>3, <1>5
    <3>2. CASE j # qsize
      <4>1. j \in 0..(qsize - 1)
        BY <3>2, <1>1, <1>2
      <4>2. slot[At(front, j)] = DataPacket(Base + j)
        BY <4>1 DEF IInv, SenderInv
      <4> QED BY <4>1, <4>2, <1>1, <1>2, <1>5, <1>6
    <3> QED BY <3>1, <3>2
  <2>2. \A i \in Slots : slot'[i] \in SentPackets' \cup {UnfilledSlot}
    BY <1>1, <1>2, <1>3, <1>4, <1>9 DEF IInv, SenderInv
  <2>3. /\ usable' + qsize' = W /\ fpos' = toBeSend' - 1 /\ 1 <= Base'
        /\ toBeSend' <= N + 1 /\ spc' # "name" /\ rear' = At(front', qsize')
    BY <1>1, <1>2, <1>5, <1>7 DEF IInv, SenderInv
  <2> QED BY <2>1, <2>2, <2>3 DEF SenderInv
<1>11. AgreementInv'
  <2>1. Delivered' = Delivered /\ ack' = ack /\ rpc' = rpc
    BY DEF receiverVars, Delivered, Seqs
  <2>2. \A j \in 0..(qsize' - 1) : isAck'[At(front', j)] => Base' + j \in Delivered
    <3> TAKE j \in 0..(qsize' - 1)
    <3>1. CASE j = qsize
      BY <3>1, <1>1, <1>2
    <3>2. CASE j # qsize
      <4>1. j \in 0..(qsize - 1)
        BY <3>2, <1>1, <1>2
      <4>2. isAck[At(front, j)] => Base + j \in Delivered
        BY <4>1 DEF IInv, AgreementInv
      <4> QED BY <4>1, <4>2, <1>1, <1>2, <1>5, <1>6
    <3> QED BY <3>1, <3>2
  <2> QED BY <2>1, <2>2, <1>1, <1>5 DEF IInv, AgreementInv
<1>12. \A d \in toRecv' : d \in toRecv \/ GoodDatagram(d)'
  <2>1. \A d \in toRecv' : d \in toRecv \/ d = DataPacket(toBeSend)
    BY <1>3, CarrySubset DEF SendData
  <2>3. ASSUME NEW d \in toRecv', d \notin toRecv PROVE GoodDatagram(d)'
    <3>1. d = DataPacket(toBeSend)
      BY <2>1, <2>3
    <3> QED BY <3>1, <1>4 DEF GoodDatagram, Packet
  <2> QED BY <2>3
<1> QED BY <1>1, <1>8, <1>10, <1>11, <1>12, SenderMove

LEMMA SenderStepPreserves ==
    ASSUME IInv, SenderStep
    PROVE  IInv'
<1>1. UNCHANGED receiverVars
  BY DEF SenderStep
<1>2. CASE SendFileName
  BY <1>1, <1>2, SendFileNameStep
<1>3. CASE SendData
  BY <1>1, <1>3, SendDataStep
<1>4. CASE TimeoutResend
  BY <1>1, <1>4, TimeoutResendStep
<1>5. CASE SenderExit
  BY <1>1, <1>5, SenderExitStep
<1>7. CASE FinTimeout
  BY <1>1, <1>7, FinTimeoutStep
<1>6. ASSUME NEW a \in toSend, SenderRecv(a) PROVE IInv'
  <2>1. CASE RecvNameAck(a)
    BY <1>1, <2>1, RecvNameAckStep
  <2>2. CASE AckAdvances(a)
    BY <1>1, <2>2, AckAdvancesStep
  <2>3. CASE AckCounted(a) \/ FastRetransmit(a)
    BY <1>1, <2>3, AckRepeatedStep
  <2>4. CASE AckCorrupt(a) \/ FinIgnored(a)
    BY <1>1, <2>4, AckDiscardedStep
  <2>6. CASE FinAgain(a)
    BY <1>1, <2>6, FinAgainStep
  <2>5. CASE RecvFin(a)
    BY <1>1, <2>5, RecvFinStep
  <2> QED BY <1>6, <2>1, <2>2, <2>3, <2>4, <2>5, <2>6 DEF SenderRecv
<1> QED BY <1>2, <1>3, <1>4, <1>5, <1>6, <1>7 DEF SenderStep, SenderNext

-----------------------------------------------------------------------------
(* Steps of the receiver. *)

\* A step of the receiver that changes nothing but the network.
LEMMA ReceiverNetMove ==
    ASSUME IInv, UNCHANGED <<senderVars, receiverVars>>,
           toRecv' \subseteq toRecv,
           \A a \in toSend' : a \in toSend \/ GoodAck(a)
    PROVE  IInv'
<1>1. ReceiverTypeOK' /\ ReceiverInv'
  BY DEF IInv, TypeOK, ReceiverTypeOK, ReceiverInv, senderVars, receiverVars,
         Delivered, Seqs
<1>2. Delivered' = Delivered /\ ack' = ack /\ rpc' = rpc /\ ack \in Nat
  BY DEF IInv, TypeOK, ReceiverTypeOK, receiverVars, Delivered, Seqs
<1>3. \A a \in toSend' : a \in toSend \/ GoodAck(a)'
  BY <1>2 DEF GoodAck, AckPacket
<1> QED BY <1>1, <1>2, <1>3, ReceiverMove

LEMMA ReceiverDiscardsStep ==
    ASSUME IInv, NEW d \in toRecv, RecvFileNameCorrupt(d) \/ RecvNotFinAck(d),
           UNCHANGED senderVars
    PROVE  IInv'
BY LeftSubset, ReceiverNetMove DEF RecvFileNameCorrupt, RecvNotFinAck

LEMMA ResendFinStep ==
    ASSUME IInv, ResendFin, UNCHANGED senderVars
    PROVE  IInv'
<1>1. GoodAck(FinPacket)
  BY DEF ResendFin, GoodAck, FinPacket, AckPacket
<1>2. \A a \in toSend' : a \in toSend \/ a = FinPacket
  BY CarrySubset DEF ResendFin
<1> QED BY <1>1, <1>2, ReceiverNetMove DEF ResendFin

LEMMA RecvFileNameStep ==
    ASSUME IInv, NEW d \in toRecv, RecvFileName(d), UNCHANGED senderVars
    PROVE  IInv'
<1>1. /\ rpc = "name" /\ d.ok /\ rpc' \in {"data", "failed"} /\ fileName' = d.data
      /\ toRecv' \subseteq toRecv /\ UNCHANGED <<ack, list, endFile, written>>
  BY LeftSubset DEF RecvFileName
<1>2. toBeSend = 1 /\ spc \notin {"fin", "exit"}
  BY <1>1 DEF IInv, SenderInv, AgreementInv
<1>3. d = FilePacket
  <2>1. SentPackets = {}
    BY <1>2 DEF SentPackets
  <2>2. d \in {FilePacket, UnfilledSlot}
    BY <1>2, <2>1 DEF IInv, ToRecvInv, GoodDatagram
  <2> QED BY <2>2, <1>1 DEF UnfilledSlot
<1>4. fileName' = Path /\ d.seq = 0
  BY <1>1, <1>3 DEF FilePacket
<1>5. \A a \in toSend' : a \in toSend \/
          \E u \in Unfilled : a = [ack |-> 0, last |-> 0, isFin |-> u.isFin, ok |-> u.ok]
  BY <1>4, CarrySubset DEF RecvFileName
<1>6. Delivered' = Delivered /\ ack' = ack /\ ack \in Nat
  BY <1>1 DEF IInv, TypeOK, ReceiverTypeOK, Delivered, Seqs
<1>7. ReceiverTypeOK'
  BY <1>1, <1>4, SizeAssumption DEF IInv, TypeOK, ReceiverTypeOK
<1>8. ReceiverInv'
  <2>1. toBeSend' = toBeSend
    BY DEF senderVars
  <2> QED BY <2>1, <1>1, <1>4, <1>6 DEF IInv, ReceiverInv
<1>9. \A a \in toSend' : a \in toSend \/ GoodAck(a)'
  <2>1. ASSUME NEW u \in Unfilled,
               NEW a, a = [ack |-> 0, last |-> 0, isFin |-> u.isFin, ok |-> u.ok]
        PROVE  GoodAck(a)'
    <3>1. /\ u \in [isFin : 0..2, ok : BOOLEAN]
          /\ u # [isFin |-> FIN, ok |-> TRUE]
      BY UnfilledAssumption
    <3>2. ~(u.ok /\ u.isFin = FIN)
      BY <3>1
    <3>3. a \in AckPacket /\ ~IsFin(a) /\ a.last = 0 /\ a.ack = 0
      BY <2>1, <3>1, <3>2 DEF AckPacket
    <3> QED BY <3>3, <1>1, <1>6 DEF GoodAck
  <2> QED BY <2>1, <1>5
<1> QED BY <1>1, <1>6, <1>7, <1>8, <1>9, ReceiverMove

LEMMA PrefixType ==
    ASSUME NEW n \in Nat, n <= N
    PROVE  [k \in 1..n |-> k] \in Seq(0..(N + 2))
<1>1. \A k \in 1..n : k \in 0..(N + 2)
  BY SizeAssumption
<1> QED BY <1>1

\* A step of the data loop: what has to be shown of it.  If the loop ends, the
\* last packet was written.
LEMMA DataLoopMove ==
    ASSUME IInv, UNCHANGED senderVars, rpc = "data", UNCHANGED fileName,
           toRecv' \subseteq toRecv,
           NEW b \in Nat, ack' = b, ack <= b, b < toBeSend,
           written' = [k \in 1..b |-> k],
           \A n \in list' : /\ n \in [seq : Nat, data : 0..(N + 2)]
                            /\ n.data = n.seq /\ b + 1 < n.seq
                            /\ n.seq < toBeSend /\ n.seq <= b + W,
           endFile' \in 0..1, endFile' = 1 => N \in Delivered',
           Delivered \subseteq Delivered',
           NEW r \in Delivered' \cup {0}, ReplyAndLoop(FilledAck(r, b))
    PROVE  IInv'
<1>1. /\ toBeSend \in Nat /\ toBeSend <= N + 1 /\ N \in Nat /\ ack \in Nat
      /\ toBeSend' = toBeSend
  BY SizeAssumption DEF IInv, TypeOK, SenderTypeOK, SenderInv, ReceiverTypeOK,
                        senderVars
<1>2. Delivered' \subseteq Nat
  BY <1>1 DEF Delivered, Seqs
<1>3. /\ rpc' \in {"data", "fin"} /\ (rpc' = "fin" => endFile' # 0 /\ list' = {})
      /\ \A a \in toSend' :
            \/ a \in toSend
            \/ a = FilledAck(r, b)
            \/ a = FinPacket /\ rpc' = "fin"
  <2>1. CASE endFile' = 0 \/ list' # {}
    <3>1. toSend' \in Carry(toSend, {FilledAck(r, b)}) /\ rpc' = "data"
      BY <2>1 DEF ReplyAndLoop
    <3>2. toSend' \subseteq toSend \cup {FilledAck(r, b)}
      BY <3>1, CarrySubset
    <3>3. \A a \in toSend' : a \in toSend \/ a = FilledAck(r, b)
      BY <3>2
    <3> QED BY <3>1, <3>3
  <2>2. CASE endFile' # 0 /\ list' = {}
    <3>1. toSend' \in Carry(toSend, {FilledAck(r, b), FinPacket}) /\ rpc' = "fin"
      BY <2>2 DEF ReplyAndLoop
    <3>2. toSend' \subseteq toSend \cup {FilledAck(r, b), FinPacket}
      BY <3>1, CarrySubset
    <3> QED BY <2>2, <3>1, <3>2
  <2> QED BY <2>1, <2>2
<1>4. rpc' = "fin" => b = N
  <2>1. SUFFICES ASSUME rpc' = "fin" PROVE b = N
    OBVIOUS
  <2>2. N \in Delivered' /\ list' = {}
    BY <2>1, <1>3
  <2>3. N \in 1..b
    BY <2>2 DEF Delivered, Seqs
  <2> QED BY <2>3, <1>1
<1>5. b <= N
  BY <1>1
<1>6. ReceiverTypeOK'
  <2>1. written' \in Seq(0..(N + 2))
    BY <1>5, PrefixType
  <2> QED BY <2>1, <1>3 DEF IInv, TypeOK, ReceiverTypeOK
<1>7. ReceiverInv'
  BY <1>1, <1>3, <1>4 DEF IInv, ReceiverInv
<1>8. \A a \in toSend' : a \in toSend \/ GoodAck(a)'
  <2>1. ASSUME NEW a, a = FinPacket, rpc' = "fin" PROVE GoodAck(a)'
    BY <2>1 DEF GoodAck, FinPacket, AckPacket
  <2>2. ASSUME NEW a, a = FilledAck(r, b) PROVE GoodAck(a)'
    <3>1. a = [ack |-> r, last |-> b, isFin |-> 0, ok |-> TRUE]
      BY <2>2 DEF FilledAck
    <3>2. a \in AckPacket /\ a.isFin = 0 /\ a.last = b /\ a.ack = r
      BY <3>1, <1>2 DEF AckPacket
    <3>3. a.last <= ack'
      BY <3>2
    <3> QED BY <3>2, <3>3, <1>3 DEF GoodAck, AckPacket
  <2> QED BY <2>1, <2>2, <1>3
<1> QED BY <1>3, <1>6, <1>7, <1>8, ReceiverMove

LEMMA RecvOldStep ==
    ASSUME IInv, NEW d \in toRecv, RecvIgnored(d) \/ RecvCorrupt(d),
           UNCHANGED senderVars
    PROVE  IInv'
<1>1. /\ rpc = "data" /\ toRecv' \subseteq toRecv
      /\ UNCHANGED <<fileName, ack, list, endFile, written>>
      /\ ReplyAndLoop(FilledAck(0, ack))
  BY LeftSubset DEF RecvIgnored, RecvCorrupt
<1>2. Delivered' = Delivered /\ ack \in Nat /\ ack < toBeSend
      /\ \A n \in list : n \in [seq : Nat, data : 0..(N + 2)]
  BY <1>1 DEF IInv, TypeOK, ReceiverTypeOK, ReceiverInv, Delivered, Seqs
<1>3. /\ written' = [k \in 1..ack |-> k] /\ endFile' \in 0..1
      /\ endFile' = 1 => N \in Delivered'
  BY <1>1, <1>2 DEF IInv, ReceiverInv
<1>4. \A n \in list' : /\ n.data = n.seq /\ ack + 1 < n.seq
                       /\ n.seq < toBeSend /\ n.seq <= ack + W
  BY <1>1 DEF IInv, ReceiverInv
<1>5. 0 \in Delivered' \cup {0}
  OBVIOUS
<1> QED BY <1>1, <1>2, <1>3, <1>4, <1>5, DataLoopMove

\* A packet the receiver waits for is a packet of the file.
LEMMA ExpectedPacket ==
    ASSUME IInv, NEW d \in toRecv, rpc = "data", d.ok, Expected(d)
    PROVE  /\ d.seq \in 1..N /\ d.seq < toBeSend
           /\ d = DataPacket(d.seq) /\ d.data = d.seq
           /\ d.isEnd \in 0..1 /\ (d.isEnd = 1 => d.seq = N)
<1>1. /\ toBeSend \in Nat /\ toBeSend <= N + 1 /\ N \in Nat /\ ack \in Nat
  BY SizeAssumption DEF IInv, TypeOK, SenderTypeOK, SenderInv, ReceiverTypeOK
<1>2. d \in SentPackets \cup {FilePacket, UnfilledSlot, FinAckPacket}
  BY DEF IInv, ToRecvInv, GoodDatagram
<1>3. d \in SentPackets
  BY <1>1, <1>2 DEF FilePacket, UnfilledSlot, FinAckPacket, Expected
<1>4. PICK s \in 1..(toBeSend - 1) : d = DataPacket(s)
  BY <1>3 DEF SentPackets
<1>5. d = [seq |-> s, data |-> s, isEnd |-> IF s >= N THEN 1 ELSE 0, ok |-> TRUE]
  BY <1>4 DEF DataPacket
<1>6. d.seq = s /\ d.data = s /\ d.isEnd = IF s >= N THEN 1 ELSE 0
  BY <1>5
<1> QED BY <1>1, <1>4, <1>6

LEMMA RecvInOrderStep ==
    ASSUME IInv, NEW d \in toRecv, RecvInOrder(d), UNCHANGED senderVars
    PROVE  IInv'
<1>1. /\ rpc = "data" /\ d.ok /\ Expected(d) /\ d.seq = ack + 1 /\ list = {}
      /\ toRecv' \subseteq toRecv /\ UNCHANGED <<fileName, list>>
      /\ endFile' = IF endFile = 0 THEN d.isEnd ELSE endFile
      /\ written' = Append(written, d.data) /\ ack' = ack + 1
      /\ ReplyAndLoop(FilledAck(ack', ack'))
  BY LeftSubset DEF RecvInOrder
<1>2. /\ d.seq \in 1..N /\ d.seq < toBeSend /\ d.data = d.seq
      /\ d.isEnd \in 0..1 /\ (d.isEnd = 1 => d.seq = N)
  BY <1>1, ExpectedPacket
<1>3. ack \in Nat /\ written = [k \in 1..ack |-> k] /\ endFile \in 0..1
      /\ (endFile = 1 => N \in Delivered) /\ N \in Nat
  BY SizeAssumption DEF IInv, TypeOK, ReceiverTypeOK, ReceiverInv
<1>4. Delivered = 1..ack /\ Delivered' = 1..(ack + 1)
  BY <1>1 DEF Delivered, Seqs
<1>5. written' = [k \in 1..(ack + 1) |-> k]
  BY <1>1, <1>2, <1>3, AppendPrefix
<1>6. endFile' \in 0..1 /\ (endFile' = 1 => N \in Delivered')
  BY <1>1, <1>2, <1>3, <1>4
<1>7. ack + 1 \in Nat /\ ack <= ack + 1 /\ ack + 1 < toBeSend
  BY <1>1, <1>2, <1>3
<1>8. Delivered \subseteq Delivered' /\ ack + 1 \in Delivered' \cup {0}
  BY <1>3, <1>4
<1>9. ReplyAndLoop(FilledAck(ack + 1, ack + 1))
  BY <1>1
<1>10. \A n \in list' : FALSE
  BY <1>1
<1> QED BY <1>1, <1>5, <1>6, <1>7, <1>8, <1>9, <1>10, DataLoopMove

LEMMA RecvBufferedStep ==
    ASSUME IInv, NEW d \in toRecv, RecvBuffered(d), UNCHANGED senderVars
    PROVE  IInv'
<1> DEFINE l == Add(list, d)
           m == RunEnd(l, ack)
<1>1. /\ rpc = "data" /\ d.ok /\ Expected(d)
      /\ toRecv' \subseteq toRecv /\ UNCHANGED fileName
      /\ endFile' = IF endFile = 0 THEN d.isEnd ELSE endFile
      /\ list' = {n \in l : n.seq \notin (ack + 1)..m}
      /\ written' = written \o [j \in 1..(m - ack) |-> DataOf(l, ack + j)]
      /\ ack' = m /\ ReplyAndLoop(FilledAck(d.seq, m))
  BY LeftSubset DEF RecvBuffered
<1>2. /\ d.seq \in 1..N /\ d.seq < toBeSend /\ d.data = d.seq
      /\ d.isEnd \in 0..1 /\ (d.isEnd = 1 => d.seq = N)
  BY <1>1, ExpectedPacket
<1>3. /\ ack \in Nat /\ written = [k \in 1..ack |-> k] /\ endFile \in 0..1
      /\ (endFile = 1 => N \in Delivered) /\ N \in Nat /\ ack < toBeSend
      /\ toBeSend \in Nat /\ W \in Nat
  BY SizeAssumption DEF IInv, TypeOK, SenderTypeOK, ReceiverTypeOK, ReceiverInv
<1>4. \A n \in list : /\ n \in [seq : Nat, data : 0..(N + 2)] /\ n.data = n.seq
                      /\ ack + 1 < n.seq /\ n.seq < toBeSend /\ n.seq <= ack + W
  BY DEF IInv, TypeOK, ReceiverTypeOK, ReceiverInv
<1>5. ack < d.seq /\ d.seq <= ack + W
  BY <1>1 DEF Expected
<1>6. \A n \in l : /\ n \in [seq : Nat, data : 0..(N + 2)] /\ n.data = n.seq
                   /\ ack + 1 <= n.seq /\ n.seq < toBeSend /\ n.seq <= ack + W
  <2>1. [seq |-> d.seq, data |-> d.data] \in [seq : Nat, data : 0..(N + 2)]
    BY <1>2, <1>3
  <2>2. \A n \in l : n \in list \/ n = [seq |-> d.seq, data |-> d.data]
    BY DEF Add
  <2> QED BY <2>1, <2>2, <1>2, <1>3, <1>4, <1>5
<1>7. Seqs(l) = Seqs(list) \cup {d.seq}
  <2> DEFINE x == [seq |-> d.seq, data |-> d.data]
  <2>1. x.seq = d.seq
    OBVIOUS
  <2>2. CASE d.seq \in Seqs(list)
    <3>1. l = list
      BY <2>1, <2>2 DEF Add
    <3> QED BY <2>2, <3>1
  <2>3. CASE d.seq \notin Seqs(list)
    <3>1. l = list \cup {x}
      BY <2>1, <2>3 DEF Add
    <3> HIDE DEF x, l
    <3> QED BY <2>1, <3>1 DEF Seqs
  <2> QED BY <2>2, <2>3
<1>8. \A s \in Seqs(l) : s \in Nat /\ ack + 1 <= s /\ s < toBeSend /\ s <= ack + W
  BY <1>6 DEF Seqs
<1>9. /\ m \in ack..(ack + W) /\ \A s \in (ack + 1)..m : s \in Seqs(l)
      /\ m + 1 \notin Seqs(l)
  BY <1>3, <1>8, RunEndFact
<1>10. \A s \in Seqs(l) : \A n \in l : n.seq = s => n.data = s
  BY <1>6
<1>11. \A s \in Seqs(l) : DataOf(l, s) = s
  BY <1>6 DEF DataOf, Seqs
<1> HIDE DEF l, m
<1>12. written' = [k \in 1..m |-> k]
  <2>1. m - ack \in Nat /\ ack + (m - ack) = m
    BY <1>3, <1>9
  <2>2. \A j \in 1..(m - ack) : DataOf(l, ack + j) = ack + j
    BY <1>3, <1>9, <1>11
  <2>3. [j \in 1..(m - ack) |-> DataOf(l, ack + j)] = [j \in 1..(m - ack) |-> ack + j]
    BY <2>2
  <2>4. written' = [k \in 1..ack |-> k] \o [j \in 1..(m - ack) |-> ack + j]
    BY <2>3, <1>1, <1>3
  <2>5. written' = [k \in 1..(ack + (m - ack)) |-> k]
    BY <2>1, <2>4, <1>3, ConcatPrefix
  <2> QED BY <2>1, <2>5, <1>1
<1>13. m \in Nat /\ ack <= m /\ m < toBeSend
  <2>1. m = ack \/ m \in Seqs(l)
    BY <1>3, <1>9
  <2> QED BY <2>1, <1>1, <1>3, <1>8, <1>9
<1>14. \A n \in list' : /\ n \in [seq : Nat, data : 0..(N + 2)]
                        /\ n.data = n.seq /\ m + 1 < n.seq
                        /\ n.seq < toBeSend /\ n.seq <= m + W
  <2> SUFFICES ASSUME NEW n \in l, n.seq \notin (ack + 1)..m
               PROVE  /\ n \in [seq : Nat, data : 0..(N + 2)]
                      /\ n.data = n.seq /\ m + 1 < n.seq
                      /\ n.seq < toBeSend /\ n.seq <= m + W
    BY <1>1
  <2>1. n.seq \in Nat /\ ack + 1 <= n.seq /\ n.seq <= ack + W
    BY <1>6
  <2>2. n.seq # m + 1
    BY <1>9 DEF Seqs
  <2> QED BY <2>1, <2>2, <1>3, <1>6, <1>9
<1>15. Seqs(l) \cup Delivered \subseteq Delivered'
  <2>1. \A s \in Seqs(l) : s \in 1..m \/ s \in Seqs(list')
    BY <1>1, <1>3, <1>8, <1>9 DEF Seqs
  <2>2. Delivered' = 1..m \cup Seqs(list')
    BY <1>1 DEF Delivered, Seqs
  <2>3. 1..ack \subseteq 1..m
    BY <1>3, <1>9
  <2> QED BY <2>1, <2>2, <2>3, <1>7 DEF Delivered
<1>16. endFile' \in 0..1 /\ (endFile' = 1 => N \in Delivered')
  BY <1>1, <1>2, <1>3, <1>7, <1>15
<1>17. d.seq \in Delivered' \cup {0}
  BY <1>7, <1>15
<1> QED BY <1>1, <1>12, <1>13, <1>14, <1>15, <1>16, <1>17, DataLoopMove

LEMMA RecvFinAckStep ==
    ASSUME IInv, NEW d \in toRecv, RecvFinAck(d), UNCHANGED senderVars
    PROVE  IInv'
<1>1. /\ rpc = "fin" /\ rpc' = "exit" /\ toRecv' \subseteq toRecv
      /\ UNCHANGED <<toSend, fileName, ack, list, endFile, written>>
  BY LeftSubset DEF RecvFinAck
<1>2. /\ Delivered' = Delivered /\ ack \in Nat
      /\ list \in SUBSET [seq : Nat, data : 0..(N + 2)]
  BY <1>1 DEF IInv, TypeOK, ReceiverTypeOK, Delivered, Seqs
<1>3. ReceiverTypeOK'
  BY <1>1 DEF IInv, TypeOK, ReceiverTypeOK
<1>4. ReceiverInv'
  <2>1. toBeSend' = toBeSend
    BY DEF senderVars
  <2> QED BY <2>1, <1>1, <1>2 DEF IInv, ReceiverInv
<1> QED BY <1>1, <1>2, <1>3, <1>4, ReceiverMove

LEMMA ReceiverStepPreserves ==
    ASSUME IInv, ReceiverStep
    PROVE  IInv'
<1>1. UNCHANGED senderVars
  BY DEF ReceiverStep
<1>2. CASE ResendFin
  BY <1>1, <1>2, ResendFinStep
<1>3. ASSUME NEW d \in toRecv, ReceiverRecv(d) PROVE IInv'
  <2>1. CASE RecvFileName(d)
    BY <1>1, <2>1, RecvFileNameStep
  <2>2. CASE RecvFileNameCorrupt(d) \/ RecvNotFinAck(d)
    BY <1>1, <2>2, ReceiverDiscardsStep
  <2>3. CASE RecvIgnored(d) \/ RecvCorrupt(d)
    BY <1>1, <2>3, RecvOldStep
  <2>4. CASE RecvInOrder(d)
    BY <1>1, <2>4, RecvInOrderStep
  <2>5. CASE RecvBuffered(d)
    BY <1>1, <2>5, RecvBufferedStep
  <2>6. CASE RecvFinAck(d)
    BY <1>1, <2>6, RecvFinAckStep
  <2> QED BY <1>3, <2>1, <2>2, <2>3, <2>4, <2>5, <2>6 DEF ReceiverRecv
<1> QED BY <1>2, <1>3 DEF ReceiverStep, ReceiverNext

-----------------------------------------------------------------------------
(* The invariant holds. *)

LEMMA InitIInv ==
    ASSUME Init
    PROVE  IInv
<1> USE SizeAssumption DEF Init, NetInit, SenderInit, ReceiverInit
<1>1. UnfilledSlot \in Packet
  BY DEF UnfilledSlot, Packet
<1>2. SenderTypeOK
  BY <1>1 DEF SenderTypeOK, Slots
<1>3. written = [k \in 1..0 |-> k] /\ written \in Seq(0..(N + 2))
  <2>1. written = <<>> /\ <<>> \in Seq(0..(N + 2))
    OBVIOUS
  <2>2. <<>> = [k \in 1..0 |-> k]
    OBVIOUS
  <2> QED BY <2>1, <2>2
<1>4. ReceiverTypeOK
  BY <1>3 DEF ReceiverTypeOK
<1>5. SenderInv
  <2>1. At(0, 0) = 0
    BY DEF At
  <2>2. \A i \in Slots : slot[i] = UnfilledSlot
    OBVIOUS
  <2> QED BY <2>1, <2>2 DEF SenderInv, Base
<1>6. ReceiverInv
  BY <1>3 DEF ReceiverInv, Seqs
<1>7. AgreementInv
  BY DEF AgreementInv, Base
<1> QED BY <1>2, <1>4, <1>5, <1>6, <1>7 DEF IInv, TypeOK, ToRecvInv, ToSendInv

LEMMA StutterIInv ==
    ASSUME IInv, UNCHANGED vars
    PROVE  IInv'
<1>1. /\ UNCHANGED <<senderVars, receiverVars>> /\ toRecv' \subseteq toRecv
      /\ \A a \in toSend' : a \in toSend \/ GoodAck(a)
  BY DEF vars, netVars
<1> QED BY <1>1, ReceiverNetMove

LEMMA NextIInv ==
    ASSUME IInv, [Next]_vars
    PROVE  IInv'
BY SenderStepPreserves, ReceiverStepPreserves, StutterIInv DEF Next, Terminated

\* What the two processes and the network hold always stems from one file cut
\* into N packets (sendfile.cpp 297-437, recvfile.cpp 148-200): the inductive
\* invariant from which every theorem below follows.
THEOREM Invariance == Spec => []IInv
<1>1. Init => IInv
  BY InitIInv
<1>2. IInv /\ [Next]_vars => IInv'
  BY NextIInv
<1> QED BY <1>1, <1>2, PTL DEF Spec

\* Every variable keeps its type, in particular the ring of queue.h never holds
\* more than W packets and send_window.usable never goes below 0
\* (sendfile.cpp 27-31 and 297).
THEOREM TypeCorrect == Spec => []TypeOK
<1>1. IInv => TypeOK
  BY DEF IInv
<1> QED BY <1>1, Invariance, PTL

\* The output file is always a prefix of the input file, block for block,
\* whatever the network loses, repeats, reorders or corrupts (recvfile.cpp
\* 148-200).
THEOREM OutputIsPrefix == Spec => []WrittenInOrder
<1>1. IInv => WrittenInOrder
  BY DEF IInv, ReceiverInv, WrittenInOrder
<1> QED BY <1>1, Invariance, PTL

\* No packet is given up before it was delivered (sendfile.cpp 339-377).
THEOREM NothingLost == Spec => []NothingForgotten
<1>1. ASSUME IInv PROVE NothingForgotten
  <2>1. /\ toBeSend \in Nat /\ qsize \in Nat /\ ack \in Nat
        /\ Base \in Int /\ Base <= ack + 1
    BY <1>1 DEF IInv, TypeOK, SenderTypeOK, ReceiverTypeOK, AgreementInv, Base
  <2>2. ASSUME NEW s \in 1..(toBeSend - 1), s \notin Delivered
        PROVE  \E j \in 0..(qsize - 1) : /\ slot[At(front, j)].seq = s
                                         /\ ~isAck[At(front, j)]
    <3> DEFINE j == s - Base
    <3>1. s > ack
      BY <2>1, <2>2 DEF Delivered
    <3>2. j \in 0..(qsize - 1) /\ Base + j = s
      BY <2>1, <3>1 DEF Base
    <3>3. slot[At(front, j)] = DataPacket(s)
      BY <1>1, <3>2 DEF IInv, SenderInv
    <3>4. ~isAck[At(front, j)]
      BY <1>1, <2>2, <3>2 DEF IInv, AgreementInv
    <3> QED BY <3>2, <3>3, <3>4 DEF DataPacket
  <2> QED BY <2>2 DEF NothingForgotten
<1> QED BY <1>1, Invariance, PTL

\* Every datagram under way that verifies lies within the receive window, and
\* the sender's window starts no later than where the receiver waits
\* (recvfile.cpp 158).
THEOREM WindowsStayInReach == Spec => []WindowsAgree
<1>1. ASSUME IInv PROVE WindowsAgree
  <2>1. /\ toBeSend \in Nat /\ qsize \in 0..W /\ ack \in Nat
        /\ Base <= ack + 1 /\ ack < toBeSend
    BY <1>1 DEF IInv, TypeOK, SenderTypeOK, ReceiverTypeOK, AgreementInv,
                ReceiverInv
  <2>2. ASSUME NEW d \in toRecv, d.ok PROVE d.seq <= ack + W
    <3>1. \/ d \in SentPackets \/ d = FilePacket
          \/ d = UnfilledSlot \/ d = FinAckPacket
      BY <1>1 DEF IInv, ToRecvInv, GoodDatagram
    <3>2. d \in SentPackets \/ d.seq = 0
      BY <2>2, <3>1 DEF FilePacket, UnfilledSlot, FinAckPacket
    <3>3. CASE d \in SentPackets
      <4>1. PICK s \in 1..(toBeSend - 1) : d = DataPacket(s)
        BY <3>3 DEF SentPackets
      <4>2. d.seq = s
        BY <4>1 DEF DataPacket
      <4> QED BY <4>1, <4>2, <2>1, SizeAssumption DEF Base
    <3> QED BY <3>2, <3>3, <2>1, SizeAssumption
  <2> QED BY <2>1, <2>2 DEF WindowsAgree
<1> QED BY <1>1, Invariance, PTL

\* The ring of queue.h holds the packets of the send window in order and the
\* counters agree (queue.h 22-38, sendfile.cpp 27-31).
THEOREM RingIsWindow == Spec => []RingHoldsWindow
<1>1. ASSUME IInv PROVE RingHoldsWindow
  <2>1. ASSUME NEW j \in 0..(qsize - 1)
        PROVE  /\ slot[At(front, j)].seq = Base + j
               /\ slot[At(front, j)].data = Base + j
    <3>1. slot[At(front, j)] = DataPacket(Base + j)
      BY <1>1 DEF IInv, SenderInv
    <3> QED BY <3>1 DEF DataPacket
  <2> QED BY <1>1, <2>1 DEF IInv, SenderInv, RingHoldsWindow
<1> QED BY <1>1, Invariance, PTL

\* Nobody leaves the data loop before the whole file is in the output file
\* (recvfile.cpp 148, sendfile.cpp 332).
THEOREM CloseIsComplete == Spec => []ClosedMeansComplete
<1>1. IInv => ClosedMeansComplete
  BY DEF IInv, ReceiverInv, AgreementInv, ClosedMeansComplete
<1> QED BY <1>1, Invariance, PTL

\* The output file is named after the path and no data is sent before the
\* receiver has it (recvfile.cpp 92-111, sendfile.cpp 275).
THEOREM PathNamesTheFile == Spec => []NamedByThePath
<1>1. IInv => NamedByThePath
  BY DEF IInv, ReceiverInv, AgreementInv, NamedByThePath
<1> QED BY <1>1, Invariance, PTL

-----------------------------------------------------------------------------
(* What was reported ahead of a gap. *)

LEMMA ReportedDelivered ==
    ASSUME IInv
    PROVE  /\ Reported \subseteq Delivered /\ Delivered \subseteq Nat
           /\ ack + 1 \notin Delivered
           /\ ack \in Nat /\ Base \in Int /\ Base <= ack + 1
<1>1. /\ ack \in Nat /\ toBeSend \in Nat /\ qsize \in Nat
      /\ \A n \in list : n.seq \in Nat /\ n.seq > ack + 1
  BY DEF IInv, TypeOK, SenderTypeOK, ReceiverTypeOK, ReceiverInv
<1>2. Delivered \subseteq Nat /\ ack + 1 \notin Delivered
  BY <1>1 DEF Delivered, Seqs
<1>3. ASSUME NEW a \in toSend, ~IsFin(a), a.last < a.ack PROVE a.ack \in Delivered
  <2>1. a.last \in Nat /\ a.ack \in Delivered \cup {0}
    BY <1>3 DEF IInv, ToSendInv, GoodAck, AckPacket
  <2> QED BY <2>1, <1>3
<1>4. \A j \in 0..(qsize - 1) : isAck[At(front, j)] => Base + j \in Delivered
  BY DEF IInv, AgreementInv
<1>5. Reported \subseteq Delivered
  BY <1>3, <1>4 DEF Reported
<1> QED BY <1>1, <1>2, <1>5 DEF IInv, AgreementInv, Base

LEMMA NextInOrderMissing ==
    IInv => /\ Reported \subseteq Delivered /\ Delivered \subseteq Nat
            /\ ack + 1 \notin Delivered
BY ReportedDelivered

LEMMA NextInOrderMissingAfter ==
    ASSUME IInv'
    PROVE  /\ Reported' \subseteq Delivered' /\ Delivered' \subseteq Nat
           /\ ack' + 1 \notin Delivered'
<1>1. (IInv => /\ Reported \subseteq Delivered /\ Delivered \subseteq Nat
               /\ ack + 1 \notin Delivered)'
  BY NextInOrderMissing, PTL
<1> QED BY <1>1

\* A step of the sender: what has to be shown of it.
LEMMA GapSenderMove ==
    ASSUME GapInv, toSend' \subseteq toSend, Base' \notin Reported,
           \A j \in 0..(qsize' - 1) : isAck'[At(front', j)] => Base' + j \in Reported
    PROVE  GapInv'
<1>1. \A a \in toSend' : ~IsFin(a) /\ a.last < a.ack => a.ack \in Reported
  BY DEF Reported
<1>2. Reported' \subseteq Reported
  BY <1>1 DEF Reported
<1> QED BY <1>2 DEF GapInv

\* A sender that leaves the window and its marks as they were.
LEMMA GapQuietStep ==
    ASSUME GapInv, toSend' \subseteq toSend,
           UNCHANGED <<toBeSend, front, qsize, isAck>>
    PROVE  GapInv'
<1>1. Base' = Base /\ Base \notin Reported
  BY DEF Base, GapInv
<1>2. \A j \in 0..(qsize - 1) : isAck[At(front, j)] => Base + j \in Reported
  BY DEF Reported
<1> QED BY <1>1, <1>2, GapSenderMove

\* An ack that marks a packet of the window reports it ahead of a gap.
LEMMA MarkedIsReported ==
    ASSUME IInv, NEW a \in toSend, a.isFin # FIN, a.last < a.ack, NEW f, NEW n,
           NEW j \in 0..(qsize - 1), Marked(f, n, a)[At(front, j)]
    PROVE  Base + j \in Reported
<1>1. At(front, j) \in Slots
  BY AtWraps, SizeAssumption DEF IInv, TypeOK, SenderTypeOK
<1>2. isAck[At(front, j)] \/ slot[At(front, j)].seq = a.ack
  BY <1>1 DEF Marked
<1>3. slot[At(front, j)].seq = Base + j
  <2>1. slot[At(front, j)] = DataPacket(Base + j)
    BY DEF IInv, SenderInv
  <2> QED BY <2>1 DEF DataPacket
<1>4. ~IsFin(a)
  OBVIOUS
<1> QED BY <1>2, <1>3, <1>4 DEF Reported

\* Outside the window an ack is below it.
LEMMA GapRepeatedStep ==
    ASSUME IInv, GapInv, NEW a \in toSend, AckCounted(a) \/ FastRetransmit(a)
    PROVE  GapInv'
<1>1. /\ a.isFin # FIN /\ ~InWindow(a) /\ toSend' \subseteq toSend
      /\ isAck' = Marked(front, qsize, a)
      /\ UNCHANGED <<toBeSend, front, qsize>>
  BY LeftSubset DEF AckCounted, FastRetransmit
<1>2. Base' = Base /\ Base \notin Reported
  BY <1>1 DEF Base, GapInv
<1>3. ASSUME NEW j \in 0..(qsize - 1), isAck'[At(front, j)] PROVE Base + j \in Reported
  <2>1. /\ a \in AckPacket /\ a.last \in Nat /\ a.ack \in Nat /\ a.last <= ack
        /\ ack < toBeSend /\ ack \in Nat /\ toBeSend \in Nat /\ qsize \in Nat
        /\ Base = toBeSend - qsize /\ front \in Slots
    BY <1>1 DEF IInv, TypeOK, SenderTypeOK, ReceiverTypeOK, ReceiverInv, ToSendInv,
                GoodAck, AckPacket, Base
  <2>2. At(front, 0) = front /\ At(front, j) \in Slots
    <3>1. j \in 0..W /\ 0 \in 0..W /\ W \in Nat /\ front \in 0..(W - 1)
      BY <2>1, SizeAssumption DEF IInv, TypeOK, SenderTypeOK, Slots
    <3> QED BY <2>1, <3>1, AtWraps
  <2>3. slot[front].seq = Base
    <3>1. 0 \in 0..(qsize - 1) /\ Base + 0 = Base
      BY <1>3, <2>1
    <3>2. slot[At(front, 0)] = DataPacket(Base + 0)
      BY <3>1 DEF IInv, SenderInv
    <3> QED BY <3>1, <3>2, <2>2 DEF DataPacket
  <2>4. a.last < Base
    BY <1>1, <2>1, <2>3 DEF InWindow
  <2>5. CASE a.last < a.ack
    BY <1>1, <1>3, <2>5, MarkedIsReported
  <2>6. CASE ~(a.last < a.ack)
    <3>1. ~(a.ack >= slot[front].seq)
      BY <2>1, <2>3, <2>4, <2>6
    <3>2. isAck[At(front, j)]
      BY <1>1, <1>3, <2>2, <3>1 DEF Marked
    <3> QED BY <3>2 DEF Reported
  <2> QED BY <2>5, <2>6
<1> QED BY <1>1, <1>2, <1>3, GapSenderMove

\* A cumulative ack frees what it covers and no more: what comes next was never
\* reported, so that the search for marked slots at the front (sendfile.cpp
\* 361-365) finds none.
LEMMA GapAdvancesStep ==
    ASSUME IInv, GapInv, NEW a \in toSend, AckAdvances(a)
    PROVE  GapInv'
<1> DEFINE k == Freed(a.last)
           f == At(front, k)
           n == qsize - k
           marks == IF OutOfOrder(f, a) THEN Marked(f, n, a) ELSE isAck
           m == IF OutOfOrder(f, a) THEN MarkedRun(f, n, marks) ELSE 0
<1>1. /\ a.isFin # FIN /\ InWindow(a) /\ toSend' \subseteq toSend
      /\ front' = At(f, m) /\ qsize' = qsize - k - m /\ isAck' = marks
      /\ toBeSend' = toBeSend
  BY LeftSubset DEF AckAdvances
<1>2. /\ front \in Slots /\ qsize \in Nat /\ qsize <= W /\ W \in Nat
      /\ toBeSend \in Nat /\ a.last \in Nat /\ a \in AckPacket
      /\ Base = toBeSend - qsize
  BY SizeAssumption DEF IInv, TypeOK, SenderTypeOK, AckPacket, Base
<1>3. k \in 1..qsize /\ a.last = Base + k - 1
  BY <1>1, <1>2, FreedValue DEF IInv
<1>4. m \in 0..n /\ \A j \in 0..(m - 1) : marks[At(f, j)]
  BY <1>2, <1>3, MarkedRunFact
<1>5. ~IsFin(a)
  BY <1>1
<1>6. Base + k \notin Reported
  BY <1>2, <1>3, <1>5 DEF GapInv
<1>7. \A j \in 0..(qsize - 1) : marks[At(front, j)] => Base + j \in Reported
  <2> TAKE j \in 0..(qsize - 1)
  <2>1. CASE OutOfOrder(f, a)
    BY <1>1, <2>1, MarkedIsReported DEF OutOfOrder
  <2>2. CASE ~OutOfOrder(f, a)
    BY <2>2 DEF Reported
  <2> QED BY <2>1, <2>2
<1> HIDE DEF k, f, n, m, marks
<1>8. n = qsize - k /\ f = At(front, k)
  BY DEF n, f
<1>9. m = 0
  <2>1. SUFFICES ASSUME m > 0 PROVE FALSE
    BY <1>2, <1>3, <1>4, <1>8
  <2>2. k \in 0..(qsize - 1) /\ 0 \in 0..(m - 1) /\ f \in Slots
    BY <2>1, <1>2, <1>3, <1>4, <1>8, AtWraps
  <2>3. At(f, 0) = f
    BY <2>2, <1>2, AtWraps DEF Slots
  <2> QED BY <2>2, <2>3, <1>4, <1>6, <1>7, <1>8
<1>10. /\ qsize' = qsize - k /\ Base' = Base + k
       /\ \A j \in 0..(qsize - k - 1) :
             /\ At(front', j) = At(front, k + j) /\ k + j \in 0..(qsize - 1)
             /\ Base' + j = Base + (k + j)
  <2>1. qsize' = qsize - k /\ Base' = Base + k
    BY <1>1, <1>2, <1>3, <1>9 DEF Base
  <2>2. f \in Slots
    BY <1>2, <1>3, <1>8, AtWraps
  <2>3. At(f, 0) = f
    BY <2>2, <1>2, AtWraps DEF Slots
  <2>4. front' = f
    BY <2>3, <1>1, <1>9
  <2> QED BY <2>1, <2>4, <1>2, <1>3, <1>8, AtAdds
<1>11. \A j \in 0..(qsize' - 1) : isAck'[At(front', j)] => Base' + j \in Reported
  BY <1>1, <1>7, <1>10
<1> QED BY <1>1, <1>6, <1>10, <1>11, GapSenderMove

LEMMA GapSendDataStep ==
    ASSUME IInv, GapInv, SendData
    PROVE  GapInv'
<1>1. /\ usable > 0 /\ isAck' = [isAck EXCEPT ![rear] = FALSE]
      /\ toBeSend' = toBeSend + 1 /\ qsize' = qsize + 1
      /\ UNCHANGED <<toSend, front>>
  BY DEF SendData, MaySend, Unmark
<1>2. /\ front \in Slots /\ qsize \in Nat /\ W \in Nat /\ usable \in Nat
      /\ usable + qsize = W /\ rear = At(front, qsize) /\ rear \in Slots
      /\ toBeSend \in Nat /\ isAck \in [Slots -> BOOLEAN]
  BY SizeAssumption DEF IInv, TypeOK, SenderTypeOK, SenderInv
<1>3. Base' = Base /\ Base \notin Reported
  BY <1>1, <1>2 DEF Base, GapInv
<1>4. ASSUME NEW j \in 0..(qsize' - 1), isAck'[At(front, j)] PROVE Base + j \in Reported
  <2>1. j # qsize
    BY <1>1, <1>2, <1>4
  <2>2. j \in 0..(qsize - 1)
    BY <2>1, <1>1, <1>2
  <2>3. isAck[At(front, j)]
    BY <2>2, <1>1, <1>2, <1>4, AtWraps
  <2> QED BY <2>2, <2>3 DEF Reported
<1> QED BY <1>1, <1>3, <1>4, GapSenderMove

\* A step of the receiver: its acks end where the run of packets ends, and what
\* they report lies behind a gap.
LEMMA GapReceiverMove ==
    ASSUME IInv, GapInv, IInv', UNCHANGED senderVars,
           \A a \in toSend' : \/ a \in toSend
                              \/ IsFin(a)
                              \/ a.last = ack' /\ (a.last < a.ack => a.ack > ack + 1)
    PROVE  GapInv'
<1>1. UNCHANGED <<toBeSend, front, qsize, isAck>> /\ Base' = Base
  BY DEF senderVars, Base
<1>2. /\ Reported \subseteq Delivered /\ Delivered \subseteq Nat
      /\ ack \in Nat /\ Base \in Int /\ Base <= ack + 1
  BY ReportedDelivered
<1>3. Reported' \subseteq Delivered' /\ ack' + 1 \notin Delivered'
  BY NextInOrderMissingAfter
<1>4. ASSUME NEW s \in Reported'
      PROVE  s \in Reported \/ s > ack + 1
  <2>1. CASE \E a \in toSend' : ~IsFin(a) /\ a.last < a.ack /\ s = a.ack
    BY <2>1 DEF Reported
  <2>2. CASE \E j \in 0..(qsize - 1) : isAck[At(front, j)] /\ s = Base + j
    BY <2>2 DEF Reported
  <2> QED BY <2>1, <2>2, <1>1 DEF Reported
<1>5. ASSUME NEW s \in Reported' PROVE s # Base'
  BY <1>1, <1>2, <1>4 DEF GapInv
<1>6. ASSUME NEW s \in Reported', NEW b \in toSend', ~IsFin(b)
      PROVE  b.last + 1 # s
  <2>1. CASE b \in toSend
    <3>1. b.last <= ack /\ b.last \in Nat
      BY <2>1, <1>6 DEF IInv, ToSendInv, GoodAck, AckPacket
    <3> QED BY <2>1, <3>1, <1>2, <1>4, <1>6 DEF GapInv
  <2>2. CASE b.last = ack'
    BY <2>2, <1>3
  <2> QED BY <2>1, <2>2, <1>6
<1> QED BY <1>5, <1>6 DEF GapInv

\* What the data loop sends: a reply, and at its end the FIN.
LEMMA ReplyFact ==
    ASSUME NEW r, ReplyAndLoop(r)
    PROVE  \A a \in toSend' : a \in toSend \/ a = r \/ a = FinPacket
BY CarrySubset DEF ReplyAndLoop

\* A packet taken into the list is written at once or stays in the list.
LEMMA BufferedArrives ==
    ASSUME IInv, NEW d \in toRecv, RecvBuffered(d)
    PROVE  d.seq \in Delivered' /\ ack \in Nat /\ ack' \in Nat /\ ack <= ack'
<1> DEFINE l == Add(list, d)
           m == RunEnd(l, ack)
<1>1. list' = {n \in l : n.seq \notin (ack + 1)..m} /\ ack' = m /\ Expected(d)
      /\ rpc = "data" /\ d.ok
  BY DEF RecvBuffered
<1>2. ack \in Nat /\ W \in Nat /\ d.seq \in Nat /\ ack < d.seq /\ d.seq <= ack + W
  BY <1>1, SizeAssumption, ExpectedPacket
     DEF IInv, TypeOK, ReceiverTypeOK, Expected
<1>3. \A n \in list : n.seq \in Nat /\ n.seq <= ack + W
  BY DEF IInv, TypeOK, ReceiverTypeOK, ReceiverInv
<1>4. \E n \in l : n.seq = d.seq
  <2> DEFINE x == [seq |-> d.seq, data |-> d.data]
  <2>1. x.seq = d.seq
    OBVIOUS
  <2>2. CASE d.seq \in Seqs(list)
    BY <2>2 DEF Add, Seqs
  <2>3. CASE d.seq \notin Seqs(list)
    <3>1. l = list \cup {x}
      BY <2>1, <2>3 DEF Add
    <3> HIDE DEF x, l
    <3> QED BY <2>1, <3>1
  <2> QED BY <2>2, <2>3
<1>5. \A s \in Seqs(l) : s \in Nat /\ s <= ack + W
  <2>1. \A n \in l : n \in list \/ n = [seq |-> d.seq, data |-> d.data]
    BY DEF Add
  <2> HIDE DEF l
  <2> QED BY <2>1, <1>2, <1>3 DEF Seqs
<1>6. m \in ack..(ack + W)
  BY <1>2, <1>5, RunEndFact
<1> HIDE DEF l, m
<1>7. d.seq \in 1..m \/ d.seq \in Seqs(list')
  BY <1>1, <1>2, <1>4, <1>6 DEF Seqs
<1>8. ack' \in Nat /\ ack <= ack'
  BY <1>1, <1>2, <1>6
<1> QED BY <1>1, <1>2, <1>7, <1>8 DEF Delivered, Seqs

LEMMA GapReceiverStep ==
    ASSUME IInv, GapInv, IInv', NEW d \in toRecv, ReceiverRecv(d), UNCHANGED senderVars
    PROVE  GapInv'
<1>0. ack \in Nat /\ IsFin(FinPacket)
  BY DEF IInv, TypeOK, ReceiverTypeOK, FinPacket
<1>1. CASE RecvFileName(d)
  <2>1. toSend = {} /\ ack' = ack /\ d.seq = 0 /\ ack = 0
    <3>1. rpc = "name" /\ d.ok /\ ack' = ack
      BY <1>1 DEF RecvFileName
    <3>2. toSend = {} /\ ack = 0 /\ spc = "name" /\ toBeSend = 1
      BY <3>1 DEF IInv, ToSendInv, GoodAck, ReceiverInv, AgreementInv, SenderInv
    <3>3. d \in {FilePacket, UnfilledSlot}
      BY <3>2 DEF IInv, ToRecvInv, GoodDatagram, SentPackets
    <3> QED BY <3>1, <3>2, <3>3 DEF FilePacket, UnfilledSlot
  <2>2. \A a \in toSend' : a.last = 0 /\ a.ack = 0
    BY <2>1, <1>1, CarrySubset DEF RecvFileName
  <2> QED BY <2>1, <2>2, GapReceiverMove
<1>2. CASE RecvFileNameCorrupt(d) \/ RecvFinAck(d) \/ RecvNotFinAck(d)
  <2>1. toSend' = toSend
    BY <1>2 DEF RecvFileNameCorrupt, RecvFinAck, RecvNotFinAck
  <2> QED BY <2>1, GapReceiverMove
<1>3. CASE RecvIgnored(d) \/ RecvCorrupt(d)
  <2>1. ack' = ack /\ ReplyAndLoop(FilledAck(0, ack))
    BY <1>3 DEF RecvIgnored, RecvCorrupt
  <2>2. \A a \in toSend' : a \in toSend \/ IsFin(a) \/ a = FilledAck(0, ack)
    BY <2>1, <1>0, ReplyFact
  <2> QED BY <2>1, <2>2, <1>0, GapReceiverMove DEF FilledAck
<1>4. CASE RecvInOrder(d)
  <2>1. ack' = ack + 1 /\ ReplyAndLoop(FilledAck(ack', ack'))
    BY <1>4 DEF RecvInOrder
  <2>2. \A a \in toSend' : a \in toSend \/ IsFin(a) \/ a = FilledAck(ack', ack')
    BY <2>1, <1>0, ReplyFact
  <2> QED BY <2>1, <2>2, <1>0, GapReceiverMove DEF FilledAck
<1>5. CASE RecvBuffered(d)
  <2>1. ReplyAndLoop(FilledAck(d.seq, ack')) /\ Expected(d) /\ rpc = "data" /\ d.ok
    BY <1>5 DEF RecvBuffered
  <2>2. d.seq \in Nat /\ ack < d.seq /\ ack' \in Nat
    BY <2>1 DEF Expected, IInv, ToRecvInv, GoodDatagram, Packet, TypeOK, ReceiverTypeOK
  <2>3. d.seq \in Delivered' /\ ack \in Nat /\ ack' \in Nat /\ ack <= ack'
    BY <1>5, BufferedArrives
  <2>4. ack' < d.seq => d.seq > ack + 1
    BY <2>2, <2>3, NextInOrderMissingAfter
  <2>5. \A a \in toSend' : a \in toSend \/ IsFin(a) \/ a = FilledAck(d.seq, ack')
    BY <2>1, <1>0, ReplyFact
  <2> QED BY <2>4, <2>5, GapReceiverMove DEF FilledAck
<1> QED BY <1>1, <1>2, <1>3, <1>4, <1>5 DEF ReceiverRecv

LEMMA GapSenderStep ==
    ASSUME IInv, GapInv, SenderStep
    PROVE  GapInv'
<1>1. CASE SendFileName \/ TimeoutResend \/ FinTimeout \/ SenderExit
  BY <1>1, GapQuietStep
     DEF SendFileName, TimeoutResend, FinTimeout, SenderExit, senderVars, windowVars, netVars
<1>2. CASE SendData
  BY <1>2, GapSendDataStep
<1>3. ASSUME NEW a \in toSend, SenderRecv(a) PROVE GapInv'
  <2>1. CASE \/ RecvNameAck(a) \/ AckCorrupt(a) \/ RecvFin(a)
             \/ FinAgain(a) \/ FinIgnored(a)
    <3>1. toSend' \subseteq toSend /\ UNCHANGED windowVars
      BY <2>1, LeftSubset
         DEF RecvNameAck, AckCorrupt, RecvFin, FinAgain, FinIgnored, senderVars,
             windowVars
    <3> QED BY <3>1, GapQuietStep DEF windowVars
  <2>2. CASE AckAdvances(a)
    BY <2>2, GapAdvancesStep
  <2>3. CASE AckCounted(a) \/ FastRetransmit(a)
    BY <2>3, GapRepeatedStep
  <2> QED BY <1>3, <2>1, <2>2, <2>3 DEF SenderRecv
<1> QED BY <1>1, <1>2, <1>3 DEF SenderStep, SenderNext

LEMMA NextGapInv ==
    ASSUME IInv, GapInv, IInv', [Next]_vars
    PROVE  GapInv'
<1>1. CASE SenderStep
  BY <1>1, GapSenderStep
<1>2. CASE ReceiverStep
  <2>1. CASE ResendFin
    <3>1. \A a \in toSend' : a \in toSend \/ a = FinPacket
      BY <2>1, CarrySubset DEF ResendFin
    <3>2. IsFin(FinPacket)
      BY DEF FinPacket
    <3> QED BY <1>2, <3>1, <3>2, GapReceiverMove DEF ReceiverStep
  <2>2. CASE \E d \in toRecv : ReceiverRecv(d)
    BY <1>2, <2>2, GapReceiverStep DEF ReceiverStep
  <2> QED BY <1>2, <2>1, <2>2 DEF ReceiverStep, ReceiverNext
<1>3. CASE UNCHANGED vars
  BY <1>3, GapQuietStep DEF vars, netVars, senderVars
<1> QED BY <1>1, <1>2, <1>3 DEF Next, Terminated

LEMMA InitGapInv ==
    ASSUME Init
    PROVE  GapInv
<1>1. toSend = {} /\ qsize = 0
  BY DEF Init, NetInit, SenderInit
<1>2. 0..(qsize - 1) = {}
  BY <1>1
<1> QED BY <1>1, <1>2 DEF GapInv, Reported

\* Every cumulative ack under way ends at a packet that nobody reported ahead
\* of a gap (recvfile.cpp 168-194, sendfile.cpp 355-377).
THEOREM AcksEndAtGaps == Spec => []GapInv
<1>1. IInv /\ GapInv /\ IInv' /\ [Next]_vars => GapInv'
  BY NextGapInv
<1>2. Init => GapInv
  BY InitGapInv
<1> QED BY <1>1, <1>2, Invariance, PTL DEF Spec

\* The front of the send window is never marked, so the timeout always sends it
\* again (sendfile.cpp 419) and the transfer cannot stop at it.
THEOREM FrontStaysUnmarked == Spec => []FrontUnmarked
<1>1. ASSUME IInv, GapInv PROVE FrontUnmarked
  <2>1. SUFFICES ASSUME qsize > 0, isAck[front] PROVE FALSE
    BY DEF FrontUnmarked
  <2>2. /\ qsize \in Nat /\ toBeSend \in Nat /\ W \in Nat /\ front \in 0..(W - 1)
    BY <1>1, SizeAssumption DEF IInv, TypeOK, SenderTypeOK, Slots
  <2>3. At(front, 0) = front /\ 0 \in 0..(qsize - 1) /\ Base + 0 = Base
    BY <2>1, <2>2, AtWraps DEF Slots, Base
  <2>4. Base + 0 \in Reported
    BY <2>1, <2>3 DEF Reported
  <2> QED BY <1>1, <2>3, <2>4 DEF GapInv
<1> QED BY <1>1, Invariance, AcksEndAtGaps, PTL

LEMMA ExitStep ==
    ASSUME FinLike = {}, ~Mangle, IInv, ExitAfterFinAck, [Next]_vars
    PROVE  ExitAfterFinAck'
<1>1. spc \in {"fin", "exit"} => spc' \in {"fin", "exit"}
  <2>1. ASSUME spc = "fin" PROVE spc' \in {"fin", "exit"}
    BY <2>1 DEF Next, SenderStep, ReceiverStep, Terminated, SenderNext, SenderRecv,
        SendFileName, RecvNameAck, SendData, MaySend, MayRecv, AckAdvances, AckCounted,
        FastRetransmit, AckCorrupt, RecvFin, TimeoutResend, FinAgain, FinIgnored,
        FinTimeout, SenderExit, senderVars, vars
  <2>2. ASSUME spc = "exit" PROVE spc' = "exit"
    BY <2>2 DEF Next, SenderStep, ReceiverStep, Terminated, SenderNext, SenderRecv,
        SendFileName, RecvNameAck, SendData, MaySend, MayRecv, AckAdvances, AckCounted,
        FastRetransmit, AckCorrupt, RecvFin, TimeoutResend, FinAgain, FinIgnored,
        FinTimeout, SenderExit, senderVars, vars
  <2> QED BY <2>1, <2>2
<1>2. CASE rpc = "exit"
  BY <1>1, <1>2 DEF ExitAfterFinAck
<1>3. CASE \E d \in toRecv : RecvFinAck(d)
  <2>1. PICK d \in toRecv : ReadsAsFinAck(d)
    BY <1>3 DEF RecvFinAck
  <2>2. d.data = FinWord
    BY <2>1 DEF ReadsAsFinAck
  <2>3. d \notin SentPackets \cup {FilePacket, UnfilledSlot}
    <3>1. ASSUME d \in SentPackets PROVE FALSE
      <4>1. PICK s \in 1..(toBeSend - 1) : d = DataPacket(s)
        BY <3>1 DEF SentPackets
      <4>2. s \in Nat /\ s <= N /\ d.data = s
        BY <4>1, SizeAssumption DEF IInv, TypeOK, SenderTypeOK, SenderInv, DataPacket
      <4> QED BY <2>2, <4>2, SizeAssumption DEF FinWord
    <3> QED BY <2>2, <3>1, SizeAssumption
            DEF FilePacket, UnfilledSlot, Path, Blank, FinWord
  <2>4. spc \in {"fin", "exit"}
    BY <2>3 DEF IInv, ToRecvInv, GoodDatagram
  <2> QED BY <1>1, <2>4 DEF ExitAfterFinAck
<1>4. CASE rpc # "exit" /\ ~(\E d \in toRecv : RecvFinAck(d))
  <2>1. rpc' # "exit"
    <3>1. CASE SenderStep \/ Terminated \/ UNCHANGED vars
      BY <1>4, <3>1 DEF SenderStep, Terminated, vars, receiverVars
    <3>2. CASE ReceiverStep
      BY <1>4, <3>2 DEF ReceiverStep, ReceiverNext, ReceiverRecv, ResendFin,
          RecvFileName, RecvFileNameCorrupt, RecvIgnored, RecvInOrder, RecvBuffered,
          RecvCorrupt, RecvNotFinAck, ReplyAndLoop, receiverVars
    <3> QED BY <3>1, <3>2 DEF Next
  <2> QED BY <2>1 DEF ExitAfterFinAck
<1> QED BY <1>2, <1>3, <1>4

\* On a network that does not corrupt, and with no block that starts with the
\* bytes 2, 0, recvfile exits only when sendfile has answered a FIN
\* (recvfile.cpp 219-222).
THEOREM ExitNeedsFinAck ==
    ASSUME FinLike = {}, ~Mangle
    PROVE  Spec => []ExitAfterFinAck
<1>1. Init => ExitAfterFinAck
  BY DEF Init, ReceiverInit, ExitAfterFinAck
<1>2. IInv /\ ExitAfterFinAck /\ [Next]_vars => ExitAfterFinAck'
  BY ExitStep
<1> QED BY <1>1, <1>2, Invariance, PTL DEF Spec

-----------------------------------------------------------------------------
(* What a slot holds before it is filled anew. *)

\* A slot j behind rear holds the packet that was sent j packets ago, or none.
AgeInv ==
    \A i \in Slots : \A j \in 1..W :
        At(i, j) = rear => slot[i].seq \in {toBeSend - j, 0}

LEMMA InitAgeInv ==
    ASSUME Init
    PROVE  AgeInv
BY DEF Init, SenderInit, AgeInv, UnfilledSlot

LEMMA AgeSendDataStep ==
    ASSUME IInv, AgeInv, SendData
    PROVE  AgeInv'
<1>1. /\ slot' = [slot EXCEPT ![rear] = NextPacket]
      /\ toBeSend' = toBeSend + 1 /\ rear' = At(rear, 1)
  BY DEF SendData
<1>2. /\ rear \in Slots /\ W \in Nat \ {0} /\ toBeSend \in Nat
      /\ slot \in [Slots -> Packet]
  BY SizeAssumption DEF IInv, TypeOK, SenderTypeOK
<1>3. NextPacket.seq = toBeSend
  BY DEF NextPacket
<1>4. SUFFICES ASSUME NEW i \in Slots, NEW j \in 1..W, At(i, j) = rear'
               PROVE  slot'[i].seq \in {toBeSend' - j, 0}
  BY DEF AgeInv
<1>5. /\ At(i, j) = (IF i + j < W THEN i + j ELSE i + j - W)
      /\ At(rear, 1) = (IF rear + 1 < W THEN rear + 1 ELSE rear + 1 - W)
  BY <1>2, AtWraps
<1>6. i \in 0..(W - 1) /\ rear \in 0..(W - 1)
  BY <1>2 DEF Slots
<1>7. CASE i = rear
  <2>1. j = 1
    BY <1>1, <1>2, <1>4, <1>5, <1>6, <1>7
  <2> QED BY <2>1, <1>1, <1>2, <1>3, <1>7
<1>8. CASE i # rear
  <2>1. j - 1 \in 1..W /\ j - 1 \in 0..W
    BY <1>1, <1>2, <1>4, <1>5, <1>6, <1>8
  <2>2. At(i, j - 1) = IF i + (j - 1) < W THEN i + (j - 1) ELSE i + (j - 1) - W
    BY <2>1, AtWraps
  <2>3. At(i, j - 1) = rear
    BY <2>1, <2>2, <1>1, <1>2, <1>4, <1>5, <1>6, <1>8
  <2>4. slot[i].seq \in {toBeSend - (j - 1), 0}
    BY <2>1, <2>3 DEF AgeInv
  <2>5. toBeSend - (j - 1) = toBeSend + 1 - j
    BY <1>2
  <2> QED BY <2>4, <2>5, <1>1, <1>2, <1>8
<1> QED BY <1>7, <1>8

\* Only SendData fills slots and moves rear.
LEMMA FillsOnlySending ==
    ASSUME [Next]_vars
    PROVE  SendData \/ UNCHANGED <<slot, rear, toBeSend>>
<1>1. CASE SenderStep
  BY <1>1 DEF SenderStep, SenderNext, SenderRecv, SendFileName, RecvNameAck, AckAdvances,
      AckCounted, FastRetransmit, AckCorrupt, RecvFin, TimeoutResend, FinAgain,
      FinIgnored, FinTimeout, SenderExit, senderVars, windowVars
<1>2. CASE ReceiverStep \/ Terminated \/ UNCHANGED vars
  BY <1>2 DEF ReceiverStep, Terminated, vars, senderVars, windowVars
<1> QED BY <1>1, <1>2 DEF Next

LEMMA NextAgeInv ==
    ASSUME IInv, AgeInv, [Next]_vars
    PROVE  AgeInv'
<1>1. CASE UNCHANGED <<slot, rear, toBeSend>>
  BY <1>1 DEF AgeInv
<1> QED BY <1>1, FillsOnlySending, AgeSendDataStep

LEMMA ReuseStep ==
    ASSUME IInv, AgeInv, [Next]_vars, NEW i \in Slots
    PROVE  SlotReused(i)
<1>1. CASE UNCHANGED slot
  BY <1>1 DEF SlotReused
<1>2. CASE SendData
  <2>1. usable > 0 /\ slot' = [slot EXCEPT ![rear] = NextPacket]
    BY <1>2 DEF SendData, MaySend
  <2>2. /\ rear \in Slots /\ slot \in [Slots -> Packet] /\ W \in Nat \ {0}
        /\ qsize \in Nat /\ usable \in Nat /\ usable + qsize = W
        /\ toBeSend \in Nat /\ ack \in Nat /\ toBeSend - qsize <= ack + 1
    BY SizeAssumption DEF IInv, TypeOK, SenderTypeOK, ReceiverTypeOK, SenderInv,
                          AgreementInv, Base
  <2>3. At(rear, W) = rear
    <3>1. At(rear, W) = IF rear + W < W THEN rear + W ELSE rear + W - W
      BY <2>2, AtWraps
    <3> QED BY <3>1, <2>2 DEF Slots
  <2>4. slot[rear].seq \in {toBeSend - W, 0}
    BY <2>2, <2>3 DEF AgeInv
  <2>5. toBeSend - W <= ack /\ 0 <= ack
    BY <2>1, <2>2
  <2>6. slot[rear].seq <= ack
    BY <2>4, <2>5
  <2> QED BY <2>1, <2>2, <2>6 DEF SlotReused
<1> QED BY <1>1, <1>2, FillsOnlySending

\* A slot is filled anew only when the receiver has written its packet
\* (queue.h 22-26, sendfile.cpp 298-319): W packets ago is below the window.
THEOREM ReuseIsSafe == Spec => SlotReuseIsSafe
<1>1. Init => AgeInv
  BY InitAgeInv
<1>2. IInv /\ AgeInv /\ [Next]_vars => AgeInv'
  BY NextAgeInv
<1>3. IInv /\ AgeInv /\ [Next]_vars => [\A i \in Slots : SlotReused(i)]_vars
  BY ReuseStep
<1> QED BY <1>1, <1>2, <1>3, Invariance, PTL DEF Spec, SlotReuseIsSafe

-----------------------------------------------------------------------------
(***************************************************************************)
(* Transfer implements FileTransfer: whatever the network does, what        *)
(* recvfile writes grows as a prefix of the file, is complete when it sends *)
(* its FIN, and only then does sendfile leave its data loop.                *)
(***************************************************************************)

(* The loop condition of recvfile.  IInv says what may have been received;  *)
(* LoopInv adds that the receiver notices when it has everything.           *)

LEMMA LoopCondition ==
    ASSUME rpc = "data", NEW reply, ReplyAndLoop(reply)
    PROVE  \/ rpc' = "data" /\ (endFile' = 0 \/ list' # {})
           \/ rpc' = "fin" /\ endFile' # 0 /\ list' = {}
<1>1. CASE endFile' = 0 \/ list' # {}
  BY <1>1 DEF ReplyAndLoop
<1>2. CASE endFile' # 0 /\ list' = {}
  BY <1>2 DEF ReplyAndLoop
<1> QED BY <1>1, <1>2

\* The last packet is the only one that sets endFile, and it always does.
LEMMA LastPacketIsEnd ==
    ASSUME IInv, NEW d \in toRecv, rpc = "data", d.ok, Expected(d), d.seq = N
    PROVE  d.isEnd = 1
<1>1. d = DataPacket(d.seq)
  BY ExpectedPacket
<1>2. N \in Nat
  BY SizeAssumption
<1> QED BY <1>1, <1>2 DEF DataPacket

\* What is delivered after a packet was buffered was delivered before, or is
\* that packet.
LEMMA BufferedDelivers ==
    ASSUME IInv, NEW d \in toRecv, RecvBuffered(d)
    PROVE  \A s \in Delivered' : s \in Delivered \/ s = d.seq
<1> DEFINE l == Add(list, d)
           m == RunEnd(l, ack)
<1>1. /\ rpc = "data" /\ d.ok /\ Expected(d)
      /\ list' = {n \in l : n.seq \notin (ack + 1)..m} /\ ack' = m
  BY DEF RecvBuffered
<1>2. ack \in Nat /\ W \in Nat /\ d.seq \in Nat /\ d.seq <= ack + W
  BY <1>1, SizeAssumption, ExpectedPacket
     DEF IInv, TypeOK, ReceiverTypeOK, Expected
<1>3. \A n \in list : n.seq \in Nat /\ n.seq <= ack + W
  BY DEF IInv, TypeOK, ReceiverTypeOK, ReceiverInv
<1>4. \A s \in Seqs(l) : s \in Seqs(list) \/ s = d.seq
  <2>1. \A n \in l : n \in list \/ n = [seq |-> d.seq, data |-> d.data]
    BY DEF Add
  <2> HIDE DEF l
  <2> QED BY <2>1 DEF Seqs
<1>5. \A s \in Seqs(l) : s \in Nat /\ s <= ack + W
  BY <1>2, <1>3, <1>4 DEF Seqs
<1>6. m \in ack..(ack + W) /\ \A s \in (ack + 1)..m : s \in Seqs(l)
  BY <1>2, <1>5, RunEndFact
<1> HIDE DEF l, m
<1>7. Delivered' = 1..m \cup Seqs(list')
  BY <1>1 DEF Delivered, Seqs
<1>8. \A s \in Seqs(list') : s \in Seqs(l)
  BY <1>1 DEF Seqs
<1>9. \A s \in 1..m : s \in 1..ack \/ s \in (ack + 1)..m
  BY <1>2, <1>6
<1> QED BY <1>4, <1>6, <1>7, <1>8, <1>9 DEF Delivered

LEMMA LoopSenderStep ==
    ASSUME LoopInv, UNCHANGED receiverVars
    PROVE  LoopInv'
BY DEF LoopInv, receiverVars, Delivered, Seqs

LEMMA LoopExpectedStep ==
    ASSUME IInv, LoopInv, NEW d \in toRecv, RecvInOrder(d) \/ RecvBuffered(d)
    PROVE  LoopInv'
<1>1. /\ rpc = "data" /\ d.ok /\ Expected(d)
      /\ endFile' = IF endFile = 0 THEN d.isEnd ELSE endFile
      /\ \E reply : ReplyAndLoop(reply)
  BY DEF RecvInOrder, RecvBuffered
<1>2. endFile \in 0..1
  BY DEF IInv, ReceiverInv
<1>3. \A s \in Delivered' : s \in Delivered \/ s = d.seq
  <2>1. CASE RecvInOrder(d)
    <3>1. d.seq = ack + 1 /\ ack' = ack + 1 /\ list' = list
      BY <2>1 DEF RecvInOrder
    <3>2. ack \in Nat
      BY DEF IInv, TypeOK, ReceiverTypeOK
    <3>3. \A s \in 1..(ack + 1) : s \in 1..ack \/ s = ack + 1
      BY <3>2
    <3> QED BY <3>1, <3>3 DEF Delivered, Seqs
  <2> QED BY <2>1, BufferedDelivers
<1>4. N \in Delivered' => endFile' = 1
  <2>1. CASE N \in Delivered
    BY <1>1, <2>1 DEF LoopInv
  <2>2. CASE d.seq = N
    <3>1. d.isEnd = 1
      BY <1>1, <2>2, LastPacketIsEnd
    <3> QED BY <1>1, <1>2, <3>1
  <2> QED BY <1>3, <2>1, <2>2
<1>5. rpc' = "data" => endFile' = 0 \/ list' # {}
  BY <1>1, LoopCondition
<1> QED BY <1>4, <1>5 DEF LoopInv

LEMMA LoopReceiverStep ==
    ASSUME IInv, LoopInv, ReceiverStep
    PROVE  LoopInv'
<1>1. CASE ResendFin
  BY <1>1, LoopSenderStep DEF ResendFin
<1>2. ASSUME NEW d \in toRecv, ReceiverRecv(d) PROVE LoopInv'
  <2>1. CASE RecvFileName(d)
    <3>1. /\ rpc = "name" /\ UNCHANGED <<ack, list, endFile>>
      BY <2>1 DEF RecvFileName
    <3>2. endFile = 0
      BY <3>1 DEF IInv, ReceiverInv
    <3> QED BY <3>1, <3>2 DEF LoopInv, Delivered, Seqs
  <2>2. CASE RecvFileNameCorrupt(d) \/ RecvNotFinAck(d)
    BY <2>2, LoopSenderStep DEF RecvFileNameCorrupt, RecvNotFinAck
  <2>3. CASE RecvIgnored(d) \/ RecvCorrupt(d)
    <3>1. /\ rpc = "data" /\ UNCHANGED <<ack, list, endFile>>
          /\ \E reply : ReplyAndLoop(reply)
      BY <2>3 DEF RecvIgnored, RecvCorrupt
    <3>2. rpc' = "data" => endFile' = 0 \/ list' # {}
      BY <3>1, LoopCondition
    <3> QED BY <3>1, <3>2 DEF LoopInv, Delivered, Seqs
  <2>4. CASE RecvInOrder(d) \/ RecvBuffered(d)
    BY <2>4, LoopExpectedStep
  <2>5. CASE RecvFinAck(d)
    <3>1. rpc' = "exit" /\ UNCHANGED <<ack, list, endFile>>
      BY <2>5 DEF RecvFinAck
    <3> QED BY <3>1 DEF LoopInv, Delivered, Seqs
  <2> QED BY <1>2, <2>1, <2>2, <2>3, <2>4, <2>5 DEF ReceiverRecv
<1> QED BY <1>1, <1>2 DEF ReceiverStep, ReceiverNext

\* The receiver sets endFile when the last packet arrives and leaves its data
\* loop as soon as nothing is missing (recvfile.cpp 148 and 164-166).
THEOREM LoopInvariance == Spec => []LoopInv
<1>1. ASSUME Init PROVE LoopInv
  <2>1. rpc = "name" /\ ack = 0 /\ list = {}
    BY <1>1 DEF Init, ReceiverInit
  <2>2. Delivered = {}
    BY <2>1 DEF Delivered, Seqs
  <2> QED BY <2>1, <2>2 DEF LoopInv
<1>2. ASSUME IInv, LoopInv, [Next]_vars PROVE LoopInv'
  <2>1. CASE SenderStep
    BY <1>2, <2>1, LoopSenderStep DEF SenderStep
  <2>2. CASE ReceiverStep
    BY <1>2, <2>2, LoopReceiverStep
  <2>3. CASE UNCHANGED vars
    BY <1>2, <2>3, LoopSenderStep DEF vars
  <2> QED BY <1>2, <2>1, <2>2, <2>3 DEF Next, Terminated
<1> QED BY <1>1, <1>2, Invariance, PTL DEF Spec

-----------------------------------------------------------------------------
(* Every step is a step of FileTransfer or leaves its variables alone. *)

LEMMA RefineSenderStep ==
    ASSUME IInv, SenderStep
    PROVE  Promise!Next \/ UNCHANGED Promise!vars
<1>1. UNCHANGED <<written, rpc>>
  BY DEF SenderStep, receiverVars
<1>2. CASE (spc' \in {"fin", "exit"}) = (spc \in {"fin", "exit"})
  BY <1>1, <1>2 DEF Promise!vars
<1>3. ASSUME NEW a \in toSend, RecvFin(a) PROVE Promise!Next
  <2>1. spc = "data" /\ spc' = "fin" /\ IsFin(a)
    BY <1>3 DEF RecvFin, MayRecv
  <2>2. rpc \in {"fin", "exit"}
    BY <1>3, <2>1 DEF IInv, ToSendInv, GoodAck
  <2>3. Promise!Confirm
    BY <1>1, <2>1, <2>2 DEF Promise!Confirm
  <2> QED BY <2>3 DEF Promise!Next
<1>4. \/ spc' = spc
      \/ spc = "name" /\ spc' = "data"
      \/ spc = "fin" /\ spc' = "exit"
      \/ \E a \in toSend : RecvFin(a)
  <2>1. CASE SendFileName
    BY <2>1 DEF SendFileName, senderVars
  <2>2. CASE SendData
    BY <2>2 DEF SendData
  <2>3. CASE TimeoutResend
    BY <2>3 DEF TimeoutResend, senderVars
  <2>4. CASE SenderExit
    BY <2>4 DEF SenderExit
  <2>6. CASE FinTimeout
    BY <2>6 DEF FinTimeout
  <2>5. ASSUME NEW a \in toSend, SenderRecv(a)
        PROVE  \/ spc' = spc
               \/ spc = "name" /\ spc' = "data"
               \/ RecvFin(a)
    <3>1. CASE RecvNameAck(a)
      BY <3>1 DEF RecvNameAck
    <3>2. CASE AckAdvances(a)
      BY <3>2 DEF AckAdvances
    <3>3. CASE AckCounted(a) \/ FastRetransmit(a)
      BY <3>3 DEF AckCounted, FastRetransmit
    <3>4. CASE AckCorrupt(a) \/ FinAgain(a) \/ FinIgnored(a)
      BY <3>4 DEF AckCorrupt, FinAgain, FinIgnored, senderVars
    <3> QED BY <2>5, <3>1, <3>2, <3>3, <3>4 DEF SenderRecv
  <2> QED BY <2>1, <2>2, <2>3, <2>4, <2>5, <2>6 DEF SenderStep, SenderNext
<1> QED BY <1>2, <1>3, <1>4

\* A packet that the receiver waited for: the output grows and is complete
\* exactly when the loop ends, or it does not grow and the loop goes on.
LEMMA RefineExpectedStep ==
    ASSUME IInv, IInv', LoopInv', UNCHANGED senderVars,
           NEW d \in toRecv, RecvInOrder(d) \/ RecvBuffered(d)
    PROVE  Promise!Next \/ UNCHANGED Promise!vars
<1>1. /\ rpc = "data" /\ d.ok /\ Expected(d) /\ \E reply : ReplyAndLoop(reply)
  BY DEF RecvInOrder, RecvBuffered
<1>2. /\ N \in Nat /\ W \in Nat /\ ack \in Nat
      /\ written = [k \in 1..ack |-> k]
  BY SizeAssumption DEF IInv, TypeOK, ReceiverTypeOK, ReceiverInv
<1>3. ack < N
  BY <1>1, <1>2, ExpectedPacket DEF Expected
<1>4. PICK b \in Nat : ack' = b
  BY DEF IInv, TypeOK, ReceiverTypeOK
<1>5. written' = [k \in 1..b |-> k] /\ b <= N /\ (b = N => list' = {})
  <2>1. PICK t \in Nat : toBeSend' = t /\ t <= N + 1
    BY DEF IInv, SenderInv, TypeOK, SenderTypeOK
  <2>2. b < t /\ \A n \in list' : b + 1 < n.seq /\ n.seq < t /\ n.seq \in Nat
    BY <1>4, <2>1 DEF IInv, ReceiverInv, TypeOK, ReceiverTypeOK
  <2>3. b = N => list' = {}
    BY <1>2, <2>1, <2>2
  <2> QED BY <1>2, <1>4, <2>1, <2>2, <2>3 DEF IInv, ReceiverInv
<1>6. ack <= b
  <2>1. CASE RecvInOrder(d)
    BY <1>2, <1>4, <2>1 DEF RecvInOrder
  <2>2. CASE RecvBuffered(d)
    <3>1. b = RunEnd(Add(list, d), ack)
      BY <1>4, <2>2 DEF RecvBuffered
    <3>2. \A s \in Seqs(Add(list, d)) : s \in Nat /\ s <= ack + W
      <4>1. \A n \in list : n.seq \in Nat /\ n.seq <= ack + W
        BY DEF IInv, TypeOK, ReceiverTypeOK, ReceiverInv
      <4>2. d.seq \in Nat /\ d.seq <= ack + W
        BY <1>1, ExpectedPacket DEF Expected
      <4>3. \A n \in Add(list, d) :
                n \in list \/ n = [seq |-> d.seq, data |-> d.data]
        BY DEF Add
      <4> QED BY <4>1, <4>2, <4>3 DEF Seqs
    <3> QED BY <1>2, <3>1, <3>2, RunEndFact
  <2> QED BY <2>1, <2>2
<1>7. rpc' \in {"data", "fin"} /\ (rpc' = "fin" <=> b = N)
  <2>1. \/ rpc' = "data" /\ (endFile' = 0 \/ list' # {})
        \/ rpc' = "fin" /\ endFile' # 0 /\ list' = {}
    BY <1>1, LoopCondition
  <2>2. rpc' = "fin" => b = N
    BY <1>4 DEF IInv, ReceiverInv
  <2>3. ASSUME b = N PROVE list' = {} /\ endFile' = 1
    <3>1. N \in 1..b
      BY <1>2, <1>3, <2>3
    <3> QED BY <1>4, <1>5, <2>3, <3>1 DEF LoopInv, Delivered
  <2> QED BY <2>1, <2>2, <2>3
<1>8. UNCHANGED spc
  BY DEF senderVars
<1>9. CASE b = ack
  <2>1. written' = written
    BY <1>2, <1>5, <1>9
  <2>2. rpc' = "data"
    BY <1>2, <1>3, <1>7, <1>9
  <2> QED BY <1>1, <1>8, <2>1, <2>2 DEF Promise!vars
<1>10. CASE b # ack
  <2>1. Len(written) = ack
    BY <1>2
  <2>2. b \in (Len(written) + 1)..N
    BY <1>2, <1>5, <1>6, <1>10, <2>1
  <2>3. (rpc' \in {"fin", "exit"}) = (b = N)
    BY <1>7
  <2>4. Promise!Write
    BY <1>5, <1>8, <2>2, <2>3 DEF Promise!Write, Promise!Prefix
  <2> QED BY <2>4 DEF Promise!Next
<1> QED BY <1>9, <1>10

LEMMA RefineReceiverStep ==
    ASSUME IInv, IInv', LoopInv, LoopInv', ReceiverStep
    PROVE  Promise!Next \/ UNCHANGED Promise!vars
<1>1. UNCHANGED spc
  BY DEF ReceiverStep, senderVars
<1>2. CASE /\ UNCHANGED written
           /\ (rpc' \in {"fin", "exit"}) = (rpc \in {"fin", "exit"})
  BY <1>1, <1>2 DEF Promise!vars
<1>3. CASE ResendFin
  BY <1>2, <1>3 DEF ResendFin, receiverVars
<1>4. ASSUME NEW d \in toRecv, ReceiverRecv(d)
      PROVE  Promise!Next \/ UNCHANGED Promise!vars
  <2>1. CASE RecvFileName(d)
    BY <1>2, <2>1 DEF RecvFileName
  <2>2. CASE RecvFileNameCorrupt(d) \/ RecvNotFinAck(d)
    BY <1>2, <2>2 DEF RecvFileNameCorrupt, RecvNotFinAck, receiverVars
  <2>3. CASE RecvIgnored(d) \/ RecvCorrupt(d)
    <3>1. /\ rpc = "data" /\ UNCHANGED <<list, endFile, written>>
          /\ \E reply : ReplyAndLoop(reply)
      BY <2>3 DEF RecvIgnored, RecvCorrupt
    <3>2. rpc' = "data"
      BY <3>1, LoopCondition DEF LoopInv
    <3> QED BY <1>2, <3>1, <3>2
  <2>4. CASE RecvInOrder(d) \/ RecvBuffered(d)
    BY <2>4, RefineExpectedStep DEF ReceiverStep
  <2>5. CASE RecvFinAck(d)
    BY <1>2, <2>5 DEF RecvFinAck
  <2> QED BY <1>4, <2>1, <2>2, <2>3, <2>4, <2>5 DEF ReceiverRecv
<1> QED BY <1>3, <1>4 DEF ReceiverStep, ReceiverNext

\* project2 delivers the file: each step of the two processes and the network
\* is a step of FileTransfer, which appends the next blocks or tells the sender
\* that all are written, or changes nothing of it (sendfile.cpp 297-465,
\* recvfile.cpp 92-236).
THEOREM Implements == Spec => DeliversTheFile
<1>1. ASSUME Init PROVE Promise!Init
  BY <1>1 DEF Init, SenderInit, ReceiverInit, Promise!Init
<1>2. ASSUME IInv, IInv', LoopInv, LoopInv', [Next]_vars
      PROVE  [Promise!Next]_(Promise!vars)
  <2>1. CASE SenderStep
    BY <1>2, <2>1, RefineSenderStep
  <2>2. CASE ReceiverStep
    BY <1>2, <2>2, RefineReceiverStep
  <2>3. CASE UNCHANGED vars
    BY <2>3 DEF vars, senderVars, receiverVars, Promise!vars
  <2> QED BY <1>2, <2>1, <2>2, <2>3 DEF Next, Terminated
<1> QED BY <1>1, <1>2, Invariance, LoopInvariance, PTL
       DEF Spec, DeliversTheFile, Promise!Spec
=============================================================================
