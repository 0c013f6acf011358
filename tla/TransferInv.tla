----------------------------- MODULE TransferInv -----------------------------
(***************************************************************************)
(* The inductive invariant behind the safety properties of Transfer, in     *)
(* named parts.  None of the properties is inductive alone: what the output *)
(* file holds depends on what the datagrams under way may hold, and that on *)
(* what the two windows hold.                                               *)
(***************************************************************************)
EXTENDS Transfer

\* The only packet that may travel as number s, and the ones sent so far.
DataPacket(s) == [seq |-> s, data |-> s, isEnd |-> IF s >= N THEN 1 ELSE 0,
                  ok |-> TRUE]
SentPackets == {DataPacket(s) : s \in 1..(toBeSend - 1)}

\* The ring holds the window; the counters that describe it agree.
SenderInv ==
    /\ usable + qsize = W /\ rear = At(front, qsize)
    /\ fpos = toBeSend - 1
    /\ 1 <= Base /\ toBeSend <= N + 1
    /\ spc = "name" => toBeSend = 1
    /\ \A j \in 0..(qsize - 1) : slot[At(front, j)] = DataPacket(Base + j)
    /\ \A i \in Slots : slot[i] \in SentPackets \cup {UnfilledSlot}

\* What may be under way to the receiver.
GoodDatagram(d) ==
    /\ d \in Packet
    /\ \/ d \in SentPackets \cup {FilePacket, UnfilledSlot}
       \/ d = FinAckPacket /\ spc \in {"fin", "exit"}
ToRecvInv == \A d \in toRecv : GoodDatagram(d)

\* What the receiver has got and what it has concluded from it.
ReceiverInv ==
    /\ written = [k \in 1..ack |-> k]
    /\ ack < toBeSend
    /\ \A n \in list : /\ n.data = n.seq
                       /\ ack + 1 < n.seq /\ n.seq < toBeSend /\ n.seq <= ack + W
    /\ endFile \in 0..1
    /\ endFile = 1 => N \in Delivered
    /\ rpc = "name" => fileName = Blank /\ ack = 0 /\ list = {} /\ endFile = 0
    /\ rpc # "name" => fileName = Path
    /\ rpc \in {"fin", "exit"} => ack = N /\ list = {}

\* What may be under way to the sender: no ack promises more than was received.
GoodAck(a) ==
    /\ a \in AckPacket /\ rpc # "name"
    /\ IsFin(a) => rpc \in {"fin", "exit"}
    /\ ~IsFin(a) => a.last <= ack /\ a.ack \in Delivered \cup {0}
ToSendInv == \A a \in toSend : GoodAck(a)

\* What the sender has concluded is true of the receiver.
AgreementInv ==
    /\ Base <= ack + 1
    /\ \A j \in 0..(qsize - 1) : isAck[At(front, j)] => Base + j \in Delivered
    /\ spc # "name" => rpc # "name"
    /\ spc \in {"fin", "exit"} => rpc \in {"fin", "exit"}

\* The inductive invariant: everything the two processes and the network hold
\* stems from one file cut into N packets (sendfile.cpp 297-437, recvfile.cpp
\* 148-200).
IInv == TypeOK /\ SenderInv /\ ToRecvInv /\ ReceiverInv /\ ToSendInv /\ AgreementInv

\* The receiver stays in its data loop as long as it has to and no longer: the
\* flag endFile is set when the last packet arrives, and the loop condition is
\* looked at after every datagram (recvfile.cpp 148 and 164-166).
LoopInv ==
    /\ N \in Delivered => endFile = 1
    /\ rpc = "data" => endFile = 0 \/ list # {}

-----------------------------------------------------------------------------
\* Packets the receiver has reported, or the sender has marked, as received
\* ahead of a gap.
Reported ==
    {a.ack : a \in {b \in toSend : ~IsFin(b) /\ b.last < b.ack}}
    \cup {Base + j : j \in {k \in 0..(qsize - 1) : isAck[At(front, k)]}}

\* No cumulative ack ever stops just below a packet reported ahead of a gap:
\* when the gap closes, LinkList::pop takes that packet along.
GapInv ==
    \A s \in Reported :
        /\ s # Base
        /\ \A b \in toSend : ~IsFin(b) => b.last + 1 # s
=============================================================================
