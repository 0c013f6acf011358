------------------------------ MODULE Datagrams ------------------------------
(***************************************************************************)
(* The two datagram formats of project2 (utils.h) and the UDP network       *)
(* between sendfile and recvfile.                                           *)
(*                                                                          *)
(* A file of N packets is the sequence of blocks 1 .. N.  What the payload  *)
(* of a datagram holds is named by a number: a block, the path (Path), the  *)
(* FINACK that the receiver sees when it reads a FINACK datagram as its own *)
(* (FinWord), or memory nobody has filled (Blank).                          *)
(***************************************************************************)
EXTENDS Integers, FiniteSets, Sequences

CONSTANTS
    N,          \* total_count: packets the file is cut into (0: empty file)
    W,          \* DEFAULTMAXWINDOWSIZE = QUEUE_SIZE: slots of the send window
    NetCap,     \* bound: datagrams the network holds in one direction
    Dup,        \* may the network deliver a datagram more than once?
    Mangle,     \* may the network corrupt a datagram?
    FinLike,    \* blocks whose first two bytes are those of FINACK (2, 0)
    Unfilled    \* isFin of an ack nobody filled in, and whether its checksum verifies

ASSUME SizeAssumption == N \in Nat /\ W \in Nat \ {0} /\ NetCap \in Nat
ASSUME NetAssumption == Dup \in BOOLEAN /\ Mangle \in BOOLEAN
ASSUME DataAssumption == FinLike \subseteq 1..N

IGNORE_CODE == 0
NoFin == 0
FIN == 1
FINACK == 2

\* Left out: memory that reads as a FIN and verifies too.
ASSUME UnfilledAssumption ==
    /\ Unfilled \subseteq [isFin : 0..2, ok : BOOLEAN]
    /\ [isFin |-> FIN, ok |-> TRUE] \notin Unfilled

Path == 0
Blank == N + 1
FinWord == N + 2

\* struct packet; "ok" says that the checksum field verifies.
Packet == [seq : Nat, data : 0..(N + 2), isEnd : 0..2, ok : BOOLEAN]

\* struct ackpacket
AckPacket == [ack : Nat, last : Nat, isFin : 0..2, ok : BOOLEAN]

\* fillFilePacket: the path travels as packet 0 with isEnd = 2.
FilePacket == [seq |-> 0, data |-> Path, isEnd |-> 2, ok |-> TRUE]

\* A 12-byte FINACK read into the receiver's 20012-byte packet buffer.
FinAckPacket == [seq |-> FINACK, data |-> FinWord, isEnd |-> 0, ok |-> FALSE]

\* An ack with its checksum filled in (fillackPacket), and the receiver's FIN.
FilledAck(a, l) == [ack |-> a, last |-> l, isFin |-> NoFin, ok |-> TRUE]
FinPacket == [ack |-> FIN, last |-> FIN, isFin |-> FIN, ok |-> TRUE]

\* The data loop of sendfile takes a for the FIN.
IsFin(a) == a.ok /\ a.isFin = FIN

\* What an uninitialised slot of the send window holds (fresh heap memory).
UnfilledSlot == [seq |-> 0, data |-> Blank, isEnd |-> 0, ok |-> FALSE]

\* A receiver that takes whatever arrives for the FINACK it waits for.
AnythingIsFinAck(d) == TRUE

\* fin_ack_packet->isFin overlays the first two payload bytes of a packet.
ReadsAsFinAck(d) == d.data = FinWord \/ d.data \in FinLike

-----------------------------------------------------------------------------
VARIABLES
    toRecv,     \* datagrams on their way from sendfile to recvfile
    toSend      \* datagrams on their way from recvfile to sendfile

netVars == <<toRecv, toSend>>

\* What a network that held "net" may hold after S is sent into it: each
\* datagram is lost or carried, and no more than NetCap are under way.
Carry(net, S) ==
    {net \cup K : K \in {L \in SUBSET S : Cardinality(net \cup L) <= NetCap}}

\* What it may hold after d is delivered: d may be delivered again if Dup.
Left(net, d) == {net \ {d}} \cup {m \in {net} : Dup}

NetInit == toRecv = {} /\ toSend = {}
=============================================================================
