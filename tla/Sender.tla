------------------------------- MODULE Sender -------------------------------
(***************************************************************************)
(* sendfile.cpp: the sending process.  The send window is the ring buffer   *)
(* of queue.h: slot[front], ..., slot[front + qsize - 1] (modulo W) hold    *)
(* the packets that were sent and not yet acknowledged in order.            *)
(***************************************************************************)
EXTENDS Datagrams

CONSTANT RESENDLIMIT
ASSUME LimitAssumption == RESENDLIMIT \in Nat

VARIABLES
    spc,        \* which loop of main runs: "name", "data", "fin", or "exit"
    toBeSend,   \* send_window.to_be_send
    usable,     \* send_window.usable
    front, rear, qsize, slot,   \* queue
    isAck,      \* is_ack[]
    dupAck, dupCount,           \* initAck.ackNum, initAck.count
    overdue,    \* FIN_TIMEOUT has passed since the last FINACK was sent
    fpos        \* blocks read from fp

senderVars == <<spc, toBeSend, usable, front, rear, qsize, slot, isAck,
                dupAck, dupCount, overdue, fpos>>
windowVars == <<toBeSend, usable, front, rear, qsize, slot, isAck, fpos>>
dupVars == <<dupAck, dupCount>>

Slots == 0..(W - 1)
At(i, k) == (i + k) % W

SenderInit ==
    /\ spc = "name"
    /\ toBeSend = 1 /\ usable = W /\ fpos = 0
    /\ front = 0 /\ rear = 0 /\ qsize = 0
    /\ slot = [i \in Slots |-> UnfilledSlot]
    /\ isAck = [i \in Slots |-> FALSE]
    /\ dupAck = -1 /\ dupCount = -1
    /\ overdue = FALSE

-----------------------------------------------------------------------------
(* The filename handshake. *)

\* A sender that starts with the data as soon as the path is on its way.
SendFileNameOnly ==
    /\ spc = "name" /\ spc' = "data"
    /\ toRecv' \in Carry(toRecv, {FilePacket})
    /\ UNCHANGED <<toSend, windowVars, dupVars, overdue>>

\* The first send of the path, and each resend after TIMEEXCEEDLIMIT.
SendFileName ==
    /\ spc = "name"
    /\ toRecv' \in Carry(toRecv, {FilePacket})
    /\ UNCHANGED <<toSend, senderVars>>

\* Any datagram with last_inorder_ack = ack_num ends the wait: the loop looks
\* at neither the checksum nor isFin.  A mangled one may or may not match.
RecvNameAck(a) ==
    /\ spc = "name"
    /\ toSend' \in Left(toSend, a)
    /\ \/ (a.last = a.ack \/ Mangle) /\ spc' = "data"
       \/ (a.last # a.ack \/ Mangle) /\ spc' = spc
    /\ UNCHANGED <<toRecv, windowVars, dupVars, overdue>>

-----------------------------------------------------------------------------
(* The data loop. *)

\* A sender that forgets to look at send_window.usable.
MaySendAlways == spc = "data" /\ toBeSend <= N

MaySend == spc = "data" /\ usable > 0 /\ toBeSend <= N
MayRecv == spc = "data" /\ ~(usable > 0 /\ toBeSend <= N)

\* fillPacket: the next block of the file goes out as packet to_be_send.
NextPacket == [seq |-> toBeSend, data |-> fpos + 1,
               isEnd |-> IF toBeSend >= N THEN 1 ELSE 0, ok |-> TRUE]

\* A sender that forgets to reset is_ack when it fills a slot anew.
UnmarkForgotten(i) == isAck

\* A slot filled anew counts as not acknowledged.
Unmark(i) == [isAck EXCEPT ![i] = FALSE]

\* Fill the rear slot, send it, MoveForward (which calls Enqueue).
SendData ==
    /\ MaySend
    /\ slot' = [slot EXCEPT ![rear] = NextPacket]
    /\ isAck' = Unmark(rear)
    /\ fpos' = fpos + 1
    /\ usable' = usable - 1
    /\ toBeSend' = toBeSend + 1
    /\ qsize' = qsize + 1
    /\ rear' = At(rear, 1)
    /\ toRecv' \in Carry(toRecv, {NextPacket})
    /\ UNCHANGED <<toSend, spc, front, dupVars, overdue>>

\* last_inorder_ack names a packet of the window.
InWindow(a) == slot[front].seq <= a.last /\ a.last < slot[front].seq + qsize

\* A cumulative dequeue that frees one slot too many.
FreedOneMore(last) ==
    CHOOSE k \in 0..qsize :
        /\ \A j \in 0..(k - 1) : slot[At(front, j)].seq <= last + 1
        /\ k = qsize \/ slot[At(front, k)].seq > last + 1

\* How many slots "while (size > 0 && last >= Front->seq_num) Dequeue" frees.
Freed(last) ==
    CHOOSE k \in 0..qsize :
        /\ \A j \in 0..(k - 1) : slot[At(front, j)].seq <= last
        /\ k = qsize \/ slot[At(front, k)].seq > last

\* is_ack after the search of the n slots from f for the packet that a names,
\* which runs only when a.ack is not below Front(queue)->seq_num.
Marked(f, n, a) ==
    [i \in Slots |-> \/ isAck[i]
                     \/ /\ a.ack >= slot[f].seq
                        /\ \E j \in 0..(n - 1) : i = At(f, j)
                        /\ slot[i].seq = a.ack]

\* How many marked slots "while (size > 0 && is_ack[front]) Dequeue" frees.
MarkedRun(f, n, marks) ==
    CHOOSE k \in 0..n :
        /\ \A j \in 0..(k - 1) : marks[At(f, j)]
        /\ k = n \/ ~marks[At(f, k)]

\* The ack tells of a packet beyond the in-order ones, not below the window.
OutOfOrder(f, a) == a.last < a.ack /\ a.ack >= slot[f].seq

\* A good cumulative ack inside the window: free what it covers, then mark
\* the out-of-order packet and free the marked slots at the front.
AckAdvances(a) ==
    LET k == Freed(a.last)
        f == At(front, k)
        marks == IF OutOfOrder(f, a) THEN Marked(f, qsize - k, a) ELSE isAck
        m == IF OutOfOrder(f, a) THEN MarkedRun(f, qsize - k, marks) ELSE 0
    IN  /\ MayRecv /\ a.ok /\ a.isFin # FIN /\ InWindow(a)
        /\ toSend' \in Left(toSend, a)
        /\ dupAck' = a.last /\ dupCount' = 1
        /\ front' = At(f, m)
        /\ qsize' = qsize - k - m
        /\ usable' = usable + k + m
        /\ isAck' = marks
        /\ UNCHANGED <<toRecv, spc, toBeSend, rear, slot, overdue, fpos>>

\* A good ack outside the window: mark, and count how often it was repeated.
AckCounted(a) ==
    /\ MayRecv /\ a.ok /\ a.isFin # FIN /\ ~InWindow(a)
    /\ ~(a.last = dupAck /\ dupCount + 1 = RESENDLIMIT)
    /\ toSend' \in Left(toSend, a)
    /\ isAck' = Marked(front, qsize, a)
    /\ dupAck' = a.last
    /\ dupCount' = IF a.last = dupAck THEN dupCount + 1 ELSE 1
    /\ UNCHANGED <<toRecv, spc, toBeSend, usable, front, rear, qsize, slot,
                   overdue, fpos>>

\* The third same ack: fast retransmit of Front(queue), whatever it holds.
FastRetransmit(a) ==
    /\ MayRecv /\ a.ok /\ a.isFin # FIN /\ ~InWindow(a)
    /\ a.last = dupAck /\ dupCount + 1 = RESENDLIMIT
    /\ toSend' \in Left(toSend, a)
    /\ isAck' = Marked(front, qsize, a)
    /\ toRecv' \in Carry(toRecv, {slot[front]})
    /\ dupAck' = -1 /\ dupCount' = 0
    /\ UNCHANGED <<spc, toBeSend, usable, front, rear, qsize, slot, overdue, fpos>>

\* A datagram whose checksum does not verify.
AckCorrupt(a) ==
    /\ MayRecv /\ (~a.ok \/ Mangle)
    /\ toSend' \in Left(toSend, a)
    /\ UNCHANGED <<toRecv, senderVars>>

\* A sender that takes any good ack for the FIN.
RecvFinUnchecked(a) ==
    /\ MayRecv /\ a.ok
    /\ toSend' \in Left(toSend, a)
    /\ toRecv' \in Carry(toRecv, {FinAckPacket})
    /\ spc' = "fin" /\ overdue' = FALSE
    /\ UNCHANGED <<windowVars, dupVars>>

\* The receiver's FIN ends the data loop; the FINACK is sent at once.
RecvFin(a) ==
    /\ MayRecv /\ a.ok /\ a.isFin = FIN
    /\ toSend' \in Left(toSend, a)
    /\ toRecv' \in Carry(toRecv, {FinAckPacket})
    /\ spc' = "fin" /\ overdue' = FALSE
    /\ UNCHANGED <<windowVars, dupVars>>

\* A resend loop that starts one slot behind the front.
UnmarkedButFront == {slot[At(front, j)] : j \in {i \in 1..(qsize - 1) :
                                                     ~isAck[At(front, i)]}}

\* Nothing arrived and RESENDTIMELIMIT has passed: send every unmarked packet
\* of the window again.
Unmarked == {slot[At(front, j)] : j \in {i \in 0..(qsize - 1) :
                                             ~isAck[At(front, i)]}}
TimeoutResend ==
    /\ MayRecv /\ qsize > 0
    /\ toRecv' \in Carry(toRecv, Unmarked)
    /\ UNCHANGED <<toSend, senderVars>>

-----------------------------------------------------------------------------
(* The closing loop, left FIN_TIMEOUT after the last FINACK was sent. *)

\* A sender that answers no FIN but the first.
FinAgainUnanswered(a) ==
    /\ spc = "fin" /\ (a.isFin = FIN \/ Mangle)
    /\ toSend' \in Left(toSend, a)
    /\ overdue' = FALSE
    /\ UNCHANGED <<toRecv, spc, windowVars, dupVars>>

\* Each FIN is answered, and starts the timer anew.
FinAgain(a) ==
    /\ spc = "fin" /\ (a.isFin = FIN \/ Mangle)
    /\ toSend' \in Left(toSend, a)
    /\ toRecv' \in Carry(toRecv, {FinAckPacket})
    /\ overdue' = FALSE
    /\ UNCHANGED <<spc, windowVars, dupVars>>

FinIgnored(a) ==
    /\ spc = "fin" /\ (a.isFin # FIN \/ Mangle)
    /\ toSend' \in Left(toSend, a)
    /\ UNCHANGED <<toRecv, senderVars>>

FinTimeout ==
    /\ spc = "fin" /\ ~overdue
    /\ overdue' = TRUE
    /\ UNCHANGED <<netVars, spc, windowVars, dupVars>>

SenderExit ==
    /\ spc = "fin" /\ overdue
    /\ spc' = "exit"
    /\ UNCHANGED <<netVars, windowVars, dupVars, overdue>>

-----------------------------------------------------------------------------
SenderRecv(a) ==
    \/ RecvNameAck(a)
    \/ AckAdvances(a) \/ AckCounted(a) \/ FastRetransmit(a) \/ AckCorrupt(a)
    \/ RecvFin(a) \/ FinAgain(a) \/ FinIgnored(a)

SenderNext ==
    \/ SendFileName \/ SendData \/ TimeoutResend \/ FinTimeout \/ SenderExit
    \/ \E a \in toSend : SenderRecv(a)

SenderTypeOK ==
    /\ spc \in {"name", "data", "fin", "exit"}
    /\ toBeSend \in Nat /\ fpos \in Nat
    /\ usable \in 0..W /\ qsize \in 0..W
    /\ front \in Slots /\ rear \in Slots
    /\ slot \in [Slots -> Packet] /\ isAck \in [Slots -> BOOLEAN]
    /\ dupAck \in Nat \cup {-1} /\ dupCount \in Nat \cup {-1}
    /\ overdue \in BOOLEAN
=============================================================================
