------------------------------ MODULE Transfer ------------------------------
(***************************************************************************)
(* sendfile and recvfile of project2 over an unreliable network.            *)
(***************************************************************************)
EXTENDS Sender, Receiver

vars == <<netVars, senderVars, receiverVars>>

Init == NetInit /\ SenderInit /\ ReceiverInit

SenderStep == SenderNext /\ UNCHANGED receiverVars
ReceiverStep == ReceiverNext /\ UNCHANGED senderVars

\* Both processes have exited; what the network still holds goes nowhere.
Terminated == spc = "exit" /\ rpc = "exit" /\ UNCHANGED vars

Next == SenderStep \/ ReceiverStep \/ Terminated

Spec == Init /\ [][Next]_vars

-----------------------------------------------------------------------------
(* Fairness.  Both processes poll their socket in a loop that never blocks  *)
(* for long, so a step that stays possible is taken; the network is fair:   *)
(* what is sent again and again is carried again and again, and what is     *)
(* carried again and again is delivered.  The timer of the closing loop     *)
(* runs out for certain only where no FIN can come to start it anew.        *)

\* An ack that tells the current cumulative number is under way.
AckUnderWay == \E a \in toSend : ~IsFin(a) /\ a.last = ack

\* An ack with cumulative number k, or packet s, arrives uncorrupted.
SenderGets(k) ==
    /\ \E a \in toSend :
          /\ a.last = k
          /\ \/ RecvNameAck(a) /\ spc' = "data"
             \/ AckAdvances(a) \/ AckCounted(a) \/ FastRetransmit(a)
    /\ UNCHANGED receiverVars
ReceiverGets(s) ==
    /\ \E d \in toRecv :
          /\ d.seq = s
          /\ RecvFileName(d) \/ RecvIgnored(d) \/ RecvInOrder(d) \/ RecvBuffered(d)
    /\ UNCHANGED senderVars

\* The FIN reaches the sender; if it is not the first, its answer is carried.
FinAnswered ==
    /\ \E a \in toSend : RecvFin(a) \/ (FinAgain(a) /\ FinAckPacket \in toRecv')
    /\ UNCHANGED receiverVars

\* No FIN is under way, and none will be.
FinsCeased == rpc # "fin" /\ \A a \in toSend : a.isFin # FIN

Fairness ==
    /\ WF_vars(SendData /\ UNCHANGED receiverVars)
    /\ WF_vars(FinsCeased /\ FinTimeout /\ UNCHANGED receiverVars)
    /\ WF_vars(SenderExit /\ UNCHANGED receiverVars)
    /\ WF_vars(\E a \in toSend : SenderRecv(a) /\ UNCHANGED receiverVars)
    /\ WF_vars(\E d \in toRecv : ReceiverRecv(d) /\ UNCHANGED senderVars)
    /\ SF_vars(/\ SendFileName /\ UNCHANGED receiverVars
               /\ FilePacket \in toRecv')
    /\ SF_vars(/\ TimeoutResend /\ UNCHANGED receiverVars
               /\ slot[front] \in toRecv')
    /\ SF_vars(ResendFin /\ UNCHANGED senderVars /\ FinPacket \in toSend')
    /\ SF_vars(FinAnswered)
    /\ \A k \in 0..N :
          /\ SF_vars(SenderGets(k))
          /\ SF_vars(ReceiverGets(k))
          /\ SF_vars(ReceiverGets(k) /\ AckUnderWay')

FairSpec == Spec /\ Fairness

-----------------------------------------------------------------------------
(* What has to hold. *)

TypeOK ==
    /\ toRecv \in SUBSET Packet /\ toSend \in SUBSET AckPacket
    /\ SenderTypeOK /\ ReceiverTypeOK

Base == toBeSend - qsize        \* oldest packet of the send window
Delivered == 1..ack \cup Seqs(list)

\* The output file is, at every moment, the first ack blocks of the input file
\* in order: no block is lost, repeated, swapped or taken from a stale buffer,
\* however the network loses, repeats and reorders (recvfile.cpp 148-200).
WrittenInOrder == written = [k \in 1..ack |-> k]

\* The sender keeps and will resend every packet the receiver has not got: a
\* packet that left the window, or that is marked in is_ack, was delivered
\* (sendfile.cpp 339-377 and 418).
NothingForgotten ==
    \A s \in 1..(toBeSend - 1) :
        \/ s \in Delivered
        \/ \E j \in 0..(qsize - 1) : /\ slot[At(front, j)].seq = s
                                     /\ ~isAck[At(front, j)]

\* The two windows stay within reach of each other: the sender's starts no
\* later than the packet the receiver waits for, and no packet under way lies
\* above the receive window, so the upper check of recvfile.cpp 158 never
\* throws a new packet away.
WindowsAgree ==
    /\ Base <= ack + 1 /\ ack < toBeSend
    /\ \A d \in toRecv : d.ok => d.seq <= ack + W

\* The ring of queue.h holds exactly the packets Base .. toBeSend - 1 in order,
\* each with its own block, and agrees with send_window.usable.
RingHoldsWindow ==
    /\ usable + qsize = W /\ rear = At(front, qsize)
    /\ \A j \in 0..(qsize - 1) :
          /\ slot[At(front, j)].seq = Base + j
          /\ slot[At(front, j)].data = Base + j

\* The packet at the front of the window is never marked as acknowledged out
\* of order: if it were, neither the timeout (sendfile.cpp 419) would send it
\* again nor any ack name it, and the transfer would stop for good.
FrontUnmarked == qsize > 0 => ~isAck[front]

\* Neither side leaves its data loop before the whole file is written, and the
\* sender leaves only after the receiver (recvfile.cpp 148, sendfile.cpp 332).
ClosedMeansComplete ==
    /\ rpc \in {"fin", "exit"} => ack = N /\ list = {}
    /\ spc \in {"fin", "exit"} => rpc \in {"fin", "exit"}

\* The receiver exits only after the sender has seen a FIN and answered it.
\* Needs a network that does not corrupt and no block that starts with the
\* bytes 2, 0: recvfile.cpp 220 looks at isFin alone.
ExitAfterFinAck == rpc = "exit" => spc \in {"fin", "exit"}

\* The output file is named after the path and not after the first data packet
\* that verifies (recvfile.cpp 92-111 accepts either): the sender, which does
\* not verify the acknowledgement it waits for (sendfile.cpp 275), sends no
\* data before the receiver has the path.
NamedByThePath ==
    /\ fileName \in {Path, Blank}
    /\ spc # "name" => fileName = Path

\* A slot of the ring is filled anew only when its packet was written by the
\* receiver: its contents are not needed for any later resend.
SlotReused(i) == slot'[i] # slot[i] => slot[i].seq <= ack
SlotReuseIsSafe == [][\A i \in Slots : SlotReused(i)]_vars

\* With a fair network sendfile learns that the file has arrived, and exits,
\* although each FIN starts its timer anew and recvfile sends FINs all the time:
\* it answers them until recvfile has got an answer and is silent (sendfile.cpp
\* 439-465, recvfile.cpp 218-232).
SenderExits == <>(spc = "exit")

-----------------------------------------------------------------------------
\* Transfer implements FileTransfer, its fairness included: what recvfile has
\* written is a growing prefix of the file, complete when it sends its FIN, and
\* sendfile, once it has left its data loop, knows it.
Promise == INSTANCE FileTransfer WITH
    output <- written,
    complete <- rpc \in {"fin", "exit"},
    confirmed <- spc \in {"fin", "exit"}

DeliversTheFile == Promise!Spec
DeliversTheFileFairly == Promise!FairSpec
=============================================================================
