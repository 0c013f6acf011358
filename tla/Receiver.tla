------------------------------ MODULE Receiver ------------------------------
(***************************************************************************)
(* recvfile.cpp: the receiving process.  LinkList, the sorted list of the   *)
(* packets that arrived out of order, is the set of its nodes.              *)
(***************************************************************************)
EXTENDS Datagrams

CONSTANT OpenOk     \* what creating the output file can answer
ASSUME OpenAssumption == OpenOk \subseteq BOOLEAN

VARIABLES
    rpc,        \* which loop of main runs: "name", "data", "fin"; or "exit",
                \* or "failed" when the output file could not be created
    fileName,   \* what the output file was named after (Blank: not yet)
    ack,        \* last packet written
    list,       \* nodes of LinkList
    endFile,
    written     \* blocks written to fp

receiverVars == <<rpc, fileName, ack, list, endFile, written>>

ReceiverInit ==
    /\ rpc = "name" /\ fileName = Blank
    /\ ack = 0 /\ list = {} /\ endFile = 0 /\ written = <<>>

-----------------------------------------------------------------------------
(* The filename loop. *)

\* The path is acknowledged before the directory and the file are created; if
\* that fails the process exits.  The reply is the only ack sent without
\* fillackPacket: its isFin and checksum are what malloc returned.
RecvFileName(d) ==
    /\ rpc = "name" /\ d.ok
    /\ toRecv' \in Left(toRecv, d)
    /\ \E u \in Unfilled :
          toSend' \in Carry(toSend, {[ack |-> d.seq, last |-> d.seq,
                                      isFin |-> u.isFin, ok |-> u.ok]})
    /\ fileName' = d.data
    /\ \E opened \in OpenOk : rpc' = IF opened THEN "data" ELSE "failed"
    /\ UNCHANGED <<ack, list, endFile, written>>

RecvFileNameCorrupt(d) ==
    /\ rpc = "name" /\ (~d.ok \/ Mangle)
    /\ toRecv' \in Left(toRecv, d)
    /\ UNCHANGED <<toSend, receiverVars>>

-----------------------------------------------------------------------------
(* The data loop. *)

Seqs(l) == {n.seq : n \in l}

\* LinkList::add keeps the node it has for a sequence number.
Add(l, d) ==
    l \cup {n \in {[seq |-> d.seq, data |-> d.data]} : n.seq \notin Seqs(l)}

\* LinkList::pop(a) detaches the run a + 1 .. RunEnd(l, a) from the list.
RunEnd(l, a) ==
    CHOOSE m \in a..(a + W) : /\ \A s \in (a + 1)..m : s \in Seqs(l)
                              /\ m + 1 \notin Seqs(l)
DataOf(l, s) == (CHOOSE n \in l : n.seq = s).data

\* A receiver that takes packets it has already written.
ExpectedAnew(d) == d.seq <= ack + W

\* The sequence number is one the receiver still waits for.
Expected(d) == ack < d.seq /\ d.seq <= ack + W

\* A loop condition that looks at endFile alone, or at what endFile and list
\* were before the datagram was handled.
ReplyAndLoopEndOnly(reply) ==
    IF endFile' = 0
    THEN toSend' \in Carry(toSend, {reply}) /\ rpc' = rpc
    ELSE toSend' \in Carry(toSend, {reply, FinPacket}) /\ rpc' = "fin"
ReplyAndLoopBefore(reply) ==
    IF endFile = 0 \/ list # {}
    THEN toSend' \in Carry(toSend, {reply}) /\ rpc' = rpc
    ELSE toSend' \in Carry(toSend, {reply, FinPacket}) /\ rpc' = "fin"

\* Reply, and when the loop condition now fails leave it by sending the FIN.
ReplyAndLoop(reply) ==
    IF endFile' = 0 \/ list' # {}
    THEN toSend' \in Carry(toSend, {reply}) /\ rpc' = rpc
    ELSE toSend' \in Carry(toSend, {reply, FinPacket}) /\ rpc' = "fin"

\* A packet already written, or beyond the receive window.
RecvIgnored(d) ==
    /\ rpc = "data" /\ d.ok /\ ~Expected(d)
    /\ toRecv' \in Left(toRecv, d)
    /\ UNCHANGED <<fileName, ack, list, endFile, written>>
    /\ ReplyAndLoop(FilledAck(IGNORE_CODE, ack))

\* A receiver that writes a packet at once whenever nothing is buffered.
RecvInOrderUnchecked(d) ==
    /\ rpc = "data" /\ d.ok /\ Expected(d)
    /\ list = {}
    /\ toRecv' \in Left(toRecv, d)
    /\ endFile' = IF endFile = 0 THEN d.isEnd ELSE endFile
    /\ written' = Append(written, d.data)
    /\ ack' = ack + 1
    /\ UNCHANGED <<fileName, list>>
    /\ ReplyAndLoop(FilledAck(ack', ack'))

\* The next packet, with nothing buffered: write it.
RecvInOrder(d) ==
    /\ rpc = "data" /\ d.ok /\ Expected(d)
    /\ d.seq = ack + 1 /\ list = {}
    /\ toRecv' \in Left(toRecv, d)
    /\ endFile' = IF endFile = 0 THEN d.isEnd ELSE endFile
    /\ written' = Append(written, d.data)
    /\ ack' = ack + 1
    /\ UNCHANGED <<fileName, list>>
    /\ ReplyAndLoop(FilledAck(ack', ack'))

\* Buffer the packet, then write the run that starts after ack, if any.
RecvBuffered(d) ==
    LET l == Add(list, d)
        m == RunEnd(l, ack)
    IN  /\ rpc = "data" /\ d.ok /\ Expected(d)
        /\ d.seq # ack + 1 \/ list # {}
        /\ toRecv' \in Left(toRecv, d)
        /\ endFile' = IF endFile = 0 THEN d.isEnd ELSE endFile
        /\ list' = {n \in l : n.seq \notin (ack + 1)..m}
        /\ written' = written \o [j \in 1..(m - ack) |-> DataOf(l, ack + j)]
        /\ ack' = m
        /\ UNCHANGED fileName
        /\ ReplyAndLoop(FilledAck(d.seq, ack'))

\* A packet whose checksum does not verify.
RecvCorrupt(d) ==
    /\ rpc = "data" /\ (~d.ok \/ Mangle)
    /\ toRecv' \in Left(toRecv, d)
    /\ UNCHANGED <<fileName, ack, list, endFile, written>>
    /\ ReplyAndLoop(FilledAck(IGNORE_CODE, ack))

-----------------------------------------------------------------------------
(* The closing loop. *)

\* Nothing but isFin is looked at; recvfrom has cut the datagram to 12 bytes.
RecvFinAck(d) ==
    /\ rpc = "fin" /\ (ReadsAsFinAck(d) \/ Mangle)
    /\ toRecv' \in Left(toRecv, d)
    /\ rpc' = "exit"
    /\ UNCHANGED <<toSend, fileName, ack, list, endFile, written>>

RecvNotFinAck(d) ==
    /\ rpc = "fin" /\ (~ReadsAsFinAck(d) \/ Mangle)
    /\ toRecv' \in Left(toRecv, d)
    /\ UNCHANGED <<toSend, receiverVars>>

\* A receiver that sends its FIN once only.
ResendFinNever == FALSE

\* TIMEEXCEEDLIMIT has passed since the last FIN.
ResendFin ==
    /\ rpc = "fin"
    /\ toSend' \in Carry(toSend, {FinPacket})
    /\ UNCHANGED <<toRecv, receiverVars>>

-----------------------------------------------------------------------------
ReceiverRecv(d) ==
    \/ RecvFileName(d) \/ RecvFileNameCorrupt(d)
    \/ RecvIgnored(d) \/ RecvInOrder(d) \/ RecvBuffered(d) \/ RecvCorrupt(d)
    \/ RecvFinAck(d) \/ RecvNotFinAck(d)

ReceiverNext == ResendFin \/ \E d \in toRecv : ReceiverRecv(d)

ReceiverTypeOK ==
    /\ rpc \in {"name", "data", "fin", "exit", "failed"}
    /\ fileName \in 0..(N + 2)
    /\ ack \in Nat /\ endFile \in 0..2
    /\ list \in SUBSET [seq : Nat, data : 0..(N + 2)]
    /\ written \in Seq(0..(N + 2))
=============================================================================
