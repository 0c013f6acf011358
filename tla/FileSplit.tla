------------------------------ MODULE FileSplit ------------------------------
(***************************************************************************)
(* sendfile.cpp: the lengths.  How a file of some length is cut into        *)
(* packets in unsigned arithmetic, and what recvfile writes of them.  The   *)
(* packets are taken in order, which Transfer shows of their delivery.      *)
(***************************************************************************)
EXTENDS Integers

CONSTANTS
    DATASIZE,   \* bytes of a full packet
    Modulus,    \* of __uint32_t, 2^32
    Lengths     \* the file lengths to look at

ASSUME LengthAssumption ==
    DATASIZE \in Nat \ {0} /\ Modulus \in Nat \ {0} /\ Lengths \subseteq Nat

\* Whether every length can be held in a __uint32_t.
Fits == \A n \in Lengths : n < Modulus

VARIABLES
    length,     \* of the file
    to_be_send, \* next packet
    position,   \* bytes read from the file
    written,    \* bytes recvfile has written
    endFile     \* recvfile has seen isEnd
vars == <<length, to_be_send, position, written, endFile>>

-----------------------------------------------------------------------------
\* ftell is kept in an int and that in a __uint32_t: the low 32 bits remain.
total_file_length == length % Modulus

total_count ==
    IF total_file_length % DATASIZE = 0 THEN total_file_length \div DATASIZE
                                        ELSE total_file_length \div DATASIZE + 1

left_filesize == (total_file_length - (to_be_send - 1) * DATASIZE) % Modulus

\* A mistake: < for <=, so a last packet that is full is not marked.
IsEndStrict == left_filesize < DATASIZE

IsEnd == left_filesize <= DATASIZE

\* A mistake: the size of every packet is that of a full one.
payload_sizeFull == DATASIZE

payload_size == IF IsEnd THEN left_filesize ELSE DATASIZE

\* What fread can still deliver.
Readable == LET rest == length - position
            IN  IF payload_size <= rest THEN payload_size ELSE rest

-----------------------------------------------------------------------------
Init ==
    /\ length \in Lengths
    /\ to_be_send = 1 /\ position = 0 /\ written = 0 /\ endFile = FALSE

\* fillPacket of the next packet, and its arrival: as many bytes are written as
\* the packet says it holds, whether or not they were read.
SendData ==
    /\ to_be_send <= total_count
    /\ position' = position + Readable
    /\ written' = written + payload_size
    /\ endFile' = (endFile \/ IsEnd)
    /\ to_be_send' = to_be_send + 1
    /\ UNCHANGED length

Next == SendData

Spec == Init /\ [][Next]_vars

-----------------------------------------------------------------------------
\* When recvfile has seen the last packet, it has written the file to its last
\* byte and nothing more (sendfile.cpp 98-116, recvfile.cpp 170, 178).
WholeFile == endFile => written = length

\* The packet marked as the last one is the last of total_count, and no other:
\* recvfile leaves its loop neither early nor never (sendfile.cpp 224-229).
EndIsLast == endFile <=> length > 0 /\ to_be_send = total_count + 1

\* The bytes sent are bytes of the file: no packet claims more than fread
\* delivered, so nothing left in a reused slot is written (sendfile.cpp 104, 108).
SendsWhatItReads == written = position
=============================================================================
