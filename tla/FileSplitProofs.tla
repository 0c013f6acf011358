--------------------------- MODULE FileSplitProofs ---------------------------
(***************************************************************************)
(* For every packet size and every length that fits in 32 bits (Fits), the   *)
(* file is cut into packets that together are the file.                      *)
(***************************************************************************)
EXTENDS FileSplit, TLAPS

\* Before the last packet the whole packets so far are written; after it the
\* file is. The position counts with it.
SplitInv ==
    /\ length \in Lengths
    /\ to_be_send \in Nat \ {0}
    /\ position = written
    /\ to_be_send <= total_count => ~endFile /\ written = (to_be_send - 1) * DATASIZE
    /\ to_be_send > total_count => /\ to_be_send = total_count + 1
                                   /\ written = length
    /\ endFile \in BOOLEAN
    /\ endFile <=> length > 0 /\ to_be_send = total_count + 1

-----------------------------------------------------------------------------
\* A length that fits is kept as it is (utils.cpp 25, sendfile.cpp 220).
LEMMA LengthKept == ASSUME Fits, NEW n \in Lengths PROVE n % Modulus = n
  BY LengthAssumption DEF Fits

\* total_count is the length divided by DATASIZE, rounded up.
LEMMA CountRoundsUp ==
  ASSUME Fits, length \in Lengths
  PROVE  /\ total_count \in Nat
         /\ length <= total_count * DATASIZE
         /\ length > 0 => total_count > 0
         /\ total_count > 0 => (total_count - 1) * DATASIZE < length
  <1> DEFINE q == length \div DATASIZE  r == length % DATASIZE
  <1>1. length \in Nat /\ DATASIZE \in Nat /\ DATASIZE > 0
    BY LengthAssumption
  <1>2. q \in Nat /\ r \in 0..(DATASIZE - 1) /\ length = DATASIZE * q + r
    BY <1>1
  <1>3. total_file_length = length
    BY LengthKept DEF total_file_length
  <1>4. total_count = IF r = 0 THEN q ELSE q + 1
    BY <1>3 DEF total_count
  <1> HIDE DEF q, r
  <1>5. DATASIZE * q \in Nat /\ DATASIZE * q = q * DATASIZE
    BY <1>1, <1>2
  <1>6. (q + 1) * DATASIZE = q * DATASIZE + DATASIZE
    BY <1>1, <1>2
  <1>7. (q - 1) * DATASIZE = q * DATASIZE - DATASIZE
    BY <1>1, <1>2
  <1>8. CASE r = 0
    <2>1. total_count = q /\ length = q * DATASIZE
      BY <1>1, <1>2, <1>4, <1>5, <1>8
    <2>2. q = 0 => q * DATASIZE = 0
      BY <1>1
    <2> QED BY <1>1, <1>2, <1>7, <2>1, <2>2
  <1>9. CASE r # 0
    <2>1. total_count = q + 1 /\ length = q * DATASIZE + r /\ r > 0
      BY <1>1, <1>2, <1>4, <1>5, <1>9
    <2> QED BY <1>1, <1>2, <1>5, <1>6, <2>1
  <1> QED BY <1>8, <1>9

\* A product grows with its first factor.
LEMMA ProductGrows ==
  ASSUME NEW a \in Nat, NEW b \in Nat, NEW d \in Nat, a <= b
  PROVE  a * d <= b * d
  <1>1. b = a + (b - a) /\ b - a \in Nat
    OBVIOUS
  <1>2. b * d = a * d + (b - a) * d
    BY <1>1
  <1>3. (b - a) * d \in Nat /\ a * d \in Nat
    BY <1>1
  <1> QED BY <1>2, <1>3

\* The packet that is next holds bytes of the file; it is marked as the last
\* just when it is the last (sendfile.cpp 98-107, 304).
LEMMA NextPacketFits ==
  ASSUME Fits, SplitInv, to_be_send <= total_count
  PROVE  /\ payload_size \in Nat
         /\ written \in Nat
         /\ Readable = payload_size
         /\ IsEnd <=> to_be_send = total_count
         /\ IsEnd => written + payload_size = length
         /\ ~IsEnd => written + payload_size = to_be_send * DATASIZE
  <1> DEFINE s == to_be_send  done == (s - 1) * DATASIZE
  <1>1. /\ length \in Nat /\ DATASIZE \in Nat /\ DATASIZE > 0 /\ Modulus \in Nat
        /\ length < Modulus /\ s \in Nat /\ s >= 1 /\ length \in Lengths
    BY LengthAssumption DEF SplitInv, Fits
  <1>2. /\ total_count \in Nat /\ total_count > 0 /\ s <= total_count
        /\ length <= total_count * DATASIZE
        /\ (total_count - 1) * DATASIZE < length
    BY <1>1, CountRoundsUp
  <1>3. done \in Nat /\ written = done
    BY <1>1 DEF SplitInv
  <1>4. s * DATASIZE = done + DATASIZE
    BY <1>1
  <1>5. done <= (total_count - 1) * DATASIZE
    BY <1>1, <1>2, ProductGrows
  <1>6. done < length
    <2>1. (total_count - 1) * DATASIZE \in Nat
      BY <1>1, <1>2
    <2> QED BY <1>1, <1>2, <1>3, <1>5, <2>1
  <1>7. total_file_length = length
    BY <1>1, LengthKept DEF total_file_length
  <1>8. left_filesize = length - done /\ length - done \in 1..(Modulus - 1)
    <2>1. length - done \in 1..(Modulus - 1)
      BY <1>1, <1>3, <1>6
    <2> HIDE DEF done
    <2>2. (length - done) % Modulus = length - done
      BY <1>1, <2>1
    <2> QED BY <1>7, <2>1, <2>2 DEF left_filesize, done
  <1> HIDE DEF done
  <1>9. IsEnd <=> length <= s * DATASIZE
    BY <1>1, <1>3, <1>4, <1>8 DEF IsEnd
  <1>10. IsEnd <=> s = total_count
    <2>1. ASSUME s < total_count PROVE s * DATASIZE < length
      <3>1. s * DATASIZE <= (total_count - 1) * DATASIZE
        BY <1>1, <1>2, <2>1, ProductGrows
      <3>2. s * DATASIZE \in Nat /\ (total_count - 1) * DATASIZE \in Nat
        BY <1>1, <1>2
      <3> QED BY <1>1, <1>2, <3>1, <3>2
    <2>2. s * DATASIZE \in Nat
      BY <1>1
    <2> QED BY <1>1, <1>2, <1>9, <2>1, <2>2
  <1>11. payload_size = IF IsEnd THEN length - done ELSE DATASIZE
    BY <1>8 DEF payload_size
  <1>12. length - position = length - done
    BY <1>3 DEF SplitInv
  <1>13. Readable = payload_size
    BY <1>1, <1>3, <1>8, <1>11, <1>12 DEF Readable, IsEnd
  <1> QED BY <1>1, <1>3, <1>4, <1>6, <1>8, <1>10, <1>11, <1>13

-----------------------------------------------------------------------------
\* Before the first packet nothing is written, and only an empty file has no packet.
LEMMA InitSplitInv == ASSUME Fits PROVE Init => SplitInv
  <1> SUFFICES ASSUME Init PROVE SplitInv
    OBVIOUS
  <1>1. length \in Lengths /\ length \in Nat /\ to_be_send = 1
    BY LengthAssumption DEF Init
  <1>2. /\ total_count \in Nat
        /\ length <= total_count * DATASIZE
        /\ length > 0 => total_count > 0
        /\ total_count > 0 => (total_count - 1) * DATASIZE < length
    BY <1>1, CountRoundsUp
  <1>3. (1 - 1) * DATASIZE = 0 /\ DATASIZE \in Nat
    BY LengthAssumption
  <1>4. (to_be_send - 1) * DATASIZE = 0 /\ written = 0 /\ position = 0 /\ endFile = FALSE
    BY <1>1, <1>3 DEF Init
  <1>5. total_count = 0 => total_count * DATASIZE = 0
    BY <1>3
  <1>6. total_count = 0 => length = 0
    BY <1>1, <1>2, <1>5
  <1>7. total_count > 0 => length > 0
    <2> SUFFICES ASSUME total_count > 0 PROVE length > 0
      OBVIOUS
    <2>1. (total_count - 1) * DATASIZE \in Nat
      BY <1>2, <1>3
    <2> QED BY <1>1, <1>2, <2>1
  <1>8. to_be_send <= total_count => ~endFile /\ written = (to_be_send - 1) * DATASIZE
    BY <1>4
  <1>9. to_be_send > total_count => to_be_send = total_count + 1 /\ written = length
    BY <1>1, <1>2, <1>4, <1>6
  <1>10. ~(length > 0 /\ to_be_send = total_count + 1)
    BY <1>1, <1>2, <1>6, <1>7
  <1>11. endFile \in BOOLEAN /\ ~endFile
    BY <1>4
  <1> QED BY <1>1, <1>4, <1>8, <1>9, <1>10, <1>11 DEF SplitInv

\* A packet more is a packet's bytes more, or the rest of the file.
LEMMA NextSplitInv == ASSUME Fits PROVE SplitInv /\ [Next]_vars => SplitInv'
  <1> SUFFICES ASSUME SplitInv, [Next]_vars PROVE SplitInv'
    OBVIOUS
  <1>1. CASE SendData
    <2>1. /\ to_be_send <= total_count /\ to_be_send' = to_be_send + 1
          /\ length' = length /\ written' = written + payload_size
          /\ position' = position + Readable /\ endFile' = (endFile \/ IsEnd)
      BY <1>1 DEF SendData
    <2>2. total_count' = total_count
      BY <2>1 DEF total_count, total_file_length
    <2>3. /\ length \in Lengths /\ to_be_send \in Nat /\ total_count \in Nat
          /\ to_be_send >= 1 /\ ~endFile /\ position = written
          /\ length > 0
      <3>1. length \in Lengths /\ length \in Nat
        BY LengthAssumption DEF SplitInv
      <3>2. total_count \in Nat /\ (total_count > 0 => (total_count - 1) * DATASIZE < length)
        BY <3>1, CountRoundsUp
      <3>3. total_count > 0
        BY <2>1, <3>2 DEF SplitInv
      <3>4. (total_count - 1) * DATASIZE \in Nat
        BY <3>2, <3>3, LengthAssumption
      <3> QED BY <2>1, <3>1, <3>2, <3>3, <3>4 DEF SplitInv
    <2>4. (to_be_send' - 1) * DATASIZE = to_be_send * DATASIZE
      BY <2>1, <2>3
    <2>5. /\ payload_size \in Nat /\ written \in Nat /\ Readable = payload_size
          /\ IsEnd <=> to_be_send = total_count
          /\ IsEnd => written + payload_size = length
          /\ ~IsEnd => written + payload_size = to_be_send * DATASIZE
      BY <2>1, NextPacketFits
    <2>6. CASE IsEnd
      <3>1. to_be_send' = total_count' + 1 /\ written' = length' /\ length' > 0
        BY <2>1, <2>2, <2>3, <2>5, <2>6
      <3>2. endFile' = TRUE
        BY <2>1, <2>6
      <3>3. ~(to_be_send' <= total_count') /\ to_be_send' \in Nat \ {0}
        BY <2>1, <2>2, <2>3, <2>5, <2>6
      <3>4. position' = written' /\ length' \in Lengths
        BY <2>1, <2>3, <2>5
      <3> QED BY <3>1, <3>2, <3>3, <3>4 DEF SplitInv
    <2>7. CASE ~IsEnd
      <3>1. to_be_send' <= total_count'
        BY <2>1, <2>2, <2>3, <2>5, <2>7
      <3> QED BY <2>1, <2>2, <2>3, <2>4, <2>5, <2>7, <3>1 DEF SplitInv
    <2> QED BY <2>6, <2>7
  <1>2. CASE UNCHANGED vars
    BY <1>2 DEF vars, SplitInv, total_count, total_file_length
  <1> QED BY <1>1, <1>2 DEF Next

\* The invariant holds whatever the packet size and the length.
LEMMA SplitInvariance == ASSUME Fits PROVE Spec => []SplitInv
  BY InitSplitInv, NextSplitInv, PTL DEF Spec

\* Whatever the packet size, a file whose length fits in 32 bits is written to
\* its last byte when its last packet is in (sendfile.cpp 98-116, 304).
THEOREM FileIsWhole == ASSUME Fits PROVE Spec => []WholeFile
  <1>1. SplitInv => WholeFile
    <2> SUFFICES ASSUME SplitInv, endFile PROVE written = length
      BY DEF WholeFile
    <2>1. length \in Lengths /\ to_be_send = total_count + 1
      BY DEF SplitInv
    <2>2. total_count \in Nat
      BY <2>1, CountRoundsUp
    <2> QED BY <2>1, <2>2 DEF SplitInv
  <1> QED BY <1>1, SplitInvariance, PTL

\* Whatever the packet size, the packet marked as the last one is the last one,
\* and every file but the empty one has it (sendfile.cpp 98-107, 224-229).
THEOREM LastIsMarked == ASSUME Fits PROVE Spec => []EndIsLast
  <1>1. SplitInv => EndIsLast
    BY DEF SplitInv, EndIsLast
  <1> QED BY <1>1, SplitInvariance, PTL

\* Whatever the packet size, no packet claims a byte that was not read from the
\* file (sendfile.cpp 104, 108).
THEOREM ReadsWhatItSends == ASSUME Fits PROVE Spec => []SendsWhatItReads
  <1>1. SplitInv => SendsWhatItReads
    BY DEF SplitInv, SendsWhatItReads
  <1> QED BY <1>1, SplitInvariance, PTL
=============================================================================
