--------------------------- MODULE LinkStateProofs ---------------------------
(***************************************************************************)
(* Flooding, for every network of routers, with links that die and come up  *)
(* and with any loss.                                                       *)
(***************************************************************************)
EXTENDS LinkState, TLAPS

Packet == [source : Router, seq : Nat, costs : [Router -> Costs \union {Unconnected}]]

\* The part of the type invariant that the proofs need.
FloodType ==
    /\ packets \in Seq(Packet)
    /\ port \in [Router -> [Router -> Costs \union {Unconnected}]]
    /\ seen \in [Router -> SUBSET (0..(Len(packets) - 1))]
    /\ topology \in [Router -> [Router -> Nat]]
    /\ ls_seq_num \in 0..(SeqNums - 1)
    /\ \A m \in sent : m \in Router \X Router \X (1..Len(packets))
    /\ net \subseteq sent /\ lost \subseteq sent

FloodIInv == FloodType /\ FloodInv /\ SentOnce

\* r makes the packet new.
Makes(r, new) ==
    /\ new.source = r /\ new.seq = Len(packets)
    /\ ls_seq_num = Len(packets) /\ Len(packets) < MaxPackets
    /\ packets' = Append(packets, new)
    /\ seen' = [seen EXCEPT ![r] = @ \union {Len(packets)}]
    /\ ls_seq_num' = IF ls_seq_num + 1 = SeqNums THEN 0 ELSE ls_seq_num + 1
    /\ Send(r, Len(packets) + 1, net)

-----------------------------------------------------------------------------
\* A flood either does nothing, or makes one packet that is numbered by its
\* place, since the counter has not come round, and that the router itself then
\* knows (LS.cc 75-107).
LEMMA FloodMakes ==
  ASSUME FloodIInv, NEW r \in Router, NEW p, flooding_lsp(r, p), p[r] \in [Router -> Costs \union {Unconnected}]
  PROVE  UNCHANGED flood \/ \E new \in Packet : Makes(r, new)
  <1>1. CASE Connected(p, r) = {}
    BY <1>1 DEF flooding_lsp
  <1>2. CASE Connected(p, r) # {}
    <2> DEFINE new == [source |-> r, seq |-> SeqNum(r), costs |-> p[r]]
    <2>1. /\ Len(packets) < MaxPackets
          /\ packets' = Append(packets, new)
          /\ seen' = [seen EXCEPT ![r] = @ \union {SeqNum(r)}]
          /\ ls_seq_num' = IF ls_seq_num + 1 = SeqNums THEN 0 ELSE ls_seq_num + 1
          /\ Send(r, Len(packets) + 1, net)
      BY <1>2 DEF flooding_lsp, Announce
    <2>2. Len(packets) \in Nat /\ ls_seq_num = Len(packets)
      <3>1. packets \in Seq(Packet)
        BY DEF FloodIInv, FloodType
      <3>2. /\ SeqNums \in Nat /\ MaxPackets \in Nat /\ MaxPackets <= SeqNums
            /\ Len(packets) \in Nat
        <4>1. SeqNums \in Nat /\ MaxPackets \in 0..SeqNums
          BY LinkAssumption
        <4>2. Len(packets) \in Nat
          BY <3>1
        <4> QED BY <4>1, <4>2
      <3>3. Len(packets) < SeqNums
        BY <2>1, <3>2
      <3> QED BY <3>2, <3>3 DEF FloodIInv, FloodInv
    <2>3. new \in Packet /\ new.source = r /\ new.seq = Len(packets)
      BY <2>2 DEF Packet, SeqNum
    <2>4. SeqNum(r) = Len(packets)
      BY <2>2 DEF SeqNum
    <2> HIDE DEF new
    <2>5. Makes(r, new)
      BY <2>1, <2>2, <2>3, <2>4 DEF Makes
    <2> QED BY <2>3, <2>5
  <1> QED BY <1>1, <1>2

\* Every copy that is sent is under way or dropped (LS.cc 52-56, 101-105).
LEMMA SendCovers ==
  ASSUME NEW r \in Router, NEW i \in Nat, NEW others, Send(r, i, others)
  PROVE  /\ \A n \in Neighbours(r) : <<r, n, i>> \in net' \union lost'
         /\ others \subseteq net'
         /\ lost \subseteq lost'
         /\ net' \union lost' \subseteq others \union lost \union sent'
         /\ \A n \in Neighbours(r) : <<r, n, i>> \in sent'
         /\ sent \subseteq sent'
         /\ \A m \in sent' : m \in sent \/ \E n \in Neighbours(r) : m = <<r, n, i>>
         /\ (\A n \in Neighbours(r) : <<r, n, i>> \notin sent) => resent' = resent
  <1> DEFINE copies == {<<r, n, i>> : n \in Neighbours(r)}
             up == {c \in copies : {c[1], c[2]} \in alive}
  <1>1. /\ net' = others \union up /\ lost' = lost \union (copies \ up)
        /\ sent' = sent \union copies /\ resent' = resent \union (sent \intersect copies)
    BY DEF Send
  <1>2. up \subseteq copies
    OBVIOUS
  <1>3. \A n \in Neighbours(r) : <<r, n, i>> \in copies
    OBVIOUS
  <1>4. \A m \in copies : \E n \in Neighbours(r) : m = <<r, n, i>>
    OBVIOUS
  <1> HIDE DEF copies, up
  <1> QED BY <1>1, <1>2, <1>3, <1>4

-----------------------------------------------------------------------------
\* What the types say of one packet and one copy.
LEMMA PacketFacts ==
  ASSUME FloodIInv
  PROVE  /\ Len(packets) \in Nat /\ DOMAIN packets = 1..Len(packets)
         /\ \A i \in DOMAIN packets : /\ i \in Nat /\ i >= 1
                                      /\ packets[i] \in Packet
                                      /\ packets[i].source \in Router
                                      /\ packets[i].seq = i - 1
                                      /\ Knows(packets[i].source, i)
         /\ \A m \in sent : /\ m[1] \in Router /\ m[2] \in Router
                            /\ m[3] \in DOMAIN packets /\ m = <<m[1], m[2], m[3]>>
         /\ net \subseteq sent /\ lost \subseteq sent
  <1>1. packets \in Seq(Packet) /\ \A m \in sent : m \in Router \X Router \X (1..Len(packets))
    BY DEF FloodIInv, FloodType
  <1>2. Len(packets) \in Nat /\ DOMAIN packets = 1..Len(packets)
    BY <1>1
  <1>3. \A i \in DOMAIN packets : packets[i] \in Packet
    BY <1>1
  <1>4. \A i \in DOMAIN packets : packets[i].source \in Router
    BY <1>3 DEF Packet
  <1>5. \A m \in sent : /\ m[1] \in Router /\ m[2] \in Router
                        /\ m[3] \in 1..Len(packets) /\ m = <<m[1], m[2], m[3]>>
    BY <1>1
  <1>6. net \subseteq sent /\ lost \subseteq sent
    BY DEF FloodIInv, FloodType
  <1> QED BY <1>2, <1>3, <1>4, <1>5, <1>6 DEF FloodIInv, FloodInv

\* A new packet: only its maker knows it, and it is sent to each neighbour.
LEMMA FloodKeepsInv ==
  ASSUME FloodIInv, NEW r \in Router, NEW new \in Packet,
         Makes(r, new),
         port' \in [Router -> [Router -> Costs \union {Unconnected}]],
         topology' \in [Router -> [Router -> Nat]]
  PROVE  FloodIInv'
  <1>0. PICK N \in Nat : N = Len(packets)
    BY PacketFacts
  <1>1. /\ packets \in Seq(Packet) /\ N \in Nat /\ N = Len(packets)
        /\ seen \in [Router -> SUBSET (0..(N - 1))]
        /\ new.source = r /\ new.seq = N /\ N < MaxPackets
        /\ packets' = Append(packets, new) /\ seen' = [seen EXCEPT ![r] = @ \union {N}]
        /\ Send(r, N + 1, net)
    BY <1>0 DEF FloodIInv, FloodType, Makes
  <1>2. /\ packets' \in Seq(Packet) /\ Len(packets') = N + 1
        /\ packets'[N + 1] = new
        /\ \A i \in 1..N : packets'[i] = packets[i]
        /\ DOMAIN packets = 1..N /\ DOMAIN packets' = 1..(N + 1)
    BY <1>1
  <1>3. /\ seen'[r] = seen[r] \union {N}
        /\ \A n \in Router : n # r => seen'[n] = seen[n]
        /\ \A n \in Router : seen[n] \subseteq 0..(N - 1)
    BY <1>1
  <1>4. seen' \in [Router -> SUBSET (0..N)]
    BY <1>1, <1>3
  <1>5. \A i \in 1..N : packets[i].seq = i - 1 /\ packets[i].source \in Router
    BY <1>1, <1>2, PacketFacts
  <1>6. \A n \in Router, i \in 1..N : Knows(n, i)' <=> Knows(n, i)
    <2> TAKE n \in Router, i \in 1..N
    <2>1. packets'[i].seq = i - 1 /\ packets[i].seq = i - 1 /\ i - 1 # N
      BY <1>1, <1>2, <1>5
    <2> QED BY <1>3, <2>1 DEF Knows
  <1>7. \A n \in Router : Knows(n, N + 1)' <=> n = r
    BY <1>1, <1>2, <1>3 DEF Knows
  <1>8. /\ \A n \in Neighbours(r) : <<r, n, N + 1>> \in net' \union lost'
        /\ net \subseteq net' /\ lost \subseteq lost'
        /\ net' \union lost' \subseteq net \union lost \union sent'
        /\ \A n \in Neighbours(r) : <<r, n, N + 1>> \in sent'
        /\ sent \subseteq sent'
        /\ \A m \in sent' : m \in sent \/ \E n \in Neighbours(r) : m = <<r, n, N + 1>>
        /\ (\A n \in Neighbours(r) : <<r, n, N + 1>> \notin sent) => resent' = resent
    BY <1>1, SendCovers
  <1>13. \A m \in sent : m \in Router \X Router \X (1..N)
    BY <1>1 DEF FloodIInv, FloodType
  <1>14. \A n \in Neighbours(r) : <<r, n, N + 1>> \notin sent
    BY <1>1, <1>13
  <1>15. SeqNums \in Nat \ {0} /\ MaxPackets \in 0..SeqNums
    BY LinkAssumption
  <1>16. ls_seq_num = N /\ ls_seq_num' = IF N + 1 = SeqNums THEN 0 ELSE N + 1
    BY <1>1 DEF Makes
  <1>9. FloodType'
    <2>1. \A m \in sent' : m \in Router \X Router \X (1..(N + 1))
      <3>2. 1..N \subseteq 1..(N + 1) /\ N + 1 \in 1..(N + 1)
        BY <1>1
      <3>3. \A m \in sent : m \in Router \X Router \X (1..(N + 1))
        BY <1>13, <3>2
      <3>4. \A n \in Neighbours(r) : <<r, n, N + 1>> \in Router \X Router \X (1..(N + 1))
        BY <3>2 DEF Neighbours
      <3> QED BY <1>8, <3>3, <3>4
    <2>2. net' \subseteq sent' /\ lost' \subseteq sent'
      BY <1>8, PacketFacts
    <2>3. ls_seq_num' \in 0..(SeqNums - 1)
      BY <1>1, <1>15, <1>16
    <2> QED BY <1>1, <1>2, <1>4, <2>1, <2>2, <2>3 DEF FloodType
  <1>10. \A i \in DOMAIN packets' : packets'[i].seq = i - 1
    BY <1>1, <1>2, <1>5
  <1>11. \A i \in DOMAIN packets' : Knows(packets[i].source, i)'
    <2> TAKE i \in DOMAIN packets'
    <2>1. CASE i = N + 1
      BY <1>1, <1>2, <1>7, <2>1
    <2>2. CASE i # N + 1
      <3>1. i \in 1..N /\ packets'[i].source = packets[i].source
        BY <1>1, <1>2, <2>2
      <3> QED BY <1>2, <1>5, <1>6, <3>1, PacketFacts
    <2> QED BY <2>1, <2>2
  <1>12. ASSUME NEW a \in Arcs, NEW i \in DOMAIN packets'
         PROVE  /\ Knows(a[1], i)' <=> <<a[1], a[2], i>> \in sent'
                /\ Knows(a[1], i)' => Knows(a[2], i)' \/ <<a[1], a[2], i>> \in net' \union lost'
    <2>1. a[1] \in Router /\ a[2] \in Router /\ a[2] \in Neighbours(a[1])
      BY DEF Arcs, Neighbours
    <2>2. CASE i = N + 1
      <3>1. <<a[1], a[2], i>> \notin sent
        BY <1>1, <1>13, <2>2
      <3>2. <<a[1], a[2], i>> \in sent' <=> a[1] = r
        BY <1>8, <2>1, <2>2, <3>1
      <3> QED BY <1>7, <1>8, <2>1, <2>2, <3>2
    <2>3. CASE i # N + 1
      <3>1. i \in 1..N
        BY <1>1, <1>2, <2>3
      <3>2. /\ Knows(a[1], i) => Knows(a[2], i) \/ <<a[1], a[2], i>> \in net \union lost
            /\ Knows(a[1], i) <=> <<a[1], a[2], i>> \in sent
        BY <1>2, <3>1 DEF FloodIInv, FloodInv
      <3>3. <<a[1], a[2], i>> \in sent' <=> <<a[1], a[2], i>> \in sent
        BY <1>8, <2>3
      <3> QED BY <1>6, <1>8, <2>1, <3>1, <3>2, <3>3
    <2> QED BY <2>2, <2>3
  <1>17. /\ Len(packets') <= MaxPackets
         /\ Len(packets') < SeqNums => ls_seq_num' = Len(packets')
    BY <1>1, <1>2, <1>15, <1>16
  <1>18. SentOnce'
    BY <1>8, <1>14 DEF FloodIInv, SentOnce
  <1>19. FloodInv'
    BY <1>10, <1>11, <1>12, <1>17 DEF FloodInv
  <1> QED BY <1>9, <1>18, <1>19 DEF FloodIInv

\* Where no packet is made and no knowledge and no copy goes, nothing changes.
LEMMA QuietKeepsInv ==
  ASSUME FloodIInv, UNCHANGED <<ls_seq_num, packets, seen, sent, resent>>,
         net' \subseteq net, lost' \subseteq net \union lost, net \union lost \subseteq net' \union lost',
         port' \in [Router -> [Router -> Costs \union {Unconnected}]],
         topology' \in [Router -> [Router -> Nat]]
  PROVE  FloodIInv'
  <1>1. FloodType'
    BY DEF FloodIInv, FloodType
  <1>2. FloodInv'
    BY DEF FloodIInv, FloodInv, Knows, Arcs
  <1>3. SentOnce'
    BY DEF FloodIInv, SentOnce
  <1> QED BY <1>1, <1>2, <1>3 DEF FloodIInv

\* A flood with new ports, or none.
LEMMA MayFlood ==
  ASSUME FloodIInv, NEW r \in Router, flooding_lsp(r, port') \/ UNCHANGED flood,
         port' \in [Router -> [Router -> Costs \union {Unconnected}]],
         topology' \in [Router -> [Router -> Nat]]
  PROVE  FloodIInv'
  <1>1. CASE UNCHANGED flood
    BY <1>1, QuietKeepsInv DEF flood
  <1>2. CASE flooding_lsp(r, port')
    <2>1. port'[r] \in [Router -> Costs \union {Unconnected}]
      OBVIOUS
    <2>2. UNCHANGED flood \/ \E new \in Packet : Makes(r, new)
      BY <1>2, <2>1, FloodMakes
    <2> QED BY <1>1, <2>2, FloodKeepsInv
  <1> QED BY <1>1, <1>2

\* A packet that is new to a router: it learns it and passes it on.
LEMMA RecvNewKeepsInv ==
  ASSUME FloodIInv, NEW m \in net, RecvNew(m)
  PROVE  FloodIInv'
  <1> DEFINE r == m[2]  i == m[3]
  <1>1. /\ m \in Router \X Router \X (1..Len(packets)) /\ r \in Router /\ i \in Nat
        /\ i \in DOMAIN packets /\ m = <<m[1], r, i>>
        /\ packets[i].source \in Router /\ packets[i].seq = i - 1
        /\ seen \in [Router -> SUBSET (0..(Len(packets) - 1))]
    <2>1. m \in Router \X Router \X (1..Len(packets))
      BY PacketFacts DEF FloodIInv, FloodType
    <2>2. seen \in [Router -> SUBSET (0..(Len(packets) - 1))]
      BY DEF FloodIInv, FloodType
    <2> QED BY <2>1, <2>2, PacketFacts
  <1>2. /\ seen' = [seen EXCEPT ![r] = @ \union {packets[i].seq}]
        /\ topology' = [topology EXCEPT ![r][packets[i].source] = i]
        /\ Send(r, i, net \ {m})
        /\ packets' = packets /\ port' = port /\ ls_seq_num' = ls_seq_num
        /\ ~Knows(r, i)
    BY DEF RecvNew, IsNew
  <1> HIDE DEF r, i
  <1>3. /\ \A n \in Neighbours(r) : <<r, n, i>> \in net' \union lost'
        /\ net \ {m} \subseteq net' /\ lost \subseteq lost'
        /\ net' \union lost' \subseteq net \union lost \union sent'
        /\ \A n \in Neighbours(r) : <<r, n, i>> \in sent'
        /\ sent \subseteq sent'
        /\ \A c \in sent' : c \in sent \/ \E n \in Neighbours(r) : c = <<r, n, i>>
        /\ (\A n \in Neighbours(r) : <<r, n, i>> \notin sent) => resent' = resent
    BY <1>1, <1>2, SendCovers
  <1>8. \A n \in Neighbours(r) : <<r, n, i>> \notin sent
    <2> SUFFICES ASSUME NEW n \in Neighbours(r) PROVE <<r, n, i>> \notin sent
      OBVIOUS
    <2>1. <<r, n>> \in Arcs
      BY <1>1 DEF Arcs, Neighbours
    <2> QED BY <1>1, <1>2, <2>1 DEF FloodIInv, FloodInv
  <1>4. \A n \in Router, j \in DOMAIN packets :
            Knows(n, j)' <=> Knows(n, j) \/ (n = r /\ j = i)
    <2> TAKE n \in Router, j \in DOMAIN packets
    <2>1. packets[j].seq = j - 1
      BY DEF FloodIInv, FloodInv
    <2>2. j \in Nat
      BY DEF FloodIInv, FloodType
    <2> QED BY <1>1, <1>2, <2>1, <2>2 DEF Knows
  <1>5. FloodType'
    <2>1. topology' \in [Router -> [Router -> Nat]]
      BY <1>1, <1>2 DEF FloodIInv, FloodType
    <2>2. seen' \in [Router -> SUBSET (0..(Len(packets) - 1))]
      <3>1. i - 1 \in 0..(Len(packets) - 1)
        BY <1>1 DEF FloodIInv, FloodType
      <3> QED BY <1>1, <1>2, <3>1
    <2>3. \A c \in sent' : c \in Router \X Router \X (1..Len(packets))
      <3>1. \A c \in sent : c \in Router \X Router \X (1..Len(packets))
        BY DEF FloodIInv, FloodType
      <3>2. \A n \in Neighbours(r) : <<r, n, i>> \in Router \X Router \X (1..Len(packets))
        BY <1>1, PacketFacts DEF Neighbours
      <3> QED BY <1>3, <3>1, <3>2
    <2>4. net' \subseteq sent' /\ lost' \subseteq sent'
      BY <1>3, PacketFacts
    <2> QED BY <1>2, <2>1, <2>2, <2>3, <2>4 DEF FloodIInv, FloodType
  <1>6. \A j \in DOMAIN packets : Knows(packets[j].source, j)'
    <2> TAKE j \in DOMAIN packets
    <2>1. packets[j].source \in Router /\ Knows(packets[j].source, j)
      BY PacketFacts
    <2> QED BY <1>2, <1>4, <2>1
  <1>7. ASSUME NEW a \in Arcs, NEW j \in DOMAIN packets
        PROVE  /\ Knows(a[1], j)' <=> <<a[1], a[2], j>> \in sent'
               /\ Knows(a[1], j)' => Knows(a[2], j)' \/ <<a[1], a[2], j>> \in net' \union lost'
    <2>1. a[1] \in Router /\ a[2] \in Router /\ a[2] \in Neighbours(a[1])
      BY DEF Arcs, Neighbours
    <2>2. CASE a[1] = r /\ j = i
      BY <1>3, <1>4, <2>1, <2>2
    <2>3. CASE ~(a[1] = r /\ j = i)
      <3>1. /\ Knows(a[1], j) => Knows(a[2], j) \/ <<a[1], a[2], j>> \in net \union lost
            /\ Knows(a[1], j) <=> <<a[1], a[2], j>> \in sent
        BY DEF FloodIInv, FloodInv
      <3>4. <<a[1], a[2], j>> \in sent' <=> <<a[1], a[2], j>> \in sent
        BY <1>3, <2>3
      <3>5. Knows(a[1], j)' <=> Knows(a[1], j)
        BY <1>4, <2>1, <2>3
      <3>2. CASE <<a[1], a[2], j>> = m
        BY <1>1, <1>4, <2>1, <3>1, <3>2, <3>4, <3>5
      <3>3. CASE <<a[1], a[2], j>> # m
        BY <1>3, <1>4, <2>1, <3>1, <3>3, <3>4, <3>5
      <3> QED BY <3>2, <3>3
    <2> QED BY <2>2, <2>3
  <1>9. SentOnce'
    BY <1>3, <1>8 DEF FloodIInv, SentOnce
  <1>10. FloodInv'
    BY <1>2, <1>6, <1>7 DEF FloodIInv, FloodInv
  <1> QED BY <1>5, <1>9, <1>10 DEF FloodIInv

\* A packet that is refused is known already, by its source as well.
LEMMA RecvKnownKeepsInv ==
  ASSUME FloodIInv, NEW m \in net, RecvKnown(m)
  PROVE  FloodIInv'
  <1>1. /\ m \in Router \X Router \X (1..Len(packets)) /\ m[3] \in DOMAIN packets
        /\ m = <<m[1], m[2], m[3]>> /\ Knows(packets[m[3]].source, m[3])
    BY PacketFacts DEF FloodIInv, FloodType
  <1>2. Knows(m[2], m[3])
    BY <1>1 DEF RecvKnown, IsNew
  <1>3. net' = net \ {m} /\ UNCHANGED <<port, topology, ls_seq_num, seen, packets, lost, sent, resent>>
    BY DEF RecvKnown
  <1>4. FloodType'
    BY <1>3 DEF FloodIInv, FloodType
  <1>5. ASSUME NEW a \in Arcs, NEW j \in DOMAIN packets, Knows(a[1], j)
        PROVE  Knows(a[2], j) \/ <<a[1], a[2], j>> \in net' \union lost
    <2>1. Knows(a[2], j) \/ <<a[1], a[2], j>> \in net \union lost
      BY <1>5 DEF FloodIInv, FloodInv
    <2>2. CASE <<a[1], a[2], j>> = m
      BY <1>1, <1>2, <2>2
    <2>3. CASE <<a[1], a[2], j>> # m
      BY <1>3, <2>1, <2>3
    <2> QED BY <2>2, <2>3
  <1>6. FloodInv'
    BY <1>3, <1>5 DEF FloodIInv, FloodInv, Knows, Arcs
  <1> QED BY <1>3, <1>4, <1>6 DEF FloodIInv, SentOnce

-----------------------------------------------------------------------------
\* At the start nobody knows anything.
LEMMA InitFlood == Init => FloodIInv
  <1> SUFFICES ASSUME Init PROVE FloodIInv
    OBVIOUS
  <1>1. packets = <<>> /\ Len(packets) = 0 /\ DOMAIN packets = {}
    BY DEF Init
  <1>2. FloodType
    <2>1. SeqNums \in Nat \ {0}
      BY LinkAssumption
    <2>2. 0 \in 0..(SeqNums - 1)
      BY <2>1
    <2> QED BY <1>1, <2>2 DEF Init, FloodType, None, Unconnected
  <1>3. FloodInv /\ SentOnce
    <2>1. 0 <= MaxPackets
      BY LinkAssumption
    <2> QED BY <1>1, <2>1 DEF Init, FloodInv, SentOnce
  <1> QED BY <1>2, <1>3 DEF FloodIInv

LEMMA NextFlood == FloodIInv /\ [Next]_vars => FloodIInv'
  <1> SUFFICES ASSUME FloodIInv, [Next]_vars PROVE FloodIInv'
    OBVIOUS
  <1> DEFINE PortType == [Router -> [Router -> Costs \union {Unconnected}]]
             TopologyType == [Router -> [Router -> Nat]]
  <1>1. port \in PortType /\ topology \in TopologyType
    BY DEF FloodIInv, FloodType
  <1>2. ASSUME NEW r \in Router, NEW n \in Neighbours(r), RecvPong(r, n) PROVE FloodIInv'
    <2>1. PICK rtt \in Costs :
             /\ port' = [port EXCEPT ![r][n] = rtt]
             /\ \/ flooding_lsp(r, [port EXCEPT ![r][n] = rtt])
                \/ UNCHANGED flood
      BY <1>2 DEF RecvPong
    <2>2. port' \in PortType /\ topology' \in TopologyType
      BY <1>1, <1>2, <2>1 DEF RecvPong, Neighbours
    <2>3. flooding_lsp(r, port') \/ UNCHANGED flood
      BY <2>1
    <2> QED BY <2>2, <2>3, MayFlood
  <1>3. ASSUME NEW r \in Router, ExpireAlarm(r) PROVE FloodIInv'
    <2>1. PICK gone \in SUBSET Connected(port, r),
               old \in SUBSET {s \in Router : Aging /\ topology[r][s] # None} :
             /\ port' = [port EXCEPT ![r] = [n \in Router |-> IF n \in gone THEN Unconnected ELSE @[n]]]
             /\ topology' = Forgotten(r, gone \union old)
             /\ \/ flooding_lsp(r, [port EXCEPT ![r] = [n \in Router |-> IF n \in gone THEN Unconnected ELSE @[n]]])
                \/ UNCHANGED flood
      BY <1>3 DEF ExpireAlarm
    <2>2. port' \in PortType /\ topology' \in TopologyType
      BY <1>1, <2>1 DEF None, Unconnected, Forgotten
    <2>3. flooding_lsp(r, port') \/ UNCHANGED flood
      BY <2>1
    <2> QED BY <2>2, <2>3, MayFlood
  <1>4. ASSUME NEW r \in Router, LSAlarm(r) PROVE FloodIInv'
    BY <1>1, <1>4, MayFlood DEF LSAlarm
  <1>5. ASSUME NEW m \in net, RecvKnown(m) PROVE FloodIInv'
    BY <1>5, RecvKnownKeepsInv
  <1>6. ASSUME NEW m \in net, RecvNew(m) PROVE FloodIInv'
    BY <1>6, RecvNewKeepsInv
  <1>7. ASSUME NEW m \in net, Lose(m) PROVE FloodIInv'
    BY <1>1, <1>7, QuietKeepsInv DEF Lose
  <1>8. ASSUME NEW l \in Link, LinkDies(l) \/ LinkComesUp(l) PROVE FloodIInv'
    BY <1>1, <1>8, QuietKeepsInv DEF LinkDies, LinkComesUp, flood
  <1>9. CASE UNCHANGED vars
    BY <1>1, <1>9, QuietKeepsInv DEF vars, flood
  <1> QED BY <1>2, <1>3, <1>4, <1>5, <1>6, <1>7, <1>8, <1>9 DEF Next, RouterNext, NetNext

\* The invariant of flooding, for every network.
THEOREM FloodInvariance == Spec => []FloodInv
  <1>1. FloodIInv => FloodInv
    BY DEF FloodIInv
  <1> QED BY <1>1, InitFlood, NextFlood, PTL DEF Spec

\* In every network, what a router has sent each neighbour has sent as well, or it
\* is on its way there, or the network has dropped it (LS.cc 42-56, 84-105).
THEOREM FloodIsWhole == Spec => []FloodHasNoHole
  <1>1. FloodIInv => FloodHasNoHole
    <2> SUFFICES ASSUME FloodIInv, NEW a \in Arcs, NEW i \in DOMAIN packets, Passed(a[1], i)
                 PROVE  Passed(a[2], i) \/ <<a[1], a[2], i>> \in net \union lost
      BY DEF FloodHasNoHole
    <2>1. /\ <<a[2], a[1]>> \in Arcs /\ a[1] \in Neighbours(a[2])
          /\ \A n \in Neighbours(a[1]) : <<a[1], n>> \in Arcs
      BY DEF Arcs, Neighbours
    <2>2. Knows(a[1], i)
      BY <2>1 DEF Passed, FloodIInv, FloodInv
    <2>3. Knows(a[2], i) => <<a[2], a[1], i>> \in sent
      BY <2>1 DEF FloodIInv, FloodInv
    <2>4. Knows(a[2], i) \/ <<a[1], a[2], i>> \in net \union lost
      BY <2>2 DEF FloodIInv, FloodInv
    <2> QED BY <2>1, <2>3, <2>4 DEF Passed
  <1> QED BY <1>1, InitFlood, NextFlood, PTL DEF Spec

\* In every network a number names one packet, as long as no more packets are
\* made than ls_seq_num has values (LS.cc 15 and 84-87).
THEOREM NumbersNameOne == Spec => []NumbersAreUnique
  <1>1. FloodIInv => NumbersAreUnique
    <2> SUFFICES ASSUME FloodIInv, NEW i \in DOMAIN packets, NEW j \in DOMAIN packets,
                        packets[i].seq = packets[j].seq
                 PROVE  i = j
      BY DEF NumbersAreUnique
    <2>1. i \in Nat /\ j \in Nat
      BY DEF FloodIInv, FloodType
    <2> QED BY <2>1 DEF FloodIInv, FloodInv
  <1> QED BY <1>1, InitFlood, NextFlood, PTL DEF Spec

\* In every network, with cycles and whatever order copies come in, no router sends
\* a packet a second time over the same link (LS.cc 42-46).
THEOREM LeavesOnce == Spec => []SentOnce
  <1>1. FloodIInv => SentOnce
    BY DEF FloodIInv
  <1> QED BY <1>1, InitFlood, NextFlood, PTL DEF Spec

-----------------------------------------------------------------------------
AnnouncedBy(r) ==
    Connected(port, r) # {} =>
        \E i \in DOMAIN packets : IsLast(r, i) /\ packets[i].costs = port[r]

\* What a router has announced stays announced while its ports stay as they are
\* and it makes no packet.
LEMMA StaysAnnounced ==
  ASSUME FloodIInv, NEW q \in Router, AnnouncedBy(q), port'[q] = port[q],
         \/ packets' = packets
         \/ \E new \in Packet : packets' = Append(packets, new) /\ new.source # q
  PROVE  AnnouncedBy(q)'
  <1>1. Connected(port', q) = Connected(port, q)
    BY DEF Connected
  <1> SUFFICES ASSUME Connected(port, q) # {}
               PROVE  \E i \in DOMAIN packets' : IsLast(q, i)' /\ packets'[i].costs = port'[q]
    BY <1>1 DEF AnnouncedBy
  <1>2. PICK i \in DOMAIN packets : IsLast(q, i) /\ packets[i].costs = port[q]
    BY DEF AnnouncedBy
  <1>3. CASE packets' = packets
    BY <1>2, <1>3 DEF IsLast
  <1>4. ASSUME NEW new \in Packet, packets' = Append(packets, new), new.source # q
        PROVE  \E k \in DOMAIN packets' : IsLast(q, k)' /\ packets'[k].costs = port'[q]
    <2>1. /\ Len(packets) \in Nat /\ DOMAIN packets = 1..Len(packets) /\ packets \in Seq(Packet)
      BY PacketFacts DEF FloodIInv, FloodType
    <2>2. /\ DOMAIN packets' = 1..(Len(packets) + 1) /\ packets'[Len(packets) + 1] = new
          /\ \A j \in 1..Len(packets) : packets'[j] = packets[j]
      <3>1. packets \in Seq(Packet) /\ new \in Packet /\ packets' = Append(packets, new)
        BY <1>4, <2>1
      <3>2. Len(packets') = Len(packets) + 1 /\ packets' \in Seq(Packet)
        BY <3>1
      <3>3. packets'[Len(packets) + 1] = new
        BY <3>1
      <3>4. \A j \in 1..Len(packets) : packets'[j] = packets[j]
        BY <3>1
      <3> QED BY <3>2, <3>3, <3>4
    <2>3. i \in DOMAIN packets' /\ packets'[i] = packets[i]
      BY <2>1, <2>2
    <2>4. ASSUME NEW j \in DOMAIN packets', j > i PROVE packets'[j].source # q
      <3>1. CASE j = Len(packets) + 1
        BY <1>4, <2>2, <3>1
      <3>2. CASE j # Len(packets) + 1
        <4>1. j \in DOMAIN packets /\ packets'[j] = packets[j]
          BY <2>1, <2>2, <3>2
        <4> QED BY <1>2, <2>4, <4>1 DEF IsLast
      <3> QED BY <3>1, <3>2
    <2>5. IsLast(q, i)'
      BY <1>2, <2>3, <2>4 DEF IsLast
    <2> QED BY <1>2, <2>3, <2>5
  <1> QED BY <1>3, <1>4

\* After a flood with the ports it has, a router has announced them.
LEMMA FloodAnnounces ==
  ASSUME FloodIInv, NEW r \in Router, flooding_lsp(r, port'),
         port' \in [Router -> [Router -> Costs \union {Unconnected}]]
  PROVE  AnnouncedBy(r)'
  <1> SUFFICES ASSUME Connected(port', r) # {}
               PROVE  \E i \in DOMAIN packets' : IsLast(r, i)' /\ packets'[i].costs = port'[r]
    BY DEF AnnouncedBy
  <1> DEFINE new == [source |-> r, seq |-> SeqNum(r), costs |-> port'[r]]
  <1>1. packets' = Append(packets, new)
    BY DEF flooding_lsp, Announce
  <1>2. /\ Len(packets) \in Nat /\ packets \in Seq(Packet) /\ new \in Packet
    BY PacketFacts DEF FloodIInv, FloodType, Packet, SeqNum
  <1>3. /\ DOMAIN packets' = 1..(Len(packets) + 1) /\ packets'[Len(packets) + 1] = new
    BY <1>1, <1>2
  <1>4. PICK k \in Nat : k = Len(packets) + 1
    BY <1>2
  <1>5. k \in DOMAIN packets' /\ packets'[k] = new /\ \A j \in DOMAIN packets' : ~(j > k)
    BY <1>2, <1>3, <1>4
  <1>6. IsLast(r, k)'
    BY <1>5 DEF IsLast
  <1> QED BY <1>5, <1>6

\* A router that may flood with its new ports: all are announced after it.
LEMMA AnnouncedKept ==
  ASSUME FloodIInv, AnnouncedIsCurrent, NEW r \in Router,
         port' \in [Router -> [Router -> Costs \union {Unconnected}]],
         \A q \in Router : q # r => port'[q] = port[q],
         \/ flooding_lsp(r, port')
         \/ port'[r] = port[r] /\ packets' = packets
  PROVE  AnnouncedIsCurrent'
  <1>1. \A q \in Router : AnnouncedBy(q)
    BY DEF AnnouncedIsCurrent, AnnouncedBy
  <1>2. ASSUME NEW q \in Router, q # r PROVE AnnouncedBy(q)'
    <2>1. port'[r] \in [Router -> Costs \union {Unconnected}]
      OBVIOUS
    <2>2. \/ packets' = packets
          \/ \E new \in Packet : packets' = Append(packets, new) /\ new.source = r
      BY <2>1, FloodMakes DEF Makes, flood
    <2> QED BY <1>1, <1>2, <2>2, StaysAnnounced
  <1>3. AnnouncedBy(r)'
    BY <1>1, FloodAnnounces, StaysAnnounced
  <1> QED BY <1>2, <1>3 DEF AnnouncedIsCurrent, AnnouncedBy

\* In every network, the last packet of a router tells its present neighbours
\* and costs, unless it has none left (PINGPONG.cc 47-72, 132-153).
THEOREM AnnouncementsAreCurrent == Spec => []AnnouncedIsCurrent
  <1> DEFINE PortType == [Router -> [Router -> Costs \union {Unconnected}]]
  <1>1. Init => AnnouncedIsCurrent
    <2> SUFFICES ASSUME Init, NEW r \in Router PROVE Connected(port, r) = {}
      BY DEF AnnouncedIsCurrent
    <2>1. \A n \in Router : port[r][n] = Unconnected
      BY DEF Init
    <2> QED BY <2>1 DEF Connected, Neighbours
  <1>2. FloodIInv /\ FloodIInv' /\ AnnouncedIsCurrent /\ [Next]_vars => AnnouncedIsCurrent'
    <2> SUFFICES ASSUME FloodIInv, FloodIInv', AnnouncedIsCurrent, [Next]_vars
                 PROVE  AnnouncedIsCurrent'
      OBVIOUS
    <2>1. port \in PortType /\ port' \in PortType
      BY DEF FloodIInv, FloodType
    <2>2. ASSUME NEW r \in Router, NEW n \in Neighbours(r), RecvPong(r, n)
          PROVE  AnnouncedIsCurrent'
      <3>1. PICK rtt \in Costs :
              /\ port' = [port EXCEPT ![r][n] = rtt]
              /\ IF port[r][n] # rtt THEN flooding_lsp(r, [port EXCEPT ![r][n] = rtt])
                                     ELSE UNCHANGED flood
        BY <2>2 DEF RecvPong
      <3>2. \A q \in Router : q # r => port'[q] = port[q]
        BY <2>1, <3>1
      <3>3. CASE port[r][n] # rtt
        BY <2>1, <3>1, <3>2, <3>3, AnnouncedKept
      <3>4. CASE port[r][n] = rtt
        <4>1. port'[r] = port[r]
          BY <2>1, <3>1, <3>4
        <4>2. packets' = packets
          BY <3>1, <3>4 DEF flood
        <4> QED BY <2>1, <3>2, <4>1, <4>2, AnnouncedKept
      <3> QED BY <3>3, <3>4
    <2>3. ASSUME NEW r \in Router, ExpireAlarm(r) PROVE AnnouncedIsCurrent'
      <3>1. PICK gone \in SUBSET Connected(port, r) :
              LET p == [port EXCEPT ![r] = [n \in Router |-> IF n \in gone THEN Unconnected ELSE @[n]]]
              IN  /\ port' = p
                  /\ IF gone # {} THEN flooding_lsp(r, p)
                                  ELSE UNCHANGED flood
        BY <2>3 DEF ExpireAlarm
      <3>2. \A q \in Router : q # r => port'[q] = port[q]
        BY <2>1, <3>1
      <3>3. CASE gone # {}
        <4>1. flooding_lsp(r, port')
          BY <3>1, <3>3
        <4> QED BY <2>1, <3>2, <4>1, AnnouncedKept
      <3>4. CASE gone = {}
        <4>1. port'[r] = port[r] /\ packets' = packets
          BY <2>1, <3>1, <3>4 DEF flood
        <4> QED BY <2>1, <3>2, <4>1, AnnouncedKept
      <3> QED BY <3>3, <3>4
    <2>4. ASSUME NEW r \in Router, LSAlarm(r) PROVE AnnouncedIsCurrent'
      BY <2>1, <2>4, AnnouncedKept DEF LSAlarm
    <2>5. ASSUME UNCHANGED <<port, packets>> PROVE AnnouncedIsCurrent'
      BY <2>5 DEF AnnouncedIsCurrent, IsLast, Connected
    <2> QED BY <2>2, <2>3, <2>4, <2>5
         DEF Next, RouterNext, NetNext, RecvKnown, RecvNew, Lose, LinkDies, LinkComesUp, flood, vars
  <1> QED BY <1>1, <1>2, InitFlood, NextFlood, PTL DEF Spec

-----------------------------------------------------------------------------
(* Types.  The one part that needs more than the flood: no copy is both under *)
(* way and dropped, for it is sent once.                                      *)

TypeIInv ==
    /\ alive \subseteq Link /\ late \subseteq Arcs
    /\ topology \in [Router -> [Router -> 0..Len(packets)]]
    /\ \A c \in sent : c[2] \in Neighbours(c[1])
    /\ net \intersect lost = {}

\* Copies are sent that were not sent before.
LEMMA SendKeepsCopies ==
  ASSUME FloodIInv, TypeIInv, NEW r \in Router, NEW i \in Nat,
         NEW others \in SUBSET net, Send(r, i, others),
         \A n \in Neighbours(r) : <<r, n, i>> \notin sent
  PROVE  /\ \A c \in sent' : c[2] \in Neighbours(c[1])
         /\ net' \intersect lost' = {}
  <1> DEFINE copies == {<<r, n, i>> : n \in Neighbours(r)}
             up == {c \in copies : {c[1], c[2]} \in alive}
  <1>1. net' = others \union up /\ lost' = lost \union (copies \ up) /\ sent' = sent \union copies
    BY DEF Send
  <1>2. up \subseteq copies /\ copies \intersect sent = {}
    OBVIOUS
  <1>3. \A c \in copies : c[2] \in Neighbours(c[1])
    OBVIOUS
  <1>4. net \intersect lost = {} /\ net \subseteq sent /\ lost \subseteq sent
    BY PacketFacts DEF TypeIInv
  <1>5. \A c \in sent : c[2] \in Neighbours(c[1])
    BY DEF TypeIInv
  <1> HIDE DEF copies, up
  <1>6. \A c \in sent' : c[2] \in Neighbours(c[1])
    BY <1>1, <1>3, <1>5
  <1>7. net' \intersect lost' = {}
    BY <1>1, <1>2, <1>4
  <1> QED BY <1>6, <1>7

\* A flood, or none.
LEMMA FloodKeepsTypes ==
  ASSUME FloodIInv, TypeIInv, NEW r \in Router, NEW p,
         p[r] \in [Router -> Costs \union {Unconnected}],
         flooding_lsp(r, p) \/ UNCHANGED flood,
         alive' \subseteq Link, late' \subseteq Arcs,
         topology' \in [Router -> [Router -> 0..Len(packets)]]
  PROVE  TypeIInv'
  <1>1. PICK N \in Nat : N = Len(packets)
    BY PacketFacts
  <1>2. CASE UNCHANGED flood
    BY <1>2 DEF TypeIInv, flood
  <1>3. ASSUME NEW new \in Packet, Makes(r, new) PROVE TypeIInv'
    <2>1. packets \in Seq(Packet) /\ packets' = Append(packets, new) /\ Send(r, N + 1, net)
      BY <1>1, <1>3 DEF FloodIInv, FloodType, Makes
    <2>2. Len(packets') = N + 1
      BY <1>1, <2>1
    <2>3. \A n \in Neighbours(r) : <<r, n, N + 1>> \notin sent
      <3>1. \A m \in sent : m \in Router \X Router \X (1..N)
        BY <1>1 DEF FloodIInv, FloodType
      <3> QED BY <3>1
    <2>4. /\ \A c \in sent' : c[2] \in Neighbours(c[1])
          /\ net' \intersect lost' = {}
      <3>1. N + 1 \in Nat /\ net \in SUBSET net
        BY <1>1
      <3> QED BY <2>1, <2>3, <3>1, SendKeepsCopies
    <2>5. topology' \in [Router -> [Router -> 0..(N + 1)]]
      <3>1. 0..N \subseteq 0..(N + 1)
        OBVIOUS
      <3> QED BY <1>1, <3>1
    <2> QED BY <2>2, <2>4, <2>5 DEF TypeIInv
  <1>4. CASE flooding_lsp(r, p)
    BY <1>2, <1>3, <1>4, FloodMakes
  <1> QED BY <1>2, <1>4

LEMMA RecvNewKeepsTypes ==
  ASSUME FloodIInv, TypeIInv, NEW m \in net, RecvNew(m)
  PROVE  TypeIInv'
  <1> DEFINE r == m[2]  i == m[3]
  <1>1. /\ r \in Router /\ i \in DOMAIN packets /\ i \in Nat /\ i \in 1..Len(packets)
        /\ packets[i].source \in Router
        /\ topology \in [Router -> [Router -> 0..Len(packets)]]
    BY PacketFacts DEF TypeIInv
  <1>2. /\ ~Knows(r, i)
        /\ topology' = [topology EXCEPT ![r][packets[i].source] = i]
        /\ Send(r, i, net \ {m}) /\ UNCHANGED <<alive, late, packets>>
    BY DEF RecvNew, IsNew
  <1> HIDE DEF r, i
  <1>3. \A n \in Neighbours(r) : <<r, n, i>> \notin sent
    <2> SUFFICES ASSUME NEW n \in Neighbours(r) PROVE <<r, n, i>> \notin sent
      OBVIOUS
    <2>1. <<r, n>> \in Arcs
      BY <1>1 DEF Arcs, Neighbours
    <2> QED BY <1>1, <1>2, <2>1 DEF FloodIInv, FloodInv
  <1>4. /\ \A c \in sent' : c[2] \in Neighbours(c[1])
        /\ net' \intersect lost' = {}
    BY <1>1, <1>2, <1>3, SendKeepsCopies
  <1>5. topology' \in [Router -> [Router -> 0..Len(packets)]]
    BY <1>1, <1>2
  <1> QED BY <1>2, <1>4, <1>5 DEF TypeIInv

\* Nothing is sent and no topology is learnt.
LEMMA QuietKeepsTypes ==
  ASSUME TypeIInv, UNCHANGED <<packets, sent, topology>>, net' \intersect lost' = {},
         alive' \subseteq Link, late' \subseteq Arcs
  PROVE  TypeIInv'
BY DEF TypeIInv

\* Types in every network; what is dropped is under way no more.
THEOREM LinkTyped == Spec => []TypeOK
  <1>1. Init => TypeIInv
    <2> SUFFICES ASSUME Init PROVE TypeIInv
      OBVIOUS
    <2>1. Len(packets) = 0 /\ 0 \in 0..Len(packets)
      BY DEF Init
    <2> QED BY <2>1 DEF Init, TypeIInv, None
  <1>2. FloodIInv /\ TypeIInv /\ [Next]_vars => TypeIInv'
    <2> SUFFICES ASSUME FloodIInv, TypeIInv, [Next]_vars PROVE TypeIInv'
      OBVIOUS
    <2> DEFINE PortType == [Router -> [Router -> Costs \union {Unconnected}]]
               Topologies == [Router -> [Router -> 0..Len(packets)]]
    <2>1. /\ port \in PortType /\ topology \in Topologies /\ 0 \in 0..Len(packets)
          /\ alive \subseteq Link /\ late \subseteq Arcs
      BY PacketFacts DEF FloodIInv, FloodType, TypeIInv
    <2>2. ASSUME NEW r \in Router, NEW n \in Neighbours(r), RecvPong(r, n) PROVE TypeIInv'
      <3>1. PICK rtt \in Costs :
               \/ flooding_lsp(r, [port EXCEPT ![r][n] = rtt])
               \/ UNCHANGED flood
        BY <2>2 DEF RecvPong
      <3>2. [port EXCEPT ![r][n] = rtt][r] \in [Router -> Costs \union {Unconnected}]
        BY <2>1 DEF Neighbours
      <3>3. alive' \subseteq Link /\ late' \subseteq Arcs /\ topology' \in Topologies
        BY <2>1, <2>2 DEF RecvPong
      <3> QED BY <3>1, <3>2, <3>3, FloodKeepsTypes
    <2>3. ASSUME NEW r \in Router, ExpireAlarm(r) PROVE TypeIInv'
      <3>1. PICK gone \in SUBSET Connected(port, r),
                 old \in SUBSET {s \in Router : Aging /\ topology[r][s] # None} :
               /\ topology' = Forgotten(r, gone \union old)
               /\ \/ flooding_lsp(r, [port EXCEPT ![r] = [n \in Router |-> IF n \in gone THEN Unconnected ELSE @[n]]])
                  \/ UNCHANGED flood
        BY <2>3 DEF ExpireAlarm
      <3>2. [port EXCEPT ![r] = [n \in Router |-> IF n \in gone THEN Unconnected ELSE @[n]]][r]
               \in [Router -> Costs \union {Unconnected}]
        BY <2>1
      <3>3. alive' \subseteq Link /\ late' \subseteq Arcs
        BY <2>1, <2>3 DEF ExpireAlarm
      <3>4. topology' \in Topologies
        BY <2>1, <3>1 DEF Forgotten, None
      <3> QED BY <3>1, <3>2, <3>3, <3>4, FloodKeepsTypes
    <2>4. ASSUME NEW r \in Router, LSAlarm(r) PROVE TypeIInv'
      <3>1. port[r] \in [Router -> Costs \union {Unconnected}]
        BY <2>1
      <3> QED BY <2>1, <2>4, <3>1, FloodKeepsTypes DEF LSAlarm
    <2>5. ASSUME NEW m \in net, RecvKnown(m) PROVE TypeIInv'
      <3>1. net' \intersect lost' = {}
        BY <2>5 DEF RecvKnown, TypeIInv
      <3> QED BY <2>1, <2>5, <3>1, QuietKeepsTypes DEF RecvKnown
    <2>6. ASSUME NEW m \in net, RecvNew(m) PROVE TypeIInv'
      BY <2>6, RecvNewKeepsTypes
    <2>7. ASSUME NEW m \in net, Lose(m) PROVE TypeIInv'
      <3>1. net' \intersect lost' = {}
        BY <2>7 DEF Lose, TypeIInv
      <3> QED BY <2>1, <2>7, <3>1, QuietKeepsTypes DEF Lose
    <2>8. ASSUME NEW l \in Link, LinkDies(l) \/ LinkComesUp(l) PROVE TypeIInv'
      <3>1. alive' \subseteq Link /\ late' \subseteq Arcs
        BY <2>1, <2>8 DEF LinkDies, LinkComesUp
      <3>2. net' \intersect lost' = {}
        BY <2>8 DEF LinkDies, LinkComesUp, TypeIInv, flood
      <3> QED BY <2>8, <3>1, <3>2, QuietKeepsTypes DEF LinkDies, LinkComesUp, flood
    <2>9. CASE UNCHANGED vars
      BY <2>1, <2>9, QuietKeepsTypes DEF vars, flood, TypeIInv
    <2> QED BY <2>2, <2>3, <2>4, <2>5, <2>6, <2>7, <2>8, <2>9 DEF Next, RouterNext, NetNext
  <1>3. FloodIInv /\ TypeIInv => TypeOK
    <2> SUFFICES ASSUME FloodIInv, TypeIInv PROVE TypeOK
      OBVIOUS
    <2>1. /\ packets \in Seq(Packet) /\ DOMAIN packets = 1..Len(packets) /\ Len(packets) \in Nat
          /\ \A i \in 1..Len(packets) : packets[i].seq = i - 1
      BY PacketFacts DEF FloodIInv, FloodType
    <2>2. \A s \in 0..(Len(packets) - 1) : s \in {packets[i].seq : i \in DOMAIN packets}
      <3> SUFFICES ASSUME NEW s \in 0..(Len(packets) - 1)
                   PROVE  \E i \in DOMAIN packets : packets[i].seq = s
        OBVIOUS
      <3>1. s + 1 \in 1..Len(packets) /\ (s + 1) - 1 = s
        BY <2>1
      <3> QED BY <2>1, <3>1
    <2>3. seen \in [Router -> SUBSET {packets[i].seq : i \in DOMAIN packets}]
      BY <2>2 DEF FloodIInv, FloodType
    <2>4. \A c \in sent : c \in {<<a[1], a[2], i>> : a \in Arcs, i \in DOMAIN packets}
      <3> SUFFICES ASSUME NEW c \in sent
                   PROVE  \E a \in Arcs, i \in DOMAIN packets : c = <<a[1], a[2], i>>
        OBVIOUS
      <3>1. /\ c[1] \in Router /\ c[2] \in Router /\ c[3] \in DOMAIN packets
            /\ c = <<c[1], c[2], c[3]>> /\ c[2] \in Neighbours(c[1])
        BY PacketFacts DEF TypeIInv
      <3>2. <<c[1], c[2]>> \in Arcs
        BY <3>1 DEF Neighbours, Arcs
      <3> QED BY <3>1, <3>2
    <2>5. resent = {}
      BY DEF FloodIInv, SentOnce
    <2>6. /\ packets \in Seq([source : Router, seq : Nat,
                             costs : [Router -> Costs \union {Unconnected}]])
          /\ port \in [Router -> [Router -> Costs \union {Unconnected}]]
          /\ ls_seq_num \in 0..(SeqNums - 1)
          /\ net \subseteq sent /\ lost \subseteq sent
      BY DEF FloodIInv, FloodType, Packet
    <2>7. sent \subseteq {<<a[1], a[2], i>> : a \in Arcs, i \in DOMAIN packets}
      BY <2>4
    <2> QED BY <2>3, <2>5, <2>6, <2>7 DEF TypeOK, TypeIInv
  <1> QED BY <1>1, <1>2, <1>3, InitFlood, NextFlood, PTL DEF Spec
=============================================================================
