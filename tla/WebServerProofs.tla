--------------------------- MODULE WebServerProofs ---------------------------
(***************************************************************************)
(* The select loop of project1, for every number of clients, descriptors    *)
(* and requests, with clients that leave whenever they like.                *)
(***************************************************************************)
EXTENDS WebServer, TLAPS, SequenceTheorems, FiniteSetTheorems, WellFoundedInduction

USE DEF Nobody, Listening

-----------------------------------------------------------------------------
(* The list. *)

\* Every set of naturals that is not empty has a least element.
LEMMA LeastElement ==
    ASSUME NEW M \in SUBSET Nat, M # {}
    PROVE  \E m \in M : \A n \in M : m <= n
<1> DEFINE T == {0..n : n \in M}
<1>1. IsWellFoundedOn(StrictSubsetOrdering(Nat), FiniteSubsetsOf(Nat))
  BY FS_StrictSubsetOrderingWellFounded
<1>2. \A n \in Nat : IsFiniteSet(0..n)
  BY FS_Interval
<1>3. T \subseteq FiniteSubsetsOf(Nat)
  BY <1>2 DEF FiniteSubsetsOf
<1>4. T # {}
  OBVIOUS
<1>5. \E t \in T : \A u \in T : ~(<<u, t>> \in StrictSubsetOrdering(Nat))
  <2> HIDE DEF T
  <2> QED BY <1>1, <1>3, <1>4, WFMin
<1>6. PICK m \in M :
          \A u \in T : ~(<<u, 0..m>> \in StrictSubsetOrdering(Nat))
  BY <1>5
<1>7. ASSUME NEW n \in M, n < m PROVE FALSE
  <2>1. <<0..n, 0..m>> \in (SUBSET Nat) \X (SUBSET Nat)
    BY <1>7
  <2>2. 0..n \subseteq 0..m /\ m \in 0..m /\ m \notin 0..n
    BY <1>7
  <2>3. <<0..n, 0..m>> \in StrictSubsetOrdering(Nat)
    BY <2>1, <2>2 DEF StrictSubsetOrdering
  <2> QED BY <2>3, <1>6
<1> QED BY <1>7

Distinct(l) == \A i, j \in 1..Len(l) : l[i] = l[j] => i = j

LEMMA ElementsFact ==
    ASSUME NEW S, NEW l \in Seq(S)
    PROVE  /\ Len(l) \in Nat /\ Elements(l) \subseteq S
           /\ \A f \in Elements(l) : \E i \in 1..Len(l) : l[i] = f
           /\ \A i \in 1..Len(l) : l[i] \in Elements(l)
           /\ First(l) \in Elements(l) \union {Nobody}
<1>1. Len(l) \in Nat /\ \A i \in 1..Len(l) : l[i] \in S
  OBVIOUS
<1>2. l # <<>> => 1 \in 1..Len(l)
  OBVIOUS
<1> QED BY <1>1, <1>2 DEF Elements, First

\* add puts the new node in front (server_num.c 31-38).
LEMMA AddFact ==
    ASSUME NEW S, NEW l \in Seq(S), NEW f \in S, Distinct(l), f \notin Elements(l)
    PROVE  /\ add(l, f) \in Seq(S) /\ Distinct(add(l, f))
           /\ Elements(add(l, f)) = Elements(l) \union {f}
<1> DEFINE r == add(l, f)
<1>1. /\ r \in Seq(S) /\ Len(r) = Len(l) + 1 /\ Len(l) \in Nat /\ r[1] = f
      /\ \A i \in 2..(Len(l) + 1) : r[i] = l[i - 1]
  <2>1. <<f>> \in Seq(S) /\ Len(<<f>>) = 1 /\ <<f>>[1] = f
    OBVIOUS
  <2>2. /\ r \in Seq(S) /\ Len(r) = 1 + Len(l)
        /\ \A i \in 1..(1 + Len(l)) : r[i] = IF i <= 1 THEN <<f>>[i] ELSE l[i - 1]
    BY <2>1, ConcatProperties DEF add
  <2> QED BY <2>1, <2>2
<1> HIDE DEF r
<1>2. \A i \in 1..Len(r) : i = 1 \/ (i \in 2..(Len(l) + 1) /\ i - 1 \in 1..Len(l))
  BY <1>1
<1>3. \A i \in 1..Len(l) : i + 1 \in 1..Len(r) /\ r[i + 1] = l[i]
  BY <1>1
<1>4. Distinct(r)
  <2> SUFFICES ASSUME NEW i \in 1..Len(r), NEW j \in 1..Len(r), r[i] = r[j], i # j
               PROVE  FALSE
    BY DEF Distinct
  <2>1. \A k \in 1..Len(l) : l[k] # f
    BY DEF Elements
  <2>2. i \in 2..(Len(l) + 1) /\ j \in 2..(Len(l) + 1)
    BY <2>1, <1>1, <1>2
  <2>3. l[i - 1] = l[j - 1] /\ i - 1 \in 1..Len(l) /\ j - 1 \in 1..Len(l)
    BY <2>2, <1>1
  <2>4. i - 1 = j - 1
    BY <2>3 DEF Distinct
  <2> QED BY <2>2, <2>4, <1>1
<1>5. Elements(r) = Elements(l) \union {f}
  <2>1. \A e \in Elements(r) : e \in Elements(l) \/ e = f
    BY <1>1, <1>2 DEF Elements
  <2>2. \A e \in Elements(l) : e \in Elements(r)
    BY <1>3 DEF Elements
  <2>3. f \in Elements(r)
    BY <1>1 DEF Elements
  <2> QED BY <2>1, <2>2, <2>3
<1> QED BY <1>1, <1>4, <1>5 DEF r

\* What CHOOSE finds in a list without repetition is the place of the node.
LEMMA PlaceFact ==
    ASSUME NEW S, NEW l \in Seq(S), Distinct(l), NEW k \in 1..Len(l), NEW f, l[k] = f
    PROVE  /\ NextOf(l, f) = IF k < Len(l) THEN l[k + 1] ELSE Nobody
           /\ dump(l, f) = SubSeq(l, 1, k - 1) \o SubSeq(l, k + 1, Len(l))
<1>1. \A i \in 1..Len(l) : l[i] = f => i = k
  BY DEF Distinct
<1>2. \A j \in 1..k - 1 : l[j] # f
  <2>1. \A j \in 1..k - 1 : j \in 1..Len(l) /\ j # k
    OBVIOUS
  <2> QED BY <1>1, <2>1
<1> DEFINE c == CHOOSE i \in 1..Len(l) : l[i] = f
           d == CHOOSE i \in 1..Len(l) : l[i] = f /\ \A j \in 1..i - 1 : l[j] # f
<1>3. c \in 1..Len(l) /\ l[c] = f
  OBVIOUS
<1>4. \E i \in 1..Len(l) : l[i] = f /\ \A j \in 1..i - 1 : l[j] # f
  BY <1>2
<1>5. d \in 1..Len(l) /\ l[d] = f
  BY <1>4
<1>6. f \in Elements(l)
  BY DEF Elements
<1>7. /\ NextOf(l, f) = IF c < Len(l) THEN l[c + 1] ELSE Nobody
      /\ dump(l, f) = SubSeq(l, 1, d - 1) \o SubSeq(l, d + 1, Len(l))
  BY <1>6 DEF NextOf, dump
<1> HIDE DEF c, d
<1>8. c = k /\ d = k
  BY <1>1, <1>3, <1>5
<1> QED BY <1>7, <1>8

\* dump takes one node out and leaves the others in their order, and the node
\* that came next stays (server_num.c 40-59).
LEMMA DumpFact ==
    ASSUME NEW S, NEW l \in Seq(S), Distinct(l), NEW f \in Elements(l)
    PROVE  /\ dump(l, f) \in Seq(S) /\ Distinct(dump(l, f))
           /\ Elements(dump(l, f)) = Elements(l) \ {f}
           /\ NextOf(l, f) \in Elements(dump(l, f)) \union {Nobody}
           /\ NextOf(l, f) \in Elements(l) \union {Nobody}
<1>0. Len(l) \in Nat /\ \A i \in 1..Len(l) : l[i] \in S
  OBVIOUS
<1>1. PICK k \in 1..Len(l) : l[k] = f
  BY DEF Elements
<1> DEFINE a == SubSeq(l, 1, k - 1)
           b == SubSeq(l, k + 1, Len(l))
           r == dump(l, f)
<1>2. r = a \o b
  BY <1>1, PlaceFact
<1>3. a \in Seq(S) /\ Len(a) = k - 1 /\ \A i \in 1..(k - 1) : a[i] = l[i]
  BY <1>0, <1>1, SubSeqProperties
<1>4. /\ b \in Seq(S) /\ Len(b) = Len(l) - k
      /\ \A i \in 1..(Len(l) - k) : b[i] = l[k + i]
  BY <1>0, <1>1, SubSeqProperties
<1> HIDE DEF a, b, r
<1>5. /\ r \in Seq(S) /\ Len(r) = Len(l) - 1
      /\ \A i \in 1..(Len(l) - 1) : r[i] = IF i <= k - 1 THEN l[i] ELSE l[i + 1]
  <2>1. /\ r \in Seq(S) /\ Len(r) = (k - 1) + (Len(l) - k)
        /\ \A i \in 1..((k - 1) + (Len(l) - k)) :
              r[i] = IF i <= k - 1 THEN a[i] ELSE b[i - (k - 1)]
    <3>1. /\ a \o b \in Seq(S) /\ Len(a \o b) = Len(a) + Len(b)
          /\ \A i \in 1..(Len(a) + Len(b)) :
                (a \o b)[i] = IF i <= Len(a) THEN a[i] ELSE b[i - Len(a)]
      BY <1>3, <1>4, ConcatProperties
    <3> QED BY <1>2, <1>3, <1>4, <3>1
  <2>2. (k - 1) + (Len(l) - k) = Len(l) - 1
    BY <1>0, <1>1
  <2>3. \A i \in 1..(Len(l) - 1) : ~(i <= k - 1) =>
            i - (k - 1) \in 1..(Len(l) - k) /\ k + (i - (k - 1)) = i + 1
    BY <1>0, <1>1
  <2>4. \A i \in 1..(Len(l) - 1) : i <= k - 1 => i \in 1..(k - 1)
    BY <1>0, <1>1
  <2> QED BY <2>1, <2>2, <2>3, <2>4, <1>3, <1>4
<1>6. Distinct(r)
  <2> SUFFICES ASSUME NEW i \in 1..Len(r), NEW j \in 1..Len(r), r[i] = r[j]
               PROVE  i = j
    BY DEF Distinct
  <2> DEFINE p(x) == IF x <= k - 1 THEN x ELSE x + 1
  <2>1. p(i) \in 1..Len(l) /\ p(j) \in 1..Len(l) /\ l[p(i)] = r[i] /\ l[p(j)] = r[j]
    BY <1>0, <1>1, <1>5
  <2>2. p(i) = p(j)
    BY <2>1 DEF Distinct
  <2> QED BY <2>2, <1>0, <1>1, <1>5
<1>7. Elements(r) = Elements(l) \ {f}
  <2>1. \A i \in 1..Len(r) : r[i] \in Elements(l) /\ r[i] # f
    BY <1>0, <1>1, <1>5 DEF Elements, Distinct
  <2>2. ASSUME NEW i \in 1..Len(l), l[i] # f PROVE l[i] \in Elements(r)
    <3>1. CASE i < k
      BY <3>1, <1>0, <1>1, <1>5 DEF Elements
    <3>2. CASE i > k
      <4>1. i - 1 \in 1..Len(r) /\ r[i - 1] = l[i]
        BY <3>2, <1>0, <1>1, <1>5
      <4> QED BY <4>1 DEF Elements
    <3> QED BY <2>2, <3>1, <3>2, <1>0, <1>1
  <2> QED BY <2>1, <2>2 DEF Elements
<1>8. NextOf(l, f) \in (Elements(l) \ {f}) \union {Nobody}
  <2>1. NextOf(l, f) = IF k < Len(l) THEN l[k + 1] ELSE Nobody
    BY <1>1, PlaceFact
  <2>2. k < Len(l) => k + 1 \in 1..Len(l) /\ l[k + 1] # f
    BY <1>0, <1>1 DEF Distinct
  <2> QED BY <2>1, <2>2 DEF Elements
<1> QED BY <1>5, <1>6, <1>7, <1>8 DEF r

-----------------------------------------------------------------------------
(* The inductive invariant. *)

\* What a client is sent is the numbers of a header, or a page.
Piece == Seq(Nat) \union File \union ErrorPages

\* A connection is in one place: nowhere yet, in the backlog, at one descriptor,
\* or closed.
PlaceInv ==
    /\ Distinct(backlog)
    /\ \A c \in Elements(backlog) :
          c \notin shut /\ peer[c] # "away" /\ \A f \in Fd : socket[f] # c
    /\ \A f \in Fd : socket[f] # Nobody => peer[socket[f]] # "away"
    /\ \A c \in shut : peer[c] # "away"

\* What select left in read_set is ready until the loop comes to it.
ReadyInv ==
    /\ pc = "accept" => backlog # <<>> /\ read_set \ {Listening} \subseteq Elements(list)
    /\ pc \in {"header", "page"} => current # Nobody
    /\ pc # "select" =>
          \A f \in read_set \intersect Elements(list) :
              IsReady(socket[f]) \/ (pc \in {"header", "page"} /\ f = current)

\* A client whose connection is not closed has been sent nothing, but for the
\* header while its page is on its way; a reset alone keeps that from it.
Serving(c) == pc = "page" /\ current # Nobody /\ socket[current] = c
AnswerInv ==
    /\ \A c \in Client : c \notin shut /\ ~Serving(c) => answer[c] = <<>>
    /\ \A c \in Client : Serving(c) => /\ Len(answer[c]) <= 1
                                       /\ peer[c] # "pipe" => Len(answer[c]) = 1

ServerInv ==
    /\ TypeOK /\ answer \in [Client -> Seq(Piece)]
    /\ ListIsOpenSockets /\ PlaceInv /\ ReadyInv /\ AnswerInv /\ StayingIsAnswered

-----------------------------------------------------------------------------
(* What the invariant says of the list, and what closing a node does. *)

LEMMA ServerFacts ==
    ASSUME ServerInv
    PROVE  /\ list \in Seq(Fd) /\ Distinct(list) /\ Elements(list) \subseteq Fd
           /\ \A f \in Fd : f \in Elements(list) <=> socket[f] # Nobody
           /\ \A f \in Elements(list) : socket[f] \in Client /\ socket[f] \notin shut
           /\ \A f, g \in Elements(list) : socket[f] = socket[g] => f = g
           /\ current \in Elements(list) \union {Nobody}
           /\ Nobody \notin Client /\ Nobody \notin Fd /\ Listening \notin Fd
           /\ socket \in [Fd -> Client \union {Nobody}]
           /\ First(list) \in Elements(list) \union {Nobody}
<1>1. /\ list \in Seq(Fd) /\ ListIsOpenSockets
      /\ socket \in [Fd -> Client \union {Nobody}]
  BY DEF ServerInv, TypeOK
<1>2. Nobody \notin Client /\ Nobody \notin Fd /\ Listening \notin Fd
  BY ServerAssumption
<1>3. Elements(list) \subseteq Fd /\ First(list) \in Elements(list) \union {Nobody}
  BY <1>1, ElementsFact
<1> QED BY <1>1, <1>2, <1>3 DEF ListIsOpenSockets, Distinct

\* A free descriptor is one of no connection.
LEMMA LowestFreeFact ==
    ASSUME ServerInv, Used # Fd
    PROVE  LowestFree \in Fd /\ LowestFree \notin Used /\ socket[LowestFree] = Nobody
<1>1. Used \subseteq Fd /\ Fd \ Used \in SUBSET Nat
  BY ServerAssumption DEF ServerInv, TypeOK, Used
<1>2. Fd \ Used # {}
  BY <1>1
<1>3. \E f \in Fd \ Used : \A g \in Fd \ Used : f <= g
  BY <1>1, <1>2, LeastElement
<1>4. LowestFree \in Fd \ Used
  BY <1>3 DEF LowestFree
<1> QED BY <1>4 DEF Used

\* close, dump, and the step to the node that came next (server_num.c 299-321).
LEMMA CloseFact ==
    ASSUME ServerInv, CloseCurrent, current # Nobody
    PROVE  /\ ListIsOpenSockets'
           /\ list' \in Seq(Fd) /\ Elements(list') = Elements(list) \ {current}
           /\ socket' \in [Fd -> Client \union {Nobody}]
           /\ \A f \in Fd : socket'[f] = IF f = current THEN Nobody ELSE socket[f]
           /\ Here \in Client /\ Here \notin shut /\ shut' = shut \union {Here}
           /\ \A f \in Fd : f # current => socket[f] # Here
           /\ current' \in Fd \union {Nobody} /\ pc' = "visit"
           /\ current \in Elements(list) /\ current \in Fd
<1>1. /\ list \in Seq(Fd) /\ Distinct(list) /\ Elements(list) \subseteq Fd
      /\ \A f \in Fd : f \in Elements(list) <=> socket[f] # Nobody
      /\ \A f \in Elements(list) : socket[f] \in Client /\ socket[f] \notin shut
      /\ \A f, g \in Elements(list) : socket[f] = socket[g] => f = g
      /\ current \in Elements(list) /\ Nobody \notin Client
      /\ socket \in [Fd -> Client \union {Nobody}]
  BY ServerFacts
<1>2. /\ socket' = [socket EXCEPT ![current] = Nobody]
      /\ shut' = shut \union {Here} /\ Here = socket[current]
      /\ list' = dump(list, current) /\ current' = NextOf(list, current)
      /\ pc' = "visit"
  BY DEF CloseCurrent, Here
<1>3. /\ list' \in Seq(Fd) /\ Distinct(list')
      /\ Elements(list') = Elements(list) \ {current}
      /\ current' \in Elements(list') \union {Nobody}
  BY <1>1, <1>2, DumpFact
<1>4. /\ socket' \in [Fd -> Client \union {Nobody}]
      /\ \A f \in Fd : socket'[f] = IF f = current THEN Nobody ELSE socket[f]
  BY <1>1, <1>2
<1>5. \A f \in Fd : f # current => socket[f] # Here
  BY <1>1, <1>2
<1>6. ListIsOpenSockets'
  <2>1. Elements(list') = {f \in Fd : socket'[f] # Nobody}
    BY <1>1, <1>3, <1>4
  <2>2. \A f, g \in Fd : socket'[f] = socket'[g] /\ socket'[f] # Nobody => f = g
    BY <1>1, <1>4
  <2>3. \A f \in Fd : socket'[f] \notin shut'
    <3>1. Nobody \notin shut'
      BY <1>1, <1>2 DEF ServerInv, TypeOK
    <3> QED BY <1>1, <1>2, <1>4, <1>5, <3>1
  <2> QED BY <2>1, <2>2, <2>3, <1>3 DEF ListIsOpenSockets, Distinct
<1> QED BY <1>1, <1>2, <1>3, <1>4, <1>5, <1>6

-----------------------------------------------------------------------------
(* The steps keep it. *)

LEMMA DiesStep ==
    ASSUME ServerInv, Dies
    PROVE  ServerInv'
<1>1. TypeOK'
  BY DEF ServerInv, TypeOK, Dies, clients, Serving, IsReady
<1>2. answer' \in [Client -> Seq(Piece)]
  BY DEF ServerInv, TypeOK, Dies, clients, Serving, IsReady
<1>3. ListIsOpenSockets'
  BY DEF ServerInv, ListIsOpenSockets, Dies, clients, Serving, IsReady
<1>4. PlaceInv'
  BY DEF ServerInv, PlaceInv, Dies, clients, Serving, IsReady
<1>5. ReadyInv'
  BY DEF ServerInv, ReadyInv, Dies, clients, Serving, IsReady
<1>6. AnswerInv'
  BY DEF ServerInv, AnswerInv, Dies, clients, Serving, IsReady
<1>7. StayingIsAnswered'
  BY DEF ServerInv, StayingIsAnswered, Dies, clients, Serving, IsReady
<1> QED BY <1>1, <1>2, <1>3, <1>4, <1>5, <1>6, <1>7 DEF ServerInv

LEMMA SendRequestStep ==
    ASSUME ServerInv, NEW c \in Client, SendRequest(c)
    PROVE  ServerInv'
<1>1. TypeOK'
  BY DEF ServerInv, TypeOK, SendRequest, server, Serving, IsReady
<1>2. answer' \in [Client -> Seq(Piece)]
  BY DEF ServerInv, TypeOK, SendRequest, server, Serving, IsReady
<1>3. ListIsOpenSockets'
  BY DEF ServerInv, ListIsOpenSockets, SendRequest, server, TypeOK, Serving, IsReady
<1>4. PlaceInv'
  BY DEF ServerInv, PlaceInv, SendRequest, server, TypeOK, Serving, IsReady
<1>5. ReadyInv'
  BY DEF ServerInv, ReadyInv, SendRequest, server, TypeOK, Serving, IsReady
<1>6. AnswerInv'
  BY DEF ServerInv, AnswerInv, SendRequest, server, TypeOK, Serving, IsReady
<1>7. StayingIsAnswered'
  BY DEF ServerInv, StayingIsAnswered, SendRequest, server, TypeOK, Serving, IsReady
<1> QED BY <1>1, <1>2, <1>3, <1>4, <1>5, <1>6, <1>7 DEF ServerInv

LEMMA SendRestStep ==
    ASSUME ServerInv, NEW c \in Client, SendRest(c)
    PROVE  ServerInv'
<1>1. TypeOK'
  BY DEF ServerInv, TypeOK, SendRest, server, Serving, IsReady
<1>2. answer' \in [Client -> Seq(Piece)]
  BY DEF ServerInv, TypeOK, SendRest, server, Serving, IsReady
<1>3. ListIsOpenSockets'
  BY DEF ServerInv, ListIsOpenSockets, SendRest, server, TypeOK, Serving, IsReady
<1>4. PlaceInv'
  BY DEF ServerInv, PlaceInv, SendRest, server, TypeOK, Serving, IsReady
<1>5. ReadyInv'
  BY DEF ServerInv, ReadyInv, SendRest, server, TypeOK, Serving, IsReady
<1>6. AnswerInv'
  BY DEF ServerInv, AnswerInv, SendRest, server, TypeOK, Serving, IsReady
<1>7. StayingIsAnswered'
  BY DEF ServerInv, StayingIsAnswered, SendRest, server, TypeOK, Serving, IsReady
<1> QED BY <1>1, <1>2, <1>3, <1>4, <1>5, <1>6, <1>7 DEF ServerInv

LEMMA LeaveStep ==
    ASSUME ServerInv, NEW c \in Client, Leave(c)
    PROVE  ServerInv'
<1>1. TypeOK'
  BY DEF ServerInv, TypeOK, Leave, server, Serving, IsReady
<1>2. answer' \in [Client -> Seq(Piece)]
  BY DEF ServerInv, TypeOK, Leave, server, Serving, IsReady
<1>3. ListIsOpenSockets'
  BY DEF ServerInv, ListIsOpenSockets, Leave, server, TypeOK, Serving, IsReady
<1>4. PlaceInv'
  BY DEF ServerInv, PlaceInv, Leave, server, TypeOK, Serving, IsReady
<1>5. ReadyInv'
  BY DEF ServerInv, ReadyInv, Leave, server, TypeOK, Serving, IsReady
<1>6. AnswerInv'
  BY DEF ServerInv, AnswerInv, Leave, server, TypeOK, Serving, IsReady
<1>7. StayingIsAnswered'
  BY DEF ServerInv, StayingIsAnswered, Leave, server, TypeOK, Serving, IsReady
<1> QED BY <1>1, <1>2, <1>3, <1>4, <1>5, <1>6, <1>7 DEF ServerInv

LEMMA ResetArrivesStep ==
    ASSUME ServerInv, NEW c \in Client, ResetArrives(c)
    PROVE  ServerInv'
<1>1. TypeOK'
  BY DEF ServerInv, TypeOK, ResetArrives, server, Serving, IsReady
<1>2. answer' \in [Client -> Seq(Piece)]
  BY DEF ServerInv, TypeOK, ResetArrives, server, Serving, IsReady
<1>3. ListIsOpenSockets'
  BY DEF ServerInv, ListIsOpenSockets, ResetArrives, server, TypeOK, Serving, IsReady
<1>4. PlaceInv'
  BY DEF ServerInv, PlaceInv, ResetArrives, server, TypeOK, Serving, IsReady
<1>5. ReadyInv'
  BY DEF ServerInv, ReadyInv, ResetArrives, server, TypeOK, Serving, IsReady
<1>6. AnswerInv'
  BY DEF ServerInv, AnswerInv, ResetArrives, server, TypeOK, Serving, IsReady
<1>7. StayingIsAnswered'
  BY DEF ServerInv, StayingIsAnswered, ResetArrives, server, TypeOK, Serving, IsReady
<1> QED BY <1>1, <1>2, <1>3, <1>4, <1>5, <1>6, <1>7 DEF ServerInv

\* A new connection is nowhere yet.
LEMMA ConnectStep ==
    ASSUME ServerInv, NEW c \in Client, Connect(c)
    PROVE  ServerInv'
<1>0. /\ peer[c] = "away" /\ peer' = [peer EXCEPT ![c] = "open"]
      /\ peer \in [Client -> {"away", "open", "fin", "dying", "rst", "pipe"}]
      /\ backlog \in Seq(Client) /\ backlog' = Append(backlog, c)
      /\ c \notin Elements(backlog) /\ c \notin shut
      /\ \A f \in Fd : socket[f] # c
      /\ UNCHANGED <<setup, server, request, arrived, answer, shut>>
  BY ServerFacts DEF ServerInv, TypeOK, PlaceInv, Connect
<1>1. TypeOK'
  BY <1>0 DEF ServerInv, TypeOK, server
<1>2. answer' \in [Client -> Seq(Piece)]
  BY <1>0 DEF ServerInv, TypeOK, Connect, server, Serving, IsReady
<1>3. ListIsOpenSockets'
  BY <1>0 DEF ServerInv, ListIsOpenSockets, Connect, server, TypeOK, Serving, IsReady
<1>4. PlaceInv'
  <2>1. /\ Len(backlog') = Len(backlog) + 1 /\ Len(backlog) \in Nat
        /\ \A i \in 1..Len(backlog) : backlog'[i] = backlog[i]
        /\ backlog'[Len(backlog) + 1] = c
    BY <1>0
  <2>2. Distinct(backlog')
    <3> SUFFICES ASSUME NEW i \in 1..Len(backlog'), NEW j \in 1..Len(backlog'),
                        backlog'[i] = backlog'[j]
                 PROVE  i = j
      BY DEF Distinct
    <3>1. \A k \in 1..Len(backlog) : backlog[k] # c
      BY <1>0 DEF Elements
    <3>2. Distinct(backlog)
      BY DEF ServerInv, PlaceInv
    <3>3. \A k \in 1..Len(backlog') : k \in 1..Len(backlog) \/ k = Len(backlog) + 1
      BY <2>1
    <3> QED BY <2>1, <3>1, <3>2, <3>3 DEF Distinct
  <2>3. \A d \in Elements(backlog') : d \in Elements(backlog) \/ d = c
    BY <2>1 DEF Elements
  <2>4. \A d \in Elements(backlog) : d \in Client
    BY <1>0, ElementsFact
  <2> QED BY <1>0, <2>2, <2>3, <2>4 DEF ServerInv, PlaceInv, server, TypeOK
<1>5. ReadyInv'
  <2>1. backlog' # <<>>
    BY <1>0
  <2>2. \A f \in Fd : IsReady(socket[f]) => IsReady(socket[f])'
    BY <1>0, ServerFacts DEF IsReady, server
  <2>3. Elements(list) \subseteq Fd
    BY ServerFacts
  <2> QED BY <1>0, <2>1, <2>2, <2>3 DEF ServerInv, ReadyInv, server, Elements
<1>6. AnswerInv'
  <2>1. ~Serving(c)
    BY <1>0, ServerFacts DEF Serving
  <2> QED BY <1>0, <2>1 DEF ServerInv, AnswerInv, Serving, server
<1>7. StayingIsAnswered'
  BY <1>0 DEF ServerInv, StayingIsAnswered, TypeOK
<1> QED BY <1>1, <1>2, <1>3, <1>4, <1>5, <1>6, <1>7 DEF ServerInv

\* select finds every descriptor of the list open, and what it leaves is ready.
LEMMA SelectStep ==
    ASSUME ServerInv, Select
    PROVE  ServerInv'
<1>1. TypeOK'
  <2>1. Ready \subseteq Fd \union {Listening}
    BY ServerFacts DEF Ready
  <2>2. First(list) \in Fd \union {Nobody}
    BY ServerFacts
  <2> QED BY <2>1, <2>2 DEF ServerInv, TypeOK, Select, clients
<1>2. answer' \in [Client -> Seq(Piece)]
  BY DEF ServerInv, TypeOK, Select, clients, Serving, IsReady
<1>3. ListIsOpenSockets'
  <2>1. First(list) \in Elements(list) \union {Nobody}
    BY ServerFacts
  <2> QED BY <2>1 DEF ServerInv, ListIsOpenSockets, Select, clients
<1>4. PlaceInv'
  BY DEF ServerInv, PlaceInv, Select, clients, TypeOK, Serving, IsReady
<1>5. ReadyInv'
  <2>1. /\ pc' \in {"accept", "visit"} /\ read_set' = Ready
        /\ pc' = "accept" => Listening \in Ready
        /\ UNCHANGED <<list, socket, backlog, arrived, peer>>
    BY DEF Select, clients
  <2>2. Listening \in Ready => backlog # <<>>
    BY ServerFacts DEF Ready
  <2>3. read_set' = Ready /\ Ready \ {Listening} \subseteq Elements(list)
    BY DEF Select, Ready
  <2>4. \A f \in Ready \intersect Elements(list) : IsReady(socket[f])
    BY ServerFacts DEF Ready, IsOpen
  <2> QED BY <2>1, <2>2, <2>3, <2>4 DEF ReadyInv, IsReady
<1>6. AnswerInv'
  BY DEF ServerInv, AnswerInv, Select, clients, TypeOK, Serving, IsReady
<1>7. StayingIsAnswered'
  BY DEF ServerInv, StayingIsAnswered, Select, clients, TypeOK, Serving, IsReady
<1> QED BY <1>1, <1>2, <1>3, <1>4, <1>5, <1>6, <1>7 DEF ServerInv

LEMMA LoopEndsStep ==
    ASSUME ServerInv, LoopEnds
    PROVE  ServerInv'
<1>1. TypeOK'
  BY DEF ServerInv, TypeOK, LoopEnds, clients, Serving, IsReady
<1>2. answer' \in [Client -> Seq(Piece)]
  BY DEF ServerInv, TypeOK, LoopEnds, clients, Serving, IsReady
<1>3. ListIsOpenSockets'
  BY DEF ServerInv, ListIsOpenSockets, LoopEnds, clients, TypeOK, Serving, IsReady
<1>4. PlaceInv'
  BY DEF ServerInv, PlaceInv, LoopEnds, clients, TypeOK, Serving, IsReady
<1>5. ReadyInv'
  BY DEF ServerInv, ReadyInv, LoopEnds, clients, TypeOK, Serving, IsReady
<1>6. AnswerInv'
  BY DEF ServerInv, AnswerInv, LoopEnds, clients, TypeOK, Serving, IsReady
<1>7. StayingIsAnswered'
  BY DEF ServerInv, StayingIsAnswered, LoopEnds, clients, TypeOK, Serving, IsReady
<1> QED BY <1>1, <1>2, <1>3, <1>4, <1>5, <1>6, <1>7 DEF ServerInv

LEMMA SkipStep ==
    ASSUME ServerInv, Skip
    PROVE  ServerInv'
<1>0. current' \in Elements(list) \union {Nobody} /\ Elements(list) \subseteq Fd
  BY ServerFacts, DumpFact DEF Skip
<1>1. TypeOK'
  BY <1>0 DEF ServerInv, TypeOK, Skip, clients
<1>2. answer' \in [Client -> Seq(Piece)]
  BY <1>0 DEF ServerInv, TypeOK, Skip, clients, Serving, IsReady
<1>3. ListIsOpenSockets'
  BY <1>0 DEF ServerInv, ListIsOpenSockets, Skip, clients
<1>4. PlaceInv'
  BY <1>0 DEF ServerInv, PlaceInv, Skip, clients, TypeOK, Serving, IsReady
<1>5. ReadyInv'
  BY <1>0 DEF ServerInv, ReadyInv, Skip, clients, TypeOK, Serving, IsReady
<1>6. AnswerInv'
  BY <1>0 DEF ServerInv, AnswerInv, Skip, clients, TypeOK, Serving, IsReady
<1>7. StayingIsAnswered'
  BY <1>0 DEF ServerInv, StayingIsAnswered, Skip, clients, TypeOK, Serving, IsReady
<1> QED BY <1>1, <1>2, <1>3, <1>4, <1>5, <1>6, <1>7 DEF ServerInv

\* The new node is not in read_set: only what was in the list is.
LEMMA AcceptStep ==
    ASSUME ServerInv, Accept
    PROVE  ServerInv'
<1> DEFINE f == LowestFree
           c == Head(backlog)
<1>0. /\ pc = "accept" /\ f \in Fd /\ socket[f] = Nobody /\ f \notin Elements(list)
      /\ socket' = [socket EXCEPT ![f] = c] /\ list' = add(list, f) /\ current' = f
      /\ read_set' = read_set /\ backlog' = Tail(backlog) /\ pc' = "visit"
      /\ UNCHANGED <<setup, alive, files, words, request, peer, arrived, answer, shut>>
  BY LowestFreeFact, ServerFacts DEF Accept, Watched
<1>8. /\ backlog \in Seq(Client) /\ backlog # <<>> /\ c \in Client
      /\ c \in Elements(backlog) /\ c # Nobody
      /\ backlog' \in Seq(Client) /\ Len(backlog') = Len(backlog) - 1
      /\ \A i \in 1..Len(backlog') : i + 1 \in 1..Len(backlog) /\ backlog'[i] = backlog[i + 1]
      /\ 1 \in 1..Len(backlog) /\ backlog[1] = c
  <2>1. backlog \in Seq(Client) /\ backlog # <<>> /\ Nobody \notin Client
    BY <1>0, ServerFacts DEF ServerInv, ReadyInv, TypeOK
  <2>2. 1 \in 1..Len(backlog) /\ backlog[1] = c
    BY <2>1
  <2>3. c \in Client /\ c \in Elements(backlog)
    BY <2>1, <2>2, ElementsFact
  <2> QED BY <1>0, <2>1, <2>2, <2>3
<1>9. /\ list' \in Seq(Fd) /\ Distinct(list') /\ Elements(list') = Elements(list) \union {f}
  BY <1>0, ServerFacts, AddFact
<1>10. /\ socket' \in [Fd -> Client \union {Nobody}] /\ socket'[f] = c
       /\ \A g \in Fd : g # f => socket'[g] = socket[g]
  BY <1>0, <1>8, ServerFacts
<1>11. /\ c \notin shut /\ peer[c] # "away" /\ \A g \in Fd : socket[g] # c
  BY <1>8 DEF ServerInv, PlaceInv
<1> HIDE DEF f, c
<1>1. TypeOK'
  BY <1>0, <1>8, <1>9, <1>10 DEF ServerInv, TypeOK
<1>2. answer' \in [Client -> Seq(Piece)]
  BY <1>0 DEF ServerInv
<1>3. ListIsOpenSockets'
  <2>1. \A g \in Fd : g \in Elements(list') <=> socket'[g] # Nobody
    BY <1>8, <1>9, <1>10, ServerFacts
  <2>2. Elements(list') \subseteq Fd
    BY <1>0, <1>9, ServerFacts
  <2>3. \A g, h \in Fd : socket'[g] = socket'[h] /\ socket'[g] # Nobody => g = h
    BY <1>8, <1>10, <1>11, ServerFacts
  <2>4. \A g \in Fd : socket'[g] \notin shut'
    BY <1>0, <1>10, <1>11 DEF ServerInv, ListIsOpenSockets
  <2> QED BY <1>0, <1>9, <2>1, <2>2, <2>3, <2>4 DEF ListIsOpenSockets, Distinct
<1>4. PlaceInv'
  <2>1. Distinct(backlog)
    BY DEF ServerInv, PlaceInv
  <2>2. Distinct(backlog') /\ c \notin Elements(backlog')
    <3>1. \A i, j \in 1..Len(backlog') : backlog'[i] = backlog'[j] => i + 1 = j + 1
      BY <1>8, <2>1 DEF Distinct
    <3>2. \A i, j \in 1..Len(backlog') : i + 1 = j + 1 => i = j
      OBVIOUS
    <3>3. \A i \in 1..Len(backlog') : backlog'[i] # c
      <4>1. \A i \in 1..Len(backlog') : i + 1 # 1
        OBVIOUS
      <4> QED BY <1>8, <2>1, <4>1 DEF Distinct
    <3> QED BY <3>1, <3>2, <3>3 DEF Distinct, Elements
  <2>3. \A d \in Elements(backlog') : d \in Elements(backlog) /\ d # c
    BY <1>8, <2>2 DEF Elements
  <2>4. \A d \in Elements(backlog') : \A g \in Fd : socket'[g] # d
    BY <1>10, <2>3 DEF ServerInv, PlaceInv
  <2>5. \A g \in Fd : socket'[g] # Nobody => peer[socket'[g]] # "away"
    BY <1>10, <1>11 DEF ServerInv, PlaceInv
  <2> QED BY <1>0, <2>2, <2>3, <2>4, <2>5 DEF ServerInv, PlaceInv
<1>5. ReadyInv'
  <2>1. read_set \ {Listening} \subseteq Elements(list) /\ Listening \notin Fd
    BY <1>0, ServerFacts DEF ServerInv, ReadyInv
  <2>2. \A g \in read_set \intersect Elements(list) : IsReady(socket[g])
    BY <1>0 DEF ServerInv, ReadyInv
  <2>3. Elements(list) \subseteq Fd
    BY ServerFacts
  <2>4. \A g \in read_set \intersect Elements(list') : g \in Elements(list) /\ socket'[g] = socket[g]
    BY <1>0, <1>9, <1>10, <2>1, <2>3
  <2> QED BY <1>0, <2>2, <2>4 DEF ReadyInv, IsReady
<1>6. AnswerInv'
  BY <1>0 DEF ServerInv, AnswerInv, Serving
<1>7. StayingIsAnswered'
  BY <1>0 DEF ServerInv, StayingIsAnswered
<1> QED BY <1>1, <1>2, <1>3, <1>4, <1>5, <1>6, <1>7 DEF ServerInv

\* recv finds nothing only where the client has left.
LEMMA HangUpStep ==
    ASSUME ServerInv, HangUp
    PROVE  ServerInv'
<1>0. /\ current # Nobody /\ pc = "visit" /\ CloseCurrent
      /\ IsReady(Here) /\ arrived[Here] \notin {"part", "whole"} /\ peer[Here] # "open"
      /\ UNCHANGED <<setup, alive, files, read_set, words, backlog, request, peer,
                     arrived, answer>>
  <2>1. current \in read_set /\ pc = "visit" /\ current # Nobody
    BY ServerAssumption DEF HangUp, ServerInv, TypeOK
  <2>2. current \in Elements(list)
    BY <2>1, ServerFacts
  <2> QED BY <2>1, <2>2 DEF HangUp, ServerInv, ReadyInv, IsReady, Here
<1>8. /\ ListIsOpenSockets'
      /\ list' \in Seq(Fd) /\ Elements(list') = Elements(list) \ {current}
      /\ socket' \in [Fd -> Client \union {Nobody}]
      /\ \A f \in Fd : socket'[f] = IF f = current THEN Nobody ELSE socket[f]
      /\ Here \in Client /\ Here \notin shut /\ shut' = shut \union {Here}
      /\ \A f \in Fd : f # current => socket[f] # Here
      /\ current' \in Fd \union {Nobody} /\ pc' = "visit"
      /\ current \in Elements(list) /\ current \in Fd
  BY <1>0, CloseFact
<1>9. Here = socket[current] /\ Here # Nobody /\ Elements(list) \subseteq Fd
  BY <1>8, ServerFacts DEF Here
<1>1. TypeOK'
  BY <1>0, <1>8 DEF ServerInv, TypeOK
<1>2. answer' \in [Client -> Seq(Piece)]
  BY <1>0 DEF ServerInv
<1>3. ListIsOpenSockets'
  BY <1>8
<1>4. PlaceInv'
  <2>1. /\ \A c \in Elements(backlog) : c \notin shut' /\ \A f \in Fd : socket'[f] # c
    <3>1. Nobody \notin Elements(backlog)
      BY ServerFacts, ElementsFact DEF ServerInv, TypeOK
    <3> QED BY <1>8, <1>9, <3>1 DEF ServerInv, PlaceInv
  <2> QED BY <1>0, <1>8, <1>9, <2>1 DEF ServerInv, PlaceInv
<1>5. ReadyInv'
  BY <1>0, <1>8, <1>9 DEF ServerInv, ReadyInv, IsReady
<1>6. AnswerInv'
  BY <1>0, <1>8 DEF ServerInv, AnswerInv, Serving
<1>7. StayingIsAnswered'
  BY <1>0, <1>8 DEF ServerInv, StayingIsAnswered
<1> QED BY <1>1, <1>2, <1>3, <1>4, <1>5, <1>6, <1>7 DEF ServerInv

LEMMA RecvStep ==
    ASSUME ServerInv, Recv
    PROVE  ServerInv'
<1>0. /\ pc = "visit" /\ current \in read_set /\ current # Nobody
      /\ current \in Elements(list) /\ Elements(list) \subseteq Fd
      /\ Here = socket[current] /\ Here \in Client
      /\ \A f \in Elements(list) : f # current => socket[f] # Here
      /\ arrived' = [arrived EXCEPT ![Here] = IF @ = "whole" THEN "read" ELSE "cut"]
      /\ pc' = "header"
      /\ UNCHANGED <<setup, alive, list, socket, files, read_set, current,
                     backlog, request, peer, answer, shut>>
  <2>1. pc = "visit" /\ current \in read_set /\ current # Nobody
    BY ServerAssumption DEF Recv, ServerInv, TypeOK
  <2> QED BY <2>1, ServerFacts DEF Recv, Here
<1>1. TypeOK'
  <2>1. words' \in Request
    <3>1. request[Here] \in Request
      <4>1. NoRequest \in Request
        BY DEF NoRequest, Request, Action, File
      <4>2. request[Here] \in Requests \union {NoRequest}
        BY <1>0 DEF ServerInv, TypeOK
      <4> QED BY <4>1, <4>2, ServerAssumption
    <3>2. \A q \in Requests : q \in Request
      BY ServerAssumption
    <3>3. \A q \in Requests : [q EXCEPT !.action = request[Here].action,
                                        !.fits = @ /\ request[Here].fits] \in Request
      BY <3>1, <3>2 DEF Request
    <3> QED BY <3>1, <3>3 DEF Recv, recv
  <2> QED BY <1>0, <2>1 DEF ServerInv, TypeOK
<1>2. answer' \in [Client -> Seq(Piece)]
  BY <1>0 DEF ServerInv, TypeOK, Recv, clients, Serving, IsReady
<1>3. ListIsOpenSockets'
  BY <1>0 DEF ServerInv, ListIsOpenSockets, Recv, clients, TypeOK, Serving, IsReady
<1>4. PlaceInv'
  BY <1>0 DEF ServerInv, PlaceInv, Recv, clients, TypeOK, Serving, IsReady
<1>5. ReadyInv'
  <2>1. \A f \in read_set \intersect Elements(list) : f = current \/ IsReady(socket[f])'
    <3> SUFFICES ASSUME NEW f \in read_set \intersect Elements(list), f # current
                 PROVE  IsReady(socket[f])'
      OBVIOUS
    <3>1. IsReady(socket[f]) /\ socket[f] # Here /\ socket[f] \in Client
      BY <1>0, ServerFacts DEF ServerInv, ReadyInv
    <3> QED BY <1>0, <3>1 DEF IsReady, ServerInv, TypeOK
  <2> QED BY <1>0, <2>1 DEF ReadyInv
<1>6. AnswerInv'
  BY <1>0 DEF ServerInv, AnswerInv, Recv, clients, TypeOK, Serving, IsReady
<1>7. StayingIsAnswered'
  BY <1>0 DEF ServerInv, StayingIsAnswered, Recv, clients, TypeOK, Serving, IsReady
<1> QED BY <1>1, <1>2, <1>3, <1>4, <1>5, <1>6, <1>7 DEF ServerInv

\* send gives the client at most one piece more, and none to one that is reset.
LEMMA SentFact ==
    ASSUME ServerInv, NEW c \in Client, NEW piece \in Piece, Sent(c, piece)
    PROVE  /\ answer' \in [Client -> Seq(Piece)]
           /\ peer' \in [Client -> {"away", "open", "fin", "dying", "rst", "pipe"}]
           /\ \A d \in Client : d # c => answer'[d] = answer[d] /\ peer'[d] = peer[d]
           /\ peer'[c] = "away" <=> peer[c] = "away"
           /\ peer'[c] = "open" <=> peer[c] = "open"
           /\ peer[c] # "pipe" /\ (peer[c] = "rst" => peer'[c] = "pipe")
           /\ Len(answer[c]) \in Nat
           /\ Len(answer'[c]) = IF peer[c] = "rst" THEN Len(answer[c]) ELSE Len(answer[c]) + 1
<1>1. /\ answer \in [Client -> Seq(Piece)]
      /\ peer \in [Client -> {"away", "open", "fin", "dying", "rst", "pipe"}]
  BY DEF ServerInv, TypeOK
<1>2. peer' \in [Client -> {"away", "open", "fin", "dying", "rst", "pipe"}]
  BY <1>1 DEF Sent
<1>3. answer[c] \in Seq(Piece) /\ Append(answer[c], piece) \in Seq(Piece)
  BY <1>1
<1>4. answer' = [answer EXCEPT ![c] = IF peer[c] = "rst" THEN @ ELSE Append(@, piece)]
  BY DEF Sent
<1>5. answer' \in [Client -> Seq(Piece)]
  BY <1>1, <1>3, <1>4
<1>6. Len(answer'[c]) = IF peer[c] = "rst" THEN Len(answer[c]) ELSE Len(answer[c]) + 1
  BY <1>1, <1>3, <1>4
<1> QED BY <1>1, <1>2, <1>3, <1>4, <1>5, <1>6 DEF Sent

LEMMA SendHeaderStep ==
    ASSUME ServerInv, SendHeader
    PROVE  ServerInv'
<1>0. /\ pc = "header" /\ pc' = "page" /\ current # Nobody
      /\ current \in Elements(list) /\ Elements(list) \subseteq Fd
      /\ Here = socket[current] /\ Here \in Client /\ Here \notin shut
      /\ Sent(Here, header(words))
      /\ UNCHANGED <<setup, alive, list, socket, files, read_set, current, words,
                     backlog, request, arrived, shut>>
  <2>1. pc = "header" /\ current # Nobody
    BY DEF SendHeader, ServerInv, ReadyInv
  <2> QED BY <2>1, ServerFacts DEF SendHeader, Here
<1>8. header(words) \in Piece
  BY DEF header, Piece, validDir
<1>9. /\ answer' \in [Client -> Seq(Piece)]
      /\ peer' \in [Client -> {"away", "open", "fin", "dying", "rst", "pipe"}]
      /\ \A d \in Client : d # Here => answer'[d] = answer[d] /\ peer'[d] = peer[d]
      /\ peer'[Here] = "away" <=> peer[Here] = "away"
      /\ peer'[Here] = "open" <=> peer[Here] = "open"
      /\ peer[Here] = "rst" => peer'[Here] = "pipe"
      /\ Len(answer'[Here]) = IF peer[Here] = "rst" THEN 0 ELSE 1
  <2>1. Len(answer[Here]) = 0
    BY <1>0 DEF ServerInv, AnswerInv, Serving
  <2> QED BY <1>0, <1>8, <2>1, SentFact
<1>1. TypeOK'
  <2>1. ASSUME NEW d \in Client PROVE Len(answer'[d]) <= 2
    <3>1. PICK n \in 0..1 : Len(answer'[Here]) = n
      BY <1>9
    <3>2. Len(answer'[Here]) <= 2
      <4>1. n <= 2
        OBVIOUS
      <4> QED BY <3>1, <4>1
    <3>3. CASE d = Here
      BY <3>2, <3>3
    <3>4. CASE d # Here
      BY <1>9, <3>4 DEF ServerInv, TypeOK
    <3> QED BY <3>3, <3>4
  <2> QED BY <1>0, <1>9, <2>1 DEF ServerInv, TypeOK
<1>2. answer' \in [Client -> Seq(Piece)]
  BY <1>9
<1>3. ListIsOpenSockets'
  BY <1>0 DEF ServerInv, ListIsOpenSockets
<1>4. PlaceInv'
  <2>1. \A d \in Client : peer'[d] = "away" <=> peer[d] = "away"
    BY <1>9
  <2>2. Elements(backlog) \subseteq Client /\ shut \subseteq Client
    BY ElementsFact DEF ServerInv, TypeOK
  <2>3. \A f \in Fd : socket[f] # Nobody => socket[f] \in Client
    BY ServerFacts
  <2> QED BY <1>0, <2>1, <2>2, <2>3 DEF ServerInv, PlaceInv
<1>5. ReadyInv'
  <2>1. \A d \in Client : peer[d] # "open" => peer'[d] # "open"
    BY <1>9
  <2> QED BY <1>0, <2>1, ServerFacts DEF ServerInv, ReadyInv, IsReady
<1>6. AnswerInv'
  <2>1. \A c \in Client : ~Serving(c)
    BY <1>0 DEF Serving
  <2>2. \A c \in Client : Serving(c)' <=> c = Here
    BY <1>0 DEF Serving
  <2>3. \A c \in Client : c \notin shut => answer[c] = <<>>
    BY <2>1 DEF ServerInv, AnswerInv
  <2>4. Len(answer'[Here]) <= 1 /\ (peer'[Here] # "pipe" => Len(answer'[Here]) = 1)
    BY <1>9
  <2> QED BY <1>0, <1>9, <2>2, <2>3, <2>4 DEF AnswerInv
<1>7. StayingIsAnswered'
  <2>1. \A d \in shut : d \in Client /\ d # Here
    BY <1>0 DEF ServerInv, TypeOK
  <2> QED BY <1>0, <1>9, <2>1 DEF ServerInv, StayingIsAnswered
<1> QED BY <1>1, <1>2, <1>3, <1>4, <1>5, <1>6, <1>7 DEF ServerInv

LEMMA SendPageStep ==
    ASSUME ServerInv, SendPage
    PROVE  ServerInv'
<1>0. /\ pc = "page" /\ current # Nobody /\ Used # Fd /\ CloseCurrent
      /\ files' = files \union {LowestFree} /\ words' = NoRequest
      /\ Sent(Here, page(words))
      /\ UNCHANGED <<setup, read_set, backlog, request, arrived>> /\ alive' \in BOOLEAN
  <2>1. words.fits \in BOOLEAN
    BY DEF ServerInv, TypeOK, Request
  <2> QED BY <2>1 DEF SendPage, ServerInv, ReadyInv
<1>8. /\ ListIsOpenSockets'
      /\ list' \in Seq(Fd) /\ Elements(list') = Elements(list) \ {current}
      /\ socket' \in [Fd -> Client \union {Nobody}]
      /\ \A f \in Fd : socket'[f] = IF f = current THEN Nobody ELSE socket[f]
      /\ Here \in Client /\ Here \notin shut /\ shut' = shut \union {Here}
      /\ \A f \in Fd : f # current => socket[f] # Here
      /\ current' \in Fd \union {Nobody} /\ pc' = "visit"
      /\ current \in Elements(list) /\ current \in Fd
  BY <1>0, CloseFact
<1>9. Here = socket[current] /\ Here # Nobody /\ Elements(list) \subseteq Fd
  BY <1>8, ServerFacts DEF Here
<1>10. page(words) \in Piece
  <2>1. words.file \in File /\ validDir(words) \in {200, 400, 404, 500, 501}
    BY DEF ServerInv, TypeOK, Request, validDir
  <2> QED BY <2>1 DEF page, Piece, ErrorPages
<1>11. /\ answer' \in [Client -> Seq(Piece)]
       /\ peer' \in [Client -> {"away", "open", "fin", "dying", "rst", "pipe"}]
       /\ \A d \in Client : d # Here => answer'[d] = answer[d] /\ peer'[d] = peer[d]
       /\ peer'[Here] = "away" <=> peer[Here] = "away"
       /\ peer'[Here] = "open" <=> peer[Here] = "open"
       /\ Len(answer'[Here]) <= 2 /\ (peer'[Here] = "open" => Len(answer'[Here]) = 2)
  <2>1. /\ Len(answer[Here]) <= 1 /\ (peer[Here] = "open" => Len(answer[Here]) = 1)
    BY <1>0, <1>8, <1>9 DEF ServerInv, AnswerInv, Serving
  <2>2. /\ answer' \in [Client -> Seq(Piece)]
        /\ peer' \in [Client -> {"away", "open", "fin", "dying", "rst", "pipe"}]
        /\ \A d \in Client : d # Here => answer'[d] = answer[d] /\ peer'[d] = peer[d]
        /\ peer'[Here] = "away" <=> peer[Here] = "away"
        /\ peer'[Here] = "open" <=> peer[Here] = "open"
        /\ Len(answer[Here]) \in Nat
        /\ Len(answer'[Here]) = IF peer[Here] = "rst" THEN Len(answer[Here])
                                                     ELSE Len(answer[Here]) + 1
    BY <1>0, <1>8, <1>10, SentFact
  <2>3. ASSUME peer[Here] = "open" PROVE Len(answer'[Here]) = 2
    <3>1. Len(answer[Here]) = 1 /\ peer[Here] # "rst"
      BY <2>1, <2>3
    <3>2. Len(answer'[Here]) = Len(answer[Here]) + 1
      BY <2>2, <3>1
    <3> QED BY <3>1, <3>2
  <2> QED BY <2>1, <2>2, <2>3
<1>1. TypeOK'
  <2>1. \A d \in Client : Len(answer'[d]) <= 2
    BY <1>11 DEF ServerInv, TypeOK
  <2>2. LowestFree \in Fd
    BY <1>0, LowestFreeFact
  <2>3. words' \in Request
    BY <1>0 DEF NoRequest, Request, Action, File
  <2> QED BY <1>0, <1>8, <1>11, <2>1, <2>2, <2>3 DEF ServerInv, TypeOK
<1>2. answer' \in [Client -> Seq(Piece)]
  BY <1>11
<1>3. ListIsOpenSockets'
  BY <1>8
<1>4. PlaceInv'
  <2>1. \A d \in Client : peer'[d] = "away" <=> peer[d] = "away"
    BY <1>11
  <2>2. /\ Elements(backlog) \subseteq Client /\ shut \subseteq Client
        /\ Nobody \notin Client
    BY ElementsFact, ServerFacts DEF ServerInv, TypeOK
  <2>3. \A f \in Fd : socket[f] # Nobody => socket[f] \in Client
    BY ServerFacts
  <2>4. \A c \in Elements(backlog) : c \notin shut' /\ \A f \in Fd : socket'[f] # c
    BY <1>8, <1>9, <2>2 DEF ServerInv, PlaceInv
  <2>5. peer[Here] # "away"
    BY <1>8, <1>9 DEF ServerInv, PlaceInv
  <2> QED BY <1>0, <1>8, <2>1, <2>2, <2>3, <2>4, <2>5 DEF ServerInv, PlaceInv
<1>5. ReadyInv'
  <2> SUFFICES ASSUME NEW f \in read_set \intersect Elements(list)', f # current
               PROVE  IsReady(socket[f])'
    BY <1>0, <1>8 DEF ReadyInv
  <2>1. f \in Elements(list) /\ f \in Fd /\ f \in read_set /\ socket'[f] = socket[f]
    BY <1>0, <1>8, <1>9
  <2>2. IsReady(socket[f]) /\ socket[f] # Here /\ socket[f] \in Client
    BY <1>0, <1>8, <2>1, ServerFacts DEF ServerInv, ReadyInv
  <2> QED BY <1>0, <1>11, <2>1, <2>2 DEF IsReady
<1>6. AnswerInv'
  BY <1>0, <1>8, <1>9, <1>11 DEF ServerInv, AnswerInv, Serving
<1>7. StayingIsAnswered'
  BY <1>8, <1>11 DEF ServerInv, StayingIsAnswered, TypeOK
<1> QED BY <1>1, <1>2, <1>3, <1>4, <1>5, <1>6, <1>7 DEF ServerInv

LEMMA InitServer == Init => ServerInv
<1> SUFFICES ASSUME Init PROVE ServerInv
  OBVIOUS
<1>1. Elements(<<>>) = {} /\ Distinct(<<>>) /\ Nobody \notin Client
  BY ServerAssumption DEF Elements, Distinct
<1>2. TypeOK /\ answer \in [Client -> Seq(Piece)]
  BY DEF Init, TypeOK, NoRequest, Request, Action, File
<1>3. ListIsOpenSockets /\ PlaceInv
  BY <1>1 DEF Init, ListIsOpenSockets, PlaceInv
<1>4. ReadyInv /\ AnswerInv /\ StayingIsAnswered
  BY DEF Init, ReadyInv, AnswerInv, Serving, StayingIsAnswered
<1> QED BY <1>2, <1>3, <1>4 DEF ServerInv

LEMMA NextServer == ServerInv /\ [Next]_vars => ServerInv'
<1> SUFFICES ASSUME ServerInv, [Next]_vars PROVE ServerInv'
  OBVIOUS
<1>1. CASE ServerNext
  <2>1. CASE AcceptFails \/ RecvWithoutMode \/ Overflow \/ PageFails \/ BrokenPipe
    BY <2>1, DiesStep DEF AcceptFails, RecvWithoutMode, Overflow, PageFails, BrokenPipe
  <2> QED BY <1>1, <2>1, SelectStep, AcceptStep, LoopEndsStep, SkipStep, HangUpStep,
             RecvStep, SendHeaderStep, SendPageStep DEF ServerNext
<1>2. CASE \E c \in Client : \/ Connect(c) \/ SendRequest(c) \/ SendRest(c)
                             \/ Leave(c) \/ ResetArrives(c)
  BY <1>2, ConnectStep, SendRequestStep, SendRestStep, LeaveStep, ResetArrivesStep
<1>3. CASE UNCHANGED vars
  <2>1. UNCHANGED <<setup, server, clients>>
    BY <1>3 DEF vars
  <2> QED BY <2>1 DEF server, clients, ServerInv, TypeOK, ListIsOpenSockets, PlaceInv,
                      ReadyInv, IsReady, AnswerInv, Serving, StayingIsAnswered
<1> QED BY <1>1, <1>2, <1>3 DEF Next

-----------------------------------------------------------------------------
(* The theorems. *)

LEMMA ServerInvariance == Spec => []ServerInv
BY InitServer, NextServer, PTL DEF Spec

\* Types, with at most two pieces for each client (server_num.c 262-321).
THEOREM ServerTyped == Spec => []TypeOK
<1>1. ServerInv => TypeOK
  BY DEF ServerInv
<1> QED BY <1>1, ServerInvariance, PTL

\* No connection is dropped from the list, none is in it twice, and no descriptor
\* of the list is closed, so that select never fails (server_num.c 185-206).
THEOREM WatchesWhatIsOpen == Spec => []ListIsOpenSockets
<1>1. ServerInv => ListIsOpenSockets
  BY DEF ServerInv
<1> QED BY <1>1, ServerInvariance, PTL

\* A client that stays is not closed before it is answered (server_num.c 292-305).
THEOREM NoneIsHungUpOn == Spec => []StayingIsAnswered
<1>1. ServerInv => StayingIsAnswered
  BY DEF ServerInv
<1> QED BY <1>1, ServerInvariance, PTL

-----------------------------------------------------------------------------
(* Each client is sent the answer to its own request. *)

Receives(c) == peer[c] \in {"open", "fin", "dying"}
InOrder(c) == answer[c] \in {<<>>, <<header(request[c])>>,
                             <<header(request[c]), page(request[c])>>}

\* The words of the loop are those of the client it is at.
WordsAreHers ==
    pc \in {"header", "page"} =>
        /\ arrived[socket[current]] \in {"read", "cut"}
        /\ arrived[socket[current]] = "read" => words = request[socket[current]]
AnsweredInv ==
    /\ \A c \in Client : answer[c] # <<>> => arrived[c] \in {"read", "cut"}
    /\ \A c \in Client : arrived[c] = "read" /\ Receives(c) => InOrder(c)
    /\ WordsAreHers

LEMMA PairFact ==
    ASSUME NEW x, NEW y
    PROVE  /\ Append(<<x>>, y) = <<x, y>>
           /\ SubSeq(<<x, y>>, 1, 0) = <<>>
           /\ SubSeq(<<x, y>>, 1, 1) = <<x>>
           /\ SubSeq(<<x, y>>, 1, 2) = <<x, y>>
<1> DEFINE S == {x, y}
           s == <<x, y>>
<1>1. s \in Seq(S) /\ Len(s) = 2 /\ s[1] = x /\ s[2] = y
  OBVIOUS
<1>2. Append(<<x>>, y) = s
  <2>1. <<x>> \in Seq(S) /\ y \in S /\ Len(<<x>>) = 1 /\ <<x>>[1] = x
    OBVIOUS
  <2> HIDE DEF S, s
  <2>2. /\ Append(<<x>>, y) \in Seq(S) /\ Len(Append(<<x>>, y)) = 2
        /\ Append(<<x>>, y)[1] = x /\ Append(<<x>>, y)[2] = y
    BY <2>1, AppendProperties
  <2> QED BY <1>1, <2>2, SeqEqual
<1>3. SubSeq(s, 1, 0) = <<>>
  BY SubSeqEmpty
<1>4. SubSeq(s, 1, 1) = <<x>>
  <2>1. \A i \in 1..1 : s[i] \in S
    BY <1>1
  <2>2. <<x>> \in Seq(S) /\ Len(<<x>>) = 1 /\ <<x>>[1] = x
    OBVIOUS
  <2> HIDE DEF S, s
  <2>3. SubSeq(s, 1, 1) \in Seq(S) /\ Len(SubSeq(s, 1, 1)) = 1 /\ SubSeq(s, 1, 1)[1] = x
    <3>1. /\ SubSeq(s, 1, 1) \in Seq(S)
          /\ Len(SubSeq(s, 1, 1)) = IF 1 <= 1 THEN 1 - 1 + 1 ELSE 0
          /\ \A i \in 1..(1 - 1 + 1) : SubSeq(s, 1, 1)[i] = s[1 + i - 1]
      BY <2>1, SubSeqProperties
    <3>2. 1 \in 1..(1 - 1 + 1) /\ 1 + 1 - 1 = 1
      OBVIOUS
    <3> QED BY <1>1, <3>1, <3>2
  <2> DEFINE one == <<x>>
             sub == SubSeq(s, 1, 1)
  <2>4. one \in Seq(S) /\ Len(one) = 1 /\ one[1] = x
    BY <2>2
  <2>5. sub \in Seq(S) /\ Len(sub) = 1 /\ sub[1] = x
    BY <2>3
  <2> HIDE DEF one, sub
  <2>6. sub = one
    BY <2>4, <2>5, SeqEqual
  <2> QED BY <2>6 DEF one, sub
<1>5. SubSeq(s, 1, 2) = s
  <2>1. \A i \in 1..2 : s[i] \in S
    BY <1>1
  <2> HIDE DEF S, s
  <2>2. /\ SubSeq(s, 1, 2) \in Seq(S) /\ Len(SubSeq(s, 1, 2)) = 2
        /\ SubSeq(s, 1, 2)[1] = s[1] /\ SubSeq(s, 1, 2)[2] = s[2]
    BY <1>1, <2>1, SubSeqProperties
  <2> QED BY <1>1, <2>2, SeqEqual
<1> QED BY <1>2, <1>3, <1>4, <1>5

LEMMA SameAnswer ==
    ASSUME UNCHANGED setup, NEW c \in Client, request'[c] = request[c]
    PROVE  /\ header(request[c])' = header(request[c])
           /\ page(request[c])' = page(request[c])
BY DEF header, page, validDir

\* A step in which nobody is sent anything.
LEMMA NobodyIsSent ==
    ASSUME AnsweredInv, UNCHANGED setup, WordsAreHers',
           \A c \in Client :
               \/ answer'[c] = <<>>
               \/ /\ arrived'[c] = arrived[c] /\ request'[c] = request[c]
                  /\ answer'[c] = answer[c] /\ (Receives(c)' => Receives(c))
    PROVE  AnsweredInv'
<1>1. ASSUME NEW c \in Client, answer'[c] # <<>> PROVE arrived'[c] \in {"read", "cut"}
  BY <1>1 DEF AnsweredInv
<1>2. ASSUME NEW c \in Client, arrived'[c] = "read", Receives(c)' PROVE InOrder(c)'
  <2>1. CASE answer'[c] = <<>>
    BY <2>1 DEF InOrder
  <2>2. CASE /\ arrived'[c] = arrived[c] /\ request'[c] = request[c]
             /\ answer'[c] = answer[c] /\ (Receives(c)' => Receives(c))
    <3>1. InOrder(c)
      BY <1>2, <2>2 DEF AnsweredInv
    <3> QED BY <2>2, <3>1, SameAnswer DEF InOrder
  <2> QED BY <2>1, <2>2
<1> QED BY <1>1, <1>2 DEF AnsweredInv

\* Clients do not touch what the loop holds; what they have sent in whole and
\* was read, they do not send again.
LEMMA ClientKeepsAnswers ==
    ASSUME ServerInv, AnsweredInv, NEW c \in Client,
           \/ Connect(c) \/ SendRequest(c) \/ SendRest(c) \/ Leave(c) \/ ResetArrives(c)
    PROVE  AnsweredInv'
<1>1. UNCHANGED <<setup, server, answer>>
  BY DEF Connect, SendRequest, SendRest, Leave, ResetArrives
<1>2. /\ peer \in [Client -> {"away", "open", "fin", "dying", "rst", "pipe"}]
      /\ arrived \in [Client -> {"nothing", "part", "whole", "read", "cut"}]
      /\ request \in [Client -> Requests \union {NoRequest}]
  BY DEF ServerInv, TypeOK
<1>3. \A d \in Client : arrived[d] \in {"nothing", "part", "whole"} => answer[d] = <<>>
  BY DEF AnsweredInv
<1>4. ASSUME NEW d \in Client
      PROVE  /\ arrived[d] \in {"read", "cut"} =>
                    arrived'[d] = arrived[d] /\ request'[d] = request[d]
             /\ \/ answer'[d] = <<>>
                \/ /\ arrived'[d] = arrived[d] /\ request'[d] = request[d]
                   /\ answer'[d] = answer[d] /\ (Receives(d)' => Receives(d))
  <2>1. CASE Connect(c)
    <3>1. peer[c] = "away" /\ UNCHANGED <<request, arrived, answer>>
          /\ peer' = [peer EXCEPT ![c] = "open"]
      BY <2>1 DEF Connect
    <3>2. answer[c] = <<>>
      <4>1. c \notin shut /\ ~Serving(c)
        BY <3>1, ServerFacts DEF ServerInv, PlaceInv, Serving
      <4> QED BY <4>1 DEF ServerInv, AnswerInv
    <3> QED BY <1>2, <3>1, <3>2 DEF Receives
  <2>2. CASE SendRequest(c) \/ SendRest(c)
    <3>1. arrived[c] \in {"nothing", "part"} /\ UNCHANGED <<peer, answer>>
      BY <2>2 DEF SendRequest, SendRest
    <3>2. d # c => arrived'[d] = arrived[d] /\ request'[d] = request[d]
      BY <1>2, <2>2 DEF SendRequest, SendRest
    <3> QED BY <1>3, <3>1, <3>2 DEF Receives
  <2>3. CASE Leave(c) \/ ResetArrives(c)
    <3>1. UNCHANGED <<request, arrived, answer>> /\ peer[c] \in {"open", "dying"}
      BY <2>3 DEF Leave, ResetArrives
    <3>2. d # c => peer'[d] = peer[d]
      BY <1>2, <2>3 DEF Leave, ResetArrives
    <3> QED BY <3>1, <3>2 DEF Receives
  <2> QED BY <2>1, <2>2, <2>3
<1>5. WordsAreHers'
  <2>1. ASSUME pc \in {"header", "page"} PROVE socket[current] \in Client
    <3>1. current # Nobody
      BY <2>1 DEF ServerInv, ReadyInv
    <3> QED BY <3>1, ServerFacts
  <2> QED BY <1>1, <1>4, <2>1 DEF AnsweredInv, WordsAreHers, server
<1> QED BY <1>1, <1>4, <1>5, NobodyIsSent

\* The steps of the server that send nothing.
LEMMA LoopKeepsAnswers ==
    ASSUME ServerInv, AnsweredInv,
           \/ Select \/ Accept \/ LoopEnds \/ Skip \/ HangUp \/ Dies
    PROVE  AnsweredInv'
<1>1. UNCHANGED <<setup, request, peer, arrived, answer, words>>
  BY DEF Select, Accept, LoopEnds, Skip, HangUp, Dies, clients
<1>2. \/ pc' \notin {"header", "page"}
      \/ UNCHANGED <<pc, socket, current>>
  BY DEF Select, Accept, LoopEnds, Skip, HangUp, CloseCurrent, Dies, clients
<1>3. WordsAreHers'
  BY <1>1, <1>2 DEF AnsweredInv, WordsAreHers
<1>4. \A c \in Client : Receives(c)' => Receives(c)
  BY <1>1 DEF Receives
<1> QED BY <1>1, <1>3, <1>4, NobodyIsSent

LEMMA RecvKeepsAnswers ==
    ASSUME ServerInv, AnsweredInv, Recv
    PROVE  AnsweredInv'
<1>1. /\ pc = "visit" /\ current # Nobody /\ arrived[Here] \in {"part", "whole"}
      /\ words' \in recv(Here)
      /\ arrived' = [arrived EXCEPT ![Here] = IF @ = "whole" THEN "read" ELSE "cut"]
      /\ UNCHANGED <<setup, socket, current, request, peer, answer>>
      /\ arrived \in [Client -> {"nothing", "part", "whole", "read", "cut"}]
  BY ServerAssumption DEF Recv, ServerInv, TypeOK
<1>2. Here \in Client /\ Here = socket[current]
  BY <1>1, ServerFacts DEF Here
<1>3. answer[Here] = <<>>
  BY <1>1, <1>2 DEF AnsweredInv
<1>4. WordsAreHers'
  <2>1. arrived'[Here] = IF arrived[Here] = "whole" THEN "read" ELSE "cut"
    BY <1>1, <1>2
  <2>2. arrived[Here] = "whole" => words' = request[Here]
    BY <1>1 DEF recv
  <2> QED BY <1>1, <1>2, <2>1, <2>2 DEF WordsAreHers
<1>5. \A c \in Client : c # Here => arrived'[c] = arrived[c]
  BY <1>1, <1>2
<1>6. \A c \in Client : Receives(c)' => Receives(c)
  BY <1>1 DEF Receives
<1> QED BY <1>1, <1>3, <1>4, <1>5, <1>6, NobodyIsSent

\* The one that is sent the next piece had the pieces before it.
LEMMA SendKeepsAnswers ==
    ASSUME ServerInv, AnsweredInv, SendHeader \/ SendPage
    PROVE  AnsweredInv'
<1> DEFINE piece == IF pc = "header" THEN header(words) ELSE page(words)
<1>1. /\ pc \in {"header", "page"} /\ current # Nobody /\ Sent(Here, piece)
      /\ UNCHANGED <<setup, request, arrived>>
  <2>1. pc \in {"header", "page"} /\ Sent(Here, piece) /\ UNCHANGED <<setup, request, arrived>>
    BY DEF SendHeader, SendPage
  <2> QED BY <2>1 DEF ServerInv, ReadyInv
<1>2. PICK c \in Client : /\ c = socket[current] /\ c = Here /\ c \notin shut
                          /\ Sent(c, piece)
  BY <1>1, ServerFacts DEF Here
<1>3. /\ answer \in [Client -> Seq(Piece)]
      /\ peer \in [Client -> {"away", "open", "fin", "dying", "rst", "pipe"}]
  BY DEF ServerInv, TypeOK
<1>4. arrived[c] \in {"read", "cut"} /\ (arrived[c] = "read" => words = request[c])
  BY <1>1, <1>2 DEF AnsweredInv, WordsAreHers
<1> HIDE DEF piece
<1>5. /\ \A d \in Client : d # c => answer'[d] = answer[d] /\ peer'[d] = peer[d]
      /\ peer[c] # "pipe"
      /\ peer'[c] = IF peer[c] = "fin" THEN "dying"
                    ELSE IF peer[c] = "rst" THEN "pipe" ELSE peer[c]
      /\ answer'[c] = IF peer[c] = "rst" THEN answer[c] ELSE Append(answer[c], piece)
  BY <1>2, <1>3 DEF Sent
<1>6. ASSUME arrived[c] = "read", Receives(c)' PROVE InOrder(c)'
  <2>1. Receives(c) /\ words = request[c] /\ peer[c] # "rst"
    BY <1>3, <1>4, <1>5, <1>6 DEF Receives
  <2>2. header(request[c])' = header(request[c]) /\ page(request[c])' = page(request[c])
    BY <1>1, SameAnswer
  <2>3. answer'[c] = Append(answer[c], piece)
    BY <1>5, <2>1
  <2>4. CASE pc = "header"
    <3>1. answer[c] = <<>>
      BY <1>2, <2>4 DEF ServerInv, AnswerInv, Serving
    <3>2. piece = header(request[c])
      BY <2>1, <2>4 DEF piece
    <3>3. answer'[c] = <<header(request[c])>>
      BY <2>3, <3>1, <3>2
    <3> QED BY <2>2, <3>3 DEF InOrder
  <2>5. CASE pc = "page"
    <3>1. Len(answer[c]) = 1
      BY <1>1, <1>2, <1>5, <2>5 DEF ServerInv, AnswerInv, Serving
    <3>2. InOrder(c)
      BY <1>6, <2>1 DEF AnsweredInv
    <3>3. answer[c] = <<header(request[c])>>
      BY <3>1, <3>2 DEF InOrder
    <3>4. piece = page(request[c])
      BY <2>1, <2>5 DEF piece
    <3>5. answer'[c] = <<header(request[c]), page(request[c])>>
      BY <2>3, <3>3, <3>4, PairFact
    <3> QED BY <2>2, <3>5 DEF InOrder
  <2> QED BY <1>1, <2>4, <2>5
<1>7. ASSUME NEW d \in Client, d # c, arrived[d] = "read", Receives(d)' PROVE InOrder(d)'
  <2>1. Receives(d) /\ answer'[d] = answer[d]
    BY <1>5, <1>7 DEF Receives
  <2>2. header(request[d])' = header(request[d]) /\ page(request[d])' = page(request[d])
    BY <1>1, SameAnswer
  <2>3. InOrder(d)
    BY <1>7, <2>1 DEF AnsweredInv
  <2> QED BY <2>1, <2>2, <2>3 DEF InOrder
<1>8. WordsAreHers'
  BY DEF SendHeader, SendPage, CloseCurrent, AnsweredInv, WordsAreHers
<1>9. \A d \in Client : answer'[d] # <<>> => arrived'[d] \in {"read", "cut"}
  BY <1>1, <1>4, <1>5 DEF AnsweredInv
<1> QED BY <1>1, <1>6, <1>7, <1>8, <1>9 DEF AnsweredInv

LEMMA NextAnswered == ServerInv /\ AnsweredInv /\ [Next]_vars => AnsweredInv'
<1> SUFFICES ASSUME ServerInv, AnsweredInv, [Next]_vars PROVE AnsweredInv'
  OBVIOUS
<1>1. CASE ServerNext
  <2>1. CASE AcceptFails \/ RecvWithoutMode \/ Overflow \/ PageFails \/ BrokenPipe
    BY <2>1, LoopKeepsAnswers DEF AcceptFails, RecvWithoutMode, Overflow, PageFails, BrokenPipe
  <2> QED BY <1>1, <2>1, LoopKeepsAnswers, RecvKeepsAnswers, SendKeepsAnswers DEF ServerNext
<1>2. CASE \E c \in Client : \/ Connect(c) \/ SendRequest(c) \/ SendRest(c)
                             \/ Leave(c) \/ ResetArrives(c)
  BY <1>2, ClientKeepsAnswers
<1>3. CASE UNCHANGED vars
  <2>1. UNCHANGED <<setup, words, request, peer, arrived, answer, pc, socket, current>>
    BY <1>3 DEF vars, server, clients
  <2>2. WordsAreHers' /\ \A c \in Client : Receives(c)' => Receives(c)
    BY <2>1 DEF AnsweredInv, WordsAreHers, Receives
  <2> QED BY <2>1, <2>2, NobodyIsSent
<1> QED BY <1>1, <1>2, <1>3 DEF Next

\* A client that sent its request in one piece and has not reset its connection is
\* sent what belongs to it, whatever others ask for and however numbers of sockets
\* are used again (server_num.c 262-321).
THEOREM AnswersAreForTheirRequests == Spec => []AnswerIsForItsRequest
<1>1. Init => AnsweredInv
  BY DEF Init, AnsweredInv, WordsAreHers
<1>2. AnsweredInv /\ ServerInv => AnswerIsForItsRequest
  <2> SUFFICES ASSUME AnsweredInv, ServerInv, NEW c \in Client, arrived[c] = "read", Receives(c)
               PROVE  LET own == <<header(request[c]), page(request[c])>>
                      IN  answer[c] = SubSeq(own, 1, Len(answer[c]))
    BY DEF AnsweredInv, AnswerIsForItsRequest, Receives
  <2> DEFINE h == header(request[c])
             p == page(request[c])
  <2>1. answer[c] \in {<<>>, <<h>>, <<h, p>>}
    BY DEF AnsweredInv, InOrder
  <2> HIDE DEF h, p
  <2>2. /\ SubSeq(<<h, p>>, 1, 0) = <<>> /\ SubSeq(<<h, p>>, 1, 1) = <<h>>
        /\ SubSeq(<<h, p>>, 1, 2) = <<h, p>>
    BY PairFact
  <2>3. answer[c] = SubSeq(<<h, p>>, 1, Len(answer[c]))
    BY <2>1, <2>2
  <2> QED BY <2>3 DEF h, p
<1> QED BY <1>1, <1>2, NextAnswered, InitServer, NextServer, PTL DEF Spec

-----------------------------------------------------------------------------
(* What the server survives. *)

\* Clients that have connected, and descriptors of connections.
Came == {c \in Client : peer[c] # "away"}
Open == {f \in Fd : socket[f] # Nobody}

\* Each file that stays open was the page of a connection that is closed.
CountInv == IsFiniteSet(Came) /\ Cardinality(files) <= Cardinality(shut)

LEMMA FilesAreFinite ==
    ASSUME ServerInv, IsFiniteSet(Came)
    PROVE  /\ IsFiniteSet(files) /\ Cardinality(files) \in Nat
           /\ IsFiniteSet(shut) /\ Cardinality(shut) \in Nat /\ shut \subseteq Came
<1>1. files \subseteq Fd /\ shut \subseteq Came
  BY DEF ServerInv, TypeOK, PlaceInv, Came
<1>2. IsFiniteSet(files) /\ IsFiniteSet(shut)
  BY <1>1, ServerAssumption, FS_Subset
<1> QED BY <1>1, <1>2, FS_CardinalityType

LEMMA OneMore ==
    ASSUME NEW S, IsFiniteSet(S), NEW x
    PROVE  /\ Cardinality(S) \in Nat /\ Cardinality(S \union {x}) \in Nat
           /\ Cardinality(S) <= Cardinality(S \union {x})
           /\ Cardinality(S \union {x}) <= Cardinality(S) + 1
<1>1. Cardinality(S) \in Nat
  BY FS_CardinalityType
<1>2. /\ IsFiniteSet(S \union {x})
      /\ Cardinality(S \union {x}) = IF x \in S THEN Cardinality(S) ELSE Cardinality(S) + 1
  BY FS_AddElement
<1> QED BY <1>1, <1>2

\* Every descriptor in use belongs to a client of its own.
LEMMA UsedAreFew ==
    ASSUME ServerInv, CountInv
    PROVE  Cardinality(Used) <= Cardinality(Came)
<1>1. /\ IsFiniteSet(files) /\ Cardinality(files) \in Nat
      /\ IsFiniteSet(shut) /\ Cardinality(shut) \in Nat /\ shut \subseteq Came
      /\ IsFiniteSet(Came) /\ Cardinality(files) <= Cardinality(shut)
  BY FilesAreFinite DEF CountInv
<1>2. Came \intersect shut = shut
  BY <1>1
<1>3. /\ IsFiniteSet(Came \ shut)
      /\ Cardinality(Came \ shut) = Cardinality(Came) - Cardinality(shut)
  BY <1>1, <1>2, FS_Difference
<1> DEFINE g == [f \in Open |-> socket[f]]
<1>4. g \in Injection(Open, Came \ shut)
  <2>1. \A f \in Open : socket[f] \in Came \ shut
    BY ServerFacts DEF Open, Came, ServerInv, PlaceInv
  <2>2. \A f, h \in Open : socket[f] = socket[h] => f = h
    BY ServerFacts DEF Open
  <2> QED BY <2>1, <2>2 DEF Injection, IsInjective
<1>5. IsFiniteSet(Open) /\ Cardinality(Open) <= Cardinality(Came \ shut)
  BY <1>3, <1>4, FS_Injection
<1>6. Used = Open \union files
  BY DEF Used, Open
<1>7. /\ Cardinality(Open \union files)
            = Cardinality(Open) + Cardinality(files) - Cardinality(Open \intersect files)
      /\ IsFiniteSet(Open \intersect files)
  BY <1>1, <1>5, FS_Union, FS_Intersection
<1>8. /\ Cardinality(Open) \in Nat /\ Cardinality(Came) \in Nat
      /\ Cardinality(Open \intersect files) \in Nat
  BY <1>1, <1>5, <1>7, FS_CardinalityType
<1> QED BY <1>1, <1>3, <1>5, <1>6, <1>7, <1>8

LEMMA NextCount == ServerInv /\ CountInv /\ [Next]_vars => CountInv'
<1> SUFFICES ASSUME ServerInv, CountInv, [Next]_vars PROVE CountInv'
  OBVIOUS
<1>1. /\ IsFiniteSet(files) /\ Cardinality(files) \in Nat
      /\ IsFiniteSet(shut) /\ Cardinality(shut) \in Nat
      /\ IsFiniteSet(Came) /\ Cardinality(files) <= Cardinality(shut)
      /\ peer \in [Client -> {"away", "open", "fin", "dying", "rst", "pipe"}]
  BY FilesAreFinite DEF CountInv, ServerInv, TypeOK
<1>2. ASSUME NEW c, Came' \subseteq Came \union {c} PROVE IsFiniteSet(Came')
  <2>1. IsFiniteSet(Came \union {c})
    BY <1>1, FS_AddElement
  <2> QED BY <2>1, <1>2, FS_Subset
<1>3. IsFiniteSet(Came')
  <2>1. CASE ServerNext
    <3>1. CASE SendHeader \/ SendPage
      <4>1. \A d \in Client : peer'[d] # "away" => peer[d] # "away" \/ d = Here
        BY <3>1, <1>1 DEF SendHeader, SendPage, Sent
      <4> QED BY <4>1, <1>2 DEF Came
    <3>2. CASE ~(SendHeader \/ SendPage)
      <4>1. UNCHANGED peer
        BY <2>1, <3>2 DEF ServerNext, Select, Accept, AcceptFails, LoopEnds, Skip, HangUp,
           Recv, RecvWithoutMode, Overflow, PageFails, BrokenPipe, Dies, clients
      <4> QED BY <4>1, <1>2 DEF Came
    <3> QED BY <3>1, <3>2
  <2>2. ASSUME NEW c \in Client, \/ Connect(c) \/ SendRequest(c) \/ SendRest(c)
                                 \/ Leave(c) \/ ResetArrives(c)
        PROVE IsFiniteSet(Came')
    <3>1. \A d \in Client : d # c => peer'[d] = peer[d]
      BY <2>2, <1>1 DEF Connect, SendRequest, SendRest, Leave, ResetArrives
    <3> QED BY <3>1, <1>2 DEF Came
  <2>3. CASE UNCHANGED vars
    BY <2>3, <1>1 DEF vars, clients, Came
  <2> QED BY <2>1, <2>2, <2>3 DEF Next
<1>4. Cardinality(files') <= Cardinality(shut')
  <2>1. CASE SendPage
    <3>1. /\ files' = files \union {LowestFree} /\ CloseCurrent /\ current # Nobody
      BY <2>1 DEF SendPage, ServerInv, ReadyInv
    <3>2. Here \notin shut /\ shut' = shut \union {Here}
      BY <3>1, CloseFact
    <3>3. Cardinality(files') <= Cardinality(files) + 1 /\ Cardinality(files') \in Nat
      BY <3>1, <1>1, OneMore
    <3>4. Cardinality(shut') = Cardinality(shut) + 1
      BY <3>2, <1>1, FS_AddElement
    <3> QED BY <3>3, <3>4, <1>1
  <2>2. CASE HangUp
    <3>1. files' = files /\ CloseCurrent /\ shut' = shut \union {Here}
      BY <2>2 DEF HangUp, CloseCurrent
    <3>2. Cardinality(shut') >= Cardinality(shut) /\ Cardinality(shut') \in Nat
      BY <3>1, <1>1, OneMore
    <3> QED BY <3>1, <3>2, <1>1
  <2>3. CASE ~(SendPage \/ HangUp)
    <3>1. UNCHANGED <<files, shut>>
      BY <2>3 DEF Next, ServerNext, Select, Accept, AcceptFails, LoopEnds, Skip, Recv,
         RecvWithoutMode, Overflow, SendHeader, PageFails, BrokenPipe, Dies, clients, server, vars,
         Connect, SendRequest, SendRest, Leave, ResetArrives
    <3> QED BY <3>1, <1>1
  <2> QED BY <2>1, <2>2, <2>3
<1> QED BY <1>3, <1>4 DEF CountInv

\* The clients and the start that the server is said to survive.
Careful ==
    /\ setup.mode /\ setup.home
    /\ \A c \in Client : Harmless(c)
    /\ Cardinality({c \in Client : peer[c] # "away"}) < Cardinality(Fd)

\* With them each of the ways in which the process may end is closed.
LEMMA NothingEndsIt ==
    ASSUME ServerInv, AnsweredInv, CountInv, Careful
    PROVE  /\ ~AcceptFails /\ ~RecvWithoutMode /\ ~BrokenPipe /\ ~PageFails
           /\ ~Overflow
           /\ Select \/ SendPage => alive'
<1>1. Used # Fd
  <2>1. Cardinality(Came) < Cardinality(Fd)
    BY DEF Careful, Came
  <2>2. Cardinality(Used) <= Cardinality(Came)
    BY UsedAreFew
  <2>3. Cardinality(Came) \in Nat /\ Cardinality(Fd) \in Nat
    BY ServerAssumption, FS_CardinalityType DEF CountInv
  <2> QED BY <2>1, <2>2, <2>3
<1>2. ASSUME pc \in {"header", "page"}
      PROVE  Here \in Client /\ arrived[Here] = "read" /\ words = request[Here]
  <2>1. current # Nobody
    BY <1>2 DEF ServerInv, ReadyInv
  <2>2. Here \in Client /\ Here = socket[current]
    BY <2>1, ServerFacts DEF Here
  <2>3. arrived[Here] \in {"read", "cut"} /\ (arrived[Here] = "read" => words = request[Here])
    BY <1>2, <2>2 DEF AnsweredInv, WordsAreHers
  <2>4. arrived[Here] # "cut"
    BY <2>2 DEF Careful, Harmless
  <2> QED BY <2>2, <2>3, <2>4
<1>3. ~BrokenPipe
  <2>1. SUFFICES ASSUME BrokenPipe PROVE FALSE
    OBVIOUS
  <2>2. pc \in {"header", "page"} /\ peer[Here] = "pipe"
    BY <2>1 DEF BrokenPipe
  <2>3. arrived[Here] = "nothing"
    BY <2>2, <1>2 DEF Careful, Harmless
  <2> QED BY <2>2, <2>3, <1>2
<1>4. ~PageFails
  <2>1. SUFFICES ASSUME pc = "page" PROVE ~MayFail(words)
    BY <1>1 DEF PageFails
  <2>2. words.file # "folder" /\ setup.home
    BY <2>1, <1>2 DEF Careful, Harmless
  <2>3. page(words) # "folder"
    <3>1. validDir(words) \in {200, 400, 404, 500, 501}
      BY DEF validDir
    <3> QED BY <3>1, <2>2 DEF page
  <2> QED BY <2>2, <2>3 DEF MayFail, MayOpen
<1>5. Select => alive'
  BY ServerFacts DEF Select, IsOpen
<1>6. SendPage => alive'
  <2>1. SUFFICES ASSUME SendPage PROVE alive'
    OBVIOUS
  <2>2. words.fits
    BY <2>1, <1>2 DEF SendPage, Careful, Harmless
  <2> QED BY <2>1, <2>2 DEF SendPage
<1>7. ~Overflow
  <2>1. CASE pc \in {"header", "page"}
    <3>1. words.fits
      BY <2>1, <1>2 DEF Careful, Harmless
    <3> QED BY <2>1, <3>1 DEF Overflow
  <2>2. CASE pc = "visit"
    <3>1. SUFFICES ASSUME current \in read_set, arrived[Here] \in {"part", "whole"}
                   PROVE  \A w \in recv(Here) : w.fits
      BY <2>2 DEF Overflow
    <3>2. current # Nobody
      BY <3>1, ServerAssumption DEF ServerInv, TypeOK, Nobody, Listening
    <3>3. current \in Elements(list) /\ Here \in Client
      BY <2>2, <3>1, <3>2, ServerFacts DEF Here
    <3>4. arrived[Here] = "whole" /\ request[Here].fits
      BY <3>1, <3>3 DEF Careful, Harmless
    <3> QED BY <3>4 DEF recv
  <2> QED BY <2>1, <2>2 DEF Overflow
<1> QED BY <1>1, <1>3, <1>4, <1>5, <1>6, <1>7 DEF AcceptFails, RecvWithoutMode, Careful

\* Sending the page makes no client harmless that was not.
LEMMA PageSparesTheCareless ==
    ASSUME ServerInv, SendPage, Careful'
    PROVE  Careful
<1>1. peer \in [Client -> {"away", "open", "fin", "dying", "rst", "pipe"}]
  BY DEF ServerInv, TypeOK
<1>2. UNCHANGED <<setup, request, arrived>>
  BY DEF SendPage
<1>3. peer' = [peer EXCEPT ![Here] = IF @ = "fin" THEN "dying"
                                     ELSE IF @ = "rst" THEN "pipe" ELSE @]
  BY DEF SendPage, Sent
<1>4. ASSUME NEW c \in Client
      PROVE  (peer'[c] = "away" <=> peer[c] = "away") /\ (peer'[c] = "open" <=> peer[c] = "open")
  <2>1. CASE c = Here
    BY <1>1, <1>3, <2>1
  <2>2. CASE c # Here
    BY <1>1, <1>3, <2>2
  <2> QED BY <2>1, <2>2
<1>5. \A c \in Client : Harmless(c)' => Harmless(c)
  BY <1>2, <1>4 DEF Harmless
<1>6. {c \in Client : peer[c] # "away"}' = {c \in Client : peer[c] # "away"}
  BY <1>4
<1>7. /\ setup'.mode /\ setup'.home
      /\ \A c \in Client : Harmless(c)'
      /\ Cardinality({c \in Client : peer[c] # "away"}') < Cardinality(Fd)
  BY DEF Careful
<1> QED BY <1>2, <1>5, <1>6, <1>7 DEF Careful

LEMMA NextSurvives ==
    ServerInv /\ AnsweredInv /\ CountInv /\ Survives /\ [Next]_vars => Survives'
<1> SUFFICES ASSUME ServerInv, AnsweredInv, CountInv, Survives, [Next]_vars
             PROVE  Survives'
  OBVIOUS
<1>1. CASE ~alive
  <2>1. UNCHANGED vars
    BY <1>1 DEF Next, ServerNext, Connect, SendRequest, SendRest, Leave, ResetArrives
  <2> QED BY <2>1 DEF vars, clients, server, Survives, Harmless
<1>2. CASE alive /\ ~alive'
  <2>1. CASE SendPage
    <3>1. ~Careful
      BY <1>2, <2>1, NothingEndsIt
    <3> QED BY <2>1, <3>1, PageSparesTheCareless DEF Careful, Survives
  <2>2. CASE ~SendPage
    <3>1. UNCHANGED <<setup, request, peer, arrived>>
      BY <1>2, <2>2 DEF Next, ServerNext, Select, Accept, AcceptFails, LoopEnds, Skip,
         HangUp, Recv, RecvWithoutMode, Overflow, SendHeader, PageFails, BrokenPipe, Dies,
         clients, server, vars, Connect, SendRequest, SendRest, Leave, ResetArrives
    <3>2. ~Careful
      BY <1>2, <2>2, NothingEndsIt
         DEF Next, ServerNext, Accept, LoopEnds, Skip, HangUp, Recv, SendHeader,
             server, vars, Connect, SendRequest, SendRest, Leave, ResetArrives
    <3> QED BY <3>1, <3>2 DEF Careful, Survives, Harmless
  <2> QED BY <2>1, <2>2
<1>3. CASE alive'
  BY <1>3 DEF Survives
<1> QED BY <1>1, <1>2, <1>3

\* The process goes on as long as its clients do what it expects of them - they wait
\* for their answer, and ask in one piece, for no directory and in words that fit -,
\* are fewer than its descriptors, and it was started as it should be (server_num.c
\* 213, 232, 309-324; web_server.c 71-102).
THEOREM SurvivesTheCareful == Spec => []Survives
<1>1. Init => AnsweredInv /\ CountInv /\ Survives
  <2> SUFFICES ASSUME Init PROVE AnsweredInv /\ CountInv /\ Survives
    OBVIOUS
  <2>1. files = {} /\ shut = {} /\ Came = {} /\ alive
    BY DEF Init, Came
  <2>2. CountInv
    BY <2>1, FS_EmptySet DEF CountInv
  <2>3. AnsweredInv
    BY DEF Init, AnsweredInv, WordsAreHers
  <2> QED BY <2>1, <2>2, <2>3 DEF Survives
<1> QED BY <1>1, NextAnswered, NextCount, NextSurvives, InitServer, NextServer, PTL DEF Spec
=============================================================================
