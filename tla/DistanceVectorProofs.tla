------------------------ MODULE DistanceVectorProofs ------------------------
(***************************************************************************)
(* What holds of the tables for every network, with losses and with costs  *)
(* nobody has set; and, in networks without cycles, that dead links are left *)
(* and that the best paths are recorded.  In each of the three parts lemmas  *)
(* about the operators on one table come first, then one step per action.   *)
(***************************************************************************)
EXTENDS DistanceVector, TLAPS

Entries == [nextHop : Router \union {Nobody}, cost : 0..Infinity]
Usable == [nextHop : Router, cost : 0..Infinity]

\* An id is not Nobody, so that a route to a neighbour is a route.
LEMMA NobodyIsNoRouter == Nobody \notin Router
BY NetworkAssumption DEF Nobody

\* Sixteen bits stay sixteen bits, whatever is added or taken off.
LEMMA SumType == ASSUME NEW a \in Int, NEW b \in Int PROVE Sum16(a, b) \in 0..Infinity
<1>1. Infinity + 1 \in Nat /\ Infinity + 1 > 0 /\ a + b \in Int
  BY NetworkAssumption
<1>2. (a + b) % (Infinity + 1) \in 0..(Infinity + 1) - 1
  BY <1>1
<1> QED
  BY <1>1, <1>2, NetworkAssumption DEF Sum16, Modulus

LEMMA RouteType ==
    ASSUME NEW n \in Router, NEW c \in 0..Infinity PROVE Route(n, c) \in Usable
BY DEF Route, Usable

-----------------------------------------------------------------------------
\* What the operators on a table keep: its type; that both halves agree (Agrees),
\* or at least that there is no next hop without a route (Loose); that every
\* connected neighbour is covered (Covers); and that no route gets dearer.

Agrees(t) == \A d \in Router : t.fwd[d] = t.dv[d].nextHop
Loose(t) == \A d \in Router : ~Has(t, d) => t.fwd[d] = Nobody
CoversOne(t, p, n) == Has(t, n) /\ t.dv[n].cost <= p[n].cost
Covers(t, p) == \A n \in Connected(p) : CoversOne(t, p, n)
NoDearer(u, t) == \A d \in Router : Has(t, d) => Has(u, d) /\ u.dv[d].cost <= t.dv[d].cost

LEMMA AgreesIsLoose == ASSUME NEW t, Agrees(t) PROVE Loose(t)
BY DEF Agrees, Loose, Has

LEMMA WithRoutesType ==
    ASSUME NEW t \in Tables, NEW D, NEW route,
           \A d \in D \intersect Router : route[d] \in Entries
    PROVE  WithRoutes(t, D, route) \in Tables
BY DEF WithRoutes, Tables, Entries, ENTRY_AGE

LEMMA WithRoutesKeeps ==
    ASSUME NEW t \in Tables, NEW D, NEW route,
           \A d \in D \intersect Router : route[d] \in Usable
    PROVE  Loose(t) => Loose(WithRoutes(t, D, route))
BY NobodyIsNoRouter DEF WithRoutes, Loose, Has, Usable, Tables

LEMMA EraseType == ASSUME NEW t \in Tables, NEW D PROVE Erase(t, D) \in Tables
BY NetworkAssumption DEF Erase, Tables, NoRoute, ENTRY_AGE

LEMMA EraseKeeps ==
    ASSUME NEW t \in Tables, NEW D
    PROVE  /\ Agrees(t) => Agrees(Erase(t, D))
           /\ Loose(t) => Loose(Erase(t, D))
BY DEF Erase, Agrees, Loose, Has, NoRoute, Tables

LEMMA ForwardingType ==
    ASSUME NEW t \in Tables PROVE updateForwardingTable(t) \in Tables
BY DEF updateForwardingTable, Tables, Has

\* updateForwardingTable makes the two halves agree, but cannot take anything
\* out: it needs a table that has no next hop too many.
LEMMA ForwardingAgrees ==
    ASSUME NEW t \in Tables
    PROVE  /\ Loose(t) => Agrees(updateForwardingTable(t))
           /\ updateForwardingTable(t).dv = t.dv
BY DEF updateForwardingTable, Agrees, Loose, Tables, Has

LEMMA PortMapType ==
    ASSUME NEW t \in Tables, NEW p \in Ports
    PROVE  updateDVTableByPortMap(t, p) \in Tables
<1> DEFINE better == {n \in Connected(p) : ~Has(t, n) \/ t.dv[n].cost > p[n].cost}
           equal == {n \in Connected(p) : Has(t, n) /\ t.dv[n].cost = p[n].cost}
           route == [d \in Router |-> Route(d, p[d].cost)]
           u == WithRoutes(t, better, route)
           v == [u EXCEPT !.age = [d \in Router |-> IF d \in equal THEN 0 ELSE @[d]]]
<1>1. \A d \in better \intersect Router : route[d] \in Entries
  BY DEF Route, Entries, Ports
<1>2. u \in Tables
  <2> HIDE DEF better, route
  <2> QED BY <1>1, WithRoutesType
<1>3. v \in Tables
  <2> HIDE DEF u, equal
  <2> QED BY <1>2 DEF Tables, ENTRY_AGE
<1>4. updateForwardingTable(v) \in Tables
  <2> HIDE DEF v
  <2> QED BY <1>3, ForwardingType
<1> QED
  BY <1>3, <1>4 DEF updateDVTableByPortMap

\* updateDVTableByPortMap covers every connected neighbour, makes nothing dearer,
\* and leaves the routes to everybody else alone.
LEMMA PortMapKeeps ==
    ASSUME NEW t \in Tables, NEW p \in Ports
    PROVE  LET w == updateDVTableByPortMap(t, p)
           IN  /\ Agrees(t) => Agrees(w)
               /\ Loose(t) => Loose(w)
               /\ Covers(w, p)
               /\ NoDearer(w, t)
               /\ \A d \in Router \ Connected(p) : w.dv[d] = t.dv[d]
<1> DEFINE better == {n \in Connected(p) : ~Has(t, n) \/ t.dv[n].cost > p[n].cost}
           equal == {n \in Connected(p) : Has(t, n) /\ t.dv[n].cost = p[n].cost}
           route == [d \in Router |-> Route(d, p[d].cost)]
           u == WithRoutes(t, better, route)
           v == [u EXCEPT !.age = [d \in Router |-> IF d \in equal THEN 0 ELSE @[d]]]
           w == updateDVTableByPortMap(t, p)
<1>1. \A d \in better \intersect Router : route[d] \in Usable /\ route[d] \in Entries
  BY DEF Route, Entries, Usable, Ports
<1>2. u \in Tables
  <2> HIDE DEF better, route
  <2> QED BY <1>1, WithRoutesType
<1>3. v \in Tables /\ v.dv = u.dv /\ v.fwd = u.fwd
  <2> HIDE DEF u, equal
  <2> QED BY <1>2 DEF Tables, ENTRY_AGE
<1>4. w.dv = u.dv
  <2>1. updateForwardingTable(v).dv = v.dv
    <3> HIDE DEF v
    <3> QED BY <1>3, ForwardingAgrees
  <2> QED BY <2>1, <1>3 DEF updateDVTableByPortMap
<1>5. \A d \in Router : u.dv[d] = IF d \in better THEN Route(d, p[d].cost) ELSE t.dv[d]
  <2> HIDE DEF better
  <2> QED BY DEF WithRoutes
<1>6. Connected(p) \subseteq Router
  BY DEF Connected
<1>7. Covers(w, p)
  BY <1>4, <1>5, <1>6, NobodyIsNoRouter DEF Covers, CoversOne, Has, Route, Ports, Tables
<1>8. NoDearer(w, t)
  BY <1>4, <1>5, <1>6, NobodyIsNoRouter DEF NoDearer, Has, Route, Ports, Tables
<1>9. \A d \in Router \ Connected(p) : w.dv[d] = t.dv[d]
  BY <1>4, <1>5
<1>10. Loose(t) => Loose(v)
  <2>1. Loose(t) => Loose(u)
    <3> HIDE DEF better, route
    <3> QED BY <1>1, WithRoutesKeeps
  <2> HIDE DEF u, v
  <2> QED BY <2>1, <1>3 DEF Loose, Has
<1>11. Loose(t) /\ better # {} => Agrees(w)
  <2>1. better # {} => w = updateForwardingTable(v)
    BY DEF updateDVTableByPortMap
  <2> HIDE DEF better, v, w
  <2> QED BY <2>1, <1>10, <1>3, ForwardingAgrees
<1>12. better = {} => w = v /\ u.dv = t.dv /\ u.fwd = t.fwd
  <2>1. better = {} => w = v
    BY DEF updateDVTableByPortMap
  <2>2. u.fwd = t.fwd /\ (better = {} => u.dv = t.dv)
    <3> HIDE DEF better, route
    <3> QED BY DEF WithRoutes, Tables
  <2> QED BY <2>1, <2>2
<1>13. Agrees(t) => Agrees(w)
  <2>1. Agrees(t) => Loose(t)
    BY AgreesIsLoose
  <2>2. better = {} => w.dv = t.dv /\ w.fwd = t.fwd
    <3> HIDE DEF better, u, v, w
    <3> QED BY <1>12, <1>3
  <2> HIDE DEF better, w
  <2> QED BY <2>1, <2>2, <1>11 DEF Agrees
<1>14. Loose(t) => Loose(w)
  <2>1. better = {} => w.dv = t.dv /\ w.fwd = t.fwd
    <3> HIDE DEF better, u, v, w
    <3> QED BY <1>12, <1>3
  <2> HIDE DEF better, w
  <2> QED BY <2>1, <1>11, AgreesIsLoose DEF Loose, Has
<1> QED BY <1>7, <1>8, <1>9, <1>13, <1>14
-----------------------------------------------------------------------------
\* A table of a neighbour.

LEMMA ByMsgKeeps ==
    ASSUME NEW r \in Router, NEW t \in Tables, NEW p \in Ports, NEW s \in Router,
           NEW m \in Vectors
    PROVE  LET w == updateDVTableByMsg(r, t, p, s, m)
           IN  w \in Tables /\ (Agrees(t) => Agrees(w)) /\ Covers(w, p)
<1> DEFINE told == {d \in Router \ {r} : m[d] # NotListed}
           cost == [d \in Router |-> Sum16(p[s].cost, m[d])]
           taken == {d \in told : m[d] # Infinity /\
                       (~Has(t, d) \/ t.dv[d].nextHop = s \/ cost[d] <= t.dv[d].cost)}
           poisoned == {d \in told : m[d] = Infinity /\ d \in Via(t, s)}
           route == [d \in Router |-> Route(s, cost[d])]
           u == WithRoutes(t, taken, route)
           e == Erase(u, poisoned)
           v == updateDVTableByPortMap(e, p)
           w == updateDVTableByMsg(r, t, p, s, m)
<1>1. \A d \in Router : cost[d] \in 0..Infinity
  <2>1. \A d \in Router : p[s].cost \in Int /\ m[d] \in Int
    BY NetworkAssumption DEF Ports, Vectors, NotListed
  <2> QED BY <2>1, SumType
<1>2. \A d \in taken \intersect Router : route[d] \in Usable /\ route[d] \in Entries
  <2> HIDE DEF cost, taken
  <2> QED BY <1>1 DEF Route, Usable, Entries
<1>3. u \in Tables /\ (Loose(t) => Loose(u))
  <2> HIDE DEF taken, route
  <2> QED BY <1>2, WithRoutesType, WithRoutesKeeps
<1>4. e \in Tables /\ (Loose(u) => Loose(e)) /\ (Agrees(u) => Agrees(e))
  <2> HIDE DEF u, poisoned
  <2> QED BY <1>3, EraseType, EraseKeeps
<1>5. v \in Tables /\ (Loose(e) => Loose(v)) /\ (Agrees(e) => Agrees(v)) /\ Covers(v, p)
  <2> HIDE DEF e
  <2> QED BY <1>4, PortMapType, PortMapKeeps
<1>6. taken = {} => (Agrees(t) => Agrees(u))
  <2> HIDE DEF taken, route
  <2> QED BY DEF WithRoutes, Agrees, Tables
<1>7. w = IF taken \union poisoned = {} THEN v ELSE updateForwardingTable(v)
  BY DEF updateDVTableByMsg
<1>8. updateForwardingTable(v) \in Tables /\ updateForwardingTable(v).dv = v.dv
        /\ (Loose(v) => Agrees(updateForwardingTable(v)))
  <2> HIDE DEF v
  <2> QED BY <1>5, ForwardingType, ForwardingAgrees
<1>9. Agrees(t) => Agrees(w)
  <2> HIDE DEF taken, poisoned, u, e, v, w
  <2> QED BY <1>3, <1>4, <1>5, <1>6, <1>7, <1>8, AgreesIsLoose
<1>10. w \in Tables /\ Covers(w, p)
  <2> HIDE DEF taken, poisoned, v, w
  <2> QED BY <1>5, <1>7, <1>8 DEF Covers, CoversOne, Has
<1> QED BY <1>9, <1>10

-----------------------------------------------------------------------------
\* A PONG: a neighbour that is new, a cost that is.

LEMMA DirectKeeps ==
    ASSUME NEW t \in Tables, NEW n \in Router, NEW rtt \in 0..Infinity
    PROVE  LET w == Direct(t, n, rtt)
           IN  /\ w \in Tables
               /\ Agrees(t) => Agrees(w)
               /\ Has(w, n) /\ w.dv[n].cost = rtt
               /\ \A d \in Router \ {n} : w.dv[d] = t.dv[d]
<1> DEFINE route == [d \in Router |-> Route(n, rtt)]
           u == WithRoutes(t, {n}, route)
           w == Direct(t, n, rtt)
<1>1. \A d \in {n} \intersect Router : route[d] \in Entries
  BY DEF Route, Entries
<1>2. u \in Tables /\ u.fwd = t.fwd
        /\ \A d \in Router : u.dv[d] = IF d = n THEN Route(n, rtt) ELSE t.dv[d]
  <2>1. u \in Tables
    <3> HIDE DEF route
    <3> QED BY <1>1, WithRoutesType
  <2> QED BY <2>1 DEF WithRoutes
<1>3. w = [u EXCEPT !.fwd[n] = n]
  BY DEF Direct
<1>4. w \in Tables /\ w.dv = u.dv /\ w.fwd = [u.fwd EXCEPT ![n] = n]
  <2> HIDE DEF u, w
  <2> QED BY <1>2, <1>3 DEF Tables
<1>5. /\ Agrees(t) => Agrees(w)
      /\ Has(w, n) /\ w.dv[n].cost = rtt
      /\ \A d \in Router \ {n} : w.dv[d] = t.dv[d]
  <2> HIDE DEF u, w
  <2> QED BY <1>2, <1>4, NobodyIsNoRouter DEF Agrees, Has, Route, Tables
<1> QED BY <1>4, <1>5

LEMMA NewNeighbourKeeps ==
    ASSUME NEW t \in Tables, NEW p \in Ports, NEW n \in Router, NEW rtt \in 0..Infinity
    PROVE  LET w == NewNeighbour(t, p, n, rtt)
           IN  /\ w \in Tables
               /\ Agrees(t) => Agrees(w)
               /\ Covers(w, p)
               /\ Has(w, n) /\ w.dv[n].cost <= rtt
<1> DEFINE a == [Direct(t, n, rtt) EXCEPT !.fwd[n] = IF t.fwd[n] = Nobody THEN n ELSE t.fwd[n]]
           u == IF ~Has(t, n) THEN a
                ELSE IF IsWorse(t, n, rtt) THEN Direct(t, n, rtt) ELSE t
           w == NewNeighbour(t, p, n, rtt)
<1> DEFINE z == Direct(t, n, rtt)
<1>1. /\ z \in Tables
      /\ Agrees(t) => Agrees(z)
      /\ Has(z, n) /\ z.dv[n].cost = rtt
  BY DirectKeeps
<1>2. a \in Tables /\ a.dv = z.dv
  <2>1. a = [z EXCEPT !.fwd[n] = IF t.fwd[n] = Nobody THEN n ELSE t.fwd[n]]
    OBVIOUS
  <2>2. t.fwd[n] \in Router \union {Nobody}
    BY DEF Tables
  <2> HIDE DEF z, a
  <2> QED BY <1>1, <2>1, <2>2 DEF Tables
<1>3. Agrees(t) /\ ~Has(t, n) => Agrees(a)
  <2>1. Agrees(t) /\ ~Has(t, n) => t.fwd[n] = Nobody
    BY DEF Agrees, Has
  <2>2. Agrees(t) /\ ~Has(t, n) => a = [z EXCEPT !.fwd[n] = n]
    BY <2>1
  <2>3. z.fwd[n] = n
    BY DEF Direct, Tables, WithRoutes
  <2> HIDE DEF z, a
  <2>4. [z EXCEPT !.fwd[n] = n].fwd = z.fwd
    BY <2>3, <1>1 DEF Tables
  <2> QED BY <2>2, <2>4, <1>1, <1>2 DEF Agrees
<1>4. u \in Tables /\ (Agrees(t) => Agrees(u)) /\ Has(u, n) /\ u.dv[n].cost <= rtt
  <2>1. CASE ~Has(t, n)
    <3> HIDE DEF a, z
    <3> QED BY <2>1, <1>1, <1>2, <1>3, NetworkAssumption DEF Has
  <2>2. CASE Has(t, n) /\ IsWorse(t, n, rtt)
    <3> HIDE DEF a
    <3> QED BY <2>2, <1>1, NetworkAssumption
  <2>3. CASE Has(t, n) /\ ~IsWorse(t, n, rtt)
    <3> HIDE DEF a, z
    <3> QED BY <2>3, NetworkAssumption DEF IsWorse, Tables
  <2> QED BY <2>1, <2>2, <2>3
<1>5. w = updateDVTableByPortMap(u, p)
  BY DEF NewNeighbour
<1> HIDE DEF u, w
<1>6. /\ w \in Tables
      /\ Agrees(u) => Agrees(w)
      /\ Covers(w, p)
      /\ NoDearer(w, u)
  BY <1>4, <1>5, PortMapType, PortMapKeeps
<1>7. Has(w, n) /\ w.dv[n].cost <= rtt
  <2>1. Has(w, n) /\ w.dv[n].cost <= u.dv[n].cost
    BY <1>4, <1>6 DEF NoDearer
  <2>2. w.dv[n].cost \in Int /\ u.dv[n].cost \in Int /\ rtt \in Int
    BY <1>4, <1>6, NetworkAssumption DEF Tables
  <2> QED BY <2>1, <2>2, <1>4
<1> QED BY <1>4, <1>6, <1>7 DEF w

LEMMA CorrectedKeeps ==
    ASSUME NEW t \in Tables, NEW n \in Router, NEW old \in 0..Infinity, NEW rtt \in 0..Infinity
    PROVE  LET u == Corrected(t, n, old, rtt)
           IN  /\ u \in Tables
               /\ Agrees(t) => Agrees(u)
               /\ \A d \in Router : Has(t, d) => Has(u, d)
<1> DEFINE route == [d \in Router |-> Route(n, Sum16(t.dv[d].cost - old, rtt))]
           u == Corrected(t, n, old, rtt)
<1>1. \A d \in Router : Sum16(t.dv[d].cost - old, rtt) \in 0..Infinity
  <2>1. \A d \in Router : t.dv[d].cost - old \in Int /\ rtt \in Int
    BY NetworkAssumption DEF Tables
  <2> QED BY <2>1, SumType
<1>2. \A d \in Via(t, n) \intersect Router : route[d] \in Entries
  BY <1>1 DEF Route, Entries
<1>3. u = WithRoutes(t, Via(t, n), route)
  BY DEF Corrected
<1>4. u \in Tables
  <2> HIDE DEF route, u
  <2> QED BY <1>2, <1>3, WithRoutesType
<1>5. u.fwd = t.fwd /\ \A d \in Router : u.dv[d].nextHop = t.dv[d].nextHop
  BY <1>3 DEF WithRoutes, Route, Via
<1>6. /\ Agrees(t) => Agrees(u)
      /\ \A d \in Router : Has(t, d) => Has(u, d)
  <2> HIDE DEF u
  <2> QED BY <1>5 DEF Agrees, Has
<1> QED BY <1>4, <1>6

LEMMA NewCostKeeps ==
    ASSUME NEW t \in Tables, NEW p \in Ports, NEW n \in Router,
           NEW old \in 0..Infinity, NEW rtt \in 0..Infinity, Has(t, n)
    PROVE  LET w == NewCost(t, p, n, old, rtt)
           IN  /\ w \in Tables
               /\ Agrees(t) => Agrees(w)
               /\ Covers(w, p)
               /\ Has(w, n) /\ w.dv[n].cost <= rtt
<1> DEFINE u == Corrected(t, n, old, rtt)
           v == IF IsWorse(u, n, rtt) THEN Direct(u, n, rtt) ELSE u
           w == NewCost(t, p, n, old, rtt)
<1>1. u \in Tables /\ (Agrees(t) => Agrees(u)) /\ Has(u, n)
  BY CorrectedKeeps
<1>2. v \in Tables /\ (Agrees(t) => Agrees(v)) /\ Has(v, n) /\ v.dv[n].cost <= rtt
  <2> HIDE DEF u
  <2>1. CASE IsWorse(u, n, rtt)
    BY <2>1, <1>1, DirectKeeps, NetworkAssumption
  <2>2. CASE ~IsWorse(u, n, rtt)
    BY <2>2, <1>1, NetworkAssumption DEF IsWorse, Tables
  <2> QED BY <2>1, <2>2
<1>3. w = updateDVTableByPortMap(v, p)
  BY DEF NewCost
<1> HIDE DEF u, v, w
<1>4. /\ w \in Tables
      /\ Agrees(v) => Agrees(w)
      /\ Covers(w, p)
      /\ NoDearer(w, v)
  BY <1>2, <1>3, PortMapType, PortMapKeeps
<1>5. Has(w, n) /\ w.dv[n].cost <= v.dv[n].cost
  BY <1>2, <1>4 DEF NoDearer
<1>6. w.dv[n].cost \in Int /\ v.dv[n].cost \in Int /\ rtt \in Int
  BY <1>2, <1>4, NetworkAssumption DEF Tables
<1>7. w.dv[n].cost <= rtt
  BY <1>2, <1>5, <1>6
<1> QED BY <1>2, <1>4, <1>5, <1>7 DEF w

-----------------------------------------------------------------------------
\* Expiry.

LEMMA ClosedType ==
    ASSUME NEW p \in Ports, NEW gone PROVE Closed(p, gone) \in Ports
BY DEF Closed, Ports, NEIGHBOUR_AGE

LEMMA WithoutKeeps ==
    ASSUME NEW t \in Tables, NEW p \in Ports, NEW gone
    PROVE  LET w == Without(t, p, gone)
           IN  w \in Tables /\ (Agrees(t) => Agrees(w))
<1> DEFINE e == Erase(t, UNION {Via(t, n) : n \in gone})
<1>1. e \in Tables /\ (Agrees(t) => Agrees(e))
  BY EraseType, EraseKeeps
<1>2. Without(t, p, gone) = IF gone = {} THEN t ELSE updateDVTableByPortMap(e, Closed(p, gone))
  BY DEF Without
<1> HIDE DEF e
<1> QED BY <1>1, <1>2, ClosedType, PortMapType, PortMapKeeps

LEMMA ExpiredKeeps ==
    ASSUME NEW t \in Tables, NEW p \in Ports, NEW old
    PROVE  LET w == Expired(t, p, old)
           IN  w \in Tables /\ (Agrees(t) => Agrees(w)) /\ Covers(w, p)
<1> DEFINE e == Erase(t, old)
<1>1. e \in Tables /\ (Agrees(t) => Agrees(e))
  BY EraseType, EraseKeeps
<1>2. Expired(t, p, old) = updateDVTableByPortMap(e, p)
  BY DEF Expired
<1> HIDE DEF e
<1> QED BY <1>1, <1>2, PortMapType, PortMapKeeps
-----------------------------------------------------------------------------
\* What is sent.

LEMMA UpdateMsgType ==
    ASSUME alive \subseteq Link, NEW r \in Router, NEW t \in Tables, NEW p \in Ports
    PROVE  /\ DV_sendUpdateMsg(r, t, p) \subseteq Packets
           /\ \A m \in DV_sendUpdateMsg(r, t, p) : m.kind = "dv"
<1> DEFINE Told(n) == [d \in Router |->
            IF ~Has(t, d) THEN NotListed
            ELSE IF d # n /\ t.dv[d].nextHop = n THEN Infinity
            ELSE t.dv[d].cost]
<1>1. \A n \in Router : Told(n) \in Vectors
  BY NetworkAssumption DEF Vectors, Tables
<1>2. DV_sendUpdateMsg(r, t, p) =
        {[kind |-> "dv", from |-> r, to |-> n, costs |-> Told(n)] :
            n \in {n \in Connected(p) : {r, n} \in alive}}
  BY DEF DV_sendUpdateMsg
<1> HIDE DEF Told
<1>3. Connected(p) \subseteq Router
  BY DEF Connected
<1>4. ASSUME NEW n \in Connected(p)
      PROVE  [kind |-> "dv", from |-> r, to |-> n, costs |-> Told(n)] \in Packets
  BY <1>1, <1>3 DEF Packets
<1>5. DV_sendUpdateMsg(r, t, p) \subseteq Packets
  BY <1>2, <1>4
<1>6. ASSUME NEW m \in DV_sendUpdateMsg(r, t, p) PROVE m.kind = "dv"
  <2>1. PICK n \in Connected(p) :
           m = [kind |-> "dv", from |-> r, to |-> n, costs |-> Told(n)]
    BY <1>2
  <2> QED BY <2>1
<1> QED BY <1>5, <1>6

LEMMA SentLosingType ==
    ASSUME alive \subseteq Link, NEW r \in Router, NEW t \in Tables, NEW p \in Ports,
           NEW gone, NEW order
    PROVE  /\ SentLosing(r, t, p, gone, order) \subseteq Packets
           /\ \A m \in SentLosing(r, t, p, gone, order) : m.kind = "dv"
<1> DEFINE Upto(n) == {g \in gone : order[g] <= order[n]}
           Sent(n) == DV_sendUpdateMsg(r, Without(t, p, Upto(n)), Closed(p, Upto(n)))
           None(n) == Via(Without(t, p, Upto(n) \ {n}), n) = {}
<1>1. SentLosing(r, t, p, gone, order) = UNION {IF None(n) THEN {} ELSE Sent(n) : n \in gone}
  BY DEF SentLosing
<1>2. ASSUME NEW n PROVE Sent(n) \subseteq Packets /\ \A m \in Sent(n) : m.kind = "dv"
  <2>1. Without(t, p, Upto(n)) \in Tables /\ Closed(p, Upto(n)) \in Ports
    <3> HIDE DEF Upto
    <3> QED BY WithoutKeeps, ClosedType
  <2> HIDE DEF Upto
  <2> QED BY <2>1, UpdateMsgType
<1> HIDE DEF Sent, None
<1> QED BY <1>1, <1>2

-----------------------------------------------------------------------------
\* The invariant: a PONG is on a link, so that its delay is one; and the tables
\* agree and cover the neighbours.

PongsOnLinks == \A m \in net : m.kind = "pong" => {m.from, m.to} \in Link
AllAgree == \A r \in Router : Agrees(table[r])
AllCover == \A r \in Router : Covers(table[r], port[r])
TableInv == TypeOK /\ PongsOnLinks /\ AllAgree /\ AllCover

LEMMA InitInv == ASSUME Init PROVE TableInv
<1>1. 0 \in Phases /\ 0 \in 0..MaxChanges /\ 0 \in 0..Settle /\ 0 \in 0..Infinity
      /\ 0 \in 0..NEIGHBOUR_AGE /\ 0 \in 0..ENTRY_AGE + 1
  BY NetworkAssumption DEF Phases, DV_PERIOD, NEIGHBOUR_AGE, ENTRY_AGE
<1>2. clock \in Phases /\ changes \in 0..MaxChanges /\ quiet \in 0..Settle
  BY <1>1 DEF Init
<1>3. due \subseteq {"ping", "dv", "expire"} \X Router /\ net \subseteq Packets
  BY DEF Init
<1>4. alive \subseteq Link /\ delay \in [Link -> Delays]
  BY NetworkAssumption DEF Init
<1>5. port \in [Router -> Ports]
  BY <1>1 DEF Init, Ports, Absent, Unset
<1>6. table \in [Router -> Tables]
  BY <1>1 DEF Init, Tables, NoRoute
<1>7. PongsOnLinks /\ AllAgree
  BY DEF Init, PongsOnLinks, AllAgree, Agrees, NoRoute
<1>8. AllCover
  BY DEF Init, AllCover, Covers, Connected, Absent, CONNECTED
<1> QED BY <1>2, <1>3, <1>4, <1>5, <1>6, <1>7, <1>8 DEF TableInv, TypeOK

\* What a step does to the tables of one router only, with what it sends.
LEMMA OneRouter ==
    ASSUME TableInv, NEW r \in Router, NEW t \in Tables, NEW p \in Ports,
           table' = [table EXCEPT ![r] = t], port' = [port EXCEPT ![r] = p],
           Agrees(t), Covers(t, p),
           net' \subseteq Packets,
           \A m \in net' : m \in net \/ m.kind = "dv",
           due' \subseteq due, UNCHANGED <<clock, alive, delay, changes, quiet>>
    PROVE  TableInv'
<1>1. TypeOK'
  BY DEF TableInv, TypeOK
<1>2. PongsOnLinks'
  BY DEF TableInv, PongsOnLinks
<1>3. \A q \in Router : table'[q] = IF q = r THEN t ELSE table[q]
  BY DEF TableInv, TypeOK
<1>4. \A q \in Router : port'[q] = IF q = r THEN p ELSE port[q]
  BY DEF TableInv, TypeOK
<1>5. AllAgree' /\ AllCover'
  <2>1. \A q \in Router : Agrees(table'[q])
    BY <1>3 DEF TableInv, AllAgree
  <2>2. \A q \in Router : Covers(table'[q], port'[q])
    BY <1>3, <1>4 DEF TableInv, AllCover
  <2> QED BY <2>1, <2>2 DEF AllAgree, AllCover
<1> QED BY <1>1, <1>2, <1>5 DEF TableInv

\* A step that leaves the tables and ports alone.
LEMMA NoRouter ==
    ASSUME TableInv, UNCHANGED <<table, port>>,
           net' \subseteq Packets,
           \A m \in net' : m \in net \/ m.kind = "dv" \/ {m.from, m.to} \in Link,
           clock' \in Phases, due' \subseteq {"ping", "dv", "expire"} \X Router,
           alive' \subseteq Link, delay' \in [Link -> Delays],
           changes' \in 0..MaxChanges, quiet' \in 0..Settle
    PROVE  TableInv'
<1>1. TypeOK'
  BY DEF TableInv, TypeOK
<1>2. PongsOnLinks'
  BY DEF TableInv, PongsOnLinks
<1>3. AllAgree' /\ AllCover'
  BY DEF TableInv, AllAgree, AllCover
<1> QED BY <1>1, <1>2, <1>3 DEF TableInv

\* The two updates of a PONG, one after the other.
LEMMA PongInv ==
    ASSUME TableInv, NEW m \in net, RecvPong(m) PROVE TableInv'
<1> DEFINE r == m.to
           n == m.from
           p == port[r]
           t == table[r]
           isNew == p[n].status # CONNECTED
<1>1. m \in Packets /\ m.kind = "pong" /\ {n, r} \in Link
  BY DEF TableInv, TypeOK, PongsOnLinks, RecvPong
<1>2. r \in Router /\ n \in Router /\ m.delay \in Delays
  BY <1>1 DEF Packets
<1>3. p \in Ports /\ t \in Tables
  BY <1>2 DEF TableInv, TypeOK
<1>4. PICK back \in {m.delay, delay[{n, r}]} : PongTakes(m, m.delay + back)
  BY DEF RecvPong
<1>5. back \in Delays
  BY <1>1, <1>2, <1>4 DEF TableInv, TypeOK
<1> DEFINE rtt == m.delay + back
           t1 == IF isNew THEN NewNeighbour(t, p, n, rtt) ELSE t
           sent1 == IF isNew /\ (~Has(t, n) \/ IsWorse(t, n, rtt))
                    THEN DV_sendUpdateMsg(r, t1, p) ELSE {}
           closed == [port EXCEPT ![r][n] = [status |-> CONNECTED, cost |-> rtt, age |-> 0]]
           q == [p EXCEPT ![n] = [status |-> CONNECTED, cost |-> rtt, age |-> 0]]
<1>6. rtt \in 0..Infinity
  <2>1. m.delay + back < Infinity /\ m.delay \in Nat /\ back \in Nat /\ Infinity \in Nat
    BY <1>2, <1>5, NetworkAssumption
  <2> QED BY <2>1
<1>7. PICK old \in IF p[n].status = Absent THEN Garbage ELSE {p[n].cost} :
         LET t2 == IF old # rtt THEN NewCost(t1, p, n, old, rtt) ELSE t1
             sent2 == IF old # rtt /\ (Via(t1, n) # {} \/ IsWorse(t1, n, rtt))
                      THEN DV_sendUpdateMsg(r, t2, p) ELSE {}
         IN  /\ table' = [table EXCEPT ![r] = t2]
             /\ net' = (net \ {m}) \union sent1 \union sent2
  BY <1>4 DEF PongTakes
<1> DEFINE t2 == IF old # rtt THEN NewCost(t1, p, n, old, rtt) ELSE t1
           sent2 == IF old # rtt /\ (Via(t1, n) # {} \/ IsWorse(t1, n, rtt))
                    THEN DV_sendUpdateMsg(r, t2, p) ELSE {}
<1>8. /\ table' = [table EXCEPT ![r] = t2]
      /\ net' = (net \ {m}) \union sent1 \union sent2
      /\ port' = closed
      /\ UNCHANGED environment
  BY <1>4, <1>7 DEF PongTakes
<1>9. old \in 0..Infinity
  BY <1>2, <1>3, <1>7, NetworkAssumption DEF Ports
<1>10. Agrees(t) /\ Covers(t, p)
  BY <1>2 DEF TableInv, AllAgree, AllCover
<1>11. closed = [port EXCEPT ![r] = q]
  BY <1>2 DEF TableInv, TypeOK, Ports
<1> HIDE DEF rtt
<1>12. t1 \in Tables /\ Agrees(t1) /\ Covers(t1, p) /\ Has(t1, n)
       /\ (isNew => t1.dv[n].cost <= rtt)
  <2>1. CASE isNew
    BY <2>1, <1>2, <1>3, <1>6, <1>10, NewNeighbourKeeps
  <2>2. CASE ~isNew
    BY <2>2, <1>2, <1>3, <1>10 DEF Covers, CoversOne, Connected
  <2> QED BY <2>1, <2>2
<1> HIDE DEF t1
<1>13. t2 \in Tables /\ Agrees(t2) /\ Covers(t2, p) /\ Has(t2, n) /\ t2.dv[n].cost <= rtt
  <2>1. CASE old # rtt
    BY <2>1, <1>2, <1>3, <1>6, <1>9, <1>12, NewCostKeeps
  <2>2. CASE old = rtt /\ isNew
    BY <2>2, <1>12
  <2>3. CASE old = rtt /\ ~isNew
    <3>1. n \in Connected(p) /\ old = p[n].cost
      BY <2>3, <1>2, <1>7 DEF Connected, CONNECTED, Absent
    <3> QED BY <2>3, <3>1, <1>12 DEF Covers, CoversOne
  <2> QED BY <2>1, <2>2, <2>3
<1> HIDE DEF t2
<1>14. q \in Ports
  BY <1>2, <1>3, <1>6 DEF Ports, NEIGHBOUR_AGE
<1>15. Covers(t2, q)
  <2>1. \A k \in Router : q[k] = IF k = n THEN [status |-> CONNECTED, cost |-> rtt, age |-> 0] ELSE p[k]
    BY <1>2, <1>3 DEF Ports
  <2> HIDE DEF q
  <2>2. ASSUME NEW k \in Connected(q) PROVE CoversOne(t2, q, k)
    <3>1. CASE k = n
      BY <3>1, <2>1, <1>2, <1>13 DEF CoversOne
    <3>2. CASE k # n
      BY <3>2, <2>1, <2>2, <1>13 DEF CoversOne, Covers, Connected
    <3> QED BY <3>1, <3>2
  <2> QED BY <2>2 DEF Covers
<1>16. sent1 \subseteq Packets /\ \A k \in sent1 : k.kind = "dv"
  BY <1>2, <1>3, <1>12, UpdateMsgType DEF TableInv, TypeOK
<1>17. sent2 \subseteq Packets /\ \A k \in sent2 : k.kind = "dv"
  BY <1>2, <1>3, <1>13, UpdateMsgType DEF TableInv, TypeOK
<1>18. net' \subseteq Packets /\ \A k \in net' : k \in net \/ k.kind = "dv"
  <2> HIDE DEF sent1, sent2
  <2> QED BY <1>8, <1>16, <1>17 DEF TableInv, TypeOK
<1>19. port' = [port EXCEPT ![r] = q]
  BY <1>8, <1>11
<1>20. due' \subseteq due /\ UNCHANGED <<clock, alive, delay, changes, quiet>>
  BY <1>8 DEF environment
<1>21. table' = [table EXCEPT ![r] = t2]
  BY <1>8
<1> HIDE DEF r, q
<1> QED BY <1>2, <1>13, <1>14, <1>15, <1>18, <1>19, <1>20, <1>21, OneRouter

LEMMA TableMsgInv ==
    ASSUME TableInv, NEW m \in net, RecvTable(m) PROVE TableInv'
<1> DEFINE r == m.to
           s == m.from
<1>1. m \in Packets /\ m.kind = "dv"
  BY DEF TableInv, TypeOK, RecvTable
<1>2. r \in Router /\ s \in Router /\ m.costs \in Vectors
  BY <1>1 DEF Packets
<1>3. port[r] \in Ports /\ table[r] \in Tables /\ Agrees(table[r])
  BY <1>2 DEF TableInv, TypeOK, AllAgree
<1>4. PICK p \in IF port[r][s].status = Absent
                 THEN {[port[r] EXCEPT ![s] = [status |-> Unset, cost |-> g, age |-> 0]] : g \in Garbage}
                 ELSE {port[r]} :
         /\ port' = [port EXCEPT ![r] = p]
         /\ table' = [table EXCEPT ![r] = updateDVTableByMsg(r, @, p, s, m.costs)]
  BY DEF RecvTable
<1>5. ASSUME NEW g \in Garbage
      PROVE  [port[r] EXCEPT ![s] = [status |-> Unset, cost |-> g, age |-> 0]] \in Ports
  <2>1. g \in 0..Infinity
    BY NetworkAssumption
  <2> HIDE DEF r, s
  <2> QED BY <1>2, <1>3, <2>1 DEF Ports, Unset, NEIGHBOUR_AGE
<1>6. p \in Ports
  BY <1>3, <1>4, <1>5
<1> DEFINE t == updateDVTableByMsg(r, table[r], p, s, m.costs)
<1>7. t \in Tables /\ Agrees(t) /\ Covers(t, p)
  BY <1>2, <1>3, <1>6, ByMsgKeeps
<1>8. table' = [table EXCEPT ![r] = t] /\ port' = [port EXCEPT ![r] = p]
  BY <1>2, <1>4 DEF TableInv, TypeOK
<1>9. net' \subseteq Packets /\ (\A k \in net' : k \in net \/ k.kind = "dv")
      /\ due' \subseteq due /\ UNCHANGED <<clock, alive, delay, changes, quiet>>
  BY DEF RecvTable, TableInv, TypeOK, environment
<1> HIDE DEF r, t
<1> QED BY <1>2, <1>6, <1>7, <1>8, <1>9, OneRouter

LEMMA DVAlarmInv ==
    ASSUME TableInv, NEW r \in Router, DVAlarm(r) PROVE TableInv'
<1>1. DV_sendUpdateMsg(r, table[r], port[r]) \subseteq Packets
      /\ \A m \in DV_sendUpdateMsg(r, table[r], port[r]) : m.kind = "dv"
  BY UpdateMsgType DEF TableInv, TypeOK
<1>2. net' \subseteq Packets /\ \A m \in net' : m \in net \/ m.kind = "dv"
  BY <1>1 DEF DVAlarm, TableInv, TypeOK
<1>3. due' \subseteq {"ping", "dv", "expire"} \X Router
  BY DEF DVAlarm, GoesOff, TableInv, TypeOK
<1> QED BY <1>2, <1>3, NoRouter DEF DVAlarm, TableInv, TypeOK

LEMMA PingAlarmInv ==
    ASSUME TableInv, NEW r \in Router, PingAlarm(r) PROVE TableInv'
<1> DEFINE near == {n \in Neighbours(r) : {r, n} \in alive}
           Pong(n) == [kind |-> "pong", from |-> n, to |-> r, delay |-> delay[{r, n}]]
<1>1. ASSUME NEW n \in near PROVE Pong(n) \in Packets /\ {n, r} \in Link
  BY DEF TableInv, TypeOK, Packets, Neighbours
<1>2. net' = net \union {Pong(n) : n \in near}
  BY DEF PingAlarm
<1>3. net' \subseteq Packets
  BY <1>1, <1>2 DEF TableInv, TypeOK
<1>4. ASSUME NEW m \in net' PROVE m \in net \/ {m.from, m.to} \in Link
  <2>1. CASE m \in net
    BY <2>1
  <2>2. CASE m \notin net
    <3>1. PICK n \in near : m = Pong(n)
      BY <2>2, <1>2
    <3> QED BY <3>1, <1>1
  <2> QED BY <2>1, <2>2
<1>5. due' \subseteq {"ping", "dv", "expire"} \X Router
  BY DEF PingAlarm, GoesOff, TableInv, TypeOK
<1> QED BY <1>3, <1>4, <1>5, NoRouter DEF PingAlarm, TableInv, TypeOK

LEMMA ExpireInv ==
    ASSUME TableInv, NEW r \in Router, ExpireAlarm(r) PROVE TableInv'
<1> DEFINE p == port[r]
           gone == {n \in Connected(p) : p[n].age >= NEIGHBOUR_AGE}
           t == Without(table[r], p, gone)
           q == Closed(p, gone)
           Older(a) == {d \in Router : Has(t, d) /\ t.age[d] >= a}
<1>1. p \in Ports /\ table[r] \in Tables /\ Agrees(table[r])
  BY DEF TableInv, TypeOK, AllAgree
<1>2. t \in Tables /\ Agrees(t) /\ q \in Ports
  <2> HIDE DEF gone
  <2> QED BY <1>1, WithoutKeeps, ClosedType
<1>3. PICK old \in SUBSET Older(ENTRY_AGE) :
         table' = [table EXCEPT ![r] = Expired(t, q, old)]
  BY DEF ExpireAlarm
<1>4. PICK order \in [gone -> 1..Cardinality(gone)] :
         net' = net \union SentLosing(r, table[r], p, gone, order)
  BY DEF ExpireAlarm
<1>5. port' = [port EXCEPT ![r] = q] /\ UNCHANGED <<clock, alive, delay, changes, quiet>>
  BY DEF ExpireAlarm
<1>6. due' \subseteq due
  BY DEF ExpireAlarm, GoesOff
<1> HIDE DEF t, q, gone
<1> DEFINE w == Expired(t, q, old)
<1>7. w \in Tables /\ Agrees(w) /\ Covers(w, q)
  BY <1>2, ExpiredKeeps
<1>8. SentLosing(r, table[r], p, gone, order) \subseteq Packets
      /\ \A m \in SentLosing(r, table[r], p, gone, order) : m.kind = "dv"
  BY <1>1, SentLosingType DEF TableInv, TypeOK
<1>9. net' \subseteq Packets /\ \A m \in net' : m \in net \/ m.kind = "dv"
  BY <1>4, <1>8 DEF TableInv, TypeOK
<1>10. table' = [table EXCEPT ![r] = w]
  BY <1>3
<1> HIDE DEF w
<1> QED BY <1>2, <1>5, <1>6, <1>7, <1>9, <1>10, OneRouter

\* Time: only ages grow.
LEMMA TickInv == ASSUME TableInv, Tick PROVE TableInv'
<1>1. /\ clock' \in Phases /\ due' \subseteq {"ping", "dv", "expire"} \X Router
      /\ alive' \subseteq Link /\ delay' \in [Link -> Delays]
      /\ net' \subseteq Packets /\ changes' \in 0..MaxChanges
  <2>1. clock' \in Phases
    BY DEF Tick, TableInv, TypeOK, Phases, DV_PERIOD
  <2>2. due' \subseteq {"ping", "dv", "expire"} \X Router
    BY DEF Tick
  <2> QED BY <2>1, <2>2 DEF Tick, TableInv, TypeOK
<1>2. quiet' \in 0..Settle
  BY NetworkAssumption DEF Tick, TableInv, TypeOK, Capped
<1>3. ASSUME NEW r \in Router
      PROVE  /\ port'[r] \in Ports
             /\ \A n \in Router : port'[r][n].status = port[r][n].status
                                  /\ port'[r][n].cost = port[r][n].cost
  <2>1. port[r] \in Ports
    BY DEF TableInv, TypeOK
  <2>2. port'[r] = [n \in Router |-> IF port[r][n].status = CONNECTED
                    THEN [port[r][n] EXCEPT !.age = Capped(@, NEIGHBOUR_AGE)] ELSE port[r][n]]
    BY DEF Tick
  <2> QED BY <2>1, <2>2 DEF Ports, Capped, NEIGHBOUR_AGE
<1>4. ASSUME NEW r \in Router
      PROVE  table'[r] \in Tables /\ table'[r].dv = table[r].dv /\ table'[r].fwd = table[r].fwd
  <2>1. table[r] \in Tables
    BY DEF TableInv, TypeOK
  <2> DEFINE age == [d \in Router |-> IF Has(table[r], d) THEN Capped(table[r].age[d], ENTRY_AGE + 1) ELSE 0]
  <2>2. table'[r] = [table[r] EXCEPT !.age = age]
    BY <2>1 DEF Tick, Tables
  <2>3. age \in [Router -> 0..ENTRY_AGE + 1]
    BY <2>1 DEF Tables, Capped, ENTRY_AGE
  <2> HIDE DEF age
  <2> QED BY <2>1, <2>2, <2>3 DEF Tables
<1>5. port' \in [Router -> Ports] /\ table' \in [Router -> Tables]
  <2>1. port' = [r \in Router |-> port'[r]] /\ table' = [r \in Router |-> table'[r]]
    BY DEF Tick
  <2> QED BY <2>1, <1>3, <1>4
<1>6. PongsOnLinks'
  BY DEF Tick, TableInv, PongsOnLinks
<1>7. AllAgree'
  BY <1>4 DEF AllAgree, Agrees, TableInv
<1>8. ASSUME NEW r \in Router, NEW n \in Connected(port'[r])
      PROVE  CoversOne(table'[r], port'[r], n)
  <2>1. n \in Connected(port[r])
    BY <1>3 DEF Connected
  <2>2. CoversOne(table[r], port[r], n)
    BY <2>1 DEF TableInv, AllCover, Covers
  <2> QED BY <2>2, <1>3, <1>4, <2>1 DEF CoversOne, Has, Connected
<1>9. AllCover'
  BY <1>8 DEF AllCover, Covers
<1> QED BY <1>1, <1>2, <1>5, <1>6, <1>7, <1>9 DEF TableInv, TypeOK

\* Links that change and packets that are lost.
LEMMA ChangeType ==
    ASSUME TableInv, Change PROVE changes' \in 0..MaxChanges /\ quiet' \in 0..Settle
BY NetworkAssumption DEF TableInv, TypeOK, Change

LEMMA NetworkInv ==
    ASSUME TableInv,
           \/ \E m \in net : Lose(m)
           \/ \E l \in Flaky : LinkDies(l) \/ LinkComesUp(l) \/ \E d \in Delays : ChangeDelay(l, d)
    PROVE  TableInv'
<1>1. Change
  BY DEF Lose, LinkDies, LinkComesUp, ChangeDelay
<1>2. net' \subseteq net /\ UNCHANGED <<table, port, clock, due>>
  BY DEF Lose, LinkDies, LinkComesUp, ChangeDelay
<1>3. alive' \subseteq Link /\ delay' \in [Link -> Delays]
  BY NetworkAssumption DEF Lose, LinkDies, LinkComesUp, ChangeDelay, TableInv, TypeOK
<1> QED BY <1>1, <1>2, <1>3, ChangeType, NoRouter DEF TableInv, TypeOK

-----------------------------------------------------------------------------
\* TableInv holds always, for every network, with links that die and change and
\* packets that are lost (DV.cc, PINGPONG.cc).
THEOREM TableInvariance == Spec => []TableInv
<1>1. Init => TableInv
  BY InitInv
<1>2. TableInv /\ [Next]_vars => TableInv'
  <2> SUFFICES ASSUME TableInv, [Next]_vars PROVE TableInv'
    OBVIOUS
  <2>1. CASE \E m \in net : Deliver(m)
    BY <2>1, PongInv, TableMsgInv DEF Deliver
  <2>2. CASE \E r \in Router : Alarm(r)
    BY <2>2, PingAlarmInv, DVAlarmInv, ExpireInv DEF Alarm
  <2>3. CASE \/ \E m \in net : Lose(m)
             \/ \E l \in Flaky : LinkDies(l) \/ LinkComesUp(l) \/ \E d \in Delays : ChangeDelay(l, d)
    BY <2>3, NetworkInv
  <2>4. CASE Tick
    BY <2>4, TickInv
  <2>5. CASE UNCHANGED vars
    BY <2>5 DEF vars, TableInv, TypeOK, PongsOnLinks, AllAgree, AllCover
  <2> QED BY <2>1, <2>2, <2>3, <2>4, <2>5 DEF Next
<1> QED BY <1>1, <1>2, PTL DEF Spec

\* Every variable keeps its type: costs stay within 16 bits whatever is added,
\* corrected, or read of a port that was never set (DV.cc 91, 185-214).
THEOREM TablesTyped == Spec => []TypeOK
BY TableInvariance, PTL DEF TableInv

\* The forwarding table says what the routes say, in every router and at every
\* moment (DV.cc 114-136, 173-228, 286-329).
THEOREM ForwardingFollows == Spec => []ForwardingIsNextHop
<1>1. TableInv => ForwardingIsNextHop
  BY DEF TableInv, AllAgree, Agrees, ForwardingIsNextHop
<1> QED BY <1>1, TableInvariance, PTL

\* A connected neighbour always has a route no dearer than its link, whatever is
\* lost and however costs change (DV.cc 173-229, 305-329; PINGPONG.cc 47-65).
THEOREM NeighboursAreCovered == Spec => []NeighbourHasRoute
<1>1. TableInv => NeighbourHasRoute
  BY DEF TableInv, AllCover, Covers, CoversOne, NeighbourHasRoute
<1> QED BY <1>1, TableInvariance, PTL

-----------------------------------------------------------------------------
(* Networks without cycles: what is sent over a link that died is left in time. *)

\* toward[r][d] is the neighbour of r on the way to d: of two neighbours one leads
\* to any third router over the other.  There is such a function just when the
\* links make no cycle.
IsToward(h) ==
    \A r, n \in Router : {r, n} \in Link =>
        /\ r # n /\ h[r][n] = n
        /\ \A d \in Router \ {r, n} : h[n][d] # r <=> h[r][d] = n
toward == CHOOSE h \in [Router -> [Router -> Router]] : IsToward(h)
Forest == \E h \in [Router -> [Router -> Router]] : IsToward(h)

\* The routes of r go the only way there is.
OnTheWay(r, t) == \A d \in Router : Has(t, d) => d # r /\ t.dv[d].nextHop = toward[r][d]

\* A table offers nothing to whom it would lead back.
NoWayBack(m) ==
    \A d \in Router \ {m.to} :
        m.costs[d] \notin {NotListed, Infinity} => d # m.from /\ toward[m.from][d] # m.to

\* Of w's routes, those over others than P are routes of t, at the same age.
NewOnlyVia(P, w, t) ==
    \A d \in Router : Has(w, d) /\ w.dv[d].nextHop \notin P
        => w.dv[d].nextHop = t.dv[d].nextHop /\ w.age[d] = t.age[d]

LEMMA TowardIsWay ==
    ASSUME Forest PROVE toward \in [Router -> [Router -> Router]] /\ IsToward(toward)
BY DEF Forest, toward

LEMMA NextIsNeighbour ==
    ASSUME Forest, NEW r \in Router, NEW n \in Neighbours(r)
    PROVE  n # r /\ toward[r][n] = n
BY TowardIsWay DEF IsToward, Neighbours

LEMMA WayThrough ==
    ASSUME Forest, NEW r \in Router, NEW n \in Neighbours(r), NEW d \in Router,
           d # r, d # n, toward[n][d] # r
    PROVE  toward[r][d] = n
BY TowardIsWay DEF IsToward, Neighbours

LEMMA NewViaMore ==
    ASSUME NEW P, NEW w, NEW t, NewOnlyVia(P, w, t), NEW Q, P \subseteq Q
    PROVE  NewOnlyVia(Q, w, t)
BY DEF NewOnlyVia

LEMMA NewViaTwice ==
    ASSUME NEW P, NEW w, NEW v, NEW t, NewOnlyVia(P, w, v), NewOnlyVia(P, v, t)
    PROVE  NewOnlyVia(P, w, t)
BY DEF NewOnlyVia, Has

LEMMA EraseWay ==
    ASSUME NEW r \in Router, NEW t \in Tables, NEW D
    PROVE  /\ NewOnlyVia({}, Erase(t, D), t)
           /\ OnTheWay(r, t) => OnTheWay(r, Erase(t, D))
           /\ \A d \in Router : d \in D => ~Has(Erase(t, D), d)
BY DEF NewOnlyVia, OnTheWay, Erase, Has, NoRoute, Tables

LEMMA WithRoutesWay ==
    ASSUME NEW r \in Router, NEW t \in Tables, NEW D, NEW route, NEW P
    PROVE  /\ (\A d \in D \intersect Router : route[d].nextHop \in P)
                 => NewOnlyVia(P, WithRoutes(t, D, route), t)
           /\ OnTheWay(r, t)
                 /\ (\A d \in D \intersect Router : d # r /\ route[d].nextHop = toward[r][d])
                 => OnTheWay(r, WithRoutes(t, D, route))
BY DEF NewOnlyVia, OnTheWay, WithRoutes, Has, Tables

LEMMA ForwardingWay ==
    ASSUME NEW r \in Router, NEW t \in Tables
    PROVE  /\ NewOnlyVia({}, updateForwardingTable(t), t)
           /\ OnTheWay(r, t) => OnTheWay(r, updateForwardingTable(t))
BY DEF NewOnlyVia, OnTheWay, updateForwardingTable, Has, Tables

\* updateDVTableByPortMap makes routes over connected neighbours only.  What it
\* renews besides is a route to a neighbour, and in a forest that is the direct one.
LEMMA PortMapWay ==
    ASSUME Forest, NEW r \in Router, NEW t \in Tables, NEW p \in Ports,
           OnTheWay(r, t), Connected(p) \subseteq Neighbours(r)
    PROVE  LET w == updateDVTableByPortMap(t, p)
           IN  NewOnlyVia(Connected(p), w, t) /\ OnTheWay(r, w)
<1> DEFINE better == {n \in Connected(p) : ~Has(t, n) \/ t.dv[n].cost > p[n].cost}
           equal == {n \in Connected(p) : Has(t, n) /\ t.dv[n].cost = p[n].cost}
           route == [d \in Router |-> Route(d, p[d].cost)]
           u == WithRoutes(t, better, route)
           v == [u EXCEPT !.age = [d \in Router |-> IF d \in equal THEN 0 ELSE @[d]]]
           w == updateDVTableByPortMap(t, p)
<1>1. \A d \in better \intersect Router : route[d] \in Entries /\ route[d].nextHop = d
  BY DEF Route, Entries, Ports
<1>2. u \in Tables
  <2> HIDE DEF better, route
  <2> QED BY <1>1, WithRoutesType
<1>3. \A d \in Connected(p) : d \in Router /\ d # r /\ toward[r][d] = d
  BY NextIsNeighbour DEF Connected
<1>4. \A d \in better \intersect Router : d \in Connected(p)
  OBVIOUS
<1>5. NewOnlyVia(Connected(p), u, t) /\ OnTheWay(r, u)
  <2> HIDE DEF better, route
  <2> QED BY <1>1, <1>3, <1>4, WithRoutesWay
<1>6. v \in Tables /\ v.dv = u.dv
        /\ \A d \in Router : v.age[d] = IF d \in equal THEN 0 ELSE u.age[d]
  <2> HIDE DEF u, equal
  <2> QED BY <1>2 DEF Tables, ENTRY_AGE
<1>7. equal \subseteq Connected(p)
  OBVIOUS
<1>8. NewOnlyVia(Connected(p), v, u) /\ OnTheWay(r, v)
  <2> HIDE DEF u, v, equal
  <2>1. OnTheWay(r, v)
    BY <1>5, <1>6 DEF OnTheWay, Has
  <2>2. ASSUME NEW d \in Router, Has(v, d), v.dv[d].nextHop \notin Connected(p)
        PROVE  d \notin equal
    BY <2>1, <2>2, <1>3, <1>7 DEF OnTheWay
  <2> QED BY <2>1, <2>2, <1>6 DEF NewOnlyVia
<1>9. w = v \/ w = updateForwardingTable(v)
  BY DEF updateDVTableByPortMap
<1> HIDE DEF u, v, w, better, equal
<1>10. NewOnlyVia(Connected(p), w, v) /\ OnTheWay(r, w)
  <2>1. CASE w = v
    BY <2>1, <1>8 DEF NewOnlyVia
  <2>2. CASE w = updateForwardingTable(v)
    BY <2>2, <1>6, <1>8, ForwardingWay, NewViaMore
  <2> QED BY <2>1, <2>2, <1>9
<1>11. NewOnlyVia(Connected(p), w, t)
  BY <1>5, <1>8, <1>10, NewViaTwice
<1> QED BY <1>10, <1>11 DEF w

\* A table of neighbour s makes routes over s, and never one that leads back.
LEMMA ByMsgWay ==
    ASSUME Forest, NEW r \in Router, NEW t \in Tables, NEW p \in Ports, NEW s \in Neighbours(r),
           NEW m \in Vectors, OnTheWay(r, t), Connected(p) \subseteq Neighbours(r),
           \A d \in Router \ {r} :
               m[d] \notin {NotListed, Infinity} => d # s /\ toward[s][d] # r
    PROVE  LET w == updateDVTableByMsg(r, t, p, s, m)
           IN  NewOnlyVia(Connected(p) \union {s}, w, t) /\ OnTheWay(r, w)
<1> DEFINE told == {d \in Router \ {r} : m[d] # NotListed}
           cost == [d \in Router |-> Sum16(p[s].cost, m[d])]
           taken == {d \in told : m[d] # Infinity /\
                       (~Has(t, d) \/ t.dv[d].nextHop = s \/ cost[d] <= t.dv[d].cost)}
           poisoned == {d \in told : m[d] = Infinity /\ d \in Via(t, s)}
           route == [d \in Router |-> Route(s, cost[d])]
           u == WithRoutes(t, taken, route)
           e == Erase(u, poisoned)
           v == updateDVTableByPortMap(e, p)
           w == updateDVTableByMsg(r, t, p, s, m)
           P == Connected(p) \union {s}
<1>0. s \in Router
  BY DEF Neighbours
<1>1. \A d \in Router : cost[d] \in 0..Infinity
  <2>1. \A d \in Router : p[s].cost \in Int /\ m[d] \in Int
    BY <1>0, NetworkAssumption DEF Ports, Vectors, NotListed
  <2> QED BY <2>1, SumType
<1>2. \A d \in taken \intersect Router : route[d] \in Entries /\ route[d].nextHop = s
  <2> HIDE DEF cost, taken
  <2> QED BY <1>0, <1>1 DEF Route, Entries
<1>3. \A d \in taken \intersect Router : d # r /\ s = toward[r][d]
  BY WayThrough
<1>4. u \in Tables /\ NewOnlyVia(P, u, t) /\ OnTheWay(r, u)
  <2>1. s \in P
    OBVIOUS
  <2> HIDE DEF taken, route, P
  <2> QED BY <2>1, <1>2, <1>3, WithRoutesType, WithRoutesWay
<1>5. e \in Tables /\ NewOnlyVia(P, e, u) /\ OnTheWay(r, e)
  <2> HIDE DEF u, poisoned, P
  <2> QED BY <1>4, EraseType, EraseWay, NewViaMore
<1>6. v \in Tables /\ NewOnlyVia(P, v, e) /\ OnTheWay(r, v)
  <2> HIDE DEF e
  <2>1. v \in Tables /\ NewOnlyVia(Connected(p), v, e) /\ OnTheWay(r, v)
    BY <1>5, PortMapType, PortMapWay
  <2> HIDE DEF v
  <2> QED BY <2>1, NewViaMore
<1>7. w = v \/ w = updateForwardingTable(v)
  BY DEF updateDVTableByMsg
<1> HIDE DEF u, e, v, w, P
<1>8. NewOnlyVia(P, w, v) /\ OnTheWay(r, w)
  <2>1. CASE w = v
    BY <2>1, <1>6 DEF NewOnlyVia
  <2>2. CASE w = updateForwardingTable(v)
    BY <2>2, <1>6, ForwardingWay, NewViaMore
  <2> QED BY <2>1, <2>2, <1>7
<1>9. NewOnlyVia(P, w, t)
  BY <1>4, <1>5, <1>6, <1>8, NewViaTwice
<1> QED BY <1>8, <1>9 DEF w, P

-----------------------------------------------------------------------------
(* The same of a PONG of neighbour n, and of expiry. *)

LEMMA DirectWay ==
    ASSUME Forest, NEW r \in Router, NEW t \in Tables, NEW n \in Neighbours(r),
           NEW rtt \in 0..Infinity, OnTheWay(r, t), NEW P, n \in P
    PROVE  NewOnlyVia(P, Direct(t, n, rtt), t) /\ OnTheWay(r, Direct(t, n, rtt))
<1> DEFINE route == [d \in Router |-> Route(n, rtt)]
           u == WithRoutes(t, {n}, route)
           w == Direct(t, n, rtt)
<1>1. n \in Router /\ n # r /\ toward[r][n] = n
  BY NextIsNeighbour DEF Neighbours
<1>2. \A d \in {n} \intersect Router : route[d] \in Entries /\ route[d].nextHop = n
  BY <1>1 DEF Route, Entries
<1>3. u \in Tables /\ NewOnlyVia(P, u, t) /\ OnTheWay(r, u)
  <2> HIDE DEF route
  <2> QED BY <1>1, <1>2, WithRoutesType, WithRoutesWay
<1>4. w = [u EXCEPT !.fwd[n] = n]
  BY DEF Direct
<1>5. w.dv = u.dv /\ w.age = u.age
  <2> HIDE DEF u, w
  <2> QED BY <1>3, <1>4 DEF Tables
<1> HIDE DEF u, w
<1>6. NewOnlyVia(P, w, t) /\ OnTheWay(r, w)
  BY <1>3, <1>5 DEF NewOnlyVia, OnTheWay, Has
<1> QED BY <1>6 DEF w

LEMMA NewNeighbourWay ==
    ASSUME Forest, NEW r \in Router, NEW t \in Tables, NEW p \in Ports, NEW n \in Neighbours(r),
           NEW rtt \in 0..Infinity, OnTheWay(r, t), Connected(p) \subseteq Neighbours(r)
    PROVE  LET w == NewNeighbour(t, p, n, rtt)
           IN  NewOnlyVia(Connected(p) \union {n}, w, t) /\ OnTheWay(r, w)
<1> DEFINE z == Direct(t, n, rtt)
           a == [z EXCEPT !.fwd[n] = IF t.fwd[n] = Nobody THEN n ELSE t.fwd[n]]
           u == IF ~Has(t, n) THEN a
                ELSE IF IsWorse(t, n, rtt) THEN z ELSE t
           w == NewNeighbour(t, p, n, rtt)
           P == Connected(p) \union {n}
<1>0. n \in Router
  BY DEF Neighbours
<1>1. z \in Tables /\ NewOnlyVia(P, z, t) /\ OnTheWay(r, z)
  <2>1. n \in P
    OBVIOUS
  <2> HIDE DEF P
  <2> QED BY <1>0, <2>1, DirectKeeps, DirectWay
<1>2. a \in Tables /\ a.dv = z.dv /\ a.age = z.age
  <2>1. t.fwd[n] \in Router \union {Nobody}
    BY <1>0 DEF Tables
  <2> HIDE DEF z
  <2> QED BY <1>1, <1>0, <2>1 DEF Tables
<1> HIDE DEF z, a, P
<1>3. u \in Tables /\ NewOnlyVia(P, u, t) /\ OnTheWay(r, u)
  <2>1. CASE u = a
    BY <2>1, <1>1, <1>2 DEF NewOnlyVia, OnTheWay, Has
  <2>2. CASE u = z
    BY <2>2, <1>1
  <2>3. CASE u = t
    BY <2>3 DEF NewOnlyVia
  <2> QED BY <2>1, <2>2, <2>3
<1>4. w = updateDVTableByPortMap(u, p)
  BY DEF NewNeighbour, a, z
<1> HIDE DEF u, w
<1>5. NewOnlyVia(Connected(p), w, u) /\ OnTheWay(r, w)
  BY <1>3, <1>4, PortMapWay
<1>6. NewOnlyVia(P, w, t)
  BY <1>3, <1>5, NewViaMore, NewViaTwice DEF P
<1> QED BY <1>5, <1>6 DEF w, P

LEMMA NewCostWay ==
    ASSUME Forest, NEW r \in Router, NEW t \in Tables, NEW p \in Ports, NEW n \in Neighbours(r),
           NEW old \in 0..Infinity, NEW rtt \in 0..Infinity,
           OnTheWay(r, t), Connected(p) \subseteq Neighbours(r)
    PROVE  LET w == NewCost(t, p, n, old, rtt)
           IN  NewOnlyVia(Connected(p) \union {n}, w, t) /\ OnTheWay(r, w)
<1> DEFINE route == [d \in Router |-> Route(n, Sum16(t.dv[d].cost - old, rtt))]
           u == Corrected(t, n, old, rtt)
           v == IF IsWorse(u, n, rtt) THEN Direct(u, n, rtt) ELSE u
           w == NewCost(t, p, n, old, rtt)
           P == Connected(p) \union {n}
<1>0. n \in Router /\ n \in P
  BY DEF Neighbours
<1>1. u \in Tables
  BY <1>0, CorrectedKeeps
<1>2. u = WithRoutes(t, Via(t, n), route)
  BY DEF Corrected
<1>3. \A d \in Via(t, n) \intersect Router :
         d # r /\ route[d].nextHop = n /\ n = toward[r][d]
  BY DEF Via, OnTheWay, Route
<1>4. NewOnlyVia(P, u, t) /\ OnTheWay(r, u)
  <2> HIDE DEF route, P, u
  <2> QED BY <1>0, <1>2, <1>3, WithRoutesWay
<1> HIDE DEF u, P
<1>5. v \in Tables /\ NewOnlyVia(P, v, u) /\ OnTheWay(r, v)
  <2>1. CASE IsWorse(u, n, rtt)
    BY <2>1, <1>0, <1>1, <1>4, DirectKeeps, DirectWay
  <2>2. CASE ~IsWorse(u, n, rtt)
    BY <2>2, <1>1, <1>4 DEF NewOnlyVia
  <2> QED BY <2>1, <2>2
<1>6. w = updateDVTableByPortMap(v, p)
  BY DEF NewCost, u
<1> HIDE DEF v, w
<1>7. NewOnlyVia(P, w, v) /\ OnTheWay(r, w)
  BY <1>5, <1>6, PortMapWay, NewViaMore DEF P
<1>8. NewOnlyVia(P, w, t)
  BY <1>4, <1>5, <1>7, NewViaTwice
<1> QED BY <1>7, <1>8 DEF w, P

\* Neighbours that are lost take their routes with them.
LEMMA WithoutWay ==
    ASSUME Forest, NEW r \in Router, NEW t \in Tables, NEW p \in Ports,
           OnTheWay(r, t), Connected(p) \subseteq Neighbours(r), NEW gone
    PROVE  LET w == Without(t, p, gone)
               q == Closed(p, gone)
           IN  /\ NewOnlyVia(Connected(q), w, t) /\ OnTheWay(r, w)
               /\ Connected(q) = Connected(p) \ gone
               /\ \A n \in Router : n \in gone => Via(w, n) = {}
<1> DEFINE D == UNION {Via(t, n) : n \in gone}
           e == Erase(t, D)
           q == Closed(p, gone)
           w == Without(t, p, gone)
<1>1. Connected(q) = Connected(p) \ gone /\ q \in Ports
  BY ClosedType DEF Closed, Connected, CONNECTED, UNCONNECTED
<1>2. e \in Tables /\ NewOnlyVia({}, e, t) /\ OnTheWay(r, e)
        /\ \A d \in Router : d \in D => ~Has(e, d)
  <2> HIDE DEF D
  <2> QED BY EraseType, EraseWay
<1>3. w = IF gone = {} THEN t ELSE updateDVTableByPortMap(e, q)
  BY DEF Without
<1> HIDE DEF e, q, w
<1>4. NewOnlyVia(Connected(q), w, t) /\ OnTheWay(r, w)
  <2>1. CASE gone = {}
    BY <2>1, <1>3 DEF NewOnlyVia
  <2>2. CASE gone # {}
    <3>1. NewOnlyVia(Connected(q), w, e) /\ OnTheWay(r, w)
      BY <2>2, <1>1, <1>2, <1>3, PortMapWay
    <3> QED BY <3>1, <1>2, NewViaMore, NewViaTwice
  <2> QED BY <2>1, <2>2
<1>5. ASSUME NEW n \in Router, n \in gone PROVE Via(w, n) = {}
  <2> SUFFICES ASSUME NEW d \in Router, Has(w, d), w.dv[d].nextHop = n PROVE FALSE
    BY DEF Via
  <2>1. NewOnlyVia(Connected(q), w, e)
    BY <1>1, <1>2, <1>3, <1>5, PortMapWay
  <2>2. Has(e, d) /\ e.dv[d].nextHop = n
    BY <2>1, <1>1, <1>5 DEF NewOnlyVia, Has
  <2>3. t.dv[d].nextHop = n /\ Has(t, d)
    BY <2>2, <1>2 DEF NewOnlyVia, Has
  <2>4. d \in D
    BY <2>3, <1>5 DEF Via
  <2> QED BY <2>2, <2>4, <1>2
<1> QED BY <1>1, <1>4, <1>5 DEF w, q

\* What has grown old goes, or comes back over a connected neighbour.
LEMMA ExpiredWay ==
    ASSUME Forest, NEW r \in Router, NEW t \in Tables, NEW p \in Ports,
           OnTheWay(r, t), Connected(p) \subseteq Neighbours(r), NEW old
    PROVE  LET w == Expired(t, p, old)
           IN  /\ NewOnlyVia(Connected(p), w, t) /\ OnTheWay(r, w)
               /\ \A d \in Router : d \in old /\ Has(w, d) => w.dv[d].nextHop \in Connected(p)
<1> DEFINE e == Erase(t, old)
           w == Expired(t, p, old)
<1>1. e \in Tables /\ NewOnlyVia({}, e, t) /\ OnTheWay(r, e)
        /\ \A d \in Router : d \in old => ~Has(e, d)
  BY EraseType, EraseWay
<1>2. w = updateDVTableByPortMap(e, p)
  BY DEF Expired
<1> HIDE DEF e, w
<1>3. NewOnlyVia(Connected(p), w, e) /\ OnTheWay(r, w)
  BY <1>1, <1>2, PortMapWay
<1>4. NewOnlyVia(Connected(p), w, t)
  BY <1>1, <1>3, NewViaMore, NewViaTwice
<1>5. \A d \in Router : d \in old /\ Has(w, d) => w.dv[d].nextHop \in Connected(p)
  BY <1>1, <1>3 DEF NewOnlyVia, Has
<1> QED BY <1>3, <1>4, <1>5 DEF w

\* What is sent, is sent over links that are up, and by poison reverse never
\* offers anybody a way that leads back.
LEMMA UpdateMsgWay ==
    ASSUME NEW r \in Router, NEW t \in Tables, NEW p \in Ports, OnTheWay(r, t)
    PROVE  \A m \in DV_sendUpdateMsg(r, t, p) :
              m.kind = "dv" /\ {m.from, m.to} \in alive /\ NoWayBack(m)
<1> DEFINE Told(n) == [d \in Router |->
            IF ~Has(t, d) THEN NotListed
            ELSE IF d # n /\ t.dv[d].nextHop = n THEN Infinity
            ELSE t.dv[d].cost]
<1>1. DV_sendUpdateMsg(r, t, p) =
        {[kind |-> "dv", from |-> r, to |-> n, costs |-> Told(n)] :
            n \in {n \in Connected(p) : {r, n} \in alive}}
  BY DEF DV_sendUpdateMsg
<1>2. ASSUME NEW n \in Router, NEW d \in Router \ {n}, Told(n)[d] \notin {NotListed, Infinity}
      PROVE  d # r /\ toward[r][d] # n
  BY <1>2 DEF OnTheWay
<1> HIDE DEF Told
<1> SUFFICES ASSUME NEW m \in DV_sendUpdateMsg(r, t, p)
             PROVE  m.kind = "dv" /\ {m.from, m.to} \in alive /\ NoWayBack(m)
  OBVIOUS
<1>3. PICK n \in {n \in Connected(p) : {r, n} \in alive} :
         m = [kind |-> "dv", from |-> r, to |-> n, costs |-> Told(n)]
  BY <1>1
<1>4. n \in Router
  BY DEF Connected
<1>5. NoWayBack(m)
  BY <1>2, <1>3, <1>4 DEF NoWayBack
<1> QED BY <1>3, <1>5

LEMMA SentLosingWay ==
    ASSUME Forest, NEW r \in Router, NEW t \in Tables, NEW p \in Ports,
           OnTheWay(r, t), Connected(p) \subseteq Neighbours(r), NEW gone, NEW order
    PROVE  \A m \in SentLosing(r, t, p, gone, order) :
              m.kind = "dv" /\ {m.from, m.to} \in alive /\ NoWayBack(m)
<1> DEFINE Upto(n) == {g \in gone : order[g] <= order[n]}
           Sent(n) == DV_sendUpdateMsg(r, Without(t, p, Upto(n)), Closed(p, Upto(n)))
           None(n) == Via(Without(t, p, Upto(n) \ {n}), n) = {}
<1>1. SentLosing(r, t, p, gone, order) = UNION {IF None(n) THEN {} ELSE Sent(n) : n \in gone}
  BY DEF SentLosing
<1>2. ASSUME NEW n
      PROVE  \A m \in Sent(n) : m.kind = "dv" /\ {m.from, m.to} \in alive /\ NoWayBack(m)
  <2>1. Without(t, p, Upto(n)) \in Tables /\ Closed(p, Upto(n)) \in Ports
           /\ OnTheWay(r, Without(t, p, Upto(n)))
    <3> HIDE DEF Upto
    <3> QED BY WithoutKeeps, ClosedType, WithoutWay
  <2> HIDE DEF Upto
  <2> QED BY <2>1, UpdateMsgWay
<1> HIDE DEF Sent, None
<1> QED BY <1>1, <1>2

-----------------------------------------------------------------------------
(* The invariant: where routes and tables go (WayInv); that PINGs and PONGs come *)
(* before the expiry of their tick (OrderInv); that whoever is silent is soon    *)
(* not connected, and routes over it grow old (SilentInv); and that whoever can  *)
(* answer does, in time (AnsweredInv).                                           *)

WayInv ==
    /\ \A r \in Router : OnTheWay(r, table[r]) /\ Connected(port[r]) \subseteq Neighbours(r)
    /\ \A m \in net : {m.from, m.to} \in Link /\ (m.kind = "dv" => NoWayBack(m))

ExpireDue == {"expire"} \X Router \subseteq due
OrderInv ==
    /\ \A m \in net : m.kind = "pong" => ExpireDue
    /\ \A r \in Router : <<"ping", r>> \in due => ExpireDue

\* The expiry of a tick removes what has reached this age.
Aged(r, age, limit) == quiet <= age /\ (quiet = limit => <<"expire", r>> \in due)
SilentTo(r, n, t, p) ==
    IF n \in Connected(p)
    THEN Aged(r, p[n].age, NEIGHBOUR_AGE)
    ELSE \A d \in Via(t, n) : Aged(r, t.age[d], ENTRY_AGE + 1)
SilentInv ==
    /\ quiet > 0 => \A m \in net : {m.from, m.to} \in alive
    /\ \A r, n \in Router : {r, n} \notin alive => SilentTo(r, n, table[r], port[r])

\* Neighbour n was heard of this long ago, after the last change.
Heard(r, n, age) ==
    n \in Connected(port[r]) /\ port[r][n].age <= age /\ port[r][n].cost = RoundTrip(r, n)
PongUnderWay(r, n) == \E m \in net : m.kind = "pong" /\ m.from = n /\ m.to = r
AnsweredBy(r, n) ==
    /\ clock % 2 = 0 /\ quiet >= 1 =>
          <<"ping", r>> \in due \/ PongUnderWay(r, n) \/ Heard(r, n, 0)
    /\ clock % 2 = 1 /\ quiet >= 2 => Heard(r, n, 1)
    /\ clock % 2 = 0 /\ quiet >= 3 => Heard(r, n, 2)
PongsCurrent ==
    quiet >= 1 => \A m \in net : m.kind = "pong" => m.delay = delay[{m.from, m.to}]
AnsweredInv == PongsCurrent /\ \A r, n \in Router : {r, n} \in alive => AnsweredBy(r, n)

LeavingInv == WayInv /\ OrderInv /\ SilentInv /\ AnsweredInv

\* quiet and ages are naturals, and ages have their limits.
LEMMA AgesAreNat ==
    ASSUME TableInv
    PROVE  /\ quiet \in Nat /\ clock \in 0..5
           /\ \A r, n \in Router : port[r][n].age \in 0..3 /\ table[r].age[n] \in 0..10
           /\ \A r \in Router : port[r] \in Ports /\ table[r] \in Tables
BY NetworkAssumption DEF TableInv, TypeOK, Phases, DV_PERIOD, Ports, Tables, NEIGHBOUR_AGE, ENTRY_AGE

\* In the tick of a change nothing is claimed.
LEMMA NotQuiet == TableInv /\ quiet = 0 => AnsweredInv /\ SilentInv
<1> SUFFICES ASSUME TableInv, quiet = 0 PROVE AnsweredInv /\ SilentInv
  OBVIOUS
<1>1. AnsweredInv
  BY DEF AnsweredInv, AnsweredBy, PongsCurrent
<1>2. \A r, n \in Router : SilentTo(r, n, table[r], port[r])
  BY AgesAreNat DEF SilentTo, Aged, Connected, Via, NEIGHBOUR_AGE, ENTRY_AGE
<1> QED BY <1>1, <1>2 DEF SilentInv

LEMMA NotQuietNext == TableInv' /\ quiet' = 0 => AnsweredInv' /\ SilentInv'
<1>1. (TableInv /\ quiet = 0 => AnsweredInv /\ SilentInv)'
  BY NotQuiet, PTL
<1> QED BY <1>1

LEMMA InitLeaving == ASSUME Init PROVE LeavingInv
<1>1. TableInv
  BY InitInv
<1>2. quiet = 0
  BY DEF Init
<1>3. WayInv
  BY DEF Init, WayInv, OnTheWay, Has, NoRoute, Connected, Absent, CONNECTED
<1>4. OrderInv
  BY DEF Init, OrderInv, ExpireDue
<1> QED BY <1>1, <1>2, <1>3, <1>4, NotQuiet DEF LeavingInv

\* A step that changes one router keeps to the ways.
LEMMA OneRouterWay ==
    ASSUME TableInv, WayInv, NEW r \in Router, NEW t, NEW p,
           table' = [table EXCEPT ![r] = t], port' = [port EXCEPT ![r] = p],
           OnTheWay(r, t), Connected(p) \subseteq Neighbours(r),
           \A m \in net' : m \in net \/ (m.kind = "dv" /\ {m.from, m.to} \in alive /\ NoWayBack(m))
    PROVE  WayInv'
<1>1. \A q \in Router : table'[q] = IF q = r THEN t ELSE table[q]
  BY DEF TableInv, TypeOK
<1>2. \A q \in Router : port'[q] = IF q = r THEN p ELSE port[q]
  BY DEF TableInv, TypeOK
<1>3. \A q \in Router : OnTheWay(q, table'[q]) /\ Connected(port'[q]) \subseteq Neighbours(q)
  BY <1>1, <1>2 DEF WayInv
<1>4. \A m \in net' : {m.from, m.to} \in Link /\ (m.kind = "dv" => NoWayBack(m))
  BY DEF WayInv, TableInv, TypeOK
<1> QED BY <1>3, <1>4 DEF WayInv, OnTheWay, NoWayBack

\* A packet of s that makes the tables of r be t and its ports p: it came over a
\* link that is up, and others are neither connected nor renewed.
TakesFrom(s, r, t, p) ==
    /\ {s, r} \in alive
    /\ table' = [table EXCEPT ![r] = t] /\ port' = [port EXCEPT ![r] = p]
    /\ UNCHANGED <<clock, due, alive, quiet>>
    /\ \A n \in Connected(port[r]) : n \in Connected(p)
    /\ \A n \in Connected(p) :
          n = s \/ (n \in Connected(port[r]) /\ p[n].age = port[r][n].age)
    /\ NewOnlyVia(Connected(p) \union {s}, t, table[r])
    /\ \A m \in net' : m \in net \/ {m.from, m.to} \in alive

LEMMA DeliveredSilent ==
    ASSUME TableInv, SilentInv, NEW r \in Router, NEW s \in Router, NEW t, NEW p,
           TakesFrom(s, r, t, p)
    PROVE  SilentInv'
<1> USE DEF TakesFrom
<1>1. \A q \in Router : table'[q] = IF q = r THEN t ELSE table[q]
  BY DEF TableInv, TypeOK
<1>2. \A q \in Router : port'[q] = IF q = r THEN p ELSE port[q]
  BY DEF TableInv, TypeOK
<1>3. quiet' > 0 => \A m \in net' : {m.from, m.to} \in alive'
  BY DEF SilentInv
<1>4. ASSUME NEW q \in Router, NEW n \in Router, {q, n} \notin alive'
      PROVE  SilentTo(q, n, table[q], port[q])' 
  <2>1. SilentTo(q, n, table[q], port[q])
    BY <1>4 DEF SilentInv
  <2>2. CASE q # r
    BY <2>1, <2>2, <1>1, <1>2 DEF SilentTo, Aged
  <2>3. CASE q = r
    <3>1. n # s
      BY <2>3, <1>4
    <3>2. CASE n \in Connected(p)
      BY <3>1, <3>2, <2>1, <2>3, <1>1, <1>2 DEF SilentTo, Aged
    <3>3. CASE n \notin Connected(p)
      <4>1. n \notin Connected(port[r])
        BY <3>3
      <4>2. \A d \in Via(t, n) : d \in Via(table[r], n) /\ t.age[d] = table[r].age[d]
        BY <3>1, <3>3 DEF Via, NewOnlyVia, Has
      <4> QED BY <3>3, <4>1, <4>2, <2>1, <2>3, <1>1, <1>2 DEF SilentTo, Aged
    <3> QED BY <3>2, <3>3
  <2> QED BY <2>2, <2>3
<1> QED BY <1>3, <1>4 DEF SilentInv

\* Packet m makes the ports of r be p: if it is a PONG its sender is heard, and
\* others are heard as before.
HearsFrom(m, r, p) ==
    /\ port' = [port EXCEPT ![r] = p]
    /\ UNCHANGED <<clock, due, alive, delay, quiet>>
    /\ \A n \in Connected(port[r]) :
          n \in Connected(p) /\ (p[n] = port[r][n] \/ (m.kind = "pong" /\ n = m.from))
    /\ m.kind = "pong" =>
          /\ m.to = r /\ m.from \in Connected(p) /\ p[m.from].age = 0
          /\ quiet >= 1 => p[m.from].cost = RoundTrip(r, m.from)
    /\ \A k \in net : k \in net' \/ k = m
    /\ \A k \in net' : k \in net \/ k.kind = "dv"

LEMMA DeliveredAnswered ==
    ASSUME TableInv, AnsweredInv, NEW m \in net, NEW r \in Router, NEW p, HearsFrom(m, r, p)
    PROVE  AnsweredInv'
<1> USE DEF HearsFrom
<1>1. \A q \in Router : port'[q] = IF q = r THEN p ELSE port[q]
  BY DEF TableInv, TypeOK
<1>0. \A q, n \in Router : RoundTrip(q, n)' = RoundTrip(q, n)
  BY DEF RoundTrip
<1>2. ASSUME quiet >= 1, NEW q \in Router, NEW n \in Router, NEW a \in {0, 1, 2}, Heard(q, n, a)
      PROVE  Heard(q, n, a)'
  <2>1. CASE q # r
    BY <1>0, <1>1, <1>2, <2>1 DEF Heard
  <2>2. CASE q = r
    BY <1>0, <1>1, <1>2, <2>2 DEF Heard
  <2> QED BY <2>1, <2>2
<1>3. ASSUME quiet >= 1, NEW q \in Router, NEW n \in Router, PongUnderWay(q, n)
      PROVE  PongUnderWay(q, n)' \/ Heard(q, n, 0)'
  <2>1. PICK k \in net : k.kind = "pong" /\ k.from = n /\ k.to = q
    BY <1>3 DEF PongUnderWay
  <2>2. CASE k \in net'
    BY <2>1, <2>2 DEF PongUnderWay
  <2>3. CASE k = m
    BY <2>1, <2>3, <1>0, <1>1, <1>3 DEF Heard
  <2> QED BY <2>2, <2>3
<1>4. ASSUME NEW q \in Router, NEW n \in Router, {q, n} \in alive'
      PROVE  AnsweredBy(q, n)'
  <2>1. AnsweredBy(q, n)
    BY <1>4 DEF AnsweredInv
  <2>2. quiet >= 2 \/ quiet >= 3 => quiet >= 1
    BY AgesAreNat
  <2> QED BY <2>1, <2>2, <1>2, <1>3 DEF AnsweredBy
<1>5. PongsCurrent'
  BY DEF AnsweredInv, PongsCurrent
<1> QED BY <1>4, <1>5 DEF AnsweredInv

\* PINGs: each neighbour whose link is up will have answered.
LEMMA PingLeaves ==
    ASSUME TableInv, LeavingInv, NEW r \in Router, PingAlarm(r) PROVE LeavingInv'
<1> DEFINE near == {n \in Neighbours(r) : {r, n} \in alive}
           Pong(n) == [kind |-> "pong", from |-> n, to |-> r, delay |-> delay[{r, n}]]
<1>1. /\ <<"ping", r>> \in due /\ due' = due \ {<<"ping", r>>}
      /\ net' = net \union {Pong(n) : n \in near}
      /\ UNCHANGED <<clock, alive, delay, port, table, changes, quiet>>
  BY DEF PingAlarm, GoesOff
<1>2. alive \subseteq Link
  BY DEF TableInv, TypeOK
<1>3. ASSUME NEW m \in net' PROVE m \in net \/ (m.kind = "pong" /\ {m.from, m.to} \in alive)
  <2>1. CASE m \in net
    BY <2>1
  <2>2. CASE m \notin net
    <3>1. PICK n \in near : m = Pong(n)
      BY <2>2, <1>1
    <3>2. {n, r} = {r, n}
      OBVIOUS
    <3> QED BY <3>1, <3>2
  <2> QED BY <2>1, <2>2
<1>4. ExpireDue /\ ExpireDue'
  BY <1>1 DEF LeavingInv, OrderInv, ExpireDue
<1>5. WayInv'
  <2>1. \A m \in net' : {m.from, m.to} \in Link /\ (m.kind = "dv" => NoWayBack(m))
    BY <1>2, <1>3 DEF LeavingInv, WayInv
  <2> QED BY <2>1, <1>1 DEF LeavingInv, WayInv, OnTheWay, NoWayBack
<1>6. OrderInv'
  BY <1>4 DEF OrderInv
<1>7. SilentInv'
  <2>1. quiet' > 0 => \A m \in net' : {m.from, m.to} \in alive'
    BY <1>1, <1>3 DEF LeavingInv, SilentInv
  <2>2. \A q \in Router : <<"expire", q>> \in due <=> <<"expire", q>> \in due'
    BY <1>1
  <2> QED BY <2>1, <2>2, <1>1 DEF LeavingInv, SilentInv, SilentTo, Aged
<1>8. AnsweredInv'
  <2>6. PongsCurrent'
    <3> SUFFICES ASSUME quiet >= 1, NEW m \in net', m.kind = "pong"
                 PROVE  m.delay = delay[{m.from, m.to}]
      BY <1>1 DEF PongsCurrent
    <3>1. CASE m \in net
      BY <3>1 DEF LeavingInv, AnsweredInv, PongsCurrent
    <3>2. CASE m \notin net
      <4>1. PICK n \in near : m = Pong(n)
        BY <3>2, <1>1
      <4>2. {n, r} = {r, n}
        OBVIOUS
      <4> QED BY <4>1, <4>2
    <3> QED BY <3>1, <3>2
  <2> SUFFICES ASSUME NEW q \in Router, NEW n \in Router, {q, n} \in alive'
               PROVE  AnsweredBy(q, n)'
    BY <2>6 DEF AnsweredInv
  <2>1. AnsweredBy(q, n)
    BY <1>1 DEF LeavingInv, AnsweredInv
  <2>2. PongUnderWay(q, n) => PongUnderWay(q, n)'
    BY <1>1 DEF PongUnderWay
  <2>3. \A a : Heard(q, n, a) <=> Heard(q, n, a)'
    BY <1>1 DEF Heard, RoundTrip
  <2>4. q = r => PongUnderWay(q, n)'
    <3> SUFFICES ASSUME q = r PROVE PongUnderWay(q, n)'
      OBVIOUS
    <3>1. n \in near
      BY <1>1, <1>2 DEF Neighbours
    <3>2. Pong(n) \in net' /\ Pong(n).kind = "pong" /\ Pong(n).from = n /\ Pong(n).to = r
      BY <1>1, <3>1
    <3> QED BY <3>2 DEF PongUnderWay
  <2>5. q # r /\ <<"ping", q>> \in due => <<"ping", q>> \in due'
    BY <1>1
  <2> QED BY <2>1, <2>2, <2>3, <2>4, <2>5, <1>1 DEF AnsweredBy
<1> QED BY <1>5, <1>6, <1>7, <1>8 DEF LeavingInv

\* Tables that are sent.
LEMMA DVAlarmLeaves ==
    ASSUME TableInv, LeavingInv, NEW r \in Router, DVAlarm(r) PROVE LeavingInv'
<1>1. /\ <<"dv", r>> \in due /\ due' = due \ {<<"dv", r>>}
      /\ net' = net \union DV_sendUpdateMsg(r, table[r], port[r])
      /\ UNCHANGED <<clock, alive, delay, port, table, changes, quiet>>
  BY DEF DVAlarm, GoesOff
<1>2. \A m \in net' : m \in net \/ (m.kind = "dv" /\ {m.from, m.to} \in alive /\ NoWayBack(m))
  <2>1. OnTheWay(r, table[r]) /\ table[r] \in Tables /\ port[r] \in Ports
    BY AgesAreNat DEF LeavingInv, WayInv
  <2> QED BY <2>1, <1>1, UpdateMsgWay
<1>3. WayInv'
  <2>1. \A m \in net' : {m.from, m.to} \in Link /\ (m.kind = "dv" => NoWayBack(m))
    BY <1>2 DEF LeavingInv, WayInv, TableInv, TypeOK
  <2> QED BY <2>1, <1>1 DEF LeavingInv, WayInv, OnTheWay, NoWayBack
<1>4. /\ ExpireDue => ExpireDue'
      /\ \A q \in Router : /\ <<"expire", q>> \in due <=> <<"expire", q>> \in due'
                           /\ <<"ping", q>> \in due <=> <<"ping", q>> \in due'
  BY <1>1 DEF ExpireDue
<1>5. OrderInv'
  BY <1>2, <1>4 DEF LeavingInv, OrderInv
<1>6. SilentInv'
  <2>1. quiet' > 0 => \A m \in net' : {m.from, m.to} \in alive'
    BY <1>1, <1>2 DEF LeavingInv, SilentInv
  <2> QED BY <2>1, <1>1, <1>4 DEF LeavingInv, SilentInv, SilentTo, Aged
<1>7. AnsweredInv'
  <2>1. ASSUME NEW q \in Router, NEW n \in Router
        PROVE  /\ PongUnderWay(q, n) => PongUnderWay(q, n)'
               /\ \A a : Heard(q, n, a) <=> Heard(q, n, a)'
    BY <1>1 DEF PongUnderWay, Heard, RoundTrip
  <2>2. PongsCurrent'
    BY <1>1, <1>2 DEF LeavingInv, AnsweredInv, PongsCurrent
  <2> QED BY <2>1, <2>2, <1>1, <1>4 DEF LeavingInv, AnsweredInv, AnsweredBy
<1> QED BY <1>3, <1>5, <1>6, <1>7 DEF LeavingInv

\* A PONG: it came over a link that is up, or this is a tick of changes.
LEMMA PongLeaves ==
    ASSUME Forest, TableInv, TableInv', LeavingInv, NEW m \in net, AllOff, RecvPong(m)
    PROVE  LeavingInv'
<1> DEFINE r == m.to
           n == m.from
           p == port[r]
           t == table[r]
           isNew == p[n].status # CONNECTED
<1>1. m \in Packets /\ m.kind = "pong" /\ {n, r} \in Link
  BY DEF TableInv, TypeOK, PongsOnLinks, RecvPong
<1>2. r \in Router /\ n \in Router /\ m.delay \in Delays
  BY <1>1 DEF Packets
<1>3. p \in Ports /\ t \in Tables /\ OnTheWay(r, t) /\ Connected(p) \subseteq Neighbours(r)
        /\ n \in Neighbours(r)
  <2>1. {r, n} = {n, r}
    OBVIOUS
  <2> QED BY <2>1, <1>1, <1>2 DEF TableInv, TypeOK, LeavingInv, WayInv, Neighbours
<1>4. PICK back \in {m.delay, delay[{n, r}]} : PongTakes(m, m.delay + back)
  BY DEF RecvPong
<1>5. back \in Delays
  BY <1>1, <1>2, <1>4 DEF TableInv, TypeOK
<1> DEFINE rtt == m.delay + back
           t1 == IF isNew THEN NewNeighbour(t, p, n, rtt) ELSE t
           sent1 == IF isNew /\ (~Has(t, n) \/ IsWorse(t, n, rtt))
                    THEN DV_sendUpdateMsg(r, t1, p) ELSE {}
           closed == [port EXCEPT ![r][n] = [status |-> CONNECTED, cost |-> rtt, age |-> 0]]
           q == [p EXCEPT ![n] = [status |-> CONNECTED, cost |-> rtt, age |-> 0]]
           P == Connected(p) \union {n}
<1>6. rtt \in 0..Infinity
  <2>1. m.delay + back < Infinity /\ m.delay \in Nat /\ back \in Nat /\ Infinity \in Nat
    BY <1>2, <1>5, NetworkAssumption
  <2> QED BY <2>1
<1>7. PICK old \in IF p[n].status = Absent THEN Garbage ELSE {p[n].cost} :
         LET t2 == IF old # rtt THEN NewCost(t1, p, n, old, rtt) ELSE t1
             sent2 == IF old # rtt /\ (Via(t1, n) # {} \/ IsWorse(t1, n, rtt))
                      THEN DV_sendUpdateMsg(r, t2, p) ELSE {}
         IN  /\ table' = [table EXCEPT ![r] = t2]
             /\ net' = (net \ {m}) \union sent1 \union sent2
  BY <1>4 DEF PongTakes
<1> DEFINE t2 == IF old # rtt THEN NewCost(t1, p, n, old, rtt) ELSE t1
           sent2 == IF old # rtt /\ (Via(t1, n) # {} \/ IsWorse(t1, n, rtt))
                    THEN DV_sendUpdateMsg(r, t2, p) ELSE {}
<1>8. /\ table' = [table EXCEPT ![r] = t2]
      /\ net' = (net \ {m}) \union sent1 \union sent2
      /\ port' = closed
      /\ UNCHANGED environment
  BY <1>4, <1>7 DEF PongTakes
<1>9. old \in 0..Infinity
  BY <1>2, <1>3, <1>7, NetworkAssumption DEF Ports
<1>10. port' = [port EXCEPT ![r] = q]
  BY <1>2, <1>8 DEF TableInv, TypeOK, Ports
<1> HIDE DEF rtt
<1>11. t1 \in Tables /\ NewOnlyVia(P, t1, t) /\ OnTheWay(r, t1)
  <2>1. CASE isNew
    BY <2>1, <1>2, <1>3, <1>6, NewNeighbourKeeps, NewNeighbourWay
  <2>2. CASE ~isNew
    BY <2>2, <1>3 DEF NewOnlyVia
  <2> QED BY <2>1, <2>2
<1> HIDE DEF t1
<1>12. NewOnlyVia(P, t2, t1) /\ OnTheWay(r, t2)
  <2>1. CASE old # rtt
    <3>1. t2 = NewCost(t1, p, n, old, rtt)
      BY <2>1
    <3> HIDE DEF r, n, p, t, t2
    <3>2. NewOnlyVia(P, NewCost(t1, p, n, old, rtt), t1) /\ OnTheWay(r, NewCost(t1, p, n, old, rtt))
      BY <1>2, <1>3, <1>6, <1>9, <1>11, NewCostWay
    <3> QED BY <3>1, <3>2
  <2>2. CASE old = rtt
    BY <2>2, <1>11 DEF NewOnlyVia
  <2> QED BY <2>1, <2>2
<1>13. table'[r] = t2 /\ t2 \in Tables
  BY <1>2, <1>8 DEF TableInv, TypeOK
<1> HIDE DEF t2
<1>14. Connected(q) = P
  BY <1>2, <1>3 DEF Connected, Ports
<1>15. \A k \in net' : k \in net \/ (k.kind = "dv" /\ {k.from, k.to} \in alive /\ NoWayBack(k))
  <2>1. \A k \in sent1 : k.kind = "dv" /\ {k.from, k.to} \in alive /\ NoWayBack(k)
    BY <1>2, <1>3, <1>11, UpdateMsgWay
  <2>2. \A k \in sent2 : k.kind = "dv" /\ {k.from, k.to} \in alive /\ NoWayBack(k)
    BY <1>2, <1>3, <1>12, <1>13, UpdateMsgWay
  <2> HIDE DEF sent1, sent2
  <2> QED BY <2>1, <2>2, <1>8
<1>16. NewOnlyVia(P, t2, t)
  BY <1>11, <1>12, NewViaTwice
<1>17. table' = [table EXCEPT ![r] = t2]
  BY <1>8
<1>18. UNCHANGED <<clock, due, alive, delay, changes, quiet>>
  BY <1>8 DEF environment
<1>19. \A k \in Router : q[k] = IF k = n THEN [status |-> CONNECTED, cost |-> rtt, age |-> 0] ELSE p[k]
  BY <1>2, <1>3 DEF Ports
<1>20. \A k \in net : k \in net' \/ k = m
  BY <1>8
<1> HIDE DEF r, n, q
<1>21. WayInv'
  <2>1. Connected(q) \subseteq Neighbours(r)
    BY <1>3, <1>14
  <2> QED BY <2>1, <1>2, <1>10, <1>12, <1>15, <1>17, OneRouterWay DEF LeavingInv
<1>22. OrderInv'
  BY <1>15, <1>18 DEF LeavingInv, OrderInv, ExpireDue
<1>23. SilentInv'
  <2>1. CASE quiet = 0
    <3>1. quiet' = 0
      BY <2>1, <1>18
    <3> QED BY <3>1, NotQuietNext
  <2>2. CASE quiet # 0
    <3>1. {n, r} \in alive
      <4>1. quiet > 0
        BY <2>2, AgesAreNat
      <4> QED BY <4>1 DEF LeavingInv, SilentInv, r, n
    <3>2. \A k \in Connected(p) : k \in Connected(q)
      BY <1>14
    <3>3. \A k \in Connected(q) : k = n \/ (k \in Connected(p) /\ q[k].age = p[k].age)
      BY <1>14, <1>19 DEF Connected
    <3>4. NewOnlyVia(Connected(q) \union {n}, t2, t)
      BY <1>14, <1>16, NewViaMore
    <3>5. \A k \in net' : k \in net \/ {k.from, k.to} \in alive
      BY <1>15
    <3>6. TakesFrom(n, r, t2, q)
      <4> HIDE DEF P
      <4> QED BY <3>1, <3>2, <3>3, <3>4, <3>5, <1>10, <1>17, <1>18 DEF TakesFrom
    <3> QED BY <3>6, <1>2, DeliveredSilent DEF LeavingInv
  <2> QED BY <2>1, <2>2
<1>24. AnsweredInv'
  <2>1. \A k \in Connected(p) : k \in Connected(q) /\ (q[k] = p[k] \/ k = n)
    BY <1>14, <1>19 DEF Connected
  <2>2. n \in Connected(q) /\ q[n].age = 0 /\ q[n].cost = rtt
    BY <1>2, <1>14, <1>19
  <2>3. m.from = n /\ m.to = r /\ m.kind = "pong"
    BY <1>1 DEF n, r
  <2>4. quiet >= 1 => rtt = RoundTrip(r, n)
    <3> SUFFICES ASSUME quiet >= 1 PROVE rtt = RoundTrip(r, n)
      OBVIOUS
    <3>1. m.delay = delay[{n, r}]
      BY <2>3 DEF LeavingInv, AnsweredInv, PongsCurrent
    <3>2. back = m.delay /\ m.delay \in Nat
      BY <1>2, <1>4, <3>1, NetworkAssumption
    <3>3. {n, r} = {r, n}
      OBVIOUS
    <3>4. delay[{r, n}] = m.delay
      BY <3>1, <3>3
    <3> QED BY <3>2, <3>4 DEF RoundTrip, rtt
  <2>5. \A k \in net' : k \in net \/ k.kind = "dv"
    BY <1>15
  <2>6. HearsFrom(m, r, q)
    <3> HIDE DEF P
    <3> QED BY <2>1, <2>2, <2>3, <2>4, <2>5, <1>10, <1>18, <1>20 DEF HearsFrom
  <2> QED BY <2>6, <1>2, DeliveredAnswered DEF LeavingInv
<1> QED BY <1>21, <1>22, <1>23, <1>24 DEF LeavingInv

\* A table: it came over a link that is up, and leads to nobody it came from.
LEMMA TableMsgLeaves ==
    ASSUME Forest, TableInv, TableInv', LeavingInv, NEW m \in net, AllOff, RecvTable(m)
    PROVE  LeavingInv'
<1> DEFINE r == m.to
           s == m.from
<1>1. m \in Packets /\ m.kind = "dv" /\ {s, r} \in Link /\ NoWayBack(m)
  BY DEF TableInv, TypeOK, RecvTable, LeavingInv, WayInv
<1>2. r \in Router /\ s \in Router /\ m.costs \in Vectors
  BY <1>1 DEF Packets
<1>3. port[r] \in Ports /\ table[r] \in Tables /\ OnTheWay(r, table[r])
        /\ Connected(port[r]) \subseteq Neighbours(r) /\ s \in Neighbours(r)
  <2>1. {r, s} = {s, r}
    OBVIOUS
  <2> QED BY <2>1, <1>1, <1>2 DEF TableInv, TypeOK, LeavingInv, WayInv, Neighbours
<1>4. PICK p \in IF port[r][s].status = Absent
                 THEN {[port[r] EXCEPT ![s] = [status |-> Unset, cost |-> g, age |-> 0]] : g \in Garbage}
                 ELSE {port[r]} :
         /\ port' = [port EXCEPT ![r] = p]
         /\ table' = [table EXCEPT ![r] = updateDVTableByMsg(r, @, p, s, m.costs)]
  BY DEF RecvTable
<1>5. p \in Ports /\ Connected(p) = Connected(port[r])
        /\ \A n \in Connected(p) : p[n] = port[r][n]
  <2>1. CASE port[r][s].status = Absent
    <3>1. PICK g \in Garbage : p = [port[r] EXCEPT ![s] = [status |-> Unset, cost |-> g, age |-> 0]]
      BY <2>1, <1>4
    <3>2. g \in 0..Infinity
      BY NetworkAssumption
    <3> HIDE DEF r, s
    <3>3. \A n \in Router : p[n] = IF n = s THEN [status |-> Unset, cost |-> g, age |-> 0] ELSE port[r][n]
      BY <3>1, <1>2, <1>3 DEF Ports
    <3>4. p \in Ports
      BY <1>2, <1>3, <3>1, <3>2 DEF Ports, Unset, NEIGHBOUR_AGE
    <3>5. \A n \in Router : p[n].status = CONNECTED <=> n # s /\ port[r][n].status = CONNECTED
      BY <3>3 DEF Unset, CONNECTED
    <3>6. port[r][s].status # CONNECTED
      BY <2>1 DEF Absent, CONNECTED
    <3> QED BY <3>3, <3>4, <3>5, <3>6 DEF Connected
  <2>2. CASE port[r][s].status # Absent
    BY <2>2, <1>3, <1>4
  <2> QED BY <2>1, <2>2
<1> DEFINE t == updateDVTableByMsg(r, table[r], p, s, m.costs)
<1>6. NewOnlyVia(Connected(p) \union {s}, t, table[r]) /\ OnTheWay(r, t)
  <2>1. \A d \in Router \ {r} :
           m.costs[d] \notin {NotListed, Infinity} => d # s /\ toward[s][d] # r
    BY <1>1 DEF NoWayBack
  <2> HIDE DEF r, s
  <2> QED BY <2>1, <1>2, <1>3, <1>5, ByMsgWay
<1>7. table' = [table EXCEPT ![r] = t] /\ port' = [port EXCEPT ![r] = p]
  BY <1>2, <1>4 DEF TableInv, TypeOK
<1>8. net' \subseteq net /\ (\A k \in net : k \in net' \/ k = m)
      /\ UNCHANGED <<clock, due, alive, delay, changes, quiet>>
  BY DEF RecvTable, environment
<1>9. m.from = s /\ m.to = r
  OBVIOUS
<1> HIDE DEF r, s, t
<1>10. WayInv'
  BY <1>2, <1>3, <1>5, <1>6, <1>7, <1>8, OneRouterWay DEF LeavingInv
<1>11. OrderInv'
  BY <1>8 DEF LeavingInv, OrderInv, ExpireDue
<1>12. SilentInv'
  <2>1. CASE quiet = 0
    <3>1. quiet' = 0
      BY <2>1, <1>8
    <3> QED BY <3>1, NotQuietNext
  <2>2. CASE quiet # 0
    <3>1. quiet > 0
      BY <2>2, AgesAreNat
    <3>2. {s, r} \in alive /\ \A k \in net' : {k.from, k.to} \in alive
      BY <3>1, <1>8, <1>9 DEF LeavingInv, SilentInv
    <3>3. TakesFrom(s, r, t, p)
      BY <3>2, <1>5, <1>6, <1>7, <1>8 DEF TakesFrom
    <3> QED BY <3>3, <1>2, DeliveredSilent DEF LeavingInv
  <2> QED BY <2>1, <2>2
<1>13. AnsweredInv'
  <2>1. HearsFrom(m, r, p)
    BY <1>1, <1>5, <1>7, <1>8 DEF HearsFrom
  <2> QED BY <2>1, <1>2, DeliveredAnswered DEF LeavingInv
<1> QED BY <1>10, <1>11, <1>12, <1>13 DEF LeavingInv

\* Expiry: who has not answered for too long is lost, and what has grown old goes.
LEMMA ExpireLeaves ==
    ASSUME Forest, TableInv, TableInv', LeavingInv, NEW r \in Router, ExpireAlarm(r)
    PROVE  LeavingInv'
<1> DEFINE p == port[r]
           gone == {n \in Connected(p) : p[n].age >= NEIGHBOUR_AGE}
           t == Without(table[r], p, gone)
           q == Closed(p, gone)
           Older(a) == {d \in Router : Has(t, d) /\ t.age[d] >= a}
<1>1. p \in Ports /\ table[r] \in Tables /\ OnTheWay(r, table[r])
        /\ Connected(p) \subseteq Neighbours(r)
  BY DEF TableInv, TypeOK, LeavingInv, WayInv
<1>2. /\ t \in Tables /\ q \in Ports
      /\ NewOnlyVia(Connected(q), t, table[r]) /\ OnTheWay(r, t)
      /\ Connected(q) = Connected(p) \ gone
      /\ \A n \in Router : n \in gone => Via(t, n) = {}
  <2> HIDE DEF gone
  <2> QED BY <1>1, WithoutKeeps, ClosedType, WithoutWay
<1>3. PICK old \in SUBSET Older(ENTRY_AGE) :
         /\ Older(ENTRY_AGE + 1) \subseteq old
         /\ table' = [table EXCEPT ![r] = Expired(t, q, old)]
  BY DEF ExpireAlarm
<1>4. PICK order \in [gone -> 1..Cardinality(gone)] :
         net' = net \union SentLosing(r, table[r], p, gone, order)
  BY DEF ExpireAlarm
<1>5. /\ port' = [port EXCEPT ![r] = q]
      /\ UNCHANGED <<clock, alive, delay, changes, quiet>>
      /\ <<"expire", r>> \in due /\ due' = due \ {<<"expire", r>>}
      /\ \A a \in due : IF a[1] = "expire" THEN a[2] >= r ELSE "expire" = "ping" \/ a[1] = "expire"
      /\ AllOff => net = {}
  BY DEF ExpireAlarm, GoesOff
<1>6. \A n \in Connected(q) : q[n] = p[n]
  BY <1>2 DEF Closed, Connected
<1> DEFINE w == Expired(t, q, old)
<1>7. Connected(q) \subseteq Neighbours(r)
  BY <1>1, <1>2
<1>8. /\ NewOnlyVia(Connected(q), w, t) /\ OnTheWay(r, w)
      /\ \A d \in Router : d \in old /\ Has(w, d) => w.dv[d].nextHop \in Connected(q)
  <2> HIDE DEF q, t
  <2> QED BY <1>2, <1>7, ExpiredWay
<1>9. \A m \in net' : m \in net \/ (m.kind = "dv" /\ {m.from, m.to} \in alive /\ NoWayBack(m))
  <2> HIDE DEF gone
  <2>1. \A m \in SentLosing(r, table[r], p, gone, order) :
           m.kind = "dv" /\ {m.from, m.to} \in alive /\ NoWayBack(m)
    BY <1>1, SentLosingWay
  <2> QED BY <2>1, <1>4
\* Every PING of the tick has gone off, and every PONG has come.
<1>10. due \subseteq {"expire"} \X Router
  <2>1. due \subseteq {"ping", "dv", "expire"} \X Router
    BY DEF TableInv, TypeOK
  <2>2. \A a \in due : a[1] = "expire"
    BY <1>5
  <2> QED BY <2>1, <2>2
<1>11. \A m \in net : m.kind # "pong"
  <2> SUFFICES ASSUME NEW m \in net, m.kind = "pong" PROVE FALSE
    OBVIOUS
  <2>1. {"expire"} \X Router \subseteq due
    BY DEF LeavingInv, OrderInv, ExpireDue
  <2>2. AllOff
    BY <2>1, <1>10 DEF AllOff
  <2> QED BY <2>2, <1>5
<1>12. table'[r] = w /\ port'[r] = q
       /\ \A k \in Router : k # r => table'[k] = table[k] /\ port'[k] = port[k]
  BY <1>3, <1>5 DEF TableInv, TypeOK
<1>13. table' = [table EXCEPT ![r] = w]
  BY <1>3
<1>14. \A d \in Older(10) : d \in old
  BY <1>3 DEF ENTRY_AGE
<1>15. \A n \in Connected(p) : n \in gone \/ (n \in Connected(q) /\ p[n].age < 3)
  <2> SUFFICES ASSUME NEW n \in Connected(p), n \notin gone
               PROVE  n \in Connected(q) /\ p[n].age < 3
    OBVIOUS
  <2>1. ~(p[n].age >= 3)
    BY DEF NEIGHBOUR_AGE
  <2>2. p[n].age \in Nat
    BY AgesAreNat DEF Connected
  <2> HIDE DEF q, gone
  <2> QED BY <2>1, <2>2, <1>2
<1> HIDE DEF q, t, w
<1>16. WayInv'
  BY <1>5, <1>7, <1>8, <1>9, <1>13, OneRouterWay DEF LeavingInv
<1>17. OrderInv'
  <2>1. \A m \in net' : m.kind # "pong"
    BY <1>9, <1>11
  <2>2. \A k \in Router : <<"ping", k>> \notin due'
    BY <1>5, <1>10
  <2> QED BY <2>1, <2>2 DEF OrderInv
<1>18. SilentInv'
  <2>1. quiet' > 0 => \A m \in net' : {m.from, m.to} \in alive'
    BY <1>5, <1>9 DEF LeavingInv, SilentInv
  <2>2. ASSUME NEW k \in Router, NEW n \in Router, {k, n} \notin alive'
        PROVE  SilentTo(k, n, table[k], port[k])'
    <3>1. SilentTo(k, n, table[k], port[k])
      BY <2>2, <1>5 DEF LeavingInv, SilentInv
    <3>2. CASE k # r
      <4>1. <<"expire", k>> \in due => <<"expire", k>> \in due'
        BY <3>2, <1>5
      <4> QED BY <3>1, <3>2, <4>1, <1>5, <1>12 DEF SilentTo, Aged
    <3>3. CASE k = r /\ n \in Connected(q)
      <4>1. n \in Connected(p) /\ p[n].age < 3 /\ q[n].age = p[n].age
        BY <3>3, <1>2, <1>6, <1>15
      <4>2. quiet <= p[n].age
        BY <3>1, <3>3, <4>1 DEF SilentTo, Aged
      <4>3. quiet # 3
        BY <4>1, <4>2, AgesAreNat
      <4> QED BY <3>3, <4>1, <4>2, <4>3, <1>5, <1>12 DEF SilentTo, Aged, NEIGHBOUR_AGE
    <3>4. CASE k = r /\ n \notin Connected(q)
      <4>1. ASSUME NEW d \in Via(w, n)
            PROVE  quiet <= w.age[d] /\ quiet # 10
        <5>1. d \in Router /\ Has(w, d) /\ w.dv[d].nextHop = n
          BY DEF Via
        <5>2. d \in Via(t, n) /\ w.age[d] = t.age[d]
          BY <5>1, <3>4, <1>8 DEF Via, NewOnlyVia, Has
        <5>3. d \in Via(table[r], n) /\ t.age[d] = table[r].age[d]
          BY <5>2, <3>4, <1>2 DEF Via, NewOnlyVia, Has
        <5>4. n \notin Connected(p)
          BY <5>2, <3>4, <1>2
        <5>5. quiet <= w.age[d]
          BY <5>2, <5>3, <5>4, <3>1, <3>4 DEF SilentTo, Aged
        <5>6. d \notin old
          BY <5>1, <3>4, <1>8
        <5>7. ~(t.age[d] >= 10)
          BY <5>2, <5>6, <1>14 DEF Via
        <5>8. t.age[d] \in Nat /\ quiet \in Nat
          <6>1. t.age \in [Router -> 0..10]
            BY <1>2 DEF Tables, ENTRY_AGE
          <6>2. quiet \in Nat
            BY AgesAreNat
          <6> QED BY <5>1, <6>1, <6>2
        <5> QED BY <5>2, <5>5, <5>7, <5>8
      <4>2. ENTRY_AGE + 1 = 10
        BY DEF ENTRY_AGE
      <4> HIDE DEF p
      <4> QED BY <3>4, <4>1, <4>2, <1>5, <1>12 DEF SilentTo, Aged
    <3> QED BY <3>2, <3>3, <3>4
  <2> QED BY <2>1, <2>2 DEF SilentInv
<1>19. AnsweredInv'
  <2>3. \A k, n \in Router : RoundTrip(k, n)' = RoundTrip(k, n)
    BY <1>5 DEF RoundTrip
  <2>1. ASSUME NEW k \in Router, NEW n \in Router, NEW a \in 0..2, Heard(k, n, a)
        PROVE  Heard(k, n, a)'
    <3>1. CASE k # r
      BY <2>1, <2>3, <3>1, <1>12 DEF Heard
    <3>2. CASE k = r
      <4>1. n \in Connected(p) /\ p[n].age <= a /\ p[n].age \in Nat
        BY <2>1, <3>2, AgesAreNat DEF Heard
      <4>2. n \notin gone
        BY <4>1 DEF NEIGHBOUR_AGE
      <4> QED BY <2>1, <2>3, <3>2, <4>1, <4>2, <1>6, <1>12, <1>15 DEF Heard
    <3> QED BY <3>1, <3>2
  <2>2. ASSUME NEW k \in Router, NEW n \in Router, {k, n} \in alive'
        PROVE  AnsweredBy(k, n)'
    <3>1. AnsweredBy(k, n)
      BY <2>2, <1>5 DEF LeavingInv, AnsweredInv
    <3>2. <<"ping", k>> \notin due /\ ~PongUnderWay(k, n)
      BY <1>10, <1>11 DEF PongUnderWay
    <3> QED BY <3>1, <3>2, <2>1, <1>5 DEF AnsweredBy
  <2>4. PongsCurrent'
    BY <1>9, <1>11 DEF PongsCurrent
  <2> QED BY <2>2, <2>4 DEF AnsweredInv
<1> QED BY <1>16, <1>17, <1>18, <1>19 DEF LeavingInv

\* Time: ages grow with quiet, up to their limits, and at the limits the expiry
\* of this tick has been.
LEMMA TickLeaves ==
    ASSUME TableInv, LeavingInv, Tick PROVE LeavingInv'
<1>1. /\ due = {} /\ net = {} /\ net' = {} /\ alive' = alive
      /\ clock' = (clock + 1) % 6
      /\ \A r \in Router : /\ <<"expire", r>> \in due'
                           /\ clock' % 2 = 0 => <<"ping", r>> \in due'
  BY DEF Tick, DV_PERIOD, PING_PERIOD
<1>2. quiet \in Nat /\ quiet' \in Nat /\ quiet' <= quiet + 1
  BY AgesAreNat, NetworkAssumption DEF Tick, Capped
<1>3. ASSUME NEW r \in Router
      PROVE  /\ Connected(port'[r]) = Connected(port[r])
             /\ \A n \in Connected(port[r]) :
                   /\ port'[r][n].age = IF port[r][n].age < 3 THEN port[r][n].age + 1 ELSE 3
                   /\ port'[r][n].cost = port[r][n].cost
  <2>1. port[r] \in Ports
    BY AgesAreNat
  <2>2. port'[r] = [n \in Router |-> IF port[r][n].status = CONNECTED
                    THEN [port[r][n] EXCEPT !.age = Capped(@, NEIGHBOUR_AGE)] ELSE port[r][n]]
    BY DEF Tick
  <2> QED BY <2>1, <2>2 DEF Ports, Capped, NEIGHBOUR_AGE, Connected
<1>4. ASSUME NEW r \in Router
      PROVE  /\ table'[r].dv = table[r].dv
             /\ \A d \in Router : Has(table[r], d) =>
                   table'[r].age[d] = IF table[r].age[d] < 10 THEN table[r].age[d] + 1 ELSE 10
  <2>1. table[r] \in Tables
    BY AgesAreNat
  <2> DEFINE age == [d \in Router |-> IF Has(table[r], d) THEN Capped(table[r].age[d], ENTRY_AGE + 1) ELSE 0]
  <2>2. table'[r] = [table[r] EXCEPT !.age = age]
    BY <2>1 DEF Tick, Tables
  <2>3. table'[r].age = age /\ table'[r].dv = table[r].dv
    <3> HIDE DEF age
    <3> QED BY <2>1, <2>2 DEF Tables
  <2> QED BY <2>3 DEF Capped, ENTRY_AGE
<1>5. WayInv'
  <2>1. \A r \in Router : OnTheWay(r, table'[r]) /\ Connected(port'[r]) \subseteq Neighbours(r)
    BY <1>3, <1>4 DEF LeavingInv, WayInv, OnTheWay, Has
  <2> QED BY <2>1, <1>1 DEF WayInv, OnTheWay
<1>6. OrderInv'
  <2>1. {"expire"} \X Router \subseteq due'
    BY DEF Tick
  <2> QED BY <2>1, <1>1 DEF OrderInv, ExpireDue
<1>7. SilentInv'
  <2>1. ASSUME NEW r \in Router, NEW n \in Router, {r, n} \notin alive'
        PROVE  SilentTo(r, n, table[r], port[r])'
    <3>1. SilentTo(r, n, table[r], port[r])
      BY <2>1, <1>1 DEF LeavingInv, SilentInv
    <3>2. CASE n \in Connected(port[r])
      <4>1. quiet <= port[r][n].age /\ quiet # 3
        BY <3>1, <3>2, <1>1 DEF SilentTo, Aged, NEIGHBOUR_AGE
      <4>2. port[r][n].age \in 0..3
        BY AgesAreNat
      <4>3. quiet' <= port'[r][n].age
        BY <4>1, <4>2, <3>2, <1>2, <1>3
      <4> QED BY <4>3, <3>2, <1>1, <1>3 DEF SilentTo, Aged
    <3>3. CASE n \notin Connected(port[r])
      <4>1. ASSUME NEW d \in Via(table'[r], n) PROVE quiet' <= table'[r].age[d]
        <5>1. d \in Via(table[r], n)
          BY <1>4 DEF Via, Has
        <5>2. quiet <= table[r].age[d] /\ quiet # 10
          BY <5>1, <3>1, <3>3, <1>1 DEF SilentTo, Aged, ENTRY_AGE
        <5>3. d \in Router /\ Has(table[r], d)
          BY <5>1 DEF Via
        <5>4. table[r].age[d] \in 0..10
          BY <5>3, AgesAreNat
        <5> QED BY <5>2, <5>3, <5>4, <1>2, <1>4
      <4> QED BY <4>1, <3>3, <1>1, <1>3 DEF SilentTo, Aged
    <3> QED BY <3>2, <3>3
  <2> QED BY <2>1, <1>1 DEF SilentInv
<1>8. AnsweredInv'
  <2>1. ASSUME NEW r \in Router, NEW n \in Router, NEW a \in 0..1, Heard(r, n, a)
        PROVE  Heard(r, n, a + 1)'
    <3>1. n \in Connected(port[r]) /\ port[r][n].age <= a /\ port[r][n].age \in Nat
      BY <2>1, AgesAreNat DEF Heard
    <3>2. port'[r][n].age <= a + 1
      BY <3>1, <1>3
    <3>3. RoundTrip(r, n)' = RoundTrip(r, n)
      BY DEF Tick, RoundTrip
    <3> QED BY <2>1, <3>1, <3>2, <3>3, <1>3 DEF Heard
  <2>2. clock \in 0..5
    BY AgesAreNat
  <2>3. clock % 2 = 0 => clock' % 2 # 0
    BY <2>2, <1>1
  <2>4. clock % 2 # 0 => clock % 2 = 1 /\ clock' % 2 # 1
    BY <2>2, <1>1
  <2>5. ASSUME NEW r \in Router, NEW n \in Router, {r, n} \in alive'
        PROVE  AnsweredBy(r, n)'
    <3>1. AnsweredBy(r, n)
      BY <2>5, <1>1 DEF LeavingInv, AnsweredInv
    <3>2. CASE clock % 2 = 0
      <4>1. quiet >= 1 => Heard(r, n, 0)
        BY <3>1, <3>2, <1>1 DEF AnsweredBy, PongUnderWay
      <4>2. quiet' >= 2 => Heard(r, n, 1)'
        BY <4>1, <2>1, <1>2
      <4> QED BY <4>2, <2>3, <3>2 DEF AnsweredBy
    <3>3. CASE clock % 2 # 0
      <4>1. quiet >= 2 => Heard(r, n, 1)
        BY <3>1, <3>3, <2>4 DEF AnsweredBy
      <4>2. quiet' >= 3 => Heard(r, n, 2)'
        BY <4>1, <2>1, <1>2
      <4> QED BY <4>2, <2>4, <3>3, <1>1 DEF AnsweredBy
    <3> QED BY <3>2, <3>3
  <2>6. PongsCurrent'
    BY <1>1 DEF PongsCurrent
  <2> QED BY <2>5, <2>6 DEF AnsweredInv
<1> QED BY <1>5, <1>6, <1>7, <1>8 DEF LeavingInv

\* A change or a loss: the tick starts counting anew.
LEMMA NetworkLeaves ==
    ASSUME TableInv', LeavingInv,
           \/ \E m \in net : Lose(m)
           \/ \E l \in Flaky : LinkDies(l) \/ LinkComesUp(l) \/ \E d \in Delays : ChangeDelay(l, d)
    PROVE  LeavingInv'
<1>1. quiet' = 0
  BY DEF Lose, LinkDies, LinkComesUp, ChangeDelay, Change
<1>2. net' \subseteq net /\ UNCHANGED <<table, port, clock, due>>
  BY DEF Lose, LinkDies, LinkComesUp, ChangeDelay
<1>3. WayInv'
  BY <1>2 DEF LeavingInv, WayInv, OnTheWay, NoWayBack
<1>4. OrderInv'
  BY <1>2 DEF LeavingInv, OrderInv, ExpireDue
<1> QED BY <1>1, <1>3, <1>4, NotQuietNext DEF LeavingInv

\* Routes point along the only way there is, and who is silent is forgotten in
\* time, while who can answer is connected (PINGPONG.cc 47-65, 125-163; DV.cc
\* 32-125, 286-303).
THEOREM LeavingInvariance == ASSUME Forest PROVE Spec => []LeavingInv
<1>1. Init => LeavingInv
  BY InitLeaving
<1>2. TableInv /\ TableInv' /\ LeavingInv /\ [Next]_vars => LeavingInv'
  <2> SUFFICES ASSUME TableInv, TableInv', LeavingInv, [Next]_vars PROVE LeavingInv'
    OBVIOUS
  <2>1. CASE \E m \in net : Deliver(m)
    BY <2>1, PongLeaves, TableMsgLeaves DEF Deliver
  <2>2. CASE \E r \in Router : Alarm(r)
    BY <2>2, PingLeaves, DVAlarmLeaves, ExpireLeaves DEF Alarm
  <2>3. CASE \/ \E m \in net : Lose(m)
             \/ \E l \in Flaky : LinkDies(l) \/ LinkComesUp(l) \/ \E d \in Delays : ChangeDelay(l, d)
    BY <2>3, NetworkLeaves
  <2>4. CASE Tick
    BY <2>4, TickLeaves
  <2>5. CASE UNCHANGED vars
    <3>1. WayInv' /\ OrderInv' /\ SilentInv'
      BY <2>5 DEF vars, LeavingInv, WayInv, OnTheWay, NoWayBack, OrderInv, ExpireDue, SilentInv,
                  SilentTo, Aged
    <3>2. AnsweredInv'
      BY <2>5 DEF vars, LeavingInv, AnsweredInv, PongsCurrent, AnsweredBy, Heard, PongUnderWay,
                  RoundTrip
    <3> QED BY <3>1, <3>2 DEF LeavingInv
  <2> QED BY <2>1, <2>2, <2>3, <2>4, <2>5 DEF Next
<1> QED BY <1>1, <1>2, TableInvariance, PTL DEF Spec

\* In every network without cycles, 55 s after the last change or loss nobody
\* sends over a link that is down or over a port that was never set, whatever was
\* lost before (PINGPONG.cc 125-163, DV.cc 286-303).  With a cycle it is false: a
\* route to a neighbour that costs as much as its link is renewed for ever, even
\* over a dead link (DV.cc 314).
THEOREM DeadLinksAreLeftInForests ==
    ASSUME Forest, Forget >= 11 PROVE Spec => []DeadLinksAreLeft
<1>1. TableInv /\ LeavingInv => DeadLinksAreLeft
  <2> SUFFICES ASSUME TableInv, LeavingInv, quiet >= Forget,
                      NEW r \in Router, NEW d \in Router, NextHop(r, d) # Nobody
               PROVE  {r, NextHop(r, d)} \in alive /\ port[r][NextHop(r, d)].status = CONNECTED
    BY DEF DeadLinksAreLeft
  <2> DEFINE n == NextHop(r, d)
  <2>1. quiet \in Nat /\ quiet >= 11
    BY AgesAreNat, NetworkAssumption
  <2>2. n = table[r].fwd[d] /\ table[r].fwd[d] = table[r].dv[d].nextHop
    BY DEF NextHop, TableInv, AllAgree, Agrees
  <2>3. d \in Via(table[r], n)
    BY <2>2 DEF Via, Has
  <2>4. n \in Router
    BY <2>2, AgesAreNat DEF Tables
  <2> HIDE DEF n
  <2>5. {r, n} \in alive
    <3> SUFFICES ASSUME {r, n} \notin alive PROVE FALSE
      OBVIOUS
    <3>1. SilentTo(r, n, table[r], port[r])
      BY <2>4 DEF LeavingInv, SilentInv
    <3>2. port[r][n].age \in 0..3 /\ table[r].age[d] \in 0..10
      BY <2>4, AgesAreNat
    <3>3. n \in Connected(port[r]) => quiet <= port[r][n].age
      BY <3>1 DEF SilentTo, Aged
    <3>4. n \notin Connected(port[r]) => quiet <= table[r].age[d]
      BY <3>1, <2>3 DEF SilentTo, Aged
    <3> QED BY <3>2, <3>3, <3>4, <2>1
  <2>6. Heard(r, n, 1) \/ Heard(r, n, 2)
    <3>1. AnsweredBy(r, n)
      BY <2>4, <2>5 DEF LeavingInv, AnsweredInv
    <3>2. clock % 2 = 0 \/ clock % 2 = 1
      BY AgesAreNat
    <3> QED BY <3>1, <3>2, <2>1 DEF AnsweredBy
  <2>7. port[r][n].status = CONNECTED
    BY <2>6 DEF Heard, Connected
  <2> QED BY <2>5, <2>7 DEF n
<1> QED BY <1>1, TableInvariance, LeavingInvariance, PTL

-----------------------------------------------------------------------------
(* What a handler leaves in an entry: nothing changed, or what its neighbour says. *)

SameEntry(w, t, d) == w.dv[d] = t.dv[d] /\ w.age[d] = t.age[d]

\* Direct routes are at the cost of the port, or as they were.
DirectOrSame(w, t, p) ==
    \A n \in Connected(p) : Has(w, n) /\ (w.dv[n].cost = p[n].cost \/ SameEntry(w, t, n))

LEMMA PortMapEntries ==
    ASSUME NEW t \in Tables, NEW p \in Ports
    PROVE  LET w == updateDVTableByPortMap(t, p)
           IN  /\ DirectOrSame(w, t, p)
               /\ \A d \in Router \ Connected(p) : SameEntry(w, t, d)
<1> DEFINE better == {n \in Connected(p) : ~Has(t, n) \/ t.dv[n].cost > p[n].cost}
           equal == {n \in Connected(p) : Has(t, n) /\ t.dv[n].cost = p[n].cost}
           route == [d \in Router |-> Route(d, p[d].cost)]
           u == WithRoutes(t, better, route)
           v == [u EXCEPT !.age = [d \in Router |-> IF d \in equal THEN 0 ELSE @[d]]]
           w == updateDVTableByPortMap(t, p)
<1>1. \A d \in better \intersect Router : route[d] \in Entries
  BY DEF Route, Entries, Ports
<1>2. u \in Tables
  <2> HIDE DEF better, route
  <2> QED BY <1>1, WithRoutesType
<1>3. \A d \in Router : /\ u.dv[d] = IF d \in better THEN Route(d, p[d].cost) ELSE t.dv[d]
                        /\ d \notin better => u.age[d] = t.age[d]
  BY DEF WithRoutes
<1>4. v \in Tables /\ v.dv = u.dv
        /\ \A d \in Router : v.age[d] = IF d \in equal THEN 0 ELSE u.age[d]
  <2> HIDE DEF u, equal
  <2> QED BY <1>2 DEF Tables, ENTRY_AGE
<1>5. w = v \/ w = updateForwardingTable(v)
  BY DEF updateDVTableByPortMap
<1> HIDE DEF u, v, w
<1>6. w.dv = v.dv /\ w.age = v.age
  BY <1>4, <1>5 DEF updateForwardingTable, Tables
<1>7. \A d \in Router \ Connected(p) : SameEntry(w, t, d)
  BY <1>3, <1>4, <1>6 DEF SameEntry
<1>8. ASSUME NEW n \in Connected(p)
      PROVE  Has(w, n) /\ (w.dv[n].cost = p[n].cost \/ SameEntry(w, t, n))
  <2>1. n \in Router /\ n # Nobody
    BY NobodyIsNoRouter DEF Connected
  <2>2. CASE n \in better
    <3> HIDE DEF better, equal
    <3>1. w.dv[n] = Route(n, p[n].cost)
      BY <2>1, <2>2, <1>3, <1>4, <1>6
    <3> QED BY <2>1, <3>1 DEF Has, Route
  <2>3. CASE n \in equal
    <3>1. n \notin better
      BY <2>1, <2>3, <1>4 DEF Tables, Ports
    <3> QED BY <2>1, <2>3, <3>1, <1>3, <1>4, <1>6 DEF Has
  <2>4. CASE n \notin better /\ n \notin equal
    BY <2>1, <2>4, <1>3, <1>4, <1>6 DEF Has, SameEntry
  <2> QED BY <2>2, <2>3, <2>4
<1> QED BY <1>7, <1>8 DEF DirectOrSame, w

\* A table m of neighbour s: what r hears from s by the way is taken, the rest is
\* left alone.
TakesFromTable(w, t, m, s, d, c) ==
    IF m[d] = NotListed THEN SameEntry(w, t, d)
    ELSE m[d] # Infinity => w.dv[d] = Route(s, Sum16(c, m[d])) /\ w.age[d] = 0

LEMMA ByMsgEntries ==
    ASSUME Forest, NEW r \in Router, NEW t \in Tables, NEW p \in Ports, NEW s \in Neighbours(r),
           s \in Connected(p), NEW m \in Vectors, OnTheWay(r, t), Connected(p) \subseteq Neighbours(r),
           \A d \in Router \ {r} :
               m[d] \notin {NotListed, Infinity} => d # s /\ toward[s][d] # r
    PROVE  LET w == updateDVTableByMsg(r, t, p, s, m)
           IN  /\ DirectOrSame(w, t, p)
               /\ \A d \in Router \ Connected(p) : d # r =>
                     IF toward[r][d] = s THEN TakesFromTable(w, t, m, s, d, p[s].cost)
                     ELSE SameEntry(w, t, d)
<1> DEFINE told == {d \in Router \ {r} : m[d] # NotListed}
           cost == [d \in Router |-> Sum16(p[s].cost, m[d])]
           taken == {d \in told : m[d] # Infinity /\
                       (~Has(t, d) \/ t.dv[d].nextHop = s \/ cost[d] <= t.dv[d].cost)}
           poisoned == {d \in told : m[d] = Infinity /\ d \in Via(t, s)}
           route == [d \in Router |-> Route(s, cost[d])]
           u == WithRoutes(t, taken, route)
           e == Erase(u, poisoned)
           v == updateDVTableByPortMap(e, p)
           w == updateDVTableByMsg(r, t, p, s, m)
<1>0. s \in Router
  BY DEF Neighbours
<1>1. \A d \in Router : cost[d] \in 0..Infinity
  <2>1. \A d \in Router : p[s].cost \in Int /\ m[d] \in Int
    BY <1>0, NetworkAssumption DEF Ports, Vectors, NotListed
  <2> QED BY <2>1, SumType
<1>2. \A d \in taken \intersect Router : route[d] \in Entries
  <2> HIDE DEF cost, taken
  <2> QED BY <1>0, <1>1 DEF Route, Entries
<1>3. \A d \in taken : d # r /\ d # s /\ toward[r][d] = s
  BY WayThrough
<1>4. \A d \in poisoned : toward[r][d] = s
  BY DEF Via, OnTheWay
<1>5. \A n \in Connected(p) : n \in Router /\ n # r /\ toward[r][n] = n
  BY NextIsNeighbour DEF Connected
<1>6. u \in Tables
  <2> HIDE DEF taken, route
  <2> QED BY <1>2, WithRoutesType
<1>7. e \in Tables
  <2> HIDE DEF u, poisoned
  <2> QED BY <1>6, EraseType
<1>8. \A d \in Router :
         /\ d \in poisoned => ~Has(e, d)
         /\ d \notin poisoned /\ d \in taken => e.dv[d] = route[d] /\ e.age[d] = 0
         /\ d \notin poisoned /\ d \notin taken => SameEntry(e, t, d)
  <2> HIDE DEF poisoned, taken, route
  <2> QED BY DEF WithRoutes, Erase, SameEntry, Has, NoRoute
<1>9. v \in Tables /\ DirectOrSame(v, e, p) /\ \A d \in Router \ Connected(p) : SameEntry(v, e, d)
  <2> HIDE DEF e
  <2> QED BY <1>7, PortMapType, PortMapEntries
<1>10. w = v \/ w = updateForwardingTable(v)
  BY DEF updateDVTableByMsg
<1> HIDE DEF u, e, v, w
<1>11. w.dv = v.dv /\ w.age = v.age
  BY <1>9, <1>10 DEF updateForwardingTable, Tables
<1>12. ASSUME NEW n \in Connected(p)
       PROVE  Has(w, n) /\ (w.dv[n].cost = p[n].cost \/ SameEntry(w, t, n))
  <2>1. Has(v, n) /\ (v.dv[n].cost = p[n].cost \/ SameEntry(v, e, n))
    BY <1>9 DEF DirectOrSame
  <2>2. n \notin taken
    BY <1>3, <1>5
  <2> HIDE DEF taken, poisoned
  <2>3. SameEntry(v, e, n) => SameEntry(v, t, n)
    BY <2>1, <2>2, <1>5, <1>8 DEF SameEntry, Has
  <2> QED BY <2>1, <2>3, <1>11 DEF Has, SameEntry
<1>13. ASSUME NEW d \in Router \ Connected(p), d # r
       PROVE  IF toward[r][d] = s THEN TakesFromTable(w, t, m, s, d, p[s].cost)
              ELSE SameEntry(w, t, d)
  <2>1. SameEntry(w, e, d)
    BY <1>9, <1>11 DEF SameEntry
  <2>2. CASE toward[r][d] # s
    <3>1. d \notin taken /\ d \notin poisoned
      BY <2>2, <1>3, <1>4
    <3> QED BY <2>1, <2>2, <3>1, <1>8 DEF SameEntry
  <2>3. CASE toward[r][d] = s /\ m[d] = NotListed
    <3>1. d \notin taken /\ d \notin poisoned
      BY <2>3
    <3> QED BY <2>1, <2>3, <3>1, <1>8 DEF SameEntry, TakesFromTable
  <2>4. CASE toward[r][d] = s /\ m[d] \notin {NotListed, Infinity}
    <3>1. d \in taken /\ d \notin poisoned
      BY <2>4, <1>13 DEF OnTheWay
    <3>2. e.dv[d] = Route(s, Sum16(p[s].cost, m[d])) /\ e.age[d] = 0
      BY <3>1, <1>8
    <3> QED BY <2>1, <2>4, <3>2 DEF SameEntry, TakesFromTable
  <2>5. CASE toward[r][d] = s /\ m[d] = Infinity
    <3>1. Infinity # NotListed
      BY NetworkAssumption DEF NotListed
    <3> QED BY <2>5, <3>1 DEF TakesFromTable
  <2> QED BY <2>2, <2>3, <2>4, <2>5
<1> QED BY <1>12, <1>13 DEF DirectOrSame, w

\* Expiry renews direct routes, or leaves them as they were if they are not old.
LEMMA ExpiredEntries ==
    ASSUME NEW t \in Tables, NEW p \in Ports, NEW old
    PROVE  LET w == Expired(t, p, old)
           IN  /\ \A n \in Connected(p) :
                     w.dv[n].cost = p[n].cost \/ (SameEntry(w, t, n) /\ n \notin old)
               /\ \A d \in Router \ Connected(p) :
                     IF d \in old THEN ~Has(w, d) ELSE SameEntry(w, t, d)
<1> DEFINE e == Erase(t, old)
           w == Expired(t, p, old)
<1>1. e \in Tables /\ \A d \in Router : IF d \in old THEN ~Has(e, d) ELSE SameEntry(e, t, d)
  BY EraseType DEF Erase, Has, NoRoute, SameEntry
<1>2. w = updateDVTableByPortMap(e, p)
  BY DEF Expired
<1> HIDE DEF e, w
<1>3. DirectOrSame(w, e, p) /\ \A d \in Router \ Connected(p) : SameEntry(w, e, d)
  BY <1>1, <1>2, PortMapEntries
<1>4. ASSUME NEW n \in Connected(p)
      PROVE  w.dv[n].cost = p[n].cost \/ (SameEntry(w, t, n) /\ n \notin old)
  BY <1>1, <1>3 DEF DirectOrSame, SameEntry, Has, Connected
<1>5. \A d \in Router \ Connected(p) : IF d \in old THEN ~Has(w, d) ELSE SameEntry(w, t, d)
  BY <1>1, <1>3 DEF SameEntry, Has
<1> QED BY <1>4, <1>5 DEF w

\* Neighbours that are lost do not touch the direct routes of the others.
LEMMA WithoutEntries ==
    ASSUME Forest, NEW r \in Router, NEW t \in Tables, NEW p \in Ports,
           OnTheWay(r, t), Connected(p) \subseteq Neighbours(r), NEW gone
    PROVE  LET w == Without(t, p, gone)
               q == Closed(p, gone)
           IN  \A n \in Connected(q) : w.dv[n].cost = q[n].cost \/ SameEntry(w, t, n)
<1> DEFINE D == UNION {Via(t, n) : n \in gone}
           e == Erase(t, D)
           q == Closed(p, gone)
           w == Without(t, p, gone)
<1>1. Connected(q) = Connected(p) \ gone /\ q \in Ports
  BY ClosedType DEF Closed, Connected, CONNECTED, UNCONNECTED
<1>2. w = IF gone = {} THEN t ELSE updateDVTableByPortMap(e, q)
  BY DEF Without
<1>3. ASSUME NEW n \in Connected(q) PROVE n \in Router /\ n \notin D
  <2>1. n \in Neighbours(r) /\ n \notin gone /\ n \in Router
    BY <1>1 DEF Connected
  <2>2. toward[r][n] = n
    BY <2>1, NextIsNeighbour
  <2> QED BY <2>1, <2>2 DEF Via, OnTheWay
<1>4. e \in Tables /\ \A d \in Router : d \notin D => SameEntry(e, t, d)
  <2> HIDE DEF D
  <2> QED BY EraseType DEF Erase, SameEntry
<1> HIDE DEF D, e, q, w
<1>5. CASE gone = {}
  BY <1>2, <1>5 DEF SameEntry, q, w
<1>6. CASE gone # {}
  <2>1. DirectOrSame(w, e, q)
    BY <1>1, <1>2, <1>4, <1>6, PortMapEntries
  <2> QED BY <2>1, <1>3, <1>4 DEF DirectOrSame, SameEntry, q, w
<1> QED BY <1>5, <1>6

-----------------------------------------------------------------------------
(* The invariant of the best paths.  The entries of r for d are right some time  *)
(* after those of its neighbour on the way to d are, link by link (SettledBy).   *)

\* hops counts the links of a way at least, Trip is no less than any round trip,
\* and the constants have room for both.
Closer(k) ==
    \A r, n \in Router : {r, n} \in Link =>
        \A d \in Router \ {r, n} : toward[r][d] = n => k[n][d] < k[r][d]
SettledBy(k) == 3 + 10 * k
HasRoom(k, trip) ==
    /\ \A e \in Delays : e + e <= trip
    /\ \A r, d \in Router : SettledBy(k[r][d]) <= Settle /\ k[r][d] * trip < Infinity
IsHops(k) ==
    /\ k \in [Router -> [Router -> Nat \ {0}]] /\ Closer(k)
    /\ \E trip \in Nat : HasRoom(k, trip)
Measured == \E k : IsHops(k)
hops == CHOOSE k : IsHops(k)
Trip == CHOOSE trip \in Nat : HasRoom(hops, trip)
Reach(r, d) == hops[r][d] * Trip

LEMMA HopsFacts ==
    ASSUME Measured
    PROVE  /\ Trip \in Nat /\ \A e \in Delays : e + e <= Trip
           /\ \A r, d \in Router :
                 /\ hops[r][d] \in Nat \ {0} /\ SettledBy(hops[r][d]) <= Settle
                 /\ Reach(r, d) \in Nat /\ Trip <= Reach(r, d) /\ Reach(r, d) < Infinity
           /\ \A r, n \in Router : {r, n} \in Link =>
                 \A d \in Router \ {r, n} : toward[r][d] = n =>
                    hops[n][d] < hops[r][d] /\ Reach(n, d) + Trip <= Reach(r, d)
<1>1. IsHops(hops)
  BY DEF Measured, hops
<1>2. Trip \in Nat /\ HasRoom(hops, Trip)
  BY <1>1 DEF IsHops, Trip
<1>3. \A r, d \in Router : hops[r][d] \in Nat \ {0}
  BY <1>1 DEF IsHops
<1>4. ASSUME NEW k \in Nat \ {0} PROVE k * Trip \in Nat /\ Trip <= k * Trip
  BY <1>2, <1>4
<1>5. ASSUME NEW j \in Nat, NEW k \in Nat, j < k PROVE j * Trip + Trip <= k * Trip
  <2>1. PICK i \in Nat : k = j + 1 + i
    <3>1. k = j + 1 + (k - j - 1) /\ k - j - 1 \in Nat
      BY <1>5
    <3> QED BY <3>1
  <2>2. k * Trip = j * Trip + Trip + i * Trip /\ i * Trip \in Nat /\ j * Trip \in Nat
    BY <2>1, <1>2
  <2> QED BY <2>2, <1>2
<1>6. \A r, d \in Router :
         /\ SettledBy(hops[r][d]) <= Settle /\ Reach(r, d) < Infinity
         /\ Reach(r, d) \in Nat /\ Trip <= Reach(r, d)
  BY <1>2, <1>3, <1>4 DEF HasRoom, Reach
<1>7. ASSUME NEW r \in Router, NEW n \in Router, {r, n} \in Link, NEW d \in Router \ {r, n},
             toward[r][d] = n
      PROVE  hops[n][d] < hops[r][d] /\ Reach(n, d) + Trip <= Reach(r, d)
  <2>1. hops[n][d] < hops[r][d]
    BY <1>1, <1>7 DEF IsHops, Closer
  <2>2. hops[n][d] \in Nat /\ hops[r][d] \in Nat
    BY <1>3
  <2> QED BY <2>1, <2>2, <1>5 DEF Reach
<1> QED BY <1>2, <1>3, <1>6, <1>7 DEF HasRoom

\* The entry of d at r has not been renewed since then.
Fading(r, d, since) ==
    /\ quiet <= since + table[r].age[d]
    /\ quiet = since + ENTRY_AGE + 1 => <<"expire", r>> \in due

\* A route to a neighbour costs what the link does; a wrong one that is cheaper
\* grows old since the PONG that set it.
DirectInv ==
    quiet >= 3 => \A r \in Router : \A n \in Up(r) :
        table[r].dv[n].cost = RoundTrip(r, n) \/ Fading(r, n, 2)

\* The entry of d at r is what neighbour n says, and not old; or a table of n
\* will make it so; or n knows no route and the entry grows old.
TableToCome(n, r) ==
    clock = 0 /\ (<<"dv", n>> \in due \/ \E m \in net : m.kind = "dv" /\ m.from = n /\ m.to = r)
Follows(r, d, n) ==
    IF Has(table[n], d)
    THEN /\ Has(table[r], d) /\ table[r].dv[d].cost = RoundTrip(r, n) + table[n].dv[d].cost
         /\ table[r].age[d] <= clock \/ (TableToCome(n, r) /\ table[r].age[d] <= DV_PERIOD)
    ELSE ~Has(table[r], d)
FollowsSoon(r, d, n, since) ==
    IF Has(table[n], d)
    THEN quiet < since + clock \/ (TableToCome(n, r) /\ quiet < since + DV_PERIOD)
    ELSE Fading(r, d, since - 1)
FollowsAt(r) ==
    \A n \in Up(r) : \A d \in Router \ {r, n} :
        toward[r][d] = n /\ quiet >= SettledBy(hops[n][d])
            => Follows(r, d, n) \/ FollowsSoon(r, d, n, SettledBy(hops[n][d]))
FollowInv == \A r \in Router : FollowsAt(r)

\* Tables leave at one time, before the expiry, and say what their senders know.
TellsRight(m) ==
    \A d \in Router \ {m.from, m.to} :
        toward[m.from][d] # m.to /\ quiet >= SettledBy(hops[m.from][d])
            => m.costs[d] = IF Has(table[m.from], d) THEN table[m.from].dv[d].cost ELSE NotListed
SentInv ==
    /\ \A r \in Router : <<"dv", r>> \in due => clock = 0 /\ ExpireDue
    /\ quiet >= 4 => \A m \in net : m.kind = "dv" => clock = 0 /\ ExpireDue /\ TellsRight(m)

\* No sum comes to INFINITY_COST.
NearInv ==
    \A r, d \in Router : Has(table[r], d) /\ quiet >= SettledBy(hops[r][d])
        => table[r].dv[d].cost <= Reach(r, d)

SettledInv == DirectInv /\ FollowInv /\ SentInv /\ NearInv

\* Ports are right 15 s after the last change, and nobody is connected whose link
\* is down.
LEMMA QuietPorts ==
    TableInv /\ LeavingInv =>
       /\ quiet >= 3 => \A r \in Router : \A n \in Up(r) :
             /\ n \in Router /\ n \in Connected(port[r])
             /\ port[r][n].cost = RoundTrip(r, n) /\ port[r][n].age < 3
       /\ quiet >= 4 => \A r \in Router : Connected(port[r]) = Up(r)
<1> SUFFICES ASSUME TableInv, LeavingInv
             PROVE  /\ quiet >= 3 => \A r \in Router : \A n \in Up(r) :
                          /\ n \in Router /\ n \in Connected(port[r])
                          /\ port[r][n].cost = RoundTrip(r, n) /\ port[r][n].age < 3
                    /\ quiet >= 4 => \A r \in Router : Connected(port[r]) = Up(r)
  OBVIOUS
<1>1. ASSUME quiet >= 3, NEW r \in Router, NEW n \in Up(r)
      PROVE  /\ n \in Router /\ n \in Connected(port[r])
             /\ port[r][n].cost = RoundTrip(r, n) /\ port[r][n].age < 3
  <2>1. n \in Router /\ {r, n} \in alive
    BY DEF Up, Neighbours
  <2>2. AnsweredBy(r, n)
    BY <2>1 DEF LeavingInv, AnsweredInv
  <2>3. clock % 2 = 0 \/ clock % 2 = 1
    BY AgesAreNat
  <2>4. Heard(r, n, 1) \/ Heard(r, n, 2)
    BY <1>1, <2>2, <2>3, AgesAreNat DEF AnsweredBy
  <2>5. port[r][n].age \in 0..3
    BY <2>1, AgesAreNat
  <2> QED BY <2>1, <2>4, <2>5 DEF Heard
<1>2. ASSUME quiet >= 4, NEW r \in Router, NEW n \in Connected(port[r]) PROVE n \in Up(r)
  <2>1. n \in Router /\ n \in Neighbours(r)
    BY DEF LeavingInv, WayInv, Connected
  <2>2. port[r][n].age \in 0..3 /\ quiet \in Nat
    BY <2>1, AgesAreNat
  <2>3. {r, n} \notin alive => quiet <= port[r][n].age
    BY <2>1, <1>2 DEF LeavingInv, SilentInv, SilentTo, Aged
  <2> QED BY <2>1, <2>2, <2>3, <1>2 DEF Up
<1>3. quiet >= 4 => quiet >= 3
  BY AgesAreNat
<1> QED BY <1>1, <1>2, <1>3

\* When it has settled, an entry is right.
EntryIsRight(r, d, n) ==
    /\ n \notin Up(r) => ~Has(table[r], d)
    /\ n \in Up(r) /\ d = n => Has(table[r], d) /\ table[r].dv[d].cost = RoundTrip(r, n)
    /\ n \in Up(r) /\ d # n => Follows(r, d, n)

EntriesSettle ==
    Forest /\ Measured /\ TableInv /\ LeavingInv /\ DirectInv =>
        \A r \in Router : FollowsAt(r) => \A d \in Router \ {r} :
            quiet >= SettledBy(hops[r][d]) => EntryIsRight(r, d, toward[r][d])

LEMMA SettledEntry == EntriesSettle
<1> SUFFICES ASSUME Forest, Measured, TableInv, LeavingInv, DirectInv,
                    NEW r \in Router, FollowsAt(r), NEW d \in Router \ {r},
                    quiet >= SettledBy(hops[r][d])
             PROVE  EntryIsRight(r, d, toward[r][d])
  BY DEF EntriesSettle
<1> DEFINE n == toward[r][d]
<1>1. n \in Router
  BY TowardIsWay
<1>2. hops[r][d] \in Nat /\ hops[r][d] >= 1
  BY HopsFacts
<1>3. quiet \in Nat /\ clock \in 0..5 /\ table[r].age[d] \in 0..10
  BY AgesAreNat
<1>4. quiet >= 13
  BY <1>2, <1>3 DEF SettledBy
<1>5. CASE n \notin Up(r)
  <2>1. {r, n} \notin alive
    BY <1>1, <1>5 DEF Up, Neighbours, TableInv, TypeOK
  <2>2. SilentTo(r, n, table[r], port[r])
    BY <2>1, <1>1 DEF LeavingInv, SilentInv
  <2>3. port[r][n].age \in 0..3
    BY <1>1, AgesAreNat
  <2>4. \A e \in Via(table[r], n) : quiet <= table[r].age[e]
    BY <2>2, <2>3, <1>3, <1>4 DEF SilentTo, Aged
  <2>5. d \notin Via(table[r], n)
    BY <2>4, <1>3, <1>4
  <2> QED BY <2>5, <1>5 DEF EntryIsRight, Via, LeavingInv, WayInv, OnTheWay
<1>6. CASE n \in Up(r) /\ d = n
  <2>1. table[r].dv[n].cost = RoundTrip(r, n) \/ Fading(r, n, 2)
    BY <1>3, <1>4, <1>6 DEF DirectInv
  <2>2. ~Fading(r, n, 2)
    BY <1>3, <1>4, <1>6 DEF Fading
  <2>3. Has(table[r], n)
    BY <1>3, <1>4, <1>6, QuietPorts DEF TableInv, AllCover, Covers, CoversOne
  <2> QED BY <2>1, <2>2, <2>3, <1>6 DEF EntryIsRight
<1>7. CASE n \in Up(r) /\ d # n
  <2>1. {r, n} \in Link
    BY <1>7 DEF Up, Neighbours
  <2>2. hops[n][d] \in Nat /\ hops[n][d] < hops[r][d]
    BY <2>1, <1>1, <1>7, HopsFacts
  <2> DEFINE since == SettledBy(hops[n][d])
  <2>3. since \in Nat /\ quiet >= since + 10
    BY <2>2, <1>2, <1>3 DEF SettledBy
  <2> HIDE DEF since
  <2>4. ~FollowsSoon(r, d, n, since)
    <3>1. ~(quiet < since + clock) /\ ~(quiet < since + 6)
      BY <2>3, <1>3
    <3>2. ~(quiet <= since - 1 + table[r].age[d])
      BY <2>3, <1>3
    <3> QED BY <3>1, <3>2 DEF FollowsSoon, Fading, DV_PERIOD
  <2>5. quiet >= since
    BY <2>3, <1>3
  <2>6. Follows(r, d, n) \/ FollowsSoon(r, d, n, since)
    BY <2>5, <1>7 DEF FollowsAt, since
  <2> QED BY <2>4, <2>6, <1>7 DEF EntryIsRight
<1> QED BY <1>5, <1>6, <1>7

LEMMA SettledEntryNext ==
    Forest /\ Measured /\ TableInv' /\ LeavingInv' /\ DirectInv' =>
        \A r \in Router : FollowsAt(r)' => \A d \in Router \ {r} :
            quiet' >= SettledBy(hops[r][d]) => EntryIsRight(r, d, toward[r][d])'
<1>1. EntriesSettle'
  BY SettledEntry, PTL
<1> QED BY <1>1 DEF EntriesSettle

-----------------------------------------------------------------------------
(* What the handlers do once the ports are right. *)

LEMMA UpIsNear ==
    ASSUME Forest, Measured, TableInv, NEW r \in Router, NEW n \in Up(r)
    PROVE  /\ n \in Router /\ n \in Neighbours(r) /\ {r, n} \in Link /\ {r, n} \in alive
           /\ n # r /\ toward[r][n] = n
           /\ RoundTrip(r, n) \in Nat /\ RoundTrip(r, n) <= Trip
<1>1. n \in Router /\ n \in Neighbours(r) /\ {r, n} \in Link /\ {r, n} \in alive
  BY DEF Up, Neighbours
<1>2. delay[{r, n}] \in Delays
  BY <1>1 DEF TableInv, TypeOK
<1>3. delay[{r, n}] \in Nat /\ delay[{r, n}] + delay[{r, n}] <= Trip
  BY <1>2, HopsFacts, NetworkAssumption
<1>4. RoundTrip(r, n) \in Nat /\ RoundTrip(r, n) <= Trip
  <2> DEFINE e == delay[{r, n}]
  <2> HIDE DEF e
  <2>1. 2 * e \in Nat /\ 2 * e <= Trip
    BY <1>3, HopsFacts DEF e
  <2> QED BY <2>1 DEF RoundTrip, e
<1> QED BY <1>1, <1>4, NextIsNeighbour

\* A PONG brings nothing new.
LEMMA PongIsIdle ==
    ASSUME Forest, TableInv, LeavingInv, NEW m \in net, RecvPong(m), quiet >= 3
    PROVE  /\ m.kind = "pong" /\ m.to \in Router
           /\ table' = table /\ net' = net \ {m}
           /\ UNCHANGED environment
<1> DEFINE r == m.to
           n == m.from
           p == port[r]
           t == table[r]
<1>1. m \in Packets /\ m.kind = "pong" /\ {n, r} \in Link
  BY DEF TableInv, TypeOK, PongsOnLinks, RecvPong
<1>2. r \in Router /\ n \in Router /\ m.delay \in Delays
  BY <1>1 DEF Packets
<1>3. quiet >= 1 /\ quiet > 0
  BY AgesAreNat
<1>4. {r, n} = {n, r} /\ {n, r} \in alive /\ m.delay = delay[{n, r}]
  BY <1>1, <1>3 DEF LeavingInv, SilentInv, AnsweredInv, PongsCurrent
<1>5. n \in Up(r)
  BY <1>1, <1>2, <1>4 DEF Up, Neighbours
<1>6. p[n].status = CONNECTED /\ p[n].cost = RoundTrip(r, n)
  BY <1>2, <1>5, QuietPorts DEF Connected
<1>7. PICK back \in {m.delay, delay[{n, r}]} : PongTakes(m, m.delay + back)
  BY DEF RecvPong
<1> DEFINE rtt == m.delay + back
<1>8. rtt = p[n].cost
  <2>1. back = m.delay /\ m.delay \in Nat /\ delay[{r, n}] = m.delay
    BY <1>2, <1>4, <1>7, NetworkAssumption
  <2> QED BY <2>1, <1>6 DEF RoundTrip
<1>9. p[n].status # Absent
  BY <1>6 DEF Absent, CONNECTED
<1> HIDE DEF rtt
<1>10. table' = [table EXCEPT ![r] = t] /\ net' = (net \ {m}) \union {} \union {} /\ UNCHANGED environment
  BY <1>6, <1>7, <1>8, <1>9 DEF PongTakes, rtt
<1>11. table' = table
  BY <1>2, <1>10 DEF TableInv, TypeOK
<1> QED BY <1>1, <1>2, <1>10, <1>11

\* A table of s is taken over by r, which changes its table to w.
HearsTable(m, s, r, w) ==
    /\ m.kind = "dv" /\ m.from = s /\ m.to = r
    /\ r \in Router /\ s \in Up(r) /\ m.costs \in Vectors
    /\ table' = [table EXCEPT ![r] = w] /\ net' = net \ {m} /\ UNCHANGED environment
    /\ DirectOrSame(w, table[r], port[r])
    /\ \A d \in Router \ Connected(port[r]) : d # r =>
          IF toward[r][d] = s THEN TakesFromTable(w, table[r], m.costs, s, d, port[r][s].cost)
          ELSE SameEntry(w, table[r], d)

LEMMA TableIsHeard ==
    ASSUME Forest, TableInv, LeavingInv, NEW m \in net, RecvTable(m), quiet >= 3
    PROVE  \E s, r, w : HearsTable(m, s, r, w)
<1> DEFINE r == m.to
           s == m.from
           w == updateDVTableByMsg(r, table[r], port[r], s, m.costs)
<1>1. m \in Packets /\ m.kind = "dv" /\ {s, r} \in Link /\ NoWayBack(m)
  BY DEF TableInv, TypeOK, RecvTable, LeavingInv, WayInv
<1>2. r \in Router /\ s \in Router /\ m.costs \in Vectors
  BY <1>1 DEF Packets
<1>3. quiet > 0
  BY AgesAreNat
<1>4. {r, s} = {s, r} /\ {s, r} \in alive
  BY <1>3 DEF LeavingInv, SilentInv
<1>5. s \in Up(r) /\ s \in Neighbours(r)
  BY <1>1, <1>2, <1>4 DEF Up, Neighbours
<1>6. s \in Connected(port[r]) /\ port[r][s].status # Absent
  BY <1>2, <1>5, QuietPorts DEF Connected, Absent, CONNECTED
<1>7. table' = [table EXCEPT ![r] = w] /\ net' = net \ {m} /\ UNCHANGED environment
  BY <1>2, <1>6 DEF RecvTable, TableInv, TypeOK
<1>8. port[r] \in Ports /\ table[r] \in Tables /\ OnTheWay(r, table[r])
        /\ Connected(port[r]) \subseteq Neighbours(r)
  BY <1>2 DEF TableInv, TypeOK, LeavingInv, WayInv
<1>9. \A d \in Router \ {r} :
         m.costs[d] \notin {NotListed, Infinity} => d # s /\ toward[s][d] # r
  BY <1>1 DEF NoWayBack
<1>10. m.from = s /\ m.to = r
  OBVIOUS
<1> HIDE DEF r, s
<1>11. /\ DirectOrSame(w, table[r], port[r])
       /\ \A d \in Router \ Connected(port[r]) : d # r =>
             IF toward[r][d] = s THEN TakesFromTable(w, table[r], m.costs, s, d, port[r][s].cost)
             ELSE SameEntry(w, table[r], d)
  BY <1>2, <1>5, <1>6, <1>8, <1>9, ByMsgEntries
<1> HIDE DEF w
<1> QED BY <1>1, <1>2, <1>5, <1>7, <1>10, <1>11 DEF HearsTable

\* Router r lets old entries go: its table becomes w.
Expires(r, w) ==
    /\ table' = [table EXCEPT ![r] = w]
    /\ UNCHANGED <<clock, alive, delay, changes, quiet>>
    /\ due \subseteq {"expire"} \X Router
    /\ <<"expire", r>> \in due /\ due' = due \ {<<"expire", r>>}
    /\ \A n \in Up(r) :
          w.dv[n].cost = RoundTrip(r, n) \/ (SameEntry(w, table[r], n) /\ table[r].age[n] < 10)

\* Later, nobody is lost, and every table under way has come.
ExpiresLate(r, w) ==
    /\ net' = net /\ \A m \in net : m.kind # "dv"
    /\ \A d \in Router \ Up(r) :
          \/ SameEntry(w, table[r], d) /\ (Has(w, d) => table[r].age[d] < 10)
          \/ ~Has(w, d) /\ table[r].age[d] >= 9

LEMMA OldExpire ==
    ASSUME Forest, TableInv, LeavingInv, SentInv, NEW r \in Router, ExpireAlarm(r), quiet >= 3
    PROVE  \E w : Expires(r, w) /\ (quiet >= 4 => ExpiresLate(r, w))
<1> DEFINE p == port[r]
           gone == {n \in Connected(p) : p[n].age >= NEIGHBOUR_AGE}
           t == Without(table[r], p, gone)
           q == Closed(p, gone)
           Older(a) == {d \in Router : Has(t, d) /\ t.age[d] >= a}
<1>1. p \in Ports /\ table[r] \in Tables /\ OnTheWay(r, table[r])
        /\ Connected(p) \subseteq Neighbours(r)
  BY DEF TableInv, TypeOK, LeavingInv, WayInv
<1>2. /\ t \in Tables /\ q \in Ports
      /\ Connected(q) = Connected(p) \ gone
      /\ \A n \in Connected(q) : t.dv[n].cost = q[n].cost \/ SameEntry(t, table[r], n)
  <2> HIDE DEF gone
  <2> QED BY <1>1, WithoutKeeps, ClosedType, WithoutWay, WithoutEntries
<1>3. PICK old \in SUBSET Older(ENTRY_AGE) :
         /\ Older(ENTRY_AGE + 1) \subseteq old
         /\ table' = [table EXCEPT ![r] = Expired(t, q, old)]
  BY DEF ExpireAlarm
<1>4. PICK order \in [gone -> 1..Cardinality(gone)] :
         net' = net \union SentLosing(r, table[r], p, gone, order)
  BY DEF ExpireAlarm
<1>5. /\ UNCHANGED <<clock, alive, delay, changes, quiet>>
      /\ <<"expire", r>> \in due /\ due' = due \ {<<"expire", r>>}
      /\ \A a \in due : IF a[1] = "expire" THEN a[2] >= r ELSE "expire" = "ping" \/ a[1] = "expire"
      /\ AllOff => net = {}
  BY DEF ExpireAlarm, GoesOff
<1>6. due \subseteq {"expire"} \X Router
  <2>1. due \subseteq {"ping", "dv", "expire"} \X Router
    BY DEF TableInv, TypeOK
  <2>2. \A a \in due : a[1] = "expire"
    BY <1>5
  <2> QED BY <2>1, <2>2
<1> DEFINE w == Expired(t, q, old)
<1>7. /\ \A n \in Connected(q) :
            w.dv[n].cost = q[n].cost \/ (SameEntry(w, t, n) /\ n \notin old)
      /\ \A d \in Router \ Connected(q) : IF d \in old THEN ~Has(w, d) ELSE SameEntry(w, t, d)
  <2> HIDE DEF q, t
  <2> QED BY <1>2, ExpiredEntries
<1>8. ASSUME NEW d \in Router
      PROVE  /\ d \in old => Has(t, d) /\ t.age[d] >= 9
             /\ Has(t, d) /\ d \notin old => t.age[d] < 10
  <2>1. t.age[d] \in 0..10
    BY <1>2 DEF Tables, ENTRY_AGE
  <2>2. Older(10) \subseteq old /\ old \subseteq Older(9)
    BY <1>3 DEF ENTRY_AGE
  <2> HIDE DEF t
  <2> QED BY <2>1, <2>2
<1>9. ASSUME NEW n \in Up(r)
      PROVE  n \in Connected(q) /\ q[n].cost = RoundTrip(r, n) /\ n \in Router
  <2>1. n \in Router /\ n \in Connected(p) /\ p[n].cost = RoundTrip(r, n) /\ p[n].age < 3
    BY QuietPorts
  <2>2. p[n].age \in 0..3
    BY <2>1, AgesAreNat
  <2>3. n \notin gone
    BY <2>1, <2>2 DEF NEIGHBOUR_AGE
  <2>4. n \in Connected(q)
    BY <2>1, <2>3, <1>2
  <2> QED BY <2>1, <2>3, <2>4 DEF Closed
<1>10. \A n \in Up(r) : Has(table[r], n)
  BY QuietPorts DEF TableInv, AllCover, Covers, CoversOne
<1>11. ASSUME NEW n \in Up(r)
       PROVE  w.dv[n].cost = RoundTrip(r, n) \/ (SameEntry(w, table[r], n) /\ table[r].age[n] < 10)
  <2> HIDE DEF w, t, q, gone
  <2>1. n \in Router /\ n \in Connected(q) /\ q[n].cost = RoundTrip(r, n) /\ Has(table[r], n)
    BY <1>9, <1>10
  <2>2. t.dv[n].cost = q[n].cost \/ SameEntry(t, table[r], n)
    BY <2>1, <1>2
  <2>3. w.dv[n].cost = q[n].cost \/ (SameEntry(w, t, n) /\ n \notin old)
    BY <2>1, <1>7
  <2> QED BY <2>1, <2>2, <2>3, <1>8 DEF SameEntry, Has
<1>12. Expires(r, w)
  <2> HIDE DEF w
  <2>1. table' = [table EXCEPT ![r] = w]
    BY <1>3 DEF w
  <2> QED BY <2>1, <1>5, <1>6, <1>11 DEF Expires
<1>13. ASSUME quiet >= 4 PROVE ExpiresLate(r, w)
  <2>1. Connected(p) = Up(r)
    BY <1>13, QuietPorts
  <2>2. gone = {}
    <3> SUFFICES ASSUME NEW n \in Connected(p) PROVE ~(p[n].age >= NEIGHBOUR_AGE)
      OBVIOUS
    <3>1. n \in Router /\ p[n].age < 3
      BY <2>1, QuietPorts
    <3>2. p[n].age \in 0..3
      BY <3>1, AgesAreNat
    <3> QED BY <3>1, <3>2 DEF NEIGHBOUR_AGE
  <2>3. t = table[r] /\ Connected(q) = Up(r)
    BY <2>1, <2>2, <1>2 DEF Without
  <2>4. net' = net
    <3>1. SentLosing(r, table[r], p, gone, order) = {}
      BY <2>2 DEF SentLosing
    <3> QED BY <3>1, <1>4
  <2>5. ASSUME NEW m \in net, m.kind = "dv" PROVE FALSE
    <3>1. {"expire"} \X Router \subseteq due
      BY <1>13, <2>5 DEF SentInv, ExpireDue
    <3>2. AllOff
      BY <3>1, <1>6 DEF AllOff
    <3> QED BY <3>2, <2>5, <1>5
  <2> HIDE DEF w, t, q
  <2>6. ASSUME NEW d \in Router \ Up(r)
        PROVE  \/ SameEntry(w, table[r], d) /\ (Has(w, d) => table[r].age[d] < 10)
               \/ ~Has(w, d) /\ table[r].age[d] >= 9
    BY <2>3, <2>6, <1>7, <1>8 DEF SameEntry, Has
  <2> QED BY <2>4, <2>5, <2>6 DEF ExpiresLate
<1> QED BY <1>12, <1>13

-----------------------------------------------------------------------------
(* Every step keeps the invariant of the best paths. *)

LEMMA InitSettled == ASSUME Measured, Init PROVE SettledInv
<1>1. quiet = 0 /\ net = {} /\ due = {"ping", "expire"} \X Router
        /\ \A r, d \in Router : ~Has(table[r], d)
  BY DEF Init, Has, NoRoute
<1>2. \A r, d \in Router : SettledBy(hops[r][d]) >= 13
  BY HopsFacts DEF SettledBy
<1>3. DirectInv /\ NearInv
  BY <1>1 DEF DirectInv, NearInv
<1>4. SentInv
  BY <1>1 DEF SentInv
<1>5. FollowInv
  <2> SUFFICES ASSUME NEW r \in Router, NEW n \in Up(r), NEW d \in Router,
                      quiet >= SettledBy(hops[n][d])
               PROVE  FALSE
    BY DEF FollowInv, FollowsAt
  <2>1. n \in Router /\ hops[n][d] \in Nat
    BY HopsFacts DEF Up, Neighbours
  <2> QED BY <2>1, <1>1 DEF SettledBy
<1> QED BY <1>3, <1>4, <1>5 DEF SettledInv

\* In the first 15 s only alarms of tables can go wrong.
LEMMA EarlyNext ==
    ASSUME Measured, TableInv', DirectInv', quiet' < 4,
           \A r \in Router : <<"dv", r>> \in due' => clock' = 0 /\ ExpireDue'
    PROVE  SettledInv'
<1>1. \A r, d \in Router : hops[r][d] \in Nat \ {0}
  BY HopsFacts
<1>2. quiet' \in Nat
  BY NetworkAssumption DEF TableInv, TypeOK
<1>3. \A r, d \in Router : ~(quiet' >= SettledBy(hops[r][d]))
  BY <1>1, <1>2 DEF SettledBy
<1>4. NearInv'
  BY <1>3 DEF NearInv
<1>5. SentInv'
  BY <1>2 DEF SentInv
<1>6. FollowInv'
  <2>1. \A r, n \in Router : n \in Up(r)' => n \in Router
    OBVIOUS
  <2>2. ASSUME NEW r \in Router, NEW n \in Up(r)' PROVE n \in Router
    BY DEF Up, Neighbours
  <2> QED BY <2>2, <1>3 DEF FollowInv, FollowsAt
<1> QED BY <1>4, <1>5, <1>6 DEF SettledInv

\* A direct route that is kept is kept with its age.
LEMMA DirectNext ==
    ASSUME TableInv, DirectInv, UNCHANGED <<alive, delay, quiet>>,
           quiet >= 3 => \A r \in Router : \A n \in Up(r) :
              \/ table'[r].dv[n].cost = RoundTrip(r, n)
              \/ /\ SameEntry(table'[r], table[r], n)
                 /\ (<<"expire", r>> \in due => <<"expire", r>> \in due') \/ table[r].age[n] < 10
    PROVE  DirectInv'
<1> SUFFICES ASSUME quiet' >= 3, NEW r \in Router, NEW n \in Up(r)',
                    table'[r].dv[n].cost # RoundTrip(r, n)'
             PROVE  Fading(r, n, 2)'
  BY DEF DirectInv
<1>1. quiet >= 3 /\ n \in Up(r) /\ n \in Router /\ RoundTrip(r, n)' = RoundTrip(r, n)
  BY DEF Up, Neighbours, RoundTrip
<1>2. /\ SameEntry(table'[r], table[r], n)
      /\ (<<"expire", r>> \in due => <<"expire", r>> \in due') \/ table[r].age[n] < 10
  BY <1>1
<1>3. Fading(r, n, 2)
  BY <1>1, <1>2 DEF DirectInv, SameEntry
<1>4. quiet \in Nat /\ table[r].age[n] \in 0..10
  BY <1>1, AgesAreNat
<1>5. table[r].age[n] < 10 => quiet # 2 + ENTRY_AGE + 1
  BY <1>3, <1>4 DEF Fading, ENTRY_AGE
<1> QED BY <1>2, <1>3, <1>5 DEF Fading, SameEntry

\* Steps that change nothing the invariant looks at.
NothingNew ==
    /\ UNCHANGED <<table, clock, alive, delay, quiet>>
    /\ \A m : m.kind = "dv" => (m \in net <=> m \in net')
    /\ \A r \in Router : /\ <<"dv", r>> \in due <=> <<"dv", r>> \in due'
                         /\ <<"expire", r>> \in due <=> <<"expire", r>> \in due'

LEMMA NothingNewSettled ==
    ASSUME Forest, Measured, TableInv, SettledInv, NothingNew
    PROVE  SettledInv'
<1>1. ExpireDue <=> ExpireDue'
  <2>1. ExpireDue <=> \A r \in Router : <<"expire", r>> \in due
    BY DEF ExpireDue
  <2>2. ExpireDue' <=> \A r \in Router : <<"expire", r>> \in due'
    BY DEF ExpireDue
  <2> QED BY <2>1, <2>2 DEF NothingNew
<1>2. /\ \A r : Up(r)' = Up(r)
      /\ \A r, n : RoundTrip(r, n)' = RoundTrip(r, n)
  BY DEF NothingNew, Up, RoundTrip
<1>3. DirectInv'
  <2>1. \A r \in Router : \A n \in Up(r) : SameEntry(table'[r], table[r], n)
    BY DEF NothingNew, SameEntry
  <2> QED BY <2>1, DirectNext DEF NothingNew, SettledInv
<1>4. SentInv'
  BY <1>1 DEF NothingNew, SettledInv, SentInv, TellsRight
<1>5. NearInv'
  BY DEF NothingNew, SettledInv, NearInv
<1>6. FollowInv'
  <2> SUFFICES ASSUME NEW r \in Router, NEW n \in Up(r), NEW d \in Router \ {r, n},
                      toward[r][d] = n, quiet >= SettledBy(hops[n][d])
               PROVE  Follows(r, d, n)' \/ FollowsSoon(r, d, n, SettledBy(hops[n][d]))'
    BY <1>2 DEF FollowInv, FollowsAt, NothingNew
  <2>1. Follows(r, d, n) \/ FollowsSoon(r, d, n, SettledBy(hops[n][d]))
    BY DEF SettledInv, FollowInv, FollowsAt
  <2>2. n \in Router
    BY DEF Up, Neighbours
  <2>3. TableToCome(n, r) => TableToCome(n, r)'
    BY <2>2 DEF TableToCome, NothingNew
  <2> QED BY <1>2, <2>1, <2>3 DEF Follows, FollowsSoon, Fading, NothingNew
<1> QED BY <1>3, <1>4, <1>5, <1>6 DEF SettledInv

\* One router changes its table to w, and follows its neighbours as before.
SettlesOne(x, w) ==
    /\ x \in Router /\ table' = [table EXCEPT ![x] = w]
    /\ UNCHANGED <<clock, alive, delay, quiet>>
    /\ net' \subseteq net /\ \A m \in net : m.kind = "dv" /\ m.to # x => m \in net'
    /\ due' \subseteq due /\ \A a \in due : a \in due' \/ a = <<"expire", x>>
    /\ \/ ExpireDue => ExpireDue'
       \/ (\A m \in net' : m.kind # "dv") /\ due' \subseteq {"expire"} \X Router
    /\ FollowsAt(x)'

LEMMA SettlesOneNext ==
    ASSUME Forest, Measured, TableInv, TableInv', LeavingInv, LeavingInv', SettledInv, DirectInv',
           quiet >= 4, NEW x, NEW w, SettlesOne(x, w)
    PROVE  SettledInv'
<1>1. /\ x \in Router /\ \A y \in Router : y # x => table'[y] = table[y]
      /\ UNCHANGED <<clock, alive, delay, quiet>>
      /\ net' \subseteq net /\ \A m \in net : m.kind = "dv" /\ m.to # x => m \in net'
      /\ due' \subseteq due /\ \A a \in due : a \in due' \/ a = <<"expire", x>>
      /\ \/ ExpireDue => ExpireDue'
         \/ (\A m \in net' : m.kind # "dv") /\ due' \subseteq {"expire"} \X Router
      /\ FollowsAt(x)'
  BY DEF SettlesOne, TableInv, TypeOK
<1>2. /\ \A r : Up(r)' = Up(r)
      /\ \A r, n : RoundTrip(r, n)' = RoundTrip(r, n)
  BY <1>1 DEF Up, RoundTrip
<1>3. ASSUME NEW y \in Router, NEW d \in Router, quiet >= SettledBy(hops[y][d])
      PROVE  /\ Has(table'[y], d) <=> Has(table[y], d)
             /\ Has(table[y], d) => table'[y].dv[d].cost = table[y].dv[d].cost
  <2>1. CASE y # x
    BY <2>1, <1>1
  <2>2. CASE y = x /\ d = x
    BY <2>2 DEF LeavingInv, WayInv, OnTheWay
  <2>3. CASE y = x /\ d # x
    <3> DEFINE n == toward[x][d]
    <3>1. EntryIsRight(x, d, n)
      BY <2>3, <1>1, <1>3, SettledEntry DEF EntriesSettle, SettledInv, FollowInv
    <3>2. EntryIsRight(x, d, n)'
      BY <2>3, <1>1, <1>3, SettledEntryNext
    <3>3. n \in Up(x) => n # x /\ n \in Router
      BY <1>1, UpIsNear
    <3> HIDE DEF n
    <3>4. CASE n \notin Up(x)
      BY <3>1, <3>2, <3>4, <2>3, <1>2 DEF EntryIsRight
    <3>5. CASE n \in Up(x) /\ d = n
      BY <3>1, <3>2, <3>5, <2>3, <1>2 DEF EntryIsRight
    <3>6. CASE n \in Up(x) /\ d # n
      <4>1. Follows(x, d, n) /\ Follows(x, d, n)'
        BY <3>1, <3>2, <3>6, <1>2 DEF EntryIsRight
      <4>2. table'[n] = table[n]
        BY <3>3, <3>6, <1>1
      <4> QED BY <4>1, <4>2, <2>3, <1>2 DEF Follows
    <3> QED BY <3>4, <3>5, <3>6
  <2> QED BY <2>1, <2>2, <2>3
<1>4. FollowInv'
  <2> SUFFICES ASSUME NEW y \in Router, y # x, NEW n \in Up(y), NEW d \in Router \ {y, n},
                      toward[y][d] = n, quiet >= SettledBy(hops[n][d])
               PROVE  Follows(y, d, n)' \/ FollowsSoon(y, d, n, SettledBy(hops[n][d]))'
    BY <1>1, <1>2 DEF FollowInv, FollowsAt
  <2>1. Follows(y, d, n) \/ FollowsSoon(y, d, n, SettledBy(hops[n][d]))
    BY DEF SettledInv, FollowInv, FollowsAt
  <2>2. n \in Router
    BY DEF Up, Neighbours
  <2>3. TableToCome(n, y) => TableToCome(n, y)'
    BY <2>2, <1>1 DEF TableToCome
  <2>4. table'[y] = table[y]
    BY <1>1
  <2>5. /\ Has(table'[n], d) <=> Has(table[n], d)
        /\ Has(table[n], d) => table'[n].dv[d].cost = table[n].dv[d].cost
    BY <2>2, <1>3
  <2>6. <<"expire", y>> \in due => <<"expire", y>> \in due'
    BY <1>1
  <2>7. Follows(y, d, n) => Follows(y, d, n)'
    BY <1>1, <1>2, <2>3, <2>4, <2>5 DEF Follows
  <2>8. \A since : Fading(y, d, since) => Fading(y, d, since)'
    BY <1>1, <2>4, <2>6 DEF Fading
  <2>9. \A since : FollowsSoon(y, d, n, since) => FollowsSoon(y, d, n, since)'
    BY <1>1, <2>3, <2>5, <2>8 DEF FollowsSoon
  <2> QED BY <2>1, <2>7, <2>9
<1>5. SentInv'
  <2>1. ASSUME NEW r \in Router, <<"dv", r>> \in due' PROVE clock' = 0 /\ ExpireDue'
    BY <2>1, <1>1 DEF SettledInv, SentInv
  <2>2. ASSUME NEW m \in net', m.kind = "dv" PROVE clock' = 0 /\ ExpireDue' /\ TellsRight(m)'
    <3>1. m \in net /\ clock = 0 /\ ExpireDue /\ TellsRight(m)
      BY <2>2, <1>1 DEF SettledInv, SentInv
    <3>2. m.from \in Router
      BY <3>1, <2>2 DEF TableInv, TypeOK, Packets
    <3> QED BY <3>1, <3>2, <2>2, <1>1, <1>3 DEF TellsRight
  <2> QED BY <2>1, <2>2 DEF SentInv
<1>6. NearInv'
  BY <1>1, <1>3 DEF SettledInv, NearInv
<1> QED BY <1>4, <1>5, <1>6 DEF SettledInv

\* What r hears from s it follows.
LEMMA HearsTableFollows ==
    ASSUME Forest, Measured, TableInv, LeavingInv, SettledInv, quiet >= 4,
           NEW m \in net, NEW s, NEW r, NEW w, HearsTable(m, s, r, w)
    PROVE  FollowsAt(r)'
<1>1. /\ m.kind = "dv" /\ m.from = s /\ m.to = r
      /\ r \in Router /\ s \in Up(r) /\ m.costs \in Vectors
      /\ net' = net \ {m} /\ UNCHANGED environment
      /\ \A d \in Router \ Connected(port[r]) : d # r =>
            IF toward[r][d] = s THEN TakesFromTable(w, table[r], m.costs, s, d, port[r][s].cost)
            ELSE SameEntry(w, table[r], d)
      /\ table'[r] = w /\ \A n \in Router : n # r => table'[n] = table[n]
  BY DEF HearsTable, TableInv, TypeOK
<1>2. UNCHANGED <<clock, due, alive, delay, quiet>>
  BY <1>1 DEF environment
<1>3. /\ \A k : Up(k)' = Up(k)
      /\ \A k, n : RoundTrip(k, n)' = RoundTrip(k, n)
  BY <1>2 DEF Up, RoundTrip
<1>4. Connected(port[r]) = Up(r) /\ port[r][s].cost = RoundTrip(r, s)
  <2>1. quiet >= 3
    BY AgesAreNat
  <2> QED BY <2>1, <1>1, QuietPorts
<1> SUFFICES ASSUME NEW n \in Up(r), NEW d \in Router \ {r, n},
                    toward[r][d] = n, quiet >= SettledBy(hops[n][d])
             PROVE  Follows(r, d, n)' \/ FollowsSoon(r, d, n, SettledBy(hops[n][d]))'
  BY <1>2, <1>3 DEF FollowsAt
<1>5. /\ n \in Router /\ {r, n} \in Link /\ n # r
      /\ RoundTrip(r, n) \in Nat /\ RoundTrip(r, n) <= Trip
  BY <1>1, UpIsNear
<1>6. d \notin Up(r)
  BY <1>1, UpIsNear
<1>7. Follows(r, d, n) \/ FollowsSoon(r, d, n, SettledBy(hops[n][d]))
  BY <1>1 DEF SettledInv, FollowInv, FollowsAt
<1>8. table'[n] = table[n] /\ table'[r] = w
  BY <1>1, <1>5
<1>9. CASE n # s
  <2>1. SameEntry(w, table[r], d)
    BY <1>1, <1>4, <1>6, <1>9
  <2>2. TableToCome(n, r) => TableToCome(n, r)'
    BY <1>1, <1>2, <1>9 DEF TableToCome
  <2>3. Has(w, d) <=> Has(table[r], d)
    BY <2>1 DEF SameEntry, Has
  <2> QED BY <1>2, <1>3, <1>7, <1>8, <2>1, <2>2, <2>3 DEF Follows, FollowsSoon, Fading, SameEntry
<1>10. CASE n = s /\ ~Has(table[n], d)
  <2>1. m.costs[d] = NotListed
    <3>1. TellsRight(m)
      BY <1>1 DEF SettledInv, SentInv
    <3>2. toward[n][d] # r
      BY <1>1, <1>5, TowardIsWay DEF IsToward
    <3> QED BY <3>1, <3>2, <1>1, <1>10 DEF TellsRight
  <2>2. SameEntry(w, table[r], d)
    BY <2>1, <1>1, <1>4, <1>6, <1>10 DEF TakesFromTable
  <2>3. Has(w, d) <=> Has(table[r], d)
    BY <2>2 DEF SameEntry, Has
  <2> QED BY <1>2, <1>3, <1>7, <1>8, <1>10, <2>2, <2>3 DEF Follows, FollowsSoon, Fading, SameEntry
<1>11. CASE n = s /\ Has(table[n], d)
  <2> DEFINE c == table[n].dv[d].cost
  <2>1. c <= Reach(n, d) /\ c \in Nat
    BY <1>5, <1>11, NetworkAssumption DEF SettledInv, NearInv, TableInv, TypeOK, Tables
  <2>2. Reach(n, d) + Trip <= Reach(r, d) /\ Reach(r, d) < Infinity
        /\ Reach(r, d) \in Nat /\ Reach(n, d) \in Nat /\ Trip \in Nat
    BY <1>1, <1>5, HopsFacts
  <2>3. m.costs[d] = c
    <3>1. TellsRight(m)
      BY <1>1 DEF SettledInv, SentInv
    <3>2. toward[n][d] # r
      BY <1>1, <1>5, TowardIsWay DEF IsToward
    <3> QED BY <3>1, <3>2, <1>1, <1>11 DEF TellsRight
  <2> HIDE DEF c
  <2>4. c # NotListed /\ c # Infinity /\ RoundTrip(r, n) + c < Infinity
    BY <2>1, <2>2, <1>5, NetworkAssumption DEF NotListed
  <2>5. Sum16(RoundTrip(r, n), c) = RoundTrip(r, n) + c
    <3>1. \A k \in Nat : k < Infinity => k % (Infinity + 1) = k
      BY NetworkAssumption
    <3>2. RoundTrip(r, n) + c \in Nat
      BY <2>1, <1>5
    <3> QED BY <3>1, <3>2, <2>4 DEF Sum16, Modulus
  <2>6. w.dv[d] = Route(n, RoundTrip(r, n) + c) /\ w.age[d] = 0
    BY <2>3, <2>4, <2>5, <1>1, <1>4, <1>6, <1>11 DEF TakesFromTable
  <2>7. Has(w, d) /\ w.dv[d].cost = RoundTrip(r, n) + c
    BY <2>6, <1>5, NobodyIsNoRouter DEF Has, Route
  <2>8. 0 <= clock
    BY AgesAreNat
  <2> QED BY <2>6, <2>7, <2>8, <1>2, <1>3, <1>8, <1>11 DEF Follows, c
<1> QED BY <1>9, <1>10, <1>11

\* When old entries go, what is not renewed was not offered.
LEMMA ExpiresFollows ==
    ASSUME Forest, Measured, TableInv, LeavingInv, SettledInv, quiet >= 4,
           NEW r \in Router, NEW w, Expires(r, w), ExpiresLate(r, w)
    PROVE  FollowsAt(r)'
<1>1. /\ UNCHANGED <<clock, alive, delay, quiet>>
      /\ due \subseteq {"expire"} \X Router
      /\ \A m \in net : m.kind # "dv"
      /\ \A d \in Router \ Up(r) :
            \/ SameEntry(w, table[r], d) /\ (Has(w, d) => table[r].age[d] < 10)
            \/ ~Has(w, d) /\ table[r].age[d] >= 9
      /\ table'[r] = w /\ \A n \in Router : n # r => table'[n] = table[n]
  BY DEF Expires, ExpiresLate, TableInv, TypeOK
<1>2. /\ \A k : Up(k)' = Up(k)
      /\ \A k, n : RoundTrip(k, n)' = RoundTrip(k, n)
  BY <1>1 DEF Up, RoundTrip
<1> SUFFICES ASSUME NEW n \in Up(r), NEW d \in Router \ {r, n},
                    toward[r][d] = n, quiet >= SettledBy(hops[n][d])
             PROVE  Follows(r, d, n)' \/ FollowsSoon(r, d, n, SettledBy(hops[n][d]))'
  BY <1>1, <1>2 DEF FollowsAt
<1>3. n \in Router /\ n # r /\ d \notin Up(r)
  BY UpIsNear
<1> DEFINE since == SettledBy(hops[n][d])
<1>4. Follows(r, d, n) \/ FollowsSoon(r, d, n, since)
  BY DEF SettledInv, FollowInv, FollowsAt
<1>5. since \in Nat /\ quiet \in Nat /\ clock \in 0..5 /\ table[r].age[d] \in 0..10
  BY <1>3, AgesAreNat, HopsFacts DEF SettledBy
<1> HIDE DEF since
<1>6. ~TableToCome(n, r)
  BY <1>1 DEF TableToCome
<1>7. CASE Has(table[n], d) /\ Follows(r, d, n)
  <2>1. Has(table[r], d) /\ table[r].dv[d].cost = RoundTrip(r, n) + table[n].dv[d].cost
          /\ table[r].age[d] <= clock
    BY <1>6, <1>7 DEF Follows
  <2>2. SameEntry(w, table[r], d)
    BY <2>1, <1>1, <1>3, <1>5
  <2> QED BY <2>1, <2>2, <1>1, <1>2, <1>3, <1>7 DEF Follows, SameEntry, Has
<1>8. CASE Has(table[n], d) /\ FollowsSoon(r, d, n, since)
  BY <1>1, <1>3, <1>6, <1>8 DEF FollowsSoon, since
<1>9. CASE ~Has(table[n], d) /\ ~Has(w, d)
  BY <1>1, <1>3, <1>9 DEF Follows
<1>10. CASE ~Has(table[n], d) /\ Has(w, d)
  <2>1. SameEntry(w, table[r], d) /\ table[r].age[d] < 10
    BY <1>1, <1>3, <1>10
  <2>2. Fading(r, d, since - 1)
    BY <2>1, <1>4, <1>10 DEF Follows, FollowsSoon, SameEntry, Has
  <2>3. quiet # since - 1 + ENTRY_AGE + 1
    BY <2>1, <2>2, <1>5 DEF Fading, ENTRY_AGE
  <2>4. Fading(r, d, since - 1)'
    BY <2>1, <2>2, <2>3, <1>1 DEF Fading, SameEntry
  <2> QED BY <2>4, <1>1, <1>3, <1>10 DEF FollowsSoon, since
<1> QED BY <1>4, <1>7, <1>8, <1>9, <1>10

LEMMA PingSettled ==
    ASSUME Forest, Measured, TableInv, SettledInv, NEW r \in Router, PingAlarm(r)
    PROVE  SettledInv'
<1> DEFINE near == {n \in Neighbours(r) : {r, n} \in alive}
           Pong(n) == [kind |-> "pong", from |-> n, to |-> r, delay |-> delay[{r, n}]]
<1>1. /\ due' = due \ {<<"ping", r>>}
      /\ net' = net \union {Pong(n) : n \in near}
      /\ UNCHANGED <<clock, alive, delay, port, table, changes, quiet>>
  BY DEF PingAlarm, GoesOff
<1>2. \A m : m.kind = "dv" => (m \in net <=> m \in net')
  <2> SUFFICES ASSUME NEW m, m.kind = "dv", m \in net' PROVE m \in net
    BY <1>1
  <2>1. \A n : Pong(n).kind # "dv"
    OBVIOUS
  <2> HIDE DEF Pong
  <2> QED BY <2>1, <1>1
<1>3. \A k \in Router : /\ <<"dv", k>> \in due <=> <<"dv", k>> \in due'
                        /\ <<"expire", k>> \in due <=> <<"expire", k>> \in due'
  BY <1>1
<1> QED BY <1>1, <1>2, <1>3, NothingNewSettled DEF NothingNew

LEMMA PongSettled ==
    ASSUME Forest, Measured, TableInv, TableInv', LeavingInv, SettledInv,
           NEW m \in net, RecvPong(m)
    PROVE  SettledInv'
<1>1. quiet \in Nat /\ quiet' = quiet /\ clock' = clock /\ due' = due
  BY AgesAreNat DEF RecvPong, PongTakes, environment
<1>2. CASE quiet >= 3
  <2>1. m.kind = "pong" /\ table' = table /\ net' = net \ {m} /\ UNCHANGED environment
    BY <1>2, PongIsIdle
  <2>2. NothingNew
    BY <2>1 DEF NothingNew, environment
  <2> QED BY <2>2, NothingNewSettled
<1>3. CASE quiet < 3
  <2>1. DirectInv'
    BY <1>1, <1>3 DEF DirectInv
  <2>2. \A r \in Router : <<"dv", r>> \in due' => clock' = 0 /\ ExpireDue'
    BY <1>1 DEF SettledInv, SentInv, ExpireDue
  <2> QED BY <2>1, <2>2, <1>1, <1>3, EarlyNext
<1> QED BY <1>1, <1>2, <1>3

LEMMA TableMsgSettled ==
    ASSUME Forest, Measured, TableInv, TableInv', LeavingInv, LeavingInv', SettledInv,
           NEW m \in net, RecvTable(m)
    PROVE  SettledInv'
<1>1. quiet \in Nat /\ quiet' = quiet /\ clock' = clock /\ due' = due
  BY AgesAreNat DEF RecvTable, environment
<1>2. \A r \in Router : <<"dv", r>> \in due' => clock' = 0 /\ ExpireDue'
  BY <1>1 DEF SettledInv, SentInv, ExpireDue
<1>3. CASE quiet < 3
  <2>1. DirectInv'
    BY <1>1, <1>3 DEF DirectInv
  <2> QED BY <2>1, <1>1, <1>2, <1>3, EarlyNext
<1>4. CASE quiet >= 3
  <2>1. PICK s, r, w : HearsTable(m, s, r, w)
    BY <1>4, TableIsHeard
  <2>2. /\ m.kind = "dv" /\ m.to = r /\ r \in Router
        /\ net' = net \ {m} /\ UNCHANGED environment /\ table' = [table EXCEPT ![r] = w]
        /\ DirectOrSame(w, table[r], port[r])
        /\ table'[r] = w /\ \A k \in Router : k # r => table'[k] = table[k]
    BY <2>1 DEF HearsTable, TableInv, TypeOK
  <2>3. UNCHANGED <<clock, due, alive, delay, quiet>>
    BY <2>2 DEF environment
  <2>4. DirectInv'
    <3>1. ASSUME NEW k \in Router, NEW n \in Up(k)
          PROVE  table'[k].dv[n].cost = RoundTrip(k, n) \/ SameEntry(table'[k], table[k], n)
      <4>1. CASE k # r
        BY <4>1, <2>2 DEF SameEntry
      <4>2. CASE k = r
        <5>1. n \in Connected(port[r]) /\ port[r][n].cost = RoundTrip(r, n)
          BY <4>2, <1>4, QuietPorts
        <5> QED BY <4>2, <5>1, <2>2 DEF DirectOrSame
      <4> QED BY <4>1, <4>2
    <3> QED BY <3>1, <2>3, DirectNext DEF SettledInv
  <2>5. CASE quiet < 4
    BY <2>4, <2>5, <1>1, <1>2, EarlyNext
  <2>6. CASE quiet >= 4
    <3>1. FollowsAt(r)'
      BY <2>1, <2>6, HearsTableFollows
    <3>2. SettlesOne(r, w)
      BY <3>1, <2>2, <2>3 DEF SettlesOne, ExpireDue
    <3> QED BY <3>2, <2>4, <2>6, SettlesOneNext
  <2> QED BY <2>5, <2>6, <1>1
<1> QED BY <1>1, <1>3, <1>4

LEMMA ExpireSettled ==
    ASSUME Forest, Measured, TableInv, TableInv', LeavingInv, LeavingInv', SettledInv,
           NEW r \in Router, ExpireAlarm(r)
    PROVE  SettledInv'
<1>1. quiet \in Nat /\ quiet' = quiet
  BY AgesAreNat DEF ExpireAlarm
<1>2. due' \subseteq due /\ due' \subseteq {"expire"} \X Router
  <2>1. due \subseteq {"ping", "dv", "expire"} \X Router
    BY DEF TableInv, TypeOK
  <2>2. due' \subseteq due /\ \A a \in due : a[1] = "expire"
    BY DEF ExpireAlarm, GoesOff
  <2> QED BY <2>1, <2>2
<1>3. \A k \in Router : <<"dv", k>> \in due' => clock' = 0 /\ ExpireDue'
  BY <1>2
<1>4. CASE quiet < 3
  <2>1. DirectInv'
    BY <1>1, <1>4 DEF DirectInv
  <2> QED BY <2>1, <1>1, <1>3, <1>4, EarlyNext
<1>5. CASE quiet >= 3
  <2>1. PICK w : Expires(r, w) /\ (quiet >= 4 => ExpiresLate(r, w))
    BY <1>5, OldExpire DEF SettledInv
  <2>2. /\ table' = [table EXCEPT ![r] = w]
        /\ UNCHANGED <<clock, alive, delay, quiet>>
        /\ due' = due \ {<<"expire", r>>}
        /\ \A n \in Up(r) :
              w.dv[n].cost = RoundTrip(r, n) \/ (SameEntry(w, table[r], n) /\ table[r].age[n] < 10)
        /\ table'[r] = w /\ \A k \in Router : k # r => table'[k] = table[k]
    BY <2>1 DEF Expires, TableInv, TypeOK
  <2>3. DirectInv'
    <3>1. ASSUME NEW k \in Router, NEW n \in Up(k)
          PROVE  \/ table'[k].dv[n].cost = RoundTrip(k, n)
                 \/ /\ SameEntry(table'[k], table[k], n)
                    /\ (<<"expire", k>> \in due => <<"expire", k>> \in due') \/ table[k].age[n] < 10
      <4>1. CASE k # r
        BY <4>1, <2>2 DEF SameEntry
      <4>2. CASE k = r
        BY <4>2, <2>2
      <4> QED BY <4>1, <4>2
    <3> QED BY <3>1, <2>2, DirectNext DEF SettledInv
  <2>4. CASE quiet < 4
    BY <2>3, <2>4, <1>1, <1>3, EarlyNext
  <2>5. CASE quiet >= 4
    <3>1. ExpiresLate(r, w) /\ net' = net /\ \A m \in net : m.kind # "dv"
      BY <2>1, <2>5 DEF ExpiresLate
    <3>2. FollowsAt(r)'
      BY <2>1, <2>5, <3>1, ExpiresFollows
    <3>3. SettlesOne(r, w)
      BY <3>1, <3>2, <2>2, <1>2 DEF SettlesOne
    <3> QED BY <3>3, <2>3, <2>5, SettlesOneNext
  <2> QED BY <2>4, <2>5, <1>1
<1> QED BY <1>1, <1>4, <1>5

\* A table that leaves says what its sender knows, to all who follow it.
LEMMA DVAlarmSettled ==
    ASSUME Forest, Measured, TableInv, TableInv', LeavingInv, SettledInv,
           NEW r \in Router, DVAlarm(r)
    PROVE  SettledInv'
<1> DEFINE t == table[r]
           Told(n) == [d \in Router |->
               IF ~Has(t, d) THEN NotListed
               ELSE IF d # n /\ t.dv[d].nextHop = n THEN Infinity
               ELSE t.dv[d].cost]
           Sent(n) == [kind |-> "dv", from |-> r, to |-> n, costs |-> Told(n)]
           near == {n \in Connected(port[r]) : {r, n} \in alive}
<1>1. /\ <<"dv", r>> \in due /\ due' = due \ {<<"dv", r>>}
      /\ net' = net \union {Sent(n) : n \in near}
      /\ UNCHANGED <<clock, alive, delay, port, table, changes, quiet>>
  BY DEF DVAlarm, GoesOff, DV_sendUpdateMsg
<1>2. clock = 0 /\ ExpireDue /\ ExpireDue'
  BY <1>1 DEF SettledInv, SentInv, ExpireDue
<1>3. ASSUME NEW n, NEW d \in Router \ {r, n}, toward[r][d] # n
      PROVE  Told(n)[d] = IF Has(t, d) THEN t.dv[d].cost ELSE NotListed
  BY <1>3 DEF LeavingInv, WayInv, OnTheWay
<1> HIDE DEF Told
<1>4. DirectInv'
  <2>1. \A k \in Router : \A n \in Up(k) : SameEntry(table'[k], table[k], n)
    BY <1>1 DEF SameEntry
  <2>2. \A k \in Router : <<"expire", k>> \in due => <<"expire", k>> \in due'
    BY <1>1
  <2> QED BY <2>1, <2>2, <1>1, DirectNext DEF SettledInv
<1>5. ASSUME NEW k \in Router, <<"dv", k>> \in due' PROVE clock' = 0 /\ ExpireDue'
  BY <1>1, <1>2
<1>6. CASE quiet < 4
  BY <1>1, <1>4, <1>5, <1>6, EarlyNext
<1>7. CASE quiet >= 4
  <2>1. SentInv'
    <3> SUFFICES ASSUME NEW m \in net', m.kind = "dv" PROVE TellsRight(m)'
      BY <1>1, <1>2, <1>5 DEF SentInv
    <3>1. CASE m \in net
      BY <3>1, <1>1, <1>7 DEF SettledInv, SentInv, TellsRight
    <3>2. CASE m \notin net
      <4>1. PICK n \in near : m = Sent(n)
        BY <3>2, <1>1
      <4>2. m.from = r /\ m.to = n /\ m.costs = Told(n)
        BY <4>1
      <4> HIDE DEF Sent
      <4> QED BY <4>2, <1>1, <1>3 DEF TellsRight
    <3> QED BY <3>1, <3>2
  <2>2. NearInv'
    BY <1>1 DEF SettledInv, NearInv
  <2>3. FollowInv'
    <3>1. /\ \A k : Up(k)' = Up(k)
          /\ \A k, n : RoundTrip(k, n)' = RoundTrip(k, n)
      BY <1>1 DEF Up, RoundTrip
    <3> SUFFICES ASSUME NEW k \in Router, NEW n \in Up(k), NEW d \in Router \ {k, n},
                        toward[k][d] = n, quiet >= SettledBy(hops[n][d])
                 PROVE  Follows(k, d, n)' \/ FollowsSoon(k, d, n, SettledBy(hops[n][d]))'
      BY <1>1, <3>1 DEF FollowInv, FollowsAt
    <3>2. Follows(k, d, n) \/ FollowsSoon(k, d, n, SettledBy(hops[n][d]))
      BY DEF SettledInv, FollowInv, FollowsAt
    <3>3. n \in Router /\ {k, n} \in alive
      BY DEF Up, Neighbours
    <3>4. TableToCome(n, k) => TableToCome(n, k)'
      <4> SUFFICES ASSUME TableToCome(n, k) PROVE TableToCome(n, k)'
        OBVIOUS
      <4>1. CASE n = r
        <5>1. {n, k} = {k, n}
          OBVIOUS
        <5>2. k \in Up(r)
          BY <4>1, <5>1, <3>3 DEF Up, Neighbours, TableInv, TypeOK
        <5>3. k \in near
          BY <4>1, <5>1, <5>2, <3>3, <1>7, QuietPorts
        <5>4. Sent(k) \in net' /\ Sent(k).kind = "dv" /\ Sent(k).from = n /\ Sent(k).to = k
          BY <4>1, <5>3, <1>1
        <5> HIDE DEF Sent
        <5> QED BY <5>4, <1>1, <1>2 DEF TableToCome
      <4>2. CASE n # r
        BY <4>2, <1>1 DEF TableToCome
      <4> QED BY <4>1, <4>2
    <3>5. <<"expire", k>> \in due => <<"expire", k>> \in due'
      BY <1>1
    <3> QED BY <1>1, <3>1, <3>2, <3>4, <3>5 DEF Follows, FollowsSoon, Fading
  <2> QED BY <2>1, <2>2, <2>3, <1>4 DEF SettledInv
<1>8. quiet \in Nat
  BY AgesAreNat
<1> QED BY <1>6, <1>7, <1>8

\* A change or a loss.
LEMMA NetworkSettled ==
    ASSUME Measured, TableInv', SettledInv,
           \/ \E m \in net : Lose(m)
           \/ \E l \in Flaky : LinkDies(l) \/ LinkComesUp(l) \/ \E d \in Delays : ChangeDelay(l, d)
    PROVE  SettledInv'
<1>1. quiet' = 0 /\ clock' = clock /\ due' = due
  BY DEF Lose, LinkDies, LinkComesUp, ChangeDelay, Change
<1>2. DirectInv'
  BY <1>1 DEF DirectInv
<1>3. \A r \in Router : <<"dv", r>> \in due' => clock' = 0 /\ ExpireDue'
  BY <1>1 DEF SettledInv, SentInv, ExpireDue
<1> QED BY <1>1, <1>2, <1>3, EarlyNext

\* Entries are a tick older.
LEMMA TickEntries ==
    ASSUME TableInv, Tick
    PROVE  \A r, d \in Router :
              /\ table'[r].dv[d] = table[r].dv[d]
              /\ Has(table'[r], d) <=> Has(table[r], d)
              /\ Has(table[r], d) =>
                    table'[r].age[d] = IF table[r].age[d] < 10 THEN table[r].age[d] + 1 ELSE 10
<1> SUFFICES ASSUME NEW r \in Router
             PROVE  /\ table'[r].dv = table[r].dv
                    /\ \A d \in Router : Has(table[r], d) =>
                          table'[r].age[d] = IF table[r].age[d] < 10 THEN table[r].age[d] + 1 ELSE 10
  BY DEF Has
<1>1. table[r] \in Tables
  BY AgesAreNat
<1> DEFINE age == [d \in Router |-> IF Has(table[r], d) THEN Capped(table[r].age[d], ENTRY_AGE + 1) ELSE 0]
<1>2. table'[r] = [table[r] EXCEPT !.age = age]
  BY <1>1 DEF Tick, Tables
<1>3. table'[r].age = age /\ table'[r].dv = table[r].dv
  <2> HIDE DEF age
  <2> QED BY <1>1, <1>2 DEF Tables
<1> QED BY <1>3 DEF Capped, ENTRY_AGE

\* An entry that has not been renewed for as long as a tick goes on so.
LEMMA TickFades ==
    ASSUME TableInv, Tick, NEW r \in Router, NEW d \in Router, NEW since \in Nat,
           Has(table[r], d), quiet <= since \/ Fading(r, d, since)
    PROVE  Fading(r, d, since)'
<1>1. quiet \in Nat /\ quiet' \in Nat /\ quiet' <= quiet + 1
  BY AgesAreNat, NetworkAssumption DEF Tick, Capped
<1>2. table[r].age[d] \in 0..10
  BY AgesAreNat
<1>3. table'[r].age[d] = IF table[r].age[d] < 10 THEN table[r].age[d] + 1 ELSE 10
  BY TickEntries
<1>4. due = {} /\ <<"expire", r>> \in due'
  BY DEF Tick
<1>5. quiet <= since + table[r].age[d] /\ quiet # since + 10
  BY <1>1, <1>2, <1>4 DEF Fading, ENTRY_AGE
<1>6. quiet' <= since + table'[r].age[d]
  BY <1>1, <1>2, <1>3, <1>5
<1> QED BY <1>4, <1>6 DEF Fading

LEMMA TickSettled ==
    ASSUME Forest, Measured, TableInv, TableInv', LeavingInv, LeavingInv', SettledInv, Tick
    PROVE  SettledInv'
<1>1. (TableInv /\ LeavingInv =>
          /\ quiet >= 3 => \A r \in Router : \A n \in Up(r) :
                /\ n \in Router /\ n \in Connected(port[r])
                /\ port[r][n].cost = RoundTrip(r, n) /\ port[r][n].age < 3
          /\ quiet >= 4 => \A r \in Router : Connected(port[r]) = Up(r))'
  BY QuietPorts, PTL
<1>2. /\ due = {} /\ net = {} /\ net' = {} /\ clock' = (clock + 1) % 6
      /\ UNCHANGED <<alive, delay>>
      /\ clock' = 0 => \A r \in Router : <<"dv", r>> \in due'
  BY DEF Tick, DV_PERIOD
<1>3. quiet \in Nat /\ quiet' \in Nat /\ quiet' <= quiet + 1
  BY AgesAreNat, NetworkAssumption DEF Tick, Capped
<1>4. /\ \A r : Up(r)' = Up(r)
      /\ \A r, n : RoundTrip(r, n)' = RoundTrip(r, n)
  BY <1>2 DEF Up, RoundTrip
<1>5. \A r, d \in Router :
         /\ table'[r].dv[d] = table[r].dv[d]
         /\ Has(table'[r], d) <=> Has(table[r], d)
         /\ Has(table[r], d) =>
               table'[r].age[d] = IF table[r].age[d] < 10 THEN table[r].age[d] + 1 ELSE 10
  BY TickEntries
<1>6. clock \in 0..5 /\ (clock' = clock + 1 \/ (clock = 5 /\ clock' = 0))
  BY <1>2, AgesAreNat
<1>7. DirectInv'
  <2> SUFFICES ASSUME quiet' >= 3, NEW r \in Router, NEW n \in Up(r),
                      table[r].dv[n].cost # RoundTrip(r, n)
               PROVE  Fading(r, n, 2)'
    <3>1. \A r \in Router : \A n \in Up(r) : n \in Router
      BY DEF Up, Neighbours
    <3> QED BY <3>1, <1>4, <1>5 DEF DirectInv
  <2>1. n \in Router /\ n \in Connected(port'[r])
    BY <1>1, <1>4
  <2>2. Has(table[r], n)
    BY <2>1, <1>5 DEF TableInv, AllCover, Covers, CoversOne
  <2>3. quiet <= 2 \/ Fading(r, n, 2)
    BY <1>3 DEF SettledInv, DirectInv
  <2> QED BY <2>1, <2>2, <2>3, TickFades
<1>8. SentInv'
  <2>1. \A r \in Router : <<"dv", r>> \in due' => clock' = 0 /\ ExpireDue'
    BY DEF Tick, ExpireDue
  <2> QED BY <2>1, <1>2 DEF SentInv
<1>9. FollowInv'
  <2> SUFFICES ASSUME NEW r \in Router, NEW n \in Up(r), NEW d \in Router \ {r, n},
                      toward[r][d] = n, quiet' >= SettledBy(hops[n][d])
               PROVE  Follows(r, d, n)' \/ FollowsSoon(r, d, n, SettledBy(hops[n][d]))'
    BY <1>4 DEF FollowInv, FollowsAt
  <2> DEFINE since == SettledBy(hops[n][d])
  <2>1. n \in Router
    BY DEF Up, Neighbours
  <2>2. since \in Nat /\ since >= 1 /\ since - 1 \in Nat
    BY <2>1, HopsFacts DEF SettledBy
  <2>3. quiet >= since => Follows(r, d, n) \/ FollowsSoon(r, d, n, since)
    BY DEF SettledInv, FollowInv, FollowsAt
  <2>4. clock' = 0 => TableToCome(n, r)'
    BY <2>1, <1>2 DEF TableToCome
  <2>5. ~TableToCome(n, r)
    BY <1>2 DEF TableToCome
  <2>6. table[r].age[d] \in 0..10
    BY AgesAreNat
  <2> HIDE DEF since
  <2>7. CASE ~Has(table[n], d) /\ ~Has(table[r], d)
    BY <2>1, <2>7, <1>5 DEF Follows
  <2>8. CASE ~Has(table[n], d) /\ Has(table[r], d)
    <3>1. quiet <= since - 1 \/ Fading(r, d, since - 1)
      BY <2>2, <2>3, <2>8, <1>3 DEF Follows, FollowsSoon
    <3>2. Fading(r, d, since - 1)'
      BY <3>1, <2>2, <2>8, TickFades
    <3> QED BY <3>2, <2>1, <2>8, <1>5 DEF FollowsSoon, since
  <2>9. CASE Has(table[n], d) /\ quiet >= since /\ Follows(r, d, n)
    <3>1. Has(table[r], d) /\ table[r].dv[d].cost = RoundTrip(r, n) + table[n].dv[d].cost
            /\ table[r].age[d] <= clock
      BY <2>5, <2>9 DEF Follows
    <3>2. table'[r].age[d] = table[r].age[d] + 1
      BY <3>1, <2>6, <1>5, <1>6
    <3>3. table'[r].age[d] <= clock' \/ (TableToCome(n, r)' /\ table'[r].age[d] <= 6)
      BY <3>1, <3>2, <2>4, <2>6, <1>6
    <3> QED BY <3>1, <3>3, <2>1, <2>9, <1>4, <1>5 DEF Follows, DV_PERIOD
  <2>10. CASE Has(table[n], d) /\ (quiet < since \/ FollowsSoon(r, d, n, since))
    <3>1. quiet < since + clock
      BY <2>2, <2>5, <2>10, <1>3, <1>6 DEF FollowsSoon
    <3>2. quiet' < since + clock' \/ (TableToCome(n, r)' /\ quiet' < since + 6)
      BY <3>1, <2>2, <2>4, <1>3, <1>6
    <3> QED BY <3>2, <2>1, <2>10, <1>5 DEF FollowsSoon, DV_PERIOD, since
  <2> QED BY <2>2, <2>3, <2>7, <2>8, <2>9, <2>10, <1>3
<1>10. NearInv'
  <2> SUFFICES ASSUME NEW r \in Router, NEW d \in Router, Has(table'[r], d),
                      quiet' >= SettledBy(hops[r][d])
               PROVE  table'[r].dv[d].cost <= Reach(r, d)
    BY DEF NearInv
  <2> DEFINE n == toward[r][d]
  <2>1. d # r
    BY DEF LeavingInv, WayInv, OnTheWay
  <2>2. EntryIsRight(r, d, n)'
    BY <2>1, <1>7, <1>9, SettledEntryNext DEF FollowInv
  <2> HIDE DEF n
  <2>3. n \in Up(r)
    BY <2>2, <1>4 DEF EntryIsRight
  <2>4. n \in Router /\ {r, n} \in Link /\ RoundTrip(r, n) \in Nat /\ RoundTrip(r, n) <= Trip
    BY <2>3, UpIsNear
  <2>5. Trip \in Nat /\ Reach(r, d) \in Nat /\ Trip <= Reach(r, d)
    BY HopsFacts
  <2>6. CASE d = n
    <3>1. table'[r].dv[d].cost = RoundTrip(r, n)
      BY <2>2, <2>3, <2>6, <1>4 DEF EntryIsRight
    <3> QED BY <3>1, <2>4, <2>5
  <2>7. CASE d # n
    <3>1. Has(table'[n], d) /\ table'[r].dv[d].cost = RoundTrip(r, n) + table'[n].dv[d].cost
      BY <2>2, <2>3, <2>7, <1>4 DEF EntryIsRight, Follows
    <3>2. hops[n][d] \in Nat /\ hops[r][d] \in Nat /\ hops[n][d] < hops[r][d]
            /\ Reach(n, d) + Trip <= Reach(r, d) /\ Reach(n, d) \in Nat
      BY <2>1, <2>4, <2>7, HopsFacts DEF n
    <3>3. quiet >= SettledBy(hops[n][d])
      BY <3>2, <1>3 DEF SettledBy
    <3>4. table[n].dv[d].cost <= Reach(n, d) /\ table[n].dv[d].cost \in Nat
      BY <3>1, <3>3, <2>4, <1>5, NetworkAssumption
         DEF SettledInv, NearInv, TableInv, TypeOK, Tables
    <3>5. table'[n].dv[d].cost = table[n].dv[d].cost
      BY <2>4, <1>5
    <3> DEFINE c == table[n].dv[d].cost
    <3> HIDE DEF c
    <3>6. table'[r].dv[d].cost = RoundTrip(r, n) + c /\ c <= Reach(n, d) /\ c \in Nat
      BY <3>1, <3>4, <3>5 DEF c
    <3> QED BY <3>2, <3>6, <2>4, <2>5
  <2> QED BY <2>6, <2>7
<1> QED BY <1>7, <1>8, <1>9, <1>10 DEF SettledInv

\* In a network without cycles everything is right link by link: from 15 s on
\* after the last change or loss the ports and the direct routes, and 50 s later
\* for every link the routes over it (DV.cc 32-125, 173-303; PINGPONG.cc 47-65).
THEOREM SettledInvariance == ASSUME Forest, Measured PROVE Spec => []SettledInv
<1>1. Init => SettledInv
  BY InitSettled
<1>2. TableInv /\ TableInv' /\ LeavingInv /\ LeavingInv' /\ SettledInv /\ [Next]_vars => SettledInv'
  <2> SUFFICES ASSUME TableInv, TableInv', LeavingInv, LeavingInv', SettledInv, [Next]_vars
               PROVE  SettledInv'
    OBVIOUS
  <2>1. CASE \E m \in net : Deliver(m)
    BY <2>1, PongSettled, TableMsgSettled DEF Deliver
  <2>2. CASE \E r \in Router : Alarm(r)
    BY <2>2, PingSettled, DVAlarmSettled, ExpireSettled DEF Alarm
  <2>3. CASE \/ \E m \in net : Lose(m)
             \/ \E l \in Flaky : LinkDies(l) \/ LinkComesUp(l) \/ \E d \in Delays : ChangeDelay(l, d)
    BY <2>3, NetworkSettled
  <2>4. CASE Tick
    BY <2>4, TickSettled
  <2>5. CASE UNCHANGED vars
    <3>1. NothingNew
      BY <2>5 DEF vars, NothingNew
    <3> QED BY <3>1, NothingNewSettled
  <2> QED BY <2>1, <2>2, <2>3, <2>4, <2>5 DEF Next
<1> QED BY <1>1, <1>2, TableInvariance, LeavingInvariance, PTL DEF Spec

\* When every entry has settled, none can be had cheaper.
LEMMA SettledIsShortest ==
    Forest /\ Measured /\ TableInv /\ LeavingInv /\ SettledInv => BestPathIsRecorded
<1> SUFFICES ASSUME Forest, Measured, TableInv, LeavingInv, SettledInv, quiet >= Settle,
                    NEW r \in Router, NEW d \in Router, r # d
             PROVE  /\ \A n \in Up(r) : Distance(r, d) <= RoundTrip(r, n) + Distance(n, d)
                    /\ Has(table[r], d) =>
                          LET n == table[r].dv[d].nextHop
                          IN  n \in Up(r) /\ Distance(r, d) = RoundTrip(r, n) + Distance(n, d)
  BY DEF BestPathIsRecorded, RoutesAreShortest
<1>1. ASSUME NEW k \in Router, NEW e \in Router \ {k} PROVE EntryIsRight(k, e, toward[k][e])
  <2>1. SettledBy(hops[k][e]) <= Settle /\ hops[k][e] \in Nat /\ quiet \in Nat /\ Settle \in Nat
    BY HopsFacts, AgesAreNat, NetworkAssumption
  <2>2. quiet >= SettledBy(hops[k][e])
    BY <2>1 DEF SettledBy
  <2> QED BY <2>2, SettledEntry DEF EntriesSettle, SettledInv, FollowInv
<1>2. \A k, e \in Router : Has(table[k], e) => table[k].dv[e].cost \in Nat
  BY NetworkAssumption DEF TableInv, TypeOK, Tables
<1>3. ASSUME NEW n \in Up(r) PROVE Distance(r, d) <= RoundTrip(r, n) + Distance(n, d)
  <2>1. /\ n \in Router /\ {r, n} \in Link /\ n # r /\ toward[r][n] = n
        /\ RoundTrip(r, n) \in Nat
    BY <1>3, UpIsNear
  <2>2. CASE d = n
    <3>1. Has(table[r], d) /\ table[r].dv[d].cost = RoundTrip(r, n)
      BY <2>1, <2>2, <1>1, <1>3 DEF EntryIsRight
    <3> QED BY <3>1, <2>1, <2>2 DEF Distance
  <2>3. CASE d # n /\ toward[r][d] = n
    <3>1. Follows(r, d, n)
      BY <2>3, <1>1, <1>3 DEF EntryIsRight
    <3>2. CASE Has(table[n], d)
      <4>1. Distance(r, d) = RoundTrip(r, n) + Distance(n, d)
        BY <3>1, <3>2, <2>3 DEF Follows, Distance
      <4>2. Distance(n, d) \in Nat
        BY <3>2, <2>1, <2>3, <1>2 DEF Distance
      <4> QED BY <4>1, <4>2, <2>1
    <3>3. CASE ~Has(table[n], d)
      <4>1. Distance(r, d) = Infinity /\ Distance(n, d) = Infinity
        BY <3>1, <3>3, <2>3 DEF Follows, Distance
      <4> QED BY <4>1, <2>1, NetworkAssumption
    <3> QED BY <3>2, <3>3
  <2>4. CASE d # n /\ toward[r][d] # n
    <3>1. toward[n][d] = r
      BY <2>1, <2>4, TowardIsWay DEF IsToward
    <3>2. {n, r} = {r, n}
      OBVIOUS
    <3>3. r \in Up(n) /\ RoundTrip(n, r) = RoundTrip(r, n)
      BY <3>2, <2>1, <1>3, UpIsNear DEF Up, Neighbours, RoundTrip
    <3>4. Follows(n, d, r)
      BY <3>1, <3>3, <2>1, <2>4, <1>1 DEF EntryIsRight
    <3>5. CASE Has(table[r], d)
      <4>1. Distance(n, d) = RoundTrip(r, n) + Distance(r, d)
        BY <3>3, <3>4, <3>5, <2>4 DEF Follows, Distance
      <4>2. Distance(r, d) \in Nat
        BY <3>5, <1>2 DEF Distance
      <4> QED BY <4>1, <4>2, <2>1
    <3>6. CASE ~Has(table[r], d)
      <4>1. Distance(r, d) = Infinity /\ Distance(n, d) = Infinity
        BY <3>4, <3>6, <2>4 DEF Follows, Distance
      <4> QED BY <4>1, <2>1, NetworkAssumption
    <3> QED BY <3>5, <3>6
  <2> QED BY <2>2, <2>3, <2>4
<1>4. ASSUME Has(table[r], d)
      PROVE  LET n == table[r].dv[d].nextHop
             IN  n \in Up(r) /\ Distance(r, d) = RoundTrip(r, n) + Distance(n, d)
  <2> DEFINE n == table[r].dv[d].nextHop
  <2>1. n = toward[r][d]
    BY <1>4 DEF LeavingInv, WayInv, OnTheWay
  <2>2. EntryIsRight(r, d, n)
    BY <2>1, <1>1
  <2> HIDE DEF n
  <2>3. n \in Up(r)
    BY <2>2, <1>4 DEF EntryIsRight
  <2>4. CASE d = n
    <3>1. RoundTrip(r, n) \in Nat
      BY <2>3, UpIsNear
    <3> QED BY <3>1, <2>2, <2>3, <2>4, <1>4 DEF EntryIsRight, Distance, n
  <2>5. CASE d # n
    <3>1. Follows(r, d, n)
      BY <2>2, <2>3, <2>5 DEF EntryIsRight
    <3>2. Has(table[n], d) /\ table[r].dv[d].cost = RoundTrip(r, n) + table[n].dv[d].cost
      BY <3>1, <1>4 DEF Follows
    <3> QED BY <3>2, <2>3, <2>5, <1>4 DEF Distance, n
  <2> QED BY <2>4, <2>5
<1> QED BY <1>3, <1>4

\* In every network without cycles the best path is recorded: if no way has more
\* than Far links and 16 bits hold the cost of Far links, then 15 s and 50 s for
\* each of them after the last change or loss every table is right, whatever costs
\* were wrong in between and whatever was lost (DV.cc 32-125, 173-303;
\* PINGPONG.cc 47-65).
THEOREM BestPathInForests ==
    ASSUME Forest, NEW Far \in Nat, NEW trip \in Nat,
           \E k \in [Router -> [Router -> 1..Far]] : Closer(k),
           \A e \in Delays : e + e <= trip, Far * trip < Infinity, Settle >= 3 + 10 * Far
    PROVE  Spec => []BestPathIsRecorded
<1>1. Measured
  <2>1. PICK k \in [Router -> [Router -> 1..Far]] : Closer(k)
    OBVIOUS
  <2>2. \A r, d \in Router : k[r][d] \in 1..Far
    OBVIOUS
  <2>3. ASSUME NEW j \in 1..Far PROVE SettledBy(j) <= Settle /\ j * trip < Infinity
    <3>1. SettledBy(j) <= Settle
      BY NetworkAssumption DEF SettledBy
    <3>2. Far - j \in Nat /\ (Far - j) * trip \in Nat
      OBVIOUS
    <3>3. Far * trip = j * trip + (Far - j) * trip /\ j * trip \in Nat /\ Far * trip \in Nat
      OBVIOUS
    <3> QED BY <3>1, <3>2, <3>3, NetworkAssumption
  <2>4. HasRoom(k, trip)
    BY <2>2, <2>3 DEF HasRoom
  <2>5. k \in [Router -> [Router -> Nat \ {0}]]
    BY <2>2
  <2> QED BY <2>1, <2>4, <2>5 DEF Measured, IsHops
<1>2. Spec => []TableInv /\ []LeavingInv /\ []SettledInv
  BY <1>1, TableInvariance, LeavingInvariance, SettledInvariance
<1>3. TableInv /\ LeavingInv /\ SettledInv => BestPathIsRecorded
  BY <1>1, SettledIsShortest
<1> QED BY <1>2, <1>3, PTL
=============================================================================
