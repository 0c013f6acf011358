--------------------------- MODULE DijkstraProofs ---------------------------
(***************************************************************************)
(* Dijkstra of LS.cc, for every topology whose ids are within the arrays:   *)
(* what the search keeps, that it finds cheapest walks (by induction on     *)
(* their links), and that the table sends by the first of their links.      *)
(***************************************************************************)
EXTENDS Dijkstra, TLAPS, FiniteSetTheorems, WellFoundedInduction

Matrix == [Ids -> [Ids -> Costs \union {NoLink}]]

\* Every set of naturals that is not empty has a least element.
LEMMA LeastNat ==
  ASSUME NEW S \in SUBSET Nat, S # {}
  PROVE  \E m \in S : \A n \in S : m <= n
  <1> DEFINE below(n) == 0..n
             initials == {below(n) : n \in S}
  <1>1. initials \subseteq FiniteSubsetsOf(Nat) /\ initials # {}
    <2>1. \A n \in S : below(n) \in SUBSET Nat /\ IsFiniteSet(below(n))
      BY FS_Interval
    <2> QED BY <2>1 DEF FiniteSubsetsOf
  <1>2. \E t \in initials : \A u \in initials : <<u, t>> \notin StrictSubsetOrdering(Nat)
    <2> HIDE DEF initials
    <2> QED BY <1>1, FS_StrictSubsetOrderingWellFounded, WFMin
  <1>3. PICK m \in S : \A u \in initials : <<u, below(m)>> \notin StrictSubsetOrdering(Nat)
    BY <1>2
  <1>4. SUFFICES ASSUME NEW n \in S, n < m PROVE FALSE
    BY DEF initials
  <1>5. /\ below(n) \in SUBSET Nat /\ below(m) \in SUBSET Nat
        /\ below(n) \subseteq below(m) /\ m \in below(m) \ below(n)
    BY <1>4
  <1>6. <<below(n), below(m)>> \in StrictSubsetOrdering(Nat)
    BY <1>5 DEF StrictSubsetOrdering
  <1> QED BY <1>3, <1>6

\* Induction up to a bound, on a set of naturals.
LEMMA Induction ==
  ASSUME NEW K \in Nat, NEW S, 0 \in S, \A k \in 1..K : k - 1 \in S => k \in S
  PROVE  \A k \in 0..K : k \in S
  <1> DEFINE wrong == (0..K) \ S
  <1>1. SUFFICES ASSUME wrong # {} PROVE FALSE
    OBVIOUS
  <1>2. PICK n \in wrong : \A m \in wrong : n <= m
    <2>1. wrong \in SUBSET Nat
      OBVIOUS
    <2> HIDE DEF wrong
    <2> QED BY <1>1, <2>1, LeastNat
  <1>3. n \in 1..K /\ n - 1 \in 0..K /\ n - 1 \notin wrong
    BY <1>2
  <1> QED BY <1>2, <1>3

\* What is given step by step exists: a function that starts from c and goes on
\* by step.
IsIteration(f, n, D, c, step) ==
    /\ f \in [0..n -> D] /\ f[0] = c
    /\ \A k \in 1..n : f[k] = step[k][f[k - 1]]

LEMMA Iteration ==
  ASSUME NEW K \in Nat, NEW D, NEW c \in D, NEW step \in [1..K -> [D -> D]]
  PROVE  \E f : IsIteration(f, K, D, c, step)
  <1> DEFINE upTo(f, n) == IsIteration(f, n, D, c, step)
             found == {n \in 0..K : \E f : upTo(f, n)}
  <1>1. 0 \in found
    <2>1. upTo([i \in 0..0 |-> c], 0)
      BY DEF IsIteration
    <2> QED BY <2>1
  <1>2. ASSUME NEW n \in 1..K, n - 1 \in found PROVE n \in found
    <2>1. PICK f : upTo(f, n - 1)
      BY <1>2
    <2> DEFINE g == [i \in 0..n |-> IF i = n THEN step[n][f[n - 1]] ELSE f[i]]
    <2>2. f[n - 1] \in D /\ step[n] \in [D -> D]
      BY <2>1 DEF IsIteration
    <2>3. \A i \in 0..(n - 1) : f[i] \in D
      BY <2>1 DEF IsIteration
    <2>4. g \in [0..n -> D]
      BY <2>2, <2>3
    <2>5. g[0] = c
      BY <2>1 DEF IsIteration
    <2>6. ASSUME NEW k \in 1..n PROVE g[k] = step[k][g[k - 1]]
      <3>1. CASE k = n
        BY <3>1
      <3>2. CASE k # n
        <4>1. k \in 1..(n - 1) /\ k \in 0..(n - 1) /\ k - 1 \in 0..(n - 1) /\ k - 1 # n
          BY <3>2
        <4>2. g[k] = f[k] /\ g[k - 1] = f[k - 1]
          BY <4>1, <3>2
        <4> QED BY <4>1, <4>2, <2>1 DEF IsIteration
      <3> QED BY <3>1, <3>2
    <2>7. upTo(g, n)
      <3> HIDE DEF g
      <3> QED BY <2>4, <2>5, <2>6 DEF IsIteration
    <2> QED BY <2>7
  <1>3. K \in found
    <2>1. K \in 0..K
      OBVIOUS
    <2> HIDE DEF found
    <2> QED BY <1>1, <1>2, <2>1, Induction
  <1> QED BY <1>3

\* The scan finds a nearest router among those not visited, if any of them has
\* been reached, and leaves node_curr as it is otherwise (LS.cc 211-217, 233-239).
LEMMA NearestIsNearest ==
  ASSUME NEW vis, NEW dist \in [Ids -> 0..Infinity], NEW curr
  PROVE  LET open == {i \in Ids \ vis : dist[i] < Infinity}
             n == Nearest(vis, dist, curr)
         IN  \/ open = {} /\ n = curr
             \/ n \in open /\ \A j \in open : dist[n] <= dist[j]
  <1> USE DijkstraAssumption
  <1> DEFINE open == {i \in Ids \ vis : dist[i] < Infinity}
             nearest == {i \in open : \A j \in open : dist[i] < dist[j] \/ (dist[i] = dist[j] /\ i <= j)}
  <1>1. CASE open = {}
    BY <1>1 DEF Nearest
  <1>2. CASE open # {}
    <2>1. \A i \in open : dist[i] \in Nat /\ i \in Nat
      BY DEF Ids
    <2> DEFINE ds == {dist[i] : i \in open}
    <2>2. PICK d \in ds : \A e \in ds : d <= e
      <3>1. ds \in SUBSET Nat /\ ds # {}
        BY <1>2, <2>1
      <3> HIDE DEF ds
      <3> QED BY <3>1, LeastNat
    <2> DEFINE ties == {i \in open : dist[i] = d}
    <2>3. ties # {} /\ ties \subseteq Nat
      BY <2>1, <2>2
    <2>4. PICK i \in ties : \A j \in ties : i <= j
      <3> HIDE DEF ties
      <3> QED BY <2>3, LeastNat
    <2>5. ASSUME NEW j \in open PROVE dist[i] < dist[j] \/ (dist[i] = dist[j] /\ i <= j)
      <3>1. dist[i] = d /\ dist[i] <= dist[j] /\ dist[j] \in Nat /\ dist[i] \in Nat
        BY <2>1, <2>2, <2>4
      <3>2. CASE dist[j] = d
        BY <3>1, <3>2, <2>4
      <3>3. CASE dist[j] # d
        BY <3>1, <3>3
      <3> QED BY <3>2, <3>3
    <2>6. i \in nearest
      BY <2>4, <2>5
    <2>7. Nearest(vis, dist, curr) \in nearest
      BY <2>6 DEF Nearest
    <2>8. \A j \in open : dist[Nearest(vis, dist, curr)] <= dist[j]
      BY <2>7, <2>1
    <2> QED BY <2>7, <2>8
  <1> QED BY <1>1, <1>2

\* What a link costs is a distance (LS.cc 195-210).
LEMMA CostsInRange == \A c \in Costs : c \in 0..Infinity /\ c < Infinity
  BY DijkstraAssumption

-----------------------------------------------------------------------------
\* The arrays as the ports fill them (LS.cc 195-217).
LEMMA InitDijkstra == Init => DijkstraInv
  <1> USE DijkstraAssumption
  <1> SUFFICES ASSUME Init PROVE DijkstraInv
    OBVIOUS
  <1>1. cost \in Matrix /\ finished \in BOOLEAN /\ ~finished
    BY DEF Init, Matrix
  <1>2. /\ visited = {router_id} /\ router_id \in Ids
        /\ \A v \in Ids : IsLink(router_id, v) => cost[router_id][v] \in Costs
    BY <1>1 DEF Init, IsLink, Matrix
  <1>3. /\ distance \in [Ids -> 0..Infinity] /\ distance[router_id] = 0
        /\ \A v \in Ids \ {router_id} :
              distance[v] = IF IsLink(router_id, v) THEN cost[router_id][v] ELSE Infinity
    <2>1. \A v \in Ids : IsLink(router_id, v) => cost[router_id][v] \in 0..Infinity
      BY <1>2, CostsInRange
    <2> QED BY <2>1, <1>2 DEF Init
  <1>4. /\ parent \in [Ids -> Ids \union {NoParent}]
        /\ \A v \in Ids \ {router_id} :
              parent[v] = IF IsLink(router_id, v) THEN router_id ELSE NoParent
    BY <1>2 DEF Init
  <1>5. \A v \in Ids : distance[v] \in 0..Infinity
    BY <1>3
  <1>6. \A u \in visited, v \in Ids \ visited : distance[u] <= distance[v]
    BY <1>2, <1>3, <1>5
  <1>7. \A u \in visited, v \in Ids : IsLink(u, v) => distance[v] <= distance[u] + cost[u][v]
    <2> SUFFICES ASSUME NEW v \in Ids, IsLink(router_id, v)
                 PROVE  distance[v] <= distance[router_id] + cost[router_id][v]
      BY <1>2
    <2>1. cost[router_id][v] \in Nat
      BY <1>2
    <2> QED BY <2>1, <1>3
  <1>8. \A v \in Ids \ {router_id} : distance[v] < Infinity =>
            /\ parent[v] \in visited /\ IsLink(parent[v], v)
            /\ distance[v] = distance[parent[v]] + cost[parent[v]][v]
    BY <1>2, <1>3, <1>4
  <1>9. /\ node_curr \in Ids
        /\ \/ /\ node_curr \notin visited /\ distance[node_curr] < Infinity
              /\ \A v \in Ids \ visited : distance[node_curr] <= distance[v]
           \/ node_curr \in visited /\ \A v \in Ids \ visited : distance[v] = Infinity
    <2> DEFINE open == {i \in Ids \ visited : distance[i] < Infinity}
    <2>1. node_curr = Nearest(visited, distance, router_id)
      BY DEF Init
    <2>2. \/ open = {} /\ node_curr = router_id
          \/ node_curr \in open /\ \A j \in open : distance[node_curr] <= distance[j]
      BY <2>1, <1>3, NearestIsNearest
    <2>3. \A v \in Ids \ visited : v \in open \/ distance[v] = Infinity
      BY <1>5
    <2>4. CASE open = {} /\ node_curr = router_id
      BY <2>3, <2>4, <1>2
    <2>5. CASE node_curr \in open /\ \A j \in open : distance[node_curr] <= distance[j]
      <3>1. ASSUME NEW v \in Ids \ visited PROVE distance[node_curr] <= distance[v]
        BY <2>3, <2>5, <1>5
      <3> QED BY <2>5, <3>1
    <2> QED BY <2>2, <2>4, <2>5
  <1> QED BY <1>1, <1>2, <1>3, <1>4, <1>6, <1>7, <1>8, <1>9 DEF DijkstraInv, Matrix

\* One pass of the main loop (LS.cc 219-240).
LEMMA VisitStep == DijkstraInv /\ Visit => DijkstraInv'
  <1> USE DijkstraAssumption
  <1> SUFFICES ASSUME DijkstraInv, Visit PROVE DijkstraInv'
    OBVIOUS
  <1> DEFINE u == node_curr
  <1>1. /\ u \in Ids \ visited /\ distance[u] < Infinity
        /\ \A v \in Ids \ visited : distance[u] <= distance[v]
        /\ ~finished
    BY DEF DijkstraInv, Visit
  <1>2. /\ cost' = cost /\ finished' = finished /\ visited' = visited \union {u}
        /\ distance' = [v \in Ids |-> IF IsNearer(u, v) THEN distance[u] + cost[u][v] ELSE distance[v]]
        /\ parent' = [v \in Ids |-> IF IsNearer(u, v) THEN u ELSE parent[v]]
        /\ node_curr' = Nearest(visited', distance', node_curr)
    BY DEF Visit
  <1>3. /\ \A x, v \in Ids : IsLink(x, v) => cost[x][v] \in Nat
        /\ \A v \in Ids : distance[v] \in 0..Infinity
        /\ \A x \in visited : x \in Ids /\ distance[x] <= distance[u]
    <2>1. ASSUME NEW x \in Ids, NEW v \in Ids, IsLink(x, v) PROVE cost[x][v] \in Nat
      <3>1. cost[x][v] \in Costs
        BY <2>1 DEF DijkstraInv, IsLink
      <3> QED BY <3>1
    <2> QED BY <1>1, <2>1 DEF DijkstraInv
  <1>4. \A x, v : IsLink(x, v)' <=> IsLink(x, v)
    BY <1>2 DEF IsLink
  <1>5. /\ \A v \in Ids : /\ distance'[v] \in 0..Infinity /\ distance'[v] <= distance[v]
                          /\ IsLink(u, v) => distance'[v] <= distance[u] + cost[u][v]
                          /\ distance'[v] # distance[v] => IsNearer(u, v)
        /\ \A v \in Ids : IsNearer(u, v) => distance'[v] = distance[u] + cost[u][v]
    BY <1>1, <1>2, <1>3 DEF IsNearer
  <1>6. \A x \in visited' : x \in Ids /\ distance'[x] = distance[x] /\ distance[x] <= distance[u]
    BY <1>1, <1>2, <1>3, <1>5 DEF IsNearer
  <1>7. \A v \in Ids \ visited' : distance[u] <= distance'[v]
    BY <1>1, <1>2, <1>3, <1>5 DEF IsNearer
  <1>8. /\ cost' \in [Ids -> [Ids -> Costs \union {NoLink}]] /\ finished' \in BOOLEAN
        /\ visited' \subseteq Ids /\ router_id \in visited'
        /\ distance' \in [Ids -> 0..Infinity] /\ distance'[router_id] = 0
        /\ parent' \in [Ids -> Ids \union {NoParent}]
    <2>1. router_id \in visited' /\ distance'[router_id] = 0
      BY <1>2, <1>6 DEF DijkstraInv
    <2>2. distance' \in [Ids -> 0..Infinity]
      BY <1>2, <1>5
    <2>3. parent' \in [Ids -> Ids \union {NoParent}]
      BY <1>1, <1>2 DEF DijkstraInv
    <2> QED BY <1>1, <1>2, <2>1, <2>2, <2>3 DEF DijkstraInv
  <1>9. /\ \A x \in visited' : distance'[x] < Infinity
        /\ \A x \in visited', v \in Ids \ visited' : distance'[x] <= distance'[v]
    BY <1>1, <1>3, <1>5, <1>6, <1>7
  <1>10. \A x \in visited', v \in Ids : IsLink(x, v) => distance'[v] <= distance'[x] + cost[x][v]
    <2> SUFFICES ASSUME NEW x \in visited', NEW v \in Ids, IsLink(x, v)
                 PROVE  distance'[v] <= distance'[x] + cost[x][v]
      OBVIOUS
    <2>1. CASE x = u
      BY <2>1, <1>5, <1>6
    <2>2. CASE x \in visited
      <3>1. distance[v] <= distance[x] + cost[x][v]
        BY <2>2 DEF DijkstraInv
      <3> QED BY <3>1, <1>3, <1>5, <1>6
    <2> QED BY <2>1, <2>2, <1>2
  <1>11. \A v \in Ids \ {router_id} : distance'[v] < Infinity =>
            /\ parent'[v] \in visited' /\ IsLink(parent'[v], v)
            /\ distance'[v] = distance'[parent'[v]] + cost[parent'[v]][v]
    <2> SUFFICES ASSUME NEW v \in Ids \ {router_id}, distance'[v] < Infinity
                 PROVE  /\ parent'[v] \in visited' /\ IsLink(parent'[v], v)
                        /\ distance'[v] = distance'[parent'[v]] + cost[parent'[v]][v]
      OBVIOUS
    <2>1. CASE IsNearer(u, v)
      <3>1. parent'[v] = u /\ u \in visited' /\ IsLink(u, v) /\ distance'[u] = distance[u]
        BY <2>1, <1>2, <1>6 DEF IsNearer
      <3> QED BY <3>1, <2>1, <1>5
    <2>2. CASE ~IsNearer(u, v)
      <3>1. parent'[v] = parent[v] /\ distance'[v] = distance[v]
        BY <2>2, <1>2
      <3>2. /\ parent[v] \in visited /\ IsLink(parent[v], v)
            /\ distance[v] = distance[parent[v]] + cost[parent[v]][v]
        BY <3>1 DEF DijkstraInv
      <3>3. parent[v] \in visited' /\ distance'[parent[v]] = distance[parent[v]]
        BY <3>2, <1>2, <1>6
      <3> QED BY <3>1, <3>2, <3>3
    <2> QED BY <2>1, <2>2
  <1>12. /\ node_curr' \in Ids
         /\ \/ /\ node_curr' \notin visited' /\ distance'[node_curr'] < Infinity
               /\ \A v \in Ids \ visited' : distance'[node_curr'] <= distance'[v]
            \/ node_curr' \in visited' /\ \A v \in Ids \ visited' : distance'[v] = Infinity
    <2> DEFINE open == {i \in Ids \ visited' : distance'[i] < Infinity}
    <2>1. \/ open = {} /\ node_curr' = u
          \/ node_curr' \in open /\ \A j \in open : distance'[node_curr'] <= distance'[j]
      <3>1. \A vis, curr : \A dist \in [Ids -> 0..Infinity] :
               LET op == {i \in Ids \ vis : dist[i] < Infinity}
                   n == Nearest(vis, dist, curr)
               IN  \/ op = {} /\ n = curr
                   \/ n \in op /\ \A j \in op : dist[n] <= dist[j]
        BY NearestIsNearest
      <3>2. distance' \in [Ids -> 0..Infinity]
        BY <1>8
      <3> QED BY <1>2, <3>1, <3>2
    <2>2. CASE open = {} /\ node_curr' = u
      <3>1. ASSUME NEW v \in Ids \ visited' PROVE distance'[v] = Infinity
        <4>1. ~(distance'[v] < Infinity) /\ distance'[v] \in 0..Infinity
          BY <2>2, <1>5
        <4> QED BY <4>1
      <3> QED BY <2>2, <3>1, <1>1, <1>2
    <2>3. CASE node_curr' \in open /\ \A j \in open : distance'[node_curr'] <= distance'[j]
      BY <2>3, <1>5
    <2> QED BY <2>1, <2>2, <2>3
  <1>13. ~finished'
    BY <1>1, <1>2
  <1> QED BY <1>2, <1>4, <1>8, <1>9, <1>10, <1>11, <1>12, <1>13 DEF DijkstraInv

\* What is visited is nearer than what is not, and no link from there makes a way
\* shorter, from the first pass to the last (LS.cc 195-240).
THEOREM DijkstraInvariance == Spec => []DijkstraInv
  <1>1. Init => DijkstraInv
    BY InitDijkstra
  <1>2. DijkstraInv /\ [Next]_vars => DijkstraInv'
    <2> SUFFICES ASSUME DijkstraInv, [Next]_vars PROVE DijkstraInv'
      OBVIOUS
    <2>1. CASE Visit
      BY <2>1, VisitStep
    <2>2. CASE Finish
      BY <2>2 DEF Finish, DijkstraInv, IsLink
    <2>3. CASE UNCHANGED vars
      BY <2>3 DEF vars, DijkstraInv, IsLink
    <2> QED BY <2>1, <2>2, <2>3 DEF Next
  <1> QED BY <1>1, <1>2, PTL DEF Spec

\* At the end no link of the topology makes a way shorter, and each way is that
\* of its parent and one link more (LS.cc 219-240).
THEOREM WaysAreTight == Spec => []DistancesAreTight
  <1>1. DijkstraInv => DistancesAreTight
    <2> SUFFICES ASSUME DijkstraInv, finished PROVE DistancesAreTight
      BY DEF DistancesAreTight
    <2>1. \A v \in Ids : distance[v] < Infinity => v \in visited
      <3>1. \A v \in Ids \ visited : distance[v] = Infinity
        BY DEF DijkstraInv
      <3> QED BY <3>1, DijkstraAssumption
    <2> QED BY <2>1 DEF DijkstraInv, DistancesAreTight
  <1> QED BY <1>1, DijkstraInvariance, PTL

-----------------------------------------------------------------------------
\* The least element of a set of naturals is in it, and nothing is less.
LEMMA MinIsLeast ==
  ASSUME NEW S \in SUBSET Nat, S # {}
  PROVE  Min(S) \in S /\ \A n \in S : Min(S) <= n
  BY LeastNat DEF Min

Distances == [Ids -> Nat]

LEMMA WaysAreNat ==
  ASSUME cost \in Matrix, NEW fewer \in Distances, NEW b \in Ids
  PROVE  /\ Ways(fewer, b) \in SUBSET Nat /\ Ways(fewer, b) # {}
         /\ Min(Ways(fewer, b)) \in Nat
         /\ Min(Ways(fewer, b)) <= fewer[b]
         /\ \A u \in Ids : IsLink(u, b) => Min(Ways(fewer, b)) <= fewer[u] + cost[u][b]
         /\ \/ Min(Ways(fewer, b)) = fewer[b]
            \/ \E u \in Ids : IsLink(u, b) /\ Min(Ways(fewer, b)) = fewer[u] + cost[u][b]
  <1>1. \A u \in Ids : IsLink(u, b) => cost[u][b] \in Nat
    BY DijkstraAssumption DEF IsLink, Matrix
  <1>2. \A u \in Ids : fewer[u] \in Nat
    BY DEF Distances
  <1>3. Ways(fewer, b) \in SUBSET Nat /\ Ways(fewer, b) # {}
    BY <1>1, <1>2 DEF Ways
  <1>4. /\ Min(Ways(fewer, b)) \in Ways(fewer, b)
        /\ \A n \in Ways(fewer, b) : Min(Ways(fewer, b)) <= n
    BY <1>3, MinIsLeast
  <1>5. /\ fewer[b] \in Ways(fewer, b)
        /\ \A u \in Ids : IsLink(u, b) => fewer[u] + cost[u][b] \in Ways(fewer, b)
    BY DEF Ways
  <1>6. \/ Min(Ways(fewer, b)) = fewer[b]
        \/ \E u \in Ids : IsLink(u, b) /\ Min(Ways(fewer, b)) = fewer[u] + cost[u][b]
    BY <1>4 DEF Ways
  <1> QED BY <1>3, <1>4, <1>5, <1>6

IsWith(with, a) ==
    /\ with \in [0..MAX_LEN -> Distances]
    /\ with[0] = [b \in Ids |-> IF b = a THEN 0 ELSE Infinity]
    /\ \A k \in 1..MAX_LEN : with[k] = [b \in Ids |-> Min(Ways(with[k - 1], b))]

\* The recursion by which Cheapest is defined has a solution.
LEMMA CheapestUnfolds ==
  ASSUME cost \in Matrix, NEW a \in Ids
  PROVE  \E with : IsWith(with, a)
                   /\ Cheapest(a) = [b \in Ids |-> Lesser(with[MAX_LEN][b], Infinity)]
  <1> USE DijkstraAssumption
  <1> DEFINE c == [b \in Ids |-> IF b = a THEN 0 ELSE Infinity]
             more(fewer) == [b \in Ids |-> Min(Ways(fewer, b))]
             step == [k \in 1..MAX_LEN |-> [fewer \in Distances |-> more(fewer)]]
             def(g) == [k \in 0..MAX_LEN |-> IF k = 0 THEN c ELSE more(g[k - 1])]
             with == CHOOSE g : g = def(g)
  <1>1. c \in Distances
    BY DEF Distances
  <1>2. \A fewer \in Distances : more(fewer) \in Distances
    BY WaysAreNat DEF Distances
  <1>3. step \in [1..MAX_LEN -> [Distances -> Distances]]
    BY <1>2
  <1>4. PICK f : IsIteration(f, MAX_LEN, Distances, c, step)
    <2> HIDE DEF c, step
    <2> QED BY <1>1, <1>3, Iteration
  <1>5. f = def(f)
    <2>1. \A k \in 1..MAX_LEN : f[k] = more(f[k - 1])
      <3>1. \A k \in 1..MAX_LEN : k - 1 \in 0..MAX_LEN
        OBVIOUS
      <3> HIDE DEF more
      <3> QED BY <1>4, <3>1 DEF IsIteration
    <2> HIDE DEF more, c
    <2> QED BY <1>4, <2>1 DEF IsIteration
  <1>6. with = def(with)
    <2> HIDE DEF def
    <2> QED BY <1>5
  <1>7. with[0] = c /\ \A k \in 1..MAX_LEN : with[k] = more(with[k - 1])
    <2> HIDE DEF with, more, c
    <2> QED BY <1>6
  <1>8. \A k \in 0..MAX_LEN : with[k] \in Distances
    <2> DEFINE S == {k \in 0..MAX_LEN : with[k] \in Distances}
    <2> HIDE DEF with, more, c
    <2>1. 0 \in S
      BY <1>1, <1>7
    <2>2. \A k \in 1..MAX_LEN : k - 1 \in S => k \in S
      BY <1>2, <1>7
    <2>3. \A k \in 0..MAX_LEN : k \in S
      <3> HIDE DEF S
      <3> QED BY <2>1, <2>2, Induction
    <2> QED BY <2>3
  <1>9. with \in [0..MAX_LEN -> Distances]
    <2> HIDE DEF with, more, c
    <2> QED BY <1>6, <1>8
  <1>10. IsWith(with, a)
    <2> HIDE DEF with
    <2> QED BY <1>7, <1>9 DEF IsWith
  <1>11. Cheapest(a) = [b \in Ids |-> Lesser(with[MAX_LEN][b], Infinity)]
    BY DEF Cheapest
  <1> HIDE DEF with
  <1> QED BY <1>10, <1>11

\* No distance is more than that of the start and a walk from there.
LEMMA DistancesBelowWalks ==
  ASSUME DijkstraInv, \A v \in Ids : distance[v] < Infinity => v \in visited,
         NEW a \in Ids, NEW with, IsWith(with, a)
  PROVE  \A k \in 0..MAX_LEN : \A b \in Ids : distance[b] <= distance[a] + with[k][b]
  <1> USE DijkstraAssumption
  <1> DEFINE S == {k \in 0..MAX_LEN : \A b \in Ids : distance[b] <= distance[a] + with[k][b]}
  <1>1. /\ cost \in Matrix
        /\ \A v \in Ids : distance[v] \in 0..Infinity
        /\ \A u, v \in Ids : IsLink(u, v) => cost[u][v] \in Nat
    <2>1. cost \in Matrix
      BY DEF DijkstraInv, Matrix
    <2>2. \A u, v \in Ids : IsLink(u, v) => cost[u][v] \in Nat
      BY <2>1 DEF IsLink, Matrix
    <2> QED BY <2>1, <2>2 DEF DijkstraInv
  <1>2. \A k \in 0..MAX_LEN : with[k] \in Distances /\ \A b \in Ids : with[k][b] \in Nat
    BY DEF IsWith, Distances
  <1>3. 0 \in S
    <2> SUFFICES ASSUME NEW b \in Ids PROVE distance[b] <= distance[a] + with[0][b]
      OBVIOUS
    <2>1. with[0][b] = IF b = a THEN 0 ELSE Infinity
      BY DEF IsWith
    <2> QED BY <2>1, <1>1
  <1>4. ASSUME NEW k \in 1..MAX_LEN, k - 1 \in S PROVE k \in S
    <2> SUFFICES ASSUME NEW b \in Ids PROVE distance[b] <= distance[a] + with[k][b]
      OBVIOUS
    <2> DEFINE fewer == with[k - 1]
    <2>1. fewer \in Distances /\ with[k][b] = Min(Ways(fewer, b))
      <3>1. with[k] = [v \in Ids |-> Min(Ways(fewer, v))]
        BY DEF IsWith
      <3> QED BY <3>1, <1>2
    <2>2. \A u \in Ids : fewer[u] \in Nat /\ distance[u] <= distance[a] + fewer[u]
      BY <1>2, <1>4
    <2>3. \/ with[k][b] = fewer[b]
          \/ \E u \in Ids : IsLink(u, b) /\ with[k][b] = fewer[u] + cost[u][b]
      BY <2>1, <1>1, WaysAreNat
    <2> HIDE DEF fewer
    <2>4. CASE with[k][b] = fewer[b]
      BY <2>2, <2>4
    <2>5. ASSUME NEW u \in Ids, IsLink(u, b), with[k][b] = fewer[u] + cost[u][b]
          PROVE  distance[b] <= distance[a] + with[k][b]
      <3>1. CASE distance[u] < Infinity
        <4>1. distance[b] <= distance[u] + cost[u][b]
          BY <3>1, <2>5 DEF DijkstraInv
        <4> QED BY <4>1, <2>2, <2>5, <1>1
      <3>2. CASE ~(distance[u] < Infinity)
        BY <3>2, <2>2, <2>5, <1>1
      <3> QED BY <3>1, <3>2
    <2> QED BY <2>3, <2>4, <2>5
  <1> HIDE DEF S
  <1>5. \A k \in 0..MAX_LEN : k \in S
    BY <1>3, <1>4, Induction
  <1> QED BY <1>5 DEF S

\* A walk of more links is no dearer, and one along a link costs no more than the
\* link and the walk to it.
LEMMA WalksGoOn ==
  ASSUME cost \in Matrix, NEW a \in Ids, NEW with, IsWith(with, a), NEW k \in 1..MAX_LEN
  PROVE  \A b \in Ids :
            /\ with[k - 1][b] \in Nat /\ with[k][b] \in Nat
            /\ with[k][b] <= with[k - 1][b]
            /\ \A u \in Ids : IsLink(u, b) => with[k][b] <= with[k - 1][u] + cost[u][b]
  <1>1. k - 1 \in 0..MAX_LEN /\ k \in 0..MAX_LEN
    BY DijkstraAssumption
  <1>2. with[k - 1] \in Distances /\ with[k] \in Distances
        /\ with[k] = [b \in Ids |-> Min(Ways(with[k - 1], b))]
    BY <1>1 DEF IsWith
  <1>3. \A b \in Ids : with[k - 1][b] \in Nat /\ with[k][b] \in Nat
    BY <1>2 DEF Distances
  <1>4. \A b \in Ids : with[k][b] = Min(Ways(with[k - 1], b))
    BY <1>2
  <1> QED BY <1>2, <1>3, <1>4, WaysAreNat

-----------------------------------------------------------------------------
\* The way to each router over its parents has fewer links than routers are
\* visited, and the way to one that is not visited at most as many.
IsDepth(depth) ==
    /\ depth \in [Ids -> Nat] /\ depth[router_id] = 0
    /\ \A v \in visited : depth[v] < Cardinality(visited)
    /\ \A v \in Ids \ {router_id} : distance[v] < Infinity => depth[v] = depth[parent[v]] + 1
ParentInv ==
    /\ \E depth : IsDepth(depth)
    /\ \A v \in Ids \ {router_id} : distance[v] = Infinity => parent[v] = NoParent
    /\ finished => forwarding_table =
          [i \in Ids |-> IF parent[i] = NoParent THEN Unreached ELSE find_ls_parent(i)]

LEMMA InitParents == Init => ParentInv
  <1> USE DijkstraAssumption
  <1> SUFFICES ASSUME Init PROVE ParentInv
    OBVIOUS
  <1>1. DijkstraInv
    BY InitDijkstra
  <1> DEFINE depth == [v \in Ids |-> IF v = router_id THEN 0 ELSE 1]
  <1>2. IsDepth(depth)
    <2>1. visited = {router_id} /\ Cardinality(visited) = 1
      BY FS_Singleton DEF Init
    <2>2. depth \in [Ids -> Nat] /\ depth[router_id] = 0
      OBVIOUS
    <2>3. \A v \in Ids \ {router_id} : distance[v] < Infinity => parent[v] = router_id
      BY <1>1, <2>1 DEF DijkstraInv
    <2> QED BY <2>1, <2>2, <2>3 DEF IsDepth
  <1>3. \A v \in Ids \ {router_id} : distance[v] = Infinity => parent[v] = NoParent
    <2> SUFFICES ASSUME NEW v \in Ids \ {router_id}, IsLink(router_id, v)
                 PROVE  distance[v] # Infinity
      BY DEF Init
    <2>1. distance[v] = cost[router_id][v]
      BY DEF Init
    <2>2. cost[router_id][v] \in Costs
      BY <1>1 DEF DijkstraInv, IsLink
    <2> QED BY <2>1, <2>2, CostsInRange
  <1>4. ~finished
    BY DEF Init
  <1> QED BY <1>2, <1>3, <1>4 DEF ParentInv

LEMMA VisitParents == DijkstraInv /\ ParentInv /\ Visit => ParentInv'
  <1> USE DijkstraAssumption
  <1> SUFFICES ASSUME DijkstraInv, ParentInv, Visit PROVE ParentInv'
    OBVIOUS
  <1> DEFINE u == node_curr
  <1>1. /\ u \in Ids \ visited /\ distance[u] < Infinity /\ u # router_id
        /\ visited' = visited \union {u} /\ router_id \in visited
        /\ distance' = [v \in Ids |-> IF IsNearer(u, v) THEN distance[u] + cost[u][v] ELSE distance[v]]
        /\ parent' = [v \in Ids |-> IF IsNearer(u, v) THEN u ELSE parent[v]]
        /\ ~finished /\ finished' = finished
    BY DEF DijkstraInv, Visit
  <1>2. /\ \A v \in Ids : distance[v] \in 0..Infinity
        /\ \A v \in Ids : IsLink(u, v) => cost[u][v] \in Nat
        /\ \A v \in Ids \ {router_id} : distance[v] < Infinity => parent[v] \in visited
        /\ visited \subseteq Ids
    <2>1. cost \in Matrix
      BY DEF DijkstraInv, Matrix
    <2>2. \A v \in Ids : IsLink(u, v) => cost[u][v] \in Nat
      BY <2>1, <1>1 DEF IsLink, Matrix
    <2> QED BY <2>2 DEF DijkstraInv
  <1>3. \A v \in visited : ~IsNearer(u, v)
    <2>1. \A v \in visited : distance[v] <= distance[u]
      BY <1>1 DEF DijkstraInv
    <2> QED BY <2>1, <1>1, <1>2 DEF IsNearer
  <1>4. ~IsNearer(u, u)
    BY <1>1, <1>2 DEF IsNearer
  <1>5. PICK depth : IsDepth(depth)
    BY DEF ParentInv
  <1> PICK deeper : deeper = [v \in Ids |-> IF IsNearer(u, v) THEN depth[u] + 1 ELSE depth[v]]
    OBVIOUS
  <1>6. IsDepth(deeper)'
    <2>1. \A v \in Ids : depth[v] \in Nat
      BY <1>5 DEF IsDepth
    <2>2. deeper \in [Ids -> Nat] /\ deeper[router_id] = 0
      BY <1>1, <1>3, <1>5, <2>1 DEF IsDepth
    <2>3. /\ Cardinality(visited) \in Nat
          /\ Cardinality(visited') = Cardinality(visited) + 1
      <3>1. IsFiniteSet(Ids)
        BY FS_Interval DEF Ids
      <3>2. IsFiniteSet(visited)
        BY <3>1, <1>2, FS_Subset
      <3> QED BY <3>2, <1>1, FS_AddElement, FS_CardinalityType
    <2>4. \A v \in visited' : deeper[v] = depth[v]
      BY <1>1, <1>2, <1>3, <1>4
    <2>5. \A v \in visited : depth[v] < Cardinality(visited')
      BY <2>1, <2>3, <1>2, <1>5 DEF IsDepth
    <2>6. depth[u] < Cardinality(visited')
      <3>1. depth[u] = depth[parent[u]] + 1 /\ parent[u] \in visited
        BY <1>1, <1>2, <1>5 DEF IsDepth
      <3>2. depth[parent[u]] < Cardinality(visited) /\ depth[parent[u]] \in Nat
        BY <3>1, <1>2, <1>5, <2>1 DEF IsDepth
      <3> QED BY <3>1, <3>2, <2>3
    <2>7. ASSUME NEW v \in Ids \ {router_id}, distance'[v] < Infinity
          PROVE  deeper[v] = deeper[parent'[v]] + 1
      <3>1. CASE IsNearer(u, v)
        BY <3>1, <1>1, <1>4
      <3>2. CASE ~IsNearer(u, v)
        <4>1. distance[v] < Infinity /\ parent'[v] = parent[v] /\ deeper[v] = depth[v]
          BY <3>2, <2>7, <1>1
        <4>2. parent[v] \in visited /\ deeper[parent[v]] = depth[parent[v]]
          BY <4>1, <1>1, <1>2, <2>4
        <4> QED BY <4>1, <4>2, <1>5 DEF IsDepth
      <3> QED BY <3>1, <3>2
    <2>8. \A v \in visited' : deeper[v] < Cardinality(visited')
      BY <1>1, <2>4, <2>5, <2>6
    <2> QED BY <2>2, <2>7, <2>8 DEF IsDepth
  <1>7. \A v \in Ids \ {router_id} : distance'[v] = Infinity => parent'[v] = NoParent
    <2> SUFFICES ASSUME NEW v \in Ids \ {router_id}, distance'[v] = Infinity
                 PROVE  parent'[v] = NoParent
      OBVIOUS
    <2>1. ~IsNearer(u, v)
      BY <1>1, <1>2 DEF IsNearer
    <2> QED BY <2>1, <1>1 DEF ParentInv
  <1> QED BY <1>1, <1>6, <1>7 DEF ParentInv

\* Each parent is known, and what is written to the table is what it says at the
\* end (LS.cc 195-270).
THEOREM ParentInvariance == Spec => [](DijkstraInv /\ ParentInv)
  <1>1. Init => ParentInv
    BY InitParents
  <1>2. DijkstraInv /\ ParentInv /\ [Next]_vars => ParentInv'
    <2> SUFFICES ASSUME DijkstraInv, ParentInv, [Next]_vars PROVE ParentInv'
      OBVIOUS
    <2>1. CASE Visit
      BY <2>1, VisitParents
    <2>2. CASE Finish
      <3>1. /\ UNCHANGED <<cost, visited, distance, parent>>
            /\ forwarding_table' =
                  [i \in Ids |-> IF parent[i] = NoParent THEN Unreached ELSE find_ls_parent(i)]
        BY <2>2 DEF Finish
      <3>2. \A i : find_ls_parent(i)' = find_ls_parent(i)
        BY <3>1 DEF find_ls_parent
      <3>3. \A depth : IsDepth(depth) => IsDepth(depth)'
        BY <3>1 DEF IsDepth
      <3> QED BY <3>1, <3>2, <3>3 DEF ParentInv
    <2>3. CASE UNCHANGED vars
      <3>1. UNCHANGED <<visited, distance, parent, forwarding_table, finished>>
        BY <2>3 DEF vars
      <3>2. \A i : find_ls_parent(i)' = find_ls_parent(i)
        BY <3>1 DEF find_ls_parent
      <3>3. \A depth : IsDepth(depth) => IsDepth(depth)'
        BY <3>1 DEF IsDepth
      <3> QED BY <3>1, <3>2, <3>3 DEF ParentInv
    <2> QED BY <2>1, <2>2, <2>3 DEF Next
  <1> QED BY <1>1, <1>2, DijkstraInvariance, PTL DEF Spec

-----------------------------------------------------------------------------
\* The climb of find_ls_parent, one parent after the other.
Above(i) == IF parent[i] \in {router_id, NoParent} THEN i ELSE parent[i]
IsClimb(up, i) ==
    /\ up \in [0..MAX_LEN -> Ids] /\ up[0] = i
    /\ \A k \in 1..MAX_LEN : up[k] = Above(up[k - 1])

LEMMA ClimbUnfolds ==
  ASSUME parent \in [Ids -> Ids \union {NoParent}], NEW i \in Ids
  PROVE  \E up : IsClimb(up, i) /\ find_ls_parent(i) = up[MAX_LEN]
  <1> USE DijkstraAssumption
  <1> DEFINE step == [k \in 1..MAX_LEN |-> [j \in Ids |-> Above(j)]]
             def(g) == [k \in 0..MAX_LEN |->
                          IF k = 0 THEN i
                          ELSE IF parent[g[k - 1]] \in {router_id, NoParent} THEN g[k - 1]
                               ELSE parent[g[k - 1]]]
             up == CHOOSE g : g = def(g)
  <1>1. \A j \in Ids : Above(j) \in Ids
    BY DEF Above
  <1>2. step \in [1..MAX_LEN -> [Ids -> Ids]]
    BY <1>1
  <1>3. PICK f : IsIteration(f, MAX_LEN, Ids, i, step)
    <2> HIDE DEF step
    <2> QED BY <1>2, Iteration
  <1>4. f = def(f)
    <2>1. f \in [0..MAX_LEN -> Ids] /\ f[0] = i
          /\ \A k \in 1..MAX_LEN : f[k] = step[k][f[k - 1]]
      BY <1>3 DEF IsIteration
    <2>2. \A k \in 1..MAX_LEN : k - 1 \in 0..MAX_LEN /\ f[k - 1] \in Ids
      BY <2>1
    <2>3. \A k \in 1..MAX_LEN : f[k] = Above(f[k - 1])
      BY <2>1, <2>2
    <2> QED BY <2>1, <2>3 DEF Above
  <1>5. up = def(up)
    <2> HIDE DEF def
    <2> QED BY <1>4
  <1>6. up[0] = i /\ \A k \in 1..MAX_LEN : up[k] = Above(up[k - 1])
    <2> HIDE DEF up
    <2> QED BY <1>5 DEF Above
  <1>7. \A k \in 0..MAX_LEN : up[k] \in Ids
    <2> DEFINE S == {k \in 0..MAX_LEN : up[k] \in Ids}
    <2> HIDE DEF up
    <2>1. 0 \in S
      BY <1>6
    <2>2. \A k \in 1..MAX_LEN : k - 1 \in S => k \in S
      BY <1>1, <1>6
    <2>3. \A k \in 0..MAX_LEN : k \in S
      <3> HIDE DEF S
      <3> QED BY <2>1, <2>2, Induction
    <2> QED BY <2>3
  <1>8. IsClimb(up, i)
    <2> HIDE DEF up
    <2> QED BY <1>5, <1>6, <1>7 DEF IsClimb
  <1>9. find_ls_parent(i) = up[MAX_LEN]
    BY DEF find_ls_parent
  <1> HIDE DEF up
  <1> QED BY <1>8, <1>9

\* When all that can be reached is visited.
Done == DijkstraInv /\ ParentInv /\ finished

LEMMA DoneIsVisited ==
  ASSUME Done
  PROVE  /\ \A v \in Ids : distance[v] < Infinity => v \in visited
         /\ \A v \in Ids : distance[v] \in 0..Infinity
         /\ \A u, v \in Ids : IsLink(u, v) => cost[u][v] \in Nat
         /\ \A v \in Ids \ {router_id} : distance[v] < Infinity =>
               /\ parent[v] \in Ids /\ IsLink(parent[v], v) /\ distance[parent[v]] < Infinity
               /\ distance[v] = distance[parent[v]] + cost[parent[v]][v]
         /\ cost \in Matrix /\ parent \in [Ids -> Ids \union {NoParent}]
         /\ distance[router_id] = 0 /\ distance \in [Ids -> 0..Infinity]
  <1> USE DijkstraAssumption DEF Done
  <1>1. \A v \in Ids \ visited : distance[v] = Infinity
    BY DEF DijkstraInv
  <1>2. cost \in Matrix
    BY DEF DijkstraInv, Matrix
  <1>3. \A u, v \in Ids : IsLink(u, v) => cost[u][v] \in Nat
    BY <1>2 DEF Matrix, IsLink
  <1> QED BY <1>1, <1>2, <1>3 DEF DijkstraInv

\* At the end the way over the parents has fewer than MAX_LEN links.
LEMMA DepthsAreSmall ==
  ASSUME Done
  PROVE  \E depth : /\ IsDepth(depth) /\ depth \in [Ids -> Nat]
                    /\ \A v \in Ids : distance[v] < Infinity => depth[v] < MAX_LEN
  <1> USE DijkstraAssumption
  <1>1. PICK depth : IsDepth(depth)
    BY DEF Done, ParentInv
  <1>2. Cardinality(visited) \in Nat /\ Cardinality(visited) <= MAX_LEN
    <2>1. IsFiniteSet(Ids) /\ Cardinality(Ids) = MAX_LEN
      BY FS_Interval DEF Ids
    <2>2. visited \subseteq Ids
      BY DEF Done, DijkstraInv
    <2> QED BY <2>1, <2>2, FS_Subset, FS_CardinalityType
  <1>3. depth \in [Ids -> Nat] /\ \A v \in visited : depth[v] < Cardinality(visited)
    BY <1>1 DEF IsDepth
  <1>4. \A v \in Ids : distance[v] < Infinity => v \in visited
    BY DoneIsVisited
  <1>5. \A v \in Ids : distance[v] < Infinity => depth[v] < MAX_LEN
    BY <1>2, <1>3, <1>4
  <1> QED BY <1>1, <1>3, <1>5

\* The way over the parents is a walk: what the search found is no less than the
\* cheapest walk.
LEMMA ShortestFromRouter ==
  ASSUME Done PROVE distance = Cheapest(router_id)
  <1> USE DijkstraAssumption
  <1>1. PICK with : IsWith(with, router_id)
                    /\ Cheapest(router_id) = [b \in Ids |-> Lesser(with[MAX_LEN][b], Infinity)]
    BY DoneIsVisited, CheapestUnfolds
  <1>2. PICK depth : /\ IsDepth(depth) /\ depth \in [Ids -> Nat]
                     /\ \A v \in Ids : distance[v] < Infinity => depth[v] < MAX_LEN
    BY DepthsAreSmall
  <1> DEFINE S == {k \in 0..MAX_LEN :
                     \A v \in Ids : distance[v] < Infinity /\ depth[v] <= k => with[k][v] <= distance[v]}
  <1>3. 0 \in S
    <2> SUFFICES ASSUME NEW v \in Ids, distance[v] < Infinity, depth[v] <= 0
                 PROVE  with[0][v] <= distance[v]
      OBVIOUS
    <2>1. CASE v = router_id
      BY <2>1, <1>1, DoneIsVisited DEF IsWith
    <2>2. CASE v # router_id
      <3>1. depth[v] = depth[parent[v]] + 1 /\ depth[parent[v]] \in Nat
        BY <2>2, <1>2, DoneIsVisited DEF IsDepth
      <3> QED BY <3>1
    <2> QED BY <2>1, <2>2
  <1>4. ASSUME NEW k \in 1..MAX_LEN, k - 1 \in S PROVE k \in S
    <2> SUFFICES ASSUME NEW v \in Ids, distance[v] < Infinity, depth[v] <= k
                 PROVE  with[k][v] <= distance[v]
      OBVIOUS
    <2>1. /\ with[k - 1][v] \in Nat /\ with[k][v] \in Nat
          /\ with[k][v] <= with[k - 1][v]
          /\ \A u \in Ids : IsLink(u, v) => /\ with[k][v] <= with[k - 1][u] + cost[u][v]
                                           /\ with[k - 1][u] \in Nat
      BY <1>1, DoneIsVisited, WalksGoOn
    <2>2. distance[v] \in Nat /\ depth[v] \in Nat
      BY <1>2, DoneIsVisited
    <2>3. CASE depth[v] <= k - 1
      <3>1. with[k - 1][v] <= distance[v]
        BY <2>3, <1>4
      <3> QED BY <3>1, <2>1, <2>2
    <2>4. CASE v = router_id
      <3>1. depth[v] <= k - 1
        BY <2>4, <1>2 DEF IsDepth
      <3> QED BY <3>1, <2>3
    <2>5. CASE v # router_id /\ ~(depth[v] <= k - 1)
      <3> DEFINE p == parent[v]
      <3>1. /\ p \in Ids /\ IsLink(p, v) /\ distance[p] < Infinity
            /\ distance[v] = distance[p] + cost[p][v]
            /\ distance[p] \in Nat /\ cost[p][v] \in Nat
        BY <2>5, DoneIsVisited
      <3>2. depth[v] = depth[p] + 1 /\ depth[p] \in Nat
        BY <2>5, <3>1, <1>2 DEF IsDepth
      <3> HIDE DEF p
      <3>3. depth[p] <= k - 1
        BY <3>2
      <3>4. with[k - 1][p] <= distance[p]
        BY <3>1, <3>3, <1>4
      <3>5. with[k][v] <= with[k - 1][p] + cost[p][v] /\ with[k - 1][p] \in Nat
        BY <3>1, <2>1
      <3> QED BY <3>1, <3>4, <3>5, <2>1
    <2> QED BY <2>3, <2>4, <2>5
  <1>5. MAX_LEN \in S
    <2>1. \A k \in 0..MAX_LEN : k \in S
      <3> HIDE DEF S
      <3> QED BY <1>3, <1>4, Induction
    <2> QED BY <2>1
  <1>6. \A v \in Ids : distance[v] <= with[MAX_LEN][v] /\ with[MAX_LEN][v] \in Nat
    <2>1. \A v \in Ids : distance[v] <= distance[router_id] + with[MAX_LEN][v]
      BY <1>1, DoneIsVisited, DistancesBelowWalks DEF Done
    <2>2. \A v \in Ids : with[MAX_LEN][v] \in Nat
      BY <1>1 DEF IsWith, Distances
    <2> QED BY <2>1, <2>2, DoneIsVisited
  <1>7. ASSUME NEW v \in Ids PROVE distance[v] = Lesser(with[MAX_LEN][v], Infinity)
    <2>1. distance[v] \in 0..Infinity
      BY DoneIsVisited
    <2>2. CASE distance[v] < Infinity
      <3>1. with[MAX_LEN][v] <= distance[v]
        <4>1. depth[v] <= MAX_LEN
          BY <2>2, <1>2
        <4> QED BY <4>1, <2>2, <1>5
      <3>2. with[MAX_LEN][v] = distance[v]
        BY <3>1, <2>1, <1>6
      <3>3. with[MAX_LEN][v] <= Infinity
        BY <3>2, <2>1
      <3> QED BY <3>2, <3>3 DEF Lesser
    <2>3. CASE ~(distance[v] < Infinity)
      BY <2>1, <2>3, <1>6 DEF Lesser
    <2> QED BY <2>2, <2>3
  <1> HIDE DEF S
  <1> QED BY <1>1, <1>7, DoneIsVisited

\* What the search finds are the costs of cheapest walks, for every topology whose
\* ids are in the arrays (LS.cc 195-240).
THEOREM SearchFindsShortest == Spec => []DistancesAreShortest
  <1>1. DijkstraInv /\ ParentInv => DistancesAreShortest
    BY ShortestFromRouter DEF Done, DistancesAreShortest
  <1> QED BY <1>1, ParentInvariance, PTL

-----------------------------------------------------------------------------
\* The climb ends at a neighbour, before which there is only the router itself.
LEMMA ClimbEnds ==
  ASSUME Done, NEW i \in Ids \ {router_id}, distance[i] < Infinity,
         NEW up, IsClimb(up, i)
  PROVE  /\ \A k \in 0..MAX_LEN : /\ up[k] \in Ids \ {router_id}
                                  /\ distance[up[k]] < Infinity
         /\ parent[up[MAX_LEN]] = router_id
  <1> USE DijkstraAssumption
  <1>1. PICK depth : /\ IsDepth(depth) /\ depth \in [Ids -> Nat]
                     /\ \A v \in Ids : distance[v] < Infinity => depth[v] < MAX_LEN
    BY DepthsAreSmall
  <1> DEFINE good(k) == /\ up[k] \in Ids \ {router_id} /\ distance[up[k]] < Infinity
                        /\ parent[up[k]] = router_id \/ depth[up[k]] + k <= depth[i]
             S == {k \in 0..MAX_LEN : good(k)}
  <1>2. 0 \in S
    BY <1>1 DEF IsClimb
  <1>3. ASSUME NEW k \in 1..MAX_LEN, k - 1 \in S PROVE k \in S
    <2> DEFINE j == up[k - 1]
    <2>1. /\ j \in Ids \ {router_id} /\ distance[j] < Infinity
          /\ parent[j] = router_id \/ depth[j] + (k - 1) <= depth[i]
          /\ up[k] = Above(j)
      BY <1>3 DEF IsClimb
    <2>2. /\ parent[j] \in Ids /\ distance[parent[j]] < Infinity
          /\ depth[j] = depth[parent[j]] + 1
          /\ depth[j] \in Nat /\ depth[parent[j]] \in Nat /\ depth[i] \in Nat
      BY <2>1, <1>1, DoneIsVisited DEF IsDepth
    <2> HIDE DEF j
    <2>3. CASE parent[j] = router_id
      <3>1. up[k] = j
        BY <2>1, <2>3 DEF Above
      <3> QED BY <3>1, <2>1, <2>3
    <2>4. CASE parent[j] # router_id
      <3>1. up[k] = parent[j]
        BY <2>1, <2>2, <2>4 DEF Above, NoParent, Ids
      <3>2. depth[parent[j]] + k <= depth[i]
        BY <2>1, <2>2, <2>4
      <3> QED BY <3>1, <3>2, <2>2, <2>4
    <2> QED BY <2>3, <2>4
  <1> HIDE DEF S
  <1>4. \A k \in 0..MAX_LEN : k \in S
    BY <1>2, <1>3, Induction
  <1>5. \A k \in 0..MAX_LEN : good(k)
    BY <1>4 DEF S
  <1>6. parent[up[MAX_LEN]] = router_id
    <2>1. MAX_LEN \in 0..MAX_LEN
      OBVIOUS
    <2>2. /\ parent[up[MAX_LEN]] = router_id \/ depth[up[MAX_LEN]] + MAX_LEN <= depth[i]
          /\ depth[up[MAX_LEN]] \in Nat /\ depth[i] \in Nat /\ depth[i] < MAX_LEN
      BY <2>1, <1>1, <1>5
    <2> QED BY <2>2
  <1> QED BY <1>5, <1>6

\* From where the climb ended, the way down to the destination is a walk.
LEMMA DownTheClimb ==
  ASSUME Done, NEW i \in Ids \ {router_id}, distance[i] < Infinity,
         NEW up, IsClimb(up, i),
         NEW with, IsWith(with, up[MAX_LEN])
  PROVE  with[MAX_LEN][i] \in Nat /\ distance[up[MAX_LEN]] + with[MAX_LEN][i] <= distance[i]
  <1> USE DijkstraAssumption
  <1> DEFINE h == up[MAX_LEN]
             S == {k \in 0..MAX_LEN :
                     LET j == up[MAX_LEN - k]
                     IN  with[k][j] \in Nat /\ distance[h] + with[k][j] <= distance[j]}
  <1>1. /\ \A k \in 0..MAX_LEN : up[k] \in Ids \ {router_id} /\ distance[up[k]] < Infinity
        /\ h \in Ids
    <2>1. MAX_LEN \in 0..MAX_LEN
      OBVIOUS
    <2> QED BY <2>1, ClimbEnds
  <1>2. 0 \in S
    <2>1. with[0][h] = 0
      BY <1>1 DEF IsWith
    <2>2. MAX_LEN - 0 = MAX_LEN /\ distance[h] \in Nat
      BY <1>1, DoneIsVisited
    <2> QED BY <2>1, <2>2
  <1>3. ASSUME NEW k \in 1..MAX_LEN, k - 1 \in S PROVE k \in S
    <2> DEFINE j == up[MAX_LEN - k]
               p == up[MAX_LEN - (k - 1)]
    <2>1. /\ j \in Ids \ {router_id} /\ distance[j] < Infinity
          /\ p = Above(j) /\ p \in Ids
      <3>1. /\ MAX_LEN - k \in 0..MAX_LEN /\ MAX_LEN - (k - 1) \in 1..MAX_LEN
            /\ (MAX_LEN - (k - 1)) - 1 = MAX_LEN - k
        OBVIOUS
      <3> QED BY <3>1, <1>1 DEF IsClimb
    <2>2. with[k - 1][p] \in Nat /\ distance[h] + with[k - 1][p] <= distance[p]
      BY <1>3
    <2>3. /\ with[k][j] \in Nat /\ with[k - 1][j] \in Nat /\ with[k][j] <= with[k - 1][j]
          /\ \A u \in Ids : IsLink(u, j) => with[k][j] <= with[k - 1][u] + cost[u][j]
      BY <2>1, <1>1, DoneIsVisited, WalksGoOn
    <2>4. distance[h] \in Nat /\ distance[j] \in Nat /\ distance[p] \in Nat
      BY <1>1, <2>1, DoneIsVisited
    <2>5. distance[h] + with[k][j] <= distance[j]
      <3> HIDE DEF h, j, p
      <3>1. CASE p = j
        BY <3>1, <2>2, <2>3, <2>4
      <3>2. CASE p # j
        <4>1. p = parent[j]
          BY <3>2, <2>1 DEF Above
        <4>2. IsLink(p, j) /\ distance[j] = distance[p] + cost[p][j] /\ cost[p][j] \in Nat
          BY <4>1, <2>1, DoneIsVisited
        <4>3. with[k][j] <= with[k - 1][p] + cost[p][j]
          BY <4>2, <2>1, <2>3
        <4> QED BY <4>2, <4>3, <2>2, <2>3, <2>4
      <3> QED BY <3>1, <3>2
    <2> QED BY <2>3, <2>5
  <1> HIDE DEF S
  <1>4. MAX_LEN \in S
    <2>1. \A k \in 0..MAX_LEN : k \in S
      BY <1>2, <1>3, Induction
    <2> QED BY <2>1
  <1>5. MAX_LEN - MAX_LEN = 0 /\ up[0] = i
    BY DEF IsClimb
  <1> QED BY <1>4, <1>5 DEF S

\* The neighbour that the climb finds is one with which a cheapest walk begins.
LEMMA ClimbIsShortest ==
  ASSUME Done, NEW i \in Ids \ {router_id}, distance[i] < Infinity
  PROVE  LET h == find_ls_parent(i)
         IN  /\ h \in Ids /\ IsLink(router_id, h)
             /\ cost[router_id][h] + Cheapest(h)[i] = distance[i]
  <1> USE DijkstraAssumption
  <1> DEFINE h == find_ls_parent(i)
  <1>1. PICK up : IsClimb(up, i) /\ h = up[MAX_LEN]
    BY DoneIsVisited, ClimbUnfolds
  <1>2. h \in Ids \ {router_id} /\ distance[h] < Infinity /\ parent[h] = router_id
    <2>1. MAX_LEN \in 0..MAX_LEN
      OBVIOUS
    <2> QED BY <2>1, <1>1, ClimbEnds
  <1> HIDE DEF h
  <1>3. IsLink(router_id, h) /\ distance[h] = cost[router_id][h] /\ cost[router_id][h] \in Nat
    <2>1. /\ IsLink(router_id, h) /\ distance[h] = distance[router_id] + cost[router_id][h]
          /\ distance[router_id] = 0 /\ cost[router_id][h] \in Nat
      BY <1>2, DoneIsVisited
    <2> QED BY <2>1
  <1>4. PICK with : IsWith(with, h)
                    /\ Cheapest(h) = [b \in Ids |-> Lesser(with[MAX_LEN][b], Infinity)]
    BY <1>2, DoneIsVisited, CheapestUnfolds
  <1>5. with[MAX_LEN][i] \in Nat /\ distance[h] + with[MAX_LEN][i] <= distance[i]
    BY <1>1, <1>4, DownTheClimb
  <1>6. distance[i] <= distance[h] + with[MAX_LEN][i]
    BY <1>2, <1>4, DoneIsVisited, DistancesBelowWalks DEF Done
  <1>7. distance[i] \in Nat /\ distance[h] \in Nat
    BY <1>2, DoneIsVisited
  <1>8. with[MAX_LEN][i] = distance[i] - distance[h] /\ with[MAX_LEN][i] <= Infinity
    BY <1>5, <1>6, <1>7
  <1>9. Cheapest(h)[i] = with[MAX_LEN][i]
    BY <1>4, <1>8 DEF Lesser
  <1>10. cost[router_id][h] + Cheapest(h)[i] = distance[i]
    BY <1>3, <1>5, <1>7, <1>8, <1>9
  <1> QED BY <1>2, <1>3, <1>10 DEF h

\* The table sends by a neighbour with which a cheapest walk begins, and knows none
\* just for those that no walk reaches (LS.cc 250-270).
THEOREM TableIsShortest == Spec => []NextHopIsShortest
  <1>1. DijkstraInv /\ ParentInv => NextHopIsShortest
    <2> SUFFICES ASSUME Done PROVE NextHopIsShortest
      BY DEF Done, NextHopIsShortest
    <2>1. distance = Cheapest(router_id)
      BY ShortestFromRouter
    <2> SUFFICES ASSUME NEW i \in Ids \ {router_id}
                 PROVE  LET h == forwarding_table[i]
                        IN  /\ (h = Unreached) <=> (distance[i] = Infinity)
                            /\ h # Unreached =>
                                  /\ IsLink(router_id, h)
                                  /\ cost[router_id][h] + Cheapest(h)[i] = distance[i]
      BY <2>1 DEF NextHopIsShortest
    <2>2. forwarding_table[i] = IF parent[i] = NoParent THEN Unreached ELSE find_ls_parent(i)
      BY DEF Done, ParentInv
    <2>3. CASE distance[i] = Infinity
      <3>1. parent[i] = NoParent
        BY <2>3 DEF Done, ParentInv
      <3> QED BY <3>1, <2>2, <2>3
    <2>4. CASE distance[i] # Infinity
      <3>1. distance[i] < Infinity /\ parent[i] \in Ids
        <4>1. distance[i] \in 0..Infinity
          BY DoneIsVisited
        <4>2. distance[i] < Infinity
          BY <4>1, <2>4, DijkstraAssumption
        <4> QED BY <4>2, DoneIsVisited
      <3>2. parent[i] # NoParent
        BY <3>1 DEF Ids, NoParent
      <3>3. /\ find_ls_parent(i) \in Ids /\ IsLink(router_id, find_ls_parent(i))
            /\ cost[router_id][find_ls_parent(i)] + Cheapest(find_ls_parent(i))[i] = distance[i]
        BY <3>1, ClimbIsShortest
      <3>4. find_ls_parent(i) # Unreached
        BY <3>3 DEF Ids, Unreached
      <3> QED BY <3>2, <3>3, <3>4, <2>2, <2>4
    <2> QED BY <2>3, <2>4
  <1> QED BY <1>1, ParentInvariance, PTL
=============================================================================
