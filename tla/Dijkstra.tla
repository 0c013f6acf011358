------------------------------ MODULE Dijkstra ------------------------------
(***************************************************************************)
(* LS.cc: Dijkstra and find_ls_parent, which a router runs for each data    *)
(* packet.  cost[router_id] are its own ports, the other rows the           *)
(* link-state packets it holds; a router of which it holds none has no      *)
(* links.  The arrays have MAX_LEN places, and here all ids are within;     *)
(* LinkState says when they are not.                                        *)
(***************************************************************************)
EXTENDS Integers, FiniteSetsExt

CONSTANTS
    MAX_LEN,     \* largest source in lsp_topology_map
    router_id,
    Costs,       \* of a link
    Infinity,    \* numeric_limits<int>::max()
    Topologies   \* the cost matrices to look at

Ids == 1..MAX_LEN
NoLink == -1

ASSUME DijkstraAssumption ==
    /\ MAX_LEN \in Nat /\ router_id \in Ids
    /\ Costs \subseteq Nat /\ Infinity \in Nat \ {0}
    /\ \A c \in Costs : c < Infinity
    /\ Topologies \subseteq [Ids -> [Ids -> Costs \union {NoLink}]]

VARIABLES
    cost,       \* what the router knows
    entries,    \* who has an entry in lsp_topology_map
    visited,
    distance,
    parent,
    node_curr,
    forwarding_table,
    finished
vars == <<cost, entries, visited, distance, parent, node_curr, forwarding_table, finished>>

-----------------------------------------------------------------------------
IsLink(u, v) == cost[u][v] # NoLink
NoParent == -1
Unreached == 0      \* no entry in forwarding_table

\* A mistake: the first one found, and not the nearest.
NearestFirst(vis, dist, curr) ==
    LET open == {i \in Ids \ vis : dist[i] < Infinity}
        nearest == {i \in open : \A j \in open : i <= j}
    IN  IF open = {} THEN curr ELSE CHOOSE i \in nearest : TRUE

\* The scan for the nearest router that is not visited; none leaves node_curr.
Nearest(vis, dist, curr) ==
    LET open == {i \in Ids \ vis : dist[i] < Infinity}
        nearest == {i \in open : \A j \in open : dist[i] < dist[j] \/ (dist[i] = dist[j] /\ i <= j)}
    IN  IF nearest = {} THEN curr ELSE CHOOSE i \in nearest : TRUE

Init ==
    /\ cost \in Topologies
    /\ entries = {i \in Ids \ {router_id} : \E j \in Ids : IsLink(i, j)}
    /\ visited = {router_id}
    /\ distance = [i \in Ids |-> IF i = router_id THEN 0
                                 ELSE IF IsLink(router_id, i) THEN cost[router_id][i] ELSE Infinity]
    /\ parent = [i \in Ids |-> IF i # router_id /\ IsLink(router_id, i) THEN router_id ELSE NoParent]
    /\ node_curr = Nearest(visited, distance, router_id)
    /\ forwarding_table = [i \in Ids |-> Unreached]
    /\ finished = FALSE

\* A mistake: the way through u is compared with the cost of its last link.
IsNearerLink(u, v) == IsLink(u, v) /\ cost[u][v] < distance[v]

\* The way to v through u is shorter than the one known.
IsNearer(u, v) == IsLink(u, v) /\ distance[u] + cost[u][v] < distance[v]

\* One pass of the main loop.  Reading lsp_topology_map gives a router that had no
\* entry one without links.
Visit ==
    /\ node_curr \notin visited
    /\ visited' = visited \union {node_curr}
    /\ entries' = entries \union {node_curr}
    /\ distance' = [v \in Ids |-> IF IsNearer(node_curr, v) THEN distance[node_curr] + cost[node_curr][v]
                                                             ELSE distance[v]]
    /\ parent' = [v \in Ids |-> IF IsNearer(node_curr, v) THEN node_curr ELSE parent[v]]
    /\ node_curr' = Nearest(visited', distance', node_curr)
    /\ UNCHANGED <<cost, forwarding_table, finished>>

\* A mistake: one step is enough.
find_ls_parentOnce(i) == IF parent[i] = router_id THEN i ELSE parent[i]

\* find_ls_parent: up the parents to the neighbour the way begins with.
find_ls_parent(i) ==
    LET up[k \in 0..MAX_LEN] ==
            IF k = 0 THEN i
            ELSE IF parent[up[k - 1]] \in {router_id, NoParent} THEN up[k - 1] ELSE parent[up[k - 1]]
    IN  up[MAX_LEN]

\* The loop ends, and the table is written anew.
Finish ==
    /\ node_curr \in visited
    /\ ~finished /\ finished' = TRUE
    /\ forwarding_table' =
          [i \in Ids |-> IF parent[i] = NoParent THEN Unreached ELSE find_ls_parent(i)]
    /\ UNCHANGED <<cost, entries, visited, distance, parent, node_curr>>

Next == Visit \/ Finish

Spec == Init /\ [][Next]_vars

-----------------------------------------------------------------------------
\* The cheapest walk of at most k links from a to b, by definition: a walk of
\* fewer, or one of fewer to some u and a link from there.
Lesser(x, y) == IF x <= y THEN x ELSE y
Ways(fewer, b) ==
    {fewer[b]} \union {fewer[u] + cost[u][b] : u \in {w \in Ids : IsLink(w, b)}}
Cheapest(a) ==
    LET with[k \in 0..MAX_LEN] ==
            IF k = 0 THEN [b \in Ids |-> IF b = a THEN 0 ELSE Infinity]
            ELSE [b \in Ids |-> Min(Ways(with[k - 1], b))]
    IN  [b \in Ids |-> Lesser(with[MAX_LEN][b], Infinity)]

\* The distances are those of cheapest ways (LS.cc 195-240).
DistancesAreShortest == finished => distance = Cheapest(router_id)

\* The next hop is a neighbour with which a cheapest way begins, and whoever can
\* be reached has one (LS.cc 250-270): the climb up the parents ends.
NextHopIsShortest ==
    finished =>
        LET shortest == Cheapest(router_id)
        IN \A i \in Ids \ {router_id} :
            LET h == forwarding_table[i]
            IN  /\ (h = Unreached) <=> (shortest[i] = Infinity)
                /\ h # Unreached =>
                      /\ IsLink(router_id, h)
                      /\ cost[router_id][h] + Cheapest(h)[i] = shortest[i]

\* No link makes a way shorter than what was found, and each way is that of its
\* parent and one link (LS.cc 219-240).
DistancesAreTight ==
    finished =>
        /\ distance[router_id] = 0
        /\ \A u, v \in Ids : IsLink(u, v) /\ distance[u] < Infinity => distance[v] <= distance[u] + cost[u][v]
        /\ \A v \in Ids \ {router_id} : distance[v] < Infinity =>
              /\ parent[v] \in Ids /\ IsLink(parent[v], v)
              /\ distance[v] = distance[parent[v]] + cost[parent[v]][v]

\* Why: what is visited is nearer than what is not, and its links are used
\* (LS.cc 195-240).
DijkstraInv ==
    /\ cost \in [Ids -> [Ids -> Costs \union {NoLink}]] /\ finished \in BOOLEAN
    /\ visited \subseteq Ids /\ router_id \in visited
    /\ distance \in [Ids -> 0..Infinity] /\ distance[router_id] = 0
    /\ parent \in [Ids -> Ids \union {NoParent}]
    /\ \A u \in visited : distance[u] < Infinity
    /\ \A u \in visited, v \in Ids \ visited : distance[u] <= distance[v]
    /\ \A u \in visited, v \in Ids : IsLink(u, v) => distance[v] <= distance[u] + cost[u][v]
    /\ \A v \in Ids \ {router_id} : distance[v] < Infinity =>
          /\ parent[v] \in visited /\ IsLink(parent[v], v)
          /\ distance[v] = distance[parent[v]] + cost[parent[v]][v]
    /\ node_curr \in Ids
    /\ \/ /\ node_curr \notin visited /\ distance[node_curr] < Infinity
          /\ \A v \in Ids \ visited : distance[node_curr] <= distance[v]
       \/ node_curr \in visited /\ \A v \in Ids \ visited : distance[v] = Infinity
    /\ finished => node_curr \in visited
=============================================================================
