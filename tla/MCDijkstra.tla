----------------------------- MODULE MCDijkstra -----------------------------
\* Graphs for the constants of Dijkstra.
EXTENDS Dijkstra

\* A link to the router itself costs what it costs from there; other links may
\* cost more in one direction, or be known in one direction only.
Matrices ==
    LET pairs == {p \in Ids \X Ids : p[1] # p[2] /\ p[2] # router_id}
        matrix(f) == [i \in Ids |-> [j \in Ids |->
                        IF i = j THEN NoLink
                        ELSE IF j = router_id THEN f[<<router_id, i>>] ELSE f[<<i, j>>]]]
    IN  {matrix(f) : f \in [pairs -> Costs \union {NoLink}]}
=============================================================================
