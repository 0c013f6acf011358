--------------------------- MODULE MCDistanceVector ---------------------------
\* Networks for the constants of DistanceVector.
EXTENDS DistanceVector

Chain == {{1, 2}, {2, 3}}
Triangle == {{1, 2}, {2, 3}, {1, 3}}
Link12 == {{1, 2}}
Link13 == {{1, 3}}
AllShort == [l \in Link |-> 1]
Long23 == [l \in Link |-> IF l = {2, 3} THEN 2 ELSE 1]
===============================================================================
