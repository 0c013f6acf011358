----------------------------- MODULE MCLinkState -----------------------------
\* Networks for the constants of LinkState.
EXTENDS LinkState

Three == 1..3
Triangle == {{1, 2}, {2, 3}, {1, 3}}
Chain == {{1, 2}, {2, 3}}
OneLink == {{1, 2}}
NoLink == {}
=============================================================================
