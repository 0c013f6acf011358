----------------------------- MODULE Reassembly -----------------------------
(***************************************************************************)
(* What the out-of-order buffer of recvfile promises: packets come in any   *)
(* order, each at most once counts, and they leave in the order of their    *)
(* numbers without a gap.                                                   *)
(***************************************************************************)
EXTENDS Naturals

CONSTANTS
    W,      \* window_size
    Last    \* number of the last packet

VARIABLES
    ack,    \* last packet written
    buffer  \* packets that wait for a gap to close

vars == <<ack, buffer>>

Init == ack = 0 /\ buffer = {}

\* Packet s arrives and the run that starts after ack is written.
Take(s) ==
    \E m \in ack..(ack + W) :
        /\ (ack + 1)..m \subseteq buffer \cup {s}
        /\ m + 1 \notin buffer \cup {s}
        /\ ack' = m
        /\ buffer' = {t \in buffer \cup {s} : t > m}

Next == \E s \in (ack + 1)..(ack + W) : s <= Last /\ Take(s)

Spec == Init /\ [][Next]_vars
=============================================================================
