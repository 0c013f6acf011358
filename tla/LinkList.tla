------------------------------ MODULE LinkList ------------------------------
(***************************************************************************)
(* linkList.h: the list of the packets that arrived out of order, node by   *)
(* node on a heap, driven as the data loop of recvfile.cpp drives it.       *)
(* Receiver models the same list as a set; here the set is what the nodes   *)
(* that head reaches hold.                                                  *)
(***************************************************************************)
EXTENDS Integers, FiniteSets

CONSTANTS
    W,      \* window_size
    Last    \* bound: sequence numbers of the run

ASSUME ListAssumption == W \in Nat \ {0} /\ Last \in Nat

\* Node 0 is the node that the constructor makes; W others are enough.
Nodes == 0..W
Head == 0
NULL == W + 1

VARIABLES
    list,   \* next, seq, count; alloc: the nodes made and not yet deleted
    ack     \* last packet written

vars == <<list, ack>>

Init ==
    /\ list = [next |-> [n \in Nodes |-> NULL], seq |-> [n \in Nodes |-> 0],
               count |-> 0, alloc |-> {Head}]
    /\ ack = 0

-----------------------------------------------------------------------------
\* A walk along the next pointers, from p to the first node at which it ends:
\* where it is after each step.
Walk(l, p, ends) ==
    LET at[k \in 0..W] ==
            IF k = 0 THEN p
            ELSE IF at[k - 1] \in ends THEN at[k - 1] ELSE l.next[at[k - 1]]
    IN  at

Ends(l) == {p \in Nodes : l.next[p] = NULL}

\* The nodes from p's successor on.
After(l, p) == {Walk(l, p, Ends(l))[k] : k \in 0..W} \ {p}

\* Where the walk of add stops: before the first number that is not below s.
Place(l, s) ==
    Walk(l, Head, {p \in Nodes : l.next[p] = NULL \/ l.seq[l.next[p]] >= s})[W]

\* LinkList::add; a number that is there already is left alone.
Add(l, s) ==
    LET p == Place(l, s)
        n == CHOOSE m \in Nodes : m \notin l.alloc
    IN  IF l.next[p] # NULL /\ l.seq[l.next[p]] = s THEN l
        ELSE [next |-> [l.next EXCEPT ![n] = l.next[p], ![p] = n],
              seq |-> [l.seq EXCEPT ![n] = s],
              count |-> l.count + 1,
              alloc |-> l.alloc \cup {n}]

\* Where the walk of pop stops: at a gap or at the end of the list.
LastOfRun(l) ==
    Walk(l, l.next[Head], {p \in Nodes : l.next[p] = NULL \/ l.seq[p] # l.seq[l.next[p]] - 1})[W]

\* A pop that takes the first run even when packet a + 1 is missing.
StartsAnywhere(l, a) == l.next[Head] # NULL
Starts(l, a) == l.next[Head] # NULL /\ l.seq[l.next[Head]] = a + 1

\* A pop that cuts the run off but leaves head on it.
PopLeavesHead(l, a) ==
    LET e == LastOfRun(l)
        run == After(l, Head) \ After(l, e)
    IN  IF ~Starts(l, a) THEN l
        ELSE [next |-> [l.next EXCEPT ![e] = NULL],
              seq |-> l.seq,
              count |-> IF l.next[e] = NULL THEN 0
                        ELSE l.count - Cardinality(run),
              alloc |-> l.alloc \ run]

\* A pop that does not count the node at which the run ends.
PopCountsPairs(l, a) ==
    LET e == LastOfRun(l)
        run == After(l, Head) \ After(l, e)
    IN  IF ~Starts(l, a) THEN l
        ELSE [next |-> [l.next EXCEPT ![Head] = l.next[e], ![e] = NULL],
              seq |-> l.seq,
              count |-> IF l.next[e] = NULL THEN 0
                        ELSE l.count - Cardinality(run) + 1,
              alloc |-> l.alloc \ run]

\* LinkList::pop of the run that starts after a, which the caller then writes
\* and deletes node by node.
Pop(l, a) ==
    LET e == LastOfRun(l)
        run == After(l, Head) \ After(l, e)
    IN  IF ~Starts(l, a) THEN l
        ELSE [next |-> [l.next EXCEPT ![Head] = l.next[e], ![e] = NULL],
              seq |-> l.seq,
              count |-> IF l.next[e] = NULL THEN 0
                        ELSE l.count - Cardinality(run),
              alloc |-> l.alloc \ run]

-----------------------------------------------------------------------------
\* The next packet, with nothing buffered, never reaches the list.
RecvInOrder(s) ==
    /\ s = ack + 1 /\ list.next[Head] = NULL
    /\ ack' = ack + 1
    /\ UNCHANGED list

RecvBuffered(s) ==
    LET l == Add(list, s)
    IN  /\ s # ack + 1 \/ list.next[Head] # NULL
        /\ list' = Pop(l, ack)
        /\ ack' = IF Starts(l, ack) THEN l.seq[LastOfRun(l)] ELSE ack

Next ==
    \E s \in (ack + 1)..(ack + W) :
        s <= Last /\ (RecvInOrder(s) \/ RecvBuffered(s))

Spec == Init /\ [][Next]_vars

-----------------------------------------------------------------------------
Listed == After(list, Head)
Buffered == {list.seq[n] : n \in Listed}

\* Every node that was made and not deleted is still reached from head, and no
\* deleted one is: pop neither leaks a node nor leaves one behind that the data
\* loop has already deleted (linkList.h 83-108, recvfile.cpp 177-184).
NoNodeLost == list.alloc = Listed \cup {Head}

\* count is the number of buffered packets, although pop counts gaps and not
\* nodes (linkList.h 91-106).
CountIsLength == list.count = Cardinality(Listed)

\* The list implements the set of Receiver: each call takes out just the run
\* that starts after ack.
Promise == INSTANCE Reassembly WITH buffer <- Buffered
Reassembles == Promise!Spec
=============================================================================
