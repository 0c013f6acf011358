------------------------------ MODULE LinkState ------------------------------
(***************************************************************************)
(* project3 with P_LS: neighbour detection (PINGPONG.cc) and flooding of    *)
(* link-state packets (LS.cc) over the links of the simulator.              *)
(*                                                                         *)
(* Time is left out: an alarm may go off whenever its handler has something *)
(* to do, for a PING can be lost at any time and the age of an entry grows  *)
(* when nothing renews it.  A PONG may carry any round-trip time of Costs,  *)
(* since the delay of a link may change between PING and PONG.              *)
(***************************************************************************)
EXTENDS Integers, Sequences, FiniteSets

CONSTANTS
    Router,     \* router ids
    Link,       \* pairs of routers
    Costs,      \* round-trip times
    Flaky,      \* links that may die and come up
    Lossy,      \* whether packets are lost (loss_prob)
    Aging,      \* whether stored packets grow older than 45 s
    SeqNums,    \* values of ls_seq_num (2^32)
    MaxPackets  \* bound: link-state packets that are made

ASSUME LinkAssumption ==
    /\ Router \subseteq Nat \ {0}
    /\ Link \subseteq SUBSET Router
    /\ Flaky \subseteq Link
    /\ Costs \subseteq 0..65535      \* what LS.cc 95 leaves of a cost as it is
    /\ Lossy \in BOOLEAN /\ Aging \in BOOLEAN
    /\ SeqNums \in Nat \ {0} /\ MaxPackets \in 0..SeqNums

VARIABLES
    alive,      \* links that are up
    late,       \* <<n, r>>: a PONG of n to r was under way as the link died
    port,       \* port_map: cost of each CONNECTED neighbour, else Unconnected
    topology,   \* lsp_topology_map: which packet of each source is stored
    ls_seq_num, \* static: one for all routers of the process
    seen,       \* lsp_seq_set
    packets,    \* every packet made so far, in order
    net,        \* copies under way: <<from, to, index in packets>>
    \* History, which no action reads:
    lost,       \* copies the network has dropped
    sent,       \* copies that were handed to the network
    resent      \* copies that were handed to it once more
flood == <<ls_seq_num, seen, packets, net, lost, sent, resent>>
vars == <<alive, late, port, topology, flood>>

-----------------------------------------------------------------------------
Unconnected == -1   \* not in port_map, or there with status UNCONNECTED
None == 0           \* no entry in lsp_topology_map

Neighbours(r) == {n \in Router : {r, n} \in Link}
Arcs == {a \in Router \X Router : {a[1], a[2]} \in Link}

Connected(p, r) == {n \in Neighbours(r) : p[r][n] # Unconnected}

\* A mistake: a counter of each router's own.
SeqNumOwn(r) == Cardinality({i \in DOMAIN packets : packets[i].source = r})

\* The number of the next packet, whoever makes it.
SeqNum(r) == ls_seq_num

Knows(r, i) == packets[i].seq \in seen[r]

TypeOK ==
    /\ alive \subseteq Link /\ late \subseteq Arcs
    /\ port \in [Router -> [Router -> Costs \union {Unconnected}]]
    /\ topology \in [Router -> [Router -> 0..Len(packets)]]
    /\ packets \in Seq([source : Router, seq : Nat,
                        costs : [Router -> Costs \union {Unconnected}]])
    /\ seen \in [Router -> SUBSET {packets[i].seq : i \in DOMAIN packets}]
    /\ ls_seq_num \in 0..(SeqNums - 1)
    /\ sent \subseteq {<<a[1], a[2], i>> : a \in Arcs, i \in DOMAIN packets}
    /\ net \subseteq sent /\ lost \subseteq sent /\ resent \subseteq sent
    /\ net \intersect lost = {}

Init ==
    /\ alive = Link /\ late = {}
    /\ port = [r \in Router |-> [n \in Router |-> Unconnected]]
    /\ topology = [r \in Router |-> [s \in Router |-> None]]
    /\ ls_seq_num = 0 /\ seen = [r \in Router |-> {}]
    /\ packets = <<>> /\ net = {}
    /\ lost = {} /\ sent = {} /\ resent = {}

-----------------------------------------------------------------------------
\* Sending on every port: a copy on a dead link is dropped.  (One on a link
\* that dies in the same instant may be dropped too: that is Lose.)
Send(r, i, others) ==
    LET copies == {<<r, n, i>> : n \in Neighbours(r)}
        up == {c \in copies : {c[1], c[2]} \in alive}
    IN  /\ net' = others \union up
        /\ lost' = lost \union (copies \ up)
        /\ sent' = sent \union copies
        /\ resent' = resent \union (sent \intersect copies)

\* A packet of r with these costs: numbered, known to r, sent on every port.
Announce(r, costs) ==
    /\ Len(packets) < MaxPackets
    /\ packets' = Append(packets, [source |-> r, seq |-> SeqNum(r), costs |-> costs])
    /\ seen' = [seen EXCEPT ![r] = @ \union {SeqNum(r)}]
    /\ ls_seq_num' = IF ls_seq_num + 1 = SeqNums THEN 0 ELSE ls_seq_num + 1
    /\ Send(r, Len(packets) + 1, net)

\* A mistake: what was heard before is announced.
FloodStale(r, p) == IF Connected(p, r) = {} THEN UNCHANGED flood ELSE Announce(r, port[r])

\* flooding_lsp, with the ports p; a router without a neighbour is silent.
flooding_lsp(r, p) == IF Connected(p, r) = {} THEN UNCHANGED flood ELSE Announce(r, p[r])

\* A PONG of n reaches r: if it tells r anything new, r floods.
RecvPong(r, n) ==
    /\ {r, n} \in alive \/ <<n, r>> \in late
    /\ \E rtt \in Costs :
          LET p == [port EXCEPT ![r][n] = rtt]
          IN  /\ port' = p
              /\ IF port[r][n] # rtt THEN flooding_lsp(r, p)
                                     ELSE UNCHANGED flood
    /\ late' = late \ {<<n, r>>}
    /\ UNCHANGED <<alive, topology>>

\* delete_nei_in_lsp and LS_expire_alarm_handler: r drops what it stored of them.
Forgotten(r, sources) ==
    [topology EXCEPT ![r] = [s \in Router |-> IF s \in sources THEN None ELSE @[s]]]

\* expire_alarm_handler: the neighbours in gone have not answered for 15 s, the
\* entries in old were not renewed for 45 s.
ExpireAlarm(r) ==
    /\ \E gone \in SUBSET Connected(port, r),
          old \in SUBSET {s \in Router : Aging /\ topology[r][s] # None} :
          LET p == [port EXCEPT ![r] = [n \in Router |-> IF n \in gone THEN Unconnected ELSE @[n]]]
          IN  /\ gone # {} \/ old # {}
              /\ port' = p
              /\ topology' = Forgotten(r, gone \union old)
              /\ IF gone # {} THEN flooding_lsp(r, p)
                              ELSE UNCHANGED flood
    /\ UNCHANGED <<alive, late>>

\* LS_alarm_handler: every 30 s.
LSAlarm(r) ==
    /\ Connected(port, r) # {}
    /\ flooding_lsp(r, port)
    /\ UNCHANGED <<alive, late, port, topology>>

\* A mistake: only the router's own packets are recognised.
IsNewAlways(r, i) == packets[i].source # r

IsNew(r, i) == ~Knows(r, i) /\ packets[i].source # r

\* LS_message_handler, the early return.
RecvKnown(m) ==
    /\ ~IsNew(m[2], m[3])
    /\ net' = net \ {m}
    /\ UNCHANGED <<alive, late, port, topology, ls_seq_num, seen, packets, lost, sent, resent>>

\* LS_message_handler: stored, and sent on every port, back as well.
RecvNew(m) ==
    LET r == m[2]
        i == m[3]
    IN  /\ IsNew(r, i)
        /\ seen' = [seen EXCEPT ![r] = @ \union {packets[i].seq}]
        /\ topology' = [topology EXCEPT ![r][packets[i].source] = i]
        /\ Send(r, i, net \ {m})
        /\ UNCHANGED <<alive, late, port, ls_seq_num, packets>>

-----------------------------------------------------------------------------
\* The simulator.
LinkDies(l) ==
    /\ l \in alive \intersect Flaky
    /\ alive' = alive \ {l}
    /\ \E arcs \in SUBSET {a \in Arcs : {a[1], a[2]} = l} : late' = late \union arcs
    /\ UNCHANGED <<port, topology, flood>>

LinkComesUp(l) ==
    /\ l \in Flaky \ alive
    /\ alive' = alive \union {l}
    /\ late' = {a \in late : {a[1], a[2]} # l}
    /\ UNCHANGED <<port, topology, flood>>

Lose(m) ==
    /\ Lossy
    /\ net' = net \ {m} /\ lost' = lost \union {m}
    /\ UNCHANGED <<alive, late, port, topology, ls_seq_num, seen, packets, sent, resent>>

RouterNext(r) ==
    \/ \E n \in Neighbours(r) : RecvPong(r, n)
    \/ ExpireAlarm(r)
    \/ LSAlarm(r)

NetNext == \E m \in net : RecvKnown(m) \/ RecvNew(m) \/ Lose(m)

Next ==
    \/ \E r \in Router : RouterNext(r)
    \/ NetNext
    \/ \E l \in Link : LinkDies(l) \/ LinkComesUp(l)

Spec == Init /\ [][Next]_vars

\* The simulator delivers what is under way at its time (Simulator.cc 315).
FairSpec == Spec /\ WF_vars(\E m \in net : RecvKnown(m) \/ RecvNew(m))

-----------------------------------------------------------------------------
\* A number names one packet, whoever made it, as long as ls_seq_num has not
\* come round (LS.cc 15 and 84-87).
NumbersAreUnique ==
    \A i, j \in DOMAIN packets : packets[i].seq = packets[j].seq => i = j

\* A flood has no hole of its own: what a router has sent, each neighbour has sent
\* as well, or it is on its way there, or the network has dropped it.  It is told
\* of packets and not of numbers, so that a packet refused for the number of
\* another is a hole (LS.cc 39-56 and 84-105).
Passed(r, i) == \E n \in Neighbours(r) : <<r, n, i>> \in sent
FloodHasNoHole ==
    \A a \in Arcs, i \in DOMAIN packets :
        Passed(a[1], i) => \/ Passed(a[2], i)
                           \/ <<a[1], a[2], i>> \in net \union lost

\* Why there is none: numbers count the packets, a source knows its own, so that
\* it may refuse them, and a router has sent on every port just what it knows
\* (LS.cc 42, 52-56 and 84-105).
FloodInv ==
    /\ Len(packets) <= MaxPackets
    /\ Len(packets) < SeqNums => ls_seq_num = Len(packets)
    /\ \A i \in DOMAIN packets : packets[i].seq = i - 1
    /\ \A i \in DOMAIN packets : Knows(packets[i].source, i)
    /\ \A a \in Arcs, i \in DOMAIN packets : Knows(a[1], i) <=> <<a[1], a[2], i>> \in sent
    /\ \A a \in Arcs, i \in DOMAIN packets :
           Knows(a[1], i) => Knows(a[2], i) \/ <<a[1], a[2], i>> \in net \union lost

\* The last packet of a router tells its present neighbours and costs, unless it
\* has none left (PINGPONG.cc 47-72, 132-153).
IsLast(r, i) == packets[i].source = r /\ \A j \in DOMAIN packets : j > i => packets[j].source # r
AnnouncedIsCurrent ==
    \A r \in Router : Connected(port, r) # {} =>
        \E i \in DOMAIN packets : IsLast(r, i) /\ packets[i].costs = port[r]

\* No router sends a packet a second time over the same link, in whatever order
\* copies come back to it over a cycle: the table of seen numbers is all that
\* prevents it (LS.cc 42-46).
SentOnce == resent = {}

\* A flood dies out, though every router sends a packet back to where it came from
\* (LS.cc 42-56).
FloodsEnd == <>[](net = {})

\* test.txt: "If the LS packets update well by sequence number": what is stored
\* of a source is the newest that was heard of it (LS.cc 42-58).
NewestIsStored ==
    \A r, s \in Router : topology[r][s] # None =>
        \A i \in DOMAIN packets : packets[i].source = s /\ Knows(r, i) => i <= topology[r][s]
=============================================================================
