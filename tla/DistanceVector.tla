---------------------------- MODULE DistanceVector ----------------------------
(***************************************************************************)
(* project3 with P_DV: neighbour detection (PINGPONG.cc) and the tables of  *)
(* DV.cc, with its timers.                                                  *)
(*                                                                         *)
(* Time goes in ticks of 5 s.  PINGs leave every second tick, tables every  *)
(* sixth; the expiry alarm goes off every second in the code and once, at   *)
(* the end of a tick, here.  A packet arrives within its tick (delays are   *)
(* below half a second), and packets of a tick arrive in any order.  A PING *)
(* and its PONG are one packet, sent by the PING.  Costs are round trips.   *)
(***************************************************************************)
EXTENDS Integers, FiniteSets

CONSTANTS
    Router,     \* router ids
    Link,       \* pairs of routers
    Flaky,      \* links that may die, come up and change delay
    Delays,     \* one-way delays a link may have
    Delay,      \* the delay of each link at the start
    Garbage,    \* what link_cost of a PORT may hold before it is set
    Infinity,   \* INFINITY_COST, the largest 16-bit number
    Lossy,      \* whether packets are lost (loss_prob)
    MaxChanges, \* bound: links that die, come up or change delay, and losses
    Forget,     \* ticks until nothing is sent over a dead link any more
    Settle      \* ticks until the tables are right; longer ones are not told apart

ASSUME NetworkAssumption ==
    /\ Router \subseteq Nat \ {0}
    /\ Link \subseteq SUBSET Router /\ Flaky \subseteq Link
    /\ Infinity \in Nat
    /\ Delays \subseteq Nat /\ \A d, e \in Delays : d + e < Infinity
    /\ Delay \in [Link -> Delays]
    /\ Garbage \subseteq 0..Infinity
    /\ Lossy \in BOOLEAN /\ MaxChanges \in Nat /\ Settle \in Nat /\ Forget \in 0..Settle

VARIABLES
    clock,      \* the tick, modulo the period of the table alarm
    due,        \* alarms of this tick that have not gone off
    alive,      \* links that are up
    delay,      \* one-way delay of each link
    port,       \* port_map of each router
    table,      \* dv_cost_map, forwarding_table and the ages of the entries
    net,        \* packets under way
    changes,    \* changes and losses so far
    quiet       \* ticks since the last of them
vars == <<clock, due, alive, delay, port, table, net, changes, quiet>>
environment == <<clock, due, alive, delay, changes, quiet>>

-----------------------------------------------------------------------------
\* Periods and ages in ticks.
PING_PERIOD == 2
DV_PERIOD == 6
NEIGHBOUR_AGE == 3      \* 15 s
ENTRY_AGE == 9          \* 45 s: first possible here, certain one tick later
Phases == 0..DV_PERIOD - 1

\* Status of a neighbour: not in port_map; put there by operator[] with nothing
\* set; and the two of the code.
Absent == "absent"
Unset == "unset"
CONNECTED == "connected"
UNCONNECTED == "unconnected"

Modulus == Infinity + 1

\* A mistake: more than 16 bits.
Sum32(a, b) == a + b

Sum16(a, b) == (a + b) % Modulus

Nobody == 0
NoRoute == [nextHop |-> Nobody, cost |-> 0]
NotListed == -1

Route(n, c) == [nextHop |-> n, cost |-> c]
Has(t, d) == t.dv[d].nextHop # Nobody
Via(t, n) == {d \in Router : Has(t, d) /\ t.dv[d].nextHop = n}
Connected(p) == {n \in Router : p[n].status = CONNECTED}

Neighbours(r) == {n \in Router : {r, n} \in Link}

Ports == [Router -> [status : {Absent, Unset, CONNECTED, UNCONNECTED},
                     cost : 0..Infinity, age : 0..NEIGHBOUR_AGE]]
Tables == [dv : [Router -> [nextHop : Router \union {Nobody}, cost : 0..Infinity]],
           fwd : [Router -> Router \union {Nobody}],
           age : [Router -> 0..ENTRY_AGE + 1]]
Vectors == [Router -> 0..Infinity \union {NotListed}]
Packets == [kind : {"pong"}, from : Router, to : Router, delay : Delays] \union
           [kind : {"dv"}, from : Router, to : Router, costs : Vectors]

TypeOK ==
    /\ clock \in Phases
    /\ due \subseteq {"ping", "dv", "expire"} \X Router
    /\ alive \subseteq Link /\ delay \in [Link -> Delays]
    /\ port \in [Router -> Ports]
    /\ table \in [Router -> Tables]
    /\ net \subseteq Packets
    /\ changes \in 0..MaxChanges /\ quiet \in 0..Settle

Init ==
    /\ clock = 0
    /\ due = {"ping", "expire"} \X Router
    /\ alive = Link /\ delay = Delay
    /\ port = [r \in Router |-> [n \in Router |-> [status |-> Absent, cost |-> 0, age |-> 0]]]
    /\ table = [r \in Router |-> [dv |-> [d \in Router |-> NoRoute],
                                  fwd |-> [d \in Router |-> Nobody],
                                  age |-> [d \in Router |-> 0]]]
    /\ net = {} /\ changes = 0 /\ quiet = 0

-----------------------------------------------------------------------------
\* The tables of one router: t is its table, p its ports.

updateForwardingTable(t) ==
    [t EXCEPT !.fwd = [d \in Router |-> IF Has(t, d) THEN t.dv[d].nextHop ELSE @[d]]]

\* The entries of D take these routes and are as new.
WithRoutes(t, D, route) ==
    [dv |-> [d \in Router |-> IF d \in D THEN route[d] ELSE t.dv[d]],
     fwd |-> t.fwd,
     age |-> [d \in Router |-> IF d \in D THEN 0 ELSE t.age[d]]]

\* A mistake: forwarding_table is forgotten.
EraseRoutes(t, D) ==
    [t EXCEPT !.dv = [d \in Router |-> IF d \in D THEN NoRoute ELSE @[d]]]

Erase(t, D) ==
    [dv |-> [d \in Router |-> IF d \in D THEN NoRoute ELSE t.dv[d]],
     fwd |-> [d \in Router |-> IF d \in D THEN Nobody ELSE t.fwd[d]],
     age |-> [d \in Router |-> IF d \in D THEN 0 ELSE t.age[d]]]

updateDVTableByPortMap(t, p) ==
    LET better == {n \in Connected(p) : ~Has(t, n) \/ t.dv[n].cost > p[n].cost}
        equal == {n \in Connected(p) : Has(t, n) /\ t.dv[n].cost = p[n].cost}
        u == WithRoutes(t, better, [d \in Router |-> Route(d, p[d].cost)])
        v == [u EXCEPT !.age = [d \in Router |-> IF d \in equal THEN 0 ELSE @[d]]]
    IN  IF better = {} THEN v ELSE updateForwardingTable(v)

\* A table m of neighbour s reaches router r.
updateDVTableByMsg(r, t, p, s, m) ==
    LET told == {d \in Router \ {r} : m[d] # NotListed}
        cost == [d \in Router |-> Sum16(p[s].cost, m[d])]
        taken == {d \in told : m[d] # Infinity /\
                    (~Has(t, d) \/ t.dv[d].nextHop = s \/ cost[d] <= t.dv[d].cost)}
        poisoned == {d \in told : m[d] = Infinity /\ d \in Via(t, s)}
        u == WithRoutes(t, taken, [d \in Router |-> Route(s, cost[d])])
        v == updateDVTableByPortMap(Erase(u, poisoned), p)
    IN  IF taken \union poisoned = {} THEN v ELSE updateForwardingTable(v)

\* A mistake: no poison reverse.
DV_sendUpdateMsgPlain(r, t, p) ==
    LET told == [d \in Router |-> IF Has(t, d) THEN t.dv[d].cost ELSE NotListed]
    IN  {[kind |-> "dv", from |-> r, to |-> n, costs |-> told] :
            n \in {n \in Connected(p) : {r, n} \in alive}}

DV_sendUpdateMsg(r, t, p) ==
    LET Told(n) == [d \in Router |->
            IF ~Has(t, d) THEN NotListed
            ELSE IF d # n /\ t.dv[d].nextHop = n THEN Infinity
            ELSE t.dv[d].cost]
    IN  {[kind |-> "dv", from |-> r, to |-> n, costs |-> Told(n)] :
            n \in {n \in Connected(p) : {r, n} \in alive}}

\* Whether the direct route to n, at this cost, replaces the entry of n.
IsWorse(t, n, rtt) == Has(t, n) /\ t.dv[n].cost > rtt
Direct(t, n, rtt) ==
    [WithRoutes(t, {n}, [d \in Router |-> Route(n, rtt)]) EXCEPT !.fwd[n] = n]

\* updateLocalDVTable for a neighbour that was not connected and for a cost that
\* changed (Without, below, is its third use).  Routes over a neighbour whose
\* cost changed are corrected by the difference.
NewNeighbour(t, p, n, rtt) ==
    updateDVTableByPortMap(
        IF ~Has(t, n)
        THEN [Direct(t, n, rtt) EXCEPT !.fwd[n] = IF t.fwd[n] = Nobody THEN n ELSE t.fwd[n]]
        ELSE IF IsWorse(t, n, rtt) THEN Direct(t, n, rtt) ELSE t, p)

Corrected(t, n, old, rtt) ==
    WithRoutes(t, Via(t, n), [d \in Router |-> Route(n, Sum16(t.dv[d].cost - old, rtt))])

NewCost(t, p, n, old, rtt) ==
    LET u == Corrected(t, n, old, rtt)
    IN  updateDVTableByPortMap(IF IsWorse(u, n, rtt) THEN Direct(u, n, rtt) ELSE u, p)

-----------------------------------------------------------------------------
\* Alarms of one time go off before what they send arrives.  They do not look at
\* each other's doing, so that one order stands for all: by kind and by id.
GoesOff(kind, r) ==
    /\ <<kind, r>> \in due
    /\ \A a \in due : IF a[1] = kind THEN a[2] >= r ELSE kind = "ping" \/ a[1] = "expire"
    /\ due' = due \ {<<kind, r>>}
AllOff == due = {} \/ due = {"expire"} \X Router

PingAlarm(r) ==
    /\ GoesOff("ping", r)
    /\ net' = net \union {[kind |-> "pong", from |-> n, to |-> r, delay |-> delay[{r, n}]] :
                             n \in {n \in Neighbours(r) : {r, n} \in alive}}
    /\ UNCHANGED <<clock, alive, delay, port, table, changes, quiet>>

\* pong_message_handler.  Both updates send with the ports as they were; the
\* second one may look at a link_cost that operator[] has just made.
PongTakes(m, rtt) ==
    LET r == m.to
        n == m.from
        p == port[r]
        t == table[r]
        isNew == p[n].status # CONNECTED
        t1 == IF isNew THEN NewNeighbour(t, p, n, rtt) ELSE t
        sent1 == IF isNew /\ (~Has(t, n) \/ IsWorse(t, n, rtt))
                 THEN DV_sendUpdateMsg(r, t1, p) ELSE {}
    IN  /\ \E old \in IF p[n].status = Absent THEN Garbage ELSE {p[n].cost} :
              LET t2 == IF old # rtt THEN NewCost(t1, p, n, old, rtt) ELSE t1
                  sent2 == IF old # rtt /\ (Via(t1, n) # {} \/ IsWorse(t1, n, rtt))
                           THEN DV_sendUpdateMsg(r, t2, p) ELSE {}
              IN  /\ table' = [table EXCEPT ![r] = t2]
                  /\ net' = (net \ {m}) \union sent1 \union sent2
        /\ port' = [port EXCEPT ![r][n] = [status |-> CONNECTED, cost |-> rtt, age |-> 0]]
        /\ UNCHANGED environment

\* The PING took the delay of its time, its PONG the same or that of now.
RecvPong(m) ==
    /\ m.kind = "pong"
    /\ \E back \in {m.delay, delay[{m.from, m.to}]} : PongTakes(m, m.delay + back)

\* DV_message_handler, whatever the status of the neighbour is.
RecvTable(m) ==
    LET r == m.to
        s == m.from
    IN  /\ m.kind = "dv"
        /\ \E p \in IF port[r][s].status = Absent
                    THEN {[port[r] EXCEPT ![s] = [status |-> Unset, cost |-> g, age |-> 0]] : g \in Garbage}
                    ELSE {port[r]} :
              /\ port' = [port EXCEPT ![r] = p]
              /\ table' = [table EXCEPT ![r] = updateDVTableByMsg(r, @, p, s, m.costs)]
        /\ net' = net \ {m}
        /\ UNCHANGED environment

DVAlarm(r) ==
    /\ GoesOff("dv", r)
    /\ net' = net \union DV_sendUpdateMsg(r, table[r], port[r])
    /\ UNCHANGED <<clock, alive, delay, port, table, changes, quiet>>

\* The neighbours of gone are lost, all at the end of the loop over port_map.
Closed(p, gone) == [n \in Router |-> IF n \in gone
                        THEN [status |-> UNCONNECTED, cost |-> p[n].cost, age |-> 0] ELSE p[n]]
Without(t, p, gone) ==
    IF gone = {} THEN t
    ELSE updateDVTableByPortMap(Erase(t, UNION {Via(t, n) : n \in gone}), Closed(p, gone))

\* What is sent on the way, losing the neighbours of gone in this order.
SentLosing(r, t, p, gone, order) ==
    LET Upto(n) == {g \in gone : order[g] <= order[n]}
        t1(n) == Without(t, p, Upto(n) \ {n})
    IN  UNION {IF Via(t1(n), n) = {} THEN {}
               ELSE DV_sendUpdateMsg(r, Without(t, p, Upto(n)), Closed(p, Upto(n))) : n \in gone}

\* A mistake: entries do not grow old.
ExpiredNever(t, p, old) == updateDVTableByPortMap(t, p)

\* A mistake: direct routes do not come back.
ExpiredOnly(t, p, old) == Erase(t, old)

\* DV_expire_alarm_handler.
Expired(t, p, old) == updateDVTableByPortMap(Erase(t, old), p)

\* expire_alarm_handler, once the packets of the tick are in.
ExpireAlarm(r) ==
    LET p == port[r]
        gone == {n \in Connected(p) : p[n].age >= NEIGHBOUR_AGE}
        t == Without(table[r], p, gone)
        Older(a) == {d \in Router : Has(t, d) /\ t.age[d] >= a}
    IN  /\ GoesOff("expire", r)
        /\ AllOff => net = {}
        /\ \E old \in SUBSET Older(ENTRY_AGE) :
              /\ Older(ENTRY_AGE + 1) \subseteq old
              /\ table' = [table EXCEPT ![r] = Expired(t, Closed(p, gone), old)]
        /\ \E order \in [gone -> 1..Cardinality(gone)] :
              /\ \A m, n \in gone : order[m] = order[n] => m = n
              /\ net' = net \union SentLosing(r, table[r], p, gone, order)
        /\ port' = [port EXCEPT ![r] = Closed(p, gone)]
        /\ UNCHANGED <<clock, alive, delay, changes, quiet>>

-----------------------------------------------------------------------------
\* The simulator.
Capped(n, max) == IF n < max THEN n + 1 ELSE max

Tick ==
    /\ due = {} /\ net = {}
    /\ clock' = (clock + 1) % DV_PERIOD
    /\ due' = ({"expire"} \union (IF clock' % PING_PERIOD = 0 THEN {"ping"} ELSE {})
                          \union (IF clock' = 0 THEN {"dv"} ELSE {})) \X Router
    /\ port' = [r \in Router |-> [n \in Router |->
                   IF port[r][n].status = CONNECTED
                   THEN [port[r][n] EXCEPT !.age = Capped(@, NEIGHBOUR_AGE)] ELSE port[r][n]]]
    /\ table' = [r \in Router |-> [table[r] EXCEPT !.age =
                   [d \in Router |-> IF Has(table[r], d) THEN Capped(@[d], ENTRY_AGE + 1) ELSE 0]]]
    /\ quiet' = Capped(quiet, Settle)
    /\ UNCHANGED <<alive, delay, net, changes>>

Change == changes < MaxChanges /\ changes' = changes + 1 /\ quiet' = 0

On(m, l) == {m.from, m.to} = l

\* What is on a link that dies may still be sent, or have been.
LinkDies(l) ==
    /\ Change /\ l \in alive
    /\ alive' = alive \ {l}
    /\ \E dropped \in SUBSET {m \in net : On(m, l)} : net' = net \ dropped
    /\ UNCHANGED <<clock, due, delay, port, table>>

LinkComesUp(l) ==
    /\ Change /\ l \notin alive
    /\ alive' = alive \union {l}
    /\ UNCHANGED <<clock, due, delay, port, table, net>>

ChangeDelay(l, d) ==
    /\ Change /\ d # delay[l]
    /\ delay' = [delay EXCEPT ![l] = d]
    /\ UNCHANGED <<clock, due, alive, port, table, net>>

Lose(m) ==
    /\ Change /\ Lossy
    /\ net' = net \ {m}
    /\ UNCHANGED <<clock, due, alive, delay, port, table>>

Deliver(m) == AllOff /\ (RecvPong(m) \/ RecvTable(m))

Alarm(r) == PingAlarm(r) \/ DVAlarm(r) \/ ExpireAlarm(r)

Next ==
    \/ \E m \in net : Deliver(m) \/ Lose(m)
    \/ \E r \in Router : Alarm(r)
    \/ \E l \in Flaky : LinkDies(l) \/ LinkComesUp(l) \/ \E d \in Delays : ChangeDelay(l, d)
    \/ Tick

Spec == Init /\ [][Next]_vars

-----------------------------------------------------------------------------
\* data_message_handler: where a data packet for d that is at r goes.
NextHop(r, d) ==
    LET n == table[r].fwd[d]
    IN  IF n # Nobody /\ port[r][n].status # Absent THEN n ELSE Nobody

\* The forwarding table says what the routes say, although five functions write
\* the one and the other (DV.cc 114-136, 173-228, 286-329).
ForwardingIsNextHop ==
    \A r, d \in Router : table[r].fwd[d] = table[r].dv[d].nextHop

\* A connected neighbour always has a route, never dearer than its link: not
\* even in the middle of losses and changes of delay does a router prefer a way
\* round (DV.cc 173-229, 305-329; PINGPONG.cc 47-65).
NeighbourHasRoute ==
    \A r \in Router : \A n \in Connected(port[r]) :
        Has(table[r], n) /\ table[r].dv[n].cost <= port[r][n].cost

\* Nobody sends over a link that is down, or over a port that was never set, for
\* longer than it takes to forget an entry (PINGPONG.cc 125-163, DV.cc 286-303).
DeadLinksAreLeft ==
    quiet >= Forget => \A r, d \in Router :
        NextHop(r, d) # Nobody => /\ {r, NextHop(r, d)} \in alive
                                  /\ port[r][NextHop(r, d)].status = CONNECTED

\* The routes are the shortest ways over the links that are up: none can be had
\* cheaper from a neighbour, and each is one of a neighbour and the link to it.
Distance(r, d) == IF d = r THEN 0 ELSE IF Has(table[r], d) THEN table[r].dv[d].cost ELSE Infinity
RoundTrip(r, n) == 2 * delay[{r, n}]
Up(r) == {n \in Neighbours(r) : {r, n} \in alive}
RoutesAreShortest ==
    \A r, d \in Router : r # d =>
        /\ \A n \in Up(r) : Distance(r, d) <= RoundTrip(r, n) + Distance(n, d)
        /\ Has(table[r], d) =>
              LET n == table[r].dv[d].nextHop
              IN  n \in Up(r) /\ Distance(r, d) = RoundTrip(r, n) + Distance(n, d)

\* test.txt: "If DV protocol would always record the best path correctly".  Some
\* time after the last change or loss every table is right, whatever costs were
\* wrong in between (DV.cc 32-125, 173-271; PINGPONG.cc 55).
BestPathIsRecorded == quiet >= Settle => RoutesAreShortest
===============================================================================
