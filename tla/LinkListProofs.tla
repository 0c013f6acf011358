---------------------------- MODULE LinkListProofs ----------------------------
(***************************************************************************)
(* The list of linkList.h loses no node, counts what it holds, and is the   *)
(* set that Receiver takes it for, for every window.  The nodes that head   *)
(* reaches are numbered along the next pointers; then each walk is a        *)
(* stretch of these numbers.                                                *)
(***************************************************************************)
EXTENDS LinkList, TLAPS, FiniteSetTheorems, WellFoundedInduction

\* Every set of naturals that is not empty has a least element.
LEMMA LeastNat ==
  ASSUME NEW S \in SUBSET Nat, S # {}
  PROVE  \E m \in S : \A n \in S : m <= n
  <1> DEFINE below(n) == 0..n
             initials == {below(n) : n \in S}
  <1>1. initials \subseteq FiniteSubsetsOf(Nat) /\ initials # {}
    <2>1. \A n \in S : below(n) \in SUBSET Nat /\ IsFiniteSet(below(n))
      BY FS_Interval
    <2> QED BY <2>1 DEF FiniteSubsetsOf
  <1>2. \E t \in initials : \A u \in initials : <<u, t>> \notin StrictSubsetOrdering(Nat)
    <2> HIDE DEF initials
    <2> QED BY <1>1, FS_StrictSubsetOrderingWellFounded, WFMin
  <1>3. PICK m \in S : \A u \in initials : <<u, below(m)>> \notin StrictSubsetOrdering(Nat)
    BY <1>2
  <1>4. SUFFICES ASSUME NEW n \in S, n < m PROVE FALSE
    BY DEF initials
  <1>5. /\ below(n) \in SUBSET Nat /\ below(m) \in SUBSET Nat
        /\ below(n) \subseteq below(m) /\ m \in below(m) \ below(n)
    BY <1>4
  <1>6. <<below(n), below(m)>> \in StrictSubsetOrdering(Nat)
    BY <1>5 DEF StrictSubsetOrdering
  <1> QED BY <1>3, <1>6

\* Induction up to a bound, on a set of naturals.
LEMMA Induction ==
  ASSUME NEW K \in Nat, NEW S, 0 \in S, \A k \in 1..K : k - 1 \in S => k \in S
  PROVE  \A k \in 0..K : k \in S
  <1> DEFINE wrong == (0..K) \ S
  <1>1. SUFFICES ASSUME wrong # {} PROVE FALSE
    OBVIOUS
  <1>2. PICK n \in wrong : \A m \in wrong : n <= m
    <2>1. wrong \in SUBSET Nat
      OBVIOUS
    <2> HIDE DEF wrong
    <2> QED BY <1>1, <2>1, LeastNat
  <1>3. n \in 1..K /\ n - 1 \in 0..K /\ n - 1 \notin wrong
    BY <1>2
  <1> QED BY <1>2, <1>3

-----------------------------------------------------------------------------
ListType ==
    [next : [Nodes -> Nodes \cup {NULL}], seq : [Nodes -> Nat], count : Nat,
     alloc : SUBSET Nodes]

\* order[0], which is head, to order[n] are the nodes of l one after the other.
IsChain(l, order, n) ==
    /\ n \in 0..W /\ order \in [0..n -> Nodes]
    /\ order[0] = Head /\ l.next[order[n]] = NULL
    /\ \A i \in 0..(n - 1) : l.next[order[i]] = order[i + 1]
    /\ \A i, j \in 0..n : order[i] = order[j] => i = j
    /\ \A i, j \in 1..n : i < j => l.seq[order[i]] < l.seq[order[j]]
    /\ l.alloc = {order[i] : i \in 0..n}
    /\ l.count = n

\* The recursion of a walk has at most one solution.
IsWalk(g, l, p, ends) ==
    g = [k \in 0..W |-> IF k = 0 THEN p
                        ELSE IF g[k - 1] \in ends THEN g[k - 1] ELSE l.next[g[k - 1]]]
LEMMA WalkIsUnique ==
  ASSUME NEW l, NEW p, NEW ends, NEW g, IsWalk(g, l, p, ends)
  PROVE  Walk(l, p, ends) = g
  <1> DEFINE def(f) == [k \in 0..W |-> IF k = 0 THEN p
                                       ELSE IF f[k - 1] \in ends THEN f[k - 1] ELSE l.next[f[k - 1]]]
             at == CHOOSE f : f = def(f)
  <1>1. at = def(at)
    <2>1. g = def(g)
      BY DEF IsWalk
    <2> HIDE DEF def
    <2> QED BY <2>1
  <1>2. Walk(l, p, ends) = at
    BY DEF Walk
  <1> HIDE DEF at
  <1> DEFINE S == {k \in 0..W : at[k] = g[k]}
  <1>3. 0 \in S
    BY <1>1, ListAssumption DEF IsWalk
  <1>4. \A k \in 1..W : k - 1 \in S => k \in S
    <2> SUFFICES ASSUME NEW k \in 1..W, at[k - 1] = g[k - 1] PROVE at[k] = g[k]
      BY ListAssumption
    <2>1. at[k] = IF at[k - 1] \in ends THEN at[k - 1] ELSE l.next[at[k - 1]]
      BY <1>1, ListAssumption
    <2>2. g[k] = IF g[k - 1] \in ends THEN g[k - 1] ELSE l.next[g[k - 1]]
      BY ListAssumption DEF IsWalk
    <2> QED BY <2>1, <2>2
  <1>5. \A k \in 0..W : at[k] = g[k]
    <2>1. \A k \in 0..W : k \in S
      <3> HIDE DEF S
      <3> QED BY <1>3, <1>4, Induction, ListAssumption
    <2> QED BY <2>1
  <1>6. at = [k \in 0..W |-> at[k]] /\ g = [k \in 0..W |-> g[k]]
    BY <1>1 DEF IsWalk
  <1>7. at = g
    BY <1>5, <1>6
  <1> QED BY <1>2, <1>7

\* A walk from the i-th node to the first at which it ends, the j-th, takes the
\* nodes between in their order and stays there.
LEMMA WalkAlong ==
  ASSUME NEW l, NEW order, NEW n, IsChain(l, order, n),
         NEW i \in 0..n, NEW j \in i..n, NEW ends, order[j] \in ends,
         \A x \in i..(j - 1) : order[x] \notin ends
  PROVE  \A k \in 0..W : Walk(l, order[i], ends)[k] = order[IF i + k <= j THEN i + k ELSE j]
  <1> USE ListAssumption
  <1> DEFINE g == [k \in 0..W |-> order[IF i + k <= j THEN i + k ELSE j]]
  <1>1. ASSUME NEW k \in 1..W
        PROVE  g[k] = IF g[k - 1] \in ends THEN g[k - 1] ELSE l.next[g[k - 1]]
    <2>1. n \in 0..W /\ k - 1 \in 0..W /\ k \in 0..W
      BY DEF IsChain
    <2>2. CASE i + (k - 1) < j
      <3>1. g[k - 1] = order[i + (k - 1)] /\ g[k] = order[i + k]
        BY <2>1, <2>2
      <3>2. i + (k - 1) \in i..(j - 1) /\ i + (k - 1) \in 0..(n - 1) /\ (i + (k - 1)) + 1 = i + k
        BY <2>1, <2>2
      <3>3. g[k - 1] \notin ends
        BY <3>1, <3>2
      <3>4. l.next[order[i + (k - 1)]] = order[i + k]
        BY <3>2 DEF IsChain
      <3> QED BY <3>1, <3>3, <3>4
    <2>3. CASE ~(i + (k - 1) < j)
      <3>1. g[k - 1] = order[j] /\ g[k] = order[j]
        BY <2>1, <2>3
      <3> QED BY <3>1
    <2> QED BY <2>2, <2>3
  <1>2. g[0] = order[i]
    BY DEF IsChain
  <1>3. IsWalk(g, l, order[i], ends)
    <2>1. \A k \in 0..W : g[k] = IF k = 0 THEN order[i]
                                 ELSE IF g[k - 1] \in ends THEN g[k - 1] ELSE l.next[g[k - 1]]
      <3> HIDE DEF g
      <3> QED BY <1>1, <1>2
    <2>2. g = [k \in 0..W |-> g[k]]
      OBVIOUS
    <2> HIDE DEF g
    <2> QED BY <2>1, <2>2 DEF IsWalk
  <1>4. Walk(l, order[i], ends) = g
    <2> HIDE DEF g
    <2> QED BY <1>3, WalkIsUnique
  <1> QED BY <1>4

\* After gives the nodes behind the i-th.
LEMMA AfterIsRest ==
  ASSUME NEW l \in ListType, NEW order, NEW n, IsChain(l, order, n), NEW i \in 0..n
  PROVE  After(l, order[i]) = {order[x] : x \in (i + 1)..n}
  <1> USE ListAssumption
  <1> DEFINE w == Walk(l, order[i], Ends(l))
  <1>1. n \in 0..W /\ \A x \in 0..n : order[x] \in Nodes
    BY DEF IsChain
  <1>2. order[n] \in Ends(l)
    BY <1>1 DEF Ends, IsChain
  <1>3. \A x \in i..(n - 1) : order[x] \notin Ends(l)
    <2> SUFFICES ASSUME NEW x \in i..(n - 1) PROVE l.next[order[x]] # NULL
      BY DEF Ends
    <2>1. l.next[order[x]] = order[x + 1] /\ order[x + 1] \in Nodes
      BY <1>1 DEF IsChain
    <2> QED BY <2>1 DEF Nodes, NULL
  <1>4. \A k \in 0..W : w[k] = order[IF i + k <= n THEN i + k ELSE n]
    <2>1. n \in i..n
      BY <1>1
    <2> QED BY <1>2, <1>3, <2>1, WalkAlong
  <1> HIDE DEF w
  <1>5. After(l, order[i]) = {w[k] : k \in 0..W} \ {order[i]}
    BY DEF After, w
  <1>6. \A x, y \in 0..n : order[x] = order[y] => x = y
    BY DEF IsChain
  <1>7. ASSUME NEW k \in 0..W, w[k] # order[i]
        PROVE  \E x \in (i + 1)..n : w[k] = order[x]
    <2>1. CASE i + k <= n
      <3>1. w[k] = order[i + k] /\ k # 0 /\ i + k \in (i + 1)..n
        BY <1>1, <1>4, <1>7, <2>1
      <3> QED BY <3>1
    <2>2. CASE ~(i + k <= n)
      <3>1. w[k] = order[n] /\ n # i /\ n \in (i + 1)..n
        BY <1>1, <1>4, <1>7, <2>2
      <3> QED BY <3>1
    <2> QED BY <2>1, <2>2
  <1>8. ASSUME NEW x \in (i + 1)..n
        PROVE  order[x] \in {w[k] : k \in 0..W} \ {order[i]}
    <2>1. x - i \in 0..W /\ i + (x - i) = x /\ x <= n /\ x \in 0..n /\ x # i
      BY <1>1
    <2>2. w[x - i] = order[x]
      BY <2>1, <1>4
    <2>3. order[x] # order[i]
      BY <2>1, <1>6
    <2> QED BY <2>1, <2>2, <2>3
  <1> QED BY <1>5, <1>7, <1>8

\* add finds its place: all before it is less than s, all behind it is not.
LEMMA PlaceIsPlace ==
  ASSUME NEW l \in ListType, NEW order, NEW n, IsChain(l, order, n), NEW s \in Nat
  PROVE  \E j \in 0..n : /\ Place(l, s) = order[j]
                         /\ \A x \in 1..j : l.seq[order[x]] < s
                         /\ \A x \in (j + 1)..n : l.seq[order[x]] >= s
  <1> USE ListAssumption
  <1> DEFINE ends == {p \in Nodes : l.next[p] = NULL \/ l.seq[l.next[p]] >= s}
             stops == {x \in 0..n : order[x] \in ends}
  <1>1. n \in 0..W /\ \A x \in 0..n : order[x] \in Nodes /\ l.seq[order[x]] \in Nat
    BY DEF IsChain, ListType
  <1>2. PICK j \in stops : \A x \in stops : j <= x
    <2>1. order[n] \in ends
      BY <1>1 DEF IsChain
    <2>2. stops \in SUBSET Nat /\ stops # {}
      BY <1>1, <2>1
    <2> HIDE DEF stops
    <2> QED BY <2>2, LeastNat
  <1>3. j \in 0..n /\ order[j] \in ends /\ \A x \in 0..(j - 1) : order[x] \notin ends
    BY <1>1, <1>2
  <1>4. \A x \in 0..(n - 1) : l.next[order[x]] = order[x + 1] /\ order[x + 1] \in Nodes
    BY <1>1 DEF IsChain
  <1>5. Place(l, s) = order[j]
    <2>1. 0 \in 0..n /\ j \in 0..n /\ W \in 0..W /\ (IF 0 + W <= j THEN 0 + W ELSE j) = j
      BY <1>1, <1>3
    <2>2. \A x \in 0..(j - 1) : order[x] \notin ends
      BY <1>3
    <2> HIDE DEF ends
    <2>3. \A k \in 0..W : Walk(l, order[0], ends)[k] = order[IF 0 + k <= j THEN 0 + k ELSE j]
      BY <1>3, <2>1, <2>2, WalkAlong
    <2>4. Walk(l, Head, ends)[W] = order[j]
      BY <2>1, <2>3 DEF IsChain
    <2> QED BY <2>4 DEF Place, ends
  <1>6. ASSUME NEW x \in 1..j PROVE l.seq[order[x]] < s
    <2>1. x - 1 \in 0..(j - 1) /\ x - 1 \in 0..(n - 1) /\ (x - 1) + 1 = x /\ x \in 0..n
      BY <1>1, <1>3
    <2>2. order[x - 1] \notin ends /\ order[x - 1] \in Nodes /\ l.next[order[x - 1]] = order[x]
      BY <2>1, <1>1, <1>3, <1>4
    <2> QED BY <2>1, <2>2, <1>1
  <1>7. ASSUME NEW x \in (j + 1)..n PROVE l.seq[order[x]] >= s
    <2>1. j \in 0..(n - 1) /\ j + 1 \in 1..n /\ x \in 1..n
      BY <1>1, <1>3
    <2>2. l.next[order[j]] = order[j + 1] /\ order[j + 1] # NULL
      BY <2>1, <1>4 DEF Nodes, NULL
    <2>3. l.seq[order[j + 1]] >= s
      BY <2>2, <1>3
    <2>4. x = j + 1 \/ l.seq[order[j + 1]] < l.seq[order[x]]
      BY <2>1 DEF IsChain
    <2> QED BY <2>1, <2>3, <2>4, <1>1
  <1> QED BY <1>3, <1>5, <1>6, <1>7

\* The run that pop takes ends before the first gap.
LEMMA RunIsRun ==
  ASSUME NEW l \in ListType, NEW order, NEW n, IsChain(l, order, n), n >= 1
  PROVE  \E j \in 1..n : /\ LastOfRun(l) = order[j]
                         /\ \A x \in 1..j : l.seq[order[x]] = l.seq[order[1]] + (x - 1)
                         /\ j < n => l.seq[order[j + 1]] > l.seq[order[j]] + 1
  <1> USE ListAssumption
  <1> DEFINE ends == {p \in Nodes : l.next[p] = NULL \/ l.seq[p] # l.seq[l.next[p]] - 1}
             stops == {x \in 1..n : order[x] \in ends}
  <1>1. n \in 0..W /\ \A x \in 0..n : order[x] \in Nodes /\ l.seq[order[x]] \in Nat
    BY DEF IsChain, ListType
  <1>2. PICK j \in stops : \A x \in stops : j <= x
    <2>1. order[n] \in ends
      BY <1>1 DEF IsChain
    <2>2. stops \in SUBSET Nat /\ stops # {}
      BY <1>1, <2>1
    <2> HIDE DEF stops
    <2> QED BY <2>2, LeastNat
  <1>3. j \in 1..n /\ order[j] \in ends /\ \A x \in 1..(j - 1) : order[x] \notin ends
    BY <1>1, <1>2
  <1>4. \A x \in 0..(n - 1) : l.next[order[x]] = order[x + 1] /\ order[x + 1] \in Nodes
    BY <1>1 DEF IsChain
  <1>5. LastOfRun(l) = order[j]
    <2>1. 1 \in 0..n /\ j \in 1..n /\ W \in 0..W /\ (IF 1 + W <= j THEN 1 + W ELSE j) = j
      BY <1>1, <1>3
    <2>2. l.next[Head] = order[1]
      BY <1>1, <1>4 DEF IsChain
    <2> HIDE DEF ends
    <2>3. \A k \in 0..W : Walk(l, order[1], ends)[k] = order[IF 1 + k <= j THEN 1 + k ELSE j]
      BY <1>3, <2>1, WalkAlong
    <2>4. Walk(l, l.next[Head], ends)[W] = order[j]
      BY <2>1, <2>2, <2>3
    <2> QED BY <2>4 DEF LastOfRun, ends
  <1> DEFINE S == {x \in 0..(j - 1) : l.seq[order[x + 1]] = l.seq[order[1]] + x}
  <1>6. \A x \in 0..(j - 1) : x \in S
    <2>1. 0 \in S
      BY <1>1, <1>3
    <2>2. ASSUME NEW x \in 1..(j - 1), x - 1 \in S PROVE x \in S
      <3>1. /\ x \in 0..(n - 1) /\ x \in 0..n /\ x + 1 \in 0..n /\ (x - 1) + 1 = x /\ 1 \in 0..n
        BY <1>1, <1>3
      <3>2. order[x] \notin ends /\ order[x] \in Nodes /\ l.next[order[x]] = order[x + 1]
        BY <3>1, <1>1, <1>3, <1>4
      <3>3. l.seq[order[x]] = l.seq[order[x + 1]] - 1
        BY <3>2
      <3>4. l.seq[order[x]] = l.seq[order[1]] + (x - 1)
        BY <2>2, <3>1
      <3> QED BY <3>1, <3>3, <3>4, <1>1
    <2>3. j - 1 \in Nat
      BY <1>1, <1>3
    <2> HIDE DEF S
    <2> QED BY <2>1, <2>2, <2>3, Induction
  <1>7. ASSUME NEW x \in 1..j PROVE l.seq[order[x]] = l.seq[order[1]] + (x - 1)
    <2>1. x - 1 \in 0..(j - 1) /\ (x - 1) + 1 = x
      BY <1>1, <1>3
    <2> QED BY <2>1, <1>6
  <1>8. ASSUME j < n PROVE l.seq[order[j + 1]] > l.seq[order[j]] + 1
    <2>1. j \in 0..(n - 1) /\ j \in 1..n /\ j + 1 \in 1..n /\ j \in 0..n /\ j + 1 \in 0..n
      BY <1>1, <1>3, <1>8
    <2>2. l.next[order[j]] = order[j + 1] /\ order[j + 1] # NULL
      BY <2>1, <1>4 DEF Nodes, NULL
    <2>3. l.seq[order[j]] # l.seq[order[j + 1]] - 1
      BY <2>2, <1>3
    <2>4. l.seq[order[j]] < l.seq[order[j + 1]]
      BY <2>1 DEF IsChain
    <2> QED BY <2>1, <2>3, <2>4, <1>1
  <1> QED BY <1>3, <1>5, <1>7, <1>8

-----------------------------------------------------------------------------
\* The numbers of the packets in the list.
Numbers(l, order, n) == {l.seq[order[x]] : x \in 1..n}

\* Of W + 1 nodes one is free as long as fewer than W are listed.
LEMMA NodeIsFree ==
  ASSUME NEW l, NEW order, NEW n, IsChain(l, order, n), n < W
  PROVE  \E m \in Nodes : m \notin l.alloc
  <1> USE ListAssumption
  <1>1. SUFFICES ASSUME Nodes \subseteq l.alloc PROVE FALSE
    OBVIOUS
  <1>2. n \in Nat /\ order \in [0..n -> Nodes] /\ \A m \in Nodes : \E i \in 0..n : order[i] = m
    BY <1>1 DEF IsChain
  <1>3. order \in Surjection(0..n, Nodes)
    BY <1>2 DEF Surjection
  <1>4. IsFiniteSet(0..n) /\ Cardinality(0..n) = n + 1 /\ Cardinality(Nodes) = W + 1
    BY <1>2, FS_Interval DEF Nodes
  <1>5. Cardinality(Nodes) <= Cardinality(0..n)
    BY <1>3, <1>4, FS_Surjection
  <1> QED BY <1>2, <1>4, <1>5

\* add keeps the list in order and puts just s into it (linkList.h 56-79).
LEMMA AddKeeps ==
  ASSUME NEW l \in ListType, NEW order, NEW n, IsChain(l, order, n), n < W, NEW s \in Nat
  PROVE  /\ Add(l, s) \in ListType
         /\ \E more, m : /\ m \in 1..W /\ IsChain(Add(l, s), more, m)
                         /\ Numbers(Add(l, s), more, m) = Numbers(l, order, n) \cup {s}
  <1> USE ListAssumption
  <1>1. PICK j \in 0..n : /\ Place(l, s) = order[j]
                          /\ \A x \in 1..j : l.seq[order[x]] < s
                          /\ \A x \in (j + 1)..n : l.seq[order[x]] >= s
    BY PlaceIsPlace
  <1> DEFINE p == order[j]
             new == CHOOSE m \in Nodes : m \notin l.alloc
  <1>2. /\ n \in 0..W /\ n + 1 \in 1..W
        /\ \A x \in 0..n : order[x] \in Nodes /\ order[x] \in l.alloc /\ l.seq[order[x]] \in Nat
    BY DEF IsChain, ListType
  <1>3. new \in Nodes /\ new \notin l.alloc /\ new # p
    BY <1>2, NodeIsFree
  <1>4. l.next[p] = IF j = n THEN NULL ELSE order[j + 1]
    <2>1. j = n \/ j \in 0..(n - 1)
      BY <1>2
    <2> QED BY <2>1 DEF IsChain
  <1>5. \A x \in Nodes : x # NULL
    BY DEF Nodes, NULL
  <1>6. (l.next[p] # NULL /\ l.seq[l.next[p]] = s) <=> (j < n /\ l.seq[order[j + 1]] = s)
    <2>1. j = n \/ (j < n /\ j + 1 \in 0..n)
      BY <1>2
    <2> QED BY <2>1, <1>2, <1>4, <1>5
  <1>7. CASE j < n /\ l.seq[order[j + 1]] = s
    <2>1. Add(l, s) = l
      BY <1>1, <1>6, <1>7 DEF Add
    <2>2. j + 1 \in 1..n /\ n \in 1..W
      BY <1>2, <1>7
    <2>3. s \in Numbers(l, order, n)
      BY <2>2, <1>7 DEF Numbers
    <2> QED BY <2>1, <2>2, <2>3
  <1>8. CASE ~(j < n /\ l.seq[order[j + 1]] = s)
    <2> DEFINE l2 == Add(l, s)
               more == [x \in 0..(n + 1) |-> IF x <= j THEN order[x]
                                             ELSE IF x = j + 1 THEN new ELSE order[x - 1]]
    <2>1. l2 = [next |-> [l.next EXCEPT ![new] = l.next[p], ![p] = new],
                seq |-> [l.seq EXCEPT ![new] = s],
                count |-> l.count + 1, alloc |-> l.alloc \cup {new}]
      BY <1>1, <1>6, <1>8 DEF Add
    <2>2. /\ l2.next = [l.next EXCEPT ![new] = l.next[p], ![p] = new]
          /\ l2.seq = [l.seq EXCEPT ![new] = s]
          /\ l2.count = l.count + 1 /\ l2.alloc = l.alloc \cup {new}
      BY <2>1
    <2>3. /\ l.next \in [Nodes -> Nodes \cup {NULL}] /\ l.seq \in [Nodes -> Nat]
          /\ l.count \in Nat /\ l.alloc \in SUBSET Nodes /\ p \in Nodes
      BY <1>2 DEF ListType
    <2> HIDE DEF new, p
    <2>4. l2 \in ListType
      <3>1. l2.next \in [Nodes -> Nodes \cup {NULL}]
        BY <1>3, <2>2, <2>3
      <3>2. l2.seq \in [Nodes -> Nat]
        BY <1>3, <2>2, <2>3
      <3>3. l2.count \in Nat /\ l2.alloc \in SUBSET Nodes
        BY <1>3, <2>2, <2>3
      <3> QED BY <2>1, <2>2, <3>1, <3>2, <3>3 DEF ListType
    <2> HIDE DEF l2
    <2>5. /\ l2.next[new] = l.next[p] /\ l2.next[p] = new /\ l2.seq[new] = s
          /\ \A q \in Nodes : q \notin {new, p} => l2.next[q] = l.next[q]
          /\ \A q \in Nodes : q # new => l2.seq[q] = l.seq[q]
      BY <1>3, <2>2, <2>3
    <2>6. /\ \A x \in 0..j : x \in 0..n /\ more[x] = order[x]
          /\ more[j + 1] = new /\ j + 1 \in 1..(n + 1)
          /\ \A x \in (j + 2)..(n + 1) : x - 1 \in (j + 1)..n /\ x - 1 \in 0..n /\ more[x] = order[x - 1]
      BY <1>2
    <2>7. \A x \in 0..(n + 1) : more[x] \in Nodes /\ (more[x] = new <=> x = j + 1)
      <3> SUFFICES ASSUME NEW x \in 0..(n + 1)
                   PROVE  more[x] \in Nodes /\ (more[x] = new <=> x = j + 1)
        OBVIOUS
      <3>1. x \in 0..j \/ x = j + 1 \/ x \in (j + 2)..(n + 1)
        BY <1>2
      <3> HIDE DEF more
      <3> QED BY <3>1, <2>6, <1>2, <1>3
    <2>8. more \in [0..(n + 1) -> Nodes]
      BY <2>7
    <2> HIDE DEF more
    <2>9. \A x, y \in 0..(n + 1) : more[x] = more[y] => x = y
      <3> SUFFICES ASSUME NEW x \in 0..(n + 1), NEW y \in 0..(n + 1), more[x] = more[y], x # y
                   PROVE  FALSE
        OBVIOUS
      <3>1. x # j + 1 /\ y # j + 1
        BY <2>7
      <3>2. /\ x \in 0..j \/ x \in (j + 2)..(n + 1)
            /\ y \in 0..j \/ y \in (j + 2)..(n + 1)
        BY <3>1, <1>2
      <3>3. \A u, v \in 0..n : order[u] = order[v] => u = v
        BY DEF IsChain
      <3> DEFINE u == IF x \in 0..j THEN x ELSE x - 1
                 v == IF y \in 0..j THEN y ELSE y - 1
      <3>4. u \in 0..n /\ v \in 0..n /\ more[x] = order[u] /\ more[y] = order[v]
        BY <3>2, <2>6
      <3>5. u # v
        BY <3>2, <1>2
      <3> QED BY <3>3, <3>4, <3>5
    <2>10. \A x \in 0..n : l2.next[more[x]] = more[x + 1]
      <3> SUFFICES ASSUME NEW x \in 0..n PROVE l2.next[more[x]] = more[x + 1]
        OBVIOUS
      <3>1. CASE x < j
        <4>1. x \in 0..j /\ x + 1 \in 0..j /\ x \in 0..(n - 1) /\ x # j
          BY <3>1, <1>2
        <4>2. more[x] = order[x] /\ more[x + 1] = order[x + 1] /\ l.next[order[x]] = order[x + 1]
          BY <4>1, <2>6 DEF IsChain
        <4>3. order[x] # p /\ order[x] # new /\ order[x] \in Nodes
          BY <4>1, <1>2, <1>3 DEF IsChain, p
        <4> QED BY <4>2, <4>3, <2>5
      <3>2. CASE x = j
        <4>1. more[x] = p /\ more[x + 1] = new
          BY <3>2, <2>6, <1>2 DEF p
        <4> QED BY <4>1, <2>5
      <3>3. CASE x = j + 1
        <4>1. more[x] = new /\ j # n /\ x + 1 \in (j + 2)..(n + 1) /\ (x + 1) - 1 = j + 1
          BY <3>3, <2>6, <1>2
        <4>2. more[x + 1] = order[j + 1]
          BY <4>1, <2>6
        <4> QED BY <4>1, <4>2, <2>5, <1>4 DEF p
      <3>4. CASE x > j + 1
        <4>1. /\ x \in (j + 2)..(n + 1) /\ x + 1 \in (j + 2)..(n + 1)
              /\ x - 1 \in 0..(n - 1) /\ (x - 1) + 1 = x /\ (x + 1) - 1 = x /\ x - 1 # j
              /\ x - 1 \in 0..n /\ j \in 0..n
          BY <3>4, <1>2
        <4>2. more[x] = order[x - 1] /\ more[x + 1] = order[x] /\ l.next[order[x - 1]] = order[x]
          BY <4>1, <2>6 DEF IsChain
        <4>3. order[x - 1] # p /\ order[x - 1] # new /\ order[x - 1] \in Nodes
          BY <4>1, <1>2, <1>3 DEF IsChain, p
        <4> QED BY <4>2, <4>3, <2>5
      <3> QED BY <3>1, <3>2, <3>3, <3>4, <1>2
    <2>11. l2.next[more[n + 1]] = NULL
      <3>1. CASE j = n
        BY <3>1, <2>5, <2>6, <1>4
      <3>2. CASE j # n
        <4>1. n + 1 \in (j + 2)..(n + 1) /\ (n + 1) - 1 = n /\ n \in 0..n /\ j \in 0..n
          BY <3>2, <1>2
        <4>2. more[n + 1] = order[n] /\ order[n] # p /\ order[n] # new /\ order[n] \in Nodes
          BY <4>1, <3>2, <2>6, <1>2, <1>3 DEF IsChain, p
        <4> QED BY <4>2, <2>5 DEF IsChain
      <3> QED BY <3>1, <3>2
    <2> DEFINE num(x) == l2.seq[more[x]]
    <2>12. /\ \A x \in 1..j : num(x) = l.seq[order[x]] /\ num(x) < s
           /\ num(j + 1) = s
           /\ \A x \in (j + 2)..(n + 1) : num(x) = l.seq[order[x - 1]] /\ num(x) > s
           /\ \A x \in 1..(n + 1) : num(x) \in Nat
      <3>1. ASSUME NEW x \in 1..j PROVE num(x) = l.seq[order[x]] /\ num(x) < s /\ num(x) \in Nat
        <4>1. x \in 0..j /\ x \in 0..n /\ more[x] = order[x] /\ order[x] \in Nodes /\ order[x] # new
          BY <1>2, <1>3, <2>6
        <4> QED BY <4>1, <2>5, <1>1, <1>2
      <3>2. num(j + 1) = s
        BY <2>5, <2>6
      <3>3. ASSUME NEW x \in (j + 2)..(n + 1)
            PROVE  num(x) = l.seq[order[x - 1]] /\ num(x) > s /\ num(x) \in Nat
        <4>1. /\ x - 1 \in (j + 1)..n /\ x - 1 \in 0..n /\ x - 1 \in 1..n /\ j < n
              /\ j + 1 \in (j + 1)..n /\ j + 1 \in 1..n /\ j + 1 \in 0..n
          BY <1>2
        <4>2. more[x] = order[x - 1] /\ order[x - 1] \in Nodes /\ order[x - 1] # new
          BY <4>1, <1>2, <1>3, <2>6
        <4>3. num(x) = l.seq[order[x - 1]]
          BY <4>2, <2>5
        <4>4. l.seq[order[j + 1]] > s
          <5>1. l.seq[order[j + 1]] >= s /\ l.seq[order[j + 1]] # s /\ l.seq[order[j + 1]] \in Nat
            BY <4>1, <1>1, <1>2, <1>8
          <5> QED BY <5>1
        <4>5. x - 1 = j + 1 \/ l.seq[order[j + 1]] < l.seq[order[x - 1]]
          BY <4>1 DEF IsChain
        <4>6. l.seq[order[x - 1]] \in Nat /\ l.seq[order[j + 1]] \in Nat
          BY <4>1, <1>2
        <4> QED BY <4>3, <4>4, <4>5, <4>6
      <3>4. \A x \in 1..(n + 1) : x \in 1..j \/ x = j + 1 \/ x \in (j + 2)..(n + 1)
        BY <1>2
      <3> HIDE DEF num
      <3> QED BY <3>1, <3>2, <3>3, <3>4
    <2> HIDE DEF num
    <2>13. \A x, y \in 1..(n + 1) : x < y => num(x) < num(y)
      <3> SUFFICES ASSUME NEW x \in 1..(n + 1), NEW y \in 1..(n + 1), x < y
                   PROVE  num(x) < num(y)
        OBVIOUS
      <3>1. num(x) \in Nat /\ num(y) \in Nat
        BY <2>12
      <3>2. CASE x \in 1..j /\ y \in 1..j
        <4>1. x \in 1..n /\ y \in 1..n
          BY <3>2, <1>2
        <4>2. l.seq[order[x]] < l.seq[order[y]]
          BY <4>1 DEF IsChain
        <4> QED BY <4>2, <3>2, <2>12
      <3>3. CASE x \in 1..(j + 1) /\ y \in (j + 1)..(n + 1)
        <4>1. /\ x \in 1..j \/ x = j + 1
              /\ y = j + 1 \/ y \in (j + 2)..(n + 1)
          BY <3>3, <1>2
        <4>2. num(x) <= s /\ num(y) >= s /\ (num(x) < s \/ num(y) > s)
          <5>1. num(x) < s \/ (x = j + 1 /\ num(x) = s)
            BY <4>1, <2>12
          <5>2. num(y) > s \/ (y = j + 1 /\ num(y) = s)
            BY <4>1, <2>12
          <5> QED BY <5>1, <5>2, <3>1
        <4> QED BY <4>2, <3>1
      <3>4. CASE x \in (j + 2)..(n + 1) /\ y \in (j + 2)..(n + 1)
        <4>1. x - 1 \in 1..n /\ y - 1 \in 1..n /\ x - 1 < y - 1
          BY <3>4, <1>2
        <4>2. l.seq[order[x - 1]] < l.seq[order[y - 1]]
          BY <4>1 DEF IsChain
        <4> QED BY <4>2, <3>4, <2>12
      <3> QED BY <3>2, <3>3, <3>4, <1>2
    <2>14. l2.alloc = {more[x] : x \in 0..(n + 1)}
      <3>1. l.alloc = {order[x] : x \in 0..n}
        BY DEF IsChain
      <3>2. ASSUME NEW x \in 0..n PROVE \E y \in 0..(n + 1) : more[y] = order[x]
        <4>1. CASE x <= j
          BY <4>1, <2>6, <1>2
        <4>2. CASE ~(x <= j)
          <5>1. x + 1 \in (j + 2)..(n + 1) /\ (x + 1) - 1 = x /\ x + 1 \in 0..(n + 1)
            BY <4>2, <1>2
          <5> QED BY <5>1, <2>6
        <4> QED BY <4>1, <4>2
      <3>3. ASSUME NEW y \in 0..(n + 1) PROVE more[y] = new \/ \E x \in 0..n : more[y] = order[x]
        <4>1. y \in 0..j \/ y = j + 1 \/ y \in (j + 2)..(n + 1)
          BY <1>2
        <4> QED BY <4>1, <2>6
      <3>4. j + 1 \in 0..(n + 1)
        BY <1>2
      <3> QED BY <3>1, <3>2, <3>3, <3>4, <2>2, <2>6
    <2>15. IsChain(l2, more, n + 1)
      <3>1. n + 1 \in 0..W /\ (n + 1) - 1 = n /\ more[0] = Head /\ l2.count = n + 1
        BY <1>2, <2>2, <2>6 DEF IsChain
      <3> QED BY <3>1, <2>8, <2>9, <2>10, <2>11, <2>13, <2>14 DEF IsChain, num
    <2>16. Numbers(l2, more, n + 1) = Numbers(l, order, n) \cup {s}
      <3>1. ASSUME NEW x \in 1..n PROVE \E y \in 1..(n + 1) : num(y) = l.seq[order[x]]
        <4>1. CASE x <= j
          BY <4>1, <2>12, <1>2
        <4>2. CASE ~(x <= j)
          <5>1. x + 1 \in (j + 2)..(n + 1) /\ (x + 1) - 1 = x /\ x + 1 \in 1..(n + 1)
            BY <4>2, <1>2
          <5> QED BY <5>1, <2>12
        <4> QED BY <4>1, <4>2
      <3>2. ASSUME NEW y \in 1..(n + 1) PROVE num(y) = s \/ \E x \in 1..n : num(y) = l.seq[order[x]]
        <4>1. y \in 1..j \/ y = j + 1 \/ (y \in (j + 2)..(n + 1) /\ y - 1 \in 1..n)
          BY <1>2
        <4>2. \A x \in 1..j : x \in 1..n
          BY <1>2
        <4> QED BY <4>1, <4>2, <2>12
      <3>3. Numbers(l2, more, n + 1) = {num(y) : y \in 1..(n + 1)}
        BY DEF Numbers, num
      <3>4. s \in {num(y) : y \in 1..(n + 1)}
        <4>1. num(j + 1) = s /\ j + 1 \in 1..(n + 1)
          BY <2>6, <2>12
        <4> QED BY <4>1
      <3>5. Numbers(l, order, n) = {l.seq[order[x]] : x \in 1..n}
        BY DEF Numbers
      <3> QED BY <3>1, <3>2, <3>3, <3>4, <3>5
    <2> QED BY <2>4, <2>15, <2>16, <1>2 DEF l2
  <1> QED BY <1>7, <1>8

\* What pop takes is the run from a + 1 to the first gap, and it leaves the rest in
\* order (linkList.h 83-108).
LEMMA PopKeeps ==
  ASSUME NEW l \in ListType, NEW order, NEW n, IsChain(l, order, n), NEW a \in Nat,
         Starts(l, a)
  PROVE  /\ Pop(l, a) \in ListType
         /\ \E rest, m, j :
              /\ j \in 1..n /\ m = n - j /\ IsChain(Pop(l, a), rest, m)
              /\ l.seq[LastOfRun(l)] = a + j
              /\ \A x \in 1..j : l.seq[order[x]] = a + x
              /\ \A x \in (j + 1)..n : l.seq[order[x]] > a + j + 1
              /\ Numbers(Pop(l, a), rest, m) = {l.seq[order[x]] : x \in (j + 1)..n}
  <1> USE ListAssumption
  <1>1. /\ n \in 0..W /\ \A x \in 0..n : order[x] \in Nodes /\ l.seq[order[x]] \in Nat
        /\ \A x, y \in 0..n : order[x] = order[y] => x = y
        /\ order[0] = Head
    BY DEF IsChain, ListType
  <1>2. n >= 1 /\ l.next[Head] = order[1] /\ l.seq[order[1]] = a + 1
    <2>1. n # 0
      BY <1>1 DEF Starts, IsChain
    <2>2. 0 \in 0..(n - 1) /\ 0 + 1 = 1
      BY <2>1, <1>1
    <2>3. l.next[order[0]] = order[1]
      BY <2>2 DEF IsChain
    <2> QED BY <2>1, <2>3, <1>1 DEF Starts
  <1>3. PICK j \in 1..n : /\ LastOfRun(l) = order[j]
                          /\ \A x \in 1..j : l.seq[order[x]] = l.seq[order[1]] + (x - 1)
                          /\ j < n => l.seq[order[j + 1]] > l.seq[order[j]] + 1
    BY <1>2, RunIsRun
  <1>4. \A x \in 1..j : l.seq[order[x]] = a + x
    BY <1>2, <1>3
  <1>5. \A x \in (j + 1)..n : l.seq[order[x]] > a + j + 1
    <2> SUFFICES ASSUME NEW x \in (j + 1)..n PROVE l.seq[order[x]] > a + j + 1
      OBVIOUS
    <2>1. j < n /\ x \in 1..n /\ j + 1 \in 1..n /\ x \in 0..n /\ j + 1 \in 0..n /\ j \in 1..j
      BY <1>1
    <2>2. l.seq[order[j + 1]] > a + j + 1
      <3>1. l.seq[order[j]] = a + j /\ l.seq[order[j + 1]] > l.seq[order[j]] + 1
        BY <2>1, <1>3, <1>4
      <3> QED BY <3>1
    <2>3. x = j + 1 \/ l.seq[order[j + 1]] < l.seq[order[x]]
      BY <2>1 DEF IsChain
    <2>4. l.seq[order[j + 1]] \in Nat /\ l.seq[order[x]] \in Nat
      BY <2>1, <1>1
    <2> QED BY <2>2, <2>3, <2>4
  <1> DEFINE e == order[j]
             run == After(l, Head) \ After(l, e)
             l2 == Pop(l, a)
             m == n - j
             rest == [x \in 0..m |-> IF x = 0 THEN Head ELSE order[x + j]]
  <1>6. m \in 0..W /\ j \in 0..n /\ \A x \in 1..m : x + j \in (j + 1)..n /\ x + j \in 0..n
    BY <1>1
  <1>7. /\ run = {order[x] : x \in 1..j}
        /\ After(l, e) = {order[x] : x \in (j + 1)..n}
    <2>1. After(l, order[0]) = {order[x] : x \in (0 + 1)..n} /\ 0 \in 0..n
      <3>1. 0 \in 0..n
        BY <1>1
      <3> QED BY <3>1, AfterIsRest
    <2>2. After(l, e) = {order[x] : x \in (j + 1)..n}
      BY <1>6, AfterIsRest
    <2>3. ASSUME NEW x \in 1..n PROVE order[x] \notin {order[y] : y \in (j + 1)..n} <=> x \in 1..j
      BY <1>1
    <2>4. \A x \in 1..j : x \in (0 + 1)..n /\ x \in 1..n
      BY <1>1
    <2> HIDE DEF e
    <2> QED BY <1>1, <2>1, <2>2, <2>3, <2>4
  <1>8. l.next[e] = IF j = n THEN NULL ELSE order[j + 1]
    <2>1. j = n \/ j \in 0..(n - 1)
      BY <1>1
    <2> QED BY <2>1 DEF IsChain
  <1>9. /\ l2 = [next |-> [l.next EXCEPT ![Head] = l.next[e], ![e] = NULL], seq |-> l.seq,
                 count |-> IF l.next[e] = NULL THEN 0 ELSE l.count - Cardinality(run),
                 alloc |-> l.alloc \ run]
        /\ l2.next = [l.next EXCEPT ![Head] = l.next[e], ![e] = NULL]
        /\ l2.seq = l.seq
        /\ l2.count = IF l.next[e] = NULL THEN 0 ELSE l.count - Cardinality(run)
        /\ l2.alloc = l.alloc \ run
    BY <1>3 DEF Pop
  <1>10. Cardinality(run) = j
    <2> DEFINE f == [x \in 1..j |-> order[x]]
    <2>1. \A x \in 1..j : order[x] \in run /\ x \in 0..n
      BY <1>1, <1>7
    <2>2. f \in [1..j -> run] /\ \A x, y \in 1..j : f[x] = f[y] => x = y
      BY <2>1, <1>1
    <2>3. \A t \in run : \E x \in 1..j : f[x] = t
      BY <1>7
    <2> HIDE DEF f, run
    <2>4. f \in Bijection(1..j, run)
      BY <2>2, <2>3 DEF Bijection, Injection, Surjection, IsInjective
    <2>5. IsFiniteSet(1..j) /\ Cardinality(1..j) = j
      <3>1. 1 \in Int /\ j \in Int /\ ~(1 > j) /\ j - 1 + 1 = j
        BY <1>1
      <3> QED BY <3>1, FS_Interval
    <2> QED BY <2>4, <2>5, FS_Bijection DEF ExistsBijection
  <1>11. l2.count = m
    <2>1. j = n \/ (j < n /\ j + 1 \in 0..n)
      BY <1>1
    <2>2. l.next[e] = NULL <=> j = n
      BY <2>1, <1>1, <1>8 DEF Nodes, NULL
    <2>3. l.count = n
      BY DEF IsChain
    <2> HIDE DEF l2, run, e
    <2> QED BY <2>2, <2>3, <1>1, <1>9, <1>10
  <1>12. Head \in Nodes /\ e \in Nodes /\ e # Head
    <2>1. j \in 0..n /\ 0 \in 0..n /\ j # 0
      BY <1>1
    <2> QED BY <2>1, <1>1
  <1>13. l2 \in ListType
    <2>1. l.next \in [Nodes -> Nodes \cup {NULL}] /\ l.seq \in [Nodes -> Nat] /\ l.alloc \in SUBSET Nodes
      BY DEF ListType
    <2> HIDE DEF e, run
    <2>2. [l.next EXCEPT ![Head] = l.next[e], ![e] = NULL] \in [Nodes -> Nodes \cup {NULL}]
      BY <2>1, <1>12
    <2>3. l2.count \in Nat
      BY <1>6, <1>11
    <2> HIDE DEF l2
    <2> QED BY <1>9, <2>1, <2>2, <2>3 DEF ListType
  <1> HIDE DEF l2
  <1>14. /\ l2.next[Head] = l.next[e] /\ l2.next[e] = NULL
         /\ \A q \in Nodes : q \notin {Head, e} => l2.next[q] = l.next[q]
    <2>1. l.next \in [Nodes -> Nodes \cup {NULL}]
      BY DEF ListType
    <2> HIDE DEF e, run
    <2> QED BY <2>1, <1>9, <1>12
  <1>15. /\ rest[0] = Head /\ \A x \in 1..m : rest[x] = order[x + j] /\ rest[x] # e /\ rest[x] # Head
         /\ \A x \in 0..m : rest[x] \in Nodes /\ rest[x] # e
    <2>1. rest[0] = Head /\ \A x \in 1..m : rest[x] = order[x + j]
      BY <1>6
    <2>2. \A x \in 1..m : x + j # j /\ x + j # 0 /\ x + j \in 0..n /\ j \in 0..n /\ 0 \in 0..n
      BY <1>1, <1>6
    <2>3. \A x \in 1..m : order[x + j] # order[j] /\ order[x + j] # order[0]
      BY <2>2, <1>1
    <2>4. \A x \in 0..m : x = 0 \/ x \in 1..m
      BY <1>6
    <2> HIDE DEF rest
    <2> QED BY <2>1, <2>2, <2>3, <2>4, <1>1, <1>12
  <1>16. rest \in [0..m -> Nodes]
    BY <1>15
  <1> HIDE DEF rest
  <1>17. \A x \in 0..(m - 1) : l2.next[rest[x]] = rest[x + 1]
    <2> SUFFICES ASSUME NEW x \in 0..(m - 1) PROVE l2.next[rest[x]] = rest[x + 1]
      OBVIOUS
    <2>1. x + 1 \in 1..m /\ rest[x + 1] = order[(x + 1) + j] /\ j # n
      BY <1>1, <1>6, <1>15
    <2>2. CASE x = 0
      <3>1. (x + 1) + j = j + 1
        BY <2>2, <1>1
      <3> QED BY <2>1, <2>2, <3>1, <1>8, <1>14, <1>15
    <2>3. CASE x # 0
      <3>1. x \in 1..m /\ x + j \in 0..(n - 1) /\ (x + j) + 1 = (x + 1) + j
        BY <2>3, <1>1, <1>6
      <3>2. rest[x] = order[x + j] /\ rest[x] \in Nodes /\ rest[x] \notin {Head, e}
        BY <3>1, <1>6, <1>15
      <3>3. l.next[order[x + j]] = order[(x + 1) + j]
        BY <3>1 DEF IsChain
      <3> QED BY <2>1, <3>2, <3>3, <1>14
    <2> QED BY <2>2, <2>3
  <1>18. l2.next[rest[m]] = NULL
    <2>1. CASE m = 0
      <3>1. j = n
        BY <2>1, <1>1
      <3> QED BY <2>1, <3>1, <1>8, <1>14, <1>15
    <2>2. CASE m # 0
      <3>1. m \in 1..m /\ m + j = n
        BY <2>2, <1>1, <1>6
      <3>2. rest[m] = order[n] /\ rest[m] \notin {Head, e} /\ rest[m] \in Nodes
        BY <3>1, <1>6, <1>15
      <3> QED BY <3>2, <1>14 DEF IsChain
    <2> QED BY <2>1, <2>2
  <1>19. \A x, y \in 0..m : rest[x] = rest[y] => x = y
    <2> SUFFICES ASSUME NEW x \in 0..m, NEW y \in 0..m, rest[x] = rest[y] PROVE x = y
      OBVIOUS
    <2>1. (x = 0 \/ x \in 1..m) /\ (y = 0 \/ y \in 1..m)
      BY <1>6
    <2>2. CASE x \in 1..m /\ y \in 1..m
      <3>1. order[x + j] = order[y + j] /\ x + j \in 0..n /\ y + j \in 0..n
        BY <2>2, <1>6, <1>15
      <3>2. x + j = y + j
        BY <3>1, <1>1
      <3> QED BY <3>2, <1>1
    <2> QED BY <2>1, <2>2, <1>15
  <1>20. \A x \in 1..m : l2.seq[rest[x]] = l.seq[order[x + j]]
    BY <1>9, <1>15
  <1>21. \A x, y \in 1..m : x < y => l2.seq[rest[x]] < l2.seq[rest[y]]
    <2> SUFFICES ASSUME NEW x \in 1..m, NEW y \in 1..m, x < y
                 PROVE  l2.seq[rest[x]] < l2.seq[rest[y]]
      OBVIOUS
    <2>1. x + j \in 1..n /\ y + j \in 1..n /\ x + j < y + j
      BY <1>1, <1>6
    <2>2. l.seq[order[x + j]] < l.seq[order[y + j]]
      BY <2>1 DEF IsChain
    <2> QED BY <2>2, <1>20
  <1>22. l2.alloc = {rest[x] : x \in 0..m}
    <2>1. l.alloc = {order[x] : x \in 0..n}
      BY DEF IsChain
    <2>2. ASSUME NEW x \in 0..n, order[x] \notin run PROVE \E y \in 0..m : order[x] = rest[y]
      <3>1. x \notin 1..j
        BY <2>2, <1>7
      <3>2. CASE x = 0
        BY <3>2, <1>1, <1>6, <1>15
      <3>3. CASE x # 0
        <4>1. x - j \in 1..m /\ (x - j) + j = x
          BY <3>1, <3>3, <1>1
        <4>2. rest[x - j] = order[x] /\ x - j \in 0..m
          BY <4>1, <1>15
        <4> QED BY <4>2
      <3> QED BY <3>2, <3>3
    <2>3. ASSUME NEW y \in 0..m PROVE rest[y] \in l.alloc /\ rest[y] \notin run
      <3>1. PICK x \in 0..n : rest[y] = order[x] /\ x \notin 1..j
        <4>1. CASE y = 0
          BY <4>1, <1>1, <1>15
        <4>2. CASE y # 0
          <5>1. y \in 1..m /\ y + j \in 0..n /\ y + j \notin 1..j
            BY <4>2, <1>1, <1>6
          <5> QED BY <5>1, <1>15
        <4> QED BY <4>1, <4>2
      <3>2. \A z \in 1..j : z \in 0..n
        BY <1>1
      <3> HIDE DEF run
      <3> QED BY <3>1, <3>2, <2>1, <1>1, <1>7
    <2> HIDE DEF run
    <2> QED BY <2>1, <2>2, <2>3, <1>9
  <1>23. IsChain(l2, rest, m)
    <2> HIDE DEF m
    <2> QED BY <1>6, <1>11, <1>15, <1>16, <1>17, <1>18, <1>19, <1>21, <1>22 DEF IsChain
  <1>24. Numbers(l2, rest, m) = {l.seq[order[x]] : x \in (j + 1)..n}
    <2>1. ASSUME NEW x \in (j + 1)..n PROVE \E y \in 1..m : l.seq[order[x]] = l2.seq[rest[y]]
      <3>1. x - j \in 1..m /\ (x - j) + j = x
        BY <1>1
      <3> QED BY <3>1, <1>20
    <2>2. ASSUME NEW y \in 1..m
          PROVE  \E x \in (j + 1)..n : l.seq[order[x]] = l2.seq[rest[y]]
      BY <1>6, <1>20
    <2>3. Numbers(l2, rest, m) = {l2.seq[rest[y]] : y \in 1..m}
      BY DEF Numbers
    <2> QED BY <2>1, <2>2, <2>3
  <1>25. l.seq[LastOfRun(l)] = a + j
    <2>1. j \in 1..j
      BY <1>1
    <2> QED BY <2>1, <1>3, <1>4
  <1> QED BY <1>4, <1>5, <1>13, <1>23, <1>24, <1>25 DEF l2

-----------------------------------------------------------------------------
\* Between two packets: the nodes of the list are a chain, and what they hold lies
\* inside the window and behind a gap.
InWindow(l, order, n, a) ==
    /\ n < W /\ IsChain(l, order, n)
    /\ \A t \in Numbers(l, order, n) : a + 1 < t /\ t <= a + W
ListInv ==
    /\ ack \in Nat /\ list \in ListType
    /\ \E order, n : InWindow(list, order, n, ack)

\* Numbers of the window behind a gap are fewer than W.
LEMMA FewerThanWindow ==
  ASSUME NEW l \in ListType, NEW order, NEW n, IsChain(l, order, n), NEW a \in Nat,
         \A t \in Numbers(l, order, n) : a + 1 < t /\ t <= a + W
  PROVE  n < W
  <1> USE ListAssumption
  <1> DEFINE f == [x \in 1..n |-> l.seq[order[x]]]
             room == (a + 2)..(a + W)
  <1>1. n \in 0..W /\ \A x \in 1..n : l.seq[order[x]] \in Nat
    <2>1. n \in 0..W /\ \A x \in 1..n : x \in 0..n /\ order[x] \in Nodes
      BY DEF IsChain
    <2> QED BY <2>1 DEF ListType
  <1>2. ASSUME NEW x \in 1..n PROVE f[x] \in room
    <2>1. a + 1 < l.seq[order[x]] /\ l.seq[order[x]] <= a + W
      BY DEF Numbers
    <2> QED BY <2>1, <1>1
  <1>3. \A x, y \in 1..n : f[x] = f[y] => x = y
    <2> SUFFICES ASSUME NEW x \in 1..n, NEW y \in 1..n, x < y PROVE f[x] # f[y]
      BY <1>1
    <2>1. l.seq[order[x]] < l.seq[order[y]]
      BY DEF IsChain
    <2> QED BY <2>1, <1>1
  <1>4. f \in [1..n -> room]
    BY <1>2
  <1> HIDE DEF f
  <1>5. f \in Injection(1..n, room)
    BY <1>3, <1>4 DEF Injection, IsInjective
  <1>6. IsFiniteSet(room) /\ Cardinality(room) = W - 1
    <2>1. a + 2 \in Int /\ a + W \in Int /\ (IF a + 2 > a + W THEN 0 ELSE (a + W) - (a + 2) + 1) = W - 1
      OBVIOUS
    <2> QED BY <2>1, FS_Interval
  <1>7. Cardinality(1..n) = n
    <2>1. 1 \in Int /\ n \in Int /\ (IF 1 > n THEN 0 ELSE n - 1 + 1) = n
      BY <1>1
    <2> QED BY <2>1, FS_Interval
  <1>8. Cardinality(1..n) <= Cardinality(room)
    BY <1>5, <1>6, FS_Injection
  <1> QED BY <1>1, <1>6, <1>7, <1>8

\* What head reaches are the nodes of the chain.
LEMMA ListedIsChain ==
  ASSUME NEW l \in ListType, NEW order, NEW n, IsChain(l, order, n)
  PROVE  /\ After(l, Head) = {order[x] : x \in 1..n}
         /\ {l.seq[p] : p \in After(l, Head)} = Numbers(l, order, n)
         /\ l.alloc = After(l, Head) \cup {Head}
         /\ l.count = Cardinality(After(l, Head))
  <1> USE ListAssumption
  <1>1. /\ n \in 0..W /\ order[0] = Head /\ \A x, y \in 0..n : order[x] = order[y] => x = y
        /\ l.alloc = {order[x] : x \in 0..n} /\ l.count = n
    BY DEF IsChain
  <1>2. After(l, Head) = {order[x] : x \in 1..n}
    <2>1. 0 \in 0..n /\ 0 + 1 = 1
      BY <1>1
    <2>2. After(l, order[0]) = {order[x] : x \in (0 + 1)..n}
      BY <2>1, AfterIsRest
    <2> QED BY <1>1, <2>1, <2>2
  <1>3. {l.seq[p] : p \in After(l, Head)} = Numbers(l, order, n)
    BY <1>2 DEF Numbers
  <1>4. l.alloc = After(l, Head) \cup {Head}
    <2>1. \A x \in 0..n : x = 0 \/ x \in 1..n
      BY <1>1
    <2>2. \A x \in 1..n : x \in 0..n
      BY <1>1
    <2>3. 0 \in 0..n
      BY <1>1
    <2> QED BY <1>1, <1>2, <2>1, <2>2, <2>3
  <1>5. Cardinality(After(l, Head)) = n
    <2> DEFINE f == [x \in 1..n |-> order[x]]
    <2>1. \A x \in 1..n : order[x] \in After(l, Head) /\ x \in 0..n
      BY <1>1, <1>2
    <2>2. f \in [1..n -> After(l, Head)] /\ \A x, y \in 1..n : f[x] = f[y] => x = y
      BY <2>1, <1>1
    <2>3. \A t \in After(l, Head) : \E x \in 1..n : f[x] = t
      BY <1>2
    <2> HIDE DEF f
    <2>4. f \in Bijection(1..n, After(l, Head))
      BY <2>2, <2>3 DEF Bijection, Injection, Surjection, IsInjective
    <2>5. IsFiniteSet(1..n) /\ Cardinality(1..n) = n
      <3>1. 1 \in Int /\ n \in Int /\ (IF 1 > n THEN 0 ELSE n - 1 + 1) = n
        BY <1>1
      <3> QED BY <3>1, FS_Interval
    <2> QED BY <2>4, <2>5, FS_Bijection DEF ExistsBijection
  <1> QED BY <1>1, <1>2, <1>3, <1>4, <1>5

LEMMA InitList == Init => ListInv
  <1> USE ListAssumption
  <1> SUFFICES ASSUME Init PROVE ListInv
    OBVIOUS
  <1> DEFINE order == [x \in 0..0 |-> Head]
  <1>1. Head \in Nodes
    BY DEF Head, Nodes
  <1>2. list \in ListType /\ ack \in Nat
    BY <1>1 DEF Init, ListType
  <1>3. IsChain(list, order, 0)
    <2>1. list.next[Head] = NULL /\ list.count = 0 /\ list.alloc = {Head}
      BY <1>1 DEF Init
    <2>2. 0 \in 0..W /\ order \in [0..0 -> Nodes] /\ order[0] = Head
      BY <1>1
    <2>3. {order[x] : x \in 0..0} = {Head}
      OBVIOUS
    <2> HIDE DEF order
    <2>4. 0..(0 - 1) = {} /\ 1..0 = {} /\ \A x \in 0..0 : x = 0
      OBVIOUS
    <2> QED BY <2>1, <2>2, <2>3, <2>4 DEF IsChain
  <1>4. Numbers(list, order, 0) = {}
    BY DEF Numbers
  <1>5. InWindow(list, order, 0, ack)
    BY <1>3, <1>4 DEF InWindow
  <1> QED BY <1>2, <1>5 DEF ListInv

\* A packet that is put into the list, and the run that it lets out.
LEMMA BufferedStep ==
  ASSUME ListInv, NEW s \in (ack + 1)..(ack + W), RecvBuffered(s)
  PROVE  /\ ListInv'
         /\ \E m \in ack..(ack + W) :
               /\ (ack + 1)..m \subseteq Buffered \cup {s}
               /\ m + 1 \notin Buffered \cup {s}
               /\ ack' = m
               /\ Buffered' = {t \in Buffered \cup {s} : t > m}
  <1> USE ListAssumption
  <1> DEFINE l == Add(list, s)
  <1>1. ack \in Nat /\ list \in ListType /\ s \in Nat
    BY DEF ListInv
  <1>2. PICK order, n : InWindow(list, order, n, ack)
    BY DEF ListInv
  <1>3. /\ IsChain(list, order, n) /\ n < W
        /\ \A t \in Numbers(list, order, n) : ack + 1 < t /\ t <= ack + W
    BY <1>2 DEF InWindow
  <1>4. l \in ListType
    BY <1>1, <1>3, AddKeeps
  <1>5. PICK more, k : /\ k \in 1..W /\ IsChain(l, more, k)
                       /\ Numbers(l, more, k) = Numbers(list, order, n) \cup {s}
    BY <1>1, <1>3, AddKeeps
  <1>6. Buffered = Numbers(list, order, n)
    BY <1>1, <1>3, ListedIsChain DEF Buffered, Listed
  <1>7. list' = Pop(l, ack) /\ ack' = IF Starts(l, ack) THEN l.seq[LastOfRun(l)] ELSE ack
    BY DEF RecvBuffered
  <1> DEFINE N == Buffered \cup {s}
             num(x) == l.seq[more[x]]
  <1> HIDE DEF l
  <1>8. N = {num(x) : x \in 1..k} /\ N = Numbers(l, more, k)
    BY <1>5, <1>6 DEF Numbers
  <1>9. /\ \A x \in 1..k : num(x) \in Nat /\ x \in 0..k /\ more[x] \in Nodes
        /\ \A x, y \in 1..k : x < y => num(x) < num(y)
    <2>1. \A x \in 1..k : x \in 0..k /\ more[x] \in Nodes
      BY <1>5 DEF IsChain
    <2>2. \A x \in 1..k : num(x) \in Nat
      BY <2>1, <1>4 DEF ListType
    <2> QED BY <2>1, <2>2, <1>5 DEF IsChain
  <1>10. \A t \in N : t \in Nat /\ ack + 1 <= t /\ t <= ack + W
    <2>1. \A t \in N : t \in Nat
      BY <1>8, <1>9
    <2>2. \A t \in Buffered : ack + 1 < t /\ t <= ack + W
      BY <1>3, <1>6
    <2> QED BY <2>1, <2>2, <1>1
  <1> HIDE DEF N, num
  <1>11. CASE Starts(l, ack)
    <2>1. Pop(l, ack) \in ListType
      BY <1>1, <1>4, <1>5, <1>11, PopKeeps
    <2>2. PICK rest, m, j :
              /\ j \in 1..k /\ m = k - j /\ IsChain(Pop(l, ack), rest, m)
              /\ l.seq[LastOfRun(l)] = ack + j
              /\ \A x \in 1..j : l.seq[more[x]] = ack + x
              /\ \A x \in (j + 1)..k : l.seq[more[x]] > ack + j + 1
              /\ Numbers(Pop(l, ack), rest, m) = {l.seq[more[x]] : x \in (j + 1)..k}
      BY <1>1, <1>4, <1>5, <1>11, PopKeeps
    <2>3. /\ \A x \in 1..j : num(x) = ack + x /\ x \in 1..k
          /\ \A x \in (j + 1)..k : num(x) > ack + j + 1 /\ x \in 1..k
          /\ \A x \in 1..k : x \in 1..j \/ x \in (j + 1)..k
          /\ Numbers(Pop(l, ack), rest, m) = {num(x) : x \in (j + 1)..k}
      BY <1>5, <2>2 DEF num
    <2>4. ack' = ack + j /\ j \in 1..j /\ ack + j \in Nat
      BY <1>1, <1>5, <1>7, <1>11, <2>2
    <2>5. ack + j \in N
      BY <2>3, <2>4, <1>8
    <2>6. ack + j \in ack..(ack + W)
      BY <2>4, <2>5, <1>1, <1>10
    <2>7. (ack + 1)..(ack + j) \subseteq N
      <3> SUFFICES ASSUME NEW t \in (ack + 1)..(ack + j) PROVE t \in N
        OBVIOUS
      <3>1. t - ack \in 1..j /\ ack + (t - ack) = t
        BY <1>1, <2>4, <2>2, <1>5
      <3> QED BY <3>1, <2>3, <1>8
    <2>8. ASSUME NEW t \in N
          PROVE  /\ t # (ack + j) + 1
                 /\ t > ack + j <=> t \in Numbers(Pop(l, ack), rest, m)
                 /\ t \in Numbers(Pop(l, ack), rest, m) => t > (ack + j) + 1
      <3>1. PICK x \in 1..k : t = num(x)
        BY <1>8
      <3>2. CASE x \in 1..j
        <4>1. t = ack + x /\ ~(t > ack + j) /\ t # (ack + j) + 1
          <5>1. t = ack + x /\ x \in Nat /\ j \in Nat /\ x <= j
            BY <3>1, <3>2, <2>2, <2>3
          <5> QED BY <5>1, <1>1
        <4>2. \A y \in (j + 1)..k : num(y) # t
          <5>1. \A y \in (j + 1)..k : num(y) > ack + j + 1 /\ num(y) \in Nat
            BY <2>3, <1>9
          <5> QED BY <5>1, <4>1, <1>1, <2>2, <1>5, <3>2
        <4> QED BY <4>1, <4>2, <2>3
      <3>3. CASE x \in (j + 1)..k
        <4>1. t > ack + j + 1 /\ t \in Nat /\ t \in Numbers(Pop(l, ack), rest, m)
          BY <3>1, <3>3, <2>3, <1>9
        <4>2. ack + j + 1 = (ack + j) + 1 /\ t > ack + j /\ t # (ack + j) + 1
          BY <4>1, <1>1, <2>2, <1>5
        <4> QED BY <4>1, <4>2
      <3> QED BY <3>2, <3>3, <2>3
    <2>9. Numbers(Pop(l, ack), rest, m) \subseteq N
      BY <2>3, <1>8
    <2>10. (ack + j) + 1 \notin N /\ Numbers(Pop(l, ack), rest, m) = {t \in N : t > ack + j}
      BY <2>8, <2>9
    <2>11. InWindow(Pop(l, ack), rest, m, ack + j)
      <3>1. \A t \in Numbers(Pop(l, ack), rest, m) : (ack + j) + 1 < t /\ t <= (ack + j) + W
        <4> SUFFICES ASSUME NEW t \in Numbers(Pop(l, ack), rest, m)
                     PROVE  (ack + j) + 1 < t /\ t <= (ack + j) + W
          OBVIOUS
        <4>1. t > (ack + j) + 1 /\ t <= ack + W /\ t \in Nat
          BY <2>8, <2>9, <1>10
        <4> QED BY <4>1, <1>1, <2>2, <1>5
      <3>2. m < W
        BY <3>1, <2>1, <2>2, <2>4, FewerThanWindow
      <3> QED BY <3>1, <3>2, <2>2 DEF InWindow
    <2>12. ListInv'
      BY <2>1, <2>4, <2>11, <1>7 DEF ListInv
    <2>13. Buffered' = Numbers(Pop(l, ack), rest, m)
      BY <2>1, <2>2, <1>7, ListedIsChain DEF Buffered, Listed
    <2> QED BY <2>4, <2>6, <2>7, <2>10, <2>12, <2>13 DEF N
  <1>12. CASE ~Starts(l, ack)
    <2>1. Pop(l, ack) = l /\ ack' = ack /\ list' = l
      BY <1>7, <1>12 DEF Pop
    <2>2. num(1) # ack + 1 /\ 1 \in 1..k
      <3>1. 0 \in 0..(k - 1) /\ 0 + 1 = 1 /\ 1 \in 1..k
        BY <1>5
      <3>2. l.next[Head] = more[1] /\ more[1] # NULL
        <4>1. l.next[more[0]] = more[1] /\ more[0] = Head
          BY <3>1, <1>5 DEF IsChain
        <4>2. more[1] \in Nodes
          BY <3>1, <1>9
        <4> QED BY <4>1, <4>2 DEF Nodes, NULL
      <3> QED BY <3>1, <3>2, <1>12 DEF Starts, num
    <2>3. ASSUME NEW t \in N PROVE t > ack + 1
      <3>1. PICK x \in 1..k : t = num(x)
        BY <1>8
      <3>2. num(1) \in N /\ num(1) \in Nat /\ num(1) > ack + 1
        <4>1. num(1) \in N
          BY <2>2, <1>8
        <4> QED BY <4>1, <2>2, <1>10, <1>1
      <3>3. x = 1 \/ num(1) < num(x)
        BY <2>2, <1>9
      <3> QED BY <3>1, <3>2, <3>3, <1>9, <1>1
    <2>4. InWindow(l, more, k, ack)
      <3>1. \A t \in Numbers(l, more, k) : ack + 1 < t /\ t <= ack + W
        BY <2>3, <1>8, <1>10, <1>1
      <3>2. k < W
        BY <3>1, <1>1, <1>4, <1>5, FewerThanWindow
      <3> QED BY <3>1, <3>2, <1>5 DEF InWindow
    <2>5. ListInv'
      BY <2>1, <2>4, <1>1, <1>4 DEF ListInv
    <2>6. Buffered' = N
      BY <2>1, <1>4, <1>5, <1>8, ListedIsChain DEF Buffered, Listed
    <2>7. /\ ack \in ack..(ack + W) /\ (ack + 1)..ack = {} /\ ack + 1 \notin N
          /\ N = {t \in N : t > ack}
      <3>1. \A t \in N : t > ack /\ t # ack + 1
        BY <2>3, <1>1, <1>10
      <3> QED BY <3>1, <1>1
    <2> QED BY <2>1, <2>5, <2>6, <2>7 DEF N
  <1> QED BY <1>11, <1>12

\* The list is a chain from head, between two packets (linkList.h, recvfile.cpp
\* 145-185).
THEOREM ListInvariance == Spec => []ListInv
  <1> USE ListAssumption
  <1>1. ListInv /\ [Next]_vars => ListInv'
    <2> SUFFICES ASSUME ListInv, [Next]_vars PROVE ListInv'
      OBVIOUS
    <2>1. ASSUME NEW s \in (ack + 1)..(ack + W), RecvInOrder(s) PROVE ListInv'
      <3>1. ack' = ack + 1 /\ list' = list /\ list.next[Head] = NULL
        BY <2>1 DEF RecvInOrder
      <3>2. PICK order, n : InWindow(list, order, n, ack)
        BY DEF ListInv
      <3>3. n = 0
        <4> SUFFICES ASSUME n # 0 PROVE FALSE
          OBVIOUS
        <4>1. /\ n \in 0..W /\ IsChain(list, order, n) /\ 0 \in 0..(n - 1) /\ 0 + 1 = 1 /\ 1 \in 0..n
          BY <3>2 DEF InWindow, IsChain
        <4>2. list.next[order[0]] = order[1] /\ order[1] \in Nodes /\ order[0] = Head
          BY <4>1 DEF IsChain
        <4> QED BY <4>2, <3>1 DEF Nodes, NULL
      <3>4. Numbers(list, order, n) = {}
        BY <3>3 DEF Numbers
      <3>5. InWindow(list, order, n, ack + 1)
        BY <3>2, <3>4 DEF InWindow
      <3> QED BY <3>1, <3>5 DEF ListInv
    <2>2. ASSUME NEW s \in (ack + 1)..(ack + W), RecvBuffered(s) PROVE ListInv'
      BY <2>2, BufferedStep
    <2>3. CASE UNCHANGED vars
      BY <2>3 DEF vars, ListInv
    <2> QED BY <2>1, <2>2, <2>3 DEF Next
  <1> QED BY <1>1, InitList, PTL DEF Spec

\* pop and the loop that deletes what it returns neither leak a node nor keep one
\* that is deleted, for every window (linkList.h 83-108, recvfile.cpp 177-184).
THEOREM NodesAreKept == Spec => []NoNodeLost
  <1>1. ListInv => NoNodeLost
    BY ListedIsChain DEF ListInv, InWindow, NoNodeLost, Listed
  <1> QED BY <1>1, ListInvariance, PTL

\* count is the length of the list, for every window (linkList.h 91-106).
THEOREM CountIsRight == Spec => []CountIsLength
  <1>1. ListInv => CountIsLength
    BY ListedIsChain DEF ListInv, InWindow, CountIsLength, Listed
  <1> QED BY <1>1, ListInvariance, PTL

\* The list of nodes implements the set of Reassembly: a call takes out just the run
\* that starts after ack (linkList.h 56-108, recvfile.cpp 167-186).
THEOREM ListReassembles == Spec => Reassembles
  <1> USE ListAssumption
  <1>1. Init => Promise!Init
    <2> SUFFICES ASSUME Init PROVE Promise!Init
      OBVIOUS
    <2>1. PICK order, n : list \in ListType /\ IsChain(list, order, n)
      BY InitList DEF ListInv, InWindow
    <2>2. n = 0 /\ Numbers(list, order, 0) = {}
      <3>1. list.count = 0 /\ n = list.count
        BY <2>1 DEF Init, IsChain
      <3> QED BY <3>1 DEF Numbers
    <2>3. Buffered = {}
      BY <2>1, <2>2, ListedIsChain DEF Buffered, Listed
    <2> QED BY <2>3 DEF Init, Promise!Init
  <1>2. ListInv /\ [Next]_vars => [Promise!Next]_(Promise!vars)
    <2> SUFFICES ASSUME ListInv, [Next]_vars PROVE [Promise!Next]_(Promise!vars)
      OBVIOUS
    <2>1. ASSUME NEW s \in (ack + 1)..(ack + W), s <= Last, RecvInOrder(s) PROVE Promise!Next
      <3>1. /\ s = ack + 1 /\ ack' = ack + 1 /\ list' = list /\ list.next[Head] = NULL
            /\ ack \in Nat /\ list \in ListType
        BY <2>1 DEF RecvInOrder, ListInv
      <3>2. Buffered = {} /\ Buffered' = {}
        <4>1. PICK order, n : IsChain(list, order, n)
          BY DEF ListInv, InWindow
        <4>2. n = 0
          <5> SUFFICES ASSUME n # 0 PROVE FALSE
            OBVIOUS
          <5>1. n \in 0..W /\ 0 \in 0..(n - 1) /\ 0 + 1 = 1 /\ 1 \in 0..n
            BY <4>1 DEF IsChain
          <5>2. list.next[order[0]] = order[1] /\ order[1] \in Nodes /\ order[0] = Head
            BY <4>1, <5>1 DEF IsChain
          <5> QED BY <5>2, <3>1 DEF Nodes, NULL
        <4>3. Buffered = {}
          BY <3>1, <4>1, <4>2, ListedIsChain DEF Buffered, Listed, Numbers
        <4> QED BY <4>3, <3>1 DEF Buffered, Listed
      <3>3. /\ ack + 1 \in ack..(ack + W)
            /\ (ack + 1)..(ack + 1) \subseteq Buffered \cup {s}
            /\ (ack + 1) + 1 \notin Buffered \cup {s}
            /\ Buffered' = {t \in Buffered \cup {s} : t > ack + 1}
        BY <3>1, <3>2
      <3>4. Promise!Take(s)
        BY <3>1, <3>3 DEF Promise!Take
      <3> QED BY <3>4, <2>1 DEF Promise!Next
    <2>2. ASSUME NEW s \in (ack + 1)..(ack + W), s <= Last, RecvBuffered(s) PROVE Promise!Next
      <3>1. Promise!Take(s)
        BY <2>2, BufferedStep DEF Promise!Take
      <3> QED BY <3>1, <2>2 DEF Promise!Next
    <2>3. CASE UNCHANGED vars
      BY <2>3 DEF vars, Promise!vars, Buffered, Listed
    <2> QED BY <2>1, <2>2, <2>3 DEF Next
  <1> QED BY <1>1, <1>2, ListInvariance, PTL DEF Spec, Reassembles, Promise!Spec
=============================================================================
