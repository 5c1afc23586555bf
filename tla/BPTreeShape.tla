----------------------------- MODULE BPTreeShape -----------------------------
(***************************************************************************)
(* The shape of the tree that sets grow, and that every step of a set keeps *)
(* it: the inductive invariant of BPTree under sets and deletes that unlink *)
(* no child, and its lemmas.                                                *)
(*                                                                         *)
(* Cells can be in two lists, so a list says little of its node.  Tree says *)
(* of which cells a node is the owner, and which keys calls reach it with,  *)
(* in a record g that the heap does not hold: cells that a node shares with *)
(* another come after its own, and are above every key that reaches it.     *)
(* While a split is on its way up, the parent of the split node sends it    *)
(* keys that it has given away (Gap); the lemmas Adopt, InsertCell,         *)
(* SplitNode, LeafStore, LeafSplit, NewRoot and Plant say how each step of  *)
(* the code moves this gap up or closes it.  They know the new heap only by *)
(* what has changed in it; that the code makes such heaps is BPTreeProofs.  *)
(***************************************************************************)
EXTENDS BPTree, LeafListProofs, FiniteSetTheorems, SequenceTheorems, TLAPS

------------------------------------------------------------------------------
(* Walks.                                                                   *)

\* What a walk collects in at most k steps from y is f[k][y].
Walks(f, item, next, N) ==
    /\ \A y \in 0..N : f[0][y] = <<>>
    /\ \A k \in 0..N : f[k][0] = <<>>
    /\ \A k \in 1..N, y \in 1..N : f[k][y] = item[y] \o f[k - 1][next[y]]

Collects(f, item, next, N) ==
    /\ Walks(f, item, next, N)
    /\ \A x \in 0..N : Collect(item, next, x) = f[N][x]

\* The recursion of Collect has a solution, whatever the links: it counts steps.
LEMMA CollectIs ==
  ASSUME NEW N \in Nat, NEW next \in [1..N -> 0..N], NEW E, NEW item \in [1..N -> Seq(E)]
  PROVE  \E f \in [0..N -> [0..N -> Seq(E)]] : Collects(f, item, next, N)
<1> DEFINE S == [0..N -> Seq(E)]
           Step(g) == [y \in 0..N |-> IF y = 0 THEN <<>> ELSE item[y] \o g[next[y]]]
           Solves(f) == f = [k \in 0..N |-> [y \in 0..N |->
                               IF k = 0 \/ y = 0 THEN <<>> ELSE item[y] \o f[k - 1][next[y]]]]
           c == CHOOSE f : Solves(f)
           G == [k \in 1..N |-> [g \in S |-> Step(g)]]
<1>1. Cardinality(1..N) = N /\ DOMAIN next = 1..N /\ {0} \union (1..N) = 0..N
  <2>1. 1 \in Int /\ N \in Int /\ (1 > N => N = 0)
    OBVIOUS
  <2>2. Cardinality(1..N) = IF 1 > N THEN 0 ELSE N - 1 + 1
    BY <2>1, FS_Interval, Zenon
  <2>3. {0} \union (1..N) = 0..N
    OBVIOUS
  <2> QED
    BY <2>1, <2>2, <2>3
<1>2. \A g \in S : Step(g) \in S
  <2>1. ASSUME NEW g \in S, NEW y \in 1..N
        PROVE  item[y] \o g[next[y]] \in Seq(E)
    <3>1. item[y] \in Seq(E) /\ g[next[y]] \in Seq(E)
      OBVIOUS
    <3> QED
      BY <3>1, ConcatProperties
  <2>2. ASSUME NEW g \in S, NEW y \in 0..N
        PROVE  (IF y = 0 THEN <<>> ELSE item[y] \o g[next[y]]) \in Seq(E)
    BY <2>1, EmptySeq
  <2> QED
    BY <2>2
<1>3. PICK a \in S : a = [y \in 0..N |-> <<>>]
  BY EmptySeq
<1>4. \E f : Solves(f)
  <2>1. PICK w \in [0..N -> S] : Recurses(w, N, a, G)
    <3>1. G \in [1..N -> [S -> S]]
      <4> HIDE DEF S, Step
      <4> QED
        BY <1>2
    <3> HIDE DEF G, S
    <3> QED
      BY <3>1, RecursionExists
  <2>2. w[0] = a /\ \A k \in 1..N : w[k] = G[k][w[k - 1]]
    BY <2>1 DEF Recurses
  <2>3. ASSUME NEW k \in 1..N
        PROVE  w[k] = Step(w[k - 1])
    <3>1. k - 1 \in 0..N /\ w[k - 1] \in S
      OBVIOUS
    <3>2. \A g \in S : G[k][g] = Step(g)
      <4> HIDE DEF S, Step
      <4> QED
        OBVIOUS
    <3> HIDE DEF G, S
    <3> QED
      BY <2>2, <3>1, <3>2
  <2> DEFINE v == [k \in 0..N |-> [y \in 0..N |->
                      IF k = 0 \/ y = 0 THEN <<>> ELSE item[y] \o w[k - 1][next[y]]]]
  <2>4. ASSUME NEW k \in 0..N PROVE w[k] = v[k]
    <3>1. v[k] = [y \in 0..N |-> IF k = 0 \/ y = 0 THEN <<>> ELSE item[y] \o w[k - 1][next[y]]]
      OBVIOUS
    <3>2. CASE k = 0
      <4>1. v[k] = [y \in 0..N |-> <<>>]
        BY <3>1, <3>2
      <4> QED
        BY <1>3, <2>2, <3>2, <4>1
    <3>3. CASE k # 0
      <4>1. v[k] = Step(w[k - 1])
        BY <3>1, <3>3
      <4>2. k \in 1..N
        BY <3>3
      <4> QED
        BY <2>3, <4>1, <4>2
    <3> QED
      BY <3>2, <3>3
  <2>5. w = v
    <3>1. DOMAIN w = 0..N /\ DOMAIN v = 0..N
      OBVIOUS
    <3>2. w = [k \in 0..N |-> w[k]] /\ v = [k \in 0..N |-> v[k]]
      OBVIOUS
    <3> HIDE DEF v
    <3> QED
      BY <2>4, <3>2
  <2>6. Solves(w)
    BY <2>5
  <2> HIDE DEF Solves
  <2> QED
    BY <2>6
<1>5. Solves(c)
  <2> HIDE DEF Solves
  <2> QED
    BY <1>4
<1>6. \A x : Collect(item, next, x) = c[N][x]
  BY <1>1, Zenon DEF Collect, Null
<1> HIDE DEF c
<1>7. /\ c = [k \in 0..N |-> c[k]]
      /\ \A k \in 0..N : c[k] = [y \in 0..N |-> c[k][y]]
      /\ \A k \in 0..N : \A y \in 0..N :
            c[k][y] = IF k = 0 \/ y = 0 THEN <<>> ELSE item[y] \o c[k - 1][next[y]]
  <2> DEFINE V(k, y) == IF k = 0 \/ y = 0 THEN <<>> ELSE item[y] \o c[k - 1][next[y]]
  <2>1. c = [k \in 0..N |-> [y \in 0..N |-> V(k, y)]]
    BY <1>5
  <2> HIDE DEF V, Solves
  <2>2. \A k \in 0..N : c[k] = [y \in 0..N |-> V(k, y)]
    BY <2>1
  <2>3. \A k \in 0..N : \A y \in 0..N : c[k][y] = V(k, y)
    BY <2>2
  <2>4. \A k \in 0..N : c[k] = [y \in 0..N |-> c[k][y]]
    BY <2>2, <2>3
  <2>5. c = [k \in 0..N |-> c[k]]
    BY <2>1, <2>2
  <2> QED
    BY <2>3, <2>4, <2>5 DEF V
<1> HIDE DEF Solves
<1>8. /\ 0 \in 0..N
      /\ \A k \in 1..N : k \in 0..N /\ k # 0
  OBVIOUS
<1>9. Walks(c, item, next, N)
  <2>1. ASSUME NEW k \in 1..N, NEW y \in 1..N
        PROVE  c[k][y] = item[y] \o c[k - 1][next[y]]
    BY <1>7, <1>8
  <2>2. \A y \in 0..N : c[0][y] = <<>>
    BY <1>7, <1>8
  <2>3. \A k \in 0..N : c[k][0] = <<>>
    BY <1>7, <1>8
  <2> QED
    BY <2>1, <2>2, <2>3 DEF Walks
<1>10. \A k \in 0..N : c[k] \in S
  <2> DEFINE T == {k \in 0..N : \A y \in 0..N : c[k][y] \in Seq(E)}
  <2>1. 0 \in T
    BY <1>7, <1>8, EmptySeq
  <2>2. ASSUME NEW k \in 1..N, k - 1 \in T
        PROVE  k \in T
    <3>1. ASSUME NEW y \in 0..N PROVE c[k][y] \in Seq(E)
      <4>1. CASE y = 0
        BY <1>7, <1>8, <4>1, EmptySeq
      <4>2. CASE y # 0
        <5>1. y \in 1..N /\ next[y] \in 0..N
          BY <4>2
        <5>2. c[k - 1][next[y]] \in Seq(E) /\ item[y] \in Seq(E)
          BY <2>2, <5>1
        <5>3. c[k][y] = item[y] \o c[k - 1][next[y]]
          BY <1>9, <5>1 DEF Walks
        <5> QED
          BY <5>2, <5>3, ConcatProperties
      <4> QED
        BY <4>1, <4>2
    <3> QED
      BY <1>8, <3>1
  <2>3. \A k \in 0..N : k \in T
    <3> HIDE DEF T
    <3> QED
      BY <2>1, <2>2, UpTo
  <2>4. ASSUME NEW k \in 0..N PROVE c[k] \in S
    <3>1. \A y \in 0..N : c[k][y] \in Seq(E)
      BY <2>3
    <3>2. c[k] = [y \in 0..N |-> c[k][y]]
      BY <1>7
    <3> QED
      BY <3>1, <3>2
  <2> QED
    BY <2>4
<1>11. c \in [0..N -> S]
  <2> HIDE DEF S
  <2> QED
    BY <1>7, <1>10
<1>12. Collects(c, item, next, N)
  BY <1>6, <1>9 DEF Collects
<1> QED
  BY <1>11, <1>12

\* A walk along s, each object of which leads to the next.
Linked(next, s) == \A i \in 1..Len(s) - 1 : next[s[i]] = s[i + 1]

Distinct(s) == \A i, j \in 1..Len(s) : s[i] = s[j] => i = j

\* There are no more distinct objects on a walk than there are objects.
LEMMA DistinctIsShort ==
  ASSUME NEW N \in Nat, NEW s \in Seq(1..N), Distinct(s)
  PROVE  Len(s) <= N
<1>1. Len(s) \in Nat /\ s \in [1..Len(s) -> 1..N]
  BY LenProperties
<1>2. s \in Injection(1..Len(s), 1..N)
  BY <1>1 DEF Injection, IsInjective, Distinct
<1>3. IsFiniteSet(1..N)
  BY FS_Interval
<1>4. Cardinality(1..Len(s)) <= Cardinality(1..N)
  BY <1>2, <1>3, FS_Injection
<1>5. \A n \in Nat : Cardinality(1..n) = n
  <2>1. ASSUME NEW n \in Nat PROVE Cardinality(1..n) = n
    <3>1. Cardinality(1..n) = IF 1 > n THEN 0 ELSE n - 1 + 1
      BY FS_Interval
    <3> QED
      BY <3>1
  <2> QED
    BY <2>1
<1> QED
  BY <1>1, <1>4, <1>5

\* One element in front.
LEMMA Prepended ==
  ASSUME NEW S, NEW x \in S, NEW t \in Seq(S)
  PROVE  /\ <<x>> \o t \in Seq(S)
         /\ Len(<<x>> \o t) = Len(t) + 1
         /\ (<<x>> \o t)[1] = x
         /\ \A i \in 2..Len(t) + 1 : (<<x>> \o t)[i] = t[i - 1]
OBVIOUS

\* t begins with s, and is s if s ends for good.
GoesAlong(next, P, s, t) ==
    /\ t \in Seq(P)
    /\ Len(t) >= Len(s)
    /\ \A i \in 1..Len(s) : t[i] = s[i]
    /\ next[s[Len(s)]] = 0 => t = s

\* A walk that can go along s goes along s; where s ends for good, so does the walk.
LEMMA TrailAlong ==
  ASSUME NEW N \in Nat, NEW next \in [1..N -> 0..N],
         NEW P, P = 1..N, NEW s \in Seq(P), Len(s) > 0, Linked(next, s), Distinct(s)
  PROVE  GoesAlong(next, P, s, Trail(next, s[1]))
<1> DEFINE item == [y \in DOMAIN next |-> <<y>>]
           m == Len(s)
<1>1. item \in [1..N -> Seq(P)] /\ \A y \in 1..N : item[y] = <<y>>
  <2>1. \A y \in P : <<y>> \in Seq(P)
    OBVIOUS
  <2> QED
    BY <2>1
<1> HIDE DEF item
<1>2. PICK f : f \in [0..N -> [0..N -> Seq(P)]] /\ Collects(f, item, next, N)
  BY <1>1, CollectIs
<1>3. m \in Nat /\ m > 0 /\ m <= N /\ \A i \in 1..m : s[i] \in 1..N
  <2>1. m <= N
    BY DistinctIsShort
  <2>2. \A i \in 1..m : s[i] \in P
    BY ElementOfSeq
  <2> QED
    BY <2>1, <2>2, LenProperties
<1>4. Trail(next, s[1]) = f[N][s[1]]
  <2>1. 1 \in 1..m
    BY <1>3
  <2>2. s[1] \in 0..N
    BY <1>3, <2>1
  <2> QED
    BY <1>2, <2>2 DEF Collects, Trail, item
<1> DEFINE Along(t, j) ==
              /\ t \in Seq(P)
              /\ Len(t) >= j + 1
              /\ \A i \in 1..j + 1 : t[i] = s[m - j - 1 + i]
              /\ next[s[m]] = 0 => Len(t) = j + 1
           T == {j \in 0..m - 1 : \A k \in j + 1..N : Along(f[k][s[m - j]], j)}
<1>5. ASSUME NEW k \in 1..N, NEW y \in 1..N
      PROVE  f[k][y] = <<y>> \o f[k - 1][next[y]] /\ f[k - 1][next[y]] \in Seq(P)
  <2>1. next[y] \in 0..N /\ k - 1 \in 0..N
    OBVIOUS
  <2>2. f[k - 1][next[y]] \in Seq(P)
    BY <1>2, <2>1
  <2> QED
    BY <1>1, <1>2, <2>2 DEF Collects, Walks
<1>6. 0 \in T
  <2>1. ASSUME NEW k \in 1..N PROVE Along(f[k][s[m]], 0)
    <3>0. m \in 1..m /\ s[m] \in 1..N
      BY <1>3
    <3>1. PICK t \in Seq(P) : t = f[k - 1][next[s[m]]] /\ f[k][s[m]] = <<s[m]>> \o t
      BY <1>5, <3>0
    <3>2. next[s[m]] = 0 => Len(t) = 0
      <4>1. k - 1 \in 0..N
        OBVIOUS
      <4> QED
        BY <1>2, <3>1, <4>1 DEF Collects, Walks
    <3>3. s[m] \in P
      BY <3>0
    <3>4. /\ <<s[m]>> \o t \in Seq(P) /\ Len(<<s[m]>> \o t) = Len(t) + 1
          /\ (<<s[m]>> \o t)[1] = s[m]
      BY <3>3, Prepended
    <3>5. Len(t) \in Nat /\ \A i \in 1..0 + 1 : i = 1 /\ m - 0 - 1 + i = m
      BY <1>3
    <3>6. PICK r : r = <<s[m]>> \o t
      OBVIOUS
    <3>7. /\ r \in Seq(P) /\ Len(r) >= 0 + 1 /\ (next[s[m]] = 0 => Len(r) = 0 + 1)
          /\ \A i \in 1..0 + 1 : r[i] = s[m - 0 - 1 + i]
      <4> HIDE DEF m
      <4> QED
        BY <3>2, <3>4, <3>5, <3>6
    <3> QED
      BY <3>1, <3>6, <3>7
  <2>2. 0 \in 0..m - 1 /\ 0 + 1 = 1 /\ m - 0 = m
    BY <1>3
  <2> HIDE DEF Along, m
  <2> QED
    BY <2>1, <2>2
<1>7. ASSUME NEW j \in 1..m - 1, j - 1 \in T
      PROVE  j \in T
  <2>1. j \in 0..m - 1 /\ m - j \in 1..m - 1 /\ (m - j) + 1 = m - (j - 1)
    BY <1>3
  <2>2. s[m - j] \in 1..N /\ next[s[m - j]] = s[m - (j - 1)]
    <3>1. m - j \in 1..m
      BY <1>3, <2>1
    <3>2. next[s[m - j]] = s[(m - j) + 1]
      BY <2>1 DEF Linked
    <3> QED
      BY <1>3, <2>1, <3>1, <3>2
  <2>3. ASSUME NEW k \in j + 1..N PROVE Along(f[k][s[m - j]], j)
    <3>1. k \in 1..N /\ k - 1 \in (j - 1) + 1..N
      BY <1>3, <2>1
    <3>2. PICK t \in Seq(P) :
             t = f[k - 1][s[m - (j - 1)]] /\ f[k][s[m - j]] = <<s[m - j]>> \o t
      BY <1>5, <2>2, <3>1
    <3>3. Along(t, j - 1)
      BY <1>7, <3>1, <3>2
    <3>4. PICK r : r = <<s[m - j]>> \o t
      OBVIOUS
    <3>5. /\ r \in Seq(P) /\ Len(r) = Len(t) + 1 /\ r[1] = s[m - j]
          /\ \A i \in 2..Len(t) + 1 : r[i] = t[i - 1]
      BY <2>2, <3>4, Prepended
    <3>6. Len(t) >= j /\ (next[s[m]] = 0 => Len(t) = j) /\ Len(t) \in Nat
      BY <1>3, <3>3
    <3>7. ASSUME NEW i \in 1..j + 1 PROVE r[i] = s[m - j - 1 + i]
      <4>1. CASE i = 1
        <5>1. m - j - 1 + i = m - j
          BY <1>3, <4>1
        <5> QED
          BY <3>5, <4>1, <5>1
      <4>2. CASE i # 1
        <5>1. i \in 2..Len(t) + 1 /\ i - 1 \in 1..(j - 1) + 1
          BY <3>6, <4>2
        <5>2. m - (j - 1) - 1 + (i - 1) = m - j - 1 + i
          BY <1>3
        <5>3. t[i - 1] = s[m - (j - 1) - 1 + (i - 1)]
          BY <3>3, <5>1
        <5> QED
          BY <3>5, <5>1, <5>2, <5>3
      <4> QED
        BY <4>1, <4>2
    <3>8. Along(r, j)
      BY <3>5, <3>6, <3>7
    <3> QED
      BY <3>2, <3>4, <3>8
  <2> HIDE DEF Along, m
  <2> QED
    BY <2>1, <2>3
<1>8. m - 1 \in T
  <2>1. m - 1 \in Nat /\ m - 1 \in 0..m - 1
    BY <1>3
  <2> HIDE DEF T, m
  <2> QED
    BY <1>6, <1>7, <2>1, UpTo
<1>9. Along(f[N][s[1]], m - 1)
  <2>1. N \in (m - 1) + 1..N /\ m - (m - 1) = 1
    BY <1>3
  <2> HIDE DEF Along, m
  <2> QED
    BY <1>8, <2>1
<1>10. PICK t : t = Trail(next, s[1])
  OBVIOUS
<1>11. /\ t \in Seq(P) /\ Len(t) >= m /\ \A i \in 1..m : t[i] = s[i]
       /\ next[s[m]] = 0 => Len(t) = m
  <2>1. (m - 1) + 1 = m /\ \A i \in 1..m : m - (m - 1) - 1 + i = i
    BY <1>3
  <2>2. Along(t, m - 1)
    BY <1>4, <1>9, <1>10
  <2> HIDE DEF m
  <2> QED
    BY <2>1, <2>2
<1>12. next[s[m]] = 0 => t = s
  BY <1>11, SeqEqual
<1> QED
  BY <1>10, <1>11, <1>12 DEF GoesAlong

\* The whole walk.
LEMMA TrailIs ==
  ASSUME NEW N \in Nat, NEW next \in [1..N -> 0..N], NEW P, P = 1..N,
         NEW s \in Seq(P), Len(s) > 0, Linked(next, s), Distinct(s), next[s[Len(s)]] = 0
  PROVE  Trail(next, s[1]) = s
<1>1. GoesAlong(next, P, s, Trail(next, s[1]))
  BY TrailAlong
<1> QED
  BY <1>1 DEF GoesAlong

\* A complete walk through V, down the ranks of its objects.
Descends(next, V, rank, s) ==
    /\ s \in Seq(V) /\ Len(s) > 0
    /\ Linked(next, s)
    /\ next[s[Len(s)]] = 0
    /\ \A i, j \in 1..Len(s) : i < j => rank[s[j]] < rank[s[i]]

\* From everything in V, next leads to a lower rank in V, or nowhere.
Falls(next, V, rank) ==
    /\ \A y \in V : rank[y] \in Nat
    /\ \A y \in V : next[y] # 0 => next[y] \in V /\ rank[next[y]] < rank[y]

\* A walk to lower and lower ranks comes to an end.
LEMMA DescentExists ==
  ASSUME NEW V, NEW next, NEW rank, Falls(next, V, rank), NEW x \in V
  PROVE  \E s : Descends(next, V, rank, s) /\ s[1] = x
<1>0. /\ \A y \in V : rank[y] \in Nat
      /\ \A y \in V : next[y] # 0 => next[y] \in V /\ rank[next[y]] < rank[y]
  BY DEF Falls
<1> DEFINE Good(y) == \E s : Descends(next, V, rank, s) /\ s[1] = y
           C == {rank[y] : y \in {z \in V : ~Good(z)}}
<1> SUFFICES ASSUME ~Good(x) PROVE FALSE
  OBVIOUS
<1>1. C \in SUBSET Nat /\ C # {}
  <2> HIDE DEF Good
  <2> QED
    BY <1>0
<1>2. PICK n \in C : \A k \in C : n <= k
  <2> HIDE DEF C
  <2> QED
    BY <1>1, LeastNatural
<1>3. PICK y \in V : ~Good(y) /\ rank[y] = n
  <2> HIDE DEF Good
  <2> QED
    OBVIOUS
<1>4. ASSUME NEW z \in V, rank[z] < rank[y] PROVE Good(z)
  <2> HIDE DEF Good
  <2>1. rank[z] \in Nat /\ n \in Nat
    BY <1>0, <1>1
  <2>2. rank[z] \notin C
    BY <1>2, <1>3, <1>4, <2>1
  <2> QED
    BY <2>2
<1>5. CASE next[y] = 0
  <2>1. PICK s : s = <<y>>
    OBVIOUS
  <2>2. s \in Seq(V) /\ Len(s) = 1 /\ s[1] = y
    BY <2>1
  <2>3. Descends(next, V, rank, s)
    BY <1>5, <2>2 DEF Descends, Linked
  <2> QED
    BY <1>3, <2>2, <2>3
<1>6. CASE next[y] # 0
  <2>1. next[y] \in V /\ rank[next[y]] < rank[y]
    BY <1>0, <1>6
  <2>2. PICK t : Descends(next, V, rank, t) /\ t[1] = next[y]
    BY <1>4, <2>1
  <2>3. t \in Seq(V) /\ Len(t) > 0 /\ Len(t) \in Nat
    BY <2>2 DEF Descends
  <2>4. PICK s : s = <<y>> \o t
    OBVIOUS
  <2>5. /\ s \in Seq(V) /\ Len(s) = Len(t) + 1 /\ s[1] = y
        /\ \A i \in 2..Len(t) + 1 : s[i] = t[i - 1]
    BY <2>3, <2>4, Prepended
  <2>6. Linked(next, s)
    <3> SUFFICES ASSUME NEW i \in 1..Len(s) - 1 PROVE next[s[i]] = s[i + 1]
      BY DEF Linked
    <3>1. i + 1 \in 2..Len(t) + 1 /\ (i + 1) - 1 = i
      BY <2>3, <2>5
    <3>2. s[i + 1] = t[i]
      BY <2>5, <3>1
    <3>3. CASE i = 1
      BY <2>2, <2>5, <3>2, <3>3
    <3>4. CASE i # 1
      <4>1. i \in 2..Len(t) + 1 /\ i - 1 \in 1..Len(t) - 1 /\ (i - 1) + 1 = i
        BY <2>3, <2>5, <3>4
      <4>2. next[t[i - 1]] = t[(i - 1) + 1]
        BY <2>2, <4>1 DEF Descends, Linked
      <4> QED
        BY <2>5, <3>2, <4>1, <4>2
    <3> QED
      BY <3>3, <3>4
  <2>7. next[s[Len(s)]] = 0
    <3>1. Len(s) \in 2..Len(t) + 1 /\ Len(s) - 1 = Len(t)
      BY <2>3, <2>5
    <3> QED
      BY <2>2, <2>5, <3>1 DEF Descends
  <2>8. ASSUME NEW i \in 1..Len(s), NEW j \in 1..Len(s), i < j
        PROVE  rank[s[j]] < rank[s[i]]
    <3>1. j \in 2..Len(t) + 1 /\ j - 1 \in 1..Len(t) /\ s[j] = t[j - 1]
      BY <2>3, <2>5, <2>8
    <3>2. rank[t[j - 1]] \in Nat /\ rank[y] \in Nat /\ rank[t[1]] \in Nat
      <4>1. t[j - 1] \in V /\ t[1] \in V
        BY <2>1, <2>2, <2>3, <3>1, ElementOfSeq
      <4> QED
        BY <1>0, <4>1
    <3>3. CASE i = 1
      <4>1. CASE j = 2
        BY <2>1, <2>2, <2>5, <3>1, <3>3, <4>1
      <4>2. CASE j # 2
        <5>1. 1 \in 1..Len(t) /\ 1 < j - 1
          BY <2>3, <3>1, <4>2
        <5>2. rank[t[j - 1]] < rank[t[1]]
          BY <2>2, <3>1, <5>1 DEF Descends
        <5> QED
          BY <2>1, <2>2, <2>5, <3>1, <3>2, <3>3, <5>2
      <4> QED
        BY <4>1, <4>2
    <3>4. CASE i # 1
      <4>1. i \in 2..Len(t) + 1 /\ i - 1 \in 1..Len(t) /\ i - 1 < j - 1
        BY <2>3, <2>5, <2>8, <3>4
      <4>2. rank[t[j - 1]] < rank[t[i - 1]]
        BY <2>2, <3>1, <4>1 DEF Descends
      <4> QED
        BY <2>5, <3>1, <4>1, <4>2
    <3> QED
      BY <3>3, <3>4
  <2>9. Descends(next, V, rank, s)
    BY <2>3, <2>5, <2>6, <2>7, <2>8 DEF Descends
  <2> QED
    BY <1>3, <2>5, <2>9
<1> QED
  BY <1>5, <1>6

\* Sequences over a larger set.
LEMMA WiderSeq ==
  ASSUME NEW S, NEW T, S \subseteq T, NEW s \in Seq(S)
  PROVE  s \in Seq(T)
OBVIOUS

\* Such a walk is the one that Trail gives.
LEMMA RankedTrail ==
  ASSUME NEW N \in Nat, NEW next \in [1..N -> 0..N],
         NEW V, V \subseteq 1..N, NEW rank, Falls(next, V, rank), NEW x \in V
  PROVE  Descends(next, V, rank, Trail(next, x)) /\ Trail(next, x)[1] = x
<1>1. PICK s : Descends(next, V, rank, s) /\ s[1] = x
  BY DescentExists
<1>2. s \in Seq(V) /\ Len(s) > 0 /\ Len(s) \in Nat /\ \A i \in 1..Len(s) : s[i] \in V
  BY <1>1 DEF Descends
<1>3. PICK P : P = 1..N
  OBVIOUS
<1>4. s \in Seq(P)
  <2>2. V \subseteq P
    BY <1>3
  <2> QED
    BY <1>2, <2>2, WiderSeq
<1>5. Distinct(s)
  <2> SUFFICES ASSUME NEW i \in 1..Len(s), NEW j \in 1..Len(s), s[i] = s[j], i # j
               PROVE  FALSE
    BY DEF Distinct
  <2>1. rank[s[i]] \in Nat
    BY <1>2 DEF Falls
  <2>2. i < j \/ j < i
    BY <1>2
  <2> QED
    BY <1>1, <2>1, <2>2 DEF Descends
<1>6. Trail(next, s[1]) = s
  <2>1. Linked(next, s) /\ next[s[Len(s)]] = 0
    BY <1>1 DEF Descends
  <2> QED
    BY <1>2, <1>3, <1>4, <1>5, <2>1, TrailIs
<1> QED
  BY <1>1, <1>6

------------------------------------------------------------------------------
(* The shape of the tree.                                                   *)

Nodes(h) == 1..Len(h.node)
Cells(h) == 1..Len(h.cell)

\* All pointers are to objects of the heap, or null where the code allows it; no cell
\* has been freed.
HeapTyped(h) ==
    /\ h \in [node : Seq(NodeType), cell : Seq(CellType)]
    /\ \A n \in Nodes(h) : /\ h.node[n].next \in 0..Len(h.node)
                           /\ h.node[n].lesser \in 0..Len(h.node)
                           /\ h.node[n].first \in 0..Len(h.cell)
    /\ \A c \in Cells(h) : /\ h.cell[c].next \in 0..Len(h.cell)
                           /\ h.cell[c].child \in Nodes(h)
                           /\ h.cell[c].live = TRUE

\* What is known of a tree beyond its heap.  A node has
\*   rank     above the ranks of its children,
\*   resp     the keys that calls reach it with,
\*   under    the keys that its parent sends to it, more than resp only while its
\*            split is not yet known to the parent,
\*   own      its own cells, the first ones of its list,
\*   parent   the node that sends calls to it,
\*   pos      for a leaf, the number of leaves that follow it;
\* a cell has an owner, a key a leaf that is its home; spine are the nodes from the
\* root to head, the leftmost leaf.
GhostTyped(h, g) ==
    /\ \A n \in Nodes(h) :
          /\ g.rank[n] \in Nat /\ g.parent[n] \in Nat /\ g.pos[n] \in Nat
          /\ g.resp[n] \subseteq Key /\ g.under[n] \subseteq Key
          /\ g.own[n] \in Seq(Nat)
    /\ \A c \in Cells(h) : g.owner[c] \in Nat

\* An internal node that calls can reach.
Inner(h, g, n) == n \in Nodes(h) /\ ~h.node[n].leaf /\ g.resp[n] # {}

\* Keys in slot j of a list of cells: at or above cell j, below the next cell.
InSlot(h, s, x, j) ==
    /\ j > 0 => h.cell[s[j]].key <= x
    /\ j < Len(s) => x < h.cell[s[j + 1]].key

\* The child that is responsible for slot j.
Kid(h, n, s, j) == IF j = 0 THEN h.node[n].lesser ELSE h.cell[s[j]].child

\* The list of node n begins with its own cells, in ascending order.  What it
\* shares with another list comes after them, and is above every key of n.
CellsOf(h, owner, n, s, R) ==
    /\ Len(s) > 0 /\ Len(s) = h.node[n].size
    /\ h.node[n].first = s[1]
    /\ \A i \in 1..Len(s) : s[i] \in Cells(h) /\ owner[s[i]] = n /\ h.cell[s[i]].key \in R
    /\ \A i \in 1..Len(s) - 1 : h.cell[s[i]].next = s[i + 1]
    /\ \A i, j \in 1..Len(s) : i < j => h.cell[s[i]].key < h.cell[s[j]].key
    /\ h.cell[s[Len(s)]].next # 0 => \A x \in R : x < h.cell[h.cell[s[Len(s)]].next].key

\* Slot j of node n is used: some call passes through it.
Used(h, g, n, j) ==
    /\ Inner(h, g, n)
    /\ j \in 0..Len(g.own[n])
    /\ \E x \in g.resp[n] : InSlot(h, g.own[n], x, j)

\* What a used slot says of its child.
Passes(h, g, n, j) ==
    LET kid == Kid(h, n, g.own[n], j)
    IN  /\ kid \in Nodes(h)
        /\ g.rank[kid] < g.rank[n]
        /\ g.parent[kid] = n
        /\ \A x \in Key : x \in g.under[kid] <=> x \in g.resp[n] /\ InSlot(h, g.own[n], x, j)

\* A leaf holds entries for its keys only, and nothing else holds entries for them.
LeafOf(n, home, l, R) ==
    /\ Sorted(n.list)
    /\ n.size = Len(n.list)
    /\ n.size <= max_size
    /\ \A i \in 1..Len(n.list) : n.list[i].key \in R
    /\ \A x \in R : home[x] = l
    /\ n.lesser = 0 /\ n.first = 0

RootInv(h, root, g) ==
    root \in Nodes(h) /\ ~h.node[root].leaf /\ g.under[root] = Key /\ g.parent[root] = 0

LeafInv(h, g) ==
    /\ \A n \in Nodes(h) : h.node[n].leaf => LeafOf(h.node[n], g.home, n, g.resp[n])
    /\ \A x \in Key : g.home[x] \in Nodes(h) /\ h.node[g.home[x]].leaf /\ x \in g.resp[g.home[x]]

CellInv(h, g, over) ==
    \A n : Inner(h, g, n) =>
        /\ CellsOf(h, g.owner, n, g.own[n], g.resp[n])
        /\ h.node[n].size <= IF n = over THEN ORDER ELSE max_size

SlotInv(h, g) == \A n, j : Used(h, g, n, j) => Passes(h, g, n, j)

\* From the root, m_lesser leads to head.
SpineInv(h, root, g) ==
    /\ g.spine \subseteq Nodes(h) /\ root \in g.spine
    /\ g.head \in Nodes(h) /\ h.node[g.head].leaf
    /\ \A n \in g.spine :
          IF h.node[n].leaf THEN n = g.head
          ELSE h.node[n].lesser \in g.spine /\ g.rank[h.node[n].lesser] < g.rank[n]

\* From head, m_next leads through all leaves, to larger and larger keys.
ChainInv(h, g) ==
    /\ \A n \in Nodes(h) : h.node[n].leaf =>
          /\ g.pos[n] <= g.pos[g.head]
          /\ h.node[n].next = 0 <=> g.pos[n] = 0
          /\ h.node[n].next # 0 =>
                h.node[h.node[n].next].leaf /\ g.pos[h.node[n].next] = g.pos[n] - 1
    /\ \A m, n \in Nodes(h) : h.node[m].leaf /\ h.node[n].leaf /\ m # n =>
          /\ g.pos[m] # g.pos[n]
          /\ g.pos[n] < g.pos[m] => \A x \in g.resp[m], y \in g.resp[n] : x < y

Tree(h, root, g, over) ==
    /\ HeapTyped(h)
    /\ GhostTyped(h, g)
    /\ RootInv(h, root, g)
    /\ LeafInv(h, g)
    /\ CellInv(h, g, over)
    /\ SlotInv(h, g)
    /\ SpineInv(h, root, g)
    /\ ChainInv(h, g)

\* No split is pending.
Whole(h, g) == \A n \in Nodes(h) : g.under[n] = g.resp[n]

------------------------------------------------------------------------------
(* Types.                                                                   *)

\* The types of all fields, one by one.
Basics(h) ==
    /\ Len(h.node) \in Nat /\ Len(h.cell) \in Nat
    /\ \A n \in Nodes(h) :
          /\ h.node[n].leaf \in BOOLEAN /\ h.node[n].size \in 0..SizeMod - 1
          /\ h.node[n].list \in Seq([key : Key, val : Val])
          /\ h.node[n].next \in 0..Len(h.node)
          /\ h.node[n].lesser \in 0..Len(h.node)
          /\ h.node[n].first \in 0..Len(h.cell)
    /\ \A c \in Cells(h) :
          /\ h.cell[c].key \in Key /\ h.cell[c].key \in Int
          /\ h.cell[c].next \in 0..Len(h.cell)
          /\ h.cell[c].child \in Nodes(h)
          /\ h.cell[c].live \in BOOLEAN
    /\ \A x \in Key : x \in Int

\* They are what HeapTyped says.
LEMMA HeapBasics ==
  ASSUME NEW h, HeapTyped(h)
  PROVE  Basics(h)
<1>1. h.node \in Seq(NodeType) /\ h.cell \in Seq(CellType)
  BY DEF HeapTyped
<1>2. /\ Len(h.node) \in Nat /\ \A n \in Nodes(h) : h.node[n] \in NodeType
      /\ Len(h.cell) \in Nat /\ \A c \in Cells(h) : h.cell[c] \in CellType
  <2> HIDE DEF NodeType, CellType
  <2> QED
    BY <1>1, LenProperties, ElementOfSeq DEF Nodes, Cells
<1>3. \A n \in Nodes(h) :
          /\ h.node[n].leaf \in BOOLEAN /\ h.node[n].size \in 0..SizeMod - 1
          /\ h.node[n].list \in Seq([key : Key, val : Val])
  BY <1>2 DEF NodeType
<1>4. \A c \in Cells(h) : h.cell[c].key \in Key /\ h.cell[c].live \in BOOLEAN
  BY <1>2 DEF CellType
<1>5. \A x \in Key : x \in Int
  BY TreeAssumption
<1> QED
  BY <1>2, <1>3, <1>4, <1>5 DEF Basics, HeapTyped

------------------------------------------------------------------------------
(* Slots.                                                                   *)

\* Every key is in a slot.
LEMMA SlotExists ==
  ASSUME NEW h, NEW s, NEW x \in Int, Len(s) \in Nat,
         \A i \in 1..Len(s) : h.cell[s[i]].key \in Int
  PROVE  \E j \in 0..Len(s) : InSlot(h, s, x, j)
<1> DEFINE T == {i \in 1..Len(s) : x < h.cell[s[i]].key}
           m == Len(s)
<1>1. PICK n \in 0..m : (\A i \in 1..n : i \notin T) /\ (n < m => n + 1 \in T)
  <2> HIDE DEF T, m
  <2> QED
    BY Prefix DEF m
<1>2. n > 0 => h.cell[s[n]].key <= x
  <2> SUFFICES ASSUME n > 0 PROVE h.cell[s[n]].key <= x
    OBVIOUS
  <2>1. n \in 1..n /\ n \in 1..m
    OBVIOUS
  <2>2. ~(x < h.cell[s[n]].key)
    BY <1>1, <2>1
  <2>3. h.cell[s[n]].key \in Int
    BY <2>1
  <2> QED
    BY <2>2, <2>3
<1>3. n < m => x < h.cell[s[n + 1]].key
  BY <1>1
<1>4. InSlot(h, s, x, n)
  BY <1>2, <1>3 DEF InSlot
<1> QED
  BY <1>4

\* When no node has a cell too many.
LEMMA CellsOfAll ==
  ASSUME NEW h, NEW g,
         \A n : Inner(h, g, n) =>
             CellsOf(h, g.owner, n, g.own[n], g.resp[n]) /\ h.node[n].size <= max_size
  PROVE  CellInv(h, g, 0)
BY DEF CellInv, Inner, Nodes

\* Only in one.
LEMMA SlotUnique ==
  ASSUME NEW h, NEW s, NEW x \in Int, Len(s) \in Nat,
         \A i \in 1..Len(s) : h.cell[s[i]].key \in Int,
         \A i, j \in 1..Len(s) : i < j => h.cell[s[i]].key < h.cell[s[j]].key,
         NEW i \in 0..Len(s), NEW j \in 0..Len(s), InSlot(h, s, x, i), InSlot(h, s, x, j)
  PROVE  i = j
<1>1. ASSUME NEW a \in 0..Len(s), NEW b \in 0..Len(s), a < b,
             InSlot(h, s, x, a), InSlot(h, s, x, b)
      PROVE  FALSE
  <2>1. a + 1 \in 1..Len(s) /\ b \in 1..Len(s) /\ a + 1 <= b /\ a < Len(s) /\ b > 0
    BY <1>1
  <2>2. x < h.cell[s[a + 1]].key /\ h.cell[s[b]].key <= x
    BY <1>1, <2>1 DEF InSlot
  <2>3. h.cell[s[a + 1]].key \in Int /\ h.cell[s[b]].key \in Int
    BY <2>1
  <2>4. h.cell[s[a + 1]].key = h.cell[s[b]].key \/ h.cell[s[a + 1]].key < h.cell[s[b]].key
    <3>1. CASE a + 1 = b
      BY <3>1
    <3>2. CASE a + 1 < b
      BY <2>1, <3>2
    <3> QED
      BY <2>1, <3>1, <3>2
  <2>5. PICK u, v : u = h.cell[s[a + 1]].key /\ v = h.cell[s[b]].key
    OBVIOUS
  <2>6. x \in Int /\ u \in Int /\ v \in Int /\ x < u /\ v <= x /\ (u = v \/ u < v)
    BY <2>2, <2>3, <2>4, <2>5
  <2> QED
    BY ONLY <2>6
<1>2. i < j \/ j < i \/ i = j
  OBVIOUS
<1> QED
  BY <1>1, <1>2

------------------------------------------------------------------------------
(* Reading the tree.                                                        *)

\* The own cells of a node that calls can reach, without what they say of its keys.
CellsTyped(h, s) ==
    /\ s \in Seq(Cells(h)) /\ Len(s) \in Nat /\ Len(s) > 0 /\ Distinct(s)
    /\ \A i \in 1..Len(s) : s[i] \in Cells(h) /\ h.cell[s[i]].key \in Int /\ s[i] # 0

\* They are cells of the heap, none of them twice.
LEMMA OwnCells ==
  ASSUME NEW h, Basics(h), NEW owner, NEW n, NEW s \in Seq(Nat), NEW R,
         CellsOf(h, owner, n, s, R)
  PROVE  CellsTyped(h, s)
<1>1. Len(s) \in Nat /\ Len(s) > 0 /\ s \in [1..Len(s) -> Nat]
  BY LenProperties DEF CellsOf
<1>2. \A i \in 1..Len(s) : s[i] \in Cells(h) /\ h.cell[s[i]].key \in Int /\ s[i] # 0
  <2>1. \A c \in Cells(h) : h.cell[c].key \in Int /\ c # 0
    BY DEF Basics, Cells
  <2>2. \A i \in 1..Len(s) : s[i] \in Cells(h)
    BY Zenon DEF CellsOf
  <2> QED
    BY <2>1, <2>2
<1>3. s \in Seq(Cells(h))
  <2>1. s = [i \in 1..Len(s) |-> s[i]]
    BY <1>1
  <2> QED
    BY <1>1, <1>2, <2>1, IsASeq
<1>4. Distinct(s)
  <2> SUFFICES ASSUME NEW i \in 1..Len(s), NEW j \in 1..Len(s), s[i] = s[j], i # j
               PROVE  FALSE
    BY DEF Distinct
  <2>1. i < j \/ j < i
    BY <1>1
  <2>2. h.cell[s[i]].key < h.cell[s[i]].key
    BY <2>1 DEF CellsOf
  <2> QED
    BY <1>2, <2>2
<1> QED
  BY <1>1, <1>2, <1>3, <1>4 DEF CellsTyped

\* The links that get_child_ln_ge follows.
Follows(h, key) ==
    [c \in 1..Len(h.cell) |->
         IF h.cell[c].next # Null /\ ~(key < h.cell[h.cell[c].next].key)
         THEN h.cell[c].next ELSE Null]

\* They lead to cells of the heap.
LEMMA FollowsTyped ==
  ASSUME NEW h, Basics(h), NEW key
  PROVE  /\ Follows(h, key) \in [1..Len(h.cell) -> 0..Len(h.cell)]
         /\ \A n : get_child_ln_ge(h, n, key) =
                       Trail(Follows(h, key), h.node[n].first)
                           [Len(Trail(Follows(h, key), h.node[n].first))]
<1>1. \A c \in 1..Len(h.cell) : h.cell[c].next \in 0..Len(h.cell)
  BY DEF Basics, Cells
<1>2. 0 \in 0..Len(h.cell)
  BY DEF Basics
<1>3. Follows(h, key) \in [1..Len(h.cell) -> 0..Len(h.cell)]
  BY <1>1, <1>2 DEF Follows, Null
<1>4. \A n : get_child_ln_ge(h, n, key) = Last(Trail(Follows(h, key), h.node[n].first))
  BY DEF get_child_ln_ge, Follows
<1> QED
  BY <1>3, <1>4 DEF Last

\* get_child_ln_ge returns a cell of every node that has one, reachable or not.
LEMMA WalkTyped ==
  ASSUME NEW h, Basics(h), NEW n \in Nodes(h), h.node[n].first # 0, NEW key
  PROVE  get_child_ln_ge(h, n, key) \in Cells(h)
<1> DEFINE N == Len(h.cell)
           next == Follows(h, key)
           t == Trail(next, h.node[n].first)
<1>1. N \in Nat /\ h.node[n].first \in 1..N
  BY DEF Basics
<1>2. next \in [1..N -> 0..N]
  BY FollowsTyped
<1>3. PICK P : P = 1..N
  OBVIOUS
<1>4. PICK s : s = <<h.node[n].first>>
  OBVIOUS
<1>5. s \in Seq(P) /\ Len(s) = 1 /\ s[1] = h.node[n].first
  BY <1>1, <1>3, <1>4
<1>6. Linked(next, s) /\ Distinct(s)
  BY <1>5 DEF Linked, Distinct
<1>7. GoesAlong(next, P, s, t)
  <2> HIDE DEF N, next
  <2>0. N \in Nat /\ s \in Seq(P) /\ Len(s) > 0
    BY <1>1, <1>5
  <2> HIDE DEF t
  <2>1. GoesAlong(next, P, s, Trail(next, s[1]))
    BY ONLY <2>0, <1>2, <1>3, <1>6, TrailAlong
  <2> QED
    BY <1>5, <2>1 DEF t
<1>8. t \in Seq(P) /\ Len(t) >= 1
  BY <1>5, <1>7 DEF GoesAlong
<1>9. t[Len(t)] \in P
  <2> HIDE DEF t
  <2>1. Len(t) \in 1..Len(t)
    BY <1>8, LenProperties
  <2> QED
    BY <1>8, <2>1, ElementOfSeq
<1> QED
  BY <1>3, <1>9, FollowsTyped DEF Cells

\* The walk of get_child_ln_ge for a key of slot j > 0 ends at the slot's cell.
LEMMA WalkFinds ==
  ASSUME NEW h, Basics(h), NEW owner, NEW n \in Nodes(h), NEW s \in Seq(Nat), NEW R,
         CellsOf(h, owner, n, s, R), NEW x \in R, x \in Int,
         NEW j \in 1..Len(s), InSlot(h, s, x, j)
  PROVE  get_child_ln_ge(h, n, x) = s[j]
<1> DEFINE N == Len(h.cell)
           next == Follows(h, x)
<1>0. N \in Nat
  BY DEF Basics
<1>1. CellsTyped(h, s)
  BY OwnCells
<1>2. PICK P : P = 1..N
  OBVIOUS
<1>3. /\ s \in Seq(P) /\ Len(s) \in Nat /\ Distinct(s)
      /\ \A i \in 1..Len(s) : s[i] \in 1..N /\ h.cell[s[i]].key \in Int /\ s[i] # 0
  BY <1>1, <1>2 DEF CellsTyped, Cells
<1>4. PICK t : t = SubSeq(s, 1, j)
  OBVIOUS
<1>5. t \in Seq(P) /\ Len(t) = j /\ \A i \in 1..j : t[i] = s[i]
  <2>1. \A i \in 1..j : s[i] \in P
    BY <1>2, <1>3
  <2> QED
    BY <1>3, <1>4, <2>1, SubSeqProperties
<1>6. next \in [1..N -> 0..N]
  BY FollowsTyped
<1>7. \A c \in 1..N : next[c] = IF h.cell[c].next # 0 /\ ~(x < h.cell[h.cell[c].next].key)
                                THEN h.cell[c].next ELSE 0
  BY DEF Follows, Null
<1> HIDE DEF next, N
<1>8. \A i \in 1..j : h.cell[s[i]].key <= x
  <2> SUFFICES ASSUME NEW i \in 1..j PROVE h.cell[s[i]].key <= x
    OBVIOUS
  <2>1. h.cell[s[j]].key <= x /\ h.cell[s[j]].key \in Int /\ h.cell[s[i]].key \in Int
    BY <1>3 DEF InSlot
  <2>2. i \in 1..Len(s) /\ (i = j \/ i < j)
    BY <1>3
  <2>3. i = j \/ h.cell[s[i]].key < h.cell[s[j]].key
    BY <2>2 DEF CellsOf
  <2>4. PICK u, v : u = h.cell[s[i]].key /\ v = h.cell[s[j]].key
    OBVIOUS
  <2>5. x \in Int /\ u \in Int /\ v \in Int /\ v <= x /\ (i = j \/ u < v) /\ (i = j => u = v)
    BY <1>3, <2>1, <2>3, <2>4
  <2>6. u <= x
    BY ONLY <2>5
  <2> QED
    BY <2>4, <2>6
<1>9. Linked(next, t)
  <2>0. (\A i \in 1..j - 1 : next[s[i]] = s[i + 1]) => Linked(next, t)
    <3>1. \A i \in 1..Len(t) - 1 : i \in 1..j - 1 /\ t[i] = s[i] /\ t[i + 1] = s[i + 1]
      BY <1>3, <1>5
    <3> QED
      BY <3>1 DEF Linked
  <2> SUFFICES ASSUME NEW i \in 1..j - 1 PROVE next[s[i]] = s[i + 1]
    BY <2>0
  <2>1. i \in 1..Len(s) - 1 /\ i + 1 \in 1..j /\ i + 1 \in 1..Len(s) /\ i \in 1..Len(s)
    BY <1>3
  <2>2. h.cell[s[i]].next = s[i + 1]
    BY <2>1 DEF CellsOf
  <2>3. ~(x < h.cell[s[i + 1]].key) /\ s[i + 1] # 0 /\ s[i] \in 1..N
    <3>1. s[i + 1] # 0 /\ s[i] \in 1..N
      BY <1>3, <2>1
    <3>2. PICK u : u = h.cell[s[i + 1]].key
      OBVIOUS
    <3>3. u \in Int /\ u <= x /\ x \in Int
      BY <1>3, <1>8, <2>1, <3>2
    <3>4. ~(x < u)
      BY ONLY <3>3
    <3> QED
      BY <3>1, <3>2, <3>4
  <2> QED
    BY <1>7, <2>2, <2>3
<1>10. Distinct(t)
  <2>1. \A i \in 1..Len(t) : i \in 1..Len(s) /\ t[i] = s[i]
    BY <1>3, <1>5
  <2> QED
    BY <1>3, <2>1 DEF Distinct
<1>11. next[t[Len(t)]] = 0
  <2>1. t[Len(t)] = s[j] /\ s[j] \in 1..N
    BY <1>3, <1>5
  <2>2. CASE j < Len(s)
    <3>1. h.cell[s[j]].next = s[j + 1] /\ x < h.cell[s[j + 1]].key
      BY <1>3, <2>2 DEF CellsOf, InSlot
    <3> QED
      BY <1>7, <2>1, <3>1
  <2>3. CASE j = Len(s)
    <3>1. h.cell[s[j]].next # 0 => x < h.cell[h.cell[s[j]].next].key
      BY <2>3, Zenon DEF CellsOf
    <3> QED
      BY <1>7, <2>1, <3>1
  <2> QED
    BY <1>3, <2>2, <2>3
<1>12. Trail(next, t[1]) = t
  <2>1. t \in Seq(P) /\ Len(t) > 0
    BY <1>5
  <2> QED
    BY ONLY <1>0, <1>2, <2>1, <1>6, <1>9, <1>10, <1>11, TrailIs
<1>13. t[1] = h.node[n].first
  BY <1>3, <1>5 DEF CellsOf
<1>14. get_child_ln_ge(h, n, x) = Trail(next, t[1])[Len(Trail(next, t[1]))]
  BY <1>13, FollowsTyped DEF next
<1> QED
  BY <1>5, <1>12, <1>14

\* get_child_ge sends a key to the child of its slot.
LEMMA ChildFinds ==
  ASSUME NEW h, Basics(h), NEW owner, NEW n \in Nodes(h), NEW s \in Seq(Nat), NEW R,
         CellsOf(h, owner, n, s, R), NEW x \in R, x \in Int,
         NEW j \in 0..Len(s), InSlot(h, s, x, j)
  PROVE  /\ GoesBefore(h, n, x) <=> j = 0
         /\ get_child_ge(h, n, x) = Kid(h, n, s, j)
<1>1. /\ Len(s) \in Nat /\ Len(s) > 0
      /\ \A i \in 1..Len(s) : s[i] \in Cells(h) /\ h.cell[s[i]].key \in Int
  BY OwnCells DEF CellsTyped
<1>2. h.node[n].first = s[1] /\ 1 \in 1..Len(s)
  BY <1>1 DEF CellsOf
<1>3. CASE j = 0
  <2>1. x < h.cell[s[1]].key
    BY <1>1, <1>3 DEF InSlot
  <2> QED
    BY <1>2, <1>3, <2>1 DEF GoesBefore, get_child_ge, Kid
<1>4. CASE j # 0
  <2>1. j \in 1..Len(s)
    BY <1>1, <1>4
  <2>2. h.cell[s[1]].key <= x
    <3>1. h.cell[s[j]].key <= x
      BY <2>1 DEF InSlot
    <3>2. j = 1 \/ h.cell[s[1]].key < h.cell[s[j]].key
      BY <1>2, <2>1 DEF CellsOf
    <3>3. PICK u, v : u = h.cell[s[1]].key /\ v = h.cell[s[j]].key
      OBVIOUS
    <3>4. x \in Int /\ u \in Int /\ v \in Int /\ v <= x /\ (u = v \/ u < v)
      BY <1>1, <1>2, <2>1, <3>1, <3>2, <3>3
    <3>5. u <= x
      BY ONLY <3>4
    <3> QED
      BY <3>3, <3>5
  <2>3. ~(x < h.cell[s[1]].key)
    BY <1>1, <1>2, <2>2
  <2>4. get_child_ln_ge(h, n, x) = s[j]
    BY <2>1, WalkFinds
  <2> QED
    BY <1>2, <1>4, <2>3, <2>4 DEF GoesBefore, get_child_ge, Kid
<1> QED
  BY <1>3, <1>4

\* In node n, key x is sent to node k.
Leads(h, g, n, x, k) ==
    /\ Inner(h, g, n)
    /\ x \in g.resp[n]
    /\ \E j \in 0..Len(g.own[n]) : InSlot(h, g.own[n], x, j) /\ Kid(h, n, g.own[n], j) = k

\* A node that a key reaches sends it on, to a node of lower rank.
LEMMA StepDown ==
  ASSUME NEW h, NEW root, NEW g, NEW over, Tree(h, root, g, over),
         NEW n, Inner(h, g, n), NEW x \in g.resp[n]
  PROVE  \E k \in Nodes(h) :
            /\ Leads(h, g, n, x, k)
            /\ g.rank[k] < g.rank[n] /\ g.parent[k] = n /\ x \in g.under[k]
            /\ get_child_ge(h, n, x) = k
            /\ h.node[n].first # 0
<1> DEFINE s == g.own[n]
<1>1. Basics(h) /\ GhostTyped(h, g)
  BY HeapBasics DEF Tree
<1>2. n \in Nodes(h) /\ s \in Seq(Nat) /\ x \in Key /\ x \in Int
  BY <1>1 DEF Basics, GhostTyped, Inner
<1>3. CellsOf(h, g.owner, n, s, g.resp[n])
  BY DEF Tree, CellInv
<1> HIDE DEF s
<1>4. CellsTyped(h, s)
  BY <1>1, <1>2, <1>3, OwnCells
<1>5. PICK j \in 0..Len(s) : InSlot(h, s, x, j)
  BY <1>2, <1>4, SlotExists DEF CellsTyped
<1>6. Used(h, g, n, j)
  BY <1>5 DEF Used, s
<1>7. Passes(h, g, n, j)
  BY <1>6 DEF Tree, SlotInv
<1>8. get_child_ge(h, n, x) = Kid(h, n, s, j)
  BY <1>1, <1>2, <1>3, <1>5, ChildFinds
<1>9. PICK k : k = Kid(h, n, s, j)
  OBVIOUS
<1>10. k \in Nodes(h) /\ g.rank[k] < g.rank[n] /\ g.parent[k] = n /\ x \in g.under[k]
  BY <1>2, <1>5, <1>7, <1>9 DEF Passes, s
<1>11. Leads(h, g, n, x, k)
  BY <1>5, <1>9 DEF Leads, s
<1>12. h.node[n].first # 0
  <2>1. 1 \in 1..Len(s)
    BY <1>4 DEF CellsTyped
  <2> QED
    BY <1>3, <1>4, <2>1 DEF CellsOf, CellsTyped
<1> QED
  BY <1>8, <1>9, <1>10, <1>11, <1>12

\* The way of a key through the tree, from the root to the leaf that is its home.
Route(h, g, root, x, p) ==
    /\ p \in Seq(Nodes(h)) /\ Len(p) \in Nat /\ Len(p) > 0 /\ Distinct(p)
    /\ p[1] = root
    /\ \A i \in 1..Len(p) : p[i] \in Nodes(h) /\ x \in g.resp[p[i]]
    /\ \A i \in 1..Len(p) - 1 : Leads(h, g, p[i], x, p[i + 1])
    /\ h.node[p[Len(p)]].leaf /\ g.home[x] = p[Len(p)]

\* Calls take that way, and so they end.
LEMMA PathIs ==
  ASSUME NEW h, NEW root, NEW g, Tree(h, root, g, 0), Whole(h, g), NEW x \in Key
  PROVE  Route(h, g, root, x, Path(h, root, x))
<1> DEFINE N == Len(h.node)
           next == [n \in 1..Len(h.node) |-> IF h.node[n].leaf \/ h.node[n].first = Null
                                             THEN Null ELSE get_child_ge(h, n, x)]
           V == {n \in Nodes(h) : x \in g.resp[n]}
           p == Path(h, root, x)
<1>1. Basics(h) /\ GhostTyped(h, g)
  BY HeapBasics DEF Tree
<1>2. N \in Nat
  BY <1>1 DEF Basics
<1>3. \A n \in 1..N : next[n] = IF h.node[n].leaf \/ h.node[n].first = 0
                                THEN 0 ELSE get_child_ge(h, n, x)
  BY DEF Null
<1>4. p = Trail(next, root)
  BY DEF Path
<1>5. next \in [1..N -> 0..N]
  <2>1. ASSUME NEW n \in 1..N, h.node[n].first # 0 PROVE get_child_ge(h, n, x) \in 0..N
    <3>1. n \in Nodes(h)
      BY DEF Nodes
    <3>2. get_child_ln_ge(h, n, x) \in Cells(h)
      BY <1>1, <2>1, <3>1, WalkTyped
    <3>3. h.cell[get_child_ln_ge(h, n, x)].child \in 0..N /\ h.node[n].lesser \in 0..N
      BY <1>1, <3>1, <3>2 DEF Basics, Nodes
    <3> QED
      BY <3>3 DEF get_child_ge
  <2> QED
    BY <1>2, <2>1 DEF Null
<1> HIDE DEF next, p
<1>6. ASSUME NEW n \in V, ~h.node[n].leaf
      PROVE  next[n] \in V /\ next[n] # 0 /\ g.rank[next[n]] < g.rank[n]
             /\ Leads(h, g, n, x, next[n])
  <2>1. Inner(h, g, n) /\ x \in g.resp[n] /\ n \in 1..N
    BY <1>6 DEF Inner, Nodes
  <2>2. PICK k \in Nodes(h) :
            /\ Leads(h, g, n, x, k)
            /\ g.rank[k] < g.rank[n] /\ g.parent[k] = n /\ x \in g.under[k]
            /\ get_child_ge(h, n, x) = k
            /\ h.node[n].first # 0
    BY <2>1, StepDown
  <2>3. next[n] = k
    BY <1>3, <1>6, <2>1, <2>2
  <2>4. k \in V /\ k # 0
    BY <2>2 DEF Whole, Nodes
  <2> QED
    BY <2>2, <2>3, <2>4
<1>7. \A n \in V : h.node[n].leaf => next[n] = 0
  BY <1>3 DEF Nodes
<1>8. Falls(next, V, g.rank)
  BY <1>1, <1>6, <1>7 DEF Falls, GhostTyped
<1>9. root \in V
  BY DEF Tree, RootInv, Whole
<1>10. V \subseteq 1..N
  BY DEF Nodes
<1> HIDE DEF V
<1>11. Descends(next, V, g.rank, p) /\ p[1] = root
  <2> HIDE DEF N
  <2>1. Descends(next, V, g.rank, Trail(next, root)) /\ Trail(next, root)[1] = root
    BY ONLY <1>2, <1>5, <1>8, <1>9, <1>10, RankedTrail
  <2> QED
    BY <1>4, <2>1, Zenon
<1>12. p \in Seq(V) /\ Len(p) \in Nat /\ Len(p) > 0
  BY <1>11 DEF Descends
<1>13. \A i \in 1..Len(p) : p[i] \in V /\ p[i] \in Nodes(h) /\ x \in g.resp[p[i]]
  <2>1. \A i \in 1..Len(p) : p[i] \in V
    BY <1>12, ElementOfSeq
  <2> QED
    BY <2>1 DEF V
<1>14. p \in Seq(Nodes(h))
  <2>1. V \subseteq Nodes(h)
    BY DEF V
  <2> QED
    BY <1>12, <2>1, WiderSeq
<1>15. Distinct(p)
  <2> SUFFICES ASSUME NEW i \in 1..Len(p), NEW j \in 1..Len(p), p[i] = p[j], i # j
               PROVE  FALSE
    BY DEF Distinct
  <2>1. g.rank[p[i]] \in Nat
    BY <1>1, <1>13 DEF GhostTyped
  <2>2. i < j \/ j < i
    BY <1>12
  <2> QED
    BY <1>11, <2>1, <2>2 DEF Descends
<1>16. ASSUME NEW i \in 1..Len(p) - 1 PROVE Leads(h, g, p[i], x, p[i + 1])
  <2>1. i \in 1..Len(p) /\ i + 1 \in 1..Len(p)
    BY <1>12
  <2>2. next[p[i]] = p[i + 1]
    BY <1>11 DEF Descends, Linked
  <2>3. p[i + 1] # 0
    BY <1>13, <2>1 DEF Nodes
  <2>4. ~h.node[p[i]].leaf
    BY <1>7, <1>13, <2>1, <2>2, <2>3
  <2> QED
    BY <1>6, <1>13, <2>1, <2>2, <2>4
<1>17. h.node[p[Len(p)]].leaf /\ g.home[x] = p[Len(p)]
  <2>1. Len(p) \in 1..Len(p) /\ next[p[Len(p)]] = 0
    BY <1>11, <1>12 DEF Descends
  <2>2. h.node[p[Len(p)]].leaf
    BY <1>6, <1>13, <2>1
  <2>3. LeafOf(h.node[p[Len(p)]], g.home, p[Len(p)], g.resp[p[Len(p)]])
    BY <1>13, <2>1, <2>2 DEF Tree, LeafInv
  <2> QED
    BY <1>13, <2>1, <2>2, <2>3 DEF LeafOf
<1>18. Route(h, g, root, x, p)
  BY <1>11, <1>12, <1>13, <1>14, <1>15, <1>16, <1>17 DEF Route
<1> QED
  BY <1>18 DEF p

------------------------------------------------------------------------------
(* What a step leaves as it is.  It turns the heap h with g into k with f, and *)
(* changes one node p at most; the others are new.                           *)

Grown(h, g, k, f, p) ==
    /\ Len(h.node) <= Len(k.node) /\ Len(h.cell) <= Len(k.cell)
    /\ \A n \in Nodes(h) : n # p =>
          k.node[n] = h.node[n] /\ f.resp[n] = g.resp[n] /\ f.own[n] = g.own[n]
    /\ \A c \in Cells(h) : k.cell[c].key = h.cell[c].key
    /\ \A c \in Cells(h) : g.owner[c] # 0 /\ g.owner[c] # p =>
          k.cell[c] = h.cell[c] /\ f.owner[c] = g.owner[c]

\* Nor does it change what the other nodes know of their children.
Upward(h, g, f, p) ==
    \A a \in Nodes(h) : g.parent[a] \in Nodes(h) /\ g.parent[a] # p =>
        /\ f.parent[a] = g.parent[a] /\ f.under[a] = g.under[a]
        /\ g.rank[a] < g.rank[g.parent[a]] => f.rank[a] < f.rank[g.parent[a]]

\* The objects of h are objects of k.
LEMMA GrownIn ==
  ASSUME NEW h, NEW g, NEW k, NEW f, NEW p, Basics(h), Basics(k), Grown(h, g, k, f, p)
  PROVE  /\ \A n \in Nodes(h) : n \in Nodes(k)
         /\ \A c \in Cells(h) : c \in Cells(k)
<1>1. /\ Len(h.node) \in Nat /\ Len(k.node) \in Nat /\ Len(h.node) <= Len(k.node)
      /\ Len(h.cell) \in Nat /\ Len(k.cell) \in Nat /\ Len(h.cell) <= Len(k.cell)
  BY Zenon DEF Grown, Basics
<1> QED
  BY ONLY <1>1 DEF Nodes, Cells

\* Slots and children of another node.
SameSlots(h, g, k, f, n) ==
    /\ f.own[n] = g.own[n] /\ f.resp[n] = g.resp[n]
    /\ \A x, j : j \in 0..Len(g.own[n]) =>
          /\ InSlot(k, g.own[n], x, j) <=> InSlot(h, g.own[n], x, j)
          /\ Kid(k, n, g.own[n], j) = Kid(h, n, g.own[n], j)

\* They do not change.
LEMMA SlotsKept ==
  ASSUME NEW h, NEW g, NEW k, NEW f, NEW p, Basics(h), GhostTyped(h, g), Grown(h, g, k, f, p),
         NEW over, CellInv(h, g, over), NEW n, Inner(h, g, n), n # p
  PROVE  SameSlots(h, g, k, f, n)
<1> DEFINE s == g.own[n]
<1>1. n \in Nodes(h) /\ n # 0 /\ k.node[n] = h.node[n] /\ f.own[n] = s /\ f.resp[n] = g.resp[n]
  BY DEF Inner, Grown, Nodes
<1>2. CellsOf(h, g.owner, n, s, g.resp[n]) /\ Len(s) \in Nat
  BY <1>1 DEF CellInv, GhostTyped
<1> HIDE DEF s
<1>3. \A i \in 1..Len(s) : s[i] \in Cells(h) /\ k.cell[s[i]] = h.cell[s[i]]
  BY <1>1, <1>2 DEF CellsOf, Grown
<1>4. ASSUME NEW x, NEW j \in 0..Len(s)
      PROVE  /\ InSlot(k, s, x, j) <=> InSlot(h, s, x, j)
             /\ Kid(k, n, s, j) = Kid(h, n, s, j)
  <2>1. j > 0 => j \in 1..Len(s)
    BY <1>2
  <2>2. j < Len(s) => j + 1 \in 1..Len(s)
    BY <1>2
  <2>3. j = 0 \/ j > 0
    BY <1>2
  <2> QED
    BY <1>1, <1>3, <2>1, <2>2, <2>3 DEF InSlot, Kid
<1> QED
  BY <1>1, <1>4 DEF SameSlots, s

\* Nor do its cells.
LEMMA CellsKept ==
  ASSUME NEW h, NEW g, NEW k, NEW f, NEW p, Basics(h), Basics(k), GhostTyped(h, g),
         Grown(h, g, k, f, p), NEW over, CellInv(h, g, over), NEW n, Inner(h, g, n), n # p
  PROVE  CellsOf(k, f.owner, n, f.own[n], f.resp[n]) /\ k.node[n].size = h.node[n].size
<1> DEFINE s == g.own[n]
           R == g.resp[n]
<1>1. n \in Nodes(h) /\ n # 0 /\ k.node[n] = h.node[n] /\ f.own[n] = s /\ f.resp[n] = R
  BY DEF Inner, Grown, Nodes
<1>2. CellsOf(h, g.owner, n, s, R) /\ Len(s) \in Nat
  BY <1>1 DEF CellInv, GhostTyped
<1> HIDE DEF s, R
<1>3. \A i \in 1..Len(s) : /\ s[i] \in Cells(h) /\ s[i] \in Cells(k)
                           /\ k.cell[s[i]] = h.cell[s[i]] /\ f.owner[s[i]] = n
  <2>1. \A c \in Cells(h) : c \in Cells(k)
    BY ONLY Basics(h), Basics(k), Grown(h, g, k, f, p), GrownIn
  <2>2. \A i \in 1..Len(s) : s[i] \in Cells(h) /\ g.owner[s[i]] = n
    BY <1>2, Zenon DEF CellsOf
  <2>3. \A c \in Cells(h) : g.owner[c] # 0 /\ g.owner[c] # p =>
            k.cell[c] = h.cell[c] /\ f.owner[c] = g.owner[c]
    BY Zenon DEF Grown
  <2> QED
    BY ONLY n # p, <1>1, <2>1, <2>2, <2>3
<1>4. k.cell[s[Len(s)]].next # 0 => \A x \in R : x < k.cell[k.cell[s[Len(s)]].next].key
  <2>1. Len(s) \in 1..Len(s)
    BY <1>2 DEF CellsOf
  <2>2. k.cell[s[Len(s)]] = h.cell[s[Len(s)]] /\ s[Len(s)] \in Cells(h)
    BY <1>3, <2>1
  <2>3. h.cell[s[Len(s)]].next # 0 => h.cell[s[Len(s)]].next \in Cells(h)
    BY <2>2 DEF Basics, Cells
  <2>4. h.cell[s[Len(s)]].next # 0 =>
            k.cell[h.cell[s[Len(s)]].next].key = h.cell[h.cell[s[Len(s)]].next].key
    BY <2>3, Zenon DEF Grown
  <2> QED
    BY <1>2, <2>2, <2>4, Zenon DEF CellsOf
<1>5. CellsOf(k, f.owner, n, s, R)
  <2>1. Len(s) > 0 /\ Len(s) = k.node[n].size /\ k.node[n].first = s[1]
    BY <1>1, <1>2, Zenon DEF CellsOf
  <2>2. \A i \in 1..Len(s) : s[i] \in Cells(k) /\ f.owner[s[i]] = n /\ k.cell[s[i]].key \in R
    BY <1>2, <1>3, Zenon DEF CellsOf
  <2>3. \A i \in 1..Len(s) - 1 : k.cell[s[i]].next = s[i + 1]
    <3>1. \A i \in 1..Len(s) - 1 : h.cell[s[i]].next = s[i + 1]
      BY <1>2, Zenon DEF CellsOf
    <3>2. \A i \in 1..Len(s) - 1 : i \in 1..Len(s)
      BY <1>2
    <3>3. \A i \in 1..Len(s) : k.cell[s[i]].next = h.cell[s[i]].next
      BY <1>3
    <3> QED
      BY ONLY <3>1, <3>2, <3>3, Zenon
  <2>4. \A i, j \in 1..Len(s) : i < j => k.cell[s[i]].key < k.cell[s[j]].key
    <3>1. \A i, j \in 1..Len(s) : i < j => h.cell[s[i]].key < h.cell[s[j]].key
      BY <1>2, Zenon DEF CellsOf
    <3>2. \A i \in 1..Len(s) : k.cell[s[i]].key = h.cell[s[i]].key
      BY <1>3
    <3> QED
      BY ONLY <3>1, <3>2, Zenon
  <2> QED
    BY <1>4, <2>1, <2>2, <2>3, <2>4, Zenon DEF CellsOf
<1> QED
  BY <1>1, <1>5

\* Nor what it says of its children.
LEMMA PassesKept ==
  ASSUME NEW h, NEW g, NEW k, NEW f, NEW p, Basics(h), Basics(k), GhostTyped(h, g),
         Grown(h, g, k, f, p), Upward(h, g, f, p), NEW over, CellInv(h, g, over), SlotInv(h, g),
         NEW n, n \in Nodes(h), n # p, NEW j, Used(k, f, n, j)
  PROVE  Passes(k, f, n, j)
<1>1. n # 0 /\ k.node[n] = h.node[n] /\ f.own[n] = g.own[n] /\ f.resp[n] = g.resp[n]
  BY DEF Grown, Nodes
<1>2. Inner(h, g, n) /\ j \in 0..Len(g.own[n])
  BY <1>1 DEF Used, Inner
<1>3. SameSlots(h, g, k, f, n)
  BY <1>2, SlotsKept
<1>4. Used(h, g, n, j)
  BY <1>1, <1>2, <1>3 DEF Used, SameSlots
<1>5. Passes(h, g, n, j)
  BY <1>4 DEF SlotInv
<1>6. PICK kid : kid = Kid(h, n, g.own[n], j)
  OBVIOUS
<1>7. /\ kid \in Nodes(h) /\ g.rank[kid] < g.rank[n] /\ g.parent[kid] = n
      /\ \A x \in Key : x \in g.under[kid] <=> x \in g.resp[n] /\ InSlot(h, g.own[n], x, j)
  BY <1>5, <1>6 DEF Passes
<1>8. f.parent[kid] = n /\ f.under[kid] = g.under[kid] /\ f.rank[kid] < f.rank[n]
  BY <1>1, <1>7 DEF Upward
<1>9. Kid(k, n, f.own[n], j) = kid /\ kid \in Nodes(k)
  BY <1>2, <1>3, <1>6, <1>7, GrownIn DEF SameSlots
<1>10. \A x \in Key : x \in f.under[kid] <=> x \in f.resp[n] /\ InSlot(k, f.own[n], x, j)
  BY <1>2, <1>3, <1>7, <1>8 DEF SameSlots
<1> QED
  BY <1>8, <1>9, <1>10 DEF Passes

\* Nor where it sends a key.
LEMMA LeadsKept ==
  ASSUME NEW h, NEW g, NEW k, NEW f, NEW p, Basics(h), Basics(k), GhostTyped(h, g),
         Grown(h, g, k, f, p), NEW over, CellInv(h, g, over),
         NEW n, n # p, NEW x, NEW m, Leads(h, g, n, x, m)
  PROVE  Leads(k, f, n, x, m)
<1>1. Inner(h, g, n)
  BY DEF Leads
<1>2. SameSlots(h, g, k, f, n)
  BY <1>1, SlotsKept
<1>3. Inner(k, f, n)
  <2>1. \A a \in Nodes(h) : a \in Nodes(k)
    BY GrownIn
  <2> QED
    BY <1>1, <2>1 DEF Inner, Grown
<1> QED
  BY <1>2, <1>3 DEF Leads, SameSlots

\* What the tree holds for key x.
Value(h, g, x) == ListGet(h.node[g.home[x]].list, x, NoValue)

\* A step that leaves all leaves as they are.
LeavesSame(h, g, k, f) ==
    /\ \A n \in Nodes(k) : k.node[n].leaf =>
          /\ n \in Nodes(h) /\ k.node[n] = h.node[n]
          /\ f.resp[n] = g.resp[n] /\ f.pos[n] = g.pos[n]
    /\ \A n \in Nodes(h) : h.node[n].leaf => n \in Nodes(k) /\ k.node[n] = h.node[n]
    /\ \A x \in Key : f.home[x] = g.home[x]
    /\ f.head = g.head

\* It changes neither their chain nor what they hold.
LEMMA LeavesKept ==
  ASSUME NEW h, NEW root, NEW g, NEW over, Tree(h, root, g, over), NEW k, NEW f,
         LeavesSame(h, g, k, f), Basics(k)
  PROVE  /\ LeafInv(k, f) /\ ChainInv(k, f)
         /\ \A x \in Key : Value(k, f, x) = Value(h, g, x)
         /\ f.head \in Nodes(k) /\ k.node[f.head].leaf
<1>1. LeafInv(h, g) /\ ChainInv(h, g) /\ g.head \in Nodes(h) /\ h.node[g.head].leaf
      /\ GhostTyped(h, g) /\ Basics(h)
  BY HeapBasics DEF Tree, SpineInv
<1>2. LeafInv(k, f)
  <2>1. ASSUME NEW n \in Nodes(k), k.node[n].leaf
        PROVE  LeafOf(k.node[n], f.home, n, f.resp[n])
    <3>1. n \in Nodes(h) /\ k.node[n] = h.node[n] /\ f.resp[n] = g.resp[n]
      BY <2>1 DEF LeavesSame
    <3>2. LeafOf(h.node[n], g.home, n, g.resp[n]) /\ g.resp[n] \subseteq Key
      BY <1>1, <2>1, <3>1 DEF LeafInv, GhostTyped
    <3> QED
      BY <3>1, <3>2 DEF LeafOf, LeavesSame
  <2>2. ASSUME NEW x \in Key
        PROVE  f.home[x] \in Nodes(k) /\ k.node[f.home[x]].leaf /\ x \in f.resp[f.home[x]]
    <3>1. /\ g.home[x] \in Nodes(h) /\ h.node[g.home[x]].leaf /\ x \in g.resp[g.home[x]]
          /\ f.home[x] = g.home[x]
      BY <1>1 DEF LeafInv, LeavesSame
    <3>2. g.home[x] \in Nodes(k) /\ k.node[g.home[x]].leaf
      BY <3>1 DEF LeavesSame
    <3> QED
      BY <3>1, <3>2 DEF LeavesSame
  <2> QED
    BY <2>1, <2>2 DEF LeafInv
<1>3. f.head = g.head /\ f.head \in Nodes(k) /\ k.node[f.head].leaf /\ f.pos[f.head] = g.pos[g.head]
  BY <1>1 DEF LeavesSame
<1>4. ChainInv(k, f)
  <2>1. ASSUME NEW n \in Nodes(k), k.node[n].leaf
        PROVE  /\ f.pos[n] <= f.pos[f.head]
               /\ k.node[n].next = 0 <=> f.pos[n] = 0
               /\ k.node[n].next # 0 =>
                     k.node[k.node[n].next].leaf /\ f.pos[k.node[n].next] = f.pos[n] - 1
    <3>1. n \in Nodes(h) /\ k.node[n] = h.node[n] /\ h.node[n].leaf /\ f.pos[n] = g.pos[n]
      BY <2>1 DEF LeavesSame
    <3>2. /\ g.pos[n] <= g.pos[g.head]
          /\ h.node[n].next = 0 <=> g.pos[n] = 0
          /\ h.node[n].next # 0 =>
                h.node[h.node[n].next].leaf /\ g.pos[h.node[n].next] = g.pos[n] - 1
      BY <1>1, <3>1 DEF ChainInv
    <3>3. h.node[n].next # 0 => h.node[n].next \in Nodes(h)
      BY <1>1, <3>1 DEF Basics, Nodes
    <3>4. h.node[n].next # 0 =>
              k.node[h.node[n].next].leaf /\ f.pos[h.node[n].next] = g.pos[h.node[n].next]
      BY <3>2, <3>3 DEF LeavesSame
    <3> QED
      BY <1>3, <3>1, <3>2, <3>4
  <2>2. ASSUME NEW m \in Nodes(k), NEW n \in Nodes(k), k.node[m].leaf, k.node[n].leaf, m # n
        PROVE  /\ f.pos[m] # f.pos[n]
               /\ f.pos[n] < f.pos[m] => \A x \in f.resp[m], y \in f.resp[n] : x < y
    <3>1. /\ m \in Nodes(h) /\ h.node[m].leaf /\ f.pos[m] = g.pos[m] /\ f.resp[m] = g.resp[m]
          /\ n \in Nodes(h) /\ h.node[n].leaf /\ f.pos[n] = g.pos[n] /\ f.resp[n] = g.resp[n]
      BY <2>2 DEF LeavesSame
    <3> QED
      BY <1>1, <2>2, <3>1 DEF ChainInv
  <2> QED
    BY <2>1, <2>2 DEF ChainInv
<1>5. ASSUME NEW x \in Key PROVE Value(k, f, x) = Value(h, g, x)
  <2>1. g.home[x] \in Nodes(h) /\ h.node[g.home[x]].leaf /\ f.home[x] = g.home[x]
    BY <1>1 DEF LeafInv, LeavesSame
  <2> QED
    BY <2>1 DEF Value, LeavesSame
<1> QED
  BY <1>2, <1>3, <1>4, <1>5

------------------------------------------------------------------------------
(* Splits that the parent does not know of yet.                             *)

\* ch has given the keys from K on to new, and its parent still sends them to ch.
Gap(h, g, ch, new, K) ==
    /\ ch \in Nodes(h) /\ new \in Nodes(h) /\ ch # new
    /\ K \in g.resp[new] /\ g.resp[ch] # {}
    /\ \A x \in g.resp[ch] : x < K
    /\ \A x \in g.resp[new] : K <= x
    /\ \A x \in Key : x \in g.under[ch] <=> x \in g.resp[ch] \/ x \in g.resp[new]
    /\ \A n \in Nodes(h) : n # ch => g.under[n] = g.resp[n]
    /\ g.parent[new] = 0
    /\ \A n \in Nodes(h) : n # new /\ g.rank[ch] < g.rank[n] => g.rank[new] < g.rank[n]

\* The new root that split makes of an internal node: up, above ch and new.  No call
\* reaches it yet.
Crown(h, g, ch, up, new) ==
    /\ up \in Nodes(h) /\ up # ch /\ up # new
    /\ ~h.node[up].leaf /\ h.node[up].size = 1 /\ h.node[up].lesser = ch
    /\ h.node[up].first \in Cells(h) /\ g.owner[h.node[up].first] = 0
    /\ h.cell[h.node[up].first].child = new /\ h.cell[h.node[up].first].next = 0
    /\ g.resp[up] = {} /\ g.parent[up] = 0 /\ up \notin g.spine /\ g.rank[new] = g.rank[ch]

\* A node with one cell.
LEMMA OneCell ==
  ASSUME NEW h, Basics(h), NEW up \in Nodes(h), NEW owner, NEW R, R \subseteq Key,
         h.node[up].size = 1, h.node[up].first \in Cells(h), owner[h.node[up].first] = up,
         h.cell[h.node[up].first].next = 0, h.cell[h.node[up].first].key \in R
  PROVE  LET s == <<h.node[up].first>>
         IN  /\ s \in Seq(Nat) /\ Len(s) = 1 /\ s[1] = h.node[up].first
             /\ CellsOf(h, owner, up, s, R)
             /\ \A x \in Key : InSlot(h, s, x, 0) <=> x < h.cell[h.node[up].first].key
             /\ \A x \in Key : InSlot(h, s, x, 1) <=> h.cell[h.node[up].first].key <= x
<1>1. PICK c : c = h.node[up].first
  OBVIOUS
<1>2. PICK s : s = <<c>>
  OBVIOUS
<1>3. c \in Nat /\ h.cell[c].key \in Int /\ \A x \in Key : x \in Int
  BY <1>1 DEF Basics, Cells
<1>4. s \in Seq(Nat) /\ Len(s) = 1 /\ s[1] = c
  BY <1>2, <1>3
<1>5. CellsOf(h, owner, up, s, R)
  <2>1. \A i \in 1..Len(s) : i = 1
    BY <1>4
  <2>2. \A i \in 1..Len(s) - 1 : FALSE
    BY <1>4
  <2>3. \A i, j \in 1..Len(s) : ~(i < j)
    BY <1>4
  <2> QED
    BY <1>1, <1>4, <2>1, <2>2, <2>3 DEF CellsOf
<1>6. \A x \in Key : InSlot(h, s, x, 0) <=> x < h.cell[c].key
  BY <1>3, <1>4 DEF InSlot
<1>7. \A x \in Key : InSlot(h, s, x, 1) <=> h.cell[c].key <= x
  BY <1>3, <1>4 DEF InSlot
<1> QED
  BY <1>1, <1>2, <1>4, <1>5, <1>6, <1>7

Adopted(h, root, g, ch, up, K, f) ==
    /\ Tree(h, root, f, 0) /\ Gap(h, f, ch, up, K) /\ Grown(h, g, h, f, up)
    /\ \A x \in Key : Value(h, f, x) = Value(h, g, x)

\* The new root is kept whole: it takes over the keys of new, and the parent has to
\* learn of it instead.
LEMMA Adopt ==
  ASSUME NEW h, NEW root, NEW g, Tree(h, root, g, 0),
         NEW ch, NEW up, NEW new, NEW K, K = h.cell[h.node[up].first].key,
         Gap(h, g, ch, new, K), Crown(h, g, ch, up, new)
  PROVE  \E f : Adopted(h, root, g, ch, up, K, f)
<1> DEFINE mid == h.node[up].first
<1>1. PICK f : f =
        [rank   |-> [n \in Nodes(h) |-> IF n = up THEN 2 * g.rank[new] + 1 ELSE 2 * g.rank[n]],
         resp   |-> [n \in Nodes(h) |-> IF n = up THEN g.resp[new] ELSE g.resp[n]],
         under  |-> [n \in Nodes(h) |-> IF n = up THEN g.resp[new] ELSE g.under[n]],
         own    |-> [n \in Nodes(h) |-> IF n = up THEN <<mid>> ELSE g.own[n]],
         parent |-> [n \in Nodes(h) |-> IF n = new THEN up ELSE g.parent[n]],
         owner  |-> [c \in Cells(h) |-> IF c = mid THEN up ELSE g.owner[c]],
         pos |-> g.pos, home |-> g.home, spine |-> g.spine, head |-> g.head]
  OBVIOUS
<1>2. /\ \A n \in Nodes(h) :
            /\ f.rank[n] = IF n = up THEN 2 * g.rank[new] + 1 ELSE 2 * g.rank[n]
            /\ f.resp[n] = IF n = up THEN g.resp[new] ELSE g.resp[n]
            /\ f.under[n] = IF n = up THEN g.resp[new] ELSE g.under[n]
            /\ f.own[n] = IF n = up THEN <<mid>> ELSE g.own[n]
            /\ f.parent[n] = IF n = new THEN up ELSE g.parent[n]
      /\ \A c \in Cells(h) : f.owner[c] = IF c = mid THEN up ELSE g.owner[c]
      /\ f.pos = g.pos /\ f.home = g.home /\ f.spine = g.spine /\ f.head = g.head
  BY <1>1
<1>3. Basics(h) /\ GhostTyped(h, g)
  BY HeapBasics DEF Tree
<1>4. /\ up \in Nodes(h) /\ new \in Nodes(h) /\ ch \in Nodes(h)
      /\ up # ch /\ up # new /\ ch # new /\ up # 0 /\ mid \in Cells(h)
  BY DEF Gap, Crown, Nodes
<1>5. g.under[up] = {} /\ K \in Key /\ K \in Int /\ g.under[new] = g.resp[new]
  BY <1>3, <1>4 DEF Gap, Crown, GhostTyped, Basics
<1>6. /\ <<mid>> \in Seq(Nat) /\ Len(<<mid>>) = 1 /\ <<mid>>[1] = mid
      /\ CellsOf(h, f.owner, up, <<mid>>, g.resp[new])
      /\ \A x \in Key : InSlot(h, <<mid>>, x, 0) <=> x < K
      /\ \A x \in Key : InSlot(h, <<mid>>, x, 1) <=> K <= x
  <2>1. g.resp[new] \subseteq Key /\ f.owner[mid] = up
    BY <1>2, <1>3, <1>4 DEF GhostTyped
  <2>2. h.node[up].size = 1 /\ h.cell[mid].next = 0 /\ h.cell[mid].key \in g.resp[new]
    BY DEF Crown, Gap
  <2> QED
    BY <1>3, <1>4, <2>1, <2>2, OneCell, Zenon
<1>7. GhostTyped(h, f)
  <2>1. ASSUME NEW n \in Nodes(h) PROVE f.rank[n] \in Nat
    <3>1. g.rank[n] \in Nat /\ g.rank[new] \in Nat
      BY <1>3, <1>4 DEF GhostTyped
    <3>2. f.rank[n] = IF n = up THEN 2 * g.rank[new] + 1 ELSE 2 * g.rank[n]
      BY <1>2
    <3> QED
      BY <3>1, <3>2
  <2>2. \A n \in Nodes(h) : f.parent[n] \in Nat /\ f.pos[n] \in Nat
    <3>1. \A n \in Nodes(h) : g.parent[n] \in Nat /\ g.pos[n] \in Nat
      BY <1>3, Zenon DEF GhostTyped
    <3>2. up \in Nat
      BY <1>4 DEF Nodes
    <3> QED
      BY <1>2, <3>1, <3>2
  <2>3. \A n \in Nodes(h) : f.resp[n] \subseteq Key /\ f.under[n] \subseteq Key
    BY <1>2, <1>3, <1>4 DEF GhostTyped
  <2>4. \A n \in Nodes(h) : f.own[n] \in Seq(Nat)
    BY <1>2, <1>3, <1>6 DEF GhostTyped
  <2>5. \A c \in Cells(h) : f.owner[c] \in Nat
    BY <1>2, <1>3, <1>4 DEF GhostTyped, Nodes
  <2> QED
    BY <2>1, <2>2, <2>3, <2>4, <2>5 DEF GhostTyped
<1>8. RootInv(h, root, f)
  <2>1. root \in Nodes(h) /\ ~h.node[root].leaf /\ g.under[root] = Key /\ g.parent[root] = 0
    BY DEF Tree, RootInv
  <2>2. root # up
    BY <1>5, <2>1
  <2>3. root # new
    <3>1. PICK x \in g.resp[ch] : x < K
      BY DEF Gap
    <3>2. x \in Key /\ x \in Int
      BY <1>3, <1>4, <3>1 DEF GhostTyped, Basics
    <3>3. x \notin g.resp[new]
      BY <1>5, <3>1, <3>2 DEF Gap
    <3> QED
      BY <1>5, <2>1, <3>2, <3>3
  <2> QED
    BY <1>2, <2>1, <2>2, <2>3 DEF RootInv
<1>9. Grown(h, g, h, f, up)
  <2>1. Len(h.node) <= Len(h.node) /\ Len(h.cell) <= Len(h.cell)
    BY <1>3 DEF Basics
  <2>2. g.owner[mid] = 0
    BY DEF Crown
  <2> QED
    BY <1>2, <2>1, <2>2 DEF Grown
<1>10. Upward(h, g, f, up)
  <2> SUFFICES ASSUME NEW a \in Nodes(h), g.parent[a] \in Nodes(h), g.parent[a] # up
               PROVE  /\ f.parent[a] = g.parent[a] /\ f.under[a] = g.under[a]
                      /\ g.rank[a] < g.rank[g.parent[a]] => f.rank[a] < f.rank[g.parent[a]]
    BY DEF Upward
  <2>1. a # new /\ a # up
    BY DEF Gap, Crown, Nodes
  <2>2. f.rank[a] = 2 * g.rank[a] /\ f.rank[g.parent[a]] = 2 * g.rank[g.parent[a]]
    BY <1>2, <2>1
  <2>3. g.rank[a] \in Nat /\ g.rank[g.parent[a]] \in Nat
    BY <1>3 DEF GhostTyped
  <2> QED
    BY <1>2, <2>1, <2>2, <2>3
<1>11. LeavesSame(h, g, h, f)
  <2>1. ~h.node[up].leaf
    BY DEF Crown
  <2> QED
    BY <1>2, <2>1 DEF LeavesSame
<1>12. /\ LeafInv(h, f) /\ ChainInv(h, f) /\ f.head \in Nodes(h) /\ h.node[f.head].leaf
       /\ \A x \in Key : Value(h, f, x) = Value(h, g, x)
  BY <1>3, <1>11, LeavesKept
<1>13. CellInv(h, f, 0)
  <2> SUFFICES ASSUME NEW n, Inner(h, f, n)
               PROVE  CellsOf(h, f.owner, n, f.own[n], f.resp[n]) /\ h.node[n].size <= max_size
    BY CellsOfAll
  <2>1. n \in Nodes(h)
    BY DEF Inner
  <2>2. CASE n = up
    <3>1. 1 <= max_size
      BY TreeAssumption DEF max_size
    <3> QED
      BY <1>2, <1>6, <2>1, <2>2, <3>1 DEF Crown
  <2>3. CASE n # up
    <3>1. Inner(h, g, n)
      BY <1>2, <2>1, <2>3 DEF Inner
    <3>2. CellInv(h, g, 0) /\ n # 0
      BY <2>1 DEF Tree, Nodes
    <3>3. h.node[n].size <= max_size
      BY <3>1, <3>2 DEF CellInv
    <3> QED
      BY <1>3, <1>9, <2>3, <3>1, <3>2, <3>3, CellsKept
  <2> QED
    BY <2>2, <2>3
<1>14. SlotInv(h, f)
  <2> SUFFICES ASSUME NEW n, NEW j, Used(h, f, n, j) PROVE Passes(h, f, n, j)
    BY DEF SlotInv
  <2>1. n \in Nodes(h)
    BY DEF Used, Inner
  <2>2. CASE n # up
    <3>1. CellInv(h, g, 0) /\ SlotInv(h, g)
      BY DEF Tree
    <3> QED
      BY <1>3, <1>9, <1>10, <2>1, <2>2, <3>1, PassesKept
  <2>3. CASE n = up
    <3>1. f.own[n] = <<mid>> /\ f.resp[n] = g.resp[new]
      BY <1>2, <2>1, <2>3
    <3>2. j \in 0..1 /\ \E x \in g.resp[new] : InSlot(h, <<mid>>, x, j)
      BY <1>6, <3>1 DEF Used
    <3>3. j = 1
      <4> SUFFICES ASSUME j = 0 PROVE FALSE
        BY <3>2
      <4>1. PICK x \in g.resp[new] : InSlot(h, <<mid>>, x, 0)
        BY <3>2
      <4>2. x \in Key /\ x \in Int
        BY <1>3, <1>4 DEF GhostTyped, Basics
      <4>3. x < K /\ K <= x
        BY <1>6, <4>1, <4>2 DEF Gap
      <4> QED
        BY <1>5, <4>2, <4>3
    <3>4. Kid(h, n, f.own[n], j) = new
      BY <1>6, <2>3, <3>1, <3>3 DEF Kid, Crown
    <3>5. f.rank[new] < f.rank[n] /\ f.parent[new] = n /\ f.under[new] = g.resp[new]
      <4>1. g.rank[new] \in Nat
        BY <1>3, <1>4 DEF GhostTyped
      <4> QED
        BY <1>2, <1>4, <1>5, <2>3, <4>1
    <3>6. \A x \in Key : x \in g.resp[new] <=> x \in g.resp[new] /\ InSlot(h, <<mid>>, x, 1)
      BY <1>6 DEF Gap
    <3> QED
      BY <1>4, <3>1, <3>3, <3>4, <3>5, <3>6 DEF Passes
  <2> QED
    BY <2>2, <2>3
<1>15. SpineInv(h, root, f)
  <2>1. g.spine \subseteq Nodes(h) /\ root \in g.spine /\ up \notin g.spine
    BY DEF Tree, SpineInv, Crown
  <2>2. ASSUME NEW n \in g.spine
        PROVE  IF h.node[n].leaf THEN n = g.head
               ELSE h.node[n].lesser \in g.spine /\ f.rank[h.node[n].lesser] < f.rank[n]
    <3>1. IF h.node[n].leaf THEN n = g.head
          ELSE h.node[n].lesser \in g.spine /\ g.rank[h.node[n].lesser] < g.rank[n]
      BY DEF Tree, SpineInv
    <3>2. ASSUME NEW a \in g.spine PROVE a \in Nodes(h) /\ f.rank[a] = 2 * g.rank[a] /\ g.rank[a] \in Nat
      <4>1. a \in Nodes(h) /\ a # up
        BY <2>1
      <4> QED
        BY <1>2, <1>3, <4>1 DEF GhostTyped
    <3>3. CASE ~h.node[n].leaf
      <4>1. h.node[n].lesser \in g.spine /\ g.rank[h.node[n].lesser] < g.rank[n]
        BY <3>1, <3>3
      <4>2. f.rank[n] = 2 * g.rank[n] /\ g.rank[n] \in Nat
        BY <3>2
      <4>3. f.rank[h.node[n].lesser] = 2 * g.rank[h.node[n].lesser] /\ g.rank[h.node[n].lesser] \in Nat
        BY <3>2, <4>1
      <4> QED
        BY <3>3, <4>1, <4>2, <4>3
    <3> QED
      BY <3>1, <3>3
  <2> QED
    BY <1>2, <1>12, <2>1, <2>2 DEF SpineInv
<1>16. Gap(h, f, ch, up, K)
  <2>1. f.resp[up] = g.resp[new] /\ f.resp[ch] = g.resp[ch] /\ f.under[ch] = g.under[ch]
    BY <1>2, <1>4
  <2>2. f.parent[up] = 0
    BY <1>2, <1>4 DEF Crown
  <2>3. \A n \in Nodes(h) : n # ch => f.under[n] = f.resp[n]
    BY <1>2 DEF Gap
  <2>4. ASSUME NEW n \in Nodes(h), n # up, f.rank[ch] < f.rank[n]
        PROVE  f.rank[up] < f.rank[n]
    <3>1. f.rank[ch] = 2 * g.rank[ch] /\ f.rank[n] = 2 * g.rank[n] /\ f.rank[up] = 2 * g.rank[new] + 1
      BY <1>2, <1>4, <2>4
    <3>2. g.rank[ch] \in Nat /\ g.rank[n] \in Nat /\ g.rank[new] \in Nat
      BY <1>3, <1>4 DEF GhostTyped
    <3>3. g.rank[ch] < g.rank[n]
      BY <2>4, <3>1, <3>2
    <3>4. g.rank[new] = g.rank[ch]
      BY DEF Crown
    <3> QED
      BY <3>1, <3>2, <3>3, <3>4
  <2> QED
    BY <1>4, <2>1, <2>2, <2>3, <2>4 DEF Gap
<1>17. Tree(h, root, f, 0)
  BY <1>7, <1>8, <1>12, <1>13, <1>14, <1>15 DEF Tree
<1> QED
  BY <1>9, <1>12, <1>16, <1>17 DEF Adopted

Enthroned(h, g, up, f) ==
    /\ Tree(h, up, f, 0) /\ Whole(h, f)
    /\ \A x \in Key : Value(h, f, x) = Value(h, g, x)

\* The new root becomes the root of the tree.
LEMMA NewRoot ==
  ASSUME NEW h, NEW root, NEW g, Tree(h, root, g, 0),
         NEW up, NEW new, NEW K, K = h.cell[h.node[up].first].key,
         Gap(h, g, root, new, K), Crown(h, g, root, up, new)
  PROVE  \E f : Enthroned(h, g, up, f)
<1> DEFINE mid == h.node[up].first
<1>1. PICK f : f =
        [rank   |-> [n \in Nodes(h) |-> IF n = up THEN g.rank[root] + 1 ELSE g.rank[n]],
         resp   |-> [n \in Nodes(h) |-> IF n = up THEN Key ELSE g.resp[n]],
         under  |-> [n \in Nodes(h) |-> IF n = up THEN Key ELSE g.resp[n]],
         own    |-> [n \in Nodes(h) |-> IF n = up THEN <<mid>> ELSE g.own[n]],
         parent |-> [n \in Nodes(h) |-> IF n = new \/ n = root THEN up ELSE g.parent[n]],
         owner  |-> [c \in Cells(h) |-> IF c = mid THEN up ELSE g.owner[c]],
         pos |-> g.pos, home |-> g.home, spine |-> g.spine \union {up}, head |-> g.head]
  OBVIOUS
<1>2. /\ \A n \in Nodes(h) :
            /\ f.rank[n] = IF n = up THEN g.rank[root] + 1 ELSE g.rank[n]
            /\ f.resp[n] = IF n = up THEN Key ELSE g.resp[n]
            /\ f.under[n] = IF n = up THEN Key ELSE g.resp[n]
            /\ f.own[n] = IF n = up THEN <<mid>> ELSE g.own[n]
            /\ f.parent[n] = IF n = new \/ n = root THEN up ELSE g.parent[n]
      /\ \A c \in Cells(h) : f.owner[c] = IF c = mid THEN up ELSE g.owner[c]
      /\ f.pos = g.pos /\ f.home = g.home /\ f.spine = g.spine \union {up} /\ f.head = g.head
  BY <1>1
<1>3. Basics(h) /\ GhostTyped(h, g)
  BY HeapBasics DEF Tree
<1>4. /\ up \in Nodes(h) /\ new \in Nodes(h) /\ root \in Nodes(h)
      /\ up # root /\ up # new /\ root # new /\ up # 0 /\ mid \in Cells(h)
      /\ ~h.node[up].leaf /\ h.node[up].size = 1 /\ h.node[up].lesser = root
      /\ h.cell[mid].child = new /\ h.cell[mid].next = 0
  BY DEF Gap, Crown, Nodes
<1>5. /\ K \in Key /\ K \in Int
      /\ g.under[root] = Key /\ g.parent[root] = 0 /\ g.parent[new] = 0 /\ g.parent[up] = 0
  BY <1>3, <1>4 DEF Gap, Crown, Basics, Tree, RootInv
<1>6. /\ <<mid>> \in Seq(Nat) /\ Len(<<mid>>) = 1 /\ <<mid>>[1] = mid
      /\ CellsOf(h, f.owner, up, <<mid>>, Key)
      /\ \A x \in Key : InSlot(h, <<mid>>, x, 0) <=> x < K
      /\ \A x \in Key : InSlot(h, <<mid>>, x, 1) <=> K <= x
  <2>1. Key \subseteq Key /\ f.owner[mid] = up /\ h.cell[mid].key \in Key
    BY <1>2, <1>4, <1>5
  <2> QED
    BY <1>3, <1>4, <2>1, OneCell, Zenon
<1>7. GhostTyped(h, f)
  <2>1. ASSUME NEW n \in Nodes(h) PROVE f.rank[n] \in Nat
    <3>1. g.rank[n] \in Nat /\ g.rank[root] \in Nat
      BY <1>3, <1>4 DEF GhostTyped
    <3>2. f.rank[n] = IF n = up THEN g.rank[root] + 1 ELSE g.rank[n]
      BY <1>2
    <3> QED
      BY <3>1, <3>2
  <2>2. ASSUME NEW n \in Nodes(h) PROVE f.parent[n] \in Nat /\ f.pos[n] \in Nat
    <3>1. g.parent[n] \in Nat /\ g.pos[n] \in Nat
      BY <1>3 DEF GhostTyped
    <3>2. up \in Nat
      BY <1>4 DEF Nodes
    <3> QED
      BY <1>2, <3>1, <3>2
  <2>3. \A n \in Nodes(h) : f.resp[n] \subseteq Key /\ f.under[n] \subseteq Key
    BY <1>2, <1>3, <1>4 DEF GhostTyped
  <2>4. \A n \in Nodes(h) : f.own[n] \in Seq(Nat)
    BY <1>2, <1>3, <1>6 DEF GhostTyped
  <2>5. \A c \in Cells(h) : f.owner[c] \in Nat
    BY <1>2, <1>3, <1>4 DEF GhostTyped, Nodes
  <2> QED
    BY <2>1, <2>2, <2>3, <2>4, <2>5 DEF GhostTyped
<1>8. RootInv(h, up, f)
  BY <1>2, <1>4, <1>5 DEF RootInv
<1>9. Grown(h, g, h, f, up)
  <2>1. Len(h.node) <= Len(h.node) /\ Len(h.cell) <= Len(h.cell)
    BY <1>3 DEF Basics
  <2>2. g.owner[mid] = 0
    BY DEF Crown
  <2> QED
    BY <1>2, <2>1, <2>2 DEF Grown
<1>10. Upward(h, g, f, up)
  <2> SUFFICES ASSUME NEW a \in Nodes(h), g.parent[a] \in Nodes(h), g.parent[a] # up
               PROVE  /\ f.parent[a] = g.parent[a] /\ f.under[a] = g.under[a]
                      /\ g.rank[a] < g.rank[g.parent[a]] => f.rank[a] < f.rank[g.parent[a]]
    BY DEF Upward
  <2>1. a # new /\ a # up /\ a # root
    BY <1>5 DEF Nodes
  <2>2. g.under[a] = g.resp[a]
    BY <2>1 DEF Gap
  <2> QED
    BY <1>2, <2>1, <2>2
<1>11. LeavesSame(h, g, h, f)
  BY <1>2, <1>4 DEF LeavesSame
<1>12. /\ LeafInv(h, f) /\ ChainInv(h, f) /\ f.head \in Nodes(h) /\ h.node[f.head].leaf
       /\ \A x \in Key : Value(h, f, x) = Value(h, g, x)
  BY <1>3, <1>11, LeavesKept
<1>13. CellInv(h, f, 0)
  <2> SUFFICES ASSUME NEW n, Inner(h, f, n)
               PROVE  CellsOf(h, f.owner, n, f.own[n], f.resp[n]) /\ h.node[n].size <= max_size
    BY CellsOfAll
  <2>1. n \in Nodes(h)
    BY DEF Inner
  <2>2. CASE n = up
    <3>1. 1 <= max_size
      BY TreeAssumption DEF max_size
    <3> QED
      BY <1>2, <1>4, <1>6, <2>1, <2>2, <3>1
  <2>3. CASE n # up
    <3>1. Inner(h, g, n)
      BY <1>2, <2>1, <2>3 DEF Inner
    <3>2. CellInv(h, g, 0) /\ n # 0
      BY <2>1 DEF Tree, Nodes
    <3>3. h.node[n].size <= max_size
      BY <3>1, <3>2 DEF CellInv
    <3> QED
      BY <1>3, <1>9, <2>3, <3>1, <3>2, <3>3, CellsKept
  <2> QED
    BY <2>2, <2>3
<1>14. SlotInv(h, f)
  <2> SUFFICES ASSUME NEW n, NEW j, Used(h, f, n, j) PROVE Passes(h, f, n, j)
    BY DEF SlotInv
  <2>1. n \in Nodes(h)
    BY DEF Used, Inner
  <2>2. CASE n # up
    <3>1. CellInv(h, g, 0) /\ SlotInv(h, g)
      BY DEF Tree
    <3> QED
      BY <1>3, <1>9, <1>10, <2>1, <2>2, <3>1, PassesKept
  <2>3. CASE n = up
    <3>1. f.own[n] = <<mid>> /\ f.resp[n] = Key
      BY <1>2, <2>1, <2>3
    <3>2. j \in 0..1
      BY <1>6, <3>1 DEF Used
    <3>3. g.rank[new] \in Nat /\ g.rank[root] \in Nat /\ g.rank[new] = g.rank[root]
      BY <1>3, <1>4 DEF GhostTyped, Crown
    <3>4. \A x \in Key : x \in Int /\ (x \in g.resp[root] \/ x \in g.resp[new])
      BY <1>3, <1>5 DEF Gap, Basics
    <3>5. CASE j = 0
      <4>1. Kid(h, n, f.own[n], j) = root
        BY <1>4, <2>3, <3>5 DEF Kid
      <4>2. f.rank[root] < f.rank[n] /\ f.parent[root] = n /\ f.under[root] = g.resp[root]
        BY <1>2, <1>4, <2>3, <3>3
      <4>3. \A x \in Key : x \in g.resp[root] <=> x < K
        BY <1>5, <3>4 DEF Gap
      <4> QED
        BY <1>4, <1>6, <3>1, <3>5, <4>1, <4>2, <4>3 DEF Passes
    <3>6. CASE j = 1
      <4>1. Kid(h, n, f.own[n], j) = new
        BY <1>4, <1>6, <2>3, <3>1, <3>6 DEF Kid
      <4>2. f.rank[new] < f.rank[n] /\ f.parent[new] = n /\ f.under[new] = g.resp[new]
        BY <1>2, <1>4, <2>3, <3>3
      <4>3. \A x \in Key : x \in g.resp[new] <=> K <= x
        BY <1>5, <3>4 DEF Gap
      <4> QED
        BY <1>4, <1>6, <3>1, <3>6, <4>1, <4>2, <4>3 DEF Passes
    <3> QED
      BY <3>2, <3>5, <3>6
  <2> QED
    BY <2>2, <2>3
<1>15. SpineInv(h, up, f)
  <2>1. g.spine \subseteq Nodes(h) /\ root \in g.spine /\ up \notin g.spine
    BY DEF Tree, SpineInv, Crown
  <2>2. ASSUME NEW n \in g.spine
        PROVE  IF h.node[n].leaf THEN n = g.head
               ELSE h.node[n].lesser \in g.spine /\ f.rank[h.node[n].lesser] < f.rank[n]
    <3>1. IF h.node[n].leaf THEN n = g.head
          ELSE h.node[n].lesser \in g.spine /\ g.rank[h.node[n].lesser] < g.rank[n]
      BY DEF Tree, SpineInv
    <3>2. \A a \in g.spine : f.rank[a] = g.rank[a]
      BY <1>2, <2>1
    <3> QED
      BY <3>1, <3>2
  <2>3. f.rank[root] < f.rank[up]
    <3>1. g.rank[root] \in Nat
      BY <1>3, <1>4 DEF GhostTyped
    <3> QED
      BY <1>2, <1>4, <3>1
  <2>4. \A n \in f.spine : n \in g.spine \/ n = up
    BY <1>2
  <2>5. f.spine \subseteq Nodes(h) /\ up \in f.spine /\ root \in f.spine /\ g.spine \subseteq f.spine
    BY <1>2, <1>4, <2>1
  <2> QED
    BY <1>2, <1>4, <1>12, <2>2, <2>3, <2>4, <2>5 DEF SpineInv
<1>16. Whole(h, f)
  BY <1>2 DEF Whole
<1>17. Tree(h, up, f, 0)
  BY <1>7, <1>8, <1>12, <1>13, <1>14, <1>15 DEF Tree
<1> QED
  BY <1>12, <1>16, <1>17 DEF Enthroned

------------------------------------------------------------------------------
(* A cell for a new child.                                                  *)

\* k is h with a new cell c for child new, behind the first j cells of node p.
Inserted(h, k, p, s, j, c, K, new) ==
    /\ Len(k.node) = Len(h.node) /\ c = Len(h.cell) + 1 /\ Len(k.cell) = c
    /\ \A n \in Nodes(h) : n # p => k.node[n] = h.node[n]
    /\ ~k.node[p].leaf /\ k.node[p].size = h.node[p].size + 1
    /\ k.node[p].lesser = h.node[p].lesser
    /\ k.node[p].first = IF j = 0 THEN c ELSE h.node[p].first
    /\ k.cell[c].key = K /\ k.cell[c].child = new
    /\ k.cell[c].next = IF j = 0 THEN h.node[p].first ELSE h.cell[s[j]].next
    /\ \A d \in Cells(h) : /\ k.cell[d].key = h.cell[d].key /\ k.cell[d].child = h.cell[d].child
                           /\ j = 0 \/ d # s[j] => k.cell[d] = h.cell[d]
    /\ j # 0 => k.cell[s[j]].next = c

\* Before, at and behind the new one.
LEMMA SpreadAt ==
  ASSUME NEW s, Len(s) \in Nat, NEW j \in 0..Len(s), NEW c, NEW t, Spread(s, j, c, t)
  PROVE  /\ \A a \in 1..j : a \in 1..Len(s) /\ t[a] = s[a]
         /\ t[j + 1] = c
         /\ \A a \in j + 2..Len(s) + 1 : a - 1 \in 1..Len(s) /\ t[a] = s[a - 1]
<1>1. ASSUME NEW a \in 1..j PROVE a \in 1..Len(s) /\ t[a] = s[a]
  <2>1. a \in 1..Len(s) + 1 /\ a <= j /\ a \in 1..Len(s)
    OBVIOUS
  <2> QED
    BY <2>1 DEF Spread
<1>2. t[j + 1] = c
  <2>1. j + 1 \in 1..Len(s) + 1 /\ ~(j + 1 <= j)
    OBVIOUS
  <2> QED
    BY <2>1 DEF Spread
<1>3. ASSUME NEW a \in j + 2..Len(s) + 1 PROVE a - 1 \in 1..Len(s) /\ t[a] = s[a - 1]
  <2>1. a \in 1..Len(s) + 1 /\ ~(a <= j) /\ a # j + 1 /\ a - 1 \in 1..Len(s)
    OBVIOUS
  <2> QED
    BY <2>1 DEF Spread
<1> QED
  BY <1>1, <1>2, <1>3

\* The slot of the new child is cut off from slot j; the slots behind it move on.
SlotsAfter(h, k, p, s, j, K, new, t, i) ==
    /\ i <= j => Kid(k, p, t, i) = Kid(h, p, s, i)
    /\ i = j + 1 => Kid(k, p, t, i) = new
    /\ i > j + 1 => Kid(k, p, t, i) = Kid(h, p, s, i - 1)
    /\ \A x : i < j => (InSlot(k, t, x, i) <=> InSlot(h, s, x, i))
    /\ \A x : i = j => (InSlot(k, t, x, i) <=> (j > 0 => h.cell[s[j]].key <= x) /\ x < K)
    /\ \A x : i = j + 1 =>
          (InSlot(k, t, x, i) <=> K <= x /\ (j < Len(s) => x < h.cell[s[j + 1]].key))
    /\ \A x : i > j + 1 => (InSlot(k, t, x, i) <=> InSlot(h, s, x, i - 1))

\* So it is.
LEMMA InsertedSlots ==
  ASSUME NEW h, NEW k, NEW p, NEW s, Len(s) \in Nat, NEW j \in 0..Len(s), NEW c, NEW K, NEW new,
         NEW t, Spread(s, j, c, t), \A i \in 1..Len(s) : s[i] \in Cells(h),
         Inserted(h, k, p, s, j, c, K, new), NEW i \in 0..Len(s) + 1
  PROVE  SlotsAfter(h, k, p, s, j, K, new, t, i)
<1> USE DEF SlotsAfter
<1>1. \A a \in 1..j : a \in 1..Len(s) /\ t[a] = s[a] /\ k.cell[t[a]].key = h.cell[s[a]].key
                      /\ k.cell[t[a]].child = h.cell[s[a]].child
  <2>1. \A a \in 1..j : a \in 1..Len(s) /\ t[a] = s[a]
    BY SpreadAt
  <2>2. \A a \in 1..j : s[a] \in Cells(h)
    BY <2>1
  <2>3. \A d \in Cells(h) : k.cell[d].key = h.cell[d].key /\ k.cell[d].child = h.cell[d].child
    BY DEF Inserted
  <2> QED
    BY <2>1, <2>2, <2>3
<1>2. t[j + 1] = c /\ k.cell[t[j + 1]].key = K /\ k.cell[t[j + 1]].child = new
  BY SpreadAt DEF Inserted
<1>3. \A a \in j + 2..Len(s) + 1 :
          /\ a - 1 \in 1..Len(s) /\ t[a] = s[a - 1] /\ k.cell[t[a]].key = h.cell[s[a - 1]].key
          /\ k.cell[t[a]].child = h.cell[s[a - 1]].child
  <2>1. \A a \in j + 2..Len(s) + 1 : a - 1 \in 1..Len(s) /\ t[a] = s[a - 1]
    BY SpreadAt
  <2> QED
    BY <2>1 DEF Inserted
<1>4. Len(t) = Len(s) + 1 /\ k.node[p].lesser = h.node[p].lesser
  BY DEF Spread, Inserted
<1>5. CASE i < j
  <2>1. i > 0 => i \in 1..j
    BY <1>5
  <2>2. i + 1 \in 1..j /\ i < Len(s) /\ i < Len(t) /\ ~(i = j + 1) /\ ~(i > j + 1) /\ i # j
    BY <1>4, <1>5
  <2>3. i = 0 \/ i > 0
    OBVIOUS
  <2> QED
    BY <1>1, <1>4, <2>1, <2>2, <2>3 DEF InSlot, Kid
<1>6. CASE i = j
  <2>1. i > 0 => i \in 1..j
    BY <1>6
  <2>2. i < Len(t) /\ ~(i = j + 1) /\ ~(i > j + 1) /\ ~(i < j)
    BY <1>4, <1>6
  <2>3. i = 0 \/ i > 0
    OBVIOUS
  <2> QED
    BY <1>1, <1>2, <1>4, <1>6, <2>1, <2>2, <2>3 DEF InSlot, Kid
<1>7. CASE i = j + 1
  <2>1. i > 0 /\ i # 0 /\ ~(i < j) /\ ~(i <= j) /\ i # j /\ ~(i > j + 1)
    BY <1>7
  <2>2. i < Len(t) <=> j < Len(s)
    BY <1>4, <1>7
  <2>3. j < Len(s) => i + 1 \in j + 2..Len(s) + 1 /\ (i + 1) - 1 = j + 1
    BY <1>7
  <2> QED
    BY <1>2, <1>3, <1>7, <2>1, <2>2, <2>3 DEF InSlot, Kid
<1>8. CASE i > j + 1
  <2>1. /\ i > 0 /\ i # 0 /\ ~(i < j) /\ ~(i <= j) /\ i # j /\ i # j + 1
        /\ i - 1 > 0 /\ i - 1 # 0 /\ i \in j + 2..Len(s) + 1
    BY <1>8
  <2>2. i < Len(t) <=> i - 1 < Len(s)
    BY <1>4
  <2>3. i < Len(t) => i + 1 \in j + 2..Len(s) + 1 /\ (i + 1) - 1 = (i - 1) + 1
    BY <1>4, <1>8
  <2> QED
    BY <1>3, <1>8, <2>1, <2>2, <2>3 DEF InSlot, Kid
<1> QED
  BY <1>5, <1>6, <1>7, <1>8

\* The list of p has the new cell in its place.
LEMMA InsertedCells ==
  ASSUME NEW h, NEW k, NEW p, NEW s, Len(s) \in Nat, NEW j \in 0..Len(s), NEW c, NEW K, NEW new,
         NEW t, Spread(s, j, c, t), Inserted(h, k, p, s, j, c, K, new), Basics(h), Basics(k),
         NEW owner, NEW R, R \subseteq Key, CellsOf(h, owner, p, s, R), K \in R,
         NEW x \in R, InSlot(h, s, x, j), x < K, InSlot(h, s, K, j), CellsTyped(h, s),
         NEW w, w[c] = p, \A d \in Cells(h) : w[d] = owner[d]
  PROVE  CellsOf(k, w, p, t, R)
<1>1. /\ Len(t) = Len(s) + 1 /\ Len(s) > 0
      /\ \A i \in 1..j : i \in 1..Len(s) /\ t[i] = s[i]
      /\ t[j + 1] = c
      /\ \A i \in j + 2..Len(s) + 1 : i - 1 \in 1..Len(s) /\ t[i] = s[i - 1]
  <2>1. Len(t) = Len(s) + 1 /\ Len(s) > 0
    BY DEF Spread, CellsOf
  <2> QED
    BY <2>1, SpreadAt
<1>2. c \in Cells(k) /\ \A d \in Cells(h) : d \in Cells(k) /\ d # c
  BY DEF Inserted, Cells, Basics
<1>3. \A d \in Cells(h) : k.cell[d].key = h.cell[d].key
  BY DEF Inserted
<1>4. \A i \in 1..Len(s) : /\ s[i] \in Cells(h) /\ owner[s[i]] = p
                           /\ h.cell[s[i]].key \in R /\ h.cell[s[i]].key \in Int
  BY DEF CellsOf, CellsTyped
<1>5. \A i \in 1..Len(s) + 1 : i \in 1..j \/ i = j + 1 \/ i \in j + 2..Len(s) + 1
  OBVIOUS
<1>6. Len(t) = k.node[p].size
  BY <1>1, Zenon DEF Inserted, CellsOf
<1>7. k.node[p].first = t[1]
  <2>1. CASE j = 0
    BY <1>1, <2>1 DEF Inserted
  <2>2. CASE j # 0
    <3>1. 1 \in 1..j
      BY <2>2
    <3> QED
      BY <1>1, <2>2, <3>1, Zenon DEF Inserted, CellsOf
  <2> QED
    BY <2>1, <2>2
<1>8. ASSUME NEW i \in 1..Len(t)
      PROVE  t[i] \in Cells(k) /\ w[t[i]] = p /\ k.cell[t[i]].key \in R
  <2>1. i \in 1..Len(s) + 1
    BY <1>1
  <2>2. CASE i = j + 1
    BY <1>1, <1>2, <2>2 DEF Inserted
  <2>3. CASE i # j + 1
    <3>1. PICK a \in 1..Len(s) : t[i] = s[a]
      BY <1>1, <1>5, <2>1, <2>3
    <3> QED
      BY <1>2, <1>3, <1>4, <3>1
  <2> QED
    BY <2>2, <2>3
<1>9. K \in Int /\ x \in Int
  BY DEF Basics
<1>10. ASSUME NEW a \in 1..Len(s)
       PROVE  /\ a <= j => h.cell[s[a]].key < K
              /\ a > j => K < h.cell[s[a]].key
  <2>1. ASSUME a <= j PROVE h.cell[s[a]].key < K
    <3>1. j \in 1..Len(s) /\ (a = j \/ a < j)
      BY <2>1
    <3>2. h.cell[s[j]].key <= x
      BY <3>1 DEF InSlot
    <3>3. a = j \/ h.cell[s[a]].key < h.cell[s[j]].key
      BY <3>1 DEF CellsOf
    <3>4. h.cell[s[j]].key \in Int /\ h.cell[s[a]].key \in Int
      BY <1>4, <3>1
    <3>5. PICK u, v : u = h.cell[s[a]].key /\ v = h.cell[s[j]].key
      OBVIOUS
    <3>6. x \in Int /\ K \in Int /\ u \in Int /\ v \in Int /\ v <= x /\ x < K /\ (u = v \/ u < v)
      BY <1>9, <3>2, <3>3, <3>4, <3>5
    <3>7. u < K
      BY ONLY <3>6
    <3> QED
      BY <3>5, <3>7
  <2>2. ASSUME a > j PROVE K < h.cell[s[a]].key
    <3>1. j + 1 \in 1..Len(s) /\ j < Len(s) /\ (a = j + 1 \/ j + 1 < a)
      BY <2>2
    <3>2. K < h.cell[s[j + 1]].key
      BY <3>1 DEF InSlot
    <3>3. a = j + 1 \/ h.cell[s[j + 1]].key < h.cell[s[a]].key
      BY <3>1 DEF CellsOf
    <3>4. h.cell[s[j + 1]].key \in Int /\ h.cell[s[a]].key \in Int
      BY <1>4, <3>1
    <3>5. PICK u, v : u = h.cell[s[j + 1]].key /\ v = h.cell[s[a]].key
      OBVIOUS
    <3>6. K \in Int /\ u \in Int /\ v \in Int /\ K < u /\ (u = v \/ u < v)
      BY <1>9, <3>2, <3>3, <3>4, <3>5
    <3>7. K < v
      BY ONLY <3>6
    <3> QED
      BY <3>5, <3>7
  <2> QED
    BY <2>1, <2>2
<1>11. ASSUME NEW a \in 1..Len(t), NEW b \in 1..Len(t), a < b
       PROVE  k.cell[t[a]].key < k.cell[t[b]].key
  <2>1. k.cell[c].key = K
    BY DEF Inserted
  <2>2. \A i, l \in 1..Len(s) : i < l => h.cell[s[i]].key < h.cell[s[l]].key
    BY DEF CellsOf
  <2>3. CASE a <= j
    <3>1. a \in 1..Len(s) /\ k.cell[t[a]].key = h.cell[s[a]].key
      BY <1>1, <1>3, <1>4, <2>3
    <3>2. CASE b <= j
      <4>1. b \in 1..Len(s) /\ k.cell[t[b]].key = h.cell[s[b]].key
        BY <1>1, <1>3, <1>4, <3>2
      <4> QED
        BY <1>11, <2>2, <3>1, <4>1
    <3>3. CASE b = j + 1
      BY <1>1, <1>10, <2>1, <2>3, <3>1, <3>3
    <3>4. CASE b > j + 1
      <4>1. b - 1 \in 1..Len(s) /\ k.cell[t[b]].key = h.cell[s[b - 1]].key /\ a < b - 1
        BY <1>1, <1>3, <1>4, <2>3, <3>4
      <4> QED
        BY <2>2, <3>1, <4>1
    <3> QED
      BY <1>1, <3>2, <3>3, <3>4
  <2>4. CASE a = j + 1
    <3>1. b - 1 \in 1..Len(s) /\ k.cell[t[b]].key = h.cell[s[b - 1]].key /\ b - 1 > j
      BY <1>1, <1>3, <1>4, <1>11, <2>4
    <3> QED
      BY <1>1, <1>10, <2>1, <2>4, <3>1
  <2>5. CASE a > j + 1
    <3>1. /\ b - 1 \in 1..Len(s) /\ k.cell[t[b]].key = h.cell[s[b - 1]].key
          /\ a - 1 \in 1..Len(s) /\ k.cell[t[a]].key = h.cell[s[a - 1]].key /\ a - 1 < b - 1
      <4>1. a \in j + 2..Len(s) + 1 /\ b \in j + 2..Len(s) + 1 /\ a - 1 < b - 1
        BY <1>1, <1>11, <2>5
      <4> QED
        BY <1>1, <1>3, <1>4, <4>1
    <3> QED
      BY <2>2, <3>1
  <2> QED
    BY <1>1, <2>3, <2>4, <2>5
<1>12. k.cell[c].next = (IF j = 0 THEN h.node[p].first ELSE h.cell[s[j]].next) /\ (j # 0 => k.cell[s[j]].next = c)
  BY DEF Inserted
<1>13. ASSUME NEW d \in 1..Len(s), d # j PROVE k.cell[s[d]] = h.cell[s[d]]
  <2>1. j # 0 => s[d] # s[j]
    BY <1>13 DEF CellsTyped, Distinct
  <2> QED
    BY <1>4, <2>1 DEF Inserted
<1>14. ASSUME NEW i \in 1..Len(t) - 1 PROVE k.cell[t[i]].next = t[i + 1]
  <2>1. CASE i < j
    <3>1. i \in 1..j /\ i + 1 \in 1..j /\ i \in 1..Len(s) - 1 /\ i # j /\ i \in 1..Len(s)
      BY <2>1
    <3>2. t[i] = s[i] /\ t[i + 1] = s[i + 1] /\ h.cell[s[i]].next = s[i + 1]
      BY <1>1, <3>1 DEF CellsOf
    <3> QED
      BY <1>13, <3>1, <3>2
  <2>2. CASE i = j
    BY <1>1, <1>12, <2>2
  <2>3. CASE i = j + 1
    <3>1. i + 1 \in j + 2..Len(s) + 1 /\ j + 1 \in 1..Len(s) /\ (i + 1) - 1 = j + 1
      BY <1>1, <2>3
    <3>2. t[i] = c /\ t[i + 1] = s[j + 1]
      BY <1>1, <2>3, <3>1
    <3>3. CASE j = 0
      BY <1>12, <3>2, <3>3 DEF CellsOf
    <3>4. CASE j # 0
      <4>1. j \in 1..Len(s) - 1
        BY <3>1, <3>4
      <4> QED
        BY <1>12, <3>2, <3>4, <4>1 DEF CellsOf
    <3> QED
      BY <3>3, <3>4
  <2>4. CASE i > j + 1
    <3>1. /\ i \in j + 2..Len(s) + 1 /\ i + 1 \in j + 2..Len(s) + 1
          /\ i - 1 \in 1..Len(s) - 1 /\ i - 1 # j /\ (i + 1) - 1 = (i - 1) + 1 /\ i - 1 \in 1..Len(s)
      BY <1>1, <2>4
    <3>2. t[i] = s[i - 1] /\ t[i + 1] = s[(i - 1) + 1] /\ h.cell[s[i - 1]].next = s[(i - 1) + 1]
      BY <1>1, <3>1 DEF CellsOf
    <3> QED
      BY <1>13, <3>1, <3>2
  <2> QED
    BY <2>1, <2>2, <2>3, <2>4
<1>15. k.cell[t[Len(t)]].next # 0 => \A y \in R : y < k.cell[k.cell[t[Len(t)]].next].key
  <2>1. k.cell[t[Len(t)]].next = h.cell[s[Len(s)]].next
    <3>1. CASE j = Len(s)
      <4>1. t[Len(t)] = c /\ j # 0
        BY <1>1, <3>1
      <4> QED
        BY <1>12, <3>1, <4>1
    <3>2. CASE j # Len(s)
      <4>1. Len(t) \in j + 2..Len(s) + 1 /\ Len(t) - 1 = Len(s) /\ Len(s) \in 1..Len(s)
        BY <1>1, <3>2
      <4>2. t[Len(t)] = s[Len(s)]
        BY <1>1, <4>1
      <4> QED
        BY <1>13, <3>2, <4>1, <4>2
    <3> QED
      BY <3>1, <3>2
  <2>2. s[Len(s)] \in Cells(h)
    BY <1>1, <1>4
  <2>3. h.cell[s[Len(s)]].next # 0 => h.cell[s[Len(s)]].next \in Cells(h)
    BY <2>2 DEF Basics, Cells
  <2> QED
    BY <1>3, <2>1, <2>3, Zenon DEF CellsOf
<1>16. Len(t) > 0
  BY <1>1
<1> QED
  BY <1>6, <1>7, <1>8, <1>11, <1>14, <1>15, <1>16, Zenon DEF CellsOf

\* A used slot is the only one with its child.
LEMMA OneSlot ==
  ASSUME NEW h, NEW root, NEW g, NEW over, Tree(h, root, g, over),
         NEW n, Inner(h, g, n), NEW x \in g.resp[n], NEW j \in 0..Len(g.own[n]),
         InSlot(h, g.own[n], x, j), NEW i, Used(h, g, n, i),
         Kid(h, n, g.own[n], i) = Kid(h, n, g.own[n], j)
  PROVE  i = j
<1> DEFINE s == g.own[n]
<1>1. Basics(h) /\ GhostTyped(h, g) /\ n \in Nodes(h)
  BY HeapBasics DEF Tree, Inner
<1>2. s \in Seq(Nat) /\ x \in Key /\ x \in Int
  BY <1>1 DEF Basics, GhostTyped
<1>3. CellsOf(h, g.owner, n, s, g.resp[n])
  BY DEF Tree, CellInv
<1>4. CellsTyped(h, s)
  BY <1>1, <1>2, <1>3, OwnCells
<1>5. Used(h, g, n, j)
  BY DEF Used
<1>6. Passes(h, g, n, j) /\ Passes(h, g, n, i)
  BY <1>5 DEF Tree, SlotInv
<1>7. InSlot(h, s, x, i) /\ i \in 0..Len(s)
  BY <1>2, <1>6 DEF Passes, Used
<1>8. /\ Len(s) \in Nat /\ \A a \in 1..Len(s) : h.cell[s[a]].key \in Int
      /\ \A a, b \in 1..Len(s) : a < b => h.cell[s[a]].key < h.cell[s[b]].key
      /\ InSlot(h, s, x, j) /\ j \in 0..Len(s)
  BY <1>3, <1>4, Zenon DEF CellsOf, CellsTyped
<1> HIDE DEF s
<1> QED
  BY <1>2, <1>7, <1>8, SlotUnique

Closed(h, g, root, k, p, f) ==
    /\ Tree(k, root, f, p) /\ Whole(k, f) /\ Grown(h, g, k, f, p)
    /\ Inner(k, f, p) /\ f.resp[p] = g.resp[p]
    /\ \A y \in Key : Value(k, f, y) = Value(h, g, y)

\* With a cell for new in its parent, the gap is closed.
LEMMA InsertCell ==
  ASSUME NEW h, NEW root, NEW g, Tree(h, root, g, 0),
         NEW ch, NEW new, NEW K, Gap(h, g, ch, new, K),
         NEW p, Inner(h, g, p), NEW x \in g.resp[p], NEW j \in 0..Len(g.own[p]),
         InSlot(h, g.own[p], x, j), Kid(h, p, g.own[p], j) = ch,
         NEW k, HeapTyped(k), NEW c, Inserted(h, k, p, g.own[p], j, c, K, new)
  PROVE  \E f : Closed(h, g, root, k, p, f)
<1> DEFINE s == g.own[p]
           t == InsertAfter(s, j, c)
<1>1. PICK f : f =
        [rank   |-> g.rank, resp |-> g.resp, under |-> g.resp,
         own    |-> [n \in Nodes(h) |-> IF n = p THEN t ELSE g.own[n]],
         parent |-> [n \in Nodes(h) |-> IF n = new THEN p ELSE g.parent[n]],
         owner  |-> [d \in Cells(k) |-> IF d = c THEN p ELSE g.owner[d]],
         pos |-> g.pos, home |-> g.home, spine |-> g.spine, head |-> g.head]
  OBVIOUS
<1>2. /\ \A n \in Nodes(h) : /\ f.own[n] = IF n = p THEN t ELSE g.own[n]
                             /\ f.parent[n] = IF n = new THEN p ELSE g.parent[n]
      /\ \A d \in Cells(k) : f.owner[d] = IF d = c THEN p ELSE g.owner[d]
      /\ f.rank = g.rank /\ f.resp = g.resp /\ f.under = g.resp
      /\ f.pos = g.pos /\ f.home = g.home /\ f.spine = g.spine /\ f.head = g.head
  BY <1>1
<1>3. Basics(h) /\ GhostTyped(h, g) /\ Basics(k) /\ CellInv(h, g, 0) /\ SlotInv(h, g)
  BY HeapBasics DEF Tree
<1>4. /\ p \in Nodes(h) /\ p \in Nat /\ p # 0 /\ new \in Nodes(h) /\ ch \in Nodes(h) /\ ch # new
      /\ Nodes(k) = Nodes(h) /\ c \in Nat /\ c \notin Cells(h) /\ c \in Cells(k)
      /\ \A d \in Cells(k) : d = c \/ d \in Cells(h)
      /\ \A d \in Cells(h) : d \in Cells(k)
  <2>1. Len(k.node) = Len(h.node) /\ c = Len(h.cell) + 1 /\ Len(k.cell) = c /\ Len(h.cell) \in Nat
    BY <1>3 DEF Inserted, Basics
  <2> QED
    BY <2>1 DEF Gap, Inner, Nodes, Cells
<1>5. s \in Seq(Nat) /\ Len(s) \in Nat /\ CellsOf(h, g.owner, p, s, g.resp[p]) /\ g.resp[p] \subseteq Key
  BY <1>3, <1>4 DEF GhostTyped, CellInv
<1>6. CellsTyped(h, s)
  BY <1>3, <1>5, OwnCells
<1>7. t \in Seq(Nat) /\ Spread(s, j, c, t)
  <2> HIDE DEF s, t
  <2>1. PICK S : S = Nat
    OBVIOUS
  <2>2. s \in Seq(S) /\ j \in 0..Len(s) /\ c \in S
    BY <1>4, <1>5, <2>1 DEF s
  <2>3. InsertAfter(s, j, c) \in Seq(S) /\ Spread(s, j, c, InsertAfter(s, j, c))
    BY ONLY <2>2, SpreadInsert
  <2> QED
    BY <2>1, <2>3 DEF t
<1> HIDE DEF t
<1>8. Used(h, g, p, j)
  BY DEF Used
<1>9. /\ g.rank[ch] < g.rank[p] /\ g.parent[ch] = p
      /\ \A y \in Key : y \in g.under[ch] <=> y \in g.resp[p] /\ InSlot(h, s, y, j)
  BY <1>3, <1>8 DEF SlotInv, Passes
<1>10. \A y \in Key : y \in g.resp[p] /\ InSlot(h, s, y, j) <=> y \in g.resp[ch] \/ y \in g.resp[new]
  BY <1>9 DEF Gap
<1>11. /\ K \in Key /\ K \in Int /\ K \in g.resp[p] /\ InSlot(h, s, K, j)
       /\ g.resp[new] \subseteq Key /\ g.resp[ch] \subseteq Key
  BY <1>3, <1>4, <1>10 DEF Gap, GhostTyped, Basics
<1>12. PICK z \in g.resp[ch] : z \in g.resp[p] /\ InSlot(h, s, z, j) /\ z < K
  BY <1>10, <1>11 DEF Gap
<1>13. CellsOf(k, f.owner, p, t, g.resp[p])
  <2>1. f.owner[c] = p /\ \A d \in Cells(h) : f.owner[d] = g.owner[d]
    BY <1>2, <1>4
  <2> HIDE DEF s
  <2>2. Inserted(h, k, p, s, j, c, K, new) /\ j \in 0..Len(s)
    BY DEF s
  <2> QED
    BY <1>3, <1>5, <1>6, <1>7, <1>11, <1>12, <2>1, <2>2, InsertedCells
<1>14. Grown(h, g, k, f, p)
  <2>1. Len(h.node) <= Len(k.node) /\ Len(h.cell) <= Len(k.cell)
    BY <1>3 DEF Inserted, Basics
  <2>2. \A n \in Nodes(h) : n # p =>
            k.node[n] = h.node[n] /\ f.resp[n] = g.resp[n] /\ f.own[n] = g.own[n]
    BY <1>2 DEF Inserted
  <2>3. \A d \in Cells(h) : k.cell[d].key = h.cell[d].key
    BY DEF Inserted
  <2>4. ASSUME NEW d \in Cells(h), g.owner[d] # 0, g.owner[d] # p
        PROVE  k.cell[d] = h.cell[d] /\ f.owner[d] = g.owner[d]
    <3>1. j # 0 => g.owner[s[j]] = p
      <4>1. j # 0 => j \in 1..Len(s)
        BY <1>5
      <4> QED
        BY <1>5, <4>1, Zenon DEF CellsOf
    <3>2. j = 0 \/ d # s[j]
      BY <2>4, <3>1
    <3>3. d \in Cells(k) /\ d # c
      BY <1>3, <1>4 DEF Inserted, Cells, Basics
    <3> QED
      BY <1>2, <3>2, <3>3 DEF Inserted
  <2> QED
    BY <2>1, <2>2, <2>3, <2>4 DEF Grown
<1>15. Upward(h, g, f, p)
  <2> SUFFICES ASSUME NEW a \in Nodes(h), g.parent[a] \in Nodes(h), g.parent[a] # p
               PROVE  /\ f.parent[a] = g.parent[a] /\ f.under[a] = g.under[a]
                      /\ g.rank[a] < g.rank[g.parent[a]] => f.rank[a] < f.rank[g.parent[a]]
    BY DEF Upward
  <2>1. a # new /\ a # ch
    BY <1>9 DEF Gap, Nodes
  <2>2. g.under[a] = g.resp[a]
    BY <2>1 DEF Gap
  <2> QED
    BY <1>2, <2>1, <2>2
<1>16. ~h.node[p].leaf /\ ~k.node[p].leaf
  BY DEF Inner, Inserted
<1>17. LeavesSame(h, g, k, f)
  BY <1>2, <1>4, <1>14, <1>16 DEF LeavesSame, Grown
<1>18. /\ LeafInv(k, f) /\ ChainInv(k, f) /\ f.head \in Nodes(k) /\ k.node[f.head].leaf
       /\ \A y \in Key : Value(k, f, y) = Value(h, g, y)
  BY <1>3, <1>17, LeavesKept
<1>19. GhostTyped(k, f)
  <2>1. ASSUME NEW n \in Nodes(k) PROVE f.parent[n] \in Nat
    <3>1. g.parent[n] \in Nat /\ p \in Nat
      BY <1>3, <1>4 DEF GhostTyped
    <3> QED
      BY <1>2, <1>4, <3>1
  <2>2. \A n \in Nodes(k) : f.own[n] \in Seq(Nat)
    BY <1>2, <1>3, <1>4, <1>7 DEF GhostTyped
  <2>3. \A d \in Cells(k) : f.owner[d] \in Nat
    BY <1>2, <1>3, <1>4 DEF GhostTyped, Nodes
  <2>4. \A n \in Nodes(k) : /\ f.rank[n] \in Nat /\ f.pos[n] \in Nat
                            /\ f.resp[n] \subseteq Key /\ f.under[n] \subseteq Key
    BY <1>2, <1>3, <1>4 DEF GhostTyped
  <2> QED
    BY <2>1, <2>2, <2>3, <2>4 DEF GhostTyped
<1>20. RootInv(k, root, f)
  <2>1. root \in Nodes(h) /\ ~h.node[root].leaf /\ g.under[root] = Key /\ g.parent[root] = 0
    BY DEF Tree, RootInv
  <2>2. root # ch
    BY <1>4, <1>9, <2>1
  <2>3. g.resp[root] = Key
    BY <2>1, <2>2 DEF Gap
  <2>4. root # new
    <3>1. z \in Key /\ z \in Int /\ z < K
      BY <1>3, <1>11, <1>12 DEF Basics
    <3>2. z \notin g.resp[new]
      BY <1>11, <3>1 DEF Gap
    <3> QED
      BY <2>3, <3>1, <3>2
  <2>5. ~k.node[root].leaf
    BY <1>14, <1>16, <2>1 DEF Grown
  <2> QED
    BY <1>2, <1>4, <2>1, <2>3, <2>4, <2>5 DEF RootInv
<1>21. CellInv(k, f, p)
  <2> SUFFICES ASSUME NEW n, Inner(k, f, n)
               PROVE  /\ CellsOf(k, f.owner, n, f.own[n], f.resp[n])
                      /\ k.node[n].size <= IF n = p THEN ORDER ELSE max_size
    BY DEF CellInv
  <2>1. n \in Nodes(h)
    BY <1>4 DEF Inner
  <2>2. CASE n = p
    <3>1. h.node[p].size <= max_size
      BY <1>3, <1>4 DEF CellInv
    <3>2. h.node[p].size \in Nat
      BY <1>3, <1>4 DEF Basics
    <3>3. k.node[p].size = h.node[p].size + 1
      BY DEF Inserted
    <3>4. k.node[p].size <= ORDER
      BY <3>1, <3>2, <3>3, TreeAssumption DEF max_size
    <3> QED
      BY <1>2, <1>13, <2>1, <2>2, <3>4
  <2>3. CASE n # p
    <3>1. Inner(h, g, n)
      BY <1>2, <1>14, <2>1, <2>3 DEF Inner, Grown
    <3>2. h.node[n].size <= max_size
      BY <1>3, <2>1, <3>1 DEF CellInv, Nodes
    <3>3. CellsOf(k, f.owner, n, f.own[n], f.resp[n]) /\ k.node[n].size = h.node[n].size
      BY <1>3, <1>14, <2>3, <3>1, CellsKept
    <3> QED
      BY <2>3, <3>2, <3>3
  <2> QED
    BY <2>2, <2>3
<1>22. ASSUME NEW i, Used(h, g, p, i), i # j
       PROVE  /\ Kid(h, p, s, i) \in Nodes(h) /\ f.rank[Kid(h, p, s, i)] < f.rank[p]
              /\ f.parent[Kid(h, p, s, i)] = p
              /\ \A y \in Key : y \in f.under[Kid(h, p, s, i)] <=> y \in g.resp[p] /\ InSlot(h, s, y, i)
  <2>1. Passes(h, g, p, i)
    BY <1>3, <1>22 DEF SlotInv
  <2>2. PICK kid : kid = Kid(h, p, s, i)
    OBVIOUS
  <2>3. kid # ch
    BY <1>22, <2>2, OneSlot
  <2>4. /\ kid \in Nodes(h) /\ g.rank[kid] < g.rank[p] /\ g.parent[kid] = p
        /\ \A y \in Key : y \in g.under[kid] <=> y \in g.resp[p] /\ InSlot(h, s, y, i)
    BY <2>1, <2>2 DEF Passes
  <2>5. kid # new /\ g.under[kid] = g.resp[kid]
    BY <1>4, <2>3, <2>4 DEF Gap
  <2> QED
    BY <1>2, <2>2, <2>4, <2>5
<1>23. ASSUME NEW i, Used(k, f, p, i) PROVE Passes(k, f, p, i)
  <2>1. i \in 0..Len(s) + 1 /\ \E y \in g.resp[p] : InSlot(k, t, y, i)
    BY <1>2, <1>4, <1>7, <1>23 DEF Used, Spread
  <2>2. f.own[p] = t
    BY <1>2, <1>4
  <2>3. /\ i <= j => Kid(k, p, t, i) = Kid(h, p, s, i)
        /\ i = j + 1 => Kid(k, p, t, i) = new
        /\ i > j + 1 => Kid(k, p, t, i) = Kid(h, p, s, i - 1)
        /\ \A y : i < j => (InSlot(k, t, y, i) <=> InSlot(h, s, y, i))
        /\ \A y : i = j => (InSlot(k, t, y, i) <=> (j > 0 => h.cell[s[j]].key <= y) /\ y < K)
        /\ \A y : i = j + 1 =>
              (InSlot(k, t, y, i) <=> K <= y /\ (j < Len(s) => y < h.cell[s[j + 1]].key))
        /\ \A y : i > j + 1 => (InSlot(k, t, y, i) <=> InSlot(h, s, y, i - 1))
    <3>1. \A a \in 1..Len(s) : s[a] \in Cells(h)
      BY <1>6 DEF CellsTyped
    <3> HIDE DEF s
    <3>2. Inserted(h, k, p, s, j, c, K, new) /\ j \in 0..Len(s)
      BY DEF s
    <3>3. Len(s) \in Nat /\ Spread(s, j, c, t) /\ i \in 0..Len(s) + 1
      BY <1>5, <1>7, <2>1
    <3>4. SlotsAfter(h, k, p, s, j, K, new, t, i)
      BY ONLY <3>1, <3>2, <3>3, InsertedSlots
    <3> QED
      BY <3>4 DEF SlotsAfter
  <2>4. \A y \in Key : y \in Int
    BY <1>3 DEF Basics
  <2>5. j > 0 => h.cell[s[j]].key <= K /\ h.cell[s[j]].key \in Int
    <3>1. j > 0 => j \in 1..Len(s)
      BY <1>5
    <3> QED
      BY <1>6, <1>11, <3>1 DEF InSlot, CellsTyped
  <2>6. j < Len(s) => K < h.cell[s[j + 1]].key /\ h.cell[s[j + 1]].key \in Int
    <3>1. j < Len(s) => j + 1 \in 1..Len(s)
      BY <1>5
    <3> QED
      BY <1>6, <1>11, <3>1 DEF InSlot, CellsTyped
  <2>7. CASE i < j
    <3>1. Kid(k, p, t, i) = Kid(h, p, s, i) /\ \A y : InSlot(k, t, y, i) <=> InSlot(h, s, y, i)
      BY <2>1, <2>3, <2>7
    <3>2. Used(h, g, p, i) /\ i # j
      BY <1>5, <2>1, <2>7, <3>1 DEF Used
    <3> QED
      BY <1>2, <1>4, <1>22, <2>2, <3>1, <3>2 DEF Passes
  <2>8. CASE i = j
    <3>1. Kid(k, p, t, i) = ch
      BY <2>1, <2>3, <2>8
    <3>2. ASSUME NEW y \in Key
          PROVE  y \in g.resp[ch] <=> y \in g.resp[p] /\ InSlot(k, t, y, i)
      <4>1. InSlot(k, t, y, i) <=> InSlot(h, s, y, j) /\ y < K
        BY <1>11, <2>3, <2>4, <2>6, <2>8 DEF InSlot
      <4>2. /\ y \in g.resp[ch] => y < K
            /\ y \in g.resp[new] => K <= y
        BY DEF Gap
      <4>3. y \in g.resp[p] /\ InSlot(h, s, y, j) <=> y \in g.resp[ch] \/ y \in g.resp[new]
        BY <1>10
      <4>4. K <= y <=> ~(y < K)
        <5>1. K \in Int /\ y \in Int
          BY <1>11, <2>4
        <5> QED
          BY ONLY <5>1
      <4> HIDE DEF s
      <4> QED
        BY <4>1, <4>2, <4>3, <4>4
    <3>3. f.rank[ch] < f.rank[p] /\ f.parent[ch] = p /\ f.under[ch] = g.resp[ch]
      BY <1>2, <1>4, <1>9
    <3> QED
      BY <1>2, <1>4, <2>2, <3>1, <3>2, <3>3 DEF Passes
  <2>9. CASE i = j + 1
    <3>1. Kid(k, p, t, i) = new
      BY <2>1, <2>3, <2>9
    <3>2. ASSUME NEW y \in Key
          PROVE  y \in g.resp[new] <=> y \in g.resp[p] /\ InSlot(k, t, y, i)
      <4>1. InSlot(k, t, y, i) <=> InSlot(h, s, y, j) /\ K <= y
        BY <1>11, <2>3, <2>4, <2>5, <2>9 DEF InSlot
      <4>2. /\ y \in g.resp[ch] => y < K
            /\ y \in g.resp[new] => K <= y
        BY DEF Gap
      <4>3. y \in g.resp[p] /\ InSlot(h, s, y, j) <=> y \in g.resp[ch] \/ y \in g.resp[new]
        BY <1>10
      <4>4. K <= y <=> ~(y < K)
        <5>1. K \in Int /\ y \in Int
          BY <1>11, <2>4
        <5> QED
          BY ONLY <5>1
      <4> HIDE DEF s
      <4> QED
        BY <4>1, <4>2, <4>3, <4>4
    <3>3. f.rank[new] < f.rank[p] /\ f.parent[new] = p /\ f.under[new] = g.resp[new]
      <4>1. p # new
        <5>1. z \in Key /\ z \in Int
          BY <1>11, <1>12, <2>4
        <5>2. z \notin g.resp[new]
          BY <1>11, <1>12, <5>1 DEF Gap
        <5> QED
          BY <1>12, <5>2
      <4> QED
        BY <1>2, <1>4, <1>9, <4>1 DEF Gap
    <3> QED
      BY <1>2, <1>4, <2>2, <3>1, <3>2, <3>3 DEF Passes
  <2>10. CASE i > j + 1
    <3>1. Kid(k, p, t, i) = Kid(h, p, s, i - 1) /\ \A y : InSlot(k, t, y, i) <=> InSlot(h, s, y, i - 1)
      BY <2>1, <2>3, <2>10
    <3>2. Used(h, g, p, i - 1) /\ i - 1 # j
      <4>1. i - 1 \in 0..Len(s) /\ i - 1 # j
        BY <1>5, <2>1, <2>10
      <4> QED
        BY <2>1, <3>1, <4>1 DEF Used
    <3> QED
      BY <1>2, <1>4, <1>22, <2>2, <3>1, <3>2 DEF Passes
  <2> QED
    BY <2>1, <2>7, <2>8, <2>9, <2>10
<1>24. SlotInv(k, f)
  <2> SUFFICES ASSUME NEW n, NEW i, Used(k, f, n, i) PROVE Passes(k, f, n, i)
    BY DEF SlotInv
  <2>1. n \in Nodes(h)
    BY <1>4 DEF Used, Inner
  <2> QED
    BY <1>3, <1>14, <1>15, <1>23, <2>1, PassesKept
<1>25. SpineInv(k, root, f)
  <2>1. g.spine \subseteq Nodes(h) /\ root \in g.spine
    BY DEF Tree, SpineInv
  <2>2. ASSUME NEW n \in g.spine
        PROVE  IF k.node[n].leaf THEN n = g.head
               ELSE k.node[n].lesser \in g.spine /\ g.rank[k.node[n].lesser] < g.rank[n]
    <3>1. IF h.node[n].leaf THEN n = g.head
          ELSE h.node[n].lesser \in g.spine /\ g.rank[h.node[n].lesser] < g.rank[n]
      BY DEF Tree, SpineInv
    <3>2. (k.node[n].leaf <=> h.node[n].leaf) /\ k.node[n].lesser = h.node[n].lesser
      BY <1>16, <2>1 DEF Inserted
    <3> QED
      BY <3>1, <3>2
  <2> QED
    BY <1>2, <1>4, <1>18, <2>1, <2>2 DEF SpineInv
<1>26. Whole(k, f)
  BY <1>2 DEF Whole
<1>27. Tree(k, root, f, p)
  BY <1>18, <1>19, <1>20, <1>21, <1>24, <1>25 DEF Tree
<1>28. Inner(k, f, p)
  BY <1>2, <1>4, <1>16 DEF Inner
<1> QED
  BY <1>2, <1>14, <1>18, <1>26, <1>27, <1>28 DEF Closed

------------------------------------------------------------------------------
(* The split of an internal node.                                           *)

\* k is h with node p split at its cell m + 1: the new right node r, then the new root.
Halved(h, k, p, s, m, r) ==
    /\ r = Len(h.node) + 1 /\ Len(k.node) = r + 1 /\ Len(k.cell) = Len(h.cell)
    /\ \A n \in Nodes(h) : n # p => k.node[n] = h.node[n]
    /\ ~k.node[p].leaf /\ k.node[p].size = m
    /\ k.node[p].lesser = h.node[p].lesser /\ k.node[p].first = h.node[p].first
    /\ ~k.node[r].leaf /\ k.node[r].size = Len(s) - m - 1
    /\ k.node[r].lesser = h.cell[s[m + 1]].child /\ k.node[r].first = h.cell[s[m + 1]].next
    /\ ~k.node[r + 1].leaf /\ k.node[r + 1].size = 1
    /\ k.node[r + 1].lesser = p /\ k.node[r + 1].first = s[m + 1]
    /\ \A d \in Cells(h) : k.cell[d].key = h.cell[d].key /\ (d # s[m + 1] => k.cell[d] = h.cell[d])
    /\ k.cell[s[m + 1]].next = 0 /\ k.cell[s[m + 1]].child = r

\* The own cells of the two halves.
Halves(s, m, a, b) ==
    /\ a \in Seq(Nat) /\ Len(a) = m /\ \A i \in 1..m : a[i] = s[i]
    /\ b \in Seq(Nat) /\ Len(b) = Len(s) - m - 1
    /\ \A i \in 1..Len(s) - m - 1 : b[i] = s[m + 1 + i]

\* They are parts of the list.
LEMMA HalvesExist ==
  ASSUME NEW s \in Seq(Nat), NEW m \in 1..Len(s) - 2
  PROVE  \E a, b : Halves(s, m, a, b)
<1>1. Len(s) \in Nat /\ \A i \in 1..Len(s) : s[i] \in Nat
  BY LenProperties
<1>2. PICK a : a = SubSeq(s, 1, m)
  OBVIOUS
<1>3. PICK b : b = SubSeq(s, m + 2, Len(s))
  OBVIOUS
<1>4. a \in Seq(Nat) /\ Len(a) = m /\ \A i \in 1..m : a[i] = s[i]
  <2>1. \A i \in 1..m : s[i] \in Nat
    BY <1>1
  <2> QED
    BY <1>1, <1>2, <2>1, SubSeqProperties
<1>5. /\ b \in Seq(Nat) /\ Len(b) = Len(s) - m - 1
      /\ \A i \in 1..Len(s) - m - 1 : b[i] = s[m + 1 + i]
  <2>1. \A i \in m + 2..Len(s) : s[i] \in Nat
    BY <1>1
  <2>2. m + 2 \in Int /\ Len(s) \in Int /\ m + 2 <= Len(s)
    BY <1>1
  <2>3. /\ b \in Seq(Nat)
        /\ Len(b) = IF m + 2 <= Len(s) THEN Len(s) - (m + 2) + 1 ELSE 0
        /\ \A i \in 1..(Len(s) - (m + 2) + 1) : b[i] = s[(m + 2) + i - 1]
    BY <1>3, <2>1, <2>2, SubSeqProperties
  <2>4. Len(s) - (m + 2) + 1 = Len(s) - m - 1
    BY <1>1
  <2>5. \A i \in 1..Len(s) - m - 1 : (m + 2) + i - 1 = m + 1 + i
    BY <1>1
  <2> QED
    BY <2>2, <2>3, <2>4, <2>5
<1>6. Halves(s, m, a, b)
  BY ONLY <1>4, <1>5 DEF Halves
<1> QED
  BY <1>6

\* What the lemmas about the two halves assume.
Cut(h, k, p, s, m, r, owner, R, a, b) ==
    /\ Basics(h) /\ Basics(k) /\ Len(s) \in Nat /\ m \in 1..Len(s) - 2 /\ R \subseteq Key
    /\ CellsOf(h, owner, p, s, R) /\ CellsTyped(h, s) /\ Halved(h, k, p, s, m, r)
    /\ Halves(s, m, a, b)

\* The cells of both halves but the middle one are as they were.
LEMMA CutCells ==
  ASSUME NEW h, NEW k, NEW p, NEW s, NEW m, NEW r, NEW owner, NEW R, NEW a, NEW b,
         Cut(h, k, p, s, m, r, owner, R, a, b)
  PROVE  /\ \A i \in 1..Len(s) : /\ s[i] \in Cells(h) /\ s[i] \in Cells(k)
                                 /\ k.cell[s[i]].key = h.cell[s[i]].key
                                 /\ h.cell[s[i]].key \in Int /\ h.cell[s[i]].key \in R
                                 /\ i # m + 1 => s[i] # s[m + 1] /\ k.cell[s[i]] = h.cell[s[i]]
         /\ \A i, j \in 1..Len(s) : i < j => h.cell[s[i]].key < h.cell[s[j]].key
         /\ \A i \in 1..Len(s) - 1 : h.cell[s[i]].next = s[i + 1]
<1>1. m + 1 \in 1..Len(s) /\ Cells(k) = Cells(h)
  BY DEF Cut, Halved, Cells
<1>2. ASSUME NEW i \in 1..Len(s)
      PROVE  /\ s[i] \in Cells(h) /\ h.cell[s[i]].key \in Int /\ h.cell[s[i]].key \in R
             /\ i # m + 1 => s[i] # s[m + 1]
  BY <1>1 DEF Cut, CellsOf, CellsTyped, Distinct
<1>3. ASSUME NEW i \in 1..Len(s)
      PROVE  k.cell[s[i]].key = h.cell[s[i]].key /\ (i # m + 1 => k.cell[s[i]] = h.cell[s[i]])
  BY <1>2 DEF Cut, Halved
<1> QED
  BY <1>1, <1>2, <1>3 DEF Cut, CellsOf

\* Slots and children of the left half, and of the right half.
LEMMA CutSlots ==
  ASSUME NEW h, NEW k, NEW p, NEW s, NEW m, NEW r, NEW owner, NEW R, NEW a, NEW b,
         Cut(h, k, p, s, m, r, owner, R, a, b), NEW K, K = h.cell[s[m + 1]].key
  PROVE  /\ \A i \in 0..m : /\ Kid(k, p, a, i) = Kid(h, p, s, i)
                            /\ \A x : x < K => (InSlot(k, a, x, i) <=> InSlot(h, s, x, i))
         /\ \A i \in 0..Len(s) - m - 1 :
               /\ Kid(k, r, b, i) = Kid(h, p, s, m + 1 + i)
               /\ \A x : K <= x => (InSlot(k, b, x, i) <=> InSlot(h, s, x, m + 1 + i))
<1>1. /\ \A i \in 1..Len(s) : /\ k.cell[s[i]].key = h.cell[s[i]].key
                              /\ i # m + 1 => k.cell[s[i]] = h.cell[s[i]]
  BY CutCells
<1>2. Len(s) \in Nat /\ m \in 1..Len(s) - 2 /\ Halves(s, m, a, b)
  BY DEF Cut
<1>3. /\ k.node[p].lesser = h.node[p].lesser /\ k.node[r].lesser = h.cell[s[m + 1]].child
  BY DEF Cut, Halved
<1>4. Len(a) = m /\ \A i \in 1..m : a[i] = s[i] /\ i \in 1..Len(s) /\ i # m + 1
  BY <1>2 DEF Halves
<1>5. /\ Len(b) = Len(s) - m - 1
      /\ \A i \in 1..Len(s) - m - 1 : /\ b[i] = s[m + 1 + i] /\ m + 1 + i \in 1..Len(s)
                                      /\ m + 1 + i # m + 1
  BY <1>2 DEF Halves
<1>6. ASSUME NEW i \in 0..m PROVE Kid(k, p, a, i) = Kid(h, p, s, i)
  <2>1. i = 0 \/ i \in 1..m
    BY <1>2
  <2> QED
    BY <1>1, <1>3, <1>4, <2>1 DEF Kid
<1>7. ASSUME NEW i \in 0..m, NEW x, x < K PROVE InSlot(k, a, x, i) <=> InSlot(h, s, x, i)
  <2>1. i > 0 => i \in 1..m
    BY <1>2
  <2>2. CASE i < m
    <3>1. i + 1 \in 1..m /\ i < Len(s) /\ i < Len(a)
      BY <1>2, <1>4, <2>2
    <3> QED
      BY <1>1, <1>4, <2>1, <3>1 DEF InSlot
  <2>3. CASE i = m
    <3>1. ~(i < Len(a)) /\ i < Len(s)
      BY <1>2, <1>4, <2>3
    <3> QED
      BY <1>1, <1>4, <1>7, <2>1, <2>3, <3>1 DEF InSlot
  <2> QED
    BY <1>2, <2>2, <2>3
<1>8. ASSUME NEW i \in 0..Len(s) - m - 1 PROVE Kid(k, r, b, i) = Kid(h, p, s, m + 1 + i)
  <2>1. m + 1 + i # 0 /\ (i = 0 => m + 1 + i = m + 1) /\ (i # 0 => i \in 1..Len(s) - m - 1)
    BY <1>2
  <2> QED
    BY <1>1, <1>3, <1>5, <2>1 DEF Kid
<1>9. ASSUME NEW i \in 0..Len(s) - m - 1, NEW x, K <= x
      PROVE  InSlot(k, b, x, i) <=> InSlot(h, s, x, m + 1 + i)
  <2>1. m + 1 + i > 0 /\ (i < Len(b) <=> m + 1 + i < Len(s))
    BY <1>2, <1>5
  <2>2. i < Len(b) => i + 1 \in 1..Len(s) - m - 1 /\ m + 1 + (i + 1) = (m + 1 + i) + 1
    BY <1>2, <1>5
  <2>3. i < Len(b) => k.cell[b[i + 1]].key = h.cell[s[(m + 1 + i) + 1]].key
    BY <1>1, <1>5, <2>2
  <2>4. CASE i = 0
    <3>1. m + 1 + i = m + 1 /\ ~(i > 0)
      BY <1>2, <2>4
    <3> QED
      BY <1>9, <2>1, <2>3, <3>1 DEF InSlot
  <2>5. CASE i # 0
    <3>1. i \in 1..Len(s) - m - 1 /\ i > 0
      BY <1>2, <2>5
    <3>2. k.cell[b[i]].key = h.cell[s[m + 1 + i]].key
      BY <1>1, <1>5, <3>1
    <3> QED
      BY <2>1, <2>3, <3>1, <3>2 DEF InSlot
  <2> QED
    BY <2>4, <2>5
<1> QED
  BY <1>6, <1>7, <1>8, <1>9

\* The list of the left half: it goes on with the middle cell, which it does not own.
LEMMA LeftCells ==
  ASSUME NEW h, NEW k, NEW p, NEW s, NEW m, NEW r, NEW owner, NEW R, NEW a, NEW b,
         Cut(h, k, p, s, m, r, owner, R, a, b), NEW K, K = h.cell[s[m + 1]].key,
         NEW w, \A i \in 1..m : w[s[i]] = p
  PROVE  CellsOf(k, w, p, a, {x \in R : x < K})
<1>1. /\ \A i \in 1..Len(s) : /\ s[i] \in Cells(h) /\ s[i] \in Cells(k)
                              /\ k.cell[s[i]].key = h.cell[s[i]].key
                              /\ h.cell[s[i]].key \in Int /\ h.cell[s[i]].key \in R
                              /\ i # m + 1 => s[i] # s[m + 1] /\ k.cell[s[i]] = h.cell[s[i]]
      /\ \A i, j \in 1..Len(s) : i < j => h.cell[s[i]].key < h.cell[s[j]].key
      /\ \A i \in 1..Len(s) - 1 : h.cell[s[i]].next = s[i + 1]
  BY CutCells
<1>2. Len(s) \in Nat /\ m \in 1..Len(s) - 2 /\ Halves(s, m, a, b)
  BY DEF Cut
<1>3. Len(a) = m /\ \A i \in 1..m : /\ a[i] = s[i] /\ i \in 1..Len(s) /\ i \in 1..Len(s) - 1
                                    /\ i < m + 1
  BY <1>2 DEF Halves
<1>4. m + 1 \in 1..Len(s)
  BY <1>2
<1>5. Len(a) > 0 /\ Len(a) = k.node[p].size /\ k.node[p].first = a[1]
  <2>1. k.node[p].size = m /\ k.node[p].first = s[1]
    BY Zenon DEF Cut, Halved, CellsOf
  <2>2. 1 \in 1..m
    BY <1>2
  <2> QED
    BY <1>2, <1>3, <2>1, <2>2
<1>6. ASSUME NEW i \in 1..Len(a)
      PROVE  a[i] \in Cells(k) /\ w[a[i]] = p /\ k.cell[a[i]].key \in {x \in R : x < K}
  <2>1. i \in 1..m /\ i \in 1..Len(s) /\ a[i] = s[i] /\ i < m + 1
    BY <1>3
  <2>2. h.cell[s[i]].key < K
    BY <1>1, <1>4, <2>1
  <2> QED
    BY <1>1, <2>1, <2>2
<1>7. ASSUME NEW i \in 1..Len(a) - 1 PROVE k.cell[a[i]].next = a[i + 1]
  <2>1. i \in 1..m /\ i + 1 \in 1..m /\ i # m + 1
    BY <1>2, <1>3
  <2> QED
    BY <1>1, <1>3, <2>1
<1>8. ASSUME NEW i \in 1..Len(a), NEW j \in 1..Len(a), i < j
      PROVE  k.cell[a[i]].key < k.cell[a[j]].key
  <2>1. i \in 1..m /\ j \in 1..m
    BY <1>3
  <2> QED
    BY <1>1, <1>3, <1>8, <2>1
<1>9. k.cell[k.cell[a[Len(a)]].next].key = K
  <2>1. m \in 1..m /\ m # m + 1
    BY <1>2
  <2>2. k.cell[a[Len(a)]].next = s[m + 1]
    BY <1>1, <1>3, <2>1
  <2> QED
    BY <1>1, <1>4, <2>2
<1> QED
  BY <1>5, <1>6, <1>7, <1>8, <1>9, Zenon DEF CellsOf

\* The list of the right half.
LEMMA RightCells ==
  ASSUME NEW h, NEW k, NEW p, NEW s, NEW m, NEW r, NEW owner, NEW R, NEW a, NEW b,
         Cut(h, k, p, s, m, r, owner, R, a, b), NEW K, K = h.cell[s[m + 1]].key,
         NEW w, \A i \in m + 2..Len(s) : w[s[i]] = r
  PROVE  CellsOf(k, w, r, b, {x \in R : K <= x})
<1>1. /\ \A i \in 1..Len(s) : /\ s[i] \in Cells(h) /\ s[i] \in Cells(k)
                              /\ k.cell[s[i]].key = h.cell[s[i]].key
                              /\ h.cell[s[i]].key \in Int /\ h.cell[s[i]].key \in R
                              /\ i # m + 1 => s[i] # s[m + 1] /\ k.cell[s[i]] = h.cell[s[i]]
      /\ \A i, j \in 1..Len(s) : i < j => h.cell[s[i]].key < h.cell[s[j]].key
      /\ \A i \in 1..Len(s) - 1 : h.cell[s[i]].next = s[i + 1]
  BY CutCells
<1>2. Len(s) \in Nat /\ m \in 1..Len(s) - 2 /\ Halves(s, m, a, b)
  BY DEF Cut
<1>3. /\ Len(b) = Len(s) - m - 1
      /\ \A i \in 1..Len(s) - m - 1 : b[i] = s[m + 1 + i]
  BY <1>2 DEF Halves
<1>4. ASSUME NEW i \in 1..Len(b)
      PROVE  /\ b[i] = s[m + 1 + i] /\ m + 1 + i \in 1..Len(s) /\ m + 1 + i \in m + 2..Len(s)
             /\ m + 1 + i # m + 1 /\ m + 1 < m + 1 + i
  BY <1>2, <1>3
<1>5. m + 1 \in 1..Len(s) /\ m + 1 \in 1..Len(s) - 1
  BY <1>2
<1>6. Len(b) > 0 /\ Len(b) = k.node[r].size /\ k.node[r].first = b[1]
  <2>1. k.node[r].size = Len(s) - m - 1 /\ k.node[r].first = h.cell[s[m + 1]].next
    BY DEF Cut, Halved
  <2>2. Len(b) > 0 /\ 1 \in 1..Len(b) /\ m + 1 + 1 = (m + 1) + 1
    BY <1>2, <1>3
  <2>3. h.cell[s[m + 1]].next = s[(m + 1) + 1]
    BY <1>1, <1>5
  <2>4. b[1] = s[m + 1 + 1]
    BY <1>4, <2>2
  <2> QED
    BY <1>3, <2>1, <2>2, <2>3, <2>4
<1>7. ASSUME NEW i \in 1..Len(b)
      PROVE  b[i] \in Cells(k) /\ w[b[i]] = r /\ k.cell[b[i]].key \in {x \in R : K <= x}
  <2>1. K < h.cell[s[m + 1 + i]].key /\ K \in Int /\ h.cell[s[m + 1 + i]].key \in Int
    BY <1>1, <1>4, <1>5
  <2>2. K <= h.cell[s[m + 1 + i]].key
    BY <2>1
  <2> QED
    BY <1>1, <1>4, <2>2
<1>8. ASSUME NEW i \in 1..Len(b) - 1 PROVE k.cell[b[i]].next = b[i + 1]
  <2>1. i \in 1..Len(b) /\ i + 1 \in 1..Len(b) /\ m + 1 + (i + 1) = (m + 1 + i) + 1
    BY <1>2, <1>3
  <2>2. m + 1 + i \in 1..Len(s) - 1
    BY <1>2, <1>3
  <2>3. b[i] = s[m + 1 + i] /\ b[i + 1] = s[(m + 1 + i) + 1] /\ m + 1 + i # m + 1 /\ m + 1 + i \in 1..Len(s)
    BY <1>4, <2>1
  <2>4. k.cell[s[m + 1 + i]] = h.cell[s[m + 1 + i]]
    BY <1>1, <2>3
  <2>5. h.cell[s[m + 1 + i]].next = s[(m + 1 + i) + 1]
    BY <1>1, <2>2
  <2> QED
    BY <2>3, <2>4, <2>5
<1>9. ASSUME NEW i \in 1..Len(b), NEW j \in 1..Len(b), i < j
      PROVE  k.cell[b[i]].key < k.cell[b[j]].key
  <2>1. m + 1 + i < m + 1 + j
    BY <1>2, <1>3, <1>9
  <2>2. /\ m + 1 + i \in 1..Len(s) /\ b[i] = s[m + 1 + i]
        /\ m + 1 + j \in 1..Len(s) /\ b[j] = s[m + 1 + j]
    BY <1>4
  <2>3. h.cell[s[m + 1 + i]].key < h.cell[s[m + 1 + j]].key
    BY <1>1, <2>1, <2>2
  <2> QED
    BY <1>1, <2>2, <2>3
<1>10. k.cell[b[Len(b)]].next # 0 =>
           \A x \in {x \in R : K <= x} : x < k.cell[k.cell[b[Len(b)]].next].key
  <2>1. Len(b) \in 1..Len(b) /\ m + 1 + Len(b) = Len(s)
    BY <1>2, <1>3, <1>6
  <2>2. b[Len(b)] = s[Len(s)] /\ k.cell[b[Len(b)]] = h.cell[s[Len(s)]] /\ s[Len(s)] \in Cells(h)
    BY <1>1, <1>4, <2>1
  <2>3. h.cell[s[Len(s)]].next # 0 => h.cell[s[Len(s)]].next \in Cells(h)
    BY <2>2 DEF Cut, Basics, Cells
  <2>4. h.cell[s[Len(s)]].next # 0 =>
            k.cell[h.cell[s[Len(s)]].next].key = h.cell[h.cell[s[Len(s)]].next].key
    BY <2>3 DEF Cut, Halved
  <2>5. h.cell[s[Len(s)]].next # 0 => \A x \in R : x < h.cell[h.cell[s[Len(s)]].next].key
    BY Zenon DEF Cut, CellsOf
  <2> QED
    BY <2>2, <2>4, <2>5
<1> QED
  BY <1>6, <1>7, <1>8, <1>9, <1>10, Zenon DEF CellsOf

Opened(h, g, root, k, p, r, K, f) ==
    /\ Tree(k, root, f, 0) /\ Gap(k, f, p, r, K) /\ Crown(k, f, p, r + 1, r)
    /\ Grown(h, g, k, f, p)
    /\ \A y \in Key : Value(k, f, y) = Value(h, g, y)

\* An over-full node is split: it keeps the keys below its middle cell, the new node
\* takes the others, and the parent does not know of it.
LEMMA SplitNode ==
  ASSUME NEW h, NEW root, NEW g, NEW p, Tree(h, root, g, p), Whole(h, g), Inner(h, g, p),
         NEW m \in 1..Len(g.own[p]) - 2, m <= max_size, Len(g.own[p]) - m - 1 <= max_size,
         NEW k, HeapTyped(k), NEW r, Halved(h, k, p, g.own[p], m, r),
         NEW K, K = h.cell[g.own[p][m + 1]].key
  PROVE  \E f : Opened(h, g, root, k, p, r, K, f)
<1> DEFINE s == g.own[p]
           R == g.resp[p]
           lo == {x \in R : x < K}
           hi == {x \in R : K <= x}
<1>1. Basics(h) /\ GhostTyped(h, g) /\ Basics(k) /\ CellInv(h, g, p) /\ SlotInv(h, g)
  BY HeapBasics DEF Tree
<1>2. /\ p \in Nodes(h) /\ p \in Nat /\ p # 0 /\ s \in Seq(Nat) /\ Len(s) \in Nat
      /\ CellsOf(h, g.owner, p, s, R) /\ R \subseteq Key /\ g.under[p] = R
  <2>1. p \in Nodes(h)
    BY DEF Inner
  <2>2. p \in Nat /\ p # 0
    BY <1>1, <2>1 DEF Nodes, Basics
  <2>3. s \in Seq(Nat) /\ R \subseteq Key
    BY <1>1, <2>1 DEF GhostTyped
  <2>4. Len(s) \in Nat
    BY <2>3, LenProperties
  <2>5. CellsOf(h, g.owner, p, s, R)
    BY <1>1 DEF CellInv
  <2>6. g.under[p] = R
    BY <2>1 DEF Whole
  <2> QED
    BY <2>1, <2>2, <2>3, <2>4, <2>5, <2>6
<1>3. CellsTyped(h, s)
  BY <1>1, <1>2, OwnCells
<1>4. PICK a, b : Halves(s, m, a, b)
  BY <1>2, HalvesExist
<1>5. /\ r = Len(h.node) + 1 /\ Len(k.node) = r + 1 /\ Len(k.cell) = Len(h.cell)
      /\ Len(h.node) \in Nat
  BY <1>1, Zenon DEF Halved, Basics
<1>6. /\ \A n \in Nodes(h) : n # r /\ n # r + 1 /\ n \in Nodes(k)
      /\ \A n \in Nodes(k) : n = r \/ n = r + 1 \/ n \in Nodes(h)
      /\ r \in Nodes(k) /\ r + 1 \in Nodes(k) /\ r \in Nat /\ r # r + 1 /\ Cells(k) = Cells(h)
  <2>1. r \in Nat /\ r # r + 1 /\ Cells(k) = Cells(h)
    BY <1>5 DEF Cells
  <2>2. Nodes(h) = 1..Len(h.node) /\ Nodes(k) = 1..Len(h.node) + 2
    BY <1>5 DEF Nodes
  <2>3. \A n \in Nodes(h) : n # r /\ n # r + 1 /\ n \in Nodes(k)
    BY ONLY <1>5, <2>2
  <2>4. \A n \in Nodes(k) : n = r \/ n = r + 1 \/ n \in Nodes(h)
    BY ONLY <1>5, <2>2
  <2>5. r \in Nodes(k) /\ r + 1 \in Nodes(k)
    BY ONLY <1>5, <2>2
  <2> QED
    BY <2>1, <2>3, <2>4, <2>5
<1>7. Cut(h, k, p, s, m, r, g.owner, R, a, b)
  BY <1>1, <1>2, <1>3, <1>4 DEF Cut
<1>8. PICK f : f =
        [rank   |-> [n \in Nodes(k) |-> IF n = r THEN g.rank[p] ELSE IF n = r + 1 THEN 0 ELSE g.rank[n]],
         resp   |-> [n \in Nodes(k) |-> IF n = p THEN lo ELSE IF n = r THEN hi
                                        ELSE IF n = r + 1 THEN {} ELSE g.resp[n]],
         under  |-> [n \in Nodes(k) |-> IF n = r THEN hi ELSE IF n = r + 1 THEN {} ELSE g.under[n]],
         own    |-> [n \in Nodes(k) |-> IF n = p THEN a ELSE IF n = r THEN b
                                        ELSE IF n = r + 1 THEN <<>> ELSE g.own[n]],
         parent |-> [n \in Nodes(k) |-> IF n = r \/ n = r + 1 THEN 0
                                        ELSE IF g.parent[n] = p /\ \E x \in g.under[n] : K <= x
                                             THEN r ELSE g.parent[n]],
         owner  |-> [c \in Cells(h) |-> IF c = s[m + 1] THEN 0
                                        ELSE IF \E i \in m + 2..Len(s) : c = s[i] THEN r
                                        ELSE g.owner[c]],
         pos    |-> [n \in Nodes(k) |-> IF n \in Nodes(h) THEN g.pos[n] ELSE 0],
         home |-> g.home, spine |-> g.spine, head |-> g.head]
  OBVIOUS
<1>9. /\ \A n \in Nodes(h) :
            /\ f.rank[n] = g.rank[n] /\ f.pos[n] = g.pos[n] /\ f.under[n] = g.under[n]
            /\ n # p => f.resp[n] = g.resp[n] /\ f.own[n] = g.own[n]
            /\ f.parent[n] = IF g.parent[n] = p /\ \E x \in g.under[n] : K <= x
                             THEN r ELSE g.parent[n]
      /\ f.resp[p] = lo /\ f.own[p] = a
      /\ f.rank[r] = g.rank[p] /\ f.resp[r] = hi /\ f.under[r] = hi /\ f.own[r] = b
      /\ f.parent[r] = 0 /\ f.pos[r] = 0
      /\ f.rank[r + 1] = 0 /\ f.resp[r + 1] = {} /\ f.under[r + 1] = {} /\ f.own[r + 1] = <<>>
      /\ f.parent[r + 1] = 0 /\ f.pos[r + 1] = 0
      /\ f.home = g.home /\ f.spine = g.spine /\ f.head = g.head
  <2>1. p # r /\ p # r + 1 /\ p \in Nodes(k)
    BY <1>2, <1>6
  <2> HIDE DEF s, R, lo, hi
  <2> QED
    BY <1>2, <1>6, <1>8, <2>1
<1>10. \A c \in Cells(h) : f.owner[c] = IF c = s[m + 1] THEN 0
                                        ELSE IF \E i \in m + 2..Len(s) : c = s[i] THEN r
                                        ELSE g.owner[c]
  BY <1>8
<1>11. /\ \A i \in 1..Len(s) : /\ s[i] \in Cells(h) /\ g.owner[s[i]] = p
                               /\ h.cell[s[i]].key \in Int /\ h.cell[s[i]].key \in R
       /\ \A i, j \in 1..Len(s) : i < j => h.cell[s[i]].key < h.cell[s[j]].key
       /\ \A i, j \in 1..Len(s) : s[i] = s[j] => i = j
  BY <1>2, <1>3, Zenon DEF CellsOf, CellsTyped, Distinct
<1>12. m + 1 \in 1..Len(s) /\ 1 \in 1..Len(s) /\ 1 < m + 1 /\ m \in Nat
  BY <1>2
<1>13. /\ K \in Int /\ K \in R /\ (\A x \in R : x \in Int)
  BY <1>1, <1>2, <1>11, <1>12 DEF Basics
<1>14. lo # {} /\ K \in hi
  <2>1. h.cell[s[1]].key \in lo
    BY <1>11, <1>12
  <2> QED
    BY ONLY <1>13, <2>1
<1>15. CellsOf(k, f.owner, p, a, lo)
  <2>1. ASSUME NEW i \in 1..m PROVE f.owner[s[i]] = p
    <3>1. i \in 1..Len(s) /\ i # m + 1 /\ \A j \in m + 2..Len(s) : j \in 1..Len(s) /\ i # j
      BY <1>2
    <3> QED
      BY <1>10, <1>11, <1>12, <3>1
  <2> HIDE DEF s, R
  <2>2. K = h.cell[s[m + 1]].key
    BY DEF s
  <2> QED
    BY <1>7, <2>1, <2>2, LeftCells
<1>16. CellsOf(k, f.owner, r, b, hi)
  <2>1. ASSUME NEW i \in m + 2..Len(s) PROVE f.owner[s[i]] = r
    <3>1. i \in 1..Len(s) /\ i # m + 1
      BY <1>2
    <3> QED
      BY <1>10, <1>11, <1>12, <3>1
  <2> HIDE DEF s, R
  <2>2. K = h.cell[s[m + 1]].key
    BY DEF s
  <2> QED
    BY <1>7, <2>1, <2>2, RightCells
<1>17. Grown(h, g, k, f, p)
  <2>1. Len(h.node) <= Len(k.node) /\ Len(h.cell) <= Len(k.cell)
    BY <1>1, <1>5 DEF Basics
  <2>2. \A n \in Nodes(h) : n # p =>
            k.node[n] = h.node[n] /\ f.resp[n] = g.resp[n] /\ f.own[n] = g.own[n]
    <3>1. \A n \in Nodes(h) : n # p => k.node[n] = h.node[n]
      BY Zenon DEF Halved
    <3> QED
      BY <1>9, <3>1
  <2>3. \A c \in Cells(h) : k.cell[c].key = h.cell[c].key
    BY DEF Halved
  <2>4. ASSUME NEW c \in Cells(h), g.owner[c] # 0, g.owner[c] # p
        PROVE  k.cell[c] = h.cell[c] /\ f.owner[c] = g.owner[c]
    <3>1. c # s[m + 1]
      BY <1>11, <1>12, <2>4
    <3>2. ~\E i \in m + 2..Len(s) : c = s[i]
      <4> SUFFICES ASSUME NEW i \in m + 2..Len(s), c = s[i] PROVE FALSE
        OBVIOUS
      <4>1. i \in 1..Len(s)
        BY <1>2, <1>12
      <4> QED
        BY <1>11, <2>4, <4>1
    <3> QED
      BY <1>10, <3>1, <3>2 DEF Halved
  <2> QED
    BY <2>1, <2>2, <2>3, <2>4 DEF Grown
<1>18. Upward(h, g, f, p)
  BY <1>9 DEF Upward
<1>19. ~h.node[p].leaf /\ ~k.node[p].leaf /\ ~k.node[r].leaf /\ ~k.node[r + 1].leaf
  BY DEF Inner, Halved
<1>20. LeavesSame(h, g, k, f)
  <2>1. ASSUME NEW n \in Nodes(k), k.node[n].leaf
        PROVE  n \in Nodes(h) /\ n # p
    BY <1>6, <1>19, <2>1
  <2>2. ASSUME NEW n \in Nodes(h), h.node[n].leaf
        PROVE  n \in Nodes(k) /\ k.node[n] = h.node[n]
    BY <1>6, <1>17, <1>19, <2>2 DEF Grown
  <2> QED
    BY <1>9, <1>17, <2>1, <2>2 DEF LeavesSame, Grown
<1>21. /\ LeafInv(k, f) /\ ChainInv(k, f) /\ f.head \in Nodes(k) /\ k.node[f.head].leaf
       /\ \A y \in Key : Value(k, f, y) = Value(h, g, y)
  BY <1>1, <1>20, LeavesKept
<1>22. GhostTyped(k, f)
  <2>1. a \in Seq(Nat) /\ b \in Seq(Nat) /\ <<>> \in Seq(Nat) /\ lo \subseteq Key /\ hi \subseteq Key
    BY <1>2, <1>4, EmptySeq DEF Halves
  <2> HIDE DEF lo, hi, s, R
  <2>2. ASSUME NEW n \in Nodes(h)
        PROVE  /\ f.rank[n] \in Nat /\ f.parent[n] \in Nat /\ f.pos[n] \in Nat
               /\ f.resp[n] \subseteq Key /\ f.under[n] \subseteq Key /\ f.own[n] \in Seq(Nat)
    <3>1. /\ g.rank[n] \in Nat /\ g.parent[n] \in Nat /\ g.pos[n] \in Nat
          /\ g.resp[n] \subseteq Key /\ g.under[n] \subseteq Key /\ g.own[n] \in Seq(Nat)
      BY <1>1 DEF GhostTyped
    <3>2. CASE n = p
      BY <1>6, <1>9, <2>1, <3>1, <3>2
    <3>3. CASE n # p
      BY <1>6, <1>9, <3>1, <3>3
    <3> QED
      BY <3>2, <3>3
  <2>3. g.rank[p] \in Nat
    BY <1>1, <1>2 DEF GhostTyped
  <2>4. ASSUME NEW n \in Nodes(k), n = r \/ n = r + 1
        PROVE  /\ f.rank[n] \in Nat /\ f.parent[n] \in Nat /\ f.pos[n] \in Nat
               /\ f.resp[n] \subseteq Key /\ f.under[n] \subseteq Key /\ f.own[n] \in Seq(Nat)
    <3>1. 0 \in Nat /\ {} \subseteq Key
      OBVIOUS
    <3>2. CASE n = r
      BY <1>9, <2>1, <2>3, <3>1, <3>2
    <3>3. CASE n = r + 1
      BY <1>9, <2>1, <3>1, <3>3
    <3> QED
      BY <2>4, <3>2, <3>3
  <2>5. ASSUME NEW c \in Cells(k) PROVE f.owner[c] \in Nat
    <3>1. g.owner[c] \in Nat
      BY <1>1, <1>6 DEF GhostTyped
    <3> QED
      BY <1>6, <1>10, <3>1
  <2> QED
    BY <1>6, <2>2, <2>4, <2>5 DEF GhostTyped
<1>23. RootInv(k, root, f)
  <2>1. root \in Nodes(h) /\ ~h.node[root].leaf /\ g.under[root] = Key /\ g.parent[root] = 0
    BY DEF Tree, RootInv
  <2>2. ~k.node[root].leaf
    BY <1>17, <1>19, <2>1 DEF Grown
  <2>3. f.under[root] = Key /\ f.parent[root] = 0
    BY <1>2, <1>9, <2>1
  <2> QED
    BY <1>6, <2>1, <2>2, <2>3 DEF RootInv
<1>24. CellInv(k, f, 0)
  <2> SUFFICES ASSUME NEW n, Inner(k, f, n)
               PROVE  CellsOf(k, f.owner, n, f.own[n], f.resp[n]) /\ k.node[n].size <= max_size
    BY CellsOfAll
  <2>1. n \in Nodes(k) /\ f.resp[n] # {} /\ ~k.node[n].leaf
    BY DEF Inner
  <2>2. CASE n = p
    <3>1. f.own[p] = a /\ f.resp[p] = lo /\ k.node[p].size <= max_size
      BY <1>9, Zenon DEF Halved
    <3> QED
      BY <1>15, <2>2, <3>1
  <2>3. CASE n = r
    <3>1. f.own[r] = b /\ f.resp[r] = hi /\ k.node[r].size <= max_size
      BY <1>9, Zenon DEF Halved
    <3> QED
      BY <1>16, <2>3, <3>1
  <2>4. CASE n # p /\ n # r
    <3>1. n \in Nodes(h)
      BY <1>6, <1>9, <2>1, <2>4
    <3>2. Inner(h, g, n)
      BY <1>17, <2>1, <2>4, <3>1 DEF Inner, Grown
    <3>3. CellsOf(k, f.owner, n, f.own[n], f.resp[n]) /\ k.node[n].size = h.node[n].size
      BY <1>1, <1>17, <2>4, <3>2, CellsKept
    <3>4. h.node[n].size <= max_size
      BY <1>1, <2>4, <3>2 DEF CellInv
    <3> QED
      BY <3>3, <3>4
  <2> QED
    BY <2>2, <2>3, <2>4
<1>25. /\ \A i \in 0..m : /\ Kid(k, p, a, i) = Kid(h, p, s, i)
                          /\ \A x : x < K => (InSlot(k, a, x, i) <=> InSlot(h, s, x, i))
       /\ \A i \in 0..Len(s) - m - 1 :
             /\ Kid(k, r, b, i) = Kid(h, p, s, m + 1 + i)
             /\ \A x : K <= x => (InSlot(k, b, x, i) <=> InSlot(h, s, x, m + 1 + i))
  <2> HIDE DEF s, R
  <2>1. K = h.cell[s[m + 1]].key
    BY DEF s
  <2> QED
    BY <1>7, <2>1, CutSlots
<1>26. Len(a) = m /\ Len(b) = Len(s) - m - 1
  BY <1>4 DEF Halves
<1>27. ASSUME NEW i, Used(k, f, p, i) PROVE Passes(k, f, p, i)
  <2>1. i \in 0..m /\ i \in 0..Len(s) /\ \E x \in lo : InSlot(k, a, x, i)
    BY <1>2, <1>9, <1>26, <1>27 DEF Used
  <2>2. Used(h, g, p, i)
    BY <1>25, <2>1 DEF Used
  <2>3. PICK kid : kid = Kid(h, p, s, i)
    OBVIOUS
  <2>4. /\ kid \in Nodes(h) /\ g.rank[kid] < g.rank[p] /\ g.parent[kid] = p
        /\ \A y \in Key : y \in g.under[kid] <=> y \in R /\ InSlot(h, s, y, i)
    BY <1>1, <2>2, <2>3 DEF SlotInv, Passes
  <2>5. ASSUME NEW y \in R, InSlot(h, s, y, i) PROVE y < K
    <3>1. i + 1 \in 1..Len(s) /\ i < Len(s) /\ (i = m \/ i + 1 < m + 1)
      <4>1. Len(s) \in Nat /\ m \in Nat /\ m + 1 <= Len(s) /\ i \in 0..m
        BY <1>2, <1>12, <2>1
      <4> HIDE DEF s
      <4> QED
        BY ONLY <4>1
    <3>2. y < h.cell[s[i + 1]].key
      BY <2>5, <3>1 DEF InSlot
    <3>3. i = m \/ h.cell[s[i + 1]].key < K
      BY <1>11, <1>12, <3>1
    <3>4. y \in Int /\ h.cell[s[i + 1]].key \in Int
      BY <1>11, <1>13, <3>1
    <3>5. i = m => h.cell[s[i + 1]].key = K
      OBVIOUS
    <3>6. PICK v : v = h.cell[s[i + 1]].key
      OBVIOUS
    <3>7. y \in Int /\ v \in Int /\ K \in Int /\ y < v /\ (v = K \/ v < K)
      BY <1>13, <3>2, <3>3, <3>4, <3>5, <3>6
    <3> QED
      BY ONLY <3>7
  <2>6. f.parent[kid] = p
    <3>1. ASSUME NEW y \in g.under[kid] PROVE ~(K <= y)
      <4>1. y \in Key
        BY <1>1, <2>4 DEF GhostTyped
      <4>2. y \in R /\ y < K
        BY <2>4, <2>5, <4>1
      <4> QED
        BY ONLY <1>13, <4>2
    <3> QED
      BY <1>9, <2>4, <3>1
  <2>7. Kid(k, p, f.own[p], i) = kid /\ kid \in Nodes(k) /\ f.rank[kid] < f.rank[p]
    BY <1>2, <1>6, <1>9, <1>25, <2>1, <2>3, <2>4
  <2>8. ASSUME NEW y \in Key
        PROVE  y \in f.under[kid] <=> y \in f.resp[p] /\ InSlot(k, f.own[p], y, i)
    <3>1. y \in f.under[kid] <=> y \in R /\ InSlot(h, s, y, i)
      BY <1>9, <2>4
    <3>2. y \in R /\ y < K => (InSlot(k, a, y, i) <=> InSlot(h, s, y, i))
      BY <1>25, <2>1
    <3>3. y \in f.resp[p] <=> y \in R /\ y < K
      BY <1>9
    <3> QED
      BY <1>9, <2>5, <3>1, <3>2, <3>3
  <2> QED
    BY <2>6, <2>7, <2>8 DEF Passes
<1>28. ASSUME NEW i, Used(k, f, r, i) PROVE Passes(k, f, r, i)
  <2>1. i \in 0..Len(s) - m - 1 /\ \E x \in hi : InSlot(k, b, x, i)
    BY <1>9, <1>26, <1>28 DEF Used
  <2>2. m + 1 + i \in 0..Len(s) /\ m + 1 + i \in 1..Len(s)
    BY <1>2, <2>1
  <2>3. PICK z \in R : K <= z /\ InSlot(h, s, z, m + 1 + i)
    BY <1>25, <2>1
  <2>4. Used(h, g, p, m + 1 + i)
    BY <2>2, <2>3 DEF Used
  <2>5. PICK kid : kid = Kid(h, p, s, m + 1 + i)
    OBVIOUS
  <2>6. /\ kid \in Nodes(h) /\ g.rank[kid] < g.rank[p] /\ g.parent[kid] = p
        /\ \A y \in Key : y \in g.under[kid] <=> y \in R /\ InSlot(h, s, y, m + 1 + i)
    BY <1>1, <2>4, <2>5 DEF SlotInv, Passes
  <2>7. z \in g.under[kid]
    BY <1>2, <2>3, <2>6
  <2>8. f.parent[kid] = r
    BY <1>9, <2>3, <2>6, <2>7
  <2>9. Kid(k, r, f.own[r], i) = kid /\ kid \in Nodes(k) /\ f.rank[kid] < f.rank[r]
    BY <1>6, <1>9, <1>25, <2>1, <2>5, <2>6
  <2>10. ASSUME NEW y \in R, InSlot(h, s, y, m + 1 + i) PROVE K <= y
    <3>1. h.cell[s[m + 1 + i]].key <= y /\ h.cell[s[m + 1 + i]].key \in Int /\ y \in Int
      <4>1. m + 1 + i > 0
        BY <2>2
      <4> QED
        BY <1>11, <1>13, <2>2, <2>10, <4>1 DEF InSlot
    <3>2. K <= h.cell[s[m + 1 + i]].key
      <4>1. m + 1 + i = m + 1 \/ m + 1 < m + 1 + i
        BY <1>2, <2>1
      <4>2. m + 1 + i = m + 1 \/ K < h.cell[s[m + 1 + i]].key
        BY <1>11, <1>12, <2>2, <4>1
      <4>3. m + 1 + i = m + 1 => h.cell[s[m + 1 + i]].key = K
        OBVIOUS
      <4>4. PICK v : v = h.cell[s[m + 1 + i]].key
        OBVIOUS
      <4>5. v \in Int /\ K \in Int /\ (v = K \/ K < v)
        BY <1>13, <3>1, <4>2, <4>1, <4>3, <4>4
      <4> QED
        BY ONLY <4>4, <4>5
    <3>3. PICK v : v = h.cell[s[m + 1 + i]].key
      OBVIOUS
    <3>4. v \in Int /\ K \in Int /\ y \in Int /\ K <= v /\ v <= y
      BY <1>13, <3>1, <3>2, <3>3
    <3> QED
      BY ONLY <3>4
  <2>11. ASSUME NEW y \in Key
         PROVE  y \in f.under[kid] <=> y \in f.resp[r] /\ InSlot(k, f.own[r], y, i)
    <3>1. y \in f.under[kid] <=> y \in R /\ InSlot(h, s, y, m + 1 + i)
      BY <1>9, <2>6
    <3>2. y \in R /\ K <= y => (InSlot(k, b, y, i) <=> InSlot(h, s, y, m + 1 + i))
      BY <1>25, <2>1
    <3>3. y \in f.resp[r] <=> y \in R /\ K <= y
      BY <1>9
    <3> QED
      BY <1>9, <2>10, <3>1, <3>2, <3>3
  <2> QED
    BY <2>8, <2>9, <2>11 DEF Passes
<1>29. SlotInv(k, f)
  <2> SUFFICES ASSUME NEW n, NEW i, Used(k, f, n, i) PROVE Passes(k, f, n, i)
    BY DEF SlotInv
  <2>1. n \in Nodes(k) /\ f.resp[n] # {}
    BY DEF Used, Inner
  <2>2. n = p \/ n = r \/ (n \in Nodes(h) /\ n # p)
    BY <1>6, <1>9, <2>1
  <2>3. CASE n \in Nodes(h) /\ n # p
    BY <1>1, <1>17, <1>18, <2>3, PassesKept
  <2> QED
    BY <1>27, <1>28, <2>2, <2>3
<1>30. SpineInv(k, root, f)
  <2>1. g.spine \subseteq Nodes(h) /\ root \in g.spine
    BY DEF Tree, SpineInv
  <2>2. ASSUME NEW n \in g.spine
        PROVE  IF k.node[n].leaf THEN n = g.head
               ELSE k.node[n].lesser \in g.spine /\ f.rank[k.node[n].lesser] < f.rank[n]
    <3>1. IF h.node[n].leaf THEN n = g.head
          ELSE h.node[n].lesser \in g.spine /\ g.rank[h.node[n].lesser] < g.rank[n]
      BY DEF Tree, SpineInv
    <3>2. (k.node[n].leaf <=> h.node[n].leaf) /\ k.node[n].lesser = h.node[n].lesser
      BY <1>19, <2>1 DEF Halved
    <3>3. \A q \in g.spine : f.rank[q] = g.rank[q]
      BY <1>9, <2>1
    <3> QED
      BY <3>1, <3>2, <3>3
  <2>3. f.spine \subseteq Nodes(k)
    BY <1>6, <1>9, <2>1
  <2> QED
    BY <1>9, <1>21, <2>1, <2>2, <2>3 DEF SpineInv
<1>31. Tree(k, root, f, 0)
  BY <1>21, <1>22, <1>23, <1>24, <1>29, <1>30 DEF Tree
<1>32. Gap(k, f, p, r, K)
  <2>1. p \in Nodes(k) /\ r \in Nodes(k) /\ p # r
    BY <1>2, <1>6
  <2>2. f.under[p] = R
    BY <1>2, <1>9
  <2>3. ASSUME NEW x \in Key PROVE x \in f.under[p] <=> x \in f.resp[p] \/ x \in f.resp[r]
    <3>1. x \in R => x < K \/ K <= x
      BY ONLY <1>13
    <3> QED
      BY <1>9, <2>2, <3>1
  <2>4. ASSUME NEW n \in Nodes(k), n # p PROVE f.under[n] = f.resp[n]
    <3>1. n \in Nodes(h) => f.under[n] = f.resp[n]
      BY <1>9, <2>4 DEF Whole
    <3> QED
      BY <1>6, <1>9, <3>1
  <2>5. f.rank[r] = f.rank[p]
    BY <1>2, <1>9
  <2>6. f.parent[r] = 0 /\ K \in f.resp[r] /\ f.resp[p] # {}
    BY <1>9, <1>14
  <2>7. (\A x \in f.resp[p] : x < K) /\ \A x \in f.resp[r] : K <= x
    BY <1>9
  <2> QED
    BY <2>1, <2>3, <2>4, <2>5, <2>6, <2>7 DEF Gap
<1>33. Crown(k, f, p, r + 1, r)
  <2>1. r + 1 \in Nodes(k) /\ r + 1 # p /\ r + 1 # r
    BY <1>2, <1>6
  <2>2. s[m + 1] \in Cells(k) /\ f.owner[s[m + 1]] = 0
    BY <1>6, <1>10, <1>11, <1>12
  <2>3. r + 1 \notin f.spine
    BY <1>6, <1>9 DEF Tree, SpineInv
  <2>4. f.rank[r] = f.rank[p] /\ f.resp[r + 1] = {} /\ f.parent[r + 1] = 0
    BY <1>2, <1>9
  <2> QED
    BY <2>1, <2>2, <2>3, <2>4 DEF Crown, Halved
<1> QED
  BY <1>17, <1>21, <1>31, <1>32, <1>33 DEF Opened

------------------------------------------------------------------------------
(* Storing in a leaf.                                                       *)

\* list can be what a leaf with the keys R holds.
Holdable(list, R) ==
    /\ list \in Seq(Entry(Val)) /\ Len(list) \in Nat /\ Sorted(list)
    /\ \A i \in 1..Len(list) : list[i].key \in R

\* k is h with another list in leaf l.
Stored(h, k, l, list) ==
    /\ Len(k.node) = Len(h.node) /\ k.cell = h.cell
    /\ \A n \in Nodes(h) : n # l => k.node[n] = h.node[n]
    /\ k.node[l].leaf /\ k.node[l].lesser = 0 /\ k.node[l].first = 0
    /\ k.node[l].list = list /\ k.node[l].size = Len(list)
    /\ k.node[l].next = h.node[l].next

\* What the tree holds once leaf l with the keys R holds list.
Restocked(h, g, k, f, R, list) ==
    \A x \in Key : Value(k, f, x) = IF x \in R THEN ListGet(list, x, NoValue) ELSE Value(h, g, x)

\* A leaf that is not over-full can simply be changed.
LEMMA LeafStore ==
  ASSUME NEW h, NEW root, NEW g, Tree(h, root, g, 0), Whole(h, g),
         NEW l \in Nodes(h), h.node[l].leaf, NEW list, Holdable(list, g.resp[l]),
         Len(list) <= max_size, NEW k, HeapTyped(k), Stored(h, k, l, list)
  PROVE  /\ Tree(k, root, g, 0) /\ Whole(k, g) /\ Grown(h, g, k, g, l)
         /\ Restocked(h, g, k, g, g.resp[l], list)
<1>1. Basics(h) /\ GhostTyped(h, g) /\ Basics(k) /\ CellInv(h, g, 0) /\ SlotInv(h, g)
  BY HeapBasics DEF Tree
<1>2. Nodes(k) = Nodes(h) /\ Cells(k) = Cells(h) /\ k.cell = h.cell
  BY DEF Stored, Nodes, Cells
<1>3. /\ \A n \in Nodes(h) : n # l => k.node[n] = h.node[n]
      /\ \A n \in Nodes(h) : /\ k.node[n].leaf <=> h.node[n].leaf
                             /\ k.node[n].next = h.node[n].next
                             /\ ~h.node[n].leaf => k.node[n] = h.node[n]
  BY DEF Stored
<1>4. Grown(h, g, k, g, l)
  <2>1. Len(h.node) <= Len(k.node) /\ Len(h.cell) <= Len(k.cell)
    BY <1>1, <1>2 DEF Stored, Basics
  <2> QED
    BY <1>2, <1>3, <2>1 DEF Grown
<1>5. Upward(h, g, g, l)
  BY DEF Upward
<1>6. GhostTyped(k, g) /\ Whole(k, g)
  BY <1>1, <1>2 DEF GhostTyped, Whole
<1>7. RootInv(k, root, g)
  BY <1>2, <1>3 DEF Tree, RootInv
<1>8. ASSUME NEW n, Inner(k, g, n) PROVE Inner(h, g, n) /\ n # l
  BY <1>2, <1>3, <1>8 DEF Inner
<1>9. CellInv(k, g, 0)
  <2> SUFFICES ASSUME NEW n, Inner(k, g, n)
               PROVE  CellsOf(k, g.owner, n, g.own[n], g.resp[n]) /\ k.node[n].size <= max_size
    BY CellsOfAll
  <2>1. Inner(h, g, n) /\ n # l
    BY <1>8
  <2>2. n # 0
    BY <2>1, <1>1 DEF Inner, Nodes, Basics
  <2>3. CellsOf(k, g.owner, n, g.own[n], g.resp[n]) /\ k.node[n].size = h.node[n].size
    BY <1>1, <1>4, <2>1, CellsKept
  <2>4. h.node[n].size <= max_size
    BY <1>1, <2>1, <2>2 DEF CellInv
  <2> QED
    BY <2>3, <2>4
<1>10. SlotInv(k, g)
  <2> SUFFICES ASSUME NEW n, NEW j, Used(k, g, n, j) PROVE Passes(k, g, n, j)
    BY DEF SlotInv
  <2>1. Inner(k, g, n)
    BY DEF Used
  <2>2. n \in Nodes(h) /\ n # l
    BY <1>8, <2>1 DEF Inner
  <2> QED
    BY <1>1, <1>4, <1>5, <2>2, PassesKept
<1>11. SpineInv(k, root, g)
  BY <1>2, <1>3 DEF Tree, SpineInv
<1>12. ChainInv(k, g)
  <2>1. ChainInv(h, g)
    BY DEF Tree
  <2>2. ASSUME NEW n \in Nodes(k), k.node[n].leaf
        PROVE  /\ g.pos[n] <= g.pos[g.head]
               /\ k.node[n].next = 0 <=> g.pos[n] = 0
               /\ k.node[n].next # 0 =>
                     k.node[k.node[n].next].leaf /\ g.pos[k.node[n].next] = g.pos[n] - 1
    <3>1. n \in Nodes(h) /\ h.node[n].leaf /\ k.node[n].next = h.node[n].next
      BY <1>2, <1>3, <2>2
    <3>2. h.node[n].next # 0 => h.node[n].next \in Nodes(h)
      BY <1>1, <3>1 DEF Basics, Nodes
    <3> QED
      BY <1>3, <2>1, <3>1, <3>2 DEF ChainInv
  <2>3. ASSUME NEW m \in Nodes(k), NEW n \in Nodes(k), k.node[m].leaf, k.node[n].leaf, m # n
        PROVE  /\ g.pos[m] # g.pos[n]
               /\ g.pos[n] < g.pos[m] => \A x \in g.resp[m], y \in g.resp[n] : x < y
    BY <1>2, <1>3, <2>1, <2>3 DEF ChainInv
  <2> QED
    BY <2>2, <2>3 DEF ChainInv
<1>13. LeafInv(k, g)
  <2>1. LeafInv(h, g)
    BY DEF Tree
  <2>2. ASSUME NEW n \in Nodes(k), k.node[n].leaf PROVE LeafOf(k.node[n], g.home, n, g.resp[n])
    <3>1. n \in Nodes(h) /\ h.node[n].leaf
      BY <1>2, <1>3, <2>2
    <3>2. LeafOf(h.node[n], g.home, n, g.resp[n])
      BY <2>1, <3>1 DEF LeafInv
    <3>3. CASE n # l
      BY <1>3, <3>1, <3>2, <3>3
    <3>4. CASE n = l
      BY <3>2, <3>4 DEF LeafOf, Stored, Holdable
    <3> QED
      BY <3>3, <3>4
  <2>3. ASSUME NEW x \in Key
        PROVE  g.home[x] \in Nodes(k) /\ k.node[g.home[x]].leaf /\ x \in g.resp[g.home[x]]
    BY <1>2, <1>3, <2>1 DEF LeafInv
  <2> QED
    BY <2>2, <2>3 DEF LeafInv
<1>14. Tree(k, root, g, 0)
  BY <1>6, <1>7, <1>9, <1>10, <1>11, <1>12, <1>13 DEF Tree
<1>15. Restocked(h, g, k, g, g.resp[l], list)
  <2> SUFFICES ASSUME NEW x \in Key
               PROVE  Value(k, g, x) = IF x \in g.resp[l] THEN ListGet(list, x, NoValue)
                                       ELSE Value(h, g, x)
    BY DEF Restocked
  <2>1. g.home[x] \in Nodes(h) /\ x \in g.resp[g.home[x]]
    BY DEF Tree, LeafInv
  <2>2. x \in g.resp[l] => g.home[x] = l
    BY DEF Tree, LeafInv, LeafOf
  <2>3. CASE x \in g.resp[l]
    BY <2>2, <2>3 DEF Value, Stored
  <2>4. CASE x \notin g.resp[l]
    <3>1. g.home[x] # l
      BY <2>1, <2>4
    <3>2. k.node[g.home[x]] = h.node[g.home[x]]
      BY <1>3, <2>1, <3>1
    <3> QED
      BY <2>4, <3>2 DEF Value
  <2> QED
    BY <2>3, <2>4
<1> QED
  BY <1>4, <1>6, <1>14, <1>15

\* k is h with leaf l split: it keeps the first m entries of list, the new leaf has the
\* others and is linked behind it.
Cleft(h, k, l, list, m, new) ==
    /\ new = Len(h.node) + 1 /\ Len(k.node) = new /\ k.cell = h.cell
    /\ \A n \in Nodes(h) : n # l => k.node[n] = h.node[n]
    /\ k.node[l].leaf /\ k.node[l].lesser = 0 /\ k.node[l].first = 0
    /\ k.node[l].list = SubSeq(list, 1, m) /\ k.node[l].size = m
    /\ k.node[l].next = new
    /\ k.node[new].leaf /\ k.node[new].lesser = 0 /\ k.node[new].first = 0
    /\ k.node[new].list = SubSeq(list, m + 1, Len(list)) /\ k.node[new].size = Len(list) - m
    /\ k.node[new].next = h.node[l].next

\* The two parts of a sorted list: which keys they have, and what get finds in them.
Parted(list, m, K, a, b) ==
    /\ a \in Seq(Entry(Val)) /\ Len(a) = m /\ Sorted(a)
    /\ \A i \in 1..Len(a) : a[i].key < K /\ a[i] = list[i]
    /\ b \in Seq(Entry(Val)) /\ Len(b) = Len(list) - m /\ Sorted(b)
    /\ \A i \in 1..Len(b) : K <= b[i].key /\ m + i \in 1..Len(list) /\ b[i] = list[m + i]
    /\ \A x \in Int : x < K => ListGet(a, x, NoValue) = ListGet(list, x, NoValue)
    /\ \A x \in Int : K <= x => ListGet(b, x, NoValue) = ListGet(list, x, NoValue)

\* Cut behind entry m.
LEMMA PartsOf ==
  ASSUME NEW list \in Seq(Entry(Val)), Sorted(list), NEW m \in 1..Len(list) - 1,
         NEW K, K = list[m + 1].key
  PROVE  Parted(list, m, K, SubSeq(list, 1, m), SubSeq(list, m + 1, Len(list)))
<1> DEFINE a == SubSeq(list, 1, m)
           b == SubSeq(list, m + 1, Len(list))
<1>1. /\ Len(list) \in Nat /\ m \in Nat
      /\ \A i \in 1..Len(list) : list[i].key \in Int
      /\ \A i, j \in 1..Len(list) : i < j => list[i].key < list[j].key
  BY EntriesTyped DEF Sorted
<1>2. /\ m + 1 \in 1..Len(list)
      /\ \A i \in 1..m : i \in 1..Len(list) /\ i < m + 1
      /\ \A i \in 1..Len(list) - m : m + i \in 1..Len(list) /\ (m + i = m + 1 \/ m + 1 < m + i)
      /\ \A i \in 1..Len(list) : i \in 1..m \/ (i - m \in 1..Len(list) - m /\ m + (i - m) = i)
  BY <1>1
<1>3. a \in Seq(Entry(Val)) /\ Len(a) = m /\ \A i \in 1..m : a[i] = list[i]
  <2>1. PICK S : S = Entry(Val)
    OBVIOUS
  <2>2. list \in Seq(S) /\ m \in 1 - 1..Len(list) /\ 1 \in 1..Len(list) + 1
    BY <1>1, <2>1
  <2>3. a \in Seq(S) /\ Len(a) = m /\ \A i \in 1..m : a[i] = list[i]
    BY <1>1, <2>2
  <2> QED
    BY <2>1, <2>3
<1>4. b \in Seq(Entry(Val)) /\ Len(b) = Len(list) - m /\ \A i \in 1..Len(list) - m : b[i] = list[m + i]
  <2>1. PICK S : S = Entry(Val)
    OBVIOUS
  <2>2. list \in Seq(S)
    BY <1>1, <2>1
  <2>3. b \in Seq(S) /\ Len(b) = Len(list) - m /\ \A i \in 1..Len(list) - m : b[i] = list[m + i]
    BY <1>1, <2>2
  <2> QED
    BY <2>1, <2>3
<1> HIDE DEF a, b
<1>5. K \in Int
  BY <1>1, <1>2
<1>6. ASSUME NEW i \in 1..m PROVE a[i].key < K /\ a[i] = list[i]
  BY <1>1, <1>2, <1>3
<1>7. ASSUME NEW i \in 1..Len(list) - m PROVE K <= b[i].key /\ b[i] = list[m + i] /\ m + i \in 1..Len(list)
  <2>1. m + i \in 1..Len(list) /\ (m + i = m + 1 \/ m + 1 < m + i) /\ b[i] = list[m + i]
    BY <1>2, <1>4
  <2>2. list[m + i].key \in Int
    BY <1>1, <2>1
  <2>3. list[m + i].key = K \/ K < list[m + i].key
    BY <1>1, <1>2, <2>1
  <2> QED
    BY <1>5, <2>1, <2>2, <2>3
<1>8. Sorted(a)
  <2> SUFFICES ASSUME NEW i \in 1..m, NEW j \in 1..m, i < j PROVE a[i].key < a[j].key
    BY <1>3 DEF Sorted
  <2> QED
    BY <1>1, <1>2, <1>3
<1>9. Sorted(b)
  <2> SUFFICES ASSUME NEW i \in 1..Len(list) - m, NEW j \in 1..Len(list) - m, i < j
               PROVE  b[i].key < b[j].key
    BY <1>4 DEF Sorted
  <2>1. m + i \in 1..Len(list) /\ m + j \in 1..Len(list) /\ m + i < m + j
    BY <1>1, <1>2
  <2> QED
    BY <1>1, <1>4, <2>1
<1>10. ASSUME NEW x \in Int, x < K PROVE ListGet(a, x, NoValue) = ListGet(list, x, NoValue)
  <2>1. CASE \E i \in 1..m : list[i].key = x
    <3>1. PICK i \in 1..m : list[i].key = x
      BY <2>1
    <3>2. i \in 1..Len(list) /\ a[i] = list[i] /\ i \in 1..Len(a)
      BY <1>2, <1>3
    <3>3. ListGet(list, list[i].key, NoValue) = list[i].val
      BY <3>2, GetFound
    <3>4. ListGet(a, a[i].key, NoValue) = a[i].val
      BY <1>3, <1>8, <3>2, GetFound
    <3> QED
      BY <3>1, <3>2, <3>3, <3>4
  <2>2. CASE ~\E i \in 1..m : list[i].key = x
    <3>1. ASSUME NEW i \in 1..Len(list) PROVE list[i].key # x
      <4>1. CASE i \in 1..m
        BY <2>2, <4>1
      <4>2. CASE i \notin 1..m
        <5>1. i - m \in 1..Len(list) - m /\ m + (i - m) = i
          BY <1>2, <4>2
        <5>2. K <= list[i].key /\ list[i].key \in Int
          BY <1>1, <1>7, <5>1
        <5> QED
          BY <1>5, <1>10, <5>2
      <4> QED
        BY <4>1, <4>2
    <3>2. \A i \in 1..Len(a) : a[i].key # x
      BY <1>3, <2>2
    <3>3. ListGet(list, x, NoValue) = NoValue
      BY <3>1, GetNotFound
    <3>4. ListGet(a, x, NoValue) = NoValue
      BY <1>3, <3>2, GetNotFound
    <3> QED
      BY <3>3, <3>4
  <2> QED
    BY <2>1, <2>2
<1>11. ASSUME NEW x \in Int, K <= x PROVE ListGet(b, x, NoValue) = ListGet(list, x, NoValue)
  <2>1. CASE \E i \in 1..Len(list) - m : b[i].key = x
    <3>1. PICK i \in 1..Len(list) - m : b[i].key = x
      BY <2>1
    <3>2. m + i \in 1..Len(list) /\ b[i] = list[m + i] /\ i \in 1..Len(b)
      BY <1>4, <1>7
    <3>3. ListGet(list, list[m + i].key, NoValue) = list[m + i].val
      BY <3>2, GetFound
    <3>4. ListGet(b, b[i].key, NoValue) = b[i].val
      BY <1>4, <1>9, <3>2, GetFound
    <3> QED
      BY <3>1, <3>2, <3>3, <3>4
  <2>2. CASE ~\E i \in 1..Len(list) - m : b[i].key = x
    <3>1. ASSUME NEW i \in 1..Len(list) PROVE list[i].key # x
      <4>1. CASE i \in 1..m
        <5>1. list[i].key < K /\ list[i].key \in Int
          BY <1>1, <1>2, <4>1
        <5> QED
          BY <1>5, <1>11, <5>1
      <4>2. CASE i \notin 1..m
        <5>1. i - m \in 1..Len(list) - m /\ m + (i - m) = i
          BY <1>2, <4>2
        <5>2. b[i - m] = list[i]
          BY <1>4, <5>1
        <5> QED
          BY <2>2, <5>1, <5>2
      <4> QED
        BY <4>1, <4>2
    <3>2. \A i \in 1..Len(b) : b[i].key # x
      BY <1>4, <2>2
    <3>3. ListGet(list, x, NoValue) = NoValue
      BY <3>1, GetNotFound
    <3>4. ListGet(b, x, NoValue) = NoValue
      BY <1>4, <3>2, GetNotFound
    <3> QED
      BY <3>3, <3>4
  <2> QED
    BY <2>1, <2>2
<1>12. Parted(list, m, K, a, b)
  BY <1>3, <1>4, <1>6, <1>7, <1>8, <1>9, <1>10, <1>11 DEF Parted
<1> QED
  BY <1>12 DEF a, b

\* A leaf that is over-full is split, and its parent does not know of the new leaf.
LEMMA LeafSplit ==
  ASSUME NEW h, NEW root, NEW g, Tree(h, root, g, 0), Whole(h, g),
         NEW l \in Nodes(h), h.node[l].leaf, NEW list, Holdable(list, g.resp[l]),
         NEW m \in 1..Len(list) - 1, m <= max_size, Len(list) - m <= max_size,
         NEW k, HeapTyped(k), NEW new, Cleft(h, k, l, list, m, new),
         NEW K, K = list[m + 1].key
  PROVE  \E f : /\ Tree(k, root, f, 0) /\ Gap(k, f, l, new, K) /\ Grown(h, g, k, f, l)
                /\ Restocked(h, g, k, f, g.resp[l], list)
<1> DEFINE R == g.resp[l]
           lo == {x \in R : x < K}
           hi == {x \in R : K <= x}
<1>1. Basics(h) /\ GhostTyped(h, g) /\ Basics(k) /\ CellInv(h, g, 0) /\ SlotInv(h, g)
      /\ LeafInv(h, g) /\ ChainInv(h, g)
  BY HeapBasics DEF Tree
<1>2. /\ list \in Seq(Entry(Val)) /\ Len(list) \in Nat /\ Sorted(list)
      /\ \A i \in 1..Len(list) : list[i].key \in R
  BY DEF Holdable
<1>3. Len(h.node) \in Nat /\ new = Len(h.node) + 1 /\ Len(k.node) = new /\ k.cell = h.cell
  BY <1>1 DEF Cleft, Basics
<1>4. PICK a, b : /\ a = SubSeq(list, 1, m) /\ b = SubSeq(list, m + 1, Len(list))
                  /\ Parted(list, m, K, a, b)
  BY <1>2, PartsOf
<1>5. /\ \A n \in Nodes(h) : n # new /\ n \in Nodes(k) /\ n \in Nat /\ n # 0
      /\ \A n \in Nodes(k) : n = new \/ n \in Nodes(h)
      /\ new \in Nodes(k) /\ new \in Nat /\ new # 0 /\ Cells(k) = Cells(h)
  <2>1. Nodes(h) = 1..Len(h.node) /\ Nodes(k) = 1..Len(h.node) + 1
    BY <1>3 DEF Nodes
  <2>2. \A n \in Nodes(h) : n # new /\ n \in Nodes(k) /\ n \in Nat /\ n # 0
    BY <1>3, <2>1
  <2>3. \A n \in Nodes(k) : n = new \/ n \in Nodes(h)
    BY <1>3, <2>1
  <2>4. new \in Nodes(k) /\ new \in Nat /\ new # 0
    BY <1>3, <2>1
  <2>5. Cells(k) = Cells(h)
    BY <1>3 DEF Cells
  <2> QED
    BY <2>2, <2>3, <2>4, <2>5
<1>6. l # new /\ l \in Nodes(k) /\ R \subseteq Key /\ g.under[l] = R
  BY <1>1, <1>5 DEF GhostTyped, Whole
<1>7. PICK f : f =
        [rank   |-> [n \in Nodes(k) |-> IF n = new THEN g.rank[l] ELSE g.rank[n]],
         resp   |-> [n \in Nodes(k) |-> IF n = l THEN lo ELSE IF n = new THEN hi ELSE g.resp[n]],
         under  |-> [n \in Nodes(k) |-> IF n = new THEN hi ELSE g.under[n]],
         own    |-> [n \in Nodes(k) |-> IF n = new THEN <<>> ELSE g.own[n]],
         parent |-> [n \in Nodes(k) |-> IF n = new THEN 0 ELSE g.parent[n]],
         pos    |-> [n \in Nodes(k) |-> IF n = new THEN g.pos[l]
                                        ELSE IF g.pos[n] < g.pos[l] THEN g.pos[n]
                                        ELSE g.pos[n] + 1],
         home   |-> [x \in Key |-> IF x \in hi THEN new ELSE g.home[x]],
         owner  |-> g.owner, spine |-> g.spine, head |-> g.head]
  OBVIOUS
<1>8. /\ \A n \in Nodes(h) :
            /\ f.rank[n] = g.rank[n] /\ f.under[n] = g.under[n] /\ f.own[n] = g.own[n]
            /\ f.parent[n] = g.parent[n]
            /\ n # l => f.resp[n] = g.resp[n]
            /\ f.pos[n] = IF g.pos[n] < g.pos[l] THEN g.pos[n] ELSE g.pos[n] + 1
      /\ f.resp[l] = lo
      /\ f.rank[new] = g.rank[l] /\ f.resp[new] = hi /\ f.under[new] = hi /\ f.own[new] = <<>>
      /\ f.parent[new] = 0 /\ f.pos[new] = g.pos[l]
      /\ \A x \in Key : f.home[x] = IF x \in hi THEN new ELSE g.home[x]
      /\ f.owner = g.owner /\ f.spine = g.spine /\ f.head = g.head
  <2> HIDE DEF R, lo, hi
  <2> QED
    BY <1>5, <1>6, <1>7
<1>9. m + 1 \in 1..Len(list) /\ 1 \in 1..Len(list) /\ 1 < m + 1 /\ m \in Nat
  BY <1>2
<1>10. K \in Int /\ K \in R /\ (\A x \in R : x \in Int) /\ list[1].key < K /\ list[1].key \in R
  BY <1>1, <1>2, <1>6, <1>9 DEF Basics, Sorted
<1>11. K \in hi /\ lo # {} /\ list[1].key \in lo
  BY <1>10
<1>12. /\ \A n \in Nodes(h) : n # l => k.node[n] = h.node[n]
       /\ \A n \in Nodes(h) : /\ k.node[n].leaf <=> h.node[n].leaf
                              /\ ~h.node[n].leaf => k.node[n] = h.node[n] /\ n # l
       /\ k.node[new].leaf
  BY DEF Cleft
<1>13. Grown(h, g, k, f, l)
  <2>1. Len(h.node) <= Len(k.node) /\ Len(h.cell) <= Len(k.cell)
    BY <1>1, <1>3 DEF Basics
  <2> QED
    BY <1>3, <1>8, <1>12, <2>1 DEF Grown
<1>14. Upward(h, g, f, l)
  BY <1>8 DEF Upward
<1>15. GhostTyped(k, f)
  <2>1. lo \subseteq Key /\ hi \subseteq Key /\ <<>> \in Seq(Nat)
    BY <1>6, EmptySeq
  <2> HIDE DEF lo, hi, R
  <2>2. ASSUME NEW n \in Nodes(h)
        PROVE  /\ f.rank[n] \in Nat /\ f.parent[n] \in Nat /\ f.pos[n] \in Nat
               /\ f.resp[n] \subseteq Key /\ f.under[n] \subseteq Key /\ f.own[n] \in Seq(Nat)
    <3>1. /\ g.rank[n] \in Nat /\ g.parent[n] \in Nat /\ g.pos[n] \in Nat
          /\ g.resp[n] \subseteq Key /\ g.under[n] \subseteq Key /\ g.own[n] \in Seq(Nat)
      BY <1>1 DEF GhostTyped
    <3>2. f.pos[n] \in Nat
      BY <1>8, <3>1
    <3>3. CASE n = l
      BY <1>8, <2>1, <3>1, <3>2, <3>3
    <3>4. CASE n # l
      BY <1>8, <3>1, <3>2, <3>4
    <3> QED
      BY <3>3, <3>4
  <2>3. g.rank[l] \in Nat /\ g.pos[l] \in Nat /\ 0 \in Nat
    BY <1>1 DEF GhostTyped
  <2>4. /\ f.rank[new] \in Nat /\ f.parent[new] \in Nat /\ f.pos[new] \in Nat
        /\ f.resp[new] \subseteq Key /\ f.under[new] \subseteq Key /\ f.own[new] \in Seq(Nat)
    BY <1>8, <2>1, <2>3
  <2>5. ASSUME NEW c \in Cells(k) PROVE f.owner[c] \in Nat
    BY <1>1, <1>5, <1>8 DEF GhostTyped
  <2> QED
    BY <1>5, <2>2, <2>4, <2>5 DEF GhostTyped
<1>16. RootInv(k, root, f)
  BY <1>5, <1>8, <1>12 DEF Tree, RootInv
<1>17. ASSUME NEW n, Inner(k, f, n) PROVE Inner(h, g, n) /\ n # l /\ n # 0
  <2>1. n \in Nodes(k) /\ ~k.node[n].leaf /\ f.resp[n] # {}
    BY <1>17 DEF Inner
  <2>2. n \in Nodes(h) /\ n # l /\ n # 0
    BY <1>5, <1>12, <2>1 DEF Cleft
  <2> QED
    BY <1>8, <1>12, <2>1, <2>2 DEF Inner
<1>18. CellInv(k, f, 0)
  <2> SUFFICES ASSUME NEW n, Inner(k, f, n)
               PROVE  CellsOf(k, f.owner, n, f.own[n], f.resp[n]) /\ k.node[n].size <= max_size
    BY CellsOfAll
  <2>1. Inner(h, g, n) /\ n # l /\ n # 0
    BY <1>17
  <2>2. CellsOf(k, f.owner, n, f.own[n], f.resp[n]) /\ k.node[n].size = h.node[n].size
    BY <1>1, <1>13, <2>1, CellsKept
  <2>3. h.node[n].size <= max_size
    BY <1>1, <2>1 DEF CellInv
  <2> QED
    BY <2>2, <2>3
<1>19. SlotInv(k, f)
  <2> SUFFICES ASSUME NEW n, NEW j, Used(k, f, n, j) PROVE Passes(k, f, n, j)
    BY DEF SlotInv
  <2>1. Inner(k, f, n)
    BY DEF Used
  <2>2. n \in Nodes(h) /\ n # l
    BY <1>17, <2>1 DEF Inner
  <2> QED
    BY <1>1, <1>13, <1>14, <2>2, PassesKept
<1>20. SpineInv(k, root, f)
  <2>1. /\ g.spine \subseteq Nodes(h) /\ root \in g.spine
        /\ g.head \in Nodes(h) /\ h.node[g.head].leaf
    BY DEF Tree, SpineInv
  <2>2. ASSUME NEW n \in g.spine
        PROVE  IF k.node[n].leaf THEN n = g.head
               ELSE k.node[n].lesser \in g.spine /\ f.rank[k.node[n].lesser] < f.rank[n]
    <3>1. IF h.node[n].leaf THEN n = g.head
          ELSE h.node[n].lesser \in g.spine /\ g.rank[h.node[n].lesser] < g.rank[n]
      BY DEF Tree, SpineInv
    <3>2. \A q \in g.spine : f.rank[q] = g.rank[q]
      BY <1>8, <2>1
    <3> QED
      BY <1>12, <2>1, <3>1, <3>2
  <2>3. f.spine \subseteq Nodes(k) /\ f.head \in Nodes(k) /\ k.node[f.head].leaf
    BY <1>5, <1>8, <1>12, <2>1
  <2> QED
    BY <1>8, <2>1, <2>2, <2>3 DEF SpineInv
<1>21. LeafInv(k, f)
  <2>1. ASSUME NEW n \in Nodes(h), h.node[n].leaf
        PROVE  LeafOf(h.node[n], g.home, n, g.resp[n])
    BY <1>1, <2>1 DEF LeafInv
  <2>2. LeafOf(k.node[l], f.home, l, lo)
    <3>1. k.node[l].list = a /\ k.node[l].size = m /\ k.node[l].lesser = 0 /\ k.node[l].first = 0
      BY <1>4 DEF Cleft
    <3>2. Sorted(a) /\ Len(a) = m
      BY <1>4 DEF Parted
    <3>3. \A i \in 1..Len(a) : a[i].key \in lo
      <4>1. ASSUME NEW i \in 1..Len(a) PROVE a[i].key \in lo
        <5>1. a[i].key < K /\ a[i] = list[i] /\ i \in 1..Len(list)
          BY <1>2, <1>4, <1>9 DEF Parted
        <5> QED
          BY <1>2, <5>1
      <4> QED
        BY <4>1
    <3>4. \A x \in lo : f.home[x] = l
      <4>1. ASSUME NEW x \in lo PROVE f.home[x] = l
        <5>1. x \in R /\ x \in Key /\ x \notin hi
          BY <1>6, <1>10
        <5>2. g.home[x] = l
          BY <2>1, <5>1 DEF LeafOf
        <5> QED
          BY <1>8, <5>1, <5>2
      <4> QED
        BY <4>1
    <3> QED
      BY <3>1, <3>2, <3>3, <3>4 DEF LeafOf
  <2>3. LeafOf(k.node[new], f.home, new, hi)
    <3>1. /\ k.node[new].list = b /\ k.node[new].size = Len(list) - m
          /\ k.node[new].lesser = 0 /\ k.node[new].first = 0
      BY <1>4 DEF Cleft
    <3>2. Sorted(b) /\ Len(b) = Len(list) - m
      BY <1>4 DEF Parted
    <3>3. \A i \in 1..Len(b) : b[i].key \in hi
      <4>1. ASSUME NEW i \in 1..Len(b) PROVE b[i].key \in hi
        <5>1. K <= b[i].key /\ b[i] = list[m + i] /\ m + i \in 1..Len(list)
          BY <1>4 DEF Parted
        <5> QED
          BY <1>2, <5>1
      <4> QED
        BY <4>1
    <3>4. \A x \in hi : f.home[x] = new
      BY <1>6, <1>8
    <3> QED
      BY <3>1, <3>2, <3>3, <3>4 DEF LeafOf
  <2>4. ASSUME NEW n \in Nodes(h), n # l, h.node[n].leaf
        PROVE  LeafOf(k.node[n], f.home, n, f.resp[n])
    <3>1. LeafOf(h.node[n], g.home, n, g.resp[n])
      BY <2>1, <2>4
    <3>2. k.node[n] = h.node[n] /\ f.resp[n] = g.resp[n] /\ g.resp[n] \subseteq Key
      BY <1>1, <1>8, <1>12, <2>4 DEF GhostTyped
    <3>3. ASSUME NEW x \in g.resp[n] PROVE f.home[x] = n
      <4>1. g.home[x] = n /\ x \in Key
        BY <3>1, <3>2 DEF LeafOf
      <4>2. x \notin R
        BY <2>1, <2>4, <4>1 DEF LeafOf
      <4> QED
        BY <1>8, <4>1, <4>2
    <3> QED
      BY <3>1, <3>2, <3>3 DEF LeafOf
  <2>5. ASSUME NEW n \in Nodes(k), k.node[n].leaf PROVE LeafOf(k.node[n], f.home, n, f.resp[n])
    <3>1. CASE n = new
      BY <1>8, <2>3, <3>1
    <3>2. CASE n = l
      BY <1>8, <2>2, <3>2
    <3>3. CASE n # new /\ n # l
      BY <1>5, <1>12, <2>4, <2>5, <3>3
    <3> QED
      BY <3>1, <3>2, <3>3
  <2>6. ASSUME NEW x \in Key
        PROVE  f.home[x] \in Nodes(k) /\ k.node[f.home[x]].leaf /\ x \in f.resp[f.home[x]]
    <3>1. CASE x \in hi
      BY <1>5, <1>8, <1>12, <3>1
    <3>2. CASE x \notin hi
      <4>1. g.home[x] \in Nodes(h) /\ h.node[g.home[x]].leaf /\ x \in g.resp[g.home[x]]
        BY <1>1 DEF LeafInv
      <4>2. f.home[x] = g.home[x]
        BY <1>8, <3>2
      <4>3. x \in f.resp[g.home[x]]
        <5>1. CASE g.home[x] = l
          <6>1. x \in R /\ x < K
            BY <1>10, <3>2, <4>1, <5>1
          <6> QED
            BY <1>8, <5>1, <6>1
        <5>2. CASE g.home[x] # l
          BY <1>8, <4>1, <5>2
        <5> QED
          BY <5>1, <5>2
      <4> QED
        BY <1>5, <1>12, <4>1, <4>2, <4>3
    <3> QED
      BY <3>1, <3>2
  <2> QED
    BY <2>5, <2>6 DEF LeafInv
<1>22. ASSUME NEW n \in Nodes(h), h.node[n].leaf
       PROVE  /\ g.pos[n] \in Nat /\ g.pos[l] \in Nat /\ g.pos[g.head] \in Nat
              /\ g.pos[n] <= g.pos[g.head] /\ g.pos[l] <= g.pos[g.head]
              /\ n # l => g.pos[n] # g.pos[l]
              /\ h.node[n].next = 0 <=> g.pos[n] = 0
              /\ h.node[n].next # 0 =>
                    /\ h.node[n].next \in Nodes(h) /\ h.node[h.node[n].next].leaf
                    /\ g.pos[h.node[n].next] = g.pos[n] - 1
  <2>1. g.head \in Nodes(h)
    BY DEF Tree, SpineInv
  <2>2. g.pos[n] \in Nat /\ g.pos[l] \in Nat /\ g.pos[g.head] \in Nat
    BY <1>1, <2>1 DEF GhostTyped
  <2>3. h.node[n].next # 0 => h.node[n].next \in Nodes(h)
    BY <1>1 DEF Basics, Nodes
  <2> QED
    BY <1>1, <1>22, <2>2, <2>3 DEF ChainInv
<1>23. ASSUME NEW n \in Nodes(k), k.node[n].leaf
       PROVE  /\ f.pos[n] <= f.pos[f.head]
              /\ k.node[n].next = 0 <=> f.pos[n] = 0
              /\ k.node[n].next # 0 =>
                    k.node[k.node[n].next].leaf /\ f.pos[k.node[n].next] = f.pos[n] - 1
  <2>1. g.head \in Nodes(h) /\ h.node[g.head].leaf
    BY DEF Tree, SpineInv
  <2>2. f.pos[f.head] = g.pos[g.head] + 1
    <3>1. g.pos[g.head] \in Nat /\ g.pos[l] \in Nat /\ g.pos[l] <= g.pos[g.head]
      BY <1>22, <2>1
    <3>2. ~(g.pos[g.head] < g.pos[l])
      BY <3>1
    <3> QED
      BY <1>8, <2>1, <3>2
  <2>3. CASE n = new
    <3>1. k.node[n].next = h.node[l].next /\ f.pos[n] = g.pos[l]
      BY <1>8, <2>3 DEF Cleft
    <3>2. /\ g.pos[l] \in Nat /\ g.pos[g.head] \in Nat /\ g.pos[l] <= g.pos[g.head]
          /\ h.node[l].next = 0 <=> g.pos[l] = 0
          /\ h.node[l].next # 0 =>
                    /\ h.node[l].next \in Nodes(h) /\ h.node[h.node[l].next].leaf
                    /\ g.pos[h.node[l].next] = g.pos[l] - 1
      BY <1>22
    <3>3. h.node[l].next # 0 => f.pos[h.node[l].next] = g.pos[h.node[l].next]
      BY <1>8, <3>2
    <3>4. f.pos[n] <= f.pos[f.head]
      BY <2>2, <3>1, <3>2
    <3> QED
      BY <1>12, <3>1, <3>2, <3>3, <3>4
  <2>4. CASE n = l
    <3>1. k.node[n].next = new /\ f.pos[n] = g.pos[l] + 1
      <4>1. g.pos[l] \in Nat
        BY <1>22
      <4> QED
        BY <1>8, <2>4, <4>1 DEF Cleft
    <3>2. g.pos[l] \in Nat /\ g.pos[g.head] \in Nat /\ g.pos[l] <= g.pos[g.head]
      BY <1>22
    <3>3. f.pos[n] <= f.pos[f.head] /\ f.pos[n] # 0 /\ g.pos[l] = f.pos[n] - 1
      BY <2>2, <3>1, <3>2
    <3> QED
      BY <1>5, <1>8, <1>12, <3>1, <3>3
  <2>5. CASE n \in Nodes(h) /\ n # l
    <3>1. k.node[n] = h.node[n] /\ h.node[n].leaf
      BY <1>12, <2>5, <1>23
    <3>2. /\ g.pos[n] \in Nat /\ g.pos[l] \in Nat /\ g.pos[g.head] \in Nat
          /\ g.pos[n] <= g.pos[g.head] /\ g.pos[l] <= g.pos[g.head] /\ g.pos[n] # g.pos[l]
          /\ h.node[n].next = 0 <=> g.pos[n] = 0
          /\ h.node[n].next # 0 =>
                    /\ h.node[n].next \in Nodes(h) /\ h.node[h.node[n].next].leaf
                    /\ g.pos[h.node[n].next] = g.pos[n] - 1
      BY <1>22, <2>5, <3>1
    <3>3. f.pos[n] = IF g.pos[n] < g.pos[l] THEN g.pos[n] ELSE g.pos[n] + 1
      BY <1>8, <2>5
    <3>4. h.node[n].next # 0 => k.node[h.node[n].next].leaf
                             /\ f.pos[h.node[n].next] = f.pos[n] - 1
      <4> SUFFICES ASSUME h.node[n].next # 0
                   PROVE  k.node[h.node[n].next].leaf /\ f.pos[h.node[n].next] = f.pos[n] - 1
        OBVIOUS
      <4>1. PICK q \in Nodes(h) : q = h.node[n].next /\ h.node[q].leaf /\ g.pos[q] = g.pos[n] - 1
        BY <3>2
      <4>2. f.pos[q] = IF g.pos[q] < g.pos[l] THEN g.pos[q] ELSE g.pos[q] + 1
        BY <1>8
      <4>3. f.pos[q] = f.pos[n] - 1
        <5>1. PICK P, Q, L : P = g.pos[n] /\ Q = g.pos[q] /\ L = g.pos[l]
          OBVIOUS
        <5>2. /\ P \in Nat /\ L \in Nat /\ Q = P - 1 /\ P # L
              /\ f.pos[n] = (IF P < L THEN P ELSE P + 1)
              /\ f.pos[q] = (IF Q < L THEN Q ELSE Q + 1)
          BY <3>2, <3>3, <4>1, <4>2, <5>1
        <5>3. P < L \/ (~(P < L) /\ ~(Q < L))
          BY ONLY <5>2
        <5> QED
          BY ONLY <5>2, <5>3
      <4> QED
        BY <1>12, <4>1, <4>3
    <3>5. f.pos[n] <= f.pos[f.head] /\ (f.pos[n] = 0 <=> g.pos[n] = 0)
      BY ONLY <2>2, <3>2, <3>3
    <3> QED
      BY <3>1, <3>2, <3>4, <3>5
  <2> QED
    BY <1>5, <2>3, <2>4, <2>5
<1>24. ASSUME NEW n \in Nodes(h), NEW q \in Nodes(h), h.node[n].leaf, h.node[q].leaf, n # q
       PROVE  /\ f.pos[n] # f.pos[q]
              /\ f.pos[q] < f.pos[n] => g.pos[q] < g.pos[n]
              /\ g.pos[q] < g.pos[n] => \A x \in g.resp[n], y \in g.resp[q] : x < y
  <2>1. g.pos[n] \in Nat /\ g.pos[q] \in Nat /\ g.pos[l] \in Nat
    BY <1>22, <1>24
  <2>2. /\ g.pos[n] # g.pos[q]
        /\ g.pos[q] < g.pos[n] => \A x \in g.resp[n], y \in g.resp[q] : x < y
    BY <1>1, <1>24 DEF ChainInv
  <2>3. /\ f.pos[n] = IF g.pos[n] < g.pos[l] THEN g.pos[n] ELSE g.pos[n] + 1
        /\ f.pos[q] = IF g.pos[q] < g.pos[l] THEN g.pos[q] ELSE g.pos[q] + 1
    BY <1>8
  <2>4. PICK P, Q, L : P = g.pos[n] /\ Q = g.pos[q] /\ L = g.pos[l]
    OBVIOUS
  <2>5. /\ P \in Nat /\ L \in Nat /\ Q \in Nat /\ P # Q
        /\ f.pos[n] = (IF P < L THEN P ELSE P + 1)
        /\ f.pos[q] = (IF Q < L THEN Q ELSE Q + 1)
    BY <2>1, <2>2, <2>3, <2>4
  <2>6. f.pos[n] # f.pos[q] /\ (f.pos[q] < f.pos[n] => Q < P)
    BY ONLY <2>5
  <2> QED
    BY <2>2, <2>4, <2>6
<1>25. ASSUME NEW n \in Nodes(h), h.node[n].leaf
       PROVE  /\ f.pos[n] # f.pos[new]
              /\ f.pos[n] < f.pos[new] => n # l /\ g.pos[n] < g.pos[l]
              /\ f.pos[new] < f.pos[n] => n = l \/ (n # l /\ g.pos[l] < g.pos[n])
  <2>1. g.pos[n] \in Nat /\ g.pos[l] \in Nat /\ (n # l => g.pos[n] # g.pos[l])
    BY <1>22, <1>25
  <2>2. /\ f.pos[n] = IF g.pos[n] < g.pos[l] THEN g.pos[n] ELSE g.pos[n] + 1
        /\ f.pos[new] = g.pos[l]
    BY <1>8
  <2> QED
    BY <2>1, <2>2
<1>26. /\ \A x \in f.resp[l], y \in f.resp[new] : x < y
       /\ \A n \in Nodes(h) : \A x \in f.resp[n] : x \in g.resp[n]
       /\ \A x \in f.resp[new] : x \in g.resp[l]
  <2>1. ASSUME NEW x \in f.resp[l], NEW y \in f.resp[new] PROVE x < y
    <3>1. x < K /\ K <= y /\ x \in Int /\ y \in Int
      BY <1>8, <1>10
    <3> QED
      BY <1>10, <3>1
  <2>2. ASSUME NEW n \in Nodes(h), NEW x \in f.resp[n] PROVE x \in g.resp[n]
    BY <1>8
  <2>3. ASSUME NEW x \in f.resp[new] PROVE x \in g.resp[l]
    BY <1>8
  <2> QED
    BY <2>1, <2>2, <2>3
<1>27. ASSUME NEW n \in Nodes(k), NEW q \in Nodes(k), k.node[n].leaf, k.node[q].leaf, n # q
       PROVE  /\ f.pos[n] # f.pos[q]
              /\ f.pos[q] < f.pos[n] => \A x \in f.resp[n], y \in f.resp[q] : x < y
  <2>1. CASE n \in Nodes(h) /\ q \in Nodes(h)
    <3>1. h.node[n].leaf /\ h.node[q].leaf
      BY <1>12, <1>27, <2>1
    <3>2. /\ f.pos[n] # f.pos[q]
          /\ f.pos[q] < f.pos[n] => \A x \in g.resp[n], y \in g.resp[q] : x < y
      BY <1>24, <1>27, <2>1, <3>1
    <3> QED
      BY <1>26, <2>1, <3>2
  <2>2. CASE n = new /\ q \in Nodes(h)
    <3>1. h.node[q].leaf
      BY <1>12, <1>27, <2>2
    <3>2. f.pos[q] # f.pos[new] /\ (f.pos[q] < f.pos[new] => q # l /\ g.pos[q] < g.pos[l])
      BY <1>25, <2>2, <3>1
    <3>3. q # l => (g.pos[q] < g.pos[l] => \A x \in g.resp[l], y \in g.resp[q] : x < y)
      BY <1>24, <2>2, <3>1
    <3> QED
      BY <1>26, <2>2, <3>2, <3>3
  <2>3. CASE q = new /\ n \in Nodes(h)
    <3>1. h.node[n].leaf
      BY <1>12, <1>27, <2>3
    <3>2. /\ f.pos[n] # f.pos[new]
          /\ f.pos[new] < f.pos[n] => n = l \/ (n # l /\ g.pos[l] < g.pos[n])
      BY <1>25, <2>3, <3>1
    <3>3. n # l => (g.pos[l] < g.pos[n] => \A x \in g.resp[n], y \in g.resp[l] : x < y)
      BY <1>24, <2>3, <3>1
    <3> QED
      BY <1>26, <2>3, <3>2, <3>3
  <2> QED
    BY <1>5, <1>27, <2>1, <2>2, <2>3
<1>28. ChainInv(k, f)
  BY <1>23, <1>27 DEF ChainInv
<1>29. Tree(k, root, f, 0)
  BY <1>15, <1>16, <1>18, <1>19, <1>20, <1>21, <1>28 DEF Tree
<1>30. Gap(k, f, l, new, K)
  <2>1. l \in Nodes(k) /\ new \in Nodes(k) /\ l # new
    BY <1>5, <1>6
  <2>2. ASSUME NEW x \in Key PROVE x \in f.under[l] <=> x \in f.resp[l] \/ x \in f.resp[new]
    <3>1. x \in R => x < K \/ K <= x
      BY <1>10
    <3> QED
      BY <1>6, <1>8, <3>1
  <2>3. ASSUME NEW n \in Nodes(k), n # l PROVE f.under[n] = f.resp[n]
    <3>1. n \in Nodes(h) => f.under[n] = f.resp[n]
      BY <1>8, <2>3 DEF Whole
    <3> QED
      BY <1>5, <1>8, <3>1
  <2>4. f.rank[new] = f.rank[l] /\ f.parent[new] = 0 /\ K \in f.resp[new] /\ f.resp[l] # {}
    BY <1>8, <1>11
  <2>5. (\A x \in f.resp[l] : x < K) /\ \A x \in f.resp[new] : K <= x
    BY <1>8
  <2> QED
    BY <2>1, <2>2, <2>3, <2>4, <2>5 DEF Gap
<1>31. Restocked(h, g, k, f, R, list)
  <2> SUFFICES ASSUME NEW x \in Key
               PROVE  Value(k, f, x) = IF x \in R THEN ListGet(list, x, NoValue)
                                       ELSE Value(h, g, x)
    BY DEF Restocked
  <2>1. g.home[x] \in Nodes(h) /\ x \in g.resp[g.home[x]] /\ (x \in R => g.home[x] = l)
    BY <1>1 DEF LeafInv, LeafOf
  <2>2. x \in Int
    BY <1>1 DEF Basics
  <2>3. CASE x \in hi
    <3>1. f.home[x] = new /\ k.node[new].list = b
      BY <1>4, <1>8, <2>3 DEF Cleft
    <3>2. ListGet(b, x, NoValue) = ListGet(list, x, NoValue)
      BY <1>4, <2>2, <2>3 DEF Parted
    <3> QED
      BY <2>3, <3>1, <3>2 DEF Value
  <2>4. CASE x \in lo
    <3>1. f.home[x] = l /\ k.node[l].list = a
      <4>1. x \notin hi
        BY <1>10, <2>2, <2>4
      <4> QED
        BY <1>4, <1>8, <2>1, <2>4, <4>1 DEF Cleft
    <3>2. ListGet(a, x, NoValue) = ListGet(list, x, NoValue)
      BY <1>4, <2>2, <2>4 DEF Parted
    <3> QED
      BY <2>4, <3>1, <3>2 DEF Value
  <2>5. CASE x \notin R
    <3>1. f.home[x] = g.home[x] /\ g.home[x] # l
      BY <1>8, <2>1, <2>5
    <3>2. k.node[g.home[x]] = h.node[g.home[x]]
      BY <1>12, <2>1, <3>1
    <3> QED
      BY <2>5, <3>1, <3>2 DEF Value
  <2>6. x \in R => x \in lo \/ x \in hi
    BY <1>10, <2>2
  <2> QED
    BY <2>3, <2>4, <2>5, <2>6
<1> QED
  BY <1>13, <1>29, <1>30, <1>31

------------------------------------------------------------------------------
(* The first set.                                                           *)

\* Its heap: the leaf with the entry, the leaf for lesser keys and the root.
Planted(k, key, val) ==
    /\ Len(k.node) = 3 /\ Len(k.cell) = 1
    /\ k.node[1] = LeafNode(<<[key |-> key, val |-> val]>>, 1, Null)
    /\ k.node[2] = LeafNode(<<>>, 0, 1)
    /\ k.node[3] = InternalNode(1, 2, 1)
    /\ k.cell[1] = Cell(key, 1, Null)

\* It is a tree.
LEMMA Plant ==
  ASSUME NEW k, HeapTyped(k), NEW key \in Key, NEW val \in Val, Planted(k, key, val)
  PROVE  \E g : /\ Tree(k, 3, g, 0) /\ Whole(k, g)
                /\ \A x \in Key : Value(k, g, x) = IF x = key THEN val ELSE NoValue
<1> DEFINE lo == {x \in Key : x < key}
           hi == {x \in Key : key <= x}
<1>1. Basics(k)
  BY HeapBasics
<1>2. key \in Int /\ \A x \in Key : x \in Int
  BY <1>1 DEF Basics
<1>3. Nodes(k) = {1, 2, 3} /\ Cells(k) = {1}
  BY DEF Planted, Nodes, Cells
<1>4. PICK list : list = <<[key |-> key, val |-> val]>>
  OBVIOUS
<1>5. /\ Len(list) = 1 /\ list[1].key = key /\ list[1].val = val
      /\ list \in Seq(Entry(Val)) /\ Sorted(list)
  <2>1. PICK e : e = [key |-> key, val |-> val]
    OBVIOUS
  <2>2. e \in Entry(Val) /\ e.key = key /\ e.val = val
    BY <1>2, <2>1 DEF Entry
  <2>3. list = <<e>>
    BY <1>4, <2>1
  <2>4. Len(list) = 1 /\ list[1] = e /\ list \in Seq(Entry(Val))
    BY <2>2, <2>3
  <2> QED
    BY <2>2, <2>4 DEF Sorted
<1>6. /\ k.node[1].leaf /\ k.node[1].list = list /\ k.node[1].size = 1 /\ k.node[1].next = 0
      /\ k.node[1].lesser = 0 /\ k.node[1].first = 0
      /\ k.node[2].leaf /\ k.node[2].list = <<>> /\ k.node[2].size = 0 /\ k.node[2].next = 1
      /\ k.node[2].lesser = 0 /\ k.node[2].first = 0
      /\ ~k.node[3].leaf /\ k.node[3].size = 1 /\ k.node[3].lesser = 2 /\ k.node[3].first = 1
      /\ k.cell[1].key = key /\ k.cell[1].child = 1 /\ k.cell[1].next = 0
  BY <1>4 DEF Planted, LeafNode, InternalNode, Cell, Null
<1>7. PICK s : s = <<k.node[3].first>>
  OBVIOUS
<1>8. PICK g : g =
        [rank   |-> [n \in {1, 2, 3} |-> IF n = 3 THEN 1 ELSE 0],
         resp   |-> [n \in {1, 2, 3} |-> IF n = 1 THEN hi ELSE IF n = 2 THEN lo ELSE Key],
         under  |-> [n \in {1, 2, 3} |-> IF n = 1 THEN hi ELSE IF n = 2 THEN lo ELSE Key],
         own    |-> [n \in {1, 2, 3} |-> IF n = 3 THEN s ELSE <<>>],
         parent |-> [n \in {1, 2, 3} |-> IF n = 3 THEN 0 ELSE 3],
         owner  |-> [c \in {1} |-> 3],
         pos    |-> [n \in {1, 2, 3} |-> IF n = 2 THEN 1 ELSE 0],
         home   |-> [x \in Key |-> IF x < key THEN 2 ELSE 1],
         spine  |-> {2, 3}, head |-> 2]
  OBVIOUS
<1>9. /\ g.rank[1] = 0 /\ g.rank[2] = 0 /\ g.rank[3] = 1
      /\ g.resp[1] = hi /\ g.resp[2] = lo /\ g.resp[3] = Key
      /\ g.under[1] = hi /\ g.under[2] = lo /\ g.under[3] = Key
      /\ g.own[1] = <<>> /\ g.own[2] = <<>> /\ g.own[3] = s
      /\ g.parent[1] = 3 /\ g.parent[2] = 3 /\ g.parent[3] = 0
      /\ g.owner[1] = 3 /\ g.pos[1] = 0 /\ g.pos[2] = 1 /\ g.pos[3] = 0
      /\ g.spine = {2, 3} /\ g.head = 2
      /\ \A x \in Key : g.home[x] = IF x < key THEN 2 ELSE 1
  <2> HIDE DEF lo, hi
  <2> QED
    BY <1>8
<1>10. /\ s \in Seq(Nat) /\ Len(s) = 1 /\ s[1] = 1 /\ CellsOf(k, g.owner, 3, s, Key)
       /\ \A x \in Key : InSlot(k, s, x, 0) <=> x < key
       /\ \A x \in Key : InSlot(k, s, x, 1) <=> key <= x
  <2>1. 3 \in Nodes(k) /\ 1 \in Cells(k) /\ Key \subseteq Key
    BY <1>3
  <2>2. PICK c, n : c = k.node[3].first /\ n = 3 /\ c = 1
    BY <1>6
  <2>3. /\ n \in Nodes(k) /\ k.node[n].size = 1 /\ k.node[n].first \in Cells(k)
        /\ g.owner[k.node[n].first] = n /\ k.cell[k.node[n].first].next = 0
        /\ k.cell[k.node[n].first].key \in Key
    BY <1>6, <1>9, <2>1, <2>2
  <2>4. LET t == <<k.node[n].first>>
        IN  /\ t \in Seq(Nat) /\ Len(t) = 1 /\ t[1] = k.node[n].first
            /\ CellsOf(k, g.owner, n, t, Key)
            /\ \A x \in Key : InSlot(k, t, x, 0) <=> x < k.cell[k.node[n].first].key
            /\ \A x \in Key : InSlot(k, t, x, 1) <=> k.cell[k.node[n].first].key <= x
    BY <1>1, <2>1, <2>3, OneCell
  <2>5. s = <<k.node[n].first>> /\ k.node[n].first = 1 /\ k.cell[k.node[n].first].key = key
    BY <1>6, <1>7, <2>2
  <2> QED
    BY <2>2, <2>4, <2>5
<1>11. GhostTyped(k, g)
  <2>1. lo \subseteq Key /\ hi \subseteq Key /\ Key \subseteq Key /\ <<>> \in Seq(Nat)
        /\ 0 \in Nat /\ 1 \in Nat /\ 3 \in Nat
    BY EmptySeq
  <2> HIDE DEF lo, hi
  <2>2. ASSUME NEW n \in Nodes(k)
        PROVE  /\ g.rank[n] \in Nat /\ g.parent[n] \in Nat /\ g.pos[n] \in Nat
               /\ g.resp[n] \subseteq Key /\ g.under[n] \subseteq Key /\ g.own[n] \in Seq(Nat)
    <3>1. CASE n = 1
      BY <1>9, <2>1, <3>1
    <3>2. CASE n = 2
      BY <1>9, <2>1, <3>2
    <3>3. CASE n = 3
      BY <1>9, <1>10, <2>1, <3>3
    <3> QED
      BY <1>3, <3>1, <3>2, <3>3
  <2>3. \A c \in Cells(k) : g.owner[c] \in Nat
    BY <1>3, <1>9, <2>1
  <2> QED
    BY <2>2, <2>3 DEF GhostTyped
<1>12. RootInv(k, 3, g)
  BY <1>3, <1>6, <1>9 DEF RootInv
<1>13. LeafInv(k, g)
  <2>1. LeafOf(k.node[1], g.home, 1, hi)
    <3>1. \A i \in 1..Len(list) : list[i].key \in hi
      BY <1>2, <1>5
    <3>2. \A x \in hi : g.home[x] = 1
      <4>1. ASSUME NEW x \in hi PROVE x \in Key /\ ~(x < key)
        BY <1>2
      <4> QED
        BY <1>9, <4>1
    <3>3. 1 <= max_size
      BY TreeAssumption DEF max_size
    <3> QED
      BY <1>5, <1>6, <3>1, <3>2, <3>3 DEF LeafOf
  <2>2. LeafOf(k.node[2], g.home, 2, lo)
    <3>1. \A x \in lo : g.home[x] = 2
      BY <1>9
    <3>2. 0 <= max_size
      BY TreeAssumption DEF max_size
    <3>3. PICK t : t = <<>>
      OBVIOUS
    <3>4. Sorted(t) /\ Len(t) = 0 /\ \A i \in 1..Len(t) : t[i].key \in lo
      BY <3>3 DEF Sorted
    <3> QED
      BY <1>6, <3>1, <3>2, <3>3, <3>4 DEF LeafOf
  <2>3. ASSUME NEW n \in Nodes(k), k.node[n].leaf PROVE LeafOf(k.node[n], g.home, n, g.resp[n])
    <3>1. n = 1 \/ n = 2
      BY <1>3, <1>6, <2>3
    <3> QED
      BY <1>9, <2>1, <2>2, <3>1
  <2>4. ASSUME NEW x \in Key
        PROVE  g.home[x] \in Nodes(k) /\ k.node[g.home[x]].leaf /\ x \in g.resp[g.home[x]]
    <3>1. CASE x < key
      BY <1>3, <1>6, <1>9, <3>1
    <3>2. CASE ~(x < key)
      <4>1. key <= x
        BY <1>2, <3>2
      <4> QED
        BY <1>3, <1>6, <1>9, <3>2, <4>1
    <3> QED
      BY <3>1, <3>2
  <2> QED
    BY <2>3, <2>4 DEF LeafInv
<1>14. ASSUME NEW n, Inner(k, g, n) PROVE n = 3
  BY <1>3, <1>6, <1>14 DEF Inner
<1>15. CellInv(k, g, 0)
  <2>1. 1 <= max_size
    BY TreeAssumption DEF max_size
  <2> QED
    BY <1>6, <1>9, <1>10, <1>14, <2>1 DEF CellInv
<1>16. SlotInv(k, g)
  <2> SUFFICES ASSUME NEW n, NEW j, Used(k, g, n, j) PROVE Passes(k, g, n, j)
    BY DEF SlotInv
  <2>1. n = 3
    BY <1>14 DEF Used
  <2>2. j \in 0..1
    BY <1>9, <1>10, <2>1 DEF Used
  <2>3. CASE j = 0
    <3>1. Kid(k, 3, s, 0) = 2
      BY <1>6 DEF Kid
    <3>2. \A x \in Key : x \in g.under[2] <=> x \in g.resp[3] /\ InSlot(k, s, x, 0)
      BY <1>9, <1>10
    <3> QED
      BY <1>3, <1>9, <2>1, <2>3, <3>1, <3>2 DEF Passes
  <2>4. CASE j = 1
    <3>1. Kid(k, 3, s, 1) = 1
      BY <1>6, <1>10 DEF Kid
    <3>2. \A x \in Key : x \in g.under[1] <=> x \in g.resp[3] /\ InSlot(k, s, x, 1)
      BY <1>9, <1>10
    <3> QED
      BY <1>3, <1>9, <2>1, <2>4, <3>1, <3>2 DEF Passes
  <2> QED
    BY <2>2, <2>3, <2>4
<1>17. SpineInv(k, 3, g)
  BY <1>3, <1>6, <1>9 DEF SpineInv
<1>18. ChainInv(k, g)
  <2>1. ASSUME NEW n \in Nodes(k), k.node[n].leaf
        PROVE  /\ g.pos[n] <= g.pos[g.head]
               /\ k.node[n].next = 0 <=> g.pos[n] = 0
               /\ k.node[n].next # 0 =>
                     k.node[k.node[n].next].leaf /\ g.pos[k.node[n].next] = g.pos[n] - 1
    <3>1. n = 1 \/ n = 2
      BY <1>3, <1>6, <2>1
    <3> QED
      BY <1>6, <1>9, <3>1
  <2>2. ASSUME NEW m \in Nodes(k), NEW n \in Nodes(k), k.node[m].leaf, k.node[n].leaf, m # n
        PROVE  /\ g.pos[m] # g.pos[n]
               /\ g.pos[n] < g.pos[m] => \A x \in g.resp[m], y \in g.resp[n] : x < y
    <3>1. (m = 1 /\ n = 2) \/ (m = 2 /\ n = 1)
      BY <1>3, <1>6, <2>2
    <3>2. \A x \in g.resp[2], y \in g.resp[1] : x < y
      <4>1. ASSUME NEW x \in lo, NEW y \in hi PROVE x < y
        BY <1>2
      <4> QED
        BY <1>9, <4>1
    <3> QED
      BY <1>9, <3>1, <3>2
  <2> QED
    BY <2>1, <2>2 DEF ChainInv
<1>19. Tree(k, 3, g, 0) /\ Whole(k, g)
  BY <1>3, <1>9, <1>11, <1>12, <1>13, <1>15, <1>16, <1>17, <1>18 DEF Tree, Whole
<1>20. ASSUME NEW x \in Key PROVE Value(k, g, x) = IF x = key THEN val ELSE NoValue
  <2>1. CASE x = key
    <3>1. g.home[x] = 1
      BY <1>2, <1>9, <2>1
    <3>2. ListGet(list, list[1].key, NoValue) = list[1].val
      <4>1. 1 \in 1..Len(list)
        BY <1>5
      <4> QED
        BY <1>5, <4>1, GetFound
    <3> QED
      BY <1>5, <1>6, <2>1, <3>1, <3>2 DEF Value
  <2>2. CASE x # key
    <3>1. ListGet(list, x, NoValue) = NoValue
      BY <1>5, <2>2, GetNotFound
    <3>2. PICK t : t = <<>>
      OBVIOUS
    <3>3. t \in Seq(Entry(Val)) /\ Len(t) = 0
      BY <3>2, EmptySeq
    <3>4. ListGet(t, x, NoValue) = NoValue
      <4>1. \A i \in 1..Len(t) : t[i].key # x
        BY <3>3
      <4> QED
        BY <3>3, <4>1, GetNotFound
    <3> QED
      BY <1>6, <1>9, <2>2, <3>1, <3>2, <3>4 DEF Value
  <2> QED
    BY <2>1, <2>2
<1> QED
  BY <1>19, <1>20
==============================================================================
