---------------------------- MODULE LeafListProofs ---------------------------
(***************************************************************************)
(* leaf_list is a dictionary: on a list of any length whose keys ascend,    *)
(* set and delete_key keep them ascending, and get_val_ptr afterwards finds *)
(* what was set, does not find what was deleted, and finds for every other  *)
(* key what it found before.                                                *)
(*                                                                         *)
(* The first lemmas are induction and recursion on the naturals, for sets   *)
(* in place of predicates and functions in place of operators, as the       *)
(* provers need it; the proofs about Codec and BPTree use them as well.     *)
(***************************************************************************)
EXTENDS LeafList, SequenceTheorems, WellFoundedInduction, TLAPS

------------------------------------------------------------------------------
(* Induction and recursion.                                                 *)

\* A set of naturals that is not empty has a least element.
LEMMA LeastNatural ==
    ASSUME NEW T \in SUBSET Nat, T # {}
    PROVE  \E i \in T : \A j \in T : i <= j
<1>1. \E x \in T : \A y \in T : ~(<<y, x>> \in OpToRel(<, Nat))
    BY NatLessThanWellFounded, WFMin
<1>2. PICK x \in T : \A y \in T : ~(<<y, x>> \in OpToRel(<, Nat))
    BY <1>1
<1>3. ASSUME NEW y \in T PROVE x <= y
    <2>1. x \in Nat /\ y \in Nat
        OBVIOUS
    <2>2. y < x => <<y, x>> \in OpToRel(<, Nat)
        BY <2>1 DEF OpToRel
    <2>3. ~(y < x)
        BY <1>2, <2>2, Zenon
    <2>. QED
        BY <2>1, <2>3
<1>. QED
    BY <1>3

\* Induction on the numbers up to m, for a set in place of a predicate.
LEMMA UpTo ==
  ASSUME NEW m \in Nat, NEW T, 0 \in T, \A i \in 1..m : i - 1 \in T => i \in T
  PROVE  \A i \in 0..m : i \in T
<1> SUFFICES ASSUME NEW j \in 0..m, j \notin T
             PROVE  FALSE
  OBVIOUS
<1> DEFINE C == {i \in 0..m : i \notin T}
<1>1. C \in SUBSET Nat /\ C # {}
  OBVIOUS
<1> HIDE DEF C
<1>2. PICK n \in C : \A k \in C : n <= k
  BY <1>1, LeastNatural
<1>3. n \in 1..m /\ n \notin T
  BY DEF C
<1>4. n - 1 \notin C
  BY <1>2, <1>3
<1> QED
  BY <1>3, <1>4 DEF C

\* A sequence of m places has a longest prefix that no place of T is in.
LEMMA Prefix ==
  ASSUME NEW m \in Nat, NEW T
  PROVE  \E n \in 0..m : (\A i \in 1..n : i \notin T) /\ (n < m => n + 1 \in T)
<1>1. CASE \A i \in 1..m : i \notin T
  BY <1>1
<1>2. CASE \E i \in 1..m : i \in T
  <2> DEFINE C == {i \in 1..m : i \in T}
  <2>1. C \in SUBSET Nat /\ C # {}
    BY <1>2
  <2> HIDE DEF C
  <2>2. PICK n \in C : \A k \in C : n <= k
    BY <2>1, LeastNatural
  <2>3. n \in 1..m /\ n \in T
    BY DEF C
  <2>4. \A i \in 1..n - 1 : i \notin T
    BY <2>2, <2>3 DEF C
  <2> QED
    BY <2>3, <2>4
<1> QED
  BY <1>1, <1>2

\* w starts with a, and its step to i is G[i].
Recurses(w, n, a, G) == w[0] = a /\ \A i \in 1..n : w[i] = G[i][w[i - 1]]

\* A recursion whose step i takes S to S has a solution, in S throughout.
LEMMA RecursionExists ==
  ASSUME NEW n \in Nat, NEW S, NEW a \in S, NEW G \in [1..n -> [S -> S]]
  PROVE  \E w \in [0..n -> S] : Recurses(w, n, a, G)
<1> DEFINE Solves(m, w) == w \in [0..m -> S] /\ w[0] = a /\ \A i \in 1..m : w[i] = G[i][w[i - 1]]
           T == {m \in 0..n : \E w : Solves(m, w)}
<1>1. 0 \in T
  <2>1. PICK z : z = [i \in 0..0 |-> a]
    OBVIOUS
  <2>2. Solves(0, z)
    BY <2>1
  <2> HIDE DEF Solves
  <2> QED
    BY <2>2
<1>2. ASSUME NEW m \in 1..n, m - 1 \in T
      PROVE  m \in T
  <2>1. PICK w : Solves(m - 1, w)
    BY <1>2
  <2> DEFINE v == [k \in 0..m |-> IF k = m THEN G[m][w[m - 1]] ELSE w[k]]
  <2>2. m - 1 \in 0..m - 1
    OBVIOUS
  <2>3. G[m][w[m - 1]] \in S
    BY <2>1, <2>2
  <2>4. v \in [0..m -> S]
    BY <2>1, <2>3
  <2>5. v[0] = a
    BY <2>1
  <2>6. ASSUME NEW k \in 1..m PROVE v[k] = G[k][v[k - 1]]
    <3>1. k - 1 \in 0..m - 1 /\ v[k - 1] = w[k - 1]
      OBVIOUS
    <3>2. CASE k = m
      BY <3>1, <3>2
    <3>3. CASE k # m
      <4>1. k \in 1..m - 1
        BY <3>3
      <4> QED
        BY <2>1, <3>1, <4>1
    <3> QED
      BY <3>2, <3>3
  <2> HIDE DEF v
  <2>7. Solves(m, v)
    BY <2>4, <2>5, <2>6
  <2> HIDE DEF Solves
  <2> QED
    BY <2>7
<1> HIDE DEF T, Solves
<1>3. \A i \in 1..n : i - 1 \in T => i \in T
  BY <1>2
<1>4. \A i \in 0..n : i \in T
  BY <1>1, <1>3, UpTo
<1>5. PICK w : Solves(n, w)
  BY <1>4 DEF T
<1>6. w \in [0..n -> S] /\ Recurses(w, n, a, G)
  BY <1>5 DEF Solves, Recurses
<1> QED
  BY <1>6

------------------------------------------------------------------------------
(* Lists.                                                                   *)

\* A node of a list with values from V.
Entry(V) == [key : Int, val : V]

\* The nodes of a list are entries.
LEMMA EntriesTyped ==
    ASSUME NEW V, NEW list \in Seq(Entry(V))
    PROVE  /\ Len(list) \in Nat
           /\ \A i \in 1..Len(list) :
                 list[i] \in Entry(V) /\ list[i].key \in Int /\ list[i].val \in V
<1>1. Len(list) \in Nat /\ \A i \in 1..Len(list) : list[i] \in Entry(V)
    BY LenProperties
<1>2. \A e \in Entry(V) : e.key \in Int /\ e.val \in V
    BY DEF Entry
<1>. QED
    BY <1>1, <1>2

\* The walk of set and insert stops: where Stop says it does, all nodes that were
\* passed have keys up to key, and the next one, if there is one, is above key.
LEMMA StopProperties ==
    ASSUME NEW V, NEW list \in Seq(Entry(V)), NEW key \in Int, list # <<>>
    PROVE  /\ Stop(list, key) \in 1..Len(list)
           /\ \A j \in 2..Stop(list, key) : list[j].key <= key
           /\ Stop(list, key) < Len(list) => key < list[Stop(list, key) + 1].key
<1> DEFINE ends == {i \in 1..Len(list) : i < Len(list) => key < list[i + 1].key}
<1>1. Len(list) \in Nat /\ Len(list) # 0
    BY EmptySeq, LenProperties
<1>2. \A i \in 1..Len(list) : list[i].key \in Int
    BY EntriesTyped
<1>3. ends \subseteq Nat /\ Len(list) \in ends
    BY <1>1
<1>4. PICK i \in ends : \A j \in ends : i <= j
    BY <1>3, LeastNatural
<1>5. ASSUME NEW j \in 2..i PROVE list[j].key <= key
    <2>1. j - 1 \in 1..Len(list) /\ j - 1 < Len(list) /\ j - 1 < i /\ j \in 1..Len(list)
        BY <1>1
    <2>2. j - 1 \notin ends
        BY <1>4, <2>1
    <2>. QED
        BY <2>1, <2>2, <1>2
<1>. QED
    BY <1>4, <1>5 DEF Stop

\* What is where after a node is linked in behind the first i nodes.
LEMMA InsertAfterProperties ==
    ASSUME NEW S, NEW list \in Seq(S), NEW i \in 0..Len(list), NEW e \in S
    PROVE  /\ InsertAfter(list, i, e) \in Seq(S)
           /\ Len(InsertAfter(list, i, e)) = Len(list) + 1
           /\ \A j \in 1..Len(list) + 1 :
                 InsertAfter(list, i, e)[j] =
                     IF j <= i THEN list[j] ELSE IF j = i + 1 THEN e ELSE list[j - 1]
<1> DEFINE a == SubSeq(list, 1, i)
           b == SubSeq(list, i + 1, Len(list))
<1>1. Len(list) \in Nat /\ \A j \in 1..Len(list) : list[j] \in S
    BY LenProperties
<1>2. a \in Seq(S) /\ Len(a) = i /\ \A j \in 1..i : a[j] = list[j]
    BY <1>1, SubSeqProperties
<1>3. b \in Seq(S) /\ Len(b) = Len(list) - i /\ \A j \in 1..(Len(list) - i) : b[j] = list[i + j]
    <2>1. \A j \in (i + 1)..Len(list) : list[j] \in S
        BY <1>1
    <2>2. i + 1 \in Int /\ Len(list) \in Int
        BY <1>1
    <2>3. /\ b \in Seq(S)
          /\ Len(b) = IF i + 1 <= Len(list) THEN Len(list) - (i + 1) + 1 ELSE 0
          /\ \A j \in 1..(Len(list) - (i + 1) + 1) : b[j] = list[(i + 1) + j - 1]
        BY <2>1, <2>2, SubSeqProperties
    <2>. QED
        BY <1>1, <2>3
<1>4. <<e>> \in Seq(S) /\ Len(<<e>>) = 1 /\ <<e>>[1] = e
    OBVIOUS
<1> HIDE DEF a, b
<1>5. /\ a \o <<e>> \in Seq(S)
      /\ Len(a \o <<e>>) = i + 1
      /\ \A j \in 1..(i + 1) : (a \o <<e>>)[j] = IF j <= i THEN a[j] ELSE <<e>>[j - i]
    BY <1>1, <1>2, <1>4, ConcatProperties
<1>6. /\ (a \o <<e>>) \o b \in Seq(S)
      /\ Len((a \o <<e>>) \o b) = Len(list) + 1
      /\ \A j \in 1..(Len(list) + 1) : ((a \o <<e>>) \o b)[j] =
             IF j <= i + 1 THEN (a \o <<e>>)[j] ELSE b[j - (i + 1)]
    <2> DEFINE ae == a \o <<e>>
    <2>1. ae \in Seq(S) /\ Len(ae) = i + 1
        BY <1>5
    <2> HIDE DEF ae
    <2>2. /\ ae \o b \in Seq(S)
          /\ Len(ae \o b) = Len(ae) + Len(b)
          /\ \A j \in 1..(Len(ae) + Len(b)) :
                (ae \o b)[j] = IF j <= Len(ae) THEN ae[j] ELSE b[j - Len(ae)]
        BY <2>1, <1>3, ConcatProperties
    <2>3. Len(ae) + Len(b) = Len(list) + 1
        BY <2>1, <1>1, <1>3
    <2>4. /\ ae \o b \in Seq(S)
          /\ Len(ae \o b) = Len(list) + 1
          /\ \A j \in 1..(Len(list) + 1) :
                (ae \o b)[j] = IF j <= i + 1 THEN ae[j] ELSE b[j - (i + 1)]
        BY <2>1, <2>2, <2>3
    <2>. QED
        BY <2>4 DEF ae
<1>7. InsertAfter(list, i, e) = (a \o <<e>>) \o b
    BY DEF InsertAfter, a, b
<1>8. ASSUME NEW j \in 1..(Len(list) + 1)
      PROVE  InsertAfter(list, i, e)[j] =
                 IF j <= i THEN list[j] ELSE IF j = i + 1 THEN e ELSE list[j - 1]
    <2>1. CASE j <= i
        BY <2>1, <1>1, <1>2, <1>5, <1>6, <1>7
    <2>2. CASE j = i + 1
        BY <2>2, <1>1, <1>4, <1>5, <1>6, <1>7
    <2>3. CASE j > i + 1
        <3>1. InsertAfter(list, i, e)[j] = b[j - (i + 1)]
            BY <2>3, <1>1, <1>6, <1>7
        <3>2. j - (i + 1) \in 1..(Len(list) - i) /\ i + (j - (i + 1)) = j - 1
            BY <2>3, <1>1
        <3>3. b[j - (i + 1)] = list[i + (j - (i + 1))]
            BY <3>2, <1>3
        <3>. QED
            BY <2>3, <3>1, <3>2, <3>3
    <2>. QED
        BY <1>1, <2>1, <2>2, <2>3
<1>. QED
    BY <1>6, <1>7, <1>8

\* The list t is s with c behind its first j elements.
Spread(s, j, c, t) ==
    /\ Len(t) = Len(s) + 1
    /\ \A i \in 1..Len(s) + 1 : t[i] = IF i <= j THEN s[i] ELSE IF i = j + 1 THEN c ELSE s[i - 1]

\* It is when list::insert_after has put it there.
LEMMA SpreadInsert ==
  ASSUME NEW S, NEW list \in Seq(S), NEW i \in 0..Len(list), NEW e \in S
  PROVE  InsertAfter(list, i, e) \in Seq(S) /\ Spread(list, i, e, InsertAfter(list, i, e))
BY InsertAfterProperties DEF Spread

\* In an ascending list a key is found at its only node, so get_val_ptr and
\* delete_key, which look for the first, cannot miss the one that set wrote.
LEMMA FirstHitIsOnly ==
    ASSUME NEW V, NEW list \in Seq(Entry(V)), Sorted(list), NEW i \in 1..Len(list)
    PROVE  Hits(list, list[i].key) = {i} /\ FirstHit(list, list[i].key) = i
<1>1. Len(list) \in Nat /\ \A j \in 1..Len(list) : list[j].key \in Int
    BY EntriesTyped
<1>2. ASSUME NEW j \in 1..Len(list), list[j].key = list[i].key PROVE j = i
    BY <1>1, <1>2 DEF Sorted
<1>3. Hits(list, list[i].key) = {i}
    BY <1>2 DEF Hits
<1>. QED
    BY <1>1, <1>3 DEF FirstHit

\* What get_val_ptr returns on an ascending list.
LEMMA GetFound ==
    ASSUME NEW V, NEW list \in Seq(Entry(V)), Sorted(list), NEW none
    PROVE  \A i \in 1..Len(list) : ListGet(list, list[i].key, none) = list[i].val
BY FirstHitIsOnly DEF ListGet

\* get_val_ptr returns nullptr for a key that no node holds.
LEMMA GetNotFound ==
    ASSUME NEW V, NEW none, NEW list \in Seq(Entry(V)), NEW key,
           \A i \in 1..Len(list) : list[i].key # key
    PROVE  ListGet(list, key, none) = none
BY DEF ListGet, Hits

\* Where set puts its node, and how the keys around it compare.
LEMMA SetCases ==
    ASSUME NEW V, NEW list \in Seq(Entry(V)), Sorted(list), NEW key \in Int, NEW val \in V
    PROVE  \/ \E i \in 1..Len(list) :
                 /\ list[i].key = key
                 /\ ListSet(list, key, val) = [list EXCEPT ![i] = [key |-> key, val |-> val]]
           \/ \E i \in 0..Len(list) :
                 /\ \A j \in 1..i : list[j].key < key
                 /\ \A j \in (i + 1)..Len(list) : key < list[j].key
                 /\ ListSet(list, key, val) = InsertAfter(list, i, [key |-> key, val |-> val])
<1>1. Len(list) \in Nat /\ \A j \in 1..Len(list) : list[j].key \in Int
    BY EntriesTyped
<1>2. CASE Prepends(list, key)
    <2>1. ListSet(list, key, val) = InsertAfter(list, 0, [key |-> key, val |-> val])
        BY <1>2 DEF ListSet, Overwrites
    <2>2. \A j \in 1..Len(list) : key < list[j].key
        BY <1>1, <1>2 DEF Prepends, Sorted
    <2>. QED
        BY <1>1, <2>1, <2>2
<1>3. CASE ~Prepends(list, key)
    <2> DEFINE i == Stop(list, key)
    <2>1. list # <<>> /\ ~(key < list[1].key)
        BY <1>3 DEF Prepends
    <2>2. /\ i \in 1..Len(list)
          /\ \A j \in 2..i : list[j].key <= key
          /\ i < Len(list) => key < list[i + 1].key
        BY <2>1, StopProperties
    <2> HIDE DEF i
    <2>3. list[i].key <= key
        BY <1>1, <2>1, <2>2
    <2>4. CASE list[i].key = key
        <3>1. ListSet(list, key, val) = [list EXCEPT ![i] = [key |-> key, val |-> val]]
            BY <1>3, <2>4 DEF ListSet, Overwrites, i
        <3>. QED
            BY <2>2, <2>4, <3>1
    <2>5. CASE list[i].key # key
        <3>1. ListSet(list, key, val) = InsertAfter(list, i, [key |-> key, val |-> val])
            BY <1>3, <2>5 DEF ListSet, Overwrites, i
        <3>2. \A j \in 1..i : list[j].key < key
            BY <1>1, <2>2, <2>3, <2>5 DEF Sorted
        <3>3. \A j \in (i + 1)..Len(list) : key < list[j].key
            BY <1>1, <2>2 DEF Sorted
        <3>. QED
            BY <1>1, <2>2, <3>1, <3>2, <3>3, SMTT(30)
    <2>. QED
        BY <2>4, <2>5
<1>. QED
    BY <1>2, <1>3

\* leaf_list::set keeps the keys ascending and distinct, wherever the key falls:
\* before the first node, on a node, between two nodes or after the last.
THEOREM SetKeepsSorted ==
    ASSUME NEW V, NEW list \in Seq(Entry(V)), Sorted(list), NEW key \in Int, NEW val \in V
    PROVE  ListSet(list, key, val) \in Seq(Entry(V)) /\ Sorted(ListSet(list, key, val))
<1> DEFINE e == [key |-> key, val |-> val]
<1>1. Len(list) \in Nat /\ \A j \in 1..Len(list) : list[j].key \in Int
    BY EntriesTyped
<1>2. e \in Entry(V) /\ e.key = key
    BY DEF Entry
<1> HIDE DEF e
<1>3. ASSUME NEW i \in 1..Len(list), list[i].key = key
      PROVE  [list EXCEPT ![i] = e] \in Seq(Entry(V)) /\ Sorted([list EXCEPT ![i] = e])
    <2>1. /\ [list EXCEPT ![i] = e] \in Seq(Entry(V))
          /\ Len([list EXCEPT ![i] = e]) = Len(list)
          /\ \A j \in 1..Len(list) : [list EXCEPT ![i] = e][j] = IF j = i THEN e ELSE list[j]
        BY <1>2, ExceptSeq
    <2>2. \A j \in 1..Len(list) : [list EXCEPT ![i] = e][j].key = list[j].key
        BY <1>2, <1>3, <2>1
    <2>. QED
        BY <2>1, <2>2 DEF Sorted
<1>4. ASSUME NEW i \in 0..Len(list),
             \A j \in 1..i : list[j].key < key,
             \A j \in (i + 1)..Len(list) : key < list[j].key
      PROVE  InsertAfter(list, i, e) \in Seq(Entry(V)) /\ Sorted(InsertAfter(list, i, e))
    <2> DEFINE new == InsertAfter(list, i, e)
    <2>1. /\ new \in Seq(Entry(V))
          /\ Len(new) = Len(list) + 1
          /\ \A j \in 1..Len(list) + 1 :
                new[j] = IF j <= i THEN list[j] ELSE IF j = i + 1 THEN e ELSE list[j - 1]
        BY <1>2, InsertAfterProperties
    <2> HIDE DEF new
    <2>2. \A j \in 1..Len(new) :
              new[j].key = IF j <= i THEN list[j].key
                           ELSE IF j = i + 1 THEN key ELSE list[j - 1].key
        BY <1>1, <1>2, <2>1
    <2>3. Len(new) = Len(list) + 1 /\ i \in Nat /\ i <= Len(list)
        BY <1>1, <2>1
    <2>4. ASSUME NEW j \in 1..Len(new), NEW k \in 1..Len(new), j < k
          PROVE  new[j].key < new[k].key
        <3>1. \A a, b \in 1..Len(list) : a < b => list[a].key < list[b].key
            BY DEF Sorted
        <3>2. CASE k <= i
            <4>1. j \in 1..Len(list) /\ k \in 1..Len(list) /\ j <= i
                BY <3>2, <1>1, <2>3, <2>4
            <4>2. new[j].key = list[j].key /\ new[k].key = list[k].key
                BY <3>2, <4>1, <2>2
            <4>. QED
                BY <4>1, <4>2, <2>4, <3>1
        <3>3. CASE k = i + 1
            <4>1. j \in 1..i /\ new[j].key = list[j].key /\ new[k].key = key
                BY <3>3, <1>1, <2>3, <2>2, <2>4
            <4>. QED
                BY <1>4, <4>1
        <3>4. CASE k > i + 1
            <4>1. k - 1 \in 1..Len(list) /\ k - 1 \in (i + 1)..Len(list)
                BY <3>4, <1>1, <2>3
            <4>2. new[k].key = list[k - 1].key
                BY <3>4, <2>2
            <4>3. CASE j <= i
                <5>1. j \in 1..Len(list) /\ j < k - 1
                    BY <3>4, <4>3, <1>1, <2>3
                <5>2. new[j].key = list[j].key
                    BY <4>3, <2>2
                <5>. QED
                    BY <4>1, <4>2, <5>1, <5>2, <3>1
            <4>4. CASE j = i + 1
                <5>1. new[j].key = key
                    BY <4>4, <2>2, <2>3
                <5>. QED
                    BY <4>1, <4>2, <5>1, <1>4
            <4>5. CASE j > i + 1
                <5>1. j - 1 \in 1..Len(list) /\ j - 1 < k - 1
                    BY <4>5, <1>1, <2>3, <2>4
                <5>2. new[j].key = list[j - 1].key
                    BY <4>5, <2>2, <2>3
                <5>. QED
                    BY <4>1, <4>2, <5>1, <5>2, <3>1
            <4>. QED
                BY <1>1, <2>3, <4>3, <4>4, <4>5
        <3>. QED
            BY <1>1, <2>3, <3>2, <3>3, <3>4
    <2>5. Sorted(new)
        BY <2>4 DEF Sorted
    <2>. QED
        BY <2>1, <2>5 DEF new
<1>5. \/ \E i \in 1..Len(list) :
            list[i].key = key /\ ListSet(list, key, val) = [list EXCEPT ![i] = e]
      \/ \E i \in 0..Len(list) :
            /\ \A j \in 1..i : list[j].key < key
            /\ \A j \in (i + 1)..Len(list) : key < list[j].key
            /\ ListSet(list, key, val) = InsertAfter(list, i, e)
    BY SetCases DEF e
<1>. QED
    BY <1>3, <1>4, <1>5

\* leaf_list::set adds one node, or none if it overwrites.
LEMMA SetLength ==
    ASSUME NEW V, NEW list \in Seq(Entry(V)), NEW key \in Int, NEW val \in V
    PROVE  Len(ListSet(list, key, val)) =
               IF Overwrites(list, key) THEN Len(list) ELSE Len(list) + 1
<1>1. Len(list) \in Nat /\ [key |-> key, val |-> val] \in Entry(V)
  BY LenProperties DEF Entry
<1>2. list # <<>> => Stop(list, key) \in 1..Len(list)
  BY StopProperties
<1>3. CASE Overwrites(list, key)
  <2>1. list # <<>>
    BY <1>3 DEF Overwrites, Prepends
  <2>2. ListSet(list, key, val) = [list EXCEPT ![Stop(list, key)] = [key |-> key, val |-> val]]
    BY <1>3 DEF ListSet
  <2>3. Len([list EXCEPT ![Stop(list, key)] = [key |-> key, val |-> val]]) = Len(list)
    BY <1>1, <1>2, <2>1, ExceptSeq
  <2> QED
    BY <1>3, <2>2, <2>3
<1>4. CASE ~Overwrites(list, key)
  <2>1. PICK i \in 0..Len(list) : i = IF Prepends(list, key) THEN 0 ELSE Stop(list, key)
    BY <1>1, <1>2 DEF Prepends
  <2>2. ListSet(list, key, val) = InsertAfter(list, i, [key |-> key, val |-> val])
    BY <1>4, <2>1 DEF ListSet
  <2>3. Len(InsertAfter(list, i, [key |-> key, val |-> val])) = Len(list) + 1
    BY <1>1, InsertAfterProperties
  <2> QED
    BY <1>4, <2>2, <2>3
<1> QED
  BY <1>3, <1>4

\* It adds no key but the one that it sets.
LEMMA SetKeys ==
    ASSUME NEW V, NEW list \in Seq(Entry(V)), Sorted(list), NEW key \in Int, NEW val \in V,
           NEW i \in 1..Len(ListSet(list, key, val))
    PROVE  \/ ListSet(list, key, val)[i].key = key
           \/ \E j \in 1..Len(list) : ListSet(list, key, val)[i].key = list[j].key
<1> DEFINE e == [key |-> key, val |-> val]
<1>1. Len(list) \in Nat /\ e \in Entry(V) /\ e.key = key
  BY LenProperties DEF Entry
<1> HIDE DEF e
<1>2. ASSUME NEW n \in 1..Len(list), ListSet(list, key, val) = [list EXCEPT ![n] = e]
      PROVE  \/ ListSet(list, key, val)[i].key = key
             \/ \E j \in 1..Len(list) : ListSet(list, key, val)[i].key = list[j].key
  <2>1. /\ Len([list EXCEPT ![n] = e]) = Len(list)
        /\ \A j \in 1..Len(list) : [list EXCEPT ![n] = e][j] = IF j = n THEN e ELSE list[j]
    BY <1>1, ExceptSeq
  <2>2. i \in 1..Len(list)
    BY <1>2, <2>1
  <2> QED
    BY <1>1, <1>2, <2>1, <2>2
<1>3. ASSUME NEW n \in 0..Len(list), ListSet(list, key, val) = InsertAfter(list, n, e)
      PROVE  \/ ListSet(list, key, val)[i].key = key
             \/ \E j \in 1..Len(list) : ListSet(list, key, val)[i].key = list[j].key
  <2>1. /\ Len(InsertAfter(list, n, e)) = Len(list) + 1
        /\ \A j \in 1..Len(list) + 1 :
              InsertAfter(list, n, e)[j] = IF j <= n THEN list[j] ELSE IF j = n + 1 THEN e ELSE list[j - 1]
    <3>1. PICK S : S = Entry(V)
      OBVIOUS
    <3>2. list \in Seq(S) /\ e \in S
      BY <1>1, <3>1
    <3>3. Spread(list, n, e, InsertAfter(list, n, e))
      BY <3>2, SpreadInsert
    <3> QED
      BY <3>3 DEF Spread
  <2>2. i \in 1..Len(list) + 1 /\ (i <= n => i \in 1..Len(list))
        /\ (~(i <= n) /\ i # n + 1 => i - 1 \in 1..Len(list))
    BY <1>1, <1>3, <2>1
  <2> QED
    BY <1>1, <1>3, <2>1, <2>2
<1> QED
  BY <1>2, <1>3, SetCases DEF e

\* After leaf_list::set(key, val) get_val_ptr finds val under key, and under every
\* other key what it found before.
THEOREM GetAfterSet ==
    ASSUME NEW V, NEW none, NEW list \in Seq(Entry(V)), Sorted(list),
           NEW key \in Int, NEW val \in V, NEW k \in Int
    PROVE  ListGet(ListSet(list, key, val), k, none) =
               IF k = key THEN val ELSE ListGet(list, k, none)
<1> DEFINE e == [key |-> key, val |-> val]
           new == ListSet(list, key, val)
<1>1. Len(list) \in Nat /\ \A j \in 1..Len(list) : list[j].key \in Int
    BY EntriesTyped
<1>2. e \in Entry(V) /\ e.key = key /\ e.val = val
    BY DEF Entry
<1>3. new \in Seq(Entry(V)) /\ Sorted(new)
    BY SetKeepsSorted
<1>4. \/ \E i \in 1..Len(list) :
            list[i].key = key /\ new = [list EXCEPT ![i] = e]
      \/ \E i \in 0..Len(list) :
            /\ \A j \in 1..i : list[j].key < key
            /\ \A j \in (i + 1)..Len(list) : key < list[j].key
            /\ new = InsertAfter(list, i, e)
    BY SetCases
<1> HIDE DEF e, new
<1> DEFINE Kept == /\ \E j \in 1..Len(new) : new[j] = e
                   /\ \A j \in 1..Len(new) :
                         new[j] = e \/ \E m \in 1..Len(list) : new[j] = list[m]
                   /\ \A m \in 1..Len(list) :
                         list[m].key # key => \E j \in 1..Len(new) : new[j] = list[m]
<1>5. Kept
    <2> HIDE DEF Kept
    <2>1. ASSUME NEW i \in 1..Len(list), list[i].key = key, new = [list EXCEPT ![i] = e]
          PROVE  Kept
        <3>1. /\ Len(new) = Len(list)
              /\ \A j \in 1..Len(list) : new[j] = IF j = i THEN e ELSE list[j]
            BY <1>2, <2>1, ExceptSeq
        <3>. QED
            BY <2>1, <3>1 DEF Kept
    <2>2. ASSUME NEW i \in 0..Len(list), new = InsertAfter(list, i, e)
          PROVE  Kept
        <3>1. /\ Len(new) = Len(list) + 1
              /\ \A j \in 1..Len(list) + 1 :
                    new[j] = IF j <= i THEN list[j] ELSE IF j = i + 1 THEN e ELSE list[j - 1]
            <4>1. /\ Len(InsertAfter(list, i, e)) = Len(list) + 1
                  /\ \A j \in 1..Len(list) + 1 :
                        InsertAfter(list, i, e)[j] =
                            IF j <= i THEN list[j] ELSE IF j = i + 1 THEN e ELSE list[j - 1]
                BY <1>2, InsertAfterProperties
            <4>. QED
                BY <2>2, <4>1
        <3>2. i + 1 \in 1..Len(new) /\ new[i + 1] = e
            BY <1>1, <3>1
        <3>3. ASSUME NEW j \in 1..Len(new), j # i + 1
              PROVE  \E m \in 1..Len(list) : new[j] = list[m]
            <4>1. CASE j <= i
                BY <4>1, <1>1, <3>1
            <4>2. CASE j > i + 1
                <5>1. j - 1 \in 1..Len(list) /\ new[j] = list[j - 1]
                    BY <4>2, <1>1, <3>1
                <5>. QED
                    BY <5>1
            <4>. QED
                BY <1>1, <3>1, <3>3, <4>1, <4>2
        <3>4. ASSUME NEW m \in 1..Len(list) PROVE \E j \in 1..Len(new) : new[j] = list[m]
            <4>1. CASE m <= i
                BY <4>1, <1>1, <3>1
            <4>2. CASE m > i
                <5>1. m + 1 \in 1..Len(new) /\ new[m + 1] = list[m]
                    BY <4>2, <1>1, <3>1
                <5>. QED
                    BY <5>1
            <4>. QED
                BY <1>1, <4>1, <4>2
        <3>. QED
            BY <3>2, <3>3, <3>4 DEF Kept
    <2>. QED
        BY <1>4, <2>1, <2>2
<1>6. CASE k = key
    <2>1. PICK j \in 1..Len(new) : new[j] = e
        BY <1>5
    <2>2. ListGet(new, new[j].key, none) = new[j].val
        BY <1>3, GetFound
    <2>. QED
        BY <1>2, <1>6, <2>1, <2>2 DEF new
<1>7. CASE k # key /\ \E m \in 1..Len(list) : list[m].key = k
    <2>1. PICK m \in 1..Len(list) : list[m].key = k
        BY <1>7
    <2>2. PICK j \in 1..Len(new) : new[j] = list[m]
        BY <1>5, <1>7, <2>1
    <2>3. ListGet(new, new[j].key, none) = new[j].val
        BY <1>3, GetFound
    <2>4. ListGet(list, list[m].key, none) = list[m].val
        BY GetFound
    <2>. QED
        BY <1>7, <2>1, <2>2, <2>3, <2>4 DEF new
<1>8. CASE k # key /\ \A m \in 1..Len(list) : list[m].key # k
    <2>1. \A j \in 1..Len(new) : new[j].key # k
        BY <1>2, <1>5, <1>8
    <2>2. ListGet(new, k, none) = none
        BY <1>3, <2>1, GetNotFound
    <2>3. ListGet(list, k, none) = none
        BY <1>8, GetNotFound
    <2>. QED
        BY <1>8, <2>2, <2>3 DEF new
<1>. QED
    BY <1>6, <1>7, <1>8

\* The list without its i-th node.
Unlinked(list, i) == SubSeq(list, 1, i - 1) \o SubSeq(list, i + 1, Len(list))

\* What is where after the i-th node is unlinked.
LEMMA UnlinkProperties ==
    ASSUME NEW S, NEW list \in Seq(S), NEW i \in 1..Len(list)
    PROVE  /\ Unlinked(list, i) \in Seq(S)
           /\ Len(Unlinked(list, i)) = Len(list) - 1
           /\ \A j \in 1..(Len(list) - 1) :
                 Unlinked(list, i)[j] = IF j < i THEN list[j] ELSE list[j + 1]
<1> DEFINE a == SubSeq(list, 1, i - 1)
           b == SubSeq(list, i + 1, Len(list))
<1>1. Len(list) \in Nat /\ \A j \in 1..Len(list) : list[j] \in S
    BY LenProperties
<1>2. a \in Seq(S) /\ Len(a) = i - 1 /\ \A j \in 1..(i - 1) : a[j] = list[j]
    <2>1. \A j \in 1..(i - 1) : list[j] \in S
        BY <1>1
    <2>2. i - 1 \in Int /\ 1 \in Int
        BY <1>1
    <2>3. /\ a \in Seq(S)
          /\ Len(a) = IF 1 <= i - 1 THEN (i - 1) - 1 + 1 ELSE 0
          /\ \A j \in 1..((i - 1) - 1 + 1) : a[j] = list[1 + j - 1]
        BY <2>1, <2>2, SubSeqProperties
    <2>. QED
        BY <1>1, <2>3
<1>3. /\ b \in Seq(S)
      /\ Len(b) = Len(list) - i
      /\ \A j \in 1..(Len(list) - i) : b[j] = list[i + j]
    <2>1. \A j \in (i + 1)..Len(list) : list[j] \in S
        BY <1>1
    <2>2. i + 1 \in Int /\ Len(list) \in Int
        BY <1>1
    <2>3. /\ b \in Seq(S)
          /\ Len(b) = IF i + 1 <= Len(list) THEN Len(list) - (i + 1) + 1 ELSE 0
          /\ \A j \in 1..(Len(list) - (i + 1) + 1) : b[j] = list[(i + 1) + j - 1]
        BY <2>1, <2>2, SubSeqProperties
    <2>. QED
        BY <1>1, <2>3
<1>4. Unlinked(list, i) = a \o b
    BY DEF Unlinked
<1> HIDE DEF a, b
<1>5. /\ a \o b \in Seq(S)
      /\ Len(a \o b) = Len(a) + Len(b)
      /\ \A j \in 1..(Len(a) + Len(b)) :
            (a \o b)[j] = IF j <= Len(a) THEN a[j] ELSE b[j - Len(a)]
    BY <1>2, <1>3, ConcatProperties
<1>6. Len(a) + Len(b) = Len(list) - 1
    BY <1>1, <1>2, <1>3
<1>7. ASSUME NEW j \in 1..(Len(list) - 1)
      PROVE  Unlinked(list, i)[j] = IF j < i THEN list[j] ELSE list[j + 1]
    <2>1. CASE j < i
        BY <2>1, <1>1, <1>2, <1>4, <1>5, <1>6
    <2>2. CASE j >= i
        <3>1. Unlinked(list, i)[j] = b[j - (i - 1)]
            BY <2>2, <1>1, <1>2, <1>4, <1>5, <1>6
        <3>2. j - (i - 1) \in 1..(Len(list) - i) /\ i + (j - (i - 1)) = j + 1
            BY <2>2, <1>1
        <3>3. b[j - (i - 1)] = list[i + (j - (i - 1))]
            BY <3>2, <1>3
        <3>. QED
            BY <2>2, <3>1, <3>2, <3>3
    <2>. QED
        BY <1>1, <2>1, <2>2
<1>. QED
    BY <1>4, <1>5, <1>6, <1>7

\* leaf_list::delete_key unlinks the one node that holds key.
LEMMA DeleteUnlinks ==
    ASSUME NEW V, NEW list \in Seq(Entry(V)), Sorted(list), NEW i \in 1..Len(list)
    PROVE  /\ ListDelete(list, list[i].key) \in Seq(Entry(V))
           /\ Len(ListDelete(list, list[i].key)) = Len(list) - 1
           /\ \A j \in 1..(Len(list) - 1) :
                 ListDelete(list, list[i].key)[j] = IF j < i THEN list[j] ELSE list[j + 1]
<1> DEFINE new == ListDelete(list, list[i].key)
<1>1. new = Unlinked(list, i)
    BY FirstHitIsOnly DEF ListDelete, Unlinked
<1> HIDE DEF new
<1>2. /\ new \in Seq(Entry(V))
      /\ Len(new) = Len(list) - 1
      /\ \A j \in 1..(Len(list) - 1) : new[j] = IF j < i THEN list[j] ELSE list[j + 1]
    BY <1>1, UnlinkProperties
<1>. QED
    BY <1>2 DEF new

\* leaf_list::delete_key of a key that the list holds keeps the others ascending.
THEOREM DeleteKeepsSorted ==
    ASSUME NEW V, NEW list \in Seq(Entry(V)), Sorted(list),
           NEW key \in Int, Hits(list, key) # {}
    PROVE  ListDelete(list, key) \in Seq(Entry(V)) /\ Sorted(ListDelete(list, key))
<1> DEFINE new == ListDelete(list, key)
<1>1. PICK i \in 1..Len(list) : list[i].key = key
    BY DEF Hits
<1>2. Len(list) \in Nat
    BY EntriesTyped
<1>3. /\ new \in Seq(Entry(V))
      /\ Len(new) = Len(list) - 1
      /\ \A j \in 1..(Len(list) - 1) : new[j] = IF j < i THEN list[j] ELSE list[j + 1]
    BY <1>1, DeleteUnlinks
<1> HIDE DEF new
<1>4. ASSUME NEW j \in 1..Len(new), NEW k \in 1..Len(new), j < k
      PROVE  new[j].key < new[k].key
    <2>1. \A a, b \in 1..Len(list) : a < b => list[a].key < list[b].key
        BY DEF Sorted
    <2>2. PICK a \in 1..Len(list) : new[j] = list[a] /\ a = IF j < i THEN j ELSE j + 1
        BY <1>2, <1>3
    <2>3. PICK b \in 1..Len(list) : new[k] = list[b] /\ b = IF k < i THEN k ELSE k + 1
        BY <1>2, <1>3
    <2>4. a < b
        BY <1>2, <1>3, <1>4, <2>2, <2>3
    <2>. QED
        BY <2>1, <2>2, <2>3, <2>4
<1>5. Sorted(new)
    BY <1>4 DEF Sorted
<1>. QED
    BY <1>3, <1>5 DEF new

\* After leaf_list::delete_key(key) get_val_ptr no longer finds key, and finds under
\* every other key what it found before.
THEOREM GetAfterDelete ==
    ASSUME NEW V, NEW none, NEW list \in Seq(Entry(V)), Sorted(list),
           NEW key \in Int, Hits(list, key) # {}, NEW k \in Int
    PROVE  ListGet(ListDelete(list, key), k, none) =
               IF k = key THEN none ELSE ListGet(list, k, none)
<1> DEFINE new == ListDelete(list, key)
<1>1. PICK i \in 1..Len(list) : list[i].key = key
    BY DEF Hits
<1>2. Len(list) \in Nat
    BY EntriesTyped
<1>3. new \in Seq(Entry(V)) /\ Sorted(new)
    BY DeleteKeepsSorted
<1>4. /\ Len(new) = Len(list) - 1
      /\ \A j \in 1..(Len(list) - 1) : new[j] = IF j < i THEN list[j] ELSE list[j + 1]
    BY <1>1, DeleteUnlinks
<1>5. \A m \in 1..Len(list) : list[m].key = key => m = i
    <2>1. Hits(list, list[i].key) = {i}
        BY FirstHitIsOnly
    <2>. QED
        BY <1>1, <2>1 DEF Hits
<1> HIDE DEF new
<1>6. ASSUME NEW j \in 1..Len(new)
      PROVE  \E m \in 1..Len(list) : m # i /\ new[j] = list[m]
    <2>1. CASE j < i
        BY <2>1, <1>2, <1>4
    <2>2. CASE j >= i
        <3>1. j + 1 \in 1..Len(list) /\ j + 1 # i /\ new[j] = list[j + 1]
            BY <2>2, <1>2, <1>4
        <3>. QED
            BY <3>1
    <2>. QED
        BY <1>2, <1>4, <2>1, <2>2
<1>7. ASSUME NEW m \in 1..Len(list), m # i
      PROVE  \E j \in 1..Len(new) : new[j] = list[m]
    <2>1. CASE m < i
        BY <2>1, <1>2, <1>4
    <2>2. CASE m > i
        <3>1. m - 1 \in 1..Len(new) /\ new[m - 1] = list[m]
            BY <2>2, <1>2, <1>4
        <3>. QED
            BY <3>1
    <2>. QED
        BY <1>2, <1>7, <2>1, <2>2
<1>8. CASE k = key
    <2>1. \A j \in 1..Len(new) : new[j].key # k
        BY <1>5, <1>6, <1>8
    <2>2. ListGet(new, k, none) = none
        BY <1>3, <2>1, GetNotFound
    <2>. QED
        BY <1>8, <2>2 DEF new
<1>9. CASE k # key /\ \E m \in 1..Len(list) : list[m].key = k
    <2>1. PICK m \in 1..Len(list) : list[m].key = k
        BY <1>9
    <2>2. PICK j \in 1..Len(new) : new[j] = list[m]
        BY <1>1, <1>7, <1>9, <2>1
    <2>3. ListGet(new, new[j].key, none) = new[j].val
        BY <1>3, GetFound
    <2>4. ListGet(list, list[m].key, none) = list[m].val
        BY GetFound
    <2>. QED
        BY <1>9, <2>1, <2>2, <2>3, <2>4 DEF new
<1>10. CASE k # key /\ \A m \in 1..Len(list) : list[m].key # k
    <2>1. \A j \in 1..Len(new) : new[j].key # k
        BY <1>6, <1>10
    <2>2. ListGet(new, k, none) = none
        BY <1>3, <2>1, GetNotFound
    <2>3. ListGet(list, k, none) = none
        BY <1>10, GetNotFound
    <2>. QED
        BY <1>10, <2>2, <2>3 DEF new
<1>. QED
    BY <1>8, <1>9, <1>10
==============================================================================
