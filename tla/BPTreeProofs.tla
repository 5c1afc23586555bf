---------------------------- MODULE BPTreeProofs -----------------------------
(***************************************************************************)
(* bpt::tree is a dictionary, for get and for iterate, under any sets and   *)
(* such deletes as unlink no child of a node (SparingSpec), if the size of  *)
(* a new leaf is zero (Zeroed): for every set of integer keys, every order  *)
(* from 3 on and any number of calls.  Spec itself is of this kind when its *)
(* caller never deletes (SetOnly; the server does not), and a delete is     *)
(* when its leaf holds another entry (Roomy).                               *)
(*                                                                         *)
(* The heaps that Insert, Split and LeafInsert make are those of which      *)
(* BPTreeShape speaks; Climb follows a split up the path, one Unwind after  *)
(* the other, ShrinkIs and RoomyIs follow a delete, one Prune after the     *)
(* other, and TreeInv is the invariant that a call starts from.             *)
(***************************************************************************)
EXTENDS BPTreeShape

------------------------------------------------------------------------------
(* The heaps that set makes.                                                *)

\* A node and a cell of a heap with N nodes and C cells.
GoodNode(v, N, C) ==
    v \in NodeType /\ v.next \in 0..N /\ v.lesser \in 0..N /\ v.first \in 0..C
GoodCell(v, N, C) ==
    v \in CellType /\ v.next \in 0..C /\ v.child \in 1..N /\ v.live = TRUE

\* The parts of a heap, also as parts of a larger one.
LEMMA HeapParts ==
  ASSUME NEW h, HeapTyped(h)
  PROVE  /\ h.node \in Seq(NodeType) /\ Len(h.node) \in Nat
         /\ h.cell \in Seq(CellType) /\ Len(h.cell) \in Nat
         /\ h = [node |-> h.node, cell |-> h.cell]
         /\ \A N, C \in Nat : N >= Len(h.node) /\ C >= Len(h.cell) =>
               /\ \A n \in 1..Len(h.node) : GoodNode(h.node[n], N, C)
               /\ \A c \in 1..Len(h.cell) : GoodCell(h.cell[c], N, C)
<1>1. h.node \in Seq(NodeType) /\ h.cell \in Seq(CellType)
  BY DEF HeapTyped
<1>2. h = [node |-> h.node, cell |-> h.cell]
  BY DEF HeapTyped
<1>3. /\ Len(h.node) \in Nat /\ \A n \in 1..Len(h.node) : h.node[n] \in NodeType
      /\ Len(h.cell) \in Nat /\ \A c \in 1..Len(h.cell) : h.cell[c] \in CellType
  <2> HIDE DEF NodeType, CellType
  <2> QED
    BY <1>1, LenProperties, ElementOfSeq
<1>4. ASSUME NEW N \in Nat, NEW C \in Nat, N >= Len(h.node), C >= Len(h.cell),
             NEW n \in 1..Len(h.node)
      PROVE  GoodNode(h.node[n], N, C)
  <2>1. /\ h.node[n].next \in 0..Len(h.node) /\ h.node[n].lesser \in 0..Len(h.node)
        /\ h.node[n].first \in 0..Len(h.cell)
    BY DEF HeapTyped, Nodes
  <2>2. h.node[n].next \in 0..N /\ h.node[n].lesser \in 0..N /\ h.node[n].first \in 0..C
    BY <1>3, <1>4, <2>1
  <2> QED
    BY <1>3, <2>2 DEF GoodNode
<1>5. ASSUME NEW N \in Nat, NEW C \in Nat, N >= Len(h.node), C >= Len(h.cell),
             NEW c \in 1..Len(h.cell)
      PROVE  GoodCell(h.cell[c], N, C)
  <2>1. /\ h.cell[c].next \in 0..Len(h.cell) /\ h.cell[c].child \in 1..Len(h.node)
        /\ h.cell[c].live = TRUE
    BY DEF HeapTyped, Nodes, Cells
  <2>2. h.cell[c].next \in 0..C /\ h.cell[c].child \in 1..N
    BY <1>3, <1>5, <2>1
  <2> QED
    BY <1>3, <2>1, <2>2 DEF GoodCell
<1> QED
  BY <1>1, <1>2, <1>3, <1>4, <1>5

\* A heap is made of such parts.
LEMMA MakeHeap ==
  ASSUME NEW k, NEW node \in Seq(NodeType), NEW cell \in Seq(CellType),
         k = [node |-> node, cell |-> cell],
         \A n \in 1..Len(node) : GoodNode(node[n], Len(node), Len(cell)),
         \A c \in 1..Len(cell) : GoodCell(cell[c], Len(node), Len(cell))
  PROVE  HeapTyped(k)
<1>1. k.node = node /\ k.cell = cell
  OBVIOUS
<1>2. k \in [node : Seq(NodeType), cell : Seq(CellType)]
  OBVIOUS
<1>3. /\ \A n \in Nodes(k) : /\ k.node[n].next \in 0..Len(k.node)
                             /\ k.node[n].lesser \in 0..Len(k.node)
                             /\ k.node[n].first \in 0..Len(k.cell)
      /\ \A c \in Cells(k) : /\ k.cell[c].next \in 0..Len(k.cell)
                             /\ k.cell[c].child \in Nodes(k)
                             /\ k.cell[c].live = TRUE
  BY <1>1 DEF GoodNode, GoodCell, Nodes, Cells
<1> QED
  BY <1>2, <1>3 DEF HeapTyped

\* One element changed.
Changed(q, i, e, t) ==
    /\ Len(t) = Len(q) /\ t[i] = e /\ \A j \in 1..Len(q) : j # i => t[j] = q[j]

\* As EXCEPT changes it.
LEMMA ExceptIs ==
  ASSUME NEW S, NEW q \in Seq(S), NEW i \in 1..Len(q), NEW e \in S
  PROVE  [q EXCEPT ![i] = e] \in Seq(S) /\ Changed(q, i, e, [q EXCEPT ![i] = e])
BY ExceptSeq DEF Changed

\* A size that is below the wrap can be counted up.
LEMMA CountUp ==
  ASSUME NEW x \in Nat, x <= max_size
  PROVE  (x + 1) % SizeMod = x + 1 /\ x + 1 \in 0..SizeMod - 1
<1>1. SizeMod \in Nat /\ ORDER \in Nat /\ SizeMod > ORDER /\ x <= ORDER - 1
  BY TreeAssumption DEF max_size
<1>2. PICK m, y \in Nat : m = SizeMod /\ y = x + 1
  BY <1>1
<1>3. y < m /\ m > 0
  BY <1>1, <1>2
<1>4. y % m = y
  BY ONLY <1>2, <1>3
<1> QED
  BY <1>1, <1>2, <1>4

\* insert_leaf and insert_internal put a cell for K into its slot.
LEMMA InsertIs ==
  ASSUME NEW h, HeapTyped(h), NEW owner, NEW p \in Nodes(h), NEW s \in Seq(Nat), NEW R,
         CellsOf(h, owner, p, s, R), h.node[p].size <= max_size, ~h.node[p].leaf,
         NEW up \in Nodes(h), NEW K \in R, K \in Key, K = PrimaryKey(h, up),
         NEW j \in 0..Len(s), InSlot(h, s, K, j),
         NEW new \in Nodes(h),
         new = IF h.node[up].leaf \/ j = 0 THEN up ELSE h.cell[h.node[up].first].child
  PROVE  /\ HeapTyped(Insert(h, p, up))
         /\ Inserted(h, Insert(h, p, up), p, s, j, Len(h.cell) + 1, K, new)
<1> DEFINE N == Len(h.node)
           C == Len(h.cell)
           c == C + 1
           z == (h.node[p].size + 1) % SizeMod
           sized == [h.node EXCEPT ![p].size = (@ + 1) % SizeMod]
           v == [h.node[p] EXCEPT !.size = z]
<1>1. Basics(h)
  BY HeapBasics
<1>2. /\ h.node \in Seq(NodeType) /\ N \in Nat /\ h.cell \in Seq(CellType) /\ C \in Nat
      /\ h = [node |-> h.node, cell |-> h.cell]
      /\ \A M, D \in Nat : M >= N /\ D >= C =>
            /\ \A n \in 1..N : GoodNode(h.node[n], M, D)
            /\ \A d \in 1..C : GoodCell(h.cell[d], M, D)
  BY HeapParts
<1>3. /\ \A n \in 1..N : GoodNode(h.node[n], N, c)
      /\ \A d \in 1..C : GoodCell(h.cell[d], N, c)
      /\ c \in Nat /\ p \in 1..N /\ up \in 1..N /\ new \in 1..N
  <2>1. c \in Nat /\ N >= N /\ c >= C
    BY <1>2
  <2> QED
    BY <1>2, <2>1 DEF Nodes
<1>4. CellsTyped(h, s) /\ K \in Int
  BY <1>1, OwnCells DEF Basics
<1>5. GoesBefore(h, p, K) <=> j = 0
  BY <1>1, <1>4, ChildFinds
<1>6. j # 0 => get_child_ln_ge(h, p, K) = s[j] /\ j \in 1..Len(s) /\ s[j] \in Cells(h)
  <2>1. j # 0 => j \in 1..Len(s)
    BY <1>4 DEF CellsTyped
  <2>2. j # 0 => get_child_ln_ge(h, p, K) = s[j]
    BY <1>1, <1>4, <2>1, WalkFinds
  <2> QED
    BY <1>4, <2>1, <2>2 DEF CellsTyped
<1>7. z = h.node[p].size + 1 /\ z \in 0..SizeMod - 1
  <2>1. h.node[p].size \in Nat
    BY <1>1, TreeAssumption DEF Basics
  <2> QED
    BY <2>1, CountUp
<1>8. /\ v \in NodeType /\ v.size = z /\ v.leaf = h.node[p].leaf /\ v.next = h.node[p].next
      /\ v.lesser = h.node[p].lesser /\ v.first = h.node[p].first
      /\ GoodNode(v, N, c)
  <2>1. h.node[p] \in NodeType
    BY <1>3 DEF GoodNode
  <2>2. /\ v \in NodeType /\ v.size = z /\ v.leaf = h.node[p].leaf /\ v.next = h.node[p].next
        /\ v.lesser = h.node[p].lesser /\ v.first = h.node[p].first
    <3> HIDE DEF z
    <3> QED
      BY <1>7, <2>1 DEF NodeType
  <2> QED
    BY <1>3, <2>2 DEF GoodNode
<1>9. sized \in Seq(NodeType) /\ Changed(h.node, p, v, sized)
  <2>1. sized = [h.node EXCEPT ![p] = v]
    OBVIOUS
  <2> HIDE DEF sized, v
  <2>2. PICK S : S = NodeType
    OBVIOUS
  <2>3. h.node \in Seq(S) /\ v \in S
    BY <1>2, <1>8, <2>2
  <2>4. sized \in Seq(S) /\ Changed(h.node, p, v, sized)
    BY <1>3, <2>1, <2>3, ExceptIs
  <2> QED
    BY <2>2, <2>4
<1>10. CASE j = 0
  <2> DEFINE node == [sized EXCEPT ![p].first = c]
             e == Cell(K, up, h.node[p].first)
             cell == Append(h.cell, e)
             w == [v EXCEPT !.first = c]
  <2>1. Insert(h, p, up) = [node |-> node, cell |-> cell] /\ new = up
    BY <1>5, <1>10 DEF Insert, Fresh
  <2>2. /\ w \in NodeType /\ w.size = z /\ w.leaf = h.node[p].leaf
        /\ w.lesser = h.node[p].lesser /\ w.first = c /\ GoodNode(w, N, c)
    <3> HIDE DEF v, z, C, N
    <3>1. /\ w \in NodeType /\ w.size = v.size /\ w.leaf = v.leaf /\ w.next = v.next
          /\ w.lesser = v.lesser /\ w.first = c
      BY <1>3, <1>8 DEF NodeType
    <3>2. c \in 0..c
      BY <1>3
    <3> QED
      BY <1>8, <3>1, <3>2 DEF GoodNode
  <2>3. node \in Seq(NodeType) /\ Changed(sized, p, w, node)
    <3>1. sized[p] = v /\ Len(sized) = N
      BY <1>9 DEF Changed
    <3>2. node = [sized EXCEPT ![p] = w]
      <4> HIDE DEF sized, v
      <4> QED
        BY <3>1
    <3> HIDE DEF sized, v, w, node
    <3>3. PICK S : S = NodeType
      OBVIOUS
    <3>4. sized \in Seq(S) /\ w \in S /\ p \in 1..Len(sized)
      BY <1>3, <1>9, <2>2, <3>1, <3>3
    <3>5. node \in Seq(S) /\ Changed(sized, p, w, node)
      BY <3>2, <3>4, ExceptIs
    <3> QED
      BY <3>3, <3>5
  <2>4. /\ e.key = K /\ e.child = up /\ e.next = h.node[p].first /\ e \in CellType
        /\ GoodCell(e, N, c)
    <3>1. h.node[p].first \in 0..c /\ h.node[p].first \in Nat /\ up \in Nat /\ TRUE \in BOOLEAN
      BY <1>3 DEF GoodNode
    <3>2. e.key = K /\ e.child = up /\ e.next = h.node[p].first /\ e \in CellType /\ e.live = TRUE
      BY <3>1 DEF Cell, CellType
    <3> QED
      BY <1>3, <3>1, <3>2, Zenon DEF GoodCell
  <2> HIDE DEF e, w, v, sized, node
  <2>5. /\ cell \in Seq(CellType) /\ Len(cell) = c /\ cell[c] = e
        /\ \A d \in 1..C : cell[d] = h.cell[d]
    <3> HIDE DEF CellType
    <3> QED
      BY <1>2, <2>4, AppendProperties
  <2> HIDE DEF cell
  <2>6. /\ Len(node) = N /\ node[p] = w /\ \A n \in 1..N : n # p => node[n] = h.node[n]
    BY <1>9, <2>3 DEF Changed
  <2>7. \A d \in 1..c : d = c \/ d \in 1..C
    BY <1>2
  <2>8. HeapTyped([node |-> node, cell |-> cell])
    <3>1. \A n \in 1..Len(node) : GoodNode(node[n], Len(node), Len(cell))
      BY <1>3, <2>2, <2>5, <2>6
    <3>2. \A d \in 1..Len(cell) : GoodCell(cell[d], Len(node), Len(cell))
      BY <1>3, <2>4, <2>5, <2>6, <2>7
    <3> QED
      BY <2>3, <2>5, <3>1, <3>2, MakeHeap
  <2>9. PICK k : k = [node |-> node, cell |-> cell]
    OBVIOUS
  <2>10. k.node = node /\ k.cell = cell
    BY <2>9
  <2>11. Inserted(h, k, p, s, j, c, K, new)
    BY <1>7, <1>10, <2>1, <2>2, <2>4, <2>5, <2>6, <2>10 DEF Inserted, Nodes, Cells
  <2> QED
    BY <2>1, <2>8, <2>9, <2>11
<1>11. CASE j # 0
  <2> DEFINE at == s[j]
             u == [h.cell[at] EXCEPT !.next = c]
             linked == [h.cell EXCEPT ![at].next = c]
             e == Cell(K, new, h.cell[at].next)
             cell == Append(linked, e)
  <2>0. at \in 1..C /\ get_child_ln_ge(h, p, K) = at
    BY <1>6, <1>11 DEF Cells
  <2>1. Insert(h, p, up) = [node |-> sized, cell |-> cell]
    BY <1>5, <1>11, <2>0 DEF Insert, Fresh
  <2>2. /\ u \in CellType /\ u.key = h.cell[at].key /\ u.child = h.cell[at].child /\ u.next = c
        /\ GoodCell(u, N, c)
    <3>1. h.cell[at] \in CellType /\ h.cell[at].child \in 1..N /\ h.cell[at].live = TRUE
      BY <1>3, <2>0 DEF GoodCell
    <3>2. /\ u \in CellType /\ u.key = h.cell[at].key /\ u.child = h.cell[at].child /\ u.next = c
          /\ u.live = TRUE
      BY <1>3, <3>1 DEF CellType
    <3>3. c \in 0..c
      BY <1>3
    <3> QED
      BY <3>1, <3>2, <3>3 DEF GoodCell
  <2>3. linked \in Seq(CellType) /\ Changed(h.cell, at, u, linked)
    <3>1. linked = [h.cell EXCEPT ![at] = u]
      OBVIOUS
    <3> HIDE DEF linked, u, at
    <3>2. PICK S : S = CellType
      OBVIOUS
    <3>3. h.cell \in Seq(S) /\ u \in S
      BY <1>2, <2>2, <3>2
    <3>4. linked \in Seq(S) /\ Changed(h.cell, at, u, linked)
      BY <2>0, <3>1, <3>3, ExceptIs
    <3> QED
      BY <3>2, <3>4
  <2>4. /\ e.key = K /\ e.child = new /\ e.next = h.cell[at].next /\ e \in CellType
        /\ GoodCell(e, N, c)
    <3>1. h.cell[at].next \in 0..c /\ h.cell[at].next \in Nat /\ new \in Nat /\ TRUE \in BOOLEAN
      <4>1. h.cell[at].next \in 0..c
        BY <1>3, <2>0 DEF GoodCell
      <4>2. new \in Nat
        BY <1>2, <1>3
      <4> QED
        BY <1>3, <4>1, <4>2
    <3>2. e.key = K /\ e.child = new /\ e.next = h.cell[at].next /\ e \in CellType /\ e.live = TRUE
      BY <3>1 DEF Cell, CellType
    <3> QED
      BY <1>3, <3>1, <3>2, Zenon DEF GoodCell
  <2> HIDE DEF e, u, linked, sized, v
  <2>5. /\ cell \in Seq(CellType) /\ Len(cell) = c /\ cell[c] = e /\ cell[at] = u
        /\ \A d \in 1..C : d # at => cell[d] = h.cell[d]
    <3>1. Len(linked) = C /\ linked[at] = u /\ \A d \in 1..C : d # at => linked[d] = h.cell[d]
      BY <2>3 DEF Changed
    <3>2. /\ cell \in Seq(CellType) /\ Len(cell) = Len(linked) + 1 /\ cell[Len(linked) + 1] = e
          /\ \A d \in 1..Len(linked) : cell[d] = linked[d]
      <4> HIDE DEF CellType
      <4> QED
        BY <2>3, <2>4, AppendProperties
    <3> HIDE DEF cell
    <3> QED
      BY <2>0, <3>1, <3>2
  <2> HIDE DEF cell
  <2>6. /\ Len(sized) = N /\ sized[p] = v /\ \A n \in 1..N : n # p => sized[n] = h.node[n]
    BY <1>9 DEF Changed
  <2>7. \A d \in 1..c : d = c \/ d = at \/ (d \in 1..C /\ d # at)
    BY <1>2
  <2>8. HeapTyped([node |-> sized, cell |-> cell])
    <3>1. \A n \in 1..Len(sized) : GoodNode(sized[n], Len(sized), Len(cell))
      BY <1>3, <1>8, <2>5, <2>6
    <3>2. \A d \in 1..Len(cell) : GoodCell(cell[d], Len(sized), Len(cell))
      BY <1>3, <2>2, <2>4, <2>5, <2>6, <2>7
    <3> QED
      BY <1>9, <2>5, <3>1, <3>2, MakeHeap
  <2>9. PICK k : k = [node |-> sized, cell |-> cell]
    OBVIOUS
  <2>10. k.node = sized /\ k.cell = cell
    BY <2>9
  <2>11. Inserted(h, k, p, s, j, c, K, new)
    <3>1. \A d \in Cells(h) : /\ k.cell[d].key = h.cell[d].key /\ k.cell[d].child = h.cell[d].child
                              /\ d # s[j] => k.cell[d] = h.cell[d]
      BY <2>2, <2>5, <2>10 DEF Cells
    <3> QED
      BY <1>7, <1>8, <1>11, <2>2, <2>4, <2>5, <2>6, <2>10, <3>1 DEF Inserted, Nodes
  <2> QED
    BY <2>1, <2>8, <2>9, <2>11
<1> QED
  BY <1>10, <1>11

\* The list that starts with the own cells of a node.
LEMMA ChainAlong ==
  ASSUME NEW h, Basics(h), NEW owner, NEW p, NEW s \in Seq(Nat), NEW R, CellsOf(h, owner, p, s, R)
  PROVE  /\ Len(Chain(h.cell, h.node[p].first)) \in Nat
         /\ Len(Chain(h.cell, h.node[p].first)) >= Len(s)
         /\ \A i \in 1..Len(s) : Chain(h.cell, h.node[p].first)[i] = s[i]
         /\ \A i \in 1..Len(Chain(h.cell, h.node[p].first)) :
                Chain(h.cell, h.node[p].first)[i] \in Cells(h)
<1>1. CellsTyped(h, s)
  BY OwnCells
<1>2. PICK P, C : C = Len(h.cell) /\ P = 1..C
  OBVIOUS
<1>3. PICK next : next = [x \in 1..Len(h.cell) |-> h.cell[x].next]
  OBVIOUS
<1>4. C \in Nat /\ next \in [1..C -> 0..C] /\ \A x \in 1..C : next[x] = h.cell[x].next
  BY <1>2, <1>3 DEF Basics, Cells
<1>5. s \in Seq(P) /\ Len(s) \in Nat /\ Len(s) > 0 /\ Distinct(s) /\ \A i \in 1..Len(s) : s[i] \in 1..C
  BY <1>1, <1>2 DEF CellsTyped, Cells
<1>6. Linked(next, s)
  <2> SUFFICES ASSUME NEW i \in 1..Len(s) - 1 PROVE next[s[i]] = s[i + 1]
    BY DEF Linked
  <2>1. i \in 1..Len(s)
    BY <1>5
  <2>2. h.cell[s[i]].next = s[i + 1]
    BY DEF CellsOf
  <2> QED
    BY <1>4, <1>5, <2>1, <2>2
<1>7. GoesAlong(next, P, s, Trail(next, s[1]))
  BY <1>2, <1>4, <1>5, <1>6, TrailAlong
<1>8. Chain(h.cell, h.node[p].first) = Trail(next, s[1])
  BY <1>3 DEF Chain, CellsOf
<1>9. PICK t : t = Chain(h.cell, h.node[p].first)
  OBVIOUS
<1>10. t \in Seq(P) /\ Len(t) >= Len(s) /\ \A i \in 1..Len(s) : t[i] = s[i]
  BY <1>7, <1>8, <1>9 DEF GoesAlong
<1>11. Len(t) \in Nat /\ \A i \in 1..Len(t) : t[i] \in P
  BY <1>10, LenProperties, ElementOfSeq
<1> QED
  BY <1>2, <1>9, <1>10, <1>11 DEF Cells

\* bpt_internal::split finds its middle cell and takes the list apart there.
LEMMA SplitIs ==
  ASSUME NEW h, HeapTyped(h), NEW owner, NEW p \in Nodes(h), NEW s \in Seq(Nat), NEW R,
         CellsOf(h, owner, p, s, R), h.node[p].size = ORDER, ~h.node[p].leaf
  PROVE  \E m \in 1..Len(s) - 2 :
            /\ m <= max_size /\ Len(s) - m - 1 <= max_size
            /\ CanSplit(h, p)
            /\ HeapTyped(Split(h, p))
            /\ Halved(h, Split(h, p), p, s, m, Len(h.node) + 1)
<1> DEFINE N == Len(h.node)
           C == Len(h.cell)
           r == N + 1
           m == ORDER \div 2
           mid == s[m + 1]
           z == ORDER - m - 1
           right == InternalNode(z, h.cell[mid].child, h.cell[mid].next)
           top == InternalNode(1, p, mid)
           v == [h.node[p] EXCEPT !.size = m]
           shrunk == [h.node EXCEPT ![p].size = LeftSize(@)]
           u == [h.cell[mid] EXCEPT !.next = Null, !.child = r]
           cell == [h.cell EXCEPT ![mid].next = Null, ![mid].child = r]
           node == shrunk \o <<right, top>>
<1>1. Basics(h) /\ CellsTyped(h, s)
  BY HeapBasics, OwnCells
<1>2. ORDER \in Nat /\ ORDER >= 3 /\ SizeMod \in Nat /\ SizeMod > ORDER /\ Len(s) = ORDER
  BY TreeAssumption DEF CellsOf
<1>3. /\ m \in 1..Len(s) - 2 /\ m <= max_size /\ z <= max_size /\ z = Len(s) - m - 1
      /\ m \in 0..SizeMod - 1 /\ z \in 0..SizeMod - 1 /\ 1 \in 0..SizeMod - 1
      /\ m + 1 \in 1..Len(s) /\ m \in Nat /\ m < Len(s)
  BY <1>2 DEF max_size
<1>4. /\ Len(Chain(h.cell, h.node[p].first)) \in Nat
      /\ Len(Chain(h.cell, h.node[p].first)) >= Len(s)
      /\ \A i \in 1..Len(s) : Chain(h.cell, h.node[p].first)[i] = s[i]
  BY <1>1, ChainAlong
<1>5. CanSplit(h, p) /\ Chain(h.cell, h.node[p].first)[m + 1] = mid
  BY <1>2, <1>3, <1>4 DEF CanSplit
<1>6. /\ h.node \in Seq(NodeType) /\ N \in Nat /\ h.cell \in Seq(CellType) /\ C \in Nat
      /\ \A M, D \in Nat : M >= N /\ D >= C =>
            /\ \A n \in 1..N : GoodNode(h.node[n], M, D)
            /\ \A d \in 1..C : GoodCell(h.cell[d], M, D)
  BY HeapParts
<1>7. /\ \A n \in 1..N : GoodNode(h.node[n], N + 2, C)
      /\ \A d \in 1..C : GoodCell(h.cell[d], N + 2, C)
      /\ N + 2 \in Nat /\ p \in 1..N /\ mid \in 1..C /\ r \in 1..N + 2 /\ r \in Nat
  <2>1. N + 2 \in Nat /\ N + 2 >= N /\ C >= C /\ r \in 1..N + 2 /\ r \in Nat
    BY <1>6
  <2>2. p \in 1..N /\ mid \in 1..C
    BY <1>1, <1>3 DEF Nodes, Cells, CellsTyped
  <2> QED
    BY <1>6, <2>1, <2>2
<1>8. /\ h.cell[mid] \in CellType /\ h.cell[mid].child \in 1..N /\ h.cell[mid].next \in 0..C
      /\ h.cell[mid].live = TRUE
  BY <1>1, <1>7 DEF GoodCell, Basics, Nodes, Cells
<1> HIDE DEF m, mid, z, r
<1>9. /\ right.size = z /\ ~right.leaf /\ right.lesser = h.cell[mid].child
      /\ right.first = h.cell[mid].next /\ GoodNode(right, N + 2, C)
  <2>1. /\ h.cell[mid].child \in Nat /\ h.cell[mid].next \in Nat
        /\ h.cell[mid].child \in 0..N + 2 /\ 0 \in 0..N + 2 /\ 0 \in Nat
    BY <1>6, <1>8
  <2>2. <<>> \in Seq([key : Key, val : Val])
    BY EmptySeq
  <2>3. /\ right.size = z /\ ~right.leaf /\ right.lesser = h.cell[mid].child
        /\ right.first = h.cell[mid].next /\ right.next = 0
    BY DEF InternalNode, Null
  <2>4. right \in NodeType
    BY <1>3, <2>1, <2>2 DEF InternalNode, NodeType, Null
  <2> HIDE DEF right
  <2> QED
    BY <1>8, <2>1, <2>3, <2>4 DEF GoodNode
<1>10. /\ top.size = 1 /\ ~top.leaf /\ top.lesser = p /\ top.first = mid
       /\ GoodNode(top, N + 2, C)
  <2>1. p \in Nat /\ mid \in Nat /\ p \in 0..N + 2 /\ mid \in 0..C /\ 0 \in 0..N + 2 /\ 0 \in Nat
    BY <1>6, <1>7
  <2>2. <<>> \in Seq([key : Key, val : Val])
    BY EmptySeq
  <2>3. top.size = 1 /\ ~top.leaf /\ top.lesser = p /\ top.first = mid /\ top.next = 0
    BY DEF InternalNode, Null
  <2>4. top \in NodeType
    BY <1>3, <2>1, <2>2 DEF InternalNode, NodeType, Null
  <2> HIDE DEF top
  <2> QED
    BY <2>1, <2>3, <2>4 DEF GoodNode
<1>11. /\ v.size = m /\ v.leaf = h.node[p].leaf /\ v.lesser = h.node[p].lesser
       /\ v.first = h.node[p].first /\ v \in NodeType /\ GoodNode(v, N + 2, C)
  <2>1. h.node[p] \in NodeType
    BY <1>7 DEF GoodNode
  <2>2. /\ v.size = m /\ v.leaf = h.node[p].leaf /\ v.lesser = h.node[p].lesser
        /\ v.first = h.node[p].first /\ v.next = h.node[p].next /\ v \in NodeType
    BY <1>3, <2>1 DEF NodeType
  <2> HIDE DEF v
  <2> QED
    BY <1>7, <2>2 DEF GoodNode
<1>12. shrunk \in Seq(NodeType) /\ Changed(h.node, p, v, shrunk)
  <2>1. shrunk = [h.node EXCEPT ![p] = v]
    BY DEF LeftSize, m
  <2> HIDE DEF shrunk, v
  <2>2. PICK S : S = NodeType
    OBVIOUS
  <2>3. h.node \in Seq(S) /\ v \in S
    BY <1>6, <1>11, <2>2
  <2>4. shrunk \in Seq(S) /\ Changed(h.node, p, v, shrunk)
    BY <1>7, <2>1, <2>3, ExceptIs
  <2> QED
    BY <2>2, <2>4
<1>13. /\ u.key = h.cell[mid].key /\ u.next = 0 /\ u.child = r /\ u \in CellType
       /\ GoodCell(u, N + 2, C)
  <2>1. u.key = h.cell[mid].key /\ u.next = 0 /\ u.child = r /\ u \in CellType /\ u.live = TRUE
    BY <1>7, <1>8 DEF CellType, Null
  <2>2. 0 \in 0..C
    BY <1>6
  <2> HIDE DEF u
  <2> QED
    BY <1>7, <2>1, <2>2 DEF GoodCell
<1>14. cell \in Seq(CellType) /\ Changed(h.cell, mid, u, cell)
  <2>1. cell = [h.cell EXCEPT ![mid] = u]
    BY <1>6, <1>7
  <2> HIDE DEF cell, u
  <2>2. PICK S : S = CellType
    OBVIOUS
  <2>3. h.cell \in Seq(S) /\ u \in S
    BY <1>6, <1>13, <2>2
  <2>4. cell \in Seq(S) /\ Changed(h.cell, mid, u, cell)
    BY <1>7, <2>1, <2>3, ExceptIs
  <2> QED
    BY <2>2, <2>4
<1>15. Split(h, p) = [node |-> node, cell |-> cell]
  BY <1>5 DEF Split, RightSize, Fresh, m, z, r
<1> HIDE DEF right, top, v, u, shrunk, cell
<1>16. /\ node \in Seq(NodeType) /\ Len(node) = N + 2 /\ node[p] = v
       /\ \A n \in 1..N : n # p => node[n] = h.node[n]
       /\ node[N + 1] = right /\ node[N + 2] = top
  <2>1. Len(shrunk) = N /\ shrunk[p] = v /\ \A n \in 1..N : n # p => shrunk[n] = h.node[n]
    BY <1>12 DEF Changed
  <2>2. PICK S : S = NodeType
    OBVIOUS
  <2>3. shrunk \in Seq(S) /\ right \in S /\ top \in S
    BY <1>9, <1>10, <1>12, <2>2 DEF GoodNode
  <2>4. <<right, top>> \in Seq(S) /\ Len(<<right, top>>) = 2
        /\ <<right, top>>[1] = right /\ <<right, top>>[2] = top
    BY <2>3
  <2>5. PICK t : t = <<right, top>>
    OBVIOUS
  <2>6. /\ node \in Seq(S) /\ Len(node) = Len(shrunk) + Len(t)
        /\ \A i \in 1..Len(shrunk) + Len(t) :
              node[i] = IF i <= Len(shrunk) THEN shrunk[i] ELSE t[i - Len(shrunk)]
    BY <2>3, <2>4, <2>5, ConcatProperties
  <2>7. Len(t) = 2 /\ t[1] = right /\ t[2] = top
    BY <2>4, <2>5
  <2> HIDE DEF node
  <2>8. \A n \in 1..N : n \in 1..N + 2 /\ n <= N
    BY <1>6
  <2>9. N + 1 \in 1..N + 2 /\ ~(N + 1 <= N) /\ N + 1 - N = 1
        /\ N + 2 \in 1..N + 2 /\ ~(N + 2 <= N) /\ N + 2 - N = 2
    BY <1>6
  <2>10. \A i \in 1..N + 2 : node[i] = IF i <= N THEN shrunk[i] ELSE t[i - N]
    BY <2>1, <2>6, <2>7
  <2>11. node[N + 1] = right /\ node[N + 2] = top
    <3>1. PICK a, b : a = N + 1 /\ b = N + 2
      OBVIOUS
    <3>2. a \in 1..N + 2 /\ ~(a <= N) /\ a - N = 1 /\ b \in 1..N + 2 /\ ~(b <= N) /\ b - N = 2
      BY <2>9, <3>1
    <3>3. node[a] = t[a - N]
      BY <2>10, <3>2
    <3>4. node[b] = t[b - N]
      BY <2>10, <3>2
    <3> QED
      BY <2>7, <3>1, <3>2, <3>3, <3>4
  <2>12. \A n \in 1..N : node[n] = shrunk[n]
    BY <2>8, <2>10
  <2> QED
    BY <1>7, <2>1, <2>2, <2>6, <2>7, <2>11, <2>12
<1> HIDE DEF node
<1>17. /\ Len(cell) = C /\ cell[mid] = u /\ \A d \in 1..C : d # mid => cell[d] = h.cell[d]
  BY <1>14 DEF Changed
<1>18. \A n \in 1..N + 2 : n = N + 1 \/ n = N + 2 \/ n \in 1..N
  <2> HIDE DEF N
  <2>1. N \in Nat
    BY <1>6
  <2> QED
    BY ONLY <2>1
<1>19. HeapTyped([node |-> node, cell |-> cell])
  <2>1. \A n \in 1..Len(node) : GoodNode(node[n], Len(node), Len(cell))
    BY <1>7, <1>9, <1>10, <1>11, <1>16, <1>17, <1>18
  <2>2. \A d \in 1..Len(cell) : GoodCell(cell[d], Len(node), Len(cell))
    BY <1>7, <1>13, <1>16, <1>17
  <2> QED
    BY <1>14, <1>16, <2>1, <2>2, MakeHeap
<1>20. PICK k : k = [node |-> node, cell |-> cell]
  OBVIOUS
<1>21. k.node = node /\ k.cell = cell
  BY <1>20
<1>22. Halved(h, k, p, s, m, N + 1)
  <2>1. N + 2 = (N + 1) + 1 /\ r = N + 1
    BY <1>6 DEF r
  <2>2. \A d \in Cells(h) : k.cell[d].key = h.cell[d].key /\ (d # s[m + 1] => k.cell[d] = h.cell[d])
    BY <1>13, <1>17, <1>21 DEF Cells, mid
  <2>3. k.cell[s[m + 1]].next = 0 /\ k.cell[s[m + 1]].child = N + 1
    BY <1>13, <1>17, <1>21, <2>1 DEF mid
  <2>4. \A n \in Nodes(h) : n # p => k.node[n] = h.node[n]
    BY <1>16, <1>21 DEF Nodes
  <2>5. /\ ~k.node[p].leaf /\ k.node[p].size = m
        /\ k.node[p].lesser = h.node[p].lesser /\ k.node[p].first = h.node[p].first
    BY <1>11, <1>16, <1>21
  <2>6. /\ ~k.node[N + 1].leaf /\ k.node[N + 1].size = Len(s) - m - 1
        /\ k.node[N + 1].lesser = h.cell[s[m + 1]].child
        /\ k.node[N + 1].first = h.cell[s[m + 1]].next
    BY <1>3, <1>9, <1>16, <1>21 DEF mid
  <2>7. /\ ~k.node[(N + 1) + 1].leaf /\ k.node[(N + 1) + 1].size = 1
        /\ k.node[(N + 1) + 1].lesser = p /\ k.node[(N + 1) + 1].first = s[m + 1]
    BY <1>10, <1>16, <1>21, <2>1 DEF mid
  <2>8. Len(k.node) = (N + 1) + 1 /\ Len(k.cell) = Len(h.cell)
    BY <1>16, <1>17, <1>21, <2>1
  <2> QED
    BY <2>2, <2>3, <2>4, <2>5, <2>6, <2>7, <2>8 DEF Halved
<1> QED
  BY <1>3, <1>5, <1>15, <1>19, <1>20, <1>22

------------------------------------------------------------------------------
(* What a call leaves behind for its caller.                                *)

\* The node up that the call for ch hands up: the new leaf, or the new root above ch and
\* the node that took over a part of its keys.
Pending(h, f, ch, up) ==
    /\ up \in Nodes(h)
    /\ \E new : /\ Gap(h, f, ch, new, PrimaryKey(h, up))
                /\ IF h.node[ch].leaf THEN h.node[up].leaf /\ new = up
                   ELSE Crown(h, f, ch, up, new)

\* d is what the call for node ch returned.
Stage(d, root, f, ch) ==
    /\ d.crash = FALSE
    /\ Tree(d.h, root, f, 0)
    /\ IF d.up = 0 THEN Whole(d.h, f) ELSE Pending(d.h, f, ch, d.up)

\* t is the list that leaf::insert makes of list, in a leaf with the keys R.
ListAfter(list, key, val, R, t) ==
    /\ Holdable(t, R) /\ t \in Seq([key : Key, val : Val])
    /\ SizeAfterSet(list, Len(list), key) = Len(t) /\ Len(t) <= ORDER
    /\ \A x \in Key : ListGet(t, x, NoValue) = IF x = key THEN val ELSE ListGet(list, x, NoValue)

\* It is what ListSet gives.
LEMMA LeafListAfter ==
  ASSUME NEW R, R \subseteq Key, NEW list \in Seq([key : Key, val : Val]), Sorted(list),
         \A i \in 1..Len(list) : list[i].key \in R,
         Len(list) <= max_size, NEW key \in R, NEW val \in Val
  PROVE  ListAfter(list, key, val, R, ListSet(list, key, val))
<1>1. Key \subseteq Int /\ ORDER \in Nat /\ key \in Int /\ \A x \in Key : x \in Int
  BY TreeAssumption
<1>2. list \in Seq(Entry(Val))
  <2>1. PICK S, T : S = [key : Key, val : Val] /\ T = Entry(Val)
    OBVIOUS
  <2>2. S \subseteq T /\ list \in Seq(S)
    BY <1>1, <2>1 DEF Entry
  <2>3. list \in Seq(T)
    BY <2>2, WiderSeq
  <2> QED
    BY <2>1, <2>3
<1>3. PICK t : t = ListSet(list, key, val)
  OBVIOUS
<1>4. t \in Seq(Entry(Val)) /\ Sorted(t)
  BY <1>1, <1>2, <1>3, SetKeepsSorted
<1>5. \A i \in 1..Len(t) : t[i].key \in R
  BY <1>1, <1>2, <1>3, SetKeys
<1>6. Len(t) \in Nat /\ Len(list) \in Nat
  BY <1>2, <1>4, EntriesTyped
<1>7. Len(t) = IF Overwrites(list, key) THEN Len(list) ELSE Len(list) + 1
  BY <1>1, <1>2, <1>3, SetLength
<1>8. (Len(list) + 1) % SizeMod = Len(list) + 1
  BY <1>6, CountUp
<1>9. SizeAfterSet(list, Len(list), key) = Len(t) /\ Len(t) <= ORDER
  BY <1>1, <1>6, <1>7, <1>8 DEF SizeAfterSet, max_size
<1>10. t \in Seq([key : Key, val : Val])
  <2>1. ASSUME NEW i \in 1..Len(t) PROVE t[i] \in [key : Key, val : Val]
    <3>1. t[i] \in [key : Int, val : Val] /\ t[i].key \in Key
      BY <1>4, <1>5, EntriesTyped DEF Entry
    <3> QED
      BY <3>1
  <2>2. PICK S : S = [key : Key, val : Val]
    OBVIOUS
  <2>3. t = [i \in 1..Len(t) |-> t[i]]
    <3>1. PICK T : T = Entry(Val)
      OBVIOUS
    <3>2. t \in Seq(T)
      BY <1>4, <3>1
    <3> QED
      BY <3>2
  <2>4. t \in Seq(S)
    <3>1. t \in [1..Len(t) -> S]
      BY <2>1, <2>2, <2>3
    <3> QED
      BY <1>6, <3>1, SeqDef
  <2> QED
    BY <2>2, <2>4
<1>11. ASSUME NEW x \in Key
       PROVE  ListGet(t, x, NoValue) = IF x = key THEN val ELSE ListGet(list, x, NoValue)
  BY <1>1, <1>2, <1>3, GetAfterSet
<1> QED
  BY <1>3, <1>4, <1>5, <1>6, <1>9, <1>10, <1>11 DEF ListAfter, Holdable

\* A leaf's list and its m_size are replaced.
LEMMA StoreIs ==
  ASSUME NEW h, NEW root, NEW g, Tree(h, root, g, 0), Whole(h, g),
         NEW l \in Nodes(h), h.node[l].leaf,
         NEW list \in Seq([key : Key, val : Val]), Holdable(list, g.resp[l]), Len(list) <= max_size,
         NEW v, v = [h.node[l] EXCEPT !.list = list, !.size = Len(list)],
         NEW k, k = [h EXCEPT !.node[l] = v]
  PROVE  /\ Stored(h, k, l, list)
         /\ Tree(k, root, g, 0) /\ Whole(k, g) /\ Grown(h, g, k, g, l)
         /\ Restocked(h, g, k, g, g.resp[l], list)
<1> DEFINE N == Len(h.node)
           C == Len(h.cell)
           node == [h.node EXCEPT ![l] = v]
<1>1. HeapTyped(h) /\ h.node[l].lesser = 0 /\ h.node[l].first = 0
  BY DEF Tree, LeafInv, LeafOf
<1>2. /\ h.node \in Seq(NodeType) /\ N \in Nat /\ h.cell \in Seq(CellType) /\ C \in Nat
      /\ h = [node |-> h.node, cell |-> h.cell]
      /\ \A M, D \in Nat : M >= N /\ D >= C =>
            /\ \A n \in 1..N : GoodNode(h.node[n], M, D)
            /\ \A e \in 1..C : GoodCell(h.cell[e], M, D)
  BY <1>1, HeapParts
<1>3. l \in 1..N
  BY DEF Nodes
<1>4. Len(list) \in 0..SizeMod - 1
  <2>1. Len(list) \in Nat /\ ORDER \in Nat /\ SizeMod \in Nat /\ SizeMod > ORDER
    BY TreeAssumption DEF Holdable
  <2> QED
    BY <2>1 DEF max_size
<1>5. k = [node |-> node, cell |-> h.cell]
  <2>1. PICK q, c : q = h.node /\ c = h.cell /\ h = [node |-> q, cell |-> c]
    BY <1>2
  <2>2. [h EXCEPT !.node[l] = v] = [node |-> [q EXCEPT ![l] = v], cell |-> c]
    BY ONLY <2>1
  <2> QED
    BY <2>1, <2>2
<1>6. /\ \A n \in 1..N : GoodNode(h.node[n], N, C)
      /\ \A e \in 1..C : GoodCell(h.cell[e], N, C)
  <2>1. N >= N /\ C >= C
    BY <1>2
  <2> QED
    BY <1>2, <2>1
<1>7. /\ v.leaf = h.node[l].leaf /\ v.size = Len(list) /\ v.list = list
      /\ v.lesser = h.node[l].lesser /\ v.first = h.node[l].first /\ v.next = h.node[l].next
      /\ v \in NodeType /\ GoodNode(v, N, C)
  <2>1. h.node[l] \in NodeType
    BY <1>3, <1>6 DEF GoodNode
  <2>2. /\ v.leaf = h.node[l].leaf /\ v.size = Len(list) /\ v.list = list
        /\ v.lesser = h.node[l].lesser /\ v.first = h.node[l].first /\ v.next = h.node[l].next
        /\ v \in NodeType
    BY <1>4, <2>1 DEF NodeType
  <2> QED
    BY <1>3, <1>6, <2>2 DEF GoodNode
<1>8. node \in Seq(NodeType) /\ Changed(h.node, l, v, node)
  <2>1. PICK S : S = NodeType
    OBVIOUS
  <2>2. h.node \in Seq(S) /\ v \in S
    BY <1>2, <1>7, <2>1
  <2>3. node \in Seq(S) /\ Changed(h.node, l, v, node)
    BY <1>3, <2>2, ExceptIs
  <2> QED
    BY <2>1, <2>3
<1> HIDE DEF node
<1>9. Len(node) = N /\ node[l] = v /\ \A n \in 1..N : n # l => node[n] = h.node[n]
  BY <1>8 DEF Changed
<1>10. k.node = node /\ k.cell = h.cell
  BY ONLY <1>5
<1>11. HeapTyped(k)
  <2>1. \A n \in 1..Len(node) : GoodNode(node[n], Len(node), Len(h.cell))
    BY <1>6, <1>7, <1>9
  <2>2. \A e \in 1..Len(h.cell) : GoodCell(h.cell[e], Len(node), Len(h.cell))
    BY <1>6, <1>9
  <2> QED
    BY <1>2, <1>5, <1>8, <2>1, <2>2, MakeHeap
<1>12. Stored(h, k, l, list)
  BY <1>1, <1>7, <1>9, <1>10 DEF Stored, Nodes
<1> QED
  BY <1>11, <1>12, LeafStore

\* leaf::insert stores the entry, and tells of the new leaf if it split.
LEMMA LeafInsertIs ==
  ASSUME NEW h, NEW root, NEW g, Tree(h, root, g, 0), Whole(h, g),
         NEW l \in Nodes(h), h.node[l].leaf, NEW key \in g.resp[l], NEW val \in Val,
         NEW d, d = LeafInsert(h, l, key, val)
  PROVE  \E f : /\ Stage(d, root, f, l) /\ Grown(h, g, d.h, f, l)
                /\ \A x \in Key : Value(d.h, f, x) = IF x = key THEN val ELSE Value(h, g, x)
<1> DEFINE R == g.resp[l]
           old == h.node[l].list
           N == Len(h.node)
           C == Len(h.cell)
<1>1. HeapTyped(h) /\ Basics(h) /\ LeafInv(h, g) /\ R \subseteq Key
  BY HeapBasics DEF Tree, GhostTyped
<1>2. LeafOf(h.node[l], g.home, l, R)
  BY <1>1 DEF LeafInv
<1>3. /\ Sorted(old) /\ h.node[l].size = Len(old) /\ Len(old) <= max_size
      /\ \A i \in 1..Len(old) : old[i].key \in R
      /\ old \in Seq([key : Key, val : Val])
      /\ h.node[l].lesser = 0 /\ h.node[l].first = 0 /\ \A x \in R : g.home[x] = l
  BY <1>1, <1>2 DEF LeafOf, Basics
<1>4. PICK list : list = ListSet(old, key, val)
  OBVIOUS
<1>5. /\ Holdable(list, R) /\ list \in Seq([key : Key, val : Val])
      /\ SizeAfterSet(old, Len(old), key) = Len(list) /\ Len(list) <= ORDER
      /\ \A x \in Key : ListGet(list, x, NoValue) = IF x = key THEN val ELSE ListGet(old, x, NoValue)
  <2> HIDE DEF R, old
  <2>1. key \in R
    BY DEF R
  <2> QED
    <3>1. ListAfter(old, key, val, R, list)
      BY <1>1, <1>3, <1>4, <2>1, LeafListAfter
    <3> QED
      BY <3>1 DEF ListAfter
<1>6. Len(list) \in Nat /\ ORDER \in Nat /\ ORDER >= 3 /\ SizeMod > ORDER /\ SizeMod \in Nat
  BY <1>5, TreeAssumption DEF Holdable
<1>7. ASSUME NEW k, NEW f, Restocked(h, g, k, f, R, list), NEW x \in Key
      PROVE  Value(k, f, x) = IF x = key THEN val ELSE Value(h, g, x)
  <2>1. Value(k, f, x) = IF x \in R THEN ListGet(list, x, NoValue) ELSE Value(h, g, x)
    BY <1>7 DEF Restocked
  <2>2. x \in R => Value(h, g, x) = ListGet(old, x, NoValue)
    BY <1>3 DEF Value
  <2> QED
    BY <1>5, <2>1, <2>2
<1>8. /\ h.node \in Seq(NodeType) /\ N \in Nat /\ h.cell \in Seq(CellType) /\ C \in Nat
      /\ h = [node |-> h.node, cell |-> h.cell]
      /\ \A M, D \in Nat : M >= N /\ D >= C =>
            /\ \A n \in 1..N : GoodNode(h.node[n], M, D)
            /\ \A e \in 1..C : GoodCell(h.cell[e], M, D)
  BY <1>1, HeapParts
<1>9. l \in 1..N
  BY DEF Nodes
<1>10. CASE Len(list) <= max_size
  <2>1. PICK v, k : /\ v = [h.node[l] EXCEPT !.list = list, !.size = Len(list)]
                    /\ k = [h EXCEPT !.node[l] = v]
    OBVIOUS
  <2>2. d = [h |-> k, up |-> Null, crash |-> FALSE]
    <3>1. SizeAfterSet(h.node[l].list, h.node[l].size, key) = Len(list)
      BY <1>3, <1>5
    <3>2. ListSet(h.node[l].list, key, val) = list
      BY <1>4
    <3>3. ~(Len(list) > max_size)
      BY <1>6, <1>10 DEF max_size
    <3> QED
      BY <1>10, <2>1, <3>1, <3>2, <3>3 DEF LeafInsert
  <2>3. d.h = k /\ d.up = 0 /\ d.crash = FALSE
    BY <2>2 DEF Null
  <2>4. /\ Tree(k, root, g, 0) /\ Whole(k, g) /\ Grown(h, g, k, g, l)
        /\ Restocked(h, g, k, g, R, list)
    BY <1>5, <1>10, <2>1, StoreIs
  <2>5. Stage(d, root, g, l)
    BY <2>3, <2>4 DEF Stage
  <2> QED
    BY <1>7, <2>3, <2>4, <2>5
<1>11. CASE ~(Len(list) <= max_size)
  <2> DEFINE m == Len(list) \div 2
             new == N + 1
             left == LeafNode(SubSeq(list, 1, m), m, new)
             rest == LeafNode(SubSeq(list, m + 1, Len(list)), Len(list) - m, h.node[l].next)
             first == [h.node EXCEPT ![l] = left]
             node == Append(first, rest)
  <2>1. /\ Len(list) = ORDER /\ m \in 1..Len(list) - 1 /\ m <= max_size /\ Len(list) - m <= max_size
        /\ ~(m >= Len(list)) /\ Len(list) > max_size
        /\ m \in 0..SizeMod - 1 /\ Len(list) - m \in 0..SizeMod - 1
    BY <1>5, <1>6, <1>11 DEF max_size
  <2>2. d = [h |-> [h EXCEPT !.node = node], up |-> new, crash |-> FALSE]
    <3>1. SizeAfterSet(h.node[l].list, h.node[l].size, key) = Len(list)
      BY <1>3, <1>5
    <3>2. ListSet(h.node[l].list, key, val) = list
      BY <1>4
    <3> QED
      BY <1>11, <2>1, <3>1, <3>2 DEF LeafInsert, NextAfterSplit, Fresh
  <2>3. [h EXCEPT !.node = node] = [node |-> node, cell |-> h.cell]
    <3>1. PICK q, c : q = h.node /\ c = h.cell /\ h = [node |-> q, cell |-> c]
      BY <1>8
    <3> HIDE DEF node
    <3>2. [h EXCEPT !.node = node] = [node |-> node, cell |-> c]
      BY ONLY <3>1
    <3> QED
      BY <3>1, <3>2
  <2> HIDE DEF m
  <2>4. /\ \A n \in 1..N : GoodNode(h.node[n], N + 1, C)
        /\ \A e \in 1..C : GoodCell(h.cell[e], N + 1, C)
        /\ N + 1 \in Nat /\ new \in 0..N + 1 /\ 0 \in 0..N + 1 /\ 0 \in 0..C
        /\ h.node[l].next \in 0..N + 1 /\ h.node[l].next \in Nat
    <3>1. N + 1 \in Nat /\ N + 1 >= N /\ C >= C /\ new \in 0..N + 1 /\ 0 \in 0..N + 1 /\ 0 \in 0..C
      BY <1>8
    <3>2. /\ \A n \in 1..N : GoodNode(h.node[n], N + 1, C)
          /\ \A e \in 1..C : GoodCell(h.cell[e], N + 1, C)
      BY <1>8, <3>1
    <3>3. h.node[l].next \in 0..N + 1
      BY <1>9, <3>2 DEF GoodNode
    <3> QED
      BY <3>1, <3>2, <3>3
  <2>5. PICK a, b : a = SubSeq(list, 1, m) /\ b = SubSeq(list, m + 1, Len(list))
    OBVIOUS
  <2>6. a \in Seq([key : Key, val : Val]) /\ b \in Seq([key : Key, val : Val])
        /\ b[1] = list[m + 1]
    <3>1. PICK S : S = [key : Key, val : Val]
      OBVIOUS
    <3>2. list \in Seq(S) /\ Len(list) \in Nat /\ m \in 1..Len(list) - 1
      BY <1>5, <1>6, <2>1, <3>1
    <3>3. a \in Seq(S) /\ b \in Seq(S) /\ b[1] = list[m + 1]
      BY ONLY <2>5, <3>2
    <3> QED
      BY <3>1, <3>3
  <2>7. /\ left.leaf /\ left.list = a /\ left.size = m /\ left.next = new
        /\ left.lesser = 0 /\ left.first = 0 /\ left \in NodeType /\ GoodNode(left, N + 1, C)
    <3>1. /\ left.leaf /\ left.list = a /\ left.size = m /\ left.next = new
          /\ left.lesser = 0 /\ left.first = 0
      BY <2>5 DEF LeafNode, Null
    <3>2. left \in NodeType
      BY <2>1, <2>4, <2>5, <2>6 DEF LeafNode, NodeType, Null
    <3> HIDE DEF left
    <3> QED
      BY <2>4, <3>1, <3>2 DEF GoodNode
  <2>8. /\ rest.leaf /\ rest.list = b /\ rest.size = Len(list) - m /\ rest.next = h.node[l].next
        /\ rest.lesser = 0 /\ rest.first = 0 /\ rest \in NodeType /\ GoodNode(rest, N + 1, C)
    <3>1. /\ rest.leaf /\ rest.list = b /\ rest.size = Len(list) - m /\ rest.next = h.node[l].next
          /\ rest.lesser = 0 /\ rest.first = 0
      BY <2>5 DEF LeafNode, Null
    <3>2. rest \in NodeType
      BY <2>1, <2>4, <2>5, <2>6 DEF LeafNode, NodeType, Null
    <3> HIDE DEF rest
    <3> QED
      BY <2>4, <3>1, <3>2 DEF GoodNode
  <2> HIDE DEF left, rest
  <2>9. /\ node \in Seq(NodeType) /\ Len(node) = N + 1 /\ node[l] = left /\ node[N + 1] = rest
        /\ \A n \in 1..N : n # l => node[n] = h.node[n]
    <3>1. PICK S : S = NodeType
      OBVIOUS
    <3>2. h.node \in Seq(S) /\ left \in S /\ rest \in S
      BY <1>8, <2>7, <2>8, <3>1
    <3>3. first \in Seq(S) /\ Changed(h.node, l, left, first)
      BY <1>9, <3>2, ExceptIs
    <3> HIDE DEF first
    <3>4. /\ node \in Seq(S) /\ Len(node) = Len(first) + 1 /\ node[Len(first) + 1] = rest
          /\ \A i \in 1..Len(first) : node[i] = first[i]
      BY <3>2, <3>3, AppendProperties
    <3> HIDE DEF node
    <3>5. Len(first) = N /\ first[l] = left /\ \A n \in 1..N : n # l => first[n] = h.node[n]
      BY <3>3 DEF Changed
    <3> QED
      BY <1>9, <3>1, <3>4, <3>5
  <2> HIDE DEF node
  <2>10. PICK k : k = [node |-> node, cell |-> h.cell]
    OBVIOUS
  <2>11. k.node = node /\ k.cell = h.cell /\ d.h = k /\ d.up = new /\ d.crash = FALSE
    BY <2>2, <2>3, <2>10
  <2>12. HeapTyped(k)
    <3>1. \A n \in 1..N + 1 : n = N + 1 \/ n \in 1..N
      BY <1>8
    <3>2. \A n \in 1..Len(node) : GoodNode(node[n], Len(node), Len(h.cell))
      BY <2>4, <2>7, <2>8, <2>9, <3>1
    <3>3. \A e \in 1..Len(h.cell) : GoodCell(h.cell[e], Len(node), Len(h.cell))
      BY <2>4, <2>9
    <3> QED
      BY <1>8, <2>9, <2>10, <3>2, <3>3, MakeHeap
  <2>13. Cleft(h, k, l, list, m, new)
    BY <2>5, <2>7, <2>8, <2>9, <2>11 DEF Cleft, Nodes
  <2>14. PICK K : K = list[m + 1].key
    OBVIOUS
  <2>15. PICK f : /\ Tree(k, root, f, 0) /\ Gap(k, f, l, new, K) /\ Grown(h, g, k, f, l)
                  /\ Restocked(h, g, k, f, R, list)
    <3> HIDE DEF new
    <3> QED
      BY <1>5, <2>1, <2>12, <2>13, <2>14, LeafSplit
  <2>16. /\ PrimaryKey(k, new) = K /\ k.node[l].leaf /\ k.node[new].leaf
         /\ new \in Nodes(k) /\ new # 0
    <3>1. k.node[new] = rest /\ k.node[l] = left
      BY <2>9, <2>11
    <3>2. new \in Nodes(k) /\ new # 0
      BY <1>8, <2>9, <2>11 DEF Nodes
    <3> HIDE DEF new
    <3> QED
      BY <2>6, <2>7, <2>8, <2>14, <3>1, <3>2 DEF PrimaryKey
  <2>17. Stage(d, root, f, l)
    <3> HIDE DEF new
    <3>1. Pending(k, f, l, new)
      BY <2>15, <2>16 DEF Pending
    <3> QED
      BY <2>11, <2>15, <2>16, <3>1 DEF Stage
  <2> QED
    BY <1>7, <2>11, <2>15, <2>17
<1> QED
  BY <1>10, <1>11

\* What stays of the way of key x, and of what the tree holds, when node p changes.
Onward(h, g, k, f, p, x) ==
    /\ \A n, m : n # p /\ Leads(h, g, n, x, m) => Leads(k, f, n, x, m)
    /\ \A y \in Key : Value(k, f, y) = Value(h, g, y)

Announced(h, root, g, ch, new, K, p, x, f) ==
    /\ Tree(h, root, f, 0) /\ Gap(h, f, ch, new, K)
    /\ Onward(h, g, h, f, 0, x)
    /\ Inner(h, f, p) /\ f.own[p] = g.own[p] /\ f.resp[p] = g.resp[p]

\* Before a cell for it is inserted, a new root that is to be kept whole takes over the
\* keys of the node that it was made for.
LEMMA Announce ==
  ASSUME NEW h, NEW root, NEW g, Tree(h, root, g, 0), NEW ch, NEW up, up # 0, Pending(h, g, ch, up),
         NEW p, NEW x, Inner(h, g, p), NEW j, NEW new,
         NEW w, NEW K, K = PrimaryKey(h, up), Gap(h, g, ch, w, K),
         IF h.node[ch].leaf THEN h.node[up].leaf /\ w = up ELSE Crown(h, g, ch, up, w),
         new = IF h.node[up].leaf \/ j = 0 THEN up ELSE w
  PROVE  \E f : Announced(h, root, g, ch, new, K, p, x, f)
<1>2. CASE new = w
  BY <1>2 DEF Onward, Announced
<1>3. CASE new # w
  <2>1. new = up /\ ~h.node[up].leaf /\ Crown(h, g, ch, up, w)
    BY <1>3 DEF Crown
  <2>2. K = h.cell[h.node[up].first].key
    BY <2>1 DEF PrimaryKey
  <2>3. PICK f : /\ Tree(h, root, f, 0) /\ Gap(h, f, ch, up, K) /\ Grown(h, g, h, f, up)
                 /\ \A y \in Key : Value(h, f, y) = Value(h, g, y)
    <3>1. \E f : Adopted(h, root, g, ch, up, K, f)
      BY <2>1, <2>2, Adopt
    <3> QED
      BY <3>1 DEF Adopted
  <2>4. ASSUME NEW n, Inner(h, g, n) PROVE n # up /\ n \in Nodes(h)
    BY <2>1, <2>4 DEF Inner, Crown
  <2>5. ASSUME NEW n, NEW m, Leads(h, g, n, x, m) PROVE Leads(h, f, n, x, m)
    <3>1. n # up
      BY <2>4, <2>5 DEF Leads
    <3>2. Basics(h) /\ GhostTyped(h, g) /\ CellInv(h, g, 0)
      BY HeapBasics DEF Tree
    <3> QED
      BY <2>3, <2>5, <3>1, <3>2, LeadsKept
  <2>6. Onward(h, g, h, f, 0, x)
    BY <2>3, <2>5 DEF Onward
  <2>7. p # up /\ p \in Nodes(h)
    BY <2>4
  <2>8. f.own[p] = g.own[p] /\ f.resp[p] = g.resp[p]
    BY <2>3, <2>7 DEF Grown
  <2>9. Inner(h, f, p)
    BY <2>8 DEF Inner
  <2> QED
    BY <2>1, <2>3, <2>6, <2>8, <2>9 DEF Announced
<1> QED
  BY <1>2, <1>3

\* A node learns of what its child hands up.
LEMMA LinkUp ==
  ASSUME NEW h, NEW root, NEW g, Tree(h, root, g, 0), NEW ch, NEW up, up # 0, Pending(h, g, ch, up),
         NEW p, NEW x, Leads(h, g, p, x, ch), NEW k, k = Insert(h, p, up)
  PROVE  \E f : /\ Tree(k, root, f, p) /\ Whole(k, f) /\ Inner(k, f, p)
                /\ Onward(h, g, k, f, p, x)
<1> DEFINE s == g.own[p]
<1>1. HeapTyped(h) /\ Basics(h) /\ GhostTyped(h, g) /\ CellInv(h, g, 0) /\ SlotInv(h, g)
  BY HeapBasics DEF Tree
<1>2. /\ Inner(h, g, p) /\ x \in g.resp[p] /\ p \in Nodes(h) /\ ~h.node[p].leaf /\ p # 0
  BY DEF Leads, Inner, Nodes
<1>3. PICK j \in 0..Len(s) : InSlot(h, s, x, j) /\ Kid(h, p, s, j) = ch
  BY DEF Leads
<1>4. PICK K : K = PrimaryKey(h, up)
  OBVIOUS
<1>5. PICK w : /\ Gap(h, g, ch, w, K)
               /\ IF h.node[ch].leaf THEN h.node[up].leaf /\ w = up
                  ELSE Crown(h, g, ch, up, w)
  BY <1>4 DEF Pending
<1>6. PICK new : new = IF h.node[up].leaf \/ j = 0 THEN up ELSE w
  OBVIOUS
<1>7. up \in Nodes(h) /\ w \in Nodes(h) /\ new \in Nodes(h)
  BY <1>5, <1>6 DEF Pending, Gap
<1>8. new = IF h.node[up].leaf \/ j = 0 THEN up ELSE h.cell[h.node[up].first].child
  BY <1>5, <1>6 DEF Crown
<1>9. K \in Key /\ K \in g.resp[p] /\ InSlot(h, s, K, j)
  <2>1. Used(h, g, p, j)
    BY <1>2, <1>3 DEF Used
  <2>2. \A y \in Key : y \in g.under[ch] <=> y \in g.resp[p] /\ InSlot(h, s, y, j)
    BY <1>1, <1>3, <2>1 DEF SlotInv, Passes
  <2>3. K \in Key
    BY <1>1, <1>5, <1>7 DEF Gap, GhostTyped
  <2>4. K \in g.under[ch]
    BY <1>5, <2>3 DEF Gap
  <2> QED
    BY <2>2, <2>3, <2>4
<1>10. CellsOf(h, g.owner, p, s, g.resp[p]) /\ h.node[p].size <= max_size /\ s \in Seq(Nat)
  BY <1>1, <1>2 DEF CellInv, GhostTyped
<1>11. HeapTyped(k) /\ Inserted(h, k, p, s, j, Len(h.cell) + 1, K, new)
  <2> HIDE DEF s
  <2> QED
    BY <1>1, <1>2, <1>4, <1>7, <1>8, <1>9, <1>10, InsertIs
<1>12. PICK f : /\ Tree(h, root, f, 0) /\ Gap(h, f, ch, new, K)
                /\ Onward(h, g, h, f, 0, x)
                /\ Inner(h, f, p) /\ f.own[p] = s /\ f.resp[p] = g.resp[p]
  <2>1. \E f : Announced(h, root, g, ch, new, K, p, x, f)
    BY <1>2, <1>4, <1>5, <1>6, Announce
  <2> QED
    BY <2>1 DEF Announced
<1>13. PICK e : /\ Tree(k, root, e, p) /\ Whole(k, e) /\ Grown(h, f, k, e, p)
                /\ Inner(k, e, p)
                /\ \A y \in Key : Value(k, e, y) = Value(h, f, y)
  <2>1. /\ x \in f.resp[p] /\ j \in 0..Len(f.own[p]) /\ InSlot(h, f.own[p], x, j)
        /\ Kid(h, p, f.own[p], j) = ch
        /\ Inserted(h, k, p, f.own[p], j, Len(h.cell) + 1, K, new)
    BY <1>2, <1>3, <1>11, <1>12
  <2>2. PICK c : c = Len(h.cell) + 1
    OBVIOUS
  <2> HIDE DEF s
  <2> QED
    <3>1. Inserted(h, k, p, f.own[p], j, c, K, new)
      BY <2>1, <2>2
    <3>2. \E e : Closed(h, f, root, k, p, e)
      BY <1>11, <1>12, <2>1, <3>1, InsertCell
    <3> QED
      BY <3>2 DEF Closed
<1>14. Onward(h, g, k, e, p, x)
  <2>1. Basics(k) /\ GhostTyped(h, f) /\ CellInv(h, f, 0)
    BY <1>11, <1>12, HeapBasics DEF Tree
  <2>2. ASSUME NEW n, NEW m, n # p, Leads(h, g, n, x, m) PROVE Leads(k, e, n, x, m)
    <3>1. n # 0
      BY <2>2 DEF Leads, Inner, Nodes
    <3>2. Leads(h, f, n, x, m)
      BY <1>12, <2>2, <3>1 DEF Onward
    <3> QED
      BY <1>1, <1>13, <2>1, <2>2, <3>2, LeadsKept
  <2>3. \A y \in Key : Value(k, e, y) = Value(h, g, y)
    BY <1>12, <1>13 DEF Onward
  <2> QED
    BY <2>2, <2>3 DEF Onward
<1> QED
  BY <1>13, <1>14

\* The two ways in which a call of set returns.
LEMMA UnwindKeeps ==
  ASSUME NEW d, NEW p, NEW k, k = IF d.up = Null THEN d.h ELSE Insert(d.h, p, d.up),
         k.node[p].size \in Int, k.node[p].size <= max_size
  PROVE  Unwind(d, p) = [h |-> k, up |-> 0, crash |-> d.crash]
<1>1. ~(k.node[p].size > max_size)
  BY TreeAssumption DEF max_size
<1> QED
  BY <1>1 DEF Unwind, Null

LEMMA UnwindSplits ==
  ASSUME NEW d, NEW p, NEW k, k = IF d.up = Null THEN d.h ELSE Insert(d.h, p, d.up),
         d.crash = FALSE, ~(k.node[p].size <= max_size), k.node[p].size > max_size,
         CanSplit(k, p), NEW q, q = Split(k, p)
  PROVE  Unwind(d, p) = [h |-> q, up |-> Len(q.node), crash |-> FALSE]
BY DEF Unwind, Null

\* bpt_internal::set, after the call for the child has returned.
LEMMA UnwindStep ==
  ASSUME NEW d, NEW root, NEW g, NEW ch, Stage(d, root, g, ch), NEW p, NEW x,
         Leads(d.h, g, p, x, ch), NEW u, u = Unwind(d, p)
  PROVE  \E f : Stage(u, root, f, p) /\ Onward(d.h, g, u.h, f, p, x)
<1>1. /\ d.crash = FALSE /\ Tree(d.h, root, g, 0)
      /\ IF d.up = 0 THEN Whole(d.h, g) ELSE Pending(d.h, g, ch, d.up)
  BY DEF Stage
<1>2. Inner(d.h, g, p) /\ p # 0
  BY DEF Leads, Inner, Nodes
<1>3. CASE d.up = 0
  <2>1. d.h.node[p].size <= max_size
    BY <1>1, <1>2 DEF Tree, CellInv
  <2>2. u = [h |-> d.h, up |-> 0, crash |-> d.crash]
    <3>1. d.h.node[p].size \in Int
      <4>1. Basics(d.h)
        BY <1>1, HeapBasics DEF Tree
      <4> QED
        BY <1>2, <4>1, TreeAssumption DEF Basics, Inner
    <3> QED
      BY <1>3, <2>1, <3>1, UnwindKeeps DEF Null
  <2>3. u.h = d.h /\ u.up = 0 /\ u.crash = FALSE
    BY <1>1, <2>2
  <2>4. Stage(u, root, g, p)
    BY <1>1, <1>3, <2>3 DEF Stage
  <2>5. Onward(d.h, g, u.h, g, p, x)
    BY <2>3 DEF Onward
  <2> QED
    BY <2>4, <2>5
<1>4. CASE d.up # 0
  <2>1. PICK k : k = Insert(d.h, p, d.up)
    OBVIOUS
  <2>2. PICK f : /\ Tree(k, root, f, p) /\ Whole(k, f) /\ Inner(k, f, p)
                 /\ Onward(d.h, g, k, f, p, x)
    BY <1>1, <1>4, <2>1, LinkUp
  <2>3. CASE k.node[p].size <= max_size
    <3>1. u = [h |-> k, up |-> 0, crash |-> d.crash]
      <4>1. k.node[p].size \in Int
        <5>1. Basics(k)
          BY <2>2, HeapBasics DEF Tree
        <5> QED
          BY <2>2, <5>1, TreeAssumption DEF Basics, Inner
      <4> QED
        BY <1>4, <2>1, <2>3, <4>1, UnwindKeeps DEF Null
    <3>2. u.h = k /\ u.up = 0 /\ u.crash = FALSE
      BY <1>1, <3>1
    <3>3. CellInv(k, f, 0)
      <4> SUFFICES ASSUME NEW n, Inner(k, f, n)
                   PROVE  CellsOf(k, f.owner, n, f.own[n], f.resp[n]) /\ k.node[n].size <= max_size
        BY DEF CellInv, Inner, Nodes
      <4> QED
        BY <2>2, <2>3 DEF Tree, CellInv
    <3>4. Tree(k, root, f, 0)
      BY <2>2, <3>3 DEF Tree
    <3>5. Stage(u, root, f, p)
      BY <2>2, <3>2, <3>4 DEF Stage
    <3> QED
      BY <2>2, <3>2, <3>5
  <2>4. CASE ~(k.node[p].size <= max_size)
    <3>1. HeapTyped(k) /\ Basics(k) /\ GhostTyped(k, f) /\ CellInv(k, f, p)
      BY <2>2, HeapBasics DEF Tree
    <3>2. PICK s : s = f.own[p]
      OBVIOUS
    <3>3. /\ p \in Nodes(k) /\ ~k.node[p].leaf /\ s \in Seq(Nat)
          /\ CellsOf(k, f.owner, p, s, f.resp[p]) /\ k.node[p].size <= ORDER
      BY <2>2, <3>1, <3>2 DEF Inner, GhostTyped, CellInv
    <3>4. k.node[p].size = ORDER
      <4>1. k.node[p].size \in 0..SizeMod - 1 /\ ORDER \in Nat /\ SizeMod \in Nat
        BY <3>1, <3>3, TreeAssumption DEF Basics
      <4> QED
        BY <2>4, <3>3, <4>1 DEF max_size
    <3>5. PICK q : q = Split(k, p)
      OBVIOUS
    <3>6. PICK m \in 1..Len(s) - 2 :
            /\ m <= max_size /\ Len(s) - m - 1 <= max_size
            /\ CanSplit(k, p) /\ HeapTyped(q) /\ Halved(k, q, p, s, m, Len(k.node) + 1)
      BY <3>1, <3>3, <3>4, <3>5, SplitIs
    <3>7. PICK r, K : r = Len(k.node) + 1 /\ K = k.cell[s[m + 1]].key
      OBVIOUS
    <3>8. PICK e : /\ Tree(q, root, e, 0) /\ Gap(q, e, p, r, K) /\ Crown(q, e, p, r + 1, r)
                   /\ Grown(k, f, q, e, p)
                   /\ \A y \in Key : Value(q, e, y) = Value(k, f, y)
      <4>1. m \in 1..Len(f.own[p]) - 2 /\ Len(f.own[p]) - m - 1 <= max_size
            /\ Halved(k, q, p, f.own[p], m, r) /\ K = k.cell[f.own[p][m + 1]].key
        BY <3>2, <3>6, <3>7
      <4>2. \E e : Opened(k, f, root, q, p, r, K, e)
        BY <2>2, <3>6, <4>1, SplitNode
      <4> QED
        BY <4>2 DEF Opened
    <3>9. u = [h |-> q, up |-> Len(q.node), crash |-> FALSE]
      <4>1. k.node[p].size \in Int /\ max_size \in Int
        BY <3>4, TreeAssumption DEF max_size
      <4>2. k.node[p].size > max_size
        BY <2>4, <4>1
      <4> QED
        BY <1>1, <1>4, <2>1, <2>4, <3>5, <3>6, <4>2, UnwindSplits DEF Null
    <3>10. u.h = q /\ u.up = r + 1 /\ u.crash = FALSE
      BY <3>6, <3>7, <3>9 DEF Halved
    <3>11. r + 1 # 0 /\ r + 1 \in Nodes(q) /\ ~q.node[p].leaf /\ PrimaryKey(q, r + 1) = K
      <4>1. Len(k.node) \in Nat
        BY <3>1 DEF Basics
      <4>2. m + 1 \in 1..Len(s)
        BY <3>3, <3>6
      <4>3. s[m + 1] \in Cells(k)
        BY <3>3, <4>2 DEF CellsOf
      <4>4. /\ ~q.node[p].leaf /\ ~q.node[r + 1].leaf /\ q.node[r + 1].first = s[m + 1]
            /\ q.cell[s[m + 1]].key = K
        BY <3>6, <3>7, <4>3 DEF Halved
      <4>5. r + 1 \in Nodes(q)
        BY <3>8 DEF Crown
      <4> QED
        BY <3>7, <4>1, <4>4, <4>5 DEF PrimaryKey
    <3>12. Stage(u, root, e, p)
      <4>1. Pending(q, e, p, r + 1)
        BY <3>8, <3>11 DEF Pending
      <4> QED
        BY <3>8, <3>10, <3>11, <4>1 DEF Stage
    <3>13. Onward(d.h, g, q, e, p, x)
      <4>1. ASSUME NEW n, NEW a, n # p, Leads(d.h, g, n, x, a) PROVE Leads(q, e, n, x, a)
        <5>1. Leads(k, f, n, x, a)
          BY <2>2, <4>1 DEF Onward
        <5>2. Basics(q)
          BY <3>6, HeapBasics
        <5> QED
          BY <3>1, <3>8, <4>1, <5>1, <5>2, LeadsKept
      <4>2. \A y \in Key : Value(q, e, y) = Value(d.h, g, y)
        BY <2>2, <3>8 DEF Onward
      <4> QED
        BY <4>1, <4>2 DEF Onward
    <3> QED
      BY <3>10, <3>12, <3>13
  <2> QED
    BY <2>3, <2>4
<1> QED
  BY <1>3, <1>4

------------------------------------------------------------------------------
(* tree::set.                                                               *)

\* w[i] is what has been done when i of the calls on the path have returned.
Returns(w, base, path, m) ==
    /\ w[0] = base
    /\ \A i \in 1..m : w[i] = Unwind(w[i - 1], path[Len(path) - i])

\* The recursion of Return has a solution.
LEMMA ReturnIs ==
  ASSUME NEW base, NEW path, NEW m \in Nat, Len(path) - 1 = m
  PROVE  \E w : Returns(w, base, path, m) /\ Return(Unwind, base, path) = w[m]
<1> DEFINE V(w, i) == IF i = 0 THEN base ELSE Unwind(w[i - 1], path[Len(path) - i])
           Solves(n, w) == w = [i \in 0..n |-> V(w, i)]
           T == {n \in 0..m : \E w : Solves(n, w)}
           c == CHOOSE w : Solves(m, w)
<1>1. 0 \in T
  <2>1. PICK z : z = [i \in 0..0 |-> base]
    OBVIOUS
  <2>2. z = [i \in 0..0 |-> V(z, i)]
    <3>1. \A i \in 0..0 : i = 0 /\ V(z, i) = base
      OBVIOUS
    <3> HIDE DEF V
    <3> QED
      BY <2>1, <3>1
  <2> HIDE DEF Solves
  <2> QED
    BY <2>2 DEF Solves
<1>2. ASSUME NEW n \in 1..m, n - 1 \in T PROVE n \in T
  <2> HIDE DEF V
  <2>1. PICK w : w = [i \in 0..n - 1 |-> V(w, i)]
    BY <1>2
  <2>2. PICK u : u = V(w, n)
    OBVIOUS
  <2>3. PICK v : v = [i \in 0..n |-> IF i = n THEN u ELSE w[i]]
    OBVIOUS
  <2>4. ASSUME NEW i \in 0..n PROVE v[i] = V(v, i)
    <3>1. v[i] = V(w, i)
      <4>1. CASE i = n
        BY <2>2, <2>3, <4>1
      <4>2. CASE i # n
        <5>1. i \in 0..n - 1
          BY <4>2
        <5> QED
          BY <2>1, <2>3, <4>2, <5>1
      <4> QED
        BY <4>1, <4>2
    <3>2. i # 0 => v[i - 1] = w[i - 1]
      <4>1. i # 0 => i - 1 \in 0..n /\ i - 1 # n
        OBVIOUS
      <4> QED
        BY <2>3, <4>1
    <3>3. V(v, i) = V(w, i)
      BY <3>2 DEF V
    <3> QED
      BY <3>1, <3>3
  <2>5. v = [i \in 0..n |-> V(v, i)]
    <3>1. v = [i \in 0..n |-> v[i]]
      BY <2>3
    <3> QED
      BY <2>4, <3>1
  <2>6. n \in 0..m
    OBVIOUS
  <2> QED
    BY <2>5, <2>6
<1>3. \E w : Solves(m, w)
  <2>1. \A i \in 0..m : i \in T
    <3> HIDE DEF T
    <3> QED
      BY <1>1, <1>2, UpTo
  <2>2. m \in 0..m
    OBVIOUS
  <2> HIDE DEF Solves
  <2> QED
    BY <2>1, <2>2
<1>4. Solves(m, c)
  <2> HIDE DEF Solves
  <2> QED
    BY <1>3
<1>5. Return(Unwind, base, path) = c[m]
  BY DEF Return
<1> HIDE DEF c
<1>6. \A i \in 0..m : c[i] = V(c, i)
  <2> HIDE DEF V
  <2> QED
    BY <1>4
<1>7. Returns(c, base, path, m)
  <2>1. c[0] = base
    BY <1>6
  <2>2. ASSUME NEW i \in 1..m PROVE c[i] = Unwind(c[i - 1], path[Len(path) - i])
    <3>1. i \in 0..m /\ i # 0
      OBVIOUS
    <3> QED
      BY <1>6, <3>1
  <2> QED
    BY <2>1, <2>2 DEF Returns
<1> QED
  BY <1>5, <1>7

\* The calls for the nodes after the n-th of the path have returned, the last of them d.
Underway(d, root, f, path, n, key) ==
    /\ Stage(d, root, f, path[n])
    /\ \A a \in 1..n - 1 : Leads(d.h, f, path[a], key, path[a + 1])

\* key is bound to val, and all other keys are as they were.
Bound(h, g, k, f, key, val) ==
    \A x \in Key : Value(k, f, x) = IF x = key THEN val ELSE Value(h, g, x)

LEMMA Climb ==
  ASSUME NEW h, NEW root, NEW g, Tree(h, root, g, 0), Whole(h, g), NEW key \in Key, NEW val \in Val,
         NEW path, Route(h, g, root, key, path), NEW m \in Nat, Len(path) - 1 = m,
         NEW base, base = LeafInsert(h, path[Len(path)], key, val),
         NEW w, Returns(w, base, path, m)
  PROVE  \E f : Stage(w[m], root, f, root) /\ Bound(h, g, w[m].h, f, key, val)
<1> DEFINE Good(i, f) == /\ Underway(w[i], root, f, path, Len(path) - i, key)
                         /\ Bound(h, g, w[i].h, f, key, val)
           T == {i \in 0..m : \E f : Good(i, f)}
<1>1. /\ Len(path) \in Nat /\ Len(path) > 0 /\ Distinct(path) /\ path[1] = root
      /\ \A i \in 1..Len(path) : path[i] \in Nodes(h) /\ key \in g.resp[path[i]]
      /\ \A i \in 1..Len(path) - 1 : Leads(h, g, path[i], key, path[i + 1])
      /\ h.node[path[Len(path)]].leaf
  BY DEF Route
<1>2. \A i, j \in 1..Len(path) : i # j => path[i] # path[j]
  BY <1>1 DEF Distinct
<1>3. w[0] = base /\ \A i \in 1..m : w[i] = Unwind(w[i - 1], path[Len(path) - i])
  BY DEF Returns
<1>4. 0 \in T
  <2>1. PICK l : l = path[Len(path)]
    OBVIOUS
  <2>2. Len(path) \in 1..Len(path)
    BY <1>1
  <2>3. l \in Nodes(h) /\ h.node[l].leaf /\ key \in g.resp[l]
    BY <1>1, <2>1, <2>2
  <2>4. PICK f : /\ Stage(base, root, f, l) /\ Grown(h, g, base.h, f, l)
                 /\ \A x \in Key : Value(base.h, f, x) = IF x = key THEN val ELSE Value(h, g, x)
    BY <2>1, <2>3, LeafInsertIs
  <2>5. Basics(h) /\ Basics(base.h) /\ GhostTyped(h, g) /\ CellInv(h, g, 0)
    <3>1. HeapTyped(h) /\ HeapTyped(base.h)
      BY <2>4 DEF Stage, Tree
    <3> QED
      BY <3>1, HeapBasics DEF Tree
  <2>6. ASSUME NEW a \in 1..Len(path) - 1 PROVE Leads(base.h, f, path[a], key, path[a + 1])
    <3>1. a \in 1..Len(path) /\ a # Len(path)
      BY <1>1
    <3>2. path[a] # l
      BY <1>2, <2>1, <2>2, <3>1
    <3>3. Leads(h, g, path[a], key, path[a + 1])
      BY <1>1
    <3> QED
      BY <2>4, <2>5, <3>2, <3>3, LeadsKept
  <2>7. Len(path) - 0 = Len(path) /\ 0 \in 0..m
    BY <1>1
  <2>8. Underway(base, root, f, path, Len(path), key)
    BY <2>1, <2>4, <2>6 DEF Underway
  <2>9. Bound(h, g, base.h, f, key, val)
    BY <2>4 DEF Bound
  <2>10. Good(0, f)
    BY <1>3, <2>7, <2>8, <2>9
  <2> HIDE DEF Good
  <2> QED
    BY <2>7, <2>10
<1>5. ASSUME NEW i \in 1..m, i - 1 \in T PROVE i \in T
  <2>1. PICK n, p, ch : n = Len(path) - i /\ p = path[n] /\ ch = path[n + 1]
    OBVIOUS
  <2>2. /\ n \in 1..Len(path) - 1 /\ n + 1 = Len(path) - (i - 1) /\ (n + 1) - 1 = n /\ n \in Nat
        /\ n \in 1..n /\ i \in 0..m
    BY <1>1, <2>1
  <2>3. PICK d, g1 : /\ d = w[i - 1] /\ Underway(d, root, g1, path, n + 1, key)
                     /\ Bound(h, g, d.h, g1, key, val)
    BY <1>5, <2>2
  <2>4. Stage(d, root, g1, ch) /\ \A a \in 1..n : Leads(d.h, g1, path[a], key, path[a + 1])
    BY <2>1, <2>2, <2>3 DEF Underway
  <2>5. Leads(d.h, g1, p, key, ch)
    BY <2>1, <2>2, <2>4
  <2>6. PICK u : u = w[i] /\ u = Unwind(d, p)
    BY <1>3, <2>1, <2>3
  <2>7. PICK f : Stage(u, root, f, p) /\ Onward(d.h, g1, u.h, f, p, key)
    BY <2>4, <2>5, <2>6, UnwindStep
  <2>8. ASSUME NEW a \in 1..n - 1 PROVE Leads(u.h, f, path[a], key, path[a + 1])
    <3>1. a \in 1..n /\ a \in 1..Len(path) /\ n \in 1..Len(path) /\ a # n
      BY <1>1, <2>2
    <3>2. path[a] # p
      BY <1>2, <2>1, <3>1
    <3>3. Leads(d.h, g1, path[a], key, path[a + 1])
      BY <2>4, <3>1
    <3> QED
      BY <2>7, <3>2, <3>3 DEF Onward
  <2>9. Underway(u, root, f, path, n, key)
    BY <2>1, <2>7, <2>8 DEF Underway
  <2>10. Bound(h, g, u.h, f, key, val)
    BY <2>3, <2>7 DEF Bound, Onward
  <2>11. Good(i, f)
    BY <2>1, <2>6, <2>9, <2>10
  <2> HIDE DEF Good
  <2> QED
    BY <2>2, <2>11
<1>6. m \in T
  <2> HIDE DEF T
  <2>1. \A i \in 0..m : i \in T
    BY <1>4, <1>5, UpTo
  <2>2. m \in 0..m
    OBVIOUS
  <2> QED
    BY <2>1, <2>2
<1>7. Len(path) - m = 1
  BY <1>1
<1>8. PICK f : Underway(w[m], root, f, path, 1, key) /\ Bound(h, g, w[m].h, f, key, val)
  BY <1>6, <1>7
<1> QED
  BY <1>1, <1>8 DEF Underway

\* d is a tree again, in which key is bound to val.
Regrown(h, root, g, d, key, val) ==
    \E f : /\ Tree(d.h, IF d.up = Null THEN root ELSE d.up, f, 0) /\ Whole(d.h, f)
          /\ Bound(h, g, d.h, f, key, val)

\* A set in a tree that is not empty.
LEMMA GrowIs ==
  ASSUME NEW h, NEW root, NEW g, Tree(h, root, g, 0), Whole(h, g), NEW key \in Key, NEW val \in Val,
         NEW path, path = Path(h, root, key),
         NEW d, d = Return(Unwind, LeafInsert(h, Last(path), key, val), path)
  PROVE  /\ h.node[Last(path)].leaf /\ d.crash = FALSE
         /\ Regrown(h, root, g, d, key, val)
<1>1. Route(h, g, root, key, path)
  BY PathIs
<1>2. Len(path) \in Nat /\ Len(path) > 0 /\ h.node[path[Len(path)]].leaf
  BY <1>1 DEF Route
<1>3. Last(path) = path[Len(path)]
  BY DEF Last
<1>4. PICK m \in Nat : Len(path) - 1 = m
  BY <1>2
<1>5. PICK base : base = LeafInsert(h, path[Len(path)], key, val)
  OBVIOUS
<1>6. PICK w : Returns(w, base, path, m) /\ d = w[m]
  BY <1>3, <1>4, <1>5, ReturnIs
<1>7. PICK f : Stage(d, root, f, root) /\ Bound(h, g, d.h, f, key, val)
  BY <1>1, <1>4, <1>5, <1>6, Climb
<1>8. d.crash = FALSE /\ Tree(d.h, root, f, 0)
  BY <1>7 DEF Stage
<1>9. CASE d.up = 0
  <2>1. Whole(d.h, f)
    BY <1>7, <1>9 DEF Stage
  <2> QED
    BY <1>2, <1>3, <1>7, <1>8, <1>9, <2>1 DEF Null, Regrown
<1>10. CASE d.up # 0
  <2>1. ~d.h.node[root].leaf
    BY <1>8 DEF Tree, RootInv
  <2>2. PICK new : Gap(d.h, f, root, new, PrimaryKey(d.h, d.up)) /\ Crown(d.h, f, root, d.up, new)
    BY <1>7, <1>10, <2>1 DEF Stage, Pending
  <2>3. PICK K : K = PrimaryKey(d.h, d.up)
    OBVIOUS
  <2>4. K = d.h.cell[d.h.node[d.up].first].key
    <3>1. ~d.h.node[d.up].leaf
      BY <2>2, Zenon DEF Crown
    <3> QED
      BY <2>3, <3>1, Zenon DEF PrimaryKey
  <2>5. \E e : Enthroned(d.h, f, d.up, e)
    BY <1>8, <2>2, <2>3, <2>4, NewRoot, Zenon
  <2>6. PICK e : /\ Tree(d.h, d.up, e, 0) /\ Whole(d.h, e)
                 /\ \A x \in Key : Value(d.h, e, x) = Value(d.h, f, x)
    BY <2>5 DEF Enthroned
  <2>7. Bound(h, g, d.h, e, key, val)
    BY <1>7, <2>6 DEF Bound
  <2> QED
    BY <1>2, <1>3, <1>8, <1>10, <2>6, <2>7 DEF Null, Regrown
<1> QED
  BY <1>9, <1>10

\* The heap before the first set.
Bare == [node |-> <<>>, cell |-> <<>>]

\* PlantRoot, when the memory of the new leaves happens to be zero.
LEMMA PlantIs ==
  ASSUME NEW h, h = Bare, NEW key \in Key, NEW val \in Val, NEW k,
         k = [node |-> h.node \o
                       <<LeafNode(<<[key |-> key, val |-> val]>>, (0 + 1) % SizeMod, Null),
                         LeafNode(<<>>, 0, Len(h.node) + 1),
                         InternalNode(1, Len(h.node) + 2, Fresh(h.cell))>>,
              cell |-> Append(h.cell, Cell(key, Len(h.node) + 1, Null))]
  PROVE  Len(h.node) + 3 = 3 /\ HeapTyped(k) /\ Planted(k, key, val)
<1>1. h.node = <<>> /\ h.cell = <<>> /\ Len(h.node) = 0 /\ Len(h.cell) = 0
  BY DEF Bare
<1>2. (0 + 1) % SizeMod = 1 /\ 1 \in 0..SizeMod - 1 /\ 0 \in 0..SizeMod - 1
  <2>1. 0 <= max_size
    BY TreeAssumption DEF max_size
  <2> QED
    BY <2>1, CountUp, TreeAssumption
<1>3. PICK a, b, c, e : /\ a = LeafNode(<<[key |-> key, val |-> val]>>, 1, Null)
                        /\ b = LeafNode(<<>>, 0, 1)
                        /\ c = InternalNode(1, 2, 1)
                        /\ e = Cell(key, 1, Null)
  OBVIOUS
<1>4. k = [node |-> <<>> \o <<a, b, c>>, cell |-> Append(<<>>, e)]
  BY <1>1, <1>2, <1>3 DEF Fresh
<1>5. PICK entry : entry = [key |-> key, val |-> val]
  OBVIOUS
<1>6. PICK E : E = [key : Key, val : Val]
  OBVIOUS
<1>7. <<entry>> \in Seq(E) /\ <<>> \in Seq(E)
  BY <1>5, <1>6
<1>8. a \in NodeType /\ b \in NodeType /\ c \in NodeType /\ e \in CellType
  BY <1>2, <1>3, <1>5, <1>6, <1>7 DEF LeafNode, InternalNode, Cell, Null, NodeType, CellType
<1>9. GoodNode(a, 3, 1) /\ GoodNode(b, 3, 1) /\ GoodNode(c, 3, 1) /\ GoodCell(e, 3, 1)
  BY <1>3, <1>8 DEF GoodNode, GoodCell, LeafNode, InternalNode, Cell, Null
<1>10. PICK node, cell : node = <<a, b, c>> /\ cell = <<e>>
  OBVIOUS
<1>11. k = [node |-> node, cell |-> cell]
  <2> HIDE DEF NodeType, CellType
  <2>1. <<>> \o <<a, b, c>> = <<a, b, c>> /\ Append(<<>>, e) = <<e>>
    OBVIOUS
  <2> QED
    BY <1>4, <1>10, <2>1
<1>12. /\ node \in Seq(NodeType) /\ cell \in Seq(CellType) /\ Len(node) = 3 /\ Len(cell) = 1
       /\ node[1] = a /\ node[2] = b /\ node[3] = c /\ cell[1] = e
  <2> HIDE DEF NodeType, CellType
  <2> QED
    BY <1>8, <1>10
<1>13. HeapTyped(k)
  <2>1. ASSUME NEW n \in 1..Len(node) PROVE GoodNode(node[n], Len(node), Len(cell))
    <3>1. n = 1 \/ n = 2 \/ n = 3
      BY <1>12
    <3> QED
      BY <1>9, <1>12, <3>1
  <2>2. ASSUME NEW n \in 1..Len(cell) PROVE GoodCell(cell[n], Len(node), Len(cell))
    <3>1. n = 1
      BY <1>12
    <3> QED
      BY <1>9, <1>12, <3>1
  <2> QED
    BY <1>11, <1>12, <2>1, <2>2, MakeHeap
<1>14. Planted(k, key, val)
  <2>1. k.node = node /\ k.cell = cell
    BY ONLY <1>11
  <2>2. /\ k.node[1] = LeafNode(<<[key |-> key, val |-> val]>>, 1, Null)
        /\ k.node[2] = LeafNode(<<>>, 0, 1) /\ k.node[3] = InternalNode(1, 2, 1)
        /\ k.cell[1] = Cell(key, 1, Null)
    BY <1>3, <1>12, <2>1, Zenon
  <2> QED
    BY <1>12, <2>1, <2>2, Zenon DEF Planted
<1> QED
  BY <1>1, <1>13, <1>14

------------------------------------------------------------------------------
(* tree::delete_key, when it unlinks no child.                              *)

\* A size that is not zero can be counted down.
LEMMA CountDown ==
  ASSUME NEW x \in Nat, x > 0, x <= max_size
  PROVE  (x + SizeMod - 1) % SizeMod = x - 1
<1>1. SizeMod \in Nat /\ ORDER \in Nat /\ SizeMod > ORDER /\ x <= ORDER - 1
  BY TreeAssumption DEF max_size
<1>2. PICK m, y \in Nat : m = SizeMod /\ y = x - 1
  BY <1>1
<1>3. y < m /\ m > 0 /\ x + SizeMod - 1 = y + m
  BY <1>1, <1>2
<1>4. (y + m) % m = y
  BY ONLY <1>2, <1>3
<1> QED
  BY <1>2, <1>3, <1>4

\* t is the list that leaf_list::delete_key makes of list, in a leaf with the keys R.
ListWithout(list, key, R, t) ==
    /\ Holdable(t, R) /\ t \in Seq([key : Key, val : Val])
    /\ Len(t) = Len(list) - 1 /\ Len(list) > 0
    /\ \A x \in Key : ListGet(t, x, NoValue) = IF x = key THEN NoValue ELSE ListGet(list, x, NoValue)

\* It is what ListDelete gives.
LEMMA LeafListWithout ==
  ASSUME NEW R, R \subseteq Key, NEW list \in Seq([key : Key, val : Val]), Sorted(list),
         \A i \in 1..Len(list) : list[i].key \in R,
         NEW key \in R, Hits(list, key) # {}
  PROVE  ListWithout(list, key, R, ListDelete(list, key))
<1>1. key \in Int /\ key \in Key /\ \A x \in Key : x \in Int
  BY TreeAssumption
<1>2. PICK E : E = [key : Key, val : Val]
  OBVIOUS
<1>3. list \in Seq(Entry(Val)) /\ list \in Seq(E) /\ Len(list) \in Nat
  <2>1. E \subseteq Entry(Val)
    BY <1>1, <1>2 DEF Entry
  <2>2. list \in Seq(E)
    BY <1>2
  <2> QED
    BY <2>1, <2>2, WiderSeq, LenProperties
<1>4. PICK i \in 1..Len(list) : list[i].key = key
  BY DEF Hits
<1>5. PICK t : t = ListDelete(list, key)
  OBVIOUS
<1>6. t \in Seq(Entry(Val)) /\ Sorted(t)
  BY <1>1, <1>3, <1>5, DeleteKeepsSorted
<1>7. /\ Len(t) = Len(list) - 1
      /\ \A j \in 1..(Len(list) - 1) : t[j] = IF j < i THEN list[j] ELSE list[j + 1]
  BY <1>3, <1>4, <1>5, DeleteUnlinks
<1>8. ASSUME NEW j \in 1..Len(t) PROVE t[j].key \in R /\ t[j] \in E
  <2>1. PICK m \in 1..Len(list) : t[j] = list[m]
    <3>1. j \in 1..Len(list) /\ j + 1 \in 1..Len(list)
      BY <1>3, <1>7
    <3>2. t[j] = list[j] \/ t[j] = list[j + 1]
      BY <1>7
    <3> QED
      BY <3>1, <3>2
  <2>2. list[m] \in E
    BY <1>3, ElementOfSeq
  <2> QED
    BY <2>1, <2>2
<1>9. t \in Seq(E)
  <2>1. PICK T : T = Entry(Val) /\ t \in Seq(T)
    BY <1>6
  <2>2. t = [j \in 1..Len(t) |-> t[j]] /\ Len(t) \in Nat
    BY <2>1
  <2>3. t \in [1..Len(t) -> E]
    BY <1>8, <2>2
  <2> QED
    BY <2>2, <2>3, SeqDef
<1>10. Holdable(t, R)
  <2>1. Len(t) \in Nat
    BY <1>9, LenProperties
  <2> QED
    BY <1>6, <1>8, <2>1 DEF Holdable
<1>11. ASSUME NEW x \in Key
       PROVE  ListGet(t, x, NoValue) = IF x = key THEN NoValue ELSE ListGet(list, x, NoValue)
  BY <1>1, <1>3, <1>5, GetAfterDelete
<1>12. Len(list) > 0
  BY <1>3, <1>4
<1> QED
  BY <1>2, <1>5, <1>7, <1>9, <1>10, <1>11, <1>12 DEF ListWithout

\* In tree k key is bound to nothing, and all else is as it was.
Unbound(h, g, k, key) ==
    \A x \in Key : Value(k, g, x) = IF x = key THEN NoValue ELSE Value(h, g, x)

\* leaf_list::delete_key takes the entry out of its leaf, which may be empty then.
LEMMA LeafDeleteIs ==
  ASSUME NEW h, NEW root, NEW g, Tree(h, root, g, 0), Whole(h, g),
         NEW l \in Nodes(h), h.node[l].leaf, NEW key \in g.resp[l],
         NEW d, d = LeafDelete(h, l, key)
  PROVE  /\ Tree(d.h, root, g, 0) /\ Whole(d.h, g) /\ Unbound(h, g, d.h, key)
         /\ d.h.cell = h.cell /\ Nodes(d.h) = Nodes(h)
         /\ \A n \in Nodes(h) : n # l => d.h.node[n] = h.node[n]
         /\ d = [h |-> d.h, child |-> l, key |-> key, val |-> d.val, hung |-> FALSE]
         /\ d.val \in BOOLEAN /\ d.val = (ListGet(h.node[l].list, key, NoValue) # NoValue)
         /\ Len(h.node[l].list) > 1 => d.h.node[l].size # 0
<1> DEFINE R == g.resp[l]
           old == h.node[l].list
<1>1. HeapTyped(h) /\ Basics(h) /\ LeafInv(h, g) /\ R \subseteq Key
  BY HeapBasics DEF Tree, GhostTyped
<1>2. LeafOf(h.node[l], g.home, l, R)
  BY <1>1 DEF LeafInv
<1>3. /\ Sorted(old) /\ h.node[l].size = Len(old) /\ Len(old) <= max_size /\ Len(old) \in Nat
      /\ \A i \in 1..Len(old) : old[i].key \in R
      /\ old \in Seq([key : Key, val : Val]) /\ \A x \in R : g.home[x] = l
  <2>1. /\ Sorted(old) /\ h.node[l].size = Len(old) /\ Len(old) <= max_size
        /\ \A i \in 1..Len(old) : old[i].key \in R
        /\ old \in Seq([key : Key, val : Val]) /\ \A x \in R : g.home[x] = l
    BY <1>1, <1>2 DEF LeafOf, Basics
  <2>2. Len(old) \in Nat
    BY <2>1, LenProperties
  <2> QED
    BY <2>1, <2>2
<1>4. PICK k : k = d.h
  OBVIOUS
<1>5. /\ d = [h |-> k, child |-> l, key |-> key, val |-> d.val, hung |-> FALSE]
      /\ d.val = (Hits(old, key) # {})
      /\ Hits(old, key) = {} => k = h
      /\ Hits(old, key) # {} => k = [h EXCEPT !.node[l].list = ListDelete(@, key),
                                              !.node[l].size = (@ + SizeMod - 1) % SizeMod]
  BY <1>4 DEF LeafDelete
<1>6. CASE Hits(old, key) = {}
  <2>1. ASSUME NEW x \in Key
        PROVE  Value(h, g, x) = IF x = key THEN NoValue ELSE Value(h, g, x)
    <3>1. ListGet(old, key, NoValue) = NoValue
      BY <1>6 DEF ListGet
    <3> QED
      BY <1>3, <3>1 DEF Value
  <2>2. k = h
    BY <1>5, <1>6
  <2>3. Unbound(h, g, k, key)
    BY <2>1, <2>2 DEF Unbound
  <2>4. ListGet(old, key, NoValue) = NoValue /\ (Len(old) > 1 => k.node[l].size # 0)
    BY <1>3, <1>6, <2>2 DEF ListGet
  <2> QED
    BY <1>4, <1>5, <1>6, <2>2, <2>3, <2>4
<1>7. CASE Hits(old, key) # {}
  <2>1. PICK list, v : /\ list = ListDelete(old, key)
                       /\ v = [h.node[l] EXCEPT !.list = list, !.size = Len(list)]
    OBVIOUS
  <2>2. ListWithout(old, key, R, list)
    BY <1>1, <1>3, <1>7, <2>1, LeafListWithout
  <2>3. /\ Holdable(list, R) /\ list \in Seq([key : Key, val : Val]) /\ Len(list) <= max_size
        /\ (h.node[l].size + SizeMod - 1) % SizeMod = Len(list)
        /\ \A x \in Key : ListGet(list, x, NoValue) =
                             IF x = key THEN NoValue ELSE ListGet(old, x, NoValue)
    <3>1. Len(list) = Len(old) - 1 /\ Len(old) > 0 /\ max_size \in Int
      BY <2>2, TreeAssumption DEF ListWithout, max_size
    <3>2. (Len(old) + SizeMod - 1) % SizeMod = Len(list)
      BY <1>3, <3>1, CountDown
    <3> QED
      BY <1>3, <2>2, <3>1, <3>2 DEF ListWithout
  <2>4. k = [h EXCEPT !.node[l] = v]
    <3>1. PICK a, b : a = ListDelete(old, key) /\ b = (h.node[l].size + SizeMod - 1) % SizeMod
      OBVIOUS
    <3>2. k = [h EXCEPT !.node[l].list = a, !.node[l].size = b]
      BY <1>5, <1>7, <3>1
    <3>3. v = [h.node[l] EXCEPT !.list = a, !.size = b]
      BY <2>1, <2>3, <3>1
    <3> QED
      BY <3>2, <3>3
  <2>5. /\ Stored(h, k, l, list) /\ Tree(k, root, g, 0) /\ Whole(k, g)
        /\ Restocked(h, g, k, g, R, list)
    BY <2>1, <2>3, <2>4, StoreIs
  <2>6. Unbound(h, g, k, key)
    <3> SUFFICES ASSUME NEW x \in Key
                 PROVE  Value(k, g, x) = IF x = key THEN NoValue ELSE Value(h, g, x)
      BY DEF Unbound
    <3>1. Value(k, g, x) = IF x \in R THEN ListGet(list, x, NoValue) ELSE Value(h, g, x)
      BY <2>5 DEF Restocked
    <3>2. x \in R => Value(h, g, x) = ListGet(old, x, NoValue)
      BY <1>3 DEF Value
    <3> QED
      BY <2>3, <3>1, <3>2
  <2>7. Len(old) > 1 => k.node[l].size # 0
    <3>1. k.node[l].size = Len(list)
      BY <2>5 DEF Stored
    <3>2. Len(list) = Len(old) - 1
      BY <2>2 DEF ListWithout
    <3> QED
      BY <1>3, <3>1, <3>2
  <2>8. ListGet(old, key, NoValue) # NoValue
    <3>1. PICK E, t : E = [key : Key, val : Val] /\ t = old /\ t \in Seq(E) /\ Sorted(t)
      BY <1>3
    <3>2. t \in Seq(Entry(Val))
      <4>1. E \subseteq Entry(Val)
        BY <3>1, TreeAssumption DEF Entry
      <4>2. t \in Seq(E)
        BY <3>1
      <4> QED
        BY ONLY <4>1, <4>2, WiderSeq
    <3>3. PICK i \in 1..Len(t) : t[i].key = key
      BY <1>7, <3>1 DEF Hits
    <3>4. ListGet(t, key, NoValue) = t[i].val
      BY <3>1, <3>2, <3>3, GetFound
    <3>5. t[i] \in E
      BY ONLY <3>1, <3>3, ElementOfSeq
    <3>6. t[i].val # NoValue
      BY <3>1, <3>5, TreeAssumption
    <3> QED
      BY <3>1, <3>4, <3>6
  <2> QED
    BY <1>4, <1>5, <1>7, <2>5, <2>6, <2>7, <2>8 DEF Stored, Nodes
<1> QED
  BY <1>6, <1>7

\* The same for delete_key: w[i] is what has been done when i of the calls have returned.
Collapses(w, base, path, m) ==
    /\ w[0] = base
    /\ \A i \in 1..m : w[i] = Prune(w[i - 1], path[Len(path) - i])

\* The recursion of Return has a solution.
LEMMA CollapseIs ==
  ASSUME NEW base, NEW path, NEW m \in Nat, Len(path) - 1 = m
  PROVE  \E w : Collapses(w, base, path, m) /\ Return(Prune, base, path) = w[m]
<1> DEFINE V(w, i) == IF i = 0 THEN base ELSE Prune(w[i - 1], path[Len(path) - i])
           Solves(n, w) == w = [i \in 0..n |-> V(w, i)]
           T == {n \in 0..m : \E w : Solves(n, w)}
           c == CHOOSE w : Solves(m, w)
<1>1. 0 \in T
  <2>1. PICK z : z = [i \in 0..0 |-> base]
    OBVIOUS
  <2>2. z = [i \in 0..0 |-> V(z, i)]
    <3>1. \A i \in 0..0 : i = 0 /\ V(z, i) = base
      OBVIOUS
    <3> HIDE DEF V
    <3> QED
      BY <2>1, <3>1
  <2> HIDE DEF Solves
  <2> QED
    BY <2>2 DEF Solves
<1>2. ASSUME NEW n \in 1..m, n - 1 \in T PROVE n \in T
  <2> HIDE DEF V
  <2>1. PICK w : w = [i \in 0..n - 1 |-> V(w, i)]
    BY <1>2
  <2>2. PICK u : u = V(w, n)
    OBVIOUS
  <2>3. PICK v : v = [i \in 0..n |-> IF i = n THEN u ELSE w[i]]
    OBVIOUS
  <2>4. ASSUME NEW i \in 0..n PROVE v[i] = V(v, i)
    <3>1. v[i] = V(w, i)
      <4>1. CASE i = n
        BY <2>2, <2>3, <4>1
      <4>2. CASE i # n
        <5>1. i \in 0..n - 1
          BY <4>2
        <5> QED
          BY <2>1, <2>3, <4>2, <5>1
      <4> QED
        BY <4>1, <4>2
    <3>2. i # 0 => v[i - 1] = w[i - 1]
      <4>1. i # 0 => i - 1 \in 0..n /\ i - 1 # n
        OBVIOUS
      <4> QED
        BY <2>3, <4>1
    <3>3. V(v, i) = V(w, i)
      BY <3>2 DEF V
    <3> QED
      BY <3>1, <3>3
  <2>5. v = [i \in 0..n |-> V(v, i)]
    <3>1. v = [i \in 0..n |-> v[i]]
      BY <2>3
    <3> QED
      BY <2>4, <3>1
  <2>6. n \in 0..m
    OBVIOUS
  <2> QED
    BY <2>5, <2>6
<1>3. \E w : Solves(m, w)
  <2>1. \A i \in 0..m : i \in T
    <3> HIDE DEF T
    <3> QED
      BY <1>1, <1>2, UpTo
  <2>2. m \in 0..m
    OBVIOUS
  <2> HIDE DEF Solves
  <2> QED
    BY <2>1, <2>2
<1>4. Solves(m, c)
  <2> HIDE DEF Solves
  <2> QED
    BY <1>3
<1>5. Return(Prune, base, path) = c[m]
  BY DEF Return
<1> HIDE DEF c
<1>6. \A i \in 0..m : c[i] = V(c, i)
  <2> HIDE DEF V
  <2> QED
    BY <1>4
<1>7. Collapses(c, base, path, m)
  <2>1. c[0] = base
    BY <1>6
  <2>2. ASSUME NEW i \in 1..m PROVE c[i] = Prune(c[i - 1], path[Len(path) - i])
    <3>1. i \in 0..m /\ i # 0
      OBVIOUS
    <3> QED
      BY <1>6, <3>1
  <2> QED
    BY <2>1, <2>2 DEF Collapses
<1> QED
  BY <1>5, <1>7

\* The value that goes up the path has the fields that LeafDelete gives it.
Reports(d) ==
    /\ d = [h |-> d.h, child |-> d.child, key |-> d.key, val |-> d.val, hung |-> d.hung]
    /\ d.val \in BOOLEAN

\* A cell was freed, or nothing has changed; m_size never does.
Trimmed(h, k) ==
    /\ k.cell = h.cell => k = h
    /\ \A n \in Nodes(h) : k.node[n].size = h.node[n].size

\* delete_child does no more than that.
LEMMA DeleteChildIs ==
  ASSUME NEW h, HeapTyped(h), NEW owner, NEW p \in Nodes(h), NEW s \in Seq(Nat), NEW R,
         CellsOf(h, owner, p, s, R), NEW key, NEW r, r = DeleteChild(h, p, key)
  PROVE  Trimmed(h, r.h)
<1>1. PICK t : t = Chain(h.cell, h.node[p].first)
  OBVIOUS
<1>2. /\ Len(t) \in Nat /\ Len(t) > 0 /\ \A i \in 1..Len(t) : t[i] \in Cells(h)
      /\ Len(s) \in Nat
  <2>1. Basics(h) /\ Len(s) > 0 /\ Len(s) \in Nat
    BY HeapBasics, LenProperties DEF CellsOf
  <2>2. Len(t) \in Nat /\ Len(t) >= Len(s) /\ \A i \in 1..Len(t) : t[i] \in Cells(h)
    BY <1>1, <2>1, ChainAlong, Zenon
  <2>3. Len(t) > 0
    BY ONLY <2>1, <2>2
  <2> QED
    BY <2>1, <2>2, <2>3, Zenon
<1>3. PICK q, c : q = h.node /\ c = h.cell /\ h = [node |-> q, cell |-> c]
  BY HeapParts
<1>4. /\ q \in Seq(NodeType) /\ c \in Seq(CellType) /\ p \in 1..Len(q)
      /\ \A d \in 1..Len(c) : c[d].live = TRUE
  <2>1. q \in Seq(NodeType) /\ c \in Seq(CellType)
    BY <1>3, HeapParts
  <2> QED
    BY <1>3, <2>1 DEF HeapTyped, Nodes, Cells
<1>5. \A d \in 1..Len(c) : c[d] \in CellType
  <2> HIDE DEF CellType
  <2> QED
    BY <1>4, ElementOfSeq
<1>6. ASSUME NEW d \in 1..Len(c), NEW f, f = [c EXCEPT ![d].live = FALSE], NEW b, NEW z
      PROVE  f # c /\ [f EXCEPT ![b].next = z] # c
  <2>1. c[d] \in CellType /\ c[d].live = TRUE /\ DOMAIN c = 1..Len(c)
    BY <1>4, <1>5
  <2>2. PICK e : e = [c[d] EXCEPT !.live = FALSE]
    OBVIOUS
  <2>3. e.live = FALSE /\ e \in CellType
    BY <2>1, <2>2 DEF CellType
  <2>4. f[d] = e /\ d \in DOMAIN f
    BY <1>6, <2>1, <2>2
  <2>5. PICK y : y = [f EXCEPT ![b].next = z]
    OBVIOUS
  <2>6. y[d].live = FALSE
    <3>1. CASE b = d
      <4>1. y[d] = [e EXCEPT !.next = z]
        BY <2>4, <2>5, <3>1
      <4> QED
        BY <2>3, <4>1 DEF CellType
    <3>2. CASE b # d
      BY <2>3, <2>4, <2>5, <3>2
    <3> QED
      BY <3>1, <3>2
  <2> QED
    BY <2>1, <2>3, <2>4, <2>5, <2>6
<1>7. 1 \in 1..Len(t) /\ t[1] \in 1..Len(c) /\ (Len(t) # 1 => t[2] \in 1..Len(c))
  <2>1. 1 \in 1..Len(t) /\ (Len(t) # 1 => 2 \in 1..Len(t))
    <3>1. PICK m \in Nat : m = Len(t) /\ m > 0
      BY <1>2
    <3>2. 1 \in 1..m /\ (m # 1 => 2 \in 1..m)
      BY ONLY <3>1
    <3> QED
      BY <3>1, <3>2
  <2> QED
    BY <1>2, <1>3, <2>1 DEF Cells
<1>8. CASE c[t[1]].key = key
  <2>1. PICK f, y : f = [c EXCEPT ![t[1]].live = FALSE] /\ y = [q EXCEPT ![p].first = c[@].next]
    OBVIOUS
  <2>2. r.h = [node |-> y, cell |-> f]
    BY <1>1, <1>3, <1>8, <2>1, Zenon DEF DeleteChild, UnlinkFirst
  <2>3. r.h.node = y /\ r.h.cell = f
    BY <2>2
  <2>4. \A n \in 1..Len(q) : y[n].size = q[n].size
    <3>1. q[p] \in NodeType
      <4> HIDE DEF NodeType
      <4> QED
        BY <1>4, ElementOfSeq
    <3>2. PICK w : w = [q[p] EXCEPT !.first = c[@].next]
      OBVIOUS
    <3>3. w.size = q[p].size
      BY <3>1, <3>2 DEF NodeType
    <3>4. DOMAIN q = 1..Len(q)
      <4> HIDE DEF NodeType
      <4> QED
        BY <1>4
    <3>5. y[p] = w /\ \A n \in 1..Len(q) : n # p => y[n] = q[n]
      BY <1>4, <2>1, <3>2, <3>4
    <3> QED
      BY <3>3, <3>5
  <2>5. f # c
    BY <1>6, <1>7, <2>1
  <2> QED
    BY <1>3, <2>3, <2>4, <2>5 DEF Nodes, Trimmed
<1>9. CASE c[t[1]].key # key /\ Len(t) # 1 /\ c[t[2]].key = key
  <2>1. PICK f : f = [c EXCEPT ![t[2]].live = FALSE]
    OBVIOUS
  <2>2. PICK y : y = [f EXCEPT ![t[1]].next = c[t[2]].next]
    BY Zenon
  <2>3. r.h = [h EXCEPT !.cell = y]
    BY <1>1, <1>3, <1>9, <2>1, <2>2, Zenon DEF DeleteChild
  <2>4. r.h.node = h.node /\ r.h.cell = y
    BY <1>3, <2>3
  <2>5. y # c
    BY <1>6, <1>7, <1>9, <2>1, <2>2
  <2> QED
    BY <1>3, <2>4, <2>5 DEF Trimmed
<1>10. CASE c[t[1]].key # key /\ (Len(t) # 1 => c[t[2]].key # key)
  <2>1. r.h = h
    BY <1>1, <1>3, <1>10, Zenon DEF DeleteChild
  <2> QED
    BY <2>1, Zenon DEF Trimmed
<1> QED
  BY <1>8, <1>9, <1>10

\* The call for the parent of the leaf.
LEMMA PruneFirst ==
  ASSUME NEW d, Reports(d), d.hung = FALSE, HeapTyped(d.h),
         NEW owner, NEW p \in Nodes(d.h), NEW s \in Seq(Nat), NEW R,
         CellsOf(d.h, owner, p, s, R), NEW u, u = Prune(d, p)
  PROVE  /\ Reports(u) /\ u.child = p
         /\ Trimmed(d.h, u.h)
<1>1. PICK h, b, k, v, r : /\ h = d.h /\ b = d.child /\ k = d.key /\ v = d.val
                           /\ r = DeleteChild(h, p, k)
  OBVIOUS
<1>2. d = [h |-> h, child |-> b, key |-> k, val |-> v, hung |-> FALSE] /\ v \in BOOLEAN
  BY <1>1 DEF Reports
<1>3. Trimmed(h, r.h) /\ Trimmed(h, h)
  <2>1. HeapTyped(h) /\ p \in Nodes(h) /\ CellsOf(h, owner, p, s, R) /\ s \in Seq(Nat)
        /\ r = DeleteChild(h, p, k)
    BY <1>1, Zenon
  <2>2. Trimmed(h, r.h)
    BY ONLY <2>1, DeleteChildIs
  <2>3. Trimmed(h, h)
    BY DEF Trimmed
  <2> QED
    BY <2>2, <2>3
<1>4. \/ u = [d EXCEPT !.child = p]
      \/ u = [d EXCEPT !.child = p, !.val = FALSE]
      \/ u = [d EXCEPT !.child = p, !.h = r.h, !.hung = r.hung]
  BY <1>1, <1>2 DEF Prune
<1>5. \/ u = [h |-> h, child |-> p, key |-> k, val |-> v, hung |-> FALSE]
      \/ u = [h |-> h, child |-> p, key |-> k, val |-> FALSE, hung |-> FALSE]
      \/ u = [h |-> r.h, child |-> p, key |-> k, val |-> v, hung |-> r.hung]
  BY <1>2, <1>4
<1>6. u.child = p /\ (u.h = h \/ u.h = r.h) /\ Reports(u)
  <2>1. PICK x, y, z : /\ u = [h |-> x, child |-> p, key |-> k, val |-> y, hung |-> z]
                       /\ x = h \/ x = r.h
                       /\ y = v \/ y = FALSE
    BY <1>5
  <2>2. u.h = x /\ u.child = p /\ u.key = k /\ u.val = y /\ u.hung = z
    BY <2>1
  <2> QED
    BY <1>2, <2>1, <2>2 DEF Reports
<1> QED
  BY <1>1, <1>3, <1>6

\* The calls above it: their children have cells, so nothing more is removed.
LEMMA PruneOn ==
  ASSUME NEW d, Reports(d), ~d.hung => d.h.node[d.child].size # 0, NEW n,
         NEW u, u = Prune(d, n)
  PROVE  /\ Reports(u) /\ u.h = d.h /\ u.val = d.val /\ u.hung = d.hung
         /\ ~u.hung => u.child = n
<1>1. PICK h, b, k, v, z : /\ h = d.h /\ b = d.child /\ k = d.key /\ v = d.val /\ z = d.hung
                           /\ d = [h |-> h, child |-> b, key |-> k, val |-> v, hung |-> z]
  BY DEF Reports
<1>2. CASE d.hung
  <2>1. u = d
    BY <1>2 DEF Prune
  <2> QED
    BY <1>2, <2>1
<1>3. CASE ~d.hung
  <2>1. u = [d EXCEPT !.child = n]
    BY <1>3 DEF Prune
  <2>2. u = [h |-> h, child |-> n, key |-> k, val |-> v, hung |-> z]
    BY <1>1, <2>1
  <2> QED
    BY <1>1, <2>2 DEF Reports
<1> QED
  BY <1>2, <1>3

\* When a delete has returned that took key out of its leaf: d is what the call for the
\* root returned, base what the call for the leaf did.
Shrunk(h, root, g, base, d, key) ==
    /\ Tree(base.h, root, g, 0) /\ Whole(base.h, g) /\ Unbound(h, g, base.h, key)
    /\ base.h.cell = h.cell /\ base.h.node[root].size # 0
    /\ d.h.cell = h.cell => d.h = base.h
    /\ d.val \in BOOLEAN

LEMMA ShrinkIs ==
  ASSUME NEW h, NEW root, NEW g, Tree(h, root, g, 0), Whole(h, g), NEW key \in Key,
         NEW path, path = Path(h, root, key),
         NEW base, base = LeafDelete(h, Last(path), key), NEW d, d = Return(Prune, base, path)
  PROVE  Shrunk(h, root, g, base, d, key)
<1>1. Route(h, g, root, key, path)
  BY PathIs
<1>2. PICK l : l = path[Len(path)] /\ l = Last(path)
  BY DEF Last
<1>3. /\ Len(path) \in Nat /\ Len(path) > 0 /\ path[1] = root
      /\ \A i \in 1..Len(path) : path[i] \in Nodes(h) /\ key \in g.resp[path[i]]
      /\ \A i \in 1..Len(path) - 1 : Leads(h, g, path[i], key, path[i + 1])
      /\ h.node[l].leaf
  BY <1>1, <1>2 DEF Route
<1>4. l \in Nodes(h) /\ key \in g.resp[l]
  <2>1. Len(path) \in 1..Len(path)
    BY <1>3
  <2> QED
    BY <1>2, <1>3, <2>1
<1>5. PICK k : k = base.h
  OBVIOUS
<1>6. /\ Tree(k, root, g, 0) /\ Whole(k, g) /\ Unbound(h, g, k, key) /\ k.cell = h.cell
      /\ Nodes(k) = Nodes(h) /\ \A n \in Nodes(h) : n # l => k.node[n] = h.node[n]
      /\ Reports(base) /\ base.hung = FALSE
  <2>1. base = LeafDelete(h, l, key)
    BY <1>2
  <2>2. /\ Tree(base.h, root, g, 0) /\ Whole(base.h, g) /\ Unbound(h, g, base.h, key)
        /\ base.h.cell = h.cell /\ Nodes(base.h) = Nodes(h)
        /\ \A n \in Nodes(h) : n # l => base.h.node[n] = h.node[n]
        /\ base = [h |-> base.h, child |-> l, key |-> key, val |-> base.val, hung |-> FALSE]
        /\ base.val \in BOOLEAN
    BY <1>3, <1>4, <2>1, LeafDeleteIs
  <2>3. Reports(base) /\ base.hung = FALSE
    BY <2>2 DEF Reports
  <2> QED
    BY <1>5, <2>2, <2>3
<1>7. HeapTyped(k) /\ GhostTyped(k, g) /\ CellInv(k, g, 0)
  BY <1>6 DEF Tree
<1>8. ASSUME NEW i \in 1..Len(path) - 1
      PROVE  /\ path[i] \in Nodes(k) /\ k.node[path[i]].size # 0 /\ g.own[path[i]] \in Seq(Nat)
             /\ CellsOf(k, g.owner, path[i], g.own[path[i]], g.resp[path[i]])
  <2>1. PICK n : n = path[i]
    OBVIOUS
  <2>2. Inner(h, g, n)
    BY <1>3, <2>1 DEF Leads
  <2>3. n # l /\ n \in Nodes(h) /\ ~h.node[n].leaf /\ g.resp[n] # {}
    BY <1>3, <2>2 DEF Inner
  <2>5. n \in Nodes(k)
    BY <1>6, <2>3
  <2>6. Inner(k, g, n)
    BY <1>6, <2>3, <2>5 DEF Inner
  <2>7. CellsOf(k, g.owner, n, g.own[n], g.resp[n])
    BY <1>7, <2>6 DEF CellInv
  <2>8. g.own[n] \in Seq(Nat)
    BY <1>7, <2>5 DEF GhostTyped
  <2>9. k.node[n].size # 0
    <3>1. Len(g.own[n]) > 0 /\ Len(g.own[n]) = k.node[n].size
      BY <2>7, Zenon DEF CellsOf
    <3> QED
      BY <2>8, <3>1, LenProperties
  <2> QED
    BY <2>1, <2>5, <2>7, <2>8, <2>9
<1>9. PICK m \in Nat : Len(path) - 1 = m
  <2>1. PICK L \in Nat : L = Len(path) /\ L > 0
    BY <1>3
  <2>2. L - 1 \in Nat
    BY <2>1
  <2> QED
    BY <2>1, <2>2
<1>10. m # 0
  <2>1. ~h.node[root].leaf
    BY DEF Tree, RootInv
  <2>2. Len(path) # 1
    BY <1>2, <1>3, <2>1
  <2> QED
    BY <1>3, <1>9, <2>2
<1>11. PICK w : Collapses(w, base, path, m) /\ d = w[m]
  BY <1>9, CollapseIs
<1>12. w[0] = base /\ \A i \in 1..m : w[i] = Prune(w[i - 1], path[Len(path) - i])
  BY <1>11 DEF Collapses
<1>13. Reports(w[1]) /\ w[1].child = path[m] /\ Trimmed(k, w[1].h)
  <2>1. m \in 1..Len(path) - 1 /\ 1 \in 1..m /\ Len(path) - 1 = m
    <3>1. PICK L \in Nat : L = Len(path) /\ L - 1 = m
      BY <1>3, <1>9
    <3> QED
      BY <1>10, <3>1
  <2>2. w[1] = Prune(base, path[m])
    <3>1. w[1] = Prune(w[1 - 1], path[Len(path) - 1])
      BY <1>12, <2>1
    <3> QED
      BY <1>12, <2>1, <3>1
  <2>3. PICK p, own, R : p = path[m] /\ own = g.own[p] /\ R = g.resp[p]
    OBVIOUS
  <2>4. p \in Nodes(base.h) /\ own \in Seq(Nat) /\ CellsOf(base.h, g.owner, p, own, R)
    BY <1>5, <1>8, <2>1, <2>3
  <2>5. Reports(w[1]) /\ w[1].child = p /\ Trimmed(base.h, w[1].h)
    <3>1. Reports(base) /\ base.hung = FALSE /\ HeapTyped(base.h) /\ w[1] = Prune(base, p)
      BY <1>5, <1>6, <1>7, <2>2, <2>3
    <3>2. PICK f : f = w[1] /\ f = Prune(base, p)
      BY <3>1
    <3>3. Reports(f) /\ f.child = p /\ Trimmed(base.h, f.h)
      BY ONLY <2>4, <3>1, <3>2, PruneFirst
    <3> QED
      BY <3>2, <3>3
  <2> QED
    BY <1>5, <2>3, <2>5
<1> DEFINE Good(i) == Reports(w[i]) /\ w[i].h = w[1].h /\ (~w[i].hung => w[i].child = path[Len(path) - i])
           T == {i \in 0..m - 1 : Good(i + 1)}
<1>14. 0 \in T
  <2>1. 0 \in 0..m - 1 /\ 0 + 1 = 1 /\ Len(path) - 1 = m
    BY <1>9, <1>10
  <2>2. Good(1)
    BY <1>13, <2>1
  <2> HIDE DEF Good
  <2> QED
    BY <2>1, <2>2
<1>15. ASSUME NEW i \in 1..m - 1, i - 1 \in T PROVE i \in T
  <2>1. /\ (i - 1) + 1 = i /\ i + 1 \in 1..m /\ (i + 1) - 1 = i /\ i \in 0..m - 1
        /\ Len(path) - i \in 1..Len(path) - 1
    BY <1>3, <1>9
  <2>2. Good(i)
    <3> HIDE DEF Good
    <3> QED
      BY <1>15, <2>1
  <2>3. ~w[i].hung => w[i].h.node[w[i].child].size # 0
    <3> SUFFICES ASSUME ~w[i].hung PROVE w[i].h.node[w[i].child].size # 0
      OBVIOUS
    <3>1. PICK n : n = path[Len(path) - i]
      OBVIOUS
    <3>2. n \in Nodes(k) /\ k.node[n].size # 0
      BY <1>8, <2>1, <3>1
    <3>3. w[1].h.node[n].size # 0
      BY <1>13, <3>2 DEF Trimmed
    <3> QED
      BY <2>2, <3>1, <3>3
  <2>4. w[i + 1] = Prune(w[i], path[Len(path) - (i + 1)])
    BY <1>12, <2>1
  <2>5. /\ Reports(w[i + 1]) /\ w[i + 1].h = w[i].h
        /\ ~w[i + 1].hung => w[i + 1].child = path[Len(path) - (i + 1)]
    BY <2>2, <2>3, <2>4, PruneOn
  <2>6. Good(i + 1)
    BY <2>2, <2>5
  <2> HIDE DEF Good
  <2> QED
    BY <2>1, <2>6
<1>16. Good(m)
  <2>1. PICK j \in Nat : j = m - 1 /\ j + 1 = m
    BY <1>10
  <2>2. \A i \in 0..j : i \in T
    <3> HIDE DEF T
    <3> QED
      BY <1>14, <1>15, <2>1, UpTo
  <2>3. j \in 0..j
    OBVIOUS
  <2> HIDE DEF Good
  <2> QED
    BY <2>1, <2>2, <2>3
<1>17. Reports(d) /\ Trimmed(k, d.h)
  BY <1>11, <1>13, <1>16
<1>18. d.val \in BOOLEAN /\ (d.h.cell = h.cell => d.h = k)
  BY <1>6, <1>17 DEF Reports, Trimmed
<1>19. k.node[root].size # 0
  <2>1. 1 \in 1..Len(path) - 1
    BY <1>3, <1>9, <1>10
  <2> QED
    BY <1>3, <1>8, <2>1
<1> QED
  BY <1>5, <1>6, <1>18, <1>19 DEF Shrunk

\* The calls for the path have passed on what the call for the leaf did: no cell is
\* freed, no loop is endless, and d says whether there was an object.
PassedOn(h, g, base, d, key) ==
    /\ d.h = base.h /\ d.h.cell = h.cell /\ d.hung = FALSE
    /\ d.val = (Value(h, g, key) # NoValue)

\* From a leaf with two entries, a delete only takes the entry out.
LEMMA RoomyIs ==
  ASSUME NEW h, NEW root, NEW g, Tree(h, root, g, 0), Whole(h, g), NEW key \in Key,
         NEW path, path = Path(h, root, key), Len(h.node[Last(path)].list) > 1,
         NEW base, base = LeafDelete(h, Last(path), key), NEW d, d = Return(Prune, base, path)
  PROVE  PassedOn(h, g, base, d, key)
<1>1. Route(h, g, root, key, path)
  BY PathIs
<1>2. PICK l : l = path[Len(path)] /\ l = Last(path)
  BY DEF Last
<1>3. /\ Len(path) \in Nat /\ Len(path) > 0
      /\ \A i \in 1..Len(path) : path[i] \in Nodes(h) /\ key \in g.resp[path[i]]
      /\ \A i \in 1..Len(path) - 1 : Leads(h, g, path[i], key, path[i + 1])
      /\ h.node[l].leaf /\ g.home[key] = l
  BY <1>1, <1>2 DEF Route
<1>4. l \in Nodes(h) /\ key \in g.resp[l]
  <2>1. Len(path) \in 1..Len(path)
    BY <1>3
  <2> QED
    BY <1>2, <1>3, <2>1
<1>5. PICK k : k = base.h
  OBVIOUS
<1>6. /\ Tree(k, root, g, 0) /\ k.cell = h.cell
      /\ Nodes(k) = Nodes(h) /\ \A n \in Nodes(h) : n # l => k.node[n] = h.node[n]
      /\ Reports(base) /\ base.hung = FALSE /\ base.child = l /\ k.node[l].size # 0
      /\ base.val = (Value(h, g, key) # NoValue)
  <2>1. base = LeafDelete(h, l, key) /\ Len(h.node[l].list) > 1
    BY <1>2
  <2>2. /\ Tree(base.h, root, g, 0) /\ base.h.cell = h.cell /\ Nodes(base.h) = Nodes(h)
        /\ \A n \in Nodes(h) : n # l => base.h.node[n] = h.node[n]
        /\ base = [h |-> base.h, child |-> l, key |-> key, val |-> base.val, hung |-> FALSE]
        /\ base.val \in BOOLEAN
        /\ base.val = (ListGet(h.node[l].list, key, NoValue) # NoValue)
        /\ base.h.node[l].size # 0
    BY <1>3, <1>4, <2>1, LeafDeleteIs
  <2>3. Reports(base) /\ base.hung = FALSE /\ base.child = l
    BY <2>2 DEF Reports
  <2>4. Value(h, g, key) = ListGet(h.node[l].list, key, NoValue)
    BY <1>3 DEF Value
  <2> QED
    BY <1>5, <2>2, <2>3, <2>4
<1>7. CellInv(k, g, 0) /\ GhostTyped(k, g)
  BY <1>6 DEF Tree
<1>8. ASSUME NEW i \in 1..Len(path) - 1
      PROVE  k.node[path[i]].size # 0
  <2>1. PICK n : n = path[i]
    OBVIOUS
  <2>2. Inner(h, g, n)
    BY <1>3, <2>1 DEF Leads
  <2>3. n # l /\ n \in Nodes(h) /\ ~h.node[n].leaf /\ g.resp[n] # {}
    BY <1>3, <2>2 DEF Inner
  <2>4. Inner(k, g, n)
    BY <1>6, <2>3 DEF Inner
  <2>5. CellsOf(k, g.owner, n, g.own[n], g.resp[n])
    BY <1>7, <2>4 DEF CellInv
  <2>6. g.own[n] \in Seq(Nat)
    BY <1>6, <1>7, <2>3 DEF GhostTyped
  <2>7. Len(g.own[n]) > 0 /\ Len(g.own[n]) = k.node[n].size
    BY <2>5, Zenon DEF CellsOf
  <2> QED
    BY <2>1, <2>6, <2>7, LenProperties
<1>9. PICK m \in Nat : Len(path) - 1 = m
  <2>1. PICK L \in Nat : L = Len(path) /\ L > 0
    BY <1>3
  <2>2. L - 1 \in Nat
    BY <2>1
  <2> QED
    BY <2>1, <2>2
<1>10. PICK w : Collapses(w, base, path, m) /\ d = w[m]
  BY <1>9, CollapseIs
<1>11. w[0] = base /\ \A i \in 1..m : w[i] = Prune(w[i - 1], path[Len(path) - i])
  BY <1>10 DEF Collapses
<1> DEFINE Good(i) == /\ Reports(w[i]) /\ w[i].h = k /\ w[i].val = base.val
                      /\ w[i].hung = FALSE /\ w[i].child = path[Len(path) - i]
           T == {i \in 0..m : Good(i)}
<1>last. path[Len(path) - 0] = l
  <2>1. PICK L \in Nat : L = Len(path) /\ L - 0 = L
    BY <1>3
  <2> QED
    BY ONLY <1>2, <2>1
<1>12. 0 \in T
  <2>1. 0 \in 0..m /\ path[Len(path) - 0] = l
    BY ONLY <1>last, m \in Nat
  <2>2. Good(0)
    BY <1>5, <1>6, <1>11, <2>1
  <2> HIDE DEF Good
  <2> QED
    BY <2>1, <2>2
<1>13. ASSUME NEW i \in 1..m, i - 1 \in T PROVE i \in T
  <2>1. PICK j \in Nat : j = i - 1 /\ i = j + 1 /\ i \in 0..m
    OBVIOUS
  <2>2. Good(j)
    <3> HIDE DEF Good
    <3> QED
      BY <1>13, <2>1
  <2>3. w[j].h.node[w[j].child].size # 0
    <3>1. CASE j = 0
      <4>1. path[Len(path) - j] = l
        BY ONLY <1>last, <3>1
      <4> QED
        BY <1>6, <2>2, <4>1
    <3>2. CASE j # 0
      <4>1. Len(path) - j \in 1..Len(path) - 1
        BY <1>3, <1>9, <2>1, <3>2
      <4> QED
        BY <1>8, <2>2, <4>1
    <3> QED
      BY <3>1, <3>2
  <2>4. w[i] = Prune(w[j], path[Len(path) - i])
    BY <1>11, <2>1
  <2>5. /\ Reports(w[i]) /\ w[i].h = w[j].h /\ w[i].val = w[j].val /\ w[i].hung = w[j].hung
        /\ ~w[i].hung => w[i].child = path[Len(path) - i]
    BY <2>2, <2>3, <2>4, PruneOn
  <2>6. Good(i)
    BY <2>2, <2>5
  <2> HIDE DEF Good
  <2> QED
    BY <2>1, <2>6
<1>14. Good(m)
  <2>1. \A i \in 0..m : i \in T
    <3> HIDE DEF T
    <3> QED
      BY <1>12, <1>13, UpTo
  <2>2. m \in 0..m
    OBVIOUS
  <2> HIDE DEF Good
  <2> QED
    BY <2>1, <2>2
<1> QED
  BY <1>5, <1>6, <1>10, <1>14 DEF PassedOn

------------------------------------------------------------------------------
(* tree::get.                                                               *)

\* Get in any heap.
Found(h, root, x) ==
    LET found == [n \in 1..Len(h.node) |->
                      IF h.node[n].leaf THEN ListGet(h.node[n].list, x, NoValue) ELSE "crash"]
    IN  IF root = Null THEN NoValue ELSE found[Last(Path(h, root, x))]

LEMMA GetIsFound == \A x : Get(x) = Found(heap, m_root, x)
BY DEF Get, Found

LEMMA FoundIs ==
  ASSUME NEW h, NEW root, NEW g, Tree(h, root, g, 0), Whole(h, g), NEW x \in Key
  PROVE  root # Null /\ Found(h, root, x) = Value(h, g, x)
<1>1. root # Null /\ root \in Nodes(h)
  <2>1. root \in Nodes(h)
    BY DEF Tree, RootInv
  <2> QED
    BY <2>1 DEF Nodes, Null
<1>2. PICK p : p = Path(h, root, x)
  OBVIOUS
<1>3. Route(h, g, root, x, p)
  BY <1>2, PathIs
<1>4. PICK l : l = p[Len(p)] /\ l = Last(p)
  BY DEF Last
<1>5. l \in Nodes(h) /\ h.node[l].leaf /\ g.home[x] = l
  <2>1. Len(p) \in 1..Len(p)
    BY <1>3 DEF Route
  <2> QED
    BY <1>3, <1>4, <2>1 DEF Route
<1>6. Found(h, root, x) = ListGet(h.node[l].list, x, NoValue)
  BY <1>1, <1>2, <1>4, <1>5 DEF Found, Nodes
<1> QED
  BY <1>1, <1>5, <1>6 DEF Value

------------------------------------------------------------------------------
(* The specification.                                                       *)

\* The memory of a new leaf happens to be zero.
Zeroed == Uninit = {0}

\* Nor does the caller ever delete.
SetOnly == Calls = {"set"} /\ Zeroed

\* A delete that returns and frees no cell.  It may leave a leaf empty: delete_child is
\* not called for a parent's m_lesser, nor does it find a key that is not in its list.
DeleteEntry(key) == Delete(key) /\ status' = "ok" /\ heap'.cell = heap.cell

\* Any sets, and deletes that unlink no child.
SparingNext == \E key \in Key : DeleteEntry(key) \/ \E val \in Val : Set(key, val)
SparingSpec == Init /\ [][SparingNext]_vars

\* The leaf that a call for key comes to has an entry left when one is deleted.
Roomy(key) == m_root # Null => Len(heap.node[Last(Path(heap, m_root, key))].list) > 1

\* Any sets, and deletes by a caller who sees to that.
RoomyNext ==
    \E key \in Key : \/ Roomy(key) /\ Delete(key)
                     \/ \E val \in Val : Set(key, val)
RoomySpec == Init /\ [][RoomyNext]_vars

\* Such a delete returns, frees nothing and tells whether there was an object.
DeleteTells ==
    \A key \in Key : Roomy(key) /\ Delete(key) =>
                        DeleteEntry(key) /\ ret' = (Get(key) # NoValue)

\* Between two calls, the heap is a tree.
TreeInv ==
    /\ status = "ok"
    /\ ret \in BOOLEAN
    /\ call \in CallType
    /\ IF m_root = Null THEN heap = Bare
       ELSE \E g : Tree(heap, m_root, g, 0) /\ Whole(heap, g)

\* What a set does, as get sees it.
Binds(key, val) ==
    \A x \in Key : Found(heap', m_root', x) = IF x = key THEN val ELSE Found(heap, m_root, x)

\* What a delete does, as get sees it.
Unbinds(key) ==
    \A x \in Key : Found(heap', m_root', x) = IF x = key THEN NoValue ELSE Found(heap, m_root, x)

LEMMA PlantStep ==
  ASSUME Zeroed, TreeInv, m_root = Null, NEW key \in Key, NEW val \in Val, PlantRoot(key, val)
  PROVE  /\ \E g : Tree(heap', m_root', g, 0) /\ Whole(heap', g)
         /\ status' = status /\ m_root' # Null /\ Binds(key, val)
<1>1. heap = Bare
  BY DEF TreeInv
<1>2. PICK h, k : h = heap /\ k = heap'
  OBVIOUS
<1>3. /\ k = [node |-> h.node \o
                       <<LeafNode(<<[key |-> key, val |-> val]>>, (0 + 1) % SizeMod, Null),
                         LeafNode(<<>>, 0, Len(h.node) + 1),
                         InternalNode(1, Len(h.node) + 2, Fresh(h.cell))>>,
              cell |-> Append(h.cell, Cell(key, Len(h.node) + 1, Null))]
      /\ m_root' = Len(h.node) + 3 /\ status' = status
  BY <1>2 DEF PlantRoot, Zeroed
<1>4. m_root' = 3 /\ HeapTyped(k) /\ Planted(k, key, val)
  BY <1>1, <1>2, <1>3, PlantIs
<1>5. PICK g : /\ Tree(k, 3, g, 0) /\ Whole(k, g)
               /\ \A x \in Key : Value(k, g, x) = IF x = key THEN val ELSE NoValue
  BY <1>4, Plant
<1>6. Binds(key, val)
  <2> SUFFICES ASSUME NEW x \in Key
               PROVE  Found(k, 3, x) = IF x = key THEN val ELSE Found(h, m_root, x)
    BY <1>2, <1>4 DEF Binds
  <2>1. Found(k, 3, x) = Value(k, g, x)
    BY <1>5, FoundIs
  <2>2. Found(h, m_root, x) = NoValue
    BY DEF Found
  <2> QED
    BY <1>5, <2>1, <2>2
<1> QED
  BY <1>2, <1>3, <1>4, <1>5, <1>6 DEF Null

LEMMA GrowStep ==
  ASSUME TreeInv, m_root # Null, NEW key \in Key, NEW val \in Val, Grow(key, val)
  PROVE  /\ \E g : Tree(heap', m_root', g, 0) /\ Whole(heap', g)
         /\ status' = status /\ m_root' # Null /\ Binds(key, val)
<1>1. PICK g : Tree(heap, m_root, g, 0) /\ Whole(heap, g)
  BY DEF TreeInv
<1>2. PICK path : path = Path(heap, m_root, key)
  OBVIOUS
<1>3. PICK d : d = Return(Unwind, LeafInsert(heap, Last(path), key, val), path)
  OBVIOUS
<1>4. /\ heap.node[Last(path)].leaf /\ d.crash = FALSE
      /\ Regrown(heap, m_root, g, d, key, val)
  BY <1>1, <1>2, <1>3, GrowIs
<1>5. /\ heap' = d.h /\ status' = status
      /\ m_root' = IF d.up = Null THEN m_root ELSE d.up
  BY <1>2, <1>3, <1>4 DEF Grow
<1>6. PICK f : /\ Tree(heap', m_root', f, 0) /\ Whole(heap', f)
               /\ Bound(heap, g, heap', f, key, val)
  BY <1>4, <1>5 DEF Regrown
<1>7. Binds(key, val)
  <2> SUFFICES ASSUME NEW x \in Key
               PROVE  Found(heap', m_root', x) = IF x = key THEN val ELSE Found(heap, m_root, x)
    BY DEF Binds
  <2>1. Found(heap', m_root', x) = Value(heap', f, x)
    BY <1>6, FoundIs
  <2>2. Found(heap, m_root, x) = Value(heap, g, x)
    BY <1>1, FoundIs
  <2> QED
    BY <1>6, <2>1, <2>2 DEF Bound
<1>8. m_root' # Null
  <2>1. CASE \E x : x \in Key
    BY <1>6, <2>1, FoundIs
  <2> QED
    BY <2>1
<1> QED
  BY <1>5, <1>6, <1>7, <1>8

LEMMA ShrinkStep ==
  ASSUME TreeInv, m_root # Null, NEW key \in Key, Shrink(key),
         status' = "ok", heap'.cell = heap.cell
  PROVE  /\ \E g : Tree(heap', m_root', g, 0) /\ Whole(heap', g)
         /\ ret' \in BOOLEAN /\ m_root' # Null /\ Unbinds(key)
<1>1. PICK g : Tree(heap, m_root, g, 0) /\ Whole(heap, g)
  BY DEF TreeInv
<1>2. PICK path : path = Path(heap, m_root, key)
  OBVIOUS
<1>3. PICK base, d : /\ base = LeafDelete(heap, Last(path), key)
                     /\ d = Return(Prune, base, path)
  BY Zenon
<1>4. /\ heap' = d.h /\ ~d.hung /\ ret' = d.val
      /\ m_root' = IF d.val /\ d.h.node[m_root].size = 0 THEN Null ELSE m_root
  <2>1. status' # "crashed"
    OBVIOUS
  <2>2. /\ heap' = d.h
        /\ status' = IF d.hung THEN "hung" ELSE "ok"
        /\ ret' = IF d.hung THEN ret ELSE d.val
        /\ m_root' = IF d.val /\ d.h.node[m_root].size = 0 THEN Null ELSE m_root
    BY <1>2, <1>3, <2>1, Zenon DEF Shrink
  <2> QED
    BY <2>2
<1>5. Shrunk(heap, m_root, g, base, d, key)
  BY <1>1, <1>2, <1>3, ShrinkIs
<1>6. heap' = base.h /\ d.val \in BOOLEAN /\ m_root' = m_root
  BY <1>4, <1>5 DEF Shrunk
<1>7. Tree(heap', m_root', g, 0) /\ Whole(heap', g) /\ Unbound(heap, g, heap', key)
  BY <1>5, <1>6 DEF Shrunk
<1>8. Unbinds(key)
  <2> SUFFICES ASSUME NEW x \in Key
               PROVE  Found(heap', m_root', x) = IF x = key THEN NoValue ELSE Found(heap, m_root, x)
    BY DEF Unbinds
  <2>1. Found(heap', m_root', x) = Value(heap', g, x)
    BY <1>7, FoundIs
  <2>2. Found(heap, m_root, x) = Value(heap, g, x)
    BY <1>1, FoundIs
  <2> QED
    BY <1>7, <2>1, <2>2 DEF Unbound
<1> QED
  BY <1>4, <1>6, <1>7, <1>8

\* The call that was made binds the key it was given to the value it was given, or unbinds
\* the key.
Obeys ==
    \E key \in Key : \/ call' = DeleteCall(key) /\ Unbinds(key)
                     \/ \E val \in Val : call' = SetCall(key, val) /\ Binds(key, val)

LEMMA StepBinds ==
  ASSUME Zeroed, TreeInv, SparingNext
  PROVE  TreeInv' /\ Obeys
<1>1. PICK key \in Key : DeleteEntry(key) \/ \E val \in Val : Set(key, val)
  BY DEF SparingNext
<1>2. CASE \E val \in Val : Set(key, val)
  <2>1. PICK val \in Val : Set(key, val)
    BY <1>2
  <2>2. IF m_root = Null THEN PlantRoot(key, val) ELSE Grow(key, val)
    BY <2>1 DEF Set
  <2>3. /\ \E g : Tree(heap', m_root', g, 0) /\ Whole(heap', g)
        /\ status' = status /\ m_root' # Null /\ Binds(key, val)
    BY <2>2, PlantStep, GrowStep
  <2>4. status = "ok" /\ ret' = ret /\ ret \in BOOLEAN /\ call' = SetCall(key, val)
    BY <2>1 DEF Set, TreeInv
  <2>5. call' \in CallType
    BY <2>4 DEF CallType
  <2>6. TreeInv'
    BY <2>3, <2>4, <2>5 DEF TreeInv
  <2> QED
    BY <2>3, <2>4, <2>6 DEF Obeys
<1>3. CASE DeleteEntry(key) /\ m_root = Null
  <2>1. /\ ret' = FALSE /\ m_root' = m_root /\ heap' = heap /\ status' = status
        /\ call' = DeleteCall(key)
    BY <1>3 DEF DeleteEntry, Delete
  <2>2. TreeInv'
    <3>1. call' \in CallType
      BY <2>1 DEF CallType
    <3> QED
      BY <2>1, <3>1 DEF TreeInv
  <2>3. Unbinds(key)
    BY <1>3, <2>1 DEF Unbinds, Found
  <2> QED
    BY <2>1, <2>2, <2>3 DEF Obeys
<1>4. CASE DeleteEntry(key) /\ m_root # Null
  <2>1. /\ Shrink(key) /\ status' = "ok" /\ heap'.cell = heap.cell
        /\ call' = DeleteCall(key)
    BY <1>4 DEF DeleteEntry, Delete
  <2>2. /\ \E g : Tree(heap', m_root', g, 0) /\ Whole(heap', g)
        /\ ret' \in BOOLEAN /\ m_root' # Null /\ Unbinds(key)
    BY <1>4, <2>1, ShrinkStep
  <2>3. TreeInv'
    <3>1. call' \in CallType
      BY <2>1 DEF CallType
    <3> QED
      BY <2>1, <2>2, <3>1 DEF TreeInv
  <2> QED
    BY <2>1, <2>2, <2>3 DEF Obeys
<1> QED
  BY <1>1, <1>2, <1>3, <1>4

LEMMA InitInv == Init => TreeInv
<1> SUFFICES ASSUME Init PROVE TreeInv
  OBVIOUS
<1>1. status = "ok" /\ ret = FALSE /\ m_root = Null /\ heap = Bare
  BY DEF Init, Bare
<1>2. call \in CallType
  BY DEF Init, CallType
<1> QED
  BY <1>1, <1>2 DEF TreeInv

\* Whatever is set and taken out of the leaves, nodes that share cells included, the heap
\* stays a tree in which a call for each key comes to the one leaf that may hold it.
THEOREM SparingTree == Zeroed => (SparingSpec => []TreeInv)
<1> SUFFICES ASSUME Zeroed PROVE SparingSpec => []TreeInv
  OBVIOUS
<1>1. Init => TreeInv
  BY InitInv
<1>2. TreeInv /\ [SparingNext]_vars => TreeInv'
  <2>1. CASE SparingNext
    BY <2>1, StepBinds
  <2>2. CASE UNCHANGED vars
    BY <2>2 DEF vars, TreeInv
  <2> QED
    BY <2>1, <2>2
<1> QED
  BY <1>1, <1>2, PTL DEF SparingSpec

\* Without deletes, Spec itself is sparing.
LEMMA SetsAreSparing == SetOnly => Zeroed /\ (Spec => SparingSpec)
<1> SUFFICES ASSUME SetOnly PROVE Spec => SparingSpec
  BY DEF SetOnly
<1>1. [Next]_vars => [SparingNext]_vars
  BY DEF SetOnly, Next, SparingNext, Delete
<1> QED
  BY <1>1, PTL DEF Spec, SparingSpec

\* The same for Spec, if the caller never deletes.
THEOREM TreeCorrect == SetOnly => (Spec => []TreeInv)
BY SetsAreSparing, SparingTree

\* What a roomy delete does, in a tree.
LEMMA RoomyStep ==
  ASSUME TreeInv, NEW key \in Key, Roomy(key), Delete(key)
  PROVE  DeleteEntry(key) /\ ret' = (Get(key) # NoValue)
<1>1. Get(key) = Found(heap, m_root, key) /\ status = "ok"
  BY GetIsFound DEF TreeInv
<1>2. CASE m_root = Null
  <2>1. ret' = FALSE /\ heap' = heap /\ status' = status
    BY <1>2 DEF Delete
  <2>2. Found(heap, m_root, key) = NoValue
    BY <1>2 DEF Found
  <2> QED
    BY <1>1, <2>1, <2>2 DEF DeleteEntry
<1>3. CASE m_root # Null
  <2>1. PICK g : Tree(heap, m_root, g, 0) /\ Whole(heap, g)
    BY <1>3 DEF TreeInv
  <2>2. PICK path : path = Path(heap, m_root, key) /\ Route(heap, g, m_root, key, path)
    BY <2>1, PathIs
  <2>3. PICK l : l = Last(path) /\ l = path[Len(path)]
    BY DEF Last
  <2>4. Len(heap.node[l].list) > 1 /\ heap.node[l].list # <<>> /\ heap.node[l].leaf
    <3>1. Len(heap.node[l].list) > 1
      BY <1>3, <2>2, <2>3 DEF Roomy
    <3>2. heap.node[l].list # <<>>
      <4> SUFFICES ASSUME heap.node[l].list = <<>> PROVE FALSE
        OBVIOUS
      <4>1. Len(<<>>) = 0
        BY EmptySeq
      <4> QED
        BY <3>1, <4>1
    <3>3. heap.node[l].leaf
      BY <2>2, <2>3 DEF Route
    <3> QED
      BY <3>1, <3>2, <3>3
  <2>5. PICK base, d : /\ base = LeafDelete(heap, Last(path), key)
                       /\ d = Return(Prune, base, path)
    BY Zenon
  <2>6. /\ d.h.cell = heap.cell /\ d.hung = FALSE
        /\ d.val = (Value(heap, g, key) # NoValue)
    <3>1. PICK h, root : h = heap /\ root = m_root
      OBVIOUS
    <3>2. /\ Tree(h, root, g, 0) /\ Whole(h, g) /\ path = Path(h, root, key)
          /\ Len(h.node[Last(path)].list) > 1
          /\ base = LeafDelete(h, Last(path), key) /\ d = Return(Prune, base, path)
      BY <2>1, <2>2, <2>3, <2>4, <2>5, <3>1, Zenon
    <3>3. PassedOn(h, g, base, d, key)
      BY ONLY <3>2, key \in Key, RoomyIs
    <3> QED
      BY <3>1, <3>3 DEF PassedOn
  <2>7. /\ heap' = d.h
        /\ status' = IF d.hung THEN "hung" ELSE "ok"
        /\ ret' = IF d.hung THEN ret ELSE d.val
    <3>1. Shrink(key)
      BY <1>3 DEF Delete
    <3> QED
      BY <2>2, <2>3, <2>4, <2>5, <3>1, Zenon DEF Shrink
  <2>8. Found(heap, m_root, key) = Value(heap, g, key)
    BY <2>1, FoundIs
  <2> QED
    BY <1>1, <2>6, <2>7, <2>8 DEF DeleteEntry
<1> QED
  BY <1>2, <1>3

\* A roomy delete is sparing: what is shown of SparingSpec holds for a caller who deletes
\* only from leaves that have another entry, whatever happens inside the call.
THEOREM RoomyIsSparing == Zeroed => (RoomySpec => SparingSpec)
<1> SUFFICES ASSUME Zeroed PROVE RoomySpec => SparingSpec
  OBVIOUS
<1>1. Init => TreeInv
  BY InitInv
<1>2. TreeInv /\ [RoomyNext]_vars => [SparingNext]_vars
  BY RoomyStep DEF RoomyNext, SparingNext
<1>3. TreeInv /\ [SparingNext]_vars => TreeInv'
  <2>1. CASE SparingNext
    BY <2>1, StepBinds
  <2>2. CASE UNCHANGED vars
    BY <2>2 DEF vars, TreeInv
  <2> QED
    BY <2>1, <2>2
<1> QED
  BY <1>1, <1>2, <1>3, PTL DEF RoomySpec, SparingSpec

\* tree::delete_key on a leaf with another entry never hangs or crashes, on any level of
\* the way back, and returns true exactly when get would have found the key.
THEOREM RoomyDeletesReturn == Zeroed => (RoomySpec => [][DeleteTells]_vars)
<1> SUFFICES ASSUME Zeroed PROVE RoomySpec => [][DeleteTells]_vars
  OBVIOUS
<1>1. TreeInv => DeleteTells
  BY RoomyStep DEF DeleteTells
<1>2. RoomySpec => []TreeInv
  BY RoomyIsSparing, SparingTree, PTL
<1> QED
  BY <1>1, <1>2, PTL

\* The heap is typed.
LEMMA InvTyped ==
  ASSUME TreeInv PROVE TypeOK
<1>1. CASE m_root = Null
  <2>1. heap.node = <<>> /\ heap.cell = <<>>
    BY <1>1 DEF TreeInv, Bare
  <2>2. heap.node \in Seq(NodeType) /\ heap.cell \in Seq(CellType) /\ Len(heap.node) = 0
    BY <2>1 DEF NodeType, CellType
  <2> QED
    BY <1>1, <2>2 DEF TreeInv, TypeOK, Null
<1>2. CASE m_root # Null
  <2>1. PICK g : Tree(heap, m_root, g, 0) /\ Whole(heap, g)
    BY <1>2 DEF TreeInv
  <2>2. heap.node \in Seq(NodeType) /\ heap.cell \in Seq(CellType) /\ Len(heap.node) \in Nat
    BY <2>1, HeapParts DEF Tree
  <2>3. m_root \in 1..Len(heap.node)
    BY <2>1 DEF Tree, RootInv, Nodes
  <2>4. m_root \in 0..Len(heap.node)
    BY <2>2, <2>3
  <2> QED
    BY <2>2, <2>4 DEF TreeInv, TypeOK
<1> QED
  BY <1>1, <1>2

\* TypeOK: the sizes that the splits compute and that deletes count down stay within
\* size_t.
THEOREM SparingTyped == Zeroed => (SparingSpec => []TypeOK)
<1> SUFFICES ASSUME Zeroed PROVE SparingSpec => []TypeOK
  OBVIOUS
<1>1. TreeInv => TypeOK
  BY InvTyped
<1>2. SparingSpec => []TreeInv
  BY SparingTree
<1> QED
  BY <1>1, <1>2, PTL

\* The splits of leaf and bpt_internal keep TypeOK in Spec, if the caller never deletes.
THEOREM TypeCorrect == SetOnly => (Spec => []TypeOK)
BY SetsAreSparing, SparingTyped

\* Serves: no set dereferences a null pointer, on no level and in no split, also where
\* deletes have left leaves empty.
THEOREM SparingServes == Zeroed => (SparingSpec => []Serves)
<1> SUFFICES ASSUME Zeroed PROVE SparingSpec => []Serves
  OBVIOUS
<1>1. TreeInv => Serves
  BY DEF TreeInv, Serves
<1>2. SparingSpec => []TreeInv
  BY SparingTree
<1> QED
  BY <1>1, <1>2, PTL

\* The same for Spec, if the caller never deletes.
THEOREM ServesCorrect == SetOnly => (Spec => []Serves)
BY SetsAreSparing, SparingServes

\* The sizes in a tree are honest.
LEMMA InvHonest ==
  ASSUME TreeInv PROVE SizesHonest
<1> SUFFICES ASSUME NEW n \in Visited
             PROVE  LET x == heap.node[n]
                    IN  /\ x.size <= max_size
                        /\ IF x.leaf THEN x.size = Len(x.list)
                           ELSE x.size \in 1..Len(Chain(heap.cell, x.first))
  BY DEF SizesHonest
<1>1. m_root # Null
  BY DEF Visited
<1>2. PICK g : Tree(heap, m_root, g, 0) /\ Whole(heap, g)
  BY <1>1 DEF TreeInv
<1>3. PICK key \in Key : n \in ToSet(Path(heap, m_root, key))
  BY <1>1 DEF Visited
<1>4. PICK p : p = Path(heap, m_root, key) /\ Route(heap, g, m_root, key, p)
  BY <1>2, PathIs
<1>5. n \in Nodes(heap) /\ key \in g.resp[n]
  <2>1. PICK i \in DOMAIN p : n = p[i]
    BY <1>3, <1>4 DEF ToSet
  <2>2. DOMAIN p = 1..Len(p)
    BY <1>4 DEF Route
  <2> QED
    BY <1>4, <2>1, <2>2 DEF Route
<1>6. Basics(heap) /\ GhostTyped(heap, g) /\ LeafInv(heap, g) /\ CellInv(heap, g, 0)
  BY <1>2, HeapBasics DEF Tree
<1>7. CASE heap.node[n].leaf
  <2>1. LeafOf(heap.node[n], g.home, n, g.resp[n])
    BY <1>5, <1>6, <1>7 DEF LeafInv
  <2> QED
    BY <1>7, <2>1 DEF LeafOf
<1>8. CASE ~heap.node[n].leaf
  <2>1. PICK s : s = g.own[n]
    OBVIOUS
  <2>2. n # 0
    BY <1>5 DEF Nodes
  <2>3. Inner(heap, g, n)
    BY <1>5, <1>8 DEF Inner
  <2>4. /\ CellsOf(heap, g.owner, n, s, g.resp[n]) /\ heap.node[n].size <= max_size
        /\ s \in Seq(Nat)
    BY <1>5, <1>6, <2>1, <2>2, <2>3 DEF CellInv, GhostTyped
  <2>5. PICK c : c = Len(Chain(heap.cell, heap.node[n].first))
    OBVIOUS
  <2>6. c \in Nat /\ c >= Len(s)
    BY <1>6, <2>4, <2>5, ChainAlong
  <2>7. heap.node[n].size = Len(s) /\ Len(s) > 0 /\ Len(s) \in Nat
    BY <2>4 DEF CellsOf
  <2>8. heap.node[n].size \in 1..c
    BY <2>6, <2>7
  <2> QED
    BY <1>8, <2>4, <2>5, <2>8
<1> QED
  BY <1>7, <1>8

\* SizesHonest: m_size, which the splits trust and leaf_list::delete_key counts down, is
\* what it stands for in every node that a call comes to.
THEOREM SparingSizes == Zeroed => (SparingSpec => []SizesHonest)
<1> SUFFICES ASSUME Zeroed PROVE SparingSpec => []SizesHonest
  OBVIOUS
<1>1. TreeInv => SizesHonest
  BY InvHonest
<1>2. SparingSpec => []TreeInv
  BY SparingTree
<1> QED
  BY <1>1, <1>2, PTL

\* The same for Spec, if the caller never deletes.
THEOREM SizesCorrect == SetOnly => (Spec => []SizesHonest)
BY SetsAreSparing, SparingSizes

\* get finds a value or nothing.
LEMMA FoundTyped ==
  ASSUME NEW h, NEW root, root # Null => \E g : Tree(h, root, g, 0) /\ Whole(h, g), NEW x \in Key
  PROVE  Found(h, root, x) \in Val \union {NoValue}
<1>1. CASE root = Null
  BY <1>1 DEF Found
<1>2. CASE root # Null
  <2>1. PICK g : Tree(h, root, g, 0) /\ Whole(h, g)
    BY <1>2
  <2>2. PICK l, list : l = g.home[x] /\ list = h.node[l].list
    OBVIOUS
  <2>3. l \in Nodes(h) /\ Basics(h)
    BY <2>1, <2>2, HeapBasics DEF Tree, LeafInv
  <2>4. PICK E : E = [key : Key, val : Val] /\ list \in Seq(E)
    BY <2>2, <2>3 DEF Basics
  <2>5. Found(h, root, x) = ListGet(list, x, NoValue)
    BY <2>1, <2>2, FoundIs DEF Value
  <2>6. CASE Hits(list, x) = {}
    BY <2>5, <2>6 DEF ListGet
  <2>7. CASE Hits(list, x) # {}
    <3>1. PICK i \in 1..Len(list) : list[i].key = x
      BY <2>7 DEF Hits
    <3>2. Sorted(list)
      BY <2>1, <2>2, <2>3 DEF Tree, LeafInv, LeafOf
    <3>3. list \in Seq(Entry(Val))
      <4>1. E \subseteq Entry(Val)
        BY <2>4, TreeAssumption DEF Entry
      <4> QED
        BY <2>4, <4>1, WiderSeq
    <3>4. FirstHit(list, x) = i
      BY <3>1, <3>2, <3>3, FirstHitIsOnly
    <3>5. list[i] \in E
      BY <2>4, <3>1, ElementOfSeq
    <3>6. list[i].val \in Val
      BY <2>4, <3>5
    <3> QED
      BY <2>5, <2>7, <3>4, <3>6 DEF ListGet
  <2> QED
    BY <2>6, <2>7
<1> QED
  BY <1>1, <1>2

\* What get finds.
Image == [k \in Key |-> Found(heap, m_root, k)]
Dictionary == INSTANCE KVStore WITH store <- Image, crashed <- status = "crashed"

\* It changes at the key that the call was given, as it was told to.
LEMMA ImageInit ==
  ASSUME Init PROVE Dictionary!Init
<1>1. \A k \in Key : Found(heap, m_root, k) = NoValue
  BY DEF Init, Found
<1> QED
  BY <1>1 DEF Dictionary!Init, Dictionary!NoCall, NoCall, Init, Image

\* The one key that differs.
LEMMA ImageAt ==
  ASSUME NEW key \in Key, NEW bound,
         \A x \in Key : Found(heap', m_root', x) = IF x = key THEN bound ELSE Found(heap, m_root, x)
  PROVE  Image' = [Image EXCEPT ![key] = bound]
BY DEF Image

LEMMA ImageStep ==
  ASSUME Zeroed, TreeInv, TreeInv', [SparingNext]_vars
  PROVE  [Dictionary!Next]_(Dictionary!vars)
<1>1. CASE UNCHANGED vars
  <2>1. Image' = Image /\ call' = call /\ status' = status
    BY <1>1 DEF vars, Image, Found
  <2> QED
    BY <2>1 DEF Dictionary!vars
<1>2. CASE SparingNext
  <2>1. status = "ok" /\ status' = "ok"
    BY DEF TreeInv
  <2>2. PICK key \in Key : \/ call' = DeleteCall(key) /\ Unbinds(key)
                          \/ \E val \in Val : call' = SetCall(key, val) /\ Binds(key, val)
    BY <1>2, StepBinds DEF Obeys
  <2>3. CASE call' = DeleteCall(key) /\ Unbinds(key)
    <3>1. Image' = [Image EXCEPT ![key] = NoValue]
      BY <2>3, ImageAt DEF Unbinds
    <3>2. Dictionary!Delete(key)
      BY <2>1, <2>3, <3>1
         DEF Dictionary!Delete, Dictionary!Leaves, Dictionary!DeleteCall, DeleteCall
    <3> QED
      BY <3>2 DEF Dictionary!Next
  <2>4. CASE \E val \in Val : call' = SetCall(key, val) /\ Binds(key, val)
    <3>1. PICK val \in Val : call' = SetCall(key, val) /\ Binds(key, val)
      BY <2>4
    <3>2. Image' = [Image EXCEPT ![key] = val]
      BY <3>1, ImageAt DEF Binds
    <3>3. Dictionary!Set(key, val)
      BY <2>1, <3>1, <3>2
         DEF Dictionary!Set, Dictionary!Leaves, Dictionary!SetCall, SetCall
    <3> QED
      BY <3>3 DEF Dictionary!Next
  <2> QED
    BY <2>2, <2>3, <2>4
<1> QED
  BY <1>1, <1>2

\* LookupImplementsStore: to the caller of tree::get the tree is a dictionary, through
\* every split on every level and every delete that unlinks no child: after set(key, val)
\* key is bound to val, after delete_key(key) to nothing, and no other key is touched.
THEOREM SparingLookup == Zeroed => (SparingSpec => LookupImplementsStore)
<1> SUFFICES ASSUME Zeroed PROVE SparingSpec => LookupImplementsStore
  OBVIOUS
<1>1. [k \in Key |-> Get(k)] = Image
  BY DEF Image, Get, Found
<1>2. Init => Lookup!Init
  BY <1>1, ImageInit DEF Lookup!Init, Lookup!NoCall, Dictionary!Init, Dictionary!NoCall
<1>3. TreeInv /\ TreeInv' /\ [SparingNext]_vars => [Lookup!Next]_(Lookup!vars)
  <2>1. [k \in Key |-> Get(k)]' = Image'
    BY DEF Image, Get, Found
  <2> QED
    BY <1>1, <2>1, ImageStep
       DEF Lookup!Next, Lookup!Delete, Lookup!Set, Lookup!Leaves, Lookup!SetCall,
           Lookup!DeleteCall, Lookup!vars, Dictionary!Next, Dictionary!Delete,
           Dictionary!Set, Dictionary!Leaves, Dictionary!SetCall, Dictionary!DeleteCall,
           Dictionary!vars
<1>4. SparingSpec => []TreeInv
  BY SparingTree
<1> QED
  BY <1>2, <1>3, <1>4, PTL DEF SparingSpec, LookupImplementsStore, Lookup!Spec

\* The same for Spec, if the caller never deletes.
THEOREM LookupCorrect == SetOnly => (Spec => LookupImplementsStore)
BY SetsAreSparing, SparingLookup

------------------------------------------------------------------------------
(* tree::iterate.                                                           *)

\* m_lesser leads from the root to the leaf where the chain begins.
LEMMA LeftmostIsHead ==
  ASSUME NEW h, NEW root, NEW g, Tree(h, root, g, 0)
  PROVE  LeftmostLeaf(h, root) = g.head
<1>1. Basics(h) /\ GhostTyped(h, g) /\ LeafInv(h, g) /\ SpineInv(h, root, g)
  BY HeapBasics DEF Tree
<1>2. PICK next : next = [n \in 1..Len(h.node) |-> h.node[n].lesser]
  OBVIOUS
<1>3. PICK N \in Nat : N = Len(h.node)
  BY <1>1 DEF Basics
<1>4. next \in [1..N -> 0..N] /\ \A n \in 1..N : next[n] = h.node[n].lesser
  BY <1>1, <1>2, <1>3 DEF Basics, Nodes
<1>5. PICK V : V = g.spine
  OBVIOUS
<1>6. V \subseteq 1..N /\ root \in V
  BY <1>1, <1>3, <1>5 DEF SpineInv, Nodes
<1>7. ASSUME NEW y \in V
      PROVE  /\ g.rank[y] \in Nat /\ next[y] = h.node[y].lesser
             /\ IF h.node[y].leaf THEN y = g.head /\ next[y] = 0
                ELSE next[y] \in V /\ g.rank[next[y]] < g.rank[y] /\ next[y] # 0
  <2>1. y \in Nodes(h) /\ y \in 1..N
    BY <1>3, <1>6 DEF Nodes
  <2>2. g.rank[y] \in Nat /\ next[y] = h.node[y].lesser
    BY <1>1, <1>4, <2>1 DEF GhostTyped
  <2>3. CASE h.node[y].leaf
    BY <1>1, <1>5, <2>1, <2>2, <2>3 DEF SpineInv, LeafInv, LeafOf
  <2>4. CASE ~h.node[y].leaf
    <3>1. h.node[y].lesser \in V /\ g.rank[h.node[y].lesser] < g.rank[y]
      BY <1>1, <1>5, <2>4 DEF SpineInv
    <3>2. h.node[y].lesser # 0
      BY <1>6, <3>1
    <3> QED
      BY <2>2, <2>4, <3>1, <3>2
  <2> QED
    BY <2>3, <2>4
<1>8. Falls(next, V, g.rank)
  BY <1>7 DEF Falls
<1>9. PICK s : s = Trail(next, root) /\ Descends(next, V, g.rank, s)
  BY <1>3, <1>4, <1>6, <1>8, RankedTrail
<1>10. PICK y : y = s[Len(s)]
  OBVIOUS
<1>11. y \in V /\ next[y] = 0
  <2>1. s \in Seq(V) /\ Len(s) > 0 /\ Len(s) \in Nat /\ next[s[Len(s)]] = 0
    BY <1>9 DEF Descends
  <2>2. Len(s) \in 1..Len(s)
    BY <2>1
  <2> QED
    BY <1>10, <2>1, <2>2, ElementOfSeq
<1>12. y = g.head
  BY <1>7, <1>11
<1> QED
  BY <1>2, <1>9, <1>10, <1>12 DEF LeftmostLeaf, Last

\* The leaves.
Leaves(h) == {n \in Nodes(h) : h.node[n].leaf}

\* The chain is not longer than the heap.
LEMMA ChainFits ==
  ASSUME NEW h, NEW root, NEW g, Tree(h, root, g, 0)
  PROVE  g.pos[g.head] < Len(h.node)
<1>1. Basics(h) /\ GhostTyped(h, g) /\ SpineInv(h, root, g) /\ ChainInv(h, g)
  BY HeapBasics DEF Tree
<1>2. PICK next : next = [n \in 1..Len(h.node) |-> h.node[n].next]
  OBVIOUS
<1>3. PICK N \in Nat : N = Len(h.node)
  BY <1>1 DEF Basics
<1>4. PICK V : V = Leaves(h)
  OBVIOUS
<1>5. /\ g.head \in V /\ V \subseteq 1..N
      /\ \A y \in V : y \in Nodes(h) /\ h.node[y].leaf /\ g.pos[y] \in Nat /\ next[y] = h.node[y].next
  BY <1>1, <1>2, <1>3, <1>4 DEF Leaves, SpineInv, GhostTyped, Nodes
<1>6. ASSUME NEW y \in V
      PROVE  /\ next[y] = 0 => g.pos[y] = 0
             /\ next[y] # 0 => next[y] \in V /\ g.pos[next[y]] = g.pos[y] - 1
  <2>1. y \in Nodes(h) /\ h.node[y].leaf /\ next[y] = h.node[y].next
    BY <1>5
  <2>2. CASE next[y] = 0
    BY <1>1, <2>1, <2>2 DEF ChainInv
  <2>3. CASE next[y] # 0
    <3>1. h.node[next[y]].leaf /\ g.pos[next[y]] = g.pos[y] - 1
      BY <1>1, <2>1, <2>3 DEF ChainInv
    <3>2. next[y] \in Nodes(h)
      BY <1>1, <2>1, <2>3 DEF Basics, Nodes
    <3> QED
      BY <1>4, <2>3, <3>1, <3>2 DEF Leaves
  <2> QED
    BY <2>2, <2>3
<1>7. Falls(next, V, g.pos)
  <2>1. ASSUME NEW y \in V, next[y] # 0 PROVE next[y] \in V /\ g.pos[next[y]] < g.pos[y]
    <3>1. next[y] \in V /\ g.pos[next[y]] = g.pos[y] - 1 /\ g.pos[y] \in Nat
      BY <1>5, <1>6, <2>1
    <3> QED
      BY <3>1
  <2> QED
    BY <1>5, <2>1 DEF Falls
<1>8. PICK s : Descends(next, V, g.pos, s) /\ s[1] = g.head
  BY <1>5, <1>7, DescentExists
<1>9. /\ s \in Seq(V) /\ Len(s) \in Nat /\ Len(s) > 0 /\ \A i \in 1..Len(s) : s[i] \in V
      /\ \A i \in 1..Len(s) - 1 : next[s[i]] = s[i + 1]
      /\ next[s[Len(s)]] = 0
      /\ \A i, j \in 1..Len(s) : i < j => g.pos[s[j]] < g.pos[s[i]]
  BY <1>8 DEF Descends, Linked
<1>10. PICK P : P = 1..N
  OBVIOUS
<1>11. s \in Seq(P)
  BY <1>5, <1>9, <1>10, WiderSeq
<1>12. Distinct(s)
  <2> SUFFICES ASSUME NEW i \in 1..Len(s), NEW j \in 1..Len(s), s[i] = s[j], i # j
               PROVE  FALSE
    BY DEF Distinct
  <2>1. g.pos[s[i]] \in Nat
    BY <1>5, <1>9
  <2>2. i < j \/ j < i
    BY <1>9
  <2> QED
    BY <1>9, <2>1, <2>2
<1>13. Len(s) <= N
  BY <1>10, <1>11, <1>12, DistinctIsShort
<1>14. PICK m \in Nat : m = Len(s) - 1
  BY <1>9
<1> DEFINE T == {i \in 0..m : g.pos[s[i + 1]] = g.pos[g.head] - i}
<1>15. 0 \in T
  <2>1. 0 \in 0..m /\ 0 + 1 = 1
    BY <1>14
  <2>2. g.pos[g.head] - 0 = g.pos[g.head]
    <3>1. g.pos[g.head] \in Nat
      BY <1>5
    <3> QED
      BY <3>1
  <2> QED
    BY <1>8, <2>1, <2>2
<1>16. ASSUME NEW i \in 1..m, i - 1 \in T PROVE i \in T
  <2>1. PICK a, b : a = s[i] /\ b = s[i + 1]
    OBVIOUS
  <2>2. i \in 1..Len(s) - 1 /\ i \in 1..Len(s) /\ i + 1 \in 1..Len(s) /\ (i - 1) + 1 = i /\ i \in 0..m
    BY <1>9, <1>14
  <2>3. a \in V /\ b \in V /\ next[a] = b /\ b # 0
    BY <1>5, <1>9, <2>1, <2>2
  <2>4. g.pos[b] = g.pos[a] - 1
    BY <1>6, <2>3
  <2>5. g.pos[a] = g.pos[g.head] - (i - 1)
    BY <1>16, <2>1, <2>2
  <2>6. g.pos[a] \in Nat /\ g.pos[b] \in Nat /\ g.pos[g.head] \in Nat
    BY <1>5, <2>3
  <2>7. g.pos[b] = g.pos[g.head] - i
    BY <2>4, <2>5, <2>6
  <2> QED
    BY <2>1, <2>2, <2>7
<1>17. g.pos[s[m + 1]] = g.pos[g.head] - m
  <2>1. \A i \in 0..m : i \in T
    <3> HIDE DEF T
    <3> QED
      BY <1>15, <1>16, UpTo
  <2>2. m \in 0..m
    OBVIOUS
  <2> QED
    BY <2>1, <2>2
<1>18. g.pos[s[m + 1]] = 0
  <2>1. m + 1 = Len(s) /\ Len(s) \in 1..Len(s)
    BY <1>9, <1>14
  <2> QED
    BY <1>6, <1>9, <2>1
<1>19. g.pos[g.head] \in Nat
  BY <1>5
<1> QED
  BY <1>3, <1>9, <1>13, <1>14, <1>17, <1>18, <1>19

\* Two lists, one after the other.
LEMMA JoinedSet ==
  ASSUME NEW E, NEW a \in Seq(E), NEW b \in Seq(E)
  PROVE  \A e : e \in ToSet(a \o b) <=> e \in ToSet(a) \/ e \in ToSet(b)
<1>1. PICK t : t = a \o b
  OBVIOUS
<1>2. /\ t \in Seq(E) /\ Len(t) = Len(a) + Len(b) /\ Len(a) \in Nat /\ Len(b) \in Nat
      /\ \A i \in 1..Len(t) : t[i] = IF i <= Len(a) THEN a[i] ELSE b[i - Len(a)]
      /\ DOMAIN t = 1..Len(t) /\ DOMAIN a = 1..Len(a) /\ DOMAIN b = 1..Len(b)
  BY <1>1, ConcatProperties, LenProperties
<1>3. ASSUME NEW e \in ToSet(t) PROVE e \in ToSet(a) \/ e \in ToSet(b)
  <2>1. PICK i \in 1..Len(t) : e = t[i]
    BY <1>2 DEF ToSet
  <2>2. CASE i <= Len(a)
    <3>1. i \in 1..Len(a)
      BY <1>2, <2>2
    <3> QED
      BY <1>2, <2>1, <2>2, <3>1 DEF ToSet
  <2>3. CASE ~(i <= Len(a))
    <3>1. i - Len(a) \in 1..Len(b)
      BY <1>2, <2>3
    <3> QED
      BY <1>2, <2>1, <2>3, <3>1 DEF ToSet
  <2> QED
    BY <2>2, <2>3
<1>4. ASSUME NEW e \in ToSet(a) PROVE e \in ToSet(t)
  <2>1. PICK i \in 1..Len(a) : e = a[i]
    BY <1>2 DEF ToSet
  <2>2. i \in 1..Len(t) /\ i <= Len(a)
    BY <1>2
  <2> QED
    BY <1>2, <2>1, <2>2 DEF ToSet
<1>5. ASSUME NEW e \in ToSet(b) PROVE e \in ToSet(t)
  <2>1. PICK i \in 1..Len(b) : e = b[i]
    BY <1>2 DEF ToSet
  <2>2. i + Len(a) \in 1..Len(t) /\ ~(i + Len(a) <= Len(a)) /\ (i + Len(a)) - Len(a) = i
    BY <1>2
  <2>3. t[i + Len(a)] = b[i]
    BY <1>2, <2>2
  <2> QED
    BY <1>2, <2>1, <2>2, <2>3 DEF ToSet
<1> QED
  BY <1>1, <1>3, <1>4, <1>5

LEMMA JoinedSorted ==
  ASSUME NEW E, NEW a \in Seq(E), NEW b \in Seq(E), Sorted(a), Sorted(b),
         \A d \in ToSet(a), e \in ToSet(b) : d.key < e.key
  PROVE  Sorted(a \o b)
<1>1. PICK t : t = a \o b
  OBVIOUS
<1>2. /\ Len(t) = Len(a) + Len(b) /\ Len(a) \in Nat /\ Len(b) \in Nat
      /\ \A i \in 1..Len(t) : t[i] = IF i <= Len(a) THEN a[i] ELSE b[i - Len(a)]
      /\ DOMAIN a = 1..Len(a) /\ DOMAIN b = 1..Len(b)
  BY <1>1, ConcatProperties, LenProperties
<1> SUFFICES ASSUME NEW i \in 1..Len(t), NEW j \in 1..Len(t), i < j PROVE t[i].key < t[j].key
  BY <1>1 DEF Sorted
<1>3. CASE j <= Len(a)
  <2>1. i \in 1..Len(a) /\ j \in 1..Len(a) /\ i <= Len(a)
    BY <1>2, <1>3
  <2> QED
    BY <1>2, <1>3, <2>1 DEF Sorted
<1>4. CASE ~(i <= Len(a))
  <2>1. /\ i - Len(a) \in 1..Len(b) /\ j - Len(a) \in 1..Len(b) /\ i - Len(a) < j - Len(a)
        /\ ~(j <= Len(a))
    BY <1>2, <1>4
  <2>2. t[i] = b[i - Len(a)] /\ t[j] = b[j - Len(a)]
    BY <1>2, <1>4, <2>1
  <2> QED
    BY <2>1, <2>2 DEF Sorted
<1>5. CASE i <= Len(a) /\ ~(j <= Len(a))
  <2>1. i \in 1..Len(a) /\ j - Len(a) \in 1..Len(b)
    BY <1>2, <1>5
  <2>2. t[i] = a[i] /\ t[j] = b[j - Len(a)]
    BY <1>2, <1>5
  <2>3. t[i] \in ToSet(a) /\ t[j] \in ToSet(b)
    BY <1>2, <2>1, <2>2 DEF ToSet
  <2> QED
    BY <2>3
<1> QED
  BY <1>3, <1>4, <1>5

\* t are the entries of the leaves from position j on, in order.
Gathers(h, g, E, t, j) ==
    /\ t \in Seq(E) /\ Sorted(t)
    /\ \A e : e \in ToSet(t) <=> \E n \in Leaves(h) : g.pos[n] <= j /\ e \in ToSet(h.node[n].list)

\* One more leaf in front of them.
LEMMA GatherMore ==
  ASSUME NEW h, NEW root, NEW g, Tree(h, root, g, 0), NEW E, E = [key : Key, val : Val],
         NEW l \in Leaves(h), NEW j \in Nat, g.pos[l] = j, NEW t,
         IF j = 0 THEN t = <<>> ELSE Gathers(h, g, E, t, j - 1)
  PROVE  Gathers(h, g, E, h.node[l].list \o t, j)
<1> DEFINE list == h.node[l].list
<1>1. Basics(h) /\ GhostTyped(h, g) /\ LeafInv(h, g) /\ ChainInv(h, g)
  BY HeapBasics DEF Tree
<1>2. \A n \in Leaves(h) : n \in Nodes(h) /\ h.node[n].leaf /\ g.pos[n] \in Nat
  BY <1>1 DEF Leaves, GhostTyped
<1>3. \A n \in Leaves(h) : h.node[n].list \in Seq(E) /\ LeafOf(h.node[n], g.home, n, g.resp[n])
  BY <1>1, <1>2 DEF Basics, LeafInv
<1>4. \A n \in Leaves(h) : \A e \in ToSet(h.node[n].list) : e.key \in g.resp[n]
  <2> SUFFICES ASSUME NEW n \in Leaves(h), NEW e \in ToSet(h.node[n].list)
               PROVE  e.key \in g.resp[n]
    OBVIOUS
  <2>1. PICK q : q = h.node[n].list /\ q \in Seq(E) /\ \A i \in 1..Len(q) : q[i].key \in g.resp[n]
    BY <1>3 DEF LeafOf
  <2>2. DOMAIN q = 1..Len(q)
    BY <2>1
  <2> QED
    BY <2>1, <2>2 DEF ToSet
<1>5. list \in Seq(E) /\ Sorted(list)
  BY <1>3 DEF LeafOf
<1>6. /\ t \in Seq(E) /\ Sorted(t)
      /\ \A e : e \in ToSet(t) <=>
            \E n \in Leaves(h) : g.pos[n] <= j - 1 /\ e \in ToSet(h.node[n].list)
  <2>1. CASE j = 0
    <3>1. t = <<>> /\ t \in Seq(E)
      BY <2>1
    <3>2. Sorted(t) /\ \A e : e \notin ToSet(t)
      BY <3>1 DEF Sorted, ToSet
    <3>3. \A n \in Leaves(h) : ~(g.pos[n] <= j - 1)
      BY <1>2, <2>1
    <3> QED
      BY <3>1, <3>2, <3>3
  <2>2. CASE j # 0
    BY <2>2 DEF Gathers
  <2> QED
    BY <2>1, <2>2
<1> HIDE DEF list
<1>7. ASSUME NEW d \in ToSet(list), NEW e \in ToSet(t) PROVE d.key < e.key
  <2>1. PICK n \in Leaves(h) : g.pos[n] <= j - 1 /\ e \in ToSet(h.node[n].list)
    BY <1>6
  <2>2. e.key \in g.resp[n] /\ d.key \in g.resp[l]
    BY <1>4, <2>1 DEF list
  <2>3. g.pos[n] < g.pos[l] /\ n # l
    BY <1>2, <2>1
  <2> QED
    BY <1>1, <1>2, <2>2, <2>3 DEF ChainInv
<1>8. PICK u : u = list \o t
  OBVIOUS
<1>9. u \in Seq(E)
  BY <1>5, <1>6, <1>8, ConcatProperties
<1>10. Sorted(u)
  BY <1>5, <1>6, <1>7, <1>8, JoinedSorted
<1>11. \A e : e \in ToSet(u) <=> e \in ToSet(list) \/ e \in ToSet(t)
  BY <1>5, <1>6, <1>8, JoinedSet
<1>12. \A n \in Leaves(h) : g.pos[n] <= j <=> n = l \/ g.pos[n] <= j - 1
  <2> SUFFICES ASSUME NEW n \in Leaves(h) PROVE g.pos[n] <= j <=> n = l \/ g.pos[n] <= j - 1
    OBVIOUS
  <2>1. n # l => g.pos[n] # j
    BY <1>1, <1>2 DEF ChainInv
  <2>2. g.pos[n] \in Nat
    BY <1>2
  <2> QED
    BY <2>1, <2>2
<1>13. \A e : e \in ToSet(u) <=> \E n \in Leaves(h) : g.pos[n] <= j /\ e \in ToSet(h.node[n].list)
  BY <1>6, <1>11, <1>12 DEF list
<1> QED
  BY <1>8, <1>9, <1>10, <1>13 DEF Gathers, list

\* iterate passes all leaves, in order.
LEMMA ListingIs ==
  ASSUME NEW h, NEW root, NEW g, Tree(h, root, g, 0), NEW E, E = [key : Key, val : Val],
         NEW item, item = [l \in 1..Len(h.node) |-> h.node[l].list],
         NEW next, next = [l \in 1..Len(h.node) |-> h.node[l].next]
  PROVE  Gathers(h, g, E, Collect(item, next, g.head), g.pos[g.head])
<1>1. Basics(h) /\ GhostTyped(h, g) /\ SpineInv(h, root, g) /\ ChainInv(h, g)
  BY HeapBasics DEF Tree
<1>2. PICK N \in Nat : N = Len(h.node)
  BY <1>1 DEF Basics
<1>3. /\ next \in [1..N -> 0..N] /\ \A l \in 1..N : next[l] = h.node[l].next
      /\ item \in [1..N -> Seq(E)] /\ \A l \in 1..N : item[l] = h.node[l].list
  BY <1>1, <1>2 DEF Basics, Nodes
<1>4. PICK f : Collects(f, item, next, N)
  BY <1>3, CollectIs, Zenon
<1>5. /\ \A k \in 0..N : f[k][0] = <<>>
      /\ \A k \in 1..N, y \in 1..N : f[k][y] = item[y] \o f[k - 1][next[y]]
      /\ \A x \in 0..N : Collect(item, next, x) = f[N][x]
  BY <1>4, Zenon DEF Collects, Walks
<1>6. PICK m : m = g.pos[g.head]
  OBVIOUS
<1>7. g.head \in Leaves(h) /\ m \in Nat /\ m < N /\ N \in m + 1..N
  <2>1. g.head \in Leaves(h) /\ m \in Nat
    BY <1>1, <1>6 DEF SpineInv, Leaves, GhostTyped
  <2>2. m < N
    BY <1>2, <1>6, ChainFits
  <2> QED
    BY <2>1, <2>2
<1>8. ASSUME NEW l \in Leaves(h)
      PROVE  /\ l \in 1..N /\ g.pos[l] \in Nat /\ item[l] = h.node[l].list
             /\ g.pos[l] = 0 => next[l] = 0
             /\ g.pos[l] # 0 => next[l] \in Leaves(h) /\ g.pos[next[l]] = g.pos[l] - 1
  <2>1. l \in Nodes(h) /\ h.node[l].leaf /\ l \in 1..N /\ g.pos[l] \in Nat
    BY <1>1, <1>2 DEF Leaves, Nodes, GhostTyped
  <2>2. next[l] = h.node[l].next /\ item[l] = h.node[l].list
    BY <1>3, <2>1
  <2>3. h.node[l].next = 0 <=> g.pos[l] = 0
    BY <1>1, <2>1 DEF ChainInv
  <2>4. ASSUME h.node[l].next # 0
        PROVE  h.node[l].next \in Leaves(h) /\ g.pos[h.node[l].next] = g.pos[l] - 1
    <3>1. h.node[h.node[l].next].leaf /\ g.pos[h.node[l].next] = g.pos[l] - 1
      BY <1>1, <2>1, <2>4 DEF ChainInv
    <3>2. h.node[l].next \in Nodes(h)
      BY <1>1, <2>1, <2>4 DEF Basics, Nodes
    <3> QED
      BY <3>1, <3>2 DEF Leaves
  <2> QED
    BY <2>1, <2>2, <2>3, <2>4
<1> DEFINE T == {j \in 0..m : \A l \in Leaves(h) : g.pos[l] = j =>
                    \A k \in j + 1..N : Gathers(h, g, E, f[k][l], j)}
<1>9. 0 \in T
  <2>1. ASSUME NEW l \in Leaves(h), g.pos[l] = 0, NEW k \in 0 + 1..N
        PROVE  Gathers(h, g, E, f[k][l], 0)
    <3>1. l \in 1..N /\ next[l] = 0 /\ item[l] = h.node[l].list
      BY <1>8, <2>1
    <3>2. k \in 1..N /\ k - 1 \in 0..N
      OBVIOUS
    <3>3. PICK t : t = f[k - 1][0] /\ t = <<>>
      BY <1>5, <3>2
    <3>4. f[k][l] = h.node[l].list \o t
      <4>1. f[k][l] = item[l] \o f[k - 1][next[l]]
        BY <1>5, <3>1, <3>2, Zenon
      <4> QED
        BY <3>1, <3>3, <4>1, Zenon
    <3>5. Gathers(h, g, E, h.node[l].list \o t, 0)
      <4>1. PICK j \in Nat : j = 0
        OBVIOUS
      <4>2. g.pos[l] = j /\ IF j = 0 THEN t = <<>> ELSE Gathers(h, g, E, t, j - 1)
        BY <2>1, <3>3, <4>1
      <4>3. Gathers(h, g, E, h.node[l].list \o t, j)
        BY <2>1, <4>1, <4>2, GatherMore
      <4> QED
        BY <4>1, <4>3
    <3> QED
      BY <3>4, <3>5
  <2>2. 0 \in 0..m
    BY <1>7
  <2> QED
    BY <2>1, <2>2
<1>10. ASSUME NEW j \in 1..m, j - 1 \in T PROVE j \in T
  <2>1. j \in 0..m /\ j \in Nat /\ j # 0
    BY <1>7
  <2> SUFFICES ASSUME NEW l \in Leaves(h), g.pos[l] = j, NEW k \in j + 1..N
               PROVE  Gathers(h, g, E, f[k][l], j)
    BY <2>1
  <2>2. k \in 1..N /\ k - 1 \in (j - 1) + 1..N
    BY <2>1
  <2>3. PICK n : n = next[l]
    OBVIOUS
  <2>4. l \in 1..N /\ n \in Leaves(h) /\ g.pos[n] = j - 1 /\ item[l] = h.node[l].list
    BY <1>8, <2>1, <2>3
  <2>5. Gathers(h, g, E, f[k - 1][n], j - 1)
    BY <1>10, <2>2, <2>4
  <2>6. PICK t : t = f[k - 1][n]
    OBVIOUS
  <2>7. f[k][l] = h.node[l].list \o t
    <3>1. f[k][l] = item[l] \o f[k - 1][next[l]]
      BY ONLY <1>5, <2>2, <2>4
    <3> QED
      BY <2>3, <2>4, <2>6, <3>1, Zenon
  <2>8. Gathers(h, g, E, h.node[l].list \o t, j)
    BY <2>1, <2>5, <2>6, GatherMore
  <2> QED
    BY <2>7, <2>8
<1>11. m \in T
  <2>1. \A j \in 0..m : j \in T
    <3> HIDE DEF T
    <3> QED
      BY <1>7, <1>9, <1>10, UpTo
  <2>2. m \in 0..m
    BY <1>7
  <2> QED
    BY <2>1, <2>2
<1>12. Gathers(h, g, E, f[N][g.head], m)
  BY <1>6, <1>7, <1>11
<1>13. Collect(item, next, g.head) = f[N][g.head]
  <2>1. g.head \in 1..N
    BY <1>7, <1>8
  <2>2. g.head \in 0..N
    BY <2>1
  <2> QED
    BY <1>5, <2>2
<1> QED
  BY <1>6, <1>12, <1>13

\* What iterate visits.
LEMMA IterateIs ==
  ASSUME NEW g, Tree(heap, m_root, g, 0), Whole(heap, g), NEW E, E = [key : Key, val : Val]
  PROVE  Gathers(heap, g, E, Iterate, g.pos[g.head])
<1>1. m_root # Null
  <2>1. m_root \in Nodes(heap)
    BY DEF Tree, RootInv
  <2> QED
    BY <2>1 DEF Nodes, Null
<1>2. LeftmostLeaf(heap, m_root) = g.head
  BY LeftmostIsHead
<1>3. PICK item, next : /\ item = [l \in 1..Len(heap.node) |-> heap.node[l].list]
                        /\ next = [l \in 1..Len(heap.node) |-> heap.node[l].next]
  OBVIOUS
<1>4. Iterate = Collect(item, next, g.head)
  BY <1>1, <1>2, <1>3 DEF Iterate
<1>5. Gathers(heap, g, E, Collect(item, next, g.head), g.pos[g.head])
  BY <1>3, ListingIs
<1> QED
  BY <1>4, <1>5

\* An entry is in a leaf exactly if get finds it.
LEMMA HeldIsFound ==
  ASSUME NEW h, NEW root, NEW g, Tree(h, root, g, 0), Whole(h, g), NEW e
  PROVE  (\E n \in Leaves(h) : e \in ToSet(h.node[n].list)) <=>
         \E x \in Key : Found(h, root, x) # NoValue /\ e = [key |-> x, val |-> Found(h, root, x)]
<1>1. Basics(h) /\ GhostTyped(h, g) /\ LeafInv(h, g)
  BY HeapBasics DEF Tree
<1>2. PICK E : E = [key : Key, val : Val]
  OBVIOUS
<1>3. ASSUME NEW n \in Leaves(h)
      PROVE  /\ n \in Nodes(h) /\ h.node[n].leaf /\ h.node[n].list \in Seq(E)
             /\ h.node[n].list \in Seq(Entry(Val)) /\ Sorted(h.node[n].list)
             /\ LeafOf(h.node[n], g.home, n, g.resp[n]) /\ g.resp[n] \subseteq Key
  <2>1. n \in Nodes(h) /\ h.node[n].leaf
    BY DEF Leaves
  <2>2. LeafOf(h.node[n], g.home, n, g.resp[n]) /\ g.resp[n] \subseteq Key
    BY <1>1, <2>1 DEF LeafInv, GhostTyped
  <2>3. h.node[n].list \in Seq(E)
    BY <1>1, <1>2, <2>1 DEF Basics
  <2>4. E \subseteq Entry(Val)
    BY <1>2, TreeAssumption DEF Entry
  <2>5. h.node[n].list \in Seq(Entry(Val))
    BY <2>3, <2>4, WiderSeq
  <2> QED
    BY <2>1, <2>2, <2>3, <2>5 DEF LeafOf
<1>4. ASSUME NEW n \in Leaves(h), e \in ToSet(h.node[n].list)
      PROVE  \E x \in Key : Found(h, root, x) # NoValue /\ e = [key |-> x, val |-> Found(h, root, x)]
  <2>1. PICK list : list = h.node[n].list
    OBVIOUS
  <2>2. PICK i \in 1..Len(list) : e = list[i]
    <3>1. DOMAIN list = 1..Len(list)
      BY <1>3, <2>1
    <3> QED
      BY <1>4, <2>1, <3>1 DEF ToSet
  <2>3. e \in E
    BY <1>3, <2>1, <2>2, ElementOfSeq
  <2>4. e.key \in g.resp[n] /\ g.home[e.key] = n
    BY <1>3, <2>1, <2>2 DEF LeafOf
  <2>5. ListGet(list, e.key, NoValue) = e.val
    BY <1>3, <2>1, <2>2, GetFound
  <2>6. e.key \in Key /\ e.val \in Val /\ e = [key |-> e.key, val |-> e.val]
    BY <1>2, <2>3
  <2>7. Found(h, root, e.key) = e.val
    BY <2>1, <2>4, <2>5, <2>6, FoundIs DEF Value
  <2> QED
    BY <2>6, <2>7, TreeAssumption
<1>5. ASSUME NEW x \in Key, Found(h, root, x) # NoValue, e = [key |-> x, val |-> Found(h, root, x)]
      PROVE  \E n \in Leaves(h) : e \in ToSet(h.node[n].list)
  <2>1. PICK n, list : n = g.home[x] /\ list = h.node[n].list
    OBVIOUS
  <2>2. n \in Leaves(h)
    BY <1>1, <2>1 DEF LeafInv, Leaves
  <2>3. Found(h, root, x) = ListGet(list, x, NoValue)
    BY <2>1, FoundIs DEF Value
  <2>4. PICK i \in 1..Len(list) : list[i].key = x
    BY <1>5, <2>3 DEF ListGet, Hits
  <2>5. ListGet(list, x, NoValue) = list[i].val
    <3>1. list \in Seq(Entry(Val)) /\ Sorted(list)
      BY <1>3, <2>1, <2>2
    <3>2. ListGet(list, list[i].key, NoValue) = list[i].val
      BY <2>4, <3>1, GetFound
    <3> QED
      BY <2>4, <3>2
  <2>6. list[i] \in E
    BY <1>3, <2>1, <2>2, <2>4, ElementOfSeq
  <2>7. list[i] = e
    BY <1>2, <1>5, <2>3, <2>4, <2>5, <2>6
  <2>8. list[i] \in ToSet(list)
    <3>1. DOMAIN list = 1..Len(list)
      BY <1>3, <2>1, <2>2
    <3> QED
      BY <3>1 DEF ToSet
  <2> QED
    BY <2>1, <2>2, <2>7, <2>8
<1> QED
  BY <1>4, <1>5

LEMMA InvSorted ==
  ASSUME TreeInv PROVE IterationSorted
<1>1. CASE m_root = Null
  BY <1>1 DEF IterationSorted, Iterate, Sorted
<1>2. CASE m_root # Null
  <2>1. PICK g : Tree(heap, m_root, g, 0) /\ Whole(heap, g)
    BY <1>2 DEF TreeInv
  <2> QED
    BY <2>1, IterateIs DEF Gathers, IterationSorted
<1> QED
  BY <1>1, <1>2

LEMMA InvAgrees ==
  ASSUME TreeInv PROVE IterationAgrees
<1> DEFINE S == {[key |-> k, val |-> Get(k)] : k \in {k \in Key : Get(k) # NoValue}}
<1>1. CASE m_root = Null
  <2>1. ToSet(Iterate) = {}
    BY <1>1 DEF Iterate, ToSet
  <2>2. \A k \in Key : Get(k) = NoValue
    BY <1>1 DEF Get
  <2> QED
    BY <2>1, <2>2 DEF IterationAgrees
<1>2. CASE m_root # Null
  <2>1. PICK g : Tree(heap, m_root, g, 0) /\ Whole(heap, g)
    BY <1>2 DEF TreeInv
  <2>2. PICK E, t : E = [key : Key, val : Val] /\ t = Iterate
    OBVIOUS
  <2>3. Gathers(heap, g, E, t, g.pos[g.head])
    BY <2>1, <2>2, IterateIs
  <2>4. \A n \in Leaves(heap) : g.pos[n] <= g.pos[g.head]
    BY <2>1 DEF Tree, ChainInv, Leaves
  <2>5. \A e : e \in ToSet(t) <=> \E n \in Leaves(heap) : e \in ToSet(heap.node[n].list)
    BY <2>3, <2>4 DEF Gathers
  <2>6. \A e : e \in ToSet(t) <=>
           \E x \in Key : Found(heap, m_root, x) # NoValue
                          /\ e = [key |-> x, val |-> Found(heap, m_root, x)]
    <3> SUFFICES ASSUME NEW e
                 PROVE  e \in ToSet(t) <=>
                          \E x \in Key : Found(heap, m_root, x) # NoValue
                                         /\ e = [key |-> x, val |-> Found(heap, m_root, x)]
      OBVIOUS
    <3>1. (\E n \in Leaves(heap) : e \in ToSet(heap.node[n].list)) <=>
          \E x \in Key : Found(heap, m_root, x) # NoValue
                         /\ e = [key |-> x, val |-> Found(heap, m_root, x)]
      BY <2>1, HeldIsFound
    <3> QED
      BY <2>5, <3>1
  <2>7. \A e : e \in S <=>
           \E x \in Key : Found(heap, m_root, x) # NoValue
                          /\ e = [key |-> x, val |-> Found(heap, m_root, x)]
    <3>1. \A x : Get(x) = Found(heap, m_root, x)
      BY GetIsFound
    <3> QED
      BY <3>1
  <2>8. ToSet(t) = S
    <3> HIDE DEF S
    <3> QED
      BY <2>6, <2>7
  <2> QED
    BY <2>2, <2>8 DEF IterationAgrees
<1> QED
  BY <1>1, <1>2

\* IterationSorted: iterate visits the keys in ascending order and each of them once,
\* whichever leaves the splits have made and linked.
THEOREM SparingSorted == Zeroed => (SparingSpec => []IterationSorted)
<1> SUFFICES ASSUME Zeroed PROVE SparingSpec => []IterationSorted
  OBVIOUS
<1>1. TreeInv => IterationSorted
  BY InvSorted
<1>2. SparingSpec => []TreeInv
  BY SparingTree
<1> QED
  BY <1>1, <1>2, PTL

\* The same for Spec, if the caller never deletes.
THEOREM IterationInOrder == SetOnly => (Spec => []IterationSorted)
BY SetsAreSparing, SparingSorted

\* IterationAgrees: the leaf chain and the ways from the root reach the same entries,
\* whichever leaves a split has linked and a delete has emptied.
THEOREM SparingComplete == Zeroed => (SparingSpec => []IterationAgrees)
<1> SUFFICES ASSUME Zeroed PROVE SparingSpec => []IterationAgrees
  OBVIOUS
<1>1. TreeInv => IterationAgrees
  BY InvAgrees
<1>2. SparingSpec => []TreeInv
  BY SparingTree
<1> QED
  BY <1>1, <1>2, PTL

\* The same for Spec, if the caller never deletes.
THEOREM IterationComplete == SetOnly => (Spec => []IterationAgrees)
BY SetsAreSparing, SparingComplete

\* FoundIsIterated: no entry that get finds is in a leaf that the chain has lost.
THEOREM SparingFound == Zeroed => (SparingSpec => []FoundIsIterated)
<1> SUFFICES ASSUME Zeroed PROVE SparingSpec => []FoundIsIterated
  OBVIOUS
<1>1. IterationAgrees => FoundIsIterated
  BY TreeAssumption DEF IterationAgrees, FoundIsIterated
<1>2. SparingSpec => []IterationAgrees
  BY SparingComplete
<1> QED
  BY <1>1, <1>2, PTL

\* What iterate visits is what get finds.
LEMMA ContentsIs ==
  ASSUME TreeInv
  PROVE  Contents = Image
<1>1. PICK t, E : t = Iterate /\ E = [key : Key, val : Val]
  OBVIOUS
<1>2. t \in Seq(E)
  <2>1. CASE m_root = Null
    BY <1>1, <2>1 DEF Iterate
  <2>2. CASE m_root # Null
    <3>1. PICK g : Tree(heap, m_root, g, 0) /\ Whole(heap, g)
      BY <2>2 DEF TreeInv
    <3> QED
      BY <1>1, <3>1, IterateIs DEF Gathers
  <2> QED
    BY <2>1, <2>2
<1>3. t \in Seq(Entry(Val)) /\ Sorted(t)
  <2>1. E \subseteq Entry(Val)
    BY <1>1, TreeAssumption DEF Entry
  <2>2. Sorted(t)
    BY <1>1, InvSorted DEF IterationSorted
  <2> QED
    BY <1>2, <2>1, <2>2, WiderSeq
<1>4. \A e : (\E i \in 1..Len(t) : t[i] = e) <=>
             \E x \in Key : Found(heap, m_root, x) # NoValue
                            /\ e = [key |-> x, val |-> Found(heap, m_root, x)]
  <2>1. ToSet(t) = {[key |-> k, val |-> Get(k)] : k \in {k \in Key : Get(k) # NoValue}}
    BY <1>1, InvAgrees DEF IterationAgrees
  <2>2. DOMAIN t = 1..Len(t)
    BY <1>2
  <2>3. \A x : Get(x) = Found(heap, m_root, x)
    BY GetIsFound
  <2> QED
    BY <2>1, <2>2, <2>3 DEF ToSet
<1>5. ASSUME NEW x \in Key PROVE ListGet(t, x, NoValue) = Found(heap, m_root, x)
  <2>1. CASE Found(heap, m_root, x) # NoValue
    <3>1. PICK i \in 1..Len(t) : t[i] = [key |-> x, val |-> Found(heap, m_root, x)]
      BY <1>4, <2>1
    <3>2. ListGet(t, t[i].key, NoValue) = t[i].val
      BY <1>3, GetFound
    <3> QED
      BY <3>1, <3>2
  <2>2. CASE Found(heap, m_root, x) = NoValue
    <3>1. ASSUME NEW i \in 1..Len(t) PROVE t[i].key # x
      <4>1. PICK y \in Key : Found(heap, m_root, y) # NoValue
                             /\ t[i] = [key |-> y, val |-> Found(heap, m_root, y)]
        BY <1>4
      <4> QED
        BY <2>2, <4>1
    <3> QED
      BY <1>3, <2>2, <3>1, GetNotFound
  <2> QED
    BY <2>1, <2>2
<1>6. Contents = [k \in Key |-> ListGet(t, k, NoValue)]
  <2>1. PICK c : c = [k \in Key |-> ListGet(t, k, NoValue)]
    OBVIOUS
  <2>2. {[k \in Key |-> ListGet(list, k, NoValue)] : list \in {Iterate}} = {c}
    BY <1>1, <2>1
  <2>3. Contents = CHOOSE d \in {c} : TRUE
    BY <2>2 DEF Contents
  <2> QED
    BY <2>1, <2>3
<1> QED
  BY <1>5, <1>6 DEF Image

\* What the two readers of the tree see.
SameContents == Contents = Image

\* IterationImplementsStore: to the caller of tree::iterate, too, the tree is a dictionary:
\* each call changes what it visits by the one key that is set or deleted.
THEOREM SparingIteration == Zeroed => (SparingSpec => IterationImplementsStore)
<1> SUFFICES ASSUME Zeroed PROVE SparingSpec => IterationImplementsStore
  OBVIOUS
<1>1. Init => Iteration!Init
  <2>1. Init => TreeInv
    BY InitInv
  <2> QED
    BY <2>1, ContentsIs, ImageInit
       DEF Iteration!Init, Iteration!NoCall, Dictionary!Init, Dictionary!NoCall
<1>2. ASSUME TreeInv, TreeInv', SameContents, SameContents', [SparingNext]_vars
      PROVE  [Iteration!Next]_(Iteration!vars)
  <2>1. Contents = Image /\ Contents' = Image'
    BY <1>2 DEF SameContents
  <2> QED
    BY <1>2, <2>1, ImageStep
       DEF Iteration!Next, Iteration!Delete, Iteration!Set, Iteration!Leaves,
           Iteration!SetCall, Iteration!DeleteCall, Iteration!vars, Dictionary!Next,
           Dictionary!Delete, Dictionary!Set, Dictionary!Leaves, Dictionary!SetCall,
           Dictionary!DeleteCall, Dictionary!vars
<1>3. TreeInv => SameContents
  BY ContentsIs DEF SameContents
<1>4. SparingSpec => []TreeInv
  BY SparingTree
<1> QED
  BY <1>1, <1>2, <1>3, <1>4, PTL DEF SparingSpec, IterationImplementsStore, Iteration!Spec

\* The same for Spec, if the caller never deletes.
THEOREM IterationCorrect == SetOnly => (Spec => IterationImplementsStore)
BY SetsAreSparing, SparingIteration
==============================================================================
