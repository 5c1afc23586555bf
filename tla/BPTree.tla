-------------------------------- MODULE BPTree -------------------------------
(***************************************************************************)
(* bpt::tree (bpt.h, bpt_internal.h, leaf.h, list.h): the B+ tree in which  *)
(* db keeps its objects, keyed by the hash of their name.                   *)
(*                                                                         *)
(* The heap is explicit because the code shares it: when an internal node   *)
(* splits, its middle cell becomes the first cell of the new root and also  *)
(* stays linked at the end of the left half's list.  node and cell are the  *)
(* objects allocated so far, a pointer is an index and Null is nullptr.     *)
(* Leaf entries are never shared, so a leaf holds its list as a value.      *)
(*                                                                         *)
(* A call that dereferences nullptr ends the process ("crashed"), one whose *)
(* loop cannot end blocks the only thread ("hung").                         *)
(***************************************************************************)
EXTENDS LeafList, SequencesExt

CONSTANTS Key,       \* hashes: integers, compared with <
          Val,
          NoValue,   \* what get returns for nullptr
          ORDER,     \* template parameter; db uses 6
          SizeMod,   \* size_t wraps at 2^64 in the code, at SizeMod here
          Uninit,    \* what an uninitialised leaf_list::m_size may hold
          Calls,     \* which of "set" and "delete" the caller uses
          MaxNodes   \* bound: no set once the heap has this many nodes

ASSUME TreeAssumption ==
    /\ Key \subseteq Int
    /\ NoValue \notin Val
    /\ ORDER \in Nat /\ ORDER >= 3
    /\ SizeMod \in Nat /\ SizeMod > ORDER
    /\ Uninit \subseteq 0..(SizeMod - 1) /\ Uninit # {}
    /\ Calls \subseteq {"set", "delete"}
    /\ MaxNodes \in Nat

VARIABLES m_root,    \* tree::m_root
          heap,      \* [node, cell]: the objects allocated by new
          status,    \* "ok", "crashed" or "hung"
          ret,       \* what the last delete_key returned
          call       \* history: the call made last

vars == <<m_root, heap, status, ret, call>>

NoCall == [op |-> "none"]
SetCall(key, val) == [op |-> "set", key |-> key, val |-> val]
DeleteCall(key) == [op |-> "delete", key |-> key]
CallType == {NoCall} \union {SetCall(key, val) : key \in Key, val \in Val}
                     \union {DeleteCall(key) : key \in Key}

Null == 0
max_size == ORDER - 1

NodeType == [leaf : BOOLEAN, size : 0..(SizeMod - 1),
             list : Seq([key : Key, val : Val]), next : Nat,   \* of a leaf
             lesser : Nat, first : Nat]                        \* of an internal node
CellType == [key : Key, child : Nat, next : Nat, live : BOOLEAN]

LeafNode(list, size, next) ==
    [leaf |-> TRUE, size |-> size, list |-> list, next |-> next,
     lesser |-> Null, first |-> Null]
InternalNode(size, lesser, first) ==
    [leaf |-> FALSE, size |-> size, list |-> <<>>, next |-> Null,
     lesser |-> lesser, first |-> first]
Cell(key, child, next) ==
    [key |-> key, child |-> child, next |-> next, live |-> TRUE]

Fresh(objects) == Len(objects) + 1

------------------------------------------------------------------------------
(* Reading the tree.                                                        *)

\* What a walk collects that starts at x, goes from y to next[y] and takes item[y]
\* on its way.
Collect(item, next, x) ==
    LET from[k \in 0..Cardinality(DOMAIN next)] ==
            [y \in {Null} \union DOMAIN next |->
                 IF k = 0 \/ y = Null THEN <<>> ELSE item[y] \o from[k - 1][next[y]]]
    IN  from[Cardinality(DOMAIN next)][x]

\* The objects that it passes.
Trail(next, x) == Collect([y \in DOMAIN next |-> <<y>>], next, x)

\* The pointers of a linked list, from c on.
Chain(objects, c) == Trail([x \in 1..Len(objects) |-> objects[x].next], c)

\* get_child_ln_ge: the cell whose child is responsible for key.
get_child_ln_ge(h, n, key) ==
    LET follows(c) == h.cell[c].next # Null /\ ~(key < h.cell[h.cell[c].next].key)
        next == [c \in 1..Len(h.cell) |-> IF follows(c) THEN h.cell[c].next ELSE Null]
    IN  Last(Trail(next, h.node[n].first))

\* get_child_ge; the caller makes sure that the node has a first cell.
get_child_ge(h, n, key) ==
    IF key < h.cell[h.node[n].first].key
    THEN h.node[n].lesser
    ELSE h.cell[get_child_ln_ge(h, n, key)].child

\* The nodes that get, set and delete_key pass through, the root first.  A node
\* without cells ends the path: its primary_key() dereferences nullptr.
Path(h, root, key) ==
    LET ends(n) == h.node[n].leaf \/ h.node[n].first = Null
        next == [n \in 1..Len(h.node) |-> IF ends(n) THEN Null ELSE get_child_ge(h, n, key)]
    IN  Trail(next, root)

\* tree::get.
Get(key) ==
    LET found == [n \in 1..Len(heap.node) |->
                      IF heap.node[n].leaf THEN ListGet(heap.node[n].list, key, NoValue)
                      ELSE "crash"]
    IN  IF m_root = Null THEN NoValue ELSE found[Last(Path(heap, m_root, key))]

\* The leaf where iterate starts: m_lesser all the way down.
LeftmostLeaf(h, root) ==
    Last(Trail([n \in 1..Len(h.node) |-> h.node[n].lesser], root))

\* tree::iterate: the entries in the order in which fn is called on them.
Iterate ==
    IF m_root = Null THEN <<>>
    ELSE Collect([l \in 1..Len(heap.node) |-> heap.node[l].list],
                 [l \in 1..Len(heap.node) |-> heap.node[l].next],
                 LeftmostLeaf(heap, m_root))

\* What the calls on a path leave behind when they return, the last node first.
Return(Step(_, _), base, path) ==
    LET done[i \in 0..Len(path) - 1] ==
            IF i = 0 THEN base ELSE Step(done[i - 1], path[Len(path) - i])
    IN  done[Len(path) - 1]

------------------------------------------------------------------------------
(* tree::set.                                                               *)

PrimaryKey(h, n) ==
    IF h.node[n].leaf THEN h.node[n].list[1].key ELSE h.cell[h.node[n].first].key

\* The new cell becomes the first one of node n.
GoesBefore(h, n, key) == key < h.cell[h.node[n].first].key

\* insert_leaf and insert_internal: a cell for the node that the child handed up.
\* A new root handed up by an internal child is unpacked (its only cell's child
\* is linked), except where it goes before the first cell: there it is kept
\* whole, and the tree gets a level deeper at this place only.
Insert(h, n, up) ==
    LET key    == PrimaryKey(h, up)
        before == GoesBefore(h, n, key)
        at     == get_child_ln_ge(h, n, key)
        child  == IF h.node[up].leaf \/ before THEN up
                  ELSE h.cell[h.node[up].first].child
        c      == Fresh(h.cell)
        sized  == [h.node EXCEPT ![n].size = (@ + 1) % SizeMod]
    IN  IF before
        THEN [node |-> [sized EXCEPT ![n].first = c],
              cell |-> Append(h.cell, Cell(key, child, h.node[n].first))]
        ELSE [node |-> sized,
              cell |-> Append([h.cell EXCEPT ![at].next = c],
                              Cell(key, child, h.cell[at].next))]

\* The cell at index m_size / 2 exists: skip() does not run off the list.
CanSplit(h, n) == h.node[n].size \div 2 < Len(Chain(h.cell, h.node[n].first))

\* Faulty variant: the operands of the subtraction swapped.
RightSizeSwapped(size) == size \div 2 - size

\* Faulty variant: the left half keeps its old m_size.
LeftSizeKept(size) == size

\* m_size of the two halves of an internal node; the middle cell is in neither.
LeftSize(size) == size \div 2
RightSize(size) == size - size \div 2 - 1

\* bpt_internal::split: the new right node, then the new root on top of both.
\* The middle cell is moved without being unlinked from its predecessor.
Split(h, n) ==
    LET middle == h.node[n].size \div 2
        mid    == Chain(h.cell, h.node[n].first)[middle + 1]
        right  == InternalNode(RightSize(h.node[n].size),
                               h.cell[mid].child, h.cell[mid].next)
        r      == Fresh(h.node)
    IN  [node |-> [h.node EXCEPT ![n].size = LeftSize(@)]
                  \o <<right, InternalNode(1, n, mid)>>,
         cell |-> [h.cell EXCEPT ![mid].next = Null, ![mid].child = r]]

\* What bpt_internal::set does in node n after the call for its child returned:
\* done.up is the node that the child handed up, or Null.
Unwind(done, n) ==
    LET h == IF done.up = Null THEN done.h ELSE Insert(done.h, n, done.up)
    IN  CASE done.crash \/ h.node[n].size <= max_size ->
                 [h |-> h, up |-> Null, crash |-> done.crash]
          [] ~done.crash /\ h.node[n].size > max_size /\ ~CanSplit(h, n) ->
                 [h |-> h, up |-> Null, crash |-> TRUE]
          [] OTHER -> LET s == Split(h, n)
                      IN  [h |-> s, up |-> Len(s.node), crash |-> FALSE]

\* Faulty variant: an overwritten entry is counted again.
CountsEverySet(list, size, key) == (size + 1) % SizeMod

\* m_size after leaf_list::set.
SizeAfterSet(list, size, key) ==
    IF Overwrites(list, key) THEN size ELSE (size + 1) % SizeMod

\* Faulty variant: the split-off leaf is not linked into the chain.
NotLinked(next, new) == next

\* m_next of a leaf after its split.
NextAfterSplit(next, new) == new

\* leaf::insert, with the split of a full leaf.  The split trusts m_size: it
\* fails if the list has fewer nodes than half of that, or has no second half
\* (insert_leaf then asks the empty new leaf for its primary_key()).
LeafInsert(h, l, key, val) ==
    LET list == ListSet(h.node[l].list, key, val)
        size == SizeAfterSet(h.node[l].list, h.node[l].size, key)
        half == size \div 2
        new  == Fresh(h.node)
        left == LeafNode(SubSeq(list, 1, half), half, NextAfterSplit(h.node[l].next, new))
        rest == LeafNode(SubSeq(list, half + 1, Len(list)), size - half, h.node[l].next)
    IN  CASE size <= max_size ->
                 [h |-> [h EXCEPT !.node[l] = [@ EXCEPT !.list = list, !.size = size]],
                  up |-> Null, crash |-> FALSE]
          [] size > max_size /\ half >= Len(list) ->
                 [h |-> h, up |-> Null, crash |-> TRUE]
          [] OTHER ->
                 [h |-> [h EXCEPT !.node = Append([h.node EXCEPT ![l] = left], rest)],
                  up |-> new, crash |-> FALSE]

\* The first set: a root with one cell for a leaf with the entry, and an empty
\* leaf for lesser keys.  leaf_list::m_size is not initialised in either leaf.
PlantRoot(key, val) ==
    \E g1, g2 \in Uninit :
        LET n == Len(heap.node)
            c == Fresh(heap.cell)
        IN  /\ heap' = [node |-> heap.node \o
                                 <<LeafNode(<<[key |-> key, val |-> val]>>,
                                            (g1 + 1) % SizeMod, Null),
                                   LeafNode(<<>>, g2, n + 1),
                                   InternalNode(1, n + 2, c)>>,
                        cell |-> Append(heap.cell, Cell(key, n + 1, Null))]
            /\ m_root' = n + 3
            /\ UNCHANGED status

Grow(key, val) ==
    LET path == Path(heap, m_root, key)
        leaf == LeafInsert(heap, Last(path), key, val)
        done == Return(Unwind, leaf, path)
    IN  IF ~heap.node[Last(path)].leaf \/ done.crash
        THEN /\ status' = "crashed"
             /\ UNCHANGED <<m_root, heap>>
        ELSE /\ heap' = done.h
             /\ m_root' = IF done.up = Null THEN m_root ELSE done.up
             /\ UNCHANGED status

Set(key, val) ==
    /\ "set" \in Calls
    /\ status = "ok"
    /\ Len(heap.node) < MaxNodes
    /\ IF m_root = Null THEN PlantRoot(key, val) ELSE Grow(key, val)
    /\ call' = SetCall(key, val)
    /\ UNCHANGED ret

------------------------------------------------------------------------------
(* tree::delete_key.                                                        *)

\* Faulty variant: the first cell is freed but stays linked.
NotUnlinked(h, n) == h.node

\* m_root of node n moves on to its second cell.
UnlinkFirst(h, n) == [h.node EXCEPT ![n].first = h.cell[@].next]

\* delete_child(key) removes the first cell, or else looks at the second cell
\* only: lN never advances, so the loop ends only when nothing follows lN.
\* The removed cell is freed; m_size is left as it is.
DeleteChild(h, n, key) ==
    LET cells == Chain(h.cell, h.node[n].first)
        freed(c) == [h.cell EXCEPT ![c].live = FALSE]
    IN  CASE h.cell[cells[1]].key = key ->
                 [h |-> [node |-> UnlinkFirst(h, n),
                         cell |-> freed(cells[1])],
                  hung |-> FALSE]
          [] h.cell[cells[1]].key # key /\ Len(cells) = 1 ->
                 [h |-> h, hung |-> FALSE]
          [] OTHER ->
                 IF h.cell[cells[2]].key = key
                 THEN [h |-> [h EXCEPT !.cell =
                                 [freed(cells[2]) EXCEPT ![cells[1]].next =
                                      h.cell[cells[2]].next]],
                       hung |-> Len(cells) > 2]
                 ELSE [h |-> h, hung |-> TRUE]

\* bpt_internal::delete_key in node n, after the call for done.child returned
\* done.val.  An emptied m_lesser is kept, and reported as "not deleted".
Prune(done, n) ==
    LET empty   == done.val /\ done.h.node[done.child].size = 0
        removal == DeleteChild(done.h, n, done.key)
    IN  CASE done.hung -> done
          [] ~done.hung /\ ~empty -> [done EXCEPT !.child = n]
          [] ~done.hung /\ empty /\ done.h.node[n].lesser = done.child ->
                 [done EXCEPT !.child = n, !.val = FALSE]
          [] OTHER ->
                 [done EXCEPT !.child = n, !.h = removal.h, !.hung = removal.hung]

\* leaf_list::delete_key on a leaf that has entries.
LeafDelete(h, l, key) ==
    LET found == Hits(h.node[l].list, key) # {}
    IN  [h     |-> IF ~found THEN h
                   ELSE [h EXCEPT !.node[l].list = ListDelete(@, key),
                                  !.node[l].size = (@ + SizeMod - 1) % SizeMod],
         child |-> l, key |-> key, val |-> found, hung |-> FALSE]

Shrink(key) ==
    LET path == Path(heap, m_root, key)
        done == Return(Prune, LeafDelete(heap, Last(path), key), path)
    IN  IF ~heap.node[Last(path)].leaf \/ heap.node[Last(path)].list = <<>>
        THEN /\ status' = "crashed"
             /\ UNCHANGED <<m_root, heap, ret>>
        ELSE /\ heap' = done.h
             /\ status' = IF done.hung THEN "hung" ELSE "ok"
             /\ ret' = IF done.hung THEN ret ELSE done.val
             /\ m_root' = IF done.val /\ done.h.node[m_root].size = 0 THEN Null ELSE m_root

Delete(key) ==
    /\ "delete" \in Calls
    /\ status = "ok"
    /\ IF m_root = Null
       THEN ret' = FALSE /\ UNCHANGED <<m_root, heap, status>>
       ELSE Shrink(key)
    /\ call' = DeleteCall(key)

------------------------------------------------------------------------------
Init ==
    /\ m_root = Null
    /\ heap = [node |-> <<>>, cell |-> <<>>]
    /\ status = "ok"
    /\ ret = FALSE
    /\ call = NoCall

Next == \E key \in Key : Delete(key) \/ \E val \in Val : Set(key, val)

Spec == Init /\ [][Next]_vars

------------------------------------------------------------------------------
(* Properties.                                                              *)

\* The heap is well formed: the root is one of its nodes, every entry has a key and a
\* value, and the sizes that the splits compute stay within size_t.
TypeOK ==
    /\ m_root \in 0..Len(heap.node)
    /\ heap.node \in Seq(NodeType)
    /\ heap.cell \in Seq(CellType)
    /\ status \in {"ok", "crashed", "hung"}
    /\ ret \in BOOLEAN
    /\ call \in CallType

\* The nodes that calls for some key pass through.
Visited ==
    IF m_root = Null THEN {}
    ELSE UNION {ToSet(Path(heap, m_root, key)) : key \in Key}

\* tree::get sees a dictionary: set(key, val) leaves key bound to val and all other keys
\* bound to what they were, across leaf splits, splits of internal nodes on every
\* level and the cells these share, and no get runs into a null pointer.
Lookup == INSTANCE KVStore WITH store <- [k \in Key |-> Get(k)],
                                crashed <- status = "crashed"
LookupImplementsStore == Lookup!Spec

\* tree::iterate sees a dictionary: after set(key, val) it visits key with val, after
\* delete_key(key) it does not visit key, and it visits every other key as before: also
\* when the delete hangs or is reported as not done, and after deletes that unlink
\* leaves.  A call that crashes has changed nothing.
Contents ==
    LET Bindings(list) == [k \in Key |-> ListGet(list, k, NoValue)]
    IN  CHOOSE c \in {Bindings(list) : list \in {Iterate}} : TRUE  \* walks once
Iteration == INSTANCE KVStore WITH store <- Contents,
                                   crashed <- status = "crashed"
IterationImplementsStore == Iteration!Spec

\* iterate visits the keys in ascending order and each of them once.
IterationSorted == Sorted(Iterate)

\* iterate visits exactly the entries that get finds.
IterationAgrees ==
    ToSet(Iterate) = {[key |-> k, val |-> Get(k)] :
                          k \in {k \in Key : Get(k) # NoValue}}

\* Whatever get finds, iterate visits: no entry is left in a leaf that the leaf
\* chain has lost.
FoundIsIterated ==
    \A k \in Key : Get(k) \in Val => [key |-> k, val |-> Get(k)] \in ToSet(Iterate)

\* m_size is what it stands for: the number of entries of a leaf, and of an
\* internal node a number of cells that its list has.  Between two calls no node
\* is over-full, and no internal node is without cells.
SizesHonest ==
    \A n \in Visited :
        LET x == heap.node[n]
        IN  /\ x.size <= max_size
            /\ IF x.leaf THEN x.size = Len(x.list)
               ELSE x.size \in 1..Len(Chain(heap.cell, x.first))

\* No call dereferences a null pointer or loops for ever: set "Sets value and if
\* required splits internal node and returns new root. Otherwise returns nullptr"
\* (bpt_internal.h:41), so it returns.
Serves == status = "ok"

\* No call reads a cell that delete_child freed, although after a split the same
\* cell is linked from two lists.
NoDanglingCell ==
    \A n \in Visited : \A c \in ToSet(Chain(heap.cell, heap.node[n].first)) :
        heap.cell[c].live
==============================================================================
