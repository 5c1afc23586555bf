------------------------------ MODULE LeafList -------------------------------
(***************************************************************************)
(* leaf_list and list_node of list.h: the singly linked list that holds the *)
(* entries of one leaf, and by which an internal node orders its children.  *)
(* A list is the sequence of its nodes, each a record with a field key.     *)
(* The operators take the node order as it is; that it is sorted is proved, *)
(* not assumed (LeafListProofs).                                            *)
(***************************************************************************)
EXTENDS Integers, Sequences

\* The node where a walk for key stops: it moves on as long as there is a next
\* node whose key is not above key.  The first node is never compared.
Stop(list, key) ==
    CHOOSE i \in 1..Len(list) :
        /\ \A j \in 2..i : list[j].key <= key
        /\ i < Len(list) => key < list[i + 1].key

\* Faulty variant: set forgets to compare with the first node.
PrependsOnlyToEmpty(list, key) == list = <<>>

\* set's test for a key to be put before the first node.
Prepends(list, key) == list = <<>> \/ key < list[1].key

\* set overwrites the node it stops at, and leaves m_size as it is.
Overwrites(list, key) == ~Prepends(list, key) /\ list[Stop(list, key)].key = key

\* Faulty variant: a node that has no successor is not linked.
InsertAfterNotAtEnd(list, i, e) ==
    IF i = Len(list) THEN list
    ELSE SubSeq(list, 1, i) \o <<e>> \o SubSeq(list, i + 1, Len(list))

InsertAfter(list, i, e) == SubSeq(list, 1, i) \o <<e>> \o SubSeq(list, i + 1, Len(list))

\* Faulty variant: a key that has a node keeps its value.
ListSetKeepsOld(list, key, val) ==
    IF Overwrites(list, key) THEN list
    ELSE InsertAfter(list,
                     IF Prepends(list, key) THEN 0 ELSE Stop(list, key),
                     [key |-> key, val |-> val])

ListSet(list, key, val) ==
    IF Overwrites(list, key)
    THEN [list EXCEPT ![Stop(list, key)] = [key |-> key, val |-> val]]
    ELSE InsertAfter(list,
                     IF Prepends(list, key) THEN 0 ELSE Stop(list, key),
                     [key |-> key, val |-> val])

\* The nodes that hold key; get_val_ptr and delete_key use the first of them.
Hits(list, key) == {i \in 1..Len(list) : list[i].key = key}

FirstHit(list, key) ==
    CHOOSE i \in Hits(list, key) : \A j \in Hits(list, key) : i <= j

ListGet(list, key, none) ==
    IF Hits(list, key) = {} THEN none ELSE list[FirstHit(list, key)].val

\* delete_key on a list that has a first node and holds key.
ListDelete(list, key) ==
    LET i == FirstHit(list, key)
    IN  SubSeq(list, 1, i - 1) \o SubSeq(list, i + 1, Len(list))

\* The order every list is meant to keep.
Sorted(list) ==
    \A i, j \in 1..Len(list) : i < j => list[i].key < list[j].key
==============================================================================
