--------------------------------- MODULE BTree ---------------------------------
(***************************************************************************)
(* The B+tree of ordadb-index, which is filled entry by entry whenever an  *)
(* index is rebuilt and then only read.  Rows come in the order of their   *)
(* ids, keys in any order and, unless the index is unique, repeatedly: the *)
(* entries of one key may span several leaves, so an insert must go to the *)
(* right of a separator that equals its key and a search to the left.      *)
(* Null keys are equal to each other, and a unique index takes them all.   *)
(***************************************************************************)
EXTENDS Naturals, SequencesExt

CONSTANTS
    Keys,       \* a set of numbers
    order,      \* entries of a leaf and children of an internal node, at most
    MaxEntries  \* bound: rows of the table

VARIABLES
    nodes,  \* the arena
    root,
    unique,
    rows    \* the keys that were taken, by row id

btree == <<nodes, root, unique, rows>>

Null == 0
NoLeaf == 0

Leaf(entries, next)      == [entries |-> entries, next |-> next]
Internal(keys, children) == [keys |-> keys, children |-> children]
IsLeaf(node) == "entries" \in DOMAIN node

EmptyTree ==
    /\ nodes = <<Leaf(<<>>, NoLeaf)>>
    /\ root = 1
    /\ unique \in BOOLEAN
    /\ rows = <<>>

\* partition_point: the place after these first places of a sequence.
After(places) == Cardinality(places) + 1

-----------------------------------------------------------------------------
(***************************************************************************)
(* Reading.                                                                *)
(***************************************************************************)
\* Mutant: to the right of it.
ChildOf_right(node, key) ==
    node.children[After({i \in DOMAIN node.keys : node.keys[i] <= key})]

\* The search of a lower bound goes to the left of an equal separator.
ChildOf(node, key) ==
    node.children[After({i \in DOMAIN node.keys : node.keys[i] < key})]

Seek(key, included) ==
    LET before(entry) == IF included THEN entry[1] < key ELSE entry[1] <= key
        first(node) == After({i \in DOMAIN node.entries : before(node.entries[i])})
        seek[id \in DOMAIN nodes] ==
            LET node == nodes[id] IN
            CASE ~IsLeaf(node) -> seek[ChildOf(node, key)]
              [] IsLeaf(node) /\ first(node) <= Len(node.entries) -> <<id, first(node)>>
              [] OTHER -> IF node.next = NoLeaf THEN <<NoLeaf, 1>> ELSE seek[node.next]
    IN seek[root]

Leftmost ==
    LET leaf[id \in DOMAIN nodes] == IF IsLeaf(nodes[id]) THEN id ELSE leaf[nodes[id].children[1]]
    IN leaf[root]

\* A bound of a range is [key, included], or Unbounded.
Unbounded == [key |-> Null, included |-> FALSE]

exceeds_upper_bound(key, upper) ==
    upper # Unbounded /\ (key > upper.key \/ (key = upper.key /\ ~upper.included))

\* BPlusTreeIter::next: along the leaves until an entry exceeds the bound.
Scan(from, upper) ==
    LET scan[leaf \in DOMAIN nodes \union {NoLeaf}, offset \in 1..(order + 1)] ==
            IF leaf = NoLeaf THEN <<>>
            ELSE LET node == nodes[leaf] IN
                 IF offset > Len(node.entries) THEN scan[node.next, 1]
                 ELSE IF exceeds_upper_bound(node.entries[offset][1], upper) THEN <<>>
                 ELSE <<node.entries[offset]>> \o scan[leaf, offset + 1]
    IN scan[from[1], from[2]]

range(lower, upper) ==
    Scan(IF lower = Unbounded THEN <<Leftmost, 1>> ELSE Seek(lower.key, lower.included), upper)

contains_key(key) ==
    range([key |-> key, included |-> TRUE], [key |-> key, included |-> TRUE]) # <<>>

-----------------------------------------------------------------------------
(***************************************************************************)
(* Inserting.                                                              *)
(***************************************************************************)
\* The internal nodes on the way to the leaf of a key, and the child taken.
PathTo(key) ==
    LET path[id \in DOMAIN nodes] ==
            IF IsLeaf(nodes[id]) THEN <<<<id, 0>>>>
            ELSE LET index == After({i \in DOMAIN nodes[id].keys : nodes[id].keys[i] <= key})
                 IN <<<<id, index>>>> \o path[nodes[id].children[index]]
    IN path[root]

\* A child to the right of the one at a step of the path, and the separator
\* between them; a node with too many children splits in turn.
Link(split, step) ==
    LET id == step[1]
        keys == InsertAt(split.nodes[id].keys, step[2], split.separator)
        children == InsertAt(split.nodes[id].children, step[2] + 1, split.right)
        middle == Len(keys) \div 2
    IN IF Len(children) <= order
       THEN [split EXCEPT !.nodes[id] = Internal(keys, children), !.right = NoLeaf]
       ELSE [nodes |-> Append([split.nodes EXCEPT ![id] =
                                 Internal(SubSeq(keys, 1, middle), SubSeq(children, 1, middle + 1))],
                              Internal(SubSeq(keys, middle + 2, Len(keys)),
                                       SubSeq(children, middle + 2, Len(children)))),
             separator |-> keys[middle + 1],
             right |-> Len(split.nodes) + 1]

\* The tree after a split of the leaf at the end of a path has reached as far
\* up as it does, to a new root if it must.
Linked(split, path) ==
    LET link(step, done) == IF done.right = NoLeaf THEN done ELSE Link(done, step)
        end == FoldRight(link, path, split)
    IN IF end.right = NoLeaf THEN [nodes |-> end.nodes, root |-> root]
       ELSE [nodes |-> Append(end.nodes, Internal(<<end.separator>>, <<root, end.right>>)),
             root |-> Len(end.nodes) + 1]

\* insert_leaf and the splits above it.
Inserted(entry) ==
    LET path == PathTo(entry[1])
        id == Last(path)[1]
        before(e) == e[1] < entry[1] \/ (e[1] = entry[1] /\ e[2] < entry[2])
        place == After({i \in DOMAIN nodes[id].entries : before(nodes[id].entries[i])})
        entries == InsertAt(nodes[id].entries, place, entry)
        half == (Len(entries) + 1) \div 2
    IN IF Len(entries) <= order
       THEN [nodes |-> [nodes EXCEPT ![id].entries = entries], root |-> root]
       ELSE Linked([nodes |-> Append([nodes EXCEPT ![id] = Leaf(SubSeq(entries, 1, half), Len(nodes) + 1)],
                                     Leaf(SubSeq(entries, half + 1, Len(entries)), nodes[id].next)),
                    separator |-> entries[half + 1][1],
                    right |-> Len(nodes) + 1],
                   Front(path))

\* A duplicate in a unique index is refused, and then the whole rebuild.
insert(key) ==
    /\ Len(rows) < MaxEntries
    /\ ~(unique /\ key # Null /\ contains_key(key))
    /\ nodes' = Inserted(<<key, Len(rows) + 1>>).nodes
    /\ root' = Inserted(<<key, Len(rows) + 1>>).root
    /\ rows' = Append(rows, key)
    /\ UNCHANGED unique

Next == \E key \in Keys \union {Null} : insert(key)

Spec == EmptyTree /\ [][Next]_btree

-----------------------------------------------------------------------------
(***************************************************************************)
(* Every range, open or closed at either end, returns exactly the entries  *)
(* of the rows in it, in the order of keys and row ids, however the leaves *)
(* were split; and a unique index has no key twice.                        *)
(***************************************************************************)
Bounds == {Unbounded} \union [key : Keys, included : BOOLEAN]

Within(key, lower, upper) ==
    /\ lower = Unbounded \/ key > lower.key \/ (key = lower.key /\ lower.included)
    /\ upper = Unbounded \/ key < upper.key \/ (key = upper.key /\ upper.included)

InOrder(x, y) == x[1] < y[1] \/ (x[1] = y[1] /\ x[2] < y[2])

RangesAreExact ==
    /\ \A lower, upper \in Bounds :
          LET found == range(lower, upper) IN
          /\ ToSet(found) = {<<rows[i], i>> : i \in {i \in DOMAIN rows : Within(rows[i], lower, upper)}}
          /\ \A i \in 1 .. Len(found) - 1 : InOrder(found[i], found[i + 1])
    /\ unique => \A i, j \in DOMAIN rows : rows[i] = rows[j] /\ i # j => rows[i] = Null
=============================================================================
