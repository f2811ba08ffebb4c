-------------------------------- MODULE Tree --------------------------------
(***************************************************************************)
(* The red-black tree of a memtable in its arena (MemtableInner in         *)
(* src/memtable/inner.rs): insertion, the loop that restores the tree's    *)
(* rules one turn at a time, search, and the traversal that writes an      *)
(* SSTable in key order (inorder_flush in src/sstable/encode.rs).          *)
(*                                                                         *)
(* Nodes are only ever appended to the arena and keep their key, so the    *)
(* arena is a function from the keys it holds and a node's index is its    *)
(* key; Absent is Option::None.  A node's record is what module Table      *)
(* takes it to be; the log is left out.                                    *)
(***************************************************************************)
EXTENDS Table

CONSTANT Entries    \* the records inserted

ASSUME TreeAssumption == Key \subseteq Nat /\ Entries \subseteq Entry

VARIABLES
    arena, root_node, current_size,   \* struct MemtableInner
    fixing                            \* node_idx of insert_fix_tree, or None

vars == << arena, root_node, current_size, fixing >>

None == Absent
Index == DOMAIN arena

Init ==
    /\ arena = [k \in {} |-> None]
    /\ root_node = None
    /\ current_size = 0
    /\ fixing = None

----------------------------------------------------------------------------
(* Searching.                                                              *)

\* The child a search for key k goes to from node i.
Toward(k, i) == IF k < i THEN arena[i].left ELSE arena[i].right

\* Where a search for k ends: the node with k, or the last one on the way.
Descend(k) ==
    LET from[i \in Index] ==
            IF i = k \/ Toward(k, i) = None THEN i ELSE from[Toward(k, i)]
    IN  from[root_node]

\* get_search: the node with the key, if there is one.
get_search(k) ==
    IF root_node # None /\ Descend(k) = k THEN k ELSE None

----------------------------------------------------------------------------
(* Insertion: insert_data_record, insert_tombstone_record.                 *)

\* MemtableInner::full.
tree_full == Cardinality(Index) = MaxNodes \/ current_size >= MaxSize

\* MemtableNode::new_data_record and ::new_tombstone_record.
NewTreeNode(e, parent, color) ==
    [record |-> NewNode(e.datum), left |-> None, right |-> None,
     parent |-> parent, color |-> color]

\* A full table gives the record back.
InsertFull(e) == fixing = None /\ tree_full /\ UNCHANGED vars

\* set_root: the first node is black, its size is not counted.
InsertRoot(e) ==
    /\ fixing = None /\ ~tree_full
    /\ root_node = None
    /\ arena' = [k \in {e.key} |-> NewTreeNode(e, None, "black")]
    /\ root_node' = e.key
    /\ UNCHANGED << current_size, fixing >>

\* Mutant: an update is counted like a new node.
InsertExistingCounted(e) ==
    /\ fixing = None /\ ~tree_full
    /\ get_search(e.key) # None
    /\ arena' = [arena EXCEPT ![get_search(e.key)].record =
                    update_from_record(@, e.datum)]
    /\ current_size' = current_size + NodeSize(e.datum)
    /\ UNCHANGED << root_node, fixing >>

\* find_insert_position returns ExistingNode: the record is updated in place
\* and no size counted.
InsertExisting(e) ==
    /\ fixing = None /\ ~tree_full
    /\ get_search(e.key) # None
    /\ arena' = [arena EXCEPT ![get_search(e.key)].record =
                    update_from_record(@, e.datum)]
    /\ UNCHANGED << root_node, current_size, fixing >>

\* find_insert_position returns NewNode: a red leaf under the last node of
\* the search, and the loop starts from it.
InsertNew(e) ==
    /\ fixing = None /\ ~tree_full
    /\ root_node # None
    /\ get_search(e.key) = None
    /\ LET parent == Descend(e.key)
           linked == IF e.key < parent
                     THEN [arena EXCEPT ![parent].left = e.key]
                     ELSE [arena EXCEPT ![parent].right = e.key]
       IN  arena' = [k \in Index \cup {e.key} |->
                        IF k = e.key THEN NewTreeNode(e, parent, "red")
                                     ELSE linked[k]]
    /\ current_size' = current_size + NodeSize(e.datum)
    /\ fixing' = e.key
    /\ UNCHANGED root_node

----------------------------------------------------------------------------
(* insert_fix_tree.                                                        *)

\* a with child x of p replaced by y; the root if p is None.
Relink(a, p, x, y) ==
    IF p = None THEN a
    ELSE IF a[p].left = x THEN [a EXCEPT ![p].left = y]
                          ELSE [a EXCEPT ![p].right = y]

Reparent(a, i, p) == IF i = None THEN a ELSE [a EXCEPT ![i].parent = p]

\* Mutant: the child that changes sides keeps its parent.
left_rotate_orphan(a, n) ==
    LET r == a[n].right
        p == a[n].parent
        moved == [a EXCEPT ![n].right = a[r].left, ![r].parent = p]
    IN  [Relink(moved, p, n, r) EXCEPT ![r].left = n, ![n].parent = r]

\* left_rotate and right_rotate: n's child takes its place.
left_rotate(a, n) ==
    LET r == a[n].right
        p == a[n].parent
        moved == Reparent([a EXCEPT ![n].right = a[r].left, ![r].parent = p],
                          a[r].left, n)
    IN  [Relink(moved, p, n, r) EXCEPT ![r].left = n, ![n].parent = r]

right_rotate(a, n) ==
    LET l == a[n].left
        p == a[n].parent
        moved == Reparent([a EXCEPT ![n].left = a[l].right, ![l].parent = p],
                          a[l].right, n)
    IN  [Relink(moved, p, n, l) EXCEPT ![l].right = n, ![n].parent = l]

\* The root after n was rotated below its child c.
RootAfter(n, c) == IF arena[n].parent = None THEN c ELSE root_node

Parent == arena[fixing].parent
Grandparent == arena[Parent].parent

\* MemtableNode::uncle.
uncle == IF arena[Grandparent].left = Parent THEN arena[Grandparent].right
                                             ELSE arena[Grandparent].left

\* The loop goes on while node and parent are both red.
RedParent ==
    /\ fixing # None
    /\ Parent # None
    /\ arena[Parent].color = "red"

RedUncle == uncle # None /\ arena[uncle].color = "red"

\* child_type: both left or both right children.
IsLeft(p, i) == arena[p].left = i

Outer == IsLeft(Grandparent, Parent) = IsLeft(Parent, fixing)

\* The loop ends and the root turns black.
FixDone ==
    /\ fixing # None
    /\ ~RedParent
    /\ arena' = [arena EXCEPT ![root_node].color = "black"]
    /\ fixing' = None
    /\ UNCHANGED << root_node, current_size >>

\* Mutant: the loop stops at the grandparent it has just coloured.
FixRecolorStops ==
    /\ RedParent
    /\ RedUncle
    /\ LET recoloured == [arena EXCEPT ![uncle].color = "black",
                                       ![Parent].color = "black",
                                       ![Grandparent].color = "red"]
       IN  arena' = [recoloured EXCEPT ![root_node].color = "black"]
    /\ fixing' = None
    /\ UNCHANGED << root_node, current_size >>

\* A red uncle: recolour and go on from the grandparent.
FixRecolor ==
    /\ RedParent
    /\ RedUncle
    /\ arena' = [arena EXCEPT ![uncle].color = "black",
                              ![Parent].color = "black",
                              ![Grandparent].color = "red"]
    /\ fixing' = Grandparent
    /\ UNCHANGED << root_node, current_size >>

\* Case 2, an inner child: rotate the parent and go on from it.
FixInner ==
    /\ RedParent
    /\ ~RedUncle /\ ~Outer
    /\ arena' = IF IsLeft(Grandparent, Parent) THEN left_rotate(arena, Parent)
                                               ELSE right_rotate(arena, Parent)
    /\ root_node' = RootAfter(Parent, fixing)
    /\ fixing' = Parent
    /\ UNCHANGED current_size

\* Case 3, an outer child: insert_recolor, rotate the grandparent, leave the
\* loop; then the root turns black.
FixOuter ==
    /\ RedParent
    /\ ~RedUncle /\ Outer
    /\ root_node' = RootAfter(Grandparent, Parent)
    /\ LET coloured == [arena EXCEPT ![Parent].color = "black",
                                     ![Grandparent].color = "red"]
           rotated == IF IsLeft(Grandparent, Parent)
                      THEN right_rotate(coloured, Grandparent)
                      ELSE left_rotate(coloured, Grandparent)
       IN  arena' = [rotated EXCEPT ![root_node'].color = "black"]
    /\ fixing' = None
    /\ UNCHANGED current_size

Next ==
    \/ \E e \in Entries :
        InsertFull(e) \/ InsertRoot(e) \/ InsertExisting(e) \/ InsertNew(e)
    \/ FixDone \/ FixRecolor \/ FixInner \/ FixOuter

Spec == Init /\ [][Next]_vars

----------------------------------------------------------------------------
(* Properties.                                                             *)

\* The links of the arena are a tree: the root has no parent, every other
\* node is the child of its parent on exactly one side, and no link is stale
\* after a rotation.
WellLinked ==
    /\ root_node = None <=> Index = {}
    /\ root_node # None => arena[root_node].parent = None
    /\ \A i \in Index :
        /\ i # root_node =>
            /\ arena[i].parent # None
            /\ (arena[arena[i].parent].left = i) # (arena[arena[i].parent].right = i)
        /\ \A c \in {arena[i].left, arena[i].right} \ {None} :
            arena[c].parent = i

\* Black nodes from node i up to the root.
Blacks(i) ==
    LET up[j \in Index] == (IF arena[j].color = "black" THEN 1 ELSE 0)
                              + (IF arena[j].parent = None THEN 0
                                 ELSE up[arena[j].parent])
    IN  up[i]

\* The rules of a red-black tree between insertions, and what the loop of
\* insert_fix_tree keeps of them on its way: only the node in hand may be red
\* under a red parent, and only the root in hand may be red.
RedBlack ==
    LET ends == {i \in Index : None \in {arena[i].left, arena[i].right}}
    IN  /\ root_node # None /\ root_node # fixing =>
                arena[root_node].color = "black"
        /\ \A i \in Index \ {root_node, fixing} :
            arena[i].color = "red" => arena[arena[i].parent].color = "black"
        /\ \A i, j \in ends : Blacks(i) = Blacks(j)

\* Mutant: the node before its left subtree.
inorder_flush_preorder ==
    LET from[i \in Index \cup {None}] ==
            IF i = None THEN << >>
            ELSE << i >> \o from[arena[i].left] \o from[arena[i].right]
    IN  from[root_node]

\* inorder_flush: the order in which the records are written to an SSTable.
inorder_flush ==
    LET from[i \in Index \cup {None}] ==
            IF i = None THEN << >>
            ELSE from[arena[i].left] \o << i >> \o from[arena[i].right]
    IN  from[root_node]

\* A flush writes every record once, in strictly ascending key order: the
\* merge of SSTables relies on the order, recovery on none being missed.
FlushedInOrder ==
    LET order == inorder_flush
    IN  /\ ToSet(order) = Index
        /\ \A i \in 1..(Len(order) - 1) :
            order[i] < order[i + 1]

\* The table a search of the tree shows.
Shown ==
    [wal |-> 1, buffer |-> << >>, size |-> current_size,
     arena |-> [k \in Key |-> IF get_search(k) = None THEN Absent
                              ELSE arena[get_search(k)].record]]

Abstract == INSTANCE Memtable WITH table <- Shown

\* The tree implements the memtable of the engine's model: each insertion
\* shows at once to every search, the size and the limits are those of the
\* abstract table, and no rotation or recolouring changes what is found.
ImplementsMemtable == Abstract!Spec
=============================================================================
