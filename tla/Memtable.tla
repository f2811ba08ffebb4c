------------------------------ MODULE Memtable ------------------------------
(***************************************************************************)
(* What a memtable promises, whatever holds its records: one record per    *)
(* key and a size.  The engine's model (Lsmlite) uses these very           *)
(* operators; the red-black tree (Tree) is shown to implement them.        *)
(***************************************************************************)
EXTENDS Table

CONSTANT Entries    \* the records inserted

VARIABLE table

Init == table = NewTable(1)

\* A table that is not full takes a record.
Insert(e) == ~full(table) /\ table' = insert_node(table, e)

Next == \E e \in Entries : Insert(e)

Spec == Init /\ [][Next]_table
=============================================================================
