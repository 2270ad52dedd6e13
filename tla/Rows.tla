-------------------------------- MODULE Rows --------------------------------
(* The generic repository (platform/repository): a table is a function from   *)
(* ids to rows, and a row that was never inserted, or was deleted for good,    *)
(* is NoRow. Rows of a soft-deleting table carry the field "deleted", and      *)
(* reads and updates see live rows only.                                      *)
CONSTANT NoRow

\* liveClause: the rows that reads and updates of a soft-deleting table see.
LiveIds(table) == {id \in DOMAIN table : table[id] # NoRow /\ ~table[id].deleted}

\* Find, Exists, Count: the live rows that satisfy a condition.
Find(table, Cond(_)) == {id \in LiveIds(table) : Cond(table[id])}

\* Insert: a new row; a violated unique index is the caller's guard.
Insert(table, id, row) == [table EXCEPT ![id] = row]

\* Update: sets the given columns of a live row; there may be none.
Update(table, id, values) ==
    IF id \notin LiveIds(table) THEN table
    ELSE [table EXCEPT ![id] = [c \in DOMAIN @ |-> IF c \in DOMAIN values THEN values[c] ELSE @[c]]]

\* SoftDelete: stamps the column once.
SoftDelete(table, id) == Update(table, id, [deleted |-> TRUE])

\* Delete: removes the row.
Delete(table, id) == [table EXCEPT ![id] = NoRow]
=============================================================================
