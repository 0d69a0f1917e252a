----------------------------- MODULE PgSqlModel -----------------------------
(***************************************************************************)
(* The statements of PgSqlModel (pgsql-model.cpp) on a table: a function    *)
(* from the ids of its rows to records of their columns.  Each is one       *)
(* transaction, so one step of its caller; a statement the database refuses *)
(* gives an error and leaves the table as it was; one that another row's    *)
(* unique name, say, or missing data refuses is left to its caller.         *)
(* Quoting, the columns a query selects and the JSON of its result are left *)
(* out.                                                                     *)
(***************************************************************************)
EXTENDS Naturals, FiniteSets

\* All and Where: the ids of the rows they find.
All(table) == {id \in DOMAIN table : ~table[id].deleted}
Where(table, key, value) == {id \in All(table) : table[id][key] = value}

\* Insert takes the sequence's next id, or the one among its values, which nobody
\* filters: any that no row has.
Insert(table, id, row) ==
    [n \in DOMAIN table \cup {id} |-> IF n = id THEN row ELSE table[n]]

\* Delete keeps the row.
Delete(table, id) == [table EXCEPT ![id].deleted = TRUE]

\* Update finds a row that is deleted too, and its values may name any column, the
\* id as well: the row then has the number `to`, which no other row may have.
Update(table, id, to, row) ==
    [n \in (DOMAIN table \ {id}) \cup {to} |-> IF n = to THEN row ELSE table[n]]
Free(table, id, to) == to = id \/ to \notin DOMAIN table

\* Access: the row a name and its password find, unless it is deleted.
Access(table) == All(table)
=============================================================================
