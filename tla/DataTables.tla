----------------------------- MODULE DataTables -----------------------------
(***************************************************************************)
(* One table of a DISP Data store in the interpreter: its rows, the hash   *)
(* indexes beside them, schema evolution when a program with a newer       *)
(* declaration opens the store, and the rollback when a commit fails.  The *)
(* commit itself is DataStore's; here it puts the snapshot on disk or      *)
(* fails, in which case the disk may hold either.  A row is a function     *)
(* from field names to values; the key of a value in an index is its JSON  *)
(* text, equality in a condition is that of the values.                    *)
(***************************************************************************)
EXTENDS Integers, Sequences, FiniteSets

CONSTANTS Schemas,    \* the declarations that programs open the store with
          Values,     \* field values; each is its own JSON text
          Same(_, _), \* equality of two values in a condition
          Predicates, \* the conditions asked
          RowLimit,   \* DATABASE_ROW_LIMIT
          MaxOps      \* bound: operations

VARIABLES schema,   \* the declaration of the running program
          table,    \* the decoded table in memory, or none
          pending,  \* the stored table that no operation has decoded yet, or none
          disk,     \* what a reopen would read
          doubt,    \* a commit failed since the disk was last known to match
          last,     \* the outcome of the last operation
          ops

vars == <<schema, table, pending, disk, doubt, last, ops>>

NoTable == [fields |-> <<>>, rows |-> <<>>]
Failed == "error"
Null == "null"

Keyed(f) == f.primary \/ f.unique \/ f.indexed
Names(fields) == {fields[i].name : i \in DOMAIN fields}
PrimaryOf(fields) == CHOOSE i \in DOMAIN fields : fields[i].primary

-----------------------------------------------------------------------------
(* Indexes: for each field or constraint, key |-> positions of its rows.   *)

Ascending(S) == CHOOSE s \in [1..Cardinality(S) -> S] : \A i, j \in DOMAIN s : i < j => s[i] < s[j]

Positions(rows, key(_)) ==
  [k \in {key(rows[i]) : i \in DOMAIN rows} |-> Ascending({i \in DOMAIN rows : key(rows[i]) = k})]

native_data_indexes(fields, rows) ==
  [i \in DOMAIN fields |->
     IF Keyed(fields[i])
     THEN LET key(row) == row[fields[i].name] IN Positions(rows, key)
     ELSE <<>>]

\* The composite key spells each part with its length: distinct parts, distinct keys.
native_data_composite_key(fields, constraint, row) ==
  [j \in DOMAIN constraint.fields |-> row[fields[constraint.fields[j]].name]]

native_data_composite_indexes(fields, constraints, rows) ==
  [c \in DOMAIN constraints |->
     LET key(row) == native_data_composite_key(fields, constraints[c], row) IN Positions(rows, key)]

Repeats(index) == \E k \in DOMAIN index : Len(index[k]) > 1

\* Both index builders fail at the second row with the key of a unique index.
Build(s, rows) ==
  LET single == native_data_indexes(s.fields, rows)
      composite == native_data_composite_indexes(s.fields, s.constraints, rows)
  IN IF \/ \E i \in DOMAIN s.fields : (s.fields[i].primary \/ s.fields[i].unique) /\ Repeats(single[i])
        \/ \E c \in DOMAIN s.constraints : s.constraints[c].unique /\ Repeats(composite[c])
     THEN NoTable
     ELSE [fields |-> s.fields, constraints |-> s.constraints, rows |-> rows,
           indexes |-> single, composites |-> composite]

\* A fault: only the rows are replaced.
RebuildLazily(t, rows) == [t EXCEPT !.rows = rows]

native_data_rebuild_indexes(t, rows) == Build(t, rows)

-----------------------------------------------------------------------------
(* Schema evolution.                                                       *)

Stored(t) == [fields |-> t.fields, constraints |-> t.constraints, rows |-> t.rows]

native_data_schema_evolution(old, new) ==
  LET Common == DOMAIN old.fields
      Fits(i) == LET was == old.fields[i] is == new.fields[i] IN
                 /\ was.name # is.name => is.from = was.name
                 /\ was.optional = is.optional /\ was.primary = is.primary
                 /\ was.unique => is.unique
                 /\ was.indexed => is.indexed
      Added == DOMAIN new.fields \ Common
  IN /\ Common \subseteq DOMAIN new.fields
     /\ \A i \in Common : Fits(i)
     /\ \A i \in Added : ~new.fields[i].primary
                         /\ (new.fields[i].optional \/ new.fields[i].default # Null)
     /\ DOMAIN old.constraints \subseteq DOMAIN new.constraints
     /\ \A c \in DOMAIN old.constraints : old.constraints[c] = new.constraints[c]

\* A fault: a new unique or index mark alone does not count as a change.
ChangedFields(old, new) ==
  \/ Len(old.fields) # Len(new.fields) \/ Len(old.constraints) # Len(new.constraints)
  \/ \E i \in DOMAIN old.fields : old.fields[i].name # new.fields[i].name

Changed(old, new) ==
  \/ Len(old.fields) # Len(new.fields) \/ Len(old.constraints) # Len(new.constraints)
  \/ \E i \in DOMAIN old.fields :
       LET was == old.fields[i] is == new.fields[i] IN
       was.name # is.name \/ was.unique # is.unique \/ was.indexed # is.indexed

\* A fault: values are looked up under their new names.
MigrateByName(old, new, row) ==
  [n \in Names(new.fields) |->
     IF n \in DOMAIN row THEN row[n]
     ELSE (CHOOSE f \in {new.fields[i] : i \in DOMAIN new.fields} : f.name = n).default]

migrate_native_data_row(old, new, row) ==
  LET At(n) == CHOOSE i \in DOMAIN new.fields : new.fields[i].name = n IN
  [n \in Names(new.fields) |->
     IF At(n) \in DOMAIN old.fields THEN row[old.fields[At(n)].name] ELSE new.fields[At(n)].default]

MigratedRows(old, new) == [i \in DOMAIN old.rows |-> migrate_native_data_row(old, new, old.rows[i])]

-----------------------------------------------------------------------------

Snapshot(t, p) == IF t # NoTable THEN Stored(t) ELSE p

Init ==
  /\ schema \in Schemas /\ table = NoTable /\ pending = NoTable /\ disk = NoTable
  /\ doubt = FALSE /\ last = "none" /\ ops = 0

(* mutate_native_data: the store becomes (t, p) and is committed, or goes back.             *)
Commit(t, p) ==
  \/ /\ table' = t /\ pending' = p /\ disk' = Snapshot(t, p)
     /\ doubt' = FALSE /\ last' = "ok"
  \/ /\ UNCHANGED <<table, pending>>
     /\ disk' \in {disk, Snapshot(t, p)}
     /\ doubt' = TRUE /\ last' = Failed

Refuse == last' = Failed /\ UNCHANGED <<table, pending, disk, doubt>>

Begin == ops < MaxOps /\ ops' = ops + 1 /\ UNCHANGED schema

\* A fault: a table that needs no migration is decoded and stays pending as well.
DecodeKeeping ==
  /\ Begin /\ table = NoTable
  /\ IF pending = NoTable
     THEN Commit(Build(schema, <<>>), NoTable)
     ELSE IF ~native_data_schema_evolution(pending, schema) \/ Changed(pending, schema) THEN Refuse
     ELSE /\ table' = Build(schema, MigratedRows(pending, schema))
          /\ last' = "ok" /\ UNCHANGED <<pending, disk, doubt>>

(* data_ensure_schema where the table is not yet in memory: the first operation on it.      *)
data_ensure_schema ==
  /\ Begin /\ table = NoTable
  /\ IF pending = NoTable
     THEN Commit(Build(schema, <<>>), NoTable)
     ELSE IF ~native_data_schema_evolution(pending, schema) THEN Refuse
     ELSE LET built == Build(schema, MigratedRows(pending, schema)) IN
          IF built = NoTable THEN Refuse
          ELSE IF Changed(pending, schema) THEN Commit(built, NoTable)
          ELSE table' = built /\ pending' = NoTable /\ last' = "ok" /\ UNCHANGED <<disk, doubt>>

\* The rows of t that already hold the value of the row, by a unique field or constraint.
Holders(t, row, i) ==
  LET k == row[t.fields[i].name] IN
  IF k \in DOMAIN t.indexes[i] THEN {t.indexes[i][k][1]} ELSE {}
CompositeHolders(t, row, c) ==
  LET k == native_data_composite_key(t.fields, t.constraints[c], row) IN
  IF k \in DOMAIN t.composites[c] THEN {t.composites[c][k][1]} ELSE {}

Collides(t, row, own) ==
  \/ \E i \in DOMAIN t.fields : t.fields[i].unique /\ ~(Holders(t, row, i) \subseteq own)
  \/ \E c \in DOMAIN t.constraints :
       t.constraints[c].unique /\ ~(CompositeHolders(t, row, c) \subseteq own)

Rebuilt(rows) ==
  LET built == native_data_rebuild_indexes(table, rows) IN
  IF built = NoTable
  THEN /\ table' = [table EXCEPT !.rows = rows]     \* the rows were changed before the error
       /\ last' = Failed /\ UNCHANGED <<pending, disk, doubt>>
  ELSE Commit(built, pending)

(* `data add` (replace = FALSE) and `data save`.                                            *)
native_data_write(row, replace) ==
  /\ Begin /\ table # NoTable
  /\ LET own == Holders(table, row, PrimaryOf(table.fields)) IN
     CASE Collides(table, row, own) -> Refuse
       [] ~Collides(table, row, own) /\ own # {} ->
            IF ~replace THEN Refuse
            ELSE Rebuilt([i \in DOMAIN table.rows |-> IF i \in own THEN row ELSE table.rows[i]])
       [] OTHER ->
            IF Len(table.rows) >= RowLimit THEN Refuse
            ELSE Rebuilt(Append(table.rows, row))

-----------------------------------------------------------------------------
(* Conditions.                                                             *)

RECURSIVE Holds(_, _)
Holds(p, row) ==
  CASE p.op = "eq"  -> Same(row[p.field], p.value)
    [] p.op = "ne"  -> ~Same(row[p.field], p.value)
    [] p.op = "and" -> Holds(p.left, row) /\ Holds(p.right, row)
    [] p.op = "or"  -> Holds(p.left, row) \/ Holds(p.right, row)

RECURSIVE native_data_equality_values(_)
native_data_equality_values(p) ==
  CASE p.op = "eq"  -> [f \in {p.field} |-> p.value]
    [] p.op = "and" -> LET l == native_data_equality_values(p.left)
                           r == native_data_equality_values(p.right)
                       IN [f \in DOMAIN l \union DOMAIN r |-> IF f \in DOMAIN l THEN l[f] ELSE r[f]]
    [] OTHER        -> [f \in {} |-> Null]

RECURSIVE FieldsOf(_)
FieldsOf(p) == IF p.op \in {"eq", "ne"} THEN {p.field} ELSE FieldsOf(p.left) \union FieldsOf(p.right)

First(S) == CHOOSE i \in S : \A j \in S : i <= j
Lookup(index, key) == IF key \in DOMAIN index THEN index[key] ELSE <<>>

\* native_data_indexed_rows: positions, by the first covered constraint, else the first
\* covered field that has an index, else all of them.
native_data_indexed_rows(p) ==
  LET given == native_data_equality_values(p)
      Covers(c) == \A j \in DOMAIN table.constraints[c].fields :
                     table.fields[table.constraints[c].fields[j]].name \in DOMAIN given
      constraints == {c \in DOMAIN table.constraints : Covers(c)}
      fields == {i \in DOMAIN table.fields : Keyed(table.fields[i])
                                             /\ table.fields[i].name \in DOMAIN given}
  IN CASE constraints # {} ->
            LET c == First(constraints) IN
            Lookup(table.composites[c],
                   native_data_composite_key(table.fields, table.constraints[c], given))
       [] constraints = {} /\ fields # {} ->
            LET i == First(fields) IN Lookup(table.indexes[i], given[table.fields[i].name])
       [] OTHER -> [i \in DOMAIN table.rows |-> i]

\* evaluate_data_query: the candidates are filtered by the whole condition.
evaluate_data_query(p) ==
  SelectSeq(native_data_indexed_rows(p), LAMBDA i : Holds(p, table.rows[i]))

\* evaluate_data_remove scans, then puts back what is retained.
evaluate_data_remove(p) ==
  /\ Begin /\ table # NoTable
  /\ Rebuilt(SelectSeq(table.rows, LAMBDA row : ~Holds(p, row)))

(* The store is closed, and opened by a program with declaration s.                         *)
Reopen(s) ==
  /\ ops < MaxOps /\ ops' = ops + 1
  /\ schema' = s /\ table' = NoTable /\ pending' = disk
  /\ doubt' = FALSE /\ last' = "ok" /\ UNCHANGED disk

Rows == [Names(schema.fields) -> Values]
Asked == {p \in Predicates : \A f \in FieldsOf(p) : f \in Names(schema.fields)}

Next ==
  \/ data_ensure_schema
  \/ \E row \in Rows, replace \in BOOLEAN : native_data_write(row, replace)
  \/ \E p \in Asked : evaluate_data_remove(p)
  \/ \E s \in Schemas : Reopen(s)

Spec == Init /\ [][Next]_vars

-----------------------------------------------------------------------------

\* A table in memory has rows over its fields, and memory never holds both forms of it.
TypeOK ==
  /\ schema \in Schemas /\ doubt \in BOOLEAN /\ last \in {"none", "ok", Failed} /\ ops \in 0..MaxOps
  /\ table # NoTable => \A i \in DOMAIN table.rows : table.rows[i] \in Rows
  /\ table = NoTable \/ pending = NoTable

\* What every condition selects through an index (native_data_indexed_rows then the filter of
\* evaluate_data_query) is what a scan of the table selects, in the same order.
IndexedEqualsScan ==
  table # NoTable =>
    \A p \in Asked : evaluate_data_query(p) =
      SelectSeq([i \in DOMAIN table.rows |-> i], LAMBDA i : Holds(p, table.rows[i]))

\* No two rows share the value of the primary field, of a unique field or of the fields of a
\* unique constraint, whatever writes, removals and migrations led here.
KeysUnique ==
  table # NoTable =>
    \A i, j \in DOMAIN table.rows : i # j =>
      /\ \A f \in DOMAIN schema.fields : (schema.fields[f].primary \/ schema.fields[f].unique) =>
           table.rows[i][schema.fields[f].name] # table.rows[j][schema.fields[f].name]
      /\ \A c \in DOMAIN schema.constraints : schema.constraints[c].unique =>
           \E k \in DOMAIN schema.constraints[c].fields :
             LET n == schema.fields[schema.constraints[c].fields[k]].name
             IN table.rows[i][n] # table.rows[j][n]

\* Unless a commit failed, what memory holds is what a reopen would read: mutate_native_data
\* commits every change and data_ensure_schema commits every migration.
MemoryIsDurable == ~doubt => disk = Snapshot(table, pending)

\* An operation that returns an error changed nothing in memory (mutate_native_data puts the
\* previous store back, and every other refusal comes before the first change).
ErrorKeeps == last' = Failed => UNCHANGED <<table, pending>>
ErrorKeepsMemory == [][ErrorKeeps]_vars

\* A migration loses no row, keeps the order, and keeps every stored field's value at its
\* position under whatever name the new declaration gives it.
MigrationKeeps ==
  (pending # NoTable /\ table' # NoTable) =>
       /\ Len(table'.rows) = Len(pending.rows)
       /\ \A r \in DOMAIN pending.rows, f \in DOMAIN pending.fields :
            table'.rows[r][schema.fields[f].name] = pending.rows[r][pending.fields[f].name]
EvolutionKeepsRows == [][MigrationKeeps]_vars
=============================================================================
