------------------------------- MODULE Schema -------------------------------
(***************************************************************************)
(* Table specifications, migration operations and the autodetector         *)
(* (src/src/ronnie/migrations: state.py, operations.py, autodetector.py).  *)
(*                                                                         *)
(* A model state is a function from the names of its tables to their       *)
(* specifications.  Defaults of fields are left out: the autodetector      *)
(* compares types only.  Every operation issues one statement; the four of *)
(* a table rebuild count as one.                                           *)
(***************************************************************************)
EXTENDS Integers, Sequences, SequencesExt, Functions, Lists

CONSTANTS
    TableOrder,     \* the names of tables, in the order TABLES declares them
    ColumnOrder,    \* the names of columns, in the order classes declare them
    NoName          \* pk_name of a class that has none

Tables == ToSet(TableOrder)
Columns == ToSet(ColumnOrder)
PyTypes == {"int", "bool", "float", "bytes", "str", "date"}

ASSUME NamesAssumption ==
    TableOrder \in Seq(Tables) /\ ColumnOrder \in Seq(Columns) /\ "id" \in Columns

\* The fields of a table, and what a class says of it.
Fields == UNION {[C -> PyTypes] : C \in SUBSET Columns}
Specs == [pk : Columns, fields : Fields]
Classes == [pk_name : Columns \cup {NoName}, fields : Fields]

Put(f, k, v) == [x \in DOMAIN f \cup {k} |-> IF x = k THEN v ELSE f[x]]
Without(f, k) == Restrict(f, DOMAIN f \ {k})

-----------------------------------------------------------------------------
\* state.py

\* The specification of a row class; without pk_name its key is id, which is
\* added if need be.
table_state_from_dataclass(cls) ==
    [pk |-> IF cls.pk_name # NoName THEN cls.pk_name ELSE "id",
     fields |-> IF cls.pk_name # NoName \/ "id" \in DOMAIN cls.fields
                THEN cls.fields
                ELSE Put(cls.fields, "id", "int")]

field_sql_type(pytype) ==
    CASE pytype \in {"int", "bool"} -> "INTEGER"
      [] pytype = "float" -> "FLOAT"
      [] pytype = "bytes" -> "BLOB"
      [] OTHER -> "TEXT"

\* The table that the CREATE TABLE of a specification makes.
ddl(spec) ==
    [pk |-> spec.pk, cols |-> [c \in DOMAIN spec.fields |-> field_sql_type(spec.fields[c])]]

NoTables == [t \in {} |-> NoName]

-----------------------------------------------------------------------------
\* operations.py

CreateTable(t, spec) == [kind |-> "CreateTable", table |-> t, spec |-> spec]
DeleteTable(t) == [kind |-> "DeleteTable", table |-> t]
AddField(t, c, pytype) == [kind |-> "AddField", table |-> t, name |-> c, pytype |-> pytype]
RemoveField(t, c) == [kind |-> "RemoveField", table |-> t, name |-> c]
RenameField(t, c, new) == [kind |-> "RenameField", table |-> t, name |-> c, new_name |-> new]
AlterField(t, c, pytype) == [kind |-> "AlterField", table |-> t, name |-> c, pytype |-> pytype]

\* RunSQL and RunPython, with or without a reverse: an effect on the rows.
RunSQL(reversible) == [kind |-> "RunSQL", reversible |-> reversible]
RunPython(reversible) == [kind |-> "RunPython", reversible |-> reversible]

Structural == {"CreateTable", "DeleteTable", "AddField", "RemoveField", "RenameField", "AlterField"}
is_reversible(op) == op.kind \in Structural \/ op.reversible

Operations ==
         [kind : {"CreateTable"}, table : Tables, spec : Specs]
    \cup [kind : {"DeleteTable"}, table : Tables]
    \cup [kind : {"AddField", "AlterField"}, table : Tables, name : Columns, pytype : PyTypes]
    \cup [kind : {"RemoveField"}, table : Tables, name : Columns]
    \cup [kind : {"RenameField"}, table : Tables, name : Columns, new_name : Columns]
    \cup [kind : {"RunSQL", "RunPython"}, reversible : BOOLEAN]

renamed(fields, c, new) ==
    IF c \notin DOMAIN fields THEN fields
    ELSE Put(Without(fields, c), new, fields[c])

\* As mutate_state, but a removed field stays.
mutate_state_KeepsField(op, state) ==
    CASE op.kind = "CreateTable" -> Put(state, op.table, op.spec)
      [] op.kind = "DeleteTable" -> Without(state, op.table)
      [] op.kind \in {"AddField", "AlterField"} ->
            [state EXCEPT ![op.table].fields = Put(@, op.name, op.pytype)]
      [] OTHER -> state

mutate_state(op, state) ==
    CASE op.kind = "CreateTable" -> Put(state, op.table, op.spec)
      [] op.kind = "DeleteTable" -> Without(state, op.table)
      [] op.kind \in {"AddField", "AlterField"} ->
            [state EXCEPT ![op.table].fields = Put(@, op.name, op.pytype)]
      [] op.kind = "RemoveField" -> [state EXCEPT ![op.table].fields = Without(@, op.name)]
      [] op.kind = "RenameField" -> [state EXCEPT ![op.table].fields = renamed(@, op.name, op.new_name)]
      [] OTHER -> state

Fold(ops) ==
    LET after[i \in 0..Len(ops)] == IF i = 0 THEN NoTables ELSE mutate_state(ops[i], after[i - 1])
    IN  after[Len(ops)]

\* What a statement does to the database: Raises when SQLite refuses it, or
\* when there is nothing to render it from (KeyError), Effect otherwise.
\* A rebuild copies the columns that source and target share.
Statement(sql, t, c, x) == [sql |-> sql, table |-> t, column |-> c, arg |-> x]
rebuild_statements(source, target, t) ==
    [sql |-> "rebuild", table |-> t, shared |-> DOMAIN target.fields \cap DOMAIN source.fields,
     target |-> target]
KeyError == [sql |-> "error"]
Run == [sql |-> "run"]
RunBack == [sql |-> "run back"]

sql_statements(op, before) ==
    CASE op.kind = "CreateTable" -> Statement("create table", op.table, NoName, op.spec)
      [] op.kind = "DeleteTable" -> Statement("drop table", op.table, NoName, NoName)
      [] op.kind = "AddField" -> Statement("add column", op.table, op.name, op.pytype)
      [] op.kind = "RemoveField" -> Statement("drop column", op.table, op.name, NoName)
      [] op.kind = "RenameField" -> Statement("rename column", op.table, op.name, op.new_name)
      [] op.kind = "AlterField" ->
            IF op.table \notin DOMAIN before THEN KeyError
            ELSE LET old == before[op.table] IN
                 rebuild_statements(old, [old EXCEPT !.fields = Put(@, op.name, op.pytype)], op.table)
      [] OTHER -> Run

\* The states are those before and after the whole migration, for each of its
\* operations.
reverse_statements(op, before, after) ==
    CASE op.kind = "CreateTable" -> Statement("drop table", op.table, NoName, NoName)
      [] op.kind = "DeleteTable" ->
            IF op.table \notin DOMAIN before THEN KeyError
            ELSE Statement("create table", op.table, NoName, before[op.table])
      [] op.kind = "AddField" -> Statement("drop column", op.table, op.name, NoName)
      [] op.kind = "RemoveField" ->
            IF op.table \notin DOMAIN before \/ op.name \notin DOMAIN before[op.table].fields THEN KeyError
            ELSE Statement("add column", op.table, op.name, before[op.table].fields[op.name])
      [] op.kind = "RenameField" -> Statement("rename column", op.table, op.new_name, op.name)
      [] op.kind = "AlterField" ->
            IF \/ op.table \notin DOMAIN before \cap DOMAIN after
               \/ op.name \notin DOMAIN before[op.table].fields
            THEN KeyError
            ELSE LET current == after[op.table]
                     field == before[op.table].fields[op.name]
                 IN  rebuild_statements(current, [current EXCEPT !.fields = Put(@, op.name, field)], op.table)
      [] OTHER -> RunBack

Raises(s, tables) ==
    \/ s = KeyError
    \/ s.sql = "create table" /\ s.table \in DOMAIN tables
    \/ /\ s.sql \in {"drop table", "add column", "drop column", "rename column", "rebuild"}
       /\ s.table \notin DOMAIN tables
    \/ /\ s.sql = "add column"
       /\ s.table \in DOMAIN tables /\ s.column \in DOMAIN tables[s.table].cols
    \/ /\ s.sql = "drop column"
       /\ s.table \in DOMAIN tables
       /\ s.column \notin DOMAIN tables[s.table].cols \/ s.column = tables[s.table].pk
    \/ /\ s.sql = "rename column"
       /\ s.table \in DOMAIN tables
       /\ s.column \notin DOMAIN tables[s.table].cols \/ s.arg \in DOMAIN tables[s.table].cols
    \/ /\ s.sql = "rebuild"
       /\ s.table \in DOMAIN tables /\ ~ s.shared \subseteq DOMAIN tables[s.table].cols

Effect(s, tables) ==
    CASE s.sql = "create table" -> Put(tables, s.table, ddl(s.arg))
      [] s.sql = "drop table" -> Without(tables, s.table)
      [] s.sql = "add column" -> [tables EXCEPT ![s.table].cols = Put(@, s.column, field_sql_type(s.arg))]
      [] s.sql = "drop column" -> [tables EXCEPT ![s.table].cols = Without(@, s.column)]
      [] s.sql = "rename column" ->
            [tables EXCEPT ![s.table] =
                [pk |-> IF @.pk = s.column THEN s.arg ELSE @.pk, cols |-> renamed(@.cols, s.column, s.arg)]]
      [] s.sql = "rebuild" -> Put(tables, s.table, ddl(s.target))
      [] OTHER -> tables

-----------------------------------------------------------------------------
\* autodetector.py

\* As detect_fields, but a changed type goes unnoticed.
detect_fields_NamesOnly(t, spec, old) ==
    LET new == Only(ColumnOrder, DOMAIN spec.fields \ DOMAIN old.fields)
        gone == Only(ColumnOrder, DOMAIN old.fields \ (DOMAIN spec.fields \cup {old.pk}))
    IN  [i \in DOMAIN new |-> AddField(t, new[i], spec.fields[new[i]])]
        \o [i \in DOMAIN gone |-> RemoveField(t, gone[i])]

\* What brings the table t from the specification old to spec.
detect_fields(t, spec, old) ==
    LET changed == {c \in DOMAIN spec.fields :
                       c \notin DOMAIN old.fields \/ old.fields[c] # spec.fields[c]}
        gone == DOMAIN old.fields \ (DOMAIN spec.fields \cup {old.pk})
        bring(c) == IF c \in DOMAIN old.fields THEN AlterField(t, c, spec.fields[c])
                                               ELSE AddField(t, c, spec.fields[c])
        first == Only(ColumnOrder, changed)
        last == Only(ColumnOrder, gone)
    IN  [i \in DOMAIN first |-> bring(first[i])] \o [i \in DOMAIN last |-> RemoveField(t, last[i])]

detect_changes_for_app(declared, historical) ==
    LET changes(t) == IF t \notin DOMAIN historical THEN <<CreateTable(t, declared[t])>>
                      ELSE detect_fields(t, declared[t], historical[t])
        kept == Only(TableOrder, DOMAIN declared)
        gone == Only(TableOrder, DOMAIN historical \ DOMAIN declared)
    IN  FlattenSeq([i \in DOMAIN kept |-> changes(kept[i])])
        \o [i \in DOMAIN gone |-> DeleteTable(gone[i])]
=============================================================================
