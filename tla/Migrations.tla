----------------------------- MODULE Migrations -----------------------------
(***************************************************************************)
(* Migration files, the record of applied migrations, and the commands     *)
(* that apply and roll back (src/src/ronnie/migrations and                 *)
(* core/management/commands/migrate.py, makemigrations.py), over Schema.   *)
(*                                                                         *)
(* Several processes may run migrate on one SQLite database.  A            *)
(* transaction takes the write lock with its first write (BEGIN is         *)
(* deferred); the statements before COMMIT are seen by their process only. *)
(***************************************************************************)
EXTENDS Schema

CONSTANTS
    Commands, NoCommand,    \* the processes that run migrate
    AppOrder, AllApps,      \* the labels of applications, sorted; no label given
    MaxFiles,               \* MaxFiles[a]: bound on the migration files of a
    Declarations,           \* Declarations[a]: the TABLES an application may declare
    Handwritten,            \* Handwritten[a]: operations a developer may write
    Requests,               \* Requests[c]: the arguments migrate may be given
    Serving,                \* the applications whose tables are used outside of migrations
    Faults,                 \* subset of {"raise", "crash"}
    MaxRuns                 \* bound: how often data is changed (and once too often undone)

Apps == ToSet(AppOrder)
Nodes == UNION {{a} \X (1..MaxFiles[a]) : a \in Apps}
NoTarget == -1

ASSUME CommandAssumption == NoCommand \notin Commands
ASSUME AppAssumption == AppOrder \in Seq(Apps) /\ MaxFiles \in [Apps -> Nat]
ASSUME DeveloperAssumption ==
    /\ Declarations \in [Apps -> SUBSET UNION {[T -> Classes] : T \in SUBSET Tables}]
    /\ Handwritten \in [Apps -> SUBSET Seq(Operations)]

\* The tables of an application, and the keys its tables may have.
Owned(a) == UNION {DOMAIN d : d \in Declarations[a]}
Created(a) == {op \in UNION {ToSet(ops) : ops \in Handwritten[a]} : op.kind = "CreateTable"}
Keys(a) ==
    {table_state_from_dataclass(cls).pk : cls \in UNION {Range(d) : d \in Declarations[a]}}
    \cup {op.spec.pk : op \in Created(a)}

\* An operation of a is on its own tables and renames no key (see README).
IsOwn(a, op) ==
    op.kind \in Structural =>
        /\ op.table \in Owned(a)
        /\ op.kind = "CreateTable" => op.spec.pk \in Keys(a)
        /\ op.kind = "RenameField" => {op.name, op.new_name} \cap Keys(a) = {}

ASSUME TablesAssumption == \A a, b \in Apps : a # b => Owned(a) \cap Owned(b) = {}
ASSUME OwnAssumption == \A a \in Apps : \A ops \in Handwritten[a] : \A op \in ToSet(ops) : IsOwn(a, op)
ASSUME RequestAssumption ==
    Requests \in [Commands -> SUBSET [app : Apps \cup {AllApps}, target : Int,
                                      flag : {"none", "fake", "fake_initial", "dry_run"}]]
\* A migration is named together with its application (argparse).
ASSUME TargetAssumption == \A c \in Commands : \A q \in Requests[c] : q.target > 0 => q.app # AllApps
ASSUME FaultAssumption == Faults \subseteq {"raise", "crash"}

VARIABLES
    declared,   \* declared[a]: the classes in TABLES
    files,      \* files[a]: the migrations of a, each [dependencies, operations]
    db,         \* what is committed: tables, record (by id), and how often data was changed
    work,       \* what the process with the write lock sees
    lock,       \* the process with the write lock
    cmd,        \* cmd[c]: the command under way, see CommandType
    loose,      \* history: applications whose tables were changed without their record
    unordered   \* history: something was recorded or undone for one application alone

vars == <<declared, files, db, work, lock, cmd, loose, unordered>>
fileVars == <<declared, files>>

\* pc: about to read what to do, to take the next migration; within apply;
\* within rollback.
CommandType ==
    [pc : {"idle", "list", "next", "apply", "undo"}, request : (UNION Range(Requests)) \cup {AllApps},
     back : BOOLEAN,            \* it rolls back
     todo : Seq(Nodes),         \* the migrations left, the one under way first
     op : Nat,                  \* the operation of it that is next
     fake_this : BOOLEAN]

Idle == [pc |-> "idle", request |-> AllApps, back |-> FALSE, todo |-> <<>>, op |-> 0, fake_this |-> FALSE]

-----------------------------------------------------------------------------
\* loader.py

\* The existing migrations, and all of them by application and number.
Exists(n) == n[2] \in DOMAIN files[n[1]]
nodes == {n \in Nodes : Exists(n)}
by_app(a) == [i \in DOMAIN files[a] |-> <<a, i>>]
sorted == FlattenSeq([i \in DOMAIN AppOrder |-> by_app(AppOrder[i])])
operations(n) == files[n[1]][n[2]].operations
dependencies(n) == files[n[1]][n[2]].dependencies

\* As ordered, but by label and number only.
ordered_ByName == sorted

\* Depth first, dependencies before what depends on them: visit[visiting][n] is
\* what a visit of n makes of the list, within visits of the others.
visit[visiting \in SUBSET Nodes] ==
    [n \in Nodes |-> [out \in Seq(Nodes) |->
        IF n \in visiting \cup ToSet(out) \/ ~ Exists(n) THEN out
        ELSE LET inner == visit[visiting \cup {n}]
             IN  Append(Through([i \in DOMAIN dependencies(n) |-> inner[dependencies(n)[i]]], out), n)]]

ordered == Through([i \in DOMAIN sorted |-> visit[{}][sorted[i]]], <<>>)

AllOperations(seq) == FlattenSeq([i \in DOMAIN seq |-> operations(seq[i])])

\* The state of an application according to its files.
app_state(a) == Fold(AllOperations(by_app(a)))

\* What comes before n in a sequence, all of it if n does not.
Until(seq, n) == IF Contains(seq, n) THEN SubSeq(seq, 1, SelectInSeq(seq, LAMBDA m : m = n) - 1) ELSE seq

\* The operations before the migration n, in the order of the graph.
Before(n) == AllOperations(Until(ordered, n))

-----------------------------------------------------------------------------
\* recorder.py and planning

Recorded == ToSet(db.record)
applied(a) == Only(db.record, {n \in Recorded : n[1] = a})

pending(q) ==
    LET order == ordered
        due == {n \in Nodes \ Recorded : q.app \in {AllApps, n[1]}}
        left == Only(order, due)
        last == <<q.app, q.target>>
    IN  IF q.target > 0 /\ Contains(left, last) THEN Append(Until(left, last), last) ELSE left

\* Latest first: back to the target, or everything.
to_roll_back(q) ==
    LET labels == IF q.app = AllApps THEN AppOrder ELSE <<q.app>>
    IN  IF q.target > 0 THEN Until(Reverse(applied(q.app)), <<q.app, q.target>>)
        ELSE FlattenSeq([i \in DOMAIN labels |-> Reverse(applied(labels[i]))])

-----------------------------------------------------------------------------
\* The command c under way

Doing(c) == Head(cmd[c].todo)
Application(c) == Doing(c)[1]
Flag(c) == cmd[c].request.flag
Taking(c) == cmd[c].pc = "next"
Operation(c) == operations(Doing(c))[cmd[c].op]
Finished(c) == cmd[c].op > Len(operations(Doing(c)))

Set(c, r) == cmd' = [cmd EXCEPT ![c] = r]
Proceed(c, r, todo) ==
    Set(c, IF todo = <<>> THEN Idle
           ELSE [r EXCEPT !.pc = "next", !.todo = todo, !.op = 0, !.fake_this = FALSE])
NextMigration(c) == Proceed(c, cmd[c], Tail(cmd[c].todo))

\* The statement of the operation that is next.
Forth(c) ==
    sql_statements(Operation(c), Fold(Before(Doing(c)) \o SubSeq(operations(Doing(c)), 1, cmd[c].op - 1)))
Back(c) ==
    LET before == Before(Doing(c))
    IN  reverse_statements(Operation(c), Fold(before), Fold(before \o operations(Doing(c))))

Execute(s, n, d) ==
    [d EXCEPT !.tables = Effect(s, @), !.data[n] = @ + (IF s = Run THEN 1 ELSE IF s = RunBack THEN -1 ELSE 0)]

\* Writes of c may begin or go on; the write d within a transaction; a commit of d.
MayWrite(c) == lock \in {c, NoCommand}
Bounded(d) == \A n \in Nodes : d.data[n] \in -1..MaxRuns
Write(c, d) == Bounded(d) /\ lock' = c /\ work' = d /\ db' = db
Commit(d) == Bounded(d) /\ lock' = NoCommand /\ work' = d /\ db' = d

\* Some operations of the migration that c rolls back are undone.
HalfUndone(c) == cmd[c].pc = "undo" /\ cmd[c].op < Len(operations(Doing(c)))
UndoneByOthers(c, a) == \E d \in Commands \ {c} : HalfUndone(d) /\ Application(d) = a
LooseIf(cond, a) == loose' = IF cond THEN loose \cup {a} ELSE loose

-----------------------------------------------------------------------------
\* Commands

\* What is to be done is read once; _migrate_to reads the direction before.
Start(c, q) ==
    /\ cmd[c].pc = "idle"
    /\ q.target > 0 => q.target \in DOMAIN files[q.app]
    /\ LET r == [Idle EXCEPT !.request = q, !.back = q.target = 0 \/ <<q.app, q.target>> \in Recorded]
       IN  IF q.target > 0 THEN Set(c, [r EXCEPT !.pc = "list"])
           ELSE Proceed(c, r, IF r.back THEN to_roll_back(q) ELSE pending(q))
    /\ UNCHANGED <<fileVars, db, work, lock, loose, unordered>>

List(c) ==
    /\ cmd[c].pc = "list"
    /\ LET q == cmd[c].request
       IN  Proceed(c, cmd[c], IF cmd[c].back THEN to_roll_back(q) ELSE pending(q))
    /\ UNCHANGED <<fileVars, db, work, lock, loose, unordered>>

\* apply with --fake: one INSERT, in no transaction.
Fake(c) ==
    /\ Taking(c) /\ ~ cmd[c].back /\ Flag(c) = "fake"
    /\ lock = NoCommand /\ Doing(c) \notin Recorded
    /\ Commit([db EXCEPT !.record = Append(@, Doing(c))])
    /\ LooseIf(TRUE, Application(c))
    /\ unordered' = (unordered \/ cmd[c].request.app # AllApps)
    /\ NextMigration(c) /\ UNCHANGED fileVars

irreversible(n) == \E i \in DOMAIN operations(n) : ~ is_reversible(operations(n)[i])

\* --dry-run renders the statements.  Those of a RunPython it is applying are
\* rendered by calling its code.
DryRun(c) ==
    /\ Taking(c) /\ Flag(c) = "dry_run"
    /\ cmd[c].back => ~ irreversible(Doing(c))
    /\ LET n == Doing(c)
           runs == Cardinality({i \in DOMAIN operations(n) : operations(n)[i].kind = "RunPython"})
       IN  IF cmd[c].back \/ runs = 0 THEN UNCHANGED <<db, work, lock, loose>>
           ELSE /\ lock = NoCommand
                /\ Commit([db EXCEPT !.data[n] = @ + runs])
                /\ LooseIf(TRUE, n[1])
    /\ NextMigration(c) /\ UNCHANGED <<fileVars, unordered>>

all_tables_exist(n) ==
    LET creates == {op \in ToSet(operations(n)) : op.kind = "CreateTable"}
    IN  creates # {} /\ \A op \in creates : op.table \in DOMAIN db.tables

BeginApply(c) ==
    /\ Taking(c) /\ ~ cmd[c].back /\ Flag(c) \in {"none", "fake_initial"}
    /\ Set(c, [cmd[c] EXCEPT !.pc = "apply", !.op = 1,
                             !.fake_this = Flag(c) = "fake_initial" /\ all_tables_exist(Doing(c))])
    /\ UNCHANGED <<fileVars, db, work, lock, loose, unordered>>

SkipOperation(c) ==
    /\ cmd[c].pc = "apply" /\ ~ Finished(c) /\ cmd[c].fake_this
    /\ Set(c, [cmd[c] EXCEPT !.op = @ + 1])
    /\ UNCHANGED <<fileVars, db, work, lock, loose, unordered>>

\* As ApplyOperation, but without BEGIN.
ApplyOperation_Autocommit(c) ==
    /\ cmd[c].pc = "apply" /\ ~ Finished(c) /\ ~ cmd[c].fake_this
    /\ lock = NoCommand
    /\ LET s == Forth(c) IN ~ Raises(s, db.tables) /\ Commit(Execute(s, Doing(c), db))
    /\ Set(c, [cmd[c] EXCEPT !.op = @ + 1])
    /\ UNCHANGED <<fileVars, loose, unordered>>

ApplyOperation(c) ==
    /\ cmd[c].pc = "apply" /\ ~ Finished(c) /\ ~ cmd[c].fake_this
    /\ MayWrite(c)
    /\ LET s == Forth(c) IN ~ Raises(s, work.tables) /\ Write(c, Execute(s, Doing(c), work))
    /\ Set(c, [cmd[c] EXCEPT !.op = @ + 1])
    /\ UNCHANGED <<fileVars, loose, unordered>>

\* Recording n, or undoing it, leaves the record of its application with a gap,
\* as only two commands at work can.
Gap(n, record) ==
    \E i, j \in 1..MaxFiles[n[1]] : i < j /\ <<n[1], i>> \notin record /\ <<n[1], j>> \in record

\* As Record, but without the unique index.
Record_NoIndex(c) ==
    /\ cmd[c].pc = "apply" /\ Finished(c) /\ MayWrite(c)
    /\ Commit([work EXCEPT !.record = Append(@, Doing(c))])
    /\ LooseIf(\/ cmd[c].fake_this \/ Gap(Doing(c), Recorded \cup {Doing(c)})
               \/ UndoneByOthers(c, Application(c)), Application(c))
    /\ unordered' = (unordered \/ cmd[c].request.app # AllApps)
    /\ NextMigration(c) /\ UNCHANGED fileVars

\* record and COMMIT; the index on (app, name) is unique.
Record(c) ==
    /\ cmd[c].pc = "apply" /\ Finished(c)
    /\ MayWrite(c) /\ ~ Contains(work.record, Doing(c))
    /\ Commit([work EXCEPT !.record = Append(@, Doing(c))])
    /\ LooseIf(\/ cmd[c].fake_this \/ Gap(Doing(c), Recorded \cup {Doing(c)})
               \/ UndoneByOthers(c, Application(c)), Application(c))
    /\ unordered' = (unordered \/ cmd[c].request.app # AllApps)
    /\ NextMigration(c) /\ UNCHANGED fileVars

BeginRollback(c) ==
    /\ Taking(c) /\ cmd[c].back /\ Flag(c) # "dry_run" /\ ~ irreversible(Doing(c))
    /\ Set(c, [cmd[c] EXCEPT !.pc = "undo", !.op = Len(operations(Doing(c)))])
    /\ UNCHANGED <<fileVars, db, work, lock, loose, unordered>>

\* Undoing the operations latest first retraces the states between them: of two on
\* a table, the earlier is no rebuild, and if the later puts back what was there
\* before the migration, the earlier adds or removes another field.
Retraceable(ops) ==
    \A i, j \in DOMAIN ops :
        /\ {ops[i].kind, ops[j].kind} \subseteq Structural
        /\ i < j /\ ops[i].table = ops[j].table
        => /\ ops[i].kind # "AlterField" /\ ops[j].kind # "DeleteTable"
           /\ ops[j].kind \in {"RemoveField", "AlterField"} =>
                  ops[i].kind \in {"AddField", "RemoveField"} /\ ops[i].name # ops[j].name

\* One operation in a transaction of its own.
UndoOperation(c) ==
    /\ cmd[c].pc = "undo" /\ cmd[c].op > 0
    /\ lock = NoCommand
    /\ LET s == Back(c) IN ~ Raises(s, db.tables) /\ Commit(Execute(s, Doing(c), db))
    /\ LooseIf(\/ ~ Retraceable(operations(Doing(c)))
               \/ Doing(c) \notin Recorded \/ Gap(Doing(c), Recorded \ {Doing(c)})
               \/ UndoneByOthers(c, Application(c)), Application(c))
    /\ Set(c, [cmd[c] EXCEPT !.op = @ - 1])
    /\ UNCHANGED <<fileVars, unordered>>

Unrecord(c) ==
    /\ cmd[c].pc = "undo" /\ cmd[c].op = 0
    /\ lock = NoCommand
    /\ Commit([db EXCEPT !.record = Only(@, Recorded \ {Doing(c)})])
    /\ unordered' = TRUE
    /\ NextMigration(c) /\ UNCHANGED <<fileVars, loose>>

\* As Stop, but without ROLLBACK: the connection stays in its transaction.
Stop_NoRollback(c) ==
    /\ Set(c, Idle)
    /\ LooseIf(HalfUndone(c), Application(c))
    /\ UNCHANGED <<fileVars, db, work, lock, unordered>>

\* The command ends where it is: ROLLBACK and CommandError, or the process dies.
Stop(c) ==
    /\ Set(c, Idle)
    /\ lock' = IF lock = c THEN NoCommand ELSE lock
    /\ work' = IF lock = c THEN db ELSE work
    /\ LooseIf(HalfUndone(c), Application(c))
    /\ UNCHANGED <<fileVars, db, unordered>>

\* A statement fails: SQLite refuses it, the row exists, the database is
\* locked, or anything else; or an operation is irreversible.
Raise(c) ==
    /\ \/ /\ Taking(c) /\ ~ cmd[c].back /\ Flag(c) = "fake"
          /\ Doing(c) \in Recorded \/ lock # NoCommand
       \/ Taking(c) /\ cmd[c].back /\ irreversible(Doing(c))
       \/ /\ cmd[c].pc = "apply"
          /\ \/ "raise" \in Faults \/ ~ MayWrite(c)
             \/ ~ Finished(c) /\ ~ cmd[c].fake_this /\ Raises(Forth(c), work.tables)
             \/ Finished(c) /\ Contains(work.record, Doing(c))
       \/ /\ cmd[c].pc = "undo"
          /\ \/ "raise" \in Faults \/ lock # NoCommand
             \/ cmd[c].op > 0 /\ Raises(Back(c), db.tables)
    /\ Stop(c)

Crash(c) == "crash" \in Faults /\ cmd[c].pc \in {"next", "apply", "undo"} /\ Stop(c)

-----------------------------------------------------------------------------
\* Development.  A command reads the files when it starts; they are edited
\* while no command is under way.

Quiet == \A c \in Commands : cmd[c] = Idle

specs(a) == [t \in DOMAIN declared[a] |-> table_state_from_dataclass(declared[a][t])]
Detected(a) == detect_changes_for_app(specs(a), app_state(a))

\* Edit the models of a (a bound: not after its last migration).
Declare(a, classes) ==
    /\ Quiet /\ Len(files[a]) < MaxFiles[a]
    /\ declared' = [declared EXCEPT ![a] = classes]
    /\ UNCHANGED <<files, db, work, lock, cmd, loose, unordered>>

Chain(a) == IF files[a] = <<>> THEN <<>> ELSE <<<<a, Len(files[a])>>>>
WithFile(a, ops, deps) == Append(files[a], [dependencies |-> deps, operations |-> ops])

makemigrations(labels) ==
    /\ Quiet /\ \E a \in labels : Detected(a) # <<>>
    /\ \A a \in labels : Detected(a) # <<>> => Len(files[a]) < MaxFiles[a]
    /\ files' = [a \in Apps |-> IF a \in labels /\ Detected(a) # <<>>
                                THEN WithFile(a, Detected(a), Chain(a)) ELSE files[a]]
    /\ UNCHANGED <<declared, db, work, lock, cmd, loose, unordered>>

\* makemigrations --empty, then edited: operations, and at most one dependency
\* on a migration of another application.
WriteByHand(a, ops, others) ==
    /\ Quiet
    /\ Len(files[a]) < MaxFiles[a]
    /\ files' = [files EXCEPT ![a] = WithFile(a, ops, Chain(a) \o others)]
    /\ UNCHANGED <<declared, db, work, lock, cmd, loose, unordered>>

\* db.get_table: the application creates or alters its tables as they are
\* declared (a bound: before its first migration is recorded).
get_table(a) ==
    /\ a \in Serving /\ lock = NoCommand /\ applied(a) = <<>>
    /\ Commit([db EXCEPT !.tables = [t \in DOMAIN specs(a) \cup DOMAIN @ |->
                                       IF t \in DOMAIN specs(a) THEN ddl(specs(a)[t]) ELSE @[t]]])
    /\ LooseIf(TRUE, a)
    /\ UNCHANGED <<fileVars, cmd, unordered>>

\* The latest migration of another application, if any (a bound).
Links(a) == {<<>>} \cup {Chain(b) : b \in Apps \ {a}}

-----------------------------------------------------------------------------
Init ==
    /\ declared \in [Apps -> UNION {Declarations[a] : a \in Apps}]
    /\ \A a \in Apps : declared[a] \in Declarations[a]
    /\ files = [a \in Apps |-> <<>>]
    /\ db = [tables |-> [t \in {} |-> NoName], record |-> <<>>, data |-> [n \in Nodes |-> 0]]
    /\ work = db /\ lock = NoCommand
    /\ cmd = [c \in Commands |-> Idle]
    /\ loose = {} /\ unordered = FALSE

Next ==
    \/ \E c \in Commands :
        \/ \E q \in Requests[c] : Start(c, q)
        \/ List(c) \/ Fake(c) \/ DryRun(c)
        \/ BeginApply(c) \/ SkipOperation(c) \/ ApplyOperation(c) \/ Record(c)
        \/ BeginRollback(c) \/ UndoOperation(c) \/ Unrecord(c)
        \/ Raise(c) \/ Crash(c)
    \/ \E labels \in SUBSET Apps \ {{}} : makemigrations(labels)
    \/ \E a \in Apps :
        \/ \E classes \in Declarations[a] : Declare(a, classes)
        \/ \E ops \in Handwritten[a], others \in Links(a) : WriteByHand(a, ops, others)
        \/ get_table(a)

Spec == Init /\ [][Next]_vars

-----------------------------------------------------------------------------
\* Properties

TypeOK ==
    /\ \A a \in Apps : declared[a] \in Declarations[a]
    /\ \A a \in Apps : Len(files[a]) \in 0..MaxFiles[a]
    /\ lock \in Commands \cup {NoCommand}
    /\ cmd \in [Commands -> CommandType]
    /\ \A c \in Commands : ToSet(cmd[c].todo) \subseteq nodes
    /\ \A c \in Commands : cmd[c].pc \in {"next", "apply", "undo"} => cmd[c].todo # <<>>
    /\ lock # NoCommand => cmd[lock].pc = "apply"
    /\ lock = NoCommand => work = db
    /\ \A n \in Nodes : db.data[n] \in Int
    /\ loose \subseteq Apps /\ unordered \in BOOLEAN

Tables_of(a, tables) == Restrict(tables, Owned(a) \cap DOMAIN tables)
Steady(a) == \A c \in Commands : HalfUndone(c) => Application(c) # a

\* The tables that the recorded migrations of a make, in the order of their numbers.
Expected(a) ==
    LET done == Only(by_app(a), Recorded)
        state == Fold(AllOperations(done))
    IN  [t \in DOMAIN state |-> ddl(state[t])]

\* The tables are those that the record says: whatever fails, crashes or runs at
\* the same time, a migration is recorded exactly if all of it was executed, and
\* a rollback that retraces its steps takes all of it back.
SchemaFollowsRecord ==
    \A a \in Apps \ loose : Steady(a) => Tables_of(a, db.tables) = Expected(a)

Runs(n) == Cardinality({i \in DOMAIN operations(n) : operations(n)[i].kind \notin Structural})

\* The data operations of a migration have taken effect once if it is recorded
\* and not at all if it is not, with two migrate commands at work.
DataChangedOnce ==
    \A n \in nodes :
        n[1] \notin loose /\ Steady(n[1]) => db.data[n] = IF n \in Recorded THEN Runs(n) ELSE 0

\* migrate without a label records no migration before what it depends on, as
\* long as nobody records or undoes anything for one application alone.
DependenciesFirst ==
    ~ unordered => \A n \in Recorded : ToSet(dependencies(n)) \subseteq Recorded

\* When nothing is left to detect and to apply, the tables are the declared
\* ones, unless the declared key has changed or is no field (neither is detected).
MigratedIsDeclared ==
    \A a \in Apps \ loose :
        /\ \A i \in DOMAIN files[a] : <<a, i>> \in Recorded
        /\ Steady(a) /\ Detected(a) = <<>>
        /\ \A t \in DOMAIN specs(a) :
              specs(a)[t].pk = app_state(a)[t].pk /\ specs(a)[t].pk \in DOMAIN specs(a)[t].fields
        => Tables_of(a, db.tables) = [t \in DOMAIN specs(a) |-> ddl(specs(a)[t])]

\* makemigrations finds nothing more when it is run again.
DetectionSettles ==
    [][\A a \in Apps :
        files'[a] # files[a] /\ Last(files'[a]).operations = Detected(a) => Detected(a)' = <<>>]_vars

\* A rollback that reports success restores what the remaining migrations make.
RollbackRestores ==
    [][\A c \in Commands, a \in Apps :
        Unrecord(c) /\ Application(c) = a => Tables_of(a, db.tables)' = Expected(a)']_vars
=============================================================================
