# Skeema in TLA+

Skeema keeps the schemas of MySQL and MariaDB servers in step with directories
of `*.sql` files. This directory holds TLA+ models of its core, configurations
that check them with TLC, and theorems about them that TLAPS proves. Line
numbers below refer to the repository; `PROJECT.json` maps every definition to
the lines it models.

## 1. Inventory

| Component | State | Operations | Interacts with |
|---|---|---|---|
| Workspace executor, `internal/workspace/workspace.go` | two channels, worker goroutines, retry list, failures | `ExecLogicalSchema` | a `Workspace`, the server |
| Temporary schema, `internal/workspace/tempschema.go` | schema on the server, user-level lock, lock connection with its maintainer goroutine | `NewTempSchema`, `IntrospectSchema`, `Cleanup`, `getLock` | other processes through the server, `tengo.Instance` |
| Docker workspace, `internal/workspace/localdocker.go`, `internal/tengo/docker.go` | store of containers under a mutex, container life cycle, shutdown functions | `NewLocalDocker`, `Cleanup`, `Shutdown` | Docker, `getLock` |
| Instance, `internal/tengo/instance.go` | cached connection pools, server variables behind a mutex | connections, `CreateSchema`, `AlterSchema`, `DropSchema`, bulk drops, hydration | the server |
| Introspection, `internal/tengo/introspect.go`, `routine.go`, `flavor.go` | two levels of errgroups, rows by table name | `Instance.Schemas`: concurrent queries of `information_schema`, SHOW CREATE, fix-ups by server version | the server, and whoever else changes it |
| Schema diff, `internal/tengo/diff.go`, `table.go`, `alterclause.go` and the files of columns, indexes, foreign keys and partitions | none | `Table.Diff`, splitting of an ALTER, `Statement(mods)` | applier, linter, dumper |
| Applier, `internal/applier/*` | shared result under a mutex, printer state, desired schemas shared by targets | `TargetsForDir`, `ApplyTarget`, `VerifyDiff`, `NewDDLStatement`, printers | workspaces, diff, linter |
| Commands `push` and `diff`, `cmd_push.go`, `exit.go` | errgroup with a limit, cancellation, exit code | `PushHandler` | applier |
| Directories, `internal/fs/*` | parsed `LogicalSchema`s, SQL files | parsing, `AddStatement`, rewriting of files | everything |
| Dumper, `internal/dumper/*`, and the commands `pull`, `init`, `format`, `lint` | SQL files on disk, statements in memory with dirty flags | `DumpSchema`, walks over directories | fs, parser, workspaces, introspection |
| Lexer and parser, `internal/tengo/lexer.go`, `parser.go` | delimiter and position | splitting of text into statements | fs |
| Configuration, shell-outs, caches, `internal/util/*` | instance cache | option definitions, running of programs | everything |

How it fits together: a command parses directories into logical schemas. Each
is executed in a workspace (a temporary schema on a real server, or a
container) and introspected, which gives the desired schema. `push` groups the
targets by instance and runs one goroutine per group. Each target's live schema
is introspected and compared with the desired one; the differences become
statements, which are verified in another workspace, printed and executed.

What is hard:

* concurrency: workers, a producer and a collector around two bounded channels;
  one goroutine per instance with shared results, printer and tables; a
  maintainer goroutine that releases the lock on its own time;
* several processes that share one temporary schema on a server, where any of
  them can crash, lose its lock connection or time out;
* partial failure: one of many statements fails, a cleanup fails after a
  failure, a push ends between two statements that belong together;
* retries: of CREATEs after deadlocks or missing base tables, and of drops that
  met a metadata lock;
* order: of clauses within an ALTER, of ALTERs, of columns and indexes, of Go
  maps;
* reads that do not belong together: one table is described by six concurrent
  queries without a transaction;
* text that is rewritten and parsed again: whether a statement survives depends
  on the delimiter that others left in force;
* containers shared by all processes of a machine, under a mutex that is held
  across a wait for a lock.

What makes each part correct:

* executor: the same files give the same outcome under every interleaving,
  nothing is lost without a report, it ends and leaves no goroutine;
* temporary schema: one process at a time, each sees its own objects only, no
  row of anybody is destroyed, nobody waits for the lock for ever;
* containers: one workspace at a time in a schema, every container that was
  created is cleaned up, everybody ends;
* introspection: what is reported as supported existed in that form, what nobody
  changed is exact, no failing query makes an object disappear;
* pull and format: the files say what the server has, in a form that is a fixed
  point, and nothing but CREATEs is ever rewritten or removed;
* push: the exit code tells the truth, a refused target is not touched, a
  failure elsewhere does not cut a target short, printed output can be executed;
* diff: the statements are legal, make the live table the desired one, need not
  be repeated, and destroy nothing that the options protect.

The hazards behind this list, with their lines, are in `PROJECT.json`.

## 2. Modules

| Module | Models |
|---|---|
| `WorkspaceDDL` | the statements of a `LogicalSchema` and how a server replies to them |
| `DDLBatch` | abstract specification: what executing a batch of statements promises |
| `ExecLogicalSchema` | the executor with its goroutines and channels |
| `ExecLogicalSchemaProofs` | theorems about it: types, channels, the final schema, what is returned, reported and lost; that it implements `DDLBatch` |
| `TempSchema` | several processes with one temporary schema |
| `TempSchemaProofs` | theorems about it |
| `LocalDocker` | workspaces in containers: store, container life cycle, shutdown, several processes |
| `LocalDockerProofs` | theorems about it |
| `TableText` | one table: `information_schema`, SHOW CREATE, the fix-up functions, the test for support |
| `Introspect` | `Instance.Schemas` with its goroutines, on a server that others change; extends `TableText` |
| `IntrospectProofs` | theorems about it |
| `SqlText` | texts as lexemes, the parser, the methods of `Statement` |
| `SqlDir` | directories of SQL files: `parseContents`, `SQLFile`, the dumper; extends `SqlText` |
| `Pull` | `init`, `pull`, `format` and `lint`, one after another; extends `SqlDir` |
| `PullProofs` | theorem about `format`, and lemmas about the parser and the dumper |
| `Targets` | the walk from directories to targets, as operators |
| `Push` | `PushHandler` and `ApplyTarget` from the directories to the exit code; extends `Targets` |
| `PushProofs` | theorems about it |
| `ColumnTypes` | types of columns: what `ModifyColumn.Unsafe` says of a conversion, and what it does to values |
| `TableDiff` | `Table.Diff`, splitting, statement modifiers, as operators; extends `ColumnTypes` |
| `ServerAlter` | external: what a server makes of an ALTER TABLE |
| `TablePush` | a table that is pushed repeatedly, with pushes that end halfway; extends `ServerAlter`, which extends `TableDiff` |
| `Subsequence` | loops that keep some elements of a list, as a function the provers can reason about; used by `TableDiff`, `ServerAlter`, `Push` and `SqlDir` |
| `SubsequenceProofs` | lemmas: induction, counting, what the loops keep and in which order |
| `TablePushProofs` | theorems about `TablePush`; before them, lemmas about the clauses of a diff and how they are spread over statements |
| `MC...` | constants for TLC |

Definitions marked "Mutant" are faulty variants of the definition that follows
them. They are not part of any specification; each shows, put in place of its
original, that some property would notice such a fault.

### ExecLogicalSchema

`pc` is the position of the calling goroutine, `wpc`, `stmt` and `err` those of
the workers, `toSend` what the producer still has to send. `creates` and `errs`
are the channels, both with capacity `Concurrency` and a closed flag. Actions
are the steps between two points at which goroutines can interleave: a send, a
receive, a statement, a close. The server is a relation `Replies` from a
statement and the statements in force to errors and new contents; the faults
are deadlocks and lock wait timeouts (`"lock"`), and connections lost before or
after the statement took effect (`"conn"`). Statements are model values;
`Needs` says which object a `CREATE TABLE ... LIKE` or an ALTER refers to. The
deferred function that runs `Cleanup` and chooses the returned error is the
action `Cleanup`. `attempts` and `setbacks` are history variables.

`DDLBatch` says the same without goroutines: every CREATE once, in any order;
then those with a retriable error once more; then the ALTERs in order; then the
report. `ExecLogicalSchema` refines it with `phase` and `report` computed from
the closed flag, `pc` and `failures`.

### TempSchema

One record of local variables per process, one connection per process and
workspace. Server state: owner of the lock, whether the schema exists, its
objects, tables with rows, character set. `getLock` is `GetConn` (the pool may be
exhausted), `GetLock`, `GetLockTimesOut`, `GetLockBreaks`; the maintainer is
`ReleaseLock` and `PingFails`, which run after the release function was called
(`Return`) or the connection was dropped. `NewTempSchema` is
`HasSchema`, bulk drops, `AlterSchema`, `CreateSchema`; `Cleanup` is either the
bulk drops again or `DropDatabase`. The bulk drops list tables, look for rows in
each, drop concurrently, and drop again what met a metadata lock. Faults are
chosen by `Events`: lost lock connections, crashes, failing queries, slow
metadata locks, and another user who creates tables and rows (`fresh` are the tables
written to since a process is at work there). `AlterSchema` does nothing when no
character set is asked for or the schema has it already. A process that
dies may leave a statement running (`orphans`). A process is *tainted* when its
lock connection was lost or a left-over statement may reach into its section: the
code does not defend against that, and `Exclusive` and `Isolation` exclude it;
`RowsSurvive` does not.

### LocalDocker

The daemon has one container per name: an id (new with every creation), a boot
number (the port changes with every start) and a status. A `DockerizedInstance`
is the id and boot it was made for, and whether its `*Instance` exists.
`NewLocalDocker` runs from `LockStore` to `CreateSchema` with the store locked;
`GetOrCreateInstance` is `InspectContainer`, `CreateContainer`, `Start`,
`TryConnect`, each of which may fail, also because another process acted in
between. `Fail` is the error return with its deferred functions. Faults: no image,
no start, no connection, a failing query (`QueryFails`, for `HasSchema`, both drops
and the creation of the schema), a Stop or Destroy that fails, a killed process.
`main` calls `Shutdown` when the command has returned; each shutdown function is one
step, under both mutexes. A failure of Stop or Destroy is only logged
(`ShutdownFails`, `warned`); a container without `*Instance` makes the process panic,
in `getLock` as well as in its shutdown.
The arm64 substitutions and command line arguments are left out; all workspaces
of a container have the same schema name, and hence the same lock.

### TableText and Introspect

A table is the record of what the Go struct holds, a statement the record of its
clauses, and `GeneratedCreateStatement` maps one to the other. `queryX(flavor, d)`
is what `information_schema` shows of definition `d`: it hides, mangles, cuts or
reorders some of it, depending on the flavor. The `fixX` functions take that from
the text, with the conditions of the code; `Panics` says when they do not return.
`ReadsBack` says what comes out when all queries see one definition: the definition,
or (`ComesOut`), for a table in a general TABLESPACE with two create options or more,
the definition with the options in another order and flagged as unsupported.
Four flavors stand for the combinations the code tells apart. Tables are InnoDB;
comments, engines and default character sets are folded into what is compared
alike.

`Introspect` keeps a set `tasks` of queries under way. Each query is one atomic
read of the server at the moment it runs; `ChangeTable`, `ChangeRoutine` and
`DropSchema` are other clients. The first error of a group cancels its context;
`GroupFails` is the return of its `Wait`, which cancels the other group. What a
cancelled query returns is read by nobody, so cancelled queries have no step of
their own. `changed` is a history variable.

### SqlText, SqlDir, Pull

A text is a sequence of lexemes: filler, delimiters, words, BEGIN, and a whole
CREATE head as one lexeme with key, definition and schema qualifier. The parser is
a step function, run along the text (`Scan` in `ParseStatements`), whose state has
the delimiter in force, the USE database, whether a DELIMITER command was seen,
and a mode for each `process...` function of `parser.go`. `Body`, `Trailer` and
`NormalizeTrailer` are the methods of `Statement`. `SqlDir` has the files of a
directory as sequences of statements, `AddStatement`, `EditStatementText`,
`RemoveStatements` and `Write` with the DELIMITER commands they add, and
`updateCreateStatements` object by object. `Executes` is what a server makes of a
statement's text: one whose body is not exactly one CREATE is refused, so that a
statement that was cut or swallowed shows. A definition distinguishes what it is,
whether it is a BEGIN block, whether it is spelled canonically, its AUTO_INCREMENT
and its PARTITION BY clause.

`Pull` runs commands one after another. It has a step for every point at which the
order is that of a Go map (objects, dirty files) or something may fail: a
workspace, a write that is refused, a write that leaves an empty file. A directory
always has a `.skeema` file; a schema of "" means that it sets none, which is also
what a write that ran out of space leaves (`CharSetFails`). The server has
lower_case_table_names=2: two tables of a directory whose names differ in case only
are an error of `LowerCaseNames` (`DuplicateNames`), with which pull and every
workspace begin. `SchemaNames` leaves out what `ignore-schema` matches. Every command
is a fresh process, so what a failed one left on disk is all the next one knows.

Some statements are only read as one because nothing is behind them (`OpenEnded`): a
BEGIN block in a file without DELIMITER, and unparsed SQL without its delimiter. The
files of the run include both, alone and behind others. What a rewrite makes of them
is a finding (`pull_append`); the properties of the run `pull` except exactly the
files in which such a statement is there and not read any more (`Misread`).

### Targets and Push

`Targets` translates `TargetsForDir` and everything it calls: instances that do not
answer, `first-only`, mixed `lower_case_table_names`, schema names from lists,
patterns and named logical schemas, conflicts between them, workspaces that fail,
subdirectories and the limit of five levels, with the counts of what is skipped.
`Mapped` says independently of all failures which schemas the configuration maps
to; `ExitCodeIsTrue` compares the exit code with those.
The command being run is a record `job`, chosen from `Jobs` at the beginning and
never changed: its directory tree, its options, what the diff of each target comes
to, and what may fail.
Each goroutine has a position, a target index and local variables.
`Spawn` blocks at the limit of the errgroup; the first error cancels the context
and is the one that counts. `ApplyTarget` is `Introspect`, the stripping of
partition clauses in three steps (a racy read-modify-write of a table shared by
targets), `Verify`, `BuildStatements` (with early returns for refused diffs),
`Lint`, then `PrintStatement` and `Execute` per statement, then the merge of the
results under the mutex. `reader` is what a client that is fed the standard
output would be set to: the printer's USE, DELIMITER and instance comments are
modelled by what they do to it.

### TableDiff, ServerAlter, TablePush

`TableDiff` translates `Table.Diff`: clauses for the table's character set,
columns (drops, modifications, additions, positions, and the longest increasing
subsequence that decides which columns stay), primary key, secondary indexes with
re-ordering and visibility, foreign keys (kept in Go maps, so their order is a
parameter), checks, attributes and partitioning; then `SplitAddForeignKeys`,
`SplitConflicts`, what `Clause(mods)` suppresses, and `Unsafe`. Loops with a
flag are written as a predicate of the loop index (`ReorderIndexes`). Data is
reduced to what the code compares: a column has a type, a look (what
`Column.Equivalent` ignores) and may be virtual; a foreign key has a name, a
reference and a spelling of its rule. The list of changed create options is one
value.

`ColumnTypes` has `ModifyColumn.Unsafe` rule by rule, over types as records of name,
sizes, sign and character set (`UnsafeConversion`), and beside it, independent of
the code, when every value of one type is a value of another (`ValuesFit`). The two
disagree on three kinds of conversion (`TakenForSafe`, section 5);
`OptionsAreRespected` says that a push without allow-unsafe destroys no stored value
in any other way.

`ServerAlter` is external. Its rules are the ones the code's comments rely on:
unpositioned modifications happen in place, then positioned clauses are placed in
order and may only name columns already placed; keys are sorted by kind, stably;
one new FULLTEXT index per ALTER; no ALTER INDEX of an index that is dropped; no
foreign key dropped and added under one name in one ALTER; MySQL sorts checks by
name and MariaDB does not.

`TablePush` runs it: `Plan` introspects, diffs and builds statements, `Execute`
runs one, `Interrupt` ends a push halfway, `Finish` completes it. Pushes repeat
without bound.

## 3. Runs

| Run | Shows |
|---|---|
| `exec` | with deadlocks and lost connections: types, no send on a closed channel, nothing changes after introspection, no silent loss, first error wins, outcome independent of the interleaving as long as no fault happens, a LIKE that ran too early is made up for unless its base table met a deadlock, refinement of `DDLBatch`, termination |
| `temp_schema` | two processes, one of which drops the schema and one keeps it, with every fault and another user: mutual exclusion, isolation, rows survive |
| `temp_drop` | violation, see findings |
| `temp_wait` | violation, see findings |
| `docker` | two processes, one with two goroutines, two containers: isolation, one registration and one shutdown function per container, what was created is cleaned up, unless a warning or a panic on a container that never started says otherwise, termination |
| `introspect` | two schemas, four flavors, one change by another client, one failing query: supported tables are snapshots, what was untouched is exact, nothing is missing, the call returns |
| `pull` | all pairs of `init`, `pull`, `format`, `lint` with options on 42 host directories, a server that changes, one fault: files reflect the server with one directory per schema, fixed point (a reformatting pull leaves `format` nothing to do), formatting changes no meaning, unparsed SQL kept, dry runs predict |
| `pull_append` | violation, see findings |
| `push` | pushes and diffs of a usual tree with every failure, refused, linted-out and unsupported diffs and `--brief`; 24 trees with something wrong in them: exit code, only accepted plans are executed, no target cut short, summary, list of instances, routed output, termination |
| `push_strip` | violation, see findings |
| `table_push` | 60 000 pairs of tables and modifiers: legality, exact and functional match, clustering, minimal moves, convergence, and no step against `allow-unsafe`, `partitioning` and the auto-increment rules |
| `table_push_once` | violation, see findings |

Bounds, and why they are enough to meet the interesting cases:

* executor: three CREATEs and two workers, so that statements wait in the
  channel while others are in work, one is invalid, and a LIKE can run before its
  base; two ALTERs, one of a table that fails; each statement can meet each reply.
* temporary schema: two processes, one of which keeps the schema, with one
  common table name, one other table and a routine; one workspace each where
  safety is checked, three where connections are counted. The pool limit of 2 is
  the one `instance.go:162-163` uses at the least. `temp_drop` needs one process in
  the default mode and another user, and nothing else to go wrong.
* containers: two goroutines of one process that want the same or different
  containers, and a process that shares one of them; containers that are absent,
  stopped, or of another image; every cleanup action. One fault: each of the
  failure paths ends its goroutine, so that two meet only in different ones.
* introspection: the definitions of each flavor include two that differ in nothing
  but what `information_schema` hides, and two that differ in the number and names
  of columns, indexes and foreign keys, so that a torn read meets every fix-up;
  partitionings by KEY, HASH and RANGE; and a table in a general tablespace with two
  create options, of which `fixCreateOptionsOrder` cannot restore the order.
  One change suffices for a torn read of one table; the second schema has none to
  begin with.
* pull: files with comments, a missing final delimiter, a DELIMITER that stays in
  force, BEGIN blocks with and without DELIMITER, unknown SQL, a broken CREATE, an
  unclosed quote, USE, duplicate definitions, names that differ in case, an ignored
  table, an ignored schema; open-ended statements alone in a file and behind
  another one; two objects that share a file. Two commands: every property speaks of
  one command after any state of the disk, or of a pair.
* push: an instance with two targets of different directories, a directory on two
  instances, limit below the number of instances, statements of every kind.
* table pushes: all orders of five columns, and of up to five out of six of which
  four existed (two new neighbours, drops and moves together); all definitions of
  two of three columns; all pairs of the types that some rule tells apart; all orders of
  three indexes with changes of definition and visibility; two unique, two fulltext and one ordinary index with and without
  primary key; all sets of three foreign keys; three checks; attributes and
  partitionings pairwise. Differences of one sort are checked at a time: `Diff`
  handles the sorts independently of each other. `full` counts completed pushes up
  to two, which is when `Converges` looks; tables that lose their auto-increment
  column are left out.

Type invariants are stated for `ExecLogicalSchema` and `TempSchema`, where proofs
rest on them; the other modules spend their runs on what can go wrong.

`CHECK_DEADLOCK FALSE` appears only in runs with a liveness property whose
system is meant to stop; that property finds every other stop.

Fairness: weak fairness of each goroutine (the Go scheduler runs what can run)
and of each process's steps (the driver and the server answer a query or fail
it). Nothing the environment may do (crash, lose a connection, fail, write) is
assumed to happen.

## 4. Theorems

Each theorem holds for all values of the constants that satisfy the named
assumptions; TLC evaluates the assumptions in every run of the module. Where a
theorem names a property of a run, the run checks it on a small instance. Every
inductive invariant was an invariant of a TLC run before it was proved.

### ExecLogicalSchema

For every finite set of CREATEs, every sequence of ALTERs, every server in the
sense of `Replies`, and every `Concurrency > 0` (`StatementsAssumption`,
`ConcurrencyAssumption`). In `ExecLogicalSchemaProofs`:

* `Typing` (`TypeOK`, the capacities of both channels included), `NoPanic`
  (`NoSendAfterClose`), `FinalSchema` (`SchemaIsFinal`);
* `Invariance`: the inductive invariant `IInv` they follow from.

None of the three is inductive. That no worker is busy when `errs` is closed
follows from counting: every CREATE is in exactly one place (with the producer,
in `creates`, with a worker, in `errs`, or collected; `OnePlace`,
`NoDuplicates`), and the number not yet collected is
`Cardinality(Creates) - n` (`Counted`). `errs` is closed at `n =
Cardinality(Creates)`, so no place but the last is occupied. `Holding` says which
workers hold a statement and `Phases` ties `pc` to the closed flags.

From `FullInvariance` follow `FirstError` (`FirstErrorWins`), `NothingLost`
(`NoSilentLoss`) and `Determinism` (`OutcomeIsDeterministic`). `FullInv` adds to `IInv` what is known of every statement's
attempts at each place (`History`: a statement is in `failures` exactly if its last
attempt failed and it will not be tried again), what the server holds (`Effects`),
the error on its way back (`Returning`), and, without faults, which errors a
statement can have met (`Determined`). `NoSilentLoss` could not be proved from the
contents of the schema alone: a statement whose connection was lost after it took
effect is both applied and failed, and only the history tells which.
The proof of `Determinism` failed at first, for a good reason: `Doomed` left out an
ALTER of a table that is LIKE an invalid one, which no instance had; the definition
was corrected.

`Refinement` (`ImplementsBatch`) is step simulation: initial states
are initial states of `DDLBatch`, and every step is one of its steps or a stutter.
It needs `IInv`: a worker that takes a statement does what the batch may do then
because the statement is in no other place.

### TempSchema

`TempSchemaProofs`, for any processes, workspaces, objects, pool limit and
faults (`ConstantsAssumption`):

* `MutualExclusion` (`Exclusive`), from `LockInvariance`: the owner of the lock is a
  live connection (`OwnerIsLive`), connections of workspaces to come are unused
  (`Ahead`), and an untainted process in its section owns the lock
  (`SectionHolds`). Exclusion follows because the lock has one owner;
* `Typing` (`TypeOK`);
* `WorkspaceIsolation` (`Isolation`): `WorkInv` adds that nobody else is in the
  section at all (`Alone`; tainted processes are excluded because whoever taints a
  process ends its section), and what NewTempSchema has achieved at each label
  (`Course`, `Owned`): the tables that are left are on its list, and so on;
* `RowsAreKept` (`RowsSurvive`), also for tainted processes: `RowsKept` says that
  past `confirmTablesEmpty` there are no rows, or else the process would not be
  there, and that a statement that outlived its process is a drop only if there
  were none.

Other users may write at any time. The last two speak of everything but the tables
that somebody wrote to while a process is at work (`fresh`): the check for rows and
the drop are separate statements, and the code does not close that window.

### LocalDocker

`LocalDockerProofs`, for any goroutines, processes and containers, found in any
state (`DockerAssumption`): `WorkspacesAreIsolated` (`Isolation`),
`StoreAgreesWithShutdown` (`RegisteredOnce`), `NothingLeftBehind`
(`CreatedIsCleaned`), from `DockerInvariance`. `DockerInv` has six parts: types;
where a goroutine may be while the store is locked (`Standing`); nobody knows a boot
that is yet to come, so that a server that was stopped never becomes reachable again
under the old address (`Boots`); who works on a schema has its lock and who uses it
made it (`Locking`); store and list of shutdown functions agree but for the one step
between the two registrations (`Registered`); and a created container is known to
its process, in its store or in a local variable, until a shutdown function has seen
it (`Tracked`). `NothingLeftBehind` adds `Blame`, for processes that panicked and
containers that could not be stopped: a container is left behind only with a warning,
or on the list of a process that met a container without `*Instance`.

### Push

`PushProofs`, for any set of commands, instances and diffs (`PushAssumption`: the
walk finds targets of the configuration, none of them twice, on a finite number of
instances):

* `AcceptedPlansOnly` (`OnlyAcceptedPlans`) and `CutShortByOwnFailure`
  (`OnlyOwnFailureCutsShort`), from `PushInvariance`. What a goroutine still has to
  do and what it has applied make up the plan of its target; targets before are
  done, targets behind are untouched (`Steady`);
* `EachInstanceListedOnce` (`BriefListsInstances`): `Listing` says which instances
  must be on the list at which label. The property is about instances with a
  difference; that some of them are missing is said in it, and when (section 5);
* `StatementsAreRouted` (`OutputIsRouted`), an action property: the printer's fields
  and the state of whoever reads its output are the same (`InStep`);
* `ExitCodesAreTrue` (`ExitCodeIsTrue`): `Tally` says what the goroutines that got
  past a target have reported. It needs the mutex: the value a goroutine is about to
  write is the present value with its own result, and not an older one;
* `SkipsAreReported` (`SkippedIsReported`): the counters of the summary are a sum
  over all targets, which goroutines add to in any order and under a mutex. `Ledger`
  accounts for every target in every state: what the goroutine has found out about
  the target it works on (`Balanced`), and, for the targets that are over, that
  their outcomes add up to the counters (`Covers`, `Done`, `Rest`). The section
  "Sums" derives what that needs of a fold over a finite set: a sum exists, is
  unchanged where the summands are, and grows by what one summand grows by
  (`SumExists`, `SumSame`, `SumRemove`, `SumGrows`).

`ExitCodesAreTrue` has a hypothesis, `WalkIsComplete`: a walk that counts no skip
has read every directory and found every mapped schema. It is about `Targets`
alone, which is a fold over a tree; TLC finds it true of every tree of `MCPush`.

### Introspect

`IntrospectProofs`, for any schemas, tables, routines, flavors and definitions, and
any number of DDL statements and faults (`TablesAssumption`, `RoutinesAssumption`:
no definition looks like the mark for a text that was not read):

* `ResultIsComplete` (`NothingMissing`): in `CompleteInv`, an object that was listed
  has its statement or a query that will give it is under way, unless the group has
  an error; a group that has returned has no query under way;
* `UntouchedComesOutExactly` (`UntouchedIsExact`): in `ExactInv`, every piece in hand
  of an object that nobody touched is what the server has (`TablesInHand`,
  `RoutinesInHand`), and every schema that exists is to do, under way, or done and
  exact (`SchemasExact`). A step of another client is summed up as `Drift`;
* `SupportedTablesAreSnapshots` (`SupportedIsSnapshot`): in `SnapshotInv`, the pieces
  in hand are pieces of definitions, from whatever versions.

The last two separate the interleaving from the text. Their hypotheses are about
the functions of `TableText` alone: `ReadsBack`, that a definition which all queries
see comes out as itself, or flagged in the one case that `ComesOut` names, and `MixIsNoticed`, that a mix of the pieces of any
definitions panics, is flagged, or is what SHOW CREATE showed. TLC evaluates both to
TRUE for all definitions and flavors of `MCIntrospect`, which include that case. So what the run shows for one
DDL statement on one table holds for any number of each; and whoever adds a fix-up
function has to look at these two formulas only.

### TablePush

`TablePushProofs`, for any live and desired tables and any modifiers
(`CasesAreTables`). `IsTable` says what every table of a server has: at least one
column, no two columns and no two indexes of one name, nothing but the primary key
called PRIMARY, finitely many foreign keys, types as `information_schema` shows them
(`IsType`). The code relies on the same: `Table.Diff`
looks columns and indexes up by name. The modifiers have the fields that the proofs
look at. No relation between the two tables is assumed,
and the number of pushes that end halfway is not bounded.

* `StatementsAreLegal` (`NoIllegalStatement`), from `PushInvariance`. `PushInv` says
  that the table on the server is a proper one (`Stored`), and that the statements of
  a plan that are still to run find room for what they add. The argument has three
  layers. `DiffFacts` is what `Table.Diff` promises of its
  clauses: an index, check or foreign key is only dropped if it is there, only added
  if it is not there or is dropped before, and a column is placed behind one that is
  there when its turn comes. `Spreads` is what `SplitAddForeignKeys`, `SplitConflicts`
  and `alterStatement` do to the list: every clause ends up in one statement, in the
  same order, all in the first one but for additions of foreign keys and fulltext
  indexes. `LegalFirst`, `LegalLater` and `RoomAfter` put both together with what the
  server does;
* `PushesRespectOptions` (`OptionsAreRespected`), an action property:
  `StatementRespects` looks at what one statement of a plan does to columns, engine,
  partitioning and auto-increment value of the table as it is by then. For the types
  of columns it rests on the proof that `UnsafeConversion` is FALSE only where
  `ValuesFit` or `TakenForSafe` holds, for all types (`IsType`) and not only those of
  the run;
* `MovesAreMinimal` (`MinimalMoves`): `longestIncreasingSubsequence` finds an
  increasing subsequence (`Piles` is the invariant of its loop: what is on top of
  each pile is the smallest last element of a run of that length, and the links lead
  back along such a run) and none is longer; `columnModifications` moves every common
  column but those (`MovesFacts`, `FewestMoves`), and the split into statements
  neither loses nor repeats a move (`MovesWritten`);
* `ColumnsAreArranged` (`ColumnsArrive`, the first conjunct of `PushedMatches`): after
  a push that goes through, the table has the desired columns at their places, and
  with `strictColumns` they are equal. `Arranged` is what the clauses promise: a moved
  or new column is aimed, that is, put behind all the columns that are there by then
  and belong before it (`MoveAims`, `AddAims`); the columns that are not moved are in
  the desired order already, which is where the increasing subsequence comes in; moves
  come before additions, and these in the order of the columns. `PlaceInOrder` and
  `NewColumnsFacts` follow the server from clause to clause, `OrderDetermines` says
  that names in the right order and in the right number leave no choice, and `LeftOut`
  that a modification which `alterStatement` suppresses is about looks only. The
  conjunct `Arrives` of `PushInv` carries this over the later statements.

Induction over data is done without the library's induction theorems, whose operator
parameters the provers cannot instantiate: a set of naturals that are counterexamples
has a least element (`SubsequenceProofs`), and recursive functions are used through
their defining equation at one argument. The loops of the code are written as such
functions, or as `Filter` of `Subsequence`.

### Pull

`PullProofs`, for any directories, files, texts, servers and commands. The assumption
`HostAssumption` says that `DirOrder` lists no directory twice, as a listing of a
directory does, and that a directory on disk has finitely many files, each with a
sequence of lexemes in it.

* `FormatPredicts` (`DryRunPredicts`). The number of files is counted while the
  statements of a directory are edited one by one in memory, in the order of a Go map,
  and with `--write` the files of one directory are on disk before the next one is read.
  So the count is first put in a closed form that knows neither order nor memory:
  `Rewritten(h, W)` are the files of directories `W`, as they are in `h`, that have a
  stale statement (`Stale`: it can be executed, and its body is not what SHOW CREATE
  gives). `FormatInv` has three parts. `Shape`: what is on disk can be read, the
  directories to go through are distinct and exist, and statements in memory are well
  formed. `Format`: a format that is running has counted `Rewritten` of the directories
  behind it, its exit code is theirs, and the directories before it are as they were
  when it started; in the midst of a directory (`Dumped`), the dirty files are those of
  the stale statements handled so far, and those still to come have not been touched.
  `History`: a format that ended reported `Rewritten` of all directories, and each
  command found what the one before it left. Two formats in a row with nothing written
  between them then report the same closed form of the same disk.

  `Dumped` is where the work is. `EditStatementText` may put DELIMITER commands around
  a statement, by which all positions behind it shift; `StillFound` says that the
  statements of other keys are found again, in the same file, unchanged, and exactly
  once. `format` neither adds a file nor removes a statement: every object of the
  workspace has one statement, because a second one of the same key is an error of
  `parseContents`, and the statements that failed are among those the dump ignores.
  And the directory has no other logical schema that statements could be in:
  `FromUse`, from the invariant `Accounted` of the parser, says that a statement has a
  database only behind a USE command, and `format` gives up on a directory that has one.

### Only model-checked

* All liveness properties: `Terminates` and `Returns`.
* `LikeRetrySuffices`, on the instance of `exec`.
* `TablePush`: `PushedMatches` but for the columns, `ClusteringKept` and `Converges`,
  which say what all sorts of clauses together make of a table. That the last
  statement leaves the desired indexes, whose order depends on which of them
  `ReorderIndexes` drops, and the desired checks, foreign keys and attributes, is
  checked by TLC alone.
* `Pull` but for `DryRunPredicts`: `PullReflectsServer`, `Settles`,
  `FormatKeepsMeaning` and `UnparsedKept` compare what was written with what is read
  back, and so need that the parser undoes `FileText` for every list of statements.
  That is not so for every list (section 5), and which lists are safe is itself an
  induction over the text.
* The hypotheses `WalkIsComplete`, `ReadsBack` and `MixIsNoticed`: they need what the
  walk makes of a tree, or what a chain of fix-ups makes of a mix of definitions.

## 5. Findings

* `temp_wait` (`workspace.go:442`): a lock wait that times out leaks its
  connection; with the pool at its limit a later workspace waits for ever.
* `temp_drop` (`instance.go:797`): `tempschema.go:123-126` says that cleanup aborts if
  any table has rows. With a schema that is dropped, only the tables introspected
  earlier are looked at, and DROP DATABASE takes a table created since with its rows
  (`instance.go:711`).
* `pull_append` (`sqlfile.go:100`): `sqlfile.go:92-93` says that the last statement
  of a file is given its delimiter before another is put behind it. For SQL of
  unknown type `NormalizeTrailer` adds none (`statement.go:101`), and a BEGIN block in
  a file without DELIMITER goes on behind its delimiter (`parser.go:642`): what pull
  appends becomes part of that statement, pull exits with 0, and the object is missing
  when the file is read.
* `push_strip` (`applier.go:163`): targets on several instances strip the
  partitioning clause of one shared table without a lock; two can cut twice.
* `table_push_once` (`table.go:347`): without exact-match, a foreign key whose
  definition an old one had is not added, although the same push gives the old
  one's name to another definition; it is missing until the next push.

Met while modelling, without a run of their own; the models include the behaviour:

* `workspace.go:354` retries CREATEs in the order in which their errors arrived. A LIKE
  whose base table met a deadlock can be retried before it, fails again, and is
  reported as a failure, although it is not nested (`workspace.go:350-351`).
  `LikeRetrySuffices` names this case.
* a process that asks for no character set gets the one that an earlier process left
  in a temporary schema that is kept.
* `alterclause.go:307` says that `Unsafe` tells whether a clause may destroy data. Three
  kinds of conversion pass (`TakenForSafe`): between `time` and `timestamp`, because
  "timestamp" starts with "time" (`alterclause.go:376`); to more decimals with no more
  digits, which leaves fewer before the point (`alterclause.go:358`, `415`); and a
  `char` or `varchar` to a text type, where the number of characters is compared with
  a number of bytes (`alterclause.go:460`).
* `cmd_diff.go:49` promises with --brief a "list of instances with at least one
  difference". An instance whose only differences are unsupported has no statement
  and is not listed, although the exit code is 1.
* `docker.go:139-140` returns a container that did not start together with the
  error, and without `*Instance`; `localdocker.go:99-102` keeps it. The next
  workspace on it, or its shutdown, dereferences a nil pointer (`GetLockPanics`, and
  "panicked" in `ShutdownNext`), and that container and all behind it on the list are
  left behind.
* `table.go:58-62` says that `UnsupportedDDL` marks features that are not supported;
  a read torn by DDL of another client sets it as well, and with other changes
  `fixIndexOrder`, `fixForeignKeyOrder` or `fixShowCharSets` panic (`Panics`).
* `introspect.go:624-626` says that `fixCreateOptionsOrder` makes the options match
  SHOW CREATE TABLE. It does not recognise the last line of a table in a general
  tablespace; with two create options such a table may come out as unsupported.
* a DELIMITER command that pull puts in front of a BEGIN block which had none cuts that
  block; SQL behind such a block belongs to its CREATE for the parser, and pull
  replaces it with the block. A trailing `--` comment swallows an added delimiter.
* `cmd_pull.go:170-172`: a directory whose CREATEs are all behind a USE of a schema that
  does not exist is deleted with everything in it, although its own schema exists.
  `UnparsedKept` names this case.
* format does not look at `ignore-schema`, so that it rewrites directories that pull
  passes over.
* `dumper.go:81-83` says that an AUTO_INCREMENT of the file is kept; it is only seen
  where SHOW CREATE would put it.
* two directories that map to one schema, or a host listed twice, are not noticed by
  `TargetsForDir`. The trees checked have each target once.

## 6. Not modelled, and the plan

Left out for good:

* linter rules, the wording of clauses, identifiers in quotes, regular expressions:
  pure predicates and formatting of text;
* reading of option files, passwords, shell-outs, terminal output, panic handling:
  I/O without state that others see;
* `NukeData`, `SourceSQL` and `Exec` of containers: used by tests only;
* hydration of server variables (`instance.go:278-322`): the fields are set behind
  `valid` without ordering for readers, which is a question of Go's memory model;
  the callers of this repository validate an instance before they start goroutines.

Left for later:

1. `SchemaDiff`: creation and dropping of tables, drops of partitions before a
   table, routines and their replacement, database-level DDL, order of
   `ObjectDiffs`; composed with `TablePush` for several tables.
2. Flat directories and `add-environment` in `Pull`.

Theorems worth proving next: for `TablePush`, the rest of `PushedMatches` sort by
sort, indexes last; for `Pull`, that parsing what `FileText` writes gives the
statements back, where every statement has its delimiter, from which
`UnparsedKept` follows; for `Push`, `WalkIsComplete`, by induction over the depth
of the tree.
