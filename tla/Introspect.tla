----------------------------- MODULE Introspect ------------------------------
(***************************************************************************)
(* Instance.Schemas: the introspection of the schemas of a server          *)
(* (internal/tengo/instance.go and introspect.go) while other clients of   *)
(* the server run DDL. The list of schemas is read first; then, schema by  *)
(* schema, two goroutines query the tables and the routines. Each lists    *)
(* its objects and starts further goroutines: a SHOW CREATE per object and *)
(* one query per information_schema table. Every query sees the server at  *)
(* the moment it runs, in whatever order the queries run, so that the      *)
(* pieces of one table may belong to different versions of it. What the    *)
(* program makes of the pieces is module TableText.                        *)
(***************************************************************************)
EXTENDS TableText

CONSTANTS
  Schemas, Tables, Routines,   \* names; Schemas are the ones asked for
  TableDefs(_),                \* the definitions a table may be given, by flavor
  RoutineDefs,                 \* the definitions of routines: [attrs, params, body]
  Flavors,                     \* the flavors of the server
  InitialTables(_, _),         \* what a table of a schema may be to begin with
  InitialRoutines,             \* and what a routine may be
  MaxDDL,                      \* bound: DDL statements of other clients
  MaxFaults                    \* bound: queries that fail

Absent == [absent |-> TRUE]
NoText == [shown |-> FALSE]    \* until SHOW CREATE has shown the statement
ASSUME NamesAssumption == IsFiniteSet(Schemas) /\ IsFiniteSet(Tables) /\ IsFiniteSet(Routines)
ASSUME BoundsAssumption == MaxDDL \in Nat /\ MaxFaults \in Nat
ASSUME TablesAssumption == \A fl \in Flavors : NoText \notin TableDefs(fl)

VARIABLES
  flavor,           \* the server's flavor
  server,           \* server[s]: [exists, tables, routines]
  todo,             \* the schemas of the list that are still to do
  cur,              \* the schema being done
  phase,            \* "list", "next", "query", "done"
  tasks,            \* the queries under way: [q, of]
  rows,             \* what the table queries returned
  text,             \* text[t]: the definition that SHOW CREATE TABLE showed
  routines,         \* the structs Routine
  failed,           \* the goroutines, "tables" and "routines", with an error
  ended,            \* the goroutines that have returned
  schemas,          \* the structs Schema so far
  result,           \* "none", "ok", "error", "panic"
  changed,          \* the <<schema, name>> changed since Schemas was called
  ddl, faults

vars == <<flavor, server, todo, cur, phase, tasks, rows, text, routines,
          failed, ended, schemas, result, changed, ddl, faults>>

Groups == {"tables", "routines"}
PerSchema == {"columns", "indexes", "fks", "checks", "parts"}
Task(q) == [q |-> q, of |-> ""]
Create(t) == [q |-> "create", of |-> t]
ShowRoutine(r) == [q |-> "routine", of |-> r]
Group(task) == IF task.q \in {"routines", "proc", "routine"} THEN "routines" ELSE "tables"

NoRows == <<>>
Put(map, key, value) ==
  [k \in DOMAIN map \union {key} |-> IF k = key THEN value ELSE map[k]]
Present(objects) == {o \in DOMAIN objects : objects[o] # Absent}
Listed == DOMAIN text
There == server[cur].tables

Init ==
  /\ flavor \in Flavors
  /\ \E t \in [Schemas \X Tables -> TableDefs(flavor) \union {Absent}],
        r \in [Routines -> InitialRoutines] :
       /\ \A x \in Schemas \X Tables : t[x] \in InitialTables(flavor, x[1])
       /\ server = [s \in Schemas |-> [exists |-> TRUE, routines |-> r,
                                       tables |-> [n \in Tables |-> t[<<s, n>>]]]]
  /\ todo = {} /\ cur = CHOOSE s \in Schemas : TRUE
  /\ phase = "list" /\ tasks = {} /\ rows = NoRows /\ text = NoRows
  /\ routines = NoRows /\ failed = {} /\ ended = {} /\ schemas = NoRows
  /\ result = "none" /\ changed = {} /\ ddl = 0 /\ faults = 0

-----------------------------------------------------------------------------
(* The other clients of the server.                                        *)

Environment == <<flavor, todo, cur, phase, tasks, rows, text, routines,
                 failed, ended, schemas, result, faults>>

Running == phase # "done" /\ ddl < MaxDDL

(* CREATE, ALTER or DROP of a table, or of a routine.                      *)
ChangeTable(s, t, d) ==
  /\ Running /\ server[s].exists /\ server[s].tables[t] # d
  /\ server' = [server EXCEPT ![s].tables[t] = d]
  /\ changed' = changed \union {<<s, t>>}
  /\ ddl' = ddl + 1
  /\ UNCHANGED Environment

ChangeRoutine(s, r, d) ==
  /\ Running /\ server[s].exists /\ server[s].routines[r] # d
  /\ server' = [server EXCEPT ![s].routines[r] = d]
  /\ changed' = changed \union {<<s, r>>}
  /\ ddl' = ddl + 1
  /\ UNCHANGED Environment

DropSchema(s) ==
  /\ Running /\ server[s].exists
  /\ server' = [server EXCEPT ![s] = [exists |-> FALSE,
                                      tables |-> [t \in Tables |-> Absent],
                                      routines |-> [r \in Routines |-> Absent]]]
  /\ changed' = changed \union ({s} \X (Tables \union Routines))
  /\ ddl' = ddl + 1
  /\ UNCHANGED Environment

-----------------------------------------------------------------------------
(* The loop over the schemas.                                              *)

Return(r) == phase' = "done" /\ result' = r

Fault == faults < MaxFaults /\ faults' = faults + 1

(* SELECT FROM information_schema.schemata.                                *)
ListSchemas ==
  /\ phase = "list"
  /\ todo' = {s \in Schemas : server[s].exists}
  /\ phase' = "next"
  /\ UNCHANGED <<flavor, server, cur, tasks, rows, text, routines, failed,
                 ended, schemas, result, changed, ddl, faults>>

(* A connection pool for the next schema, and the two goroutines. The      *)
(* result may come back in any order.                                      *)
NextSchema ==
  /\ phase = "next"
  /\ \E s \in todo :
       /\ todo' = todo \ {s} /\ cur' = s
       /\ IF server[s].exists
          THEN phase' = "query" /\ tasks' = {Task("tables"), Task("routines")}
               /\ UNCHANGED <<result, schemas>>
          ELSE Return("error") /\ schemas' = NoRows /\ UNCHANGED tasks
  /\ failed' = {} /\ ended' = {}
  /\ UNCHANGED <<flavor, server, rows, text, routines, changed, ddl, faults>>

(* The first query, or a connection, fails.                                *)
CannotConnect ==
  /\ phase = "list" \/ (phase = "next" /\ todo # {})
  /\ Fault /\ Return("error") /\ schemas' = NoRows
  /\ UNCHANGED <<flavor, server, todo, cur, tasks, rows, text, routines,
                 failed, ended, changed, ddl>>

AllDone ==
  /\ phase = "next" /\ todo = {}
  /\ Return("ok")
  /\ UNCHANGED <<flavor, server, todo, cur, tasks, rows, text, routines,
                 failed, ended, schemas, changed, ddl, faults>>

-----------------------------------------------------------------------------
(* querySchemaTables.                                                      *)

(* What a cancelled query returns nobody reads: see GroupFails.            *)
Cancelled(g) == g \in failed \/ \E h \in failed : h \in ended
Querying(task) == phase = "query" /\ task \in tasks /\ ~Cancelled(Group(task))

Others == <<flavor, server, todo, cur, phase, ended, schemas, result, changed, ddl>>

(* queryTablesInSchema, and the goroutines started when it returns, also   *)
(* for a schema without a table.                                           *)
QueryTables ==
  /\ Querying(Task("tables"))
  /\ \E row \in [Present(There) -> UNION {queryTables(flavor, There[t]) : t \in Present(There)}] :
       /\ \A t \in Present(There) : row[t] \in queryTables(flavor, There[t])
       /\ rows' = [tables |-> row]
       /\ text' = [t \in Present(There) |-> NoText]
       /\ tasks' = (tasks \ {Task("tables")}) \union
            ({Create(t) : t \in Present(There)}
             \union {Task(q) : q \in {"columns", "indexes", "fks"}}
             \union (IF flavor.checks THEN {Task("checks")} ELSE {})
             \union (IF \E t \in Present(There) : row[t].partitioned
                     THEN {Task("parts")} ELSE {}))
  /\ UNCHANGED <<routines, failed, faults>> /\ UNCHANGED Others

(* SHOW CREATE TABLE: an error if the table is gone.                       *)
ShowCreateTable(t) ==
  /\ Querying(Create(t))
  /\ IF There[t] = Absent
     THEN failed' = failed \union {"tables"} /\ UNCHANGED text
     ELSE text' = [text EXCEPT ![t] = There[t]] /\ UNCHANGED failed
  /\ tasks' = tasks \ {Create(t)}
  /\ UNCHANGED <<rows, routines, faults>> /\ UNCHANGED Others

(* Mutant: the map of foreign keys has only the first one of each table.   *)
RowsOfFirst(fl, q, d) ==
  CASE q = "columns" -> {queryColumns(fl, d)}
    [] q = "indexes" -> queryIndexes(fl, d)
    [] q = "fks"     -> {SelectSeq(queryForeignKeys(d), LAMBDA fk : fk = queryForeignKeys(d)[1])}
    [] q = "checks"  -> {queryChecks(fl, d)}
    [] q = "parts"   -> {queryPartitions(d)}

(* The rows of each table that query q can return.                         *)
RowsOf(fl, q, d) ==
  CASE q = "columns" -> {queryColumns(fl, d)}
    [] q = "indexes" -> queryIndexes(fl, d)
    [] q = "fks"     -> {queryForeignKeys(d)}
    [] q = "checks"  -> {queryChecks(fl, d)}
    [] q = "parts"   -> {queryPartitions(d)}

(* queryColumnsInSchema, queryIndexesInSchema, queryForeignKeysInSchema,   *)
(* queryChecksInSchema and queryPartitionsInSchema: maps by table name.    *)
QueryRows(q) ==
  /\ Querying(Task(q))
  /\ \E found \in [Present(There) -> UNION {RowsOf(flavor, q, There[t]) : t \in Present(There)}] :
       /\ \A t \in Present(There) : found[t] \in RowsOf(flavor, q, There[t])
       /\ rows' = Put(rows, q, found)
  /\ tasks' = tasks \ {Task(q)}
  /\ UNCHANGED <<text, routines, failed, faults>> /\ UNCHANGED Others

(* What a map holds for a table it does not name, or if it was not read.   *)
Nothing(q) ==
  CASE q = "indexes" -> [pk |-> "", idx |-> <<>>]
    [] q = "parts" -> [method |-> "", algo |-> "", list |-> "default", parts |-> <<>>]
    [] OTHER -> <<>>

Found(q, t) ==
  IF q \in DOMAIN rows THEN IF t \in DOMAIN rows[q] THEN rows[q][t] ELSE Nothing(q)
  ELSE Nothing(q)

RowsFor(t) ==
  [coll |-> rows.tables[t].coll, opts |-> rows.tables[t].opts,
   cols |-> Found("columns", t), pk |-> Found("indexes", t).pk,
   idx |-> Found("indexes", t).idx, fks |-> Found("fks", t),
   checks |-> Found("checks", t), part |-> Found("parts", t)]

AssembleTable(d, shown, table) ==
  [table |-> table, create |-> d, unsupported |-> UnsupportedDDL(table, shown)]

GroupDone(g) == phase = "query" /\ g \notin ended /\ ~\E task \in tasks : Group(task) = g

(* g.Wait, then the loop that assembles the tables, which may panic.       *)
AssembleTables ==
  /\ GroupDone("tables") /\ "tables" \notin failed
  /\ \E shown \in {[t \in Listed |-> GeneratedCreateStatement(text[t])]},
        found \in {[t \in Listed |-> RowsFor(t)]} :
       IF \E t \in Listed : Panics(flavor, found[t], shown[t])
       THEN Return("panic") /\ schemas' = NoRows /\ UNCHANGED <<ended, rows, text>>
       ELSE \E built \in {[t \in Listed |-> Assemble(flavor, found[t], shown[t])]} :
            /\ schemas' = Put(schemas, cur,
                              [tables |-> [t \in Listed |->
                                  AssembleTable(text[t], shown[t], built[t])],
                               routines |-> NoRows])
            /\ ended' = ended \union {"tables"} /\ rows' = NoRows /\ text' = NoRows
            /\ UNCHANGED <<phase, result>>
  /\ UNCHANGED <<flavor, server, todo, cur, tasks, routines, failed, changed, ddl, faults>>

-----------------------------------------------------------------------------
(* querySchemaRoutines. A routine: what it was created with, and the       *)
(* statement, "" until it is known.                                        *)

(* information_schema.routines: no parameters, the body mangled.           *)
QueryRoutines ==
  /\ Querying(Task("routines"))
  /\ LET have == server[cur].routines IN
     /\ routines' = [r \in Present(have) |->
          [attrs |-> have[r].attrs, params |-> "", body |-> "?", create |-> NoText]]
     /\ tasks' = (tasks \ {Task("routines")}) \union
          CASE Present(have) = {} -> {}
            [] Present(have) # {} /\ flavor.dict -> {ShowRoutine(r) : r \in Present(have)}
            [] OTHER -> {Task("proc")}
  /\ UNCHANGED <<rows, text, failed, faults>> /\ UNCHANGED Others

(* mysql.proc: parameters and body of the routines it has; the statement   *)
(* is put together from them and from what the first query returned. The   *)
(* others, or all of them when the query fails, need a SHOW CREATE each.   *)
Definition(r) == [attrs |-> r.attrs, params |-> r.params, body |-> r.body]

ASSUME RoutinesAssumption ==
  \A d \in RoutineDefs \union InitialRoutines : d = Absent \/ d = Definition(d)

FromProc(r, d) ==
  LET known == [r EXCEPT !.params = d.params, !.body = d.body]
  IN  [known EXCEPT !.create = Definition(known)]

QueryProc(answered) ==
  /\ Querying(Task("proc"))
  /\ LET have == server[cur].routines
         inProc == IF answered THEN DOMAIN routines \intersect Present(have) ELSE {} IN
     /\ routines' = [r \in DOMAIN routines |->
                       IF r \in inProc THEN FromProc(routines[r], have[r]) ELSE routines[r]]
     /\ tasks' = (tasks \ {Task("proc")})
                   \union {ShowRoutine(r) : r \in DOMAIN routines \ inProc}
  /\ IF answered THEN UNCHANGED faults ELSE Fault
  /\ UNCHANGED <<rows, text, failed>> /\ UNCHANGED Others

(* SHOW CREATE, and parseCreateStatement: the body is replaced only if the *)
(* statement begins as the other fields say.                               *)
parseCreateStatement(r, d) ==
  [r EXCEPT !.create = d, !.params = d.params,
            !.body = IF r.attrs = d.attrs THEN d.body ELSE @]

ShowCreateRoutine(r) ==
  /\ Querying(ShowRoutine(r))
  /\ LET d == server[cur].routines[r] IN
     IF d = Absent
     THEN failed' = failed \union {"routines"} /\ UNCHANGED routines
     ELSE routines' = [routines EXCEPT ![r] = parseCreateStatement(@, d)] /\ UNCHANGED failed
  /\ tasks' = tasks \ {ShowRoutine(r)}
  /\ UNCHANGED <<rows, text, faults>> /\ UNCHANGED Others

RoutinesDone ==
  /\ GroupDone("routines") /\ "routines" \notin failed
  /\ ended' = ended \union {"routines"}
  /\ UNCHANGED <<flavor, server, todo, cur, phase, tasks, rows, text, routines,
                 failed, schemas, result, changed, ddl, faults>>

-----------------------------------------------------------------------------
(* Errors. The first one cancels the context of its group, and when the    *)
(* group has returned it cancels the context of both.                      *)

QueryFailsUnreported(task) ==
  /\ Querying(task) /\ task.q # "proc"
  /\ Fault
  /\ failed' = failed \union ({Group(task)} \ {"routines"})
  /\ tasks' = tasks \ {task}
  /\ UNCHANGED <<rows, text, routines>> /\ UNCHANGED Others

QueryFails(task) ==
  /\ Querying(task) /\ task.q # "proc"
  /\ Fault
  /\ failed' = failed \union {Group(task)}
  /\ tasks' = tasks \ {task}
  /\ UNCHANGED <<rows, text, routines>> /\ UNCHANGED Others

GroupFailsLast(g) ==
  /\ GroupDone(g) /\ g \in failed
  /\ ended' = ended \union {g}
  /\ UNCHANGED <<flavor, server, todo, cur, phase, tasks, rows, text, routines, failed,
                 schemas, result, changed, ddl, faults>>

(* g.Wait has seen the end of the queries that were under way when the     *)
(* context was cancelled. The error of mysql.proc is not looked at, but    *)
(* the SHOW CREATEs that follow it have the same context.                  *)
GroupFails(g) ==
  /\ phase = "query" /\ g \notin ended
  /\ g \in failed \/ (Cancelled(g) /\ ~GroupDone(g))
  /\ failed' = failed \union {g} /\ ended' = ended \union {g}
  /\ tasks' = {task \in tasks : Group(task) # g}
  /\ IF g = "tables" THEN rows' = NoRows /\ text' = NoRows /\ UNCHANGED routines
                     ELSE routines' = NoRows /\ UNCHANGED <<rows, text>>
  /\ UNCHANGED <<flavor, server, todo, cur, phase, schemas, result, changed, ddl, faults>>

(* Both have returned: the next schema, or the error of this one.          *)
FinishSchema ==
  /\ phase = "query" /\ ended = Groups
  /\ IF failed = {}
     THEN /\ schemas' = [schemas EXCEPT ![cur].routines = routines]
          /\ phase' = "next" /\ UNCHANGED result
     ELSE Return("error") /\ schemas' = NoRows
  /\ rows' = NoRows /\ text' = NoRows /\ routines' = NoRows
  /\ UNCHANGED <<flavor, server, todo, cur, tasks, failed, ended, changed, ddl, faults>>

Next ==
  \/ \E s \in Schemas, t \in Tables, d \in TableDefs(flavor) \union {Absent} : ChangeTable(s, t, d)
  \/ \E s \in Schemas, r \in Routines, d \in RoutineDefs \union {Absent} : ChangeRoutine(s, r, d)
  \/ \E s \in Schemas : DropSchema(s)
  \/ ListSchemas \/ NextSchema \/ CannotConnect \/ AllDone
  \/ QueryTables \/ AssembleTables
  \/ \E t \in Tables : ShowCreateTable(t)
  \/ \E q \in PerSchema : QueryRows(q)
  \/ QueryRoutines \/ QueryProc(TRUE) \/ QueryProc(FALSE) \/ RoutinesDone
  \/ \E r \in Routines : ShowCreateRoutine(r)
  \/ \E task \in tasks : QueryFails(task)
  \/ \E g \in Groups : GroupFails(g)
  \/ FinishSchema

Spec == Init /\ [][Next]_vars

(* Queries are answered or fail, and goroutines are scheduled.             *)
Program ==
  \/ ListSchemas \/ NextSchema \/ AllDone \/ QueryTables \/ AssembleTables \/ FinishSchema
  \/ QueryRoutines \/ QueryProc(TRUE) \/ RoutinesDone
  \/ \E t \in Tables : ShowCreateTable(t)
  \/ \E q \in PerSchema : QueryRows(q)
  \/ \E r \in Routines : ShowCreateRoutine(r)
  \/ \E g \in Groups : GroupFails(g)

FairSpec == Spec /\ WF_vars(Program)

-----------------------------------------------------------------------------
(* A table that is not flagged as unsupported is, in every field, the      *)
(* table of which SHOW CREATE TABLE gave the statement: however DDL of     *)
(* other clients falls between the queries, fields of two versions of a    *)
(* table are never mixed unnoticed (the comparison with                    *)
(* GeneratedCreateStatement at the end of querySchemaTables).              *)
SupportedIsSnapshot ==
  \A s \in DOMAIN schemas : \A t \in DOMAIN schemas[s].tables :
    schemas[s].tables[t].unsupported \/ schemas[s].tables[t].table = schemas[s].tables[t].create

(* A table of definition d that comes out as this struct and flag: exactly,*)
(* or but for the order of its create options, and then flagged. The order *)
(* is lost only with the data dictionary, for a table in a general         *)
(* TABLESPACE with two options or more (fixCreateOptionsOrder).            *)
ComesOut(fl, d, table, unsupported) ==
  /\ [table EXCEPT !.opts = d.opts] = d
  /\ unsupported <=> table.opts # d.opts
  /\ unsupported => fl.dict /\ d.tspace # "" /\ Len(d.opts) > 1

(* From the rows that the queries return for a table of definition d, and  *)
(* the text of SHOW CREATE TABLE for it, querySchemaTables gets d back.    *)
(* What a query was not made for (CHECK constraints of an old flavor,      *)
(* partitions of a schema without a partitioned table) counts as empty.    *)
ReadsBack(fl, d) ==
  \A row \in queryTables(fl, d), ix \in queryIndexes(fl, d) :
  \A part \in {queryPartitions(d)} \union (IF row.partitioned THEN {} ELSE {Nothing("parts")}),
     checks \in {queryChecks(fl, d)} \union (IF fl.checks THEN {} ELSE {Nothing("checks")}) :
    LET found == [coll |-> row.coll, opts |-> row.opts, cols |-> queryColumns(fl, d),
                  pk |-> ix.pk, idx |-> ix.idx, fks |-> queryForeignKeys(d),
                  checks |-> checks, part |-> part]
        shown == GeneratedCreateStatement(d)
        built == Assemble(fl, found, shown)
    IN  ~Panics(fl, found, shown) /\ ComesOut(fl, d, built, UnsupportedDDL(built, shown))

(* What no other client touches comes out: the tables and routines that    *)
(* were not changed since Schemas was called are all in the result, as     *)
(* they are on the server and supported, whatever happened to others. One  *)
(* class of tables comes out flagged as unsupported although the program   *)
(* means to support it (the comment of fixCreateOptionsOrder): see         *)
(* ComesOut. Without a change in the schema there is no panic; with one    *)
(* there may be, in fixIndexOrder and the others of Panics.                *)
UntouchedIsExact ==
  /\ result = "panic" => \E t \in Tables : <<cur, t>> \in changed
  /\ result = "ok" =>
       \A s \in Schemas :
         /\ \A t \in Present(server[s].tables) : <<s, t>> \notin changed =>
              /\ s \in DOMAIN schemas /\ t \in DOMAIN schemas[s].tables
              /\ ComesOut(flavor, server[s].tables[t], schemas[s].tables[t].table,
                          schemas[s].tables[t].unsupported)
         /\ \A r \in Present(server[s].routines) : <<s, r>> \notin changed =>
              /\ s \in DOMAIN schemas /\ r \in DOMAIN schemas[s].routines
              /\ Definition(schemas[s].routines[r]) = server[s].routines[r]
              /\ schemas[s].routines[r].create = server[s].routines[r]

(* No partial result: when Schemas returns without an error, every table   *)
(* and routine in it has its statement. A query that failed or was         *)
(* cancelled is an error of the whole call (the two levels of errgroup).   *)
NothingMissing ==
  result = "ok" =>
    \A s \in DOMAIN schemas :
      /\ \A t \in DOMAIN schemas[s].tables : schemas[s].tables[t].create # NoText
      /\ \A r \in DOMAIN schemas[s].routines : schemas[s].routines[r].create # NoText

(* Schemas returns: neither a failed query nor a cancelled context leaves  *)
(* g.Wait waiting.                                                         *)
Returns == <>(phase = "done")
=============================================================================
