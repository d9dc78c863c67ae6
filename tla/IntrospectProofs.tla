-------------------------- MODULE IntrospectProofs ---------------------------
(***************************************************************************)
(* Introspection of any number of schemas, tables and routines, with any   *)
(* number of failed queries and of DDL statements between the queries: a   *)
(* result without an error has the statement of every object in it, and    *)
(* what no other client touched comes out exactly.                         *)
(***************************************************************************)
EXTENDS Introspect, TLAPS

\* A server: what its tables and routines may be; a schema that was dropped
\* has none.
ServerType ==
    /\ flavor \in Flavors
    /\ server \in [Schemas ->
         [exists : BOOLEAN, tables : [Tables -> TableDefs(flavor) \union {Absent}],
          routines : [Routines -> RoutineDefs \union InitialRoutines \union {Absent}]]]
    /\ \A s \in Schemas : ~server[s].exists =>
         /\ \A t \in Tables : server[s].tables[t] = Absent
         /\ \A r \in Routines : server[s].routines[r] = Absent

\* Where Instance.Schemas is, and that a goroutine that has returned has no
\* query under way.
Position ==
    /\ todo \subseteq Schemas
    /\ phase \in {"list", "next", "query", "done"}
    /\ phase # "done" => result = "none"
    /\ phase = "query" =>
         /\ cur \in Schemas
         /\ \A task \in tasks : Group(task) \notin ended

\* A listed table has its statement, or its SHOW CREATE TABLE is under way.
TablesPending ==
    (/\ phase = "query" /\ {"tables"} \cap (failed \union ended) = {}
     /\ Task("tables") \notin tasks) =>
      \A t \in DOMAIN text : text[t] # NoText \/ Create(t) \in tasks

\* A listed routine has its statement, or a query that gives it is under way.
RoutineStruct(r) ==
    r = [attrs |-> r.attrs, params |-> r.params, body |-> r.body, create |-> r.create]

RoutinesPending ==
    (phase = "query" /\ "routines" \notin failed /\ Task("routines") \notin tasks) =>
      \A r \in DOMAIN routines :
        /\ RoutineStruct(routines[r])
        /\ \/ routines[r].create # NoText
           \/ {Task("proc"), ShowRoutine(r)} \cap tasks # {}

\* The structs Schema have no object without its statement.
Complete(schema) ==
    /\ schema = [tables |-> schema.tables, routines |-> schema.routines]
    /\ \A t \in DOMAIN schema.tables : schema.tables[t].create # NoText
    /\ \A r \in DOMAIN schema.routines : schema.routines[r].create # NoText

SchemasComplete == \A s \in DOMAIN schemas : Complete(schemas[s])

CompleteInv ==
    /\ ServerType /\ Position /\ TablesPending /\ RoutinesPending /\ SchemasComplete

----------------------------------------------------------------------------

Untouched(s, o) == <<s, o>> \notin changed

\* The rows of query q that are in hand for table t are the server's.
RowsInHand(q, t) ==
    \/ Task(q) \in tasks
    \/ q \in DOMAIN rows /\ t \in DOMAIN rows[q] /\ rows[q][t] \in RowsOf(flavor, q, There[t])
    \/ /\ q \notin DOMAIN rows
       /\ (q = "checks" /\ ~flavor.checks) \/ (q = "parts" /\ ~rows.tables[t].partitioned)

TableInHand(t) ==
    /\ There[t] # Absent
    /\ t \in DOMAIN rows.tables /\ rows.tables[t] \in queryTables(flavor, There[t])
    /\ Create(t) \in tasks \/ text[t] = There[t]
    /\ \A q \in PerSchema : RowsInHand(q, t)

\* What was gathered of the tables nobody touched is as it is on the server.
TablesInHand ==
    (/\ phase = "query" /\ {"tables"} \cap (failed \union ended) = {}
     /\ Task("tables") \notin tasks) =>
      /\ "tables" \in DOMAIN rows
      /\ \A t \in DOMAIN text : t \in Tables /\ (Untouched(cur, t) => TableInHand(t))
      /\ \A t \in Present(There) : Untouched(cur, t) => t \in DOMAIN text

RoutineInHand(r) ==
    LET have == server[cur].routines[r] IN
    /\ have # Absent
    /\ routines[r].attrs = have.attrs
    /\ \/ {Task("proc"), ShowRoutine(r)} \cap tasks # {}
       \/ Definition(routines[r]) = have /\ routines[r].create = have

RoutinesInHand ==
    (phase = "query" /\ "routines" \notin failed /\ Task("routines") \notin tasks) =>
      /\ \A r \in DOMAIN routines : r \in Routines /\ (Untouched(cur, r) => RoutineInHand(r))
      /\ \A r \in Present(server[cur].routines) : Untouched(cur, r) => r \in DOMAIN routines

TablesExact(s) ==
    \A t \in Present(server[s].tables) : Untouched(s, t) =>
      /\ t \in DOMAIN schemas[s].tables
      /\ ComesOut(flavor, server[s].tables[t], schemas[s].tables[t].table,
                  schemas[s].tables[t].unsupported)

RoutinesExact(s) ==
    \A r \in Present(server[s].routines) : Untouched(s, r) =>
      /\ r \in DOMAIN schemas[s].routines
      /\ Definition(schemas[s].routines[r]) = server[s].routines[r]
      /\ schemas[s].routines[r].create = server[s].routines[r]

\* Each schema that exists is still to do, under way, or done and exact.
Accounted(s) ==
    \/ s \in todo
    \/ phase = "query" /\ s = cur
    \/ s \in DOMAIN schemas /\ TablesExact(s) /\ RoutinesExact(s)

SchemasExact ==
    (phase # "list" /\ result \in {"none", "ok"}) =>
      \A s \in Schemas : server[s].exists => Accounted(s)

\* The tables of the schema under way, once its goroutine has returned.
TablesAssembled ==
    (phase = "query" /\ "tables" \notin failed /\ "tables" \in ended) =>
      cur \in DOMAIN schemas /\ TablesExact(cur)

Outcome ==
    /\ result = "ok" => todo = {} /\ phase = "done"
    /\ result = "panic" => \E t \in Tables : ~Untouched(cur, t)

ExactInv ==
    /\ CompleteInv /\ TablesInHand /\ RoutinesInHand /\ TablesAssembled
    /\ SchemasExact /\ Outcome
----------------------------------------------------------------------------
(* The tasks: what tells them apart, and whose goroutine each belongs to.  *)

LEMMA TaskGroups ==
    /\ \A x : Group(Create(x)) = "tables" /\ Group(ShowRoutine(x)) = "routines"
    /\ \A q : Group(Task(q)) = IF q \in {"routines", "proc", "routine"} THEN "routines" ELSE "tables"
BY DEF Group, Create, ShowRoutine, Task

LEMMA TaskNames ==
    /\ \A x, y : Create(x) = Create(y) => x = y
    /\ \A x, y : ShowRoutine(x) = ShowRoutine(y) => x = y
    /\ \A p, q : Task(p) = Task(q) => p = q
    /\ \A x, q : Create(x) = Task(q) => q = "create"
    /\ \A x, q : ShowRoutine(x) = Task(q) => q = "routine"
BY DEF Create, ShowRoutine, Task

----------------------------------------------------------------------------
(* A result without an error is complete.                                  *)

LEMMA CompleteInit == Init => CompleteInv
<1> SUFFICES ASSUME Init PROVE CompleteInv
  OBVIOUS
<1>1. ServerType
  <2>1. PICK t \in [Schemas \X Tables -> TableDefs(flavor) \union {Absent}],
             r \in [Routines -> InitialRoutines] :
          server = [s \in Schemas |-> [exists |-> TRUE, routines |-> r,
                                       tables |-> [n \in Tables |-> t[<<s, n>>]]]]
    BY DEF Init
  <2>2. \A s \in Schemas : [n \in Tables |-> t[<<s, n>>]] \in [Tables -> TableDefs(flavor) \union {Absent}]
    OBVIOUS
  <2>3. r \in [Routines -> RoutineDefs \union InitialRoutines \union {Absent}]
    OBVIOUS
  <2> QED BY <2>1, <2>2, <2>3 DEF Init, ServerType
<1>2. Position /\ TablesPending /\ RoutinesPending
  BY DEF Init, Position, TablesPending, RoutinesPending
<1>3. SchemasComplete
  BY DEF Init, SchemasComplete, NoRows
<1> QED BY <1>1, <1>2, <1>3 DEF CompleteInv

\* A step of another client.
LEMMA CompleteDDL ==
    ASSUME CompleteInv, ServerType', UNCHANGED Environment
    PROVE  CompleteInv'
BY DEF CompleteInv, Environment, Position, TablesPending, RoutinesPending, SchemasComplete,
       Complete, RoutineStruct

LEMMA ServerChangeTable ==
    ASSUME ServerType, NEW s \in Schemas, NEW t \in Tables, NEW d \in TableDefs(flavor) \union {Absent},
           ChangeTable(s, t, d)
    PROVE  ServerType'
<1>1. server[s] \in [exists : BOOLEAN, tables : [Tables -> TableDefs(flavor) \union {Absent}],
                     routines : [Routines -> RoutineDefs \union InitialRoutines \union {Absent}]]
  BY DEF ServerType
<1>2. [server[s] EXCEPT !.tables[t] = d] \in
        [exists : BOOLEAN, tables : [Tables -> TableDefs(flavor) \union {Absent}],
         routines : [Routines -> RoutineDefs \union InitialRoutines \union {Absent}]]
  BY <1>1
<1>3. server' = [server EXCEPT ![s] = [server[s] EXCEPT !.tables[t] = d]]
  BY DEF ChangeTable
<1>4. flavor' = flavor /\ server[s].exists
  BY DEF ChangeTable, Environment
<1>5. server' \in [Schemas ->
         [exists : BOOLEAN, tables : [Tables -> TableDefs(flavor) \union {Absent}],
          routines : [Routines -> RoutineDefs \union InitialRoutines \union {Absent}]]]
  BY <1>2, <1>3 DEF ServerType
<1>6. \A z \in Schemas : z # s => server'[z] = server[z]
  BY <1>3 DEF ServerType
<1>7. server'[s].exists
  BY <1>1, <1>3, <1>4 DEF ServerType
<1>8. \A z \in Schemas : ~server'[z].exists =>
        /\ \A x \in Tables : server'[z].tables[x] = Absent
        /\ \A x \in Routines : server'[z].routines[x] = Absent
  BY <1>6, <1>7 DEF ServerType
<1>9. flavor' \in Flavors
  BY <1>4 DEF ServerType
<1> QED BY <1>4, <1>5, <1>8, <1>9 DEF ServerType

LEMMA ServerChangeRoutine ==
    ASSUME ServerType, NEW s \in Schemas, NEW r \in Routines, NEW d \in RoutineDefs \union {Absent},
           ChangeRoutine(s, r, d)
    PROVE  ServerType'
<1>1. server[s] \in [exists : BOOLEAN, tables : [Tables -> TableDefs(flavor) \union {Absent}],
                     routines : [Routines -> RoutineDefs \union InitialRoutines \union {Absent}]]
  BY DEF ServerType
<1>2. [server[s] EXCEPT !.routines[r] = d] \in
        [exists : BOOLEAN, tables : [Tables -> TableDefs(flavor) \union {Absent}],
         routines : [Routines -> RoutineDefs \union InitialRoutines \union {Absent}]]
  BY <1>1
<1>3. server' = [server EXCEPT ![s] = [server[s] EXCEPT !.routines[r] = d]]
  BY DEF ChangeRoutine
<1>4. flavor' = flavor /\ server[s].exists
  BY DEF ChangeRoutine, Environment
<1>5. server' \in [Schemas ->
         [exists : BOOLEAN, tables : [Tables -> TableDefs(flavor) \union {Absent}],
          routines : [Routines -> RoutineDefs \union InitialRoutines \union {Absent}]]]
  BY <1>2, <1>3 DEF ServerType
<1>6. \A z \in Schemas : z # s => server'[z] = server[z]
  BY <1>3 DEF ServerType
<1>7. server'[s].exists
  BY <1>1, <1>3, <1>4 DEF ServerType
<1>8. \A z \in Schemas : ~server'[z].exists =>
        /\ \A x \in Tables : server'[z].tables[x] = Absent
        /\ \A x \in Routines : server'[z].routines[x] = Absent
  BY <1>6, <1>7 DEF ServerType
<1>9. flavor' \in Flavors
  BY <1>4 DEF ServerType
<1> QED BY <1>4, <1>5, <1>8, <1>9 DEF ServerType

LEMMA ServerDropSchema ==
    ASSUME ServerType, NEW s \in Schemas, DropSchema(s)
    PROVE  ServerType'
BY DEF ServerType, DropSchema, Environment

LEMMA ServerSame ==
    ASSUME ServerType, UNCHANGED <<flavor, server>>
    PROVE  ServerType'
BY DEF ServerType

\* Nothing that a goroutine works with changes, and no query is under way.
LEMMA CompleteOutside ==
    ASSUME CompleteInv, phase' # "query", Position', SchemasComplete', UNCHANGED <<flavor, server>>
    PROVE  CompleteInv'
BY ServerSame DEF CompleteInv, TablesPending, RoutinesPending

LEMMA CompleteListSchemas ==
    ASSUME CompleteInv, ListSchemas
    PROVE  CompleteInv'
<1>1. Position' BY DEF CompleteInv, Position, ListSchemas
<1>2. SchemasComplete' BY DEF CompleteInv, SchemasComplete, Complete, ListSchemas
<1> QED BY <1>1, <1>2, CompleteOutside DEF ListSchemas

LEMMA EmptyComplete ==
    ASSUME schemas' = NoRows
    PROVE  SchemasComplete'
BY DEF SchemasComplete, NoRows

LEMMA CompleteNextSchema ==
    ASSUME CompleteInv, NextSchema
    PROVE  CompleteInv'
<1>1. PICK s \in todo :
         /\ todo' = todo \ {s} /\ cur' = s
         /\ IF server[s].exists
            THEN phase' = "query" /\ tasks' = {Task("tables"), Task("routines")}
                 /\ UNCHANGED <<result, schemas>>
            ELSE Return("error") /\ schemas' = NoRows /\ UNCHANGED tasks
  BY DEF NextSchema
<1>2. CASE server[s].exists
  <2>1. Position'
    BY <1>1, <1>2 DEF CompleteInv, Position, NextSchema
  <2>2. TablesPending' /\ RoutinesPending'
    BY <1>1, <1>2 DEF TablesPending, RoutinesPending
  <2>3. SchemasComplete'
    BY <1>1, <1>2 DEF CompleteInv, SchemasComplete, Complete
  <2>4. ServerType'
    BY ServerSame DEF CompleteInv, NextSchema
  <2> QED BY <2>1, <2>2, <2>3, <2>4 DEF CompleteInv
<1>3. CASE ~server[s].exists
  <2>1. Position' /\ phase' # "query"
    BY <1>1, <1>3 DEF CompleteInv, Position, NextSchema, Return
  <2>2. SchemasComplete'
    BY <1>1, <1>3, EmptyComplete
  <2> QED BY <2>1, <2>2, CompleteOutside DEF NextSchema
<1> QED BY <1>2, <1>3

LEMMA CompleteCannotConnect ==
    ASSUME CompleteInv, CannotConnect
    PROVE  CompleteInv'
<1>1. Position' /\ phase' # "query" BY DEF CompleteInv, Position, CannotConnect, Return
<1>2. SchemasComplete' BY EmptyComplete DEF CannotConnect
<1> QED BY <1>1, <1>2, CompleteOutside DEF CannotConnect

LEMMA CompleteAllDone ==
    ASSUME CompleteInv, AllDone
    PROVE  CompleteInv'
<1>1. Position' /\ phase' # "query" BY DEF CompleteInv, Position, AllDone, Return
<1>2. SchemasComplete' BY DEF CompleteInv, SchemasComplete, Complete, AllDone
<1> QED BY <1>1, <1>2, CompleteOutside DEF AllDone
\* A step of a query: what is left to show.
LEMMA CompleteQuery ==
    ASSUME CompleteInv, phase = "query", UNCHANGED Others,
           \A task \in tasks' : Group(task) \notin ended, TablesPending', RoutinesPending'
    PROVE  CompleteInv'
<1>1. Position' BY DEF CompleteInv, Position, Others
<1>2. ServerType' BY ServerSame DEF CompleteInv, Others
<1>3. SchemasComplete' BY DEF CompleteInv, SchemasComplete, Complete, Others
<1> QED BY <1>1, <1>2, <1>3 DEF CompleteInv

\* The steps of the one goroutine leave what the other one has alone.
LEMMA RoutinesPendingSame ==
    ASSUME RoutinesPending, UNCHANGED <<phase, routines>>, failed \subseteq failed',
           \A task \in tasks : Group(task) = "routines" => task \in tasks'
    PROVE  RoutinesPending'
<1> SUFFICES ASSUME phase = "query", "routines" \notin failed', Task("routines") \notin tasks',
                    NEW r \in DOMAIN routines
             PROVE  /\ RoutineStruct(routines[r])
                    /\ \/ routines[r].create # NoText
                       \/ {Task("proc"), ShowRoutine(r)} \cap tasks' # {}
  BY DEF RoutinesPending, RoutineStruct
<1>1. Group(Task("routines")) = "routines" /\ Group(Task("proc")) = "routines"
      /\ Group(ShowRoutine(r)) = "routines"
  BY TaskGroups
<1>2. "routines" \notin failed /\ Task("routines") \notin tasks
  BY <1>1
<1>3. /\ RoutineStruct(routines[r])
      /\ \/ routines[r].create # NoText
         \/ Task("proc") \in tasks \/ ShowRoutine(r) \in tasks
  BY <1>2 DEF RoutinesPending
<1>4. \/ routines[r].create # NoText
      \/ Task("proc") \in tasks' \/ ShowRoutine(r) \in tasks'
  BY <1>1, <1>3
<1> QED BY <1>3, <1>4

LEMMA TablesPendingSame ==
    ASSUME TablesPending, UNCHANGED <<phase, text>>, failed \subseteq failed', ended \subseteq ended',
           \A task \in tasks : Group(task) = "tables" => task \in tasks'
    PROVE  TablesPending'
<1> SUFFICES ASSUME phase = "query", "tables" \notin failed' \union ended', Task("tables") \notin tasks',
                    NEW t \in DOMAIN text
             PROVE  text[t] # NoText \/ Create(t) \in tasks'
  BY DEF TablesPending
<1>1. Group(Task("tables")) = "tables" /\ Group(Create(t)) = "tables"
  BY TaskGroups
<1>2. {"tables"} \cap (failed \union ended) = {} /\ Task("tables") \notin tasks
  BY <1>1
<1> QED BY <1>1, <1>2 DEF TablesPending

\* A task of one goroutine ends: the tasks of the other are still there.
LEMMA OtherTasks ==
    ASSUME NEW T, NEW x, NEW g, Group(x) # g
    PROVE  \A task \in T : Group(task) = g => task \in T \ {x}
OBVIOUS

LEMMA TaskNotEnded ==
    ASSUME CompleteInv, NEW task, Querying(task)
    PROVE  Group(task) \notin ended /\ phase = "query" /\ task \in tasks
           /\ \A z \in tasks : Group(z) \notin ended
BY DEF Querying, CompleteInv, Position

LEMMA CompleteQueryTables ==
    ASSUME CompleteInv, QueryTables
    PROVE  CompleteInv'
<1>0. Querying(Task("tables")) BY DEF QueryTables
<1>1. "tables" \notin ended /\ phase = "query" /\ \A z \in tasks : Group(z) \notin ended
  BY <1>0, TaskNotEnded, TaskGroups
<1>2. PICK row :
       /\ text' = [t \in Present(There) |-> NoText]
       /\ tasks' = (tasks \ {Task("tables")}) \union
            ({Create(t) : t \in Present(There)}
             \union {Task(q) : q \in {"columns", "indexes", "fks"}}
             \union (IF flavor.checks THEN {Task("checks")} ELSE {})
             \union (IF \E t \in Present(There) : row[t].partitioned
                     THEN {Task("parts")} ELSE {}))
  BY DEF QueryTables
<1>3. \A task \in tasks' : task \in tasks \/ Group(task) = "tables"
  <2> SUFFICES ASSUME NEW task \in tasks', task \notin tasks PROVE Group(task) = "tables"
    OBVIOUS
  <2>1. (\E t : task = Create(t)) \/ (\E q \in {"columns", "indexes", "fks", "checks", "parts"} : task = Task(q))
    BY <1>2
  <2> QED BY <2>1, TaskGroups
<1>4. \A task \in tasks : Group(task) = "routines" => task \in tasks'
  BY <1>2, TaskGroups
<1>5. Task("routines") \in tasks' => Task("routines") \in tasks
  BY <1>3, TaskGroups
<1>6. RoutinesPending'
  BY <1>4, <1>5, RoutinesPendingSame DEF CompleteInv, QueryTables, Others
<1>7. TablesPending'
  BY <1>2 DEF TablesPending
<1>8. \A task \in tasks' : Group(task) \notin ended
  BY <1>1, <1>3
<1> QED BY <1>1, <1>6, <1>7, <1>8, CompleteQuery DEF QueryTables

LEMMA ThereType ==
    ASSUME CompleteInv, phase = "query"
    PROVE  /\ cur \in Schemas /\ There \in [Tables -> TableDefs(flavor) \union {Absent}]
           /\ server[cur].routines \in [Routines -> RoutineDefs \union InitialRoutines \union {Absent}]
           /\ Absent # NoText /\ NoText \notin TableDefs(flavor)
           /\ NoText \notin RoutineDefs \union InitialRoutines
<1>1. /\ cur \in Schemas /\ There \in [Tables -> TableDefs(flavor) \union {Absent}]
      /\ server[cur].routines \in [Routines -> RoutineDefs \union InitialRoutines \union {Absent}]
      /\ NoText \notin TableDefs(flavor)
  BY TablesAssumption DEF CompleteInv, ServerType, Position, There
<1>2. Absent # NoText /\ \A d : Definition(d) # NoText
  BY DEF Absent, NoText, Definition
<1>3. NoText \notin RoutineDefs \union InitialRoutines
  BY <1>2, RoutinesAssumption
<1> QED BY <1>1, <1>2, <1>3

LEMMA CompleteShowCreateTable ==
    ASSUME CompleteInv, NEW t \in Tables, ShowCreateTable(t)
    PROVE  CompleteInv'
<1>0. Querying(Create(t)) BY DEF ShowCreateTable
<1>1. phase = "query" /\ \A z \in tasks : Group(z) \notin ended
  BY <1>0, TaskNotEnded
<1>2. tasks' = tasks \ {Create(t)} BY DEF ShowCreateTable
<1>3. RoutinesPending'
  <2>1. \A task \in tasks : Group(task) = "routines" => task \in tasks'
    BY <1>2, TaskGroups
  <2> QED BY <1>2, <2>1, RoutinesPendingSame DEF CompleteInv, ShowCreateTable, Others
<1>4. TablesPending'
  <2> SUFFICES ASSUME {"tables"} \cap (failed' \union ended') = {}, Task("tables") \notin tasks',
                      NEW x \in DOMAIN text'
               PROVE  text'[x] # NoText \/ Create(x) \in tasks'
    BY DEF TablesPending
  <2>1. There[t] # Absent /\ text' = [text EXCEPT ![t] = There[t]] /\ UNCHANGED <<failed, ended>>
    BY DEF ShowCreateTable, Others
  <2>2. There[t] # NoText
    BY <1>1, <2>1, ThereType
  <2>3. Task("tables") \notin tasks
    BY <1>2, TaskNames
  <2>4. text[x] # NoText \/ Create(x) \in tasks
    BY <1>1, <2>1, <2>3 DEF CompleteInv, TablesPending
  <2>5. CASE x = t
    BY <2>1, <2>2, <2>5
  <2>6. CASE x # t
    BY <1>2, <2>1, <2>4, <2>6, TaskNames
  <2> QED BY <2>5, <2>6
<1> QED BY <1>1, <1>2, <1>3, <1>4, CompleteQuery DEF ShowCreateTable

LEMMA CompleteQueryRows ==
    ASSUME CompleteInv, NEW q \in PerSchema, QueryRows(q)
    PROVE  CompleteInv'
<1>0. Querying(Task(q)) BY DEF QueryRows
<1>1. phase = "query" /\ \A z \in tasks : Group(z) \notin ended
  BY <1>0, TaskNotEnded
<1>2. tasks' = tasks \ {Task(q)} BY DEF QueryRows
<1>a. Group(Task(q)) = "tables" /\ q # "tables" /\ q # "create"
  BY TaskGroups DEF PerSchema
<1>3. RoutinesPending'
  <2>1. \A task \in tasks : Group(task) = "routines" => task \in tasks'
    BY <1>2, <1>a
  <2> QED BY <1>2, <2>1, RoutinesPendingSame DEF CompleteInv, QueryRows, Others
<1>4. TablesPending'
  <2> SUFFICES ASSUME {"tables"} \cap (failed \union ended) = {}, Task("tables") \notin tasks',
                      NEW x \in DOMAIN text
               PROVE  text[x] # NoText \/ Create(x) \in tasks'
    BY DEF TablesPending, QueryRows, Others
  <2>1. Task("tables") \notin tasks
    BY <1>2, <1>a, TaskNames
  <2>2. text[x] # NoText \/ Create(x) \in tasks
    BY <1>1, <2>1 DEF CompleteInv, TablesPending
  <2> QED BY <1>2, <1>a, <2>2, TaskNames
<1> QED BY <1>1, <1>2, <1>3, <1>4, CompleteQuery DEF QueryRows
\* A goroutine without a query under way is past its listing.
LEMMA GroupIsDone ==
    ASSUME NEW g, GroupDone(g)
    PROVE  /\ phase = "query" /\ g \notin ended
           /\ g = "tables" => Task("tables") \notin tasks /\ (\A t : Create(t) \notin tasks)
                              /\ \A q \in PerSchema : Task(q) \notin tasks
           /\ g = "routines" => {Task("routines"), Task("proc")} \cap tasks = {}
                                /\ \A r : ShowRoutine(r) \notin tasks
<1>1. phase = "query" /\ g \notin ended /\ \A task \in tasks : Group(task) # g
  BY DEF GroupDone
<1>2. \A q \in PerSchema : Group(Task(q)) = "tables"
  BY TaskGroups DEF PerSchema
<1> QED BY <1>1, <1>2, TaskGroups

LEMMA CompleteAssembleTables ==
    ASSUME CompleteInv, AssembleTables
    PROVE  CompleteInv'
<1>1. GroupDone("tables") /\ "tables" \notin failed
  BY DEF AssembleTables
<1>2. /\ phase = "query" /\ "tables" \notin ended /\ Task("tables") \notin tasks
      /\ \A t : Create(t) \notin tasks
      /\ \A task \in tasks : Group(task) # "tables"
  BY <1>1, GroupIsDone DEF GroupDone
<1>3. \A t \in DOMAIN text : text[t] # NoText
  BY <1>1, <1>2 DEF CompleteInv, TablesPending
<1>4. CASE Return("panic") /\ schemas' = NoRows
  <2>1. Position' /\ phase' # "query"
    BY <1>4 DEF CompleteInv, Position, AssembleTables, Return
  <2>2. SchemasComplete'
    BY <1>4, EmptyComplete
  <2> QED BY <2>1, <2>2, CompleteOutside DEF AssembleTables
<1>5. ASSUME NEW shown, NEW built,
             schemas' = Put(schemas, cur,
                            [tables |-> [t \in Listed |->
                                AssembleTable(text[t], shown[t], built[t])],
                             routines |-> NoRows]),
             ended' = ended \union {"tables"}, UNCHANGED <<phase, result>>
      PROVE  CompleteInv'
  <2> DEFINE new == [tables |-> [t \in Listed |-> AssembleTable(text[t], shown[t], built[t])],
                     routines |-> NoRows]
  <2>1. Complete(new)
    <3>1. new.tables = [t \in Listed |-> AssembleTable(text[t], shown[t], built[t])]
          /\ new.routines = NoRows
      OBVIOUS
    <3>2. \A t \in Listed : AssembleTable(text[t], shown[t], built[t]).create = text[t]
      BY DEF AssembleTable
    <3>3. DOMAIN NoRows = {}
      BY DEF NoRows
    <3> QED BY <1>3, <3>1, <3>2, <3>3 DEF Complete, Listed
  <2>2. SchemasComplete'
    <3> SUFFICES ASSUME NEW s \in DOMAIN schemas' PROVE Complete(schemas'[s])
      BY DEF SchemasComplete, Complete
    <3> HIDE DEF new
    <3>1. schemas' = Put(schemas, cur, new)
      BY <1>5 DEF new
    <3>2. (s = cur /\ schemas'[s] = new) \/ (s \in DOMAIN schemas /\ schemas'[s] = schemas[s])
      BY <3>1 DEF Put
    <3> QED BY <2>1, <3>2 DEF CompleteInv, SchemasComplete
  <2>3. Position'
    BY <1>2, <1>5 DEF CompleteInv, Position, AssembleTables
  <2>4. TablesPending'
    BY <1>5 DEF TablesPending
  <2>5. RoutinesPending'
    BY <1>5, RoutinesPendingSame DEF CompleteInv, AssembleTables
  <2>6. ServerType'
    BY ServerSame DEF CompleteInv, AssembleTables
  <2> QED BY <2>2, <2>3, <2>4, <2>5, <2>6 DEF CompleteInv
<1>6. PICK shown, found :
         IF \E t \in Listed : Panics(flavor, found[t], shown[t])
         THEN Return("panic") /\ schemas' = NoRows /\ UNCHANGED <<ended, rows, text>>
         ELSE \E built \in {[t \in Listed |-> Assemble(flavor, found[t], shown[t])]} :
              /\ schemas' = Put(schemas, cur,
                                [tables |-> [t \in Listed |->
                                    AssembleTable(text[t], shown[t], built[t])],
                                 routines |-> NoRows])
              /\ ended' = ended \union {"tables"} /\ rows' = NoRows /\ text' = NoRows
              /\ UNCHANGED <<phase, result>>
  BY DEF AssembleTables
<1>7. CASE \E t \in Listed : Panics(flavor, found[t], shown[t])
  BY <1>4, <1>6, <1>7
<1>8. CASE ~\E t \in Listed : Panics(flavor, found[t], shown[t])
  <2>1. PICK built :
              /\ schemas' = Put(schemas, cur,
                                [tables |-> [t \in Listed |->
                                    AssembleTable(text[t], shown[t], built[t])],
                                 routines |-> NoRows])
              /\ ended' = ended \union {"tables"} /\ UNCHANGED <<phase, result>>
    BY <1>6, <1>8
  <2> QED BY <1>5, <2>1
<1> QED BY <1>7, <1>8

LEMMA CompleteQueryRoutines ==
    ASSUME CompleteInv, QueryRoutines
    PROVE  CompleteInv'
<1>0. Querying(Task("routines")) BY DEF QueryRoutines
<1>1. "routines" \notin ended /\ phase = "query" /\ \A z \in tasks : Group(z) \notin ended
  BY <1>0, TaskNotEnded, TaskGroups
<1> DEFINE have == server[cur].routines
<1>2. /\ routines' = [r \in Present(have) |->
          [attrs |-> have[r].attrs, params |-> "", body |-> "?", create |-> NoText]]
      /\ tasks' = (tasks \ {Task("routines")}) \union
          CASE Present(have) = {} -> {}
            [] Present(have) # {} /\ flavor.dict -> {ShowRoutine(r) : r \in Present(have)}
            [] OTHER -> {Task("proc")}
  BY DEF QueryRoutines
<1> HIDE DEF have
<1>3. \A task \in tasks' : task \in tasks \/ Group(task) = "routines"
  <2> SUFFICES ASSUME NEW task \in tasks', task \notin tasks PROVE Group(task) = "routines"
    OBVIOUS
  <2>1. task = Task("proc") \/ \E r : task = ShowRoutine(r)
    BY <1>2
  <2> QED BY <2>1, TaskGroups
<1>4. \A task \in tasks : Group(task) = "tables" => task \in tasks'
  BY <1>2, TaskGroups
<1>5. TablesPending'
  BY <1>4, TablesPendingSame DEF CompleteInv, QueryRoutines, Others
<1>6. RoutinesPending'
  <2> SUFFICES ASSUME NEW r \in Present(have)
               PROVE  /\ RoutineStruct(routines'[r])
                      /\ {Task("proc"), ShowRoutine(r)} \cap tasks' # {}
    BY <1>2 DEF RoutinesPending, RoutineStruct
  <2>1. Task("proc") \in tasks' \/ ShowRoutine(r) \in tasks'
    BY <1>2
  <2>2. RoutineStruct(routines'[r])
    BY <1>2 DEF RoutineStruct
  <2> QED BY <2>1, <2>2
<1>7. \A task \in tasks' : Group(task) \notin ended
  BY <1>1, <1>3
<1> QED BY <1>1, <1>5, <1>6, <1>7, CompleteQuery DEF QueryRoutines

\* What the two ways to complete a routine make of it.
LEMMA FromProcMakes ==
    ASSUME NEW r, NEW d, RoutineStruct(r)
    PROVE  FromProc(r, d) = [attrs |-> r.attrs, params |-> d.params, body |-> d.body,
                             create |-> [attrs |-> r.attrs, params |-> d.params, body |-> d.body]]
<1> DEFINE known == [r EXCEPT !.params = d.params, !.body = d.body]
<1>1. known = [attrs |-> r.attrs, params |-> d.params, body |-> d.body, create |-> r.create]
  <2>1. r = [attrs |-> r.attrs, params |-> r.params, body |-> r.body, create |-> r.create]
    BY DEF RoutineStruct
  <2>2. /\ known.attrs = r.attrs /\ known.params = d.params
        /\ known.body = d.body /\ known.create = r.create
    BY <2>1
  <2>3. known = [x \in {"attrs", "params", "body", "create"} |-> known[x]]
    BY <2>1
  <2> HIDE DEF known
  <2> QED BY <2>2, <2>3
<1>2. Definition(known) = [attrs |-> r.attrs, params |-> d.params, body |-> d.body]
  BY <1>1 DEF Definition
<1>3. FromProc(r, d) = [known EXCEPT !.create = Definition(known)]
  BY DEF FromProc
<1> HIDE DEF known
<1> QED BY <1>1, <1>2, <1>3

LEMMA ParseMakes ==
    ASSUME NEW r, NEW d, RoutineStruct(r)
    PROVE  parseCreateStatement(r, d) =
             [attrs |-> r.attrs, params |-> d.params,
              body |-> IF r.attrs = d.attrs THEN d.body ELSE r.body, create |-> d]
<1>1. r = [attrs |-> r.attrs, params |-> r.params, body |-> r.body, create |-> r.create]
  BY DEF RoutineStruct
<1>2. parseCreateStatement(r, d) =
        [r EXCEPT !.create = d, !.params = d.params,
                  !.body = IF r.attrs = d.attrs THEN d.body ELSE r.body]
  BY DEF parseCreateStatement
<1> QED BY <1>1, <1>2

LEMMA CompleteQueryProc ==
    ASSUME CompleteInv, NEW answered \in BOOLEAN, QueryProc(answered)
    PROVE  CompleteInv'
<1>0. Querying(Task("proc")) BY DEF QueryProc
<1>1. "routines" \notin ended /\ phase = "query" /\ \A z \in tasks : Group(z) \notin ended
  BY <1>0, TaskNotEnded, TaskGroups
<1>2. PICK have, inProc :
     /\ routines' = [r \in DOMAIN routines |->
                       IF r \in inProc THEN FromProc(routines[r], have[r]) ELSE routines[r]]
     /\ tasks' = (tasks \ {Task("proc")})
                   \union {ShowRoutine(r) : r \in DOMAIN routines \ inProc}
  BY DEF QueryProc
<1>3. \A task \in tasks' : task \in tasks \/ Group(task) = "routines"
  BY <1>2, TaskGroups
<1>4. \A task \in tasks : Group(task) = "tables" => task \in tasks'
  BY <1>2, TaskGroups
<1>5. TablesPending'
  BY <1>4, TablesPendingSame DEF CompleteInv, QueryProc, Others
<1>6. RoutinesPending'
  <2> SUFFICES ASSUME "routines" \notin failed', Task("routines") \notin tasks', NEW r \in DOMAIN routines
               PROVE  /\ RoutineStruct(routines'[r])
                      /\ \/ routines'[r].create # NoText
                         \/ ShowRoutine(r) \in tasks'
    BY <1>2 DEF RoutinesPending, RoutineStruct
  <2>1. "routines" \notin failed /\ Task("routines") \notin tasks
    BY <1>2, TaskNames DEF QueryProc
  <2>2. RoutineStruct(routines[r])
    BY <1>1, <2>1 DEF CompleteInv, RoutinesPending
  <2>3. CASE r \in inProc
    <3>1. routines'[r] = [attrs |-> routines[r].attrs, params |-> have[r].params, body |-> have[r].body,
            create |-> [attrs |-> routines[r].attrs, params |-> have[r].params, body |-> have[r].body]]
      BY <1>2, <2>2, <2>3, FromProcMakes
    <3>2. routines'[r].create # NoText
      BY <3>1 DEF NoText
    <3>3. RoutineStruct(routines'[r])
      BY <3>1 DEF RoutineStruct
    <3> QED BY <3>2, <3>3
  <2>4. CASE r \notin inProc
    BY <1>2, <2>2, <2>4
  <2> QED BY <2>3, <2>4
<1>7. \A task \in tasks' : Group(task) \notin ended
  BY <1>1, <1>3
<1> QED BY <1>1, <1>5, <1>6, <1>7, CompleteQuery DEF QueryProc

LEMMA CompleteShowCreateRoutine ==
    ASSUME CompleteInv, NEW r \in Routines, ShowCreateRoutine(r)
    PROVE  CompleteInv'
<1>0. Querying(ShowRoutine(r)) BY DEF ShowCreateRoutine
<1>1. phase = "query" /\ \A z \in tasks : Group(z) \notin ended
  BY <1>0, TaskNotEnded
<1>2. tasks' = tasks \ {ShowRoutine(r)} BY DEF ShowCreateRoutine
<1>3. TablesPending'
  <2>1. \A task \in tasks : Group(task) = "tables" => task \in tasks'
    BY <1>2, TaskGroups
  <2> QED BY <1>2, <2>1, TablesPendingSame DEF CompleteInv, ShowCreateRoutine, Others
<1>4. RoutinesPending'
  <2> SUFFICES ASSUME "routines" \notin failed', Task("routines") \notin tasks', NEW x \in DOMAIN routines'
               PROVE  /\ RoutineStruct(routines'[x])
                      /\ \/ routines'[x].create # NoText
                         \/ Task("proc") \in tasks' \/ ShowRoutine(x) \in tasks'
    BY DEF RoutinesPending, RoutineStruct
  <2> DEFINE d == server[cur].routines[r]
  <2>1. d # Absent /\ routines' = [routines EXCEPT ![r] = parseCreateStatement(routines[r], d)]
        /\ UNCHANGED failed
    BY DEF ShowCreateRoutine
  <2>2. d # NoText
    BY <1>1, <2>1, ThereType
  <2> HIDE DEF d
  <2>3. Task("routines") \notin tasks
    BY <1>2, TaskNames
  <2>4. /\ RoutineStruct(routines[x])
        /\ routines[x].create # NoText \/ Task("proc") \in tasks \/ ShowRoutine(x) \in tasks
    BY <1>1, <2>1, <2>3 DEF CompleteInv, RoutinesPending
  <2>5. CASE x = r
    <3>1. routines'[x] = parseCreateStatement(routines[x], d)
      BY <2>1, <2>5
    <3>2. routines'[x] = [attrs |-> routines[x].attrs, params |-> d.params,
              body |-> IF routines[x].attrs = d.attrs THEN d.body ELSE routines[x].body, create |-> d]
      BY <3>1, <2>4, ParseMakes
    <3>3. routines'[x].create = d
      BY <3>2
    <3>4. RoutineStruct(routines'[x])
      BY <3>2 DEF RoutineStruct
    <3> QED BY <2>2, <3>3, <3>4
  <2>6. CASE x # r
    <3>1. routines'[x] = routines[x]
      BY <2>1, <2>6
    <3> QED BY <1>2, <2>4, <2>6, <3>1, TaskNames
  <2> QED BY <2>5, <2>6
<1> QED BY <1>1, <1>2, <1>3, <1>4, CompleteQuery DEF ShowCreateRoutine

LEMMA CompleteRoutinesDone ==
    ASSUME CompleteInv, RoutinesDone
    PROVE  CompleteInv'
<1>1. GroupDone("routines") /\ phase = "query" /\ UNCHANGED phase
  BY DEF RoutinesDone, GroupDone
<1>2. Position'
  BY <1>1 DEF CompleteInv, Position, RoutinesDone, GroupDone
<1>3. TablesPending'
  BY TablesPendingSame DEF CompleteInv, RoutinesDone
<1>4. RoutinesPending'
  BY RoutinesPendingSame DEF CompleteInv, RoutinesDone
<1>5. ServerType'
  BY ServerSame DEF CompleteInv, RoutinesDone
<1>6. SchemasComplete'
  BY DEF CompleteInv, SchemasComplete, Complete, RoutinesDone
<1> QED BY <1>2, <1>3, <1>4, <1>5, <1>6 DEF CompleteInv
LEMMA CompleteQueryFails ==
    ASSUME CompleteInv, NEW task \in tasks, QueryFails(task)
    PROVE  CompleteInv'
<1>1. phase = "query" /\ \A z \in tasks : Group(z) \notin ended
  BY TaskNotEnded DEF QueryFails
<1>2. tasks' = tasks \ {task} /\ failed' = failed \union {Group(task)}
      /\ UNCHANGED <<phase, text, routines, ended>>
  BY DEF QueryFails, Others
<1>3. TablesPending'
  <2>1. CASE Group(task) = "tables"
    BY <1>2, <2>1 DEF TablesPending
  <2>2. CASE Group(task) # "tables"
    BY <1>2, <2>2, TablesPendingSame DEF CompleteInv
  <2> QED BY <2>1, <2>2
<1>4. RoutinesPending'
  <2>1. CASE Group(task) = "routines"
    BY <1>2, <2>1 DEF RoutinesPending
  <2>2. CASE Group(task) # "routines"
    BY <1>2, <2>2, RoutinesPendingSame DEF CompleteInv
  <2> QED BY <2>1, <2>2
<1> QED BY <1>1, <1>2, <1>3, <1>4, CompleteQuery DEF QueryFails

LEMMA CompleteGroupFails ==
    ASSUME CompleteInv, NEW g \in Groups, GroupFails(g)
    PROVE  CompleteInv'
<1>1. /\ phase = "query" /\ UNCHANGED phase
      /\ failed' = failed \union {g} /\ ended' = ended \union {g}
      /\ tasks' = {task \in tasks : Group(task) # g}
  BY DEF GroupFails
<1>2. Position'
  BY <1>1 DEF CompleteInv, Position, GroupFails
<1>3. TablesPending'
  <2>1. CASE g = "tables"
    BY <1>1, <2>1 DEF TablesPending
  <2>2. CASE g # "tables"
    BY <1>1, <2>2, TablesPendingSame DEF CompleteInv, GroupFails
  <2> QED BY <2>1, <2>2
<1>4. RoutinesPending'
  <2>1. CASE g = "routines"
    BY <1>1, <2>1 DEF RoutinesPending
  <2>2. CASE g = "tables"
    BY <1>1, <2>2, RoutinesPendingSame DEF CompleteInv, GroupFails
  <2> QED BY <2>1, <2>2 DEF Groups
<1>5. ServerType'
  BY ServerSame DEF CompleteInv, GroupFails
<1>6. SchemasComplete'
  BY DEF CompleteInv, SchemasComplete, Complete, GroupFails
<1> QED BY <1>2, <1>3, <1>4, <1>5, <1>6 DEF CompleteInv

LEMMA CompleteFinishSchema ==
    ASSUME CompleteInv, FinishSchema
    PROVE  CompleteInv'
<1>1. phase = "query" /\ ended = Groups
  BY DEF FinishSchema
<1>2. CASE failed = {}
  <2>1. schemas' = [schemas EXCEPT ![cur].routines = routines] /\ phase' = "next" /\ UNCHANGED result
    BY <1>2 DEF FinishSchema
  <2>2. \A task \in tasks : Group(task) # "routines"
    BY <1>1 DEF CompleteInv, Position, Groups
  <2>3. \A r \in DOMAIN routines : routines[r].create # NoText
    <3>1. Task("routines") \notin tasks /\ Task("proc") \notin tasks /\ \A r : ShowRoutine(r) \notin tasks
      BY <2>2, TaskGroups
    <3> QED BY <1>1, <1>2, <3>1 DEF CompleteInv, RoutinesPending
  <2>4. SchemasComplete'
    <3> SUFFICES ASSUME NEW s \in DOMAIN schemas' PROVE Complete(schemas'[s])
      BY DEF SchemasComplete, Complete
    <3>1. s \in DOMAIN schemas /\ Complete(schemas[s])
      BY <2>1 DEF CompleteInv, SchemasComplete
    <3>2. CASE s = cur
      <4>1. schemas'[s] = [schemas[s] EXCEPT !.routines = routines]
        BY <2>1, <3>1, <3>2
      <4>2. \A a, b, c : [[tables |-> a, routines |-> b] EXCEPT !.routines = c] = [tables |-> a, routines |-> c]
        OBVIOUS
      <4>3. [[tables |-> schemas[s].tables, routines |-> schemas[s].routines] EXCEPT !.routines = routines]
              = [tables |-> schemas[s].tables, routines |-> routines]
        BY <4>2
      <4>4. schemas'[s] = [tables |-> schemas[s].tables, routines |-> routines]
        BY <3>1, <4>1, <4>3 DEF Complete
      <4> QED BY <2>3, <3>1, <4>4 DEF Complete
    <3>3. CASE s # cur
      BY <2>1, <3>1, <3>3
    <3> QED BY <3>2, <3>3
  <2>5. Position' /\ phase' # "query"
    BY <2>1 DEF CompleteInv, Position, FinishSchema
  <2> QED BY <2>4, <2>5, CompleteOutside DEF FinishSchema
<1>3. CASE failed # {}
  <2>1. Return("error") /\ schemas' = NoRows
    BY <1>3 DEF FinishSchema
  <2>2. Position' /\ phase' # "query"
    BY <2>1 DEF CompleteInv, Position, FinishSchema, Return
  <2>3. SchemasComplete'
    BY <2>1, EmptyComplete
  <2> QED BY <2>2, <2>3, CompleteOutside DEF FinishSchema
<1> QED BY <1>2, <1>3

LEMMA CompleteStutter ==
    ASSUME CompleteInv, UNCHANGED vars
    PROVE  CompleteInv'
<1>1. ServerType' BY ServerSame DEF CompleteInv, vars
<1> QED BY <1>1, CompleteDDL DEF vars, Environment

LEMMA CompleteNext ==
    ASSUME CompleteInv, [Next]_vars
    PROVE  CompleteInv'
<1>1. ASSUME NEW s \in Schemas, NEW t \in Tables, NEW d \in TableDefs(flavor) \union {Absent},
             ChangeTable(s, t, d)
      PROVE  CompleteInv'
  <2>1. ServerType' BY <1>1, ServerChangeTable DEF CompleteInv
  <2> QED BY <1>1, <2>1, CompleteDDL DEF ChangeTable
<1>2. ASSUME NEW s \in Schemas, NEW r \in Routines, NEW d \in RoutineDefs \union {Absent},
             ChangeRoutine(s, r, d)
      PROVE  CompleteInv'
  <2>1. ServerType' BY <1>2, ServerChangeRoutine DEF CompleteInv
  <2> QED BY <1>2, <2>1, CompleteDDL DEF ChangeRoutine
<1>3. ASSUME NEW s \in Schemas, DropSchema(s) PROVE CompleteInv'
  <2>1. ServerType' BY <1>3, ServerDropSchema DEF CompleteInv
  <2> QED BY <1>3, <2>1, CompleteDDL DEF DropSchema
<1>4. CASE ListSchemas BY <1>4, CompleteListSchemas
<1>5. CASE NextSchema BY <1>5, CompleteNextSchema
<1>6. CASE CannotConnect BY <1>6, CompleteCannotConnect
<1>7. CASE AllDone BY <1>7, CompleteAllDone
<1>8. CASE QueryTables BY <1>8, CompleteQueryTables
<1>9. CASE AssembleTables BY <1>9, CompleteAssembleTables
<1>10. ASSUME NEW t \in Tables, ShowCreateTable(t) PROVE CompleteInv'
  BY <1>10, CompleteShowCreateTable
<1>11. ASSUME NEW q \in PerSchema, QueryRows(q) PROVE CompleteInv'
  BY <1>11, CompleteQueryRows
<1>12. CASE QueryRoutines BY <1>12, CompleteQueryRoutines
<1>13. CASE QueryProc(TRUE) BY <1>13, CompleteQueryProc
<1>14. CASE QueryProc(FALSE) BY <1>14, CompleteQueryProc
<1>15. CASE RoutinesDone BY <1>15, CompleteRoutinesDone
<1>16. ASSUME NEW r \in Routines, ShowCreateRoutine(r) PROVE CompleteInv'
  BY <1>16, CompleteShowCreateRoutine
<1>17. ASSUME NEW task \in tasks, QueryFails(task) PROVE CompleteInv'
  BY <1>17, CompleteQueryFails
<1>18. ASSUME NEW g \in Groups, GroupFails(g) PROVE CompleteInv'
  BY <1>18, CompleteGroupFails
<1>19. CASE FinishSchema BY <1>19, CompleteFinishSchema
<1>20. CASE UNCHANGED vars BY <1>20, CompleteStutter
<1> QED
  BY <1>1, <1>2, <1>3, <1>4, <1>5, <1>6, <1>7, <1>8, <1>9, <1>10, <1>11, <1>12, <1>13,
     <1>14, <1>15, <1>16, <1>17, <1>18, <1>19, <1>20 DEF Next

\* A query that failed or was cancelled is an error of the whole call: for
\* any number of schemas, tables, routines and faults, a result that
\* Instance.Schemas returns without an error has the statement of every
\* table and routine in it.
THEOREM ResultIsComplete == Spec => []NothingMissing
<1>1. CompleteInv => NothingMissing
  BY DEF CompleteInv, SchemasComplete, Complete, NothingMissing
<1> QED BY <1>1, CompleteInit, CompleteNext, PTL DEF Spec
----------------------------------------------------------------------------
(* What no other client touches comes out exactly.                         *)

LEMMA ExactInit == Init => ExactInv
<1> SUFFICES ASSUME Init PROVE ExactInv
  OBVIOUS
<1>1. phase = "list" /\ result = "none"
  BY DEF Init
<1> QED BY <1>1, CompleteInit
  DEF ExactInv, TablesInHand, RoutinesInHand, TablesAssembled, SchemasExact, Outcome

\* A step of another client, seen from what it does not touch.
Drift ==
    /\ phase # "done" /\ UNCHANGED Environment
    /\ \A s \in Schemas : server'[s].exists => server[s].exists
    /\ \A s \in Schemas, t \in Tables : <<s, t>> \notin changed' =>
         <<s, t>> \notin changed /\ server'[s].tables[t] = server[s].tables[t]
    /\ \A s \in Schemas, r \in Routines : <<s, r>> \notin changed' =>
         <<s, r>> \notin changed /\ server'[s].routines[r] = server[s].routines[r]

\* The objects of a schema that are there.
LEMMA PresentOnes ==
    ASSUME ServerType, NEW s \in Schemas
    PROVE  /\ Present(server[s].tables) = {t \in Tables : server[s].tables[t] # Absent}
           /\ Present(server[s].routines) = {r \in Routines : server[s].routines[r] # Absent}
BY DEF Present, ServerType

LEMMA DriftExact ==
    ASSUME ServerType, ServerType', Drift, NEW s \in Schemas
    PROVE  /\ TablesExact(s) => TablesExact(s)'
           /\ RoutinesExact(s) => RoutinesExact(s)'
<1>1. /\ Present(server[s].tables) = {t \in Tables : server[s].tables[t] # Absent}
      /\ Present(server[s].routines) = {r \in Routines : server[s].routines[r] # Absent}
  BY PresentOnes
<1>2. /\ Present(server'[s].tables) = {t \in Tables : server'[s].tables[t] # Absent}
      /\ Present(server'[s].routines) = {r \in Routines : server'[s].routines[r] # Absent}
  BY DEF Present, ServerType
<1>3. schemas' = schemas /\ flavor' = flavor
  BY DEF Drift, Environment
<1>4. ASSUME TablesExact(s) PROVE TablesExact(s)'
  <2> SUFFICES ASSUME NEW t \in Present(server'[s].tables), <<s, t>> \notin changed'
               PROVE  /\ t \in DOMAIN schemas[s].tables
                      /\ ComesOut(flavor, server'[s].tables[t], schemas[s].tables[t].table,
                                  schemas[s].tables[t].unsupported)
    BY <1>3 DEF TablesExact, Untouched
  <2>1. t \in Tables /\ server'[s].tables[t] # Absent
    BY <1>2
  <2>2. <<s, t>> \notin changed /\ server'[s].tables[t] = server[s].tables[t]
    BY <2>1 DEF Drift
  <2>3. t \in Present(server[s].tables)
    BY <1>1, <2>1, <2>2
  <2> QED BY <1>4, <2>2, <2>3 DEF TablesExact, Untouched
<1>5. ASSUME RoutinesExact(s) PROVE RoutinesExact(s)'
  <2> SUFFICES ASSUME NEW r \in Present(server'[s].routines), <<s, r>> \notin changed'
               PROVE  /\ r \in DOMAIN schemas[s].routines
                      /\ Definition(schemas[s].routines[r]) = server'[s].routines[r]
                      /\ schemas[s].routines[r].create = server'[s].routines[r]
    BY <1>3 DEF RoutinesExact, Untouched, Definition
  <2>1. r \in Routines /\ server'[s].routines[r] # Absent
    BY <1>2
  <2>2. <<s, r>> \notin changed /\ server'[s].routines[r] = server[s].routines[r]
    BY <2>1 DEF Drift
  <2>3. r \in Present(server[s].routines)
    BY <1>1, <2>1, <2>2
  <2> QED BY <1>5, <2>2, <2>3 DEF RoutinesExact, Untouched
<1> QED BY <1>4, <1>5

LEMMA ExactDrift ==
    ASSUME ExactInv, CompleteInv', Drift
    PROVE  ExactInv'
<1>0. /\ CompleteInv /\ ServerType /\ ServerType'
      /\ UNCHANGED <<flavor, todo, cur, phase, tasks, rows, text, routines, failed, ended, schemas, result>>
  BY DEF ExactInv, CompleteInv, Drift, Environment
<1>1. TablesInHand'
  <2> SUFFICES ASSUME phase = "query", {"tables"} \cap (failed \union ended) = {},
                      Task("tables") \notin tasks
               PROVE  /\ "tables" \in DOMAIN rows
                      /\ \A t \in DOMAIN text : t \in Tables /\ (Untouched(cur, t)' => TableInHand(t)')
                      /\ \A t \in Present(There)' : Untouched(cur, t)' => t \in DOMAIN text
    BY <1>0 DEF TablesInHand
  <2>1. cur \in Schemas
    BY <1>0 DEF CompleteInv, Position
  <2>2. /\ "tables" \in DOMAIN rows
        /\ \A t \in DOMAIN text : t \in Tables /\ (Untouched(cur, t) => TableInHand(t))
        /\ \A t \in Present(There) : Untouched(cur, t) => t \in DOMAIN text
    BY DEF ExactInv, TablesInHand
  <2>3. \A t \in Tables : Untouched(cur, t)' => Untouched(cur, t) /\ There'[t] = There[t]
    BY <1>0, <2>1 DEF Drift, Untouched, There
  <2>4. \A t \in Tables : There'[t] = There[t] /\ TableInHand(t) => TableInHand(t)'
    BY <1>0 DEF TableInHand, RowsInHand
  <2>5. Present(There) = {t \in Tables : There[t] # Absent}
        /\ Present(There)' = {t \in Tables : There'[t] # Absent}
    BY <1>0, <2>1, PresentOnes DEF There, Present, ServerType
  <2> QED BY <2>2, <2>3, <2>4, <2>5
<1>2. RoutinesInHand'
  <2> SUFFICES ASSUME phase = "query", "routines" \notin failed, Task("routines") \notin tasks
               PROVE  /\ \A r \in DOMAIN routines : r \in Routines /\ (Untouched(cur, r)' => RoutineInHand(r)')
                      /\ \A r \in Present(server'[cur].routines) : Untouched(cur, r)' => r \in DOMAIN routines
    BY <1>0 DEF RoutinesInHand
  <2>1. cur \in Schemas
    BY <1>0 DEF CompleteInv, Position
  <2>2. /\ \A r \in DOMAIN routines : r \in Routines /\ (Untouched(cur, r) => RoutineInHand(r))
        /\ \A r \in Present(server[cur].routines) : Untouched(cur, r) => r \in DOMAIN routines
    BY DEF ExactInv, RoutinesInHand
  <2>3. \A r \in Routines : Untouched(cur, r)' =>
          Untouched(cur, r) /\ server'[cur].routines[r] = server[cur].routines[r]
    BY <1>0, <2>1 DEF Drift, Untouched
  <2>4. \A r \in Routines : server'[cur].routines[r] = server[cur].routines[r] /\ RoutineInHand(r)
                              => RoutineInHand(r)'
    BY <1>0 DEF RoutineInHand, Definition
  <2>5. Present(server[cur].routines) = {r \in Routines : server[cur].routines[r] # Absent}
        /\ Present(server'[cur].routines) = {r \in Routines : server'[cur].routines[r] # Absent}
    BY <1>0, <2>1, PresentOnes DEF Present, ServerType
  <2> QED BY <2>2, <2>3, <2>4, <2>5
<1>3. TablesAssembled'
  <2> SUFFICES ASSUME phase = "query", "tables" \notin failed, "tables" \in ended
               PROVE  cur \in DOMAIN schemas /\ TablesExact(cur)'
    BY <1>0 DEF TablesAssembled
  <2>1. cur \in Schemas
    BY <1>0 DEF CompleteInv, Position
  <2>2. cur \in DOMAIN schemas /\ TablesExact(cur)
    BY DEF ExactInv, TablesAssembled
  <2>3. PICK s \in Schemas : s = cur
    BY <2>1
  <2>4. TablesExact(s)'
    BY <1>0, <2>2, <2>3, DriftExact
  <2> QED BY <1>0, <2>2, <2>3, <2>4 DEF TablesExact
<1>4. SchemasExact'
  <2> SUFFICES ASSUME phase # "list", result \in {"none", "ok"}, NEW s \in Schemas, server'[s].exists
               PROVE  Accounted(s)'
    BY <1>0 DEF SchemasExact
  <2>1. Accounted(s)
    BY DEF ExactInv, SchemasExact, Drift
  <2>2. /\ TablesExact(s) => TablesExact(s)'
        /\ RoutinesExact(s) => RoutinesExact(s)'
    BY <1>0, DriftExact
  <2> QED BY <1>0, <2>1, <2>2 DEF Accounted
<1>5. Outcome'
  BY <1>0 DEF Outcome, Drift, CompleteInv, Position
<1> QED BY <1>1, <1>2, <1>3, <1>4, <1>5 DEF ExactInv

LEMMA DriftChangeTable ==
    ASSUME CompleteInv, NEW s \in Schemas, NEW t \in Tables, NEW d, ChangeTable(s, t, d)
    PROVE  Drift
<1>1. /\ server' = [server EXCEPT ![s].tables[t] = d] /\ changed' = changed \union {<<s, t>>}
      /\ phase # "done" /\ UNCHANGED Environment
  BY DEF ChangeTable, Running
<1>2. \A z \in Schemas : /\ server[z].tables \in [Tables -> TableDefs(flavor) \union {Absent}]
                         /\ server[z] \in [exists : BOOLEAN, tables : [Tables -> TableDefs(flavor) \union {Absent}],
                              routines : [Routines -> RoutineDefs \union InitialRoutines \union {Absent}]]
  BY DEF CompleteInv, ServerType
<1>3. DOMAIN server = Schemas
  BY DEF CompleteInv, ServerType
<1>4. \A z \in Schemas : /\ server'[z].exists = server[z].exists
                         /\ server'[z].routines = server[z].routines
                         /\ \A x \in Tables : <<z, x>> # <<s, t>> => server'[z].tables[x] = server[z].tables[x]
  BY <1>1, <1>2, <1>3
<1> QED BY <1>1, <1>4 DEF Drift

LEMMA DriftChangeRoutine ==
    ASSUME CompleteInv, NEW s \in Schemas, NEW r \in Routines, NEW d, ChangeRoutine(s, r, d)
    PROVE  Drift
<1>1. /\ server' = [server EXCEPT ![s].routines[r] = d] /\ changed' = changed \union {<<s, r>>}
      /\ phase # "done" /\ UNCHANGED Environment
  BY DEF ChangeRoutine, Running
<1>2. \A z \in Schemas : /\ server[z].routines \in [Routines -> RoutineDefs \union InitialRoutines \union {Absent}]
                         /\ server[z] \in [exists : BOOLEAN, tables : [Tables -> TableDefs(flavor) \union {Absent}],
                              routines : [Routines -> RoutineDefs \union InitialRoutines \union {Absent}]]
  BY DEF CompleteInv, ServerType
<1>3. DOMAIN server = Schemas
  BY DEF CompleteInv, ServerType
<1>4. \A z \in Schemas : /\ server'[z].exists = server[z].exists
                         /\ server'[z].tables = server[z].tables
                         /\ \A x \in Routines : <<z, x>> # <<s, r>> => server'[z].routines[x] = server[z].routines[x]
  BY <1>1, <1>2, <1>3
<1> QED BY <1>1, <1>4 DEF Drift

LEMMA DriftDropSchema ==
    ASSUME CompleteInv, NEW s \in Schemas, DropSchema(s)
    PROVE  Drift
<1>1. /\ server' = [server EXCEPT ![s] = [exists |-> FALSE, tables |-> [t \in Tables |-> Absent],
                                          routines |-> [r \in Routines |-> Absent]]]
      /\ changed' = changed \union ({s} \X (Tables \union Routines))
      /\ phase # "done" /\ UNCHANGED Environment
  BY DEF DropSchema, Running
<1>2. DOMAIN server = Schemas
  BY DEF CompleteInv, ServerType
<1>3. \A z \in Schemas : z # s => server'[z] = server[z]
  BY <1>1, <1>2
<1>4. ~server'[s].exists
  BY <1>1, <1>2
<1>5. \A x \in Tables \union Routines : <<s, x>> \in changed'
  BY <1>1
<1> QED BY <1>1, <1>3, <1>4, <1>5 DEF Drift
\* The steps that leave the tables in hand, or the routines in hand, alone.
LEMMA TablesInHandSame ==
    ASSUME TablesInHand, UNCHANGED <<flavor, server, changed, cur, phase, rows, text>>,
           failed \subseteq failed', ended \subseteq ended',
           \A task \in tasks : Group(task) = "tables" => task \in tasks'
    PROVE  TablesInHand'
<1> SUFFICES ASSUME phase = "query", "tables" \notin failed' \union ended', Task("tables") \notin tasks'
             PROVE  /\ "tables" \in DOMAIN rows
                    /\ \A t \in DOMAIN text : t \in Tables /\ (Untouched(cur, t) => TableInHand(t)')
                    /\ \A t \in Present(There) : Untouched(cur, t) => t \in DOMAIN text
  BY DEF TablesInHand, Untouched, There
<1>1. Group(Task("tables")) = "tables" /\ (\A t : Group(Create(t)) = "tables")
      /\ \A q \in PerSchema : Group(Task(q)) = "tables"
  BY TaskGroups DEF PerSchema
<1>2. {"tables"} \cap (failed \union ended) = {} /\ Task("tables") \notin tasks
  BY <1>1
<1>3. /\ "tables" \in DOMAIN rows
      /\ \A t \in DOMAIN text : t \in Tables /\ (Untouched(cur, t) => TableInHand(t))
      /\ \A t \in Present(There) : Untouched(cur, t) => t \in DOMAIN text
  BY <1>2 DEF TablesInHand
<1>4. \A t : TableInHand(t) => TableInHand(t)'
  BY <1>1 DEF TableInHand, RowsInHand, There
<1> QED BY <1>3, <1>4

LEMMA RoutinesInHandSame ==
    ASSUME RoutinesInHand, UNCHANGED <<server, changed, cur, phase, routines>>,
           failed \subseteq failed',
           \A task \in tasks : Group(task) = "routines" => task \in tasks'
    PROVE  RoutinesInHand'
<1> SUFFICES ASSUME phase = "query", "routines" \notin failed', Task("routines") \notin tasks'
             PROVE  /\ \A r \in DOMAIN routines : r \in Routines /\ (Untouched(cur, r) => RoutineInHand(r)')
                    /\ \A r \in Present(server[cur].routines) : Untouched(cur, r) => r \in DOMAIN routines
  BY DEF RoutinesInHand, Untouched
<1>1. Group(Task("routines")) = "routines" /\ Group(Task("proc")) = "routines"
      /\ \A r : Group(ShowRoutine(r)) = "routines"
  BY TaskGroups
<1>2. "routines" \notin failed /\ Task("routines") \notin tasks
  BY <1>1
<1>3. /\ \A r \in DOMAIN routines : r \in Routines /\ (Untouched(cur, r) => RoutineInHand(r))
      /\ \A r \in Present(server[cur].routines) : Untouched(cur, r) => r \in DOMAIN routines
  BY <1>2 DEF RoutinesInHand
<1>4. \A r : RoutineInHand(r) => RoutineInHand(r)'
  BY <1>1 DEF RoutineInHand, Definition
<1> QED BY <1>3, <1>4

\* The structs Schema that are done stay exact.
LEMMA AccountSame ==
    ASSUME SchemasExact, UNCHANGED <<flavor, server, changed, cur, phase, todo, schemas, result>>
    PROVE  SchemasExact'
BY DEF SchemasExact, Accounted, TablesExact, RoutinesExact, Untouched, Definition

LEMMA AssembledSame ==
    ASSUME TablesAssembled, UNCHANGED <<flavor, server, changed, cur, phase, schemas>>,
           failed \subseteq failed', "tables" \in ended' \ failed' => "tables" \in ended
    PROVE  TablesAssembled'
BY DEF TablesAssembled, TablesExact, Untouched

LEMMA OutcomeSame ==
    ASSUME Outcome, UNCHANGED <<changed, cur, phase, todo, result>>
    PROVE  Outcome'
BY DEF Outcome, Untouched

\* A step of a query: what is left to show.
LEMMA ExactQuery ==
    ASSUME ExactInv, CompleteInv', UNCHANGED Others, failed \subseteq failed',
           TablesInHand', RoutinesInHand'
    PROVE  ExactInv'
<1>1. SchemasExact' BY AccountSame DEF ExactInv, Others
<1>2. TablesAssembled' BY AssembledSame DEF ExactInv, Others
<1>3. Outcome' BY OutcomeSame DEF ExactInv, Others
<1> QED BY <1>1, <1>2, <1>3 DEF ExactInv

\* A step to where no query is under way.
LEMMA ExactOutside ==
    ASSUME CompleteInv', phase' # "query", SchemasExact', Outcome'
    PROVE  ExactInv'
BY DEF ExactInv, TablesInHand, RoutinesInHand, TablesAssembled

LEMMA ExactError ==
    ASSUME CompleteInv', phase' = "done", result' = "error"
    PROVE  ExactInv'
<1>1. SchemasExact' /\ Outcome' BY DEF SchemasExact, Outcome
<1> QED BY <1>1, ExactOutside

LEMMA ExactListSchemas ==
    ASSUME ExactInv, CompleteInv', ListSchemas
    PROVE  ExactInv'
<1>1. SchemasExact'
  BY DEF SchemasExact, Accounted, ListSchemas
<1>2. Outcome'
  BY DEF ExactInv, CompleteInv, Position, Outcome, ListSchemas
<1> QED BY <1>1, <1>2, ExactOutside DEF ListSchemas

LEMMA ExactNextSchema ==
    ASSUME ExactInv, CompleteInv', NextSchema
    PROVE  ExactInv'
<1>1. PICK s \in todo :
         /\ todo' = todo \ {s} /\ cur' = s
         /\ IF server[s].exists
            THEN phase' = "query" /\ tasks' = {Task("tables"), Task("routines")}
                 /\ UNCHANGED <<result, schemas>>
            ELSE Return("error") /\ schemas' = NoRows /\ UNCHANGED tasks
  BY DEF NextSchema
<1>2. CASE server[s].exists
  <2>1. TablesInHand' /\ RoutinesInHand'
    BY <1>1, <1>2 DEF TablesInHand, RoutinesInHand
  <2>2. TablesAssembled'
    BY DEF TablesAssembled, NextSchema
  <2>3. SchemasExact'
    <3>0. /\ phase' = "query" /\ cur' = s /\ todo' = todo \ {s}
          /\ UNCHANGED <<flavor, server, changed, schemas, result>> /\ phase = "next"
      BY <1>1, <1>2 DEF NextSchema
    <3> SUFFICES ASSUME NEW z \in Schemas, server[z].exists, result \in {"none", "ok"}
                 PROVE  Accounted(z)'
      BY <3>0 DEF SchemasExact
    <3>1. Accounted(z)
      BY <3>0 DEF ExactInv, SchemasExact
    <3>2. z \in todo \/ (z \in DOMAIN schemas /\ TablesExact(z) /\ RoutinesExact(z))
      BY <3>0, <3>1 DEF Accounted
    <3>3. (TablesExact(z) => TablesExact(z)') /\ (RoutinesExact(z) => RoutinesExact(z)')
      BY <3>0 DEF TablesExact, RoutinesExact, Untouched, Definition
    <3> QED BY <3>0, <3>2, <3>3 DEF Accounted
  <2>4. Outcome'
    BY <1>1, <1>2 DEF ExactInv, CompleteInv, Position, Outcome, NextSchema
  <2> QED BY <2>1, <2>2, <2>3, <2>4 DEF ExactInv
<1>3. CASE ~server[s].exists
  BY <1>1, <1>3, ExactError DEF Return
<1> QED BY <1>2, <1>3

LEMMA ExactAllDone ==
    ASSUME ExactInv, CompleteInv', AllDone
    PROVE  ExactInv'
<1>0. /\ phase = "next" /\ phase' = "done" /\ result' = "ok" /\ todo = {}
      /\ UNCHANGED <<flavor, server, changed, schemas, todo>>
  BY DEF AllDone, Return
<1>1. SchemasExact'
  <2> SUFFICES ASSUME NEW z \in Schemas, server[z].exists PROVE Accounted(z)'
    BY <1>0 DEF SchemasExact
  <2>1. Accounted(z)
    BY <1>0 DEF ExactInv, SchemasExact, CompleteInv, Position
  <2>2. z \in DOMAIN schemas /\ TablesExact(z) /\ RoutinesExact(z)
    BY <1>0, <2>1 DEF Accounted
  <2>3. TablesExact(z)' /\ RoutinesExact(z)'
    BY <1>0, <2>2 DEF TablesExact, RoutinesExact, Untouched, Definition
  <2> QED BY <1>0, <2>2, <2>3 DEF Accounted
<1>2. Outcome'
  BY <1>0 DEF Outcome
<1> QED BY <1>0, <1>1, <1>2, ExactOutside

\* Another definition of the present tables, and what each query returns.
LEMMA ExactQueryTables ==
    ASSUME ExactInv, CompleteInv', QueryTables
    PROVE  ExactInv'
<1>0. phase = "query" /\ cur \in Schemas
  BY DEF QueryTables, Querying, ExactInv, CompleteInv, Position
<1>a. UNCHANGED <<flavor, server, todo, cur, phase, ended, schemas, result, changed, routines, failed>>
  BY DEF QueryTables, Others
<1>1. PICK row :
       /\ \A t \in Present(There) : row[t] \in queryTables(flavor, There[t])
       /\ DOMAIN row = Present(There)
       /\ rows' = [tables |-> row]
       /\ text' = [t \in Present(There) |-> NoText]
       /\ tasks' = (tasks \ {Task("tables")}) \union
            ({Create(t) : t \in Present(There)}
             \union {Task(q) : q \in {"columns", "indexes", "fks"}}
             \union (IF flavor.checks THEN {Task("checks")} ELSE {})
             \union (IF \E t \in Present(There) : row[t].partitioned
                     THEN {Task("parts")} ELSE {}))
  BY DEF QueryTables
<1>2. Present(There) = {t \in Tables : There[t] # Absent}
  BY <1>0, PresentOnes DEF There, ExactInv, CompleteInv
<1>3. RoutinesInHand'
  <2>1. \A task \in tasks : Group(task) = "routines" => task \in tasks'
    BY <1>1, TaskGroups
  <2> QED BY <1>a, <2>1, RoutinesInHandSame DEF ExactInv
<1>4. TablesInHand'
  <2>0. There' = There /\ flavor' = flavor
    BY <1>a DEF There
  <2>1. rows'.tables = row /\ DOMAIN rows' = {"tables"} /\ DOMAIN text' = Present(There)
    BY <1>1
  <2>2. ASSUME NEW t \in Present(There) PROVE TableInHand(t)'
    <3>1. /\ There[t] # Absent
          /\ t \in DOMAIN row /\ row[t] \in queryTables(flavor, There[t])
          /\ Create(t) \in tasks'
      BY <1>1, <1>2, <2>2
    <3>2. ASSUME NEW q \in PerSchema PROVE RowsInHand(q, t)'
      <4>1. q \notin DOMAIN rows'
        BY <2>1 DEF PerSchema
      <4>2. \/ Task(q) \in tasks'
            \/ (q = "checks" /\ ~flavor.checks) \/ (q = "parts" /\ ~row[t].partitioned)
        <5>1. Present(There) # {}
          BY <2>2
        <5>2. CASE q \in {"columns", "indexes", "fks"}
          BY <1>1, <5>1, <5>2
        <5>3. CASE q = "checks"
          BY <1>1, <5>1, <5>3
        <5>4. CASE q = "parts"
          BY <1>1, <2>2, <5>1, <5>4
        <5> QED BY <3>2, <5>2, <5>3, <5>4 DEF PerSchema
      <4> QED BY <2>0, <2>1, <4>1, <4>2 DEF RowsInHand
    <3> QED BY <2>0, <2>1, <3>1, <3>2 DEF TableInHand
  <2>3. /\ "tables" \in DOMAIN rows'
        /\ \A t \in DOMAIN text' : t \in Tables /\ TableInHand(t)'
        /\ \A t \in Present(There)' : t \in DOMAIN text'
    BY <1>2, <2>0, <2>1, <2>2
  <2> QED BY <2>3 DEF TablesInHand
<1>5. failed \subseteq failed'
  BY <1>a
<1> QED BY <1>3, <1>4, <1>5, ExactQuery DEF QueryTables

LEMMA ExactShowCreateTable ==
    ASSUME ExactInv, CompleteInv', NEW t \in Tables, ShowCreateTable(t)
    PROVE  ExactInv'
<1>0. phase = "query"
  BY DEF ShowCreateTable, Querying
<1>1. /\ tasks' = tasks \ {Create(t)} /\ failed \subseteq failed'
      /\ UNCHANGED <<flavor, server, todo, cur, phase, ended, schemas, result, changed, routines, rows>>
  BY DEF ShowCreateTable, Others
<1>2. RoutinesInHand'
  <2>1. \A task \in tasks : Group(task) = "routines" => task \in tasks'
    BY <1>1, TaskGroups
  <2> QED BY <1>1, <2>1, RoutinesInHandSame DEF ExactInv
<1>3. TablesInHand'
  <2> SUFFICES ASSUME {"tables"} \cap (failed' \union ended') = {}, Task("tables") \notin tasks'
               PROVE  /\ "tables" \in DOMAIN rows'
                      /\ \A x \in DOMAIN text' : x \in Tables /\ (Untouched(cur, x)' => TableInHand(x)')
                      /\ \A x \in Present(There)' : Untouched(cur, x)' => x \in DOMAIN text'
    BY DEF TablesInHand
  <2>0. There' = There
    BY <1>1 DEF There
  <2>1. text' = [text EXCEPT ![t] = There[t]] /\ UNCHANGED failed
    BY DEF ShowCreateTable
  <2>2. Task("tables") \notin tasks /\ {"tables"} \cap (failed \union ended) = {}
    BY <1>1, <2>1, TaskNames
  <2>3. /\ "tables" \in DOMAIN rows
        /\ \A x \in DOMAIN text : x \in Tables /\ (Untouched(cur, x) => TableInHand(x))
        /\ \A x \in Present(There) : Untouched(cur, x) => x \in DOMAIN text
    BY <1>0, <2>2 DEF ExactInv, TablesInHand
  <2>4. \A x \in DOMAIN text : TableInHand(x) => TableInHand(x)'
    <3> SUFFICES ASSUME NEW x \in DOMAIN text, TableInHand(x) PROVE TableInHand(x)'
      OBVIOUS
    <3>1. Create(x) \in tasks' \/ text'[x] = There[x]
      <4>1. CASE x = t BY <2>1, <4>1
      <4>2. CASE x # t BY <1>1, <2>1, <4>2, TaskNames DEF TableInHand
      <4> QED BY <4>1, <4>2
    <3>2. \A q \in PerSchema : Task(q) \in tasks => Task(q) \in tasks'
      BY <1>1, TaskNames DEF PerSchema
    <3>3. \A q \in PerSchema : RowsInHand(q, x)'
      BY <1>1, <2>0, <3>2 DEF TableInHand, RowsInHand
    <3> QED BY <1>1, <2>0, <3>1, <3>3 DEF TableInHand
  <2>5. DOMAIN text' = DOMAIN text
    BY <2>1
  <2> QED BY <1>1, <2>0, <2>3, <2>4, <2>5 DEF Untouched
<1> QED BY <1>1, <1>2, <1>3, ExactQuery DEF ShowCreateTable

LEMMA ExactQueryRows ==
    ASSUME ExactInv, CompleteInv', NEW q \in PerSchema, QueryRows(q)
    PROVE  ExactInv'
<1>0. phase = "query" /\ cur \in Schemas
  BY DEF QueryRows, Querying, ExactInv, CompleteInv, Position
<1>1. /\ tasks' = tasks \ {Task(q)}
      /\ UNCHANGED <<flavor, server, todo, cur, phase, ended, schemas, result, changed, routines, text, failed>>
  BY DEF QueryRows, Others
<1>2. PICK found :
        /\ DOMAIN found = Present(There)
        /\ \A t \in Present(There) : found[t] \in RowsOf(flavor, q, There[t])
        /\ rows' = Put(rows, q, found)
  BY DEF QueryRows
<1>3. Group(Task(q)) = "tables" /\ q # "tables" /\ q # "create"
  BY TaskGroups DEF PerSchema
<1>4. RoutinesInHand'
  <2>1. \A task \in tasks : Group(task) = "routines" => task \in tasks'
    BY <1>1, <1>3
  <2> QED BY <1>1, <2>1, RoutinesInHandSame DEF ExactInv
<1>5. TablesInHand'
  <2> SUFFICES ASSUME {"tables"} \cap (failed' \union ended') = {}, Task("tables") \notin tasks'
               PROVE  /\ "tables" \in DOMAIN rows'
                      /\ \A x \in DOMAIN text' : x \in Tables /\ (Untouched(cur, x)' => TableInHand(x)')
                      /\ \A x \in Present(There)' : Untouched(cur, x)' => x \in DOMAIN text'
    BY DEF TablesInHand
  <2>0. There' = There
    BY <1>1 DEF There
  <2>1. Task("tables") \notin tasks /\ {"tables"} \cap (failed \union ended) = {}
    BY <1>1, <1>3, TaskNames
  <2>2. /\ "tables" \in DOMAIN rows
        /\ \A x \in DOMAIN text : x \in Tables /\ (Untouched(cur, x) => TableInHand(x))
        /\ \A x \in Present(There) : Untouched(cur, x) => x \in DOMAIN text
    BY <1>0, <2>1 DEF ExactInv, TablesInHand
  <2>3. /\ DOMAIN rows' = DOMAIN rows \union {q} /\ rows'[q] = found
        /\ \A p \in DOMAIN rows : p # q => rows'[p] = rows[p]
    BY <1>2 DEF Put
  <2>4. rows'.tables = rows.tables
    BY <1>3, <2>2, <2>3
  <2>5. \A x \in Tables : TableInHand(x) => TableInHand(x)'
    <3> SUFFICES ASSUME NEW x \in Tables, TableInHand(x) PROVE TableInHand(x)'
      OBVIOUS
    <3>1. Create(x) \in tasks' \/ text'[x] = There[x]
      BY <1>1, <1>3, TaskNames DEF TableInHand
    <3>2. x \in Present(There)
      BY <1>0, PresentOnes DEF TableInHand, There, ExactInv, CompleteInv
    <3>3. ASSUME NEW p \in PerSchema PROVE RowsInHand(p, x)'
      <4>1. RowsInHand(p, x)
        BY DEF TableInHand
      <4>2. CASE p = q
        <5>1. p \in DOMAIN rows' /\ x \in DOMAIN rows'[p] /\ rows'[p][x] \in RowsOf(flavor, p, There[x])
          BY <1>2, <2>3, <3>2, <4>2
        <5> QED BY <1>1, <2>0, <5>1 DEF RowsInHand
      <4>3. CASE p # q
        <5>1. Task(p) \in tasks => Task(p) \in tasks'
          BY <1>1, <4>3, TaskNames
        <5>2. (p \in DOMAIN rows' <=> p \in DOMAIN rows) /\ (p \in DOMAIN rows => rows'[p] = rows[p])
          BY <2>3, <4>3
        <5> QED BY <1>1, <2>0, <2>4, <4>1, <5>1, <5>2 DEF RowsInHand
      <4> QED BY <4>2, <4>3
    <3> QED BY <1>1, <2>0, <2>4, <3>1, <3>3 DEF TableInHand
  <2>6. \A x \in DOMAIN text' : x \in Tables /\ (Untouched(cur, x)' => TableInHand(x)')
    BY <1>1, <2>2, <2>5 DEF Untouched
  <2>7. "tables" \in DOMAIN rows'
    BY <2>2, <2>3
  <2> QED BY <1>1, <2>0, <2>2, <2>6, <2>7 DEF Untouched
<1>6. failed \subseteq failed'
  BY <1>1
<1> QED BY <1>4, <1>5, <1>6, ExactQuery DEF QueryRows
\* The fields that the queries leave for an untouched table are those that
\* ReadsBack is about.
LEMMA RowsForUntouched ==
    ASSUME NEW t, TableInHand(t), \A q \in PerSchema : Task(q) \notin tasks,
           ReadsBack(flavor, There[t])
    PROVE  LET shown == GeneratedCreateStatement(There[t]) IN
           /\ ~Panics(flavor, RowsFor(t), shown)
           /\ ComesOut(flavor, There[t], Assemble(flavor, RowsFor(t), shown),
                       UnsupportedDDL(Assemble(flavor, RowsFor(t), shown), shown))
<1> DEFINE d == There[t]
           row == rows.tables[t]
           ix == Found("indexes", t)
           part == Found("parts", t)
           checks == Found("checks", t)
<1>1. row \in queryTables(flavor, d)
  BY DEF TableInHand
<1>2. \A q \in PerSchema :
        \/ q \in DOMAIN rows /\ t \in DOMAIN rows[q] /\ rows[q][t] \in RowsOf(flavor, q, d)
        \/ /\ q \notin DOMAIN rows
           /\ (q = "checks" /\ ~flavor.checks) \/ (q = "parts" /\ ~row.partitioned)
  BY DEF TableInHand, RowsInHand
<1>3. Found("columns", t) = queryColumns(flavor, d)
  <2>1. Found("columns", t) \in RowsOf(flavor, "columns", d)
    BY <1>2 DEF PerSchema, Found
  <2> QED BY <2>1 DEF RowsOf
<1>4. ix \in queryIndexes(flavor, d)
  <2>1. ix \in RowsOf(flavor, "indexes", d)
    BY <1>2 DEF PerSchema, Found
  <2> QED BY <2>1 DEF RowsOf
<1>5. Found("fks", t) = queryForeignKeys(d)
  <2>1. Found("fks", t) \in RowsOf(flavor, "fks", d)
    BY <1>2 DEF PerSchema, Found
  <2> QED BY <2>1 DEF RowsOf
<1>6. checks \in {queryChecks(flavor, d)} \union (IF flavor.checks THEN {} ELSE {Nothing("checks")})
  <2>1. checks \in RowsOf(flavor, "checks", d) \/ (checks = Nothing("checks") /\ ~flavor.checks)
    BY <1>2 DEF PerSchema, Found
  <2> QED BY <2>1 DEF RowsOf
<1>7. part \in {queryPartitions(d)} \union (IF row.partitioned THEN {} ELSE {Nothing("parts")})
  <2>1. part \in RowsOf(flavor, "parts", d) \/ (part = Nothing("parts") /\ ~row.partitioned)
    BY <1>2 DEF PerSchema, Found
  <2> QED BY <2>1 DEF RowsOf
<1>8. RowsFor(t) = [coll |-> row.coll, opts |-> row.opts, cols |-> queryColumns(flavor, d),
                    pk |-> ix.pk, idx |-> ix.idx, fks |-> queryForeignKeys(d),
                    checks |-> checks, part |-> part]
  BY <1>3, <1>5 DEF RowsFor
<1> HIDE DEF d, row, ix, part, checks
<1>9. ReadsBack(flavor, d)
  BY DEF d
<1>10. LET shown == GeneratedCreateStatement(d) IN
           /\ ~Panics(flavor, RowsFor(t), shown)
           /\ ComesOut(flavor, d, Assemble(flavor, RowsFor(t), shown),
                       UnsupportedDDL(Assemble(flavor, RowsFor(t), shown), shown))
  BY <1>1, <1>4, <1>6, <1>7, <1>8, <1>9 DEF ReadsBack
<1> QED BY <1>10 DEF d
LEMMA ExactAssembleTables ==
    ASSUME ExactInv, CompleteInv', AssembleTables,
           \A fl \in Flavors : \A d \in TableDefs(fl) : ReadsBack(fl, d)
    PROVE  ExactInv'
<1>1. GroupDone("tables") /\ "tables" \notin failed
  BY DEF AssembleTables
<1>2. /\ phase = "query" /\ "tables" \notin ended /\ Task("tables") \notin tasks
      /\ (\A t : Create(t) \notin tasks) /\ (\A q \in PerSchema : Task(q) \notin tasks)
  BY <1>1, GroupIsDone
<1>3. /\ \A t \in DOMAIN text : t \in Tables /\ (Untouched(cur, t) => TableInHand(t))
      /\ \A t \in Present(There) : Untouched(cur, t) => t \in DOMAIN text
  BY <1>1, <1>2 DEF ExactInv, TablesInHand
<1>4. /\ cur \in Schemas /\ flavor \in Flavors
      /\ There \in [Tables -> TableDefs(flavor) \union {Absent}]
  BY <1>2, ThereType DEF ExactInv, CompleteInv, ServerType
<1>5. ASSUME NEW t \in Listed, Untouched(cur, t)
      PROVE  /\ text[t] = There[t]
             /\ ~Panics(flavor, RowsFor(t), GeneratedCreateStatement(There[t]))
             /\ \A built : built = Assemble(flavor, RowsFor(t), GeneratedCreateStatement(There[t])) =>
                  ComesOut(flavor, There[t], built,
                           UnsupportedDDL(built, GeneratedCreateStatement(There[t])))
  <2>1. TableInHand(t) /\ t \in Tables
    BY <1>3, <1>5 DEF Listed
  <2>2. text[t] = There[t] /\ There[t] \in TableDefs(flavor)
    BY <1>2, <1>4, <2>1 DEF TableInHand
  <2>3. ReadsBack(flavor, There[t])
    BY <1>4, <2>2
  <2> QED BY <1>2, <2>1, <2>2, <2>3, RowsForUntouched
<1>6. PICK shown, found :
         /\ shown = [t \in Listed |-> GeneratedCreateStatement(text[t])]
         /\ found = [t \in Listed |-> RowsFor(t)]
         /\ IF \E t \in Listed : Panics(flavor, found[t], shown[t])
            THEN Return("panic") /\ schemas' = NoRows /\ UNCHANGED <<ended, rows, text>>
            ELSE \E built \in {[t \in Listed |-> Assemble(flavor, found[t], shown[t])]} :
              /\ schemas' = Put(schemas, cur,
                                [tables |-> [t \in Listed |->
                                    AssembleTable(text[t], shown[t], built[t])],
                                 routines |-> NoRows])
              /\ ended' = ended \union {"tables"} /\ rows' = NoRows /\ text' = NoRows
              /\ UNCHANGED <<phase, result>>
  BY DEF AssembleTables
<1>7. \A t \in Listed : Untouched(cur, t) =>
        /\ shown[t] = GeneratedCreateStatement(There[t]) /\ found[t] = RowsFor(t)
        /\ text[t] = There[t]
  BY <1>5, <1>6
<1>8. CASE \E t \in Listed : Panics(flavor, found[t], shown[t])
  <2>1. PICK t \in Listed : Panics(flavor, found[t], shown[t])
    BY <1>8
  <2>2. ~Untouched(cur, t) /\ t \in Tables
    BY <1>3, <1>5, <1>7, <2>1 DEF Listed
  <2>3. result' = "panic" /\ phase' = "done" /\ UNCHANGED <<cur, changed>>
    BY <1>6, <1>8 DEF Return, AssembleTables
  <2>4. SchemasExact' /\ Outcome'
    BY <2>2, <2>3 DEF SchemasExact, Outcome, Untouched
  <2> QED BY <2>3, <2>4, ExactOutside
<1>9. CASE ~\E t \in Listed : Panics(flavor, found[t], shown[t])
  <2>0. UNCHANGED <<flavor, server, todo, cur, tasks, routines, failed, changed, ddl, faults>>
    BY DEF AssembleTables
  <2>1. PICK built :
              /\ built = [t \in Listed |-> Assemble(flavor, found[t], shown[t])]
              /\ schemas' = Put(schemas, cur,
                                [tables |-> [t \in Listed |->
                                    AssembleTable(text[t], shown[t], built[t])],
                                 routines |-> NoRows])
              /\ ended' = ended \union {"tables"} /\ UNCHANGED <<phase, result>>
    BY <1>6, <1>9
  <2>2. /\ cur \in DOMAIN schemas'
        /\ schemas'[cur].tables = [t \in Listed |-> AssembleTable(text[t], shown[t], built[t])]
        /\ \A s \in DOMAIN schemas : s # cur => s \in DOMAIN schemas' /\ schemas'[s] = schemas[s]
    BY <2>1 DEF Put
  <2>3. TablesExact(cur)'
    <3> SUFFICES ASSUME NEW t \in Present(There), Untouched(cur, t)
                 PROVE  /\ t \in DOMAIN schemas'[cur].tables
                        /\ ComesOut(flavor, There[t], schemas'[cur].tables[t].table,
                                    schemas'[cur].tables[t].unsupported)
      BY <2>0 DEF TablesExact, Untouched, There
    <3>1. t \in Listed
      BY <1>3 DEF Listed
    <3>2. ComesOut(flavor, There[t], built[t], UnsupportedDDL(built[t], shown[t]))
      BY <1>5, <1>7, <2>1, <3>1
    <3>3. schemas'[cur].tables[t] = AssembleTable(text[t], shown[t], built[t])
      BY <2>2, <3>1
    <3> QED BY <2>2, <3>1, <3>2, <3>3 DEF AssembleTable
  <2>4. TablesAssembled'
    BY <2>0, <2>2, <2>3 DEF TablesAssembled
  <2>5. TablesInHand'
    BY <2>1 DEF TablesInHand
  <2>6. RoutinesInHand'
    BY <2>0, <2>1, RoutinesInHandSame DEF ExactInv
  <2>7. SchemasExact'
    <3> SUFFICES ASSUME NEW s \in Schemas, server[s].exists, result \in {"none", "ok"}, s # cur
                 PROVE  Accounted(s)'
      BY <1>2, <2>0, <2>1 DEF SchemasExact, Accounted
    <3>1. Accounted(s)
      BY <1>2 DEF ExactInv, SchemasExact
    <3>2. s \in todo \/ (s \in DOMAIN schemas /\ TablesExact(s) /\ RoutinesExact(s))
      BY <3>1 DEF Accounted
    <3>3. ASSUME s \in DOMAIN schemas, TablesExact(s), RoutinesExact(s)
          PROVE  s \in DOMAIN schemas' /\ TablesExact(s)' /\ RoutinesExact(s)'
      <4>1. s \in DOMAIN schemas' /\ schemas'[s] = schemas[s]
        BY <2>2, <3>3
      <4> QED BY <2>0, <3>3, <4>1 DEF TablesExact, RoutinesExact, Untouched, Definition
    <3> QED BY <2>0, <3>2, <3>3 DEF Accounted
  <2>8. Outcome'
    BY <2>0, <2>1, OutcomeSame DEF ExactInv
  <2> QED BY <2>4, <2>5, <2>6, <2>7, <2>8 DEF ExactInv
<1> QED BY <1>8, <1>9

LEMMA ExactQueryRoutines ==
    ASSUME ExactInv, CompleteInv', QueryRoutines
    PROVE  ExactInv'
<1>0. phase = "query" /\ cur \in Schemas
  BY DEF QueryRoutines, Querying, ExactInv, CompleteInv, Position
<1>a. UNCHANGED <<flavor, server, todo, cur, phase, ended, schemas, result, changed, rows, text, failed>>
  BY DEF QueryRoutines, Others
<1> DEFINE have == server[cur].routines
<1>1. /\ routines' = [r \in Present(have) |->
          [attrs |-> have[r].attrs, params |-> "", body |-> "?", create |-> NoText]]
      /\ tasks' = (tasks \ {Task("routines")}) \union
          CASE Present(have) = {} -> {}
            [] Present(have) # {} /\ flavor.dict -> {ShowRoutine(r) : r \in Present(have)}
            [] OTHER -> {Task("proc")}
  BY DEF QueryRoutines
<1>2. Present(have) = {r \in Routines : have[r] # Absent}
  BY <1>0, PresentOnes DEF ExactInv, CompleteInv
<1>3. TablesInHand'
  <2>1. \A task \in tasks : Group(task) = "tables" => task \in tasks'
    BY <1>1, TaskGroups
  <2> QED BY <1>a, <2>1, TablesInHandSame DEF ExactInv
<1>4. RoutinesInHand'
  <2>0. have' = have
    BY <1>a
  <2>1. DOMAIN routines' = Present(have)
    BY <1>1
  <2>2. ASSUME NEW r \in Present(have) PROVE r \in Routines /\ RoutineInHand(r)'
    <3>1. r \in Routines /\ have[r] # Absent
      BY <1>2, <2>2
    <3>2. routines'[r].attrs = have[r].attrs
      BY <1>1, <2>2
    <3>3. Task("proc") \in tasks' \/ ShowRoutine(r) \in tasks'
      BY <1>1, <2>2
    <3> QED BY <2>0, <3>1, <3>2, <3>3 DEF RoutineInHand
  <2> QED BY <2>0, <2>1, <2>2 DEF RoutinesInHand
<1>5. failed \subseteq failed'
  BY <1>a
<1> QED BY <1>3, <1>4, <1>5, ExactQuery DEF QueryRoutines

\* A routine is the record of what it was created with.
LEMMA RoutineRecords ==
    ASSUME NEW d \in RoutineDefs \union InitialRoutines, d # Absent
    PROVE  d = [attrs |-> d.attrs, params |-> d.params, body |-> d.body]
BY RoutinesAssumption DEF Definition

LEMMA ExactQueryProc ==
    ASSUME ExactInv, CompleteInv', NEW answered \in BOOLEAN, QueryProc(answered)
    PROVE  ExactInv'
<1>0. phase = "query" /\ cur \in Schemas
  BY DEF QueryProc, Querying, ExactInv, CompleteInv, Position
<1>a. UNCHANGED <<flavor, server, todo, cur, phase, ended, schemas, result, changed, rows, text, failed>>
  BY DEF QueryProc, Others
<1> DEFINE have == server[cur].routines
<1>1. PICK inProc :
     /\ inProc \subseteq Present(have)
     /\ routines' = [r \in DOMAIN routines |->
                       IF r \in inProc THEN FromProc(routines[r], have[r]) ELSE routines[r]]
     /\ tasks' = (tasks \ {Task("proc")})
                   \union {ShowRoutine(r) : r \in DOMAIN routines \ inProc}
  BY DEF QueryProc
<1>2. /\ Present(have) = {r \in Routines : have[r] # Absent}
      /\ have \in [Routines -> RoutineDefs \union InitialRoutines \union {Absent}]
  BY <1>0, PresentOnes, ThereType DEF ExactInv, CompleteInv
<1>3. TablesInHand'
  <2>1. \A task \in tasks : Group(task) = "tables" => task \in tasks'
    BY <1>1, TaskGroups
  <2> QED BY <1>a, <2>1, TablesInHandSame DEF ExactInv
<1>4. RoutinesInHand'
  <2> SUFFICES ASSUME "routines" \notin failed, Task("routines") \notin tasks'
               PROVE  /\ \A r \in DOMAIN routines' : r \in Routines /\ (Untouched(cur, r) => RoutineInHand(r)')
                      /\ \A r \in Present(have) : Untouched(cur, r) => r \in DOMAIN routines'
    BY <1>a DEF RoutinesInHand, Untouched
  <2>0. have' = have /\ DOMAIN routines' = DOMAIN routines
    BY <1>a, <1>1
  <2>1. Task("routines") \notin tasks
    BY <1>1, TaskNames
  <2>2. /\ \A r \in DOMAIN routines : r \in Routines /\ (Untouched(cur, r) => RoutineInHand(r))
        /\ \A r \in Present(have) : Untouched(cur, r) => r \in DOMAIN routines
    BY <1>0, <2>1 DEF ExactInv, RoutinesInHand
  <2>3. \A r \in DOMAIN routines : RoutineStruct(routines[r])
    BY <1>0, <2>1 DEF ExactInv, CompleteInv, RoutinesPending
  <2>4. ASSUME NEW r \in DOMAIN routines, Untouched(cur, r) PROVE RoutineInHand(r)'
    <3>1. have[r] # Absent /\ routines[r].attrs = have[r].attrs /\ r \in Routines
      BY <2>2, <2>4 DEF RoutineInHand
    <3>2. CASE r \in inProc
      <4>1. routines'[r] = [attrs |-> routines[r].attrs, params |-> have[r].params, body |-> have[r].body,
              create |-> [attrs |-> routines[r].attrs, params |-> have[r].params, body |-> have[r].body]]
        BY <1>1, <2>3, <2>4, <3>2, FromProcMakes
      <4>2. have[r] = [attrs |-> have[r].attrs, params |-> have[r].params, body |-> have[r].body]
        BY <1>2, <3>1, RoutineRecords
      <4>3. /\ routines'[r].attrs = have[r].attrs /\ routines'[r].params = have[r].params
            /\ routines'[r].body = have[r].body /\ routines'[r].create = have[r]
        <5>1. [attrs |-> routines[r].attrs, params |-> have[r].params, body |-> have[r].body] = have[r]
          BY <3>1, <4>2
        <5> QED BY <3>1, <4>1, <5>1
      <4>4. Definition(routines'[r]) = have[r]
        BY <4>2, <4>3 DEF Definition
      <4> HIDE DEF have
      <4>5. have'[r] = have[r]
        BY <2>0
      <4> QED BY <3>1, <4>3, <4>4, <4>5 DEF RoutineInHand, Definition, have
    <3>3. CASE r \notin inProc
      <4>1. routines'[r] = routines[r] /\ ShowRoutine(r) \in tasks'
        BY <1>1, <2>4, <3>3
      <4> QED BY <2>0, <3>1, <4>1 DEF RoutineInHand
    <3> QED BY <3>2, <3>3
  <2> QED BY <2>0, <2>2, <2>4
<1>5. failed \subseteq failed'
  BY <1>a
<1> QED BY <1>3, <1>4, <1>5, ExactQuery DEF QueryProc

LEMMA ExactShowCreateRoutine ==
    ASSUME ExactInv, CompleteInv', NEW r \in Routines, ShowCreateRoutine(r)
    PROVE  ExactInv'
<1>0. phase = "query" /\ cur \in Schemas
  BY DEF ShowCreateRoutine, Querying, ExactInv, CompleteInv, Position
<1>a. /\ UNCHANGED <<flavor, server, todo, cur, phase, ended, schemas, result, changed, rows, text>>
      /\ tasks' = tasks \ {ShowRoutine(r)} /\ failed \subseteq failed'
  BY DEF ShowCreateRoutine, Others
<1> DEFINE have == server[cur].routines
<1>2. have \in [Routines -> RoutineDefs \union InitialRoutines \union {Absent}]
  BY <1>0, ThereType DEF ExactInv
<1>3. TablesInHand'
  <2>1. \A task \in tasks : Group(task) = "tables" => task \in tasks'
    BY <1>a, TaskGroups
  <2> QED BY <1>a, <2>1, TablesInHandSame DEF ExactInv
<1>4. RoutinesInHand'
  <2> SUFFICES ASSUME "routines" \notin failed', Task("routines") \notin tasks'
               PROVE  /\ \A x \in DOMAIN routines' : x \in Routines /\ (Untouched(cur, x) => RoutineInHand(x)')
                      /\ \A x \in Present(have) : Untouched(cur, x) => x \in DOMAIN routines'
    BY <1>a DEF RoutinesInHand, Untouched
  <2>0. /\ have[r] # Absent /\ UNCHANGED failed
        /\ routines' = [routines EXCEPT ![r] = parseCreateStatement(routines[r], have[r])]
    BY DEF ShowCreateRoutine
  <2>1. Task("routines") \notin tasks /\ have' = have /\ DOMAIN routines' = DOMAIN routines
    BY <1>a, <2>0, TaskNames
  <2>2. /\ \A x \in DOMAIN routines : x \in Routines /\ (Untouched(cur, x) => RoutineInHand(x))
        /\ \A x \in Present(have) : Untouched(cur, x) => x \in DOMAIN routines
    BY <1>0, <2>0, <2>1 DEF ExactInv, RoutinesInHand
  <2>3. \A x \in DOMAIN routines : RoutineStruct(routines[x])
    BY <1>0, <2>0, <2>1 DEF ExactInv, CompleteInv, RoutinesPending
  <2>4. ASSUME NEW x \in DOMAIN routines, Untouched(cur, x) PROVE RoutineInHand(x)'
    <3>1. /\ have[x] # Absent /\ routines[x].attrs = have[x].attrs /\ x \in Routines
          /\ \/ Task("proc") \in tasks \/ ShowRoutine(x) \in tasks
             \/ Definition(routines[x]) = have[x] /\ routines[x].create = have[x]
      BY <2>2, <2>4 DEF RoutineInHand
    <3>2. CASE x = r
      <4>1. routines'[x] = [attrs |-> routines[x].attrs, params |-> have[x].params,
              body |-> IF routines[x].attrs = have[x].attrs THEN have[x].body ELSE routines[x].body,
              create |-> have[x]]
        BY <2>0, <2>3, <2>4, <3>2, ParseMakes
      <4>2. have[x] = [attrs |-> have[x].attrs, params |-> have[x].params, body |-> have[x].body]
        BY <1>2, <3>1, RoutineRecords
      <4>3. /\ routines'[x].attrs = have[x].attrs /\ routines'[x].params = have[x].params
            /\ routines'[x].body = have[x].body /\ routines'[x].create = have[x]
        BY <3>1, <4>1
      <4>4. Definition(routines'[x]) = have[x]
        BY <4>2, <4>3 DEF Definition
      <4> HIDE DEF have
      <4>5. have'[x] = have[x]
        BY <2>1
      <4> QED BY <3>1, <4>3, <4>4, <4>5 DEF RoutineInHand, Definition, have
    <3>3. CASE x # r
      <4>1. routines'[x] = routines[x]
        BY <2>0, <2>4, <3>3
      <4>2. /\ Task("proc") \in tasks => Task("proc") \in tasks'
            /\ ShowRoutine(x) \in tasks => ShowRoutine(x) \in tasks'
        BY <1>a, <3>3, TaskNames
      <4> QED BY <2>1, <3>1, <4>1, <4>2 DEF RoutineInHand, Definition
    <3> QED BY <3>2, <3>3
  <2> QED BY <2>1, <2>2, <2>4
<1> QED BY <1>a, <1>3, <1>4, ExactQuery DEF ShowCreateRoutine
LEMMA ExactRoutinesDone ==
    ASSUME ExactInv, CompleteInv', RoutinesDone
    PROVE  ExactInv'
<1>1. /\ ended' = ended \union {"routines"}
      /\ UNCHANGED <<flavor, server, todo, cur, phase, tasks, rows, text, routines,
                     failed, schemas, result, changed>>
  BY DEF RoutinesDone
<1>2. TablesInHand' BY <1>1, TablesInHandSame DEF ExactInv
<1>3. RoutinesInHand' BY <1>1, RoutinesInHandSame DEF ExactInv
<1>4. TablesAssembled' BY <1>1, AssembledSame DEF ExactInv
<1>5. SchemasExact' BY <1>1, AccountSame DEF ExactInv
<1>6. Outcome' BY <1>1, OutcomeSame DEF ExactInv
<1> QED BY <1>2, <1>3, <1>4, <1>5, <1>6 DEF ExactInv

LEMMA ExactQueryFails ==
    ASSUME ExactInv, CompleteInv', NEW task \in tasks, QueryFails(task)
    PROVE  ExactInv'
<1>1. /\ tasks' = tasks \ {task} /\ failed' = failed \union {Group(task)}
      /\ UNCHANGED <<flavor, server, todo, cur, phase, ended, schemas, result, changed,
                     rows, text, routines>>
  BY DEF QueryFails, Others
<1>2. TablesInHand'
  <2>1. CASE Group(task) = "tables"
    BY <1>1, <2>1 DEF TablesInHand
  <2>2. CASE Group(task) # "tables"
    BY <1>1, <2>2, TablesInHandSame DEF ExactInv
  <2> QED BY <2>1, <2>2
<1>3. RoutinesInHand'
  <2>1. CASE Group(task) = "routines"
    BY <1>1, <2>1 DEF RoutinesInHand
  <2>2. CASE Group(task) # "routines"
    BY <1>1, <2>2, RoutinesInHandSame DEF ExactInv
  <2> QED BY <2>1, <2>2
<1> QED BY <1>1, <1>2, <1>3, ExactQuery DEF QueryFails

LEMMA ExactGroupFails ==
    ASSUME ExactInv, CompleteInv', NEW g \in Groups, GroupFails(g)
    PROVE  ExactInv'
<1>1. /\ failed' = failed \union {g} /\ ended' = ended \union {g}
      /\ tasks' = {task \in tasks : Group(task) # g}
      /\ UNCHANGED <<flavor, server, todo, cur, phase, schemas, result, changed>>
  BY DEF GroupFails
<1>2. TablesInHand'
  <2>1. CASE g = "tables"
    BY <1>1, <2>1 DEF TablesInHand
  <2>2. CASE g # "tables"
    BY <1>1, <2>2, TablesInHandSame DEF ExactInv, GroupFails
  <2> QED BY <2>1, <2>2
<1>3. RoutinesInHand'
  <2>1. CASE g = "routines"
    BY <1>1, <2>1 DEF RoutinesInHand
  <2>2. CASE g = "tables"
    BY <1>1, <2>2, RoutinesInHandSame DEF ExactInv, GroupFails
  <2> QED BY <2>1, <2>2 DEF Groups
<1>4. TablesAssembled' BY <1>1, AssembledSame DEF ExactInv
<1>5. SchemasExact' BY <1>1, AccountSame DEF ExactInv
<1>6. Outcome' BY <1>1, OutcomeSame DEF ExactInv
<1> QED BY <1>2, <1>3, <1>4, <1>5, <1>6 DEF ExactInv

LEMMA ExactFinishSchema ==
    ASSUME ExactInv, CompleteInv', FinishSchema
    PROVE  ExactInv'
<1>0. /\ phase = "query" /\ ended = Groups /\ cur \in Schemas
      /\ UNCHANGED <<flavor, server, todo, cur, changed>>
  BY DEF FinishSchema, ExactInv, CompleteInv, Position
<1>1. CASE failed = {}
  <2>0. /\ schemas' = [schemas EXCEPT ![cur].routines = routines]
        /\ phase' = "next" /\ UNCHANGED result
    BY <1>1 DEF FinishSchema
  <2>1. /\ Task("routines") \notin tasks /\ Task("proc") \notin tasks
        /\ \A r : ShowRoutine(r) \notin tasks
    <3>1. \A task \in tasks : Group(task) # "routines"
      BY <1>0 DEF ExactInv, CompleteInv, Position, Groups
    <3> QED BY <3>1, TaskGroups
  <2>2. cur \in DOMAIN schemas /\ TablesExact(cur)
    BY <1>0, <1>1 DEF ExactInv, TablesAssembled, Groups
  <2>3. /\ \A r \in DOMAIN routines : Untouched(cur, r) =>
             /\ Definition(routines[r]) = server[cur].routines[r]
             /\ routines[r].create = server[cur].routines[r]
        /\ \A r \in Present(server[cur].routines) : Untouched(cur, r) => r \in DOMAIN routines
    BY <1>0, <1>1, <2>1 DEF ExactInv, RoutinesInHand, RoutineInHand
  <2>4. /\ schemas'[cur].tables = schemas[cur].tables /\ schemas'[cur].routines = routines
        /\ DOMAIN schemas' = DOMAIN schemas
        /\ \A s \in DOMAIN schemas : s # cur => schemas'[s] = schemas[s]
    <3>1. schemas[cur] = [tables |-> schemas[cur].tables, routines |-> schemas[cur].routines]
      BY <2>2 DEF ExactInv, CompleteInv, SchemasComplete, Complete
    <3>2. schemas'[cur] = [schemas[cur] EXCEPT !.routines = routines]
      BY <2>0, <2>2
    <3> QED BY <2>0, <3>1, <3>2
  <2>5. TablesExact(cur)' /\ RoutinesExact(cur)'
    <3>1. TablesExact(cur)'
      BY <1>0, <2>2, <2>4 DEF TablesExact, Untouched
    <3>2. RoutinesExact(cur)'
      BY <1>0, <2>3, <2>4 DEF RoutinesExact, Untouched, Definition
    <3> QED BY <3>1, <3>2
  <2>6. SchemasExact'
    <3> SUFFICES ASSUME NEW s \in Schemas, server[s].exists, result \in {"none", "ok"}
                 PROVE  Accounted(s)'
      BY <1>0, <2>0 DEF SchemasExact
    <3>1. CASE s = cur
      BY <1>0, <2>2, <2>4, <2>5, <3>1 DEF Accounted, TablesExact, RoutinesExact
    <3>2. CASE s # cur
      <4>1. s \in todo \/ (s \in DOMAIN schemas /\ TablesExact(s) /\ RoutinesExact(s))
        BY <1>0, <3>2 DEF ExactInv, SchemasExact, Accounted
      <4>2. ASSUME s \in DOMAIN schemas, TablesExact(s), RoutinesExact(s)
            PROVE  s \in DOMAIN schemas' /\ TablesExact(s)' /\ RoutinesExact(s)'
        <5>1. s \in DOMAIN schemas' /\ schemas'[s] = schemas[s]
          BY <2>4, <3>2, <4>2
        <5> QED BY <1>0, <4>2, <5>1 DEF TablesExact, RoutinesExact, Untouched, Definition
      <4> QED BY <1>0, <4>1, <4>2 DEF Accounted
    <3> QED BY <3>1, <3>2
  <2>7. Outcome'
    BY <1>0, <2>0 DEF ExactInv, CompleteInv, Position, Outcome
  <2> QED BY <2>0, <2>6, <2>7, ExactOutside
<1>2. CASE failed # {}
  BY <1>2, ExactError DEF FinishSchema, Return
<1> QED BY <1>1, <1>2

LEMMA ExactStutter ==
    ASSUME ExactInv, CompleteInv', UNCHANGED vars
    PROVE  ExactInv'
<1>1. TablesInHand' BY TablesInHandSame DEF ExactInv, vars
<1>2. RoutinesInHand' BY RoutinesInHandSame DEF ExactInv, vars
<1> QED BY <1>1, <1>2, ExactQuery DEF vars, Others

LEMMA ExactNext ==
    ASSUME ExactInv, [Next]_vars,
           \A fl \in Flavors : \A d \in TableDefs(fl) : ReadsBack(fl, d)
    PROVE  ExactInv'
<1>0. CompleteInv /\ CompleteInv'
  BY CompleteNext DEF ExactInv
<1>1. ASSUME NEW s \in Schemas, NEW t \in Tables, NEW d \in TableDefs(flavor) \union {Absent},
             ChangeTable(s, t, d)
      PROVE  ExactInv'
  BY <1>0, <1>1, DriftChangeTable, ExactDrift
<1>2. ASSUME NEW s \in Schemas, NEW r \in Routines, NEW d \in RoutineDefs \union {Absent},
             ChangeRoutine(s, r, d)
      PROVE  ExactInv'
  BY <1>0, <1>2, DriftChangeRoutine, ExactDrift
<1>3. ASSUME NEW s \in Schemas, DropSchema(s) PROVE ExactInv'
  BY <1>0, <1>3, DriftDropSchema, ExactDrift
<1>4. CASE ListSchemas BY <1>0, <1>4, ExactListSchemas
<1>5. CASE NextSchema BY <1>0, <1>5, ExactNextSchema
<1>6. CASE CannotConnect BY <1>0, <1>6, ExactError DEF CannotConnect, Return
<1>7. CASE AllDone BY <1>0, <1>7, ExactAllDone
<1>8. CASE QueryTables BY <1>0, <1>8, ExactQueryTables
<1>9. CASE AssembleTables BY <1>0, <1>9, ExactAssembleTables
<1>10. ASSUME NEW t \in Tables, ShowCreateTable(t) PROVE ExactInv'
  BY <1>0, <1>10, ExactShowCreateTable
<1>11. ASSUME NEW q \in PerSchema, QueryRows(q) PROVE ExactInv'
  BY <1>0, <1>11, ExactQueryRows
<1>12. CASE QueryRoutines BY <1>0, <1>12, ExactQueryRoutines
<1>13. CASE QueryProc(TRUE) BY <1>0, <1>13, ExactQueryProc
<1>14. CASE QueryProc(FALSE) BY <1>0, <1>14, ExactQueryProc
<1>15. CASE RoutinesDone BY <1>0, <1>15, ExactRoutinesDone
<1>16. ASSUME NEW r \in Routines, ShowCreateRoutine(r) PROVE ExactInv'
  BY <1>0, <1>16, ExactShowCreateRoutine
<1>17. ASSUME NEW task \in tasks, QueryFails(task) PROVE ExactInv'
  BY <1>0, <1>17, ExactQueryFails
<1>18. ASSUME NEW g \in Groups, GroupFails(g) PROVE ExactInv'
  BY <1>0, <1>18, ExactGroupFails
<1>19. CASE FinishSchema BY <1>0, <1>19, ExactFinishSchema
<1>20. CASE UNCHANGED vars BY <1>0, <1>20, ExactStutter
<1> QED
  BY <1>1, <1>2, <1>3, <1>4, <1>5, <1>6, <1>7, <1>8, <1>9, <1>10, <1>11, <1>12, <1>13,
     <1>14, <1>15, <1>16, <1>17, <1>18, <1>19, <1>20 DEF Next

\* What the result says of the objects that nobody touched: the schema of one
\* that is there exists, so it was listed, and it is done.
LEMMA ExactResult ==
    ASSUME ExactInv
    PROVE  UntouchedIsExact
<1>1. result = "panic" => \E t \in Tables : <<cur, t>> \in changed
  BY DEF ExactInv, Outcome, Untouched
<1>2. ASSUME result = "ok", NEW s \in Schemas, server[s].exists
      PROVE  s \in DOMAIN schemas /\ TablesExact(s) /\ RoutinesExact(s)
  BY <1>2 DEF ExactInv, SchemasExact, Accounted, Outcome
<1>3. ASSUME NEW s \in Schemas
      PROVE  /\ Present(server[s].tables) # {} => server[s].exists
             /\ Present(server[s].routines) # {} => server[s].exists
  BY PresentOnes DEF ExactInv, CompleteInv, ServerType
<1>4. ASSUME result = "ok", NEW s \in Schemas, NEW t \in Present(server[s].tables), <<s, t>> \notin changed
      PROVE  /\ s \in DOMAIN schemas /\ t \in DOMAIN schemas[s].tables
             /\ ComesOut(flavor, server[s].tables[t], schemas[s].tables[t].table,
                         schemas[s].tables[t].unsupported)
  BY <1>2, <1>3, <1>4 DEF TablesExact, Untouched
<1>5. ASSUME result = "ok", NEW s \in Schemas, NEW r \in Present(server[s].routines), <<s, r>> \notin changed
      PROVE  /\ s \in DOMAIN schemas /\ r \in DOMAIN schemas[s].routines
             /\ Definition(schemas[s].routines[r]) = server[s].routines[r]
             /\ schemas[s].routines[r].create = server[s].routines[r]
  BY <1>2, <1>3, <1>5 DEF RoutinesExact, Untouched
<1> QED BY <1>1, <1>4, <1>5 DEF UntouchedIsExact

\* However the queries of Instance.Schemas and the DDL of other clients are
\* interleaved, over any number of schemas, tables and routines: what nobody
\* touched is in the result exactly (but for the order of the create options
\* of a table in a general TABLESPACE, which is flagged then), and
\* querySchemaTables panics only if a table was touched. What one definition
\* reads back as when all queries see it is a matter of TableText, and the
\* hypothesis; TLC evaluates it for the definitions of the run.
THEOREM UntouchedComesOutExactly ==
    (\A fl \in Flavors : \A d \in TableDefs(fl) : ReadsBack(fl, d)) => (Spec => []UntouchedIsExact)
<1> SUFFICES ASSUME \A fl \in Flavors : \A d \in TableDefs(fl) : ReadsBack(fl, d)
             PROVE  Spec => []UntouchedIsExact
  OBVIOUS
<1>1. ExactInv /\ [Next]_vars => ExactInv'
  BY ExactNext
<1>2. ExactInv => UntouchedIsExact
  BY ExactResult
<1> QED BY <1>1, <1>2, ExactInit, PTL DEF Spec
----------------------------------------------------------------------------
(* A table that is not flagged is a snapshot.                              *)

\* What query q may have returned for a table: the rows of any definition it
\* may ever have had, or nothing.
AnyRows(fl, q) == UNION {RowsOf(fl, q, d) : d \in TableDefs(fl)}
Piece(fl, q) == AnyRows(fl, q) \union {Nothing(q)}
AnyTableRow(fl) == UNION {queryTables(fl, d) : d \in TableDefs(fl)}

\* Whatever definitions the rows were read from, one per query: with the text
\* of SHOW CREATE TABLE for definition d, querySchemaTables panics, flags the
\* table as unsupported, or gets d.
MixIsNoticed(fl, d) ==
    \A row \in AnyTableRow(fl), cols \in Piece(fl, "columns"), ix \in Piece(fl, "indexes"),
       fks \in Piece(fl, "fks"), checks \in Piece(fl, "checks"), part \in Piece(fl, "parts") :
      LET found == [coll |-> row.coll, opts |-> row.opts, cols |-> cols, pk |-> ix.pk,
                    idx |-> ix.idx, fks |-> fks, checks |-> checks, part |-> part]
          shown == GeneratedCreateStatement(d)
          table == Assemble(fl, found, shown)
      IN  Panics(fl, found, shown) \/ UnsupportedDDL(table, shown) \/ table = d

\* The rows and texts in hand are those of definitions.
PiecesInHand ==
    (/\ phase = "query" /\ {"tables"} \cap (failed \union ended) = {}
     /\ Task("tables") \notin tasks) =>
      /\ "tables" \in DOMAIN rows
      /\ \A t \in DOMAIN text : /\ rows.tables[t] \in AnyTableRow(flavor)
                                /\ text[t] \in TableDefs(flavor) \union {NoText}
      /\ \A q \in PerSchema : q \in DOMAIN rows =>
           \A t \in DOMAIN rows[q] : rows[q][t] \in AnyRows(flavor, q)

SnapshotInv == CompleteInv /\ PiecesInHand /\ SupportedIsSnapshot

LEMMA PiecesSame ==
    ASSUME PiecesInHand, UNCHANGED <<flavor, phase, rows, text>>,
           failed \subseteq failed', ended \subseteq ended',
           Task("tables") \in tasks => Task("tables") \in tasks'
    PROVE  PiecesInHand'
BY DEF PiecesInHand

LEMMA SnapshotsSame ==
    ASSUME SupportedIsSnapshot, schemas' = schemas \/ schemas' = NoRows
    PROVE  SupportedIsSnapshot'
<1>1. CASE schemas' = schemas BY <1>1 DEF SupportedIsSnapshot
<1>2. CASE schemas' = NoRows
  <2>1. DOMAIN schemas' = {} BY <1>2 DEF NoRows
  <2> QED BY <2>1 DEF SupportedIsSnapshot
<1> QED BY <1>1, <1>2

LEMMA SnapshotInit == Init => SnapshotInv
<1> SUFFICES ASSUME Init PROVE SnapshotInv
  OBVIOUS
<1>1. phase = "list" /\ DOMAIN schemas = {}
  BY DEF Init, NoRows
<1> QED BY <1>1, CompleteInit DEF SnapshotInv, PiecesInHand, SupportedIsSnapshot

LEMMA PiecesQueryTables ==
    ASSUME SnapshotInv, QueryTables
    PROVE  PiecesInHand'
<1>0. phase = "query" /\ flavor' = flavor
  BY DEF QueryTables, Querying, Others
<1>1. PICK row :
       /\ \A t \in Present(There) : row[t] \in queryTables(flavor, There[t])
       /\ rows' = [tables |-> row]
       /\ text' = [t \in Present(There) |-> NoText]
  BY DEF QueryTables
<1>2. There \in [Tables -> TableDefs(flavor) \union {Absent}]
  BY <1>0, ThereType DEF SnapshotInv
<1>3. \A t \in Present(There) : There[t] \in TableDefs(flavor)
  BY <1>2 DEF Present
<1>4. DOMAIN rows' = {"tables"} /\ rows'.tables = row
  BY <1>1
<1>5. \A t \in Present(There) : rows'.tables[t] \in AnyTableRow(flavor)
  BY <1>1, <1>3, <1>4 DEF AnyTableRow
<1>6. "tables" \notin PerSchema
  BY DEF PerSchema
<1> QED BY <1>0, <1>1, <1>4, <1>5, <1>6 DEF PiecesInHand

LEMMA PiecesShowCreateTable ==
    ASSUME SnapshotInv, NEW t \in Tables, ShowCreateTable(t)
    PROVE  PiecesInHand'
<1>0. phase = "query" /\ UNCHANGED <<flavor, phase, ended, rows>> /\ tasks' = tasks \ {Create(t)}
  BY DEF ShowCreateTable, Querying, Others
<1>1. CASE There[t] = Absent
  BY <1>1 DEF ShowCreateTable, PiecesInHand
<1>2. CASE There[t] # Absent
  <2>1. text' = [text EXCEPT ![t] = There[t]] /\ UNCHANGED failed
    BY <1>2 DEF ShowCreateTable
  <2>2. There[t] \in TableDefs(flavor)
    BY <1>0, <1>2, ThereType DEF SnapshotInv
  <2>3. Task("tables") \in tasks => Task("tables") \in tasks'
    BY <1>0, TaskNames
  <2> SUFFICES ASSUME {"tables"} \cap (failed \union ended) = {}, Task("tables") \notin tasks
               PROVE  /\ "tables" \in DOMAIN rows
                      /\ \A x \in DOMAIN text' : /\ rows.tables[x] \in AnyTableRow(flavor)
                                                 /\ text'[x] \in TableDefs(flavor) \union {NoText}
                      /\ \A q \in PerSchema : q \in DOMAIN rows =>
                           \A x \in DOMAIN rows[q] : rows[q][x] \in AnyRows(flavor, q)
    BY <1>0, <2>1, <2>3 DEF PiecesInHand
  <2>4. /\ "tables" \in DOMAIN rows
        /\ \A x \in DOMAIN text : /\ rows.tables[x] \in AnyTableRow(flavor)
                                  /\ text[x] \in TableDefs(flavor) \union {NoText}
        /\ \A q \in PerSchema : q \in DOMAIN rows =>
             \A x \in DOMAIN rows[q] : rows[q][x] \in AnyRows(flavor, q)
    BY <1>0 DEF SnapshotInv, PiecesInHand
  <2> QED BY <2>1, <2>2, <2>4
<1> QED BY <1>1, <1>2

LEMMA PiecesQueryRows ==
    ASSUME SnapshotInv, NEW q \in PerSchema, QueryRows(q)
    PROVE  PiecesInHand'
<1>0. phase = "query" /\ UNCHANGED <<flavor, phase, ended, failed, text>> /\ tasks' = tasks \ {Task(q)}
  BY DEF QueryRows, Querying, Others
<1>1. PICK found :
        /\ DOMAIN found = Present(There)
        /\ \A t \in Present(There) : found[t] \in RowsOf(flavor, q, There[t])
        /\ rows' = Put(rows, q, found)
  BY DEF QueryRows
<1>2. \A t \in Present(There) : There[t] \in TableDefs(flavor)
  BY <1>0, ThereType DEF SnapshotInv, Present
<1>3. \A t \in DOMAIN found : found[t] \in AnyRows(flavor, q)
  BY <1>1, <1>2 DEF AnyRows
<1>4. /\ DOMAIN rows' = DOMAIN rows \union {q} /\ rows'[q] = found
      /\ \A p \in DOMAIN rows : p # q => rows'[p] = rows[p]
  BY <1>1 DEF Put
<1>5. q # "tables" /\ (Task("tables") \in tasks => Task("tables") \in tasks')
  BY <1>0, TaskNames DEF PerSchema
<1> SUFFICES ASSUME {"tables"} \cap (failed \union ended) = {}, Task("tables") \notin tasks
             PROVE  /\ "tables" \in DOMAIN rows'
                    /\ \A x \in DOMAIN text : /\ rows'.tables[x] \in AnyTableRow(flavor)
                                              /\ text[x] \in TableDefs(flavor) \union {NoText}
                    /\ \A p \in PerSchema : p \in DOMAIN rows' =>
                         \A x \in DOMAIN rows'[p] : rows'[p][x] \in AnyRows(flavor, p)
  BY <1>0, <1>5 DEF PiecesInHand
<1>6. /\ "tables" \in DOMAIN rows
      /\ \A x \in DOMAIN text : /\ rows.tables[x] \in AnyTableRow(flavor)
                                /\ text[x] \in TableDefs(flavor) \union {NoText}
      /\ \A p \in PerSchema : p \in DOMAIN rows =>
           \A x \in DOMAIN rows[p] : rows[p][x] \in AnyRows(flavor, p)
  BY <1>0 DEF SnapshotInv, PiecesInHand
<1>7. rows'.tables = rows.tables
  BY <1>4, <1>5, <1>6
<1> QED BY <1>3, <1>4, <1>6, <1>7

\* The fields that are left for a listed table are pieces.
LEMMA RowsForMixed ==
    ASSUME NEW t, rows.tables[t] \in AnyTableRow(flavor),
           \A q \in PerSchema : q \in DOMAIN rows =>
             \A x \in DOMAIN rows[q] : rows[q][x] \in AnyRows(flavor, q),
           NEW d, MixIsNoticed(flavor, d)
    PROVE  LET shown == GeneratedCreateStatement(d)
               table == Assemble(flavor, RowsFor(t), shown)
           IN  Panics(flavor, RowsFor(t), shown) \/ UnsupportedDDL(table, shown) \/ table = d
<1>1. \A q \in PerSchema : Found(q, t) \in Piece(flavor, q)
  BY DEF Found, Piece
<1>2. /\ Found("columns", t) \in Piece(flavor, "columns")
      /\ Found("indexes", t) \in Piece(flavor, "indexes")
      /\ Found("fks", t) \in Piece(flavor, "fks")
      /\ Found("checks", t) \in Piece(flavor, "checks")
      /\ Found("parts", t) \in Piece(flavor, "parts")
  BY <1>1 DEF PerSchema
<1>3. RowsFor(t) =
        [coll |-> rows.tables[t].coll, opts |-> rows.tables[t].opts,
         cols |-> Found("columns", t), pk |-> Found("indexes", t).pk,
         idx |-> Found("indexes", t).idx, fks |-> Found("fks", t),
         checks |-> Found("checks", t), part |-> Found("parts", t)]
  BY DEF RowsFor
<1> QED BY <1>2, <1>3 DEF MixIsNoticed

LEMMA SnapshotAssembleTables ==
    ASSUME SnapshotInv, AssembleTables,
           \A fl \in Flavors : \A d \in TableDefs(fl) : MixIsNoticed(fl, d)
    PROVE  PiecesInHand' /\ SupportedIsSnapshot'
<1>1. GroupDone("tables") /\ "tables" \notin failed
  BY DEF AssembleTables
<1>2. /\ phase = "query" /\ "tables" \notin ended /\ Task("tables") \notin tasks
      /\ \A t : Create(t) \notin tasks
  BY <1>1, GroupIsDone
<1>3. \A t \in Listed : text[t] \in TableDefs(flavor)
  BY <1>1, <1>2 DEF SnapshotInv, PiecesInHand, CompleteInv, TablesPending, Listed
<1>4. /\ \A t \in Listed : rows.tables[t] \in AnyTableRow(flavor)
      /\ \A q \in PerSchema : q \in DOMAIN rows =>
           \A x \in DOMAIN rows[q] : rows[q][x] \in AnyRows(flavor, q)
  BY <1>1, <1>2 DEF SnapshotInv, PiecesInHand, Listed
<1>5. flavor \in Flavors
  BY DEF SnapshotInv, CompleteInv, ServerType
<1>6. PICK shown, found :
         /\ shown = [t \in Listed |-> GeneratedCreateStatement(text[t])]
         /\ found = [t \in Listed |-> RowsFor(t)]
         /\ IF \E t \in Listed : Panics(flavor, found[t], shown[t])
            THEN Return("panic") /\ schemas' = NoRows /\ UNCHANGED <<ended, rows, text>>
            ELSE \E built \in {[t \in Listed |-> Assemble(flavor, found[t], shown[t])]} :
              /\ schemas' = Put(schemas, cur,
                                [tables |-> [t \in Listed |->
                                    AssembleTable(text[t], shown[t], built[t])],
                                 routines |-> NoRows])
              /\ ended' = ended \union {"tables"} /\ rows' = NoRows /\ text' = NoRows
              /\ UNCHANGED <<phase, result>>
  BY DEF AssembleTables
<1>7. CASE \E t \in Listed : Panics(flavor, found[t], shown[t])
  BY <1>6, <1>7, SnapshotsSame DEF SnapshotInv, PiecesInHand, Return
<1>8. CASE ~\E t \in Listed : Panics(flavor, found[t], shown[t])
  <2>1. PICK built :
              /\ built = [t \in Listed |-> Assemble(flavor, found[t], shown[t])]
              /\ schemas' = Put(schemas, cur,
                                [tables |-> [t \in Listed |->
                                    AssembleTable(text[t], shown[t], built[t])],
                                 routines |-> NoRows])
              /\ ended' = ended \union {"tables"}
    BY <1>6, <1>8
  <2>2. PiecesInHand'
    BY <2>1 DEF PiecesInHand
  <2>3. ASSUME NEW t \in Listed
        PROVE  UnsupportedDDL(built[t], shown[t]) \/ built[t] = text[t]
    <3>1. MixIsNoticed(flavor, text[t])
      BY <1>3, <1>5
    <3>2. PICK d : d = text[t]
      OBVIOUS
    <3>3. /\ shown[t] = GeneratedCreateStatement(d) /\ found[t] = RowsFor(t)
          /\ built[t] = Assemble(flavor, RowsFor(t), GeneratedCreateStatement(d))
          /\ ~Panics(flavor, RowsFor(t), GeneratedCreateStatement(d))
      BY <1>6, <1>8, <2>1, <3>2
    <3>4. \/ Panics(flavor, RowsFor(t), GeneratedCreateStatement(d))
          \/ UnsupportedDDL(built[t], GeneratedCreateStatement(d)) \/ built[t] = d
      BY <1>4, <3>1, <3>2, <3>3, RowsForMixed
    <3> QED BY <3>2, <3>3, <3>4
  <2>4. SupportedIsSnapshot'
    <3> SUFFICES ASSUME NEW s \in DOMAIN schemas', NEW t \in DOMAIN schemas'[s].tables
                 PROVE  schemas'[s].tables[t].unsupported
                        \/ schemas'[s].tables[t].table = schemas'[s].tables[t].create
      BY DEF SupportedIsSnapshot
    <3>1. CASE s = cur
      <4>1. schemas'[s].tables = [x \in Listed |-> AssembleTable(text[x], shown[x], built[x])]
        BY <2>1, <3>1 DEF Put
      <4>2. t \in Listed /\ schemas'[s].tables[t] = AssembleTable(text[t], shown[t], built[t])
        BY <4>1
      <4> QED BY <2>3, <4>2 DEF AssembleTable
    <3>2. CASE s # cur
      <4>1. s \in DOMAIN schemas /\ schemas'[s] = schemas[s]
        BY <2>1, <3>2 DEF Put
      <4> QED BY <4>1 DEF SnapshotInv, SupportedIsSnapshot
    <3> QED BY <3>1, <3>2
  <2> QED BY <2>2, <2>4
<1> QED BY <1>7, <1>8

LEMMA SnapshotFinishSchema ==
    ASSUME SnapshotInv, FinishSchema
    PROVE  SupportedIsSnapshot'
<1>1. CASE failed = {}
  <2>0. schemas' = [schemas EXCEPT ![cur].routines = routines]
    BY <1>1 DEF FinishSchema
  <2>1. \A s \in DOMAIN schemas : schemas[s] = [tables |-> schemas[s].tables, routines |-> schemas[s].routines]
    BY DEF SnapshotInv, CompleteInv, SchemasComplete, Complete
  <2>2. DOMAIN schemas' = DOMAIN schemas /\ \A s \in DOMAIN schemas : schemas'[s].tables = schemas[s].tables
    BY <2>0, <2>1
  <2> QED BY <2>2 DEF SnapshotInv, SupportedIsSnapshot
<1>2. CASE failed # {}
  BY <1>2, SnapshotsSame DEF FinishSchema, SnapshotInv
<1> QED BY <1>1, <1>2
LEMMA SnapshotNext ==
    ASSUME SnapshotInv, [Next]_vars,
           \A fl \in Flavors : \A d \in TableDefs(fl) : MixIsNoticed(fl, d)
    PROVE  SnapshotInv'
<1>0. CompleteInv'
  BY CompleteNext DEF SnapshotInv
<1>1. ASSUME UNCHANGED <<flavor, phase, rows, text, failed, ended, tasks, schemas>>
      PROVE  SnapshotInv'
  BY <1>0, <1>1, PiecesSame, SnapshotsSame DEF SnapshotInv
<1>2. ASSUME phase' # "query", schemas' = schemas \/ schemas' = NoRows
      PROVE  SnapshotInv'
  BY <1>0, <1>2, SnapshotsSame DEF SnapshotInv, PiecesInHand
<1>3. ASSUME Task("tables") \in tasks', schemas' = schemas
      PROVE  SnapshotInv'
  BY <1>0, <1>3, SnapshotsSame DEF SnapshotInv, PiecesInHand
<1>4. ASSUME PiecesInHand', schemas' = schemas
      PROVE  SnapshotInv'
  BY <1>0, <1>4, SnapshotsSame DEF SnapshotInv
<1>5. ASSUME UNCHANGED <<flavor, phase, rows, text, schemas>>, failed \subseteq failed',
             ended \subseteq ended', Task("tables") \in tasks => Task("tables") \in tasks'
      PROVE  SnapshotInv'
  BY <1>4, <1>5, PiecesSame DEF SnapshotInv
<1>6. ASSUME NEW s \in Schemas, NEW t \in Tables, NEW d, ChangeTable(s, t, d) PROVE SnapshotInv'
  BY <1>1, <1>6 DEF ChangeTable, Environment
<1>7. ASSUME NEW s \in Schemas, NEW r \in Routines, NEW d, ChangeRoutine(s, r, d) PROVE SnapshotInv'
  BY <1>1, <1>7 DEF ChangeRoutine, Environment
<1>8. ASSUME NEW s \in Schemas, DropSchema(s) PROVE SnapshotInv'
  BY <1>1, <1>8 DEF DropSchema, Environment
<1>9. CASE ListSchemas BY <1>2, <1>9 DEF ListSchemas
<1>10. CASE NextSchema
  <2>1. \/ Task("tables") \in tasks' /\ schemas' = schemas
        \/ phase' = "done" /\ schemas' = NoRows
    BY <1>10 DEF NextSchema, Return
  <2> QED BY <1>2, <1>3, <2>1
<1>11. CASE CannotConnect BY <1>2, <1>11 DEF CannotConnect, Return
<1>12. CASE AllDone BY <1>2, <1>12 DEF AllDone, Return
<1>13. CASE QueryTables BY <1>4, <1>13, PiecesQueryTables DEF QueryTables, Others
<1>14. CASE AssembleTables BY <1>0, <1>14, SnapshotAssembleTables DEF SnapshotInv
<1>15. ASSUME NEW t \in Tables, ShowCreateTable(t) PROVE SnapshotInv'
  BY <1>4, <1>15, PiecesShowCreateTable DEF ShowCreateTable, Others
<1>16. ASSUME NEW q \in PerSchema, QueryRows(q) PROVE SnapshotInv'
  BY <1>4, <1>16, PiecesQueryRows DEF QueryRows, Others
<1>17. CASE QueryRoutines
  <2>1. Task("tables") \in tasks => Task("tables") \in tasks'
    BY <1>17, TaskNames DEF QueryRoutines
  <2> QED BY <1>5, <1>17, <2>1 DEF QueryRoutines, Others
<1>18. ASSUME NEW answered \in BOOLEAN, QueryProc(answered) PROVE SnapshotInv'
  <2>1. Task("tables") \in tasks => Task("tables") \in tasks'
    BY <1>18, TaskNames DEF QueryProc
  <2> QED BY <1>5, <1>18, <2>1 DEF QueryProc, Others
<1>19. CASE RoutinesDone BY <1>5, <1>19 DEF RoutinesDone
<1>20. ASSUME NEW r \in Routines, ShowCreateRoutine(r) PROVE SnapshotInv'
  <2>1. Task("tables") \in tasks => Task("tables") \in tasks'
    BY <1>20, TaskNames DEF ShowCreateRoutine
  <2>2. failed \subseteq failed'
    BY <1>20 DEF ShowCreateRoutine
  <2> QED BY <1>5, <1>20, <2>1, <2>2 DEF ShowCreateRoutine, Others
<1>21. ASSUME NEW task \in tasks, QueryFails(task) PROVE SnapshotInv'
  <2>1. tasks' = tasks \ {task} /\ failed' = failed \union {Group(task)}
        /\ UNCHANGED <<flavor, phase, ended, schemas, rows, text>>
    BY <1>21 DEF QueryFails, Others
  <2>2. CASE task = Task("tables")
    <3>1. PiecesInHand' BY <2>1, <2>2, TaskGroups DEF PiecesInHand
    <3> QED BY <1>4, <2>1, <3>1
  <2>3. CASE task # Task("tables")
    BY <1>5, <2>1, <2>3
  <2> QED BY <2>2, <2>3
<1>22. ASSUME NEW g \in Groups, GroupFails(g) PROVE SnapshotInv'
  <2>1. failed' = failed \union {g} /\ ended' = ended \union {g} /\ schemas' = schemas
        /\ tasks' = {task \in tasks : Group(task) # g} /\ UNCHANGED <<flavor, phase>>
    BY <1>22 DEF GroupFails
  <2>2. CASE g = "tables"
    <3>1. PiecesInHand' BY <2>1, <2>2 DEF PiecesInHand
    <3> QED BY <1>4, <2>1, <3>1
  <2>3. CASE g # "tables"
    <3>1. Task("tables") \in tasks => Task("tables") \in tasks'
      BY <2>1, <2>3, TaskGroups
    <3> QED BY <1>5, <1>22, <2>1, <2>3, <3>1 DEF GroupFails
  <2> QED BY <2>2, <2>3
<1>23. CASE FinishSchema
  <2>1. phase' # "query"
    BY <1>23 DEF FinishSchema, Return
  <2> QED BY <1>0, <1>23, <2>1, SnapshotFinishSchema DEF SnapshotInv, PiecesInHand
<1>24. CASE UNCHANGED vars BY <1>1, <1>24 DEF vars
<1> QED
  BY <1>6, <1>7, <1>8, <1>9, <1>10, <1>11, <1>12, <1>13, <1>14, <1>15, <1>16, <1>17, <1>18,
     <1>19, <1>20, <1>21, <1>22, <1>23, <1>24 DEF Next

\* However many DDL statements fall between the queries of querySchemaTables,
\* a table that it does not flag as unsupported is in every field the table
\* of which SHOW CREATE TABLE gave the statement: the interleavings can do no
\* more than mix pieces of definitions, and the hypothesis says of
\* TableText's functions that every mix is noticed.
THEOREM SupportedTablesAreSnapshots ==
    (\A fl \in Flavors : \A d \in TableDefs(fl) : MixIsNoticed(fl, d)) => (Spec => []SupportedIsSnapshot)
<1> SUFFICES ASSUME \A fl \in Flavors : \A d \in TableDefs(fl) : MixIsNoticed(fl, d)
             PROVE  Spec => []SupportedIsSnapshot
  OBVIOUS
<1>1. SnapshotInv /\ [Next]_vars => SnapshotInv'
  BY SnapshotNext
<1>2. SnapshotInv => SupportedIsSnapshot
  BY DEF SnapshotInv
<1> QED BY <1>1, <1>2, SnapshotInit, PTL DEF Spec
=============================================================================
