----------------------------- MODULE TempSchema -----------------------------
(***************************************************************************)
(* Several skeema processes that use the same temporary schema of one      *)
(* database server as their workspace: getLock and its connection          *)
(* maintainer, NewTempSchema, the statements of the workspace, Cleanup, and*)
(* the bulk drops of tengo.Instance that both rely on.                     *)
(*                                                                         *)
(* Each process opens one workspace after another, one per directory.      *)
(***************************************************************************)
EXTENDS Integers, FiniteSets

CONSTANTS
    Procs,          \* the skeema processes
    Dirs,           \* number of workspaces each of them opens
    Objects,        \* names of tables and routines
    Routines,       \* those that are routines
    Wanted,         \* what each process creates in its workspaces
    CharSet,        \* the default character set and collation each process
                    \* asks for, or "none"
    Keep,           \* the processes that run with reuse-temp-schema
    MaxOpenConns,   \* limit of the connection pool for the empty schema name
    Events,         \* what the environment may do: "lose" a lock connection,
                    \* "crash" a process, "fail" a query, be slow to give a
                    \* metadata "lock", let a "user" work in the schema
    None

ASSUME ConstantsAssumption ==
    /\ Dirs \in Nat \ {0}
    /\ Routines \subseteq Objects
    /\ Wanted \in [Procs -> SUBSET Objects]
    /\ Keep \subseteq Procs
    /\ MaxOpenConns \in Nat \ {0, 1}
    /\ None \notin Procs \X (1..Dirs)
    /\ Events \subseteq {"lose", "crash", "fail", "lock", "user"}

\* A lock connection is named by the process and the directory it serves.
Conns == Procs \X (1..Dirs)

VARIABLES
    holder,     \* server: the connection that owns the lock "skeema.<schema>"
    exists,     \* server: the temporary schema exists, with
    objects,    \*   these objects,
    rows,       \*   at least one row in these tables, and
    charset,    \*   this default character set and collation
    conn,       \* state of each lock connection and its maintainer goroutine
    pc,         \* where each process is,
    dir,        \*   which workspace it is on, and
    me,         \*   its local variables, a record
    orphans,    \* statements nobody waits for that the server still runs
    tainted,    \* history: processes in whose section another one may have acted
    witnessed,  \* history: rows present when a process last began to drop
    fresh       \* history: tables that somebody wrote to while skeema was at work

server == <<holder, exists, objects, rows, charset>>
vars == <<server, conn, pc, dir, me, orphans, tainted, witnessed, fresh>>

\* The connection of the workspace that process p is working on.
Mine(p) == <<p, dir[p]>>

\* Connections that p's pool counts as open: the lock connections that were not
\* closed, the one of a getLock that timed out included.
InUse(p) == {c \in Conns : c[1] = p /\ conn[c] \notin {"unused", "closed"}}

\* A query on the pool of the empty schema name needs a free connection.
CanQuery(p) == Cardinality(InUse(p)) < MaxOpenConns

\* Process p moves on to the code at label l.
Go(p, l) == pc' = [pc EXCEPT ![p] = l] /\ UNCHANGED dir

Fresh == [phase |-> "start", todo |-> {}, unchecked |-> {}, retries |-> {},
          fatal |-> FALSE, seen |-> FALSE, view |-> {}, made |-> {},
          failed |-> {}]

\* The schema may not exist, or exist with objects of an earlier run that was
\* interrupted, or be in use by an application that has rows in it.
Init ==
    /\ holder = None
    /\ exists \in BOOLEAN
    /\ objects \in IF exists THEN SUBSET Objects ELSE {{}}
    /\ rows \in SUBSET (objects \ Routines)
    /\ charset = "none"
    /\ conn = [c \in Conns |-> "unused"]
    /\ pc = [p \in Procs |-> "next"]
    /\ dir = [p \in Procs |-> 0]
    /\ me = [p \in Procs |-> Fresh]
    /\ orphans = {}
    /\ tainted = {}
    /\ witnessed = [p \in Procs |-> {}]
    /\ fresh = {}

\* A process is in its section from the moment it owns the lock until it calls
\* the release function.
InSection(p) == pc[p] \notin {"next", "conn", "get", "done", "dead"}

----------------------------------------------------------------------------
(* getLock                                                                 *)

\* Mutant of Begin: no end of the list of directories.
BeginNoEnd(p) ==
    /\ pc[p] = "next"
    /\ pc' = [pc EXCEPT ![p] = "conn"]
    /\ dir' = [dir EXCEPT ![p] = @ + 1]
    /\ me' = [me EXCEPT ![p] = Fresh]
    /\ UNCHANGED <<server, conn, orphans, tainted, witnessed, fresh>>

Begin(p) ==
    /\ pc[p] = "next" /\ dir[p] < Dirs
    /\ pc' = [pc EXCEPT ![p] = "conn"]
    /\ dir' = [dir EXCEPT ![p] = @ + 1]
    /\ me' = [me EXCEPT ![p] = Fresh]
    /\ UNCHANGED <<server, conn, orphans, tainted, witnessed, fresh>>

\* db.Conn blocks until the pool has a free connection.
GetConn(p) ==
    /\ pc[p] = "conn"
    /\ CanQuery(p)
    /\ conn' = [conn EXCEPT ![Mine(p)] = "open"]
    /\ Go(p, "get") /\ UNCHANGED me
    /\ UNCHANGED <<server, orphans, tainted, witnessed, fresh>>

\* No connection: NewTempSchema returns the error.
GetConnFails(p) ==
    /\ "fail" \in Events
    /\ pc[p] = "conn"
    /\ Go(p, "next") /\ UNCHANGED me
    /\ UNCHANGED <<server, conn, orphans, tainted, witnessed, fresh>>

\* Mutant of GetLock: a result other than 1 is taken for success.
GetLockAnyResult(p) ==
    /\ pc[p] = "get"
    /\ holder' = IF holder = None THEN Mine(p) ELSE holder
    /\ conn' = [conn EXCEPT ![Mine(p)] = "held"]
    /\ Go(p, "check") /\ UNCHANGED me
    /\ tainted' = IF \E q \in tainted : q # p /\ InSection(q)
                  THEN tainted \cup {p} ELSE tainted
    /\ UNCHANGED <<exists, objects, rows, charset, orphans, witnessed, fresh>>

\* SELECT GET_LOCK returns 1; the maintainer goroutine is started.
GetLock(p) ==
    /\ pc[p] = "get"
    /\ holder = None
    /\ holder' = Mine(p)
    /\ conn' = [conn EXCEPT ![Mine(p)] = "held"]
    /\ Go(p, "check") /\ UNCHANGED me
    /\ tainted' = IF \E q \in tainted : q # p /\ InSection(q)
                  THEN tainted \cup {p} ELSE tainted
    /\ UNCHANGED <<exists, objects, rows, charset, orphans, witnessed, fresh>>

\* maxWait passes while another connection owns the lock and still uses it: a
\* release under way takes milliseconds.  The error return does not close
\* lockConn.
GetLockTimesOut(p) ==
    /\ pc[p] = "get"
    /\ \E c \in Conns : holder = c /\ conn[c] = "held"
    /\ conn' = [conn EXCEPT ![Mine(p)] = "leaked"]
    /\ Go(p, "next") /\ UNCHANGED me
    /\ UNCHANGED <<server, orphans, tainted, witnessed, fresh>>

\* The connection breaks while waiting: every further query on it fails until
\* maxWait passes, and the pool has dropped it.
GetLockBreaks(p) ==
    /\ "lose" \in Events
    /\ pc[p] = "get"
    /\ conn' = [conn EXCEPT ![Mine(p)] = "closed"]
    /\ Go(p, "next") /\ UNCHANGED me
    /\ UNCHANGED <<server, orphans, tainted, witnessed, fresh>>

----------------------------------------------------------------------------
(* connMaintainer                                                          *)

\* The release function was called: RELEASE_LOCK, then lockConn.Close.
ReleaseLock(c) ==
    /\ conn[c] = "done"
    /\ holder' = IF holder = c THEN None ELSE holder
    /\ conn' = [conn EXCEPT ![c] = "closed"]
    /\ UNCHANGED <<exists, objects, rows, charset, pc, dir, me, orphans, tainted,
                   witnessed, fresh>>

\* The 750 ms ping finds the connection dropped: a warning, and no more.
PingFails(c) ==
    /\ conn[c] = "lost"
    /\ conn' = [conn EXCEPT ![c] = "closed"]
    /\ UNCHANGED <<server, pc, dir, me, orphans, tainted, witnessed, fresh>>

----------------------------------------------------------------------------
(* Steps shared by NewTempSchema and Cleanup                               *)

\* ts.releaseLock() closes `done`, which the maintainer, if there still is one,
\* will see; the process goes on.
Return(p) ==
    /\ conn' = [conn EXCEPT ![Mine(p)] = IF @ = "held" THEN "done" ELSE @]
    /\ Go(p, "next") /\ me' = [me EXCEPT ![p] = Fresh]
    /\ tainted' = tainted \ {p}

\* Statements of p that may be running on the server.
Running(p) ==
    CASE pc[p] = "exec" -> {<<"create", o>> : o \in Wanted[p] \ me[p].made}
      [] pc[p] \in {"drop", "droproutines"} -> {<<"drop", o>> : o \in me[p].todo}
      [] OTHER -> {}

\* The object list of a bulk drop: from the introspected schema when Cleanup
\* has one, from information_schema otherwise.
Listed(p, kind) == kind \cap (IF me[p].seen THEN me[p].view ELSE objects)

AfterTables(p) == IF me[p].phase = "drop" THEN "dropdb" ELSE "routines"

\* DropTablesInSchema, up to the list of tables.
ListTables(p) ==
    /\ pc[p] = "list"
    /\ LET names == Listed(p, Objects \ Routines)
       IN  /\ me' = [me EXCEPT ![p].todo = names, ![p].unchecked = names,
                               ![p].retries = {}, ![p].fatal = FALSE]
           /\ Go(p, IF names = {} THEN AfterTables(p) ELSE "confirm")
    /\ witnessed' = [witnessed EXCEPT ![p] = rows]
    /\ UNCHANGED <<server, conn, orphans, tainted, fresh>>

\* Mutant of Passes: the result of tableHasRows is not looked at.
PassesAnyway(t) == t \in objects

\* tableHasRows: no error and no row.
Passes(t) == t \in objects /\ t \notin rows

\* confirmTablesEmpty looks at one table after another.
ConfirmEmpty(p, t) ==
    /\ pc[p] = "confirm"
    /\ t \in me[p].unchecked
    /\ Passes(t)
    /\ LET left == me[p].unchecked \ {t}
       IN  /\ me' = [me EXCEPT ![p].unchecked = left]
           /\ Go(p, IF left = {} THEN "drop" ELSE "confirm")
    /\ UNCHANGED <<server, conn, orphans, tainted, witnessed, fresh>>

ConfirmFails(p, t) ==
    /\ pc[p] = "confirm"
    /\ t \in me[p].unchecked
    /\ ~Passes(t)
    /\ Return(p)
    /\ UNCHANGED <<server, orphans, witnessed, fresh>>

\* The server drops object o.
Drop(o) ==
    /\ o \in objects
    /\ objects' = objects \ {o}
    /\ rows' = rows \ {o}
    /\ UNCHANGED <<holder, exists, charset>>

\* One goroutine of the errgroup of DropTablesInSchema.  A deadlock or a lock wait
\* timeout is kept for a retry; a table that is gone, and any other error, of
\* dropPartitions too, is fatal.
DropTable(p, t) ==
    /\ pc[p] = "drop"
    /\ t \in me[p].todo
    /\ \/ /\ Drop(t)
          /\ me' = [me EXCEPT ![p].todo = @ \ {t}]
       \/ /\ t \notin objects \/ "fail" \in Events
          /\ me' = [me EXCEPT ![p].todo = @ \ {t}, ![p].fatal = TRUE]
          /\ UNCHANGED server
       \/ /\ "lock" \in Events
          /\ me' = [me EXCEPT ![p].todo = @ \ {t}, ![p].retries = @ \cup {t}]
          /\ UNCHANGED server
    /\ UNCHANGED <<conn, pc, dir, orphans, tainted, witnessed, fresh>>

\* The first fatal error cancels the context.  A goroutine not yet run does not
\* run; the driver abandons a DROP under way, which the server may yet complete.
CancelDrops(p) ==
    /\ pc[p] = "drop"
    /\ me[p].fatal /\ me[p].todo # {}
    /\ \E late \in {{}} \cup {{r} : r \in Running(p)} : orphans' = orphans \cup late
    /\ me' = [me EXCEPT ![p].todo = {}]
    /\ UNCHANGED <<server, conn, pc, dir, tainted, witnessed, fresh>>

\* g.Wait returns; the retries are run one by one, even after a fatal error.
RetryDrop(p, t) ==
    /\ pc[p] = "drop" /\ me[p].todo = {}
    /\ t \in me[p].retries
    /\ \/ /\ Drop(t)
          /\ me' = [me EXCEPT ![p].retries = @ \ {t}]
          /\ UNCHANGED <<conn, pc, dir, tainted>>
       \/ /\ t \notin objects \/ "lock" \in Events
          /\ Return(p)
          /\ UNCHANGED server
    /\ UNCHANGED <<orphans, witnessed, fresh>>

EndDropTables(p) ==
    /\ pc[p] = "drop" /\ me[p].todo = {} /\ me[p].retries = {}
    /\ IF me[p].fatal
       THEN Return(p)
       ELSE /\ Go(p, AfterTables(p)) /\ UNCHANGED me
            /\ UNCHANGED <<conn, tainted>>
    /\ UNCHANGED <<server, orphans, witnessed, fresh>>

\* DropRoutinesInSchema, up to the list of routines.
ListRoutines(p) ==
    /\ pc[p] = "routines"
    /\ me' = [me EXCEPT ![p].todo = Listed(p, Routines)]
    /\ Go(p, "droproutines")
    /\ UNCHANGED <<server, conn, orphans, tainted, witnessed, fresh>>

DropRoutine(p, r) ==
    /\ pc[p] = "droproutines"
    /\ r \in me[p].todo
    /\ \/ /\ Drop(r)
          /\ me' = [me EXCEPT ![p].todo = @ \ {r}]
       \/ /\ r \notin objects \/ "lock" \in Events
          /\ me' = [me EXCEPT ![p].todo = @ \ {r}, ![p].fatal = TRUE]
          /\ UNCHANGED server
    /\ UNCHANGED <<conn, pc, dir, orphans, tainted, witnessed, fresh>>

EndDropRoutines(p) ==
    /\ pc[p] = "droproutines" /\ me[p].todo = {}
    /\ IF me[p].fatal \/ me[p].phase = "keep"
       THEN Return(p)
       ELSE /\ Go(p, "alter") /\ UNCHANGED me
            /\ UNCHANGED <<conn, tainted>>
    /\ UNCHANGED <<server, orphans, witnessed, fresh>>

----------------------------------------------------------------------------
(* NewTempSchema, once the lock is owned                                   *)

\* Mutant of HasSchema: leftovers in an existing schema are not dropped.
HasSchemaNoDrop(p) ==
    /\ pc[p] = "check"
    /\ CanQuery(p)
    /\ Go(p, IF exists THEN "alter" ELSE "create") /\ UNCHANGED me
    /\ UNCHANGED <<server, conn, orphans, tainted, witnessed, fresh>>

HasSchema(p) ==
    /\ pc[p] = "check"
    /\ CanQuery(p)
    /\ Go(p, IF exists THEN "list" ELSE "create") /\ UNCHANGED me
    /\ UNCHANGED <<server, conn, orphans, tainted, witnessed, fresh>>

\* Schema.AlterStatement is empty when nothing is asked for or nothing differs;
\* AlterSchema then returns without a statement.
AlterSchema(p) ==
    /\ pc[p] = "alter"
    /\ CanQuery(p)
    /\ IF exists
       THEN /\ charset' = IF CharSet[p] \in {"none", charset} THEN charset ELSE CharSet[p]
            /\ Go(p, "exec") /\ UNCHANGED me
            /\ UNCHANGED <<conn, tainted>>
       ELSE Return(p) /\ UNCHANGED charset
    /\ UNCHANGED <<holder, exists, objects, rows, orphans, witnessed, fresh>>

CreateSchema(p) ==
    /\ pc[p] = "create"
    /\ CanQuery(p)
    /\ IF ~exists
       THEN /\ exists' = TRUE
            /\ charset' = CharSet[p]
            /\ Go(p, "exec") /\ UNCHANGED me
            /\ UNCHANGED <<conn, tainted>>
       ELSE Return(p) /\ UNCHANGED <<exists, charset>>
    /\ UNCHANGED <<holder, objects, rows, orphans, witnessed, fresh>>

----------------------------------------------------------------------------
(* The workspace in use, and Cleanup                                       *)

\* One CREATE of the workspace; ExecLogicalSchema has their order and retries.
ExecCreate(p, o) ==
    /\ pc[p] = "exec"
    /\ o \in Wanted[p] \ me[p].made
    /\ IF exists /\ o \notin objects
       THEN /\ objects' = objects \cup {o}
            /\ me' = [me EXCEPT ![p].made = @ \cup {o}]
       ELSE /\ me' = [me EXCEPT ![p].made = @ \cup {o}, ![p].failed = @ \cup {o}]
            /\ UNCHANGED objects
    /\ UNCHANGED <<holder, exists, rows, charset, conn, pc, dir, orphans, tainted,
                   witnessed, fresh>>

CleanupPhase(p) == IF p \in Keep THEN "keep" ELSE "drop"

\* IntrospectSchema; the deferred Cleanup follows, with the schema or with nil.
Introspect(p) ==
    /\ pc[p] = "exec" /\ me[p].made = Wanted[p]
    /\ CanQuery(p)
    /\ me' = [me EXCEPT ![p].seen = exists, ![p].view = objects,
                        ![p].phase = CleanupPhase(p)]
    /\ Go(p, "list")
    /\ UNCHANGED <<server, conn, orphans, tainted, witnessed, fresh>>

\* DROP DATABASE, which drops whatever the schema holds by now.
DropDatabase(p) ==
    /\ pc[p] = "dropdb"
    /\ exists' = FALSE /\ objects' = {} /\ rows' = {}
    /\ Return(p)
    /\ UNCHANGED <<holder, charset, orphans, witnessed, fresh>>

\* A query fails for good.  NewTempSchema and Cleanup return its error and
\* release the lock; when the workspace cannot be connected to or introspected,
\* Cleanup still runs, without a schema.
QueryFails(p) ==
    /\ "fail" \in Events
    /\ \/ /\ pc[p] \in {"check", "list", "routines", "alter", "create", "dropdb"}
          /\ Return(p)
       \/ /\ pc[p] = "exec" /\ me[p].made \in {{}, Wanted[p]}
          /\ me' = [me EXCEPT ![p].phase = CleanupPhase(p)]
          /\ Go(p, "list")
          /\ UNCHANGED <<conn, tainted>>
    /\ UNCHANGED <<server, orphans, witnessed, fresh>>

----------------------------------------------------------------------------
(* The end of a process, and the environment                               *)

\* The server closes every connection of p.
Disconnect(p) ==
    /\ conn' = [c \in Conns |-> IF c[1] = p THEN "closed" ELSE conn[c]]
    /\ holder' = IF \E k \in 1..Dirs : holder = <<p, k>> THEN None ELSE holder
    /\ tainted' = tainted \ {p}

\* The process exits; nothing waits for the maintainer goroutines.
Exit(p) ==
    /\ pc[p] = "next" /\ dir[p] = Dirs
    /\ Go(p, "done") /\ UNCHANGED me
    /\ Disconnect(p)
    /\ UNCHANGED <<exists, objects, rows, charset, orphans, witnessed, fresh>>

\* The process is killed.  The server closes the idle lock connection at once
\* but may still run a statement it has begun.
Crash(p) ==
    /\ "crash" \in Events
    /\ pc[p] \notin {"done", "dead"}
    /\ \E late \in {{}} \cup {{r} : r \in Running(p)} : orphans' = orphans \cup late
    /\ Go(p, "dead") /\ me' = [me EXCEPT ![p] = Fresh]
    /\ Disconnect(p)
    /\ UNCHANGED <<exists, objects, rows, charset, witnessed, fresh>>

OrphanLands(r) ==
    /\ r \in orphans
    /\ orphans' = orphans \ {r}
    /\ objects' = IF ~exists THEN objects
                  ELSE IF r[1] = "create" THEN objects \cup {r[2]}
                  ELSE objects \ {r[2]}
    /\ rows' = rows \cap objects'
    /\ tainted' = tainted \cup {p \in Procs : InSection(p)}
    /\ UNCHANGED <<holder, exists, charset, conn, pc, dir, me, witnessed, fresh>>

\* The server drops a lock connection (wait_timeout, KILL, network).
LoseConn(c) ==
    /\ "lose" \in Events
    /\ conn[c] = "held"
    /\ conn' = [conn EXCEPT ![c] = "lost"]
    /\ holder' = IF holder = c THEN None ELSE holder
    /\ tainted' = tainted \cup {c[1]}
    /\ UNCHANGED <<exists, objects, rows, charset, pc, dir, me, orphans, witnessed, fresh>>

\* Somebody writes a row to a table of the temporary schema, and creates the
\* table if it is not there.
UserWrites(t) ==
    /\ "user" \in Events
    /\ exists
    /\ objects' = objects \cup {t}
    /\ rows' = rows \cup {t}
    /\ fresh' = IF orphans # {} \/ \E p \in Procs : InSection(p)
                 THEN fresh \cup {t} ELSE fresh \ {t}
    /\ UNCHANGED <<holder, exists, charset, conn, pc, dir, me, orphans, tainted, witnessed>>

----------------------------------------------------------------------------

NewTempSchema(p) == HasSchema(p) \/ CreateSchema(p) \/ AlterSchema(p)

BulkDrop(p) ==
    \/ ListTables(p) \/ CancelDrops(p) \/ EndDropTables(p)
    \/ ListRoutines(p) \/ EndDropRoutines(p)
    \/ \E o \in Objects : ConfirmEmpty(p, o) \/ ConfirmFails(p, o)
                          \/ DropTable(p, o) \/ RetryDrop(p, o) \/ DropRoutine(p, o)

Process(p) ==
    \/ Begin(p) \/ GetConn(p) \/ GetLock(p) \/ GetLockTimesOut(p)
    \/ NewTempSchema(p) \/ BulkDrop(p)
    \/ Introspect(p) \/ DropDatabase(p) \/ Exit(p)
    \/ \E o \in Objects : ExecCreate(p, o)

Maintainer(c) == ReleaseLock(c) \/ PingFails(c)

Environment ==
    \/ \E p \in Procs : GetConnFails(p) \/ GetLockBreaks(p) \/ QueryFails(p) \/ Crash(p)
    \/ \E c \in Conns : LoseConn(c)
    \/ \E r \in orphans : OrphanLands(r)
    \/ \E t \in Objects \ Routines : UserWrites(t)

AllOver == \A p \in Procs : pc[p] \in {"done", "dead"}

Next ==
    \/ \E p \in Procs : Process(p)
    \/ \E c \in Conns : Maintainer(c)
    \/ Environment
    \/ AllOver /\ UNCHANGED vars

Spec == Init /\ [][Next]_vars

\* Processes and goroutines are scheduled fairly and queries are answered; what
\* the environment may do it need not do.
FairSpec == Spec /\ \A p \in Procs : WF_vars(Process(p))
                 /\ \A c \in Conns : WF_vars(Maintainer(c))

----------------------------------------------------------------------------
(* Properties                                                              *)

Labels == {"next", "conn", "get", "check", "list", "confirm", "drop", "routines",
           "droproutines", "alter", "create", "exec", "dropdb", "done", "dead"}

LocalVariables == [
    phase : {"start", "keep", "drop"},
    todo : SUBSET Objects, unchecked : SUBSET Objects, retries : SUBSET Objects,
    fatal : BOOLEAN, seen : BOOLEAN, view : SUBSET Objects,
    made : SUBSET Objects, failed : SUBSET Objects]

\* The values each variable ranges over.
TypeOK ==
    /\ holder \in Conns \cup {None}
    /\ exists \in BOOLEAN
    /\ objects \in SUBSET Objects /\ rows \in SUBSET Objects
    /\ conn \in [Conns -> {"unused", "open", "held", "lost", "leaked", "done",
                           "closed"}]
    /\ pc \in [Procs -> Labels] /\ dir \in [Procs -> 0..Dirs]
    /\ me \in [Procs -> LocalVariables]
    /\ orphans \in SUBSET ({"create", "drop"} \X Objects)
    /\ tainted \in SUBSET Procs
    /\ witnessed \in [Procs -> SUBSET Objects]
    /\ fresh \in SUBSET Objects

\* The lock does its job from getLock to the release, crashes, time-outs and
\* the asynchronous release included: unless a lock connection was dropped or a
\* statement outlived its process, no two processes are in their sections.
Exclusive ==
    \A p, q \in Procs \ tainted : InSection(p) /\ InSection(q) => p = q

\* What a process introspects is what it created, whatever an earlier run left
\* in the schema and however that run ended, but for tables that somebody else
\* writes to meanwhile.  The schema has the character set that was asked for; a
\* process that asks for none gets whatever an earlier one left.
Isolation ==
    \A p \in Procs \ tainted :
        (InSection(p) /\ me[p].seen) =>
            /\ me[p].view \ fresh = Wanted[p] \ fresh
            /\ me[p].failed \subseteq fresh
            /\ CharSet[p] \in {"none", charset}

\* "fail if any of them actually have 1 or more rows": a row that was in the
\* schema before skeema came is never destroyed, even when the lock was lost, by
\* no bulk drop, DROP DATABASE or abandoned statement; only rows that somebody
\* writes while skeema is at work there may be.
RowsSurvive == [][rows \ fresh \subseteq rows']_vars

\* "If any tables have any rows in the temp schema, the cleanup aborts": a row
\* that is there when a process begins to drop is not destroyed by it.  Cleanup
\* looks only at the tables that were introspected, and DROP DATABASE takes the
\* others too.
WitnessedRowsSurvive ==
    [][\A p \in Procs : DropDatabase(p) \/ (\E o \in Objects : DropTable(p, o) \/ RetryDrop(p, o))
           => witnessed[p] \cap (rows \ rows') = {}]_vars

\* LockTimeout is the "max wait for workspace user-level locking": a process
\* does not wait for the lock for ever.
WaitIsBounded ==
    \A p \in Procs : pc[p] \in {"conn", "get"} ~> pc[p] \notin {"conn", "get"}
=============================================================================
