-------------------------- MODULE TempSchemaProofs --------------------------
(***************************************************************************)
(* The temporary schema for any number of processes, workspaces and        *)
(* objects: the lock protocol is exclusive, a process whose section was    *)
(* not disturbed introspects what it created, and no row that was in the   *)
(* schema is destroyed.                                                    *)
(***************************************************************************)
EXTENDS TempSchema, TLAPS

\* The part of the type invariant that the lock protocol needs.
LockType ==
    /\ holder \in Conns \cup {None}
    /\ conn \in [Conns -> {"unused", "open", "held", "lost", "leaked", "done",
                           "closed"}]
    /\ pc \in [Procs -> Labels]
    /\ dir \in [Procs -> 0..Dirs]
    /\ tainted \in SUBSET Procs

\* The server's lock and the state of the lock connections agree.
OwnerIsLive == \A c \in Conns : conn[c] \in {"held", "done"} <=> holder = c

\* A process uses the connection of its own workspace, and none of a later one.
Ahead ==
    \A p \in Procs : pc[p] \notin {"done", "dead"} =>
        /\ \A k \in 1..Dirs : k > dir[p] => conn[<<p, k>>] = "unused"
        /\ pc[p] # "next" => dir[p] \in 1..Dirs
        /\ pc[p] = "conn" => conn[Mine(p)] = "unused"
        /\ pc[p] = "get" => conn[Mine(p)] = "open"

\* A process in its section owns the lock unless it is tainted.
SectionHolds ==
    \A p \in Procs \ tainted : InSection(p) => conn[Mine(p)] = "held"

LockInv == LockType /\ OwnerIsLive /\ Ahead /\ SectionHolds

Section == Labels \ {"next", "conn", "get", "done", "dead"}

----------------------------------------------------------------------------

LEMMA LockInit == Init => LockInv
BY ConstantsAssumption
DEF Init, LockInv, LockType, OwnerIsLive, Ahead, SectionHolds, InSection,
    Labels, Conns, Mine

\* A step inside the section of p that leaves the lock alone.
LEMMA WorkStep ==
    ASSUME LockInv, NEW p \in Procs, NEW l \in Section, InSection(p),
           Go(p, l), UNCHANGED <<holder, conn, tainted>>
    PROVE  LockInv'
<1>1. LockType'
  BY DEF LockInv, LockType, Go, Section
<1>2. OwnerIsLive'
  BY DEF LockInv, OwnerIsLive
<1>3. Ahead'
  BY DEF LockInv, LockType, Ahead, Go, Section, Mine, InSection
<1>4. SectionHolds'
  BY DEF LockInv, LockType, SectionHolds, Go, Section, Mine, InSection
<1> QED BY <1>1, <1>2, <1>3, <1>4 DEF LockInv

\* A step that leaves alone everything the lock protocol looks at.
LEMMA IdleStep ==
    ASSUME LockInv, UNCHANGED <<holder, conn, pc, dir, tainted>>
    PROVE  LockInv'
BY DEF LockInv, LockType, OwnerIsLive, Ahead, SectionHolds, InSection, Mine

\* The end of the section of p.
LEMMA ReturnStep ==
    ASSUME LockInv, NEW p \in Procs, InSection(p), Return(p), UNCHANGED holder
    PROVE  LockInv'
<1>0. Mine(p) \in Conns /\ dir[p] \in 1..Dirs
  BY DEF LockInv, Ahead, LockType, InSection, Mine, Conns
<1>1. LockType'
  BY <1>0 DEF LockInv, LockType, Return, Go, Labels
<1>2. OwnerIsLive'
  BY <1>0 DEF LockInv, LockType, OwnerIsLive, Return
<1>3. Ahead'
  BY <1>0 DEF LockInv, LockType, Ahead, Return, Go, Mine, InSection, Conns
<1>4. SectionHolds'
  BY <1>0 DEF LockInv, LockType, Ahead, SectionHolds, Return, Go, Mine,
              InSection, Conns
<1> QED BY <1>1, <1>2, <1>3, <1>4 DEF LockInv

LEMMA GetLockStep ==
    ASSUME LockInv, NEW p \in Procs,
           \/ GetConn(p) \/ GetConnFails(p) \/ GetLock(p)
           \/ GetLockTimesOut(p) \/ GetLockBreaks(p)
    PROVE  LockInv'
<1>0. /\ Mine(p) \in Conns /\ dir[p] \in 1..Dirs
      /\ pc[p] \in {"conn", "get"} /\ conn[Mine(p)] \in {"unused", "open"}
  BY DEF LockInv, Ahead, LockType, Mine, Conns, GetConn, GetConnFails, GetLock,
         GetLockTimesOut, GetLockBreaks
<1>1. LockType'
  BY <1>0 DEF LockInv, LockType, GetConn, GetConnFails, GetLock, GetLockTimesOut,
              GetLockBreaks, Go, Labels, server
<1>2. OwnerIsLive'
  BY <1>0, ConstantsAssumption
  DEF LockInv, LockType, OwnerIsLive, GetConn, GetConnFails, GetLock, GetLockTimesOut,
      GetLockBreaks, server, Conns
<1>3. Ahead'
  BY <1>0 DEF LockInv, LockType, Ahead, GetConn, GetConnFails, GetLock, GetLockTimesOut,
              GetLockBreaks, Go, Mine, Conns
<1>4. SectionHolds'
  BY <1>0 DEF LockInv, LockType, Ahead, SectionHolds, GetConn, GetConnFails, GetLock,
              GetLockTimesOut, GetLockBreaks, Go, Mine, InSection, Conns
<1> QED BY <1>1, <1>2, <1>3, <1>4 DEF LockInv

\* The next workspace is one whose connection was never used.
LEMMA BeginStep ==
    ASSUME LockInv, NEW p \in Procs, Begin(p)
    PROVE  LockInv'
<1>0. /\ pc[p] = "next" /\ dir[p] \in 0..Dirs /\ dir[p] < Dirs
      /\ pc' = [pc EXCEPT ![p] = "conn"] /\ dir' = [dir EXCEPT ![p] = @ + 1]
      /\ UNCHANGED <<holder, conn, tainted>>
  BY DEF Begin, server, LockInv, LockType
<1>1. LockType'
  BY <1>0, ConstantsAssumption DEF LockInv, LockType, Labels
<1>2. OwnerIsLive'
  BY <1>0 DEF LockInv, OwnerIsLive
<1>3. Ahead'
  BY <1>0, ConstantsAssumption DEF LockInv, LockType, Ahead, Mine
<1>4. SectionHolds'
  BY <1>0 DEF LockInv, LockType, SectionHolds, Mine, InSection
<1> QED BY <1>1, <1>2, <1>3, <1>4 DEF LockInv

\* The end of a process, in order or not, frees the lock it may own.
LEMMA EndStep ==
    ASSUME LockInv, NEW p \in Procs, NEW l \in {"done", "dead"},
           Go(p, l), Disconnect(p)
    PROVE  LockInv'
<1>1. LockType'
  BY DEF LockInv, LockType, Go, Disconnect, Labels
<1>2. OwnerIsLive'
  BY ConstantsAssumption
  DEF LockInv, LockType, OwnerIsLive, Disconnect, Conns
<1>3. Ahead'
  BY DEF LockInv, LockType, Ahead, Go, Disconnect, Mine, Conns
<1>4. SectionHolds'
  <2> SUFFICES ASSUME NEW q \in Procs, q \notin tainted', InSection(q)'
               PROVE  (conn[Mine(q)] = "held")'
    BY DEF SectionHolds
  <2>1. q # p /\ q \notin tainted /\ InSection(q)
    BY DEF LockInv, LockType, Go, Disconnect, InSection
  <2>2. conn[Mine(q)] = "held" /\ Mine(q) \in Conns /\ Mine(q)' = Mine(q)
    BY <2>1 DEF LockInv, LockType, Ahead, SectionHolds, InSection, Mine, Conns, Go
  <2> QED BY <2>1, <2>2 DEF Disconnect, Mine
<1> QED BY <1>1, <1>2, <1>3, <1>4 DEF LockInv

\* The maintainer of a connection, and the loss of one.
LEMMA ConnStep ==
    ASSUME LockInv, NEW c \in Conns, ReleaseLock(c) \/ PingFails(c) \/ LoseConn(c)
    PROVE  LockInv'
<1>0. /\ conn[c] \in {"done", "lost", "held"}
      /\ conn' \in {[conn EXCEPT ![c] = "closed"], [conn EXCEPT ![c] = "lost"]}
      /\ UNCHANGED <<pc, dir>>
  BY DEF ReleaseLock, PingFails, LoseConn
<1>1. LockType'
  BY <1>0 DEF LockInv, LockType, ReleaseLock, PingFails, LoseConn, server, Conns
<1>2. OwnerIsLive'
  BY ConstantsAssumption
  DEF LockInv, LockType, OwnerIsLive, ReleaseLock, PingFails, LoseConn, server, Conns
<1>3. Ahead'
  BY <1>0 DEF LockInv, LockType, Ahead, Mine, Conns
<1>4. SectionHolds'
  <2> SUFFICES ASSUME NEW q \in Procs, q \notin tainted', InSection(q)'
               PROVE  (conn[Mine(q)] = "held")'
    BY DEF SectionHolds
  <2>1. q \notin tainted /\ InSection(q)
    BY <1>0 DEF ReleaseLock, PingFails, LoseConn, InSection
  <2>2. conn[Mine(q)] = "held" /\ Mine(q) \in Conns /\ Mine(q)' = Mine(q)
    BY <2>1, <1>0 DEF LockInv, LockType, Ahead, SectionHolds, InSection, Mine, Conns
  <2>3. Mine(q) # c
    BY <2>2 DEF ReleaseLock, PingFails, LoseConn, Mine
  <2> QED BY <2>2, <2>3, <1>0 DEF LockInv, LockType
<1> QED BY <1>1, <1>2, <1>3, <1>4 DEF LockInv

\* A statement of a dead process taints every section it may fall into.
LEMMA OrphanStep ==
    ASSUME LockInv, NEW r \in orphans, OrphanLands(r)
    PROVE  LockInv'
BY DEF LockInv, LockType, OwnerIsLive, Ahead, SectionHolds, InSection, Mine, OrphanLands

----------------------------------------------------------------------------

\* What NewTempSchema, the bulk drops, the workspace and Cleanup do between
\* getLock and the release.
LEMMA SectionStep ==
    ASSUME LockInv, NEW p \in Procs,
           \/ NewTempSchema(p) \/ BulkDrop(p) \/ Introspect(p)
           \/ DropDatabase(p) \/ QueryFails(p)
           \/ \E o \in Objects : ExecCreate(p, o)
    PROVE  LockInv'
<1>1. CASE NewTempSchema(p)
  <2>1. InSection(p)
    BY <1>1 DEF NewTempSchema, HasSchema, CreateSchema, AlterSchema, InSection
  <2>2. \/ /\ UNCHANGED <<holder, conn, tainted>>
           /\ \E l \in Section : Go(p, l)
        \/ Return(p) /\ UNCHANGED holder
    BY <1>1 DEF NewTempSchema, HasSchema, CreateSchema, AlterSchema, Section,
                Labels, server
  <2> QED BY <2>1, <2>2, WorkStep, ReturnStep
<1>2. CASE BulkDrop(p)
  <2>1. CASE ListTables(p) \/ EndDropTables(p) \/ ListRoutines(p) \/ EndDropRoutines(p)
    <3>1. InSection(p)
      BY <2>1 DEF ListTables, EndDropTables, ListRoutines, EndDropRoutines, InSection
    <3>2. \/ /\ UNCHANGED <<holder, conn, tainted>>
             /\ \E l \in Section : Go(p, l)
          \/ Return(p) /\ UNCHANGED holder
      BY <2>1 DEF ListTables, EndDropTables, ListRoutines, EndDropRoutines,
                  AfterTables, Section, Labels, server
    <3> QED BY <3>1, <3>2, WorkStep, ReturnStep
  <2>2. CASE CancelDrops(p)
    BY <2>2, IdleStep DEF CancelDrops, server
  <2>3. CASE \E o \in Objects : DropTable(p, o) \/ DropRoutine(p, o)
    BY <2>3, IdleStep DEF DropTable, DropRoutine, Drop, server
  <2>4. CASE \E o \in Objects : ConfirmEmpty(p, o) \/ ConfirmFails(p, o)
    <3>1. InSection(p)
      BY <2>4 DEF ConfirmEmpty, ConfirmFails, InSection
    <3>2. \/ /\ UNCHANGED <<holder, conn, tainted>>
             /\ \E l \in Section : Go(p, l)
          \/ Return(p) /\ UNCHANGED holder
      BY <2>4 DEF ConfirmEmpty, ConfirmFails, Section, Labels, server
    <3> QED BY <3>1, <3>2, WorkStep, ReturnStep
  <2>5. CASE \E o \in Objects : RetryDrop(p, o)
    <3>1. InSection(p)
      BY <2>5 DEF RetryDrop, InSection
    <3>2. \/ UNCHANGED <<holder, conn, pc, dir, tainted>>
          \/ Return(p) /\ UNCHANGED holder
      BY <2>5 DEF RetryDrop, Drop, server
    <3> QED BY <3>1, <3>2, IdleStep, ReturnStep
  <2> QED BY <1>2, <2>1, <2>2, <2>3, <2>4, <2>5 DEF BulkDrop
<1>3. CASE Introspect(p) \/ DropDatabase(p) \/ QueryFails(p)
  <2>1. InSection(p)
    BY <1>3 DEF Introspect, DropDatabase, QueryFails, InSection
  <2>2. \/ /\ UNCHANGED <<holder, conn, tainted>>
           /\ \E l \in Section : Go(p, l)
        \/ Return(p) /\ UNCHANGED holder
    BY <1>3 DEF Introspect, DropDatabase, QueryFails, Section, Labels, server
  <2> QED BY <2>1, <2>2, WorkStep, ReturnStep
<1>4. CASE \E o \in Objects : ExecCreate(p, o)
  BY <1>4, IdleStep DEF ExecCreate
<1> QED BY <1>1, <1>2, <1>3, <1>4

LEMMA LockNext == LockInv /\ [Next]_vars => LockInv'
<1> SUFFICES ASSUME LockInv, [Next]_vars PROVE LockInv'
  OBVIOUS
<1>1. CASE \E p \in Procs : Process(p)
  <2> PICK p \in Procs : Process(p)
    BY <1>1
  <2>1. CASE Begin(p)
    BY <2>1, BeginStep
  <2>2. CASE GetConn(p) \/ GetLock(p) \/ GetLockTimesOut(p)
    BY <2>2, GetLockStep
  <2>3. CASE Exit(p)
    BY <2>3, EndStep DEF Exit
  <2> QED BY <2>1, <2>2, <2>3, SectionStep DEF Process
<1>2. CASE \E c \in Conns : Maintainer(c)
  BY <1>2, ConnStep DEF Maintainer
<1>3. CASE Environment
  <2>1. CASE \E p \in Procs : GetConnFails(p) \/ GetLockBreaks(p)
    BY <2>1, GetLockStep
  <2>2. CASE \E p \in Procs : QueryFails(p)
    BY <2>2, SectionStep
  <2>3. CASE \E p \in Procs : Crash(p)
    BY <2>3, EndStep DEF Crash
  <2>4. CASE \E c \in Conns : LoseConn(c)
    BY <2>4, ConnStep
  <2>5. CASE \E r \in orphans : OrphanLands(r)
    BY <2>5, OrphanStep
  <2>6. CASE \E t \in Objects \ Routines : UserWrites(t)
    BY <2>6, IdleStep DEF UserWrites
  <2> QED BY <1>3, <2>1, <2>2, <2>3, <2>4, <2>5, <2>6 DEF Environment
<1>4. CASE UNCHANGED vars
  BY <1>4, IdleStep DEF vars, server
<1> QED BY <1>1, <1>2, <1>3, <1>4 DEF Next

\* The lock of the server, the lock connections and the processes agree in
\* every reachable state.
THEOREM LockInvariance == Spec => []LockInv
<1>1. Init => LockInv
  BY LockInit
<1>2. LockInv /\ [Next]_vars => LockInv'
  BY LockNext
<1> QED BY <1>1, <1>2, PTL DEF Spec

\* Two processes are never both between getLock and the release function of
\* NewTempSchema, unless a lock connection was dropped or a statement outlived
\* the process that sent it.
THEOREM MutualExclusion == Spec => []Exclusive
<1>1. LockInv => Exclusive
  <2> SUFFICES ASSUME LockInv, NEW p \in Procs \ tainted, NEW q \in Procs \ tainted,
                      InSection(p), InSection(q)
               PROVE  p = q
    BY DEF Exclusive
  <2>1. /\ conn[Mine(p)] = "held" /\ Mine(p) \in Conns
        /\ conn[Mine(q)] = "held" /\ Mine(q) \in Conns
    BY DEF LockInv, LockType, Ahead, SectionHolds, InSection, Mine, Conns
  <2>2. Mine(p) = Mine(q)
    BY <2>1 DEF LockInv, OwnerIsLive
  <2> QED BY <2>2 DEF Mine
<1> QED BY <1>1, LockInvariance, PTL

----------------------------------------------------------------------------
(* The schema in the hands of one process                                  *)

\* While the lock connection of p is alive nobody else is in its section.
Alone ==
    \A p \in Procs \ tainted : InSection(p) =>
        \A q \in Procs : InSection(q) => q = p

\* What the local variables m of a process say about its label l.
OnCourse(l, m) ==
    /\ m.seen => m.phase # "start"
    /\ l \in {"conn", "get", "check", "create", "alter", "exec"} => m.phase = "start"
    /\ l \in {"routines", "droproutines"} => m.phase # "drop"
    /\ l = "dropdb" => m.phase = "drop"
    /\ l \in {"conn", "get"} => m = Fresh

Course == \A p \in Procs : OnCourse(pc[p], me[p])

\* NewTempSchema on its way to an empty schema, and the workspace in it, but for
\* the tables that somebody writes to meanwhile.
Emptying(p, l, m) ==
    /\ m.failed \subseteq fresh
    /\ l # "exec" => m.made = {}
    /\ l = "confirm" =>
          objects \ Routines \subseteq m.todo \cup fresh /\ m.retries = {}
    /\ l = "drop" =>
          m.fatal \/ objects \ Routines \subseteq m.todo \cup m.retries \cup fresh
    /\ l = "routines" => objects \subseteq Routines \cup fresh
    /\ l = "droproutines" => m.fatal \/ objects \subseteq m.todo \cup fresh
    /\ l = "alter" => objects \subseteq fresh
    /\ l = "exec" => /\ exists /\ objects \ fresh = m.made \ fresh
                     /\ CharSet[p] \in {"none", charset}

\* What was introspected is what the process wanted.
Seen(p, m) ==
    /\ m.view \ fresh = Wanted[p] \ fresh /\ m.failed \subseteq fresh
    /\ CharSet[p] \in {"none", charset}

\* The schema as NewTempSchema, the statements and Cleanup make it.
Owned ==
    /\ ~exists => objects = {}
    /\ \A p \in Procs \ tainted : InSection(p) =>
          /\ me[p].phase = "start" => Emptying(p, pc[p], me[p])
          /\ me[p].seen => Seen(p, me[p])

WorkInv == TypeOK /\ LockInv /\ Alone /\ Course /\ Owned

\* No process gets past confirmTablesEmpty while there are rows that were not
\* written since skeema came.
Confirmed(l, m) ==
    /\ l \notin Section => ~m.seen
    /\ m.seen => rows \ fresh \subseteq m.view
    /\ l = "confirm" => rows \ fresh \subseteq m.unchecked
    /\ l \in {"drop", "routines", "droproutines", "dropdb", "alter"} => rows \subseteq fresh

RowsKept ==
    /\ rows \subseteq objects \ Routines
    /\ \A p \in Procs : Confirmed(pc[p], me[p])
    /\ \A o \in Objects : <<"drop", o>> \in orphans => rows \subseteq fresh

----------------------------------------------------------------------------
(* Types                                                                   *)

\* What LockType does not have.
DataType ==
    /\ exists \in BOOLEAN
    /\ objects \in SUBSET Objects /\ rows \in SUBSET Objects
    /\ me \in [Procs -> LocalVariables]
    /\ orphans \in SUBSET ({"create", "drop"} \X Objects)
    /\ witnessed \in [Procs -> SUBSET Objects]
    /\ fresh \in SUBSET Objects

LEMMA TypeParts == TypeOK <=> LockType /\ DataType
BY DEF TypeOK, LockType, DataType

\* The local variables of p become m.
Sets(p, m) == me' = [me EXCEPT ![p] = m]

LEMMA SetsType ==
    ASSUME me \in [Procs -> LocalVariables], NEW p \in Procs, NEW m \in LocalVariables,
           Sets(p, m)
    PROVE  /\ me' \in [Procs -> LocalVariables] /\ me'[p] = m
           /\ \A q \in Procs \ {p} : me'[q] = me[q]
BY DEF Sets

\* The release of the lock forgets the local variables.
LEMMA ReturnType ==
    ASSUME me \in [Procs -> LocalVariables], NEW p \in Procs, Return(p)
    PROVE  me' \in [Procs -> LocalVariables]
<1>1. Fresh \in LocalVariables
  BY DEF Fresh, LocalVariables
<1> QED BY <1>1 DEF Return

LEMMA RunningType ==
    ASSUME DataType, NEW p \in Procs
    PROVE  Running(p) \subseteq {"create", "drop"} \X Objects
<1>1. me[p] \in LocalVariables /\ Wanted[p] \subseteq Objects /\ me[p].todo \subseteq Objects
  BY ConstantsAssumption DEF DataType, LocalVariables
<1>2. CASE pc[p] = "exec"
  BY <1>1, <1>2 DEF Running
<1>3. CASE pc[p] \in {"drop", "droproutines"}
  <2>1. Running(p) = {<<"drop", o>> : o \in me[p].todo}
    BY <1>3 DEF Running
  <2> QED BY <1>1, <2>1
<1>4. CASE pc[p] \notin {"exec", "drop", "droproutines"}
  <2>1. Running(p) = {}
    BY <1>4 DEF Running
  <2> QED BY <2>1
<1> QED BY <1>2, <1>3, <1>4

\* The local variables after the steps that change them.
LEMMA LocalsType ==
    ASSUME DataType, NEW p \in Procs
    PROVE  /\ me[p] \in LocalVariables /\ Fresh \in LocalVariables
           /\ \A s \in SUBSET Objects :
                /\ [me[p] EXCEPT !.todo = s, !.unchecked = s, !.retries = {},
                                 !.fatal = FALSE] \in LocalVariables
                /\ [me[p] EXCEPT !.todo = s] \in LocalVariables
                /\ [me[p] EXCEPT !.unchecked = s] \in LocalVariables
                /\ [me[p] EXCEPT !.retries = s] \in LocalVariables
                /\ [me[p] EXCEPT !.made = s] \in LocalVariables
                /\ [me[p] EXCEPT !.todo = s, !.fatal = TRUE] \in LocalVariables
           /\ \A s, t \in SUBSET Objects :
                /\ [me[p] EXCEPT !.todo = s, !.retries = t] \in LocalVariables
                /\ [me[p] EXCEPT !.made = s, !.failed = t] \in LocalVariables
           /\ \A x \in {"start", "keep", "drop"} : [me[p] EXCEPT !.phase = x] \in LocalVariables
           /\ \A x \in {"start", "keep", "drop"}, e \in BOOLEAN, s \in SUBSET Objects :
                [me[p] EXCEPT !.seen = e, !.view = s, !.phase = x] \in LocalVariables
<1>1. me[p] \in LocalVariables
  BY DEF DataType
<1>2. Fresh \in LocalVariables
  BY DEF Fresh, LocalVariables
<1> QED BY <1>1, <1>2 DEF LocalVariables

LEMMA TypeInit == Init => TypeOK
<1> SUFFICES ASSUME Init PROVE TypeOK
  OBVIOUS
<1>1. Fresh \in LocalVariables /\ 0 \in 0..Dirs
  BY ConstantsAssumption DEF Fresh, LocalVariables
<1>2. objects \in SUBSET Objects /\ exists \in BOOLEAN
  BY DEF Init
<1>3. rows \in SUBSET Objects
  BY <1>2 DEF Init
<1> QED BY <1>1, <1>2, <1>3 DEF Init, TypeOK, Labels

\* The steps of a process in its section that change its local variables.
LEMMA BulkDropType ==
    ASSUME DataType, NEW p \in Procs, BulkDrop(p)
    PROVE  DataType'
<1>. me[p] \in LocalVariables
  BY LocalsType
<1>0. /\ me[p].todo \in SUBSET Objects /\ me[p].unchecked \in SUBSET Objects
      /\ me[p].retries \in SUBSET Objects
  BY DEF LocalVariables
<1>1. \A kind \in SUBSET Objects : Listed(p, kind) \in SUBSET Objects
  <2> SUFFICES ASSUME NEW kind \in SUBSET Objects PROVE Listed(p, kind) \in SUBSET Objects
    OBVIOUS
  <2>1. CASE me[p].seen
    <3>1. Listed(p, kind) = kind \cap me[p].view
      BY <2>1 DEF Listed
    <3> QED BY <3>1
  <2>2. CASE ~me[p].seen
    <3>1. Listed(p, kind) = kind \cap objects
      BY <2>2 DEF Listed
    <3> QED BY <3>1
  <2> QED BY <2>1, <2>2
<1>2. CASE ListTables(p)
  <2>1. PICK m \in LocalVariables : Sets(p, m)
    BY <1>1, <1>2, LocalsType DEF ListTables, Sets
  <2> QED BY <1>2, <2>1, SetsType DEF ListTables, DataType, server
<1>3. CASE ListRoutines(p)
  <2>1. PICK m \in LocalVariables : Sets(p, m)
    BY <1>1, <1>3, LocalsType, ConstantsAssumption DEF ListRoutines, Sets
  <2> QED BY <1>3, <2>1, SetsType DEF ListRoutines, DataType, server
<1>4. CASE CancelDrops(p)
  <2>1. PICK m \in LocalVariables : Sets(p, m)
    BY <1>4, LocalsType DEF CancelDrops, Sets
  <2>2. orphans' \in SUBSET ({"create", "drop"} \X Objects)
    BY <1>4, RunningType DEF CancelDrops, DataType
  <2> QED BY <1>4, <2>1, <2>2, SetsType DEF CancelDrops, DataType, server
<1>5. CASE EndDropTables(p) \/ EndDropRoutines(p)
  BY <1>5, ReturnType DEF EndDropTables, EndDropRoutines, DataType, server
<1>6. ASSUME NEW o \in Objects, ConfirmEmpty(p, o) \/ ConfirmFails(p, o) PROVE DataType'
  <2>1. CASE ConfirmEmpty(p, o)
    <3>1. PICK m \in LocalVariables : Sets(p, m)
      BY <1>0, <2>1, LocalsType DEF ConfirmEmpty, Sets
    <3> QED BY <2>1, <3>1, SetsType DEF ConfirmEmpty, DataType, server
  <2>2. CASE ConfirmFails(p, o)
    BY <2>2, ReturnType DEF ConfirmFails, DataType, server
  <2> QED BY <1>6, <2>1, <2>2
<1>7. ASSUME NEW o \in Objects, DropTable(p, o) \/ DropRoutine(p, o) PROVE DataType'
  <2>1. PICK m \in LocalVariables : Sets(p, m)
    <3>1. me[p].todo \ {o} \in SUBSET Objects /\ me[p].retries \cup {o} \in SUBSET Objects
      BY <1>0
    <3>2. \/ me' = [me EXCEPT ![p].todo = @ \ {o}]
          \/ me' = [me EXCEPT ![p].todo = @ \ {o}, ![p].fatal = TRUE]
          \/ me' = [me EXCEPT ![p].todo = @ \ {o}, ![p].retries = @ \cup {o}]
      BY <1>7 DEF DropTable, DropRoutine
    <3>3. CASE me' = [me EXCEPT ![p].todo = @ \ {o}]
      BY <3>1, <3>3, LocalsType DEF Sets
    <3>4. CASE me' = [me EXCEPT ![p].todo = @ \ {o}, ![p].fatal = TRUE]
      BY <3>1, <3>4, LocalsType DEF Sets
    <3>5. CASE me' = [me EXCEPT ![p].todo = @ \ {o}, ![p].retries = @ \cup {o}]
      BY <3>1, <3>5, LocalsType DEF Sets
    <3> QED BY <3>2, <3>3, <3>4, <3>5
  <2> QED BY <1>7, <2>1, SetsType DEF DropTable, DropRoutine, Drop, DataType, server
<1>8. ASSUME NEW o \in Objects, RetryDrop(p, o) PROVE DataType'
  <2>1. CASE Drop(o) /\ me' = [me EXCEPT ![p].retries = @ \ {o}]
    <3>1. PICK m \in LocalVariables : Sets(p, m)
      BY <1>0, <2>1, LocalsType DEF Sets
    <3> QED BY <1>8, <2>1, <3>1, SetsType DEF RetryDrop, Drop, DataType
  <2>2. CASE Return(p) /\ UNCHANGED server
    BY <1>8, <2>2, ReturnType DEF RetryDrop, DataType, server
  <2> QED BY <1>8, <2>1, <2>2 DEF RetryDrop
<1> QED BY <1>2, <1>3, <1>4, <1>5, <1>6, <1>7, <1>8 DEF BulkDrop

LEMMA DataNext ==
    ASSUME DataType, Next
    PROVE  DataType'
<1>1. ASSUME NEW p \in Procs, Process(p) PROVE DataType'
  <2>1. CASE Begin(p)
    <3>1. Sets(p, Fresh) /\ Fresh \in LocalVariables
      BY <2>1, LocalsType DEF Begin, Sets
    <3> QED BY <2>1, <3>1, SetsType DEF Begin, DataType, server
  <2>2. CASE GetConn(p) \/ GetLock(p) \/ GetLockTimesOut(p) \/ NewTempSchema(p) \/ Exit(p)
    BY <2>2, ReturnType
    DEF GetConn, GetLock, GetLockTimesOut, NewTempSchema, HasSchema, CreateSchema,
        AlterSchema, Exit, DataType, server
  <2>3. CASE Introspect(p)
    <3>1. PICK m \in LocalVariables : Sets(p, m)
      BY <2>3, LocalsType DEF Introspect, Sets, CleanupPhase, DataType
    <3> QED BY <2>3, <3>1, SetsType DEF Introspect, DataType, server
  <2>4. CASE DropDatabase(p)
    BY <2>4, ReturnType DEF DropDatabase, DataType
  <2>5. ASSUME NEW o \in Objects, ExecCreate(p, o) PROVE DataType'
    <3>0. me[p] \in LocalVariables
      BY LocalsType
    <3>1. me[p].made \cup {o} \in SUBSET Objects /\ me[p].failed \cup {o} \in SUBSET Objects
      BY <3>0 DEF LocalVariables
    <3>2. PICK m \in LocalVariables : Sets(p, m)
      <4>1. CASE me' = [me EXCEPT ![p].made = @ \cup {o}]
        BY <3>1, <4>1, LocalsType DEF Sets
      <4>2. CASE me' = [me EXCEPT ![p].made = @ \cup {o}, ![p].failed = @ \cup {o}]
        BY <3>1, <4>2, LocalsType DEF Sets
      <4> QED BY <2>5, <4>1, <4>2 DEF ExecCreate
    <3> QED BY <2>5, <3>2, SetsType DEF ExecCreate, DataType
  <2> QED BY <1>1, <2>1, <2>2, <2>3, <2>4, <2>5, BulkDropType DEF Process
<1>2. ASSUME NEW c \in Conns, Maintainer(c) \/ LoseConn(c) PROVE DataType'
  BY <1>2 DEF Maintainer, ReleaseLock, PingFails, LoseConn, DataType, server
<1>3. ASSUME NEW p \in Procs, GetConnFails(p) \/ GetLockBreaks(p) PROVE DataType'
  BY <1>3 DEF GetConnFails, GetLockBreaks, DataType, server
<1>4. ASSUME NEW p \in Procs, QueryFails(p) PROVE DataType'
  <2>1. CASE Return(p)
    BY <1>4, <2>1, ReturnType DEF QueryFails, DataType, server
  <2>2. CASE me' = [me EXCEPT ![p].phase = CleanupPhase(p)]
    <3>1. PICK m \in LocalVariables : Sets(p, m)
      BY <2>2, LocalsType DEF Sets, CleanupPhase
    <3> QED BY <1>4, <3>1, SetsType DEF QueryFails, DataType, server
  <2> QED BY <1>4, <2>1, <2>2 DEF QueryFails
<1>5. ASSUME NEW p \in Procs, Crash(p) PROVE DataType'
  <2>1. orphans' \in SUBSET ({"create", "drop"} \X Objects)
    BY <1>5, RunningType DEF Crash, DataType
  <2>2. Sets(p, Fresh) /\ Fresh \in LocalVariables
    BY <1>5, LocalsType DEF Crash, Sets
  <2> QED BY <1>5, <2>1, <2>2, SetsType DEF Crash, DataType
<1>6. ASSUME NEW r \in orphans, OrphanLands(r) PROVE DataType'
  BY <1>6 DEF OrphanLands, DataType
<1>7. ASSUME NEW t \in Objects \ Routines, UserWrites(t) PROVE DataType'
  BY <1>7 DEF UserWrites, DataType
<1>8. CASE AllOver /\ UNCHANGED vars
  BY <1>8 DEF vars, server, DataType
<1> QED BY <1>1, <1>2, <1>3, <1>4, <1>5, <1>6, <1>7, <1>8 DEF Next, Environment

\* Every variable keeps its type, for any number of processes, workspaces and
\* objects and under every event.
THEOREM Typing == Spec => []TypeOK
<1>1. TypeOK /\ LockInv /\ [Next]_vars => TypeOK'
  <2> SUFFICES ASSUME TypeOK, LockInv, [Next]_vars PROVE TypeOK'
    OBVIOUS
  <2>1. LockInv'
    BY LockNext
  <2>2. DataType'
    BY DataNext, TypeParts DEF vars, server, DataType
  <2> QED BY <2>1, <2>2 DEF TypeOK, DataType, LockInv, LockType
<1> QED BY <1>1, TypeInit, LockInvariance, PTL DEF Spec

----------------------------------------------------------------------------
(* The workspace belongs to the process that holds the lock                *)

\* Process p goes to label l with the local variables m.
Moves(p, l, m) == pc' = [pc EXCEPT ![p] = l] /\ Sets(p, m)

\* A step of p that brings nobody into a section: it keeps the schema as p's
\* place in the code says, and disturbs nobody else, when p changes the schema
\* only in its own section.
LEMMA Undisturbed ==
    ASSUME WorkInv, NEW p \in Procs, NEW l \in Labels, NEW m \in LocalVariables,
           Moves(p, l, m), tainted \ {p} \subseteq tainted',
           l \in Section => InSection(p) /\ (p \in tainted => p \in tainted'),
           InSection(p) \/ UNCHANGED <<exists, objects, charset>>, UNCHANGED fresh,
           ~exists' => objects' = {},
           OnCourse(l, m),
           (p \notin tainted /\ l \in Section) =>
               /\ m.phase = "start" => Emptying(p, l, m)'
               /\ m.seen => Seen(p, m)'
    PROVE  Alone' /\ Course' /\ Owned'
<1>. pc \in [Procs -> Labels] /\ me \in [Procs -> LocalVariables]
  BY DEF WorkInv, TypeOK
<1>1. /\ pc'[p] = l /\ me'[p] = m
      /\ \A q \in Procs \ {p} : pc'[q] = pc[q] /\ me'[q] = me[q]
  BY DEF Moves, Sets
<1>2. InSection(p)' => l \in Section
  BY <1>1 DEF InSection, Section
<1>3. \A q \in Procs : InSection(q)' => InSection(q) /\ (q \notin tainted' => q \notin tainted)
  BY <1>1, <1>2 DEF InSection
<1>4. Alone'
  BY <1>3 DEF Alone, WorkInv
<1>5. Course'
  BY <1>1 DEF Course, WorkInv
<1>6. Owned'
  <2> SUFFICES ASSUME NEW q \in Procs, q \notin tainted', InSection(q)'
               PROVE  /\ me'[q].phase = "start" => Emptying(q, pc[q], me[q])'
                      /\ me'[q].seen => Seen(q, me[q])'
    BY DEF Owned
  <2>1. InSection(q) /\ q \notin tainted
    BY <1>3
  <2>2. CASE q = p
    BY <1>1, <1>2, <2>1, <2>2 DEF Emptying, Seen
  <2>3. CASE q # p
    <3>1. ~InSection(p)
      BY <2>1, <2>3 DEF WorkInv, Alone
    <3>2. UNCHANGED <<exists, objects, charset>> /\ pc'[q] = pc[q] /\ me'[q] = me[q]
      BY <1>1, <2>3, <3>1
    <3>3. /\ me[q].phase = "start" => Emptying(q, pc[q], me[q])
          /\ me[q].seen => Seen(q, me[q])
      BY <2>1 DEF WorkInv, Owned
    <3> QED BY <3>2, <3>3 DEF Emptying, Seen
  <2> QED BY <2>2, <2>3
<1> QED BY <1>4, <1>5, <1>6

\* What WorkInv says of process p in its section.
LEMMA InWork ==
    ASSUME WorkInv, NEW p \in Procs
    PROVE  /\ me[p] \in LocalVariables /\ OnCourse(pc[p], me[p])
           /\ pc[p] \in Labels /\ (pc[p] \in Section <=> InSection(p))
           /\ ~exists => objects = {}
           /\ (p \notin tainted /\ InSection(p)) =>
                 /\ me[p].phase = "start" => Emptying(p, pc[p], me[p])
                 /\ me[p].seen => Seen(p, me[p])
BY DEF WorkInv, TypeOK, Course, Owned, InSection, Section

\* A step that leaves alone the labels, the local variables and the schema.
LEMMA ElsewhereWork ==
    ASSUME WorkInv, UNCHANGED <<exists, objects, charset, pc, me, fresh>>,
           tainted \subseteq tainted'
    PROVE  Alone' /\ Course' /\ Owned'
<1>1. \A q \in Procs : InSection(q)' = InSection(q)
  BY DEF InSection
<1>2. Alone'
  BY <1>1 DEF WorkInv, Alone
<1>3. Course'
  BY DEF WorkInv, Course
<1>4. Owned'
  BY <1>1 DEF WorkInv, Owned, Emptying, Seen
<1> QED BY <1>2, <1>3, <1>4

\* The release of the lock, with or without a last change of the schema.
LEMMA ReturnWork ==
    ASSUME WorkInv, NEW p \in Procs, InSection(p), Return(p), UNCHANGED fresh,
           ~exists' => objects' = {}
    PROVE  Alone' /\ Course' /\ Owned'
<1>1. Fresh \in LocalVariables
  BY DEF Fresh, LocalVariables
<1>2. OnCourse("next", Fresh)
  BY DEF OnCourse, Fresh
<1>3. Moves(p, "next", Fresh)
  BY DEF Return, Go, Moves, Sets
<1>4. "next" \in Labels /\ "next" \notin Section
  BY DEF Labels, Section
<1>5. tainted \ {p} \subseteq tainted'
  BY DEF Return
<1> QED BY <1>1, <1>2, <1>3, <1>4, <1>5, Undisturbed

\* getLock is where a process enters its section: the server's lock was free, so
\* that who is in its section has lost its connection, which taints p too.
LEMMA GetLockWork ==
    ASSUME WorkInv, NEW p \in Procs, GetLock(p)
    PROVE  Alone' /\ Course' /\ Owned'
<1>. pc \in [Procs -> Labels] /\ me \in [Procs -> LocalVariables]
  BY DEF WorkInv, TypeOK
<1>1. \A q \in Procs : InSection(q) => q \in tainted
  <2> SUFFICES ASSUME NEW q \in Procs, InSection(q), q \notin tainted PROVE FALSE
    OBVIOUS
  <2>1. conn[Mine(q)] = "held" /\ Mine(q) \in Conns
    BY DEF WorkInv, LockInv, LockType, Ahead, SectionHolds, InSection, Mine, Conns
  <2>2. holder = Mine(q)
    BY <2>1 DEF WorkInv, LockInv, OwnerIsLive
  <2> QED BY <2>1, <2>2, ConstantsAssumption DEF GetLock, Conns
<1>2. /\ pc'[p] = "check" /\ ~InSection(p) /\ me' = me
      /\ \A q \in Procs \ {p} : pc'[q] = pc[q]
      /\ UNCHANGED <<exists, objects, charset>> /\ tainted \subseteq tainted'
  BY DEF GetLock, Go, InSection
<1>3. me[p] = Fresh
  BY DEF GetLock, WorkInv, Course, OnCourse
<1>4. \A q \in Procs \ {p} : InSection(q)' => InSection(q) /\ p \in tainted' /\ q \in tainted'
  BY <1>1, <1>2 DEF GetLock, InSection
<1>5. Alone'
  BY <1>4 DEF Alone
<1>6. Course'
  BY <1>2, <1>3 DEF WorkInv, Course, OnCourse, Fresh
<1>7. Owned'
  <2> SUFFICES ASSUME NEW q \in Procs, q \notin tainted', InSection(q)'
               PROVE  /\ me'[q].phase = "start" => Emptying(q, pc[q], me[q])'
                      /\ me'[q].seen => Seen(q, me[q])'
    BY <1>2 DEF Owned, WorkInv
  <2>1. q = p
    BY <1>4
  <2> QED BY <1>2, <1>3, <2>1 DEF Emptying, Seen, Fresh
<1> QED BY <1>5, <1>6, <1>7

\* The other steps of getLock.
LEMMA WaitWork ==
    ASSUME WorkInv, NEW p \in Procs,
           \/ Begin(p) \/ GetConn(p) \/ GetConnFails(p)
           \/ GetLockTimesOut(p) \/ GetLockBreaks(p)
    PROVE  Alone' /\ Course' /\ Owned'
<1>1. /\ me[p] \in LocalVariables /\ OnCourse(pc[p], me[p]) /\ Fresh \in LocalVariables
      /\ me \in [Procs -> LocalVariables]
  BY InWork DEF WorkInv, TypeOK, Fresh, LocalVariables
<1>2. PICK l \in Labels \ Section, m \in LocalVariables : Moves(p, l, m) /\ OnCourse(l, m)
  <2>0. {"next", "conn", "get"} \subseteq Labels \ Section
    BY DEF Labels, Section
  <2>1. CASE Begin(p)
    <3>1. OnCourse("conn", Fresh)
      BY DEF OnCourse, Fresh
    <3> QED BY <1>1, <2>0, <2>1, <3>1 DEF Begin, Moves, Sets
  <2>2. CASE GetConn(p)
    <3>1. OnCourse("get", me[p])
      BY <1>1, <2>2 DEF OnCourse, GetConn
    <3> QED BY <1>1, <2>0, <2>2, <3>1 DEF GetConn, Go, Moves, Sets
  <2>3. CASE GetConnFails(p) \/ GetLockTimesOut(p) \/ GetLockBreaks(p)
    <3>1. OnCourse("next", me[p])
      BY <1>1 DEF OnCourse
    <3> QED BY <1>1, <2>0, <2>3, <3>1
        DEF GetConnFails, GetLockTimesOut, GetLockBreaks, Go, Moves, Sets
  <2> QED BY <2>1, <2>2, <2>3
<1>3. UNCHANGED <<exists, objects, charset, tainted, fresh>>
  BY DEF Begin, GetConn, GetConnFails, GetLockTimesOut, GetLockBreaks, server
<1>4. ~exists' => objects' = {}
  BY <1>3 DEF WorkInv, Owned
<1> QED BY <1>2, <1>3, <1>4, Undisturbed

\* A step of p inside its section, with the section as its target.
LEMMA SectionWork ==
    ASSUME WorkInv, NEW p \in Procs, NEW l \in Section, NEW m \in LocalVariables,
           InSection(p), Moves(p, l, m), UNCHANGED <<tainted, fresh>>,
           ~exists' => objects' = {}, OnCourse(l, m),
           p \notin tainted => /\ m.phase = "start" => Emptying(p, l, m)'
                               /\ m.seen => Seen(p, m)'
    PROVE  Alone' /\ Course' /\ Owned'
<1>1. l \in Labels /\ tainted \ {p} \subseteq tainted'
  BY DEF Section
<1> QED BY <1>1, Undisturbed

LEMMA NewTempSchemaWork ==
    ASSUME WorkInv, NEW p \in Procs, NewTempSchema(p)
    PROVE  Alone' /\ Course' /\ Owned'
<1>1. /\ me[p] \in LocalVariables /\ OnCourse(pc[p], me[p])
      /\ InSection(p) /\ (~exists => objects = {}) /\ me \in [Procs -> LocalVariables]
      /\ pc[p] \in {"check", "alter", "create"}
  BY InWork DEF WorkInv, TypeOK, InSection, NewTempSchema, HasSchema, CreateSchema, AlterSchema
<1>2. me[p].phase = "start" /\ ~me[p].seen
  BY <1>1 DEF OnCourse, LocalVariables
<1>3. p \notin tainted => Emptying(p, pc[p], me[p])
  BY <1>1, <1>2, InWork
<1>4. CASE Return(p) /\ UNCHANGED <<exists, objects, fresh>>
  BY <1>1, <1>4, ReturnWork
<1>5. ASSUME NEW l \in {"list", "create", "exec"}, Go(p, l), UNCHANGED <<me, tainted, fresh>>,
             ~exists' => objects' = {}, p \notin tainted => Emptying(p, l, me[p])'
      PROVE  Alone' /\ Course' /\ Owned'
  <2>1. Moves(p, l, me[p]) /\ l \in Section
    BY <1>1, <1>5 DEF Go, Moves, Sets, Section, Labels
  <2>2. OnCourse(l, me[p])
    BY <1>2, <1>5 DEF OnCourse
  <2>3. PICK m \in LocalVariables : m = me[p] /\ UNCHANGED me
    BY <1>1, <1>5
  <2>4. p \notin tainted => Emptying(p, l, m)'
    BY <1>5, <2>3
  <2> QED BY <1>1, <1>2, <1>5, <2>1, <2>2, <2>3, <2>4, SectionWork
<1>6. CASE HasSchema(p)
  <2>1. ASSUME NEW l \in {"list", "create"} PROVE p \notin tainted => Emptying(p, l, me[p])'
    BY <1>3, <1>6 DEF HasSchema, Emptying, server
  <2> QED BY <1>1, <1>5, <1>6, <2>1 DEF HasSchema, server
<1>7. CASE CreateSchema(p)
  <2>1. CASE ~exists
    <3>1. p \notin tainted => Emptying(p, "exec", me[p])'
      BY <1>1, <1>3, <1>7, <2>1 DEF CreateSchema, Emptying
    <3> QED BY <1>5, <1>7, <2>1, <3>1 DEF CreateSchema
  <2> QED BY <1>4, <1>7, <2>1 DEF CreateSchema
<1>8. CASE AlterSchema(p)
  <2>1. CASE exists
    <3>1. p \notin tainted => Emptying(p, "exec", me[p])'
      BY <1>1, <1>3, <1>8, <2>1 DEF AlterSchema, Emptying
    <3> QED BY <1>5, <1>8, <2>1, <3>1 DEF AlterSchema
  <2> QED BY <1>4, <1>8, <2>1 DEF AlterSchema
<1> QED BY <1>6, <1>7, <1>8 DEF NewTempSchema

\* The lists of tables and of routines.
LEMMA ListWork ==
    ASSUME WorkInv, NEW p \in Procs, ListTables(p) \/ ListRoutines(p)
    PROVE  Alone' /\ Course' /\ Owned'
<1>1. /\ me[p] \in LocalVariables /\ OnCourse(pc[p], me[p])
      /\ InSection(p) /\ (~exists => objects = {}) /\ me \in [Procs -> LocalVariables]
      /\ pc[p] \in {"list", "routines"} /\ objects \subseteq Objects
      /\ UNCHANGED <<exists, objects, charset, tainted, fresh>>
  BY InWork DEF WorkInv, TypeOK, InSection, ListTables, ListRoutines, server
<1>2. p \notin tainted => /\ me[p].phase = "start" => Emptying(p, pc[p], me[p])
                          /\ me[p].seen => Seen(p, me[p])
  BY <1>1, InWork
<1>3. me[p].phase = "start" => \A kind : Listed(p, kind) = kind \cap objects
  BY <1>1 DEF OnCourse, Listed
<1>4. DataType
  BY TypeParts DEF WorkInv
<1>5. CASE ListTables(p)
  <2>1. PICK names : names = Listed(p, Objects \ Routines)
    OBVIOUS
  <2>2. names \in SUBSET Objects
    BY <1>1, <2>1 DEF Listed
  <2>3. PICK m \in LocalVariables :
           m = [me[p] EXCEPT !.todo = names, !.unchecked = names, !.retries = {}, !.fatal = FALSE]
    BY <1>4, <2>2, LocalsType
  <2>4. PICK l \in {"routines", "dropdb", "confirm"} :
           l = IF names = {} THEN AfterTables(p) ELSE "confirm"
    BY DEF AfterTables
  <2>5. Moves(p, l, m)
    BY <1>1, <1>5, <2>1, <2>3, <2>4 DEF ListTables, Go, Moves, Sets
  <2>6. /\ m.phase = me[p].phase /\ m.seen = me[p].seen /\ m.view = me[p].view
        /\ m.failed = me[p].failed /\ m.made = me[p].made /\ m.todo = names /\ m.retries = {}
    BY <1>1, <2>3 DEF LocalVariables
  <2>7. OnCourse(l, m)
    BY <1>1, <2>4, <2>6 DEF OnCourse, AfterTables
  <2>8. p \notin tainted /\ m.phase = "start" => Emptying(p, l, m)'
    <3> SUFFICES ASSUME p \notin tainted, m.phase = "start" PROVE Emptying(p, l, m)'
      OBVIOUS
    <3>1. names = (Objects \ Routines) \cap objects /\ l \in {"routines", "confirm"}
      BY <1>3, <2>1, <2>4, <2>6 DEF AfterTables
    <3>2. l = "routines" => names = {}
      BY <2>4
    <3>3. m.failed \subseteq fresh /\ m.made = {}
      BY <1>2, <1>5, <2>6 DEF Emptying, ListTables
    <3> QED BY <1>1, <2>6, <3>1, <3>2, <3>3 DEF Emptying
  <2>9. p \notin tainted /\ m.seen => Seen(p, m)'
    BY <1>1, <1>2, <2>6 DEF Seen
  <2>10. l \in Section
    BY DEF Section, Labels
  <2> QED BY <1>1, <2>5, <2>7, <2>8, <2>9, <2>10, SectionWork
<1>6. CASE ListRoutines(p)
  <2>1. PICK names : names = Listed(p, Routines)
    OBVIOUS
  <2>2. names \in SUBSET Objects
    BY <1>1, <2>1, ConstantsAssumption DEF Listed
  <2>3. PICK m \in LocalVariables : m = [me[p] EXCEPT !.todo = names]
    BY <1>4, <2>2, LocalsType
  <2>4. Moves(p, "droproutines", m)
    BY <1>1, <1>6, <2>1, <2>3 DEF ListRoutines, Go, Moves, Sets
  <2>5. /\ m.phase = me[p].phase /\ m.seen = me[p].seen /\ m.view = me[p].view
        /\ m.failed = me[p].failed /\ m.made = me[p].made /\ m.todo = names
    BY <1>1, <2>3 DEF LocalVariables
  <2>6. OnCourse("droproutines", m)
    BY <1>1, <1>6, <2>5 DEF OnCourse, ListRoutines
  <2>7. p \notin tainted /\ m.phase = "start" => Emptying(p, "droproutines", m)'
    <3> SUFFICES ASSUME p \notin tainted, m.phase = "start"
                 PROVE  Emptying(p, "droproutines", m)'
      OBVIOUS
    <3>1. names = Routines \cap objects
      BY <1>3, <2>1, <2>5
    <3>2. m.failed \subseteq fresh /\ m.made = {} /\ objects \subseteq Routines \cup fresh
      BY <1>2, <1>6, <2>5 DEF Emptying, ListRoutines
    <3> QED BY <1>1, <2>5, <3>1, <3>2 DEF Emptying
  <2>8. p \notin tainted /\ m.seen => Seen(p, m)'
    BY <1>1, <1>2, <2>5 DEF Seen
  <2>9. "droproutines" \in Section
    BY DEF Section, Labels
  <2> QED BY <1>1, <2>4, <2>6, <2>7, <2>8, <2>9, SectionWork
<1> QED BY <1>5, <1>6

\* confirmTablesEmpty.
LEMMA ConfirmWork ==
    ASSUME WorkInv, NEW p \in Procs, NEW t \in Objects,
           ConfirmEmpty(p, t) \/ ConfirmFails(p, t)
    PROVE  Alone' /\ Course' /\ Owned'
<1>1. /\ me[p] \in LocalVariables /\ OnCourse("confirm", me[p])
      /\ InSection(p) /\ (~exists => objects = {}) /\ me \in [Procs -> LocalVariables]
      /\ pc[p] = "confirm" /\ UNCHANGED <<exists, objects, charset, fresh>>
  BY InWork DEF WorkInv, TypeOK, InSection, ConfirmEmpty, ConfirmFails, server
<1>2. p \notin tainted => /\ me[p].phase = "start" => Emptying(p, "confirm", me[p])
                          /\ me[p].seen => Seen(p, me[p])
  BY <1>1, InWork
<1>3. CASE ConfirmEmpty(p, t)
  <2>1. PICK left : left = me[p].unchecked \ {t}
    OBVIOUS
  <2>2. left \in SUBSET Objects /\ DataType
    BY <1>1, <2>1, TypeParts DEF LocalVariables, WorkInv
  <2>3. PICK m \in LocalVariables : m = [me[p] EXCEPT !.unchecked = left]
    BY <2>2, LocalsType
  <2>4. PICK l \in {"drop", "confirm"} : l = IF left = {} THEN "drop" ELSE "confirm"
    OBVIOUS
  <2>5. Moves(p, l, m) /\ UNCHANGED tainted
    BY <1>1, <1>3, <2>1, <2>3, <2>4 DEF ConfirmEmpty, Go, Moves, Sets
  <2>6. /\ m.phase = me[p].phase /\ m.seen = me[p].seen /\ m.view = me[p].view
        /\ m.failed = me[p].failed /\ m.made = me[p].made /\ m.todo = me[p].todo
        /\ m.retries = me[p].retries
    BY <1>1, <2>3 DEF LocalVariables
  <2>7. OnCourse(l, m)
    BY <1>1, <2>6 DEF OnCourse
  <2>8. p \notin tainted /\ m.phase = "start" => Emptying(p, l, m)'
    BY <1>1, <1>2, <2>6 DEF Emptying
  <2>9. p \notin tainted /\ m.seen => Seen(p, m)'
    BY <1>1, <1>2, <2>6 DEF Seen
  <2>10. l \in Section
    BY DEF Section, Labels
  <2> QED BY <1>1, <2>5, <2>7, <2>8, <2>9, <2>10, SectionWork
<1>4. CASE ConfirmFails(p, t)
  BY <1>1, <1>4, ReturnWork DEF ConfirmFails
<1> QED BY <1>3, <1>4

\* A statement of a bulk drop, answered or abandoned: of the tables and routines
\* still there, the process forgets none but after a fatal error.
LEMMA DropWork ==
    ASSUME WorkInv, NEW p \in Procs, NEW m \in LocalVariables, NEW gone \in SUBSET Objects,
           pc[p] \in {"drop", "droproutines"}, UNCHANGED <<pc, exists, charset, tainted, fresh>>,
           Sets(p, m), objects' = objects \ gone,
           m.phase = me[p].phase, m.seen = me[p].seen, m.view = me[p].view,
           m.failed = me[p].failed, m.made = me[p].made,
           \/ m.fatal
           \/ /\ ~me[p].fatal
              /\ IF pc[p] = "drop"
                 THEN me[p].todo \cup me[p].retries \subseteq gone \cup m.todo \cup m.retries
                 ELSE me[p].todo \subseteq gone \cup m.todo
    PROVE  Alone' /\ Course' /\ Owned'
<1>1. /\ me[p] \in LocalVariables /\ OnCourse(pc[p], me[p]) /\ pc[p] \in Section
      /\ InSection(p) /\ (~exists => objects = {}) /\ pc \in [Procs -> Labels]
      /\ me \in [Procs -> LocalVariables]
  BY InWork DEF WorkInv, TypeOK, InSection
<1>2. p \notin tainted => /\ me[p].phase = "start" => Emptying(p, pc[p], me[p])
                          /\ me[p].seen => Seen(p, me[p])
  BY <1>1, InWork
<1>3. PICK l \in {"drop", "droproutines"} : l = pc[p]
  OBVIOUS
<1>4. Moves(p, l, m) /\ l \in Section
  BY <1>1, <1>3 DEF Moves
<1>5. OnCourse(l, m)
  BY <1>1, <1>3 DEF OnCourse
<1>6. p \notin tainted /\ m.phase = "start" => Emptying(p, l, m)'
  <2> SUFFICES ASSUME p \notin tainted, m.phase = "start" PROVE Emptying(p, l, m)'
    OBVIOUS
  <2>1. Emptying(p, l, me[p])
    BY <1>2, <1>3
  <2>2. CASE m.fatal
    BY <1>3, <2>1, <2>2 DEF Emptying
  <2>3. CASE ~m.fatal /\ l = "drop"
    <3>1. objects \ Routines \subseteq me[p].todo \cup me[p].retries \cup fresh
      BY <1>3, <2>1, <2>3 DEF Emptying
    <3>2. me[p].todo \cup me[p].retries \subseteq gone \cup m.todo \cup m.retries
      BY <1>3, <2>3
    <3>3. objects' \ Routines \subseteq m.todo \cup m.retries \cup fresh
      BY <3>1, <3>2
    <3> QED BY <2>1, <2>3, <3>3 DEF Emptying
  <2>4. CASE ~m.fatal /\ l = "droproutines"
    <3>1. objects \subseteq me[p].todo \cup fresh
      BY <1>3, <2>1, <2>4 DEF Emptying
    <3>2. me[p].todo \subseteq gone \cup m.todo
      BY <1>3, <2>4
    <3>3. objects' \subseteq m.todo \cup fresh
      BY <3>1, <3>2
    <3> QED BY <2>1, <2>4, <3>3 DEF Emptying
  <2> QED BY <2>2, <2>3, <2>4
<1>7. p \notin tainted /\ m.seen => Seen(p, m)'
  BY <1>2 DEF Seen
<1>8. ~exists' => objects' = {}
  BY <1>1
<1> QED BY <1>1, <1>4, <1>5, <1>6, <1>7, <1>8, SectionWork

LEMMA DropsWork ==
    ASSUME WorkInv, NEW p \in Procs,
           CancelDrops(p) \/ \E o \in Objects : DropTable(p, o) \/ DropRoutine(p, o)
    PROVE  Alone' /\ Course' /\ Owned'
<1>1. me[p] \in LocalVariables /\ DataType /\ me \in [Procs -> LocalVariables]
  BY InWork, TypeParts DEF WorkInv, TypeOK
<1>. PICK none \in SUBSET Objects : none = {}
  OBVIOUS
<1>2. CASE CancelDrops(p)
  <2>1. PICK m \in LocalVariables : m = [me[p] EXCEPT !.todo = {}]
    BY <1>1, LocalsType
  <2>2. /\ m.phase = me[p].phase /\ m.seen = me[p].seen /\ m.view = me[p].view
        /\ m.failed = me[p].failed /\ m.made = me[p].made /\ m.fatal = me[p].fatal
    BY <1>1, <2>1 DEF LocalVariables
  <2>3. Sets(p, m) /\ objects' = objects \ none /\ UNCHANGED <<pc, exists, charset, tainted, fresh>>
    BY <1>1, <1>2, <2>1 DEF CancelDrops, Sets, server
  <2> QED BY <1>2, <2>2, <2>3, DropWork DEF CancelDrops
<1>3. ASSUME NEW o \in Objects, DropTable(p, o) \/ DropRoutine(p, o)
      PROVE  Alone' /\ Course' /\ Owned'
  <2>0. /\ pc[p] \in {"drop", "droproutines"}
        /\ UNCHANGED <<pc, exists, charset, tainted, fresh>>
        /\ me[p].fatal \in BOOLEAN /\ me[p].todo \in SUBSET Objects
        /\ me[p].retries \in SUBSET Objects
    BY <1>1, <1>3 DEF DropTable, DropRoutine, Drop, server, LocalVariables
  <2>1. CASE Drop(o) /\ me' = [me EXCEPT ![p].todo = @ \ {o}]
    <3>0. me[p].todo \ {o} \in SUBSET Objects
      BY <2>0
    <3>1. PICK m \in LocalVariables : m = [me[p] EXCEPT !.todo = @ \ {o}]
      BY <1>1, <3>0, LocalsType
    <3>2. /\ m.phase = me[p].phase /\ m.seen = me[p].seen /\ m.view = me[p].view
          /\ m.failed = me[p].failed /\ m.made = me[p].made /\ m.fatal = me[p].fatal
          /\ m.todo = me[p].todo \ {o} /\ m.retries = me[p].retries
      BY <1>1, <3>1 DEF LocalVariables
    <3>3. Sets(p, m) /\ objects' = objects \ {o}
      BY <1>1, <2>1, <3>1 DEF Sets, Drop
    <3>4. /\ me[p].todo \cup me[p].retries \subseteq {o} \cup m.todo \cup m.retries
          /\ me[p].todo \subseteq {o} \cup m.todo
      BY <3>2
    <3> QED BY <2>0, <3>2, <3>3, <3>4, DropWork
  <2>2. CASE me' = [me EXCEPT ![p].todo = @ \ {o}, ![p].fatal = TRUE] /\ UNCHANGED server
    <3>0. me[p].todo \ {o} \in SUBSET Objects
      BY <2>0
    <3>1. PICK m \in LocalVariables : m = [me[p] EXCEPT !.todo = @ \ {o}, !.fatal = TRUE]
      BY <1>1, <3>0, LocalsType
    <3>2. /\ m.phase = me[p].phase /\ m.seen = me[p].seen /\ m.view = me[p].view
          /\ m.failed = me[p].failed /\ m.made = me[p].made /\ m.fatal
      BY <1>1, <3>1 DEF LocalVariables
    <3>3. Sets(p, m) /\ objects' = objects \ none
      BY <1>1, <2>2, <3>1 DEF Sets, server
    <3> QED BY <2>0, <3>2, <3>3, DropWork
  <2>3. CASE /\ pc[p] = "drop" /\ UNCHANGED server
             /\ me' = [me EXCEPT ![p].todo = @ \ {o}, ![p].retries = @ \cup {o}]
    <3>0. me[p].todo \ {o} \in SUBSET Objects /\ me[p].retries \cup {o} \in SUBSET Objects
      BY <2>0
    <3>1. PICK m \in LocalVariables :
             m = [me[p] EXCEPT !.todo = @ \ {o}, !.retries = @ \cup {o}]
      BY <1>1, <3>0, LocalsType
    <3>2. /\ m.phase = me[p].phase /\ m.seen = me[p].seen /\ m.view = me[p].view
          /\ m.failed = me[p].failed /\ m.made = me[p].made /\ m.fatal = me[p].fatal
          /\ m.todo = me[p].todo \ {o} /\ m.retries = me[p].retries \cup {o}
      BY <1>1, <3>1 DEF LocalVariables
    <3>3. Sets(p, m) /\ objects' = objects \ none
      BY <1>1, <2>3, <3>1 DEF Sets, server
    <3>4. me[p].todo \cup me[p].retries \subseteq none \cup m.todo \cup m.retries
      BY <3>2
    <3> QED BY <2>0, <2>3, <3>2, <3>3, <3>4, DropWork
  <2> QED BY <1>3, <2>1, <2>2, <2>3 DEF DropTable, DropRoutine
<1> QED BY <1>2, <1>3

\* RetryDrop, and the ends of the two bulk drops.
LEMMA EndDropsWork ==
    ASSUME WorkInv, NEW p \in Procs,
           \/ EndDropTables(p) \/ EndDropRoutines(p)
           \/ \E o \in Objects : RetryDrop(p, o)
    PROVE  Alone' /\ Course' /\ Owned'
<1>1. /\ me[p] \in LocalVariables /\ OnCourse(pc[p], me[p]) /\ DataType
      /\ InSection(p) /\ (~exists => objects = {}) /\ me \in [Procs -> LocalVariables]
      /\ pc[p] \in {"drop", "droproutines"} /\ me[p].todo = {}
  BY InWork, TypeParts DEF WorkInv, TypeOK, InSection, EndDropTables, EndDropRoutines, RetryDrop
<1>2. p \notin tainted => /\ me[p].phase = "start" => Emptying(p, pc[p], me[p])
                          /\ me[p].seen => Seen(p, me[p])
  BY <1>1, InWork
<1>3. CASE Return(p) /\ UNCHANGED <<server, fresh>>
  BY <1>1, <1>3, ReturnWork DEF server
<1>4. ASSUME NEW o \in Objects, RetryDrop(p, o), Drop(o),
             me' = [me EXCEPT ![p].retries = @ \ {o}], UNCHANGED <<pc, tainted, fresh>>
      PROVE  Alone' /\ Course' /\ Owned'
  <2>0. me[p].retries \ {o} \in SUBSET Objects /\ me[p].fatal \in BOOLEAN
    BY <1>1 DEF LocalVariables
  <2>1. PICK m \in LocalVariables : m = [me[p] EXCEPT !.retries = @ \ {o}]
    BY <1>1, <2>0, LocalsType
  <2>2. /\ m.phase = me[p].phase /\ m.seen = me[p].seen /\ m.view = me[p].view
        /\ m.failed = me[p].failed /\ m.made = me[p].made /\ m.fatal = me[p].fatal
        /\ m.todo = me[p].todo /\ m.retries = me[p].retries \ {o}
    BY <1>1, <2>1 DEF LocalVariables
  <2>3. Sets(p, m) /\ objects' = objects \ {o} /\ UNCHANGED <<exists, charset>> /\ pc[p] = "drop"
    BY <1>1, <1>4, <2>1 DEF Sets, Drop, RetryDrop
  <2>4. me[p].todo \cup me[p].retries \subseteq {o} \cup m.todo \cup m.retries
    BY <2>2
  <2> QED BY <1>4, <2>0, <2>2, <2>3, <2>4, DropWork
<1>5. ASSUME NEW l \in {"dropdb", "routines", "alter"}, Go(p, l),
             UNCHANGED <<me, tainted, server, fresh>>,
             OnCourse(l, me[p]),
             p \notin tainted /\ me[p].phase = "start" => Emptying(p, l, me[p])
      PROVE  Alone' /\ Course' /\ Owned'
  <2>1. Moves(p, l, me[p]) /\ l \in Section
    BY <1>1, <1>5 DEF Go, Moves, Sets, Section, Labels
  <2>2. PICK m \in LocalVariables : m = me[p]
    BY <1>1
  <2>3. p \notin tainted /\ m.phase = "start" => Emptying(p, l, m)'
    BY <1>5, <2>2 DEF Emptying, server
  <2>4. p \notin tainted /\ m.seen => Seen(p, m)'
    BY <1>2, <1>5, <2>2 DEF Seen, server
  <2>5. ~exists' => objects' = {}
    BY <1>1, <1>5 DEF server
  <2> QED BY <1>1, <1>5, <2>1, <2>2, <2>3, <2>4, <2>5, SectionWork
<1>6. CASE EndDropTables(p) /\ ~me[p].fatal
  <2>1. /\ pc[p] = "drop" /\ me[p].retries = {} /\ Go(p, AfterTables(p))
        /\ UNCHANGED <<me, tainted, server, fresh>>
    BY <1>6 DEF EndDropTables
  <2>2. AfterTables(p) \in {"dropdb", "routines", "alter"}
    BY DEF AfterTables
  <2>3. OnCourse(AfterTables(p), me[p])
    BY <1>1, <2>1 DEF OnCourse, AfterTables
  <2>4. p \notin tainted /\ me[p].phase = "start" => Emptying(p, AfterTables(p), me[p])
    <3> SUFFICES ASSUME p \notin tainted, me[p].phase = "start"
                 PROVE  Emptying(p, "routines", me[p])
      BY DEF AfterTables
    <3>1. /\ me[p].failed \subseteq fresh /\ me[p].made = {}
          /\ objects \ Routines \subseteq {} \cup {} \cup fresh
      BY <1>1, <1>2, <1>6, <2>1 DEF Emptying
    <3> QED BY <3>1 DEF Emptying
  <2> QED BY <1>5, <2>1, <2>2, <2>3, <2>4
<1>7. CASE EndDropRoutines(p) /\ ~(me[p].fatal \/ me[p].phase = "keep")
  <2>1. /\ pc[p] = "droproutines" /\ Go(p, "alter") /\ UNCHANGED <<me, tainted, server, fresh>>
    BY <1>7 DEF EndDropRoutines
  <2>2. me[p].phase = "start"
    BY <1>1, <1>7, <2>1 DEF OnCourse, LocalVariables
  <2>3. OnCourse("alter", me[p])
    BY <1>1, <2>2 DEF OnCourse
  <2>4. p \notin tainted => Emptying(p, "alter", me[p])
    BY <1>1, <1>2, <1>7, <2>1, <2>2 DEF Emptying
  <2> QED BY <1>5, <2>1, <2>3, <2>4
<1> QED BY <1>3, <1>4, <1>6, <1>7 DEF EndDropTables, EndDropRoutines, RetryDrop

\* A CREATE of the workspace: it succeeds, because the schema held nothing but
\* what this process had created and what somebody else has just written to.
LEMMA ExecCreateWork ==
    ASSUME WorkInv, NEW p \in Procs, NEW o \in Objects, ExecCreate(p, o)
    PROVE  Alone' /\ Course' /\ Owned'
<1>1. /\ me[p] \in LocalVariables /\ OnCourse("exec", me[p]) /\ DataType
      /\ InSection(p) /\ (~exists => objects = {}) /\ me \in [Procs -> LocalVariables]
      /\ pc[p] = "exec" /\ UNCHANGED <<pc, exists, charset, tainted, fresh>>
      /\ pc \in [Procs -> Labels] /\ "exec" \in Section
  BY InWork, TypeParts
  DEF WorkInv, TypeOK, InSection, ExecCreate, Section, Labels
<1>2. me[p].phase = "start" /\ ~me[p].seen
  BY <1>1 DEF OnCourse, LocalVariables
<1>3. p \notin tainted => Emptying(p, "exec", me[p])
  BY <1>1, <1>2, InWork
<1>4. me[p].made \cup {o} \in SUBSET Objects /\ me[p].failed \cup {o} \in SUBSET Objects
  BY <1>1 DEF LocalVariables
<1>5. CASE exists /\ o \notin objects
  <2>1. PICK m \in LocalVariables : m = [me[p] EXCEPT !.made = @ \cup {o}]
    BY <1>1, <1>4, LocalsType
  <2>2. Moves(p, "exec", m) /\ objects' = objects \cup {o}
    BY <1>1, <1>5, <2>1 DEF ExecCreate, Moves, Sets
  <2>3. /\ m.phase = "start" /\ ~m.seen /\ m.failed = me[p].failed
        /\ m.made = me[p].made \cup {o}
    BY <1>1, <1>2, <2>1 DEF LocalVariables
  <2>4. OnCourse("exec", m)
    BY <2>3 DEF OnCourse
  <2>5. p \notin tainted => Emptying(p, "exec", m)'
    BY <1>1, <1>3, <2>2, <2>3 DEF Emptying
  <2>6. ~exists' => objects' = {}
    BY <1>1, <1>5
  <2> QED BY <1>1, <2>2, <2>3, <2>4, <2>5, <2>6, SectionWork
<1>6. CASE ~(exists /\ o \notin objects)
  <2>1. PICK m \in LocalVariables : m = [me[p] EXCEPT !.made = @ \cup {o}, !.failed = @ \cup {o}]
    BY <1>1, <1>4, LocalsType
  <2>2. Moves(p, "exec", m) /\ UNCHANGED objects
    BY <1>1, <1>6, <2>1 DEF ExecCreate, Moves, Sets
  <2>3. /\ m.phase = "start" /\ ~m.seen /\ m.failed = me[p].failed \cup {o}
        /\ m.made = me[p].made \cup {o}
    BY <1>1, <1>2, <2>1 DEF LocalVariables
  <2>4. OnCourse("exec", m)
    BY <2>3 DEF OnCourse
  <2>5. p \notin tainted => Emptying(p, "exec", m)'
    <3> SUFFICES ASSUME p \notin tainted PROVE Emptying(p, "exec", m)'
      OBVIOUS
    <3>1. /\ me[p].failed \subseteq fresh /\ exists /\ objects \ fresh = me[p].made \ fresh
          /\ CharSet[p] \in {"none", charset} /\ o \in objects /\ o \notin me[p].made
      BY <1>3, <1>6 DEF ExecCreate, Emptying
    <3>2. o \in fresh
      BY <3>1
    <3> QED BY <1>1, <2>2, <2>3, <3>1, <3>2 DEF Emptying
  <2> QED BY <1>1, <2>2, <2>3, <2>4, <2>5, SectionWork
<1> QED BY <1>5, <1>6

LEMMA IntrospectWork ==
    ASSUME WorkInv, NEW p \in Procs, Introspect(p) \/ DropDatabase(p) \/ QueryFails(p)
    PROVE  Alone' /\ Course' /\ Owned'
<1>1. /\ me[p] \in LocalVariables /\ OnCourse(pc[p], me[p]) /\ DataType
      /\ InSection(p) /\ (~exists => objects = {}) /\ me \in [Procs -> LocalVariables]
      /\ "list" \in Section /\ CleanupPhase(p) \in {"keep", "drop"}
  BY InWork, TypeParts
  DEF WorkInv, TypeOK, InSection, Introspect, DropDatabase, QueryFails, Section, Labels,
      CleanupPhase
<1>2. p \notin tainted => /\ me[p].phase = "start" => Emptying(p, pc[p], me[p])
                          /\ me[p].seen => Seen(p, me[p])
  BY <1>1, InWork
<1>3. CASE Introspect(p)
  <2>1. PICK m \in LocalVariables :
           m = [me[p] EXCEPT !.seen = exists, !.view = objects, !.phase = CleanupPhase(p)]
    BY <1>1, LocalsType DEF DataType
  <2>2. Moves(p, "list", m) /\ UNCHANGED <<exists, objects, charset, tainted, fresh>>
    BY <1>1, <1>3, <2>1 DEF Introspect, Go, Moves, Sets, server
  <2>3. m.phase \in {"keep", "drop"} /\ m.view = objects /\ m.failed = me[p].failed
    BY <1>1, <2>1 DEF LocalVariables
  <2>4. OnCourse("list", m)
    BY <2>3 DEF OnCourse
  <2>5. p \notin tainted => Seen(p, m)'
    <3>1. pc[p] = "exec" /\ me[p].made = Wanted[p] /\ me[p].phase = "start"
      BY <1>1, <1>3 DEF Introspect, OnCourse
    <3> QED BY <1>2, <2>2, <2>3, <3>1 DEF Emptying, Seen
  <2> QED BY <1>1, <2>2, <2>3, <2>4, <2>5, SectionWork
<1>4. CASE DropDatabase(p)
  BY <1>1, <1>4, ReturnWork DEF DropDatabase
<1>5. CASE QueryFails(p) /\ Return(p)
  BY <1>1, <1>5, ReturnWork DEF QueryFails, server
<1>6. CASE QueryFails(p) /\ pc[p] = "exec" /\ ~Return(p)
  <2>1. PICK m \in LocalVariables : m = [me[p] EXCEPT !.phase = CleanupPhase(p)]
    BY <1>1, LocalsType
  <2>2. Moves(p, "list", m) /\ UNCHANGED <<exists, objects, charset, tainted, fresh>>
    BY <1>1, <1>6, <2>1 DEF QueryFails, Go, Moves, Sets, server
  <2>3. m.phase \in {"keep", "drop"} /\ m.seen = me[p].seen
    BY <1>1, <2>1 DEF LocalVariables
  <2>4. OnCourse("list", m) /\ ~m.seen
    BY <1>1, <1>6, <2>3 DEF OnCourse, LocalVariables
  <2> QED BY <1>1, <2>2, <2>3, <2>4, SectionWork
<1> QED BY <1>3, <1>4, <1>5, <1>6 DEF QueryFails

\* The end of a process.
LEMMA EndWork ==
    ASSUME WorkInv, NEW p \in Procs, Exit(p) \/ Crash(p)
    PROVE  Alone' /\ Course' /\ Owned'
<1>1. /\ me[p] \in LocalVariables /\ OnCourse(pc[p], me[p]) /\ me \in [Procs -> LocalVariables]
      /\ Fresh \in LocalVariables
  BY InWork DEF WorkInv, TypeOK, Fresh, LocalVariables
<1>2. PICK l \in {"done", "dead"}, m \in {me[p], Fresh} : Go(p, l) /\ Sets(p, m)
  BY <1>1 DEF Exit, Crash, Sets
<1>3. UNCHANGED <<exists, objects, charset, fresh>> /\ tainted \ {p} \subseteq tainted'
  BY DEF Exit, Crash, Disconnect
<1>4. Moves(p, l, m) /\ m \in LocalVariables /\ l \in Labels /\ l \notin Section
  BY <1>1, <1>2 DEF Go, Moves, Labels, Section
<1>5. OnCourse(l, m)
  BY <1>1, <1>2 DEF OnCourse, Fresh
<1>6. ~exists' => objects' = {}
  BY <1>3 DEF WorkInv, Owned
<1> QED BY <1>1, <1>3, <1>4, <1>5, <1>6, Undisturbed

\* A statement that outlived its process taints every section it may disturb.
LEMMA OrphanWork ==
    ASSUME WorkInv, NEW r \in orphans, OrphanLands(r)
    PROVE  Alone' /\ Course' /\ Owned'
<1>1. /\ UNCHANGED <<pc, me, exists>> /\ (~exists => objects' = objects)
      /\ \A p \in Procs : InSection(p) => p \in tainted'
  BY DEF OrphanLands
<1>2. \A p \in Procs : InSection(p)' => p \in tainted'
  BY <1>1 DEF InSection
<1>3. Course'
  BY <1>1 DEF WorkInv, Course
<1>4. Alone' /\ Owned'
  BY <1>1, <1>2 DEF WorkInv, Alone, Owned
<1> QED BY <1>3, <1>4

\* Somebody writes to the schema: while a process is in its section, what is
\* written counts as fresh.
LEMMA UserWork ==
    ASSUME WorkInv, NEW t \in Objects \ Routines, UserWrites(t)
    PROVE  Alone' /\ Course' /\ Owned'
<1>1. UNCHANGED <<pc, me, exists, charset, tainted>> /\ exists /\ objects' = objects \cup {t}
  BY DEF UserWrites
<1>2. \A q \in Procs : InSection(q)' = InSection(q)
  BY <1>1 DEF InSection
<1>3. Alone' /\ Course'
  BY <1>1, <1>2 DEF WorkInv, Alone, Course
<1>4. Owned'
  <2> SUFFICES ASSUME NEW q \in Procs, q \notin tainted, InSection(q)
               PROVE  /\ me[q].phase = "start" => Emptying(q, pc[q], me[q])'
                      /\ me[q].seen => Seen(q, me[q])'
    BY <1>1, <1>2 DEF Owned
  <2>1. fresh' = fresh \cup {t}
    BY DEF UserWrites
  <2>2. /\ me[q].phase = "start" => Emptying(q, pc[q], me[q])
        /\ me[q].seen => Seen(q, me[q])
    BY DEF WorkInv, Owned
  <2>3. me[q].phase = "start" => Emptying(q, pc[q], me[q])'
    BY <1>1, <2>1, <2>2 DEF Emptying
  <2>4. me[q].seen => Seen(q, me[q])'
    BY <1>1, <2>1, <2>2 DEF Seen
  <2> QED BY <2>3, <2>4
<1> QED BY <1>3, <1>4

LEMMA WorkNext ==
    ASSUME WorkInv, Next
    PROVE  Alone' /\ Course' /\ Owned'
<1>1. ASSUME NEW p \in Procs, Process(p) PROVE Alone' /\ Course' /\ Owned'
  <2>1. CASE BulkDrop(p)
    BY <2>1, ListWork, DropsWork, EndDropsWork, ConfirmWork DEF BulkDrop
  <2> QED BY <1>1, <2>1, WaitWork, GetLockWork, NewTempSchemaWork, IntrospectWork, EndWork,
             ExecCreateWork DEF Process
<1>2. ASSUME NEW c \in Conns, Maintainer(c) \/ LoseConn(c) PROVE Alone' /\ Course' /\ Owned'
  BY <1>2, ElsewhereWork DEF Maintainer, ReleaseLock, PingFails, LoseConn, server
<1>3. CASE Environment
  BY <1>2, <1>3, WaitWork, IntrospectWork, EndWork, OrphanWork, UserWork DEF Environment
<1>4. CASE AllOver /\ UNCHANGED vars
  BY <1>4, ElsewhereWork DEF vars, server
<1> QED BY <1>1, <1>2, <1>3, <1>4 DEF Next

\* A process whose section was not disturbed introspects exactly what it created,
\* with the character set it asked for: whatever objects an earlier or crashed
\* run left there, whichever queries fail, whoever waits for the lock or gives
\* up.  Only tables that somebody writes to meanwhile may come in between.
THEOREM WorkspaceIsolation == Spec => []Isolation
<1>1. Init => Alone /\ Course /\ Owned
  <2> SUFFICES ASSUME Init PROVE Alone /\ Course /\ Owned
    OBVIOUS
  <2>1. \A p \in Procs : pc[p] = "next" /\ me[p] = Fresh
    BY DEF Init
  <2>2. ~exists => objects = {}
    BY DEF Init
  <2> QED BY <2>1, <2>2 DEF Alone, Course, OnCourse, Owned, InSection, Fresh
<1>2. /\ TypeOK /\ LockInv /\ Alone /\ Course /\ Owned
      /\ [Next]_vars
      => Alone' /\ Course' /\ Owned'
  <2> SUFFICES ASSUME WorkInv, [Next]_vars PROVE Alone' /\ Course' /\ Owned'
    BY DEF WorkInv
  <2>1. CASE UNCHANGED vars
    BY <2>1, ElsewhereWork DEF vars, server
  <2> QED BY <2>1, WorkNext
<1>3. Owned => Isolation
  BY DEF Owned, Seen, Isolation
<1> QED BY <1>1, <1>2, <1>3, Typing, LockInvariance, PTL DEF Spec

----------------------------------------------------------------------------
(* Rows of the temporary schema                                            *)

\* A step of process p that writes no row.
LEMMA RowsMove ==
    ASSUME TypeOK, RowsKept, NEW p \in Procs, NEW l \in Labels, NEW m \in LocalVariables,
           Moves(p, l, m), rows' \subseteq rows, rows' \subseteq objects', Confirmed(l, m),
           orphans' \subseteq orphans \cup Running(p), UNCHANGED fresh
    PROVE  RowsKept'
<1>. pc \in [Procs -> Labels] /\ me \in [Procs -> LocalVariables]
  BY DEF TypeOK
<1>1. rows' \subseteq objects' \ Routines
  BY DEF RowsKept
<1>2. \A q \in Procs : Confirmed(pc[q], me[q])'
  <2> SUFFICES ASSUME NEW q \in Procs PROVE Confirmed(pc[q], me[q])'
    OBVIOUS
  <2>1. Confirmed(pc'[q], me'[q])
    BY DEF RowsKept, Moves, Sets
  <2> QED BY <2>1 DEF Confirmed
<1>3. \A o \in Objects : <<"drop", o>> \in orphans' => rows' \subseteq fresh'
  <2> SUFFICES ASSUME NEW o \in Objects, <<"drop", o>> \in Running(p) PROVE rows \subseteq fresh
    BY DEF RowsKept
  <2>1. pc[p] \in {"drop", "droproutines"}
    BY DEF Running
  <2> QED BY <2>1 DEF RowsKept, Confirmed
<1> QED BY <1>1, <1>2, <1>3 DEF RowsKept

\* A step of p that changes neither rows nor objects.
LEMMA RowsGo ==
    ASSUME TypeOK, RowsKept, NEW p \in Procs, NEW l \in Labels, pc' = [pc EXCEPT ![p] = l],
           UNCHANGED <<me, rows, objects, fresh>>,
           l \in {"check", "list", "create", "exec"}
               \/ (l \in {"next", "conn", "get", "done", "dead"} /\ pc[p] \notin Section)
               \/ (l \in Section \ {"confirm"} /\ rows \subseteq fresh),
           orphans' \subseteq orphans \cup Running(p)
    PROVE  RowsKept'
<1>1. me[p] \in LocalVariables /\ Moves(p, l, me[p])
  BY DEF TypeOK, Moves, Sets
<1>2. rows \subseteq objects'
  BY DEF RowsKept
<1>3. Confirmed(l, me[p])
  BY DEF RowsKept, Confirmed, Section, Labels
<1> QED BY <1>1, <1>2, <1>3, RowsMove

\* The release of the lock, or the death of the process.
LEMMA RowsReturn ==
    ASSUME TypeOK, RowsKept, NEW p \in Procs, NEW l \in {"next", "dead"}, Go(p, l),
           me' = [me EXCEPT ![p] = Fresh], rows' \subseteq rows, rows' \subseteq objects',
           orphans' \subseteq orphans \cup Running(p), UNCHANGED fresh
    PROVE  RowsKept'
<1>1. Fresh \in LocalVariables /\ l \in Labels /\ Confirmed(l, Fresh)
  BY DEF Fresh, LocalVariables, Labels, Confirmed
<1>2. Moves(p, l, Fresh)
  BY DEF Go, Moves, Sets
<1> QED BY <1>1, <1>2, RowsMove

\* The steps of the bulk drops: confirmTablesEmpty stands between the list of
\* the tables and every statement that drops something.
LEMMA BulkDropRows ==
    ASSUME TypeOK, RowsKept, NEW p \in Procs, BulkDrop(p)
    PROVE  RowsKept' /\ rows \ fresh \subseteq rows'
<1>. /\ pc \in [Procs -> Labels] /\ me \in [Procs -> LocalVariables] /\ me[p] \in LocalVariables
     /\ rows \subseteq objects \ Routines /\ Confirmed(pc[p], me[p])
     /\ objects \subseteq Objects /\ pc[p] \in Labels
  BY DEF TypeOK, RowsKept
<1>0. DataType
  BY TypeParts
<1>1. CASE ListTables(p)
  <2>1. PICK names : names = Listed(p, Objects \ Routines)
    OBVIOUS
  <2>2. names \in SUBSET Objects /\ rows \ fresh \subseteq names
    BY <2>1 DEF Listed, Confirmed
  <2>3. PICK m \in LocalVariables :
           m = [me[p] EXCEPT !.todo = names, !.unchecked = names, !.retries = {}, !.fatal = FALSE]
    BY <1>0, <2>2, LocalsType
  <2>4. PICK l \in {"routines", "dropdb", "confirm"} :
           l = IF names = {} THEN AfterTables(p) ELSE "confirm"
    BY DEF AfterTables
  <2>5. /\ Moves(p, l, m) /\ UNCHANGED <<rows, objects, orphans, fresh>> /\ l \in Labels
        /\ rows \subseteq objects'
    BY <1>1, <2>1, <2>3, <2>4 DEF ListTables, Go, Moves, Sets, server, Labels
  <2>6. m.unchecked = names /\ m.seen = me[p].seen /\ m.view = me[p].view
    BY <2>3 DEF LocalVariables
  <2>7. l \in Section /\ (l = "confirm" \/ rows \subseteq fresh)
    BY <2>2, <2>4 DEF Section, Labels
  <2>8. Confirmed(l, m)
    BY <2>2, <2>6, <2>7 DEF Confirmed
  <2> QED BY <2>5, <2>8, RowsMove
<1>2. CASE ListRoutines(p)
  <2>1. Listed(p, Routines) \in SUBSET Objects /\ rows \subseteq fresh
    BY <1>2, ConstantsAssumption DEF Listed, ListRoutines, Confirmed
  <2>2. PICK m \in LocalVariables : m = [me[p] EXCEPT !.todo = Listed(p, Routines)]
    BY <1>0, <2>1, LocalsType
  <2>3. /\ Moves(p, "droproutines", m) /\ UNCHANGED <<rows, objects, orphans, fresh>>
        /\ rows \subseteq objects' /\ "droproutines" \in Labels \cap Section
    BY <1>2, <2>2 DEF ListRoutines, Go, Moves, Sets, server, Labels, Section
  <2>4. m.seen = me[p].seen /\ m.view = me[p].view
    BY <2>2 DEF LocalVariables
  <2>5. Confirmed("droproutines", m)
    BY <2>1, <2>3, <2>4 DEF Confirmed
  <2> QED BY <2>3, <2>5, RowsMove
<1>3. CASE /\ pc[p] \in {"drop", "droproutines"}
           /\ UNCHANGED <<pc, fresh>> /\ rows' \subseteq rows /\ rows' \subseteq objects'
           /\ \E m \in LocalVariables : Sets(p, m)
           /\ orphans' \subseteq orphans \cup Running(p)
  <2>1. PICK m \in LocalVariables : Sets(p, m)
    BY <1>3
  <2>2. rows \subseteq fresh /\ pc[p] \in Section
    BY <1>3 DEF Confirmed, Section, Labels
  <2>3. Moves(p, pc[p], m) /\ Confirmed(pc[p], m)
    BY <1>3, <2>1, <2>2 DEF Moves, Confirmed
  <2> QED BY <1>3, <2>2, <2>3, RowsMove
<1>4. CASE CancelDrops(p)
  <2>1. [me[p] EXCEPT !.todo = {}] \in LocalVariables
    BY <1>0, LocalsType
  <2> QED BY <1>3, <1>4, <2>1 DEF CancelDrops, Sets, server
<1>5. CASE (EndDropTables(p) \/ EndDropRoutines(p)) \/ \E o \in Objects : RetryDrop(p, o)
  <2>1. rows \subseteq fresh
    BY <1>5 DEF EndDropTables, EndDropRoutines, RetryDrop, Confirmed
  <2>2. CASE /\ UNCHANGED <<me, rows, objects, orphans, fresh>>
             /\ \E l \in {"dropdb", "routines", "alter"} : Go(p, l)
    <3>1. {"dropdb", "routines", "alter"} \subseteq Section \ {"confirm"} /\ Section \subseteq Labels
      BY DEF Section, Labels
    <3> QED BY <2>1, <2>2, <3>1, RowsGo DEF Go
  <2>4. CASE Return(p) /\ UNCHANGED <<rows, objects, orphans, fresh>>
    BY <2>4, RowsReturn DEF Return
  <2>3. ASSUME NEW o \in Objects, RetryDrop(p, o), me' = [me EXCEPT ![p].retries = @ \ {o}],
               Drop(o), UNCHANGED <<pc, fresh>>
        PROVE  RowsKept' /\ rows \ fresh \subseteq rows'
    <3>1. me[p].retries \ {o} \in SUBSET Objects
      BY DEF LocalVariables
    <3>2. [me[p] EXCEPT !.retries = @ \ {o}] \in LocalVariables
      BY <1>0, <3>1, LocalsType
    <3> QED BY <1>3, <2>3, <3>2 DEF RetryDrop, Drop, Sets
  <2> QED BY <1>5, <2>2, <2>3, <2>4
      DEF EndDropTables, EndDropRoutines, RetryDrop, AfterTables, server
<1>6. ASSUME NEW o \in Objects, DropTable(p, o) \/ DropRoutine(p, o)
      PROVE  RowsKept' /\ rows \ fresh \subseteq rows'
  <2>0. me[p].todo \ {o} \in SUBSET Objects /\ me[p].retries \cup {o} \in SUBSET Objects
    BY DEF LocalVariables
  <2>1. /\ [me[p] EXCEPT !.todo = @ \ {o}] \in LocalVariables
        /\ [me[p] EXCEPT !.todo = @ \ {o}, !.fatal = TRUE] \in LocalVariables
        /\ [me[p] EXCEPT !.todo = @ \ {o}, !.retries = @ \cup {o}] \in LocalVariables
    BY <1>0, <2>0, LocalsType
  <2>2. \E m \in LocalVariables : Sets(p, m)
    <3>1. CASE me' = [me EXCEPT ![p].todo = @ \ {o}]
      BY <2>1, <3>1 DEF Sets
    <3>2. CASE me' = [me EXCEPT ![p].todo = @ \ {o}, ![p].fatal = TRUE]
      BY <2>1, <3>2 DEF Sets
    <3>3. CASE me' = [me EXCEPT ![p].todo = @ \ {o}, ![p].retries = @ \cup {o}]
      BY <2>1, <3>3 DEF Sets
    <3> QED BY <1>6, <3>1, <3>2, <3>3 DEF DropTable, DropRoutine
  <2> QED BY <1>3, <1>6, <2>2 DEF DropTable, DropRoutine, Drop, server
<1>7. ASSUME NEW o \in Objects, ConfirmEmpty(p, o) \/ ConfirmFails(p, o)
      PROVE  RowsKept' /\ rows \ fresh \subseteq rows'
  <2>1. CASE ConfirmFails(p, o)
    BY <2>1, RowsReturn DEF ConfirmFails, Return, server
  <2>2. CASE ConfirmEmpty(p, o)
    <3>1. PICK left \in SUBSET Objects : left = me[p].unchecked \ {o}
      BY DEF LocalVariables
    <3>2. PICK m \in LocalVariables : m = [me[p] EXCEPT !.unchecked = left]
      BY <1>0, <3>1, LocalsType
    <3>3. PICK l \in {"drop", "confirm"} : l = IF left = {} THEN "drop" ELSE "confirm"
      OBVIOUS
    <3>4. rows \ fresh \subseteq left /\ l \in Section
      BY <2>2, <3>1 DEF ConfirmEmpty, Passes, Confirmed, Section, Labels
    <3>5. m.unchecked = left /\ m.seen = me[p].seen /\ m.view = me[p].view
      BY <3>2 DEF LocalVariables
    <3>6. Confirmed(l, m)
      BY <3>3, <3>4, <3>5 DEF Confirmed
    <3>7. /\ Moves(p, l, m) /\ UNCHANGED <<rows, objects, orphans, fresh>>
          /\ rows \subseteq objects' /\ l \in Labels
      BY <2>2, <3>1, <3>2, <3>3 DEF ConfirmEmpty, Go, Moves, Sets, server, Labels
    <3> QED BY <3>6, <3>7, RowsMove
  <2> QED BY <1>7, <2>1, <2>2
<1> QED BY <1>1, <1>2, <1>4, <1>5, <1>6, <1>7 DEF BulkDrop

LEMMA RowsNext ==
    ASSUME TypeOK, RowsKept, Next
    PROVE  RowsKept' /\ rows \ fresh \subseteq rows'
<1>. /\ pc \in [Procs -> Labels] /\ me \in [Procs -> LocalVariables]
     /\ rows \subseteq objects \ Routines /\ DataType
  BY TypeParts DEF TypeOK, RowsKept
<1>1. ASSUME NEW p \in Procs, Process(p) PROVE RowsKept' /\ rows \ fresh \subseteq rows'
  <2>0. me[p] \in LocalVariables /\ Confirmed(pc[p], me[p])
    BY DEF RowsKept
  <2>1. CASE Begin(p)
    <3>1. Fresh \in LocalVariables /\ "conn" \in Labels /\ Confirmed("conn", Fresh)
      BY DEF Fresh, LocalVariables, Labels, Confirmed
    <3>2. Moves(p, "conn", Fresh) /\ UNCHANGED <<rows, objects, orphans, fresh>> /\ rows \subseteq objects'
      BY <2>1 DEF Begin, Moves, Sets, server
    <3> QED BY <3>1, <3>2, RowsMove
  <2>2. CASE GetConn(p) \/ GetLock(p) \/ GetLockTimesOut(p)
    BY <2>2, RowsGo DEF GetConn, GetLock, GetLockTimesOut, Go, server, Labels, Section
  <2>3. CASE NewTempSchema(p)
    <3>1. UNCHANGED <<rows, objects, orphans, fresh>>
      BY <2>3 DEF NewTempSchema, HasSchema, CreateSchema, AlterSchema, server
    <3>2. CASE Return(p)
      BY <3>1, <3>2, RowsReturn DEF Return
    <3>3. CASE ~Return(p)
      <4>1. PICK l \in {"list", "create", "exec"} : Go(p, l) /\ UNCHANGED me
        BY <2>3, <3>3 DEF NewTempSchema, HasSchema, CreateSchema, AlterSchema
      <4>2. l \in Labels
        BY DEF Labels
      <4> QED BY <3>1, <4>1, <4>2, RowsGo DEF Go
    <3> QED BY <3>2, <3>3
  <2>4. CASE Introspect(p)
    <3>1. PICK m \in LocalVariables :
             m = [me[p] EXCEPT !.seen = exists, !.view = objects, !.phase = CleanupPhase(p)]
      BY LocalsType DEF DataType, CleanupPhase
    <3>2. /\ Moves(p, "list", m) /\ UNCHANGED <<rows, objects, orphans, fresh>>
          /\ rows \subseteq objects' /\ "list" \in Labels
      BY <2>4, <3>1 DEF Introspect, Go, Moves, Sets, server, Labels
    <3>3. Confirmed("list", m)
      BY <2>0, <3>1 DEF LocalVariables, Confirmed, Section, Labels
    <3> QED BY <3>2, <3>3, RowsMove
  <2>5. CASE DropDatabase(p)
    <3>1. rows \subseteq fresh
      BY <2>0, <2>5 DEF DropDatabase, Confirmed
    <3> QED BY <2>5, <3>1, RowsReturn DEF DropDatabase, Return
  <2>6. CASE Exit(p)
    BY <2>6, RowsGo DEF Exit, Go, Labels, Section
  <2>7. ASSUME NEW o \in Objects, ExecCreate(p, o) PROVE RowsKept' /\ rows \ fresh \subseteq rows'
    <3>1. me[p].made \cup {o} \in SUBSET Objects /\ me[p].failed \cup {o} \in SUBSET Objects
      BY <2>0 DEF LocalVariables
    <3>2. /\ [me[p] EXCEPT !.made = @ \cup {o}] \in LocalVariables
          /\ [me[p] EXCEPT !.made = @ \cup {o}, !.failed = @ \cup {o}] \in LocalVariables
      BY <3>1, LocalsType
    <3>3. PICK m \in LocalVariables :
             Sets(p, m) /\ m.seen = me[p].seen /\ m.view = me[p].view
      <4>1. CASE me' = [me EXCEPT ![p].made = @ \cup {o}]
        BY <2>0, <3>2, <4>1 DEF Sets, LocalVariables
      <4>2. CASE me' = [me EXCEPT ![p].made = @ \cup {o}, ![p].failed = @ \cup {o}]
        BY <2>0, <3>2, <4>2 DEF Sets, LocalVariables
      <4> QED BY <2>7, <4>1, <4>2 DEF ExecCreate
    <3>4. /\ Moves(p, "exec", m) /\ UNCHANGED <<rows, orphans, fresh>> /\ rows \subseteq objects'
          /\ "exec" \in Labels \cap Section
      BY <2>7, <3>3 DEF ExecCreate, Moves, Labels, Section
    <3>5. Confirmed("exec", m)
      BY <2>0, <3>3, <3>4 DEF Confirmed
    <3> QED BY <3>4, <3>5, RowsMove
  <2> QED BY <1>1, <2>1, <2>2, <2>3, <2>4, <2>5, <2>6, <2>7, BulkDropRows DEF Process
<1>2. CASE UNCHANGED <<rows, objects, pc, me, orphans, fresh>>
  BY <1>2 DEF RowsKept, Confirmed
<1>3. ASSUME NEW c \in Conns, Maintainer(c) \/ LoseConn(c) PROVE RowsKept' /\ rows \ fresh \subseteq rows'
  BY <1>2, <1>3 DEF Maintainer, ReleaseLock, PingFails, LoseConn, server
<1>4. ASSUME NEW p \in Procs, GetConnFails(p) \/ GetLockBreaks(p) PROVE RowsKept' /\ rows \ fresh \subseteq rows'
  BY <1>4, RowsGo DEF GetConnFails, GetLockBreaks, Go, server, Labels, Section
<1>5. ASSUME NEW p \in Procs, QueryFails(p) PROVE RowsKept' /\ rows \ fresh \subseteq rows'
  <2>1. CASE Return(p)
    BY <1>5, <2>1, RowsReturn DEF QueryFails, Return, server
  <2>2. CASE ~Return(p)
    <3>1. PICK m \in LocalVariables : m = [me[p] EXCEPT !.phase = CleanupPhase(p)]
      BY LocalsType DEF CleanupPhase
    <3>2. /\ Moves(p, "list", m) /\ UNCHANGED <<rows, objects, orphans, fresh>>
          /\ rows \subseteq objects' /\ "list" \in Labels
      BY <1>5, <2>2, <3>1 DEF QueryFails, Go, Moves, Sets, server, Labels
    <3>3. me[p] \in LocalVariables /\ Confirmed(pc[p], me[p])
      BY DEF RowsKept
    <3>4. Confirmed("list", m)
      BY <3>1, <3>3 DEF LocalVariables, Confirmed, Section, Labels
    <3> QED BY <3>2, <3>4, RowsMove
  <2> QED BY <2>1, <2>2
<1>6. ASSUME NEW p \in Procs, Crash(p) PROVE RowsKept' /\ rows \ fresh \subseteq rows'
  <2>1. orphans' \subseteq orphans \cup Running(p)
    BY <1>6 DEF Crash
  <2> QED BY <1>6, <2>1, RowsReturn DEF Crash
<1>7. ASSUME NEW r \in orphans, OrphanLands(r) PROVE RowsKept' /\ rows \ fresh \subseteq rows'
  <2>1. rows \ fresh \subseteq rows'
    <3>1. CASE rows \subseteq objects'
      BY <1>7, <3>1 DEF OrphanLands
    <3>2. CASE rows \subseteq fresh
      BY <3>2
    <3>3. rows \subseteq objects' \/ r[1] # "create"
      BY <1>7 DEF OrphanLands
    <3>4. PICK k \in {"create", "drop"}, o \in Objects : r = <<k, o>>
      BY <1>7 DEF TypeOK
    <3>5. k = "drop" => rows \subseteq fresh
      BY <1>7, <3>4 DEF RowsKept
    <3> QED BY <3>1, <3>2, <3>3, <3>4, <3>5
  <2>2. rows' \subseteq objects' \ Routines /\ rows' \subseteq rows
    BY <1>7 DEF OrphanLands
  <2> QED BY <1>7, <2>1, <2>2 DEF OrphanLands, RowsKept, Confirmed
<1>8. ASSUME NEW t \in Objects \ Routines, UserWrites(t)
      PROVE  RowsKept' /\ rows \ fresh \subseteq rows'
  <2>0. /\ UNCHANGED <<pc, me, orphans>> /\ rows' = rows \cup {t} /\ objects' = objects \cup {t}
        /\ \A q \in Procs : Confirmed(pc[q], me[q]) /\ pc[q] \in Labels
    BY <1>8 DEF UserWrites, RowsKept
  <2>1. rows' \subseteq objects' \ Routines
    BY <2>0
  <2>2. CASE fresh' = fresh \cup {t}
    <3>1. \A q \in Procs : Confirmed(pc[q], me[q])'
      BY <2>0, <2>2 DEF Confirmed
    <3>2. \A o \in Objects : <<"drop", o>> \in orphans' => rows' \subseteq fresh'
      BY <2>0, <2>2 DEF RowsKept
    <3> QED BY <2>0, <2>1, <3>1, <3>2 DEF RowsKept
  <2>3. CASE orphans = {} /\ \A q \in Procs : ~InSection(q)
    <3>1. \A q \in Procs : pc[q] \in {"next", "conn", "get", "done", "dead"} /\ ~me[q].seen
      BY <2>0, <2>3 DEF InSection, Confirmed, Section, Labels
    <3>2. \A q \in Procs : Confirmed(pc[q], me[q])'
      BY <2>0, <3>1 DEF Confirmed
    <3> QED BY <2>0, <2>1, <2>3, <3>2 DEF RowsKept
  <2> QED BY <1>8, <2>2, <2>3 DEF UserWrites
<1> QED BY <1>1, <1>2, <1>3, <1>4, <1>5, <1>6, <1>7, <1>8 DEF Next, Environment, vars, server

\* "fail if any of them actually have 1 or more rows": rows that were in the
\* schema before skeema came outlive every bulk drop, DROP DATABASE and abandoned
\* statement of any number of processes, even of those that lost the lock.  Only
\* a row that somebody writes while skeema is at work there, behind
\* confirmTablesEmpty or into a table that was not introspected, may be lost.
THEOREM RowsAreKept == Spec => RowsSurvive
<1>1. Init => RowsKept
  <2> SUFFICES ASSUME Init PROVE RowsKept
    OBVIOUS
  <2>1. \A p \in Procs : pc[p] = "next" /\ me[p] = Fresh
    BY DEF Init
  <2>2. rows \subseteq objects \ Routines /\ orphans = {}
    BY DEF Init
  <2> QED BY <2>1, <2>2 DEF RowsKept, Confirmed, Fresh
<1>2. TypeOK /\ RowsKept /\ [Next]_vars => RowsKept' /\ rows \ fresh \subseteq rows'
  <2> SUFFICES ASSUME TypeOK, RowsKept, [Next]_vars
               PROVE  RowsKept' /\ rows \ fresh \subseteq rows'
    OBVIOUS
  <2>1. CASE UNCHANGED vars
    BY <2>1 DEF vars, server, RowsKept, Confirmed
  <2> QED BY <2>1, RowsNext
<1> QED BY <1>1, <1>2, Typing, PTL DEF Spec, RowsSurvive
=============================================================================
