---------------------------- MODULE LocalDocker ----------------------------
(***************************************************************************)
(* Workspaces in local Docker containers: NewLocalDocker with the store of *)
(* containers that the goroutines of a process share, the container        *)
(* operations of tengo.DockerClient below it, Cleanup, and the shutdown    *)
(* functions that main runs at the very end. Several skeema processes use  *)
(* one Docker daemon; a container's name only depends on its flavor, so    *)
(* that they meet in the same containers.                                  *)
(*                                                                         *)
(* The container's name and image are those that remain after the          *)
(* substitutions for arm64. Every workspace of a container has the same    *)
(* schema name, and hence the same lock.                                   *)
(***************************************************************************)
EXTENDS Naturals, Sequences, SequencesExt, FiniteSets

CONSTANTS
    Procs,        \* the skeema processes
    Workers,      \* their goroutines; each of them asks for one workspace
    ProcOf,       \* the process of each goroutine
    Requests,     \* what a goroutine may ask for: a set of [name, action]
    Names,        \* the names of containers
    Found,        \* what the daemon may have at first: a set of functions of Names
    Faults,       \* what may go wrong: an "image" is not there, a container does not
                  \* "start" or "stop", a "connect" or a "query" fails, a "kill"
    MaxFaults,
    None

ASSUME DockerAssumption ==
    /\ ProcOf \in [Workers -> Procs]
    /\ \A w \in Workers : Requests[w] \subseteq [name : Names, action : {"none", "stop", "destroy"}]
    /\ Faults \subseteq {"image", "start", "stop", "connect", "query", "kill"}
    /\ MaxFaults \in Nat
    /\ None \notin Workers \cup Procs
    \* a container that was there before has the id 1, see CreateContainer
    /\ \A f \in Found :
         /\ f \in [Names -> [id : {0, 1}, boot : Nat, status : {"absent", "stopped", "running"},
                            image : {"right", "other"}]]
         /\ \A n \in Names : f[n].id = 0 <=> f[n].status = "absent"

VARIABLES
    cont,        \* daemon: the container of each name, [id, boot, status, image]; its port
                 \* changes with every boot
    lock,        \* server: the goroutine whose connection has the lock skeema.<schema>
    schema,      \* server: the goroutine that created the temporary schema
    mutex,       \* cstore.Mutex of each process
    containers,  \* cstore.containers: the DockerizedInstance of each name
    funcs,       \* shutdownFuncs: a sequence of [name, action, di]
    funcMutex,   \* shutdownFuncMutex
    pc,          \* where each goroutine is
    me,          \* its local variables
    main,        \* where the main goroutine of each process is
    created,     \* history: the containers created, [proc, name, action, id, boot]
    warned,      \* log: ids of the containers that could not be stopped or removed
    faults       \* number of faults so far

daemon == <<cont, lock, schema>>
store == <<mutex, containers, funcs, funcMutex>>
vars == <<daemon, store, pc, me, main, created, warned, faults>>

\* A DockerizedInstance: the container it is for, the boot whose port it found,
\* and whether its embedded *Instance is there.
NoInstance == [id |-> 0, boot |-> 0, instance |-> FALSE]
Absent == [id |-> 0, boot |-> 0, status |-> "absent", image |-> "right"]

NoRequest == [name |-> None, action |-> "none"]
Fresh == [req |-> NoRequest, found |-> FALSE, di |-> NoInstance, result |-> None]

Init ==
    /\ cont \in Found
    /\ lock = [n \in Names |-> None]
    /\ schema = [n \in Names |-> None]
    /\ mutex = [p \in Procs |-> None]
    /\ containers = [p \in Procs |-> [n \in Names |-> NoInstance]]
    /\ funcs = [p \in Procs |-> <<>>]
    /\ funcMutex = [p \in Procs |-> None]
    /\ pc = [w \in Workers |-> "idle"]
    /\ me = [w \in Workers |-> Fresh]
    /\ main = [p \in Procs |-> "run"]
    /\ created = {}
    /\ warned = {}
    /\ faults = 0

Proc(w) == ProcOf[w]
Name(w) == me[w].req.name
Container(w) == cont[Name(w)]

\* Can the server that this DockerizedInstance knows be reached?
Reachable(n, di) ==
    cont[n].status = "running" /\ cont[n].id = di.id /\ cont[n].boot = di.boot

Go(w, l) == pc' = [pc EXCEPT ![w] = l]

\* NewLocalDocker (or Cleanup) returns an error: whatever was deferred is done.
Fail(w) ==
    /\ Go(w, "done")
    /\ me' = [me EXCEPT ![w].result = "error"]
    /\ mutex' = [mutex EXCEPT ![Proc(w)] = IF @ = w THEN None ELSE @]

\* A fault of this kind, if there may still be one.
Fault(kind) == kind \in Faults /\ faults < MaxFaults /\ faults' = faults + 1

-----------------------------------------------------------------------------
(* NewLocalDocker: find or make the container *)

Begin(w) ==
    /\ pc[w] = "idle" /\ main[Proc(w)] = "run"
    /\ \E r \in Requests[w] : me' = [me EXCEPT ![w].req = r]
    /\ Go(w, "begin")
    /\ UNCHANGED <<daemon, store, main, created, warned, faults>>

\* Mutant: the store is not locked.
LockStoreNever(w) ==
    /\ pc[w] = "begin"
    /\ me' = [me EXCEPT ![w].di = containers[Proc(w)][Name(w)]]
    /\ Go(w, IF containers[Proc(w)][Name(w)] = NoInstance THEN "inspect" ELSE "getlock")
    /\ UNCHANGED <<daemon, store, main, created, warned, faults>>

LockStore(w) ==
    /\ pc[w] = "begin"
    /\ mutex[Proc(w)] = None
    /\ mutex' = [mutex EXCEPT ![Proc(w)] = w]
    /\ me' = [me EXCEPT ![w].di = containers[Proc(w)][Name(w)]]
    /\ Go(w, IF containers[Proc(w)][Name(w)] = NoInstance THEN "inspect" ELSE "getlock")
    /\ UNCHANGED <<daemon, containers, funcs, funcMutex, main, created, warned, faults>>

\* GetInstance looks for the container; if there is none, CreateInstance is called.
InspectContainer(w) ==
    /\ pc[w] = "inspect"
    /\ me' = [me EXCEPT ![w].found = Container(w).status # "absent", ![w].di.id = Container(w).id]
    /\ Go(w, IF Container(w).status = "absent" THEN "create" ELSE "start")
    /\ UNCHANGED <<daemon, store, main, created, warned, faults>>

CreateContainer(w) ==
    /\ pc[w] = "create" /\ Container(w).status = "absent"
    /\ \E id \in {Cardinality(created) + 2} :
         /\ cont' = [cont EXCEPT ![Name(w)] = [id |-> id, boot |-> @.boot, status |-> "stopped",
                                               image |-> "right"]]
         /\ created' = created \cup {[proc |-> Proc(w), name |-> Name(w), id |-> id,
                                      action |-> me[w].req.action, boot |-> Container(w).boot]}
         /\ me' = [me EXCEPT ![w].di.id = id]
    /\ Go(w, "start")
    /\ UNCHANGED <<lock, schema, store, main, warned, faults>>

\* The image cannot be pulled, or another process has taken the name by now.
CreateContainerFails(w) ==
    /\ pc[w] = "create"
    /\ \/ Container(w).status # "absent" /\ UNCHANGED faults
       \/ Fault("image")
    /\ Fail(w)
    /\ UNCHANGED <<daemon, containers, funcs, funcMutex, main, created, warned>>

\* DockerizedInstance.Start: the port that is found is that of the current boot.
Start(w) ==
    /\ pc[w] = "start" /\ Container(w).id = me[w].di.id
    /\ \E boot \in {IF Container(w).status = "running" THEN Container(w).boot
                    ELSE Container(w).boot + 1} :
         /\ cont' = [cont EXCEPT ![Name(w)].status = "running", ![Name(w)].boot = boot]
         /\ me' = [me EXCEPT ![w].di.boot = boot]
    /\ Go(w, "connect")
    /\ UNCHANGED <<lock, schema, store, main, created, warned, faults>>

\* GetInstance forgets a container that it cannot start or connect to,
\* CreateInstance returns it with the error.
GiveUp(w) ==
    IF me[w].found THEN Fail(w)
    ELSE Go(w, "register") /\ me' = [me EXCEPT ![w].result = "error"] /\ UNCHANGED mutex

\* The container is gone, it does not start, or no port is mapped.
StartFails(w) ==
    /\ pc[w] = "start"
    /\ \/ Container(w).id # me[w].di.id /\ UNCHANGED faults
       \/ Fault("start")
    /\ GiveUp(w)
    /\ UNCHANGED <<daemon, containers, funcs, funcMutex, main, created, warned>>

\* TryConnect makes the *Instance. A container that was found must have the
\* right image.
TryConnect(w) ==
    /\ pc[w] = "connect" /\ Reachable(Name(w), me[w].di)
    /\ IF me[w].found /\ Container(w).image # "right" THEN Fail(w)
       ELSE /\ me' = [me EXCEPT ![w].di.instance = TRUE]
            /\ Go(w, "register") /\ UNCHANGED mutex
    /\ UNCHANGED <<daemon, containers, funcs, funcMutex, main, created, warned, faults>>

\* No connection in 30 seconds.
TryConnectFails(w) ==
    /\ pc[w] = "connect"
    /\ \/ ~Reachable(Name(w), me[w].di) /\ UNCHANGED faults
       \/ Fault("connect")
    /\ IF me[w].found THEN Fail(w)
       ELSE /\ me' = [me EXCEPT ![w].di.instance = TRUE, ![w].result = "error"]
            /\ Go(w, "register") /\ UNCHANGED mutex
    /\ UNCHANGED <<daemon, containers, funcs, funcMutex, main, created, warned>>

\* Mutant: only a container that can be used is remembered.
RegisterOnSuccess(w) ==
    /\ pc[w] = "register" /\ funcMutex[Proc(w)] = None
    /\ IF me[w].result = "error" THEN Fail(w) /\ UNCHANGED <<containers, funcs>>
       ELSE /\ containers' = [containers EXCEPT ![Proc(w)][Name(w)] = me[w].di]
            /\ funcs' = [funcs EXCEPT ![Proc(w)] =
                            Append(@, [name |-> Name(w), action |-> me[w].req.action, di |-> me[w].di])]
            /\ Go(w, "getlock") /\ UNCHANGED <<mutex, me>>
    /\ UNCHANGED <<daemon, funcMutex, main, created, warned, faults>>

\* The store remembers the instance and RegisterShutdownFunc its shutdown, also
\* when there was an error.
RegisterShutdownFunc(w) ==
    /\ pc[w] = "register" /\ funcMutex[Proc(w)] = None
    /\ containers' = [containers EXCEPT ![Proc(w)][Name(w)] = me[w].di]
    /\ funcs' = [funcs EXCEPT ![Proc(w)] =
                    Append(@, [name |-> Name(w), action |-> me[w].req.action, di |-> me[w].di])]
    /\ IF me[w].result = "error" THEN Fail(w) ELSE Go(w, "getlock") /\ UNCHANGED <<mutex, me>>
    /\ UNCHANGED <<daemon, funcMutex, main, created, warned, faults>>

-----------------------------------------------------------------------------
(* NewLocalDocker: the lock and the schema, with the store still locked *)

\* A process ends at once: the server closes its connections.
Die(p, how) ==
    /\ main' = [main EXCEPT ![p] = how]
    /\ pc' = [w \in Workers |-> IF ProcOf[w] = p THEN "dead" ELSE pc[w]]
    /\ lock' = [n \in Names |-> IF lock[n] # None /\ ProcOf[lock[n]] = p THEN None ELSE lock[n]]

\* getLock on a DockerizedInstance without *Instance: a nil pointer dereference.
GetLockPanics(w) ==
    /\ pc[w] = "getlock" /\ ~me[w].di.instance
    /\ Die(Proc(w), "panicked")
    /\ UNCHANGED <<cont, schema, store, me, created, warned, faults>>

\* Mutant: the answer of GET_LOCK is not looked at.
GetLockAlways(w) ==
    /\ pc[w] = "getlock" /\ me[w].di.instance
    /\ Reachable(Name(w), me[w].di)
    /\ lock' = [lock EXCEPT ![Name(w)] = w]
    /\ Go(w, "drop")
    /\ UNCHANGED <<cont, schema, store, me, main, created, warned, faults>>

GetLock(w) ==
    /\ pc[w] = "getlock" /\ me[w].di.instance
    /\ Reachable(Name(w), me[w].di)
    /\ lock[Name(w)] = None
    /\ lock' = [lock EXCEPT ![Name(w)] = w]
    /\ Go(w, "drop")
    /\ UNCHANGED <<cont, schema, store, me, main, created, warned, faults>>

\* The server cannot be reached, or somebody has had the lock for 30 seconds.
GetLockFails(w) ==
    /\ pc[w] = "getlock" /\ me[w].di.instance
    /\ ~Reachable(Name(w), me[w].di) \/ lock[Name(w)] # None
    /\ Fail(w)
    /\ UNCHANGED <<daemon, containers, funcs, funcMutex, main, created, warned, faults>>

DropExisting(w) ==
    /\ pc[w] = "drop" /\ Reachable(Name(w), me[w].di)
    /\ schema' = [schema EXCEPT ![Name(w)] = None]
    /\ Go(w, "createschema")
    /\ UNCHANGED <<cont, lock, store, me, main, created, warned, faults>>

CreateSchema(w) ==
    /\ pc[w] = "createschema" /\ Reachable(Name(w), me[w].di)
    /\ schema' = [schema EXCEPT ![Name(w)] = w]
    /\ mutex' = [mutex EXCEPT ![Proc(w)] = None]
    /\ Go(w, "using")
    /\ UNCHANGED <<cont, lock, containers, funcs, funcMutex, me, main, created, warned, faults>>

\* HasSchema, DropSchema or CreateSchema returns an error, or DropSchema in
\* Cleanup does: the server has been stopped or removed by another process, or the
\* statement fails (a table with rows in it, too). What is in the schema stays.
QueryFails(w) ==
    /\ pc[w] \in {"drop", "createschema", "using"}
    /\ \/ ~Reachable(Name(w), me[w].di) /\ UNCHANGED faults
       \/ Fault("query")
    /\ Fail(w)
    /\ UNCHANGED <<daemon, containers, funcs, funcMutex, main, created, warned>>

-----------------------------------------------------------------------------
(* Cleanup and the end of the program *)

Cleanup(w) ==
    /\ pc[w] = "using" /\ Reachable(Name(w), me[w].di)
    /\ schema' = [schema EXCEPT ![Name(w)] = None]
    /\ me' = [me EXCEPT ![w].result = "ok"]
    /\ Go(w, "done")
    /\ UNCHANGED <<cont, lock, store, main, created, warned, faults>>

\* The connection maintainer releases the lock a little later.
ReleaseLock(w) ==
    /\ pc[w] = "done" /\ Name(w) # None /\ lock[Name(w)] = w
    /\ lock' = [lock EXCEPT ![Name(w)] = None]
    /\ UNCHANGED <<cont, schema, store, pc, me, main, created, warned, faults>>

\* Mutant: main does not wait for the goroutines of the command.
ShutdownEarly(p) ==
    /\ main[p] = "run"
    /\ funcMutex' = [funcMutex EXCEPT ![p] = p]
    /\ main' = [main EXCEPT ![p] = "shutdown"]
    /\ UNCHANGED <<daemon, mutex, containers, funcs, pc, me, created, warned, faults>>

\* main calls Shutdown when the handler of the command has returned.
Shutdown(p) ==
    /\ main[p] = "run"
    /\ \A w \in Workers : ProcOf[w] = p => pc[w] = "done"
    /\ funcMutex' = [funcMutex EXCEPT ![p] = p]
    /\ main' = [main EXCEPT ![p] = "shutdown"]
    /\ UNCHANGED <<daemon, mutex, containers, funcs, pc, me, created, warned, faults>>

\* The container of a function to stop or to remove, if it still is that one.
Stopped(f) ==
    IF f.action = "none" \/ cont[f.name].id # f.di.id THEN cont[f.name]
    ELSE IF f.action = "stop" THEN [cont[f.name] EXCEPT !.status = "stopped"]
    ELSE [Absent EXCEPT !.boot = cont[f.name].boot]

\* The shutdown function has run: it is deregistered, and the store forgets the
\* container.
Deregister(p) ==
    /\ containers' = [containers EXCEPT ![p][Head(funcs[p]).name] = NoInstance]
    /\ funcs' = [funcs EXCEPT ![p] = Tail(@)]

\* LocalDocker.shutdown, for the next function of the list. Stop and Destroy begin
\* with CloseAll, a nil pointer dereference when there is no *Instance.
ShutdownNext(p) ==
    /\ main[p] = "shutdown" /\ funcs[p] # <<>> /\ mutex[p] = None
    /\ LET f == Head(funcs[p])
           stops == Stopped(f).status # cont[f.name].status
       IN  IF f.action # "none" /\ ~f.di.instance
           THEN Die(p, "panicked") /\ UNCHANGED <<cont, schema, containers, funcs>>
           ELSE /\ cont' = [cont EXCEPT ![f.name] = Stopped(f)]
                /\ lock' = [lock EXCEPT ![f.name] = IF stops THEN None ELSE @]
                /\ schema' = [schema EXCEPT ![f.name] = IF Stopped(f).status = "absent" THEN None ELSE @]
                /\ Deregister(p)
                /\ UNCHANGED <<main, pc>>
    /\ UNCHANGED <<mutex, funcMutex, me, created, warned, faults>>

\* Stop or Destroy fails: a warning, and the container stays as it is.
ShutdownFails(p) ==
    /\ main[p] = "shutdown" /\ funcs[p] # <<>> /\ mutex[p] = None
    /\ Head(funcs[p]).action # "none" /\ Head(funcs[p]).di.instance
    /\ Fault("stop")
    /\ warned' = warned \cup {Head(funcs[p]).di.id}
    /\ Deregister(p)
    /\ UNCHANGED <<daemon, mutex, funcMutex, pc, me, main, created>>

Exit(p) ==
    /\ main[p] = "shutdown" /\ funcs[p] = <<>>
    /\ funcMutex' = [funcMutex EXCEPT ![p] = None]
    /\ main' = [main EXCEPT ![p] = "exited"]
    /\ lock' = [n \in Names |-> IF lock[n] # None /\ ProcOf[lock[n]] = p THEN None ELSE lock[n]]
    /\ UNCHANGED <<cont, schema, mutex, containers, funcs, pc, me, created, warned, faults>>

Kill(p) ==
    /\ main[p] \in {"run", "shutdown"}
    /\ Fault("kill")
    /\ Die(p, "killed")
    /\ UNCHANGED <<cont, schema, store, me, created, warned>>

Step(w) ==
    \/ Begin(w) \/ LockStore(w) \/ InspectContainer(w) \/ CreateContainer(w)
    \/ CreateContainerFails(w) \/ Start(w) \/ StartFails(w) \/ TryConnect(w)
    \/ TryConnectFails(w) \/ RegisterShutdownFunc(w) \/ GetLock(w) \/ GetLockPanics(w)
    \/ GetLockFails(w) \/ DropExisting(w) \/ CreateSchema(w) \/ QueryFails(w) \/ Cleanup(w)

Finish(p) == Shutdown(p) \/ ShutdownNext(p) \/ ShutdownFails(p) \/ Exit(p)

Next ==
    \/ \E w \in Workers : Step(w) \/ ReleaseLock(w)
    \/ \E p \in Procs : Finish(p) \/ Kill(p)

Spec == Init /\ [][Next]_vars

\* The Go scheduler runs every goroutine that can go on.
FairSpec ==
    /\ Spec
    /\ \A w \in Workers : WF_vars(Step(w)) /\ WF_vars(ReleaseLock(w))
    /\ \A p \in Procs : WF_vars(Finish(p))

-----------------------------------------------------------------------------
(* Properties *)

\* A goroutine that has a workspace finds its own schema in it, as long as its
\* server is there: no other goroutine, of this or of another process, drops or
\* re-creates the schema under it.
Isolation ==
    \A w \in Workers : pc[w] = "using" /\ Reachable(Name(w), me[w].di) => schema[Name(w)] = w

\* Every container that a process uses is in its store once, with one shutdown
\* function, so that none is shut down twice or never.
RegisteredOnce ==
    \A p \in Procs :
        /\ {f.name : f \in ToSet(funcs[p])} = {n \in Names : containers[p][n] # NoInstance}
        /\ Len(funcs[p]) = Cardinality({f.name : f \in ToSet(funcs[p])})

\* A created container has not been cleaned up: it is still there although it was
\* to be removed, or still runs as it was first started although it was to be
\* stopped.
LeftBehind(c) ==
    /\ cont[c.name].id = c.id
    /\ \/ c.action = "destroy"
       \/ c.action = "stop" /\ cont[c.name].status = "running" /\ cont[c.name].boot <= c.boot + 1

\* A process that is not killed stops or removes every container it created under
\* docker-cleanup, also one that never answered, with two exceptions: a failure of
\* Stop or Destroy is logged and not tried again, and a container that did not
\* even start makes the process panic, which leaves that one behind with all
\* those whose shutdown was yet to come.
CreatedIsCleaned ==
    \A c \in created :
        main[c.proc] \in {"exited", "panicked"} /\ LeftBehind(c) =>
            \/ c.id \in warned
            \/ /\ main[c.proc] = "panicked"
               /\ \E f \in ToSet(funcs[c.proc]) : f.di.id = c.id
               /\ \E f \in ToSet(funcs[c.proc]) : ~f.di.instance

\* Every process ends, although its goroutines wait for the store, for the list
\* of shutdown functions and for each other's lock.
Terminates == \A p \in Procs : <>(main[p] \notin {"run", "shutdown"})
=============================================================================
