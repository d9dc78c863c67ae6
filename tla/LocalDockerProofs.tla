------------------------- MODULE LocalDockerProofs -------------------------
(***************************************************************************)
(* Proofs about LocalDocker, for any processes, goroutines, requests,      *)
(* containers and faults.                                                  *)
(***************************************************************************)
EXTENDS LocalDocker, TLAPS, FiniteSetTheorems, SequenceTheorems

----------------------------------------------------------------------------
(* The inductive invariant                                                 *)

Actions == {"none", "stop", "destroy"}
Dockerized == [id : Nat, boot : Nat, instance : BOOLEAN]
Containers == [id : Nat, boot : Nat, status : {"absent", "stopped", "running"},
               image : {"right", "other"}]
ShutdownFuncs == [name : Names, action : Actions, di : Dockerized]
Locals == [req : [name : Names \cup {None}, action : Actions], found : BOOLEAN,
           di : Dockerized, result : {None, "error", "ok"}]
Creations == [proc : Procs, name : Names, id : Nat, action : Actions, boot : Nat]

\* Labels of a goroutine that looks for a container and is to register it.
Making == {"start", "connect", "register"}
Searching == {"inspect", "create"} \cup Making
\* Labels at which the goroutine has to have the lock of the schema.
Section == {"drop", "createschema", "using"}
\* Labels between the Lock and the Unlock of the store.
StoreLocked == Searching \cup {"getlock", "drop", "createschema"}
Labels == StoreLocked \cup {"idle", "begin", "using", "done", "dead"}

Types ==
    /\ cont \in [Names -> Containers]
    /\ lock \in [Names -> Workers \cup {None}]
    /\ schema \in [Names -> Workers \cup {None}]
    /\ mutex \in [Procs -> Workers \cup {None}]
    /\ containers \in [Procs -> [Names -> Dockerized]]
    /\ funcs \in [Procs -> Seq(ShutdownFuncs)]
    /\ pc \in [Workers -> Labels]
    /\ me \in [Workers -> Locals]
    /\ main \in [Procs -> {"run", "shutdown", "exited", "panicked", "killed"}]
    /\ created \in SUBSET Creations
    /\ IsFiniteSet(created)

\* Where a goroutine is, and what it may rely on there.
Standing ==
    /\ \A n \in Names : cont[n].status # "absent" => cont[n].id # 0
    /\ \A w \in Workers :
        /\ pc[w] \notin {"idle", "dead"} => Name(w) \in Names
        /\ pc[w] \in StoreLocked => mutex[Proc(w)] = w
        /\ pc[w] \in Searching => containers[Proc(w)][Name(w)] = NoInstance
        /\ pc[w] \in {"inspect", "create"} => ~me[w].di.instance
        /\ pc[w] = "create" => ~me[w].found
        /\ pc[w] \in Making => me[w].di.id # 0
        /\ main[Proc(w)] # "run" => pc[w] \in {"done", "dead"}

\* Nobody knows a boot that is yet to come, so that a server that was stopped
\* does not become reachable again.
Boots ==
    /\ \A p \in Procs, n \in Names : containers[p][n].boot <= cont[n].boot
    /\ \A w \in Workers : pc[w] \in StoreLocked \cup {"using"} =>
         me[w].di.boot <= cont[Name(w)].boot

\* Whoever works on a schema has its lock, and the one who uses it made it.
Locking ==
    \A w \in Workers : pc[w] \in Section /\ Reachable(Name(w), me[w].di) =>
        /\ lock[Name(w)] = w
        /\ pc[w] = "using" => schema[Name(w)] = w

FuncNames(p) == {f.name : f \in ToSet(funcs[p])}

\* The store and the list of shutdown functions agree.
Registered ==
    \A p \in Procs :
        /\ \A i, j \in 1..Len(funcs[p]) : funcs[p][i].name = funcs[p][j].name => i = j
        /\ \A i \in 1..Len(funcs[p]) : funcs[p][i].di.id # 0
        /\ IsFiniteSet(FuncNames(p))
        /\ Len(funcs[p]) = Cardinality(FuncNames(p))
        /\ FuncNames(p) = {n \in Names : containers[p][n] # NoInstance}

\* A created container that its process is through with.
Cleaned(c) ==
    cont[c.name].id = c.id =>
        /\ c.action # "destroy"
        /\ c.action = "stop" => /\ cont[c.name].boot > c.boot
                                /\ cont[c.name].status = "running"
                                    => cont[c.name].boot > c.boot + 1

\* A goroutine is about to register the container.
InTheMaking(c) ==
    \E w \in Workers :
        /\ Proc(w) = c.proc /\ pc[w] \in Making /\ Name(w) = c.name
        /\ me[w].req.action = c.action /\ ~me[w].found /\ me[w].di.id = c.id
        /\ pc[w] = "connect" \/ me[w].di.instance => cont[c.name].boot > c.boot

\* A shutdown function of its process is for the container.
ToBeCleaned(c) ==
    \E i \in 1..Len(funcs[c.proc]) :
        LET f == funcs[c.proc][i]
        IN  /\ f.name = c.name /\ f.action = c.action /\ f.di.id = c.id
            /\ f.di.instance => cont[c.name].boot > c.boot

\* No created container is forgotten by a process that lives.
Tracked ==
    /\ \A p \in Procs : main[p] = "exited" => funcs[p] = <<>>
    /\ \A c \in created :
        /\ c.id \in 2..(Cardinality(created) + 1)
        /\ cont[c.name].id = c.id =>
             /\ cont[c.name].boot >= c.boot
             /\ cont[c.name].status = "running" => cont[c.name].boot > c.boot
        /\ \/ main[c.proc] = "killed" \/ c.id \in warned
           \/ InTheMaking(c) \/ ToBeCleaned(c) \/ Cleaned(c)

DockerInv == Types /\ Standing /\ Boots /\ Locking /\ Registered /\ Tracked

----------------------------------------------------------------------------
(* One goroutine moves                                                     *)

\* A record that is changed in one field.
LEMMA LocalsChange ==
    ASSUME NEW m \in Locals
    PROVE  /\ \A r \in [name : Names, action : Actions] :
                [m EXCEPT !.req = r] \in Locals
           /\ \A d \in Dockerized : [m EXCEPT !.di = d] \in Locals
           /\ \A x \in {None, "error", "ok"} : [m EXCEPT !.result = x] \in Locals
BY DEF Locals

\* Goroutine w goes to label l with the local variables m.
Moves(w, l, m) == pc' = [pc EXCEPT ![w] = l] /\ me' = [me EXCEPT ![w] = m]

LEMMA MovesOnly ==
    ASSUME Types, NEW w \in Workers, NEW l \in Labels, NEW m \in Locals, Moves(w, l, m)
    PROVE  /\ pc' \in [Workers -> Labels] /\ me' \in [Workers -> Locals]
           /\ pc'[w] = l /\ me'[w] = m
           /\ \A v \in Workers \ {w} : pc'[v] = pc[v] /\ me'[v] = me[v]
BY DEF Types, Moves

\* What w may rely on at its new label.
StandsAt(w, l, m) ==
    /\ l \notin {"idle", "dead"} => m.req.name \in Names
    /\ l \in StoreLocked => mutex'[Proc(w)] = w
    /\ l \in Searching => containers[Proc(w)][m.req.name] = NoInstance
    /\ l \in {"inspect", "create"} => ~m.di.instance
    /\ l = "create" => ~m.found
    /\ l \in Making => m.di.id # 0
    /\ main[Proc(w)] # "run" => l \in {"done", "dead"}
    /\ l \in StoreLocked \cup {"using"} => m.di.boot <= cont[m.req.name].boot

\* A container that w made is still in its hands.
Carries(w, l, m) ==
    pc[w] \in Making /\ ~me[w].found =>
        /\ l \in Making /\ m.req = me[w].req /\ ~m.found /\ m.di.id = me[w].di.id
        /\ l = "connect" \/ m.di.instance => pc[w] = "connect" \/ me[w].di.instance

\* The other goroutines of the process keep the mutex of the store.
LeavesMutex(w) ==
    /\ mutex' \in [Procs -> Workers \cup {None}]
    /\ \A v \in Workers \ {w} : mutex[Proc(v)] = v => mutex'[Proc(v)] = v

\* A step of a goroutine that changes no container, store or shutdown function.
LEMMA LocalStep ==
    ASSUME DockerInv, NEW w \in Workers, NEW l \in Labels, NEW m \in Locals,
           Moves(w, l, m), StandsAt(w, l, m), Carries(w, l, m), LeavesMutex(w),
           UNCHANGED <<cont, containers, funcs, main, created, warned>>
    PROVE  Standing' /\ Boots' /\ Registered' /\ Tracked'
<1>0. Types
  BY DEF DockerInv
<1>1. /\ pc' \in [Workers -> Labels] /\ me' \in [Workers -> Locals]
      /\ pc'[w] = l /\ me'[w] = m
      /\ \A v \in Workers \ {w} : pc'[v] = pc[v] /\ me'[v] = me[v]
  BY <1>0, MovesOnly
<1>2. Standing'
  BY <1>1 DEF DockerInv, Standing, Name, Proc, StandsAt, LeavesMutex
<1>3. Boots'
  BY <1>1 DEF DockerInv, Boots, Name, StandsAt
<1>4. Registered'
  BY DEF DockerInv, Registered, FuncNames
<1>5. Tracked'
  <2> SUFFICES ASSUME NEW c \in created
               PROVE  \/ main[c.proc] = "killed" \/ c.id \in warned
                      \/ InTheMaking(c)' \/ ToBeCleaned(c)' \/ Cleaned(c)'
    BY DEF DockerInv, Tracked
  <2>1. CASE main[c.proc] = "killed" \/ c.id \in warned
    BY <2>1
  <2>2. CASE ToBeCleaned(c)
    BY <2>2 DEF ToBeCleaned
  <2>3. CASE Cleaned(c)
    BY <2>3 DEF Cleaned
  <2>4. CASE InTheMaking(c)
    <3>1. PICK v \in Workers :
            /\ Proc(v) = c.proc /\ pc[v] \in Making /\ Name(v) = c.name
            /\ me[v].req.action = c.action /\ ~me[v].found /\ me[v].di.id = c.id
            /\ pc[v] = "connect" \/ me[v].di.instance => cont[c.name].boot > c.boot
      BY <2>4 DEF InTheMaking
    <3>2. CASE v # w
      BY <1>1, <3>1, <3>2 DEF InTheMaking, Name
    <3>3. CASE v = w
      BY <1>1, <3>1, <3>3 DEF InTheMaking, Name, Carries
    <3> QED BY <3>2, <3>3
  <2> QED BY <2>1, <2>2, <2>3, <2>4 DEF DockerInv, Tracked
<1> QED BY <1>2, <1>3, <1>4, <1>5

\* The schemas of the others are left alone.
LEMMA OthersLocking ==
    ASSUME DockerInv, NEW w \in Workers, NEW l \in Labels, NEW m \in Locals,
           Moves(w, l, m), UNCHANGED <<cont, lock, schema>>,
           l \in Section => Name(w) = m.req.name /\ me[w].di = m.di
                            /\ pc[w] \in Section /\ l # "using"
    PROVE  Locking'
<1>0. Types
  BY DEF DockerInv
<1>1. /\ pc'[w] = l /\ me'[w] = m
      /\ \A v \in Workers \ {w} : pc'[v] = pc[v] /\ me'[v] = me[v]
  BY <1>0, MovesOnly
<1> QED BY <1>1 DEF DockerInv, Locking, Name, Reachable

----------------------------------------------------------------------------
(* The steps of NewLocalDocker that make nothing                           *)

\* A goroutine at work belongs to a process that runs.
LEMMA AtWork ==
    ASSUME DockerInv, NEW w \in Workers, pc[w] \notin {"done", "dead"}
    PROVE  /\ Types /\ main[Proc(w)] = "run" /\ Proc(w) \in Procs
           /\ me[w] \in Locals /\ me[w].di \in Dockerized
           /\ pc[w] # "idle" => Name(w) \in Names /\ Container(w) \in Containers
BY DockerAssumption DEF DockerInv, Standing, Types, Proc, Locals, Container

LEMMA BeginStep ==
    ASSUME DockerInv, NEW w \in Workers, Begin(w)
    PROVE  DockerInv'
<1>0. pc[w] = "idle" /\ Types /\ main[Proc(w)] = "run" /\ me[w] \in Locals
  BY AtWork DEF Begin
<1>1. PICK r \in Requests[w] : me' = [me EXCEPT ![w].req = r]
  BY DEF Begin
<1>2. PICK m \in Locals : Moves(w, "begin", m) /\ m.req = r
  <2>1. r \in [name : Names, action : Actions]
    BY DockerAssumption DEF Actions
  <2>2. [me[w] EXCEPT !.req = r] \in Locals
    BY <1>0, <2>1, LocalsChange
  <2>3. Moves(w, "begin", [me[w] EXCEPT !.req = r])
    BY <1>1 DEF Begin, Go, Moves
  <2> QED BY <1>0, <2>2, <2>3 DEF Locals
<1>3. "begin" \in Labels /\ r.name \in Names
  BY DockerAssumption DEF Labels
<1>4. StandsAt(w, "begin", m) /\ Carries(w, "begin", m) /\ LeavesMutex(w)
  BY <1>0, <1>2, <1>3
  DEF Begin, store, StandsAt, Carries, LeavesMutex, StoreLocked, Searching, Making, Types
<1>5. Standing' /\ Boots' /\ Registered' /\ Tracked'
  BY <1>2, <1>3, <1>4, LocalStep DEF Begin, daemon, store
<1>6. Locking'
  BY <1>2, <1>3, OthersLocking DEF Begin, daemon, Section
<1>7. Types'
  BY <1>0, <1>2, <1>3, MovesOnly DEF Begin, Types, daemon, store
<1> QED BY <1>5, <1>6, <1>7 DEF DockerInv

\* The store is locked, and asked for the container.
LEMMA LockStoreStep ==
    ASSUME DockerInv, NEW w \in Workers, LockStore(w)
    PROVE  DockerInv'
<1> DEFINE d == containers[Proc(w)][Name(w)]
<1>0. /\ pc[w] = "begin" /\ Types /\ main[Proc(w)] = "run" /\ me[w] \in Locals
      /\ Proc(w) \in Procs /\ Name(w) \in Names /\ d \in Dockerized
  BY AtWork DEF LockStore, Types
<1>1. PICK l \in {"inspect", "getlock"} :
        pc' = [pc EXCEPT ![w] = l] /\ (l = "inspect" <=> d = NoInstance)
  BY DEF LockStore, Go
<1>2. PICK m \in Locals : Moves(w, l, m) /\ m.req = me[w].req /\ m.di = d
  <2>1. [me[w] EXCEPT !.di = d] \in Locals
    BY <1>0, LocalsChange
  <2>2. Moves(w, l, [me[w] EXCEPT !.di = d])
    BY <1>1 DEF LockStore, Moves
  <2> QED BY <1>0, <2>1, <2>2 DEF Locals
<1>3. l \in Labels
  BY DEF Labels, StoreLocked, Searching
<1>4. LeavesMutex(w) /\ mutex'[Proc(w)] = w
  <2>1. mutex[Proc(w)] = None /\ \A v \in Workers : v # None
    BY DockerAssumption DEF LockStore
  <2> QED BY <1>0, <2>1 DEF LockStore, LeavesMutex, Types
<1>5. StandsAt(w, l, m) /\ Carries(w, l, m)
  BY <1>0, <1>1, <1>2, <1>4
  DEF StandsAt, Carries, Making, Searching, StoreLocked, Name, DockerInv, Boots, NoInstance
<1>6. Standing' /\ Boots' /\ Registered' /\ Tracked'
  BY <1>2, <1>3, <1>4, <1>5, LocalStep DEF LockStore, daemon
<1>7. Locking'
  BY <1>2, <1>3, OthersLocking DEF LockStore, daemon, Section
<1>8. Types'
  BY <1>0, <1>2, <1>3, <1>4, MovesOnly DEF LockStore, LeavesMutex, Types, daemon
<1> QED BY <1>6, <1>7, <1>8 DEF DockerInv

LEMMA InspectStep ==
    ASSUME DockerInv, NEW w \in Workers, InspectContainer(w)
    PROVE  DockerInv'
<1> DEFINE x == Container(w)
<1>0. /\ pc[w] = "inspect" /\ Types /\ main[Proc(w)] = "run" /\ me[w] \in Locals
      /\ Name(w) \in Names /\ me[w].di \in Dockerized /\ x \in Containers
  BY AtWork DEF InspectContainer
<1>1. PICK l \in {"create", "start"} :
        pc' = [pc EXCEPT ![w] = l] /\ (l = "create" <=> x.status = "absent")
  BY DEF InspectContainer, Go
<1>2. PICK m \in Locals :
        /\ Moves(w, l, m) /\ m.req = me[w].req /\ m.di.id = x.id
        /\ m.di.boot = me[w].di.boot /\ m.found = (x.status # "absent")
        /\ m.di.instance = me[w].di.instance
  <2> DEFINE m == [me[w] EXCEPT !.found = x.status # "absent", !.di.id = x.id]
  <2>1. m \in Locals /\ m.req = me[w].req /\ m.di.id = x.id
        /\ m.di.boot = me[w].di.boot /\ m.found = (x.status # "absent")
        /\ m.di.instance = me[w].di.instance
    BY <1>0 DEF Locals, Dockerized, Containers
  <2>2. Moves(w, l, m)
    BY <1>1 DEF InspectContainer, Moves
  <2> QED BY <2>1, <2>2
<1>3. l \in Labels
  BY DEF Labels, StoreLocked, Searching, Making
<1>4. LeavesMutex(w)
  BY <1>0 DEF InspectContainer, store, LeavesMutex, Types
<1>5. StandsAt(w, l, m) /\ Carries(w, l, m)
  BY <1>0, <1>1, <1>2
  DEF StandsAt, Carries, Making, Searching, StoreLocked, Name, DockerInv, Boots,
      Standing, InspectContainer, store, Container
<1>6. Standing' /\ Boots' /\ Registered' /\ Tracked'
  BY <1>2, <1>3, <1>4, <1>5, LocalStep DEF InspectContainer, daemon, store
<1>7. Locking'
  BY <1>2, <1>3, OthersLocking DEF InspectContainer, daemon, Section
<1>8. Types'
  BY <1>0, <1>2, <1>3, MovesOnly DEF InspectContainer, Types, daemon, store
<1> QED BY <1>6, <1>7, <1>8 DEF DockerInv

\* NewLocalDocker gives up with a container that it did not make.
LEMMA FailStep ==
    ASSUME DockerInv, NEW w \in Workers, pc[w] \notin {"idle", "done", "dead"}, Fail(w),
           pc[w] \in Making => me[w].found,
           UNCHANGED <<daemon, containers, funcs, main, created, warned>>
    PROVE  DockerInv'
<1>0. /\ Types /\ main[Proc(w)] = "run" /\ me[w] \in Locals /\ Proc(w) \in Procs
      /\ Name(w) \in Names
  BY AtWork
<1>1. PICK m \in Locals : Moves(w, "done", m) /\ m.req = me[w].req
  <2>1. [me[w] EXCEPT !.result = "error"] \in Locals
    BY <1>0, LocalsChange
  <2>2. Moves(w, "done", [me[w] EXCEPT !.result = "error"])
    BY DEF Fail, Go, Moves
  <2> QED BY <1>0, <2>1, <2>2 DEF Locals
<1>2. "done" \in Labels
  BY DEF Labels
<1>3. LeavesMutex(w)
  BY <1>0 DEF Fail, LeavesMutex, Types
<1>4. StandsAt(w, "done", m) /\ Carries(w, "done", m)
  BY <1>0, <1>1 DEF StandsAt, Carries, Making, Searching, StoreLocked, Name
<1>5. Standing' /\ Boots' /\ Registered' /\ Tracked'
  BY <1>1, <1>2, <1>3, <1>4, LocalStep DEF daemon
<1>6. Locking'
  BY <1>1, <1>2, OthersLocking DEF daemon, Section
<1>7. Types'
  BY <1>0, <1>1, <1>2, <1>3, MovesOnly DEF LeavesMutex, Types, daemon
<1> QED BY <1>5, <1>6, <1>7 DEF DockerInv

\* A container is to be registered, usable or not.
LEMMA ToRegisterStep ==
    ASSUME DockerInv, NEW w \in Workers, pc[w] \in {"start", "connect"},
           NEW m \in Locals, Moves(w, "register", m),
           m.req = me[w].req, m.found = me[w].found, m.di.id = me[w].di.id,
           m.di.boot = me[w].di.boot,
           m.di.instance => pc[w] = "connect" \/ me[w].di.instance,
           UNCHANGED <<daemon, mutex, containers, funcs, main, created, warned>>
    PROVE  DockerInv'
<1>0. /\ Types /\ main[Proc(w)] = "run" /\ me[w] \in Locals /\ Proc(w) \in Procs
      /\ Name(w) \in Names
  BY AtWork
<1>2. "register" \in Labels
  BY DEF Labels, StoreLocked, Searching, Making
<1>3. LeavesMutex(w)
  BY <1>0 DEF LeavesMutex, Types
<1>4. StandsAt(w, "register", m) /\ Carries(w, "register", m)
  BY <1>0
  DEF StandsAt, Carries, Making, Searching, StoreLocked, Name, DockerInv, Standing, Boots
<1>5. Standing' /\ Boots' /\ Registered' /\ Tracked'
  BY <1>2, <1>3, <1>4, LocalStep DEF daemon
<1>6. Locking'
  BY <1>2, OthersLocking DEF daemon, Section
<1>7. Types'
  BY <1>0, <1>2, MovesOnly DEF Types, daemon
<1> QED BY <1>5, <1>6, <1>7 DEF DockerInv

LEMMA StartFailsStep ==
    ASSUME DockerInv, NEW w \in Workers, StartFails(w)
    PROVE  DockerInv'
<1>0. Types /\ me[w] \in Locals /\ pc[w] = "start"
  BY AtWork DEF StartFails
<1>1. CASE me[w].found
  BY <1>0, <1>1, FailStep DEF StartFails, GiveUp, daemon
<1>2. CASE ~me[w].found
  <2>1. PICK m \in Locals :
          /\ Moves(w, "register", m)
          /\ m.req = me[w].req /\ m.found = me[w].found /\ m.di = me[w].di
    <3>1. [me[w] EXCEPT !.result = "error"] \in Locals
      BY <1>0, LocalsChange
    <3>2. Moves(w, "register", [me[w] EXCEPT !.result = "error"])
      BY <1>2 DEF StartFails, GiveUp, Go, Moves
    <3> QED BY <1>0, <3>1, <3>2 DEF Locals
  <2> QED BY <1>0, <1>2, <2>1, ToRegisterStep DEF StartFails, GiveUp, daemon
<1> QED BY <1>1, <1>2

LEMMA TryConnectStep ==
    ASSUME DockerInv, NEW w \in Workers, TryConnect(w) \/ TryConnectFails(w)
    PROVE  DockerInv'
<1>0. Types /\ me[w] \in Locals /\ me[w].di \in Dockerized /\ pc[w] = "connect"
  BY AtWork DEF TryConnect, TryConnectFails
<1>1. CASE Fail(w) /\ me[w].found
  BY <1>0, <1>1, FailStep DEF TryConnect, TryConnectFails, daemon
<1>2. CASE ~(Fail(w) /\ me[w].found)
  <2>1. PICK m \in Locals :
          /\ Moves(w, "register", m)
          /\ m.req = me[w].req /\ m.found = me[w].found
          /\ m.di.id = me[w].di.id /\ m.di.boot = me[w].di.boot
    <3>1. PICK x \in {me[w].result, "error"} :
            Moves(w, "register", [me[w] EXCEPT !.di.instance = TRUE, !.result = x])
      <4>1. CASE TryConnect(w)
        <5>1. [me[w] EXCEPT !.di.instance = TRUE]
                = [me[w] EXCEPT !.di.instance = TRUE, !.result = me[w].result]
          BY <1>0 DEF Locals
        <5> QED BY <1>2, <4>1, <5>1 DEF TryConnect, Go, Moves
      <4>2. CASE TryConnectFails(w)
        BY <1>2, <4>2 DEF TryConnectFails, Go, Moves
      <4> QED BY <4>1, <4>2
    <3> DEFINE m == [me[w] EXCEPT !.di.instance = TRUE, !.result = x]
    <3>2. /\ m \in Locals /\ m.req = me[w].req /\ m.found = me[w].found
          /\ m.di.id = me[w].di.id /\ m.di.boot = me[w].di.boot
      BY <1>0 DEF Locals, Dockerized
    <3> QED BY <3>1, <3>2
  <2> QED BY <1>0, <1>2, <2>1, ToRegisterStep DEF TryConnect, TryConnectFails, daemon
<1> QED BY <1>1, <1>2

----------------------------------------------------------------------------
(* The lock and the schema                                                 *)

LEMMA GetLockStep ==
    ASSUME DockerInv, NEW w \in Workers, GetLock(w)
    PROVE  DockerInv'
<1>0. /\ Types /\ main[Proc(w)] = "run" /\ me[w] \in Locals /\ Proc(w) \in Procs
      /\ Name(w) \in Names /\ pc[w] = "getlock"
  BY AtWork DEF GetLock
<1>1. Moves(w, "drop", me[w])
  BY <1>0 DEF GetLock, Go, Moves, Types
<1>2. "drop" \in Labels
  BY DEF Labels, StoreLocked
<1>3. LeavesMutex(w) /\ StandsAt(w, "drop", me[w]) /\ Carries(w, "drop", me[w])
  BY <1>0
  DEF GetLock, store, StandsAt, Carries, LeavesMutex, Types, Making, Searching,
      StoreLocked, Name, DockerInv, Standing, Boots
<1>4. Standing' /\ Boots' /\ Registered' /\ Tracked'
  BY <1>0, <1>1, <1>2, <1>3, LocalStep DEF GetLock, store
<1>5. Locking'
  <2>1. lock[Name(w)] = None /\ \A v \in Workers : v # None
    BY DockerAssumption DEF GetLock
  <2> QED BY <1>0, <2>1 DEF GetLock, Go, DockerInv, Locking, Name, Reachable, Types
<1>6. Types'
  BY <1>0, <1>1, <1>2, MovesOnly DEF GetLock, Types, store
<1> QED BY <1>4, <1>5, <1>6 DEF DockerInv

LEMMA DropExistingStep ==
    ASSUME DockerInv, NEW w \in Workers, DropExisting(w)
    PROVE  DockerInv'
<1>0. /\ Types /\ main[Proc(w)] = "run" /\ me[w] \in Locals /\ Proc(w) \in Procs
      /\ Name(w) \in Names /\ pc[w] = "drop"
  BY AtWork DEF DropExisting
<1>1. Moves(w, "createschema", me[w])
  BY <1>0 DEF DropExisting, Go, Moves, Types
<1>2. "createschema" \in Labels
  BY DEF Labels, StoreLocked
<1>3. /\ LeavesMutex(w) /\ StandsAt(w, "createschema", me[w])
      /\ Carries(w, "createschema", me[w])
  BY <1>0
  DEF DropExisting, store, StandsAt, Carries, LeavesMutex, Types, Making, Searching,
      StoreLocked, Name, DockerInv, Standing, Boots
<1>4. Standing' /\ Boots' /\ Registered' /\ Tracked'
  BY <1>0, <1>1, <1>2, <1>3, LocalStep DEF DropExisting, store
<1>5. Locking'
  <2>1. lock[Name(w)] = w
    BY <1>0 DEF DropExisting, DockerInv, Locking, Section
  <2> QED BY <1>0, <2>1
      DEF DropExisting, Go, DockerInv, Locking, Name, Reachable, Types, Section
<1>6. Types'
  BY <1>0, <1>1, <1>2, MovesOnly DEF DropExisting, Types, store
<1> QED BY <1>4, <1>5, <1>6 DEF DockerInv

LEMMA CreateSchemaStep ==
    ASSUME DockerInv, NEW w \in Workers, CreateSchema(w)
    PROVE  DockerInv'
<1>0. /\ Types /\ main[Proc(w)] = "run" /\ me[w] \in Locals /\ Proc(w) \in Procs
      /\ Name(w) \in Names /\ pc[w] = "createschema" /\ mutex[Proc(w)] = w
  BY AtWork DEF CreateSchema, DockerInv, Standing, StoreLocked
<1>1. Moves(w, "using", me[w])
  BY <1>0 DEF CreateSchema, Go, Moves, Types
<1>2. "using" \in Labels
  BY DEF Labels
<1>3. LeavesMutex(w)
  BY <1>0 DEF CreateSchema, LeavesMutex, Types
<1>4. StandsAt(w, "using", me[w]) /\ Carries(w, "using", me[w])
  BY <1>0
  DEF CreateSchema, StandsAt, Carries, Making, Searching,
      StoreLocked, Name, DockerInv, Standing, Boots
<1>5. Standing' /\ Boots' /\ Registered' /\ Tracked'
  BY <1>0, <1>1, <1>2, <1>3, <1>4, LocalStep DEF CreateSchema
<1>6. Locking'
  <2>1. lock[Name(w)] = w
    BY <1>0 DEF CreateSchema, DockerInv, Locking, Section
  <2> QED BY <1>0, <2>1
      DEF CreateSchema, Go, DockerInv, Locking, Name, Reachable, Types, Section
<1>7. Types'
  BY <1>0, <1>1, <1>2, <1>3, MovesOnly DEF CreateSchema, LeavesMutex, Types
<1> QED BY <1>5, <1>6, <1>7 DEF DockerInv

LEMMA CleanupStep ==
    ASSUME DockerInv, NEW w \in Workers, Cleanup(w)
    PROVE  DockerInv'
<1>0. /\ Types /\ main[Proc(w)] = "run" /\ me[w] \in Locals /\ Proc(w) \in Procs
      /\ Name(w) \in Names /\ pc[w] = "using"
  BY AtWork DEF Cleanup
<1>1. PICK m \in Locals : Moves(w, "done", m) /\ m.req = me[w].req
  <2>1. [me[w] EXCEPT !.result = "ok"] \in Locals
    BY <1>0, LocalsChange
  <2>2. Moves(w, "done", [me[w] EXCEPT !.result = "ok"])
    BY DEF Cleanup, Go, Moves
  <2> QED BY <1>0, <2>1, <2>2 DEF Locals
<1>2. "done" \in Labels
  BY DEF Labels
<1>3. LeavesMutex(w) /\ StandsAt(w, "done", m) /\ Carries(w, "done", m)
  BY <1>0, <1>1
  DEF Cleanup, store, StandsAt, Carries, LeavesMutex, Types, Making, Searching, StoreLocked, Name
<1>4. Standing' /\ Boots' /\ Registered' /\ Tracked'
  BY <1>1, <1>2, <1>3, LocalStep DEF Cleanup, store
<1>5. Locking'
  <2>1. lock[Name(w)] = w
    BY <1>0 DEF Cleanup, DockerInv, Locking, Section
  <2>2. /\ pc'[w] = "done"
        /\ \A v \in Workers \ {w} : pc'[v] = pc[v] /\ me'[v] = me[v]
    BY <1>0, <1>1, <1>2, MovesOnly
  <2> SUFFICES ASSUME NEW v \in Workers, pc'[v] \in Section,
                      (Reachable(Name(v), me[v].di))'
               PROVE  (lock[Name(v)] = v /\ (pc[v] = "using" => schema[Name(v)] = v))'
    BY DEF Locking
  <2>3. v # w /\ pc'[v] = pc[v] /\ me'[v] = me[v]
    BY <2>2 DEF Section
  <2>4. pc[v] \in Section /\ Reachable(Name(v), me[v].di)
    BY <2>3 DEF Cleanup, Reachable, Name
  <2>5. lock[Name(v)] = v /\ (pc[v] = "using" => schema[Name(v)] = v)
    BY <2>4 DEF DockerInv, Locking
  <2>6. Name(v) # Name(w)
    BY <2>1, <2>3, <2>5
  <2> QED BY <1>0, <2>3, <2>5, <2>6 DEF Cleanup, Types, Name
<1>6. Types'
  BY <1>0, <1>1, <1>2, MovesOnly DEF Cleanup, Types, store
<1> QED BY <1>4, <1>5, <1>6 DEF DockerInv

LEMMA ReleaseLockStep ==
    ASSUME DockerInv, NEW w \in Workers, ReleaseLock(w)
    PROVE  DockerInv'
<1>0. Types /\ pc[w] = "done" /\ lock[Name(w)] = w
  BY DEF ReleaseLock, DockerInv
<1>1. Locking'
  <2> SUFFICES ASSUME NEW v \in Workers, pc[v] \in Section, Reachable(Name(v), me[v].di)
               PROVE  lock'[Name(v)] = v /\ (pc[v] = "using" => schema[Name(v)] = v)
    BY DEF ReleaseLock, Locking, Name, Reachable
  <2>1. v # w /\ lock[Name(v)] = v /\ (pc[v] = "using" => schema[Name(v)] = v)
    BY <1>0 DEF DockerInv, Locking, Section
  <2>2. Name(v) \in Names /\ Name(v) # Name(w)
    BY <1>0, <2>1 DEF DockerInv, Standing, Section
  <2> QED BY <1>0, <2>1, <2>2 DEF ReleaseLock, Types
<1>2. Types'
  BY <1>0 DEF ReleaseLock, store, Types
<1>3. Standing' /\ Boots' /\ Registered'
  BY DEF ReleaseLock, store, DockerInv, Standing, Boots, Registered, FuncNames, Name
<1>4. Tracked'
  BY DEF ReleaseLock, store, DockerInv, Tracked, InTheMaking, ToBeCleaned, Cleaned, Name
<1> QED BY <1>1, <1>2, <1>3, <1>4 DEF DockerInv

----------------------------------------------------------------------------
(* The container is created, started and registered                        *)

LEMMA CreateStep ==
    ASSUME DockerInv, NEW w \in Workers, CreateContainer(w)
    PROVE  DockerInv'
<1> DEFINE n == Name(w)
<1> DEFINE id == Cardinality(created) + 2
<1> DEFINE new == [proc |-> Proc(w), name |-> n, id |-> id,
                   action |-> me[w].req.action, boot |-> Container(w).boot]
<1>0. /\ pc[w] = "create" /\ Types /\ main[Proc(w)] = "run" /\ me[w] \in Locals
      /\ Proc(w) \in Procs /\ n \in Names /\ me[w].di \in Dockerized
      /\ Container(w) \in Containers /\ Container(w).status = "absent"
  BY AtWork DEF CreateContainer
<1>1. Cardinality(created) \in Nat /\ id \in Nat
  BY <1>0, FS_CardinalityType DEF Types
<1>2. PICK m \in Locals :
        /\ Moves(w, "start", m) /\ m.req = me[w].req /\ m.di.id = id
        /\ m.di.boot = me[w].di.boot /\ m.found = me[w].found
        /\ m.di.instance = me[w].di.instance
  <2> DEFINE m == [me[w] EXCEPT !.di.id = id]
  <2>1. /\ m \in Locals /\ m.req = me[w].req /\ m.di.id = id
        /\ m.di.boot = me[w].di.boot /\ m.found = me[w].found
        /\ m.di.instance = me[w].di.instance
    BY <1>0, <1>1 DEF Locals, Dockerized
  <2>2. Moves(w, "start", m)
    BY DEF CreateContainer, Go, Moves
  <2> QED BY <2>1, <2>2
<1>3. "start" \in Labels
  BY DEF Labels, StoreLocked, Searching, Making
<1>4. /\ pc' \in [Workers -> Labels] /\ me' \in [Workers -> Locals]
      /\ pc'[w] = "start" /\ me'[w] = m
      /\ \A v \in Workers \ {w} : pc'[v] = pc[v] /\ me'[v] = me[v]
  BY <1>0, <1>2, <1>3, MovesOnly
<1>5. PICK x \in Containers :
        /\ cont' = [cont EXCEPT ![n] = x]
        /\ x.id = id /\ x.boot = cont[n].boot /\ x.status = "stopped"
  <2> DEFINE x == [id |-> id, boot |-> cont[n].boot, status |-> "stopped", image |-> "right"]
  <2>1. x \in Containers
    BY <1>0, <1>1 DEF Containers, Container
  <2> QED BY <2>1 DEF CreateContainer
<1>6. /\ cont' \in [Names -> Containers] /\ cont'[n] = x
      /\ \A k \in Names \ {n} : cont'[k] = cont[k]
  BY <1>0, <1>5 DEF Types
<1>7. PICK c \in Creations :
        /\ created' = created \cup {c}
        /\ c.proc = Proc(w) /\ c.name = n /\ c.id = id /\ c.action = me[w].req.action
        /\ c.boot = cont[n].boot
  <2>1. created' = created \cup {new}
    BY DEF CreateContainer
  <2>2. me[w].req.action \in Actions
    BY <1>0 DEF Locals
  <2>3. new \in Creations
    BY <1>0, <1>1, <2>2 DEF Creations, Containers
  <2> QED BY <2>1, <2>3 DEF Container
<1>8. /\ created' \in SUBSET Creations /\ IsFiniteSet(created')
      /\ Cardinality(created') = Cardinality(created) + 1
  <2>1. c \notin created
    BY <1>1, <1>7 DEF DockerInv, Tracked
  <2>2. IsFiniteSet(created)
    BY <1>0 DEF Types
  <2>3. /\ IsFiniteSet(created \cup {c})
        /\ Cardinality(created \cup {c}) = Cardinality(created) + 1
    BY <2>1, <2>2, FS_AddElement
  <2> QED BY <1>0, <1>7, <2>3 DEF Types
<1>9. Types'
  BY <1>0, <1>4, <1>6, <1>8 DEF CreateContainer, Types, store
<1>10. Standing'
  <2>1. \A k \in Names : cont'[k].status # "absent" => cont'[k].id # 0
    BY <1>1, <1>5, <1>6 DEF DockerInv, Standing
  <2>2. \A v \in Workers \ {w} : Name(v)' = Name(v)
    BY <1>4 DEF Name
  <2>3. Name(w)' = n
    BY <1>2, <1>4 DEF Name
  <2> QED BY <1>0, <1>1, <1>2, <1>4, <2>1, <2>2, <2>3
      DEF CreateContainer, store, DockerInv, Standing, Searching, StoreLocked, Making, Proc
<1>11. Boots'
  <2>1. \A k \in Names : cont'[k].boot = cont[k].boot
    BY <1>5, <1>6
  <2>2. \A v \in Workers : Name(v)' = Name(v) /\ me'[v].di.boot = me[v].di.boot
    BY <1>2, <1>4 DEF Name
  <2>3. \A v \in Workers : pc'[v] \in StoreLocked \cup {"using"} =>
          pc[v] \in StoreLocked \cup {"using"} /\ Name(v) \in Names
    BY <1>0, <1>4 DEF DockerInv, Standing, StoreLocked, Searching, Making
  <2> QED BY <2>1, <2>2, <2>3 DEF CreateContainer, store, DockerInv, Boots
<1>12. Locking'
  <2> SUFFICES ASSUME NEW v \in Workers, pc'[v] \in Section,
                      (Reachable(Name(v), me[v].di))'
               PROVE  (lock[Name(v)] = v /\ (pc[v] = "using" => schema[Name(v)] = v))'
    BY DEF Locking
  <2>1. pc'[v] = pc[v] /\ me'[v] = me[v] /\ Name(v)' = Name(v)
    BY <1>4 DEF Section, Name
  <2>2. Name(v) \in Names /\ Name(v) # n
    BY <1>5, <1>6, <2>1 DEF DockerInv, Standing, Section, Reachable
  <2>3. Reachable(Name(v), me[v].di)
    BY <1>6, <2>1, <2>2 DEF Reachable
  <2> QED BY <2>1, <2>3 DEF CreateContainer, DockerInv, Locking
<1>13. Registered'
  BY DEF CreateContainer, store, DockerInv, Registered, FuncNames
<1>14. Tracked'
  <2>1. ASSUME NEW d \in created, d.name # n
        PROVE  /\ cont'[d.name] = cont[d.name]
               /\ InTheMaking(d) => InTheMaking(d)'
               /\ ToBeCleaned(d) => ToBeCleaned(d)'
               /\ Cleaned(d) => Cleaned(d)'
    <3>1. d.name \in Names /\ cont'[d.name] = cont[d.name]
      BY <1>0, <1>6, <2>1 DEF Types, Creations
    <3>2. InTheMaking(d) => InTheMaking(d)'
      BY <1>0, <1>4, <3>1 DEF InTheMaking, Making, Name
    <3> QED BY <3>1, <3>2 DEF CreateContainer, store, ToBeCleaned, Cleaned
  <2>2. ASSUME NEW d \in created, d.name = n
        PROVE  cont'[d.name].id # d.id /\ Cleaned(d)'
    <3>1. d.id < id
      BY <1>1 DEF DockerInv, Tracked
    <3> QED BY <1>1, <1>5, <1>6, <2>2, <3>1 DEF Cleaned
  <2>3. InTheMaking(c)'
    <3>1. Name(w)' = n
      BY <1>2, <1>4 DEF Name
    <3>2. ~me[w].found /\ ~me[w].di.instance
      BY <1>0 DEF DockerInv, Standing
    <3> QED BY <1>2, <1>4, <1>7, <3>1, <3>2 DEF InTheMaking, Making, Proc
  <2>4. \A d \in created' : d.id \in 2..(Cardinality(created') + 1)
    BY <1>1, <1>7, <1>8 DEF DockerInv, Tracked
  <2>5. \A d \in created' : cont'[d.name].id = d.id =>
             /\ cont'[d.name].boot >= d.boot
             /\ cont'[d.name].status = "running" => cont'[d.name].boot > d.boot
    <3>1. cont'[c.name].boot = c.boot /\ cont'[c.name].status = "stopped" /\ c.boot \in Nat
      BY <1>5, <1>6, <1>7 DEF Creations
    <3> QED BY <1>7, <2>1, <2>2, <3>1 DEF DockerInv, Tracked
  <2>6. \A d \in created : \/ main[d.proc] = "killed" \/ d.id \in warned
                           \/ InTheMaking(d)' \/ ToBeCleaned(d)' \/ Cleaned(d)'
    BY <2>1, <2>2 DEF DockerInv, Tracked
  <2>7. main' = main /\ funcs' = funcs /\ warned' = warned
    BY DEF CreateContainer, store
  <2> QED BY <1>7, <2>3, <2>4, <2>5, <2>6, <2>7 DEF DockerInv, Tracked
<1> QED BY <1>9, <1>10, <1>11, <1>12, <1>13, <1>14 DEF DockerInv

\* A boot that begins here is later than all that anybody knows.
LEMMA StartStep ==
    ASSUME DockerInv, NEW w \in Workers, Start(w)
    PROVE  DockerInv'
<1> DEFINE n == Name(w)
<1>0. /\ pc[w] = "start" /\ Types /\ main[Proc(w)] = "run" /\ me[w] \in Locals
      /\ Proc(w) \in Procs /\ n \in Names /\ me[w].di \in Dockerized
      /\ cont[n] \in Containers /\ cont[n].id = me[w].di.id
  BY AtWork DEF Start, Container
<1>1. PICK boot \in Nat :
        /\ \/ cont[n].status = "running" /\ boot = cont[n].boot
           \/ boot = cont[n].boot + 1
        /\ cont' = [cont EXCEPT ![n].status = "running", ![n].boot = boot]
        /\ me' = [me EXCEPT ![w].di.boot = boot]
  <2>1. cont[n].boot \in Nat
    BY <1>0 DEF Containers
  <2>2. PICK boot \in {IF cont[n].status = "running" THEN cont[n].boot ELSE cont[n].boot + 1} :
          /\ cont' = [cont EXCEPT ![n].status = "running", ![n].boot = boot]
          /\ me' = [me EXCEPT ![w].di.boot = boot]
    BY DEF Start, Container
  <2>3. CASE cont[n].status = "running"
    BY <2>1, <2>2, <2>3
  <2>4. CASE cont[n].status # "running"
    <3>1. boot = cont[n].boot + 1 /\ boot \in Nat
      BY <2>1, <2>2, <2>4
    <3> QED BY <2>2, <3>1
  <2> QED BY <2>3, <2>4
<1>2. PICK m \in Locals :
        /\ Moves(w, "connect", m) /\ m.req = me[w].req /\ m.di.id = me[w].di.id
        /\ m.di.boot = boot /\ m.found = me[w].found
        /\ m.di.instance = me[w].di.instance
  <2> DEFINE m == [me[w] EXCEPT !.di.boot = boot]
  <2>1. /\ m \in Locals /\ m.req = me[w].req /\ m.di.id = me[w].di.id
        /\ m.di.boot = boot /\ m.found = me[w].found
        /\ m.di.instance = me[w].di.instance
    BY <1>0 DEF Locals, Dockerized
  <2>2. Moves(w, "connect", m)
    BY <1>1 DEF Start, Go, Moves
  <2> QED BY <2>1, <2>2
<1>3. "connect" \in Labels
  BY DEF Labels, StoreLocked, Searching, Making
<1>4. /\ pc' \in [Workers -> Labels] /\ me' \in [Workers -> Locals]
      /\ pc'[w] = "connect" /\ me'[w] = m
      /\ \A v \in Workers \ {w} : pc'[v] = pc[v] /\ me'[v] = me[v]
  BY <1>0, <1>2, <1>3, MovesOnly
<1>5. PICK x \in Containers :
        /\ cont' = [cont EXCEPT ![n] = x]
        /\ x.id = cont[n].id /\ x.boot = boot /\ x.status = "running"
  <2> DEFINE x == [cont[n] EXCEPT !.status = "running", !.boot = boot]
  <2>1. x \in Containers /\ x.id = cont[n].id /\ x.boot = boot /\ x.status = "running"
    BY <1>0 DEF Containers
  <2> QED BY <1>0, <1>1, <2>1 DEF Types
<1>6. /\ cont' \in [Names -> Containers] /\ cont'[n] = x
      /\ \A k \in Names \ {n} : cont'[k] = cont[k]
  BY <1>0, <1>5 DEF Types
<1>7. \A k \in Names : /\ cont'[k].boot >= cont[k].boot /\ cont[k].boot \in Nat
                       /\ cont'[k].boot \in Nat
  BY <1>0, <1>1, <1>5, <1>6 DEF Types, Containers
<1>8. \A v \in Workers : Name(v)' = Name(v)
  BY <1>2, <1>4 DEF Name
<1>9. Types'
  BY <1>0, <1>4, <1>6 DEF Start, Types, store
<1>10. Standing'
  <2>1. \A k \in Names : cont'[k].status # "absent" => cont'[k].id # 0
    BY <1>0, <1>5, <1>6 DEF DockerInv, Standing, Making
  <2>2. ASSUME NEW v \in Workers
        PROVE  /\ pc'[v] \notin {"idle", "dead"} => Name(v) \in Names
               /\ pc'[v] \in StoreLocked => mutex[Proc(v)] = v
               /\ pc'[v] \in Searching => containers[Proc(v)][Name(v)] = NoInstance
               /\ pc'[v] \in {"inspect", "create"} => ~me'[v].di.instance
               /\ pc'[v] = "create" => ~me'[v].found
               /\ pc'[v] \in Making => me'[v].di.id # 0
               /\ main[Proc(v)] # "run" => pc'[v] \in {"done", "dead"}
    <3>1. CASE v = w
      BY <1>0, <1>2, <1>4, <3>1 DEF DockerInv, Standing, Searching, StoreLocked, Making
    <3>2. CASE v # w
      BY <1>4, <3>2 DEF DockerInv, Standing
    <3> QED BY <3>1, <3>2
  <2> QED BY <1>8, <2>1, <2>2 DEF Start, store, Standing, Proc
<1>11. Boots'
  <2>1. \A p \in Procs, k \in Names : containers[p][k].boot <= cont'[k].boot
    <3> SUFFICES ASSUME NEW p \in Procs, NEW k \in Names
                 PROVE  containers[p][k].boot <= cont'[k].boot
      OBVIOUS
    <3>1. containers[p][k].boot \in Nat /\ containers[p][k].boot <= cont[k].boot
      BY <1>0 DEF DockerInv, Boots, Types, Dockerized
    <3> QED BY <1>7, <3>1
  <2>2. ASSUME NEW v \in Workers, pc'[v] \in StoreLocked \cup {"using"}
        PROVE  me'[v].di.boot <= cont'[Name(v)].boot
    <3>1. CASE v = w
      BY <1>2, <1>4, <1>5, <1>6, <3>1
    <3>2. CASE v # w
      <4>1. pc[v] \in StoreLocked \cup {"using"} /\ me'[v] = me[v]
        BY <1>4, <2>2, <3>2
      <4>2. Name(v) \in Names
        BY <4>1 DEF DockerInv, Standing, StoreLocked, Searching, Making
      <4>3. me[v].di.boot <= cont[Name(v)].boot /\ me[v].di.boot \in Nat
        BY <1>0, <4>1 DEF DockerInv, Boots, Types, Locals, Dockerized
      <4> QED BY <1>7, <4>1, <4>2, <4>3
    <3> QED BY <3>1, <3>2
  <2> QED BY <1>8, <2>1, <2>2 DEF Start, store, Boots
<1>12. Locking'
  <2> SUFFICES ASSUME NEW v \in Workers, pc'[v] \in Section,
                      (Reachable(Name(v), me[v].di))'
               PROVE  (lock[Name(v)] = v /\ (pc[v] = "using" => schema[Name(v)] = v))'
    BY DEF Locking
  <2>1. pc'[v] = pc[v] /\ me'[v] = me[v] /\ Name(v)' = Name(v)
    BY <1>4, <1>8 DEF Section
  <2>2. Name(v) \in Names /\ me[v].di.boot <= cont[Name(v)].boot
    BY <2>1 DEF DockerInv, Standing, Boots, Section, StoreLocked
  <2>3. Reachable(Name(v), me[v].di)
    <3>1. CASE Name(v) # n
      BY <1>6, <2>1, <2>2, <3>1 DEF Reachable
    <3>2. CASE Name(v) = n
      <4>1. me[v].di.boot = boot /\ cont[n].id = me[v].di.id
        BY <1>5, <1>6, <2>1, <3>2 DEF Reachable
      <4>2. cont[n].boot \in Nat /\ boot <= cont[n].boot
        BY <1>0, <1>7, <2>2, <3>2, <4>1
      <4>3. cont[n].status = "running" /\ boot = cont[n].boot
        BY <1>1, <4>2
      <4> QED BY <3>2, <4>1, <4>3 DEF Reachable
    <3> QED BY <3>1, <3>2
  <2> QED BY <2>1, <2>3 DEF Start, DockerInv, Locking
<1>13. Registered'
  BY DEF Start, store, DockerInv, Registered, FuncNames
<1>14. Tracked'
  <2> SUFFICES ASSUME NEW c \in created
               PROVE  /\ cont'[c.name].id = c.id =>
                           /\ cont'[c.name].boot >= c.boot
                           /\ cont'[c.name].status = "running" => cont'[c.name].boot > c.boot
                      /\ InTheMaking(c) => InTheMaking(c)'
                      /\ ToBeCleaned(c) => ToBeCleaned(c)'
                      /\ Cleaned(c) => Cleaned(c)'
    BY DEF Start, store, DockerInv, Tracked
  <2>1. c.name \in Names /\ c.boot \in Nat
    BY <1>0 DEF Types, Creations
  <2>2. cont[c.name].id = c.id =>
             /\ cont[c.name].boot >= c.boot
             /\ cont[c.name].status = "running" => cont[c.name].boot > c.boot
    BY DEF DockerInv, Tracked
  <2>3. cont'[c.name].id = c.id =>
             /\ cont'[c.name].boot >= c.boot
             /\ cont'[c.name].status = "running" => cont'[c.name].boot > c.boot
    BY <1>1, <1>5, <1>6, <1>7, <2>1, <2>2
  <2>4. ToBeCleaned(c) => ToBeCleaned(c)'
    <3>1. cont[c.name].boot > c.boot => cont'[c.name].boot > c.boot
      BY <1>7, <2>1
    <3>2. funcs' = funcs
      BY DEF Start, store
    <3> QED BY <3>1, <3>2 DEF ToBeCleaned
  <2>5. Cleaned(c) => Cleaned(c)'
    <3>1. cont'[c.name].id = cont[c.name].id
      BY <1>5, <1>6, <2>1
    <3>2. \/ cont[c.name].boot + 1 <= cont'[c.name].boot
          \/ /\ cont'[c.name].boot = cont[c.name].boot
             /\ cont'[c.name].status = cont[c.name].status
      <4>1. CASE c.name # n
        BY <1>6, <2>1, <4>1
      <4>2. CASE c.name = n
        <5>1. cont'[n].boot = boot /\ cont'[n].status = "running" /\ cont[n].boot \in Nat
          BY <1>0, <1>5, <1>6, <1>7
        <5>2. \/ cont[n].boot + 1 <= cont'[n].boot
              \/ cont'[n].boot = cont[n].boot /\ cont'[n].status = cont[n].status
          BY <1>1, <5>1
        <5> QED BY <4>2, <5>2
      <4> QED BY <4>1, <4>2
    <3> QED BY <1>7, <2>1, <3>1, <3>2 DEF Cleaned
  <2>6. ASSUME InTheMaking(c) PROVE InTheMaking(c)'
    <3>1. PICK v \in Workers :
            /\ Proc(v) = c.proc /\ pc[v] \in Making /\ Name(v) = c.name
            /\ me[v].req.action = c.action /\ ~me[v].found /\ me[v].di.id = c.id
            /\ pc[v] = "connect" \/ me[v].di.instance => cont[c.name].boot > c.boot
      BY <2>6 DEF InTheMaking
    <3>2. CASE v # w
      <4>1. pc'[v] = "connect" \/ me'[v].di.instance => cont'[c.name].boot > c.boot
        BY <1>4, <1>7, <2>1, <3>1, <3>2
      <4> QED BY <1>4, <1>8, <3>1, <3>2, <4>1 DEF InTheMaking
    <3>3. CASE v = w
      <4>1. cont'[c.name].boot > c.boot
        BY <1>0, <1>5, <1>6, <2>1, <2>3, <3>1, <3>3
      <4>2. pc'[w] \in Making
        BY <1>4 DEF Making
      <4> QED BY <1>2, <1>4, <1>8, <3>1, <3>3, <4>1, <4>2 DEF InTheMaking
    <3> QED BY <3>2, <3>3
  <2> QED BY <2>3, <2>4, <2>5, <2>6
<1> QED BY <1>9, <1>10, <1>11, <1>12, <1>13, <1>14 DEF DockerInv

\* The names of a list of shutdown functions, when one is added and when the
\* first one is taken off.
NamesOf(q) == {f.name : f \in ToSet(q)}

LEMMA AppendNames ==
    ASSUME NEW q \in Seq(ShutdownFuncs), NEW f \in ShutdownFuncs
    PROVE  /\ Append(q, f) \in Seq(ShutdownFuncs) /\ Len(Append(q, f)) = Len(q) + 1
           /\ \A i \in 1..Len(q) : Append(q, f)[i] = q[i]
           /\ Append(q, f)[Len(q) + 1] = f
           /\ NamesOf(Append(q, f)) = NamesOf(q) \cup {f.name}
<1>1. /\ Append(q, f) \in Seq(ShutdownFuncs) /\ Len(Append(q, f)) = Len(q) + 1
      /\ \A i \in 1..Len(q) : Append(q, f)[i] = q[i]
      /\ Append(q, f)[Len(q) + 1] = f
  OBVIOUS
<1>2. ToSet(Append(q, f)) = ToSet(q) \cup {f}
  <2>1. /\ ToSet(q) = {q[i] : i \in 1..Len(q)}
        /\ ToSet(Append(q, f)) = {Append(q, f)[i] : i \in 1..(Len(q) + 1)}
    BY <1>1 DEF ToSet
  <2>2. 1..(Len(q) + 1) = 1..Len(q) \cup {Len(q) + 1}
    OBVIOUS
  <2> QED BY <1>1, <2>1, <2>2
<1> QED BY <1>1, <1>2 DEF NamesOf

LEMMA TailNames ==
    ASSUME NEW q \in Seq(ShutdownFuncs), q # <<>>,
           \A i, j \in 1..Len(q) : q[i].name = q[j].name => i = j
    PROVE  /\ Tail(q) \in Seq(ShutdownFuncs) /\ Len(Tail(q)) = Len(q) - 1
           /\ \A i \in 1..Len(Tail(q)) : Tail(q)[i] = q[i + 1] /\ i + 1 \in 1..Len(q)
           /\ Head(q) = q[1] /\ 1 \in 1..Len(q) /\ Head(q) \in ShutdownFuncs
           /\ NamesOf(Tail(q)) = NamesOf(q) \ {Head(q).name}
<1>1. /\ Tail(q) \in Seq(ShutdownFuncs) /\ Len(Tail(q)) = Len(q) - 1
      /\ \A i \in 1..Len(Tail(q)) : Tail(q)[i] = q[i + 1] /\ i + 1 \in 1..Len(q)
      /\ Head(q) = q[1] /\ 1 \in 1..Len(q) /\ Head(q) \in ShutdownFuncs
  <2>1. /\ Head(q) \in ShutdownFuncs /\ Tail(q) \in Seq(ShutdownFuncs)
        /\ Len(Tail(q)) = Len(q) - 1
        /\ \A i \in 1..Len(Tail(q)) : Tail(q)[i] = q[i + 1]
    BY HeadTailProperties
  <2>2. Head(q) = q[1] /\ Len(q) \in Nat /\ Len(q) # 0
    BY EmptySeq
  <2> QED BY <2>1, <2>2
<1>2. /\ NamesOf(q) = {q[i].name : i \in 1..Len(q)}
      /\ NamesOf(Tail(q)) = {Tail(q)[i].name : i \in 1..(Len(q) - 1)}
  <2>1. \A r \in Seq(ShutdownFuncs) : NamesOf(r) = {r[i].name : i \in 1..Len(r)}
    BY DEF NamesOf, ToSet
  <2> QED BY <1>1, <2>1
<1>3. ASSUME NEW n \in NamesOf(Tail(q)) PROVE n \in NamesOf(q) \ {Head(q).name}
  <2>1. PICK i \in 1..(Len(q) - 1) : n = Tail(q)[i].name
    BY <1>2
  <2>2. n = q[i + 1].name /\ i + 1 \in 1..Len(q) /\ i + 1 # 1
    BY <1>1, <2>1
  <2> QED BY <1>1, <1>2, <2>2
<1>4. ASSUME NEW n \in NamesOf(q) \ {Head(q).name} PROVE n \in NamesOf(Tail(q))
  <2>1. PICK i \in 1..Len(q) : n = q[i].name
    BY <1>2
  <2>2. i # 1 /\ Len(q) \in Nat
    BY <1>1, <2>1
  <2>3. i - 1 \in 1..(Len(q) - 1) /\ (i - 1) + 1 = i
    BY <2>2
  <2>4. Tail(q)[i - 1].name = n
    BY <1>1, <2>1, <2>3
  <2> QED BY <1>2, <2>3, <2>4
<1> QED BY <1>1, <1>3, <1>4

\* A container is registered by the one goroutine that has the store.
LEMMA RegisterStep ==
    ASSUME DockerInv, NEW w \in Workers, RegisterShutdownFunc(w)
    PROVE  DockerInv'
<1> DEFINE n == Name(w)
<1> DEFINE p == Proc(w)
<1>0. /\ pc[w] = "register" /\ Types /\ main[p] = "run" /\ me[w] \in Locals
      /\ p \in Procs /\ n \in Names /\ me[w].di \in Dockerized
      /\ mutex[p] = w /\ containers[p][n] = NoInstance /\ me[w].di.id # 0
  BY AtWork
  DEF RegisterShutdownFunc, DockerInv, Standing, StoreLocked, Searching, Making
<1>1. PICK f \in ShutdownFuncs :
        /\ f.name = n /\ f.action = me[w].req.action /\ f.di = me[w].di
        /\ funcs' = [funcs EXCEPT ![p] = Append(@, f)]
  <2> DEFINE f == [name |-> n, action |-> me[w].req.action, di |-> me[w].di]
  <2>1. f \in ShutdownFuncs
    BY <1>0 DEF ShutdownFuncs, Locals
  <2> QED BY <2>1 DEF RegisterShutdownFunc
<1>2. PICK l \in {"done", "getlock"}, m \in Locals :
        /\ Moves(w, l, m) /\ m.req = me[w].req /\ m.di = me[w].di
        /\ LeavesMutex(w) /\ (l = "getlock" => mutex' = mutex)
  <2>1. CASE me[w].result = "error"
    <3>1. Fail(w)
      BY <2>1 DEF RegisterShutdownFunc
    <3>2. [me[w] EXCEPT !.result = "error"] \in Locals
      BY <1>0, LocalsChange
    <3>3. Moves(w, "done", [me[w] EXCEPT !.result = "error"])
      BY <3>1 DEF Fail, Go, Moves
    <3>4. LeavesMutex(w)
      BY <1>0, <3>1 DEF Fail, LeavesMutex, Types
    <3> QED BY <1>0, <3>2, <3>3, <3>4 DEF Locals
  <2>2. CASE me[w].result # "error"
    <3>1. Moves(w, "getlock", me[w]) /\ mutex' = mutex
      BY <1>0, <2>2 DEF RegisterShutdownFunc, Go, Moves, Types
    <3> QED BY <1>0, <3>1 DEF LeavesMutex, Types
  <2> QED BY <2>1, <2>2
<1>3. l \in Labels
  BY DEF Labels, StoreLocked
<1>4. /\ pc' \in [Workers -> Labels] /\ me' \in [Workers -> Locals]
      /\ pc'[w] = l /\ me'[w] = m
      /\ \A v \in Workers \ {w} : pc'[v] = pc[v] /\ me'[v] = me[v]
  BY <1>0, <1>2, <1>3, MovesOnly
<1>5. \A v \in Workers : Name(v)' = Name(v) /\ me'[v].di = me[v].di
  BY <1>2, <1>4 DEF Name
<1>6. /\ containers' \in [Procs -> [Names -> Dockerized]]
      /\ containers'[p][n] = me[w].di
      /\ \A r \in Procs, k \in Names : r # p \/ k # n => containers'[r][k] = containers[r][k]
  BY <1>0 DEF RegisterShutdownFunc, Types
<1>7. /\ funcs[p] \in Seq(ShutdownFuncs)
      /\ funcs' \in [Procs -> Seq(ShutdownFuncs)]
      /\ funcs'[p] = Append(funcs[p], f)
      /\ \A r \in Procs \ {p} : funcs'[r] = funcs[r]
  BY <1>0, <1>1, AppendNames DEF Types
<1>8. Types'
  BY <1>0, <1>2, <1>4, <1>6, <1>7 DEF RegisterShutdownFunc, LeavesMutex, Types, daemon
<1>9. Standing'
  <2>1. ASSUME NEW v \in Workers
        PROVE  /\ pc'[v] \notin {"idle", "dead"} => Name(v) \in Names
               /\ pc'[v] \in StoreLocked => mutex'[Proc(v)] = v
               /\ pc'[v] \in Searching => containers'[Proc(v)][Name(v)] = NoInstance
               /\ pc'[v] \in {"inspect", "create"} => ~me'[v].di.instance
               /\ pc'[v] = "create" => ~me'[v].found
               /\ pc'[v] \in Making => me'[v].di.id # 0
               /\ main[Proc(v)] # "run" => pc'[v] \in {"done", "dead"}
    <3>1. CASE v = w
      BY <1>0, <1>2, <1>4, <3>1 DEF Searching, StoreLocked, Making
    <3>2. CASE v # w
      <4>1. pc'[v] = pc[v] /\ me'[v] = me[v]
        BY <1>4, <3>2
      <4>2. pc[v] \in StoreLocked => mutex[Proc(v)] = v /\ mutex'[Proc(v)] = v /\ Proc(v) # p
        BY <1>0, <1>2, <3>2 DEF LeavesMutex, DockerInv, Standing
      <4>3. pc[v] \in Searching =>
              Proc(v) # p /\ Proc(v) \in Procs /\ Name(v) \in Names
        BY <4>2, DockerAssumption
        DEF DockerInv, Standing, StoreLocked, Searching, Making, Proc
      <4>4. pc[v] \in Searching => containers'[Proc(v)][Name(v)] = NoInstance
        BY <1>6, <4>3 DEF DockerInv, Standing
      <4> QED BY <4>1, <4>2, <4>4 DEF DockerInv, Standing
    <3> QED BY <3>1, <3>2
  <2> QED BY <1>5, <2>1 DEF RegisterShutdownFunc, daemon, DockerInv, Standing, Proc
<1>10. Boots'
  <2>1. me[w].di.boot <= cont[n].boot
    BY <1>0 DEF DockerInv, Boots, StoreLocked, Searching, Making
  <2>2. \A r \in Procs, k \in Names : containers'[r][k].boot <= cont[k].boot
    BY <1>6, <2>1 DEF DockerInv, Boots
  <2>3. \A v \in Workers : pc'[v] \in StoreLocked \cup {"using"} =>
          pc[v] \in StoreLocked \cup {"using"}
    BY <1>0, <1>4 DEF StoreLocked, Searching, Making
  <2> QED BY <1>5, <2>2, <2>3 DEF RegisterShutdownFunc, daemon, DockerInv, Boots
<1>11. Locking'
  BY <1>2, <1>3, OthersLocking DEF RegisterShutdownFunc, daemon, Section
<1>12. Registered'
  <2>1. \A r \in Procs : FuncNames(r) = NamesOf(funcs[r]) /\ FuncNames(r)' = NamesOf(funcs'[r])
    BY DEF FuncNames, NamesOf
  <2>2. n \notin FuncNames(p)
    BY <1>0 DEF DockerInv, Registered
  <2>3. FuncNames(p)' = FuncNames(p) \cup {n}
    BY <1>1, <1>7, <2>1, AppendNames
  <2>4. IsFiniteSet(FuncNames(p)) /\ Len(funcs[p]) = Cardinality(FuncNames(p))
    BY <1>0 DEF DockerInv, Registered
  <2>5. /\ IsFiniteSet(FuncNames(p) \cup {n})
        /\ Cardinality(FuncNames(p) \cup {n}) = Cardinality(FuncNames(p)) + 1
    BY <2>2, <2>4, FS_AddElement
  <2>6. Len(funcs'[p]) = Len(funcs[p]) + 1
    BY <1>1, <1>7, AppendNames
  <2>7. \A i, j \in 1..Len(funcs'[p]) : funcs'[p][i].name = funcs'[p][j].name => i = j
    <3>1. \A i \in 1..Len(funcs[p]) : funcs'[p][i] = funcs[p][i] /\ funcs[p][i].name # n
      <4>1. \A i \in 1..Len(funcs[p]) : funcs[p][i].name \in FuncNames(p)
        BY <1>7 DEF FuncNames, ToSet
      <4> QED BY <1>1, <1>7, <2>2, <4>1, AppendNames
    <3>2. funcs'[p][Len(funcs[p]) + 1].name = n
      BY <1>1, <1>7, AppendNames
    <3>3. \A i \in 1..Len(funcs'[p]) : i \in 1..Len(funcs[p]) \/ i = Len(funcs[p]) + 1
      BY <1>7, <2>6
    <3>4. \A i, j \in 1..Len(funcs[p]) : funcs[p][i].name = funcs[p][j].name => i = j
      BY <1>0 DEF DockerInv, Registered
    <3> QED BY <3>1, <3>2, <3>3, <3>4
  <2>8. FuncNames(p)' = {k \in Names : containers'[p][k] # NoInstance}
    <3>1. containers'[p][n] # NoInstance
      BY <1>0, <1>6 DEF NoInstance
    <3>2. FuncNames(p) = {k \in Names : containers[p][k] # NoInstance}
      BY <1>0 DEF DockerInv, Registered
    <3> QED BY <1>0, <1>6, <2>3, <3>1, <3>2
  <2>9. ASSUME NEW r \in Procs, r # p
        PROVE  /\ funcs'[r] = funcs[r] /\ FuncNames(r)' = FuncNames(r)
               /\ \A k \in Names : containers'[r][k] = containers[r][k]
    BY <1>6, <1>7, <2>1, <2>9
  <2>10. \A i \in 1..Len(funcs'[p]) : funcs'[p][i].di.id # 0
    <3>1. \A i \in 1..Len(funcs[p]) : funcs'[p][i] = funcs[p][i] /\ funcs[p][i].di.id # 0
      BY <1>0, <1>1, <1>7, AppendNames DEF DockerInv, Registered
    <3>2. funcs'[p][Len(funcs[p]) + 1].di.id # 0
      BY <1>0, <1>1, <1>7, AppendNames
    <3>3. \A i \in 1..Len(funcs'[p]) : i \in 1..Len(funcs[p]) \/ i = Len(funcs[p]) + 1
      BY <1>7, <2>6
    <3> QED BY <3>1, <3>2, <3>3
  <2>11. ASSUME NEW r \in Procs
         PROVE /\ \A i, j \in 1..Len(funcs'[r]) : funcs'[r][i].name = funcs'[r][j].name => i = j
               /\ \A i \in 1..Len(funcs'[r]) : funcs'[r][i].di.id # 0
               /\ IsFiniteSet(FuncNames(r)')
               /\ Len(funcs'[r]) = Cardinality(FuncNames(r)')
               /\ FuncNames(r)' = {k \in Names : containers'[r][k] # NoInstance}
    <3>1. CASE r = p
      BY <2>3, <2>4, <2>5, <2>6, <2>7, <2>8, <2>10, <3>1
    <3>2. CASE r # p
      BY <2>9, <3>2 DEF DockerInv, Registered
    <3> QED BY <3>1, <3>2
  <2> QED BY <2>11 DEF Registered
<1>13. Tracked'
  <2>1. UNCHANGED <<cont, main, created, warned>>
    BY DEF RegisterShutdownFunc, daemon
  <2>2. \A r \in Procs : main[r] = "exited" => funcs'[r] = <<>>
    BY <1>0, <1>7 DEF DockerInv, Tracked
  <2>3. ASSUME NEW c \in created, ToBeCleaned(c) PROVE ToBeCleaned(c)'
    <3>1. c.proc \in Procs
      BY <1>0 DEF Types, Creations
    <3>2. PICK i \in 1..Len(funcs[c.proc]) :
            LET g == funcs[c.proc][i]
            IN  /\ g.name = c.name /\ g.action = c.action /\ g.di.id = c.id
                /\ g.di.instance => cont[c.name].boot > c.boot
      BY <2>3 DEF ToBeCleaned
    <3>3. i \in 1..Len(funcs'[c.proc]) /\ funcs'[c.proc][i] = funcs[c.proc][i]
      BY <1>7, <3>1, AppendNames
    <3> QED BY <2>1, <3>2, <3>3 DEF ToBeCleaned
  <2>4. ASSUME NEW c \in created, InTheMaking(c) PROVE InTheMaking(c)' \/ ToBeCleaned(c)'
    <3>1. PICK v \in Workers :
            /\ Proc(v) = c.proc /\ pc[v] \in Making /\ Name(v) = c.name
            /\ me[v].req.action = c.action /\ ~me[v].found /\ me[v].di.id = c.id
            /\ pc[v] = "connect" \/ me[v].di.instance => cont[c.name].boot > c.boot
      BY <2>4 DEF InTheMaking
    <3>2. CASE v # w
      BY <1>4, <1>5, <2>1, <3>1, <3>2 DEF InTheMaking
    <3>3. CASE v = w
      <4>1. /\ Len(funcs[p]) + 1 \in 1..Len(funcs'[p])
            /\ funcs'[p][Len(funcs[p]) + 1] = f
        BY <1>7, AppendNames
      <4>2. /\ f.name = c.name /\ f.action = c.action /\ f.di.id = c.id
            /\ f.di.instance => cont[c.name].boot > c.boot
        BY <1>1, <3>1, <3>3
      <4> QED BY <2>1, <3>1, <3>3, <4>1, <4>2 DEF ToBeCleaned
    <3> QED BY <3>2, <3>3
  <2>5. ASSUME NEW c \in created, Cleaned(c) PROVE Cleaned(c)'
    BY <2>1, <2>5 DEF Cleaned
  <2> QED BY <2>1, <2>2, <2>3, <2>4, <2>5 DEF DockerInv, Tracked
<1> QED BY <1>8, <1>9, <1>10, <1>11, <1>12, <1>13 DEF DockerInv

----------------------------------------------------------------------------
(* The end of a process                                                    *)

\* A process that dies takes its goroutines and its locks with it, and only
\* its own containers are forgotten.
LEMMA DieStep ==
    ASSUME DockerInv, NEW p \in Procs, NEW how \in {"panicked", "killed"}, Die(p, how),
           main[p] \in {"run", "shutdown"},
           how = "killed" \/ \A w \in Workers : ProcOf[w] = p => pc[w] \notin Making,
           UNCHANGED <<cont, schema, mutex, containers, funcs, me, created, warned>>
    PROVE  DockerInv'
<1>0. Types
  BY DEF DockerInv
<1>1. /\ pc' \in [Workers -> Labels]
      /\ \A w \in Workers : pc'[w] = IF ProcOf[w] = p THEN "dead" ELSE pc[w]
  BY <1>0 DEF Die, Types, Labels
<1>2. /\ main' \in [Procs -> {"run", "shutdown", "exited", "panicked", "killed"}]
      /\ main'[p] = how /\ \A r \in Procs \ {p} : main'[r] = main[r]
  BY <1>0 DEF Die, Types
<1>3. /\ lock' \in [Names -> Workers \cup {None}]
      /\ \A n \in Names : lock[n] \in Workers /\ ProcOf[lock[n]] # p => lock'[n] = lock[n]
  BY <1>0 DEF Die, Types
<1>4. Types'
  BY <1>0, <1>1, <1>2, <1>3 DEF Types
<1>5. Standing'
  <2>1. \A w \in Workers : ProcOf[w] \in Procs
    BY DockerAssumption
  <2> QED BY <1>1, <1>2, <2>1
      DEF DockerInv, Standing, Name, Proc, StoreLocked, Searching, Making
<1>6. Boots'
  BY <1>1 DEF DockerInv, Boots, Name, StoreLocked, Searching, Making
<1>7. Locking'
  <2> SUFFICES ASSUME NEW v \in Workers, pc'[v] \in Section, Reachable(Name(v), me[v].di)
               PROVE  lock'[Name(v)] = v /\ (pc'[v] = "using" => schema[Name(v)] = v)
    BY DEF Locking, Reachable, Name
  <2>1. pc'[v] = pc[v] /\ ProcOf[v] # p
    BY <1>1 DEF Section
  <2>2. Name(v) \in Names /\ lock[Name(v)] = v /\ (pc[v] = "using" => schema[Name(v)] = v)
    BY <2>1 DEF DockerInv, Standing, Locking, Section
  <2> QED BY <1>3, <2>1, <2>2
<1>8. Registered'
  BY DEF DockerInv, Registered, FuncNames
<1>9. Tracked'
  <2>1. \A r \in Procs : main'[r] = "exited" => funcs[r] = <<>>
    BY <1>2 DEF DockerInv, Tracked
  <2>2. ASSUME NEW c \in created
        PROVE  \/ main'[c.proc] = "killed" \/ c.id \in warned
               \/ InTheMaking(c)' \/ ToBeCleaned(c)' \/ Cleaned(c)'
    <3>1. c.proc \in Procs
      BY <1>0 DEF Types, Creations
    <3>2. (ToBeCleaned(c) => ToBeCleaned(c)') /\ (Cleaned(c) => Cleaned(c)')
      BY DEF ToBeCleaned, Cleaned
    <3>3. CASE c.proc # p
      <4>1. main'[c.proc] = main[c.proc]
        BY <1>2, <3>1, <3>3
      <4>2. InTheMaking(c) => InTheMaking(c)'
        BY <1>1, <3>3 DEF InTheMaking, Name, Proc
      <4> QED BY <3>2, <4>1, <4>2 DEF DockerInv, Tracked
    <3>4. CASE c.proc = p /\ how = "killed"
      BY <1>2, <3>4
    <3>5. CASE c.proc = p /\ how # "killed"
      <4>1. ~InTheMaking(c) /\ main[c.proc] # "killed"
        BY <3>5 DEF InTheMaking, Proc
      <4> QED BY <3>2, <4>1 DEF DockerInv, Tracked
    <3> QED BY <3>3, <3>4, <3>5
  <2> QED BY <2>1, <2>2 DEF DockerInv, Tracked
<1> QED BY <1>4, <1>5, <1>6, <1>7, <1>8, <1>9 DEF DockerInv

\* The main goroutine goes on, when the goroutines of its process are through.
LEMMA MainStep ==
    ASSUME DockerInv, NEW p \in Procs, NEW next \in {"shutdown", "exited"},
           main' = [main EXCEPT ![p] = next], main[p] \in {"run", "shutdown"},
           \A w \in Workers : ProcOf[w] = p => pc[w] \in {"done", "dead"},
           next = "exited" => funcs[p] = <<>>,
           lock' \in [Names -> Workers \cup {None}],
           \A n \in Names : lock[n] \in Workers /\ ProcOf[lock[n]] # p => lock'[n] = lock[n],
           UNCHANGED <<cont, schema, mutex, containers, funcs, pc, me, created, warned>>
    PROVE  DockerInv'
<1>0. Types
  BY DEF DockerInv
<1>1. /\ main' \in [Procs -> {"run", "shutdown", "exited", "panicked", "killed"}]
      /\ main'[p] = next /\ \A r \in Procs \ {p} : main'[r] = main[r]
  BY <1>0 DEF Types
<1>2. Types'
  BY <1>0, <1>1 DEF Types
<1>3. Standing'
  <2>1. \A w \in Workers : ProcOf[w] \in Procs
    BY DockerAssumption
  <2> QED BY <1>1, <2>1 DEF DockerInv, Standing, Name, Proc
<1>4. Boots' /\ Registered'
  BY DEF DockerInv, Boots, Name, Registered, FuncNames
<1>5. Locking'
  <2> SUFFICES ASSUME NEW v \in Workers, pc[v] \in Section, Reachable(Name(v), me[v].di)
               PROVE  lock'[Name(v)] = v /\ (pc[v] = "using" => schema[Name(v)] = v)
    BY DEF Locking, Reachable, Name
  <2>1. ProcOf[v] # p
    BY DEF Section
  <2>2. Name(v) \in Names /\ lock[Name(v)] = v /\ (pc[v] = "using" => schema[Name(v)] = v)
    BY <2>1 DEF DockerInv, Standing, Locking, Section
  <2> QED BY <2>1, <2>2
<1>6. Tracked'
  <2>1. \A r \in Procs : main'[r] = "exited" => funcs[r] = <<>>
    BY <1>1 DEF DockerInv, Tracked
  <2>2. ASSUME NEW c \in created
        PROVE  /\ main[c.proc] = "killed" => main'[c.proc] = "killed"
               /\ InTheMaking(c) => InTheMaking(c)'
               /\ ToBeCleaned(c) => ToBeCleaned(c)'
               /\ Cleaned(c) => Cleaned(c)'
    <3>1. c.proc \in Procs
      BY <1>0 DEF Types, Creations
    <3>2. main[c.proc] = "killed" => main'[c.proc] = "killed"
      BY <1>1, <3>1
    <3> QED BY <3>2 DEF InTheMaking, ToBeCleaned, Cleaned, Name
  <2> QED BY <2>1, <2>2 DEF DockerInv, Tracked
<1> QED BY <1>2, <1>3, <1>4, <1>5, <1>6 DEF DockerInv

LEMMA ShutdownStep ==
    ASSUME DockerInv, NEW p \in Procs, Shutdown(p)
    PROVE  DockerInv'
BY MainStep DEF Shutdown, daemon, DockerInv, Types

LEMMA ExitStep ==
    ASSUME DockerInv, NEW p \in Procs, Exit(p)
    PROVE  DockerInv'
<1>0. Types
  BY DEF DockerInv
<1>1. /\ lock' \in [Names -> Workers \cup {None}]
      /\ \A n \in Names : lock[n] \in Workers /\ ProcOf[lock[n]] # p => lock'[n] = lock[n]
  BY <1>0 DEF Exit, Types
<1>2. \A w \in Workers : ProcOf[w] = p => pc[w] \in {"done", "dead"}
  BY DEF Exit, DockerInv, Standing, Proc
<1> QED BY <1>1, <1>2, MainStep DEF Exit

\* What becomes of the container of a shutdown function.
LEMMA StoppedContainer ==
    ASSUME DockerInv, NEW f \in ShutdownFuncs, f.di.id # 0
    PROVE  /\ Stopped(f) \in Containers
           /\ Stopped(f).boot = cont[f.name].boot
           /\ Stopped(f).id \in {0, cont[f.name].id}
           /\ Stopped(f).status # "absent" => Stopped(f).id # 0
           /\ Stopped(f).status = "running" => Stopped(f) = cont[f.name]
           /\ Stopped(f).id = f.di.id =>
                f.action # "destroy" /\ (f.action = "stop" => Stopped(f).status # "running")
<1>1. /\ cont[f.name] \in Containers /\ f.name \in Names /\ f.di.id \in Nat
      /\ f.action \in Actions
      /\ cont[f.name].status # "absent" => cont[f.name].id # 0
  BY DEF DockerInv, Types, Standing, ShutdownFuncs, Dockerized
<1>2. CASE f.action = "none" \/ cont[f.name].id # f.di.id
  <2>1. Stopped(f) = cont[f.name]
    BY <1>2 DEF Stopped
  <2> QED BY <1>1, <1>2, <2>1
<1>3. CASE ~(f.action = "none" \/ cont[f.name].id # f.di.id)
  <2>1. CASE f.action = "stop"
    <3>1. Stopped(f) = [cont[f.name] EXCEPT !.status = "stopped"]
      BY <1>3, <2>1 DEF Stopped
    <3>2. /\ Stopped(f) \in Containers
          /\ Stopped(f).boot = cont[f.name].boot /\ Stopped(f).id = cont[f.name].id
          /\ Stopped(f).status = "stopped"
      BY <1>1, <3>1 DEF Containers
    <3>3. cont[f.name].id = f.di.id
      BY <1>3
    <3> QED BY <1>1, <2>1, <3>2, <3>3
  <2>2. CASE f.action # "stop"
    <3>1. Stopped(f) = [Absent EXCEPT !.boot = cont[f.name].boot]
      BY <1>3, <2>2 DEF Stopped
    <3>2. /\ Stopped(f) \in Containers
          /\ Stopped(f).boot = cont[f.name].boot /\ Stopped(f).id = 0
          /\ Stopped(f).status = "absent"
      BY <1>1, <3>1 DEF Containers, Absent
    <3> QED BY <1>1, <3>2
  <2> QED BY <2>1, <2>2
<1> QED BY <1>2, <1>3

\* The first shutdown function is run, and its container is done with.
LEMMA ShutdownNextStep ==
    ASSUME DockerInv, NEW p \in Procs, ShutdownNext(p) \/ ShutdownFails(p)
    PROVE  DockerInv'
<1>0. /\ Types /\ main[p] = "shutdown" /\ funcs[p] # <<>>
      /\ funcs[p] \in Seq(ShutdownFuncs)
      /\ \A i, j \in 1..Len(funcs[p]) : funcs[p][i].name = funcs[p][j].name => i = j
  BY DEF ShutdownNext, ShutdownFails, DockerInv, Types, Registered
<1>1. PICK f \in ShutdownFuncs : f = Head(funcs[p]) /\ f = funcs[p][1] /\ 1 \in 1..Len(funcs[p])
  BY <1>0, TailNames
<1>2. CASE f.action # "none" /\ ~f.di.instance
  <2>1. \A w \in Workers : ProcOf[w] = p => pc[w] \notin Making
    BY <1>0 DEF DockerInv, Standing, Proc, Making
  <2> QED BY <1>0, <1>1, <1>2, <2>1, DieStep DEF ShutdownNext, ShutdownFails
<1>3. CASE ~(f.action # "none" /\ ~f.di.instance)
  <2> DEFINE n == f.name
  <2>1. n \in Names /\ f.di.id # 0
    BY <1>1 DEF ShutdownFuncs, DockerInv, Registered
  <2>2. PICK x \in Containers :
          /\ x.boot = cont[n].boot /\ x.id \in {0, cont[n].id}
          /\ x.status # "absent" => x.id # 0
          /\ x.status = "running" => x = cont[n] /\ UNCHANGED <<lock, schema>>
          /\ x.id = f.di.id =>
               \/ f.di.id \in warned'
               \/ f.action # "destroy" /\ (f.action = "stop" => x.status # "running")
          /\ cont' = [cont EXCEPT ![n] = x]
          /\ \A k \in Names \ {n} : lock'[k] = lock[k] /\ schema'[k] = schema[k]
          /\ lock' \in [Names -> Workers \cup {None}]
          /\ schema' \in [Names -> Workers \cup {None}]
          /\ warned \subseteq warned'
    <3> DEFINE b == Stopped(f).status # cont[n].status
    <3>1. CASE ShutdownNext(p)
      <4>1. /\ cont' = [cont EXCEPT ![n] = Stopped(f)]
            /\ lock' = [lock EXCEPT ![n] = IF b THEN None ELSE @]
            /\ schema' = [schema EXCEPT ![n] = IF Stopped(f).status = "absent" THEN None ELSE @]
            /\ warned' = warned
        BY <1>1, <1>3, <3>1 DEF ShutdownNext
      <4>2. /\ \A k \in Names \ {n} : lock'[k] = lock[k] /\ schema'[k] = schema[k]
            /\ lock' \in [Names -> Workers \cup {None}]
            /\ schema' \in [Names -> Workers \cup {None}]
        BY <1>0, <2>1, <4>1 DEF Types
      <4>3. Stopped(f).status = "running" => ~b
        BY <2>1, StoppedContainer
      <4>4. Stopped(f).status = "running" => UNCHANGED <<lock, schema>>
        BY <1>0, <2>1, <4>1, <4>3 DEF Types
      <4> QED BY <2>1, <4>1, <4>2, <4>4, StoppedContainer
    <3>2. CASE ShutdownFails(p)
      <4>1. cont' = [cont EXCEPT ![n] = cont[n]] /\ cont[n] \in Containers
        BY <1>0, <2>1, <3>2 DEF ShutdownFails, daemon, Types
      <4>2. UNCHANGED <<lock, schema>> /\ warned' = warned \cup {f.di.id}
        BY <1>1, <3>2 DEF ShutdownFails, daemon
      <4>3. cont[n].status # "absent" => cont[n].id # 0
        BY <2>1 DEF DockerInv, Standing
      <4> QED BY <1>0, <4>1, <4>2, <4>3 DEF Types
    <3> QED BY <3>1, <3>2
  <2>3. /\ containers' = [containers EXCEPT ![p][n] = NoInstance]
        /\ funcs' = [funcs EXCEPT ![p] = Tail(@)]
        /\ UNCHANGED <<main, pc, mutex, me, created>>
    BY <1>1, <1>3 DEF ShutdownNext, ShutdownFails, Deregister
  <2>4. /\ cont' \in [Names -> Containers] /\ cont'[n] = x
        /\ \A k \in Names \ {n} : cont'[k] = cont[k]
    BY <1>0, <2>1, <2>2 DEF Types
  <2>5. /\ containers' \in [Procs -> [Names -> Dockerized]]
        /\ containers'[p][n] = NoInstance
        /\ \A r \in Procs, k \in Names : r # p \/ k # n => containers'[r][k] = containers[r][k]
    <3>1. NoInstance \in Dockerized
      BY DEF NoInstance, Dockerized
    <3> QED BY <1>0, <2>1, <2>3, <3>1 DEF Types
  <2>6. /\ funcs' \in [Procs -> Seq(ShutdownFuncs)] /\ funcs'[p] = Tail(funcs[p])
        /\ \A r \in Procs \ {p} : funcs'[r] = funcs[r]
    BY <1>0, <2>3, TailNames DEF Types
  <2>7. /\ lock' \in [Names -> Workers \cup {None}]
        /\ schema' \in [Names -> Workers \cup {None}]
        /\ \A k \in Names \ {n} : lock'[k] = lock[k] /\ schema'[k] = schema[k]
        /\ x.status = "running" => lock'[n] = lock[n] /\ schema'[n] = schema[n]
    BY <1>0, <2>1, <2>2 DEF Types
  <2>8. \A k \in Names : cont'[k].boot = cont[k].boot
    BY <2>2, <2>4
  <2>9. Types'
    BY <1>0, <2>3, <2>4, <2>5, <2>6, <2>7 DEF Types
  <2>10. Standing'
    <3>1. \A k \in Names : cont'[k].status # "absent" => cont'[k].id # 0
      BY <2>2, <2>4 DEF DockerInv, Standing
    <3>2. \A v \in Workers : pc[v] \in Searching => Proc(v) # p /\ Proc(v) \in Procs
      BY <1>0, DockerAssumption DEF DockerInv, Standing, Proc, Searching, Making
    <3>3. \A v \in Workers : pc[v] \in Searching => Name(v) \in Names
      BY DEF DockerInv, Standing, Searching, Making
    <3>4. \A v \in Workers : pc[v] \in Searching => containers'[Proc(v)][Name(v)] = NoInstance
      BY <2>5, <3>2, <3>3 DEF DockerInv, Standing
    <3>5. UNCHANGED <<main, pc, mutex, me>>
      BY <2>3
    <3> QED BY <3>1, <3>4, <3>5 DEF DockerInv, Standing, Name, Proc
  <2>11. Boots'
    <3>1. \A k \in Names : NoInstance.boot <= cont[k].boot
      BY <1>0 DEF Types, Containers, NoInstance
    <3>2. \A r \in Procs, k \in Names : containers'[r][k].boot <= cont'[k].boot
      BY <2>1, <2>5, <2>8, <3>1 DEF DockerInv, Boots
    <3>3. \A v \in Workers : pc[v] \in StoreLocked \cup {"using"} => Name(v) \in Names
      BY DEF DockerInv, Standing, StoreLocked, Searching, Making
    <3>4. UNCHANGED <<pc, me>>
      BY <2>3
    <3> QED BY <2>8, <3>2, <3>3, <3>4 DEF DockerInv, Boots, Name
  <2>12. Locking'
    <3> SUFFICES ASSUME NEW v \in Workers, pc[v] \in Section, Reachable(Name(v), me[v].di)'
                 PROVE  lock'[Name(v)] = v /\ (pc[v] = "using" => schema'[Name(v)] = v)
      BY <2>3 DEF Locking, Name
    <3>1. Name(v) \in Names /\ Name(v)' = Name(v) /\ me'[v] = me[v]
      BY <2>3 DEF DockerInv, Standing, Section, Name
    <3>2. Reachable(Name(v), me[v].di) /\ (Name(v) = n => x.status = "running")
      BY <2>2, <2>4, <3>1 DEF Reachable
    <3>3. lock[Name(v)] = v /\ (pc[v] = "using" => schema[Name(v)] = v)
      BY <3>2 DEF DockerInv, Locking
    <3> QED BY <2>7, <3>1, <3>2, <3>3
  <2>13. Registered'
    <3>1. \A r \in Procs : FuncNames(r) = NamesOf(funcs[r]) /\ FuncNames(r)' = NamesOf(funcs'[r])
      BY DEF FuncNames, NamesOf
    <3>2. /\ FuncNames(p)' = FuncNames(p) \ {n}
          /\ Len(funcs'[p]) = Len(funcs[p]) - 1
          /\ \A i \in 1..Len(funcs'[p]) : funcs'[p][i] = funcs[p][i + 1] /\ i + 1 \in 1..Len(funcs[p])
      <4>1. /\ Len(Tail(funcs[p])) = Len(funcs[p]) - 1
            /\ \A i \in 1..Len(Tail(funcs[p])) :
                 Tail(funcs[p])[i] = funcs[p][i + 1] /\ i + 1 \in 1..Len(funcs[p])
            /\ NamesOf(Tail(funcs[p])) = NamesOf(funcs[p]) \ {Head(funcs[p]).name}
        BY <1>0, TailNames
      <4> QED BY <1>1, <2>6, <3>1, <4>1
    <3>3. n \in FuncNames(p)
      BY <1>0, <1>1 DEF FuncNames, ToSet
    <3>4. IsFiniteSet(FuncNames(p)) /\ Len(funcs[p]) = Cardinality(FuncNames(p))
      BY DEF DockerInv, Registered
    <3>5. /\ IsFiniteSet(FuncNames(p) \ {n})
          /\ Cardinality(FuncNames(p) \ {n}) = Cardinality(FuncNames(p)) - 1
      BY <3>3, <3>4, FS_RemoveElement
    <3>6. \A i, j \in 1..Len(funcs'[p]) : funcs'[p][i].name = funcs'[p][j].name => i = j
      <4> SUFFICES ASSUME NEW i \in 1..Len(funcs'[p]), NEW j \in 1..Len(funcs'[p]),
                          funcs'[p][i].name = funcs'[p][j].name
                   PROVE  i = j
        OBVIOUS
      <4>0. /\ i + 1 \in 1..Len(funcs[p]) /\ j + 1 \in 1..Len(funcs[p])
            /\ funcs[p][i + 1].name = funcs[p][j + 1].name
        BY <3>2
      <4>1. i + 1 = j + 1
        BY <1>0, <4>0
      <4> QED BY <4>1
    <3>7. FuncNames(p)' = {k \in Names : containers'[p][k] # NoInstance}
      <4>1. FuncNames(p) = {k \in Names : containers[p][k] # NoInstance}
        BY DEF DockerInv, Registered
      <4> QED BY <2>5, <3>2, <4>1
    <3>8. ASSUME NEW r \in Procs, r # p
          PROVE  /\ funcs'[r] = funcs[r] /\ FuncNames(r)' = FuncNames(r)
                 /\ \A k \in Names : containers'[r][k] = containers[r][k]
      BY <2>5, <2>6, <3>1, <3>8
    <3>9. ASSUME NEW r \in Procs
          PROVE /\ \A i, j \in 1..Len(funcs'[r]) : funcs'[r][i].name = funcs'[r][j].name => i = j
                /\ \A i \in 1..Len(funcs'[r]) : funcs'[r][i].di.id # 0
                /\ IsFiniteSet(FuncNames(r)')
                /\ Len(funcs'[r]) = Cardinality(FuncNames(r)')
                /\ FuncNames(r)' = {k \in Names : containers'[r][k] # NoInstance}
      <4>1. CASE r = p
        <5>1. \A i \in 1..Len(funcs'[p]) : funcs'[p][i].di.id # 0
          BY <3>2 DEF DockerInv, Registered
        <5> QED BY <3>2, <3>4, <3>5, <3>6, <3>7, <4>1, <5>1
      <4>2. CASE r # p
        BY <3>8, <4>2 DEF DockerInv, Registered
      <4> QED BY <4>1, <4>2
    <3> QED BY <3>9 DEF Registered
  <2>14. Tracked'
    <3>1. \A r \in Procs : main[r] = "exited" => funcs'[r] = <<>>
      BY <1>0, <2>6 DEF DockerInv, Tracked
    <3>2. ASSUME NEW c \in created
          PROVE  /\ c.name \in Names /\ c.proc \in Procs /\ c.boot \in Nat /\ c.id \in Nat
                 /\ c.id # 0 /\ cont'[c.name].boot = cont[c.name].boot
                 /\ cont[c.name].boot \in Nat
      <4>1. c.name \in Names /\ c.proc \in Procs /\ c.boot \in Nat /\ c.id \in Nat
        BY <1>0 DEF Types, Creations
      <4>2. c.id # 0 /\ cont[c.name].boot \in Nat
        BY <1>0, <4>1, FS_CardinalityType DEF Types, Containers, DockerInv, Tracked
      <4> QED BY <2>8, <4>1, <4>2
    <3>3. ASSUME NEW c \in created, cont'[c.name].id = c.id
          PROVE  /\ cont[c.name].id = c.id
                 /\ cont'[c.name].status = "running" => cont[c.name].status = "running"
      BY <2>2, <2>4, <3>2, <3>3
    <3>4. ASSUME NEW c \in created
          PROVE  cont'[c.name].id = c.id =>
                   /\ cont'[c.name].boot >= c.boot
                   /\ cont'[c.name].status = "running" => cont'[c.name].boot > c.boot
      BY <3>2, <3>3 DEF DockerInv, Tracked
    <3>5. ASSUME NEW c \in created, Cleaned(c) PROVE Cleaned(c)'
      BY <3>2, <3>3, <3>5 DEF Cleaned
    <3>6. ASSUME NEW c \in created, InTheMaking(c) PROVE InTheMaking(c)'
      BY <2>3, <3>2, <3>6 DEF InTheMaking, Name
    <3>7. ASSUME NEW c \in created, ToBeCleaned(c)
          PROVE  ToBeCleaned(c)' \/ Cleaned(c)' \/ c.id \in warned'
      <4>1. PICK i \in 1..Len(funcs[c.proc]) :
              LET g == funcs[c.proc][i]
              IN  /\ g.name = c.name /\ g.action = c.action /\ g.di.id = c.id
                  /\ g.di.instance => cont[c.name].boot > c.boot
        BY <3>7 DEF ToBeCleaned
      <4>2. CASE c.proc # p
        <5>1. funcs'[c.proc] = funcs[c.proc]
          BY <2>6, <3>2, <4>2
        <5> QED BY <3>2, <4>1, <5>1 DEF ToBeCleaned
      <4>3. CASE c.proc = p /\ i # 1
        <5>1. /\ Len(Tail(funcs[p])) = Len(funcs[p]) - 1
              /\ \A j \in 1..Len(Tail(funcs[p])) : Tail(funcs[p])[j] = funcs[p][j + 1]
          BY <1>0, TailNames
        <5>2. i - 1 \in 1..(Len(funcs[p]) - 1) /\ (i - 1) + 1 = i
          BY <1>0, <4>3
        <5>3. /\ i - 1 \in 1..Len(funcs'[c.proc])
              /\ funcs'[c.proc][i - 1] = funcs[c.proc][i]
          BY <2>6, <4>3, <5>1, <5>2
        <5> QED BY <3>2, <4>1, <5>3 DEF ToBeCleaned
      <4>4. CASE c.proc = p /\ i = 1
        <5>1. f = funcs[c.proc][i]
          BY <1>1, <4>4
        <5>2. /\ n = c.name /\ f.action = c.action /\ f.di.id = c.id
              /\ f.di.instance => cont[c.name].boot > c.boot
          BY <4>1, <5>1
        <5>3. ASSUME cont'[c.name].id = c.id, c.id \notin warned'
              PROVE  /\ c.action # "destroy"
                     /\ c.action = "stop" => /\ cont'[c.name].status # "running"
                                             /\ cont'[c.name].boot > c.boot
          <6>1. x.id = f.di.id
            BY <2>4, <3>2, <5>2, <5>3
          <6>2. c.action # "destroy" /\ (c.action = "stop" => cont'[c.name].status # "running")
            <7>1. f.di.id \notin warned' /\ cont'[c.name] = x
              BY <2>4, <5>2, <5>3
            <7>2. f.action # "destroy" /\ (f.action = "stop" => x.status # "running")
              BY <2>2, <6>1, <7>1
            <7> QED BY <5>2, <7>1, <7>2
          <6>3. c.action = "stop" => f.di.instance
            BY <1>3, <5>2
          <6> QED BY <3>2, <5>2, <6>2, <6>3
        <5> QED BY <5>3 DEF Cleaned
      <4> QED BY <4>2, <4>3, <4>4
    <3> QED BY <2>2, <2>3, <3>1, <3>4, <3>5, <3>6, <3>7 DEF DockerInv, Tracked
  <2> QED BY <2>9, <2>10, <2>11, <2>12, <2>13, <2>14 DEF DockerInv
<1> QED BY <1>2, <1>3

----------------------------------------------------------------------------
(* The theorems                                                            *)

LEMMA DockerInit == Init => DockerInv
<1> SUFFICES ASSUME Init PROVE DockerInv
  OBVIOUS
<1>1. \A n \in Names : cont[n].boot \in Nat /\ (cont[n].status # "absent" => cont[n].id # 0)
  BY DockerAssumption DEF Init
<1>2. Types
  <2>1. cont \in [Names -> Containers]
    BY DockerAssumption DEF Init, Containers
  <2>2. NoInstance \in Dockerized /\ Fresh \in Locals
    BY DEF NoInstance, Dockerized, Fresh, NoRequest, Locals, Actions
  <2>3. IsFiniteSet({})
    BY FS_EmptySet
  <2> QED BY <2>1, <2>2, <2>3 DEF Init, Types, Labels
<1>3. Standing
  BY <1>1, DockerAssumption DEF Init, Standing, StoreLocked, Searching, Making, Proc
<1>4. Boots
  BY <1>1 DEF Init, Boots, NoInstance, StoreLocked, Searching, Making
<1>5. Locking
  BY DEF Init, Locking, Section
<1>6. Registered
  <2>1. \A p \in Procs : funcs[p] = <<>> /\ FuncNames(p) = {}
    BY DEF Init, FuncNames, ToSet
  <2>2. IsFiniteSet({}) /\ Cardinality({}) = 0 /\ Len(<<>>) = 0
    BY FS_EmptySet
  <2>3. \A p \in Procs, n \in Names : containers[p][n] = NoInstance
    BY DEF Init
  <2> SUFFICES ASSUME NEW p \in Procs
               PROVE  /\ \A i \in 1..Len(funcs[p]) : FALSE
                      /\ IsFiniteSet(FuncNames(p))
                      /\ Len(funcs[p]) = Cardinality(FuncNames(p))
                      /\ FuncNames(p) = {n \in Names : containers[p][n] # NoInstance}
    BY DEF Registered
  <2>4. funcs[p] = <<>> /\ FuncNames(p) = {} /\ \A i \in 1..0 : FALSE
    BY <2>1
  <2>5. {n \in Names : containers[p][n] # NoInstance} = {}
    BY <2>3
  <2> QED BY <2>2, <2>4, <2>5
<1>7. Tracked
  BY DEF Init, Tracked
<1> QED BY <1>2, <1>3, <1>4, <1>5, <1>6, <1>7 DEF DockerInv

\* The invariant of the container store: it holds in every reachable state,
\* whatever the goroutines of all processes ask for, in any order, and
\* whatever fails or is killed.
THEOREM DockerInvariance == Spec => []DockerInv
<1>1. DockerInv /\ [Next]_vars => DockerInv'
  <2> SUFFICES ASSUME DockerInv, [Next]_vars PROVE DockerInv'
    OBVIOUS
  <2>1. ASSUME NEW w \in Workers, Step(w) PROVE DockerInv'
    <3>1. CASE CreateContainerFails(w)
      BY <3>1, FailStep DEF CreateContainerFails, Making
    <3>2. CASE GetLockFails(w)
      BY <3>2, FailStep DEF GetLockFails, Making
    <3>3. CASE QueryFails(w)
      BY <3>3, FailStep DEF QueryFails, Making
    <3>4. CASE GetLockPanics(w)
      <4>1. Proc(w) \in Procs /\ main[Proc(w)] = "run"
        BY <3>4, AtWork DEF GetLockPanics
      <4>2. \A v \in Workers : ProcOf[v] = Proc(w) => pc[v] \notin Making
        BY <3>4 DEF GetLockPanics, DockerInv, Standing, StoreLocked, Searching, Making, Proc
      <4> QED BY <3>4, <4>1, <4>2, DieStep DEF GetLockPanics, store
    <3> QED BY <2>1, <3>1, <3>2, <3>3, <3>4, BeginStep, LockStoreStep, InspectStep,
               CreateStep, StartStep, StartFailsStep, TryConnectStep, RegisterStep,
               GetLockStep, DropExistingStep, CreateSchemaStep, CleanupStep DEF Step
  <2>2. ASSUME NEW w \in Workers, ReleaseLock(w) PROVE DockerInv'
    BY <2>2, ReleaseLockStep
  <2>3. ASSUME NEW p \in Procs, Finish(p) PROVE DockerInv'
    BY <2>3, ShutdownStep, ShutdownNextStep, ExitStep DEF Finish
  <2>4. ASSUME NEW p \in Procs, Kill(p) PROVE DockerInv'
    BY <2>4, DieStep DEF Kill, store
  <2>5. CASE UNCHANGED vars
    <3>1. Types' /\ Standing' /\ Boots' /\ Locking' /\ Registered'
      BY <2>5 DEF vars, daemon, store, DockerInv, Types, Standing, Boots, Locking,
                  Registered, FuncNames, Name, Reachable
    <3>2. Tracked'
      BY <2>5 DEF vars, daemon, store, DockerInv, Tracked, InTheMaking, ToBeCleaned,
                  Cleaned, Name
    <3> QED BY <3>1, <3>2 DEF DockerInv
  <2> QED BY <2>1, <2>2, <2>3, <2>4, <2>5 DEF Next
<1> QED BY <1>1, DockerInit, PTL DEF Spec

\* A goroutine that has a workspace finds its own schema in it as long as its
\* server is there: NewLocalDocker drops and creates schemas under the lock of
\* the server only, and a container that is stopped and started again is never
\* taken for the one the goroutine is connected to.
THEOREM WorkspacesAreIsolated == Spec => []Isolation
<1>1. DockerInv => Isolation
  BY DEF DockerInv, Locking, Isolation, Section
<1> QED BY <1>1, DockerInvariance, PTL

\* The store of a process and its list of shutdown functions hold the same
\* containers, each of them once.
THEOREM StoreAgreesWithShutdown == Spec => []RegisteredOnce
<1>1. DockerInv => RegisteredOnce
  BY DEF DockerInv, Registered, FuncNames, RegisteredOnce
<1> QED BY <1>1, DockerInvariance, PTL

----------------------------------------------------------------------------
(* Who panics                                                              *)

\* getLock and the shutdown functions use the instance that is in the store, and
\* a process that panicked has one there that never started.
Blame ==
    /\ \A w \in Workers : pc[w] = "getlock" =>
         me[w].di # NoInstance /\ containers[Proc(w)][Name(w)] = me[w].di
    /\ \A p \in Procs : \A i \in 1..Len(funcs[p]) :
         containers[p][funcs[p][i].name] = funcs[p][i].di
    /\ \A p \in Procs : main[p] = "panicked" =>
         \E i \in 1..Len(funcs[p]) : ~funcs[p][i].di.instance

\* A step of goroutines that leaves the store alone and brings none to getlock.
LEMMA BlameQuiet ==
    ASSUME Blame, UNCHANGED <<containers, funcs>>,
           \A w \in Workers : pc'[w] = "getlock" => pc[w] = "getlock" /\ me'[w] = me[w],
           \A p \in Procs : main'[p] = "panicked" => main[p] = "panicked"
    PROVE  Blame'
BY DEF Blame, Name, Proc

\* A process that dies with such an instance in its list.
LEMMA BlameDies ==
    ASSUME DockerInv, Blame, NEW p \in Procs, NEW how \in {"panicked", "killed"}, Die(p, how),
           how = "panicked" => \E i \in 1..Len(funcs[p]) : ~funcs[p][i].di.instance,
           UNCHANGED <<containers, funcs, me>>
    PROVE  Blame'
<1>1. \A w \in Workers : pc'[w] = "getlock" => pc[w] = "getlock" /\ me'[w] = me[w]
  BY DEF Die
<1>2. \A r \in Procs : main'[r] = "panicked" => main[r] = "panicked" \/ (r = p /\ how = "panicked")
  BY DEF Die, DockerInv, Types
<1> QED BY <1>1, <1>2 DEF Blame, Name, Proc

\* Every function of a list has a name and a container.
LEMMA FuncNamed ==
    ASSUME NEW q \in Seq(ShutdownFuncs)
    PROVE  \A i \in 1..Len(q) : q[i] \in ShutdownFuncs /\ q[i].name \in Names
<1>1. \A i \in 1..Len(q) : q[i] \in ShutdownFuncs
  OBVIOUS
<1> QED BY <1>1 DEF ShutdownFuncs

LEMMA BlameStep ==
    ASSUME DockerInv, Blame, NEW w \in Workers, Step(w)
    PROVE  Blame'
<1>. Types /\ pc \in [Workers -> Labels] /\ me \in [Workers -> Locals] /\ Proc(w) \in Procs
  BY DockerAssumption DEF DockerInv, Types, Proc
<1>1. CASE LockStore(w)
  <2>1. /\ pc'[w] = "getlock" => me'[w].di # NoInstance /\ me'[w].req = me[w].req
                                /\ containers[Proc(w)][Name(w)] = me'[w].di
        /\ \A v \in Workers \ {w} : pc'[v] = pc[v] /\ me'[v] = me[v]
        /\ UNCHANGED <<containers, funcs, main>>
    BY <1>1 DEF LockStore, Go, Locals
  <2> QED BY <2>1 DEF Blame, Name, Proc
<1>2. CASE RegisterShutdownFunc(w)
  <2> DEFINE n == Name(w)
  <2> DEFINE p == Proc(w)
  <2> DEFINE f == [name |-> n, action |-> me[w].req.action, di |-> me[w].di]
  <2>0. /\ pc[w] = "register" /\ n \in Names /\ me[w].di.id # 0 /\ mutex[p] = w
        /\ containers[p][n] = NoInstance /\ me[w].di \in Dockerized /\ f \in ShutdownFuncs
        /\ main[p] = "run" /\ main' = main
    BY <1>2 DEF RegisterShutdownFunc, DockerInv, Standing, StoreLocked, Searching, Making,
                Locals, ShutdownFuncs
  <2>1. /\ containers'[p][n] = me[w].di
        /\ \A r \in Procs, k \in Names : r # p \/ k # n => containers'[r][k] = containers[r][k]
    BY <1>2, <2>0 DEF RegisterShutdownFunc, Types
  <2>2. /\ funcs[p] \in Seq(ShutdownFuncs) /\ funcs'[p] = Append(funcs[p], f)
        /\ \A r \in Procs \ {p} : funcs'[r] = funcs[r]
    BY <1>2 DEF RegisterShutdownFunc, Types
  <2>3. /\ \A i \in 1..Len(funcs[p]) : funcs'[p][i] = funcs[p][i] /\ funcs[p][i].name # n
        /\ funcs'[p][Len(funcs[p]) + 1] = f
        /\ \A i \in 1..Len(funcs'[p]) : i \in 1..Len(funcs[p]) \/ i = Len(funcs[p]) + 1
    <3>1. \A i \in 1..Len(funcs[p]) : funcs[p][i].name \in FuncNames(p)
      BY <2>2 DEF FuncNames, ToSet
    <3>2. n \notin FuncNames(p)
      BY <2>0 DEF DockerInv, Registered
    <3>3. /\ \A i \in 1..Len(funcs[p]) : Append(funcs[p], f)[i] = funcs[p][i]
          /\ Append(funcs[p], f)[Len(funcs[p]) + 1] = f
          /\ Len(Append(funcs[p], f)) = Len(funcs[p]) + 1 /\ Len(funcs[p]) \in Nat
      BY <2>0, <2>2, AppendNames
    <3> QED BY <2>2, <3>1, <3>2, <3>3
  <2>4. \A v \in Workers : pc'[v] = "getlock" =>
          me'[v].di # NoInstance /\ (containers[Proc(v)][Name(v)])' = me'[v].di
    <3> SUFFICES ASSUME NEW v \in Workers, pc'[v] = "getlock"
                 PROVE  me'[v].di # NoInstance /\ (containers[Proc(v)][Name(v)])' = me'[v].di
      OBVIOUS
    <3>1. CASE v = w
      <4>1. me'[w] = me[w]
        BY <1>2, <3>1 DEF RegisterShutdownFunc, Fail, Go
      <4> QED BY <2>0, <2>1, <3>1, <4>1 DEF NoInstance, Name, Proc
    <3>2. CASE v # w
      <4>1. pc'[v] = pc[v] /\ me'[v] = me[v]
        BY <1>2, <3>2 DEF RegisterShutdownFunc, Fail, Go
      <4>2. mutex[Proc(v)] = v /\ Proc(v) \in Procs /\ Name(v) \in Names
        BY <4>1, DockerAssumption DEF DockerInv, Standing, StoreLocked, Proc
      <4>3. Proc(v) # p
        BY <2>0, <3>2, <4>2
      <4> QED BY <2>1, <4>1, <4>2, <4>3 DEF Blame, Name, Proc
    <3> QED BY <3>1, <3>2
  <2>5. ASSUME NEW r \in Procs, NEW i \in 1..Len(funcs'[r])
        PROVE  containers'[r][funcs'[r][i].name] = funcs'[r][i].di
    <3>1. CASE r # p
      <4>1. funcs'[r] = funcs[r] /\ funcs[r] \in Seq(ShutdownFuncs)
        BY <2>2, <3>1 DEF Types
      <4>2. funcs[r][i].name \in Names
        <5>1. i \in 1..Len(funcs[r])
          BY <4>1
        <5> QED BY <4>1, <5>1, FuncNamed
      <4> QED BY <2>1, <3>1, <4>1, <4>2 DEF Blame
    <3>2. CASE r = p /\ i \in 1..Len(funcs[p])
      <4>1. funcs[p][i].name \in Names
        BY <2>2, <3>2, FuncNamed
      <4> QED BY <2>1, <2>3, <3>2, <4>1 DEF Blame
    <3>3. CASE r = p /\ i = Len(funcs[p]) + 1
      BY <2>1, <2>3, <3>3
    <3> QED BY <2>3, <3>1, <3>2, <3>3
  <2>6. ASSUME NEW r \in Procs, main'[r] = "panicked"
        PROVE  \E i \in 1..Len(funcs'[r]) : ~funcs'[r][i].di.instance
    <3>1. r # p
      BY <2>0, <2>6
    <3> QED BY <2>0, <2>2, <2>6, <3>1 DEF Blame
  <2> QED BY <2>4, <2>5, <2>6 DEF Blame
<1>3. CASE GetLockPanics(w)
  <2> DEFINE p == Proc(w)
  <2>1. /\ pc[w] = "getlock" /\ ~me[w].di.instance /\ Name(w) \in Names
        /\ containers[p][Name(w)] = me[w].di /\ me[w].di # NoInstance
    BY <1>3 DEF GetLockPanics, Blame, DockerInv, Standing
  <2>2. Name(w) \in FuncNames(p)
    BY <2>1 DEF DockerInv, Registered
  <2>3. PICK i \in 1..Len(funcs[p]) : funcs[p][i].name = Name(w)
    <3>1. PICK f \in ToSet(funcs[p]) : f.name = Name(w)
      BY <2>2 DEF FuncNames
    <3>2. funcs[p] \in Seq(ShutdownFuncs) /\ f \in {funcs[p][i] : i \in DOMAIN funcs[p]}
      BY <3>1 DEF ToSet, Types
    <3>3. DOMAIN funcs[p] = 1..Len(funcs[p])
      BY <3>2
    <3> QED BY <3>1, <3>2, <3>3
  <2>4. ~funcs[p][i].di.instance
    BY <2>1, <2>3 DEF Blame
  <2> QED BY <1>3, <2>4, BlameDies DEF GetLockPanics, store
<1>4. CASE \/ Begin(w) \/ InspectContainer(w) \/ CreateContainer(w) \/ CreateContainerFails(w)
           \/ Start(w) \/ StartFails(w) \/ TryConnect(w) \/ TryConnectFails(w) \/ GetLock(w)
           \/ GetLockFails(w) \/ DropExisting(w) \/ CreateSchema(w) \/ QueryFails(w) \/ Cleanup(w)
  <2>1. UNCHANGED <<containers, funcs, main>>
    BY <1>4
    DEF Begin, InspectContainer, CreateContainer, CreateContainerFails, Start, StartFails,
        TryConnect, TryConnectFails, GetLock, GetLockFails, DropExisting, CreateSchema,
        QueryFails, Cleanup, store
  <2>2. pc'[w] # "getlock" /\ \A v \in Workers \ {w} : pc'[v] = pc[v] /\ me'[v] = me[v]
    BY <1>4
    DEF Begin, InspectContainer, CreateContainer, CreateContainerFails, Start, StartFails,
        TryConnect, TryConnectFails, GetLock, GetLockFails, DropExisting, CreateSchema,
        QueryFails, Cleanup, Fail, GiveUp, Go
  <2> QED BY <2>1, <2>2, BlameQuiet
<1> QED BY <1>1, <1>2, <1>3, <1>4 DEF Step

LEMMA BlameFinish ==
    ASSUME DockerInv, Blame, NEW p \in Procs, Finish(p)
    PROVE  Blame'
<1>. Types
  BY DEF DockerInv
<1>1. CASE Shutdown(p) \/ Exit(p)
  <2>1. /\ UNCHANGED <<containers, funcs, pc, me>>
        /\ \A r \in Procs : main'[r] = "panicked" => main[r] = "panicked"
    BY <1>1 DEF Shutdown, Exit, Types
  <2> QED BY <2>1, BlameQuiet
<1>2. CASE ShutdownNext(p) \/ ShutdownFails(p)
  <2>0. /\ main[p] = "shutdown" /\ funcs[p] # <<>> /\ funcs[p] \in Seq(ShutdownFuncs)
        /\ \A i, j \in 1..Len(funcs[p]) : funcs[p][i].name = funcs[p][j].name => i = j
    BY <1>2 DEF ShutdownNext, ShutdownFails, DockerInv, Types, Registered
  <2>1. PICK f \in ShutdownFuncs : f = Head(funcs[p]) /\ f = funcs[p][1] /\ 1 \in 1..Len(funcs[p])
    BY <2>0, TailNames
  <2>2. CASE Die(p, "panicked") /\ ~f.di.instance /\ UNCHANGED <<containers, funcs, me>>
    BY <2>1, <2>2, BlameDies
  <2>3. CASE Deregister(p) /\ UNCHANGED <<main, pc, me>>
    <3>1. /\ \A r \in Procs, k \in Names : r # p \/ k # f.name => containers'[r][k] = containers[r][k]
          /\ funcs'[p] = Tail(funcs[p]) /\ \A r \in Procs \ {p} : funcs'[r] = funcs[r]
      BY <2>1, <2>3 DEF Deregister, Types, ShutdownFuncs
    <3>2. /\ Len(Tail(funcs[p])) = Len(funcs[p]) - 1
          /\ \A i \in 1..Len(Tail(funcs[p])) :
               Tail(funcs[p])[i] = funcs[p][i + 1] /\ i + 1 \in 1..Len(funcs[p])
      BY <2>0, TailNames
    <3>3. \A v \in Workers : pc'[v] = "getlock" =>
            me'[v].di # NoInstance /\ (containers[Proc(v)][Name(v)])' = me'[v].di
      <4> SUFFICES ASSUME NEW v \in Workers, pc[v] = "getlock"
                   PROVE  me'[v].di # NoInstance /\ (containers[Proc(v)][Name(v)])' = me'[v].di
        BY <2>3
      <4>1. Proc(v) # p /\ Proc(v) \in Procs /\ Name(v) \in Names
        BY <2>0, DockerAssumption DEF DockerInv, Standing, Proc
      <4> QED BY <2>3, <3>1, <4>1 DEF Blame, Name, Proc
    <3>4. ASSUME NEW r \in Procs, NEW i \in 1..Len(funcs'[r])
          PROVE  containers'[r][funcs'[r][i].name] = funcs'[r][i].di
      <4>1. CASE r # p
        <5>1. funcs'[r] = funcs[r] /\ funcs[r] \in Seq(ShutdownFuncs)
          BY <3>1, <4>1 DEF Types
        <5>2. funcs[r][i].name \in Names
          <6>1. i \in 1..Len(funcs[r])
            BY <5>1
          <6> QED BY <5>1, <6>1, FuncNamed
        <5> QED BY <3>1, <4>1, <5>1, <5>2 DEF Blame
      <4>2. CASE r = p
        <5>0. i \in 1..Len(Tail(funcs[p]))
          BY <3>1, <4>2
        <5>1. funcs'[p][i] = funcs[p][i + 1] /\ i + 1 \in 1..Len(funcs[p]) /\ i + 1 # 1
          <6>1. i \in Nat /\ i >= 1
            BY <2>0, <3>2, <5>0
          <6>2. Tail(funcs[p])[i] = funcs[p][i + 1] /\ i + 1 \in 1..Len(funcs[p])
            BY <3>2, <5>0
          <6> QED BY <3>1, <6>1, <6>2
        <5>2. funcs[p][i + 1].name # f.name /\ funcs[p][i + 1].name \in Names
          <6> DEFINE j == i + 1
          <6>1. j \in 1..Len(funcs[p]) /\ j # 1
            BY <5>1
          <6>2. funcs[p][j].name \in Names
            BY <2>0, <6>1, FuncNamed
          <6> HIDE DEF j
          <6>3. funcs[p][j].name # f.name
            BY <2>0, <2>1, <6>1
          <6> QED BY <6>2, <6>3 DEF j
        <5>3. containers[p][funcs[p][i + 1].name] = funcs[p][i + 1].di
          BY <5>1 DEF Blame
        <5> QED BY <3>1, <4>2, <5>1, <5>2, <5>3
      <4> QED BY <4>1, <4>2
    <3>5. ASSUME NEW r \in Procs, main'[r] = "panicked"
          PROVE  \E i \in 1..Len(funcs'[r]) : ~funcs'[r][i].di.instance
      <4>1. r # p
        BY <2>0, <2>3, <3>5
      <4> QED BY <2>3, <3>1, <3>5, <4>1 DEF Blame
    <3> QED BY <3>3, <3>4, <3>5 DEF Blame
  <2> QED BY <1>2, <2>1, <2>2, <2>3 DEF ShutdownNext, ShutdownFails
<1> QED BY <1>1, <1>2 DEF Finish

LEMMA Blamed == Spec => []Blame
<1>1. Init => Blame
  <2> SUFFICES ASSUME Init PROVE Blame
    OBVIOUS
  <2>1. \A p \in Procs : \A i \in 1..Len(funcs[p]) : FALSE
    BY DEF Init
  <2> QED BY <2>1 DEF Init, Blame
<1>2. DockerInv /\ Blame /\ [Next]_vars => Blame'
  <2> SUFFICES ASSUME DockerInv, Blame, [Next]_vars PROVE Blame'
    OBVIOUS
  <2>1. ASSUME NEW w \in Workers, ReleaseLock(w) PROVE Blame'
    BY <2>1, BlameQuiet DEF ReleaseLock, store
  <2>2. ASSUME NEW p \in Procs, Kill(p) PROVE Blame'
    BY <2>2, BlameDies DEF Kill, store
  <2>3. CASE UNCHANGED vars
    BY <2>3, BlameQuiet DEF vars, store
  <2> QED BY <2>1, <2>2, <2>3, BlameStep, BlameFinish DEF Next
<1> QED BY <1>1, <1>2, DockerInvariance, PTL DEF Spec

\* Whatever fails, a process that is not killed leaves no container behind that
\* it created and had to clean up but those whose Stop or Destroy failed, with a
\* warning; or else it panicked, with a container that did not start still in its
\* list and the one left behind after that in the list.
THEOREM NothingLeftBehind == Spec => []CreatedIsCleaned
<1>1. DockerInv /\ Blame => CreatedIsCleaned
  <2> SUFFICES ASSUME DockerInv, Blame, NEW c \in created,
                      main[c.proc] \in {"exited", "panicked"}, LeftBehind(c),
                      c.id \notin warned
               PROVE  /\ main[c.proc] = "panicked"
                      /\ \E f \in ToSet(funcs[c.proc]) : f.di.id = c.id
                      /\ \E f \in ToSet(funcs[c.proc]) : ~f.di.instance
    BY DEF CreatedIsCleaned
  <2>1. /\ c.proc \in Procs /\ c.name \in Names /\ c.boot \in Nat
        /\ cont[c.name].boot \in Nat /\ funcs[c.proc] \in Seq(ShutdownFuncs)
    BY DEF DockerInv, Types, Creations, Containers
  <2>2. ~InTheMaking(c)
    BY <2>1 DEF DockerInv, Standing, InTheMaking, Making
  <2>3. ~Cleaned(c)
    BY <2>1 DEF LeftBehind, Cleaned
  <2>4. ToBeCleaned(c)
    BY <2>2, <2>3 DEF DockerInv, Tracked
  <2>5. PICK i \in 1..Len(funcs[c.proc]) : funcs[c.proc][i].di.id = c.id
    BY <2>4 DEF ToBeCleaned
  <2>6. main[c.proc] = "panicked"
    BY <2>1, <2>5 DEF DockerInv, Tracked
  <2>7. PICK j \in 1..Len(funcs[c.proc]) : ~funcs[c.proc][j].di.instance
    BY <2>1, <2>6 DEF Blame
  <2>8. funcs[c.proc][i] \in ToSet(funcs[c.proc]) /\ funcs[c.proc][j] \in ToSet(funcs[c.proc])
    BY <2>1 DEF ToSet
  <2> QED BY <2>5, <2>6, <2>7, <2>8
<1> QED BY <1>1, DockerInvariance, Blamed, PTL
=============================================================================
