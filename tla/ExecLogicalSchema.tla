------------------------- MODULE ExecLogicalSchema -------------------------
(***************************************************************************)
(* workspace.ExecLogicalSchema: the CREATE statements of a LogicalSchema   *)
(* go through the channel `creates` to a pool of worker goroutines, which  *)
(* send one result per statement on the channel `errs`.  The calling       *)
(* goroutine collects the results, closes `errs`, runs the statements to   *)
(* retry and the ALTERs by itself, introspects the workspace and cleans it *)
(* up.                                                                     *)
(***************************************************************************)
EXTENDS WorkspaceDDL

CONSTANTS
    Concurrency,    \* opts.Concurrency
    NoStmt          \* what a worker without a statement holds

ASSUME ConcurrencyAssumption ==
    /\ Concurrency \in Nat \ {0}
    /\ NoStmt \notin Statements

VARIABLES
    pc,             \* where the calling goroutine is
    ws,             \* the Workspace: "none", "open", or "closed" by Cleanup
    toSend,         \* statements that the producer has yet to send
    creates,        \* the buffered channel of statements
    createsClosed,  \* close(creates) was called
    wpc,            \* where each worker goroutine is
    stmt,           \* the statement each worker holds
    err,            \* the error of that statement
    errs,           \* the buffered channel of results
    errsClosed,     \* close(errs) was called
    n,              \* results collected so far
    sequentialStatements,
    pos,            \* the next one of them to execute
    failures,       \* wsSchema.Failures
    schema,         \* wsSchema.Schema, when
    introspected,   \*   IntrospectSchema succeeded
    retErr,         \* the named error return
    applied,        \* the server: statements in force in the workspace
    attempts,       \* history: the errors of each statement's attempts
    setbacks        \* history: the fatal errors met, in order

callVars == <<pc, ws, n, sequentialStatements, pos, failures, schema,
              introspected, retErr, setbacks>>
poolVars == <<toSend, creates, createsClosed, wpc, stmt, err>>
vars == <<callVars, poolVars, errs, errsClosed, applied, attempts>>

\* As many workers as statements, opts.Concurrency at most.
Workers == {w \in 1..Concurrency : w <= Cardinality(Creates)}

Init ==
    /\ pc = "new" /\ ws = "none"
    /\ toSend = Creates /\ creates = <<>> /\ createsClosed = FALSE
    /\ wpc = [w \in Workers |-> "unborn"]
    /\ stmt = [w \in Workers |-> NoStmt]
    /\ err = [w \in Workers |-> "nil"]
    /\ errs = <<>> /\ errsClosed = FALSE /\ n = 0
    /\ sequentialStatements = <<>> /\ pos = 1
    /\ failures = <<>>
    /\ schema = {} /\ introspected = FALSE
    /\ retErr = "nil" /\ setbacks = <<>>
    /\ applied = {} /\ attempts = [s \in Statements |-> <<>>]

----------------------------------------------------------------------------
(* The calling goroutine, up to the start of the pool.                     *)

\* LowerCaseNames or New fails: there is no workspace and nothing to clean up.
NewFails ==
    /\ pc = "new"
    /\ pc' = "returned"
    /\ retErr' = "new" /\ setbacks' = <<"new">>
    /\ UNCHANGED <<ws, n, sequentialStatements, pos, failures, schema,
                   introspected, poolVars, errs, errsClosed, applied, attempts>>

\* New returns a workspace; from here on the deferred Cleanup will run.
New ==
    /\ pc = "new"
    /\ pc' = "connect" /\ ws' = "open"
    /\ UNCHANGED <<n, sequentialStatements, pos, failures, schema,
                   introspected, retErr, setbacks, poolVars, errs, errsClosed,
                   applied, attempts>>

ConnectFails ==
    /\ pc = "connect"
    /\ pc' = "cleanup"
    /\ retErr' = "connect" /\ setbacks' = Append(setbacks, "connect")
    /\ UNCHANGED <<ws, n, sequentialStatements, pos, failures, schema,
                   introspected, poolVars, errs, errsClosed, applied, attempts>>

\* ws.ConnectionPool succeeds; the producer and the workers are started.
Connect ==
    /\ pc = "connect"
    /\ pc' = "collect"
    /\ wpc' = [w \in Workers |-> "recv"]
    /\ UNCHANGED <<ws, n, sequentialStatements, pos, failures, schema,
                   introspected, retErr, setbacks, toSend, creates,
                   createsClosed, stmt, err, errs, errsClosed, applied, attempts>>

----------------------------------------------------------------------------
(* The producer goroutine.                                                 *)

Started == pc \notin {"new", "connect"} /\ retErr # "connect" /\ retErr # "new"

Produce(s) ==
    /\ Started
    /\ s \in toSend
    /\ Len(creates) < Concurrency
    /\ creates' = Append(creates, s)
    /\ toSend' = toSend \ {s}
    /\ UNCHANGED <<callVars, createsClosed, wpc, stmt, err, errs, errsClosed,
                   applied, attempts>>

\* Mutant of CloseCreates: the producer returns without close(creates).
CloseCreatesForgotten ==
    /\ FALSE
    /\ UNCHANGED vars

CloseCreates ==
    /\ Started
    /\ toSend = {}
    /\ ~createsClosed
    /\ createsClosed' = TRUE
    /\ UNCHANGED <<callVars, toSend, creates, wpc, stmt, err, errs, errsClosed,
                   applied, attempts>>

----------------------------------------------------------------------------
(* The worker goroutines.                                                  *)

Receive(w) ==
    /\ wpc[w] = "recv"
    /\ creates # <<>>
    /\ stmt' = [stmt EXCEPT ![w] = Head(creates)]
    /\ creates' = Tail(creates)
    /\ wpc' = [wpc EXCEPT ![w] = "exec"]
    /\ UNCHANGED <<callVars, toSend, createsClosed, err, errs, errsClosed,
                   applied, attempts>>

\* The server's part of db.Exec.
Run(s, e) ==
    \E r \in Replies(s, applied) :
        /\ r[1] = e
        /\ applied' = r[2]
        /\ attempts' = [attempts EXCEPT ![s] = Append(@, e)]

Exec(w) ==
    /\ wpc[w] = "exec"
    /\ \E e \in Errors :
        /\ Run(stmt[w], e)
        /\ err' = [err EXCEPT ![w] = e]
    /\ wpc' = [wpc EXCEPT ![w] = "send"]
    /\ UNCHANGED <<callVars, toSend, creates, createsClosed, stmt, errs,
                   errsClosed>>

\* Mutant of Send: the channel takes any number of results.
SendUnbounded(w) ==
    /\ wpc[w] = "send"
    /\ errs' = Append(errs, <<stmt[w], err[w]>>)
    /\ stmt' = [stmt EXCEPT ![w] = NoStmt]
    /\ wpc' = [wpc EXCEPT ![w] = "recv"]
    /\ UNCHANGED <<callVars, toSend, creates, createsClosed, err, errsClosed,
                   applied, attempts>>

\* `errs <- err`.  A send on a closed channel would panic: see NoSendAfterClose.
Send(w) ==
    /\ wpc[w] = "send"
    /\ Len(errs) < Concurrency
    /\ errs' = Append(errs, <<stmt[w], err[w]>>)
    /\ stmt' = [stmt EXCEPT ![w] = NoStmt]
    /\ wpc' = [wpc EXCEPT ![w] = "recv"]
    /\ UNCHANGED <<callVars, toSend, creates, createsClosed, err, errsClosed,
                   applied, attempts>>

\* `range creates` ends: the channel is closed and drained.
Exit(w) ==
    /\ wpc[w] = "recv"
    /\ createsClosed /\ creates = <<>>
    /\ wpc' = [wpc EXCEPT ![w] = "done"]
    /\ UNCHANGED <<callVars, toSend, creates, createsClosed, stmt, err, errs,
                   errsClosed, applied, attempts>>

----------------------------------------------------------------------------
(* The calling goroutine, from the collection of the results on.           *)

\* Mutant of Outstanding: the loop ends one result early.
OutstandingOffByOne == n + 1 < Cardinality(Creates)

\* The condition of the collecting loop.
Outstanding == n < Cardinality(Creates)

\* What becomes of one result.
Sort(s, e) ==
    /\ sequentialStatements' = IF Retriable(e)
                               THEN Append(sequentialStatements, s)
                               ELSE sequentialStatements
    /\ failures' = IF e # "nil" /\ ~Retriable(e)
                   THEN Append(failures, s) ELSE failures

Collect ==
    /\ pc = "collect"
    /\ Outstanding
    /\ errs # <<>>
    /\ errs' = Tail(errs)
    /\ n' = n + 1
    /\ Sort(Head(errs)[1], Head(errs)[2])
    /\ UNCHANGED <<pc, ws, pos, schema, introspected, retErr, setbacks,
                   poolVars, errsClosed, applied, attempts>>

\* Mutant of CloseErrs: the ALTERs go before the retries.
CloseErrsAltersFirst ==
    /\ pc = "collect"
    /\ ~Outstanding
    /\ errsClosed' = TRUE
    /\ sequentialStatements' = Alters \o sequentialStatements
    /\ pc' = "sequential"
    /\ UNCHANGED <<ws, n, pos, failures, schema, introspected, retErr,
                   setbacks, poolVars, errs, applied, attempts>>

CloseErrs ==
    /\ pc = "collect"
    /\ ~Outstanding
    /\ errsClosed' = TRUE
    /\ sequentialStatements' = sequentialStatements \o Alters
    /\ pc' = "sequential"
    /\ UNCHANGED <<ws, n, pos, failures, schema, introspected, retErr,
                   setbacks, poolVars, errs, applied, attempts>>

\* Mutant of ExecSequential: the error of a sequential statement is ignored.
ExecSequentialIgnoresError ==
    /\ pc = "sequential"
    /\ pos <= Len(sequentialStatements)
    /\ \E e \in Errors : Run(sequentialStatements[pos], e)
    /\ pos' = pos + 1
    /\ UNCHANGED <<pc, ws, n, sequentialStatements, failures, schema,
                   introspected, retErr, setbacks, poolVars, errs, errsClosed>>

ExecSequential ==
    /\ pc = "sequential"
    /\ pos <= Len(sequentialStatements)
    /\ \E e \in Errors :
        /\ Run(sequentialStatements[pos], e)
        /\ failures' = IF e = "nil" THEN failures
                       ELSE Append(failures, sequentialStatements[pos])
    /\ pos' = pos + 1
    /\ UNCHANGED <<pc, ws, n, sequentialStatements, schema, introspected,
                   retErr, setbacks, poolVars, errs, errsClosed>>

EndSequential ==
    /\ pc = "sequential"
    /\ pos > Len(sequentialStatements)
    /\ pc' = "introspect"
    /\ UNCHANGED <<ws, n, sequentialStatements, pos, failures, schema,
                   introspected, retErr, setbacks, poolVars, errs, errsClosed,
                   applied, attempts>>

Introspect ==
    /\ pc = "introspect"
    /\ pc' = "cleanup"
    /\ schema' = applied /\ introspected' = TRUE
    /\ UNCHANGED <<ws, n, sequentialStatements, pos, failures, retErr,
                   setbacks, poolVars, errs, errsClosed, applied, attempts>>

IntrospectFails ==
    /\ pc = "introspect"
    /\ pc' = "cleanup"
    /\ retErr' = "introspect" /\ setbacks' = Append(setbacks, "introspect")
    /\ UNCHANGED <<ws, n, sequentialStatements, pos, failures, schema,
                   introspected, poolVars, errs, errsClosed, applied, attempts>>

\* Mutant of ReturnedError: the error of Cleanup always wins.
ReturnedErrorCleanupWins(cleanupErr) ==
    IF cleanupErr # "nil" THEN cleanupErr ELSE retErr

\* The deferred function's rule for the error return.
ReturnedError(cleanupErr) ==
    IF retErr = "nil" /\ cleanupErr # "nil" THEN cleanupErr ELSE retErr

\* The deferred ws.Cleanup; it closes the workspace whether it fails or not.
Cleanup(cleanupErr) ==
    /\ pc = "cleanup"
    /\ pc' = "returned" /\ ws' = "closed"
    /\ retErr' = ReturnedError(cleanupErr)
    /\ setbacks' = IF cleanupErr = "nil" THEN setbacks
                   ELSE Append(setbacks, cleanupErr)
    /\ UNCHANGED <<n, sequentialStatements, pos, failures, schema,
                   introspected, poolVars, errs, errsClosed, applied, attempts>>

----------------------------------------------------------------------------

Gone(w) == wpc[w] \in {"unborn", "done"}

\* Every goroutine of the call has ended.
Quiet ==
    /\ pc = "returned"
    /\ \A w \in Workers : Gone(w)
    /\ Started => createsClosed

Terminated == Quiet /\ UNCHANGED vars

Caller ==
    \/ NewFails \/ New \/ ConnectFails \/ Connect
    \/ Collect \/ CloseErrs \/ ExecSequential \/ EndSequential
    \/ Introspect \/ IntrospectFails
    \/ \E cleanupErr \in {"nil", "cleanup"} : Cleanup(cleanupErr)

Producer == CloseCreates \/ \E s \in Creates : Produce(s)

Worker(w) == Receive(w) \/ Exec(w) \/ Send(w) \/ Exit(w)

Next == Caller \/ Producer \/ (\E w \in Workers : Worker(w)) \/ Terminated

Spec == Init /\ [][Next]_vars

\* The Go scheduler runs every goroutine that can run, and the driver and the
\* server answer every query.
FairSpec == Spec /\ WF_vars(Caller) /\ WF_vars(Producer)
                 /\ \A w \in Workers : WF_vars(Worker(w))

----------------------------------------------------------------------------
(* Properties                                                              *)

\* The values each variable ranges over, the capacities of the two channels
\* included.
TypeOK ==
    /\ pc \in {"new", "connect", "collect", "sequential", "introspect",
               "cleanup", "returned"}
    /\ ws \in {"none", "open", "closed"}
    /\ toSend \in SUBSET Creates
    /\ creates \in Seq(Creates) /\ Len(creates) <= Concurrency
    /\ createsClosed \in BOOLEAN
    /\ wpc \in [Workers -> {"unborn", "recv", "exec", "send", "done"}]
    /\ stmt \in [Workers -> Creates \cup {NoStmt}]
    /\ err \in [Workers -> Errors]
    /\ errs \in Seq(Creates \X Errors) /\ Len(errs) <= Concurrency
    /\ errsClosed \in BOOLEAN
    /\ n \in 0..Cardinality(Creates)
    /\ sequentialStatements \in Seq(Statements)
    /\ pos \in Nat \ {0}
    /\ failures \in Seq(Statements)
    /\ schema \in SUBSET Statements /\ introspected \in BOOLEAN
    /\ retErr \in {"nil", "new", "connect", "introspect", "cleanup"}
    /\ setbacks \in Seq({"new", "connect", "introspect", "cleanup"})
    /\ applied \in SUBSET Statements
    /\ attempts \in [Statements -> Seq(Errors)]

\* close(errs) in ExecLogicalSchema comes after the last send of every worker:
\* no worker still holds a statement whose result it would send on a closed
\* channel, which panics.
NoSendAfterClose ==
    errsClosed => \A w \in Workers : wpc[w] \notin {"exec", "send"}

\* The introspected schema is the final content of the workspace: no statement
\* of any goroutine takes effect between IntrospectSchema and the return, so
\* Cleanup's list of tables to drop misses none.
SchemaIsFinal == introspected => schema = applied

\* A caller that finds retErr nil and no Failures may rely on the schema: every
\* statement that is missing from it is in Failures.
NoSilentLoss ==
    (pc = "returned" /\ retErr = "nil")
        => Statements \ schema \subseteq Range(failures)

\* Statements that are invalid or refer to an invalid one.
Broken == {s \in Statements : s \in Invalid \/ Needs[s] \cap Invalid # {}}

\* The statements that fail in every order of execution: the broken ones, and
\* an ALTER of a table that is LIKE one that is not there.
Doomed == Broken \cup {s \in Statements : Needs[s] \cap Broken # {}}

\* No CREATE TABLE ... LIKE refers to a table that is itself made that way
\* (nested chains are documented as unsupported).
Unnested == \A s \in Creates : \A b \in Needs[s] : Needs[b] = {}

\* No attempt met a fault of the environment.
Undisturbed ==
    \A s \in Statements : Range(attempts[s]) \subseteq
        (IF s \in Invalid THEN {"other"} ELSE {"nil", "nosuchtable"})

\* The outcome does not depend on how the goroutines interleave: without
\* faults, exactly the doomed statements are reported, each of them once, and
\* the schema holds all the others.
OutcomeIsDeterministic ==
    (pc = "returned" /\ introspected /\ Unnested /\ Undisturbed) =>
        /\ Range(failures) = Doomed
        /\ IsInjective(failures)
        /\ schema = Statements \ Doomed

\* The caller learns of the first fatal error and no later one masks it, nil is
\* returned when there was none, and no workspace is left without a Cleanup.
FirstErrorWins ==
    pc = "returned" =>
        /\ retErr = IF setbacks = <<>> THEN "nil" ELSE setbacks[1]
        /\ ws # "open"

\* "retry errors from CREATE TABLE...LIKE being run out-of-order (only once
\* though; nested chains of CREATE TABLE...LIKE are unsupported)": an unnested
\* LIKE that only ever failed for want of its base table, which was created in
\* the end, is created too.  One case falls short of that: the base table's own
\* CREATE met a deadlock, and the two are retried in the order in which their
\* errors arrived.
LikeRetrySuffices ==
    (pc = "returned" /\ introspected /\ Unnested) =>
        \A s \in Creates :
            (Needs[s] # {} /\ Needs[s] \subseteq schema
                /\ Range(attempts[s]) \subseteq {"nil", "nosuchtable"})
            => s \in schema \/ \E base \in Needs[s] : Head(attempts[base]) = "lock"

\* ExecLogicalSchema keeps the promise of DDLBatch: each CREATE has one
\* concurrent attempt, a second one only after every first one and only for a
\* retriable error, the ALTERs follow in order, and Failures reports exactly
\* the statements whose last attempt failed.
Batch == INSTANCE DDLBatch WITH
    phase  <- IF ~errsClosed THEN "first"
              ELSE IF pc = "sequential" THEN "second" ELSE "reported",
    report <- IF errsClosed /\ pc # "sequential" THEN Range(failures) ELSE {}

ImplementsBatch == Batch!BatchSpec

\* Every call of ExecLogicalSchema returns and leaves no goroutine behind.
Terminates == <>[]Quiet
=============================================================================
