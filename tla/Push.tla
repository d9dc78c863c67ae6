-------------------------------- MODULE Push --------------------------------
(***************************************************************************)
(* `skeema push` and `skeema diff`: PushHandler has the targets found (see *)
(* Targets) and runs one goroutine per group of targets with the same      *)
(* instance, in an errgroup with a limit; each applies its targets in turn *)
(* (ApplyTarget), prints through the shared printer, and merges its        *)
(* results.                                                                *)
(***************************************************************************)
EXTENDS Targets, Subsequence

CONSTANTS
    Instances,
    Jobs,           \* the commands to consider, see PushAssumption
    None

\* What Statement(mods) of an object diff comes to, with what the ClientState of
\* the statement adds to the target's: an empty schema name for database-level
\* DDL, and the delimiter, which is empty for a shell-out.
ObjectDiffs == [kind : {"noop", "plain", "unsafe", "unsupported", "error"},
                database : BOOLEAN, delimiter : {";", "//", ""}]

\* No target is found twice.
Disjoint(group) ==
    \A i, j \in DOMAIN group : \A k \in DOMAIN group[i], l \in DOMAIN group[j] :
        group[i][k] = group[j][l] => i = j /\ k = l

ASSUME PushAssumption ==
    /\ \A j \in Jobs :
           /\ \A t \in Mapped(j.config) : j.diffs[t] \in Seq(ObjectDiffs)
           /\ j.dryRun \in BOOLEAN /\ j.brief \in BOOLEAN /\ (j.brief => j.dryRun)
           /\ j.concurrency \in Nat \ {0}
           /\ TargetGroupsForDir(j.config, Instances).group
                  \in [Instances -> Seq(Mapped(j.config))]
           /\ Disjoint(TargetGroupsForDir(j.config, Instances).group)
           /\ TargetGroupsForDir(j.config, Instances).skip \in Nat
    /\ IsFiniteSet(Instances) /\ None \notin Instances /\ None \notin Nat

VARIABLES
    job,        \* the command being run; never changes
    found,      \* the groups of targets and the number of skips; never changes
    pending,    \* groups the main goroutine has not yet handed to g.Go
    pc,         \* where the goroutine of each group is
    next,       \* index in its group of the target it is on
    me,         \* its local variables
    cancelled,  \* the context of the errgroup is done
    err,        \* exit code of the first error the errgroup was given, or 0
    sum,        \* the shared Result
    sumLock,    \* the goroutine that holds the mutex of sum, or None
    desired,    \* the shared table of each directory's DesiredSchema
    last,       \* fields of the printer
    reader,     \* what a client that executes the standard output is set to
    listed,     \* instances the brief printer has printed
    exit,       \* exit code of the process, or None
    applied,    \* history: diffs of each target that were executed
    failed      \* history: targets one of whose statements failed

goroutine == <<pending, pc, next, me, cancelled, err>>
shared == <<sum, sumLock, desired>>
printer == <<last, reader, listed>>
history == <<applied, failed>>
vars == <<goroutine, shared, printer, exit, history>>

Diffs == job.diffs              \* object diffs of each target, in execution order
LintErrors == job.lintErrors    \* targets with a linter error in a modified object
Partitioned == job.partitioned  \* directories whose table has a partitioning clause
RemovePartitioning == job.removePartitioning \* those with partitioning=remove
DryRun == job.dryRun
Brief == job.brief
Concurrency == job.concurrency  \* concurrent-instances
Group == found.group            \* the targets of each instance, in order
SkippedDirs == found.skip

\* Every schema that the configuration maps a directory to, found or not.
Targets == DOMAIN applied
Found == UNION {ToSet(Group[i]) : i \in Instances}
Dirs == {t.dir : t \in Targets}

\* What may fail: on a server, "introspect", "verify" and "exec"; the options for
\* "mods" and for "lint" of a target.
Faults == job.faults

NoResult == [differences |-> FALSE, skip |-> 0, unsupported |-> 0]

Fresh == [result |-> NoResult, stmts |-> <<>>, suffix |-> FALSE, copy |-> NoResult]

Init ==
    /\ job \in Jobs
    /\ found = TargetGroupsForDir(job.config, Instances)
    /\ applied = [t \in Mapped(job.config) |-> <<>>]
    /\ pending = {i \in Instances : Group[i] # <<>>}
    /\ pc = [i \in Instances |-> "idle"]
    /\ next = [i \in Instances |-> 1]
    /\ me = [i \in Instances |-> Fresh]
    /\ cancelled = FALSE
    /\ err = 0
    /\ sum = [NoResult EXCEPT !.skip = SkippedDirs]
    /\ sumLock = None
    /\ desired = [d \in Dirs |->
                     [create |-> IF d \in Partitioned THEN "full" ELSE "base",
                      partitioning |-> d \in Partitioned]]
    /\ last = [instance |-> None, schema |-> "", delimiter |-> ";"]
    /\ reader = last
    /\ listed = <<>>
    /\ exit = None
    /\ failed = {}

Target(i) == Group[i][next[i]]

Go(i, l) == pc' = [pc EXCEPT ![i] = l] /\ UNCHANGED <<pending, next, cancelled, err>>

----------------------------------------------------------------------------
(* PushHandler                                                             *)

Active == {i \in Instances : pc[i] \notin {"idle", "ended"}}

\* The loop over the groups, which come from a map; g.Go blocks at the limit.
Spawn(i) ==
    /\ i \in pending
    /\ Cardinality(Active) < Concurrency
    /\ pending' = pending \ {i}
    /\ pc' = [pc EXCEPT ![i] = "loop"]
    /\ UNCHANGED <<next, me, cancelled, err, shared, printer, exit, history>>

\* Mutant of ExitCode: skipped operations do not make the exit code.
ExitCodeNoSkips ==
    IF err # 0 THEN err
    ELSE IF sum.unsupported > 0 THEN 1
    ELSE IF DryRun /\ sum.differences THEN 1
    ELSE 0

ExitCode ==
    IF err # 0 THEN err
    ELSE IF sum.skip > 0 THEN 2
    ELSE IF sum.unsupported > 0 THEN 1
    ELSE IF DryRun /\ sum.differences THEN 1
    ELSE 0

\* g.Wait returns and the handler's return value becomes the exit code.
Wait ==
    /\ exit = None
    /\ pending = {} /\ Active = {}
    /\ exit' = ExitCode
    /\ UNCHANGED <<goroutine, shared, printer, history>>

\* The loop of a goroutine: it ends after its last target or when it finds the
\* context done, and begins ApplyTarget otherwise.
Loop(i) ==
    /\ pc[i] = "loop"
    /\ IF next[i] > Len(Group[i]) \/ cancelled
       THEN Go(i, "ended") /\ UNCHANGED me
       ELSE Go(i, "introspect") /\ me' = [me EXCEPT ![i] = Fresh]
    /\ UNCHANGED <<shared, printer, exit, history>>

\* ApplyTarget returns an error: the goroutine gives it to the errgroup, which
\* keeps the first one and cancels the context.
Fail(i, code) ==
    /\ pc' = [pc EXCEPT ![i] = "ended"]
    /\ err' = IF err = 0 THEN code ELSE err
    /\ cancelled' = TRUE
    /\ UNCHANGED <<pending, next, me>>

\* Mutant of MergeRead: the mutex is not taken.
MergeReadUnlocked(i) ==
    /\ pc[i] = "merge"
    /\ me' = [me EXCEPT ![i].copy = sum]
    /\ Go(i, "merging")
    /\ UNCHANGED <<shared, printer, exit, history>>

\* sumLock.Lock, and the reads of sum.Merge.
MergeRead(i) ==
    /\ pc[i] = "merge"
    /\ sumLock = None
    /\ sumLock' = i
    /\ me' = [me EXCEPT ![i].copy = sum]
    /\ Go(i, "merging")
    /\ UNCHANGED <<sum, desired, printer, exit, history>>

\* Result.Merge
Merge(r, other) ==
    [differences |-> r.differences \/ other.differences,
     skip |-> r.skip + other.skip,
     unsupported |-> r.unsupported + other.unsupported]

\* Mutant of MergeWrite: the mutex is not given back.
MergeWriteLocked(i) ==
    /\ pc[i] = "merging"
    /\ sum' = Merge(me[i].copy, me[i].result)
    /\ pc' = [pc EXCEPT ![i] = "loop"]
    /\ next' = [next EXCEPT ![i] = @ + 1]
    /\ UNCHANGED <<pending, me, cancelled, err, sumLock, desired, printer, exit, history>>

\* The writes of sum.Merge, and sumLock.Unlock.
MergeWrite(i) ==
    /\ pc[i] = "merging"
    /\ sum' = Merge(me[i].copy, me[i].result)
    /\ sumLock' = None
    /\ pc' = [pc EXCEPT ![i] = "loop"]
    /\ next' = [next EXCEPT ![i] = @ + 1]
    /\ UNCHANGED <<pending, me, cancelled, err, desired, printer, exit, history>>

----------------------------------------------------------------------------
(* ApplyTarget                                                             *)

\* SchemaFromInstance, then StatementModifiersForDir.
Introspect(i) ==
    /\ pc[i] = "introspect"
    /\ \/ "introspect" \in Faults /\ Fail(i, 2)
       \/ "mods" \in Faults /\ Fail(i, 78)
       \/ /\ Go(i, IF Target(i).dir \in RemovePartitioning THEN "strip" ELSE "verify")
          /\ UNCHANGED me
    /\ UNCHANGED <<shared, printer, exit, history>>

\* stripPartitionClauses, on a table that every target of the directory shares,
\* without a lock.  Up to the HasSuffix of UnpartitionedCreateStatement:
StripCheck(i) ==
    /\ pc[i] = "strip"
    /\ LET table == desired[Target(i).dir]
       IN  IF table.partitioning
           THEN /\ me' = [me EXCEPT ![i].suffix = (table.create = "full")]
                /\ Go(i, "stripping")
           ELSE UNCHANGED me /\ Go(i, "verify")
    /\ UNCHANGED <<shared, printer, exit, history>>

\* One partitioning clause less.  A statement that has none loses as many
\* characters of its body.
CutSuffix(create) == IF create = "full" THEN "base" ELSE "cut"

\* ParseCreatePartitioning of a statement finds the clause wherever it is.
WithoutClause(create) == IF create = "full" THEN "base" ELSE create

\* CreateStatement is read a second time to be sliced, and assigned.
StripAssign(i) ==
    /\ pc[i] = "stripping"
    /\ desired' = [desired EXCEPT ![Target(i).dir].create =
                      IF me[i].suffix THEN CutSuffix(@) ELSE WithoutClause(@)]
    /\ Go(i, "stripped")
    /\ UNCHANGED <<me, sum, sumLock, printer, exit, history>>

\* table.Partitioning = nil
StripNil(i) ==
    /\ pc[i] = "stripped"
    /\ desired' = [desired EXCEPT ![Target(i).dir].partitioning = FALSE]
    /\ Go(i, "verify")
    /\ UNCHANGED <<me, sum, sumLock, printer, exit, history>>

\* NewSchemaDiff and VerifyDiff; --brief skips the verification.
Verify(i) ==
    /\ pc[i] = "verify"
    /\ \/ ~Brief /\ "verify" \in Faults /\ Fail(i, 2)
       \/ Go(i, "plan") /\ UNCHANGED me
    /\ UNCHANGED <<shared, printer, exit, history>>

\* How command j takes an object diff.
Differs(d) == d.kind # "noop"
Refused(j, d) == d.kind = "error" \/ (d.kind = "unsafe" /\ ~j.brief)
Accepted(j, d) == Differs(d) /\ ~Refused(j, d) /\ d.kind # "unsupported"
Unsupported(d) == d.kind = "unsupported"

\* The object diffs before the first one that NewDDLStatement refuses.
Reached(j, t) ==
    LET n == Len(j.diffs[t])
        bad == {k \in 1..n : Refused(j, j.diffs[t][k])}
        end == IF bad = {} THEN n ELSE (CHOOSE k \in bad : \A l \in bad : k <= l) - 1
    IN  SubSeq(j.diffs[t], 1, end)

\* The statements of a target none of whose diffs is refused.
Plan(j, t) == Filter(j.diffs[t], LAMBDA d : Accepted(j, d))

\* Mutant of BuildStatements: a refused diff is skipped like an unsupported one.
BuildStatementsGoesOn(i) ==
    /\ pc[i] = "plan"
    /\ LET t == Target(i)
           seen == Diffs[t]
       IN  /\ me' = [me EXCEPT ![i].stmts = Plan(job, t), ![i].result =
                        [differences |-> \E k \in DOMAIN seen : Differs(seen[k]),
                         unsupported |-> Cardinality({k \in DOMAIN seen : Unsupported(seen[k])}),
                         skip |-> Cardinality({k \in DOMAIN seen : Refused(job, seen[k])})]]
           /\ Go(i, "lint")
    /\ UNCHANGED <<shared, printer, exit, history>>

\* The loop over diff.ObjectDiffs().  A refused diff gives up the target, with
\* every object diff counted as skipped; an unsupported one does not.
BuildStatements(i) ==
    /\ pc[i] = "plan"
    /\ LET t == Target(i)
           seen == Reached(job, t)
           refused == Len(seen) < Len(Diffs[t])
       IN  /\ me' = [me EXCEPT ![i].stmts = Plan(job, t), ![i].result =
                        [differences |-> refused \/ \E k \in DOMAIN seen : Differs(seen[k]),
                         unsupported |-> Cardinality({k \in DOMAIN seen : Unsupported(seen[k])}),
                         skip |-> IF refused THEN Len(Diffs[t]) ELSE 0]]
           /\ Go(i, IF refused THEN "merge" ELSE "lint")
    /\ UNCHANGED <<shared, printer, exit, history>>

\* The lint block; --brief switches it off.
Lint(i) ==
    /\ pc[i] = "lint"
    /\ LET t == Target(i)
       IN  \/ ~Brief /\ "lint" \in Faults /\ Fail(i, 78)
           \/ /\ ~Brief /\ t \in LintErrors
              /\ me' = [me EXCEPT ![i].result.skip = @ + Len(Diffs[t])]
              /\ Go(i, "merge")
           \/ /\ Brief \/ t \notin LintErrors
              /\ UNCHANGED me
              /\ Go(i, "print")
    /\ UNCHANGED <<shared, printer, exit, history>>

----------------------------------------------------------------------------
(* processSQL and the printers                                             *)

ClientState(i, d) ==
    [instance |-> i, schema |-> IF d.database THEN "" ELSE Target(i).schema,
     delimiter |-> d.delimiter]

\* A client that is fed the output: it has no schema on a new instance, and takes
\* no USE with a semicolon while its delimiter is another one.
ReadLine(r, line) ==
    CASE line[1] = "instance" -> [r EXCEPT !.instance = line[2], !.schema = ""]
      [] line[1] = "use" ->
            [r EXCEPT !.schema = IF r.delimiter = ";" THEN line[2] ELSE "garbled"]
      [] line[1] = "delimiter" -> [r EXCEPT !.delimiter = line[2]]

\* The printer, with new fields, after a line that the client reads.
Line(p, fields, line) == [last |-> fields, reader |-> ReadLine(p.reader, line)]

\* standardPrinter.Print, stage by stage.  Restore: "DELIMITER ;" before leaving
\* a schema.
Restore(p, cs) ==
    IF p.last.delimiter # ";"
       /\ (cs.instance # p.last.instance \/ cs.schema # p.last.schema)
    THEN Line(p, [p.last EXCEPT !.delimiter = ";"], <<"delimiter", ";">>)
    ELSE p

\* Mutant of SwitchInstance: the schema used on another instance is remembered.
SwitchInstanceKeepsSchema(p, cs) ==
    IF cs.instance # p.last.instance
    THEN Line(p, [p.last EXCEPT !.instance = cs.instance], <<"instance", cs.instance>>)
    ELSE p

SwitchInstance(p, cs) ==
    IF cs.instance # p.last.instance
    THEN Line(p, [p.last EXCEPT !.instance = cs.instance, !.schema = ""],
              <<"instance", cs.instance>>)
    ELSE p

Use(p, cs) ==
    IF cs.schema # p.last.schema /\ cs.schema # ""
    THEN Line(p, [p.last EXCEPT !.schema = cs.schema], <<"use", cs.schema>>)
    ELSE p

Delimit(p, cs) ==
    IF cs.delimiter # p.last.delimiter /\ cs.delimiter # ""
    THEN Line(p, [p.last EXCEPT !.delimiter = cs.delimiter], <<"delimiter", cs.delimiter>>)
    ELSE p

Printed(cs) ==
    Delimit(Use(SwitchInstance(Restore([last |-> last, reader |-> reader], cs), cs), cs), cs)

\* Mutant of PrintBrief: seenInstance is not looked at.
PrintBriefAgain(i) == Append(listed, i)

\* instanceDiffPrinter.Print
PrintBrief(i) == IF i \in ToSet(listed) THEN listed ELSE Append(listed, i)

\* printer.Print of the first statement left, under the printer's mutex; the end
\* of the loop when there is none.
PrintStatement(i) ==
    /\ pc[i] = "print"
    /\ IF me[i].stmts = <<>>
       THEN Go(i, "merge") /\ UNCHANGED printer
       ELSE /\ LET cs == ClientState(i, Head(me[i].stmts))
               IN  IF Brief
                   THEN /\ listed' = PrintBrief(i)
                        /\ UNCHANGED <<last, reader>>
                   ELSE /\ last' = Printed(cs).last
                        /\ reader' = Printed(cs).reader
                        /\ UNCHANGED listed
            /\ Go(i, "execute")
    /\ UNCHANGED <<me, shared, exit, history>>

\* Mutant of Execute: it is given the errgroup's context.
ExecuteCancellable(i) ==
    /\ pc[i] = "execute"
    /\ LET t == Target(i)
           rest == Tail(me[i].stmts)
       IN  IF cancelled
           THEN /\ me' = [me EXCEPT ![i].result.skip = @ + Len(rest) + 1]
                /\ Go(i, "merge")
                /\ UNCHANGED history
           ELSE /\ applied' = IF DryRun THEN applied ELSE
                       [applied EXCEPT ![t] = Append(@, Head(me[i].stmts))]
                /\ me' = [me EXCEPT ![i].stmts = rest]
                /\ Go(i, "print")
                /\ UNCHANGED failed
    /\ UNCHANGED <<shared, printer, exit>>

\* stmt.Execute, unless this is a dry run.  After an error the statement and
\* those behind it are counted as skipped.
Execute(i) ==
    /\ pc[i] = "execute"
    /\ LET t == Target(i)
           rest == Tail(me[i].stmts)
       IN  \/ /\ applied' = IF DryRun THEN applied ELSE
                     [applied EXCEPT ![t] = Append(@, Head(me[i].stmts))]
              /\ me' = [me EXCEPT ![i].stmts = rest]
              /\ Go(i, "print")
              /\ UNCHANGED failed
           \/ /\ ~DryRun /\ "exec" \in Faults
              /\ failed' = failed \cup {t}
              /\ me' = [me EXCEPT ![i].result.skip = @ + Len(rest) + 1]
              /\ Go(i, "merge")
              /\ UNCHANGED applied
    /\ UNCHANGED <<shared, printer, exit>>

----------------------------------------------------------------------------

Goroutine(i) ==
    \/ Loop(i) \/ Introspect(i)
    \/ StripCheck(i) \/ StripAssign(i) \/ StripNil(i)
    \/ Verify(i) \/ BuildStatements(i) \/ Lint(i)
    \/ PrintStatement(i) \/ Execute(i)
    \/ MergeRead(i) \/ MergeWrite(i)

Main == Wait \/ \E i \in Instances : Spawn(i)

Exited == exit # None /\ UNCHANGED vars

Next == Main \/ Exited \/ \E i \in Instances : Goroutine(i)

Spec == Init /\ [][Next /\ UNCHANGED <<job, found>>]_<<vars, job, found>>

\* Goroutines are scheduled fairly, and servers answer or fail.
FairSpec == Spec /\ WF_vars(Main) /\ \A i \in Instances : WF_vars(Goroutine(i))

----------------------------------------------------------------------------
(* Properties                                                              *)

Differences(t) == Filter(Diffs[t], Differs)

\* A command without errors leaves a difference of target t.
LeavesDifference(t) ==
    \E k \in 1..Len(Diffs[t]) : Differs(Diffs[t][k]) /\ (DryRun \/ ~Accepted(job, Diffs[t][k]))

\* "An exit code of 0 will be returned if the operation was fully successful; 1
\* if at least one table could not be updated due to use of unsupported features,
\* or if the --dry-run option was used and differences were found": whatever the
\* goroutines did in whatever order, and whatever went wrong on the way to the
\* targets, 0 and 1 mean that every directory was read and that on no instance a
\* schema the configuration maps to is left with another difference.
ExitCodeIsTrue ==
    /\ exit \in {0, 1} =>
          /\ Unread(job.config) = {}
          /\ ~DryRun => \A t \in Targets : applied[t] = Plan(job, t)
          /\ \A t \in Targets : ~\E k \in 1..Len(Diffs[t]) : Refused(job, Diffs[t][k])
    /\ exit = 0 => ~\E t \in Targets : LeavesDifference(t)
    /\ exit = 1 => \E t \in Targets : LeavesDifference(t)

\* A target is only touched once all its statements were accepted and linted, and
\* they are then run in the order of the diff; a dry run touches nothing.
OnlyAcceptedPlans ==
    \A t \in Targets : applied[t] # <<>> =>
        /\ ~DryRun
        /\ Len(Reached(job, t)) = Len(Diffs[t])
        /\ t \notin LintErrors
        /\ IsPrefix(applied[t], Plan(job, t))

\* The cancellation after an error elsewhere does not cut a target short: a
\* target that is left half done has a statement that failed.
OnlyOwnFailureCutsShort ==
    exit # None => \A t \in Targets \ failed :
        applied[t] \in {<<>>, Plan(job, t)}

\* Without an error, the numbers of the summary account for every difference
\* of a target that was not applied, however the merges of the goroutines interleave.
SkippedIsReported ==
    (exit # None /\ err = 0 /\ ~DryRun) =>
        MapThenSumSet(LAMBDA t : Len(Differences(t)) - Len(applied[t]), Found)
            <= sum.skip + sum.unsupported

\* "prevents interleaving of output from multiple goroutines": whoever printed
\* before, a client that executes the output runs each statement on its instance,
\* in its schema and with its delimiter.
OutputIsRouted ==
    [][\A i \in Instances :
           (pc[i] = "print" /\ pc'[i] = "execute" /\ ~Brief) =>
               LET cs == ClientState(i, Head(me[i].stmts))
               IN  /\ reader'.instance = cs.instance
                   /\ cs.schema \in {"", reader'.schema}
                   /\ cs.delimiter \in {"", reader'.delimiter}]_<<vars, job, found>>

\* Instance i has a difference ...
Differing(i) ==
    \E t \in ToSet(Group[i]) : \E k \in 1..Len(Diffs[t]) : Differs(Diffs[t][k])

\* ... and target t has no statement to print: all that differs is unsupported, or
\* one of the diffs is refused.
NothingToPrint(t) ==
    \/ \A k \in 1..Len(Diffs[t]) : Differs(Diffs[t][k]) => Unsupported(Diffs[t][k])
    \/ \E k \in 1..Len(Diffs[t]) : Refused(job, Diffs[t][k])

\* "Each differing instance is printed only once, even if multiple schema
\* differences are present": unless an error ended the run, --brief lists every
\* instance with a difference once and no other.  It falls short of that ("list of
\* instances with at least one difference") for an instance none of whose targets
\* has a statement, as when its only differences are unsupported; the exit code
\* then is not 0.
BriefListsInstances ==
    (exit # None /\ Brief) =>
        /\ Cardinality(ToSet(listed)) = Len(listed)
        /\ err = 0 => \A i \in Instances :
              /\ i \in ToSet(listed) => Differing(i)
              /\ (Differing(i) /\ i \notin ToSet(listed)) =>
                    exit # 0 /\ \A t \in ToSet(Group[i]) : NothingToPrint(t)

\* "forcibly treat all filesystem definitions as if they didn't have a
\* partitioning clause": stripping the clause leaves the rest of the table's
\* CREATE statement alone.
StrippingKeepsTheTable == \A d \in Dirs : desired[d].create # "cut"

\* The command ends: neither the limit of the errgroup, nor the mutex, nor a
\* cancellation leaves the main goroutine waiting.
Terminates == <>(exit # None)
=============================================================================
