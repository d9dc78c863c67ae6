----------------------------- MODULE TablePush -----------------------------
(***************************************************************************)
(* A table on a server that is pushed again and again until it agrees with *)
(* its definition in the filesystem.  Every push introspects the table,    *)
(* computes the diff, and executes the resulting statements one by one.  A *)
(* push may end between two statements, when one fails or the process      *)
(* dies; the next push then starts from what the server has by then.       *)
(***************************************************************************)
EXTENDS ServerAlter

CONSTANT Cases  \* records of a live table, its desired state and the modifiers

\* What every table has, on a server or in a workspace: the fields above, at
\* least one column, and different names for its columns and for its indexes;
\* only the primary key is called PRIMARY.
IsTable(t) ==
    /\ DOMAIN t = {"cols", "pk", "idxs", "fks", "checks", "attrs", "part", "odd"}
    /\ \A s \in {t.cols, t.idxs, t.checks} : s \in Seq(ToSet(s))
    /\ t.cols # <<>>
    /\ \A s \in {t.cols, t.idxs} : \A m, n \in 1..Len(s) : s[m].name = s[n].name => m = n
    /\ \A c \in ToSet(t.cols) :
          /\ c = [name |-> c.name, type |-> c.type, look |-> c.look, virtual |-> c.virtual]
          /\ c.name \notin {Unpositioned, First} /\ IsType(c.type)
    /\ \A i \in ToSet(t.idxs) :
          "name" \in DOMAIN i /\ i.name # "PRIMARY" /\ i.kind # "primary"
    /\ IsFiniteSet(t.fks)
    /\ {"engine", "autoinc"} \subseteq DOMAIN t.attrs /\ t.attrs.autoinc \in Nat

ASSUME CasesAreTables ==
    \A c \in Cases : /\ IsTable(c.from) /\ IsTable(c.to)
                     /\ {"autoinc", "partitioning", "strictColumns"} \subseteq DOMAIN c.mods

VARIABLES
    live,       \* the table on the server
    base,       \* the table as introspected by the current push
    want,       \* the desired state
    mods,       \* the statement modifiers
    phase,      \* "idle", "run", "done", "refused" or "error"
    plan,       \* the statements of the current push
    next,       \* how many of them have been executed
    full        \* how many pushes went through, counted up to two

vars == <<live, base, want, mods, phase, plan, next, full>>

Init ==
    /\ \E c \in Cases : live = c.from /\ base = c.from /\ want = c.to /\ mods = c.mods
    /\ phase = "idle"
    /\ plan = <<>>
    /\ next = 0
    /\ full = 0

Orders(t) == SetToSeqs(FkNames(t.fks))

\* Introspection, diff, and a statement for each alteration.  One unsupported
\* or forbidden alteration gives up the table.
Prepare ==
    /\ phase # "run"
    /\ \E toOrder \in Orders(want), fromOrder \in Orders(live) :
         LET diff == Diff(live, want, toOrder, fromOrder)
             alters == Alters(diff.clauses)
             stmts == [n \in DOMAIN alters |-> alterStatement(alters[n], want, mods)]
             ok == /\ diff.supported
                   /\ \A n \in DOMAIN alters : ~Forbidden(alters[n], want, mods)
         IN  /\ phase' = IF ok THEN "run" ELSE "refused"
             /\ plan' = IF ok THEN Filter(stmts, LAMBDA s : s # <<>>) ELSE <<>>
    /\ base' = live
    /\ UNCHANGED <<live, want, mods, full>>

\* A push begins.
Plan == Prepare /\ next' = 0

\* The next statement runs on the server, which may refuse it.
Execute ==
    /\ phase = "run"
    /\ next < Len(plan)
    /\ IF Legal(live, plan[next + 1])
         THEN live' = AlterTable(live, plan[next + 1], mods) /\ UNCHANGED phase
         ELSE phase' = "error" /\ UNCHANGED live
    /\ next' = next + 1
    /\ UNCHANGED <<base, want, mods, plan, full>>

\* The push ends early: a statement fails for another reason, or a crash.
Interrupt ==
    /\ phase = "run"
    /\ next < Len(plan)
    /\ phase' = "idle"
    /\ UNCHANGED <<live, base, want, mods, plan, next, full>>

Finish ==
    /\ phase = "run"
    /\ next = Len(plan)
    /\ phase' = "done"
    /\ full' = Min({full + 1, 2})
    /\ UNCHANGED <<live, base, want, mods, plan, next>>

Next == Plan \/ Execute \/ Interrupt \/ Finish

Spec == Init /\ [][Next]_vars

-----------------------------------------------------------------------------
\* Every statement that a diff generates is one that the server accepts, also
\* after a push that ended halfway: SplitAddForeignKeys keeps the dropping and
\* the re-adding of a foreign key apart, SplitConflicts the fulltext indexes,
\* and a moved column is placed behind one that already has its place.
NoIllegalStatement == phase # "error"

\* Differences that no statement can or should remove: how the server names a
\* character set, a tablespace that cannot be hidden again, lists of partitions,
\* and an auto-increment value that has moved on.
SameAttributes(t, u, autoinc) ==
    /\ \A a \in {"engine", "options", "comment"} : t.attrs[a] = u.attrs[a]
    /\ Normalized(t.attrs.charset.collation) = Normalized(u.attrs.charset.collation)
    /\ t.attrs.tablespace = u.attrs.tablespace \/ u.attrs.tablespace = ""
    /\ IF autoinc = "always" THEN t.attrs.autoinc = u.attrs.autoinc
       ELSE autoinc = "increased" => t.attrs.autoinc >= u.attrs.autoinc
    /\ t.part = u.part \/ (ByList(t.part) /\ [t.part EXCEPT !.list = u.part.list] = u.part)

Strict == mods.strictIndexes /\ mods.strictForeignKeys /\ mods.strictColumns /\ mods.strictChecks

Refs(t) == {f.ref : f \in t.fks}

\* The desired indexes, as far as the flavor can hide them.
WantedIndexes ==
    [n \in DOMAIN want.idxs |-> IF mods.hides THEN want.idxs[n]
                                ELSE [want.idxs[n] EXCEPT !.hidden = FALSE]]

\* A push that goes through leaves the desired columns in the desired order,
\* with their looks only if modifications that touch nothing else are emitted.
ColumnsArrive ==
    phase = "done" =>
      /\ Len(live.cols) = Len(want.cols)
      /\ \A n \in DOMAIN live.cols : EquivalentColumns(live.cols[n], want.cols[n])
      /\ mods.strictColumns => live.cols = want.cols

\* A push that goes through with exact-match, or in the workspace of
\* VerifyDiff, leaves exactly the desired table: every column, index and check
\* at its place and every foreign key under its name.  Without exact-match the
\* table may differ in looks and in the order of indexes and checks, and in
\* nothing else; foreign keys may need a second push.
PushedMatches ==
    /\ ColumnsArrive
    /\ phase = "done" =>
         /\ live.pk = want.pk
         /\ ToSet(live.idxs) = ToSet(WantedIndexes) /\ ToSet(live.checks) = ToSet(want.checks)
         /\ full = 2 => Refs(live) = Refs(want)
         /\ Strict =>
              /\ live.idxs = WantedIndexes
              /\ live.fks = want.fks /\ live.checks = want.checks
              /\ mods.partitioning = "modify" => SameAttributes(live, want, mods.autoinc)

\* InnoDB clusters the pushed table by the same index as the desired one,
\* although the order of indexes is only followed with exact-match.
ClusteringKept == phase = "done" => ClusteredIndexKey(live) = ClusteredIndexKey(want)

\* Length of a longest increasing subsequence, by definition.
LongestIncreasing(s) ==
    LET increasing(D) == \A i, j \in D : i < j => s[i] < s[j]
    IN  Max({Cardinality(D) : D \in {E \in SUBSET DOMAIN s : increasing(E)}})

\* No more columns are moved than have to be: all but a longest run of common
\* columns that are in the same order on both sides.
MinimalMoves ==
    phase = "run" =>
      LET old == CommonCols(base.cols, want.cols)
          new == CommonCols(want.cols, base.cols)
          pos(c) == CHOOSE n \in DOMAIN new : new[n].name = c.name
          moves == Filter(FlattenSeq(plan),
                          LAMBDA c : c.op = "ModifyColumn" /\ c.pos # Unpositioned)
      IN  Len(moves) = Len(old) - LongestIncreasing([n \in DOMAIN old |-> pos(old[n])])

\* A push that went through leaves nothing for the next one to do, or for the
\* one after it if foreign keys are compared regardless of their names.
Converges ==
    phase = "run" /\ full = (IF mods.strictForeignKeys THEN 1 ELSE 2) => plan = <<>>

\* The values of a column survive its modification; those that TakenForSafe
\* lists are the ones that ModifyColumn.Unsafe misses.
Survives(old, new) == ValuesFit(old.type, new.type) \/ TakenForSafe(old.type, new.type)

\* What no step may do: without allow-unsafe destroy stored data, that is drop
\* a stored column, give it a type that does not hold every value of the old one
\* or change the storage engine; with partitioning=keep remove or change a
\* partitioning, and with partitioning=remove introduce one; lower the next
\* auto-increment value.
RespectsOptions ==
    /\ ~mods.allowUnsafe =>
         /\ \A c \in ToSet(live.cols) : c.virtual \/
               \E d \in ToSet(live'.cols) : d.name = c.name /\ Survives(c, d)
         /\ live'.attrs.engine = live.attrs.engine
    /\ mods.partitioning = "keep" /\ live.part.method # "" => live'.part = live.part
    /\ mods.partitioning = "remove" => live'.part.method \in {"", live.part.method}
    /\ mods.autoinc = "increased" => live'.attrs.autoinc >= live.attrs.autoinc

\* No sequence of pushes, interrupted or not, does to the table on the server
\* what the options of the push exclude: AlterStatement leaves out such clauses
\* or refuses the statement.  Of the conversions of a column that destroy values,
\* three kinds pass, against "Unsafe returns true if this clause is potentially
\* destructive of data"; the property says that there is no fourth.
OptionsAreRespected == [][RespectsOptions]_vars

\* What exact-match's description promises for pushes without it: the first
\* one that goes through leaves no functional difference in foreign keys.
OnePushSuffices == phase = "done" => Refs(live) = Refs(want)
=============================================================================
