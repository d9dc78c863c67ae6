----------------------------- MODULE TableDiff -----------------------------
(***************************************************************************)
(* Table.Diff of internal/tengo: the clauses that turn one version of a    *)
(* table into another, how they are split over ALTER TABLE statements, and *)
(* which of them the statement modifiers suppress or forbid.               *)
(*                                                                         *)
(* A table is a record:                                                    *)
(*   cols   its columns in order, [name, type, look, virtual]; `type` is   *)
(*          one of ColumnTypes, `look` all that Column.Equivalent ignores  *)
(*   pk     its primary key, "" for none                                   *)
(*   idxs   its secondary indexes in order, [name, kind, parts, hidden];   *)
(*          kind "unique" is a unique index without nullable columns       *)
(*   fks    the set of its foreign keys, [name, ref, rule]; `rule` stands  *)
(*          for the spelling of a rule that ForeignKey.Equivalent ignores  *)
(*   checks its check constraints in order, [name, clause, enforced]       *)
(*   attrs  charset, engine, autoinc (0: no such column), options, comment *)
(*          and tablespace; a collation is <<character set, rest of name>> *)
(*   part   its partitioning, [method, expr, list]; method "" for none     *)
(*   odd    UnsupportedDDL                                                 *)
(***************************************************************************)
EXTENDS Naturals, Sequences, FiniteSets, SequencesExt, Subsequence, ColumnTypes

Names(s) == {e.name : e \in ToSet(s)}
ByName(s, x) == CHOOSE e \in ToSet(s) : e.name = x

-----------------------------------------------------------------------------
(* Columns *)

Unpositioned == ""
First == "FIRST"

EquivalentColumns(old, new) == [old EXCEPT !.look = new.look] = new

DropColumn(c) == [op |-> "DropColumn", col |-> c]
AddColumn(c, pos) == [op |-> "AddColumn", col |-> c, pos |-> pos]
ModifyColumn(old, new, pos) ==
    [op |-> "ModifyColumn", old |-> old, col |-> new, pos |-> pos]

\* The columns of s that t also has, in the order of s.
CommonCols(s, t) == Filter(s, LAMBDA c : c.name \in Names(t))
SameOrder(s, t) == [n \in DOMAIN s |-> s[n].name] = [n \in DOMAIN t |-> t[n].name]

columnDrops(from, to) ==
    LET gone == Filter(from, LAMBDA c : c.name \notin Names(to))
    IN  [n \in DOMAIN gone |-> DropColumn(gone[n])]

\* A new column with old ones behind it is positioned, the others go last.
columnAdds(from, to) ==
    LET existingColsAfter(n) == \E k \in n+1..Len(to) : to[k].name \in Names(from)
        position(n) == IF ~existingColsAfter(n) THEN Unpositioned
                       ELSE IF n = 1 THEN First ELSE to[n - 1].name
        new == Ascending({n \in DOMAIN to : to[n].name \notin Names(from)})
    IN  [k \in DOMAIN new |-> AddColumn(to[new[k]], position(new[k]))]

\* Mutant: only the longest list is ever extended.
ExtendsLongest(lists, comp) ==
    IF comp < lists[1][1] THEN [lists EXCEPT ![1] = <<comp>>]
    ELSE IF comp > Last(Last(lists)) THEN Append(lists, Append(Last(lists), comp))
    ELSE lists

\* One turn of the loop: the j-th list is increasing, has length j and ends
\* as low as such a list can.
Extend(lists, comp) ==
    LET below == {j \in 1..Len(lists) - 1 : comp > Last(lists[j])}
    IN  IF comp < lists[1][1] THEN [lists EXCEPT ![1] = <<comp>>]
        ELSE IF comp > Last(Last(lists)) THEN Append(lists, Append(Last(lists), comp))
        ELSE [lists EXCEPT ![Max(below) + 1] = Append(lists[Max(below)], comp)]

longestIncreasingSubsequence(input) ==
    LET lists[n \in 1..Len(input)] ==
            IF n = 1 THEN << <<input[1]>> >> ELSE Extend(lists[n - 1], input[n])
    IN  IF Len(input) < 2 THEN input ELSE Last(lists[Len(input)])

\* The columns that keep their place while the others are moved around them.
StayPut(from, to) ==
    LET toColPos == [x \in Names(to) |-> CHOOSE n \in DOMAIN to : to[n].name = x]
    IN  ToSet(longestIncreasingSubsequence(
                 [n \in DOMAIN from |-> toColPos[from[n].name]]))

columnModifications(from, to) ==
    LET old == CommonCols(from, to)
        new == CommonCols(to, from)
        stay == IF SameOrder(old, new) THEN DOMAIN new ELSE StayPut(old, new)
        position(n) == IF n \in stay THEN Unpositioned
                       ELSE IF n = 1 THEN First ELSE new[n - 1].name
        changed == Ascending({n \in DOMAIN new :
                                 n \notin stay \/ ByName(from, new[n].name) # new[n]})
    IN  [k \in DOMAIN changed |->
            LET n == changed[k]
            IN  ModifyColumn(ByName(from, new[n].name), new[n], position(n))]

ColumnClauses(from, to) ==
    columnDrops(from, to) \o columnModifications(from, to) \o columnAdds(from, to)

-----------------------------------------------------------------------------
(* Indexes *)

DropIndex(i, reorderOnly) == [op |-> "DropIndex", idx |-> i, reorderOnly |-> reorderOnly]
AddIndex(i, reorderOnly) == [op |-> "AddIndex", idx |-> i, reorderOnly |-> reorderOnly]
AlterIndex(i, hidden, alsoReordering) ==
    [op |-> "AlterIndex", idx |-> i, hidden |-> hidden, alsoReordering |-> alsoReordering]

PrimaryKey(p) == [name |-> "PRIMARY", kind |-> "primary", parts |-> p, hidden |-> FALSE]

PrimaryKeyClauses(from, to) ==
    (IF from \notin {to, ""} THEN <<DropIndex(PrimaryKey(from), FALSE)>> ELSE <<>>)
    \o (IF to \notin {from, ""} THEN <<AddIndex(PrimaryKey(to), FALSE)>> ELSE <<>>)

EqualsIgnoringVisibility(i, j) == [i EXCEPT !.hidden = j.hidden] = j

\* Mutant: an index that only moved does not force the later ones to follow.
NotForMoves(from, to, n) ==
    \E k \in 1..n - 1 : \/ to[k].name \notin Names(from)
                        \/ ~EqualsIgnoringVisibility(ByName(from, to[k].name), to[k])

\* reorderIndexes when the loop arrives at to[n]: one before it is re-created,
\* or is not at the place it had among the remaining ones.
ReorderIndexes(from, to, n) ==
    LET fromIndexStillExist == Filter(from, LAMBDA i : i.name \in Names(to))
    IN  \E k \in 1..n - 1 :
          \/ to[k].name \notin Names(from)
          \/ ~EqualsIgnoringVisibility(ByName(from, to[k].name), to[k])
          \/ fromIndexStillExist[k].name # to[k].name

IndexClausesAt(from, to, n) ==
    LET new == to[n]
        old == ByName(from, new.name)
        reorder == ReorderIndexes(from, to, n)
    IN  IF new.name \notin Names(from) THEN <<AddIndex(new, FALSE)>>
        ELSE IF ~EqualsIgnoringVisibility(old, new)
          THEN <<DropIndex(old, FALSE), AddIndex(new, FALSE)>>
        ELSE (IF old.hidden # new.hidden
                THEN <<AlterIndex(old, new.hidden, reorder)>> ELSE <<>>)
             \o (IF reorder THEN <<DropIndex(old, TRUE), AddIndex(new, TRUE)>> ELSE <<>>)

IndexClauses(from, to) ==
    LET gone == Filter(from, LAMBDA i : i.name \notin Names(to))
    IN  [n \in DOMAIN gone |-> DropIndex(gone[n], FALSE)]
        \o FlattenSeq([n \in DOMAIN to |-> IndexClausesAt(from, to, n)])

\* The index by which InnoDB clusters a table: the primary key, or else the
\* first unique one.
ClusteredIndexKey(t) ==
    IF t.attrs.engine # "InnoDB" THEN ""
    ELSE IF t.pk # "" THEN "PRIMARY"
    ELSE LET n == SelectInSeq(t.idxs, LAMBDA i : i.kind = "unique")
         IN  IF n = 0 THEN "" ELSE t.idxs[n].name

-----------------------------------------------------------------------------
(* Foreign keys, kept in Go maps: `order` is the order of an iteration *)

DropForeignKey(f, cosmeticOnly) == [op |-> "DropForeignKey", fk |-> f, cosmeticOnly |-> cosmeticOnly]
AddForeignKey(f, cosmeticOnly) == [op |-> "AddForeignKey", fk |-> f, cosmeticOnly |-> cosmeticOnly]

EquivalentForeignKeys(f, g) == f.ref = g.ref

\* Mutant: any foreign key with a new name is taken for a renamed one.
RenamedIfAny(f, others) == others # {}

fkChangeCosmeticOnly(f, others) == \E g \in others : EquivalentForeignKeys(f, g)

ForeignKeyClauses(from, to, toOrder, fromOrder) ==
    LET named(s, x) == CHOOSE f \in s : f.name = x
        names(s) == {f.name : f \in s}
        new == Filter(toOrder, LAMBDA x : x \in names(to) \ names(from))
        old == Filter(fromOrder, LAMBDA x : x \in names(from) /\ named(from, x) \notin to)
        clauses(x) ==
          LET f == named(from, x)
              same == EquivalentForeignKeys(f, named(to, x))
          IN  IF x \notin names(to)
                THEN <<DropForeignKey(f, fkChangeCosmeticOnly(f, to))>>
                ELSE <<DropForeignKey(f, same), AddForeignKey(named(to, x), same)>>
    IN  [n \in DOMAIN new |->
            AddForeignKey(named(to, new[n]), fkChangeCosmeticOnly(named(to, new[n]), from))]
        \o FlattenSeq([n \in DOMAIN old |-> clauses(old[n])])

-----------------------------------------------------------------------------
(* Check constraints *)

DropCheck(c, reorderOnly) == [op |-> "DropCheck", check |-> c, reorderOnly |-> reorderOnly]
AddCheck(c, reorderOnly) == [op |-> "AddCheck", check |-> c, reorderOnly |-> reorderOnly]
AlterCheck(c, enforced) == [op |-> "AlterCheck", check |-> c, enforced |-> enforced]

\* reorderChecks at to[n]; an altered check does not set it.
ReorderChecks(from, to, n) ==
    LET fromCheckStillExist == Filter(from, LAMBDA c : c.name \in Names(to))
        recreated(k) == \/ to[k].name \notin Names(from)
                        \/ ByName(from, to[k].name).clause # to[k].clause
        altered(k) == ~recreated(k) /\ ByName(from, to[k].name).enforced # to[k].enforced
    IN  \E k \in 1..n - 1 :
          \/ recreated(k)
          \/ ~altered(k) /\ fromCheckStillExist[k].name # to[k].name

CheckClausesAt(from, to, n) ==
    LET new == to[n]
        old == ByName(from, new.name)
    IN  IF new.name \notin Names(from) THEN <<AddCheck(new, FALSE)>>
        ELSE IF old.clause # new.clause THEN <<DropCheck(old, FALSE), AddCheck(new, FALSE)>>
        ELSE IF old.enforced # new.enforced THEN <<AlterCheck(old, new.enforced)>>
        ELSE IF ReorderChecks(from, to, n) THEN <<DropCheck(old, TRUE), AddCheck(new, TRUE)>>
        ELSE <<>>

CheckClauses(from, to) ==
    LET gone == Filter(from, LAMBDA c : c.name \notin Names(to))
    IN  [n \in DOMAIN gone |-> DropCheck(gone[n], FALSE)]
        \o FlattenSeq([n \in DOMAIN to |-> CheckClausesAt(from, to, n)])

-----------------------------------------------------------------------------
(* Attributes of the table and partitioning *)

ChangeAttr(a, old, new) == [op |-> "ChangeAttr", attr |-> a, old |-> old, new |-> new]
PartitionBy(p, rePartition) == [op |-> "PartitionBy", part |-> p, rePartition |-> rePartition]
RemovePartitioning == [op |-> "RemovePartitioning"]
ModifyPartitions == [op |-> "ModifyPartitions"]

\* The next auto-increment value matters only to a table that has one.
AttributeClauses(from, to, attrs) ==
    LET changed == Filter(attrs, LAMBDA a : /\ from[a] # to[a]
                                            /\ a = "autoinc" => to[a] # 0)
    IN  [n \in DOMAIN changed |-> ChangeAttr(changed[n], from[changed[n]], to[changed[n]])]

ByList(p) == p.method \in {"RANGE", "LIST"}

\* TablePartitioning.Diff; only lists of ranges or values may differ.
PartitionClauses(from, to) ==
    IF from = to THEN <<>>
    ELSE IF from.method = "" THEN <<PartitionBy(to, FALSE)>>
    ELSE IF to.method = "" THEN <<RemovePartitioning>>
    ELSE IF from.method # to.method \/ from.expr # to.expr THEN <<PartitionBy(to, TRUE)>>
    ELSE IF ByList(from) THEN <<ModifyPartitions>>
    ELSE <<>>

PartitionsSupported(from, to) ==
    [from EXCEPT !.list = to.list] = to => from = to \/ ByList(from)

-----------------------------------------------------------------------------
(* The diff of two tables *)

DiffClauses(from, to, toOrder, fromOrder) ==
    AttributeClauses(from.attrs, to.attrs, <<"charset">>)
    \o ColumnClauses(from.cols, to.cols)
    \o PrimaryKeyClauses(from.pk, to.pk)
    \o IndexClauses(from.idxs, to.idxs)
    \o ForeignKeyClauses(from.fks, to.fks, toOrder, fromOrder)
    \o CheckClauses(from.checks, to.checks)
    \o AttributeClauses(from.attrs, to.attrs,
                        <<"engine", "autoinc", "options", "comment", "tablespace">>)
    \o PartitionClauses(from.part, to.part)

\* Diff's clauses and whether the difference is supported.
Diff(from, to, toOrder, fromOrder) ==
    LET clauses == DiffClauses(from, to, toOrder, fromOrder)
    IN  IF from = to THEN [clauses |-> <<>>, supported |-> TRUE]
        ELSE IF from.odd \/ to.odd THEN [clauses |-> <<>>, supported |-> FALSE]
        ELSE [clauses |-> clauses,
              supported |-> PartitionsSupported(from.part, to.part) /\ clauses # <<>>]

\* Mutant: the additions stay with the other clauses.
KeepsForeignKeys(clauses) == <<clauses, <<>> >>

SplitAddForeignKeys(clauses) ==
    <<Filter(clauses, LAMBDA c : c.op # "AddForeignKey"),
      Filter(clauses, LAMBDA c : c.op = "AddForeignKey")>>

AddsFulltext(c) == c.op = "AddIndex" /\ c.idx.kind = "fulltext"

\* Every addition of a fulltext index but the first becomes a statement.
SplitConflicts(clauses) ==
    LET first == SelectInSeq(clauses, AddsFulltext)
        separate == {n \in DOMAIN clauses : AddsFulltext(clauses[n]) /\ n # first}
    IN  <<Pick(clauses, DOMAIN clauses \ separate)>>
        \o Pick([n \in DOMAIN clauses |-> <<clauses[n]>>], separate)

\* compareTables for a table on both sides: additions of foreign keys last.
Alters(clauses) ==
    LET split == SplitAddForeignKeys(clauses)
    IN  (IF split[1] = <<>> THEN <<>> ELSE SplitConflicts(split[1]))
        \o (IF split[2] = <<>> THEN <<>> ELSE <<split[2]>>)

-----------------------------------------------------------------------------
(* Statement modifiers *)

\* Mutant: the modes of partitioning are not looked at.
EmitsPartitions(c, mods) == TRUE

EmitsPartitioning(c, mods) ==
    CASE c.op = "PartitionBy" -> /\ mods.partitioning # "remove"
                                 /\ c.rePartition => mods.partitioning # "keep"
      [] c.op = "RemovePartitioning" -> mods.partitioning # "keep"
      [] c.op = "ModifyPartitions" -> FALSE

\* Mutant: a character set that is only named differently is changed.
EmitsCharsetNames(c, mods) ==
    CASE c.attr = "autoinc" ->
            (CASE mods.autoinc = "ignore" -> FALSE
               [] mods.autoinc = "increased" -> c.old < c.new
               [] mods.autoinc = "already" -> c.old > 1
               [] mods.autoinc = "always" -> TRUE)
      [] c.attr = "tablespace" -> c.new # ""
      [] OTHER -> TRUE

\* "utf8mb3" is the later name of "utf8", also at the beginning of a collation.
Normalized(collation) ==
    IF collation[1] = "utf8" THEN <<"utf8mb3", collation[2]>> ELSE collation

EmitsAttr(c, mods) ==
    CASE c.attr = "charset" -> Normalized(c.old.collation) # Normalized(c.new.collation)
      [] c.attr = "autoinc" ->
            (CASE mods.autoinc = "ignore" -> FALSE
               [] mods.autoinc = "increased" -> c.old < c.new
               [] mods.autoinc = "already" -> c.old > 1
               [] mods.autoinc = "always" -> TRUE)
      [] c.attr = "tablespace" -> c.new # ""
      [] OTHER -> TRUE

\* An index is not altered if it is also re-created, or if the flavor knows
\* neither invisible nor ignored indexes.
EmitsIndex(c, mods) ==
    IF c.op = "AlterIndex" THEN ~(c.alsoReordering /\ mods.strictIndexes) /\ mods.hides
                           ELSE mods.strictIndexes \/ ~c.reorderOnly

\* Clause(mods) # "".
Emitted(c, mods) ==
    CASE c.op = "ModifyColumn" -> \/ mods.strictColumns
                                  \/ c.pos # Unpositioned
                                  \/ ~EquivalentColumns(c.old, c.col)
      [] c.op \in {"AddIndex", "DropIndex", "AlterIndex"} -> EmitsIndex(c, mods)
      [] c.op \in {"AddForeignKey", "DropForeignKey"} ->
            mods.strictForeignKeys \/ ~c.cosmeticOnly
      [] c.op \in {"AddCheck", "DropCheck"} ->
            c.reorderOnly => mods.strictChecks /\ mods.mariadb
      [] c.op = "ChangeAttr" -> EmitsAttr(c, mods)
      [] c.op \in {"PartitionBy", "RemovePartitioning", "ModifyPartitions"} ->
            EmitsPartitioning(c, mods)
      [] OTHER -> TRUE

\* Mutant: only dropping a column is unsafe.
OnlyDropsAreUnsafe(c) == c.op = "DropColumn" /\ ~c.col.virtual

\* What a virtual column shows is not stored.
Unsafe(c) ==
    \/ c.op = "DropColumn" /\ ~c.col.virtual
    \/ c.op = "ModifyColumn" /\ ~c.old.virtual /\ UnsafeConversion(c.old.type, c.col.type)
    \/ c.op = "ChangeAttr" /\ c.attr = "engine"

\* Mutant: the order of the indexes never matters.
NeverForced(to, mods) == mods

\* Without a primary key the order of the unique indexes matters to InnoDB.
ForceIndexOrder(to, mods) ==
    IF ClusteredIndexKey(to) \notin {"", "PRIMARY"}
      THEN [mods EXCEPT !.strictIndexes = TRUE] ELSE mods

\* The clauses that alterStatement writes; none for the empty string.
alterStatement(clauses, to, mods) ==
    Filter(clauses, LAMBDA c : Emitted(c, ForceIndexOrder(to, mods)))

Forbidden(clauses, to, mods) ==
    /\ ~mods.allowUnsafe
    /\ alterStatement(clauses, to, mods) # <<>>
    /\ \E n \in DOMAIN clauses : Unsafe(clauses[n])
=============================================================================
