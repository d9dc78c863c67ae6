------------------------------ MODULE TableText ------------------------------
(***************************************************************************)
(* What introspection makes of one table: the rows the server's            *)
(* information_schema shows of it, the text of SHOW CREATE TABLE, the fix-  *)
(* up functions that take from the text what the rows hide, mangle, cut    *)
(* short or reorder, and the comparison that decides whether the program   *)
(* supports the table (internal/tengo/introspect.go, and the Definition     *)
(* methods of table.go, column.go, index.go, check.go and partition.go).   *)
(*                                                                         *)
(* A table is a record with the fields of the Go struct Table:             *)
(*   coll, opts, tspace, auto   collation, create options, TABLESPACE,     *)
(*                              next AUTO_INCREMENT                        *)
(*   cols    sequence of [name, type, coll, force, gen, dflt, comp, check] *)
(*   pk      the primary key; idx sequence of [name, type, on, expr,       *)
(*           parser]; fks sequence of [name, on]                           *)
(*   checks  sequence of [name, clause, enforced]                          *)
(*   part    [method, algo, list, parts], parts of [name, values, dir]     *)
(* "" is Go's empty string, a part with method "" the nil Partitioning.    *)
(* What clauses look like is left out: a statement is the record of its    *)
(* clauses, a line of it the record of a definition. Tables are InnoDB.    *)
(***************************************************************************)
EXTENDS Integers, Sequences, FiniteSets, FiniteSetsExt, SequencesExt

CONSTANTS
  Special,   \* expressions that information_schema mangles
  Long       \* CHECK clauses of more than 64 bytes; they begin alike

(* The flavors told apart: [dict] MySQL 8.0's data dictionary, [generated] *)
(* MySQL 5.7 or later, [percona] Percona's column compression, [maria]     *)
(* MariaDB, [checks] CHECK constraints in information_schema, [sorted]     *)
(* foreign keys in SHOW CREATE TABLE sorted by name.                       *)
MySQL55 == [dict |-> FALSE, generated |-> FALSE, percona |-> FALSE,
            maria |-> FALSE, checks |-> FALSE, sorted |-> FALSE]
Percona57 == [MySQL55 EXCEPT !.generated = TRUE, !.percona = TRUE, !.sorted = TRUE]
Percona80 == [Percona57 EXCEPT !.dict = TRUE, !.checks = TRUE, !.sorted = FALSE]
MariaDB == [MySQL55 EXCEPT !.maria = TRUE, !.checks = TRUE, !.sorted = TRUE]

Names(seq) == {seq[n].name : n \in DOMAIN seq}
ByName(seq, name) == SelectSeq(seq, LAMBDA x : x.name = name)[1]

-----------------------------------------------------------------------------
(* The statements: SHOW CREATE TABLE, and what the program would write.    *)

ColumnDefinition(c, coll) ==
  [name |-> c.name, type |-> c.type, gen |-> c.gen, dflt |-> c.dflt,
   comp |-> c.comp, check |-> c.check,
   charset |-> IF c.coll # coll \/ c.force THEN c.coll ELSE ""]

(* An explicit list unless all that the partitions have is their number.   *)
PartitionList(p) ==
  LET onlyCounted == \A n \in DOMAIN p.parts :
                       /\ p.parts[n].values = "" /\ p.parts[n].dir = ""
                       /\ p.parts[n].name = <<"p0", "p1", "p2">>[n]
  IN  CASE p.list # "default" -> p.list
        [] p.list = "default" /\ onlyCounted -> "count"
        [] OTHER -> "explicit"

PartitioningDefinition(p) ==
  IF p.method = "" THEN [by |-> "", algo |-> "", list |-> "none", count |-> 0, parts |-> <<>>]
  ELSE [by |-> p.method, algo |-> p.algo, list |-> PartitionList(p),
        count |-> IF PartitionList(p) = "count" THEN Len(p.parts) ELSE 0,
        parts |-> IF PartitionList(p) = "explicit" THEN p.parts ELSE <<>>]

GeneratedCreateStatement(t) ==
  [cols |-> [n \in DOMAIN t.cols |-> ColumnDefinition(t.cols[n], t.coll)],
   pk |-> t.pk, idx |-> t.idx, fks |-> t.fks, checks |-> t.checks,
   tspace |-> t.tspace, auto |-> IF t.auto > 1 THEN t.auto ELSE 0,
   coll |-> t.coll, opts |-> t.opts, part |-> PartitioningDefinition(t.part)]

(* The lines of the statement: one opens it, one holds the options.        *)
LineCount(text) ==
  2 + Len(text.cols) + (IF text.pk = "" THEN 0 ELSE 1) + Len(text.idx)
    + Len(text.fks) + Len(text.checks)
    + (IF text.part.by = "" THEN 0 ELSE 1)
    + (IF text.part.list = "count" THEN 1 ELSE Len(text.part.parts))

-----------------------------------------------------------------------------
(* information_schema, as the queries below read it.                       *)

(* An expression as information_schema shows it from MySQL 5.7 on.         *)
Mangled(fl, e) == IF fl.generated /\ e \in Special THEN "?" ELSE e

(* MariaDB cuts a CHECK clause after 64 bytes.                             *)
Cut(clause) == IF clause \in Long THEN "64 bytes" ELSE clause

(* The orders in which rows may come back: with the data dictionary, any.  *)
Orders(fl, seq) == IF fl.dict THEN SetToSeqs(Range(seq)) ELSE {seq}

queryTables(fl, d) ==
  {[coll |-> d.coll, opts |-> o, partitioned |-> d.part.method # ""] : o \in Orders(fl, d.opts)}

(* In MariaDB the compression of a column is part of its type.             *)
queryColumns(fl, d) ==
  [n \in DOMAIN d.cols |->
     [d.cols[n] EXCEPT !.force = FALSE, !.check = "", !.gen = Mangled(fl, @),
                       !.dflt = Mangled(fl, @), !.comp = IF fl.maria THEN @ ELSE ""]]

queryIndexes(fl, d) ==
  {[pk |-> d.pk,
    idx |-> [n \in DOMAIN o |-> [o[n] EXCEPT !.parser = "", !.expr = Mangled(fl, @)]]] :
     o \in Orders(fl, d.idx)}

queryForeignKeys(d) == SetToSortSeq(Range(d.fks), LAMBDA x, y : x.name < y.name)

(* MySQL: name and enforcement. MariaDB: every CHECK, the ones inside a    *)
(* column definition under the name of the column.                         *)
queryChecks(fl, d) ==
  IF fl.maria
  THEN LET inline == SelectSeq(d.cols, LAMBDA c : c.check # "")
       IN  [n \in DOMAIN inline |->
              [name |-> inline[n].name, clause |-> Cut(inline[n].check), enforced |-> TRUE]]
           \o [n \in DOMAIN d.checks |-> [d.checks[n] EXCEPT !.clause = Cut(@)]]
  ELSE [n \in DOMAIN d.checks |-> [d.checks[n] EXCEPT !.clause = ""]]

queryPartitions(d) ==
  [d.part EXCEPT !.algo = "", !.list = "default",
                 !.parts = [n \in DOMAIN @ |-> [@[n] EXCEPT !.dir = ""]]]

-----------------------------------------------------------------------------
(* The fix-up functions, in the order of querySchemaTables.                *)

(* HASH and KEY stand for their LINEAR variants, too: the code looks at     *)
(* how the method ends.                                                    *)
fixPartitioningEdgeCases(p, text) ==
  LET key  == p.method = "KEY"
      counted == p.method \in {"HASH", "KEY"}
      count == text.part.list = "count" /\ text.part.count = Len(p.parts)
      list == CASE counted /\ (count \/ text.part.list = "explicit") -> text.part.list
                [] counted /\ ~count /\ text.part.list # "explicit" /\ Len(p.parts) = 1 -> "none"
                [] OTHER -> p.list
      Dir(q) == IF list \in {"default", "explicit"} /\ q.name \in Names(text.part.parts)
                THEN ByName(text.part.parts, q.name).dir ELSE ""
  IN  IF p.method = "" THEN p
      ELSE [p EXCEPT !.list = list,
                     !.algo = IF key /\ text.part.by = p.method THEN text.part.algo ELSE @,
                     !.parts = [n \in DOMAIN @ |-> [@[n] EXCEPT !.dir = Dir(p.parts[n])]]]

(* The value in the text, or 1 for a table that counts and shows none.     *)
NextAutoIncrement(cols, text) ==
  CASE text.auto > 0 -> text.auto
    [] text.auto = 0 /\ (\E n \in DOMAIN cols : cols[n].type = "serial") -> 1
    [] OTHER -> 0

(* Slot n gets the entry that line n of the text names. Not called when    *)
(* Unorderable: a slot would stay nil, or a line find no slot.             *)
InTextOrder(seq, lines) == [n \in DOMAIN lines |-> ByName(seq, lines[n].name)]
Unorderable(seq, lines) == Len(seq) > 1 /\ Names(seq) # Names(lines)

fixIndexOrder(fl, idx, text) ==
  IF fl.dict /\ Len(idx) > 1 THEN InTextOrder(idx, text.idx) ELSE idx

fixForeignKeyOrder(fl, fks, text) ==
  IF ~fl.sorted /\ Len(fks) > 1 THEN InTextOrder(fks, text.fks) ELSE fks

(* The options of the text, if the rest of its last line is as expected.   *)
(* The line is recognised by how it begins, which a TABLESPACE changes.    *)
fixCreateOptionsOrder(fl, rows, text) ==
  IF /\ fl.dict /\ Len(rows.opts) > 1 /\ text.opts # <<>>
     /\ text.tspace = "" /\ rows.coll = text.coll
  THEN text.opts ELSE rows.opts

(* Looks at the line where column n should be: TRUE if it shows a charset  *)
(* that is the table's.                                                    *)
fixShowCharSets(fl, c, n, coll, text) ==
  /\ fl.dict /\ c.coll # "" /\ c.coll = coll
  /\ n \in DOMAIN text.cols /\ text.cols[n].charset = c.coll

(* The three below look for the line of the column by its name. When the   *)
(* definition is in the text already, the line has the value already.      *)
fixGenerationExpr(fl, c, line) ==
  IF fl.generated /\ c.gen # "" /\ line.gen # "" THEN line.gen ELSE c.gen

fixPerconaColCompression(fl, c, line) ==
  IF fl.percona /\ line.comp # "" THEN line.comp ELSE c.comp

fixDefaultExpression(fl, c, line) ==
  IF fl.dict /\ c.dflt # "" /\ line.dflt # "" THEN line.dflt ELSE c.dflt

NoLine == [gen |-> "", comp |-> "", dflt |-> ""]
Line(text, name) == IF name \in Names(text.cols) THEN ByName(text.cols, name) ELSE NoLine

FixColumn(fl, c, n, coll, text) ==
  [c EXCEPT !.force = fixShowCharSets(fl, c, n, coll, text),
            !.gen   = fixGenerationExpr(fl, c, Line(text, c.name)),
            !.comp  = fixPerconaColCompression(fl, c, Line(text, c.name)),
            !.dflt  = fixDefaultExpression(fl, c, Line(text, c.name))]

(* The line that is the definition of i, but for the hidden field.         *)
fixFulltextIndexParsers(i, text) ==
  LET lines == {l \in Range(text.idx) : [l EXCEPT !.parser = ""] = i}
  IN  IF lines = {} THEN i ELSE CHOOSE l \in lines : TRUE

fixIndexExpression(fl, i, text) ==
  LET lines == {l \in Range(text.idx) : l.expr # "" /\ [l EXCEPT !.expr = i.expr] = i}
  IN  IF lines = {} \/ ~fl.dict THEN i ELSE CHOOSE l \in lines : TRUE

FixIndex(fl, i, text) ==
  CASE i.type = "FULLTEXT" -> fixFulltextIndexParsers(i, text)
    [] i.expr # "" /\ i.type # "FULLTEXT" -> fixIndexExpression(fl, i, text)
    [] OTHER -> i

(* The clause of the first line with this name that could be the one cut.  *)
Whole(k, text) ==
  LET inline == SelectSeq(text.cols, LAMBDA c : c.name = k.name /\ c.check \in Long)
      named  == SelectSeq(text.checks, LAMBDA c : c.name = k.name /\ c.clause \in Long)
  IN  CASE k.clause # Cut(CHOOSE c \in Long : TRUE) -> k
        [] inline # <<>> -> [k EXCEPT !.clause = inline[1].check]
        [] inline = <<>> /\ named # <<>> -> [k EXCEPT !.clause = named[1].clause]
        [] OTHER -> k

(* In MariaDB, one that has the name of a column and no line of its own.   *)
Inline(k, cols, text) == k.name \in Names(cols) /\ k \notin Range(text.checks)

(* In MySQL the clause comes from the line with the name and enforcement.  *)
WithClause(k, text) ==
  IF \E l \in Range(text.checks) : l.name = k.name /\ l.enforced = k.enforced
  THEN [k EXCEPT !.clause = ByName(text.checks, k.name).clause] ELSE k

fixChecks(fl, checks, cols, text) ==
  LET whole == [n \in DOMAIN checks |-> IF fl.maria THEN Whole(checks[n], text)
                                                  ELSE WithClause(checks[n], text)]
  IN  [keep |-> IF fl.maria THEN SelectSeq(whole, LAMBDA k : ~Inline(k, cols, text)) ELSE whole,
       inline |-> IF fl.maria THEN SelectSeq(whole, LAMBDA k : Inline(k, cols, text)) ELSE <<>>]

InlineCheck(c, inline) ==
  IF c.name \in Names(inline) THEN [c EXCEPT !.check = ByName(Reverse(inline), c.name).clause] ELSE c

(* The states of the rows in which assembling the table does not return:   *)
(* an index or a foreign key without an entry, a column without a line, a  *)
(* compressed column that is not among the columns.                        *)
Panics(fl, rows, text) ==
  \/ fl.dict /\ Unorderable(rows.idx, text.idx)
  \/ ~fl.sorted /\ Unorderable(rows.fks, text.fks)
  \/ fl.dict /\ \E n \in DOMAIN rows.cols : rows.cols[n].coll # "" /\ n >= LineCount(text)
  \/ fl.percona /\ \E l \in Range(text.cols) : l.comp # "" /\ l.name \notin Names(rows.cols)

(* The table that querySchemaTables puts together from its rows and text.  *)
Assemble(fl, rows, text) ==
  LET checks == fixChecks(fl, rows.checks, rows.cols, text)
      idx    == fixIndexOrder(fl, rows.idx, text)
      cols   == [n \in DOMAIN rows.cols |-> FixColumn(fl, rows.cols[n], n, rows.coll, text)]
  IN  [coll   |-> rows.coll,
       opts   |-> fixCreateOptionsOrder(fl, rows, text),
       tspace |-> text.tspace,
       auto   |-> NextAutoIncrement(rows.cols, text),
       cols   |-> [n \in DOMAIN cols |-> InlineCheck(cols[n], checks.inline)],
       pk     |-> rows.pk,
       idx    |-> [n \in DOMAIN idx |-> FixIndex(fl, idx[n], text)],
       fks    |-> fixForeignKeyOrder(fl, rows.fks, text),
       checks |-> checks.keep,
       part   |-> fixPartitioningEdgeCases(rows.part, text)]

UnsupportedIgnoringForeignKeys(t, text) ==
  GeneratedCreateStatement([t EXCEPT !.fks = <<>>]) # [text EXCEPT !.fks = <<>>]
UnsupportedDDL(t, text) == GeneratedCreateStatement(t) # text
=============================================================================
