---------------------------- MODULE ServerAlter ----------------------------
(***************************************************************************)
(* The database server, as far as ALTER TABLE is concerned: which lists of *)
(* clauses it accepts and what they make of a table.  External to the      *)
(* repository; the rules are those that the comments in table.go, diff.go  *)
(* and alterclause.go rely on.                                             *)
(***************************************************************************)
EXTENDS TableDiff

Ops(stmt, ops) == Filter(stmt, LAMBDA c : c.op \in ops)

-----------------------------------------------------------------------------
(* Columns that are dropped or moved are taken out and unpositioned       *)
(* modifications made in place; then the rest is placed clause by clause. *)

Placing(c) == c.op = "AddColumn" \/ (c.op = "ModifyColumn" /\ c.pos # Unpositioned)

Moved(stmt) == {c.col.name : c \in ToSet(Ops(stmt, {"DropColumn"}) \o Filter(stmt, Placing))}

KeptColumns(cols, stmt) ==
    LET kept == Filter(cols, LAMBDA c : c.name \notin Moved(stmt))
        new(x) == {c \in ToSet(Ops(stmt, {"ModifyColumn"})) : c.col.name = x}
    IN  [n \in DOMAIN kept |-> IF new(kept[n].name) = {} THEN kept[n]
                               ELSE (CHOOSE c \in new(kept[n].name) : TRUE).col]

\* An AFTER that names no column placed so far is an error.
Place(acc, c) ==
    LET after == SelectInSeq(acc.cols, LAMBDA d : d.name = c.pos)
    IN  IF c.pos = Unpositioned THEN [acc EXCEPT !.cols = Append(@, c.col)]
        ELSE IF c.pos = First THEN [acc EXCEPT !.cols = <<c.col>> \o @]
        ELSE IF after = 0 THEN [acc EXCEPT !.ok = FALSE]
        ELSE [acc EXCEPT !.cols = InsertAt(@, after + 1, c.col)]

NewColumns(cols, stmt) ==
    LET placing == Filter(stmt, Placing)
        placed[n \in 0..Len(placing)] ==
            IF n = 0 THEN [ok |-> TRUE, cols |-> KeptColumns(cols, stmt)]
            ELSE Place(placed[n - 1], placing[n])
    IN  placed[Len(placing)]

-----------------------------------------------------------------------------
(* Indexes that are not dropped stay, new ones are appended, and a stable  *)
(* sort puts unique ones first and fulltext ones last.                     *)

ByKind(idxs) ==
    Filter(idxs, LAMBDA i : i.kind = "unique")
    \o Filter(idxs, LAMBDA i : i.kind \notin {"unique", "fulltext"})
    \o Filter(idxs, LAMBDA i : i.kind = "fulltext")

DroppedIndexes(stmt) == {c.idx.name : c \in ToSet(Ops(stmt, {"DropIndex"}))}

\* A server without hidden indexes reads INVISIBLE as a comment.
NewIndexes(idxs, stmt, hides) ==
    LET kept == Filter(idxs, LAMBDA i : i.name \notin DroppedIndexes(stmt))
        alter(x) == {c.hidden : c \in {d \in ToSet(Ops(stmt, {"AlterIndex"})) : d.idx.name = x}}
        add == Filter(Ops(stmt, {"AddIndex"}), LAMBDA c : c.idx.kind # "primary")
    IN  ByKind([n \in DOMAIN kept |->
                   IF alter(kept[n].name) = {} THEN kept[n]
                   ELSE [kept[n] EXCEPT !.hidden = TRUE \in alter(kept[n].name)]]
               \o [n \in DOMAIN add |-> IF hides THEN add[n].idx ELSE [add[n].idx EXCEPT !.hidden = FALSE]])

NewPrimaryKey(pk, stmt) ==
    LET add == Filter(Ops(stmt, {"AddIndex"}), LAMBDA c : c.idx.kind = "primary")
    IN  IF add # <<>> THEN add[1].idx.parts
        ELSE IF "PRIMARY" \in DroppedIndexes(stmt) THEN "" ELSE pk

-----------------------------------------------------------------------------
(* MariaDB lists checks as they were created, MySQL in the order of their  *)
(* names, which are numbers here.                                          *)

NewChecks(checks, stmt, mariadb) ==
    LET gone == {c.check.name : c \in ToSet(Ops(stmt, {"DropCheck"}))}
        kept == Filter(checks, LAMBDA c : c.name \notin gone)
        alter(x) == {c.enforced : c \in {d \in ToSet(Ops(stmt, {"AlterCheck"})) : d.check.name = x}}
        add == Ops(stmt, {"AddCheck"})
        all == [n \in DOMAIN kept |->
                   IF alter(kept[n].name) = {} THEN kept[n]
                   ELSE [kept[n] EXCEPT !.enforced = TRUE \in alter(kept[n].name)]]
               \o [n \in DOMAIN add |-> add[n].check]
    IN  IF mariadb THEN all
        ELSE [k \in 1..Cardinality(Names(all)) |-> ByName(all, Nth(Names(all), k))]

\* The server has its own name for the character set of a collation.
NewAttrs(attrs, stmt) ==
    LET ignored(c) == \/ c.attr = "charset" /\ Normalized(c.new.collation) = Normalized(attrs.charset.collation)
                      \/ c.attr = "tablespace" /\ c.new = ""
        set(a) == SelectInSeq(stmt, LAMBDA c : c.op = "ChangeAttr" /\ c.attr = a /\ ~ignored(c))
    IN  [a \in DOMAIN attrs |-> IF set(a) = 0 THEN attrs[a] ELSE stmt[set(a)].new]

NewPartitioning(part, stmt) ==
    LET by == Ops(stmt, {"PartitionBy"})
    IN  IF by # <<>> THEN by[1].part
        ELSE IF Ops(stmt, {"RemovePartitioning"}) # <<>>
          THEN [method |-> "", expr |-> "", list |-> ""] ELSE part

NewForeignKeys(fks, stmt) ==
    {f \in fks : \A c \in ToSet(Ops(stmt, {"DropForeignKey"})) : c.fk.name # f.name}
    \cup {c.fk : c \in ToSet(Ops(stmt, {"AddForeignKey"}))}

-----------------------------------------------------------------------------
FkNames(fks) == {f.name : f \in fks}

\* What the server accepts: clauses about what there is and is not, at most
\* one new fulltext index, no ALTER INDEX of an index that is also dropped and
\* no foreign key with the name of one that the table had before.
Legal(t, stmt) ==
    LET ops(o) == ToSet(Ops(stmt, o))
        added == {c.idx.name : c \in ops({"AddIndex"})}
        indexes == Names(t.idxs) \cup (IF t.pk = "" THEN {} ELSE {"PRIMARY"})
        checks == Names(t.checks)
    IN  /\ \A c \in ops({"DropColumn", "ModifyColumn"}) : c.col.name \in Names(t.cols)
        /\ \A c \in ops({"AddColumn"}) : c.col.name \notin Names(t.cols)
        /\ NewColumns(t.cols, stmt).ok /\ NewColumns(t.cols, stmt).cols # <<>>
        /\ DroppedIndexes(stmt) \subseteq indexes
        /\ added \cap (indexes \ DroppedIndexes(stmt)) = {}
        /\ \A c \in ops({"AlterIndex"}) : c.idx.name \in indexes \ DroppedIndexes(stmt)
        /\ Len(Filter(stmt, AddsFulltext)) < 2
        /\ \A c \in ops({"DropForeignKey"}) : c.fk.name \in FkNames(t.fks)
        /\ \A c \in ops({"AddForeignKey"}) : c.fk.name \notin FkNames(t.fks)
        /\ \A c \in ops({"DropCheck", "AlterCheck"}) : c.check.name \in checks
        /\ \A c \in ops({"AddCheck"}) :
              \/ c.check.name \notin checks
              \/ \E d \in ops({"DropCheck"}) : d.check.name = c.check.name

AlterTable(t, stmt, server) ==
    [t EXCEPT !.cols = NewColumns(t.cols, stmt).cols,
              !.pk = NewPrimaryKey(t.pk, stmt),
              !.idxs = NewIndexes(t.idxs, stmt, server.hides),
              !.fks = NewForeignKeys(t.fks, stmt),
              !.checks = NewChecks(t.checks, stmt, server.mariadb),
              !.attrs = NewAttrs(t.attrs, stmt),
              !.part = NewPartitioning(t.part, stmt)]
=============================================================================
