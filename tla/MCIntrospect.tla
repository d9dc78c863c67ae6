---------------------------- MODULE MCIntrospect -----------------------------
(***************************************************************************)
(* Introspect on a small server. The definitions are chosen so that, per   *)
(* flavor, every fix-up function has something to fix; that two of them    *)
(* differ only in what information_schema hides; and that two of them      *)
(* differ in the number and names of columns, indexes and foreign keys.    *)
(***************************************************************************)
EXTENDS Introspect

Col(name, type, coll) ==
  [name |-> name, type |-> type, coll |-> coll, force |-> FALSE,
   gen |-> "", dflt |-> "", comp |-> "", check |-> ""]
Idx(name, on) == [name |-> name, type |-> "BTREE", on |-> on, expr |-> "", parser |-> ""]
FK(name) == [name |-> name, on |-> "id"]
Part(name, dir) == [name |-> name, values |-> "", dir |-> dir]
Check(name, clause) == [name |-> name, clause |-> clause, enforced |-> TRUE]
Unpartitioned == [method |-> "", algo |-> "", list |-> "default", parts |-> <<>>]

Plain ==
  [coll |-> "u", opts |-> <<>>, tspace |-> "", auto |-> 1, cols |-> <<Col("id", "serial", "")>>,
   pk |-> "id", idx |-> <<>>, fks |-> <<>>, checks |-> <<>>, part |-> Unpartitioned]

(* MySQL 8.0: two indexes and two foreign keys out of order, hidden        *)
(* expressions, parser, clause and charset; then the hidden parts changed. *)
Rich80 ==
  [Plain EXCEPT
     !.opts = <<"o1", "o2">>, !.auto = 5,
     !.cols = <<Col("id", "serial", ""), [Col("b", "text", "u") EXCEPT !.force = TRUE, !.gen = "e1"],
                [Col("c", "blob", "") EXCEPT !.dflt = "e1", !.comp = "z1"]>>,
     !.idx = <<[Idx("k2", "") EXCEPT !.expr = "e1"],
               [Idx("k1", "b") EXCEPT !.type = "FULLTEXT", !.parser = "ngram"]>>,
     !.fks = <<FK(2), FK(1)>>, !.checks = <<Check("c1", "x")>>]
Hidden80 ==
  [Rich80 EXCEPT
     !.opts = <<"o2", "o1">>, !.auto = 1, !.checks = <<Check("c1", "y")>>,
     !.cols[2].gen = "e2", !.cols[3].dflt = "e2", !.cols[3].comp = "z2",
     !.idx[1].expr = "e2", !.idx[2].parser = "mecab", !.fks = <<FK(1), FK(2)>>]
(* In a general tablespace, with two create options.                       *)
Poor80 ==
  [Plain EXCEPT !.tspace = "ts", !.opts = <<"o1", "o2">>,
                !.idx = <<Idx("k1", "b"), Idx("k3", "id")>>, !.fks = <<FK(1)>>,
                !.cols = <<Col("b", "text", "v")>>, !.auto = 0, !.pk = ""]

By(method, list, algo, parts) == [method |-> method, algo |-> algo, list |-> list, parts |-> parts]
Parted == [Plain EXCEPT !.part = By("KEY", "explicit", "1", <<Part("p0", "d1"), Part("p1", "")>>)]
Parted2 == [Plain EXCEPT !.part = By("HASH", "none", "", <<Part("p0", "")>>)]
Parted3 == [Plain EXCEPT !.part = By("KEY", "count", "", <<Part("p0", ""), Part("p1", "")>>)]
ByRange ==
  [Plain EXCEPT !.coll = "v",
     !.part = [method |-> "RANGE", algo |-> "", list |-> "default",
               parts |-> <<[Part("p0", "d1") EXCEPT !.values = "9"]>>]]

(* MariaDB: a CHECK in a column, one of the same name, and long clauses.   *)
Checked ==
  [Plain EXCEPT !.cols = <<[Col("id", "serial", "") EXCEPT !.check = "long1", !.comp = "C"],
                           [Col("b", "text", "v") EXCEPT !.check = "x"]>>,
                !.checks = <<Check("c1", "long2"), Check("b", "y")>>, !.fks = <<FK(1), FK(2)>>]
Checked2 == [Checked EXCEPT !.cols[1].check = "long2", !.checks[1].clause = "long1"]

MCTableDefs(fl) ==
  CASE fl.dict -> {Rich80, Hidden80, Poor80}
    [] fl = Percona57 -> {Parted, Parted2, Parted3, ByRange}
    [] fl.maria -> {Checked, Checked2, Plain}
    [] OTHER -> {[Plain EXCEPT !.fks = <<FK(2), FK(1)>>], [Plain EXCEPT !.fks = <<FK(1), FK(2)>>],
                 [Plain EXCEPT !.fks = <<FK(1), FK(3)>>]}
(* What UntouchedComesOutExactly assumes of definitions is true of these.  *)
ASSUME DefinitionsReadBack == \A fl \in Flavors : \A d \in TableDefs(fl) : ReadsBack(fl, d)

(* Hidden80 comes about by an ALTER only.                                  *)
MCInitialTables(fl, s) == IF s = "s1" THEN MCTableDefs(fl) \ {Hidden80} ELSE {Absent}

MCSpecial == {"e1", "e2"}
MCLong == {"long1", "long2"}
MCFlavors == {MySQL55, Percona57, Percona80, MariaDB}
MCInitialRoutines == {[attrs |-> "", params |-> "p", body |-> "b1"]}
MCRoutineDefs == {[attrs |-> "", params |-> "p", body |-> "b1"],
                  [attrs |-> "comment", params |-> "p", body |-> "b2"]}
=============================================================================
