---------------------------- MODULE MCTablePush ----------------------------
(***************************************************************************)
(* Families of tables that vary in one respect each.                       *)
(***************************************************************************)
EXTENDS TablePush

Col(x, type, look) == [name |-> x, type |-> type, look |-> look, virtual |-> x = "v"]
Type(b, args, unsigned, charset) ==
    [base |-> b, args |-> args, unsigned |-> unsigned, charset |-> charset]
Small == Type("int", <<>>, FALSE, "")
Big == Type("bigint", <<>>, FALSE, "")
Plain(x) == Col(x, Small, 1)
None == [method |-> "", expr |-> "", list |-> ""]
Attrs == [charset |-> [set |-> "utf8mb3", collation |-> <<"utf8", "bin">>], engine |-> "InnoDB",
          autoinc |-> 0, options |-> "", comment |-> "", tablespace |-> ""]
T == [cols |-> <<Plain("a")>>, pk |-> "a", idxs |-> <<>>, fks |-> {}, checks |-> <<>>,
      attrs |-> Attrs, part |-> None, odd |-> FALSE]

\* The modifiers of push, of push with exact-match, and of VerifyDiff.
Push == [autoinc |-> "increased", partitioning |-> "keep", allowUnsafe |-> TRUE,
         strictIndexes |-> FALSE, strictForeignKeys |-> FALSE, strictColumns |-> FALSE,
         strictChecks |-> FALSE, mariadb |-> FALSE, hides |-> TRUE]
Exact == [Push EXCEPT !.strictIndexes = TRUE, !.strictForeignKeys = TRUE,
                      !.strictColumns = TRUE, !.strictChecks = TRUE]
Verify == [Exact EXCEPT !.autoinc = "always", !.partitioning = "modify"]
Safe(m) == [m EXCEPT !.allowUnsafe = FALSE]
Maria(m) == [m EXCEPT !.mariadb = TRUE]
Old(m) == [m EXCEPT !.hides = FALSE]

CasesOf(from, to, modifiers) == [from : from, to : to, mods : modifiers]
Of(names, n) == UNION {SetToSeqs(s) : s \in {t \in SUBSET names : Cardinality(t) <= n}}

\* Orders of five columns; and of four, some dropped and up to two new.
Cols(s) == [T EXCEPT !.cols = [n \in DOMAIN s |-> Plain(s[n])]]
OrderCases ==
    CasesOf({Cols(<<"a", "b", "c", "d", "e">>)},
            {Cols(s) : s \in SetToSeqs({"a", "b", "c", "d", "e"})}, {Push})
    \cup CasesOf({Cols(<<"a", "b", "c", "d">>)},
                 {Cols(s) : s \in Of({"a", "b", "c", "d", "e", "f"}, 5) \ {<<>>}}, {Push})

\* Definitions of up to two of three columns, one of them virtual.
Defined(types, looks) ==
    {[T EXCEPT !.cols = [n \in DOMAIN s |-> Col(s[n], ty[n], lo[n])]] :
        s \in Of({"a", "b", "v"}, 2) \ {<<>>}, ty \in [1..2 -> types], lo \in [1..2 -> looks]}
ColumnCases == CasesOf(Defined({Small, Big}, {1}), Defined({Small, Big}, {1, 2}),
                       {Push, Safe(Push), Exact, Safe(Exact)})

\* Types of every sort that ModifyColumn.Unsafe tells apart, each converted to each.
Types ==
    {Type(b, <<>>, u, "") : b \in DOMAIN Ints, u \in BOOLEAN}
    \cup {Type("decimal", a, u, "") : a \in {<<5, 0>>, <<5, 2>>, <<7, 2>>}, u \in BOOLEAN}
    \cup {Type(b, a, FALSE, "") : b \in {"float", "double"}, a \in {<<>>, <<5, 0>>, <<5, 2>>, <<7, 2>>}}
    \cup {Type(b, a, FALSE, "") : b \in {"time", "timestamp", "datetime"}, a \in {<<>>, <<3>>, <<6>>}}
    \cup {Type(b, a, FALSE, "") : b \in {"bit", "binary", "varbinary"}, a \in {<<16>>, <<300>>}}
    \cup {Type(b, <<>>, FALSE, "") : b \in {"inet6", "date"} \cup DOMAIN BlobSize}
    \cup {Type(b, <<>>, FALSE, c) : b \in DOMAIN TextSize, c \in {"latin1", "utf8mb4"}}
    \cup {Type(b, a, FALSE, c) : b \in Chars, a \in {<<39>>, <<255>>}, c \in {"latin1", "utf8mb4"}}
    \cup {Type(b, a, FALSE, "latin1") : b \in {"enum", "set"}, a \in {<<1>>, <<1, 2>>, <<2, 1>>}}
TypeCases == LET tables == {[T EXCEPT !.cols = <<Col("a", t, 1)>>] : t \in Types}
             IN  CasesOf(tables, tables, {Safe(Push)})

\* Three ordinary indexes, re-ordered, redefined and hidden.
Index(x, kind, parts, hidden) == [name |-> x, kind |-> kind, parts |-> parts, hidden |-> hidden]
Keys(variants) ==
    {[T EXCEPT !.idxs = [n \in DOMAIN s |-> Index(s[n], "key", v[n][1], v[n][2])]] :
        s \in Of({"k", "l", "m"}, 3), v \in [1..3 -> variants]}
KeyCases == CasesOf(Keys({<<1, FALSE>>}), Keys({<<1, FALSE>>, <<1, TRUE>>, <<2, FALSE>>}),
                    {Push, Exact, Old(Push), Old(Exact)})

\* Unique and fulltext indexes, with and without a primary key.
Kind(x) == CASE x \in {"u", "w"} -> "unique" [] x = "k" -> "key" [] x \in {"f", "g"} -> "fulltext"
Sorted(s) == [T EXCEPT !.idxs = [n \in DOMAIN s |-> Index(s[n], Kind(s[n]), 1, FALSE)]]
Clustered(t) == {t, [t EXCEPT !.pk = ""]}
KindCases == LET tables == UNION {Clustered(Sorted(u \o k \o f)) :
                      u \in Of({"u", "w"}, 2), k \in Of({"k"}, 1), f \in Of({"f", "g"}, 2)}
             IN  CasesOf(tables, tables, {Push, Exact})

\* Foreign keys by name.
Fks(names, refs, rules) ==
    {[T EXCEPT !.fks = {[name |-> x, ref |-> r[x], rule |-> q[x]] : x \in s}] :
        s \in SUBSET names, r \in [names -> refs], q \in [names -> rules]}
FkCases == LET few == Fks({"f", "g"}, {"X", "Y"}, {"", "RESTRICT"})
               many == Fks({"f", "g", "h"}, {"X", "Y"}, {""})
           IN  CasesOf(few, few, {Push, Exact}) \cup CasesOf(many, many, {Push, Exact})

\* Check constraints: in any order in MariaDB, which enforces all of them, and
\* in the order of their names in MySQL.
Check(x, clause, enforced) == [name |-> x, clause |-> clause, enforced |-> enforced]
MariaChecks(clauses) ==
    {[T EXCEPT !.checks = [n \in DOMAIN s |-> Check(s[n], c[n], TRUE)]] :
        s \in Of(1..3, 3), c \in [1..3 -> clauses]}
MySQLChecks(clauses) ==
    {[T EXCEPT !.checks = [n \in DOMAIN s |-> Check(s[n], c[n], e[n])]] :
        s \in {<<>>, <<1>>, <<2>>, <<1, 2>>}, c \in [1..2 -> clauses], e \in [1..2 -> BOOLEAN]}
CheckCases == CasesOf(MariaChecks({1}), MariaChecks({1, 2}), {Maria(Push), Maria(Exact)})
              \cup CasesOf(MySQLChecks({1}), MySQLChecks({1, 2}), {Push, Exact})

\* Attributes; a table that has lost its auto-increment column is left out.
Attributed(charsets, incs, spaces, engines, comments) ==
    {[T EXCEPT !.attrs.charset = cs, !.attrs.autoinc = i, !.attrs.tablespace = s,
               !.attrs.engine = e, !.attrs.comment = c] :
        cs \in charsets, i \in incs, s \in spaces, e \in engines, c \in comments}
Utf8 == [set |-> "utf8", collation |-> <<"utf8", "bin">>]
Utf8mb3 == [set |-> "utf8mb3", collation |-> <<"utf8mb3", "bin">>]
Utf8mb4 == [set |-> "utf8mb4", collation |-> <<"utf8mb4", "bin">>]
AttrCases ==
    CasesOf(Attributed({Attrs.charset, Utf8mb4}, {1, 3}, {"", "ts"}, {"InnoDB"}, {""}),
            Attributed({Attrs.charset, Utf8, Utf8mb3, Utf8mb4}, {1, 2, 5}, {"", "ts"}, {"InnoDB"}, {""}),
            {Push, Exact, Verify, [Push EXCEPT !.autoinc = "already"],
             [Push EXCEPT !.autoinc = "ignore"]})
    \cup LET tables == Attributed({Utf8}, {1}, {""}, {"InnoDB", "MyISAM"}, {"", "c"})
         IN  CasesOf(tables, tables, {Push, Safe(Push), Exact})

\* Partitionings; and tables that the tool does not support.
By(method, expr, list) == [method |-> method, expr |-> expr, list |-> list]
Partitioned == {[T EXCEPT !.part = p] :
    p \in {None, By("RANGE", "x", "1"), By("RANGE", "x", "2"), By("RANGE", "y", "1"),
           By("HASH", "x", "1"), By("HASH", "x", "2")}}
PartitionCases ==
    CasesOf(Partitioned, Partitioned,
            {[m EXCEPT !.partitioning = p] : m \in {Push, Verify}, p \in {"keep", "remove", "modify"}})
    \cup CasesOf({T, [T EXCEPT !.odd = TRUE]}, {T, [Cols(<<"b">>) EXCEPT !.odd = TRUE]}, {Push})

AllCases == UNION {OrderCases, ColumnCases, TypeCases, KeyCases, KindCases, FkCases, CheckCases,
                   AttrCases, PartitionCases}
=============================================================================
