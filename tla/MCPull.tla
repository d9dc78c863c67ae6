------------------------------- MODULE MCPull -------------------------------
(* Small instances of Pull: two schemas, the objects `foo` (a table and a  *)
(* procedure, which share foo.sql) and `bar`, and hand-written files of    *)
(* every shape that the parser treats in a way of its own.                 *)
EXTENDS Pull

Foo == [type |-> "table", name |-> "foo"]
FooProc == [type |-> "procedure", name |-> "foo"]
Bar == [type |-> "table", name |-> "bar"]
BarProc == [type |-> "procedure", name |-> "bar"]
CapitalFoo == [type |-> "table", name |-> "FOO"]
Old == [type |-> "table", name |-> "_old"]

(* lower_case_table_names=2, on a file system that ignores case as well *)
MCLowerName == [n \in {"foo", "FOO", "bar", "_old"} |-> IF n = "FOO" THEN "foo" ELSE n]
MCFileNameForObject == [n \in DOMAIN MCLowerName |->
    CASE n \in {"foo", "FOO"} -> "foo.sql" [] n = "bar" -> "bar.sql" [] n = "_old" -> "_old.sql"]
MCIgnoredNames == {"_old"}
MCDirOrder == <<"a", "b", "sys", "tmp">>
MCIgnoreSchema == {"sys"}

Def(v) == [v |-> v, block |-> FALSE, style |-> "canonical", auto |-> 0, part |-> "",
           partStyle |-> "canonical"]
Block(v) == [Def(v) EXCEPT !.block = TRUE]
Messy(def) == [def EXCEPT !.style = "by hand"]
Parted(def, p) == [def EXCEPT !.part = p]
MessyParted(def, p) == [Parted(def, p) EXCEPT !.partStyle = "by hand"]
AutoInc(def, n) == [def EXCEPT !.auto = n]

Use1 == <<Use, Space, Database("b"), Newline>>
Set(d) == <<Delimiter, Space, d, Newline>>
Terminated(key, def) == Text(key, def) \o <<Semicolon, Newline>>

(* foo.sql *)
FooTexts == <<
    Terminated(Foo, AutoInc(MessyParted(Messy(Def("1")), "p1"), 5)),
    <<Comment, Newline>> \o Text(Foo, Def("1")) \o <<Newline>>,
    Set(Slashes) \o Text(FooProc, Block("1")) \o <<Slashes, Newline>> \o Text(Foo, Def("1"))
        \o <<Slashes, Newline>> \o Set(Semicolon),
    Terminated(FooProc, Def("2")) \o <<Word, Semicolon>> \o Terminated(Foo, AutoInc(Def("2"), 7)),
    <<Word, Space, Word, Semicolon, Newline, LineComment, Word>>,
    Terminated(Foo, Def("broken")) \o <<Semicolon>> >>

(* bar.sql *)
BarTexts == <<
    <<>>,
    Terminated(Bar, Def("1")) \o Terminated(Old, Def("1")),
    Terminated(Bar, Messy(Def("1"))) \o Set(Slashes) \o <<Word, Semicolon, Word, Slashes>>
        \o Text(BarProc, Block("2")) \o <<Slashes>>,
    Text(Bar, Def("1")) \o <<Newline, OpenQuote>>,
    Use1 \o Terminated(Bar, Def("1")) >>

DirOf(s, files) == [schema |-> s, charset |-> "latin1", files |-> files]

(* foo.sql and bar.sql that end in a statement without an end of its own *)
OpenTexts == <<
    Terminated(FooProc, Block("1")),
    <<Word, Space, Word, Newline>>,
    Terminated(Foo, Messy(Def("1"))) \o <<Word>>,
    Terminated(FooProc, Def("2")) \o Terminated(BarProc, Block("1")) >>

OpenHosts == {("a" :> DirOf("a", ("foo.sql" :> OpenTexts[n]))) : n \in DOMAIN OpenTexts}

MCHosts ==
    {<<>>} \cup OpenHosts
    \cup {("a" :> DirOf("a", ("foo.sql" :> FooTexts[n[1]]) @@ ("bar.sql" :> BarTexts[n[2]]))) :
            n \in (DOMAIN FooTexts) \X (DOMAIN BarTexts)}
    \cup {("a" :> DirOf("a", ("misc.sql" :> Terminated(FooProc, Messy(Block("1"))))
                              @@ ("foo.sql" :> Terminated(Foo, Def("2"))))),
          ("a" :> DirOf("a", ("foo.sql" :> FooTexts[3]) @@ ("bar.sql" :> Terminated(Foo, Def("2"))))),
          ("a" :> DirOf("a", ("foo.sql" :> Terminated(Foo, Def("1")) \o Terminated(CapitalFoo, Def("2"))))),
          ("a" :> DirOf("sys", ("bar.sql" :> BarTexts[3]))),
          ("a" :> DirOf("b", <<>>)),
          ("a" :> DirOf("", ("bar.sql" :> BarTexts[2]))) @@ ("b" :> DirOf("", <<>>)),
          ("a" :> DirOf("a", <<>>)) @@ ("b" :> DirOf("b", ("bar.sql" :> Terminated(Bar, Messy(Def("1")))))) }

Live(s, objects) == (s :> [charset |-> "utf8mb4", objects |-> objects])

MCServers == {
    Live("a", (Foo :> AutoInc(Parted(Def("1"), "p2"), 9)) @@ (FooProc :> Block("1")) @@ (Bar :> Def("1"))),
    Live("a", (Foo :> Def("1")) @@ (FooProc :> Def("1"))) @@ Live("b", (Bar :> Def("1")) @@ (Old :> Def("1"))),
    Live("b", (Bar :> Def("2"))) @@ Live("tmp", (Foo :> Def("1"))),
    Live("a", (CapitalFoo :> Def("1")) @@ (FooProc :> Block("1")) @@ (BarProc :> Block("1")))
        @@ Live("sys", (Foo :> Def("1")))}

Cmd(name) == [name |-> name, format |-> TRUE, write |-> TRUE, newSchemas |-> TRUE,
              includeAutoInc |-> FALSE, updatePartitioning |-> FALSE]
MCCommands == {
    Cmd("init"), Cmd("pull"), [Cmd("pull") EXCEPT !.format = FALSE, !.newSchemas = FALSE],
    [Cmd("pull") EXCEPT !.includeAutoInc = TRUE, !.updatePartitioning = TRUE],
    Cmd("format"), [Cmd("format") EXCEPT !.write = FALSE], Cmd("lint")}
=============================================================================
