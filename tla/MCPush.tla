------------------------------- MODULE MCPush -------------------------------
(***************************************************************************)
(* Three instances.  Of the usual tree, d1 is pushed to the schema "app"   *)
(* of i1 and i2, d2 to "other" of i1, and d3 to "app" of i3.  The other    *)
(* trees have something wrong on the way to the targets.                   *)
(***************************************************************************)
EXTENDS Push

CONSTANTS i1, i2, i3, d0, d1, d2, d3, d4, d5, d6

Plain == [kind |-> "plain", database |-> FALSE, delimiter |-> ";"]
Database == [Plain EXCEPT !.database = TRUE]
Compound == [Plain EXCEPT !.delimiter = "//"]
ShellOut == [Plain EXCEPT !.delimiter = ""]
Noop == [Plain EXCEPT !.kind = "noop"]
Unsafe == [Plain EXCEPT !.kind = "unsafe"]
NotSupported == [Plain EXCEPT !.kind = "unsupported"]
Error == [Plain EXCEPT !.kind = "error"]

Unnamed == [name |-> "", outcome |-> "ok"]
Named(n) == [name |-> n, outcome |-> "ok"]

\* A directory without a schema, and one that its .skeema maps to one.
Bare(subs) == [parseError |-> FALSE, hostSet |-> TRUE, hosts |-> <<i1>>,
               hostsError |-> FALSE, schema |-> "", names |-> <<>>, own |-> FALSE,
               logical |-> <<>>, subs |-> subs, subsError |-> FALSE]
Leaf(hosts, name) == [Bare(<<>>) EXCEPT !.hosts = hosts, !.schema = "list",
                        !.names = <<name>>, !.own = TRUE, !.logical = <<Unnamed>>]

Usual == [root |-> d0,
          dirs |-> (d0 :> Bare(<<d1, d2, d3>>)) @@ (d1 :> Leaf(<<i1, i2>>, "app"))
                   @@ (d2 :> Leaf(<<i1>>, "other")) @@ (d3 :> Leaf(<<i3>>, "app")),
          reach |-> Instances, lctn |-> [i \in Instances |-> "0"],
          have |-> [i \in Instances |-> <<"App", "other", "scratch">>], noNames |-> {},
          lower |-> [n \in {"app", "other", "scratch", "mysql"} |-> n] @@ ("App" :> "app")
                    @@ ("Sys" :> "sys"),
          ignored |-> {"scratch"}, firstOnly |-> FALSE]

\* A fourth directory that cannot be parsed.
Unparsed == [Usual EXCEPT !.dirs =
    (d0 :> Bare(<<d1, d2, d3, d4>>)) @@ (d4 :> [Bare(<<>>) EXCEPT !.parseError = TRUE]) @@ @]

\* A directory with a subdirectory, for the ways to miss either.
Nested(d) == [Usual EXCEPT !.dirs = (d0 :> Bare(<<d1>>))
                @@ (d1 :> [d EXCEPT !.subs = <<d2>>]) @@ (d2 :> Leaf(<<i2>>, "other"))]
App == Leaf(<<i1, i2>>, "app")

Nests == {Nested(App),
    [Nested(App) EXCEPT !.reach = {i2, i3}],
    [Nested(App) EXCEPT !.reach = {}],
    [Nested(App) EXCEPT !.reach = {i2, i3}, !.firstOnly = TRUE],
    [Nested(App) EXCEPT !.reach = {i3}, !.firstOnly = TRUE],
    [Nested(App) EXCEPT !.lctn = [@ EXCEPT ![i2] = "1"]],
    [Nested(App) EXCEPT !.lctn = [@ EXCEPT ![i1] = "unknown"]],
    Nested([App EXCEPT !.hostsError = TRUE]),
    Nested([App EXCEPT !.hostSet = FALSE]),
    Nested([App EXCEPT !.hosts = <<>>]),
    Nested([App EXCEPT !.subsError = TRUE]),
    Nested([App EXCEPT !.logical = <<[Unnamed EXCEPT !.outcome = "failures"]>>]),
    Nested([App EXCEPT !.logical = <<Unnamed, Named("other")>>]),
    Nested([App EXCEPT !.logical = <<Named("other")>>]),
    Nested([App EXCEPT !.logical = <<Named("app")>>]),
    Nested([App EXCEPT !.schema = "", !.names = <<>>, !.own = FALSE,
                       !.logical = <<Named("app"), Named("other")>>]),
    Nested([App EXCEPT !.schema = "", !.names = <<>>, !.own = FALSE, !.logical =
                <<[Named("app") EXCEPT !.outcome = "failures"], Named("other")>>])}

\* The schema option is a pattern, or a list with a system schema.
Patterns ==
    LET Star == [App EXCEPT !.schema = "*", !.names = <<>>]
    IN  {Nested(Star),
         [Nested(Star) EXCEPT !.noNames = {i2}],
         [Nested(Star) EXCEPT !.firstOnly = TRUE],
         [Nested(Star) EXCEPT !.lctn = [i \in Instances |-> "1"]],
         Nested([App EXCEPT !.names = <<"Sys", "app">>])}

\* A subdirectory six levels down, and one a level deeper.
Chain(xs) ==
    [Usual EXCEPT !.dirs = (xs[Len(xs)] :> Leaf(<<i1>>, "app")) @@
        [y \in {xs[n] : n \in 1..(Len(xs) - 1)} |->
            Bare(<<xs[(CHOOSE n \in DOMAIN xs : xs[n] = y) + 1]>>)]]
Chains == {Chain(<<d0, d1, d2, d3, d4, d5>>), Chain(<<d0, d1, d2, d3, d4, d5, d6>>)}

----------------------------------------------------------------------------

t1 == [instance |-> i1, dir |-> d1, schema |-> "app"]
t2 == [instance |-> i1, dir |-> d2, schema |-> "other"]
t3 == [t1 EXCEPT !.instance = i2]
t4 == [instance |-> i3, dir |-> d3, schema |-> "app"]

\* Everything can be applied but for one unsupported table.
GoodDiffs == (t1 :> <<Plain, Noop, Compound>>) @@ (t2 :> <<Database, Compound>>)
             @@ (t3 :> <<ShellOut, NotSupported, Compound>>) @@ (t4 :> <<Plain>>)

\* Some targets are refused, and one differs only in what mods make a no-op.
MixedDiffs == (t1 :> <<Plain, Unsafe>>) @@ (t2 :> <<NotSupported, Plain, Error>>)
              @@ (t3 :> <<Plain, Plain>>) @@ (t4 :> <<Noop>>)

\* The first instance differs, and the second in an unsupported table only.
FewDiffs == (t1 :> <<Plain, Unsafe>>) @@ (t2 :> <<Noop>>) @@ (t3 :> <<NotSupported>>)
            @@ (t4 :> <<Noop>>)

Normal == [config |-> Usual, diffs |-> GoodDiffs, lintErrors |-> {},
           partitioned |-> {d3}, removePartitioning |-> {d3},
           dryRun |-> FALSE, brief |-> FALSE, concurrency |-> 2,
           faults |-> {"introspect", "mods", "verify", "lint", "exec"}]

\* A push in which anything may fail, one with refused targets and a directory
\* that cannot be parsed, skeema diff and skeema diff --brief; and a push of each
\* of the other trees.
MCJobs == {Normal,
    [Normal EXCEPT !.config = Unparsed, !.diffs = MixedDiffs, !.lintErrors = {t3},
                   !.partitioned = {}, !.concurrency = 3, !.faults = {"exec"}],
    [Normal EXCEPT !.dryRun = TRUE, !.concurrency = 1, !.faults = {"verify"}],
    [Normal EXCEPT !.diffs = FewDiffs, !.lintErrors = {t3}, !.partitioned = {},
                   !.dryRun = TRUE, !.brief = TRUE, !.concurrency = 3,
                   !.faults = {"introspect", "verify"}]}
  \cup {[Normal EXCEPT !.config = c, !.diffs = [t \in Mapped(c) |-> <<Plain>>],
                       !.partitioned = {}, !.removePartitioning = {}, !.faults = {}] :
           c \in Nests \cup Patterns \cup Chains}

\* Both targets of a directory have partitioning=remove.
StripJobs == {[Normal EXCEPT !.partitioned = {d1}, !.removePartitioning = {d1},
                             !.faults = {}]}
=============================================================================
