------------------------------ MODULE Targets -------------------------------
(***************************************************************************)
(* What skeema push and skeema diff are to work on: the walk through the   *)
(* directories that finds, for each, the instances and the schema names    *)
(* its configuration maps to (internal/applier/target.go, the functions of *)
(* internal/fs/dir.go on hosts and schema names).                          *)
(*                                                                         *)
(* A configuration c is a record: root and dirs, the directories; reach,   *)
(* the instances that answer; lctn, have and noNames, the                  *)
(* lower_case_table_names of each instance, its schemas in order, and the  *)
(* instances on which the list of names cannot be had; lower, the names in *)
(* lower case; ignored, those that ignore-schema matches; firstOnly.       *)
(* A directory d is a record: parseError; hostSet, whether there is a host *)
(* option; hosts, the instances that it or the host-wrapper gives, and     *)
(* hostsError; schema, the schema option in effect, "" or "*" or "list"    *)
(* with the names in names, and own, whether its own .skeema sets it;      *)
(* logical, the logical schemas, of [name, outcome]: "ok", or how the      *)
(* workspace fails; subs, the subdirectories, and subsError.               *)
(***************************************************************************)
EXTENDS Integers, Sequences, FiniteSets, SequencesExt

MaxDepth == 5

First(s) == IF s = <<>> THEN <<>> ELSE <<s[1]>>

SystemSchemas == {"information_schema", "performance_schema", "sys", "mysql"}

HasSchema(d) == d.own \/ \E n \in DOMAIN d.logical : d.logical[n].name # ""
NamedSchemaStatements(d) == {n \in DOMAIN d.logical : d.logical[n].name # ""}

filterSchemaNames(c, names) ==
    SelectSeq(names, LAMBDA n : n \notin c.ignored /\ c.lower[n] \notin SystemSchemas)

SchemaNames(c, d, i) ==
    LET names == CASE d.schema = ""     -> <<>>
                   [] d.schema = "*"    -> c.have[i]
                   [] d.schema = "list" -> d.names
        kept == filterSchemaNames(c, names)
    IN  IF c.lctn[i] = "1" THEN [n \in DOMAIN kept |-> c.lower[kept[n]]] ELSE kept

\* Mutant of instancesForDir: an instance that does not answer is not counted.
instancesUncounted(c, d) ==
    [instances |-> SelectSeq(d.hosts, LAMBDA i : i \in c.reach), skip |-> 0]

\* The instances of a directory that answer, and the number of those skipped.
\* With first-only, the first that answers (FirstInstance).
instancesForDir(c, d) ==
    LET valid == SelectSeq(d.hosts, LAMBDA i : i \in c.reach)
    IN  CASE d.hostsError -> [instances |-> <<>>, skip |-> 1]
          [] ~d.hostsError /\ c.firstOnly ->
               [instances |-> First(valid),
                skip |-> IF valid = <<>> /\ d.hosts # <<>> THEN 1 ELSE 0]
          [] OTHER -> [instances |-> valid, skip |-> Len(d.hosts) - Len(valid)]

\* lower_case_table_names differs from that of the first instance.
MixedNameCase(c, instances) ==
    /\ c.lctn[instances[1]] # "unknown"
    /\ \E i \in ToSet(instances) : c.lctn[i] \notin {"unknown", c.lctn[instances[1]]}

\* Both .skeema and the *.sql files name a schema, and not the same one.
Conflict(c, d, ls, i) ==
    /\ ls.name # "" /\ i \notin c.noNames
    /\ LET names == SchemaNames(c, d, i)
       IN  names # <<>> /\ (Len(names) > 1 \/ Len(d.logical) > 1 \/ names[1] # ls.name)

NamesFor(c, d, ls, i) ==
    CASE i \in c.noNames -> <<>>
      [] i \notin c.noNames /\ ls.name # "" -> <<ls.name>>
      [] OTHER -> IF c.firstOnly THEN First(SchemaNames(c, d, i))
                                 ELSE SchemaNames(c, d, i)

\* The whole logical schema is skipped: the styles of naming are mixed, the
\* instances do not go together, the workspace fails, or the names conflict.
SkipLogicalSchema(c, x, ls, instances) ==
    LET d == c.dirs[x]
    IN  \/ ls.name = "" /\ Len(d.logical) > 1 /\ NamedSchemaStatements(d) # {}
        \/ MixedNameCase(c, instances)
        \/ ls.outcome # "ok"
        \/ \E i \in ToSet(instances) : Conflict(c, d, ls, i)

targetsForLogicalSchema(c, x, ls, instances) ==
    LET TargetsOn(i) ==
            LET names == NamesFor(c, c.dirs[x], ls, i)
            IN  [n \in DOMAIN names |-> [instance |-> i, dir |-> x, schema |-> names[n]]]
    IN  IF SkipLogicalSchema(c, x, ls, instances)
        THEN [targets |-> <<>>, skip |-> Len(instances)]
        ELSE [targets |-> FlattenSeq([k \in DOMAIN instances |-> TargetsOn(instances[k])]),
              skip |-> Len(SelectSeq(instances, LAMBDA i : i \in c.noNames))]

\* The logical schemas of a directory, in order; after one with skips, the rest
\* of them is counted and `stop` says not to look at the subdirectories.
OwnTargets(c, x) ==
    LET d == c.dirs[x]
        found == instancesForDir(c, d)
        Step(acc, n) ==
            IF acc.stop THEN acc
            ELSE LET this == targetsForLogicalSchema(c, x, d.logical[n], found.instances)
                 IN  [targets |-> acc.targets \o this.targets,
                      skip |-> acc.skip + this.skip
                               + (IF this.skip > 0 THEN Len(d.logical) - n ELSE 0),
                      stop |-> this.skip > 0]
        none == [targets |-> <<>>, skip |-> 0, stop |-> FALSE]
    IN  CASE ~(d.hostSet /\ HasSchema(d)) -> none
          [] d.hostSet /\ HasSchema(d) /\ found.instances = <<>> -> [none EXCEPT !.skip = found.skip]
          [] OTHER -> FoldLeft(Step, [none EXCEPT !.skip = found.skip],
                               [n \in DOMAIN d.logical |-> n])

\* TargetsForDir, for a directory with `depth` levels left below it.
TargetsForDir(c, root) ==
    LET At[depth \in 0..MaxDepth] ==
          [x \in DOMAIN c.dirs |->
            LET d == c.dirs[x]
                own == OwnTargets(c, x)
                Add(acc, sub) == [targets |-> acc.targets \o At[depth - 1][sub].targets,
                                  skip |-> acc.skip + At[depth - 1][sub].skip]
                mine == [targets |-> own.targets, skip |-> own.skip]
            IN  IF d.parseError THEN [targets |-> <<>>, skip |-> 1]
                ELSE IF own.stop THEN mine
                ELSE IF d.subsError THEN [mine EXCEPT !.skip = @ + 1]
                ELSE IF depth = 0 THEN [mine EXCEPT !.skip = @ + Len(d.subs)]
                ELSE FoldLeft(Add, mine, d.subs)]
    IN  At[MaxDepth][root]

\* The targets grouped by instance, each group in the order of the walk.
TargetGroupsForDir(c, instances) ==
    LET all == TargetsForDir(c, c.root)
    IN  [group |-> [i \in instances |->
                      SelectSeq(all.targets, LAMBDA t : t.instance = i)],
         skip |-> all.skip]

----------------------------------------------------------------------------
\* For comparison, what the configuration says: the directories of the tree,
\* and the schemas on instances that they map to, regardless of what fails.
Below(c) ==
    LET Levels[k \in 0..Cardinality(DOMAIN c.dirs)] ==
          IF k = 0 THEN {c.root}
          ELSE Levels[k - 1] \cup UNION {ToSet(c.dirs[x].subs) : x \in Levels[k - 1]}
    IN  Levels[Cardinality(DOMAIN c.dirs)]

Mapped(c) ==
    UNION {LET d == c.dirs[x]
               hosts == CASE ~d.hostSet \/ ~HasSchema(d) -> {}
                          [] d.hostSet /\ HasSchema(d) /\ c.firstOnly ->
                               ToSet(instancesForDir(c, d).instances)
                          [] OTHER -> ToSet(d.hosts)
           IN  UNION {UNION {{[instance |-> i, dir |-> x, schema |-> s] :
                                s \in ToSet(NamesFor([c EXCEPT !.noNames = {}], d, d.logical[n], i))} :
                               n \in DOMAIN d.logical} : i \in hosts} :
           x \in Below(c)}

\* Directories that could not be read, or whose hosts are not known.
Unread(c) ==
    {x \in Below(c) :
        \/ c.dirs[x].parseError \/ c.dirs[x].subsError
        \/ c.dirs[x].hostSet /\ HasSchema(c.dirs[x]) /\ c.dirs[x].hostsError}

\* The walk that skips nothing has read every directory and found every schema
\* that the configuration maps one to.
WalkIsComplete(c, instances) ==
    LET found == TargetGroupsForDir(c, instances)
    IN  found.skip = 0 =>
            Unread(c) = {} /\ Mapped(c) = UNION {ToSet(found.group[i]) : i \in instances}
=============================================================================
