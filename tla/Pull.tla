-------------------------------- MODULE Pull --------------------------------
(***************************************************************************)
(* The commands that rewrite a host directory with one subdirectory per    *)
(* schema: skeema init, pull, format and lint. One command runs at a time; *)
(* between two of them the schemas on the server may change. Within a      *)
(* command the model has a step wherever the order is that of a Go map     *)
(* (the objects of a schema, the dirty files) or something may fail (a     *)
(* workspace, a write).                                                    *)
(***************************************************************************)
EXTENDS SqlDir

CONSTANTS
    Hosts,            \* what may be on disk at first: functions from the names of
                      \* schema subdirectories to directories, <<>> before init
    Servers,          \* what may be on the server: functions from schema names to
                      \* [charset, objects]; objects maps keys to definitions
    Commands,         \* the command lines a user may give
    DirOrder,         \* all names of subdirectories, sorted as ReadDir sorts them
    IgnoreSchema,     \* the names that ignore-schema matches, and the system schemas
    TempSchema,       \* the name of the temp-schema
    Faults,           \* what may go wrong: subset of {"refused", "full", "workspace"}
    MaxCommands, MaxChanges, MaxFaults

NoDir == "no directory"

ASSUME PullAssumption ==
    /\ Faults \subseteq {"refused", "full", "workspace"}
    /\ \A n \in {MaxCommands, MaxChanges, MaxFaults} : n \in Nat

\* A directory on disk; a text is a sequence of lexemes.
IsDir(dir) ==
    /\ DOMAIN dir = {"schema", "charset", "files"}
    /\ IsFiniteSet(DOMAIN dir.files)
    /\ \A f \in DOMAIN dir.files : dir.files[f] \in Seq(ToSet(dir.files[f]))

ASSUME HostAssumption ==
    /\ DirOrder \in Seq(ToSet(DirOrder))
    /\ \A m, n \in DOMAIN DirOrder : DirOrder[m] = DirOrder[n] => m = n
    /\ \A h \in Hosts : \A d \in DOMAIN h : IsDir(h[d])

VARIABLES
    host,      \* does the host directory have its .skeema file
    disk,      \* its subdirectories
    server,    \* the schemas of the instance
    run,       \* the command that is running
    done,      \* observer: the commands that ended, [cmd, exit, server, before, after,
               \* emptied, count]
    bounds     \* [changes, faults] so far

vars == <<host, disk, server, run, done, bounds>>

CodeSuccess == 0
CodeDifferencesFound == 1
CodePartialError == 1
CodeFatalError == 2
CodeCantCreate == 73
CodeBadConfig == 78

HighestExitCode(a, b) == IF b > a THEN b ELSE a

Idle == [pc |-> "idle", cmd |-> "", exit |-> 0, dirs |-> <<>>, dir |-> NoDir,
         parsed |-> [files |-> <<>>, ParseError |-> FALSE], schema |-> "",
         mem |-> [files |-> <<>>, dirty |-> {}], objects |-> <<>>, todo |-> {}, opts |-> <<>>,
         seen |-> {}, before |-> <<>>, emptied |-> {}, count |-> 0, errors |-> 0, warnings |-> 0]

Init ==
    /\ disk \in Hosts
    /\ host = (disk # <<>>)
    /\ server \in Servers
    /\ run = Idle
    /\ done = <<>>
    /\ bounds = [changes |-> 0, faults |-> 0]

Put(f, x, v) == [y \in DOMAIN f \cup {x} |-> IF y = x THEN v ELSE f[y]]
Without(f, x) == Restrict(f, DOMAIN f \ {x})

\* Schema.Objects after StripMatches.
Objects(objects) == Restrict(objects, {k \in DOMAIN objects : ~ShouldIgnore(k)})

Subdirs == Filter(DirOrder, LAMBDA d : d \in DOMAIN disk)

-----------------------------------------------------------------------------
(* The server, changed by others between two commands. *)

Change ==
    /\ run.pc = "idle" /\ Len(done) \in 1..(MaxCommands - 1)
    /\ bounds.changes < MaxChanges
    /\ server' \in Servers \ {server}
    /\ bounds' = [bounds EXCEPT !.changes = @ + 1]
    /\ UNCHANGED <<host, disk, run, done>>

-----------------------------------------------------------------------------
(* Handlers and walkers *)

StartInit(c) ==
    /\ c.name = "init"
    /\ host' = TRUE                              \* createHostOptionFile
    /\ run' = IF host
              THEN [Idle EXCEPT !.pc = "exit", !.cmd = c, !.before = disk, !.exit = CodeBadConfig]
              ELSE [Idle EXCEPT !.pc = "new", !.cmd = c, !.before = disk]

StartWalk(c) ==
    /\ c.name # "init"
    /\ host
    /\ run' = [Idle EXCEPT !.pc = "walk", !.cmd = c, !.before = disk, !.dirs = Subdirs]
    /\ UNCHANGED host

Start ==
    /\ run.pc = "idle"
    /\ Len(done) < MaxCommands
    /\ \E c \in Commands : StartInit(c) \/ StartWalk(c)
    /\ UNCHANGED <<disk, server, done, bounds>>

\* The command goes on with its next directory, with an error code for this one.
NextDir(r, code) ==
    [r EXCEPT !.pc = "walk", !.dirs = Tail(@), !.dir = NoDir, !.exit = HighestExitCode(@, code),
              !.mem = Idle.mem, !.objects = <<>>, !.todo = {}, !.opts = <<>>, !.schema = "",
              !.parsed = Idle.parsed]

\* DumpSchema from here on: the objects of the schema in any order.
Dumping(r, files, name, objects, opts) ==
    [r EXCEPT !.pc = "dump", !.parsed = Idle.parsed, !.schema = name, !.mem = [files |-> files, dirty |-> {}],
              !.objects = objects, !.todo = DOMAIN objects, !.opts = opts]

\* ParseDir reads the next directory.
Parse ==
    /\ run.pc = "walk" /\ run.dirs # <<>>
    /\ run' = [run EXCEPT !.pc = "parsed", !.dir = Head(run.dirs),
                          !.parsed = parseContents(disk[Head(run.dirs)])]
    /\ UNCHANGED <<host, disk, server, done, bounds>>

ParseFails ==
    /\ run.pc = "parsed" /\ run.parsed.ParseError
    /\ run' = IF run.cmd.name = "pull" THEN NextDir(run, CodePartialError)
              ELSE NextDir(run, CodeBadConfig)
    /\ UNCHANGED <<host, disk, server, done, bounds>>

Files == run.parsed.files
Parsed(names) == run.pc = "parsed" /\ ~run.parsed.ParseError /\ run.cmd.name \in names

\* A directory without a logical schema has nothing to do.
NothingHere ==
    /\ Parsed({"pull", "format", "lint"})
    /\ LogicalSchemas(disk[run.dir], Files) = {}
    /\ run' = NextDir([run EXCEPT !.warnings = @ + Cardinality(UnparsedStatements(Files))], 0)
    /\ UNCHANGED <<host, disk, server, done, bounds>>

\* The keys that objectsInDiff finds to be different on the server.
Emits(fs, live, c) ==
    \/ fs.v # live.v \/ fs.block # live.block
    \/ fs.auto # live.auto /\ (c.includeAutoInc \/ fs.auto > 1)
    \/ fs.part # live.part /\ (c.updatePartitioning \/ fs.part = "")

objectsInDiff(ws, live, c) ==
    (DOMAIN ws.objects \ DOMAIN live) \cup (DOMAIN live \ DOMAIN ws.objects)
    \cup {k \in DOMAIN ws.objects \cap DOMAIN live : Emits(ws.objects[k], live[k], c)}
    \cup ws.failed

\* Mutant: the partitioning of the file is kept, whatever the option says.
PullKeepsPartitioning(c, inDiff) ==
    [auto |-> c.includeAutoInc, part |-> "keep", count |-> FALSE, skip |-> {},
     onlyDiff |-> ~c.format, only |-> inDiff]

PullOptions(c, inDiff) ==
    [auto |-> c.includeAutoInc, part |-> IF c.updatePartitioning THEN "permissive" ELSE "keep",
     count |-> FALSE, skip |-> {}, onlyDiff |-> ~c.format, only |-> inDiff]

\* The schema that a logical schema of a directory is on the server, if any:
\* Dir.SchemaNames leaves out what ignore-schema matches.
SchemaNames(dir, name) ==
    IF name # "" THEN {name} ELSE {dir.schema} \ (IgnoreSchema \cup {""})

\* Mutant: the schema is not counted among those that have a directory.
PullUnseen(name, schema, live) ==
    /\ disk' = [disk EXCEPT ![run.dir].charset = server[schema].charset]
    /\ run' = Dumping(run, Files, name, live, PullOptions(run.cmd, DOMAIN live))

\* A schema that exists: the charset goes to .skeema (if that fails, see
\* CharSetFails), then the dump begins.
PullSchema(name, schema, live) ==
    /\ disk' = [disk EXCEPT ![run.dir].charset = server[schema].charset]
    /\ \E r \in {[run EXCEPT !.seen = @ \cup {schema}]} :
         run' = IF NamedSchemaStatements(Files) # {} THEN NextDir(r, CodeFatalError)
                ELSE Dumping(r, Files, name, live,
                             PullOptions(run.cmd,
                                 IF run.cmd.format THEN {}
                                 ELSE objectsInDiff(ExecLogicalSchema(Files, name), live, run.cmd)))

\* pullLogicalSchema, up to the dump.
PullDir ==
    /\ Parsed({"pull"})
    /\ \E name \in FirstLogicalSchema(disk[run.dir], Files) :
         \/ /\ DuplicateNames(Files, name)
            /\ run' = NextDir(run, CodeFatalError) /\ UNCHANGED disk
         \/ /\ ~DuplicateNames(Files, name)
            /\ SchemaNames(disk[run.dir], name) = {}
            /\ run' = NextDir(run, 0) /\ UNCHANGED disk
         \/ /\ ~DuplicateNames(Files, name)
            /\ \E schema \in SchemaNames(disk[run.dir], name) :
                 \/ /\ schema \notin DOMAIN server
                    /\ run' = NextDir(run, 0) /\ disk' = Without(disk, run.dir)
                 \/ /\ schema \in DOMAIN server
                    /\ PullSchema(name, schema, Objects(server[schema].objects))
    /\ UNCHANGED <<host, server, done, bounds>>

\* updateCharSetCollation fails: .skeema is as it was, or (disk full) it is
\* empty now and the directory has no schema any more.
CharSetFails ==
    /\ bounds.faults < MaxFaults
    /\ Parsed({"pull"})
    /\ \E name \in FirstLogicalSchema(disk[run.dir], Files), fault \in Faults \ {"workspace"} :
         /\ ~DuplicateNames(Files, name)
         /\ \E schema \in SchemaNames(disk[run.dir], name) \cap DOMAIN server :
              disk[run.dir].charset # server[schema].charset
         /\ disk' = IF fault = "refused" THEN disk
                    ELSE [disk EXCEPT ![run.dir] = [schema |-> "", charset |-> "", files |-> @.files]]
    /\ run' = NextDir(run, CodeFatalError)
    /\ bounds' = [bounds EXCEPT !.faults = @ + 1]
    /\ UNCHANGED <<host, server, done>>

\* Mutant: statements that failed are not passed over.
FormatNoSkip(c, ws) ==
    [auto |-> TRUE, part |-> "permissive", count |-> ~c.write, skip |-> {},
     onlyDiff |-> FALSE, only |-> {}]

\* Mutant: --skip-write is not looked at.
FormatAlwaysWrites(c, ws) ==
    [auto |-> TRUE, part |-> "permissive", count |-> FALSE, skip |-> ws.failed,
     onlyDiff |-> FALSE, only |-> {}]

FormatOptions(c, ws) ==
    [auto |-> TRUE, part |-> "permissive", count |-> ~c.write, skip |-> ws.failed,
     onlyDiff |-> FALSE, only |-> {}]

\* formatDir, up to the dump.
FormatDir ==
    /\ Parsed({"format"})
    /\ \E name \in FirstLogicalSchema(disk[run.dir], Files) :
       \E ws \in {ExecLogicalSchema(Files, name)} :
         run' = IF DuplicateNames(Files, name) \/ NamedSchemaStatements(Files) # {}
                THEN NextDir(run, CodeFatalError)
                ELSE Dumping([run EXCEPT !.exit = HighestExitCode(@, IF ws.failed # {}
                                                   THEN CodeDifferencesFound ELSE CodeSuccess)],
                             Files, name, ws.objects, FormatOptions(run.cmd, ws))
    /\ UNCHANGED <<host, disk, server, done, bounds>>

\* lintDir: the first logical schema is reformatted, all of them are linted. A
\* statement that failed is an error, one that is not parsed or that names a
\* schema is a warning; a logical schema without a workspace is left out, for an
\* exit code. The linter's rules are not modelled.
Linted(r, names, named) ==
    [r EXCEPT !.exit = HighestExitCode(@, IF \E name \in names : DuplicateNames(Files, name)
                                          THEN CodeFatalError ELSE CodeSuccess),
              !.errors = @ + Cardinality(UNION {{name} \X ExecLogicalSchema(Files, name).failed :
                                                name \in {n \in names : ~DuplicateNames(Files, n)}}),
              !.warnings = @ + Cardinality(UnparsedStatements(Files))
                             + (IF disk[r.dir].schema = "" /\ "" \notin names THEN 0
                                ELSE Cardinality(named))]

LintDir ==
    /\ Parsed({"lint"})
    /\ \E name \in FirstLogicalSchema(disk[run.dir], Files),
          r \in {Linted(run, LogicalSchemas(disk[run.dir], Files), NamedSchemaStatements(Files))} :
       \E ws \in {ExecLogicalSchema(Files, name)} :
         run' = IF DuplicateNames(Files, name) \/ NamedSchemaStatements(Files) # {} \/ ~run.cmd.format
                THEN NextDir(r, 0)
                ELSE Dumping(r, Files, name, ws.objects, FormatOptions(run.cmd, ws))
    /\ UNCHANGED <<host, disk, server, done, bounds>>

\* ExecLogicalSchema returns an error: no lock, no connection. pull, which only
\* needs a workspace with --skip-format, has updated the charset by then.
WorkspaceFails ==
    /\ "workspace" \in Faults /\ bounds.faults < MaxFaults
    /\ Parsed({"pull", "format", "lint"})
    /\ \E name \in FirstLogicalSchema(disk[run.dir], Files) :
         /\ ~DuplicateNames(Files, name)
         /\ \/ run.cmd.name # "pull" /\ UNCHANGED disk
            \/ \E schema \in SchemaNames(disk[run.dir], name) \cap DOMAIN server :
                 /\ run.cmd.name = "pull" /\ ~run.cmd.format
                 /\ disk' = [disk EXCEPT ![run.dir].charset = server[schema].charset]
    /\ run' = NextDir(run, CodeFatalError)
    /\ bounds' = [bounds EXCEPT !.faults = @ + 1]
    /\ UNCHANGED <<host, server, done>>

-----------------------------------------------------------------------------
(* DumpSchema *)

DumpObject ==
    /\ run.pc = "dump"
    /\ \E key \in run.todo :
         run' = [run EXCEPT !.todo = @ \ {key},
                            !.mem = UpdateCreate(@, run.schema, key, run.objects[key], run.opts)]
    /\ UNCHANGED <<host, disk, server, done, bounds>>

\* The objects that are gone, then the list of dirty files.
DumpGone ==
    /\ run.pc = "dump" /\ run.todo = {}
    /\ LET mem == RemoveGone(run.mem, run.schema, DOMAIN run.objects, run.opts)
       IN  run' = [run EXCEPT !.pc = "write", !.mem = mem, !.count = @ + Cardinality(mem.dirty)]
    /\ UNCHANGED <<host, disk, server, done, bounds>>

\* Mutant: a file is deleted as soon as it has no CREATE left.
WriteKeepsOnlyCreates(files, f, stmts) ==
    IF \E n \in DOMAIN stmts : stmts[n].type = "create" THEN Put(files, f, FileText(stmts))
    ELSE Without(files, f)

\* SQLFile.Write: a file with nothing but comments and commands is deleted.
Write(files, f, stmts) ==
    IF KeepFile(stmts) THEN Put(files, f, FileText(stmts)) ELSE Without(files, f)

WriteFile ==
    /\ run.pc = "write"
    /\ \E f \in run.mem.dirty :
         /\ run' = [run EXCEPT !.mem.dirty = @ \ {f}]
         /\ disk' = IF run.opts.count THEN disk
                    ELSE [disk EXCEPT ![run.dir].files = Write(@, f, run.mem.files[f])]
    /\ UNCHANGED <<host, server, done, bounds>>

\* What an error of DumpSchema makes of the command.
DumpFailed(r) ==
    CASE r.cmd.name = "init" -> [r EXCEPT !.pc = "exit", !.exit = CodeCantCreate]
      [] r.cmd.name = "pull" /\ r.dirs = <<>> ->         \* in findNewSchemas
           [r EXCEPT !.pc = "exit", !.exit = CodePartialError]
      [] r.cmd.name = "lint" -> NextDir(r, 0)            \* only logged
      [] OTHER -> NextDir(r, CodeFatalError)

\* A write fails: the file is as it was, or (disk full) it is empty now.
WriteFails ==
    /\ run.pc = "write" /\ ~run.opts.count
    /\ bounds.faults < MaxFaults
    /\ \E f \in run.mem.dirty, fault \in Faults \ {"workspace"} :
         LET unchanged == fault = "refused" \/ ~KeepFile(run.mem.files[f])
             written == run.count - Cardinality(run.mem.dirty)
         IN  /\ disk' = IF unchanged THEN disk
                        ELSE [disk EXCEPT ![run.dir].files = Put(@, f, <<>>)]
             /\ run' = DumpFailed([run EXCEPT !.count = written,
                                              !.emptied = IF unchanged THEN @ ELSE @ \cup {<<run.dir, f>>}])
    /\ bounds' = [bounds EXCEPT !.faults = @ + 1]
    /\ UNCHANGED <<host, server, done>>

EndDump ==
    /\ run.pc = "write" /\ run.mem.dirty = {}
    /\ run' = IF run.dirs = <<>> THEN [run EXCEPT !.pc = "new", !.dir = NoDir]
              ELSE NextDir(run, 0)
    /\ UNCHANGED <<host, disk, server, done, bounds>>

-----------------------------------------------------------------------------
(* Schemas without a directory *)

\* The end of the walk: pull looks for new schemas unless something failed.
EndWalk ==
    /\ run.pc = "walk" /\ run.dirs = <<>>
    /\ run' = [run EXCEPT !.pc = IF run.cmd.name = "pull" /\ run.cmd.newSchemas /\ run.exit = 0
                                 THEN "new" ELSE "exit"]
    /\ UNCHANGED <<host, disk, server, done, bounds>>

NewDirOptions(c) ==
    [auto |-> c.includeAutoInc, part |-> "permissive", count |-> FALSE, skip |-> {},
     onlyDiff |-> FALSE, only |-> {}]

\* PopulateSchemaDir, for the next schema that no directory maps to.
PopulateSchemaDir ==
    LET new == {s \in DOMAIN server : s \notin run.seen \cup IgnoreSchema \cup {TempSchema}}
        first == SelectSeq(DirOrder, LAMBDA d : d \in new)
        s == Head(first)
        r == [run EXCEPT !.seen = @ \cup {s}, !.dir = s]
        emptyDir == [schema |-> s, charset |-> server[s].charset, files |-> <<>>]
    IN  /\ run.pc = "new"
        /\ IF first = <<>>
           THEN run' = [run EXCEPT !.pc = "exit"] /\ UNCHANGED disk
           ELSE IF s \in DOMAIN disk          \* has *.sql files or a .skeema file
           THEN run' = DumpFailed(run) /\ UNCHANGED disk
           ELSE /\ disk' = Put(disk, s, emptyDir)
                /\ run' = Dumping(r, <<>>, "", Objects(server[s].objects), NewDirOptions(run.cmd))
        /\ UNCHANGED <<host, server, done, bounds>>

\* The exit code of lint: errors, then warnings, then reformatted files.
LintCode(r) ==
    IF r.exit > 0 THEN r.exit
    ELSE IF r.errors > 0 THEN CodeFatalError
    ELSE IF r.warnings > 0 THEN CodePartialError
    ELSE IF r.count > 0 THEN CodeDifferencesFound ELSE CodeSuccess

ExitCode(r) ==
    CASE r.cmd.name = "lint" -> LintCode(r)
      [] r.cmd.name = "format" /\ r.count > 0 -> HighestExitCode(r.exit, CodeDifferencesFound)
      [] OTHER -> r.exit

Exit ==
    /\ run.pc = "exit"
    /\ done' = Append(done, [cmd |-> run.cmd, exit |-> ExitCode(run), server |-> server,
                             before |-> run.before, after |-> disk, emptied |-> run.emptied,
                             count |-> run.count])
    /\ run' = Idle
    /\ UNCHANGED <<host, disk, server, bounds>>

\* No more commands are given; a command that hangs is a deadlock.
NoMoreCommands ==
    /\ run.pc = "idle" /\ Len(done) = MaxCommands
    /\ UNCHANGED vars

Next ==
    \/ NoMoreCommands
    \/ Change \/ Start \/ Parse \/ ParseFails \/ NothingHere \/ PullDir \/ CharSetFails \/ FormatDir \/ LintDir
    \/ WorkspaceFails \/ DumpObject \/ DumpGone \/ WriteFile \/ WriteFails \/ EndDump
    \/ EndWalk \/ PopulateSchemaDir \/ Exit

Spec == Init /\ [][Next]_vars

-----------------------------------------------------------------------------
(* Properties *)

\* The command that ended last, judged before anything else happens.
Ended == run.pc = "idle" /\ done # <<>>
Final == Last(done)

Nameless(dir) == ExecLogicalSchema(parseContents(dir).files, "")

\* What a directory's files say is what the server has, as far as the command
\* was asked to bring it over.
SameObjects(ws, live, c) ==
    /\ ws.failed = {}
    /\ DOMAIN ws.objects = DOMAIN live
    /\ \A k \in DOMAIN live :
         /\ ws.objects[k].v = live[k].v /\ ws.objects[k].block = live[k].block
         /\ c.includeAutoInc => ws.objects[k].auto = live[k].auto
         /\ c.updatePartitioning => ws.objects[k].part = live[k].part

Reflects(parsed, live, c) ==
    ~parsed.ParseError /\ SameObjects(ExecLogicalSchema(parsed.files, ""), live, c)

\* A statement that is only read as one because nothing is behind it: a BEGIN
\* block in a file without DELIMITER, or unparsed SQL without its delimiter.
OpenEnded(stmt) ==
    \/ stmt.compound /\ stmt.delimiter = Semicolon
    \/ stmt.type = "unknown" /\ ~Contains(Trailer(stmt), stmt.delimiter)

Occurs(part, text) == \E n \in 0..(Len(text) - Len(part)) : part = SubSeq(text, n + 1, n + Len(part))

\* An open-ended statement that is still in its file, but not read as a
\* statement any more: something was appended to it, or a DELIMITER command
\* was put in front of it. AddStatement and EditStatementText do not see to it.
MisreadIn(old, new) ==
    \E n \in DOMAIN ParseStatements(old).stmts :
        LET stmt == ParseStatements(old).stmts[n] IN
        /\ OpenEnded(stmt) /\ Occurs(Body(stmt), new)
        /\ \A m \in DOMAIN ParseStatements(new).stmts : Body(ParseStatements(new).stmts[m]) # Body(stmt)

Misread(end, d) ==
    /\ d \in DOMAIN end.before
    /\ \E f \in DOMAIN end.before[d].files \cap DOMAIN end.after[d].files :
         /\ end.before[d].files[f] # end.after[d].files[f]
         /\ MisreadIn(end.before[d].files[f], end.after[d].files[f])

\* A directory that pull brings up to date.
Pulled(dir) == dir.schema \notin IgnoreSchema \cup {""}

\* After a pull (or an init) that reports success, reading the files back and
\* running them gives the live schema: every object, once, with its current
\* definition, and nothing else; in whichever order objects and files were
\* handled, with or without reformatting, and also when earlier commands
\* failed half-way.  The one exception are files with an open-ended statement,
\* which a rewrite may make unreadable (see AppendedIsRead).  Every schema of
\* the server has one directory, unless the command was told not to look for
\* new ones.
PullReflectsServer ==
    Ended /\ Final.cmd.name \in {"pull", "init"} /\ Final.exit = 0 =>
        /\ \A d \in DOMAIN disk :
             Pulled(disk[d]) =>
                /\ disk[d].schema \in DOMAIN Final.server
                /\ disk[d].charset = Final.server[disk[d].schema].charset
                /\ \/ Misread(Final, d)
                   \/ Reflects(parseContents(disk[d]),
                               Objects(Final.server[disk[d].schema].objects), Final.cmd)
        /\ Final.cmd.name = "init" \/ Final.cmd.newSchemas =>
             \A s \in DOMAIN Final.server \ (IgnoreSchema \cup {TempSchema}) :
                Cardinality({d \in DOMAIN disk : disk[d].schema = s}) = 1

\* AddStatement's comment has it that the last statement of a file gets its
\* delimiter before another one is put behind it (sqlfile.go:91-93): every
\* object is found again in the files after a pull that reports success.
AppendedIsRead ==
    Ended /\ Final.cmd.name = "pull" /\ Final.exit = 0 =>
        \A d \in {e \in DOMAIN disk : Pulled(disk[e])} :
            \A key \in DOMAIN Objects(Final.server[disk[d].schema].objects) :
                \E pos \in CreatesOf(parseContents(disk[d]).files, "") :
                    At(parseContents(disk[d]).files, pos).key = key

\* Two commands in a row that look at the same schemas.
Twice(first, second) ==
    /\ Ended /\ Len(done) > 1
    /\ done[Len(done) - 1].cmd.name = first /\ Final.cmd.name = second
    /\ done[Len(done) - 1].server = Final.server

Previous == done[Len(done) - 1]

\* Did the command before last leave files that read differently?
PulledWell == Previous.exit = 0 /\ \A d \in DOMAIN Previous.after : ~Misread(Previous, d)

\* What has been pulled or formatted successfully is left alone when the same
\* command is given again: the files are a fixed point of what rewrites them.
\* format has nothing to do behind a pull that reformats, unless the pull was
\* told to keep partitioning clauses as they are spelled, or passed over a
\* directory because of ignore-schema, which format does not look at.  Behind a pull that
\* made an open-ended statement unreadable there is more to do.
Settles ==
    /\ Twice("pull", "pull") /\ Previous.cmd = Final.cmd /\ PulledWell
         => Final.count = 0 /\ Final.after = Final.before
    /\ Twice("format", "format") /\ Previous.cmd = Final.cmd /\ Previous.cmd.write /\ Previous.exit <= 1
         => Final.count = 0 /\ Final.after = Final.before
    /\ /\ Twice("pull", "format") /\ Previous.cmd.format /\ Previous.cmd.updatePartitioning /\ PulledWell
       /\ \A d \in DOMAIN Final.before : Pulled(Final.before[d])
       => Final.count = 0

\* format and lint rewrite statements, never what they mean: the objects that a
\* workspace makes of a directory and the statements it refuses stay the same.
FormatKeepsMeaning ==
    Ended /\ Final.cmd.name \in {"format", "lint"} =>
        \A d \in DOMAIN disk :
            \/ disk[d] = Final.before[d]
            \/ \E f \in DOMAIN disk[d].files : <<d, f>> \in Final.emptied
            \/ Nameless(disk[d]) = Nameless(Final.before[d])

\* Does pull remove a directory, with everything in it?  The schema that is
\* missing is the one of its first logical schema: when all CREATEs are behind
\* a USE, that one, though the directory's own schema may still exist.
Removed(dir, files) ==
    /\ Final.cmd.name = "pull"
    /\ \E name \in FirstLogicalSchema(dir, files) :
         SchemaNames(dir, name) # {} /\ SchemaNames(dir, name) \cap DOMAIN Final.server = {}

Unparsed(files) == {<<pos[1], Body(At(files, pos))>> : pos \in UnparsedStatements(files)}

Kept(d, old) ==
    \/ d \in DOMAIN disk /\ disk[d] = Final.before[d]
    \/ old.ParseError \/ Removed(Final.before[d], old.files)
    \/ /\ d \in DOMAIN disk
       /\ \A u \in Unparsed(old.files) :
            \/ <<d, u[1]>> \in Final.emptied
            \/ u \in Unparsed(parseContents(disk[d]).files)
            \/ u[1] \in DOMAIN disk[d].files /\ MisreadIn(Final.before[d].files[u[1]], disk[d].files[u[1]])

\* Statements that are not parsed (INSERTs, views) survive every command in
\* the file they are in, with two exceptions: pull removes a directory with
\* everything in it when the schema that its statements are for is not on the
\* server, even if that is not the directory's own schema; and unparsed SQL
\* without a delimiter runs into an object that is appended to its file.
UnparsedKept ==
    Ended => \A d \in DOMAIN Final.before : Kept(d, parseContents(Final.before[d]))

\* format without --write touches nothing and reports what format would do.
DryRunPredicts ==
    /\ Ended /\ Final.cmd.name = "format" /\ ~Final.cmd.write => disk = Final.before
    /\ /\ Twice("format", "format") /\ ~Previous.cmd.write /\ Final.cmd.write
       /\ Previous.exit <= 1 /\ Final.exit <= 1
       => Previous.count = Final.count /\ Previous.exit = Final.exit
=============================================================================
