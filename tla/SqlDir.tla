------------------------------- MODULE SqlDir -------------------------------
(***************************************************************************)
(* A directory of *.sql files as internal/fs holds it in memory, what the  *)
(* workspace makes of its statements, and what the dumper does to them.    *)
(*                                                                         *)
(* On disk a directory is [schema, charset, files]: what its .skeema file  *)
(* configures ("" for no schema) and a function from file names to texts.  *)
(* In memory the files are a function from names to sequences of           *)
(* statements. The code keeps pointers to the CREATE statements of a       *)
(* logical schema; here they are found by their key, which is unique.      *)
(*                                                                         *)
(* A definition is a record [v, block, style, auto, part, partStyle]:      *)
(* v is what the object is ("broken": SQL that the server refuses), block  *)
(* whether its body is a BEGIN block, style "canonical" when it is spelled *)
(* the way SHOW CREATE spells it, auto its AUTO_INCREMENT clause (0: none) *)
(* and part its PARTITION BY clause ("": none) with a spelling of its own. *)
(***************************************************************************)
EXTENDS SqlText, FiniteSets, Functions, Subsequence

CONSTANTS
    FileNameForObject,   \* the file a new object is put in, by its name
    LowerName,           \* what tables of that name are told apart by: the name in lower
                         \* case, or with lower_case_table_names=0 the name itself
    IgnoredNames         \* names that ignore-table, ignore-proc, ignore-func match

Canonical(def) == [def EXCEPT !.style = "canonical", !.partStyle = "canonical"]

\* The text of SHOW CREATE, or of a hand-written CREATE.
Text(key, def) ==
    <<Create(key, def, "")>> \o (IF def.block THEN <<Begin, Semicolon, End>> ELSE <<>>)

-----------------------------------------------------------------------------
(* Dir.parseContents *)

\* ObjectPattern.Match (tengo.go:75): a statement without a name, such as a command,
\* matches no pattern.
ShouldIgnore(key) == key.name # "" /\ key.name \in IgnoredNames

Positions(files) == UNION {{f} \X DOMAIN files[f] : f \in DOMAIN files}
At(files, pos) == files[pos[1]][pos[2]]

\* The CREATE statements that belong to some logical schema.
Creates(files) ==
    {pos \in Positions(files) :
        At(files, pos).type = "create" /\ ~ShouldIgnore(At(files, pos).key)}

CreatesOf(files, name) == {pos \in Creates(files) : Schema(At(files, pos)) = name}

DuplicateDefinition(files) ==
    \E a, b \in Creates(files) :
        /\ a # b
        /\ At(files, a).key = At(files, b).key
        /\ Schema(At(files, a)) = Schema(At(files, b))

\* Statements with the name of a schema in them: a USE command or a qualifier.
NamedSchemaStatements(files) ==
    {pos \in Positions(files) :
        LET stmt == At(files, pos) IN
        /\ stmt.type # "unknown" /\ ~ShouldIgnore(stmt.key)
        /\ stmt.qualifier # "" \/ (stmt.type = "command" /\ stmt.text[1] = Use)}

UnparsedStatements(files) ==
    {pos \in Positions(files) : At(files, pos).type = "unknown"}

parseContents(dir) ==
    LET parsed == [f \in DOMAIN dir.files |-> ParseStatements(dir.files[f])]
        files == [f \in DOMAIN dir.files |-> parsed[f].stmts]
    IN  [files |-> files,
         ParseError |-> \/ \E f \in DOMAIN parsed : parsed[f].err
                        \/ DuplicateDefinition(files)]

\* The names of a directory's logical schemas; the nameless one comes first,
\* the order of the others is that of a map.
LogicalSchemas(dir, files) ==
    LET names == {Schema(At(files, pos)) : pos \in Creates(files)}
    IN  IF names = {} /\ dir.schema # "" THEN {""} ELSE names

FirstLogicalSchema(dir, files) ==
    LET names == LogicalSchemas(dir, files) IN IF "" \in names THEN {""} ELSE names

\* The error of LowerCaseNames, with which pull and every workspace begin: two
\* tables of a logical schema whose names differ in nothing but their case.
DuplicateNames(files, name) ==
    \E a, b \in {pos \in CreatesOf(files, name) : At(files, pos).key.type = "table"} :
        a # b /\ LowerName[At(files, a).key.name] = LowerName[At(files, b).key.name]

-----------------------------------------------------------------------------
(* SQLFile *)

makeDelimiterCommand(new, db) ==
    [newStatement(NoDelimiter, db) EXCEPT !.type = "command",
                                          !.text = <<Delimiter, Space, new, Newline>>]

\* Write: the new text, and whether there is still something worth a file.
FileText(stmts) == FlattenSeq([n \in DOMAIN stmts |-> stmts[n].text])
KeepFile(stmts) == \E n \in DOMAIN stmts : stmts[n].type \notin {"noop", "command"}

PruneCommands(stmts) ==
    SubSeq(stmts, 1, SelectLastInSeq(stmts, LAMBDA stmt : stmt.type # "command"))

\* Mutant: the delimiter in force at the end of the file is not looked at.
AddAssumingSemicolon(stmts, new) ==
    LET pruned == PruneCommands(stmts)
        stmt == NormalizeTrailer([new EXCEPT !.delimiter = IF new.compound THEN Slashes ELSE Semicolon])
    IN  IF new.compound
        THEN pruned \o <<makeDelimiterCommand(Slashes, ""), stmt, makeDelimiterCommand(Semicolon, "")>>
        ELSE Append(pruned, stmt)

\* The new statement behind others that end with delimiter `current` in force,
\* between DELIMITER commands if it needs another one.
AppendStatement(stmts, new, delim, current, db) ==
    stmts
    \o (IF delim = current THEN <<>> ELSE <<makeDelimiterCommand(delim, db)>>)
    \o <<NormalizeTrailer([new EXCEPT !.delimiter = delim, !.database = db])>>
    \o (IF delim = Semicolon THEN <<>> ELSE <<makeDelimiterCommand(Semicolon, db)>>)

\* The delimiter for a statement where delimiter d is in force.
DelimiterFor(new, d) ==
    IF ~new.compound THEN Semicolon ELSE IF d = Semicolon THEN Slashes ELSE d

AddStatement(stmts, new) ==
    LET behind(front, last) ==
            AppendStatement(Append(front, NormalizeTrailer(last)), new,
                            DelimiterFor(new, last.delimiter), last.delimiter, last.database)
        added(pruned) ==
            IF pruned = <<>>
            THEN AppendStatement(<<>>, new, DelimiterFor(new, Semicolon), Semicolon, "")
            ELSE behind(Front(pruned), Last(pruned))
    IN  added(PruneCommands(stmts))

EditStatementText(stmts, n, text, compound) ==
    LET old == stmts[n]
    IN  IF old.delimiter # Semicolon \/ ~compound
        THEN [stmts EXCEPT ![n] = [old EXCEPT !.text = text \o Trailer(old), !.compound = compound]]
        ELSE SubSeq(stmts, 1, n - 1)
             \o <<makeDelimiterCommand(Slashes, old.database),
                  [old EXCEPT !.text = text \o <<Slashes, Newline>>, !.compound = TRUE,
                              !.delimiter = Slashes],
                  makeDelimiterCommand(Semicolon, old.database)>>
             \o SubSeq(stmts, n + 1, Len(stmts))

\* RemoveStatement, of every statement whose index is not in `remaining`.
RemoveStatements(stmts, remaining) == Pick(stmts, remaining)

-----------------------------------------------------------------------------
(* What a workspace makes of the statements of a logical schema *)

\* A text without filler, and without what a line comment hides.
Code(text) ==
    LET step(c, x) == [code |-> IF c.comment \/ x \in Filler THEN c.code ELSE Append(c.code, x),
                       comment |-> x # Newline /\ (c.comment \/ x = LineComment)]
    IN  FoldLeft(step, [code |-> <<>>, comment |-> FALSE], text).code

\* The server takes a statement that says one thing, and says it right.
Executes(stmt) ==
    LET def == stmt.text[1][3]
    IN  /\ def.v # "broken"
        /\ Code(Body(stmt)) = <<stmt.text[1]>> \o Tail(Text(stmt.key, def))

\* Objects of the logical schema after ExecLogicalSchema, and the failed keys.
ExecLogicalSchema(files, name) ==
    LET stmts == {At(files, pos) : pos \in CreatesOf(files, name)}
        good == {stmt \in stmts : Executes(stmt)}
        defOf(k) == (CHOOSE stmt \in good : stmt.key = k).text[1][3]
    IN  [objects |-> [k \in {stmt.key : stmt \in good} |-> Canonical(defOf(k))],
         failed |-> {stmt.key : stmt \in stmts \ good}]

-----------------------------------------------------------------------------
(* The dumper. Options are [auto, part, count, skip, onlyDiff, only]:        *)
(* IncludeAutoInc, Partitioning, CountOnly, skipKeys, and onlyKeys if set.  *)

shouldIgnore(opts, key) == key \in opts.skip \/ (opts.onlyDiff /\ key \notin opts.only)

\* ParseCreateAutoInc looks for the clause where SHOW CREATE puts it.
ParseCreateAutoInc(def) == IF def.style = "canonical" THEN def.auto ELSE 0

\* Mutant: the partitioning clause of the file is lost.
DropsPartitioning(def, stmts, opts) ==
    [def EXCEPT !.part = IF opts.part = "permissive" THEN @ ELSE ""]

\* The definition to write for an object: its live one, with the clauses that
\* the options take from the file instead. stmts: its statement, if it has one.
canonicalCreate(def, stmts, opts) ==
    LET old == (CHOOSE stmt \in stmts : TRUE).text[1][3]
        auto == IF opts.auto \/ (stmts # {} /\ ParseCreateAutoInc(old) > 1)
                THEN def.auto ELSE 0
    IN  IF opts.part = "keep" /\ stmts # {}
        THEN [def EXCEPT !.auto = auto, !.part = old.part, !.partStyle = old.partStyle]
        ELSE IF opts.part = "remove" THEN [def EXCEPT !.auto = auto, !.part = ""]
        ELSE [def EXCEPT !.auto = auto]

\* A new object goes to the end of the file for its name.
AddCreate(mem, file, new, opts) ==
    [files |-> [f \in DOMAIN mem.files \cup {file} |->
                   IF f # file THEN mem.files[f]
                   ELSE IF opts.count THEN IF f \in DOMAIN mem.files THEN mem.files[f] ELSE <<>>
                   ELSE AddStatement(IF f \in DOMAIN mem.files THEN mem.files[f] ELSE <<>>, new)],
     dirty |-> mem.dirty \cup {file}]

\* One that is there already is edited in place, if its text differs.
EditCreate(mem, pos, text, compound, opts) ==
    IF Body(At(mem.files, pos)) = text THEN mem
    ELSE [files |-> IF opts.count THEN mem.files
                    ELSE [mem.files EXCEPT ![pos[1]] = EditStatementText(@, pos[2], text, compound)],
          dirty |-> mem.dirty \cup {pos[1]}]

\* updateCreateStatements, for one object of the schema: [files, dirty].
UpdateCreate(mem, name, key, def, opts) ==
    LET update(found, text) ==
            IF found = {}
            THEN AddCreate(mem, FileNameForObject[key.name], ParseStatementInString(text), opts)
            ELSE EditCreate(mem, CHOOSE p \in found : TRUE, text, def.block, opts)
        create(found) ==
            update(found, Text(key, canonicalCreate(def, {At(mem.files, pos) : pos \in found}, opts)))
    IN  IF shouldIgnore(opts, key) THEN mem
        ELSE create({pos \in CreatesOf(mem.files, name) : At(mem.files, pos).key = key})

\* The rest of it: statements whose object is gone. mem is [files, dirty].
RemoveGone(mem, name, keys, opts) ==
    LET gone == {pos \in CreatesOf(mem.files, name) :
                    LET key == At(mem.files, pos).key
                    IN  key \notin keys /\ ~shouldIgnore(opts, key)}
        remaining(f) == {n \in DOMAIN mem.files[f] : <<f, n>> \notin gone}
    IN  [files |-> IF opts.count THEN mem.files
                   ELSE [f \in DOMAIN mem.files |-> RemoveStatements(mem.files[f], remaining(f))],
         dirty |-> mem.dirty \cup {pos[1] : pos \in gone}]
=============================================================================
