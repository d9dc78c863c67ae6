------------------------------ MODULE SqlText ------------------------------
(***************************************************************************)
(* The text of a *.sql file and how internal/tengo splits it into          *)
(* statements: ParseStatements with the lexer below it, and the methods of *)
(* Statement that take a statement's text apart and put it together again. *)
(*                                                                         *)
(* A text is a sequence of lexemes, each a tuple whose head names it. A    *)
(* whole CREATE up to its BEGIN block is one lexeme                        *)
(*   <<"create", key, def, qualifier>>                                     *)
(* where key = [type, name], def is whatever the definition says, and      *)
(* qualifier is the schema name in front of the object's name ("" if       *)
(* none). What it means depends on where it stands: inside another         *)
(* statement, or in a comment, it is only text.                            *)
(***************************************************************************)
EXTENDS Naturals, Sequences, SequencesExt

Space == <<"space">>
Newline == <<"newline">>
Comment == <<"/* */">>
LineComment == <<"--">>
Semicolon == <<";">>
Slashes == <<"//">>
Begin == <<"begin">>
End == <<"end">>
Word == <<"word">>               \* the start of any SQL that is not parsed
Select == <<"select">>
OpenQuote == <<"'">>             \* a quote that is never closed
Delimiter == <<"delimiter">>
Use == <<"use">>
Database(d) == <<"database", d>>
Create(key, def, qualifier) == <<"create", key, def, qualifier>>

NoDelimiter == <<"none">>        \* "\000" of a DELIMITER command
UnknownDelimiter == <<"">>       \* the blank delimiter of ParseStatementInString
NoKey == [type |-> "", name |-> ""]

Whitespace == {Space, Newline}
Filler == {Space, Newline, Comment, LineComment}

-----------------------------------------------------------------------------
(* The parser. `mode` says what the lexemes read so far are the beginning  *)
(* of; "closing" is right behind a delimiter, whose token takes one        *)
(* newline with it.                                                        *)

newStatement(delim, db) ==
    [text |-> <<>>, type |-> "unknown", key |-> NoKey, qualifier |-> "",
     delimiter |-> delim, database |-> db, compound |-> FALSE]

newParser ==
    [result |-> <<>>, stmt |-> newStatement(Semicolon, ""), mode |-> "start",
     delimiter |-> Semicolon, explicitDelimiter |-> FALSE, newDelimiter |-> NoDelimiter,
     database |-> "", comment |-> FALSE, err |-> FALSE]

\* The end of a statement; a DELIMITER or USE command takes effect here.
finishStatement(p) ==
    LET delim == IF p.mode = "delimiter" /\ p.newDelimiter # NoDelimiter
                 THEN p.newDelimiter ELSE p.delimiter
    IN  [p EXCEPT !.result = Append(@, p.stmt), !.mode = "start", !.delimiter = delim,
                  !.explicitDelimiter = @ \/ p.mode = "delimiter",
                  !.newDelimiter = NoDelimiter,
                  !.stmt = newStatement(delim, p.database)]

\* The first lexeme of a statement chooses how the rest is read.
processor(p, x) ==
    IF x \in Filler THEN [p EXCEPT !.mode = "filler", !.stmt.type = "noop"]
    ELSE IF x = p.delimiter THEN [p EXCEPT !.mode = "closing", !.stmt.type = "noop"]
    ELSE IF x = Use THEN [p EXCEPT !.mode = "use"]
    ELSE IF x = Delimiter
    THEN [p EXCEPT !.mode = "delimiter", !.stmt.type = "command", !.stmt.delimiter = NoDelimiter]
    ELSE IF x[1] = "create"
    THEN [p EXCEPT !.mode = IF x[2].type = "table" THEN "table" ELSE "routine",
                   !.stmt.type = "create", !.stmt.key = x[2], !.stmt.qualifier = x[4]]
    ELSE [p EXCEPT !.mode = "until"]

processUntilDelimiter(p, x) == IF x = p.delimiter THEN [p EXCEPT !.mode = "closing"] ELSE p

processCreateTable(p, x) ==
    IF x = Select THEN [p EXCEPT !.err = TRUE] ELSE processUntilDelimiter(p, x)

\* Permissive parsing: behind BEGIN a delimiter only counts in a file that has
\* a DELIMITER command.
processStoredProgram(p, x) ==
    IF x = p.delimiter /\ (p.explicitDelimiter \/ ~p.stmt.compound)
    THEN [p EXCEPT !.mode = "closing"]
    ELSE [p EXCEPT !.stmt.compound = @ \/ x = Begin]

processUseCommand(p, x) ==
    IF x[1] = "database" /\ p.stmt.type = "unknown"
    THEN [p EXCEPT !.stmt.type = "command", !.database = x[2]]
    ELSE processUntilDelimiter(p, x)

processDelimiterCommand(p, x) ==
    [p EXCEPT !.newDelimiter = IF @ = NoDelimiter THEN x ELSE @]

\* One lexeme that is not filler, inside a statement.
processToken(p, x) ==
    CASE p.mode = "until" -> processUntilDelimiter(p, x)
      [] p.mode = "table" -> processCreateTable(p, x)
      [] p.mode = "routine" -> processStoredProgram(p, x)
      [] p.mode = "use" -> processUseCommand(p, x)
      [] p.mode = "delimiter" -> processDelimiterCommand(p, x)

\* A newline ends a client command, or is taken along by a delimiter.
EndsHere(p, x) == x = Newline /\ p.mode \in {"use", "delimiter", "closing"}

\* The statement ended before x: filler stops at the first thing that is none,
\* a delimiter without newline behind it stops right there.
EndsBefore(p, x) ==
    \/ p.mode = "filler" /\ ~p.comment /\ x \notin Filler
    \/ p.mode = "closing" /\ x # Newline

\* The state after lexeme x, of which `buffered` has x in its statement already.
ScanToken(p, x, buffered) ==
    IF p.mode = "start" THEN processor(buffered, x)
    ELSE IF EndsHere(p, x) THEN finishStatement(buffered)
    ELSE IF p.mode = "filler" \/ p.comment \/ x \in Filler THEN buffered
    ELSE processToken(buffered, x)

ScanLexeme(p, x) ==
    IF p.err \/ (x = OpenQuote /\ ~p.comment) THEN [p EXCEPT !.err = TRUE]
    ELSE ScanToken(p, x, [p EXCEPT !.stmt.text = Append(@, x),
                                   !.comment = x # Newline /\ (@ \/ x = LineComment)])

Scan(p, x) == ScanLexeme(IF EndsBefore(p, x) THEN finishStatement(p) ELSE p, x)

\* ParseStatements: the statements of a text, and whether reading it failed.
Finished(p) ==
    [err |-> p.err,
     stmts |-> IF p.mode = "start" THEN p.result ELSE finishStatement(p).result]

ParseStatements(text) ==
    LET scanned[n \in 0..Len(text)] == IF n = 0 THEN newParser ELSE Scan(scanned[n - 1], text[n])
    IN  Finished(scanned[Len(text)])

\* ParseStatementInString, for the single statement of a canonical CREATE.
ParseStatementInString(text) ==
    LET blank(stmt) == IF stmt.compound THEN [stmt EXCEPT !.delimiter = UnknownDelimiter] ELSE stmt
    IN  blank(ParseStatements(text).stmts[1])

-----------------------------------------------------------------------------
(* Statement *)

\* The text without a run of the lexemes in S at its end.
TrimRight(text, S) ==
    LET last == SelectLastInSeq(text, LAMBDA x : x \notin S) IN SubSeq(text, 1, last)

TrimSuffix(text, x) == IF text # <<>> /\ Last(text) = x THEN Front(text) ELSE text

\* SplitTextBody: [body, suffix].
Body(stmt) ==
    IF stmt.delimiter \in {NoDelimiter, UnknownDelimiter} THEN TrimRight(stmt.text, Whitespace)
    ELSE TrimRight(TrimSuffix(TrimRight(stmt.text, Whitespace), stmt.delimiter), Whitespace)

Trailer(stmt) == SubSeq(stmt.text, Len(Body(stmt)) + 1, Len(stmt.text))

NormalizeTrailer(stmt) ==
    LET undelimited(trailer) == /\ stmt.delimiter \notin {NoDelimiter, UnknownDelimiter}
                                /\ stmt.type \notin {"unknown", "noop"}
                                /\ ~Contains(trailer, stmt.delimiter)
        text(body, trailer) ==
            (IF undelimited(trailer) THEN body \o <<stmt.delimiter>> ELSE body) \o trailer
                \o (IF Contains(trailer, Newline) THEN <<>> ELSE <<Newline>>)
    IN  [stmt EXCEPT !.text = text(Body(stmt), Trailer(stmt))]

Schema(stmt) == IF stmt.qualifier # "" THEN stmt.qualifier ELSE stmt.database
=============================================================================
