----------------------------- MODULE PullProofs -----------------------------
(***************************************************************************)
(* Proofs about format: without --write it changes nothing, and it says    *)
(* what the same command would do with --write.                            *)
(***************************************************************************)
EXTENDS Pull, SubsequenceProofs

----------------------------------------------------------------------------
(* The parser                                                              *)

Modes == {"start", "filler", "closing", "until", "table", "routine", "use", "delimiter"}

\* What the lexemes in L can put into a statement.
Values(L) == L \cup {x[2] : x \in L} \cup {x[4] : x \in L} \cup {NoKey, "", Semicolon, NoDelimiter}

Stmts(L) ==
    [text : Seq(L), type : {"unknown", "noop", "command", "create"}, key : Values(L),
     qualifier : Values(L), delimiter : Values(L), database : Values(L), compound : BOOLEAN]

Parsers(L) ==
    [result : Seq(Stmts(L)), stmt : Stmts(L), mode : Modes, delimiter : Values(L),
     explicitDelimiter : BOOLEAN, newDelimiter : Values(L), database : Values(L),
     comment : BOOLEAN, err : BOOLEAN]

\* A USE command, and a list of statements with one.
IsUse(stmt) == stmt.type = "command" /\ stmt.key = NoKey /\ Len(stmt.text) > 0 /\ stmt.text[1] = Use
UseSeen(stmts) == \E n \in 1..Len(stmts) : IsUse(stmts[n])

\* Where the database of a statement comes from.
Accounted(p) ==
    /\ p.database # "" => UseSeen(p.result) \/ (IsUse(p.stmt) /\ p.mode # "start")
    /\ p.stmt.database # "" => UseSeen(p.result)
    /\ \A n \in 1..Len(p.result) : p.result[n].database # "" => UseSeen(p.result)
    /\ p.mode = "start" => p.stmt.text = <<>> /\ p.stmt.key = NoKey
    /\ p.mode = "use" => p.stmt.key = NoKey /\ Len(p.stmt.text) > 0 /\ p.stmt.text[1] = Use

LEMMA ValuesFacts ==
    ASSUME NEW L
    PROVE  /\ NoKey \in Values(L) /\ "" \in Values(L) /\ Semicolon \in Values(L) /\ NoDelimiter \in Values(L)
           /\ \A x \in L : x \in Values(L) /\ x[2] \in Values(L) /\ x[4] \in Values(L)
BY Zenon DEF Values

LEMMA NewStatementFacts ==
    ASSUME NEW d, NEW db
    PROVE  /\ newStatement(d, db).text = <<>> /\ newStatement(d, db).key = NoKey
           /\ newStatement(d, db).database = db
BY Zenon DEF newStatement

LEMMA NewStatementType ==
    ASSUME NEW L, NEW d \in Values(L), NEW db \in Values(L)
    PROVE  newStatement(d, db) \in Stmts(L)
<1>1. NoKey \in Values(L) /\ "" \in Values(L)
  BY ValuesFacts
<1>2. <<>> \in Seq(L)
  OBVIOUS
<1> QED BY <1>1, <1>2 DEF newStatement, Stmts

LEMMA NewParserType ==
    ASSUME NEW L
    PROVE  newParser \in Parsers(L) /\ Accounted(newParser)
<1>1. Semicolon \in Values(L) /\ NoDelimiter \in Values(L) /\ "" \in Values(L)
  BY ValuesFacts
<1>2. newStatement(Semicolon, "") \in Stmts(L)
  BY <1>1, NewStatementType
<1>3. newParser \in Parsers(L)
  <2>1. <<>> \in Seq(Stmts(L)) /\ "start" \in Modes
    BY DEF Modes
  <2> QED BY <1>1, <1>2, <2>1 DEF newParser, Parsers
<1>4. /\ newParser.database = "" /\ newParser.result = <<>> /\ newParser.mode = "start"
      /\ newParser.stmt.database = "" /\ newParser.stmt.text = <<>> /\ newParser.stmt.key = NoKey
  BY Zenon DEF newParser, newStatement
<1>5. Len(<<>>) = 0
  OBVIOUS
<1>6. \A n \in 1..Len(newParser.result) : FALSE
  <2>1. Len(newParser.result) = 0
    BY <1>4, <1>5, Zenon
  <2> QED BY <2>1
<1>7. Accounted(newParser)
  BY <1>4, <1>6 DEF Accounted
<1> QED BY <1>3, <1>7

LEMMA LastOrBefore == \A l \in Nat : \A n \in 1..(l + 1) : n \in 1..l \/ n = l + 1
OBVIOUS

LEMMA FinishFacts ==
    ASSUME NEW L, NEW p \in Parsers(L), Accounted(p)
    PROVE  /\ finishStatement(p) \in Parsers(L) /\ Accounted(finishStatement(p))
           /\ finishStatement(p).mode = "start"
           /\ finishStatement(p).result = Append(p.result, p.stmt)
<1> DEFINE q == finishStatement(p)
           delim == IF p.mode = "delimiter" /\ p.newDelimiter # NoDelimiter
                    THEN p.newDelimiter ELSE p.delimiter
<1>1. delim \in Values(L) /\ p.database \in Values(L)
  BY DEF Parsers
<1>2. newStatement(delim, p.database) \in Stmts(L)
  BY <1>1, NewStatementType
<1>3. Append(p.result, p.stmt) \in Seq(Stmts(L)) /\ NoDelimiter \in Values(L) /\ "start" \in Modes
  <2>1. p.result \in Seq(Stmts(L)) /\ p.stmt \in Stmts(L)
    BY DEF Parsers
  <2>2. Append(p.result, p.stmt) \in Seq(Stmts(L))
    BY <2>1, AppendProperties
  <2> QED BY <2>2, ValuesFacts DEF Modes
<1>4. q = [p EXCEPT !.result = Append(p.result, p.stmt), !.mode = "start", !.delimiter = delim,
                    !.explicitDelimiter = p.explicitDelimiter \/ p.mode = "delimiter",
                    !.newDelimiter = NoDelimiter,
                    !.stmt = newStatement(delim, p.database)]
  BY DEF finishStatement
<1> HIDE DEF q, delim
<1>5. q \in Parsers(L)
  BY <1>1, <1>2, <1>3, <1>4 DEF Parsers
<1>6. /\ q.result = Append(p.result, p.stmt) /\ q.mode = "start" /\ q.database = p.database
      /\ q.stmt = newStatement(delim, p.database)
  BY <1>4 DEF Parsers
<1>7. /\ p.result \in Seq(Stmts(L)) /\ Len(p.result) \in Nat /\ Len(q.result) = Len(p.result) + 1
      /\ q.result[Len(p.result) + 1] = p.stmt
      /\ \A n \in 1..Len(p.result) : q.result[n] = p.result[n]
  <2>1. p.result \in Seq(Stmts(L)) /\ p.stmt \in Stmts(L)
    BY DEF Parsers
  <2> QED BY <1>6, <2>1, AppendProperties, LenProperties
<1>8. UseSeen(p.result) \/ IsUse(p.stmt) => UseSeen(q.result)
  <2>1. \A n \in 1..Len(p.result) : n \in 1..Len(q.result)
    BY <1>7
  <2>2. Len(p.result) + 1 \in 1..Len(q.result)
    BY <1>7
  <2> HIDE DEF IsUse
  <2> QED BY <1>7, <2>1, <2>2 DEF UseSeen
<1>9. q.database # "" => UseSeen(q.result)
  BY <1>6, <1>8 DEF Accounted
<1>10. q.stmt.database = p.database /\ q.stmt.text = <<>> /\ q.stmt.key = NoKey
  <2> DEFINE new == newStatement(delim, p.database)
  <2>1. new.database = p.database /\ new.text = <<>> /\ new.key = NoKey
    BY NewStatementFacts
  <2>2. q.stmt = new
    BY <1>6
  <2> HIDE DEF new
  <2> QED BY <2>1, <2>2, Zenon
<1>11. \A n \in 1..Len(q.result) : q.result[n].database # "" => UseSeen(q.result)
  <2> SUFFICES ASSUME NEW n \in 1..Len(q.result), q.result[n].database # ""
               PROVE  UseSeen(q.result)
    OBVIOUS
  <2>1. n \in 1..Len(p.result) \/ n = Len(p.result) + 1
    BY <1>7, LastOrBefore, Zenon
  <2>2. CASE n \in 1..Len(p.result)
    BY <1>7, <1>8, <2>2 DEF Accounted
  <2>3. CASE n = Len(p.result) + 1
    BY <1>7, <1>8, <2>3 DEF Accounted
  <2> QED BY <2>1, <2>2, <2>3
<1>12. Accounted(q)
  BY <1>6, <1>9, <1>10, <1>11 DEF Accounted
<1> QED BY <1>5, <1>6, <1>12 DEF q

\* p and q differ in nothing that Accounted looks at.
Alike(p, q) ==
    /\ q.result = p.result /\ q.database = p.database /\ q.stmt.database = p.stmt.database
    /\ q.stmt.text = p.stmt.text /\ q.stmt.key = p.stmt.key /\ q.stmt.type = p.stmt.type
    /\ q.mode = "use" => p.mode = "use"

LEMMA AlikeFacts ==
    ASSUME NEW p, NEW q, Accounted(p), p.mode # "start", q.mode # "start", Alike(p, q)
    PROVE  Accounted(q)
BY DEF Accounted, Alike, IsUse

LEMMA OneFacts ==
    ASSUME NEW x
    PROVE  Len(<<x>>) > 0 /\ <<x>>[1] = x
BY SingletonFacts

\* What processor leaves alone when it has read x, the first lexeme of a statement.
Begun(q, p, x) ==
    /\ q.result = p.result /\ q.database = p.database /\ q.stmt.database = p.stmt.database
    /\ q.stmt.text = p.stmt.text /\ q.mode # "start"
    /\ q.mode = "use" => q.stmt.key = p.stmt.key /\ x = Use

LEMMA ProcessorType ==
    ASSUME NEW L, NEW x \in L, NEW p \in Parsers(L)
    PROVE  processor(p, x) \in Parsers(L) /\ Begun(processor(p, x), p, x)
<1> DEFINE q == processor(p, x)
<1>1. /\ x \in Values(L) /\ x[2] \in Values(L) /\ x[4] \in Values(L) /\ NoDelimiter \in Values(L)
      /\ {"filler", "closing", "use", "delimiter", "table", "routine", "until"} \subseteq Modes
  BY ValuesFacts DEF Modes
<1>2. p.stmt \in Stmts(L)
  BY DEF Parsers
<1>3. q \in Parsers(L) /\ Begun(q, p, x)
  <2>1. CASE x \in Filler
    <3>1. q = [p EXCEPT !.mode = "filler", !.stmt.type = "noop"]
      BY <2>1 DEF processor
    <3> HIDE DEF q
    <3> QED BY <1>1, <1>2, <3>1 DEF Parsers, Stmts, Begun
  <2>2. CASE x \notin Filler /\ x = p.delimiter
    <3>1. q = [p EXCEPT !.mode = "closing", !.stmt.type = "noop"]
      BY <2>2 DEF processor
    <3> HIDE DEF q
    <3> QED BY <1>1, <1>2, <3>1 DEF Parsers, Stmts, Begun
  <2>3. CASE x \notin Filler /\ x # p.delimiter /\ x = Use
    <3>1. q = [p EXCEPT !.mode = "use"]
      BY <2>3 DEF processor
    <3> HIDE DEF q
    <3> QED BY <1>1, <1>2, <2>3, <3>1 DEF Parsers, Stmts, Begun
  <2>4. CASE x \notin Filler /\ x # p.delimiter /\ x # Use /\ x = Delimiter
    <3>1. q = [p EXCEPT !.mode = "delimiter", !.stmt.type = "command", !.stmt.delimiter = NoDelimiter]
      BY <2>4 DEF processor
    <3> HIDE DEF q
    <3> QED BY <1>1, <1>2, <3>1 DEF Parsers, Stmts, Begun
  <2>5. CASE x \notin Filler /\ x # p.delimiter /\ x # Use /\ x # Delimiter /\ x[1] = "create"
    <3>1. q = [p EXCEPT !.mode = IF x[2].type = "table" THEN "table" ELSE "routine",
                        !.stmt.type = "create", !.stmt.key = x[2], !.stmt.qualifier = x[4]]
      BY <2>5 DEF processor
    <3> DEFINE m == IF x[2].type = "table" THEN "table" ELSE "routine"
    <3>2. m \in {"table", "routine"}
      OBVIOUS
    <3> HIDE DEF m
    <3>3. q = [p EXCEPT !.mode = m, !.stmt.type = "create", !.stmt.key = x[2], !.stmt.qualifier = x[4]]
      BY <3>1 DEF m
    <3> HIDE DEF q
    <3> QED BY <1>1, <1>2, <3>2, <3>3 DEF Parsers, Stmts, Begun
  <2>6. CASE x \notin Filler /\ x # p.delimiter /\ x # Use /\ x # Delimiter /\ x[1] # "create"
    <3>1. q = [p EXCEPT !.mode = "until"]
      BY <2>6 DEF processor
    <3> HIDE DEF q
    <3> QED BY <1>1, <1>2, <3>1 DEF Parsers, Stmts, Begun
  <2> QED BY <2>1, <2>2, <2>3, <2>4, <2>5, <2>6
<1> QED BY <1>3

\* processor has read x, the first lexeme of a statement.
LEMMA ProcessorFacts ==
    ASSUME NEW L, NEW x \in L, NEW p \in Parsers(L), p.mode = "start", p.stmt.text = <<x>>,
           p.stmt.key = NoKey, p.database # "" => UseSeen(p.result),
           p.stmt.database # "" => UseSeen(p.result),
           \A n \in 1..Len(p.result) : p.result[n].database # "" => UseSeen(p.result)
    PROVE  /\ processor(p, x) \in Parsers(L) /\ Accounted(processor(p, x))
           /\ processor(p, x).mode # "start"
<1> DEFINE q == processor(p, x)
<1>3. q \in Parsers(L) /\ Begun(q, p, x)
  BY ProcessorType
<1> HIDE DEF q
<1>4. Len(<<x>>) > 0 /\ <<x>>[1] = x
  BY OneFacts, Zenon
<1>5. q.mode = "use" => q.stmt.key = NoKey /\ Len(q.stmt.text) > 0 /\ q.stmt.text[1] = Use
  BY <1>3, <1>4, Zenon DEF Begun
<1>6. Accounted(q)
  BY <1>3, <1>5, Zenon DEF Accounted, Begun
<1> QED BY <1>3, <1>6 DEF q, Begun

\* processToken has read x, inside a statement.
LEMMA TokenFacts ==
    ASSUME NEW L, NEW x \in L, NEW p \in Parsers(L), Accounted(p),
           p.mode \in {"until", "table", "routine", "use", "delimiter"}
    PROVE  /\ processToken(p, x) \in Parsers(L) /\ Accounted(processToken(p, x))
           /\ processToken(p, x).mode # "start"
<1> DEFINE q == processToken(p, x)
           until == processUntilDelimiter(p, x)
<1>1. /\ x \in Values(L) /\ x[2] \in Values(L) /\ p.stmt \in Stmts(L)
      /\ "closing" \in Modes /\ TRUE \in BOOLEAN /\ p.mode # "start"
  BY ValuesFacts DEF Modes, Parsers
<1>2. until \in Parsers(L) /\ Alike(p, until) /\ until.mode # "start"
  BY <1>1 DEF processUntilDelimiter, Parsers, Alike
<1>3. Accounted(until)
  BY <1>1, <1>2, AlikeFacts
<1>4. CASE p.mode = "until"
  BY <1>2, <1>3, <1>4 DEF processToken
<1>5. CASE p.mode = "table"
  <2>1. q = processCreateTable(p, x)
    BY <1>5 DEF processToken
  <2>2. CASE x = Select
    <3>1. q = [p EXCEPT !.err = TRUE]
      BY <2>1, <2>2 DEF processCreateTable
    <3> HIDE DEF q
    <3>2. q \in Parsers(L) /\ Alike(p, q) /\ q.mode # "start"
      BY <1>1, <3>1 DEF Parsers, Alike
    <3>3. Accounted(q)
      BY <1>1, <3>2, AlikeFacts
    <3> QED BY <3>2, <3>3 DEF q
  <2>3. CASE x # Select
    BY <1>2, <1>3, <2>1, <2>3 DEF processCreateTable
  <2> QED BY <2>2, <2>3
<1>6. CASE p.mode = "routine"
  <2>1. q = processStoredProgram(p, x)
    BY <1>6 DEF processToken
  <2> HIDE DEF q
  <2>2. q \in Parsers(L) /\ Alike(p, q) /\ q.mode # "start"
    <3>1. CASE x = p.delimiter /\ (p.explicitDelimiter \/ ~p.stmt.compound)
      <4>1. q = [p EXCEPT !.mode = "closing"]
        BY <2>1, <3>1 DEF processStoredProgram
      <4> QED BY <1>1, <4>1 DEF Parsers, Alike
    <3>2. CASE ~(x = p.delimiter /\ (p.explicitDelimiter \/ ~p.stmt.compound))
      <4> DEFINE b == p.stmt.compound \/ x = Begin
      <4>1. q = [p EXCEPT !.stmt.compound = b]
        BY <2>1, <3>2 DEF processStoredProgram
      <4>2. b \in BOOLEAN
        OBVIOUS
      <4> HIDE DEF b
      <4> QED BY <1>1, <4>1, <4>2 DEF Parsers, Stmts, Alike
    <3> QED BY <3>1, <3>2
  <2>3. Accounted(q)
    BY <1>1, <2>2, AlikeFacts
  <2> QED BY <2>2, <2>3 DEF q
<1>7. CASE p.mode = "use"
  <2>1. q = processUseCommand(p, x)
    BY <1>7 DEF processToken
  <2>2. CASE x[1] = "database" /\ p.stmt.type = "unknown"
    <3>1. q = [p EXCEPT !.stmt.type = "command", !.database = x[2]]
      BY <2>1, <2>2 DEF processUseCommand
    <3> HIDE DEF q
    <3>2. /\ q \in Parsers(L) /\ q.mode = "use" /\ q.result = p.result /\ q.stmt.type = "command"
          /\ q.stmt.text = p.stmt.text /\ q.stmt.key = p.stmt.key /\ q.stmt.database = p.stmt.database
      BY <1>1, <1>7, <3>1 DEF Parsers, Stmts
    <3>3. IsUse(q.stmt)
      BY <1>7, <3>2 DEF IsUse, Accounted
    <3>4. Accounted(q)
      BY <1>7, <3>2, <3>3 DEF Accounted
    <3> QED BY <3>2, <3>4 DEF q
  <2>3. CASE ~(x[1] = "database" /\ p.stmt.type = "unknown")
    <3>1. q = until
      BY <2>1, <2>3 DEF processUseCommand
    <3> QED BY <1>2, <1>3, <3>1
  <2> QED BY <2>2, <2>3
<1>8. CASE p.mode = "delimiter"
  <2> DEFINE d == IF p.newDelimiter = NoDelimiter THEN x ELSE p.newDelimiter
  <2>1. q = [p EXCEPT !.newDelimiter = d]
    BY <1>8 DEF processToken, processDelimiterCommand
  <2>2. d \in Values(L)
    BY <1>1 DEF Parsers
  <2> HIDE DEF d, q
  <2>3. q \in Parsers(L) /\ Alike(p, q) /\ q.mode # "start"
    BY <1>1, <2>1, <2>2 DEF Parsers, Alike
  <2>4. Accounted(q)
    BY <1>1, <2>3, AlikeFacts
  <2> QED BY <2>3, <2>4 DEF q
<1> QED BY <1>4, <1>5, <1>6, <1>7, <1>8

\* A statement is open, or there is one already.
Going(p) == p.mode # "start" \/ Len(p.result) > 0

\* The lexeme x is added to the statement that is being read.
Buffer(p, x, c) == [p EXCEPT !.stmt.text = Append(@, x), !.comment = c]

LEMMA BufferFacts ==
    ASSUME NEW L, NEW x \in L, NEW p \in Parsers(L), NEW c \in BOOLEAN
    PROVE  /\ Buffer(p, x, c) \in Parsers(L)
           /\ \E q \in Parsers(L) :
                /\ q = Buffer(p, x, c) /\ q.mode = p.mode /\ q.result = p.result /\ q.database = p.database
                /\ q.stmt.database = p.stmt.database /\ q.stmt.key = p.stmt.key /\ q.stmt.type = p.stmt.type
                /\ q.stmt.text = Append(p.stmt.text, x) /\ q.err = p.err
<1> DEFINE q == Buffer(p, x, c)
           a == Append(p.stmt.text, x)
<1>1. p.stmt \in Stmts(L) /\ p.stmt.text \in Seq(L)
  BY DEF Parsers, Stmts
<1>2. a \in Seq(L)
  BY <1>1, AppendProperties
<1> HIDE DEF a
<1>3. q = [p EXCEPT !.stmt.text = a, !.comment = c]
  BY DEF Buffer, a
<1> HIDE DEF q
<1>4. q \in Parsers(L)
  BY <1>1, <1>2, <1>3 DEF Parsers, Stmts
<1>5. /\ q.mode = p.mode /\ q.result = p.result /\ q.database = p.database
      /\ q.stmt.database = p.stmt.database /\ q.stmt.key = p.stmt.key /\ q.stmt.type = p.stmt.type
      /\ q.stmt.text = a /\ q.err = p.err
  BY <1>1, <1>2, <1>3 DEF Parsers, Stmts
<1> QED BY <1>4, <1>5, Zenon DEF q, a

LEMMA AppendText ==
    ASSUME NEW L, NEW s \in Seq(L), NEW x \in L
    PROVE  /\ s = <<>> => Append(s, x) = <<x>>
           /\ Len(s) > 0 => Len(Append(s, x)) > 0 /\ Append(s, x)[1] = s[1]
<1>1. ASSUME s = <<>> PROVE Append(s, x) = <<x>>
  <2>1. Append(<<>>, x) = <<x>>
    OBVIOUS
  <2> QED BY <1>1, <2>1, Zenon
<1>2. /\ Len(s) \in Nat /\ Len(Append(s, x)) = Len(s) + 1
      /\ \A i \in 1..Len(s) : Append(s, x)[i] = s[i]
  BY AppendProperties, LenProperties
<1>3. ASSUME Len(s) > 0 PROVE Len(Append(s, x)) > 0 /\ Append(s, x)[1] = s[1]
  <2>1. 1 \in 1..Len(s) /\ Len(Append(s, x)) > 0
    BY <1>2, <1>3
  <2> QED BY <1>2, <2>1
<1> QED BY <1>1, <1>3

LEMMA ScanLexemeFacts ==
    ASSUME NEW L, NEW x \in L, NEW p \in Parsers(L), Accounted(p), ~EndsBefore(p, x)
    PROVE  /\ ScanLexeme(p, x) \in Parsers(L) /\ Accounted(ScanLexeme(p, x))
           /\ Going(p) \/ (~p.err /\ x # OpenQuote) => Going(ScanLexeme(p, x))
<1> DEFINE c == x # Newline /\ (p.comment \/ x = LineComment)
           q == ScanLexeme(p, x)
<1>1. CASE p.err \/ (x = OpenQuote /\ ~p.comment)
  <2>1. q = [p EXCEPT !.err = TRUE]
    BY <1>1 DEF ScanLexeme
  <2> HIDE DEF q
  <2>2. q \in Parsers(L) /\ q.result = p.result /\ q.database = p.database /\ q.stmt = p.stmt
        /\ q.mode = p.mode
    BY <2>1 DEF Parsers
  <2>3. Accounted(q)
    BY <2>2 DEF Accounted
  <2>4. Going(p) => Going(q)
    BY <2>2 DEF Going
  <2> QED BY <1>1, <2>2, <2>3, <2>4 DEF q
<1>2. CASE ~(p.err \/ (x = OpenQuote /\ ~p.comment))
  <2>1. c \in BOOLEAN
    OBVIOUS
  <2>2. q = ScanToken(p, x, Buffer(p, x, c))
    BY <1>2 DEF ScanLexeme, Buffer
  <2> HIDE DEF c, q
  <2>3. PICK b \in Parsers(L) :
          /\ b = Buffer(p, x, c) /\ b.mode = p.mode /\ b.result = p.result /\ b.database = p.database
          /\ b.stmt.database = p.stmt.database /\ b.stmt.key = p.stmt.key /\ b.stmt.type = p.stmt.type
          /\ b.stmt.text = Append(p.stmt.text, x) /\ b.err = p.err
    BY <2>1, BufferFacts
  <2>4. p.stmt.text \in Seq(L)
    BY DEF Parsers, Stmts
  <2>5. CASE p.mode = "start"
    <3>1. q = processor(b, x)
      BY <2>2, <2>3, <2>5 DEF ScanToken
    <3>2. b.mode = "start" /\ b.stmt.text = <<x>> /\ b.stmt.key = NoKey
      BY <2>3, <2>4, <2>5, AppendText, Zenon DEF Accounted
    <3>3. /\ b.database # "" => UseSeen(b.result)
          /\ b.stmt.database # "" => UseSeen(b.result)
          /\ \A n \in 1..Len(b.result) : b.result[n].database # "" => UseSeen(b.result)
      BY <2>3, <2>5, Zenon DEF Accounted
    <3>4. q \in Parsers(L) /\ Accounted(q) /\ q.mode # "start"
      BY <3>1, <3>2, <3>3, ProcessorFacts, Zenon
    <3> QED BY <3>4 DEF Going, q
  <2>6. CASE p.mode # "start"
    <3>1. Accounted(b)
      <4>1. Len(p.stmt.text) > 0 => Len(b.stmt.text) > 0 /\ b.stmt.text[1] = p.stmt.text[1]
        <5>1. Len(p.stmt.text) > 0 => /\ Len(Append(p.stmt.text, x)) > 0
                                      /\ Append(p.stmt.text, x)[1] = p.stmt.text[1]
          BY <2>4, AppendText, Zenon
        <5> QED BY <2>3, <5>1, Zenon
      <4>2. IsUse(p.stmt) => IsUse(b.stmt)
        BY <2>3, <4>1, Zenon DEF IsUse
      <4> QED BY <2>3, <2>6, <4>1, <4>2, Zenon DEF Accounted
    <3>2. CASE EndsHere(p, x)
      <4>1. q = finishStatement(b)
        BY <2>2, <2>3, <2>6, <3>2 DEF ScanToken
      <4>2. q \in Parsers(L) /\ Accounted(q) /\ q.result = Append(b.result, b.stmt)
        BY <3>1, <4>1, FinishFacts
      <4>3. b.result \in Seq(Stmts(L)) /\ b.stmt \in Stmts(L)
        BY <2>3 DEF Parsers
      <4>4. Len(q.result) > 0
        BY <4>2, <4>3, AppendProperties, LenProperties
      <4> QED BY <4>2, <4>4 DEF Going, q
    <3>3. CASE ~EndsHere(p, x) /\ (p.mode = "filler" \/ p.comment \/ x \in Filler)
      <4>1. q = b
        BY <2>2, <2>3, <2>6, <3>3 DEF ScanToken
      <4> QED BY <2>3, <2>6, <3>1, <4>1 DEF Going, q
    <3>4. CASE ~EndsHere(p, x) /\ ~(p.mode = "filler" \/ p.comment \/ x \in Filler)
      <4>1. q = processToken(b, x)
        BY <2>2, <2>3, <2>6, <3>4 DEF ScanToken
      <4>2. p.mode # "closing"
        BY <3>4 DEF EndsBefore, EndsHere
      <4>3. b.mode \in {"until", "table", "routine", "use", "delimiter"}
        BY <2>3, <2>6, <3>4, <4>2 DEF Parsers, Modes
      <4>4. q \in Parsers(L) /\ Accounted(q) /\ q.mode # "start"
        BY <3>1, <4>1, <4>3, TokenFacts
      <4> QED BY <4>4 DEF Going, q
    <3> QED BY <3>2, <3>3, <3>4
  <2> QED BY <2>5, <2>6
<1> QED BY <1>1, <1>2

LEMMA ScanFacts ==
    ASSUME NEW L, NEW x \in L, NEW p \in Parsers(L), Accounted(p)
    PROVE  /\ Scan(p, x) \in Parsers(L) /\ Accounted(Scan(p, x))
           /\ Going(p) \/ (~p.err /\ x # OpenQuote) => Going(Scan(p, x))
<1>1. CASE ~EndsBefore(p, x)
  <2>1. Scan(p, x) = ScanLexeme(p, x)
    BY <1>1 DEF Scan
  <2> QED BY <1>1, <2>1, ScanLexemeFacts
<1>2. CASE EndsBefore(p, x)
  <2> DEFINE o == finishStatement(p)
  <2>1. Scan(p, x) = ScanLexeme(o, x)
    BY <1>2 DEF Scan
  <2>2. o \in Parsers(L) /\ Accounted(o) /\ o.mode = "start" /\ o.result = Append(p.result, p.stmt)
    BY FinishFacts
  <2> HIDE DEF o
  <2>3. ~EndsBefore(o, x)
    BY <2>2 DEF EndsBefore
  <2>4. p.result \in Seq(Stmts(L)) /\ p.stmt \in Stmts(L)
    BY DEF Parsers
  <2>5. Going(o)
    BY <2>2, <2>4, AppendProperties, LenProperties DEF Going
  <2> QED BY <2>1, <2>2, <2>3, <2>5, ScanLexemeFacts
<1> QED BY <1>1, <1>2

\* What ParseStatements makes of a text.
Scanned(f, text) == f = [n \in 0..Len(text) |-> IF n = 0 THEN newParser ELSE Scan(f[n - 1], text[n])]

LEMMA ScannedExists ==
    ASSUME NEW L, NEW text \in Seq(L)
    PROVE  \E f : Scanned(f, text)
<1> DEFINE N == Len(text)
           V == {p \in Parsers(L) : Accounted(p)}
           step == [n \in 0..N |-> [p \in V |-> IF n = 0 THEN p ELSE Scan(p, text[n])]]
<1>1. N \in Nat /\ 0 \in Nat /\ 0 <= N /\ \A n \in 1..N : text[n] \in L
  BY LenProperties, ElementOfSeq
<1>2. newParser \in V
  BY NewParserType
<1>3. \A n \in 1..N : \A p \in V : Scan(p, text[n]) \in V
  BY <1>1, ScanFacts
<1> HIDE DEF V
<1>4. step \in [0..N -> [V -> V]]
  <2>1. \A n \in 0..N : n # 0 => n \in 1..N
    BY <1>1
  <2> QED BY <1>3, <2>1
<1>5. PICK g : Recursive(g, 0, N, V, newParser, step)
  <2> HIDE DEF step
  <2> QED BY <1>1, <1>2, <1>4, Recursion, Zenon
<1>6. g \in [0..N -> V] /\ g[0] = newParser
  BY <1>5 DEF Recursive
<1>7. \A n \in 0..N : g[n] = IF n = 0 THEN newParser ELSE Scan(g[n - 1], text[n])
  <2> SUFFICES ASSUME NEW n \in 0..N, n # 0
               PROVE  g[n] = Scan(g[n - 1], text[n])
    BY <1>6
  <2>1. g[n] = step[n][g[n - 1]]
    BY <1>5 DEF Recursive
  <2>2. n - 1 \in 0..N /\ g[n - 1] \in V
    BY <1>1, <1>6
  <2> QED BY <2>1, <2>2
<1>8. Scanned(g, text)
  BY <1>6, <1>7 DEF Scanned
<1> QED BY <1>8

\* A statement, and the statements of a file.
IsStmt(stmt) ==
    /\ stmt = [text |-> stmt.text, type |-> stmt.type, key |-> stmt.key, qualifier |-> stmt.qualifier,
               delimiter |-> stmt.delimiter, database |-> stmt.database, compound |-> stmt.compound]
    /\ IsSeq(stmt.text)

AllStmts(stmts) == \A n \in 1..Len(stmts) : IsStmt(stmts[n])
IsStmts(stmts) == IsSeq(stmts) /\ AllStmts(stmts)

\* Databases come from USE commands among the statements.
FromUse(stmts) == \A n \in 1..Len(stmts) : stmts[n].database # "" => UseSeen(stmts)

LEMMA ParsedIsStmts ==
    ASSUME NEW L, NEW s \in Seq(Stmts(L))
    PROVE  IsStmts(s)
<1>1. \A stmt \in Stmts(L) : IsStmt(stmt)
  <2> SUFFICES ASSUME NEW stmt \in Stmts(L) PROVE IsStmt(stmt)
    OBVIOUS
  <2>1. stmt.text \in Seq(L)
    BY DEF Stmts
  <2>2. IsSeq(stmt.text)
    BY <2>1, IsSeqOf
  <2>3. stmt = [text |-> stmt.text, type |-> stmt.type, key |-> stmt.key, qualifier |-> stmt.qualifier,
                delimiter |-> stmt.delimiter, database |-> stmt.database, compound |-> stmt.compound]
    BY DEF Stmts
  <2> QED BY <2>2, <2>3 DEF IsStmt
<1>2. IsSeq(s) /\ \A n \in 1..Len(s) : s[n] \in Stmts(L)
  BY IsSeqOf, ElementOfSeq
<1> QED BY <1>1, <1>2 DEF IsStmts, AllStmts

LEMMA ParseFacts ==
    ASSUME NEW text, IsSeq(text)
    PROVE  /\ IsStmts(ParseStatements(text).stmts) /\ FromUse(ParseStatements(text).stmts)
           /\ Len(text) > 0 /\ text[1] # OpenQuote => Len(ParseStatements(text).stmts) > 0
<1> DEFINE L == ToSet(text)
           N == Len(text)
           F == CHOOSE f : Scanned(f, text)
<1>1. ParseStatements(text) = Finished(F[N])
  BY DEF ParseStatements, Scanned
<1>2. text \in Seq(L)
  BY DEF IsSeq
<1>3. N \in Nat /\ \A n \in 1..N : text[n] \in L
  BY SeqFacts
<1> HIDE DEF L
<1>4. Scanned(F, text)
  <2>1. \E f : Scanned(f, text)
    BY <1>2, ScannedExists
  <2> QED BY <2>1
<1> HIDE DEF F
<1>5. F[0] = newParser /\ \A n \in 1..N : F[n] = Scan(F[n - 1], text[n])
  <2>1. 0 \in 0..N /\ \A n \in 1..N : n \in 0..N /\ n # 0
    BY <1>3
  <2>2. \A n \in 0..N : F[n] = IF n = 0 THEN newParser ELSE Scan(F[n - 1], text[n])
    BY <1>4, Zenon DEF Scanned
  <2> QED BY <2>1, <2>2, Zenon
<1> HIDE DEF N
<1>6. ~newParser.err
  BY DEF newParser
<1> DEFINE B == {n \in 0..N : /\ F[n] \in Parsers(L) /\ Accounted(F[n])
                              /\ n > 0 /\ text[1] # OpenQuote => Going(F[n])}
<1>7. 0 \in B
  BY <1>3, <1>5, NewParserType
<1>8. ASSUME NEW n \in 0..N, n \in B, n + 1 <= N
      PROVE  n + 1 \in B
  <2> DEFINE p == F[n]
             x == text[n + 1]
  <2>1. n + 1 \in 1..N /\ n + 1 \in 0..N /\ (n + 1) - 1 = n /\ n + 1 > 0
    BY <1>3, <1>8
  <2>2. F[n + 1] = Scan(p, x) /\ x \in L
    BY <1>3, <1>5, <2>1
  <2>3. p \in Parsers(L) /\ Accounted(p) /\ (n > 0 /\ text[1] # OpenQuote => Going(p))
    BY <1>8
  <2>4. n = 0 => ~p.err /\ x = text[1]
    BY <1>5, <1>6
  <2>5. n = 0 \/ n > 0
    OBVIOUS
  <2> HIDE DEF p, x
  <2>6. /\ Scan(p, x) \in Parsers(L) /\ Accounted(Scan(p, x))
        /\ Going(p) \/ (~p.err /\ x # OpenQuote) => Going(Scan(p, x))
    BY <2>2, <2>3, ScanFacts
  <2> QED BY <2>1, <2>2, <2>3, <2>4, <2>5, <2>6, Zenon
<1>9. N \in B
  <2> HIDE DEF B
  <2>1. \A n \in 0..N : n \in B
    BY <1>3, <1>7, <1>8, Induction
  <2> QED BY <1>3, <2>1
<1> DEFINE p == F[N]
<1>10. p \in Parsers(L) /\ Accounted(p) /\ (N > 0 /\ text[1] # OpenQuote => Going(p))
  BY <1>9
<1> HIDE DEF p, B
<1>11. CASE p.mode = "start"
  <2>1. Finished(p).stmts = p.result
    BY <1>11 DEF Finished
  <2>2. p.result \in Seq(Stmts(L))
    BY <1>10 DEF Parsers
  <2>3. IsStmts(p.result) /\ FromUse(p.result)
    BY <1>10, <2>2, ParsedIsStmts DEF FromUse, Accounted
  <2>4. Going(p) => Len(p.result) > 0
    BY <1>11 DEF Going
  <2> QED BY <1>1, <1>10, <2>1, <2>3, <2>4 DEF p, N
<1>12. CASE p.mode # "start"
  <2> DEFINE q == finishStatement(p)
  <2>1. Finished(p).stmts = q.result
    BY <1>12 DEF Finished
  <2>2. q \in Parsers(L) /\ Accounted(q) /\ q.result = Append(p.result, p.stmt)
    BY <1>10, FinishFacts
  <2> HIDE DEF q
  <2>3. q.result \in Seq(Stmts(L)) /\ p.result \in Seq(Stmts(L)) /\ p.stmt \in Stmts(L)
    BY <1>10, <2>2 DEF Parsers
  <2>4. IsStmts(q.result) /\ FromUse(q.result)
    BY <2>2, <2>3, ParsedIsStmts DEF FromUse, Accounted
  <2>5. Len(q.result) > 0
    BY <2>2, <2>3, AppendProperties, LenProperties
  <2> QED BY <1>1, <1>10, <2>1, <2>4, <2>5 DEF p, N
<1> QED BY <1>11, <1>12

----------------------------------------------------------------------------
(* Statements                                                              *)

LEMMA SubSeqFacts ==
    ASSUME NEW s, IsSeq(s), NEW m \in Nat, NEW n \in Nat, 1 <= m, m <= n + 1, n <= Len(s)
    PROVE  /\ IsSeq(SubSeq(s, m, n)) /\ Len(SubSeq(s, m, n)) = (n - m) + 1
           /\ \A i \in 1..((n - m) + 1) : SubSeq(s, m, n)[i] = s[m + i - 1]
<1> DEFINE L == ToSet(s)
           t == SubSeq(s, m, n)
<1>1. s \in Seq(L) /\ Len(s) \in Nat
  BY SeqFacts DEF IsSeq
<1> HIDE DEF L
<1>2. m = n + 1 \/ (m \in 1..Len(s) /\ n \in m..Len(s))
  BY <1>1
<1>3. t \in Seq(L) /\ Len(t) = (n - m) + 1 /\ \A i \in 1..((n - m) + 1) : t[i] = s[m + i - 1]
  BY <1>1, <1>2
<1> QED BY <1>3, IsSeqOf

\* What is before the n-th element, and what is behind it.
LEMMA BeforeFacts ==
    ASSUME NEW s, IsSeq(s), NEW n \in 1..Len(s)
    PROVE  /\ IsSeq(SubSeq(s, 1, n - 1)) /\ Len(SubSeq(s, 1, n - 1)) = n - 1
           /\ \A i \in 1..(n - 1) : SubSeq(s, 1, n - 1)[i] = s[i]
<1> DEFINE k == n - 1
           u == SubSeq(s, 1, k)
<1>1. Len(s) \in Nat
  BY SeqFacts
<1>2. k \in Nat /\ k <= Len(s) /\ 1 \in Nat /\ 1 <= 1 /\ 1 <= k + 1
  BY <1>1
<1>3. (k - 1) + 1 = k /\ \A i \in 1..k : 1 + i - 1 = i
  BY <1>1
<1> HIDE DEF k
<1>4. IsSeq(u) /\ Len(u) = (k - 1) + 1 /\ \A i \in 1..((k - 1) + 1) : u[i] = s[1 + i - 1]
  BY <1>2, SubSeqFacts, Zenon
<1> HIDE DEF u
<1>5. IsSeq(u) /\ Len(u) = k /\ \A i \in 1..k : u[i] = s[i]
  BY <1>3, <1>4, Zenon
<1> QED BY <1>5, Zenon DEF k, u

LEMMA BehindFacts ==
    ASSUME NEW s, IsSeq(s), NEW n \in 1..Len(s)
    PROVE  /\ IsSeq(SubSeq(s, n + 1, Len(s))) /\ Len(SubSeq(s, n + 1, Len(s))) = Len(s) - n
           /\ \A i \in 1..(Len(s) - n) : SubSeq(s, n + 1, Len(s))[i] = s[n + i]
<1> DEFINE m == n + 1
           N == Len(s)
           w == SubSeq(s, m, N)
<1>1. N \in Nat /\ N <= Len(s)
  BY SeqFacts
<1>2. m \in Nat /\ 1 <= m /\ m <= N + 1
  BY <1>1
<1>3. (N - m) + 1 = N - n /\ \A i \in 1..(N - n) : m + i - 1 = n + i
  BY <1>1
<1> HIDE DEF m, N
<1>4. IsSeq(w) /\ Len(w) = (N - m) + 1 /\ \A i \in 1..((N - m) + 1) : w[i] = s[m + i - 1]
  BY <1>1, <1>2, SubSeqFacts, Zenon
<1> HIDE DEF w
<1>5. IsSeq(w) /\ Len(w) = N - n /\ \A i \in 1..(N - n) : w[i] = s[n + i]
  BY <1>3, <1>4, Zenon
<1> QED BY <1>5, Zenon DEF m, N, w

\* The last index in I, or 0.
LEMMA LastFacts ==
    ASSUME NEW n \in Nat, NEW I, I \subseteq 1..n
    PROVE  (IF I # {} THEN Max(I) ELSE 0) \in 0..n
<1>1. CASE I = {}
  BY <1>1
<1>2. CASE I # {}
  <2> DEFINE B == {n - i : i \in I}
  <2>1. B \subseteq Nat /\ B # {}
    <3>1. \A i \in I : n - i \in Nat
      OBVIOUS
    <3>2. PICK i : i \in I
      BY <1>2
    <3>3. n - i \in B
      BY <3>2
    <3> QED BY <3>1, <3>3
  <2>2. PICK b \in B : \A c \in B : b <= c
    BY <2>1, Least
  <2>3. PICK i \in I : b = n - i
    BY <2>2
  <2>4. \A j \in I : n - i <= n - j
    BY <2>2, <2>3
  <2>5. \A j \in I : i >= j
    BY <2>4
  <2>6. Max(I) \in I
    BY <2>5 DEF Max
  <2>7. Max(I) \in 0..n
    <3> DEFINE m == Max(I)
    <3>1. m \in I
      BY <2>6
    <3> HIDE DEF m
    <3>2. m \in 0..n
      BY <3>1
    <3> QED BY <3>2 DEF m
  <2> HIDE DEF Max, B
  <2> QED BY <1>2, <2>7, Zenon
<1> QED BY <1>1, <1>2

LEMMA TrimRightFacts ==
    ASSUME NEW text, IsSeq(text), NEW S
    PROVE  IsSeq(TrimRight(text, S)) /\ Len(TrimRight(text, S)) \in 0..Len(text)
<1> DEFINE I == {i \in 1..Len(text) : text[i] \notin S}
           last == IF I # {} THEN Max(I) ELSE 0
<1>1. Len(text) \in Nat
  BY SeqFacts
<1>2. last \in 0..Len(text)
  <2>1. I \subseteq 1..Len(text)
    OBVIOUS
  <2> HIDE DEF I
  <2> QED BY <1>1, <2>1, LastFacts, Zenon
<1>3. TrimRight(text, S) = SubSeq(text, 1, last)
  BY DEF TrimRight, SelectLastInSeq
<1> HIDE DEF last
<1>4. last \in Nat /\ 1 \in Nat /\ 1 <= 1 /\ 1 <= last + 1 /\ last <= Len(text) /\ (last - 1) + 1 = last
  BY <1>1, <1>2
<1>5. IsSeq(SubSeq(text, 1, last)) /\ Len(SubSeq(text, 1, last)) = (last - 1) + 1
  BY <1>4, SubSeqFacts
<1> QED BY <1>2, <1>3, <1>4, <1>5

LEMMA TrimSuffixFacts ==
    ASSUME NEW text, IsSeq(text), NEW x
    PROVE  IsSeq(TrimSuffix(text, x)) /\ Len(TrimSuffix(text, x)) \in 0..Len(text)
<1>1. Len(text) \in Nat
  BY SeqFacts
<1>2. CASE text # <<>> /\ Last(text) = x
  <2> DEFINE n == Len(text) - 1
  <2>1. n \in Nat /\ 1 \in Nat /\ 1 <= 1 /\ 1 <= n + 1 /\ n <= Len(text) /\ (n - 1) + 1 = n
    BY <1>1, <1>2, NonemptyFacts
  <2>2. TrimSuffix(text, x) = SubSeq(text, 1, n)
    BY <1>2 DEF TrimSuffix, Front
  <2> HIDE DEF n
  <2>3. IsSeq(SubSeq(text, 1, n)) /\ Len(SubSeq(text, 1, n)) = (n - 1) + 1
    BY <2>1, SubSeqFacts
  <2>4. n \in 0..Len(text)
    BY <1>1, <2>1
  <2> QED BY <2>1, <2>2, <2>3, <2>4
<1>3. CASE ~(text # <<>> /\ Last(text) = x)
  BY <1>1, <1>3 DEF TrimSuffix
<1> QED BY <1>2, <1>3

LEMMA BodyFacts ==
    ASSUME NEW stmt, IsStmt(stmt)
    PROVE  IsSeq(Body(stmt)) /\ Len(Body(stmt)) \in 0..Len(stmt.text)
<1> DEFINE a == TrimRight(stmt.text, Whitespace)
           b == TrimSuffix(a, stmt.delimiter)
           c == TrimRight(b, Whitespace)
<1>1. IsSeq(stmt.text) /\ Len(stmt.text) \in Nat
  BY SeqFacts DEF IsStmt
<1>2. IsSeq(a) /\ Len(a) \in 0..Len(stmt.text)
  BY <1>1, TrimRightFacts
<1> HIDE DEF a
<1>3. IsSeq(b) /\ Len(b) \in 0..Len(a)
  BY <1>2, TrimSuffixFacts
<1> HIDE DEF b
<1>4. IsSeq(c) /\ Len(c) \in 0..Len(b)
  BY <1>3, TrimRightFacts
<1>5. Body(stmt) = a \/ Body(stmt) = c
  BY DEF Body, a, b
<1> HIDE DEF c
<1>6. Len(c) \in 0..Len(stmt.text)
  BY <1>1, <1>2, <1>3, <1>4
<1> QED BY <1>2, <1>4, <1>5, <1>6, Zenon

LEMMA TrailerFacts ==
    ASSUME NEW stmt, IsStmt(stmt)
    PROVE  IsSeq(Trailer(stmt))
<1> DEFINE m == Len(Body(stmt)) + 1
           n == Len(stmt.text)
<1>1. IsSeq(stmt.text) /\ n \in Nat /\ Len(Body(stmt)) \in 0..n
  BY SeqFacts, BodyFacts DEF IsStmt
<1>2. m \in Nat /\ 1 <= m /\ m <= n + 1 /\ n <= Len(stmt.text)
  BY <1>1
<1>3. Trailer(stmt) = SubSeq(stmt.text, m, n)
  BY DEF Trailer
<1> HIDE DEF m, n
<1> QED BY <1>1, <1>2, <1>3, SubSeqFacts

\* Edits of a statement.
Record(text, type, key, qualifier, delimiter, database, compound) ==
    [text |-> text, type |-> type, key |-> key, qualifier |-> qualifier,
     delimiter |-> delimiter, database |-> database, compound |-> compound]

Records(text, type, key, qualifier, delimiter, database, compound) ==
    [text : {text}, type : {type}, key : {key}, qualifier : {qualifier},
     delimiter : {delimiter}, database : {database}, compound : {compound}]

LEMMA RecordFacts ==
    ASSUME NEW text, NEW type, NEW key, NEW qualifier, NEW d, NEW db, NEW c,
           NEW stmt, stmt = Record(text, type, key, qualifier, d, db, c)
    PROVE  /\ stmt.text = text /\ stmt.type = type /\ stmt.key = key /\ stmt.qualifier = qualifier
           /\ stmt.delimiter = d /\ stmt.database = db /\ stmt.compound = c
           /\ IsSeq(text) => IsStmt(stmt)
<1>1. /\ stmt.text = text /\ stmt.type = type /\ stmt.key = key /\ stmt.qualifier = qualifier
      /\ stmt.delimiter = d /\ stmt.database = db /\ stmt.compound = c
  BY DEF Record
<1>2. stmt = [text |-> stmt.text, type |-> stmt.type, key |-> stmt.key, qualifier |-> stmt.qualifier,
              delimiter |-> stmt.delimiter, database |-> stmt.database, compound |-> stmt.compound]
  BY <1>1 DEF Record
<1> QED BY <1>1, <1>2 DEF IsStmt

\* A statement with another text, delimiter, database and compound flag.
Rewrite(stmt, text, d, db, c) == Record(text, stmt.type, stmt.key, stmt.qualifier, d, db, c)

\* Two statements for the same object.
SameObject(new, old) ==
    /\ new.type = old.type /\ new.key = old.key /\ new.qualifier = old.qualifier
    /\ new.database = old.database

LEMMA StmtFacts ==
    ASSUME NEW stmt, IsStmt(stmt), NEW text, IsSeq(text), NEW d, NEW db, NEW c
    PROVE  /\ IsStmt([stmt EXCEPT !.text = text])
           /\ IsStmt([stmt EXCEPT !.delimiter = d])
           /\ IsStmt([stmt EXCEPT !.delimiter = d, !.database = db])
           /\ IsStmt([stmt EXCEPT !.text = text, !.compound = c])
           /\ SameObject([stmt EXCEPT !.text = text, !.compound = c], stmt)
           /\ IsStmt([stmt EXCEPT !.text = text, !.compound = c, !.delimiter = d])
           /\ SameObject([stmt EXCEPT !.text = text, !.compound = c, !.delimiter = d], stmt)
<1>1. stmt \in Records(stmt.text, stmt.type, stmt.key, stmt.qualifier, stmt.delimiter,
                        stmt.database, stmt.compound)
  BY DEF IsStmt, Records
<1>2. IsSeq(stmt.text)
  BY DEF IsStmt
<1>3. ASSUME NEW t, IsSeq(t), NEW e, NEW b, NEW p
      PROVE  IsStmt(Rewrite(stmt, t, e, b, p)) /\ (b = stmt.database => SameObject(Rewrite(stmt, t, e, b, p), stmt))
  BY <1>3, RecordFacts DEF SameObject, Rewrite
<1>4. /\ IsStmt([stmt EXCEPT !.text = text])
  <2> DEFINE q == [stmt EXCEPT !.text = text]
  <2>1. q \in Records(text, stmt.type, stmt.key, stmt.qualifier, stmt.delimiter, stmt.database, stmt.compound)
    BY <1>1 DEF Records
  <2> HIDE DEF q
  <2>2. q = Rewrite(stmt, text, stmt.delimiter, stmt.database, stmt.compound)
    BY <2>1 DEF Record, Records, Rewrite
  <2>3. IsStmt(q)
    BY <1>2, <1>3, <2>2
  <2> QED BY <2>3 DEF q
<1>5. /\ IsStmt([stmt EXCEPT !.delimiter = d])
  <2> DEFINE q == [stmt EXCEPT !.delimiter = d]
  <2>1. q \in Records(stmt.text, stmt.type, stmt.key, stmt.qualifier, d, stmt.database, stmt.compound)
    BY <1>1 DEF Records
  <2> HIDE DEF q
  <2>2. q = Rewrite(stmt, stmt.text, d, stmt.database, stmt.compound)
    BY <2>1 DEF Record, Records, Rewrite
  <2>3. IsStmt(q)
    BY <1>2, <1>3, <2>2
  <2> QED BY <2>3 DEF q
<1>6. /\ IsStmt([stmt EXCEPT !.delimiter = d, !.database = db])
  <2> DEFINE q == [stmt EXCEPT !.delimiter = d, !.database = db]
  <2>1. q \in Records(stmt.text, stmt.type, stmt.key, stmt.qualifier, d, db, stmt.compound)
    BY <1>1 DEF Records
  <2> HIDE DEF q
  <2>2. q = Rewrite(stmt, stmt.text, d, db, stmt.compound)
    BY <2>1 DEF Record, Records, Rewrite
  <2>3. IsStmt(q)
    BY <1>2, <1>3, <2>2
  <2> QED BY <2>3 DEF q
<1>7. /\ IsStmt([stmt EXCEPT !.text = text, !.compound = c])
      /\ SameObject([stmt EXCEPT !.text = text, !.compound = c], stmt)
  <2> DEFINE q == [stmt EXCEPT !.text = text, !.compound = c]
  <2>1. q \in Records(text, stmt.type, stmt.key, stmt.qualifier, stmt.delimiter, stmt.database, c)
    BY <1>1 DEF Records
  <2> HIDE DEF q
  <2>2. q = Rewrite(stmt, text, stmt.delimiter, stmt.database, c)
    BY <2>1 DEF Record, Records, Rewrite
  <2>3. IsStmt(q) /\ SameObject(q, stmt)
    BY <1>2, <1>3, <2>2
  <2> QED BY <2>3 DEF q
<1>8. /\ IsStmt([stmt EXCEPT !.text = text, !.compound = c, !.delimiter = d])
      /\ SameObject([stmt EXCEPT !.text = text, !.compound = c, !.delimiter = d], stmt)
  <2> DEFINE q == [stmt EXCEPT !.text = text, !.compound = c, !.delimiter = d]
  <2>1. q \in Records(text, stmt.type, stmt.key, stmt.qualifier, d, stmt.database, c)
    BY <1>1 DEF Records
  <2> HIDE DEF q
  <2>2. q = Rewrite(stmt, text, d, stmt.database, c)
    BY <2>1 DEF Record, Records, Rewrite
  <2>3. IsStmt(q) /\ SameObject(q, stmt)
    BY <1>2, <1>3, <2>2
  <2> QED BY <2>3 DEF q
<1> QED BY <1>4, <1>5, <1>6, <1>7, <1>8

LEMMA NormalizeFacts ==
    ASSUME NEW stmt, IsStmt(stmt)
    PROVE  IsStmt(NormalizeTrailer(stmt))
<1> DEFINE b == Body(stmt)
           t == Trailer(stmt)
           e == <<stmt.delimiter>>
           l == <<Newline>>
           o == <<>>
           U == /\ stmt.delimiter \notin {NoDelimiter, UnknownDelimiter}
                /\ stmt.type \notin {"unknown", "noop"}
                /\ ~Contains(t, stmt.delimiter)
           N == Contains(t, Newline)
           u == IF U THEN b \o e ELSE b
           v == IF N THEN o ELSE l
<1>1. NormalizeTrailer(stmt) = [stmt EXCEPT !.text = (u \o t) \o v]
  BY DEF NormalizeTrailer
<1>2. IsSeq(b) /\ IsSeq(t) /\ IsSeq(e) /\ IsSeq(l) /\ IsSeq(o)
  BY BodyFacts, TrailerFacts, SingletonFacts, EmptyFacts
<1> HIDE DEF b, t, e, l, o, U, N
<1>3. IsSeq(b \o e)
  BY <1>2, ConcatFacts
<1>4. IsSeq(u) /\ IsSeq(v)
  BY <1>2, <1>3
<1> HIDE DEF u, v
<1>5. IsSeq(u \o t)
  BY <1>2, <1>4, ConcatFacts
<1>6. IsSeq((u \o t) \o v)
  BY <1>4, <1>5, ConcatFacts
<1> DEFINE w == (u \o t) \o v
<1>7. IsSeq(w) /\ NormalizeTrailer(stmt) = [stmt EXCEPT !.text = w]
  BY <1>1, <1>6
<1> HIDE DEF w
<1>8. IsStmt([stmt EXCEPT !.text = w])
  BY <1>7, StmtFacts, Zenon
<1> QED BY <1>7, <1>8, Zenon

LEMMA CommandFacts ==
    ASSUME NEW d, NEW db
    PROVE  IsStmt(makeDelimiterCommand(d, db)) /\ makeDelimiterCommand(d, db).type = "command"
<1> DEFINE text == <<Delimiter, Space, d, Newline>>
           stmt == newStatement(NoDelimiter, db)
           c == makeDelimiterCommand(d, db)
<1>1. IsSeq(text)
  <2>1. text \in Seq({Delimiter, Space, d, Newline})
    OBVIOUS
  <2> QED BY <2>1, IsSeqOf
<1>2. c = [stmt EXCEPT !.type = "command", !.text = text]
  BY DEF makeDelimiterCommand
<1> HIDE DEF text, c
<1>3. c = [text |-> text, type |-> "command", key |-> NoKey, qualifier |-> "",
           delimiter |-> NoDelimiter, database |-> db, compound |-> FALSE]
  BY <1>2 DEF newStatement
<1>4. IsStmt(c) /\ c.type = "command"
  BY <1>1, <1>3 DEF IsStmt
<1> QED BY <1>4 DEF c

----------------------------------------------------------------------------
(* Files                                                                   *)

LEMMA StmtsConcat ==
    ASSUME NEW a, IsStmts(a), NEW b, IsStmts(b)
    PROVE  IsStmts(a \o b)
<1> DEFINE s == a \o b
<1>1. IsSeq(a) /\ IsSeq(b) /\ Len(a) \in Nat /\ Len(b) \in Nat
  BY SeqFacts DEF IsStmts
<1>2. IsSeq(s) /\ Len(s) = Len(a) + Len(b)
  BY <1>1, ConcatFacts
<1>3. \A i \in 1..Len(s) : s[i] = IF i <= Len(a) THEN a[i] ELSE b[i - Len(a)]
  BY <1>1, ConcatFacts
<1> HIDE DEF s
<1>4. ASSUME NEW i \in 1..Len(s) PROVE IsStmt(s[i])
  <2>1. i \in Nat /\ (i <= Len(a) => i \in 1..Len(a)) /\ (~(i <= Len(a)) => i - Len(a) \in 1..Len(b))
    BY <1>1, <1>2
  <2>2. CASE i <= Len(a)
    <3>1. s[i] = a[i]
      BY <1>3, <2>2
    <3> QED BY <2>1, <2>2, <3>1 DEF IsStmts, AllStmts
  <2>3. CASE ~(i <= Len(a))
    <3>1. s[i] = b[i - Len(a)]
      BY <1>3, <2>3
    <3> QED BY <2>1, <2>3, <3>1 DEF IsStmts, AllStmts
  <2> QED BY <2>2, <2>3
<1>5. IsStmts(s)
  BY <1>2, <1>4 DEF IsStmts, AllStmts
<1> QED BY <1>5 DEF s

LEMMA StmtsOne ==
    ASSUME NEW x, IsStmt(x)
    PROVE  IsStmts(<<x>>)
<1> DEFINE s == <<x>>
<1>1. IsSeq(s) /\ Len(s) = 1 /\ s[1] = x
  BY SingletonFacts
<1> HIDE DEF s
<1>2. \A n \in 1..Len(s) : s[n] = x
  BY <1>1
<1>3. IsStmts(s)
  BY <1>1, <1>2 DEF IsStmts, AllStmts
<1> QED BY <1>3 DEF s

LEMMA StmtsNone == IsStmts(<<>>)
<1> DEFINE s == <<>>
<1>1. IsSeq(s) /\ Len(s) = 0
  BY EmptyFacts
<1> HIDE DEF s
<1>2. \A n \in 1..Len(s) : FALSE
  BY <1>1
<1>3. IsStmts(s)
  BY <1>1, <1>2 DEF IsStmts, AllStmts
<1> QED BY <1>3 DEF s

LEMMA StmtsPart ==
    ASSUME NEW s, IsStmts(s), NEW m \in Nat, NEW n \in Nat, 1 <= m, m <= n + 1, n <= Len(s)
    PROVE  IsStmts(SubSeq(s, m, n))
<1> DEFINE t == SubSeq(s, m, n)
           l == (n - m) + 1
<1>1. IsSeq(s) /\ Len(s) \in Nat
  BY SeqFacts DEF IsStmts
<1>2. IsSeq(t) /\ Len(t) = l /\ \A i \in 1..l : t[i] = s[m + i - 1]
  BY <1>1, SubSeqFacts
<1>3. \A i \in 1..l : m + i - 1 \in 1..Len(s)
  BY <1>1
<1> HIDE DEF t, l
<1>4. IsStmts(t)
  BY <1>2, <1>3 DEF IsStmts, AllStmts
<1> QED BY <1>4 DEF t

LEMMA StmtsPick ==
    ASSUME NEW s, IsStmts(s), NEW I, I \subseteq 1..Len(s)
    PROVE  IsStmts(RemoveStatements(s, I))
<1>1. IsSeq(s)
  BY DEF IsStmts
<1> DEFINE t == Pick(s, I)
<1>2. \A k \in 1..Cardinality(I) : t[k] = s[Nth(I, k)]
  BY DEF Pick
<1>3. IsSeq(t) /\ Len(t) = Cardinality(I) /\ \A k \in 1..Cardinality(I) : Nth(I, k) \in I
  BY <1>1, PickFacts, ZenonT(40)
<1> HIDE DEF t
<1>4. IsStmts(t)
  BY <1>2, <1>3 DEF IsStmts, AllStmts
<1> QED BY <1>4 DEF t, RemoveStatements

LEMMA FileTextFacts ==
    ASSUME NEW stmts, IsStmts(stmts)
    PROVE  IsSeq(FileText(stmts))
<1> DEFINE texts == [n \in DOMAIN stmts |-> stmts[n].text]
           N == Len(stmts)
<1>1. N \in Nat /\ DOMAIN stmts = 1..N /\ \A n \in 1..N : IsSeq(stmts[n].text)
  BY SeqFacts DEF IsStmts, AllStmts, IsStmt
<1> HIDE DEF N
<1>2. texts = [i \in 1..N |-> texts[i]] /\ \A n \in 1..N : texts[n] = stmts[n].text
  BY <1>1
<1>3. FileText(stmts) = FlattenSeq(texts)
  BY DEF FileText
<1> HIDE DEF texts
<1>4. IsSeq(texts) /\ Len(texts) = N
  BY <1>1, <1>2, FunctionIsSeq
<1>5. \A n \in 1..Len(texts) : IsSeq(texts[n])
  BY <1>1, <1>2, <1>4
<1> QED BY <1>3, <1>4, <1>5, FlattenFacts

LEMMA AppendStatementFacts ==
    ASSUME NEW stmts, IsStmts(stmts), NEW new, IsStmt(new), NEW delim, NEW current, NEW db
    PROVE  IsStmts(AppendStatement(stmts, new, delim, current, db))
<1> DEFINE stmt == NormalizeTrailer([new EXCEPT !.delimiter = delim, !.database = db])
           a == <<makeDelimiterCommand(delim, db)>>
           b == <<stmt>>
           c == <<makeDelimiterCommand(Semicolon, db)>>
           o == <<>>
           u == IF delim = current THEN o ELSE a
           v == IF delim = Semicolon THEN o ELSE c
<1>1. IsStmt([new EXCEPT !.delimiter = delim, !.database = db])
  <2>1. IsSeq(<<>>)
    BY EmptyFacts
  <2> QED BY <2>1, StmtFacts
<1>2. IsStmt(stmt)
  BY <1>1, NormalizeFacts
<1>3. AppendStatement(stmts, new, delim, current, db) = ((stmts \o u) \o b) \o v
  BY DEF AppendStatement
<1> HIDE DEF stmt
<1>4. IsStmts(a) /\ IsStmts(b) /\ IsStmts(c) /\ IsStmts(o)
  BY <1>2, CommandFacts, StmtsOne, StmtsNone
<1> HIDE DEF a, b, c, o
<1>5. IsStmts(u) /\ IsStmts(v)
  BY <1>4
<1> HIDE DEF u, v
<1>6. IsStmts(stmts \o u)
  BY <1>5, StmtsConcat
<1>7. IsStmts((stmts \o u) \o b)
  BY <1>4, <1>6, StmtsConcat
<1>8. IsStmts(((stmts \o u) \o b) \o v)
  BY <1>5, <1>7, StmtsConcat
<1> QED BY <1>3, <1>8

LEMMA AddStatementFacts ==
    ASSUME NEW stmts, IsStmts(stmts), NEW new, IsStmt(new)
    PROVE  IsStmts(AddStatement(stmts, new))
<1> DEFINE pruned == PruneCommands(stmts)
           last == Last(pruned)
           front == Front(pruned)
           one == NormalizeTrailer(last)
<1>1. IsSeq(stmts) /\ Len(stmts) \in Nat
  BY SeqFacts DEF IsStmts
<1>2. IsStmts(pruned)
  <2> DEFINE I == {i \in 1..Len(stmts) : stmts[i].type # "command"}
             n == IF I # {} THEN Max(I) ELSE 0
  <2>1. n \in 0..Len(stmts)
    <3>1. I \subseteq 1..Len(stmts)
      OBVIOUS
    <3> HIDE DEF I
    <3> QED BY <1>1, <3>1, LastFacts, Zenon
  <2>2. pruned = SubSeq(stmts, 1, n)
    BY DEF PruneCommands, SelectLastInSeq
  <2> HIDE DEF n
  <2>3. n \in Nat /\ 1 \in Nat /\ 1 <= 1 /\ 1 <= n + 1 /\ n <= Len(stmts)
    BY <1>1, <2>1
  <2> QED BY <2>2, <2>3, StmtsPart
<1>3. CASE pruned = <<>>
  <2>1. AddStatement(stmts, new) = AppendStatement(<<>>, new, DelimiterFor(new, Semicolon), Semicolon, "")
    BY <1>3 DEF AddStatement
  <2> QED BY <2>1, StmtsNone, AppendStatementFacts
<1>4. CASE pruned # <<>>
  <2>1. AddStatement(stmts, new)
          = AppendStatement(Append(front, one), new, DelimiterFor(new, last.delimiter), last.delimiter, last.database)
    BY <1>4 DEF AddStatement
  <2> HIDE DEF pruned
  <2> DEFINE l == Len(pruned)
  <2>2. IsSeq(pruned) /\ l \in Nat /\ l # 0
    BY <1>2, <1>4, SeqFacts, NonemptyFacts DEF IsStmts
  <2>3. l \in 1..l /\ l - 1 \in Nat /\ 1 \in Nat /\ 1 <= 1 /\ 1 <= (l - 1) + 1 /\ l - 1 <= l
    BY <2>2
  <2>4. IsStmt(last)
    BY <1>2, <2>3 DEF IsStmts, AllStmts, Last
  <2>5. IsStmt(one)
    BY <2>4, NormalizeFacts
  <2>6. IsStmts(front)
    BY <1>2, <2>3, StmtsPart DEF Front
  <2> HIDE DEF one, front, last
  <2>7. IsStmts(<<one>>)
    BY <2>5, StmtsOne
  <2>8. IsStmts(front \o <<one>>)
    BY <2>6, <2>7, StmtsConcat
  <2>9. Append(front, one) = front \o <<one>>
    <3> DEFINE T == ToSet(front) \cup {one}
    <3>1. IsSeq(front) /\ ToSet(front) \subseteq T
      BY <2>6 DEF IsStmts
    <3>2. one \in T
      OBVIOUS
    <3> HIDE DEF T
    <3>3. front \in Seq(T)
      BY <3>1, SeqOver
    <3> QED BY <3>2, <3>3, AppendIsConcat
  <2>10. IsStmts(Append(front, one))
    BY <2>8, <2>9
  <2> QED BY <2>1, <2>10, AppendStatementFacts
<1> QED BY <1>3, <1>4

\* new is old with a new text for statement n, and perhaps commands around it: at
\* says which statement of old each one was, 0 for a command that was not there.
Edited(at, new, old, n) ==
    /\ at \in [1..Len(new) -> 0..Len(old)]
    /\ \A j \in 1..Len(new) : at[j] = 0 => new[j].type = "command"
    /\ \A j \in 1..Len(new) : at[j] # 0 /\ at[j] # n => new[j] = old[at[j]]
    /\ \A j \in 1..Len(new) : at[j] = n => SameObject(new[j], old[n])
    /\ \A m \in 1..Len(old) : \E j \in 1..Len(new) : at[j] = m
    /\ \A i, j \in 1..Len(new) : at[i] = at[j] /\ at[i] # 0 => i = j

LEMMA EditInPlace ==
    ASSUME NEW s, IsStmts(s), NEW n \in 1..Len(s), NEW x, IsStmt(x), SameObject(x, s[n])
    PROVE  /\ IsStmts([s EXCEPT ![n] = x])
           /\ \E at : Edited(at, [s EXCEPT ![n] = x], s, n)
<1> DEFINE t == [s EXCEPT ![n] = x]
           N == Len(s)
           at == [j \in 1..N |-> j]
<1>1. IsSeq(s) /\ N \in Nat /\ DOMAIN s = 1..N /\ s = [i \in 1..N |-> s[i]]
  BY SeqFacts DEF IsStmts
<1>2. t = [i \in 1..N |-> t[i]] /\ \A i \in 1..N : t[i] = IF i = n THEN x ELSE s[i]
  BY <1>1
<1> HIDE DEF t
<1>3. IsSeq(t) /\ Len(t) = N
  BY <1>1, <1>2, FunctionIsSeq
<1>4. IsStmts(t)
  BY <1>2, <1>3 DEF IsStmts, AllStmts
<1>5. Edited(at, t, s, n)
  <2>1. at \in [1..N -> 0..N] /\ \A j \in 1..N : at[j] = j /\ j # 0
    BY <1>1
  <2> HIDE DEF at
  <2>2. \A j \in 1..N : at[j] # n => t[j] = s[at[j]]
    BY <1>2, <2>1
  <2>3. \A j \in 1..N : at[j] = n => SameObject(t[j], s[n])
    BY <1>2, <2>1
  <2> HIDE DEF SameObject
  <2> QED BY <1>3, <2>1, <2>2, <2>3 DEF Edited
<1> QED BY <1>4, <1>5 DEF t

LEMMA EditBetween ==
    ASSUME NEW s, IsStmts(s), NEW n \in 1..Len(s), NEW x, IsStmt(x), SameObject(x, s[n]),
           NEW a, IsStmt(a), a.type = "command", NEW b, IsStmt(b), b.type = "command",
           NEW t, t = (SubSeq(s, 1, n - 1) \o <<a, x, b>>) \o SubSeq(s, n + 1, Len(s))
    PROVE  IsStmts(t) /\ \E at : Edited(at, t, s, n)
<1> DEFINE N == Len(s)
           u == SubSeq(s, 1, n - 1)
           v == <<a, x, b>>
           w == SubSeq(s, n + 1, N)
           at == [j \in 1..(N + 2) |-> IF j < n THEN j ELSE IF j = n \/ j = n + 2 THEN 0
                                       ELSE IF j = n + 1 THEN n ELSE j - 2]
<1>1. IsSeq(s) /\ N \in Nat
  BY SeqFacts DEF IsStmts
<1>2. /\ n - 1 \in Nat /\ 1 \in Nat /\ 1 <= 1 /\ 1 <= (n - 1) + 1 /\ n - 1 <= N /\ ((n - 1) - 1) + 1 = n - 1
      /\ n + 1 \in Nat /\ 1 <= n + 1 /\ n + 1 <= N + 1 /\ N <= N /\ (N - (n + 1)) + 1 = N - n
  BY <1>1
<1>3. IsStmts(u) /\ IsSeq(u) /\ Len(u) = n - 1 /\ \A i \in 1..(n - 1) : u[i] = s[i]
  <2>1. IsStmts(u)
    BY <1>2, StmtsPart
  <2>2. IsSeq(u) /\ Len(u) = n - 1 /\ \A i \in 1..(n - 1) : u[i] = s[i]
    BY <1>1, BeforeFacts, Zenon
  <2> QED BY <2>1, <2>2
<1>4. IsStmts(w) /\ IsSeq(w) /\ Len(w) = N - n /\ \A i \in 1..(N - n) : w[i] = s[n + i]
  <2>1. IsStmts(w)
    BY <1>2, StmtsPart
  <2>2. IsSeq(w) /\ Len(w) = N - n /\ \A i \in 1..(N - n) : w[i] = s[n + i]
    BY <1>1, BehindFacts, Zenon
  <2> QED BY <2>1, <2>2
<1>5. IsStmts(v) /\ IsSeq(v) /\ Len(v) = 3 /\ v[1] = a /\ v[2] = x /\ v[3] = b
  <2>1. v \in Seq({a, x, b}) /\ Len(v) = 3 /\ v[1] = a /\ v[2] = x /\ v[3] = b
    OBVIOUS
  <2> HIDE DEF v
  <2>2. IsSeq(v)
    BY <2>1, IsSeqOf
  <2>3. \A i \in 1..Len(v) : i = 1 \/ i = 2 \/ i = 3
    BY <2>1
  <2>4. AllStmts(v)
    BY <2>1, <2>3 DEF AllStmts
  <2> QED BY <2>1, <2>2, <2>4 DEF IsStmts
<1>6. t = (u \o v) \o w
  OBVIOUS
<1> HIDE DEF u, v, w
<1>7. IsStmts(t)
  BY <1>3, <1>4, <1>5, <1>6, StmtsConcat
<1> DEFINE y == u \o v
<1>8. /\ IsSeq(y) /\ Len(y) = n + 2
      /\ \A i \in 1..Len(y) : y[i] = IF i <= Len(u) THEN u[i] ELSE v[i - Len(u)]
  <2>1. /\ IsSeq(y) /\ Len(y) = Len(u) + Len(v)
        /\ \A i \in 1..Len(y) : y[i] = IF i <= Len(u) THEN u[i] ELSE v[i - Len(u)]
    BY <1>3, <1>5, ConcatFacts
  <2>2. Len(u) + Len(v) = n + 2
    BY <1>1, <1>3, <1>5
  <2> QED BY <2>1, <2>2
<1>9. /\ Len(t) = N + 2
      /\ \A i \in 1..(N + 2) : t[i] = IF i <= n + 2 THEN y[i] ELSE w[i - (n + 2)]
  <2>1. /\ Len(t) = Len(y) + Len(w)
        /\ \A i \in 1..Len(t) : t[i] = IF i <= Len(y) THEN y[i] ELSE w[i - Len(y)]
    <3> DEFINE z == y \o w
    <3>1. /\ Len(z) = Len(y) + Len(w)
          /\ \A i \in 1..Len(z) : z[i] = IF i <= Len(y) THEN y[i] ELSE w[i - Len(y)]
      BY <1>4, <1>8, ConcatFacts
    <3>2. z = t
      BY <1>6
    <3> HIDE DEF z
    <3> QED BY <3>1, <3>2, Zenon
  <2>2. Len(y) + Len(w) = N + 2
    BY <1>1, <1>4, <1>8
  <2> QED BY <1>8, <2>1, <2>2
<1> HIDE DEF y
<1>10. ASSUME NEW j \in 1..(N + 2)
       PROVE  /\ j < n => t[j] = s[j]
              /\ j = n => t[j] = a
              /\ j = n + 1 => t[j] = x
              /\ j = n + 2 => t[j] = b
              /\ j > n + 2 => t[j] = s[j - 2]
  <2>1. CASE j < n
    <3>1. j <= n + 2 /\ j \in 1..(n + 2) /\ j \in 1..(n - 1) /\ j <= n - 1
      BY <1>1, <2>1
    <3>2. t[j] = y[j] /\ y[j] = u[j] /\ u[j] = s[j]
      BY <1>3, <1>8, <1>9, <3>1
    <3>3. ~(j = n) /\ ~(j = n + 1) /\ ~(j = n + 2) /\ ~(j > n + 2)
      BY <1>1, <2>1
    <3>4. t[j] = s[j]
      BY <1>5, <3>1, <3>2
    <3> QED BY <3>3, <3>4, Zenon
  <2>2. CASE j = n
    <3>1. j <= n + 2 /\ j \in 1..(n + 2) /\ ~(j <= n - 1) /\ j - (n - 1) = 1
      BY <1>1, <2>2
    <3>2. t[j] = y[j] /\ y[j] = v[j - (n - 1)]
      BY <1>3, <1>8, <1>9, <3>1
    <3>3. ~(j < n) /\ ~(j = n + 1) /\ ~(j = n + 2) /\ ~(j > n + 2)
      BY <1>1, <2>2
    <3>4. t[j] = a
      BY <1>5, <3>1, <3>2
    <3> QED BY <3>3, <3>4, Zenon
  <2>3. CASE j = n + 1
    <3>1. j <= n + 2 /\ j \in 1..(n + 2) /\ ~(j <= n - 1) /\ j - (n - 1) = 2
      BY <1>1, <2>3
    <3>2. t[j] = y[j] /\ y[j] = v[j - (n - 1)]
      BY <1>3, <1>8, <1>9, <3>1
    <3>3. ~(j < n) /\ ~(j = n) /\ ~(j = n + 2) /\ ~(j > n + 2)
      BY <1>1, <2>3
    <3>4. t[j] = x
      BY <1>5, <3>1, <3>2
    <3> QED BY <3>3, <3>4, Zenon
  <2>4. CASE j = n + 2
    <3>1. j <= n + 2 /\ j \in 1..(n + 2) /\ ~(j <= n - 1) /\ j - (n - 1) = 3
      BY <1>1, <2>4
    <3>2. t[j] = y[j] /\ y[j] = v[j - (n - 1)]
      BY <1>3, <1>8, <1>9, <3>1
    <3>3. ~(j < n) /\ ~(j = n) /\ ~(j = n + 1) /\ ~(j > n + 2)
      BY <1>1, <2>4
    <3>4. t[j] = b
      BY <1>5, <3>1, <3>2
    <3> QED BY <3>3, <3>4, Zenon
  <2>5. CASE j > n + 2
    <3>1. ~(j <= n + 2) /\ j - (n + 2) \in 1..(N - n) /\ n + (j - (n + 2)) = j - 2
      BY <1>1, <2>5
    <3>2. t[j] = w[j - (n + 2)] /\ w[j - (n + 2)] = s[n + (j - (n + 2))]
      BY <1>4, <1>9, <3>1
    <3>3. ~(j < n) /\ ~(j = n) /\ ~(j = n + 1) /\ ~(j = n + 2)
      BY <1>1, <2>5
    <3>4. t[j] = s[j - 2]
      BY <3>1, <3>2
    <3> QED BY <3>3, <3>4, Zenon
  <2>6. j < n \/ j = n \/ j = n + 1 \/ j = n + 2 \/ j > n + 2
    BY <1>1
  <2> QED BY <2>1, <2>2, <2>3, <2>4, <2>5, <2>6
<1>11. Edited(at, t, s, n)
  <2>1. at \in [1..(N + 2) -> 0..N]
    BY <1>1
  <2>2. \A j \in 1..(N + 2) : /\ j < n => at[j] = j
                              /\ j = n \/ j = n + 2 => at[j] = 0
                              /\ j = n + 1 => at[j] = n
                              /\ j > n + 2 => at[j] = j - 2
    BY <1>1
  <2>3. \A m \in 1..N : \E j \in 1..(N + 2) : at[j] = m
    <3> SUFFICES ASSUME NEW m \in 1..N PROVE \E j \in 1..(N + 2) : at[j] = m
      OBVIOUS
    <3>1. CASE m < n
      <4>1. m \in 1..(N + 2) /\ at[m] = m
        BY <1>1, <3>1
      <4> QED BY <4>1
    <3>2. CASE m = n
      <4>1. n + 1 \in 1..(N + 2) /\ at[n + 1] = m
        BY <1>1, <3>2
      <4> QED BY <4>1
    <3>3. CASE m > n
      <4>1. m + 2 \in 1..(N + 2) /\ at[m + 2] = m
        BY <1>1, <3>3
      <4> QED BY <4>1
    <3> QED BY <1>1, <3>1, <3>2, <3>3
  <2> HIDE DEF at
  <2>4. \A i, j \in 1..(N + 2) : at[i] = at[j] /\ at[i] # 0 => i = j
    BY <1>1, <2>2
  <2>5. ASSUME NEW j \in 1..(N + 2)
        PROVE  /\ at[j] = 0 => t[j].type = "command"
               /\ at[j] # 0 /\ at[j] # n => t[j] = s[at[j]]
               /\ at[j] = n => SameObject(t[j], s[n])
    <3>1. CASE j < n
      <4>1. at[j] = j /\ j # 0 /\ j # n
        BY <1>1, <2>2, <3>1
      <4> QED BY <1>10, <3>1, <4>1
    <3>2. CASE j = n \/ j = n + 2
      <4>1. at[j] = 0 /\ n # 0
        BY <1>1, <2>2, <3>2
      <4> QED BY <1>10, <3>2, <4>1
    <3>3. CASE j = n + 1
      <4>1. at[j] = n /\ n # 0
        BY <1>1, <2>2, <3>3
      <4> QED BY <1>10, <3>3, <4>1
    <3>4. CASE j > n + 2
      <4>1. at[j] = j - 2 /\ j - 2 # 0 /\ j - 2 # n
        BY <1>1, <2>2, <3>4
      <4> QED BY <1>10, <3>4, <4>1
    <3>5. j < n \/ j = n \/ j = n + 1 \/ j = n + 2 \/ j > n + 2
      BY <1>1
    <3> QED BY <3>1, <3>2, <3>3, <3>4, <3>5
  <2> QED BY <1>9, <2>1, <2>3, <2>4, <2>5 DEF Edited
<1> QED BY <1>7, <1>11

LEMMA EditTextFacts ==
    ASSUME NEW s, IsStmts(s), NEW n \in 1..Len(s), NEW text, IsSeq(text), NEW c
    PROVE  /\ IsStmts(EditStatementText(s, n, text, c))
           /\ \E at : Edited(at, EditStatementText(s, n, text, c), s, n)
<1> DEFINE old == s[n]
           new == EditStatementText(s, n, text, c)
<1>1. IsStmt(old)
  BY DEF IsStmts, AllStmts
<1>2. CASE old.delimiter # Semicolon \/ ~c
  <2> DEFINE whole == text \o Trailer(old)
             x == [old EXCEPT !.text = whole, !.compound = c]
  <2>1. new = [s EXCEPT ![n] = x]
    BY <1>2 DEF EditStatementText
  <2> HIDE DEF old
  <2>2. IsSeq(whole)
    BY <1>1, TrailerFacts, ConcatFacts
  <2> HIDE DEF whole
  <2>3. IsStmt(x) /\ SameObject(x, old)
    BY <1>1, <2>2, StmtFacts
  <2> HIDE DEF x, new
  <2>4. SameObject(x, s[n])
    BY <2>3 DEF old
  <2>5. /\ IsStmts([s EXCEPT ![n] = x])
        /\ \E at : Edited(at, [s EXCEPT ![n] = x], s, n)
    BY <2>3, <2>4, EditInPlace
  <2>6. IsStmts(new) /\ \E at : Edited(at, new, s, n)
    BY <2>1, <2>5, Zenon
  <2> QED BY <2>6 DEF new
<1>3. CASE ~(old.delimiter # Semicolon \/ ~c)
  <2> DEFINE a == makeDelimiterCommand(Slashes, old.database)
             b == makeDelimiterCommand(Semicolon, old.database)
             e == <<Slashes, Newline>>
             whole == text \o e
             x == [old EXCEPT !.text = whole, !.compound = TRUE, !.delimiter = Slashes]
  <2>1. new = (SubSeq(s, 1, n - 1) \o <<a, x, b>>) \o SubSeq(s, n + 1, Len(s))
    BY <1>3 DEF EditStatementText
  <2> HIDE DEF old
  <2>2. IsSeq(e)
    <3>1. e \in Seq({Slashes, Newline})
      OBVIOUS
    <3> QED BY <3>1, IsSeqOf
  <2> HIDE DEF e
  <2>3. IsSeq(whole)
    BY <2>2, ConcatFacts
  <2> HIDE DEF whole
  <2>4. IsStmt(x) /\ SameObject(x, old)
    BY <1>1, <2>3, StmtFacts
  <2>5. IsStmt(a) /\ a.type = "command" /\ IsStmt(b) /\ b.type = "command"
    BY CommandFacts
  <2> HIDE DEF x, new, a, b
  <2>6. SameObject(x, s[n])
    BY <2>4 DEF old
  <2>7. IsStmts(new) /\ \E at : Edited(at, new, s, n)
    BY <2>1, <2>4, <2>5, <2>6, EditBetween, Zenon
  <2> QED BY <2>7 DEF new
<1> QED BY <1>2, <1>3

----------------------------------------------------------------------------
(* Directories                                                             *)

IsFiles(files) ==
    /\ files = [f \in DOMAIN files |-> files[f]]
    /\ \A f \in DOMAIN files : IsStmts(files[f])

\* A CREATE statement of logical schema `name`.
Belongs(stmt, name) == stmt.type = "create" /\ ~ShouldIgnore(stmt.key) /\ Schema(stmt) = name

LEMMA PositionFacts ==
    ASSUME NEW files, NEW pos
    PROVE  pos \in Positions(files) <=> /\ pos = <<pos[1], pos[2]>>
                                        /\ pos[1] \in DOMAIN files /\ pos[2] \in DOMAIN files[pos[1]]
<1>1. ASSUME pos \in Positions(files)
      PROVE  pos = <<pos[1], pos[2]>> /\ pos[1] \in DOMAIN files /\ pos[2] \in DOMAIN files[pos[1]]
  <2>1. PICK f \in DOMAIN files : pos \in {f} \X DOMAIN files[f]
    BY <1>1 DEF Positions
  <2> QED BY <2>1
<1>2. ASSUME pos = <<pos[1], pos[2]>>, pos[1] \in DOMAIN files, pos[2] \in DOMAIN files[pos[1]]
      PROVE  pos \in Positions(files)
  <2>1. pos \in {pos[1]} \X DOMAIN files[pos[1]]
    BY <1>2
  <2> QED BY <1>2, <2>1 DEF Positions
<1> QED BY <1>1, <1>2

LEMMA CreatesFacts ==
    ASSUME NEW files, NEW name, NEW pos
    PROVE  pos \in CreatesOf(files, name) <=> /\ pos = <<pos[1], pos[2]>>
                                              /\ pos[1] \in DOMAIN files /\ pos[2] \in DOMAIN files[pos[1]]
                                              /\ Belongs(files[pos[1]][pos[2]], name)
BY PositionFacts DEF CreatesOf, Creates, At, Belongs

LEMMA CreateAt ==
    ASSUME NEW files, NEW name, NEW f \in DOMAIN files, NEW n \in DOMAIN files[f], Belongs(files[f][n], name)
    PROVE  <<f, n>> \in CreatesOf(files, name) /\ At(files, <<f, n>>) = files[f][n]
<1> DEFINE pos == <<f, n>>
<1>1. pos = <<pos[1], pos[2]>> /\ pos[1] = f /\ pos[2] = n
  OBVIOUS
<1> HIDE DEF pos
<1>2. pos \in CreatesOf(files, name) /\ At(files, pos) = files[f][n]
  BY <1>1, CreatesFacts DEF At
<1> QED BY <1>2 DEF pos

LEMMA SameBelongs ==
    ASSUME NEW a, NEW b, SameObject(a, b), NEW name
    PROVE  Belongs(a, name) <=> Belongs(b, name)
BY DEF SameObject, Belongs, Schema

\* The statement for an object of the logical schema.
Found(files, name, key) == {pos \in CreatesOf(files, name) : At(files, pos).key = key}

\* Statement q of the edited files was o before.
Was(q, o, edited, files, p, new, at) ==
    /\ o[1] = q[1] /\ At(edited, q).key = At(files, o).key
    /\ At(edited, q).key # At(files, p).key => At(edited, q) = At(files, o)
    /\ q[1] # p[1] => o[2] = q[2]
    /\ q[1] = p[1] => o[2] = at[q[2]] /\ q[2] \in 1..Len(new)

LEMMA Origin ==
    ASSUME NEW files, IsFiles(files), NEW name, NEW p \in CreatesOf(files, name),
           NEW new, NEW at, Edited(at, new, files[p[1]], p[2]), IsStmts(new),
           NEW edited, edited = [files EXCEPT ![p[1]] = new],
           NEW q \in CreatesOf(edited, name)
    PROVE  \E o \in CreatesOf(files, name) : Was(q, o, edited, files, p, new, at)
<1>1. /\ p = <<p[1], p[2]>> /\ p[1] \in DOMAIN files /\ p[2] \in DOMAIN files[p[1]]
      /\ Belongs(files[p[1]][p[2]], name)
  BY CreatesFacts
<1>2. /\ q = <<q[1], q[2]>> /\ q[1] \in DOMAIN edited /\ q[2] \in DOMAIN edited[q[1]]
      /\ Belongs(edited[q[1]][q[2]], name)
  BY CreatesFacts
<1>3. /\ DOMAIN edited = DOMAIN files /\ edited[p[1]] = new
      /\ \A f \in DOMAIN files : f # p[1] => edited[f] = files[f]
  BY <1>1 DEF IsFiles
<1>4. CASE q[1] # p[1]
  <2>1. q \in CreatesOf(files, name) /\ At(edited, q) = At(files, q)
    BY <1>2, <1>3, <1>4, CreatesFacts DEF At
  <2> QED BY <1>4, <2>1 DEF Was
<1>5. CASE q[1] = p[1]
  <2> DEFINE old == files[p[1]]
             j == q[2]
             m == at[j]
  <2>1. IsSeq(old) /\ IsSeq(new) /\ Len(old) \in Nat /\ Len(new) \in Nat /\ DOMAIN old = 1..Len(old)
        /\ DOMAIN new = 1..Len(new)
    BY <1>1, SeqFacts DEF IsFiles, IsStmts
  <2>2. j \in 1..Len(new) /\ m \in 0..Len(old) /\ Belongs(new[j], name) /\ At(edited, q) = new[j]
    BY <1>2, <1>3, <1>5, <2>1 DEF Edited, At
  <2>3. m # 0
    BY <2>2 DEF Edited, Belongs
  <2>4. m \in DOMAIN old
    BY <2>1, <2>2, <2>3
  <2>5. CASE m = p[2]
    <3>1. SameObject(new[j], old[p[2]])
      BY <2>2, <2>5 DEF Edited
    <3>2. At(edited, q).key = At(files, p).key
      BY <2>2, <3>1 DEF SameObject, At
    <3> QED BY <1>5, <2>2, <2>5, <3>2 DEF Was
  <2>6. CASE m # p[2]
    <3>1. new[j] = old[m]
      BY <2>2, <2>3, <2>6 DEF Edited
    <3>2. <<p[1], m>> \in CreatesOf(files, name) /\ At(files, <<p[1], m>>) = old[m]
      BY <1>1, <2>2, <2>4, <3>1, CreateAt
    <3> DEFINE o == <<p[1], m>>
    <3>3. o \in CreatesOf(files, name) /\ At(files, o) = At(edited, q) /\ o[1] = q[1] /\ o[2] = at[q[2]]
      BY <1>5, <2>2, <3>1, <3>2
    <3> HIDE DEF o
    <3> QED BY <1>5, <2>2, <3>3 DEF Was
  <2> QED BY <2>5, <2>6
<1> QED BY <1>4, <1>5

\* The statement for an object is what it was, in the same file.
StillFound(edited, files, name, key, o) ==
    \E q : Found(edited, name, key) = {q} /\ q[1] = o[1] /\ At(edited, q) = At(files, o)

\* Statements of other objects stay what they are.
LEMMA OthersStay ==
    ASSUME NEW files, IsFiles(files), NEW name, NEW p \in CreatesOf(files, name),
           NEW new, NEW at, Edited(at, new, files[p[1]], p[2]), IsStmts(new),
           NEW edited, edited = [files EXCEPT ![p[1]] = new],
           NEW key, key # At(files, p).key, NEW o, Found(files, name, key) = {o}
    PROVE  StillFound(edited, files, name, key, o)
<1>1. /\ p = <<p[1], p[2]>> /\ p[1] \in DOMAIN files /\ p[2] \in DOMAIN files[p[1]]
  BY CreatesFacts
<1>2. o \in CreatesOf(files, name) /\ At(files, o).key = key
  BY DEF Found
<1>3. /\ o = <<o[1], o[2]>> /\ o[1] \in DOMAIN files /\ o[2] \in DOMAIN files[o[1]]
      /\ Belongs(files[o[1]][o[2]], name)
  BY <1>2, CreatesFacts
<1>4. /\ DOMAIN edited = DOMAIN files /\ edited[p[1]] = new
      /\ \A f \in DOMAIN files : f # p[1] => edited[f] = files[f]
  BY <1>1 DEF IsFiles
<1>5. \E q \in CreatesOf(edited, name) :
         /\ At(edited, q) = At(files, o) /\ q[1] = o[1]
         /\ o[1] # p[1] => q[2] = o[2]
         /\ o[1] = p[1] => q[2] \in 1..Len(new) /\ at[q[2]] = o[2]
  <2>1. CASE o[1] # p[1]
    <3>1. o \in CreatesOf(edited, name) /\ At(edited, o) = At(files, o)
      BY <1>3, <1>4, <2>1, CreatesFacts DEF At
    <3> QED BY <2>1, <3>1
  <2>2. CASE o[1] = p[1]
    <3> DEFINE old == files[p[1]]
    <3>1. IsSeq(old) /\ IsSeq(new) /\ DOMAIN old = 1..Len(old) /\ DOMAIN new = 1..Len(new) /\ Len(old) \in Nat
      BY <1>1, SeqFacts DEF IsFiles, IsStmts
    <3>2. o[2] \in 1..Len(old)
      BY <1>3, <2>2, <3>1
    <3>3. o[2] # p[2] /\ o[2] # 0
      BY <1>2, <2>2, <3>1, <3>2 DEF At
    <3>4. PICK j \in 1..Len(new) : at[j] = o[2]
      BY <3>2 DEF Edited
    <3>5. new[j] = old[o[2]]
      BY <3>3, <3>4 DEF Edited
    <3>6. <<p[1], j>> \in CreatesOf(edited, name) /\ At(edited, <<p[1], j>>) = new[j]
      <4>1. p[1] \in DOMAIN edited /\ j \in DOMAIN edited[p[1]] /\ edited[p[1]][j] = new[j]
        BY <1>1, <1>4, <3>1
      <4>2. Belongs(edited[p[1]][j], name)
        BY <1>3, <2>2, <3>5, <4>1
      <4> QED BY <4>1, <4>2, CreateAt, Zenon
    <3> DEFINE q == <<p[1], j>>
    <3>7. /\ q \in CreatesOf(edited, name) /\ At(edited, q) = At(files, o) /\ q[1] = o[1]
          /\ q[2] \in 1..Len(new) /\ at[q[2]] = o[2]
      BY <2>2, <3>4, <3>5, <3>6 DEF At
    <3> HIDE DEF q
    <3> QED BY <2>2, <3>7
  <2> QED BY <2>1, <2>2
<1>6. PICK q \in CreatesOf(edited, name) :
         /\ At(edited, q) = At(files, o) /\ q[1] = o[1]
         /\ o[1] # p[1] => q[2] = o[2]
         /\ o[1] = p[1] => q[2] \in 1..Len(new) /\ at[q[2]] = o[2]
  BY <1>5
<1>7. q \in Found(edited, name, key)
  BY <1>2, <1>6 DEF Found
<1>8. ASSUME NEW r \in Found(edited, name, key)
      PROVE  r = q
  <2>1. r \in CreatesOf(edited, name) /\ At(edited, r).key = key
    BY DEF Found
  <2>2. /\ \E b \in CreatesOf(files, name) : Was(r, b, edited, files, p, new, at)
    BY <2>1, Origin, Zenon
  <2>3. PICK b \in CreatesOf(files, name) : Was(r, b, edited, files, p, new, at)
    BY <2>2
  <2>4. b \in Found(files, name, key)
    BY <2>1, <2>3 DEF Found, Was
  <2>5. b = o
    BY <2>4
  <2>6. r[2] = q[2]
    <3>1. CASE r[1] # p[1]
      BY <1>6, <2>3, <2>5, <3>1 DEF Was
    <3>2. CASE r[1] = p[1]
      <4>1. at[r[2]] = o[2] /\ at[q[2]] = o[2] /\ r[2] \in 1..Len(new) /\ q[2] \in 1..Len(new)
        BY <1>6, <2>3, <2>5, <3>2 DEF Was
      <4>2. o[2] # 0
        <5>1. IsSeq(files[o[1]]) /\ DOMAIN files[o[1]] = 1..Len(files[o[1]]) /\ Len(files[o[1]]) \in Nat
          BY <1>3, SeqFacts DEF IsFiles, IsStmts
        <5> QED BY <1>3, <5>1
      <4> QED BY <4>1, <4>2 DEF Edited
    <3> QED BY <3>1, <3>2
  <2>7. r = <<r[1], r[2]>> /\ q = <<q[1], q[2]>>
    BY <1>6, <2>1, CreatesFacts
  <2>8. r[1] = q[1]
    BY <1>6, <2>3, <2>5 DEF Was
  <2> QED BY <2>6, <2>7, <2>8
<1>9. Found(edited, name, key) = {q}
  BY <1>7, <1>8
<1> QED BY <1>6, <1>9 DEF StillFound

\* The directory in memory while it is dumped.
IsMem(mem) ==
    /\ mem = [files |-> mem.files, dirty |-> mem.dirty]
    /\ IsFiles(mem.files) /\ mem.dirty \subseteq DOMAIN mem.files

LEMMA MakeMem ==
    ASSUME NEW files, IsFiles(files), NEW dirty, dirty \subseteq DOMAIN files,
           NEW mem, mem = [files |-> files, dirty |-> dirty]
    PROVE  IsMem(mem) /\ mem.files = files /\ mem.dirty = dirty
<1>1. mem.files = files /\ mem.dirty = dirty
  OBVIOUS
<1> QED BY <1>1 DEF IsMem

LEMMA TextFacts ==
    ASSUME NEW key, NEW def
    PROVE  IsSeq(Text(key, def)) /\ Len(Text(key, def)) > 0 /\ Text(key, def)[1] # OpenQuote
<1> DEFINE c == Create(key, def, "")
           h == <<c>>
           b == <<Begin, Semicolon, End>>
           o == <<>>
           e == IF def.block THEN b ELSE o
<1>1. Text(key, def) = h \o e
  BY DEF Text
<1>2. c # OpenQuote
  <2>1. c[1] = "create" /\ OpenQuote[1] = "'"
    BY DEF Create, OpenQuote
  <2>2. "create" # "'"
    OBVIOUS
  <2> HIDE DEF c
  <2> QED BY <2>1, <2>2, Zenon
<1>3. IsSeq(h) /\ Len(h) = 1 /\ h[1] = c
  BY SingletonFacts
<1>4. IsSeq(b) /\ IsSeq(o)
  <2>1. b \in Seq({Begin, Semicolon, End})
    OBVIOUS
  <2> QED BY <2>1, IsSeqOf, EmptyFacts
<1> HIDE DEF c, h, b, o
<1>5. IsSeq(e) /\ Len(e) \in Nat
  <2>1. IsSeq(e)
    BY <1>4
  <2> HIDE DEF e
  <2> QED BY <2>1, SeqFacts
<1> HIDE DEF e
<1> DEFINE s == h \o e
<1>6. /\ IsSeq(s) /\ Len(s) = Len(h) + Len(e)
      /\ \A i \in 1..Len(s) : s[i] = IF i <= Len(h) THEN h[i] ELSE e[i - Len(h)]
  BY <1>3, <1>5, ConcatFacts
<1> HIDE DEF s
<1>7. Len(s) > 0 /\ 1 \in 1..Len(s) /\ 1 <= Len(h)
  BY <1>3, <1>5, <1>6
<1>8. s[1] = c
  BY <1>3, <1>6, <1>7
<1> QED BY <1>1, <1>2, <1>6, <1>7, <1>8 DEF s

LEMMA InStringFacts ==
    ASSUME NEW key, NEW def
    PROVE  IsStmt(ParseStatementInString(Text(key, def)))
<1> DEFINE text == Text(key, def)
           stmts == ParseStatements(text).stmts
           stmt == stmts[1]
<1>1. IsSeq(text) /\ Len(text) > 0 /\ text[1] # OpenQuote
  BY TextFacts
<1> HIDE DEF text
<1>2. IsStmts(stmts) /\ Len(stmts) > 0
  BY <1>1, ParseFacts
<1>3. ParseStatementInString(text) = IF stmt.compound THEN [stmt EXCEPT !.delimiter = UnknownDelimiter] ELSE stmt
  BY DEF ParseStatementInString
<1> HIDE DEF stmts
<1>4. Len(stmts) \in Nat
  BY <1>2, SeqFacts DEF IsStmts
<1>5. 1 \in 1..Len(stmts)
  BY <1>2, <1>4
<1>6. IsStmt(stmt)
  BY <1>2, <1>5 DEF IsStmts, AllStmts
<1> HIDE DEF stmt
<1>7. IsStmt([stmt EXCEPT !.delimiter = UnknownDelimiter])
  BY <1>1, <1>6, StmtFacts, Zenon
<1> QED BY <1>3, <1>6, <1>7, Zenon DEF text

LEMMA AddCreateFacts ==
    ASSUME NEW mem, IsMem(mem), NEW file, NEW new, IsStmt(new), NEW opts
    PROVE  IsMem(AddCreate(mem, file, new, opts))
<1> DEFINE old == IF file \in DOMAIN mem.files THEN mem.files[file] ELSE <<>>
           added == IF opts.count THEN old ELSE AddStatement(old, new)
           files == [f \in DOMAIN mem.files \cup {file} |-> IF f # file THEN mem.files[f] ELSE added]
           dirty == mem.dirty \cup {file}
<1>1. IsStmts(old)
  BY StmtsNone DEF IsMem, IsFiles
<1> HIDE DEF old
<1>2. IsStmts(added)
  BY <1>1, AddStatementFacts
<1>3. AddCreate(mem, file, new, opts) = [files |-> files, dirty |-> dirty]
  <2>1. files = [f \in DOMAIN mem.files \cup {file} |->
                   IF f # file THEN mem.files[f]
                   ELSE IF opts.count THEN IF f \in DOMAIN mem.files THEN mem.files[f] ELSE <<>>
                   ELSE AddStatement(IF f \in DOMAIN mem.files THEN mem.files[f] ELSE <<>>, new)]
    BY DEF old
  <2> HIDE DEF files, added
  <2> QED BY <2>1, Zenon DEF AddCreate
<1> HIDE DEF added
<1>4. DOMAIN files = DOMAIN mem.files \cup {file} /\ IsFiles(files)
  BY <1>2 DEF IsMem, IsFiles
<1>5. dirty \subseteq DOMAIN files
  BY <1>4 DEF IsMem
<1> HIDE DEF files, dirty
<1> QED BY <1>3, <1>4, <1>5, MakeMem

\* What an edit in memory, of the statement for an object, makes of mem.
EditResult(m, mem, p, text) ==
    /\ IsMem(m)
    /\ Body(At(mem.files, p)) = text => m.dirty = mem.dirty
    /\ Body(At(mem.files, p)) # text => m.dirty = mem.dirty \cup {p[1]}
    /\ \/ m.files = mem.files
       \/ \E new, at : /\ Edited(at, new, mem.files[p[1]], p[2]) /\ IsStmts(new)
                       /\ m.files = [mem.files EXCEPT ![p[1]] = new]

LEMMA EditCreateFacts ==
    ASSUME NEW mem, IsMem(mem), NEW name, NEW p \in CreatesOf(mem.files, name),
           NEW text, IsSeq(text), NEW c, NEW opts
    PROVE  EditResult(EditCreate(mem, p, text, c, opts), mem, p, text)
<1> DEFINE m == EditCreate(mem, p, text, c, opts)
           old == mem.files[p[1]]
           new == EditStatementText(old, p[2], text, c)
<1>1. /\ p = <<p[1], p[2]>> /\ p[1] \in DOMAIN mem.files /\ p[2] \in DOMAIN old
  BY CreatesFacts
<1>2. IsFiles(mem.files) /\ IsStmts(old) /\ mem.dirty \subseteq DOMAIN mem.files
  BY <1>1 DEF IsMem, IsFiles
<1>3. p[2] \in 1..Len(old)
  BY <1>1, <1>2, SeqFacts DEF IsStmts
<1> HIDE DEF old
<1>4. IsStmts(new) /\ \E at : Edited(at, new, old, p[2])
  BY <1>2, <1>3, EditTextFacts
<1>5. CASE Body(At(mem.files, p)) = text
  <2>1. m = mem
    BY <1>5 DEF EditCreate
  <2> HIDE DEF m
  <2>2. EditResult(m, mem, p, text)
    BY <1>5, <2>1 DEF EditResult
  <2> QED BY <2>2 DEF m
<1>6. CASE Body(At(mem.files, p)) # text
  <2> DEFINE files == IF opts.count THEN mem.files ELSE [mem.files EXCEPT ![p[1]] = new]
             dirty == mem.dirty \cup {p[1]}
  <2>1. m = [files |-> files, dirty |-> dirty]
    BY <1>6 DEF EditCreate, old
  <2> HIDE DEF new
  <2>2. IsFiles(files) /\ DOMAIN files = DOMAIN mem.files
    BY <1>1, <1>2, <1>4 DEF IsFiles
  <2>3. files = mem.files \/ files = [mem.files EXCEPT ![p[1]] = new]
    OBVIOUS
  <2>4. dirty \subseteq DOMAIN files
    BY <1>1, <1>2, <2>2
  <2> HIDE DEF files, m
  <2>5. IsMem(m) /\ m.files = files /\ m.dirty = dirty
    BY <2>1, <2>2, <2>4, MakeMem DEF dirty
  <2>6. \/ m.files = mem.files
        \/ \E w, at : /\ Edited(at, w, mem.files[p[1]], p[2]) /\ IsStmts(w)
                      /\ m.files = [mem.files EXCEPT ![p[1]] = w]
    BY <1>4, <2>3, <2>5 DEF old
  <2>7. EditResult(m, mem, p, text)
    BY <1>6, <2>5, <2>6 DEF EditResult, dirty
  <2> QED BY <2>7 DEF m
<1> QED BY <1>5, <1>6

LEMMA UpdateFacts ==
    ASSUME NEW mem, IsMem(mem), NEW name, NEW key, NEW def, NEW opts
    PROVE  IsMem(UpdateCreate(mem, name, key, def, opts))
<1> DEFINE found == Found(mem.files, name, key)
           text == Text(key, canonicalCreate(def, {At(mem.files, pos) : pos \in found}, opts))
           p == CHOOSE p \in found : TRUE
           new == ParseStatementInString(text)
<1>1. UpdateCreate(mem, name, key, def, opts)
        = IF shouldIgnore(opts, key) THEN mem
          ELSE IF found = {} THEN AddCreate(mem, FileNameForObject[key.name], new, opts)
          ELSE EditCreate(mem, p, text, def.block, opts)
  BY DEF UpdateCreate, Found
<1>2. IsMem(AddCreate(mem, FileNameForObject[key.name], new, opts))
  BY InStringFacts, AddCreateFacts
<1>3. ASSUME found # {}
      PROVE  IsMem(EditCreate(mem, p, text, def.block, opts))
  <2>1. p \in CreatesOf(mem.files, name)
    BY <1>3 DEF Found
  <2>2. IsSeq(text)
    BY TextFacts
  <2> HIDE DEF p, text
  <2> QED BY <2>1, <2>2, EditCreateFacts DEF EditResult
<1> QED BY <1>1, <1>2, <1>3

LEMMA RemoveGoneFacts ==
    ASSUME NEW mem, IsMem(mem), NEW name, NEW keys, NEW opts
    PROVE  IsMem(RemoveGone(mem, name, keys, opts))
<1> DEFINE gone == {pos \in CreatesOf(mem.files, name) :
                       At(mem.files, pos).key \notin keys /\ ~shouldIgnore(opts, At(mem.files, pos).key)}
           I(f) == {n \in DOMAIN mem.files[f] : <<f, n>> \notin gone}
           files == IF opts.count THEN mem.files
                    ELSE [f \in DOMAIN mem.files |-> RemoveStatements(mem.files[f], I(f))]
           dirty == mem.dirty \cup {pos[1] : pos \in gone}
<1>1. RemoveGone(mem, name, keys, opts) = [files |-> files, dirty |-> dirty]
  BY DEF RemoveGone
<1>2. \A pos \in gone : pos[1] \in DOMAIN mem.files
  BY CreatesFacts
<1> HIDE DEF gone
<1>3. ASSUME NEW f \in DOMAIN mem.files
      PROVE  IsStmts(RemoveStatements(mem.files[f], I(f)))
  <2>1. IsStmts(mem.files[f])
    BY DEF IsMem, IsFiles
  <2>2. DOMAIN mem.files[f] = 1..Len(mem.files[f])
    BY <2>1, SeqFacts DEF IsStmts
  <2>3. I(f) \subseteq 1..Len(mem.files[f])
    BY <2>2
  <2> HIDE DEF I
  <2> QED BY <2>1, <2>3, StmtsPick
<1> HIDE DEF I
<1>4. IsFiles(files) /\ DOMAIN files = DOMAIN mem.files
  BY <1>3 DEF IsMem, IsFiles
<1>5. dirty \subseteq DOMAIN files
  BY <1>2, <1>4 DEF IsMem
<1> HIDE DEF files, dirty
<1> QED BY <1>1, <1>4, <1>5, MakeMem

----------------------------------------------------------------------------
(* What format finds in a directory                                        *)

\* The keys of the statements that it may not touch, and the files of which it
\* rewrites a statement.
Failing(files) == ExecLogicalSchema(files, "").failed

Formatted(def) == [def EXCEPT !.auto = def.auto]
Wanted(files, key) == Text(key, Formatted(ExecLogicalSchema(files, "").objects[key]))

Stale(files) ==
    {pos \in CreatesOf(files, "") :
        LET stmt == At(files, pos) IN stmt.key \notin Failing(files) /\ Body(stmt) # Wanted(files, stmt.key)}

Reformatted(files) == {pos[1] : pos \in Stale(files)}

LEMMA ParseContentsFacts ==
    ASSUME NEW dir, IsDir(dir)
    PROVE  /\ IsFiles(parseContents(dir).files) /\ DOMAIN parseContents(dir).files = DOMAIN dir.files
           /\ \A f \in DOMAIN dir.files : FromUse(parseContents(dir).files[f])
           /\ ~parseContents(dir).ParseError => ~DuplicateDefinition(parseContents(dir).files)
<1> DEFINE parsed == [f \in DOMAIN dir.files |-> ParseStatements(dir.files[f])]
           files == [f \in DOMAIN dir.files |-> parsed[f].stmts]
           err == \/ \E f \in DOMAIN parsed : parsed[f].err
                  \/ DuplicateDefinition(files)
<1>1. parseContents(dir) = [files |-> files, ParseError |-> err]
  BY DEF parseContents
<1>2. ASSUME NEW f \in DOMAIN dir.files
      PROVE  IsStmts(files[f]) /\ FromUse(files[f])
  <2>1. IsSeq(dir.files[f])
    BY DEF IsDir, IsSeq
  <2>2. files[f] = ParseStatements(dir.files[f]).stmts
    OBVIOUS
  <2> QED BY <2>1, <2>2, ParseFacts
<1>3. DOMAIN files = DOMAIN dir.files /\ files = [f \in DOMAIN files |-> files[f]]
  OBVIOUS
<1>4. err \in BOOLEAN /\ (~err => ~DuplicateDefinition(files))
  OBVIOUS
<1> HIDE DEF files, err
<1>5. parseContents(dir).files = files /\ parseContents(dir).ParseError = err
  BY <1>1
<1>6. IsFiles(files)
  BY <1>2, <1>3 DEF IsFiles
<1> QED BY <1>2, <1>3, <1>4, <1>5, <1>6, Zenon

\* Without a USE command or a qualifier there is only the nameless schema.
LEMMA OnlyNameless ==
    ASSUME NEW files, IsFiles(files), \A f \in DOMAIN files : FromUse(files[f]),
           NamedSchemaStatements(files) = {}, NEW pos \in Creates(files)
    PROVE  Schema(At(files, pos)) = ""
<1> DEFINE s == files[pos[1]]
           stmt == At(files, pos)
<1>1. /\ pos \in Positions(files) /\ pos = <<pos[1], pos[2]>> /\ pos[1] \in DOMAIN files
         /\ pos[2] \in DOMAIN s
      /\ stmt = s[pos[2]] /\ stmt.type = "create" /\ ~ShouldIgnore(stmt.key)
  BY PositionFacts DEF Creates, At
<1>2. /\ FromUse(s) /\ DOMAIN s = 1..Len(s)
  BY <1>1, SeqFacts DEF IsFiles, IsStmts
<1>3. stmt.qualifier = ""
  BY <1>1 DEF NamedSchemaStatements
<1>4. ~UseSeen(s)
  <2> SUFFICES ASSUME NEW n \in 1..Len(s), IsUse(s[n])
               PROVE  FALSE
    BY DEF UseSeen
  <2> DEFINE use == <<pos[1], n>>
  <2>1. use = <<use[1], use[2]>> /\ use[1] = pos[1] /\ use[2] = n
    OBVIOUS
  <2> HIDE DEF use
  <2>2. use \in Positions(files) /\ At(files, use) = s[n]
    BY <1>1, <1>2, <2>1, PositionFacts DEF At
  <2>3. ~ShouldIgnore(s[n].key)
    <3>1. NoKey.name = ""
      BY DEF NoKey
    <3>2. s[n].key = NoKey
      BY DEF IsUse
    <3> QED BY <3>1, <3>2, Zenon DEF ShouldIgnore
  <2>4. s[n].type = "command" /\ s[n].text[1] = Use
    BY DEF IsUse
  <2>5. use \in NamedSchemaStatements(files)
    BY <2>2, <2>3, <2>4 DEF NamedSchemaStatements
  <2> QED BY <2>5
<1>5. stmt.database = ""
  BY <1>1, <1>2, <1>4 DEF FromUse
<1> QED BY <1>3, <1>5 DEF Schema

LEMMA NamelessSchemas ==
    ASSUME NEW files, IsFiles(files), \A f \in DOMAIN files : FromUse(files[f]),
           NamedSchemaStatements(files) = {}, NEW dir
    PROVE  /\ LogicalSchemas(dir, files) \subseteq {""}
           /\ LogicalSchemas(dir, files) = {} => Creates(files) = {}
<1>1. {Schema(At(files, pos)) : pos \in Creates(files)} \subseteq {""}
  BY OnlyNameless
<1> QED BY <1>1 DEF LogicalSchemas

\* Every object of the workspace has one statement.
LEMMA OneStatement ==
    ASSUME NEW files, ~DuplicateDefinition(files), NEW key \in DOMAIN ExecLogicalSchema(files, "").objects
    PROVE  \E o : Found(files, "", key) = {o}
<1> DEFINE stmts == {At(files, pos) : pos \in CreatesOf(files, "")}
           good == {stmt \in stmts : Executes(stmt)}
<1>1. DOMAIN ExecLogicalSchema(files, "").objects = {stmt.key : stmt \in good}
  BY DEF ExecLogicalSchema
<1>2. PICK pos \in CreatesOf(files, "") : At(files, pos).key = key
  BY <1>1
<1>3. \A a, b \in CreatesOf(files, "") : At(files, a).key = At(files, b).key => a = b
  BY DEF DuplicateDefinition, CreatesOf
<1>4. Found(files, "", key) = {pos}
  BY <1>2, <1>3 DEF Found
<1> QED BY <1>4

LEMMA AllKnown ==
    ASSUME NEW files, NEW pos \in CreatesOf(files, "")
    PROVE  At(files, pos).key \in DOMAIN ExecLogicalSchema(files, "").objects \cup Failing(files)
<1> DEFINE stmts == {At(files, p) : p \in CreatesOf(files, "")}
           good == {stmt \in stmts : Executes(stmt)}
<1>1. DOMAIN ExecLogicalSchema(files, "").objects = {stmt.key : stmt \in good}
  BY DEF ExecLogicalSchema
<1>2. Failing(files) = {stmt.key : stmt \in stmts \ good}
  BY DEF ExecLogicalSchema, Failing
<1>3. At(files, pos) \in stmts
  OBVIOUS
<1> HIDE DEF stmts
<1> QED BY <1>1, <1>2, <1>3

LEMMA FormatCanonical ==
    ASSUME NEW c, NEW ws, NEW def, NEW stmts
    PROVE  canonicalCreate(def, stmts, FormatOptions(c, ws)) = Formatted(def)
<1> DEFINE opts == FormatOptions(c, ws)
<1>1. opts.auto = TRUE /\ opts.part = "permissive"
  BY DEF FormatOptions
<1> HIDE DEF opts
<1>2. opts.part # "keep" /\ opts.part # "remove"
  BY <1>1
<1>3. canonicalCreate(def, stmts, opts) = Formatted(def)
  BY <1>1, <1>2, Zenon DEF canonicalCreate, Formatted
<1> QED BY <1>3 DEF opts

LEMMA FormatIgnores ==
    ASSUME NEW c, NEW ws, NEW key
    PROVE  shouldIgnore(FormatOptions(c, ws), key) <=> key \in ws.failed
<1>1. FormatOptions(c, ws).skip = ws.failed /\ FormatOptions(c, ws).onlyDiff = FALSE
  BY DEF FormatOptions
<1> QED BY <1>1 DEF shouldIgnore

\* The statement for an object is still the one that was read.
Untouched(mem, files, key) ==
    \E o, q : /\ Found(files, "", key) = {o} /\ Found(mem.files, "", key) = {q}
             /\ q[1] = o[1] /\ At(mem.files, q) = At(files, o)

\* The dirty files, with the objects in todo still to come.
DirtyFiles(files, todo) == {pos[1] : pos \in {p \in Stale(files) : At(files, p).key \notin todo}}

\* A dump by format, with the objects in todo still to come.
Dumped(mem, files, todo) ==
    /\ IsMem(mem)
    /\ todo \subseteq DOMAIN ExecLogicalSchema(files, "").objects
    /\ mem.dirty = DirtyFiles(files, todo)
    /\ \A key \in todo : Untouched(mem, files, key)
    /\ \A q \in CreatesOf(mem.files, "") :
          At(mem.files, q).key \in DOMAIN ExecLogicalSchema(files, "").objects \cup Failing(files)

LEMMA DumpBegins ==
    ASSUME NEW files, IsFiles(files), ~DuplicateDefinition(files)
    PROVE  Dumped([files |-> files, dirty |-> {}], files, DOMAIN ExecLogicalSchema(files, "").objects)
<1> DEFINE mem == [files |-> files, dirty |-> {}]
           todo == DOMAIN ExecLogicalSchema(files, "").objects
<1>1. IsMem(mem) /\ mem.files = files /\ mem.dirty = {}
  BY MakeMem
<1> HIDE DEF mem
<1>2. \A key \in todo : Untouched(mem, files, key)
  BY <1>1, OneStatement DEF Untouched
<1>3. \A q \in CreatesOf(mem.files, "") : At(mem.files, q).key \in todo \cup Failing(files)
  BY <1>1, AllKnown
<1>4. \A p \in Stale(files) : At(files, p).key \in todo
  BY AllKnown DEF Stale
<1> HIDE DEF todo
<1>5. mem.dirty = DirtyFiles(files, todo)
  BY <1>1, <1>4 DEF DirtyFiles
<1> QED BY <1>1, <1>2, <1>3, <1>5 DEF Dumped, mem, todo

\* The files that an object adds to the dirty ones.
LEMMA MoreDirty ==
    ASSUME NEW files, NEW todo, NEW key \in todo, NEW o, Found(files, "", key) = {o}
    PROVE  DirtyFiles(files, todo \ {key})
             = IF o \in Stale(files) THEN DirtyFiles(files, todo) \cup {o[1]} ELSE DirtyFiles(files, todo)
<1>1. \A p \in Stale(files) : At(files, p).key = key <=> p = o
  BY DEF Found, Stale
<1> QED BY <1>1 DEF DirtyFiles

LEMMA FormatObject ==
    ASSUME NEW c, NEW ws, NEW files, ws = ExecLogicalSchema(files, ""),
           NEW mem, NEW todo, Dumped(mem, files, todo), NEW key \in todo
    PROVE  Dumped(UpdateCreate(mem, "", key, ws.objects[key], FormatOptions(c, ws)), files, todo \ {key})
<1> DEFINE opts == FormatOptions(c, ws)
           def == ws.objects[key]
           text == Wanted(files, key)
           m == UpdateCreate(mem, "", key, def, opts)
<1>1. PICK o, q : /\ Found(files, "", key) = {o} /\ Found(mem.files, "", key) = {q}
                  /\ q[1] = o[1] /\ At(mem.files, q) = At(files, o)
  BY DEF Dumped, Untouched
<1>2. IsMem(mem) /\ IsMem(m)
  BY UpdateFacts DEF Dumped
<1>3. m = IF key \in ws.failed THEN mem ELSE EditCreate(mem, q, text, def.block, opts)
  <2> DEFINE found == Found(mem.files, "", key)
             ch == CHOOSE p \in found : TRUE
             t == Text(key, canonicalCreate(def, {At(mem.files, pos) : pos \in found}, opts))
  <2>1. m = IF shouldIgnore(opts, key) THEN mem
            ELSE IF found = {} THEN AddCreate(mem, FileNameForObject[key.name], ParseStatementInString(t), opts)
            ELSE EditCreate(mem, ch, t, def.block, opts)
    BY DEF UpdateCreate, Found
  <2>2. (CHOOSE p \in {q} : TRUE) = q /\ {q} # {}
    OBVIOUS
  <2>3. t = text
    BY FormatCanonical, Zenon DEF Wanted
  <2>4. shouldIgnore(opts, key) <=> key \in ws.failed
    BY FormatIgnores
  <2>5. found = {q}
    BY <1>1
  <2>6. ch = q /\ found # {}
    BY <2>2, <2>5
  <2> HIDE DEF opts, text, def, m, t, found, ch
  <2>7. CASE shouldIgnore(opts, key)
    <3>1. m = mem
      BY <2>1, <2>7
    <3> QED BY <2>4, <2>7, <3>1
  <2>8. CASE ~shouldIgnore(opts, key)
    <3>1. m = EditCreate(mem, ch, t, def.block, opts)
      BY <2>1, <2>6, <2>8
    <3>2. m = EditCreate(mem, q, text, def.block, opts)
      BY <2>3, <2>6, <3>1
    <3> QED BY <2>4, <2>8, <3>2
  <2> QED BY <2>7, <2>8
<1>4. o \in CreatesOf(files, "") /\ At(files, o).key = key /\ q \in CreatesOf(mem.files, "")
      /\ At(mem.files, q).key = key
  BY <1>1 DEF Found
<1>5. o \in Stale(files) <=> key \notin ws.failed /\ Body(At(mem.files, q)) # text
  BY <1>1, <1>4 DEF Stale, Failing
<1>6. IsSeq(text)
  BY TextFacts DEF Wanted
<1> HIDE DEF text, opts, def
<1>7. CASE key \in ws.failed
  <2>1. m = mem
    BY <1>3, <1>7
  <2>2. mem.dirty = DirtyFiles(files, todo \ {key})
    <3>1. o \notin Stale(files)
      BY <1>5, <1>7
    <3>2. DirtyFiles(files, todo \ {key}) = DirtyFiles(files, todo)
      BY <1>1, <3>1, MoreDirty
    <3> QED BY <3>2 DEF Dumped
  <2>3. Dumped(mem, files, todo \ {key})
    BY <2>2 DEF Dumped
  <2> QED BY <2>1, <2>3 DEF m, opts, def
<1>8. CASE key \notin ws.failed
  <2>1. m = EditCreate(mem, q, text, def.block, opts)
    BY <1>3, <1>8
  <2> HIDE DEF m
  <2>2. EditResult(m, mem, q, text)
    BY <1>2, <1>4, <1>6, <2>1, EditCreateFacts
  <2>3. m.dirty = DirtyFiles(files, todo \ {key})
    <3>1. mem.dirty = DirtyFiles(files, todo)
      BY DEF Dumped
    <3>2. CASE o \in Stale(files)
      <4>1. DirtyFiles(files, todo \ {key}) = DirtyFiles(files, todo) \cup {o[1]}
        BY <1>1, <3>2, MoreDirty, Zenon
      <4>2. m.dirty = mem.dirty \cup {o[1]}
        BY <1>1, <1>5, <1>8, <2>2, <3>2 DEF EditResult
      <4> QED BY <3>1, <4>1, <4>2
    <3>3. CASE o \notin Stale(files)
      <4>1. DirtyFiles(files, todo \ {key}) = DirtyFiles(files, todo)
        BY <1>1, <3>3, MoreDirty
      <4>2. m.dirty = mem.dirty
        BY <1>1, <1>5, <1>8, <2>2, <3>3 DEF EditResult
      <4> QED BY <3>1, <4>1, <4>2
    <3> QED BY <3>2, <3>3
  <2>4. \/ m.files = mem.files
        \/ \E new, at : /\ Edited(at, new, mem.files[q[1]], q[2]) /\ IsStmts(new)
                        /\ m.files = [mem.files EXCEPT ![q[1]] = new]
    BY <2>2, Zenon DEF EditResult
  <2>5. \A k \in todo \ {key} : Untouched(m, files, k)
    <3> SUFFICES ASSUME NEW k \in todo, k # key PROVE Untouched(m, files, k)
      OBVIOUS
    <3>1. Untouched(mem, files, k)
      BY DEF Dumped
    <3>2. CASE m.files = mem.files
      BY <3>1, <3>2, Zenon DEF Untouched
    <3>3. CASE \E new, at : /\ Edited(at, new, mem.files[q[1]], q[2]) /\ IsStmts(new)
                            /\ m.files = [mem.files EXCEPT ![q[1]] = new]
      <4>1. PICK new, at : /\ Edited(at, new, mem.files[q[1]], q[2]) /\ IsStmts(new)
                           /\ m.files = [mem.files EXCEPT ![q[1]] = new]
        BY <3>3
      <4>2. PICK ko, kq : /\ Found(files, "", k) = {ko} /\ Found(mem.files, "", k) = {kq}
                          /\ kq[1] = ko[1] /\ At(mem.files, kq) = At(files, ko)
        BY <3>1 DEF Untouched
      <4>3. IsFiles(mem.files)
        BY <1>2 DEF IsMem
      <4>4. StillFound(m.files, mem.files, "", k, kq)
        <5>1. k # At(mem.files, q).key /\ q \in CreatesOf(mem.files, "")
          BY <1>4
        <5>2. Found(mem.files, "", k) = {kq}
          BY <4>2
        <5>3. Edited(at, new, mem.files[q[1]], q[2])
          BY <4>1
        <5>4. IsStmts(new)
          BY <4>1
        <5>5. m.files = [mem.files EXCEPT ![q[1]] = new]
          BY <4>1
        <5> QED BY <4>3, <5>1, <5>2, <5>3, <5>4, <5>5, OthersStay, Zenon
      <4>5. PICK r : Found(m.files, "", k) = {r} /\ r[1] = kq[1] /\ At(m.files, r) = At(mem.files, kq)
        BY <4>4 DEF StillFound
      <4> QED BY <4>2, <4>5, Zenon DEF Untouched
    <3> QED BY <2>4, <3>2, <3>3
  <2>6. \A r \in CreatesOf(m.files, "") :
           At(m.files, r).key \in DOMAIN ExecLogicalSchema(files, "").objects \cup Failing(files)
    <3> SUFFICES ASSUME NEW r \in CreatesOf(m.files, "")
                 PROVE  \E b \in CreatesOf(mem.files, "") : At(m.files, r).key = At(mem.files, b).key
      BY DEF Dumped
    <3>1. CASE m.files = mem.files
      BY <3>1
    <3>2. CASE \E new, at : /\ Edited(at, new, mem.files[q[1]], q[2]) /\ IsStmts(new)
                            /\ m.files = [mem.files EXCEPT ![q[1]] = new]
      <4>1. PICK new, at : /\ Edited(at, new, mem.files[q[1]], q[2]) /\ IsStmts(new)
                           /\ m.files = [mem.files EXCEPT ![q[1]] = new]
        BY <3>2
      <4>2. IsFiles(mem.files)
        BY <1>2 DEF IsMem
      <4>3. \E b \in CreatesOf(mem.files, "") : Was(r, b, m.files, mem.files, q, new, at)
        BY <1>4, <4>1, <4>2, Origin, Zenon
      <4> QED BY <4>3 DEF Was
    <3> QED BY <2>4, <3>1, <3>2
  <2>7. IsMem(m) /\ todo \ {key} \subseteq DOMAIN ExecLogicalSchema(files, "").objects
    BY <1>2 DEF Dumped
  <2>8. Dumped(m, files, todo \ {key})
    BY <2>3, <2>5, <2>6, <2>7 DEF Dumped
  <2> QED BY <2>8 DEF m, opts, def
<1> QED BY <1>7, <1>8

\* A dump leaves what is to be rewritten.
Rewrites(mem, files) == mem.dirty = Reformatted(files)

\* No object is gone: the dirty files are those with a stale statement.
LEMMA FormatGone ==
    ASSUME NEW c, NEW ws, NEW files, ws = ExecLogicalSchema(files, ""),
           NEW mem, Dumped(mem, files, {})
    PROVE  Rewrites(RemoveGone(mem, "", DOMAIN ws.objects, FormatOptions(c, ws)), files)
<1> DEFINE opts == FormatOptions(c, ws)
           gone == {pos \in CreatesOf(mem.files, "") :
                      At(mem.files, pos).key \notin DOMAIN ws.objects
                      /\ ~shouldIgnore(opts, At(mem.files, pos).key)}
<1>1. \A key : shouldIgnore(opts, key) <=> key \in ws.failed
  BY FormatIgnores
<1>2. gone = {}
  BY <1>1 DEF Dumped, Failing
<1>3. RemoveGone(mem, "", DOMAIN ws.objects, opts).dirty = mem.dirty \cup {pos[1] : pos \in gone}
  BY DEF RemoveGone
<1>4. mem.dirty = Reformatted(files)
  BY DEF Dumped, Reformatted, DirtyFiles
<1> QED BY <1>2, <1>3, <1>4 DEF Rewrites

----------------------------------------------------------------------------
(* The command that is running                                             *)

RunFields == {"pc", "cmd", "exit", "dirs", "dir", "parsed", "schema", "mem", "objects", "todo", "opts",
              "seen", "before", "emptied", "count", "errors", "warnings"}

\* A step within a command.
Same(q, r) == DOMAIN q = RunFields /\ q.cmd = r.cmd /\ q.before = r.before

\* q goes on with the next directory, with code for the one of r.
GoesOn(q, r, code) ==
    /\ Same(q, r) /\ q.count = r.count
    /\ q.pc = "walk" /\ q.dirs = Tail(r.dirs) /\ q.exit = HighestExitCode(r.exit, code)

\* q begins to dump.
Dumps(q, r, files, name, objects, opts) ==
    /\ Same(q, r) /\ q.dirs = r.dirs /\ q.dir = r.dir /\ q.count = r.count /\ q.exit = r.exit
    /\ q.pc = "dump" /\ q.schema = name /\ q.mem = [files |-> files, dirty |-> {}]
    /\ q.objects = objects /\ q.todo = DOMAIN objects /\ q.opts = opts

LEMMA NextDirFacts ==
    ASSUME NEW r, DOMAIN r = RunFields, NEW code
    PROVE  GoesOn(NextDir(r, code), r, code)
BY DEF NextDir, GoesOn, Same, RunFields

LEMMA DumpingFacts ==
    ASSUME NEW r, DOMAIN r = RunFields, NEW files, NEW name, NEW objects, NEW opts
    PROVE  Dumps(Dumping(r, files, name, objects, opts), r, files, name, objects, opts)
BY DEF Dumping, Dumps, Same, RunFields

LEMMA IdleFacts ==
    DOMAIN Idle = RunFields /\ Idle.pc = "idle" /\ Idle.exit = 0 /\ Idle.dirs = <<>> /\ Idle.count = 0
BY DEF Idle, RunFields

\* The directories still to visit.
Distinct(s) == IsSeq(s) /\ \A m, n \in 1..Len(s) : s[m] = s[n] => m = n

LEMMA NoneDistinct == Distinct(<<>>) /\ ToSet(<<>>) = {}
<1>1. IsSeq(<<>>) /\ ToSet(<<>>) = {} /\ Len(<<>>) = 0
  BY EmptyFacts
<1> QED BY <1>1 DEF Distinct

LEMMA DistinctTail ==
    ASSUME NEW s, Distinct(s), s # <<>>
    PROVE  /\ Distinct(Tail(s)) /\ Head(s) \in ToSet(s)
           /\ ToSet(Tail(s)) = ToSet(s) \ {Head(s)}
<1> DEFINE N == Len(s)
           t == Tail(s)
<1>1. /\ N \in Nat /\ s = [i \in 1..N |-> s[i]] /\ ToSet(s) = {s[i] : i \in 1..N}
      /\ \A m, n \in 1..N : s[m] = s[n] => m = n
  BY SeqFacts DEF Distinct
<1>2. N # 0 /\ s \in Seq(ToSet(s))
  BY NonemptyFacts DEF Distinct, IsSeq
<1>3. Head(s) = s[1] /\ t \in Seq(ToSet(s)) /\ Len(t) = N - 1 /\ \A i \in 1..Len(t) : t[i] = s[i + 1]
  <2>1. Head(s) = s[1] /\ t \in Seq(ToSet(s)) /\ Len(t) = N - 1
    BY <1>2, HeadTailProperties
  <2>2. \A i \in 1..Len(t) : t[i] = s[i + 1]
    BY <1>2, HeadTailProperties
  <2> QED BY <2>1, <2>2
<1> HIDE DEF t, N
<1>4. t = [i \in 1..(N - 1) |-> t[i]] /\ \A i \in 1..(N - 1) : t[i] = s[i + 1]
  BY <1>3
<1>5. N - 1 \in Nat
  BY <1>1, <1>2
<1>6. IsSeq(t) /\ Len(t) = N - 1
  BY <1>4, <1>5, FunctionIsSeq
<1>7. ToSet(t) = {t[i] : i \in 1..(N - 1)}
  BY <1>6, SeqFacts
<1>8. \A i \in 1..(N - 1) : i + 1 \in 1..N
  BY <1>1
<1>9. \A m, n \in 1..Len(t) : t[m] = t[n] => m = n
  <2> SUFFICES ASSUME NEW m \in 1..(N - 1), NEW n \in 1..(N - 1), t[m] = t[n] PROVE m = n
    BY <1>6
  <2>1. s[m + 1] = s[n + 1]
    BY <1>4
  <2>2. m + 1 = n + 1
    BY <1>1, <1>8, <2>1
  <2> QED BY <2>2
<1>10. 1 \in 1..N /\ \A i \in 1..N : i # 1 => i - 1 \in 1..(N - 1) /\ (i - 1) + 1 = i
  BY <1>1, <1>2
<1>11. ToSet(t) \subseteq ToSet(s) \ {Head(s)}
  <2> SUFFICES ASSUME NEW i \in 1..(N - 1) PROVE t[i] \in ToSet(s) /\ t[i] # s[1]
    BY <1>3, <1>7
  <2>1. i + 1 \in 1..N /\ i + 1 # 1
    BY <1>1
  <2>2. s[i + 1] # s[1]
    BY <1>1, <1>10, <2>1
  <2> QED BY <1>1, <1>4, <2>1, <2>2
<1>12. ToSet(s) \ {Head(s)} \subseteq ToSet(t)
  <2> SUFFICES ASSUME NEW i \in 1..N, i # 1 PROVE s[i] \in ToSet(t)
    BY <1>1, <1>3
  <2>1. i - 1 \in 1..(N - 1) /\ t[i - 1] = s[(i - 1) + 1]
    BY <1>4, <1>10
  <2>2. t[i - 1] = s[i]
    BY <1>10, <2>1
  <2> QED BY <1>7, <2>1, <2>2
<1>13. Head(s) \in ToSet(s)
  BY <1>1, <1>3, <1>10
<1> QED BY <1>6, <1>9, <1>11, <1>12, <1>13 DEF Distinct, t

\* The subdirectories that a command walks through.
Walked(h) == ToSet(DirOrder) \cap DOMAIN h

LEMMA SubdirsFacts == Distinct(Subdirs) /\ ToSet(Subdirs) = Walked(disk)
<1> DEFINE I == {n \in 1..Len(DirOrder) : DirOrder[n] \in DOMAIN disk}
           t == Pick(DirOrder, I)
<1>1. Subdirs = t
  BY DEF Subdirs, Filter
<1>2. IsSeq(DirOrder) /\ DOMAIN DirOrder = 1..Len(DirOrder)
      /\ ToSet(DirOrder) = {DirOrder[n] : n \in 1..Len(DirOrder)}
  BY HostAssumption, SeqFacts DEF IsSeq
<1>3. I \subseteq 1..Len(DirOrder)
  OBVIOUS
<1>4. ToSet(t) = Walked(disk)
  <2>1. ToSet(t) = {DirOrder[n] : n \in I}
    BY <1>2, <1>3, PickFacts, ZenonT(40)
  <2> QED BY <1>2, <2>1 DEF Walked
<1> HIDE DEF I
<1>5. /\ IsSeq(t) /\ Len(t) = Cardinality(I) /\ Cardinality(I) \in Nat
  BY <1>2, <1>3, PickFacts, ZenonT(40)
<1>6. /\ \A k \in 1..Cardinality(I) : Nth(I, k) \in I /\ t[k] = DirOrder[Nth(I, k)]
  <2>1. \A k \in 1..Cardinality(I) : Nth(I, k) \in I
    BY <1>2, <1>3, PickFacts, ZenonT(40)
  <2>2. \A k \in 1..Cardinality(I) : t[k] = DirOrder[Nth(I, k)]
    BY DEF Pick
  <2> QED BY <2>1, <2>2
<1>7. /\ \A j, k \in 1..Cardinality(I) : j < k => Nth(I, j) < Nth(I, k)
  BY <1>2, <1>3, PickFacts, ZenonT(40)
<1> HIDE DEF t
<1>8. ASSUME NEW j \in 1..Cardinality(I), NEW k \in 1..Cardinality(I), j < k
      PROVE  t[j] # t[k]
  <2>1. Nth(I, j) \in 1..Len(DirOrder) /\ Nth(I, k) \in 1..Len(DirOrder) /\ Nth(I, j) < Nth(I, k)
    BY <1>3, <1>6, <1>7, <1>8
  <2>2. Nth(I, j) # Nth(I, k)
    BY <2>1
  <2>3. DirOrder[Nth(I, j)] # DirOrder[Nth(I, k)]
    BY <1>2, <2>1, <2>2, HostAssumption
  <2> QED BY <1>6, <2>3
<1>9. Distinct(t)
  <2> SUFFICES ASSUME NEW j \in 1..Cardinality(I), NEW k \in 1..Cardinality(I), t[j] = t[k] PROVE j = k
    BY <1>5 DEF Distinct
  <2>1. ~(j < k) /\ ~(k < j)
    BY <1>8
  <2> QED BY <1>5, <2>1
<1> QED BY <1>1, <1>4, <1>9

\* What is on disk.
IsHost(h) == \A d \in DOMAIN h : IsDir(h[d])

LEMMA TextToDisk ==
    ASSUME NEW dir, IsDir(dir), NEW files, IsFiniteSet(DOMAIN files),
           \A f \in DOMAIN files : IsSeq(files[f])
    PROVE  IsDir([dir EXCEPT !.files = files])
<1> DEFINE new == [dir EXCEPT !.files = files]
<1>1. DOMAIN new = {"schema", "charset", "files"} /\ new.files = files
  BY DEF IsDir
<1> HIDE DEF new
<1>2. IsDir(new)
  BY <1>1 DEF IsDir, IsSeq
<1> QED BY <1>2 DEF new

LEMMA CharsetToDisk ==
    ASSUME NEW dir, IsDir(dir), NEW charset
    PROVE  IsDir([dir EXCEPT !.charset = charset])
<1> DEFINE new == [dir EXCEPT !.charset = charset]
<1>1. DOMAIN new = {"schema", "charset", "files"} /\ new.files = dir.files
  BY DEF IsDir
<1> HIDE DEF new
<1>2. IsDir(new)
  BY <1>1, Zenon DEF IsDir
<1> QED BY <1>2 DEF new

\* An edit of one directory.
Touched(k, h, d) == DOMAIN k = DOMAIN h /\ IsHost(k) /\ \A e \in DOMAIN h : e # d => k[e] = h[e]

LEMMA TouchFacts ==
    ASSUME NEW h, IsHost(h), NEW d, NEW new, d \in DOMAIN h => IsDir(new),
           NEW k, k = [h EXCEPT ![d] = new]
    PROVE  Touched(k, h, d)
BY DEF IsHost, Touched

LEMMA CharsetFacts ==
    ASSUME NEW h, IsHost(h), NEW d, NEW charset
    PROVE  Touched([h EXCEPT ![d].charset = charset], h, d)
<1> DEFINE new == [h[d] EXCEPT !.charset = charset]
           k == [h EXCEPT ![d] = new]
<1>1. d \in DOMAIN h => IsDir(new)
  BY CharsetToDisk DEF IsHost
<1>2. k = [h EXCEPT ![d].charset = charset]
  OBVIOUS
<1> HIDE DEF new
<1>3. Touched(k, h, d)
  BY <1>1, TouchFacts
<1> QED BY <1>2, <1>3

LEMMA FilesFacts ==
    ASSUME NEW h, IsHost(h), NEW d, NEW files, d \in DOMAIN h => IsFiniteSet(DOMAIN files),
           d \in DOMAIN h => \A f \in DOMAIN files : IsSeq(files[f])
    PROVE  Touched([h EXCEPT ![d].files = files], h, d)
<1> DEFINE new == [h[d] EXCEPT !.files = files]
           k == [h EXCEPT ![d] = new]
<1>1. d \in DOMAIN h => IsDir(new)
  BY TextToDisk DEF IsHost
<1>2. k = [h EXCEPT ![d].files = files]
  OBVIOUS
<1> HIDE DEF new
<1>3. Touched(k, h, d)
  BY <1>1, TouchFacts
<1> QED BY <1>2, <1>3

LEMMA PutFacts ==
    ASSUME NEW files, IsFiniteSet(DOMAIN files), \A f \in DOMAIN files : IsSeq(files[f]),
           NEW f, NEW text, IsSeq(text)
    PROVE  /\ IsFiniteSet(DOMAIN Put(files, f, text))
           /\ \A g \in DOMAIN Put(files, f, text) : IsSeq(Put(files, f, text)[g])
<1>1. DOMAIN Put(files, f, text) = DOMAIN files \cup {f}
  BY DEF Put
<1>2. IsFiniteSet(DOMAIN files \cup {f})
  BY FS_AddElement
<1>3. \A g \in DOMAIN files \cup {f} : Put(files, f, text)[g] = IF g = f THEN text ELSE files[g]
  BY DEF Put
<1> QED BY <1>1, <1>2, <1>3

LEMMA WithoutFacts ==
    ASSUME NEW files, IsFiniteSet(DOMAIN files), \A f \in DOMAIN files : IsSeq(files[f]), NEW f
    PROVE  /\ IsFiniteSet(DOMAIN Without(files, f))
           /\ \A g \in DOMAIN Without(files, f) : IsSeq(Without(files, f)[g])
<1>1. DOMAIN Without(files, f) = DOMAIN files \ {f}
  BY DEF Without, Restrict
<1>2. IsFiniteSet(DOMAIN files \ {f})
  BY FS_RemoveElement
<1>3. \A g \in DOMAIN files \ {f} : Without(files, f)[g] = files[g]
  BY DEF Without, Restrict
<1> QED BY <1>1, <1>2, <1>3

LEMMA WriteFacts ==
    ASSUME NEW h, IsHost(h), NEW d, NEW f, NEW stmts, IsStmts(stmts)
    PROVE  /\ Touched([h EXCEPT ![d].files = Write(@, f, stmts)], h, d)
           /\ Touched([h EXCEPT ![d].files = Put(@, f, <<>>)], h, d)
<1>1. IsSeq(FileText(stmts)) /\ IsSeq(<<>>)
  BY FileTextFacts, EmptyFacts
<1>2. ASSUME d \in DOMAIN h
      PROVE  /\ IsFiniteSet(DOMAIN h[d].files) /\ \A g \in DOMAIN h[d].files : IsSeq(h[d].files[g])
  BY <1>2 DEF IsHost, IsDir, IsSeq
<1> DEFINE w == Write(h[d].files, f, stmts)
           p == Put(h[d].files, f, <<>>)
<1>3. d \in DOMAIN h => IsFiniteSet(DOMAIN w) /\ \A g \in DOMAIN w : IsSeq(w[g])
  BY <1>1, <1>2, PutFacts, WithoutFacts DEF Write
<1>4. d \in DOMAIN h => IsFiniteSet(DOMAIN p) /\ \A g \in DOMAIN p : IsSeq(p[g])
  BY <1>1, <1>2, PutFacts
<1>5. /\ [h EXCEPT ![d].files = Write(@, f, stmts)] = [h EXCEPT ![d].files = w]
      /\ [h EXCEPT ![d].files = Put(@, f, <<>>)] = [h EXCEPT ![d].files = p]
  OBVIOUS
<1> HIDE DEF w, p
<1>6. Touched([h EXCEPT ![d].files = w], h, d) /\ Touched([h EXCEPT ![d].files = p], h, d)
  BY <1>3, <1>4, FilesFacts
<1> QED BY <1>5, <1>6

----------------------------------------------------------------------------
(* The shape of a command and of the disk                                  *)

Common(r, h) ==
    /\ IsHost(h) /\ DOMAIN r = RunFields /\ r.exit \in Nat
    /\ Distinct(r.dirs) /\ ToSet(r.dirs) \subseteq DOMAIN h

\* The directory it is in is the first of those it still has to go through, but
\* for the ones that pull and init create at the end.
InDir(r) ==
    /\ r.dirs = <<>> => r.cmd.name \in {"init", "pull"}
    /\ r.dirs # <<>> => r.dir = Head(r.dirs)

ShapeOf(r, h) ==
    /\ Common(r, h)
    /\ r.pc = "parsed" => r.dirs # <<>> /\ r.dir = Head(r.dirs) /\ r.parsed = parseContents(h[r.dir])
    /\ r.pc \in {"dump", "write"} => IsMem(r.mem) /\ InDir(r)
    /\ r.pc = "new" => r.dirs = <<>> /\ r.cmd.name \in {"init", "pull"}

Shape == ShapeOf(run, disk)

LEMMA HighestFacts ==
    ASSUME NEW a \in Nat, NEW b \in Nat
    PROVE  HighestExitCode(a, b) \in Nat /\ a <= HighestExitCode(a, b) /\ b <= HighestExitCode(a, b)
BY DEF HighestExitCode

LEMMA CodesAreNat ==
    /\ CodeSuccess \in Nat /\ CodeDifferencesFound \in Nat /\ CodePartialError \in Nat
       /\ CodeFatalError \in Nat
    /\ CodeCantCreate \in Nat /\ CodeBadConfig \in Nat /\ 0 \in Nat
BY DEF CodeSuccess, CodeDifferencesFound, CodePartialError, CodeFatalError, CodeCantCreate, CodeBadConfig

LEMMA ShapeGoesOn ==
    ASSUME NEW r, NEW h, Common(r, h), r.dirs # <<>>, NEW code \in Nat, NEW q, GoesOn(q, r, code),
           NEW k, IsHost(k), DOMAIN h \ {Head(r.dirs)} \subseteq DOMAIN k
    PROVE  ShapeOf(q, k)
<1>1. Distinct(q.dirs) /\ ToSet(q.dirs) = ToSet(r.dirs) \ {Head(r.dirs)}
  BY DistinctTail DEF Common, GoesOn
<1>2. q.exit \in Nat
  BY HighestFacts DEF Common, GoesOn
<1>3. ToSet(q.dirs) \subseteq DOMAIN k
  BY <1>1 DEF Common
<1>4. q.pc = "walk" /\ DOMAIN q = RunFields
  BY DEF GoesOn, Same
<1> QED BY <1>1, <1>2, <1>3, <1>4 DEF ShapeOf, Common

LEMMA ShapeDumps ==
    ASSUME NEW r, NEW h, Common(r, h), InDir(r), NEW files, IsFiles(files),
           NEW name, NEW objects, NEW opts, NEW q, Dumps(q, r, files, name, objects, opts)
    PROVE  ShapeOf(q, h)
<1>1. IsMem(q.mem)
  <2>1. q.mem = [files |-> files, dirty |-> {}] /\ {} \subseteq DOMAIN files
    BY DEF Dumps
  <2> DEFINE m == q.mem
  <2>2. m = [files |-> files, dirty |-> {}]
    BY <2>1
  <2> HIDE DEF m
  <2>3. IsMem(m)
    BY <2>1, <2>2, MakeMem
  <2> QED BY <2>3 DEF m
<1>2. q.pc = "dump" /\ DOMAIN q = RunFields /\ q.exit = r.exit /\ q.dirs = r.dirs /\ q.dir = r.dir
      /\ q.cmd = r.cmd
  BY DEF Dumps, Same
<1> QED BY <1>1, <1>2 DEF ShapeOf, Common, InDir

\* A step that stays in its directory, or ends there.
LEMMA ShapeStays ==
    ASSUME NEW r, NEW h, Common(r, h), NEW q, Same(q, r), q.dirs = r.dirs, q.exit \in Nat,
           NEW k, IsHost(k), DOMAIN h \subseteq DOMAIN k,
           \/ q.pc \in {"walk", "exit", "idle"}
           \/ q.pc = "new" /\ r.dirs = <<>> /\ r.cmd.name \in {"init", "pull"}
           \/ q.pc \in {"dump", "write"} /\ IsMem(q.mem) /\ InDir(r) /\ q.dir = r.dir
           \/ q.pc = "parsed" /\ r.dirs # <<>> /\ q.dir = Head(r.dirs) /\ q.parsed = parseContents(k[q.dir])
    PROVE  ShapeOf(q, k)
<1>1. Common(q, k)
  BY DEF Common, Same
<1>2. InDir(r) /\ q.dir = r.dir => InDir(q)
  BY DEF InDir, Same
<1> QED BY <1>1, <1>2 DEF ShapeOf, Same

LEMMA TouchedShape ==
    ASSUME NEW k, NEW h, NEW d, Touched(k, h, d), NEW x
    PROVE  IsHost(k) /\ DOMAIN h \subseteq DOMAIN k /\ DOMAIN h \ {x} \subseteq DOMAIN k
BY DEF Touched

LEMMA ParsedFacts ==
    ASSUME Shape, NEW names, Parsed(names)
    PROVE  /\ Common(run, disk) /\ run.dirs # <<>> /\ run.dir = Head(run.dirs) /\ InDir(run)
           /\ run.dir \in DOMAIN disk /\ IsDir(disk[run.dir]) /\ IsFiles(Files)
<1>1. /\ Common(run, disk) /\ run.dirs # <<>> /\ run.dir = Head(run.dirs)
         /\ run.parsed = parseContents(disk[run.dir])
  BY DEF Shape, ShapeOf, Parsed
<1>2. InDir(run)
  BY <1>1 DEF InDir
<1>3. run.dir \in DOMAIN disk
  BY <1>1, DistinctTail DEF Common
<1>4. IsDir(disk[run.dir])
  BY <1>1, <1>3 DEF Common, IsHost
<1>5. IsFiles(Files)
  BY <1>1, <1>4, ParseContentsFacts DEF Files
<1> QED BY <1>1, <1>2, <1>3, <1>4, <1>5

LEMMA DumpFailedFacts ==
    ASSUME NEW r, NEW h, Common(r, h), InDir(r), NEW k, IsHost(k), DOMAIN h \subseteq DOMAIN k
    PROVE  ShapeOf(DumpFailed(r), k)
<1> DEFINE a == [r EXCEPT !.pc = "exit", !.exit = CodeCantCreate]
           b == [r EXCEPT !.pc = "exit", !.exit = CodePartialError]
<1>1. DOMAIN r = RunFields
  BY DEF Common
<1>2. Same(a, r) /\ a.dirs = r.dirs /\ a.exit \in Nat /\ a.pc = "exit"
  BY <1>1, CodesAreNat DEF Same, RunFields
<1>3. Same(b, r) /\ b.dirs = r.dirs /\ b.exit \in Nat /\ b.pc = "exit"
  BY <1>1, CodesAreNat DEF Same, RunFields
<1>4. \/ DumpFailed(r) \in {a, b}
      \/ /\ r.cmd.name # "init" /\ (r.cmd.name = "pull" => r.dirs # <<>>)
         /\ DumpFailed(r) \in {NextDir(r, 0), NextDir(r, CodeFatalError)}
  <2>1. CASE r.cmd.name = "init"
    BY <2>1 DEF DumpFailed
  <2>2. CASE r.cmd.name = "pull" /\ r.dirs = <<>>
    BY <2>2 DEF DumpFailed
  <2>3. CASE r.cmd.name = "lint"
    BY <2>3 DEF DumpFailed
  <2>4. CASE r.cmd.name # "init" /\ r.cmd.name # "lint" /\ ~(r.cmd.name = "pull" /\ r.dirs = <<>>)
    BY <2>4 DEF DumpFailed
  <2> QED BY <2>1, <2>2, <2>3, <2>4
<1> HIDE DEF a, b
<1>5. ShapeOf(a, k) /\ ShapeOf(b, k)
  BY <1>2, <1>3, ShapeStays
<1>6. ASSUME r.dirs # <<>>
      PROVE  ShapeOf(NextDir(r, 0), k) /\ ShapeOf(NextDir(r, CodeFatalError), k)
  BY <1>1, <1>6, NextDirFacts, CodesAreNat, ShapeGoesOn
<1>7. r.cmd.name # "init" /\ (r.cmd.name = "pull" => r.dirs # <<>>) => r.dirs # <<>>
  BY DEF InDir
<1> QED BY <1>4, <1>5, <1>6, <1>7

LEMMA ShapeInit == Init => Shape
<1> SUFFICES ASSUME Init PROVE Shape
  OBVIOUS
<1>1. run = Idle /\ IsHost(disk)
  BY HostAssumption DEF Init, IsHost
<1>2. DOMAIN run = RunFields /\ run.pc = "idle" /\ run.exit = 0 /\ run.dirs = <<>>
  BY <1>1, IdleFacts
<1> QED BY <1>1, <1>2, NoneDistinct DEF Shape, ShapeOf, Common

LEMMA ShapeStart == Shape /\ Start => Shape'
<1> SUFFICES ASSUME Shape, Start PROVE ShapeOf(run', disk')
  BY DEF Shape
<1>1. PICK c \in Commands : StartInit(c) \/ StartWalk(c)
  BY DEF Start
<1>2. disk' = disk /\ IsHost(disk)
  BY DEF Start, Shape, ShapeOf, Common
<1>3. DOMAIN Idle = RunFields /\ Idle.exit = 0 /\ Idle.dirs = <<>>
  BY IdleFacts
<1> HIDE DEF Idle
<1>4. CASE StartInit(c)
  <2>1. /\ DOMAIN run' = RunFields /\ run'.dirs = <<>> /\ run'.exit \in Nat /\ run'.cmd = c /\ c.name = "init"
        /\ run'.pc \in {"exit", "new"}
    BY <1>3, <1>4, CodesAreNat DEF StartInit, RunFields
  <2> QED BY <1>2, <2>1, NoneDistinct DEF ShapeOf, Common
<1>5. CASE StartWalk(c)
  <2>1. DOMAIN run' = RunFields /\ run'.dirs = Subdirs /\ run'.exit \in Nat /\ run'.pc = "walk"
    BY <1>3, <1>5, CodesAreNat DEF StartWalk, RunFields
  <2>2. ToSet(Subdirs) \subseteq DOMAIN disk
    BY SubdirsFacts DEF Walked
  <2> QED BY <1>2, <2>1, <2>2, SubdirsFacts DEF ShapeOf, Common
<1> QED BY <1>1, <1>4, <1>5

LEMMA ShapeParse == Shape /\ Parse => Shape'
<1> SUFFICES ASSUME Shape, Parse PROVE ShapeOf(run', disk')
  BY DEF Shape
<1>1. Common(run, disk) /\ run.dirs # <<>> /\ disk' = disk
  BY DEF Parse, Shape, ShapeOf
<1>2. /\ Same(run', run) /\ run'.dirs = run.dirs /\ run'.exit = run.exit /\ run'.pc = "parsed"
      /\ run'.dir = Head(run.dirs) /\ run'.parsed = parseContents(disk[Head(run.dirs)])
  BY <1>1 DEF Parse, Same, Common, RunFields
<1>3. run'.exit \in Nat /\ IsHost(disk) /\ run'.parsed = parseContents(disk[run'.dir])
  BY <1>1, <1>2 DEF Common
<1> QED BY <1>1, <1>2, <1>3, ShapeStays

LEMMA ShapeParseFails == Shape /\ ParseFails => Shape'
<1> SUFFICES ASSUME Shape, ParseFails PROVE ShapeOf(run', disk')
  BY DEF Shape
<1>1. Common(run, disk) /\ run.dirs # <<>> /\ disk' = disk
  BY DEF ParseFails, Shape, ShapeOf
<1>2. PICK code \in Nat : run' = NextDir(run, code)
  BY CodesAreNat DEF ParseFails
<1>3. GoesOn(run', run, code)
  BY <1>1, <1>2, NextDirFacts DEF Common
<1>4. IsHost(disk) /\ DOMAIN disk \ {Head(run.dirs)} \subseteq DOMAIN disk
  BY <1>1 DEF Common
<1> QED BY <1>1, <1>3, <1>4, ShapeGoesOn

LEMMA ShapeNothingHere == Shape /\ NothingHere => Shape'
<1> SUFFICES ASSUME Shape, NothingHere PROVE ShapeOf(run', disk')
  BY DEF Shape
<1>1. Common(run, disk) /\ run.dirs # <<>> /\ disk' = disk
  BY ParsedFacts DEF NothingHere
<1> DEFINE w == run.warnings + Cardinality(UnparsedStatements(Files))
           r == [run EXCEPT !.warnings = w]
<1>2. run' = NextDir(r, 0)
  BY DEF NothingHere
<1>3. DOMAIN r = RunFields /\ r.dirs = run.dirs /\ r.exit = run.exit
  BY <1>1 DEF Common, RunFields
<1> HIDE DEF w, r
<1>4. GoesOn(run', r, 0)
  BY <1>2, <1>3, NextDirFacts
<1>5. Common(r, disk) /\ r.dirs # <<>>
  BY <1>1, <1>3 DEF Common
<1>6. IsHost(disk) /\ DOMAIN disk \ {Head(r.dirs)} \subseteq DOMAIN disk
  BY <1>1 DEF Common
<1> QED BY <1>1, <1>4, <1>5, <1>6, ShapeGoesOn, CodesAreNat

LEMMA ShapePullDir == Shape /\ PullDir => Shape'
<1> SUFFICES ASSUME Shape, PullDir PROVE ShapeOf(run', disk')
  BY DEF Shape
<1>1. /\ Common(run, disk) /\ run.dirs # <<>> /\ run.dir = Head(run.dirs) /\ InDir(run) /\ IsFiles(Files)
  BY ParsedFacts DEF PullDir
<1>2. IsHost(disk) /\ DOMAIN run = RunFields
  BY <1>1 DEF Common
<1>3. PICK name, schema :
         \/ /\ run' \in {NextDir(run, 0), NextDir(run, CodeFatalError)}
            /\ disk' = disk
         \/ run' = NextDir(run, 0) /\ disk' = Without(disk, run.dir)
         \/ PullSchema(name, schema, Objects(server[schema].objects))
  BY DEF PullDir
<1>4. CASE run' \in {NextDir(run, 0), NextDir(run, CodeFatalError)} /\ disk' = disk
  <2>1. GoesOn(run', run, 0) \/ GoesOn(run', run, CodeFatalError)
    BY <1>2, <1>4, NextDirFacts
  <2> QED BY <1>1, <1>2, <1>4, <2>1, ShapeGoesOn, CodesAreNat
<1>5. CASE run' = NextDir(run, 0) /\ disk' = Without(disk, run.dir)
  <2>1. GoesOn(run', run, 0)
    BY <1>2, <1>5, NextDirFacts
  <2>2. DOMAIN disk' = DOMAIN disk \ {Head(run.dirs)} /\ IsHost(disk')
    BY <1>1, <1>2, <1>5 DEF Without, Restrict, IsHost
  <2> QED BY <1>1, <2>1, <2>2, ShapeGoesOn, CodesAreNat
<1>6. CASE PullSchema(name, schema, Objects(server[schema].objects))
  <2> DEFINE r == [run EXCEPT !.seen = @ \cup {schema}]
             live == Objects(server[schema].objects)
             opts == PullOptions(run.cmd, IF run.cmd.format THEN {}
                                          ELSE objectsInDiff(ExecLogicalSchema(Files, name), live, run.cmd))
  <2>1. disk' = [disk EXCEPT ![run.dir].charset = server[schema].charset]
    BY <1>6 DEF PullSchema
  <2>2. run' = NextDir(r, CodeFatalError) \/ run' = Dumping(r, Files, name, live, opts)
    BY <1>6 DEF PullSchema
  <2>3. DOMAIN r = RunFields /\ r.dirs = run.dirs /\ r.exit = run.exit /\ r.dir = run.dir /\ r.cmd = run.cmd
    BY <1>2 DEF RunFields
  <2> HIDE DEF r, live, opts
  <2>4. Touched(disk', disk, run.dir)
    BY <1>2, <2>1, CharsetFacts
  <2>5. IsHost(disk') /\ DOMAIN disk' = DOMAIN disk
    BY <2>4 DEF Touched
  <2>6. Common(r, disk') /\ r.dirs # <<>> /\ InDir(r)
    BY <1>1, <2>3, <2>5 DEF Common, InDir
  <2>7. CASE run' = NextDir(r, CodeFatalError)
    <3>1. GoesOn(run', r, CodeFatalError)
      BY <2>3, <2>7, NextDirFacts
    <3>2. DOMAIN disk' \ {Head(r.dirs)} \subseteq DOMAIN disk'
      OBVIOUS
    <3> QED BY <2>5, <2>6, <3>1, <3>2, ShapeGoesOn, CodesAreNat
  <2>8. CASE run' = Dumping(r, Files, name, live, opts)
    <3>1. Dumps(run', r, Files, name, live, opts)
      BY <2>3, <2>8, DumpingFacts
    <3> QED BY <1>1, <2>6, <3>1, ShapeDumps
  <2> QED BY <2>2, <2>7, <2>8
<1> QED BY <1>3, <1>4, <1>5, <1>6

LEMMA ShapeCharSetFails == Shape /\ CharSetFails => Shape'
<1> SUFFICES ASSUME Shape, CharSetFails PROVE ShapeOf(run', disk')
  BY DEF Shape
<1>1. /\ Common(run, disk) /\ run.dirs # <<>>
  BY ParsedFacts DEF CharSetFails
<1>2. IsHost(disk) /\ DOMAIN run = RunFields
  BY <1>1 DEF Common
<1>3. GoesOn(run', run, CodeFatalError)
  BY <1>2, NextDirFacts DEF CharSetFails
<1> DEFINE new == [schema |-> "", charset |-> "", files |-> disk[run.dir].files]
<1>4. disk' = disk \/ disk' = [disk EXCEPT ![run.dir] = new]
  BY DEF CharSetFails
<1>5. IsHost(disk') /\ DOMAIN disk' = DOMAIN disk
  <2>1. DOMAIN new = {"schema", "charset", "files"} /\ new.files = disk[run.dir].files
    OBVIOUS
  <2> HIDE DEF new
  <2>2. run.dir \in DOMAIN disk => IsDir(new)
    BY <1>2, <2>1, Zenon DEF IsHost, IsDir
  <2>3. Touched([disk EXCEPT ![run.dir] = new], disk, run.dir)
    BY <1>2, <2>2, TouchFacts
  <2> QED BY <1>2, <1>4, <2>3 DEF Touched
<1>6. DOMAIN disk \ {Head(run.dirs)} \subseteq DOMAIN disk'
  BY <1>5
<1> QED BY <1>1, <1>3, <1>5, <1>6, ShapeGoesOn, CodesAreNat

LEMMA ShapeFormatDir == Shape /\ FormatDir => Shape'
<1> SUFFICES ASSUME Shape, FormatDir PROVE ShapeOf(run', disk')
  BY DEF Shape
<1>1. /\ Common(run, disk) /\ run.dirs # <<>> /\ InDir(run) /\ IsFiles(Files) /\ disk' = disk
  BY ParsedFacts DEF FormatDir
<1>2. IsHost(disk) /\ DOMAIN run = RunFields /\ run.exit \in Nat
  BY <1>1 DEF Common
<1>3. PICK name, ws :
         run' = IF DuplicateNames(Files, name) \/ NamedSchemaStatements(Files) # {}
                THEN NextDir(run, CodeFatalError)
                ELSE Dumping([run EXCEPT !.exit = HighestExitCode(@, IF ws.failed # {}
                                                   THEN CodeDifferencesFound ELSE CodeSuccess)],
                             Files, name, ws.objects, FormatOptions(run.cmd, ws))
  BY DEF FormatDir
<1> DEFINE code == HighestExitCode(run.exit, IF ws.failed # {} THEN CodeDifferencesFound ELSE CodeSuccess)
           r == [run EXCEPT !.exit = code]
           opts == FormatOptions(run.cmd, ws)
<1>4. run' = NextDir(run, CodeFatalError) \/ run' = Dumping(r, Files, name, ws.objects, opts)
  BY <1>3
<1>5. code \in Nat
  BY <1>2, CodesAreNat, HighestFacts
<1> HIDE DEF code
<1>6. DOMAIN r = RunFields /\ r.dirs = run.dirs /\ r.exit = code /\ r.dir = run.dir /\ r.cmd = run.cmd
  BY <1>2 DEF RunFields
<1> HIDE DEF r, opts
<1>7. CASE run' = NextDir(run, CodeFatalError)
  <2>1. GoesOn(run', run, CodeFatalError)
    BY <1>2, <1>7, NextDirFacts
  <2> QED BY <1>1, <1>2, <2>1, ShapeGoesOn, CodesAreNat
<1>8. CASE run' = Dumping(r, Files, name, ws.objects, opts)
  <2>1. Dumps(run', r, Files, name, ws.objects, opts)
    BY <1>6, <1>8, DumpingFacts
  <2>2. Common(r, disk) /\ InDir(r)
    BY <1>1, <1>5, <1>6 DEF Common, InDir
  <2> QED BY <1>1, <2>1, <2>2, ShapeDumps
<1> QED BY <1>4, <1>7, <1>8

LEMMA ShapeLintDir == Shape /\ LintDir => Shape'
<1> SUFFICES ASSUME Shape, LintDir PROVE ShapeOf(run', disk')
  BY DEF Shape
<1>1. /\ Common(run, disk) /\ run.dirs # <<>> /\ InDir(run) /\ IsFiles(Files) /\ disk' = disk
  BY ParsedFacts DEF LintDir
<1>2. IsHost(disk) /\ DOMAIN run = RunFields
  BY <1>1 DEF Common
<1>3. PICK name, ws, names, named :
         \/ run' = NextDir(Linted(run, names, named), 0)
         \/ run' = Dumping(Linted(run, names, named), Files, name, ws.objects, FormatOptions(run.cmd, ws))
  BY DEF LintDir
<1> DEFINE r == Linted(run, names, named)
           opts == FormatOptions(run.cmd, ws)
           code == IF \E n \in names : DuplicateNames(Files, n) THEN CodeFatalError ELSE CodeSuccess
<1>4. /\ DOMAIN r = RunFields /\ r.dirs = run.dirs /\ r.dir = run.dir /\ r.cmd = run.cmd
      /\ r.exit = HighestExitCode(run.exit, code)
  BY <1>2 DEF Linted, RunFields
<1> HIDE DEF r, opts
<1>9. r.exit \in Nat
  BY <1>1, <1>4, CodesAreNat, HighestFacts DEF Common
<1> HIDE DEF code
<1>5. Common(r, disk) /\ InDir(r) /\ r.dirs # <<>>
  BY <1>1, <1>4, <1>9 DEF Common, InDir
<1>6. CASE run' = NextDir(r, 0)
  <2>1. GoesOn(run', r, 0)
    BY <1>4, <1>6, NextDirFacts
  <2>2. DOMAIN disk \ {Head(r.dirs)} \subseteq DOMAIN disk
    OBVIOUS
  <2> QED BY <1>1, <1>2, <1>5, <2>1, <2>2, ShapeGoesOn, CodesAreNat
<1>7. CASE run' = Dumping(r, Files, name, ws.objects, opts)
  <2>1. Dumps(run', r, Files, name, ws.objects, opts)
    BY <1>4, <1>7, DumpingFacts
  <2> QED BY <1>1, <1>5, <2>1, ShapeDumps
<1> QED BY <1>3, <1>6, <1>7 DEF r, opts

LEMMA ShapeWorkspaceFails == Shape /\ WorkspaceFails => Shape'
<1> SUFFICES ASSUME Shape, WorkspaceFails PROVE ShapeOf(run', disk')
  BY DEF Shape
<1>1. /\ Common(run, disk) /\ run.dirs # <<>>
  BY ParsedFacts DEF WorkspaceFails
<1>2. IsHost(disk) /\ DOMAIN run = RunFields
  BY <1>1 DEF Common
<1>3. GoesOn(run', run, CodeFatalError)
  BY <1>2, NextDirFacts DEF WorkspaceFails
<1>4. PICK charset : disk' = disk \/ disk' = [disk EXCEPT ![run.dir].charset = charset]
  BY DEF WorkspaceFails
<1>5. IsHost(disk') /\ DOMAIN disk' = DOMAIN disk
  <2>1. Touched([disk EXCEPT ![run.dir].charset = charset], disk, run.dir)
    BY <1>2, CharsetFacts
  <2> QED BY <1>2, <1>4, <2>1 DEF Touched
<1>6. DOMAIN disk \ {Head(run.dirs)} \subseteq DOMAIN disk'
  BY <1>5
<1> QED BY <1>1, <1>3, <1>5, <1>6, ShapeGoesOn, CodesAreNat

LEMMA ShapeDumpObject == Shape /\ DumpObject => Shape'
<1> SUFFICES ASSUME Shape, DumpObject PROVE ShapeOf(run', disk')
  BY DEF Shape
<1>1. Common(run, disk) /\ IsMem(run.mem) /\ InDir(run) /\ disk' = disk /\ run.pc = "dump"
  BY DEF DumpObject, Shape, ShapeOf
<1>2. PICK key \in run.todo :
         run' = [run EXCEPT !.todo = @ \ {key},
                            !.mem = UpdateCreate(@, run.schema, key, run.objects[key], run.opts)]
  BY DEF DumpObject
<1> DEFINE m == UpdateCreate(run.mem, run.schema, key, run.objects[key], run.opts)
           t == run.todo \ {key}
<1>3. IsMem(m)
  BY <1>1, UpdateFacts
<1>4. run' = [run EXCEPT !.todo = t, !.mem = m]
  BY <1>2
<1> HIDE DEF m, t
<1>5. Same(run', run) /\ run'.dirs = run.dirs /\ run'.exit = run.exit /\ run'.pc = "dump"
      /\ run'.dir = run.dir /\ run'.mem = m
  BY <1>1, <1>4 DEF Same, Common, RunFields
<1>6. run'.exit \in Nat /\ IsHost(disk)
  BY <1>1, <1>5 DEF Common
<1> QED BY <1>1, <1>3, <1>5, <1>6, ShapeStays

LEMMA ShapeDumpGone == Shape /\ DumpGone => Shape'
<1> SUFFICES ASSUME Shape, DumpGone PROVE ShapeOf(run', disk')
  BY DEF Shape
<1>1. Common(run, disk) /\ IsMem(run.mem) /\ InDir(run) /\ disk' = disk
  BY DEF DumpGone, Shape, ShapeOf
<1> DEFINE m == RemoveGone(run.mem, run.schema, DOMAIN run.objects, run.opts)
           n == run.count + Cardinality(m.dirty)
<1>2. run' = [run EXCEPT !.pc = "write", !.mem = m, !.count = n]
  BY DEF DumpGone
<1>3. IsMem(m)
  BY <1>1, RemoveGoneFacts
<1> HIDE DEF m, n
<1>4. Same(run', run) /\ run'.dirs = run.dirs /\ run'.exit = run.exit /\ run'.pc = "write"
      /\ run'.dir = run.dir /\ run'.mem = m
  BY <1>1, <1>2 DEF Same, Common, RunFields
<1>5. run'.exit \in Nat /\ IsHost(disk)
  BY <1>1, <1>4 DEF Common
<1> QED BY <1>1, <1>3, <1>4, <1>5, ShapeStays

LEMMA ShapeWriteFile == Shape /\ WriteFile => Shape'
<1> SUFFICES ASSUME Shape, WriteFile PROVE ShapeOf(run', disk')
  BY DEF Shape
<1>1. Common(run, disk) /\ IsMem(run.mem) /\ InDir(run) /\ run.pc = "write"
  BY DEF WriteFile, Shape, ShapeOf
<1>2. IsHost(disk) /\ DOMAIN run = RunFields
  BY <1>1 DEF Common
<1>3. PICK f \in run.mem.dirty :
         /\ run' = [run EXCEPT !.mem.dirty = @ \ {f}]
         /\ disk' = IF run.opts.count THEN disk
                    ELSE [disk EXCEPT ![run.dir].files = Write(@, f, run.mem.files[f])]
  BY DEF WriteFile
<1>4. IsStmts(run.mem.files[f])
  BY <1>1, <1>3 DEF IsMem, IsFiles
<1>5. IsHost(disk') /\ DOMAIN disk' = DOMAIN disk
  <2>1. Touched([disk EXCEPT ![run.dir].files = Write(@, f, run.mem.files[f])], disk, run.dir)
    BY <1>2, <1>4, WriteFacts
  <2>2. disk' = disk \/ disk' = [disk EXCEPT ![run.dir].files = Write(@, f, run.mem.files[f])]
    BY <1>3
  <2> QED BY <1>2, <2>1, <2>2 DEF Touched
<1> DEFINE dirty == run.mem.dirty \ {f}
           m == [run.mem EXCEPT !.dirty = dirty]
<1>6. run' = [run EXCEPT !.mem = m]
  BY <1>3
<1>7. m = [files |-> run.mem.files, dirty |-> dirty] /\ dirty \subseteq DOMAIN run.mem.files
      /\ IsFiles(run.mem.files)
  BY <1>1 DEF IsMem
<1> HIDE DEF m
<1>8. IsMem(m)
  BY <1>7, MakeMem
<1>9. Same(run', run) /\ run'.dirs = run.dirs /\ run'.exit = run.exit /\ run'.pc = "write"
      /\ run'.dir = run.dir /\ run'.mem = m
  BY <1>1, <1>2, <1>6 DEF Same, RunFields
<1>10. run'.exit \in Nat
  BY <1>1, <1>9 DEF Common
<1> QED BY <1>1, <1>5, <1>8, <1>9, <1>10, ShapeStays

LEMMA ShapeWriteFails == Shape /\ WriteFails => Shape'
<1> SUFFICES ASSUME Shape, WriteFails PROVE ShapeOf(run', disk')
  BY DEF Shape
<1>1. Common(run, disk) /\ IsMem(run.mem) /\ InDir(run)
  BY DEF WriteFails, Shape, ShapeOf
<1>2. IsHost(disk) /\ DOMAIN run = RunFields
  BY <1>1 DEF Common
<1>3. PICK f, emptied, written :
         /\ disk' = disk \/ disk' = [disk EXCEPT ![run.dir].files = Put(@, f, <<>>)]
         /\ run' = DumpFailed([run EXCEPT !.count = written, !.emptied = emptied])
  BY DEF WriteFails
<1> DEFINE r == [run EXCEPT !.count = written, !.emptied = emptied]
<1>4. DOMAIN r = RunFields /\ r.dirs = run.dirs /\ r.exit = run.exit /\ r.dir = run.dir /\ r.cmd = run.cmd
  BY <1>2 DEF RunFields
<1>5. IsHost(disk') /\ DOMAIN disk' = DOMAIN disk
  <2>1. Touched([disk EXCEPT ![run.dir].files = Put(@, f, <<>>)], disk, run.dir)
    BY <1>2, StmtsNone, WriteFacts
  <2> QED BY <1>2, <1>3, <2>1 DEF Touched
<1>6. run' = DumpFailed(r)
  BY <1>3
<1> HIDE DEF r
<1>7. Common(r, disk) /\ InDir(r)
  BY <1>1, <1>4 DEF Common, InDir
<1> QED BY <1>5, <1>6, <1>7, DumpFailedFacts

LEMMA ShapeEnds == Shape /\ (EndDump \/ EndWalk) => Shape'
<1> SUFFICES ASSUME Shape, EndDump \/ EndWalk PROVE ShapeOf(run', disk')
  BY DEF Shape
<1>1. Common(run, disk) /\ disk' = disk
  BY DEF EndDump, EndWalk, Shape, ShapeOf
<1>2. IsHost(disk) /\ DOMAIN run = RunFields /\ run.exit \in Nat
  BY <1>1 DEF Common
<1>3. CASE EndWalk
  <2>1. /\ Same(run', run) /\ run'.dirs = run.dirs /\ run'.exit = run.exit
        /\ \/ run'.pc = "exit"
           \/ run'.pc = "new" /\ run.dirs = <<>> /\ run.cmd.name \in {"init", "pull"}
    BY <1>2, <1>3 DEF EndWalk, Same, RunFields
  <2> QED BY <1>1, <1>2, <2>1, ShapeStays
<1>4. CASE EndDump /\ run.dirs = <<>>
  <2>1. run.cmd.name \in {"init", "pull"}
    BY <1>4 DEF EndDump, Shape, ShapeOf, InDir
  <2>2. Same(run', run) /\ run'.dirs = run.dirs /\ run'.exit = run.exit /\ run'.pc = "new"
    BY <1>2, <1>4 DEF EndDump, Same, RunFields
  <2> QED BY <1>1, <1>2, <1>4, <2>1, <2>2, ShapeStays
<1>5. CASE EndDump /\ run.dirs # <<>>
  <2>1. GoesOn(run', run, 0)
    BY <1>2, <1>5, NextDirFacts DEF EndDump
  <2>2. DOMAIN disk \ {Head(run.dirs)} \subseteq DOMAIN disk
    OBVIOUS
  <2> QED BY <1>1, <1>2, <1>5, <2>1, <2>2, ShapeGoesOn, CodesAreNat
<1> QED BY <1>3, <1>4, <1>5

LEMMA ShapePopulate == Shape /\ PopulateSchemaDir => Shape'
<1> SUFFICES ASSUME Shape, PopulateSchemaDir PROVE ShapeOf(run', disk')
  BY DEF Shape
<1>1. Common(run, disk) /\ run.dirs = <<>> /\ run.cmd.name \in {"init", "pull"} /\ InDir(run)
  BY DEF PopulateSchemaDir, Shape, ShapeOf, InDir
<1>2. IsHost(disk) /\ DOMAIN run = RunFields /\ run.exit \in Nat
  BY <1>1 DEF Common
<1>3. PICK s :
         \/ run' = [run EXCEPT !.pc = "exit"] /\ disk' = disk
         \/ run' = DumpFailed(run) /\ disk' = disk
         \/ /\ disk' = Put(disk, s, [schema |-> s, charset |-> server[s].charset, files |-> <<>>])
            /\ run' = Dumping([run EXCEPT !.seen = @ \cup {s}, !.dir = s], <<>>, "",
                              Objects(server[s].objects), NewDirOptions(run.cmd))
  BY DEF PopulateSchemaDir
<1>4. CASE run' = [run EXCEPT !.pc = "exit"] /\ disk' = disk
  <2>1. Same(run', run) /\ run'.dirs = run.dirs /\ run'.exit = run.exit /\ run'.pc = "exit"
    BY <1>2, <1>4 DEF Same, RunFields
  <2> QED BY <1>1, <1>2, <1>4, <2>1, ShapeStays
<1>5. CASE run' = DumpFailed(run) /\ disk' = disk
  BY <1>1, <1>2, <1>5, DumpFailedFacts
<1>6. CASE /\ disk' = Put(disk, s, [schema |-> s, charset |-> server[s].charset, files |-> <<>>])
           /\ run' = Dumping([run EXCEPT !.seen = @ \cup {s}, !.dir = s], <<>>, "",
                             Objects(server[s].objects), NewDirOptions(run.cmd))
  <2> DEFINE dir == [schema |-> s, charset |-> server[s].charset, files |-> <<>>]
             seen == run.seen \cup {s}
             r == [run EXCEPT !.seen = seen, !.dir = s]
             opts == NewDirOptions(run.cmd)
             live == Objects(server[s].objects)
  <2>1. disk' = Put(disk, s, dir) /\ run' = Dumping(r, <<>>, "", live, opts)
    BY <1>6
  <2>2. DOMAIN r = RunFields /\ r.dirs = run.dirs /\ r.exit = run.exit /\ r.cmd = run.cmd
    BY <1>2 DEF RunFields
  <2>3. DOMAIN dir = {"schema", "charset", "files"} /\ dir.files = <<>>
    OBVIOUS
  <2> HIDE DEF r, opts, live, dir, seen
  <2>4. DOMAIN <<>> = {}
    BY EmptyFacts, SeqFacts
  <2>5. IsDir(dir)
    BY <2>3, <2>4, FS_EmptySet DEF IsDir
  <2>6. IsHost(disk') /\ DOMAIN disk \subseteq DOMAIN disk'
    BY <1>2, <2>1, <2>5 DEF Put, IsHost
  <2>7. IsFiles(<<>>)
    BY <2>4 DEF IsFiles
  <2>8. Common(r, disk') /\ InDir(r)
    BY <1>1, <2>2, <2>6 DEF Common, InDir
  <2>9. Dumps(run', r, <<>>, "", live, opts)
    BY <2>1, <2>2, DumpingFacts
  <2> QED BY <2>7, <2>8, <2>9, ShapeDumps
<1> QED BY <1>3, <1>4, <1>5, <1>6

LEMMA ShapeExit == Shape /\ Exit => Shape'
<1> SUFFICES ASSUME Shape, Exit PROVE ShapeOf(run', disk')
  BY DEF Shape
<1>1. run' = Idle /\ disk' = disk /\ IsHost(disk)
  BY DEF Exit, Shape, ShapeOf, Common
<1>2. DOMAIN run' = RunFields /\ run'.pc = "idle" /\ run'.exit = 0 /\ run'.dirs = <<>>
  BY <1>1, IdleFacts
<1> QED BY <1>1, <1>2, NoneDistinct DEF ShapeOf, Common

LEMMA ShapeNext == Shape /\ [Next]_vars => Shape'
<1> SUFFICES ASSUME Shape, [Next]_vars PROVE Shape'
  OBVIOUS
<1>1. CASE NoMoreCommands \/ Change \/ UNCHANGED vars
  BY <1>1, Zenon DEF NoMoreCommands, Change, vars, Shape
<1> QED BY <1>1, ShapeStart, ShapeParse, ShapeParseFails, ShapeNothingHere, ShapePullDir, ShapeCharSetFails, ShapeFormatDir,
           ShapeLintDir, ShapeWorkspaceFails, ShapeDumpObject, ShapeDumpGone, ShapeWriteFile, ShapeWriteFails,
           ShapeEnds, ShapePopulate, ShapeExit DEF Next

\* A step in the midst of a command.
MidStep ==
    Parse \/ ParseFails \/ NothingHere \/ PullDir \/ CharSetFails \/ FormatDir \/ LintDir \/ WorkspaceFails \/ DumpObject
    \/ DumpGone \/ WriteFile \/ WriteFails \/ EndDump \/ EndWalk \/ PopulateSchemaDir

Continues(q, r) == Same(q, r) /\ q.pc # "idle"

LEMMA NextDirKeeps ==
    ASSUME NEW r, NEW s, DOMAIN s = RunFields, s.cmd = r.cmd, s.before = r.before, NEW code
    PROVE  Continues(NextDir(s, code), r)
<1>1. GoesOn(NextDir(s, code), s, code)
  BY NextDirFacts
<1> QED BY <1>1 DEF GoesOn, Same, Continues

LEMMA DumpingKeeps ==
    ASSUME NEW r, NEW s, DOMAIN s = RunFields, s.cmd = r.cmd, s.before = r.before,
           NEW files, NEW name, NEW objects, NEW opts
    PROVE  Continues(Dumping(s, files, name, objects, opts), r)
<1>1. Dumps(Dumping(s, files, name, objects, opts), s, files, name, objects, opts)
  BY DumpingFacts
<1> QED BY <1>1 DEF Dumps, Same, Continues

LEMMA DumpFailedKeeps ==
    ASSUME NEW r, NEW s, DOMAIN s = RunFields, s.cmd = r.cmd, s.before = r.before
    PROVE  Continues(DumpFailed(s), r)
<1> DEFINE a == [s EXCEPT !.pc = "exit", !.exit = CodeCantCreate]
           b == [s EXCEPT !.pc = "exit", !.exit = CodePartialError]
<1>1. Continues(a, r) /\ Continues(b, r)
  BY DEF Continues, Same, RunFields
<1>2. Continues(NextDir(s, 0), r) /\ Continues(NextDir(s, CodeFatalError), r)
  BY NextDirKeeps
<1>3. DumpFailed(s) \in {a, b, NextDir(s, 0), NextDir(s, CodeFatalError)}
  <2> HIDE DEF NextDir
  <2>1. CASE s.cmd.name = "init"
    BY <2>1 DEF DumpFailed
  <2>2. CASE s.cmd.name = "pull" /\ s.dirs = <<>>
    BY <2>2 DEF DumpFailed
  <2>3. CASE s.cmd.name = "lint"
    BY <2>3 DEF DumpFailed
  <2>4. CASE s.cmd.name # "init" /\ s.cmd.name # "lint" /\ ~(s.cmd.name = "pull" /\ s.dirs = <<>>)
    BY <2>4 DEF DumpFailed
  <2> QED BY <2>1, <2>2, <2>3, <2>4
<1> HIDE DEF a, b
<1> QED BY <1>1, <1>2, <1>3

\* The command stays the same, and what it found on disk when it began.
LEMMA MidFacts ==
    ASSUME Shape, MidStep
    PROVE  Same(run', run) /\ run.pc # "idle" /\ run'.pc # "idle" /\ done' = done
<1>1. DOMAIN run = RunFields
  BY DEF Shape, ShapeOf, Common
<1>2. run.pc # "idle" /\ done' = done
  BY DEF MidStep, Parse, ParseFails, NothingHere, PullDir, CharSetFails, FormatDir, LintDir, WorkspaceFails, DumpObject,
         DumpGone, WriteFile, WriteFails, EndDump, EndWalk, PopulateSchemaDir, Parsed
<1>3. CASE Parse
  BY <1>1, <1>3 DEF Parse, Same, RunFields
<1>4. CASE ParseFails \/ CharSetFails \/ WorkspaceFails
  <2>1. \E code : run' = NextDir(run, code)
    BY <1>4 DEF ParseFails, CharSetFails, WorkspaceFails
  <2> QED BY <1>1, <1>2, <2>1, NextDirKeeps DEF Continues
<1>5. CASE NothingHere
  <2> DEFINE w == run.warnings + Cardinality(UnparsedStatements(Files))
             r == [run EXCEPT !.warnings = w]
  <2>1. run' = NextDir(r, 0)
    BY <1>5 DEF NothingHere
  <2>2. DOMAIN r = RunFields /\ r.cmd = run.cmd /\ r.before = run.before
    BY <1>1 DEF RunFields
  <2> HIDE DEF r
  <2> QED BY <1>2, <2>1, <2>2, NextDirKeeps DEF Continues
<1>6. CASE PullDir
  <2>1. PICK name, schema : \/ run' \in {NextDir(run, 0), NextDir(run, CodeFatalError)}
                            \/ PullSchema(name, schema, Objects(server[schema].objects))
    BY <1>6 DEF PullDir
  <2>2. CASE run' \in {NextDir(run, 0), NextDir(run, CodeFatalError)}
    BY <1>1, <1>2, <2>2, NextDirKeeps DEF Continues
  <2>3. CASE PullSchema(name, schema, Objects(server[schema].objects))
    <3> DEFINE r == [run EXCEPT !.seen = @ \cup {schema}]
               live == Objects(server[schema].objects)
               opts == PullOptions(run.cmd, IF run.cmd.format THEN {}
                                            ELSE objectsInDiff(ExecLogicalSchema(Files, name), live, run.cmd))
    <3>1. run' = NextDir(r, CodeFatalError) \/ run' = Dumping(r, Files, name, live, opts)
      BY <2>3 DEF PullSchema
    <3>2. DOMAIN r = RunFields /\ r.cmd = run.cmd /\ r.before = run.before
      BY <1>1 DEF RunFields
    <3> HIDE DEF r, live, opts
    <3>3. Continues(NextDir(r, CodeFatalError), run) /\ Continues(Dumping(r, Files, name, live, opts), run)
      BY <3>2, NextDirKeeps, DumpingKeeps
    <3> QED BY <1>2, <3>1, <3>3 DEF Continues
  <2> QED BY <2>1, <2>2, <2>3
<1>7. CASE FormatDir
  <2>1. PICK name, ws, code :
          \/ run' = NextDir(run, CodeFatalError)
          \/ run' = Dumping([run EXCEPT !.exit = code], Files, name, ws.objects, FormatOptions(run.cmd, ws))
    BY <1>7 DEF FormatDir
  <2> DEFINE r == [run EXCEPT !.exit = code]
  <2>2. DOMAIN r = RunFields /\ r.cmd = run.cmd /\ r.before = run.before
    BY <1>1 DEF RunFields
  <2>3. Continues(NextDir(run, CodeFatalError), run)
    BY <1>1, NextDirKeeps
  <2> HIDE DEF r
  <2>4. Continues(Dumping(r, Files, name, ws.objects, FormatOptions(run.cmd, ws)), run)
    BY <2>2, DumpingKeeps
  <2>5. Continues(run', run)
    BY <2>1, <2>3, <2>4 DEF r
  <2> QED BY <1>2, <2>5 DEF Continues
<1>8. CASE LintDir
  <2>1. PICK name, ws, names, named :
           \/ run' = NextDir(Linted(run, names, named), 0)
           \/ run' = Dumping(Linted(run, names, named), Files, name, ws.objects, FormatOptions(run.cmd, ws))
    BY <1>8 DEF LintDir
  <2> DEFINE r == Linted(run, names, named)
  <2>2. DOMAIN r = RunFields /\ r.cmd = run.cmd /\ r.before = run.before
    BY <1>1 DEF Linted, RunFields
  <2> HIDE DEF r
  <2>3. Continues(NextDir(r, 0), run) /\ Continues(Dumping(r, Files, name, ws.objects, FormatOptions(run.cmd, ws)), run)
    BY <2>2, NextDirKeeps, DumpingKeeps
  <2>4. Continues(run', run)
    BY <2>1, <2>3 DEF r
  <2> QED BY <1>2, <2>4 DEF Continues
<1>9. CASE DumpObject
  BY <1>1, <1>2, <1>9 DEF DumpObject, Same, RunFields
<1>10. CASE DumpGone
  BY <1>1, <1>2, <1>10 DEF DumpGone, Same, RunFields
<1>11. CASE WriteFile
  BY <1>1, <1>2, <1>11 DEF WriteFile, Same, RunFields
<1>12. CASE WriteFails
  <2>1. PICK emptied, written : run' = DumpFailed([run EXCEPT !.count = written, !.emptied = emptied])
    BY <1>12 DEF WriteFails
  <2> DEFINE r == [run EXCEPT !.count = written, !.emptied = emptied]
  <2>2. DOMAIN r = RunFields /\ r.cmd = run.cmd /\ r.before = run.before
    BY <1>1 DEF RunFields
  <2>3. run' = DumpFailed(r)
    BY <2>1
  <2> HIDE DEF r
  <2> QED BY <1>2, <2>2, <2>3, DumpFailedKeeps DEF Continues
<1>13. CASE EndDump
  <2>1. CASE run.dirs = <<>>
    BY <1>1, <1>2, <1>13, <2>1 DEF EndDump, Same, RunFields
  <2>2. CASE run.dirs # <<>>
    <3>1. run' = NextDir(run, 0)
      BY <1>13, <2>2 DEF EndDump
    <3> QED BY <1>1, <1>2, <3>1, NextDirKeeps DEF Continues
  <2> QED BY <2>1, <2>2
<1>14. CASE EndWalk
  BY <1>1, <1>2, <1>14 DEF EndWalk, Same, RunFields
<1>15. CASE PopulateSchemaDir
  <2>1. PICK s :
         \/ run' = [run EXCEPT !.pc = "exit"]
         \/ run' = DumpFailed(run)
         \/ run' = Dumping([run EXCEPT !.seen = @ \cup {s}, !.dir = s], <<>>, "",
                              Objects(server[s].objects), NewDirOptions(run.cmd))
    BY <1>15 DEF PopulateSchemaDir
  <2> DEFINE r == [run EXCEPT !.seen = @ \cup {s}, !.dir = s]
             e == [run EXCEPT !.pc = "exit"]
  <2>2. DOMAIN r = RunFields /\ r.cmd = run.cmd /\ r.before = run.before
    BY <1>1 DEF RunFields
  <2>3. Continues(e, run)
    BY <1>1 DEF Continues, Same, RunFields
  <2>4. Continues(DumpFailed(run), run)
    BY <1>1, DumpFailedKeeps
  <2> HIDE DEF r, e
  <2>5. Continues(Dumping(r, <<>>, "", Objects(server[s].objects), NewDirOptions(run.cmd)), run)
    BY <2>2, DumpingKeeps
  <2>6. Continues(run', run)
    BY <2>1, <2>3, <2>4, <2>5 DEF r, e
  <2> QED BY <1>2, <2>6 DEF Continues
<1> QED BY <1>3, <1>4, <1>5, <1>6, <1>7, <1>8, <1>9, <1>10, <1>11, <1>12, <1>13, <1>14, <1>15 DEF MidStep

----------------------------------------------------------------------------
(* What format reports                                                     *)

Content(dir) == parseContents(dir).files
Workspace(dir) == ExecLogicalSchema(Content(dir), "")

\* The files to rewrite in the directories W, and the exit code they ask for.
Rewritten(h, W) == UNION {{d} \X Reformatted(Content(h[d])) : d \in W}
CodeOf(h, W) == IF \E d \in W : Failing(Content(h[d])) # {} THEN 1 ELSE 0

LEMMA ReformattedFacts ==
    ASSUME NEW dir, IsDir(dir)
    PROVE  IsFiniteSet(Reformatted(Content(dir))) /\ Cardinality(Reformatted(Content(dir))) \in Nat
<1>1. DOMAIN Content(dir) = DOMAIN dir.files /\ IsFiniteSet(DOMAIN dir.files)
  BY ParseContentsFacts DEF Content, IsDir
<1>2. \A pos \in Stale(Content(dir)) : pos[1] \in DOMAIN Content(dir)
  BY CreatesFacts DEF Stale
<1>3. Reformatted(Content(dir)) \subseteq DOMAIN dir.files
  BY <1>1, <1>2 DEF Reformatted
<1>4. IsFiniteSet(Reformatted(Content(dir)))
  BY <1>1, <1>3, FS_Subset
<1> QED BY <1>4, FS_CardinalityType

LEMMA WalkedFinite ==
    ASSUME NEW h, NEW W, W \subseteq Walked(h)
    PROVE  IsFiniteSet(W) /\ W \subseteq DOMAIN h
<1>1. IsSeq(DirOrder)
  BY HostAssumption DEF IsSeq
<1>2. Len(DirOrder) \in Nat /\ ToSet(DirOrder) = {DirOrder[n] : n \in 1..Len(DirOrder)}
  BY <1>1, SeqFacts
<1>3. IsFiniteSet(1..Len(DirOrder))
  BY <1>2, FS_Interval
<1>4. IsFiniteSet(ToSet(DirOrder))
  <2> DEFINE g == [n \in 1..Len(DirOrder) |-> DirOrder[n]]
             T == {DirOrder[n] : n \in 1..Len(DirOrder)}
  <2>1. g \in Surjection(1..Len(DirOrder), T)
    BY DEF Surjection
  <2>2. IsFiniteSet(T)
    BY <1>3, <2>1, FS_Surjection
  <2> QED BY <1>2, <2>2
<1>5. W \subseteq ToSet(DirOrder) /\ W \subseteq DOMAIN h
  BY DEF Walked
<1> QED BY <1>4, <1>5, FS_Subset

LEMMA RewrittenFacts ==
    ASSUME NEW h, IsHost(h), NEW W, W \subseteq Walked(h)
    PROVE  IsFiniteSet(Rewritten(h, W)) /\ Cardinality(Rewritten(h, W)) \in Nat
<1> DEFINE P(d) == {d} \X Reformatted(Content(h[d]))
           S == {P(d) : d \in W}
<1>1. IsFiniteSet(W) /\ W \subseteq DOMAIN h
  BY WalkedFinite
<1>2. \A d \in W : IsFiniteSet(P(d))
  <2> SUFFICES ASSUME NEW d \in W PROVE IsFiniteSet(P(d))
    OBVIOUS
  <2>1. IsFiniteSet(Reformatted(Content(h[d])))
    BY <1>1, ReformattedFacts DEF IsHost
  <2>2. IsFiniteSet({d})
    BY FS_Singleton
  <2> QED BY <2>1, <2>2, FS_Product
<1> HIDE DEF P
<1>3. IsFiniteSet(S)
  <2> DEFINE g == [d \in W |-> P(d)]
  <2>1. g \in Surjection(W, S)
    BY DEF Surjection
  <2> QED BY <1>1, <2>1, FS_Surjection
<1>4. IsFiniteSet(UNION S)
  BY <1>2, <1>3, FS_UNION
<1>5. Rewritten(h, W) = UNION S
  BY DEF Rewritten, P
<1> QED BY <1>4, <1>5, FS_CardinalityType

\* One more directory.
LEMMA RewrittenStep ==
    ASSUME NEW h, IsHost(h), NEW W, W \subseteq Walked(h), NEW d \in Walked(h), d \notin W
    PROVE  Cardinality(Rewritten(h, W \cup {d}))
             = Cardinality(Rewritten(h, W)) + Cardinality(Reformatted(Content(h[d])))
<1> DEFINE A == Rewritten(h, W)
           R == Reformatted(Content(h[d]))
           B == {d} \X R
<1>1. Rewritten(h, W \cup {d}) = A \cup B
  BY DEF Rewritten
<1>2. A \cap B = {}
  BY DEF Rewritten
<1>3. IsFiniteSet(A) /\ Cardinality(A) \in Nat
  BY RewrittenFacts
<1>4. IsFiniteSet(R) /\ Cardinality(R) \in Nat
  BY ReformattedFacts DEF IsHost, Walked
<1> HIDE DEF A, R
<1>5. IsFiniteSet({d}) /\ Cardinality({d}) = 1
  BY FS_Singleton
<1>6. IsFiniteSet(B) /\ Cardinality(B) = 1 * Cardinality(R)
  BY <1>4, <1>5, FS_Product
<1> HIDE DEF B
<1>7. Cardinality(A \cup B) = Cardinality(A) + Cardinality(B) - Cardinality(A \cap B)
  BY <1>3, <1>6, FS_Union
<1>8. Cardinality(A \cap B) = 0
  BY <1>2, FS_EmptySet
<1>9. Cardinality(B) = Cardinality(R)
  BY <1>4, <1>6
<1>10. Cardinality(A \cup B) = Cardinality(A) + Cardinality(R)
  BY <1>3, <1>4, <1>7, <1>8, <1>9
<1> QED BY <1>1, <1>10 DEF A, R

LEMMA CodeStep ==
    ASSUME NEW h, NEW W, NEW d
    PROVE  /\ CodeOf(h, W) \in 0..1
           /\ CodeOf(h, W \cup {d}) = IF Failing(Content(h[d])) # {} THEN 1 ELSE CodeOf(h, W)
BY DEF CodeOf

LEMMA NoneRewritten ==
    ASSUME NEW h
    PROVE  Cardinality(Rewritten(h, {})) = 0 /\ CodeOf(h, {}) = 0
<1>1. Rewritten(h, {}) = {}
  BY DEF Rewritten
<1> QED BY <1>1, FS_EmptySet DEF CodeOf

\* A directory without CREATE statements has nothing for format.
LEMMA NothingToFormat ==
    ASSUME NEW files, Creates(files) = {}
    PROVE  Reformatted(files) = {} /\ Failing(files) = {}
<1>1. CreatesOf(files, "") = {}
  BY DEF CreatesOf
<1>2. Failing(files) = {}
  BY <1>1 DEF Failing, ExecLogicalSchema
<1> QED BY <1>1, <1>2 DEF Reformatted, Stale

\* The directories that are done with.
Behind(r) == Walked(r.before) \ ToSet(r.dirs)

\* Unless something failed: what has been counted, and the exit code so far.
Counted(r, counted, judged) ==
    r.exit <= 1 => r.count = Cardinality(Rewritten(r.before, counted)) /\ r.exit = CodeOf(r.before, judged)

\* In the midst of a directory.
InDump(r) ==
    /\ Counted(r, Behind(r), Behind(r) \cup {r.dir})
    /\ r.schema = "" /\ r.objects = Workspace(r.before[r.dir]).objects
    /\ Dumped(r.mem, Content(r.before[r.dir]), r.todo)

FormatOf(r, h) ==
    /\ r.pc = "exit" => r.dirs = <<>>
    /\ ~r.cmd.write => h = r.before
    /\ IsHost(r.before) /\ ToSet(r.dirs) \subseteq Walked(r.before)
    /\ \A d \in ToSet(r.dirs) : (r.pc = "write" => d # r.dir) => h[d] = r.before[d]
    /\ r.pc \in {"dump", "write"} => r.opts = FormatOptions(r.cmd, Workspace(r.before[r.dir]))
    /\ r.pc = "dump" => InDump(r)
    /\ r.pc = "write" => Counted(r, Behind(r) \cup {r.dir}, Behind(r) \cup {r.dir})
    /\ r.pc \notin {"dump", "write"} => Counted(r, Behind(r), Behind(r))

Formatting(r) == r.pc # "idle" /\ r.cmd.name = "format"

Format == Formatting(run) => FormatOf(run, disk)

LEMMA BehindStep ==
    ASSUME NEW r, Distinct(r.dirs), r.dirs # <<>>, ToSet(r.dirs) \subseteq Walked(r.before),
           NEW q, q.before = r.before, q.dirs = Tail(r.dirs)
    PROVE  /\ Behind(q) = Behind(r) \cup {Head(r.dirs)} /\ Behind(r) \subseteq Walked(r.before)
           /\ Head(r.dirs) \in Walked(r.before) /\ Head(r.dirs) \notin Behind(r)
<1>1. Head(r.dirs) \in ToSet(r.dirs) /\ ToSet(q.dirs) = ToSet(r.dirs) \ {Head(r.dirs)}
  BY DistinctTail
<1> QED BY <1>1 DEF Behind

\* On to the next directory.
LEMMA FormatGoesOn ==
    ASSUME NEW r, NEW h, Common(r, h), r.dirs # <<>>, r.dir = Head(r.dirs), FormatOf(r, h),
           NEW code, NEW q, GoesOn(q, r, code), NEW k, Touched(k, h, r.dir), ~r.cmd.write => k = h,
           q.exit <= 1 => Counted(q, Behind(r) \cup {r.dir}, Behind(r) \cup {r.dir})
    PROVE  FormatOf(q, k)
<1>1. q.before = r.before /\ q.cmd = r.cmd /\ q.dirs = Tail(r.dirs) /\ q.pc = "walk"
  BY DEF GoesOn, Same
<1>2. IsHost(r.before) /\ ToSet(r.dirs) \subseteq Walked(r.before) /\ Distinct(r.dirs)
      /\ ToSet(r.dirs) \subseteq DOMAIN h
  BY DEF FormatOf, Common
<1>3. ToSet(q.dirs) = ToSet(r.dirs) \ {r.dir}
  BY <1>1, <1>2, DistinctTail
<1>4. Behind(q) = Behind(r) \cup {r.dir}
  BY <1>1, <1>2, BehindStep
<1>5. \A d \in ToSet(q.dirs) : k[d] = r.before[d]
  BY <1>2, <1>3 DEF FormatOf, Touched
<1>6. Counted(q, Behind(q), Behind(q))
  BY <1>4 DEF Counted
<1>7. ~q.cmd.write => k = q.before
  BY <1>1 DEF FormatOf
<1> QED BY <1>1, <1>2, <1>3, <1>5, <1>6, <1>7, Zenon DEF FormatOf

LEMMA SameHost ==
    ASSUME NEW h, IsHost(h), NEW d
    PROVE  Touched(h, h, d)
BY DEF Touched

\* Something failed in the directory.
LEMMA FormatErrs ==
    ASSUME NEW r, NEW h, Common(r, h), r.dirs # <<>>, r.dir = Head(r.dirs), FormatOf(r, h),
           NEW code \in Nat, code > 1, NEW q, GoesOn(q, r, code), NEW k, Touched(k, h, r.dir), ~r.cmd.write => k = h
    PROVE  FormatOf(q, k)
<1>1. q.exit \in Nat /\ code <= q.exit
  BY HighestFacts DEF Common, GoesOn
<1>2. ~(q.exit <= 1)
  BY <1>1
<1> QED BY <1>2, FormatGoesOn, Zenon

LEMMA FormatStart == Shape /\ Start => Format'
<1> SUFFICES ASSUME Shape, Start, run'.cmd.name = "format" PROVE FormatOf(run', disk')
  BY DEF Format, Formatting
<1>1. PICK c \in Commands : StartInit(c) \/ StartWalk(c)
  BY DEF Start
<1>2. disk' = disk /\ IsHost(disk)
  BY DEF Start, Shape, ShapeOf, Common
<1>3. DOMAIN Idle = RunFields /\ Idle.exit = 0 /\ Idle.count = 0
  BY IdleFacts
<1> HIDE DEF Idle
<1>4. ~StartInit(c)
  <2>1. StartInit(c) => run'.cmd = c /\ c.name = "init"
    BY <1>3 DEF StartInit, RunFields
  <2> QED BY <2>1
<1>5. run'.dirs = Subdirs /\ run'.exit = 0 /\ run'.pc = "walk" /\ run'.count = 0 /\ run'.before = disk
  BY <1>1, <1>3, <1>4 DEF StartWalk, RunFields
<1>6. Behind(run') = {} /\ ToSet(run'.dirs) = Walked(disk)
  BY <1>5, SubdirsFacts DEF Behind
<1>7. Counted(run', Behind(run'), Behind(run'))
  BY <1>5, <1>6, NoneRewritten DEF Counted
<1> QED BY <1>2, <1>5, <1>6, <1>7, Zenon DEF FormatOf

LEMMA FormatParse ==
    ASSUME Shape, FormatOf(run, disk), Parse
    PROVE  FormatOf(run', disk')
<1>1. DOMAIN run = RunFields /\ disk' = disk /\ run.pc = "walk"
  BY DEF Parse, Shape, ShapeOf, Common
<1>2. /\ run'.dirs = run.dirs /\ run'.exit = run.exit /\ run'.pc = "parsed" /\ run'.cmd = run.cmd
      /\ run'.count = run.count /\ run'.before = run.before
  BY <1>1 DEF Parse, RunFields
<1>3. Counted(run', Behind(run'), Behind(run')) <=> Counted(run, Behind(run), Behind(run))
  BY <1>2 DEF Counted, Behind
<1> QED BY <1>1, <1>2, <1>3 DEF FormatOf

\* The files that have been read are those of the beginning.
LEMMA FormatReads ==
    ASSUME Shape, FormatOf(run, disk), run.pc = "parsed"
    PROVE  /\ Common(run, disk) /\ run.dirs # <<>> /\ run.dir = Head(run.dirs)
              /\ run.dir \in Walked(run.before)
           /\ disk[run.dir] = run.before[run.dir] /\ IsDir(run.before[run.dir])
           /\ run.parsed = parseContents(run.before[run.dir]) /\ Files = Content(run.before[run.dir])
           /\ Touched(disk, disk, run.dir)
<1>1. /\ Common(run, disk) /\ run.dirs # <<>> /\ run.dir = Head(run.dirs)
         /\ run.parsed = parseContents(disk[run.dir])
  BY DEF Shape, ShapeOf
<1>2. run.dir \in ToSet(run.dirs)
  BY <1>1, DistinctTail DEF Common
<1>3. disk[run.dir] = run.before[run.dir] /\ run.dir \in Walked(run.before) /\ IsHost(run.before)
  BY <1>2 DEF FormatOf
<1>4. IsDir(run.before[run.dir])
  BY <1>3 DEF IsHost, Walked
<1>5. Touched(disk, disk, run.dir)
  BY <1>1, SameHost DEF Common
<1> QED BY <1>1, <1>3, <1>4, <1>5 DEF Files, Content

LEMMA FormatParseFails ==
    ASSUME Shape, FormatOf(run, disk), run.cmd.name = "format", ParseFails
    PROVE  FormatOf(run', disk')
<1>1. /\ Common(run, disk) /\ run.dirs # <<>> /\ run.dir = Head(run.dirs) /\ Touched(disk, disk, run.dir)
  BY FormatReads DEF ParseFails
<1>2. GoesOn(run', run, CodeBadConfig) /\ disk' = disk
  BY <1>1, NextDirFacts DEF ParseFails, Common
<1>3. CodeBadConfig \in Nat /\ CodeBadConfig > 1
  BY DEF CodeBadConfig
<1> QED BY <1>1, <1>2, <1>3, FormatErrs

LEMMA FormatWorkspaceFails ==
    ASSUME Shape, FormatOf(run, disk), run.cmd.name = "format", WorkspaceFails
    PROVE  FormatOf(run', disk')
<1>1. /\ Common(run, disk) /\ run.dirs # <<>> /\ run.dir = Head(run.dirs) /\ Touched(disk, disk, run.dir)
  BY FormatReads DEF WorkspaceFails, Parsed
<1>2. GoesOn(run', run, CodeFatalError) /\ disk' = disk
  BY <1>1, NextDirFacts DEF WorkspaceFails, Common
<1>3. CodeFatalError \in Nat /\ CodeFatalError > 1
  BY DEF CodeFatalError
<1> QED BY <1>1, <1>2, <1>3, FormatErrs

\* Counting a directory in which nothing is rewritten.
LEMMA CountNothing ==
    ASSUME NEW h, IsHost(h), NEW W, W \subseteq Walked(h), NEW d \in Walked(h), d \notin W,
           Reformatted(Content(h[d])) = {}, Failing(Content(h[d])) = {}
    PROVE  /\ Cardinality(Rewritten(h, W \cup {d})) = Cardinality(Rewritten(h, W))
           /\ CodeOf(h, W \cup {d}) = CodeOf(h, W)
<1>1. Cardinality(Rewritten(h, W \cup {d})) = Cardinality(Rewritten(h, W)) + Cardinality({})
  BY RewrittenStep
<1>2. Cardinality({}) = 0 /\ Cardinality(Rewritten(h, W)) \in Nat
  BY FS_EmptySet, RewrittenFacts
<1>3. CodeOf(h, W \cup {d}) = CodeOf(h, W)
  BY CodeStep
<1> QED BY <1>1, <1>2, <1>3

LEMMA HighestOfNone ==
    ASSUME NEW n \in Nat
    PROVE  HighestExitCode(n, 0) = n
BY DEF HighestExitCode

LEMMA FormatNothingHere ==
    ASSUME Shape, FormatOf(run, disk), run.cmd.name = "format", NothingHere
    PROVE  FormatOf(run', disk')
<1>1. /\ Common(run, disk) /\ run.dirs # <<>> /\ run.dir = Head(run.dirs) /\ Touched(disk, disk, run.dir)
      /\ Files = Content(run.before[run.dir]) /\ run.pc = "parsed"
  BY FormatReads DEF NothingHere, Parsed
<1> DEFINE w == run.warnings + Cardinality(UnparsedStatements(Files))
           r == [run EXCEPT !.warnings = w]
<1>2. run' = NextDir(r, 0) /\ disk' = disk
  BY DEF NothingHere
<1>3. DOMAIN r = RunFields /\ r.dirs = run.dirs /\ r.exit = run.exit /\ r.cmd = run.cmd
      /\ r.before = run.before
      /\ r.count = run.count
  BY <1>1 DEF Common, RunFields
<1> HIDE DEF w, r
<1>4. GoesOn(run', r, 0)
  BY <1>2, <1>3, NextDirFacts
<1>5. GoesOn(run', run, 0)
  BY <1>3, <1>4 DEF GoesOn, Same
<1>6. Creates(Files) = {}
  <2>1. {Schema(At(Files, pos)) : pos \in Creates(Files)} = {}
    BY DEF NothingHere, LogicalSchemas
  <2> QED BY <2>1
<1>7. Reformatted(Content(run.before[run.dir])) = {} /\ Failing(Content(run.before[run.dir])) = {}
  BY <1>1, <1>6, NothingToFormat
<1>8. /\ IsHost(run.before) /\ Behind(run) \subseteq Walked(run.before) /\ run.dir \in Walked(run.before)
      /\ run.dir \notin Behind(run)
  BY <1>1, BehindStep, <1>5 DEF FormatOf, Common, GoesOn, Same
<1>9. /\ Cardinality(Rewritten(run.before, Behind(run) \cup {run.dir})) = Cardinality(Rewritten(run.before, Behind(run)))
      /\ CodeOf(run.before, Behind(run) \cup {run.dir}) = CodeOf(run.before, Behind(run))
  BY <1>7, <1>8, CountNothing
<1>10. Counted(run, Behind(run), Behind(run))
  BY <1>1 DEF FormatOf
<1>11. run'.exit = run.exit /\ run'.count = run.count /\ run'.before = run.before
  BY <1>1, <1>5, HighestOfNone DEF Common, GoesOn, Same
<1>12. Counted(run', Behind(run) \cup {run.dir}, Behind(run) \cup {run.dir})
  BY <1>9, <1>10, <1>11 DEF Counted
<1> QED BY <1>1, <1>2, <1>5, <1>12, FormatGoesOn, Zenon

LEMMA HighestOfCode ==
    ASSUME NEW n \in Nat, NEW F, NEW e, e = HighestExitCode(n, IF F # {} THEN CodeDifferencesFound ELSE CodeSuccess),
           e <= 1
    PROVE  n <= 1 /\ (n \in 0..1 => e = IF F # {} THEN 1 ELSE n)
BY DEF HighestExitCode, CodeDifferencesFound, CodeSuccess

LEMMA FormatFormatDir ==
    ASSUME Shape, FormatOf(run, disk), FormatDir
    PROVE  FormatOf(run', disk')
<1>1. /\ Common(run, disk) /\ run.dirs # <<>> /\ run.dir = Head(run.dirs) /\ Touched(disk, disk, run.dir)
      /\ Files = Content(run.before[run.dir]) /\ run.pc = "parsed" /\ IsDir(run.before[run.dir])
      /\ run.parsed = parseContents(run.before[run.dir]) /\ run.dir \in Walked(run.before)
  BY FormatReads DEF FormatDir, Parsed
<1>2. DOMAIN run = RunFields /\ run.exit \in Nat /\ disk' = disk /\ ~run.parsed.ParseError
  BY <1>1 DEF Common, FormatDir, Parsed
<1>3. PICK name \in FirstLogicalSchema(disk[run.dir], Files) :
         \E ws \in {ExecLogicalSchema(Files, name)} :
         run' = IF DuplicateNames(Files, name) \/ NamedSchemaStatements(Files) # {}
                THEN NextDir(run, CodeFatalError)
                ELSE Dumping([run EXCEPT !.exit = HighestExitCode(@, IF ws.failed # {}
                                                   THEN CodeDifferencesFound ELSE CodeSuccess)],
                             Files, name, ws.objects, FormatOptions(run.cmd, ws))
  BY DEF FormatDir
<1>4. CASE DuplicateNames(Files, name) \/ NamedSchemaStatements(Files) # {}
  <2>1. GoesOn(run', run, CodeFatalError)
    BY <1>2, <1>3, <1>4, NextDirFacts
  <2>2. CodeFatalError \in Nat /\ CodeFatalError > 1
    BY DEF CodeFatalError
  <2> QED BY <1>1, <1>2, <2>1, <2>2, FormatErrs
<1>5. CASE ~DuplicateNames(Files, name) /\ NamedSchemaStatements(Files) = {}
  <2>1. IsFiles(Files) /\ (\A f \in DOMAIN Files : FromUse(Files[f])) /\ ~DuplicateDefinition(Files)
    BY <1>1, <1>2, ParseContentsFacts DEF Content
  <2>2. name = ""
    <3>1. LogicalSchemas(disk[run.dir], Files) \subseteq {""}
      BY <1>5, <2>1, NamelessSchemas
    <3> QED BY <3>1 DEF FirstLogicalSchema
  <2> DEFINE ws == Workspace(run.before[run.dir])
             code == HighestExitCode(run.exit, IF ws.failed # {} THEN CodeDifferencesFound ELSE CodeSuccess)
             r == [run EXCEPT !.exit = code]
             opts == FormatOptions(run.cmd, ws)
             files == Content(run.before[run.dir])
  <2>3. run' = Dumping(r, files, "", ws.objects, opts)
    BY <1>1, <1>3, <1>5, <2>2 DEF Workspace
  <2>4. ws = ExecLogicalSchema(files, "") /\ ws.failed = Failing(files)
    BY DEF Workspace, Failing
  <2> HIDE DEF code, opts, ws, files
  <2>5. /\ DOMAIN r = RunFields /\ r.dirs = run.dirs /\ r.exit = code /\ r.dir = run.dir /\ r.cmd = run.cmd
        /\ r.count = run.count /\ r.before = run.before
    BY <1>2 DEF RunFields
  <2> HIDE DEF r
  <2>6. Dumps(run', r, files, "", ws.objects, opts)
    BY <2>3, <2>5, DumpingFacts
  <2>7. /\ run'.pc = "dump" /\ run'.dirs = run.dirs /\ run'.dir = run.dir /\ run'.before = run.before
        /\ run'.cmd = run.cmd /\ run'.count = run.count /\ run'.exit = code /\ run'.opts = opts
        /\ run'.schema = "" /\ run'.objects = ws.objects /\ run'.todo = DOMAIN ws.objects
        /\ run'.mem = [files |-> files, dirty |-> {}]
    BY <2>5, <2>6 DEF Dumps, Same
  <2>8. Dumped(run'.mem, files, run'.todo)
    <3>1. Dumped([files |-> files, dirty |-> {}], files, DOMAIN ExecLogicalSchema(files, "").objects)
      BY <1>1, <2>1, DumpBegins DEF files
    <3> QED BY <2>4, <2>7, <3>1, Zenon
  <2>9. Counted(run, Behind(run), Behind(run))
    BY <1>1 DEF FormatOf
  <2>10. Counted(run', Behind(run'), Behind(run') \cup {run'.dir})
    <3> SUFFICES ASSUME code <= 1
                 PROVE  /\ run.count = Cardinality(Rewritten(run.before, Behind(run)))
                        /\ code = CodeOf(run.before, Behind(run) \cup {run.dir})
      <4>1. Behind(run') = Behind(run)
        BY <2>7 DEF Behind
      <4> QED BY <2>7, <4>1 DEF Counted
    <3>1. run.exit <= 1 /\ (run.exit \in 0..1 => code = IF ws.failed # {} THEN 1 ELSE run.exit)
      BY <1>2, HighestOfCode DEF code
    <3>2. /\ run.count = Cardinality(Rewritten(run.before, Behind(run)))
          /\ run.exit = CodeOf(run.before, Behind(run))
      BY <2>9, <3>1 DEF Counted
    <3>3. /\ CodeOf(run.before, Behind(run)) \in 0..1
          /\ CodeOf(run.before, Behind(run) \cup {run.dir}) = IF ws.failed # {} THEN 1 ELSE CodeOf(run.before, Behind(run))
      <4>1. CodeOf(run.before, Behind(run)) \in 0..1
        BY CodeStep
      <4>2. CodeOf(run.before, Behind(run) \cup {run.dir})
              = IF Failing(Content(run.before[run.dir])) # {} THEN 1 ELSE CodeOf(run.before, Behind(run))
        BY CodeStep
      <4>3. ws.failed = Failing(Content(run.before[run.dir]))
        BY <2>4 DEF files
      <4> QED BY <4>1, <4>2, <4>3
    <3> QED BY <3>1, <3>2, <3>3
  <2>11. InDump(run')
    BY <2>7, <2>8, <2>10 DEF InDump, ws, files
  <2>12. run'.opts = FormatOptions(run'.cmd, Workspace(run'.before[run'.dir]))
    BY <2>7 DEF opts, ws
  <2>13. \A d \in ToSet(run.dirs) : disk[d] = run.before[d]
    BY <1>1 DEF FormatOf
  <2> QED BY <1>2, <2>7, <2>11, <2>12, <2>13 DEF FormatOf
<1> QED BY <1>4, <1>5

LEMMA FormatCounts ==
    ASSUME NEW c, NEW ws
    PROVE  FormatOptions(c, ws).count <=> ~c.write
<1>1. FormatOptions(c, ws).count = ~c.write
  BY DEF FormatOptions
<1> QED BY <1>1, Zenon

\* A dump or a write by format is in the first directory to do.
LEMMA FormatWithin ==
    ASSUME Shape, FormatOf(run, disk), run.cmd.name = "format", run.pc \in {"dump", "write"}
    PROVE  /\ Common(run, disk) /\ run.dirs # <<>> /\ run.dir = Head(run.dirs) /\ IsMem(run.mem)
           /\ IsHost(run.before) /\ Behind(run) \subseteq Walked(run.before) /\ run.dir \in Walked(run.before)
           /\ run.dir \notin Behind(run) /\ run.dir \in ToSet(run.dirs)
<1>1. Common(run, disk) /\ IsMem(run.mem) /\ InDir(run)
  BY DEF Shape, ShapeOf
<1>2. run.dirs # <<>> /\ run.dir = Head(run.dirs)
  BY <1>1 DEF InDir
<1>3. run.dir \in ToSet(run.dirs)
  BY <1>1, <1>2, DistinctTail DEF Common
<1>4. IsHost(run.before) /\ ToSet(run.dirs) \subseteq Walked(run.before)
  BY DEF FormatOf
<1> QED BY <1>1, <1>2, <1>3, <1>4 DEF Behind

LEMMA FormatDumpObject ==
    ASSUME Shape, FormatOf(run, disk), run.cmd.name = "format", DumpObject
    PROVE  FormatOf(run', disk')
<1>1. DOMAIN run = RunFields /\ disk' = disk /\ run.pc = "dump"
  BY DEF DumpObject, Shape, ShapeOf, Common
<1>2. PICK key \in run.todo :
         run' = [run EXCEPT !.todo = @ \ {key},
                            !.mem = UpdateCreate(@, run.schema, key, run.objects[key], run.opts)]
  BY DEF DumpObject
<1> DEFINE m == UpdateCreate(run.mem, run.schema, key, run.objects[key], run.opts)
           t == run.todo \ {key}
           files == Content(run.before[run.dir])
           ws == Workspace(run.before[run.dir])
<1>3. run' = [run EXCEPT !.todo = t, !.mem = m]
  BY <1>2
<1>4. Dumped(run.mem, files, run.todo) /\ run.schema = "" /\ run.objects = ws.objects
      /\ run.opts = FormatOptions(run.cmd, ws)
      /\ Counted(run, Behind(run), Behind(run) \cup {run.dir})
  BY <1>1 DEF FormatOf, InDump
<1>5. ws = ExecLogicalSchema(files, "")
  BY DEF Workspace
<1>6. m = UpdateCreate(run.mem, "", key, ws.objects[key], FormatOptions(run.cmd, ws))
  BY <1>4
<1> HIDE DEF m, t, files, ws
<1>7. Dumped(m, files, t)
  <2>1. Dumped(UpdateCreate(run.mem, "", key, ws.objects[key], FormatOptions(run.cmd, ws)), files, run.todo \ {key})
    BY <1>4, <1>5, FormatObject
  <2> QED BY <1>6, <2>1 DEF t
<1>8. /\ run'.dirs = run.dirs /\ run'.exit = run.exit /\ run'.pc = "dump" /\ run'.dir = run.dir
         /\ run'.mem = m
      /\ run'.todo = t /\ run'.cmd = run.cmd /\ run'.before = run.before /\ run'.count = run.count
      /\ run'.schema = run.schema /\ run'.objects = run.objects /\ run'.opts = run.opts
  BY <1>1, <1>3 DEF RunFields
<1>9. Behind(run') = Behind(run)
  BY <1>8 DEF Behind
<1>10. Counted(run', Behind(run'), Behind(run') \cup {run'.dir})
  BY <1>4, <1>8, <1>9 DEF Counted
<1>11. InDump(run')
  BY <1>4, <1>7, <1>8, <1>10 DEF InDump, files, ws
<1> QED BY <1>1, <1>8, <1>11 DEF FormatOf

LEMMA FormatDumpGone ==
    ASSUME Shape, FormatOf(run, disk), run.cmd.name = "format", DumpGone
    PROVE  FormatOf(run', disk')
<1>1. DOMAIN run = RunFields /\ disk' = disk /\ run.pc = "dump" /\ run.todo = {}
  BY DEF DumpGone, Shape, ShapeOf, Common
<1> DEFINE m == RemoveGone(run.mem, run.schema, DOMAIN run.objects, run.opts)
           n == run.count + Cardinality(m.dirty)
           files == Content(run.before[run.dir])
           ws == Workspace(run.before[run.dir])
           W == Behind(run)
<1>2. run' = [run EXCEPT !.pc = "write", !.mem = m, !.count = n]
  BY DEF DumpGone
<1>3. Dumped(run.mem, files, {}) /\ run.schema = "" /\ run.objects = ws.objects
      /\ run.opts = FormatOptions(run.cmd, ws)
      /\ Counted(run, W, W \cup {run.dir})
  BY <1>1 DEF FormatOf, InDump
<1>4. ws = ExecLogicalSchema(files, "")
  BY DEF Workspace
<1>5. m = RemoveGone(run.mem, "", DOMAIN ws.objects, FormatOptions(run.cmd, ws))
  BY <1>3
<1> HIDE DEF m, files, ws, W
<1>6. m.dirty = Reformatted(files)
  <2>1. Dumped(run.mem, files, {})
    BY <1>3
  <2>2. Rewrites(m, files)
    BY <1>4, <1>5, <2>1, FormatGone
  <2> QED BY <2>2 DEF Rewrites
<1>7. n = run.count + Cardinality(Reformatted(files))
  BY <1>6
<1> HIDE DEF n
<1>8. /\ run'.dirs = run.dirs /\ run'.exit = run.exit /\ run'.pc = "write" /\ run'.dir = run.dir
      /\ run'.cmd = run.cmd /\ run'.before = run.before /\ run'.count = n /\ run'.opts = run.opts
  BY <1>1, <1>2 DEF RunFields
<1>9. Behind(run') = W
  BY <1>8 DEF Behind, W
<1>10. Cardinality(Rewritten(run.before, W \cup {run.dir})) = Cardinality(Rewritten(run.before, W)) + Cardinality(Reformatted(files))
  <2>1. IsHost(run.before) /\ W \subseteq Walked(run.before) /\ run.dir \in Walked(run.before)
        /\ run.dir \notin W
    BY <1>1, FormatWithin DEF W
  <2> QED BY <2>1, RewrittenStep DEF files
<1>11. Counted(run', Behind(run') \cup {run'.dir}, Behind(run') \cup {run'.dir})
  BY <1>3, <1>7, <1>8, <1>9, <1>10 DEF Counted
<1>12. \A d \in ToSet(run.dirs) : disk[d] = run.before[d]
  BY <1>1 DEF FormatOf
<1> QED BY <1>1, <1>8, <1>11, <1>12 DEF FormatOf

LEMMA FormatWriteFile ==
    ASSUME Shape, FormatOf(run, disk), run.cmd.name = "format", WriteFile
    PROVE  FormatOf(run', disk')
<1>1. DOMAIN run = RunFields /\ run.pc = "write" /\ IsMem(run.mem) /\ IsHost(disk)
      /\ ToSet(run.dirs) \subseteq DOMAIN disk
  BY DEF WriteFile, Shape, ShapeOf, Common
<1>2. PICK f \in run.mem.dirty :
         /\ run' = [run EXCEPT !.mem.dirty = @ \ {f}]
         /\ disk' = IF run.opts.count THEN disk
                    ELSE [disk EXCEPT ![run.dir].files = Write(@, f, run.mem.files[f])]
  BY DEF WriteFile
<1>3. /\ run'.dirs = run.dirs /\ run'.exit = run.exit /\ run'.pc = "write" /\ run'.dir = run.dir
      /\ run'.cmd = run.cmd /\ run'.before = run.before /\ run'.count = run.count /\ run'.opts = run.opts
  BY <1>1, <1>2 DEF RunFields
<1>4. Touched([disk EXCEPT ![run.dir].files = Write(@, f, run.mem.files[f])], disk, run.dir)
  <2>1. IsStmts(run.mem.files[f])
    BY <1>1, <1>2 DEF IsMem, IsFiles
  <2> QED BY <1>1, <2>1, WriteFacts
<1>5. Touched(disk', disk, run.dir)
  <2>1. Touched(disk, disk, run.dir)
    BY <1>1, SameHost
  <2> QED BY <1>2, <1>4, <2>1
<1>6. ~run.cmd.write => disk' = disk
  <2> SUFFICES ASSUME ~run.cmd.write PROVE disk' = disk
    OBVIOUS
  <2>1. run.opts = FormatOptions(run.cmd, Workspace(run.before[run.dir]))
    BY <1>1 DEF FormatOf
  <2>2. run.opts.count
    BY <2>1, FormatCounts, Zenon
  <2> QED BY <1>2, <2>2
<1>7. Behind(run') = Behind(run)
  BY <1>3 DEF Behind
<1>8. Counted(run', Behind(run') \cup {run'.dir}, Behind(run') \cup {run'.dir})
  BY <1>1, <1>3, <1>7 DEF Counted, FormatOf
<1>9. \A d \in ToSet(run'.dirs) : d # run'.dir => disk'[d] = run'.before[d]
  BY <1>1, <1>3, <1>5 DEF FormatOf, Touched
<1>10. ~run'.cmd.write => disk' = run'.before
  BY <1>3, <1>6 DEF FormatOf
<1> QED BY <1>1, <1>3, <1>8, <1>9, <1>10 DEF FormatOf

LEMMA FormatWriteFails ==
    ASSUME Shape, FormatOf(run, disk), run.cmd.name = "format", WriteFails
    PROVE  FormatOf(run', disk')
<1>1. run.pc = "write"
  BY DEF WriteFails
<1>2. Common(run, disk) /\ run.dirs # <<>> /\ run.dir = Head(run.dirs) /\ IsMem(run.mem)
  BY <1>1, FormatWithin
<1>3. IsHost(disk) /\ DOMAIN run = RunFields
  BY <1>2 DEF Common
<1>4. PICK f, emptied, written :
         /\ disk' = disk \/ disk' = [disk EXCEPT ![run.dir].files = Put(@, f, <<>>)]
         /\ run' = DumpFailed([run EXCEPT !.count = written, !.emptied = emptied])
  BY DEF WriteFails
<1> DEFINE r == [run EXCEPT !.count = written, !.emptied = emptied]
<1>5. /\ DOMAIN r = RunFields /\ r.dirs = run.dirs /\ r.exit = run.exit /\ r.dir = run.dir /\ r.cmd = run.cmd
      /\ r.before = run.before
  BY <1>3 DEF RunFields
<1>6. run' = DumpFailed(r)
  BY <1>4
<1> HIDE DEF r
<1>7. GoesOn(run', r, CodeFatalError)
  <2>1. r.cmd.name = "format"
    BY <1>5
  <2>2. DumpFailed(r) = NextDir(r, CodeFatalError)
    BY <2>1 DEF DumpFailed
  <2> QED BY <1>5, <1>6, <2>2, NextDirFacts
<1>8. CodeFatalError \in Nat /\ CodeFatalError > 1
  BY DEF CodeFatalError
<1>9. run'.exit \in Nat /\ ~(run'.exit <= 1)
  <2>1. run.exit \in Nat
    BY <1>2 DEF Common
  <2>2. run'.exit = HighestExitCode(run.exit, CodeFatalError)
    BY <1>5, <1>7 DEF GoesOn
  <2>3. HighestExitCode(run.exit, CodeFatalError) \in Nat
        /\ CodeFatalError <= HighestExitCode(run.exit, CodeFatalError)
    BY <1>8, <2>1, HighestFacts
  <2> QED BY <1>8, <2>2, <2>3
<1>10. Touched(disk', disk, run.dir)
  <2>1. Touched([disk EXCEPT ![run.dir].files = Put(@, f, <<>>)], disk, run.dir)
    BY <1>3, StmtsNone, WriteFacts
  <2>2. Touched(disk, disk, run.dir)
    BY <1>3, SameHost
  <2> QED BY <1>4, <2>1, <2>2
<1>11. run.cmd.write
  <2>1. run.opts = FormatOptions(run.cmd, Workspace(run.before[run.dir]))
    BY <1>1 DEF FormatOf
  <2>2. ~run.opts.count
    BY DEF WriteFails
  <2> QED BY <2>1, <2>2, FormatCounts, Zenon
<1>12. run'.pc = "walk" /\ run'.dirs = Tail(run.dirs) /\ run'.cmd = run.cmd /\ run'.before = run.before
  BY <1>5, <1>7 DEF GoesOn, Same
<1>13. IsHost(run.before) /\ ToSet(run.dirs) \subseteq Walked(run.before)
       /\ ToSet(run.dirs) \subseteq DOMAIN disk
  BY <1>2 DEF FormatOf, Common
<1>14. ToSet(run'.dirs) = ToSet(run.dirs) \ {run.dir}
  BY <1>2, <1>12, DistinctTail DEF Common
<1>15. \A d \in ToSet(run'.dirs) : disk'[d] = run.before[d]
  BY <1>10, <1>13, <1>14 DEF FormatOf, Touched
<1>16. Counted(run', Behind(run'), Behind(run'))
  BY <1>9 DEF Counted
<1> QED BY <1>11, <1>12, <1>13, <1>14, <1>15, <1>16 DEF FormatOf

LEMMA FormatEndDump ==
    ASSUME Shape, FormatOf(run, disk), run.cmd.name = "format", EndDump
    PROVE  FormatOf(run', disk')
<1>1. run.pc = "write" /\ disk' = disk
  BY DEF EndDump
<1>2. Common(run, disk) /\ run.dirs # <<>> /\ run.dir = Head(run.dirs)
  BY <1>1, FormatWithin
<1>3. GoesOn(run', run, 0)
  BY <1>2, NextDirFacts DEF EndDump, Common
<1>4. run'.exit = run.exit /\ run'.count = run.count /\ run'.before = run.before
  BY <1>2, <1>3, HighestOfNone DEF Common, GoesOn, Same
<1>5. Counted(run', Behind(run) \cup {run.dir}, Behind(run) \cup {run.dir})
  BY <1>1, <1>4 DEF Counted, FormatOf
<1>6. Touched(disk, disk, run.dir)
  BY <1>2, SameHost DEF Common
<1> QED BY <1>1, <1>2, <1>3, <1>5, <1>6, FormatGoesOn, Zenon

LEMMA FormatEndWalk ==
    ASSUME Shape, FormatOf(run, disk), run.cmd.name = "format", EndWalk
    PROVE  FormatOf(run', disk')
<1>1. DOMAIN run = RunFields /\ disk' = disk /\ run.pc = "walk" /\ run.dirs = <<>>
  BY DEF EndWalk, Shape, ShapeOf, Common
<1>2. /\ run'.dirs = run.dirs /\ run'.exit = run.exit /\ run'.pc = "exit" /\ run'.cmd = run.cmd
      /\ run'.count = run.count /\ run'.before = run.before
  BY <1>1 DEF EndWalk, RunFields
<1>3. Counted(run', Behind(run'), Behind(run')) <=> Counted(run, Behind(run), Behind(run))
  BY <1>2 DEF Counted, Behind
<1> QED BY <1>1, <1>2, <1>3 DEF FormatOf

LEMMA FormatNext == Shape /\ Format /\ [Next]_vars => Format'
<1> SUFFICES ASSUME Shape, Format, [Next]_vars PROVE Format'
  OBVIOUS
<1>1. CASE NoMoreCommands \/ Change \/ UNCHANGED vars
  BY <1>1, Zenon DEF NoMoreCommands, Change, vars, Format
<1>2. CASE Start
  BY <1>2, FormatStart
<1>3. CASE Exit
  <2>1. run' = Idle
    BY <1>3 DEF Exit
  <2>2. run'.pc = "idle"
    BY <2>1, IdleFacts
  <2> QED BY <2>2 DEF Format, Formatting
<1>4. CASE MidStep
  <2> SUFFICES ASSUME run'.cmd.name = "format" PROVE FormatOf(run', disk')
    BY DEF Format, Formatting
  <2>1. run.cmd.name = "format" /\ run.pc # "idle"
    BY <1>4, MidFacts DEF Same
  <2>2. FormatOf(run, disk)
    BY <2>1 DEF Format, Formatting
  <2>3. ~PullDir /\ ~CharSetFails /\ ~LintDir
    BY <2>1 DEF PullDir, CharSetFails, LintDir, Parsed
  <2>4. ~PopulateSchemaDir
    BY <2>1 DEF PopulateSchemaDir, Shape, ShapeOf
  <2> QED BY <1>4, <2>1, <2>2, <2>3, <2>4, FormatParse, FormatParseFails, FormatWorkspaceFails, FormatNothingHere,
             FormatFormatDir, FormatDumpObject, FormatDumpGone, FormatWriteFile, FormatWriteFails,
             FormatEndDump,
             FormatEndWalk DEF MidStep
<1> QED BY <1>1, <1>2, <1>3, <1>4 DEF Next, MidStep

\* A format that has ended.
Reported(x) ==
    x.cmd.name = "format" =>
        /\ ~x.cmd.write => x.after = x.before
        /\ x.exit <= 1 => /\ x.count = Cardinality(Rewritten(x.before, Walked(x.before)))
                          /\ x.exit = IF x.count > 0 THEN 1 ELSE CodeOf(x.before, Walked(x.before))

\* What the next command finds on disk, or has found.
OnDisk(r, h) == IF r.pc = "idle" THEN h ELSE r.before

HistoryOf(s, r, h) ==
    /\ IsSeq(s)
    /\ \A n \in 1..Len(s) : Reported(s[n])
    /\ \A n \in 1..Len(s) : s[n].after = IF n = Len(s) THEN OnDisk(r, h) ELSE s[n + 1].before

History == HistoryOf(done, run, disk)

LEMMA HistoryStays ==
    ASSUME NEW s, NEW r, NEW h, HistoryOf(s, r, h), NEW q, NEW k, OnDisk(q, k) = OnDisk(r, h)
    PROVE  HistoryOf(s, q, k)
BY Zenon DEF HistoryOf

LEMMA ExitReports ==
    ASSUME NEW r, NEW h, Common(r, h), r.cmd.name = "format" => FormatOf(r, h), r.pc = "exit", NEW x,
           x.cmd = r.cmd, x.exit = ExitCode(r), x.before = r.before, x.after = h, x.count = r.count
    PROVE  Reported(x)
<1> SUFFICES ASSUME r.cmd.name = "format" PROVE Reported(x)
  BY DEF Reported
<1>1. FormatOf(r, h) /\ r.dirs = <<>>
  BY DEF FormatOf
<1>2. ~x.cmd.write => x.after = x.before
  BY <1>1 DEF FormatOf
<1>3. Behind(r) = Walked(r.before)
  BY <1>1, NoneDistinct DEF Behind
<1>4. Counted(r, Walked(r.before), Walked(r.before))
  BY <1>1, <1>3 DEF FormatOf
<1>5. ExitCode(r) = IF r.count > 0 THEN HighestExitCode(r.exit, CodeDifferencesFound) ELSE r.exit
  <2>1. CASE r.count > 0
    BY <2>1 DEF ExitCode
  <2>2. CASE ~(r.count > 0)
    BY <2>2 DEF ExitCode
  <2> QED BY <2>1, <2>2
<1>6. ASSUME ExitCode(r) <= 1
      PROVE  /\ r.exit <= 1
             /\ r.exit \in 0..1 => ExitCode(r) = IF r.count > 0 THEN 1 ELSE r.exit
  <2>1. r.exit \in Nat
    BY DEF Common
  <2> QED BY <1>5, <1>6, <2>1 DEF HighestExitCode, CodeDifferencesFound
<1>7. ASSUME x.exit <= 1
      PROVE  /\ x.count = Cardinality(Rewritten(x.before, Walked(x.before)))
             /\ x.exit = IF x.count > 0 THEN 1 ELSE CodeOf(x.before, Walked(x.before))
  <2>1. r.exit <= 1
    BY <1>6, <1>7
  <2>2. r.count = Cardinality(Rewritten(r.before, Walked(r.before)))
        /\ r.exit = CodeOf(r.before, Walked(r.before))
    BY <1>4, <2>1 DEF Counted
  <2>3. CodeOf(r.before, Walked(r.before)) \in 0..1
    BY CodeStep
  <2>4. ExitCode(r) = IF r.count > 0 THEN 1 ELSE r.exit
    BY <1>6, <1>7, <2>2, <2>3
  <2> QED BY <2>2, <2>4
<1> QED BY <1>2, <1>7 DEF Reported

LEMMA HistoryExit ==
    ASSUME NEW s, NEW r, NEW h, HistoryOf(s, r, h), r.pc # "idle", NEW x, Reported(x),
           x.before = r.before, x.after = h,
           NEW q, q.pc = "idle"
    PROVE  HistoryOf(Append(s, x), q, h)
<1> DEFINE N == Len(s)
           t == Append(s, x)
           T == ToSet(s) \cup {x}
<1>1. IsSeq(s) /\ N \in Nat
  BY SeqFacts DEF HistoryOf
<1>2. s \in Seq(T) /\ x \in T
  BY <1>1, SeqOver
<1> HIDE DEF T
<1>3. t \in Seq(T) /\ Len(t) = N + 1 /\ (\A n \in 1..N : t[n] = s[n]) /\ t[N + 1] = x
  BY <1>2, AppendProperties
<1> HIDE DEF t
<1>4. IsSeq(t)
  BY <1>3, IsSeqOf
<1>5. \A n \in 1..Len(t) : n \in 1..N \/ n = N + 1
  BY <1>1, <1>3, LastOrBefore
<1>6. \A n \in 1..Len(t) : Reported(t[n])
  BY <1>3, <1>5 DEF HistoryOf
<1>7. OnDisk(q, h) = h /\ OnDisk(r, h) = r.before
  BY DEF OnDisk
<1>8. ASSUME NEW n \in 1..Len(t)
      PROVE  t[n].after = IF n = Len(t) THEN OnDisk(q, h) ELSE t[n + 1].before
  <2>1. CASE n = N + 1
    BY <1>3, <1>7, <2>1
  <2>2. CASE n = N /\ n \in 1..N
    <3>1. n + 1 = N + 1 /\ n # Len(t)
      BY <1>1, <1>3, <2>2
    <3>2. s[n].after = r.before
      BY <1>7, <2>2 DEF HistoryOf
    <3>3. t[n] = s[n] /\ t[n + 1] = x
      BY <1>3, <2>2, <3>1
    <3> QED BY <3>1, <3>2, <3>3
  <2>3. CASE n # N /\ n \in 1..N
    <3>1. n + 1 \in 1..N /\ n # Len(t)
      BY <1>1, <1>3, <2>3
    <3>2. s[n].after = s[n + 1].before
      BY <2>3 DEF HistoryOf
    <3>3. t[n] = s[n] /\ t[n + 1] = s[n + 1]
      BY <1>3, <2>3, <3>1
    <3> QED BY <3>1, <3>2, <3>3
  <2> QED BY <1>5, <2>1, <2>2, <2>3
<1>9. HistoryOf(t, q, h)
  BY <1>4, <1>6, <1>8 DEF HistoryOf
<1> QED BY <1>9 DEF t

LEMMA HistoryNext == Shape /\ Format /\ History /\ [Next]_vars => History'
<1> SUFFICES ASSUME Shape, Format, History, [Next]_vars PROVE HistoryOf(done', run', disk')
  BY DEF History
<1>1. HistoryOf(done, run, disk) /\ Common(run, disk)
  BY DEF History, Shape, ShapeOf
<1>2. CASE NoMoreCommands \/ Change \/ UNCHANGED vars
  BY <1>1, <1>2, Zenon DEF NoMoreCommands, Change, vars
<1>3. CASE Start
  <2>1. run'.before = disk /\ run'.pc # "idle"
    <3>1. DOMAIN Idle = RunFields
      BY IdleFacts
    <3> HIDE DEF Idle
    <3> QED BY <1>3, <3>1 DEF Start, StartInit, StartWalk, RunFields
  <2>2. run.pc = "idle" /\ done' = done
    BY <1>3 DEF Start
  <2>3. OnDisk(run', disk') = OnDisk(run, disk)
    BY <2>1, <2>2 DEF OnDisk
  <2>4. HistoryOf(done, run', disk')
    BY <1>1, <2>3, HistoryStays
  <2> QED BY <2>2, <2>4
<1>4. CASE MidStep
  <2>1. run'.before = run.before /\ run.pc # "idle" /\ run'.pc # "idle" /\ done' = done
    BY <1>4, MidFacts DEF Same
  <2>2. OnDisk(run', disk') = OnDisk(run, disk)
    BY <2>1 DEF OnDisk
  <2>3. HistoryOf(done, run', disk')
    BY <1>1, <2>2, HistoryStays
  <2> QED BY <2>1, <2>3
<1>5. CASE Exit
  <2> DEFINE x == [cmd |-> run.cmd, exit |-> ExitCode(run), server |-> server,
                   before |-> run.before, after |-> disk, emptied |-> run.emptied,
                   count |-> run.count]
  <2>1. done' = Append(done, x) /\ run' = Idle /\ disk' = disk /\ run.pc = "exit"
    BY <1>5 DEF Exit
  <2>2. x.cmd = run.cmd /\ x.exit = ExitCode(run) /\ x.before = run.before /\ x.after = disk
        /\ x.count = run.count
    OBVIOUS
  <2> HIDE DEF x
  <2>3. run.cmd.name = "format" => FormatOf(run, disk)
    BY <2>1 DEF Format, Formatting
  <2>4. Reported(x)
    BY <1>1, <2>1, <2>2, <2>3, ExitReports
  <2>5. run'.pc = "idle" /\ run.pc # "idle"
    BY <2>1, IdleFacts
  <2>6. HistoryOf(Append(done, x), run', disk)
    BY <1>1, <2>2, <2>4, <2>5, HistoryExit
  <2> QED BY <2>1, <2>6
<1> QED BY <1>2, <1>3, <1>4, <1>5 DEF Next, MidStep

LEMMA HistoryImplies == History => DryRunPredicts
<1> SUFFICES ASSUME History, Ended PROVE DryRunPredicts
  BY DEF DryRunPredicts, Twice
<1> DEFINE N == Len(done)
<1>1. IsSeq(done) /\ N \in Nat /\ N # 0 /\ run.pc = "idle"
  BY SeqFacts, NonemptyFacts DEF History, HistoryOf, Ended
<1>2. Final = done[N]
  BY DEF Final, Last
<1>3. N \in 1..N
  BY <1>1
<1>4. Reported(Final) /\ Final.after = disk
  BY <1>1, <1>2, <1>3 DEF History, HistoryOf, OnDisk
<1>5. Final.cmd.name = "format" /\ ~Final.cmd.write => disk = Final.before
  BY <1>4 DEF Reported
<1>6. ASSUME Twice("format", "format"), ~Previous.cmd.write, Previous.exit <= 1, Final.exit <= 1
      PROVE  Previous.count = Final.count /\ Previous.exit = Final.exit
  <2>1. N > 1 /\ Previous = done[N - 1] /\ Previous.cmd.name = "format" /\ Final.cmd.name = "format"
    BY <1>6 DEF Twice, Previous
  <2>2. N - 1 \in 1..N /\ N - 1 # N /\ (N - 1) + 1 = N
    BY <1>1, <2>1
  <2>3. Reported(Previous)
    BY <2>1, <2>2 DEF History, HistoryOf
  <2>4. Previous.after = Final.before
    BY <1>2, <2>1, <2>2 DEF History, HistoryOf
  <2>5. Previous.before = Final.before
    BY <1>6, <2>1, <2>3, <2>4 DEF Reported
  <2>6. /\ Previous.count = Cardinality(Rewritten(Previous.before, Walked(Previous.before)))
        /\ Previous.exit = IF Previous.count > 0 THEN 1 ELSE CodeOf(Previous.before, Walked(Previous.before))
    BY <1>6, <2>1, <2>3 DEF Reported
  <2>7. /\ Final.count = Cardinality(Rewritten(Final.before, Walked(Final.before)))
        /\ Final.exit = IF Final.count > 0 THEN 1 ELSE CodeOf(Final.before, Walked(Final.before))
    BY <1>4, <1>6, <2>1 DEF Reported
  <2> QED BY <2>5, <2>6, <2>7
<1> QED BY <1>5, <1>6 DEF DryRunPredicts

\* The invariant of the proof: what is on disk can be read, a format that runs has
\* counted the files it would rewrite in the directories behind it, and those that
\* ended reported them all.
FormatInv == Shape /\ Format /\ History

LEMMA FormatInit == Init => FormatInv
<1> SUFFICES ASSUME Init PROVE FormatInv
  OBVIOUS
<1>1. run = Idle /\ done = <<>>
  BY DEF Init
<1>2. run.pc = "idle"
  BY <1>1, IdleFacts
<1>3. Format
  BY <1>2 DEF Format, Formatting
<1>4. History
  BY <1>1, EmptyFacts DEF History, HistoryOf
<1> QED BY <1>3, <1>4, ShapeInit DEF FormatInv

\* format without --write changes nothing on disk, and the number of files and the
\* exit code it reports are those of the same command with --write right behind it:
\* whatever is on disk and on the server, with however many directories, files and
\* statements, and in whichever order objects and files are handled.
THEOREM FormatPredicts == Spec => []DryRunPredicts
<1>1. Init => FormatInv
  BY FormatInit
<1>2. FormatInv /\ [Next]_vars => FormatInv'
  BY ShapeNext, FormatNext, HistoryNext DEF FormatInv
<1>3. FormatInv => DryRunPredicts
  BY HistoryImplies DEF FormatInv
<1> QED BY <1>1, <1>2, <1>3, PTL DEF Spec
=============================================================================
