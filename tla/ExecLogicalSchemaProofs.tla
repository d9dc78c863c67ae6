---------------------- MODULE ExecLogicalSchemaProofs ----------------------
(***************************************************************************)
(* Proofs about ExecLogicalSchema, for any set of statements, any shape of *)
(* CREATE TABLE ... LIKE, any faults and any concurrency.                  *)
(***************************************************************************)
EXTENDS ExecLogicalSchema, TLAPS, FiniteSetTheorems, SequenceTheorems

\* The server answers with a known error class and leaves a set of statements.
LEMMA RepliesType ==
    ASSUME NEW s \in Statements, NEW a \in SUBSET Statements,
           NEW r \in Replies(s, a)
    PROVE  r[1] \in Errors /\ r[2] \in SUBSET Statements
BY DEF Replies, Errors

LEMMA CreatesCardinality == IsFiniteSet(Creates) /\ Cardinality(Creates) \in Nat
BY StatementsAssumption, FS_CardinalityType

LEMMA AltersType == Alters \in Seq(Statements)
BY StatementsAssumption, SeqMonotonic DEF Statements

\* What running one statement does to the server and the history.
LEMMA RunType ==
    ASSUME TypeOK, NEW s \in Statements, NEW e \in Errors, Run(s, e)
    PROVE  /\ applied' \in SUBSET Statements
           /\ attempts' \in [Statements -> Seq(Errors)]
<1>1. PICK r \in Replies(s, applied) :
        /\ r[1] = e
        /\ applied' = r[2]
        /\ attempts' = [attempts EXCEPT ![s] = Append(@, e)]
  BY DEF Run
<1>2. applied' \in SUBSET Statements
  BY <1>1, RepliesType DEF TypeOK
<1>3. attempts' \in [Statements -> Seq(Errors)]
  BY <1>1, AppendProperties DEF TypeOK
<1> QED BY <1>2, <1>3

----------------------------------------------------------------------------
(* Sending on and receiving from a channel                                 *)

\* A send adds the element to the content of the channel and, when it was not
\* there, no duplicate.
LEMMA SendRange ==
    ASSUME NEW S, NEW s \in Seq(S), NEW e \in S
    PROVE  /\ Range(Append(s, e)) = Range(s) \cup {e}
           /\ e \notin Range(s) /\ IsInjective(s) => IsInjective(Append(s, e))
BY AppendProperties DEF Range, IsInjective

\* A receive takes the first element out.
LEMMA ReceiveRange ==
    ASSUME NEW S, NEW s \in Seq(S), s # <<>>, IsInjective(s)
    PROVE  /\ Head(s) \in Range(s)
           /\ Range(Tail(s)) = Range(s) \ {Head(s)}
           /\ IsInjective(Tail(s))
<1>1. Len(s) \in Nat \ {0} /\ DOMAIN s = 1..Len(s) /\ Head(s) = s[1]
  BY EmptySeq
<1>2. /\ Len(Tail(s)) = Len(s) - 1 /\ DOMAIN Tail(s) = 1..(Len(s) - 1)
      /\ \A i \in 1..(Len(s) - 1) : Tail(s)[i] = s[i + 1]
  BY <1>1, HeadTailProperties
<1>3. Head(s) \in Range(s)
  BY <1>1 DEF Range
<1>4. IsInjective(Tail(s))
  BY <1>1, <1>2 DEF IsInjective
<1>5. Range(Tail(s)) \subseteq Range(s) \ {Head(s)}
  BY <1>1, <1>2 DEF Range, IsInjective
<1>6. ASSUME NEW x \in Range(s), x # Head(s) PROVE x \in Range(Tail(s))
  <2>1. PICK i \in 1..Len(s) : s[i] = x
    BY <1>1 DEF Range
  <2>2. i - 1 \in 1..(Len(s) - 1) /\ Tail(s)[i - 1] = x
    BY <1>1, <1>2, <1>6, <2>1
  <2> QED BY <1>2, <2>2 DEF Range
<1> QED BY <1>3, <1>4, <1>5, <1>6

----------------------------------------------------------------------------
(* The inductive invariant                                                 *)

Busy(w) == wpc[w] \in {"exec", "send"}

\* The statements that each of the places on the way of a statement holds.
Held == {stmt[w] : w \in {v \in Workers : Busy(v)}}
Answered == {errs[i][1] : i \in 1..Len(errs)}
InFlight == toSend \cup Range(creates) \cup Held \cup Answered

\* No place holds a statement twice.
NoDuplicates ==
    /\ IsInjective(creates)
    /\ \A v, w \in Workers : Busy(v) /\ Busy(w) /\ stmt[v] = stmt[w] => v = w
    /\ \A i, j \in 1..Len(errs) : errs[i][1] = errs[j][1] => i = j

\* No two places hold the same statement.
OnePlace ==
    /\ toSend \cap Range(creates) = {}
    /\ toSend \cap Held = {}
    /\ toSend \cap Answered = {}
    /\ Range(creates) \cap Held = {}
    /\ Range(creates) \cap Answered = {}
    /\ Held \cap Answered = {}

\* The collecting loop has counted exactly the statements that left the pool.
Counted == n = Cardinality(Creates \ InFlight)

\* How far the calling goroutine is.
Phases ==
    /\ errsClosed => n = Cardinality(Creates)
    /\ pc \in {"sequential", "introspect"} => errsClosed
    /\ introspected => errsClosed /\ pc \in {"cleanup", "returned"}
    /\ pc \in {"new", "connect"} => \A w \in Workers : wpc[w] = "unborn"

Holding == \A w \in Workers : Busy(w) => stmt[w] \in Creates

IInv ==
    /\ TypeOK
    /\ Holding
    /\ NoDuplicates
    /\ OnePlace
    /\ Counted
    /\ Phases
    /\ SchemaIsFinal

LEMMA InvInit == Init => IInv
<1> SUFFICES ASSUME Init PROVE IInv
  OBVIOUS
<1> USE DEF Init
<1>1. TypeOK
  <2>1. /\ creates \in Seq(Creates) /\ Len(creates) = 0
        /\ errs \in Seq(Creates \X Errors) /\ Len(errs) = 0
        /\ sequentialStatements \in Seq(Statements)
        /\ failures \in Seq(Statements)
        /\ setbacks \in Seq({"new", "connect", "introspect", "cleanup"})
    OBVIOUS
  <2>2. attempts \in [Statements -> Seq(Errors)]
    OBVIOUS
  <2>3. n \in 0..Cardinality(Creates)
    BY CreatesCardinality
  <2>4. /\ wpc \in [Workers -> {"unborn", "recv", "exec", "send", "done"}]
        /\ stmt \in [Workers -> Creates \cup {NoStmt}]
        /\ err \in [Workers -> Errors]
    BY DEF Errors
  <2>5. Len(creates) <= Concurrency /\ Len(errs) <= Concurrency
    BY <2>1, ConcurrencyAssumption
  <2>6. /\ pc \in {"new", "connect", "collect", "sequential", "introspect",
                  "cleanup", "returned"}
        /\ ws \in {"none", "open", "closed"} /\ pos \in Nat \ {0}
        /\ retErr \in {"nil", "new", "connect", "introspect", "cleanup"}
        /\ toSend \in SUBSET Creates
        /\ schema \in SUBSET Statements /\ applied \in SUBSET Statements
    OBVIOUS
  <2>7. /\ createsClosed \in BOOLEAN /\ errsClosed \in BOOLEAN
        /\ introspected \in BOOLEAN
    BY Zenon
  <2> QED BY <2>1, <2>2, <2>3, <2>4, <2>5, <2>6, <2>7 DEF TypeOK
<1>2. Held = {} /\ Answered = {} /\ Range(creates) = {}
  BY EmptySeq DEF Held, Answered, Busy, Range
<1>3. InFlight = Creates
  BY <1>2 DEF InFlight
<1>4. Counted
  BY <1>3, FS_EmptySet DEF Counted
<1>5. Holding /\ NoDuplicates
  BY EmptySeq DEF Holding, NoDuplicates, Busy, IsInjective
<1> QED BY <1>1, <1>2, <1>4, <1>5
        DEF IInv, OnePlace, Phases, SchemaIsFinal, Busy

\* Once every result is counted the pool is empty.
LEMMA AllCounted ==
    ASSUME IInv, n = Cardinality(Creates)
    PROVE  InFlight = {}
<1> DEFINE Out == Creates \ InFlight
<1>1. Cardinality(Creates) = Cardinality(Out)
  BY DEF IInv, Counted
<1>2. Out \in SUBSET Creates
  OBVIOUS
<1>3. Creates = Out
  <2> HIDE DEF Out
  <2> QED BY <1>1, <1>2, CreatesCardinality, FS_Subset
<1>4. InFlight \subseteq Creates
  <2>1. Range(creates) \subseteq Creates
    BY RangeOfSeq DEF IInv, TypeOK
  <2>2. Held \subseteq Creates
    BY DEF IInv, Held, Holding
  <2>3. Answered \subseteq Creates
    BY DEF IInv, TypeOK, Answered
  <2> QED BY <2>1, <2>2, <2>3 DEF InFlight, IInv, TypeOK
<1> QED BY <1>3, <1>4

\* Once errs is closed the pool is empty.
LEMMA PoolDrained == IInv /\ errsClosed => InFlight = {}
BY AllCounted DEF IInv, Phases

LEMMA TypeNext == TypeOK /\ Holding /\ [Next]_vars => TypeOK'
<1> SUFFICES ASSUME TypeOK, Holding, [Next]_vars PROVE TypeOK'
  OBVIOUS
<1> USE CreatesCardinality, ConcurrencyAssumption DEF TypeOK
<1>1. CASE NewFails
  BY <1>1 DEF NewFails, poolVars
<1>2. CASE New
  BY <1>2 DEF New, poolVars
<1>3. CASE ConnectFails
  BY <1>3 DEF ConnectFails, poolVars
<1>4. CASE Connect
  BY <1>4 DEF Connect
<1>5. CASE Collect
  <2>1. Head(errs) \in Creates \X Errors /\ errs' \in Seq(Creates \X Errors)
        /\ Len(errs') <= Concurrency
    BY <1>5, HeadTailProperties DEF Collect
  <2>2. Head(errs)[1] \in Statements
    BY <2>1 DEF Statements
  <2>3. /\ sequentialStatements' \in Seq(Statements)
        /\ failures' \in Seq(Statements)
    BY <1>5, <2>2, AppendProperties DEF Collect, Sort
  <2>4. n' \in 0..Cardinality(Creates)
    BY <1>5 DEF Collect, Outstanding
  <2> QED BY <1>5, <2>1, <2>3, <2>4 DEF Collect, poolVars
<1>6. CASE CloseErrs
  BY <1>6, AltersType DEF CloseErrs, poolVars
<1>7. CASE ExecSequential
  <2>1. PICK e \in Errors :
          /\ Run(sequentialStatements[pos], e)
          /\ failures' = IF e = "nil" THEN failures
                         ELSE Append(failures, sequentialStatements[pos])
    BY <1>7 DEF ExecSequential
  <2>2. sequentialStatements[pos] \in Statements
    BY <1>7 DEF ExecSequential
  <2>3. /\ applied' \in SUBSET Statements
        /\ attempts' \in [Statements -> Seq(Errors)]
    BY <2>1, <2>2, RunType
  <2>4. failures' \in Seq(Statements)
    BY <2>1, <2>2
  <2> QED BY <1>7, <2>3, <2>4 DEF ExecSequential, poolVars
<1>8. CASE EndSequential
  BY <1>8 DEF EndSequential, poolVars
<1>9. CASE Introspect
  BY <1>9 DEF Introspect, poolVars
<1>10. CASE IntrospectFails
  BY <1>10 DEF IntrospectFails, poolVars
<1>11. ASSUME NEW c \in {"nil", "cleanup"}, Cleanup(c) PROVE TypeOK'
  BY <1>11 DEF Cleanup, ReturnedError, poolVars
<1>12. ASSUME NEW s \in Creates, Produce(s) PROVE TypeOK'
  BY <1>12 DEF Produce, callVars
<1>13. CASE CloseCreates
  BY <1>13 DEF CloseCreates, callVars
<1>14. ASSUME NEW w \in Workers, Receive(w) PROVE TypeOK'
  BY <1>14 DEF Receive, callVars
<1>15. ASSUME NEW w \in Workers, Exec(w) PROVE TypeOK'
  <2>0. stmt[w] \in Creates
    BY <1>15 DEF Exec, Holding, Busy
  <2>1. PICK e \in Errors :
          Run(stmt[w], e) /\ err' = [err EXCEPT ![w] = e]
    BY <1>15 DEF Exec
  <2>2. /\ applied' \in SUBSET Statements
        /\ attempts' \in [Statements -> Seq(Errors)]
    <3>1. stmt[w] \in Statements
      BY <2>0 DEF Statements
    <3> QED BY <2>1, <3>1, RunType
  <2>3. err' \in [Workers -> Errors]
    BY <2>1
  <2> QED BY <1>15, <2>2, <2>3 DEF Exec, callVars
<1>16. ASSUME NEW w \in Workers, Send(w) PROVE TypeOK'
  <2>0. stmt[w] \in Creates
    BY <1>16 DEF Send, Holding, Busy
  <2> QED BY <1>16, <2>0 DEF Send, callVars
<1>17. ASSUME NEW w \in Workers, Exit(w) PROVE TypeOK'
  BY <1>17 DEF Exit, callVars
<1>18. CASE UNCHANGED vars
  BY <1>18 DEF vars, callVars, poolVars
<1> QED
  BY <1>1, <1>2, <1>3, <1>4, <1>5, <1>6, <1>7, <1>8, <1>9, <1>10, <1>11,
     <1>12, <1>13, <1>14, <1>15, <1>16, <1>17, <1>18
  DEF Next, Caller, Producer, Worker, Terminated

----------------------------------------------------------------------------
(* The places of the statements                                            *)

\* The part of the invariant that is about places, and who is in flight.
Places == Holding /\ NoDuplicates /\ OnePlace

\* A step that moves no statement.
LEMMA SamePlaces ==
    ASSUME Places, UNCHANGED <<toSend, creates, stmt, errs>>,
           \A w \in Workers : Busy(w)' = Busy(w)
    PROVE  Places' /\ InFlight' = InFlight
<1>1. Held' = Held
  BY DEF Held
<1>2. Answered' = Answered
  BY DEF Answered
<1> QED BY <1>1, <1>2
        DEF Places, Holding, NoDuplicates, OnePlace, InFlight, Range, IsInjective

\* The producer moves a statement from the map into the channel.
LEMMA ProducePlaces ==
    ASSUME TypeOK, Places, NEW s \in Creates, Produce(s)
    PROVE  Places' /\ InFlight' = InFlight
<1>1. Held' = Held /\ Answered' = Answered /\ toSend' = toSend \ {s}
      /\ s \in toSend
  BY DEF Produce, callVars, Held, Answered, Busy
<1>2. s \notin Range(creates)
  BY <1>1 DEF Places, OnePlace
<1>3. Range(creates') = Range(creates) \cup {s} /\ IsInjective(creates')
  BY <1>2, SendRange DEF Produce, TypeOK, Places, NoDuplicates
<1>4. Holding' /\ NoDuplicates'
  BY <1>3 DEF Produce, Places, Holding, NoDuplicates, Busy
<1>5. OnePlace'
  BY <1>1, <1>3 DEF Places, OnePlace
<1>6. InFlight' = InFlight
  BY <1>1, <1>3 DEF InFlight
<1> QED BY <1>4, <1>5, <1>6 DEF Places

\* A worker takes a statement out of the channel.
LEMMA ReceivePlaces ==
    ASSUME TypeOK, Places, NEW w \in Workers, Receive(w)
    PROVE  Places' /\ InFlight' = InFlight
<1> DEFINE s == Head(creates)
<1>1. /\ s \in Range(creates) /\ Range(creates') = Range(creates) \ {s}
      /\ IsInjective(creates')
  BY ReceiveRange DEF Receive, TypeOK, Places, NoDuplicates
<1>2. s \in Creates
  BY <1>1, RangeOfSeq DEF TypeOK
<1>3. /\ ~Busy(w) /\ Busy(w)' /\ stmt'[w] = s
      /\ \A v \in Workers \ {w} : Busy(v)' = Busy(v) /\ stmt'[v] = stmt[v]
  BY DEF Receive, Busy, TypeOK
<1>4. Held' = Held \cup {s}
  BY <1>3 DEF Held
<1>5. Answered' = Answered /\ toSend' = toSend
  BY DEF Receive, Answered
<1>6. s \notin Held
  BY <1>1 DEF Places, OnePlace
<1>7. Holding'
  BY <1>2, <1>3 DEF Places, Holding
<1>8. NoDuplicates'
  <2>1. ASSUME NEW u \in Workers, NEW v \in Workers, Busy(u)', Busy(v)',
               stmt'[u] = stmt'[v]
        PROVE  u = v
    BY <1>3, <1>6, <2>1 DEF Held, Places, NoDuplicates
  <2> QED BY <1>1, <2>1 DEF NoDuplicates, Places, Receive
<1>9. OnePlace'
  BY <1>1, <1>4, <1>5 DEF Places, OnePlace
<1>10. InFlight' = InFlight
  BY <1>1, <1>4, <1>5 DEF InFlight
<1> QED BY <1>7, <1>8, <1>9, <1>10 DEF Places

\* A worker sends a statement's result.
LEMMA SendPlaces ==
    ASSUME TypeOK, Places, NEW w \in Workers, Send(w)
    PROVE  Places' /\ InFlight' = InFlight
<1> DEFINE s == stmt[w]
<1>1. /\ Busy(w) /\ ~Busy(w)' /\ s \in Creates /\ s \in Held
      /\ \A v \in Workers \ {w} : Busy(v)' = Busy(v) /\ stmt'[v] = stmt[v]
  BY DEF Send, Busy, TypeOK, Places, Holding, Held
<1>2. Held' = Held \ {s}
  BY <1>1 DEF Held, Places, NoDuplicates
<1>3. /\ Len(errs) \in Nat /\ Len(errs') = Len(errs) + 1
      /\ \A i \in 1..Len(errs) : errs'[i] = errs[i]
      /\ errs'[Len(errs) + 1][1] = s
  BY <1>1 DEF Send, TypeOK
<1>4. Answered' = Answered \cup {s}
  BY <1>3 DEF Answered
<1>5. s \notin Answered
  BY <1>1 DEF Places, OnePlace
<1>6. creates' = creates /\ toSend' = toSend
  BY DEF Send
<1>7. Holding'
  BY <1>1 DEF Places, Holding
<1>8. NoDuplicates'
  <2>1. ASSUME NEW i \in 1..Len(errs'), NEW j \in 1..Len(errs'),
               errs'[i][1] = errs'[j][1]
        PROVE  i = j
    BY <1>3, <1>5, <2>1 DEF Answered, Places, NoDuplicates
  <2>2. ASSUME NEW u \in Workers, NEW v \in Workers, Busy(u)', Busy(v)',
               stmt'[u] = stmt'[v]
        PROVE  u = v
    BY <1>1, <2>2 DEF Places, NoDuplicates
  <2> QED BY <1>6, <2>1, <2>2 DEF NoDuplicates, Places
<1>9. OnePlace'
  BY <1>1, <1>2, <1>4, <1>6 DEF Places, OnePlace
<1>10. InFlight' = InFlight
  BY <1>1, <1>2, <1>4, <1>6 DEF InFlight
<1> QED BY <1>7, <1>8, <1>9, <1>10 DEF Places

\* The collector takes one result off the channel and counts it.
LEMMA CollectPlaces ==
    ASSUME TypeOK, Places, Collect, Counted
    PROVE  /\ Places' /\ Counted'
           /\ InFlight' = InFlight \ {errs[1][1]} /\ errs[1][1] \in InFlight
<1> DEFINE s == errs[1][1]
<1>1. /\ Len(errs) \in Nat \ {0} /\ Len(errs') = Len(errs) - 1
      /\ \A i \in 1..Len(errs') : errs'[i] = errs[i + 1]
      /\ errs[1] \in Creates \X Errors
  BY DEF Collect, TypeOK
<1>2. s \in Answered /\ s \in Creates
  BY <1>1 DEF Answered
<1>3. Answered' = Answered \ {s}
  <2>1. \A i \in 1..Len(errs') : errs'[i][1] # s
    BY <1>1 DEF Places, NoDuplicates
  <2>2. ASSUME NEW i \in 1..Len(errs), errs[i][1] # s
        PROVE  errs[i][1] \in Answered'
    <3>1. i - 1 \in 1..Len(errs') /\ errs'[i - 1] = errs[i]
      BY <1>1, <2>2
    <3> QED BY <3>1 DEF Answered
  <2>3. Answered' \subseteq Answered
    BY <1>1 DEF Answered
  <2> QED BY <2>1, <2>2, <2>3 DEF Answered
<1>4. creates' = creates /\ toSend' = toSend /\ Held' = Held
  BY DEF Collect, poolVars, Held, Busy
<1>5. InFlight' = InFlight \ {s} /\ s \in InFlight
  BY <1>2, <1>3, <1>4 DEF InFlight, Places, OnePlace
<1>6. Holding' /\ OnePlace'
  BY <1>3, <1>4 DEF Collect, poolVars, Places, Holding, OnePlace, Busy
<1>7. NoDuplicates'
  <2>1. ASSUME NEW i \in 1..Len(errs'), NEW j \in 1..Len(errs'),
               errs'[i][1] = errs'[j][1]
        PROVE  i = j
    <3>1. i + 1 \in 1..Len(errs) /\ j + 1 \in 1..Len(errs)
      BY <1>1
    <3>2. i + 1 = j + 1
      BY <1>1, <2>1, <3>1 DEF Places, NoDuplicates
    <3> QED BY <3>2
  <2> QED BY <1>4, <2>1 DEF Collect, poolVars, NoDuplicates, Places, Busy
<1>8. Counted'
  <2> DEFINE Out == Creates \ InFlight
  <2>1. Creates \ InFlight' = Out \cup {s} /\ s \notin Out
    BY <1>2, <1>5
  <2>2. IsFiniteSet(Out)
    BY CreatesCardinality, FS_Subset
  <2>3. Cardinality(Out \cup {s}) = Cardinality(Out) + 1
    <3> HIDE DEF Out
    <3> QED BY <2>1, <2>2, FS_AddElement
  <2> QED BY <2>1, <2>3 DEF Counted, Collect
<1> QED BY <1>5, <1>6, <1>7, <1>8 DEF Places

\* Every step keeps the places and the count.
LEMMA PlacesNext ==
    ASSUME IInv, [Next]_vars
    PROVE  Places' /\ Counted'
<1> USE DEF IInv
<1>0. Places
  BY DEF Places
<1>1. ASSUME UNCHANGED <<toSend, creates, stmt, errs, n>>,
             \A w \in Workers : Busy(w)' = Busy(w)
      PROVE  Places' /\ Counted'
  BY <1>0, <1>1, SamePlaces DEF Counted
<1>2. CASE Collect
  BY <1>0, <1>2, CollectPlaces
<1>3. ASSUME NEW s \in Creates, Produce(s) PROVE Places' /\ Counted'
  BY <1>0, <1>3, ProducePlaces DEF Counted, Produce, callVars
<1>4. ASSUME NEW w \in Workers, Receive(w) PROVE Places' /\ Counted'
  BY <1>0, <1>4, ReceivePlaces DEF Counted, Receive, callVars
<1>5. ASSUME NEW w \in Workers, Send(w) PROVE Places' /\ Counted'
  BY <1>0, <1>5, SendPlaces DEF Counted, Send, callVars
<1>6. CASE Connect
  BY <1>1, <1>6 DEF Connect, Phases, Busy
<1>7. ASSUME NEW w \in Workers, Exec(w) PROVE Places' /\ Counted'
  BY <1>1, <1>7 DEF Exec, callVars, Busy, TypeOK
<1>8. ASSUME NEW w \in Workers, Exit(w) PROVE Places' /\ Counted'
  BY <1>1, <1>8 DEF Exit, callVars, Busy, TypeOK
<1>9. CASE CloseCreates
  BY <1>1, <1>9 DEF CloseCreates, callVars, Busy
<1>10. CASE NewFails \/ New \/ ConnectFails \/ CloseErrs
  BY <1>1, <1>10 DEF NewFails, New, ConnectFails, CloseErrs, poolVars, Busy
<1>11. CASE ExecSequential \/ EndSequential \/ Introspect \/ IntrospectFails
  BY <1>1, <1>11 DEF ExecSequential, EndSequential, Introspect,
                     IntrospectFails, poolVars, Busy
<1>12. ASSUME NEW c \in {"nil", "cleanup"}, Cleanup(c) PROVE Places' /\ Counted'
  BY <1>1, <1>12 DEF Cleanup, poolVars, Busy
<1>13. CASE UNCHANGED vars
  BY <1>1, <1>13 DEF vars, callVars, poolVars, Busy
<1> QED
  BY <1>2, <1>3, <1>4, <1>5, <1>6, <1>7, <1>8, <1>9, <1>10, <1>11, <1>12, <1>13
  DEF Next, Caller, Producer, Worker, Terminated

----------------------------------------------------------------------------
(* The phases of the calling goroutine                                     *)

LEMMA PhasesNext ==
    ASSUME IInv, [Next]_vars
    PROVE  Phases' /\ SchemaIsFinal'
<1> USE DEF IInv, Phases, SchemaIsFinal
<1>0. errsClosed => \A w \in Workers : ~Busy(w)
  BY PoolDrained DEF InFlight, Held
<1>1. CASE Collect
  BY <1>1, CreatesCardinality DEF Collect, Outstanding, TypeOK, poolVars, Busy
<1>2. CASE CloseErrs
  BY <1>2, CreatesCardinality DEF CloseErrs, Outstanding, TypeOK, poolVars, Busy
<1>3. ASSUME NEW w \in Workers, Exec(w) PROVE Phases' /\ SchemaIsFinal'
  <2>1. ~errsClosed /\ pc \notin {"new", "connect"}
    BY <1>0, <1>3 DEF Exec, Busy
  <2> QED BY <1>3, <2>1 DEF Exec, callVars
<1>4. ASSUME NEW w \in Workers, Receive(w) \/ Send(w) \/ Exit(w)
      PROVE  Phases' /\ SchemaIsFinal'
  <2>1. pc \notin {"new", "connect"}
    BY <1>4 DEF Receive, Send, Exit
  <2> QED BY <1>4, <2>1 DEF Receive, Send, Exit, callVars
<1>5. CASE CloseCreates \/ \E s \in Creates : Produce(s)
  BY <1>5 DEF CloseCreates, Produce, callVars
<1>6. CASE NewFails \/ New \/ ConnectFails \/ Connect
  BY <1>6 DEF NewFails, New, ConnectFails, Connect, poolVars
<1>7. CASE ExecSequential \/ EndSequential
  BY <1>7 DEF ExecSequential, EndSequential, poolVars
<1>8. CASE Introspect \/ IntrospectFails
  BY <1>8 DEF Introspect, IntrospectFails, poolVars
<1>9. ASSUME NEW c \in {"nil", "cleanup"}, Cleanup(c)
      PROVE  Phases' /\ SchemaIsFinal'
  BY <1>9 DEF Cleanup, poolVars
<1>10. CASE UNCHANGED vars
  BY <1>10 DEF vars, callVars, poolVars
<1> QED
  BY <1>1, <1>2, <1>3, <1>4, <1>5, <1>6, <1>7, <1>8, <1>9, <1>10
  DEF Next, Caller, Producer, Worker, Terminated

LEMMA InvNext == IInv /\ [Next]_vars => IInv'
BY TypeNext, PlacesNext, PhasesNext DEF IInv, Places

\* The inductive invariant holds in every reachable state.
THEOREM Invariance == Spec => []IInv
<1>1. Init => IInv
  BY InvInit
<1>2. IInv /\ [Next]_vars => IInv'
  BY InvNext
<1> QED BY <1>1, <1>2, PTL DEF Spec

----------------------------------------------------------------------------
(* The results                                                             *)

\* ExecLogicalSchema is type correct: in particular no channel ever holds more
\* than its capacity and the collector never counts more results than there
\* are CREATE statements.
THEOREM Typing == Spec => []TypeOK
<1>1. IInv => TypeOK
  BY DEF IInv
<1> QED BY <1>1, Invariance, PTL

\* No worker goroutine of ExecLogicalSchema can panic by sending its result
\* after close(errs), whatever the number of statements and the concurrency.
THEOREM NoPanic == Spec => []NoSendAfterClose
<1>1. IInv => NoSendAfterClose
  BY PoolDrained DEF NoSendAfterClose, InFlight, Held, Busy
<1> QED BY <1>1, Invariance, PTL

\* What IntrospectSchema reads is what the workspace still holds when
\* ExecLogicalSchema returns: no DDL of the pool is late.
THEOREM FinalSchema == Spec => []SchemaIsFinal
<1>1. IInv => SchemaIsFinal
  BY DEF IInv
<1> QED BY <1>1, Invariance, PTL

-----------------------------------------------------------------------------
(* What is handed to the caller: the errors, the failures and the schema.  *)
(* The invariant above says where every statement is; this one adds how    *)
(* often it was tried by the time it is there.                             *)

LastError(s) == attempts[s][Len(attempts[s])]

\* sequentialStatements is this many statements to retry, then the ALTERs.
Retries == Len(sequentialStatements) - Len(Alters)

ToRun == {sequentialStatements[i] : i \in pos..Len(sequentialStatements)}

\* The statements that will not be tried any more.
Settled ==
    Statements \ (InFlight \cup ToRun
                  \cup (IF errsClosed THEN {} ELSE Range(Alters)))

\* In the pool a statement is tried once, between "exec" and "send".
PoolHistory ==
    /\ \A s \in toSend \cup Range(creates) : attempts[s] = <<>>
    /\ \A w \in Workers : wpc[w] = "exec" => attempts[stmt[w]] = <<>>
    /\ \A w \in Workers : wpc[w] = "send" => attempts[stmt[w]] = <<err[w]>>
    /\ \A i \in 1..Len(errs) : attempts[errs[i][1]] = <<errs[i][2]>>

\* While results are collected, the retriable ones are queued.
CollectHistory ==
    ~errsClosed =>
        /\ pos = 1 /\ pc \notin {"sequential", "introspect"}
        /\ \A s \in Range(Alters) : attempts[s] = <<>>
        /\ Range(sequentialStatements) \subseteq Creates \ InFlight
        /\ \A s \in Creates \ InFlight :
            /\ Len(attempts[s]) = 1
            /\ s \in Range(sequentialStatements) <=> Retriable(attempts[s][1])

\* Afterwards the queue is worked off from the front.
QueueHistory ==
    errsClosed =>
        /\ pc \notin {"new", "connect", "collect"}
        /\ Retries \in Nat /\ pos <= Len(sequentialStatements) + 1
        /\ pc # "sequential" => pos = Len(sequentialStatements) + 1
        /\ \A i \in 1..Retries :
            /\ sequentialStatements[i] \in Creates
            /\ i < pos => Len(attempts[sequentialStatements[i]]) = 2
            /\ i >= pos => /\ Len(attempts[sequentialStatements[i]]) = 1
                           /\ Retriable(attempts[sequentialStatements[i]][1])
        /\ \A i \in 1..Len(Alters) :
            /\ sequentialStatements[Retries + i] = Alters[i]
            /\ Retries + i < pos => Len(attempts[Alters[i]]) = 1
            /\ Retries + i >= pos => attempts[Alters[i]] = <<>>
        /\ \A s \in Creates \ Range(sequentialStatements) :
            Len(attempts[s]) = 1 /\ ~Retriable(attempts[s][1])

\* Failures lists, once each, the settled statements whose last attempt failed.
Reported ==
    /\ IsInjective(sequentialStatements)
    /\ IsInjective(failures)
    /\ Range(failures) = {s \in Settled : LastError(s) # "nil"}

History == PoolHistory /\ CollectHistory /\ QueueHistory /\ Reported

\* What the server holds, by the errors it answered with.
Effects ==
    /\ \A s \in Statements :
        attempts[s] # <<>> /\ LastError(s) = "nil" => s \in applied
    /\ \A s \in applied : s \notin Invalid /\ Needs[s] \subseteq applied

\* The error return on the way out.
Returning ==
    /\ retErr = IF setbacks = <<>> THEN "nil" ELSE setbacks[1]
    /\ pc \in {"new", "connect", "collect", "sequential", "introspect"}
        => setbacks = <<>>
    /\ pc = "new" => ws = "none"
    /\ pc = "returned" => ws # "open"
    /\ pc \in {"cleanup", "returned"} /\ retErr = "nil" => introspected

\* What is known of the attempts when no fault met any of them.
Determined ==
    (Unnested /\ Undisturbed) =>
        /\ \A s \in applied : attempts[s] # <<>> /\ LastError(s) = "nil"
        /\ \A s \in Statements \ Invalid :
            attempts[s] # <<>> /\ Needs[s] = {} => s \in applied
        /\ \A s \in Statements \ Doomed :
            (IF s \in Creates THEN Len(attempts[s]) = 2
                              ELSE attempts[s] # <<>>) => s \in applied

FullInv == IInv /\ History /\ Effects /\ Returning /\ Determined

----------------------------------------------------------------------------
(* One attempt                                                             *)

LEMMA Tried ==
    ASSUME NEW x \in Seq(Errors), Len(x) = 1 \/ Len(x) = 2
    PROVE  x # <<>>
OBVIOUS

\* What running one statement adds to the history and to the server.
LEMMA RunHistory ==
    ASSUME TypeOK, NEW s \in Statements, NEW e \in Errors, Run(s, e)
    PROVE  /\ attempts'[s] = Append(attempts[s], e)
           /\ \A t \in Statements \ {s} : attempts'[t] = attempts[t]
           /\ Len(attempts'[s]) = Len(attempts[s]) + 1
           /\ LastError(s)' = e
BY DEF Run, TypeOK, LastError

LEMMA RunEffect ==
    ASSUME TypeOK, NEW s \in Statements, NEW e \in Errors, Run(s, e)
    PROVE  /\ applied \subseteq applied' /\ applied' \subseteq applied \cup {s}
           /\ e = "nil" => s \in applied'
           /\ e \in {"lock", "nosuchtable"} => applied' = applied
           /\ s \in applied' \ applied => s \notin Invalid /\ Needs[s] \subseteq applied
           /\ s \notin Invalid /\ Needs[s] \subseteq applied
                => e # "nosuchtable"
BY DEF Run, Replies, TypeOK

----------------------------------------------------------------------------
(* The history of the attempts                                             *)

\* A step that neither tries nor settles a statement.
LEMMA SameHistory ==
    ASSUME History, InFlight' = InFlight,
           UNCHANGED <<errsClosed, sequentialStatements, pos, failures, attempts>>,
           ~errsClosed => pc' \notin {"sequential", "introspect"},
           errsClosed => /\ pc' \notin {"new", "connect", "collect"}
                         /\ pc' # "sequential" => pos = Len(sequentialStatements) + 1
    PROVE  CollectHistory' /\ QueueHistory' /\ Reported'
<1>1. CollectHistory'
  BY DEF History, CollectHistory
<1>2. QueueHistory'
  <2>1. Retries' = Retries
    BY DEF Retries
  <2> QED BY <2>1 DEF History, QueueHistory
<1>3. Reported'
  <2>1. Settled' = Settled
    BY DEF Settled, ToRun
  <2>2. \A s : LastError(s)' = LastError(s)
    BY DEF LastError
  <2> QED BY <2>1, <2>2 DEF History, Reported
<1> QED BY <1>1, <1>2, <1>3

\* The statements in the places of the pool are CREATEs.
LEMMA InFlightCreates ==
    ASSUME TypeOK, Holding
    PROVE  /\ InFlight \subseteq Creates
           /\ Range(creates) \subseteq Creates /\ Held \subseteq Creates
           /\ Answered \subseteq Creates
<1>1. Range(creates) \subseteq Creates
  BY RangeOfSeq DEF TypeOK
<1>2. Held \subseteq Creates
  BY DEF Held, Holding
<1>3. Answered \subseteq Creates
  BY DEF TypeOK, Answered
<1> QED BY <1>1, <1>2, <1>3 DEF InFlight, TypeOK

LEMMA ProduceHistory ==
    ASSUME IInv, IInv', History, NEW s \in Creates, Produce(s)
    PROVE  History'
<1>1. InFlight' = InFlight
  BY ProducePlaces DEF IInv, Places
<1>2. CollectHistory' /\ QueueHistory' /\ Reported'
  BY <1>1, SameHistory DEF Produce, callVars, History, CollectHistory, QueueHistory
<1>3. Range(creates') = Range(creates) \cup {s}
  BY SendRange DEF Produce, IInv, TypeOK
<1>4. PoolHistory'
  BY <1>3 DEF Produce, callVars, History, PoolHistory
<1> QED BY <1>2, <1>4 DEF History

LEMMA ReceiveHistory ==
    ASSUME IInv, IInv', History, NEW w \in Workers, Receive(w)
    PROVE  History'
<1>1. InFlight' = InFlight
  BY ReceivePlaces DEF IInv, Places
<1>2. CollectHistory' /\ QueueHistory' /\ Reported'
  BY <1>1, SameHistory DEF Receive, callVars, History, CollectHistory, QueueHistory
<1>3. Head(creates) \in Range(creates) /\ Range(creates') \subseteq Range(creates)
  BY ReceiveRange DEF Receive, IInv, TypeOK, NoDuplicates
<1>4. /\ stmt'[w] = Head(creates) /\ wpc'[w] = "exec"
      /\ \A v \in Workers \ {w} : stmt'[v] = stmt[v] /\ wpc'[v] = wpc[v]
  BY DEF Receive, IInv, TypeOK
<1>5. PoolHistory'
  <2> USE DEF Receive, History, PoolHistory
  <2>1. \A s \in toSend' \cup Range(creates') : attempts'[s] = <<>>
    BY <1>3
  <2>2. \A v \in Workers : wpc'[v] = "exec" => attempts'[stmt'[v]] = <<>>
    BY <1>3, <1>4
  <2>3. \A v \in Workers : wpc'[v] = "send" => attempts'[stmt'[v]] = <<err'[v]>>
    BY <1>4
  <2>4. \A i \in 1..Len(errs') : attempts'[errs'[i][1]] = <<errs'[i][2]>>
    OBVIOUS
  <2> QED BY <2>1, <2>2, <2>3, <2>4
<1> QED BY <1>2, <1>5 DEF History

LEMMA SendHistory ==
    ASSUME IInv, IInv', History, NEW w \in Workers, Send(w)
    PROVE  History'
<1>1. InFlight' = InFlight
  BY SendPlaces DEF IInv, Places
<1>2. CollectHistory' /\ QueueHistory' /\ Reported'
  BY <1>1, SameHistory DEF Send, callVars, History, CollectHistory, QueueHistory
<1>3. stmt[w] \in Creates
  BY DEF Send, IInv, Holding, Busy
<1>4. /\ Len(errs) \in Nat /\ Len(errs') = Len(errs) + 1
      /\ \A i \in 1..Len(errs) : errs'[i] = errs[i]
      /\ errs'[Len(errs) + 1] = <<stmt[w], err[w]>>
  BY <1>3 DEF Send, IInv, TypeOK
<1>5. /\ wpc[w] = "send" /\ wpc'[w] = "recv"
      /\ \A v \in Workers \ {w} : stmt'[v] = stmt[v] /\ wpc'[v] = wpc[v]
  BY DEF Send, IInv, TypeOK
<1>6. \A i \in 1..Len(errs') : attempts'[errs'[i][1]] = <<errs'[i][2]>>
  <2>0. attempts' = attempts
    BY DEF Send
  <2>1. \A i \in 1..Len(errs) : attempts[errs[i][1]] = <<errs[i][2]>>
    BY DEF History, PoolHistory
  <2>2. attempts'[errs'[Len(errs) + 1][1]] = <<errs'[Len(errs) + 1][2]>>
    BY <1>4, <1>5, <2>0 DEF History, PoolHistory
  <2> TAKE i \in 1..Len(errs')
  <2>3. i \in 1..Len(errs) \/ i = Len(errs) + 1
    BY <1>4
  <2>4. CASE i \in 1..Len(errs)
    <3>1. errs'[i] = errs[i]
      BY <1>4, <2>4
    <3>2. attempts[errs[i][1]] = <<errs[i][2]>>
      BY <2>1, <2>4
    <3> QED BY ONLY <2>0, <3>1, <3>2
  <2>5. CASE i = Len(errs) + 1
    BY ONLY <2>2, <2>5
  <2> QED BY ONLY <2>3, <2>4, <2>5
<1>7. PoolHistory'
  BY <1>5, <1>6 DEF Send, callVars, History, PoolHistory
<1> QED BY <1>2, <1>7 DEF History

\* The one attempt that a worker makes.
LEMMA ExecHistory ==
    ASSUME IInv, IInv', History, NEW w \in Workers, Exec(w)
    PROVE  History'
<1> DEFINE s == stmt[w]
<1>1. wpc[w] = "exec" /\ s \in Held /\ s \in Creates /\ s \in Statements
  BY DEF Exec, IInv, Holding, Held, Busy, Statements
<1>2. PICK e \in Errors : Run(s, e) /\ err' = [err EXCEPT ![w] = e]
  BY DEF Exec
<1>3. /\ attempts[s] = <<>> /\ attempts'[s] = <<e>>
      /\ \A t \in Statements \ {s} : attempts'[t] = attempts[t]
  BY <1>1, <1>2, RunHistory DEF IInv, History, PoolHistory
<1>4. ~errsClosed
  BY <1>1, PoolDrained DEF InFlight
<1>5. InFlight' = InFlight /\ s \in InFlight
  <2>1. \A v \in Workers : Busy(v)' = Busy(v)
    BY DEF Exec, Busy, IInv, TypeOK
  <2> QED BY <1>1, <2>1, SamePlaces DEF Exec, Places, IInv, InFlight
<1>6. s \notin Range(Alters)
  BY <1>1, StatementsAssumption
<1>7. PoolHistory'
  <2>1. \A t \in toSend \cup Range(creates) : t # s /\ t \in Statements
    BY <1>1, InFlightCreates DEF IInv, OnePlace, Statements, TypeOK
  <2>2. /\ wpc'[w] = "send" /\ err'[w] = e /\ stmt' = stmt
        /\ \A v \in Workers \ {w} : wpc'[v] = wpc[v] /\ err'[v] = err[v]
    BY <1>2 DEF Exec, IInv, TypeOK
  <2>3. \A v \in Workers \ {w} : Busy(v) => stmt[v] # s /\ stmt[v] \in Statements
    BY <1>1 DEF IInv, NoDuplicates, Busy, Holding, Statements
  <2>4. \A i \in 1..Len(errs) : errs[i][1] # s /\ errs[i][1] \in Statements
    BY <1>1, InFlightCreates DEF IInv, OnePlace, Answered, Statements
  <2>5. toSend' = toSend /\ creates' = creates /\ errs' = errs
    BY DEF Exec
  <2> USE DEF History, PoolHistory
  <2>6. \A t \in toSend' \cup Range(creates') : attempts'[t] = <<>>
    BY <1>3, <2>1, <2>5
  <2>7. \A v \in Workers : wpc'[v] = "exec" => attempts'[stmt'[v]] = <<>>
    BY <1>3, <2>2, <2>3 DEF Busy
  <2>8. \A v \in Workers : wpc'[v] = "send" => attempts'[stmt'[v]] = <<err'[v]>>
    BY <1>3, <2>2, <2>3 DEF Busy
  <2>9. \A i \in 1..Len(errs') : attempts'[errs'[i][1]] = <<errs'[i][2]>>
    BY <1>3, <2>4, <2>5
  <2> QED BY <2>6, <2>7, <2>8, <2>9
<1>8. CollectHistory'
  <2>1. \A t \in Range(Alters) : attempts'[t] = attempts[t]
    BY <1>3, <1>6 DEF Statements
  <2>2. \A t \in Creates \ InFlight : attempts'[t] = attempts[t]
    BY <1>3, <1>5 DEF Statements
  <2> QED BY <1>4, <1>5, <2>1, <2>2
          DEF Exec, callVars, History, CollectHistory
<1>9. QueueHistory'
  BY <1>4 DEF Exec, QueueHistory
<1>10. Reported'
  <2>1. Settled' = Settled /\ s \notin Settled
    BY <1>5 DEF Settled, ToRun, Exec, callVars
  <2>2. \A t \in Settled : LastError(t)' = LastError(t)
    BY <1>3, <2>1 DEF LastError, Settled
  <2> QED BY <2>1, <2>2 DEF Reported, History, Exec, callVars
<1> QED BY <1>7, <1>8, <1>9, <1>10 DEF History

\* One result is sorted: to be retried, failed, or done.
LEMMA CollectKeepsHistory ==
    ASSUME IInv, IInv', History, Collect
    PROVE  History'
<1> DEFINE s == errs[1][1]
           e == errs[1][2]
           q == sequentialStatements
<1>1. /\ Len(errs) \in Nat \ {0} /\ Len(errs') = Len(errs) - 1
      /\ \A i \in 1..Len(errs') : errs'[i] = errs[i + 1]
      /\ Head(errs) = errs[1] /\ s \in Creates /\ s \in Statements /\ e \in Errors
  BY DEF Collect, IInv, TypeOK, Statements
<1>2. InFlight' = InFlight \ {s} /\ s \in InFlight
  BY CollectPlaces DEF IInv, Places
<1>3. attempts[s] = <<e>> /\ attempts' = attempts
  <2>1. \A i \in 1..Len(errs) : attempts[errs[i][1]] = <<errs[i][2]>>
    BY DEF History, PoolHistory
  <2>2. 1 \in 1..Len(errs)
    BY <1>1
  <2>3. attempts' = attempts
    BY DEF Collect
  <2> QED BY <2>1, <2>2, <2>3
<1>4. ~errsClosed /\ ~errsClosed' /\ pc = "collect" /\ pc' = pc
      /\ pos = 1 /\ pos' = 1
  BY DEF Collect, History, QueueHistory, CollectHistory
<1>5. Range(q) \subseteq Creates \ InFlight
  BY <1>4 DEF History, CollectHistory
<1>6. /\ Range(q') = IF Retriable(e) THEN Range(q) \cup {s} ELSE Range(q)
      /\ IsInjective(q')
  <2>1. q \in Seq(Statements) /\ IsInjective(q) /\ s \notin Range(q)
    BY <1>2, <1>5 DEF IInv, TypeOK, History, Reported
  <2>2. q' = IF Retriable(e) THEN Append(q, s) ELSE q
    BY <1>1 DEF Collect, Sort
  <2>3. Range(Append(q, s)) = Range(q) \cup {s} /\ IsInjective(Append(q, s))
    BY <1>1, <2>1, SendRange
  <2> QED BY <2>1, <2>2, <2>3
<1>7. PoolHistory'
  <2> USE DEF History, PoolHistory
  <2>1. \A i \in 1..Len(errs') : attempts'[errs'[i][1]] = <<errs'[i][2]>>
    <3>1. \A i \in 1..Len(errs) : attempts[errs[i][1]] = <<errs[i][2]>>
      OBVIOUS
    <3>2. \A i \in 1..Len(errs') : i + 1 \in 1..Len(errs)
      BY <1>1
    <3> QED BY <1>1, <1>3, <3>1, <3>2
  <2>2. UNCHANGED <<toSend, creates, wpc, stmt, err>>
    BY DEF Collect, poolVars
  <2> QED BY <1>3, <2>1, <2>2
<1>8. CollectHistory'
  <2>1. Range(q') \subseteq Creates \ InFlight'
    BY <1>1, <1>2, <1>5, <1>6
  <2>2. ASSUME NEW t \in Creates \ InFlight'
        PROVE  Len(attempts[t]) = 1 /\ (t \in Range(q') <=> Retriable(attempts[t][1]))
    <3>1. CASE t = s
      BY <1>2, <1>3, <1>5, <1>6, <3>1
    <3>2. CASE t # s
      BY <1>2, <1>4, <1>6, <2>2, <3>2 DEF History, CollectHistory
    <3> QED BY <3>1, <3>2
  <2> QED BY <1>3, <1>4, <2>1, <2>2 DEF History, CollectHistory
<1>9. QueueHistory'
  BY <1>4 DEF QueueHistory
<1>10. Reported'
  <2>1. ToRun = Range(q) /\ ToRun' = Range(q')
    <3>1. DOMAIN q = pos..Len(q) /\ DOMAIN q' = pos'..Len(q')
      BY <1>4 DEF IInv, TypeOK
    <3> QED BY <3>1 DEF ToRun, Range
  <2>2. s \notin Range(Alters)
    BY <1>1, StatementsAssumption
  <2>3. s \notin Settled
    BY <1>2 DEF Settled
  <2>4. Settled' = IF Retriable(e) THEN Settled ELSE Settled \cup {s}
    BY <1>1, <1>2, <1>4, <1>5, <1>6, <2>1, <2>2 DEF Settled
  <2>5. /\ \A t : LastError(t)' = LastError(t)
        /\ LastError(s) = e
    BY <1>1, <1>3 DEF LastError
  <2>6. s \notin Range(failures)
    BY <2>3 DEF History, Reported
  <2>7. /\ Range(failures') = IF e # "nil" /\ ~Retriable(e)
                              THEN Range(failures) \cup {s} ELSE Range(failures)
        /\ IsInjective(failures')
    <3>1. failures \in Seq(Statements) /\ IsInjective(failures)
      BY DEF IInv, TypeOK, History, Reported
    <3>2. failures' = IF e # "nil" /\ ~Retriable(e)
                      THEN Append(failures, s) ELSE failures
      BY <1>1 DEF Collect, Sort
    <3>3. /\ Range(Append(failures, s)) = Range(failures) \cup {s}
          /\ IsInjective(Append(failures, s))
      BY <1>1, <2>6, <3>1, SendRange
    <3> QED BY <3>1, <3>2, <3>3
  <2>8. Range(failures) = {t \in Settled : LastError(t) # "nil"}
    BY DEF History, Reported
  <2>9. Range(failures') = {t \in Settled' : LastError(t)' # "nil"}
    <3>1. CASE Retriable(e)
      BY <2>4, <2>5, <2>7, <2>8, <3>1
    <3>2. CASE ~Retriable(e)
      BY <2>4, <2>5, <2>7, <2>8, <3>2
    <3> QED BY <3>1, <3>2
  <2> QED BY <1>6, <2>7, <2>9 DEF Reported
<1> QED BY <1>7, <1>8, <1>9, <1>10 DEF History

----------------------------------------------------------------------------
(* The sequential statements                                               *)

\* Appending the ALTERs to the statements to retry.
LEMMA QueueShape ==
    ASSUME NEW q \in Seq(Statements), Range(q) \subseteq Creates, IsInjective(q)
    PROVE  /\ IsInjective(q \o Alters) /\ Range(q \o Alters) = Range(q) \cup Range(Alters)
           /\ Len(q \o Alters) = Len(q) + Len(Alters)
           /\ Len(q) \in Nat /\ Len(Alters) \in Nat
           /\ \A i \in 1..Len(q) : (q \o Alters)[i] = q[i] /\ q[i] \in Creates
           /\ \A i \in 1..Len(Alters) : (q \o Alters)[Len(q) + i] = Alters[i]
<1>1. /\ Len(q) \in Nat /\ DOMAIN q = 1..Len(q)
      /\ Len(Alters) \in Nat /\ DOMAIN Alters = 1..Len(Alters)
  BY AltersType
<1>2. \A i \in 1..Len(q) : q[i] \in Creates /\ q[i] \in Range(q)
  BY <1>1 DEF Range
<1>3. \A i \in 1..Len(Alters) : Alters[i] \in Range(Alters)
  BY <1>1 DEF Range
<1>4. /\ Len(q \o Alters) = Len(q) + Len(Alters)
      /\ DOMAIN (q \o Alters) = 1..(Len(q) + Len(Alters))
      /\ \A i \in 1..(Len(q) + Len(Alters)) :
            (q \o Alters)[i] = IF i <= Len(q) THEN q[i] ELSE Alters[i - Len(q)]
  BY <1>1, AltersType, ConcatProperties
<1>5. \A i \in 1..Len(q) : (q \o Alters)[i] = q[i]
  BY <1>1, <1>4
<1>6. \A i \in 1..Len(Alters) : (q \o Alters)[Len(q) + i] = Alters[i]
  BY <1>1, <1>4
<1>7. Range(q \o Alters) = Range(q) \cup Range(Alters)
  BY AltersType, RangeConcatenation
<1>8. IsInjective(q \o Alters)
  <2> SUFFICES ASSUME NEW i \in 1..(Len(q) + Len(Alters)),
                      NEW j \in 1..(Len(q) + Len(Alters)),
                      (q \o Alters)[i] = (q \o Alters)[j]
               PROVE  i = j
    BY <1>4 DEF IsInjective
  <2>1. CASE i <= Len(q) /\ j <= Len(q)
    BY <1>1, <1>4, <2>1 DEF IsInjective
  <2>2. CASE i <= Len(q) /\ j > Len(q)
    BY <1>1, <1>2, <1>3, <1>4, <2>2, StatementsAssumption
  <2>3. CASE i > Len(q) /\ j <= Len(q)
    BY <1>1, <1>2, <1>3, <1>4, <2>3, StatementsAssumption
  <2>4. CASE i > Len(q) /\ j > Len(q)
    <3>1. /\ i - Len(q) \in 1..Len(Alters) /\ j - Len(q) \in 1..Len(Alters)
          /\ Alters[i - Len(q)] = Alters[j - Len(q)]
      BY <1>1, <1>4, <2>4
    <3>2. i - Len(q) = j - Len(q)
      BY <1>1, <3>1, StatementsAssumption DEF IsInjective
    <3> QED BY <1>1, <3>2
  <2> QED BY <1>1, <2>1, <2>2, <2>3, <2>4
<1> QED BY <1>1, <1>2, <1>4, <1>5, <1>6, <1>7, <1>8

LEMMA CloseErrsHistory ==
    ASSUME IInv, IInv', History, CloseErrs
    PROVE  History'
<1> DEFINE q == sequentialStatements
<1>1. /\ ~errsClosed /\ errsClosed' /\ pc' = "sequential" /\ pos = 1 /\ pos' = 1
      /\ q' = q \o Alters /\ attempts' = attempts /\ failures' = failures
      /\ UNCHANGED <<toSend, creates, wpc, stmt, err, errs>>
  BY DEF CloseErrs, History, QueueHistory, CollectHistory, poolVars
<1>2. InFlight = {}
  <2>1. n = Cardinality(Creates)
    BY CreatesCardinality DEF CloseErrs, Outstanding, IInv, TypeOK
  <2> QED BY <2>1, AllCounted
<1>3. InFlight' = InFlight
  BY <1>1 DEF InFlight, Held, Answered, Busy
<1>4. /\ q \in Seq(Statements) /\ Range(q) \subseteq Creates /\ IsInjective(q)
      /\ \A s \in Range(Alters) : attempts[s] = <<>>
      /\ \A s \in Creates : /\ Len(attempts[s]) = 1
                            /\ s \in Range(q) <=> Retriable(attempts[s][1])
  BY <1>1, <1>2, <1>3 DEF History, CollectHistory, Reported, IInv, TypeOK
<1>5. /\ IsInjective(q') /\ Range(q') = Range(q) \cup Range(Alters)
      /\ Len(q') = Len(q) + Len(Alters)
      /\ Len(q) \in Nat /\ Len(Alters) \in Nat
      /\ \A i \in 1..Len(q) : q'[i] = q[i] /\ q[i] \in Creates
      /\ \A i \in 1..Len(Alters) : q'[Len(q) + i] = Alters[i]
  BY <1>1, <1>4, QueueShape
<1>6. Retries' = Len(q)
  BY <1>5 DEF Retries
<1>7. PoolHistory'
  BY <1>1 DEF History, PoolHistory
<1>8. CollectHistory'
  BY <1>1 DEF CollectHistory
<1>9. QueueHistory'
  <2>1. ASSUME NEW i \in 1..Len(q)
        PROVE  /\ q'[i] \in Creates /\ Len(attempts[q'[i]]) = 1
               /\ Retriable(attempts[q'[i]][1])
    <3>1. q[i] \in Range(q)
      BY <1>4 DEF Range
    <3>2. q'[i] = q[i] /\ q[i] \in Creates
      BY <1>5
    <3> QED BY <1>4, <3>1, <3>2 DEF Retriable
  <2>2. \A i \in 1..Len(Alters) : attempts[Alters[i]] = <<>>
    <3>1. \A i \in 1..Len(Alters) : Alters[i] \in Range(Alters)
      BY AltersType DEF Range
    <3> QED BY <1>4, <3>1
  <2>3. ASSUME NEW s \in Creates \ Range(q')
        PROVE  Len(attempts[s]) = 1 /\ ~Retriable(attempts[s][1])
    <3>1. s \notin Range(q)
      BY <1>5
    <3> QED BY <1>4, <3>1 DEF Retriable
  <2> QED BY <1>1, <1>5, <1>6, <2>1, <2>2, <2>3 DEF QueueHistory
<1>10. Reported'
  <2>1. ToRun = Range(q) /\ ToRun' = Range(q')
    <3>1. DOMAIN q = pos..Len(q) /\ DOMAIN q' = pos'..Len(q')
      BY <1>1 DEF IInv, TypeOK
    <3> QED BY <3>1 DEF ToRun, Range
  <2>2. Settled' = Settled
    BY <1>1, <1>3, <1>5, <2>1 DEF Settled
  <2>3. \A t : LastError(t)' = LastError(t)
    BY <1>1 DEF LastError
  <2> QED BY <1>1, <1>5, <2>2, <2>3 DEF Reported, History
<1> QED BY <1>7, <1>8, <1>9, <1>10 DEF History

\* Where the statement that is up for its sequential attempt stands.
LEMMA AtPos ==
    ASSUME IInv, History, errsClosed, pos <= Len(sequentialStatements)
    PROVE  LET s == sequentialStatements[pos] IN
           /\ s \in Statements /\ Retries \in Nat /\ Len(Alters) \in Nat
           /\ Len(sequentialStatements) = Retries + Len(Alters)
           /\ \/ /\ pos \in 1..Retries /\ s \in Creates
                 /\ Len(attempts[s]) = 1 /\ Retriable(attempts[s][1])
              \/ /\ pos - Retries \in 1..Len(Alters) /\ s = Alters[pos - Retries]
                 /\ attempts[s] = <<>>
           /\ \A i \in 1..Len(sequentialStatements) :
                i # pos => sequentialStatements[i] # s
<1> DEFINE s == sequentialStatements[pos]
<1>1. /\ pos \in 1..Len(sequentialStatements)
      /\ DOMAIN sequentialStatements = 1..Len(sequentialStatements)
      /\ Len(sequentialStatements) \in Nat /\ s \in Statements
  BY DEF IInv, TypeOK
<1>2. /\ Retries \in Nat /\ Len(Alters) \in Nat
      /\ Len(sequentialStatements) = Retries + Len(Alters)
  BY <1>1, AltersType DEF Retries, History, QueueHistory
<1>3. \A i \in 1..Len(sequentialStatements) :
        i # pos => sequentialStatements[i] # s
  BY <1>1 DEF History, Reported, IsInjective
<1>4. CASE pos <= Retries
  BY <1>1, <1>2, <1>3, <1>4 DEF History, QueueHistory
<1>5. CASE pos > Retries
  <2>1. pos - Retries \in 1..Len(Alters) /\ Retries + (pos - Retries) = pos
    BY <1>1, <1>2, <1>5
  <2>2. s = Alters[pos - Retries] /\ attempts[Alters[pos - Retries]] = <<>>
    BY <2>1, <1>1 DEF History, QueueHistory
  <2> QED BY <1>1, <1>2, <1>3, <2>1, <2>2
<1> QED BY <1>1, <1>2, <1>4, <1>5

LEMMA ExecSequentialHistory ==
    ASSUME IInv, IInv', History, ExecSequential
    PROVE  History'
<1> DEFINE q == sequentialStatements
<1>0. PICK s \in Statements : s = q[pos]
  BY DEF ExecSequential, IInv, TypeOK
<1>1. PICK e \in Errors : /\ Run(s, e)
                          /\ failures' = IF e = "nil" THEN failures
                                         ELSE Append(failures, s)
  BY <1>0 DEF ExecSequential
<1>2. /\ pc = "sequential" /\ pc' = pc /\ errsClosed /\ errsClosed' = errsClosed
      /\ pos \in 1..Len(q) /\ pos' = pos + 1 /\ q' = q /\ DOMAIN q = 1..Len(q)
      /\ Len(q) \in Nat
      /\ UNCHANGED <<toSend, creates, wpc, stmt, err, errs>>
  BY DEF ExecSequential, poolVars, IInv, Phases, TypeOK
<1>3. /\ s \in Statements /\ Retries \in Nat /\ Len(Alters) \in Nat
      /\ Len(q) = Retries + Len(Alters)
      /\ \/ pos \in 1..Retries /\ s \in Creates /\ Len(attempts[s]) = 1
         \/ /\ pos - Retries \in 1..Len(Alters) /\ s = Alters[pos - Retries]
            /\ attempts[s] = <<>>
      /\ \A i \in 1..Len(q) : i # pos => q[i] # s
  BY <1>0, <1>2, AtPos
<1>4. /\ Len(attempts'[s]) = Len(attempts[s]) + 1 /\ LastError(s)' = e
      /\ \A t \in Statements \ {s} : attempts'[t] = attempts[t]
  BY <1>1, <1>3, RunHistory DEF IInv
<1>5. InFlight = {} /\ InFlight' = {}
  <2>1. InFlight' = InFlight
    BY <1>2 DEF InFlight, Held, Answered, Busy
  <2> QED BY <1>2, <2>1, PoolDrained
<1>6. PoolHistory'
  <2>1. /\ toSend = {} /\ Range(creates) = {} /\ Answered = {}
        /\ \A w \in Workers : wpc[w] \notin {"exec", "send"}
    BY <1>5 DEF InFlight, Held, Busy
  <2>2. \A i \in 1..Len(errs) : FALSE
    BY <2>1 DEF Answered
  <2> QED BY <1>2, <2>1, <2>2 DEF PoolHistory
<1>7. CollectHistory'
  BY <1>2 DEF CollectHistory
<1>8. QueueHistory'
  <2>0. Retries' = Retries
    BY <1>2 DEF Retries
  <2>1. ASSUME NEW i \in 1..Retries
        PROVE  /\ q[i] \in Creates
               /\ i < pos' => Len(attempts'[q[i]]) = 2
               /\ i >= pos' => /\ Len(attempts'[q[i]]) = 1
                               /\ Retriable(attempts'[q[i]][1])
    <3>0. q[i] \in Creates
      BY <1>2 DEF History, QueueHistory
    <3>1. i \in 1..Len(q) /\ q[i] \in Creates /\ q[i] \in Statements
      BY <1>2, <1>3, <3>0 DEF Statements
    <3>2. CASE i = pos
      <4>1. Len(attempts[s]) = 1 /\ q[i] = s
        BY <1>0, <1>3, <3>2
      <4> QED BY <1>2, <1>4, <3>1, <3>2, <4>1
    <3>3. CASE i # pos
      <4>1. attempts'[q[i]] = attempts[q[i]]
        BY <1>3, <1>4, <3>1, <3>3
      <4> QED BY <1>2, <1>3, <3>1, <3>3, <4>1 DEF History, QueueHistory
    <3> QED BY <3>2, <3>3
  <2>2. ASSUME NEW i \in 1..Len(Alters)
        PROVE  /\ q[Retries + i] = Alters[i]
               /\ Retries + i < pos' => Len(attempts'[Alters[i]]) = 1
               /\ Retries + i >= pos' => attempts'[Alters[i]] = <<>>
    <3>0. q[Retries + i] = Alters[i]
      BY <1>2 DEF History, QueueHistory
    <3>1. /\ Retries + i \in 1..Len(q) /\ q[Retries + i] = Alters[i]
          /\ Alters[i] \in Statements
      BY <1>3, <3>0, AltersType
    <3>2. CASE Retries + i = pos
      <4>1. attempts[s] = <<>> /\ Alters[i] = s
        BY <1>0, <1>3, <3>1, <3>2
      <4> QED BY <1>2, <1>3, <1>4, <3>1, <3>2, <4>1
    <3>3. CASE Retries + i # pos
      <4>1. attempts'[Alters[i]] = attempts[Alters[i]]
        BY <1>3, <1>4, <3>1, <3>3
      <4>2. /\ Retries + i < pos => Len(attempts[Alters[i]]) = 1
            /\ Retries + i >= pos => attempts[Alters[i]] = <<>>
        BY <1>2 DEF History, QueueHistory
      <4>3. /\ Retries + i < pos' => Retries + i < pos
            /\ Retries + i >= pos' => Retries + i >= pos
        BY <1>2, <3>1, <3>3
      <4> QED BY <3>1, <4>1, <4>2, <4>3
    <3> QED BY <3>2, <3>3
  <2>3. ASSUME NEW t \in Creates \ Range(q)
        PROVE  Len(attempts'[t]) = 1 /\ ~Retriable(attempts'[t][1])
    <3>1. s \in Range(q) /\ t \in Statements
      BY <1>0, <1>2 DEF Range, Statements
    <3>2. attempts'[t] = attempts[t]
      BY <1>4, <3>1
    <3> QED BY <1>2, <3>2 DEF History, QueueHistory
  <2> QED BY <1>2, <1>3, <2>0, <2>1, <2>2, <2>3 DEF QueueHistory
<1>9. Reported'
  <2>1. ToRun' = ToRun \ {s} /\ s \in ToRun
    <3>1. pos'..Len(q) = (pos..Len(q)) \ {pos} /\ pos \in pos..Len(q)
      BY <1>2
    <3>2. pos..Len(q) \subseteq 1..Len(q)
      BY <1>2
    <3> QED BY <1>0, <1>2, <1>3, <3>1, <3>2 DEF ToRun
  <2>2. Settled' = Settled \cup {s} /\ s \notin Settled
    BY <1>2, <1>3, <1>5, <2>1 DEF Settled
  <2>3. /\ \A t \in Settled : LastError(t)' = LastError(t)
    BY <1>4, <2>2 DEF LastError, Settled
  <2>4. Range(failures) = {t \in Settled : LastError(t) # "nil"}
    BY DEF History, Reported
  <2>5. /\ Range(failures') = IF e = "nil" THEN Range(failures)
                              ELSE Range(failures) \cup {s}
        /\ IsInjective(failures')
    <3>1. /\ failures \in Seq(Statements) /\ IsInjective(failures)
          /\ s \notin Range(failures)
      BY <2>2, <2>4 DEF IInv, TypeOK, History, Reported
    <3>2. /\ Range(Append(failures, s)) = Range(failures) \cup {s}
          /\ IsInjective(Append(failures, s))
      BY <1>3, <3>1, SendRange
    <3> QED BY <1>1, <3>1, <3>2
  <2>6. Range(failures') = {t \in Settled' : LastError(t)' # "nil"}
    <3>1. CASE e = "nil"
      BY <1>4, <2>2, <2>3, <2>4, <2>5, <3>1
    <3>2. CASE e # "nil"
      BY <1>4, <2>2, <2>3, <2>4, <2>5, <3>2
    <3> QED BY <3>1, <3>2
  <2> QED BY <1>2, <2>5, <2>6 DEF Reported, History
<1> QED BY <1>6, <1>7, <1>8, <1>9 DEF History

\* Every step keeps the history.
LEMMA HistoryNext ==
    ASSUME IInv, IInv', History, [Next]_vars
    PROVE  History'
<1>1. ASSUME UNCHANGED <<toSend, creates, errs, stmt, err, errsClosed, attempts,
                         sequentialStatements, pos, failures>>,
             \A w \in Workers : \/ wpc'[w] = wpc[w]
                                \/ ~Busy(w) /\ ~Busy(w)',
             ~errsClosed => pc' \notin {"sequential", "introspect"},
             errsClosed => /\ pc' \notin {"new", "connect", "collect"}
                           /\ pc' # "sequential" => pos = Len(sequentialStatements) + 1
      PROVE  History'
  <2>1. \A w \in Workers : Busy(w)' = Busy(w)
    BY <1>1 DEF Busy
  <2>2. InFlight' = InFlight
    BY <1>1, <2>1, SamePlaces DEF IInv, Places
  <2>3. CollectHistory' /\ QueueHistory' /\ Reported'
    BY <1>1, <2>2, SameHistory
  <2>4. PoolHistory'
    BY <1>1 DEF History, PoolHistory, Busy
  <2> QED BY <2>3, <2>4 DEF History
<1>2. /\ ~errsClosed => pc \notin {"sequential", "introspect"}
      /\ errsClosed => /\ pc \notin {"new", "connect", "collect"}
                       /\ pc # "sequential" => pos = Len(sequentialStatements) + 1
  BY DEF History, CollectHistory, QueueHistory
<1>3. CASE NewFails \/ New \/ ConnectFails
  BY <1>1, <1>2, <1>3 DEF NewFails, New, ConnectFails, poolVars
<1>4. CASE Connect
  BY <1>1, <1>2, <1>4 DEF Connect, IInv, Phases, Busy
<1>5. CASE CloseCreates
  BY <1>1, <1>2, <1>5 DEF CloseCreates, callVars
<1>6. ASSUME NEW w \in Workers, Exit(w) PROVE History'
  BY <1>1, <1>2, <1>6 DEF Exit, callVars, IInv, TypeOK, Busy
<1>7. CASE EndSequential
  <2>1. pos = Len(sequentialStatements) + 1
    BY <1>7 DEF EndSequential, IInv, Phases, TypeOK, History, QueueHistory
  <2> QED BY <1>1, <1>2, <1>7, <2>1 DEF EndSequential, poolVars, IInv, Phases
<1>8. CASE Introspect \/ IntrospectFails
  BY <1>1, <1>2, <1>8 DEF Introspect, IntrospectFails, poolVars
<1>9. ASSUME NEW c \in {"nil", "cleanup"}, Cleanup(c) PROVE History'
  BY <1>1, <1>2, <1>9 DEF Cleanup, poolVars
<1>10. CASE UNCHANGED vars
  BY <1>1, <1>2, <1>10 DEF vars, callVars, poolVars
<1> QED
  BY <1>3, <1>4, <1>5, <1>6, <1>7, <1>8, <1>9, <1>10, CollectKeepsHistory,
     CloseErrsHistory, ExecSequentialHistory, ProduceHistory, ReceiveHistory,
     SendHistory, ExecHistory
  DEF Next, Caller, Producer, Worker, Terminated

----------------------------------------------------------------------------
(* The error return and the server                                         *)

LEMMA ReturningNext ==
    ASSUME IInv, Returning, [Next]_vars
    PROVE  Returning'
<1> USE DEF Returning
<1>0. setbacks \in Seq({"new", "connect", "introspect", "cleanup"})
  BY DEF IInv, TypeOK
<1>1. CASE NewFails \/ New
  BY <1>1 DEF NewFails, New
<1>2. CASE ConnectFails
  <2>1. Append(setbacks, "connect") = <<"connect">>
    BY <1>2 DEF ConnectFails
  <2> QED BY <1>2, <2>1 DEF ConnectFails
<1>3. CASE Connect \/ Collect \/ CloseErrs \/ ExecSequential \/ EndSequential
  BY <1>3 DEF Connect, Collect, CloseErrs, ExecSequential, EndSequential
<1>4. CASE Introspect
  BY <1>4 DEF Introspect
<1>5. CASE IntrospectFails
  <2>1. Append(setbacks, "introspect") = <<"introspect">>
    BY <1>5 DEF IntrospectFails
  <2> QED BY <1>5, <2>1 DEF IntrospectFails
<1>6. ASSUME NEW c \in {"nil", "cleanup"}, Cleanup(c) PROVE Returning'
  <2>1. CASE setbacks = <<>>
    <3>1. Append(setbacks, c) = <<c>>
      BY <2>1
    <3> QED BY <1>6, <2>1, <3>1 DEF Cleanup, ReturnedError
  <2>2. CASE setbacks # <<>>
    <3>1. setbacks[1] # "nil" /\ retErr = setbacks[1]
      BY <1>0, <2>2
    <3>2. c # "nil" => Append(setbacks, c) # <<>> /\ Append(setbacks, c)[1] = setbacks[1]
      BY <1>0, <2>2
    <3> QED BY <1>6, <2>2, <3>1, <3>2 DEF Cleanup, ReturnedError
  <2> QED BY <2>1, <2>2
<1>7. CASE Producer
  BY <1>7 DEF Producer, CloseCreates, Produce, callVars
<1>8. ASSUME NEW w \in Workers, Worker(w) PROVE Returning'
  BY <1>8 DEF Worker, Receive, Exec, Send, Exit, callVars
<1>9. CASE UNCHANGED vars
  BY <1>9 DEF vars, callVars
<1> QED BY <1>1, <1>2, <1>3, <1>4, <1>5, <1>6, <1>7, <1>8, <1>9
        DEF Next, Caller, Terminated

\* Every step either runs one statement or leaves server and history alone;
\* a statement that is run is a CREATE at its first attempt, or the next of the
\* sequential ones.
LEMMA RunsOrNot ==
    ASSUME IInv, History, [Next]_vars
    PROVE  \/ UNCHANGED <<applied, attempts>>
           \/ \E s \in Statements, e \in Errors :
                /\ Run(s, e)
                /\ UNCHANGED errsClosed
                /\ \/ ~errsClosed /\ s \in Creates /\ attempts[s] = <<>>
                   \/ /\ errsClosed /\ pos \in 1..Len(sequentialStatements)
                      /\ s = sequentialStatements[pos]
<1>1. ASSUME NEW w \in Workers, Exec(w)
      PROVE  \E s \in Creates, e \in Errors :
                Run(s, e) /\ UNCHANGED errsClosed /\ attempts[s] = <<>> /\ ~errsClosed
  <2>1. stmt[w] \in Held /\ stmt[w] \in Creates /\ attempts[stmt[w]] = <<>>
    BY <1>1 DEF Exec, IInv, Holding, Held, Busy, History, PoolHistory
  <2>2. ~errsClosed
    BY <2>1, PoolDrained DEF InFlight
  <2>3. UNCHANGED errsClosed /\ \E e \in Errors : Run(stmt[w], e)
    BY <1>1 DEF Exec
  <2> QED BY <2>1, <2>2, <2>3
<1>2. ASSUME ExecSequential
      PROVE  /\ errsClosed /\ pos \in 1..Len(sequentialStatements)
             /\ UNCHANGED errsClosed
             /\ sequentialStatements[pos] \in Statements
             /\ \E e \in Errors : Run(sequentialStatements[pos], e)
  BY <1>2 DEF ExecSequential, IInv, Phases, TypeOK
<1>3. CASE NewFails \/ New \/ ConnectFails \/ Connect \/ Collect \/ CloseErrs
  BY <1>3 DEF NewFails, New, ConnectFails, Connect, Collect, CloseErrs
<1>4. CASE EndSequential \/ Introspect \/ IntrospectFails
  BY <1>4 DEF EndSequential, Introspect, IntrospectFails
<1>5. ASSUME NEW c \in {"nil", "cleanup"}, Cleanup(c)
      PROVE  UNCHANGED <<applied, attempts>>
  BY <1>5 DEF Cleanup
<1>6. CASE Producer
  BY <1>6 DEF Producer, CloseCreates, Produce
<1>7. ASSUME NEW w \in Workers, Receive(w) \/ Send(w) \/ Exit(w)
      PROVE  UNCHANGED <<applied, attempts>>
  BY <1>7 DEF Receive, Send, Exit
<1>8. CASE UNCHANGED vars
  BY <1>8 DEF vars
<1>9. Creates \subseteq Statements
  BY DEF Statements
<1> QED BY <1>1, <1>2, <1>3, <1>4, <1>5, <1>6, <1>7, <1>8, <1>9
        DEF Next, Caller, Worker, Terminated

LEMMA EffectsNext ==
    ASSUME IInv, History, Effects, [Next]_vars
    PROVE  Effects'
<1>1. CASE UNCHANGED <<applied, attempts>>
  BY <1>1 DEF Effects, LastError
<1>2. ASSUME NEW s \in Statements, NEW e \in Errors, Run(s, e) PROVE Effects'
  <2>0. TypeOK
    BY DEF IInv
  <2>1. /\ \A t \in Statements \ {s} : attempts'[t] = attempts[t]
        /\ LastError(s)' = e
    BY <1>2, <2>0, RunHistory
  <2>2. /\ applied \subseteq applied' /\ applied' \subseteq applied \cup {s}
        /\ e = "nil" => s \in applied'
        /\ s \in applied' \ applied => s \notin Invalid /\ Needs[s] \subseteq applied
    BY <1>2, <2>0, RunEffect
  <2>3. ASSUME NEW t \in Statements, attempts'[t] # <<>>, LastError(t)' = "nil"
        PROVE  t \in applied'
    <3>1. CASE t = s
      BY <2>1, <2>2, <2>3, <3>1
    <3>2. CASE t # s
      <4>1. attempts[t] # <<>> /\ LastError(t) = "nil"
        BY <2>1, <2>3, <3>2 DEF LastError
      <4> QED BY <2>2, <4>1 DEF Effects
    <3> QED BY <3>1, <3>2
  <2>4. ASSUME NEW t \in applied'
        PROVE  t \notin Invalid /\ Needs[t] \subseteq applied'
    <3>1. CASE t \in applied
      BY <2>2, <3>1 DEF Effects
    <3>2. CASE t \notin applied
      BY <2>2, <2>4, <3>2
    <3> QED BY <3>1, <3>2
  <2> QED BY <2>3, <2>4 DEF Effects
<1> QED BY <1>1, <1>2, RunsOrNot

----------------------------------------------------------------------------
(* How often a statement was tried                                         *)

\* Every CREATE was tried before the first sequential statement, and those
\* that are not up for a retry were tried for the last time.
LEMMA CreatesTried ==
    ASSUME IInv, History, errsClosed, NEW c \in Creates
    PROVE  /\ attempts[c] # <<>> /\ Len(attempts[c]) \in Nat
           /\ pos > Retries =>
                \/ Len(attempts[c]) = 2
                \/ Len(attempts[c]) = 1 /\ ~Retriable(attempts[c][1])
<1> DEFINE q == sequentialStatements
<1>0. /\ attempts[c] \in Seq(Errors) /\ Retries \in Nat /\ Len(Alters) \in Nat
      /\ Len(q) = Retries + Len(Alters) /\ DOMAIN q = 1..Len(q) /\ pos \in Nat
  BY AltersType DEF IInv, TypeOK, Statements, History, QueueHistory, Retries
<1>1. CASE c \notin Range(q)
  BY <1>0, <1>1 DEF History, QueueHistory
<1>2. CASE c \in Range(q)
  <2>1. PICK i \in 1..Len(q) : q[i] = c
    BY <1>0, <1>2 DEF Range
  <2>2. CASE i <= Retries
    <3>1. /\ i < pos => Len(attempts[c]) = 2
          /\ i >= pos => Len(attempts[c]) = 1
      BY <1>0, <2>1, <2>2 DEF History, QueueHistory
    <3>2. (Len(attempts[c]) = 1 \/ Len(attempts[c]) = 2) /\ (pos > Retries => Len(attempts[c]) = 2)
      BY <1>0, <2>1, <2>2, <3>1
    <3>3. attempts[c] # <<>>
      BY <1>0, <3>2, Tried
    <3> QED BY <3>2, <3>3
  <2>3. CASE i > Retries
    <3>1. i - Retries \in 1..Len(Alters) /\ Retries + (i - Retries) = i
      BY <1>0, <2>1, <2>3
    <3>2. q[i] = Alters[i - Retries]
      BY <3>1 DEF History, QueueHistory
    <3>3. Alters[i - Retries] \in Range(Alters)
      BY <3>1, AltersType DEF Range
    <3> QED BY <2>1, <3>2, <3>3, StatementsAssumption
  <2> QED BY <1>0, <2>2, <2>3
<1> QED BY <1>1, <1>2

\* An ALTER before the current position was tried once.
LEMMA AltersTried ==
    ASSUME IInv, History, errsClosed, NEW i \in 1..Len(Alters), Retries + i < pos
    PROVE  Len(attempts[Alters[i]]) = 1
BY DEF History, QueueHistory

\* At the end of the sequential statements every statement is settled.
LEMMA AllSettled ==
    ASSUME IInv, History, errsClosed, pos > Len(sequentialStatements)
    PROVE  /\ Settled = Statements /\ pos > Retries
           /\ \A s \in Statements : attempts[s] # <<>>
           /\ \A s \in Range(Alters) : Len(attempts[s]) = 1
<1>1. /\ Retries \in Nat /\ Len(Alters) \in Nat /\ pos \in Nat
      /\ Len(sequentialStatements) = Retries + Len(Alters)
  BY AltersType DEF IInv, TypeOK, History, QueueHistory, Retries
<1>2. ToRun = {} /\ InFlight = {}
  <2>1. pos..Len(sequentialStatements) = {}
    BY <1>1
  <2> QED BY <2>1, PoolDrained DEF ToRun
<1>3. ASSUME NEW s \in Range(Alters) PROVE Len(attempts[s]) = 1
  <2>1. PICK i \in 1..Len(Alters) : Alters[i] = s
    BY AltersType DEF Range
  <2> QED BY <1>1, <2>1, AltersTried
<1>4. \A s \in Statements : attempts[s] # <<>>
  <2>1. ASSUME NEW s \in Range(Alters) PROVE attempts[s] # <<>>
    <3>1. attempts[s] \in Seq(Errors)
      BY DEF IInv, TypeOK, Statements
    <3>2. Len(attempts[s]) = 1
      BY <1>3
    <3> QED BY <3>1, <3>2, Tried
  <2> QED BY <2>1, CreatesTried DEF Statements
<1> QED BY <1>1, <1>2, <1>3, <1>4 DEF Settled

----------------------------------------------------------------------------
(* The outcome without faults                                              *)

\* A CREATE that is not retried, or no more, exists unless it is doomed.
LEMMA CreateSucceeded ==
    ASSUME IInv, History, Effects, Determined, Unnested, Undisturbed,
           errsClosed, pos > Retries, NEW c \in Creates, c \notin Doomed
    PROVE  c \in applied
<1>1. CASE Len(attempts[c]) = 2
  BY <1>1 DEF Determined, Statements
<1>2. CASE Len(attempts[c]) = 1 /\ ~Retriable(attempts[c][1])
  <2>1. /\ c \notin Invalid /\ c \in Statements
        /\ attempts[c] \in Seq(Errors)
    BY DEF Doomed, Broken, Statements, IInv, TypeOK
  <2>2. attempts[c][1] \in Range(attempts[c])
    BY <1>2, <2>1 DEF Range
  <2>3. attempts[c][1] \in {"nil", "nosuchtable"}
    BY <2>1, <2>2 DEF Undisturbed
  <2>4. attempts[c] # <<>> /\ LastError(c) = "nil"
    BY <1>2, <2>1, <2>3 DEF Retriable, LastError
  <2> QED BY <2>1, <2>4 DEF Effects
<1> QED BY <1>1, <1>2, CreatesTried

\* When a sequential statement is up that is not doomed, what it needs is there.
LEMMA NeedsMet ==
    ASSUME IInv, History, Effects, Determined, Unnested, Undisturbed, errsClosed,
           pos \in 1..Len(sequentialStatements),
           sequentialStatements[pos] \notin Doomed
    PROVE  Needs[sequentialStatements[pos]] \subseteq applied
<1> DEFINE s == sequentialStatements[pos]
<1>1. /\ s \in Statements /\ Retries \in Nat /\ pos \in Nat
      /\ \/ s \in Creates
         \/ pos > Retries
  BY AtPos DEF IInv, TypeOK
<1>2. Needs \in [Statements -> SUBSET Creates]
  BY StatementsAssumption
<1>3. SUFFICES ASSUME NEW c \in Needs[s] PROVE c \in applied
  OBVIOUS
<1>4. c \in Creates /\ c \in Statements /\ Needs[c] \subseteq Statements
  BY <1>1, <1>2 DEF Statements
<1>5. c \notin Broken /\ c \notin Invalid
  BY <1>1, <1>3, <1>4 DEF Doomed, Broken
<1>6. CASE s \in Creates
  <2>1. Needs[c] = {} /\ attempts[c] # <<>>
    BY <1>3, <1>4, <1>6, CreatesTried DEF Unnested
  <2> QED BY <1>4, <1>5, <2>1 DEF Determined
<1>7. CASE pos > Retries
  <2>1. \A b \in Needs[c] : b \in Statements /\ Needs[b] = {} /\ b \notin Invalid
    BY <1>4, <1>5 DEF Unnested, Broken
  <2>2. \A b \in Needs[c] : b \notin Broken
    BY <2>1 DEF Broken
  <2>3. c \notin Doomed
    BY <1>5, <2>2 DEF Doomed
  <2> QED BY <1>4, <1>7, <2>3, CreateSucceeded
<1> QED BY <1>1, <1>6, <1>7

LEMMA DeterminedNext ==
    ASSUME IInv, History, Effects, Determined, [Next]_vars
    PROVE  Determined'
<1>1. CASE UNCHANGED <<applied, attempts>>
  BY <1>1 DEF Determined, Undisturbed, LastError
<1>2. ASSUME NEW s \in Statements, NEW e \in Errors, Run(s, e),
             \/ ~errsClosed /\ s \in Creates /\ attempts[s] = <<>>
             \/ /\ errsClosed /\ pos \in 1..Len(sequentialStatements)
                /\ s = sequentialStatements[pos]
      PROVE  Determined'
  <2> SUFFICES ASSUME Unnested, Undisturbed'
               PROVE  /\ \A t \in applied' :
                            attempts'[t] # <<>> /\ LastError(t)' = "nil"
                      /\ \A t \in Statements \ Invalid :
                            attempts'[t] # <<>> /\ Needs[t] = {} => t \in applied'
                      /\ \A t \in Statements \ Doomed :
                            (IF t \in Creates THEN Len(attempts'[t]) = 2
                             ELSE attempts'[t] # <<>>) => t \in applied'
    BY DEF Determined, Unnested, Doomed, Broken
  <2>0. TypeOK /\ attempts[s] \in Seq(Errors)
    BY DEF IInv, TypeOK
  <2>1. /\ attempts'[s] = Append(attempts[s], e)
        /\ \A t \in Statements \ {s} : attempts'[t] = attempts[t]
        /\ LastError(s)' = e
    BY <1>2, <2>0, RunHistory
  <2>2. /\ applied \subseteq applied' /\ applied' \subseteq applied \cup {s}
        /\ e = "nil" => s \in applied'
        /\ s \in applied' \ applied => s \notin Invalid /\ Needs[s] \subseteq applied
        /\ s \notin Invalid /\ Needs[s] \subseteq applied => e # "nosuchtable"
    BY <1>2, <2>0, RunEffect
  <2>3. /\ Range(attempts'[s]) = Range(attempts[s]) \cup {e} /\ attempts'[s] # <<>>
    BY <2>0, <2>1, SendRange
  <2>4. Undisturbed
    BY <2>1, <2>3 DEF Undisturbed
  <2>5. s \notin Invalid => e \in {"nil", "nosuchtable"}
    BY <2>3 DEF Undisturbed
  <2>6. /\ \A t \in applied : attempts[t] # <<>> /\ LastError(t) = "nil"
        /\ \A t \in Statements \ Invalid :
              attempts[t] # <<>> /\ Needs[t] = {} => t \in applied
        /\ \A t \in Statements \ Doomed :
              (IF t \in Creates THEN Len(attempts[t]) = 2
               ELSE attempts[t] # <<>>) => t \in applied
    BY <2>4 DEF Determined
  <2>7. ASSUME s \notin Invalid, Needs[s] \subseteq applied
        PROVE  e = "nil" /\ s \in applied'
    BY <2>2, <2>5, <2>7
  <2>8. ASSUME NEW t \in applied'
        PROVE  attempts'[t] # <<>> /\ LastError(t)' = "nil"
    <3>1. CASE t = s
      <4>1. s \notin Invalid /\ Needs[s] \subseteq applied
        BY <2>2, <2>8, <3>1 DEF Effects
      <4> QED BY <2>1, <2>3, <2>7, <3>1, <4>1
    <3>2. CASE t # s
      <4>1. t \in applied /\ t \in Statements
        BY <2>0, <2>2, <2>8, <3>2 DEF TypeOK
      <4>2. LastError(t)' = LastError(t)
        BY <2>1, <3>2, <4>1 DEF LastError
      <4> QED BY <2>1, <2>6, <3>2, <4>1, <4>2
    <3> QED BY <3>1, <3>2
  <2>9. ASSUME NEW t \in Statements \ Invalid, attempts'[t] # <<>>, Needs[t] = {}
        PROVE  t \in applied'
    BY <2>1, <2>2, <2>6, <2>7, <2>9
  <2>10. ASSUME NEW t \in Statements \ Doomed,
                IF t \in Creates THEN Len(attempts'[t]) = 2 ELSE attempts'[t] # <<>>
         PROVE  t \in applied'
    <3>1. CASE t # s
      BY <2>1, <2>2, <2>6, <2>10, <3>1
    <3>2. CASE t = s /\ ~errsClosed
      <4>1. Len(attempts'[s]) = 1 /\ s \in Creates
        BY <1>2, <2>0, <2>1, <3>2
      <4> QED BY <2>10, <3>2, <4>1
    <3>3. CASE t = s /\ errsClosed
      <4>1. Needs[s] \subseteq applied
        BY <1>2, <2>4, <2>10, <3>3, NeedsMet
      <4> QED BY <2>7, <2>10, <3>3, <4>1 DEF Doomed, Broken
    <3> QED BY <3>1, <3>2, <3>3
  <2> QED BY <2>8, <2>9, <2>10
<1> QED BY <1>1, <1>2, RunsOrNot

----------------------------------------------------------------------------
(* The results                                                             *)

LEMMA FullInit == Init => FullInv
<1> SUFFICES ASSUME Init PROVE FullInv
  OBVIOUS
<1>0. IInv
  BY InvInit
<1> USE DEF Init
<1>1. /\ \A s \in Statements : attempts[s] = <<>>
      /\ Creates \subseteq Statements /\ Range(Alters) \subseteq Statements
  BY DEF Statements
<1>2. /\ Range(sequentialStatements) = {} /\ Range(failures) = {}
      /\ Range(creates) = {} /\ InFlight = Creates
      /\ IsInjective(sequentialStatements) /\ IsInjective(failures)
  BY DEF Range, InFlight, Held, Busy, Answered, IsInjective
<1>3. PoolHistory /\ CollectHistory /\ QueueHistory
  BY <1>1, <1>2 DEF PoolHistory, CollectHistory, QueueHistory
<1>4. Reported
  <2>1. Settled = {}
    BY <1>2 DEF Settled, Statements
  <2> QED BY <1>2, <2>1 DEF Reported
<1>5. Effects /\ Returning
  BY <1>1 DEF Effects, Returning
<1>6. Determined
  <2>1. \A s \in Statements : Len(attempts[s]) = 0
    BY <1>1
  <2>2. \A s \in Statements : Len(attempts[s]) # 2
    BY <2>1
  <2> QED BY <1>1, <2>2 DEF Determined
<1> QED BY <1>0, <1>3, <1>4, <1>5, <1>6 DEF FullInv, History

\* The places, the history and the effects of the statements, the error return
\* and what follows from them without faults hold together in every state.
THEOREM FullInvariance == Spec => []FullInv
<1>1. Init => FullInv
  BY FullInit
<1>2. FullInv /\ [Next]_vars => FullInv'
  BY InvNext, HistoryNext, EffectsNext, ReturningNext, DeterminedNext DEF FullInv
<1> QED BY <1>1, <1>2, PTL DEF Spec

\* The deferred function of ExecLogicalSchema hands out the first fatal error,
\* or nil when there was none, and never leaves an open workspace behind.
THEOREM FirstError == Spec => []FirstErrorWins
<1>1. FullInv => FirstErrorWins
  BY DEF FullInv, Returning, FirstErrorWins
<1> QED BY <1>1, FullInvariance, PTL

\* When ExecLogicalSchema returns a schema, the work is done and every statement
\* is settled.
LEMMA ReturnsSettled ==
    ASSUME FullInv, introspected
    PROVE  /\ errsClosed /\ schema = applied /\ pos > Retries
           /\ Range(failures) = {s \in Statements : LastError(s) # "nil"}
           /\ IsInjective(failures)
           /\ \A s \in Statements : attempts[s] # <<>>
           /\ \A s \in Range(Alters) : Len(attempts[s]) = 1
<1>1. errsClosed /\ pc # "sequential" /\ schema = applied
  BY DEF FullInv, IInv, Phases, SchemaIsFinal
<1>2. pos > Len(sequentialStatements)
  BY <1>1 DEF FullInv, History, QueueHistory, IInv, TypeOK
<1> QED BY <1>1, <1>2, AllSettled DEF FullInv, History, Reported

\* No statement is lost without notice: when ExecLogicalSchema returns no error,
\* each statement that is missing from the schema is among the Failures, for any
\* faults, any concurrency and any schedule.
THEOREM NothingLost == Spec => []NoSilentLoss
<1>1. FullInv => NoSilentLoss
  <2> SUFFICES ASSUME FullInv, pc = "returned", retErr = "nil",
                      NEW s \in Statements, s \notin schema
               PROVE  s \in Range(failures)
    BY DEF NoSilentLoss
  <2>1. introspected
    BY DEF FullInv, Returning
  <2>2. LastError(s) # "nil"
    BY <2>1, ReturnsSettled DEF FullInv, Effects
  <2> QED BY <2>1, <2>2, ReturnsSettled
<1> QED BY <1>1, FullInvariance, PTL

\* The outcome of a run without faults is the same for every schedule of the
\* workers and every order of the Go map: the doomed statements fail, each is
\* reported once, and the schema holds the others.
THEOREM Determinism == Spec => []OutcomeIsDeterministic
<1>1. FullInv => OutcomeIsDeterministic
  <2> SUFFICES ASSUME FullInv, introspected, Unnested, Undisturbed
               PROVE  /\ Range(failures) = Doomed /\ IsInjective(failures)
                      /\ schema = Statements \ Doomed
    BY DEF OutcomeIsDeterministic
  <2>1. /\ errsClosed /\ schema = applied /\ pos > Retries
        /\ Range(failures) = {s \in Statements : LastError(s) # "nil"}
        /\ IsInjective(failures)
        /\ \A s \in Statements : attempts[s] # <<>>
    BY ReturnsSettled
  <2>2. applied \subseteq Statements
    BY DEF FullInv, IInv, TypeOK
  <2>3. \A s \in applied : s \notin Broken
    BY DEF FullInv, Effects, Broken
  <2>4. \A s \in applied : s \notin Doomed
    BY <2>3 DEF FullInv, Effects, Doomed
  <2>5. ASSUME NEW s \in Statements \ Doomed PROVE s \in applied
    <3>1. CASE s \in Creates
      BY <2>1, <3>1, CreateSucceeded DEF FullInv
    <3>2. CASE s \notin Creates
      BY <2>1, <3>2 DEF FullInv, Determined
    <3> QED BY <3>1, <3>2
  <2>6. applied = Statements \ Doomed
    BY <2>2, <2>4, <2>5
  <2>7. \A s \in Statements : LastError(s) = "nil" <=> s \in applied
    BY <2>1 DEF FullInv, Effects, Determined
  <2>8. Doomed \subseteq Statements
    BY DEF Doomed, Broken
  <2> QED BY <2>1, <2>6, <2>7, <2>8
<1> QED BY <1>1, FullInvariance, PTL

-----------------------------------------------------------------------------
(* ExecLogicalSchema implements DDLBatch.  An Exec of a worker is a first  *)
(* attempt, CloseErrs ends the first phase, a sequential statement is a    *)
(* second attempt or an ALTER, EndSequential is the report, and every      *)
(* other step leaves the abstract state alone.                             *)

\* Both specifications are about the same statements.
LEMMA SameStatements ==
    Batch!Statements = Statements /\ Batch!Range(Alters) = Range(Alters)
BY DEF Batch!Statements, Statements, Batch!Range, Range

LEMMA RefinesInit == Init => Batch!BatchInit
BY SameStatements DEF Init, Batch!BatchInit

\* A statement that is run is an attempt of the abstract specification.
LEMMA RefinesRun ==
    ASSUME NEW s, NEW e, Run(s, e)
    PROVE  Batch!Attempt(s)
BY DEF Run, Batch!Attempt, Replies, Batch!Replies

LEMMA RefinesExec ==
    ASSUME FullInv, NEW w \in Workers, Exec(w)
    PROVE  Batch!BatchNext
<1>1. stmt[w] \in Held /\ stmt[w] \in Creates /\ attempts[stmt[w]] = <<>>
  BY DEF Exec, FullInv, IInv, Holding, Held, Busy, History, PoolHistory
<1>2. ~errsClosed /\ errsClosed' = errsClosed
  BY <1>1, PoolDrained DEF InFlight, FullInv, Exec
<1>3. Batch!Attempt(stmt[w])
  BY RefinesRun DEF Exec
<1>4. Batch!FirstAttempt(stmt[w])
  BY <1>1, <1>2, <1>3 DEF Batch!FirstAttempt
<1> QED BY <1>1, <1>4 DEF Batch!BatchNext

LEMMA RefinesCloseErrs ==
    ASSUME FullInv, CloseErrs
    PROVE  Batch!BatchNext
<1>1. ~errsClosed /\ errsClosed' /\ pc' = "sequential"
      /\ applied' = applied /\ attempts' = attempts
  BY DEF FullInv, History, QueueHistory, CloseErrs
<1>2. InFlight = {}
  <2>1. n = Cardinality(Creates)
    BY CreatesCardinality DEF CloseErrs, Outstanding, FullInv, IInv, TypeOK
  <2> QED BY <2>1, AllCounted DEF FullInv
<1>3. ASSUME NEW s \in Creates PROVE attempts[s] # <<>>
  <2>1. Len(attempts[s]) = 1 /\ attempts[s] \in Seq(Errors)
    BY <1>1, <1>2 DEF FullInv, IInv, TypeOK, Statements, History, CollectHistory
  <2> QED BY <2>1, Tried
<1>4. Batch!EndFirst
  BY <1>1, <1>3 DEF Batch!EndFirst
<1> QED BY <1>4 DEF Batch!BatchNext

\* No retry is left when the queue has reached the ALTERs.
LEMMA NothingToRetry ==
    ASSUME FullInv, errsClosed, pos > Retries
    PROVE  Batch!ToRetry = {}
BY CreatesTried DEF FullInv, Batch!ToRetry, Batch!Retriable, Retriable

LEMMA RefinesExecSequential ==
    ASSUME FullInv, ExecSequential
    PROVE  Batch!BatchNext
<1> DEFINE s == sequentialStatements[pos]
<1>1. /\ pc = "sequential" /\ pc' = pc /\ errsClosed /\ errsClosed' = errsClosed
      /\ pos <= Len(sequentialStatements) /\ pos \in Nat
  BY DEF ExecSequential, FullInv, IInv, Phases, TypeOK
<1>2. Batch!Attempt(s)
  BY RefinesRun DEF ExecSequential
<1>3. /\ s \in Statements /\ Retries \in Nat /\ Len(Alters) \in Nat
      /\ \/ pos \in 1..Retries /\ s \in Creates
            /\ Len(attempts[s]) = 1 /\ Retriable(attempts[s][1])
         \/ /\ pos - Retries \in 1..Len(Alters) /\ s = Alters[pos - Retries]
            /\ attempts[s] = <<>>
  BY <1>1, AtPos DEF FullInv
<1>4. CASE s \in Creates /\ Len(attempts[s]) = 1 /\ Retriable(attempts[s][1])
  <2>1. s \in Batch!ToRetry
    BY <1>4 DEF Batch!ToRetry, Batch!Retriable, Retriable
  <2>2. Batch!SecondAttempt(s)
    BY <1>1, <1>2, <2>1 DEF Batch!SecondAttempt
  <2> QED BY <1>4, <2>2 DEF Batch!BatchNext
<1>5. CASE /\ pos - Retries \in 1..Len(Alters) /\ s = Alters[pos - Retries]
           /\ attempts[s] = <<>>
  <2> DEFINE i == pos - Retries
  <2>1. Batch!ToRetry = {}
    BY <1>1, <1>3, <1>5, NothingToRetry
  <2>2. ASSUME NEW j \in 1..(i - 1) PROVE attempts[Alters[j]] # <<>>
    <3>1. j \in 1..Len(Alters) /\ Retries + j < pos
      BY <1>1, <1>3, <1>5, <2>2
    <3>2. attempts[Alters[j]] \in Seq(Errors)
      BY <3>1, AltersType DEF FullInv, IInv, TypeOK
    <3>3. Len(attempts[Alters[j]]) = 1
      BY <1>1, <3>1, AltersTried DEF FullInv
    <3> QED BY <3>2, <3>3, Tried
  <2>3. Batch!RunAlter(i)
    BY <1>1, <1>2, <1>5, <2>1, <2>2 DEF Batch!RunAlter
  <2>4. i \in DOMAIN Alters
    BY <1>5, AltersType
  <2> QED BY <2>3, <2>4 DEF Batch!BatchNext
<1> QED BY <1>3, <1>4, <1>5

LEMMA RefinesEndSequential ==
    ASSUME FullInv, EndSequential
    PROVE  Batch!BatchNext
<1>1. /\ errsClosed /\ errsClosed' = errsClosed /\ pc = "sequential"
      /\ pc' = "introspect" /\ pos > Len(sequentialStatements)
      /\ failures' = failures /\ applied' = applied /\ attempts' = attempts
  BY DEF EndSequential, FullInv, IInv, Phases
<1>2. /\ Settled = Statements /\ pos > Retries
      /\ \A s \in Statements : attempts[s] # <<>>
  BY <1>1, AllSettled DEF FullInv
<1>3. Batch!ToRetry = {}
  BY <1>1, <1>2, NothingToRetry
<1>4. Range(failures) = {s \in Statements : attempts[s][Len(attempts[s])] # "nil"}
  BY <1>2 DEF FullInv, History, Reported, LastError
<1>5. \A s \in Range(Alters) : attempts[s] # <<>>
  BY <1>2 DEF Statements
<1>6. Batch!Report
  BY <1>1, <1>3, <1>4, <1>5, SameStatements DEF Batch!Report
<1> QED BY <1>6 DEF Batch!BatchNext

\* Every step of ExecLogicalSchema is a step of DDLBatch or leaves it alone.
LEMMA RefinesNext ==
    ASSUME FullInv, [Next]_vars
    PROVE  [Batch!BatchNext]_(Batch!batchVars)
<1>1. ASSUME UNCHANGED <<applied, attempts, errsClosed, failures>>,
             pc # "sequential", pc' # "sequential"
      PROVE  UNCHANGED Batch!batchVars
  BY <1>1 DEF Batch!batchVars
<1>2. ASSUME UNCHANGED <<applied, attempts, errsClosed, failures, pc>>
      PROVE  UNCHANGED Batch!batchVars
  BY <1>2 DEF Batch!batchVars
<1>3. CASE NewFails \/ New \/ ConnectFails \/ Connect
  BY <1>1, <1>3 DEF NewFails, New, ConnectFails, Connect
<1>4. CASE Introspect \/ IntrospectFails
  BY <1>1, <1>4 DEF Introspect, IntrospectFails
<1>5. ASSUME NEW c \in {"nil", "cleanup"}, Cleanup(c)
      PROVE  UNCHANGED Batch!batchVars
  BY <1>1, <1>5 DEF Cleanup
<1>6. CASE Collect
  \* errs is open while results are collected: nothing is reported yet
  <2>1. ~errsClosed /\ UNCHANGED <<applied, attempts, errsClosed, pc>>
    BY <1>6 DEF Collect, FullInv, History, QueueHistory
  <2> QED BY <2>1 DEF Batch!batchVars
<1>7. CASE Producer
  BY <1>2, <1>7 DEF Producer, CloseCreates, Produce, callVars
<1>8. ASSUME NEW w \in Workers, Receive(w) \/ Send(w) \/ Exit(w)
      PROVE  UNCHANGED Batch!batchVars
  BY <1>2, <1>8 DEF Receive, Send, Exit, callVars
<1>9. CASE UNCHANGED vars
  BY <1>2, <1>9 DEF vars, callVars
<1> QED
  BY <1>3, <1>4, <1>5, <1>6, <1>7, <1>8, <1>9, RefinesExec, RefinesCloseErrs,
     RefinesExecSequential, RefinesEndSequential
  DEF Next, Caller, Worker, Terminated

\* ExecLogicalSchema with its goroutines, channels and retries implements the
\* sequential promise of DDLBatch, for any statements, faults and concurrency.
THEOREM Refinement == Spec => ImplementsBatch
<1>1. Init => Batch!BatchInit
  BY RefinesInit
<1>2. FullInv /\ [Next]_vars => [Batch!BatchNext]_(Batch!batchVars)
  BY RefinesNext
<1> QED BY <1>1, <1>2, FullInvariance, PTL
        DEF Spec, ImplementsBatch, Batch!BatchSpec
=============================================================================
