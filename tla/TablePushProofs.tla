-------------------------- MODULE TablePushProofs --------------------------
(***************************************************************************)
(* Proofs about pushing a table. First what the clauses of a diff refer    *)
(* to, which of them come together, in which order the columns are placed, *)
(* and how the clauses are spread over statements; then that the server    *)
(* accepts every statement, also after a push that ended halfway, that the *)
(* options are respected, and where the columns end up.                    *)
(***************************************************************************)
EXTENDS TablePush, SubsequenceProofs


\* A table as the server has it.
Wf(t) ==
    /\ IsSeq(t.cols) /\ IsSeq(t.idxs) /\ IsSeq(t.checks)
    /\ \A c \in ToSet(t.cols) : c.name \notin {Unpositioned, First}
    /\ \A i \in ToSet(t.idxs) : i.name # "PRIMARY"

NamesDiffer(s) == \A m, n \in 1..Len(s) : s[m].name = s[n].name => m = n

----------------------------------------------------------------------------
(* Names                                                                   *)

LEMMA ByNameFacts ==
    ASSUME NEW s, NEW x \in Names(s)
    PROVE  ByName(s, x) \in ToSet(s) /\ ByName(s, x).name = x
BY DEF Names, ByName

LEMMA CommonFacts ==
    ASSUME NEW s, IsSeq(s), NEW t
    PROVE  /\ IsSeq(CommonCols(s, t))
           /\ ToSet(CommonCols(s, t)) = {c \in ToSet(s) : c.name \in Names(t)}
           /\ NamesDiffer(s) => NamesDiffer(CommonCols(s, t))
<1> DEFINE I == {n \in 1..Len(s) : s[n].name \in Names(t)}
           p == Pick(s, I)
<1>1. CommonCols(s, t) = p
  BY DEF CommonCols, Filter
<1>2. I \subseteq 1..Len(s)
  OBVIOUS
<1> HIDE DEF I
<1>3. /\ IsSeq(p) /\ ToSet(p) = {s[n] : n \in I} /\ Len(p) = Cardinality(I)
      /\ \A k \in 1..Cardinality(I) : Nth(I, k) \in I
      /\ \A j, k \in 1..Cardinality(I) : j < k => Nth(I, j) < Nth(I, k)
  BY <1>2, PickFacts, ZenonT(40)
<1>4. \A k \in 1..Cardinality(I) : p[k] = s[Nth(I, k)]
  BY DEF Pick
<1> HIDE DEF p
<1>5. ToSet(p) = {c \in ToSet(s) : c.name \in Names(t)}
  <2>1. ToSet(s) = {s[n] : n \in 1..Len(s)}
    BY SeqFacts
  <2> QED BY <1>3, <2>1 DEF I
<1>6. ASSUME NamesDiffer(s)
      PROVE  NamesDiffer(p)
  <2> SUFFICES ASSUME NEW m \in 1..Len(p), NEW n \in 1..Len(p), p[m].name = p[n].name
               PROVE  m = n
    BY DEF NamesDiffer
  <2>1. Nth(I, m) = Nth(I, n) /\ Nth(I, m) \in 1..Len(s) /\ Nth(I, n) \in 1..Len(s)
    <3>1. m \in 1..Cardinality(I) /\ n \in 1..Cardinality(I)
      BY <1>3
    <3>2. p[m] = s[Nth(I, m)] /\ p[n] = s[Nth(I, n)]
      BY <1>4, <3>1
    <3>3. Nth(I, m) \in 1..Len(s) /\ Nth(I, n) \in 1..Len(s)
      BY <1>2, <1>3, <3>1
    <3> QED BY <1>6, <3>2, <3>3 DEF NamesDiffer
  <2>2. ~(m < n) /\ ~(n < m)
    BY <1>3, <2>1
  <2> QED BY <2>2
<1> QED BY <1>1, <1>3, <1>5, <1>6

----------------------------------------------------------------------------
(* Columns                                                                 *)

LEMMA ColumnDropFacts ==
    ASSUME NEW from, IsSeq(from), NEW to
    PROVE  /\ IsSeq(columnDrops(from, to))
           /\ \A c \in ToSet(columnDrops(from, to)) :
                 c.op = "DropColumn" /\ c.col \in ToSet(from) /\ c.col.name \notin Names(to)
<1> DEFINE I == {n \in 1..Len(from) : from[n].name \notin Names(to)}
           p == Pick(from, I)
           d == columnDrops(from, to)
<1>1. d = [n \in DOMAIN p |-> DropColumn(p[n])]
  BY DEF columnDrops, Filter
<1>2. I \subseteq 1..Len(from)
  OBVIOUS
<1>3. IsSeq(p) /\ ToSet(p) = {from[n] : n \in I}
  <2> HIDE DEF I
  <2> QED BY <1>2, PickFacts, ZenonT(40)
<1>4. ToSet(from) = {from[n] : n \in 1..Len(from)}
  BY SeqFacts
<1>5. \A x \in ToSet(p) : x \in ToSet(from) /\ x.name \notin Names(to)
  BY <1>3, <1>4
<1> HIDE DEF p, d
<1>6. Len(p) \in Nat /\ DOMAIN p = 1..Len(p) /\ \A n \in 1..Len(p) : p[n] \in ToSet(p)
  BY <1>3, SeqFacts
<1>7. d = [n \in 1..Len(p) |-> d[n]] /\ \A n \in 1..Len(p) : d[n] = DropColumn(p[n])
  BY <1>1, <1>6
<1>8. IsSeq(d) /\ Len(d) = Len(p)
  BY <1>6, <1>7, FunctionIsSeq
<1>9. ToSet(d) = {d[n] : n \in 1..Len(p)}
  BY <1>8, SeqFacts
<1>10. \A n \in 1..Len(p) : d[n].op = "DropColumn" /\ d[n].col = p[n]
  BY <1>7 DEF DropColumn
<1> QED BY <1>5, <1>6, <1>8, <1>9, <1>10 DEF d

\* Columns that a sequence of clauses places, and those placed after one.
Places(U, x) == {c \in U : Placing(c) /\ c.col.name = x}
PlacesAfter(U, x) == {c \in U : Placing(c) /\ c.pos = x}

\* Modifications that move a column.
Moves(C) == {c \in C : c.op = "ModifyColumn" /\ c.pos # Unpositioned}

LEMMA ColumnModificationFacts ==
    ASSUME NEW from, IsSeq(from), NEW to, IsSeq(to), NamesDiffer(to), NEW U
    PROVE  LET m == columnModifications(from, to)
           IN  /\ IsSeq(m)
               /\ \A c \in ToSet(m) :
                     /\ c.op = "ModifyColumn" /\ c.col \in ToSet(to) /\ c.old \in ToSet(from)
                     /\ c.old.name = c.col.name
                     /\ c.pos \notin {Unpositioned, First} => c.pos \in Names(from) \cap Names(to)
               /\ \A x : Once(m, Places(U, x))
               /\ \A x : x \notin {Unpositioned, First} =>
                            Precedes(m, Places(U, x), PlacesAfter(U, x))
<1> DEFINE m == columnModifications(from, to)
           old == CommonCols(from, to)
           new == CommonCols(to, from)
           stay == IF SameOrder(old, new) THEN DOMAIN new ELSE StayPut(old, new)
           position(n) == IF n \in stay THEN Unpositioned
                          ELSE IF n = 1 THEN First ELSE new[n - 1].name
           I == {n \in DOMAIN new : n \notin stay \/ ByName(from, new[n].name) # new[n]}
           clause(n) == ModifyColumn(ByName(from, new[n].name), new[n], position(n))
           C == Cardinality(I)
<1>1. m = [k \in DOMAIN Ascending(I) |-> clause(Ascending(I)[k])]
  BY DEF columnModifications
<1>2. IsSeq(new) /\ NamesDiffer(new) /\ ToSet(new) = {c \in ToSet(to) : c.name \in Names(from)}
  BY CommonFacts
<1>3. Len(new) \in Nat /\ DOMAIN new = 1..Len(new) /\ \A n \in 1..Len(new) : new[n] \in ToSet(new)
  BY <1>2, SeqFacts
<1>4. I \in SUBSET (1..Len(new))
  BY <1>3
<1> HIDE DEF I, m
<1>5. /\ C \in Nat /\ \A k \in 1..C : Nth(I, k) \in I
      /\ \A j, k \in 1..C : j < k => Nth(I, j) < Nth(I, k)
  BY <1>3, <1>4, NthProperties
<1> HIDE DEF C
<1>6. DOMAIN Ascending(I) = 1..C /\ \A k \in 1..C : Ascending(I)[k] = Nth(I, k)
  BY DEF Ascending, C
<1> HIDE DEF clause
<1>7. m = [k \in 1..C |-> m[k]] /\ \A k \in 1..C : m[k] = clause(Nth(I, k))
  BY <1>1, <1>6
<1>8. IsSeq(m) /\ Len(m) = C /\ ToSet(m) = {m[k] : k \in 1..C}
  <2>1. IsSeq(m) /\ Len(m) = C
    BY <1>5, <1>7, FunctionIsSeq
  <2> QED BY <2>1, SeqFacts
<1> HIDE DEF stay, old, new
<1>9. ASSUME NEW n \in 1..Len(new)
      PROVE  /\ clause(n).op = "ModifyColumn" /\ clause(n).col = new[n]
             /\ clause(n).col \in ToSet(to) /\ clause(n).old \in ToSet(from)
             /\ clause(n).old.name = new[n].name
             /\ clause(n).pos = position(n)
             /\ clause(n).pos \notin {Unpositioned, First} =>
                  n - 1 \in 1..Len(new) /\ clause(n).pos = new[n - 1].name
  <2> DEFINE b == ByName(from, new[n].name)
  <2>1. new[n] \in ToSet(to) /\ new[n].name \in Names(from)
    BY <1>2, <1>3
  <2>2. b \in ToSet(from) /\ b.name = new[n].name
    BY <2>1, ByNameFacts
  <2> HIDE DEF b
  <2>3. clause(n) = ModifyColumn(b, new[n], position(n))
    BY DEF clause, b
  <2>4. /\ clause(n).op = "ModifyColumn" /\ clause(n).col = new[n]
        /\ clause(n).old = b /\ clause(n).pos = position(n)
    BY <2>3 DEF ModifyColumn
  <2>5. position(n) \notin {Unpositioned, First} => n # 1 /\ position(n) = new[n - 1].name
    OBVIOUS
  <2>6. n # 1 => n - 1 \in 1..Len(new)
    BY <1>3
  <2> QED BY <2>1, <2>2, <2>4, <2>5, <2>6
<1> HIDE DEF position
<1>10. ASSUME NEW c \in ToSet(m)
       PROVE  /\ c.op = "ModifyColumn" /\ c.col \in ToSet(to) /\ c.old \in ToSet(from)
              /\ c.old.name = c.col.name
              /\ c.pos \notin {Unpositioned, First} => c.pos \in Names(from) \cap Names(to)
  <2>1. PICK k \in 1..C : c = clause(Nth(I, k))
    BY <1>7, <1>8
  <2>2. PICK n \in 1..Len(new) : c = clause(n)
    BY <1>4, <1>5, <2>1
  <2>3. \A i \in 1..Len(new) : new[i].name \in Names(from) \cap Names(to)
    BY <1>2, <1>3 DEF Names
  <2> QED BY <1>9, <2>2, <2>3
<1>11. ASSUME NEW x
       PROVE  Once(m, Places(U, x))
  <2> SUFFICES ASSUME NEW i \in 1..C, NEW j \in 1..C, m[i].col.name = x, m[j].col.name = x
               PROVE  i = j
    BY <1>8 DEF Once, Places
  <2>1. Nth(I, i) \in 1..Len(new) /\ Nth(I, j) \in 1..Len(new)
    BY <1>4, <1>5
  <2>2. new[Nth(I, i)].name = new[Nth(I, j)].name
    BY <1>7, <1>9, <2>1
  <2>3. Nth(I, i) = Nth(I, j)
    BY <1>2, <2>1, <2>2 DEF NamesDiffer
  <2>4. ~(i < j) /\ ~(j < i)
    BY <1>5, <2>1, <2>3
  <2> QED BY <1>5, <2>4
<1>12. ASSUME NEW x, x \notin {Unpositioned, First}
       PROVE  Precedes(m, Places(U, x), PlacesAfter(U, x))
  <2> SUFFICES ASSUME NEW i \in 1..C, NEW j \in 1..C, m[i].pos = x, m[j].col.name = x
               PROVE  j < i
    BY <1>8 DEF Precedes, Places, PlacesAfter
  <2>1. Nth(I, i) \in 1..Len(new) /\ Nth(I, j) \in 1..Len(new)
    BY <1>4, <1>5
  <2>2. Nth(I, i) - 1 \in 1..Len(new) /\ new[Nth(I, i) - 1].name = x
    BY <1>7, <1>9, <1>12, <2>1
  <2>3. new[Nth(I, j)].name = x
    BY <1>7, <1>9, <2>1
  <2>4. Nth(I, j) = Nth(I, i) - 1
    BY <1>2, <2>1, <2>2, <2>3 DEF NamesDiffer
  <2>5. Nth(I, j) < Nth(I, i)
    BY <1>3, <2>1, <2>4
  <2>6. i < j => Nth(I, i) < Nth(I, j)
    BY <1>5
  <2>7. i # j /\ ~(i < j)
    BY <1>3, <2>1, <2>5, <2>6
  <2> QED BY <1>5, <2>7
<1> QED BY <1>8, <1>10, <1>11, <1>12 DEF m

LEMMA ColumnAddFacts ==
    ASSUME NEW from, IsSeq(from), NEW to, IsSeq(to), NamesDiffer(to), NEW U
    PROVE  LET a == columnAdds(from, to)
           IN  /\ IsSeq(a)
               /\ \A c \in ToSet(a) :
                     /\ c.op = "AddColumn" /\ c.col \in ToSet(to) /\ c.col.name \notin Names(from)
                     /\ c.pos \notin {Unpositioned, First} => c.pos \in Names(to)
               /\ \A c \in ToSet(to) : c.name \notin Names(from) =>
                     \E d \in ToSet(a) : d.col = c
               /\ \A x : Once(a, Places(U, x))
               /\ \A x : x \notin {Unpositioned, First} =>
                            Precedes(a, Places(U, x), PlacesAfter(U, x))
<1> DEFINE a == columnAdds(from, to)
           existingColsAfter(n) == \E k \in n+1..Len(to) : to[k].name \in Names(from)
           position(n) == IF ~existingColsAfter(n) THEN Unpositioned
                          ELSE IF n = 1 THEN First ELSE to[n - 1].name
           I == {n \in DOMAIN to : to[n].name \notin Names(from)}
           clause(n) == AddColumn(to[n], position(n))
           C == Cardinality(I)
<1>1. a = [k \in DOMAIN Ascending(I) |-> clause(Ascending(I)[k])]
  BY DEF columnAdds
<1>2. /\ Len(to) \in Nat /\ DOMAIN to = 1..Len(to) /\ ToSet(to) = {to[n] : n \in 1..Len(to)}
      /\ \A n \in 1..Len(to) : to[n] \in ToSet(to)
  BY SeqFacts
<1>3. I \in SUBSET (1..Len(to)) /\ \A n \in I : to[n].name \notin Names(from)
  BY <1>2
<1>4. \A n \in 1..Len(to) : to[n].name \notin Names(from) => n \in I
  BY <1>2
<1> HIDE DEF I, a
<1>5. /\ C \in Nat /\ \A k \in 1..C : Nth(I, k) \in I
      /\ \A j, k \in 1..C : j < k => Nth(I, j) < Nth(I, k)
      /\ \A n \in I : \E k \in 1..C : Nth(I, k) = n
  BY <1>2, <1>3, NthProperties
<1> HIDE DEF C
<1>6. DOMAIN Ascending(I) = 1..C /\ \A k \in 1..C : Ascending(I)[k] = Nth(I, k)
  BY DEF Ascending, C
<1> HIDE DEF clause
<1>7. a = [k \in 1..C |-> a[k]] /\ \A k \in 1..C : a[k] = clause(Nth(I, k))
  BY <1>1, <1>6
<1>8. IsSeq(a) /\ Len(a) = C /\ ToSet(a) = {a[k] : k \in 1..C}
  <2>1. IsSeq(a) /\ Len(a) = C
    BY <1>5, <1>7, FunctionIsSeq
  <2> QED BY <2>1, SeqFacts
<1> HIDE DEF existingColsAfter
<1>9. ASSUME NEW n \in 1..Len(to)
      PROVE  /\ clause(n).op = "AddColumn" /\ clause(n).col = to[n]
             /\ clause(n).pos = position(n)
             /\ clause(n).pos \notin {Unpositioned, First} =>
                  n - 1 \in 1..Len(to) /\ clause(n).pos = to[n - 1].name
  <2>4. clause(n).op = "AddColumn" /\ clause(n).col = to[n] /\ clause(n).pos = position(n)
    BY DEF clause, AddColumn
  <2>5. position(n) \notin {Unpositioned, First} => n # 1 /\ position(n) = to[n - 1].name
    OBVIOUS
  <2>6. n # 1 => n - 1 \in 1..Len(to)
    BY <1>2
  <2> QED BY <2>4, <2>5, <2>6
<1> HIDE DEF position
<1>10. ASSUME NEW c \in ToSet(a)
       PROVE  /\ c.op = "AddColumn" /\ c.col \in ToSet(to) /\ c.col.name \notin Names(from)
              /\ c.pos \notin {Unpositioned, First} => c.pos \in Names(to)
  <2>1. PICK k \in 1..C : c = clause(Nth(I, k))
    BY <1>7, <1>8
  <2>2. PICK n \in I : c = clause(n)
    BY <1>5, <2>1
  <2>3. \A i \in 1..Len(to) : to[i].name \in Names(to)
    BY <1>2 DEF Names
  <2>4. n \in 1..Len(to)
    BY <1>3
  <2> QED BY <1>2, <1>3, <1>9, <2>2, <2>3, <2>4
<1>11. ASSUME NEW x
       PROVE  Once(a, Places(U, x))
  <2> SUFFICES ASSUME NEW i \in 1..C, NEW j \in 1..C, a[i].col.name = x, a[j].col.name = x
               PROVE  i = j
    BY <1>8 DEF Once, Places
  <2>1. Nth(I, i) \in 1..Len(to) /\ Nth(I, j) \in 1..Len(to)
    BY <1>3, <1>5
  <2>2. to[Nth(I, i)].name = to[Nth(I, j)].name
    BY <1>7, <1>9, <2>1
  <2>3. Nth(I, i) = Nth(I, j)
    BY <2>1, <2>2 DEF NamesDiffer
  <2>4. ~(i < j) /\ ~(j < i)
    BY <1>5, <2>1, <2>3
  <2> QED BY <1>5, <2>4
<1>12. ASSUME NEW x, x \notin {Unpositioned, First}
       PROVE  Precedes(a, Places(U, x), PlacesAfter(U, x))
  <2> SUFFICES ASSUME NEW i \in 1..C, NEW j \in 1..C, a[i].pos = x, a[j].col.name = x
               PROVE  j < i
    BY <1>8 DEF Precedes, Places, PlacesAfter
  <2>1. Nth(I, i) \in 1..Len(to) /\ Nth(I, j) \in 1..Len(to)
    BY <1>3, <1>5
  <2>2. Nth(I, i) - 1 \in 1..Len(to) /\ to[Nth(I, i) - 1].name = x
    BY <1>7, <1>9, <1>12, <2>1
  <2>3. to[Nth(I, j)].name = x
    BY <1>7, <1>9, <2>1
  <2>4. Nth(I, j) = Nth(I, i) - 1
    BY <2>1, <2>2, <2>3 DEF NamesDiffer
  <2>5. Nth(I, j) < Nth(I, i)
    BY <1>2, <2>1, <2>4
  <2>6. i < j => Nth(I, i) < Nth(I, j)
    BY <1>5
  <2>7. i # j /\ ~(i < j)
    BY <1>2, <2>1, <2>5, <2>6, SMTT(30)
  <2> QED BY <1>5, <2>7
<1>13. ASSUME NEW c \in ToSet(to), c.name \notin Names(from)
       PROVE  \E d \in ToSet(a) : d.col = c
  <2>1. PICK n \in I : to[n] = c
    BY <1>2, <1>4, <1>13
  <2>2. PICK k \in 1..C : Nth(I, k) = n
    BY <1>5
  <2>3. a[k] \in ToSet(a) /\ a[k].col = c
    BY <1>3, <1>7, <1>8, <1>9, <2>1, <2>2
  <2> QED BY <2>3
<1> QED BY <1>8, <1>10, <1>11, <1>12, <1>13 DEF a

----------------------------------------------------------------------------
(* Indexes                                                                 *)

AddsOf(U, x) == {c \in U : c.op = "AddIndex" /\ c.idx.name = x}

\* Clauses about the indexes of `from` and `to`: an index is only added under
\* a name in use if it is also dropped, on the same condition, and altered
\* only if it is not dropped for another reason than its place.
AboutIndexes(C, from, to) ==
    \A c \in C :
      /\ c.op = "DropIndex" => c.idx \in from
      /\ c.op = "AlterIndex" => c.idx \in from
      /\ c.op = "AddIndex" => c.idx \in to
      /\ c.op = "AddIndex" /\ (\E i \in from : i.name = c.idx.name) =>
           \E d \in C : /\ d.op = "DropIndex" /\ d.idx.name = c.idx.name
                        /\ d.reorderOnly = c.reorderOnly
      /\ c.op = "AlterIndex" =>
           \A d \in C : d.op = "DropIndex" /\ d.idx.name = c.idx.name =>
                           d.reorderOnly /\ c.alsoReordering

LEMMA IndexClausesAtFacts ==
    ASSUME NEW from, NEW to, NEW n, NEW U
    PROVE  LET s == IndexClausesAt(from, to, n)
           IN  /\ IsSeq(s)
               /\ \A c \in ToSet(s) : /\ c.op \in {"DropIndex", "AddIndex", "AlterIndex"}
                                      /\ c.idx.name = to[n].name
               /\ AboutIndexes(ToSet(s), ToSet(from), {to[n]})
               /\ \A x : Once(s, AddsOf(U, x))
<1> DEFINE s == IndexClausesAt(from, to, n)
           new == to[n]
           old == ByName(from, new.name)
           reorder == ReorderIndexes(from, to, n)
           a == AddIndex(new, FALSE)
           d == DropIndex(old, FALSE)
           ra == AddIndex(new, TRUE)
           rd == DropIndex(old, TRUE)
           al == AlterIndex(old, new.hidden, reorder)
           s1 == IF old.hidden # new.hidden THEN <<al>> ELSE <<>>
           s2 == IF reorder THEN <<rd, ra>> ELSE <<>>
<1>1. /\ a.op = "AddIndex" /\ a.idx = new /\ a.reorderOnly = FALSE
      /\ ra.op = "AddIndex" /\ ra.idx = new /\ ra.reorderOnly = TRUE
      /\ d.op = "DropIndex" /\ d.idx = old /\ d.reorderOnly = FALSE
      /\ rd.op = "DropIndex" /\ rd.idx = old /\ rd.reorderOnly = TRUE
      /\ al.op = "AlterIndex" /\ al.idx = old /\ al.alsoReordering = reorder
  BY DEF AddIndex, DropIndex, AlterIndex
<1>2. new.name \in Names(from) => old \in ToSet(from) /\ old.name = new.name
  BY ByNameFacts
<1>3. new.name \in Names(from) <=> \E i \in ToSet(from) : i.name = new.name
  BY DEF Names
<1>4. \/ new.name \notin Names(from) /\ s = <<a>>
      \/ new.name \in Names(from) /\ s = <<d, a>>
      \/ new.name \in Names(from) /\ s = s1 \o s2
  BY DEF IndexClausesAt
<1>5. reorder \in BOOLEAN
  BY DEF ReorderIndexes
<1>6. ASSUME NEW x, NEW y, y.op # "AddIndex", NEW z, NEW X, \A c \in X : c.op = "AddIndex"
      PROVE  Once(<<z>>, X) /\ Once(<<y, z>>, X)
  <2>1. Len(<<z>>) = 1 /\ Len(<<y, z>>) = 2 /\ <<y, z>>[1] = y /\ <<y, z>>[2] = z
    OBVIOUS
  <2>2. Once(<<z>>, X)
    BY <2>1 DEF Once
  <2>3. \A i \in 1..Len(<<y, z>>) : <<y, z>>[i] \in X => i = 2
    <3>1. y \notin X
      BY <1>6
    <3> QED BY <2>1, <3>1
  <2> QED BY <2>2, <2>3 DEF Once
<1>7. \A x : \A c \in AddsOf(U, x) : c.op = "AddIndex"
  BY DEF AddsOf
<1> HIDE DEF s, a, d, ra, rd, al, new, old, reorder
<1>8. CASE new.name \notin Names(from) /\ s = <<a>>
  <2>1. IsSeq(s) /\ ToSet(s) = {a}
    BY <1>8, SingletonFacts
  <2>2. ASSUME NEW x PROVE Once(s, AddsOf(U, x))
    <3>1. rd.op # "AddIndex"
      BY <1>1
    <3> QED BY <1>6, <1>7, <1>8, <3>1
  <2>3. AboutIndexes(ToSet(s), ToSet(from), {new})
    BY <1>1, <1>3, <1>8, <2>1 DEF AboutIndexes
  <2> QED BY <1>1, <1>2, <2>1, <2>2, <2>3 DEF s, new
<1>9. CASE new.name \in Names(from) /\ s = <<d, a>>
  <2>1. IsSeq(s) /\ ToSet(s) = {d, a}
    BY <1>9, PairFacts
  <2>2. ASSUME NEW x PROVE Once(s, AddsOf(U, x))
    <3>1. d.op # "AddIndex"
      BY <1>1
    <3> QED BY <1>6, <1>7, <1>9, <3>1
  <2>3. AboutIndexes(ToSet(s), ToSet(from), {new})
    BY <1>1, <1>2, <1>9, <2>1 DEF AboutIndexes
  <2> QED BY <1>1, <1>2, <1>9, <2>1, <2>2, <2>3 DEF s, new
<1>10. CASE new.name \in Names(from) /\ s = s1 \o s2
  <2>1. IsSeq(s1) /\ ToSet(s1) \subseteq {al}
    BY SingletonFacts, EmptyFacts
  <2>2. IsSeq(s2) /\ ToSet(s2) = IF reorder THEN {rd, ra} ELSE {}
    BY PairFacts, EmptyFacts
  <2>3. ASSUME NEW x PROVE Once(s, AddsOf(U, x))
    <3>1. ToSet(s1) \cap AddsOf(U, x) = {}
      BY <1>1, <1>7, <2>1
    <3>2. Once(s1, AddsOf(U, x))
      BY <2>1, <3>1, WithoutIt
    <3>3. Once(s2, AddsOf(U, x))
      <4>1. CASE reorder
        <5>1. rd.op # "AddIndex"
          BY <1>1
        <5> QED BY <1>6, <1>7, <4>1, <5>1
      <4>2. CASE ~reorder
        <5>1. ToSet(s2) \cap AddsOf(U, x) = {}
          BY <2>2, <4>2
        <5> HIDE DEF s2
        <5> QED BY <2>2, <5>1, WithoutIt
      <4> QED BY <4>1, <4>2
    <3> HIDE DEF s1, s2
    <3> QED BY <1>10, <2>1, <2>2, <3>1, <3>2, <3>3, OnceConcat
  <2> HIDE DEF s1, s2
  <2>4. IsSeq(s) /\ ToSet(s) = ToSet(s1) \cup ToSet(s2)
    BY <1>10, <2>1, <2>2, ConcatFacts
  <2>5. ToSet(s) \subseteq {al, rd, ra} /\ (rd \in ToSet(s) <=> ra \in ToSet(s))
                                        /\ (rd \in ToSet(s) => reorder)
    <3>1. al # rd /\ al # ra
      BY <1>1
    <3>2. CASE reorder
      BY <2>1, <2>2, <2>4, <3>2
    <3>3. CASE ~reorder
      BY <2>1, <2>2, <2>4, <3>1, <3>3
    <3> QED BY <1>5, <3>2, <3>3
  <2>6. AboutIndexes(ToSet(s), ToSet(from), {new})
    <3> SUFFICES ASSUME NEW c \in ToSet(s)
                 PROVE  /\ c.op = "DropIndex" => c.idx \in ToSet(from)
                        /\ c.op = "AlterIndex" => c.idx \in ToSet(from)
                        /\ c.op = "AddIndex" => c.idx \in {new}
                        /\ c.op = "AddIndex" => \E e \in ToSet(s) :
                              e.op = "DropIndex" /\ e.idx.name = c.idx.name /\ e.reorderOnly = c.reorderOnly
                        /\ c.op = "AlterIndex" =>
                             \A e \in ToSet(s) : e.op = "DropIndex" /\ e.idx.name = c.idx.name =>
                                             e.reorderOnly /\ c.alsoReordering
      BY DEF AboutIndexes
    <3>1. CASE c = al
      BY <1>1, <1>2, <1>10, <2>5, <3>1
    <3>2. CASE c = rd
      BY <1>1, <1>2, <1>10, <2>5, <3>2
    <3>3. CASE c = ra
      <4>1. rd \in ToSet(s)
        BY <2>5, <3>3
      <4>2. rd.op = "DropIndex" /\ rd.idx.name = c.idx.name /\ rd.reorderOnly = c.reorderOnly
        BY <1>1, <1>2, <1>10, <3>3
      <4> QED BY <1>1, <3>3, <4>1, <4>2
    <3> QED BY <2>5, <3>1, <3>2, <3>3
  <2>7. \A c \in ToSet(s) : c.op \in {"DropIndex", "AddIndex", "AlterIndex"} /\ c.idx.name = new.name
    BY <1>1, <1>2, <1>10, <2>5
  <2> QED BY <2>3, <2>4, <2>6, <2>7 DEF s, new
<1> QED BY <1>4, <1>8, <1>9, <1>10

IndexOps == {"DropIndex", "AddIndex", "AlterIndex"}

LEMMA IndexClausesFacts ==
    ASSUME NEW from, IsSeq(from), NEW to, IsSeq(to), NamesDiffer(to), NEW U
    PROVE  LET s == IndexClauses(from, to)
           IN  /\ IsSeq(s)
               /\ \A c \in ToSet(s) : c.op \in IndexOps /\ c.idx.name \in Names(from) \cup Names(to)
               /\ AboutIndexes(ToSet(s), ToSet(from), ToSet(to))
               /\ \A x : Once(s, AddsOf(U, x))
<1> DEFINE s == IndexClauses(from, to)
           I == {n \in 1..Len(from) : from[n].name \notin Names(to)}
           p == Pick(from, I)
           d == [n \in DOMAIN p |-> DropIndex(p[n], FALSE)]
           at == [n \in DOMAIN to |-> IndexClausesAt(from, to, n)]
           f == FlattenSeq(at)
<1>1. s = d \o f
  BY DEF IndexClauses, Filter
<1>2. /\ Len(to) \in Nat /\ DOMAIN to = 1..Len(to) /\ ToSet(to) = {to[n] : n \in 1..Len(to)}
  BY SeqFacts
<1>3. IsSeq(d) /\ \A c \in ToSet(d) : /\ c.op = "DropIndex" /\ c.idx \in ToSet(from)
                                      /\ c.idx.name \notin Names(to)
  <2>1. I \subseteq 1..Len(from)
    OBVIOUS
  <2>2. IsSeq(p) /\ ToSet(p) = {from[n] : n \in I}
    <3> HIDE DEF I
    <3> QED BY <2>1, PickFacts, ZenonT(40)
  <2>3. ToSet(from) = {from[n] : n \in 1..Len(from)}
    BY SeqFacts
  <2>4. \A x \in ToSet(p) : x \in ToSet(from) /\ x.name \notin Names(to)
    BY <2>2, <2>3
  <2> HIDE DEF p, s
  <2>5. Len(p) \in Nat /\ DOMAIN p = 1..Len(p) /\ \A n \in 1..Len(p) : p[n] \in ToSet(p)
    BY <2>2, SeqFacts
  <2>6. d = [n \in 1..Len(p) |-> d[n]] /\ \A n \in 1..Len(p) : d[n] = DropIndex(p[n], FALSE)
    BY <2>5
  <2> HIDE DEF d
  <2>7. IsSeq(d) /\ Len(d) = Len(p)
    BY <2>5, <2>6, FunctionIsSeq
  <2>8. ToSet(d) = {d[n] : n \in 1..Len(p)}
    BY <2>7, SeqFacts
  <2>9. \A n \in 1..Len(p) : d[n].op = "DropIndex" /\ d[n].idx = p[n]
    BY <2>6 DEF DropIndex
  <2> QED BY <2>4, <2>5, <2>7, <2>8, <2>9
<1>4. IsSeq(at) /\ Len(at) = Len(to) /\ \A n \in 1..Len(to) : at[n] = IndexClausesAt(from, to, n)
  <2>1. at = [n \in 1..Len(to) |-> at[n]] /\ \A n \in 1..Len(to) : at[n] = IndexClausesAt(from, to, n)
    BY <1>2
  <2> HIDE DEF at
  <2> QED BY <1>2, <2>1, FunctionIsSeq
<1> HIDE DEF d, at, s
<1>5. ASSUME NEW n \in 1..Len(to)
      PROVE  /\ IsSeq(at[n])
             /\ \A c \in ToSet(at[n]) : c.op \in IndexOps /\ c.idx.name = to[n].name
             /\ AboutIndexes(ToSet(at[n]), ToSet(from), {to[n]})
             /\ \A x : Once(at[n], AddsOf(U, x))
  <2> DEFINE t == IndexClausesAt(from, to, n)
  <2>1. /\ IsSeq(t)
        /\ \A c \in ToSet(t) : c.op \in IndexOps /\ c.idx.name = to[n].name
        /\ AboutIndexes(ToSet(t), ToSet(from), {to[n]})
        /\ \A x : Once(t, AddsOf(U, x))
    BY IndexClausesAtFacts, Zenon DEF IndexOps
  <2>2. at[n] = t
    BY <1>4
  <2> HIDE DEF t
  <2> QED BY <2>1, <2>2
<1>6. IsSeq(f) /\ ToSet(f) = UNION {ToSet(at[n]) : n \in 1..Len(to)}
  BY <1>4, <1>5, FlattenFacts
<1>7. \A m, n \in 1..Len(to) : to[m].name = to[n].name => m = n
  BY DEF NamesDiffer
<1>8. ASSUME NEW x PROVE Once(f, AddsOf(U, x))
  <2>1. ASSUME NEW m \in 1..Len(to), ToSet(at[m]) \cap AddsOf(U, x) # {}
        PROVE  to[m].name = x
    BY <1>5, <2>1 DEF AddsOf
  <2>2. \A m, n \in 1..Len(at) :
           ToSet(at[m]) \cap AddsOf(U, x) # {} /\ ToSet(at[n]) \cap AddsOf(U, x) # {} => m = n
    BY <1>4, <1>7, <2>1
  <2>3. \A n \in 1..Len(at) : Once(at[n], AddsOf(U, x)) /\ IsSeq(at[n])
    BY <1>4, <1>5
  <2> QED BY <1>4, <2>2, <2>3, OnceFlatten
<1> HIDE DEF f
<1>9. IsSeq(s) /\ ToSet(s) = ToSet(d) \cup ToSet(f)
  BY <1>1, <1>3, <1>6, ConcatFacts
<1>10. ASSUME NEW x PROVE Once(s, AddsOf(U, x))
  <2>1. ToSet(d) \cap AddsOf(U, x) = {}
    BY <1>3 DEF AddsOf
  <2>2. Once(d, AddsOf(U, x))
    BY <1>3, <2>1, WithoutIt
  <2> QED BY <1>1, <1>3, <1>6, <1>8, <2>1, <2>2, OnceConcat
<1>11. \A n \in 1..Len(to) : to[n].name \in Names(to) /\ to[n] \in ToSet(to)
  BY <1>2 DEF Names
<1>12. \A i \in ToSet(from) : i.name \in Names(from)
  BY DEF Names
<1>13. \A c \in ToSet(s) : c.op \in IndexOps /\ c.idx.name \in Names(from) \cup Names(to)
  <2>1. \A c \in ToSet(d) : c.op \in IndexOps /\ c.idx.name \in Names(from) \cup Names(to)
    BY <1>3, <1>12 DEF IndexOps
  <2>2. ASSUME NEW c \in ToSet(f)
        PROVE  c.op \in IndexOps /\ c.idx.name \in Names(from) \cup Names(to)
    <3>1. PICK n \in 1..Len(to) : c \in ToSet(at[n])
      BY <1>6
    <3>2. c.op \in IndexOps /\ c.idx.name = to[n].name
      BY <1>5, <3>1
    <3> QED BY <1>11, <3>2
  <2> QED BY <1>9, <2>1, <2>2
<1>14. ASSUME NEW c \in ToSet(f)
       PROVE  \E n \in 1..Len(to) :
                 /\ c \in ToSet(at[n]) /\ c.idx.name = to[n].name /\ ToSet(at[n]) \subseteq ToSet(s)
                 /\ \A e \in ToSet(s) : e.idx.name = c.idx.name => e \in ToSet(at[n])
  <2>1. PICK n \in 1..Len(to) : c \in ToSet(at[n])
    BY <1>6
  <2>2. c.idx.name = to[n].name /\ ToSet(at[n]) \subseteq ToSet(s)
    BY <1>5, <1>6, <1>9, <2>1
  <2>3. ASSUME NEW e \in ToSet(s), e.idx.name = c.idx.name
        PROVE  e \in ToSet(at[n])
    <3>1. e \notin ToSet(d)
      BY <1>3, <1>11, <2>2, <2>3
    <3>2. PICK m \in 1..Len(to) : e \in ToSet(at[m])
      BY <1>6, <1>9, <3>1
    <3>3. m = n
      BY <1>5, <1>7, <2>2, <2>3, <3>2
    <3> QED BY <3>2, <3>3
  <2> QED BY <2>1, <2>2, <2>3
<1>15. AboutIndexes(ToSet(s), ToSet(from), ToSet(to))
  <2> DEFINE S == ToSet(s)
             F == ToSet(from)
  <2> SUFFICES ASSUME NEW c \in S
               PROVE  /\ c.op = "DropIndex" => c.idx \in F
                      /\ c.op = "AlterIndex" => c.idx \in F
                      /\ c.op = "AddIndex" => c.idx \in ToSet(to)
                      /\ c.op = "AddIndex" /\ (\E i \in F : i.name = c.idx.name) =>
                           \E e \in S : /\ e.op = "DropIndex" /\ e.idx.name = c.idx.name
                                        /\ e.reorderOnly = c.reorderOnly
                      /\ c.op = "AlterIndex" =>
                           \A e \in S : e.op = "DropIndex" /\ e.idx.name = c.idx.name =>
                                           e.reorderOnly /\ c.alsoReordering
    BY DEF AboutIndexes
  <2>1. CASE c \in ToSet(d)
    BY <1>3, <2>1
  <2>2. CASE c \in ToSet(f)
    <3>1. PICK n \in 1..Len(to) :
             /\ c \in ToSet(at[n]) /\ c.idx.name = to[n].name /\ ToSet(at[n]) \subseteq S
             /\ \A e \in S : e.idx.name = c.idx.name => e \in ToSet(at[n])
      BY <1>14, <2>2
    <3>2. AboutIndexes(ToSet(at[n]), F, {to[n]})
      BY <1>5
    <3> HIDE DEF S, F
    <3>3. /\ c.op = "DropIndex" => c.idx \in F
          /\ c.op = "AlterIndex" => c.idx \in F
          /\ c.op = "AddIndex" => c.idx = to[n]
      BY <3>1, <3>2 DEF AboutIndexes
    <3>4. c.op = "AddIndex" /\ (\E i \in F : i.name = c.idx.name) =>
            \E e \in ToSet(at[n]) : /\ e.op = "DropIndex" /\ e.idx.name = c.idx.name
                                    /\ e.reorderOnly = c.reorderOnly
      BY <3>1, <3>2 DEF AboutIndexes
    <3>5. c.op = "AlterIndex" =>
            \A e \in ToSet(at[n]) : e.op = "DropIndex" /\ e.idx.name = c.idx.name =>
                                       e.reorderOnly /\ c.alsoReordering
      BY <3>1, <3>2 DEF AboutIndexes
    <3> QED BY <1>11, <3>1, <3>3, <3>4, <3>5
  <2> QED BY <1>9, <2>1, <2>2
<1> QED BY <1>9, <1>10, <1>13, <1>15 DEF s

AllIndexes(t) == ToSet(t.idxs) \cup (IF t.pk = "" THEN {} ELSE {PrimaryKey(t.pk)})

LEMMA PrimaryKeyFacts ==
    ASSUME NEW from, NEW to, NEW U
    PROVE  LET s == PrimaryKeyClauses(from, to)
               key(k) == IF k = "" THEN {} ELSE {PrimaryKey(k)}
           IN  /\ IsSeq(s)
               /\ \A c \in ToSet(s) : c.op \in IndexOps /\ c.idx.name = "PRIMARY"
               /\ AboutIndexes(ToSet(s), key(from), key(to))
               /\ \A x : Once(s, AddsOf(U, x))
<1> DEFINE s == PrimaryKeyClauses(from, to)
           key(k) == IF k = "" THEN {} ELSE {PrimaryKey(k)}
           d == DropIndex(PrimaryKey(from), FALSE)
           a == AddIndex(PrimaryKey(to), FALSE)
           s1 == IF from \notin {to, ""} THEN <<d>> ELSE <<>>
           s2 == IF to \notin {from, ""} THEN <<a>> ELSE <<>>
<1>1. s = s1 \o s2
  BY DEF PrimaryKeyClauses
<1>2. /\ d.op = "DropIndex" /\ d.idx = PrimaryKey(from) /\ d.reorderOnly = FALSE
      /\ a.op = "AddIndex" /\ a.idx = PrimaryKey(to) /\ a.reorderOnly = FALSE
  BY DEF DropIndex, AddIndex
<1>3. \A k : PrimaryKey(k).name = "PRIMARY"
  BY DEF PrimaryKey
<1> HIDE DEF d, a
<1>4. IsSeq(s1) /\ ToSet(s1) = IF from \notin {to, ""} THEN {d} ELSE {}
  BY SingletonFacts, EmptyFacts
<1>5. IsSeq(s2) /\ ToSet(s2) = IF to \notin {from, ""} THEN {a} ELSE {}
  BY SingletonFacts, EmptyFacts
<1>6. Len(s2) \in {0, 1}
  BY SingletonFacts, EmptyFacts
<1> HIDE DEF s1, s2, s
<1>7. IsSeq(s) /\ ToSet(s) = ToSet(s1) \cup ToSet(s2)
  BY <1>1, <1>4, <1>5, ConcatFacts
<1>8. ASSUME NEW x PROVE Once(s, AddsOf(U, x))
  <2>1. ToSet(s1) \cap AddsOf(U, x) = {}
    BY <1>2, <1>4 DEF AddsOf
  <2>2. Once(s1, AddsOf(U, x))
    BY <1>4, <2>1, WithoutIt
  <2>3. Once(s2, AddsOf(U, x))
    BY <1>6 DEF Once
  <2> QED BY <1>1, <1>4, <1>5, <2>1, <2>2, <2>3, OnceConcat
<1>9. AboutIndexes(ToSet(s), key(from), key(to))
  <2>4. d # a
    BY <1>2
  <2>1. ASSUME NEW c \in ToSet(s), c = d
        PROVE  c.op = "DropIndex" /\ c.idx \in key(from)
    <3>1. d \in ToSet(s1)
      <4>1. ToSet(s2) \subseteq {a}
        BY <1>5
      <4> QED BY <1>7, <2>1, <2>4, <4>1
    <3>2. from # ""
      BY <1>4, <3>1
    <3> QED BY <1>2, <2>1, <3>2
  <2>2. ASSUME NEW c \in ToSet(s), c = a
        PROVE  /\ c.op = "AddIndex" /\ c.idx \in key(to)
               /\ key(from) # {} => \E e \in ToSet(s) :
                     e.op = "DropIndex" /\ e.idx.name = c.idx.name /\ e.reorderOnly = c.reorderOnly
    <3>5. a \in ToSet(s2)
      BY <1>4, <1>7, <2>2, <2>4
    <3>1. to \notin {from, ""}
      BY <1>5, <3>5
    <3>2. key(from) # {} => d \in ToSet(s)
      BY <1>4, <1>7, <3>1
    <3>3. c.op = "AddIndex" /\ c.idx \in key(to)
      BY <1>2, <2>2, <3>1
    <3>4. d.op = "DropIndex" /\ d.idx.name = c.idx.name /\ d.reorderOnly = c.reorderOnly
      BY <1>2, <1>3, <2>2
    <3> HIDE DEF key
    <3> QED BY <3>2, <3>3, <3>4
  <2>3. \A c \in ToSet(s) : c = d \/ c = a
    <3>1. ToSet(s1) \subseteq {d} /\ ToSet(s2) \subseteq {a}
      BY <1>4, <1>5
    <3> QED BY <1>7, <3>1
  <2> HIDE DEF key
  <2> QED BY <2>1, <2>2, <2>3 DEF AboutIndexes
<1>10. \A c \in ToSet(s) : c.op \in IndexOps /\ c.idx.name = "PRIMARY"
  BY <1>2, <1>3, <1>4, <1>5, <1>7 DEF IndexOps
<1> QED BY <1>7, <1>8, <1>9, <1>10 DEF s

----------------------------------------------------------------------------
(* Foreign keys                                                            *)

AboutForeignKeys(C, from) ==
    \A c \in C :
      /\ c.op = "DropForeignKey" => c.fk \in from
      /\ c.op = "AddForeignKey" /\ c.fk.name \in FkNames(from) =>
           \E d \in C : /\ d.op = "DropForeignKey" /\ d.fk.name = c.fk.name
                        /\ d.cosmeticOnly = c.cosmeticOnly

ForeignKeyOps == {"DropForeignKey", "AddForeignKey"}

LEMMA ForeignKeyFacts ==
    ASSUME NEW from, NEW to, NEW toOrder, IsSeq(toOrder), NEW fromOrder, IsSeq(fromOrder)
    PROVE  LET s == ForeignKeyClauses(from, to, toOrder, fromOrder)
           IN  /\ IsSeq(s) /\ \A c \in ToSet(s) : c.op \in ForeignKeyOps
               /\ AboutForeignKeys(ToSet(s), from)
<1> DEFINE s == ForeignKeyClauses(from, to, toOrder, fromOrder)
           named(fks, x) == CHOOSE f \in fks : f.name = x
           names(fks) == {f.name : f \in fks}
           I == {n \in 1..Len(toOrder) : toOrder[n] \in names(to) \ names(from)}
           J == {n \in 1..Len(fromOrder) : fromOrder[n] \in names(from) /\ named(from, fromOrder[n]) \notin to}
           new == Pick(toOrder, I)
           old == Pick(fromOrder, J)
           same(x) == EquivalentForeignKeys(named(from, x), named(to, x))
           clauses(x) ==
             IF x \notin names(to)
               THEN <<DropForeignKey(named(from, x), fkChangeCosmeticOnly(named(from, x), to))>>
               ELSE <<DropForeignKey(named(from, x), same(x)), AddForeignKey(named(to, x), same(x))>>
           a == [n \in DOMAIN new |->
                   AddForeignKey(named(to, new[n]), fkChangeCosmeticOnly(named(to, new[n]), from))]
           at == [n \in DOMAIN old |-> clauses(old[n])]
           f == FlattenSeq(at)
<1>1. s = a \o f
  BY DEF ForeignKeyClauses, Filter
<1>2. \A fks : \A x \in names(fks) : named(fks, x) \in fks /\ named(fks, x).name = x
  OBVIOUS
<1>3. \A x \in names(from) : x \in FkNames(from)
  BY DEF FkNames
<1>4. \A x : x \notin names(from) => x \notin FkNames(from)
  BY DEF FkNames
<1> HIDE DEF named, same, names
<1>5. IsSeq(new) /\ \A x \in ToSet(new) : x \in names(to) \ names(from)
  <2>1. I \subseteq 1..Len(toOrder)
    OBVIOUS
  <2>2. \A n \in I : toOrder[n] \in names(to) \ names(from)
    OBVIOUS
  <2> HIDE DEF I
  <2>3. IsSeq(new) /\ ToSet(new) = {toOrder[n] : n \in I}
    BY <2>1, PickFacts
  <2> QED BY <2>2, <2>3
<1>6. IsSeq(old) /\ \A x \in ToSet(old) : x \in names(from)
  <2>1. J \subseteq 1..Len(fromOrder)
    OBVIOUS
  <2>2. \A n \in J : fromOrder[n] \in names(from)
    OBVIOUS
  <2> HIDE DEF J
  <2>3. IsSeq(old) /\ ToSet(old) = {fromOrder[n] : n \in J}
    BY <2>1, PickFacts
  <2> QED BY <2>2, <2>3
<1> HIDE DEF new, old, s
<1>7. IsSeq(a) /\ \A c \in ToSet(a) : c.op = "AddForeignKey" /\ c.fk.name \notin FkNames(from)
  <2>1. Len(new) \in Nat /\ DOMAIN new = 1..Len(new) /\ \A n \in 1..Len(new) : new[n] \in ToSet(new)
    BY <1>5, SeqFacts
  <2>2. /\ a = [n \in 1..Len(new) |-> a[n]]
        /\ \A n \in 1..Len(new) :
             a[n] = AddForeignKey(named(to, new[n]), fkChangeCosmeticOnly(named(to, new[n]), from))
    BY <2>1
  <2> HIDE DEF a
  <2>3. IsSeq(a) /\ Len(a) = Len(new)
    BY <2>1, <2>2, FunctionIsSeq
  <2>4. ToSet(a) = {a[n] : n \in 1..Len(new)}
    BY <2>3, SeqFacts
  <2>5. \A n \in 1..Len(new) : a[n].op = "AddForeignKey" /\ a[n].fk = named(to, new[n])
    BY <2>2 DEF AddForeignKey
  <2>6. \A n \in 1..Len(new) : named(to, new[n]).name \notin FkNames(from)
    BY <1>2, <1>4, <1>5, <2>1
  <2> QED BY <2>3, <2>4, <2>5, <2>6
<1>8. ASSUME NEW x \in names(from)
      PROVE  /\ IsSeq(clauses(x)) /\ \A c \in ToSet(clauses(x)) : c.op \in ForeignKeyOps
             /\ AboutForeignKeys(ToSet(clauses(x)), from)
  <2> DEFINE d1 == DropForeignKey(named(from, x), fkChangeCosmeticOnly(named(from, x), to))
             d2 == DropForeignKey(named(from, x), same(x))
             a2 == AddForeignKey(named(to, x), same(x))
  <2>1. /\ d1.op = "DropForeignKey" /\ d1.fk = named(from, x)
        /\ d2.op = "DropForeignKey" /\ d2.fk = named(from, x) /\ d2.cosmeticOnly = same(x)
        /\ a2.op = "AddForeignKey" /\ a2.fk = named(to, x) /\ a2.cosmeticOnly = same(x)
    BY DEF DropForeignKey, AddForeignKey
  <2>2. clauses(x) = IF x \notin names(to) THEN <<d1>> ELSE <<d2, a2>>
    OBVIOUS
  <2> HIDE DEF d1, d2, a2, clauses
  <2>3. CASE x \notin names(to)
    <3>1. IsSeq(clauses(x)) /\ ToSet(clauses(x)) = {d1}
      BY <2>2, <2>3, SingletonFacts
    <3> QED BY <1>2, <2>1, <3>1 DEF ForeignKeyOps, AboutForeignKeys
  <2>4. CASE x \in names(to)
    <3>1. IsSeq(clauses(x)) /\ ToSet(clauses(x)) = {d2, a2}
      BY <2>2, <2>4, PairFacts
    <3>2. d2.fk \in from /\ d2.fk.name = a2.fk.name
      BY <1>2, <2>1, <2>4
    <3> QED BY <2>1, <3>1, <3>2 DEF ForeignKeyOps, AboutForeignKeys
  <2> QED BY <2>3, <2>4
<1> HIDE DEF clauses, a
<1>9. IsSeq(at) /\ \A n \in 1..Len(at) : \E x \in names(from) : at[n] = clauses(x)
  <2>1. Len(old) \in Nat /\ DOMAIN old = 1..Len(old) /\ \A n \in 1..Len(old) : old[n] \in ToSet(old)
    BY <1>6, SeqFacts
  <2>2. at = [n \in 1..Len(old) |-> at[n]] /\ \A n \in 1..Len(old) : at[n] = clauses(old[n])
    BY <2>1
  <2> HIDE DEF at
  <2>3. IsSeq(at) /\ Len(at) = Len(old)
    BY <2>1, <2>2, FunctionIsSeq
  <2> QED BY <1>6, <2>1, <2>2, <2>3
<1> HIDE DEF at
<1>10. \A n \in 1..Len(at) : /\ IsSeq(at[n]) /\ \A c \in ToSet(at[n]) : c.op \in ForeignKeyOps
                             /\ AboutForeignKeys(ToSet(at[n]), from)
  BY <1>8, <1>9
<1>11. IsSeq(f) /\ ToSet(f) = UNION {ToSet(at[n]) : n \in 1..Len(at)}
  BY <1>9, <1>10, FlattenFacts
<1> HIDE DEF f
<1>12. IsSeq(s) /\ ToSet(s) = ToSet(a) \cup ToSet(f)
  BY <1>1, <1>7, <1>11, ConcatFacts
<1>13. ASSUME NEW c \in ToSet(s)
       PROVE  /\ c.op \in ForeignKeyOps
              /\ c.op = "DropForeignKey" => c.fk \in from
              /\ c.op = "AddForeignKey" /\ c.fk.name \in FkNames(from) =>
                   \E d \in ToSet(s) : /\ d.op = "DropForeignKey" /\ d.fk.name = c.fk.name
                                       /\ d.cosmeticOnly = c.cosmeticOnly
  <2>1. CASE c \in ToSet(a)
    BY <1>7, <2>1 DEF ForeignKeyOps
  <2>2. CASE c \in ToSet(f)
    <3>1. PICK n \in 1..Len(at) : c \in ToSet(at[n])
      BY <1>11, <2>2
    <3>2. ToSet(at[n]) \subseteq ToSet(s)
      BY <1>11, <1>12
    <3>3. c.op \in ForeignKeyOps
      BY <1>10, <3>1
    <3>4. /\ c.op = "DropForeignKey" => c.fk \in from
          /\ c.op = "AddForeignKey" /\ c.fk.name \in FkNames(from) =>
               \E d \in ToSet(at[n]) : /\ d.op = "DropForeignKey" /\ d.fk.name = c.fk.name
                                       /\ d.cosmeticOnly = c.cosmeticOnly
      BY <1>10, <3>1 DEF AboutForeignKeys
    <3> QED BY <3>2, <3>3, <3>4
  <2> QED BY <1>12, <2>1, <2>2
<1>14. AboutForeignKeys(ToSet(s), from)
  BY <1>13 DEF AboutForeignKeys
<1> QED BY <1>12, <1>13, <1>14 DEF s

----------------------------------------------------------------------------
(* Check constraints                                                       *)

AboutChecks(C, from) ==
    \A c \in C :
      /\ c.op \in {"DropCheck", "AlterCheck"} => c.check \in from
      /\ c.op = "AddCheck" /\ (\E k \in from : k.name = c.check.name) =>
           \E d \in C : /\ d.op = "DropCheck" /\ d.check.name = c.check.name
                        /\ d.reorderOnly = c.reorderOnly

CheckOps == {"DropCheck", "AddCheck", "AlterCheck"}

LEMMA CheckClausesAtFacts ==
    ASSUME NEW from, NEW to, NEW n
    PROVE  LET s == CheckClausesAt(from, to, n)
           IN  /\ IsSeq(s) /\ \A c \in ToSet(s) : c.op \in CheckOps
               /\ AboutChecks(ToSet(s), ToSet(from))
<1> DEFINE s == CheckClausesAt(from, to, n)
           new == to[n]
           old == ByName(from, new.name)
           a == AddCheck(new, FALSE)
           d == DropCheck(old, FALSE)
           ra == AddCheck(new, TRUE)
           rd == DropCheck(old, TRUE)
           al == AlterCheck(old, new.enforced)
<1>1. /\ a.op = "AddCheck" /\ a.check = new /\ a.reorderOnly = FALSE
      /\ ra.op = "AddCheck" /\ ra.check = new /\ ra.reorderOnly = TRUE
      /\ d.op = "DropCheck" /\ d.check = old /\ d.reorderOnly = FALSE
      /\ rd.op = "DropCheck" /\ rd.check = old /\ rd.reorderOnly = TRUE
      /\ al.op = "AlterCheck" /\ al.check = old
  BY DEF AddCheck, DropCheck, AlterCheck
<1>2. new.name \in Names(from) => old \in ToSet(from) /\ old.name = new.name
  BY ByNameFacts
<1>3. new.name \in Names(from) <=> \E i \in ToSet(from) : i.name = new.name
  BY DEF Names
<1>4. \/ new.name \notin Names(from) /\ s = <<a>>
      \/ new.name \in Names(from) /\ (s = <<d, a>> \/ s = <<al>> \/ s = <<rd, ra>> \/ s = <<>>)
  BY DEF CheckClausesAt
<1> HIDE DEF s, a, d, ra, rd, al, new, old
<1>5. /\ IsSeq(s)
      /\ \/ new.name \notin Names(from) /\ ToSet(s) = {a}
         \/ /\ new.name \in Names(from)
            /\ ToSet(s) = {d, a} \/ ToSet(s) = {al} \/ ToSet(s) = {rd, ra} \/ ToSet(s) = {}
  BY <1>4, SingletonFacts, PairFacts, EmptyFacts
<1>6. \A c \in ToSet(s) : c.op \in CheckOps
  BY <1>1, <1>5 DEF CheckOps
<1>7. AboutChecks(ToSet(s), ToSet(from))
  <2>1. CASE new.name \notin Names(from) /\ ToSet(s) = {a}
    BY <1>1, <1>3, <2>1 DEF AboutChecks
  <2>2. CASE new.name \in Names(from) /\ ToSet(s) = {d, a}
    BY <1>1, <1>2, <2>2 DEF AboutChecks
  <2>3. CASE new.name \in Names(from) /\ ToSet(s) = {al}
    BY <1>1, <1>2, <2>3 DEF AboutChecks
  <2>4. CASE new.name \in Names(from) /\ ToSet(s) = {rd, ra}
    BY <1>1, <1>2, <2>4 DEF AboutChecks
  <2>5. CASE ToSet(s) = {}
    BY <2>5 DEF AboutChecks
  <2> QED BY <1>5, <2>1, <2>2, <2>3, <2>4, <2>5
<1> QED BY <1>5, <1>6, <1>7 DEF s

LEMMA CheckClausesFacts ==
    ASSUME NEW from, IsSeq(from), NEW to, IsSeq(to)
    PROVE  LET s == CheckClauses(from, to)
           IN  /\ IsSeq(s) /\ \A c \in ToSet(s) : c.op \in CheckOps
               /\ AboutChecks(ToSet(s), ToSet(from))
<1> DEFINE s == CheckClauses(from, to)
           I == {n \in 1..Len(from) : from[n].name \notin Names(to)}
           p == Pick(from, I)
           d == [n \in DOMAIN p |-> DropCheck(p[n], FALSE)]
           at == [n \in DOMAIN to |-> CheckClausesAt(from, to, n)]
           f == FlattenSeq(at)
<1>1. s = d \o f
  BY DEF CheckClauses, Filter
<1>2. Len(to) \in Nat /\ DOMAIN to = 1..Len(to)
  BY SeqFacts
<1>3. IsSeq(d) /\ \A c \in ToSet(d) : c.op = "DropCheck" /\ c.check \in ToSet(from)
  <2>1. I \subseteq 1..Len(from)
    OBVIOUS
  <2>2. IsSeq(p) /\ ToSet(p) = {from[n] : n \in I}
    <3> HIDE DEF I
    <3> QED BY <2>1, PickFacts
  <2>3. ToSet(p) \subseteq ToSet(from)
    BY <2>1, <2>2, SeqFacts
  <2> HIDE DEF p, s
  <2>4. Len(p) \in Nat /\ DOMAIN p = 1..Len(p) /\ \A n \in 1..Len(p) : p[n] \in ToSet(p)
    BY <2>2, SeqFacts
  <2>5. d = [n \in 1..Len(p) |-> d[n]] /\ \A n \in 1..Len(p) : d[n] = DropCheck(p[n], FALSE)
    BY <2>4
  <2> HIDE DEF d
  <2>6. IsSeq(d) /\ Len(d) = Len(p)
    BY <2>4, <2>5, FunctionIsSeq
  <2>7. ToSet(d) = {d[n] : n \in 1..Len(p)}
    BY <2>6, SeqFacts
  <2>8. \A n \in 1..Len(p) : d[n].op = "DropCheck" /\ d[n].check = p[n]
    BY <2>5 DEF DropCheck
  <2> QED BY <2>3, <2>4, <2>6, <2>7, <2>8
<1>4. IsSeq(at) /\ \A n \in 1..Len(at) : at[n] = CheckClausesAt(from, to, n)
  <2>1. at = [n \in 1..Len(to) |-> at[n]] /\ \A n \in 1..Len(to) : at[n] = CheckClausesAt(from, to, n)
    BY <1>2
  <2> HIDE DEF at
  <2> QED BY <1>2, <2>1, FunctionIsSeq
<1> HIDE DEF d, at, s
<1>5. ASSUME NEW n \in 1..Len(at)
      PROVE  /\ IsSeq(at[n]) /\ \A c \in ToSet(at[n]) : c.op \in CheckOps
             /\ AboutChecks(ToSet(at[n]), ToSet(from))
  <2> DEFINE t == CheckClausesAt(from, to, n)
  <2>1. /\ IsSeq(t) /\ \A c \in ToSet(t) : c.op \in CheckOps
        /\ AboutChecks(ToSet(t), ToSet(from))
    BY CheckClausesAtFacts, Zenon
  <2>2. at[n] = t
    BY <1>4
  <2> HIDE DEF t
  <2> QED BY <2>1, <2>2
<1>6. IsSeq(f) /\ ToSet(f) = UNION {ToSet(at[n]) : n \in 1..Len(at)}
  BY <1>4, <1>5, FlattenFacts
<1> HIDE DEF f
<1>7. IsSeq(s) /\ ToSet(s) = ToSet(d) \cup ToSet(f)
  BY <1>1, <1>3, <1>6, ConcatFacts
<1>8. ASSUME NEW c \in ToSet(s)
       PROVE  /\ c.op \in CheckOps
              /\ c.op \in {"DropCheck", "AlterCheck"} => c.check \in ToSet(from)
              /\ c.op = "AddCheck" /\ (\E k \in ToSet(from) : k.name = c.check.name) =>
                   \E e \in ToSet(s) : /\ e.op = "DropCheck" /\ e.check.name = c.check.name
                                       /\ e.reorderOnly = c.reorderOnly
  <2>1. CASE c \in ToSet(d)
    BY <1>3, <2>1 DEF CheckOps
  <2>2. CASE c \in ToSet(f)
    <3>1. PICK n \in 1..Len(at) : c \in ToSet(at[n])
      BY <1>6, <2>2
    <3>2. ToSet(at[n]) \subseteq ToSet(s)
      BY <1>6, <1>7
    <3>3. c.op \in CheckOps
      BY <1>5, <3>1
    <3>4. /\ c.op \in {"DropCheck", "AlterCheck"} => c.check \in ToSet(from)
          /\ c.op = "AddCheck" /\ (\E k \in ToSet(from) : k.name = c.check.name) =>
               \E e \in ToSet(at[n]) : /\ e.op = "DropCheck" /\ e.check.name = c.check.name
                                       /\ e.reorderOnly = c.reorderOnly
      BY <1>5, <3>1 DEF AboutChecks
    <3> QED BY <3>2, <3>3, <3>4
  <2> QED BY <1>7, <2>1, <2>2
<1>9. AboutChecks(ToSet(s), ToSet(from))
  BY <1>8 DEF AboutChecks
<1> QED BY <1>7, <1>8, <1>9 DEF s

----------------------------------------------------------------------------
(* Attributes and partitioning                                             *)

LEMMA AttributeFacts ==
    ASSUME NEW from, NEW to, NEW attrs, IsSeq(attrs)
    PROVE  LET s == AttributeClauses(from, to, attrs)
           IN  /\ IsSeq(s)
               /\ \A c \in ToSet(s) : /\ c.op = "ChangeAttr" /\ c.attr \in ToSet(attrs)
                                      /\ c.old = from[c.attr] /\ c.new = to[c.attr]
<1> DEFINE s == AttributeClauses(from, to, attrs)
           I == {n \in 1..Len(attrs) : /\ from[attrs[n]] # to[attrs[n]]
                                       /\ attrs[n] = "autoinc" => to[attrs[n]] # 0}
           p == Pick(attrs, I)
<1>1. s = [n \in DOMAIN p |-> ChangeAttr(p[n], from[p[n]], to[p[n]])]
  BY DEF AttributeClauses, Filter
<1>2. I \subseteq 1..Len(attrs)
  OBVIOUS
<1>3. IsSeq(p) /\ ToSet(p) = {attrs[n] : n \in I}
  <2> HIDE DEF I
  <2> QED BY <1>2, PickFacts, ZenonT(40)
<1>4. ToSet(p) \subseteq ToSet(attrs)
  BY <1>2, <1>3, SeqFacts
<1> HIDE DEF p, s
<1>5. Len(p) \in Nat /\ DOMAIN p = 1..Len(p) /\ \A n \in 1..Len(p) : p[n] \in ToSet(p)
  BY <1>3, SeqFacts
<1>6. s = [n \in 1..Len(p) |-> s[n]] /\ \A n \in 1..Len(p) : s[n] = ChangeAttr(p[n], from[p[n]], to[p[n]])
  BY <1>1, <1>5
<1>7. IsSeq(s) /\ Len(s) = Len(p)
  BY <1>5, <1>6, FunctionIsSeq
<1>8. ToSet(s) = {s[n] : n \in 1..Len(p)}
  BY <1>7, SeqFacts
<1>9. \A n \in 1..Len(p) : /\ s[n].op = "ChangeAttr" /\ s[n].attr = p[n]
                           /\ s[n].old = from[p[n]] /\ s[n].new = to[p[n]]
  BY <1>6 DEF ChangeAttr
<1>10. ASSUME NEW c \in ToSet(s)
       PROVE  /\ c.op = "ChangeAttr" /\ c.attr \in ToSet(attrs)
              /\ c.old = from[c.attr] /\ c.new = to[c.attr]
  <2>1. PICK n \in 1..Len(p) : c = s[n]
    BY <1>8
  <2> QED BY <1>4, <1>5, <1>9, <2>1
<1> QED BY <1>7, <1>10 DEF s

PartitionOps == {"PartitionBy", "RemovePartitioning", "ModifyPartitions"}

LEMMA PartitionFacts ==
    ASSUME NEW from, NEW to
    PROVE  LET s == PartitionClauses(from, to)
           IN  /\ IsSeq(s) /\ \A c \in ToSet(s) : c.op \in PartitionOps
               /\ \A c \in ToSet(s) : c.op = "PartitionBy" => c.rePartition \/ from.method = ""
<1> DEFINE s == PartitionClauses(from, to)
           p == PartitionBy(to, FALSE)
           q == PartitionBy(to, TRUE)
<1>1. /\ p.op = "PartitionBy" /\ q.op = "PartitionBy" /\ q.rePartition
      /\ RemovePartitioning.op = "RemovePartitioning" /\ ModifyPartitions.op = "ModifyPartitions"
  BY DEF PartitionBy, RemovePartitioning, ModifyPartitions
<1>2. \/ s = <<>> \/ (s = <<p>> /\ from.method = "") \/ s = <<q>>
      \/ s = <<RemovePartitioning>> \/ s = <<ModifyPartitions>>
  BY DEF PartitionClauses
<1> HIDE DEF p, q, s
<1>3. /\ IsSeq(s)
      /\ \/ ToSet(s) = {} \/ (ToSet(s) = {p} /\ from.method = "") \/ ToSet(s) = {q}
         \/ ToSet(s) = {RemovePartitioning} \/ ToSet(s) = {ModifyPartitions}
  BY <1>2, SingletonFacts, EmptyFacts
<1>4. \A c \in ToSet(s) : c.op \in PartitionOps
  BY <1>1, <1>3 DEF PartitionOps
<1>5. \A c \in ToSet(s) : c.op = "PartitionBy" => c.rePartition \/ from.method = ""
  BY <1>1, <1>3
<1> QED BY <1>3, <1>4, <1>5 DEF s

----------------------------------------------------------------------------
(* The whole diff                                                          *)

Ordered(s, U) ==
    /\ \A x : Once(s, Places(U, x))
    /\ \A x : x \notin {Unpositioned, First} => Precedes(s, Places(U, x), PlacesAfter(U, x))
    /\ \A x : Once(s, AddsOf(U, x))

LEMMA OrderedPlain ==
    ASSUME NEW s, IsSeq(s), NEW U,
           \A c \in ToSet(s) : c.op \notin {"AddColumn", "ModifyColumn", "AddIndex"}
    PROVE  Ordered(s, U)
<1>1. ASSUME NEW x
      PROVE  /\ ToSet(s) \cap Places(U, x) = {} /\ ToSet(s) \cap PlacesAfter(U, x) = {}
             /\ ToSet(s) \cap AddsOf(U, x) = {}
  BY DEF Places, PlacesAfter, AddsOf, Placing
<1> QED BY <1>1, WithoutIt DEF Ordered

LEMMA OrderedConcat ==
    ASSUME NEW s, IsSeq(s), NEW t, IsSeq(t), NEW U, Ordered(s, U), Ordered(t, U),
           (\A c \in ToSet(s) : ~Placing(c)) \/ (\A c \in ToSet(t) : ~Placing(c)),
           \A c \in ToSet(s), d \in ToSet(t) :
              c.op = "AddIndex" /\ d.op = "AddIndex" => c.idx.name # d.idx.name
    PROVE  Ordered(s \o t, U)
<1>1. ASSUME NEW x
      PROVE  Once(s \o t, Places(U, x))
  <2>1. ToSet(s) \cap Places(U, x) = {} \/ ToSet(t) \cap Places(U, x) = {}
    BY DEF Places
  <2>2. Once(s, Places(U, x)) /\ Once(t, Places(U, x))
    BY DEF Ordered
  <2> QED BY <2>1, <2>2, OnceConcat
<1>2. ASSUME NEW x, x \notin {Unpositioned, First}
      PROVE  Precedes(s \o t, Places(U, x), PlacesAfter(U, x))
  <2>1. ToSet(s) \cap PlacesAfter(U, x) = {} \/ ToSet(t) \cap Places(U, x) = {}
    BY DEF Places, PlacesAfter
  <2>2. /\ Precedes(s, Places(U, x), PlacesAfter(U, x))
        /\ Precedes(t, Places(U, x), PlacesAfter(U, x))
    BY <1>2 DEF Ordered
  <2> QED BY <2>1, <2>2, PrecedesConcat
<1>3. ASSUME NEW x
      PROVE  Once(s \o t, AddsOf(U, x))
  <2>1. ToSet(s) \cap AddsOf(U, x) = {} \/ ToSet(t) \cap AddsOf(U, x) = {}
    BY DEF AddsOf
  <2>2. Once(s, AddsOf(U, x)) /\ Once(t, AddsOf(U, x))
    BY DEF Ordered
  <2> QED BY <2>1, <2>2, OnceConcat
<1> QED BY <1>1, <1>2, <1>3 DEF Ordered

ColumnOps == {"DropColumn", "ModifyColumn", "AddColumn"}

\* Clauses about the columns of `from` and `to`.
AboutColumns(C, from, to) ==
    /\ \A c \in C :
         /\ c.op = "DropColumn" => c.col \in ToSet(from) /\ c.col.name \notin Names(to)
         /\ c.op = "ModifyColumn" =>
              /\ c.col \in ToSet(to) /\ c.old \in ToSet(from) /\ c.old.name = c.col.name
              /\ c.pos \notin {Unpositioned, First} => c.pos \in Names(from) \cap Names(to)
         /\ c.op = "AddColumn" =>
              /\ c.col \in ToSet(to) /\ c.col.name \notin Names(from)
              /\ c.pos \notin {Unpositioned, First} => c.pos \in Names(to)
    /\ \A c \in ToSet(to) : c.name \notin Names(from) =>
         \E d \in C : d.op = "AddColumn" /\ d.col = c

LEMMA ColumnClausesFacts ==
    ASSUME NEW from, IsSeq(from), NEW to, IsSeq(to), NamesDiffer(to), NEW U
    PROVE  LET s == ColumnClauses(from, to)
           IN  /\ IsSeq(s) /\ \A c \in ToSet(s) : c.op \in ColumnOps
               /\ AboutColumns(ToSet(s), from, to)
               /\ Moves(ToSet(s)) = Moves(ToSet(columnModifications(from, to)))
               /\ Ordered(s, U)
<1> DEFINE d == columnDrops(from, to)
           m == columnModifications(from, to)
           a == columnAdds(from, to)
           s == ColumnClauses(from, to)
<1>1. s = (d \o m) \o a
  BY DEF ColumnClauses
<1>2. /\ IsSeq(d)
      /\ \A c \in ToSet(d) : c.op = "DropColumn" /\ c.col \in ToSet(from) /\ c.col.name \notin Names(to)
  BY ColumnDropFacts, Zenon
<1>3. /\ IsSeq(m)
      /\ \A c \in ToSet(m) :
           /\ c.op = "ModifyColumn" /\ c.col \in ToSet(to) /\ c.old \in ToSet(from)
           /\ c.old.name = c.col.name
           /\ c.pos \notin {Unpositioned, First} => c.pos \in Names(from) \cap Names(to)
      /\ \A x : Once(m, Places(U, x))
      /\ \A x : x \notin {Unpositioned, First} => Precedes(m, Places(U, x), PlacesAfter(U, x))
  BY ColumnModificationFacts, Zenon
<1>4. /\ IsSeq(a)
      /\ \A c \in ToSet(a) :
           /\ c.op = "AddColumn" /\ c.col \in ToSet(to) /\ c.col.name \notin Names(from)
           /\ c.pos \notin {Unpositioned, First} => c.pos \in Names(to)
      /\ \A c \in ToSet(to) : c.name \notin Names(from) => \E e \in ToSet(a) : e.col = c
      /\ \A x : Once(a, Places(U, x))
      /\ \A x : x \notin {Unpositioned, First} => Precedes(a, Places(U, x), PlacesAfter(U, x))
  BY ColumnAddFacts, Zenon
<1> HIDE DEF d, m, a, s
<1>5. IsSeq(d \o m) /\ ToSet(d \o m) = ToSet(d) \cup ToSet(m)
  BY <1>2, <1>3, ConcatFacts
<1>6. IsSeq(s) /\ ToSet(s) = ToSet(d) \cup ToSet(m) \cup ToSet(a)
  BY <1>1, <1>4, <1>5, ConcatFacts
<1>7. \A c \in ToSet(s) : c.op \in ColumnOps
  BY <1>2, <1>3, <1>4, <1>6 DEF ColumnOps
<1>8. AboutColumns(ToSet(s), from, to)
  <2>1. ASSUME NEW c \in ToSet(s)
        PROVE  /\ c.op = "DropColumn" => c.col \in ToSet(from) /\ c.col.name \notin Names(to)
               /\ c.op = "ModifyColumn" =>
                    /\ c.col \in ToSet(to) /\ c.old \in ToSet(from) /\ c.old.name = c.col.name
                    /\ c.pos \notin {Unpositioned, First} => c.pos \in Names(from) \cap Names(to)
               /\ c.op = "AddColumn" =>
                    /\ c.col \in ToSet(to) /\ c.col.name \notin Names(from)
                    /\ c.pos \notin {Unpositioned, First} => c.pos \in Names(to)
    <3>1. CASE c \in ToSet(d)
      BY <1>2, <3>1
    <3>2. CASE c \in ToSet(m)
      BY <1>3, <3>2
    <3>3. CASE c \in ToSet(a)
      BY <1>4, <3>3
    <3> QED BY <1>6, <3>1, <3>2, <3>3
  <2>2. ASSUME NEW c \in ToSet(to), c.name \notin Names(from)
        PROVE  \E e \in ToSet(s) : e.op = "AddColumn" /\ e.col = c
    <3>1. PICK e \in ToSet(a) : e.col = c
      BY <1>4, <2>2
    <3> QED BY <1>4, <1>6, <3>1
  <2> QED BY <2>1, <2>2 DEF AboutColumns
<1>9. Ordered(d, U)
  BY <1>2, OrderedPlain
<1>10. \A x : Once(m, AddsOf(U, x)) /\ Once(a, AddsOf(U, x))
  <2>1. \A x : ToSet(m) \cap AddsOf(U, x) = {} /\ ToSet(a) \cap AddsOf(U, x) = {}
    BY <1>3, <1>4 DEF AddsOf
  <2> QED BY <1>3, <1>4, <2>1, WithoutIt
<1>11. Ordered(m, U) /\ Ordered(a, U)
  BY <1>3, <1>4, <1>10 DEF Ordered
<1>12. Ordered(d \o m, U)
  <2>1. \A c \in ToSet(d) : ~Placing(c)
    BY <1>2 DEF Placing
  <2>2. \A c \in ToSet(d), e \in ToSet(m) : c.op = "AddIndex" /\ e.op = "AddIndex" => c.idx.name # e.idx.name
    BY <1>2
  <2> QED BY <1>2, <1>3, <1>9, <1>11, <2>1, <2>2, OrderedConcat
<1>13. Ordered(s, U)
  <2> DEFINE b == d \o m
  <2>1. \A x : Once(s, Places(U, x))
    <3> SUFFICES ASSUME NEW x PROVE Once(s, Places(U, x))
      OBVIOUS
    <3>1. Once(b, Places(U, x)) /\ Once(a, Places(U, x))
      BY <1>11, <1>12 DEF Ordered
    <3>2. ToSet(b) \cap Places(U, x) = {} \/ ToSet(a) \cap Places(U, x) = {}
      <4>1. CASE x \in Names(from)
        BY <1>4, <4>1 DEF Places
      <4>2. CASE x \notin Names(from)
        <5>1. ASSUME NEW c \in ToSet(b) PROVE c \notin Places(U, x)
          <6>1. c \in ToSet(d) => c \notin Places(U, x)
            BY <1>2 DEF Places, Placing
          <6>2. c \in ToSet(m) => c.col.name \in Names(from)
            BY <1>3 DEF Names
          <6>3. c \in ToSet(m) => c \notin Places(U, x)
            BY <4>2, <6>2 DEF Places
          <6> QED BY <1>5, <6>1, <6>3
        <5> QED BY <5>1
      <4> QED BY <4>1, <4>2
    <3> HIDE DEF b
    <3> QED BY <1>1, <1>4, <1>5, <3>1, <3>2, OnceConcat DEF b
  <2>2. ASSUME NEW x, x \notin {Unpositioned, First}
        PROVE  Precedes(s, Places(U, x), PlacesAfter(U, x))
    <3>1. Precedes(b, Places(U, x), PlacesAfter(U, x)) /\ Precedes(a, Places(U, x), PlacesAfter(U, x))
      BY <1>11, <1>12, <2>2 DEF Ordered
    <3>2. ToSet(b) \cap PlacesAfter(U, x) = {} \/ ToSet(a) \cap Places(U, x) = {}
      <4>1. CASE x \in Names(from)
        BY <1>4, <4>1 DEF Places
      <4>2. CASE x \notin Names(from)
        <5>1. ASSUME NEW c \in ToSet(b) PROVE c \notin PlacesAfter(U, x)
          <6>1. c \in ToSet(d) => c \notin PlacesAfter(U, x)
            BY <1>2 DEF PlacesAfter, Placing
          <6>2. c \in ToSet(m) => c \notin PlacesAfter(U, x)
            BY <1>3, <2>2, <4>2 DEF PlacesAfter
          <6> QED BY <1>5, <6>1, <6>2
        <5> QED BY <5>1
      <4> QED BY <4>1, <4>2
    <3> HIDE DEF b
    <3> QED BY <1>1, <1>4, <1>5, <3>1, <3>2, PrecedesConcat DEF b
  <2>3. \A x : Once(s, AddsOf(U, x))
    <3> SUFFICES ASSUME NEW x PROVE Once(s, AddsOf(U, x))
      OBVIOUS
    <3>1. ToSet(s) \cap AddsOf(U, x) = {}
      BY <1>7 DEF AddsOf, ColumnOps
    <3> QED BY <1>6, <3>1, WithoutIt
  <2> QED BY <2>1, <2>2, <2>3 DEF Ordered
<1>14. Moves(ToSet(s)) = Moves(ToSet(m))
  BY <1>2, <1>4, <1>6 DEF Moves
<1> QED BY <1>6, <1>7, <1>8, <1>13, <1>14 DEF s, m

\* Changes of attributes and of the partitioning.
AboutTable(C, from, to) ==
    \A c \in C :
      /\ c.op = "ChangeAttr" => /\ c.attr \in {"charset", "engine", "autoinc", "options",
                                               "comment", "tablespace"}
                                /\ c.old = from.attrs[c.attr] /\ c.new = to.attrs[c.attr]
      /\ c.op = "PartitionBy" => c.rePartition \/ from.part.method = ""

ClauseOps == ColumnOps \cup IndexOps \cup ForeignKeyOps \cup CheckOps \cup PartitionOps \cup {"ChangeAttr"}

\* What is known of the clauses D of a diff.
DiffOf(D, from, to) ==
    /\ IsSeq(D) /\ \A c \in ToSet(D) : c.op \in ClauseOps
    /\ AboutColumns(ToSet(D), from.cols, to.cols)
    /\ Moves(ToSet(D)) = Moves(ToSet(columnModifications(from.cols, to.cols)))
    /\ AboutIndexes(ToSet(D), AllIndexes(from), AllIndexes(to))
    /\ AboutForeignKeys(ToSet(D), from.fks)
    /\ AboutChecks(ToSet(D), ToSet(from.checks))
    /\ AboutTable(ToSet(D), from, to)
    /\ Ordered(D, ToSet(D))

\* The desired table.
Desired(t) ==
    /\ Wf(t) /\ t.cols # <<>>
    /\ NamesDiffer(t.cols) /\ NamesDiffer(t.idxs)
    /\ \A i \in ToSet(t.idxs) : i.kind # "primary"

LEMMA IndexesTogether ==
    ASSUME NEW A, NEW B, NEW F1, NEW F2, NEW T1, NEW T2,
           AboutIndexes(A, F1, T1), AboutIndexes(B, F2, T2),
           \A c \in A : c.op \in IndexOps /\ c.idx.name = "PRIMARY",
           \A c \in B : c.op \in IndexOps /\ c.idx.name # "PRIMARY",
           \A i \in F1 : i.name = "PRIMARY", \A i \in F2 : i.name # "PRIMARY"
    PROVE  AboutIndexes(A \cup B, F2 \cup F1, T2 \cup T1)
<1> DEFINE C == A \cup B
           F == F2 \cup F1
<1> SUFFICES ASSUME NEW c \in C
             PROVE  /\ c.op = "DropIndex" => c.idx \in F
                    /\ c.op = "AlterIndex" => c.idx \in F
                    /\ c.op = "AddIndex" => c.idx \in T2 \cup T1
                    /\ c.op = "AddIndex" /\ (\E i \in F : i.name = c.idx.name) =>
                         \E d \in C : /\ d.op = "DropIndex" /\ d.idx.name = c.idx.name
                                      /\ d.reorderOnly = c.reorderOnly
                    /\ c.op = "AlterIndex" =>
                         \A d \in C : d.op = "DropIndex" /\ d.idx.name = c.idx.name =>
                                         d.reorderOnly /\ c.alsoReordering
  BY DEF AboutIndexes
<1>1. CASE c \in A
  <2>1. /\ c.op = "DropIndex" => c.idx \in F1
        /\ c.op = "AlterIndex" => c.idx \in F1
        /\ c.op = "AddIndex" => c.idx \in T1
    BY <1>1 DEF AboutIndexes
  <2>2. c.op = "AddIndex" /\ (\E i \in F1 : i.name = c.idx.name) =>
          \E d \in A : /\ d.op = "DropIndex" /\ d.idx.name = c.idx.name
                       /\ d.reorderOnly = c.reorderOnly
    BY <1>1 DEF AboutIndexes
  <2>3. (\E i \in F : i.name = c.idx.name) => \E i \in F1 : i.name = c.idx.name
    BY <1>1
  <2>4. c.op = "AlterIndex" =>
          \A d \in A : d.op = "DropIndex" /\ d.idx.name = c.idx.name =>
                          d.reorderOnly /\ c.alsoReordering
    BY <1>1 DEF AboutIndexes
  <2>5. \A d \in C : d.idx.name = c.idx.name => d \in A
    BY <1>1
  <2> QED BY <2>1, <2>2, <2>3, <2>4, <2>5
<1>2. CASE c \in B
  <2>1. /\ c.op = "DropIndex" => c.idx \in F2
        /\ c.op = "AlterIndex" => c.idx \in F2
        /\ c.op = "AddIndex" => c.idx \in T2
    BY <1>2 DEF AboutIndexes
  <2>2. c.op = "AddIndex" /\ (\E i \in F2 : i.name = c.idx.name) =>
          \E d \in B : /\ d.op = "DropIndex" /\ d.idx.name = c.idx.name
                       /\ d.reorderOnly = c.reorderOnly
    BY <1>2 DEF AboutIndexes
  <2>3. (\E i \in F : i.name = c.idx.name) => \E i \in F2 : i.name = c.idx.name
    BY <1>2
  <2>4. c.op = "AlterIndex" =>
          \A d \in B : d.op = "DropIndex" /\ d.idx.name = c.idx.name =>
                          d.reorderOnly /\ c.alsoReordering
    BY <1>2 DEF AboutIndexes
  <2>5. \A d \in C : d.idx.name = c.idx.name => d \in B
    BY <1>2
  <2> QED BY <2>1, <2>2, <2>3, <2>4, <2>5
<1> QED BY <1>1, <1>2

\* t has the clauses about columns that s has, in the same order.
Wraps(t, s) ==
    /\ ToSet(s) \subseteq ToSet(t) /\ \A c \in ToSet(t) : c.op \in ColumnOps => c \in ToSet(s)
    /\ \A i, j \in 1..Len(t) : i < j /\ t[i].op \in ColumnOps /\ t[j].op \in ColumnOps =>
          \E k, l \in 1..Len(s) : k < l /\ s[k] = t[i] /\ s[l] = t[j]

LEMMA WrapsAhead ==
    ASSUME NEW r, IsSeq(r), \A c \in ToSet(r) : c.op \notin ColumnOps, NEW s, IsSeq(s)
    PROVE  Wraps(r \o s, s)
<1> DEFINE t == r \o s
<1>1. /\ ToSet(t) = ToSet(r) \cup ToSet(s) /\ Len(t) = Len(r) + Len(s) /\ Len(r) \in Nat /\ Len(s) \in Nat
      /\ \A i \in 1..Len(t) : t[i] = IF i <= Len(r) THEN r[i] ELSE s[i - Len(r)]
      /\ \A i \in 1..Len(r) : r[i] \in ToSet(r)
  BY ConcatFacts, SeqFacts
<1> HIDE DEF t
<1>2. ASSUME NEW i \in 1..Len(t), t[i].op \in ColumnOps
      PROVE  i - Len(r) \in 1..Len(s) /\ t[i] = s[i - Len(r)]
  <2>1. ~(i <= Len(r))
    BY <1>1, <1>2
  <2> QED BY <1>1, <2>1
<1>3. ASSUME NEW i \in 1..Len(t), NEW j \in 1..Len(t), i < j, t[i].op \in ColumnOps, t[j].op \in ColumnOps
      PROVE  \E k, l \in 1..Len(s) : k < l /\ s[k] = t[i] /\ s[l] = t[j]
  <2>1. i - Len(r) < j - Len(r)
    BY <1>1, <1>3
  <2> QED BY <1>2, <1>3, <2>1
<1> QED BY <1>1, <1>3 DEF Wraps, t

LEMMA WrapsBehind ==
    ASSUME NEW s, NEW t, IsSeq(t), Wraps(t, s), NEW r, IsSeq(r), \A c \in ToSet(r) : c.op \notin ColumnOps
    PROVE  Wraps(t \o r, s)
<1> DEFINE u == t \o r
<1>1. /\ ToSet(u) = ToSet(t) \cup ToSet(r) /\ Len(u) = Len(t) + Len(r) /\ Len(r) \in Nat /\ Len(t) \in Nat
      /\ \A i \in 1..Len(u) : u[i] = IF i <= Len(t) THEN t[i] ELSE r[i - Len(t)]
      /\ \A i \in 1..Len(r) : r[i] \in ToSet(r)
  BY ConcatFacts, SeqFacts
<1> HIDE DEF u
<1>2. ASSUME NEW i \in 1..Len(u), u[i].op \in ColumnOps
      PROVE  i \in 1..Len(t) /\ u[i] = t[i]
  <2>1. i <= Len(t) \/ i - Len(t) \in 1..Len(r)
    BY <1>1
  <2>2. i <= Len(t)
    BY <1>1, <1>2, <2>1
  <2> QED BY <1>1, <2>2
<1>3. ASSUME NEW i \in 1..Len(u), NEW j \in 1..Len(u), i < j, u[i].op \in ColumnOps, u[j].op \in ColumnOps
      PROVE  \E k, l \in 1..Len(s) : k < l /\ s[k] = u[i] /\ s[l] = u[j]
  BY <1>2, <1>3 DEF Wraps
<1>4. ToSet(s) \subseteq ToSet(u) /\ \A c \in ToSet(u) : c.op \in ColumnOps => c \in ToSet(s)
  BY <1>1 DEF Wraps
<1> QED BY <1>3, <1>4 DEF Wraps, u

LEMMA DiffFacts ==
    ASSUME NEW from, Wf(from), NEW to, Desired(to),
           NEW toOrder, IsSeq(toOrder), NEW fromOrder, IsSeq(fromOrder)
    PROVE  /\ DiffOf(DiffClauses(from, to, toOrder, fromOrder), from, to)
           /\ Wraps(DiffClauses(from, to, toOrder, fromOrder), ColumnClauses(from.cols, to.cols))
<1> DEFINE D == DiffClauses(from, to, toOrder, fromOrder)
           U == ToSet(D)
           l == <<"engine", "autoinc", "options", "comment", "tablespace">>
           s1 == AttributeClauses(from.attrs, to.attrs, <<"charset">>)
           s2 == ColumnClauses(from.cols, to.cols)
           s3 == PrimaryKeyClauses(from.pk, to.pk)
           s4 == IndexClauses(from.idxs, to.idxs)
           s5 == ForeignKeyClauses(from.fks, to.fks, toOrder, fromOrder)
           s6 == CheckClauses(from.checks, to.checks)
           s7 == AttributeClauses(from.attrs, to.attrs, l)
           s8 == PartitionClauses(from.part, to.part)
           key(k) == IF k = "" THEN {} ELSE {PrimaryKey(k)}
<1>1. D = ((((((s1 \o s2) \o s3) \o s4) \o s5) \o s6) \o s7) \o s8
  BY DEF DiffClauses
<1>2. /\ IsSeq(from.cols) /\ IsSeq(from.idxs) /\ IsSeq(from.checks)
      /\ IsSeq(to.cols) /\ IsSeq(to.idxs) /\ IsSeq(to.checks)
      /\ NamesDiffer(to.cols) /\ NamesDiffer(to.idxs)
  BY DEF Wf, Desired
<1>3. /\ \A i \in ToSet(from.idxs) : i.name # "PRIMARY"
      /\ \A i \in ToSet(to.idxs) : i.name # "PRIMARY"
  BY DEF Wf, Desired
<1>4. IsSeq(<<"charset">>) /\ ToSet(<<"charset">>) = {"charset"}
  BY SingletonFacts
<1>5. IsSeq(l) /\ ToSet(l) \subseteq {"engine", "autoinc", "options", "comment", "tablespace"}
  <2>1. l \in Seq({"engine", "autoinc", "options", "comment", "tablespace"})
    OBVIOUS
  <2> HIDE DEF l
  <2> QED BY <2>1, IsSeqOf
<1> HIDE DEF l, U
<1>6. IsSeq(s1) /\ \A c \in ToSet(s1) : /\ c.op = "ChangeAttr" /\ c.attr \in ToSet(<<"charset">>)
                                        /\ c.old = from.attrs[c.attr] /\ c.new = to.attrs[c.attr]
  <2> DEFINE g == from.attrs
             h == to.attrs
             k == <<"charset">>
  <2>1. IsSeq(k)
    BY <1>4
  <2> HIDE DEF g, h, k
  <2>2. /\ IsSeq(AttributeClauses(g, h, k))
        /\ \A c \in ToSet(AttributeClauses(g, h, k)) : /\ c.op = "ChangeAttr" /\ c.attr \in ToSet(k)
                                                       /\ c.old = g[c.attr] /\ c.new = h[c.attr]
    BY <2>1, AttributeFacts
  <2> QED BY <2>2, Zenon DEF g, h, k
<1>7. /\ IsSeq(s2) /\ \A c \in ToSet(s2) : c.op \in ColumnOps
      /\ AboutColumns(ToSet(s2), from.cols, to.cols) /\ Ordered(s2, U)
      /\ Moves(ToSet(s2)) = Moves(ToSet(columnModifications(from.cols, to.cols)))
  BY <1>2, ColumnClausesFacts, Zenon
<1>8. /\ IsSeq(s3) /\ \A c \in ToSet(s3) : c.op \in IndexOps /\ c.idx.name = "PRIMARY"
      /\ AboutIndexes(ToSet(s3), key(from.pk), key(to.pk))
      /\ \A x : Once(s3, AddsOf(U, x))
  BY PrimaryKeyFacts, Zenon
<1>9. /\ IsSeq(s4)
      /\ \A c \in ToSet(s4) : c.op \in IndexOps /\ c.idx.name \in Names(from.idxs) \cup Names(to.idxs)
      /\ AboutIndexes(ToSet(s4), ToSet(from.idxs), ToSet(to.idxs))
      /\ \A x : Once(s4, AddsOf(U, x))
  BY <1>2, IndexClausesFacts, Zenon
<1>10. /\ IsSeq(s5) /\ \A c \in ToSet(s5) : c.op \in ForeignKeyOps
       /\ AboutForeignKeys(ToSet(s5), from.fks)
  BY ForeignKeyFacts, Zenon
<1>11. /\ IsSeq(s6) /\ \A c \in ToSet(s6) : c.op \in CheckOps
       /\ AboutChecks(ToSet(s6), ToSet(from.checks))
  BY <1>2, CheckClausesFacts, Zenon
<1>12. IsSeq(s7) /\ \A c \in ToSet(s7) : /\ c.op = "ChangeAttr" /\ c.attr \in ToSet(l)
                                         /\ c.old = from.attrs[c.attr] /\ c.new = to.attrs[c.attr]
  <2> DEFINE g == from.attrs
             h == to.attrs
  <2> HIDE DEF g, h
  <2>1. /\ IsSeq(AttributeClauses(g, h, l))
        /\ \A c \in ToSet(AttributeClauses(g, h, l)) : /\ c.op = "ChangeAttr" /\ c.attr \in ToSet(l)
                                                       /\ c.old = g[c.attr] /\ c.new = h[c.attr]
    BY <1>5, AttributeFacts
  <2> QED BY <2>1, Zenon DEF g, h
<1>13. /\ IsSeq(s8) /\ \A c \in ToSet(s8) : c.op \in PartitionOps
       /\ \A c \in ToSet(s8) : c.op = "PartitionBy" => c.rePartition \/ from.part.method = ""
  BY PartitionFacts, Zenon
<1> HIDE DEF D, s1, s2, s3, s4, s5, s6, s7, s8
<1> DEFINE t2 == s1 \o s2
           t3 == t2 \o s3
           t4 == t3 \o s4
           t5 == t4 \o s5
           t6 == t5 \o s6
           t7 == t6 \o s7
<1>14. D = t7 \o s8
  BY <1>1
<1>15. IsSeq(t2) /\ ToSet(t2) = ToSet(s1) \cup ToSet(s2)
  BY <1>6, <1>7, ConcatFacts
<1>16. IsSeq(t3) /\ ToSet(t3) = ToSet(t2) \cup ToSet(s3)
  <2> HIDE DEF t2
  <2> QED BY <1>8, <1>15, ConcatFacts
<1>17. IsSeq(t4) /\ ToSet(t4) = ToSet(t3) \cup ToSet(s4)
  <2> HIDE DEF t3
  <2> QED BY <1>9, <1>16, ConcatFacts
<1>18. IsSeq(t5) /\ ToSet(t5) = ToSet(t4) \cup ToSet(s5)
  <2> HIDE DEF t4
  <2> QED BY <1>10, <1>17, ConcatFacts
<1>19. IsSeq(t6) /\ ToSet(t6) = ToSet(t5) \cup ToSet(s6)
  <2> HIDE DEF t5
  <2> QED BY <1>11, <1>18, ConcatFacts
<1>20. IsSeq(t7) /\ ToSet(t7) = ToSet(t6) \cup ToSet(s7)
  <2> HIDE DEF t6
  <2> QED BY <1>12, <1>19, ConcatFacts
<1>21. IsSeq(D) /\ U = ToSet(t7) \cup ToSet(s8)
  <2> HIDE DEF t7
  <2> QED BY <1>13, <1>14, <1>20, ConcatFacts DEF U
<1> HIDE DEF t2, t3, t4, t5, t6, t7
<1>22. U = ToSet(s1) \cup ToSet(s2) \cup ToSet(s3) \cup ToSet(s4)
           \cup ToSet(s5) \cup ToSet(s6) \cup ToSet(s7) \cup ToSet(s8)
  BY <1>15, <1>16, <1>17, <1>18, <1>19, <1>20, <1>21, Zenon
<1>23. /\ \A c \in ToSet(s1) \cup ToSet(s7) : c.op = "ChangeAttr"
       /\ \A c \in ToSet(s2) : c.op \in ColumnOps
       /\ \A c \in ToSet(s3) \cup ToSet(s4) : c.op \in IndexOps
       /\ \A c \in ToSet(s5) : c.op \in ForeignKeyOps
       /\ \A c \in ToSet(s6) : c.op \in CheckOps
       /\ \A c \in ToSet(s8) : c.op \in PartitionOps
  BY <1>6, <1>7, <1>8, <1>9, <1>10, <1>11, <1>12, <1>13
<1>24. \A c \in U : c.op \in ClauseOps
  BY <1>22, <1>23 DEF ClauseOps
<1>25. Ordered(D, U)
  <2>1. ASSUME NEW s, IsSeq(s), \A c \in ToSet(s) : c.op \notin {"AddColumn", "ModifyColumn", "AddIndex"}
        PROVE  Ordered(s, U)
    BY <2>1, OrderedPlain
  <2>2. Ordered(s1, U) /\ Ordered(s7, U)
    BY <1>6, <1>12, <2>1
  <2>3. Ordered(s5, U) /\ Ordered(s6, U) /\ Ordered(s8, U)
    BY <1>10, <1>11, <1>13, <2>1 DEF ForeignKeyOps, CheckOps, PartitionOps
  <2>4. ASSUME NEW s, IsSeq(s), \A c \in ToSet(s) : c.op \in IndexOps, \A x : Once(s, AddsOf(U, x))
        PROVE  Ordered(s, U)
    <3>1. \A x : ToSet(s) \cap Places(U, x) = {} /\ ToSet(s) \cap PlacesAfter(U, x) = {}
      BY <2>4 DEF Places, PlacesAfter, Placing, IndexOps
    <3>2. \A x : Once(s, Places(U, x)) /\ Precedes(s, Places(U, x), PlacesAfter(U, x))
      BY <2>4, <3>1, WithoutIt
    <3> QED BY <2>4, <3>2 DEF Ordered
  <2>5. Ordered(s3, U) /\ Ordered(s4, U)
    BY <1>8, <1>9, <2>4
  <2>6. \A c \in ToSet(s1) \cup ToSet(s3) \cup ToSet(s4) \cup ToSet(s5) \cup ToSet(s6) \cup ToSet(s7) \cup ToSet(s8) :
           ~Placing(c)
    BY <1>23 DEF Placing, IndexOps, ForeignKeyOps, CheckOps, PartitionOps
  <2>7. \A c \in ToSet(s1) \cup ToSet(s2) \cup ToSet(s5) \cup ToSet(s6) \cup ToSet(s7) \cup ToSet(s8) :
           c.op # "AddIndex"
    BY <1>23 DEF ColumnOps, ForeignKeyOps, CheckOps, PartitionOps
  <2>8. Ordered(t2, U)
    <3>1. \A c \in ToSet(s1) : ~Placing(c) /\ c.op # "AddIndex"
      BY <2>6, <2>7
    <3> QED BY <1>6, <1>7, <2>2, <3>1, OrderedConcat DEF t2
  <2>9. Ordered(t3, U)
    <3>1. \A c \in ToSet(s3) : ~Placing(c)
      BY <2>6
    <3>2. \A c \in ToSet(t2) : c.op # "AddIndex"
      BY <1>15, <2>7
    <3> QED BY <1>8, <1>15, <2>5, <2>8, <3>1, <3>2, OrderedConcat DEF t3
  <2>10. Ordered(t4, U)
    <3>1. \A c \in ToSet(s4) : ~Placing(c)
      BY <2>6
    <3>2. \A c \in ToSet(t3) : c.op = "AddIndex" => c.idx.name = "PRIMARY"
      BY <1>8, <1>15, <1>16, <2>7
    <3>3. \A c \in ToSet(s4) : c.idx.name # "PRIMARY"
      BY <1>3, <1>9 DEF Names
    <3> QED BY <1>9, <1>16, <2>5, <2>9, <3>1, <3>2, <3>3, OrderedConcat DEF t4
  <2>11. Ordered(t5, U)
    <3>1. \A c \in ToSet(s5) : ~Placing(c) /\ c.op # "AddIndex"
      BY <2>6, <2>7
    <3> QED BY <1>10, <1>17, <2>3, <2>10, <3>1, OrderedConcat DEF t5
  <2>12. Ordered(t6, U)
    <3>1. \A c \in ToSet(s6) : ~Placing(c) /\ c.op # "AddIndex"
      BY <2>6, <2>7
    <3> QED BY <1>11, <1>18, <2>3, <2>11, <3>1, OrderedConcat DEF t6
  <2>13. Ordered(t7, U)
    <3>1. \A c \in ToSet(s7) : ~Placing(c) /\ c.op # "AddIndex"
      BY <2>6, <2>7
    <3> QED BY <1>12, <1>19, <2>2, <2>12, <3>1, OrderedConcat DEF t7
  <2>14. \A c \in ToSet(s8) : ~Placing(c) /\ c.op # "AddIndex"
    BY <2>6, <2>7
  <2> QED BY <1>13, <1>14, <1>20, <2>3, <2>13, <2>14, OrderedConcat
<1>26. AboutColumns(U, from.cols, to.cols)
  <2>1. ToSet(s2) \subseteq U /\ \A c \in U : c.op \in ColumnOps => c \in ToSet(s2)
    BY <1>22, <1>23 DEF ColumnOps, IndexOps, ForeignKeyOps, CheckOps, PartitionOps
  <2>2. \A c \in U : c.op \in {"DropColumn", "ModifyColumn", "AddColumn"} => c \in ToSet(s2)
    BY <2>1 DEF ColumnOps
  <2> QED BY <1>7, <2>1, <2>2 DEF AboutColumns
<1>27. AboutForeignKeys(U, from.fks)
  <2>1. ToSet(s5) \subseteq U /\ \A c \in U : c.op \in {"DropForeignKey", "AddForeignKey"} => c \in ToSet(s5)
    BY <1>22, <1>23 DEF ColumnOps, IndexOps, CheckOps, PartitionOps
  <2> QED BY <1>10, <2>1 DEF AboutForeignKeys
<1>28. AboutChecks(U, ToSet(from.checks))
  <2>1. ToSet(s6) \subseteq U /\ \A c \in U : c.op \in {"DropCheck", "AddCheck", "AlterCheck"} => c \in ToSet(s6)
    BY <1>22, <1>23 DEF ColumnOps, IndexOps, ForeignKeyOps, PartitionOps
  <2> QED BY <1>11, <2>1 DEF AboutChecks
<1>29. AboutTable(U, from, to)
  <2> SUFFICES ASSUME NEW c \in U
               PROVE  /\ c.op = "ChangeAttr" => /\ c.attr \in {"charset", "engine", "autoinc", "options",
                                                               "comment", "tablespace"}
                                                /\ c.old = from.attrs[c.attr] /\ c.new = to.attrs[c.attr]
                      /\ c.op = "PartitionBy" => c.rePartition \/ from.part.method = ""
    BY DEF AboutTable
  <2>1. c.op = "ChangeAttr" => c \in ToSet(s1) \/ c \in ToSet(s7)
    BY <1>22, <1>23 DEF ColumnOps, IndexOps, ForeignKeyOps, CheckOps, PartitionOps
  <2>2. c.op = "PartitionBy" => c \in ToSet(s8)
    BY <1>22, <1>23 DEF ColumnOps, IndexOps, ForeignKeyOps, CheckOps
  <2>3. c \in ToSet(s1) => c.attr = "charset" /\ c.old = from.attrs[c.attr] /\ c.new = to.attrs[c.attr]
    BY <1>4, <1>6
  <2>4. c \in ToSet(s7) => /\ c.attr \in {"engine", "autoinc", "options", "comment", "tablespace"}
                           /\ c.old = from.attrs[c.attr] /\ c.new = to.attrs[c.attr]
    BY <1>5, <1>12
  <2>5. c \in ToSet(s8) => (c.op = "PartitionBy" => c.rePartition \/ from.part.method = "")
    BY <1>13
  <2> QED BY <2>1, <2>2, <2>3, <2>4, <2>5
<1>30. AboutIndexes(U, AllIndexes(from), AllIndexes(to))
  <2> DEFINE S == ToSet(s3) \cup ToSet(s4)
  <2>1. /\ \A i \in key(from.pk) : i.name = "PRIMARY"
        /\ \A c \in ToSet(s4) : c.idx.name # "PRIMARY"
    <3>1. \A i \in key(from.pk) : i.name = "PRIMARY"
      <4>1. PrimaryKey(from.pk).name = "PRIMARY"
        BY DEF PrimaryKey
      <4>2. key(from.pk) \subseteq {PrimaryKey(from.pk)}
        OBVIOUS
      <4> QED BY <4>1, <4>2
    <3>2. \A c \in ToSet(s4) : c.idx.name # "PRIMARY"
      BY <1>3, <1>9 DEF Names
    <3> QED BY <3>1, <3>2
  <2>2. AllIndexes(from) = ToSet(from.idxs) \cup key(from.pk)
        /\ AllIndexes(to) = ToSet(to.idxs) \cup key(to.pk)
    BY DEF AllIndexes
  <2> HIDE DEF key
  <2>3. AboutIndexes(S, AllIndexes(from), AllIndexes(to))
    BY <1>3, <1>8, <1>9, <2>1, <2>2, IndexesTogether
  <2>4. S \subseteq U /\ \A c \in U : c.op \in IndexOps => c \in S
    BY <1>22, <1>23 DEF ColumnOps, IndexOps, ForeignKeyOps, CheckOps, PartitionOps
  <2>5. \A c \in U : c.op \in {"DropIndex", "AddIndex", "AlterIndex"} => c \in S
    BY <2>4 DEF IndexOps
  <2> HIDE DEF S
  <2> QED BY <2>3, <2>4, <2>5 DEF AboutIndexes
<1>31. Moves(U) = Moves(ToSet(s2))
  <2>1. ToSet(s2) \subseteq U /\ \A c \in U : c.op = "ModifyColumn" => c \in ToSet(s2)
    BY <1>22, <1>23 DEF IndexOps, ForeignKeyOps, CheckOps, PartitionOps
  <2> QED BY <2>1 DEF Moves
<1>32. Moves(U) = Moves(ToSet(columnModifications(from.cols, to.cols)))
  BY <1>7, <1>31
<1>33. Wraps(D, s2)
  <2>1. \A c \in ToSet(s1) \cup ToSet(s3) \cup ToSet(s4) \cup ToSet(s5) \cup ToSet(s6) \cup ToSet(s7) \cup ToSet(s8) :
           c.op \notin ColumnOps
    BY <1>23 DEF ColumnOps, IndexOps, ForeignKeyOps, CheckOps, PartitionOps
  <2>2. ASSUME NEW t, IsSeq(t), Wraps(t, s2), NEW r, IsSeq(r), \A c \in ToSet(r) : c.op \notin ColumnOps
        PROVE  Wraps(t \o r, s2)
    BY <2>2, WrapsBehind
  <2>3. Wraps(t2, s2)
    BY <1>6, <1>7, <2>1, WrapsAhead DEF t2
  <2>4. Wraps(t3, s2)
    BY <1>8, <1>15, <2>1, <2>2, <2>3 DEF t3
  <2>5. Wraps(t4, s2)
    BY <1>9, <1>16, <2>1, <2>2, <2>4 DEF t4
  <2>6. Wraps(t5, s2)
    BY <1>10, <1>17, <2>1, <2>2, <2>5 DEF t5
  <2>7. Wraps(t6, s2)
    BY <1>11, <1>18, <2>1, <2>2, <2>6 DEF t6
  <2>8. Wraps(t7, s2)
    BY <1>12, <1>19, <2>1, <2>2, <2>7 DEF t7
  <2> QED BY <1>13, <1>14, <1>20, <2>1, <2>2, <2>8
<1>34. DiffOf(D, from, to)
  BY <1>21, <1>24, <1>25, <1>26, <1>27, <1>28, <1>29, <1>30, <1>32 DEF DiffOf, U
<1> QED BY <1>33, <1>34 DEF D, s2

----------------------------------------------------------------------------
(* Statements                                                              *)

\* S spreads the clauses of D with indices in J over statements: all but
\* additions of fulltext indexes and foreign keys come first, a statement adds
\* one fulltext index at most, and one statement adds all foreign keys and does
\* nothing else.
Spreads(A, S, D, J) ==
    /\ IsSeq(S)
    /\ \A a \in 1..Len(S) : A[a] \subseteq J /\ Restricts(S[a], D, A[a])
    /\ \A a, b \in 1..Len(S) : a # b => A[a] \cap A[b] = {}
    /\ \A a \in 2..Len(S) : \A i \in A[a] : AddsFulltext(D[i]) \/ D[i].op = "AddForeignKey"
    /\ \A i \in J : D[i].op # "AddForeignKey" /\ ~AddsFulltext(D[i]) => S # <<>> /\ i \in A[1]
    /\ \A a \in 1..Len(S) : \A i, j \in A[a] : AddsFulltext(D[i]) /\ AddsFulltext(D[j]) => i = j
    /\ \A a, b \in 1..Len(S) : \A i \in A[a], j \in A[b] :
          D[i].op = "AddForeignKey" /\ D[j].op = "AddForeignKey" => a = b
    /\ \A a \in 1..Len(S) : \A i, j \in A[a] : D[i].op = "AddForeignKey" => D[j].op = "AddForeignKey"

LEMMA SplitConflictsFacts ==
    ASSUME NEW D, IsSeq(D), NEW J, NEW c, Restricts(c, D, J),
           \A i \in J : D[i].op # "AddForeignKey"
    PROVE  \E A : Spreads(A, SplitConflicts(c), D, J)
<1> DEFINE N == Len(c)
           first == SelectInSeq(c, AddsFulltext)
           sep == {n \in 1..N : AddsFulltext(c[n]) /\ n # first}
           rest == 1..N \ sep
           single == [n \in 1..N |-> <<c[n]>>]
           P == Pick(c, rest)
           Q == Pick(single, sep)
           S == <<P>> \o Q
           C == Cardinality(sep)
<1>1. IsSeq(c) /\ N \in Nat /\ DOMAIN c = 1..N
  BY SeqFacts DEF Restricts
<1>2. SplitConflicts(c) = S
  BY <1>1 DEF SplitConflicts
<1>3. PICK e : Lists(e, c, D, J)
  BY DEF Restricts
<1>4. /\ Len(D) \in Nat
      /\ \A n \in 1..N : e[n] \in 1..Len(D) /\ c[n] = D[e[n]] /\ e[n] \in J
      /\ \A m, n \in 1..N : m < n => e[m] < e[n]
      /\ \A i \in J : \E n \in 1..N : e[n] = i
  BY <1>3, SeqFacts DEF Lists
<1>5. \A m, n \in 1..N : e[m] = e[n] => m = n
  <2> SUFFICES ASSUME NEW m \in 1..N, NEW n \in 1..N, e[m] = e[n]
               PROVE  m = n
    OBVIOUS
  <2>1. ~(m < n) /\ ~(n < m)
    BY <1>4
  <2> QED BY <1>1, <2>1
<1>6. /\ sep \subseteq 1..N /\ rest \subseteq 1..N
      /\ \A n \in sep : AddsFulltext(c[n]) /\ n \notin rest
      /\ \A n \in rest : AddsFulltext(c[n]) => n = first
      /\ \A n \in 1..N : ~AddsFulltext(c[n]) => n \in rest
  OBVIOUS
<1> HIDE DEF sep, rest, first
<1>7. IsSeq(single) /\ Len(single) = N /\ \A n \in 1..N : single[n] = <<c[n]>>
  <2>1. single = [n \in 1..N |-> single[n]] /\ \A n \in 1..N : single[n] = <<c[n]>>
    OBVIOUS
  <2> HIDE DEF single
  <2> QED BY <1>1, <2>1, FunctionIsSeq
<1> HIDE DEF single
<1>8. /\ C \in Nat /\ IsSeq(Q) /\ Len(Q) = C
      /\ \A k \in 1..C : Nth(sep, k) \in sep /\ Q[k] = <<c[Nth(sep, k)]>>
      /\ \A j, k \in 1..C : j < k => Nth(sep, j) < Nth(sep, k)
  <2>1. C \in Nat /\ IsSeq(Q) /\ Len(Q) = C
    BY <1>6, <1>7, PickFacts
  <2>2. \A k \in 1..C : Nth(sep, k) \in sep
    BY <1>6, <1>7, PickFacts
  <2>3. \A j, k \in 1..C : j < k => Nth(sep, j) < Nth(sep, k)
    BY <1>6, <1>7, PickFacts
  <2>4. \A k \in 1..C : Q[k] = single[Nth(sep, k)]
    BY DEF Pick
  <2> HIDE DEF Q, C
  <2> QED BY <1>6, <1>7, <2>1, <2>2, <2>3, <2>4
<1>9. IsSeq(<<P>>) /\ Len(<<P>>) = 1 /\ <<P>>[1] = P
  BY SingletonFacts
<1> HIDE DEF Q, C, P
<1>10. /\ IsSeq(S) /\ Len(S) = 1 + C /\ S[1] = P
       /\ \A a \in 2..Len(S) : a - 1 \in 1..C /\ S[a] = <<c[Nth(sep, a - 1)]>>
  <2> DEFINE o == <<P>>
  <2> HIDE DEF o
  <2>1. IsSeq(o) /\ Len(o) = 1 /\ o[1] = P
    BY <1>9 DEF o
  <2>2. /\ IsSeq(o \o Q) /\ Len(o \o Q) = 1 + C
        /\ \A i \in 1..Len(o \o Q) : (o \o Q)[i] = IF i <= 1 THEN o[i] ELSE Q[i - 1]
    BY <1>8, <2>1, ConcatFacts, ZenonT(40)
  <2>3. (o \o Q)[1] = P
    BY <1>8, <2>1, <2>2
  <2>4. ASSUME NEW a \in 2..Len(o \o Q)
        PROVE  a - 1 \in 1..C /\ (o \o Q)[a] = <<c[Nth(sep, a - 1)]>>
    <3>1. a - 1 \in 1..C /\ a \in 1..Len(o \o Q) /\ ~(a <= 1)
      BY <1>8, <2>2
    <3>2. (o \o Q)[a] = Q[a - 1]
      BY <2>2, <3>1
    <3> QED BY <1>8, <3>1, <3>2
  <2> QED BY <2>2, <2>3, <2>4 DEF o
<1> HIDE DEF S
<1> DEFINE A == [a \in 1..Len(S) |-> IF a = 1 THEN {e[n] : n \in rest} ELSE {e[Nth(sep, a - 1)]}]
<1>11. /\ Len(S) \in Nat /\ 1 \in 1..Len(S) /\ A[1] = {e[n] : n \in rest}
       /\ \A a \in 1..Len(S) : a # 1 => a \in 2..Len(S) /\ A[a] = {e[Nth(sep, a - 1)]}
       /\ \A a \in 2..Len(S) : a \in 1..Len(S) /\ a # 1
  BY <1>8, <1>10
<1>12. \A a \in 2..Len(S) : /\ Nth(sep, a - 1) \in sep /\ Nth(sep, a - 1) \in 1..N
                            /\ A[a] = {e[Nth(sep, a - 1)]}
  BY <1>6, <1>8, <1>10, <1>11
<1> HIDE DEF A
<1>13. ASSUME NEW a \in 1..Len(S)
       PROVE  A[a] \subseteq J /\ Restricts(S[a], D, A[a])
  <2>1. CASE a = 1
    <3> DEFINE K == A[1]
    <3>1. K = {e[n] : n \in rest}
      BY <1>11
    <3> HIDE DEF K
    <3>2. Restricts(P, D, K)
      BY <1>1, <1>3, <1>6, <3>1, RestrictsPick DEF P
    <3>3. K \subseteq J
      BY <1>4, <1>6, <3>1
    <3> QED BY <1>10, <2>1, <3>2, <3>3 DEF K
  <2>2. CASE a # 1
    <3> DEFINE n == Nth(sep, a - 1)
    <3>1. n \in 1..N /\ A[a] = {e[n]} /\ S[a] = <<c[n]>>
      BY <1>10, <1>11, <1>12, <2>2
    <3> HIDE DEF n
    <3>2. e[n] \in 1..Len(D) /\ c[n] = D[e[n]] /\ e[n] \in J
      BY <1>4, <3>1
    <3>3. Restricts(<<D[e[n]]>>, D, {e[n]})
      BY <3>2, RestrictsOne
    <3> QED BY <3>1, <3>2, <3>3
  <2> QED BY <2>1, <2>2
<1>14. ASSUME NEW a \in 1..Len(S), NEW b \in 1..Len(S), a < b
       PROVE  A[a] \cap A[b] = {}
  <2> DEFINE n == Nth(sep, b - 1)
  <2>1. b \in 2..Len(S) /\ n \in sep /\ n \in 1..N /\ A[b] = {e[n]}
    BY <1>11, <1>12, <1>14
  <2>2. CASE a = 1
    <3>1. \A m \in rest : m # n /\ m \in 1..N
      BY <1>6, <2>1
    <3>2. e[n] \notin A[a]
      BY <1>5, <1>11, <2>1, <2>2, <3>1
    <3> QED BY <2>1, <3>2
  <2>3. CASE a # 1
    <3> DEFINE m == Nth(sep, a - 1)
    <3>1. a \in 2..Len(S) /\ m \in 1..N /\ A[a] = {e[m]}
      BY <1>11, <1>12, <2>3
    <3>2. a - 1 \in 1..C /\ b - 1 \in 1..C /\ a - 1 < b - 1
      BY <1>10, <1>14, <2>1, <3>1
    <3>3. m < n
      BY <1>8, <3>2
    <3>4. e[m] # e[n]
      BY <1>1, <1>5, <2>1, <3>1, <3>3
    <3> QED BY <2>1, <3>1, <3>4
  <2> QED BY <2>2, <2>3
<1>15. ASSUME NEW a \in 1..Len(S), NEW b \in 1..Len(S), a # b
       PROVE  A[a] \cap A[b] = {}
  <2>1. a < b \/ b < a
    BY <1>11, <1>15
  <2> QED BY <1>14, <2>1
<1>16. ASSUME NEW a \in 2..Len(S), NEW i \in A[a]
       PROVE  AddsFulltext(D[i])
  <2>1. i = e[Nth(sep, a - 1)] /\ Nth(sep, a - 1) \in sep /\ Nth(sep, a - 1) \in 1..N
    BY <1>12
  <2> QED BY <1>4, <1>6, <2>1
<1>17. ASSUME NEW i \in J, ~AddsFulltext(D[i])
       PROVE  S # <<>> /\ i \in A[1]
  <2>1. PICK n \in 1..N : e[n] = i
    BY <1>4
  <2>2. n \in rest
    BY <1>4, <1>6, <1>17, <2>1
  <2>3. S # <<>>
    BY <1>8, <1>10, NonemptyFacts
  <2> QED BY <1>11, <2>1, <2>2, <2>3
<1>18. ASSUME NEW a \in 1..Len(S), NEW i \in A[a], NEW j \in A[a], AddsFulltext(D[i]), AddsFulltext(D[j])
       PROVE  i = j
  <2>1. CASE a = 1
    <3>1. PICK m \in rest : i = e[m]
      BY <1>11, <2>1
    <3>2. PICK n \in rest : j = e[n]
      BY <1>11, <2>1
    <3> QED BY <1>4, <1>6, <1>18, <3>1, <3>2
  <2>2. CASE a # 1
    BY <1>11, <2>2
  <2> QED BY <2>1, <2>2
<1>19. Spreads(A, S, D, J)
  <2>1. \A a, b \in 1..Len(S) : \A i \in A[a], j \in A[b] :
           D[i].op = "AddForeignKey" /\ D[j].op = "AddForeignKey" => a = b
    BY <1>13
  <2>2. \A a \in 1..Len(S) : \A i \in A[a] : D[i].op # "AddForeignKey"
    BY <1>13
  <2> QED BY <1>10, <1>13, <1>15, <1>16, <1>17, <1>18, <2>1, <2>2 DEF Spreads
<1> QED BY <1>2, <1>19

LEMMA SpreadsConcat ==
    ASSUME NEW D, IsSeq(D), NEW J1, NEW J2, NEW A1, NEW A2, NEW S1, NEW S2,
           Spreads(A1, S1, D, J1), Spreads(A2, S2, D, J2), J1 \cap J2 = {},
           \A i \in J1 : D[i].op # "AddForeignKey", \A i \in J2 : D[i].op = "AddForeignKey"
    PROVE  \E A : Spreads(A, S1 \o S2, D, J1 \cup J2)
<1> DEFINE S == S1 \o S2
           J == J1 \cup J2
           L1 == Len(S1)
           A == [a \in 1..Len(S) |-> IF a <= L1 THEN A1[a] ELSE A2[a - L1]]
<1>1. IsSeq(S1) /\ IsSeq(S2) /\ L1 \in Nat /\ Len(S2) \in Nat
  BY SeqFacts DEF Spreads
<1>2. /\ IsSeq(S) /\ Len(S) = L1 + Len(S2)
      /\ \A a \in 1..Len(S) : S[a] = IF a <= L1 THEN S1[a] ELSE S2[a - L1]
  BY <1>1, ConcatFacts
<1>3. \A a \in 1..Len(S) : A[a] = IF a <= L1 THEN A1[a] ELSE A2[a - L1]
  OBVIOUS
<1> HIDE DEF S, A, L1
<1>4. \A a \in 1..Len(S) : a <= L1 => a \in 1..L1 /\ S[a] = S1[a] /\ A[a] = A1[a]
  BY <1>1, <1>2, <1>3
<1>5. \A a \in 1..Len(S) : ~(a <= L1) => /\ a - L1 \in 1..Len(S2) /\ S[a] = S2[a - L1]
                                         /\ A[a] = A2[a - L1]
  BY <1>1, <1>2, <1>3
<1>6. \A a \in 1..L1 : A1[a] \subseteq J1 /\ Restricts(S1[a], D, A1[a])
  BY DEF Spreads, L1
<1>7. \A a \in 1..Len(S2) : A2[a] \subseteq J2 /\ Restricts(S2[a], D, A2[a])
  BY DEF Spreads
<1>8. \A a \in 1..Len(S) : A[a] \subseteq J /\ Restricts(S[a], D, A[a])
  BY <1>4, <1>5, <1>6, <1>7
<1>9. ASSUME NEW a \in 1..Len(S), NEW b \in 1..Len(S), a # b
      PROVE  A[a] \cap A[b] = {}
  <2>1. CASE a <= L1 /\ b <= L1
    BY <1>4, <1>9, <2>1 DEF Spreads, L1
  <2>2. CASE ~(a <= L1) /\ ~(b <= L1)
    <3>1. a - L1 # b - L1
      BY <1>1, <1>9
    <3> QED BY <1>5, <2>2, <3>1 DEF Spreads
  <2>3. CASE a <= L1 /\ ~(b <= L1)
    BY <1>4, <1>5, <1>6, <1>7, <2>3
  <2>4. CASE ~(a <= L1) /\ b <= L1
    BY <1>4, <1>5, <1>6, <1>7, <2>4
  <2> QED BY <2>1, <2>2, <2>3, <2>4
<1>10. ASSUME NEW a \in 2..Len(S), NEW i \in A[a]
       PROVE  AddsFulltext(D[i]) \/ D[i].op = "AddForeignKey"
  <2>0. a \in 1..Len(S)
    BY <1>1, <1>2
  <2>1. CASE a <= L1
    <3>1. a \in 2..Len(S1) /\ i \in A1[a]
      BY <1>1, <1>4, <1>10, <2>0, <2>1 DEF L1
    <3> QED BY <3>1 DEF Spreads
  <2>2. CASE ~(a <= L1)
    BY <1>5, <1>7, <2>0, <2>2
  <2> QED BY <2>1, <2>2
<1>11. ASSUME NEW i \in J, D[i].op # "AddForeignKey", ~AddsFulltext(D[i])
       PROVE  S # <<>> /\ i \in A[1]
  <2>1. i \in J1
    BY <1>11
  <2>2. S1 # <<>> /\ i \in A1[1]
    BY <1>11, <2>1 DEF Spreads
  <2>3. 1 \in 1..Len(S) /\ 1 <= L1
    <3>1. L1 # 0
      BY <1>1, <2>2, NonemptyFacts DEF L1
    <3> QED BY <1>1, <1>2, <3>1
  <2>4. S # <<>>
    BY <1>2, <2>3, NonemptyFacts
  <2> QED BY <1>4, <2>2, <2>3, <2>4
<1>12. ASSUME NEW a \in 1..Len(S), NEW i \in A[a], NEW j \in A[a], AddsFulltext(D[i]), AddsFulltext(D[j])
       PROVE  i = j
  <2>1. CASE a <= L1
    BY <1>4, <1>12, <2>1 DEF Spreads, L1
  <2>2. CASE ~(a <= L1)
    BY <1>5, <1>12, <2>2 DEF Spreads
  <2> QED BY <2>1, <2>2
<1>13. ASSUME NEW a \in 1..Len(S), NEW b \in 1..Len(S), NEW i \in A[a], NEW j \in A[b],
              D[i].op = "AddForeignKey", D[j].op = "AddForeignKey"
       PROVE  a = b
  <2>1. ~(a <= L1) /\ ~(b <= L1)
    BY <1>4, <1>6, <1>13
  <2>2. a - L1 = b - L1
    <3>1. i \in A2[a - L1] /\ j \in A2[b - L1] /\ a - L1 \in 1..Len(S2) /\ b - L1 \in 1..Len(S2)
      BY <1>5, <2>1
    <3> QED BY <1>13, <3>1 DEF Spreads
  <2> QED BY <1>1, <2>2
<1>14. ASSUME NEW a \in 1..Len(S), NEW i \in A[a], NEW j \in A[a], D[i].op = "AddForeignKey"
       PROVE  D[j].op = "AddForeignKey"
  <2>1. CASE a <= L1
    BY <1>4, <1>6, <1>14, <2>1
  <2>2. CASE ~(a <= L1)
    BY <1>5, <1>7, <1>14, <2>2
  <2> QED BY <2>1, <2>2
<1>15. Spreads(A, S, D, J)
  BY <1>2, <1>8, <1>9, <1>10, <1>11, <1>12, <1>13, <1>14 DEF Spreads
<1> QED BY <1>15 DEF S

LEMMA AltersFacts ==
    ASSUME NEW D, IsSeq(D)
    PROVE  \E A : Spreads(A, Alters(D), D, 1..Len(D))
<1> DEFINE J1 == {n \in 1..Len(D) : D[n].op # "AddForeignKey"}
           J2 == {n \in 1..Len(D) : D[n].op = "AddForeignKey"}
           s1 == Pick(D, J1)
           s2 == Pick(D, J2)
           S1 == IF s1 = <<>> THEN <<>> ELSE SplitConflicts(s1)
           S2 == IF s2 = <<>> THEN <<>> ELSE <<s2>>
<1>1. Alters(D) = S1 \o S2
  BY DEF Alters, SplitAddForeignKeys, Filter
<1>2. /\ J1 \subseteq 1..Len(D) /\ J2 \subseteq 1..Len(D) /\ J1 \cap J2 = {}
      /\ J1 \cup J2 = 1..Len(D)
      /\ \A i \in J1 : D[i].op # "AddForeignKey"
      /\ \A i \in J2 : D[i].op = "AddForeignKey"
  OBVIOUS
<1> HIDE DEF J1, J2
<1>3. Restricts(s1, D, J1) /\ Restricts(s2, D, J2)
  BY <1>2, PickRestricts
<1> HIDE DEF s1, s2
<1>4. \E A : Spreads(A, S1, D, J1)
  <2>1. CASE s1 = <<>>
    <3>1. J1 = {}
      BY <1>3, <2>1, RestrictsFacts
    <3>2. S1 = <<>> /\ IsSeq(S1) /\ Len(S1) = 0
      BY <2>1, EmptyFacts
    <3>3. 1..Len(S1) = {} /\ 2..Len(S1) = {}
      BY <3>2
    <3> HIDE DEF S1
    <3>4. Spreads(<<>>, S1, D, J1)
      BY <3>1, <3>2, <3>3 DEF Spreads
    <3> QED BY <3>4
  <2>2. CASE s1 # <<>>
    BY <1>2, <1>3, <2>2, SplitConflictsFacts
  <2> QED BY <2>1, <2>2
<1>5. \E A : Spreads(A, S2, D, J2)
  <2> DEFINE A == [a \in 1..1 |-> J2]
  <2>1. A[1] = J2
    OBVIOUS
  <2>2. CASE s2 = <<>>
    <3>1. J2 = {}
      BY <1>3, <2>2, RestrictsFacts
    <3>2. S2 = <<>> /\ IsSeq(S2) /\ Len(S2) = 0
      BY <2>2, EmptyFacts
    <3>3. 1..Len(S2) = {} /\ 2..Len(S2) = {}
      BY <3>2
    <3> HIDE DEF S2
    <3>4. Spreads(<<>>, S2, D, J2)
      BY <3>1, <3>2, <3>3 DEF Spreads
    <3> QED BY <3>4
  <2>3. CASE s2 # <<>>
    <3>1. S2 = <<s2>> /\ IsSeq(S2) /\ Len(S2) = 1 /\ S2[1] = s2
      BY <2>3, SingletonFacts
    <3> HIDE DEF S2, A
    <3>2. 1..Len(S2) = {1} /\ 2..Len(S2) = {}
      BY <3>1
    <3>3. \A i \in J2 : ~AddsFulltext(D[i])
      BY <1>2 DEF AddsFulltext
    <3>4. Spreads(A, S2, D, J2)
      BY <1>2, <1>3, <2>1, <3>1, <3>2, <3>3 DEF Spreads
    <3> QED BY <3>4
  <2> QED BY <2>2, <2>3
<1>6. PICK A1 : Spreads(A1, S1, D, J1)
  BY <1>4
<1>7. PICK A2 : Spreads(A2, S2, D, J2)
  BY <1>5
<1> HIDE DEF S1, S2
<1>8. \E A : Spreads(A, S1 \o S2, D, J1 \cup J2)
  BY <1>2, <1>6, <1>7, SpreadsConcat
<1> QED BY <1>1, <1>2, <1>8

\* T is the statements S with only the clauses in X, at the places in H.
Narrows(T, H, S, X) ==
    /\ T = [a \in 1..Len(S) |-> T[a]]
    /\ \A a \in 1..Len(S) : /\ T[a] = Pick(S[a], H[a])
                            /\ H[a] = {k \in 1..Len(S[a]) : S[a][k] \in X}

LEMMA SpreadsFilter ==
    ASSUME NEW D, IsSeq(D), NEW J, NEW A, NEW S, Spreads(A, S, D, J),
           NEW X, NEW K, K = {i \in J : D[i] \in X}, NEW T, NEW H, Narrows(T, H, S, X)
    PROVE  \E B : Spreads(B, T, D, K)
<1> DEFINE B == [a \in 1..Len(S) |-> {i \in A[a] : D[i] \in X}]
<1>1. IsSeq(S) /\ Len(S) \in Nat
  BY SeqFacts DEF Spreads
<1>2. IsSeq(T) /\ Len(T) = Len(S)
  <2>1. T = [a \in 1..Len(S) |-> T[a]]
    BY DEF Narrows
  <2> QED BY <1>1, <2>1, FunctionIsSeq
<1>3. \A a \in 1..Len(S) : B[a] = {i \in A[a] : D[i] \in X}
  OBVIOUS
<1> HIDE DEF B
<1>4. ASSUME NEW a \in 1..Len(S)
      PROVE  B[a] \subseteq K /\ Restricts(T[a], D, B[a])
  <2> DEFINE F == H[a]
             L == B[a]
             s == S[a]
             I == A[a]
  <2>1. I \subseteq J /\ Restricts(s, D, I)
    BY DEF Spreads
  <2>2. T[a] = Pick(s, F) /\ F = {k \in 1..Len(s) : s[k] \in X} /\ L = {i \in I : D[i] \in X}
    BY <1>3 DEF Narrows
  <2> HIDE DEF F, L, s, I
  <2>3. Restricts(Pick(s, F), D, L)
    BY <2>1, <2>2, RestrictsFilter
  <2>4. L \subseteq K
    BY <2>1, <2>2
  <2> QED BY <2>2, <2>3, <2>4 DEF L
<1>5. \A a \in 1..Len(S) : B[a] \subseteq A[a]
  BY <1>3
<1>6. \A a, b \in 1..Len(T) : a # b => B[a] \cap B[b] = {}
  <2> SUFFICES ASSUME NEW a \in 1..Len(T), NEW b \in 1..Len(T), a # b
               PROVE  B[a] \cap B[b] = {}
    OBVIOUS
  <2>1. A[a] \cap A[b] = {}
    BY <1>2 DEF Spreads
  <2> QED BY <1>2, <1>5, <2>1
<1>7. \A a \in 2..Len(T) : \A i \in B[a] : AddsFulltext(D[i]) \/ D[i].op = "AddForeignKey"
  <2> SUFFICES ASSUME NEW a \in 2..Len(T), NEW i \in B[a]
               PROVE  AddsFulltext(D[i]) \/ D[i].op = "AddForeignKey"
    OBVIOUS
  <2>1. a \in 2..Len(S) /\ a \in 1..Len(S)
    BY <1>1, <1>2
  <2>2. i \in A[a]
    BY <1>5, <2>1
  <2> QED BY <2>1, <2>2 DEF Spreads
<1>8. ASSUME NEW i \in K, D[i].op # "AddForeignKey", ~AddsFulltext(D[i])
      PROVE  T # <<>> /\ i \in B[1]
  <2>1. i \in J /\ D[i] \in X
    OBVIOUS
  <2>2. S # <<>> /\ i \in A[1]
    BY <1>8, <2>1 DEF Spreads
  <2>3. Len(S) # 0
    BY <1>1, <2>2, NonemptyFacts
  <2>4. T # <<>>
    BY <1>2, <2>3, NonemptyFacts
  <2>5. 1 \in 1..Len(S)
    BY <1>1, <2>3
  <2> QED BY <1>3, <2>1, <2>2, <2>4, <2>5
<1>9. \A a \in 1..Len(T) : \A i, j \in B[a] : AddsFulltext(D[i]) /\ AddsFulltext(D[j]) => i = j
  BY <1>2, <1>5 DEF Spreads
<1>10. \A a, b \in 1..Len(T) : \A i \in B[a], j \in B[b] :
          D[i].op = "AddForeignKey" /\ D[j].op = "AddForeignKey" => a = b
  BY <1>2, <1>5 DEF Spreads
<1>11. \A a \in 1..Len(T) : \A i, j \in B[a] : D[i].op = "AddForeignKey" => D[j].op = "AddForeignKey"
  BY <1>2, <1>5 DEF Spreads
<1>12. Spreads(B, T, D, K)
  BY <1>2, <1>4, <1>6, <1>7, <1>8, <1>9, <1>10, <1>11 DEF Spreads
<1> QED BY <1>12

\* The statements that are not empty.
LEMMA SpreadsNonempty ==
    ASSUME NEW D, IsSeq(D), NEW J, NEW A, NEW S, Spreads(A, S, D, J),
           NEW N, N = {a \in 1..Len(S) : S[a] # <<>>}
    PROVE  \E B : Spreads(B, Pick(S, N), D, J)
<1> DEFINE T == Pick(S, N)
           C == Cardinality(N)
           B == [a \in 1..C |-> A[Nth(N, a)]]
<1>1. IsSeq(S) /\ Len(S) \in Nat
  BY SeqFacts DEF Spreads
<1>2. N \subseteq 1..Len(S) /\ \A a \in N : S[a] # <<>>
  OBVIOUS
<1>3. IsSeq(T) /\ Len(T) = C /\ C \in Nat
  BY <1>1, <1>2, PickFacts
<1>4. \A a \in 1..C : Nth(N, a) \in N
  BY <1>1, <1>2, PickFacts
<1>5. \A a, b \in 1..C : a < b => Nth(N, a) < Nth(N, b)
  BY <1>1, <1>2, PickFacts
<1>6. ASSUME NEW n \in N PROVE \E a \in 1..C : Nth(N, a) = n
  <2>1. N \in SUBSET (1..Len(S)) /\ S \in Seq(ToSet(S))
    BY <1>1, <1>2 DEF IsSeq
  <2> QED BY <2>1, PickOrder
<1>7. \A a \in 1..C : T[a] = S[Nth(N, a)] /\ B[a] = A[Nth(N, a)]
  BY DEF Pick
<1>8. T # <<>> <=> C # 0
  BY <1>3, NonemptyFacts
<1> HIDE DEF T, C, B
<1>9. \A a \in 1..C : Nth(N, a) \in 1..Len(S)
  BY <1>2, <1>4
<1>10. \A a, b \in 1..C : a # b => Nth(N, a) # Nth(N, b)
  <2> SUFFICES ASSUME NEW a \in 1..C, NEW b \in 1..C, a # b, Nth(N, a) = Nth(N, b)
               PROVE  FALSE
    OBVIOUS
  <2>1. (a < b \/ b < a) /\ Nth(N, a) \in Nat
    BY <1>1, <1>3, <1>9
  <2> QED BY <1>5, <2>1
<1>11. ASSUME NEW a \in 1..Len(T)
       PROVE  B[a] \subseteq J /\ Restricts(T[a], D, B[a])
  <2>1. A[Nth(N, a)] \subseteq J /\ Restricts(S[Nth(N, a)], D, A[Nth(N, a)])
    BY <1>3, <1>9 DEF Spreads
  <2> QED BY <1>3, <1>7, <2>1
<1>12. ASSUME NEW a \in 1..Len(T), NEW b \in 1..Len(T), a # b
       PROVE  B[a] \cap B[b] = {}
  <2>1. A[Nth(N, a)] \cap A[Nth(N, b)] = {}
    BY <1>3, <1>9, <1>10, <1>12 DEF Spreads
  <2> QED BY <1>3, <1>7, <2>1
<1>13. ASSUME NEW a \in 2..Len(T), NEW i \in B[a]
       PROVE  AddsFulltext(D[i]) \/ D[i].op = "AddForeignKey"
  <2>1. a \in 1..C /\ 1 \in 1..C /\ 1 < a
    BY <1>3
  <2>2. Nth(N, 1) < Nth(N, a) /\ Nth(N, 1) \in 1..Len(S) /\ Nth(N, a) \in 1..Len(S)
    BY <1>5, <1>9, <2>1
  <2>3. Nth(N, a) \in 2..Len(S)
    BY <1>1, <2>2
  <2> QED BY <1>7, <1>13, <2>1, <2>3 DEF Spreads
<1>14. ASSUME NEW i \in J, D[i].op # "AddForeignKey", ~AddsFulltext(D[i])
       PROVE  T # <<>> /\ i \in B[1]
  <2>1. S # <<>> /\ i \in A[1]
    BY <1>14 DEF Spreads
  <2>2. 1 \in 1..Len(S)
    <3>1. Len(S) # 0
      BY <1>1, <2>1, NonemptyFacts
    <3> QED BY <1>1, <3>1
  <2>3. S[1] # <<>>
    <3> DEFINE s == S[1]
               I == A[1]
    <3>1. Restricts(s, D, I)
      BY <2>2 DEF Spreads
    <3>2. i \in I
      BY <2>1
    <3> HIDE DEF s, I
    <3>3. s # <<>>
      BY <3>1, <3>2, RestrictsFacts
    <3> QED BY <3>3 DEF s
  <2>4. 1 \in N
    BY <2>2, <2>3
  <2>5. PICK a \in 1..C : Nth(N, a) = 1
    BY <1>6, <2>4
  <2>6. 1 \in 1..C /\ a \in Nat
    BY <1>3
  <2>7. ~(1 < a)
    <3>1. Nth(N, 1) \in 1..Len(S)
      BY <1>9, <2>6
    <3>2. ~(Nth(N, 1) < Nth(N, a))
      BY <1>1, <2>5, <3>1
    <3> QED BY <1>5, <2>6, <3>2
  <2>8. a = 1
    BY <2>6, <2>7
  <2> QED BY <1>3, <1>7, <1>8, <2>1, <2>5, <2>6, <2>8
<1>15. \A a \in 1..Len(T) : \A i, j \in B[a] : AddsFulltext(D[i]) /\ AddsFulltext(D[j]) => i = j
  BY <1>3, <1>7, <1>9 DEF Spreads
<1>16. ASSUME NEW a \in 1..Len(T), NEW b \in 1..Len(T), NEW i \in B[a], NEW j \in B[b],
              D[i].op = "AddForeignKey", D[j].op = "AddForeignKey"
       PROVE  a = b
  <2>1. Nth(N, a) = Nth(N, b)
    BY <1>3, <1>7, <1>9, <1>16 DEF Spreads
  <2> QED BY <1>3, <1>10, <2>1
<1>17. ASSUME NEW a \in 1..Len(T), NEW i \in B[a], NEW j \in B[a], D[i].op = "AddForeignKey"
       PROVE  D[j].op = "AddForeignKey"
  <2>1. i \in A[Nth(N, a)] /\ j \in A[Nth(N, a)] /\ Nth(N, a) \in 1..Len(S)
    BY <1>3, <1>7, <1>9
  <2> QED BY <1>17, <2>1 DEF Spreads
<1>18. Spreads(B, T, D, J)
  BY <1>3, <1>11, <1>12, <1>13, <1>14, <1>15, <1>16, <1>17 DEF Spreads
<1> QED BY <1>18 DEF T

\* The clauses of D that are written.
Written(D, to, opts) == {i \in 1..Len(D) : Emitted(D[i], ForceIndexOrder(to, opts))}

LEMMA PlanFacts ==
    ASSUME NEW D, IsSeq(D), NEW to, NEW opts,
           NEW alters, alters = Alters(D),
           NEW stmts, stmts = [n \in DOMAIN alters |-> alterStatement(alters[n], to, opts)]
    PROVE  /\ \E I : Spreads(I, Filter(stmts, LAMBDA s : s # <<>>), D, Written(D, to, opts))
           /\ (\A n \in DOMAIN alters : ~Forbidden(alters[n], to, opts)) /\ ~opts.allowUnsafe =>
                 \A i \in Written(D, to, opts) : ~Unsafe(D[i])
<1> DEFINE E(c) == Emitted(c, ForceIndexOrder(to, opts))
           X == {c \in ToSet(D) : E(c)}
           K == Written(D, to, opts)
           N == {a \in 1..Len(stmts) : stmts[a] # <<>>}
<1>1. PICK A : Spreads(A, alters, D, 1..Len(D))
  BY AltersFacts
<1>2. IsSeq(alters) /\ Len(alters) \in Nat /\ DOMAIN alters = 1..Len(alters)
  BY <1>1, SeqFacts DEF Spreads
<1>3. K = {i \in 1..Len(D) : D[i] \in X}
  BY SeqFacts DEF Written
<1>4. ASSUME NEW a \in 1..Len(alters)
      PROVE  /\ IsSeq(alters[a]) /\ ToSet(alters[a]) = {D[i] : i \in A[a]}
             /\ A[a] \subseteq 1..Len(D)
             /\ alterStatement(alters[a], to, opts)
                  = Pick(alters[a], {k \in 1..Len(alters[a]) : alters[a][k] \in X})
  <2> DEFINE s == alters[a]
             I == A[a]
  <2>1. Restricts(s, D, I) /\ I \subseteq 1..Len(D)
    BY <1>1 DEF Spreads
  <2> HIDE DEF s, I
  <2>2. IsSeq(s) /\ ToSet(s) = {D[i] : i \in I} /\ ToSet(s) \subseteq ToSet(D)
    BY <2>1, RestrictsFacts, ZenonT(40)
  <2>3. \A k \in 1..Len(s) : s[k] \in ToSet(D)
    BY <2>2, SeqFacts
  <2>4. {k \in 1..Len(s) : s[k] \in X} = {k \in 1..Len(s) : E(s[k])}
    BY <2>3
  <2>5. alterStatement(s, to, opts) = Pick(s, {k \in 1..Len(s) : E(s[k])})
    BY DEF alterStatement, Filter
  <2> QED BY <2>1, <2>2, <2>4, <2>5 DEF s, I
<1> HIDE DEF X, K
<1> DEFINE H == [a \in 1..Len(alters) |-> {k \in 1..Len(alters[a]) : alters[a][k] \in X}]
<1>5. Narrows(stmts, H, alters, X)
  BY <1>2, <1>4 DEF Narrows
<1> HIDE DEF H
<1>6. PICK B : Spreads(B, stmts, D, K)
  <2> DEFINE J == 1..Len(D)
  <2>1. Spreads(A, alters, D, J) /\ K = {i \in J : D[i] \in X}
    BY <1>1, <1>3
  <2> HIDE DEF J
  <2> QED BY <1>5, <2>1, SpreadsFilter
<1>7. Filter(stmts, LAMBDA s : s # <<>>) = Pick(stmts, N)
  BY DEF Filter
<1>8. \E I : Spreads(I, Filter(stmts, LAMBDA s : s # <<>>), D, K)
  <2>1. N = {a \in 1..Len(stmts) : stmts[a] # <<>>}
    OBVIOUS
  <2> HIDE DEF N
  <2>2. \E I : Spreads(I, Pick(stmts, N), D, K)
    BY <1>6, <2>1, SpreadsNonempty
  <2> QED BY <1>7, <2>2
<1>9. ASSUME \A n \in DOMAIN alters : ~Forbidden(alters[n], to, opts), ~opts.allowUnsafe,
             NEW i \in K
      PROVE  ~Unsafe(D[i])
  <2> SUFFICES ASSUME Unsafe(D[i]) PROVE FALSE
    OBVIOUS
  <2>1. D[i].op # "AddForeignKey" /\ ~AddsFulltext(D[i])
    BY DEF Unsafe, AddsFulltext
  <2>2. i \in 1..Len(D)
    BY <1>3
  <2>3. alters # <<>> /\ i \in A[1]
    BY <1>1, <2>1, <2>2 DEF Spreads
  <2>4. 1 \in 1..Len(alters)
    <3>1. Len(alters) # 0
      BY <1>2, <2>3, NonemptyFacts
    <3> QED BY <1>2, <3>1
  <2>5. stmts # <<>> /\ i \in B[1]
    BY <1>6, <2>1 DEF Spreads
  <2>6. stmts[1] # <<>>
    <3> DEFINE s == stmts[1]
               I == B[1]
    <3>1. Restricts(s, D, I)
      <4>1. 1 \in 1..Len(stmts)
        <5>1. IsSeq(stmts)
          BY <1>6 DEF Spreads
        <5> QED BY <2>5, <5>1, NonemptyFacts, SeqFacts
      <4> QED BY <1>6, <4>1 DEF Spreads
    <3>2. i \in I
      BY <2>5
    <3> HIDE DEF s, I
    <3>3. s # <<>>
      BY <3>1, <3>2, RestrictsFacts
    <3> QED BY <3>3 DEF s
  <2>7. stmts[1] = alterStatement(alters[1], to, opts)
    BY <1>2, <2>4
  <2>8. \E n \in DOMAIN alters[1] : Unsafe(alters[1][n])
    <3> DEFINE s == alters[1]
    <3>1. IsSeq(s) /\ D[i] \in ToSet(s)
      BY <1>4, <2>3, <2>4
    <3> HIDE DEF s
    <3>2. \E n \in DOMAIN s : Unsafe(s[n])
      BY <3>1, SeqFacts
    <3> QED BY <3>2 DEF s
  <2>9. Forbidden(alters[1], to, opts)
    BY <1>9, <2>6, <2>7, <2>8 DEF Forbidden
  <2> QED BY <1>2, <1>9, <2>4, <2>9
<1> QED BY <1>8, <1>9 DEF K
----------------------------------------------------------------------------
(* How many columns are moved                                              *)

\* e picks k of the first n elements of s, from left to right, that increase.
Chain(e, k, n, s) ==
    /\ e \in [1..k -> 1..n]
    /\ \A a, b \in 1..k : a < b => e[a] < e[b] /\ s[e[a]] < s[e[b]]

\* l is an increasing subsequence of the first n elements of s, of length k.
Climbs(l, k, n, s) ==
    IsSeq(l) /\ Len(l) = k /\ \E e : Chain(e, k, n, s) /\ \A a \in 1..k : l[a] = s[e[a]]

\* The lists after n turns: the k-th ends as low as any list of its length can.
Piles(lists, n, s) ==
    /\ IsSeq(lists) /\ lists # <<>>
    /\ \A k \in 1..Len(lists) : Climbs(lists[k], k, n, s)
    /\ \A j, k \in 1..Len(lists) : j < k => lists[j][j] < lists[k][k]
    /\ \A k \in Nat \ {0} : \A e : Chain(e, k, n, s) => k <= Len(lists) /\ lists[k][k] <= s[e[k]]

LEMMA ChainLater ==
    ASSUME NEW s, NEW n \in Nat, NEW k \in Nat, NEW e, Chain(e, k, n, s)
    PROVE  Chain(e, k, n + 1, s)
<1>1. 1..n \subseteq 1..(n + 1)
  OBVIOUS
<1>2. e \in [1..k -> 1..(n + 1)]
  BY <1>1 DEF Chain
<1> QED BY <1>2 DEF Chain

LEMMA ClimbsLater ==
    ASSUME NEW s, NEW n \in Nat, NEW k \in Nat, NEW l, Climbs(l, k, n, s)
    PROVE  Climbs(l, k, n + 1, s)
BY ChainLater DEF Climbs

LEMMA AppendFacts ==
    ASSUME NEW l, IsSeq(l), NEW c
    PROVE  /\ IsSeq(Append(l, c)) /\ Len(Append(l, c)) = Len(l) + 1
           /\ Append(l, c)[Len(l) + 1] = c /\ \A a \in 1..Len(l) : Append(l, c)[a] = l[a]
<1>1. l \in Seq(ToSet(l) \cup {c}) /\ c \in ToSet(l) \cup {c}
  BY SeqOver
<1>2. Append(l, c) \in Seq(ToSet(l) \cup {c})
  BY <1>1
<1>3. IsSeq(Append(l, c))
  BY <1>2, IsSeqOf
<1> QED BY <1>1, <1>3

\* l1 is l of length k with c appended.
Fits(l, k, l1, k1, c) ==
    k1 = k + 1 /\ IsSeq(l1) /\ Len(l1) = k1 /\ l1[k1] = c /\ \A a \in 1..k : l1[a] = l[a]

\* A list that ends below the next element can be extended by it.
LEMMA ClimbsOn ==
    ASSUME NEW N \in Nat, NEW s \in [1..N -> Nat], NEW n \in Nat,
           n + 1 <= N, NEW c, c = s[n + 1],
           NEW k \in Nat \ {0}, NEW l, Climbs(l, k, n, s), l[k] < c,
           NEW k1, NEW m, Fits(l, k, m, k1, c)
    PROVE  Climbs(m, k1, n + 1, s)
<1>1. PICK e : Chain(e, k, n, s) /\ \A a \in 1..k : l[a] = s[e[a]]
  BY DEF Climbs
<1>2. IsSeq(l) /\ Len(l) = k
  BY DEF Climbs
<1>3. /\ IsSeq(m) /\ Len(m) = k + 1 /\ m[k + 1] = c /\ (\A a \in 1..k : m[a] = l[a]) /\ k1 = k + 1
  BY DEF Fits
<1> DEFINE f == [a \in 1..(k + 1) |-> IF a = k + 1 THEN n + 1 ELSE e[a]]
<1>4. e \in [1..k -> 1..n] /\ \A a, b \in 1..k : a < b => e[a] < e[b] /\ s[e[a]] < s[e[b]]
  BY <1>1 DEF Chain
<1>5. /\ f \in [1..(k + 1) -> 1..(n + 1)] /\ f[k + 1] = n + 1 /\ (\A a \in 1..k : f[a] = e[a])
      /\ \A a \in 1..(k + 1) : a \in 1..k \/ a = k + 1
  BY <1>4
<1>6. \A a \in 1..k : s[e[a]] < c
  <2>1. k \in 1..k /\ \A a \in 1..k : a = k \/ a < k
    OBVIOUS
  <2>2. s[e[k]] < c
    BY <1>1, <2>1
  <2>3. \A a \in 1..k : e[a] \in 1..N /\ s[e[a]] \in Nat
    BY <1>4
  <2>4. c \in Nat
    OBVIOUS
  <2>5. ASSUME NEW a \in 1..k, a < k PROVE s[e[a]] < c
    <3>1. s[e[a]] < s[e[k]]
      BY <1>4, <2>1, <2>5
    <3> QED BY <2>1, <2>2, <2>3, <2>4, <3>1
  <2> QED BY <2>1, <2>2, <2>5
<1> HIDE DEF f
<1>7. ASSUME NEW a \in 1..(k + 1), NEW b \in 1..(k + 1), a < b
      PROVE  f[a] < f[b] /\ s[f[a]] < s[f[b]]
  <2>1. a \in 1..k
    BY <1>7
  <2>2. CASE b \in 1..k
    BY <1>4, <1>5, <1>7, <2>1, <2>2
  <2>3. CASE b = k + 1
    <3>1. f[a] = e[a] /\ e[a] \in 1..n /\ f[b] = n + 1
      BY <1>4, <1>5, <2>1, <2>3
    <3> QED BY <1>6, <2>1, <3>1
  <2> QED BY <1>5, <2>2, <2>3
<1>8. Chain(f, k + 1, n + 1, s)
  BY <1>5, <1>7 DEF Chain
<1>9. \A a \in 1..(k + 1) : m[a] = s[f[a]]
  BY <1>1, <1>3, <1>5
<1> QED BY <1>3, <1>8, <1>9 DEF Climbs

LEMMA ClimbsOne ==
    ASSUME NEW N \in Nat, NEW s \in [1..N -> Nat], NEW n \in 1..N, NEW m, m = <<s[n]>>
    PROVE  Climbs(m, 1, n, s) /\ m[1] = s[n]
<1> DEFINE f == [a \in 1..1 |-> n]
<1>1. IsSeq(m) /\ Len(m) = 1 /\ m[1] = s[n]
  BY SingletonFacts
<1>2. f \in [1..1 -> 1..n] /\ f[1] = n /\ \A a \in 1..1 : a = 1
  OBVIOUS
<1> HIDE DEF f
<1>3. Chain(f, 1, n, s)
  BY <1>2 DEF Chain
<1> QED BY <1>1, <1>2, <1>3 DEF Climbs

\* A chain up to n + 1 is one up to n, or such a chain followed by n + 1, or n + 1.
LEMMA ChainSplit ==
    ASSUME NEW s, NEW n \in Nat, NEW k \in Nat \ {0}, NEW e, Chain(e, k, n + 1, s)
    PROVE  \/ Chain(e, k, n, s)
           \/ e[k] = n + 1 /\ (k = 1 \/ \E f : Chain(f, k - 1, n, s) /\ s[f[k - 1]] < s[n + 1])
<1>1. /\ e \in [1..k -> 1..(n + 1)] /\ k \in 1..k
      /\ \A a, b \in 1..k : a < b => e[a] < e[b] /\ s[e[a]] < s[e[b]]
  BY DEF Chain
<1>2. CASE e[k] # n + 1
  <2>1. e[k] \in 1..n
    BY <1>1, <1>2
  <2>2. \A a \in 1..k : a = k \/ a < k
    OBVIOUS
  <2>3. \A a \in 1..k : e[a] \in 1..n
    BY <1>1, <2>1, <2>2
  <2>4. e \in [1..k -> 1..n]
    BY <1>1, <2>3
  <2> QED BY <1>1, <2>4 DEF Chain
<1>3. CASE e[k] = n + 1 /\ k # 1
  <2> DEFINE f == [a \in 1..(k - 1) |-> e[a]]
  <2>1. \A a \in 1..(k - 1) : a \in 1..k /\ a < k
    OBVIOUS
  <2>2. \A a \in 1..(k - 1) : e[a] \in 1..n
    BY <1>1, <1>3, <2>1
  <2>3. Chain(f, k - 1, n, s)
    BY <1>1, <2>1, <2>2 DEF Chain
  <2>4. k - 1 \in 1..(k - 1)
    BY <1>3
  <2>5. s[f[k - 1]] < s[n + 1]
    BY <1>1, <1>3, <2>1, <2>4
  <2> QED BY <1>3, <2>3, <2>5
<1> QED BY <1>2, <1>3

\* Arithmetic, apart from the lists that it is about.
LEMMA OneBelow ==
    ASSUME NEW k \in Nat \ {0}, k # 1
    PROVE  k - 1 \in Nat \ {0} /\ k - 1 \in 1..(k - 1)
OBVIOUS

\* No number is above b and at most a unless b is below a.
LEMMA NoneBetween ==
    ASSUME NEW a \in Nat, NEW b \in Nat, NEW c \in Nat, a = b \/ a < b, c <= a, b < c
    PROVE  FALSE
OBVIOUS

\* One list is replaced, or one added, so that the last elements still increase.
LEMMA PilesReplace ==
    ASSUME NEW N \in Nat, NEW s \in [1..N -> Nat], NEW n \in Nat, n + 1 <= N,
           NEW c, c = s[n + 1], NEW lists, Piles(lists, n, s), NEW L, L = Len(lists),
           NEW m \in 1..(L + 1), NEW l, Climbs(l, m, n + 1, s), l[m] = c,
           NEW new, IsSeq(new), m = L + 1 => Len(new) = m, m # L + 1 => Len(new) = L,
           new[m] = l, \A k \in 1..L : k # m => new[k] = lists[k],
           \A k \in 1..L : k < m => lists[k][k] < c,
           m \in 1..L => c <= lists[m][m], NEW n1, n1 = n + 1
    PROVE  Piles(new, n1, s)
<1> DEFINE M == Len(new)
<1>1. /\ IsSeq(lists) /\ lists # <<>> /\ \A k \in 1..L : Climbs(lists[k], k, n, s)
      /\ \A j, k \in 1..L : j < k => lists[j][j] < lists[k][k]
      /\ \A k \in Nat \ {0} : \A e : Chain(e, k, n, s) => k <= L /\ lists[k][k] <= s[e[k]]
  BY DEF Piles
<1>2. L \in Nat /\ L # 0 /\ M \in Nat /\ c \in Nat
  BY <1>1, NonemptyFacts, SeqFacts
<1> HIDE DEF M
<1>3. /\ \A k \in 1..M : k = m \/ k \in 1..L
      /\ 1..L \subseteq 1..M /\ m \in 1..M /\ m \in Nat /\ L <= M /\ M # 0
  <2>1. (m = L + 1 => M = m) /\ (m # L + 1 => M = L)
    BY DEF M
  <2> QED BY <1>2, <2>1, SMTT(30)
<1>4. \A k \in 1..L : lists[k][k] \in Nat
  <2> SUFFICES ASSUME NEW k \in 1..L PROVE lists[k][k] \in Nat
    OBVIOUS
  <2>1. PICK e : Chain(e, k, n, s) /\ \A a \in 1..k : lists[k][a] = s[e[a]]
    BY <1>1 DEF Climbs
  <2>2. k \in Nat /\ k \in 1..k
    BY <1>2
  <2>3. e[k] \in 1..n
    BY <2>1, <2>2 DEF Chain
  <2>4. e[k] \in 1..N
    BY <2>3
  <2>5. lists[k][k] = s[e[k]]
    BY <2>1, <2>2
  <2> QED BY <2>4, <2>5
<1>5. /\ new[m][m] = c /\ \A k \in 1..L : k # m => new[k][k] = lists[k][k]
      /\ \A k \in 1..M : new[k][k] \in Nat
  <2>1. new[m][m] = c
    OBVIOUS
  <2>2. \A k \in 1..L : k # m => new[k][k] = lists[k][k]
    OBVIOUS
  <2> QED BY <1>2, <1>3, <1>4, <2>1, <2>2
<1>6. \A k \in 1..M : Climbs(new[k], k, n + 1, s)
  <2> SUFFICES ASSUME NEW k \in 1..M PROVE Climbs(new[k], k, n + 1, s)
    OBVIOUS
  <2>1. CASE k = m
    BY <2>1
  <2>2. CASE k # m
    <3>1. k \in 1..L /\ k \in Nat /\ new[k] = lists[k]
      BY <1>2, <1>3, <2>2
    <3> QED BY <1>1, <3>1, ClimbsLater
  <2> QED BY <2>1, <2>2
<1>7. \A k \in 1..L : k < m => lists[k][k] < c
  OBVIOUS
<1>8. m \in 1..L => c <= lists[m][m]
  OBVIOUS
<1>9. new # <<>>
  BY <1>3, NonemptyFacts DEF M
<1>10. ASSUME NEW j \in 1..M, NEW k \in 1..M, j < k
       PROVE  new[j][j] < new[k][k]
  <2>1. CASE j # m /\ k # m
    BY <1>1, <1>3, <1>5, <1>10, <2>1
  <2>2. CASE k = m
    <3>1. j \in 1..L /\ j < m /\ j # m
      BY <1>2, <1>3, <1>10, <2>2
    <3> QED BY <1>5, <1>7, <2>2, <3>1
  <2>3. CASE j = m
    <3>1. k \in 1..L /\ m \in 1..L /\ k # m
      BY <1>2, <1>3, <1>10, <2>3, m \in 1..M, k \in 1..M
    <3>2. lists[m][m] < lists[k][k]
      BY <1>1, <1>10, <2>3, <3>1
    <3> QED BY <1>2, <1>4, <1>5, <1>8, <2>3, <3>1, <3>2
  <2> QED BY <2>1, <2>2, <2>3
<1>11. \A k \in 1..L : new[k][k] <= lists[k][k]
  <2> SUFFICES ASSUME NEW k \in 1..L PROVE new[k][k] <= lists[k][k]
    OBVIOUS
  <2>1. CASE k = m
    BY <1>5, <1>8, <2>1
  <2>2. CASE k # m
    BY <1>4, <1>5, <2>2
  <2> QED BY <2>1, <2>2
<1>12. \A k \in 1..M : k <= m => new[k][k] <= c
  <2> SUFFICES ASSUME NEW k \in 1..M, k <= m PROVE new[k][k] <= c
    OBVIOUS
  <2>1. CASE k = m
    BY <1>2, <1>5, <2>1
  <2>2. CASE k # m
    <3>1. k < m
      BY <1>2, <1>3, <2>2
    <3>2. new[k][k] < c
      BY <1>3, <1>5, <1>10, <3>1
    <3> QED BY <1>2, <1>5, <3>2
  <2> QED BY <2>1, <2>2
<1>13. ASSUME NEW k \in Nat \ {0}, NEW e, Chain(e, k, n + 1, s)
       PROVE  k <= M /\ new[k][k] <= s[e[k]]
  <2>1. k \in 1..k /\ e[k] \in 1..(n + 1) /\ e[k] \in 1..N /\ s[e[k]] \in Nat
    BY <1>13 DEF Chain
  <2>2. CASE Chain(e, k, n, s)
    <3>1. k <= L /\ lists[k][k] <= s[e[k]]
      BY <1>1, <2>2
    <3>2. k \in 1..L /\ k <= M
      BY <1>2, <1>3, <3>1
    <3> QED BY <1>3, <1>4, <1>5, <1>11, <2>1, <3>1, <3>2
  <2>3. CASE e[k] = n + 1 /\ k = 1
    <3>1. k \in 1..M /\ k <= m /\ s[e[k]] = c
      BY <1>2, <1>3, <2>3
    <3> QED BY <1>12, <1>3, <3>1
  <2>4. ASSUME e[k] = n + 1, k # 1, NEW f, Chain(f, k - 1, n, s), s[f[k - 1]] < s[n + 1]
        PROVE  k <= M /\ new[k][k] <= s[e[k]]
    <3>1. k - 1 \in Nat \ {0} /\ k - 1 \in 1..(k - 1)
      BY <2>4, OneBelow
    <3>2. k - 1 <= L /\ lists[k - 1][k - 1] <= s[f[k - 1]]
      BY <1>1, <2>4, <3>1
    <3>3. k - 1 \in 1..L
      BY <1>2, <3>1, <3>2
    <3>4. f[k - 1] \in 1..N /\ s[f[k - 1]] \in Nat
      BY <2>4, <3>1 DEF Chain
    <3>5. lists[k - 1][k - 1] < c
      <4>1. lists[k - 1][k - 1] \in Nat
        BY <1>4, <3>3
      <4>2. s[f[k - 1]] < c
        BY <2>4
      <4> QED BY <1>2, <3>2, <3>4, <4>1, <4>2, SMTT(30)
    <3>6. k - 1 < m
      <4> SUFFICES ASSUME m <= k - 1 PROVE FALSE
        BY <1>3, <3>1
      <4>1. m \in 1..L
        BY <1>2, <1>3, <3>3
      <4>2. m = k - 1 \/ lists[m][m] < lists[k - 1][k - 1]
        BY <1>1, <3>3, <4>1
      <4>3. lists[m][m] \in Nat /\ lists[k - 1][k - 1] \in Nat /\ c <= lists[m][m]
        BY <1>4, <1>8, <3>3, <4>1
      <4> DEFINE a == lists[m][m]
                 b == lists[k - 1][k - 1]
      <4>4. a = b \/ a < b
        BY <4>2
      <4>5. a \in Nat /\ b \in Nat /\ c \in Nat /\ c <= a /\ b < c
        BY <1>2, <3>5, <4>3
      <4> HIDE DEF a, b
      <4> QED BY <4>4, <4>5, NoneBetween
    <3>7. k \in 1..M /\ k <= m
      BY <1>2, <1>3, <3>1, <3>6
    <3> QED BY <1>12, <1>3, <2>4, <3>7
  <2>5. \/ Chain(e, k, n, s)
        \/ e[k] = n + 1 /\ (k = 1 \/ \E f : Chain(f, k - 1, n, s) /\ s[f[k - 1]] < s[n + 1])
    BY <1>13, ChainSplit
  <2> QED BY <2>2, <2>3, <2>4, <2>5
<1> QED BY <1>6, <1>9, <1>10, <1>13 DEF Piles, M

LEMMA ExtendPiles ==
    ASSUME NEW N \in Nat, NEW s \in [1..N -> Nat], \A i, j \in 1..N : s[i] = s[j] => i = j,
           NEW n \in Nat, n + 1 <= N, NEW c, c = s[n + 1],
           NEW lists, Piles(lists, n, s), NEW L, L = Len(lists),
           NEW new, new = Extend(lists, c)
    PROVE  Piles(new, n + 1, s)
<1> DEFINE below == {j \in 1..L - 1 : c > Last(lists[j])}
<1>1. /\ IsSeq(lists) /\ lists # <<>> /\ \A k \in 1..L : Climbs(lists[k], k, n, s)
      /\ \A j, k \in 1..L : j < k => lists[j][j] < lists[k][k]
  BY DEF Piles
<1>2. L \in Nat /\ L # 0 /\ c \in Nat /\ DOMAIN lists = 1..L /\ 1 \in 1..L /\ L \in 1..L
  BY <1>1, NonemptyFacts, SeqFacts
<1>3. \A k \in 1..L : IsSeq(lists[k]) /\ Len(lists[k]) = k /\ Last(lists[k]) = lists[k][k]
  BY <1>1 DEF Climbs, Last
<1>4. \A k \in 1..L : lists[k][k] \in Nat /\ lists[k][k] # c
  <2> SUFFICES ASSUME NEW k \in 1..L PROVE lists[k][k] \in Nat /\ lists[k][k] # c
    OBVIOUS
  <2>1. PICK e : Chain(e, k, n, s) /\ \A a \in 1..k : lists[k][a] = s[e[a]]
    BY <1>1 DEF Climbs
  <2>2. k \in Nat /\ k \in 1..k
    BY <1>2
  <2>3. e[k] \in 1..n
    BY <2>1, <2>2 DEF Chain
  <2>4. e[k] \in 1..N /\ e[k] # n + 1 /\ n + 1 \in 1..N
    BY <2>3
  <2>5. lists[k][k] = s[e[k]]
    BY <2>1, <2>2
  <2> QED BY <2>4, <2>5
<1>5. Last(lists) = lists[L] /\ Last(Last(lists)) = lists[L][L]
  BY <1>2, <1>3 DEF Last
<1>6. below = {j \in 1..L - 1 : c > lists[j][j]}
  <2>1. \A j \in 1..L - 1 : j \in 1..L
    BY <1>2
  <2> QED BY <1>3, <2>1
<1>7. /\ c < lists[1][1] => new = [lists EXCEPT ![1] = <<c>>]
      /\ ~(c < lists[1][1]) /\ c > lists[L][L] => new = Append(lists, Append(lists[L], c))
      /\ ~(c < lists[1][1]) /\ ~(c > lists[L][L]) =>
            new = [lists EXCEPT ![Max(below) + 1] = Append(lists[Max(below)], c)]
  BY <1>5 DEF Extend
<1>8. n \in Nat /\ n + 1 \in 1..N /\ c = s[n + 1]
  OBVIOUS
<1>9. CASE c < lists[1][1]
  <2> DEFINE l == <<c>>
  <2>1. Climbs(l, 1, n + 1, s) /\ l[1] = c
    BY <1>8, ClimbsOne
  <2> HIDE DEF l
  <2>2. /\ new = [k \in 1..L |-> new[k]] /\ new[1] = l /\ \A k \in 1..L : k # 1 => new[k] = lists[k]
    BY <1>2, <1>7, <1>9 DEF l
  <2>3. IsSeq(new) /\ Len(new) = L
    BY <1>2, <2>2, FunctionIsSeq
  <2>4. c <= lists[1][1] /\ 1 \in 1..L + 1 /\ 1 # L + 1
    BY <1>2, <1>4, <1>9
  <2>5. (\A k \in 1..L : k < 1 => lists[k][k] < c) /\ (1 = L + 1 => Len(new) = 1)
    BY <1>2
  <2> QED BY <1>8, <2>1, <2>2, <2>3, <2>4, <2>5, PilesReplace
<1>10. CASE ~(c < lists[1][1]) /\ c > lists[L][L]
  <2> DEFINE l == Append(lists[L], c)
             m == L + 1
  <2>1. Climbs(l, m, n + 1, s) /\ l[m] = c
    <3>1. L \in Nat \ {0} /\ Climbs(lists[L], L, n, s) /\ lists[L][L] < c
      BY <1>1, <1>2, <1>4, <1>10
    <3>2. IsSeq(l) /\ Len(l) = m /\ l[m] = c /\ \A a \in 1..L : l[a] = lists[L][a]
      BY <1>2, <1>3, AppendFacts
    <3>3. Fits(lists[L], L, l, m, c)
      BY <3>2 DEF Fits
    <3> HIDE DEF m, l
    <3> QED BY <3>1, <3>2, <3>3, ClimbsOn
  <2> HIDE DEF l
  <2>2. new = Append(lists, l)
    BY <1>7, <1>10 DEF l
  <2>3. IsSeq(new) /\ Len(new) = m /\ new[m] = l /\ \A k \in 1..L : new[k] = lists[k]
    <3>1. lists \in Seq(ToSet(lists) \cup {l}) /\ l \in ToSet(lists) \cup {l}
      BY <1>1, SeqOver
    <3>2. /\ new \in Seq(ToSet(lists) \cup {l}) /\ Len(new) = m /\ new[m] = l
          /\ \A k \in 1..L : new[k] = lists[k]
      BY <2>2, <3>1, <1>2
    <3> QED BY <3>2, IsSeqOf
  <2>4. \A k \in 1..L : k < m => lists[k][k] < c
    <3> SUFFICES ASSUME NEW k \in 1..L PROVE lists[k][k] < c
      OBVIOUS
    <3>1. k = L \/ lists[k][k] < lists[L][L]
      BY <1>1, <1>2
    <3>2. lists[L][L] \in Nat /\ lists[k][k] \in Nat
      BY <1>2, <1>4
    <3> QED BY <1>2, <1>10, <3>1, <3>2
  <2>5. m \in 1..L + 1 /\ m \notin 1..L /\ m = L + 1
    BY <1>2
  <2> HIDE DEF m
  <2> QED BY <1>8, <2>1, <2>3, <2>4, <2>5, PilesReplace
<1>11. CASE ~(c < lists[1][1]) /\ ~(c > lists[L][L])
  <2>1. 1 \in below
    <3>1. lists[1][1] \in Nat /\ lists[1][1] # c /\ lists[L][L] \in Nat /\ lists[L][L] # c
      BY <1>2, <1>4
    <3>2. c > lists[1][1] /\ c < lists[L][L]
      BY <1>2, <1>11, <3>1
    <3>3. L # 1
      BY <1>2, <3>1, <3>2
    <3>4. 1 \in 1..L - 1
      BY <1>2, <3>3
    <3> HIDE DEF below
    <3> QED BY <1>6, <3>2, <3>4
  <2> DEFINE x == Max(below)
             m == x + 1
             l == Append(lists[x], c)
  <2>2. below \subseteq 0..L
    BY <1>2
  <2>3. x \in below /\ \A y \in below : y <= x
    <3>1. \E y \in below : \A z \in below : z <= y
      <4> DEFINE C == {L - y : y \in below}
      <4>1. C \subseteq Nat /\ C # {}
        BY <1>2, <2>1, <2>2
      <4>2. PICK u \in C : \A v \in C : u <= v
        <5> HIDE DEF C
        <5> QED BY <4>1, Least
      <4>3. PICK y \in below : u = L - y
        BY <4>2
      <4>4. ASSUME NEW z \in below PROVE z <= y
        <5>1. L - y <= L - z
          BY <4>2, <4>3
        <5> QED BY <1>2, <2>2, <5>1
      <4> QED BY <4>4
    <3> HIDE DEF below
    <3> QED BY <3>1 DEF Max
  <2> HIDE DEF x
  <2>4. x \in 1..L - 1 /\ c > lists[x][x] /\ x \in 1..L /\ m \in 1..L /\ x \in Nat \ {0} /\ m # L + 1
    <3>1. x \in 1..L - 1 /\ c > lists[x][x]
      BY <1>6, <2>3
    <3> QED BY <1>2, <3>1
  <2>5. c <= lists[m][m]
    <3> SUFFICES ASSUME ~(c <= lists[m][m]) PROVE FALSE
      OBVIOUS
    <3>1. lists[m][m] \in Nat
      BY <1>4, <2>4
    <3>2. c > lists[m][m]
      BY <1>2, <3>1
    <3>3. m # L
      BY <1>11, <3>2
    <3>4. m \in below
      BY <1>2, <1>6, <2>4, <3>2, <3>3, SMTT(30)
    <3> QED BY <2>3, <2>4, <3>4
  <2>6. \A k \in 1..L : k < m => lists[k][k] < c
    <3> SUFFICES ASSUME NEW k \in 1..L, k < m PROVE lists[k][k] < c
      OBVIOUS
    <3>1. k = x \/ k < x
      BY <1>2, <2>4
    <3> HIDE DEF m
    <3>2. k = x \/ lists[k][k] < lists[x][x]
      BY <1>1, <2>4, <3>1
    <3>3. lists[k][k] \in Nat /\ lists[x][x] \in Nat
      BY <1>4, <2>4
    <3> QED BY <1>2, <2>4, <3>2, <3>3, SMTT(30)
  <2> HIDE DEF below
  <2>7. Climbs(l, m, n + 1, s) /\ l[m] = c
    <3>1. Climbs(lists[x], x, n, s) /\ lists[x][x] < c
      BY <1>1, <2>4
    <3>2. IsSeq(l) /\ Len(l) = m /\ l[m] = c /\ \A a \in 1..x : l[a] = lists[x][a]
      BY <1>2, <1>3, <2>4, AppendFacts
    <3>3. Fits(lists[x], x, l, m, c)
      BY <3>2 DEF Fits
    <3> HIDE DEF m, l
    <3> QED BY <2>4, <3>1, <3>2, <3>3, ClimbsOn
  <2>8. new = [lists EXCEPT ![m] = l]
    BY <1>7, <1>11 DEF x
  <2> HIDE DEF l, m
  <2>9. new = [k \in 1..L |-> new[k]] /\ new[m] = l /\ \A k \in 1..L : k # m => new[k] = lists[k]
    BY <1>2, <2>4, <2>8
  <2>10. IsSeq(new) /\ Len(new) = L
    BY <1>2, <2>9, FunctionIsSeq
  <2>11. m \in 1..L + 1 /\ (m = L + 1 => Len(new) = m)
    BY <1>2, <2>4
  <2> QED BY <1>8, <2>4, <2>5, <2>6, <2>7, <2>9, <2>10, <2>11, PilesReplace
<1> QED BY <1>9, <1>10, <1>11

LEMMA PilesInSeq ==
    ASSUME NEW N \in Nat, NEW s \in [1..N -> Nat], NEW n \in 0..N, NEW v, Piles(v, n, s)
    PROVE  v \in Seq(Seq(Nat))
<1>1. IsSeq(v) /\ \A k \in 1..Len(v) : Climbs(v[k], k, n, s)
  BY DEF Piles
<1>2. ASSUME NEW k \in 1..Len(v) PROVE v[k] \in Seq(Nat)
  <2>1. Climbs(v[k], k, n, s)
    BY <1>1
  <2> DEFINE l == v[k]
  <2>2. IsSeq(l) /\ Len(l) = k
    BY <2>1 DEF Climbs
  <2>3. PICK e : Chain(e, k, n, s) /\ \A a \in 1..k : l[a] = s[e[a]]
    BY <2>1 DEF Climbs
  <2>4. \A a \in 1..k : e[a] \in 1..n
    BY <2>3 DEF Chain
  <2>5. 1..n \subseteq 1..N
    OBVIOUS
  <2>6. \A a \in 1..k : l[a] \in Nat
    BY <2>3, <2>4, <2>5
  <2> HIDE DEF l
  <2>7. ToSet(l) \subseteq Nat
    BY <2>2, <2>6, SeqFacts
  <2>8. l \in Seq(Nat)
    BY <2>2, <2>7, SeqOver
  <2> QED BY <2>8 DEF l
<1>3. ToSet(v) \subseteq Seq(Nat)
  BY <1>1, <1>2, SeqFacts
<1> QED BY <1>1, <1>3, SeqOver

LEMMA PilesBase ==
    ASSUME NEW N \in Nat, N # 0, NEW s \in [1..N -> Nat], NEW v, v = << <<s[1]>> >>
    PROVE  Piles(v, 1, s)
<1> DEFINE l == <<s[1]>>
<1>1. IsSeq(v) /\ Len(v) = 1 /\ v[1] = l
  BY SingletonFacts
<1>2. Climbs(l, 1, 1, s) /\ l[1] = s[1]
  <2>1. 1 \in 1..N
    OBVIOUS
  <2> QED BY <2>1, ClimbsOne
<1> HIDE DEF l
<1>3. v # <<>>
  BY <1>1, NonemptyFacts
<1>4. \A k \in 1..1 : k = 1
  OBVIOUS
<1>5. ASSUME NEW k \in Nat \ {0}, NEW e, Chain(e, k, 1, s)
      PROVE  k <= 1 /\ v[k][k] <= s[e[k]]
  <2>1. e \in [1..k -> 1..1] /\ \A a, b \in 1..k : a < b => e[a] < e[b]
    BY <1>5 DEF Chain
  <2>2. k = 1
    <3> SUFFICES ASSUME k # 1 PROVE FALSE
      OBVIOUS
    <3>1. 1 \in 1..k /\ 2 \in 1..k
      BY <1>5
    <3>2. e[1] < e[2] /\ e[1] \in 1..1 /\ e[2] \in 1..1
      BY <2>1, <3>1
    <3> QED BY <3>2
  <2>3. e[1] = 1 /\ s[1] \in Nat
    BY <2>1, <2>2
  <2> QED BY <1>1, <1>2, <2>2, <2>3
<1> QED BY <1>1, <1>2, <1>3, <1>4, <1>5 DEF Piles

\* What the loop of longestIncreasingSubsequence has after its last turn.
LEMMA LongestList ==
    ASSUME NEW N \in Nat, N >= 2, NEW s \in [1..N -> Nat], \A i, j \in 1..N : s[i] = s[j] => i = j,
           IsSeq(s), Len(s) = N, NEW r, r = longestIncreasingSubsequence(s)
    PROVE  \E v : Piles(v, N, s) /\ r = Last(v)
<1> DEFINE Rec(f) == f = [n \in 1..N |-> IF n = 1 THEN << <<s[1]>> >> ELSE Extend(f[n - 1], s[n])]
           F == CHOOSE f : Rec(f)
           V == Seq(Seq(Nat))
           start == << <<s[1]>> >>
           step == [n \in 1..N |-> [v \in V |-> IF n # 1 /\ Piles(v, n - 1, s)
                                                  THEN Extend(v, s[n]) ELSE v]]
<1>1. r = Last(F[N])
  BY DEF longestIncreasingSubsequence
<1>2. ASSUME NEW n \in 1..N, n # 1, NEW v, Piles(v, n - 1, s)
      PROVE  Piles(Extend(v, s[n]), n, s)
  <2> DEFINE m == n - 1
             new == Extend(v, s[n])
             c == s[n]
             L == Len(v)
  <2>1. m \in Nat /\ n = m + 1 /\ m + 1 <= N /\ c = s[m + 1] /\ L = Len(v) /\ new = Extend(v, c)
    BY <1>2
  <2>2. Piles(v, m, s)
    BY <1>2
  <2> HIDE DEF m, new, c, L
  <2>3. Piles(new, m + 1, s)
    BY <2>1, <2>2, ExtendPiles
  <2> QED BY <2>1, <2>3 DEF new
<1>3. Piles(start, 1, s)
  BY PilesBase
<1>4. start \in V
  <2>1. 1 \in 0..N
    OBVIOUS
  <2> HIDE DEF start
  <2> QED BY <1>3, <2>1, PilesInSeq
<1>5. step \in [1..N -> [V -> V]]
  <2> HIDE DEF V
  <2> SUFFICES ASSUME NEW n \in 1..N, NEW v \in V, n # 1, Piles(v, n - 1, s)
               PROVE  Extend(v, s[n]) \in V
    OBVIOUS
  <2>1. Piles(Extend(v, s[n]), n, s)
    BY <1>2
  <2>2. n \in 0..N
    OBVIOUS
  <2> QED BY <2>1, <2>2, PilesInSeq DEF V
<1> HIDE DEF V, start
<1>6. PICK g : Recursive(g, 1, N, V, start, step)
  <2>1. 1 \in Nat /\ 1 <= N
    OBVIOUS
  <2> HIDE DEF step
  <2> QED BY <1>4, <1>5, <2>1, Recursion
<1>7. g \in [1..N -> V] /\ g[1] = start /\ \A n \in 1..N : n # 1 => g[n] = step[n][g[n - 1]]
  BY <1>6 DEF Recursive
<1>8. \A n \in 1..N : n # 1 => n - 1 \in 1..N
  OBVIOUS
<1>9. ASSUME NEW n \in 1..N, n # 1, Piles(g[n - 1], n - 1, s)
      PROVE  g[n] = Extend(g[n - 1], s[n])
  <2>1. g[n] = step[n][g[n - 1]] /\ g[n - 1] \in V
    BY <1>7, <1>8, <1>9
  <2> QED BY <1>9, <2>1
<1> HIDE DEF step
<1> DEFINE Good(f) == f[1] = start /\ \A n \in 1..N : n # 1 /\ Piles(f[n - 1], n - 1, s) =>
                                                  f[n] = Extend(f[n - 1], s[n])
<1>10. ASSUME NEW f, Good(f)
       PROVE  \A n \in 1..N : Piles(f[n], n, s)
  <2> DEFINE B == {n \in 1..N : Piles(f[n], n, s)}
  <2>1. 1 \in B /\ 1 \in Nat
    BY <1>3, <1>10
  <2>2. ASSUME NEW n \in 1..N, n \in B, n + 1 <= N PROVE n + 1 \in B
    <3> DEFINE m == n + 1
    <3>1. m \in 1..N /\ m # 1 /\ m - 1 = n
      BY <2>2
    <3>2. Piles(f[m - 1], m - 1, s)
      BY <2>2, <3>1
    <3> HIDE DEF m
    <3>3. f[m] = Extend(f[m - 1], s[m])
      BY <1>10, <3>1, <3>2
    <3>4. Piles(f[m], m, s)
      BY <1>2, <3>1, <3>2, <3>3
    <3> QED BY <3>1, <3>4 DEF m
  <2> HIDE DEF B
  <2>3. \A n \in 1..N : n \in B
    BY <2>1, <2>2, Induction
  <2> QED BY <2>3 DEF B
<1>11. \A n \in 1..N : Piles(g[n], n, s)
  <2>1. Good(g)
    BY <1>7, <1>9
  <2> HIDE DEF Good
  <2> QED BY <1>10, <2>1
<1>12. Rec(g)
  <2>1. \A n \in 1..N : n # 1 => g[n] = Extend(g[n - 1], s[n])
    BY <1>8, <1>9, <1>11
  <2>2. \A n \in 1..N : g[n] = IF n = 1 THEN << <<s[1]>> >> ELSE Extend(g[n - 1], s[n])
    BY <1>7, <2>1 DEF start
  <2> QED BY <1>7, <2>2
<1>13. Rec(F)
  <2> HIDE DEF Rec
  <2> QED BY <1>12
<1> HIDE DEF F
<1>14. Good(F)
  BY <1>13 DEF start
<1>15. Piles(F[N], N, s)
  <2> HIDE DEF Good
  <2>1. N \in 1..N
    OBVIOUS
  <2> QED BY <1>10, <1>14, <2>1
<1> QED BY <1>1, <1>15

\* D is a set of positions in s at which the elements increase.
Rising(D, N, s) == D \subseteq 1..N /\ \A i, j \in D : i < j => s[i] < s[j]

Longest(L, N, s) ==
    /\ \E D : Rising(D, N, s) /\ Cardinality(D) = L
    /\ \A D : Rising(D, N, s) => Cardinality(D) <= L

\* The indices of the elements of s that are in C.
Indices(R, N, s, C) == R = {i \in 1..N : s[i] \in C}

LEMMA LongestFacts ==
    ASSUME NEW N \in Nat, NEW s \in [1..N -> Nat], \A i, j \in 1..N : s[i] = s[j] => i = j,
           IsSeq(s), Len(s) = N, NEW r, r = longestIncreasingSubsequence(s),
           NEW R, Indices(R, N, s, ToSet(r))
    PROVE  /\ IsFiniteSet(ToSet(r)) /\ Cardinality(ToSet(r)) \in Nat
           /\ ToSet(r) \subseteq {s[i] : i \in 1..N}
           /\ Longest(Cardinality(ToSet(r)), N, s)
           /\ Rising(R, N, s)
<1>1. CASE N < 2
  <2>1. r = s /\ ToSet(r) = {s[i] : i \in 1..N}
    BY <1>1, SeqFacts DEF longestIncreasingSubsequence
  <2>2. IsFiniteSet(1..N) /\ Cardinality(1..N) = N
    BY CountUpTo
  <2>3. IsFiniteSet(ToSet(r)) /\ Cardinality(ToSet(r)) = N
    <3>1. Numbers(s, N, ToSet(r))
      BY <2>1 DEF Numbers
    <3> QED BY <3>1, CountRange
  <2>4. Rising(1..N, N, s)
    BY <1>1 DEF Rising
  <2>5. \A D : Rising(D, N, s) => Cardinality(D) <= N
    <3> SUFFICES ASSUME NEW D, Rising(D, N, s) PROVE Cardinality(D) <= N
      OBVIOUS
    <3>1. D \subseteq 1..N
      BY DEF Rising
    <3> QED BY <3>1, CountWithin
  <2>6. Rising(R, N, s)
    BY <1>1 DEF Rising, Indices
  <2>7. Longest(Cardinality(ToSet(r)), N, s)
    BY <2>2, <2>3, <2>4, <2>5 DEF Longest
  <2> QED BY <2>1, <2>3, <2>6, <2>7
<1>2. CASE N >= 2
  <2>1. PICK v : Piles(v, N, s) /\ r = Last(v)
    BY <1>2, LongestList
  <2> DEFINE L == Len(v)
  <2>2. /\ IsSeq(v) /\ v # <<>> /\ \A k \in 1..L : Climbs(v[k], k, N, s)
        /\ \A k \in Nat \ {0} : \A e : Chain(e, k, N, s) => k <= L
    BY <2>1 DEF Piles
  <2>3. L \in Nat /\ L # 0 /\ L \in 1..L /\ r = v[L]
    BY <2>1, <2>2, SeqFacts, NonemptyFacts DEF Last
  <2> HIDE DEF L
  <2>4. Climbs(r, L, N, s)
    BY <2>2, <2>3
  <2>5. IsSeq(r) /\ Len(r) = L
    BY <2>4 DEF Climbs
  <2>6. PICK e : Chain(e, L, N, s) /\ \A a \in 1..L : r[a] = s[e[a]]
    BY <2>4 DEF Climbs
  <2>7. e \in [1..L -> 1..N] /\ \A a, b \in 1..L : a < b => e[a] < e[b] /\ s[e[a]] < s[e[b]]
    BY <2>6 DEF Chain
  <2>9. ToSet(r) = {r[a] : a \in 1..L}
    BY <2>5, SeqFacts
  <2>10. \A a, b \in 1..L : e[a] = e[b] => a = b
    <3>1. \A a, b \in 1..L : a < b \/ b < a \/ a = b
      BY <2>3
    <3>2. \A a \in 1..L : e[a] \in Nat
      BY <2>7
    <3> QED BY <2>7, <3>1, <3>2
  <2>11. \A a, b \in 1..L : r[a] = r[b] => a = b
    <3>1. \A a \in 1..L : e[a] \in 1..N
      BY <2>7
    <3> QED BY <2>6, <2>10, <3>1
  <2>12. IsFiniteSet(ToSet(r)) /\ Cardinality(ToSet(r)) = L
    <3>1. Numbers(r, L, ToSet(r))
      BY <2>9, <2>11 DEF Numbers
    <3> QED BY <2>3, <3>1, CountRange
  <2>13. ToSet(r) \subseteq {s[i] : i \in 1..N}
    BY <2>6, <2>7, <2>9
  <2> DEFINE D == {e[a] : a \in 1..L}
  <2>14. Cardinality(D) = L
    <3>1. Numbers(e, L, D)
      BY <2>10 DEF Numbers
    <3> HIDE DEF D
    <3> QED BY <2>3, <3>1, CountRange
  <2>15. Rising(D, N, s)
    <3>1. D \subseteq 1..N
      BY <2>7
    <3>2. ASSUME NEW i \in D, NEW j \in D, i < j PROVE s[i] < s[j]
      <4>1. PICK a \in 1..L : i = e[a]
        OBVIOUS
      <4>2. PICK b \in 1..L : j = e[b]
        OBVIOUS
      <4>3. a < b \/ b < a \/ a = b
        BY <2>3
      <4>4. e[a] \in Nat /\ e[b] \in Nat
        BY <2>7, SMTT(30)
      <4>5. a < b
        BY <2>7, <3>2, <4>1, <4>2, <4>3, <4>4
      <4> QED BY <2>7, <4>1, <4>2, <4>5
    <3> HIDE DEF D
    <3> QED BY <3>1, <3>2 DEF Rising
  <2>17. R = D
    <3>1. \A a \in 1..L : e[a] \in 1..N /\ r[a] = s[e[a]]
      BY <2>6, <2>7
    <3> QED BY <2>9, <3>1, SMTT(30) DEF Indices
  <2> HIDE DEF D
  <2>16. ASSUME NEW E, Rising(E, N, s) PROVE Cardinality(E) <= L
    <3> DEFINE k == Cardinality(E)
               f == [a \in 1..k |-> Nth(E, a)]
    <3>1. E \in SUBSET (1..N)
      BY <2>16 DEF Rising
    <3>2. /\ k \in Nat /\ \A a \in 1..k : Nth(E, a) \in E
          /\ \A a, b \in 1..k : a < b => Nth(E, a) < Nth(E, b)
      BY <3>1, NthProperties
    <3> HIDE DEF k
    <3>3. \A a, b \in 1..k : a < b => s[Nth(E, a)] < s[Nth(E, b)]
      BY <2>16, <3>2 DEF Rising
    <3>4. Chain(f, k, N, s)
      BY <3>1, <3>2, <3>3 DEF Chain
    <3> HIDE DEF f
    <3>5. k # 0 => k <= L
      BY <2>2, <3>2, <3>4
    <3> QED BY <2>3, <3>2, <3>5 DEF k
  <2>18. Longest(Cardinality(ToSet(r)), N, s)
    BY <2>12, <2>14, <2>15, <2>16 DEF Longest
  <2> QED BY <2>3, <2>12, <2>13, <2>15, <2>17, <2>18
<1> QED BY <1>1, <1>2

\* Where the columns of old are in new.
Whereabouts(old, new) == [n \in DOMAIN old |-> CHOOSE k \in DOMAIN new : new[k].name = old[n].name]

Locates(s, old, new) ==
    /\ s \in [1..Len(old) -> 1..Len(new)] /\ Len(old) <= Len(new)
    /\ \A n \in 1..Len(old) : new[s[n]].name = old[n].name
    /\ \A i, j \in 1..Len(old) : s[i] = s[j] => i = j

LEMMA WhereFacts ==
    ASSUME NEW old, IsSeq(old), NamesDiffer(old), NEW new, IsSeq(new),
           NEW X, X = Names(old), X \subseteq Names(new), NEW s, s = Whereabouts(old, new)
    PROVE  Locates(s, old, new)
<1> DEFINE N == Len(old)
           K == Len(new)
<1>1. /\ N \in Nat /\ DOMAIN old = 1..N /\ \A n \in 1..N : old[n] \in ToSet(old)
      /\ K \in Nat /\ DOMAIN new = 1..K
  BY SeqFacts
<1>2. \A n \in 1..N : old[n].name \in Names(new)
  BY <1>1 DEF Names
<1>3. ASSUME NEW n \in 1..N PROVE \E k \in 1..K : new[k].name = old[n].name
  <2>1. PICK c \in ToSet(new) : c.name = old[n].name
    BY <1>2 DEF Names
  <2>2. PICK k \in 1..K : new[k] = c
    BY <2>1, ElementAt
  <2> QED BY <2>1, <2>2
<1> HIDE DEF N, K
<1>4. s = [n \in 1..N |-> CHOOSE k \in 1..K : new[k].name = old[n].name]
  BY <1>1 DEF Whereabouts
<1>5. ASSUME NEW n \in 1..N PROVE s[n] \in 1..K /\ new[s[n]].name = old[n].name
  BY <1>3, <1>4
<1>6. s \in [1..N -> 1..K]
  <2>1. s = [n \in 1..N |-> s[n]]
    BY <1>4
  <2> QED BY <1>5, <2>1
<1>7. \A i, j \in 1..N : s[i] = s[j] => i = j
  BY <1>5 DEF NamesDiffer, N
<1> DEFINE T == {s[x] : x \in 1..N}
<1>8. T \subseteq 1..K /\ T = {s[x] : x \in 1..N}
  BY <1>5
<1> HIDE DEF T
<1>9. Cardinality(T) = N
  <2>1. Numbers(s, N, T)
    BY <1>7, <1>8 DEF Numbers
  <2> QED BY <1>1, <2>1, CountRange
<1>10. N <= K
  BY <1>1, <1>8, <1>9, CountWithin
<1> QED BY <1>5, <1>6, <1>7, <1>10 DEF N, K, Locates

\* s leads from the columns `old` to `new`, and up where it leads into stay.
Stays(stay, N, s, old, new) ==
    /\ \A i, j \in 1..N : s[i] \in stay /\ s[j] \in stay /\ i < j => s[i] < s[j]
    /\ \A n \in 1..N : s[n] \in 1..N /\ new[s[n]].name = old[n].name

\* The columns that stay are as many as can, and the others are moved.
LEMMA StayFacts ==
    ASSUME NEW old, IsSeq(old), NamesDiffer(old), NEW new, IsSeq(new), NamesDiffer(new),
           Names(old) = Names(new), NEW N, N = Len(new), NEW s, s = Whereabouts(old, new),
           NEW stay, stay = IF SameOrder(old, new) THEN DOMAIN new ELSE StayPut(old, new)
    PROVE  /\ Len(old) = N /\ N \in Nat /\ s \in [1..N -> Nat] /\ IsFiniteSet(stay)
           /\ stay \subseteq 1..N /\ Cardinality(stay) \in Nat /\ Longest(Cardinality(stay), N, s)
           /\ Stays(stay, N, s, old, new)
<1>1. /\ s \in [1..Len(old) -> 1..N] /\ Len(old) <= N
      /\ \A n \in 1..Len(old) : new[s[n]].name = old[n].name
      /\ \A i, j \in 1..Len(old) : s[i] = s[j] => i = j
  <2> DEFINE X == Names(old)
  <2>1. X = Names(old) /\ X \subseteq Names(new)
    OBVIOUS
  <2> HIDE DEF X
  <2>2. Locates(s, old, new)
    BY <2>1, WhereFacts
  <2> QED BY <2>2 DEF Locates
<1>2. N <= Len(old)
  <2> DEFINE u == Whereabouts(new, old)
             X == Names(new)
  <2>1. u = Whereabouts(new, old) /\ X = Names(new) /\ X \subseteq Names(old)
    OBVIOUS
  <2> HIDE DEF u, X
  <2>2. Locates(u, new, old)
    BY <2>1, WhereFacts
  <2> QED BY <2>2 DEF Locates
<1>3. /\ N \in Nat /\ Len(old) \in Nat /\ DOMAIN old = 1..Len(old) /\ DOMAIN new = 1..N
      /\ \A n \in 1..Len(old) : old[n] \in ToSet(old)
  BY SeqFacts
<1>4. Len(old) = N
  <2> DEFINE L == Len(old)
  <2>1. L <= N /\ N <= L /\ L \in Nat /\ N \in Nat
    BY <1>1, <1>2, <1>3
  <2> HIDE DEF L
  <2>2. L = N
    BY <2>1
  <2> QED BY <2>2 DEF L
<1>5. s \in [1..N -> Nat] /\ s \in [1..N -> 1..N] /\ DOMAIN old = 1..N
  BY <1>1, <1>3, <1>4
<1>a. \A n \in 1..N : s[n] \in 1..N /\ new[s[n]].name = old[n].name
  BY <1>1, <1>4
<1>6. CASE SameOrder(old, new)
  <2>1. stay = 1..N
    BY <1>3, <1>6
  <2>2. IsFiniteSet(stay) /\ Cardinality(stay) = N
    BY <1>3, <2>1, CountUpTo
  <2>3. \A n \in 1..N : old[n].name = new[n].name
    <3> DEFINE a == [n \in DOMAIN old |-> old[n].name]
               b == [n \in DOMAIN new |-> new[n].name]
    <3>1. a = b
      BY <1>6 DEF SameOrder
    <3>2. \A n \in 1..N : a[n] = old[n].name /\ b[n] = new[n].name
      BY <1>3, <1>5
    <3> HIDE DEF a, b
    <3> QED BY <3>1, <3>2
  <2>4. \A n \in 1..N : s[n] = n
    BY <1>1, <1>4, <1>5, <2>3 DEF NamesDiffer
  <2>5. Rising(stay, N, s)
    BY <2>1, <2>4 DEF Rising
  <2>6. \A D : Rising(D, N, s) => Cardinality(D) <= N
    BY <1>3, CountWithin DEF Rising
  <2>7. \A i, j \in 1..N : s[i] \in stay /\ s[j] \in stay /\ i < j => s[i] < s[j]
    BY <2>4
  <2>8. Longest(Cardinality(stay), N, s)
    BY <2>2, <2>5, <2>6 DEF Longest
  <2> QED BY <1>3, <1>4, <1>5, <1>a, <2>1, <2>2, <2>7, <2>8 DEF Stays
<1>7. CASE ~SameOrder(old, new)
  <2> DEFINE r == longestIncreasingSubsequence(s)
             pos == [x \in Names(new) |-> CHOOSE n \in DOMAIN new : new[n].name = x]
  <2>1. s = [n \in DOMAIN old |-> pos[old[n].name]]
    <3>1. \A n \in DOMAIN old : old[n].name \in Names(new)
      BY <1>3 DEF Names
    <3>2. \A n \in DOMAIN old : pos[old[n].name] = CHOOSE k \in DOMAIN new : new[k].name = old[n].name
      BY <3>1
    <3> HIDE DEF pos
    <3> QED BY <3>2 DEF Whereabouts
  <2>2. stay = ToSet(r)
    BY <1>7, <2>1 DEF StayPut
  <2>3. s = [n \in 1..N |-> s[n]]
    BY <1>5
  <2>4. IsSeq(s) /\ Len(s) = N
    BY <1>3, <2>3, FunctionIsSeq
  <2> DEFINE R == {i \in 1..N : s[i] \in ToSet(r)}
  <2>5. r = longestIncreasingSubsequence(s) /\ Indices(R, N, s, ToSet(r))
    BY DEF Indices
  <2> HIDE DEF r, R
  <2>6. \A i, j \in 1..N : s[i] = s[j] => i = j
    BY <1>1, <1>4
  <2>7. /\ IsFiniteSet(stay) /\ Cardinality(stay) \in Nat /\ stay \subseteq {s[i] : i \in 1..N}
        /\ Longest(Cardinality(stay), N, s)
        /\ \A i, j \in 1..N : s[i] \in stay /\ s[j] \in stay /\ i < j => s[i] < s[j]
    <3>1. /\ IsFiniteSet(ToSet(r)) /\ Cardinality(ToSet(r)) \in Nat
          /\ ToSet(r) \subseteq {s[i] : i \in 1..N} /\ Longest(Cardinality(ToSet(r)), N, s)
          /\ Rising(R, N, s)
      <4>1. N \in Nat /\ s \in [1..N -> Nat]
        BY <1>3, <1>5
      <4> QED BY <2>4, <2>5, <2>6, <4>1, LongestFacts, Zenon
    <3> QED BY <2>2, <3>1 DEF R, Rising
  <2>8. stay \subseteq 1..N
    BY <1>5, <2>7
  <2> QED BY <1>3, <1>4, <1>5, <1>a, <2>7, <2>8 DEF Stays
<1> QED BY <1>6, <1>7

\* M has a member for every element of s that is not in a longest increasing
\* subsequence; s says where the columns `old` are to go.
Fewest(M, old, s) ==
    \E L \in Nat : /\ Len(old) \in Nat /\ s \in [1..Len(old) -> Nat] /\ Longest(L, Len(old), s)
                   /\ IsFiniteSet(M) /\ Cardinality(M) = Len(old) - L

\* Positioned modifications are as many as there are common columns, less the
\* longest run of them that is in the same order on both sides.
LEMMA MovesFacts ==
    ASSUME NEW from, IsSeq(from), NamesDiffer(from), NEW to, IsSeq(to), NamesDiffer(to),
           \A c \in ToSet(to) : c.name # Unpositioned,
           NEW m, m = columnModifications(from, to),
           NEW M, M = {c \in ToSet(m) : c.pos # Unpositioned},
           NEW old, old = CommonCols(from, to),
           NEW s, s = Whereabouts(old, CommonCols(to, from))
    PROVE  Fewest(M, old, s)
<1> DEFINE new == CommonCols(to, from)
           N == Len(new)
           stay == IF SameOrder(old, new) THEN DOMAIN new ELSE StayPut(old, new)
           position(n) == IF n \in stay THEN Unpositioned
                          ELSE IF n = 1 THEN First ELSE new[n - 1].name
           I == {n \in DOMAIN new : n \notin stay \/ ByName(from, new[n].name) # new[n]}
           clause(n) == ModifyColumn(ByName(from, new[n].name), new[n], position(n))
           C == Cardinality(I)
<1>1. m = [k \in DOMAIN Ascending(I) |-> clause(Ascending(I)[k])]
  BY DEF columnModifications
<1>2. /\ IsSeq(new) /\ NamesDiffer(new) /\ ToSet(new) = {c \in ToSet(to) : c.name \in Names(from)}
      /\ IsSeq(old) /\ NamesDiffer(old) /\ ToSet(old) = {c \in ToSet(from) : c.name \in Names(to)}
  BY CommonFacts
<1>3. N \in Nat /\ DOMAIN new = 1..N /\ \A n \in 1..N : new[n] \in ToSet(new)
  BY <1>2, SeqFacts
<1>4. Names(old) = Names(new)
  BY <1>2 DEF Names
<1>5. s = Whereabouts(old, new)
  OBVIOUS
<1>6. /\ Len(old) = N /\ s \in [1..N -> Nat] /\ IsFiniteSet(stay)
      /\ stay \subseteq 1..N /\ Cardinality(stay) \in Nat /\ Longest(Cardinality(stay), N, s)
  <2> HIDE DEF new
  <2> QED BY <1>2, <1>4, <1>5, StayFacts
<1>7. I \in SUBSET (1..N)
  BY <1>3
<1> HIDE DEF I
<1>8. C \in Nat /\ (\A k \in 1..C : Nth(I, k) \in I) /\ \A n \in I : \E k \in 1..C : Nth(I, k) = n
  BY <1>3, <1>7, NthProperties
<1>9. DOMAIN Ascending(I) = 1..C /\ \A k \in 1..C : Ascending(I)[k] = Nth(I, k)
  BY DEF Ascending
<1> HIDE DEF clause, C
<1>10. m = [k \in 1..C |-> m[k]] /\ \A k \in 1..C : m[k] = clause(Nth(I, k))
  BY <1>1, <1>9
<1>11. ToSet(m) = {m[k] : k \in 1..C}
  <2>1. IsSeq(m) /\ Len(m) = C
    BY <1>8, <1>10, FunctionIsSeq
  <2> QED BY <2>1, SeqFacts
<1>12. ToSet(m) = {clause(n) : n \in I}
  BY <1>8, <1>10, <1>11
<1> DEFINE J == (1..N) \ stay
           f == [n \in J |-> clause(n)]
<1>13. J \subseteq I
  BY <1>3 DEF I
<1> HIDE DEF stay, new
<1>14. ASSUME NEW n \in 1..N
       PROVE  clause(n).col = new[n] /\ (clause(n).pos # Unpositioned <=> n \in J)
  <2>1. clause(n).col = new[n] /\ clause(n).pos = position(n)
    BY DEF clause, ModifyColumn
  <2>2. n # 1 => n - 1 \in 1..N
    BY <1>3
  <2>3. n # 1 => new[n - 1].name # Unpositioned
    BY <1>2, <1>3, <2>2
  <2>4. First # Unpositioned
    BY DEF First, Unpositioned
  <2> QED BY <2>1, <2>3, <2>4
<1> HIDE DEF position, J
<1>15. M = {f[n] : n \in J}
  <2>1. \A n \in J : f[n] = clause(n)
    OBVIOUS
  <2> HIDE DEF f
  <2>2. \A n \in J : n \in 1..N
    BY <1>7, <1>13
  <2> QED BY <1>7, <1>12, <1>13, <1>14, <2>1, <2>2
<1>16. \A x, y \in J : f[x] = f[y] => x = y
  <2>1. \A n \in J : f[n] = clause(n) /\ n \in 1..N
    BY <1>7, <1>13
  <2> HIDE DEF f
  <2> SUFFICES ASSUME NEW x \in J, NEW y \in J, f[x] = f[y] PROVE x = y
    OBVIOUS
  <2>2. new[x] = new[y]
    BY <1>14, <2>1
  <2> QED BY <1>2, <2>1, <2>2 DEF NamesDiffer
<1>17. IsFiniteSet(J) /\ Cardinality(J) = N - Cardinality(stay)
  <2> DEFINE S == 1..N
  <2>1. IsFiniteSet(S) /\ Cardinality(S) = N
    BY <1>3, CountUpTo
  <2>2. S \cap stay = stay
    BY <1>6
  <2>3. J = S \ stay
    BY DEF J
  <2> HIDE DEF S
  <2>4. IsFiniteSet(S \ stay) /\ Cardinality(S \ stay) = Cardinality(S) - Cardinality(S \cap stay)
    BY <2>1, FS_Difference
  <2> QED BY <2>1, <2>2, <2>3, <2>4
<1> HIDE DEF f
<1>18. IsFiniteSet(M) /\ Cardinality(M) = Cardinality(J)
  BY <1>15, <1>16, <1>17, CountImage
<1> DEFINE L == Cardinality(stay)
<1>19. L \in Nat /\ Len(old) \in Nat /\ s \in [1..Len(old) -> Nat] /\ Longest(L, Len(old), s)
  BY <1>3, <1>6
<1>20. IsFiniteSet(M) /\ Cardinality(M) = Len(old) - L
  BY <1>6, <1>17, <1>18
<1> HIDE DEF L
<1> QED BY <1>19, <1>20 DEF Fewest

LEMMA SameColumnsStay ==
    ASSUME NEW s, IsSeq(s)
    PROVE  Moves(ToSet(columnModifications(s, s))) = {}
<1> DEFINE m == columnModifications(s, s)
           new == CommonCols(s, s)
           position(n) == IF n \in DOMAIN new THEN Unpositioned
                          ELSE IF n = 1 THEN First ELSE new[n - 1].name
           I == {n \in DOMAIN new : n \notin DOMAIN new \/ ByName(s, new[n].name) # new[n]}
           clause(n) == ModifyColumn(ByName(s, new[n].name), new[n], position(n))
           C == Cardinality(I)
<1>1. m = [k \in DOMAIN Ascending(I) |-> clause(Ascending(I)[k])]
  <2>1. SameOrder(new, new)
    BY DEF SameOrder
  <2> QED BY <2>1 DEF columnModifications
<1>2. IsSeq(new)
  BY CommonFacts
<1>3. I \in SUBSET (1..Len(new)) /\ Len(new) \in Nat /\ \A n \in I : n \in DOMAIN new
  BY <1>2, SeqFacts
<1> HIDE DEF I
<1>4. C \in Nat /\ \A k \in 1..C : Nth(I, k) \in I
  BY <1>3, NthProperties
<1>5. DOMAIN Ascending(I) = 1..C /\ \A k \in 1..C : Ascending(I)[k] = Nth(I, k)
  BY DEF Ascending
<1> HIDE DEF C
<1>6. \A n \in I : clause(n).pos = Unpositioned
  BY <1>3 DEF ModifyColumn
<1> HIDE DEF clause
<1>7. DOMAIN m = 1..C /\ \A k \in 1..C : m[k].pos = Unpositioned
  BY <1>1, <1>4, <1>5, <1>6
<1> HIDE DEF m
<1>8. \A c \in ToSet(m) : c.pos = Unpositioned
  BY <1>7 DEF ToSet
<1> QED BY <1>8 DEF Moves, m

\* The moves of a diff are as few as the order of the common columns allows.
LEMMA FewestMoves ==
    ASSUME NEW from, Wf(from), NamesDiffer(from.cols), NEW to, Desired(to), NEW D, DiffOf(D, from, to),
           NEW old, old = CommonCols(from.cols, to.cols),
           NEW s, s = Whereabouts(old, CommonCols(to.cols, from.cols))
    PROVE  Fewest(Moves(ToSet(D)), old, s)
<1> DEFINE f == from.cols
           t == to.cols
           m == columnModifications(f, t)
           M == {c \in ToSet(m) : c.pos # Unpositioned}
<1>1. /\ IsSeq(f) /\ NamesDiffer(f) /\ IsSeq(t) /\ NamesDiffer(t)
      /\ \A c \in ToSet(t) : c.name # Unpositioned
  BY DEF Wf, Desired
<1>2. old = CommonCols(f, t) /\ s = Whereabouts(old, CommonCols(t, f))
  OBVIOUS
<1>3. m = columnModifications(f, t) /\ M = {c \in ToSet(m) : c.pos # Unpositioned}
  OBVIOUS
<1>4. Moves(ToSet(D)) = Moves(ToSet(m))
  BY DEF DiffOf
<1> HIDE DEF f, t, m, M
<1>5. \A c \in ToSet(m) : c.op = "ModifyColumn"
  BY <1>1, <1>3, ColumnModificationFacts
<1>6. Moves(ToSet(D)) = M
  BY <1>3, <1>4, <1>5 DEF Moves
<1>7. Fewest(M, old, s)
  BY <1>1, <1>2, <1>3, MovesFacts
<1> QED BY <1>6, <1>7

----------------------------------------------------------------------------
(* The order of the columns                                                *)

\* Name x comes before name y in s.
Before(s, x, y) == \E m, n \in 1..Len(s) : m < n /\ s[m].name = x /\ s[n].name = y

LEMMA BeforeFacts ==
    ASSUME NEW s, IsSeq(s), NamesDiffer(s)
    PROVE  /\ \A x, y, z : Before(s, x, y) /\ Before(s, y, z) => Before(s, x, z)
           /\ \A x, y : Before(s, x, y) => ~Before(s, y, x) /\ x # y /\ x \in Names(s) /\ y \in Names(s)
           /\ \A x, y \in Names(s) : x = y \/ Before(s, x, y) \/ Before(s, y, x)
<1>1. Len(s) \in Nat /\ \A n \in 1..Len(s) : s[n] \in ToSet(s)
  BY SeqFacts
<1>2. \A x \in Names(s) : \E n \in 1..Len(s) : s[n].name = x
  <2> SUFFICES ASSUME NEW x \in Names(s) PROVE \E n \in 1..Len(s) : s[n].name = x
    OBVIOUS
  <2>1. PICK c \in ToSet(s) : c.name = x
    BY DEF Names
  <2> QED BY <2>1, ElementAt
<1>3. ASSUME NEW x, NEW y, NEW z, Before(s, x, y), Before(s, y, z) PROVE Before(s, x, z)
  <2>1. PICK a, b \in 1..Len(s) : a < b /\ s[a].name = x /\ s[b].name = y
    BY <1>3 DEF Before
  <2>2. PICK c, d \in 1..Len(s) : c < d /\ s[c].name = y /\ s[d].name = z
    BY <1>3 DEF Before
  <2>3. b = c
    BY <2>1, <2>2 DEF NamesDiffer
  <2>4. a < d
    BY <1>1, <2>1, <2>2, <2>3
  <2> QED BY <2>1, <2>2, <2>4 DEF Before
<1>4. ASSUME NEW x, NEW y, Before(s, x, y)
      PROVE  ~Before(s, y, x) /\ x # y /\ x \in Names(s) /\ y \in Names(s)
  <2>1. PICK a, b \in 1..Len(s) : a < b /\ s[a].name = x /\ s[b].name = y
    BY <1>4 DEF Before
  <2>2. ASSUME Before(s, y, x) \/ x = y PROVE FALSE
    <3>1. CASE x = y
      <4>1. a = b
        BY <2>1, <3>1 DEF NamesDiffer
      <4> QED BY <1>1, <2>1, <4>1
    <3>2. CASE Before(s, y, x)
      <4>1. PICK c, d \in 1..Len(s) : c < d /\ s[c].name = y /\ s[d].name = x
        BY <3>2 DEF Before
      <4>2. a = d /\ b = c
        BY <2>1, <4>1 DEF NamesDiffer
      <4> QED BY <1>1, <2>1, <4>1, <4>2
    <3> QED BY <2>2, <3>1, <3>2
  <2>3. x \in Names(s) /\ y \in Names(s)
    BY <1>1, <2>1 DEF Names
  <2> QED BY <2>2, <2>3
<1>5. ASSUME NEW x \in Names(s), NEW y \in Names(s), x # y PROVE Before(s, x, y) \/ Before(s, y, x)
  <2>1. PICK a \in 1..Len(s) : s[a].name = x
    BY <1>2
  <2>2. PICK b \in 1..Len(s) : s[b].name = y
    BY <1>2
  <2>3. a < b \/ b < a
    BY <1>1, <1>5, <2>1, <2>2
  <2> QED BY <2>1, <2>2, <2>3 DEF Before
<1> QED BY <1>3, <1>4, <1>5

\* A subsequence has its names in the same order.
LEMMA CommonBefore ==
    ASSUME NEW s, IsSeq(s), NEW t, NEW c, c = CommonCols(s, t), NEW j \in 1..Len(c), NEW k \in 1..Len(c),
           j < k
    PROVE  Before(s, c[j].name, c[k].name)
<1> DEFINE I == {n \in 1..Len(s) : s[n].name \in Names(t)}
           p == Pick(s, I)
<1>1. c = p
  BY DEF CommonCols, Filter
<1>2. I \subseteq 1..Len(s)
  OBVIOUS
<1> HIDE DEF I
<1>3. /\ Len(p) = Cardinality(I)
      /\ \A n \in 1..Cardinality(I) : Nth(I, n) \in I
      /\ \A m, n \in 1..Cardinality(I) : m < n => Nth(I, m) < Nth(I, n)
  BY <1>2, PickFacts
<1>4. \A n \in 1..Cardinality(I) : p[n] = s[Nth(I, n)]
  BY DEF Pick
<1>5. j \in 1..Cardinality(I) /\ k \in 1..Cardinality(I)
  BY <1>1, <1>3
<1> HIDE DEF p
<1>6. c[j] = s[Nth(I, j)] /\ c[k] = s[Nth(I, k)]
  BY <1>1, <1>4, <1>5
<1>7. Nth(I, j) \in 1..Len(s) /\ Nth(I, k) \in 1..Len(s) /\ Nth(I, j) < Nth(I, k)
  BY <1>2, <1>3, <1>5
<1> QED BY <1>6, <1>7 DEF Before

\* A clause that puts its column where it belongs among columns with the names N.
Aims(to, c, N) ==
    LET x == c.col.name
    IN  /\ c.pos = Unpositioned => \A z \in N : Before(to, z, x)
        /\ c.pos = First => \A z \in N : Before(to, x, z)
        /\ c.pos \notin {Unpositioned, First} =>
             Before(to, c.pos, x) /\ \A z \in N : z = c.pos \/ Before(to, z, c.pos) \/ Before(to, x, z)

Common(from, to) == Names(from) \cap Names(to)

\* Clauses C that turn the columns `from` into `to`: moved and new columns are
\* aimed, the others are in the right order already, every column that is
\* different is modified and every one that is not wanted is dropped.
Arranges(C, from, to) ==
    /\ \A c \in Moves(C) : Aims(to, c, Common(from, to) \ {c.col.name})
    /\ \A c \in C : c.op = "AddColumn" =>
          Aims(to, c, {z \in Names(to) : z \in Names(from) \/ Before(to, z, c.col.name)})
    /\ \A x, y \in Common(from, to) :
          /\ Before(from, x, y)
          /\ \A c \in Moves(C) : c.col.name \notin {x, y}
          => Before(to, x, y)
    /\ \A c \in ToSet(from), d \in ToSet(to) : c.name = d.name =>
          c = d \/ \E m \in C : m.op = "ModifyColumn" /\ m.old = c /\ m.col = d
    /\ \A c \in ToSet(from) : c.name \in Names(to) \/ \E d \in C : d.op = "DropColumn" /\ d.col = c

LEMMA DropsAll ==
    ASSUME NEW from, IsSeq(from), NEW to, NEW c \in ToSet(from), c.name \notin Names(to)
    PROVE  \E d \in ToSet(columnDrops(from, to)) : d.op = "DropColumn" /\ d.col = c
<1> DEFINE I == {n \in 1..Len(from) : from[n].name \notin Names(to)}
           p == Pick(from, I)
           d == columnDrops(from, to)
<1>1. d = [n \in DOMAIN p |-> DropColumn(p[n])]
  BY DEF columnDrops, Filter
<1>2. I \subseteq 1..Len(from)
  OBVIOUS
<1>3. IsSeq(p) /\ ToSet(p) = {from[n] : n \in I}
  <2> HIDE DEF I
  <2> QED BY <1>2, PickFacts, ZenonT(40)
<1>4. c \in ToSet(p)
  <2>1. PICK n \in 1..Len(from) : from[n] = c
    BY ElementAt
  <2>2. n \in I
    BY <2>1
  <2> HIDE DEF I, p
  <2> QED BY <1>3, <2>1, <2>2
<1> HIDE DEF p, d
<1>5. Len(p) \in Nat /\ DOMAIN p = 1..Len(p)
  BY <1>3, SeqFacts
<1>6. d = [n \in 1..Len(p) |-> d[n]] /\ \A n \in 1..Len(p) : d[n] = DropColumn(p[n])
  BY <1>1, <1>5
<1>7. IsSeq(d) /\ Len(d) = Len(p)
  BY <1>5, <1>6, FunctionIsSeq
<1>8. PICK n \in 1..Len(p) : p[n] = c
  BY <1>3, <1>4, ElementAt
<1>9. d[n] \in ToSet(d)
  BY <1>7, SeqFacts
<1>10. d[n].op = "DropColumn" /\ d[n].col = c
  BY <1>6, <1>8 DEF DropColumn
<1> QED BY <1>9, <1>10 DEF d

\* The clause for the n-th of the common columns `new`.
ModifiesAt(c, n, from, new, stay) ==
    /\ c.op = "ModifyColumn" /\ c.col = new[n] /\ c.old = ByName(from, new[n].name)
    /\ c.pos = IF n \in stay THEN Unpositioned ELSE IF n = 1 THEN First ELSE new[n - 1].name

Staying(old, new) == IF SameOrder(old, new) THEN DOMAIN new ELSE StayPut(old, new)

LEMMA ModificationsAt ==
    ASSUME NEW from, IsSeq(from), NEW to, IsSeq(to), NEW m, m = columnModifications(from, to),
           NEW old, old = CommonCols(from, to), NEW new, new = CommonCols(to, from),
           NEW stay, stay = Staying(old, new)
    PROVE  /\ \A c \in ToSet(m) : \E n \in 1..Len(new) : ModifiesAt(c, n, from, new, stay)
           /\ \A n \in 1..Len(new) : n \notin stay \/ ByName(from, new[n].name) # new[n] =>
                 \E c \in ToSet(m) : ModifiesAt(c, n, from, new, stay)
<1> DEFINE N == Len(new)
           position(n) == IF n \in stay THEN Unpositioned
                          ELSE IF n = 1 THEN First ELSE new[n - 1].name
           I == {n \in DOMAIN new : n \notin stay \/ ByName(from, new[n].name) # new[n]}
           clause(n) == ModifyColumn(ByName(from, new[n].name), new[n], position(n))
           C == Cardinality(I)
<1>1. m = [k \in DOMAIN Ascending(I) |-> clause(Ascending(I)[k])]
  BY DEF columnModifications, Staying
<1>2. IsSeq(new)
  BY CommonFacts
<1>3. N \in Nat /\ DOMAIN new = 1..N
  BY <1>2, SeqFacts
<1>4. I \in SUBSET (1..N)
  BY <1>3
<1>5. \A n \in 1..N : n \notin stay \/ ByName(from, new[n].name) # new[n] => n \in I
  BY <1>3
<1> HIDE DEF I
<1>6. C \in Nat /\ (\A k \in 1..C : Nth(I, k) \in I) /\ \A n \in I : \E k \in 1..C : Nth(I, k) = n
  BY <1>3, <1>4, NthProperties
<1>7. DOMAIN Ascending(I) = 1..C /\ \A k \in 1..C : Ascending(I)[k] = Nth(I, k)
  BY DEF Ascending
<1> HIDE DEF clause, C
<1>8. m = [k \in 1..C |-> m[k]] /\ \A k \in 1..C : m[k] = clause(Nth(I, k))
  BY <1>1, <1>7
<1>9. ToSet(m) = {m[k] : k \in 1..C}
  <2>1. IsSeq(m) /\ Len(m) = C
    BY <1>6, <1>8, FunctionIsSeq
  <2> QED BY <2>1, SeqFacts
<1>10. ToSet(m) = {clause(n) : n \in I}
  BY <1>6, <1>8, <1>9
<1>11. \A n : ModifiesAt(clause(n), n, from, new, stay)
  BY DEF clause, ModifyColumn, ModifiesAt
<1> QED BY <1>4, <1>5, <1>10, <1>11

\* The clause for a column that is new at the n-th place of `to`.
AddsAt(c, n, from, to) ==
    /\ c.op = "AddColumn" /\ c.col = to[n] /\ to[n].name \notin Names(from)
    /\ c.pos = IF ~\E k \in n+1..Len(to) : to[k].name \in Names(from) THEN Unpositioned
               ELSE IF n = 1 THEN First ELSE to[n - 1].name

LEMMA AdditionsAt ==
    ASSUME NEW from, IsSeq(from), NEW to, IsSeq(to), NEW a, a = columnAdds(from, to)
    PROVE  /\ IsSeq(a)
           /\ \A c \in ToSet(a) : \E n \in 1..Len(to) : AddsAt(c, n, from, to)
           /\ \A i, j \in 1..Len(a) : i < j => Before(to, a[i].col.name, a[j].col.name)
<1> DEFINE existingColsAfter(n) == \E k \in n+1..Len(to) : to[k].name \in Names(from)
           position(n) == IF ~existingColsAfter(n) THEN Unpositioned
                          ELSE IF n = 1 THEN First ELSE to[n - 1].name
           I == {n \in DOMAIN to : to[n].name \notin Names(from)}
           clause(n) == AddColumn(to[n], position(n))
           C == Cardinality(I)
<1>1. a = [k \in DOMAIN Ascending(I) |-> clause(Ascending(I)[k])]
  BY DEF columnAdds
<1>2. Len(to) \in Nat /\ DOMAIN to = 1..Len(to)
  BY SeqFacts
<1>3. I \in SUBSET (1..Len(to)) /\ \A n \in I : to[n].name \notin Names(from)
  BY <1>2
<1> HIDE DEF I
<1>5. /\ C \in Nat /\ \A k \in 1..C : Nth(I, k) \in I
      /\ \A j, k \in 1..C : j < k => Nth(I, j) < Nth(I, k)
  BY <1>2, <1>3, NthProperties
<1> HIDE DEF C
<1>6. DOMAIN Ascending(I) = 1..C /\ \A k \in 1..C : Ascending(I)[k] = Nth(I, k)
  BY DEF Ascending, C
<1> HIDE DEF clause
<1>7. a = [k \in 1..C |-> a[k]] /\ \A k \in 1..C : a[k] = clause(Nth(I, k))
  BY <1>1, <1>6
<1>8. IsSeq(a) /\ Len(a) = C /\ ToSet(a) = {a[k] : k \in 1..C}
  <2>1. IsSeq(a) /\ Len(a) = C
    BY <1>5, <1>7, FunctionIsSeq
  <2> QED BY <2>1, SeqFacts
<1>9. \A n \in I : AddsAt(clause(n), n, from, to)
  BY <1>3 DEF clause, AddColumn, AddsAt
<1>10. \A n : clause(n).col = to[n]
  BY DEF clause, AddColumn
<1>11. ASSUME NEW i \in 1..C, NEW j \in 1..C, i < j
       PROVE  Before(to, a[i].col.name, a[j].col.name)
  <2>1. Nth(I, i) \in 1..Len(to) /\ Nth(I, j) \in 1..Len(to) /\ Nth(I, i) < Nth(I, j)
    BY <1>3, <1>5, <1>11
  <2>2. a[i].col = to[Nth(I, i)] /\ a[j].col = to[Nth(I, j)]
    BY <1>7, <1>10
  <2> QED BY <2>1, <2>2 DEF Before
<1>12. \A c \in ToSet(a) : \E n \in 1..Len(to) : AddsAt(c, n, from, to)
  <2> SUFFICES ASSUME NEW k \in 1..C PROVE \E n \in 1..Len(to) : AddsAt(a[k], n, from, to)
    BY <1>8
  <2> QED BY <1>3, <1>5, <1>7, <1>9
<1> QED BY <1>8, <1>11, <1>12

LEMMA MoveAims ==
    ASSUME NEW from, IsSeq(from), NEW to, IsSeq(to), NamesDiffer(to),
           \A d \in ToSet(to) : d.name \notin {Unpositioned, First},
           NEW new, new = CommonCols(to, from), NEW stay,
           NEW c, NEW n \in 1..Len(new), ModifiesAt(c, n, from, new, stay), n \notin stay
    PROVE  Aims(to, c, Common(from, to) \ {c.col.name})
<1> DEFINE x == c.col.name
<1>1. IsSeq(new) /\ ToSet(new) = {d \in ToSet(to) : d.name \in Names(from)}
  BY CommonFacts
<1>2. Len(new) \in Nat /\ \A k \in 1..Len(new) : new[k] \in ToSet(to)
  BY <1>1, SeqFacts
<1>3. \A j, k \in 1..Len(new) : j < k => Before(to, new[j].name, new[k].name)
  BY CommonBefore
<1>4. ASSUME NEW z \in Common(from, to), z # x
      PROVE  \E k \in 1..Len(new) : new[k].name = z /\ k # n
  <2>1. PICK d \in ToSet(to) : d.name = z
    BY DEF Common, Names
  <2>2. d \in ToSet(new)
    BY <1>1, <2>1 DEF Common
  <2>3. PICK k \in 1..Len(new) : new[k] = d
    BY <1>1, <2>2, ElementAt
  <2> QED BY <1>4, <2>1, <2>3 DEF ModifiesAt
<1>5. x = new[n].name /\ c.pos = IF n = 1 THEN First ELSE new[n - 1].name
  BY DEF ModifiesAt
<1> HIDE DEF x
<1>6. CASE n = 1
  <2>1. c.pos = First /\ c.pos # Unpositioned
    BY <1>5, <1>6 DEF First, Unpositioned
  <2>2. ASSUME NEW z \in Common(from, to), z # x PROVE Before(to, x, z)
    <3>1. PICK k \in 1..Len(new) : new[k].name = z /\ k # n
      BY <1>4, <2>2
    <3> QED BY <1>3, <1>5, <1>6, <3>1
  <2> QED BY <2>1, <2>2 DEF Aims, x
<1>7. CASE n # 1
  <2>1. n - 1 \in 1..Len(new) /\ n - 1 < n
    BY <1>2, <1>7
  <2>2. c.pos = new[n - 1].name /\ c.pos \notin {Unpositioned, First}
    BY <1>2, <1>5, <1>7, <2>1
  <2>3. Before(to, c.pos, x)
    BY <1>3, <1>5, <2>1, <2>2
  <2>4. ASSUME NEW z \in Common(from, to), z # x
        PROVE  z = c.pos \/ Before(to, z, c.pos) \/ Before(to, x, z)
    <3>1. PICK k \in 1..Len(new) : new[k].name = z /\ k # n
      BY <1>4, <2>4
    <3>2. k = n - 1 \/ k < n - 1 \/ n < k
      BY <1>2, <3>1
    <3> QED BY <1>3, <1>5, <2>1, <2>2, <3>1, <3>2
  <2> QED BY <2>2, <2>3, <2>4 DEF Aims, x
<1> QED BY <1>6, <1>7

LEMMA AddAims ==
    ASSUME NEW from, IsSeq(from), NEW to, IsSeq(to), NamesDiffer(to),
           \A d \in ToSet(to) : d.name \notin {Unpositioned, First},
           NEW c, NEW n \in 1..Len(to), AddsAt(c, n, from, to)
    PROVE  Aims(to, c, {z \in Names(to) : z \in Names(from) \/ Before(to, z, c.col.name)})
<1> DEFINE x == c.col.name
           existing == \E k \in n+1..Len(to) : to[k].name \in Names(from)
           N == {z \in Names(to) : z \in Names(from) \/ Before(to, z, x)}
<1>1. Len(to) \in Nat /\ \A k \in 1..Len(to) : to[k] \in ToSet(to)
  BY SeqFacts
<1>2. \A j, k \in 1..Len(to) : j < k => Before(to, to[j].name, to[k].name)
  BY DEF Before
<1>3. /\ x = to[n].name /\ x \notin Names(from)
      /\ c.pos = IF ~existing THEN Unpositioned ELSE IF n = 1 THEN First ELSE to[n - 1].name
  BY DEF AddsAt
<1>4. ASSUME NEW z \in N
      PROVE  \E k \in 1..Len(to) : to[k].name = z /\ k # n /\ (existing \/ k < n)
             /\ (z \in Names(from) \/ k < n)
  <2>1. PICK d \in ToSet(to) : d.name = z
    BY DEF Names
  <2>2. PICK k \in 1..Len(to) : to[k] = d
    BY <2>1, ElementAt
  <2>3. CASE Before(to, z, x)
    <3>1. PICK i, j \in 1..Len(to) : i < j /\ to[i].name = z /\ to[j].name = x
      BY <2>3 DEF Before
    <3>2. i = k /\ j = n
      BY <1>3, <2>1, <2>2, <3>1 DEF NamesDiffer
    <3> QED BY <1>1, <2>1, <2>2, <3>1, <3>2
  <2>4. CASE z \in Names(from)
    <3>1. k # n
      BY <1>3, <2>1, <2>2, <2>4
    <3>2. existing \/ k < n
      <4>1. n < k => k \in n+1..Len(to)
        BY <1>1
      <4>2. n < k => existing
        BY <2>1, <2>2, <2>4, <4>1
      <4> QED BY <1>1, <3>1, <4>2
    <3> HIDE DEF existing
    <3> QED BY <2>1, <2>2, <2>4, <3>1, <3>2
  <2> QED BY <2>3, <2>4
<1> HIDE DEF x, existing, N
<1>5. CASE ~existing
  <2>1. c.pos = Unpositioned /\ c.pos # First
    BY <1>3, <1>5 DEF First, Unpositioned
  <2>2. ASSUME NEW z \in N PROVE Before(to, z, x)
    BY <1>2, <1>3, <1>4, <1>5
  <2> QED BY <2>1, <2>2 DEF Aims, x, N
<1>6. CASE existing /\ n = 1
  <2>1. c.pos = First /\ c.pos # Unpositioned
    BY <1>3, <1>6 DEF First, Unpositioned
  <2>2. ASSUME NEW z \in N PROVE Before(to, x, z)
    <3>1. PICK k \in 1..Len(to) : to[k].name = z /\ k # n
      BY <1>4
    <3> QED BY <1>2, <1>3, <1>6, <3>1
  <2> QED BY <2>1, <2>2 DEF Aims, x, N
<1>7. CASE existing /\ n # 1
  <2>1. n - 1 \in 1..Len(to) /\ n - 1 < n
    BY <1>1, <1>7
  <2>2. c.pos = to[n - 1].name /\ c.pos \notin {Unpositioned, First}
    BY <1>1, <1>3, <1>7, <2>1
  <2>3. Before(to, c.pos, x)
    BY <1>2, <1>3, <2>1, <2>2
  <2>4. ASSUME NEW z \in N
        PROVE  z = c.pos \/ Before(to, z, c.pos) \/ Before(to, x, z)
    <3>1. PICK k \in 1..Len(to) : to[k].name = z /\ k # n
      BY <1>4
    <3>2. k = n - 1 \/ k < n - 1 \/ n < k
      BY <1>1, <3>1
    <3> QED BY <1>2, <1>3, <2>1, <2>2, <3>1, <3>2
  <2> QED BY <2>2, <2>3, <2>4 DEF Aims, x, N
<1> QED BY <1>5, <1>6, <1>7

LEMMA CommonNames ==
    ASSUME NEW s, IsSeq(s), NEW t, NEW c, c = CommonCols(s, t)
    PROVE  \A x \in Common(s, t) : \E n \in 1..Len(c) : c[n].name = x
<1>1. IsSeq(c) /\ ToSet(c) = {d \in ToSet(s) : d.name \in Names(t)}
  BY CommonFacts
<1> SUFFICES ASSUME NEW x \in Common(s, t) PROVE \E n \in 1..Len(c) : c[n].name = x
  OBVIOUS
<1>2. PICK d \in ToSet(s) : d.name = x
  BY DEF Common, Names
<1>3. d \in ToSet(c)
  BY <1>1, <1>2 DEF Common
<1> QED BY <1>1, <1>2, <1>3, ElementAt

LEMMA ColumnsArranged ==
    ASSUME NEW from, IsSeq(from), NamesDiffer(from), NEW to, IsSeq(to), NamesDiffer(to),
           \A d \in ToSet(to) : d.name \notin {Unpositioned, First},
           NEW C, NEW d, d = columnDrops(from, to), NEW m, m = columnModifications(from, to),
           NEW a, a = columnAdds(from, to), C = ToSet(d) \cup ToSet(m) \cup ToSet(a)
    PROVE  Arranges(C, from, to)
<1> DEFINE old == CommonCols(from, to)
           new == CommonCols(to, from)
           stay == Staying(old, new)
           s == Whereabouts(old, new)
           N == Len(new)
<1>1. /\ \A c \in ToSet(m) : \E n \in 1..N : ModifiesAt(c, n, from, new, stay)
      /\ \A n \in 1..N : n \notin stay \/ ByName(from, new[n].name) # new[n] =>
            \E c \in ToSet(m) : ModifiesAt(c, n, from, new, stay)
  <2> HIDE DEF stay
  <2>1. stay = Staying(old, new)
    BY DEF stay
  <2> HIDE DEF old, new
  <2> QED BY <2>1, ModificationsAt DEF old, new
<1>2. IsSeq(a) /\ \A c \in ToSet(a) : \E n \in 1..Len(to) : AddsAt(c, n, from, to)
  BY AdditionsAt
<1>3. \A c \in ToSet(d) : c.op = "DropColumn"
  BY ColumnDropFacts
<1>4. \A c \in ToSet(m) : c.op = "ModifyColumn"
  BY <1>1 DEF ModifiesAt
<1>5. \A c \in ToSet(a) : c.op = "AddColumn"
  BY <1>2 DEF AddsAt
<1>6. /\ IsSeq(new) /\ NamesDiffer(new) /\ ToSet(new) = {c \in ToSet(to) : c.name \in Names(from)}
      /\ IsSeq(old) /\ NamesDiffer(old) /\ ToSet(old) = {c \in ToSet(from) : c.name \in Names(to)}
  BY CommonFacts
<1>7. Names(old) = Names(new)
  <2> HIDE DEF old, new
  <2> QED BY <1>6 DEF Names
<1>8. /\ Len(old) = N /\ N \in Nat /\ stay \subseteq 1..N
      /\ \A i, j \in 1..N : s[i] \in stay /\ s[j] \in stay /\ i < j => s[i] < s[j]
      /\ \A n \in 1..N : s[n] \in 1..N /\ new[s[n]].name = old[n].name
  <2> DEFINE u == IF SameOrder(old, new) THEN DOMAIN new ELSE StayPut(old, new)
  <2>1. stay = u /\ s = Whereabouts(old, new)
    BY DEF Staying
  <2> HIDE DEF s, stay, old, new
  <2>2. Len(old) = N /\ N \in Nat /\ u \subseteq 1..N /\ Stays(u, N, s, old, new)
    BY <1>6, <1>7, <2>1, StayFacts
  <2> HIDE DEF u
  <2> QED BY <2>1, <2>2 DEF Stays
<1>9. \A n \in 1..N : new[n] \in ToSet(to) /\ new[n].name \in Common(from, to)
  <2> HIDE DEF new
  <2> QED BY <1>6, SeqFacts DEF Common, Names
<1>10. \A j, k \in 1..N : j < k => Before(to, new[j].name, new[k].name)
  <2>1. new = CommonCols(to, from)
    OBVIOUS
  <2> HIDE DEF new
  <2> QED BY <2>1, CommonBefore
<1>11. \A j, k \in 1..Len(old) : j < k => Before(from, old[j].name, old[k].name)
  <2>1. old = CommonCols(from, to)
    OBVIOUS
  <2> HIDE DEF old
  <2> QED BY <2>1, CommonBefore
<1>12. new = CommonCols(to, from) /\ old = CommonCols(from, to)
  OBVIOUS
<1> HIDE DEF old, new, stay, s
<1>13. ASSUME NEW c \in Moves(C) PROVE Aims(to, c, Common(from, to) \ {c.col.name})
  <2>1. c \in ToSet(m) /\ c.pos # Unpositioned
    BY <1>3, <1>5 DEF Moves
  <2>2. PICK n \in 1..N : ModifiesAt(c, n, from, new, stay)
    BY <1>1, <2>1
  <2>3. n \notin stay
    BY <2>1, <2>2 DEF ModifiesAt
  <2> QED BY <1>12, <2>2, <2>3, MoveAims
<1>14. ASSUME NEW c \in C, c.op = "AddColumn"
       PROVE  Aims(to, c, {z \in Names(to) : z \in Names(from) \/ Before(to, z, c.col.name)})
  <2>1. c \in ToSet(a)
    BY <1>3, <1>4, <1>14
  <2>2. PICK n \in 1..Len(to) : AddsAt(c, n, from, to)
    BY <1>2, <2>1
  <2> QED BY <2>2, AddAims
<1>15. ASSUME NEW x \in Common(from, to), NEW y \in Common(from, to), Before(from, x, y),
              \A c \in Moves(C) : c.col.name \notin {x, y}
       PROVE  Before(to, x, y)
  <2>1. PICK i \in 1..N : old[i].name = x
    BY <1>8, <1>12, CommonNames
  <2>2. PICK j \in 1..N : old[j].name = y
    <3>1. Common(from, to) = Common(from, to)
      OBVIOUS
    <3> QED BY <1>8, <1>12, CommonNames
  <2>3. ASSUME NEW k \in 1..N, k \notin stay PROVE new[k].name \notin {x, y}
    <3>1. PICK c \in ToSet(m) : ModifiesAt(c, k, from, new, stay)
      BY <1>1, <2>3
    <3>2. k # 1 => k - 1 \in 1..N
      BY <1>8
    <3>3. k # 1 => new[k - 1].name # Unpositioned
      BY <1>9, <3>2
    <3>4. c.op = "ModifyColumn" /\ c.pos # Unpositioned /\ c.col = new[k]
      BY <2>3, <3>1, <3>3 DEF ModifiesAt, First, Unpositioned
    <3>5. c \in Moves(C)
      BY <3>4 DEF Moves
    <3> QED BY <1>15, <3>4, <3>5
  <2>4. s[i] \in stay /\ s[j] \in stay
    BY <1>8, <2>1, <2>2, <2>3
  <2>5. i < j
    <3>1. ~(j < i)
      BY <1>8, <1>11, <1>15, <2>1, <2>2, BeforeFacts
    <3>2. i # j
      BY <1>15, <2>1, <2>2, BeforeFacts
    <3> QED BY <1>8, <3>1, <3>2
  <2>6. s[i] < s[j]
    BY <1>8, <2>4, <2>5
  <2> QED BY <1>8, <1>10, <2>1, <2>2, <2>6
<1>16. ASSUME NEW e \in ToSet(from), NEW f \in ToSet(to), e.name = f.name
       PROVE  e = f \/ \E c \in C : c.op = "ModifyColumn" /\ c.old = e /\ c.col = f
  <2>1. f \in ToSet(new)
    BY <1>6, <1>16 DEF Names
  <2>2. PICK n \in 1..N : new[n] = f
    BY <1>6, <2>1, ElementAt
  <2>3. ByName(from, new[n].name) = e
    <3>1. f.name \in Names(from)
      BY <1>16 DEF Names
    <3>2. ByName(from, f.name) \in ToSet(from) /\ ByName(from, f.name).name = f.name
      BY <3>1, ByNameFacts
    <3>3. PICK i \in 1..Len(from) : from[i] = e
      BY ElementAt
    <3>4. PICK j \in 1..Len(from) : from[j] = ByName(from, f.name)
      BY <3>2, ElementAt
    <3> QED BY <1>16, <2>2, <3>2, <3>3, <3>4 DEF NamesDiffer
  <2>4. CASE e # f
    <3>1. PICK c \in ToSet(m) : ModifiesAt(c, n, from, new, stay)
      BY <1>1, <2>2, <2>3, <2>4
    <3> QED BY <2>2, <2>3, <3>1 DEF ModifiesAt
  <2> QED BY <2>4
<1>17. ASSUME NEW e \in ToSet(from)
       PROVE  e.name \in Names(to) \/ \E c \in C : c.op = "DropColumn" /\ c.col = e
  BY DropsAll
<1> QED BY <1>13, <1>14, <1>15, <1>16, <1>17 DEF Arranges

\* Clauses that move columns come before those that add some, and these come
\* in the order of the columns.
Sorted(s, to) ==
    \A i, j \in 1..Len(s) : i < j /\ Placing(s[i]) /\ Placing(s[j]) =>
      /\ s[j].op = "ModifyColumn" => s[i].op = "ModifyColumn"
      /\ s[i].op = "AddColumn" /\ s[j].op = "AddColumn" => Before(to, s[i].col.name, s[j].col.name)

LEMMA ColumnsSorted ==
    ASSUME NEW from, IsSeq(from), NEW to, IsSeq(to), NamesDiffer(to), NEW s, s = ColumnClauses(from, to)
    PROVE  /\ Sorted(s, to)
           /\ ToSet(s) = ToSet(columnDrops(from, to)) \cup ToSet(columnModifications(from, to))
                           \cup ToSet(columnAdds(from, to))
<1> DEFINE d == columnDrops(from, to)
           m == columnModifications(from, to)
           a == columnAdds(from, to)
           b == d \o m
<1>1. s = b \o a
  BY DEF ColumnClauses
<1>2. IsSeq(d) /\ \A c \in ToSet(d) : c.op = "DropColumn"
  BY ColumnDropFacts
<1>3. IsSeq(m) /\ \A c \in ToSet(m) : c.op = "ModifyColumn"
  BY ColumnModificationFacts
<1>4. /\ IsSeq(a) /\ \A c \in ToSet(a) : c.op = "AddColumn"
      /\ \A i, j \in 1..Len(a) : i < j => Before(to, a[i].col.name, a[j].col.name)
  <2> HIDE DEF a
  <2>1. a = columnAdds(from, to)
    BY DEF a
  <2>2. /\ IsSeq(a) /\ \A c \in ToSet(a) : \E n \in 1..Len(to) : AddsAt(c, n, from, to)
        /\ \A i, j \in 1..Len(a) : i < j => Before(to, a[i].col.name, a[j].col.name)
    BY <2>1, AdditionsAt
  <2> QED BY <2>2 DEF AddsAt
<1> HIDE DEF d, m, a
<1>5. IsSeq(b) /\ ToSet(b) = ToSet(d) \cup ToSet(m)
  BY <1>2, <1>3, ConcatFacts
<1>6. \A c \in ToSet(b) : c.op # "AddColumn" /\ (Placing(c) => c.op = "ModifyColumn")
  BY <1>2, <1>3, <1>5 DEF Placing
<1> HIDE DEF b
<1>7. /\ ToSet(s) = ToSet(b) \cup ToSet(a) /\ Len(s) = Len(b) + Len(a) /\ Len(b) \in Nat /\ Len(a) \in Nat
      /\ \A i \in 1..Len(s) : s[i] = IF i <= Len(b) THEN b[i] ELSE a[i - Len(b)]
      /\ \A i \in 1..Len(b) : b[i] \in ToSet(b)
      /\ \A i \in 1..Len(a) : a[i] \in ToSet(a)
  BY <1>1, <1>4, <1>5, ConcatFacts, SeqFacts, ZenonT(40)
<1>8. \A i \in 1..Len(s) : i <= Len(b) => s[i] \in ToSet(b)
  BY <1>7
<1>9. \A i \in 1..Len(s) : ~(i <= Len(b)) => i - Len(b) \in 1..Len(a) /\ s[i] = a[i - Len(b)]
  BY <1>7
<1>10. ASSUME NEW i \in 1..Len(s), NEW j \in 1..Len(s), i < j, Placing(s[i]), Placing(s[j])
       PROVE  /\ s[j].op = "ModifyColumn" => s[i].op = "ModifyColumn"
              /\ s[i].op = "AddColumn" /\ s[j].op = "AddColumn" => Before(to, s[i].col.name, s[j].col.name)
  <2>1. CASE i <= Len(b)
    BY <1>6, <1>8, <1>10, <2>1
  <2>2. CASE ~(i <= Len(b))
    <3>1. ~(j <= Len(b)) /\ i - Len(b) < j - Len(b)
      BY <1>7, <1>10, <2>2
    <3>2. /\ i - Len(b) \in 1..Len(a) /\ s[i] = a[i - Len(b)]
          /\ j - Len(b) \in 1..Len(a) /\ s[j] = a[j - Len(b)]
      BY <1>9, <2>2, <3>1
    <3>3. s[j].op = "AddColumn"
      BY <1>4, <1>7, <3>2
    <3> QED BY <1>4, <3>1, <3>2, <3>3
  <2> QED BY <2>1, <2>2
<1> QED BY <1>5, <1>7, <1>10 DEF Sorted, d, m, a

Arranged(D, from, to) == Arranges(ToSet(D), from, to) /\ Sorted(D, to)

LEMMA WrapsArranged ==
    ASSUME NEW from, IsSeq(from), NamesDiffer(from), NEW to, IsSeq(to), NamesDiffer(to),
           \A d \in ToSet(to) : d.name \notin {Unpositioned, First},
           NEW D, IsSeq(D), Wraps(D, ColumnClauses(from, to))
    PROVE  Arranged(D, from, to)
<1> DEFINE s == ColumnClauses(from, to)
           d == columnDrops(from, to)
           m == columnModifications(from, to)
           a == columnAdds(from, to)
           U == ToSet(D)
           C == ToSet(s)
<1>1. Sorted(s, to) /\ C = ToSet(d) \cup ToSet(m) \cup ToSet(a)
  BY ColumnsSorted
<1>2. d = columnDrops(from, to) /\ m = columnModifications(from, to) /\ a = columnAdds(from, to)
  OBVIOUS
<1> HIDE DEF s, d, m, a
<1>3. Arranges(C, from, to)
  <2> HIDE DEF C
  <2> QED BY <1>1, <1>2, ColumnsArranged
<1>4. C \subseteq U /\ \A c \in U : c.op \in ColumnOps => c \in C
  BY DEF Wraps, s
<1>5. Sorted(D, to)
  <2> SUFFICES ASSUME NEW i \in 1..Len(D), NEW j \in 1..Len(D), i < j, Placing(D[i]), Placing(D[j])
               PROVE  /\ D[j].op = "ModifyColumn" => D[i].op = "ModifyColumn"
                      /\ D[i].op = "AddColumn" /\ D[j].op = "AddColumn" =>
                            Before(to, D[i].col.name, D[j].col.name)
    BY DEF Sorted
  <2>1. D[i].op \in ColumnOps /\ D[j].op \in ColumnOps
    BY DEF Placing, ColumnOps
  <2>2. PICK k, l \in 1..Len(s) : k < l /\ s[k] = D[i] /\ s[l] = D[j]
    BY <2>1 DEF Wraps, s
  <2> QED BY <1>1, <2>2 DEF Sorted
<1>6. Moves(C) = Moves(U) /\ \A c \in U : c.op = "AddColumn" => c \in C
  BY <1>4 DEF Moves, ColumnOps
<1> HIDE DEF C, U
<1>7. Arranges(U, from, to)
  BY <1>3, <1>4, <1>6 DEF Arranges
<1> QED BY <1>5, <1>7 DEF Arranged, U

LEMMA NothingToArrange ==
    ASSUME NEW s, IsSeq(s), NamesDiffer(s)
    PROVE  Arranged(<<>>, s, s)
<1>1. ToSet(<<>>) = {} /\ Len(<<>>) = 0
  BY EmptyFacts
<1>2. \A c, d \in ToSet(s) : c.name = d.name => c = d
  BY ElementAt DEF NamesDiffer
<1>3. \A c \in ToSet(s) : c.name \in Names(s)
  BY DEF Names
<1>4. Sorted(<<>>, s)
  BY <1>1 DEF Sorted
<1>5. Arranges({}, s, s)
  BY <1>2, <1>3 DEF Arranges, Moves
<1> QED BY <1>1, <1>4, <1>5 DEF Arranged


----------------------------------------------------------------------------
(* Placing columns                                                         *)

LEMMA SelectFacts ==
    ASSUME NEW s, IsSeq(s), NEW I, I \subseteq 1..Len(s),
           NEW k, k = IF I # {} THEN Min(I) ELSE 0
    PROVE  IF I = {} THEN k = 0 ELSE k \in I /\ k # 0
<1>1. Len(s) \in Nat
  BY SeqFacts
<1>2. I \subseteq Nat /\ 0 \notin I
  BY <1>1
<1>3. I # {} => \E x \in I : \A y \in I : x <= y
  BY <1>2, Least
<1>4. I # {} => Min(I) \in I
  BY <1>3 DEF Min
<1> QED BY <1>2, <1>4

\* a is s up to i, and b the rest of it.
Cut(a, b, s, i) ==
    /\ IsSeq(a) /\ Len(a) = i /\ \A n \in 1..i : a[n] = s[n]
    /\ IsSeq(b) /\ Len(b) = Len(s) - i /\ \A n \in 1..(Len(s) - i) : b[n] = s[i + n]

\* r is s with e behind its i-th element.
Widened(r, s, i, e) == \E a, b : Cut(a, b, s, i) /\ r = (a \o <<e>>) \o b

LEMMA InsertCut ==
    ASSUME NEW T, NEW s \in Seq(T), NEW e, NEW i \in 1..Len(s), NEW j, j = i + 1
    PROVE  Widened(InsertAt(s, j, e), s, i, e)
<1> DEFINE L == Len(s)
           a == SubSeq(s, 1, i)
           b == SubSeq(s, i + 1, L)
<1>1. L \in Nat /\ i \in Int /\ i + 1 \in Int /\ \A n \in 1..L : s[n] \in T
  BY LenProperties, ElementOfSeq
<1>2. InsertAt(s, j, e) = a \o <<e>> \o b
  <2>1. j - 1 = i
    BY <1>1
  <2> QED BY <2>1 DEF InsertAt
<1>3. a \in Seq(T) /\ Len(a) = i /\ \A n \in 1..i : a[n] = s[n]
  <2>1. \A n \in 1..i : s[n] \in T
    BY <1>1
  <2>2. /\ a \in Seq(T) /\ Len(a) = (IF 1 <= i THEN i - 1 + 1 ELSE 0)
        /\ \A n \in 1..(i - 1 + 1) : a[n] = s[1 + n - 1]
    BY <1>1, <2>1, SubSeqProperties
  <2> HIDE DEF a
  <2> QED BY <1>1, <2>2
<1>4. b \in Seq(T) /\ Len(b) = L - i /\ \A n \in 1..(L - i) : b[n] = s[i + n]
  <2>1. \A n \in (i + 1)..L : s[n] \in T
    BY <1>1
  <2>2. /\ b \in Seq(T) /\ Len(b) = (IF i + 1 <= L THEN L - (i + 1) + 1 ELSE 0)
        /\ \A n \in 1..(L - (i + 1) + 1) : b[n] = s[i + 1 + n - 1]
    BY <1>1, <2>1, SubSeqProperties
  <2> HIDE DEF b
  <2> QED BY <1>1, <2>2
<1>5. IsSeq(a) /\ IsSeq(b)
  <2> HIDE DEF a, b
  <2> QED BY <1>3, <1>4, IsSeqOf
<1>6. Cut(a, b, s, i)
  <2> HIDE DEF a, b
  <2> QED BY <1>3, <1>4, <1>5 DEF Cut
<1> HIDE DEF a, b
<1> QED BY <1>2, <1>6 DEF Widened

LEMMA InsertFacts ==
    ASSUME NEW T, NEW s \in Seq(T), NEW e \in T, NEW i \in 1..Len(s), NEW j, j = i + 1
    PROVE  InsertAt(s, j, e) \in Seq(T) /\ ToSet(InsertAt(s, j, e)) = ToSet(s) \cup {e}
<1> DEFINE L == Len(s)
<1>1. L \in Nat /\ i \in 1..L
  BY LenProperties
<1>2. PICK a, b : Cut(a, b, s, i) /\ InsertAt(s, j, e) = (a \o <<e>>) \o b
  <2>1. Widened(InsertAt(s, j, e), s, i, e)
    BY InsertCut
  <2> QED BY <2>1 DEF Widened
<1>3. IsSeq(a) /\ Len(a) = i /\ \A n \in 1..i : a[n] = s[n]
  BY <1>2 DEF Cut
<1>4. IsSeq(b) /\ Len(b) = L - i /\ \A n \in 1..(L - i) : b[n] = s[i + n]
  BY <1>2 DEF Cut
<1>5. IsSeq(s) /\ ToSet(s) = {s[n] : n \in 1..L} /\ ToSet(s) \subseteq T
  BY IsSeqOf, SeqFacts
<1>6. IsSeq(a) /\ ToSet(a) = {a[n] : n \in 1..i}
  BY <1>3, SeqFacts
<1>7. IsSeq(b) /\ ToSet(b) = {b[n] : n \in 1..(L - i)}
  BY <1>4, SeqFacts
<1> HIDE DEF L
<1>8. ToSet(a) \cup ToSet(b) = ToSet(s)
  <2>1. \A n \in 1..i : a[n] = s[n] /\ n \in 1..L
    BY <1>1, <1>3
  <2>2. \A n \in 1..(L - i) : b[n] = s[i + n] /\ i + n \in 1..L
    BY <1>1, <1>4
  <2>3. ASSUME NEW n \in 1..L
        PROVE  s[n] \in ToSet(a) \cup ToSet(b)
    <3>1. CASE n <= i
      BY <1>1, <1>6, <2>1, <3>1
    <3>2. CASE ~(n <= i)
      <4>1. n - i \in 1..(L - i) /\ i + (n - i) = n
        BY <1>1, <3>2
      <4> QED BY <1>7, <2>2, <4>1
    <3> QED BY <3>1, <3>2
  <2> QED BY <1>5, <1>6, <1>7, <2>1, <2>2, <2>3
<1>9. /\ IsSeq(a \o <<e>>) /\ ToSet(a \o <<e>>) = ToSet(a) \cup {e}
  BY <1>6, OneMore
<1>10. IsSeq((a \o <<e>>) \o b) /\ ToSet((a \o <<e>>) \o b) = (ToSet(a) \cup {e}) \cup ToSet(b)
  <2> DEFINE d == a \o <<e>>
  <2> HIDE DEF d
  <2>1. IsSeq(d) /\ ToSet(d) = ToSet(a) \cup {e}
    BY <1>9 DEF d
  <2>2. IsSeq(d \o b) /\ ToSet(d \o b) = ToSet(d) \cup ToSet(b)
    BY <1>7, <2>1, ConcatFacts
  <2> QED BY <2>1, <2>2 DEF d
<1>11. ToSet((a \o <<e>>) \o b) = ToSet(s) \cup {e}
  BY <1>8, <1>10
<1>12. ToSet((a \o <<e>>) \o b) \subseteq T
  BY <1>5, <1>11
<1>13. (a \o <<e>>) \o b \in Seq(T)
  <2> DEFINE d == (a \o <<e>>) \o b
  <2> HIDE DEF d
  <2>1. IsSeq(d) /\ ToSet(d) \subseteq T
    BY <1>10, <1>12 DEF d
  <2> QED BY <2>1, SeqOver DEF d
<1> QED BY <1>2, <1>11, <1>13

LEMMA DifferConcat ==
    ASSUME NEW s, IsSeq(s), NamesDiffer(s), NEW t, IsSeq(t), NamesDiffer(t), Names(s) \cap Names(t) = {}
    PROVE  NamesDiffer(s \o t)
<1> DEFINE K == Len(s)
           L == Len(t)
           r == s \o t
<1>1. /\ K \in Nat /\ L \in Nat /\ (\A n \in 1..K : s[n] \in ToSet(s)) /\ \A n \in 1..L : t[n] \in ToSet(t)
  BY SeqFacts
<1>2. Len(r) = K + L /\ \A n \in 1..Len(r) : r[n] = IF n <= K THEN s[n] ELSE t[n - K]
  BY ConcatFacts
<1>3. \A i, j \in 1..K : s[i].name = s[j].name => i = j
  BY DEF NamesDiffer
<1>4. \A i, j \in 1..L : t[i].name = t[j].name => i = j
  BY DEF NamesDiffer
<1>5. \A i \in 1..K, j \in 1..L : s[i].name # t[j].name
  BY <1>1 DEF Names
<1> HIDE DEF r, K, L
<1> SUFFICES ASSUME NEW i \in 1..Len(r), NEW j \in 1..Len(r), r[i].name = r[j].name
             PROVE  i = j
  BY DEF NamesDiffer, r
<1>6. \A n \in 1..Len(r) : n <= K \/ n - K \in 1..L
  BY <1>1, <1>2
<1>7. \A n \in 1..Len(r) : n <= K => n \in 1..K
  BY <1>1, <1>2
<1>8. CASE i <= K /\ j <= K
  BY <1>2, <1>3, <1>7, <1>8
<1>9. CASE ~(i <= K) /\ ~(j <= K)
  <2>1. i - K = j - K
    BY <1>2, <1>4, <1>6, <1>9
  <2> QED BY <1>1, <1>2, <2>1
<1>10. CASE (i <= K) # (j <= K)
  BY <1>2, <1>5, <1>6, <1>7, <1>10
<1> QED BY <1>8, <1>9, <1>10

LEMMA DifferOne ==
    ASSUME NEW s, IsSeq(s), NamesDiffer(s), NEW x, x.name \notin Names(s)
    PROVE  NamesDiffer(s \o <<x>>) /\ NamesDiffer(<<x>> \o s)
<1> DEFINE t == <<x>>
<1>1. IsSeq(t) /\ ToSet(t) = {x} /\ Len(t) = 1
  BY SingletonFacts
<1> HIDE DEF t
<1>2. NamesDiffer(t) /\ Names(t) = {x.name}
  BY <1>1 DEF NamesDiffer, Names
<1>3. NamesDiffer(s \o t) /\ NamesDiffer(t \o s)
  BY <1>1, <1>2, DifferConcat
<1> QED BY <1>3 DEF t

LEMMA DifferInsert ==
    ASSUME NEW T, NEW s \in Seq(T), NamesDiffer(s), NEW e \in T, e.name \notin Names(s),
           NEW i \in 1..Len(s), NEW j, j = i + 1
    PROVE  NamesDiffer(InsertAt(s, j, e))
<1> DEFINE L == Len(s)
<1>1. L \in Nat /\ i \in 1..L
  BY LenProperties
<1>2. PICK a, b : Cut(a, b, s, i) /\ InsertAt(s, j, e) = (a \o <<e>>) \o b
  <2>1. Widened(InsertAt(s, j, e), s, i, e)
    BY InsertCut
  <2> QED BY <2>1 DEF Widened
<1>3. IsSeq(a) /\ Len(a) = i /\ \A n \in 1..i : a[n] = s[n]
  BY <1>2 DEF Cut
<1>4. IsSeq(b) /\ Len(b) = L - i /\ \A n \in 1..(L - i) : b[n] = s[i + n]
  BY <1>2 DEF Cut
<1>5. IsSeq(s) /\ \A n \in 1..L : s[n] \in ToSet(s)
  BY IsSeqOf, SeqFacts
<1>6. IsSeq(a) /\ ToSet(a) = {a[n] : n \in 1..i}
  BY <1>3, SeqFacts
<1>7. IsSeq(b) /\ ToSet(b) = {b[n] : n \in 1..(L - i)}
  BY <1>4, SeqFacts
<1>8. \A m, n \in 1..L : s[m].name = s[n].name => m = n
  BY DEF NamesDiffer
<1> HIDE DEF L
<1>10. (\A n \in 1..i : n \in 1..L) /\ \A n \in 1..(L - i) : i + n \in 1..L /\ i + n > i
  BY <1>1
<1>11. NamesDiffer(a)
  BY <1>3, <1>8, <1>10 DEF NamesDiffer
<1>12. NamesDiffer(b)
  <2> SUFFICES ASSUME NEW m \in 1..(L - i), NEW n \in 1..(L - i), b[m].name = b[n].name
               PROVE  m = n
    BY <1>4 DEF NamesDiffer
  <2>1. i + m = i + n
    BY <1>4, <1>8, <1>10
  <2> QED BY <1>1, <2>1
<1>13. Names(a) \cap Names(b) = {}
  <2> SUFFICES ASSUME NEW m \in 1..i, NEW n \in 1..(L - i), a[m].name = b[n].name PROVE FALSE
    BY <1>6, <1>7 DEF Names
  <2>1. s[m].name = s[i + n].name /\ m \in 1..L /\ i + n \in 1..L
    BY <1>3, <1>4, <1>10
  <2>2. m = i + n
    BY <1>8, <2>1
  <2> QED BY <1>1, <2>2
<1>14. e.name \notin Names(a) /\ e.name \notin Names(b)
  <2>1. \A n \in 1..L : s[n].name # e.name
    BY <1>5 DEF Names
  <2>2. \A n \in 1..i : a[n].name # e.name
    BY <1>3, <1>10, <2>1
  <2>3. \A n \in 1..(L - i) : b[n].name # e.name
    BY <1>4, <1>10, <2>1
  <2> QED BY <1>6, <1>7, <2>2, <2>3 DEF Names
<1> DEFINE d == a \o <<e>>
<1>15. NamesDiffer(d)
  BY <1>6, <1>11, <1>14, DifferOne
<1>16. IsSeq(d) /\ ToSet(d) = ToSet(a) \cup {e}
  BY <1>6, OneMore
<1> HIDE DEF d
<1>17. Names(d) \cap Names(b) = {}
  BY <1>13, <1>14, <1>16 DEF Names
<1>18. NamesDiffer(d \o b)
  BY <1>7, <1>12, <1>15, <1>16, <1>17, DifferConcat
<1> QED BY <1>2, <1>18 DEF d

\* The names of s come in the order that they have in `to`.
InOrder(s, to) == \A i, j \in 1..Len(s) : i < j => Before(to, s[i].name, s[j].name)

LEMMA OrderConcat ==
    ASSUME NEW to, NEW s, IsSeq(s), InOrder(s, to), NEW t, IsSeq(t), InOrder(t, to),
           \A x \in Names(s), y \in Names(t) : Before(to, x, y)
    PROVE  InOrder(s \o t, to)
<1> DEFINE K == Len(s)
           L == Len(t)
           r == s \o t
<1>1. /\ K \in Nat /\ L \in Nat /\ (\A n \in 1..K : s[n] \in ToSet(s)) /\ \A n \in 1..L : t[n] \in ToSet(t)
  BY SeqFacts
<1>2. Len(r) = K + L /\ \A n \in 1..Len(r) : r[n] = IF n <= K THEN s[n] ELSE t[n - K]
  BY ConcatFacts
<1>3. \A i, j \in 1..K : i < j => Before(to, s[i].name, s[j].name)
  BY DEF InOrder
<1>4. \A i, j \in 1..L : i < j => Before(to, t[i].name, t[j].name)
  BY DEF InOrder
<1>5. \A i \in 1..K, j \in 1..L : Before(to, s[i].name, t[j].name)
  BY <1>1 DEF Names
<1> HIDE DEF r, K, L
<1> SUFFICES ASSUME NEW i \in 1..Len(r), NEW j \in 1..Len(r), i < j
             PROVE  Before(to, r[i].name, r[j].name)
  BY DEF InOrder, r
<1>6. \A n \in 1..Len(r) : n <= K \/ n - K \in 1..L
  BY <1>1, <1>2
<1>7. \A n \in 1..Len(r) : n <= K => n \in 1..K
  BY <1>1, <1>2
<1>8. CASE j <= K
  <2>1. i <= K
    BY <1>1, <1>2, <1>8
  <2> QED BY <1>2, <1>3, <1>7, <1>8, <2>1
<1>9. CASE ~(i <= K)
  <2>1. ~(j <= K) /\ i - K < j - K
    BY <1>1, <1>2, <1>9
  <2> QED BY <1>2, <1>4, <1>6, <1>9, <2>1
<1>10. CASE i <= K /\ ~(j <= K)
  BY <1>2, <1>5, <1>6, <1>7, <1>10
<1> QED BY <1>8, <1>9, <1>10

LEMMA OrderOne ==
    ASSUME NEW to, NEW s, IsSeq(s), InOrder(s, to), NEW e
    PROVE  /\ (\A z \in Names(s) : Before(to, z, e.name)) => InOrder(s \o <<e>>, to)
           /\ (\A z \in Names(s) : Before(to, e.name, z)) => InOrder(<<e>> \o s, to)
<1> DEFINE t == <<e>>
<1>1. IsSeq(t) /\ ToSet(t) = {e} /\ Len(t) = 1
  BY SingletonFacts
<1> HIDE DEF t
<1>2. InOrder(t, to) /\ Names(t) = {e.name}
  BY <1>1 DEF InOrder, Names
<1>3. /\ (\A z \in Names(s) : Before(to, z, e.name)) => InOrder(s \o t, to)
      /\ (\A z \in Names(s) : Before(to, e.name, z)) => InOrder(t \o s, to)
  BY <1>1, <1>2, OrderConcat
<1> QED BY <1>3 DEF t

LEMMA OrderInsert ==
    ASSUME NEW to, IsSeq(to), NamesDiffer(to), NEW T, NEW s \in Seq(T), InOrder(s, to), NEW e \in T,
           NEW i \in 1..Len(s), NEW j, j = i + 1, NEW y, y = s[i].name, Before(to, y, e.name),
           \A z \in Names(s) : z = y \/ Before(to, z, y) \/ Before(to, e.name, z)
    PROVE  InOrder(InsertAt(s, j, e), to)
<1> DEFINE L == Len(s)
<1>1. L \in Nat /\ i \in 1..L
  BY LenProperties
<1>2. PICK a, b : Cut(a, b, s, i) /\ InsertAt(s, j, e) = (a \o <<e>>) \o b
  <2>1. Widened(InsertAt(s, j, e), s, i, e)
    BY InsertCut
  <2> QED BY <2>1 DEF Widened
<1>3. IsSeq(a) /\ Len(a) = i /\ \A n \in 1..i : a[n] = s[n]
  BY <1>2 DEF Cut
<1>4. IsSeq(b) /\ Len(b) = L - i /\ \A n \in 1..(L - i) : b[n] = s[i + n]
  BY <1>2 DEF Cut
<1>5. IsSeq(s) /\ \A n \in 1..L : s[n] \in ToSet(s)
  BY IsSeqOf, SeqFacts
<1>6. IsSeq(a) /\ ToSet(a) = {a[n] : n \in 1..i}
  BY <1>3, SeqFacts
<1>7. IsSeq(b) /\ ToSet(b) = {b[n] : n \in 1..(L - i)}
  BY <1>4, SeqFacts
<1>8. \A m, n \in 1..L : m < n => Before(to, s[m].name, s[n].name)
  BY DEF InOrder
<1> HIDE DEF L
<1>10. (\A n \in 1..i : n \in 1..L /\ (n = i \/ n < i)) /\ \A n \in 1..(L - i) : i + n \in 1..L /\ i < i + n
  BY <1>1
<1>11. InOrder(a, to)
  BY <1>3, <1>8, <1>10 DEF InOrder
<1>12. InOrder(b, to)
  <2> SUFFICES ASSUME NEW m \in 1..(L - i), NEW n \in 1..(L - i), m < n
               PROVE  Before(to, b[m].name, b[n].name)
    BY <1>4 DEF InOrder
  <2>1. i + m < i + n
    BY <1>1
  <2> QED BY <1>4, <1>8, <1>10, <2>1
<1>13. \A x \in Names(a) : x = y \/ Before(to, x, y)
  <2> SUFFICES ASSUME NEW n \in 1..i PROVE a[n].name = y \/ Before(to, a[n].name, y)
    BY <1>6 DEF Names
  <2> QED BY <1>1, <1>3, <1>8, <1>10
<1>14. \A z \in Names(b) : Before(to, y, z) /\ z \in Names(s)
  <2> SUFFICES ASSUME NEW n \in 1..(L - i) PROVE Before(to, y, b[n].name) /\ b[n].name \in Names(s)
    BY <1>7 DEF Names
  <2>1. b[n] = s[i + n] /\ i + n \in 1..L /\ i < i + n
    BY <1>4, <1>10
  <2>2. Before(to, y, b[n].name)
    BY <1>1, <1>8, <2>1
  <2> QED BY <1>5, <2>1, <2>2 DEF Names
<1>15. \A x \in Names(a) : Before(to, x, e.name)
  BY <1>13, BeforeFacts
<1>16. \A z \in Names(b) : Before(to, e.name, z)
  <2> SUFFICES ASSUME NEW z \in Names(b) PROVE Before(to, e.name, z)
    OBVIOUS
  <2>1. Before(to, y, z) /\ z \in Names(s)
    BY <1>14
  <2>2. z # y /\ ~Before(to, z, y)
    BY <2>1, BeforeFacts
  <2> QED BY <2>1, <2>2
<1> DEFINE d == a \o <<e>>
<1>17. InOrder(d, to)
  BY <1>6, <1>11, <1>15, OrderOne
<1>18. IsSeq(d) /\ ToSet(d) = ToSet(a) \cup {e}
  BY <1>6, OneMore
<1> HIDE DEF d
<1>19. \A x \in Names(d), z \in Names(b) : Before(to, x, z)
  <2> SUFFICES ASSUME NEW x \in Names(d), NEW z \in Names(b) PROVE Before(to, x, z)
    OBVIOUS
  <2>1. x \in Names(a) \/ x = e.name
    BY <1>18 DEF Names
  <2>2. Before(to, e.name, z)
    BY <1>16
  <2> QED BY <1>15, <2>1, <2>2, BeforeFacts
<1>20. InOrder(d \o b, to)
  BY <1>7, <1>12, <1>17, <1>18, <1>19, OrderConcat
<1> QED BY <1>2, <1>20 DEF d

SameNames(s, t) == Len(s) = Len(t) /\ \A n \in 1..Len(t) : s[n].name = t[n].name

\* Only one sequence has its names in the order of t and no name less.
LEMMA OrderDetermines ==
    ASSUME NEW s, IsSeq(s), NEW t, IsSeq(t), NamesDiffer(t), InOrder(s, t), NEW X, X = Names(s), X = Names(t)
    PROVE  SameNames(s, t)
<1> DEFINE M == Len(s)
           N == Len(t)
           f == [n \in 1..M |-> CHOOSE k \in 1..N : t[k].name = s[n].name]
           B == {n \in 0..M : \A k \in 1..n : f[k] = k}
<1>1. M \in Nat /\ N \in Nat /\ (\A n \in 1..M : s[n] \in ToSet(s)) /\ \A n \in 1..N : t[n] \in ToSet(t)
  BY SeqFacts
<1>2. ASSUME NEW u, IsSeq(u), NEW x \in Names(u) PROVE \E k \in 1..Len(u) : u[k].name = x
  <2>1. PICK c \in ToSet(u) : c.name = x
    BY DEF Names
  <2> QED BY <1>2, <2>1, ElementAt
<1>3. \A n \in 1..M : \E k \in 1..N : t[k].name = s[n].name
  <2>1. \A n \in 1..M : s[n].name \in Names(t)
    BY <1>1 DEF Names
  <2> QED BY <1>2, <2>1
<1>4. \A n \in 1..M : f[n] \in 1..N /\ t[f[n]].name = s[n].name
  BY <1>3
<1>5. \A m, n \in 1..N : t[m].name = t[n].name => m = n
  BY DEF NamesDiffer
<1> HIDE DEF f, M, N
<1>6. ASSUME NEW m \in 1..M, NEW n \in 1..M, m < n PROVE f[m] < f[n]
  <2>1. PICK i, j \in 1..N : i < j /\ t[i].name = s[m].name /\ t[j].name = s[n].name
    BY <1>6 DEF InOrder, Before, M, N
  <2>2. i = f[m] /\ j = f[n]
    BY <1>4, <1>5, <2>1
  <2> QED BY <2>1, <2>2
<1>7. ASSUME NEW k \in 1..N PROVE \E n \in 1..M : f[n] = k
  <2>1. t[k].name \in Names(s)
    BY <1>1 DEF Names, N
  <2>2. PICK n \in 1..M : s[n].name = t[k].name
    BY <1>2, <2>1 DEF M
  <2> QED BY <1>4, <1>5, <2>2
<1>8. 0 \in B
  BY <1>1
<1>9. ASSUME NEW k \in 0..M, k \in B, k + 1 <= M PROVE k + 1 \in B
  <2> DEFINE n == k + 1
  <2>1. n \in 1..M /\ n \in Nat /\ k \in Nat /\ \A i \in 1..k : f[i] = i /\ i \in 1..M
    BY <1>1, <1>9
  <2>2. f[n] \in Nat /\ f[n] >= n
    <3>1. CASE k = 0
      BY <1>1, <1>4, <2>1, <3>1
    <3>2. CASE k # 0
      <4>1. k \in 1..k /\ k < n
        BY <2>1, <3>2
      <4>2. f[k] = k /\ f[k] < f[n] /\ f[n] \in 1..N
        BY <1>4, <1>6, <2>1, <4>1
      <4> QED BY <1>1, <2>1, <4>2
    <3> QED BY <3>1, <3>2
  <2>3. ~(f[n] > n)
    <3> SUFFICES ASSUME f[n] > n PROVE FALSE
      OBVIOUS
    <3>1. n \in 1..N
      BY <1>1, <1>4, <2>1
    <3>2. PICK m \in 1..M : f[m] = n
      BY <1>7, <3>1
    <3>3. CASE m < n
      <4>1. m \in 1..k
        BY <1>1, <2>1, <3>3
      <4> QED BY <2>1, <3>2, <3>3, <4>1
    <3>4. CASE n < m
      BY <1>6, <2>1, <2>2, <3>2, <3>4
    <3>5. m \in Nat /\ (m < n \/ m = n \/ n < m)
      BY <1>1, <2>1
    <3> QED BY <2>1, <2>2, <3>2, <3>3, <3>4, <3>5
  <2>4. f[n] = n
    BY <2>1, <2>2, <2>3
  <2>5. \A i \in 1..n : i \in 1..k \/ i = n
    BY <2>1
  <2> QED BY <1>1, <2>1, <2>4, <2>5
<1>10. \A n \in 1..M : f[n] = n
  <2> HIDE DEF B
  <2>1. 0 \in Nat /\ \A k \in 0..M : k \in B /\ k + 1 <= M => k + 1 \in B
    BY <1>9
  <2>2. \A k \in 0..M : k \in B
    BY <1>1, <1>8, <2>1, Induction, Zenon
  <2>3. M \in B
    BY <1>1, <2>2
  <2> QED BY <2>3 DEF B
<1>11. M = N
  <2>1. M # 0 => M \in 1..N
    BY <1>1, <1>4, <1>10
  <2>2. N # 0 => N \in 1..M
    <3>1. N # 0 => \E n \in 1..M : f[n] = N
      BY <1>1, <1>7
    <3> QED BY <1>10, <3>1
  <2> QED BY <1>1, <2>1, <2>2
<1> QED BY <1>4, <1>10, <1>11 DEF M, N, SameNames

LEMMA SameColumns ==
    ASSUME NEW s, IsSeq(s), NEW t, IsSeq(t), NamesDiffer(t), InOrder(s, t), ToSet(s) = ToSet(t)
    PROVE  s = t
<1> DEFINE X == Names(s)
<1>1. X = Names(s) /\ X = Names(t)
  BY DEF Names
<1> HIDE DEF X
<1>2. Len(s) = Len(t) /\ \A n \in 1..Len(t) : s[n].name = t[n].name
  <2>1. SameNames(s, t)
    BY <1>1, OrderDetermines, ZenonT(40)
  <2> QED BY <2>1 DEF SameNames
<1>3. \A n \in 1..Len(t) : s[n] = t[n]
  <2> SUFFICES ASSUME NEW n \in 1..Len(t) PROVE s[n] = t[n]
    OBVIOUS
  <2>1. s[n] \in ToSet(t)
    BY <1>2, SeqFacts
  <2>2. PICK i \in 1..Len(t) : t[i] = s[n]
    BY <2>1, ElementAt
  <2> QED BY <1>2, <2>2 DEF NamesDiffer
<1>4. s = [n \in 1..Len(s) |-> s[n]] /\ t = [n \in 1..Len(t) |-> t[n]]
  BY SeqFacts
<1> QED BY <1>2, <1>3, <1>4

\* A clause that places its column behind one that is there.
Behind(c, names) == c.pos \in {Unpositioned, First} \/ c.pos \in names

Partial(T) == [ok : BOOLEAN, cols : Seq(T)]

LEMMA PlaceFacts ==
    ASSUME NEW T, NEW acc \in Partial(T), NEW c, c.col \in T
    PROVE  /\ Place(acc, c) \in Partial(T)
           /\ Behind(c, Names(acc.cols)) =>
                /\ Place(acc, c).ok = acc.ok
                /\ ToSet(Place(acc, c).cols) = ToSet(acc.cols) \cup {c.col}
<1> DEFINE s == acc.cols
           I == {i \in 1..Len(s) : s[i].name = c.pos}
           after == SelectInSeq(s, LAMBDA d : d.name = c.pos)
<1>1. s \in Seq(T) /\ acc.ok \in BOOLEAN /\ acc = [ok |-> acc.ok, cols |-> s]
  BY DEF Partial
<1>2. IsSeq(s) /\ ToSet(s) \subseteq T /\ ToSet(s) = {s[i] : i \in 1..Len(s)}
  BY <1>1, IsSeqOf, SeqFacts
<1>3. after = IF I # {} THEN Min(I) ELSE 0
  BY DEF SelectInSeq
<1>4. IF I = {} THEN after = 0 ELSE after \in I /\ after # 0
  <2>1. I \subseteq 1..Len(s)
    OBVIOUS
  <2> HIDE DEF I, after, s
  <2> QED BY <1>2, <1>3, <2>1, SelectFacts
<1>5. c.pos \in Names(s) => I # {}
  BY <1>2 DEF Names
<1>6. Place(acc, c) = IF c.pos = Unpositioned THEN [acc EXCEPT !.cols = Append(s, c.col)]
                      ELSE IF c.pos = First THEN [acc EXCEPT !.cols = <<c.col>> \o s]
                      ELSE IF after = 0 THEN [acc EXCEPT !.ok = FALSE]
                      ELSE [acc EXCEPT !.cols = InsertAt(s, after + 1, c.col)]
  BY DEF Place
<1>7. I \subseteq 1..Len(s)
  OBVIOUS
<1> HIDE DEF s, I, after
<1>8. ASSUME NEW t, t \in Seq(T), Place(acc, c) = [acc EXCEPT !.cols = t], ToSet(t) = ToSet(s) \cup {c.col}
      PROVE  /\ Place(acc, c) \in Partial(T) /\ Place(acc, c).ok = acc.ok
             /\ ToSet(Place(acc, c).cols) = ToSet(s) \cup {c.col}
  <2>1. [acc EXCEPT !.cols = t] = [ok |-> acc.ok, cols |-> t]
    BY <1>1
  <2>2. [ok |-> acc.ok, cols |-> t] \in Partial(T)
    BY <1>1, <1>8 DEF Partial
  <2> QED BY <1>8, <2>1, <2>2
<1>9. CASE c.pos = Unpositioned
  <2> DEFINE t == Append(s, c.col)
  <2>1. t = s \o <<c.col>>
    BY <1>1, <1>2
  <2>2. IsSeq(t) /\ ToSet(t) = ToSet(s) \cup {c.col}
    <3> DEFINE x == c.col
    <3> HIDE DEF x
    <3>1. IsSeq(s \o <<x>>) /\ ToSet(s \o <<x>>) = ToSet(s) \cup {x}
      BY <1>2, OneMore
    <3> QED BY <2>1, <3>1 DEF x
  <2> HIDE DEF t
  <2>3. t \in Seq(T)
    BY <1>2, <2>2, SeqOver
  <2>4. Place(acc, c) = [acc EXCEPT !.cols = t]
    BY <1>6, <1>9 DEF t
  <2> QED BY <1>8, <2>2, <2>3, <2>4 DEF s
<1>10. CASE c.pos = First
  <2> DEFINE t == <<c.col>> \o s
  <2>2. IsSeq(t) /\ ToSet(t) = ToSet(s) \cup {c.col}
    <3> DEFINE x == c.col
    <3> HIDE DEF x
    <3>1. IsSeq(<<x>> \o s) /\ ToSet(<<x>> \o s) = ToSet(s) \cup {x}
      BY <1>2, OneMore
    <3> QED BY <3>1 DEF x
  <2> HIDE DEF t
  <2>3. t \in Seq(T)
    BY <1>2, <2>2, SeqOver
  <2>4. Place(acc, c) = [acc EXCEPT !.cols = t]
    BY <1>6, <1>10 DEF t, Unpositioned, First
  <2> QED BY <1>8, <2>2, <2>3, <2>4 DEF s
<1>11. CASE c.pos \notin {Unpositioned, First} /\ after = 0
  <2>1. Place(acc, c) = [acc EXCEPT !.ok = FALSE]
    BY <1>6, <1>11
  <2>2. Place(acc, c) \in Partial(T)
    BY <1>1, <2>1 DEF Partial
  <2>3. ~Behind(c, Names(s))
    BY <1>4, <1>5, <1>11 DEF Behind
  <2> QED BY <2>2, <2>3 DEF s
<1>12. CASE c.pos \notin {Unpositioned, First} /\ after # 0
  <2>1. after \in 1..Len(s)
    BY <1>4, <1>7, <1>12
  <2> DEFINE t == InsertAt(s, after + 1, c.col)
  <2>2. t \in Seq(T) /\ ToSet(t) = ToSet(s) \cup {c.col}
    <3> DEFINE x == c.col
               j == after + 1
    <3>1. x \in T /\ j = after + 1
      OBVIOUS
    <3> HIDE DEF x, j
    <3>2. InsertAt(s, j, x) \in Seq(T) /\ ToSet(InsertAt(s, j, x)) = ToSet(s) \cup {x}
      BY <1>1, <2>1, <3>1, InsertFacts
    <3> QED BY <3>2 DEF x, j
  <2> HIDE DEF t
  <2>3. Place(acc, c) = [acc EXCEPT !.cols = t]
    BY <1>6, <1>12 DEF t
  <2> QED BY <1>8, <2>2, <2>3 DEF s
<1> QED BY <1>9, <1>10, <1>11, <1>12

LEMMA PlaceDiffers ==
    ASSUME NEW T, NEW acc \in Partial(T), NEW c, c.col \in T,
           NamesDiffer(acc.cols), c.col.name \notin Names(acc.cols)
    PROVE  NamesDiffer(Place(acc, c).cols)
<1> DEFINE s == acc.cols
           x == c.col
           I == {i \in 1..Len(s) : s[i].name = c.pos}
           after == SelectInSeq(s, LAMBDA d : d.name = c.pos)
<1>1. s \in Seq(T) /\ acc = [ok |-> acc.ok, cols |-> s]
  BY DEF Partial
<1>2. IsSeq(s)
  BY <1>1, IsSeqOf
<1>3. after = IF I # {} THEN Min(I) ELSE 0
  BY DEF SelectInSeq
<1>4. after = 0 \/ after \in 1..Len(s)
  <2>1. I \subseteq 1..Len(s)
    OBVIOUS
  <2> HIDE DEF I, after, s
  <2>2. IF I = {} THEN after = 0 ELSE after \in I /\ after # 0
    BY <1>2, <1>3, <2>1, SelectFacts
  <2> QED BY <2>1, <2>2
<1>5. Place(acc, c) = IF c.pos = Unpositioned THEN [acc EXCEPT !.cols = Append(s, x)]
                      ELSE IF c.pos = First THEN [acc EXCEPT !.cols = <<x>> \o s]
                      ELSE IF after = 0 THEN [acc EXCEPT !.ok = FALSE]
                      ELSE [acc EXCEPT !.cols = InsertAt(s, after + 1, x)]
  BY DEF Place
<1>6. x \in T /\ NamesDiffer(s) /\ x.name \notin Names(s)
  OBVIOUS
<1> HIDE DEF s, x, I, after
<1>7. NamesDiffer(s \o <<x>>) /\ NamesDiffer(<<x>> \o s)
  BY <1>2, <1>6, DifferOne
<1>8. Append(s, x) = s \o <<x>>
  BY <1>1, <1>6
<1>9. after # 0 => NamesDiffer(InsertAt(s, after + 1, x))
  <2> DEFINE j == after + 1
  <2>1. j = after + 1
    OBVIOUS
  <2> HIDE DEF j
  <2>2. after # 0 => NamesDiffer(InsertAt(s, j, x))
    BY <1>1, <1>4, <1>6, <2>1, DifferInsert
  <2> QED BY <2>1, <2>2
<1>10. \A t : [acc EXCEPT !.cols = t].cols = t
  BY <1>1
<1>11. [acc EXCEPT !.ok = FALSE].cols = s
  BY <1>1
<1> QED BY <1>5, <1>6, <1>7, <1>8, <1>9, <1>10, <1>11

\* A clause that is aimed leaves the columns in order.
LEMMA PlaceInOrder ==
    ASSUME NEW to, IsSeq(to), NamesDiffer(to), NEW T, NEW acc \in Partial(T), NEW c, c.col \in T,
           InOrder(acc.cols, to), Aims(to, c, Names(acc.cols))
    PROVE  InOrder(Place(acc, c).cols, to)
<1> DEFINE s == acc.cols
           x == c.col
           I == {i \in 1..Len(s) : s[i].name = c.pos}
           after == SelectInSeq(s, LAMBDA d : d.name = c.pos)
<1>1. s \in Seq(T) /\ acc = [ok |-> acc.ok, cols |-> s]
  BY DEF Partial
<1>2. IsSeq(s)
  BY <1>1, IsSeqOf
<1>3. after = IF I # {} THEN Min(I) ELSE 0
  BY DEF SelectInSeq
<1>4. after = 0 \/ (after \in 1..Len(s) /\ s[after].name = c.pos)
  <2>1. I \subseteq 1..Len(s) /\ \A i \in I : s[i].name = c.pos
    OBVIOUS
  <2> HIDE DEF I, after, s
  <2>2. IF I = {} THEN after = 0 ELSE after \in I /\ after # 0
    BY <1>2, <1>3, <2>1, SelectFacts
  <2> QED BY <2>1, <2>2
<1>5. Place(acc, c) = IF c.pos = Unpositioned THEN [acc EXCEPT !.cols = Append(s, x)]
                      ELSE IF c.pos = First THEN [acc EXCEPT !.cols = <<x>> \o s]
                      ELSE IF after = 0 THEN [acc EXCEPT !.ok = FALSE]
                      ELSE [acc EXCEPT !.cols = InsertAt(s, after + 1, x)]
  BY DEF Place
<1>6. x \in T /\ InOrder(s, to)
  OBVIOUS
<1>7. /\ c.pos = Unpositioned => \A z \in Names(s) : Before(to, z, x.name)
      /\ c.pos = First => \A z \in Names(s) : Before(to, x.name, z)
      /\ c.pos \notin {Unpositioned, First} =>
           /\ Before(to, c.pos, x.name)
           /\ \A z \in Names(s) : z = c.pos \/ Before(to, z, c.pos) \/ Before(to, x.name, z)
  BY DEF Aims
<1> HIDE DEF s, x, I, after
<1>8. Append(s, x) = s \o <<x>>
  BY <1>1, <1>6
<1>9. c.pos = Unpositioned => InOrder(Append(s, x), to)
  BY <1>2, <1>6, <1>7, <1>8, OrderOne
<1>10. c.pos = First => InOrder(<<x>> \o s, to)
  BY <1>2, <1>6, <1>7, OrderOne
<1>11. c.pos \notin {Unpositioned, First} /\ after # 0 => InOrder(InsertAt(s, after + 1, x), to)
  <2> SUFFICES ASSUME c.pos \notin {Unpositioned, First}, after # 0
               PROVE  InOrder(InsertAt(s, after + 1, x), to)
    OBVIOUS
  <2> DEFINE j == after + 1
             y == c.pos
  <2>1. j = after + 1 /\ after \in 1..Len(s) /\ y = s[after].name
    BY <1>4
  <2>2. /\ Before(to, y, x.name)
        /\ \A z \in Names(s) : z = y \/ Before(to, z, y) \/ Before(to, x.name, z)
    BY <1>7
  <2> HIDE DEF j, y
  <2>3. InOrder(InsertAt(s, j, x), to)
    BY <1>1, <1>6, <2>1, <2>2, OrderInsert
  <2> QED BY <2>1, <2>3
<1>12. \A t : [acc EXCEPT !.cols = t].cols = t
  BY <1>1
<1>13. [acc EXCEPT !.ok = FALSE].cols = s
  BY <1>1
<1> QED BY <1>5, <1>6, <1>9, <1>10, <1>11, <1>12, <1>13

\* No two columns that are kept or placed have the same name.
Apart(kept, placing) ==
    /\ NamesDiffer(kept)
    /\ \A n \in 1..Len(placing) : placing[n].col.name \notin Names(kept)
    /\ \A m, n \in 1..Len(placing) : placing[m].col.name = placing[n].col.name => m = n

\* Whether the column that placing[n] goes behind is there when its turn comes.
Placeable(kept, placing) ==
    \A n \in 1..Len(placing) :
      \/ Behind(placing[n], Names(kept))
      \/ \E j \in 1..Len(placing) : j < n /\ placing[j].col.name = placing[n].pos

Placings(stmt) == Filter(stmt, Placing)

KeptAndPlaced(C, kept, placing) == C = ToSet(kept) \cup {c.col : c \in ToSet(placing)}

\* Every clause is aimed among the columns that are there when its turn comes.
Guides(kept, placing, to) ==
    /\ IsSeq(to) /\ NamesDiffer(to) /\ InOrder(kept, to)
    /\ \A n \in 1..Len(placing) : \A N :
          (\A z \in N : z \in Names(kept) \/ \E j \in 1..Len(placing) : j < n /\ placing[j].col.name = z) =>
             Aims(to, placing[n], N)

\* Guided clauses put the columns in order, and without clauses they stay.
Follows(cols, kept, placing) == \A to : Guides(kept, placing, to) => InOrder(cols, to)
Unplaced(cols, kept, placing) == placing = <<>> => cols = kept

LEMMA NewColumnsFacts ==
    ASSUME NEW cols, NEW stmt,
           NEW kept, kept = KeptColumns(cols, stmt), IsSeq(kept),
           NEW placing, placing = Placings(stmt), IsSeq(placing),
           Placeable(kept, placing), NEW r, r = NewColumns(cols, stmt)
    PROVE  /\ r.ok = TRUE /\ IsSeq(r.cols)
           /\ KeptAndPlaced(ToSet(r.cols), kept, placing)
           /\ Apart(kept, placing) => NamesDiffer(r.cols)
           /\ Follows(r.cols, kept, placing) /\ Unplaced(r.cols, kept, placing)
<1> DEFINE L == Len(placing)
           T == ToSet(kept) \cup {c.col : c \in ToSet(placing)}
           V == Partial(T)
           start == [ok |-> TRUE, cols |-> kept]
           Rec(f) == f = [n \in 0..L |-> IF n = 0 THEN start ELSE Place(f[n - 1], placing[n])]
           F == CHOOSE f : Rec(f)
           step == [n \in 0..L |-> [v \in V |-> IF n = 0 THEN v ELSE Place(v, placing[n])]]
<1>1. NewColumns(cols, stmt) = F[L]
  BY DEF NewColumns, Placings
<1>2. L \in Nat /\ 0 \in Nat /\ 0 <= L /\ ToSet(placing) = {placing[n] : n \in 1..L}
  BY SeqFacts
<1>3. \A n \in 1..L : placing[n] \in ToSet(placing) /\ placing[n].col \in T
  BY SeqFacts
<1>4. kept \in Seq(T)
  <2>1. ToSet(kept) \subseteq T
    OBVIOUS
  <2> HIDE DEF T
  <2> QED BY <2>1, SeqOver
<1>5. start \in V
  BY <1>4 DEF Partial
<1> HIDE DEF L, T, start
<1>6. \A n \in 1..L : \A v \in V : Place(v, placing[n]) \in V
  <2> SUFFICES ASSUME NEW n \in 1..L, NEW v \in V
               PROVE  Place(v, placing[n]) \in V
    OBVIOUS
  <2> DEFINE c == placing[n]
  <2>1. c.col \in T
    BY <1>3
  <2> HIDE DEF c
  <2>2. Place(v, c) \in Partial(T)
    BY <2>1, PlaceFacts
  <2> QED BY <2>2 DEF c
<1> HIDE DEF V
<1>7. step \in [0..L -> [V -> V]]
  <2>1. \A n \in 0..L : n # 0 => n \in 1..L
    BY <1>2
  <2> QED BY <1>6, <2>1
<1>8. PICK g : Recursive(g, 0, L, V, start, step)
  <2> HIDE DEF step
  <2> QED BY <1>2, <1>5, <1>7, Recursion, Zenon
<1>9. \A n \in 1..L : n \in 0..L /\ n # 0 /\ n - 1 \in 0..L
  BY <1>2
<1>10. g \in [0..L -> V] /\ g[0] = start
  BY <1>8 DEF Recursive
<1>11. ASSUME NEW n \in 1..L
       PROVE  g[n] = Place(g[n - 1], placing[n])
  <2>1. g[n] = step[n][g[n - 1]]
    BY <1>8, <1>9 DEF Recursive
  <2>2. g[n - 1] \in V
    BY <1>9, <1>10
  <2> QED BY <1>9, <2>1, <2>2
<1> HIDE DEF step
<1>12. Rec(g)
  <2>1. \A n \in 0..L : g[n] = IF n = 0 THEN start ELSE Place(g[n - 1], placing[n])
    <3>1. \A n \in 0..L : n # 0 => n \in 1..L
      BY <1>2
    <3> QED BY <1>10, <1>11, <3>1
  <2> QED BY <1>10, <2>1
<1>13. Rec(F)
  <2> HIDE DEF Rec
  <2> QED BY <1>12
<1> HIDE DEF F
<1> DEFINE Cols(n) == ToSet(kept) \cup {placing[j].col : j \in 1..n}
           Fine(n) == Apart(kept, placing) => NamesDiffer(F[n].cols)
           Neat(n) == \A to : Guides(kept, placing, to) => InOrder(F[n].cols, to)
           B == {n \in 0..L : /\ F[n] \in V /\ F[n].ok = TRUE /\ ToSet(F[n].cols) = Cols(n)
                              /\ Fine(n) /\ Neat(n)}
<1>14. F[0] = start /\ \A n \in 1..L : F[n] = Place(F[n - 1], placing[n])
  BY <1>2, <1>9, <1>13
<1> HIDE DEF Rec
<1>15. 0 \in B
  <2>1. Cols(0) = ToSet(kept)
    OBVIOUS
  <2>2. start.ok = TRUE /\ start.cols = kept
    BY DEF start
  <2>3. Fine(0)
    BY <1>14, <2>2 DEF Apart
  <2>4. Neat(0)
    BY <1>14, <2>2 DEF Guides
  <2> QED BY <1>2, <1>5, <1>14, <2>1, <2>2, <2>3, <2>4
<1>16. ASSUME NEW k \in 0..L, k \in B, k + 1 <= L
       PROVE  k + 1 \in B
  <2> DEFINE n == k + 1
             v == F[k]
             c == placing[n]
  <2>1. n \in 1..L /\ n - 1 = k /\ n \in 0..L
    BY <1>2, <1>16
  <2>2. v \in V /\ v.ok = TRUE /\ ToSet(v.cols) = Cols(k) /\ Fine(k) /\ Neat(k)
    BY <1>16
  <2>3. F[n] = Place(v, c)
    BY <1>14, <2>1
  <2>4. c.col \in T
    BY <1>3, <2>1
  <2>5. Behind(c, Names(v.cols))
    <3>1. \/ Behind(c, Names(kept))
          \/ \E j \in 1..L : j < n /\ placing[j].col.name = c.pos
      BY <2>1 DEF Placeable, L
    <3>2. Names(kept) \subseteq Names(v.cols)
      BY <2>2 DEF Names
    <3>3. ASSUME NEW j \in 1..L, j < n, placing[j].col.name = c.pos
          PROVE  c.pos \in Names(v.cols)
      <4>1. j \in 1..k
        BY <1>2, <3>3
      <4>2. placing[j].col \in ToSet(v.cols)
        BY <2>2, <4>1
      <4> QED BY <3>3, <4>2 DEF Names
    <3> QED BY <3>1, <3>2, <3>3 DEF Behind
  <2>6. Cols(n) = Cols(k) \cup {c.col}
    <3>1. 1..n = (1..k) \cup {n}
      BY <1>2
    <3> QED BY <3>1
  <2>8. Fine(n)
    <3> SUFFICES ASSUME Apart(kept, placing) PROVE NamesDiffer(F[n].cols)
      OBVIOUS
    <3>1. NamesDiffer(v.cols) /\ v \in Partial(T)
      BY <2>2 DEF V
    <3>2. c.col.name \notin Names(v.cols)
      <4> SUFFICES ASSUME NEW d \in ToSet(v.cols), d.name = c.col.name PROVE FALSE
        BY DEF Names
      <4>1. CASE d \in ToSet(kept)
        BY <2>1, <4>1 DEF Apart, Names, L
      <4>2. CASE d \notin ToSet(kept)
        <5>1. PICK l \in 1..k : d = placing[l].col
          BY <2>2, <4>2
        <5>2. l \in 1..L /\ l # n
          BY <1>2, <1>16
        <5> QED BY <2>1, <5>1, <5>2 DEF Apart, L
      <4> QED BY <4>1, <4>2
    <3> HIDE DEF c, v
    <3>3. NamesDiffer(Place(v, c).cols)
      BY <2>4, <3>1, <3>2, PlaceDiffers
    <3> QED BY <2>3, <3>3
  <2>9. Neat(n)
    <3> SUFFICES ASSUME NEW to, Guides(kept, placing, to) PROVE InOrder(F[n].cols, to)
      OBVIOUS
    <3>1. InOrder(v.cols, to) /\ v \in Partial(T) /\ IsSeq(to) /\ NamesDiffer(to)
      BY <2>2 DEF V, Guides
    <3>2. ASSUME NEW z \in Names(v.cols)
          PROVE  z \in Names(kept) \/ \E j \in 1..L : j < n /\ placing[j].col.name = z
      <4>1. PICK d \in ToSet(v.cols) : d.name = z
        BY DEF Names
      <4>2. CASE d \in ToSet(kept)
        BY <4>1, <4>2 DEF Names
      <4>3. CASE d \notin ToSet(kept)
        <5>1. PICK l \in 1..k : d = placing[l].col
          BY <2>2, <4>1, <4>3
        <5>2. l \in 1..L /\ l < n
          BY <1>2, <1>16
        <5> QED BY <4>1, <5>1, <5>2
      <4> QED BY <4>2, <4>3
    <3>3. Aims(to, c, Names(v.cols))
      BY <2>1, <3>2 DEF Guides, L
    <3> HIDE DEF c, v
    <3>4. InOrder(Place(v, c).cols, to)
      BY <2>4, <3>1, <3>3, PlaceInOrder
    <3> QED BY <2>3, <3>4
  <2> HIDE DEF c, v, Cols, Fine, Neat
  <2>7. F[n] \in V /\ F[n].ok = TRUE /\ ToSet(F[n].cols) = Cols(k) \cup {c.col}
    <3>1. v \in Partial(T)
      BY <2>2 DEF V
    <3>2. /\ Place(v, c) \in Partial(T)
          /\ Place(v, c).ok = v.ok
          /\ ToSet(Place(v, c).cols) = ToSet(v.cols) \cup {c.col}
      BY <2>4, <2>5, <3>1, PlaceFacts
    <3> QED BY <2>2, <2>3, <3>2 DEF V
  <2> HIDE DEF n
  <2> QED BY <2>1, <2>6, <2>7, <2>8, <2>9 DEF n
<1>17. L \in B
  <2> HIDE DEF B
  <2>1. \A k \in 0..L : k \in B /\ k + 1 <= L => k + 1 \in B
    BY <1>16
  <2>2. \A k \in 0..L : k \in B
    BY <1>2, <1>15, <2>1, Induction, Zenon
  <2> QED BY <1>2, <2>2
<1>18. Cols(L) = T
  BY <1>2 DEF T
<1>19. F[L] \in V /\ F[L].ok = TRUE /\ ToSet(F[L].cols) = T /\ Fine(L) /\ Neat(L)
  BY <1>17, <1>18
<1>20. IsSeq(F[L].cols)
  <2>1. F[L].cols \in Seq(T)
    BY <1>19 DEF V, Partial
  <2> QED BY <2>1, IsSeqOf
<1>21. placing = <<>> => F[L].cols = kept
  BY <1>14, EmptyFacts DEF L, start
<1> QED BY <1>1, <1>19, <1>20, <1>21 DEF T, KeptAndPlaced, Follows, Unplaced

----------------------------------------------------------------------------
(* What a statement makes of the columns                                   *)

LEMMA PickedOnes ==
    ASSUME NEW s, IsSeq(s), NEW X, NEW I, I = {n \in 1..Len(s) : s[n] \in X}
    PROVE  /\ IsSeq(Pick(s, I)) /\ ToSet(Pick(s, I)) = ToSet(s) \cap X
           /\ Restricts(Pick(s, I), s, I)
<1>1. I \subseteq 1..Len(s)
  OBVIOUS
<1>2. IsSeq(Pick(s, I)) /\ ToSet(Pick(s, I)) = {s[n] : n \in I}
  BY <1>1, PickFacts
<1>3. Restricts(Pick(s, I), s, I)
  BY <1>1, PickRestricts
<1>4. ToSet(s) = {s[n] : n \in 1..Len(s)}
  BY SeqFacts
<1>5. {s[n] : n \in I} = ToSet(s) \cap X
  BY <1>4
<1> QED BY <1>2, <1>3, <1>5

With(C, ops) == {c \in C : c.op \in ops}

LEMMA OpsFacts ==
    ASSUME NEW stmt, IsSeq(stmt), NEW ops
    PROVE  IsSeq(Ops(stmt, ops)) /\ ToSet(Ops(stmt, ops)) = With(ToSet(stmt), ops)
<1> DEFINE X == With(ToSet(stmt), ops)
           I == {n \in 1..Len(stmt) : stmt[n].op \in ops}
<1>1. I = {n \in 1..Len(stmt) : stmt[n] \in X}
  BY SeqFacts DEF With
<1>2. Ops(stmt, ops) = Pick(stmt, I)
  BY DEF Ops, Filter
<1>3. X \subseteq ToSet(stmt)
  BY DEF With
<1> HIDE DEF X, I
<1>4. IsSeq(Pick(stmt, I)) /\ ToSet(Pick(stmt, I)) = ToSet(stmt) \cap X
  BY <1>1, PickedOnes
<1> QED BY <1>2, <1>3, <1>4 DEF X

LEMMA PlacingFacts ==
    ASSUME NEW stmt, IsSeq(stmt), NEW p, p = Placings(stmt)
    PROVE  /\ IsSeq(p) /\ ToSet(p) = {c \in ToSet(stmt) : Placing(c)}
           /\ \E I : Restricts(p, stmt, I)
<1> DEFINE X == {c \in ToSet(stmt) : Placing(c)}
           I == {n \in 1..Len(stmt) : Placing(stmt[n])}
<1>1. I = {n \in 1..Len(stmt) : stmt[n] \in X}
  BY SeqFacts
<1>2. p = Pick(stmt, I)
  BY DEF Placings, Filter
<1>3. ToSet(stmt) \cap X = X
  OBVIOUS
<1> HIDE DEF X, I
<1>4. IsSeq(Pick(stmt, I)) /\ ToSet(Pick(stmt, I)) = ToSet(stmt) \cap X /\ Restricts(Pick(stmt, I), stmt, I)
  BY <1>1, PickedOnes
<1>5. IsSeq(p) /\ ToSet(p) = X /\ Restricts(p, stmt, I)
  BY <1>2, <1>3, <1>4
<1> QED BY <1>5 DEF X

LEMMA MovedFacts ==
    ASSUME NEW stmt, IsSeq(stmt)
    PROVE  Moved(stmt) = {c.col.name : c \in {d \in ToSet(stmt) : d.op = "DropColumn" \/ Placing(d)}}
<1> DEFINE a == Ops(stmt, {"DropColumn"})
           b == Placings(stmt)
<1>1. IsSeq(a) /\ ToSet(a) = With(ToSet(stmt), {"DropColumn"})
  BY OpsFacts
<1>2. IsSeq(b) /\ ToSet(b) = {c \in ToSet(stmt) : Placing(c)}
  BY PlacingFacts
<1>3. Moved(stmt) = {c.col.name : c \in ToSet(a \o b)}
  BY DEF Moved, Placings
<1> HIDE DEF a, b
<1>4. ToSet(a \o b) = ToSet(a) \cup ToSet(b)
  BY <1>1, <1>2, ConcatFacts
<1>5. ToSet(a \o b) = {d \in ToSet(stmt) : d.op = "DropColumn" \/ Placing(d)}
  BY <1>1, <1>2, <1>4 DEF With
<1> QED BY <1>3, <1>5

UniqueNames(C) == \A c, d \in C : c.name = d.name => c = d

LEMMA DifferUnique ==
    ASSUME NEW s, IsSeq(s), NamesDiffer(s)
    PROVE  UniqueNames(ToSet(s))
<1> SUFFICES ASSUME NEW c \in ToSet(s), NEW d \in ToSet(s), c.name = d.name PROVE c = d
  BY DEF UniqueNames
<1>1. PICK i \in 1..Len(s) : s[i] = c
  BY ElementAt
<1>2. PICK j \in 1..Len(s) : s[j] = d
  BY ElementAt
<1> QED BY <1>1, <1>2 DEF NamesDiffer

\* d is c as it was, or as the statement with clauses S modifies it.
Becomes(c, d, S) ==
    /\ d.name = c.name
    /\ \/ d = c /\ \A m \in S : m.op = "ModifyColumn" => m.col.name # c.name
       \/ \E m \in S : m.op = "ModifyColumn" /\ m.col = d

LEMMA PickDiffers ==
    ASSUME NEW s, IsSeq(s), NamesDiffer(s), NEW I, I \subseteq 1..Len(s)
    PROVE  NamesDiffer(Pick(s, I))
<1> DEFINE p == Pick(s, I)
           C == Cardinality(I)
<1>1. /\ Len(p) = C /\ C \in Nat /\ (\A k \in 1..C : Nth(I, k) \in 1..Len(s) /\ p[k] = s[Nth(I, k)])
      /\ \A j, k \in 1..C : j < k => Nth(I, j) < Nth(I, k)
  <2>1. I \subseteq 1..Len(s)
    OBVIOUS
  <2>2. /\ Len(p) = C /\ C \in Nat /\ (\A k \in 1..C : Nth(I, k) \in I)
        /\ \A j, k \in 1..C : j < k => Nth(I, j) < Nth(I, k)
    BY <2>1, PickFacts
  <2>3. \A k \in 1..C : p[k] = s[Nth(I, k)]
    BY DEF Pick
  <2> QED BY <2>1, <2>2, <2>3
<1>2. Len(s) \in Nat
  BY SeqFacts
<1> HIDE DEF p, C
<1> SUFFICES ASSUME NEW j \in 1..C, NEW k \in 1..C, p[j].name = p[k].name PROVE j = k
  BY <1>1 DEF NamesDiffer, p
<1>3. Nth(I, j) = Nth(I, k)
  BY <1>1 DEF NamesDiffer
<1>4. ~(j < k) /\ ~(k < j)
  BY <1>1, <1>2, <1>3
<1> QED BY <1>1, <1>4

LEMMA PickInOrder ==
    ASSUME NEW s, IsSeq(s), NEW I, I \subseteq 1..Len(s)
    PROVE  InOrder(Pick(s, I), s)
<1> DEFINE p == Pick(s, I)
           C == Cardinality(I)
<1>1. /\ Len(p) = C /\ C \in Nat /\ (\A k \in 1..C : Nth(I, k) \in I)
      /\ \A j, k \in 1..C : j < k => Nth(I, j) < Nth(I, k)
  BY PickFacts
<1>2. \A k \in 1..C : p[k] = s[Nth(I, k)]
  BY DEF Pick
<1> HIDE DEF p, C
<1> SUFFICES ASSUME NEW j \in 1..C, NEW k \in 1..C, j < k PROVE Before(s, p[j].name, p[k].name)
  BY <1>1 DEF InOrder, p
<1>3. Nth(I, j) \in 1..Len(s) /\ Nth(I, k) \in 1..Len(s) /\ Nth(I, j) < Nth(I, k)
  BY <1>1
<1> QED BY <1>2, <1>3 DEF Before

LEMMA KeptFacts ==
    ASSUME NEW cols, IsSeq(cols), NEW stmt, IsSeq(stmt),
           NEW kept, kept = KeptColumns(cols, stmt)
    PROVE  /\ IsSeq(kept)
           /\ \A d \in ToSet(kept) : \E c \in ToSet(cols) :
                 c.name \notin Moved(stmt) /\ Becomes(c, d, ToSet(stmt))
           /\ \A c \in ToSet(cols) : c.name \notin Moved(stmt) =>
                 \E d \in ToSet(kept) : Becomes(c, d, ToSet(stmt))
           /\ NamesDiffer(cols) => NamesDiffer(kept)
           /\ InOrder(kept, cols)
<1> DEFINE X == {c \in ToSet(cols) : c.name \notin Moved(stmt)}
           I == {n \in 1..Len(cols) : cols[n].name \notin Moved(stmt)}
           k == Pick(cols, I)
           new(x) == {c \in ToSet(Ops(stmt, {"ModifyColumn"})) : c.col.name = x}
           Val(c) == IF new(c.name) = {} THEN c ELSE (CHOOSE m \in new(c.name) : TRUE).col
<1>1. kept = [n \in DOMAIN k |-> Val(k[n])]
  BY DEF KeptColumns, Filter
<1>2. I = {n \in 1..Len(cols) : cols[n] \in X} /\ ToSet(cols) \cap X = X
  BY SeqFacts
<1> HIDE DEF X, I
<1>3. IsSeq(k) /\ ToSet(k) = X
  BY <1>2, PickedOnes
<1> HIDE DEF k
<1>4. DOMAIN k = 1..Len(k) /\ Len(k) \in Nat /\ X = {k[n] : n \in 1..Len(k)}
  BY <1>3, SeqFacts
<1>5. ToSet(Ops(stmt, {"ModifyColumn"})) = With(ToSet(stmt), {"ModifyColumn"})
  BY OpsFacts
<1>6. ASSUME NEW c PROVE Becomes(c, Val(c), ToSet(stmt))
  <2>1. CASE new(c.name) = {}
    BY <1>5, <2>1 DEF Becomes, With
  <2>2. CASE new(c.name) # {}
    <3> DEFINE m == CHOOSE m \in new(c.name) : TRUE
    <3>1. m \in new(c.name)
      BY <2>2
    <3>2. m.op = "ModifyColumn" /\ m.col.name = c.name /\ m \in ToSet(stmt)
      BY <1>5, <3>1 DEF With
    <3>3. Val(c) = m.col
      BY <2>2
    <3> HIDE DEF m, Val, new
    <3> QED BY <3>2, <3>3 DEF Becomes
  <2> QED BY <2>1, <2>2
<1>7. \A c, d : c = d => Val(c) = Val(d)
  OBVIOUS
<1>8. \A c, d : c.name = d.name /\ new(c.name) # {} => Val(c) = Val(d)
  OBVIOUS
<1>9. \A c : new(c.name) = {} => Val(c) = c
  OBVIOUS
<1> HIDE DEF Val, new
<1>10. IsSeq(kept) /\ Len(kept) = Len(k) /\ \A n \in 1..Len(k) : kept[n] = Val(k[n])
  <2>1. kept = [n \in 1..Len(k) |-> kept[n]] /\ \A n \in 1..Len(k) : kept[n] = Val(k[n])
    BY <1>1, <1>4
  <2> QED BY <1>4, <2>1, FunctionIsSeq
<1>11. ToSet(kept) = {kept[n] : n \in 1..Len(k)}
  BY <1>10, SeqFacts
<1>12. ToSet(kept) = {Val(c) : c \in X}
  BY <1>4, <1>10, <1>11
<1>13. \A d \in ToSet(kept) : \E c \in ToSet(cols) :
          c.name \notin Moved(stmt) /\ Becomes(c, d, ToSet(stmt))
  BY <1>6, <1>12 DEF X
<1>14. \A c \in ToSet(cols) : c.name \notin Moved(stmt) =>
          \E d \in ToSet(kept) : Becomes(c, d, ToSet(stmt))
  BY <1>6, <1>12 DEF X
<1>15. ASSUME NamesDiffer(cols) PROVE NamesDiffer(kept)
  <2>1. NamesDiffer(k)
    BY <1>15, PickDiffers DEF k, I
  <2>2. \A n \in 1..Len(k) : kept[n].name = k[n].name
    BY <1>6, <1>10 DEF Becomes
  <2> QED BY <1>10, <2>1, <2>2 DEF NamesDiffer
<1>16. InOrder(kept, cols)
  <2>1. I \subseteq 1..Len(cols)
    BY DEF I
  <2>2. InOrder(k, cols)
    BY <2>1, PickInOrder DEF k
  <2>3. \A n \in 1..Len(k) : kept[n].name = k[n].name
    BY <1>6, <1>10 DEF Becomes
  <2> QED BY <1>10, <2>2, <2>3 DEF InOrder
<1> QED BY <1>10, <1>13, <1>14, <1>15, <1>16

\* The clauses of s are clauses of D in their order, with all those that drop
\* or place a column.
Starts(s, D) ==
    /\ \E I : Restricts(s, D, I)
    /\ \A c \in ToSet(D) : Placing(c) \/ c.op = "DropColumn" => c \in ToSet(s)

LEMMA StartsFacts ==
    ASSUME NEW D, IsSeq(D), NEW s, Starts(s, D)
    PROVE  /\ IsSeq(s) /\ ToSet(s) \subseteq ToSet(D)
           /\ \A c \in ToSet(D) : Placing(c) \/ c.op = "DropColumn" => c \in ToSet(s)
<1>1. PICK I : Restricts(s, D, I)
  BY DEF Starts
<1>2. IsSeq(s) /\ ToSet(s) \subseteq ToSet(D)
  BY <1>1, RestrictsFacts
<1> QED BY <1>2 DEF Starts

LEMMA ColumnsPlaceable ==
    ASSUME NEW D, NEW from, NEW to, NEW U, U = ToSet(D), IsSeq(D),
           AboutColumns(U, from, to), Ordered(D, U), IsSeq(from),
           NEW s, Starts(s, D), NEW kept, kept = KeptColumns(from, s),
           NEW p, p = Placings(s)
    PROVE  Placeable(kept, p)
<1>1. /\ IsSeq(s) /\ ToSet(s) \subseteq U
      /\ \A c \in U : Placing(c) \/ c.op = "DropColumn" => c \in ToSet(s)
  BY StartsFacts
<1>2. PICK I : Restricts(s, D, I)
  BY DEF Starts
<1>3. IsSeq(p) /\ ToSet(p) = {c \in ToSet(s) : Placing(c)} /\ \E J : Restricts(p, s, J)
  BY <1>1, PlacingFacts
<1>4. PICK J : Restricts(p, s, J)
  BY <1>3
<1>5. \A n \in 1..Len(p) : p[n] \in ToSet(p)
  BY <1>3, SeqFacts
<1>6. ASSUME NEW x, x \notin {Unpositioned, First}
      PROVE  Precedes(p, Places(U, x), PlacesAfter(U, x))
  <2> DEFINE X == PlacesAfter(U, x)
             Y == Places(U, x)
  <2>1. Precedes(D, Y, X)
    BY <1>6 DEF Ordered
  <2> HIDE DEF X, Y
  <2>2. Precedes(s, Y, X)
    BY <1>2, <2>1, OnceRestricts
  <2>3. Precedes(p, Y, X)
    BY <1>1, <1>4, <2>2, OnceRestricts
  <2> QED BY <2>3 DEF X, Y
<1> SUFFICES ASSUME NEW n \in 1..Len(p), ~Behind(p[n], Names(kept))
             PROVE  \E j \in 1..Len(p) : j < n /\ p[j].col.name = p[n].pos
  BY DEF Placeable
<1> DEFINE c == p[n]
           x == c.pos
<1>7. c \in U /\ Placing(c) /\ x \notin {Unpositioned, First} /\ x \notin Names(kept)
  BY <1>1, <1>3, <1>5 DEF Behind
<1>8. \E d \in ToSet(s) : Placing(d) /\ d.col.name = x
  <2>1. CASE x \in Names(from)
    <3>1. x \in Moved(s)
      <4> SUFFICES ASSUME x \notin Moved(s) PROVE FALSE
        OBVIOUS
      <4>1. PICK b \in ToSet(from) : b.name = x
        BY <2>1 DEF Names
      <4>2. \E d \in ToSet(kept) : Becomes(b, d, ToSet(s))
        BY <1>1, <4>1, KeptFacts
      <4>3. x \in Names(kept)
        BY <4>1, <4>2 DEF Becomes, Names
      <4> QED BY <1>7, <4>3
    <3>2. PICK d \in ToSet(s) : (d.op = "DropColumn" \/ Placing(d)) /\ d.col.name = x
      <4>1. Moved(s) = {e.col.name : e \in {d \in ToSet(s) : d.op = "DropColumn" \/ Placing(d)}}
        BY <1>1, MovedFacts
      <4> QED BY <3>1, <4>1
    <3>3. x \in Names(to)
      BY <1>7 DEF AboutColumns, Placing
    <3>4. d.op # "DropColumn"
      BY <1>1, <3>2, <3>3 DEF AboutColumns
    <3> QED BY <3>2, <3>4
  <2>2. CASE x \notin Names(from)
    <3>1. x \in Names(to)
      BY <1>7, <2>2 DEF AboutColumns, Placing
    <3>2. PICK b \in ToSet(to) : b.name = x
      BY <3>1 DEF Names
    <3>3. PICK d \in U : d.op = "AddColumn" /\ d.col = b
      BY <2>2, <3>2 DEF AboutColumns
    <3>4. Placing(d)
      BY <3>3 DEF Placing
    <3> QED BY <1>1, <3>2, <3>3, <3>4
  <2> QED BY <2>1, <2>2
<1>9. PICK d \in ToSet(s) : Placing(d) /\ d.col.name = x
  BY <1>8
<1>10. d \in ToSet(p) /\ d \in U
  BY <1>1, <1>3, <1>9
<1>11. PICK j \in 1..Len(p) : p[j] = d
  BY <1>3, <1>10, ElementAt
<1>12. p[n] \in PlacesAfter(U, x) /\ p[j] \in Places(U, x)
  BY <1>7, <1>9, <1>10, <1>11 DEF Places, PlacesAfter
<1>13. j < n
  BY <1>6, <1>7, <1>12 DEF Precedes
<1> QED BY <1>9, <1>11, <1>13

\* The columns that a statement leaves.
LEMMA ColumnsFacts ==
    ASSUME NEW D, NEW from, NEW to, NEW U, U = ToSet(D), IsSeq(D),
           AboutColumns(U, from, to), Ordered(D, U), IsSeq(from), IsSeq(to), to # <<>>,
           NEW s, Starts(s, D), NEW r, r = NewColumns(from, s)
    PROVE  /\ r.ok /\ IsSeq(r.cols) /\ r.cols # <<>>
           /\ \A d \in ToSet(r.cols) :
                 d.name \in Names(from) \cup Names(to) /\ d \in ToSet(from) \cup ToSet(to)
           /\ NamesDiffer(from) => NamesDiffer(r.cols)
           /\ \A c \in ToSet(from) : c.name \notin Moved(s) =>
                 \E d \in ToSet(r.cols) : Becomes(c, d, ToSet(s))
           /\ \A c \in ToSet(s) : Placing(c) => c.col \in ToSet(r.cols)
<1> DEFINE kept == KeptColumns(from, s)
           p == Placings(s)
           R == ToSet(r.cols)
<1>1. /\ IsSeq(s) /\ ToSet(s) \subseteq U
      /\ \A c \in U : Placing(c) \/ c.op = "DropColumn" => c \in ToSet(s)
  BY StartsFacts
<1>2. Moved(s) = {e.col.name : e \in {d \in ToSet(s) : d.op = "DropColumn" \/ Placing(d)}}
  BY <1>1, MovedFacts
<1>3. /\ IsSeq(kept)
      /\ \A d \in ToSet(kept) : \E c \in ToSet(from) :
            c.name \notin Moved(s) /\ Becomes(c, d, ToSet(s))
      /\ \A c \in ToSet(from) : c.name \notin Moved(s) =>
            \E d \in ToSet(kept) : Becomes(c, d, ToSet(s))
      /\ NamesDiffer(from) => NamesDiffer(kept)
  BY <1>1, KeptFacts
<1>4. IsSeq(p) /\ ToSet(p) = {c \in ToSet(s) : Placing(c)} /\ \E I : Restricts(p, s, I)
  BY <1>1, PlacingFacts
<1>5. Placeable(kept, p)
  BY ColumnsPlaceable
<1>6. kept = KeptColumns(from, s) /\ p = Placings(s)
  OBVIOUS
<1> HIDE DEF kept, p
<1>7. /\ r.ok = TRUE /\ IsSeq(r.cols) /\ R = ToSet(kept) \cup {c.col : c \in ToSet(p)}
      /\ Apart(kept, p) => NamesDiffer(r.cols)
  <2>0. IsSeq(kept) /\ IsSeq(p)
    BY <1>3, <1>4
  <2>1. /\ r.ok = TRUE /\ IsSeq(r.cols) /\ KeptAndPlaced(R, kept, p)
        /\ Apart(kept, p) => NamesDiffer(r.cols)
    BY <1>5, <1>6, <2>0, NewColumnsFacts
  <2> HIDE DEF R
  <2> QED BY <2>1 DEF KeptAndPlaced
<1>8. \A c \in ToSet(s) : Placing(c) => c.col \in R
  BY <1>4, <1>7
<1>9. \A c \in ToSet(from) : c.name \notin Moved(s) => \E d \in R : Becomes(c, d, ToSet(s))
  BY <1>3, <1>7
<1> HIDE DEF R
<1>10. ASSUME NEW d \in R
       PROVE  d.name \in Names(from) \cup Names(to) /\ d \in ToSet(from) \cup ToSet(to)
  <2>1. CASE d \in ToSet(kept)
    <3>1. PICK c \in ToSet(from) : Becomes(c, d, ToSet(s))
      BY <1>3, <2>1
    <3>2. \A m \in ToSet(s) : m.op = "ModifyColumn" => m.col \in ToSet(to)
      BY <1>1 DEF AboutColumns
    <3> QED BY <3>1, <3>2 DEF Becomes, Names
  <2>2. CASE d \in {c.col : c \in ToSet(p)}
    <3>1. PICK c \in ToSet(p) : d = c.col
      BY <2>2
    <3>2. c.col \in ToSet(to)
      BY <1>1, <1>4 DEF AboutColumns, Placing
    <3> QED BY <3>1, <3>2 DEF Names
  <2> QED BY <1>7, <2>1, <2>2
<1>11. R # {}
  <2>1. PICK x \in ToSet(to) : TRUE
    BY NonemptyFacts
  <2>2. CASE x.name \notin Names(from)
    <3>1. PICK d \in U : d.op = "AddColumn" /\ d.col = x
      BY <2>2 DEF AboutColumns
    <3>2. Placing(d)
      BY <3>1 DEF Placing
    <3> QED BY <1>1, <1>8, <3>1, <3>2
  <2>3. CASE x.name \in Names(from)
    <3>1. PICK c \in ToSet(from) : c.name = x.name
      BY <2>3 DEF Names
    <3>2. CASE c.name \notin Moved(s)
      BY <1>9, <3>1, <3>2
    <3>3. CASE c.name \in Moved(s)
      <4>1. PICK d \in ToSet(s) : (d.op = "DropColumn" \/ Placing(d)) /\ d.col.name = c.name
        BY <1>2, <3>3
      <4>2. d.op # "DropColumn"
        BY <1>1, <3>1, <4>1 DEF AboutColumns, Names
      <4> QED BY <1>8, <4>1, <4>2
    <3> QED BY <3>2, <3>3
  <2> QED BY <2>2, <2>3
<1>12. r.cols # <<>>
  BY <1>7, <1>11, NonemptyFacts DEF R
<1>13. ASSUME NamesDiffer(from) PROVE NamesDiffer(r.cols)
  <2>1. \A n \in 1..Len(p) : p[n] \in ToSet(p)
    BY <1>4, SeqFacts
  <2>2. ASSUME NEW n \in 1..Len(p) PROVE p[n].col.name \notin Names(kept)
    <3>1. \A a \in ToSet(kept) : a.name \notin Moved(s)
      BY <1>3 DEF Becomes
    <3>2. p[n].col.name \in Moved(s)
      BY <1>2, <1>4, <2>1
    <3> QED BY <3>1, <3>2 DEF Names
  <2>3. ASSUME NEW m \in 1..Len(p), NEW n \in 1..Len(p), p[m].col.name = p[n].col.name
        PROVE  m = n
    <3> DEFINE x == p[m].col.name
    <3>1. p[m] \in Places(U, x) /\ p[n] \in Places(U, x)
      BY <1>1, <1>4, <2>1, <2>3 DEF Places
    <3>2. Once(D, Places(U, x))
      BY DEF Ordered
    <3> HIDE DEF x
    <3>3. PICK I : Restricts(s, D, I)
      BY DEF Starts
    <3>4. Once(s, Places(U, x))
      BY <3>2, <3>3, OnceRestricts
    <3>5. PICK J : Restricts(p, s, J)
      BY <1>4
    <3>6. Once(p, Places(U, x))
      BY <1>1, <3>4, <3>5, OnceRestricts
    <3> QED BY <3>1, <3>6 DEF Once
  <2>4. Apart(kept, p)
    BY <1>3, <1>13, <2>2, <2>3 DEF Apart
  <2> QED BY <1>7, <2>4
<1> QED BY <1>7, <1>8, <1>9, <1>10, <1>12, <1>13 DEF R

LEMMA AimsAntitone ==
    ASSUME NEW to, NEW c, NEW N, NEW M, M \subseteq N, Aims(to, c, N)
    PROVE  Aims(to, c, M)
BY DEF Aims

LEMMA SortedRestricts ==
    ASSUME NEW s, IsSeq(s), NEW t, NEW I, Restricts(t, s, I), NEW to, Sorted(s, to)
    PROVE  Sorted(t, to)
<1>1. PICK e : Lists(e, t, s, I)
  BY DEF Restricts
<1>2. /\ \A k \in 1..Len(t) : e[k] \in 1..Len(s) /\ t[k] = s[e[k]]
      /\ \A j, k \in 1..Len(t) : j < k => e[j] < e[k]
  BY <1>1 DEF Lists
<1> SUFFICES ASSUME NEW i \in 1..Len(t), NEW j \in 1..Len(t), i < j, Placing(t[i]), Placing(t[j])
             PROVE  /\ t[j].op = "ModifyColumn" => t[i].op = "ModifyColumn"
                    /\ t[i].op = "AddColumn" /\ t[j].op = "AddColumn" =>
                          Before(to, t[i].col.name, t[j].col.name)
  BY DEF Sorted
<1>3. /\ e[i] \in 1..Len(s) /\ e[j] \in 1..Len(s) /\ e[i] < e[j]
      /\ t[i] = s[e[i]] /\ t[j] = s[e[j]]
  BY <1>2
<1> QED BY <1>3 DEF Sorted

\* No clause places a column twice.
LEMMA PlacedOnce ==
    ASSUME NEW D, IsSeq(D), NEW U, U = ToSet(D), Ordered(D, U), NEW s, Starts(s, D),
           NEW p, p = Placings(s), NEW m \in 1..Len(p), NEW n \in 1..Len(p),
           p[m].col.name = p[n].col.name
    PROVE  m = n
<1> DEFINE x == p[m].col.name
<1>1. IsSeq(s) /\ ToSet(s) \subseteq U
  BY StartsFacts
<1>2. IsSeq(p) /\ ToSet(p) = {c \in ToSet(s) : Placing(c)} /\ \E J : Restricts(p, s, J)
  BY <1>1, PlacingFacts
<1>3. p[m] \in ToSet(p) /\ p[n] \in ToSet(p)
  BY <1>2, SeqFacts
<1>4. p[m] \in Places(U, x) /\ p[n] \in Places(U, x)
  BY <1>1, <1>2, <1>3 DEF Places
<1>5. Once(D, Places(U, x))
  BY DEF Ordered
<1> HIDE DEF x
<1>6. PICK I : Restricts(s, D, I)
  BY DEF Starts
<1>7. Once(s, Places(U, x))
  BY <1>5, <1>6, OnceRestricts
<1>8. PICK J : Restricts(p, s, J)
  BY <1>2
<1>9. Once(p, Places(U, x))
  BY <1>1, <1>7, <1>8, OnceRestricts
<1> QED BY <1>4, <1>9 DEF Once

LEMMA ColumnsGuided ==
    ASSUME NEW D, NEW from, NEW to, NEW U, U = ToSet(D), IsSeq(D),
           AboutColumns(U, from, to), Ordered(D, U), IsSeq(from), IsSeq(to), NamesDiffer(to),
           Arranged(D, from, to), NEW s, Starts(s, D), NEW kept, kept = KeptColumns(from, s),
           NEW p, p = Placings(s)
    PROVE  Guides(kept, p, to)
<1> DEFINE B == Common(from, to)
<1>1. /\ IsSeq(s) /\ ToSet(s) \subseteq U
      /\ \A c \in U : Placing(c) \/ c.op = "DropColumn" => c \in ToSet(s)
  BY StartsFacts
<1>2. PICK I : Restricts(s, D, I)
  BY DEF Starts
<1>3. IsSeq(p) /\ ToSet(p) = {c \in ToSet(s) : Placing(c)} /\ \E J : Restricts(p, s, J)
  BY <1>1, PlacingFacts
<1>4. PICK J : Restricts(p, s, J)
  BY <1>3
<1>5. Arranges(U, from, to) /\ Sorted(p, to)
  <2>1. Sorted(D, to) /\ Arranges(U, from, to)
    BY DEF Arranged
  <2>2. Sorted(s, to)
    BY <1>2, <2>1, SortedRestricts
  <2>3. Sorted(p, to)
    BY <1>1, <1>4, <2>2, SortedRestricts
  <2> QED BY <2>1, <2>3
<1>6. Len(p) \in Nat /\ \A n \in 1..Len(p) : p[n] \in U /\ Placing(p[n])
  BY <1>1, <1>3, SeqFacts
<1>7. Moved(s) = {e.col.name : e \in {d \in ToSet(s) : d.op = "DropColumn" \/ Placing(d)}}
  BY <1>1, MovedFacts
<1>8. /\ IsSeq(kept)
      /\ \A d \in ToSet(kept) : \E c \in ToSet(from) : c.name \notin Moved(s) /\ Becomes(c, d, ToSet(s))
      /\ InOrder(kept, from)
  BY <1>1, KeptFacts
<1>9. ASSUME NEW x \in Names(kept)
      PROVE  x \in B /\ (\A c \in Moves(U) : c.col.name # x) /\ \A n \in 1..Len(p) : p[n].col.name # x
  <2>1. PICK d \in ToSet(kept) : d.name = x
    BY DEF Names
  <2>2. PICK c \in ToSet(from) : c.name \notin Moved(s) /\ c.name = x
    BY <1>8, <2>1 DEF Becomes
  <2>3. \A e \in U : Placing(e) \/ e.op = "DropColumn" => e.col.name # x
    BY <1>1, <1>7, <2>2
  <2>4. x \in Names(to)
    BY <2>2, <2>3, <1>5 DEF Arranges
  <2> QED BY <1>6, <2>2, <2>3, <2>4 DEF Common, Names, Moves, Placing
<1>10. InOrder(kept, to)
  <2> SUFFICES ASSUME NEW i \in 1..Len(kept), NEW j \in 1..Len(kept), i < j
               PROVE  Before(to, kept[i].name, kept[j].name)
    BY DEF InOrder
  <2>1. Before(from, kept[i].name, kept[j].name)
    BY <1>8 DEF InOrder
  <2>2. kept[i].name \in Names(kept) /\ kept[j].name \in Names(kept)
    BY <1>8, SeqFacts DEF Names
  <2> QED BY <1>5, <1>9, <2>1, <2>2 DEF Arranges
<1>11. ASSUME NEW n \in 1..Len(p), NEW N,
              \A z \in N : z \in Names(kept) \/ \E j \in 1..Len(p) : j < n /\ p[j].col.name = z
       PROVE  Aims(to, p[n], N)
  <2> DEFINE c == p[n]
             x == c.col.name
  <2>1. c \in U /\ Placing(c)
    BY <1>6
  <2>2. \A z \in N : z # x
    <3> SUFFICES ASSUME NEW z \in N, z = x PROVE FALSE
      OBVIOUS
    <3>1. z \notin Names(kept)
      BY <1>9
    <3>2. PICK j \in 1..Len(p) : j < n /\ p[j].col.name = z
      BY <1>11, <3>1
    <3>3. j = n
      BY <3>2, PlacedOnce
    <3> QED BY <1>6, <3>2, <3>3
  <2>3. CASE c.op = "ModifyColumn"
    <3>1. c \in Moves(U)
      BY <2>1, <2>3 DEF Moves, Placing
    <3>2. N \subseteq B \ {x}
      <4> SUFFICES ASSUME NEW z \in N PROVE z \in B
        BY <2>2
      <4>1. CASE z \in Names(kept)
        BY <1>9, <4>1
      <4>2. CASE z \notin Names(kept)
        <5>1. PICK j \in 1..Len(p) : j < n /\ p[j].col.name = z
          BY <1>11, <4>2
        <5>2. p[j].op = "ModifyColumn" /\ p[j] \in U
          BY <1>5, <1>6, <2>3, <5>1 DEF Sorted
        <5>3. p[j].col \in ToSet(to) /\ p[j].old \in ToSet(from) /\ p[j].old.name = p[j].col.name
          BY <5>2 DEF AboutColumns
        <5> QED BY <5>1, <5>3 DEF Common, Names
      <4> QED BY <4>1, <4>2
    <3>3. Aims(to, c, B \ {x})
      BY <1>5, <3>1 DEF Arranges
    <3> HIDE DEF c, x, B
    <3>4. Aims(to, c, N)
      BY <3>2, <3>3, AimsAntitone
    <3> QED BY <3>4 DEF c
  <2>4. CASE c.op = "AddColumn"
    <3> DEFINE M == {z \in Names(to) : z \in Names(from) \/ Before(to, z, x)}
    <3>1. N \subseteq M
      <4> SUFFICES ASSUME NEW z \in N PROVE z \in Names(to) /\ (z \in Names(from) \/ Before(to, z, x))
        OBVIOUS
      <4>1. CASE z \in Names(kept)
        BY <1>9, <4>1 DEF Common
      <4>2. CASE z \notin Names(kept)
        <5>1. PICK j \in 1..Len(p) : j < n /\ p[j].col.name = z
          BY <1>11, <4>2
        <5>2. p[j] \in U /\ Placing(p[j])
          BY <1>6
        <5>3. CASE p[j].op = "ModifyColumn"
          <6>1. p[j].col \in ToSet(to) /\ p[j].old \in ToSet(from) /\ p[j].old.name = p[j].col.name
            BY <5>2, <5>3 DEF AboutColumns
          <6> QED BY <5>1, <6>1 DEF Names
        <5>4. CASE p[j].op = "AddColumn"
          <6>1. p[j].col \in ToSet(to)
            BY <5>2, <5>4 DEF AboutColumns
          <6>2. Before(to, p[j].col.name, x)
            BY <1>5, <1>6, <2>4, <5>1, <5>4 DEF Sorted
          <6> QED BY <5>1, <6>1, <6>2 DEF Names
        <5> QED BY <5>2, <5>3, <5>4 DEF Placing
      <4> QED BY <4>1, <4>2
    <3>2. Aims(to, c, M)
      BY <1>5, <2>1, <2>4 DEF Arranges
    <3> HIDE DEF c, x, M
    <3>3. Aims(to, c, N)
      BY <3>1, <3>2, AimsAntitone
    <3> QED BY <3>3 DEF c
  <2> QED BY <2>1, <2>3, <2>4 DEF Placing
<1> QED BY <1>10, <1>11 DEF Guides

\* d is the desired column e, or differs by a modification that is not in S.
Nearly(d, e, U, S) ==
    d = e \/ \E m \in U \ S : m.op = "ModifyColumn" /\ m.old = d /\ m.col = e

\* The first statement leaves the desired columns at their places, but for
\* modifications that are not part of it.
LEMMA ColumnsPushed ==
    ASSUME NEW D, NEW from, NEW to, NEW U, U = ToSet(D), IsSeq(D),
           AboutColumns(U, from, to), Ordered(D, U), IsSeq(from), IsSeq(to), NamesDiffer(to),
           Arranged(D, from, to), NEW s, Starts(s, D), NEW r, r = NewColumns(from, s)
    PROVE  /\ IsSeq(r.cols) /\ Len(r.cols) = Len(to)
           /\ \A n \in 1..Len(to) : Nearly(r.cols[n], to[n], U, ToSet(s))
<1> DEFINE kept == KeptColumns(from, s)
           p == Placings(s)
           R == ToSet(r.cols)
           S == ToSet(s)
<1>1. IsSeq(s) /\ S \subseteq U /\ \A c \in U : Placing(c) \/ c.op = "DropColumn" => c \in S
  BY StartsFacts
<1>2. Moved(s) = {e.col.name : e \in {d \in S : d.op = "DropColumn" \/ Placing(d)}}
  BY <1>1, MovedFacts
<1>3. /\ IsSeq(kept)
      /\ \A d \in ToSet(kept) : \E c \in ToSet(from) : c.name \notin Moved(s) /\ Becomes(c, d, S)
      /\ \A c \in ToSet(from) : c.name \notin Moved(s) => \E d \in ToSet(kept) : Becomes(c, d, S)
  BY <1>1, KeptFacts
<1>4. IsSeq(p) /\ ToSet(p) = {c \in S : Placing(c)}
  BY <1>1, PlacingFacts
<1>5. Placeable(kept, p)
  BY ColumnsPlaceable
<1>6. Guides(kept, p, to)
  BY ColumnsGuided
<1>7. kept = KeptColumns(from, s) /\ p = Placings(s)
  OBVIOUS
<1>8. Arranges(U, from, to)
  BY DEF Arranged
<1>9. UniqueNames(ToSet(to))
  BY DifferUnique
<1> HIDE DEF kept, p
<1>10. /\ IsSeq(r.cols) /\ R = ToSet(kept) \cup {c.col : c \in ToSet(p)}
       /\ InOrder(r.cols, to)
  <2>0. IsSeq(kept) /\ IsSeq(p)
    BY <1>3, <1>4
  <2>1. IsSeq(r.cols) /\ KeptAndPlaced(R, kept, p) /\ Follows(r.cols, kept, p)
    BY <1>5, <1>7, <2>0, NewColumnsFacts
  <2> HIDE DEF R
  <2> QED BY <1>6, <2>1 DEF KeptAndPlaced, Follows
<1>11. \A c \in ToSet(p) : c \in S /\ c \in U /\ c.col \in ToSet(to)
  BY <1>1, <1>4 DEF AboutColumns, Placing
<1> HIDE DEF R, S
<1>12. ASSUME NEW d \in R, NEW e \in ToSet(to), d.name = e.name PROVE Nearly(d, e, U, S)
  <2>1. CASE d \in {c.col : c \in ToSet(p)}
    BY <1>9, <1>11, <1>12, <2>1 DEF UniqueNames, Nearly
  <2>2. CASE d \in ToSet(kept)
    <3>1. PICK c \in ToSet(from) : c.name \notin Moved(s) /\ Becomes(c, d, S)
      BY <1>3, <2>2
    <3>2. CASE \E m \in S : m.op = "ModifyColumn" /\ m.col = d
      <4>1. d \in ToSet(to)
        BY <1>1, <3>2 DEF AboutColumns
      <4> QED BY <1>9, <1>12, <4>1 DEF UniqueNames, Nearly
    <3>3. CASE d = c /\ \A m \in S : m.op = "ModifyColumn" => m.col.name # c.name
      <4>1. c = e \/ \E m \in U : m.op = "ModifyColumn" /\ m.old = c /\ m.col = e
        BY <1>8, <1>12, <3>3 DEF Arranges
      <4> QED BY <1>12, <3>3, <4>1 DEF Nearly
    <3> QED BY <3>1, <3>2, <3>3 DEF Becomes
  <2> QED BY <1>10, <2>1, <2>2
<1>13. Names(r.cols) = Names(to)
  <2>1. ASSUME NEW d \in R PROVE d.name \in Names(to)
    <3>1. CASE d \in {c.col : c \in ToSet(p)}
      BY <1>11, <3>1 DEF Names
    <3>2. CASE d \in ToSet(kept)
      <4>1. PICK c \in ToSet(from) : c.name \notin Moved(s) /\ c.name = d.name
        BY <1>3, <3>2 DEF Becomes
      <4>2. \A e \in U : e.op = "DropColumn" => e.col.name # c.name
        BY <1>1, <1>2, <4>1
      <4> QED BY <1>8, <4>1, <4>2 DEF Arranges
    <3> QED BY <1>10, <2>1, <3>1, <3>2
  <2>2. ASSUME NEW e \in ToSet(to) PROVE \E d \in R : d.name = e.name
    <3>1. CASE \E c \in S : Placing(c) /\ c.col.name = e.name
      BY <1>4, <1>10, <3>1
    <3>2. CASE e.name \notin Names(from)
      <4>1. PICK c \in U : c.op = "AddColumn" /\ c.col = e
        BY <3>2 DEF AboutColumns
      <4>2. Placing(c)
        BY <4>1 DEF Placing
      <4> QED BY <1>1, <3>1, <4>1, <4>2
    <3>3. CASE e.name \in Names(from) /\ ~\E c \in S : Placing(c) /\ c.col.name = e.name
      <4>1. PICK b \in ToSet(from) : b.name = e.name
        BY <3>3 DEF Names
      <4>2. \A c \in S : c.op = "DropColumn" => c.col.name # e.name
        BY <1>1 DEF AboutColumns, Names
      <4>3. b.name \notin Moved(s)
        BY <1>2, <3>3, <4>1, <4>2
      <4>4. \E d \in ToSet(kept) : d.name = e.name
        BY <1>3, <4>1, <4>3 DEF Becomes
      <4> QED BY <1>10, <4>4
    <3> QED BY <3>1, <3>2, <3>3
  <2> QED BY <2>1, <2>2 DEF Names, R
<1> DEFINE X == Names(to)
<1>14. X = Names(r.cols) /\ X = Names(to)
  BY <1>13
<1> HIDE DEF X
<1>15. Len(r.cols) = Len(to) /\ \A n \in 1..Len(to) : r.cols[n].name = to[n].name
  <2> DEFINE q == r.cols
  <2>1. IsSeq(q) /\ InOrder(q, to) /\ X = Names(q)
    BY <1>10, <1>14
  <2> HIDE DEF q
  <2>2. SameNames(q, to)
    BY <1>14, <2>1, OrderDetermines
  <2> QED BY <2>2 DEF q, SameNames
<1>16. ASSUME NEW n \in 1..Len(to) PROVE Nearly(r.cols[n], to[n], U, S)
  <2>1. r.cols[n] \in R /\ to[n] \in ToSet(to)
    BY <1>10, <1>15, SeqFacts DEF R
  <2> QED BY <1>12, <1>15, <2>1
<1> QED BY <1>10, <1>15, <1>16 DEF S

----------------------------------------------------------------------------
(* What a statement makes of the indexes, checks and foreign keys          *)

LEMMA FiniteElements ==
    ASSUME NEW s, IsSeq(s)
    PROVE  IsFiniteSet(ToSet(s)) /\ IsFiniteSet(Names(s)) /\ Cardinality(Names(s)) \in Nat
<1> DEFINE N == Len(s)
           f == [n \in 1..N |-> s[n]]
           g == [n \in 1..N |-> s[n].name]
<1>1. N \in Nat /\ ToSet(s) = {s[n] : n \in 1..N}
  BY SeqFacts
<1>2. IsFiniteSet(1..N)
  BY <1>1, FS_Interval
<1> HIDE DEF N
<1>3. f \in Surjection(1..N, ToSet(s))
  BY <1>1 DEF Surjection
<1>4. g \in Surjection(1..N, Names(s))
  BY <1>1 DEF Surjection, Names
<1> HIDE DEF f, g
<1>5. IsFiniteSet(ToSet(s)) /\ IsFiniteSet(Names(s))
  BY <1>2, <1>3, <1>4, FS_Surjection
<1> QED BY <1>5, FS_CardinalityType

LEMMA DroppedFacts ==
    ASSUME NEW stmt, IsSeq(stmt)
    PROVE  DroppedIndexes(stmt) = {c.idx.name : c \in With(ToSet(stmt), {"DropIndex"})}
<1>1. ToSet(Ops(stmt, {"DropIndex"})) = With(ToSet(stmt), {"DropIndex"})
  BY OpsFacts
<1> QED BY <1>1 DEF DroppedIndexes

LEMMA ByKindFacts ==
    ASSUME NEW s, IsSeq(s)
    PROVE  IsSeq(ByKind(s)) /\ ToSet(ByKind(s)) \subseteq ToSet(s)
<1> DEFINE I == {n \in 1..Len(s) : s[n].kind = "unique"}
           J == {n \in 1..Len(s) : s[n].kind \notin {"unique", "fulltext"}}
           K == {n \in 1..Len(s) : s[n].kind = "fulltext"}
           a == Pick(s, I)
           b == Pick(s, J)
           c == Pick(s, K)
<1>1. ByKind(s) = (a \o b) \o c
  BY DEF ByKind, Filter
<1>2. I \subseteq 1..Len(s) /\ J \subseteq 1..Len(s) /\ K \subseteq 1..Len(s)
  OBVIOUS
<1> HIDE DEF I, J, K
<1>3. Restricts(a, s, I) /\ Restricts(b, s, J) /\ Restricts(c, s, K)
  BY <1>2, PickRestricts
<1> HIDE DEF a, b, c
<1>4. /\ IsSeq(a) /\ ToSet(a) \subseteq ToSet(s) /\ IsSeq(b) /\ ToSet(b) \subseteq ToSet(s)
      /\ IsSeq(c) /\ ToSet(c) \subseteq ToSet(s)
  BY <1>3, RestrictsFacts
<1> DEFINE d == a \o b
<1>5. IsSeq(d) /\ ToSet(d) \subseteq ToSet(s)
  BY <1>4, ConcatFacts
<1> HIDE DEF d
<1>6. IsSeq(d \o c) /\ ToSet(d \o c) \subseteq ToSet(s)
  BY <1>4, <1>5, ConcatFacts
<1> QED BY <1>1, <1>6 DEF d

\* An index of the altered table is one that the table had, perhaps hidden or
\* shown, or one that the statement adds.
LEMMA NewIndexesFacts ==
    ASSUME NEW idxs, IsSeq(idxs), NEW stmt, IsSeq(stmt), \A i \in ToSet(idxs) : "name" \in DOMAIN i,
           NEW hides, NEW r, r = NewIndexes(idxs, stmt, hides)
    PROVE  /\ IsSeq(r)
           /\ \A i \in ToSet(r) :
                \/ i.name \in Names(idxs) \ DroppedIndexes(stmt) /\ "name" \in DOMAIN i
                \/ \E c \in ToSet(stmt) :
                      /\ c.op = "AddIndex" /\ c.idx.kind # "primary"
                      /\ "name" \in DOMAIN c.idx => i.name = c.idx.name /\ "name" \in DOMAIN i
<1> DEFINE I == {n \in 1..Len(idxs) : idxs[n].name \notin DroppedIndexes(stmt)}
           X == {i \in ToSet(idxs) : i.name \notin DroppedIndexes(stmt)}
           k == Pick(idxs, I)
           alter(x) == {c.hidden : c \in {d \in ToSet(Ops(stmt, {"AlterIndex"})) : d.idx.name = x}}
           o == Ops(stmt, {"AddIndex"})
           J == {n \in 1..Len(o) : o[n].idx.kind # "primary"}
           add == Pick(o, J)
           Val(i) == IF alter(i.name) = {} THEN i ELSE [i EXCEPT !.hidden = TRUE \in alter(i.name)]
           New(i) == IF hides THEN i ELSE [i EXCEPT !.hidden = FALSE]
           u == [n \in DOMAIN k |-> Val(k[n])]
           v == [n \in DOMAIN add |-> New(add[n].idx)]
<1>1. r = ByKind(u \o v)
  BY DEF NewIndexes, Filter
<1>2. I = {n \in 1..Len(idxs) : idxs[n] \in X} /\ ToSet(idxs) \cap X = X
  BY SeqFacts
<1>3. IsSeq(k) /\ ToSet(k) = X
  <2> HIDE DEF X, I
  <2> QED BY <1>2, PickedOnes
<1>4. IsSeq(o) /\ ToSet(o) = With(ToSet(stmt), {"AddIndex"})
  BY OpsFacts
<1>5. IsSeq(add) /\ ToSet(add) \subseteq {c \in ToSet(stmt) : c.op = "AddIndex" /\ c.idx.kind # "primary"}
  <2>1. J \subseteq 1..Len(o) /\ \A n \in J : o[n].idx.kind # "primary"
    OBVIOUS
  <2> HIDE DEF J, o
  <2>2. IsSeq(add) /\ ToSet(add) = {o[n] : n \in J}
    <3>1. IsSeq(o)
      BY <1>4
    <3>2. J \subseteq 1..Len(o)
      BY <2>1
    <3> QED BY <3>1, <3>2, PickFacts
  <2>3. \A n \in J : o[n] \in ToSet(o)
    BY <1>4, <2>1, SeqFacts
  <2> QED BY <1>4, <2>1, <2>2, <2>3 DEF With
<1>6. \A i : "name" \in DOMAIN i => /\ Val(i).name = i.name /\ "name" \in DOMAIN Val(i)
                                   /\ New(i).name = i.name /\ "name" \in DOMAIN New(i)
  OBVIOUS
<1>7. DOMAIN k = 1..Len(k) /\ Len(k) \in Nat /\ \A n \in 1..Len(k) : k[n] \in X
  <2> HIDE DEF k, X
  <2> QED BY <1>3, SeqFacts
<1>8. DOMAIN add = 1..Len(add) /\ Len(add) \in Nat /\ \A n \in 1..Len(add) : add[n] \in ToSet(add)
  <2> HIDE DEF add
  <2> QED BY <1>5, SeqFacts
<1> HIDE DEF Val, New, k, add, I, J, o
<1>9. IsSeq(u) /\ \A i \in ToSet(u) : \E n \in 1..Len(k) : i = Val(k[n])
  <2>1. u = [n \in 1..Len(k) |-> u[n]] /\ \A n \in 1..Len(k) : u[n] = Val(k[n])
    BY <1>7
  <2> HIDE DEF u
  <2>2. IsSeq(u) /\ Len(u) = Len(k)
    BY <1>7, <2>1, FunctionIsSeq
  <2>3. \A i \in ToSet(u) : \E n \in 1..Len(u) : u[n] = i
    BY <2>2, ElementAt
  <2> QED BY <2>1, <2>2, <2>3
<1>10. IsSeq(v) /\ \A i \in ToSet(v) : \E n \in 1..Len(add) : i = New(add[n].idx)
  <2>1. v = [n \in 1..Len(add) |-> v[n]] /\ \A n \in 1..Len(add) : v[n] = New(add[n].idx)
    BY <1>8
  <2> HIDE DEF v
  <2>2. IsSeq(v) /\ Len(v) = Len(add)
    BY <1>8, <2>1, FunctionIsSeq
  <2>3. \A i \in ToSet(v) : \E n \in 1..Len(v) : v[n] = i
    BY <2>2, ElementAt
  <2> QED BY <2>1, <2>2, <2>3
<1> HIDE DEF u, v
<1>11. IsSeq(u \o v) /\ ToSet(u \o v) = ToSet(u) \cup ToSet(v)
  BY <1>9, <1>10, ConcatFacts
<1>12. IsSeq(r) /\ ToSet(r) \subseteq ToSet(u) \cup ToSet(v)
  <2> DEFINE w == u \o v
  <2> HIDE DEF w
  <2>1. IsSeq(ByKind(w)) /\ ToSet(ByKind(w)) \subseteq ToSet(w)
    BY <1>11, ByKindFacts DEF w
  <2> QED BY <1>1, <1>11, <2>1 DEF w
<1>13. ASSUME NEW i \in ToSet(u)
       PROVE  i.name \in Names(idxs) \ DroppedIndexes(stmt) /\ "name" \in DOMAIN i
  <2>1. PICK n \in 1..Len(k) : i = Val(k[n])
    BY <1>9
  <2>2. k[n] \in ToSet(idxs) /\ k[n].name \notin DroppedIndexes(stmt)
    BY <1>7
  <2>3. i.name = k[n].name /\ "name" \in DOMAIN i
    BY <1>6, <2>1, <2>2
  <2> QED BY <2>2, <2>3 DEF Names
<1>14. ASSUME NEW i \in ToSet(v)
       PROVE  \E c \in ToSet(stmt) :
                 /\ c.op = "AddIndex" /\ c.idx.kind # "primary"
                 /\ "name" \in DOMAIN c.idx => i.name = c.idx.name /\ "name" \in DOMAIN i
  BY <1>5, <1>6, <1>8, <1>10
<1> QED BY <1>12, <1>13, <1>14

LEMMA NewChecksFacts ==
    ASSUME NEW checks, IsSeq(checks), NEW stmt, IsSeq(stmt), NEW mariadb
    PROVE  IsSeq(NewChecks(checks, stmt, mariadb))
<1> DEFINE gone == {c.check.name : c \in ToSet(Ops(stmt, {"DropCheck"}))}
           I == {n \in 1..Len(checks) : checks[n].name \notin gone}
           k == Pick(checks, I)
           alter(x) == {c.enforced : c \in {d \in ToSet(Ops(stmt, {"AlterCheck"})) : d.check.name = x}}
           add == Ops(stmt, {"AddCheck"})
           u == [n \in DOMAIN k |-> IF alter(k[n].name) = {} THEN k[n]
                                    ELSE [k[n] EXCEPT !.enforced = TRUE \in alter(k[n].name)]]
           v == [n \in DOMAIN add |-> add[n].check]
           all == u \o v
           w == [n \in 1..Cardinality(Names(all)) |-> ByName(all, Nth(Names(all), n))]
<1>1. NewChecks(checks, stmt, mariadb) = IF mariadb THEN all ELSE w
  BY DEF NewChecks, Filter
<1>2. I \subseteq 1..Len(checks)
  OBVIOUS
<1>3. IsSeq(k)
  <2> HIDE DEF I
  <2> QED BY <1>2, PickFacts
<1>4. IsSeq(add)
  BY OpsFacts
<1>5. DOMAIN k = 1..Len(k) /\ Len(k) \in Nat /\ DOMAIN add = 1..Len(add) /\ Len(add) \in Nat
  <2> HIDE DEF k, add
  <2> QED BY <1>3, <1>4, SeqFacts
<1>6. u = [n \in 1..Len(k) |-> u[n]] /\ v = [n \in 1..Len(add) |-> v[n]]
  <2> HIDE DEF k, add, alter
  <2> QED BY <1>5
<1> HIDE DEF u, v, k, add
<1>7. IsSeq(u) /\ IsSeq(v)
  BY <1>5, <1>6, FunctionIsSeq
<1>8. IsSeq(all)
  BY <1>7, ConcatFacts
<1> HIDE DEF all
<1>9. IsSeq(w)
  <2>1. Cardinality(Names(all)) \in Nat
    BY <1>8, FiniteElements
  <2>2. w = [n \in 1..Cardinality(Names(all)) |-> w[n]]
    OBVIOUS
  <2> HIDE DEF w
  <2> QED BY <2>1, <2>2, FunctionIsSeq
<1> QED BY <1>1, <1>8, <1>9

LEMMA NewForeignKeysFacts ==
    ASSUME NEW fks, IsFiniteSet(fks), NEW stmt, IsSeq(stmt), NEW r, r = NewForeignKeys(fks, stmt)
    PROVE  /\ IsFiniteSet(r)
           /\ \A f \in r : \/ f \in fks /\ \A c \in ToSet(stmt) :
                                            c.op = "DropForeignKey" => c.fk.name # f.name
                           \/ \E c \in ToSet(stmt) : c.op = "AddForeignKey" /\ f = c.fk
<1> DEFINE C == ToSet(Ops(stmt, {"AddForeignKey"}))
           A == {f \in fks : \A c \in ToSet(Ops(stmt, {"DropForeignKey"})) : c.fk.name # f.name}
           B == {c.fk : c \in C}
           g == [c \in C |-> c.fk]
<1>1. r = A \cup B
  BY DEF NewForeignKeys
<1>2. /\ C = With(ToSet(stmt), {"AddForeignKey"}) /\ IsSeq(Ops(stmt, {"AddForeignKey"}))
      /\ ToSet(Ops(stmt, {"DropForeignKey"})) = With(ToSet(stmt), {"DropForeignKey"})
  BY OpsFacts
<1>3. IsFiniteSet(C)
  BY <1>2, FiniteElements
<1>4. g \in Surjection(C, B)
  BY DEF Surjection
<1>5. A \in SUBSET fks
  OBVIOUS
<1>6. \A f \in A : f \in fks /\ \A c \in ToSet(stmt) : c.op = "DropForeignKey" => c.fk.name # f.name
  BY <1>2 DEF With
<1>7. \A f \in B : \E c \in ToSet(stmt) : c.op = "AddForeignKey" /\ f = c.fk
  BY <1>2 DEF With
<1> HIDE DEF A, B, C, g
<1>8. IsFiniteSet(A) /\ IsFiniteSet(B)
  BY <1>3, <1>4, <1>5, FS_Surjection, FS_Subset
<1>9. IsFiniteSet(A \cup B)
  BY <1>8, FS_Union
<1> QED BY <1>1, <1>6, <1>7, <1>9

----------------------------------------------------------------------------
(* What a statement makes of the attributes and the partitioning           *)

LEMMA NewAttrsFacts ==
    ASSUME NEW attrs, NEW stmt, IsSeq(stmt), NEW r, r = NewAttrs(attrs, stmt)
    PROVE  /\ DOMAIN r = DOMAIN attrs
           /\ \A a \in DOMAIN attrs :
                 r[a] = attrs[a] \/ \E c \in ToSet(stmt) : /\ c.op = "ChangeAttr" /\ c.attr = a
                                                           /\ r[a] = c.new
<1> DEFINE ignored(c) == \/ /\ c.attr = "charset"
                            /\ Normalized(c.new.collation) = Normalized(attrs.charset.collation)
                         \/ c.attr = "tablespace" /\ c.new = ""
           I(a) == {n \in 1..Len(stmt) : /\ stmt[n].op = "ChangeAttr" /\ stmt[n].attr = a
                                         /\ ~ignored(stmt[n])}
           set(a) == IF I(a) # {} THEN Min(I(a)) ELSE 0
<1>1. r = [a \in DOMAIN attrs |-> IF set(a) = 0 THEN attrs[a] ELSE stmt[set(a)].new]
  BY DEF NewAttrs, SelectInSeq
<1>2. \A a : I(a) \subseteq 1..Len(stmt) /\ \A n \in I(a) : stmt[n].op = "ChangeAttr" /\ stmt[n].attr = a
  OBVIOUS
<1> HIDE DEF I
<1>3. ASSUME NEW a, set(a) # 0
      PROVE  \E c \in ToSet(stmt) : c.op = "ChangeAttr" /\ c.attr = a /\ stmt[set(a)].new = c.new
  <2> DEFINE J == I(a)
             k == set(a)
  <2>1. J \subseteq 1..Len(stmt) /\ k = IF J # {} THEN Min(J) ELSE 0
    BY <1>2
  <2> HIDE DEF J, k
  <2>2. IF J = {} THEN k = 0 ELSE k \in J /\ k # 0
    BY <2>1, SelectFacts
  <2>3. k \in J
    BY <1>3, <2>2 DEF k
  <2>4. stmt[k].op = "ChangeAttr" /\ stmt[k].attr = a /\ stmt[k] \in ToSet(stmt)
    BY <1>2, <2>1, <2>3, SeqFacts DEF J
  <2> QED BY <2>4 DEF k
<1> HIDE DEF set
<1>4. DOMAIN r = DOMAIN attrs
  BY <1>1
<1>5. \A a \in DOMAIN attrs : r[a] = IF set(a) = 0 THEN attrs[a] ELSE stmt[set(a)].new
  BY <1>1
<1> QED BY <1>3, <1>4, <1>5

Partitions(new, old, C) ==
    \/ new = old
    \/ \E c \in C : c.op = "PartitionBy"
    \/ new.method = "" /\ \E c \in C : c.op = "RemovePartitioning"

LEMMA NewPartitioningFacts ==
    ASSUME NEW part, NEW stmt, IsSeq(stmt), NEW r, r = NewPartitioning(part, stmt)
    PROVE  Partitions(r, part, ToSet(stmt))
<1> DEFINE b == Ops(stmt, {"PartitionBy"})
           d == Ops(stmt, {"RemovePartitioning"})
           none == [method |-> "", expr |-> "", list |-> ""]
<1>1. r = IF b # <<>> THEN b[1].part ELSE IF d # <<>> THEN none ELSE part
  BY DEF NewPartitioning
<1>2. /\ IsSeq(b) /\ ToSet(b) = With(ToSet(stmt), {"PartitionBy"})
      /\ IsSeq(d) /\ ToSet(d) = With(ToSet(stmt), {"RemovePartitioning"})
  BY OpsFacts
<1>3. none.method = ""
  OBVIOUS
<1> HIDE DEF b, d, none
<1>4. b # <<>> => \E c \in ToSet(stmt) : c.op = "PartitionBy"
  BY <1>2, NonemptyFacts DEF With
<1>5. d # <<>> => \E c \in ToSet(stmt) : c.op = "RemovePartitioning"
  BY <1>2, NonemptyFacts DEF With
<1> QED BY <1>1, <1>3, <1>4, <1>5 DEF Partitions

LEMMA OneFulltext ==
    ASSUME NEW D, IsSeq(D), NEW s, NEW I, Restricts(s, D, I),
           \A i, j \in I : AddsFulltext(D[i]) /\ AddsFulltext(D[j]) => i = j
    PROVE  Len(Filter(s, AddsFulltext)) < 2
<1> DEFINE K == {k \in 1..Len(s) : AddsFulltext(s[k])}
           C == Cardinality(K)
<1>1. PICK e : Lists(e, s, D, I)
  BY DEF Restricts
<1>2. IsSeq(s) /\ Len(s) \in Nat /\ Len(D) \in Nat
  BY SeqFacts DEF Restricts
<1>3. Filter(s, AddsFulltext) = Pick(s, K)
  BY DEF Filter
<1>4. K \subseteq 1..Len(s) /\ \A k \in K : AddsFulltext(s[k])
  OBVIOUS
<1> HIDE DEF K
<1>5. Len(Pick(s, K)) = C /\ C \in Nat
  BY <1>2, <1>4, PickFacts
<1>6. \A k \in 1..C : Nth(K, k) \in K
  BY <1>2, <1>4, PickFacts
<1>7. \A j, k \in 1..C : j < k => Nth(K, j) < Nth(K, k)
  BY <1>2, <1>4, PickFacts
<1>8. \A j, k \in K : j < k => FALSE
  <2> SUFFICES ASSUME NEW j \in K, NEW k \in K, j < k
               PROVE  FALSE
    OBVIOUS
  <2>1. j \in 1..Len(s) /\ k \in 1..Len(s) /\ AddsFulltext(s[j]) /\ AddsFulltext(s[k])
    BY <1>4
  <2>2. e[j] \in I /\ e[k] \in I /\ s[j] = D[e[j]] /\ s[k] = D[e[k]] /\ e[j] < e[k]
    BY <1>1, <2>1 DEF Lists
  <2>3. e[j] = e[k] /\ e[j] \in Nat
    BY <1>1, <2>1, <2>2 DEF Lists
  <2> QED BY <2>2, <2>3
<1> HIDE DEF C
<1>9. ~(2 <= C)
  <2> SUFFICES ASSUME 2 <= C PROVE FALSE
    OBVIOUS
  <2>1. 1 \in 1..C /\ 2 \in 1..C /\ 1 < 2
    BY <1>5
  <2> QED BY <1>6, <1>7, <1>8, <2>1
<1> QED BY <1>3, <1>5, <1>9

----------------------------------------------------------------------------
(* The statements of a push                                                *)

LEMMA EmittedIndexes ==
    ASSUME NEW c, NEW d, NEW f, d.op = "DropIndex", c.op \in {"AddIndex", "AlterIndex"}, Emitted(c, f)
    PROVE  /\ c.op = "AddIndex" /\ d.reorderOnly = c.reorderOnly => Emitted(d, f)
           /\ c.op = "AlterIndex" /\ d.reorderOnly /\ c.alsoReordering => ~Emitted(d, f)
<1>1. Emitted(d, f) <=> EmitsIndex(d, f)
  BY DEF Emitted
<1>2. EmitsIndex(c, f)
  BY DEF Emitted
<1> QED BY <1>1, <1>2 DEF EmitsIndex

LEMMA EmittedOthers ==
    ASSUME NEW c, NEW d, NEW f, Emitted(c, f)
    PROVE  /\ c.op = "AddForeignKey" /\ d.op = "DropForeignKey" /\ d.cosmeticOnly = c.cosmeticOnly
                => Emitted(d, f)
           /\ c.op = "AddCheck" /\ d.op = "DropCheck" /\ d.reorderOnly = c.reorderOnly => Emitted(d, f)
BY DEF Emitted

LEMMA EmittedColumns ==
    ASSUME NEW c, NEW f, Placing(c) \/ c.op = "DropColumn"
    PROVE  Emitted(c, f) /\ c.op # "AddForeignKey" /\ ~AddsFulltext(c)
BY DEF Placing, Emitted, AddsFulltext

\* What is known of the statements P of a push of `from` towards `to`.
PlanOf(I, P, D, from, to, options) ==
    /\ DiffOf(D, from, to) /\ Arranged(D, from.cols, to.cols)
    /\ Spreads(I, P, D, Written(D, to, options))
    /\ ~options.allowUnsafe => \A i \in Written(D, to, options) : ~Unsafe(D[i])

LEMMA StatementFacts ==
    ASSUME NEW I, NEW P, NEW D, NEW from, NEW to, NEW options, PlanOf(I, P, D, from, to, options),
           NEW m \in 1..Len(P)
    PROVE  /\ IsSeq(P[m]) /\ Restricts(P[m], D, I[m]) /\ ToSet(P[m]) \subseteq ToSet(D)
           /\ \A c \in ToSet(P[m]) : \E i \in I[m] : i \in 1..Len(D) /\ D[i] = c
           /\ \A c \in ToSet(P[m]) : /\ Emitted(c, ForceIndexOrder(to, options))
                                     /\ ~options.allowUnsafe => ~Unsafe(c)
                                     /\ m # 1 => AddsFulltext(c) \/ c.op = "AddForeignKey"
<1> DEFINE W == Written(D, to, options)
           s == P[m]
           J == I[m]
<1>1. IsSeq(D) /\ Spreads(I, P, D, W)
  BY DEF PlanOf, DiffOf
<1>2. J \subseteq W /\ Restricts(s, D, J)
  BY <1>1 DEF Spreads
<1>3. \A i \in J : AddsFulltext(D[i]) \/ D[i].op = "AddForeignKey" \/ m = 1
  <2> SUFFICES ASSUME m # 1 PROVE \A i \in J : AddsFulltext(D[i]) \/ D[i].op = "AddForeignKey"
    OBVIOUS
  <2>1. m \in 2..Len(P)
    OBVIOUS
  <2> QED BY <1>1, <2>1 DEF Spreads
<1> HIDE DEF s, J
<1>4. IsSeq(s) /\ ToSet(s) \subseteq ToSet(D) /\ ToSet(s) = {D[i] : i \in J}
  BY <1>1, <1>2, RestrictsFacts
<1>5. \A i \in J : /\ i \in 1..Len(D) /\ Emitted(D[i], ForceIndexOrder(to, options))
                   /\ ~options.allowUnsafe => ~Unsafe(D[i])
  BY <1>2 DEF Written, PlanOf
<1> HIDE DEF W
<1>6. ASSUME NEW c \in ToSet(s)
      PROVE  /\ \E i \in J : i \in 1..Len(D) /\ D[i] = c
             /\ Emitted(c, ForceIndexOrder(to, options))
             /\ ~options.allowUnsafe => ~Unsafe(c)
             /\ m # 1 => AddsFulltext(c) \/ c.op = "AddForeignKey"
  <2>1. PICK i \in J : D[i] = c
    BY <1>4
  <2> QED BY <1>3, <1>5, <2>1
<1> QED BY <1>2, <1>4, <1>6 DEF s, J

\* All clauses that are written come in the first statement, but for additions
\* of fulltext indexes and foreign keys.
LEMMA FirstFacts ==
    ASSUME NEW I, NEW P, NEW D, NEW from, NEW to, NEW options, PlanOf(I, P, D, from, to, options)
    PROVE  /\ \A c \in ToSet(D) :
                 Emitted(c, ForceIndexOrder(to, options)) /\ c.op # "AddForeignKey" /\ ~AddsFulltext(c) =>
                 1 \in 1..Len(P) /\ c \in ToSet(P[1])
           /\ 1 \in 1..Len(P) => Starts(P[1], D)
<1> DEFINE W == Written(D, to, options)
           F == ForceIndexOrder(to, options)
<1>1. IsSeq(D) /\ IsSeq(P) /\ Spreads(I, P, D, W)
  BY DEF PlanOf, DiffOf, Spreads
<1>2. ASSUME NEW c \in ToSet(D), Emitted(c, F), c.op # "AddForeignKey", ~AddsFulltext(c)
      PROVE  1 \in 1..Len(P) /\ c \in ToSet(P[1])
  <2>1. PICK i \in 1..Len(D) : D[i] = c
    BY <1>1, ElementAt
  <2>2. i \in W
    BY <1>2, <2>1 DEF Written
  <2>3. P # <<>> /\ i \in I[1]
    BY <1>1, <1>2, <2>1, <2>2 DEF Spreads
  <2>4. 1 \in 1..Len(P)
    BY <1>1, <2>3, NonemptyFacts, SeqFacts
  <2> DEFINE s == P[1]
             J == I[1]
  <2>5. Restricts(s, D, J)
    BY <1>1, <2>4 DEF Spreads
  <2>6. i \in J
    BY <2>3
  <2> HIDE DEF s, J
  <2>7. ToSet(s) = {D[j] : j \in J}
    BY <1>1, <2>5, RestrictsFacts
  <2>8. c \in ToSet(s)
    BY <2>1, <2>6, <2>7
  <2> QED BY <2>4, <2>8 DEF s
<1>3. ASSUME 1 \in 1..Len(P)
      PROVE  Starts(P[1], D)
  <2> DEFINE s == P[1]
             J == I[1]
  <2>1. Restricts(s, D, J)
    BY <1>1, <1>3 DEF Spreads
  <2>2. \A c \in ToSet(D) : Placing(c) \/ c.op = "DropColumn" => c \in ToSet(s)
    BY <1>2, EmittedColumns
  <2> HIDE DEF s, J
  <2>3. Starts(s, D)
    BY <2>1, <2>2 DEF Starts
  <2> QED BY <2>3 DEF s
<1> QED BY <1>2, <1>3

----------------------------------------------------------------------------
(* Legality                                                                *)

\* A table as it is on the server.
Stored(t) ==
    /\ Wf(t)
    /\ DOMAIN t = {"cols", "pk", "idxs", "fks", "checks", "attrs", "part", "odd"}
    /\ t.cols # <<>> /\ NamesDiffer(t.cols)
    /\ \A c \in ToSet(t.cols) : IsType(c.type)
    /\ \A i \in ToSet(t.idxs) : "name" \in DOMAIN i
    /\ IsFiniteSet(t.fks)
    /\ {"engine", "autoinc"} \subseteq DOMAIN t.attrs /\ t.attrs.autoinc \in Nat

\* The parts of Legal.
LegalColumns(t, S, new) ==
    /\ \A c \in With(S, {"DropColumn", "ModifyColumn"}) : c.col.name \in Names(t.cols)
    /\ \A c \in With(S, {"AddColumn"}) : c.col.name \notin Names(t.cols)
    /\ new.ok /\ new.cols # <<>>

IndexNames(t) == Names(t.idxs) \cup (IF t.pk = "" THEN {} ELSE {"PRIMARY"})

LegalIndexes(t, S, gone) ==
    /\ gone \subseteq IndexNames(t)
    /\ {c.idx.name : c \in With(S, {"AddIndex"})} \cap (IndexNames(t) \ gone) = {}
    /\ \A c \in With(S, {"AlterIndex"}) : c.idx.name \in IndexNames(t) \ gone

LegalForeignKeys(t, S) ==
    /\ \A c \in With(S, {"DropForeignKey"}) : c.fk.name \in FkNames(t.fks)
    /\ \A c \in With(S, {"AddForeignKey"}) : c.fk.name \notin FkNames(t.fks)

LegalChecks(t, S) ==
    /\ \A c \in With(S, {"DropCheck", "AlterCheck"}) : c.check.name \in Names(t.checks)
    /\ \A c \in With(S, {"AddCheck"}) :
          \/ c.check.name \notin Names(t.checks)
          \/ \E d \in With(S, {"DropCheck"}) : d.check.name = c.check.name

LEMMA LegalParts ==
    ASSUME NEW t, NEW stmt, IsSeq(stmt), NEW S, S = ToSet(stmt),
           LegalColumns(t, S, NewColumns(t.cols, stmt)), LegalIndexes(t, S, DroppedIndexes(stmt)),
           Len(Filter(stmt, AddsFulltext)) < 2, LegalForeignKeys(t, S), LegalChecks(t, S)
    PROVE  Legal(t, stmt)
<1>1. \A ops : ToSet(Ops(stmt, ops)) = With(S, ops)
  BY OpsFacts
<1>2. /\ \A c \in ToSet(Ops(stmt, {"DropColumn", "ModifyColumn"})) : c.col.name \in Names(t.cols)
      /\ \A c \in ToSet(Ops(stmt, {"AddColumn"})) : c.col.name \notin Names(t.cols)
      /\ NewColumns(t.cols, stmt).ok /\ NewColumns(t.cols, stmt).cols # <<>>
  BY <1>1 DEF LegalColumns
<1>3. /\ DroppedIndexes(stmt) \subseteq IndexNames(t)
      /\ {c.idx.name : c \in ToSet(Ops(stmt, {"AddIndex"}))} \cap (IndexNames(t) \ DroppedIndexes(stmt)) = {}
      /\ \A c \in ToSet(Ops(stmt, {"AlterIndex"})) : c.idx.name \in IndexNames(t) \ DroppedIndexes(stmt)
  BY <1>1 DEF LegalIndexes
<1>4. /\ \A c \in ToSet(Ops(stmt, {"DropForeignKey"})) : c.fk.name \in FkNames(t.fks)
      /\ \A c \in ToSet(Ops(stmt, {"AddForeignKey"})) : c.fk.name \notin FkNames(t.fks)
  BY <1>1 DEF LegalForeignKeys
<1>5. /\ \A c \in ToSet(Ops(stmt, {"DropCheck", "AlterCheck"})) : c.check.name \in Names(t.checks)
      /\ \A c \in ToSet(Ops(stmt, {"AddCheck"})) :
            \/ c.check.name \notin Names(t.checks)
            \/ \E d \in ToSet(Ops(stmt, {"DropCheck"})) : d.check.name = c.check.name
  BY <1>1 DEF LegalChecks
<1> QED BY <1>2, <1>3, <1>4, <1>5, Zenon DEF Legal, IndexNames

LEMMA IndexNamesFacts ==
    ASSUME NEW t
    PROVE  \A x : x \in IndexNames(t) <=> \E i \in AllIndexes(t) : i.name = x
<1>1. PrimaryKey(t.pk).name = "PRIMARY"
  BY DEF PrimaryKey
<1>2. Names(t.idxs) = {i.name : i \in ToSet(t.idxs)}
  BY DEF Names
<1>3. CASE t.pk = ""
  <2>1. IndexNames(t) = Names(t.idxs) /\ AllIndexes(t) = ToSet(t.idxs)
    BY <1>3 DEF IndexNames, AllIndexes
  <2> QED BY <1>2, <2>1
<1>4. CASE t.pk # ""
  <2> DEFINE key == PrimaryKey(t.pk)
  <2>1. /\ IndexNames(t) = Names(t.idxs) \cup {"PRIMARY"}
        /\ AllIndexes(t) = ToSet(t.idxs) \cup {key}
    BY <1>4 DEF IndexNames, AllIndexes
  <2>2. key.name = "PRIMARY"
    BY <1>1
  <2> HIDE DEF key
  <2> QED BY <1>2, <2>1, <2>2
<1> QED BY <1>3, <1>4

LEMMA LegalFirst ==
    ASSUME NEW I, NEW P, NEW D, NEW from, NEW to, NEW options, PlanOf(I, P, D, from, to, options),
           Stored(from), Desired(to), NEW s, s = P[1], 1 \in 1..Len(P)
    PROVE  Legal(from, s)
<1> DEFINE F == ForceIndexOrder(to, options)
           S == ToSet(s)
           U == ToSet(D)
           J == I[1]
<1>1. /\ IsSeq(s) /\ Restricts(s, D, J) /\ S \subseteq U
      /\ \A c \in S : \E i \in J : i \in 1..Len(D) /\ D[i] = c
      /\ \A c \in S : Emitted(c, F)
  BY StatementFacts
<1>2. /\ \A c \in U : Emitted(c, F) /\ c.op # "AddForeignKey" /\ ~AddsFulltext(c) => c \in S
      /\ Starts(s, D)
  BY FirstFacts
<1>3. /\ IsSeq(D) /\ AboutColumns(U, from.cols, to.cols) /\ Ordered(D, U)
      /\ AboutIndexes(U, AllIndexes(from), AllIndexes(to))
      /\ AboutForeignKeys(U, from.fks) /\ AboutChecks(U, ToSet(from.checks))
  BY DEF PlanOf, DiffOf
<1>4. LegalColumns(from, S, NewColumns(from.cols, s))
  <2> DEFINE a == from.cols
             b == to.cols
             r == NewColumns(a, s)
  <2>1. IsSeq(a) /\ IsSeq(b) /\ b # <<>> /\ AboutColumns(U, a, b)
    BY <1>3 DEF Stored, Desired, Wf
  <2>2. \A c \in With(S, {"DropColumn", "ModifyColumn"}) : c.col.name \in Names(a)
    BY <1>1, <2>1 DEF With, AboutColumns, Names
  <2>3. \A c \in With(S, {"AddColumn"}) : c.col.name \notin Names(a)
    BY <1>1, <2>1 DEF With, AboutColumns
  <2>4. U = ToSet(D) /\ r = NewColumns(a, s)
    OBVIOUS
  <2> HIDE DEF a, b, r, U, S
  <2>5. r.ok /\ r.cols # <<>>
    BY <1>2, <1>3, <2>1, <2>4, ColumnsFacts
  <2> QED BY <2>2, <2>3, <2>5 DEF LegalColumns, a, r
<1>5. LegalIndexes(from, S, DroppedIndexes(s))
  <2> DEFINE gone == {c.idx.name : c \in With(S, {"DropIndex"})}
  <2>1. DroppedIndexes(s) = gone
    BY <1>1, DroppedFacts
  <2>2. \A x : x \in IndexNames(from) <=> \E i \in AllIndexes(from) : i.name = x
    BY IndexNamesFacts
  <2>3. gone \subseteq IndexNames(from)
    BY <1>1, <1>3, <2>2 DEF With, AboutIndexes
  <2>4. ASSUME NEW c \in With(S, {"AddIndex"}), c.idx.name \in IndexNames(from)
        PROVE  c.idx.name \in gone
    <3>1. c \in S /\ c \in U /\ c.op = "AddIndex"
      BY <1>1 DEF With
    <3>2. PICK d \in U : d.op = "DropIndex" /\ d.idx.name = c.idx.name /\ d.reorderOnly = c.reorderOnly
      BY <1>3, <2>2, <2>4, <3>1 DEF AboutIndexes
    <3>3. Emitted(d, F)
      <4>1. Emitted(c, F) /\ c.op \in {"AddIndex", "AlterIndex"}
        BY <1>1, <3>1
      <4> QED BY <3>1, <3>2, <4>1, EmittedIndexes
    <3>4. d \in S
      BY <1>2, <3>2, <3>3 DEF AddsFulltext
    <3>5. d \in With(S, {"DropIndex"})
      BY <3>2, <3>4 DEF With
    <3> QED BY <3>2, <3>5
  <2>5. ASSUME NEW c \in With(S, {"AlterIndex"})
        PROVE  c.idx.name \in IndexNames(from) /\ c.idx.name \notin gone
    <3>1. c \in S /\ c \in U /\ c.op = "AlterIndex"
      BY <1>1 DEF With
    <3>2. c.idx.name \in IndexNames(from)
      BY <1>3, <2>2, <3>1 DEF AboutIndexes
    <3>3. ASSUME NEW d \in S, d.op = "DropIndex", d.idx.name = c.idx.name
          PROVE  FALSE
      <4>1. d.reorderOnly /\ c.alsoReordering
        BY <1>1, <1>3, <3>1, <3>3 DEF AboutIndexes
      <4>2. Emitted(c, F) /\ c.op \in {"AddIndex", "AlterIndex"} /\ Emitted(d, F)
        BY <1>1, <3>1
      <4> QED BY <3>1, <3>3, <4>1, <4>2, EmittedIndexes
    <3> QED BY <3>2, <3>3 DEF With
  <2> HIDE DEF gone
  <2> QED BY <2>1, <2>3, <2>4, <2>5 DEF LegalIndexes
<1>6. Len(Filter(s, AddsFulltext)) < 2
  <2>1. \A i, j \in J : AddsFulltext(D[i]) /\ AddsFulltext(D[j]) => i = j
    BY DEF PlanOf, Spreads
  <2> HIDE DEF J
  <2> QED BY <1>1, <1>3, <2>1, OneFulltext
<1>7. LegalForeignKeys(from, S)
  <2>1. ASSUME NEW c \in S, c.op = "DropForeignKey"
        PROVE  c.fk.name \in FkNames(from.fks)
    BY <1>1, <1>3, <2>1 DEF AboutForeignKeys, FkNames
  <2>2. ASSUME NEW c \in S, c.op = "AddForeignKey", c.fk.name \in FkNames(from.fks)
        PROVE  FALSE
    <3>1. PICK d \in U : d.op = "DropForeignKey" /\ d.cosmeticOnly = c.cosmeticOnly
      BY <1>1, <1>3, <2>2 DEF AboutForeignKeys
    <3>2. Emitted(d, F)
      BY <1>1, <2>2, <3>1, EmittedOthers
    <3>3. d \in S
      BY <1>2, <3>1, <3>2 DEF AddsFulltext
    <3>4. PICK i \in J : D[i] = c
      BY <1>1
    <3>5. PICK j \in J : D[j] = d
      BY <1>1, <3>3
    <3>6. D[i].op = "AddForeignKey" => D[j].op = "AddForeignKey"
      BY DEF PlanOf, Spreads
    <3> QED BY <2>2, <3>1, <3>4, <3>5, <3>6
  <2> QED BY <2>1, <2>2 DEF LegalForeignKeys, With
<1>8. LegalChecks(from, S)
  <2>1. \A c \in With(S, {"DropCheck", "AlterCheck"}) : c.check.name \in Names(from.checks)
    BY <1>1, <1>3 DEF With, AboutChecks, Names
  <2>2. ASSUME NEW c \in With(S, {"AddCheck"}), c.check.name \in Names(from.checks)
        PROVE  \E d \in With(S, {"DropCheck"}) : d.check.name = c.check.name
    <3>1. c \in S /\ c \in U /\ c.op = "AddCheck"
      BY <1>1 DEF With
    <3>2. PICK d \in U : d.op = "DropCheck" /\ d.check.name = c.check.name /\ d.reorderOnly = c.reorderOnly
      BY <1>3, <2>2, <3>1 DEF AboutChecks, Names
    <3>3. Emitted(d, F)
      BY <1>1, <3>1, <3>2, EmittedOthers
    <3>4. d \in S
      BY <1>2, <3>2, <3>3 DEF AddsFulltext
    <3> QED BY <3>2, <3>4 DEF With
  <2> QED BY <2>1, <2>2 DEF LegalChecks
<1> QED BY <1>1, <1>4, <1>5, <1>6, <1>7, <1>8, LegalParts

-----------------------------------------------------------------------------
(* The statements after the first one only add fulltext indexes or foreign keys. *)

LEMMA PlainColumns ==
    ASSUME NEW cols, IsSeq(cols), NEW stmt, IsSeq(stmt),
           \A c \in ToSet(stmt) : c.op \notin ColumnOps,
           NEW r, r = NewColumns(cols, stmt)
    PROVE  /\ r.ok /\ IsSeq(r.cols) /\ ToSet(r.cols) = ToSet(cols)
           /\ NamesDiffer(cols) => r.cols = cols /\ NamesDiffer(r.cols)
<1> DEFINE S == ToSet(stmt)
           kept == KeptColumns(cols, stmt)
           p == Placings(stmt)
<1>1. \A c \in S : ~Placing(c) /\ c.op # "DropColumn" /\ c.op # "ModifyColumn"
  BY DEF Placing, ColumnOps
<1>2. IsSeq(p) /\ ToSet(p) = {c \in S : Placing(c)}
  BY PlacingFacts
<1>3. ToSet(p) = {} /\ p = <<>> /\ Len(p) = 0
  BY <1>1, <1>2, NonemptyFacts
<1>4. Moved(stmt) = {c.col.name : c \in {d \in S : d.op = "DropColumn" \/ Placing(d)}}
  BY MovedFacts
<1>5. Moved(stmt) = {}
  BY <1>1, <1>4
<1>6. /\ IsSeq(kept)
      /\ \A d \in ToSet(kept) : \E c \in ToSet(cols) : c.name \notin Moved(stmt) /\ Becomes(c, d, S)
      /\ \A c \in ToSet(cols) : c.name \notin Moved(stmt) => \E d \in ToSet(kept) : Becomes(c, d, S)
      /\ NamesDiffer(cols) => NamesDiffer(kept)
      /\ InOrder(kept, cols)
  BY KeptFacts
<1>7. \A c, d : Becomes(c, d, S) => c = d
  BY <1>1 DEF Becomes
<1>a. kept = KeptColumns(cols, stmt) /\ p = Placings(stmt)
  OBVIOUS
<1> HIDE DEF kept, p, S
<1>8. ToSet(kept) = ToSet(cols)
  <2>1. ASSUME NEW d \in ToSet(kept) PROVE d \in ToSet(cols)
    BY <1>6, <1>7
  <2>2. ASSUME NEW c \in ToSet(cols) PROVE c \in ToSet(kept)
    BY <1>5, <1>6, <1>7
  <2> QED BY <2>1, <2>2
<1>9. Placeable(kept, p)
  BY <1>3 DEF Placeable
<1>10. /\ r.ok = TRUE /\ IsSeq(r.cols) /\ KeptAndPlaced(ToSet(r.cols), kept, p)
       /\ Apart(kept, p) => NamesDiffer(r.cols)
       /\ Unplaced(r.cols, kept, p)
  BY <1>2, <1>6, <1>9, <1>a, NewColumnsFacts
<1>11. NamesDiffer(kept) => Apart(kept, p)
  BY <1>3 DEF Apart
<1>12. NamesDiffer(cols) => r.cols = cols
  <2>1. r.cols = kept
    BY <1>3, <1>10 DEF Unplaced
  <2> QED BY <1>6, <1>8, <2>1, SameColumns
<1> QED BY <1>3, <1>6, <1>8, <1>10, <1>11, <1>12 DEF KeptAndPlaced

\* What stmt adds is not yet there.
Room(t, stmt) ==
    \A c \in ToSet(stmt) : /\ c.op = "AddIndex" => c.idx.name \notin Names(t.idxs)
                           /\ c.op = "AddForeignKey" => c.fk.name \notin FkNames(t.fks)

LEMMA LaterFacts ==
    ASSUME NEW I, NEW P, NEW D, NEW from, NEW to, NEW options, PlanOf(I, P, D, from, to, options),
           Desired(to), NEW m \in 2..Len(P)
    PROVE  /\ m \in 1..Len(P) /\ IsSeq(P[m])
           /\ \A c \in ToSet(P[m]) : \/ c.op = "AddIndex" /\ c.idx \in ToSet(to.idxs)
                                     \/ c.op = "AddForeignKey"
           /\ \A c \in ToSet(P[m]) : c.op \notin ColumnOps
<1>1. m \in 1..Len(P) /\ m # 1
  <2>1. Len(P) \in Nat
    BY SeqFacts DEF PlanOf, Spreads
  <2> QED BY <2>1
<1>2. /\ IsSeq(P[m]) /\ ToSet(P[m]) \subseteq ToSet(D)
      /\ \A c \in ToSet(P[m]) : AddsFulltext(c) \/ c.op = "AddForeignKey"
  BY <1>1, StatementFacts
<1>3. AboutIndexes(ToSet(D), AllIndexes(from), AllIndexes(to))
  BY DEF PlanOf, DiffOf
<1>4. ASSUME NEW c \in ToSet(P[m]), AddsFulltext(c)
      PROVE  c.op = "AddIndex" /\ c.idx \in ToSet(to.idxs)
  <2>1. c.op = "AddIndex" /\ c.idx.kind = "fulltext"
    BY <1>4 DEF AddsFulltext
  <2>2. c \in ToSet(D)
    BY <1>2
  <2>3. c.idx \in AllIndexes(to)
    BY <1>3, <2>1, <2>2 DEF AboutIndexes
  <2>4. PrimaryKey(to.pk).kind = "primary"
    BY DEF PrimaryKey
  <2> QED BY <2>1, <2>3, <2>4 DEF AllIndexes
<1>5. \A c \in ToSet(P[m]) : c.op = "AddIndex" \/ c.op = "AddForeignKey"
  BY <1>2, <1>4
<1> QED BY <1>1, <1>2, <1>4, <1>5 DEF ColumnOps

LEMMA LegalLater ==
    ASSUME NEW I, NEW P, NEW D, NEW from, NEW to, NEW options, PlanOf(I, P, D, from, to, options),
           Desired(to), NEW m \in 2..Len(P), NEW t, Stored(t), NEW s, s = P[m], Room(t, s)
    PROVE  Legal(t, s)
<1> DEFINE S == ToSet(s)
<1>1. /\ m \in 1..Len(P) /\ IsSeq(s)
      /\ \A c \in S : (c.op = "AddIndex" /\ c.idx \in ToSet(to.idxs)) \/ c.op = "AddForeignKey"
      /\ \A c \in S : c.op \notin ColumnOps
  BY LaterFacts
<1>2. \A ops : {"AddIndex", "AddForeignKey"} \cap ops = {} => With(S, ops) = {}
  BY <1>1 DEF With
<1>3. LegalColumns(t, S, NewColumns(t.cols, s))
  <2> DEFINE r == NewColumns(t.cols, s)
  <2>1. IsSeq(t.cols) /\ t.cols # <<>>
    BY DEF Stored, Wf
  <2>2. r.ok /\ IsSeq(r.cols) /\ ToSet(r.cols) = ToSet(t.cols)
    BY <1>1, <2>1, PlainColumns
  <2> HIDE DEF r
  <2>3. r.cols # <<>>
    BY <2>1, <2>2, NonemptyFacts
  <2> QED BY <1>2, <2>2, <2>3 DEF LegalColumns, r
<1>4. LegalIndexes(t, S, DroppedIndexes(s))
  <2>1. DroppedIndexes(s) = {}
    BY <1>1, <1>2, DroppedFacts
  <2>2. ASSUME NEW c \in With(S, {"AddIndex"})
        PROVE  c.idx.name \notin IndexNames(t)
    <3>1. c \in S /\ c.op = "AddIndex" /\ c.idx \in ToSet(to.idxs)
      BY <1>1 DEF With
    <3>2. c.idx.name # "PRIMARY"
      BY <3>1 DEF Desired, Wf
    <3> QED BY <3>1, <3>2 DEF Room, IndexNames
  <2>3. With(S, {"AlterIndex"}) = {}
    BY <1>2
  <2> QED BY <2>1, <2>2, <2>3 DEF LegalIndexes
<1>5. Len(Filter(s, AddsFulltext)) < 2
  <2>1. Restricts(s, D, I[m]) /\ IsSeq(D)
    BY <1>1, StatementFacts DEF PlanOf, DiffOf
  <2>2. \A i, j \in I[m] : AddsFulltext(D[i]) /\ AddsFulltext(D[j]) => i = j
    BY <1>1 DEF PlanOf, Spreads
  <2> QED BY <2>1, <2>2, OneFulltext
<1>6. LegalForeignKeys(t, S)
  BY <1>2 DEF LegalForeignKeys, With, Room
<1>7. LegalChecks(t, S)
  BY <1>2 DEF LegalChecks
<1> QED BY <1>1, <1>3, <1>4, <1>5, <1>6, <1>7, LegalParts

\* What u adds is not yet there, or s drops it.
Clears(t, s, u) ==
    \A c \in ToSet(u) :
      /\ c.op = "AddIndex" => c.idx.name \notin Names(t.idxs) \ DroppedIndexes(s)
      /\ c.op = "AddForeignKey" =>
           \A f \in t.fks : f.name = c.fk.name =>
              \E d \in ToSet(s) : d.op = "DropForeignKey" /\ d.fk.name = c.fk.name

LEMMA RoomClears ==
    ASSUME NEW t, NEW s, NEW u, Room(t, u)
    PROVE  Clears(t, s, u)
BY DEF Room, Clears, FkNames

\* The first statement drops whatever a later one adds again.
LEMMA FirstClears ==
    ASSUME NEW I, NEW P, NEW D, NEW from, NEW to, NEW options, PlanOf(I, P, D, from, to, options),
           Desired(to), NEW m \in 2..Len(P)
    PROVE  Clears(from, P[1], P[m])
<1> DEFINE F == ForceIndexOrder(to, options)
           U == ToSet(D)
           s == P[1]
<1>1. /\ m \in 1..Len(P) /\ IsSeq(P[m])
      /\ \A c \in ToSet(P[m]) :
           (c.op = "AddIndex" /\ c.idx \in ToSet(to.idxs)) \/ c.op = "AddForeignKey"
  BY LaterFacts
<1>2. ToSet(P[m]) \subseteq U /\ \A c \in ToSet(P[m]) : Emitted(c, F)
  BY <1>1, StatementFacts
<1>3. 1 \in 1..Len(P)
  <2>1. Len(P) \in Nat
    BY SeqFacts DEF PlanOf, Spreads
  <2> QED BY <2>1
<1>4. /\ AboutIndexes(U, AllIndexes(from), AllIndexes(to))
      /\ AboutForeignKeys(U, from.fks)
  BY DEF PlanOf, DiffOf
<1>5. \A c \in U : Emitted(c, F) /\ c.op # "AddForeignKey" /\ ~AddsFulltext(c) => c \in ToSet(s)
  BY FirstFacts
<1>6. IsSeq(s)
  BY <1>3, StatementFacts
<1>7. ASSUME NEW c \in ToSet(P[m]), c.op = "AddIndex", c.idx.name \in Names(from.idxs)
      PROVE  c.idx.name \in DroppedIndexes(s)
  <2>1. \E i \in AllIndexes(from) : i.name = c.idx.name
    BY <1>7 DEF AllIndexes, Names
  <2>2. PICK d \in U : d.op = "DropIndex" /\ d.idx.name = c.idx.name /\ d.reorderOnly = c.reorderOnly
    BY <1>2, <1>4, <1>7, <2>1 DEF AboutIndexes
  <2>3. Emitted(c, F) /\ c.op \in {"AddIndex", "AlterIndex"}
    BY <1>2, <1>7
  <2>4. Emitted(d, F)
    BY <1>7, <2>2, <2>3, EmittedIndexes
  <2>5. d \in ToSet(s)
    BY <1>5, <2>2, <2>4 DEF AddsFulltext
  <2>6. d \in With(ToSet(s), {"DropIndex"})
    BY <2>2, <2>5 DEF With
  <2>7. DroppedIndexes(s) = {e.idx.name : e \in With(ToSet(s), {"DropIndex"})}
    BY <1>6, DroppedFacts
  <2> QED BY <2>2, <2>6, <2>7
<1>8. ASSUME NEW c \in ToSet(P[m]), c.op = "AddForeignKey", NEW f \in from.fks, f.name = c.fk.name
      PROVE  \E d \in ToSet(s) : d.op = "DropForeignKey" /\ d.fk.name = c.fk.name
  <2>1. c.fk.name \in FkNames(from.fks)
    BY <1>8 DEF FkNames
  <2>2. PICK d \in U : /\ d.op = "DropForeignKey" /\ d.fk.name = c.fk.name
                       /\ d.cosmeticOnly = c.cosmeticOnly
    BY <1>2, <1>4, <1>8, <2>1 DEF AboutForeignKeys
  <2>3. Emitted(d, F)
    BY <1>2, <1>8, <2>2, EmittedOthers
  <2>4. d \in ToSet(s)
    BY <1>5, <2>2, <2>3 DEF AddsFulltext
  <2> QED BY <2>2, <2>4
<1> QED BY <1>7, <1>8 DEF Clears

LEMMA AlteredFields ==
    ASSUME NEW t, DOMAIN t = {"cols", "pk", "idxs", "fks", "checks", "attrs", "part", "odd"},
           NEW s, NEW server, NEW u, u = AlterTable(t, s, server)
    PROVE  /\ DOMAIN u = DOMAIN t
           /\ u.cols = NewColumns(t.cols, s).cols
           /\ u.idxs = NewIndexes(t.idxs, s, server.hides)
           /\ u.fks = NewForeignKeys(t.fks, s)
           /\ u.checks = NewChecks(t.checks, s, server.mariadb)
           /\ u.attrs = NewAttrs(t.attrs, s)
           /\ u.part = NewPartitioning(t.part, s)
BY DEF AlterTable

\* No two statements add an index, or a foreign key, of one name.
LEMMA RoomAfter ==
    ASSUME NEW I, NEW P, NEW D, NEW from, NEW to, NEW options, PlanOf(I, P, D, from, to, options),
           NEW k \in 1..Len(P), NEW m \in 1..Len(P), k # m,
           NEW t, Stored(t), Clears(t, P[k], P[m]),
           Desired(to), \A i \in ToSet(to.idxs) : "name" \in DOMAIN i,
           NEW server, NEW u, u = AlterTable(t, P[k], server)
    PROVE  Room(u, P[m])
<1> DEFINE s == P[k]
<1>1. /\ IsSeq(s) /\ ToSet(s) \subseteq ToSet(D)
      /\ \A c \in ToSet(s) : \E i \in I[k] : i \in 1..Len(D) /\ D[i] = c
  BY StatementFacts
<1>2. /\ ToSet(P[m]) \subseteq ToSet(D)
      /\ \A c \in ToSet(P[m]) : \E i \in I[m] : i \in 1..Len(D) /\ D[i] = c
  BY StatementFacts
<1>3. u.idxs = NewIndexes(t.idxs, s, server.hides) /\ u.fks = NewForeignKeys(t.fks, s)
  BY AlteredFields DEF Stored
<1>4. IsSeq(t.idxs) /\ (\A i \in ToSet(t.idxs) : "name" \in DOMAIN i) /\ IsFiniteSet(t.fks)
  BY DEF Stored, Wf
<1>5. I[k] \cap I[m] = {}
  BY DEF PlanOf, Spreads
<1>6. ASSUME NEW c \in ToSet(P[m]), c.op = "AddIndex", NEW i \in ToSet(u.idxs), i.name = c.idx.name
      PROVE  FALSE
  <2>1. \/ i.name \in Names(t.idxs) \ DroppedIndexes(s)
        \/ \E d \in ToSet(s) : d.op = "AddIndex" /\ i.name = d.idx.name
    <3>1. \/ i.name \in Names(t.idxs) \ DroppedIndexes(s)
          \/ \E d \in ToSet(s) : /\ d.op = "AddIndex" /\ d.idx.kind # "primary"
                                 /\ "name" \in DOMAIN d.idx => i.name = d.idx.name
      BY <1>1, <1>3, <1>4, <1>6, NewIndexesFacts
    <3>2. ASSUME NEW d \in ToSet(s), d.op = "AddIndex", d.idx.kind # "primary"
          PROVE  "name" \in DOMAIN d.idx
      <4>1. d \in ToSet(D) /\ AboutIndexes(ToSet(D), AllIndexes(from), AllIndexes(to))
        BY <1>1 DEF PlanOf, DiffOf
      <4>2. d.idx \in AllIndexes(to) /\ PrimaryKey(to.pk).kind = "primary"
        BY <3>2, <4>1 DEF AboutIndexes, PrimaryKey
      <4> QED BY <3>2, <4>2 DEF AllIndexes
    <3> QED BY <3>1, <3>2
  <2>2. CASE i.name \in Names(t.idxs) \ DroppedIndexes(s)
    BY <1>6, <2>2 DEF Clears
  <2>3. ASSUME NEW d \in ToSet(s), d.op = "AddIndex", i.name = d.idx.name
        PROVE  FALSE
    <3>1. PICK a \in I[k] : a \in 1..Len(D) /\ D[a] = d
      BY <1>1
    <3>2. PICK b \in I[m] : b \in 1..Len(D) /\ D[b] = c
      BY <1>2
    <3>3. Once(D, AddsOf(ToSet(D), i.name))
      BY DEF PlanOf, DiffOf, Ordered
    <3>4. D[a] \in AddsOf(ToSet(D), i.name) /\ D[b] \in AddsOf(ToSet(D), i.name)
      BY <1>1, <1>2, <1>6, <2>3, <3>1, <3>2 DEF AddsOf
    <3>5. a = b
      BY <3>1, <3>2, <3>3, <3>4 DEF Once
    <3> QED BY <1>5, <3>1, <3>2, <3>5
  <2> QED BY <2>1, <2>2, <2>3
<1>7. ASSUME NEW c \in ToSet(P[m]), c.op = "AddForeignKey", NEW f \in u.fks, f.name = c.fk.name
      PROVE  FALSE
  <2>1. \/ f \in t.fks /\ \A d \in ToSet(s) : d.op = "DropForeignKey" => d.fk.name # f.name
        \/ \E d \in ToSet(s) : d.op = "AddForeignKey" /\ f = d.fk
    BY <1>1, <1>3, <1>4, <1>7, NewForeignKeysFacts
  <2>2. CASE f \in t.fks /\ \A d \in ToSet(s) : d.op = "DropForeignKey" => d.fk.name # f.name
    BY <1>7, <2>2 DEF Clears
  <2>3. ASSUME NEW d \in ToSet(s), d.op = "AddForeignKey"
        PROVE  FALSE
    <3>1. PICK a \in I[k] : a \in 1..Len(D) /\ D[a] = d
      BY <1>1
    <3>2. PICK b \in I[m] : b \in 1..Len(D) /\ D[b] = c
      BY <1>2
    <3>3. D[a].op = "AddForeignKey" /\ D[b].op = "AddForeignKey" => k = m
      BY DEF PlanOf, Spreads
    <3> QED BY <1>7, <2>3, <3>1, <3>2, <3>3
  <2> QED BY <2>1, <2>2, <2>3
<1> QED BY <1>6, <1>7 DEF Room, Names, FkNames

\* The desired state of a table.
Wanted(t) ==
    /\ Desired(t)
    /\ \A c \in ToSet(t.cols) : IsType(c.type) /\ EquivalentColumns(c, c)
    /\ \A i \in ToSet(t.idxs) : "name" \in DOMAIN i
    /\ IsFiniteSet(t.fks)
    /\ t.attrs.autoinc \in Nat

\* The columns a statement leaves have proper and different names.
LEMMA AlteredColumns ==
    ASSUME NEW I, NEW P, NEW D, NEW from, NEW to, NEW options, PlanOf(I, P, D, from, to, options),
           Desired(to), \A c \in ToSet(to.cols) : IsType(c.type),
           NEW k \in 1..Len(P), NEW t, Stored(t), k = 1 => t = from,
           NEW r, r = NewColumns(t.cols, P[k])
    PROVE  /\ IsSeq(r.cols) /\ r.cols # <<>> /\ NamesDiffer(r.cols)
           /\ \A c \in ToSet(r.cols) : c.name \notin {Unpositioned, First} /\ IsType(c.type)
<1>1. /\ IsSeq(t.cols) /\ t.cols # <<>> /\ NamesDiffer(t.cols)
      /\ \A c \in ToSet(t.cols) : c.name \notin {Unpositioned, First} /\ IsType(c.type)
  BY DEF Stored, Wf
<1>2. CASE k = 1
  <2> DEFINE a == t.cols
             b == to.cols
             U == ToSet(D)
             s == P[k]
  <2>1. IsSeq(D) /\ AboutColumns(U, a, b) /\ Ordered(D, U)
    BY <1>2 DEF PlanOf, DiffOf
  <2>2. /\ IsSeq(b) /\ b # <<>>
        /\ \A c \in ToSet(b) : c.name \notin {Unpositioned, First} /\ IsType(c.type)
    BY DEF Desired, Wf
  <2>3. Starts(s, D)
    BY <1>2, FirstFacts
  <2>4. U = ToSet(D) /\ r = NewColumns(a, s) /\ IsSeq(a) /\ NamesDiffer(a)
    BY <1>1
  <2>5. \A c \in ToSet(a) : c.name \notin {Unpositioned, First} /\ IsType(c.type)
    BY <1>1
  <2> HIDE DEF a, b, U, s
  <2>6. /\ IsSeq(r.cols) /\ r.cols # <<>>
        /\ \A d \in ToSet(r.cols) : d \in ToSet(a) \cup ToSet(b)
        /\ NamesDiffer(a) => NamesDiffer(r.cols)
    BY <2>1, <2>2, <2>3, <2>4, ColumnsFacts
  <2> QED BY <2>2, <2>4, <2>5, <2>6
<1>3. CASE k # 1
  <2>1. k \in 2..Len(P)
    <3>1. Len(P) \in Nat
      BY SeqFacts DEF PlanOf, Spreads
    <3> QED BY <1>3, <3>1
  <2>2. IsSeq(P[k]) /\ \A c \in ToSet(P[k]) : c.op \notin ColumnOps
    BY <2>1, LaterFacts
  <2>3. IsSeq(r.cols) /\ ToSet(r.cols) = ToSet(t.cols) /\ NamesDiffer(r.cols)
    BY <1>1, <2>2, PlainColumns
  <2>4. r.cols # <<>>
    BY <1>1, <2>3, NonemptyFacts
  <2> QED BY <1>1, <2>3, <2>4
<1> QED BY <1>2, <1>3

\* The server has a proper table after every statement.
LEMMA StoredAfter ==
    ASSUME NEW I, NEW P, NEW D, NEW from, NEW to, NEW options, PlanOf(I, P, D, from, to, options),
           Wanted(to), NEW k \in 1..Len(P), NEW t, Stored(t), k = 1 => t = from,
           NEW server, NEW u, u = AlterTable(t, P[k], server)
    PROVE  Stored(u)
<1> DEFINE s == P[k]
           r == NewColumns(t.cols, s)
<1>1. /\ DOMAIN u = DOMAIN t /\ u.cols = r.cols
      /\ u.idxs = NewIndexes(t.idxs, s, server.hides) /\ u.fks = NewForeignKeys(t.fks, s)
      /\ u.checks = NewChecks(t.checks, s, server.mariadb) /\ u.attrs = NewAttrs(t.attrs, s)
  BY AlteredFields DEF Stored
<1>2. Desired(to) /\ \A c \in ToSet(to.cols) : IsType(c.type)
  BY DEF Wanted
<1>3. IsSeq(s) /\ ToSet(s) \subseteq ToSet(D)
  BY StatementFacts
<1>4. /\ IsSeq(r.cols) /\ r.cols # <<>> /\ NamesDiffer(r.cols)
      /\ \A c \in ToSet(r.cols) : c.name \notin {Unpositioned, First} /\ IsType(c.type)
  BY <1>2, AlteredColumns
<1>5. IsSeq(u.idxs) /\ \A i \in ToSet(u.idxs) : i.name # "PRIMARY" /\ "name" \in DOMAIN i
  <2>1. /\ IsSeq(t.idxs) /\ (\A i \in ToSet(t.idxs) : "name" \in DOMAIN i)
        /\ \A i \in ToSet(t.idxs) : i.name # "PRIMARY"
    BY DEF Stored, Wf
  <2>2. /\ IsSeq(u.idxs)
        /\ \A i \in ToSet(u.idxs) :
             \/ i.name \in Names(t.idxs) \ DroppedIndexes(s) /\ "name" \in DOMAIN i
             \/ \E c \in ToSet(s) :
                   /\ c.op = "AddIndex" /\ c.idx.kind # "primary"
                   /\ "name" \in DOMAIN c.idx => i.name = c.idx.name /\ "name" \in DOMAIN i
    BY <1>1, <1>3, <2>1, NewIndexesFacts
  <2>3. ASSUME NEW c \in ToSet(s), c.op = "AddIndex", c.idx.kind # "primary"
        PROVE  c.idx.name # "PRIMARY" /\ "name" \in DOMAIN c.idx
    <3>1. c \in ToSet(D) /\ AboutIndexes(ToSet(D), AllIndexes(from), AllIndexes(to))
      BY <1>3 DEF PlanOf, DiffOf
    <3>2. c.idx \in AllIndexes(to)
      BY <2>3, <3>1 DEF AboutIndexes
    <3>3. PrimaryKey(to.pk).kind = "primary"
      BY DEF PrimaryKey
    <3>4. c.idx \in ToSet(to.idxs)
      BY <2>3, <3>2, <3>3 DEF AllIndexes
    <3> QED BY <3>4 DEF Wanted, Desired, Wf
  <2> QED BY <2>1, <2>2, <2>3 DEF Names
<1>6. IsSeq(u.checks)
  BY <1>1, <1>3, NewChecksFacts DEF Stored, Wf
<1>7. IsFiniteSet(u.fks)
  BY <1>1, <1>3, NewForeignKeysFacts DEF Stored
<1>8. {"engine", "autoinc"} \subseteq DOMAIN u.attrs /\ u.attrs.autoinc \in Nat
  <2> DEFINE a == t.attrs
             b == u.attrs
  <2>1. {"engine", "autoinc"} \subseteq DOMAIN a /\ a.autoinc \in Nat /\ to.attrs.autoinc \in Nat
    BY DEF Stored, Wanted
  <2>2. b = NewAttrs(a, s)
    BY <1>1
  <2> HIDE DEF a, b, s
  <2>3. /\ DOMAIN b = DOMAIN a
        /\ \A x \in DOMAIN a :
             b[x] = a[x] \/ \E c \in ToSet(s) : c.op = "ChangeAttr" /\ c.attr = x /\ b[x] = c.new
    BY <1>3, <2>2, NewAttrsFacts
  <2>4. AboutTable(ToSet(D), from, to)
    BY DEF PlanOf, DiffOf
  <2>5. \A c \in ToSet(s) : c.op = "ChangeAttr" /\ c.attr = "autoinc" => c.new = to.attrs["autoinc"]
    BY <1>3, <2>4 DEF AboutTable
  <2>6. "autoinc" \in DOMAIN a
    BY <2>1
  <2>7. \/ b["autoinc"] = a["autoinc"]
        \/ \E c \in ToSet(s) : c.op = "ChangeAttr" /\ c.attr = "autoinc" /\ b["autoinc"] = c.new
    BY <2>3, <2>6
  <2>8. b["autoinc"] \in Nat
    BY <2>1, <2>5, <2>7
  <2> QED BY <2>1, <2>3, <2>8 DEF b
<1>9. Wf(u)
  BY <1>1, <1>4, <1>5, <1>6 DEF Wf
<1> QED BY <1>1, <1>4, <1>5, <1>7, <1>8, <1>9 DEF Stored

-----------------------------------------------------------------------------
(* Columns that are as they should be *)

Arrives(cols, to, strict) ==
    /\ IsSeq(cols) /\ Len(cols) = Len(to)
    /\ \A n \in 1..Len(to) : EquivalentColumns(cols[n], to[n])
    /\ strict => cols = to

\* A modification that is left out changes nothing but the looks of a column.
LEMMA LeftOut ==
    ASSUME NEW c, c.op = "ModifyColumn", NEW to, NEW options, "strictColumns" \in DOMAIN options,
           ~Emitted(c, ForceIndexOrder(to, options))
    PROVE  EquivalentColumns(c.old, c.col) /\ ~options.strictColumns
<1> DEFINE f == ForceIndexOrder(to, options)
<1>1. f.strictColumns = options.strictColumns
  BY DEF ForceIndexOrder
<1> HIDE DEF f
<1>2. Emitted(c, f) <=> f.strictColumns \/ c.pos # Unpositioned \/ ~EquivalentColumns(c.old, c.col)
  BY DEF Emitted
<1> QED BY <1>1, <1>2 DEF f

LEMMA StatementArrives ==
    ASSUME NEW D, NEW from, NEW to, NEW options, "strictColumns" \in DOMAIN options,
           DiffOf(D, from, to), Arranged(D, from.cols, to.cols), Stored(from), Wanted(to),
           NEW s, Starts(s, D), NEW r, r = NewColumns(from.cols, s),
           \A c \in ToSet(D) :
              c.op = "ModifyColumn" /\ Emitted(c, ForceIndexOrder(to, options)) => c \in ToSet(s)
    PROVE  Arrives(r.cols, to.cols, options.strictColumns)
<1> DEFINE U == ToSet(D)
           a == from.cols
           b == to.cols
<1>1. IsSeq(D) /\ AboutColumns(U, a, b) /\ Ordered(D, U) /\ Arranged(D, a, b)
  BY DEF DiffOf
<1>2. /\ IsSeq(a) /\ IsSeq(b) /\ NamesDiffer(b)
      /\ \A c \in ToSet(b) : EquivalentColumns(c, c)
  BY DEF Stored, Wanted, Desired, Wf
<1>3. U = ToSet(D) /\ r = NewColumns(a, s)
  OBVIOUS
<1>4. ASSUME NEW m \in U \ ToSet(s), m.op = "ModifyColumn"
      PROVE  EquivalentColumns(m.old, m.col) /\ ~options.strictColumns
  BY <1>4, LeftOut
<1> HIDE DEF U, a, b
<1>5. /\ IsSeq(r.cols) /\ Len(r.cols) = Len(b)
      /\ \A n \in 1..Len(b) : Nearly(r.cols[n], b[n], U, ToSet(s))
  BY <1>1, <1>2, <1>3, ColumnsPushed
<1>6. \A n \in 1..Len(b) : b[n] \in ToSet(b)
  BY <1>2, SeqFacts
<1>7. \A n \in 1..Len(b) : EquivalentColumns(r.cols[n], b[n])
  BY <1>2, <1>4, <1>5, <1>6 DEF Nearly
<1>8. ASSUME options.strictColumns PROVE r.cols = b
  <2>1. \A n \in 1..Len(b) : r.cols[n] = b[n]
    BY <1>4, <1>5, <1>8 DEF Nearly
  <2>2. /\ r.cols = [n \in 1..Len(r.cols) |-> r.cols[n]]
        /\ b = [n \in 1..Len(b) |-> b[n]]
    BY <1>2, <1>5, SeqFacts
  <2> QED BY <1>5, <2>1, <2>2
<1> QED BY <1>5, <1>7, <1>8 DEF Arrives, b

LEMMA FirstArrives ==
    ASSUME NEW I, NEW P, NEW D, NEW from, NEW to, NEW options, PlanOf(I, P, D, from, to, options),
           "strictColumns" \in DOMAIN options, Stored(from), Wanted(to), 1 \in 1..Len(P),
           NEW r, r = NewColumns(from.cols, P[1])
    PROVE  Arrives(r.cols, to.cols, options.strictColumns)
<1> DEFINE s == P[1]
<1>1. /\ \A c \in ToSet(D) :
           Emitted(c, ForceIndexOrder(to, options)) /\ c.op # "AddForeignKey" /\ ~AddsFulltext(c) =>
           c \in ToSet(s)
      /\ Starts(s, D)
  BY FirstFacts
<1>2. \A c \in ToSet(D) :
        c.op = "ModifyColumn" /\ Emitted(c, ForceIndexOrder(to, options)) => c \in ToSet(s)
  BY <1>1 DEF AddsFulltext
<1>3. DiffOf(D, from, to) /\ Arranged(D, from.cols, to.cols) /\ r = NewColumns(from.cols, s)
  BY DEF PlanOf
<1> HIDE DEF s
<1> QED BY <1>1, <1>2, <1>3, StatementArrives

\* A push without statements has nothing to do.
LEMMA NothingArrives ==
    ASSUME NEW I, NEW P, NEW D, NEW from, NEW to, NEW options, PlanOf(I, P, D, from, to, options),
           "strictColumns" \in DOMAIN options, Stored(from), Wanted(to), P = <<>>
    PROVE  Arrives(from.cols, to.cols, options.strictColumns)
<1> DEFINE s == <<>>
           r == NewColumns(from.cols, s)
<1>1. IsSeq(s) /\ ToSet(s) = {} /\ Len(s) = 0
  BY EmptyFacts
<1>2. \A c \in ToSet(D) :
        Emitted(c, ForceIndexOrder(to, options)) => c.op = "AddForeignKey" \/ AddsFulltext(c)
  <2>1. 1 \notin 1..Len(P)
    BY <1>1
  <2> QED BY <2>1, FirstFacts
<1>3. \A c \in ToSet(D) :
        c.op = "ModifyColumn" /\ Emitted(c, ForceIndexOrder(to, options)) => c \in ToSet(s)
  BY <1>2 DEF AddsFulltext
<1>4. DiffOf(D, from, to) /\ Arranged(D, from.cols, to.cols) /\ IsSeq(D)
  BY DEF PlanOf, DiffOf
<1>5. Starts(s, D)
  <2>1. \A c \in ToSet(D) : Placing(c) \/ c.op = "DropColumn" => c \in ToSet(s)
    BY <1>2, EmittedColumns
  <2>2. Lists(<<>>, s, D, {})
    BY <1>1 DEF Lists
  <2>3. Restricts(s, D, {})
    BY <1>1, <2>2 DEF Restricts
  <2> QED BY <2>1, <2>3 DEF Starts
<1>6. IsSeq(from.cols) /\ NamesDiffer(from.cols)
  BY DEF Stored, Wf
<1>7. r = NewColumns(from.cols, s) /\ \A c \in ToSet(s) : c.op \notin ColumnOps
  BY <1>1
<1> HIDE DEF s, r
<1>8. Arrives(r.cols, to.cols, options.strictColumns)
  BY <1>3, <1>4, <1>5, <1>7, StatementArrives
<1>9. r.cols = from.cols
  BY <1>1, <1>6, <1>7, PlainColumns
<1> QED BY <1>8, <1>9

-----------------------------------------------------------------------------
(* The inductive invariant *)

\* The next statement of a plan, and all those after it, still find room.
Pending(P, from, to, options, t, n) ==
    \E D, I : /\ PlanOf(I, P, D, from, to, options)
              /\ n = 0 => t = from
              /\ n # 0 => \A m \in n + 1..Len(P) : Room(t, P[m])

PushInv ==
    /\ Stored(live) /\ Stored(base) /\ Wanted(want)
    /\ {"autoinc", "partitioning", "strictColumns"} \subseteq DOMAIN mods
    /\ next \in Nat
    /\ phase # "error"
    /\ phase = "run" => Pending(plan, base, want, mods, live, next)
    /\ phase = "done" \/ (phase = "run" /\ (next # 0 \/ plan = <<>>)) =>
         Arrives(live.cols, want.cols, mods.strictColumns)

LEMMA TablesAreProper ==
    ASSUME NEW t, IsTable(t)
    PROVE  Stored(t) /\ Wanted(t)
<1>1. IsSeq(t.cols) /\ IsSeq(t.idxs) /\ IsSeq(t.checks)
  BY DEF IsTable, IsSeq
<1>2. NamesDiffer(t.cols) /\ NamesDiffer(t.idxs)
  BY DEF IsTable, NamesDiffer
<1>4. Wf(t)
  BY <1>1 DEF IsTable, Wf
<1>5. Stored(t)
  BY <1>2, <1>4 DEF IsTable, Stored
<1>6. \A c \in ToSet(t.cols) : EquivalentColumns(c, c)
  <2> SUFFICES ASSUME NEW c \in ToSet(t.cols) PROVE EquivalentColumns(c, c)
    OBVIOUS
  <2>1. c = [name |-> c.name, type |-> c.type, look |-> c.look, virtual |-> c.virtual]
    BY DEF IsTable
  <2> QED BY <2>1 DEF EquivalentColumns
<1>7. Wanted(t)
  BY <1>2, <1>4, <1>6 DEF IsTable, Wanted, Desired
<1> QED BY <1>5, <1>7

LEMMA PushInvInit == Init => PushInv
<1> SUFFICES ASSUME Init PROVE PushInv
  OBVIOUS
<1>1. PICK c \in Cases : live = c.from /\ base = c.from /\ want = c.to /\ mods = c.mods
  BY DEF Init
<1>2. IsTable(c.from) /\ IsTable(c.to) /\ {"autoinc", "partitioning", "strictColumns"} \subseteq DOMAIN c.mods
  BY CasesAreTables
<1>3. Stored(live) /\ Stored(base) /\ Wanted(want)
  BY <1>1, <1>2, TablesAreProper
<1> QED BY <1>1, <1>2, <1>3 DEF Init, PushInv

LEMMA OrdersAreSeqs ==
    ASSUME NEW t, IsFiniteSet(t.fks), NEW o \in Orders(t)
    PROVE  IsSeq(o)
<1> DEFINE N == FkNames(t.fks)
           g == [f \in t.fks |-> f.name]
<1>1. g \in Surjection(t.fks, N)
  BY DEF Surjection, FkNames
<1> HIDE DEF g
<1>2. IsFiniteSet(N) /\ Cardinality(N) \in Nat
  BY <1>1, FS_Surjection, FS_CardinalityType
<1>3. o \in [1..Cardinality(N) -> N]
  BY DEF Orders, SetToSeqs
<1>4. o \in Seq(N)
  BY <1>2, <1>3
<1> QED BY <1>4, IsSeqOf

LEMMA NoDifference ==
    ASSUME NEW t, IsSeq(t.cols), NamesDiffer(t.cols)
    PROVE  DiffOf(<<>>, t, t) /\ Arranged(<<>>, t.cols, t.cols)
<1>1. IsSeq(<<>>) /\ ToSet(<<>>) = {} /\ Len(<<>>) = 0
  BY EmptyFacts
<1>2. AboutColumns({}, t.cols, t.cols)
  BY DEF AboutColumns, Names
<1>3. /\ AboutIndexes({}, AllIndexes(t), AllIndexes(t)) /\ AboutForeignKeys({}, t.fks)
      /\ AboutChecks({}, ToSet(t.checks)) /\ AboutTable({}, t, t)
  BY DEF AboutIndexes, AboutForeignKeys, AboutChecks, AboutTable
<1>4. Ordered(<<>>, {})
  BY <1>1 DEF Ordered, Once, Precedes
<1>5. \A c \in {} : c.op \in ClauseOps
  OBVIOUS
<1>6. Moves({}) = Moves(ToSet(columnModifications(t.cols, t.cols)))
  BY SameColumnsStay DEF Moves
<1>7. Arranged(<<>>, t.cols, t.cols)
  BY NothingToArrange
<1> QED BY <1>1, <1>2, <1>3, <1>4, <1>5, <1>6, <1>7 DEF DiffOf

\* Every push starts with a plan for the table as it is by then.
LEMMA PlanStep == PushInv /\ Plan => PushInv'
<1> SUFFICES ASSUME PushInv, Plan PROVE PushInv'
  OBVIOUS
<1>1. UNCHANGED <<live, want, mods>> /\ base' = live /\ next' = 0
  BY DEF Plan, Prepare
<1>2. PICK toOrder \in Orders(want), fromOrder \in Orders(live) :
         LET diff == Diff(live, want, toOrder, fromOrder)
             alters == Alters(diff.clauses)
             stmts == [n \in DOMAIN alters |-> alterStatement(alters[n], want, mods)]
             ok == /\ diff.supported
                   /\ \A n \in DOMAIN alters : ~Forbidden(alters[n], want, mods)
         IN  /\ phase' = IF ok THEN "run" ELSE "refused"
             /\ plan' = IF ok THEN Filter(stmts, LAMBDA s : s # <<>>) ELSE <<>>
  BY DEF Plan, Prepare
<1> DEFINE diff == Diff(live, want, toOrder, fromOrder)
           D == diff.clauses
           alters == Alters(D)
           stmts == [n \in DOMAIN alters |-> alterStatement(alters[n], want, mods)]
           ok == /\ diff.supported
                 /\ \A n \in DOMAIN alters : ~Forbidden(alters[n], want, mods)
<1>3. /\ phase' = IF ok THEN "run" ELSE "refused"
      /\ plan' = IF ok THEN Filter(stmts, LAMBDA s : s # <<>>) ELSE <<>>
  BY <1>2
<1>4. ASSUME diff.supported
      PROVE  DiffOf(D, live, want) /\ Arranged(D, live.cols, want.cols)
  <2>1. IsSeq(toOrder) /\ IsSeq(fromOrder)
    BY OrdersAreSeqs DEF PushInv, Stored, Wanted
  <2>2. Wf(live) /\ NamesDiffer(live.cols) /\ Desired(want)
    BY DEF PushInv, Stored, Wanted
  <2>3. /\ DiffOf(DiffClauses(live, want, toOrder, fromOrder), live, want)
        /\ Arranged(DiffClauses(live, want, toOrder, fromOrder), live.cols, want.cols)
    <3> DEFINE C == DiffClauses(live, want, toOrder, fromOrder)
               a == live.cols
               b == want.cols
    <3>1. DiffOf(C, live, want) /\ Wraps(C, ColumnClauses(a, b))
      BY <2>1, <2>2, DiffFacts
    <3>2. /\ IsSeq(a) /\ NamesDiffer(a) /\ IsSeq(b) /\ NamesDiffer(b) /\ IsSeq(C)
          /\ \A d \in ToSet(b) : d.name \notin {Unpositioned, First}
      BY <2>2, <3>1 DEF Wf, Desired, DiffOf
    <3> HIDE DEF C, a, b
    <3>3. Arranged(C, a, b)
      BY <3>1, <3>2, WrapsArranged
    <3> QED BY <3>1, <3>3 DEF C, a, b
  <2>4. CASE live = want
    <3>1. D = <<>>
      BY <2>4 DEF Diff
    <3> QED BY <2>2, <2>4, <3>1, NoDifference DEF Wf
  <2>5. CASE live # want
    <3>1. D = DiffClauses(live, want, toOrder, fromOrder)
      BY <1>4, <2>5 DEF Diff
    <3> QED BY <2>3, <3>1
  <2> QED BY <2>4, <2>5
<1>5. ASSUME phase' = "run"
      PROVE  /\ Pending(plan, base, want, mods, live, next)'
             /\ plan' = <<>> => Arrives(live.cols, want.cols, mods.strictColumns)
  <2>1. ok /\ plan' = Filter(stmts, LAMBDA s : s # <<>>)
    BY <1>3, <1>5
  <2>2. DiffOf(D, live, want) /\ Arranged(D, live.cols, want.cols)
    BY <1>4, <2>1
  <2>3. IsSeq(D)
    BY <2>2 DEF DiffOf
  <2>4. alters = Alters(D) /\ stmts = [n \in DOMAIN alters |-> alterStatement(alters[n], want, mods)]
    OBVIOUS
  <2>5. \A n \in DOMAIN alters : ~Forbidden(alters[n], want, mods)
    BY <2>1
  <2> HIDE DEF D, alters, stmts, ok, diff
  <2>6. /\ \E I : Spreads(I, Filter(stmts, LAMBDA s : s # <<>>), D, Written(D, want, mods))
        /\ ~mods.allowUnsafe => \A i \in Written(D, want, mods) : ~Unsafe(D[i])
    BY <2>3, <2>4, <2>5, PlanFacts
  <2>7. PICK I : Spreads(I, plan', D, Written(D, want, mods))
    BY <2>1, <2>6
  <2>8. PlanOf(I, plan', D, live, want, mods)
    BY <2>2, <2>6, <2>7 DEF PlanOf
  <2>9. Pending(plan', live, want, mods, live, 0)
    BY <2>8 DEF Pending
  <2>10. ASSUME plan' = <<>> PROVE Arrives(live.cols, want.cols, mods.strictColumns)
    BY <2>8, <2>10, NothingArrives DEF PushInv
  <2> QED BY <1>1, <2>9, <2>10
<1>6. phase' \in {"run", "refused"}
  BY <1>3
<1>7. /\ Stored(live') /\ Stored(base') /\ Wanted(want')
      /\ {"autoinc", "partitioning", "strictColumns"} \subseteq DOMAIN mods' /\ next' = 0
  BY <1>1 DEF PushInv
<1>8. phase' = "run" /\ plan' = <<>> => Arrives(live.cols, want.cols, mods.strictColumns)'
  BY <1>1, <1>5
<1> QED BY <1>5, <1>6, <1>7, <1>8 DEF PushInv

\* The server accepts the next statement, and the ones after it keep their room.
LEMMA StatementRuns ==
    ASSUME NEW P, NEW from, NEW to, NEW options, NEW t, NEW n \in Nat,
           Pending(P, from, to, options, t, n), Stored(t), Wanted(to), n < Len(P),
           NEW server, NEW u, u = AlterTable(t, P[n + 1], server)
    PROVE  /\ Legal(t, P[n + 1]) /\ Stored(u) /\ Pending(P, from, to, options, u, n + 1)
           /\ "strictColumns" \in DOMAIN options /\ (n = 0 \/ Arrives(t.cols, to.cols, options.strictColumns)) =>
                Arrives(u.cols, to.cols, options.strictColumns)
<1>1. PICK D, I : /\ PlanOf(I, P, D, from, to, options)
                  /\ n = 0 => t = from
                  /\ n # 0 => \A m \in n + 1..Len(P) : Room(t, P[m])
  BY DEF Pending
<1> DEFINE k == n + 1
<1>2. Len(P) \in Nat
  BY <1>1, SeqFacts DEF PlanOf, Spreads
<1>3. k \in 1..Len(P) /\ (n # 0 => k \in 2..Len(P)) /\ (k = 1 <=> n = 0) /\ k # 0
  BY <1>2
<1>4. Desired(to)
  BY DEF Wanted
<1>5. (k = 1 => t = from) /\ \A m \in k..Len(P) : n # 0 => Room(t, P[m])
  BY <1>1, <1>3
<1> HIDE DEF k
<1>6. Stored(u)
  BY <1>1, <1>3, <1>5, StoredAfter DEF k
<1>7. Legal(t, P[k])
  <2>1. CASE n = 0
    BY <1>1, <1>3, <1>4, <1>5, <2>1, LegalFirst
  <2>2. CASE n # 0
    <3>1. k \in 2..Len(P) /\ k \in k..Len(P)
      BY <1>2, <1>3, <2>2
    <3>2. Room(t, P[k])
      BY <1>5, <2>2, <3>1
    <3> QED BY <1>1, <1>4, <3>1, <3>2, LegalLater
  <2> QED BY <2>1, <2>2
<1>8. ASSUME NEW m \in k + 1..Len(P)
      PROVE  Room(u, P[m])
  <2>1. m \in 2..Len(P) /\ m \in 1..Len(P) /\ m \in k..Len(P) /\ k # m
    BY <1>2, <1>3
  <2>2. Clears(t, P[k], P[m])
    <3>1. CASE n = 0
      <4>1. Clears(from, P[1], P[m])
        BY <1>1, <1>4, <2>1, FirstClears
      <4> QED BY <1>3, <1>5, <3>1, <4>1
    <3>2. CASE n # 0
      <4>1. Room(t, P[m])
        BY <1>5, <2>1, <3>2
      <4> QED BY <4>1, RoomClears
    <3> QED BY <3>1, <3>2
  <2>3. u = AlterTable(t, P[k], server)
    BY DEF k
  <2> QED BY <1>1, <1>3, <1>4, <2>1, <2>2, <2>3, RoomAfter DEF Wanted
<1>9. Pending(P, from, to, options, u, k)
  BY <1>1, <1>3, <1>8 DEF Pending
<1>10. ASSUME "strictColumns" \in DOMAIN options, n = 0 \/ Arrives(t.cols, to.cols, options.strictColumns)
       PROVE  Arrives(u.cols, to.cols, options.strictColumns)
  <2>1. u.cols = NewColumns(t.cols, P[k]).cols
    BY AlteredFields DEF Stored, k
  <2>2. CASE n = 0
    BY <1>1, <1>3, <1>5, <1>10, <2>1, <2>2, FirstArrives
  <2>3. CASE n # 0
    <3>1. IsSeq(P[k]) /\ \A c \in ToSet(P[k]) : c.op \notin ColumnOps
      BY <1>1, <1>3, <1>4, <2>3, LaterFacts
    <3>2. IsSeq(t.cols) /\ NamesDiffer(t.cols)
      BY DEF Stored, Wf
    <3>3. NewColumns(t.cols, P[k]).cols = t.cols
      BY <3>1, <3>2, PlainColumns
    <3> QED BY <1>10, <2>1, <2>3, <3>3
  <2> QED BY <2>2, <2>3
<1> QED BY <1>6, <1>7, <1>9, <1>10 DEF k

LEMMA PushInvStep == PushInv /\ [Next]_vars => PushInv'
<1> SUFFICES ASSUME PushInv, [Next]_vars PROVE PushInv'
  OBVIOUS
<1>1. CASE Plan
  BY <1>1, PlanStep
<1>2. CASE Execute
  <2> DEFINE s == plan[next + 1]
             u == AlterTable(live, s, mods)
  <2>1. /\ phase = "run" /\ next < Len(plan) /\ next' = next + 1
        /\ UNCHANGED <<base, want, mods, plan>>
        /\ Legal(live, s) => live' = u /\ phase' = phase
    BY <1>2 DEF Execute
  <2>2. /\ next \in Nat /\ Stored(live) /\ Wanted(want) /\ Pending(plan, base, want, mods, live, next)
        /\ Stored(base) /\ {"autoinc", "partitioning", "strictColumns"} \subseteq DOMAIN mods
        /\ next = 0 \/ Arrives(live.cols, want.cols, mods.strictColumns)
    BY <2>1 DEF PushInv
  <2>3. /\ Legal(live, s) /\ Stored(u) /\ Pending(plan, base, want, mods, u, next + 1)
        /\ Arrives(u.cols, want.cols, mods.strictColumns)
    BY <2>1, <2>2, StatementRuns
  <2>4. live' = u /\ phase' = "run"
    BY <2>1, <2>3
  <2> HIDE DEF u, s
  <2> QED BY <2>1, <2>2, <2>3, <2>4 DEF PushInv
<1>3. CASE Interrupt
  BY <1>3 DEF Interrupt, PushInv
<1>4. CASE Finish
  <2>1. /\ phase = "run" /\ next = Len(plan) /\ phase' = "done"
        /\ UNCHANGED <<live, base, want, mods, plan, next>>
    BY <1>4 DEF Finish
  <2>2. next # 0 \/ plan = <<>>
    <3>1. IsSeq(plan)
      BY <2>1 DEF PushInv, Pending, PlanOf, Spreads
    <3> QED BY <2>1, <3>1, NonemptyFacts
  <2> QED BY <2>1, <2>2 DEF PushInv
<1>5. CASE UNCHANGED vars
  BY <1>5 DEF vars, PushInv
<1> QED BY <1>1, <1>2, <1>3, <1>4, <1>5 DEF Next

LEMMA PushInvariance == Spec => []PushInv
BY PushInvInit, PushInvStep, PTL DEF Spec

\* Whatever two tables a push gets to compare, and after any number of pushes
\* that ended halfway, the server accepts each statement that Table.Diff,
\* SplitAddForeignKeys, SplitConflicts and alterStatement come up with.
THEOREM StatementsAreLegal == Spec => []NoIllegalStatement
<1>1. PushInv => NoIllegalStatement
  BY DEF PushInv, NoIllegalStatement
<1> QED BY <1>1, PushInvariance, PTL

\* Whatever the two tables are and wherever earlier pushes ended: a push that
\* goes through leaves every desired column, no other, and each of them at its
\* place.  The clauses of columnDrops, columnModifications and columnAdds turn
\* the columns into the desired ones, and alterStatement leaves out only what
\* does not matter without exact-match.
THEOREM ColumnsAreArranged == Spec => []ColumnsArrive
<1>1. PushInv => ColumnsArrive
  <2> SUFFICES ASSUME PushInv, phase = "done" PROVE ColumnsArrive
    BY DEF ColumnsArrive
  <2>1. Arrives(live.cols, want.cols, mods.strictColumns)
    BY DEF PushInv
  <2>2. DOMAIN live.cols = 1..Len(live.cols)
    BY <2>1, SeqFacts DEF Arrives
  <2> QED BY <2>1, <2>2 DEF Arrives, ColumnsArrive
<1> QED BY <1>1, PushInvariance, PTL

-----------------------------------------------------------------------------
(* What a statement may do under the options *)

\* RespectsOptions for a statement that turns t into u.
Respects(t, u, options) ==
    /\ ~options.allowUnsafe =>
         /\ \A c \in ToSet(t.cols) : c.virtual \/
               \E d \in ToSet(u.cols) : d.name = c.name /\ Survives(c, d)
         /\ u.attrs.engine = t.attrs.engine
    /\ options.partitioning = "keep" /\ t.part.method # "" => u.part = t.part
    /\ options.partitioning = "remove" => u.part.method \in {"", t.part.method}
    /\ options.autoinc = "increased" => u.attrs.autoinc >= t.attrs.autoinc

LEMMA PrefixMembers ==
    ASSUME NEW s \in Seq(Nat), NEW r \in Seq(Nat), IsPrefix(s, r)
    PROVE  ToSet(s) \subseteq ToSet(r)
<1>1. Len(s) <= Len(r) /\ SubSeq(s, 1, Len(s)) = SubSeq(r, 1, Len(s))
  BY DEF IsPrefix
<1>2. \A n \in 1..Len(s) : s[n] = r[n] /\ n \in 1..Len(r)
  BY <1>1
<1>3. DOMAIN s = 1..Len(s) /\ DOMAIN r = 1..Len(r)
  OBVIOUS
<1> QED BY <1>2, <1>3 DEF ToSet

LEMMA SizesAreNumbers ==
    ASSUME NEW t, IsType(t)
    PROVE  /\ Rank(t) \in Nat
           /\ IsStringType(t) => StringSize(t) \in Nat
           /\ IsVarBinType(t) => VarBinSize(t) \in Nat
<1>1. \A b \in DOMAIN Ints : Ints[b] \in Nat
  BY DEF Ints
<1>2. \A b \in DOMAIN TextSize : TextSize[b] \in Nat
  BY DEF TextSize
<1>3. \A b \in DOMAIN BlobSize : BlobSize[b] \in Nat
  BY DEF BlobSize
<1>4. t.base \in Chars \cup {"varbinary"} => t.args \in Seq(Nat) /\ Len(t.args) = 1
  BY DEF IsType
<1>5. t.base \in Chars \cup {"varbinary"} => t.args[1] \in Nat
  BY <1>4
<1> QED BY <1>1, <1>2, <1>3, <1>5 DEF Rank, IsStringType, StringSize, IsVarBinType, VarBinSize

\* ModifyColumn.Unsafe notices every conversion that destroys values, but for
\* the three kinds of TakenForSafe.
LEMMA UnsafeIsNoticed ==
    ASSUME NEW t, NEW u, IsType(t), IsType(u), ~UnsafeConversion(t, u), ~TakenForSafe(t, u)
    PROVE  ValuesFit(t, u)
<1> SUFFICES ASSUME t # u PROVE ValuesFit(t, u)
  BY DEF ValuesFit
<1> DEFINE both(bases) == t.base \in bases /\ u.base \in bases
<1>1. t.charset = u.charset /\ ~(~t.unsigned /\ u.unsigned)
  BY DEF UnsafeConversion
<1>2. SignFits(t, u)
  BY <1>1 DEF SignFits, IsType
<1>3. CASE both({"enum"}) \/ both({"set"})
  <2>1. IsPrefix(t.args, u.args)
    BY <1>1, <1>3 DEF UnsafeConversion
  <2>2. ToSet(t.args) \subseteq ToSet(u.args)
    BY <2>1, PrefixMembers DEF IsType
  <2> QED BY <1>1, <1>3, <2>2 DEF ValuesFit
<1>4. CASE both({"decimal"})
  <2>1. ~Shrinks(t, u)
    BY <1>1, <1>4 DEF UnsafeConversion
  <2>2. t.args \in Seq(Nat) /\ u.args \in Seq(Nat) /\ Len(t.args) = 2 /\ Len(u.args) = 2
    BY <1>4 DEF IsType
  <2>3. t.args # <<>> /\ u.args # <<>>
    BY <2>2
  <2>4. t.base \in Fractional /\ u.base \in Fractional /\ u.base = t.base
    BY <1>4 DEF Fractional
  <2>5. ~(IntegerDigits(u) < IntegerDigits(t))
    BY <2>3, <2>4 DEF TakenForSafe
  <2>6. t.args[2] <= u.args[2] /\ IntegerDigits(t) <= IntegerDigits(u)
    BY <2>1, <2>2, <2>5 DEF Shrinks, IntegerDigits
  <2> QED BY <1>1, <1>2, <2>3, <2>4, <2>6 DEF ValuesFit
<1>5. CASE both({"bit"})
  <2>1. ~Shrinks(t, u)
    BY <1>1, <1>5 DEF UnsafeConversion
  <2>2. /\ t.args \in Seq(Nat) /\ u.args \in Seq(Nat) /\ Len(t.args) = 1 /\ Len(u.args) = 1
    BY <1>5 DEF IsType
  <2> QED BY <1>1, <1>5, <2>1, <2>2 DEF ValuesFit, Shrinks
<1>6. CASE both({"time", "timestamp"}) \/ both({"datetime"})
  <2>1. ~(t.args # <<>> /\ (u.args = <<>> \/ Shrinks(t, u)))
    BY <1>1, <1>6 DEF UnsafeConversion
  <2>2. /\ t.args \in Seq(Nat) /\ u.args \in Seq(Nat)
        /\ Len(t.args) \in {0, 1} /\ Len(u.args) \in {0, 1}
    BY <1>6 DEF IsType
  <2>3. t.base = u.base
    BY <1>6 DEF TakenForSafe
  <2>4. t.args = <<>> \/ (u.args # <<>> /\ t.args[1] <= u.args[1])
    BY <2>1, <2>2 DEF Shrinks
  <2> QED BY <1>1, <1>6, <2>3, <2>4 DEF ValuesFit
<1>7. CASE both({"float"}) \/ both({"double"}) \/ <<t.base, u.base>> = <<"float", "double">>
  <2>1. ~(u.args # <<>> /\ (t.args = <<>> \/ Shrinks(t, u)))
    BY <1>1, <1>7 DEF UnsafeConversion
  <2>2. /\ t.args \in Seq(Nat) /\ u.args \in Seq(Nat)
        /\ Len(t.args) \in {0, 2} /\ Len(u.args) \in {0, 2}
    BY <1>7 DEF IsType
  <2>3. /\ t.base \in Fractional /\ u.base \in Fractional
        /\ u.base = t.base \/ <<t.base, u.base>> = <<"float", "double">>
    BY <1>7 DEF Fractional
  <2>4. t.args # <<>> /\ u.args # <<>> => ~(IntegerDigits(u) < IntegerDigits(t))
    BY <2>3 DEF TakenForSafe
  <2>5. \/ u.args = <<>>
        \/ t.args # <<>> /\ t.args[2] <= u.args[2] /\ IntegerDigits(t) <= IntegerDigits(u)
    BY <2>1, <2>2, <2>4 DEF Shrinks, IntegerDigits
  <2> QED BY <1>1, <1>2, <2>3, <2>5 DEF ValuesFit
<1> DEFINE earlier == \/ both({"enum"}) \/ both({"set"}) \/ both({"decimal"}) \/ both({"bit"})
                      \/ both({"time", "timestamp"}) \/ both({"datetime"}) \/ both({"float"})
                      \/ both({"double"}) \/ <<t.base, u.base>> = <<"float", "double">>
<1>8. CASE ~earlier /\ Rank(t) > 0 /\ Rank(u) > 0
  <2>1. IF t.unsigned /\ ~u.unsigned THEN ~(Rank(t) >= Rank(u)) ELSE ~(Rank(t) > Rank(u))
    BY <1>1, <1>8 DEF UnsafeConversion
  <2>2. Rank(t) \in Nat /\ Rank(u) \in Nat
    BY SizesAreNumbers
  <2>4. t.unsigned \in BOOLEAN /\ u.unsigned \in BOOLEAN
    BY DEF IsType
  <2>3. Rank(t) < Rank(u) \/ (Rank(t) = Rank(u) /\ t.unsigned = u.unsigned)
    BY <1>1, <2>1, <2>2, <2>4
  <2> QED BY <1>1, <1>2, <1>8, <2>3 DEF ValuesFit
<1>9. CASE ~earlier /\ ~(Rank(t) > 0 /\ Rank(u) > 0) /\ IsStringType(t) /\ IsStringType(u)
  <2>1. ~(StringSize(u) < StringSize(t))
    BY <1>1, <1>9 DEF UnsafeConversion
  <2> DEFINE w == Width(t.charset)
  <2>2. w \in 1..4 /\ w = Width(u.charset)
    BY <1>1 DEF Width
  <2>3. StringSize(t) \in Nat /\ StringSize(u) \in Nat /\ StringSize(t) <= StringSize(u)
    BY <1>9, <2>1, SizesAreNumbers
  <2>4. MostChars(t) = StringSize(t) /\ MostChars(u) = StringSize(u)
    BY DEF MostChars, StringSize
  <2>5. \A x \in {t, u} : MostBytes(x) = IF x.base \in Chars THEN StringSize(x) * w ELSE StringSize(x)
    BY <1>1 DEF MostBytes, StringSize
  <2> HIDE DEF w
  <2>6. ~(u.base \in Chars) => u.base \in DOMAIN TextSize
    BY <1>9 DEF IsStringType
  <2>7. MostBytes(t) <= MostBytes(u)
    <3>1. CASE t.base \in Chars /\ u.base \notin Chars
      <4>1. ~(MostBytes(u) < MostBytes(t))
        BY <2>3, <2>6, <3>1 DEF TakenForSafe
      <4> QED BY <2>2, <2>3, <2>5, <3>1, <4>1
    <3>2. CASE t.base \in Chars /\ u.base \in Chars
      BY <2>2, <2>3, <2>5, <3>2
    <3>3. CASE t.base \notin Chars
      BY <2>2, <2>3, <2>5, <3>3
    <3> QED BY <3>1, <3>2, <3>3
  <2> QED BY <1>1, <1>9, <2>3, <2>4, <2>7 DEF ValuesFit
<1>10. CASE ~earlier /\ ~(Rank(t) > 0 /\ Rank(u) > 0) /\ ~(IsStringType(t) /\ IsStringType(u))
  <2>1. CASE Convenient(t, u) \/ Convenient(u, t)
    BY <1>1, <2>1 DEF ValuesFit
  <2>2. CASE ~(Convenient(t, u) \/ Convenient(u, t))
    <3>1. IsVarBinType(t) /\ IsVarBinType(u) /\ ~(VarBinSize(u) < VarBinSize(t))
      BY <1>1, <1>10, <2>2 DEF UnsafeConversion
    <3>2. VarBinSize(t) \in Nat /\ VarBinSize(u) \in Nat
      BY <3>1, SizesAreNumbers
    <3>3. VarBinSize(t) <= VarBinSize(u)
      BY <3>1, <3>2
    <3> QED BY <1>1, <3>1, <3>3 DEF ValuesFit
  <2> QED BY <2>1, <2>2
<1> QED BY <1>3, <1>4, <1>5, <1>6, <1>7, <1>8, <1>9, <1>10

\* A stored column is not lost to the first statement if it has no unsafe clause.
LEMMA ColumnsKept ==
    ASSUME NEW D, NEW from, NEW to, NEW U, U = ToSet(D), IsSeq(D),
           AboutColumns(U, from, to), Ordered(D, U), IsSeq(from), IsSeq(to), to # <<>>,
           UniqueNames(ToSet(from)), \A c \in ToSet(from) \cup ToSet(to) : IsType(c.type),
           NEW s, Starts(s, D), \A c \in ToSet(s) : ~Unsafe(c),
           NEW r, r = NewColumns(from, s), NEW c \in ToSet(from), ~c.virtual
    PROVE  \E d \in ToSet(r.cols) : d.name = c.name /\ Survives(c, d)
<1> DEFINE S == ToSet(s)
<1>1. IsSeq(s) /\ S \subseteq U
  BY StartsFacts
<1>2. /\ \A b \in ToSet(from) : b.name \notin Moved(s) => \E d \in ToSet(r.cols) : Becomes(b, d, S)
      /\ \A m \in S : Placing(m) => m.col \in ToSet(r.cols)
  BY ColumnsFacts
<1>3. ASSUME NEW m \in S, m.op = "ModifyColumn", m.col.name = c.name
      PROVE  Survives(c, m.col)
  <2>1. m.col \in ToSet(to) /\ m.old \in ToSet(from) /\ m.old.name = m.col.name
    BY <1>1, <1>3 DEF AboutColumns
  <2>2. m.old = c
    BY <1>3, <2>1 DEF UniqueNames
  <2>3. ~UnsafeConversion(c.type, m.col.type)
    BY <1>3, <2>2 DEF Unsafe
  <2>4. IsType(c.type) /\ IsType(m.col.type)
    BY <2>1
  <2> QED BY <2>3, <2>4, UnsafeIsNoticed DEF Survives
<1>4. CASE c.name \notin Moved(s)
  <2>1. PICK d \in ToSet(r.cols) : Becomes(c, d, S)
    BY <1>2, <1>4
  <2>2. d.name = c.name /\ (d = c \/ \E m \in S : m.op = "ModifyColumn" /\ m.col = d)
    BY <2>1 DEF Becomes
  <2>3. Survives(c, c)
    BY DEF Survives, ValuesFit
  <2> QED BY <1>3, <2>2, <2>3
<1>5. CASE c.name \in Moved(s)
  <2>1. Moved(s) = {d.col.name : d \in {e \in S : e.op = "DropColumn" \/ Placing(e)}}
    BY <1>1, MovedFacts
  <2>2. PICK m \in S : (m.op = "DropColumn" \/ Placing(m)) /\ m.col.name = c.name
    BY <1>5, <2>1
  <2>3. m.op # "DropColumn"
    <3> SUFFICES ASSUME m.op = "DropColumn" PROVE FALSE
      OBVIOUS
    <3>1. m.col \in ToSet(from)
      BY <1>1, <2>2 DEF AboutColumns
    <3>2. m.col = c
      BY <2>2, <3>1 DEF UniqueNames
    <3> QED BY <3>2 DEF Unsafe
  <2>4. m.op # "AddColumn"
    <3>1. m.op = "AddColumn" => m.col.name \notin Names(from)
      BY <1>1, <2>2 DEF AboutColumns
    <3> QED BY <2>2, <3>1 DEF Names
  <2>5. m.op = "ModifyColumn" /\ Placing(m)
    BY <2>2, <2>3, <2>4 DEF Placing
  <2> QED BY <1>2, <1>3, <2>2, <2>5
<1> QED BY <1>4, <1>5

LEMMA EmittedAttributes ==
    ASSUME NEW c, NEW to, NEW options, Emitted(c, ForceIndexOrder(to, options)),
           {"autoinc", "partitioning"} \subseteq DOMAIN options
    PROVE  /\ c.op = "ChangeAttr" /\ c.attr = "autoinc" /\ options.autoinc = "increased" => c.old < c.new
           /\ c.op = "PartitionBy" => /\ options.partitioning # "remove"
                                      /\ options.partitioning = "keep" => ~c.rePartition
           /\ c.op = "RemovePartitioning" => options.partitioning # "keep"
<1> DEFINE f == ForceIndexOrder(to, options)
<1>1. f.autoinc = options.autoinc /\ f.partitioning = options.partitioning
  BY DEF ForceIndexOrder
<1> HIDE DEF f
<1>2. c.op = "ChangeAttr" => EmitsAttr(c, f)
  BY DEF Emitted, f
<1>3. c.op \in {"PartitionBy", "RemovePartitioning", "ModifyPartitions"} => EmitsPartitioning(c, f)
  BY DEF Emitted, f
<1>4. c.op = "ChangeAttr" /\ c.attr = "autoinc" /\ f.autoinc = "increased" => c.old < c.new
  BY <1>2 DEF EmitsAttr
<1>5. /\ c.op = "PartitionBy" => f.partitioning # "remove" /\ (f.partitioning = "keep" => ~c.rePartition)
      /\ c.op = "RemovePartitioning" => f.partitioning # "keep"
  BY <1>3 DEF EmitsPartitioning
<1> QED BY <1>1, <1>4, <1>5

LEMMA StatementRespects ==
    ASSUME NEW P, NEW from, NEW to, NEW options, {"autoinc", "partitioning"} \subseteq DOMAIN options,
           NEW t, NEW n \in Nat, Pending(P, from, to, options, t, n), Stored(t), Wanted(to), n < Len(P),
           NEW server, NEW u, u = AlterTable(t, P[n + 1], server)
    PROVE  Respects(t, u, options)
<1>1. PICK D, I : PlanOf(I, P, D, from, to, options) /\ (n = 0 => t = from)
  BY DEF Pending
<1> DEFINE k == n + 1
           s == P[k]
           F == ForceIndexOrder(to, options)
<1>2. k \in 1..Len(P) /\ (k = 1 => t = from) /\ (k # 1 => k \in 2..Len(P))
  <2>1. Len(P) \in Nat
    BY <1>1, SeqFacts DEF PlanOf, Spreads
  <2> QED BY <1>1, <2>1
<1>3. /\ u.cols = NewColumns(t.cols, s).cols
      /\ u.attrs = NewAttrs(t.attrs, s) /\ u.part = NewPartitioning(t.part, s)
  BY AlteredFields DEF Stored
<1> HIDE DEF k
<1>4. /\ IsSeq(s) /\ ToSet(s) \subseteq ToSet(D)
      /\ \A c \in ToSet(s) : Emitted(c, F) /\ (~options.allowUnsafe => ~Unsafe(c))
  BY <1>1, <1>2, StatementFacts
<1>5. Desired(to) /\ \A c \in ToSet(to.cols) : IsType(c.type)
  BY DEF Wanted
<1>6. k # 1 => \A c \in ToSet(s) : c.op \in {"AddIndex", "AddForeignKey"} /\ c.op \notin ColumnOps
  BY <1>1, <1>2, <1>5, LaterFacts
<1>7. AboutTable(ToSet(D), from, to)
  BY <1>1 DEF PlanOf, DiffOf
<1>8. \A c \in ToSet(s) :
        /\ c.op = "ChangeAttr" /\ c.attr = "autoinc" /\ options.autoinc = "increased" => c.old < c.new
        /\ c.op = "PartitionBy" => /\ options.partitioning # "remove"
                                   /\ options.partitioning = "keep" => ~c.rePartition
        /\ c.op = "RemovePartitioning" => options.partitioning # "keep"
  BY <1>4, EmittedAttributes
<1>9. ASSUME ~options.allowUnsafe, NEW c \in ToSet(t.cols), ~c.virtual
      PROVE  \E d \in ToSet(u.cols) : d.name = c.name /\ Survives(c, d)
  <2> DEFINE a == t.cols
             b == to.cols
             r == NewColumns(a, s)
             U == ToSet(D)
  <2>1. IsSeq(a) /\ UniqueNames(ToSet(a)) /\ IsSeq(b) /\ b # <<>>
    <3>1. IsSeq(a) /\ NamesDiffer(a) /\ IsSeq(b) /\ b # <<>>
      BY <1>5 DEF Stored, Desired, Wf
    <3> HIDE DEF a
    <3> QED BY <3>1, DifferUnique
  <2>2. CASE k = 1
    <3>1. IsSeq(D) /\ AboutColumns(U, a, b) /\ Ordered(D, U)
      BY <1>1, <1>2, <2>2 DEF PlanOf, DiffOf
    <3>2. Starts(s, D) /\ \A e \in ToSet(s) : ~Unsafe(e)
      BY <1>1, <1>2, <1>4, <1>9, <2>2, FirstFacts
    <3>3. r = NewColumns(a, s) /\ U = ToSet(D) /\ c \in ToSet(a) /\ u.cols = r.cols
      BY <1>3
    <3>4. \A e \in ToSet(a) \cup ToSet(b) : IsType(e.type)
      BY <1>5 DEF Stored
    <3> HIDE DEF a, b, r, U, s
    <3> QED BY <1>9, <2>1, <3>1, <3>2, <3>3, <3>4, ColumnsKept
  <2>3. CASE k # 1
    <3>1. ToSet(r.cols) = ToSet(a)
      BY <1>4, <1>6, <2>1, <2>3, PlainColumns
    <3>2. Survives(c, c)
      BY DEF Survives, ValuesFit
    <3> QED BY <1>3, <3>1, <3>2
  <2> QED BY <2>2, <2>3
<1> DEFINE x == t.attrs
           y == u.attrs
<1>10. {"engine", "autoinc"} \subseteq DOMAIN x /\ x["autoinc"] \in Nat
  BY DEF Stored
<1>11. y["autoinc"] \in Nat
  <2>1. Stored(u)
    BY StatementRuns
  <2> QED BY <2>1 DEF Stored
<1>12. y = NewAttrs(x, s)
  BY <1>3
<1>13. /\ ~options.allowUnsafe => y["engine"] = x["engine"]
       /\ options.autoinc = "increased" => y["autoinc"] >= x["autoinc"]
  <2>1. x = t.attrs
    OBVIOUS
  <2> HIDE DEF x, y, s
  <2>2. \A a \in DOMAIN x :
          y[a] = x[a] \/ \E c \in ToSet(s) : c.op = "ChangeAttr" /\ c.attr = a /\ y[a] = c.new
    BY <1>4, <1>12, NewAttrsFacts
  <2>3. \/ y["engine"] = x["engine"]
        \/ \E c \in ToSet(s) : c.op = "ChangeAttr" /\ c.attr = "engine"
    BY <1>10, <2>2
  <2>4. \/ y["autoinc"] = x["autoinc"]
        \/ \E c \in ToSet(s) : c.op = "ChangeAttr" /\ c.attr = "autoinc" /\ y["autoinc"] = c.new
    BY <1>10, <2>2
  <2>5. ~options.allowUnsafe => y["engine"] = x["engine"]
    BY <1>4, <2>3 DEF Unsafe
  <2>6. ASSUME NEW c \in ToSet(s), c.op = "ChangeAttr", c.attr = "autoinc", y["autoinc"] = c.new,
               options.autoinc = "increased"
        PROVE  y["autoinc"] >= x["autoinc"]
    <3>1. c.old < c.new
      BY <1>8, <2>6
    <3>2. k = 1
      BY <1>6, <2>6
    <3>3. c.old = x["autoinc"]
      BY <1>2, <1>4, <1>7, <2>1, <2>6, <3>2 DEF AboutTable
    <3> QED BY <1>10, <1>11, <2>6, <3>1, <3>3
  <2>7. options.autoinc = "increased" => y["autoinc"] >= x["autoinc"]
    BY <1>10, <1>11, <2>4, <2>6
  <2> QED BY <2>5, <2>7
<1>14. /\ options.partitioning = "keep" /\ t.part.method # "" => u.part = t.part
       /\ options.partitioning = "remove" => u.part.method \in {"", t.part.method}
  <2>1. \/ u.part = t.part
        \/ \E c \in ToSet(s) : c.op = "PartitionBy"
        \/ u.part.method = "" /\ \E c \in ToSet(s) : c.op = "RemovePartitioning"
    <3>1. Partitions(u.part, t.part, ToSet(s))
      BY <1>3, <1>4, NewPartitioningFacts
    <3> QED BY <3>1 DEF Partitions
  <2>2. ASSUME NEW c \in ToSet(s), c.op = "PartitionBy"
        PROVE  options.partitioning # "remove" /\ (options.partitioning = "keep" => t.part.method = "")
    <3>1. k = 1
      BY <1>6, <2>2
    <3>2. c.rePartition \/ t.part.method = ""
      BY <1>2, <1>4, <1>7, <2>2, <3>1 DEF AboutTable
    <3> QED BY <1>8, <2>2, <3>2
  <2> QED BY <1>8, <2>1, <2>2
<1> QED BY <1>9, <1>13, <1>14 DEF Respects

\* Without allow-unsafe no push drops a stored column or changes the engine, and
\* none converts a column so that values are lost, whatever the two types are,
\* but for the three kinds that ModifyColumn.Unsafe takes for safe (TakenForSafe);
\* a push keeps to the modes of partitioning and of auto-increment values,
\* whatever the two tables are and wherever earlier pushes ended.
THEOREM PushesRespectOptions == Spec => OptionsAreRespected
<1>1. PushInv /\ [Next]_vars => [RespectsOptions]_vars
  <2> SUFFICES ASSUME PushInv, Next PROVE RespectsOptions
    OBVIOUS
  <2>1. CASE live' = live
    <3>1. \A c : Survives(c, c)
      BY DEF Survives, ValuesFit
    <3> QED BY <2>1, <3>1 DEF RespectsOptions, PushInv, Stored
  <2>2. CASE Execute /\ live' # live
    <3>1. /\ phase = "run" /\ next < Len(plan)
          /\ live' = AlterTable(live, plan[next + 1], mods)
      BY <2>2 DEF Execute
    <3>2. Respects(live, live', mods)
      BY <3>1, StatementRespects DEF PushInv
    <3> QED BY <3>2 DEF Respects, RespectsOptions
  <2> QED BY <2>1, <2>2 DEF Next, Plan, Prepare, Interrupt, Finish
<1> QED BY <1>1, PushInvariance, PTL DEF Spec, OptionsAreRespected

-----------------------------------------------------------------------------
(* Moves *)

LEMMA LongestIsIt ==
    ASSUME NEW L \in Nat, NEW N \in Nat, NEW s \in [1..N -> Nat], Longest(L, N, s)
    PROVE  LongestIncreasing(s) = L
<1> DEFINE S == {Cardinality(D) : D \in {E \in SUBSET DOMAIN s : \A i, j \in E : i < j => s[i] < s[j]}}
<1>1. LongestIncreasing(s) = Max(S)
  BY DEF LongestIncreasing
<1>2. \A D : Rising(D, N, s) <=> D \in SUBSET DOMAIN s /\ \A i, j \in D : i < j => s[i] < s[j]
  BY DEF Rising
<1>3. ASSUME NEW x \in S PROVE \E D : Rising(D, N, s) /\ Cardinality(D) = x
  BY <1>2
<1>4. ASSUME NEW D, Rising(D, N, s) PROVE Cardinality(D) \in S
  BY <1>2, <1>4
<1> HIDE DEF S
<1>5. L \in S
  BY <1>4 DEF Longest
<1>6. \A x \in S : x \in Nat /\ x <= L
  <2> SUFFICES ASSUME NEW x \in S PROVE x \in Nat /\ x <= L
    OBVIOUS
  <2>1. PICK D : Rising(D, N, s) /\ Cardinality(D) = x
    BY <1>3
  <2>2. Cardinality(D) \in Nat
    BY <2>1, CountWithin DEF Rising
  <2> QED BY <2>1, <2>2 DEF Longest
<1>7. Max(S) = L
  <2>1. Max(S) = CHOOSE x \in S : \A y \in S : x >= y
    BY DEF Max
  <2>2. \A x \in S : (\A y \in S : x >= y) => x = L
    BY <1>5, <1>6
  <2> QED BY <1>5, <1>6, <2>1, <2>2
<1> QED BY <1>1, <1>7

\* F has every element of M once, at the indices in J.
ListsOnce(F, J, M) ==
    /\ IsSeq(F) /\ IsFiniteSet(J) /\ {F[n] : n \in J} = M
    /\ \A m, n \in J : F[m] = F[n] => m = n

\* A plan writes every move once.
LEMMA MovesWritten ==
    ASSUME NEW I, NEW P, NEW D, NEW from, NEW to, NEW options, PlanOf(I, P, D, from, to, options),
           NEW F, F = FlattenSeq(P), NEW J, J = {n \in 1..Len(F) : F[n] \in Moves(ToSet(F))}
    PROVE  ListsOnce(F, J, Moves(ToSet(D)))
<1> DEFINE M == Moves(ToSet(D))
<1>1. IsSeq(D) /\ IsSeq(P) /\ Ordered(D, ToSet(D))
  BY DEF PlanOf, DiffOf, Spreads
<1>2. \A m \in 1..Len(P) : IsSeq(P[m]) /\ ToSet(P[m]) \subseteq ToSet(D) /\ Restricts(P[m], D, I[m])
  BY StatementFacts
<1>3. IsSeq(F) /\ ToSet(F) = UNION {ToSet(P[m]) : m \in 1..Len(P)}
  BY <1>1, <1>2, FlattenFacts
<1>4. Len(F) \in Nat /\ ToSet(F) = {F[n] : n \in 1..Len(F)}
  BY <1>3, SeqFacts
<1>5. \A c \in M : Placing(c)
  BY DEF Moves, Placing
<1>6. \A c \in M : c \in ToSet(F)
  <2> SUFFICES ASSUME NEW c \in M PROVE c \in ToSet(F)
    OBVIOUS
  <2>1. c \in ToSet(D)
    BY DEF Moves
  <2>2. Emitted(c, ForceIndexOrder(to, options)) /\ c.op # "AddForeignKey" /\ ~AddsFulltext(c)
    BY <1>5, EmittedColumns
  <2>3. 1 \in 1..Len(P) /\ c \in ToSet(P[1])
    BY <2>1, <2>2, FirstFacts
  <2> QED BY <1>3, <2>3
<1>7. Moves(ToSet(F)) = M
  <2>1. ToSet(F) \subseteq ToSet(D)
    BY <1>2, <1>3
  <2> QED BY <1>6, <2>1 DEF Moves
<1>8. {F[n] : n \in J} = M
  <2>1. \A c \in M : \E n \in J : F[n] = c
    BY <1>4, <1>6, <1>7
  <2> QED BY <1>7, <2>1
<1>9. IsFiniteSet(J)
  <2>1. J \subseteq 1..Len(F)
    OBVIOUS
  <2> QED BY <1>4, <2>1, CountWithin
<1>10. ASSUME NEW x
       PROVE  Once(F, Places(ToSet(D), x))
  <2> DEFINE X == Places(ToSet(D), x)
  <2>1. Once(D, X)
    BY <1>1 DEF Ordered
  <2>2. \A c \in X : Placing(c)
    BY DEF Places
  <2> HIDE DEF X
  <2>3. \A m \in 1..Len(P) : Once(P[m], X)
    <3> SUFFICES ASSUME NEW m \in 1..Len(P) PROVE Once(P[m], X)
      OBVIOUS
    <3> DEFINE s == P[m]
               K == I[m]
    <3>1. Restricts(s, D, K)
      BY <1>2
    <3> HIDE DEF s, K
    <3>2. Once(s, X)
      BY <1>1, <2>1, <3>1, OnceRestricts
    <3> QED BY <3>2 DEF s
  <2>4. \A m \in 1..Len(P) : ToSet(P[m]) \cap X # {} => m = 1
    <3> SUFFICES ASSUME NEW m \in 1..Len(P), NEW c \in ToSet(P[m]), c \in X PROVE m = 1
      OBVIOUS
    <3>1. m # 1 => AddsFulltext(c) \/ c.op = "AddForeignKey"
      BY StatementFacts
    <3>2. ~AddsFulltext(c) /\ c.op # "AddForeignKey"
      BY <2>2, EmittedColumns
    <3> QED BY <3>1, <3>2
  <2>5. \A m, n \in 1..Len(P) : ToSet(P[m]) \cap X # {} /\ ToSet(P[n]) \cap X # {} => m = n
    BY <2>4
  <2>6. Once(F, X)
    BY <1>1, <1>2, <2>3, <2>5, OnceFlatten
  <2> QED BY <2>6 DEF X
<1>11. \A m, n \in J : F[m] = F[n] => m = n
  <2> SUFFICES ASSUME NEW m \in J, NEW n \in J, F[m] = F[n] PROVE m = n
    OBVIOUS
  <2> DEFINE x == F[m].col.name
  <2>1. F[m] \in ToSet(D) /\ Placing(F[m])
    BY <1>5, <1>7 DEF Moves
  <2>2. F[m] \in Places(ToSet(D), x) /\ F[n] \in Places(ToSet(D), x)
    BY <2>1 DEF Places
  <2> HIDE DEF x
  <2> QED BY <1>10, <2>2 DEF Once
<1> QED BY <1>3, <1>8, <1>9, <1>11 DEF ListsOnce

LEMMA PlanMovesFew ==
    ASSUME NEW I, NEW P, NEW D, NEW from, NEW to, NEW options, PlanOf(I, P, D, from, to, options),
           Stored(from), Wanted(to), NEW F, F = FlattenSeq(P),
           NEW old, old = CommonCols(from.cols, to.cols),
           NEW s, s = Whereabouts(old, CommonCols(to.cols, from.cols)),
           NEW K, K = {n \in 1..Len(F) : F[n].op = "ModifyColumn" /\ F[n].pos # Unpositioned}
    PROVE  Len(Pick(F, K)) = Len(old) - LongestIncreasing(s)
<1> DEFINE J == {n \in 1..Len(F) : F[n] \in Moves(ToSet(F))}
           M == Moves(ToSet(D))
<1>1. /\ IsSeq(F) /\ IsFiniteSet(J) /\ {F[n] : n \in J} = M
      /\ \A m, n \in J : F[m] = F[n] => m = n
  <2>1. J = {n \in 1..Len(F) : F[n] \in Moves(ToSet(F))}
    OBVIOUS
  <2> HIDE DEF J
  <2>2. ListsOnce(F, J, M)
    BY <2>1, MovesWritten
  <2> QED BY <2>2 DEF ListsOnce
<1>3. K = J /\ J \subseteq 1..Len(F)
  BY <1>1, SeqFacts DEF Moves
<1> HIDE DEF J, M
<1>4. Len(Pick(F, J)) = Cardinality(J)
  BY <1>1, <1>3, PickFacts
<1>5. Cardinality(J) = Cardinality(M)
  BY <1>1, CountImage
<1>6. Wf(from) /\ NamesDiffer(from.cols) /\ Desired(to) /\ DiffOf(D, from, to)
  BY DEF Stored, Wanted, PlanOf
<1>7. Fewest(M, old, s)
  BY <1>6, FewestMoves DEF M
<1>8. PICK L \in Nat : /\ Len(old) \in Nat /\ s \in [1..Len(old) -> Nat] /\ Longest(L, Len(old), s)
                       /\ Cardinality(M) = Len(old) - L
  BY <1>7 DEF Fewest
<1>9. LongestIncreasing(s) = L
  BY <1>8, LongestIsIt
<1> QED BY <1>3, <1>4, <1>5, <1>8, <1>9

\* Whatever two tables are compared, the statements of a push move no more
\* columns than have to be: longestIncreasingSubsequence finds a longest run of
\* columns that can stay, columnModifications moves the others, and the split
\* into statements neither loses nor repeats a move.
THEOREM MovesAreMinimal == Spec => []MinimalMoves
<1>1. PushInv => MinimalMoves
  <2> SUFFICES ASSUME PushInv, phase = "run" PROVE MinimalMoves
    BY DEF MinimalMoves
  <2> DEFINE old == CommonCols(base.cols, want.cols)
             new == CommonCols(want.cols, base.cols)
             s == Whereabouts(old, new)
             F == FlattenSeq(plan)
             K == {n \in 1..Len(F) : F[n].op = "ModifyColumn" /\ F[n].pos # Unpositioned}
  <2>1. PICK D, I : PlanOf(I, plan, D, base, want, mods)
    BY DEF PushInv, Pending
  <2>2. Stored(base) /\ Wanted(want)
    BY DEF PushInv
  <2>3. old = CommonCols(base.cols, want.cols) /\ s = Whereabouts(old, CommonCols(want.cols, base.cols))
    OBVIOUS
  <2>4. K = {n \in 1..Len(F) : F[n].op = "ModifyColumn" /\ F[n].pos # Unpositioned}
    OBVIOUS
  <2>5. Filter(F, LAMBDA c : c.op = "ModifyColumn" /\ c.pos # Unpositioned) = Pick(F, K)
    BY DEF Filter
  <2>6. s = [n \in DOMAIN old |-> CHOOSE k \in DOMAIN new : new[k].name = old[n].name]
    BY DEF Whereabouts
  <2>7. Len(Pick(F, K)) = Len(old) - LongestIncreasing(s)
    <3> HIDE DEF old, s, K
    <3> QED BY <2>1, <2>2, <2>3, <2>4, PlanMovesFew
  <2> HIDE DEF K
  <2> QED BY <2>5, <2>6, <2>7 DEF MinimalMoves
<1> QED BY <1>1, PushInvariance, PTL
=============================================================================
