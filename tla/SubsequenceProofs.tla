------------------------- MODULE SubsequenceProofs -------------------------
(***************************************************************************)
(* Induction for the provers at hand, which cannot instantiate a theorem   *)
(* that takes an operator: what is to be shown is that a set of numbers    *)
(* has all of them.  With it, what Subsequence, recursive functions and    *)
(* FlattenSeq compute.                                                     *)
(***************************************************************************)
EXTENDS Subsequence, SequencesExt, TLAPS, FiniteSetTheorems, SequenceTheorems,
        WellFoundedInduction

----------------------------------------------------------------------------
(* Induction                                                               *)

LEMMA Least ==
    ASSUME NEW B, B \subseteq Nat, B # {}
    PROVE  \E x \in B : \A y \in B : x <= y
<1>1. PICK x \in B : \A y \in B : ~(<<y, x>> \in OpToRel(<, Nat))
  <2>1. IsWellFoundedOn(OpToRel(<, Nat), Nat)
    BY NatLessThanWellFounded, Zenon
  <2> HIDE DEF OpToRel
  <2> QED BY <2>1, WFMin, Zenon
<1>2. \A y \in B : ~(y < x)
  BY <1>1 DEF OpToRel
<1> QED BY <1>2

\* A set that has m, and with a number the next one, has all from m to n.
LEMMA Induction ==
    ASSUME NEW m \in Nat, NEW n \in Nat, NEW B, m \in B,
           \A k \in m..n : k \in B /\ k + 1 <= n => k + 1 \in B
    PROVE  \A k \in m..n : k \in B
<1> SUFFICES ASSUME {k \in m..n : k \notin B} # {}
             PROVE  FALSE
  OBVIOUS
<1>1. PICK x \in {k \in m..n : k \notin B} : \A y \in {k \in m..n : k \notin B} : x <= y
  <2>1. {k \in m..n : k \notin B} \subseteq Nat
    OBVIOUS
  <2> HIDE DEF Induction
  <2> QED BY <2>1, Least
<1>2. x # m /\ x - 1 \in m..n
  BY <1>1
<1>3. x - 1 \in B
  BY <1>1, <1>2
<1> QED BY <1>1, <1>2, <1>3

\* The function g on m..n that has base at m and steps from there.
Recursive(g, m, n, V, base, step) ==
    /\ g \in [m..n -> V]
    /\ g[m] = base /\ \A k \in m..n : k # m => g[k] = step[k][g[k - 1]]

LEMMA Recursion ==
    ASSUME NEW m \in Nat, NEW n \in Nat, m <= n, NEW V, NEW base \in V,
           NEW step \in [m..n -> [V -> V]]
    PROVE  \E g : Recursive(g, m, n, V, base, step)
<1> DEFINE Good(l, g) == g[m] = base /\ \A k \in m..l : k # m => g[k] = step[k][g[k - 1]]
           B == {l \in m..n : \E g \in [m..l -> V] : Good(l, g)}
<1>1. m \in B
  <2>1. [k \in m..m |-> base] \in [m..m -> V] /\ Good(m, [k \in m..m |-> base])
    OBVIOUS
  <2>2. m \in m..n
    OBVIOUS
  <2> HIDE DEF Good
  <2> QED BY <2>1, <2>2
<1>2. ASSUME NEW k \in m..n, k \in B, k + 1 <= n
      PROVE  k + 1 \in B
  <2>1. PICK g \in [m..k -> V] : Good(k, g)
    BY <1>2
  <2> DEFINE h == [j \in m..(k + 1) |-> IF j = k + 1 THEN step[k + 1][g[k]] ELSE g[j]]
  <2>2. g[k] \in V /\ k + 1 \in m..n /\ step[k + 1] \in [V -> V]
    BY <1>2
  <2>3. h \in [m..(k + 1) -> V]
    BY <2>2
  <2>4. h[m] = base
    BY <2>1, <1>2
  <2>5. ASSUME NEW j \in m..(k + 1), j # m
        PROVE  h[j] = step[j][h[j - 1]]
    <3>1. j - 1 \in m..k /\ h[j - 1] = g[j - 1]
      BY <2>5, <1>2
    <3>2. CASE j = k + 1
      BY <3>1, <3>2
    <3>3. CASE j # k + 1
      <4>1. j \in m..k /\ h[j] = g[j]
        BY <2>5, <3>3
      <4> QED BY <2>1, <2>5, <3>1, <4>1
    <3> QED BY <3>2, <3>3
  <2>6. k + 1 \in m..n
    BY <1>2
  <2> HIDE DEF h
  <2>7. Good(k + 1, h)
    BY <2>4, <2>5
  <2> HIDE DEF Good
  <2> QED BY <2>3, <2>6, <2>7
<1>3. n \in B
  <2> HIDE DEF B
  <2>1. \A k \in m..n : k \in B /\ k + 1 <= n => k + 1 \in B
    BY <1>2
  <2>2. \A k \in m..n : k \in B
    BY <1>1, <2>1, Induction
  <2> QED BY <2>2
<1>4. PICK g \in [m..n -> V] : Good(n, g)
  <2> HIDE DEF Good
  <2> QED BY <1>3
<1>5. Recursive(g, m, n, V, base, step)
  BY <1>4 DEF Recursive
<1> QED BY <1>5

----------------------------------------------------------------------------
(* Subsequences                                                            *)

\* The numbers of a finite set up to one of them.
LEMMA Ranks ==
    ASSUME NEW N \in Nat, NEW I \in SUBSET (1..N)
    PROVE  /\ IsFiniteSet(I) /\ Cardinality(I) \in Nat
           /\ \A n \in I : Cardinality({m \in I : m <= n}) \in 1..Cardinality(I)
           /\ \A n, o \in I : n < o => Cardinality({m \in I : m <= n}) < Cardinality({m \in I : m <= o})
<1> DEFINE R(n) == {m \in I : m <= n}
<1>1. IsFiniteSet(I) /\ Cardinality(I) \in Nat
  <2>1. IsFiniteSet(1..N)
    BY FS_Interval
  <2>2. IsFiniteSet(I)
    BY <2>1, FS_Subset
  <2> QED BY <2>2, FS_CardinalityType
<1>2. \A n \in I : IsFiniteSet(R(n)) /\ Cardinality(R(n)) \in Nat /\ Cardinality(R(n)) <= Cardinality(I)
  <2> SUFFICES ASSUME NEW n \in I
               PROVE  IsFiniteSet(R(n)) /\ Cardinality(R(n)) \in Nat /\ Cardinality(R(n)) <= Cardinality(I)
    OBVIOUS
  <2>1. R(n) \in SUBSET I
    OBVIOUS
  <2> HIDE DEF R
  <2> QED BY <1>1, <2>1, FS_Subset, FS_CardinalityType
<1>3. \A n \in I : Cardinality(R(n)) # 0
  <2> SUFFICES ASSUME NEW n \in I
               PROVE  Cardinality(R(n)) # 0
    OBVIOUS
  <2>1. n \in R(n)
    OBVIOUS
  <2> HIDE DEF R
  <2> QED BY <1>2, <2>1, FS_EmptySet
<1>4. ASSUME NEW n \in I, NEW o \in I, n < o
      PROVE  Cardinality(R(n)) < Cardinality(R(o))
  <2>1. R(n) \in SUBSET R(o) /\ o \in R(o) /\ o \notin R(n)
    <3>1. \A x \in I : x \in Nat
      OBVIOUS
    <3>2. \A x \in I : x <= n => x <= o
      BY <1>4, <3>1
    <3>3. R(n) \subseteq R(o)
      BY <3>2
    <3>4. o \in R(o) /\ o \notin R(n)
      BY <1>4, <3>1
    <3> QED BY <3>3, <3>4, Zenon
  <2> HIDE DEF R
  <2>2. /\ Cardinality(R(n)) <= Cardinality(R(o))
        /\ Cardinality(R(o)) = Cardinality(R(n)) => R(o) = R(n)
    BY <1>2, <2>1, FS_Subset
  <2>3. Cardinality(R(n)) \in Nat /\ Cardinality(R(o)) \in Nat
    BY <1>2
  <2> QED BY <2>1, <2>2, <2>3
<1> QED BY <1>1, <1>2, <1>3, <1>4

\* Nth numbers the elements of I in their order.
LEMMA NthProperties ==
    ASSUME NEW N \in Nat, NEW I \in SUBSET (1..N)
    PROVE  /\ IsFiniteSet(I) /\ Cardinality(I) \in Nat
           /\ \A k \in 1..Cardinality(I) : Nth(I, k) \in I
           /\ \A j, k \in 1..Cardinality(I) : j < k => Nth(I, j) < Nth(I, k)
           /\ \A n \in I : \E k \in 1..Cardinality(I) : Nth(I, k) = n
<1> DEFINE C == Cardinality(I)
           rank == [n \in I |-> Cardinality({m \in I : m <= n})]
<1>1. /\ IsFiniteSet(I) /\ C \in Nat /\ rank \in [I -> 1..C]
      /\ \A n, o \in I : n < o => rank[n] < rank[o]
  BY Ranks
<1>2. rank \in Injection(I, 1..C)
  <2>1. \A n, o \in I : rank[n] = rank[o] => n = o
    <3> SUFFICES ASSUME NEW n \in I, NEW o \in I, n # o
                 PROVE  rank[n] # rank[o]
      OBVIOUS
    <3>1. n < o \/ o < n
      OBVIOUS
    <3>2. rank[n] \in Nat /\ rank[o] \in Nat
      BY <1>1
    <3> HIDE DEF rank
    <3> QED BY <1>1, <3>1, <3>2
  <2> HIDE DEF rank
  <2> QED BY <1>1, <2>1 DEF Injection, IsInjective
<1>3. rank \in Surjection(I, 1..C)
  <2>1. IsFiniteSet(1..C) /\ Cardinality(1..C) = C
    BY <1>1, FS_Interval
  <2> HIDE DEF rank, C
  <2>2. Cardinality(I) = Cardinality(1..C)
    BY <2>1 DEF C
  <2> QED BY <1>2, <2>1, <2>2, FS_Injection
<1>4. \A k \in 1..C : \E n \in I : rank[n] = k
  <2> HIDE DEF rank
  <2> QED BY <1>3 DEF Surjection
<1>5. \A k \in 1..C : Nth(I, k) \in I /\ rank[Nth(I, k)] = k
  <2> SUFFICES ASSUME NEW k \in 1..C
               PROVE  Nth(I, k) \in I /\ rank[Nth(I, k)] = k
    OBVIOUS
  <2>1. \E n \in I : Cardinality({m \in I : m <= n}) = k
    BY <1>4
  <2> QED BY <2>1 DEF Nth
<1>6. ASSUME NEW j \in 1..C, NEW k \in 1..C, j < k
      PROVE  Nth(I, j) < Nth(I, k)
  <2> HIDE DEF rank
  <2>1. /\ Nth(I, j) \in I /\ rank[Nth(I, j)] = j
        /\ Nth(I, k) \in I /\ rank[Nth(I, k)] = k
    BY <1>5
  <2>2. Nth(I, k) # Nth(I, j)
    BY <1>6, <2>1
  <2>3. ~(Nth(I, k) < Nth(I, j))
    <3>1. SUFFICES ASSUME Nth(I, k) < Nth(I, j)
                   PROVE  FALSE
      OBVIOUS
    <3>2. k < j
      BY <1>1, <2>1, <3>1
    <3> QED BY <1>6, <3>2
  <2>4. Nth(I, j) \in 1..N /\ Nth(I, k) \in 1..N
    BY <2>1
  <2> QED BY <2>2, <2>3, <2>4
<1>7. ASSUME NEW n \in I
      PROVE  \E k \in 1..C : Nth(I, k) = n
  <2>1. rank[n] \in 1..C
    BY <1>1
  <2>2. rank[Nth(I, rank[n])] = rank[n] /\ Nth(I, rank[n]) \in I
    <3> HIDE DEF rank
    <3> QED BY <1>5, <2>1
  <2>3. Nth(I, rank[n]) = n
    <3> HIDE DEF rank
    <3> QED BY <1>2, <2>2 DEF Injection, IsInjective
  <2> HIDE DEF rank
  <2> QED BY <2>1, <2>3
<1> QED BY <1>1, <1>5, <1>6, <1>7

\* What Pick takes from a sequence, and in which order.
LEMMA PickProperties ==
    ASSUME NEW T, NEW s \in Seq(T), NEW I \in SUBSET (1..Len(s))
    PROVE  /\ Cardinality(I) \in Nat /\ IsFiniteSet(I)
           /\ Pick(s, I) \in Seq(T) /\ Len(Pick(s, I)) = Cardinality(I)
           /\ \A k \in 1..Cardinality(I) : Nth(I, k) \in I /\ Pick(s, I)[k] = s[Nth(I, k)]
           /\ ToSet(Pick(s, I)) = {s[n] : n \in I}
<1> DEFINE C == Cardinality(I)
<1>1. Len(s) \in Nat /\ \A n \in 1..Len(s) : s[n] \in T
  BY LenProperties, ElementOfSeq
<1>2. /\ IsFiniteSet(I) /\ C \in Nat
      /\ \A k \in 1..C : Nth(I, k) \in I
      /\ \A n \in I : \E k \in 1..C : Nth(I, k) = n
  BY <1>1, NthProperties
<1> HIDE DEF C
<1>3. \A k \in 1..C : s[Nth(I, k)] \in T
  BY <1>1, <1>2
<1>4. Pick(s, I) = [k \in 1..C |-> s[Nth(I, k)]]
  BY DEF Pick, C
<1>5. Pick(s, I) \in Seq(T) /\ Len(Pick(s, I)) = C
  BY <1>2, <1>3, <1>4, IsASeq, LenProperties
<1>6. \A k \in 1..C : Pick(s, I)[k] = s[Nth(I, k)]
  BY <1>4
<1>7. DOMAIN Pick(s, I) = 1..C
  BY <1>4
<1>8. ToSet(Pick(s, I)) = {s[n] : n \in I}
  <2>1. ToSet(Pick(s, I)) = {Pick(s, I)[k] : k \in 1..C}
    BY <1>7 DEF ToSet
  <2>2. ASSUME NEW x \in ToSet(Pick(s, I)) PROVE x \in {s[n] : n \in I}
    BY <1>2, <1>6, <2>1
  <2>3. ASSUME NEW n \in I PROVE s[n] \in ToSet(Pick(s, I))
    BY <1>2, <1>6, <2>1
  <2> QED BY <2>2, <2>3
<1> QED BY <1>2, <1>5, <1>6, <1>8 DEF C

LEMMA PickOrder ==
    ASSUME NEW T, NEW s \in Seq(T), NEW I \in SUBSET (1..Len(s))
    PROVE  /\ \A j, k \in 1..Cardinality(I) : j < k => Nth(I, j) < Nth(I, k)
           /\ \A n \in I : \E k \in 1..Cardinality(I) : Nth(I, k) = n
BY LenProperties, NthProperties

----------------------------------------------------------------------------
(* The elements of a sequence                                              *)

LEMMA ToSetOfConcat ==
    ASSUME NEW T, NEW s \in Seq(T), NEW t \in Seq(T)
    PROVE  s \o t \in Seq(T) /\ ToSet(s \o t) = ToSet(s) \cup ToSet(t)
<1>1. /\ s \o t \in Seq(T) /\ Len(s) \in Nat /\ Len(t) \in Nat /\ Len(s \o t) = Len(s) + Len(t)
      /\ \A i \in 1..Len(s) : (s \o t)[i] = s[i]
      /\ \A i \in 1..Len(t) : (s \o t)[Len(s) + i] = t[i]
  <2>1. /\ s \o t \in Seq(T) /\ Len(s) \in Nat /\ Len(t) \in Nat /\ Len(s \o t) = Len(s) + Len(t)
        /\ \A i \in 1..Len(s) + Len(t) : (s \o t)[i] = IF i <= Len(s) THEN s[i] ELSE t[i - Len(s)]
    BY ConcatProperties, LenProperties
  <2>2. \A i \in 1..Len(s) : (s \o t)[i] = s[i]
    BY <2>1
  <2>3. \A i \in 1..Len(t) : (s \o t)[Len(s) + i] = t[i]
    BY <2>1
  <2> QED BY <2>1, <2>2, <2>3
<1>2. /\ ToSet(s) = {s[i] : i \in 1..Len(s)} /\ ToSet(t) = {t[i] : i \in 1..Len(t)}
      /\ ToSet(s \o t) = {(s \o t)[i] : i \in 1..(Len(s) + Len(t))}
  BY <1>1, LenProperties DEF ToSet
<1>3. ASSUME NEW i \in 1..(Len(s) + Len(t))
      PROVE  (s \o t)[i] \in ToSet(s) \cup ToSet(t)
  <2>1. i \in 1..Len(s) \/ \E j \in 1..Len(t) : i = Len(s) + j
    <3>1. i \in 1..Len(s) \/ (i - Len(s) \in 1..Len(t) /\ i = Len(s) + (i - Len(s)))
      BY <1>1
    <3> QED BY <3>1
  <2> QED BY <1>1, <1>2, <2>1
<1>4. ASSUME NEW i \in 1..Len(s)
      PROVE  s[i] \in ToSet(s \o t)
  <2>1. i \in 1..(Len(s) + Len(t))
    BY <1>1
  <2> QED BY <1>1, <1>2, <2>1
<1>5. ASSUME NEW i \in 1..Len(t)
      PROVE  t[i] \in ToSet(s \o t)
  <2>1. Len(s) + i \in 1..(Len(s) + Len(t))
    BY <1>1
  <2> QED BY <1>1, <1>2, <2>1
<1>6. ToSet(s \o t) \subseteq ToSet(s) \cup ToSet(t)
  BY <1>2, <1>3
<1>7. ToSet(s) \subseteq ToSet(s \o t)
  BY <1>2, <1>4
<1>8. ToSet(t) \subseteq ToSet(s \o t)
  BY <1>2, <1>5
<1>9. ToSet(s \o t) = ToSet(s) \cup ToSet(t)
  BY <1>6, <1>7, <1>8
<1>10. s \o t \in Seq(T)
  BY <1>1
<1> QED BY <1>9, <1>10

----------------------------------------------------------------------------
(* FlattenSeq                                                              *)

\* The sequences before the k-th one and the k-th, one after the other.
LEMMA Flattening ==
    ASSUME NEW T, NEW ss \in Seq(Seq(T)), Len(ss) # 0
    PROVE  \E f \in [1..Len(ss) -> Seq(T)] :
              /\ FlattenSeq(ss) = f[Len(ss)] /\ f[1] = ss[1]
              /\ \A k \in 1..Len(ss) : k # 1 => f[k] = f[k - 1] \o ss[k]
<1> DEFINE N == Len(ss)
           Rec(f) == f = [i \in 1..N |-> IF i = 1 THEN ss[i] ELSE f[i - 1] \o ss[i]]
           F == CHOOSE f : Rec(f)
           step == [k \in 1..N |-> [s \in Seq(T) |-> s \o ss[k]]]
<1>1. N \in Nat /\ 1 <= N /\ \A n \in 1..N : ss[n] \in Seq(T)
  BY LenProperties, ElementOfSeq
<1>2. FlattenSeq(ss) = F[N]
  BY DEF FlattenSeq
<1> HIDE DEF N
<1>3. step \in [1..N -> [Seq(T) -> Seq(T)]]
  <2>1. \A k \in 1..N : \A s \in Seq(T) : s \o ss[k] \in Seq(T)
    BY <1>1, ConcatProperties
  <2> QED BY <2>1
<1>4. ss[1] \in Seq(T)
  BY <1>1
<1>5. PICK g : Recursive(g, 1, N, Seq(T), ss[1], step)
  <2> HIDE DEF step
  <2>1. 1 \in Nat
    OBVIOUS
  <2> QED BY <1>1, <1>3, <1>4, <2>1, Recursion, Zenon
<1>6. \A k \in 1..N : k # 1 => g[k] = g[k - 1] \o ss[k]
  <2> SUFFICES ASSUME NEW k \in 1..N, k # 1
               PROVE  g[k] = g[k - 1] \o ss[k]
    OBVIOUS
  <2>1. k - 1 \in 1..N /\ g[k - 1] \in Seq(T)
    BY <1>1, <1>5 DEF Recursive
  <2> QED BY <1>5, <2>1 DEF Recursive
<1>7. Rec(g)
  <2>1. \A i \in 1..N : g[i] = IF i = 1 THEN ss[i] ELSE g[i - 1] \o ss[i]
    BY <1>5, <1>6 DEF Recursive
  <2>2. g = [i \in 1..N |-> g[i]]
    BY <1>5 DEF Recursive
  <2>3. [i \in 1..N |-> g[i]] = [i \in 1..N |-> IF i = 1 THEN ss[i] ELSE g[i - 1] \o ss[i]]
    BY <2>1, Zenon
  <2> QED BY <2>2, <2>3, Zenon
<1>8. Rec(F)
  <2> HIDE DEF Rec
  <2> QED BY <1>7
<1>9. F[1] = ss[1] /\ \A k \in 1..N : k # 1 => F[k] = F[k - 1] \o ss[k]
  <2>1. ASSUME NEW i \in 1..N
        PROVE  F[i] = IF i = 1 THEN ss[i] ELSE F[i - 1] \o ss[i]
    <3> HIDE DEF F
    <3> QED BY <1>8, Zenon
  <2> HIDE DEF F, Rec
  <2>2. 1 \in 1..N
    BY <1>1
  <2>3. F[1] = ss[1]
    BY <2>1, <2>2, Zenon
  <2> QED BY <2>1, <2>3, Zenon
<1> HIDE DEF F, Rec
<1>10. F \in [1..N -> Seq(T)]
  <2> DEFINE B == {k \in 1..N : F[k] \in Seq(T)}
  <2>1. 1 \in B
    BY <1>1, <1>9
  <2>2. ASSUME NEW k \in 1..N, k \in B, k + 1 <= N
        PROVE  k + 1 \in B
    <3>1. k + 1 \in 1..N /\ k + 1 # 1 /\ (k + 1) - 1 = k
      BY <2>2
    <3>2. F[k + 1] = F[k] \o ss[k + 1]
      BY <1>9, <3>1
    <3>3. F[k] \in Seq(T) /\ ss[k + 1] \in Seq(T)
      BY <1>1, <2>2, <3>1
    <3>4. F[k] \o ss[k + 1] \in Seq(T)
      BY <3>3, ConcatProperties
    <3> QED BY <3>1, <3>2, <3>4
  <2>3. \A k \in 1..N : k \in B
    <3> HIDE DEF B
    <3>1. \A k \in 1..N : k \in B /\ k + 1 <= N => k + 1 \in B
      BY <2>2
    <3>2. 1 \in Nat
      OBVIOUS
    <3> QED BY <1>1, <2>1, <3>1, <3>2, Induction
  <2>4. DOMAIN F = 1..N /\ F = [i \in 1..N |-> F[i]]
    BY <1>8, Zenon DEF Rec
  <2> QED BY <2>3, <2>4
<1> HIDE DEF step
<1>11. F \in [1..Len(ss) -> Seq(T)]
  BY <1>10 DEF N
<1> WITNESS F \in [1..Len(ss) -> Seq(T)]
<1> QED BY <1>2, <1>9 DEF N

\* Where the elements of FlattenSeq come from: each from one place of its own.
ComesFrom(at, ss) ==
    /\ at \in [1..Len(FlattenSeq(ss)) -> (1..Len(ss)) \X Nat]
    /\ \A i \in 1..Len(FlattenSeq(ss)) :
          /\ at[i][2] \in 1..Len(ss[at[i][1]])
          /\ FlattenSeq(ss)[i] = ss[at[i][1]][at[i][2]]
    /\ \A i, j \in 1..Len(FlattenSeq(ss)) : at[i] = at[j] => i = j

LEMMA FlattenProperties ==
    ASSUME NEW T, NEW ss \in Seq(Seq(T))
    PROVE  /\ FlattenSeq(ss) \in Seq(T)
           /\ ToSet(FlattenSeq(ss)) = UNION {ToSet(ss[n]) : n \in 1..Len(ss)}
           /\ \E at : ComesFrom(at, ss)
<1> DEFINE N == Len(ss)
           Placed(k, s, at) ==
              /\ at \in [1..Len(s) -> (1..k) \X Nat]
              /\ \A i \in 1..Len(s) : /\ at[i][2] \in 1..Len(ss[at[i][1]])
                                      /\ s[i] = ss[at[i][1]][at[i][2]]
              /\ \A i, j \in 1..Len(s) : at[i] = at[j] => i = j
<1>1. N \in Nat /\ \A n \in 1..N : ss[n] \in Seq(T) /\ Len(ss[n]) \in Nat
  BY LenProperties, ElementOfSeq
<1>2. CASE N = 0
  <2>1. ss = <<>> /\ FlattenSeq(ss) = ss
    BY <1>2, EmptySeq DEF FlattenSeq
  <2>2. <<>> \in Seq(T) /\ Len(<<>>) = 0 /\ ToSet(<<>>) = {} /\ 1..0 = {}
    BY EmptySeq DEF ToSet
  <2>3. FlattenSeq(ss) \in Seq(T) /\ ToSet(FlattenSeq(ss)) = {} /\ 1..Len(ss) = {} /\ Len(FlattenSeq(ss)) = 0
    BY <2>1, <2>2
  <2>4. [i \in 1..Len(FlattenSeq(ss)) |-> <<1, 1>>] \in [1..Len(FlattenSeq(ss)) -> (1..Len(ss)) \X Nat]
    BY <2>2, <2>3
  <2>5. ComesFrom([i \in 1..Len(FlattenSeq(ss)) |-> <<1, 1>>], ss)
    BY <2>2, <2>3, <2>4 DEF ComesFrom
  <2> QED BY <2>2, <2>3, <2>5
<1>3. CASE N # 0
  <2>1. PICK f \in [1..N -> Seq(T)] :
              /\ FlattenSeq(ss) = f[N] /\ f[1] = ss[1]
              /\ \A k \in 1..N : k # 1 => f[k] = f[k - 1] \o ss[k]
    BY <1>3, Flattening
  <2> DEFINE B == {k \in 1..N : /\ ToSet(f[k]) = UNION {ToSet(ss[n]) : n \in 1..k}
                                /\ \E at : Placed(k, f[k], at)}
  <2>2. 1 \in B
    <3>1. f[1] = ss[1] /\ 1 \in 1..N /\ ss[1] \in Seq(T) /\ Len(ss[1]) \in Nat
      BY <1>1, <1>3, <2>1
    <3>2. UNION {ToSet(ss[n]) : n \in 1..1} = ToSet(ss[1])
      OBVIOUS
    <3>3. Placed(1, f[1], [i \in 1..Len(f[1]) |-> <<1, i>>])
      <4> DEFINE at == [i \in 1..Len(f[1]) |-> <<1, i>>]
      <4>1. \A i \in 1..Len(f[1]) : i \in Nat /\ at[i] = <<1, i>> /\ at[i][1] = 1 /\ at[i][2] = i
        BY <3>1
      <4>2. at \in [1..Len(f[1]) -> (1..1) \X Nat]
        BY <4>1
      <4> HIDE DEF at
      <4> QED BY <3>1, <4>1, <4>2
    <3> HIDE DEF Placed
    <3> QED BY <3>1, <3>2, <3>3
  <2>3. ASSUME NEW k \in 1..N, k \in B, k + 1 <= N
        PROVE  k + 1 \in B
    <3> DEFINE s == f[k]
               t == ss[k + 1]
    <3>1. k + 1 \in 1..N /\ f[k + 1] = s \o t /\ s \in Seq(T) /\ t \in Seq(T)
      <4>1. k + 1 \in 1..N /\ k + 1 # 1 /\ (k + 1) - 1 = k
        BY <2>3
      <4>2. f[k + 1] = f[(k + 1) - 1] \o ss[k + 1]
        BY <2>1, <4>1
      <4> QED BY <1>1, <4>1, <4>2
    <3>2. PICK at : Placed(k, s, at)
      <4> HIDE DEF Placed
      <4> QED BY <2>3
    <3>3. ToSet(f[k + 1]) = UNION {ToSet(ss[n]) : n \in 1..(k + 1)}
      <4>1. ToSet(f[k + 1]) = (UNION {ToSet(ss[n]) : n \in 1..k}) \cup ToSet(t)
        <5>1. ToSet(s) = UNION {ToSet(ss[n]) : n \in 1..k}
          BY <2>3
        <5> HIDE DEF B, s, t
        <5> QED BY <3>1, <5>1, ToSetOfConcat
      <4>2. 1..(k + 1) = (1..k) \cup {k + 1}
        OBVIOUS
      <4> QED BY <4>1, <4>2
    <3> DEFINE new == [i \in 1..(Len(s) + Len(t)) |->
                          IF i <= Len(s) THEN at[i] ELSE <<k + 1, i - Len(s)>>]
    <3>4. /\ Len(s) \in Nat /\ Len(t) \in Nat /\ Len(s \o t) = Len(s) + Len(t)
          /\ \A i \in 1..(Len(s) + Len(t)) : (s \o t)[i] = IF i <= Len(s) THEN s[i] ELSE t[i - Len(s)]
      <4> HIDE DEF s, t
      <4> QED BY <3>1, ConcatProperties, LenProperties
    <3> HIDE DEF s
    <3>5. \A i \in 1..Len(s) : /\ at[i] \in (1..k) \X Nat /\ at[i][2] \in 1..Len(ss[at[i][1]])
                               /\ s[i] = ss[at[i][1]][at[i][2]]
      BY <3>2
    <3>6. \A i, j \in 1..Len(s) : at[i] = at[j] => i = j
      BY <3>2
    <3>7. ASSUME NEW i \in 1..(Len(s) + Len(t))
          PROVE  /\ new[i] \in (1..(k + 1)) \X Nat
                 /\ new[i][2] \in 1..Len(ss[new[i][1]])
                 /\ (s \o t)[i] = ss[new[i][1]][new[i][2]]
      <4>1. CASE i <= Len(s)
        <5>1. i \in 1..Len(s) /\ new[i] = at[i] /\ (s \o t)[i] = s[i]
          BY <3>4, <4>1
        <5>2. \A p \in (1..k) \X Nat : p \in (1..(k + 1)) \X Nat
          OBVIOUS
        <5> HIDE DEF new
        <5> QED BY <3>5, <5>1, <5>2
      <4>2. CASE ~(i <= Len(s))
        <5>1. new[i] = <<k + 1, i - Len(s)>> /\ (s \o t)[i] = t[i - Len(s)] /\ i - Len(s) \in 1..Len(t)
          BY <3>4, <4>2
        <5>2. new[i][1] = k + 1 /\ new[i][2] = i - Len(s)
          BY <5>1
        <5>3. new[i] \in (1..(k + 1)) \X Nat
          BY <5>1
        <5> HIDE DEF new
        <5> QED BY <5>1, <5>2, <5>3
      <4> QED BY <4>1, <4>2
    <3>8. ASSUME NEW i \in 1..(Len(s) + Len(t)), NEW j \in 1..(Len(s) + Len(t)), new[i] = new[j]
          PROVE  i = j
      <4> DEFINE early(l) == l <= Len(s)
      <4>1. \A l \in 1..(Len(s) + Len(t)) :
               IF l <= Len(s) THEN /\ l \in 1..Len(s) /\ new[l] = at[l] /\ new[l][1] \in 1..k
                    ELSE new[l][1] = k + 1 /\ new[l][2] = l - Len(s)
        <5> SUFFICES ASSUME NEW l \in 1..(Len(s) + Len(t))
                     PROVE  IF l <= Len(s) THEN /\ l \in 1..Len(s) /\ new[l] = at[l] /\ new[l][1] \in 1..k
                            ELSE new[l][1] = k + 1 /\ new[l][2] = l - Len(s)
          OBVIOUS
        <5>1. CASE l <= Len(s)
          <6>1. l \in 1..Len(s) /\ new[l] = at[l]
            BY <3>4, <5>1
          <6>2. at[l] \in (1..k) \X Nat
            BY <3>5, <6>1
          <6>3. at[l][1] \in 1..k
            BY <6>2
          <6> HIDE DEF new
          <6> QED BY <5>1, <6>1, <6>3
        <5>2. CASE ~(l <= Len(s))
          BY <3>4, <5>2
        <5> QED BY <5>1, <5>2
      <4> HIDE DEF new
      <4>2. CASE i <= Len(s) /\ j <= Len(s)
        BY <3>6, <3>8, <4>1, <4>2
      <4>3. CASE ~(i <= Len(s)) /\ ~(j <= Len(s))
        <5>1. i - Len(s) = j - Len(s)
          BY <3>8, <4>1, <4>3
        <5> QED BY <3>4, <5>1
      <4>4. CASE (i <= Len(s)) # (j <= Len(s))
        <5>1. \A l \in 1..k : l # k + 1
          OBVIOUS
        <5>2. new[i][1] = new[j][1]
          BY <3>8
        <5>3. CASE i <= Len(s)
          <6>1. new[i][1] \in 1..k /\ new[j][1] = k + 1
            BY <4>1, <4>4, <5>3
          <6> QED BY <5>1, <5>2, <6>1
        <5>4. CASE ~(i <= Len(s))
          <6>1. new[j][1] \in 1..k /\ new[i][1] = k + 1
            BY <4>1, <4>4, <5>4
          <6> QED BY <5>1, <5>2, <6>1
        <5> QED BY <5>3, <5>4
      <4> QED BY <4>2, <4>3, <4>4
    <3>9. Placed(k + 1, f[k + 1], new)
      <4>1. Len(f[k + 1]) = Len(s) + Len(t)
        BY <3>1, <3>4 DEF s
      <4>2. new \in [1..(Len(s) + Len(t)) -> (1..(k + 1)) \X Nat]
        BY <3>7
      <4>3. f[k + 1] = s \o t
        BY <3>1 DEF s
      <4> HIDE DEF new, t
      <4> QED BY <3>7, <3>8, <4>1, <4>2, <4>3
    <3> HIDE DEF Placed, new
    <3> QED BY <3>1, <3>3, <3>9
  <2>4. N \in B
    <3> HIDE DEF B
    <3>1. \A k \in 1..N : k \in B /\ k + 1 <= N => k + 1 \in B
      BY <2>3
    <3>2. 1 \in Nat
      OBVIOUS
    <3>3. \A k \in 1..N : k \in B
      BY <1>1, <2>2, <3>1, <3>2, Induction
    <3> QED BY <1>1, <1>3, <3>3
  <2>5. PICK at : Placed(N, f[N], at)
    <3> HIDE DEF Placed
    <3> QED BY <2>4
  <2>6. FlattenSeq(ss) \in Seq(T) /\ FlattenSeq(ss) = f[N]
    BY <1>1, <1>3, <2>1
  <2>7. ToSet(FlattenSeq(ss)) = UNION {ToSet(ss[n]) : n \in 1..N}
    BY <2>4, <2>6
  <2> HIDE DEF B
  <2>8. \E e : Placed(Len(ss), FlattenSeq(ss), e)
    <3> HIDE DEF Placed
    <3> QED BY <2>5, <2>6, Zenon DEF N
  <2>9. \A e : Placed(Len(ss), FlattenSeq(ss), e) => ComesFrom(e, ss)
    BY Zenon DEF ComesFrom
  <2> HIDE DEF Placed
  <2> QED BY <2>6, <2>7, <2>8, <2>9, Zenon DEF N
<1> QED BY <1>2, <1>3

----------------------------------------------------------------------------
(* Sequences of anything                                                   *)

IsSeq(s) == s \in Seq(ToSet(s))

LEMMA SeqFacts ==
    ASSUME NEW s, IsSeq(s)
    PROVE  /\ Len(s) \in Nat /\ DOMAIN s = 1..Len(s) /\ s = [i \in 1..Len(s) |-> s[i]]
           /\ ToSet(s) = {s[i] : i \in 1..Len(s)}
           /\ \A i \in 1..Len(s) : s[i] \in ToSet(s)
<1>1. s \in Seq(ToSet(s))
  BY DEF IsSeq
<1>2. Len(s) \in Nat /\ DOMAIN s = 1..Len(s) /\ s \in [1..Len(s) -> ToSet(s)]
  BY <1>1, LenProperties
<1>3. ToSet(s) = {s[i] : i \in 1..Len(s)}
  BY <1>2 DEF ToSet
<1> QED BY <1>2, <1>3

LEMMA IsSeqOf ==
    ASSUME NEW T, NEW s \in Seq(T)
    PROVE  IsSeq(s) /\ ToSet(s) \subseteq T
<1>1. Len(s) \in Nat /\ s \in [1..Len(s) -> T] /\ DOMAIN s = 1..Len(s)
  BY LenProperties
<1>2. ToSet(s) = {s[i] : i \in 1..Len(s)}
  BY <1>1 DEF ToSet
<1>3. s \in [1..Len(s) -> ToSet(s)]
  BY <1>1, <1>2
<1>4. s \in Seq(ToSet(s))
  BY <1>1, <1>3, SeqDef
<1> QED BY <1>1, <1>2, <1>4 DEF IsSeq

LEMMA SeqOver ==
    ASSUME NEW s, IsSeq(s), NEW T, ToSet(s) \subseteq T
    PROVE  s \in Seq(T)
<1>1. s \in Seq(ToSet(s))
  BY DEF IsSeq
<1> QED BY <1>1, SeqMonotonic

LEMMA FunctionIsSeq ==
    ASSUME NEW n \in Nat, NEW s, s = [i \in 1..n |-> s[i]]
    PROVE  IsSeq(s) /\ Len(s) = n /\ DOMAIN s = 1..n
<1> DEFINE T == ToSet(s)
<1>1. DOMAIN s = 1..n
  OBVIOUS
<1>2. T = {s[i] : i \in 1..n}
  BY <1>1 DEF ToSet
<1> HIDE DEF T
<1>3. s \in [1..n -> T]
  BY <1>2
<1>4. s \in Seq(T)
  BY <1>3, SeqDef
<1> QED BY <1>1, <1>4, LenProperties DEF T, IsSeq

LEMMA ConcatFacts ==
    ASSUME NEW s, IsSeq(s), NEW t, IsSeq(t)
    PROVE  /\ IsSeq(s \o t) /\ ToSet(s \o t) = ToSet(s) \cup ToSet(t)
           /\ Len(s \o t) = Len(s) + Len(t)
           /\ \A i \in 1..Len(s \o t) : (s \o t)[i] = IF i <= Len(s) THEN s[i] ELSE t[i - Len(s)]
<1> DEFINE T == ToSet(s) \cup ToSet(t)
<1>1. ToSet(s) \subseteq T /\ ToSet(t) \subseteq T
  OBVIOUS
<1> HIDE DEF T
<1>2. s \in Seq(T) /\ t \in Seq(T)
  BY <1>1, SeqOver
<1>3. s \o t \in Seq(T) /\ ToSet(s \o t) = ToSet(s) \cup ToSet(t)
  BY <1>2, ToSetOfConcat
<1>4. IsSeq(s \o t)
  BY <1>3, IsSeqOf
<1> QED BY <1>2, <1>3, <1>4, ConcatProperties

LEMMA EmptyFacts == IsSeq(<<>>) /\ ToSet(<<>>) = {} /\ Len(<<>>) = 0
<1> DEFINE T == {}
           z == <<>>
<1>1. z \in Seq(T) /\ Len(z) = 0
  BY EmptySeq
<1> HIDE DEF T, z
<1>2. ToSet(z) \subseteq T /\ IsSeq(z)
  BY <1>1, IsSeqOf
<1> QED BY <1>1, <1>2 DEF T, z

LEMMA SingletonFacts ==
    ASSUME NEW x
    PROVE  IsSeq(<<x>>) /\ ToSet(<<x>>) = {x} /\ Len(<<x>>) = 1 /\ <<x>>[1] = x
<1>1. <<x>> \in Seq({x}) /\ Len(<<x>>) = 1 /\ <<x>>[1] = x
  OBVIOUS
<1>2. IsSeq(<<x>>)
  BY <1>1, IsSeqOf
<1>3. ToSet(<<x>>) = {<<x>>[i] : i \in 1..1}
  BY <1>1, <1>2, SeqFacts
<1> QED BY <1>1, <1>2, <1>3

LEMMA NonemptyFacts ==
    ASSUME NEW s, IsSeq(s)
    PROVE  /\ s = <<>> <=> Len(s) = 0
           /\ s = <<>> <=> ToSet(s) = {}
<1>1. s \in Seq(ToSet(s))
  BY DEF IsSeq
<1>2. s = <<>> <=> Len(s) = 0
  BY <1>1, EmptySeq
<1>3. ToSet(s) = {s[i] : i \in 1..Len(s)} /\ Len(s) \in Nat
  BY SeqFacts
<1>4. Len(s) # 0 => 1 \in 1..Len(s)
  BY <1>3
<1>5. Len(s) = 0 => 1..Len(s) = {}
  OBVIOUS
<1> QED BY <1>2, <1>3, <1>4, <1>5

LEMMA PickFacts ==
    ASSUME NEW s, IsSeq(s), NEW I, I \subseteq 1..Len(s)
    PROVE  /\ IsSeq(Pick(s, I)) /\ ToSet(Pick(s, I)) = {s[n] : n \in I}
           /\ Len(Pick(s, I)) = Cardinality(I) /\ Cardinality(I) \in Nat
           /\ \A k \in 1..Cardinality(I) : Nth(I, k) \in I /\ Pick(s, I)[k] = s[Nth(I, k)]
           /\ \A j, k \in 1..Cardinality(I) : j < k => Nth(I, j) < Nth(I, k)
           /\ \A n \in I : \E k \in 1..Cardinality(I) : Nth(I, k) = n
<1> DEFINE T == ToSet(s)
<1>1. s \in Seq(T) /\ I \in SUBSET (1..Len(s))
  BY DEF IsSeq
<1> HIDE DEF T
<1>2. /\ Cardinality(I) \in Nat
      /\ Pick(s, I) \in Seq(T) /\ Len(Pick(s, I)) = Cardinality(I)
      /\ \A k \in 1..Cardinality(I) : Nth(I, k) \in I /\ Pick(s, I)[k] = s[Nth(I, k)]
      /\ ToSet(Pick(s, I)) = {s[n] : n \in I}
  BY <1>1, PickProperties
<1>3. IsSeq(Pick(s, I))
  BY <1>2, IsSeqOf
<1> QED BY <1>1, <1>2, <1>3, PickOrder

LEMMA FlattenFacts ==
    ASSUME NEW ss, IsSeq(ss), \A n \in 1..Len(ss) : IsSeq(ss[n])
    PROVE  /\ IsSeq(FlattenSeq(ss))
           /\ ToSet(FlattenSeq(ss)) = UNION {ToSet(ss[n]) : n \in 1..Len(ss)}
           /\ \E at : ComesFrom(at, ss)
<1> DEFINE T == UNION {ToSet(ss[n]) : n \in 1..Len(ss)}
<1>1. \A n \in 1..Len(ss) : ToSet(ss[n]) \subseteq T
  OBVIOUS
<1> HIDE DEF T
<1>2. \A n \in 1..Len(ss) : ss[n] \in Seq(T)
  BY <1>1, SeqOver
<1>3. ss = [i \in 1..Len(ss) |-> ss[i]] /\ Len(ss) \in Nat
  BY SeqFacts
<1>4. ss \in [1..Len(ss) -> Seq(T)]
  BY <1>2, <1>3
<1>5. ss \in Seq(Seq(T))
  BY <1>3, <1>4, SeqDef
<1>6. FlattenSeq(ss) \in Seq(T) /\ ToSet(FlattenSeq(ss)) = T /\ \E at : ComesFrom(at, ss)
  BY <1>5, FlattenProperties DEF T
<1>7. IsSeq(FlattenSeq(ss))
  BY <1>6, IsSeqOf
<1> QED BY <1>6, <1>7 DEF T

----------------------------------------------------------------------------
(* Subsequences of subsequences                                            *)

\* t lists the elements of s at the indices in I, in their order; e says where.
Lists(e, t, s, I) ==
    /\ e \in [1..Len(t) -> 1..Len(s)]
    /\ \A j, k \in 1..Len(t) : j < k => e[j] < e[k]
    /\ \A k \in 1..Len(t) : t[k] = s[e[k]] /\ e[k] \in I
    /\ \A n \in I : \E k \in 1..Len(t) : e[k] = n

Restricts(t, s, I) == IsSeq(t) /\ I \subseteq 1..Len(s) /\ \E e : Lists(e, t, s, I)

\* Pick of all indices.
LEMMA RestrictsAll ==
    ASSUME NEW s, IsSeq(s)
    PROVE  Restricts(s, s, 1..Len(s))
<1> DEFINE e == [k \in 1..Len(s) |-> k]
<1>1. Lists(e, s, s, 1..Len(s))
  BY SeqFacts DEF Lists
<1> HIDE DEF e
<1> QED BY <1>1 DEF Restricts

LEMMA RestrictsPick ==
    ASSUME NEW s, IsSeq(s), NEW t, IsSeq(t), NEW e, NEW I, Lists(e, t, s, I),
           NEW J, J \subseteq 1..Len(t), NEW K, K = {e[k] : k \in J}
    PROVE  Restricts(Pick(t, J), s, K)
<1> DEFINE u == Pick(t, J)
           d == [k \in 1..Len(u) |-> e[Nth(J, k)]]
<1>1. /\ IsSeq(u) /\ Len(u) \in Nat
      /\ \A k \in 1..Len(u) : Nth(J, k) \in J /\ u[k] = t[Nth(J, k)]
      /\ \A j, k \in 1..Len(u) : j < k => Nth(J, j) < Nth(J, k)
      /\ \A n \in J : \E k \in 1..Len(u) : Nth(J, k) = n
  <2> DEFINE C == Cardinality(J)
  <2>1. /\ IsSeq(u) /\ C \in Nat /\ Len(u) = C
        /\ \A k \in 1..C : Nth(J, k) \in J /\ u[k] = t[Nth(J, k)]
        /\ \A j, k \in 1..C : j < k => Nth(J, j) < Nth(J, k)
        /\ \A n \in J : \E k \in 1..C : Nth(J, k) = n
    <3>1. IsSeq(u)
      BY PickFacts
    <3>2. C \in Nat /\ Len(u) = C
      BY PickFacts
    <3>3. \A k \in 1..C : Nth(J, k) \in J /\ u[k] = t[Nth(J, k)]
      <4> SUFFICES ASSUME NEW k \in 1..C
                   PROVE  Nth(J, k) \in J /\ u[k] = t[Nth(J, k)]
        OBVIOUS
      <4>1. Nth(J, k) \in J
        BY PickFacts
      <4>2. u[k] = t[Nth(J, k)]
        BY DEF Pick
      <4> QED BY <4>1, <4>2
    <3>4. \A j, k \in 1..C : j < k => Nth(J, j) < Nth(J, k)
      BY PickFacts
    <3>5. \A n \in J : \E k \in 1..C : Nth(J, k) = n
      BY PickFacts
    <3> QED BY <3>1, <3>2, <3>3, <3>4, <3>5
  <2> HIDE DEF u, C
  <2> QED BY <2>1
<1>2. /\ Len(s) \in Nat /\ Len(t) \in Nat
      /\ \A k \in J : k \in 1..Len(t) /\ e[k] \in 1..Len(s) /\ t[k] = s[e[k]]
      /\ \A j, k \in J : j < k => e[j] < e[k]
  BY SeqFacts DEF Lists
<1> HIDE DEF u
<1>3. \A k \in 1..Len(u) : d[k] = e[Nth(J, k)] /\ Nth(J, k) \in J
  BY <1>1
<1>4. d \in [1..Len(u) -> 1..Len(s)]
  BY <1>1, <1>2
<1> HIDE DEF d
<1>5. ASSUME NEW j \in 1..Len(u), NEW k \in 1..Len(u), j < k
      PROVE  d[j] < d[k]
  BY <1>1, <1>2, <1>3, <1>5
<1>6. \A k \in 1..Len(u) : u[k] = s[d[k]] /\ d[k] \in K
  BY <1>1, <1>2, <1>3
<1>7. ASSUME NEW n \in K
      PROVE  \E k \in 1..Len(u) : d[k] = n
  BY <1>1, <1>3
<1>8. K \subseteq 1..Len(s)
  BY <1>2
<1>9. Lists(d, u, s, K)
  BY <1>4, <1>5, <1>6, <1>7 DEF Lists
<1>10. Restricts(u, s, K)
  BY <1>1, <1>8, <1>9 DEF Restricts
<1> QED BY <1>10 DEF u

\* The elements with a property, here the ones in X, of a subsequence.
LEMMA RestrictsFilter ==
    ASSUME NEW s, IsSeq(s), NEW t, NEW I, Restricts(t, s, I),
           NEW X, NEW J, J = {k \in 1..Len(t) : t[k] \in X},
           NEW K, K = {i \in I : s[i] \in X}
    PROVE  Restricts(Pick(t, J), s, K)
<1>1. IsSeq(t)
  BY DEF Restricts
<1>2. PICK e : Lists(e, t, s, I)
  BY DEF Restricts
<1>3. {e[k] : k \in J} = {i \in I : s[i] \in X}
  <2>1. ASSUME NEW k \in J PROVE e[k] \in {i \in I : s[i] \in X}
    BY <1>2 DEF Lists
  <2>2. ASSUME NEW i \in I, s[i] \in X PROVE i \in {e[k] : k \in J}
    <3>1. PICK k \in 1..Len(t) : e[k] = i
      BY <1>2 DEF Lists
    <3>2. k \in J
      BY <1>2, <2>2, <3>1 DEF Lists
    <3> QED BY <3>1, <3>2
  <2> QED BY <2>1, <2>2
<1>4. J \subseteq 1..Len(t)
  OBVIOUS
<1>5. K = {e[k] : k \in J}
  BY <1>3
<1> QED BY <1>1, <1>2, <1>4, <1>5, RestrictsPick

LEMMA RestrictsFacts ==
    ASSUME NEW s, IsSeq(s), NEW t, NEW I, Restricts(t, s, I)
    PROVE  /\ IsSeq(t) /\ ToSet(t) = {s[i] : i \in I} /\ ToSet(t) \subseteq ToSet(s)
           /\ t = <<>> <=> I = {}
<1>1. IsSeq(t) /\ I \subseteq 1..Len(s)
  BY DEF Restricts
<1>2. PICK e : Lists(e, t, s, I)
  BY DEF Restricts
<1>3. ToSet(t) = {t[k] : k \in 1..Len(t)} /\ ToSet(s) = {s[i] : i \in 1..Len(s)}
  BY <1>1, SeqFacts
<1>4. ToSet(t) = {s[i] : i \in I}
  <2>1. ASSUME NEW k \in 1..Len(t) PROVE t[k] \in {s[i] : i \in I}
    BY <1>2 DEF Lists
  <2>2. ASSUME NEW i \in I PROVE s[i] \in {t[k] : k \in 1..Len(t)}
    BY <1>2 DEF Lists
  <2> QED BY <1>3, <2>1, <2>2
<1>5. ToSet(t) \subseteq ToSet(s)
  BY <1>1, <1>3, <1>4
<1>6. t = <<>> <=> ToSet(t) = {}
  BY <1>1, NonemptyFacts
<1> QED BY <1>1, <1>4, <1>5, <1>6

----------------------------------------------------------------------------
(* What occurs once, and what occurs before what                           *)

Once(s, X) == \A i, j \in 1..Len(s) : s[i] \in X /\ s[j] \in X => i = j
Precedes(s, Y, X) == \A i, j \in 1..Len(s) : s[i] \in X /\ s[j] \in Y => j < i

LEMMA OnceConcat ==
    ASSUME NEW s, IsSeq(s), NEW t, IsSeq(t), NEW X, Once(s, X), Once(t, X),
           ToSet(s) \cap X = {} \/ ToSet(t) \cap X = {}
    PROVE  Once(s \o t, X)
<1> SUFFICES ASSUME NEW i \in 1..Len(s \o t), NEW j \in 1..Len(s \o t),
                    (s \o t)[i] \in X, (s \o t)[j] \in X
             PROVE  i = j
  BY DEF Once
<1>1. /\ Len(s) \in Nat /\ Len(t) \in Nat /\ Len(s \o t) = Len(s) + Len(t)
      /\ \A k \in 1..Len(s) : s[k] \in ToSet(s)
      /\ \A k \in 1..Len(t) : t[k] \in ToSet(t)
  BY SeqFacts, ConcatFacts
<1>2. ASSUME NEW k \in 1..Len(s \o t)
      PROVE  IF k <= Len(s) THEN k \in 1..Len(s) /\ (s \o t)[k] = s[k]
             ELSE k - Len(s) \in 1..Len(t) /\ (s \o t)[k] = t[k - Len(s)]
  BY <1>1, ConcatFacts
<1>3. CASE i <= Len(s) /\ j <= Len(s)
  BY <1>2, <1>3 DEF Once
<1>4. CASE ~(i <= Len(s)) /\ ~(j <= Len(s))
  <2>1. i - Len(s) = j - Len(s)
    BY <1>2, <1>4 DEF Once
  <2> QED BY <1>1, <2>1
<1>5. CASE (i <= Len(s)) # (j <= Len(s))
  <2>1. \E x \in ToSet(s) : x \in X
    BY <1>1, <1>2, <1>5
  <2>2. \E x \in ToSet(t) : x \in X
    BY <1>1, <1>2, <1>5
  <2> QED BY <2>1, <2>2
<1> QED BY <1>3, <1>4, <1>5

LEMMA PrecedesConcat ==
    ASSUME NEW s, IsSeq(s), NEW t, IsSeq(t), NEW X, NEW Y, Precedes(s, Y, X), Precedes(t, Y, X),
           ToSet(s) \cap X = {} \/ ToSet(t) \cap Y = {}
    PROVE  Precedes(s \o t, Y, X)
<1> SUFFICES ASSUME NEW i \in 1..Len(s \o t), NEW j \in 1..Len(s \o t),
                    (s \o t)[i] \in X, (s \o t)[j] \in Y
             PROVE  j < i
  BY DEF Precedes
<1>1. /\ Len(s) \in Nat /\ Len(t) \in Nat /\ Len(s \o t) = Len(s) + Len(t)
      /\ \A k \in 1..Len(s) : s[k] \in ToSet(s)
      /\ \A k \in 1..Len(t) : t[k] \in ToSet(t)
  BY SeqFacts, ConcatFacts
<1>2. ASSUME NEW k \in 1..Len(s \o t)
      PROVE  IF k <= Len(s) THEN k \in 1..Len(s) /\ (s \o t)[k] = s[k]
             ELSE k - Len(s) \in 1..Len(t) /\ (s \o t)[k] = t[k - Len(s)]
  BY <1>1, ConcatFacts
<1>3. CASE i <= Len(s) /\ j <= Len(s)
  BY <1>2, <1>3 DEF Precedes
<1>4. CASE ~(i <= Len(s)) /\ ~(j <= Len(s))
  <2>1. j - Len(s) < i - Len(s)
    BY <1>2, <1>4 DEF Precedes
  <2> QED BY <1>1, <2>1
<1>5. CASE ~(i <= Len(s)) /\ j <= Len(s)
  BY <1>1, <1>5
<1>6. CASE i <= Len(s) /\ ~(j <= Len(s))
  <2>1. \E x \in ToSet(s) : x \in X
    BY <1>1, <1>2, <1>6
  <2>2. \E x \in ToSet(t) : x \in Y
    BY <1>1, <1>2, <1>6
  <2> QED BY <2>1, <2>2
<1> QED BY <1>3, <1>4, <1>5, <1>6

LEMMA WithoutIt ==
    ASSUME NEW s, IsSeq(s), NEW X
    PROVE  /\ ToSet(s) \cap X = {} => Once(s, X)
           /\ \A Y : ToSet(s) \cap X = {} \/ ToSet(s) \cap Y = {} => Precedes(s, Y, X)
BY SeqFacts DEF Once, Precedes

LEMMA OnceRestricts ==
    ASSUME NEW s, IsSeq(s), NEW t, NEW I, Restricts(t, s, I), NEW X
    PROVE  /\ Once(s, X) => Once(t, X)
           /\ \A Y : Precedes(s, Y, X) => Precedes(t, Y, X)
<1>1. PICK e : Lists(e, t, s, I)
  BY DEF Restricts
<1>2. /\ Len(t) \in Nat /\ Len(s) \in Nat
      /\ \A k \in 1..Len(t) : e[k] \in 1..Len(s) /\ t[k] = s[e[k]]
      /\ \A j, k \in 1..Len(t) : j < k => e[j] < e[k]
  BY <1>1, SeqFacts DEF Lists, Restricts
<1>3. ASSUME Once(s, X), NEW i \in 1..Len(t), NEW j \in 1..Len(t), t[i] \in X, t[j] \in X
      PROVE  i = j
  <2>1. e[i] = e[j]
    BY <1>2, <1>3 DEF Once
  <2>2. e[i] \in Nat /\ ~(i < j) /\ ~(j < i)
    BY <1>2, <2>1
  <2> QED BY <2>2
<1>4. ASSUME NEW Y, Precedes(s, Y, X), NEW i \in 1..Len(t), NEW j \in 1..Len(t), t[i] \in X, t[j] \in Y
      PROVE  j < i
  <2>1. e[j] < e[i] /\ e[i] \in Nat /\ e[j] \in Nat
    BY <1>2, <1>4 DEF Precedes
  <2>2. i # j /\ ~(i < j)
    BY <1>2, <2>1
  <2> QED BY <2>2
<1>5. Once(s, X) => Once(t, X)
  BY <1>3 DEF Once
<1>6. ASSUME NEW Y, Precedes(s, Y, X)
      PROVE  Precedes(t, Y, X)
  BY <1>4, <1>6 DEF Precedes
<1> QED BY <1>5, <1>6

LEMMA OnceFlatten ==
    ASSUME NEW ss, IsSeq(ss), \A n \in 1..Len(ss) : IsSeq(ss[n]), NEW X,
           \A n \in 1..Len(ss) : Once(ss[n], X),
           \A m, n \in 1..Len(ss) : ToSet(ss[m]) \cap X # {} /\ ToSet(ss[n]) \cap X # {} => m = n
    PROVE  Once(FlattenSeq(ss), X)
<1> DEFINE f == FlattenSeq(ss)
<1>1. PICK at : ComesFrom(at, ss)
  BY FlattenFacts
<1>2. \A i \in 1..Len(f) : /\ at[i] \in (1..Len(ss)) \X Nat
                           /\ at[i][2] \in 1..Len(ss[at[i][1]])
                           /\ f[i] = ss[at[i][1]][at[i][2]]
  BY <1>1 DEF ComesFrom
<1>3. \A i, j \in 1..Len(f) : at[i] = at[j] => i = j
  BY <1>1 DEF ComesFrom
<1> HIDE DEF f
<1> SUFFICES ASSUME NEW i \in 1..Len(f), NEW j \in 1..Len(f), f[i] \in X, f[j] \in X
             PROVE  i = j
  BY DEF Once, f
<1>4. ASSUME NEW k \in 1..Len(f), f[k] \in X
      PROVE  /\ at[k] = <<at[k][1], at[k][2]>> /\ at[k][1] \in 1..Len(ss)
             /\ at[k][2] \in 1..Len(ss[at[k][1]]) /\ ss[at[k][1]][at[k][2]] \in X
             /\ ToSet(ss[at[k][1]]) \cap X # {}
  <2>1. at[k] = <<at[k][1], at[k][2]>> /\ at[k][1] \in 1..Len(ss)
    BY <1>2
  <2>2. at[k][2] \in 1..Len(ss[at[k][1]]) /\ ss[at[k][1]][at[k][2]] \in X
    BY <1>2, <1>4
  <2>3. ss[at[k][1]][at[k][2]] \in ToSet(ss[at[k][1]])
    BY <2>1, <2>2, SeqFacts
  <2> QED BY <2>1, <2>2, <2>3
<1>5. at[i][1] = at[j][1]
  BY <1>4
<1>6. at[i][2] = at[j][2]
  BY <1>4, <1>5 DEF Once
<1>7. at[i] = at[j]
  BY <1>4, <1>5, <1>6
<1> QED BY <1>3, <1>7

LEMMA PairFacts ==
    ASSUME NEW x, NEW y
    PROVE  /\ IsSeq(<<x, y>>) /\ ToSet(<<x, y>>) = {x, y} /\ Len(<<x, y>>) = 2
           /\ <<x, y>>[1] = x /\ <<x, y>>[2] = y
<1>1. <<x, y>> \in Seq({x, y}) /\ Len(<<x, y>>) = 2 /\ <<x, y>>[1] = x /\ <<x, y>>[2] = y
  OBVIOUS
<1>2. IsSeq(<<x, y>>)
  BY <1>1, IsSeqOf
<1>3. ToSet(<<x, y>>) = {<<x, y>>[i] : i \in 1..2}
  BY <1>1, <1>2, SeqFacts
<1>4. 1..2 = {1, 2}
  OBVIOUS
<1> QED BY <1>1, <1>2, <1>3, <1>4

LEMMA PickRestricts ==
    ASSUME NEW s, IsSeq(s), NEW I, I \subseteq 1..Len(s)
    PROVE  Restricts(Pick(s, I), s, I)
<1> DEFINE e == [k \in 1..Len(s) |-> k]
<1>1. Lists(e, s, s, 1..Len(s))
  BY SeqFacts DEF Lists
<1>2. \A k \in I : e[k] = k
  OBVIOUS
<1> HIDE DEF e
<1>3. I = {e[k] : k \in I}
  BY <1>2
<1> QED BY <1>1, <1>3, RestrictsPick

\* A sequence of one element of s.
LEMMA RestrictsOne ==
    ASSUME NEW s, IsSeq(s), NEW i \in 1..Len(s)
    PROVE  Restricts(<<s[i]>>, s, {i})
<1> DEFINE t == <<s[i]>>
           e == [k \in 1..Len(t) |-> i]
<1>1. IsSeq(t) /\ Len(t) = 1 /\ t[1] = s[i]
  BY SingletonFacts
<1> HIDE DEF t
<1>2. \A k \in 1..Len(t) : k = 1 /\ e[k] = i
  BY <1>1
<1>3. e \in [1..Len(t) -> 1..Len(s)] /\ 1 \in 1..Len(t)
  BY <1>1
<1> HIDE DEF e
<1>4. Lists(e, t, s, {i})
  BY <1>1, <1>2, <1>3 DEF Lists
<1>5. Restricts(t, s, {i})
  BY <1>1, <1>4 DEF Restricts
<1> QED BY <1>5 DEF t

LEMMA OneMore ==
    ASSUME NEW s, IsSeq(s), NEW x
    PROVE  /\ IsSeq(s \o <<x>>) /\ ToSet(s \o <<x>>) = ToSet(s) \cup {x}
           /\ IsSeq(<<x>> \o s) /\ ToSet(<<x>> \o s) = ToSet(s) \cup {x}
<1> DEFINE o == <<x>>
<1>1. IsSeq(o) /\ ToSet(o) = {x}
  BY SingletonFacts
<1> HIDE DEF o
<1>2. /\ IsSeq(s \o o) /\ ToSet(s \o o) = ToSet(s) \cup {x}
      /\ IsSeq(o \o s) /\ ToSet(o \o s) = ToSet(s) \cup {x}
  BY <1>1, ConcatFacts
<1> QED BY <1>2 DEF o

LEMMA ElementAt ==
    ASSUME NEW s, IsSeq(s), NEW x \in ToSet(s)
    PROVE  \E i \in 1..Len(s) : s[i] = x
BY SeqFacts

----------------------------------------------------------------------------
(* Counting                                                                *)

LEMMA CountImage ==
    ASSUME NEW S, IsFiniteSet(S), NEW f, \A x, y \in S : f[x] = f[y] => x = y,
           NEW T, T = {f[x] : x \in S}
    PROVE  IsFiniteSet(T) /\ Cardinality(T) = Cardinality(S)
<1> DEFINE g == [x \in S |-> f[x]]
<1>1. g \in [S -> T] /\ DOMAIN g = S /\ \A x \in S : g[x] = f[x]
  OBVIOUS
<1>2. \A t \in T : \E x \in S : f[x] = t
  OBVIOUS
<1> HIDE DEF g
<1>3. g \in Injection(S, T)
  BY <1>1 DEF Injection, IsInjective
<1>4. g \in Surjection(S, T)
  BY <1>1, <1>2 DEF Surjection
<1>5. ExistsBijection(S, T)
  BY <1>3, <1>4 DEF ExistsBijection, Bijection
<1> QED BY <1>5, FS_Bijection

LEMMA CountUpTo ==
    ASSUME NEW n \in Nat
    PROVE  IsFiniteSet(1..n) /\ Cardinality(1..n) = n
<1>1. 1 \in Int /\ n \in Int /\ (1 > n => n = 0) /\ n - 1 + 1 = n
  OBVIOUS
<1>2. IsFiniteSet(1..n) /\ Cardinality(1..n) = IF 1 > n THEN 0 ELSE n - 1 + 1
  BY <1>1, FS_Interval
<1> QED BY <1>1, <1>2

\* f numbers the elements of T from 1 to n.
Numbers(f, n, T) == T = {f[x] : x \in 1..n} /\ \A x, y \in 1..n : f[x] = f[y] => x = y

LEMMA CountRange ==
    ASSUME NEW n \in Nat, NEW f, NEW T, Numbers(f, n, T)
    PROVE  IsFiniteSet(T) /\ Cardinality(T) = n
<1> DEFINE S == 1..n
<1>1. IsFiniteSet(S) /\ Cardinality(S) = n
  BY CountUpTo
<1>2. (\A x, y \in S : f[x] = f[y] => x = y) /\ T = {f[x] : x \in S}
  BY DEF Numbers
<1> HIDE DEF S
<1> QED BY <1>1, <1>2, CountImage

LEMMA CountWithin ==
    ASSUME NEW n \in Nat, NEW D, D \subseteq 1..n
    PROVE  IsFiniteSet(D) /\ Cardinality(D) \in Nat /\ Cardinality(D) <= n
<1> DEFINE S == 1..n
<1>1. IsFiniteSet(S) /\ Cardinality(S) = n
  BY CountUpTo
<1>2. D \in SUBSET S
  OBVIOUS
<1> HIDE DEF S
<1> QED BY <1>1, <1>2, FS_Subset, FS_CardinalityType
=============================================================================
