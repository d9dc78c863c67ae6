----------------------------- MODULE PushProofs -----------------------------
(***************************************************************************)
(* skeema push and diff for any number of instances, targets, statements   *)
(* and goroutines: which statements are executed, what a failure leaves    *)
(* behind, what --brief lists, and where the printed statements would run. *)
(***************************************************************************)
EXTENDS Push, SubsequenceProofs

----------------------------------------------------------------------------
(* Sequences and numbers                                                   *)

\* One statement goes from the plan to what was executed.
LEMMA MoveHead ==
    ASSUME NEW S, NEW s \in Seq(S), NEW r \in Seq(S), r # <<>>
    PROVE  Append(s, Head(r)) \o Tail(r) = s \o r
<1>1. /\ Head(r) \in S /\ Tail(r) \in Seq(S) /\ Len(Tail(r)) = Len(r) - 1
      /\ \A i \in 1..Len(Tail(r)) : Tail(r)[i] = r[i + 1]
  BY HeadTailProperties
<1>2. Len(r) \in Nat \ {0} /\ Len(s) \in Nat /\ Head(r) = r[1]
  BY EmptySeq, LenProperties
<1>3. /\ Append(s, Head(r)) \in Seq(S) /\ Len(Append(s, Head(r))) = Len(s) + 1
      /\ \A i \in 1..Len(s) : Append(s, Head(r))[i] = s[i]
      /\ Append(s, Head(r))[Len(s) + 1] = Head(r)
  BY <1>1, <1>2
<1> DEFINE a == Append(s, Head(r)) \o Tail(r)
           b == s \o r
<1>4. /\ a \in Seq(S) /\ Len(a) = Len(s) + Len(r)
      /\ \A i \in 1..(Len(s) + Len(r)) :
            a[i] = IF i <= Len(s) + 1 THEN Append(s, Head(r))[i] ELSE Tail(r)[i - (Len(s) + 1)]
  <2>1. /\ a \in Seq(S) /\ Len(a) = (Len(s) + 1) + (Len(r) - 1)
        /\ \A i \in 1..((Len(s) + 1) + (Len(r) - 1)) :
            a[i] = IF i <= Len(s) + 1 THEN Append(s, Head(r))[i] ELSE Tail(r)[i - (Len(s) + 1)]
    BY <1>1, <1>3, ConcatProperties
  <2>2. (Len(s) + 1) + (Len(r) - 1) = Len(s) + Len(r)
    BY <1>2
  <2> QED BY <2>1, <2>2
<1>5. /\ b \in Seq(S) /\ Len(b) = Len(s) + Len(r)
      /\ \A i \in 1..(Len(s) + Len(r)) : b[i] = IF i <= Len(s) THEN s[i] ELSE r[i - Len(s)]
  BY ConcatProperties
<1> HIDE DEF a, b
<1>6. ASSUME NEW i \in 1..Len(a) PROVE a[i] = b[i]
  <2>0. i \in 1..(Len(s) + Len(r)) /\ i \in Nat
    BY <1>2, <1>4
  <2>1. CASE i <= Len(s)
    BY <1>2, <1>3, <1>4, <1>5, <2>0, <2>1
  <2>2. CASE i = Len(s) + 1
    <3>1. i - Len(s) = 1 /\ ~(i <= Len(s))
      BY <1>2, <2>2
    <3> QED BY <1>2, <1>3, <1>4, <1>5, <2>0, <2>2, <3>1
  <2>3. CASE i > Len(s) + 1
    <3>1. /\ i - (Len(s) + 1) \in 1..Len(Tail(r)) /\ (i - (Len(s) + 1)) + 1 = i - Len(s)
          /\ ~(i <= Len(s)) /\ ~(i <= Len(s) + 1)
      BY <1>1, <1>2, <2>0, <2>3
    <3>2. Tail(r)[i - (Len(s) + 1)] = r[i - Len(s)]
      BY <1>1, <3>1
    <3> QED BY <1>4, <1>5, <2>0, <3>1, <3>2
  <2> QED BY <1>2, <2>0, <2>1, <2>2, <2>3
<1>7. a = b
  BY <1>4, <1>5, <1>6, SeqEqual
<1> QED BY <1>7 DEF a, b

LEMMA PrefixOfConcat ==
    ASSUME NEW S, NEW s \in Seq(S), NEW r \in Seq(S)
    PROVE  IsPrefix(s, s \o r)
<1> DEFINE c == s \o r
           n == Len(s)
<1>1. /\ c \in Seq(S) /\ Len(c) = n + Len(r)
      /\ \A i \in 1..(n + Len(r)) : c[i] = IF i <= n THEN s[i] ELSE r[i - n]
  BY ConcatProperties
<1>2. n \in Nat /\ Len(r) \in Nat /\ n <= Len(c) /\ DOMAIN s = 1..n /\ (\A i \in 1..n : s[i] \in S)
  BY <1>1, LenProperties, ElementOfSeq
<1>3. \A i \in 1..n : c[i] = s[i]
  BY <1>1, <1>2
<1>4. SubSeq(s, 1, n) = s
  BY SubSeqFull
<1> HIDE DEF c
<1>5. /\ SubSeq(c, 1, n) \in Seq(S) /\ Len(SubSeq(c, 1, n)) = n
      /\ \A i \in 1..n : SubSeq(c, 1, n)[i] = c[i]
  <2>1. \A i \in 1..n : c[i] \in S
    BY <1>2, <1>3
  <2>2. /\ SubSeq(c, 1, n) \in Seq(S) /\ Len(SubSeq(c, 1, n)) = IF 1 <= n THEN n - 1 + 1 ELSE 0
        /\ \A i \in 1..(n - 1 + 1) : SubSeq(c, 1, n)[i] = c[1 + i - 1]
    BY <1>2, <2>1, SubSeqProperties
  <2>3. n - 1 + 1 = n /\ \A i \in 1..n : 1 + i - 1 = i
    BY <1>2
  <2>4. Len(SubSeq(c, 1, n)) = n
    BY <1>2, <2>2
  <2> QED BY <2>2, <2>3, <2>4
<1>6. SubSeq(c, 1, n) = s
  BY <1>3, <1>5, SeqEqual
<1>7. Len(s) <= Len(c) /\ SubSeq(s, 1, Len(s)) = SubSeq(c, 1, Len(s))
  BY <1>2, <1>4, <1>6
<1> QED BY <1>7 DEF c, IsPrefix

----------------------------------------------------------------------------
(* The inductive invariant                                                 *)

Labels == {"idle", "loop", "introspect", "strip", "stripping", "stripped", "verify",
           "plan", "lint", "print", "execute", "merge", "merging", "ended"}

\* Before the first statement of a target.
Early == Labels \ {"print", "execute", "merge", "merging", "ended"}

Executing == {"print", "execute"}

\* No diff of the target is refused.
Clean(t) == Len(Reached(job, t)) = Len(Diffs[t])

\* The command and what was found for it, which do not change.
Standing ==
    /\ job \in Jobs /\ found = TargetGroupsForDir(job.config, Instances)
    /\ applied \in [Mapped(job.config) -> Seq(ObjectDiffs)]

Locals(R) == [result : R, stmts : Seq(ObjectDiffs), suffix : BOOLEAN, copy : R]

\* The values of the results do not matter here.
MeShape == \E R : me \in [Instances -> Locals(R)]

Shape ==
    /\ pc \in [Instances -> Labels] /\ next \in [Instances -> Nat \ {0}]
    /\ pending \subseteq Instances /\ (\A i \in pending : pc[i] = "idle")
    /\ exit # None => pending = {} /\ \A i \in Instances : pc[i] \in {"idle", "ended"}

\* A goroutine of instance i at label l, on its k-th target, with statements s left.
Staged(i, l, k, s) ==
    /\ l \notin {"idle", "loop", "ended"} => k \in 1..Len(Group[i])
    /\ l \in {"lint"} \cup Executing => Clean(Group[i][k])
    /\ l = "lint" => s = Plan(job, Group[i][k])
    /\ l \in Executing => Brief \/ Group[i][k] \notin LintErrors
    /\ l = "execute" => s # <<>>

\* What it has executed of its present target, and of the later ones.
Progress(i, l, k, s) ==
    /\ l \in Executing /\ ~DryRun => applied[Group[i][k]] \o s = Plan(job, Group[i][k])
    /\ \A n \in 1..Len(Group[i]) :
          (n > k \/ (n = k /\ l \in Early)) => applied[Group[i][n]] = <<>>

\* A goroutine is in the loop of processSQL for target t.
UnderWay(t) ==
    \E i \in Instances : pc[i] \in Executing /\ next[i] \in 1..Len(Group[i]) /\ Target(i) = t

\* What target t has been given.
Sound(t) ==
    applied[t] # <<>> =>
        ~DryRun /\ Clean(t) /\ t \notin LintErrors /\ IsPrefix(applied[t], Plan(job, t))

Whole(t) == t \in failed \/ applied[t] \in {<<>>, Plan(job, t)} \/ UnderWay(t)

Steady ==
    /\ \A i \in Instances : /\ Staged(i, pc[i], next[i], me[i].stmts)
                            /\ Progress(i, pc[i], next[i], me[i].stmts)
    /\ \A t \in Targets : Sound(t) /\ Whole(t)

PushInv == Standing /\ MeShape /\ Shape /\ Steady

\* A target for which --brief lists its instance.
Worth(t) == Plan(job, t) # <<>> /\ Clean(t)

\* A goroutine of instance i at label l, on its k-th target, with statements s left,
\* when the instances of set L are listed.
Covered(i, l, k, s, L) ==
    /\ l \in Executing /\ s # <<>> => Plan(job, Group[i][k]) # <<>>
    /\ Brief =>
          /\ \A n \in 1..Len(Group[i]) :
                (/\ n < k \/ (n = k /\ l \in {"execute", "merge", "merging"})
                 /\ Worth(Group[i][n]))
                => i \in L
          /\ l = "print" => s = Plan(job, Group[i][k]) \/ i \in L

\* What --brief has listed, and how the goroutines end.
Listing ==
    /\ listed \in Seq(Instances) /\ IsFiniteSet(ToSet(listed))
    /\ Cardinality(ToSet(listed)) = Len(listed)
    /\ \A i \in ToSet(listed) : \E n \in 1..Len(Group[i]) : Worth(Group[i][n])
    /\ cancelled => err # 0
    /\ \A i \in Instances :
          /\ pc[i] = "idle" /\ Group[i] # <<>> => i \in pending
          /\ pc[i] = "ended" /\ ~cancelled => next[i] > Len(Group[i])
          /\ Covered(i, pc[i], next[i], me[i].stmts, ToSet(listed))

----------------------------------------------------------------------------
(* Facts about the command                                                 *)

\* Reached stops at the first object diff that is refused, if there is one.
LEMMA ReachedStops ==
    ASSUME NEW j, NEW t, j.diffs[t] \in Seq(ObjectDiffs)
    PROVE  /\ Len(Reached(j, t)) \in Nat /\ Len(Reached(j, t)) <= Len(j.diffs[t])
           /\ DOMAIN Reached(j, t) = 1..Len(Reached(j, t))
           /\ \A k \in 1..Len(Reached(j, t)) :
                 Reached(j, t)[k] = j.diffs[t][k] /\ ~Refused(j, j.diffs[t][k])
           /\ Len(Reached(j, t)) < Len(j.diffs[t]) =>
                 Refused(j, j.diffs[t][Len(Reached(j, t)) + 1])
<1> DEFINE d == j.diffs[t]
           n == Len(d)
           bad == {k \in 1..n : Refused(j, d[k])}
<1>1. n \in Nat /\ \A k \in 1..n : d[k] \in ObjectDiffs
  BY LenProperties, ElementOfSeq
<1>2. \E e \in 0..n : /\ Reached(j, t) = SubSeq(d, 1, e)
                      /\ \A k \in 1..e : k \notin bad
                      /\ e < n => e + 1 \in bad
  <2>1. CASE bad = {}
    <3>1. Reached(j, t) = SubSeq(d, 1, n)
      BY <2>1 DEF Reached
    <3> QED BY <1>1, <2>1, <3>1
  <2>2. CASE bad # {}
    <3>1. \E k \in bad : \A l \in bad : k <= l
      <4>1. bad \subseteq Nat
        BY <1>1
      <4> HIDE DEF bad
      <4> QED BY <2>2, <4>1, Least
    <3>2. PICK k : k = CHOOSE x \in bad : \A l \in bad : x <= l
      OBVIOUS
    <3>3. k \in bad /\ \A l \in bad : k <= l
      <4> HIDE DEF bad
      <4> QED BY <3>1, <3>2
    <3>4. Reached(j, t) = SubSeq(d, 1, k - 1)
      BY <2>2, <3>2 DEF Reached
    <3>5. k \in 1..n /\ k - 1 \in 0..n /\ (k - 1) + 1 = k
      BY <1>1, <3>3
    <3>6. \A l \in 1..(k - 1) : l \notin bad
      BY <3>3, <3>5
    <3> QED BY <3>3, <3>4, <3>5, <3>6
  <2> QED BY <2>1, <2>2
<1>3. PICK e \in 0..n : /\ Reached(j, t) = SubSeq(d, 1, e)
                        /\ \A k \in 1..e : k \notin bad
                        /\ e < n => e + 1 \in bad
  BY <1>2
<1>4. e \in Nat /\ e <= n /\ \A k \in 1..e : k \in 1..n /\ k \in Nat
  BY <1>1
<1>5. /\ SubSeq(d, 1, e) \in Seq(ObjectDiffs) /\ Len(SubSeq(d, 1, e)) = e
      /\ \A k \in 1..e : SubSeq(d, 1, e)[k] = d[k]
  <2> HIDE DEF d, n
  <2>1. /\ SubSeq(d, 1, e) \in Seq(ObjectDiffs)
        /\ Len(SubSeq(d, 1, e)) = IF 1 <= e THEN e - 1 + 1 ELSE 0
        /\ \A k \in 1..(e - 1 + 1) : SubSeq(d, 1, e)[k] = d[1 + k - 1]
    BY <1>1, <1>4, SubSeqProperties
  <2>2. e - 1 + 1 = e /\ \A k \in 1..e : 1 + k - 1 = k
    BY <1>4
  <2>3. Len(SubSeq(d, 1, e)) = e
    BY <1>4, <2>1
  <2> QED BY <2>1, <2>2, <2>3
<1>6. DOMAIN SubSeq(d, 1, e) = 1..e
  BY <1>5, LenProperties
<1> QED BY <1>3, <1>4, <1>5, <1>6

LEMMA ReachedAll ==
    ASSUME NEW j, NEW t, j.diffs[t] \in Seq(ObjectDiffs),
           ~(Len(Reached(j, t)) < Len(j.diffs[t]))
    PROVE  Len(Reached(j, t)) = Len(j.diffs[t])
<1>1. Len(j.diffs[t]) \in Nat
  BY LenProperties
<1> QED BY <1>1, ReachedStops

LEMMA PlanFacts ==
    ASSUME NEW j, NEW t, j.diffs[t] \in Seq(ObjectDiffs)
    PROVE  Plan(j, t) \in Seq(ObjectDiffs) /\ Len(Plan(j, t)) <= Len(j.diffs[t])
<1> DEFINE d == j.diffs[t]
           I == {n \in 1..Len(d) : Accepted(j, d[n])}
<1>1. Plan(j, t) = Pick(d, I)
  BY DEF Plan, Filter
<1>2. d \in Seq(ObjectDiffs) /\ Len(d) \in Nat /\ I \in SUBSET (1..Len(d))
  BY LenProperties
<1> HIDE DEF d, I
<1>3. Pick(d, I) \in Seq(ObjectDiffs) /\ Len(Pick(d, I)) = Cardinality(I) /\ Cardinality(I) \in Nat
  BY <1>2, PickProperties
<1>4. Cardinality(I) <= Len(d)
  BY <1>2, CountWithin
<1> QED BY <1>1, <1>3, <1>4 DEF d

\* What the assumptions say of the command being run.
LEMMA Command ==
    ASSUME Standing
    PROVE  /\ Targets = Mapped(job.config) /\ Group \in [Instances -> Seq(Targets)]
           /\ \A i \in Instances : Len(Group[i]) \in Nat
           /\ \A i \in Instances : \A k \in 1..Len(Group[i]) : Group[i][k] \in Targets
           /\ \A i, j \in Instances : \A k \in 1..Len(Group[i]), l \in 1..Len(Group[j]) :
                Group[i][k] = Group[j][l] => i = j /\ k = l
           /\ \A t \in Targets : /\ Diffs[t] \in Seq(ObjectDiffs)
                                 /\ Plan(job, t) \in Seq(ObjectDiffs)
                                 /\ Len(Plan(job, t)) <= Len(Diffs[t])
                                 /\ applied[t] \in Seq(ObjectDiffs)
           /\ DryRun \in BOOLEAN /\ Brief \in BOOLEAN /\ (Brief => DryRun)
<1>1. Targets = Mapped(job.config)
  BY DEF Standing, Targets
<1>2. Group \in [Instances -> Seq(Mapped(job.config))]
  BY PushAssumption DEF Standing, Group
<1>3. \A i \in Instances : /\ Len(Group[i]) \in Nat /\ DOMAIN Group[i] = 1..Len(Group[i])
                           /\ \A k \in 1..Len(Group[i]) : Group[i][k] \in Mapped(job.config)
  BY <1>2, LenProperties, ElementOfSeq
<1>4. \A i, j \in Instances : \A k \in DOMAIN Group[i], l \in DOMAIN Group[j] :
        Group[i][k] = Group[j][l] => i = j /\ k = l
  <2>1. Disjoint(Group)
    BY PushAssumption DEF Standing, Group
  <2> QED BY <1>2, <2>1 DEF Disjoint
<1>5. \A t \in Mapped(job.config) : Diffs[t] \in Seq(ObjectDiffs) /\ applied[t] \in Seq(ObjectDiffs)
  BY PushAssumption DEF Standing, Diffs
<1>6. \A t \in Mapped(job.config) :
        Plan(job, t) \in Seq(ObjectDiffs) /\ Len(Plan(job, t)) <= Len(Diffs[t])
  BY <1>5, PlanFacts DEF Diffs
<1>7. DryRun \in BOOLEAN /\ Brief \in BOOLEAN /\ (Brief => DryRun)
  BY PushAssumption DEF Standing, DryRun, Brief
<1> QED BY <1>1, <1>2, <1>3, <1>4, <1>5, <1>6, <1>7

\* Goroutine i writes its local variables; R and Q are where the results are.
LEMMA Writes ==
    ASSUME NEW R, NEW Q, me \in [Instances -> Locals(R)], NEW i \in Instances, NEW m \in Locals(Q),
           me' = [me EXCEPT ![i] = m]
    PROVE  /\ MeShape' /\ me'[i].stmts = m.stmts
           /\ \A j \in Instances \ {i} : me'[j].stmts = me[j].stmts
<1>1. Locals(R) \subseteq Locals(R \cup Q) /\ Locals(Q) \subseteq Locals(R \cup Q)
  BY DEF Locals
<1>2. me' \in [Instances -> Locals(R \cup Q)]
  BY <1>1
<1> QED BY <1>2 DEF MeShape

\* The statements that are left after the writes of the actions.
LEMMA LocalWrites ==
    ASSUME MeShape, NEW i \in Instances
    PROVE  /\ me[i].stmts \in Seq(ObjectDiffs)
           /\ UNCHANGED me => MeShape'
           /\ me' = [me EXCEPT ![i] = Fresh] =>
                /\ MeShape' /\ me'[i].stmts = <<>>
                /\ \A j \in Instances \ {i} : me'[j].stmts = me[j].stmts
           /\ \A x : (\/ me' = [me EXCEPT ![i].copy = x] \/ me' = [me EXCEPT ![i].result.skip = x]
                      \/ x \in BOOLEAN /\ me' = [me EXCEPT ![i].suffix = x]) =>
                /\ MeShape' /\ me'[i].stmts = me[i].stmts
                /\ \A j \in Instances \ {i} : me'[j].stmts = me[j].stmts
           /\ \A s \in Seq(ObjectDiffs) : \A x :
                (\/ me' = [me EXCEPT ![i].stmts = s]
                 \/ me' = [me EXCEPT ![i].stmts = s, ![i].result = x]) =>
                /\ MeShape' /\ me'[i].stmts = s
                /\ \A j \in Instances \ {i} : me'[j].stmts = me[j].stmts
<1>1. PICK R : me \in [Instances -> Locals(R)]
  BY DEF MeShape
<1>2. me[i] \in Locals(R) /\ me[i].stmts \in Seq(ObjectDiffs)
  BY <1>1 DEF Locals
<1>3. UNCHANGED me => MeShape'
  BY <1>1 DEF MeShape
<1>4. ASSUME me' = [me EXCEPT ![i] = Fresh]
      PROVE  /\ MeShape' /\ me'[i].stmts = <<>>
             /\ \A j \in Instances \ {i} : me'[j].stmts = me[j].stmts
  <2>1. Fresh \in Locals({NoResult}) /\ Fresh.stmts = <<>>
    BY EmptySeq DEF Fresh, Locals
  <2> HIDE DEF Locals
  <2> QED BY <1>1, <1>4, <2>1, Writes
<1>5. ASSUME NEW x, \/ me' = [me EXCEPT ![i].copy = x] \/ me' = [me EXCEPT ![i].result.skip = x]
                    \/ x \in BOOLEAN /\ me' = [me EXCEPT ![i].suffix = x]
      PROVE  /\ MeShape' /\ me'[i].stmts = me[i].stmts
             /\ \A j \in Instances \ {i} : me'[j].stmts = me[j].stmts
  <2>1. CASE me' = [me EXCEPT ![i].copy = x]
    <3>1. PICK m : m = [me[i] EXCEPT !.copy = x]
      OBVIOUS
    <3>2. m \in Locals(R \cup {x}) /\ m.stmts = me[i].stmts
      BY <1>2, <3>1 DEF Locals
    <3> QED BY <1>1, <2>1, <3>1, <3>2, Writes
  <2>2. CASE me' = [me EXCEPT ![i].result.skip = x]
    <3>1. PICK m : m = [me[i] EXCEPT !.result = [me[i].result EXCEPT !.skip = x]]
      OBVIOUS
    <3>2. /\ m \in Locals(R \cup {[me[i].result EXCEPT !.skip = x]})
          /\ m.stmts = me[i].stmts
      BY <1>2, <3>1 DEF Locals
    <3> QED BY <1>1, <2>2, <3>1, <3>2, Writes
  <2>3. CASE x \in BOOLEAN /\ me' = [me EXCEPT ![i].suffix = x]
    <3>1. PICK m : m = [me[i] EXCEPT !.suffix = x]
      OBVIOUS
    <3>2. m \in Locals(R) /\ m.stmts = me[i].stmts
      BY <1>2, <2>3, <3>1 DEF Locals
    <3> QED BY <1>1, <2>3, <3>1, <3>2, Writes
  <2> QED BY <1>5, <2>1, <2>2, <2>3
<1>6. ASSUME NEW s \in Seq(ObjectDiffs), NEW x,
             \/ me' = [me EXCEPT ![i].stmts = s]
             \/ me' = [me EXCEPT ![i].stmts = s, ![i].result = x]
      PROVE  /\ MeShape' /\ me'[i].stmts = s
             /\ \A j \in Instances \ {i} : me'[j].stmts = me[j].stmts
  <2>1. CASE me' = [me EXCEPT ![i].stmts = s]
    <3>1. PICK m : m = [me[i] EXCEPT !.stmts = s]
      OBVIOUS
    <3>2. m \in Locals(R) /\ m.stmts = s
      BY <1>2, <3>1 DEF Locals
    <3> QED BY <1>1, <2>1, <3>1, <3>2, Writes
  <2>2. CASE me' = [me EXCEPT ![i].stmts = s, ![i].result = x]
    <3>1. PICK m : m = [me[i] EXCEPT !.stmts = s, !.result = x]
      OBVIOUS
    <3>2. m \in Locals(R \cup {x}) /\ m.stmts = s
      BY <1>2, <3>1 DEF Locals
    <3>3. me' = [me EXCEPT ![i] = m]
      BY <1>1, <2>2, <3>1
    <3> QED BY <1>1, <3>2, <3>3, Writes
  <2> QED BY <1>6, <2>1, <2>2
<1> QED BY <1>2, <1>3, <1>4, <1>5, <1>6

----------------------------------------------------------------------------
(* The steps of a goroutine                                                *)

\* Goroutine i goes to label l and to its k-th target, with statements s left.
Moves(i, l, k, s) ==
    /\ pc' = [pc EXCEPT ![i] = l] /\ next' = [next EXCEPT ![i] = k]
    /\ MeShape' /\ me'[i].stmts = s
    /\ \A j \in Instances \ {i} : me'[j].stmts = me[j].stmts

\* A step that executes nothing: the goroutine does not come back to a target it
\* has begun, and leaves the loop of processSQL only when all is done or failed.
LEMMA Advance ==
    ASSUME PushInv, NEW i \in Instances, NEW l \in Labels \ {"idle"}, NEW k \in Nat \ {0},
           NEW s \in Seq(ObjectDiffs), Moves(i, l, k, s),
           UNCHANGED <<job, found, applied, exit>>, failed \subseteq failed',
           pending' \subseteq pending \ {i}, exit = None,
           Staged(i, l, k, s),
           k >= next[i], l \in Early => k > next[i] \/ pc[i] \in Early,
           l \in Executing /\ ~DryRun => applied[Group[i][k]] \o s = Plan(job, Group[i][k]),
           pc[i] \in Executing =>
               \/ l \in Executing /\ k = next[i]
               \/ Target(i) \in failed'
               \/ applied[Target(i)] \in {<<>>, Plan(job, Target(i))}
    PROVE  PushInv'
<1>. /\ pc \in [Instances -> Labels] /\ next \in [Instances -> Nat \ {0}]
     /\ pending \subseteq Instances /\ Standing
  BY DEF PushInv, Shape
<1>1. /\ pc'[i] = l /\ next'[i] = k /\ me'[i].stmts = s
      /\ \A j \in Instances \ {i} :
            pc'[j] = pc[j] /\ next'[j] = next[j] /\ me'[j].stmts = me[j].stmts
  BY DEF Moves
<1>2. Standing' /\ MeShape'
  BY DEF Standing, Moves
<1>3. Shape'
  <2>1. pc' \in [Instances -> Labels] /\ next' \in [Instances -> Nat \ {0}]
    BY DEF Moves
  <2>2. \A j \in pending' : j \in pending /\ j # i /\ pc[j] = "idle"
    BY DEF PushInv, Shape
  <2> QED BY <1>1, <2>1, <2>2 DEF Shape
<1>4. ASSUME NEW j \in Instances PROVE Staged(j, pc[j], next[j], me[j].stmts)'
  <2>1. Staged(j, pc'[j], next'[j], me'[j].stmts)
    <3>1. CASE j = i
      BY <1>1, <3>1
    <3>2. CASE j # i
      BY <1>1, <3>2 DEF PushInv, Steady
    <3> QED BY <3>1, <3>2
  <2> QED BY <2>1 DEF Staged, Clean, Group, Diffs, Brief, LintErrors
<1>5. ASSUME NEW j \in Instances PROVE Progress(j, pc[j], next[j], me[j].stmts)'
  <2>1. Progress(j, pc'[j], next'[j], me'[j].stmts)
    <3>1. CASE j = i
      <4>1. Progress(i, pc[i], next[i], me[i].stmts)
        BY DEF PushInv, Steady
      <4>2. ASSUME NEW n \in 1..Len(Group[i]), n > k \/ (n = k /\ l \in Early)
            PROVE  applied[Group[i][n]] = <<>>
        <5>1. n > next[i] \/ (n = next[i] /\ pc[i] \in Early)
          BY <4>2, Command
        <5> QED BY <4>1, <5>1 DEF Progress
      <4>3. Progress(i, l, k, s)
        BY <4>2 DEF Progress
      <4> QED BY <1>1, <3>1, <4>3
    <3>2. CASE j # i
      BY <1>1, <3>2 DEF PushInv, Steady
    <3> QED BY <3>1, <3>2
  <2> QED BY <2>1 DEF Progress, Group, DryRun
<1>6. Targets' = Targets /\ Group' = Group
  BY DEF Targets, Group
<1>7. ASSUME NEW t \in Targets PROVE Sound(t)' /\ Whole(t)'
  <2>1. Sound(t)'
    BY DEF PushInv, Steady, Sound, Clean, Diffs, DryRun, LintErrors
  <2>2. Whole(t)'
    <3>1. CASE t \in failed \/ applied[t] \in {<<>>, Plan(job, t)}
      BY <3>1 DEF Whole
    <3>2. CASE UnderWay(t)
      <4>1. PICK j \in Instances :
               pc[j] \in Executing /\ next[j] \in 1..Len(Group[j]) /\ Target(j) = t
        BY <3>2 DEF UnderWay
      <4>2. CASE pc'[j] = pc[j] /\ next'[j] = next[j]
        BY <1>6, <4>1, <4>2 DEF Whole, UnderWay, Target
      <4>3. CASE j = i /\ l \in Executing /\ k = next[i]
        BY <1>1, <1>6, <4>1, <4>3 DEF Whole, UnderWay, Target
      <4>4. CASE t \in failed' \/ applied[t] \in {<<>>, Plan(job, t)}
        BY <4>4 DEF Whole
      <4> QED BY <1>1, <4>1, <4>2, <4>3, <4>4
    <3> QED BY <3>1, <3>2 DEF PushInv, Steady, Whole
  <2> QED BY <2>1, <2>2
<1>8. Steady'
  BY <1>4, <1>5, <1>6, <1>7 DEF Steady
<1> QED BY <1>2, <1>3, <1>8 DEF PushInv

\* stmt.Execute: one more statement of the plan, which nobody else is on.
LEMMA ExecuteStep ==
    ASSUME PushInv, NEW i \in Instances, pc[i] = "execute", ~DryRun,
           applied' = [applied EXCEPT ![Target(i)] = Append(@, Head(me[i].stmts))],
           Moves(i, "print", next[i], Tail(me[i].stmts)),
           UNCHANGED <<job, found, failed, pending, exit>>
    PROVE  PushInv'
<1>. /\ pc \in [Instances -> Labels] /\ next \in [Instances -> Nat \ {0}]
     /\ pending \subseteq Instances /\ Standing
  BY DEF PushInv, Shape
<1> DEFINE t == Target(i)
           rest == me[i].stmts
<1>0. /\ Staged(i, pc[i], next[i], rest) /\ Progress(i, pc[i], next[i], rest)
      /\ rest \in Seq(ObjectDiffs)
  BY LocalWrites DEF PushInv, Steady
<1>1. /\ next[i] \in 1..Len(Group[i]) /\ Clean(t) /\ (Brief \/ t \notin LintErrors)
      /\ rest # <<>> /\ applied[t] \o rest = Plan(job, t)
  BY <1>0 DEF Staged, Progress, Executing, Target
<1>2. /\ t \in Targets /\ ~Brief /\ applied[t] \in Seq(ObjectDiffs)
      /\ Plan(job, t) \in Seq(ObjectDiffs)
  BY <1>1, Command DEF Target
<1>3. Head(rest) \in ObjectDiffs /\ Tail(rest) \in Seq(ObjectDiffs)
  BY <1>0, <1>1, HeadTailProperties
<1>4. PICK a : a = Append(applied[t], Head(rest))
  OBVIOUS
<1>5. a \in Seq(ObjectDiffs) /\ a \o Tail(rest) = Plan(job, t) /\ a # <<>>
  <2> HIDE DEF t, rest
  <2>1. Append(applied[t], Head(rest)) \o Tail(rest) = applied[t] \o rest
    BY <1>0, <1>1, <1>2, MoveHead
  <2>2. a \in Seq(ObjectDiffs) /\ Len(a) = Len(applied[t]) + 1 /\ Len(applied[t]) \in Nat
    BY <1>2, <1>3, <1>4
  <2>3. a # <<>>
    BY <2>2
  <2> QED BY <1>1, <1>4, <2>1, <2>2, <2>3
<1>6. applied \in [Targets -> Seq(ObjectDiffs)]
  BY Command DEF Standing
<1>7. /\ applied'[t] = a /\ applied' \in [Targets -> Seq(ObjectDiffs)]
      /\ \A u \in Targets \ {t} : applied'[u] = applied[u]
  BY <1>2, <1>4, <1>5, <1>6
<1>8. /\ pc'[i] = "print" /\ next' = next /\ me'[i].stmts = Tail(rest)
      /\ \A j \in Instances \ {i} : pc'[j] = pc[j] /\ me'[j].stmts = me[j].stmts
  BY DEF Moves
<1>9. Standing' /\ MeShape'
  BY <1>7, Command DEF Standing, Moves
<1>10. Shape'
  <2>1. "print" \in Labels /\ exit = None /\ i \notin pending
    BY DEF PushInv, Shape, Labels
  <2>2. pc' \in [Instances -> Labels]
    BY <2>1 DEF Moves
  <2> QED BY <1>8, <2>1, <2>2 DEF PushInv, Shape
<1>11. ASSUME NEW j \in Instances PROVE Staged(j, pc[j], next[j], me[j].stmts)'
  <2>1. Staged(j, pc'[j], next'[j], me'[j].stmts)
    <3>1. CASE j = i
      BY <1>1, <1>8, <3>1 DEF Staged, Executing, Target
    <3>2. CASE j # i
      BY <1>8, <3>2 DEF PushInv, Steady
    <3> QED BY <3>1, <3>2
  <2> QED BY <2>1 DEF Staged, Clean, Group, Diffs, Brief, LintErrors
<1>12. ASSUME NEW j \in Instances PROVE Progress(j, pc[j], next[j], me[j].stmts)'
  <2>0. Progress(j, pc[j], next[j], me[j].stmts) /\ Staged(j, pc[j], next[j], me[j].stmts)
    BY DEF PushInv, Steady
  <2>1. ASSUME NEW n \in 1..Len(Group[j]), n # next[i] \/ j # i
        PROVE  applied'[Group[j][n]] = applied[Group[j][n]]
    <3>1. Group[j][n] \in Targets /\ Group[j][n] # t
      BY <1>1, <2>1, Command DEF Target
    <3> QED BY <1>7, <3>1
  <2>2. ASSUME NEW n \in 1..Len(Group[j]),
               n > next'[j] \/ (n = next'[j] /\ pc'[j] \in Early)
        PROVE  applied'[Group[j][n]] = <<>>
    <3>0. n # next[i] \/ j # i
      BY <1>8, <2>2, Command DEF Early
    <3>1. applied'[Group[j][n]] = applied[Group[j][n]]
      BY <2>1, <3>0
    <3>2. n > next[j] \/ (n = next[j] /\ pc[j] \in Early)
      BY <1>8, <2>2, Command DEF Early
    <3> QED BY <2>0, <3>1, <3>2 DEF Progress
  <2>3. ASSUME pc'[j] \in Executing
        PROVE  applied'[Group[j][next'[j]]] \o me'[j].stmts = Plan(job, Group[j][next'[j]])
    <3>1. CASE j = i
      BY <1>5, <1>7, <1>8, <3>1 DEF Target
    <3>2. CASE j # i
      <4>1. pc[j] \in Executing /\ next[j] \in 1..Len(Group[j])
        BY <1>8, <2>0, <2>3, <3>2 DEF Staged, Executing
      <4>2. applied'[Group[j][next[j]]] = applied[Group[j][next[j]]]
        BY <2>1, <3>2, <4>1
      <4> QED BY <1>8, <2>0, <3>2, <4>1, <4>2 DEF Progress
    <3> QED BY <3>1, <3>2
  <2> QED BY <2>2, <2>3 DEF Progress, Group, DryRun
<1>13. Targets' = Targets /\ Group' = Group
  BY <1>7, <1>6 DEF Targets, Group
<1>14. ASSUME NEW u \in Targets PROVE Sound(u)' /\ Whole(u)'
  <2>0. Sound(u) /\ Whole(u)
    BY DEF PushInv, Steady
  <2>1. CASE u = t
    <3>1. IsPrefix(a, Plan(job, t))
      BY <1>3, <1>5, PrefixOfConcat
    <3>2. Sound(u)'
      BY <1>1, <1>2, <1>7, <2>1, <3>1 DEF Sound, Clean, Diffs, DryRun, LintErrors
    <3>3. UnderWay(u)'
      BY <1>1, <1>8, <1>13, <2>1 DEF UnderWay, Executing, Target
    <3> QED BY <3>2, <3>3 DEF Whole
  <2>2. CASE u # t
    <3>1. applied'[u] = applied[u]
      BY <1>7, <2>2
    <3>2. Sound(u)'
      BY <2>0, <3>1 DEF Sound, Clean, Diffs, DryRun, LintErrors
    <3>3. UnderWay(u) => UnderWay(u)'
      BY <1>8, <1>13, <2>2 DEF UnderWay, Executing, Target
    <3> QED BY <2>0, <3>1, <3>2, <3>3 DEF Whole
  <2> QED BY <2>1, <2>2
<1>15. Steady'
  BY <1>11, <1>12, <1>13, <1>14 DEF Steady
<1> QED BY <1>9, <1>10, <1>15 DEF PushInv

\* The steps from the loop over the targets to the statements of one.
LEMMA EarlySteps ==
    ASSUME PushInv, NEW i \in Instances, UNCHANGED <<job, found>>,
           \/ Spawn(i) \/ Loop(i) \/ Introspect(i) \/ StripCheck(i) \/ StripAssign(i)
           \/ StripNil(i) \/ Verify(i) \/ BuildStatements(i)
    PROVE  PushInv'
<1>. /\ pc \in [Instances -> Labels] /\ next \in [Instances -> Nat \ {0}] /\ Standing /\ MeShape
     /\ pending \subseteq Instances /\ next[i] \in Nat \ {0} /\ Len(Group[i]) \in Nat
     /\ Staged(i, pc[i], next[i], me[i].stmts) /\ me[i].stmts \in Seq(ObjectDiffs)
  BY Command, LocalWrites DEF PushInv, Shape, Steady
<1>1. /\ pc[i] \in Early /\ pc[i] # "lint" /\ pc[i] \notin Executing
      /\ UNCHANGED <<applied, failed, exit, next>> /\ exit = None
      /\ pending' \subseteq pending \ {i}
  <2>1. /\ pc[i] \in Early /\ pc[i] # "lint" /\ pc[i] \notin Executing
        /\ UNCHANGED <<applied, failed, exit, next>>
        /\ pc[i] = "idle" => i \in pending /\ Spawn(i)
    BY DEF Spawn, Loop, Introspect, StripCheck, StripAssign, StripNil, Verify,
           BuildStatements, Go, Fail, history, Early, Executing, Labels, PushInv, Shape
  <2>2. exit = None
    BY <2>1 DEF PushInv, Shape, Early
  <2>3. CASE Spawn(i)
    BY <2>1, <2>2, <2>3 DEF Spawn
  <2>4. CASE ~Spawn(i)
    <3>1. i \notin pending
      BY <2>1, <2>4 DEF PushInv, Shape
    <3>2. pending' = pending
      BY <2>4 DEF Loop, Introspect, StripCheck, StripAssign, StripNil, Verify,
                  BuildStatements, Go, Fail
    <3> QED BY <2>1, <2>2, <3>1, <3>2
  <2> QED BY <2>3, <2>4
<1>2. ASSUME NEW l \in Labels \ ({"idle"} \cup Executing), NEW s \in Seq(ObjectDiffs),
             pc' = [pc EXCEPT ![i] = l], MeShape', me'[i].stmts = s,
             \A j \in Instances \ {i} : me'[j].stmts = me[j].stmts,
             Staged(i, l, next[i], s)
      PROVE  PushInv'
  <2>1. Moves(i, l, next[i], s)
    BY <1>1, <1>2 DEF Moves
  <2>2. next[i] >= next[i]
    OBVIOUS
  <2> QED BY <1>1, <1>2, <2>1, <2>2, Advance
<1>3. UNCHANGED me => MeShape' /\ \A j \in Instances : me'[j].stmts = me[j].stmts
  BY LocalWrites
<1>4. ASSUME NEW l \in {"loop", "ended"}, pc' = [pc EXCEPT ![i] = l], UNCHANGED me PROVE PushInv'
  <2>1. Staged(i, l, next[i], me[i].stmts)
    BY DEF Staged, Executing
  <2> QED BY <1>2, <1>3, <1>4, <2>1 DEF Labels, Executing
<1>5. ASSUME NEW l \in {"introspect", "strip", "stripping", "stripped", "verify", "plan"},
             pc' = [pc EXCEPT ![i] = l], next[i] \in 1..Len(Group[i]), MeShape',
             me'[i].stmts \in Seq(ObjectDiffs),
             \A j \in Instances \ {i} : me'[j].stmts = me[j].stmts
      PROVE  PushInv'
  <2>1. \A s : Staged(i, l, next[i], s)
    BY <1>5 DEF Staged, Executing
  <2>2. l \in Labels \ ({"idle"} \cup Executing)
    BY DEF Labels, Executing
  <2> QED BY <1>2, <1>5, <2>1, <2>2
<1>6. pc[i] \notin {"idle", "loop"} => next[i] \in 1..Len(Group[i])
  BY <1>1 DEF Staged, Early
<1>7. CASE Spawn(i)
  BY <1>4, <1>7 DEF Spawn
<1>8. CASE Loop(i)
  <2>1. CASE next[i] > Len(Group[i]) \/ cancelled
    BY <1>4, <1>8, <2>1 DEF Loop, Go
  <2>2. CASE ~(next[i] > Len(Group[i]) \/ cancelled)
    <3>1. pc' = [pc EXCEPT ![i] = "introspect"] /\ me' = [me EXCEPT ![i] = Fresh]
      BY <1>8, <2>2 DEF Loop, Go
    <3>2. next[i] \in 1..Len(Group[i])
      BY <2>2
    <3>3. /\ MeShape' /\ me'[i].stmts = <<>>
          /\ \A j \in Instances \ {i} : me'[j].stmts = me[j].stmts
      BY <3>1, LocalWrites
    <3> QED BY <1>5, <3>1, <3>2, <3>3, EmptySeq
  <2> QED BY <2>1, <2>2
<1>9. CASE Introspect(i) \/ Verify(i)
  <2>1. UNCHANGED me /\ pc[i] \notin {"idle", "loop"}
    BY <1>9 DEF Introspect, Verify, Fail
  <2>2. PICK l \in {"ended", "strip", "verify", "plan"} : pc' = [pc EXCEPT ![i] = l]
    BY <1>9 DEF Introspect, Verify, Fail, Go
  <2> QED BY <1>3, <1>4, <1>5, <1>6, <2>1, <2>2
<1>10. CASE StripAssign(i) \/ StripNil(i)
  <2>1. UNCHANGED me /\ pc[i] \notin {"idle", "loop"}
    BY <1>10 DEF StripAssign, StripNil
  <2>2. PICK l \in {"stripped", "verify"} : pc' = [pc EXCEPT ![i] = l]
    BY <1>10 DEF StripAssign, StripNil, Go
  <2> QED BY <1>3, <1>5, <1>6, <2>1, <2>2
<1>11. CASE StripCheck(i)
  <2>1. pc[i] = "strip"
    BY <1>11 DEF StripCheck
  <2>2. PICK l \in {"stripping", "verify"} : pc' = [pc EXCEPT ![i] = l]
    BY <1>11 DEF StripCheck, Go
  <2>3. UNCHANGED me \/ \E x \in BOOLEAN : me' = [me EXCEPT ![i].suffix = x]
    BY <1>11 DEF StripCheck
  <2>4. /\ MeShape' /\ me'[i].stmts = me[i].stmts
        /\ \A j \in Instances \ {i} : me'[j].stmts = me[j].stmts
    BY <1>3, <2>3, LocalWrites
  <2> QED BY <1>5, <1>6, <2>1, <2>2, <2>4
<1>12. CASE BuildStatements(i)
  <2>1. pc[i] = "plan" /\ next[i] \in 1..Len(Group[i])
    BY <1>6, <1>12 DEF BuildStatements
  <2>2. PICK t \in Targets : t = Target(i) /\ t = Group[i][next[i]]
    BY <2>1, Command DEF Target
  <2>3. Plan(job, t) \in Seq(ObjectDiffs) /\ Diffs[t] \in Seq(ObjectDiffs)
    BY Command
  <2>4. \E x : me' = [me EXCEPT ![i].stmts = Plan(job, t), ![i].result = x]
    BY <1>12, <2>2 DEF BuildStatements
  <2>5. /\ MeShape' /\ me'[i].stmts = Plan(job, t)
        /\ \A j \in Instances \ {i} : me'[j].stmts = me[j].stmts
    BY <2>3, <2>4, LocalWrites
  <2>6. CASE Len(Reached(job, t)) < Len(Diffs[t])
    <3>1. pc' = [pc EXCEPT ![i] = "merge"]
      BY <1>12, <2>2, <2>6 DEF BuildStatements, Go
    <3>2. Staged(i, "merge", next[i], Plan(job, t))
      BY <2>1 DEF Staged, Executing
    <3> QED BY <1>2, <2>3, <2>5, <3>1, <3>2 DEF Labels, Executing
  <2>7. CASE ~(Len(Reached(job, t)) < Len(Diffs[t]))
    <3>1. pc' = [pc EXCEPT ![i] = "lint"]
      BY <1>12, <2>2, <2>7 DEF BuildStatements, Go
    <3>2. Clean(t)
      BY <2>3, <2>7, ReachedAll DEF Clean, Diffs
    <3>3. Staged(i, "lint", next[i], Plan(job, t))
      BY <2>1, <2>2, <3>2 DEF Staged, Executing
    <3> QED BY <1>2, <2>3, <2>5, <3>1, <3>3 DEF Labels, Executing
  <2> QED BY <2>6, <2>7
<1> QED BY <1>7, <1>8, <1>9, <1>10, <1>11, <1>12

\* The steps from the linter to the end of a target.
LEMMA LateSteps ==
    ASSUME PushInv, NEW i \in Instances, UNCHANGED <<job, found>>,
           \/ Lint(i) \/ PrintStatement(i) \/ Execute(i) \/ MergeRead(i) \/ MergeWrite(i)
    PROVE  PushInv'
<1>. /\ pc \in [Instances -> Labels] /\ next \in [Instances -> Nat \ {0}] /\ Standing /\ MeShape
     /\ pending \subseteq Instances /\ next[i] \in Nat \ {0} /\ Len(Group[i]) \in Nat
     /\ Staged(i, pc[i], next[i], me[i].stmts) /\ me[i].stmts \in Seq(ObjectDiffs)
     /\ Progress(i, pc[i], next[i], me[i].stmts)
  BY Command, LocalWrites DEF PushInv, Shape, Steady
<1>1. /\ pc[i] \in {"lint", "print", "execute", "merge", "merging"}
      /\ UNCHANGED <<exit, pending>> /\ exit = None /\ pending' \subseteq pending \ {i}
      /\ next[i] \in 1..Len(Group[i])
  <2>1. pc[i] \in {"lint", "print", "execute", "merge", "merging"} /\ UNCHANGED <<exit, pending>>
    BY DEF Lint, PrintStatement, Execute, MergeRead, MergeWrite, Go, Fail
  <2> QED BY <2>1 DEF PushInv, Shape, Staged
<1>2. PICK t \in Targets : t = Target(i) /\ t = Group[i][next[i]]
  BY <1>1, Command DEF Target
<1>3. Plan(job, t) \in Seq(ObjectDiffs) /\ applied[t] \in Seq(ObjectDiffs)
  BY Command
<1>4. ASSUME NEW l \in {"merge", "merging", "ended"}, NEW s \in Seq(ObjectDiffs),
             Moves(i, l, next[i], s), UNCHANGED applied, failed \subseteq failed',
             pc[i] \in Executing => t \in failed' \/ applied[t] \in {<<>>, Plan(job, t)}
      PROVE  PushInv'
  <2>1. Staged(i, l, next[i], s)
    BY <1>1, <1>4 DEF Staged, Executing
  <2>2. l \in Labels \ {"idle"} /\ l \notin Early /\ l \notin Executing /\ next[i] >= next[i]
    BY <1>4 DEF Labels, Early, Executing
  <2> QED BY <1>1, <1>2, <1>4, <2>1, <2>2, Advance
<1>5. ASSUME NEW l \in Executing, NEW s \in Seq(ObjectDiffs), Moves(i, l, next[i], s),
             UNCHANGED <<applied, failed>>, Clean(t), Brief \/ t \notin LintErrors,
             l = "execute" => s # <<>>, ~DryRun => applied[t] \o s = Plan(job, t)
      PROVE  PushInv'
  <2>1. Staged(i, l, next[i], s)
    BY <1>1, <1>2, <1>5 DEF Staged, Executing
  <2>2. l \in Labels \ {"idle"} /\ l \notin Early /\ next[i] >= next[i]
    BY <1>5 DEF Labels, Early, Executing
  <2> QED BY <1>1, <1>2, <1>5, <2>1, <2>2, Advance
<1>6. ASSUME NEW l, UNCHANGED <<me, next>>, pc' = [pc EXCEPT ![i] = l]
      PROVE  Moves(i, l, next[i], me[i].stmts)
  BY <1>6, LocalWrites DEF Moves
<1>7. CASE Lint(i)
  <2>1. Clean(t) /\ me[i].stmts = Plan(job, t) /\ applied[t] = <<>> /\ pc[i] = "lint"
    <3>1. "lint" \in Early /\ pc[i] = "lint"
      BY <1>7 DEF Early, Labels, Lint, Executing
    <3> QED BY <1>1, <1>2, <3>1 DEF Staged, Progress
  <2>2. pc[i] \notin Executing /\ UNCHANGED <<applied, failed, next>>
    BY <1>7, <2>1 DEF Executing, Lint, history, Fail, Go
  <2>3. CASE Fail(i, 78)
    BY <1>4, <1>6, <2>2, <2>3 DEF Fail
  <2>4. CASE /\ ~Brief /\ t \in LintErrors /\ Go(i, "merge")
             /\ \E x : me' = [me EXCEPT ![i].result.skip = x]
    <3>1. Moves(i, "merge", next[i], me[i].stmts)
      BY <2>2, <2>4, LocalWrites DEF Moves, Go
    <3> QED BY <1>4, <2>2, <3>1
  <2>5. CASE (Brief \/ t \notin LintErrors) /\ UNCHANGED me /\ Go(i, "print")
    <3>1. applied[t] \o me[i].stmts = Plan(job, t)
      BY <1>3, <2>1, ConcatEmptySeq
    <3>2. Moves(i, "print", next[i], me[i].stmts)
      BY <1>6, <2>2, <2>5 DEF Go
    <3> QED BY <1>5, <2>1, <2>2, <2>5, <3>1, <3>2 DEF Executing
  <2> QED BY <1>2, <1>7, <2>3, <2>4, <2>5 DEF Lint
<1>8. ASSUME pc[i] \in Executing
      PROVE  /\ Clean(t) /\ (Brief \/ t \notin LintErrors)
             /\ ~DryRun => applied[t] \o me[i].stmts = Plan(job, t)
             /\ DryRun => applied[t] = <<>>
  BY <1>1, <1>2, <1>8 DEF Staged, Progress, PushInv, Steady, Sound
<1>9. CASE PrintStatement(i)
  <2>1. pc[i] \in Executing /\ pc[i] = "print" /\ UNCHANGED <<me, applied, failed, next>>
    BY <1>9 DEF PrintStatement, history, Go, Executing
  <2>2. CASE me[i].stmts = <<>>
    <3>1. applied[t] \in {<<>>, Plan(job, t)}
      BY <1>3, <1>8, <2>1, <2>2, ConcatEmptySeq, Command
    <3>2. Moves(i, "merge", next[i], me[i].stmts)
      BY <1>6, <1>9, <2>1, <2>2 DEF PrintStatement, Go
    <3> QED BY <1>4, <2>1, <3>1, <3>2
  <2>3. CASE me[i].stmts # <<>>
    <3>1. Moves(i, "execute", next[i], me[i].stmts)
      BY <1>6, <1>9, <2>1, <2>3 DEF PrintStatement, Go
    <3> QED BY <1>5, <1>8, <2>1, <2>3, <3>1 DEF Executing
  <2> QED BY <2>2, <2>3
<1>10. CASE Execute(i)
  <2>1. pc[i] \in Executing /\ pc[i] = "execute" /\ UNCHANGED next /\ me[i].stmts # <<>>
    BY <1>10 DEF Execute, Go, Executing, Staged
  <2>2. Tail(me[i].stmts) \in Seq(ObjectDiffs)
    BY <2>1, HeadTailProperties
  <2>3. CASE /\ me' = [me EXCEPT ![i].stmts = Tail(me[i].stmts)] /\ Go(i, "print")
             /\ UNCHANGED failed
             /\ applied' = IF DryRun THEN applied ELSE
                              [applied EXCEPT ![t] = Append(@, Head(me[i].stmts))]
    <3>1. Moves(i, "print", next[i], Tail(me[i].stmts))
      BY <2>1, <2>2, <2>3, LocalWrites DEF Moves, Go
    <3>2. CASE DryRun
      BY <1>5, <1>8, <2>1, <2>2, <2>3, <3>1, <3>2 DEF Executing
    <3>3. CASE ~DryRun
      BY <1>1, <1>2, <2>1, <2>3, <3>1, <3>3, ExecuteStep
    <3> QED BY <3>2, <3>3
  <2>4. CASE /\ failed' = failed \cup {t} /\ UNCHANGED applied /\ Go(i, "merge")
             /\ \E x : me' = [me EXCEPT ![i].result.skip = x]
    <3>1. Moves(i, "merge", next[i], me[i].stmts)
      BY <2>1, <2>4, LocalWrites DEF Moves, Go
    <3> QED BY <1>4, <2>4, <3>1
  <2> QED BY <1>2, <1>10, <2>3, <2>4 DEF Execute
<1>11. CASE MergeRead(i)
  <2>1. /\ pc[i] = "merge" /\ UNCHANGED <<applied, failed, next>> /\ pc' = [pc EXCEPT ![i] = "merging"]
        /\ me' = [me EXCEPT ![i].copy = sum]
    BY <1>11 DEF MergeRead, Go, history
  <2>2. Moves(i, "merging", next[i], me[i].stmts)
    BY <2>1, LocalWrites DEF Moves
  <2> QED BY <1>4, <2>1, <2>2 DEF Executing
<1>12. CASE MergeWrite(i)
  <2>1. /\ pc[i] = "merging" /\ UNCHANGED <<applied, failed, me>> /\ pc' = [pc EXCEPT ![i] = "loop"]
        /\ next' = [next EXCEPT ![i] = next[i] + 1] /\ next[i] + 1 \in Nat \ {0}
    BY <1>12 DEF MergeWrite, history
  <2>2. Moves(i, "loop", next[i] + 1, me[i].stmts)
    BY <2>1, LocalWrites DEF Moves
  <2>3. Staged(i, "loop", next[i] + 1, me[i].stmts)
    BY DEF Staged, Executing
  <2>4. next[i] + 1 >= next[i] /\ next[i] + 1 > next[i] /\ "loop" \in Labels \ {"idle"}
        /\ pc[i] \notin Executing /\ "loop" \notin Executing
    BY <2>1 DEF Labels, Executing
  <2> QED BY <1>1, <2>1, <2>2, <2>3, <2>4, Advance
<1> QED BY <1>7, <1>9, <1>10, <1>11, <1>12

\* A step that changes nothing the invariant looks at but, at the end, exit.
LEMMA QuietStep ==
    ASSUME PushInv, UNCHANGED <<job, found, pending, pc, next, me, applied, failed>>,
           exit' = exit \/ (pending = {} /\ Active = {})
    PROVE  PushInv'
<1>1. Standing' /\ MeShape'
  BY DEF PushInv, Standing, MeShape
<1>2. Shape'
  BY DEF PushInv, Shape, Active
<1>3. Steady'
  BY DEF PushInv, Steady, Staged, Progress, Sound, Whole, UnderWay, Targets, Target, Group,
         Clean, Diffs, Brief, DryRun, LintErrors
<1> QED BY <1>1, <1>2, <1>3 DEF PushInv

LEMMA PushInit == Init => PushInv
<1> SUFFICES ASSUME Init PROVE PushInv
  OBVIOUS
<1>1. <<>> \in Seq(ObjectDiffs)
  BY EmptySeq
<1>2. Standing
  BY <1>1 DEF Init, Standing
<1>3. MeShape
  <2>1. Fresh \in Locals({NoResult})
    BY <1>1 DEF Fresh, Locals
  <2>2. me \in [Instances -> Locals({NoResult})]
    BY <2>1 DEF Init
  <2> QED BY <2>2 DEF MeShape
<1>4. Shape
  <2>1. /\ pc = [i \in Instances |-> "idle"] /\ next = [i \in Instances |-> 1] /\ exit = None
        /\ pending \subseteq Instances
    BY DEF Init
  <2>2. pc \in [Instances -> Labels] /\ next \in [Instances -> Nat \ {0}]
    BY <2>1 DEF Labels
  <2> QED BY <2>1, <2>2 DEF Shape
<1>5. Steady
  <2>1. \A t \in Targets : applied[t] = <<>>
    BY DEF Init, Targets
  <2>2. \A i \in Instances : pc[i] = "idle"
    BY DEF Init
  <2>3. \A i \in Instances : \A n \in 1..Len(Group[i]) : Group[i][n] \in Targets
    BY <1>2, Command
  <2> QED BY <2>1, <2>2, <2>3 DEF Steady, Staged, Progress, Sound, Whole, Executing
<1> QED BY <1>2, <1>3, <1>4, <1>5 DEF PushInv

LEMMA PushNext ==
    ASSUME PushInv, [Next /\ UNCHANGED <<job, found>>]_<<vars, job, found>>
    PROVE  PushInv'
<1>1. CASE UNCHANGED <<vars, job, found>>
  <2>1. /\ UNCHANGED <<job, found, pending, pc, next, me, applied, failed>>
        /\ exit' = exit
    BY <1>1 DEF vars, goroutine, history
  <2> QED BY <2>1, QuietStep
<1>2. CASE Next /\ UNCHANGED <<job, found>>
  <2>1. CASE Wait
    BY <1>2, <2>1, QuietStep DEF Wait, goroutine, history
  <2>2. CASE Exited
    BY <1>1, <1>2, <2>2 DEF Exited
  <2> QED BY <1>2, <2>1, <2>2, EarlySteps, LateSteps DEF Next, Main, Goroutine
<1> QED BY <1>1, <1>2

\* In every reachable state, what each target has been given goes with where the
\* goroutine of its instance is.
THEOREM PushInvariance == Spec => []PushInv
<1>1. PushInv /\ [Next /\ UNCHANGED <<job, found>>]_<<vars, job, found>> => PushInv'
  BY PushNext
<1> QED BY <1>1, PushInit, PTL DEF Spec

\* For any number of instances, targets and goroutines, a target is only touched
\* once all its statements were accepted and linted, and then in the order of the
\* diff; a dry run touches nothing.
THEOREM AcceptedPlansOnly == Spec => []OnlyAcceptedPlans
<1>1. PushInv => OnlyAcceptedPlans
  BY DEF PushInv, Steady, Sound, Clean, OnlyAcceptedPlans
<1> QED BY <1>1, PushInvariance, PTL

\* The cancellation that follows an error on one instance never leaves a target of
\* another instance half done: processSQL does not look at the context.
THEOREM CutShortByOwnFailure == Spec => []OnlyOwnFailureCutsShort
<1>1. PushInv => OnlyOwnFailureCutsShort
  BY DEF PushInv, Shape, Steady, Whole, UnderWay, Executing, OnlyOwnFailureCutsShort
<1> QED BY <1>1, PushInvariance, PTL

----------------------------------------------------------------------------
(* What --brief lists                                                      *)

LEMMA ListsOneMore ==
    ASSUME NEW S, NEW q \in Seq(S), NEW x \in S, x \notin ToSet(q), IsFiniteSet(ToSet(q)),
           Cardinality(ToSet(q)) = Len(q)
    PROVE  /\ Append(q, x) \in Seq(S) /\ ToSet(Append(q, x)) = ToSet(q) \cup {x}
           /\ IsFiniteSet(ToSet(Append(q, x)))
           /\ Cardinality(ToSet(Append(q, x))) = Len(Append(q, x))
<1>1. /\ Append(q, x) \in Seq(S) /\ Len(Append(q, x)) = Len(q) + 1
      /\ \A n \in 1..Len(q) : Append(q, x)[n] = q[n]
      /\ Append(q, x)[Len(q) + 1] = x
  BY AppendProperties
<1>2. Len(q) \in Nat /\ DOMAIN q = 1..Len(q) /\ DOMAIN Append(q, x) = 1..(Len(q) + 1)
  BY <1>1, LenProperties
<1>3. ToSet(Append(q, x)) = ToSet(q) \cup {x}
  <2>1. \A n \in 1..(Len(q) + 1) : n \in 1..Len(q) \/ n = Len(q) + 1
    BY <1>2
  <2>2. \A n \in 1..Len(q) : n \in 1..(Len(q) + 1)
    BY <1>2
  <2>3. Len(q) + 1 \in 1..(Len(q) + 1)
    BY <1>2
  <2> QED BY <1>1, <1>2, <2>1, <2>2, <2>3 DEF ToSet
<1>4. /\ IsFiniteSet(ToSet(q) \cup {x})
      /\ Cardinality(ToSet(q) \cup {x}) = Cardinality(ToSet(q)) + 1
  BY FS_AddElement
<1> QED BY <1>1, <1>3, <1>4

\* A goroutine moves, and may put its instance on the list.
LEMMA ListsMove ==
    ASSUME PushInv, Listing, NEW i \in Instances, NEW l \in Labels \ {"idle"},
           NEW k \in Nat \ {0}, NEW s, Moves(i, l, k, s), UNCHANGED <<job, found>>,
           \/ UNCHANGED listed
           \/ /\ i \notin ToSet(listed) /\ listed' = Append(listed, i)
              /\ \E n \in 1..Len(Group[i]) : Worth(Group[i][n]),
           pending \ {i} \subseteq pending', cancelled => cancelled', cancelled' => err' # 0,
           l = "ended" /\ ~cancelled' => k > Len(Group[i]),
           Covered(i, l, k, s, ToSet(listed'))
    PROVE  Listing'
<1>. pc \in [Instances -> Labels] /\ next \in [Instances -> Nat \ {0}]
  BY DEF PushInv, Shape
<1>1. /\ pc'[i] = l /\ next'[i] = k /\ me'[i].stmts = s
      /\ \A j \in Instances \ {i} :
            pc'[j] = pc[j] /\ next'[j] = next[j] /\ me'[j].stmts = me[j].stmts
  BY DEF Moves
<1>2. PICK q : q = listed'
  OBVIOUS
<1>3. /\ q \in Seq(Instances) /\ IsFiniteSet(ToSet(q)) /\ Cardinality(ToSet(q)) = Len(q)
      /\ ToSet(listed) \subseteq ToSet(q)
      /\ \A j \in ToSet(q) : \E n \in 1..Len(Group[j]) : Worth(Group[j][n])
  <2>1. CASE UNCHANGED listed
    BY <1>2, <2>1 DEF Listing
  <2>2. CASE /\ i \notin ToSet(listed) /\ q = Append(listed, i)
             /\ \E n \in 1..Len(Group[i]) : Worth(Group[i][n])
    <3>1. /\ q \in Seq(Instances) /\ ToSet(q) = ToSet(listed) \cup {i}
          /\ IsFiniteSet(ToSet(q)) /\ Cardinality(ToSet(q)) = Len(q)
      BY <2>2, ListsOneMore DEF Listing
    <3> QED BY <2>2, <3>1 DEF Listing
  <2> QED BY <1>2, <2>1, <2>2
<1>4. Group' = Group /\ Brief' = Brief /\ \A t : Worth(t)' = Worth(t)
  BY DEF Group, Brief, Worth, Clean, Diffs
<1>5. ASSUME NEW j \in Instances
      PROVE  /\ pc'[j] = "idle" /\ Group[j] # <<>> => j \in pending'
             /\ pc'[j] = "ended" /\ ~cancelled' => next'[j] > Len(Group[j])
             /\ Covered(j, pc'[j], next'[j], me'[j].stmts, ToSet(q))
  <2>1. CASE j = i
    BY <1>1, <1>2, <2>1
  <2>2. CASE j # i
    <3>1. /\ pc[j] = "idle" /\ Group[j] # <<>> => j \in pending
          /\ pc[j] = "ended" /\ ~cancelled => next[j] > Len(Group[j])
          /\ Covered(j, pc[j], next[j], me[j].stmts, ToSet(listed))
      BY DEF Listing
    <3>2. Covered(j, pc[j], next[j], me[j].stmts, ToSet(q))
      BY <1>3, <3>1 DEF Covered
    <3> QED BY <1>1, <2>2, <3>1, <3>2
  <2> QED BY <2>1, <2>2
<1>6. ASSUME NEW j \in Instances PROVE Covered(j, pc[j], next[j], me[j].stmts, ToSet(listed))'
  BY <1>2, <1>4, <1>5 DEF Covered
<1> QED BY <1>2, <1>3, <1>4, <1>5, <1>6 DEF Listing

\* The goroutine stays on its target, or gives it up.
LEMMA ListsOn ==
    ASSUME PushInv, Listing, NEW i \in Instances, UNCHANGED <<job, found>>,
           \/ Spawn(i) \/ Loop(i) \/ Introspect(i) \/ StripCheck(i) \/ StripAssign(i)
           \/ StripNil(i) \/ Verify(i) \/ BuildStatements(i) \/ Lint(i)
    PROVE  Listing'
<1>. /\ pc \in [Instances -> Labels] /\ next \in [Instances -> Nat \ {0}] /\ Standing /\ MeShape
     /\ next[i] \in Nat \ {0} /\ Len(Group[i]) \in Nat /\ pending \subseteq Instances
     /\ Staged(i, pc[i], next[i], me[i].stmts) /\ me[i].stmts \in Seq(ObjectDiffs)
     /\ Covered(i, pc[i], next[i], me[i].stmts, ToSet(listed)) /\ (cancelled => err # 0)
  BY Command, LocalWrites DEF PushInv, Shape, Steady, Listing
<1>1. /\ UNCHANGED <<listed, next>> /\ pending \ {i} \subseteq pending'
      /\ (cancelled => cancelled') /\ (cancelled' => err' # 0)
  BY DEF Spawn, Loop, Introspect, StripCheck, StripAssign, StripNil, Verify,
         BuildStatements, Lint, Go, Fail, printer
<1>2. ASSUME NEW l \in Labels \ {"idle"}, NEW s, Moves(i, l, next[i], s),
             l = "ended" /\ ~cancelled' => next[i] > Len(Group[i]),
             Covered(i, l, next[i], s, ToSet(listed))
      PROVE  Listing'
  BY <1>1, <1>2, ListsMove
<1>3. ASSUME NEW l \in Labels \ {"idle", "print", "execute", "merge", "merging"}, NEW s,
             Moves(i, l, next[i], s), l = "ended" /\ ~cancelled' => next[i] > Len(Group[i])
      PROVE  Listing'
  <2>1. Covered(i, l, next[i], s, ToSet(listed))
    BY DEF Covered, Executing
  <2> QED BY <1>2, <1>3, <2>1
<1>4. ASSUME NEW l, UNCHANGED me, pc' = [pc EXCEPT ![i] = l]
      PROVE  Moves(i, l, next[i], me[i].stmts)
  BY <1>1, <1>4, LocalWrites DEF Moves
<1>5. CASE Spawn(i) \/ StripAssign(i) \/ StripNil(i)
  <2>1. UNCHANGED me /\ \E l \in {"loop", "stripped", "verify"} : pc' = [pc EXCEPT ![i] = l]
    BY <1>5 DEF Spawn, StripAssign, StripNil, Go
  <2> QED BY <1>3, <1>4, <2>1 DEF Labels
<1>6. CASE Loop(i)
  <2>1. CASE next[i] > Len(Group[i]) \/ cancelled
    <3>1. UNCHANGED me /\ pc' = [pc EXCEPT ![i] = "ended"]
      BY <1>6, <2>1 DEF Loop, Go
    <3> QED BY <1>1, <1>3, <1>4, <2>1, <3>1 DEF Labels
  <2>2. CASE ~(next[i] > Len(Group[i]) \/ cancelled)
    <3>1. pc' = [pc EXCEPT ![i] = "introspect"] /\ me' = [me EXCEPT ![i] = Fresh]
      BY <1>6, <2>2 DEF Loop, Go
    <3>2. Moves(i, "introspect", next[i], <<>>)
      BY <1>1, <3>1, LocalWrites DEF Moves
    <3> QED BY <1>3, <3>2 DEF Labels
  <2> QED BY <2>1, <2>2
<1>7. CASE Introspect(i) \/ Verify(i)
  <2>1. /\ UNCHANGED me
        /\ \E l \in {"strip", "verify", "plan", "ended"} :
              pc' = [pc EXCEPT ![i] = l] /\ (l = "ended" => cancelled')
    BY <1>7 DEF Introspect, Verify, Go, Fail
  <2> QED BY <1>3, <1>4, <2>1 DEF Labels
<1>8. CASE StripCheck(i)
  <2>1. PICK l \in {"stripping", "verify"} : pc' = [pc EXCEPT ![i] = l]
    BY <1>8 DEF StripCheck, Go
  <2>2. UNCHANGED me \/ \E x \in BOOLEAN : me' = [me EXCEPT ![i].suffix = x]
    BY <1>8 DEF StripCheck
  <2>3. Moves(i, l, next[i], me[i].stmts)
    BY <1>1, <1>4, <2>1, <2>2, LocalWrites DEF Moves
  <2> QED BY <1>3, <2>3 DEF Labels
<1>9. ASSUME pc[i] \in {"plan", "lint"} PROVE Target(i) \in Targets /\ next[i] \in 1..Len(Group[i])
  BY <1>9, Command DEF Staged, Target
<1>10. CASE BuildStatements(i)
  <2>1. pc[i] = "plan"
    BY <1>10 DEF BuildStatements
  <2>2. PICK t \in Targets : t = Target(i) /\ t = Group[i][next[i]]
    BY <1>9, <2>1 DEF Target
  <2>3. Plan(job, t) \in Seq(ObjectDiffs) /\ Diffs[t] \in Seq(ObjectDiffs)
    BY Command
  <2>4. \E x : me' = [me EXCEPT ![i].stmts = Plan(job, t), ![i].result = x]
    BY <1>10, <2>2 DEF BuildStatements
  <2>5. CASE Len(Reached(job, t)) < Len(Diffs[t])
    <3>1. pc' = [pc EXCEPT ![i] = "merge"]
      BY <1>10, <2>2, <2>5 DEF BuildStatements, Go
    <3>2. Moves(i, "merge", next[i], Plan(job, t))
      BY <1>1, <2>3, <2>4, <3>1, LocalWrites DEF Moves
    <3>3. ~Clean(t)
      <4>1. Len(Diffs[t]) \in Nat
        BY <2>3, LenProperties
      <4> QED BY <2>5, <4>1 DEF Clean
    <3>4. Covered(i, "merge", next[i], Plan(job, t), ToSet(listed))
      BY <2>2, <3>3 DEF Covered, Executing, Worth
    <3> QED BY <1>2, <3>2, <3>4 DEF Labels
  <2>6. CASE ~(Len(Reached(job, t)) < Len(Diffs[t]))
    <3>1. pc' = [pc EXCEPT ![i] = "lint"]
      BY <1>10, <2>2, <2>6 DEF BuildStatements, Go
    <3>2. Moves(i, "lint", next[i], Plan(job, t))
      BY <1>1, <2>3, <2>4, <3>1, LocalWrites DEF Moves
    <3> QED BY <1>3, <3>2 DEF Labels
  <2> QED BY <2>5, <2>6
<1>11. CASE Lint(i)
  <2>1. pc[i] = "lint"
    BY <1>11 DEF Lint
  <2>2. me[i].stmts = Plan(job, Group[i][next[i]])
    BY <2>1 DEF Staged
  <2>3. CASE UNCHANGED me /\ pc' = [pc EXCEPT ![i] = "ended"] /\ cancelled'
    BY <1>3, <1>4, <2>3 DEF Labels
  <2>4. CASE ~Brief /\ pc' = [pc EXCEPT ![i] = "merge"] /\ \E x : me' = [me EXCEPT ![i].result.skip = x]
    <3>1. Moves(i, "merge", next[i], me[i].stmts)
      BY <1>1, <2>4, LocalWrites DEF Moves
    <3>2. Covered(i, "merge", next[i], me[i].stmts, ToSet(listed))
      BY <2>4 DEF Covered, Executing
    <3> QED BY <1>2, <3>1, <3>2 DEF Labels
  <2>5. CASE UNCHANGED me /\ pc' = [pc EXCEPT ![i] = "print"]
    <3>1. Covered(i, "print", next[i], me[i].stmts, ToSet(listed))
      BY <2>2 DEF Covered, Executing
    <3> QED BY <1>2, <1>4, <2>5, <3>1 DEF Labels
  <2> QED BY <1>11, <2>3, <2>4, <2>5 DEF Lint, Go, Fail
<1> QED BY <1>5, <1>6, <1>7, <1>8, <1>10, <1>11

\* It prints, executes or merges.
LEMMA ListsLate ==
    ASSUME PushInv, Listing, NEW i \in Instances, UNCHANGED <<job, found>>,
           PrintStatement(i) \/ Execute(i) \/ MergeRead(i) \/ MergeWrite(i)
    PROVE  Listing'
<1>. /\ pc \in [Instances -> Labels] /\ next \in [Instances -> Nat \ {0}] /\ Standing /\ MeShape
     /\ next[i] \in Nat \ {0} /\ Len(Group[i]) \in Nat /\ pending \subseteq Instances
     /\ Staged(i, pc[i], next[i], me[i].stmts) /\ me[i].stmts \in Seq(ObjectDiffs)
     /\ Covered(i, pc[i], next[i], me[i].stmts, ToSet(listed)) /\ (cancelled => err # 0)
  BY Command, LocalWrites DEF PushInv, Shape, Steady, Listing
<1>1. UNCHANGED <<pending, cancelled, err>>
  BY DEF PrintStatement, Execute, MergeRead, MergeWrite, Go
<1>2. ASSUME NEW l \in Labels \ {"idle", "ended"}, NEW k \in Nat \ {0}, NEW s, Moves(i, l, k, s),
             UNCHANGED listed, Covered(i, l, k, s, ToSet(listed))
      PROVE  Listing'
  BY <1>1, <1>2, ListsMove
<1>3. CASE PrintStatement(i) /\ me[i].stmts = <<>>
  <2>1. UNCHANGED <<me, next, listed>> /\ pc' = [pc EXCEPT ![i] = "merge"] /\ pc[i] = "print"
    BY <1>3 DEF PrintStatement, Go, printer
  <2>2. Moves(i, "merge", next[i], me[i].stmts)
    BY <2>1, LocalWrites DEF Moves
  <2>3. Covered(i, "merge", next[i], me[i].stmts, ToSet(listed))
    BY <1>3, <2>1 DEF Covered, Worth, Executing
  <2> QED BY <1>2, <2>1, <2>2, <2>3 DEF Labels
<1>4. CASE PrintStatement(i) /\ me[i].stmts # <<>>
  <2>1. UNCHANGED <<me, next>> /\ pc' = [pc EXCEPT ![i] = "execute"] /\ pc[i] = "print"
    BY <1>4 DEF PrintStatement, Go
  <2>2. Moves(i, "execute", next[i], me[i].stmts)
    BY <2>1, LocalWrites DEF Moves
  <2>3. next[i] \in 1..Len(Group[i]) /\ Worth(Group[i][next[i]])
    BY <1>4, <2>1 DEF Staged, Covered, Worth, Executing
  <2>4. CASE ~Brief
    <3>1. UNCHANGED listed
      BY <1>4, <2>4 DEF PrintStatement
    <3>2. Covered(i, "execute", next[i], me[i].stmts, ToSet(listed))
      BY <2>3, <2>4 DEF Covered, Worth
    <3> QED BY <1>2, <2>2, <3>1, <3>2 DEF Labels
  <2>5. CASE Brief
    <3>1. listed' = PrintBrief(i)
      BY <1>4, <2>5 DEF PrintStatement
    <3>2. i \in ToSet(listed')
      <4>1. CASE i \in ToSet(listed)
        BY <3>1, <4>1 DEF PrintBrief
      <4>2. CASE i \notin ToSet(listed)
        <5>1. i \in ToSet(Append(listed, i))
          BY <4>2, ListsOneMore DEF Listing
        <5> QED BY <3>1, <4>2, <5>1 DEF PrintBrief
      <4> QED BY <4>1, <4>2
    <3>3. Covered(i, "execute", next[i], me[i].stmts, ToSet(listed'))
      BY <2>3, <3>2 DEF Covered, Worth
    <3>4. \/ UNCHANGED listed
          \/ i \notin ToSet(listed) /\ listed' = Append(listed, i)
      BY <3>1 DEF PrintBrief
    <3>5. "execute" \in Labels \ {"idle"}
      BY DEF Labels
    <3> QED BY <1>1, <2>2, <2>3, <3>3, <3>4, <3>5, ListsMove
  <2> QED BY <2>4, <2>5
<1>5. CASE Execute(i)
  <2>1. UNCHANGED <<next, listed>> /\ pc[i] = "execute"
    BY <1>5 DEF Execute, Go, printer
  <2>2. /\ next[i] \in 1..Len(Group[i]) /\ Worth(Group[i][next[i]]) /\ me[i].stmts # <<>>
        /\ Brief => i \in ToSet(listed)
    BY <2>1 DEF Staged, Covered, Worth, Executing
  <2>3. CASE me' = [me EXCEPT ![i].stmts = Tail(me[i].stmts)] /\ Go(i, "print")
    <3>1. Tail(me[i].stmts) \in Seq(ObjectDiffs)
      BY <2>2, HeadTailProperties
    <3>2. Moves(i, "print", next[i], Tail(me[i].stmts))
      BY <2>1, <2>3, <3>1, LocalWrites DEF Moves, Go
    <3>3. Covered(i, "print", next[i], Tail(me[i].stmts), ToSet(listed))
      BY <2>2 DEF Covered, Worth
    <3> QED BY <1>2, <2>1, <3>2, <3>3 DEF Labels
  <2>4. CASE ~DryRun /\ Go(i, "merge") /\ \E x : me' = [me EXCEPT ![i].result.skip = x]
    <3>1. Moves(i, "merge", next[i], me[i].stmts)
      BY <2>1, <2>4, LocalWrites DEF Moves, Go
    <3>2. Covered(i, "merge", next[i], me[i].stmts, ToSet(listed))
      BY <2>4, Command DEF Covered, Executing
    <3> QED BY <1>2, <2>1, <3>1, <3>2 DEF Labels
  <2> QED BY <1>5, <2>3, <2>4 DEF Execute
<1>6. CASE MergeRead(i)
  <2>1. /\ UNCHANGED <<next, listed>> /\ pc[i] = "merge" /\ pc' = [pc EXCEPT ![i] = "merging"]
        /\ me' = [me EXCEPT ![i].copy = sum]
    BY <1>6 DEF MergeRead, Go, printer
  <2>2. Moves(i, "merging", next[i], me[i].stmts)
    BY <2>1, LocalWrites DEF Moves
  <2>3. Covered(i, "merging", next[i], me[i].stmts, ToSet(listed))
    BY <2>1 DEF Covered, Executing
  <2> QED BY <1>2, <2>1, <2>2, <2>3 DEF Labels
<1>7. CASE MergeWrite(i)
  <2>1. /\ UNCHANGED <<me, listed>> /\ pc[i] = "merging" /\ pc' = [pc EXCEPT ![i] = "loop"]
        /\ next' = [next EXCEPT ![i] = next[i] + 1] /\ next[i] + 1 \in Nat \ {0}
    BY <1>7 DEF MergeWrite, printer
  <2>2. Moves(i, "loop", next[i] + 1, me[i].stmts)
    BY <2>1, LocalWrites DEF Moves
  <2>3. \A n \in 1..Len(Group[i]) : n < next[i] + 1 => n < next[i] \/ n = next[i]
    OBVIOUS
  <2>4. Covered(i, "loop", next[i] + 1, me[i].stmts, ToSet(listed))
    BY <2>1, <2>3 DEF Covered, Executing
  <2> QED BY <1>2, <2>1, <2>2, <2>4 DEF Labels
<1> QED BY <1>3, <1>4, <1>5, <1>6, <1>7

LEMMA ListingStep ==
    ASSUME PushInv, Listing, [Next /\ UNCHANGED <<job, found>>]_<<vars, job, found>>
    PROVE  Listing'
<1>0. UNCHANGED <<job, found>>
  OBVIOUS
<1>1. ASSUME UNCHANGED <<job, found, listed, pending, pc, next, me, cancelled, err>> PROVE Listing'
  BY <1>1 DEF Listing, Covered, Worth, Clean, Diffs, Brief, Group
<1>2. CASE Wait \/ UNCHANGED <<vars, job, found>> \/ Exited
  <2>1. UNCHANGED <<listed, pending, pc, next, me, cancelled, err>>
    BY <1>2 DEF Wait, Exited, vars, goroutine, printer
  <2> QED BY <1>0, <1>1, <2>1
<1>3. CASE \E i \in Instances : Spawn(i) \/ Goroutine(i)
  <2>1. PICK i \in Instances : Spawn(i) \/ Goroutine(i)
    BY <1>3
  <2>2. CASE PrintStatement(i) \/ Execute(i) \/ MergeRead(i) \/ MergeWrite(i)
    BY <1>0, <2>2, ListsLate
  <2>3. CASE \/ Spawn(i) \/ Loop(i) \/ Introspect(i) \/ StripCheck(i) \/ StripAssign(i)
             \/ StripNil(i) \/ Verify(i) \/ BuildStatements(i) \/ Lint(i)
    BY <1>0, <2>3, ListsOn
  <2> QED BY <2>1, <2>2, <2>3 DEF Goroutine
<1> QED BY <1>2, <1>3 DEF Next, Main

LEMMA ListingInit == Init => Listing
<1> SUFFICES ASSUME Init PROVE Listing
  OBVIOUS
<1>1. listed = <<>> /\ listed \in Seq(Instances) /\ Len(listed) = 0 /\ DOMAIN listed = {}
  <2>1. listed = <<>> /\ listed \in Seq(Instances)
    BY EmptySeq DEF Init
  <2>2. Len(listed) = 0 /\ DOMAIN listed = 1..Len(listed)
    BY <2>1, EmptySeq, LenProperties
  <2> QED BY <2>1, <2>2
<1>2. ToSet(listed) = {}
  BY <1>1 DEF ToSet
<1>3. IsFiniteSet({}) /\ Cardinality({}) = 0
  BY FS_EmptySet
<1>4. ASSUME NEW i \in Instances
      PROVE  /\ pc[i] = "idle" /\ next[i] = 1 /\ (Group[i] # <<>> => i \in pending)
             /\ \A n \in 1..Len(Group[i]) : ~(n < 1)
  <2>1. Standing
    BY PushInit DEF PushInv
  <2>2. Len(Group[i]) \in Nat
    BY <2>1, Command
  <2>3. pc[i] = "idle" /\ next[i] = 1 /\ (Group[i] # <<>> => i \in pending)
    BY DEF Init
  <2>4. \A n \in 1..Len(Group[i]) : ~(n < 1)
    BY <2>2
  <2> QED BY <2>3, <2>4
<1>5. ASSUME NEW i \in Instances PROVE Covered(i, pc[i], next[i], me[i].stmts, ToSet(listed))
  BY <1>4 DEF Covered, Executing
<1>6. cancelled = FALSE
  BY DEF Init
<1> QED BY <1>1, <1>2, <1>3, <1>4, <1>5, <1>6 DEF Listing

LEMMA ListingInvariance == Spec => []Listing
<1>1. PushInv /\ Listing /\ [Next /\ UNCHANGED <<job, found>>]_<<vars, job, found>> => Listing'
  BY ListingStep
<1> QED BY <1>1, PushInvariance, ListingInit, PTL DEF Spec

\* When the command ends without an error, every goroutine is behind its last target.
LEMMA EndedAfterAll ==
    ASSUME PushInv, Listing, exit # None, err = 0, NEW i \in Instances, NEW n \in 1..Len(Group[i])
    PROVE  n < next[i]
<1>1. Standing /\ Len(Group[i]) \in Nat /\ next[i] \in Nat
  BY Command DEF PushInv, Shape
<1>2. Group[i] # <<>>
  BY EmptySeq
<1>3. pc[i] \in {"idle", "ended"} /\ pending = {} /\ ~cancelled
  BY DEF PushInv, Shape, Listing
<1>4. next[i] > Len(Group[i])
  BY <1>2, <1>3 DEF Listing
<1> QED BY <1>1, <1>4

----------------------------------------------------------------------------
(* Where the printed statements would run                                  *)

\* The fields of the printer and of its reader, for schema names in S.
Fields(S) == [instance : Instances \cup {None}, schema : S, delimiter : {";", "//", ""}]

\* The printer knows what its reader is set to.
InStep == \E S : last \in Fields(S) /\ reader = last

\* The stages of Print: the printer and its reader stay in step, because a USE is
\* only printed when "DELIMITER ;" was, and they end up where the statement is to run.
LEMMA PrintedInStep ==
    ASSUME NEW S, NEW T, NEW x \in Fields(S), NEW cs \in Fields(T), last = x, reader = x
    PROVE  /\ \E U : Printed(cs).last \in Fields(U) /\ Printed(cs).reader = Printed(cs).last
           /\ Printed(cs).last.instance = cs.instance
           /\ cs.schema \in {"", Printed(cs).last.schema}
           /\ cs.delimiter \in {"", Printed(cs).last.delimiter}
<1> DEFINE U == S \cup T \cup {""}
           Pair(y) == [last |-> y, reader |-> y]
<1>1. PICK a : a = IF x.delimiter # ";" /\ (cs.instance # x.instance \/ cs.schema # x.schema)
                   THEN [x EXCEPT !.delimiter = ";"] ELSE x
  OBVIOUS
<1>2. /\ a \in Fields(U) /\ a.instance = x.instance /\ a.schema = x.schema
      /\ a.delimiter # ";" => cs.instance = a.instance /\ cs.schema = a.schema
      /\ Restore(Pair(x), cs) = Pair(a)
  <2>1. /\ a \in Fields(U) /\ a.instance = x.instance /\ a.schema = x.schema
        /\ a.delimiter # ";" => cs.instance = a.instance /\ cs.schema = a.schema
    BY <1>1 DEF Fields
  <2>2. ReadLine(x, <<"delimiter", ";">>) = [x EXCEPT !.delimiter = ";"]
    BY DEF ReadLine
  <2>3. Restore(Pair(x), cs) = Pair(a)
    BY <1>1, <2>2 DEF Restore, Line
  <2> QED BY <2>1, <2>3
<1>3. PICK b : b = IF cs.instance # a.instance
                   THEN [a EXCEPT !.instance = cs.instance, !.schema = ""] ELSE a
  OBVIOUS
<1>4. /\ b \in Fields(U) /\ b.instance = cs.instance
      /\ b.delimiter # ";" => cs.schema = b.schema
      /\ SwitchInstance(Pair(a), cs) = Pair(b)
  <2>1. /\ b \in Fields(U) /\ b.instance = cs.instance
        /\ b.delimiter # ";" => cs.schema = b.schema
    BY <1>2, <1>3 DEF Fields
  <2>2. ReadLine(a, <<"instance", cs.instance>>) = [a EXCEPT !.instance = cs.instance, !.schema = ""]
    BY DEF ReadLine
  <2>3. SwitchInstance(Pair(a), cs) = Pair(b)
    BY <1>3, <2>2 DEF SwitchInstance, Line
  <2> QED BY <2>1, <2>3
<1>5. PICK c : c = IF cs.schema # b.schema /\ cs.schema # ""
                   THEN [b EXCEPT !.schema = cs.schema] ELSE b
  OBVIOUS
<1>6. /\ c \in Fields(U) /\ c.instance = cs.instance /\ cs.schema \in {"", c.schema}
      /\ Use(Pair(b), cs) = Pair(c)
  <2>1. /\ c \in Fields(U) /\ c.instance = cs.instance /\ cs.schema \in {"", c.schema}
    BY <1>4, <1>5 DEF Fields
  <2>2. b.delimiter = ";" => ReadLine(b, <<"use", cs.schema>>) = [b EXCEPT !.schema = cs.schema]
    BY DEF ReadLine
  <2>3. Use(Pair(b), cs) = Pair(c)
    BY <1>4, <1>5, <2>2 DEF Use, Line
  <2> QED BY <2>1, <2>3
<1>7. PICK d : d = IF cs.delimiter # c.delimiter /\ cs.delimiter # ""
                   THEN [c EXCEPT !.delimiter = cs.delimiter] ELSE c
  OBVIOUS
<1>8. /\ d \in Fields(U) /\ d.instance = cs.instance /\ cs.schema \in {"", d.schema}
      /\ cs.delimiter \in {"", d.delimiter} /\ Delimit(Pair(c), cs) = Pair(d)
  <2>1. /\ d \in Fields(U) /\ d.instance = cs.instance /\ cs.schema \in {"", d.schema}
        /\ cs.delimiter \in {"", d.delimiter}
    BY <1>6, <1>7 DEF Fields
  <2>2. ReadLine(c, <<"delimiter", cs.delimiter>>) = [c EXCEPT !.delimiter = cs.delimiter]
    BY DEF ReadLine
  <2>3. Delimit(Pair(c), cs) = Pair(d)
    BY <1>7, <2>2 DEF Delimit, Line
  <2> QED BY <2>1, <2>3
<1>9. Printed(cs) = Pair(d)
  BY <1>2, <1>4, <1>6, <1>8 DEF Printed
<1>10. Printed(cs).last = d /\ Printed(cs).reader = d
  BY <1>9
<1>11. \E V : d \in Fields(V)
  BY <1>8
<1> QED BY <1>8, <1>10, <1>11

\* A goroutine that prints is on a target, so that what it prints has the fields of
\* a statement.
LEMMA Printing ==
    ASSUME PushInv, InStep, NEW i \in Instances, PrintStatement(i), me[i].stmts # <<>>, ~Brief
    PROVE  LET cs == ClientState(i, Head(me[i].stmts))
           IN  /\ \E S : last' \in Fields(S) /\ reader' = last'
               /\ last'.instance = cs.instance
               /\ cs.schema \in {"", last'.schema}
               /\ cs.delimiter \in {"", last'.delimiter}
<1>1. PICK S : last \in Fields(S) /\ reader = last
  BY DEF InStep
<1>2. Head(me[i].stmts) \in ObjectDiffs
  BY LocalWrites, HeadTailProperties DEF PushInv
<1>3. PICK cs : cs = ClientState(i, Head(me[i].stmts))
  OBVIOUS
<1>4. cs \in Fields({"", Target(i).schema})
  BY <1>2, <1>3 DEF ClientState, Fields, ObjectDiffs
<1>5. last' = Printed(cs).last /\ reader' = Printed(cs).reader
  BY <1>3 DEF PrintStatement
<1>6. /\ \E U : Printed(cs).last \in Fields(U) /\ Printed(cs).reader = Printed(cs).last
      /\ Printed(cs).last.instance = cs.instance
      /\ cs.schema \in {"", Printed(cs).last.schema}
      /\ cs.delimiter \in {"", Printed(cs).last.delimiter}
  BY <1>1, <1>4, PrintedInStep
<1> QED BY <1>3, <1>5, <1>6

LEMMA PrinterStep ==
    ASSUME PushInv, InStep, [Next /\ UNCHANGED <<job, found>>]_<<vars, job, found>>
    PROVE  InStep'
<1>1. CASE UNCHANGED <<last, reader>>
  BY <1>1 DEF InStep, Fields
<1>2. CASE \E i \in Instances : PrintStatement(i)
  <2>1. PICK i \in Instances : PrintStatement(i)
    BY <1>2
  <2>2. CASE me[i].stmts # <<>> /\ ~Brief
    <3>1. \E S : last' \in Fields(S) /\ reader' = last'
      BY <2>1, <2>2, Printing
    <3> QED BY <3>1 DEF InStep, Fields
  <2>3. CASE me[i].stmts = <<>> \/ Brief
    BY <1>1, <2>1, <2>3 DEF PrintStatement, printer
  <2> QED BY <2>2, <2>3
<1>3. CASE ~\E i \in Instances : PrintStatement(i)
  <2>1. CASE UNCHANGED <<vars, job, found>> \/ Wait \/ Exited
    BY <1>1, <2>1 DEF Wait, Exited, vars, printer
  <2>2. CASE \E i \in Instances : Spawn(i) \/ Goroutine(i)
    <3>1. UNCHANGED printer
      BY <1>3, <2>2 DEF Goroutine, Spawn, Loop, Introspect, StripCheck, StripAssign, StripNil,
                        Verify, BuildStatements, Lint, Execute, MergeRead, MergeWrite
    <3> QED BY <1>1, <3>1 DEF printer
  <2> QED BY <2>1, <2>2 DEF Next, Main
<1> QED BY <1>2, <1>3

\* Only PrintStatement(i) takes goroutine i from "print" to "execute".
LEMMA OnlyPrinting ==
    ASSUME PushInv, [Next /\ UNCHANGED <<job, found>>]_<<vars, job, found>>,
           NEW i \in Instances, pc[i] = "print", pc'[i] = "execute"
    PROVE  PrintStatement(i) /\ me[i].stmts # <<>>
<1>. pc \in [Instances -> Labels]
  BY DEF PushInv, Shape
<1>1. PICK j \in Instances : Spawn(j) \/ Goroutine(j)
  BY DEF Next, Main, Wait, Exited, vars, goroutine
<1>2. j = i
  <2>1. \E l : pc' = [pc EXCEPT ![j] = l]
    BY <1>1 DEF Goroutine, Spawn, Loop, Introspect, StripCheck, StripAssign, StripNil,
                Verify, BuildStatements, Lint, PrintStatement, Execute, MergeRead, MergeWrite,
                Go, Fail
  <2> QED BY <2>1
<1>3. PrintStatement(i)
  <2>1. ~Spawn(i)
    BY DEF Spawn, PushInv, Shape
  <2> QED BY <1>1, <1>2, <2>1 DEF Goroutine, Loop, Introspect, StripCheck, StripAssign,
             StripNil, Verify, BuildStatements, Lint, Execute, MergeRead, MergeWrite
<1>4. me[i].stmts # <<>>
  BY <1>3 DEF PrintStatement, Go
<1> QED BY <1>3, <1>4

\* Whichever goroutines printed before, a client that executes the output runs each
\* statement on its instance, in its schema and with its delimiter.
THEOREM StatementsAreRouted == Spec => OutputIsRouted
<1>1. Init => InStep
  <2>1. ASSUME Init PROVE last \in Fields({""}) /\ reader = last
    BY <2>1 DEF Init, Fields
  <2> QED BY <2>1 DEF InStep
<1>2. PushInv /\ InStep /\ [Next /\ UNCHANGED <<job, found>>]_<<vars, job, found>> => InStep'
  BY PrinterStep
<1>3. ASSUME PushInv, InStep, [Next /\ UNCHANGED <<job, found>>]_<<vars, job, found>>,
             NEW i \in Instances, pc[i] = "print", pc'[i] = "execute", ~Brief
      PROVE  LET cs == ClientState(i, Head(me[i].stmts))
             IN  /\ reader'.instance = cs.instance
                 /\ cs.schema \in {"", reader'.schema}
                 /\ cs.delimiter \in {"", reader'.delimiter}
  <2>1. PrintStatement(i) /\ me[i].stmts # <<>>
    BY <1>3, OnlyPrinting
  <2> QED BY <1>3, <2>1, Printing
<1>4. PushInv /\ InStep /\ [Next /\ UNCHANGED <<job, found>>]_<<vars, job, found>>
      => [\A i \in Instances :
             (pc[i] = "print" /\ pc'[i] = "execute" /\ ~Brief) =>
                 LET cs == ClientState(i, Head(me[i].stmts))
                 IN  /\ reader'.instance = cs.instance
                     /\ cs.schema \in {"", reader'.schema}
                     /\ cs.delimiter \in {"", reader'.delimiter}]_<<vars, job, found>>
  BY <1>3
<1> QED BY <1>1, <1>2, <1>4, PushInvariance, PTL DEF Spec, OutputIsRouted

----------------------------------------------------------------------------
(* What the exit code says                                                 *)

Results == [differences : BOOLEAN, skip : Nat, unsupported : Nat]

HasUnsupported(t) == \E k \in 1..Len(Diffs[t]) : Unsupported(Diffs[t][k])
HasDifference(t) == \E k \in 1..Len(Diffs[t]) : Differs(Diffs[t][k])

\* A target that the command gave up, wholly or in part.
Undone(t) == ~Clean(t) \/ (~DryRun /\ applied[t] # Plan(job, t))

\* Result r tells what target t is like, and whether it was given up ...
Seen(r, t) ==
    Clean(t) => (HasUnsupported(t) => r.unsupported > 0) /\ (HasDifference(t) => r.differences)

Reports(r, t) == (Undone(t) => r.skip > 0) /\ Seen(r, t)

\* ... and makes nothing up.
Honest(r) ==
    /\ r.unsupported > 0 => \E t \in Targets : HasUnsupported(t)
    /\ r.differences => \E t \in Targets : HasDifference(t)

\* The result of a goroutine at label l, on its k-th target.
Account(i, l, k, r) ==
    /\ r \in Results /\ Honest(r)
    /\ l \in {"lint", "print", "execute"} => Seen(r, Group[i][k])
    /\ l \in {"merge", "merging"} => Reports(r, Group[i][k])

\* The shared result q has been given those of the targets before the k-th.
Merged(i, k, q) == \A n \in 1..Len(Group[i]) : n < k => Reports(q, Group[i][n])

\* What the goroutines have reported; the mutex makes the copy that one of them
\* merges into the present value.
Tally ==
    /\ sum \in Results /\ Honest(sum) /\ (SkippedDirs > 0 => sum.skip > 0)
    /\ err \in {0, 2, 78} /\ (exit # None => exit = ExitCode)
    /\ me \in [Instances -> Locals(Results)]
    /\ \A i \in Instances :
          /\ Account(i, pc[i], next[i], me[i].result) /\ Merged(i, next[i], sum)
          /\ pc[i] = "merging" => sumLock = i /\ me[i].copy = sum

\* What is said of a result and a target only depends on what the target was given.
LEMMA Judged ==
    ASSUME UNCHANGED <<job, found>>, DOMAIN applied' = DOMAIN applied, NEW r, NEW t
    PROVE  /\ Targets' = Targets /\ Group' = Group /\ SkippedDirs' = SkippedDirs
           /\ Seen(r, t)' <=> Seen(r, t)
           /\ applied'[t] = applied[t] => (Reports(r, t)' <=> Reports(r, t))
           /\ Honest(r)' <=> Honest(r)
<1>1. Targets' = Targets /\ Group' = Group /\ SkippedDirs' = SkippedDirs
  BY DEF Targets, Group, SkippedDirs
<1>2. \A u : /\ HasUnsupported(u)' <=> HasUnsupported(u)
             /\ HasDifference(u)' <=> HasDifference(u)
             /\ Clean(u)' <=> Clean(u)
  BY DEF HasUnsupported, HasDifference, Clean, Diffs
<1>3. Seen(r, t)' <=> Seen(r, t)
  BY <1>2 DEF Seen
<1>4. applied'[t] = applied[t] => (Undone(t)' <=> Undone(t))
  BY <1>2 DEF Undone, DryRun
<1>5. applied'[t] = applied[t] => (Reports(r, t)' <=> Reports(r, t))
  BY <1>3, <1>4 DEF Reports
<1>6. Honest(r)' <=> Honest(r)
  BY <1>1, <1>2 DEF Honest
<1> QED BY <1>1, <1>3, <1>5, <1>6

\* The shared result reports at least as much after a step of goroutine i that takes
\* it to label l with local variables m; no other goroutine is merging if it changes.
Grows(i, l, m) ==
    /\ sum' \in Results /\ Honest(sum') /\ (sum.differences => sum'.differences)
    /\ sum'.skip >= sum.skip /\ sum'.unsupported >= sum.unsupported
    /\ \A j \in Instances \ {i} : pc[j] = "merging" => UNCHANGED <<sum, sumLock>>
    /\ l = "merging" => sumLock' = i /\ m.copy = sum'

\* The step executes at most a statement of the goroutine's own target.
OwnTargetOnly(i, l, k) ==
    /\ DOMAIN applied' = DOMAIN applied
    /\ \A j \in Instances : \A n \in 1..Len(Group[j]) : j # i \/ n # next[i] =>
           applied'[Group[j][n]] = applied[Group[j][n]]
    /\ applied' = applied \/ (l = "print" /\ k = next[i])

LEMMA Accounts ==
    ASSUME PushInv, Tally, NEW i \in Instances, NEW l, NEW k \in Nat \ {0}, NEW m \in Locals(Results),
           pc' = [pc EXCEPT ![i] = l], next' = [next EXCEPT ![i] = k], me' = [me EXCEPT ![i] = m],
           UNCHANGED <<job, found, exit>>, exit = None, err' \in {0, 2, 78},
           Grows(i, l, m), OwnTargetOnly(i, l, k), Account(i, l, k, m.result),
           k = next[i] \/ (k = next[i] + 1 /\ Reports(sum', Target(i)))
    PROVE  Tally'
<1>. Grows(i, l, m) /\ OwnTargetOnly(i, l, k)
  OBVIOUS
<1> USE DEF Grows, OwnTargetOnly
<1>. /\ pc \in [Instances -> Labels] /\ next \in [Instances -> Nat \ {0}] /\ Standing
     /\ me \in [Instances -> Locals(Results)] /\ sum \in Results
     /\ \A j \in Instances : /\ Account(j, pc[j], next[j], me[j].result) /\ Merged(j, next[j], sum)
                             /\ Staged(j, pc[j], next[j], me[j].stmts)
                             /\ pc[j] = "merging" => sumLock = j /\ me[j].copy = sum
  BY DEF PushInv, Shape, Steady, Tally
<1>1. /\ pc'[i] = l /\ next'[i] = k /\ me'[i] = m /\ me' \in [Instances -> Locals(Results)]
      /\ \A j \in Instances \ {i} : pc'[j] = pc[j] /\ next'[j] = next[j] /\ me'[j] = me[j]
  OBVIOUS
<1>2. PICK q \in Results : /\ q = sum' /\ q.skip >= sum.skip /\ q.unsupported >= sum.unsupported
                           /\ sum.differences => q.differences
  OBVIOUS
<1>3. \A t : Reports(sum, t) => Reports(q, t)
  <2>1. /\ sum.skip \in Nat /\ sum.unsupported \in Nat /\ q.skip \in Nat /\ q.unsupported \in Nat
    BY DEF Results
  <2>2. (sum.skip > 0 => q.skip > 0) /\ (sum.unsupported > 0 => q.unsupported > 0)
    BY <1>2, <2>1
  <2> QED BY <1>2, <2>2 DEF Reports, Seen
<1>4. ASSUME NEW j \in Instances
      PROVE  /\ Account(j, pc'[j], next'[j], me'[j].result)
             /\ pc'[j] = "merging" => sumLock' = j /\ me'[j].copy = q
  <2>1. CASE j = i
    BY <1>1, <1>2, <2>1
  <2>2. CASE j # i
    BY <1>1, <1>2, <2>2
  <2> QED BY <2>1, <2>2
<1>5. ASSUME NEW j \in Instances PROVE Merged(j, next[j], sum)'
  <2>1. ASSUME NEW n \in 1..Len(Group[j]), n < next'[j] PROVE Reports(q, Group[j][n])'
    <3>0. Len(Group[j]) \in Nat /\ n \in Nat /\ next[j] \in Nat
      BY Command
    <3>1. CASE n < next[j]
      <4>1. Reports(q, Group[j][n])
        BY <1>3, <3>1 DEF Merged
      <4>2. j # i \/ n # next[i]
        BY <3>0, <3>1
      <4>3. applied'[Group[j][n]] = applied[Group[j][n]]
        BY <4>2
      <4> QED BY <4>1, <4>3, Judged
    <3>2. CASE ~(n < next[j])
      <4>1. j = i /\ k = next[i] + 1 /\ n = next[i]
        <5>1. j = i /\ n < k /\ k # next[i]
          BY <1>1, <2>1, <3>2
        <5> QED BY <3>0, <3>2, <5>1
      <4>2. Reports(q, Group[j][n])
        BY <1>2, <3>0, <4>1 DEF Target
      <4>3. applied' = applied
        BY <3>0, <4>1
      <4> QED BY <4>2, <4>3, Judged
    <3> QED BY <3>1, <3>2
  <2>2. Group' = Group
    BY Judged
  <2> QED BY <1>2, <2>1, <2>2 DEF Merged
<1>6. ASSUME NEW j \in Instances PROVE Account(j, pc[j], next[j], me[j].result)'
  <2>0. PICK r, t, x : r = me'[j].result /\ x = pc'[j] /\ t = Group[j][next'[j]]
    OBVIOUS
  <2>1. /\ r \in Results /\ Honest(r)
        /\ x \in {"lint", "print", "execute"} => Seen(r, t)
        /\ x \in {"merge", "merging"} => Reports(r, t)
    BY <1>4, <2>0 DEF Account
  <2>2. Honest(r)'
    BY <2>1, Judged
  <2>3. ASSUME x \in {"lint", "print", "execute"} PROVE Seen(r, t)'
    BY <2>1, <2>3, Judged
  <2>4. ASSUME x \in {"merge", "merging"} PROVE Reports(r, t)'
    <3>1. applied'[t] = applied[t]
      <4>1. CASE j = i
        BY <1>1, <2>0, <2>4, <4>1
      <4>2. CASE j # i
        <5>1. next[j] \in 1..Len(Group[j]) /\ t = Group[j][next[j]]
          BY <1>1, <2>0, <2>4, <4>2 DEF Staged
        <5> QED BY <4>2, <5>1
      <4> QED BY <4>1, <4>2
    <3> QED BY <2>1, <2>4, <3>1, Judged
  <2>5. t = (Group[j][next[j]])'
    BY <2>0, Judged
  <2>6. Results' = Results
    BY DEF Results
  <2> QED BY <2>0, <2>1, <2>2, <2>3, <2>4, <2>5, <2>6 DEF Account
<1>7. Honest(sum)' /\ (SkippedDirs' > 0 => sum'.skip > 0)
  <2>1. Honest(q)'
    BY <1>2, Judged
  <2>2. SkippedDirs' = SkippedDirs /\ (SkippedDirs > 0 => sum.skip > 0)
    BY Judged DEF Tally
  <2>3. q.skip \in Nat /\ sum.skip \in Nat
    BY DEF Results
  <2>4. sum.skip > 0 => q.skip > 0
    BY <1>2, <2>3
  <2>5. Honest(sum)'
    BY <1>2, <2>1 DEF Honest
  <2> QED BY <1>2, <2>2, <2>4, <2>5
<1> QED BY <1>1, <1>2, <1>4, <1>5, <1>6, <1>7 DEF Tally, Locals, Results

\* The result of the loop over the object diffs.
LEMMA BuiltResult ==
    ASSUME Standing, NEW t \in Targets, NEW r,
           r = [differences |-> Len(Reached(job, t)) < Len(Diffs[t])
                                \/ \E k \in DOMAIN Reached(job, t) : Differs(Reached(job, t)[k]),
                unsupported |-> Cardinality({k \in DOMAIN Reached(job, t) :
                                                 Unsupported(Reached(job, t)[k])}),
                skip |-> IF Len(Reached(job, t)) < Len(Diffs[t]) THEN Len(Diffs[t]) ELSE 0]
    PROVE  /\ r \in Results /\ Honest(r) /\ Seen(r, t)
           /\ Len(Reached(job, t)) < Len(Diffs[t]) => Reports(r, t)
<1>1. PICK d, s : d = Diffs[t] /\ s = Reached(job, t)
  OBVIOUS
<1>2. d \in Seq(ObjectDiffs) /\ Len(d) \in Nat
  BY <1>1, Command, LenProperties
<1>3. /\ Len(s) \in Nat /\ Len(s) <= Len(d) /\ DOMAIN s = 1..Len(s)
      /\ \A k \in 1..Len(s) : s[k] = d[k] /\ ~Refused(job, d[k])
      /\ Len(s) < Len(d) => Refused(job, d[Len(s) + 1])
  BY <1>1, <1>2, ReachedStops DEF Diffs
<1> DEFINE U == {k \in DOMAIN s : Unsupported(s[k])}
<1>4. /\ Cardinality(U) \in Nat /\ (Cardinality(U) = 0 <=> U = {})
  <2>1. IsFiniteSet(1..Len(s)) /\ U \subseteq 1..Len(s)
    BY <1>3, FS_Interval
  <2>2. IsFiniteSet(U)
    <3> HIDE DEF U
    <3> QED BY <2>1, FS_Subset
  <2> HIDE DEF U
  <2> QED BY <2>2, FS_CardinalityType, FS_EmptySet
<1>5. /\ r.differences = (Len(s) < Len(d) \/ \E k \in DOMAIN s : Differs(s[k]))
      /\ r.unsupported = Cardinality(U)
      /\ r.skip = IF Len(s) < Len(d) THEN Len(d) ELSE 0
      /\ r = [differences |-> r.differences, unsupported |-> r.unsupported, skip |-> r.skip]
  BY <1>1
<1>6. r \in Results
  <2>1. r.differences \in BOOLEAN /\ r.unsupported \in Nat /\ r.skip \in Nat
    BY <1>2, <1>4, <1>5
  <2> QED BY <1>5, <2>1 DEF Results
<1> HIDE DEF U
<1>7. U # {} => HasUnsupported(t)
  <2>1. \A k \in 1..Len(s) : k \in 1..Len(d)
    BY <1>2, <1>3
  <2> QED BY <1>1, <1>3, <2>1 DEF U, HasUnsupported
<1>8. r.differences => HasDifference(t)
  <2>1. \A k \in 1..Len(s) : k \in 1..Len(d)
    BY <1>2, <1>3
  <2>2. CASE Len(s) < Len(d)
    <3>1. Len(s) + 1 \in 1..Len(d) /\ Refused(job, d[Len(s) + 1])
      BY <1>2, <1>3, <2>2
    <3>2. Differs(d[Len(s) + 1])
      BY <3>1 DEF Refused, Differs
    <3> QED BY <1>1, <3>1, <3>2 DEF HasDifference
  <2>3. CASE \E k \in DOMAIN s : Differs(s[k])
    BY <1>1, <1>3, <2>1, <2>3 DEF HasDifference
  <2> QED BY <1>5, <2>2, <2>3
<1>9. Honest(r)
  <2>1. r.unsupported > 0 => HasUnsupported(t)
    BY <1>4, <1>5, <1>7
  <2> QED BY <1>8, <2>1 DEF Honest
<1>10. Seen(r, t)
  <2>1. ASSUME Clean(t) PROVE Len(s) = Len(d)
    BY <1>1, <2>1 DEF Clean
  <2>2. ASSUME Clean(t), HasUnsupported(t) PROVE r.unsupported > 0
    <3>1. U # {}
      BY <1>1, <1>3, <2>1, <2>2 DEF U, HasUnsupported
    <3> QED BY <1>4, <1>5, <3>1
  <2>3. ASSUME Clean(t), HasDifference(t) PROVE r.differences
    BY <1>1, <1>3, <1>5, <2>1, <2>3 DEF HasDifference
  <2> QED BY <2>2, <2>3 DEF Seen
<1>11. Len(s) < Len(d) => r.skip > 0
  BY <1>2, <1>3, <1>5
<1> QED BY <1>1, <1>6, <1>9, <1>10, <1>11 DEF Reports

LEMMA TallyInit == Init => Tally
<1> SUFFICES ASSUME Init PROVE Tally
  OBVIOUS
<1>1. Standing
  BY PushInit DEF PushInv
<1>2. SkippedDirs \in Nat
  BY <1>1, PushAssumption DEF Standing, SkippedDirs
<1>3. NoResult \in Results /\ NoResult.unsupported = 0 /\ NoResult.differences = FALSE
  BY DEF NoResult, Results
<1>4. Honest(NoResult)
  BY <1>3 DEF Honest
<1>5. /\ sum \in Results /\ sum.skip = SkippedDirs /\ sum.unsupported = 0
      /\ sum.differences = FALSE
  BY <1>2 DEF Init, NoResult, Results
<1>6. Honest(sum)
  BY <1>5 DEF Honest
<1>7. Fresh \in Locals(Results) /\ Fresh.result = NoResult
  BY <1>3, EmptySeq DEF Fresh, Locals
<1>8. me \in [Instances -> Locals(Results)] /\ \A i \in Instances : me[i].result = NoResult
  BY <1>7 DEF Init
<1>9. \A i \in Instances : pc[i] = "idle" /\ next[i] = 1
  BY DEF Init
<1>10. ASSUME NEW i \in Instances
       PROVE  Account(i, pc[i], next[i], me[i].result) /\ Merged(i, next[i], sum)
  <2>1. Account(i, pc[i], next[i], me[i].result)
    BY <1>3, <1>4, <1>8, <1>9 DEF Account
  <2>2. \A n \in 1..Len(Group[i]) : ~(n < 1)
    BY <1>1, Command
  <2> QED BY <1>9, <2>1, <2>2 DEF Merged
<1>11. err = 0 /\ exit = None
  BY DEF Init
<1> QED BY <1>5, <1>6, <1>8, <1>9, <1>10, <1>11 DEF Tally

\* BuildStatements leaves the result in the local variables.
LEMMA BuiltLocals ==
    ASSUME Standing, me \in [Instances -> Locals(Results)], NEW i \in Instances,
           BuildStatements(i), NEW t \in Targets, t = Target(i)
    PROVE  \E m \in Locals(Results) :
               /\ me' = [me EXCEPT ![i] = m] /\ Honest(m.result) /\ Seen(m.result, t)
               /\ Len(Reached(job, t)) < Len(Diffs[t]) => Reports(m.result, t)
<1>1. PICK r :
         r = [differences |-> Len(Reached(job, t)) < Len(Diffs[t])
                                \/ \E k \in DOMAIN Reached(job, t) : Differs(Reached(job, t)[k]),
                unsupported |-> Cardinality({k \in DOMAIN Reached(job, t) :
                                                 Unsupported(Reached(job, t)[k])}),
                skip |-> IF Len(Reached(job, t)) < Len(Diffs[t]) THEN Len(Diffs[t]) ELSE 0]
  OBVIOUS
<1>2. /\ r \in Results /\ Honest(r) /\ Seen(r, t)
      /\ Len(Reached(job, t)) < Len(Diffs[t]) => Reports(r, t)
  BY <1>1, BuiltResult
<1>3. PICK s \in Seq(ObjectDiffs) : s = Plan(job, t)
  BY Command
<1>4. me' = [me EXCEPT ![i].stmts = s, ![i].result = r]
  BY <1>1, <1>3 DEF BuildStatements
<1>5. PICK m : m = [me[i] EXCEPT !.stmts = s, !.result = r]
  OBVIOUS
<1>6. m \in Locals(Results) /\ m.result = r
  BY <1>2, <1>5 DEF Locals
<1>7. me' = [me EXCEPT ![i] = m]
  BY <1>4, <1>5
<1> QED BY <1>2, <1>6, <1>7

LEMMA MoreSkips ==
    ASSUME NEW a \in Results, NEW n \in Nat, NEW r, r = [a EXCEPT !.skip = a.skip + n]
    PROVE  /\ r \in Results /\ r.skip = a.skip + n
           /\ r.unsupported = a.unsupported /\ r.differences = a.differences
BY DEF Results

Quiet == UNCHANGED <<next, sum, sumLock, applied, exit>>

\* A goroutine moves on its target and leaves all else alone.
LEMMA TallyMove ==
    ASSUME PushInv, Tally, NEW i \in Instances, NEW l, l # "merging", NEW m \in Locals(Results),
           pc' = [pc EXCEPT ![i] = l], me' = [me EXCEPT ![i] = m],
           UNCHANGED <<job, found>>, Quiet, exit = None,
           err' \in {0, 2, 78}, Account(i, l, next[i], m.result)
    PROVE  Tally'
<1>. next \in [Instances -> Nat \ {0}] /\ next[i] \in Nat \ {0} /\ sum \in Results /\ Honest(sum)
  BY DEF PushInv, Shape, Tally
<1>1. Grows(i, l, m)
  <2>1. sum.skip \in Nat /\ sum.unsupported \in Nat
    BY DEF Results
  <2>2. sum'.skip >= sum.skip /\ sum'.unsupported >= sum.unsupported
    BY <2>1 DEF Quiet
  <2> QED BY <2>2 DEF Quiet, Grows
<1>2. OwnTargetOnly(i, l, next[i])
  BY DEF Quiet, OwnTargetOnly
<1>3. next' = [next EXCEPT ![i] = next[i]] /\ exit' = exit
  BY DEF Quiet
<1>4. PICK k \in Nat \ {0} : k = next[i]
  OBVIOUS
<1>5. /\ next' = [next EXCEPT ![i] = k] /\ Account(i, l, k, m.result) /\ OwnTargetOnly(i, l, k)
      /\ k = next[i]
  BY <1>2, <1>3, <1>4
<1>6. UNCHANGED <<job, found, exit>>
  BY <1>3
<1>7. k = next[i] \/ (k = next[i] + 1 /\ Reports(sum', Target(i)))
  BY <1>5
<1> QED BY <1>1, <1>5, <1>6, <1>7, Accounts

LEMMA TallyBuild ==
    ASSUME PushInv, Tally, NEW i \in Instances, UNCHANGED <<job, found>>, BuildStatements(i)
    PROVE  Tally'
<1>1. /\ pc[i] = "plan" /\ UNCHANGED <<next, sum, sumLock, applied, exit, err>>
  BY DEF BuildStatements, Go, shared, history
<1>2. exit = None /\ err' \in {0, 2, 78} /\ Standing /\ me \in [Instances -> Locals(Results)]
  BY <1>1 DEF PushInv, Shape, Tally
<1>3. next[i] \in 1..Len(Group[i])
  BY <1>1 DEF PushInv, Steady, Staged
<1>4. PICK t \in Targets : t = Target(i) /\ t = Group[i][next[i]]
  BY <1>2, <1>3, Command DEF Target
<1>5. PICK m \in Locals(Results) :
             /\ me' = [me EXCEPT ![i] = m] /\ Honest(m.result) /\ Seen(m.result, t)
             /\ Len(Reached(job, t)) < Len(Diffs[t]) => Reports(m.result, t)
  BY <1>2, <1>4, BuiltLocals
<1>6. m.result \in Results
  BY DEF Locals
<1>7. CASE Len(Reached(job, t)) < Len(Diffs[t])
  <2>1. pc' = [pc EXCEPT ![i] = "merge"]
    BY <1>4, <1>7 DEF BuildStatements, Go
  <2>2. Account(i, "merge", next[i], m.result)
    BY <1>4, <1>5, <1>6, <1>7 DEF Account
  <2> QED BY <1>1, <1>2, <1>5, <2>1, <2>2, TallyMove DEF Quiet
<1>8. CASE ~(Len(Reached(job, t)) < Len(Diffs[t]))
  <2>1. pc' = [pc EXCEPT ![i] = "lint"]
    BY <1>4, <1>8 DEF BuildStatements, Go
  <2>2. Account(i, "lint", next[i], m.result)
    BY <1>4, <1>5, <1>6 DEF Account
  <2> QED BY <1>1, <1>2, <1>5, <2>1, <2>2, TallyMove DEF Quiet
<1> QED BY <1>7, <1>8

\* The other steps that leave the shared result and what was executed alone.
LEMMA TallyOn ==
    ASSUME PushInv, Tally, NEW i \in Instances, UNCHANGED <<job, found>>,
           \/ Spawn(i) \/ Loop(i) \/ Introspect(i) \/ StripCheck(i) \/ StripAssign(i)
           \/ StripNil(i) \/ Verify(i) \/ Lint(i) \/ PrintStatement(i)
    PROVE  Tally'
<1>. /\ pc \in [Instances -> Labels] /\ next \in [Instances -> Nat \ {0}] /\ Standing
     /\ me \in [Instances -> Locals(Results)] /\ sum \in Results /\ Honest(sum)
     /\ Account(i, pc[i], next[i], me[i].result) /\ err \in {0, 2, 78}
     /\ Staged(i, pc[i], next[i], me[i].stmts) /\ Progress(i, pc[i], next[i], me[i].stmts)
     /\ me[i] \in Locals(Results) /\ next[i] \in Nat \ {0}
  BY DEF PushInv, Shape, Steady, Tally
<1>. me[i].result \in Results /\ me[i].stmts \in Seq(ObjectDiffs) /\ Honest(me[i].result)
  BY DEF Locals, Account
<1>1. /\ UNCHANGED <<next, sum, sumLock, applied, exit>> /\ exit = None /\ err' \in {0, 2, 78}
      /\ pc[i] # "merging"
  <2>1. /\ UNCHANGED <<next, sum, sumLock, applied, exit>> /\ pc[i] # "merging"
        /\ (i \in pending \/ pc[i] \notin {"idle", "ended"})
    BY DEF Spawn, Loop, Introspect, StripCheck, StripAssign, StripNil, Verify,
           Lint, PrintStatement, Go, Fail, shared, history, PushInv, Shape
  <2>2. exit = None
    BY <2>1 DEF PushInv, Shape
  <2>3. err' = err \/ err' = 2 \/ err' = 78
    BY DEF Spawn, Loop, Introspect, StripCheck, StripAssign, StripNil, Verify,
           Lint, PrintStatement, Go, Fail
  <2> QED BY <2>1, <2>2, <2>3
<1>2. ASSUME NEW l, l # "merging", NEW m \in Locals(Results), pc' = [pc EXCEPT ![i] = l],
             me' = [me EXCEPT ![i] = m], Account(i, l, next[i], m.result)
      PROVE  Tally'
  BY <1>1, <1>2, TallyMove DEF Quiet
<1>3. ASSUME NEW l, l \notin {"lint", "print", "execute", "merge", "merging"},
             pc' = [pc EXCEPT ![i] = l], UNCHANGED me
      PROVE  Tally'
  <2>1. Account(i, l, next[i], me[i].result)
    BY <1>3 DEF Account
  <2>2. me' = [me EXCEPT ![i] = me[i]]
    BY <1>3
  <2> QED BY <1>2, <1>3, <2>1, <2>2
<1>4. CASE \/ Spawn(i) \/ StripAssign(i) \/ StripNil(i) \/ Introspect(i) \/ Verify(i)
  <2>1. UNCHANGED me
    BY <1>4 DEF Spawn, StripAssign, StripNil, Introspect, Verify, Fail
  <2>2. \E l \in {"loop", "stripped", "verify", "strip", "plan", "ended"} : pc' = [pc EXCEPT ![i] = l]
    BY <1>4 DEF Spawn, StripAssign, StripNil, Introspect, Verify, Go, Fail
  <2> QED BY <1>3, <2>1, <2>2
<1>5. CASE Loop(i)
  <2>1. CASE UNCHANGED me /\ pc' = [pc EXCEPT ![i] = "ended"]
    BY <1>3, <2>1
  <2>2. CASE me' = [me EXCEPT ![i] = Fresh] /\ pc' = [pc EXCEPT ![i] = "introspect"]
    <3>1. NoResult \in Results /\ NoResult.unsupported = 0 /\ NoResult.differences = FALSE
      BY DEF NoResult, Results
    <3>2. Fresh \in Locals(Results) /\ Fresh.result = NoResult
      BY <3>1, EmptySeq DEF Fresh, Locals
    <3>3. Account(i, "introspect", next[i], Fresh.result)
      BY <3>1, <3>2 DEF Account, Honest
    <3> QED BY <1>2, <2>2, <3>2, <3>3
  <2> QED BY <1>5, <2>1, <2>2 DEF Loop, Go
<1>6. CASE StripCheck(i)
  <2>1. PICK l \in {"stripping", "verify"} : pc' = [pc EXCEPT ![i] = l]
    BY <1>6 DEF StripCheck, Go
  <2>2. CASE UNCHANGED me
    BY <1>3, <2>1, <2>2
  <2>3. CASE \E x \in BOOLEAN : me' = [me EXCEPT ![i].suffix = x]
    <3>1. PICK x \in BOOLEAN : me' = [me EXCEPT ![i].suffix = x]
      BY <2>3
    <3>2. PICK m : m = [me[i] EXCEPT !.suffix = x]
      OBVIOUS
    <3>3. m \in Locals(Results) /\ m.result = me[i].result
      BY <3>2 DEF Locals
    <3>4. Account(i, l, next[i], m.result)
      BY <3>3 DEF Account
    <3> QED BY <1>2, <2>1, <3>1, <3>2, <3>3, <3>4
  <2> QED BY <1>6, <2>2, <2>3 DEF StripCheck
<1>7. ASSUME pc[i] \in {"lint", "print"}
      PROVE  next[i] \in 1..Len(Group[i]) /\ Target(i) \in Targets /\ Target(i) = Group[i][next[i]]
  BY <1>7, Command DEF Staged, Target
<1>8. CASE Lint(i)
  <2>1. pc[i] = "lint"
    BY <1>8 DEF Lint
  <2>2. PICK t \in Targets : t = Target(i) /\ t = Group[i][next[i]]
    BY <1>7, <2>1
  <2>3. Seen(me[i].result, t) /\ Clean(t) /\ applied[t] = <<>>
    <3>1. "lint" \in Early /\ next[i] \in 1..Len(Group[i])
      BY <1>7, <2>1 DEF Early, Labels
    <3> QED BY <2>1, <2>2, <3>1 DEF Account, Staged, Progress
  <2>4. CASE UNCHANGED me /\ pc' = [pc EXCEPT ![i] = "ended"]
    BY <1>3, <2>4
  <2>5. CASE UNCHANGED me /\ pc' = [pc EXCEPT ![i] = "print"]
    <3>1. Account(i, "print", next[i], me[i].result)
      BY <2>2, <2>3 DEF Account
    <3>2. me' = [me EXCEPT ![i] = me[i]]
      BY <2>5
    <3> QED BY <1>2, <2>5, <3>1, <3>2
  <2>6. CASE /\ me' = [me EXCEPT ![i].result.skip = me[i].result.skip + Len(Diffs[t])]
             /\ pc' = [pc EXCEPT ![i] = "merge"]
    <3>1. PICK r : r = [me[i].result EXCEPT !.skip = me[i].result.skip + Len(Diffs[t])]
      OBVIOUS
    <3>2. Len(Diffs[t]) \in Nat /\ me[i].result.skip \in Nat
      BY Command, LenProperties DEF Results
    <3>3. /\ r \in Results /\ r.skip = me[i].result.skip + Len(Diffs[t])
          /\ r.unsupported = me[i].result.unsupported /\ r.differences = me[i].result.differences
      <4>1. PICK a \in Results, n \in Nat : a = me[i].result /\ n = Len(Diffs[t])
        BY <3>2
      <4>2. r = [a EXCEPT !.skip = a.skip + n]
        BY <3>1, <4>1
      <4> QED BY <4>1, <4>2, MoreSkips
    <3>4. Honest(r) /\ Seen(r, t)
      BY <2>3, <3>3 DEF Honest, Seen
    <3>5. ASSUME Undone(t) PROVE r.skip > 0
      <4>1. Plan(job, t) # <<>>
        BY <2>3, <3>5 DEF Undone
      <4>2. Len(Plan(job, t)) \in Nat /\ Len(Plan(job, t)) # 0 /\ Len(Plan(job, t)) <= Len(Diffs[t])
        BY <4>1, Command, EmptySeq, LenProperties
      <4> QED BY <3>2, <3>3, <4>2
    <3>6. PICK m : m = [me[i] EXCEPT !.result = r]
      OBVIOUS
    <3>7. m \in Locals(Results) /\ m.result = r
      BY <3>3, <3>6 DEF Locals
    <3>8. me' = [me EXCEPT ![i] = m]
      BY <2>6, <3>1, <3>6
    <3>9. Account(i, "merge", next[i], m.result)
      BY <2>2, <3>3, <3>4, <3>5, <3>7 DEF Account, Reports
    <3> QED BY <1>2, <2>6, <3>7, <3>8, <3>9
  <2> QED BY <1>8, <2>2, <2>4, <2>5, <2>6 DEF Lint, Go, Fail
<1>9. CASE PrintStatement(i)
  <2>1. pc[i] = "print" /\ me' = [me EXCEPT ![i] = me[i]]
    BY <1>9 DEF PrintStatement
  <2>2. PICK t \in Targets : t = Target(i) /\ t = Group[i][next[i]]
    BY <1>7, <2>1
  <2>3. /\ Seen(me[i].result, t) /\ Clean(t)
        /\ ~DryRun => applied[t] \o me[i].stmts = Plan(job, t)
    <3>1. pc[i] \in Executing
      BY <2>1 DEF Executing
    <3>2. Seen(me[i].result, t)
      BY <2>1, <2>2 DEF Account
    <3>3. Clean(t)
      BY <2>2, <3>1 DEF Staged
    <3>4. ~DryRun => applied[t] \o me[i].stmts = Plan(job, t)
      BY <2>2, <3>1 DEF Progress
    <3> QED BY <3>2, <3>3, <3>4
  <2>4. CASE me[i].stmts = <<>>
    <3>1. pc' = [pc EXCEPT ![i] = "merge"]
      BY <1>9, <2>4 DEF PrintStatement, Go
    <3>2. ~DryRun => applied[t] = Plan(job, t)
      BY <2>3, <2>4, Command, ConcatEmptySeq
    <3>3. Account(i, "merge", next[i], me[i].result)
      BY <2>2, <2>3, <3>2 DEF Account, Reports, Undone
    <3> QED BY <1>2, <2>1, <3>1, <3>3
  <2>5. CASE me[i].stmts # <<>>
    <3>1. pc' = [pc EXCEPT ![i] = "execute"]
      BY <1>9, <2>5 DEF PrintStatement, Go
    <3>2. Account(i, "execute", next[i], me[i].result)
      BY <2>2, <2>3 DEF Account
    <3> QED BY <1>2, <2>1, <3>1, <3>2
  <2> QED BY <2>4, <2>5
<1> QED BY <1>4, <1>5, <1>6, <1>8, <1>9

\* stmt.Execute touches no other target.
LEMMA ExecutesOwn ==
    ASSUME PushInv, NEW i \in Instances, next[i] \in 1..Len(Group[i]), NEW l, l = "print", NEW a,
           applied' = IF DryRun THEN applied ELSE [applied EXCEPT ![Target(i)] = a]
    PROVE  OwnTargetOnly(i, l, next[i])
<1>1. Standing
  BY DEF PushInv
<1>2. /\ DOMAIN applied' = DOMAIN applied
      /\ \A u \in Targets \ {Target(i)} : applied'[u] = applied[u]
  BY <1>1 DEF Standing, Targets
<1>3. ASSUME NEW j \in Instances, NEW n \in 1..Len(Group[j]), j # i \/ n # next[i]
      PROVE  applied'[Group[j][n]] = applied[Group[j][n]]
  <2>1. Group[j][n] \in Targets /\ Group[j][n] # Target(i)
    BY <1>1, <1>3, Command DEF Target
  <2> QED BY <1>2, <2>1
<1> QED BY <1>2, <1>3 DEF OwnTargetOnly

\* stmt.Execute
LEMMA TallyExecute ==
    ASSUME PushInv, Tally, NEW i \in Instances, UNCHANGED <<job, found>>, Execute(i)
    PROVE  Tally'
<1>. /\ next \in [Instances -> Nat \ {0}] /\ Standing /\ next[i] \in Nat \ {0}
     /\ me \in [Instances -> Locals(Results)] /\ sum \in Results /\ Honest(sum)
     /\ Account(i, pc[i], next[i], me[i].result) /\ err \in {0, 2, 78}
     /\ Staged(i, pc[i], next[i], me[i].stmts) /\ me[i] \in Locals(Results)
  BY DEF PushInv, Shape, Steady, Tally
<1>. me[i].result \in Results /\ me[i].stmts \in Seq(ObjectDiffs) /\ Honest(me[i].result)
  BY DEF Locals, Account
<1>1. pc[i] = "execute" /\ UNCHANGED <<next, sum, sumLock, exit, err>>
  BY DEF Execute, Go, shared
<1>2. exit = None /\ next[i] \in 1..Len(Group[i]) /\ me[i].stmts # <<>>
  BY <1>1 DEF PushInv, Shape, Staged
<1>3. PICK t \in Targets : t = Target(i) /\ t = Group[i][next[i]]
  BY <1>2, Command DEF Target
<1>4. Seen(me[i].result, t)
  BY <1>1, <1>3 DEF Account
<1>5. /\ Tail(me[i].stmts) \in Seq(ObjectDiffs)
      /\ Len(Tail(me[i].stmts)) \in Nat
  BY <1>2, HeadTailProperties, LenProperties
<1>6. CASE /\ applied' = IF DryRun THEN applied ELSE
                            [applied EXCEPT ![t] = Append(@, Head(me[i].stmts))]
           /\ me' = [me EXCEPT ![i].stmts = Tail(me[i].stmts)]
           /\ pc' = [pc EXCEPT ![i] = "print"]
  <2>1. PICK m : m = [me[i] EXCEPT !.stmts = Tail(me[i].stmts)]
    OBVIOUS
  <2>2. m \in Locals(Results) /\ m.result = me[i].result
    BY <1>5, <2>1 DEF Locals
  <2>3. me' = [me EXCEPT ![i] = m]
    BY <1>6, <2>1
  <2>4. PICK k \in Nat \ {0} : k = next[i]
    OBVIOUS
  <2>5. Account(i, "print", k, m.result)
    BY <1>3, <1>4, <2>2, <2>4 DEF Account
  <2>6. OwnTargetOnly(i, "print", k)
    <3>1. PICK a : a = Append(applied[t], Head(me[i].stmts))
      OBVIOUS
    <3>2. applied' = IF DryRun THEN applied ELSE [applied EXCEPT ![Target(i)] = a]
      BY <1>3, <1>6, <3>1
    <3> QED BY <1>2, <2>4, <3>2, ExecutesOwn
  <2>7. Grows(i, "print", m)
    <3>1. sum.skip \in Nat /\ sum.unsupported \in Nat
      BY DEF Results
    <3>2. sum'.skip >= sum.skip /\ sum'.unsupported >= sum.unsupported
      BY <1>1, <3>1
    <3> QED BY <1>1, <3>2 DEF Grows
  <2>8. /\ next' = [next EXCEPT ![i] = k] /\ UNCHANGED <<job, found, exit>> /\ err' \in {0, 2, 78}
        /\ pc' = [pc EXCEPT ![i] = "print"]
    BY <1>1, <1>6, <2>4
  <2>9. k = next[i] \/ (k = next[i] + 1 /\ Reports(sum', Target(i)))
    BY <2>4
  <2> QED BY <1>2, <2>2, <2>3, <2>5, <2>6, <2>7, <2>8, <2>9, Accounts
<1>7. CASE /\ me' = [me EXCEPT ![i].result.skip = me[i].result.skip + Len(Tail(me[i].stmts)) + 1]
           /\ pc' = [pc EXCEPT ![i] = "merge"] /\ UNCHANGED applied
  <2>1. PICK a \in Results, n \in Nat : /\ a = me[i].result /\ n = Len(Tail(me[i].stmts)) + 1
                                        /\ n > 0
    BY <1>5
  <2>2. PICK r : r = [a EXCEPT !.skip = a.skip + n]
    OBVIOUS
  <2>3. /\ r \in Results /\ r.skip = a.skip + n
        /\ r.unsupported = a.unsupported /\ r.differences = a.differences
    BY <2>2, MoreSkips
  <2>4. r.skip > 0
    <3>1. a.skip \in Nat
      BY DEF Results
    <3> QED BY <2>1, <2>3, <3>1
  <2>5. Honest(r) /\ Seen(r, t)
    BY <1>4, <2>1, <2>3 DEF Honest, Seen
  <2>6. PICK m : m = [me[i] EXCEPT !.result = r]
    OBVIOUS
  <2>7. m \in Locals(Results) /\ m.result = r
    BY <2>3, <2>6 DEF Locals
  <2>8. me' = [me EXCEPT ![i] = m]
    <3>1. a.skip + n = me[i].result.skip + Len(Tail(me[i].stmts)) + 1
      <4>1. me[i].result.skip \in Nat
        BY DEF Results
      <4> QED BY <1>5, <2>1, <4>1
    <3>2. r = [me[i].result EXCEPT !.skip = me[i].result.skip + Len(Tail(me[i].stmts)) + 1]
      BY <2>1, <2>2, <3>1
    <3> QED BY <1>7, <2>6, <3>2
  <2>9. Account(i, "merge", next[i], m.result)
    BY <1>3, <2>3, <2>4, <2>5, <2>7 DEF Account, Reports
  <2> QED BY <1>1, <1>2, <1>7, <2>7, <2>8, <2>9, TallyMove DEF Quiet
<1> QED BY <1>3, <1>6, <1>7 DEF Execute, Go

\* sum.Merge under the mutex: no other goroutine has a copy.
LEMMA TallyMerge ==
    ASSUME PushInv, Tally, NEW i \in Instances, UNCHANGED <<job, found>>,
           MergeRead(i) \/ MergeWrite(i)
    PROVE  Tally'
<1>. /\ next \in [Instances -> Nat \ {0}] /\ Standing /\ next[i] \in Nat \ {0}
     /\ me \in [Instances -> Locals(Results)] /\ sum \in Results /\ Honest(sum)
     /\ Account(i, pc[i], next[i], me[i].result) /\ err \in {0, 2, 78}
     /\ me[i] \in Locals(Results)
     /\ \A j \in Instances : pc[j] = "merging" => sumLock = j /\ me[j].copy = sum
  BY DEF PushInv, Shape, Steady, Tally
<1>. /\ me[i].result \in Results /\ me[i].stmts \in Seq(ObjectDiffs) /\ Honest(me[i].result)
     /\ me[i].copy \in Results /\ me[i].suffix \in BOOLEAN
  BY DEF Locals, Account
<1>1. /\ pc[i] \in {"merge", "merging"} /\ UNCHANGED <<applied, exit, err>> /\ exit = None
      /\ err' \in {0, 2, 78}
  <2>1. pc[i] \in {"merge", "merging"} /\ UNCHANGED <<applied, exit, err>>
    BY DEF MergeRead, MergeWrite, Go, history
  <2> QED BY <2>1 DEF PushInv, Shape
<1>2. Reports(me[i].result, Target(i)) /\ Reports(me[i].result, Group[i][next[i]])
  BY <1>1 DEF Account, Target
<1>3. \A l : \A k : OwnTargetOnly(i, l, k)
  BY <1>1 DEF OwnTargetOnly
<1>4. sum.skip \in Nat /\ sum.unsupported \in Nat /\ sum.differences \in BOOLEAN
  BY DEF Results
<1>5. CASE MergeRead(i)
  <2>1. /\ sumLock = None /\ sumLock' = i /\ UNCHANGED <<sum, next>>
        /\ pc' = [pc EXCEPT ![i] = "merging"] /\ me' = [me EXCEPT ![i].copy = sum]
    BY <1>5 DEF MergeRead, Go
  <2>2. \A j \in Instances : pc[j] # "merging"
    BY <2>1, PushAssumption
  <2>3. PICK m : m = [me[i] EXCEPT !.copy = sum]
    OBVIOUS
  <2>4. m \in Locals(Results) /\ m.result = me[i].result /\ m.copy = sum
    BY <2>3 DEF Locals
  <2>5. me' = [me EXCEPT ![i] = m]
    BY <2>1, <2>3
  <2>6. PICK k \in Nat \ {0} : k = next[i]
    OBVIOUS
  <2>7. Account(i, "merging", k, m.result)
    BY <1>2, <2>4, <2>6 DEF Account
  <2>8. Grows(i, "merging", m)
    <3>1. sum'.skip >= sum.skip /\ sum'.unsupported >= sum.unsupported
      BY <1>4, <2>1
    <3> QED BY <2>1, <2>2, <2>4, <3>1 DEF Grows
  <2>9. /\ next' = [next EXCEPT ![i] = k] /\ UNCHANGED <<job, found, exit>>
        /\ pc' = [pc EXCEPT ![i] = "merging"]
    BY <1>1, <2>1, <2>6
  <2>10. k = next[i] \/ (k = next[i] + 1 /\ Reports(sum', Target(i)))
    BY <2>6
  <2> QED BY <1>1, <1>3, <2>4, <2>5, <2>7, <2>8, <2>9, <2>10, Accounts
<1>6. CASE MergeWrite(i)
  <2>1. /\ pc[i] = "merging" /\ sum' = Merge(me[i].copy, me[i].result)
        /\ pc' = [pc EXCEPT ![i] = "loop"] /\ me' = me
        /\ next' = [next EXCEPT ![i] = next[i] + 1]
    BY <1>6 DEF MergeWrite
  <2>2. PICK a \in Results : a = me[i].result
    OBVIOUS
  <2>3. PICK q : q = [differences |-> sum.differences \/ a.differences,
                      skip |-> sum.skip + a.skip, unsupported |-> sum.unsupported + a.unsupported]
    OBVIOUS
  <2>4. sum' = q
    BY <2>1, <2>2, <2>3 DEF Merge
  <2>5. a.skip \in Nat /\ a.unsupported \in Nat /\ a.differences \in BOOLEAN
    BY DEF Results
  <2>6. /\ q.skip = sum.skip + a.skip /\ q.unsupported = sum.unsupported + a.unsupported
        /\ q.differences = (sum.differences \/ a.differences)
    BY <2>3
  <2>7. /\ q.skip \in Nat /\ q.unsupported \in Nat /\ q.skip >= sum.skip
        /\ q.unsupported >= sum.unsupported
        /\ (a.skip > 0 => q.skip > 0) /\ (a.unsupported > 0 => q.unsupported > 0)
        /\ (q.unsupported > 0 => sum.unsupported > 0 \/ a.unsupported > 0)
    BY <1>4, <2>5, <2>6
  <2>8. q \in Results
    BY <1>4, <2>3, <2>5 DEF Results
  <2>9. Honest(q)
    BY <2>2, <2>6, <2>7 DEF Honest
  <2>10. Reports(q, Target(i))
    BY <1>2, <2>2, <2>6, <2>7 DEF Reports, Seen
  <2>11. Grows(i, "loop", me[i])
    <3>1. \A j \in Instances \ {i} : pc[j] # "merging"
      BY <2>1
    <3> QED BY <2>4, <2>6, <2>7, <2>8, <2>9, <3>1 DEF Grows
  <2>12. PICK k \in Nat \ {0} : k = next[i] + 1
    OBVIOUS
  <2>13. Account(i, "loop", k, me[i].result)
    BY DEF Account
  <2>14. PICK m \in Locals(Results) : m = me[i]
    OBVIOUS
  <2>15. /\ next' = [next EXCEPT ![i] = k] /\ UNCHANGED <<job, found, exit>>
         /\ me' = [me EXCEPT ![i] = m] /\ pc' = [pc EXCEPT ![i] = "loop"]
         /\ Grows(i, "loop", m) /\ Account(i, "loop", k, m.result)
    BY <1>1, <2>1, <2>11, <2>12, <2>13, <2>14
  <2>16. k = next[i] \/ (k = next[i] + 1 /\ Reports(sum', Target(i)))
    BY <2>4, <2>10, <2>12
  <2>17. OwnTargetOnly(i, "loop", k) /\ exit = None /\ err' \in {0, 2, 78}
    BY <1>1, <1>3
  <2> QED BY <2>15, <2>16, <2>17, Accounts
<1> QED BY <1>5, <1>6

LEMMA TallyStep ==
    ASSUME PushInv, Tally, [Next /\ UNCHANGED <<job, found>>]_<<vars, job, found>>
    PROVE  Tally'
<1>0. UNCHANGED <<job, found>>
  OBVIOUS
<1>1. ASSUME UNCHANGED <<sum, sumLock, err, me, pc, next, applied>>, exit' # None => exit' = ExitCode
      PROVE  Tally'
  <2>1. DOMAIN applied' = DOMAIN applied
    BY <1>1
  <2>2. Honest(sum)' <=> Honest(sum)
    BY <1>0, <1>1, <2>1 DEF Honest, Targets, HasUnsupported, HasDifference, Diffs
  <2>3. ExitCode' = ExitCode
    BY <1>0, <1>1 DEF ExitCode, DryRun
  <2>4. ASSUME NEW i \in Instances
        PROVE  Account(i, pc[i], next[i], me[i].result)' /\ Merged(i, next[i], sum)'
    <3>1. PICK x, k, r, q : x = pc[i] /\ k = next[i] /\ r = me[i].result /\ q = sum
      OBVIOUS
    <3>2. Account(i, x, k, r) /\ Merged(i, k, q)
      BY <3>1 DEF Tally
    <3>3. Group' = Group /\ (Honest(r)' <=> Honest(r))
      BY <1>0, <2>1, Judged
    <3>4. \A t : /\ Seen(r, t)' <=> Seen(r, t)
                 /\ Reports(r, t)' <=> Reports(r, t)
                 /\ Reports(q, t)' <=> Reports(q, t)
      BY <1>0, <1>1, <2>1, Judged
    <3>5. Account(i, x, k, r)' /\ Merged(i, k, q)'
      BY <3>2, <3>3, <3>4 DEF Account, Merged, Results
    <3>6. x = pc'[i] /\ k = next'[i] /\ r = me'[i].result /\ q = sum'
      BY <1>1, <3>1
    <3> QED BY <3>5, <3>6 DEF Account, Merged
  <2> QED BY <1>0, <1>1, <2>2, <2>3, <2>4 DEF Tally, SkippedDirs
<1>2. CASE UNCHANGED <<vars, job, found>> \/ Exited
  <2>1. UNCHANGED <<sum, sumLock, err, me, pc, next, applied, exit>>
    BY <1>2 DEF Exited, vars, goroutine, shared, history
  <2>2. exit' # None => exit' = ExitCode
    BY <2>1 DEF Tally
  <2> QED BY <1>1, <2>1, <2>2
<1>3. CASE Wait
  <2>1. UNCHANGED <<sum, sumLock, err, me, pc, next, applied>> /\ exit' = ExitCode
    BY <1>3 DEF Wait, goroutine, shared, history
  <2> QED BY <1>1, <2>1
<1>4. CASE \E i \in Instances : Spawn(i) \/ Goroutine(i)
  <2>1. PICK i \in Instances : Spawn(i) \/ Goroutine(i)
    BY <1>4
  <2>2. CASE BuildStatements(i)
    BY <1>0, <2>2, TallyBuild
  <2>3. CASE Execute(i)
    BY <1>0, <2>3, TallyExecute
  <2>4. CASE MergeRead(i) \/ MergeWrite(i)
    BY <1>0, <2>4, TallyMerge
  <2>5. CASE \/ Spawn(i) \/ Loop(i) \/ Introspect(i) \/ StripCheck(i) \/ StripAssign(i)
             \/ StripNil(i) \/ Verify(i) \/ Lint(i) \/ PrintStatement(i)
    BY <1>0, <2>5, TallyOn
  <2> QED BY <2>1, <2>2, <2>3, <2>4, <2>5 DEF Goroutine
<1> QED BY <1>2, <1>3, <1>4 DEF Next, Main

LEMMA TallyInvariance == Spec => []Tally
<1>1. PushInv /\ Tally /\ [Next /\ UNCHANGED <<job, found>>]_<<vars, job, found>> => Tally'
  BY TallyStep
<1> QED BY <1>1, PushInvariance, TallyInit, PTL DEF Spec

\* When the command ends without an error, every target that was found is accounted
\* for in the shared result.
LEMMA AllMerged ==
    ASSUME PushInv, Listing, Tally, exit # None, err = 0, NEW t \in Found
    PROVE  t \in Targets /\ Reports(sum, t)
<1>1. PICK i \in Instances : t \in ToSet(Group[i])
  BY DEF Found
<1>2. Standing /\ Len(Group[i]) \in Nat /\ next[i] \in Nat
  BY Command DEF PushInv, Shape
<1>3. PICK n \in 1..Len(Group[i]) : t = Group[i][n]
  <2>1. Group \in [Instances -> Seq(Targets)]
    BY <1>2, Command
  <2> QED BY <1>1, <2>1, LenProperties DEF ToSet
<1>4. n < next[i]
  BY EndedAfterAll
<1>5. Reports(sum, t)
  BY <1>3, <1>4 DEF Tally, Merged
<1> QED BY <1>2, <1>3, <1>5, Command

\* A target has a statement to print if and only if one of its diffs is accepted.
LEMMA PlanIsEmpty ==
    ASSUME NEW j, NEW t, j.diffs[t] \in Seq(ObjectDiffs)
    PROVE  Plan(j, t) = <<>> <=> \A k \in 1..Len(j.diffs[t]) : ~Accepted(j, j.diffs[t][k])
<1> DEFINE d == j.diffs[t]
           I == {n \in 1..Len(d) : Accepted(j, d[n])}
<1>1. Plan(j, t) = Pick(d, I)
  BY DEF Plan, Filter
<1>2. d \in Seq(ObjectDiffs) /\ Len(d) \in Nat /\ I \in SUBSET (1..Len(d))
  BY LenProperties
<1>3. I = {} <=> \A k \in 1..Len(d) : ~Accepted(j, d[k])
  OBVIOUS
<1> HIDE DEF d, I
<1>4. /\ Pick(d, I) \in Seq(ObjectDiffs) /\ Len(Pick(d, I)) = Cardinality(I)
      /\ IsFiniteSet(I) /\ Cardinality(I) \in Nat
  BY <1>2, PickProperties
<1>5. Cardinality(I) = 0 <=> I = {}
  BY <1>4, FS_EmptySet
<1>6. Pick(d, I) = <<>> <=> Len(Pick(d, I)) = 0
  BY <1>4, EmptySeq
<1> QED BY <1>1, <1>3, <1>4, <1>5, <1>6 DEF d

\* For any number of instances and targets, and however the goroutines interleave,
\* --brief lists the instances with a difference, once each, unless an error ended
\* the run; one that it misses has nothing to print, and the exit code is not 0.
THEOREM EachInstanceListedOnce == Spec => []BriefListsInstances
<1>1. PushInv /\ Listing /\ Tally => BriefListsInstances
  <2> SUFFICES ASSUME PushInv, Listing, Tally, exit # None, Brief
               PROVE  /\ Cardinality(ToSet(listed)) = Len(listed)
                      /\ err = 0 => \A i \in Instances :
                            /\ i \in ToSet(listed) => Differing(i)
                            /\ (Differing(i) /\ i \notin ToSet(listed)) =>
                                  exit # 0 /\ \A t \in ToSet(Group[i]) : NothingToPrint(t)
    BY DEF BriefListsInstances
  <2>0. Standing /\ DryRun
    BY Command DEF PushInv
  <2>1. Cardinality(ToSet(listed)) = Len(listed)
    BY DEF Listing
  <2>2. ASSUME NEW i \in Instances
        PROVE  /\ ToSet(Group[i]) = {Group[i][n] : n \in 1..Len(Group[i])}
               /\ \A t \in ToSet(Group[i]) : t \in Targets /\ t \in Found
                                              /\ Diffs[t] \in Seq(ObjectDiffs)
    <3>1. /\ Group \in [Instances -> Seq(Targets)]
          /\ \A n \in 1..Len(Group[i]) : Group[i][n] \in Targets
          /\ \A t \in Targets : Diffs[t] \in Seq(ObjectDiffs)
      BY <2>0, Command
    <3>2. ToSet(Group[i]) = {Group[i][n] : n \in 1..Len(Group[i])}
      BY <3>1, LenProperties DEF ToSet
    <3> QED BY <3>1, <3>2 DEF Found
  <2>3. ASSUME NEW i \in Instances, i \in ToSet(listed) PROVE Differing(i)
    <3>1. PICK n \in 1..Len(Group[i]) : Worth(Group[i][n])
      BY <2>3 DEF Listing
    <3>2. Group[i][n] \in ToSet(Group[i]) /\ Diffs[Group[i][n]] \in Seq(ObjectDiffs)
      BY <2>2, <3>1
    <3>3. PICK k \in 1..Len(Diffs[Group[i][n]]) : Accepted(job, Diffs[Group[i][n]][k])
      BY <3>1, <3>2, PlanIsEmpty DEF Worth, Diffs
    <3> QED BY <3>2, <3>3 DEF Differing, Accepted
  <2>4. ASSUME err = 0, NEW i \in Instances, NEW n \in 1..Len(Group[i]), Worth(Group[i][n])
        PROVE  i \in ToSet(listed)
    <3>1. n < next[i]
      BY <2>4, EndedAfterAll
    <3>2. Covered(i, pc[i], next[i], me[i].stmts, ToSet(listed))
      BY DEF Listing
    <3> QED BY <2>4, <3>1, <3>2 DEF Covered
  <2>5. ASSUME err = 0, NEW i \in Instances, i \notin ToSet(listed), NEW t \in ToSet(Group[i])
        PROVE  NothingToPrint(t)
    <3>1. ~Worth(t) /\ Diffs[t] \in Seq(ObjectDiffs)
      BY <2>2, <2>4, <2>5
    <3>2. CASE Plan(job, t) = <<>>
      <4>1. \A k \in 1..Len(Diffs[t]) : ~Accepted(job, Diffs[t][k])
        BY <3>1, <3>2, PlanIsEmpty DEF Diffs
      <4> QED BY <4>1 DEF NothingToPrint, Accepted, Unsupported
    <3>3. CASE ~Clean(t)
      <4>1. /\ Len(Reached(job, t)) \in Nat /\ Len(Diffs[t]) \in Nat
            /\ Len(Reached(job, t)) < Len(Diffs[t])
        BY <3>1, <3>3, ReachedStops, ReachedAll, LenProperties DEF Clean, Diffs
      <4>2. Refused(job, Diffs[t][Len(Reached(job, t)) + 1])
        BY <3>1, <4>1, ReachedStops DEF Diffs
      <4>3. Len(Reached(job, t)) + 1 \in 1..Len(Diffs[t])
        BY <4>1
      <4> QED BY <4>2, <4>3 DEF NothingToPrint
    <3> QED BY <3>1, <3>2, <3>3 DEF Worth
  <2>6. ASSUME err = 0, NEW i \in Instances, Differing(i) PROVE exit # 0
    <3>1. PICK t \in ToSet(Group[i]) : HasDifference(t)
      BY <2>6 DEF Differing, HasDifference
    <3>2. Reports(sum, t)
      BY <2>2, <2>6, <3>1, AllMerged
    <3>3. sum.skip > 0 \/ sum.differences
      BY <3>1, <3>2 DEF Reports, Undone, Seen
    <3>4. exit = ExitCode /\ sum.skip \in Nat /\ sum.unsupported \in Nat
      BY DEF Tally, Results
    <3> QED BY <2>0, <2>6, <3>3, <3>4 DEF ExitCode
  <2> QED BY <2>1, <2>3, <2>5, <2>6
<1> QED BY <1>1, PushInvariance, ListingInvariance, TallyInvariance, PTL

\* An exit code of 0 or 1 tells the truth about every target, if the walk through the
\* directories that skips nothing has found everything (what WalkIsComplete says of a
\* tree, which the runs check on theirs).  No error, refused diff, failed statement
\* or lost merge of any goroutine goes unnoticed.
THEOREM ExitCodesAreTrue ==
    (\A j \in Jobs : WalkIsComplete(j.config, Instances)) => (Spec => []ExitCodeIsTrue)
<1> SUFFICES ASSUME \A j \in Jobs : WalkIsComplete(j.config, Instances)
             PROVE  Spec => []ExitCodeIsTrue
  OBVIOUS
<1>1. PushInv /\ Listing /\ Tally => ExitCodeIsTrue
  <2> SUFFICES ASSUME PushInv, Listing, Tally, exit \in {0, 1}
               PROVE  ExitCodeIsTrue
    BY DEF ExitCodeIsTrue
  <2>0. Standing
    BY DEF PushInv
  <2>1. err = 0 /\ exit = ExitCode /\ exit # None
    <3>1. exit # None
      BY PushAssumption
    <3>2. exit = ExitCode /\ err \in {0, 2, 78}
      BY <3>1 DEF Tally
    <3> QED BY <3>1, <3>2 DEF ExitCode
  <2>2. /\ sum.skip = 0 /\ sum.unsupported \in Nat
        /\ exit = 0 => sum.unsupported = 0 /\ ~(DryRun /\ sum.differences)
        /\ exit = 1 => sum.unsupported > 0 \/ (DryRun /\ sum.differences)
    <3>1. sum.skip \in Nat /\ sum.unsupported \in Nat
      BY DEF Tally, Results
    <3>2. CASE sum.skip > 0
      BY <2>1, <3>2 DEF ExitCode
    <3>3. CASE ~(sum.skip > 0)
      BY <2>1, <3>1, <3>3 DEF ExitCode
    <3> QED BY <3>2, <3>3
  <2>3. Unread(job.config) = {} /\ Targets = Found
    <3>1. SkippedDirs = 0
      <4>1. SkippedDirs \in Nat
        BY <2>0, PushAssumption DEF Standing, SkippedDirs
      <4>2. SkippedDirs > 0 => sum.skip > 0
        BY DEF Tally
      <4> QED BY <2>2, <4>1, <4>2
    <3>2. WalkIsComplete(job.config, Instances)
      BY <2>0 DEF Standing
    <3>3. Unread(job.config) = {} /\ Mapped(job.config) = Found
      BY <2>0, <3>1, <3>2 DEF WalkIsComplete, Standing, SkippedDirs, Found, Group
    <3> QED BY <2>0, <3>3, Command
  <2>4. ASSUME NEW t \in Targets
        PROVE  /\ Seen(sum, t) /\ Clean(t) /\ (~DryRun => applied[t] = Plan(job, t))
               /\ \A k \in 1..Len(Diffs[t]) : ~Refused(job, Diffs[t][k])
    <3>1. Reports(sum, t)
      BY <2>1, <2>3, AllMerged
    <3>2. Seen(sum, t) /\ ~Undone(t)
      BY <2>2, <3>1 DEF Reports
    <3>3. Diffs[t] \in Seq(ObjectDiffs)
      BY <2>0, Command
    <3>4. Clean(t) /\ (~DryRun => applied[t] = Plan(job, t))
      BY <3>2 DEF Undone
    <3>5. \A k \in 1..Len(Diffs[t]) : ~Refused(job, Diffs[t][k])
      BY <3>3, <3>4, ReachedStops DEF Clean, Diffs
    <3> QED BY <3>2, <3>4, <3>5
  <2>5. ASSUME exit = 0, NEW t \in Targets, LeavesDifference(t) PROVE FALSE
    <3>1. PICK k \in 1..Len(Diffs[t]) :
             Differs(Diffs[t][k]) /\ (DryRun \/ ~Accepted(job, Diffs[t][k]))
      BY <2>5 DEF LeavesDifference
    <3>2. CASE DryRun
      BY <2>2, <2>4, <2>5, <3>1, <3>2 DEF Seen, HasDifference
    <3>3. CASE ~Accepted(job, Diffs[t][k])
      <4>1. Unsupported(Diffs[t][k])
        BY <2>4, <3>1, <3>3 DEF Accepted, Unsupported
      <4>2. sum.unsupported > 0
        BY <2>4, <4>1 DEF Seen, HasUnsupported
      <4> QED BY <2>2, <2>5, <4>2
    <3> QED BY <3>1, <3>2, <3>3
  <2>6. ASSUME exit = 1 PROVE \E t \in Targets : LeavesDifference(t)
    <3>1. Honest(sum)
      BY DEF Tally
    <3>2. CASE sum.unsupported > 0
      <4>1. PICK t \in Targets : HasUnsupported(t)
        BY <3>1, <3>2 DEF Honest
      <4>2. PICK k \in 1..Len(Diffs[t]) : Unsupported(Diffs[t][k])
        BY <4>1 DEF HasUnsupported
      <4>3. Differs(Diffs[t][k]) /\ ~Accepted(job, Diffs[t][k])
        BY <4>2 DEF Differs, Accepted, Unsupported
      <4> QED BY <4>3 DEF LeavesDifference
    <3>3. CASE DryRun /\ sum.differences
      BY <3>1, <3>3 DEF Honest, HasDifference, LeavesDifference
    <3> QED BY <2>2, <2>6, <3>2, <3>3
  <2>7. exit = 0 => ~\E t \in Targets : LeavesDifference(t)
    BY <2>5
  <2> QED BY <2>3, <2>4, <2>6, <2>7 DEF ExitCodeIsTrue
<1> QED BY <1>1, PushInvariance, ListingInvariance, TallyInvariance, PTL

----------------------------------------------------------------------------
(* Sums over finite sets                                                   *)

\* The element of a set with which MapThenSumSet goes on.
Some(s) == CHOOSE x \in s : TRUE

\* What g[s] is when g sums up f on the subsets of S.
SumAt(g, f, s) == g[s] = IF s = {} THEN 0 ELSE f[Some(s)] + g[s \ {Some(s)}]
Sums(g, S, f) == g \in [SUBSET S -> Int] /\ \A s \in SUBSET S : SumAt(g, f, s)

LEMMA OneLess ==
    ASSUME NEW S, IsFiniteSet(S), NEW s, s \in SUBSET S
    PROVE  /\ IsFiniteSet(s) /\ Cardinality(s) \in Nat /\ Cardinality(s) <= Cardinality(S)
           /\ \A x \in s : Cardinality(s \ {x}) = Cardinality(s) - 1 /\ Cardinality(s) > 0
           /\ s # {} => Some(s) \in s /\ Cardinality(s) > 0
<1>1. IsFiniteSet(s) /\ Cardinality(s) \in Nat /\ Cardinality(s) <= Cardinality(S)
  BY FS_Subset, FS_CardinalityType
<1>2. ASSUME NEW x \in s PROVE Cardinality(s \ {x}) = Cardinality(s) - 1 /\ Cardinality(s) > 0
  <2>1. IsFiniteSet(s \ {x}) /\ Cardinality(s \ {x}) = Cardinality(s) - 1
    BY <1>1, FS_RemoveElement
  <2>2. Cardinality(s \ {x}) \in Nat
    BY <2>1, FS_CardinalityType
  <2> QED BY <1>1, <2>1, <2>2
<1>3. s # {} => Some(s) \in s
  BY DEF Some
<1> QED BY <1>1, <1>2, <1>3

LEMMA SumExists ==
    ASSUME NEW S, IsFiniteSet(S), NEW f \in [S -> Int]
    PROVE  \E g : Sums(g, S, f)
<1> DEFINE N == Cardinality(S)
           P(n, g) == \A s \in SUBSET S : Cardinality(s) <= n => SumAt(g, f, s)
           B == {n \in 0..N : \E g \in [SUBSET S -> Int] : P(n, g)}
<1>1. N \in Nat /\ 0 \in Nat
  BY FS_CardinalityType
<1>2. \A s \in SUBSET S : /\ IsFiniteSet(s) /\ Cardinality(s) \in Nat /\ Cardinality(s) <= N
                          /\ \A x \in s : Cardinality(s \ {x}) = Cardinality(s) - 1 /\ Cardinality(s) > 0
                          /\ s # {} => Some(s) \in s /\ Cardinality(s) > 0
  BY OneLess
<1>3. 0 \in B
  <2> DEFINE g == [s \in SUBSET S |-> 0]
  <2>1. g \in [SUBSET S -> Int]
    OBVIOUS
  <2>2. ASSUME NEW s \in SUBSET S, Cardinality(s) <= 0 PROVE SumAt(g, f, s)
    <3>1. s = {}
      <4>1. Cardinality(s) \in Nat /\ (s # {} => Cardinality(s) > 0)
        BY <1>2
      <4> QED BY <2>2, <4>1
    <3>2. g[s] = 0
      OBVIOUS
    <3> QED BY <3>1, <3>2 DEF SumAt
  <2> HIDE DEF g
  <2> QED BY <1>1, <2>1, <2>2
<1>4. ASSUME NEW n \in 0..N, n \in B, n + 1 <= N PROVE n + 1 \in B
  <2>1. PICK g \in [SUBSET S -> Int] : P(n, g)
    BY <1>4
  <2> DEFINE h == [s \in SUBSET S |-> IF Cardinality(s) <= n THEN g[s]
                                      ELSE f[Some(s)] + g[s \ {Some(s)}]]
  <2>2. n \in Nat /\ n + 1 \in 0..N
    BY <1>1, <1>4
  <2>3. ASSUME NEW s \in SUBSET S, s # {}
        PROVE  f[Some(s)] + g[s \ {Some(s)}] \in Int /\ s \ {Some(s)} \in SUBSET S
    <3>1. f[Some(s)] \in Int /\ s \ {Some(s)} \in SUBSET S
      BY <1>2, <2>3
    <3>2. g[s \ {Some(s)}] \in Int
      BY <3>1
    <3> QED BY <3>1, <3>2
  <2>4. \A s \in SUBSET S : s = {} => Cardinality(s) <= n
    BY <2>2, FS_EmptySet
  <2>5. \A s \in SUBSET S : h[s] = IF Cardinality(s) <= n THEN g[s] ELSE f[Some(s)] + g[s \ {Some(s)}]
    OBVIOUS
  <2>6. h \in [SUBSET S -> Int]
    <3>1. \A s \in SUBSET S : h[s] \in Int
      BY <2>3, <2>4, <2>5
    <3>2. h = [s \in SUBSET S |-> h[s]]
      OBVIOUS
    <3> HIDE DEF h
    <3> QED BY <3>1, <3>2
  <2> HIDE DEF h
  <2>7. ASSUME NEW s \in SUBSET S, Cardinality(s) <= n + 1 PROVE SumAt(h, f, s)
    <3>1. CASE s = {}
      <4>1. SumAt(g, f, s) /\ h[s] = g[s]
        BY <2>1, <2>4, <2>5, <3>1
      <4> QED BY <3>1, <4>1 DEF SumAt
    <3>2. CASE s # {}
      <4> DEFINE r == s \ {Some(s)}
      <4>1. r \in SUBSET S /\ Cardinality(r) <= n /\ Cardinality(r) = Cardinality(s) - 1
        BY <1>2, <2>2, <2>7, <3>2
      <4>2. h[r] = g[r]
        BY <2>5, <4>1
      <4>3. CASE Cardinality(s) <= n
        <5>1. SumAt(g, f, s) /\ h[s] = g[s]
          BY <2>1, <2>5, <4>3
        <5> QED BY <3>2, <4>2, <5>1 DEF SumAt
      <4>4. CASE ~(Cardinality(s) <= n)
        <5>1. h[s] = f[Some(s)] + g[r]
          BY <2>5, <4>4
        <5> QED BY <3>2, <4>2, <5>1 DEF SumAt
      <4> QED BY <4>3, <4>4
    <3> QED BY <3>1, <3>2
  <2> QED BY <2>2, <2>6, <2>7
<1>5. N \in B
  <2>1. \A k \in 0..N : k \in B
    <3> HIDE DEF B
    <3> QED BY <1>1, <1>3, <1>4, Induction
  <2> HIDE DEF B
  <2> QED BY <1>1, <2>1
<1>6. PICK g \in [SUBSET S -> Int] : P(N, g)
  BY <1>5
<1>7. \A s \in SUBSET S : SumAt(g, f, s)
  BY <1>2, <1>6
<1> QED BY <1>7 DEF Sums

\* Two sums agree on a set on which the functions do.
LEMMA SumSame ==
    ASSUME NEW S, IsFiniteSet(S), NEW f, NEW g, \A u \in SUBSET S : SumAt(g, f, u),
           NEW e, NEW h, \A u \in SUBSET S : SumAt(h, e, u),
           NEW s \in SUBSET S, \A x \in s : f[x] = e[x]
    PROVE  g[s] = h[s]
<1> DEFINE N == Cardinality(s)
           B == {n \in 0..N : \A u \in SUBSET s : Cardinality(u) <= n => g[u] = h[u]}
<1>1. IsFiniteSet(s) /\ N \in Nat /\ 0 \in Nat
  BY OneLess, FS_CardinalityType
<1>2. \A u \in SUBSET s : /\ Cardinality(u) \in Nat /\ Cardinality(u) <= N
                          /\ \A x \in u : Cardinality(u \ {x}) = Cardinality(u) - 1 /\ Cardinality(u) > 0
                          /\ u # {} => Some(u) \in u /\ Cardinality(u) > 0
  BY <1>1, OneLess
<1>3. \A u \in SUBSET s : SumAt(g, f, u) /\ SumAt(h, e, u)
  OBVIOUS
<1>4. 0 \in B
  <2>1. ASSUME NEW u \in SUBSET s, Cardinality(u) <= 0 PROVE g[u] = h[u]
    <3>1. u = {}
      <4>1. Cardinality(u) \in Nat /\ (u # {} => Cardinality(u) > 0)
        BY <1>2
      <4> QED BY <2>1, <4>1
    <3> QED BY <1>3, <3>1 DEF SumAt
  <2> QED BY <1>1, <2>1
<1>5. ASSUME NEW n \in 0..N, n \in B, n + 1 <= N PROVE n + 1 \in B
  <2>1. ASSUME NEW u \in SUBSET s, Cardinality(u) <= n + 1 PROVE g[u] = h[u]
    <3>1. CASE u = {}
      BY <1>3, <3>1 DEF SumAt
    <3>2. CASE u # {}
      <4> DEFINE r == u \ {Some(u)}
      <4>1. r \in SUBSET s /\ Some(u) \in u /\ Cardinality(r) = Cardinality(u) - 1 /\ Cardinality(u) \in Nat
        BY <1>2, <3>2
      <4>2. Cardinality(r) <= n
        BY <2>1, <4>1
      <4>3. g[r] = h[r]
        BY <1>5, <4>1, <4>2
      <4>4. f[Some(u)] = e[Some(u)]
        BY <4>1
      <4> QED BY <1>3, <3>2, <4>3, <4>4 DEF SumAt
    <3> QED BY <3>1, <3>2
  <2>2. n + 1 \in 0..N
    BY <1>1, <1>5
  <2> QED BY <2>1, <2>2
<1>6. N \in B
  <2>1. \A k \in 0..N : k \in B
    <3> HIDE DEF B
    <3> QED BY <1>1, <1>4, <1>5, Induction
  <2> HIDE DEF B
  <2> QED BY <1>1, <2>1
<1> QED BY <1>1, <1>6

Summed(g, S, f) == IsFiniteSet(S) /\ f \in [S -> Int] /\ Sums(g, S, f)

\* The order of the summands does not matter.
LEMMA SumRemove ==
    ASSUME NEW S, NEW f, NEW g, Summed(g, S, f), NEW s \in SUBSET S, NEW y \in s
    PROVE  g[s] = f[y] + g[s \ {y}]
<1>. IsFiniteSet(S) /\ f \in [S -> Int] /\ Sums(g, S, f)
  BY DEF Summed
<1> DEFINE N == Cardinality(s)
           B == {n \in 0..N : \A u \in SUBSET s : Cardinality(u) <= n =>
                                 \A x \in u : g[u] = f[x] + g[u \ {x}]}
<1>1. IsFiniteSet(s) /\ N \in Nat /\ 0 \in Nat
  BY OneLess, FS_CardinalityType
<1>2. \A u \in SUBSET s : /\ Cardinality(u) \in Nat /\ Cardinality(u) <= N
                          /\ \A x \in u : Cardinality(u \ {x}) = Cardinality(u) - 1 /\ Cardinality(u) > 0
                          /\ u # {} => Some(u) \in u /\ Cardinality(u) > 0
  BY <1>1, OneLess
<1>3. \A u \in SUBSET s : SumAt(g, f, u) /\ g[u] \in Int /\ \A x \in u : f[x] \in Int
  BY DEF Sums
<1>4. 0 \in B
  <2>1. ASSUME NEW u \in SUBSET s, Cardinality(u) <= 0, NEW x \in u PROVE FALSE
    <3>1. u # {} /\ Cardinality(u) \in Nat
      BY <1>2
    <3>2. Cardinality(u) > 0
      BY <1>2, <3>1
    <3> QED BY <2>1, <3>1, <3>2
  <2> QED BY <1>1, <2>1
<1>5. ASSUME NEW n \in 0..N, n \in B, n + 1 <= N PROVE n + 1 \in B
  <2>1. ASSUME NEW u \in SUBSET s, Cardinality(u) <= n + 1, NEW x \in u
        PROVE  g[u] = f[x] + g[u \ {x}]
    <3> DEFINE c == Some(u)
               r == u \ {c}
               q == u \ {x}
    <3>1. /\ c \in u /\ r \in SUBSET s /\ q \in SUBSET s /\ Cardinality(u) \in Nat
          /\ Cardinality(r) = Cardinality(u) - 1 /\ Cardinality(q) = Cardinality(u) - 1
      BY <1>2
    <3>2. Cardinality(r) <= n /\ Cardinality(q) <= n
      BY <2>1, <3>1
    <3>3. g[u] = f[c] + g[r]
      BY <1>3 DEF SumAt
    <3>4. CASE x = c
      BY <3>3, <3>4
    <3>5. CASE x # c
      <4>1. x \in r /\ c \in q /\ r \ {x} = q \ {c}
        BY <3>1, <3>5
      <4>2. g[r] = f[x] + g[r \ {x}] /\ g[q] = f[c] + g[q \ {c}]
        BY <1>5, <3>1, <3>2, <4>1
      <4>3. g[r \ {x}] \in Int /\ f[x] \in Int /\ f[c] \in Int
        BY <1>3, <3>1, <4>1
      <4> DEFINE z == g[r \ {x}]
      <4>4. g[u] = f[c] + (f[x] + z) /\ g[q] = f[c] + z /\ z \in Int
        BY <3>3, <4>1, <4>2, <4>3
      <4> HIDE DEF c, r, q, z
      <4>5. g[u] = f[x] + g[q]
        BY <4>3, <4>4
      <4> QED BY <4>5 DEF q
    <3> QED BY <3>4, <3>5
  <2>2. n + 1 \in 0..N
    BY <1>1, <1>5
  <2> QED BY <2>1, <2>2
<1>6. N \in B
  <2>1. \A k \in 0..N : k \in B
    <3> HIDE DEF B
    <3> QED BY <1>1, <1>4, <1>5, Induction
  <2> HIDE DEF B
  <2> QED BY <1>1, <2>1
<1> QED BY <1>1, <1>6

Grown(D, E, S, t) == E \in SUBSET S /\ t \in E /\ E \ {t} = D

\* One summand more.
LEMMA SumGrows ==
    ASSUME NEW S, NEW f, NEW g, Summed(g, S, f), NEW D, NEW E, NEW t, Grown(D, E, S, t),
           NEW a \in Int, NEW b \in Int, g[D] <= a, f[t] <= b
    PROVE  g[E] <= a + b
<1>1. E \in SUBSET S /\ t \in E /\ E \ {t} = D
  BY DEF Grown
<1>2. g[E] = f[t] + g[E \ {t}]
  BY <1>1, SumRemove
<1>3. f[t] \in Int /\ g[D] \in Int
  BY <1>1 DEF Summed, Sums
<1> QED BY <1>1, <1>2, <1>3

----------------------------------------------------------------------------
(* What the summary says                                                   *)

\* How many differences of target t are left when a was executed.
Left(a, t) == Len(Differences(t)) - Len(a[t])
Rest(a) == [t \in Found |-> Left(a, t)]

Size(r) == r.skip + r.unsupported

\* The result of a goroutine at label l on its k-th target makes up for what it
\* leaves of the target, now or when all its statements went through.
Covers(i, l, k, r, a) ==
    /\ l \in {"lint", "print", "execute"} =>
          Len(Differences(Group[i][k])) - Len(Plan(job, Group[i][k])) <= Size(r)
    /\ l \in {"merge", "merging"} => Left(a, Group[i][k]) <= Size(r)

\* The targets whose results were merged when the goroutines are at nx.
Done(nx) ==
    {t \in Found : \E i \in Instances : \E n \in 1..Len(Group[i]) : n < nx[i] /\ t = Group[i][n]}

Balanced(a, nx, q) == \A g : Sums(g, Found, Rest(a)) => g[Done(nx)] <= Size(q)

\* The shared result makes up for what is left of the targets that were merged.
Ledger ==
    ~DryRun => /\ Balanced(applied, next, sum)
               /\ \A i \in Instances : Covers(i, pc[i], next[i], me[i].result, applied)

LEMMA FoundFacts ==
    ASSUME Standing
    PROVE  /\ IsFiniteSet(Found) /\ Found \subseteq Targets
           /\ \A i \in Instances : \A n \in 1..Len(Group[i]) : Group[i][n] \in Found
           /\ \A t \in Found : \E i \in Instances : \E n \in 1..Len(Group[i]) : t = Group[i][n]
<1>1. /\ Group \in [Instances -> Seq(Targets)] /\ \A i \in Instances : Len(Group[i]) \in Nat
      /\ \A i \in Instances : \A k \in 1..Len(Group[i]) : Group[i][k] \in Targets
  BY Command
<1>2. \A i \in Instances : ToSet(Group[i]) = {Group[i][n] : n \in 1..Len(Group[i])}
  BY <1>1, LenProperties DEF ToSet
<1>3. ASSUME NEW i \in Instances PROVE IsFiniteSet(ToSet(Group[i]))
  <2> DEFINE N == 1..Len(Group[i])
             T == ToSet(Group[i])
             f == [n \in N |-> Group[i][n]]
  <2>1. IsFiniteSet(N)
    BY <1>1, FS_Interval
  <2>2. f \in Surjection(N, T)
    <3>1. T = {Group[i][n] : n \in N} /\ f = [n \in N |-> Group[i][n]]
      BY <1>2
    <3> HIDE DEF N, T, f
    <3>2. f \in [N -> T] /\ \A t \in T : \E n \in N : f[n] = t
      BY <3>1
    <3> QED BY <3>2 DEF Surjection
  <2> HIDE DEF N, T, f
  <2>3. IsFiniteSet(T)
    BY <2>1, <2>2, FS_Surjection
  <2> QED BY <2>3 DEF T
<1> DEFINE F == {ToSet(Group[i]) : i \in Instances}
           h == [i \in Instances |-> ToSet(Group[i])]
<1>4. IsFiniteSet(F)
  <2>1. h \in Surjection(Instances, F)
    BY DEF Surjection
  <2> HIDE DEF h, F
  <2> QED BY <2>1, PushAssumption, FS_Surjection
<1>5. IsFiniteSet(UNION F)
  <2>1. \A T \in F : IsFiniteSet(T)
    BY <1>3
  <2> HIDE DEF F
  <2> QED BY <1>4, <2>1, FS_UNION
<1>6. Found = UNION F
  BY DEF Found
<1> QED BY <1>1, <1>2, <1>5, <1>6

LEMMA CountsFacts ==
    ASSUME Standing, NEW t \in Targets
    PROVE  /\ Len(Differences(t)) \in Nat /\ Len(Differences(t)) <= Len(Diffs[t]) /\ Len(Diffs[t]) \in Nat
           /\ Len(Plan(job, t)) \in Nat /\ Len(applied[t]) \in Nat /\ Left(applied, t) \in Int
           /\ Left(applied, t) <= Len(Diffs[t])
           /\ Clean(t) => Len(Differences(t)) - Len(Plan(job, t))
                <= Cardinality({k \in DOMAIN Reached(job, t) : Unsupported(Reached(job, t)[k])})
<1> DEFINE d == Diffs[t]
           N == 1..Len(d)
           D == {n \in N : Differs(d[n])}
           A == {n \in N : Accepted(job, d[n])}
           U == {n \in N : Unsupported(d[n])}
<1>1. /\ d \in Seq(ObjectDiffs) /\ Len(d) \in Nat /\ Plan(job, t) \in Seq(ObjectDiffs)
      /\ applied[t] \in Seq(ObjectDiffs) /\ Len(Plan(job, t)) \in Nat /\ Len(applied[t]) \in Nat
  BY Command, LenProperties
<1>2. Differences(t) = Pick(d, D) /\ Plan(job, t) = Pick(d, A)
  BY DEF Differences, Plan, Filter, Diffs
<1>3. D \in SUBSET (1..Len(d)) /\ A \in SUBSET (1..Len(d)) /\ U \in SUBSET (1..Len(d))
  OBVIOUS
<1>4. /\ Clean(t) => D \subseteq A \cup U
      /\ Clean(t) => {k \in DOMAIN Reached(job, t) : Unsupported(Reached(job, t)[k])} = U
  <2>1. /\ DOMAIN Reached(job, t) = 1..Len(Reached(job, t))
        /\ \A k \in 1..Len(Reached(job, t)) : Reached(job, t)[k] = d[k] /\ ~Refused(job, d[k])
    BY <1>1, ReachedStops DEF Diffs
  <2>2. ASSUME Clean(t)
        PROVE  DOMAIN Reached(job, t) = N /\ \A k \in N : Reached(job, t)[k] = d[k] /\ ~Refused(job, d[k])
    BY <2>1, <2>2 DEF Clean
  <2>3. Clean(t) => D \subseteq A \cup U
    BY <2>2 DEF Accepted, Unsupported
  <2>4. Clean(t) => {k \in DOMAIN Reached(job, t) : Unsupported(Reached(job, t)[k])} = U
    BY <2>2
  <2> QED BY <2>3, <2>4
<1> HIDE DEF d, D, A, U, N
<1>5. /\ Len(Pick(d, D)) = Cardinality(D) /\ Len(Pick(d, A)) = Cardinality(A)
      /\ IsFiniteSet(D) /\ IsFiniteSet(A)
  BY <1>1, <1>3, PickProperties
<1>6. /\ Cardinality(D) \in Nat /\ Cardinality(D) <= Len(d) /\ Cardinality(A) \in Nat
      /\ IsFiniteSet(U) /\ Cardinality(U) \in Nat
  BY <1>1, <1>3, CountWithin
<1>7. ASSUME Clean(t) PROVE Cardinality(D) <= Cardinality(A) + Cardinality(U)
  <2> DEFINE W == A \cup U
  <2>1. /\ IsFiniteSet(W) /\ Cardinality(W) = Cardinality(A) + Cardinality(U) - Cardinality(A \cap U)
        /\ IsFiniteSet(A \cap U)
    BY <1>5, <1>6, FS_Union, FS_Intersection
  <2>2. Cardinality(A \cap U) \in Nat
    BY <2>1, FS_CardinalityType
  <2>3. Cardinality(D) <= Cardinality(W)
    <3>1. D \in SUBSET W
      BY <1>4, <1>7
    <3> HIDE DEF W
    <3> QED BY <2>1, <3>1, FS_Subset
  <2> QED BY <1>6, <2>1, <2>2, <2>3
<1>8. Clean(t) => Cardinality(D) - Cardinality(A) <= Cardinality(U)
  BY <1>6, <1>7
<1>9. Left(applied, t) \in Int /\ Left(applied, t) <= Len(d)
  BY <1>1, <1>2, <1>5, <1>6 DEF Left
<1> QED BY <1>1, <1>2, <1>4, <1>5, <1>6, <1>8, <1>9 DEF d

LEMMA SumsExist ==
    ASSUME Standing
    PROVE  /\ Rest(applied) \in [Found -> Int] /\ \E g : Sums(g, Found, Rest(applied))
           /\ \A nx : Done(nx) \in SUBSET Found
<1>1. \A t \in Found : t \in Targets /\ Left(applied, t) \in Int
  BY FoundFacts, CountsFacts
<1>2. Rest(applied) \in [Found -> Int]
  BY <1>1 DEF Rest
<1>3. IsFiniteSet(Found)
  BY FoundFacts
<1>4. \E g : Sums(g, Found, Rest(applied))
  BY <1>2, <1>3, SumExists
<1>5. \A nx : Done(nx) \in SUBSET Found
  BY DEF Done
<1> QED BY <1>2, <1>4, <1>5

\* A step that merges nothing: the targets that were merged stay as they are.
LEMMA StaysBalanced ==
    ASSUME Standing, Balanced(applied, next, sum), NEW i \in Instances, NEW b,
           \A j \in Instances : \A n \in 1..Len(Group[j]) : j # i \/ n # next[i] =>
               b[Group[j][n]] = applied[Group[j][n]],
           next[i] \in Nat
    PROVE  Balanced(b, next, sum)
<1> SUFFICES ASSUME NEW g, Sums(g, Found, Rest(b)) PROVE g[Done(next)] <= Size(sum)
  BY DEF Balanced
<1> DEFINE D == Done(next)
           f == Rest(b)
           e == Rest(applied)
<1>1. PICK h : Sums(h, Found, e)
  BY SumsExist
<1>2. D \in SUBSET Found /\ IsFiniteSet(Found)
  BY SumsExist, FoundFacts
<1>3. ASSUME NEW x \in D PROVE f[x] = e[x]
  <2>1. PICK j \in Instances : \E n \in 1..Len(Group[j]) : n < next[j] /\ x = Group[j][n]
    BY <1>3 DEF Done
  <2>2. PICK n \in 1..Len(Group[j]) : n < next[j] /\ x = Group[j][n]
    BY <2>1
  <2>3. j # i \/ n # next[i]
    BY <2>2
  <2>4. b[x] = applied[x]
    BY <2>2, <2>3
  <2>5. x \in Found
    BY <1>2
  <2> QED BY <2>4, <2>5 DEF Rest, Left
<1>4. h[D] <= Size(sum)
  BY <1>1 DEF Balanced
<1>5. (\A u \in SUBSET Found : SumAt(g, f, u)) /\ (\A u \in SUBSET Found : SumAt(h, e, u))
  BY <1>1 DEF Sums
<1> HIDE DEF D, f, e
<1>6. g[D] = h[D]
  BY <1>2, <1>3, <1>5, SumSame
<1> QED BY <1>4, <1>6 DEF D

\* sum.Merge of the result of the i-th goroutine.
LEMMA MergeBalances ==
    ASSUME Standing, Balanced(applied, next, sum), next \in [Instances -> Nat \ {0}],
           NEW i \in Instances, next[i] \in 1..Len(Group[i]),
           sum \in Results, NEW r \in Results, NEW q, Size(q) = Size(sum) + Size(r),
           Left(applied, Target(i)) <= Size(r),
           NEW nx, nx = [next EXCEPT ![i] = next[i] + 1]
    PROVE  Balanced(applied, nx, q)
<1> SUFFICES ASSUME NEW g, Sums(g, Found, Rest(applied)) PROVE g[Done(nx)] <= Size(q)
  BY DEF Balanced
<1> DEFINE D == Done(next)
           E == Done(nx)
           t == Target(i)
           f == Rest(applied)
<1>1. g[D] <= Size(sum)
  BY DEF Balanced
<1>2. /\ D \in SUBSET Found /\ E \in SUBSET Found /\ f \in [Found -> Int] /\ IsFiniteSet(Found)
      /\ g \in [SUBSET Found -> Int]
  BY SumsExist, FoundFacts DEF Sums
<1>3. t \in Found /\ t = Group[i][next[i]]
  BY FoundFacts DEF Target
<1>4. t \in E
  <2>1. next[i] < nx[i]
    BY Command
  <2> QED BY <1>3, <2>1 DEF Done
<1>5. t \notin D
  <2> SUFFICES ASSUME t \in D PROVE FALSE
    OBVIOUS
  <2>1. PICK j \in Instances : \E n \in 1..Len(Group[j]) : n < next[j] /\ t = Group[j][n]
    BY DEF Done
  <2>2. PICK n \in 1..Len(Group[j]) : n < next[j] /\ t = Group[j][n]
    BY <2>1
  <2>3. \A k \in 1..Len(Group[i]), l \in 1..Len(Group[j]) :
          Group[i][k] = Group[j][l] => i = j /\ k = l
    BY Command
  <2>4. i = j /\ next[i] = n
    BY <1>3, <2>2, <2>3
  <2>5. next[j] \in Nat
    OBVIOUS
  <2> QED BY <2>2, <2>4, <2>5
<1>6. E \ {t} = D
  <2>1. \A j \in Instances : j # i => nx[j] = next[j]
    OBVIOUS
  <2>2. \A n \in 1..Len(Group[i]) : n < nx[i] <=> n < next[i] \/ n = next[i]
    BY Command
  <2>3. ASSUME NEW x \in D PROVE x \in E
    BY <2>1, <2>2 DEF Done
  <2>4. ASSUME NEW x \in E, x # t PROVE x \in D
    BY <1>3, <2>1, <2>2, <2>4 DEF Done
  <2> QED BY <1>5, <2>3, <2>4
<1>7. f[t] <= Size(r)
  BY <1>3 DEF Rest
<1>8. Size(sum) \in Nat /\ Size(r) \in Nat
  BY DEF Size, Results
<1> HIDE DEF D, E, t, f
<1>9. Summed(g, Found, f) /\ Grown(D, E, Found, t)
  <2>1. Sums(g, Found, f)
    BY DEF f
  <2> QED BY <1>2, <1>4, <1>6, <2>1 DEF Summed, Grown
<1>10. PICK a \in Int, b \in Int : a = Size(sum) /\ b = Size(r)
  BY <1>8
<1>11. g[D] <= a /\ f[t] <= b
  BY <1>1, <1>7, <1>10 DEF D
<1>12. g[E] <= a + b
  BY <1>9, <1>11, SumGrows
<1> QED BY <1>10, <1>12 DEF E

\* What is said of the differences only depends on the command.
LEMMA LedgerStands ==
    ASSUME UNCHANGED <<job, found>>
    PROVE  /\ Found' = Found /\ Group' = Group /\ DryRun' = DryRun
           /\ Ledger' <=> (~DryRun =>
                /\ Balanced(applied', next', sum')
                /\ \A j \in Instances : Covers(j, pc'[j], next'[j], me'[j].result, applied'))
<1>1. Found' = Found /\ Group' = Group /\ DryRun' = DryRun /\ Diffs' = Diffs
  BY DEF Found, Group, DryRun, Diffs
<1>2. \A t : Differences(t)' = Differences(t)
  BY <1>1 DEF Differences
<1> QED BY <1>1, <1>2 DEF Ledger, Balanced, Covers, Rest, Left, Done, Size

\* A goroutine moves on its target.
LEMMA LedgerMove ==
    ASSUME PushInv, Ledger, NEW i \in Instances, NEW l, NEW m,
           pc' = [pc EXCEPT ![i] = l], me' = [me EXCEPT ![i] = m], me \in [Instances -> Locals(Results)],
           UNCHANGED <<job, found, next, sum>>, OwnTargetOnly(i, l, next[i]),
           ~DryRun => Covers(i, l, next[i], m.result, applied')
    PROVE  Ledger'
<1> SUFFICES ASSUME ~DryRun
             PROVE  /\ Balanced(applied', next', sum')
                    /\ \A j \in Instances : Covers(j, pc'[j], next'[j], me'[j].result, applied')
  BY LedgerStands
<1>1. /\ Standing /\ next[i] \in Nat /\ Balanced(applied, next, sum)
      /\ pc \in [Instances -> Labels]
  BY DEF PushInv, Shape, Ledger
<1>2. \A j \in Instances : \A n \in 1..Len(Group[j]) : j # i \/ n # next[i] =>
          applied'[Group[j][n]] = applied[Group[j][n]]
  BY DEF OwnTargetOnly
<1>3. Balanced(applied', next', sum')
  <2>1. PICK b : b = applied'
    OBVIOUS
  <2>2. Balanced(b, next, sum)
    BY <1>1, <1>2, <2>1, StaysBalanced
  <2> QED BY <2>1, <2>2
<1>4. ASSUME NEW j \in Instances PROVE Covers(j, pc'[j], next'[j], me'[j].result, applied')
  <2>1. CASE j = i
    <3>1. pc'[j] = l /\ me'[j] = m /\ next'[j] = next[i]
      BY <1>1, <2>1
    <3> QED BY <2>1, <3>1
  <2>2. CASE j # i
    <3>1. /\ pc'[j] = pc[j] /\ me'[j] = me[j] /\ next'[j] = next[j]
          /\ Covers(j, pc[j], next[j], me[j].result, applied)
          /\ Staged(j, pc[j], next[j], me[j].stmts)
      BY <1>1, <2>2 DEF Ledger, PushInv, Steady
    <3>2. ASSUME pc[j] \in {"merge", "merging"}
          PROVE  Left(applied', Group[j][next[j]]) = Left(applied, Group[j][next[j]])
      <4>1. next[j] \in 1..Len(Group[j])
        BY <3>1, <3>2 DEF Staged
      <4> QED BY <1>2, <2>2, <4>1 DEF Left
    <3> QED BY <3>1, <3>2 DEF Covers
  <2> QED BY <2>1, <2>2
<1> QED BY <1>3, <1>4

LEMMA LedgerQuiet ==
    ASSUME PushInv, Ledger, Tally, NEW i \in Instances, NEW l, NEW m,
           pc' = [pc EXCEPT ![i] = l], me' = [me EXCEPT ![i] = m],
           UNCHANGED <<job, found, next, sum, applied>>,
           ~DryRun => Covers(i, l, next[i], m.result, applied)
    PROVE  Ledger'
<1>1. OwnTargetOnly(i, l, next[i])
  BY DEF OwnTargetOnly
<1>2. ~DryRun => Covers(i, l, next[i], m.result, applied')
  OBVIOUS
<1>3. me \in [Instances -> Locals(Results)]
  BY DEF Tally
<1> QED BY <1>1, <1>2, <1>3, LedgerMove

\* The loop over the object diffs.
LEMMA LedgerBuild ==
    ASSUME PushInv, Ledger, Tally, NEW i \in Instances, UNCHANGED <<job, found>>, BuildStatements(i)
    PROVE  Ledger'
<1>1. /\ pc[i] = "plan" /\ UNCHANGED <<next, sum, applied>>
  BY DEF BuildStatements, Go, shared, history
<1>2. Standing /\ me \in [Instances -> Locals(Results)]
  BY DEF PushInv, Tally
<1>3. next[i] \in 1..Len(Group[i])
  BY <1>1 DEF PushInv, Steady, Staged
<1>4. PICK t \in Targets : t = Target(i) /\ t = Group[i][next[i]]
  BY <1>2, <1>3, Command DEF Target
<1>5. PICK r, u :
         /\ u = Cardinality({k \in DOMAIN Reached(job, t) : Unsupported(Reached(job, t)[k])})
         /\ r = [differences |-> Len(Reached(job, t)) < Len(Diffs[t])
                                   \/ \E k \in DOMAIN Reached(job, t) : Differs(Reached(job, t)[k]),
                 unsupported |-> u,
                 skip |-> IF Len(Reached(job, t)) < Len(Diffs[t]) THEN Len(Diffs[t]) ELSE 0]
  OBVIOUS
<1>6. r \in Results
  BY <1>2, <1>5, BuiltResult
<1>7. me' = [me EXCEPT ![i].stmts = Plan(job, t), ![i].result = r]
  BY <1>4, <1>5 DEF BuildStatements
<1>8. PICK m : m = [me[i] EXCEPT !.stmts = Plan(job, t), !.result = r]
  OBVIOUS
<1>9. me' = [me EXCEPT ![i] = m] /\ m.result = r
  BY <1>2, <1>7, <1>8 DEF Locals
<1>10. u \in Nat /\ r.unsupported = u
  BY <1>5, <1>6 DEF Results
<1>11. /\ Len(Diffs[t]) \in Nat /\ Left(applied, t) \in Int /\ Left(applied, t) <= Len(Diffs[t])
       /\ Clean(t) => Len(Differences(t)) - Len(Plan(job, t)) <= u
  BY <1>2, <1>5, CountsFacts
<1>12. CASE Len(Reached(job, t)) < Len(Diffs[t])
  <2>1. pc' = [pc EXCEPT ![i] = "merge"]
    BY <1>4, <1>12 DEF BuildStatements, Go
  <2>2. Left(applied, t) <= Size(r)
    <3>1. r.skip = Len(Diffs[t])
      BY <1>5, <1>12
    <3> QED BY <1>10, <1>11, <3>1 DEF Size
  <2>3. Covers(i, "merge", next[i], m.result, applied)
    BY <1>4, <1>9, <2>2 DEF Covers
  <2> QED BY <1>1, <1>9, <2>1, <2>3, LedgerQuiet
<1>13. CASE ~(Len(Reached(job, t)) < Len(Diffs[t]))
  <2>1. pc' = [pc EXCEPT ![i] = "lint"]
    BY <1>4, <1>13 DEF BuildStatements, Go
  <2>2. Clean(t)
    <3>1. job.diffs[t] \in Seq(ObjectDiffs)
      BY <1>2, Command DEF Diffs
    <3> QED BY <1>13, <3>1, ReachedAll DEF Clean, Diffs
  <2>3. Len(Differences(t)) - Len(Plan(job, t)) <= Size(r)
    <3>1. r.skip = 0
      BY <1>5, <1>13
    <3> QED BY <1>10, <1>11, <2>2, <3>1 DEF Size
  <2>4. Covers(i, "lint", next[i], m.result, applied)
    BY <1>4, <1>9, <2>3 DEF Covers
  <2> QED BY <1>1, <1>9, <2>1, <2>4, LedgerQuiet
<1> QED BY <1>12, <1>13

\* The other steps that leave the shared result and what was executed alone.
LEMMA LedgerOn ==
    ASSUME PushInv, Ledger, Tally, NEW i \in Instances, UNCHANGED <<job, found>>,
           \/ Spawn(i) \/ Loop(i) \/ Introspect(i) \/ StripCheck(i) \/ StripAssign(i)
           \/ StripNil(i) \/ Verify(i) \/ Lint(i) \/ PrintStatement(i)
    PROVE  Ledger'
<1>. /\ me \in [Instances -> Locals(Results)] /\ Standing /\ me[i] \in Locals(Results)
     /\ Staged(i, pc[i], next[i], me[i].stmts) /\ Progress(i, pc[i], next[i], me[i].stmts)
     /\ ~DryRun => Covers(i, pc[i], next[i], me[i].result, applied)
     /\ me[i].result \in Results /\ me[i].stmts \in Seq(ObjectDiffs)
  BY DEF PushInv, Steady, Tally, Ledger, Locals
<1>1. UNCHANGED <<next, sum, applied>>
  BY DEF Spawn, Loop, Introspect, StripCheck, StripAssign, StripNil, Verify,
         Lint, PrintStatement, Go, Fail, shared, history
<1>2. ASSUME NEW l, NEW m, pc' = [pc EXCEPT ![i] = l], me' = [me EXCEPT ![i] = m],
             ~DryRun => Covers(i, l, next[i], m.result, applied)
      PROVE  Ledger'
  BY <1>1, <1>2, LedgerQuiet
<1>3. ASSUME NEW l, l \notin {"lint", "print", "execute", "merge", "merging"},
             pc' = [pc EXCEPT ![i] = l], NEW m, me' = [me EXCEPT ![i] = m]
      PROVE  Ledger'
  <2>1. Covers(i, l, next[i], m.result, applied)
    BY <1>3 DEF Covers
  <2> QED BY <1>2, <1>3, <2>1
<1>4. CASE \/ Spawn(i) \/ StripAssign(i) \/ StripNil(i) \/ Introspect(i) \/ Verify(i)
  <2>1. me' = [me EXCEPT ![i] = me[i]]
    BY <1>4 DEF Spawn, StripAssign, StripNil, Introspect, Verify, Fail
  <2>2. \E l \in {"loop", "stripped", "verify", "strip", "plan", "ended"} : pc' = [pc EXCEPT ![i] = l]
    BY <1>4 DEF Spawn, StripAssign, StripNil, Introspect, Verify, Go, Fail
  <2> QED BY <1>3, <2>1, <2>2
<1>5. CASE Loop(i)
  <2>1. \E l \in {"ended", "introspect"} : pc' = [pc EXCEPT ![i] = l]
    BY <1>5 DEF Loop, Go
  <2>2. \E m : me' = [me EXCEPT ![i] = m]
    <3>1. me' = [me EXCEPT ![i] = me[i]] \/ me' = [me EXCEPT ![i] = Fresh]
      BY <1>5 DEF Loop
    <3> QED BY <3>1
  <2> QED BY <1>3, <2>1, <2>2
<1>6. CASE StripCheck(i)
  <2>1. \E l \in {"stripping", "verify"} : pc' = [pc EXCEPT ![i] = l]
    BY <1>6 DEF StripCheck, Go
  <2>2. \E m : me' = [me EXCEPT ![i] = m]
    <3>1. CASE UNCHANGED me
      <4>1. me' = [me EXCEPT ![i] = me[i]]
        BY <3>1
      <4> QED BY <4>1
    <3>2. CASE \E x : me' = [me EXCEPT ![i].suffix = x]
      <4>1. PICK x : me' = [me EXCEPT ![i].suffix = x]
        BY <3>2
      <4>2. me' = [me EXCEPT ![i] = [me[i] EXCEPT !.suffix = x]]
        BY <4>1
      <4> QED BY <4>2
    <3> QED BY <1>6, <3>1, <3>2 DEF StripCheck
  <2> QED BY <1>3, <2>1, <2>2
<1>7. ASSUME pc[i] \in {"lint", "print"}
      PROVE  next[i] \in 1..Len(Group[i]) /\ Target(i) \in Targets /\ Target(i) = Group[i][next[i]]
  BY <1>7, Command DEF Staged, Target
<1>8. ASSUME pc[i] \in {"lint", "print"}, NEW l \in {"print", "execute"},
             pc' = [pc EXCEPT ![i] = l], UNCHANGED me
      PROVE  Ledger'
  <2>1. ~DryRun => Covers(i, l, next[i], me[i].result, applied)
    BY <1>8 DEF Covers
  <2>2. me' = [me EXCEPT ![i] = me[i]]
    BY <1>8
  <2> QED BY <1>2, <1>8, <2>1, <2>2
<1>9. CASE Lint(i)
  <2>1. pc[i] = "lint"
    BY <1>9 DEF Lint
  <2>2. PICK t \in Targets : t = Target(i) /\ t = Group[i][next[i]]
    BY <1>7, <2>1
  <2>3. CASE UNCHANGED me /\ pc' = [pc EXCEPT ![i] = "ended"]
    <3>1. me' = [me EXCEPT ![i] = me[i]]
      BY <2>3
    <3> QED BY <1>3, <2>3, <3>1
  <2>4. CASE UNCHANGED me /\ pc' = [pc EXCEPT ![i] = "print"]
    BY <1>8, <2>1, <2>4
  <2>5. CASE /\ me' = [me EXCEPT ![i].result.skip = me[i].result.skip + Len(Diffs[t])]
             /\ pc' = [pc EXCEPT ![i] = "merge"]
    <3>1. PICK r : r = [me[i].result EXCEPT !.skip = me[i].result.skip + Len(Diffs[t])]
      OBVIOUS
    <3>2. /\ Len(Diffs[t]) \in Nat /\ Left(applied, t) \in Int /\ Left(applied, t) <= Len(Diffs[t])
      BY CountsFacts
    <3>3. r.skip = me[i].result.skip + Len(Diffs[t]) /\ r.unsupported = me[i].result.unsupported
      <4>1. PICK a \in Results, n \in Nat : a = me[i].result /\ n = Len(Diffs[t])
        BY <3>2
      <4>2. r = [a EXCEPT !.skip = a.skip + n]
        BY <3>1, <4>1
      <4> QED BY <4>1, <4>2, MoreSkips
    <3>4. Left(applied, t) <= Size(r)
      <4>1. me[i].result.skip \in Nat /\ me[i].result.unsupported \in Nat
        BY DEF Results
      <4> QED BY <3>2, <3>3, <4>1 DEF Size
    <3>5. PICK m : m = [me[i] EXCEPT !.result = r]
      OBVIOUS
    <3>6. m.result = r
      BY <3>5 DEF Locals
    <3>7. me' = [me EXCEPT ![i] = m]
      BY <2>5, <3>1, <3>5
    <3>8. Covers(i, "merge", next[i], m.result, applied)
      BY <2>2, <3>4, <3>6 DEF Covers
    <3> QED BY <1>2, <2>5, <3>7, <3>8
  <2> QED BY <1>9, <2>2, <2>3, <2>4, <2>5 DEF Lint, Go, Fail
<1>10. CASE PrintStatement(i)
  <2>1. pc[i] = "print" /\ me' = me
    BY <1>10 DEF PrintStatement
  <2>2. PICK t \in Targets : t = Target(i) /\ t = Group[i][next[i]]
    BY <1>7, <2>1
  <2>3. CASE me[i].stmts = <<>>
    <3>1. pc' = [pc EXCEPT ![i] = "merge"]
      BY <1>10, <2>3 DEF PrintStatement, Go
    <3>2. ~DryRun => applied[t] = Plan(job, t)
      <4>1. ~DryRun => applied[t] \o me[i].stmts = Plan(job, t)
        BY <2>1, <2>2 DEF Progress, Executing
      <4> QED BY <2>3, <4>1, Command, ConcatEmptySeq
    <3>3. ~DryRun => Covers(i, "merge", next[i], me[i].result, applied)
      BY <2>1, <2>2, <3>2 DEF Covers, Left
    <3>4. me' = [me EXCEPT ![i] = me[i]]
      BY <2>1
    <3> QED BY <1>2, <3>1, <3>3, <3>4
  <2>4. CASE me[i].stmts # <<>>
    <3>1. pc' = [pc EXCEPT ![i] = "execute"]
      BY <1>10, <2>4 DEF PrintStatement, Go
    <3> QED BY <1>8, <2>1, <3>1
  <2> QED BY <2>3, <2>4
<1> QED BY <1>4, <1>5, <1>6, <1>9, <1>10

LEMMA LedgerExecute ==
    ASSUME PushInv, Ledger, Tally, NEW i \in Instances, UNCHANGED <<job, found>>, Execute(i)
    PROVE  Ledger'
<1>. /\ me \in [Instances -> Locals(Results)] /\ Standing /\ me[i] \in Locals(Results)
     /\ Staged(i, pc[i], next[i], me[i].stmts) /\ Progress(i, pc[i], next[i], me[i].stmts)
     /\ ~DryRun => Covers(i, pc[i], next[i], me[i].result, applied)
     /\ me[i].result \in Results /\ me[i].stmts \in Seq(ObjectDiffs)
  BY DEF PushInv, Steady, Tally, Ledger, Locals
<1>1. pc[i] = "execute" /\ UNCHANGED <<next, sum>>
  BY DEF Execute, Go, shared
<1>2. next[i] \in 1..Len(Group[i]) /\ me[i].stmts # <<>>
  BY <1>1 DEF Staged
<1>3. PICK t \in Targets : t = Target(i) /\ t = Group[i][next[i]]
  BY <1>2, Command DEF Target
<1>4. /\ Len(Tail(me[i].stmts)) \in Nat /\ Len(Tail(me[i].stmts)) = Len(me[i].stmts) - 1
      /\ Len(me[i].stmts) \in Nat
  BY <1>2, HeadTailProperties, LenProperties
<1>5. ~DryRun => Len(Differences(t)) - Len(Plan(job, t)) <= Size(me[i].result)
  BY <1>1, <1>3 DEF Covers
<1>6. CASE /\ applied' = IF DryRun THEN applied ELSE
                            [applied EXCEPT ![t] = Append(@, Head(me[i].stmts))]
           /\ me' = [me EXCEPT ![i].stmts = Tail(me[i].stmts)]
           /\ pc' = [pc EXCEPT ![i] = "print"]
  <2>1. PICK m : m = [me[i] EXCEPT !.stmts = Tail(me[i].stmts)]
    OBVIOUS
  <2>2. m.result = me[i].result
    BY <2>1 DEF Locals
  <2>3. me' = [me EXCEPT ![i] = m]
    BY <1>6, <2>1
  <2>4. OwnTargetOnly(i, "print", next[i])
    <3>1. PICK a : a = Append(applied[t], Head(me[i].stmts))
      OBVIOUS
    <3>2. applied' = IF DryRun THEN applied ELSE [applied EXCEPT ![Target(i)] = a]
      BY <1>3, <1>6, <3>1
    <3> QED BY <1>2, <3>2, ExecutesOwn
  <2>5. ~DryRun => Covers(i, "print", next[i], m.result, applied')
    BY <1>3, <1>5, <2>2 DEF Covers
  <2> QED BY <1>1, <1>6, <2>3, <2>4, <2>5, LedgerMove
<1>7. CASE /\ me' = [me EXCEPT ![i].result.skip = me[i].result.skip + Len(Tail(me[i].stmts)) + 1]
           /\ pc' = [pc EXCEPT ![i] = "merge"] /\ UNCHANGED applied
  <2>1. PICK a \in Results, n \in Nat : a = me[i].result /\ n = Len(me[i].stmts)
    BY <1>4
  <2>2. a.skip \in Nat /\ a.unsupported \in Nat
    BY DEF Results
  <2>3. PICK r : r = [a EXCEPT !.skip = a.skip + n]
    OBVIOUS
  <2>4. r.skip = a.skip + n /\ r.unsupported = a.unsupported
    BY <2>3, MoreSkips
  <2>5. PICK m : m = [me[i] EXCEPT !.result = r]
    OBVIOUS
  <2>6. m.result = r
    BY <2>5 DEF Locals
  <2>7. me' = [me EXCEPT ![i] = m]
    <3>1. a.skip + n = me[i].result.skip + Len(Tail(me[i].stmts)) + 1
      BY <1>4, <2>1, <2>2
    <3>2. r = [me[i].result EXCEPT !.skip = me[i].result.skip + Len(Tail(me[i].stmts)) + 1]
      BY <2>1, <2>3, <3>1
    <3> QED BY <1>7, <2>5, <3>2
  <2>8. ASSUME ~DryRun PROVE Left(applied, t) <= Size(r)
    <3>1. /\ Len(Differences(t)) \in Nat /\ Len(Plan(job, t)) \in Nat /\ Len(applied[t]) \in Nat
          /\ applied[t] \in Seq(ObjectDiffs)
      BY CountsFacts, Command
    <3>2. applied[t] \o me[i].stmts = Plan(job, t)
      BY <1>1, <1>3, <2>8 DEF Progress, Executing
    <3>3. Len(Plan(job, t)) = Len(applied[t]) + n
      BY <2>1, <3>1, <3>2, ConcatProperties
    <3>4. Size(r) = Size(a) + n /\ Size(a) \in Nat
      BY <2>2, <2>4 DEF Size
    <3>5. Len(Differences(t)) - Len(Plan(job, t)) <= Size(a)
      BY <1>5, <2>1, <2>8
    <3> QED BY <3>1, <3>3, <3>4, <3>5 DEF Left
  <2>9. ~DryRun => Covers(i, "merge", next[i], m.result, applied)
    BY <1>3, <2>6, <2>8 DEF Covers
  <2> QED BY <1>1, <1>7, <2>7, <2>9, LedgerQuiet
<1> QED BY <1>3, <1>6, <1>7 DEF Execute, Go

\* sum.Merge under the mutex.
LEMMA LedgerMerge ==
    ASSUME PushInv, Ledger, Tally, NEW i \in Instances, UNCHANGED <<job, found>>,
           MergeRead(i) \/ MergeWrite(i)
    PROVE  Ledger'
<1>. /\ me \in [Instances -> Locals(Results)] /\ Standing /\ me[i] \in Locals(Results)
     /\ next \in [Instances -> Nat \ {0}] /\ pc \in [Instances -> Labels] /\ sum \in Results
     /\ Staged(i, pc[i], next[i], me[i].stmts)
     /\ ~DryRun => Covers(i, pc[i], next[i], me[i].result, applied)
     /\ me[i].result \in Results
  BY DEF PushInv, Shape, Steady, Tally, Ledger, Locals
<1>1. pc[i] \in {"merge", "merging"} /\ UNCHANGED applied
  BY DEF MergeRead, MergeWrite, Go, history
<1>2. next[i] \in 1..Len(Group[i])
  BY <1>1 DEF Staged
<1>3. ~DryRun => Left(applied, Target(i)) <= Size(me[i].result)
  BY <1>1 DEF Covers, Target
<1>4. CASE MergeRead(i)
  <2>1. /\ UNCHANGED <<sum, next>> /\ pc' = [pc EXCEPT ![i] = "merging"]
        /\ me' = [me EXCEPT ![i].copy = sum]
    BY <1>4 DEF MergeRead, Go
  <2>2. PICK m : m = [me[i] EXCEPT !.copy = sum]
    OBVIOUS
  <2>3. m.result = me[i].result /\ me' = [me EXCEPT ![i] = m]
    BY <2>1, <2>2 DEF Locals
  <2>4. ~DryRun => Covers(i, "merging", next[i], m.result, applied)
    BY <1>3, <2>3 DEF Covers, Target
  <2> QED BY <1>1, <2>1, <2>3, <2>4, LedgerQuiet
<1>5. CASE MergeWrite(i)
  <2> SUFFICES ASSUME ~DryRun
               PROVE  /\ Balanced(applied', next', sum')
                      /\ \A j \in Instances : Covers(j, pc'[j], next'[j], me'[j].result, applied')
    BY LedgerStands
  <2>1. /\ pc[i] = "merging" /\ sum' = Merge(me[i].copy, me[i].result)
        /\ pc' = [pc EXCEPT ![i] = "loop"] /\ me' = me
        /\ next' = [next EXCEPT ![i] = next[i] + 1]
    BY <1>5 DEF MergeWrite
  <2>2. PICK a, q, nx : a = me[i].result /\ q = sum' /\ nx = next' /\ a \in Results
    OBVIOUS
  <2>3. q.skip = sum.skip + a.skip /\ q.unsupported = sum.unsupported + a.unsupported
    BY <2>1, <2>2 DEF Tally, Merge
  <2>4. Size(q) = Size(sum) + Size(a)
    <3>1. /\ sum.skip \in Nat /\ sum.unsupported \in Nat /\ a.skip \in Nat /\ a.unsupported \in Nat
      BY <2>2 DEF Results
    <3> QED BY <2>3, <3>1 DEF Size
  <2>5. Balanced(applied, nx, q)
    <3>1. Balanced(applied, next, sum) /\ Left(applied, Target(i)) <= Size(a)
      BY <1>3, <2>2 DEF Ledger
    <3>2. nx = [next EXCEPT ![i] = next[i] + 1]
      BY <2>1, <2>2
    <3> QED BY <1>2, <2>2, <2>4, <3>1, <3>2, MergeBalances
  <2>6. ASSUME NEW j \in Instances PROVE Covers(j, pc'[j], next'[j], me'[j].result, applied')
    <3>1. CASE j = i
      BY <2>1, <3>1 DEF Covers
    <3>2. CASE j # i
      BY <1>1, <2>1, <3>2 DEF Ledger
    <3> QED BY <3>1, <3>2
  <2> QED BY <1>1, <2>2, <2>5, <2>6
<1> QED BY <1>4, <1>5

LEMMA LedgerStep ==
    ASSUME PushInv, Ledger, Tally, [Next /\ UNCHANGED <<job, found>>]_<<vars, job, found>>
    PROVE  Ledger'
<1>0. UNCHANGED <<job, found>>
  OBVIOUS
<1>1. CASE UNCHANGED <<vars, job, found>> \/ Exited \/ Wait
  <2>1. UNCHANGED <<sum, me, pc, next, applied>>
    BY <1>1 DEF Exited, Wait, vars, goroutine, shared, history
  <2> QED BY <1>0, <2>1, LedgerStands DEF Ledger
<1>2. CASE \E i \in Instances : Spawn(i) \/ Goroutine(i)
  <2>1. PICK i \in Instances : Spawn(i) \/ Goroutine(i)
    BY <1>2
  <2>2. CASE BuildStatements(i)
    BY <1>0, <2>2, LedgerBuild
  <2>3. CASE Execute(i)
    BY <1>0, <2>3, LedgerExecute
  <2>4. CASE MergeRead(i) \/ MergeWrite(i)
    BY <1>0, <2>4, LedgerMerge
  <2>5. CASE \/ Spawn(i) \/ Loop(i) \/ Introspect(i) \/ StripCheck(i) \/ StripAssign(i)
             \/ StripNil(i) \/ Verify(i) \/ Lint(i) \/ PrintStatement(i)
    BY <1>0, <2>5, LedgerOn
  <2> QED BY <2>1, <2>2, <2>3, <2>4, <2>5 DEF Goroutine
<1> QED BY <1>1, <1>2 DEF Next, Main

LEMMA LedgerInit == Init => Ledger
<1> SUFFICES ASSUME Init PROVE Ledger
  OBVIOUS
<1>1. Standing /\ sum \in Results
  BY PushInit, TallyInit DEF PushInv, Tally
<1>2. \A i \in Instances : pc[i] = "idle" /\ next[i] = 1
  BY DEF Init
<1>3. \A i \in Instances : Covers(i, pc[i], next[i], me[i].result, applied)
  BY <1>2 DEF Covers
<1>4. Done(next) = {}
  <2>1. \A i \in Instances : \A n \in 1..Len(Group[i]) : ~(n < 1)
    BY <1>1, Command
  <2> QED BY <1>2, <2>1 DEF Done
<1>5. ASSUME NEW g, Sums(g, Found, Rest(applied)) PROVE g[{}] = 0
  <2>1. {} \in SUBSET Found
    OBVIOUS
  <2> QED BY <1>5, <2>1 DEF Sums, SumAt
<1>6. 0 <= Size(sum)
  BY <1>1 DEF Size, Results
<1>7. Balanced(applied, next, sum)
  BY <1>4, <1>5, <1>6 DEF Balanced
<1> QED BY <1>3, <1>7 DEF Ledger

\* MapThenSumSet of the differences that are left is their sum.
LEMMA SumOfRest ==
    ASSUME Standing
    PROVE  \E g : /\ Sums(g, Found, Rest(applied))
                  /\ MapThenSumSet(LAMBDA t : Len(Differences(t)) - Len(applied[t]), Found) = g[Found]
<1> DEFINE Body(h) == [s \in SUBSET Found |->
                          IF s = {} THEN 0
                          ELSE (Len(Differences(CHOOSE x \in s : TRUE))
                                  - Len(applied[CHOOSE x \in s : TRUE]))
                               + h[s \ {CHOOSE x \in s : TRUE}]]
           it == CHOOSE h : h = Body(h)
<1>1. MapThenSumSet(LAMBDA t : Len(Differences(t)) - Len(applied[t]), Found) = it[Found]
  BY DEF MapThenSumSet, MapThenFoldSet
<1>2. PICK g : Sums(g, Found, Rest(applied))
  BY SumsExist
<1>3. \A s \in SUBSET Found : s # {} =>
         /\ Some(s) \in s
         /\ Rest(applied)[Some(s)] = Len(Differences(Some(s))) - Len(applied[Some(s)])
  BY DEF Some, Rest, Left
<1>4. g = Body(g)
  <2>1. g = [s \in SUBSET Found |-> g[s]]
    BY <1>2 DEF Sums
  <2>2. ASSUME NEW s \in SUBSET Found
        PROVE  g[s] = IF s = {} THEN 0
                      ELSE (Len(Differences(Some(s))) - Len(applied[Some(s)])) + g[s \ {Some(s)}]
    BY <1>2, <1>3 DEF Sums, SumAt
  <2> QED BY <2>1, <2>2 DEF Some
<1>5. it = Body(it)
  <2>1. \E h : h = Body(h)
    BY <1>4
  <2> HIDE DEF Body
  <2> QED BY <2>1
<1>6. \A s \in SUBSET Found : SumAt(it, Rest(applied), s)
  <2> HIDE DEF it
  <2>1. ASSUME NEW s \in SUBSET Found
        PROVE  it[s] = IF s = {} THEN 0
                       ELSE (Len(Differences(Some(s))) - Len(applied[Some(s)])) + it[s \ {Some(s)}]
    <3>1. it[s] = Body(it)[s]
      BY <1>5
    <3>2. Body(it)[s] = IF s = {} THEN 0
                       ELSE (Len(Differences(Some(s))) - Len(applied[Some(s)])) + it[s \ {Some(s)}]
      BY DEF Some
    <3> QED BY <3>1, <3>2
  <2> QED BY <1>3, <2>1 DEF SumAt
<1>7. it[Found] = g[Found]
  <2>1. PICK h, f : h = it /\ f = Rest(applied)
    OBVIOUS
  <2>2. /\ \A u \in SUBSET Found : SumAt(h, f, u)
        /\ \A u \in SUBSET Found : SumAt(g, f, u)
        /\ IsFiniteSet(Found) /\ Found \in SUBSET Found
    BY <1>2, <1>6, <2>1, FoundFacts DEF Sums
  <2>3. h[Found] = g[Found]
    BY <2>2, SumSame
  <2> QED BY <2>1, <2>3
<1> QED BY <1>1, <1>2, <1>7

\* Without an error, the numbers of the summary account for every difference that was
\* not applied, whatever was refused, unsupported, not linted or failed, and however
\* the merges of the goroutines interleave.
THEOREM SkipsAreReported == Spec => []SkippedIsReported
<1>1. PushInv /\ Listing /\ Ledger => SkippedIsReported
  <2> SUFFICES ASSUME PushInv, Listing, Ledger, exit # None, err = 0, ~DryRun
               PROVE  MapThenSumSet(LAMBDA t : Len(Differences(t)) - Len(applied[t]), Found)
                          <= sum.skip + sum.unsupported
    BY DEF SkippedIsReported
  <2>1. Standing /\ next \in [Instances -> Nat \ {0}]
    BY DEF PushInv, Shape
  <2>2. PICK g : /\ Sums(g, Found, Rest(applied))
                 /\ MapThenSumSet(LAMBDA t : Len(Differences(t)) - Len(applied[t]), Found) = g[Found]
    BY <2>1, SumOfRest
  <2>3. Done(next) = Found
    <3>1. ASSUME NEW t \in Found PROVE t \in Done(next)
      <4>1. PICK i \in Instances : \E n \in 1..Len(Group[i]) : t = Group[i][n]
        BY <2>1, FoundFacts
      <4>2. PICK n \in 1..Len(Group[i]) : t = Group[i][n]
        BY <4>1
      <4>3. n < next[i]
        BY <2>1, <4>2, EndedAfterAll
      <4> QED BY <4>2, <4>3 DEF Done
    <3> QED BY <3>1 DEF Done
  <2>4. g[Found] <= Size(sum)
    BY <2>2, <2>3 DEF Ledger, Balanced
  <2> QED BY <2>2, <2>4 DEF Size
<1>2. PushInv /\ Ledger /\ Tally /\ [Next /\ UNCHANGED <<job, found>>]_<<vars, job, found>> => Ledger'
  BY LedgerStep
<1>3. Spec => []Ledger
  BY <1>2, PushInvariance, TallyInvariance, LedgerInit, PTL DEF Spec
<1> QED BY <1>1, <1>3, PushInvariance, ListingInvariance, PTL
=============================================================================
