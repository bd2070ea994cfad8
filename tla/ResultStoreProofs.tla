--------------------------- MODULE ResultStoreProofs ---------------------------
(***************************************************************************)
(* Saving and loading, for any benchmarks, any result files, any number of *)
(* executions and of INFILEs: what a result file may lose, and what it     *)
(* may not.                                                                *)
(***************************************************************************)
EXTENDS ResultStore, NumberInduction, SequenceTheorems

-----------------------------------------------------------------------------
(* Enumerations, and the k-th smallest number.                             *)

\* f lists the elements of a set of numbers in their order.
Enumerates(f, m, S) == /\ f \in [1..m -> S]
                       /\ \A x \in S : \E k \in 1..m : f[k] = x
                       /\ \A i \in 1..m, j \in 1..m : i < j => f[i] < f[j]

LEMMA EnumerationOrder ==
  ASSUME NEW S \in SUBSET Nat, NEW m \in Nat, NEW f, Enumerates(f, m, S),
         NEW i \in 1..m, NEW j \in 1..m
  PROVE  f[i] \in S /\ f[i] \in Nat /\ (f[i] = f[j] => i = j) /\ (f[i] =< f[j] <=> i =< j)
<1>1. f[i] \in S /\ f[j] \in S
  BY DEF Enumerates
<1>2. f[i] \in Nat /\ f[j] \in Nat
  BY <1>1
<1>3. (i < j => f[i] < f[j]) /\ (j < i => f[j] < f[i])
  BY DEF Enumerates
<1> QED
  BY <1>1, <1>2, <1>3

LEMMA EnumerationCardinality ==
  ASSUME NEW S \in SUBSET Nat, NEW m \in Nat, NEW f, Enumerates(f, m, S)
  PROVE  IsFiniteSet(S) /\ Cardinality(S) = m
<1>1. \A i \in 1..m, j \in 1..m : f[i] = f[j] => i = j
  BY EnumerationOrder
<1>2. f \in Bijection(1..m, S)
  BY <1>1 DEF Enumerates, Bijection, Injection, Surjection, IsInjective
<1>3. ExistsBijection(1..m, S)
  BY <1>2 DEF ExistsBijection
<1>4. IsFiniteSet(1..m) /\ Cardinality(1..m) = m
  <2> 1 \in Int /\ m \in Int
    OBVIOUS
  <2> QED
    BY FS_Interval
<1> QED
  BY <1>3, <1>4, FS_Bijection

LEMMA KthOfEnumeration ==
  ASSUME NEW S \in SUBSET Nat, NEW m \in Nat, NEW f, Enumerates(f, m, S), NEW k \in 1..m
  PROVE  Kth(S, k) = f[k]
<1> DEFINE UpTo(i) == {j \in S : j =< i}
<1>1. ASSUME NEW l \in 1..m PROVE Cardinality(UpTo(f[l])) = l
  <2> DEFINE g == [i \in 1..l |-> f[i]]
  <2>1. Enumerates(g, l, UpTo(f[l]))
    <3>1. ASSUME NEW i \in 1..l PROVE f[i] \in S /\ f[i] =< f[l]
      <4> i \in 1..m /\ i =< l
        OBVIOUS
      <4> QED
        BY EnumerationOrder
    <3>2. ASSUME NEW x \in UpTo(f[l]) PROVE \E i \in 1..l : f[i] = x
      <4>1. PICK i \in 1..m : f[i] = x
        BY DEF Enumerates
      <4>2. f[i] =< f[l]
        BY <4>1
      <4>3. i =< l
        BY <4>2, EnumerationOrder
      <4> QED
        BY <4>1, <4>3
    <3> QED
      BY <3>1, <3>2 DEF Enumerates
  <2> QED
    BY <2>1, EnumerationCardinality
<1>2. f[k] \in S /\ Cardinality(UpTo(f[k])) = k
  BY <1>1 DEF Enumerates
<1>3. \A i \in S : Cardinality(UpTo(i)) = k => i = f[k]
  BY <1>1 DEF Enumerates
<1> QED
  BY <1>2, <1>3 DEF Kth

LEMMA EnumerationExists ==
  ASSUME NEW n \in Nat, NEW S \in SUBSET (1..n)
  PROVE  \E m \in Nat : \E f \in [1..m -> S] : Enumerates(f, m, S)
<1> DEFINE Q(l) == \A T \in SUBSET (1..l) : \E m \in Nat : \E f \in [1..m -> T] : Enumerates(f, m, T)
           P == {l \in Nat : Q(l)}
<1>1. Q(0)
  <2> SUFFICES ASSUME NEW T \in SUBSET (1..0)
               PROVE  \E m \in Nat : \E f \in [1..m -> T] : Enumerates(f, m, T)
    OBVIOUS
  <2>1. T = {} /\ 1..0 = {}
    OBVIOUS
  <2>2. [i \in 1..0 |-> i] \in [1..0 -> T] /\ Enumerates([i \in 1..0 |-> i], 0, T)
    BY <2>1 DEF Enumerates
  <2> QED
    BY <2>2
<1>2. ASSUME NEW l \in Nat, Q(l) PROVE Q(l + 1)
  <2> SUFFICES ASSUME NEW T \in SUBSET (1..(l + 1))
               PROVE  \E m \in Nat : \E f \in [1..m -> T] : Enumerates(f, m, T)
    OBVIOUS
  <2> DEFINE U == T \ {l + 1}
  <2>1. U \in SUBSET (1..l)
    OBVIOUS
  <2>0. PICK m \in Nat : \E f \in [1..m -> U] : Enumerates(f, m, U)
    BY <1>2, <2>1
  <2>2. PICK f \in [1..m -> U] : Enumerates(f, m, U)
    BY <2>0
  <2>3. CASE l + 1 \notin T
    <3>1. U = T
      BY <2>3
    <3> QED
      BY <2>2, <3>1
  <2>4. CASE l + 1 \in T
    <3> DEFINE g == [i \in 1..(m + 1) |-> IF i =< m THEN f[i] ELSE l + 1]
    <3>1. g \in [1..(m + 1) -> T]
      BY <2>4
    <3>2. ASSUME NEW x \in T PROVE \E i \in 1..(m + 1) : g[i] = x
      <4>1. CASE x = l + 1
        BY <4>1
      <4>2. CASE x # l + 1
        <5>1. PICK i \in 1..m : f[i] = x
          BY <2>2, <4>2 DEF Enumerates
        <5> QED
          BY <5>1
      <4> QED
        BY <4>1, <4>2
    <3>3. \A i \in 1..(m + 1), j \in 1..(m + 1) : i < j => g[i] < g[j]
      <4> SUFFICES ASSUME NEW i \in 1..(m + 1), NEW j \in 1..(m + 1), i < j
                   PROVE  g[i] < g[j]
        OBVIOUS
      <4>1. i \in 1..m
        OBVIOUS
      <4>2. f[i] \in 1..l
        <5> HIDE DEF U
        <5> QED
          BY <2>1, <4>1
      <4>3. CASE j = m + 1
        BY <4>1, <4>2, <4>3
      <4>4. CASE j \in 1..m
        BY <2>2, <4>1, <4>4 DEF Enumerates
      <4> QED
        BY <4>3, <4>4
    <3>4. Enumerates(g, m + 1, T)
      BY <3>1, <3>2, <3>3 DEF Enumerates
    <3> QED
      BY <3>1, <3>4
  <2> QED
    BY <2>3, <2>4
<1>3. Nat \subseteq P
  <2> HIDE DEF Q
  <2>1. 0 \in P /\ \A l \in Nat : l \in P => l + 1 \in P
    BY <1>1, <1>2
  <2> HIDE DEF P
  <2> QED
    BY <2>1, Induction
<1> QED
  BY <1>3

-----------------------------------------------------------------------------
(* Saving.                                                                 *)

LEMMA Numbers == /\ MaxExecutions \in Nat /\ MaxExecutions > 0 /\ MaxInfiles \in Nat
                 /\ NoRun \notin Number /\ Blank \notin Number
BY ConstantsAssumption DEF Number, NoRun, Blank

\* The runs of a benchmark, in the order of the executions.
Runs(s, b) == [k \in 1..Cardinality(Having(s, b)) |-> s[Kth(Having(s, b), k)].runs[b]]

LEMMA HavingType ==
  ASSUME NEW s \in Seq(Execution), NEW b \in Bench
  PROVE  /\ Having(s, b) \in SUBSET (1..Len(s))
         /\ \A i \in Having(s, b) : s[i].runs[b] \in Number
<1>1. DOMAIN s = 1..Len(s) /\ \A i \in 1..Len(s) : s[i] \in Execution
  BY LenProperties
<1> QED
  BY <1>1 DEF Having, Execution

LEMMA RunsOfEnumeration ==
  ASSUME NEW s \in Seq(Execution), NEW b \in Bench, NEW m \in Nat, NEW f,
         Enumerates(f, m, Having(s, b))
  PROVE  Runs(s, b) = [k \in 1..m |-> s[f[k]].runs[b]]
<1> DEFINE S == Having(s, b)
<1>1. S \in SUBSET Nat
  BY HavingType
<1>2. Enumerates(f, m, S)
  OBVIOUS
<1> HIDE DEF S
<1>3. Cardinality(S) = m /\ \A k \in 1..m : Kth(S, k) = f[k]
  BY <1>1, <1>2, EnumerationCardinality, KthOfEnumeration
<1> QED
  BY <1>3 DEF Runs, S

LEMMA RunsEnumerated ==
  ASSUME NEW s \in Seq(Execution), NEW b \in Bench
  PROVE  \E m \in Nat : \E f \in [1..m -> Having(s, b)] :
           Enumerates(f, m, Having(s, b)) /\ Runs(s, b) = [k \in 1..m |-> s[f[k]].runs[b]]
<1>1. PICK m \in Nat : \E f \in [1..m -> Having(s, b)] : Enumerates(f, m, Having(s, b))
  <2>1. Len(s) \in Nat
    BY LenProperties
  <2> QED
    BY <2>1, HavingType, EnumerationExists
<1>2. PICK f \in [1..m -> Having(s, b)] : Enumerates(f, m, Having(s, b))
  BY <1>1
<1>3. Runs(s, b) = [k \in 1..m |-> s[f[k]].runs[b]]
  BY <1>2, RunsOfEnumeration
<1> QED
  BY <1>2, <1>3

LEMMA RunsType ==
  ASSUME NEW s \in Seq(Execution), NEW b \in Bench
  PROVE  Runs(s, b) \in Seq(Number)
<1>1. PICK m \in Nat : \E f \in [1..m -> Having(s, b)] :
             Runs(s, b) = [k \in 1..m |-> s[f[k]].runs[b]]
  BY RunsEnumerated
<1>2. PICK f \in [1..m -> Having(s, b)] : Runs(s, b) = [k \in 1..m |-> s[f[k]].runs[b]]
  BY <1>1
<1>3. \A k \in 1..m : s[f[k]].runs[b] \in Number
  BY HavingType
<1>4. Runs(s, b) \in [1..m -> Number]
  BY <1>2, <1>3
<1> QED
  BY <1>4

\* The runs of a benchmark that has one in the first n executions and in no other.
LEMMA RunsOfFirst ==
  ASSUME NEW s \in Seq(Execution), NEW b \in Bench, NEW n \in Nat, Having(s, b) = 1..n
  PROVE  Runs(s, b) = [k \in 1..n |-> s[k].runs[b]]
<1> DEFINE f == [k \in 1..n |-> k]
<1>1. Enumerates(f, n, Having(s, b))
  BY DEF Enumerates
<1>2. \A k \in 1..n : f[k] = k
  OBVIOUS
<1> HIDE DEF f
<1>3. Runs(s, b) = [k \in 1..n |-> s[f[k]].runs[b]]
  BY <1>1, RunsOfEnumeration
<1> QED
  BY <1>2, <1>3

\* The runs of a list of executions that begins with s and goes on with t.
LEMMA RunsOfBoth ==
  ASSUME NEW s \in Seq(Execution), NEW t \in Seq(Execution), NEW u \in Seq(Execution),
         NEW b \in Bench,
         Len(u) = Len(s) + Len(t),
         \A i \in 1..Len(u) : u[i] = IF i =< Len(s) THEN s[i] ELSE t[i - Len(s)]
  PROVE  /\ Len(Runs(u, b)) = Len(Runs(s, b)) + Len(Runs(t, b))
         /\ \A i \in 1..Len(Runs(u, b)) :
              Runs(u, b)[i] = IF i =< Len(Runs(s, b)) THEN Runs(s, b)[i]
                              ELSE Runs(t, b)[i - Len(Runs(s, b))]
<1>1. /\ Len(s) \in Nat /\ Len(t) \in Nat /\ Len(u) \in Nat
      /\ DOMAIN s = 1..Len(s) /\ DOMAIN t = 1..Len(t) /\ DOMAIN u = 1..Len(u)
  BY LenProperties
<1>2. PICK m \in Nat : \E f \in [1..m -> Having(s, b)] :
             Enumerates(f, m, Having(s, b)) /\ Runs(s, b) = [k \in 1..m |-> s[f[k]].runs[b]]
  BY RunsEnumerated
<1>3. PICK f \in [1..m -> Having(s, b)] :
             Enumerates(f, m, Having(s, b)) /\ Runs(s, b) = [k \in 1..m |-> s[f[k]].runs[b]]
  BY <1>2
<1>4. PICK n \in Nat : \E g \in [1..n -> Having(t, b)] :
             Enumerates(g, n, Having(t, b)) /\ Runs(t, b) = [k \in 1..n |-> t[g[k]].runs[b]]
  BY RunsEnumerated
<1>5. PICK g \in [1..n -> Having(t, b)] :
             Enumerates(g, n, Having(t, b)) /\ Runs(t, b) = [k \in 1..n |-> t[g[k]].runs[b]]
  BY <1>4
<1>6. /\ \A k \in 1..m : f[k] \in 1..Len(s) /\ f[k] \in Having(s, b)
      /\ \A k \in 1..n : g[k] \in 1..Len(t) /\ g[k] \in Having(t, b)
  BY HavingType
<1> DEFINE h == [k \in 1..(m + n) |-> IF k =< m THEN f[k] ELSE Len(s) + g[k - m]]
<1>7. \A k \in 1..(m + n) :
        /\ k =< m => h[k] = f[k] /\ k \in 1..m
        /\ ~(k =< m) => h[k] = Len(s) + g[k - m] /\ k - m \in 1..n
  OBVIOUS
<1>8. DOMAIN h = 1..(m + n) /\ h = [k \in 1..(m + n) |-> h[k]]
  OBVIOUS
<1> HIDE DEF h
<1>9. \A i \in 1..Len(u) :
        i \in Having(u, b) <=> IF i =< Len(s) THEN i \in Having(s, b)
                               ELSE i - Len(s) \in Having(t, b)
  BY <1>1 DEF Having
<1>10. Enumerates(h, m + n, Having(u, b))
  <2>1. ASSUME NEW k \in 1..(m + n) PROVE h[k] \in Having(u, b)
    <3>1. CASE k =< m
      <4>1. h[k] \in 1..Len(s) /\ h[k] \in Having(s, b)
        BY <1>6, <1>7, <3>1
      <4>2. h[k] \in 1..Len(u) /\ h[k] =< Len(s)
        BY <1>1, <4>1
      <4> QED
        BY <1>9, <4>1, <4>2
    <3>2. CASE ~(k =< m)
      <4>1. PICK x \in 1..Len(t) : x \in Having(t, b) /\ h[k] = Len(s) + x
        BY <1>6, <1>7, <3>2
      <4>2. h[k] \in 1..Len(u) /\ ~(h[k] =< Len(s)) /\ h[k] - Len(s) = x
        BY <1>1, <4>1
      <4> QED
        BY <1>9, <4>1, <4>2
    <3> QED
      BY <3>1, <3>2
  <2>2. ASSUME NEW x \in Having(u, b) PROVE \E k \in 1..(m + n) : h[k] = x
    <3>1. x \in 1..Len(u)
      BY HavingType
    <3>2. CASE x =< Len(s)
      <4>1. PICK k \in 1..m : f[k] = x
        BY <1>3, <1>9, <3>1, <3>2 DEF Enumerates
      <4>2. k \in 1..(m + n) /\ k =< m
        OBVIOUS
      <4> QED
        BY <1>7, <4>1, <4>2
    <3>3. CASE ~(x =< Len(s))
      <4>1. PICK k \in 1..n : g[k] = x - Len(s)
        BY <1>5, <1>9, <3>1, <3>3 DEF Enumerates
      <4>2. PICK l \in 1..(m + n) : ~(l =< m) /\ l - m = k
        <5>1. m + k \in 1..(m + n) /\ ~(m + k =< m) /\ (m + k) - m = k
          OBVIOUS
        <5> QED
          BY <5>1
      <4>3. h[l] = Len(s) + (x - Len(s))
        BY <1>7, <4>1, <4>2
      <4>4. Len(s) + (x - Len(s)) = x
        BY <1>1, <3>1
      <4> QED
        BY <4>3, <4>4
    <3> QED
      BY <3>2, <3>3
  <2>3. ASSUME NEW i \in 1..(m + n), NEW j \in 1..(m + n), i < j PROVE h[i] < h[j]
    <3>1. CASE j =< m
      <4>1. i \in 1..m /\ j \in 1..m /\ i =< m
        BY <2>3, <3>1
      <4>2. f[i] < f[j]
        BY <1>3, <2>3, <4>1 DEF Enumerates
      <4> QED
        BY <1>7, <3>1, <4>1, <4>2
    <3>2. CASE i =< m /\ ~(j =< m)
      <4>1. f[i] \in 1..Len(s) /\ g[j - m] \in 1..Len(t)
        BY <1>6, <1>7, <3>2
      <4>2. f[i] < Len(s) + g[j - m]
        BY <1>1, <4>1
      <4> QED
        BY <1>7, <3>2, <4>2
    <3>3. CASE ~(i =< m)
      <4>1. i - m \in 1..n /\ j - m \in 1..n /\ i - m < j - m /\ ~(j =< m)
        BY <2>3, <3>3
      <4>2. g[i - m] < g[j - m] /\ g[i - m] \in 1..Len(t) /\ g[j - m] \in 1..Len(t)
        BY <1>5, <1>6, <4>1 DEF Enumerates
      <4>3. Len(s) + g[i - m] < Len(s) + g[j - m]
        BY <1>1, <4>2
      <4> QED
        BY <1>7, <3>3, <4>1, <4>3
    <3> QED
      BY <3>1, <3>2, <3>3
  <2>4. h \in [1..(m + n) -> Having(u, b)]
    BY <1>8, <2>1
  <2> QED
    BY <2>2, <2>3, <2>4 DEF Enumerates
<1>11. /\ Runs(s, b) = [k \in 1..m |-> s[f[k]].runs[b]]
       /\ Runs(t, b) = [k \in 1..n |-> t[g[k]].runs[b]]
       /\ Runs(u, b) = [k \in 1..(m + n) |-> u[h[k]].runs[b]]
  <2>1. m + n \in Nat
    OBVIOUS
  <2>2. Runs(u, b) = [k \in 1..(m + n) |-> u[h[k]].runs[b]]
    BY <1>10, <2>1, RunsOfEnumeration
  <2> QED
    BY <1>3, <1>5, <2>2
<1>12. Len(Runs(s, b)) = m /\ Len(Runs(t, b)) = n /\ Len(Runs(u, b)) = m + n
  BY <1>11
<1>13. ASSUME NEW k \in 1..(m + n)
       PROVE  u[h[k]] = IF k =< m THEN s[f[k]] ELSE t[g[k - m]]
  <2>1. CASE k =< m
    <3>1. h[k] = f[k] /\ f[k] \in 1..Len(s)
      BY <1>6, <1>7, <2>1
    <3>2. f[k] \in 1..Len(u) /\ f[k] =< Len(s)
      BY <1>1, <3>1
    <3> QED
      BY <2>1, <3>1, <3>2
  <2>2. CASE ~(k =< m)
    <3>1. PICK x \in 1..Len(t) : x = g[k - m] /\ h[k] = Len(s) + x
      BY <1>6, <1>7, <2>2
    <3>2. h[k] \in 1..Len(u) /\ ~(h[k] =< Len(s)) /\ h[k] - Len(s) = x
      BY <1>1, <3>1
    <3> QED
      BY <2>2, <3>1, <3>2
  <2> QED
    BY <2>1, <2>2
<1>14. ASSUME NEW k \in 1..(m + n)
       PROVE  Runs(u, b)[k] = IF k =< m THEN Runs(s, b)[k] ELSE Runs(t, b)[k - m]
  BY <1>7, <1>11, <1>13
<1> QED
  BY <1>12, <1>14

\* The runs of two lists of executions, one after the other.
LEMMA RunsOfConcat ==
  ASSUME NEW s \in Seq(Execution), NEW t \in Seq(Execution), NEW b \in Bench
  PROVE  Runs(s \o t, b) = Runs(s, b) \o Runs(t, b)
<1> DEFINE u == s \o t
<1>1. /\ u \in Seq(Execution) /\ Len(u) = Len(s) + Len(t)
      /\ \A i \in 1..Len(u) : u[i] = IF i =< Len(s) THEN s[i] ELSE t[i - Len(s)]
  BY ConcatProperties
<1> HIDE DEF u
<1>2. /\ Runs(s, b) \in Seq(Number) /\ Runs(t, b) \in Seq(Number) /\ Runs(u, b) \in Seq(Number)
  BY <1>1, RunsType
<1>3. /\ Len(Runs(u, b)) = Len(Runs(s, b)) + Len(Runs(t, b))
      /\ \A i \in 1..Len(Runs(u, b)) :
           Runs(u, b)[i] = IF i =< Len(Runs(s, b)) THEN Runs(s, b)[i]
                           ELSE Runs(t, b)[i - Len(Runs(s, b))]
  BY <1>1, RunsOfBoth
<1> DEFINE both == Runs(s, b) \o Runs(t, b)
<1>4. /\ both \in Seq(Number)
      /\ Len(both) = Len(Runs(s, b)) + Len(Runs(t, b))
      /\ \A i \in 1..(Len(Runs(s, b)) + Len(Runs(t, b))) :
           both[i] = IF i =< Len(Runs(s, b)) THEN Runs(s, b)[i]
                     ELSE Runs(t, b)[i - Len(Runs(s, b))]
  BY <1>2, ConcatProperties
<1> HIDE DEF both
<1>5. Runs(u, b) = both
  BY <1>2, <1>3, <1>4, SeqEqual
<1> QED
  BY <1>5 DEF u, both

LEMMA SaveFacts ==
  ASSUME NEW s \in Seq(Execution)
  PROVE  /\ Save(s) \in Document
         /\ \A b \in Bench : Save(s).benchmark_data[b] = Runs(s, b)
         /\ Save(s).harness_data = [i \in 1..Len(s) |-> s[i].meta]
         /\ Len(Save(s).harness_data) = Len(s)
<1>1. DOMAIN s = 1..Len(s) /\ Len(s) \in Nat /\ \A i \in 1..Len(s) : s[i] \in Execution
  BY LenProperties
<1>2. /\ Save(s).benchmark_data = [b \in Bench |-> Runs(s, b)]
      /\ Save(s).harness_data = [i \in 1..Len(s) |-> s[i].meta]
      /\ Save(s) = [benchmark_data |-> Save(s).benchmark_data,
                    harness_data |-> Save(s).harness_data]
  BY <1>1 DEF Save, Runs
<1>3. Save(s).benchmark_data \in [Bench -> Seq(Number)]
  BY <1>2, RunsType
<1>4. Save(s).harness_data \in Seq(Number \cup {Blank}) /\ Len(Save(s).harness_data) = Len(s)
  <2>1. \A i \in 1..Len(s) : s[i].meta \in Number \cup {Blank}
    BY <1>1 DEF Execution
  <2>2. Save(s).harness_data \in [1..Len(s) -> Number \cup {Blank}]
    BY <1>2, <2>1
  <2> QED
    BY <1>1, <1>2, <2>2
<1>5. Save(s) \in Document
  BY <1>2, <1>3, <1>4 DEF Document
<1> QED
  BY <1>2, <1>4, <1>5

-----------------------------------------------------------------------------
(* Loading.                                                                *)

\* One of finitely many benchmarks has the longest list.
LEMMA LongestOfSome ==
  ASSUME NEW len \in [Bench -> Nat]
  PROVE  \A B \in SUBSET Bench : B # {} => \E b \in B : \A c \in B : len[c] =< len[b]
<1> DEFINE C == {B \in SUBSET Bench : B # {} /\ ~\E b \in B : \A c \in B : len[c] =< len[b]}
<1> SUFFICES ASSUME C # {} PROVE FALSE
  OBVIOUS
<1>1. \A B \in SUBSET Bench : IsFiniteSet(B)
  BY ConstantsAssumption, FS_Subset
<1>2. C \subseteq FiniteSubsetsOf(Bench)
  BY <1>1 DEF FiniteSubsetsOf
<1>3. PICK A \in C : \A B \in C : B \subseteq A => B = A
  <2> HIDE DEF C
  <2> QED
    BY <1>2, SmallestSet
<1>4. PICK a \in A : TRUE
  OBVIOUS
<1>5. A \ {a} \notin C
  BY <1>3, <1>4
<1>6. CASE A \ {a} = {}
  <2>1. \A c \in A : len[c] =< len[a]
    BY <1>4, <1>6
  <2> QED
    BY <1>4, <2>1
<1>7. CASE A \ {a} # {}
  <2>1. PICK b \in A \ {a} : \A c \in A \ {a} : len[c] =< len[b]
    BY <1>5, <1>7
  <2>2. CASE len[a] =< len[b]
    <3>1. \A c \in A : len[c] =< len[b]
      BY <2>1, <2>2
    <3> QED
      BY <3>1
  <2>3. CASE ~(len[a] =< len[b])
    <3>1. \A c \in A : len[c] =< len[a]
      BY <2>1, <2>3
    <3> QED
      BY <1>4, <3>1
  <2> QED
    BY <2>2, <2>3
<1> QED
  BY <1>6, <1>7

LEMMA LongestFacts ==
  ASSUME NEW doc \in Document
  PROVE  /\ Longest(doc) \in Nat
         /\ \A b \in Bench : Len(doc.benchmark_data[b]) =< Longest(doc)
         /\ \E b \in Bench : Len(doc.benchmark_data[b]) = Longest(doc)
<1> DEFINE len == [b \in Bench |-> Len(doc.benchmark_data[b])]
<1>1. \A b \in Bench : doc.benchmark_data[b] \in Seq(Number)
  BY DEF Document
<1>2. len \in [Bench -> Nat]
  BY <1>1, LenProperties
<1>3. PICK b \in Bench : \A c \in Bench : len[c] =< len[b]
  <2> HIDE DEF len
  <2>1. \A B \in SUBSET Bench : B # {} => \E b \in B : \A c \in B : len[c] =< len[b]
    BY <1>2, LongestOfSome
  <2>2. Bench \in SUBSET Bench /\ Bench # {}
    BY ConstantsAssumption
  <2> QED
    BY <2>1, <2>2
<1>4. Longest(doc) \in {Len(doc.benchmark_data[c]) : c \in Bench}
      /\ \A c \in Bench : Len(doc.benchmark_data[c]) =< Longest(doc)
  BY <1>3 DEF Longest
<1> QED
  BY <1>2, <1>4

\* Only one number is the longest.
LEMMA LongestIs ==
  ASSUME NEW doc \in Document, NEW n \in Nat,
         \A b \in Bench : Len(doc.benchmark_data[b]) =< n,
         \E b \in Bench : Len(doc.benchmark_data[b]) = n
  PROVE  Longest(doc) = n
<1>1. n =< Longest(doc) /\ Longest(doc) =< n
  BY LongestFacts
<1> QED
  BY <1>1, LongestFacts

LEMMA LoadFacts ==
  ASSUME NEW doc \in Document
  PROVE  /\ Load(doc) \in Seq(Execution)
         /\ Len(Load(doc)) = Longest(doc)
         /\ \A i \in 1..Longest(doc) :
              /\ Load(doc)[i].meta = At(doc.harness_data, i, Blank)
              /\ \A b \in Bench : Load(doc)[i].runs[b] = At(doc.benchmark_data[b], i, NoRun)
         /\ \A b \in Bench : Having(Load(doc), b) = 1..Len(doc.benchmark_data[b])
<1>1. Longest(doc) \in Nat /\ \A b \in Bench : Len(doc.benchmark_data[b]) =< Longest(doc)
  BY LongestFacts
<1>2. /\ doc.harness_data \in Seq(Number \cup {Blank})
      /\ \A b \in Bench : doc.benchmark_data[b] \in Seq(Number)
  BY DEF Document
<1>3. ASSUME NEW i \in 1..Longest(doc) PROVE At(doc.harness_data, i, Blank) \in Number \cup {Blank}
  <2>1. Len(doc.harness_data) \in Nat
    BY <1>2, LenProperties
  <2>2. i =< Len(doc.harness_data) => i \in 1..Len(doc.harness_data)
    BY <1>1, <2>1
  <2> QED
    BY <1>2, <2>2, ElementOfSeq DEF At
<1>4. ASSUME NEW i \in 1..Longest(doc), NEW b \in Bench
      PROVE  /\ At(doc.benchmark_data[b], i, NoRun) \in Number \cup {NoRun}
             /\ At(doc.benchmark_data[b], i, NoRun) # NoRun <=> i =< Len(doc.benchmark_data[b])
  <2>1. doc.benchmark_data[b] \in Seq(Number) /\ Len(doc.benchmark_data[b]) \in Nat
    BY <1>2, LenProperties
  <2>2. CASE i =< Len(doc.benchmark_data[b])
    <3>1. i \in 1..Len(doc.benchmark_data[b])
      BY <1>1, <2>1, <2>2
    <3>2. doc.benchmark_data[b][i] \in Number
      BY <2>1, <3>1, ElementOfSeq
    <3> QED
      BY <2>2, <3>2, Numbers DEF At
  <2>3. CASE ~(i =< Len(doc.benchmark_data[b]))
    BY <2>3 DEF At
  <2> QED
    BY <2>2, <2>3
<1>5. \A i \in 1..Longest(doc) :
        [meta |-> At(doc.harness_data, i, Blank),
         runs |-> [b \in Bench |-> At(doc.benchmark_data[b], i, NoRun)]] \in Execution
  BY <1>3, <1>4 DEF Execution
<1>6. Load(doc) \in [1..Longest(doc) -> Execution] /\ DOMAIN Load(doc) = 1..Longest(doc)
  BY <1>5 DEF Load
<1>7. Load(doc) \in Seq(Execution) /\ Len(Load(doc)) = Longest(doc)
  BY <1>1, <1>6
<1>8. ASSUME NEW i \in 1..Longest(doc)
      PROVE  /\ Load(doc)[i].meta = At(doc.harness_data, i, Blank)
             /\ \A b \in Bench : Load(doc)[i].runs[b] = At(doc.benchmark_data[b], i, NoRun)
  <2>1. /\ Load(doc)[i].meta = At(doc.harness_data, i, Blank)
        /\ Load(doc)[i].runs = [b \in Bench |-> At(doc.benchmark_data[b], i, NoRun)]
    BY DEF Load
  <2> QED
    BY <2>1
<1>9. ASSUME NEW b \in Bench PROVE Having(Load(doc), b) = 1..Len(doc.benchmark_data[b])
  <2>1. ASSUME NEW i \in 1..Longest(doc)
        PROVE  Load(doc)[i].runs[b] # NoRun <=> i =< Len(doc.benchmark_data[b])
    <3>1. Load(doc)[i].runs[b] = At(doc.benchmark_data[b], i, NoRun)
      BY <1>8
    <3> QED
      BY <1>4, <3>1
  <2>2. Len(doc.benchmark_data[b]) \in Nat
    BY <1>2, LenProperties
  <2> QED
    BY <1>1, <1>6, <2>1, <2>2 DEF Having
<1> QED
  BY <1>7, <1>8, <1>9

\* Loading keeps the runs of every benchmark.
LEMMA RunsOfLoad ==
  ASSUME NEW doc \in Document, NEW b \in Bench
  PROVE  Runs(Load(doc), b) = doc.benchmark_data[b]
<1> DEFINE list == doc.benchmark_data[b]
<1>1. list \in Seq(Number) /\ Len(list) \in Nat /\ DOMAIN list = 1..Len(list)
  <2>1. list \in Seq(Number)
    BY DEF Document
  <2> QED
    BY <2>1, LenProperties
<1>2. Runs(Load(doc), b) = [k \in 1..Len(list) |-> Load(doc)[k].runs[b]]
  BY <1>1, LoadFacts, RunsOfFirst
<1>3. ASSUME NEW k \in 1..Len(list) PROVE Load(doc)[k].runs[b] = list[k]
  <2>1. k \in 1..Longest(doc) /\ k =< Len(list)
    BY <1>1, LongestFacts
  <2>2. Load(doc)[k].runs[b] = At(list, k, NoRun)
    BY <2>1, LoadFacts
  <2> QED
    BY <2>1, <2>2 DEF At
<1> QED
  BY <1>1, <1>2, <1>3

LEMMA ExecutionEqual ==
  ASSUME NEW e \in Execution, NEW f \in Execution,
         e.meta = f.meta, \A b \in Bench : e.runs[b] = f.runs[b]
  PROVE  e = f
<1>1. e.runs = f.runs
  BY DEF Execution
<1> QED
  BY <1>1 DEF Execution

\* A list of executions is what is loaded of a document that has its metadata, its
\* runs at their positions, and as many executions.
LEMMA LoadIs ==
  ASSUME NEW s \in Seq(Execution), NEW doc \in Document, Longest(doc) = Len(s),
         \A i \in 1..Len(s) :
           /\ At(doc.harness_data, i, Blank) = s[i].meta
           /\ \A b \in Bench : At(doc.benchmark_data[b], i, NoRun) = s[i].runs[b]
  PROVE  Load(doc) = s
<1>1. Load(doc) \in Seq(Execution) /\ Len(Load(doc)) = Len(s) /\ Len(s) \in Nat
  BY LoadFacts, LenProperties
<1>2. ASSUME NEW i \in 1..Len(s) PROVE Load(doc)[i] = s[i]
  <2>1. s[i] \in Execution /\ Load(doc)[i] \in Execution
    BY <1>1, ElementOfSeq
  <2>2. /\ Load(doc)[i].meta = s[i].meta
        /\ \A b \in Bench : Load(doc)[i].runs[b] = s[i].runs[b]
    BY LoadFacts
  <2> QED
    BY <2>1, <2>2, ExecutionEqual
<1> QED
  BY <1>1, <1>2, SeqEqual

\* What was loaded is the same after it was written and loaded again.
LEMMA LoadIsStable ==
  ASSUME NEW doc \in Document
  PROVE  Load(Save(Load(doc))) = Load(doc)
<1> DEFINE s == Load(doc)
           doc2 == Save(s)
<1>1. s \in Seq(Execution) /\ Len(s) = Longest(doc) /\ Longest(doc) \in Nat
  BY LoadFacts, LongestFacts
<1>2. /\ doc2 \in Document /\ doc2.harness_data = [i \in 1..Len(s) |-> s[i].meta]
      /\ Len(doc2.harness_data) = Len(s)
      /\ \A b \in Bench : doc2.benchmark_data[b] = doc.benchmark_data[b]
  BY <1>1, SaveFacts, RunsOfLoad
<1>3. \A i \in 1..Len(s) :
        \A b \in Bench : s[i].runs[b] = At(doc.benchmark_data[b], i, NoRun)
  BY <1>1, LoadFacts
<1> HIDE DEF s, doc2
<1>4. Longest(doc2) = Len(s)
  <2>1. /\ \A b \in Bench : Len(doc2.benchmark_data[b]) =< Longest(doc)
        /\ \E b \in Bench : Len(doc2.benchmark_data[b]) = Longest(doc)
    BY <1>2, LongestFacts
  <2> QED
    BY <1>1, <1>2, <2>1, LongestIs
<1>5. ASSUME NEW i \in 1..Len(s)
      PROVE  /\ At(doc2.harness_data, i, Blank) = s[i].meta
             /\ \A b \in Bench : At(doc2.benchmark_data[b], i, NoRun) = s[i].runs[b]
  <2>1. At(doc2.harness_data, i, Blank) = s[i].meta
    BY <1>1, <1>2 DEF At
  <2> QED
    BY <1>2, <1>3, <2>1
<1>6. Load(doc2) = s
  BY <1>1, <1>2, <1>4, <1>5, LoadIs
<1> QED
  BY <1>6 DEF s, doc2

-----------------------------------------------------------------------------
(* Documents and databases without gaps.                                   *)

\* Every execution has a run of each benchmark, and is the one of its run.
Whole(s) == \A i \in 1..Len(s), b \in Bench :
              s[i].runs[b] # NoRun /\ s[i].meta \in {Blank, s[i].runs[b]}

\* The lists of runs are equally long, and what there is of metadata belongs to
\* the runs at its position.
Even(doc) == /\ \A b \in Bench, c \in Bench :
                  Len(doc.benchmark_data[b]) = Len(doc.benchmark_data[c])
             /\ \A b \in Bench : \A i \in 1..Len(doc.benchmark_data[b]) :
                  At(doc.harness_data, i, Blank) \in {Blank, doc.benchmark_data[b][i]}

LEMMA SaveWhole ==
  ASSUME NEW s \in Seq(Execution), Whole(s)
  PROVE  Load(Save(s)) = s /\ Even(Save(s)) /\ Attributed(s)
<1> DEFINE doc == Save(s)
<1>1. Len(s) \in Nat /\ DOMAIN s = 1..Len(s) /\ \A i \in 1..Len(s) : s[i] \in Execution
  BY LenProperties
<1>2. \A b \in Bench : Having(s, b) = 1..Len(s)
  BY <1>1 DEF Having, Whole
<1>3. ASSUME NEW b \in Bench
      PROVE  /\ Len(Runs(s, b)) = Len(s)
             /\ \A k \in 1..Len(s) : Runs(s, b)[k] = s[k].runs[b]
  <2>1. Runs(s, b) = [k \in 1..Len(s) |-> s[k].runs[b]]
    BY <1>1, <1>2, RunsOfFirst
  <2> QED
    BY <1>1, <2>1
<1>4. /\ doc \in Document /\ doc.harness_data = [i \in 1..Len(s) |-> s[i].meta]
      /\ Len(doc.harness_data) = Len(s)
      /\ \A b \in Bench : doc.benchmark_data[b] = Runs(s, b)
  BY SaveFacts
<1> HIDE DEF doc
<1>5. \A b \in Bench : Len(doc.benchmark_data[b]) = Len(s)
  BY <1>3, <1>4
<1>6. Longest(doc) = Len(s)
  BY <1>1, <1>4, <1>5, ConstantsAssumption, LongestIs
<1>7. ASSUME NEW i \in 1..Len(s)
      PROVE  /\ At(doc.harness_data, i, Blank) = s[i].meta
             /\ \A b \in Bench : At(doc.benchmark_data[b], i, NoRun) = s[i].runs[b]
  <2>1. i =< Len(s)
    BY <1>1
  <2>2. At(doc.harness_data, i, Blank) = s[i].meta
    BY <1>4, <2>1 DEF At
  <2>3. ASSUME NEW b \in Bench PROVE At(doc.benchmark_data[b], i, NoRun) = s[i].runs[b]
    BY <1>3, <1>4, <2>1 DEF At
  <2> QED
    BY <2>2, <2>3
<1>8. Load(doc) = s
  BY <1>4, <1>6, <1>7, LoadIs
<1>9. Even(doc)
  <2>1. \A b \in Bench : \A i \in 1..Len(s) :
          At(doc.harness_data, i, Blank) \in {Blank, doc.benchmark_data[b][i]}
    BY <1>3, <1>4, <1>7 DEF Whole
  <2> QED
    BY <1>5, <2>1 DEF Even
<1>10. Attributed(s)
  BY <1>1 DEF Whole, Attributed
<1> QED
  BY <1>8, <1>9, <1>10 DEF doc

LEMMA LoadWhole ==
  ASSUME NEW doc \in Document, Even(doc)
  PROVE  Whole(Load(doc))
<1> SUFFICES ASSUME NEW i \in 1..Len(Load(doc)), NEW b \in Bench
             PROVE  /\ Load(doc)[i].runs[b] # NoRun
                    /\ Load(doc)[i].meta \in {Blank, Load(doc)[i].runs[b]}
  BY DEF Whole
<1>1. Len(Load(doc)) = Len(doc.benchmark_data[b])
  BY LoadFacts, LongestFacts DEF Even
<1>2. i \in Having(Load(doc), b) /\ i \in 1..Longest(doc)
  BY <1>1, LoadFacts
<1>3. /\ Load(doc)[i].runs[b] = At(doc.benchmark_data[b], i, NoRun)
      /\ Load(doc)[i].meta = At(doc.harness_data, i, Blank)
  BY <1>2, LoadFacts
<1>4. At(doc.benchmark_data[b], i, NoRun) = doc.benchmark_data[b][i]
  <2>1. Len(doc.benchmark_data[b]) \in Nat
    BY <1>1, LoadFacts, LongestFacts
  <2> QED
    BY <1>1, <2>1 DEF At
<1>5. At(doc.harness_data, i, Blank) \in {Blank, doc.benchmark_data[b][i]}
  BY <1>1 DEF Even
<1> QED
  BY <1>2, <1>3, <1>4, <1>5 DEF Having

LEMMA WholeConcat ==
  ASSUME NEW s \in Seq(Execution), NEW t \in Seq(Execution), Whole(s), Whole(t)
  PROVE  Whole(s \o t)
<1> DEFINE u == s \o t
<1>1. /\ Len(s) \in Nat /\ Len(t) \in Nat
      /\ Len(u) = Len(s) + Len(t)
      /\ \A i \in 1..Len(u) : u[i] = IF i =< Len(s) THEN s[i] ELSE t[i - Len(s)]
  BY LenProperties, ConcatProperties
<1> HIDE DEF u
<1>2. ASSUME NEW i \in 1..Len(u), NEW b \in Bench
      PROVE  u[i].runs[b] # NoRun /\ u[i].meta \in {Blank, u[i].runs[b]}
  <2>1. CASE i =< Len(s)
    <3>1. i \in 1..Len(s) /\ u[i] = s[i]
      BY <1>1, <2>1
    <3> QED
      BY <3>1 DEF Whole
  <2>2. CASE ~(i =< Len(s))
    <3>1. i - Len(s) \in 1..Len(t) /\ u[i] = t[i - Len(s)]
      BY <1>1, <2>2
    <3> QED
      BY <3>1 DEF Whole
  <2> QED
    BY <2>1, <2>2
<1> QED
  BY <1>2 DEF u, Whole

-----------------------------------------------------------------------------
(* The inductive invariant, in parts.                                      *)

\* A program that does not run has nothing; OUTFILE is empty until it is stored, and
\* is not the BENCHFILE of a bench.py that runs.
PlaceInv == /\ target = {} => db = <<>>
            /\ mpc = "idle" => infiles = <<>> /\ loaded = 0 /\ outfile = {} /\ mdb = <<>>
            /\ \A h \in outfile : file[h] = Empty /\ h \notin target

\* The database of bench.py goes on where its BENCHFILE ends.
GrowInv == \A f \in target : Documents(f) =>
             \A b \in Bench : IsPrefix(file[f].benchmark_data[b], Runs(db, b))

\* As long as every execution measured every benchmark, all databases and documents,
\* those that merge_results has opened included, are without gaps.
WholeInv == ~gaps => /\ Whole(db) /\ Whole(mdb)
                     /\ \A f \in File : Documents(f) => Even(file[f])
                     /\ \A k \in 1..Len(infiles) : infiles[k] # Empty => Even(infiles[k])

\* The database of merge_results has the runs of the INFILEs it has loaded.
MergeInv == /\ \A k \in 1..loaded : infiles[k] # Empty
            /\ \A b \in Bench :
                 Runs(mdb, b) = FlattenSeq([k \in 1..loaded |-> infiles[k].benchmark_data[b]])

StoreInv == TypeOK /\ PlaceInv /\ GrowInv /\ WholeInv /\ MergeInv

-----------------------------------------------------------------------------
(* Types.                                                                  *)

LEMMA EmptyDatabase ==
  /\ <<>> \in Seq(Execution) /\ Whole(<<>>)
  /\ \A b \in Bench : Runs(<<>>, b) = <<>>
<1>1. <<>> \in Seq(Execution) /\ Len(<<>>) = 0
  BY EmptySeq
<1>2. Whole(<<>>)
  BY <1>1 DEF Whole
<1>3. ASSUME NEW b \in Bench PROVE Runs(<<>>, b) = <<>>
  <2>1. Having(<<>>, b) = 1..0
    BY <1>1 DEF Having
  <2>2. Cardinality(Having(<<>>, b)) = 0
    BY <2>1, FS_EmptySet
  <2> QED
    BY <2>2 DEF Runs
<1> QED
  BY <1>1, <1>2, <1>3

\* The execution that Execute adds.
NewExecution(n, B) == [meta |-> n, runs |-> [b \in Bench |-> IF b \in B THEN n ELSE NoRun]]

LEMMA ExecuteFacts ==
  ASSUME TypeOK, Execute
  PROVE  \E B \in SUBSET Bench :
           /\ executed' \in Number /\ NewExecution(executed', B) \in Execution
           /\ db' = Append(db, NewExecution(executed', B))
           /\ gaps' = (gaps \/ B # Bench)
<1>1. executed' \in Number
  BY Numbers DEF TypeOK, Execute, Number
<1>2. PICK B \in SUBSET Bench :
        /\ gaps' = (gaps \/ B # Bench)
        /\ db' = Append(db, NewExecution(executed', B))
  BY DEF Execute, NewExecution
<1>3. NewExecution(executed', B) \in Execution
  BY <1>1 DEF NewExecution, Execution
<1> QED
  BY <1>1, <1>2, <1>3

\* What merge_results opens.
LEMMA OpenFacts ==
  ASSUME TypeOK, Open
  PROVE  /\ infiles' \in Seq(Document \cup {Empty})
         /\ \A k \in 1..Len(infiles') :
              infiles'[k] # Empty => \E f \in File : Documents(f) /\ infiles'[k] = file[f]
         /\ \E h \in File : /\ file[h] = Absent /\ h \notin target
                            /\ file' = [file EXCEPT ![h] = Empty] /\ outfile' = {h}
<1>1. PICK n \in 1..MaxInfiles, h \in File :
        /\ file[h] = Absent /\ h \notin target
        /\ \E names \in [1..n -> {f \in File : file[f] # Absent}] :
             infiles' = [k \in 1..n |-> file[names[k]]]
        /\ file' = [file EXCEPT ![h] = Empty]
        /\ outfile' = {h}
  BY DEF Open
<1>2. PICK names \in [1..n -> {f \in File : file[f] # Absent}] :
        infiles' = [k \in 1..n |-> file[names[k]]]
  BY <1>1
<1>3. \A k \in 1..n : names[k] \in File /\ file[names[k]] # Absent
  OBVIOUS
<1>4. infiles' \in [1..n -> Document \cup {Empty}]
  BY <1>2, <1>3 DEF TypeOK
<1>5. n \in Nat
  BY Numbers
<1>6. infiles' \in Seq(Document \cup {Empty}) /\ Len(infiles') = n
  BY <1>2, <1>4, <1>5
<1>7. \A k \in 1..n :
        infiles'[k] # Empty => \E f \in File : Documents(f) /\ infiles'[k] = file[f]
  BY <1>2, <1>3 DEF Documents
<1> QED
  BY <1>1, <1>6, <1>7

\* The next INFILE is a document.
LEMMA NextFileFacts ==
  ASSUME TypeOK, Loading, NextFile # Empty
  PROVE  /\ loaded + 1 \in 1..Len(infiles) /\ NextFile \in Document
         /\ Load(NextFile) \in Seq(Execution) /\ mdb \o Load(NextFile) \in Seq(Execution)
<1>1. Len(infiles) \in Nat /\ loaded + 1 \in 1..Len(infiles)
  BY LenProperties DEF TypeOK, Loading
<1>2. NextFile \in Document
  BY <1>1, ElementOfSeq DEF TypeOK, NextFile
<1>3. Load(NextFile) \in Seq(Execution)
  BY <1>2, LoadFacts
<1>4. mdb \o Load(NextFile) \in Seq(Execution)
  BY <1>3, ConcatProperties DEF TypeOK
<1> QED
  BY <1>1, <1>2, <1>3, <1>4

LEMMA OldDocumentFacts ==
  ASSUME NEW B \in SUBSET Bench
  PROVE  OldDocument(B) \in Document /\ (B = Bench => Even(OldDocument(B)))
<1> DEFINE doc == OldDocument(B)
<1>1. /\ <<1>> \in Seq(Number) /\ <<>> \in Seq(Number) /\ <<>> \in Seq(Number \cup {Blank})
      /\ Len(<<1>>) = 1
  BY Numbers DEF Number
<1>2. doc.benchmark_data \in [Bench -> Seq(Number)]
  BY <1>1 DEF OldDocument
<1>3. doc \in Document
  BY <1>1, <1>2 DEF OldDocument, Document
<1>4. ASSUME B = Bench PROVE Even(doc)
  <2>1. \A b \in Bench : doc.benchmark_data[b] = <<1>> /\ Len(doc.benchmark_data[b]) = 1
    BY <1>1, <1>4 DEF OldDocument
  <2>2. \A i \in 1..1 : At(doc.harness_data, i, Blank) = Blank
    BY DEF OldDocument, At
  <2> QED
    BY <2>1, <2>2 DEF Even
<1> QED
  BY <1>3, <1>4

LEMMA InitTypes == Init => TypeOK
<1> SUFFICES ASSUME Init PROVE TypeOK
  OBVIOUS
<1>1. file \in [File -> Document \cup {Absent, Empty}] /\ executed \in 0..MaxExecutions /\ gaps \in BOOLEAN
  <2>1. CASE file = [f \in File |-> Absent] /\ executed = 0 /\ gaps = FALSE
    <3>1. file \in [File -> Document \cup {Absent, Empty}]
      BY <2>1
    <3>2. executed \in 0..MaxExecutions
      BY <2>1, Numbers
    <3>3. gaps \in BOOLEAN
      BY <2>1
    <3> QED
      BY <3>1, <3>2, <3>3
  <2>2. ASSUME NEW f \in File, NEW B \in SUBSET Bench,
               file = [g \in File |-> IF g = f THEN OldDocument(B) ELSE Absent],
               executed = 1, gaps = (B # Bench)
        PROVE  file \in [File -> Document \cup {Absent, Empty}] /\ executed \in 0..MaxExecutions /\ gaps \in BOOLEAN
    <3>1. OldDocument(B) \in Document
      BY OldDocumentFacts
    <3>2. file \in [File -> Document \cup {Absent, Empty}]
      BY <2>2, <3>1
    <3> QED
      BY <2>2, <3>2, Numbers
  <2> QED
    BY <2>1, <2>2 DEF Init
<1>2. Cardinality({}) = 0 /\ target = {} /\ outfile = {}
  BY FS_EmptySet DEF Init
<1>3. infiles \in Seq(Document \cup {Empty}) /\ Len(infiles) = 0 /\ loaded = 0
  BY DEF Init
<1>4. db \in Seq(Execution) /\ mdb \in Seq(Execution)
  BY DEF Init
<1> QED
  BY <1>1, <1>2, <1>3, <1>4 DEF TypeOK, Init

LEMMA EndedTypes ==
  ASSUME Ended
  PROVE  /\ mpc' \in {"idle", "loading"} /\ infiles' \in Seq(Document \cup {Empty})
         /\ loaded' \in 0..Len(infiles') /\ outfile' \in SUBSET File
         /\ Cardinality(outfile') =< 1 /\ mdb' \in Seq(Execution)
<1>1. Cardinality({}) = 0
  BY FS_EmptySet
<1>2. infiles' = <<>> /\ Len(infiles') = 0
  BY DEF Ended
<1> QED
  BY <1>1, <1>2 DEF Ended

LEMMA NextTypes ==
  ASSUME TypeOK, PlaceInv, [Next]_vars
  PROVE  TypeOK'
<1> USE DEF past, bencher, merger
<1>1. ASSUME NEW f \in File, Start(f) PROVE TypeOK'
  <2>1. Cardinality({f}) = 1
    BY FS_Singleton
  <2>2. Documents(f) => file[f] \in Document
    BY DEF TypeOK, Documents
  <2>3. db' \in Seq(Execution)
    BY <1>1, <2>2, LoadFacts, EmptyDatabase DEF Start
  <2> QED
    BY <1>1, <2>1, <2>3 DEF Start, TypeOK
<1>2. CASE Execute
  <2>1. PICK B \in SUBSET Bench :
          /\ executed' \in Number /\ NewExecution(executed', B) \in Execution
          /\ db' = Append(db, NewExecution(executed', B))
          /\ gaps' = (gaps \/ B # Bench)
    BY <1>2, ExecuteFacts
  <2>2. db' \in Seq(Execution)
    BY <2>1, AppendProperties DEF TypeOK
  <2>3. executed' \in 0..MaxExecutions
    BY <2>1, Numbers DEF Number
  <2> QED
    BY <1>2, <2>1, <2>2, <2>3 DEF Execute, TypeOK
<1>3. CASE Write
  <2>1. Save(db) \in Document
    BY SaveFacts DEF TypeOK
  <2> QED
    BY <1>3, <2>1 DEF Write, TypeOK
<1>4. CASE Exit
  <2>1. Cardinality({}) = 0
    BY FS_EmptySet
  <2> QED
    BY <1>4, <2>1, EmptyDatabase DEF Exit, TypeOK
<1>5. CASE Open
  <2>1. PICK h \in File : file' = [file EXCEPT ![h] = Empty] /\ outfile' = {h}
    BY <1>5, OpenFacts
  <2>2. Cardinality({h}) = 1
    BY FS_Singleton
  <2>3. infiles' \in Seq(Document \cup {Empty})
    BY <1>5, OpenFacts
  <2>4. loaded' \in 0..Len(infiles')
    <3>1. Len(infiles') \in Nat
      BY <2>3, LenProperties
    <3>2. loaded' = 0
      BY <1>5 DEF Open, PlaceInv
    <3> QED
      BY <3>1, <3>2
  <2>5. file' \in [File -> Document \cup {Absent, Empty}]
    BY <2>1 DEF TypeOK
  <2>6. /\ executed' = executed /\ gaps' = gaps /\ target' = target /\ db' = db
        /\ mpc' = "loading" /\ mdb' = mdb
    BY <1>5 DEF Open
  <2> QED
    BY <2>1, <2>2, <2>3, <2>4, <2>5, <2>6 DEF TypeOK
<1>6. CASE LoadNext
  <2>1. loaded + 1 \in 1..Len(infiles) /\ mdb' \in Seq(Execution)
    BY <1>6, NextFileFacts DEF LoadNext
  <2> QED
    BY <1>6, <2>1 DEF LoadNext, TypeOK
<1>7. CASE CannotLoad \/ KillMerge
  BY <1>7, EndedTypes DEF CannotLoad, KillMerge, TypeOK
<1>8. CASE Store
  <2>1. Save(mdb) \in Document
    BY SaveFacts DEF TypeOK
  <2>2. file' \in [File -> Document \cup {Absent, Empty}]
    BY <1>8, <2>1 DEF Store, TypeOK
  <2> QED
    BY <1>8, <2>2, EndedTypes DEF Store, TypeOK
<1>9. CASE UNCHANGED vars
  BY <1>9 DEF vars, TypeOK
<1> QED
  BY <1>1, <1>2, <1>3, <1>4, <1>5, <1>6, <1>7, <1>8, <1>9 DEF Next

-----------------------------------------------------------------------------
(* What each step keeps.                                                   *)

LEMMA PrefixFacts ==
  ASSUME NEW s \in Seq(Number), NEW t \in Seq(Number), NEW u \in Seq(Number)
  PROVE  IsPrefix(s, s) /\ (IsPrefix(s, t) => IsPrefix(s, t \o u))
<1>1. Len(s) \in Nat /\ Len(t) \in Nat /\ Len(u) \in Nat
  BY LenProperties
<1>2. IsPrefix(s, s)
  BY <1>1 DEF IsPrefix
<1>3. ASSUME IsPrefix(s, t) PROVE IsPrefix(s, t \o u)
  <2>1. /\ t \o u \in Seq(Number) /\ Len(t \o u) = Len(t) + Len(u)
        /\ Len(s) =< Len(t) /\ SubSeq(s, 1, Len(s)) = SubSeq(t, 1, Len(s))
    BY <1>3, ConcatProperties DEF IsPrefix
  <2>2. Len(s) =< Len(t \o u)
    BY <1>1, <2>1
  <2>3. SubSeq(t \o u, 1, Len(s)) = SubSeq(t, 1, Len(s))
    <3>1. CASE Len(s) = 0
      <4>1. 1 \in Int /\ 0 \in Int /\ 0 < 1
        OBVIOUS
      <4>2. SubSeq(t \o u, 1, 0) = <<>>
        BY <4>1, SubSeqEmpty
      <4>3. SubSeq(t, 1, 0) = <<>>
        BY <4>1, SubSeqEmpty
      <4> QED
        BY <3>1, <4>2, <4>3
    <3>2. CASE Len(s) # 0
      <4>1. 1 \in 1..Len(t) /\ Len(s) \in 1..Len(t)
        BY <1>1, <2>1, <3>2
      <4> QED
        BY <4>1, SubSeqOfConcat1
    <3> QED
      BY <3>1, <3>2
  <2> QED
    BY <2>1, <2>2, <2>3 DEF IsPrefix
<1> QED
  BY <1>2, <1>3

LEMMA AppendFacts ==
  ASSUME NEW s \in Seq(Execution), NEW e \in Execution
  PROVE  /\ \A b \in Bench : Runs(Append(s, e), b) = Runs(s, b) \o Runs(<<e>>, b)
         /\ <<e>> \in Seq(Execution)
         /\ Append(s, e) = s \o <<e>>
<1>1. <<e>> \in Seq(Execution)
  OBVIOUS
<1>2. Append(s, e) = s \o <<e>>
  BY AppendIsConcat
<1>3. \A b \in Bench : Runs(s \o <<e>>, b) = Runs(s, b) \o Runs(<<e>>, b)
  BY <1>1, RunsOfConcat
<1> QED
  BY <1>1, <1>2, <1>3

LEMMA NextPlaceInv ==
  ASSUME TypeOK, PlaceInv, [Next]_vars
  PROVE  PlaceInv'
<1> USE DEF PlaceInv, past, bencher, merger
<1>1. ASSUME NEW f \in File, Start(f) PROVE PlaceInv'
  BY <1>1 DEF Start
<1>2. CASE Execute
  BY <1>2 DEF Execute
<1>3. CASE Write
  <2>1. \A h \in outfile : file'[h] = file[h]
    BY <1>3 DEF Write, TypeOK
  <2> QED
    BY <1>3, <2>1 DEF Write
<1>4. CASE Exit
  BY <1>4 DEF Exit
<1>5. CASE Open
  <2>1. PICK h \in File : h \notin target /\ file' = [file EXCEPT ![h] = Empty] /\ outfile' = {h}
    BY <1>5, OpenFacts
  <2>2. file'[h] = Empty
    BY <2>1 DEF TypeOK
  <2> QED
    BY <1>5, <2>1, <2>2 DEF Open
<1>6. CASE LoadNext
  BY <1>6 DEF LoadNext, Loading
<1>7. CASE CannotLoad \/ KillMerge \/ Store
  BY <1>7 DEF CannotLoad, KillMerge, Store, Ended
<1>8. CASE UNCHANGED vars
  BY <1>8 DEF vars
<1> QED
  BY <1>1, <1>2, <1>3, <1>4, <1>5, <1>6, <1>7, <1>8 DEF Next

LEMMA NextGrowInv ==
  ASSUME TypeOK, PlaceInv, GrowInv, [Next]_vars
  PROVE  GrowInv'
<1> SUFFICES ASSUME NEW f \in target', Documents(f)', NEW b \in Bench
             PROVE  IsPrefix(file'[f].benchmark_data[b], Runs(db', b))
  BY DEF GrowInv
<1> USE DEF past, bencher, merger
<1>1. target \in SUBSET File /\ db \in Seq(Execution)
  BY DEF TypeOK
<1>2. ASSUME NEW g \in File, Start(g)
      PROVE  IsPrefix(file'[f].benchmark_data[b], Runs(db', b))
  <2>1. f = g /\ file' = file
    BY <1>2 DEF Start
  <2>2. Documents(g) /\ file[g] \in Document
    BY <2>1 DEF Documents, TypeOK
  <2>3. Runs(db', b) = file[g].benchmark_data[b] /\ file[g].benchmark_data[b] \in Seq(Number)
    BY <1>2, <2>2, RunsOfLoad DEF Start, Document
  <2> QED
    BY <2>1, <2>3, PrefixFacts
<1>3. CASE Execute
  <2>1. PICK e \in Execution : db' = Append(db, e)
    BY <1>3, ExecuteFacts
  <2>2. file' = file /\ target' = target
    BY <1>3 DEF Execute
  <2>3. f \in target /\ Documents(f) /\ file[f] \in Document
    BY <1>1, <2>2 DEF Documents, TypeOK
  <2>4. IsPrefix(file[f].benchmark_data[b], Runs(db, b))
    BY <2>3 DEF GrowInv
  <2>5. Runs(db', b) = Runs(db, b) \o Runs(<<e>>, b) /\ <<e>> \in Seq(Execution)
    BY <1>1, <2>1, AppendFacts
  <2>6. Runs(db, b) \in Seq(Number) /\ Runs(<<e>>, b) \in Seq(Number)
    BY <1>1, <2>5, RunsType
  <2>7. file[f].benchmark_data[b] \in Seq(Number)
    BY <2>3 DEF Document
  <2> QED
    BY <2>2, <2>4, <2>5, <2>6, <2>7, PrefixFacts
<1>4. CASE Write
  <2>1. f \in target /\ f \in File /\ db' = db /\ file'[f] = Save(db)
    BY <1>1, <1>4 DEF Write, TypeOK
  <2>2. file'[f].benchmark_data[b] = Runs(db, b)
    BY <1>1, <2>1, SaveFacts
  <2> QED
    BY <1>1, <2>1, <2>2, RunsType, PrefixFacts
<1>5. CASE Exit
  BY <1>5 DEF Exit
<1>6. CASE Open \/ LoadNext \/ CannotLoad \/ KillMerge \/ Store \/ UNCHANGED vars
  <2>1. target' = target /\ db' = db
    BY <1>6 DEF Open, LoadNext, CannotLoad, KillMerge, Store, vars
  <2>2. file'[f] = file[f]
    <3>1. CASE Open
      <4>1. PICK h \in File : h \notin target /\ file' = [file EXCEPT ![h] = Empty]
        BY <3>1, OpenFacts
      <4> QED
        BY <1>1, <2>1, <4>1 DEF TypeOK
    <3>2. CASE Store
      <4>1. f \in File /\ f \notin outfile
        BY <1>1, <2>1 DEF PlaceInv
      <4> QED
        BY <3>2, <4>1 DEF Store
    <3>3. CASE LoadNext \/ CannotLoad \/ KillMerge \/ UNCHANGED vars
      BY <3>3 DEF LoadNext, CannotLoad, KillMerge, vars
    <3> QED
      BY <1>6, <3>1, <3>2, <3>3
  <2>3. f \in target /\ Documents(f)
    BY <2>1, <2>2 DEF Documents
  <2> QED
    BY <2>1, <2>2, <2>3 DEF GrowInv
<1> QED
  BY <1>2, <1>3, <1>4, <1>5, <1>6 DEF Next

\* A step after which there are no gaps was taken when there were none.
LEMMA NextWholeInv ==
  ASSUME TypeOK, PlaceInv, WholeInv, [Next]_vars
  PROVE  WholeInv'
<1> SUFFICES ASSUME ~gaps'
             PROVE  /\ Whole(db)' /\ Whole(mdb)'
                    /\ \A f \in File : Documents(f)' => Even(file'[f])
                    /\ \A k \in 1..Len(infiles') : infiles'[k] # Empty => Even(infiles'[k])
  BY DEF WholeInv
<1> USE DEF past, bencher, merger
<1>1. ~gaps
  BY DEF Next, Start, Execute, Write, Exit, Open, LoadNext, CannotLoad, KillMerge, Store, vars
<1>2. /\ Whole(db) /\ Whole(mdb)
      /\ \A f \in File : Documents(f) => Even(file[f])
      /\ \A k \in 1..Len(infiles) : infiles[k] # Empty => Even(infiles[k])
  BY <1>1 DEF WholeInv
<1>3. Whole(<<>>) /\ Len(<<>>) = 0
  BY EmptyDatabase
<1>4. Whole(db)'
  <2>1. ASSUME NEW f \in File, Start(f) PROVE Whole(db')
    <3>1. CASE Documents(f)
      <4>1. file[f] \in Document /\ Even(file[f]) /\ db' = Load(file[f])
        BY <1>2, <2>1, <3>1 DEF Start, Documents, TypeOK
      <4> QED
        BY <4>1, LoadWhole
    <3>2. CASE ~Documents(f)
      BY <1>3, <2>1, <3>2 DEF Start
    <3> QED
      BY <3>1, <3>2
  <2>2. CASE Execute
    <3>1. PICK B \in SUBSET Bench :
            /\ executed' \in Number /\ NewExecution(executed', B) \in Execution
            /\ db' = Append(db, NewExecution(executed', B))
            /\ gaps' = (gaps \/ B # Bench)
      BY <2>2, ExecuteFacts
    <3> DEFINE e == NewExecution(executed', B)
    <3>2. B = Bench
      BY <3>1
    <3>3. \A b \in Bench : e.runs[b] # NoRun /\ e.meta \in {Blank, e.runs[b]}
      BY <3>1, <3>2, Numbers DEF NewExecution
    <3> HIDE DEF e
    <3>4. <<e>> \in Seq(Execution) /\ db' = db \o <<e>>
      BY <3>1, AppendFacts DEF TypeOK, e
    <3>5. Whole(<<e>>)
      BY <3>3 DEF Whole
    <3> QED
      BY <1>2, <3>4, <3>5, WholeConcat DEF TypeOK
  <2>3. CASE Exit
    BY <1>3, <2>3 DEF Exit
  <2>4. CASE db' = db
    BY <1>2, <2>4
  <2> QED
    BY <2>1, <2>2, <2>3, <2>4
       DEF Next, Write, Open, LoadNext, CannotLoad, KillMerge, Store, vars
<1>5. Whole(mdb)'
  <2>1. CASE LoadNext
    <3>1. /\ NextFile \in Document /\ NextFile # Empty /\ mdb' = mdb \o Load(NextFile)
          /\ loaded + 1 \in 1..Len(infiles) /\ Load(NextFile) \in Seq(Execution)
      BY <2>1, NextFileFacts DEF LoadNext
    <3>2. Even(NextFile)
      BY <1>2, <3>1 DEF NextFile
    <3>3. Whole(Load(NextFile))
      BY <3>1, <3>2, LoadWhole
    <3> QED
      BY <1>2, <3>1, <3>3, WholeConcat DEF TypeOK
  <2>2. CASE mdb' = <<>> \/ mdb' = mdb
    BY <1>2, <1>3, <2>2
  <2> QED
    BY <2>1, <2>2
       DEF Next, Start, Execute, Write, Exit, Open, CannotLoad, KillMerge, Store, Ended, vars
<1>6. ASSUME NEW f \in File, Documents(f)' PROVE Even(file'[f])
  <2>1. CASE Write
    <3>1. file'[f] = Save(db) \/ file'[f] = file[f]
      BY <2>1 DEF Write
    <3>2. Even(Save(db))
      BY <1>2, SaveWhole DEF TypeOK
    <3> QED
      BY <1>2, <1>6, <3>1, <3>2 DEF Documents
  <2>2. CASE Store
    <3>1. file'[f] = Save(mdb) \/ file'[f] = file[f]
      BY <2>2 DEF Store
    <3>2. Even(Save(mdb))
      BY <1>2, SaveWhole DEF TypeOK
    <3> QED
      BY <1>2, <1>6, <3>1, <3>2 DEF Documents
  <2>3. CASE Open
    <3>1. PICK h \in File : file' = [file EXCEPT ![h] = Empty]
      BY <2>3, OpenFacts
    <3>2. file'[f] = file[f]
      BY <1>6, <3>1 DEF TypeOK, Documents
    <3> QED
      BY <1>2, <1>6, <3>2 DEF Documents
  <2>4. CASE file' = file
    BY <1>2, <1>6, <2>4 DEF Documents
  <2> QED
    BY <2>1, <2>2, <2>3, <2>4
       DEF Next, Start, Execute, Exit, LoadNext, CannotLoad, KillMerge, Ended, vars
<1>7. ASSUME NEW k \in 1..Len(infiles'), infiles'[k] # Empty PROVE Even(infiles'[k])
  <2>1. CASE Open
    <3>1. PICK f \in File : Documents(f) /\ infiles'[k] = file[f]
      BY <1>7, <2>1, OpenFacts
    <3> QED
      BY <1>2, <3>1
  <2>2. CASE infiles' = <<>>
    BY <1>3, <1>7, <2>2
  <2>3. CASE infiles' = infiles
    BY <1>2, <1>7, <2>3
  <2> QED
    BY <2>1, <2>2, <2>3
       DEF Next, Start, Execute, Write, Exit, LoadNext, CannotLoad, KillMerge, Store, Ended, vars
<1> QED
  BY <1>4, <1>5, <1>6, <1>7

-----------------------------------------------------------------------------
(* Merging.                                                                *)

\* h[i] is the first i of the lists, one after the other.
Accumulates(h, n, lists) ==
  h = [i \in 1..n |-> IF i = 1 THEN lists[i] ELSE h[i - 1] \o lists[i]]

LEMMA AccumulationExists ==
  ASSUME NEW S, NEW n \in Nat \ {0}, NEW lists \in [1..n -> Seq(S)]
  PROVE  \E h \in [1..n -> Seq(S)] : Accumulates(h, n, lists)
<1> DEFINE Q(m) == m \in 1..n => \E h \in [1..m -> Seq(S)] : Accumulates(h, m, lists)
           P == {m \in Nat : Q(m)}
<1>1. Q(0)
  OBVIOUS
<1>2. ASSUME NEW m \in Nat, Q(m) PROVE Q(m + 1)
  <2> SUFFICES ASSUME m + 1 \in 1..n
               PROVE  \E h \in [1..(m + 1) -> Seq(S)] : Accumulates(h, m + 1, lists)
    OBVIOUS
  <2>1. CASE m = 0
    <3> DEFINE h == [i \in 1..1 |-> lists[1]]
    <3>1. h \in [1..1 -> Seq(S)] /\ Accumulates(h, 1, lists)
      BY DEF Accumulates
    <3> HIDE DEF h
    <3> QED
      BY <2>1, <3>1
  <2>2. CASE m # 0
    <3>1. m \in 1..n
      BY <2>2
    <3>2. PICK g \in [1..m -> Seq(S)] : Accumulates(g, m, lists)
      BY <1>2, <3>1
    <3> DEFINE h == [i \in 1..(m + 1) |-> IF i = m + 1 THEN g[m] \o lists[m + 1] ELSE g[i]]
    <3>3. g[m] \o lists[m + 1] \in Seq(S)
      <4>1. g[m] \in Seq(S) /\ lists[m + 1] \in Seq(S)
        BY <2>2
      <4> QED
        BY <4>1, ConcatProperties
    <3>4. h \in [1..(m + 1) -> Seq(S)]
      BY <3>3
    <3>5. ASSUME NEW i \in 1..(m + 1)
          PROVE  h[i] = IF i = 1 THEN lists[i] ELSE h[i - 1] \o lists[i]
      <4>1. CASE i = m + 1
        <5>1. i # 1 /\ i - 1 = m /\ m \in 1..(m + 1) /\ m # m + 1
          BY <2>2, <4>1
        <5>2. h[i] = g[m] \o lists[i] /\ h[m] = g[m]
          BY <4>1, <5>1
        <5> HIDE DEF h
        <5> QED
          BY <5>1, <5>2
      <4>2. CASE i # m + 1
        <5>1. i \in 1..m /\ (i # 1 => i - 1 \in 1..m /\ i - 1 # m + 1)
          BY <4>2
        <5>2. g[i] = IF i = 1 THEN lists[i] ELSE g[i - 1] \o lists[i]
          BY <3>2, <5>1 DEF Accumulates
        <5>3. h[i] = g[i] /\ (i # 1 => h[i - 1] = g[i - 1])
          BY <4>2, <5>1
        <5> HIDE DEF h
        <5> QED
          BY <5>2, <5>3
      <4> QED
        BY <4>1, <4>2
    <3> HIDE DEF h
    <3>6. Accumulates(h, m + 1, lists)
      BY <3>4, <3>5 DEF Accumulates
    <3> QED
      BY <3>4, <3>6
  <2> QED
    BY <2>1, <2>2
<1>3. Nat \subseteq P
  <2> HIDE DEF Q
  <2>1. 0 \in P /\ \A m \in Nat : m \in P => m + 1 \in P
    BY <1>1, <1>2
  <2> HIDE DEF P
  <2> QED
    BY <2>1, Induction
<1> QED
  BY <1>3

LEMMA FlattenIs ==
  ASSUME NEW S, NEW n \in Nat \ {0}, NEW lists \in [1..n -> Seq(S)],
         NEW h, Accumulates(h, n, lists)
  PROVE  FlattenSeq(lists) = h[n]
<1>1. Len(lists) = n
  OBVIOUS
<1>2. PICK g : Accumulates(g, n, lists) /\ FlattenSeq(lists) = g[n]
  BY <1>1 DEF FlattenSeq, Accumulates
<1> DEFINE P == {k \in Nat : k \in 1..n => g[k] = h[k]}
<1>3. 0 \in P
  OBVIOUS
<1>4. ASSUME NEW k \in Nat, k \in P PROVE k + 1 \in P
  <2> SUFFICES ASSUME k + 1 \in 1..n PROVE g[k + 1] = h[k + 1]
    OBVIOUS
  <2>1. CASE k = 0
    BY <1>2, <2>1 DEF Accumulates
  <2>2. CASE k # 0
    <3>1. k \in 1..n /\ k + 1 # 1 /\ (k + 1) - 1 = k
      BY <2>2
    <3>2. g[k] = h[k]
      BY <1>4, <3>1
    <3>3. g[k + 1] = g[k] \o lists[k + 1] /\ h[k + 1] = h[k] \o lists[k + 1]
      BY <1>2, <3>1 DEF Accumulates
    <3> QED
      BY <3>2, <3>3
  <2> QED
    BY <2>1, <2>2
<1>5. Nat \subseteq P
  <2> HIDE DEF P
  <2> QED
    BY <1>3, <1>4, Induction
<1>6. g[n] = h[n]
  BY <1>5
<1> QED
  BY <1>2, <1>6

\* One list more.
LEMMA FlattenNext ==
  ASSUME NEW S, NEW n \in Nat, NEW lists \in [1..(n + 1) -> Seq(S)]
  PROVE  FlattenSeq(lists) = FlattenSeq([k \in 1..n |-> lists[k]]) \o lists[n + 1]
<1> DEFINE first == [k \in 1..n |-> lists[k]]
<1>1. PICK h \in [1..(n + 1) -> Seq(S)] : Accumulates(h, n + 1, lists)
  <2>1. n + 1 \in Nat \ {0}
    OBVIOUS
  <2> QED
    BY <2>1, AccumulationExists
<1>2. FlattenSeq(lists) = h[n + 1]
  <2>1. n + 1 \in Nat \ {0}
    OBVIOUS
  <2> QED
    BY <1>1, <2>1, FlattenIs
<1>3. CASE n = 0
  <2>1. first = <<>> /\ Len(first) = 0
    BY <1>3
  <2>2. FlattenSeq(first) = <<>>
    BY <2>1 DEF FlattenSeq
  <2>3. h[n + 1] = lists[n + 1] /\ lists[n + 1] \in Seq(S)
    BY <1>1, <1>3 DEF Accumulates
  <2>4. <<>> \o lists[n + 1] = lists[n + 1]
    BY <2>3, ConcatEmptySeq
  <2> HIDE DEF first
  <2>5. FlattenSeq(lists) = FlattenSeq(first) \o lists[n + 1]
    BY <1>2, <2>2, <2>3, <2>4
  <2> QED
    BY <2>5 DEF first
<1>4. CASE n # 0
  <2> DEFINE g == [i \in 1..n |-> h[i]]
  <2>1. first \in [1..n -> Seq(S)] /\ n \in Nat \ {0}
    BY <1>4
  <2>2. ASSUME NEW i \in 1..n
        PROVE  g[i] = IF i = 1 THEN first[i] ELSE g[i - 1] \o first[i]
    <3>1. i \in 1..(n + 1) /\ (i # 1 => i - 1 \in 1..n) /\ first[i] = lists[i]
      OBVIOUS
    <3>2. h[i] = IF i = 1 THEN lists[i] ELSE h[i - 1] \o lists[i]
      BY <1>1, <3>1 DEF Accumulates
    <3>3. g[i] = h[i] /\ (i # 1 => g[i - 1] = h[i - 1])
      BY <3>1
    <3> HIDE DEF g, first
    <3> QED
      BY <3>1, <3>2, <3>3
  <2>3. g = [i \in 1..n |-> g[i]] /\ g[n] = h[n]
    BY <2>1
  <2>4. Accumulates(g, n, first)
    <3> HIDE DEF g, first
    <3> QED
      BY <2>2, <2>3 DEF Accumulates
  <2>5. FlattenSeq(first) = g[n]
    <3> HIDE DEF g, first
    <3> QED
      BY <2>1, <2>4, FlattenIs
  <2>6. h[n + 1] = h[n] \o lists[n + 1]
    <3>1. n + 1 \in 1..(n + 1) /\ n + 1 # 1 /\ (n + 1) - 1 = n
      BY <1>4
    <3> QED
      BY <1>1, <3>1 DEF Accumulates
  <2> HIDE DEF g, first
  <2>7. FlattenSeq(lists) = FlattenSeq(first) \o lists[n + 1]
    BY <1>2, <2>3, <2>5, <2>6
  <2> QED
    BY <2>7 DEF first
<1> QED
  BY <1>3, <1>4

LEMMA NextMergeInv ==
  ASSUME TypeOK, PlaceInv, MergeInv, [Next]_vars
  PROVE  MergeInv'
<1> USE DEF past, bencher, merger
<1>1. CASE LoadNext
  <2>1. /\ loaded + 1 \in 1..Len(infiles) /\ NextFile \in Document /\ NextFile # Empty
        /\ Load(NextFile) \in Seq(Execution) /\ mdb \in Seq(Execution)
        /\ loaded' = loaded + 1 /\ infiles' = infiles /\ mdb' = mdb \o Load(NextFile)
        /\ loaded \in Nat
    BY <1>1, NextFileFacts DEF LoadNext, TypeOK
  <2>2. ASSUME NEW k \in 1..(loaded + 1) PROVE infiles[k] \in Document /\ infiles[k] # Empty
    <3>1. k \in 1..Len(infiles) /\ infiles[k] # Empty
      BY <2>1, <2>2 DEF MergeInv, NextFile
    <3> QED
      BY <3>1, ElementOfSeq DEF TypeOK
  <2>3. ASSUME NEW b \in Bench
        PROVE  Runs(mdb', b) = FlattenSeq([k \in 1..(loaded + 1) |-> infiles[k].benchmark_data[b]])
    <3> DEFINE lists == [k \in 1..(loaded + 1) |-> infiles[k].benchmark_data[b]]
               before == [k \in 1..loaded |-> infiles[k].benchmark_data[b]]
    <3>1. \A k \in 1..(loaded + 1) : infiles[k].benchmark_data[b] \in Seq(Number)
      BY <2>2 DEF Document
    <3>2. lists \in [1..(loaded + 1) -> Seq(Number)]
      BY <3>1
    <3>3. before = [k \in 1..loaded |-> lists[k]]
      BY <2>1
    <3>4. lists[loaded + 1] = NextFile.benchmark_data[b]
      BY <2>1 DEF NextFile
    <3>5. Runs(mdb, b) = FlattenSeq(before)
      BY DEF MergeInv
    <3> HIDE DEF lists, before
    <3>6. FlattenSeq(lists) = FlattenSeq(before) \o lists[loaded + 1]
      BY <2>1, <3>2, <3>3, FlattenNext
    <3>7. Runs(mdb', b) = Runs(mdb, b) \o NextFile.benchmark_data[b]
      BY <2>1, RunsOfConcat, RunsOfLoad
    <3>8. Runs(mdb', b) = FlattenSeq(lists)
      BY <3>4, <3>5, <3>6, <3>7
    <3> QED
      BY <3>8 DEF lists
  <2> QED
    BY <2>1, <2>2, <2>3 DEF MergeInv
<1>2. CASE loaded' = 0 /\ mdb' = <<>>
  <2>1. \A b \in Bench : FlattenSeq([k \in 1..0 |-> infiles'[k].benchmark_data[b]]) = <<>>
    <3> SUFFICES ASSUME NEW b \in Bench
                 PROVE  FlattenSeq([k \in 1..0 |-> infiles'[k].benchmark_data[b]]) = <<>>
      OBVIOUS
    <3>1. [k \in 1..0 |-> infiles'[k].benchmark_data[b]] = <<>> /\ Len(<<>>) = 0
      OBVIOUS
    <3> QED
      BY <3>1 DEF FlattenSeq
  <2>2. \A b \in Bench : Runs(mdb', b) = <<>>
    BY <1>2, EmptyDatabase
  <2> QED
    BY <1>2, <2>1, <2>2 DEF MergeInv
<1>3. CASE UNCHANGED <<infiles, loaded, mdb>>
  BY <1>3 DEF MergeInv
<1>4. CASE Open
  BY <1>2, <1>4 DEF Open, PlaceInv
<1> QED
  BY <1>1, <1>2, <1>3, <1>4
     DEF Next, Start, Execute, Write, Exit, CannotLoad, KillMerge, Store, Ended, vars

LEMMA InitStoreInv == Init => StoreInv
<1> SUFFICES ASSUME Init PROVE StoreInv
  OBVIOUS
<1>1. /\ target = {} /\ db = <<>> /\ mpc = "idle" /\ infiles = <<>> /\ Len(infiles) = 0
      /\ loaded = 0 /\ outfile = {} /\ mdb = <<>>
  BY DEF Init
<1>2. WholeInv
  <2>1. ASSUME NEW f \in File, ~gaps, Documents(f) PROVE Even(file[f])
    <3>1. PICK g \in File, B \in SUBSET Bench :
            /\ file = [h \in File |-> IF h = g THEN OldDocument(B) ELSE Absent]
            /\ gaps = (B # Bench)
      BY <2>1 DEF Init, Documents
    <3>2. file[f] = OldDocument(B) /\ B = Bench
      BY <2>1, <3>1 DEF Documents
    <3> QED
      BY <3>2, OldDocumentFacts
  <2> QED
    BY <1>1, <2>1, EmptyDatabase DEF WholeInv
<1>3. MergeInv
  <2> SUFFICES ASSUME NEW b \in Bench
               PROVE  FlattenSeq([k \in 1..0 |-> infiles[k].benchmark_data[b]]) = <<>>
    BY <1>1, EmptyDatabase DEF MergeInv
  <2>1. [k \in 1..0 |-> infiles[k].benchmark_data[b]] = <<>> /\ Len(<<>>) = 0
    OBVIOUS
  <2> QED
    BY <2>1 DEF FlattenSeq
<1> QED
  BY <1>1, <1>2, <1>3, InitTypes DEF StoreInv, PlaceInv, GrowInv

LEMMA NextStoreInv == StoreInv /\ [Next]_vars => StoreInv'
BY NextTypes, NextPlaceInv, NextGrowInv, NextWholeInv, NextMergeInv DEF StoreInv

LEMMA StoreInvHolds == Spec => []StoreInv
BY InitStoreInv, NextStoreInv, PTL DEF Spec

-----------------------------------------------------------------------------
\* Every result file and every database has its type, through all starts, writes and
\* merges.
THEOREM TypeCorrect == Spec => []TypeOK
<1>1. StoreInv => TypeOK
  BY DEF StoreInv
<1> QED
  BY <1>1, StoreInvHolds, PTL

\* A file that once went through a database is stable: what has been loaded of it is
\* written and loaded again without any further change (datamodel_helper.py:117-330).
THEOREM FilesAreStable == Spec => []Reload
<1>1. StoreInv => Reload
  <2> SUFFICES ASSUME TypeOK, NEW f \in File, Documents(f)
               PROVE  Load(Save(Load(file[f]))) = Load(file[f])
    BY DEF StoreInv, Reload
  <2>1. file[f] \in Document
    BY DEF TypeOK, Documents
  <2> QED
    BY <2>1, LoadIsStable
<1> QED
  BY <1>1, StoreInvHolds, PTL

\* As long as every execution measured every benchmark, a database is given back by
\* writing and loading it, and every run stays with its stderr, exit code and system
\* (datamodel_helper.py:117-330).
THEOREM DatabasesAreFaithful == Spec => []Faithful
<1>1. StoreInv => Faithful
  <2> SUFFICES ASSUME StoreInv, ~gaps, NEW s \in {db, mdb}
               PROVE  Load(Save(s)) = s /\ Attributed(s)
    BY DEF Faithful
  <2>1. s \in Seq(Execution) /\ Whole(s)
    BY DEF StoreInv, TypeOK, WholeInv
  <2> QED
    BY <2>1, SaveWhole
<1> QED
  BY <1>1, StoreInvHolds, PTL

\* No write of a result file drops, reorders or duplicates a measurement that was in it
\* (datamodel_helper.py:117-330, bench.py:646, 660).
THEOREM FilesExtend == Spec => FileExtends
<1>1. StoreInv /\ [Next]_vars =>
        [\A f \in File : Documents(f) =>
           \A b \in Bench :
             IsPrefix(file[f].benchmark_data[b], file'[f].benchmark_data[b])]_vars
  <2> SUFFICES ASSUME StoreInv, [Next]_vars, NEW f \in File, Documents(f), NEW b \in Bench
               PROVE  IsPrefix(file[f].benchmark_data[b], file'[f].benchmark_data[b])
    OBVIOUS
  <2>1. file[f] \in Document /\ db \in Seq(Execution)
    BY DEF StoreInv, TypeOK, Documents
  <2>2. file[f].benchmark_data[b] \in Seq(Number)
    BY <2>1 DEF Document
  <2>3. CASE file'[f] = file[f]
    BY <2>2, <2>3, PrefixFacts
  <2>4. CASE Write /\ f \in target
    <3>1. file'[f].benchmark_data[b] = Runs(db, b)
      BY <2>1, <2>4, SaveFacts DEF Write
    <3> QED
      BY <2>4, <3>1 DEF StoreInv, GrowInv
  <2>5. file'[f] = file[f] \/ (Write /\ f \in target)
    <3>1. CASE Write
      BY <3>1 DEF Write
    <3>2. CASE Open
      <4>1. PICK h \in File : file[h] = Absent /\ file' = [file EXCEPT ![h] = Empty]
        BY <3>2, OpenFacts DEF StoreInv
      <4> QED
        BY <4>1 DEF Documents, StoreInv, TypeOK
    <3>3. CASE Store
      BY <3>3 DEF Store, Documents, StoreInv, PlaceInv
    <3>4. CASE file' = file
      BY <3>4
    <3> QED
      BY <3>1, <3>2, <3>3, <3>4
         DEF Next, Start, Execute, Exit, LoadNext, CannotLoad, KillMerge, vars
  <2> QED
    BY <2>3, <2>4, <2>5
<1> QED
  BY <1>1, StoreInvHolds, PTL DEF Spec, FileExtends

\* The merged file has, for each benchmark, the runs of all INFILEs, file after file in
\* their order, whatever happened to the INFILEs in the meantime (merge_results.py:38-48).
THEOREM MergesAreWhole == Spec => MergedIsWhole
<1>1. StoreInv /\ [Next]_vars =>
        [\A h \in outfile : file'[h] # file[h] =>
           \A b \in Bench :
             file'[h].benchmark_data[b]
               = FlattenSeq([k \in DOMAIN infiles |-> infiles[k].benchmark_data[b]])]_vars
  <2> SUFFICES ASSUME StoreInv, [Next]_vars, NEW h \in outfile, file'[h] # file[h], NEW b \in Bench
               PROVE  file'[h].benchmark_data[b]
                        = FlattenSeq([k \in DOMAIN infiles |-> infiles[k].benchmark_data[b]])
    OBVIOUS
  <2>1. h \in File /\ h \notin target /\ mpc # "idle"
    BY DEF StoreInv, TypeOK, PlaceInv
  <2>2. Store
    BY <2>1 DEF Next, Start, Execute, Write, Exit, Open, LoadNext, CannotLoad, KillMerge, vars
  <2>3. file'[h] = Save(mdb) /\ mdb \in Seq(Execution) /\ loaded = Len(infiles)
    BY <2>1, <2>2 DEF Store, StoreInv, TypeOK
  <2>4. DOMAIN infiles = 1..loaded
    BY <2>3, LenProperties DEF StoreInv, TypeOK
  <2>5. file'[h].benchmark_data[b] = Runs(mdb, b)
    BY <2>3, SaveFacts
  <2>6. Runs(mdb, b) = FlattenSeq([k \in 1..loaded |-> infiles[k].benchmark_data[b]])
    BY DEF StoreInv, MergeInv
  <2> QED
    BY <2>4, <2>5, <2>6
<1> QED
  BY <1>1, StoreInvHolds, PTL DEF Spec, MergedIsWhole
=============================================================================
