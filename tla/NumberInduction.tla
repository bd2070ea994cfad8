---------------------------- MODULE NumberInduction ----------------------------
(***************************************************************************)
(* Induction on the natural numbers, and functions defined by recursion    *)
(* on them.                                                                *)
(*                                                                         *)
(* The induction theorems of the library take the statement as an operator *)
(* and cannot be used here.  Induction is derived from the well-founded    *)
(* order of finite sets instead, for statements given as a set, and        *)
(* recursion for steps given as a function.                                *)
(***************************************************************************)
EXTENDS Integers, FiniteSetTheorems, WellFoundedInduction, TLAPS

\* Among finite sets there is one that includes no other of them.
LEMMA SmallestSet ==
  ASSUME NEW S, NEW C, C \subseteq FiniteSubsetsOf(S), C # {}
  PROVE  \E A \in C : \A B \in C : B \subseteq A => B = A
<1>1. PICK A \in C : \A B \in C : <<B, A>> \notin StrictSubsetOrdering(S)
  BY FS_StrictSubsetOrderingWellFounded, WFMin
<1>2. \A B \in C : B \subseteq A => B = A
  BY <1>1 DEF StrictSubsetOrdering, FiniteSubsetsOf
<1> QED
  BY <1>2

LEMMA LeastNumber ==
  ASSUME NEW T, T \subseteq Nat, T # {}
  PROVE  \E m \in T : \A k \in T : m =< k
<1> DEFINE C == {0..n : n \in T}
<1>1. C # {}
  OBVIOUS
<1>2. C \subseteq FiniteSubsetsOf(Nat)
  <2>1. ASSUME NEW n \in T PROVE 0..n \subseteq Nat /\ IsFiniteSet(0..n)
    <3> n \in Int /\ 0 \in Int
      OBVIOUS
    <3> QED
      BY FS_Interval
  <2>2. \A n \in T : 0..n \in FiniteSubsetsOf(Nat)
    BY <2>1 DEF FiniteSubsetsOf
  <2> QED
    BY <2>2
<1>3. \A n \in T : 0..n \in C
  OBVIOUS
<1>4. PICK m \in T : \A B \in C : B \subseteq 0..m => B = 0..m
  <2>1. \A A \in C : \E m \in T : A = 0..m
    OBVIOUS
  <2> HIDE DEF C
  <2>2. \E A \in C : \A B \in C : B \subseteq A => B = A
    BY <1>1, <1>2, SmallestSet
  <2> QED
    BY <2>1, <2>2
<1>5. ASSUME NEW k \in T, ~(m =< k) PROVE FALSE
  <2>1. m \in Nat /\ k \in Nat /\ k < m
    BY <1>5
  <2>2. 0..k \subseteq 0..m
    BY <2>1
  <2>3. 0..k = 0..m
    BY <1>3, <1>4, <2>2
  <2>4. m \in 0..m /\ m \notin 0..k
    BY <2>1
  <2> QED
    BY <2>3, <2>4
<1> QED
  BY <1>5

\* Induction on the natural numbers, for the numbers of a set.
LEMMA Induction ==
  ASSUME NEW P, 0 \in P, \A n \in Nat : n \in P => n + 1 \in P
  PROVE  Nat \subseteq P
<1> SUFFICES ASSUME Nat \ P # {} PROVE FALSE
  OBVIOUS
<1>1. PICK m \in Nat \ P : \A k \in Nat \ P : m =< k
  BY LeastNumber
<1>2. m # 0 /\ m - 1 \in Nat /\ m - 1 \notin Nat \ P
  BY <1>1
<1> QED
  BY <1>2
-----------------------------------------------------------------------------
(* Recursion.                                                              *)

\* f begins with base and is continued by step, up to n.
Recurs(f, n, base, step) ==
  f = [i \in 0..n |-> IF i = 0 THEN base ELSE step[<<i, f[i - 1]>>]]

LEMMA RecursionExists ==
  ASSUME NEW V, NEW base \in V, NEW n \in Nat, NEW step \in [(1..n) \X V -> V]
  PROVE  \E f \in [0..n -> V] : Recurs(f, n, base, step)
<1> DEFINE Q(m) == m \in 0..n => \E f \in [0..m -> V] : Recurs(f, m, base, step)
           P == {m \in Nat : Q(m)}
<1>1. Q(0)
  <2> DEFINE f == [i \in 0..0 |-> base]
  <2>1. f \in [0..0 -> V] /\ Recurs(f, 0, base, step)
    BY DEF Recurs
  <2> QED
    BY <2>1
<1>2. ASSUME NEW m \in Nat, Q(m) PROVE Q(m + 1)
  <2> SUFFICES ASSUME m + 1 \in 0..n
               PROVE  \E f \in [0..(m + 1) -> V] : Recurs(f, m + 1, base, step)
    OBVIOUS
  <2>1. PICK g \in [0..m -> V] : Recurs(g, m, base, step)
    BY <1>2
  <2> DEFINE f == [i \in 0..(m + 1) |-> IF i = m + 1 THEN step[<<m + 1, g[m]>>] ELSE g[i]]
  <2>2. step[<<m + 1, g[m]>>] \in V
    <3>1. <<m + 1, g[m]>> \in (1..n) \X V
      OBVIOUS
    <3> QED
      BY <3>1
  <2>3. f \in [0..(m + 1) -> V]
    BY <2>2
  <2>4. ASSUME NEW i \in 0..(m + 1)
        PROVE  f[i] = IF i = 0 THEN base ELSE step[<<i, f[i - 1]>>]
    <3>1. CASE i = m + 1
      <4>1. f[i] = step[<<i, g[m]>>] /\ i # 0 /\ i - 1 = m /\ f[m] = g[m]
        BY <3>1
      <4> HIDE DEF f
      <4> QED
        BY <4>1
    <3>2. CASE i # m + 1
      <4>1. i \in 0..m /\ g[i] = IF i = 0 THEN base ELSE step[<<i, g[i - 1]>>]
        BY <2>1, <3>2 DEF Recurs
      <4>2. f[i] = g[i] /\ (i # 0 => f[i - 1] = g[i - 1])
        BY <4>1
      <4> HIDE DEF f
      <4> QED
        BY <4>1, <4>2
    <3> QED
      BY <3>1, <3>2
  <2>5. f = [i \in 0..(m + 1) |-> f[i]]
    OBVIOUS
  <2> HIDE DEF f
  <2>6. Recurs(f, m + 1, base, step)
    BY <2>4, <2>5 DEF Recurs
  <2> QED
    BY <2>3, <2>6
<1>3. Nat \subseteq P
  <2> HIDE DEF Q
  <2>1. 0 \in P /\ \A m \in Nat : m \in P => m + 1 \in P
    BY <1>1, <1>2
  <2> HIDE DEF P
  <2> QED
    BY <2>1, Induction
<1> QED
  BY <1>3
=============================================================================
