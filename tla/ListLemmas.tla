------------------------------- MODULE ListLemmas -------------------------------
(***************************************************************************)
(* What the Redis list commands do to the elements of a list, for lists    *)
(* of any length: LREM with count 1 (RemoveFirst), LPUSH (Cons), RPUSH     *)
(* (Append) and the right pop (Front, Last).                               *)
(***************************************************************************)
EXTENDS Integers, SequencesExt, SequenceTheorems, WellFoundedInduction, TLAPS

(* A non-empty set of natural numbers has a minimum. *)
LEMMA MinProperties ==
    ASSUME NEW I \in SUBSET Nat, I # {}
    PROVE  Min(I) \in I /\ \A i \in I : Min(I) <= i
<1> DEFINE R == OpToRel(<, Nat)
<1>1. \A x, y \in Nat : <<y, x>> \in R <=> y < x
  BY DEF OpToRel
<1>2. IsWellFoundedOn(R, Nat)
  BY NatLessThanWellFounded
<1> HIDE DEF R
<1>3. PICK x \in I : \A y \in I : ~ (<<y, x>> \in R)
  BY <1>2, WFMin
<1>4. ASSUME NEW y \in I PROVE x <= y
  <2>1. ~ (y < x)
    BY <1>1, <1>3
  <2> QED
    BY <2>1
<1> QED
  BY <1>4 DEF Min

(* An element of a list has a first place. *)
LEMMA FirstPlace ==
    ASSUME NEW S, NEW l \in Seq(S), NEW e, \E i \in 1..Len(l) : l[i] = e
    PROVE  LET k == SelectInSeq(l, LAMBDA v : v = e)
           IN  k \in 1..Len(l) /\ l[k] = e
<1> DEFINE I == {i \in 1..Len(l) : l[i] = e}
<1>1. I \in SUBSET Nat /\ I # {}
  OBVIOUS
<1>2. Min(I) \in I
  BY <1>1, MinProperties
<1>3. SelectInSeq(l, LAMBDA v : v = e) = Min(I)
  BY <1>1 DEF SelectInSeq
<1> QED
  BY <1>2, <1>3

(* LREM: the list without one of the places that hold e. *)
LEMMA RemoveFirstProperties ==
    ASSUME NEW S, NEW l \in Seq(S), NEW e, \E i \in 1..Len(l) : l[i] = e
    PROVE  /\ RemoveFirst(l, e) \in Seq(S)
           /\ \E k \in 1..Len(l) :
                /\ l[k] = e
                /\ Len(RemoveFirst(l, e)) = Len(l) - 1
                /\ \A i \in 1..(Len(l) - 1) :
                      RemoveFirst(l, e)[i] = IF i < k THEN l[i] ELSE l[i+1]
<1> DEFINE k == SelectInSeq(l, LAMBDA v : v = e)
           L == SubSeq(l, 1, k-1)
           R == SubSeq(l, k+1, Len(l))
<1>1. k \in 1..Len(l) /\ l[k] = e
  BY FirstPlace
<1>2. RemoveFirst(l, e) = L \o R
  BY DEF RemoveFirst, RemoveAt
<1> HIDE DEF k
<1>3. L \in Seq(S) /\ Len(L) = k - 1 /\ \A i \in 1..(k-1) : L[i] = l[i]
  BY <1>1
<1>4. R \in Seq(S) /\ Len(R) = Len(l) - k /\ \A i \in 1..(Len(l) - k) : R[i] = l[k+i]
  BY <1>1
<1> HIDE DEF L, R
<1>5. /\ L \o R \in Seq(S)
      /\ Len(L \o R) = Len(l) - 1
  <2>1. L \o R \in Seq(S) /\ Len(L \o R) = Len(L) + Len(R)
    BY <1>3, <1>4, ConcatProperties
  <2> QED
    BY <1>1, <1>3, <1>4, <2>1
<1>6. ASSUME NEW i \in 1..(Len(l) - 1)
      PROVE  (L \o R)[i] = IF i < k THEN l[i] ELSE l[i+1]
  <2>1. CASE i < k
    BY <1>1, <1>3, <1>4, <2>1
  <2>2. CASE ~ (i < k)
    <3> DEFINE j == i - (k - 1)
    <3>1. j \in 1..(Len(l) - k) /\ k + j = i + 1
      BY <1>1, <2>2
    <3>2. (L \o R)[i] = R[j]
      BY <1>1, <1>3, <1>4, <2>2
    <3> HIDE DEF j
    <3>3. R[j] = l[i + 1]
      BY <1>4, <3>1
    <3> QED
      BY <2>2, <3>2, <3>3
  <2> QED
    BY <2>1, <2>2
<1> QED
  BY <1>1, <1>2, <1>5, <1>6

(* The right pop. *)
LEMMA FrontProperties ==
    ASSUME NEW S, NEW l \in Seq(S), l # <<>>
    PROVE  /\ Last(l) \in S
           /\ Front(l) \in Seq(S)
           /\ Len(Front(l)) = Len(l) - 1
           /\ \A i \in 1..(Len(l) - 1) : Front(l)[i] = l[i]
<1>1. Len(l) \in Nat \ {0} /\ \A i \in 1..Len(l) : l[i] \in S
  OBVIOUS
<1>2. /\ SubSeq(l, 1, Len(l) - 1) \in Seq(S)
      /\ Len(SubSeq(l, 1, Len(l) - 1)) = Len(l) - 1
      /\ \A i \in 1..(Len(l) - 1) : SubSeq(l, 1, Len(l) - 1)[i] = l[i]
  <2> DEFINE n == Len(l) - 1
  <2>1. n \in Nat /\ n + 1 = Len(l)
    BY <1>1
  <2> HIDE DEF n
  <2>2. SubSeq(l, 1, n) \in Seq(S) /\ Len(SubSeq(l, 1, n)) = n
    BY <1>1, <2>1
  <2>3. \A i \in 1..n : SubSeq(l, 1, n)[i] = l[i]
    BY <1>1, <2>1
  <2> QED
    BY <2>2, <2>3 DEF n
<1> QED
  BY <1>1, <1>2 DEF Front, Last

(* LPUSH. *)
LEMMA ConsProperties ==
    ASSUME NEW S, NEW l \in Seq(S), NEW e \in S
    PROVE  /\ Cons(e, l) \in Seq(S)
           /\ Len(Cons(e, l)) = Len(l) + 1
           /\ Cons(e, l)[1] = e
           /\ \A i \in 1..Len(l) : Cons(e, l)[i+1] = l[i]
<1>1. <<e>> \in Seq(S) /\ Len(<<e>>) = 1 /\ <<e>>[1] = e
  OBVIOUS
<1>2. /\ <<e>> \o l \in Seq(S)
      /\ Len(<<e>> \o l) = 1 + Len(l)
      /\ \A i \in 1..(1 + Len(l)) :
            (<<e>> \o l)[i] = IF i <= 1 THEN <<e>>[i] ELSE l[i-1]
  BY <1>1, ConcatProperties
<1> QED
  BY <1>1, <1>2 DEF Cons


--------------------------------------------------------------------------------
(* Induction on the natural numbers, for a set instead of a predicate. *)
LEMMA InductionOnSet ==
    ASSUME NEW T \in SUBSET Nat, 0 \in T, \A n \in T : n + 1 \in T
    PROVE  T = Nat
<1> SUFFICES ASSUME Nat \ T # {} PROVE FALSE
  OBVIOUS
<1> DEFINE m == Min(Nat \ T)
<1>1. m \in Nat \ T /\ \A i \in Nat \ T : m <= i
  BY MinProperties
<1> HIDE DEF m
<1>2. m - 1 \in Nat /\ m - 1 \notin Nat \ T
  BY <1>1
<1> QED
  BY <1>1, <1>2

(* What is computed from s0 by n steps is a function: the equation of a    *)
(* recursive function on 0..n has a solution.                              *)
Recursion(f, n, s0, step) ==
    f = [k \in 0..n |-> IF k = 0 THEN s0 ELSE step[k][f[k - 1]]]

LEMMA RecursionExists ==
    ASSUME NEW S, NEW s0 \in S, NEW n \in Nat, NEW step \in [1..n -> [S -> S]]
    PROVE  \E f \in [0..n -> S] : Recursion(f, n, s0, step)
<1> DEFINE P(m) == m <= n => \E f \in [0..m -> S] : Recursion(f, m, s0, step)
           T == {m \in Nat : P(m)}
<1>1. 0 \in T
  <2>1. [k \in 0..0 |-> s0] \in [0..0 -> S] /\ Recursion([k \in 0..0 |-> s0], 0, s0, step)
    BY DEF Recursion
  <2> QED
    BY <2>1
<1>2. ASSUME NEW m \in T PROVE m + 1 \in T
  <2> SUFFICES ASSUME m + 1 <= n PROVE \E f \in [0..(m + 1) -> S] : Recursion(f, m + 1, s0, step)
    OBVIOUS
  <2>1. PICK g \in [0..m -> S] : Recursion(g, m, s0, step)
    OBVIOUS
  <2> DEFINE f == [k \in 0..(m + 1) |-> IF k = m + 1 THEN step[m + 1][g[m]] ELSE g[k]]
  <2>2. step[m + 1] \in [S -> S] /\ g[m] \in S
    OBVIOUS
  <2>3. f \in [0..(m + 1) -> S]
    BY <2>2
  <2>4. ASSUME NEW k \in 0..(m + 1)
        PROVE  f[k] = IF k = 0 THEN s0 ELSE step[k][f[k - 1]]
    <3>1. CASE k = m + 1
      BY <3>1
    <3>2. CASE k # m + 1
      <4>1. k \in 0..m /\ (k # 0 => k - 1 \in 0..m /\ k - 1 # m + 1)
        BY <3>2
      <4>2. f[k] = g[k] /\ (k # 0 => f[k - 1] = g[k - 1])
        BY <4>1
      <4>3. g[k] = IF k = 0 THEN s0 ELSE step[k][g[k - 1]]
        BY <2>1, <4>1 DEF Recursion
      <4> QED
        BY <4>2, <4>3
    <3> QED
      BY <3>1, <3>2
  <2>5. Recursion(f, m + 1, s0, step)
    <3> HIDE DEF f
    <3> QED
      BY <2>3, <2>4 DEF Recursion
  <2> QED
    BY <2>3, <2>5
<1> HIDE DEF P
<1>3. T = Nat
  BY <1>1, <1>2, InductionOnSet
<1>4. P(n)
  BY <1>3
<1> QED
  BY <1>4 DEF P

(* ... of which every solution stays in S. *)
LEMMA RecursionStays ==
    ASSUME NEW S, NEW s0 \in S, NEW n \in Nat, NEW step \in [1..n -> [S -> S]],
           NEW f, f[0] = s0, \A k \in 1..n : f[k - 1] \in S => f[k] = step[k][f[k - 1]]
    PROVE  \A k \in 0..n : f[k] \in S
<1> DEFINE T == {m \in Nat : m <= n => f[m] \in S}
<1>1. 0 \in T
  OBVIOUS
<1>2. ASSUME NEW m \in T PROVE m + 1 \in T
  <2> SUFFICES ASSUME m + 1 <= n PROVE f[m + 1] \in S
    OBVIOUS
  <2>1. m + 1 \in 1..n /\ (m + 1) - 1 = m /\ f[m] \in S
    OBVIOUS
  <2>2. f[m + 1] = step[m + 1][f[m]]
    BY <2>1
  <2>3. step[m + 1] \in [S -> S]
    BY <2>1
  <2> QED
    BY <2>1, <2>2, <2>3
<1>3. T \in SUBSET Nat
  OBVIOUS
<1> HIDE DEF T
<1>4. T = Nat
  BY <1>1, <1>2, <1>3, InductionOnSet
<1> QED
  BY <1>4 DEF T

(* The concatenation of lists, one after the other. *)
LEMMA FlattenProperties ==
    ASSUME NEW S, NEW q \in Seq(Seq(S)), Len(q) > 0
    PROVE  \E g \in [0..Len(q) -> Seq(S)] :
              /\ g[0] = <<>>
              /\ \A i \in 1..Len(q) : g[i] = g[i - 1] \o q[i]
              /\ FlattenSeq(q) = g[Len(q)]
<1> DEFINE n == Len(q)
           step == [k \in 1..n |-> [s \in Seq(S) |-> s \o q[k]]]
           Def(f) == [i \in 1..n |-> IF i = 1 THEN q[1] ELSE f[i - 1] \o q[i]]
<1>1. n \in Nat /\ (\A k \in 1..n : q[k] \in Seq(S)) /\ <<>> \in Seq(S)
  OBVIOUS
<1>2. step \in [1..n -> [Seq(S) -> Seq(S)]]
  BY <1>1
<1> HIDE DEF n, step
<1>3. PICK g \in [0..n -> Seq(S)] : Recursion(g, n, <<>>, step)
  BY <1>1, <1>2, RecursionExists
<1>4. g[0] = <<>> /\ \A k \in 1..n : g[k] = g[k - 1] \o q[k]
  <2>1. g[0] = <<>>
    BY <1>1, <1>3 DEF Recursion
  <2>2. ASSUME NEW k \in 1..n PROVE g[k] = g[k - 1] \o q[k]
    <3>1. k \in 0..n /\ k # 0 /\ k - 1 \in 0..n
      BY <1>1
    <3>2. g[k] = step[k][g[k - 1]]
      BY <1>3, <3>1 DEF Recursion
    <3>3. g[k - 1] \in Seq(S)
      BY <3>1
    <3> QED
      BY <3>2, <3>3 DEF step
  <2> QED
    BY <2>1, <2>2
<1>5. \A k \in 1..n : g[k] \in Seq(S)
  BY <1>1
<1>6. n > 0 /\ g[1] = q[1]
  <2>1. n > 0 /\ 1 \in 1..n
    BY <1>1 DEF n
  <2>2. g[1] = <<>> \o q[1]
    <3>1. 1 - 1 = 0
      OBVIOUS
    <3>2. g[1] = g[1 - 1] \o q[1]
      BY <1>4, <2>1
    <3> QED
      BY <1>4, <3>1, <3>2
  <2>3. q[1] \in Seq(S)
    BY <1>1, <2>1
  <2> QED
    BY <2>1, <2>2, <2>3, ConcatEmptySeq
<1> DEFINE f == [i \in 1..n |-> g[i]]
<1>7. f = Def(f)
  <2>1. ASSUME NEW i \in 1..n PROVE g[i] = IF i = 1 THEN q[1] ELSE f[i - 1] \o q[i]
    <3>1. CASE i = 1
      BY <1>6, <3>1
    <3>2. CASE i # 1
      <4>1. i - 1 \in 1..n
        BY <1>1, <3>2
      <4> QED
        BY <1>4, <3>2, <4>1
    <3> QED
      BY <3>1, <3>2
  <2> QED
    BY <2>1
<1> DEFINE h == CHOOSE e : e = Def(e)
<1>8. h = Def(h)
  <2> HIDE DEF f, Def
  <2> QED
    BY <1>7
<1>9. FlattenSeq(q) = h[n]
  <2>1. Len(q) # 0 /\ n = Len(q)
    BY <1>6 DEF n
  <2> QED
    BY <2>1 DEF FlattenSeq, n
<1> HIDE DEF h
<1>10. \A i \in 1..n : h[i] = IF i = 1 THEN q[1] ELSE h[i - 1] \o q[i]
  BY <1>8
<1> HIDE DEF f, Def
<1>11. \A i \in 1..n : h[i] = g[i]
  <2> DEFINE T == {m \in Nat : m + 1 <= n => h[m + 1] = g[m + 1]}
  <2>1. 0 \in T
    BY <1>6, <1>10
  <2>2. ASSUME NEW m \in T PROVE m + 1 \in T
    <3> SUFFICES ASSUME m + 2 <= n PROVE h[m + 2] = g[m + 2]
      OBVIOUS
    <3>1. m + 2 \in 1..n /\ m + 2 # 1 /\ (m + 2) - 1 = m + 1 /\ h[m + 1] = g[m + 1]
      BY <1>1
    <3>2. h[m + 2] = h[(m + 2) - 1] \o q[m + 2] /\ g[m + 2] = g[(m + 2) - 1] \o q[m + 2]
      BY <1>4, <1>10, <3>1
    <3>3. (m + 1) + 1 = m + 2
      OBVIOUS
    <3> QED
      BY <3>1, <3>2, <3>3
  <2>3. T = Nat
    <3> HIDE DEF T
    <3>1. T \in SUBSET Nat
      BY DEF T
    <3> QED
      BY <2>1, <2>2, <3>1, InductionOnSet
  <2>4. ASSUME NEW i \in 1..n PROVE h[i] = g[i]
    <3>1. i - 1 \in Nat /\ (i - 1) + 1 = i
      BY <1>1
    <3>2. i - 1 \in T
      BY <2>3, <3>1
    <3> QED
      BY <1>1, <3>1, <3>2
  <2> QED
    BY <2>4
<1>12. FlattenSeq(q) = g[n]
  BY <1>1, <1>6, <1>9, <1>11
<1> QED
  BY <1>4, <1>12 DEF n
================================================================================
