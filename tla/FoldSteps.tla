----------------------------- MODULE FoldSteps -----------------------------
(***************************************************************************)
(* A loop that carries a state from each element of a sequence to the next.*)
(* The theorems hold for whatever Step an instance gives it, so a proof    *)
(* about a loop may use them, and induction on its length, without an      *)
(* operator as an argument.                                                *)
(***************************************************************************)
EXTENDS Naturals, Sequences, SequenceTheorems, WellFoundedInduction, TLAPS

CONSTANT Step(_, _)      \* the state after an element, from the state before it

(* The state after the first k elements of s, for each k.                  *)
After(base, s) == LET f[k \in 0..Len(s)] == IF k = 0 THEN base ELSE Step(f[k - 1], s[k]) IN f

(* The state after all of them.                                            *)
Result(base, s) == After(base, s)[Len(s)]

-----------------------------------------------------------------------------
(* Every set of natural numbers with a member has a least one.             *)
LEMMA LeastNumber ==
    ASSUME NEW T \in SUBSET Nat, T # {}
    PROVE  \E m \in T : \A n \in T : m <= n
<1> DEFINE R == {p \in Nat \X Nat : p[1] < p[2]}
<1>1. IsWellFoundedOn(R, Nat)
  BY NatLessThanWellFounded DEF OpToRel
<1>2. \A x, y \in Nat : <<y, x>> \in R <=> y < x
  OBVIOUS
<1> HIDE DEF R
<1>3. PICK m \in T : \A n \in T : <<n, m>> \notin R
  BY <1>1, WFMin
<1>4. m \in Nat /\ \A n \in T : n \in Nat /\ ~(n < m)
  BY <1>2, <1>3
<1>5. \A n \in T : m <= n
  BY <1>4
<1> QED
  BY <1>5

(* Induction, with the set of the numbers that have the property.          *)
LEMMA Induction ==
    ASSUME NEW S, S \subseteq Nat, 0 \in S, \A n \in S : n + 1 \in S
    PROVE  S = Nat
<1> SUFFICES ASSUME Nat \ S # {} PROVE FALSE
  OBVIOUS
<1>1. PICK m \in Nat \ S : \A n \in Nat \ S : m <= n
  BY LeastNumber
<1>2. m # 0 /\ m - 1 \in Nat
  BY <1>1
<1>3. m - 1 \in S
  BY <1>1, <1>2
<1>4. (m - 1) + 1 \in S
  BY <1>3
<1> QED
  BY <1>1, <1>2, <1>4

(* The same up to a bound.                                                 *)
LEMMA BoundedInduction ==
    ASSUME NEW max \in Nat, NEW S, S \subseteq 0..max, 0 \in S, \A n \in S : n < max => n + 1 \in S
    PROVE  S = 0..max
<1> DEFINE T == {n \in Nat : n <= max => n \in S}
<1>1. T \subseteq Nat /\ 0 \in T
  OBVIOUS
<1>2. \A n \in T : n + 1 \in T
  OBVIOUS
<1>3. T = Nat
  <2> HIDE DEF T
  <2> QED
    BY <1>1, <1>2, Induction
<1>4. \A n \in 0..max : n \in T /\ n <= max
  BY <1>3
<1> QED
  BY <1>4

(* Induction over sequences, one more element at a time.                   *)
LEMMA SequenceInduction ==
    ASSUME NEW T, NEW S, S \subseteq Seq(T), <<>> \in S, \A s \in S : \A e \in T : Append(s, e) \in S
    PROVE  S = Seq(T)
<1> DEFINE N == {n \in Nat : \A s \in Seq(T) : Len(s) = n => s \in S}
<1>1. 0 \in N
  <2>1. \A s \in Seq(T) : Len(s) = 0 => s = <<>>
    OBVIOUS
  <2> QED
    BY <2>1
<1>2. ASSUME NEW n \in N PROVE n + 1 \in N
  <2> SUFFICES ASSUME NEW s \in Seq(T), Len(s) = n + 1 PROVE s \in S
    OBVIOUS
  <2>1. n \in Nat /\ s # <<>>
    OBVIOUS
  <2>2. PICK f \in Seq(T), e \in T : s = Append(f, e)
    BY <2>1, SequenceEmptyOrAppend
  <2>3. Len(s) = Len(f) + 1 /\ Len(f) \in Nat
    BY <2>2
  <2>4. f \in S
    BY <2>1, <2>3
  <2> QED
    BY <2>2, <2>4
<1>3. N = Nat
  <2>1. N \subseteq Nat
    OBVIOUS
  <2> HIDE DEF N
  <2> QED
    BY <1>1, <1>2, <2>1, Induction
<1>4. \A s \in Seq(T) : Len(s) \in Nat
  OBVIOUS
<1> QED
  BY <1>3, <1>4

-----------------------------------------------------------------------------
(* The recursion has a solution, so that After really follows Step.        *)
THEOREM AfterStep ==
    ASSUME NEW base, NEW s, Len(s) \in Nat
    PROVE  /\ DOMAIN After(base, s) = 0..Len(s)
           /\ After(base, s)[0] = base
           /\ \A k \in 1..Len(s) : After(base, s)[k] = Step(After(base, s)[k - 1], s[k])
<1> DEFINE A(g, n) == g = [k \in 0..n |-> IF k = 0 THEN base ELSE Step(g[k - 1], s[k])]
           S == {n \in Nat : \E g : A(g, n)}
<1>1. 0 \in S
  <2> DEFINE g == [k \in 0..0 |-> base]
  <2>1. A(g, 0)
    OBVIOUS
  <2> HIDE DEF A, g
  <2> QED
    BY <2>1
<1>2. ASSUME NEW n \in S PROVE n + 1 \in S
  <2>1. n \in Nat
    OBVIOUS
  <2>2. PICK g : A(g, n)
    OBVIOUS
  <2>3. \A k \in 0..n : g[k] = IF k = 0 THEN base ELSE Step(g[k - 1], s[k])
    BY <2>2
  <2> DEFINE h == [k \in 0..(n + 1) |-> IF k <= n THEN g[k] ELSE Step(g[n], s[n + 1])]
  <2>4. ASSUME NEW k \in 0..(n + 1) PROVE h[k] = IF k = 0 THEN base ELSE Step(h[k - 1], s[k])
    <3>1. CASE k = 0
      BY <2>1, <2>3, <3>1
    <3>2. CASE k \in 1..n
      <4>1. h[k] = g[k] /\ h[k - 1] = g[k - 1]
        BY <2>1, <3>2
      <4> QED
        BY <2>1, <2>3, <3>2, <4>1
    <3>3. CASE k = n + 1
      <4>1. h[k] = Step(g[n], s[n + 1]) /\ h[n] = g[n] /\ k - 1 = n /\ k # 0
        BY <2>1, <3>3
      <4> QED
        BY <3>3, <4>1
    <3> QED
      BY <2>1, <3>1, <3>2, <3>3
  <2>5. A(h, n + 1)
    BY <2>4
  <2> HIDE DEF A, h
  <2> QED
    BY <2>1, <2>5
<1>3. S \subseteq Nat
  OBVIOUS
<1>4. S = Nat
  <2> HIDE DEF S
  <2> QED
    BY <1>1, <1>2, <1>3, Induction
<1>5. A(After(base, s), Len(s))
  BY <1>4 DEF After
<1> QED
  BY <1>5

(* What follows an element has no effect on the state after it.            *)
THEOREM AfterPrefix ==
    ASSUME NEW base, NEW s, NEW t, Len(s) \in Nat, Len(t) \in Nat, Len(s) <= Len(t),
           \A k \in 1..Len(s) : s[k] = t[k],
           NEW n \in 0..Len(s)
    PROVE  After(base, s)[n] = After(base, t)[n]
<1> DEFINE S == {k \in 0..Len(s) : After(base, s)[k] = After(base, t)[k]}
<1>1. 0 \in S
  BY AfterStep
<1>2. ASSUME NEW k \in S, k < Len(s) PROVE k + 1 \in S
  <2>1. k \in Nat /\ k + 1 \in 1..Len(s) /\ k + 1 \in 1..Len(t) /\ (k + 1) - 1 = k
    BY <1>2
  <2>2. After(base, s)[k + 1] = Step(After(base, s)[k], s[k + 1])
    BY <2>1, AfterStep
  <2>3. After(base, t)[k + 1] = Step(After(base, t)[k], t[k + 1])
    BY <2>1, AfterStep
  <2> QED
    BY <2>1, <2>2, <2>3
<1>3. S = 0..Len(s)
  <2>1. S \subseteq 0..Len(s)
    OBVIOUS
  <2> HIDE DEF S
  <2> QED
    BY <1>1, <1>2, <2>1, BoundedInduction
<1> QED
  BY <1>3

(* One more element is one more step.                                      *)
THEOREM ResultAppend ==
    ASSUME NEW base, NEW T, NEW s \in Seq(T), NEW e \in T
    PROVE  Result(base, Append(s, e)) = Step(Result(base, s), e)
<1> DEFINE t == Append(s, e)
<1>1. Len(s) \in Nat /\ Len(t) = Len(s) + 1 /\ t[Len(s) + 1] = e /\ \A k \in 1..Len(s) : s[k] = t[k]
  OBVIOUS
<1>2. After(base, t)[Len(s) + 1] = Step(After(base, t)[Len(s)], e)
  <2> HIDE DEF t
  <2>1. Len(s) + 1 \in 1..Len(t) /\ (Len(s) + 1) - 1 = Len(s) /\ Len(t) \in Nat
    BY <1>1
  <2> QED
    BY <1>1, <2>1, AfterStep
<1>3. After(base, t)[Len(s)] = After(base, s)[Len(s)]
  <2> HIDE DEF t
  <2>1. Len(s) \in 0..Len(s) /\ Len(t) \in Nat /\ Len(s) <= Len(t)
    BY <1>1
  <2> QED
    BY <1>1, <2>1, AfterPrefix
<1> QED
  BY <1>1, <1>2, <1>3 DEF Result

(* Nothing to do leaves the state as it is.                                *)
THEOREM ResultEmpty ==
    ASSUME NEW base
    PROVE  Result(base, <<>>) = base
<1>1. Len(<<>>) = 0
  OBVIOUS
<1> QED
  BY <1>1, AfterStep DEF Result
=============================================================================
