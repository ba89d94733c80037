-------------------------- MODULE PowersOfTwoProofs --------------------------
(***************************************************************************)
(* Recursion over the natural numbers, and the powers of two.              *)
(*                                                                         *)
(* A recursive definition  f[n \in Nat] == ... f[n - 1] ...  chooses a     *)
(* function that satisfies its equation; that there is one is to be proved *)
(* before anything can be said about f.  Every induction here is on the    *)
(* least counterexample.                                                   *)
(***************************************************************************)
EXTENDS PowersOfTwo, WellFoundedInduction, TLAPS

\* A set of natural numbers has a least element.
LEMMA LeastNatural ==
  ASSUME NEW S \in SUBSET Nat, S # {}
  PROVE  \E n \in S : \A m \in S : n <= m
<1>1. PICK n \in S : \A m \in S : ~(<<m, n>> \in OpToRel(<, Nat))
  BY NatLessThanWellFounded, WFMin
<1>2. \A m \in S : ~(m < n)
  BY <1>1 DEF OpToRel
<1> QED BY <1>2

\* A set that holds 0 and each successor is that of all natural numbers.
LEMMA AllNaturals ==
  ASSUME NEW S, 0 \in S, \A n \in Nat : n \in S => n + 1 \in S
  PROVE  Nat \subseteq S
<1> SUFFICES ASSUME Nat \ S # {} PROVE FALSE
  OBVIOUS
<1>1. PICK n \in Nat \ S : \A m \in Nat \ S : n <= m
  BY LeastNatural
<1>2. n - 1 \in Nat /\ n - 1 \in S
  BY <1>1
<1>3. (n - 1) + 1 \in S
  BY <1>2
<1> QED BY <1>3

-----------------------------------------------------------------------------
\* A recursion from a by step has a solution: the first m + 1 values of it exist for
\* every m, and agree.
FirstValues(S, a, step, m, h) ==
  /\ h \in [0..m -> S]
  /\ h[0] = a
  /\ \A n \in 1..m : h[n] = step[<<h[n - 1], n>>]

LEMMA FirstValuesExist ==
  ASSUME NEW S, NEW a \in S, NEW step \in [S \X Nat -> S], NEW m \in Nat
  PROVE  \E h : FirstValues(S, a, step, m, h)
<1> DEFINE M == {n \in Nat : \E h : FirstValues(S, a, step, n, h)}
<1>1. 0 \in M
  <2> DEFINE h == [n \in 0..0 |-> a]
  <2>1. FirstValues(S, a, step, 0, h)
    BY DEF FirstValues
  <2> QED BY <2>1
<1>2. ASSUME NEW n \in Nat, n \in M
      PROVE  n + 1 \in M
  <2>1. PICK h : FirstValues(S, a, step, n, h)
    BY <1>2
  <2>2. h \in [0..n -> S] /\ h[0] = a /\ \A l \in 1..n : h[l] = step[<<h[l - 1], l>>]
    BY <2>1 DEF FirstValues
  <2> DEFINE x == step[<<h[n], n + 1>>]
             g == [l \in 0..n + 1 |-> IF l = n + 1 THEN x ELSE h[l]]
  <2>3. x \in S
    BY <2>2
  <2> HIDE DEF x
  <2>4. g \in [0..n + 1 -> S] /\ g[0] = a
    BY <2>2, <2>3
  <2>5. ASSUME NEW l \in 1..n + 1 PROVE g[l] = step[<<g[l - 1], l>>]
    <3>1. CASE l = n + 1
      <4>1. g[l] = x /\ g[l - 1] = h[n]
        BY <3>1
      <4> QED BY <3>1, <4>1 DEF x
    <3>2. CASE l # n + 1
      <4>1. l \in 1..n /\ g[l] = h[l] /\ g[l - 1] = h[l - 1]
        BY <3>2
      <4> QED BY <2>2, <4>1
    <3> QED BY <3>1, <3>2
  <2>6. FirstValues(S, a, step, n + 1, g)
    <3> HIDE DEF g
    <3> QED BY <2>4, <2>5 DEF FirstValues
  <2> QED BY <2>6
<1> HIDE DEF M
<1>3. m \in M
  BY <1>1, <1>2, AllNaturals
<1> QED BY <1>3 DEF M

LEMMA FirstValuesAgree ==
  ASSUME NEW S, NEW a, NEW step, NEW m \in Nat, NEW g, NEW k \in Nat, NEW h,
         FirstValues(S, a, step, m, g), FirstValues(S, a, step, k, h),
         NEW n \in Nat, n <= m, n <= k
  PROVE  g[n] = h[n]
<1> DEFINE A == {l \in Nat : l <= m /\ l <= k => g[l] = h[l]}
<1>1. 0 \in A
  BY DEF FirstValues
<1>2. ASSUME NEW l \in Nat, l \in A PROVE l + 1 \in A
  <2> SUFFICES ASSUME l + 1 <= m, l + 1 <= k PROVE g[l + 1] = h[l + 1]
    OBVIOUS
  <2>1. g[l] = h[l] /\ l + 1 \in 1..m /\ l + 1 \in 1..k /\ (l + 1) - 1 = l
    BY <1>2
  <2>2. g[l + 1] = step[<<g[l], l + 1>>] /\ h[l + 1] = step[<<h[l], l + 1>>]
    BY <2>1 DEF FirstValues
  <2> QED BY <2>1, <2>2
<1> HIDE DEF A
<1>3. n \in A
  BY <1>1, <1>2, AllNaturals
<1> QED BY <1>3 DEF A

LEMMA RecursionExists ==
  ASSUME NEW S, NEW a \in S, NEW step \in [S \X Nat -> S]
  PROVE  \E f \in [Nat -> S] :
           f = [n \in Nat |-> IF n = 0 THEN a ELSE step[<<f[n - 1], n>>]]
<1> DEFINE H(m) == CHOOSE h : FirstValues(S, a, step, m, h)
           f == [n \in Nat |-> H(n)[n]]
<1>1. \A m \in Nat : FirstValues(S, a, step, m, H(m))
  BY FirstValuesExist
<1> HIDE DEF H
<1>2. f \in [Nat -> S]
  BY <1>1 DEF FirstValues
<1>3. ASSUME NEW n \in Nat
      PROVE  f[n] = IF n = 0 THEN a ELSE step[<<f[n - 1], n>>]
  <2>1. CASE n = 0
    BY <1>1, <2>1 DEF FirstValues
  <2>2. CASE n # 0
    <3>1. n - 1 \in Nat /\ n - 1 <= n /\ n \in 1..n
      BY <2>2
    <3>2. FirstValues(S, a, step, n, H(n)) /\ FirstValues(S, a, step, n - 1, H(n - 1))
      BY <1>1, <3>1
    <3>3. H(n)[n] = step[<<H(n)[n - 1], n>>]
      BY <3>1, <3>2 DEF FirstValues
    <3>4. H(n)[n - 1] = H(n - 1)[n - 1]
      BY <3>1, <3>2, FirstValuesAgree
    <3>5. f[n] = H(n)[n] /\ f[n - 1] = H(n - 1)[n - 1]
      BY <3>1
    <3> QED BY <2>2, <3>3, <3>4, <3>5
  <2> QED BY <2>1, <2>2
<1>4. f = [n \in Nat |-> IF n = 0 THEN a ELSE step[<<f[n - 1], n>>]]
  <2>1. f = [n \in Nat |-> f[n]]
    BY <1>2
  <2> HIDE DEF f
  <2> QED BY <1>3, <2>1
<1> QED BY <1>2, <1>4

-----------------------------------------------------------------------------
\* The powers of two.

LEMMA Pow2Equation ==
  /\ Pow2[0] = 1
  /\ \A n \in Nat : Pow2[n + 1] = 2 * Pow2[n]
<1> DEFINE step == [p \in Nat \X Nat |-> 2 * p[1]]
           Solves(f) == f = [n \in Nat |-> IF n = 0 THEN 1 ELSE 2 * f[n - 1]]
<1>1. \E f : Solves(f)
  <2>1. step \in [Nat \X Nat -> Nat] /\ \A x, n \in Nat : step[<<x, n>>] = 2 * x
    OBVIOUS
  <2> HIDE DEF step
  <2>2. PICK f \in [Nat -> Nat] :
          f = [n \in Nat |-> IF n = 0 THEN 1 ELSE step[<<f[n - 1], n>>]]
    <3>1. \A a \in Nat, s \in [Nat \X Nat -> Nat] :
            \E f \in [Nat -> Nat] :
              f = [n \in Nat |-> IF n = 0 THEN a ELSE s[<<f[n - 1], n>>]]
      BY RecursionExists
    <3>2. 1 \in Nat
      OBVIOUS
    <3> QED BY <2>1, <3>1, <3>2, Zenon
  <2>3. \A n \in Nat : n # 0 => step[<<f[n - 1], n>>] = 2 * f[n - 1]
    <3> TAKE n \in Nat
    <3> HAVE n # 0
    <3>1. f[n - 1] \in Nat
      OBVIOUS
    <3> QED BY <2>1, <3>1
  <2>4. Solves(f)
    BY <2>2, <2>3
  <2> QED BY <2>4
<1>2. Pow2 = CHOOSE f : Solves(f)
  BY DEF Pow2
<1> HIDE DEF Solves
<1>3. Solves(Pow2)
  BY <1>1, <1>2
<1>4. \A n \in Nat : Pow2[n] = IF n = 0 THEN 1 ELSE 2 * Pow2[n - 1]
  <2> DEFINE g == Pow2
  <2>1. g = [n \in Nat |-> IF n = 0 THEN 1 ELSE 2 * g[n - 1]]
    BY <1>3 DEF Solves
  <2> HIDE DEF g
  <2>2. \A n \in Nat : g[n] = IF n = 0 THEN 1 ELSE 2 * g[n - 1]
    BY <2>1
  <2> QED BY <2>2 DEF g
<1> HIDE DEF Solves
<1>5. ASSUME NEW n \in Nat PROVE Pow2[n + 1] = 2 * Pow2[n]
  <2>1. n + 1 \in Nat /\ n + 1 # 0 /\ (n + 1) - 1 = n
    OBVIOUS
  <2> QED BY <1>4, <2>1
<1> QED BY <1>4, <1>5

LEMMA Pow2Type ==
  ASSUME NEW n \in Nat
  PROVE  Pow2[n] \in Nat \ {0}
<1> DEFINE P == {m \in Nat : Pow2[m] \in Nat \ {0}}
<1>1. 0 \in P
  BY Pow2Equation
<1>2. ASSUME NEW m \in Nat, m \in P PROVE m + 1 \in P
  BY <1>2, Pow2Equation
<1> HIDE DEF P
<1>3. n \in P
  BY <1>1, <1>2, AllNaturals
<1> QED BY <1>3 DEF P

LEMMA Pow2Sum ==
  ASSUME NEW m \in Nat, NEW n \in Nat
  PROVE  Pow2[m + n] = Pow2[m] * Pow2[n]
<1> DEFINE P == {k \in Nat : Pow2[m + k] = Pow2[m] * Pow2[k]}
<1>1. 0 \in P
  BY Pow2Equation, Pow2Type
<1>2. ASSUME NEW k \in Nat, k \in P PROVE k + 1 \in P
  <2>1. Pow2[m + (k + 1)] = 2 * Pow2[m + k]
    <3>1. m + k \in Nat /\ m + (k + 1) = (m + k) + 1
      OBVIOUS
    <3> QED BY <3>1, Pow2Equation
  <2>2. Pow2[k + 1] = 2 * Pow2[k]
    BY Pow2Equation
  <2>3. Pow2[m] \in Nat /\ Pow2[k] \in Nat /\ Pow2[m + k] = Pow2[m] * Pow2[k]
    BY <1>2, Pow2Type
  <2> QED BY <2>1, <2>2, <2>3
<1> HIDE DEF P
<1>3. n \in P
  BY <1>1, <1>2, AllNaturals
<1> QED BY <1>3 DEF P

LEMMA Pow2Order ==
  ASSUME NEW m \in Nat, NEW n \in Nat, m <= n
  PROVE  Pow2[m] <= Pow2[n]
<1>1. n - m \in Nat /\ n = m + (n - m)
  OBVIOUS
<1>2. Pow2[n] = Pow2[m] * Pow2[n - m]
  BY <1>1, Pow2Sum
<1>3. Pow2[m] \in Nat \ {0} /\ Pow2[n - m] \in Nat \ {0}
  BY <1>1, Pow2Type
<1>4. \A a, b \in Nat \ {0} : a <= a * b
  OBVIOUS
<1> QED BY <1>2, <1>3, <1>4

==============================================================================
