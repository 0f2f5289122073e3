----------------------------- MODULE Induction -----------------------------
(***************************************************************************)
(* Induction over numbers without an operator for the induction hypothesis:*)
(* the hypothesis is the set of the numbers it holds of.  From it, that a  *)
(* function defined by recursion up to a number exists.                    *)
(***************************************************************************)
EXTENDS Naturals, WellFoundedInduction, TLAPS

LEMMA LeastNat ==
  ASSUME NEW T \in SUBSET Nat, T # {}
  PROVE  \E n \in T : \A m \in T : n <= m
<1> DEFINE R == OpToRel(<, Nat)
<1>1. IsWellFoundedOn(R, Nat)
  BY NatLessThanWellFounded
<1>2. \A m, n \in Nat : m < n => <<m, n>> \in R
  BY DEF OpToRel
<1> HIDE DEF R
<1>3. PICK n \in T : \A m \in T : <<m, n>> \notin R
  BY <1>1, WFMin
<1>4. ASSUME NEW m \in T PROVE n <= m
  <2>1. m \in Nat /\ n \in Nat /\ ~(m < n)
    BY <1>2, <1>3
  <2>2. QED BY <2>1
<1>5. QED BY <1>4

\* What holds of 0 and passes from each number below N to the next holds up to N.
LEMMA InductionUpTo ==
  ASSUME NEW N \in Nat, NEW T, 0 \in T,
         \A n \in 0..N - 1 : n \in T => n + 1 \in T
  PROVE  \A n \in 0..N : n \in T
<1> SUFFICES ASSUME {n \in 0..N : n \notin T} # {} PROVE FALSE
  OBVIOUS
<1>1. {n \in 0..N : n \notin T} \in SUBSET Nat
  OBVIOUS
<1>2. PICK n \in {m \in 0..N : m \notin T} :
             \A m \in {m \in 0..N : m \notin T} : n <= m
  BY <1>1, LeastNat
<1>3. n # 0 /\ n \in 0..N /\ n \notin T
  BY <1>2
<1>4. n - 1 \in 0..N - 1 /\ n - 1 \in 0..N /\ (n - 1) + 1 = n /\ ~(n <= n - 1)
  BY <1>3
<1>5. n - 1 \in T
  BY <1>2, <1>4
<1>6. QED BY <1>3, <1>4, <1>5

LEMMA GreatestNat ==
  ASSUME NEW N \in Nat, NEW T \in SUBSET (0..N), T # {}
  PROVE  \E n \in T : \A m \in T : m <= n
<1>1. PICK d \in {c \in Nat : \E n \in T : c = N - n} :
             \A c \in {b \in Nat : \E n \in T : b = N - n} : d <= c
  <2>1. PICK n \in T : TRUE
    OBVIOUS
  <2>2. N - n \in {c \in Nat : \E m \in T : c = N - m}
    BY <2>1
  <2>3. {c \in Nat : \E m \in T : c = N - m} \in SUBSET Nat
    OBVIOUS
  <2>4. QED BY <2>2, <2>3, LeastNat
<1>2. PICK n \in T : d = N - n
  BY <1>1
<1>3. ASSUME NEW m \in T PROVE m <= n
  <2>1. N - m \in {c \in Nat : \E k \in T : c = N - k}
    OBVIOUS
  <2>2. d <= N - m
    BY <1>1, <2>1
  <2>3. QED BY <1>2, <2>2
<1>4. QED BY <1>3

\* A function whose value at 0 is start and at each n the step from the one at n - 1.
IsRecursion(g, N, S, start, step) ==
  /\ g \in [0..N -> S] /\ g[0] = start
  /\ \A n \in 1..N : g[n] = step[n][g[n - 1]]

LEMMA RecursionExists ==
  ASSUME NEW N \in Nat, NEW S, NEW start \in S, NEW step \in [1..N -> [S -> S]]
  PROVE  \E g : IsRecursion(g, N, S, start, step)
<1> DEFINE T == {n \in 0..N : \E g \in [0..n -> S] :
                    g[0] = start /\ \A i \in 1..n : g[i] = step[i][g[i - 1]]}
<1>1. 0 \in T
  <2>1. PICK g : g = [i \in 0..0 |-> start]
    OBVIOUS
  <2>2. g \in [0..0 -> S] /\ g[0] = start /\ \A i \in 1..0 : g[i] = step[i][g[i - 1]]
    BY <2>1
  <2>3. 0 \in 0..N
    OBVIOUS
  <2>4. QED BY <2>2, <2>3
<1>2. ASSUME NEW n \in 0..N - 1, n \in T PROVE n + 1 \in T
  <2>1. PICK g \in [0..n -> S] :
               g[0] = start /\ \A i \in 1..n : g[i] = step[i][g[i - 1]]
    BY <1>2
  <2>2. n + 1 \in 1..N /\ n \in 0..n
    OBVIOUS
  <2>3. step[n + 1] \in [S -> S] /\ g[n] \in S
    BY <2>1, <2>2
  <2> DEFINE h == [i \in 0..n + 1 |-> IF i = n + 1 THEN step[n + 1][g[n]] ELSE g[i]]
  <2>4. ASSUME NEW i \in 0..n + 1 PROVE h[i] \in S
    <3>1. CASE i = n + 1
      BY <2>3, <3>1
    <3>2. CASE i # n + 1
      <4>1. i \in 0..n
        BY <3>2
      <4>2. QED BY <2>1, <3>2, <4>1
    <3>3. QED BY <3>1, <3>2
  <2>5. h \in [0..n + 1 -> S]
    BY <2>4
  <2>6. h[0] = start
    BY <2>1
  <2>7. ASSUME NEW i \in 1..n + 1 PROVE h[i] = step[i][h[i - 1]]
    <3>1. i - 1 \in 0..n /\ i - 1 # n + 1 /\ i \in 0..n + 1 /\ i - 1 \in 0..n + 1
      OBVIOUS
    <3>2. h[i - 1] = g[i - 1]
      BY <3>1
    <3>3. CASE i = n + 1
      BY <3>2, <3>3
    <3>4. CASE i # n + 1
      <4>1. i \in 1..n
        BY <3>4
      <4>2. QED BY <2>1, <3>1, <3>2, <3>4, <4>1
    <3>5. QED BY <3>3, <3>4
  <2> HIDE DEF h
  <2>8. n + 1 \in 0..N
    OBVIOUS
  <2>9. QED BY <2>5, <2>6, <2>7, <2>8
<1> HIDE DEF T
<1>3. N \in T
  <2>1. \A n \in 0..N : n \in T
    BY <1>1, <1>2, InductionUpTo
  <2>2. QED BY <2>1
<1>4. QED BY <1>3 DEF T, IsRecursion

LEMMA RecursionUnique ==
  ASSUME NEW N \in Nat, NEW g, NEW h,
         g[0] = h[0],
         \A n \in 1..N : g[n - 1] = h[n - 1] => g[n] = h[n]
  PROVE  \A n \in 0..N : g[n] = h[n]
<1> DEFINE T == {n \in 0..N : g[n] = h[n]}
<1>1. 0 \in T
  OBVIOUS
<1>2. ASSUME NEW n \in 0..N - 1, n \in T PROVE n + 1 \in T
  <2>1. n + 1 \in 1..N /\ n + 1 \in 0..N /\ (n + 1) - 1 = n
    OBVIOUS
  <2>2. QED BY <1>2, <2>1
<1> HIDE DEF T
<1>3. \A n \in 0..N : n \in T
  BY <1>1, <1>2, InductionUpTo
<1>4. QED BY <1>3 DEF T
=============================================================================
