-------------------------- MODULE RecursionLemmas --------------------------
(* Induction and recursion over data, in the form in which the proofs of   *)
(* the other modules can cite them: about sets and functions, no operator  *)
(* parameters.                                                             *)
EXTENDS Integers, WellFoundedInduction, TLAPS

\* A set of natural numbers that is not empty has a least member.
LEMMA LeastNat ==
    ASSUME NEW T \in SUBSET Nat, T # {}
    PROVE  \E x \in T : \A y \in T : x <= y
<1> DEFINE R == OpToRel(<, Nat)
<1>1. IsWellFoundedOn(R, Nat)
  BY NatLessThanWellFounded
<1>2. \A x, y \in Nat : x < y => <<x, y>> \in R
  BY DEF OpToRel
<1> HIDE DEF R
<1>3. PICK x \in T : \A y \in T : ~ (<<y, x>> \in R)
  BY <1>1, WFMin
<1>4. \A y \in T : ~ (y < x)
  BY <1>2, <1>3
<1> QED
  BY <1>3, <1>4

\* Induction: what holds of 0 and of the successor of each number up to N that
\* it holds of, holds of all numbers up to N.
LEMMA SetInduction ==
    ASSUME NEW N \in Nat, NEW T, 0 \in T,
           \A n \in 0 .. N - 1 : n \in T => n + 1 \in T
    PROVE  0 .. N \subseteq T
<1> SUFFICES ASSUME NEW k \in 0 .. N, k \notin T PROVE FALSE
  OBVIOUS
<1> DEFINE B == {n \in 0 .. N : n \notin T}
<1>0. B \in SUBSET Nat /\ B # {}
  OBVIOUS
<1>1. PICK x \in B : \A y \in B : x <= y
  BY <1>0, LeastNat
<1>2. x # 0
  BY <1>1
<1>3. x - 1 \in 0 .. N - 1 /\ x - 1 \in T
  BY <1>1, <1>2
<1> QED
  BY <1>1, <1>3

\* A step that takes the value at n from the values below n.
LooksBelow(N, D, step) ==
    \A n \in 0 .. N : \A g, h \in D :
      (\A m \in 0 .. n - 1 : g[m] = h[m]) => step[n][g] = step[n][h]

Solvable(N, D, step) == \E f \in D : \A n \in 0 .. N : f[n] = step[n][f]

\* Recursion: such a step defines a function on 0 .. N.
LEMMA CourseOfValues ==
    ASSUME NEW N \in Nat, NEW S, NEW any \in S,
           NEW step \in [0 .. N -> [[0 .. N -> S] -> S]],
           LooksBelow(N, [0 .. N -> S], step)
    PROVE  Solvable(N, [0 .. N -> S], step)
<1> DEFINE D == [0 .. N -> S]
<1> DEFINE Good(f, k) == \A n \in 0 .. k - 1 : f[n] = step[n][f]
<1> DEFINE T == {k \in 0 .. N + 1 : \E f \in D : Good(f, k)}
<1>1. 0 \in T
  <2> DEFINE g == [n \in 0 .. N |-> any]
  <2>1. g \in D /\ Good(g, 0)
    OBVIOUS
  <2> HIDE DEF g, Good
  <2> QED
    BY <2>1
<1>2. ASSUME NEW k \in 0 .. N, k \in T PROVE k + 1 \in T
  <2>1. PICK f \in D : Good(f, k)
    BY <1>2
  <2> DEFINE g == [n \in 0 .. N |-> IF n = k THEN step[k][f] ELSE f[n]]
  <2>2. step[k][f] \in S
    <3>1. step[k] \in [D -> S]
      OBVIOUS
    <3> QED
      BY <3>1
  <2>3. g \in D /\ g[k] = step[k][f] /\ \A n \in 0 .. k - 1 : g[n] = f[n]
    BY <2>2
  <2> HIDE DEF g
  <2>4. ASSUME NEW n \in 0 .. k PROVE step[n][g] = step[n][f]
    <3>1. \A m \in 0 .. n - 1 : g[m] = f[m]
      BY <2>3
    <3>2. n \in 0 .. N /\ g \in D
      BY <2>3
    <3> QED
      BY <3>1, <3>2, Zenon DEF LooksBelow
  <2>5. Good(g, k + 1)
    <3> SUFFICES ASSUME NEW n \in 0 .. k PROVE g[n] = step[n][g]
      OBVIOUS
    <3>1. CASE n = k
      <4>1. g[n] = step[n][f]
        BY <2>3, <3>1
      <4> QED
        BY <2>4, <4>1
    <3>2. CASE n \in 0 .. k - 1
      BY <2>1, <2>3, <2>4, <3>2
    <3> QED
      BY <3>1, <3>2
  <2> HIDE DEF Good
  <2> QED
    BY <2>3, <2>5
<1> HIDE DEF T
<1>3. N + 1 \in T
  <2>1. \A n \in 0 .. (N + 1) - 1 : n \in T => n + 1 \in T
    BY <1>2
  <2>2. 0 .. N + 1 \subseteq T
    <3>1. N + 1 \in Nat
      OBVIOUS
    <3> QED
      BY <1>1, <2>1, <3>1, SetInduction, Zenon
  <2> QED
    BY <2>2
<1>4. PICK f \in D : Good(f, N + 1)
  BY <1>3 DEF T
<1> QED
  BY <1>4 DEF Solvable

\* The same from the other end: a step that takes the value at n from those above.
LooksAbove(N, D, step) ==
    \A n \in 1 .. N + 1 : \A g, h \in D :
      (\A m \in n + 1 .. N + 1 : g[m] = h[m]) => step[n][g] = step[n][h]

SolvableFrom1(N, D, step) == \E f \in D : \A n \in 1 .. N + 1 : f[n] = step[n][f]

\* Such a step has a solution: the one CourseOfValues gives for the step read backwards.
LEMMA CourseFromEnd ==
    ASSUME NEW N \in Nat, NEW S, NEW any \in S,
           NEW step \in [1 .. N + 1 -> [[1 .. N + 1 -> S] -> S]],
           LooksAbove(N, [1 .. N + 1 -> S], step)
    PROVE  SolvableFrom1(N, [1 .. N + 1 -> S], step)
<1> DEFINE D == [0 .. N -> S]
           E == [1 .. N + 1 -> S]
           Flip(g) == [m \in 1 .. N + 1 |-> g[N + 1 - m]]
           back == [n \in 0 .. N |-> [g \in D |-> step[N + 1 - n][Flip(g)]]]
<1>1. \A g \in D : Flip(g) \in E /\ \A m \in 1 .. N + 1 : Flip(g)[m] = g[N + 1 - m]
  OBVIOUS
<1> HIDE DEF Flip
<1>2. \A n \in 0 .. N : N + 1 - n \in 1 .. N + 1 /\ step[N + 1 - n] \in [E -> S]
  <2>1. \A n \in 0 .. N : N + 1 - n \in 1 .. N + 1
    OBVIOUS
  <2>2. \A i \in 1 .. N + 1 : step[i] \in [E -> S]
    OBVIOUS
  <2> QED
    BY <2>1, <2>2, Zenon
<1>3. back \in [0 .. N -> [D -> S]]
  BY <1>1, <1>2
<1>4. \A n \in 0 .. N : \A g \in D : back[n][g] = step[N + 1 - n][Flip(g)]
  OBVIOUS
<1> HIDE DEF back
<1>5. LooksBelow(N, D, back)
  <2> SUFFICES ASSUME NEW n \in 0 .. N, NEW g \in D, NEW h \in D,
                      \A m \in 0 .. n - 1 : g[m] = h[m]
               PROVE  back[n][g] = back[n][h]
    BY DEF LooksBelow
  <2>1. \A m \in (N + 1 - n) + 1 .. N + 1 : Flip(g)[m] = Flip(h)[m]
    BY <1>1
  <2>2. N + 1 - n \in 1 .. N + 1 /\ Flip(g) \in E /\ Flip(h) \in E
    BY <1>1
  <2>3. step[N + 1 - n][Flip(g)] = step[N + 1 - n][Flip(h)]
    BY <2>1, <2>2, Zenon DEF LooksAbove
  <2> QED
    BY <1>4, <2>3, Zenon
<1>6. Solvable(N, D, back)
  BY <1>3, <1>5, CourseOfValues, Zenon
<1>7. PICK g \in D : \A n \in 0 .. N : g[n] = back[n][g]
  BY <1>6 DEF Solvable
<1>8. ASSUME NEW n \in 1 .. N + 1 PROVE Flip(g)[n] = step[n][Flip(g)]
  <2>1. N + 1 - n \in 0 .. N /\ N + 1 - (N + 1 - n) = n
    OBVIOUS
  <2>2. Flip(g)[n] = g[N + 1 - n] /\ g[N + 1 - n] = step[N + 1 - (N + 1 - n)][Flip(g)]
    BY <1>1, <1>4, <1>7, <2>1
  <2> QED
    BY <2>1, <2>2
<1> QED
  BY <1>1, <1>8 DEF SolvableFrom1

\* Induction from the other end.
LEMMA SetInductionFromEnd ==
    ASSUME NEW N \in Nat, NEW T, N + 1 \in T,
           \A n \in 1 .. N : n + 1 \in T => n \in T
    PROVE  1 .. N + 1 \subseteq T
<1> DEFINE U == {k \in 0 .. N : N + 1 - k \in T}
<1>1. 0 \in U
  <2>1. N + 1 - 0 = N + 1 /\ 0 \in 0 .. N
    OBVIOUS
  <2>2. N + 1 - 0 \in T
    BY <2>1
  <2> QED
    BY <2>1, <2>2
<1>2. \A k \in 0 .. N - 1 : k \in U => k + 1 \in U
  <2> TAKE k \in 0 .. N - 1
  <2> HAVE k \in U
  <2>1. N - k \in 1 .. N /\ (N - k) + 1 \in T /\ N - k = N + 1 - (k + 1) /\ k + 1 \in 0 .. N
    OBVIOUS
  <2> QED
    BY <2>1
<1> HIDE DEF U
<1>3. 0 .. N \subseteq U
  BY <1>1, <1>2, SetInduction
<1>4. ASSUME NEW n \in 1 .. N + 1 PROVE n \in T
  <2>1. N + 1 - n \in U
    BY <1>3
  <2>2. N + 1 - (N + 1 - n) = n
    OBVIOUS
  <2> QED
    BY <2>1, <2>2 DEF U
<1> QED
  BY <1>4
=============================================================================
