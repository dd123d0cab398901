------------------------------ MODULE Induction ------------------------------
(***************************************************************************)
(* Induction and recursion over the natural numbers in a form whose        *)
(* parameters are sets and functions only: the induction rules of the      *)
(* library take an operator, which the provers at hand cannot instantiate. *)
(* The other proof modules cite these facts.                               *)
(***************************************************************************)
EXTENDS Integers, WellFoundedInduction, TLAPS

Less == {p \in Nat \X Nat : p[1] < p[2]}

(* The order of the natural numbers is well-founded.                       *)
LEMMA LessWellFounded == IsWellFoundedOn(Less, Nat)
<1>1. OpToRel(<, Nat) = Less
  BY DEF OpToRel, Less
<1>2. QED
  BY <1>1, NatLessThanWellFounded

(* A set that has 0, and with each number its successor, has every natural *)
(* number: there is no least one outside it.                               *)
LEMMA SetInduction ==
  ASSUME NEW T, 0 \in T, \A n \in Nat : n \in T => n + 1 \in T
  PROVE  Nat \subseteq T
<1> SUFFICES ASSUME Nat \ T # {} PROVE FALSE
  OBVIOUS
<1>1. PICK x \in Nat \ T : \A y \in Nat \ T : ~ (<<y, x>> \in Less)
  BY LessWellFounded, WFMin
<1>2. x - 1 \in Nat /\ x - 1 < x /\ (x - 1) + 1 = x
  OBVIOUS
<1>3. <<x - 1, x>> \in Less
  BY <1>2 DEF Less
<1>4. x - 1 \in T
  BY <1>1, <1>2, <1>3
<1>5. QED
  BY <1>1, <1>2, <1>4

(* The same up to a bound.                                                 *)
LEMMA IntervalInduction ==
  ASSUME NEW n \in Nat, NEW T, 0 \in T, \A k \in 0 .. n - 1 : k \in T => k + 1 \in T
  PROVE  0 .. n \subseteq T
<1> DEFINE U == {k \in Nat : k <= n => k \in T}
<1>1. 0 \in U
  OBVIOUS
<1>2. ASSUME NEW k \in Nat, k \in U PROVE k + 1 \in U
  <2> SUFFICES ASSUME k + 1 <= n PROVE k + 1 \in T
    OBVIOUS
  <2>1. k \in T /\ k \in 0 .. n - 1
    BY <1>2
  <2>2. QED
    BY <2>1
<1> HIDE DEF U
<1>3. Nat \subseteq U
  BY <1>1, <1>2, SetInduction
<1>4. QED
  BY <1>3 DEF U

\* f follows the recursion that starts with base and goes on with step up to n
Follows(f, n, base, step) ==
  /\ f[0] = base
  /\ \A k \in 1 .. n : f[k] = step[<<k, f[k - 1]>>]

(* A recursion whose step stays in S has a solution as far as it is asked. *)
LEMMA RecursionExists ==
  ASSUME NEW n \in Nat, NEW S, NEW base \in S, NEW step \in [(1 .. n) \X S -> S]
  PROVE  \E f \in [0 .. n -> S] : Follows(f, n, base, step)
<1> DEFINE T == {m \in Nat : m <= n => \E f \in [0 .. m -> S] : Follows(f, m, base, step)}
<1>1. 0 \in T
  <2>1. [k \in 0 .. 0 |-> base] \in [0 .. 0 -> S] /\ Follows([k \in 0 .. 0 |-> base], 0, base, step)
    BY DEF Follows
  <2>2. QED
    BY <2>1
<1>2. ASSUME NEW m \in Nat, m \in T PROVE m + 1 \in T
  <2> SUFFICES ASSUME m + 1 <= n
               PROVE  \E f \in [0 .. m + 1 -> S] : Follows(f, m + 1, base, step)
    OBVIOUS
  <2>1. PICK f \in [0 .. m -> S] : Follows(f, m, base, step)
    BY <1>2
  <2> DEFINE v == step[<<m + 1, f[m]>>]
             g == [k \in 0 .. m + 1 |-> IF k = m + 1 THEN v ELSE f[k]]
  <2>2. v \in S
    <3>1. f[m] \in S /\ m + 1 \in 1 .. n
      BY <2>1
    <3>2. QED
      BY <3>1
  <2> HIDE DEF v
  <2>3. g \in [0 .. m + 1 -> S]
    BY <2>1, <2>2
  <2>4. g[0] = base
    BY <2>1 DEF Follows
  <2>5. ASSUME NEW k \in 1 .. m + 1 PROVE g[k] = step[<<k, g[k - 1]>>]
    <3>1. CASE k = m + 1
      <4>1. g[k] = v /\ g[k - 1] = f[m] /\ k - 1 = m
        BY <3>1
      <4>2. QED
        BY <3>1, <4>1 DEF v
    <3>2. CASE k # m + 1
      <4>1. k \in 1 .. m /\ g[k] = f[k] /\ g[k - 1] = f[k - 1]
        BY <3>2
      <4>2. QED
        BY <2>1, <4>1 DEF Follows
    <3>3. QED
      BY <3>1, <3>2
  <2>6. QED
    BY <2>3, <2>4, <2>5 DEF Follows
<1> HIDE DEF T
<1>3. Nat \subseteq T
  BY <1>1, <1>2, SetInduction
<1>4. QED
  BY <1>3 DEF T

(* Running sums exist.                                                     *)
LEMMA SumExists ==
  ASSUME NEW n \in Nat, NEW a \in [1 .. n -> Nat]
  PROVE  \E f : f = [k \in 0 .. n |-> IF k = 0 THEN 0 ELSE f[k - 1] + a[k]]
<1> DEFINE add == [p \in (1 .. n) \X Nat |-> p[2] + a[p[1]]]
<1>1. add \in [(1 .. n) \X Nat -> Nat]
  OBVIOUS
<1>2. PICK f \in [0 .. n -> Nat] : Follows(f, n, 0, add)
  <2> HIDE DEF add
  <2>1. QED
    BY <1>1, RecursionExists
<1>3. ASSUME NEW k \in 1 .. n PROVE f[k] = f[k - 1] + a[k]
  <2>1. f[k - 1] \in Nat
    OBVIOUS
  <2>2. add[<<k, f[k - 1]>>] = f[k - 1] + a[k]
    BY <2>1
  <2>3. QED
    BY <1>2, <2>2 DEF Follows
<1>4. f[0] = 0
  BY <1>2 DEF Follows
<1>5. f = [k \in 0 .. n |-> IF k = 0 THEN 0 ELSE f[k - 1] + a[k]]
  BY <1>3, <1>4
<1>6. QED
  BY <1>5

(* Running sums are natural numbers, and each adds one summand.            *)
LEMMA SumTyped ==
  ASSUME NEW n \in Nat, NEW a \in [1 .. n -> Nat],
         NEW f, \A k \in 0 .. n : f[k] = IF k = 0 THEN 0 ELSE f[k - 1] + a[k]
  PROVE  /\ f[0] = 0
         /\ \A k \in 1 .. n : f[k] = f[k - 1] + a[k]
         /\ \A k \in 0 .. n : f[k] \in Nat
<1>1. f[0] = 0 /\ \A k \in 1 .. n : f[k] = f[k - 1] + a[k]
  OBVIOUS
<1> DEFINE T == {k \in 0 .. n : f[k] \in Nat}
<1>2. 0 .. n \subseteq T
  <2>1. 0 \in T
    BY <1>1
  <2>2. ASSUME NEW k \in 0 .. n - 1, k \in T PROVE k + 1 \in T
    <3>1. k + 1 \in 1 .. n /\ (k + 1) - 1 = k
      OBVIOUS
    <3>2. f[k + 1] = f[k] + a[k + 1] /\ a[k + 1] \in Nat
      BY <1>1, <3>1
    <3>3. QED
      BY <2>2, <3>1, <3>2
  <2> HIDE DEF T
  <2>3. QED
    BY <2>1, <2>2, IntervalInduction
<1>3. QED
  BY <1>1, <1>2

\* f[k] is the sum of the first k summands of a, up to the n-th
SumsUp(f, a, n) ==
  /\ f[0] = 0
  /\ \A k \in 1 .. n : f[k] = f[k - 1] + a[k]
  /\ \A k \in 0 .. n : f[k] \in Nat

(* What a recursive definition of running sums defines.                    *)
LEMMA RunningSum ==
  ASSUME NEW n \in Nat, NEW a, \A k \in 1 .. n : a[k] \in Nat,
         NEW f, f = CHOOSE g : g = [k \in 0 .. n |-> IF k = 0 THEN 0 ELSE g[k - 1] + a[k]]
  PROVE  SumsUp(f, a, n)
<1>1. \E g : g = [k \in 0 .. n |-> IF k = 0 THEN 0 ELSE g[k - 1] + a[k]]
  <2>1. PICK b \in [1 .. n -> Nat] : \A k \in 1 .. n : b[k] = a[k]
    <3>1. [k \in 1 .. n |-> a[k]] \in [1 .. n -> Nat]
      OBVIOUS
    <3>2. QED
      BY <3>1
  <2>2. PICK g : g = [k \in 0 .. n |-> IF k = 0 THEN 0 ELSE g[k - 1] + b[k]]
    BY SumExists
  <2>3. g = [k \in 0 .. n |-> IF k = 0 THEN 0 ELSE g[k - 1] + a[k]]
    BY <2>1, <2>2
  <2>4. QED
    BY <2>3
<1>2. f = [k \in 0 .. n |-> IF k = 0 THEN 0 ELSE f[k - 1] + a[k]]
  BY <1>1, Zenon
<1>3. f[0] = 0 /\ \A k \in 1 .. n : f[k] = f[k - 1] + a[k]
  <2>1. \A k \in 0 .. n : f[k] = IF k = 0 THEN 0 ELSE f[k - 1] + a[k]
    BY <1>2, Zenon
  <2>2. QED
    BY <2>1
<1> DEFINE T == {k \in 0 .. n : f[k] \in Nat}
<1>4. 0 .. n \subseteq T
  <2>1. 0 \in T
    BY <1>3
  <2>2. ASSUME NEW k \in 0 .. n - 1, k \in T PROVE k + 1 \in T
    <3>1. k + 1 \in 1 .. n /\ (k + 1) - 1 = k /\ a[k + 1] \in Nat
      OBVIOUS
    <3>2. f[k + 1] = f[k] + a[k + 1]
      BY <1>3, <3>1
    <3>3. QED
      BY <2>2, <3>1, <3>2
  <2> HIDE DEF T
  <2>3. QED
    BY <2>1, <2>2, IntervalInduction
<1>5. QED
  BY <1>3, <1>4 DEF SumsUp
=============================================================================
