------------------------------ MODULE Recursion ------------------------------
(***************************************************************************)
(* A function defined by recursion on the natural numbers satisfies its     *)
(* equation.  Modules instantiate this one with the base and the step of a  *)
(* definition of theirs.                                                   *)
(***************************************************************************)
EXTENDS NatFacts

CONSTANTS Base, Step(_, _)

F[n \in Nat] == IF n = 0 THEN Base ELSE Step(n, F[n - 1])

\* The equation of F holds: there is a solution, since there is one on every
\* initial segment and two of them agree where both are defined.
LEMMA Def == F[0] = Base /\ \A n \in Nat : F[n + 1] = Step(n + 1, F[n])
<1> DEFINE Solves(f, n) == /\ DOMAIN f = 0..n /\ f[0] = Base
                           /\ \A m \in 1..n : f[m] = Step(m, f[m - 1])
           T == {n \in Nat : \E f : Solves(f, n)}
           A(n) == CHOOSE f : Solves(f, n)
           H == [n \in Nat |-> A(n)[n]]
<1>1. 0 \in T
  <2> DEFINE f == [m \in 0..0 |-> Base]
  <2>1. Solves(f, 0)
    OBVIOUS
  <2> QED BY <2>1
<1>2. ASSUME NEW n \in Nat, n \in T PROVE n + 1 \in T
  <2>1. PICK f : Solves(f, n)
    BY <1>2
  <2> DEFINE g == [m \in 0..(n + 1) |-> IF m <= n THEN f[m] ELSE Step(n + 1, f[n])]
  <2>2. ASSUME NEW m \in 1..(n+1) PROVE g[m] = Step(m, g[m - 1])
    <3>1. CASE m = n + 1
      BY <3>1
    <3>2. CASE m <= n
      <4>1. m \in 1..n /\ g[m] = f[m] /\ g[m - 1] = f[m - 1]
        BY <3>2
      <4> QED BY <4>1, <2>1
    <3> QED BY <3>1, <3>2
  <2>3. DOMAIN g = 0..(n + 1) /\ g[0] = Base
    BY <2>1
  <2> HIDE DEF g
  <2>4. Solves(g, n + 1)
    BY <2>2, <2>3
  <2> QED BY <2>4
<1> HIDE DEF T
<1>3. \A n \in Nat : n \in T
  BY <1>1, <1>2, Induction
<1>4. \A n \in Nat : Solves(A(n), n)
  <2> SUFFICES ASSUME NEW n \in Nat PROVE Solves(A(n), n)
    OBVIOUS
  <2>1. PICK f : Solves(f, n)
    BY <1>3 DEF T
  <2> HIDE DEF Solves
  <2> QED BY <2>1
<1> HIDE DEF A
<1>5. ASSUME NEW n \in Nat PROVE A(n + 1)[n] = A(n)[n]
  <2> DEFINE E == {m \in Nat : m <= n => A(n + 1)[m] = A(n)[m]}
  <2>1. 0 \in E
    BY <1>4, n + 1 \in Nat
  <2>2. ASSUME NEW m \in Nat, m \in E PROVE m + 1 \in E
    <3> SUFFICES ASSUME m + 1 <= n PROVE A(n + 1)[m + 1] = A(n)[m + 1]
      OBVIOUS
    <3>1. A(n + 1)[m] = A(n)[m] /\ m + 1 \in 1..n /\ m + 1 \in 1..(n + 1) /\ (m + 1) - 1 = m
      BY <2>2
    <3>2. A(n + 1)[m + 1] = Step(m + 1, A(n + 1)[m])
      BY <3>1, <1>4, n + 1 \in Nat
    <3>3. A(n)[m + 1] = Step(m + 1, A(n)[m])
      BY <3>1, <1>4
    <3> QED BY <3>1, <3>2, <3>3
  <2> HIDE DEF E
  <2>3. n \in E
    BY <2>1, <2>2, Induction
  <2> QED BY <2>3 DEF E
<1>6. H[0] = Base
  BY <1>4
<1>7. ASSUME NEW n \in Nat PROVE H[n + 1] = Step(n + 1, H[n])
  <2>1. n + 1 \in Nat /\ n + 1 \in 1..(n + 1) /\ (n + 1) - 1 = n
    OBVIOUS
  <2>2. H[n + 1] = A(n + 1)[n + 1] /\ H[n] = A(n)[n]
    BY <2>1
  <2>3. A(n + 1)[n + 1] = Step(n + 1, A(n + 1)[n])
    BY <2>1, <1>4
  <2> QED BY <2>2, <2>3, <1>5
<1>8. H = [n \in Nat |-> IF n = 0 THEN Base ELSE Step(n, H[n - 1])]
  <2> HIDE DEF H
  <2>1. ASSUME NEW n \in Nat PROVE H[n] = IF n = 0 THEN Base ELSE Step(n, H[n - 1])
    <3>1. CASE n = 0
      BY <3>1, <1>6
    <3>2. CASE n # 0
      <4>1. n - 1 \in Nat /\ (n - 1) + 1 = n
        BY <3>2
      <4>2. H[(n - 1) + 1] = Step((n - 1) + 1, H[n - 1])
        BY <1>7, <4>1
      <4> QED BY <3>2, <4>1, <4>2
    <3> QED BY <3>1, <3>2
  <2>2. H = [n \in Nat |-> H[n]]
    BY DEF H
  <2> QED BY <2>1, <2>2
<1> DEFINE P(f) == f = [n \in Nat |-> IF n = 0 THEN Base ELSE Step(n, f[n - 1])]
<1>9. P(H)
  BY <1>8
<1>10. P(F)
  <2> HIDE DEF P, H
  <2>1. P(CHOOSE f : P(f))
    BY <1>9
  <2>2. F = CHOOSE f : P(f)
    BY DEF F, P
  <2> QED BY <2>1, <2>2
<1>11. F[0] = Base
  BY <1>10
<1>12. ASSUME NEW n \in Nat PROVE F[n + 1] = Step(n + 1, F[n])
  BY <1>10, n + 1 \in Nat, n + 1 # 0, (n + 1) - 1 = n
<1> QED BY <1>11, <1>12
=============================================================================
