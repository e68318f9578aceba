---------------------------- MODULE TarjanProofs ----------------------------
(***************************************************************************)
(* The incremental consistency test is right for any number of clocks and  *)
(* any bounds: its verdict is exact, its queue never misses a vertex, and  *)
(* it ends within the promised number of scans.                            *)
(***************************************************************************)
EXTENDS Tarjan, NatFacts, SequenceTheorems, FiniteSetTheorems

-----------------------------------------------------------------------------
(* Distances.                                                              *)

Dist == [value : Int, strictness : Nat]

\* Half of a raw bound and its strictness, as far as the proofs need them.
LEMMA RawBound == ASSUME NEW c \in Int PROVE c \div 2 \in Int /\ 1 - (c % 2) \in {0, 1}
  OBVIOUS

\* A raw bound can be added to a distance.
LEMMA AddType == ASSUME NEW d \in Dist, NEW c \in Int PROVE Add(d, c) \in Dist
<1>1. c \div 2 \in Int /\ 1 - (c % 2) \in {0, 1}
  BY RawBound
<1>2. d.value + (c \div 2) \in Int /\ d.strictness + 1 - (c % 2) \in Nat
  BY <1>1 DEF Dist
<1> QED BY <1>2 DEF Add, Dist

\* The order of distances is total ...
LEMMA LessTotal == ASSUME NEW a \in Dist, NEW b \in Dist PROVE Less(a, b) \/ a = b \/ Less(b, a)
  BY DEF Less, Dist

\* ... irreflexive and transitive ...
LEMMA LessOrder ==
    ASSUME NEW a \in Dist, NEW b \in Dist, NEW c \in Dist
    PROVE  /\ ~Less(a, a)
           /\ Less(a, b) /\ Less(b, c) => Less(a, c)
           /\ Less(a, b) /\ ~Less(c, b) => Less(a, c)
           /\ ~Less(b, a) /\ Less(b, c) => Less(a, c)
           /\ ~Less(b, a) /\ ~Less(c, b) => ~Less(c, a)
  BY DEF Less, Dist

\* ... and adding a bound keeps it.
LEMMA LessAdd ==
    ASSUME NEW a \in Dist, NEW b \in Dist, NEW c \in Int
    PROVE  Less(Add(a, c), Add(b, c)) <=> Less(a, b)
<1>1. c \div 2 \in Int /\ 1 - (c % 2) \in {0, 1}
  BY RawBound
<1> QED BY <1>1 DEF Less, Add, Dist

-----------------------------------------------------------------------------
(* Forests and queues.                                                     *)

\* Below is closed under children, and the least such set.
LEMMA BelowClosed ==
    ASSUME NEW P, NEW r, NEW x \in V, P[x] = r \/ P[x] \in Below(P, r)
    PROVE  x \in Below(P, r)
  BY DEF Below

\* It is contained in every set with that closure.
LEMMA BelowLeast ==
    ASSUME NEW P, NEW r, NEW S \in SUBSET V, \A x \in V : P[x] = r \/ P[x] \in S => x \in S
    PROVE  Below(P, r) \subseteq S
  BY DEF Below

\* What Keep keeps: the function it is computed with, step by step.
KeepSteps(s, S, f) == /\ f[0] = <<>>
                      /\ \A n \in 1..Len(s) : f[n] = IF s[n] \in S THEN Append(f[n - 1], s[n]) ELSE f[n - 1]

\* There is such a function, and Keep is its last value.
LEMMA KeepDef ==
    ASSUME NEW A, NEW s \in Seq(A), NEW S
    PROVE  \E f \in [0..Len(s) -> Seq(A)] : KeepSteps(s, S, f) /\ Keep(s, S) = f[Len(s)]
<1> DEFINE X == Seq(A)
           N == Len(s)
           step == [n \in 1..N |-> [x \in X |-> IF s[n] \in S THEN Append(x, s[n]) ELSE x]]
           e == <<>>
<1>1. N \in Nat /\ e \in X
  OBVIOUS
<1>2. step \in Steps(N, X)
  <2>1. ASSUME NEW n \in 1..N, NEW x \in X PROVE (IF s[n] \in S THEN Append(x, s[n]) ELSE x) \in X
    <3>1. s[n] \in A
      BY ElementOfSeq
    <3> QED BY <3>1, AppendProperties
  <2> QED BY <2>1 DEF Steps
<1>3. PICK g \in [0..N -> X] : g[0] = e /\ \A n \in 1..N : g[n] = step[n][g[n - 1]]
  <2> HIDE DEF step, X, N, e
  <2>1. \E g : Iterates(g, N, X, e, step)
    BY <1>1, <1>2, Iteration, Zenon
  <2> QED BY <2>1 DEF Iterates
<1>4. \A n \in 1..N : g[n] = IF s[n] \in S THEN Append(g[n - 1], s[n]) ELSE g[n - 1]
  <2> TAKE n \in 1..N
  <2>1. g[n - 1] \in X
    OBVIOUS
  <2> QED BY <1>3, <2>1
<1> DEFINE Rhs(f) == [n \in 0..Len(s) |-> IF n = 0 THEN <<>>
                              ELSE IF s[n] \in S THEN Append(f[n - 1], s[n]) ELSE f[n - 1]]
           F == CHOOSE f : f = Rhs(f)
<1>5. g = Rhs(g)
  <2>1. ASSUME NEW n \in 0..N PROVE g[n] = Rhs(g)[n]
    <3>1. CASE n = 0
      BY <1>3, <3>1
    <3>2. CASE n # 0
      <4>1. n \in 1..N
        BY <3>2
      <4>2. Rhs(g)[n] = IF s[n] \in S THEN Append(g[n - 1], s[n]) ELSE g[n - 1]
        BY <3>2
      <4> QED BY <1>4, <4>1, <4>2
    <3> QED BY <3>1, <3>2
  <2>2. g = [n \in 0..N |-> g[n]] /\ Rhs(g) = [n \in 0..N |-> Rhs(g)[n]]
    BY Zenon
  <2> HIDE DEF Rhs
  <2> QED BY <2>1, <2>2, Zenon
<1>6. F = Rhs(F)
  <2> HIDE DEF Rhs
  <2> QED BY <1>5, Zenon
<1>7. Keep(s, S) = F[N]
  BY Zenon DEF Keep
<1>8. \A n \in 0..N : F[n] = IF n = 0 THEN e ELSE IF s[n] \in S THEN Append(F[n - 1], s[n]) ELSE F[n - 1]
  <2> HIDE DEF F
  <2> QED BY <1>6
<1> HIDE DEF F
<1>9. \A n \in Nat : n \in {m \in Nat : m <= N => F[m] = g[m]}
  <2> DEFINE T == {m \in Nat : m <= N => F[m] = g[m]}
  <2>1. 0 \in T
    BY <1>1, <1>3, <1>8
  <2>2. ASSUME NEW n \in Nat, n \in T PROVE n + 1 \in T
    <3> SUFFICES ASSUME n + 1 <= N PROVE F[n + 1] = g[n + 1]
      OBVIOUS
    <3>1. F[n] = g[n] /\ n + 1 \in 1..N /\ n + 1 \in 0..N /\ n + 1 # 0 /\ (n + 1) - 1 = n
      BY <2>2, <1>1
    <3> QED BY <3>1, <1>4, <1>8
  <2> HIDE DEF T
  <2> QED BY <2>1, <2>2, Induction DEF T
<1>10. Keep(s, S) = g[N]
  BY <1>1, <1>7, <1>9
<1> QED BY <1>3, <1>4, <1>10 DEF KeepSteps

\* Keep is a sequence of the elements of s that are in S, without new repetitions.
LEMMA KeepElements ==
    ASSUME NEW A, NEW s \in Seq(A), NEW S
    PROVE  /\ Keep(s, S) \in Seq(A)
           /\ ToSet(Keep(s, S)) = ToSet(s) \cap S
           /\ IsInjective(s) => IsInjective(Keep(s, S))
<1>1. PICK f \in [0..Len(s) -> Seq(A)] : KeepSteps(s, S, f) /\ Keep(s, S) = f[Len(s)]
  BY KeepDef
<1> DEFINE Elems(n) == \A x : (\E i \in 1..Len(f[n]) : f[n][i] = x) <=> (\E j \in 1..n : s[j] = x /\ x \in S)
           Inj(n) == IsInjective(s) => \A a, b \in 1..Len(f[n]) : f[n][a] = f[n][b] => a = b
           T == {n \in Nat : n <= Len(s) => Elems(n) /\ Inj(n)}
<1>2. 0 \in T
  BY <1>1 DEF KeepSteps
<1>3. ASSUME NEW n \in Nat, n \in T PROVE n + 1 \in T
  <2> SUFFICES ASSUME n + 1 <= Len(s) PROVE Elems(n + 1) /\ Inj(n + 1)
    OBVIOUS
  <2>1. n \in 0..Len(s) /\ n + 1 \in 1..Len(s) /\ (n + 1) - 1 = n
    OBVIOUS
  <2>2. f[n] \in Seq(A) /\ s[n + 1] \in A /\ Elems(n) /\ Inj(n)
    BY <1>3, <2>1, ElementOfSeq
  <2>3. CASE s[n + 1] \notin S
    <3>1. f[n + 1] = f[n]
      BY <1>1, <2>1, <2>3 DEF KeepSteps
    <3>2. Elems(n + 1)
      BY <3>1, <2>2, <2>3
    <3> QED BY <3>1, <3>2, <2>2
  <2>4. CASE s[n + 1] \in S
    <3> DEFINE e == s[n + 1]
               g == f[n]
    <3>1. f[n + 1] = Append(g, e)
      BY <1>1, <2>1, <2>4 DEF KeepSteps
    <3>2. Len(f[n + 1]) = Len(g) + 1 /\ Len(g) \in Nat /\ f[n + 1][Len(g) + 1] = e /\ \A i \in 1..Len(g) : f[n + 1][i] = g[i]
      BY <3>1, <2>2, AppendProperties
    <3>3. Elems(n + 1)
      <4> TAKE x
      <4>1. (\E i \in 1..Len(f[n + 1]) : f[n + 1][i] = x) <=> (x = e \/ \E i \in 1..Len(g) : g[i] = x)
        <5> DEFINE h == f[n + 1]
        <5> HIDE DEF e, g, h
        <5>1. Len(h) = Len(g) + 1 /\ Len(g) \in Nat /\ h[Len(g) + 1] = e /\ \A i \in 1..Len(g) : h[i] = g[i]
          BY <3>2 DEF h
        <5>2. \A i \in 1..Len(h) : i \in 1..Len(g) \/ i = Len(g) + 1
          BY <5>1
        <5>3. Len(g) + 1 \in 1..Len(h) /\ \A i \in 1..Len(g) : i \in 1..Len(h)
          BY <5>1
        <5>4. (\E i \in 1..Len(h) : h[i] = x) <=> (x = e \/ \E i \in 1..Len(g) : g[i] = x)
          BY <5>1, <5>2, <5>3
        <5> QED BY <5>4 DEF h
      <4>2. (\E j \in 1..(n + 1) : s[j] = x /\ x \in S) <=> (x = e \/ \E j \in 1..n : s[j] = x /\ x \in S)
        BY <2>4
      <4> QED BY <4>1, <4>2, <2>2
    <3>4. Inj(n + 1)
      <4> SUFFICES ASSUME IsInjective(s), NEW a \in 1..(Len(g) + 1), NEW b \in 1..(Len(g) + 1), f[n + 1][a] = f[n + 1][b]
                   PROVE  a = b
        BY <3>2
      <4>1. \A i \in 1..Len(g) : g[i] # e
        <5> SUFFICES ASSUME NEW i \in 1..Len(g), g[i] = e PROVE FALSE
          OBVIOUS
        <5>1. PICK j \in 1..n : s[j] = e
          BY <2>2
        <5>2. j \in DOMAIN s /\ n + 1 \in DOMAIN s /\ j # n + 1
          BY <2>1
        <5> QED BY <5>1, <5>2 DEF IsInjective
      <4> QED BY <4>1, <3>2, <2>2
    <3> QED BY <3>3, <3>4
  <2> QED BY <2>3, <2>4
<1>4. \A n \in Nat : n \in T
  <2> HIDE DEF T
  <2> QED BY <1>2, <1>3, Induction
<1>5. Len(s) \in Nat /\ Elems(Len(s)) /\ Inj(Len(s)) /\ f[Len(s)] \in Seq(A)
  BY <1>4
<1>6. ToSet(Keep(s, S)) = ToSet(s) \cap S
  <2>1. DOMAIN Keep(s, S) = 1..Len(f[Len(s)]) /\ DOMAIN s = 1..Len(s)
    BY <1>1, <1>5
  <2>2. ASSUME NEW x PROVE x \in ToSet(Keep(s, S)) <=> x \in ToSet(s) \cap S
    <3>1. x \in ToSet(Keep(s, S)) <=> \E i \in 1..Len(f[Len(s)]) : f[Len(s)][i] = x
      BY <1>1, <2>1 DEF ToSet
    <3>2. x \in ToSet(s) \cap S <=> \E j \in 1..Len(s) : s[j] = x /\ x \in S
      BY <2>1 DEF ToSet
    <3> QED BY <3>1, <3>2, <1>5
  <2> QED BY <2>2
<1>7. IsInjective(s) => IsInjective(Keep(s, S))
  BY <1>1, <1>5 DEF IsInjective
<1> QED BY <1>1, <1>5, <1>6, <1>7

\* Keep keeps the order: what it keeps of the first q elements comes first.
InOrder(s, t, q, r) ==
    /\ r \in 0..q /\ r <= Len(t)
    /\ \A i \in 1..r : \E j \in 1..q : t[i] = s[j]
    /\ \A i \in (r + 1)..Len(t) : \E j \in (q + 1)..Len(s) : t[i] = s[j]

\* Whatever the cut q, the elements that are kept respect it.
LEMMA KeepOrder ==
    ASSUME NEW A, NEW s \in Seq(A), NEW S, NEW q \in 0..Len(s)
    PROVE  \E r : InOrder(s, Keep(s, S), q, r)
<1>1. PICK f \in [0..Len(s) -> Seq(A)] : KeepSteps(s, S, f) /\ Keep(s, S) = f[Len(s)]
  BY KeepDef
<1>2. Len(s) \in Nat /\ \A n \in 0..Len(s) : f[n] \in Seq(A) /\ Len(f[n]) \in Nat
  OBVIOUS
<1> DEFINE r == Len(f[q])
           First(n) == Len(f[n]) <= n /\ \A i \in 1..Len(f[n]) : \E j \in 1..n : f[n][i] = s[j]
           Rest(n) == /\ r <= Len(f[n]) /\ \A i \in 1..r : f[n][i] = f[q][i]
                      /\ \A i \in (r + 1)..Len(f[n]) : \E j \in (q + 1)..n : f[n][i] = s[j]
           T == {n \in Nat : n <= Len(s) => First(n) /\ (q <= n => Rest(n))}
<1>3. 0 \in T
  <2>1. First(0)
    BY <1>1 DEF KeepSteps
  <2>2. q <= 0 => Rest(0)
    BY <1>1, <1>2 DEF KeepSteps
  <2> QED BY <2>1, <2>2
<1>4. ASSUME NEW n \in Nat, n \in T PROVE n + 1 \in T
  <2> SUFFICES ASSUME n + 1 <= Len(s) PROVE First(n + 1) /\ (q <= n + 1 => Rest(n + 1))
    <3> HIDE DEF First, Rest
    <3> QED OBVIOUS
  <2>1. n \in 0..Len(s) /\ n + 1 \in 1..Len(s) /\ (n + 1) - 1 = n
    OBVIOUS
  <2> DEFINE g == f[n]
             h == f[n + 1]
  <2>2. g \in Seq(A) /\ s[n + 1] \in A /\ First(n) /\ (q <= n => Rest(n)) /\ Len(g) \in Nat /\ r \in Nat
    BY <1>2, <1>4, <2>1, ElementOfSeq
  <2>3. \/ h = g
        \/ Len(h) = Len(g) + 1 /\ h[Len(g) + 1] = s[n + 1] /\ \A i \in 1..Len(g) : h[i] = g[i]
    <3>1. h = g \/ h = Append(g, s[n + 1])
      BY <1>1, <2>1 DEF KeepSteps
    <3>2. ASSUME h = Append(g, s[n + 1])
          PROVE  Len(h) = Len(g) + 1 /\ h[Len(g) + 1] = s[n + 1] /\ \A i \in 1..Len(g) : h[i] = g[i]
      <4>1. g \in Seq(A) /\ s[n + 1] \in A
        BY <2>2
      <4> HIDE DEF g, h
      <4> QED BY <3>2, <4>1, AppendProperties
    <3> QED BY <3>1, <3>2
  <2>4. First(n + 1)
    <3> HIDE DEF g, h
    <3>1. Len(g) <= n /\ \A i \in 1..Len(g) : \E j \in 1..n : g[i] = s[j]
      BY <2>2 DEF g
    <3>2. Len(h) <= n + 1
      BY <3>1, <2>2, <2>3
    <3>3. ASSUME NEW i \in 1..Len(h) PROVE \E j \in 1..(n + 1) : h[i] = s[j]
      <4>1. CASE i \in 1..Len(g) /\ h[i] = g[i]
        BY <4>1, <3>1
      <4>2. CASE i = Len(g) + 1 /\ h[i] = s[n + 1]
        BY <4>2
      <4> QED BY <4>1, <4>2, <2>2, <2>3
    <3> QED BY <3>2, <3>3 DEF h
  <2>5. ASSUME q <= n PROVE Rest(n + 1)
    <3>1. r <= Len(g) /\ (\A i \in 1..r : g[i] = f[q][i]) /\ \A i \in (r + 1)..Len(g) : \E j \in (q + 1)..n : g[i] = s[j]
      BY <2>2, <2>5
    <3> HIDE DEF g, h, r
    <3>2. r <= Len(h) /\ (\A i \in 1..r : h[i] = f[q][i])
      BY <3>1, <2>2, <2>3
    <3>3. ASSUME NEW i \in (r + 1)..Len(h) PROVE \E j \in (q + 1)..(n + 1) : h[i] = s[j]
      <4>1. CASE i \in (r + 1)..Len(g) /\ h[i] = g[i]
        BY <4>1, <3>1
      <4>2. CASE i = Len(g) + 1 /\ h[i] = s[n + 1]
        BY <4>2, <2>5
      <4> QED BY <4>1, <4>2, <2>2, <2>3
    <3> QED BY <3>2, <3>3 DEF h, r
  <2>6. ASSUME q = n + 1 PROVE Rest(n + 1)
    BY <2>6, <1>2, <2>1
  <2> QED BY <2>4, <2>5, <2>6
<1>5. \A n \in Nat : n \in T
  <2> HIDE DEF T
  <2> QED BY <1>3, <1>4, Induction
<1>6. First(q) /\ Rest(Len(s))
  <2> HIDE DEF First, Rest
  <2> QED BY <1>2, <1>5
<1>7. r \in 0..q
  BY <1>2, <1>6
<1>8. \A i \in 1..r : \E j \in 1..q : Keep(s, S)[i] = s[j]
  BY <1>1, <1>6
<1>9. r <= Len(Keep(s, S)) /\ \A i \in (r + 1)..Len(Keep(s, S)) : \E j \in (q + 1)..Len(s) : Keep(s, S)[i] = s[j]
  BY <1>1, <1>6
<1> HIDE DEF r
<1> QED BY <1>7, <1>8, <1>9 DEF InOrder

\* populateQueue queues the vertices with an improving edge, each once.
LEMMA PopulatedElements ==
    ASSUME NEW d
    PROVE  /\ Populated(d) \in Seq(V)
           /\ ToSet(Populated(d)) = {i \in V : Improving(i, d)}
           /\ IsInjective(Populated(d))
<1> DEFINE s == [i \in 1..Dim |-> i - 1]
           S == {i \in V : Improving(i, d)}
<1>1. Dim \in Nat
  BY TarjanAssumption
<1>2. s \in Seq(V) /\ Len(s) = Dim
  BY <1>1 DEF V
<1>3. ToSet(s) = V
  <2>1. ASSUME NEW x \in V PROVE x + 1 \in 1..Dim /\ s[x + 1] = x
    BY <1>1 DEF V
  <2>2. \A i \in 1..Dim : s[i] \in V
    BY <1>1 DEF V
  <2> QED BY <2>1, <2>2 DEF ToSet
<1>4. IsInjective(s)
  BY <1>1 DEF IsInjective
<1>5. Populated(d) = Keep(s, S)
  BY DEF Populated
<1>6. S \subseteq V
  OBVIOUS
<1> HIDE DEF s, S
<1>7. Keep(s, S) \in Seq(V) /\ ToSet(Keep(s, S)) = ToSet(s) \cap S /\ IsInjective(Keep(s, S))
  BY <1>2, <1>4, KeepElements
<1> QED BY <1>3, <1>5, <1>6, <1>7 DEF S

\* Appending an element that is not there.
LEMMA AppendNew ==
    ASSUME NEW A, NEW s \in Seq(A), NEW v \in A
    PROVE  /\ Append(s, v) \in Seq(A) /\ s \o <<v>> = Append(s, v)
           /\ ToSet(Append(s, v)) = ToSet(s) \cup {v}
           /\ IsInjective(s) /\ v \notin ToSet(s) => IsInjective(Append(s, v))
<1> DEFINE t == Append(s, v)
           n == Len(s)
<1>1. t \in Seq(A) /\ Len(t) = n + 1 /\ n \in Nat /\ t[n + 1] = v /\ (\A i \in 1..n : t[i] = s[i]) /\ s \o <<v>> = t
  BY AppendProperties, AppendIsConcat
<1> HIDE DEF t
<1>2. DOMAIN t = 1..(n + 1) /\ DOMAIN s = 1..n
  BY <1>1
<1>3. \A i \in 1..(n + 1) : i \in 1..n \/ i = n + 1
  BY <1>1
<1>4. n + 1 \in 1..(n + 1) /\ \A i \in 1..n : i \in 1..(n + 1)
  BY <1>1
<1>5. ToSet(t) = ToSet(s) \cup {v}
  BY <1>1, <1>2, <1>3, <1>4 DEF ToSet
<1>6. ASSUME IsInjective(s), v \notin ToSet(s) PROVE IsInjective(t)
  <2>1. \A a, b \in 1..n : s[a] = s[b] => a = b
    BY <1>2, <1>6 DEF IsInjective
  <2>2. \A a \in 1..n : s[a] # v
    BY <1>2, <1>6 DEF ToSet
  <2> QED BY <1>1, <1>2, <1>3, <2>1, <2>2 DEF IsInjective
<1> QED BY <1>1, <1>5, <1>6 DEF t

\* Disassembly takes what hangs below v out of the queue and makes sure that v is in it.
LEMMA DisassembledElements ==
    ASSUME TypeOK, NEW v \in V, v \notin Subtree(v)
    PROVE  /\ Disassembled(v) \in Seq(V)
           /\ ToSet(Disassembled(v)) = (ToSet(fifo) \ Subtree(v)) \cup {v}
           /\ IsInjective(Disassembled(v))
<1> DEFINE s == Keep(fifo, V \ Subtree(v))
<1>1. fifo \in Seq(V) /\ IsInjective(fifo)
  BY DEF TypeOK
<1>2. s \in Seq(V) /\ ToSet(s) = ToSet(fifo) \cap (V \ Subtree(v)) /\ IsInjective(s)
  BY <1>1, KeepElements
<1>3. ToSet(fifo) \subseteq V
  BY <1>1 DEF ToSet
<1>4. Disassembled(v) = s \o (IF v \in ToSet(fifo) THEN <<>> ELSE <<v>>)
  BY DEF Disassembled
<1> HIDE DEF s
<1>5. CASE v \in ToSet(fifo)
  <2>1. Disassembled(v) = s
    BY <1>2, <1>4, <1>5, ConcatEmptySeq
  <2>2. ToSet(s) = (ToSet(fifo) \ Subtree(v)) \cup {v}
    BY <1>2, <1>3, <1>5
  <2> QED BY <1>2, <2>1, <2>2
<1>6. CASE v \notin ToSet(fifo)
  <2>1. Disassembled(v) = Append(s, v)
    BY <1>2, <1>4, <1>6, AppendNew
  <2>2. v \notin ToSet(s)
    BY <1>2, <1>6
  <2>3. ToSet(s) \cup {v} = (ToSet(fifo) \ Subtree(v)) \cup {v}
    BY <1>2, <1>3
  <2> QED BY <1>2, <2>1, <2>2, <2>3, AppendNew
<1> QED BY <1>5, <1>6

-----------------------------------------------------------------------------
(* The steps of a test.                                                    *)

\* An edge leads to another vertex, and has a bound.
LEMMA EdgeFacts ==
    ASSUME TypeOK, Simple, NEW y \in V, NEW e \in ToSet(edges[y])
    PROVE  /\ e.v \in V /\ e.value \in Int /\ e.v # y
           /\ dist[y] \in Dist /\ dist[e.v] \in Dist /\ Add(dist[y], e.value) \in Dist
<1>1. PICK n \in DOMAIN edges[y] : e = edges[y][n]
  BY DEF ToSet
<1>2. e \in [v : V, value : Bound]
  <2>1. edges[y] \in Seq([v : V, value : Bound])
    BY DEF TypeOK
  <2>2. n \in 1..Len(edges[y])
    BY <2>1, <1>1
  <2> QED BY <1>1, <2>1, <2>2, ElementOfSeq
<1>3. e.v \in V /\ e.value \in Int
  BY <1>2, TarjanAssumption
<1>4. e.v # y
  BY <1>1 DEF Simple
<1>5. dist[y] \in Dist /\ dist[e.v] \in Dist
  BY <1>3 DEF TypeOK, Dist
<1> QED BY <1>3, <1>4, <1>5, AddType

\* The three outcomes of following an edge.
Sum(e) == Add(dist[u], e.value)
FollowSkip(e) ==
    /\ ~Less(Sum(e), dist[e.v])
    /\ k' = k + 1 /\ UNCHANGED <<edges, dist, fifo, parent, u, running, verdict, scans>>
FollowCycle(e) ==
    /\ Less(Sum(e), dist[e.v]) /\ u \in Subtree(e.v)
    /\ dist' = [dist EXCEPT ![e.v] = Sum(e)] /\ fifo' = Populated(dist')
    /\ Return(0) /\ UNCHANGED edges
FollowImprove(e) ==
    /\ Less(Sum(e), dist[e.v]) /\ u \notin Subtree(e.v)
    /\ dist' = [dist EXCEPT ![e.v] = Sum(e)]
    /\ parent' = [w \in V |-> IF w = e.v THEN u ELSE IF w \in Subtree(e.v) THEN NoVertex ELSE parent[w]]
    /\ fifo' = Disassembled(e.v) /\ k' = k + 1
    /\ UNCHANGED <<edges, u, running, verdict, scans>>

\* These are the only cases: the edge at k exists and leads to one of them.
LEMMA FollowCases ==
    ASSUME TypeOK, Follow
    PROVE  /\ running /\ u \in V /\ k \in DOMAIN edges[u]
           /\ edges[u][k] \in ToSet(edges[u])
           /\ FollowSkip(edges[u][k]) \/ FollowCycle(edges[u][k]) \/ FollowImprove(edges[u][k])
<1>1. running /\ u \in V /\ k <= Len(edges[u]) /\ k \in Nat \ {0}
  BY DEF Follow, TypeOK
<1>2. edges[u] \in Seq([v : V, value : Bound])
  BY <1>1 DEF TypeOK
<1>3. k \in DOMAIN edges[u]
  BY <1>1, <1>2
<1>4. edges[u][k] \in ToSet(edges[u])
  BY <1>3 DEF ToSet
<1> DEFINE e == edges[u][k]
<1>5. FollowSkip(e) \/ FollowCycle(e) \/ FollowImprove(e)
  <2>1. CASE ~Less(Sum(e), dist[e.v])
    BY <2>1, Zenon DEF Follow, FollowSkip, Sum
  <2>2. CASE Less(Sum(e), dist[e.v]) /\ u \in Subtree(e.v)
    BY <2>2, Zenon DEF Follow, FollowCycle, Sum
  <2>3. CASE Less(Sum(e), dist[e.v]) /\ u \notin Subtree(e.v)
    BY <2>3, Zenon DEF Follow, FollowImprove, Sum
  <2> QED BY <2>1, <2>2, <2>3
<1> QED BY <1>1, <1>3, <1>4, <1>5

\* A tree that is cut below v and hung below x, which is not below v, is a tree.
Regrafted(P, v, x) == [w \in V |-> IF w = v THEN x ELSE IF w \in Below(P, v) THEN NoVertex ELSE P[w]]

\* No vertex of the regrafted forest hangs below itself.
LEMMA RegraftAcyclic ==
    ASSUME NEW P, NEW v \in V, NEW x \in V, x # v, x \notin Below(P, v),
           \A w \in V : w \notin Below(P, w), NEW r \in V
    PROVE  r \notin Below(Regrafted(P, v, x), r)
<1> DEFINE Q == Regrafted(P, v, x)
           C == Below(P, v) \cup {v}
           S == IF r \in C THEN {} ELSE (Below(P, r) \ C) \cup (IF x = r \/ x \in Below(P, r) THEN {v} ELSE {})
<1>1. NoVertex \notin V
  BY TarjanAssumption DEF V, NoVertex
<1>2. S \in SUBSET V /\ r \notin S
  BY DEF Below
<1>3. ASSUME NEW y \in V, Q[y] = r \/ Q[y] \in S PROVE y \in S
  <2>1. CASE y = v
    <3>1. Q[y] = x
      BY <2>1 DEF Regrafted
    <3> QED BY <3>1, <2>1, <1>3
  <2>2. CASE y # v /\ y \in Below(P, v)
    <3>1. Q[y] = NoVertex
      BY <2>2 DEF Regrafted
    <3> QED BY <3>1, <1>1, <1>2, <1>3
  <2>3. CASE y # v /\ y \notin Below(P, v)
    <3>1. Q[y] = P[y]
      BY <2>3 DEF Regrafted
    <3>2. P[y] \notin C
      BY <2>3, BelowClosed
    <3>3. r \notin C /\ (P[y] = r \/ P[y] \in Below(P, r))
      BY <3>1, <3>2, <1>3
    <3>4. y \in Below(P, r)
      BY <3>3, BelowClosed
    <3> QED BY <3>3, <3>4, <2>3
  <2> QED BY <2>1, <2>2, <2>3
<1> HIDE DEF S, Q
<1>4. Below(Q, r) \subseteq S
  BY <1>2, <1>3, BelowLeast
<1> QED BY <1>2, <1>4 DEF Q

\* Hanging v below u after disassemble keeps the forest a forest, its edges tight
\* and the queued vertices leaves of it.
LEMMA ImproveForest ==
    ASSUME TypeOK, Simple, Acyclic, ForestTight, QueuedAreLeaves, u \in V, NEW e \in ToSet(edges[u]), FollowImprove(e)
    PROVE  Acyclic' /\ ForestTight' /\ QueuedAreLeaves'
<1> DEFINE v == e.v
<1>1. v \in V /\ e.value \in Int /\ v # u /\ Sum(e) \in Dist
  BY EdgeFacts DEF Sum
<1>2. parent' = Regrafted(parent, v, u) /\ u \notin Below(parent, v)
  BY DEF FollowImprove, Regrafted, Subtree
<1>3. Acyclic'
  BY <1>1, <1>2, RegraftAcyclic DEF Acyclic, Subtree
<1>4. ForestTight'
  <2> SUFFICES ASSUME NEW w \in V, parent'[w] # NoVertex
               PROVE  \E f \in ToSet(edges'[parent'[w]]) : f.v = w /\ dist'[w] = Add(dist'[parent'[w]], f.value)
    BY DEF ForestTight
  <2>1. dist' = [dist EXCEPT ![v] = Sum(e)] /\ edges' = edges /\ dist \in [V -> Dist]
    BY DEF FollowImprove, TypeOK, Dist
  <2>2. CASE w = v
    <3>1. parent'[w] = u /\ dist'[w] = Sum(e) /\ dist'[u] = dist[u]
      BY <1>1, <1>2, <2>1, <2>2 DEF Regrafted
    <3> QED BY <3>1, <2>1, <2>2 DEF Sum
  <2>3. CASE w # v
    <3>1. w \notin Below(parent, v) /\ parent'[w] = parent[w]
      BY <1>2, <2>3 DEF Regrafted
    <3>2. parent[w] # v
      BY <3>1, BelowClosed
    <3>3. PICK f \in ToSet(edges[parent[w]]) : f.v = w /\ dist[w] = Add(dist[parent[w]], f.value)
      BY <3>1 DEF ForestTight
    <3>4. dist'[w] = dist[w] /\ dist'[parent[w]] = dist[parent[w]]
      <4>1. parent[w] \in V
        BY <3>1 DEF TypeOK
      <4> QED BY <4>1, <2>1, <2>3, <3>2
    <3> QED BY <3>1, <3>3, <3>4, <2>1
  <2> QED BY <2>2, <2>3
<1>5. QueuedAreLeaves'
  <2>1. v \notin Subtree(v)
    BY <1>1 DEF Acyclic
  <2>2. ToSet(fifo') = (ToSet(fifo) \ Subtree(v)) \cup {v}
    BY <1>1, <2>1, DisassembledElements DEF FollowImprove
  <2>3. u' = u /\ u \notin ToSet(fifo')
    BY <1>1, <2>2 DEF FollowImprove, QueuedAreLeaves
  <2>4. ASSUME NEW x \in V PROVE parent'[x] \notin ToSet(fifo')
    <3>1. CASE x = v
      BY <3>1, <2>3, <1>2 DEF Regrafted
    <3>2. CASE x # v /\ x \in Below(parent, v)
      <4>1. parent'[x] = NoVertex
        BY <3>2, <1>2 DEF Regrafted
      <4>2. ToSet(fifo') \subseteq V
        <5>1. fifo \in Seq(V)
          BY DEF TypeOK
        <5>2. ToSet(fifo) \subseteq V
          BY <5>1 DEF ToSet
        <5> QED BY <1>1, <2>2, <5>2
      <4>3. NoVertex \notin V
        BY TarjanAssumption DEF V, NoVertex
      <4> QED BY <4>1, <4>2, <4>3
    <3>3. CASE x # v /\ x \notin Below(parent, v)
      <4>1. parent'[x] = parent[x] /\ parent[x] # v
        BY <3>3, <1>2, BelowClosed DEF Regrafted
      <4> QED BY <4>1, <2>2 DEF QueuedAreLeaves
    <3> QED BY <3>1, <3>2, <3>3
  <2> QED BY <2>3, <2>4 DEF QueuedAreLeaves
<1> QED BY <1>3, <1>4, <1>5

\* The queue stays good when disassembly takes vertices out of it: what has an
\* improving edge is active or will be reached.
LEMMA ImprovePending ==
    ASSUME TypeOK, Simple, Acyclic, ForestTight, Pending, running, u \in V, NEW e \in ToSet(edges[u]), FollowImprove(e)
    PROVE  Pending'
<1> DEFINE v == e.v
           d == dist'
<1>1. v \in V /\ e.value \in Int /\ v # u /\ Sum(e) \in Dist /\ Less(Sum(e), dist[v]) /\ dist[v] \in Dist
  BY EdgeFacts DEF Sum, FollowImprove
<1>2. edges' = edges /\ u' = u /\ d[v] = Sum(e) /\ (\A y \in V : y # v => d[y] = dist[y]) /\ \A y \in V : d[y] \in Dist /\ dist[y] \in Dist
  <2>1. dist \in [V -> Dist] /\ d = [dist EXCEPT ![v] = Sum(e)]
    BY DEF TypeOK, Dist, FollowImprove
  <2> QED BY <2>1, <1>1 DEF FollowImprove
<1>3. v \notin Subtree(v) /\ NoVertex \notin V
  BY <1>1, TarjanAssumption DEF Acyclic, V, NoVertex
<1>4. ToSet(fifo') = (ToSet(fifo) \ Subtree(v)) \cup {v}
  BY <1>1, <1>3, DisassembledElements DEF FollowImprove
<1>5. Active' = (Active \ Subtree(v)) \cup {v}
  <2>1. u \notin Subtree(v)
    BY DEF FollowImprove
  <2> QED BY <1>2, <1>3, <1>4, <2>1 DEF Active
<1> SUFFICES ASSUME NEW i \in V, Improving(i, dist)', i \notin Active', NEW S \in SUBSET V, Leads(dist, Active, S)'
             PROVE  i \in S
  BY DEF Pending
\* The closure of S in the new state, edge by edge.
<1>6. ASSUME NEW y \in V, NEW f \in ToSet(edges[y]),
             \/ y \in Active' /\ Less(Add(d[y], f.value), d[f.v])
             \/ y \in S /\ ~Less(d[f.v], Add(d[y], f.value))
      PROVE  f.v \in S
  BY <1>2, <1>6 DEF Leads
\* An edge of v that was tight or improving improves now.
<1>7. ASSUME NEW f \in ToSet(edges[v]), ~Less(dist[f.v], Add(dist[v], f.value)) PROVE f.v \in S
  <2>1. f.v \in V /\ f.value \in Int /\ f.v # v /\ dist[f.v] \in Dist /\ Add(dist[v], f.value) \in Dist
    BY <1>1, EdgeFacts
  <2>2. Add(d[v], f.value) \in Dist /\ Less(Add(d[v], f.value), Add(dist[v], f.value))
    BY <1>1, <1>2, <2>1, AddType, LessAdd
  <2>3. d[f.v] = dist[f.v]
    BY <1>2, <2>1
  <2>4. Less(Add(d[v], f.value), d[f.v])
    BY <1>7, <2>1, <2>2, <2>3, LessOrder
  <2> QED BY <1>1, <1>5, <1>6, <2>4
\* The edges of other vertices that do not lead to v have not changed.
<1>8. ASSUME NEW y \in V, NEW f \in ToSet(edges[y]), y # v, f.v # v
      PROVE  f.v \in V /\ d[f.v] = dist[f.v] /\ d[y] = dist[y] /\ dist[f.v] \in Dist /\ Add(dist[y], f.value) \in Dist
  BY <1>2, <1>8, EdgeFacts
<1>9. Subtree(v) \subseteq S \cup {v}
  <2>1. ASSUME NEW x \in V, parent[x] = v \/ parent[x] \in S \cup {v} PROVE x \in S \cup {v}
    <3> SUFFICES ASSUME x # v PROVE x \in S
      OBVIOUS
    <3>1. parent[x] \in V /\ parent[x] # NoVertex
      BY <1>1, <1>3, <2>1
    <3>2. PICK f \in ToSet(edges[parent[x]]) : f.v = x /\ dist[x] = Add(dist[parent[x]], f.value)
      BY <3>1 DEF ForestTight
    <3>3. ~Less(dist[f.v], Add(dist[parent[x]], f.value))
      BY <3>2, <1>2, LessOrder
    <3>4. CASE parent[x] = v
      BY <3>2, <3>3, <3>4, <1>7
    <3>5. CASE parent[x] # v
      <4>1. parent[x] \in S
        BY <3>5, <2>1
      <4>2. ~Less(d[f.v], Add(d[parent[x]], f.value))
        BY <3>1, <3>2, <3>3, <3>5, <1>2
      <4> QED BY <3>1, <3>2, <4>1, <4>2, <1>6
    <3> QED BY <3>4, <3>5
  <2> DEFINE R == S \cup {v}
  <2>2. R \in SUBSET V /\ \A x \in V : parent[x] = v \/ parent[x] \in R => x \in R
    BY <1>1, <2>1
  <2> HIDE DEF R
  <2>3. Below(parent, v) \subseteq R
    BY <2>2, BelowLeast
  <2> QED BY <2>3 DEF Subtree, R
<1>10. Leads(dist, Active, S \cup {v})
  <2> SUFFICES ASSUME NEW y \in V, NEW f \in ToSet(edges[y]), f.v # v,
                      \/ y \in Active /\ Less(Add(dist[y], f.value), dist[f.v])
                      \/ y \in S \cup {v} /\ ~Less(dist[f.v], Add(dist[y], f.value))
               PROVE  f.v \in S
    BY DEF Leads
  <2>1. ~Less(dist[f.v], Add(dist[y], f.value))
    <3>1. dist[f.v] \in Dist /\ Add(dist[y], f.value) \in Dist
      BY EdgeFacts
    <3> QED BY <3>1, LessOrder
  <2>2. CASE y = v
    BY <2>1, <2>2, <1>7
  <2>3. CASE y # v
    <3>1. d[f.v] = dist[f.v] /\ d[y] = dist[y]
      BY <2>3, <1>8
    <3>2. CASE y \in S
      BY <3>1, <3>2, <2>1, <1>6
    <3>3. CASE y \notin S
      <4>1. y \in Active /\ Less(Add(dist[y], f.value), dist[f.v])
        BY <2>3, <3>3
      <4>2. y \in Active'
        BY <4>1, <1>5, <1>9, <2>3, <3>3
      <4> QED BY <3>1, <4>1, <4>2, <1>6
    <3> QED BY <3>2, <3>3
  <2> QED BY <2>2, <2>3
<1>11. Improving(i, dist)
  <2>1. PICK f \in ToSet(edges[i]) : Less(Add(d[i], f.value), d[f.v])
    BY <1>2 DEF Improving
  <2>2. i # v
    BY <1>5
  <2>3. f.v \in V /\ d[i] = dist[i] /\ Add(dist[i], f.value) \in Dist /\ dist[f.v] \in Dist
    BY <1>2, <2>2, EdgeFacts
  <2>4. CASE f.v = v
    <3>1. Less(Add(dist[i], f.value), dist[v])
      BY <2>1, <2>3, <2>4, <1>1, <1>2, LessOrder
    <3> QED BY <3>1, <2>4 DEF Improving
  <2>5. CASE f.v # v
    <3>1. Less(Add(dist[i], f.value), dist[f.v])
      BY <2>1, <2>3, <2>5, <1>2
    <3> QED BY <3>1 DEF Improving
  <2> QED BY <2>4, <2>5
<1>12. CASE i \in Active
  BY <1>5, <1>9, <1>12
<1>13. CASE i \notin Active
  <2>1. i \in S \cup {v}
    <3>1. S \cup {v} \in SUBSET V
      BY <1>1
    <3> QED BY <3>1, <1>10, <1>11, <1>13 DEF Pending
  <2> QED BY <2>1, <1>5
<1> QED BY <1>12, <1>13

-----------------------------------------------------------------------------
(* Depths in the forest, and the passes over the queue.                    *)

\* a is a path of n steps from a vertex towards the root.
Climbs(P, a, n) == a \in [0..n -> V] /\ \A i \in 1..n : P[a[i - 1]] = a[i]

\* Every vertex is zero deep.
LEMMA DeepZero == ASSUME NEW P, NEW w \in V PROVE Deep(P, w, 0)
<1> DEFINE a == [i \in 0..0 |-> w]
<1>1. a \in [0..0 -> V] /\ a[0] = w /\ \A i \in 1..0 : P[a[i - 1]] = a[i]
  OBVIOUS
<1> HIDE DEF a
<1> QED BY <1>1 DEF Deep

\* A vertex is as deep as one likes to say up to its depth.
LEMMA DeepLess == ASSUME NEW P, NEW w, NEW n \in Nat, Deep(P, w, n + 1) PROVE Deep(P, w, n)
<1>1. PICK a \in [0..(n + 1) -> V] : a[0] = w /\ \A i \in 1..(n + 1) : P[a[i - 1]] = a[i]
  BY DEF Deep
<1> DEFINE b == [i \in 0..n |-> a[i]]
<1>2. b \in [0..n -> V] /\ b[0] = w
  BY <1>1
<1>3. ASSUME NEW i \in 1..n PROVE P[b[i - 1]] = b[i]
  BY <1>1
<1> HIDE DEF b
<1> QED BY <1>2, <1>3 DEF Deep

\* A child is deeper than its parent.
LEMMA DeepChild ==
    ASSUME NEW P, NEW v \in V, NEW n \in Nat, Deep(P, P[v], n)
    PROVE  Deep(P, v, n + 1)
<1>1. PICK a \in [0..n -> V] : a[0] = P[v] /\ \A i \in 1..n : P[a[i - 1]] = a[i]
  BY DEF Deep
<1> DEFINE b == [i \in 0..(n + 1) |-> IF i = 0 THEN v ELSE a[i - 1]]
<1>2. b \in [0..(n + 1) -> V] /\ b[0] = v
  BY <1>1
<1>3. ASSUME NEW i \in 1..(n + 1) PROVE P[b[i - 1]] = b[i]
  <2>1. CASE i = 1
    BY <2>1, <1>1
  <2>2. CASE i # 1
    <3>1. i - 1 \in 1..n /\ b[i] = a[i - 1] /\ b[i - 1] = a[(i - 1) - 1]
      BY <2>2
    <3> QED BY <3>1, <1>1
  <2> QED BY <2>1, <2>2
<1> HIDE DEF b
<1> QED BY <1>2, <1>3 DEF Deep

\* Regrafting v changes no depth outside of its subtree.
LEMMA DeepRegraft ==
    ASSUME NEW P, NEW v \in V, NEW x, NEW w \in V, w # v, w \notin Below(P, v), NEW n \in Nat, Deep(P, w, n)
    PROVE  Deep(Regrafted(P, v, x), w, n)
<1>1. PICK a \in [0..n -> V] : a[0] = w /\ \A i \in 1..n : P[a[i - 1]] = a[i]
  BY DEF Deep
<1> DEFINE T == {m \in Nat : m <= n => a[m] # v /\ a[m] \notin Below(P, v)}
<1>2. 0 \in T
  BY <1>1
<1>3. ASSUME NEW m \in Nat, m \in T PROVE m + 1 \in T
  <2> SUFFICES ASSUME m + 1 <= n PROVE a[m + 1] # v /\ a[m + 1] \notin Below(P, v)
    OBVIOUS
  <2>1. m + 1 \in 1..n /\ (m + 1) - 1 = m /\ a[m] \in V /\ a[m] \notin Below(P, v)
    BY <1>3
  <2>2. P[a[m]] = a[m + 1]
    BY <1>1, <2>1
  <2> QED BY <2>1, <2>2, BelowClosed
<1>4. \A m \in Nat : m \in T
  <2> HIDE DEF T
  <2> QED BY <1>2, <1>3, Induction
<1>5. ASSUME NEW i \in 1..n PROVE Regrafted(P, v, x)[a[i - 1]] = a[i]
  <2>1. i - 1 \in Nat /\ i - 1 <= n /\ a[i - 1] \in V
    OBVIOUS
  <2>2. a[i - 1] # v /\ a[i - 1] \notin Below(P, v)
    BY <2>1, <1>4
  <2> QED BY <2>1, <2>2, <1>1 DEF Regrafted
<1> QED BY <1>1, <1>5 DEF Deep

\* On the way up every vertex is below the later ones.
LEMMA ClimbBelow ==
    ASSUME NEW P, NEW n \in Nat, NEW a, Climbs(P, a, n), NEW i \in 0..n, NEW j \in 0..n, i < j
    PROVE  a[i] \in Below(P, a[j])
<1> DEFINE T == {m \in Nat : m < j => a[(j - 1) - m] \in Below(P, a[j])}
<1>1. 0 \in T
  <2>1. (j - 1) - 0 = j - 1 /\ j \in 1..n /\ j - 1 \in 0..n
    OBVIOUS
  <2>2. P[a[j - 1]] = a[j] /\ a[j - 1] \in V
    BY <2>1 DEF Climbs
  <2>3. a[j - 1] \in Below(P, a[j])
    BY <2>2, BelowClosed
  <2> QED BY <2>1, <2>3
<1>2. ASSUME NEW m \in Nat, m \in T PROVE m + 1 \in T
  <2> SUFFICES ASSUME m + 1 < j PROVE a[(j - 1) - (m + 1)] \in Below(P, a[j])
    OBVIOUS
  <2> DEFINE l == (j - 1) - m
  <2>1. l \in 1..n /\ (j - 1) - (m + 1) = l - 1 /\ l - 1 \in 0..n
    OBVIOUS
  <2>2. a[l] \in Below(P, a[j])
    BY <1>2
  <2> HIDE DEF l
  <2>3. P[a[l - 1]] = a[l] /\ a[l - 1] \in V
    BY <2>1 DEF Climbs
  <2>4. a[l - 1] \in Below(P, a[j])
    BY <2>2, <2>3, BelowClosed
  <2> QED BY <2>1, <2>4
<1>3. \A m \in Nat : m \in T
  <2> HIDE DEF T
  <2> QED BY <1>1, <1>2, Induction
<1>4. (j - 1) - i \in Nat /\ (j - 1) - i < j /\ (j - 1) - ((j - 1) - i) = i
  OBVIOUS
<1>5. (j - 1) - i \in T
  BY <1>3, <1>4
<1> QED BY <1>4, <1>5

\* There are Dim vertices.
LEMMA VertexCount == IsFiniteSet(V) /\ Cardinality(V) = Dim
<1>1. 0 \in Int /\ Dim - 1 \in Int /\ ~(0 > Dim - 1) /\ (Dim - 1) - 0 + 1 = Dim
  BY TarjanAssumption
<1>2. IsFiniteSet(0..(Dim - 1)) /\ Cardinality(0..(Dim - 1)) = (Dim - 1) - 0 + 1
  BY <1>1, FS_Interval
<1> QED BY <1>1, <1>2 DEF V

\* The vertices of a queue and the ancestors of its first one are different, so
\* that a deep queue is short.
LEMMA PassSize ==
    ASSUME TypeOK, Acyclic, QueuedAreLeaves, NEW n \in Nat, fifo # <<>>, Deep(parent, fifo[1], n)
    PROVE  Len(fifo) + n <= Dim
<1> DEFINE L == Len(fifo)
<1>1. fifo \in Seq(V) /\ L \in Nat /\ L > 0 /\ Dim \in Nat /\ DOMAIN fifo = 1..L /\ \A i \in 1..L : fifo[i] \in V
  <2>1. fifo \in Seq(V)
    BY DEF TypeOK
  <2> QED BY <2>1, TarjanAssumption, EmptySeq
<1>2. \A i, j \in 1..L : fifo[i] = fifo[j] => i = j
  BY <1>1 DEF TypeOK, IsInjective
<1>3. PICK a \in [0..n -> V] : a[0] = fifo[1] /\ \A i \in 1..n : parent[a[i - 1]] = a[i]
  BY DEF Deep
<1>4. \A i \in 1..n : \A j \in 1..L : a[i] # fifo[j]
  <2> SUFFICES ASSUME NEW i \in 1..n, NEW j \in 1..L, a[i] = fifo[j] PROVE FALSE
    OBVIOUS
  <2>1. a[i - 1] \in V /\ parent[a[i - 1]] = a[i]
    BY <1>3
  <2>2. fifo[j] \in ToSet(fifo)
    BY <1>1 DEF ToSet
  <2> QED BY <2>1, <2>2 DEF QueuedAreLeaves
<1>5. \A i, j \in 1..n : i < j => a[i] # a[j]
  <2> SUFFICES ASSUME NEW i \in 1..n, NEW j \in 1..n, i < j PROVE a[i] # a[j]
    OBVIOUS
  <2>1. Climbs(parent, a, n)
    BY <1>3 DEF Climbs
  <2>2. i \in 0..n /\ j \in 0..n /\ a[j] \in V
    BY <1>3
  <2>3. a[i] \in Below(parent, a[j])
    BY <2>1, <2>2, ClimbBelow
  <2> QED BY <2>2, <2>3 DEF Acyclic, Subtree
<1> DEFINE h == [m \in 1..(L + n) |-> IF m <= L THEN fifo[m] ELSE a[m - L]]
<1> HIDE DEF L
<1>6. h \in [1..(L + n) -> V]
  BY <1>1, <1>3
<1>7. ASSUME NEW b \in 1..(L + n), NEW c \in 1..(L + n), h[b] = h[c], b < c PROVE FALSE
  <2>1. CASE c <= L
    BY <2>1, <1>1, <1>2, <1>7
  <2>2. CASE b <= L /\ c > L
    <3>1. h[b] = fifo[b] /\ h[c] = a[c - L] /\ c - L \in 1..n /\ b \in 1..L
      BY <2>2, <1>1
    <3> QED BY <3>1, <1>4, <1>7
  <2>3. CASE b > L
    <3>1. h[b] = a[b - L] /\ h[c] = a[c - L] /\ b - L \in 1..n /\ c - L \in 1..n /\ b - L < c - L
      BY <2>3, <1>1, <1>7
    <3> QED BY <3>1, <1>5, <1>7
  <2> QED BY <2>1, <2>2, <2>3, <1>1
<1> HIDE DEF h
<1>8. h \in Injection(1..(L + n), V)
  <2>1. DOMAIN h = 1..(L + n)
    BY <1>6
  <2>2. \A b, c \in 1..(L + n) : h[b] = h[c] => b = c
    BY <1>1, <1>7
  <2> QED BY <1>6, <2>1, <2>2 DEF Injection, IsInjective
<1>9. IsFiniteSet(V) /\ Cardinality(V) = Dim
  BY VertexCount
<1>10. Cardinality(1..(L + n)) <= Dim
  BY <1>8, <1>9, FS_Injection
<1>11. Cardinality(1..(L + n)) = L + n
  <2>1. 1 \in Int /\ L + n \in Int /\ L + n >= 1
    BY <1>1
  <2> QED BY <2>1, FS_Interval
<1> QED BY <1>10, <1>11 DEF L

\* Improving v puts it one deeper than u, and so into the next pass.
LEMMA ImprovePasses ==
    ASSUME TypeOK, scans \in Nat, Simple, Acyclic, Passes, running, u \in V, NEW e \in ToSet(edges[u]), FollowImprove(e)
    PROVE  Passes'
<1> DEFINE v == e.v
           K == Keep(fifo, V \ Subtree(v))
           Q == Regrafted(parent, v, u)
<1>1. v \in V /\ v # u /\ Dim \in Nat /\ NoVertex \notin V
  BY EdgeFacts, TarjanAssumption DEF V, NoVertex
<1>2. parent' = Q /\ u \notin Below(parent, v) /\ u' = u /\ scans' = scans
  BY DEF FollowImprove, Regrafted, Subtree
<1>3. PICK p \in 1..Dim, q \in 0..Len(fifo) : InPass(p, q)
  BY DEF Passes
<1>4. fifo \in Seq(V) /\ Len(fifo) \in Nat /\ \A j \in 1..Len(fifo) : fifo[j] \in V
  <2>1. fifo \in Seq(V)
    BY DEF TypeOK
  <2> QED BY <2>1, ElementOfSeq
<1>5. K \in Seq(V) /\ Len(K) \in Nat /\ ToSet(K) = ToSet(fifo) \cap (V \ Subtree(v))
  <2>1. K \in Seq(V) /\ ToSet(K) = ToSet(fifo) \cap (V \ Subtree(v))
    BY <1>4, KeepElements
  <2> HIDE DEF K
  <2> QED BY <2>1
<1>6. PICK r : InOrder(fifo, K, q, r)
  <2>1. \E r : InOrder(fifo, Keep(fifo, V \ Subtree(v)), q, r)
    BY <1>4, KeepOrder, Zenon
  <2> QED BY <2>1
<1> USE DEF InOrder
<1>7. \/ fifo' = K
      \/ fifo' = Append(K, v)
  <2>1. fifo' = K \o (IF v \in ToSet(fifo) THEN <<>> ELSE <<v>>)
    BY DEF FollowImprove, Disassembled
  <2> HIDE DEF K
  <2>2. K \o <<>> = K /\ K \o <<v>> = Append(K, v)
    BY <1>1, <1>5, ConcatEmptySeq, AppendNew
  <2> QED BY <2>1, <2>2
<1>8. \A i \in 1..Len(K) : K[i] \in V /\ K[i] \notin Below(parent, v)
  <2> SUFFICES ASSUME NEW i \in 1..Len(K) PROVE K[i] \in V /\ K[i] \notin Below(parent, v)
    OBVIOUS
  <2> HIDE DEF K
  <2>1. K[i] \in ToSet(K)
    BY <1>5 DEF ToSet
  <2> QED BY <2>1, <1>5 DEF Subtree
<1> HIDE DEF K
\* Depths in the new forest.
<1>9. p - 1 \in Nat /\ p \in Nat /\ (p - 1) + 1 = p
  BY <1>1
<1>10. Deep(Q, u, p - 1)
  <2>1. Deep(parent, u, p - 1)
    BY <1>1, <1>3 DEF InPass
  <2> QED BY <2>1, <1>1, <1>2, <1>9, DeepRegraft
<1>11. Deep(Q, v, p) /\ Deep(Q, v, p - 1)
  <2>1. Q[v] = u
    BY <1>1 DEF Regrafted
  <2> HIDE DEF Q
  <2>2. Deep(Q, v, p)
    BY <2>1, <1>1, <1>9, <1>10, DeepChild
  <2> QED BY <2>2, <1>9, DeepLess
<1>12. ASSUME NEW i \in 1..Len(K), NEW n \in {p - 1, p}, Deep(parent, K[i], n) PROVE Deep(Q, K[i], n)
  <2>1. CASE K[i] = v
    BY <2>1, <1>11
  <2>2. CASE K[i] # v
    <3>1. K[i] \in V /\ K[i] \notin Below(parent, v) /\ n \in Nat
      BY <1>8, <1>9
    <3> QED BY <2>2, <3>1, <1>1, <1>12, DeepRegraft
  <2> QED BY <2>1, <2>2
<1>13. \A i \in 1..r : Deep(Q, K[i], p - 1)
  <2> SUFFICES ASSUME NEW i \in 1..r PROVE Deep(Q, K[i], p - 1)
    OBVIOUS
  <2>1. PICK j \in 1..q : K[i] = fifo[j]
    BY <1>6
  <2>2. Deep(parent, fifo[j], p - 1)
    BY <1>3 DEF InPass
  <2>3. i \in 1..Len(K)
    BY <1>5, <1>6
  <2> QED BY <2>1, <2>2, <2>3, <1>12
<1>14. \A i \in (r + 1)..Len(K) : Deep(Q, K[i], p)
  <2> SUFFICES ASSUME NEW i \in (r + 1)..Len(K) PROVE Deep(Q, K[i], p)
    OBVIOUS
  <2>1. PICK j \in (q + 1)..Len(fifo) : K[i] = fifo[j]
    BY <1>6
  <2>2. Deep(parent, fifo[j], p)
    BY <1>3 DEF InPass
  <2>3. i \in 1..Len(K)
    BY <1>5, <1>6
  <2> QED BY <2>1, <2>2, <2>3, <1>12
<1> HIDE DEF Q
<1>15. /\ r \in 0..Len(fifo')
       /\ \A i \in 1..r : Deep(Q, fifo'[i], p - 1)
       /\ \A i \in (r + 1)..Len(fifo') : Deep(Q, fifo'[i], p)
  <2>1. CASE fifo' = K
    BY <2>1, <1>5, <1>6, <1>13, <1>14
  <2>2. CASE fifo' = Append(K, v)
    <3>1. Len(fifo') = Len(K) + 1 /\ fifo'[Len(K) + 1] = v /\ \A i \in 1..Len(K) : fifo'[i] = K[i]
      BY <2>2, <1>1, <1>5, AppendProperties
    <3>2. r \in 0..Len(fifo') /\ \A i \in 1..r : i \in 1..Len(K)
      BY <3>1, <1>5, <1>6
    <3>3. \A i \in (r + 1)..Len(fifo') : (i \in (r + 1)..Len(K) /\ i \in 1..Len(K)) \/ i = Len(K) + 1
      BY <3>1, <1>5, <1>6
    <3> QED BY <3>1, <3>2, <3>3, <1>11, <1>13, <1>14
  <2> QED BY <2>1, <2>2, <1>7
<1>16. 2 * (scans + r) <= p * (2 * Dim - p + 1)
  <2>1. 2 * (scans + q) <= p * (2 * Dim - p + 1)
    BY <1>3 DEF InPass
  <2>2. p * (2 * Dim - p + 1) \in Int /\ r <= q /\ r \in Int /\ q \in Int
    BY <1>1, <1>4, <1>6, <1>9
  <2> DEFINE B == p * (2 * Dim - p + 1)
  <2> HIDE DEF B
  <2> QED BY <2>1, <2>2 DEF B
<1>17. InPass(p, r)'
  BY <1>2, <1>10, <1>15, <1>16 DEF InPass
<1> QED BY <1>15, <1>17 DEF Passes

\* Taking a vertex from the queue: the current pass goes on, or the next one begins,
\* which is shorter than the current one was allowed to be.
LEMMA DequeuePasses ==
    ASSUME TypeOK, scans \in Nat, Acyclic, QueuedAreLeaves, Passes, Dequeue
    PROVE  Passes'
<1>1. /\ running /\ fifo # <<>> /\ u' = Head(fifo) /\ fifo' = Tail(fifo) /\ scans' = scans + 1 /\ parent' = parent
      /\ Dim \in Nat
  BY TarjanAssumption DEF Dequeue
<1>2. PICK p \in 1..Dim, q \in 0..Len(fifo) : InPass(p, q)
  BY <1>1 DEF Passes
<1>3. /\ fifo \in Seq(V) /\ Len(fifo) \in Nat /\ Len(fifo) > 0 /\ Head(fifo) = fifo[1] /\ fifo[1] \in V
      /\ Len(fifo') = Len(fifo) - 1 /\ \A i \in 1..Len(fifo') : fifo'[i] = fifo[i + 1]
  <2>1. fifo \in Seq(V)
    BY DEF TypeOK
  <2> QED BY <2>1, <1>1, HeadTailProperties, EmptySeq
<1>4. u' # NoVertex /\ u' = fifo[1]
  BY <1>1, <1>3, TarjanAssumption DEF V, NoVertex
<1>5. p \in Nat /\ p - 1 \in Nat /\ (p - 1) + 1 = p /\ (p + 1) - 1 = p /\ p * (2 * Dim - p + 1) \in Int
  BY <1>1
<1>6. CASE q > 0
  <2>1. q - 1 \in 0..Len(fifo')
    BY <1>3, <1>6
  <2>2. 2 * (scans' + (q - 1)) <= p * (2 * Dim - p + 1)
    <3>1. scans' + (q - 1) = scans + q
      BY <1>1, <1>3
    <3> QED BY <3>1, <1>2 DEF InPass
  <2>3. \A i \in 1..(q - 1) : Deep(parent, fifo'[i], p - 1)
    <3> SUFFICES ASSUME NEW i \in 1..(q - 1) PROVE Deep(parent, fifo'[i], p - 1)
      OBVIOUS
    <3>1. fifo'[i] = fifo[i + 1] /\ i + 1 \in 1..q
      BY <1>3
    <3> QED BY <3>1, <1>2 DEF InPass
  <2>4. \A i \in ((q - 1) + 1)..Len(fifo') : Deep(parent, fifo'[i], p)
    <3> SUFFICES ASSUME NEW i \in ((q - 1) + 1)..Len(fifo') PROVE Deep(parent, fifo'[i], p)
      OBVIOUS
    <3>1. fifo'[i] = fifo[i + 1] /\ i + 1 \in (q + 1)..Len(fifo)
      BY <1>3, <1>6
    <3> QED BY <3>1, <1>2 DEF InPass
  <2>5. Deep(parent, u', p - 1)
    <3>1. 1 \in 1..q
      BY <1>3, <1>6
    <3> QED BY <3>1, <1>2, <1>4 DEF InPass
  <2>6. InPass(p, q - 1)'
    BY <1>1, <2>2, <2>3, <2>4, <2>5 DEF InPass
  <2> QED BY <2>1, <2>6 DEF Passes
<1>7. CASE q = 0
  <2>0. PICK r \in Nat : r = Len(fifo')
    BY <1>3
  <2>1. \A i \in 1..Len(fifo) : Deep(parent, fifo[i], p)
    BY <1>2, <1>7 DEF InPass
  <2>2. Len(fifo) + p <= Dim
    <3>1. Deep(parent, fifo[1], p)
      BY <2>1, <1>3
    <3> QED BY <3>1, <1>1, <1>5, PassSize
  <2>3. p + 1 \in 1..Dim /\ r \in 0..Len(fifo')
    BY <1>1, <1>3, <2>0, <2>2
  <2>4. 2 * (scans' + r) <= (p + 1) * (2 * Dim - (p + 1) + 1)
    <3>1. scans' + r = scans + Len(fifo)
      BY <1>1, <1>3, <2>0
    <3>2. 2 * scans <= p * (2 * Dim - p + 1)
      BY <1>2, <1>7 DEF InPass
    <3>3. (p + 1) * (2 * Dim - (p + 1) + 1) = p * (2 * Dim - p + 1) + 2 * (Dim - p)
      BY <1>1, <1>5
    <3> DEFINE B == p * (2 * Dim - p + 1)
    <3>4. B \in Int
      BY <1>5
    <3> HIDE DEF B
    <3>5. 2 * scans + 2 * Len(fifo) <= B + 2 * (Dim - p)
      <4>1. 2 * scans <= B
        BY <3>2 DEF B
      <4> QED BY <4>1, <3>4, <1>1, <1>3, <1>5, <2>2
    <3>6. 2 * (scans + Len(fifo)) = 2 * scans + 2 * Len(fifo)
      BY <1>3
    <3> QED BY <3>1, <3>3, <3>5, <3>6 DEF B
  <2>5. \A i \in 1..r : Deep(parent, fifo'[i], (p + 1) - 1)
    <3> SUFFICES ASSUME NEW i \in 1..r PROVE Deep(parent, fifo'[i], p)
      BY <1>5
    <3>1. fifo'[i] = fifo[i + 1] /\ i + 1 \in 1..Len(fifo)
      BY <1>3, <2>0
    <3> QED BY <3>1, <2>1
  <2>6. \A i \in (r + 1)..Len(fifo') : Deep(parent, fifo'[i], p + 1)
    BY <2>0
  <2>7. Deep(parent, u', (p + 1) - 1)
    BY <1>3, <1>4, <1>5, <2>1
  <2>8. InPass(p + 1, r)'
    BY <1>1, <2>4, <2>5, <2>6, <2>7 DEF InPass
  <2> QED BY <2>3, <2>8 DEF Passes
<1> QED BY <1>6, <1>7, <1>2

\* A test starts with the first pass.
LEMMA StartPasses ==
    ASSUME TypeOK, Acyclic, QueuedAreLeaves, Idle, Start
    PROVE  Passes'
<1>1. fifo' = fifo /\ parent' = parent /\ u' = u /\ scans' = scans /\ scans = 0 /\ u = NoVertex /\ Dim \in Nat /\ Dim > 0
  BY TarjanAssumption DEF Start, Idle
<1>2. fifo \in Seq(V) /\ Len(fifo) \in Nat /\ \A i \in 1..Len(fifo) : fifo[i] \in V
  <2>1. fifo \in Seq(V)
    BY DEF TypeOK
  <2> QED BY <2>1, ElementOfSeq
<1>3. Len(fifo) <= Dim
  <2>1. CASE fifo = <<>>
    BY <2>1, <1>1
  <2>2. CASE fifo # <<>>
    <3>1. fifo[1] \in V
      BY <1>2, <2>2, EmptySeq
    <3>2. Deep(parent, fifo[1], 0)
      BY <3>1, DeepZero
    <3>3. Len(fifo) + 0 <= Dim
      BY <2>2, <3>2, PassSize
    <3> QED BY <3>3, <1>2
  <2> QED BY <2>1, <2>2
<1> DEFINE r == Len(fifo)
<1>4. 2 * (scans + r) <= 1 * (2 * Dim - 1 + 1)
  BY <1>1, <1>2, <1>3
<1>5. \A i \in 1..r : Deep(parent, fifo[i], 1 - 1)
  BY <1>2, DeepZero
<1>6. \A i \in (r + 1)..Len(fifo) : Deep(parent, fifo[i], 1)
  BY <1>2
<1>7. InPass(1, r)'
  BY <1>1, <1>4, <1>5, <1>6 DEF InPass
<1>8. 1 \in 1..Dim /\ r \in 0..Len(fifo')
  BY <1>1, <1>2
<1> QED BY <1>7, <1>8 DEF Passes

\* All passes together take no more scans than TestBounded promises.
LEMMA PassesBound == ASSUME TypeOK, scans \in Nat, Idle, Passes PROVE TestBounded
<1>1. Dim \in Nat /\ Dim > 0 /\ Dim * (Dim + 1) \in Nat
  BY TarjanAssumption
<1>2. 2 * scans <= Dim * (Dim + 1)
  <2>1. CASE ~running
    <3>1. scans = 0
      BY <2>1 DEF Idle
    <3> QED BY <3>1, <1>1
  <2>2. CASE running
    <3>1. PICK p \in 1..Dim, q \in 0..Len(fifo) : InPass(p, q)
      BY <2>2 DEF Passes
    <3>2. 2 * (scans + q) <= p * (2 * Dim - p + 1) /\ q \in Nat
      BY <3>1 DEF InPass
    <3> DEFINE m == Dim - p
    <3>3. m \in Nat /\ p = Dim - m
      BY <1>1
    <3>4. Dim * (Dim + 1) = p * (2 * Dim - p + 1) + m * (m + 1)
      BY <1>1, <3>3
    <3> HIDE DEF m
    <3>5. m * (m + 1) >= 0
      BY <3>3
    <3> DEFINE B == p * (2 * Dim - p + 1)
               C == m * (m + 1)
    <3>6. B \in Int /\ C \in Int
      BY <1>1, <3>3
    <3> HIDE DEF B, C
    <3>7. 2 * (scans + q) <= B /\ Dim * (Dim + 1) = B + C /\ C >= 0
      BY <3>2, <3>4, <3>5 DEF B, C
    <3> QED BY <3>2, <3>6, <3>7
  <2> QED BY <2>1, <2>2 DEF TypeOK
<1> DEFINE D == Dim * (Dim + 1)
<1> HIDE DEF D
<1>3. D \in Nat /\ 2 * scans <= D
  BY <1>1, <1>2 DEF D
<1>4. scans <= D \div 2
  BY <1>3
<1> QED BY <1>4 DEF TestBounded, D

-----------------------------------------------------------------------------
(* Negative cycles.                                                        *)

\* A cycle is a function on an interval, and its edges are edges of the graph.
LEMMA CycleFacts ==
    ASSUME TypeOK, Simple, NEW c \in Cycles
    PROVE  /\ Len(c) \in 2..Dim /\ c \in [1..Len(c) -> V]
           /\ \A m \in 1..Len(c) : /\ EdgeTo(c[m], Next1(c, m)) \in ToSet(edges[c[m]])
                                   /\ EdgeTo(c[m], Next1(c, m)).v = Next1(c, m)
                                   /\ EdgeTo(c[m], Next1(c, m)).value \in Int
<1>1. PICK n \in 2..Dim : c \in [1..n -> V]
  BY DEF Cycles
<1>2. n \in Nat
  BY <1>1, TarjanAssumption
<1>3. Len(c) = n /\ DOMAIN c = 1..n
  BY <1>1, <1>2
<1>4. ASSUME NEW m \in 1..n
      PROVE  /\ EdgeTo(c[m], Next1(c, m)) \in ToSet(edges[c[m]])
             /\ EdgeTo(c[m], Next1(c, m)).v = Next1(c, m)
             /\ EdgeTo(c[m], Next1(c, m)).value \in Int
  <2>1. Linked(c[m], Next1(c, m))
    BY <1>3 DEF Cycles
  <2>2. /\ EdgeTo(c[m], Next1(c, m)) \in ToSet(edges[c[m]])
        /\ EdgeTo(c[m], Next1(c, m)).v = Next1(c, m)
    BY <2>1, Zenon DEF Linked, EdgeTo
  <2>3. c[m] \in V
    BY <1>1
  <2> QED BY <2>2, <2>3, EdgeFacts
<1> QED BY <1>1, <1>3, <1>4

\* The total length of a cycle, step by step.
TotalSteps(c, t) == /\ t \in [0..Len(c) -> Dist] /\ t[0] = Zero
                    /\ \A n \in 1..Len(c) : t[n] = Add(t[n - 1], EdgeTo(c[n], Next1(c, n)).value)

\* Total is what these steps compute.
LEMMA TotalDef ==
    ASSUME TypeOK, Simple, NEW c \in Cycles
    PROVE  \E t : TotalSteps(c, t) /\ Total(c) = t[Len(c)]
<1> DEFINE N == Len(c)
           val == [n \in 1..N |-> EdgeTo(c[n], Next1(c, n)).value]
           step == [n \in 1..N |-> [x \in Dist |-> Add(x, val[n])]]
<1>1. N \in Nat /\ Zero \in Dist /\ val \in [1..N -> Int]
  BY CycleFacts, TarjanAssumption DEF Zero, Dist
<1>2. step \in Steps(N, Dist)
  <2> HIDE DEF val, N
  <2>1. ASSUME NEW n \in 1..N, NEW x \in Dist PROVE Add(x, val[n]) \in Dist
    BY <1>1, AddType
  <2> QED BY <2>1 DEF Steps
<1>3. PICK g : Iterates(g, N, Dist, Zero, step)
  <2> HIDE DEF step, N
  <2> QED BY <1>1, <1>2, Iteration, Zenon
<1>4. g \in [0..N -> Dist] /\ g[0] = Zero /\ \A n \in 1..N : g[n] = step[n][g[n - 1]]
  BY <1>3 DEF Iterates
<1>5. \A n \in 1..N : g[n] = Add(g[n - 1], EdgeTo(c[n], Next1(c, n)).value)
  <2> TAKE n \in 1..N
  <2>1. g[n - 1] \in Dist /\ step[n][g[n - 1]] = Add(g[n - 1], val[n])
    BY <1>1, <1>4
  <2> QED BY <1>4, <2>1
<1> DEFINE Rhs(f) == [n \in 0..Len(c) |-> IF n = 0 THEN Zero
                                          ELSE Add(f[n - 1], EdgeTo(c[n], Next1(c, n)).value)]
           F == CHOOSE f : f = Rhs(f)
<1>6. g = Rhs(g)
  <2>1. ASSUME NEW n \in 0..N PROVE g[n] = Rhs(g)[n]
    <3>1. CASE n = 0
      BY <1>4, <3>1
    <3>2. CASE n # 0
      <4>1. n \in 1..N
        BY <1>1, <3>2
      <4>2. Rhs(g)[n] = Add(g[n - 1], EdgeTo(c[n], Next1(c, n)).value)
        BY <3>2
      <4> QED BY <1>5, <4>1, <4>2
    <3> QED BY <3>1, <3>2
  <2>2. g = [n \in 0..N |-> g[n]] /\ Rhs(g) = [n \in 0..N |-> Rhs(g)[n]]
    BY <1>4, Zenon
  <2> HIDE DEF Rhs
  <2> QED BY <2>1, <2>2, Zenon
<1>7. F = Rhs(F)
  <2> HIDE DEF Rhs
  <2> QED BY <1>6, Zenon
<1>8. Total(c) = F[N]
  BY Zenon DEF Total
<1>9. \A n \in 0..N : F[n] = IF n = 0 THEN Zero ELSE Add(F[n - 1], EdgeTo(c[n], Next1(c, n)).value)
  <2> HIDE DEF F
  <2> QED BY <1>7, Zenon
<1> HIDE DEF F
<1> DEFINE T == {m \in Nat : m <= N => F[m] = g[m]}
<1>10. 0 \in T
  BY <1>1, <1>4, <1>9
<1>11. ASSUME NEW n \in Nat, n \in T PROVE n + 1 \in T
  <2> SUFFICES ASSUME n + 1 <= N PROVE F[n + 1] = g[n + 1]
    OBVIOUS
  <2>1. F[n] = g[n] /\ n + 1 \in 1..N /\ n + 1 \in 0..N /\ n + 1 # 0 /\ (n + 1) - 1 = n
    BY <1>11, <1>1
  <2> QED BY <2>1, <1>5, <1>9
<1>12. \A n \in Nat : n \in T
  <2> HIDE DEF T
  <2> QED BY <1>10, <1>11, Induction
<1>13. Total(c) = g[N]
  BY <1>1, <1>8, <1>12
<1> QED BY <1>4, <1>5, <1>13 DEF TotalSteps

\* Two lengths one after the other.
Plus(a, b) == [value |-> a.value + b.value, strictness |-> a.strictness + b.strictness]

\* Adding lengths is associative with adding bounds, and keeps the order.
LEMMA PlusFacts ==
    ASSUME NEW a \in Dist, NEW b \in Dist
    PROVE  /\ Plus(a, b) \in Dist /\ Plus(a, Zero) = a
           /\ \A c \in Int : Add(Plus(a, b), c) = Plus(a, Add(b, c))
           /\ Less(Plus(a, b), a) <=> b.value < 0 \/ (b.value = 0 /\ b.strictness > 0)
<1>1. Plus(a, b) \in Dist /\ Plus(a, Zero) = a
  BY DEF Plus, Dist, Zero
<1>2. ASSUME NEW c \in Int PROVE Add(Plus(a, b), c) = Plus(a, Add(b, c))
  <2>1. c \div 2 \in Int /\ c % 2 \in Int
    OBVIOUS
  <2> QED BY <2>1 DEF Plus, Dist, Add
<1>3. Less(Plus(a, b), a) <=> b.value < 0 \/ (b.value = 0 /\ b.strictness > 0)
  BY DEF Plus, Dist, Less
<1> QED BY <1>1, <1>2, <1>3

\* Distances that no edge improves satisfy all constraints: there is no negative
\* cycle.
LEMMA FeasibleNoCycle ==
    ASSUME TypeOK, Simple, \A i \in V : ~Improving(i, dist)
    PROVE  ~NegativeCycle
<1> SUFFICES ASSUME NEW c \in Cycles, Total(c).value < 0 \/ (Total(c).value = 0 /\ Total(c).strictness > 0)
             PROVE  FALSE
  BY DEF NegativeCycle
<1>1. PICK t : TotalSteps(c, t) /\ Total(c) = t[Len(c)]
  BY TotalDef
<1>2. PICK N \in Nat : N = Len(c) /\ N >= 2 /\ c \in [1..N -> V]
  <2>1. Len(c) \in 2..Dim /\ c \in [1..Len(c) -> V]
    BY CycleFacts
  <2> DEFINE n == Len(c)
  <2>2. n \in Nat /\ n >= 2 /\ c \in [1..n -> V]
    BY <2>1, TarjanAssumption
  <2> HIDE DEF n
  <2>3. \E N \in Nat : N = n /\ N >= 2 /\ c \in [1..N -> V]
    BY <2>2
  <2> QED BY <2>3 DEF n
<1>3. N >= 2 /\ c \in [1..N -> V]
  BY <1>2
<1> DEFINE D == dist[c[1]]
           at(m) == IF m = N THEN c[1] ELSE c[m + 1]
           e(m) == EdgeTo(c[m], at(m))
           T == {m \in Nat : m <= N => ~Less(Plus(D, t[m]), dist[at(m)])}
<1>4. /\ t \in [0..N -> Dist] /\ t[0] = Zero /\ Total(c) = t[N]
      /\ \A m \in 1..N : /\ t[m] = Add(t[m - 1], e(m).value)
                          /\ e(m) \in ToSet(edges[c[m]]) /\ e(m).v = at(m) /\ e(m).value \in Int
  <2>1. \A m : Next1(c, m) = at(m)
    BY <1>2 DEF Next1
  <2> HIDE DEF at
  <2>2. /\ t \in [0..N -> Dist] /\ t[0] = Zero /\ Total(c) = t[N]
        /\ \A m \in 1..N : t[m] = Add(t[m - 1], EdgeTo(c[m], Next1(c, m)).value)
    BY <1>1, <1>2 DEF TotalSteps
  <2>3. \A m \in 1..N : /\ EdgeTo(c[m], Next1(c, m)) \in ToSet(edges[c[m]])
                         /\ EdgeTo(c[m], Next1(c, m)).v = Next1(c, m)
                         /\ EdgeTo(c[m], Next1(c, m)).value \in Int
    BY <1>2, CycleFacts
  <2> QED BY <2>1, <2>2, <2>3
<1> HIDE DEF e
<1>5. /\ dist \in [V -> Dist] /\ D \in Dist
      /\ \A m \in 0..N : t[m] \in Dist /\ Plus(D, t[m]) \in Dist /\ at(m) \in V /\ dist[at(m)] \in Dist
  <2>1. dist \in [V -> Dist]
    BY DEF TypeOK, Dist
  <2>2. \A m \in 0..N : at(m) \in V
    BY <1>3
  <2>3. c[1] \in V
    BY <1>3
  <2>4. D \in Dist
    BY <2>1, <2>3
  <2> QED BY <2>1, <2>2, <2>4, <1>4, PlusFacts
<1>6. 0 \in T
  <2>1. t[0] = Zero /\ at(0) = c[1]
    BY <1>3, <1>4
  <2>2. Plus(D, t[0]) = D
    BY <2>1, <1>5, PlusFacts
  <2> QED BY <2>1, <2>2, <1>5, LessOrder
<1>7. ASSUME NEW m \in Nat, m \in T PROVE m + 1 \in T
  <2> SUFFICES ASSUME m + 1 <= N PROVE ~Less(Plus(D, t[m + 1]), dist[at(m + 1)])
    OBVIOUS
  <2> DEFINE i == m + 1
             f == e(i)
  <2>1. i \in 1..N /\ i \in 0..N /\ m \in 0..N /\ i - 1 = m /\ at(m) = c[i]
    BY <1>3
  <2>2. f \in ToSet(edges[c[i]]) /\ f.v = at(i) /\ f.value \in Int /\ t[i] = Add(t[m], f.value)
    BY <2>1, <1>4
  <2>4. Plus(D, t[i]) = Add(Plus(D, t[m]), f.value)
    BY <2>1, <2>2, <1>5, PlusFacts
  <2>5. ~Less(Add(dist[c[i]], f.value), dist[at(i)])
    <3>1. c[i] \in V
      BY <2>1, <1>5
    <3> QED BY <2>2, <3>1 DEF Improving
  <2>6. ~Less(Plus(D, t[m]), dist[c[i]])
    BY <2>1, <1>7
  <2> HIDE DEF i, f, at, D
  <2>7. ~Less(Add(Plus(D, t[m]), f.value), Add(dist[c[i]], f.value))
    BY <2>1, <2>2, <2>6, <1>5, LessAdd
  <2>8. /\ Add(Plus(D, t[m]), f.value) \in Dist /\ Add(dist[c[i]], f.value) \in Dist /\ dist[at(i)] \in Dist
    BY <2>1, <2>2, <1>5, AddType
  <2>9. ~Less(Plus(D, t[i]), dist[at(i)])
    BY <2>4, <2>5, <2>7, <2>8, LessOrder
  <2> QED BY <2>9 DEF i, at, D
<1>8. \A m \in Nat : m \in T
  <2> HIDE DEF T
  <2> QED BY <1>6, <1>7, Induction
<1>9. ~Less(Plus(D, t[N]), D)
  <2>1. N \in T
    BY <1>8
  <2> QED BY <2>1
<1> QED BY <1>4, <1>5, <1>9, PlusFacts

\* From a vertex below v the forest leads up to v.
LEMMA ClimbExists ==
    ASSUME NEW P, NEW v \in V, NEW w \in Below(P, v)
    PROVE  \E n \in Nat \ {0} : \E a : Climbs(P, a, n) /\ a[0] = w /\ a[n] = v
<1> DEFINE Up(x, n, a) == Climbs(P, a, n) /\ a[0] = x /\ a[n] = v
           S == {x \in V : \E n \in Nat \ {0} : \E a : Up(x, n, a)}
<1>1. ASSUME NEW x \in V, P[x] = v PROVE x \in S
  <2> DEFINE a == [i \in 0..1 |-> IF i = 0 THEN x ELSE v]
  <2>1. a \in [0..1 -> V] /\ a[0] = x /\ a[1] = v /\ \A i \in 1..1 : i = 1 /\ i - 1 = 0
    OBVIOUS
  <2> HIDE DEF a
  <2>2. Up(x, 1, a)
    BY <2>1, <1>1 DEF Climbs
  <2> QED BY <2>2
<1>2. ASSUME NEW x \in V, P[x] \in S PROVE x \in S
  <2>0. PICK n \in Nat \ {0} : \E a : Up(P[x], n, a)
    BY <1>2
  <2>1. PICK a : Up(P[x], n, a)
    BY <2>0
  <2>2. a \in [0..n -> V] /\ a[0] = P[x] /\ a[n] = v /\ \A i \in 1..n : P[a[i - 1]] = a[i]
    BY <2>1 DEF Climbs
  <2> DEFINE b == [i \in 0..(n + 1) |-> IF i = 0 THEN x ELSE a[i - 1]]
  <2>3. b \in [0..(n + 1) -> V] /\ b[0] = x /\ b[n + 1] = v
    BY <2>2
  <2>4. ASSUME NEW i \in 1..(n + 1) PROVE P[b[i - 1]] = b[i]
    <3>1. CASE i = 1
      BY <3>1, <2>2
    <3>2. CASE i # 1
      <4>1. i - 1 \in 1..n /\ b[i] = a[i - 1] /\ b[i - 1] = a[(i - 1) - 1]
        BY <3>2
      <4> QED BY <4>1, <2>2
    <3> QED BY <3>1, <3>2
  <2> HIDE DEF b
  <2>5. Up(x, n + 1, b) /\ n + 1 \in Nat \ {0}
    BY <2>3, <2>4 DEF Climbs
  <2> HIDE DEF Up
  <2> QED BY <2>5
<1>3. S \in SUBSET V
  OBVIOUS
<1> HIDE DEF S
<1>4. Below(P, v) \subseteq S
  BY <1>1, <1>2, <1>3, BelowLeast
<1> QED BY <1>4 DEF S

\* An improving edge from u to v closes a negative cycle when u hangs below v: the
\* edges of the forest between them are tight.
LEMMA ClosedCycle ==
    ASSUME TypeOK, Simple, ForestTight, Acyclic, u \in V, NEW e \in ToSet(edges[u]),
           Less(Sum(e), dist[e.v]), u \in Subtree(e.v)
    PROVE  NegativeCycle
<1> DEFINE v == e.v
           D == dist[v]
<1>1. v \in V /\ e.value \in Int /\ Sum(e) \in Dist /\ dist \in [V -> Dist] /\ D \in Dist /\ Dim \in Nat /\ NoVertex \notin V
  <2>1. v \in V /\ e.value \in Int /\ Sum(e) \in Dist
    BY EdgeFacts DEF Sum
  <2>2. dist \in [V -> Dist]
    BY DEF TypeOK, Dist
  <2> QED BY <2>1, <2>2, TarjanAssumption DEF V, NoVertex
<1>a. PICK n \in Nat \ {0} : \E a : Climbs(parent, a, n) /\ a[0] = u /\ a[n] = v
  BY <1>1, ClimbExists DEF Subtree
<1>2. PICK a : Climbs(parent, a, n) /\ a[0] = u /\ a[n] = v
  BY <1>a
<1>3. a \in [0..n -> V] /\ a[0] = u /\ a[n] = v /\ \A i \in 1..n : parent[a[i - 1]] = a[i]
  BY <1>2 DEF Climbs
<1>4. \A i, j \in 0..n : i < j => a[i] # a[j]
  <2> SUFFICES ASSUME NEW i \in 0..n, NEW j \in 0..n, i < j PROVE a[i] # a[j]
    OBVIOUS
  <2>1. a[i] \in Below(parent, a[j]) /\ a[j] \in V
    BY <1>2, <1>3, ClimbBelow
  <2> QED BY <2>1 DEF Acyclic, Subtree
\* The cycle: down from v to u, and back.
<1>5. PICK N \in Nat : N = n + 1
  BY <1>2
<1> DEFINE c == [m \in 1..N |-> a[N - m]]
           at(m) == IF m = N THEN c[1] ELSE c[m + 1]
<1>6. c \in [1..N -> V] /\ c[1] = v /\ c[N] = u /\ N >= 2
  BY <1>3, <1>5
<1>7. \A i, j \in 1..N : c[i] = c[j] => i = j
  <2> SUFFICES ASSUME NEW i \in 1..N, NEW j \in 1..N, i # j, c[i] = c[j] PROVE FALSE
    OBVIOUS
  <2>1. c[i] = a[N - i] /\ c[j] = a[N - j] /\ N - i \in 0..n /\ N - j \in 0..n
    BY <1>5
  <2>2. N - i < N - j \/ N - j < N - i
    BY <1>5
  <2> QED BY <2>1, <2>2, <1>4
<1>8. N <= Dim
  <2> HIDE DEF c
  <2>1. c \in Injection(1..N, V)
    <3>1. DOMAIN c = 1..N
      BY <1>6
    <3> QED BY <3>1, <1>6, <1>7 DEF Injection, IsInjective
  <2>2. Cardinality(1..N) <= Dim
    BY <2>1, VertexCount, FS_Injection
  <2>3. Cardinality(1..N) = N
    <3>1. 1 \in Int /\ N \in Int /\ N >= 1
      BY <1>6
    <3> QED BY <3>1, FS_Interval
  <2> QED BY <2>2, <2>3
\* Its edges, which are tight but for the last.
<1>9. ASSUME NEW m \in 1..N, m # N
      PROVE  \E f \in ToSet(edges[c[m]]) : f.v = c[m + 1] /\ dist[c[m + 1]] = Add(dist[c[m]], f.value)
  <2>1. N - m \in 1..n /\ c[m] = a[N - m] /\ c[m + 1] = a[(N - m) - 1] /\ (N - m) - 1 \in 0..n
    BY <1>5, <1>9
  <2>2. parent[c[m + 1]] = c[m] /\ c[m] \in V /\ c[m + 1] \in V
    BY <2>1, <1>3
  <2> HIDE DEF c
  <2> QED BY <2>2, <1>1 DEF ForestTight
<1> HIDE DEF c
<1>10. ASSUME NEW m \in 1..N
       PROVE  /\ \E f \in ToSet(edges[c[m]]) : f.v = at(m)
              /\ EdgeTo(c[m], at(m)).value \in Int
              /\ m # N => dist[at(m)] = Add(dist[c[m]], EdgeTo(c[m], at(m)).value)
              /\ m = N => Sum(e) = Add(dist[c[m]], EdgeTo(c[m], at(m)).value)
  <2>1. PICK f \in ToSet(edges[c[m]]) : /\ f.v = at(m)
                                        /\ m # N => dist[at(m)] = Add(dist[c[m]], f.value)
                                        /\ m = N => f = e
    <3>1. CASE m = N
      BY <3>1, <1>6
    <3>2. CASE m # N
      BY <3>2, <1>9
    <3> QED BY <3>1, <3>2
  <2>2. c[m] \in V
    BY <1>6
  <2>3. \A g \in ToSet(edges[c[m]]) : g.v = at(m) => g = f
    BY <2>1, <2>2 DEF Simple, ToSet
  <2>4. EdgeTo(c[m], at(m)) = f
    <3> DEFINE w == at(m)
    <3> HIDE DEF at
    <3> QED BY <2>1, <2>3, Zenon DEF EdgeTo
  <2>5. f.value \in Int
    BY <2>2, EdgeFacts
  <2>6. m = N => Sum(e) = Add(dist[c[m]], f.value)
    BY <2>1, <1>6 DEF Sum
  <2> QED BY <2>1, <2>4, <2>5, <2>6
<1>11. Len(c) = N /\ DOMAIN c = 1..N
  BY <1>6
<1>12. \A m : Next1(c, m) = at(m)
  BY <1>11 DEF Next1
<1>13. c \in Cycles
  <2>1. N \in 2..Dim /\ c \in UNION {[1..i -> V] : i \in 2..Dim}
    BY <1>1, <1>6, <1>8
  <2>2. \A m \in DOMAIN c : Linked(c[m], Next1(c, m))
    BY <1>10, <1>11, <1>12 DEF Linked
  <2>3. \A i, j \in DOMAIN c : i # j => c[i] # c[j]
    BY <1>7, <1>11
  <2> QED BY <2>1, <2>2, <2>3 DEF Cycles
<1>14. PICK t : TotalSteps(c, t) /\ Total(c) = t[Len(c)]
  BY <1>13, TotalDef
<1>15. t \in [0..N -> Dist] /\ t[0] = Zero /\ Total(c) = t[N] /\ \A m \in 1..N : t[m] = Add(t[m - 1], EdgeTo(c[m], at(m)).value)
  BY <1>11, <1>12, <1>14 DEF TotalSteps
<1> DEFINE T == {m \in Nat : m < N => Plus(D, t[m]) = dist[c[m + 1]]}
<1>16. 0 \in T
  <2>1. Plus(D, t[0]) = D
    BY <1>1, <1>15, PlusFacts
  <2> QED BY <2>1, <1>6
<1>17. ASSUME NEW m \in Nat, m \in T PROVE m + 1 \in T
  <2> SUFFICES ASSUME m + 1 < N PROVE Plus(D, t[m + 1]) = dist[c[(m + 1) + 1]]
    OBVIOUS
  <2> DEFINE i == m + 1
             f == EdgeTo(c[i], at(i))
  <2>1. i \in 1..N /\ i # N /\ i - 1 = m /\ m \in 0..N /\ at(i) = c[i + 1]
    OBVIOUS
  <2>2. dist[c[i + 1]] = Add(dist[c[i]], f.value) /\ f.value \in Int /\ t[i] = Add(t[m], f.value) /\ t[m] \in Dist
    BY <2>1, <1>10, <1>15
  <2>3. Plus(D, t[m]) = dist[c[i]]
    BY <1>17
  <2> HIDE DEF f, D
  <2> QED BY <2>2, <2>3, <1>1, PlusFacts
<1>18. \A m \in Nat : m \in T
  <2> HIDE DEF T
  <2> QED BY <1>16, <1>17, Induction
<1>19. Plus(D, t[N]) = Sum(e)
  <2>1. N - 1 \in Nat /\ N - 1 < N /\ (N - 1) + 1 = N /\ N \in 1..N /\ N - 1 \in 0..N
    BY <1>6
  <2>2. Plus(D, t[N - 1]) = dist[c[N]]
    <3>1. N - 1 \in T
      BY <1>18, <2>1
    <3>2. Plus(D, t[N - 1]) = dist[c[(N - 1) + 1]]
      BY <2>1, <3>1
    <3> QED BY <2>1, <3>2
  <2> DEFINE f == EdgeTo(c[N], at(N))
  <2>3. Sum(e) = Add(dist[c[N]], f.value) /\ f.value \in Int /\ t[N] = Add(t[N - 1], f.value) /\ t[N - 1] \in Dist
    BY <2>1, <1>10, <1>15
  <2> HIDE DEF f, D
  <2> QED BY <2>2, <2>3, <1>1, PlusFacts
<1>20. t[N] \in Dist /\ Less(Plus(D, t[N]), D)
  BY <1>6, <1>15, <1>19
<1>21. t[N].value < 0 \/ (t[N].value = 0 /\ t[N].strictness > 0)
  <2> HIDE DEF D
  <2> QED BY <1>1, <1>20, PlusFacts
<1> QED BY <1>13, <1>15, <1>21 DEF NegativeCycle

-----------------------------------------------------------------------------
(* The invariant.                                                          *)

\* Whether there is a negative cycle depends on the edges only.
LEMMA SameGraph == ASSUME edges' = edges PROVE NegativeCycle' <=> NegativeCycle
<1>1. Cycles' = Cycles
  BY DEF Cycles, Linked, Next1
<1>2. \A c : Total(c)' = Total(c)
  BY Zenon DEF Total, EdgeTo
<1> QED BY <1>1, <1>2, Zenon DEF NegativeCycle

\* Nothing hangs below anything in the empty forest.
LEMMA NoForestBelow == ASSUME NEW r \in V PROVE Below(NoForest, r) = {}
<1>1. NoVertex \notin V
  BY TarjanAssumption DEF V, NoVertex
<1>2. \A x \in V : NoForest[x] = r \/ NoForest[x] \in {} => x \in {}
  BY <1>1 DEF NoForest
<1>3. {} \in SUBSET V
  OBVIOUS
<1>4. Below(NoForest, r) \subseteq {}
  BY <1>2, <1>3, BelowLeast
<1> QED BY <1>4

\* Between tests the parts of the invariant about a test hold trivially.
LEMMA IdleParts ==
    ASSUME ~running, Idle, fifo \in Seq(V)
    PROVE  ForestTight /\ Acyclic /\ QueuedAreLeaves /\ Followed /\ Pending /\ Passes
<1>1. parent = NoForest /\ u = NoVertex /\ NoVertex \notin V /\ \A x \in V : parent[x] = NoVertex
  BY TarjanAssumption DEF Idle, NoForest, V, NoVertex
<1>2. ToSet(fifo) \subseteq V
  BY DEF ToSet
<1>3. Acyclic
  BY <1>1, NoForestBelow DEF Acyclic, Subtree
<1> QED BY <1>1, <1>2, <1>3 DEF ForestTight, QueuedAreLeaves, Followed, Pending, Passes

\* The same, after a step that ends or stays outside a test.
LEMMA IdlePartsNext ==
    ASSUME ~running', Idle', fifo' \in Seq(V)
    PROVE  ForestTight' /\ Acyclic' /\ QueuedAreLeaves' /\ Followed' /\ Pending' /\ Passes'
<1>1. parent' = NoForest /\ u' = NoVertex /\ NoVertex \notin V /\ \A x \in V : parent'[x] = NoVertex
  BY TarjanAssumption DEF Idle, NoForest, V, NoVertex
<1>2. ToSet(fifo') \subseteq V
  BY DEF ToSet
<1>3. Acyclic'
  BY <1>1, NoForestBelow DEF Acyclic, Subtree
<1> QED BY <1>1, <1>2, <1>3 DEF ForestTight, QueuedAreLeaves, Followed, Pending, Passes

\* cdd_tarjan_init: no edges, distances zero, an empty queue.
LEMMA Initially == Init => IInv
<1> SUFFICES ASSUME Init PROVE IInv
  OBVIOUS
<1> DEFINE E == [v : V, value : Bound]
<1>1. TypeOK
  <2>1. edges \in [V -> Seq(E)] /\ dist \in [V -> [value : Int, strictness : Nat]]
    BY DEF Init, Zero
  <2>2. fifo \in Seq(V) /\ IsInjective(fifo) /\ parent \in [V -> V \cup {NoVertex}] /\ u \in V \cup {NoVertex} /\ k \in Nat \ {0}
    BY DEF Init, NoForest, IsInjective
  <2>3. running \in BOOLEAN /\ verdict \in {0, 1, 2}
    BY DEF Init
  <2> QED BY <2>1, <2>2, <2>3 DEF TypeOK
<1>2. scans \in Nat /\ Simple /\ Idle /\ ~running /\ VerdictExact
  BY DEF Init, Simple, Idle, VerdictExact
<1>3. ForestTight /\ Acyclic /\ QueuedAreLeaves /\ Followed /\ Pending /\ Passes
  BY <1>1, <1>2, IdleParts DEF TypeOK
<1>4. QueueCovers
  BY DEF Init, QueueCovers, Improving, ToSet
<1> QED BY <1>1, <1>2, <1>3, <1>4 DEF IInv

\* Pushing a constraint: an improving edge queues its vertex.
LEMMA PushStep == ASSUME IInv, NEW i \in V, NEW j \in V, NEW c \in Bound, Push(i, j, c) PROVE IInv'
<1> DEFINE E == [v : V, value : Bound]
           new == [v |-> j, value |-> c]
<1>1. /\ ~running /\ i # j /\ (\A e \in ToSet(edges[i]) : e.v # j)
      /\ edges' = [edges EXCEPT ![i] = Append(edges[i], new)]
      /\ fifo' = IF i \notin ToSet(fifo) /\ Less(Add(dist[i], c), dist[j]) THEN Append(fifo, i) ELSE fifo
      /\ verdict' = 2 /\ UNCHANGED <<dist, parent, u, k, running, scans>>
  BY DEF Push
<1>2. TypeOK /\ scans \in Nat /\ Simple /\ Idle /\ QueueCovers
  BY DEF IInv
<1>3. edges \in [V -> Seq(E)] /\ edges[i] \in Seq(E) /\ new \in E /\ fifo \in Seq(V) /\ IsInjective(fifo)
  BY <1>2 DEF TypeOK
<1>4. /\ Append(edges[i], new) \in Seq(E) /\ ToSet(Append(edges[i], new)) = ToSet(edges[i]) \cup {new}
      /\ DOMAIN Append(edges[i], new) = 1..(Len(edges[i]) + 1) /\ DOMAIN edges[i] = 1..Len(edges[i]) /\ Len(edges[i]) \in Nat
      /\ Append(edges[i], new)[Len(edges[i]) + 1] = new
      /\ \A n \in 1..Len(edges[i]) : Append(edges[i], new)[n] = edges[i][n]
  <2> DEFINE s == edges[i]
  <2> HIDE DEF s, E, new
  <2>1. s \in Seq(E) /\ new \in E
    BY <1>3 DEF s
  <2>2. Append(s, new) \in Seq(E) /\ ToSet(Append(s, new)) = ToSet(s) \cup {new}
    BY <2>1, AppendNew
  <2>3. Len(Append(s, new)) = Len(s) + 1 /\ Len(s) \in Nat /\ Append(s, new)[Len(s) + 1] = new /\ \A n \in 1..Len(s) : Append(s, new)[n] = s[n]
    BY <2>1, AppendProperties
  <2>4. DOMAIN Append(s, new) = 1..(Len(s) + 1) /\ DOMAIN s = 1..Len(s)
    BY <2>1, <2>2, <2>3
  <2> QED BY <2>2, <2>3, <2>4 DEF s
<1>5. edges' \in [V -> Seq(E)] /\ edges'[i] = Append(edges[i], new) /\ \A y \in V : y # i => edges'[y] = edges[y]
  <2> HIDE DEF E, new
  <2> QED BY <1>1, <1>3, <1>4
<1>6. fifo' \in Seq(V) /\ IsInjective(fifo') /\ ToSet(fifo) \subseteq ToSet(fifo')
  <2>1. CASE i \notin ToSet(fifo) /\ Less(Add(dist[i], c), dist[j])
    BY <2>1, <1>1, <1>3, AppendNew
  <2>2. CASE ~(i \notin ToSet(fifo) /\ Less(Add(dist[i], c), dist[j]))
    BY <2>2, <1>1, <1>3
  <2> QED BY <2>1, <2>2
<1>7. TypeOK'
  BY <1>1, <1>2, <1>5, <1>6 DEF TypeOK
<1>8. Simple'
  <2> SUFFICES ASSUME NEW y \in V, NEW a \in DOMAIN edges'[y], NEW b \in DOMAIN edges'[y]
               PROVE  edges'[y][a].v # y /\ (edges'[y][a].v = edges'[y][b].v => a = b)
    BY DEF Simple
  <2>1. CASE y # i
    <3>1. edges'[y] = edges[y] /\ a \in DOMAIN edges[y] /\ b \in DOMAIN edges[y]
      BY <2>1, <1>5
    <3>2. edges[y][a].v # y /\ (edges[y][a].v = edges[y][b].v => a = b)
      BY <3>1, <1>2 DEF Simple
    <3> QED BY <3>1, <3>2
  <2>2. CASE y = i
    <3> DEFINE L == Len(edges[i])
    <3>1. a \in 1..(L + 1) /\ b \in 1..(L + 1)
      BY <2>2, <1>4, <1>5
    <3>2. \A n \in 1..L : edges'[i][n] = edges[i][n] /\ edges[i][n].v # i /\ edges[i][n].v # j
      <4> SUFFICES ASSUME NEW n \in 1..L PROVE edges'[i][n] = edges[i][n] /\ edges[i][n].v # i /\ edges[i][n].v # j
        OBVIOUS
      <4>1. edges[i][n] \in ToSet(edges[i]) /\ n \in DOMAIN edges[i]
        BY <1>4 DEF ToSet
      <4> QED BY <4>1, <1>1, <1>2, <1>4, <1>5 DEF Simple
    <3>3. edges'[i][L + 1].v = j
      BY <1>4, <1>5
    <3>4. \A n, m \in 1..L : edges[i][n].v = edges[i][m].v => n = m
      BY <1>2, <1>4 DEF Simple
    <3>5. \A n \in 1..(L + 1) : n \in 1..L \/ n = L + 1
      BY <1>4
    <3> QED BY <2>2, <3>1, <3>2, <3>3, <3>4, <3>5, <1>1
  <2> QED BY <2>1, <2>2
<1>9. scans' \in Nat /\ Idle' /\ ~running' /\ VerdictExact'
  BY <1>1, <1>2 DEF Idle, VerdictExact
<1>10. ForestTight' /\ Acyclic' /\ QueuedAreLeaves' /\ Followed' /\ Pending' /\ Passes'
  BY <1>6, <1>9, IdlePartsNext
<1>11. QueueCovers'
  <2> SUFFICES ASSUME NEW y \in V, Improving(y, dist)' PROVE y \in ToSet(fifo')
    BY DEF QueueCovers
  <2>1. PICK e \in ToSet(edges'[y]) : Less(Add(dist[y], e.value), dist[e.v])
    BY <1>1 DEF Improving
  <2>2. CASE e \in ToSet(edges[y])
    <3>1. y \in ToSet(fifo)
      BY <2>1, <2>2, <1>1, <1>2 DEF QueueCovers, Improving
    <3> QED BY <3>1, <1>6
  <2>3. CASE e \notin ToSet(edges[y])
    <3>1. y = i /\ e = new
      <4> HIDE DEF new, E
      <4>1. y = i
        BY <2>1, <2>3, <1>5
      <4>2. ToSet(edges'[i]) = ToSet(edges[i]) \cup {new}
        BY <1>4, <1>5
      <4> QED BY <4>1, <4>2, <2>1, <2>3
    <3>2. Less(Add(dist[i], c), dist[j])
      BY <2>1, <3>1
    <3>3. CASE i \in ToSet(fifo)
      BY <3>1, <3>3, <1>6
    <3>4. CASE i \notin ToSet(fifo)
      BY <3>1, <3>2, <3>4, <1>1, <1>3, AppendNew
    <3> QED BY <3>3, <3>4
  <2> QED BY <2>2, <2>3
<1> QED BY <1>7, <1>8, <1>9, <1>10, <1>11 DEF IInv

\* Popping a constraint: an edge less improves nothing.
LEMMA PopStep == ASSUME IInv, NEW i \in V, Pop(i) PROVE IInv'
<1> DEFINE E == [v : V, value : Bound]
<1>1. /\ ~running /\ edges[i] # <<>> /\ edges' = [edges EXCEPT ![i] = Front(edges[i])]
      /\ verdict' = 2 /\ UNCHANGED <<dist, fifo, parent, u, k, running, scans>>
  BY DEF Pop
<1>2. TypeOK /\ scans \in Nat /\ Simple /\ Idle /\ QueueCovers
  BY DEF IInv
<1>3. edges \in [V -> Seq(E)] /\ edges[i] \in Seq(E) /\ fifo \in Seq(V) /\ IsInjective(fifo)
  BY <1>2 DEF TypeOK
<1>4. /\ Front(edges[i]) \in Seq(E) /\ DOMAIN Front(edges[i]) \subseteq DOMAIN edges[i]
      /\ \A n \in DOMAIN Front(edges[i]) : Front(edges[i])[n] = edges[i][n]
  <2> DEFINE s == edges[i]
  <2> HIDE DEF s, E
  <2>1. s \in Seq(E) /\ s # <<>>
    BY <1>1, <1>3 DEF s
  <2>2. Len(s) \in Nat /\ Len(s) > 0 /\ DOMAIN s = 1..Len(s)
    BY <2>1, EmptySeq
  <2>3. \A n \in 1..(Len(s) - 1) : n \in 1..Len(s) /\ s[n] \in E
    BY <2>1, <2>2
  <2>4. Front(s) = [n \in 1..(Len(s) - 1) |-> s[n]]
    BY <2>1, <2>2 DEF Front
  <2>5. Front(s) \in Seq(E)
    BY <2>2, <2>3, <2>4
  <2>6. DOMAIN Front(s) = 1..(Len(s) - 1) /\ \A n \in 1..(Len(s) - 1) : Front(s)[n] = s[n]
    BY <2>4
  <2> QED BY <2>2, <2>3, <2>5, <2>6 DEF s
<1>5. edges' \in [V -> Seq(E)] /\ edges'[i] = Front(edges[i]) /\ \A y \in V : y # i => edges'[y] = edges[y]
  <2> HIDE DEF E
  <2> QED BY <1>1, <1>3, <1>4
<1>6. \A y \in V : DOMAIN edges'[y] \subseteq DOMAIN edges[y] /\ \A n \in DOMAIN edges'[y] : edges'[y][n] = edges[y][n]
  <2> SUFFICES ASSUME NEW y \in V
               PROVE  DOMAIN edges'[y] \subseteq DOMAIN edges[y] /\ \A n \in DOMAIN edges'[y] : edges'[y][n] = edges[y][n]
    OBVIOUS
  <2>1. CASE y = i
    BY <2>1, <1>4, <1>5
  <2>2. CASE y # i
    BY <2>2, <1>5
  <2> QED BY <2>1, <2>2
<1>7. TypeOK'
  BY <1>1, <1>2, <1>5 DEF TypeOK
<1>8. Simple'
  <2> SUFFICES ASSUME NEW y \in V, NEW a \in DOMAIN edges'[y], NEW b \in DOMAIN edges'[y]
               PROVE  edges'[y][a].v # y /\ (edges'[y][a].v = edges'[y][b].v => a = b)
    BY DEF Simple
  <2>1. a \in DOMAIN edges[y] /\ b \in DOMAIN edges[y] /\ edges'[y][a] = edges[y][a] /\ edges'[y][b] = edges[y][b]
    BY <1>6
  <2>2. edges[y][a].v # y /\ (edges[y][a].v = edges[y][b].v => a = b)
    BY <2>1, <1>2 DEF Simple
  <2> QED BY <2>1, <2>2
<1>9. scans' \in Nat /\ Idle' /\ ~running' /\ VerdictExact'
  BY <1>1, <1>2 DEF Idle, VerdictExact
<1>10. ForestTight' /\ Acyclic' /\ QueuedAreLeaves' /\ Followed' /\ Pending' /\ Passes'
  <2>1. fifo' \in Seq(V)
    BY <1>1, <1>3
  <2> QED BY <2>1, <1>9, IdlePartsNext
<1>11. QueueCovers'
  <2> SUFFICES ASSUME NEW y \in V, Improving(y, dist)' PROVE y \in ToSet(fifo)
    BY <1>1 DEF QueueCovers
  <2>1. PICK e \in ToSet(edges'[y]) : Less(Add(dist[y], e.value), dist[e.v])
    BY <1>1 DEF Improving
  <2>2. PICK n \in DOMAIN edges'[y] : e = edges'[y][n]
    BY DEF ToSet
  <2>3. e \in ToSet(edges[y])
    BY <2>2, <1>6 DEF ToSet
  <2> QED BY <2>1, <2>3, <1>1, <1>2 DEF QueueCovers, Improving
<1> QED BY <1>7, <1>8, <1>9, <1>10, <1>11 DEF IInv

\* A graph that does not change keeps no loops and no parallel edges.
LEMMA SameSimple == ASSUME Simple, edges' = edges PROVE Simple'
BY DEF Simple

\* An edge of the vertex that is scanned has a position.
LEMMA EdgePlace ==
    ASSUME TypeOK, u \in V, NEW n \in DOMAIN edges[u]
    PROVE  u # NoVertex /\ k \in Nat /\ n \in Nat /\ edges[u][n] \in ToSet(edges[u])
<1>1. edges[u] \in Seq([v : V, value : Bound]) /\ u # NoVertex /\ k \in Nat
  <2>1. NoVertex \notin V
    BY TarjanAssumption DEF V, NoVertex
  <2> QED BY <2>1 DEF TypeOK
<1>2. DOMAIN edges[u] = 1..Len(edges[u]) /\ Len(edges[u]) \in Nat
  BY <1>1
<1> QED BY <1>1, <1>2 DEF ToSet

\* What a step of a test that leaves the distances alone has to show: the same
\* vertices with an improving edge are queued or being scanned.
LEMMA SamePending ==
    ASSUME TypeOK, running, Pending, edges' = edges, dist' = dist,
           \A y \in V : Improving(y, dist) => (y \in Active' <=> y \in Active)
    PROVE  Pending'
<1> SUFFICES ASSUME NEW i \in V, Improving(i, dist)', i \notin Active', NEW S \in SUBSET V, Leads(dist, Active, S)'
             PROVE  i \in S
  BY DEF Pending
<1>1. Improving(i, dist) /\ i \notin Active
  BY DEF Improving
<1>2. Leads(dist, Active, S)
  <2> SUFFICES ASSUME NEW y \in V, NEW e \in ToSet(edges[y]),
                      \/ y \in Active /\ Less(Add(dist[y], e.value), dist[e.v])
                      \/ y \in S /\ ~Less(dist[e.v], Add(dist[y], e.value))
               PROVE  e.v \in S
    BY DEF Leads
  <2>1. \A z \in V : \A f \in ToSet(edges[z]) :
            \/ z \in Active' /\ Less(Add(dist[z], f.value), dist[f.v])
            \/ z \in S /\ ~Less(dist[f.v], Add(dist[z], f.value))
            => f.v \in S
    BY Zenon DEF Leads
  <2>2. CASE y \in Active /\ Less(Add(dist[y], e.value), dist[e.v])
    <3>1. y \in Active'
      BY <2>2 DEF Improving
    <3> QED BY <3>1, <2>1, <2>2
  <2>3. CASE y \in S /\ ~Less(dist[e.v], Add(dist[y], e.value))
    BY <2>1, <2>3
  <2> QED BY <2>2, <2>3
<1> QED BY <1>1, <1>2 DEF Pending

\* What a step leaves alone stays as it is.
LEMMA SameVerdict ==
    ASSUME VerdictExact, edges' = edges, verdict' = verdict
    PROVE  VerdictExact'
BY SameGraph DEF VerdictExact

\* A test starts with every vertex that has an improving edge in the queue.
LEMMA StartStep == ASSUME IInv, Start PROVE IInv'
<1>1. /\ ~running /\ running' = TRUE
      /\ UNCHANGED <<edges, dist, fifo, parent, u, k, verdict, scans>>
  BY DEF Start
<1>2. /\ TypeOK /\ scans \in Nat /\ Simple /\ Idle /\ ForestTight /\ Acyclic /\ QueuedAreLeaves
      /\ Followed /\ QueueCovers /\ VerdictExact
  BY DEF IInv
<1>3. TypeOK' /\ scans' \in Nat /\ Simple' /\ Idle' /\ QueueCovers'
  <2>1. TypeOK' /\ scans' \in Nat
    BY <1>1, <1>2 DEF TypeOK
  <2>2. Simple'
    BY <1>1, <1>2, SameSimple
  <2> QED BY <1>1, <2>1, <2>2 DEF Idle, QueueCovers
<1>4. ForestTight' /\ Acyclic' /\ QueuedAreLeaves' /\ Followed'
  BY <1>1, <1>2 DEF ForestTight, Acyclic, QueuedAreLeaves, Followed, Subtree, Below
<1>5. Pending'
  BY <1>1, <1>2 DEF Pending, QueueCovers, Improving, Active
<1>6. Passes'
  BY <1>2, StartPasses
<1>7. VerdictExact'
  BY <1>1, <1>2, SameVerdict
<1> QED BY <1>3, <1>4, <1>5, <1>6, <1>7 DEF IInv

\* Taking a vertex from the queue.
LEMMA DequeueStep == ASSUME IInv, Dequeue PROVE IInv'
<1>1. /\ running /\ u = NoVertex /\ fifo # <<>> /\ u' = Head(fifo) /\ k' = 1 /\ fifo' = Tail(fifo)
      /\ scans' = scans + 1 /\ UNCHANGED <<edges, dist, parent, running, verdict>>
  BY DEF Dequeue
<1>2. /\ TypeOK /\ scans \in Nat /\ Simple /\ Idle /\ ForestTight /\ Acyclic /\ QueuedAreLeaves
      /\ QueueCovers /\ Pending /\ Passes /\ VerdictExact
  BY DEF IInv
<1>3. fifo \in Seq(V) /\ IsInjective(fifo) /\ NoVertex \notin V
  BY <1>2, TarjanAssumption DEF TypeOK, V, NoVertex
<1>4. /\ Head(fifo) \in V /\ Tail(fifo) \in Seq(V) /\ IsInjective(Tail(fifo))
      /\ ToSet(fifo) = ToSet(Tail(fifo)) \cup {Head(fifo)} /\ Head(fifo) \notin ToSet(Tail(fifo))
  <2>1. Len(fifo) \in Nat /\ Len(fifo) > 0 /\ DOMAIN fifo = 1..Len(fifo)
    BY <1>1, <1>3, EmptySeq
  <2>2. Head(fifo) = fifo[1] /\ Tail(fifo) \in Seq(V) /\ Len(Tail(fifo)) = Len(fifo) - 1
        /\ \A n \in 1..(Len(fifo) - 1) : Tail(fifo)[n] = fifo[n + 1]
    BY <1>1, <1>3, <2>1, HeadTailProperties
  <2>3. DOMAIN Tail(fifo) = 1..(Len(fifo) - 1)
    BY <2>2
  <2>4. \A a, b \in 1..Len(fifo) : fifo[a] = fifo[b] => a = b
    BY <1>3, <2>1 DEF IsInjective
  <2>5. IsInjective(Tail(fifo))
    BY <2>1, <2>2, <2>3, <2>4 DEF IsInjective
  <2>6. fifo[1] \notin ToSet(Tail(fifo))
    BY <2>1, <2>2, <2>3, <2>4 DEF ToSet
  <2>7. \A x \in ToSet(Tail(fifo)) : x \in ToSet(fifo)
    BY <2>1, <2>2, <2>3 DEF ToSet
  <2>8. ASSUME NEW x \in ToSet(fifo) PROVE x \in ToSet(Tail(fifo)) \cup {fifo[1]}
    <3>1. PICK n \in 1..Len(fifo) : x = fifo[n]
      BY <2>1 DEF ToSet
    <3>2. CASE n = 1
      BY <3>1, <3>2
    <3>3. CASE n # 1
      <4>1. n - 1 \in 1..(Len(fifo) - 1) /\ Tail(fifo)[n - 1] = fifo[n]
        BY <3>1, <3>3, <2>1, <2>2
      <4> QED BY <4>1, <3>1, <2>3 DEF ToSet
    <3> QED BY <3>2, <3>3
  <2>9. fifo[1] \in ToSet(fifo) /\ fifo[1] \in V
    BY <1>3, <2>1 DEF ToSet
  <2> QED BY <2>2, <2>5, <2>6, <2>7, <2>8, <2>9
<1>5. TypeOK' /\ scans' \in Nat /\ Simple' /\ Idle' /\ QueueCovers'
  <2>1. TypeOK' /\ scans' \in Nat
    <3>1. k' \in Nat \ {0} /\ scans' \in Nat
      BY <1>1, <1>2
    <3> QED BY <3>1, <1>1, <1>2, <1>4, Zenon DEF TypeOK
  <2>2. Simple'
    BY <1>1, <1>2, SameSimple
  <2> QED BY <1>1, <2>1, <2>2 DEF Idle, QueueCovers
<1>6. ForestTight' /\ Acyclic'
  BY <1>1, <1>2 DEF ForestTight, Acyclic, Subtree, Below
<1>7. QueuedAreLeaves'
  BY <1>1, <1>2, <1>4 DEF QueuedAreLeaves
<1>8. Followed'
  <2>1. edges[Head(fifo)] \in Seq([v : V, value : Bound])
    BY <1>2, <1>4 DEF TypeOK
  <2>2. \A n \in DOMAIN edges[Head(fifo)] : ~(n < 1)
    BY <2>1
  <2> QED BY <1>1, <2>2 DEF Followed
<1>9. Pending'
  <2>1. Active' = Active
    BY <1>1, <1>3, <1>4 DEF Active
  <2> QED BY <2>1, <1>1, <1>2, SamePending
<1>10. Passes'
  BY <1>2, DequeuePasses
<1>11. VerdictExact'
  BY <1>1, <1>2, SameVerdict
<1> QED BY <1>5, <1>6, <1>7, <1>8, <1>9, <1>10, <1>11 DEF IInv

\* An edge that improves nothing.
LEMMA SkipStep ==
    ASSUME IInv, running, u \in V, k \in DOMAIN edges[u], FollowSkip(edges[u][k])
    PROVE  IInv'
<1> DEFINE e == edges[u][k]
<1>1. ~Less(Add(dist[u], e.value), dist[e.v]) /\ k' = k + 1 /\ UNCHANGED <<edges, dist, fifo, parent, u, running, verdict, scans>>
  BY DEF FollowSkip, Sum
<1>2. /\ TypeOK /\ scans \in Nat /\ Simple /\ Idle /\ ForestTight /\ Acyclic /\ QueuedAreLeaves
      /\ Followed /\ QueueCovers /\ Pending /\ Passes /\ VerdictExact
  BY DEF IInv
<1>3. TypeOK' /\ scans' \in Nat /\ Simple' /\ Idle' /\ QueueCovers'
  <2>1. TypeOK' /\ scans' \in Nat
    <3>1. k' \in Nat \ {0}
      BY <1>1, <1>2 DEF TypeOK
    <3> QED BY <3>1, <1>1, <1>2, Zenon DEF TypeOK
  <2>2. Simple'
    BY <1>1, <1>2, SameSimple
  <2> QED BY <1>1, <2>1, <2>2 DEF Idle, QueueCovers
<1>4. ForestTight' /\ Acyclic' /\ QueuedAreLeaves'
  BY <1>1, <1>2 DEF ForestTight, Acyclic, QueuedAreLeaves, Subtree, Below
<1>5. Followed'
  <2> SUFFICES ASSUME NEW n \in DOMAIN edges[u], n < k + 1
               PROVE  ~Less(Add(dist[u], edges[u][n].value), dist[edges[u][n].v])
    BY <1>1 DEF Followed
  <2>1. u # NoVertex /\ k \in Nat /\ n \in Nat
    BY <1>2, EdgePlace
  <2>2. CASE n = k
    BY <2>2, <1>1
  <2>3. CASE n # k
    <3>1. n < k
      BY <2>1, <2>3
    <3> QED BY <2>1, <3>1, <1>2 DEF Followed
  <2> QED BY <2>2, <2>3
<1>6. Pending'
  <2>1. Active' = Active
    BY <1>1 DEF Active
  <2> QED BY <2>1, <1>1, <1>2, SamePending
<1>7. Passes'
  BY <1>1, <1>2 DEF Passes, InPass
<1>8. VerdictExact'
  BY <1>1, <1>2, SameVerdict
<1> QED BY <1>3, <1>4, <1>5, <1>6, <1>7, <1>8 DEF IInv

\* The distance of one vertex v improves to s: nothing got worse.
LEMMA Improved ==
    ASSUME TypeOK, NEW v \in V, NEW s \in Dist, Less(s, dist[v]), dist' = [dist EXCEPT ![v] = s]
    PROVE  /\ dist' \in [V -> Dist] /\ dist'[v] = s /\ \A y \in V : y # v => dist'[y] = dist[y]
           /\ \A y \in V : dist'[y] = dist[y] \/ Less(dist'[y], dist[y])
BY DEF TypeOK, Dist

\* An edge that improves the distance of its target, which is not above u.
LEMMA ImproveStep ==
    ASSUME IInv, running, u \in V, k \in DOMAIN edges[u], edges[u][k] \in ToSet(edges[u]), FollowImprove(edges[u][k])
    PROVE  IInv'
<1> DEFINE e == edges[u][k]
<1>1. /\ Less(Sum(e), dist[e.v]) /\ u \notin Subtree(e.v) /\ dist' = [dist EXCEPT ![e.v] = Sum(e)]
      /\ parent' = [w \in V |-> IF w = e.v THEN u ELSE IF w \in Subtree(e.v) THEN NoVertex ELSE parent[w]]
      /\ fifo' = Disassembled(e.v) /\ k' = k + 1 /\ UNCHANGED <<edges, u, running, verdict, scans>>
  BY DEF FollowImprove
<1>2. /\ TypeOK /\ scans \in Nat /\ Simple /\ Idle /\ ForestTight /\ Acyclic /\ QueuedAreLeaves
      /\ Followed /\ QueueCovers /\ Pending /\ Passes /\ VerdictExact
  BY DEF IInv
<1>3. e.v \in V /\ e.v # u /\ Sum(e) \in Dist /\ e.value \in Int
  BY <1>2, EdgeFacts DEF Sum
<1>4. dist' \in [V -> Dist] /\ dist'[e.v] = Sum(e) /\ \A y \in V : y # e.v => dist'[y] = dist[y]
  BY <1>1, <1>2, <1>3, Improved
<1>5. TypeOK' /\ scans' \in Nat
  <2>1. fifo' \in Seq(V) /\ IsInjective(fifo')
    BY <1>1, <1>2, <1>3, DisassembledElements DEF Acyclic
  <2>2. parent' \in [V -> V \cup {NoVertex}]
    BY <1>1, <1>2 DEF TypeOK
  <2>3. edges' \in [V -> Seq([v : V, value : Bound])] /\ u' \in V \cup {NoVertex}
        /\ running' \in BOOLEAN /\ verdict' \in {0, 1, 2} /\ scans' \in Nat
    BY <1>1, <1>2, Zenon DEF TypeOK
  <2>4. k' \in Nat \ {0}
    BY <1>1, <1>2 DEF TypeOK
  <2> QED BY <1>4, <2>1, <2>2, <2>3, <2>4, Zenon DEF TypeOK, Dist
<1>6. Simple' /\ Idle' /\ QueueCovers'
  <2>1. Simple'
    BY <1>1, <1>2, SameSimple
  <2> QED BY <1>1, <2>1 DEF Idle, QueueCovers
<1>7. ForestTight' /\ Acyclic' /\ QueuedAreLeaves'
  BY <1>2, ImproveForest
<1>8. Followed'
  <2> SUFFICES ASSUME NEW n \in DOMAIN edges[u], n < k + 1
               PROVE  ~Less(Add(dist'[u], edges[u][n].value), dist'[edges[u][n].v])
    BY <1>1 DEF Followed
  <2>1. u # NoVertex /\ k \in Nat /\ n \in Nat /\ dist'[u] = dist[u]
    BY <1>2, <1>3, <1>4, EdgePlace
  <2>2. edges[u][n] \in ToSet(edges[u])
    BY <1>2, EdgePlace
  <2>3. edges[u][n].v \in V /\ Add(dist[u], edges[u][n].value) \in Dist /\ dist[edges[u][n].v] \in Dist
    BY <1>2, <2>2, EdgeFacts
  <2>4. CASE n = k
    BY <2>1, <2>4, <1>3, <1>4, LessOrder DEF Sum
  <2>5. CASE n # k
    <3>1. edges[u][n].v # e.v
      BY <2>5, <1>2 DEF Simple
    <3>2. n < k
      BY <2>1, <2>5
    <3>3. ~Less(Add(dist[u], edges[u][n].value), dist[edges[u][n].v])
      BY <2>1, <3>2, <1>2 DEF Followed
    <3> QED BY <2>1, <2>3, <3>1, <3>3, <1>4
  <2> QED BY <2>4, <2>5
<1>9. Pending'
  BY <1>2, ImprovePending
<1>10. Passes'
  BY <1>2, ImprovePasses
<1>11. VerdictExact'
  BY <1>1, <1>2, SameVerdict
<1> QED BY <1>5, <1>6, <1>7, <1>8, <1>9, <1>10, <1>11 DEF IInv

\* An edge that improves the distance of a vertex above u closes a negative cycle:
\* the test ends, and populateQueue leaves a queue that is good for the next one.
LEMMA CycleStep ==
    ASSUME IInv, running, u \in V, k \in DOMAIN edges[u], edges[u][k] \in ToSet(edges[u]), FollowCycle(edges[u][k])
    PROVE  IInv'
<1> DEFINE e == edges[u][k]
<1>1. /\ Less(Sum(e), dist[e.v]) /\ u \in Subtree(e.v) /\ dist' = [dist EXCEPT ![e.v] = Sum(e)]
      /\ fifo' = Populated(dist') /\ verdict' = 0 /\ running' = FALSE
      /\ parent' = NoForest /\ u' = NoVertex /\ k' = 1 /\ scans' = 0 /\ edges' = edges
  BY DEF FollowCycle, Return
<1>2. TypeOK /\ Simple /\ ForestTight /\ Acyclic
  BY DEF IInv
<1>3. e.v \in V /\ Sum(e) \in Dist
  BY <1>2, EdgeFacts DEF Sum
<1>4. dist' \in [V -> Dist]
  BY <1>1, <1>2, <1>3, Improved
<1>5. fifo' \in Seq(V) /\ ToSet(fifo') = {i \in V : Improving(i, dist')} /\ IsInjective(fifo')
  BY <1>1, PopulatedElements
<1>6. TypeOK' /\ scans' \in Nat
  <2>1. parent' \in [V -> V \cup {NoVertex}]
    BY <1>1 DEF NoForest
  <2>2. edges' \in [V -> Seq([v : V, value : Bound])] /\ u' \in V \cup {NoVertex}
    BY <1>1, <1>2, Zenon DEF TypeOK
  <2>3. k' \in Nat \ {0} /\ running' \in BOOLEAN /\ verdict' \in {0, 1, 2} /\ scans' \in Nat
    <3>1. k' \in Nat \ {0} /\ verdict' \in {0, 1, 2} /\ scans' \in Nat
      BY <1>1
    <3>2. running' \in BOOLEAN
      BY <1>1, Zenon
    <3> QED BY <3>1, <3>2, Zenon
  <2> QED BY <1>4, <1>5, <2>1, <2>2, <2>3, Zenon DEF TypeOK, Dist
<1>7. Simple'
  BY <1>1, <1>2, SameSimple
<1>8. Idle' /\ ~running'
  BY <1>1 DEF Idle
<1>9. ForestTight' /\ Acyclic' /\ QueuedAreLeaves' /\ Followed' /\ Pending' /\ Passes'
  BY <1>5, <1>8, IdlePartsNext
<1>10. QueueCovers'
  <2> SUFFICES ASSUME NEW i \in V, Improving(i, dist)' PROVE i \in ToSet(fifo')
    BY DEF QueueCovers
  <2>1. Improving(i, dist')
    BY <1>1 DEF Improving
  <2> QED BY <2>1, <1>5
<1>11. VerdictExact'
  <2>1. NegativeCycle
    BY <1>1, <1>2, ClosedCycle
  <2> QED BY <2>1, <1>1, SameGraph DEF VerdictExact
<1> QED BY <1>6, <1>7, <1>8, <1>9, <1>10, <1>11 DEF IInv

\* Following the next edge of u.
LEMMA FollowStep == ASSUME IInv, Follow PROVE IInv'
<1>1. TypeOK
  BY DEF IInv
<1>2. /\ running /\ u \in V /\ k \in DOMAIN edges[u] /\ edges[u][k] \in ToSet(edges[u])
      /\ FollowSkip(edges[u][k]) \/ FollowCycle(edges[u][k]) \/ FollowImprove(edges[u][k])
  BY <1>1, FollowCases
<1>3. CASE FollowSkip(edges[u][k])
  BY <1>2, <1>3, SkipStep
<1>4. CASE FollowCycle(edges[u][k])
  BY <1>2, <1>4, CycleStep
<1>5. CASE FollowImprove(edges[u][k])
  BY <1>2, <1>5, ImproveStep
<1> QED BY <1>2, <1>3, <1>4, <1>5

\* A vertex whose edges have all been followed has no improving edge.
LEMMA ScannedStep == ASSUME IInv, Scanned PROVE IInv'
<1>1. /\ running /\ u # NoVertex /\ k > Len(edges[u]) /\ u' = NoVertex /\ k' = 1
      /\ UNCHANGED <<edges, dist, fifo, parent, running, verdict, scans>>
  BY DEF Scanned
<1>2. /\ TypeOK /\ scans \in Nat /\ Simple /\ Idle /\ ForestTight /\ Acyclic /\ QueuedAreLeaves
      /\ Followed /\ QueueCovers /\ Pending /\ Passes /\ VerdictExact
  BY DEF IInv
<1>3. u \in V /\ fifo \in Seq(V) /\ NoVertex \notin V
  <2>1. NoVertex \notin V
    BY TarjanAssumption DEF V, NoVertex
  <2> QED BY <2>1, <1>1, <1>2 DEF TypeOK
<1>4. TypeOK' /\ scans' \in Nat /\ Simple' /\ Idle' /\ QueueCovers'
  <2>1. TypeOK' /\ scans' \in Nat
    <3>1. k' \in Nat \ {0}
      BY <1>1
    <3> QED BY <3>1, <1>1, <1>2, Zenon DEF TypeOK
  <2>2. Simple'
    BY <1>1, <1>2, SameSimple
  <2> QED BY <1>1, <2>1, <2>2 DEF Idle, QueueCovers
<1>5. ForestTight' /\ Acyclic'
  BY <1>1, <1>2 DEF ForestTight, Acyclic, Subtree, Below
<1>6. QueuedAreLeaves' /\ Followed'
  <2>1. NoVertex \notin ToSet(fifo)
    BY <1>3 DEF ToSet
  <2> QED BY <2>1, <1>1, <1>2 DEF QueuedAreLeaves, Followed
<1>7. Pending'
  <2>1. ~Improving(u, dist)
    <3> SUFFICES ASSUME NEW e \in ToSet(edges[u]) PROVE ~Less(Add(dist[u], e.value), dist[e.v])
      BY DEF Improving
    <3>1. PICK n \in DOMAIN edges[u] : e = edges[u][n]
      BY DEF ToSet
    <3>2. n < k
      <4>1. edges[u] \in Seq([v : V, value : Bound]) /\ k \in Nat
        BY <1>2, <1>3 DEF TypeOK
      <4>2. n \in 1..Len(edges[u]) /\ Len(edges[u]) \in Nat
        BY <4>1
      <4> QED BY <4>1, <4>2, <1>1
    <3> QED BY <3>1, <3>2, <1>1, <1>2 DEF Followed
  <2>2. \A y \in V : y # u => (y \in Active' <=> y \in Active)
    BY <1>1, <1>3 DEF Active
  <2> QED BY <2>1, <2>2, <1>1, <1>2, SamePending
<1>8. Passes'
  BY <1>1, <1>2 DEF Passes, InPass
<1>9. VerdictExact'
  BY <1>1, <1>2, SameVerdict
<1> QED BY <1>4, <1>5, <1>6, <1>7, <1>8, <1>9 DEF IInv

\* An empty queue at the end of a scan: no edge improves anything, the distances
\* satisfy every constraint.
LEMMA FinishStep == ASSUME IInv, Finish PROVE IInv'
<1>1. /\ running /\ u = NoVertex /\ fifo = <<>> /\ verdict' = 1 /\ running' = FALSE
      /\ parent' = NoForest /\ u' = NoVertex /\ k' = 1 /\ scans' = 0 /\ UNCHANGED <<edges, dist, fifo>>
  BY DEF Finish, Return
<1>2. TypeOK /\ Simple /\ Pending
  BY DEF IInv
<1>3. \A i \in V : ~Improving(i, dist)
  <2>1. Active = {}
    BY <1>1 DEF Active, ToSet
  <2>2. Leads(dist, Active, {})
    BY <2>1 DEF Leads
  <2> QED BY <2>1, <2>2, <1>1, <1>2 DEF Pending
<1>4. TypeOK' /\ scans' \in Nat
  <2>1. parent' \in [V -> V \cup {NoVertex}]
    BY <1>1 DEF NoForest
  <2>2. k' \in Nat \ {0} /\ running' \in BOOLEAN /\ verdict' \in {0, 1, 2} /\ scans' \in Nat
    <3>1. k' \in Nat \ {0} /\ verdict' \in {0, 1, 2} /\ scans' \in Nat
      BY <1>1
    <3>2. running' \in BOOLEAN
      BY <1>1, Zenon
    <3> QED BY <3>1, <3>2, Zenon
  <2> QED BY <2>1, <2>2, <1>1, <1>2, Zenon DEF TypeOK
<1>5. Simple'
  BY <1>1, <1>2, SameSimple
<1>6. Idle' /\ ~running'
  BY <1>1 DEF Idle
<1>7. ForestTight' /\ Acyclic' /\ QueuedAreLeaves' /\ Followed' /\ Pending' /\ Passes'
  <2>1. fifo' \in Seq(V)
    BY <1>4 DEF TypeOK
  <2> QED BY <2>1, <1>6, IdlePartsNext
<1>8. QueueCovers'
  BY <1>1, <1>3 DEF QueueCovers, Improving
<1>9. VerdictExact'
  <2>1. ~NegativeCycle
    BY <1>2, <1>3, FeasibleNoCycle
  <2> QED BY <2>1, <1>1, SameGraph DEF VerdictExact
<1> QED BY <1>4, <1>5, <1>6, <1>7, <1>8, <1>9 DEF IInv

\* A step that changes nothing.
LEMMA StutterStep == ASSUME IInv, UNCHANGED vars PROVE IInv'
<1>1. UNCHANGED <<edges, dist, fifo, parent, u, k, running, verdict, scans>>
  BY DEF vars
<1>2. /\ TypeOK /\ scans \in Nat /\ Simple /\ Idle /\ ForestTight /\ Acyclic /\ QueuedAreLeaves
      /\ Followed /\ QueueCovers /\ Pending /\ Passes /\ VerdictExact
  BY DEF IInv
<1>3. TypeOK' /\ scans' \in Nat /\ Idle'
  BY <1>1, <1>2, Zenon DEF TypeOK, Idle
<1>4. Simple'
  BY <1>1, <1>2, SameSimple
<1>5. ForestTight' /\ Acyclic' /\ QueuedAreLeaves' /\ Followed'
  BY <1>1, <1>2 DEF ForestTight, Acyclic, QueuedAreLeaves, Followed, Subtree, Below
<1>6. QueueCovers'
  BY <1>1, <1>2 DEF QueueCovers, Improving
<1>7. Pending'
  <2>1. Active' = Active
    BY <1>1 DEF Active
  <2>2. CASE running
    BY <2>1, <2>2, <1>1, <1>2, SamePending
  <2>3. CASE ~running
    BY <2>3, <1>1 DEF Pending
  <2> QED BY <2>2, <2>3
<1>8. Passes'
  BY <1>1, <1>2 DEF Passes, InPass
<1>9. VerdictExact'
  BY <1>1, <1>2, SameVerdict
<1> QED BY <1>3, <1>4, <1>5, <1>6, <1>7, <1>8, <1>9 DEF IInv

-----------------------------------------------------------------------------
(* The theorems.                                                           *)

\* Every push, pop and step of a test preserves the inductive invariant.
LEMMA Inductive == IInv /\ [Next]_vars => IInv'
<1> SUFFICES ASSUME IInv, [Next]_vars PROVE IInv'
  OBVIOUS
<1>1. ASSUME NEW i \in V, NEW j \in V, NEW c \in Bound, Push(i, j, c) PROVE IInv'
  BY <1>1, PushStep
<1>2. ASSUME NEW i \in V, Pop(i) PROVE IInv'
  BY <1>2, PopStep
<1>3. CASE Start
  BY <1>3, StartStep
<1>4. CASE Dequeue
  BY <1>4, DequeueStep
<1>5. CASE Follow
  BY <1>5, FollowStep
<1>6. CASE Scanned
  BY <1>6, ScannedStep
<1>7. CASE Finish
  BY <1>7, FinishStep
<1>8. CASE UNCHANGED vars
  BY <1>8, StutterStep
<1> QED BY <1>1, <1>2, <1>3, <1>4, <1>5, <1>6, <1>7, <1>8 DEF Next, Step

\* The inductive invariant of the incremental test holds over every sequence of
\* pushes, pops and tests, for every number of clocks and every set of bounds.
THEOREM TarjanInvariant == Spec => []IInv
BY Initially, Inductive, PTL DEF Spec

\* Types; in particular a vertex is never inserted twice into the linked list
\* that is the queue (tarjan.c:318).
THEOREM TarjanTypes == Spec => []TypeOK
<1>1. IInv => TypeOK
  BY DEF IInv
<1> QED BY <1>1, TarjanInvariant, PTL

\* cdd_tarjan_consistent returns 1 only when no cycle of the constraint graph is
\* negative and 0 only when one is, whatever was pushed, popped and tested before.
THEOREM VerdictIsExact == Spec => []VerdictExact
<1>1. IInv => VerdictExact
  BY DEF IInv
<1> QED BY <1>1, TarjanInvariant, PTL

\* Between tests every vertex with an improving edge is queued, also after a test
\* that stopped at a negative cycle half way through a scan (populateQueue).
THEOREM QueueMissesNothing == Spec => []QueueCovers
<1>1. IInv => QueueCovers
  BY DEF IInv
<1> QED BY <1>1, TarjanInvariant, PTL

\* disassemble leaves only edges in the forest that are tight: the distance of a
\* vertex is that of its parent plus the bound of the edge between them.
THEOREM ForestStaysTight == Spec => []ForestTight
<1>1. IInv => ForestTight
  BY DEF IInv
<1> QED BY <1>1, TarjanInvariant, PTL

\* A test takes at most Dim * (Dim + 1) / 2 vertices from the queue, on every
\* graph, negative cycles included, and from whatever distances and queue earlier
\* tests left behind.
THEOREM TestsAreBounded == Spec => []TestBounded
<1>1. IInv => TestBounded
  BY PassesBound DEF IInv
<1> QED BY <1>1, TarjanInvariant, PTL
=============================================================================
