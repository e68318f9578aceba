-------------------------- MODULE NodeStoreProofs ---------------------------
(***************************************************************************)
(* The node kernel implements the store of immutable values: for any       *)
(* number of addresses, managers, levels and cache slots, every step of    *)
(* module NodeTable is a step of module Store or does not show.            *)
(***************************************************************************)
EXTENDS NodeStore, NodeTableProofs, NatFacts, FunctionTheorems

-----------------------------------------------------------------------------
(* Values of addresses: the recursive definition has one solution.         *)

\* The nodes of I are ordered by levels up to N and closed under children.
Grounded(I, nd, N) ==
    /\ I \subseteq Addr
    /\ \A a \in I : /\ nd[a].level \in 1..N
                    /\ \A i \in DOMAIN nd[a].kid :
                        \/ nd[a].kid[i] = Term
                        \/ nd[a].kid[i] \in I /\ nd[nd[a].kid[i]].level > nd[a].level

\* f solves the definition of Value where it is defined.
Solves(f, S, I, nd) ==
    f = [n \in S |-> IF n = Term THEN Blank ELSE IF n \in I THEN Built(nd[n], f) ELSE NoValue]
All == Node \cup {None}

\* There is a highest level.
Top == CHOOSE N \in Nat : \A l \in Level : l <= N
LEMMA HighestLevel == Top \in Nat /\ \A l \in Level : l <= Top
<1>1. PICK n \in Nat : \E f : f \in Surjection(1..n, Level)
  BY NodeTableAssumption, FS_NatSurjection, Zenon DEF ExistsSurjection
<1>2. PICK f : f \in Surjection(1..n, Level)
  BY <1>1
<1>3. f \in [1..n -> Level] /\ \A l \in Level : \E i \in 1..n : f[i] = l
  BY <1>2 DEF Surjection
<1> DEFINE T == {m \in Nat : m <= n => \E N \in Nat : \A i \in 1..m : f[i] <= N}
<1>4. 0 \in T
  OBVIOUS
<1>5. ASSUME NEW m \in Nat, m \in T PROVE m + 1 \in T
  <2> SUFFICES ASSUME m + 1 <= n PROVE \E N \in Nat : \A i \in 1..(m + 1) : f[i] <= N
    OBVIOUS
  <2>1. PICK N \in Nat : \A i \in 1..m : f[i] <= N
    BY <1>5
  <2>2. f[m + 1] \in Nat /\ \A i \in 1..m : f[i] \in Nat
    <3>1. Level \subseteq Nat
      BY NodeTableAssumption
    <3>2. ASSUME NEW i \in 1..(m + 1) PROVE f[i] \in Nat
      <4>1. i \in 1..n
        OBVIOUS
      <4> HIDE DEF T
      <4> QED BY <1>3, <3>1, <4>1
    <3>3. m + 1 \in 1..(m + 1) /\ \A i \in 1..m : i \in 1..(m + 1)
      OBVIOUS
    <3> HIDE DEF T
    <3> QED BY <3>2, <3>3
  <2>3. N + f[m + 1] \in Nat /\ \A i \in 1..(m + 1) : f[i] <= N + f[m + 1]
    <3>1. \A i \in 1..(m + 1) : i \in 1..m \/ i = m + 1
      OBVIOUS
    <3> QED BY <2>1, <2>2, <3>1
  <2> QED BY <2>3
<1> HIDE DEF T
<1>6. n \in T
  BY <1>4, <1>5, Induction
<1>7. \E N \in Nat : \A l \in Level : l <= N
  BY <1>3, <1>6 DEF T
<1> QED BY <1>7 DEF Top

\* The definition has a solution, built from the highest level downwards.
LEMMA SolutionExists ==
    ASSUME NEW I, NEW nd, NEW N \in Nat, Grounded(I, nd, N)
    PROVE  \E f : Solves(f, All, I, nd)
<1> DEFINE S(m) == {n \in All : n \in I => nd[n].level > N - m}
           T == {m \in Nat : \E f : Solves(f, S(m), I, nd)}
<1>1. 0 \in T
  <2> DEFINE f == [n \in S(0) |-> IF n = Term THEN Blank ELSE NoValue]
  <2>1. \A n \in S(0) : n \notin I
    BY DEF Grounded
  <2>2. f = [n \in S(0) |-> IF n = Term THEN Blank ELSE IF n \in I THEN Built(nd[n], f) ELSE NoValue]
    BY <2>1
  <2> HIDE DEF f, S
  <2>3. Solves(f, S(0), I, nd)
    BY <2>2 DEF Solves
  <2> QED BY <2>3
<1>2. ASSUME NEW m \in Nat, m \in T PROVE m + 1 \in T
  <2>1. PICK f : Solves(f, S(m), I, nd)
    BY <1>2
  <2> DEFINE g == [n \in S(m + 1) |-> IF n = Term THEN Blank ELSE IF n \in I THEN Built(nd[n], f) ELSE NoValue]
  <2>2. S(m) \subseteq S(m + 1)
    BY DEF Grounded
  <2>3. ASSUME NEW n \in S(m) PROVE g[n] = f[n]
    BY <2>1, <2>2, <2>3 DEF Solves
  <2>4. ASSUME NEW n \in S(m + 1), n \in I PROVE Built(nd[n], f) = Built(nd[n], g)
    <3>1. ASSUME NEW i \in DOMAIN nd[n].kid PROVE nd[n].kid[i] \in S(m)
      <4>1. CASE nd[n].kid[i] = Term
        BY <4>1, NodeTableAssumption DEF Grounded, All, Node
      <4>2. CASE nd[n].kid[i] \in I /\ nd[nd[n].kid[i]].level > nd[n].level
        <5>1. nd[n].level \in 1..N /\ nd[nd[n].kid[i]].level \in 1..N
          BY <2>4, <4>2 DEF Grounded
        <5>2. nd[n].level > N - (m + 1)
          BY <2>4
        <5>3. nd[nd[n].kid[i]].level > N - m
          BY <4>2, <5>1, <5>2
        <5>4. nd[n].kid[i] \in All
          BY <4>2 DEF Grounded, All, Node
        <5> QED BY <5>3, <5>4
      <4> QED BY <2>4, <4>1, <4>2 DEF Grounded
    <3> HIDE DEF g, S
    <3> QED BY <2>3, <3>1 DEF Built
  <2>5. g = [n \in S(m + 1) |-> IF n = Term THEN Blank ELSE IF n \in I THEN Built(nd[n], g) ELSE NoValue]
    <3> HIDE DEF S
    <3> QED BY <2>4
  <2> HIDE DEF g, S
  <2>6. Solves(g, S(m + 1), I, nd)
    BY <2>5 DEF Solves
  <2> QED BY <2>6
<1>3. S(N) = All
  BY DEF Grounded
<1> HIDE DEF T, S
<1>4. N \in T
  BY <1>1, <1>2, Induction
<1> QED BY <1>3, <1>4 DEF T

\* Solutions agree on nodes with the same descendants.
LEMMA SolutionsAgree ==
    ASSUME NEW I, NEW nd, NEW f, Solves(f, All, I, nd),
           NEW J, NEW od, NEW g, Solves(g, All, J, od),
           NEW N \in Nat, NEW S \in SUBSET (I \cap J), Grounded(S, nd, N), \A a \in S : nd[a] = od[a]
    PROVE  \A a \in S : f[a] = g[a]
<1> DEFINE T == {m \in Nat : \A a \in S : nd[a].level > N - m => f[a] = g[a]}
<1>0. /\ S \subseteq All /\ Term \in All /\ Term \notin S
      /\ f[Term] = Blank /\ g[Term] = Blank
      /\ \A a \in S : f[a] = Built(nd[a], f) /\ g[a] = Built(nd[a], g)
  <2>1. S \subseteq All /\ Term \in All /\ Term \notin S
    BY NodeTableAssumption DEF Grounded, All, Node
  <2> QED BY <2>1 DEF Solves
<1>1. 0 \in T
  BY DEF Grounded
<1>2. ASSUME NEW m \in Nat, m \in T PROVE m + 1 \in T
  <2> SUFFICES ASSUME NEW a \in S, nd[a].level > N - (m + 1) PROVE f[a] = g[a]
    OBVIOUS
  <2>1. ASSUME NEW i \in DOMAIN nd[a].kid PROVE f[nd[a].kid[i]] = g[nd[a].kid[i]]
    <3>1. CASE nd[a].kid[i] = Term
      BY <1>0, <3>1
    <3>2. CASE nd[a].kid[i] \in S /\ nd[nd[a].kid[i]].level > nd[a].level
      <4>1. nd[a].level \in 1..N /\ nd[nd[a].kid[i]].level \in 1..N
        BY <3>2 DEF Grounded
      <4>2. nd[nd[a].kid[i]].level > N - m
        BY <3>2, <4>1
      <4> QED BY <1>2, <3>2, <4>2
    <3> QED BY <3>1, <3>2 DEF Grounded
  <2>2. Built(nd[a], f) = Built(nd[a], g)
    BY <2>1 DEF Built
  <2> QED BY <1>0, <2>2
<1>3. \A m \in Nat : m \in T
  <2> HIDE DEF T
  <2> QED BY <1>1, <1>2, Induction
<1>4. N \in T /\ \A a \in S : nd[a].level > N - N
  BY <1>3 DEF Grounded
<1> QED BY <1>4

-----------------------------------------------------------------------------
(* Values in a state and after a step.                                     *)

\* A node that is in the table and its children.
LEMMA IntactNode ==
    ASSUME IInv, NEW a \in Intact
    PROVE  /\ a \in Table /\ a \in Addr /\ a \in All /\ a # Term
           /\ ManOf[a] \in Man /\ node[a] \in Content(ManOf[a]) /\ LevelOf(a) \in Level
           /\ \A i \in DOMAIN node[a].kid :
                \/ node[a].kid[i] = Term
                \/ node[a].kid[i] \in Intact /\ LevelOf(node[a].kid[i]) > LevelOf(a)
<1>1. TypeOK /\ a \in Table /\ a \in Addr /\ a \in All /\ a # Term
  BY NodeTableAssumption DEF IInv, Intact, Table, All, Node
<1>2. \A i \in DOMAIN node[a].kid :
        \/ node[a].kid[i] = Term
        \/ node[a].kid[i] \in Intact /\ LevelOf(node[a].kid[i]) > LevelOf(a)
  BY DEF IInv, Closed, Ordered, Intact, LevelOf
<1> QED BY <1>1, <1>2, InTable

\* The nodes of the table that are not stale are grounded.
LEMMA IntactGrounded ==
    ASSUME IInv
    PROVE  Grounded(Intact, node, Top)
<1>1. Intact \subseteq Addr
  BY DEF Intact, Table
<1>2. ASSUME NEW a \in Intact
      PROVE  /\ node[a].level \in 1..Top
             /\ \A i \in DOMAIN node[a].kid :
                 \/ node[a].kid[i] = Term
                 \/ node[a].kid[i] \in Intact /\ node[node[a].kid[i]].level > node[a].level
  <2>1. node[a].level \in Level
    BY <1>2, IntactNode DEF LevelOf
  <2>2. node[a].level \in Nat \ {0} /\ node[a].level <= Top /\ Top \in Nat
    BY <2>1, NodeTableAssumption, HighestLevel
  <2> QED BY <1>2, <2>2, IntactNode DEF LevelOf
<1> QED BY <1>1, <1>2 DEF Grounded

\* The recursive definition of Value means what it says.
LEMMA ValueSolves == ASSUME IInv PROVE Solves(Value, All, Intact, node)
<1>1. \E f : Solves(f, All, Intact, node)
  BY HighestLevel, IntactGrounded, SolutionExists
<1>2. Value = CHOOSE f : Solves(f, All, Intact, node)
  BY Zenon DEF Value, Solves, All
<1> QED BY <1>1, <1>2

\* The value of the terminal, of an intact node, of anything else.
LEMMA ValueIs ==
    ASSUME IInv
    PROVE  /\ Value[Term] = Blank /\ Value[None] = NoValue
           /\ \A a \in Intact : Value[a] = Built(node[a], Value)
<1>1. Term \in All /\ None \in All /\ None # Term /\ None \notin Intact /\ Term \notin Intact
  BY NodeTableAssumption DEF All, Node, Intact, Table
<1>2. \A a \in Intact : a \in All /\ a # Term
  BY IntactNode
<1> QED BY <1>1, <1>2, ValueSolves DEF Solves

\* Values of nodes are no terminals: their level tells.
LEMMA ValueLevel ==
    ASSUME IInv, NEW a \in Intact
    PROVE  /\ Value[a].level = LevelOf(a) /\ Value[a] # Blank /\ Value[a] # NoValue
<1>1. Value[a] = Built(node[a], Value)
  BY ValueIs
<1>2. Value[a].level = LevelOf(a)
  BY <1>1 DEF Built, LevelOf
<1>3. LevelOf(a) \in Level /\ LevelOf(a) # 0
  BY IntactNode, NodeTableAssumption
<1>4. Blank.level = 0 /\ NoValue.level = 0 /\ Blank.lab = 0 /\ NoValue.lab = 1
  BY DEF Blank, NoValue
<1> QED BY <1>2, <1>3, <1>4

\* What is no value is no terminal.
LEMMA NoValueDiffers == NoValue # Blank
<1>1. NoValue.lab = 1 /\ Blank.lab = 0
  BY DEF Blank, NoValue
<1> QED BY <1>1

\* The same after a step.
LEMMA After == IInv' => Grounded(Intact, node, Top)' /\ Solves(Value, All, Intact, node)'
<1>1. IInv => Grounded(Intact, node, Top) /\ Solves(Value, All, Intact, node)
  BY IntactGrounded, ValueSolves
<1> QED BY <1>1, PTL

\* Nodes that are there before and after a step keep their values.
LEMMA ValuesKept ==
    ASSUME IInv, IInv', Intact \subseteq Intact' \/ Intact' \subseteq Intact,
           \A a \in Intact \cap Intact' : node'[a] = node[a]
    PROVE  /\ Value'[Term] = Value[Term] /\ Value'[None] = Value[None]
           /\ \A a \in Intact \cap Intact' : Value'[a] = Value[a]
<1>1. /\ Top \in Nat
      /\ Grounded(Intact, node, Top) /\ Solves(Value, All, Intact, node)
      /\ Grounded(Intact', node', Top) /\ Solves(Value', All, Intact', node')
  <2>1. Grounded(Intact, node, Top)' => Grounded(Intact', node', Top)
    BY DEF Grounded
  <2>2. Solves(Value, All, Intact, node)' => Solves(Value', All, Intact', node')
    BY DEF Solves, Built, All
  <2> QED BY <2>1, <2>2, HighestLevel, IntactGrounded, ValueSolves, After
<1>2. \A a \in Intact \cap Intact' : Value[a] = Value'[a]
  <2>1. CASE Intact \subseteq Intact'
    <3>1. Intact \in SUBSET (Intact \cap Intact') /\ Intact \cap Intact' = Intact
      BY <2>1
    <3>2. \A a \in Intact : node[a] = node'[a]
      BY <3>1
    <3> QED BY <1>1, <3>1, <3>2, SolutionsAgree
  <2>2. CASE Intact' \subseteq Intact
    <3>1. Intact' \in SUBSET (Intact' \cap Intact) /\ Intact \cap Intact' = Intact'
      BY <2>2
    <3>2. \A a \in Intact' : node'[a] = node[a]
      BY <3>1
    <3>3. \A a \in Intact' : Value'[a] = Value[a]
      BY <1>1, <3>1, <3>2, SolutionsAgree
    <3> QED BY <3>1, <3>3
  <2> QED BY <2>1, <2>2
<1>3. Term \in All /\ None \in All /\ None # Term
      /\ None \notin Intact /\ Term \notin Intact /\ None \notin Intact' /\ Term \notin Intact'
  BY NodeTableAssumption DEF All, Node, Intact, Table
<1>4. Value[Term] = Blank /\ Value[None] = NoValue /\ Value'[Term] = Blank /\ Value'[None] = NoValue
  BY <1>1, <1>3 DEF Solves
<1> QED BY <1>2, <1>4

-----------------------------------------------------------------------------
(* What clients see.                                                       *)

\* Clients see no address that is not intact.
LEMMA Visible ==
    ASSUME IInv, ArgsIntact
    PROVE  /\ Owned \subseteq Intact
           /\ ret \in Intact \cup {Term, None}
           /\ \A s \in Slot : cache[s].args \subseteq Intact /\ cache[s].res \in Intact \cup {Term, None}
           /\ req # NoReq => \A i \in DOMAIN req.key.kid : req.key.kid[i] \in Intact \cup {Term}
<1>1. TypeOK
  BY DEF IInv
<1>2. Owned \subseteq Intact
  <2> SUFFICES ASSUME NEW n \in Addr, hold[n] > 0 PROVE n \in Intact
    BY DEF Owned
  <2>1. n \in Table /\ (todo[n] = 0 => n \notin stale)
    BY HeldInTable
  <2>2. todo[n] \in Nat /\ (todo[n] > 0 => n \notin stale)
    BY <1>1 DEF TypeOK, IInv, Closed, Node
  <2> QED BY <2>1, <2>2 DEF Intact
<1>3. ret \in Intact \cup {Term, None}
  <2> SUFFICES ASSUME ret \in Addr PROVE ret \in Intact
    BY <1>1 DEF TypeOK, Node
  <2>1. ret \in Table
    BY DEF IInv, NoDangling
  <2>2. todo[ret] \in Nat /\ (todo[ret] > 0 => ret \notin stale)
    BY <1>1 DEF TypeOK, IInv, Closed, Node
  <2>3. todo[ret] = 0 => ret \notin stale
    BY <1>1 DEF TypeOK, IInv, DeadZero
  <2> QED BY <2>1, <2>2, <2>3 DEF Intact
<1>4. ASSUME NEW s \in Slot
      PROVE  cache[s].args \subseteq Intact /\ cache[s].res \in Intact \cup {Term, None}
  <2>1. cache[s].args \in SUBSET Addr /\ cache[s].res \in Node \cup {None}
    BY <1>1 DEF TypeOK
  <2>2. CASE cache[s] = NoEntry
    BY <2>2 DEF NoEntry
  <2>3. CASE cache[s] # NoEntry
    <3>1. cache[s].args \cup {cache[s].res} \subseteq Table \cup {Term}
      BY <2>3 DEF IInv, CacheFresh
    <3>2. cache[s].args \cap stale = {} /\ cache[s].res \notin stale /\ Term \notin Addr
      BY NodeTableAssumption DEF ArgsIntact, IInv, Closed
    <3> QED BY <2>1, <3>1, <3>2 DEF Intact
  <2> QED BY <2>2, <2>3
<1>5. req # NoReq => \A i \in DOMAIN req.key.kid : req.key.kid[i] \in Intact \cup {Term}
  BY DEF IInv, Closed, Ordered, Intact
<1> QED BY <1>2, <1>3, <1>4, <1>5

\* References are finitely many, and a value is held where there are some.
LEMMA ReferenceCount ==
    ASSUME TypeOK, NEW v
    PROVE  /\ IsFiniteSet(References(v)) /\ Cardinality(References(v)) \in Nat
           /\ Cardinality(References(v)) > 0 <=> v \in {Value[n] : n \in Owned}
<1> DEFINE Q(n) == {n} \X (1..hold[n])
           C == {Q(n) : n \in Addr}
           f == [n \in Addr |-> Q(n)]
<1>1. IsFiniteSet(C)
  <2>1. f \in Surjection(Addr, C)
    BY DEF Surjection
  <2> HIDE DEF f, C
  <2> QED BY <2>1, NodeTableAssumption, FS_Surjection
<1>2. ASSUME NEW n \in Addr PROVE IsFiniteSet(Q(n))
  <2>1. hold[n] \in Int /\ 1 \in Int
    BY DEF TypeOK, Node
  <2>2. IsFiniteSet({n}) /\ IsFiniteSet(1..hold[n])
    BY <2>1, FS_Singleton, FS_Interval
  <2> QED BY <2>2, FS_Product
<1>3. IsFiniteSet(UNION C)
  <2>1. \A T \in C : IsFiniteSet(T)
    BY <1>2
  <2> HIDE DEF C
  <2> QED BY <1>1, <2>1, FS_UNION
<1>4. References(v) \in SUBSET UNION C
  BY DEF References, Owned
<1>5. IsFiniteSet(References(v))
  <2> HIDE DEF C
  <2> QED BY <1>3, <1>4, FS_Subset
<1>6. Cardinality(References(v)) \in Nat
  BY <1>5, FS_CardinalityType
<1>7. Cardinality(References(v)) = 0 <=> References(v) = {}
  BY <1>5, FS_EmptySet
<1>8. References(v) # {} <=> v \in {Value[n] : n \in Owned}
  <2>1. ASSUME NEW n \in Owned, Value[n] = v PROVE <<n, 1>> \in References(v)
    <3>1. hold[n] \in Nat /\ hold[n] > 0
      BY DEF TypeOK, Owned, Node
    <3>2. 1 \in 1..hold[n]
      BY <3>1
    <3>3. <<n, 1>> \in {n} \X (1..hold[n])
      BY <3>2
    <3> QED BY <2>1, <3>3 DEF References
  <2>2. ASSUME References(v) # {} PROVE \E n \in Owned : Value[n] = v
    BY <2>2 DEF References
  <2> QED BY <2>1, <2>2
<1> QED BY <1>5, <1>6, <1>7, <1>8

\* Counts of holds are natural numbers after a step too.
LEMMA HeldAfter ==
    TypeOK' => \A v : Cardinality(References(v)') > 0 <=> v \in {Value[n] : n \in Owned}'
<1>1. TypeOK => \A v : Cardinality(References(v)) > 0 <=> v \in {Value[n] : n \in Owned}
  BY ReferenceCount
<1>2. TypeOK' => (\A v : Cardinality(References(v)) > 0 <=> v \in {Value[n] : n \in Owned})'
  BY <1>1, PTL
<1> QED BY <1>2

\* Which pairs References has.
LEMMA ReferencePairs ==
    ASSUME NEW v, NEW m, NEW j
    PROVE  <<m, j>> \in References(v) <=> m \in Addr /\ hold[m] > 0 /\ Value[m] = v /\ j \in 1..hold[m]
BY DEF References, Owned

\* References is a set of pairs.
LEMMA ReferencesArePairs == ASSUME NEW v, NEW e \in References(v) PROVE e = <<e[1], e[2]>>
BY DEF References

\* The client owns one reference more.
LEMMA HandlesMore ==
    ASSUME TypeOK, TypeOK', NEW n \in Addr, hold' = [hold EXCEPT ![n] = @ + 1],
           \A m \in Owned \cup {n} : Value'[m] = Value[m]
    PROVE  Handles' = Values!More(Value[n])
<1> DEFINE v == Value[n]
           V == {Value[m] : m \in Owned}
           C(w) == Cardinality(References(w))
<1>1. /\ hold[n] \in Nat /\ hold'[n] = hold[n] + 1 /\ \A m \in Addr : m # n => hold'[m] = hold[m]
      /\ Owned' = Owned \cup {n}
  BY DEF TypeOK, Node, Owned
<1>2. {Value[m] : m \in Owned}' = V \cup {v}
  BY <1>1
<1>3. ASSUME NEW w
      PROVE  References(w)' = IF w = v THEN References(w) \cup {<<n, hold[n] + 1>>} ELSE References(w)
  <2> DEFINE R == IF w = v THEN References(w) \cup {<<n, hold[n] + 1>>} ELSE References(w)
  <2>1. ASSUME NEW m, NEW j
        PROVE  <<m, j>> \in References(w)' <=> m \in Addr /\ hold'[m] > 0 /\ Value'[m] = w /\ j \in 1..hold'[m]
    BY DEF References, Owned
  <2>2. ASSUME NEW m, NEW j PROVE <<m, j>> \in References(w)' <=> <<m, j>> \in R
    <3>1. CASE m = n
      <4>1. <<m, j>> \in References(w)' <=> v = w /\ j \in 1..(hold[n] + 1)
        BY <1>1, <2>1, <3>1
      <4>2. <<m, j>> \in References(w) <=> v = w /\ j \in 1..hold[n]
        BY <1>1, <3>1, ReferencePairs
      <4>3. j \in 1..(hold[n] + 1) <=> j \in 1..hold[n] \/ j = hold[n] + 1
        BY <1>1
      <4> QED BY <3>1, <4>1, <4>2, <4>3
    <3>2. CASE m # n
      <4>1. m \in Addr /\ hold[m] > 0 => hold'[m] = hold[m] /\ Value'[m] = Value[m]
        BY <1>1, <3>2 DEF Owned
      <4>2. <<m, j>> \in References(w)' <=> <<m, j>> \in References(w)
        BY <1>1, <2>1, <3>2, <4>1, ReferencePairs
      <4> QED BY <3>2, <4>2
    <3> QED BY <3>1, <3>2
  <2>3. \A e \in References(w)' : e = <<e[1], e[2]>>
    BY DEF References
  <2>4. \A e \in R : e = <<e[1], e[2]>>
    BY ReferencesArePairs
  <2> HIDE DEF R
  <2>5. References(w)' = R
    BY <2>2, <2>3, <2>4
  <2> QED BY <2>5 DEF R
<1>4. ASSUME NEW w \in V \cup {v}
      PROVE  Cardinality(References(w)') = (IF w \in V THEN C(w) ELSE 0) + (IF w = v THEN 1 ELSE 0)
  <2>1. IsFiniteSet(References(w)) /\ C(w) \in Nat /\ (C(w) > 0 <=> w \in V)
    BY ReferenceCount
  <2>2. <<n, hold[n] + 1>> \notin References(w)
    BY <1>1, ReferencePairs
  <2>3. Cardinality(References(w) \cup {<<n, hold[n] + 1>>}) = C(w) + 1
    BY <2>1, <2>2, FS_AddElement
  <2>4. Cardinality(References(w)') = C(w) + (IF w = v THEN 1 ELSE 0)
    <3> HIDE DEF v
    <3>1. CASE w = v
      BY <1>3, <2>3, <3>1
    <3>2. CASE w # v
      BY <1>3, <2>1, <3>2
    <3> QED BY <3>1, <3>2
  <2> HIDE DEF V, C, v
  <2>5. (IF w \in V THEN C(w) ELSE 0) = C(w)
    BY <2>1
  <2> QED BY <2>4, <2>5
<1>5. Values!Held = V /\ \A w \in V : Handles[w] = C(w)
  BY DEF Values!Held, Handles
<1>6. Handles' = [w \in V \cup {v} |-> Cardinality(References(w)')]
  BY <1>2 DEF Handles
<1> HIDE DEF V, C, v
<1>7. Handles' = [w \in V \cup {v} |-> (IF w \in V THEN C(w) ELSE 0) + (IF w = v THEN 1 ELSE 0)]
  BY <1>4, <1>6
<1>8. Handles' = Values!More(v)
  BY <1>5, <1>7 DEF Values!More
<1> QED BY <1>8 DEF v

\* The client owns one reference less.
LEMMA HandlesLess ==
    ASSUME TypeOK, TypeOK', NEW n \in Addr, hold[n] > 0, hold' = [hold EXCEPT ![n] = @ - 1],
           \A m \in Owned : Value'[m] = Value[m]
    PROVE  Value[n] \in Values!Held /\ Handles' = Values!Less(Value[n])
<1> DEFINE v == Value[n]
           V == {Value[m] : m \in Owned}
           C(w) == Cardinality(References(w))
<1>1. /\ hold[n] \in Nat /\ hold'[n] = hold[n] - 1 /\ \A m \in Addr : m # n => hold'[m] = hold[m]
      /\ n \in Owned /\ Owned' \subseteq Owned
  BY DEF TypeOK, Node, Owned
<1>2. ASSUME NEW w
      PROVE  References(w)' = IF w = v THEN References(w) \ {<<n, hold[n]>>} ELSE References(w)
  <2> DEFINE R == IF w = v THEN References(w) \ {<<n, hold[n]>>} ELSE References(w)
  <2>1. ASSUME NEW m, NEW j
        PROVE  <<m, j>> \in References(w)' <=> m \in Addr /\ hold'[m] > 0 /\ Value'[m] = w /\ j \in 1..hold'[m]
    BY DEF References, Owned
  <2>2. ASSUME NEW m, NEW j PROVE <<m, j>> \in References(w)' <=> <<m, j>> \in R
    <3>1. CASE m = n
      <4>1. <<m, j>> \in References(w)' <=> v = w /\ j \in 1..(hold[n] - 1)
        BY <1>1, <2>1, <3>1
      <4>2. <<m, j>> \in References(w) <=> v = w /\ j \in 1..hold[n]
        BY <1>1, <3>1, ReferencePairs
      <4>3. j \in 1..(hold[n] - 1) <=> j \in 1..hold[n] /\ j # hold[n]
        BY <1>1
      <4> QED BY <3>1, <4>1, <4>2, <4>3
    <3>2. CASE m # n
      <4>1. m \in Addr /\ hold[m] > 0 => hold'[m] = hold[m] /\ Value'[m] = Value[m]
        BY <1>1, <3>2 DEF Owned
      <4>2. <<m, j>> \in References(w)' <=> <<m, j>> \in References(w)
        BY <1>1, <2>1, <3>2, <4>1, ReferencePairs
      <4> QED BY <3>2, <4>2
    <3> QED BY <3>1, <3>2
  <2>3. \A e \in References(w)' : e = <<e[1], e[2]>>
    BY DEF References
  <2>4. \A e \in R : e = <<e[1], e[2]>>
    BY ReferencesArePairs
  <2> HIDE DEF R
  <2>5. References(w)' = R
    BY <2>2, <2>3, <2>4
  <2> QED BY <2>5 DEF R
<1>3. ASSUME NEW w
      PROVE  /\ C(w) \in Nat /\ (C(w) > 0 <=> w \in V)
             /\ Cardinality(References(w)') = C(w) - (IF w = v THEN 1 ELSE 0)
  <2>1. IsFiniteSet(References(w)) /\ C(w) \in Nat /\ (C(w) > 0 <=> w \in V)
    BY ReferenceCount
  <2>2. w = v => <<n, hold[n]>> \in References(w)
    BY <1>1, ReferencePairs
  <2>3. w = v => Cardinality(References(w) \ {<<n, hold[n]>>}) = C(w) - 1
    BY <2>1, <2>2, FS_RemoveElement
  <2> HIDE DEF v
  <2>4. CASE w = v
    BY <1>2, <2>1, <2>3, <2>4
  <2>5. CASE w # v
    BY <1>2, <2>1, <2>5
  <2> QED BY <2>4, <2>5
<1>4. ASSUME NEW w
      PROVE  w \in {Value[m] : m \in Owned}' <=> w \in {x \in V : x # v \/ C(x) > 1}
  <2>1. Cardinality(References(w)') > 0 <=> w \in {Value[m] : m \in Owned}'
    BY HeldAfter
  <2> HIDE DEF V, C, v
  <2> QED BY <1>3, <2>1
<1>5. Values!Held = V /\ \A w \in V : Handles[w] = C(w)
  BY DEF Values!Held, Handles
<1>6. Handles' = [w \in {Value[m] : m \in Owned}' |-> Cardinality(References(w)')]
  BY DEF Handles
<1>7. v \in V
  BY <1>1
<1> HIDE DEF V, C, v
<1>8. {Value[m] : m \in Owned}' = {x \in V : x # v \/ C(x) > 1}
  BY <1>4, Zenon
<1>9. Handles' = [w \in {x \in V : x # v \/ C(x) > 1} |-> C(w) - (IF w = v THEN 1 ELSE 0)]
  BY <1>3, <1>6, <1>8
<1>10. Handles' = Values!Less(v)
  BY <1>5, <1>9 DEF Values!Less
<1> QED BY <1>5, <1>7, <1>10 DEF v

\* References that do not change.
LEMMA HandlesSame ==
    ASSUME hold' = hold, \A m \in Owned : Value'[m] = Value[m]
    PROVE  Handles' = Handles
<1>1. Owned' = Owned
  BY DEF Owned
<1>2. {Value[m] : m \in Owned}' = {Value[m] : m \in Owned}
  BY <1>1
<1>3. ASSUME NEW w PROVE References(w)' = References(w)
  <2>1. {m \in Owned : Value[m] = w}' = {m \in Owned : Value[m] = w}
    BY <1>1
  <2> QED BY <2>1 DEF References
<1> QED BY <1>2, <1>3 DEF Handles

-----------------------------------------------------------------------------
(* Steps.                                                                  *)

\* The same as Visible after a step.
LEMMA VisibleAfter ==
    IInv' /\ ArgsIntact' =>
        /\ Owned' \subseteq Intact'
        /\ ret' \in Intact' \cup {Term, None}
        /\ \A s \in Slot : cache'[s].args \subseteq Intact' /\ cache'[s].res \in Intact' \cup {Term, None}
        /\ req' # NoReq => \A i \in DOMAIN req'.key.kid : req'.key.kid[i] \in Intact' \cup {Term}
<1>1. IInv /\ ArgsIntact =>
        /\ Owned \subseteq Intact
        /\ ret \in Intact \cup {Term, None}
        /\ \A s \in Slot : cache[s].args \subseteq Intact /\ cache[s].res \in Intact \cup {Term, None}
        /\ req # NoReq => \A i \in DOMAIN req.key.kid : req.key.kid[i] \in Intact \cup {Term}
  BY Visible
<1>2. IInv' /\ ArgsIntact' =>
       (/\ Owned \subseteq Intact
        /\ ret \in Intact \cup {Term, None}
        /\ \A s \in Slot : cache[s].args \subseteq Intact /\ cache[s].res \in Intact \cup {Term, None}
        /\ req # NoReq => \A i \in DOMAIN req.key.kid : req.key.kid[i] \in Intact \cup {Term})'
  BY <1>1, PTL
<1> QED BY <1>2

\* The same as ValueIs after a step.
LEMMA ValueAfter ==
    IInv' => \A a \in Intact' : Value'[a] = Built(node'[a], Value')
<1>1. IInv => \A a \in Intact : Value[a] = Built(node[a], Value)
  BY ValueIs
<1>2. IInv' => (\A a \in Intact : Value[a] = Built(node[a], Value))'
  BY <1>1, PTL
<1> QED BY <1>2 DEF Built

\* What does not change in a step that takes no node from the table.
LEMMA ViewKept ==
    ASSUME IInv, ArgsIntact, IInv', Intact \subseteq Intact', \A a \in Intact : node'[a] = node[a]
    PROVE  /\ \A n \in Intact \cup {Term, None} : Value'[n] = Value[n]
           /\ hold' = hold => Handles' = Handles
           /\ cache' = cache => Memo' = Memo
           /\ ret' = ret /\ req' = req => Result' = Result
<1>1. \A n \in Intact \cup {Term, None} : Value'[n] = Value[n]
  BY ValuesKept
<1>2. hold' = hold => Handles' = Handles
  BY <1>1, Visible, HandlesSame
<1>3. ASSUME cache' = cache PROVE Memo' = Memo
  <2>1. ASSUME NEW s \in Slot
        PROVE  /\ {Value'[n] : n \in cache[s].args} = {Value[n] : n \in cache[s].args}
               /\ Value'[cache[s].res] = Value[cache[s].res]
    <3>1. cache[s].args \subseteq Intact /\ cache[s].res \in Intact \cup {Term, None}
      BY Visible
    <3>2. \A n \in cache[s].args : Value'[n] = Value[n]
      BY <1>1, <3>1
    <3> QED BY <1>1, <3>1, <3>2
  <2> QED BY <1>3, <2>1 DEF Memo
<1>4. ASSUME ret' = ret, req' = req PROVE Result' = Result
  <2>1. ret \in Intact \cup {Term, None} /\ Value'[ret] = Value[ret]
    BY <1>1, Visible
  <2>2. ASSUME req # NoReq PROVE Built(req.key, Value') = Built(req.key, Value)
    <3>1. \A i \in DOMAIN req.key.kid : Value'[req.key.kid[i]] = Value[req.key.kid[i]]
      BY <1>1, <2>2, Visible
    <3> QED BY <3>1 DEF Built
  <2>3. Result' = IF req' # NoReq THEN Built(req'.key, Value') ELSE Value'[ret']
    BY DEF Result, Built
  <2> QED BY <1>4, <2>1, <2>2, <2>3 DEF Result
<1> QED BY <1>1, <1>2, <1>3, <1>4

\* A collection makes the caches forget, and nothing else.
LEMMA SweepShows ==
    ASSUME IInv, ArgsIntact, IInv', ArgsIntact', NEW ms, Sweep(ms), UNCHANGED <<ref, client, loops>>
    PROVE  Values!Forget
<1>0. TypeOK /\ UNCHANGED <<hold, ret, pend, todo, req>>
  BY DEF IInv, client, loops
<1>1. Intact' \subseteq Intact /\ \A a \in Intact' : node'[a] = node[a]
  <2>1. Table' \subseteq Table \ Garbage(ms)
    BY DEF Sweep, Table
  <2>2. stale \subseteq dead /\ stale' = dead \ Garbage(ms)
    BY <1>0 DEF Sweep, TypeOK
  <2>3. \A a \in Addr : a \notin Garbage(ms) => node'[a] = node[a]
    BY DEF Sweep
  <2> QED BY <2>1, <2>2, <2>3 DEF Intact, Table
<1>2. \A n \in Intact' \cup {Term, None} : Value'[n] = Value[n]
  BY <1>1, ValuesKept
<1>3. Owned' = Owned /\ Owned \subseteq Intact'
  BY <1>0, VisibleAfter DEF Owned
<1>4. Handles' = Handles
  BY <1>0, <1>2, <1>3, HandlesSame
<1>5. Result' = Result
  <2>1. ret \in Intact' \cup {Term, None} /\ Value'[ret] = Value[ret]
    BY <1>0, <1>2, VisibleAfter
  <2>2. ASSUME req # NoReq PROVE Built(req.key, Value') = Built(req.key, Value)
    <3>1. \A i \in DOMAIN req.key.kid : Value'[req.key.kid[i]] = Value[req.key.kid[i]]
      BY <1>0, <1>2, <2>2, VisibleAfter
    <3> QED BY <3>1 DEF Built
  <2>3. Result' = IF req' # NoReq THEN Built(req'.key, Value') ELSE Value'[ret']
    BY DEF Result, Built
  <2> QED BY <1>0, <2>1, <2>2, <2>3 DEF Result
<1> DEFINE S == {s \in Slot : cache'[s] = NoEntry}
<1>6. ASSUME NEW s \in Slot
      PROVE  /\ s \in S => Memo'[s] = Values!Forgotten
             /\ s \notin S => Memo'[s] = Memo[s]
  <2>1. Memo'[s] = [args |-> {Value'[n] : n \in cache'[s].args}, res |-> Value'[cache'[s].res]]
    BY DEF Memo
  <2>2. CASE cache'[s] = NoEntry
    <3>1. Value'[None] = NoValue
      BY <1>2, ValueIs
    <3> QED BY <2>1, <2>2, <3>1 DEF NoEntry, Values!Forgotten
  <2>3. CASE cache'[s] # NoEntry
    <3>1. cache'[s] = cache[s]
      BY <2>3 DEF Sweep, Flushed
    <3>2. cache[s].args \subseteq Intact' /\ cache[s].res \in Intact' \cup {Term, None}
      BY <3>1, VisibleAfter
    <3>3. \A n \in cache[s].args : Value'[n] = Value[n]
      BY <1>2, <3>2
    <3>4. /\ {Value'[n] : n \in cache[s].args} = {Value[n] : n \in cache[s].args}
          /\ Value'[cache[s].res] = Value[cache[s].res]
      BY <1>2, <3>2, <3>3
    <3>5. Memo[s] = [args |-> {Value[n] : n \in cache[s].args}, res |-> Value[cache[s].res]]
      BY DEF Memo
    <3>6. Memo'[s] = Memo[s]
      BY <2>1, <3>1, <3>4, <3>5
    <3> QED BY <2>3, <3>6
  <2> QED BY <2>2, <2>3
<1>7. Memo' = [s \in Slot |-> Memo'[s]]
  BY DEF Memo
<1> HIDE DEF S
<1>8. Memo' = [s \in Slot |-> IF s \in S THEN Values!Forgotten ELSE Memo[s]]
  BY <1>6, <1>7
<1>9. S \in SUBSET Slot
  BY DEF S
<1> QED BY <1>4, <1>5, <1>8, <1>9 DEF Values!Forget

\* cdd_make_*_node: the value of a result is what was asked for, whether the lookup finds a
\* node, dead and possibly stale ones included, or a node is to be allocated.
LEMMA MakeShows ==
    ASSUME IInv, ArgsIntact, IInv', Idle, NEW m \in Man, NEW key \in Content(m), WellOrdered(key),
           \A n \in Node : At(key.kid, n) # {} => n \in {Term, ret} \/ hold[n] > 0,
           MakeHit(m, key) \/ MakeMiss(m, key)
    PROVE  Values!Make
<1> DEFINE kid == [i \in 1..Arity[m] |-> Value[key.kid[i]]]
<1>1. /\ TypeOK /\ req = NoReq /\ UNCHANGED <<node, hold, cache>>
      /\ key.kid \in [1..Arity[m] -> Node] /\ DOMAIN key.kid = 1..Arity[m]
      /\ key.level \in Level /\ key.lab \in Label
  <2>1. key.kid \in [1..Arity[m] -> Node] /\ key.lab \in Label /\ key.level \in Level
    BY NodeTableAssumption DEF Content
  <2> QED BY <2>1 DEF IInv, Idle, MakeHit, MakeMiss
<1>2. Intact \subseteq Intact'
  BY <1>1 DEF MakeHit, MakeMiss, Intact, Table
<1>3. /\ \A n \in Intact \cup {Term, None} : Value'[n] = Value[n]
      /\ Handles' = Handles /\ Memo' = Memo
  BY <1>1, <1>2, ViewKept
<1>4. ASSUME NEW i \in 1..Arity[m]
      PROVE  \/ key.kid[i] = Term
             \/ /\ key.kid[i] \in Intact /\ LevelOf(key.kid[i]) > key.level
                /\ Value[key.kid[i]] \in Values!Held \cup {Result}
  <2>1. key.kid[i] \in Node /\ At(key.kid, key.kid[i]) # {} /\ None \notin Node
    BY <1>1, NodeTableAssumption DEF At
  <2>2. key.kid[i] = Term \/ LevelOf(key.kid[i]) > key.level
    BY <1>1 DEF WellOrdered
  <2>3. CASE key.kid[i] = ret /\ key.kid[i] # Term
    <3>1. ret \in Intact
      BY <2>1, <2>3, Visible
    <3> QED BY <1>1, <2>2, <2>3, <3>1 DEF Result
  <2>4. CASE hold[key.kid[i]] > 0 /\ key.kid[i] # Term
    <3>1. key.kid[i] \in Owned
      BY <2>1, <2>4 DEF Owned, Node
    <3>2. Value[key.kid[i]] \in Values!Held
      BY <3>1 DEF Values!Held, Handles
    <3> QED BY <2>2, <2>4, <3>1, <3>2, Visible
  <2> QED BY <2>1, <2>3, <2>4
<1>5. kid \in [1..Arity[m] -> (Values!Held \cup {Blank, Result}) \ {NoValue}]
  <2>1. ASSUME NEW i \in 1..Arity[m]
        PROVE  Value[key.kid[i]] \in (Values!Held \cup {Blank, Result}) \ {NoValue}
    <3>1. CASE key.kid[i] = Term
      BY <3>1, ValueIs, NoValueDiffers
    <3>2. CASE key.kid[i] # Term
      BY <1>4, <3>2, ValueLevel
    <3> QED BY <3>1, <3>2
  <2> QED BY <2>1
<1>6. \A i \in 1..Arity[m] : kid[i] # Blank => kid[i].level > key.level
  <2> SUFFICES ASSUME NEW i \in 1..Arity[m], Value[key.kid[i]] # Blank
               PROVE  Value[key.kid[i]].level > key.level
    OBVIOUS
  <2>1. key.kid[i] # Term
    BY ValueIs
  <2> QED BY <1>4, <2>1, ValueLevel
<1>7. Result' = Built(key, Value)
  <2>1. Built(key, Value') = Built(key, Value)
    <3>1. \A i \in DOMAIN key.kid : Value'[key.kid[i]] = Value[key.kid[i]]
      BY <1>1, <1>3, <1>4
    <3> QED BY <3>1 DEF Built
  <2>2. Result' = IF req' # NoReq THEN Built(req'.key, Value') ELSE Value'[ret']
    BY DEF Result, Built
  <2>3. CASE MakeHit(m, key)
    <3>1. PICK p \in Found(key) : ret' = p /\ stale' = stale \ {p} /\ UNCHANGED <<place, req>>
      BY <2>3 DEF MakeHit
    <3>2. p \in Intact' /\ node'[p] = key
      BY <1>1, <3>1 DEF Found, Intact, Table
    <3>3. Value'[p] = Built(key, Value')
      BY <3>2, ValueAfter
    <3> QED BY <1>1, <2>1, <2>2, <3>1, <3>3
  <2>4. CASE MakeMiss(m, key)
    <3>1. req' = [man |-> m, key |-> key] /\ m # None
      BY <2>4, NodeTableAssumption DEF MakeMiss
    <3>2. req' # NoReq /\ req'.key = key
      BY <3>1 DEF NoReq
    <3> QED BY <2>1, <2>2, <3>2
  <2> QED BY <2>3, <2>4
<1>8. Result' = [level |-> key.level, kid |-> kid, lab |-> key.lab]
  BY <1>1, <1>7 DEF Built
<1>9. Arity[m] \in {Arity[x] : x \in Man}
  OBVIOUS
<1> HIDE DEF kid
<1> QED BY <1>1, <1>3, <1>5, <1>6, <1>8, <1>9 DEF Values!Make

\* What a client can name it can name by value.
LEMMA KnownReachable ==
    ASSUME IInv, ArgsIntact, NEW n \in Addr, Known(n)
    PROVE  n \in Intact /\ Value[n] \in Values!Reachable \ {Blank}
<1>1. CASE hold[n] > 0
  <2>1. n \in Owned /\ n \in Intact
    BY <1>1, Visible DEF Owned
  <2>2. Value[n] \in Values!Held
    BY <2>1 DEF Values!Held, Handles
  <2> QED BY <2>1, <2>2, ValueLevel DEF Values!Reachable
<1>2. ASSUME NEW p \in Addr, hold[p] > 0, n \in Kids(p) PROVE n \in Intact /\ Value[n] \in Values!Reachable \ {Blank}
  <2>1. p \in Owned /\ p \in Intact
    BY <1>2, Visible DEF Owned
  <2>2. Value[p] \in Values!Held /\ Value[p] # Blank
    BY <2>1, ValueLevel DEF Values!Held, Handles
  <2>3. PICK i \in DOMAIN node[p].kid : node[p].kid[i] = n
    BY <1>2 DEF Kids
  <2>4. n \in Intact
    BY <2>1, <2>3, IntactNode, NodeTableAssumption
  <2>5. Value[p] = Built(node[p], Value)
    BY <2>1, ValueIs
  <2>6. i \in DOMAIN Value[p].kid /\ Value[p].kid[i] = Value[n]
    BY <2>3, <2>5 DEF Built
  <2>7. Value[n] \in Values!Kids(Value[p])
    BY <2>2, <2>6 DEF Values!Kids
  <2> QED BY <2>2, <2>4, <2>7, ValueLevel DEF Values!Reachable
<1> QED BY <1>1, <1>2 DEF Known

\* cdd_ref: the client takes the result, or shares what it knows.
LEMMA RefShows ==
    ASSUME IInv, ArgsIntact, IInv', NEW n \in Addr, Ref(n)
    PROVE  Values!Take \/ Values!Share
<1>1. /\ TypeOK /\ TypeOK' /\ UNCHANGED <<place, node, stale, cache>> /\ req = NoReq /\ req' = NoReq
      /\ hold' = [hold EXCEPT ![n] = @ + 1] /\ ret' = IF n = ret THEN None ELSE ret
      /\ n = ret \/ Known(n)
  BY DEF IInv, Ref, Idle, loops
<1>2. Intact' = Intact
  BY <1>1 DEF Intact, Table
<1>3. /\ \A k \in Intact \cup {Term, None} : Value'[k] = Value[k]
      /\ Memo' = Memo
  BY <1>1, <1>2, ViewKept
<1>4. n \in Intact
  <2>1. n # Term /\ n # None
    BY NodeTableAssumption DEF Node
  <2> QED BY <1>1, <2>1, Visible, KnownReachable
<1>5. Handles' = Values!More(Value[n])
  <2>1. \A k \in Owned \cup {n} : Value'[k] = Value[k]
    BY <1>3, <1>4, Visible
  <2> QED BY <1>1, <2>1, HandlesMore
<1>6. CASE n = ret
  <2>1. Result = Value[n] /\ Result # NoValue
    BY <1>1, <1>4, <1>6, ValueLevel DEF Result
  <2>2. Result' = NoValue
    <3>1. Result' = IF req' # NoReq THEN Built(req'.key, Value') ELSE Value'[ret']
      BY DEF Result, Built
    <3> QED BY <1>1, <1>3, <1>6, <3>1, ValueIs
  <2> QED BY <1>3, <1>5, <2>1, <2>2 DEF Values!Take
<1>7. CASE n # ret
  <2>1. Result' = Result
    BY <1>1, <1>2, <1>7, ViewKept
  <2>2. Value[n] \in Values!Reachable \ {Blank}
    BY <1>1, <1>7, KnownReachable
  <2> QED BY <1>3, <1>5, <2>1, <2>2 DEF Values!Share
<1> QED BY <1>6, <1>7

\* A reference is given up: the value is dropped or, in "cdd_deref(f); return f;", handed
\* back as the result.
LEMMA DerefShows ==
    ASSUME IInv, ArgsIntact, IInv', NEW n \in Addr, DropFrame(n) \/ Return(n) \/ Release(n)
    PROVE  Values!Drop \/ Values!HandBack
<1>1. /\ TypeOK /\ TypeOK' /\ UNCHANGED <<place, node, stale, cache>> /\ req = NoReq /\ req' = NoReq
      /\ hold[n] > 0 /\ hold' = [hold EXCEPT ![n] = @ - 1]
      /\ ret' = ret \/ ret' = n
  BY DEF IInv, DropFrame, Return, Release, PlainDeref, Idle, loops
<1>2. Intact' = Intact
  BY <1>1 DEF Intact, Table
<1>3. /\ \A k \in Intact \cup {Term, None} : Value'[k] = Value[k]
      /\ Memo' = Memo
  BY <1>1, <1>2, ViewKept
<1>4. n \in Intact
  BY <1>1, Visible DEF Owned
<1>5. Value[n] \in Values!Held /\ Handles' = Values!Less(Value[n])
  <2>1. \A k \in Owned : Value'[k] = Value[k]
    BY <1>3, Visible
  <2> QED BY <1>1, <2>1, HandlesLess
<1>6. CASE ret' = ret
  <2>1. Result' = Result
    BY <1>1, <1>2, <1>6, ViewKept
  <2> QED BY <1>3, <1>5, <2>1 DEF Values!Drop
<1>7. CASE ret' = n
  <2>1. Result' = IF req' # NoReq THEN Built(req'.key, Value') ELSE Value'[ret']
    BY DEF Result, Built
  <2>2. Result' = Value[n]
    BY <1>1, <1>3, <1>4, <1>7, <2>1
  <2> QED BY <1>3, <1>5, <2>2 DEF Values!HandBack
<1> QED BY <1>1, <1>6, <1>7

\* An operator remembers its result under the values of its arguments.
LEMMA CachePutShows ==
    ASSUME IInv, ArgsIntact, IInv', NEW s \in Slot, CachePut(s)
    PROVE  Values!Remember
<1>1. /\ TypeOK /\ req = NoReq /\ UNCHANGED <<place, node, stale, hold, ret, req>>
  BY DEF IInv, CachePut, Idle, client, loops
<1>2. PICK a, b \in {n \in Addr : Known(n)} : cache' = [cache EXCEPT ![s] = [args |-> {a, b}, res |-> ret]]
  BY DEF CachePut
<1>3. Intact' = Intact
  BY <1>1 DEF Intact, Table
<1>4. /\ \A k \in Intact \cup {Term, None} : Value'[k] = Value[k]
      /\ Handles' = Handles /\ Result' = Result
  BY <1>1, <1>3, ViewKept
<1>5. /\ a \in Intact /\ Value[a] \in Values!Reachable \ {Blank}
      /\ b \in Intact /\ Value[b] \in Values!Reachable \ {Blank}
  BY <1>2, KnownReachable
<1>6. Result = Value[ret] /\ Value'[ret] = Value[ret]
  BY <1>1, <1>4, Visible DEF Result
<1> DEFINE E == [args |-> {Value[a], Value[b]}, res |-> Result]
<1>7. ASSUME NEW t \in Slot PROVE Memo'[t] = IF t = s THEN E ELSE Memo[t]
  <2>1. Memo'[t] = [args |-> {Value'[n] : n \in cache'[t].args}, res |-> Value'[cache'[t].res]]
    BY DEF Memo
  <2>2. CASE t = s
    <3>1. cache'[t].args = {a, b} /\ cache'[t].res = ret
      BY <1>1, <1>2, <2>2 DEF TypeOK
    <3>2. {Value'[n] : n \in {a, b}} = {Value[a], Value[b]}
      BY <1>4, <1>5
    <3> QED BY <1>6, <2>1, <2>2, <3>1, <3>2
  <2>3. CASE t # s
    <3>1. cache'[t] = cache[t]
      BY <1>1, <1>2, <2>3 DEF TypeOK
    <3>2. cache[t].args \subseteq Intact /\ cache[t].res \in Intact \cup {Term, None}
      BY Visible
    <3>3. /\ {Value'[n] : n \in cache[t].args} = {Value[n] : n \in cache[t].args}
          /\ Value'[cache[t].res] = Value[cache[t].res]
      <4>1. \A n \in cache[t].args : Value'[n] = Value[n]
        BY <1>4, <3>2
      <4> QED BY <1>4, <3>2, <4>1
    <3>4. Memo[t] = [args |-> {Value[n] : n \in cache[t].args}, res |-> Value[cache[t].res]]
      BY DEF Memo
    <3> QED BY <2>1, <2>3, <3>1, <3>3, <3>4
  <2> QED BY <2>2, <2>3
<1>8. Memo' = [Memo EXCEPT ![s] = E]
  <2> HIDE DEF E
  <2>1. Memo' = [t \in Slot |-> Memo'[t]] /\ Memo = [t \in Slot |-> Memo[t]]
    BY DEF Memo
  <2> QED BY <1>7, <2>1
<1> QED BY <1>4, <1>5, <1>8 DEF Values!Remember

\* A cache hit returns the value that was remembered, also when the node is dead.
LEMMA CacheHitShows ==
    ASSUME IInv, ArgsIntact, IInv', NEW s \in Slot, CacheHit(s)
    PROVE  Values!Recall
<1>1. /\ TypeOK /\ req = NoReq /\ UNCHANGED <<place, node, stale, hold, cache, req>>
      /\ cache[s] # NoEntry /\ ret' = cache[s].res /\ \A n \in cache[s].args : Known(n)
  BY DEF IInv, CacheHit, Idle
<1>2. Intact' = Intact
  BY <1>1 DEF Intact, Table
<1>3. /\ \A k \in Intact \cup {Term, None} : Value'[k] = Value[k]
      /\ Handles' = Handles /\ Memo' = Memo
  BY <1>1, <1>2, ViewKept
<1>4. /\ cache[s].args \subseteq Intact /\ cache[s].res \in Intact \cup {Term, None}
      /\ cache[s].res # None /\ cache[s].args \subseteq Addr
  <2>1. cache[s].res # None /\ cache[s].args \subseteq Addr
    BY <1>1 DEF TypeOK
  <2> QED BY <2>1, Visible
<1>5. Memo[s] = [args |-> {Value[n] : n \in cache[s].args}, res |-> Value[cache[s].res]]
  BY DEF Memo
<1>6. Memo[s] # Values!Forgotten
  <2>1. Value[cache[s].res] # NoValue
    BY <1>4, ValueIs, ValueLevel, NoValueDiffers
  <2> QED BY <1>5, <2>1 DEF Values!Forgotten
<1>7. Memo[s].args \subseteq Values!Reachable
  <2>1. \A n \in cache[s].args : Value[n] \in Values!Reachable
    BY <1>1, <1>4, KnownReachable
  <2> QED BY <1>5, <2>1
<1>8. Result' = Memo[s].res
  <2>1. Result' = IF req' # NoReq THEN Built(req'.key, Value') ELSE Value'[ret']
    BY DEF Result, Built
  <2> QED BY <1>1, <1>3, <1>4, <1>5, <2>1
<1> QED BY <1>3, <1>6, <1>7, <1>8 DEF Values!Recall

\* A result that is dropped.
LEMMA DiscardShows ==
    ASSUME IInv, ArgsIntact, IInv', Discard
    PROVE  Values!Discard
<1>1. /\ req = NoReq /\ UNCHANGED <<place, node, stale, hold, cache, req>> /\ ret' = None
  BY DEF Discard, Idle, loops
<1>2. Intact' = Intact
  BY <1>1 DEF Intact, Table
<1>3. /\ \A k \in Intact \cup {Term, None} : Value'[k] = Value[k]
      /\ Handles' = Handles /\ Memo' = Memo
  BY <1>1, <1>2, ViewKept
<1>4. Result' = NoValue
  <2>1. Result' = IF req' # NoReq THEN Built(req'.key, Value') ELSE Value'[ret']
    BY DEF Result, Built
  <2> QED BY <1>1, <1>3, <2>1, ValueIs
<1> QED BY <1>3, <1>4 DEF Values!Discard

\* Loops, chunks and the allocation of what was asked for do not show.
LEMMA LoopHidden ==
    ASSUME IInv, ArgsIntact, IInv',
           \/ \E n \in Node : RecDerefStep(n)
           \/ \E a \in Addr : ReclaimStep(a)
           \/ AllocChunk
           \/ UNCHANGED vars
    PROVE  UNCHANGED <<Handles, Result, Memo>>
<1>1. UNCHANGED <<node, stale, hold, ret, req, cache>>
  BY DEF RecDerefStep, ReclaimStep, AllocChunk, vars, client, loops
<1>2. Table' = Table
  <2>1. CASE AllocChunk
    BY <2>1 DEF AllocChunk, OfMan, Table
  <2>2. CASE place' = place
    BY <2>2 DEF Table
  <2> QED BY <2>1, <2>2 DEF RecDerefStep, ReclaimStep, vars
<1>3. Intact' = Intact
  BY <1>1, <1>2 DEF Intact
<1> QED BY <1>1, <1>3, ViewKept

\* The end of cdd_make_*_node: the node found or taken has the value that was requested.
LEMMA TakeHidden ==
    ASSUME IInv, ArgsIntact, IInv', AllocTake
    PROVE  UNCHANGED <<Handles, Result, Memo>>
<1>1. TypeOK /\ req # NoReq /\ req' = NoReq /\ UNCHANGED <<stale, hold, cache>>
  BY DEF IInv, AllocTake
<1>2. PICK a \in FreeList(req.man) :
          /\ place' = [place EXCEPT ![a] = "table"]
          /\ node' = [node EXCEPT ![a] = req.key]
          /\ ret' = a
  BY DEF AllocTake
<1>3. a \in Addr /\ a \notin Table /\ place'[a] = "table" /\ node'[a] = req.key
  BY <1>1, <1>2 DEF FreeList, OfMan, Table, TypeOK
<1>4. a \in Intact' /\ Intact \subseteq Intact' /\ \A k \in Intact : node'[k] = node[k]
  BY <1>1, <1>2, <1>3 DEF Intact, Table, TypeOK
<1>5. /\ \A n \in Intact \cup {Term, None} : Value'[n] = Value[n]
      /\ Handles' = Handles /\ Memo' = Memo
  BY <1>1, <1>4, ViewKept
<1>6. Value'[a] = Built(req.key, Value')
  BY <1>3, <1>4, ValueAfter
<1>7. Built(req.key, Value') = Built(req.key, Value)
  <2>1. \A i \in DOMAIN req.key.kid : Value'[req.key.kid[i]] = Value[req.key.kid[i]]
    BY <1>1, <1>5, Visible
  <2> QED BY <2>1 DEF Built
<1>8. Result' = Result
  <2>1. Result' = IF req' # NoReq THEN Built(req'.key, Value') ELSE Value'[ret']
    BY DEF Result, Built
  <2> QED BY <1>1, <1>2, <1>6, <1>7, <2>1 DEF Result
<1> QED BY <1>5, <1>8

-----------------------------------------------------------------------------
(* The refinement.                                                         *)

\* The flush keeps the arguments of cached results intact.
LEMMA ArgsStayIntact == IInv /\ ArgsIntact /\ [Next]_vars => ArgsIntact'
<1> SUFFICES ASSUME IInv, ArgsIntact, [Next]_vars, NEW s \in Slot, NEW n \in cache'[s].args
             PROVE  n \notin stale'
  BY DEF ArgsIntact
<1>0. TypeOK
  BY DEF IInv
<1>1. ASSUME cache' = cache, stale' \subseteq stale PROVE n \notin stale'
  BY <1>1 DEF ArgsIntact
<1>2. ASSUME NEW ms, Sweep(ms), \A k \in Node : todo[k] = 0 PROVE n \notin stale'
  <2>1. cache'[s] # NoEntry
    BY DEF NoEntry
  <2>2. n \in cache[s].args /\ (n \in Node => ref[n] # 0)
    BY <1>2, <2>1 DEF Sweep, Flushed
  <2>3. n \in Addr /\ n \in Node
    BY <1>0, <2>2 DEF TypeOK, Node
  <2>4. n \notin dead
    BY <1>2, <2>2, <2>3 DEF IInv, DeadZero
  <2> QED BY <1>2, <2>4 DEF Sweep
<1>3. ASSUME NEW t \in Slot, CachePut(t) PROVE n \notin stale'
  <2>1. PICK a, b \in {k \in Addr : Known(k)} : cache' = [cache EXCEPT ![t] = [args |-> {a, b}, res |-> ret]]
    BY <1>3 DEF CachePut
  <2>2. Idle /\ stale' = stale
    BY <1>3 DEF CachePut
  <2>3. a \notin stale /\ b \notin stale
    BY <2>1, <2>2, KnownLive
  <2>4. cache'[s] = IF s = t THEN [args |-> {a, b}, res |-> ret] ELSE cache[s]
    BY <1>0, <2>1 DEF TypeOK
  <2> QED BY <2>2, <2>3, <2>4 DEF ArgsIntact
<1>4. CASE Gbc
  BY <1>2, <1>4 DEF Gbc, Idle, Empty
<1>5. CASE AllocGbc
  BY <1>2, <1>5 DEF AllocGbc, IInv, OneLoop
<1>6. \/ cache' = cache /\ stale' \subseteq stale
      \/ Gbc \/ AllocGbc
      \/ \E t \in Slot : CachePut(t)
  BY DEF Next, NextHeld, Loop, vars, MakeHeld, MakeFloating, MakeHit, MakeMiss, Discard, AllocChunk,
         AllocTake, Ref, DropFrame, Return, PlainDeref, Release, RecDerefStep, ReclaimStep, CacheHit
<1> QED BY <1>1, <1>3, <1>4, <1>5, <1>6

\* The kernel starts as an empty store.
LEMMA StartsEmpty == Init => Values!Init
<1> SUFFICES ASSUME Init PROVE Values!Init
  OBVIOUS
<1>1. IInv /\ hold = Empty /\ ret = None /\ req = NoReq /\ cache = [s \in Slot |-> NoEntry]
  BY InitIInv DEF Init
<1>2. Owned = {}
  BY <1>1 DEF Owned, Empty, Node
<1>3. Handles = [v \in {} |-> 0]
  BY <1>2 DEF Handles
<1>4. Result = NoValue /\ Value[None] = NoValue
  BY <1>1, ValueIs DEF Result
<1>5. Memo = [s \in Slot |-> Values!Forgotten]
  BY <1>1, <1>4 DEF Memo, NoEntry, Values!Forgotten
<1> QED BY <1>3, <1>4, <1>5 DEF Values!Init

\* Each action of the kernel is an action of the store or does not show.
LEMMA StepShows ==
    ASSUME IInv, ArgsIntact, IInv', ArgsIntact', [Next]_vars
    PROVE  [Values!Next]_<<Handles, Result, Memo>>
<1>1. CASE MakeHeld
  <2>1. Idle /\ \E m \in Man : \E key \in Content(m) :
                 /\ WellOrdered(key)
                 /\ \A n \in Node : At(key.kid, n) # {} => n = Term \/ hold[n] > 0
                 /\ MakeHit(m, key) \/ MakeMiss(m, key)
    BY <1>1 DEF MakeHeld
  <2> QED BY <2>1, MakeShows DEF Values!Next
<1>2. CASE MakeFloating
  <2>1. PICK key \in Content(BddMan) :
            /\ WellOrdered(key) /\ key.kid[2] = ret
            /\ key.kid[1] = Term \/ hold[key.kid[1]] > 0
            /\ MakeHit(BddMan, key) \/ MakeMiss(BddMan, key)
    BY <1>2 DEF MakeFloating
  <2>2. Idle /\ BddMan \in Man /\ DOMAIN key.kid = {1, 2}
    <3>1. Idle /\ BddMan \in Man /\ Arity[BddMan] = 2
      BY <1>2, NodeTableAssumption DEF MakeFloating
    <3>2. DOMAIN key.kid = 1..2
      BY <3>1 DEF Content
    <3> QED BY <3>1, <3>2
  <2>3. \A n \in Node : At(key.kid, n) # {} => n \in {Term, ret} \/ hold[n] > 0
    BY <2>1, <2>2 DEF At
  <2> QED BY <2>1, <2>2, <2>3, MakeShows DEF Values!Next
<1>3. CASE Discard
  BY <1>3, DiscardShows DEF Values!Next
<1>4. CASE Gbc
  <2>1. UNCHANGED <<ref, client, loops>> /\ \E ms : Sweep(ms)
    BY <1>4 DEF Gbc
  <2> QED BY <2>1, SweepShows DEF Values!Next
<1>5. CASE AllocGbc
  <2>1. UNCHANGED <<ref, client, loops>> /\ \E ms : Sweep(ms)
    BY <1>5 DEF AllocGbc
  <2> QED BY <2>1, SweepShows DEF Values!Next
<1>6. ASSUME NEW n \in Addr, Ref(n) PROVE Values!Next
  BY <1>6, RefShows DEF Values!Next
<1>7. ASSUME NEW n \in Addr, DropFrame(n) \/ Return(n) \/ Release(n) PROVE Values!Next
  BY <1>7, DerefShows DEF Values!Next
<1>8. ASSUME NEW s \in Slot, CachePut(s) PROVE Values!Next
  BY <1>8, CachePutShows DEF Values!Next
<1>9. ASSUME NEW s \in Slot, CacheHit(s) PROVE Values!Next
  BY <1>9, CacheHitShows DEF Values!Next
<1>10. CASE AllocTake
  BY <1>10, TakeHidden
<1>11. CASE \/ \E n \in Node : RecDerefStep(n)
            \/ \E a \in Addr : ReclaimStep(a)
            \/ AllocChunk
            \/ UNCHANGED vars
  BY <1>11, LoopHidden
<1> QED BY <1>1, <1>2, <1>3, <1>4, <1>5, <1>6, <1>7, <1>8, <1>9, <1>10, <1>11
        DEF Next, NextHeld, Loop, Node

\* Behind counters, dead nodes that come back, collections in the middle of an allocation
\* and caches, clients see a store of immutable values (cdd.h:50-58, 130-140): whatever they
\* do, a call of cdd_make_*_node returns the value it was asked for, a cache hit the value
\* that was remembered, and a held value stays what it is.
THEOREM KernelImplementsStore == Spec => ImplementsStore
<1>1. Init => Values!Init /\ IInv /\ ArgsIntact
  <2>1. Init => ArgsIntact
    BY DEF Init, ArgsIntact, NoEntry
  <2> QED BY <2>1, StartsEmpty, InitIInv
<1>2. IInv /\ ArgsIntact /\ [Next]_vars => IInv' /\ ArgsIntact'
  BY Inductive, ArgsStayIntact
<1>3. IInv /\ ArgsIntact /\ IInv' /\ ArgsIntact' /\ [Next]_vars => [Values!Next]_<<Handles, Result, Memo>>
  BY StepShows
<1>4. [Values!Next]_<<Handles, Result, Memo>> => [Values!Next]_(Values!svars)
  BY DEF Values!svars
<1> QED BY <1>1, <1>2, <1>3, <1>4, PTL DEF Spec, ImplementsStore, Values!Spec
=============================================================================
