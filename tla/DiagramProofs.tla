--------------------------- MODULE DiagramProofs ---------------------------
(***************************************************************************)
(* Theorems about modules DiagramOps and ZoneOps: whatever the clocks, the  *)
(* levels and the bounds, every diagram that a client of the operators can  *)
(* make is in normal form and denotes the set it is to denote, and the      *)
(* operators that promise more keep their promises.  The inductive          *)
(* invariant is IInv of module ApplyProofs.  Before the theorems come       *)
(* extraction (sets that bounds define), inclusion, diagrams without idle   *)
(* edges, the loops over zones, delays, and the timed predecessor.         *)
(***************************************************************************)
EXTENDS ApplyProofs, ZoneOps, FiniteSetTheorems

-----------------------------------------------------------------------------
(* The zone that is extracted.                                             *)

\* The hull of part of a closed set stays inside the set.
LEMMA HullGrows ==
    ASSUME NEW Z, Closed(Z), NEW Y \in SUBSET Z
    PROVE  Hull(Y) \subseteq Z
<1> SUFFICES ASSUME NEW v \in Hull(Y) PROVE v \in Hull(Z)
  BY DEF Closed
<1>1. ASSUME NEW l \in CddLevels, NEW b \in RawBnd[l], \A u \in Z : Below(u[l], b) PROVE Below(v[l], b)
  BY <1>1 DEF Hull
<1>2. ASSUME NEW l \in CddLevels, NEW b \in RawBnd[l], \A u \in Z : Above(u[l], b) PROVE Above(v[l], b)
  BY <1>2 DEF Hull
<1>3. v \in Feasible
  BY DEF Hull
<1> QED BY <1>1, <1>2, <1>3 DEF Hull

\* A closed set narrowed by a bound of a level is closed.
LEMMA PushClosed ==
    ASSUME NEW Z, Closed(Z), NEW l \in CddLevels
    PROVE  /\ \A b \in RawBnd[l] \cup {INF} : Closed(PushUpper(Z, l, b))
           /\ \A b \in RawBnd[l] \cup {-INF} : Closed(PushLower(Z, l, b))
<1>1. ASSUME NEW b \in RawBnd[l] \cup {INF} PROVE Closed(PushUpper(Z, l, b))
  <2> DEFINE Y == PushUpper(Z, l, b)
  <2>1. Y \in SUBSET Z /\ \A u \in Y : Below(u[l], b)
    BY DEF PushUpper
  <2>2. Hull(Y) \subseteq Z
    BY <2>1, HullGrows
  <2>3. ASSUME NEW v \in Hull(Y) PROVE Below(v[l], b)
    <3>1. CASE b \in RawBnd[l]
      BY <2>1, <2>3, <3>1 DEF Hull
    <3>2. CASE b = INF
      BY <3>2 DEF Below
    <3> QED BY <3>1, <3>2
  <2>4. Hull(Y) \subseteq Y
    BY <2>2, <2>3 DEF PushUpper
  <2>5. Y \subseteq Feasible
    BY <2>1 DEF Closed
  <2> QED BY <2>4, <2>5 DEF Closed
<1>2. ASSUME NEW b \in RawBnd[l] \cup {-INF} PROVE Closed(PushLower(Z, l, b))
  <2> DEFINE Y == PushLower(Z, l, b)
  <2>1. Y \in SUBSET Z /\ \A u \in Y : Above(u[l], b)
    BY DEF PushLower
  <2>2. Hull(Y) \subseteq Z
    BY <2>1, HullGrows
  <2>3. ASSUME NEW v \in Hull(Y) PROVE Above(v[l], b)
    <3>1. CASE b \in RawBnd[l]
      BY <2>1, <2>3, <3>1 DEF Hull
    <3>2. CASE b = -INF
      BY <3>2 DEF Above
    <3> QED BY <3>1, <3>2
  <2>4. Hull(Y) \subseteq Y
    BY <2>2, <2>3 DEF PushLower
  <2>5. Y \subseteq Feasible
    BY <2>1 DEF Closed
  <2> QED BY <2>4, <2>5 DEF Closed
<1> QED BY <1>1, <1>2

\* A clock is not negative when its difference to clock 0 is above the bound zero.
LEMMA NotNegative ==
    ASSUME NEW i \in Clocks \ {0}, NEW v \in Proper
    PROVE  /\ DiffLevel(i, 0) \in CddLevels /\ 0 \in RawBnd[DiffLevel(i, 0)]
           /\ Diff(v, i, 0) >= 0 <=> Above(v[DiffLevel(i, 0)], 0)
<1>1. i \in Nat /\ i > 0 /\ 0 \in Clocks
  BY ClockZero
<1> DEFINE l == DiffLevel(i, 0)
<1>2. l \in CddLevels /\ l \in Levels /\ Info[l].clock2 = 0
  BY <1>1, DiffLevelIs
<1>3. 0 \in RawBnd[l]
  BY <1>2, GridAssumption
<1>4. Diff(v, i, 0) = v[l] /\ v[l] \in Int
  BY <1>1, <1>2 DEF Diff, Proper, Vals
<1> HIDE DEF l
<1>5. Above(v[l], 0) <=> ~Below(v[l], 0)
  BY <1>2, <1>3, <1>4, FiniteBound
<1>6. Limit(0) = 0 /\ Unit * 0 = 0 /\ 0 # INF
  <2>1. Unit \in Int
    BY UnitIs
  <2>2. 0 # INF
    BY <1>2, <1>3, FiniteBound
  <2> QED BY <2>1, <2>2 DEF Limit
<1>7. Below(v[l], 0) <=> v[l] < 0
  BY <1>4, <1>6 DEF Below
<1>8. l \in CddLevels /\ 0 \in RawBnd[l] /\ (Diff(v, i, 0) >= 0 <=> Above(v[l], 0))
  BY <1>2, <1>3, <1>4, <1>5, <1>7
<1> QED BY <1>8 DEF l

\* dbm_init, where cdd_extract_dbm starts, is a closed set.
LEMMA InitClosed == Closed(dbm_init) /\ dbm_init \subseteq Feasible
<1>1. ASSUME NEW v \in Hull(dbm_init) PROVE v \in dbm_init
  <2>1. v \in Feasible
    BY DEF Hull
  <2>2. ASSUME NEW i \in Clocks \ {0} PROVE Diff(v, i, 0) >= 0
    <3>1. DiffLevel(i, 0) \in CddLevels /\ 0 \in RawBnd[DiffLevel(i, 0)]
      BY <2>1, FeasibleProper, NotNegative
    <3>2. \A u \in dbm_init : Above(u[DiffLevel(i, 0)], 0)
      BY FeasibleProper, NotNegative DEF dbm_init
    <3>3. Above(v[DiffLevel(i, 0)], 0)
      BY <3>1, <3>2 DEF Hull
    <3> QED BY <2>1, <3>3, FeasibleProper, NotNegative
  <2> QED BY <2>1, <2>2 DEF dbm_init
<1> QED BY <1>1 DEF Closed, dbm_init

-----------------------------------------------------------------------------
(* The path of first edges.                                                *)

ExtractZoneStep(h, below) ==
    [t \in ddNode \X ValSets |->
        LET f1 == t[1]
            Z == t[2]
            k == FirstEdge(f1)
        IN  IF IsTerminal(f1) \/ ~IsCdd(LevelOf(f1)) THEN Z
            ELSE below[<<Child(f1, k), cdd_constrain2(Z, LevelOf(f1), Lower(f1, k), Upper(f1, k))>>]]
ExtractZoneRec == INSTANCE Recursion WITH Base <- <<>>, Step <- ExtractZoneStep
ExtractBddStep(h, below) ==
    [d \in ddNode |->
        IF IsTerminal(d) THEN cddtrue
        ELSE IF ~IsCdd(LevelOf(d)) THEN d ELSE below[Child(d, FirstEdge(d))]]
ExtractBddRec == INSTANCE Recursion WITH Base <- <<>>, Step <- ExtractBddStep

\* Where the first edge leads, and the zone on it.
Next1(d) == Child(d, FirstEdge(d))
ZoneOn(d, Z) == cdd_constrain2(Z, LevelOf(d), Lower(d, FirstEdge(d)), Upper(d, FirstEdge(d)))

\* The loop of cdd_extract_dbm, one node down.
LEMMA ExtractZoneEquation ==
    ASSUME NEW h \in Nat, NEW d \in ddNode, NEW Z \in ValSets
    PROVE  ExtractZoneAt[h + 1][<<d, Z>>] =
               IF IsTerminal(d) \/ ~IsCdd(LevelOf(d)) THEN Z ELSE ExtractZoneAt[h][<<Next1(d), ZoneOn(d, Z)>>]
<1>1. ExtractZoneAt = ExtractZoneRec!F
  BY DEF ExtractZoneAt, ExtractZoneRec!F, ExtractZoneStep
<1> HIDE DEF ExtractZoneAt
<1>2. ExtractZoneAt[h + 1] = ExtractZoneStep(h + 1, ExtractZoneAt[h])
  BY <1>1, ExtractZoneRec!Def
<1>3. <<d, Z>> \in ddNode \X ValSets
  OBVIOUS
<1> QED BY <1>2, <1>3, Zenon DEF ExtractZoneStep, Next1, ZoneOn

\* The loop of cdd_extract_bdd, one node down.
LEMMA ExtractBddEquation ==
    ASSUME NEW h \in Nat, NEW d \in ddNode
    PROVE  ExtractBddAt[h + 1][d] =
               IF IsTerminal(d) THEN cddtrue
               ELSE IF ~IsCdd(LevelOf(d)) THEN d ELSE ExtractBddAt[h][Next1(d)]
<1>1. ExtractBddAt = ExtractBddRec!F
  BY DEF ExtractBddAt, ExtractBddRec!F, ExtractBddStep
<1> HIDE DEF ExtractBddAt
<1>2. ExtractBddAt[h + 1] = ExtractBddStep(h + 1, ExtractBddAt[h])
  BY <1>1, ExtractBddRec!Def
<1> QED BY <1>2, Zenon DEF ExtractBddStep, Next1

\* Following the leftmost edge that does not lead to false narrows the zone to where the child
\* speaks.
LEMMA FirstEdgeIs ==
    ASSUME NEW d \in Cdds, ~IsTerminal(d), IsCdd(LevelOf(d)), NEW Z \in SUBSET Proper
    PROVE  /\ Next1(d) \in Cdds /\ LevelOf(Next1(d)) > LevelOf(d) /\ Next1(d) # cddfalse
           /\ ZoneOn(d, Z) \subseteq Z
           /\ \A v \in ZoneOn(d, Z) : Leaf(d, v) = Leaf(Next1(d), v)
           /\ Closed(Z) => Closed(ZoneOn(d, Z))
<1> DEFINE l == LevelOf(d)
           bs == BoundsIn(d.node.elem)
           k == FirstEdge(d)
<1>1. /\ l \in CddLevels /\ l \in Levels /\ BoundList(bs) /\ Len(bs) = Arity(d) /\ Arity(d) \in Nat /\ Arity(d) >= 2
      /\ \A m \in 1..Arity(d) : /\ bs[m] \in BoundsOf(l) /\ bs[m] = d.node.elem[m].bnd
                                /\ Child(d, m) \in Cdds /\ LevelOf(Child(d, m)) > l
      /\ Child(d, 1) # Child(d, 1 + 1)
  <2>1. 1 \in 1..(Arity(d) - 1)
    BY CddNode
  <2> QED BY <2>1, CddNode
<1>2. k \in 1..Arity(d) /\ k \in {1, 2} /\ Child(d, k) # cddfalse
  BY <1>1 DEF FirstEdge
<1>3. /\ Upper(d, k) = bs[k] /\ Upper(d, k) \in RawBnd[l] \cup {INF}
      /\ k = 1 => Lower(d, k) = -INF
      /\ k # 1 => Lower(d, k) = bs[k - 1] /\ Lower(d, k) \in RawBnd[l]
  <2>1. Upper(d, k) = bs[k] /\ bs[k] \in RawBnd[l] \cup {INF}
    BY <1>1, <1>2 DEF Upper, BoundsOf, IsCdd
  <2>2. ASSUME k # 1 PROVE Lower(d, k) = bs[k - 1] /\ Lower(d, k) \in RawBnd[l]
    <3>1. k - 1 \in 1..Arity(d) /\ k - 1 \in 1..Len(bs) /\ k - 1 < Len(bs)
      BY <1>1, <1>2, <2>2
    <3>2. bs[k - 1] < INF /\ bs[k - 1] \in Int
      BY <1>1, <3>1, BoundsBelowInf
    <3>3. bs[k - 1] \in RawBnd[l]
      BY <1>1, <3>1, <3>2, Basics DEF BoundsOf, IsCdd
    <3> QED BY <1>1, <2>2, <3>1, <3>3 DEF Lower
  <2>3. k = 1 => Lower(d, k) = -INF
    BY DEF Lower
  <2> QED BY <2>1, <2>2, <2>3
<1>4. ZoneOn(d, Z) = PushUpper(PushLower(Z, l, Lower(d, k)), l, Upper(d, k))
  BY DEF ZoneOn, cdd_constrain2
<1> HIDE DEF l, bs, k
<1>5. ZoneOn(d, Z) \subseteq Z
  BY <1>4 DEF PushUpper, PushLower
<1>6. ASSUME NEW v \in ZoneOn(d, Z) PROVE Leaf(d, v) = Leaf(Child(d, k), v)
  <2>1. v \in Proper /\ v[l] \in Int
    BY <1>1, <1>5 DEF Proper, Vals
  <2>2. Below(v[l], bs[k]) /\ Above(v[l], Lower(d, k))
    BY <1>3, <1>4 DEF PushUpper, PushLower
  <2>3. k = 1 \/ ~Below(v[l], bs[k - 1])
    <3> SUFFICES ASSUME k # 1 PROVE ~Below(v[l], bs[k - 1])
      OBVIOUS
    <3>1. Lower(d, k) = bs[k - 1] /\ Lower(d, k) \in RawBnd[l]
      BY <1>3
    <3> QED BY <1>1, <2>1, <2>2, <3>1, FiniteBound
  <2>4. Covers(bs, v[l], k)
    BY <1>1, <1>2, <2>2, <2>3 DEF Covers
  <2>5. /\ IsTerminal(d) => FALSE
        /\ Leaf(d, v) = Leaf(Child(d, EdgeOf(d, v)), v)
        /\ Covers(bs, v[l], EdgeOf(d, v))
    BY <2>1, LeafBelow, EdgeTaken DEF l, bs
  <2>6. EdgeOf(d, v) = k
    BY <1>1, <2>1, <2>4, <2>5, CoverUnique
  <2> QED BY <2>5, <2>6
<1>7. ASSUME Closed(Z) PROVE Closed(ZoneOn(d, Z))
  <2>1. Lower(d, k) \in RawBnd[l] \cup {-INF}
    BY <1>3
  <2>2. Closed(PushLower(Z, l, Lower(d, k)))
    BY <1>1, <1>7, <2>1, PushClosed
  <2>3. Closed(PushUpper(PushLower(Z, l, Lower(d, k)), l, Upper(d, k)))
    BY <1>1, <1>3, <2>2, PushClosed
  <2> QED BY <1>4, <2>3
<1> QED BY <1>1, <1>2, <1>5, <1>6, <1>7 DEF Next1, k, l

\* What the two functions that walk down the path give together.
ExtractedAt(h, d, Z) ==
    /\ ExtractZoneAt[h][<<d, Z>>] \subseteq Z
    /\ ExtractBddAt[h][d] \in Cdds
    /\ \A v \in ExtractZoneAt[h][<<d, Z>>] : Leaf(ExtractBddAt[h][d], v) = Leaf(d, v)
    /\ Closed(Z) => Closed(ExtractZoneAt[h][<<d, Z>>])

\* On the extracted zone the diagram says what its extracted Boolean part says.
LEMMA ExtractIs ==
    ASSUME NEW d \in Cdds, d # cddfalse, NEW Z \in SUBSET Proper
    PROVE  /\ ExtractZone(d, Z) \subseteq Z
           /\ cdd_extract_bdd(d) \in Cdds
           /\ \A v \in ExtractZone(d, Z) : Leaf(cdd_extract_bdd(d), v) = Leaf(d, v)
           /\ Closed(Z) => Closed(ExtractZone(d, Z))
<1> DEFINE R(h) == \A c \in Cdds, Y \in SUBSET Proper : c # cddfalse /\ LevelOf(c) + h >= Depth => ExtractedAt(h, c, Y)
           T == {h \in Nat : R(h)}
<1>0. Depth \in Nat /\ Depth = MAXLEVEL + 1 /\ MAXLEVEL \in Nat
  BY Basics
<1>1. 0 \in T
  <2>1. \A c \in Cdds : ~(LevelOf(c) + 0 >= Depth)
    BY <1>0, CddLevel
  <2> QED BY <2>1
<1>2. ASSUME NEW h \in Nat, h \in T PROVE h + 1 \in T
  <2> SUFFICES ASSUME NEW c \in Cdds, NEW Y \in SUBSET Proper, c # cddfalse, LevelOf(c) + (h + 1) >= Depth
               PROVE  ExtractedAt(h + 1, c, Y)
    OBVIOUS
  <2>1. c \in ddNode /\ Y \in ValSets
    BY PointerFacts DEF Proper, ValSets
  <2>2. ExtractZoneAt[h + 1][<<c, Y>>] =
            IF IsTerminal(c) \/ ~IsCdd(LevelOf(c)) THEN Y ELSE ExtractZoneAt[h][<<Next1(c), ZoneOn(c, Y)>>]
    BY <2>1, ExtractZoneEquation
  <2>3. ExtractBddAt[h + 1][c] =
            IF IsTerminal(c) THEN cddtrue ELSE IF ~IsCdd(LevelOf(c)) THEN c ELSE ExtractBddAt[h][Next1(c)]
    BY <2>1, ExtractBddEquation
  <2>4. CASE IsTerminal(c)
    <3>1. c = cddtrue
      BY <2>4, TerminalIs
    <3> QED BY <2>2, <2>3, <2>4, <3>1 DEF ExtractedAt
  <2>5. CASE ~IsTerminal(c) /\ ~IsCdd(LevelOf(c))
    BY <2>2, <2>3, <2>5 DEF ExtractedAt
  <2>6. CASE ~IsTerminal(c) /\ IsCdd(LevelOf(c))
    <3> DEFINE n == Next1(c)
               X == ZoneOn(c, Y)
    <3>1. /\ n \in Cdds /\ LevelOf(n) > LevelOf(c) /\ n # cddfalse /\ X \subseteq Y
          /\ \A v \in X : Leaf(c, v) = Leaf(n, v)
          /\ Closed(Y) => Closed(X)
      BY <2>6, FirstEdgeIs
    <3>2. ExtractZoneAt[h + 1][<<c, Y>>] = ExtractZoneAt[h][<<n, X>>] /\ ExtractBddAt[h + 1][c] = ExtractBddAt[h][n]
      BY <2>2, <2>3, <2>6
    <3> HIDE DEF n, X
    <3>3. LevelOf(n) + h >= Depth
      BY <3>1, <1>0, CddLevel
    <3>4. X \in SUBSET Proper
      BY <3>1
    <3>5. ExtractedAt(h, n, X)
      BY <1>2, <3>1, <3>3, <3>4
    <3> QED BY <3>1, <3>2, <3>5 DEF ExtractedAt
  <2> QED BY <2>4, <2>5, <2>6
<1> HIDE DEF R
<1>3. \A h \in Nat : h \in T
  BY <1>1, <1>2, Induction
<1>4. R(Depth)
  BY <1>0, <1>3
<1>5. LevelOf(d) + Depth >= Depth
  BY <1>0, CddLevel
<1>6. ExtractedAt(Depth, d, Z)
  BY <1>4, <1>5 DEF R
<1> QED BY <1>6 DEF ExtractedAt, ExtractZone, cdd_extract_bdd

-----------------------------------------------------------------------------
(* cdd_from_dbm.                                                           *)

\* A non-empty set of integers that is bounded below has a least member.
LEMMA LeastInt ==
    ASSUME NEW n \in Nat, NEW S \in SUBSET Int, S # {}, \A x \in S : -n <= x
    PROVE  Min(S) \in S /\ \A x \in S : Min(S) <= x
<1> DEFINE U == {k \in Nat : k - n \in S}
<1>1. U # {} /\ U \subseteq Nat
  <2>1. PICK x \in S : TRUE
    OBVIOUS
  <2>2. x + n \in Nat /\ (x + n) - n = x
    OBVIOUS
  <2>3. x + n \in U
    BY <2>2
  <2> QED BY <2>3
<1>2. PICK u \in U : \A y \in U : u <= y
  BY <1>1, LeastElement
<1>3. \A x \in S : u - n <= x
  <2> TAKE x \in S
  <2>1. x + n \in Nat /\ (x + n) - n = x
    OBVIOUS
  <2>2. x + n \in U
    BY <2>1
  <2> QED BY <1>2, <2>1, <2>2
<1>4. \E x \in S : \A y \in S : x <= y
  BY <1>2, <1>3
<1> QED BY <1>4 DEF Min

\* A non-empty set of integers that is bounded above has a greatest member.
LEMMA GreatestInt ==
    ASSUME NEW n \in Nat, NEW S \in SUBSET Int, S # {}, \A x \in S : x <= n
    PROVE  Max(S) \in S /\ \A x \in S : x <= Max(S)
<1> DEFINE U == {k \in Nat : n - k \in S}
<1>1. U # {} /\ U \subseteq Nat
  <2>1. PICK x \in S : TRUE
    OBVIOUS
  <2>2. n - x \in Nat /\ n - (n - x) = x
    OBVIOUS
  <2>3. n - x \in U
    BY <2>2
  <2> QED BY <2>3
<1>2. PICK u \in U : \A y \in U : u <= y
  BY <1>1, LeastElement
<1>3. \A x \in S : x <= n - u
  <2> TAKE x \in S
  <2>1. n - x \in Nat /\ n - (n - x) = x
    OBVIOUS
  <2>2. n - x \in U
    BY <2>1
  <2> QED BY <1>2, <2>1, <2>2
<1>4. \E x \in S : \A y \in S : y <= x
  BY <1>2, <1>3
<1> QED BY <1>4 DEF Max

\* The tightest upper bound of a zone on a level is the least of those its members satisfy.
LEMMA TightUpperIs ==
    ASSUME NEW l \in CddLevels, NEW Z
    PROVE  /\ TightUpper(Z, l) \in RawBnd[l] \cup {INF}
           /\ \A v \in Z : Below(v[l], TightUpper(Z, l))
           /\ \A b \in RawBnd[l] : (\A v \in Z : Below(v[l], b)) => TightUpper(Z, l) <= b
<1> DEFINE S == {b \in RawBnd[l] \cup {INF} : \A v \in Z : Below(v[l], b)}
<1>1. INF \in S
  BY DEF Below
<1>2. INF \in Nat /\ S \in SUBSET Int /\ \A x \in S : -INF <= x
  BY Basics
<1>3. TightUpper(Z, l) = Min(S)
  BY DEF TightUpper
<1> HIDE DEF S
<1>4. Min(S) \in S /\ \A x \in S : Min(S) <= x
  BY <1>1, <1>2, LeastInt
<1> QED BY <1>3, <1>4 DEF S

\* The tightest lower bound of a zone on a level is the greatest of those its members satisfy.
LEMMA TightLowerIs ==
    ASSUME NEW l \in CddLevels, NEW Z
    PROVE  /\ TightLower(Z, l) \in RawBnd[l] \cup {-INF}
           /\ \A v \in Z : Above(v[l], TightLower(Z, l))
           /\ \A b \in RawBnd[l] : (\A v \in Z : Above(v[l], b)) => b <= TightLower(Z, l)
<1> DEFINE S == {b \in RawBnd[l] \cup {-INF} : \A v \in Z : Above(v[l], b)}
<1>1. -INF \in S
  BY DEF Above
<1>2. INF \in Nat /\ S \in SUBSET Int /\ \A x \in S : x <= INF
  BY Basics
<1>3. TightLower(Z, l) = Max(S)
  BY DEF TightLower
<1> HIDE DEF S
<1>4. Max(S) \in S /\ \A x \in S : x <= Max(S)
  BY <1>1, <1>2, GreatestInt
<1> QED BY <1>3, <1>4 DEF S

\* The two entries of a level.
UpperEntry(Z, l) == [level |-> l, side |-> "hi", set |-> PushUpper(Feasible, l, TightUpper(Z, l))]
LowerEntry(Z, l) == [level |-> l, side |-> "lo", set |-> PushLower(Feasible, l, TightLower(Z, l))]

\* Entries: an upper and a lower one for every level.
LEMMA EntriesAre ==
    ASSUME NEW Z
    PROVE  Entries(Z) = {UpperEntry(Z, l) : l \in CddLevels} \cup {LowerEntry(Z, l) : l \in CddLevels}
BY DEF Entries, UpperEntry, LowerEntry

\* A DBM has finitely many entries.
LEMMA EntriesFinite == ASSUME NEW Z PROVE IsFiniteSet(Entries(Z))
<1>1. IsFiniteSet(CddLevels)
  <2>1. IsFiniteSet(0..(MAXLEVEL - 1)) /\ CddLevels \in SUBSET (0..(MAXLEVEL - 1))
    BY Basics, FS_Interval
  <2> QED BY <2>1, FS_Subset
<1> DEFINE A == {UpperEntry(Z, l) : l \in CddLevels}
           B == {LowerEntry(Z, l) : l \in CddLevels}
           fa == [l \in CddLevels |-> UpperEntry(Z, l)]
           fb == [l \in CddLevels |-> LowerEntry(Z, l)]
<1>2. fa \in Surjection(CddLevels, A) /\ fb \in Surjection(CddLevels, B)
  BY DEF Surjection
<1>3. Entries(Z) = A \cup B
  BY EntriesAre
<1> HIDE DEF A, B, fa, fb
<1>4. IsFiniteSet(A)
  BY <1>1, <1>2, FS_Surjection
<1>5. IsFiniteSet(B)
  BY <1>1, <1>2, FS_Surjection
<1>6. IsFiniteSet(A \cup B)
  BY <1>4, <1>5, FS_Union
<1> QED BY <1>3, <1>6

\* All entries together define a closed set.
LEMMA EntriesDefine ==
    ASSUME NEW Z, Closed(Z)
    PROVE  {v \in Feasible : \A e \in Entries(Z) : v \in e.set} = Z
<1>1. ASSUME NEW v \in Feasible, \A e \in Entries(Z) : v \in e.set PROVE v \in Z
  <2>1. ASSUME NEW l \in CddLevels, NEW b \in RawBnd[l]
        PROVE  /\ (\A u \in Z : Below(u[l], b)) => Below(v[l], b)
               /\ (\A u \in Z : Above(u[l], b)) => Above(v[l], b)
    <3> DEFINE tu == TightUpper(Z, l)
               tl == TightLower(Z, l)
    <3>1. /\ b \in Int /\ b <= INF /\ -INF < b /\ v[l] \in Int
          /\ \A d \in Int : Above(d, b) <=> ~Below(d, b)
      <4>1. v[l] \in Int
        BY FeasibleProper DEF Proper, Vals, CddLevels
      <4> QED BY <4>1, FiniteBound
    <3>2. Below(v[l], tu)
      <4>1. UpperEntry(Z, l) \in Entries(Z)
        BY EntriesAre
      <4>2. v \in UpperEntry(Z, l).set
        BY <1>1, <4>1
      <4> QED BY <4>2 DEF UpperEntry, PushUpper
    <3>3. Above(v[l], tl)
      <4>1. LowerEntry(Z, l) \in Entries(Z)
        BY EntriesAre
      <4>2. v \in LowerEntry(Z, l).set
        BY <1>1, <4>1
      <4> QED BY <4>2 DEF LowerEntry, PushLower
    <3>4. tu \in Int /\ tl \in RawBnd[l] \cup {-INF} /\ tl \in Int
      BY TightUpperIs, TightLowerIs, Basics
    <3>5. ASSUME \A u \in Z : Below(u[l], b) PROVE Below(v[l], b)
      <4>1. tu <= b
        BY <3>5, TightUpperIs
      <4> HIDE DEF tu
      <4> QED BY <3>1, <3>2, <3>4, <4>1, BelowMonotone
    <3>6. ASSUME \A u \in Z : Above(u[l], b) PROVE Above(v[l], b)
      <4>1. b <= tl
        BY <3>6, TightLowerIs
      <4> HIDE DEF tl
      <4>2. tl \in RawBnd[l] /\ tl <= INF
        BY <4>1, <3>1, <3>4, Basics
      <4>3. ~Below(v[l], tl)
        BY <3>1, <3>3, <4>2, FiniteBound
      <4>4. ~Below(v[l], b)
        BY <3>1, <3>4, <4>1, <4>2, <4>3, BelowMonotone
      <4> QED BY <3>1, <4>4
    <3> QED BY <3>5, <3>6
  <2>2. v \in Hull(Z)
    BY <2>1 DEF Hull
  <2> QED BY <2>2 DEF Closed
<1>2. ASSUME NEW v \in Z, NEW e \in Entries(Z) PROVE v \in Feasible /\ v \in e.set
  <2>1. v \in Feasible
    BY DEF Closed
  <2>2. ASSUME NEW l \in CddLevels, e = UpperEntry(Z, l) PROVE v \in e.set
    BY <2>1, <2>2, TightUpperIs DEF UpperEntry, PushUpper
  <2>3. ASSUME NEW l \in CddLevels, e = LowerEntry(Z, l) PROVE v \in e.set
    BY <2>1, <2>3, TightLowerIs DEF LowerEntry, PushLower
  <2> QED BY <2>1, <2>2, <2>3, EntriesAre
<1>3. Z \subseteq Feasible
  BY DEF Closed
<1> QED BY <1>1, <1>2, <1>3

\* The marks that dbm_analyzeForMinDBM leaves: bounds that define the zone, each
\* of them finite.
Marks(Z, ok) ==
    /\ ok \subseteq Nat \X {"lo", "hi"}
    /\ \A l \in CddLevels : /\ <<l, "hi">> \in ok => TightUpper(Z, l) \in RawBnd[l]
                            /\ <<l, "lo">> \in ok => TightLower(Z, l) \in RawBnd[l]
    /\ \A v \in Feasible : v \in Z <=> \A l \in CddLevels :
           /\ <<l, "hi">> \in ok => Below(v[l], TightUpper(Z, l))
           /\ <<l, "lo">> \in ok => Above(v[l], TightLower(Z, l))

\* A smallest member of a non-empty family of subsets of a finite set is in the family.
LEMMA LeastSet ==
    ASSUME NEW E, IsFiniteSet(E), NEW D \in SUBSET SUBSET E, D # {}
    PROVE  (CHOOSE S \in D : \A T \in D : Cardinality(S) <= Cardinality(T)) \in D
<1> DEFINE K == {n \in Nat : \E S \in D : Cardinality(S) = n}
<1>1. \A S \in D : Cardinality(S) \in Nat
  BY FS_Subset, FS_CardinalityType
<1>2. K # {} /\ K \in SUBSET Nat
  BY <1>1
<1>3. PICK n \in K : \A m \in K : n <= m
  BY <1>2, LeastElement
<1>4. \E S \in D : \A T \in D : Cardinality(S) <= Cardinality(T)
  BY <1>1, <1>3
<1> QED BY <1>4

\* The entries that the minimal-graph analysis marks define a closed zone.
LEMMA MarksAre ==
    ASSUME NEW Z, Closed(Z)
    PROVE  Marks(Z, dbm_analyzeForMinDBM(Z))
<1> DEFINE entries == {e \in Entries(Z) : e.set # Feasible}
           defining == {S \in SUBSET entries : {v \in Feasible : \A e \in S : v \in e.set} = Z}
           least == CHOOSE S \in defining : \A T \in defining : Cardinality(S) <= Cardinality(T)
           ok == {<<e.level, e.side>> : e \in least}
<1>1. dbm_analyzeForMinDBM(Z) = ok
  BY DEF dbm_analyzeForMinDBM
<1>2. entries \in defining
  BY EntriesDefine
<1>3. IsFiniteSet(entries)
  BY EntriesFinite, FS_Subset
<1>4. least \in defining
  <2>1. defining \in SUBSET SUBSET entries /\ defining # {}
    BY <1>2
  <2> HIDE DEF defining, entries
  <2> QED BY <1>3, <2>1, LeastSet
<1>5. /\ \A e \in least : e \in Entries(Z) /\ e.set # Feasible
      /\ {v \in Feasible : \A e \in least : v \in e.set} = Z
  <2> HIDE DEF least
  <2> QED BY <1>4
<1> HIDE DEF least, defining, entries
<1>6. ASSUME NEW l \in CddLevels
      PROVE  /\ <<l, "hi">> \in ok <=> UpperEntry(Z, l) \in least
             /\ <<l, "lo">> \in ok <=> LowerEntry(Z, l) \in least
  <2>1. ASSUME <<l, "hi">> \in ok PROVE UpperEntry(Z, l) \in least
    <3>1. PICK e \in least : e.level = l /\ e.side = "hi"
      BY <2>1
    <3>2. e \in Entries(Z)
      BY <1>5
    <3>3. e = UpperEntry(Z, l)
      BY <3>1, <3>2, EntriesAre DEF UpperEntry, LowerEntry
    <3> QED BY <3>3
  <2>2. ASSUME <<l, "lo">> \in ok PROVE LowerEntry(Z, l) \in least
    <3>1. PICK e \in least : e.level = l /\ e.side = "lo"
      BY <2>2
    <3>2. e \in Entries(Z)
      BY <1>5
    <3>3. e = LowerEntry(Z, l)
      BY <3>1, <3>2, EntriesAre DEF UpperEntry, LowerEntry
    <3> QED BY <3>3
  <2>3. ASSUME UpperEntry(Z, l) \in least PROVE <<l, "hi">> \in ok
    <3>1. UpperEntry(Z, l).level = l /\ UpperEntry(Z, l).side = "hi"
      BY DEF UpperEntry
    <3> QED BY <2>3, <3>1
  <2>4. ASSUME LowerEntry(Z, l) \in least PROVE <<l, "lo">> \in ok
    <3>1. LowerEntry(Z, l).level = l /\ LowerEntry(Z, l).side = "lo"
      BY DEF LowerEntry
    <3> QED BY <2>4, <3>1
  <2> QED BY <2>1, <2>2, <2>3, <2>4
<1>7. ok \subseteq Nat \X {"lo", "hi"}
  <2>1. \A e \in Entries(Z) : e.level \in CddLevels /\ e.side \in {"lo", "hi"}
    BY EntriesAre DEF UpperEntry, LowerEntry
  <2>2. \A l \in CddLevels : l \in Nat
    BY LevelRange DEF CddLevels
  <2> QED BY <1>5, <2>1, <2>2
<1> HIDE DEF ok
<1>8. ASSUME NEW l \in CddLevels
      PROVE  /\ <<l, "hi">> \in ok => TightUpper(Z, l) \in RawBnd[l]
             /\ <<l, "lo">> \in ok => TightLower(Z, l) \in RawBnd[l]
  <2>1. ASSUME <<l, "hi">> \in ok PROVE TightUpper(Z, l) # INF
    <3>1. UpperEntry(Z, l).set # Feasible
      BY <1>5, <1>6, <2>1
    <3>2. PushUpper(Feasible, l, INF) = Feasible
      BY DEF PushUpper, Below
    <3> QED BY <3>1, <3>2 DEF UpperEntry
  <2>2. ASSUME <<l, "lo">> \in ok PROVE TightLower(Z, l) # -INF
    <3>1. LowerEntry(Z, l).set # Feasible
      BY <1>5, <1>6, <2>2
    <3>2. PushLower(Feasible, l, -INF) = Feasible
      BY DEF PushLower, Above
    <3> QED BY <3>1, <3>2 DEF LowerEntry
  <2> QED BY <2>1, <2>2, TightUpperIs, TightLowerIs
<1>9. ASSUME NEW v \in Feasible
      PROVE  v \in Z <=> \A l \in CddLevels : /\ <<l, "hi">> \in ok => Below(v[l], TightUpper(Z, l))
                                              /\ <<l, "lo">> \in ok => Above(v[l], TightLower(Z, l))
  <2>1. ASSUME v \in Z, NEW l \in CddLevels
        PROVE  Below(v[l], TightUpper(Z, l)) /\ Above(v[l], TightLower(Z, l))
    BY <2>1, TightUpperIs, TightLowerIs
  <2>2. ASSUME \A l \in CddLevels : /\ <<l, "hi">> \in ok => Below(v[l], TightUpper(Z, l))
                                    /\ <<l, "lo">> \in ok => Above(v[l], TightLower(Z, l)),
               NEW e \in least
        PROVE  v \in e.set
    <3>1. ASSUME NEW l \in CddLevels, e = UpperEntry(Z, l) PROVE v \in e.set
      <4>1. <<l, "hi">> \in ok
        BY <1>6, <3>1
      <4>2. Below(v[l], TightUpper(Z, l))
        BY <2>2, <4>1
      <4> QED BY <3>1, <4>2 DEF UpperEntry, PushUpper
    <3>2. ASSUME NEW l \in CddLevels, e = LowerEntry(Z, l) PROVE v \in e.set
      <4>1. <<l, "lo">> \in ok
        BY <1>6, <3>2
      <4>2. Above(v[l], TightLower(Z, l))
        BY <2>2, <4>1
      <4> QED BY <3>2, <4>2 DEF LowerEntry, PushLower
    <3>3. e \in Entries(Z)
      BY <1>5
    <3> QED BY <3>1, <3>2, <3>3, EntriesAre
  <2> QED BY <1>5, <2>1, <2>2
<1> QED BY <1>1, <1>7, <1>8, <1>9 DEF Marks

MarkSets == SUBSET (Nat \X {"lo", "hi"})
FromLevelsStep(n, below) ==
    [t \in ValSets \X (SUBSET (Nat \X {"lo", "hi"})) |->
        IF IsCdd(MAXLEVEL - n) THEN FromLevel(t[1], t[2], below[t], MAXLEVEL - n) ELSE below[t]]
FromLevelsRec == INSTANCE Recursion
    WITH Base <- [t \in ValSets \X (SUBSET (Nat \X {"lo", "hi"})) |-> cddtrue], Step <- FromLevelsStep

\* The loop of cdd_from_dbm, one difference at a time.
LEMMA FromLevelsEquation ==
    ASSUME NEW Z \in ValSets, NEW ok \in MarkSets
    PROVE  /\ FromLevels[0][<<Z, ok>>] = cddtrue
           /\ \A n \in Nat : FromLevels[n + 1][<<Z, ok>>] =
                  IF IsCdd(MAXLEVEL - (n + 1)) THEN FromLevel(Z, ok, FromLevels[n][<<Z, ok>>], MAXLEVEL - (n + 1))
                  ELSE FromLevels[n][<<Z, ok>>]
<1>1. FromLevels = FromLevelsRec!F
  BY DEF FromLevels, FromLevelsRec!F, FromLevelsStep
<1> HIDE DEF FromLevels
<1>2. <<Z, ok>> \in ValSets \X (SUBSET (Nat \X {"lo", "hi"})) /\ <<Z, ok>>[1] = Z /\ <<Z, ok>>[2] = ok
  BY DEF MarkSets
<1>3. FromLevels[0] = [t \in ValSets \X (SUBSET (Nat \X {"lo", "hi"})) |-> cddtrue]
  BY <1>1, FromLevelsRec!Def
<1>4. FromLevels[0][<<Z, ok>>] = cddtrue
  BY <1>2, <1>3, Zenon
<1>5. ASSUME NEW n \in Nat
      PROVE  FromLevels[n + 1][<<Z, ok>>] =
                  IF IsCdd(MAXLEVEL - (n + 1)) THEN FromLevel(Z, ok, FromLevels[n][<<Z, ok>>], MAXLEVEL - (n + 1))
                  ELSE FromLevels[n][<<Z, ok>>]
  <2>1. FromLevels[n + 1] = FromLevelsStep(n + 1, FromLevels[n])
    BY <1>1, FromLevelsRec!Def
  <2> QED BY <1>2, <2>1, Zenon DEF FromLevelsStep
<1> QED BY <1>4, <1>5

\* What the marked bounds of a level say, and those of level m onwards.
Meets(Z, ok, v, l) == /\ <<l, "hi">> \in ok => Below(v[l], TightUpper(Z, l))
                      /\ <<l, "lo">> \in ok => Above(v[l], TightLower(Z, l))
MeetsFrom(Z, ok, v, m) == \A l \in CddLevels : l >= m => Meets(Z, ok, v, l)

\* A step of cdd_from_dbm adds the marked bounds of its level.
LEMMA FromLevelIs ==
    ASSUME NEW Z \in SUBSET Proper, Z # {}, NEW ok, Marks(Z, ok), NEW l \in CddLevels,
           NEW c \in Cdds, LevelOf(c) > l, c # cddfalse, NEW d, d = FromLevel(Z, ok, c, l)
    PROVE  /\ d \in Cdds /\ LevelOf(d) >= l /\ d # cddfalse
           /\ \A v \in Proper : Leaf(d, v) = IF Meets(Z, ok, v, l) THEN Leaf(c, v) ELSE 0
<1> DEFINE tu == TightUpper(Z, l)
           tl == TightLower(Z, l)
           lo == <<l, "lo">> \in ok
           hi == <<l, "hi">> \in ok
<1>1. (hi => tu \in RawBnd[l]) /\ (lo => tl \in RawBnd[l])
  BY DEF Marks
<1>2. \A v \in Proper : Meets(Z, ok, v, l) <=> (hi => Below(v[l], tu)) /\ (lo => Above(v[l], tl))
  BY DEF Meets
<1>3. \A v \in Proper : v[l] \in Int
  BY DEF CddLevels, Proper, Vals
<1>4. ASSUME NEW b \in RawBnd[l], NEW v \in Proper PROVE Above(v[l], b) <=> ~Below(v[l], b)
  BY <1>3, FiniteBound
<1>5. d = CASE lo /\ hi  -> MakeCdd(l, <<Elem(cddfalse, tl), Elem(c, tu), Elem(cddfalse, INF)>>)
            [] lo /\ ~hi -> MakeCdd(l, <<Elem(cddfalse, tl), Elem(c, INF)>>)
            [] hi /\ ~lo -> NegCond(MakeCdd(l, <<Elem(Rglr(c), tu), Elem(NegCond(cddfalse, c.neg), INF)>>), c.neg)
            [] OTHER -> c
  BY DEF FromLevel
<1>6. lo /\ hi => tl < tu
  <2> SUFFICES ASSUME lo, hi PROVE tl < tu
    OBVIOUS
  <2>1. PICK v \in Z : TRUE
    OBVIOUS
  <2>2. Below(v[l], tu) /\ Above(v[l], tl)
    BY <2>1, TightUpperIs, TightLowerIs
  <2>3. tl \in RawBnd[l] /\ tu \in RawBnd[l]
    BY <1>1
  <2>4. tl \in Int /\ tu \in Int /\ tl <= INF /\ v[l] \in Int /\ ~Below(v[l], tl)
    BY <1>3, <1>4, <2>1, <2>2, <2>3, FiniteBound
  <2> HIDE DEF tl, tu
  <2>5. ASSUME tu <= tl PROVE FALSE
    BY <2>2, <2>4, <2>5, BelowMonotone
  <2> QED BY <2>4, <2>5
<1> HIDE DEF tu, tl, lo, hi
<1>7. LevelOf(cddfalse) = MAXLEVEL /\ l < MAXLEVEL /\ l \in Nat /\ l \in Levels /\ MAXLEVEL \in Nat /\ LevelOf(c) \in Nat
  BY Terminals, LevelRange, CddLevel DEF CddLevels
<1>8. /\ cddfalse \in Cdds /\ LevelOf(cddfalse) > l /\ cddfalse.neg = 0
      /\ \A v \in Proper : Leaf(cddfalse, v) = 0
  BY <1>7, BelowTerminals
<1>9. CASE lo /\ hi
  <2>1. d = MakeCdd(l, <<Elem(cddfalse, tl), Elem(c, tu), Elem(cddfalse, INF)>>)
    BY <1>5, <1>9
  <2>2. /\ d \in Cdds /\ LevelOf(d) = l
        /\ \A v \in Proper : Leaf(d, v) = IF ~Below(v[l], tl) /\ Below(v[l], tu) THEN Leaf(c, v) ELSE 0
    BY <1>1, <1>6, <1>9, <2>1, ThreeEdges
  <2>3. \A v \in Proper : Leaf(d, v) = IF Meets(Z, ok, v, l) THEN Leaf(c, v) ELSE 0
    BY <1>1, <1>2, <1>4, <1>9, <2>2
  <2> QED BY <1>7, <2>2, <2>3
<1>10. CASE lo /\ ~hi
  <2>1. d = MakeCdd(l, <<Elem(cddfalse, tl), Elem(c, INF)>>)
    BY <1>5, <1>10
  <2>2. /\ d \in Cdds /\ LevelOf(d) = l
        /\ \A v \in Proper : Leaf(d, v) = IF Below(v[l], tl) THEN Leaf(cddfalse, v) ELSE Leaf(c, v)
    BY <1>1, <1>8, <1>10, <2>1, TwoEdges
  <2>3. \A v \in Proper : Leaf(d, v) = IF Meets(Z, ok, v, l) THEN Leaf(c, v) ELSE 0
    BY <1>1, <1>2, <1>4, <1>8, <1>10, <2>2
  <2> QED BY <1>7, <2>2, <2>3
<1>11. CASE hi /\ ~lo
  <2> DEFINE a == Rglr(c)
             b == NegCond(cddfalse, c.neg)
             n == MakeCdd(l, <<Elem(a, tu), Elem(b, INF)>>)
  <2>1. d = NegCond(n, c.neg)
    BY <1>5, <1>11
  <2>2. c.neg \in {0, 1}
    BY PointerFacts
  <2>3. /\ a \in Cdds /\ LevelOf(a) > l /\ a.neg = 0 /\ NegCond(a, c.neg) = c
        /\ b \in Cdds /\ LevelOf(b) > l /\ NegCond(b, c.neg) = cddfalse
    BY <1>8, <2>2, Negations
  <2>4. a # b
    BY <2>3
  <2>5. n = MakeCdd(l, <<Elem(a, tu), Elem(b, INF)>>)
    OBVIOUS
  <2> HIDE DEF a, b, n
  <2>6. /\ n \in Cdds /\ LevelOf(n) = l
        /\ \A v \in Proper : Leaf(n, v) = IF Below(v[l], tu) THEN Leaf(a, v) ELSE Leaf(b, v)
    BY <1>1, <1>11, <2>3, <2>4, <2>5, TwoEdges
  <2>7. d \in Cdds /\ LevelOf(d) = l
    BY <2>1, <2>2, <2>6, Negations
  <2>8. ASSUME NEW v \in Proper PROVE Leaf(d, v) = IF Meets(Z, ok, v, l) THEN Leaf(c, v) ELSE 0
    <3>1. Leaf(d, v) = (Leaf(n, v) + c.neg) % 2
      BY <2>1, <2>2, <2>6, LeafNegated
    <3>2. Leaf(c, v) = (Leaf(a, v) + c.neg) % 2
      BY <2>2, <2>3, LeafNegated
    <3>3. 0 = (Leaf(b, v) + c.neg) % 2
      BY <1>8, <2>2, <2>3, LeafNegated
    <3> QED BY <1>2, <1>11, <2>6, <3>1, <3>2, <3>3
  <2> QED BY <1>7, <2>7, <2>8
<1>12. CASE ~lo /\ ~hi
  <2>1. d = c
    BY <1>5, <1>12
  <2> QED BY <1>2, <1>7, <1>12, <2>1
<1> QED BY <1>9, <1>10, <1>11, <1>12

\* After n levels cdd_from_dbm says whether the marked bounds of those levels hold.
LEMMA FromLevelsIs ==
    ASSUME NEW Z \in SUBSET Proper, Z # {}, NEW ok \in MarkSets, Marks(Z, ok), NEW n \in Nat, n <= MAXLEVEL
    PROVE  /\ FromLevels[n][<<Z, ok>>] \in Cdds /\ FromLevels[n][<<Z, ok>>] # cddfalse
           /\ LevelOf(FromLevels[n][<<Z, ok>>]) >= MAXLEVEL - n
           /\ \A v \in Proper : Leaf(FromLevels[n][<<Z, ok>>], v) = IF MeetsFrom(Z, ok, v, MAXLEVEL - n) THEN 1 ELSE 0
<1> DEFINE D(m) == FromLevels[m][<<Z, ok>>]
           R(m) == /\ D(m) \in Cdds /\ D(m) # cddfalse /\ LevelOf(D(m)) >= MAXLEVEL - m
                   /\ \A v \in Proper : Leaf(D(m), v) = IF MeetsFrom(Z, ok, v, MAXLEVEL - m) THEN 1 ELSE 0
           T == {m \in Nat : m <= MAXLEVEL => R(m)}
<1>0. MAXLEVEL \in Nat /\ \A l \in CddLevels : l \in Nat /\ l < MAXLEVEL
  BY Basics, LevelRange DEF CddLevels
<1>1. 0 \in T
  <2>1. Z \in ValSets
    BY DEF Proper, ValSets
  <2>2. D(0) = cddtrue
    BY <2>1, FromLevelsEquation
  <2>3. \A v \in Proper : MeetsFrom(Z, ok, v, MAXLEVEL - 0)
    BY <1>0 DEF MeetsFrom
  <2>4. R(0)
    BY <1>0, <2>2, <2>3, Terminals, TerminalLeaf
  <2> QED BY <2>4
<1>2. ASSUME NEW m \in Nat, m \in T PROVE m + 1 \in T
  <2> SUFFICES ASSUME m + 1 <= MAXLEVEL PROVE R(m + 1)
    OBVIOUS
  <2> DEFINE c == D(m)
             d == D(m + 1)
             l == MAXLEVEL - (m + 1)
  <2>1. Z \in ValSets
    BY DEF Proper, ValSets
  <2>2. /\ c \in Cdds /\ c # cddfalse /\ LevelOf(c) >= MAXLEVEL - m
        /\ \A v \in Proper : Leaf(c, v) = IF MeetsFrom(Z, ok, v, MAXLEVEL - m) THEN 1 ELSE 0
    BY <1>0, <1>2
  <2>3. d = IF IsCdd(l) THEN FromLevel(Z, ok, c, l) ELSE c
    BY <2>1, FromLevelsEquation
  <2> HIDE DEF c, d
  <2>4. l \in Nat /\ MAXLEVEL - m = l + 1 /\ LevelOf(c) \in Nat
    BY <1>0, <2>2, CddLevel
  <2> HIDE DEF l
  <2>5. \A v \in Proper : MeetsFrom(Z, ok, v, l) <=>
            MeetsFrom(Z, ok, v, MAXLEVEL - m) /\ (IsCdd(l) => Meets(Z, ok, v, l))
    <3> SUFFICES ASSUME NEW v \in Proper
                 PROVE  MeetsFrom(Z, ok, v, l) <=> MeetsFrom(Z, ok, v, l + 1) /\ (IsCdd(l) => Meets(Z, ok, v, l))
      BY <2>4
    <3>1. \A x \in CddLevels : x >= l <=> x >= l + 1 \/ x = l
      BY <1>0, <2>4
    <3> QED BY <2>4, <3>1 DEF MeetsFrom, IsCdd
  <2>6. CASE IsCdd(l)
    <3>1. l \in CddLevels /\ LevelOf(c) > l /\ d = FromLevel(Z, ok, c, l)
      BY <2>2, <2>3, <2>4, <2>6 DEF IsCdd
    <3>2. /\ d \in Cdds /\ LevelOf(d) >= l /\ d # cddfalse
          /\ \A v \in Proper : Leaf(d, v) = IF Meets(Z, ok, v, l) THEN Leaf(c, v) ELSE 0
      BY <2>2, <3>1, FromLevelIs
    <3>3. \A v \in Proper : Leaf(d, v) = IF MeetsFrom(Z, ok, v, l) THEN 1 ELSE 0
      BY <2>2, <2>5, <2>6, <3>2
    <3> QED BY <3>2, <3>3 DEF d, l
  <2>7. CASE ~IsCdd(l)
    <3>1. d \in Cdds /\ d # cddfalse /\ LevelOf(d) >= l
      BY <2>2, <2>3, <2>4, <2>7
    <3>2. \A v \in Proper : Leaf(d, v) = IF MeetsFrom(Z, ok, v, l) THEN 1 ELSE 0
      BY <2>2, <2>3, <2>5, <2>7
    <3> QED BY <3>1, <3>2 DEF d, l
  <2> QED BY <2>6, <2>7
<1> HIDE DEF R
<1>3. \A m \in Nat : m \in T
  BY <1>1, <1>2, Induction
<1>4. R(n)
  BY <1>3
<1> QED BY <1>4 DEF R

\* cdd_from_dbm builds a diagram of its zone.
LEMMA FromDbmIs ==
    ASSUME NEW Z, Closed(Z), Z # {}
    PROVE  /\ cdd_from_dbm(Z) \in Cdds
           /\ \A v \in Feasible : Leaf(cdd_from_dbm(Z), v) = IF v \in Z THEN 1 ELSE 0
<1> DEFINE ok == dbm_analyzeForMinDBM(Z)
           d == cdd_from_dbm(Z)
<1>1. Marks(Z, ok)
  BY MarksAre
<1>2. Z \in SUBSET Proper /\ ok \in MarkSets
  BY <1>1, FeasibleProper DEF Closed, Marks, MarkSets
<1>3. d = FromLevels[MAXLEVEL][<<Z, ok>>]
  BY DEF cdd_from_dbm
<1>4. MAXLEVEL \in Nat /\ MAXLEVEL - MAXLEVEL = 0 /\ \A l \in CddLevels : l >= 0
  BY Basics, LevelRange DEF CddLevels
<1> HIDE DEF ok, d
<1>5. /\ d \in Cdds
      /\ \A v \in Proper : Leaf(d, v) = IF MeetsFrom(Z, ok, v, MAXLEVEL - MAXLEVEL) THEN 1 ELSE 0
  BY <1>1, <1>2, <1>3, <1>4, FromLevelsIs
<1>6. \A v \in Feasible : v \in Z <=> MeetsFrom(Z, ok, v, 0)
  BY <1>1, <1>4 DEF Marks, MeetsFrom, Meets
<1>7. \A v \in Feasible : Leaf(d, v) = IF v \in Z THEN 1 ELSE 0
  BY <1>4, <1>5, <1>6, FeasibleProper
<1> QED BY <1>5, <1>7 DEF d

-----------------------------------------------------------------------------
(* cdd_contains, without Booleans.                                         *)

ContainedStep(h, below) == {t \in ddNode \X ValSets : Contained(below, t[1], t[2])}
ContainedRec == INSTANCE Recursion WITH Base <- {}, Step <- ContainedStep

\* cdd_contains_rec one level down.
LEMMA ContainedEquation ==
    ASSUME NEW h \in Nat, NEW d \in ddNode, NEW Z \in ValSets
    PROVE  <<d, Z>> \in ContainedAt[h + 1] <=> Contained(ContainedAt[h], d, Z)
<1>1. ContainedAt = ContainedRec!F
  BY DEF ContainedAt, ContainedRec!F, ContainedStep
<1> HIDE DEF ContainedAt
<1>2. ContainedAt[h + 1] = ContainedStep(h + 1, ContainedAt[h])
  BY <1>1, ContainedRec!Def
<1>3. <<d, Z>> \in ddNode \X ValSets /\ <<d, Z>>[1] = d /\ <<d, Z>>[2] = Z
  OBVIOUS
<1> QED BY <1>2, <1>3 DEF ContainedStep

\* The part of Z on edge k of d.
Narrowed(Z, d, k) == cdd_constrain2(Z, LevelOf(d), Lower(d, k), Upper(d, k))

\* The zone narrowed to an edge is the valuations that follow the edge.
LEMMA NarrowedIs ==
    ASSUME NEW d \in Cdds, ~IsTerminal(d), IsCdd(LevelOf(d)), NEW k \in 1..Arity(d), NEW Z \in SUBSET Proper
    PROVE  /\ Child(d, k) \in Cdds /\ LevelOf(Child(d, k)) > LevelOf(d)
           /\ Narrowed(Z, d, k) \subseteq Z
           /\ \A v \in Z : v \in Narrowed(Z, d, k) <=> EdgeOf(d, v) = k
<1> DEFINE l == LevelOf(d)
           bs == BoundsIn(d.node.elem)
<1>1. /\ l \in CddLevels /\ l \in Levels /\ BoundList(bs) /\ Len(bs) = Arity(d) /\ Arity(d) \in Nat
      /\ \A m \in 1..Arity(d) : /\ bs[m] \in BoundsOf(l) /\ bs[m] = d.node.elem[m].bnd
                                /\ Child(d, m) \in Cdds /\ LevelOf(Child(d, m)) > l
  BY CddNode
<1>2. Upper(d, k) = bs[k] /\ (k = 1 => Lower(d, k) = -INF) /\ (k # 1 => Lower(d, k) = bs[k - 1])
  <2>1. Upper(d, k) = bs[k] /\ (k = 1 => Lower(d, k) = -INF)
    BY <1>1 DEF Upper, Lower
  <2>2. ASSUME k # 1 PROVE Lower(d, k) = bs[k - 1]
    <3>1. k - 1 \in 1..Arity(d)
      BY <1>1, <2>2
    <3> QED BY <1>1, <2>2, <3>1 DEF Lower
  <2> QED BY <2>1, <2>2
<1>3. Narrowed(Z, d, k) = PushUpper(PushLower(Z, l, Lower(d, k)), l, Upper(d, k))
  BY DEF Narrowed, cdd_constrain2
<1> HIDE DEF l, bs
<1>4. ASSUME NEW v \in Z PROVE Above(v[l], Lower(d, k)) <=> k = 1 \/ ~Below(v[l], bs[k - 1])
  <2>1. v[l] \in Int
    BY <1>1 DEF Proper, Vals
  <2>2. CASE k = 1
    BY <1>2, <2>2 DEF Above
  <2>3. CASE k # 1
    <3>1. k - 1 \in 1..Len(bs) /\ k - 1 < Len(bs)
      BY <1>1, <2>3
    <3>2. bs[k - 1] \in RawBnd[l]
      <4>1. bs[k - 1] < INF /\ bs[k - 1] \in Int
        BY <1>1, <3>1, BoundsBelowInf
      <4> QED BY <1>1, <3>1, <4>1, Basics DEF BoundsOf, IsCdd
    <3> QED BY <1>1, <1>2, <2>1, <2>3, <3>2, FiniteBound
  <2> QED BY <2>2, <2>3
<1>5. ASSUME NEW v \in Z PROVE v \in Narrowed(Z, d, k) <=> Covers(bs, v[l], k)
  <2>1. v \in Narrowed(Z, d, k) <=> Above(v[l], Lower(d, k)) /\ Below(v[l], Upper(d, k))
    BY <1>3 DEF PushUpper, PushLower
  <2> QED BY <1>1, <1>2, <1>4, <2>1 DEF Covers
<1>6. ASSUME NEW v \in Z PROVE Covers(bs, v[l], k) <=> EdgeOf(d, v) = k
  <2>1. v \in Proper /\ v[l] \in Int
    BY <1>1 DEF Proper, Vals
  <2>2. Covers(bs, v[l], EdgeOf(d, v))
    BY <2>1, EdgeTaken DEF l, bs
  <2> QED BY <1>1, <2>1, <2>2, CoverUnique
<1>7. Narrowed(Z, d, k) \subseteq Z
  BY <1>3 DEF PushUpper, PushLower
<1> QED BY <1>1, <1>5, <1>6, <1>7 DEF l

AllIn(d, Z) == \A v \in Z : Leaf(d, v) = 1

\* A step of cdd_contains_rec is right if the answers for the children are.
LEMMA ContainedIs ==
    ASSUME NEW rec, NEW d \in Cdds, ~IsTerminal(d), IsCdd(LevelOf(d)), NEW Z \in SUBSET Proper,
           \A c \in Cdds, Y \in SUBSET Proper : LevelOf(c) > LevelOf(d) /\ Y # {} => (<<c, Y>> \in rec <=> AllIn(c, Y))
    PROVE  Contained(rec, d, Z) <=> AllIn(d, Z)
<1>1. Contained(rec, d, Z) <=> \A k \in 1..Arity(d) :
          Child(d, k) = cddtrue \/ Narrowed(Z, d, k) = {} \/ <<Child(d, k), Narrowed(Z, d, k)>> \in rec
  BY DEF Contained, Narrowed
<1>2. ASSUME NEW k \in 1..Arity(d)
      PROVE  (Child(d, k) = cddtrue \/ Narrowed(Z, d, k) = {} \/ <<Child(d, k), Narrowed(Z, d, k)>> \in rec)
                 <=> AllIn(Child(d, k), Narrowed(Z, d, k))
  <2> DEFINE c == Child(d, k)
             Y == Narrowed(Z, d, k)
  <2>1. c \in Cdds /\ LevelOf(c) > LevelOf(d) /\ Y \in SUBSET Proper
    BY NarrowedIs
  <2> HIDE DEF c, Y
  <2>2. c = cddtrue => AllIn(c, Y)
    BY <2>1, TerminalLeaf DEF AllIn
  <2>3. Y = {} => AllIn(c, Y)
    BY DEF AllIn
  <2>4. Y # {} => (<<c, Y>> \in rec <=> AllIn(c, Y))
    BY <2>1
  <2>5. (c = cddtrue \/ Y = {} \/ <<c, Y>> \in rec) <=> AllIn(c, Y)
    BY <2>2, <2>3, <2>4
  <2> QED BY <2>5 DEF c, Y
<1>3. Contained(rec, d, Z) <=> \A k \in 1..Arity(d) : AllIn(Child(d, k), Narrowed(Z, d, k))
  BY <1>1, <1>2
<1>4. ASSUME NEW v \in Z
      PROVE  /\ EdgeOf(d, v) \in 1..Arity(d) /\ Leaf(d, v) = Leaf(Child(d, EdgeOf(d, v)), v)
             /\ \A k \in 1..Arity(d) : v \in Narrowed(Z, d, k) <=> EdgeOf(d, v) = k
  BY EdgeTaken, LeafBelow, NarrowedIs
<1>5. \A k \in 1..Arity(d) : Narrowed(Z, d, k) \subseteq Z
  BY NarrowedIs
<1>6. ASSUME AllIn(d, Z), NEW k \in 1..Arity(d), NEW v \in Narrowed(Z, d, k) PROVE Leaf(Child(d, k), v) = 1
  <2>1. v \in Z
    BY <1>5
  <2>2. EdgeOf(d, v) = k /\ Leaf(d, v) = 1
    BY <1>4, <1>6, <2>1 DEF AllIn
  <2> QED BY <1>4, <2>1, <2>2
<1>7. ASSUME \A k \in 1..Arity(d) : AllIn(Child(d, k), Narrowed(Z, d, k)), NEW v \in Z PROVE Leaf(d, v) = 1
  BY <1>4, <1>7 DEF AllIn
<1> QED BY <1>3, <1>6, <1>7 DEF AllIn

\* A zone is found to be contained in a diagram exactly if it is.
LEMMA ContainsIs ==
    ASSUME BddLevels = {}, NEW d \in Cdds, NEW Z \in SUBSET Proper, Z # {}
    PROVE  cdd_contains(d, Z) <=> AllIn(d, Z)
<1> DEFINE R(h) == \A c \in Cdds, Y \in SUBSET Proper :
                       LevelOf(c) + h >= Depth /\ Y # {} => (<<c, Y>> \in ContainedAt[h] <=> AllIn(c, Y))
           T == {h \in Nat : R(h)}
<1>0. Depth \in Nat /\ Depth = MAXLEVEL + 1 /\ MAXLEVEL \in Nat
  BY Basics
<1>1. 0 \in T
  <2>1. \A c \in Cdds : ~(LevelOf(c) + 0 >= Depth)
    BY <1>0, CddLevel
  <2> QED BY <2>1
<1>2. ASSUME NEW h \in Nat, h \in T PROVE h + 1 \in T
  <2> SUFFICES ASSUME NEW c \in Cdds, NEW Y \in SUBSET Proper, LevelOf(c) + (h + 1) >= Depth, Y # {}
               PROVE  <<c, Y>> \in ContainedAt[h + 1] <=> AllIn(c, Y)
    OBVIOUS
  <2>1. c \in ddNode /\ Y \in ValSets
    BY PointerFacts DEF Proper, ValSets
  <2>2. <<c, Y>> \in ContainedAt[h + 1] <=> Contained(ContainedAt[h], c, Y)
    BY <2>1, ContainedEquation
  <2>3. CASE IsTerminal(c)
    <3>1. <<c, Y>> \in ContainedAt[h + 1] <=> c = cddtrue
      BY <2>2, <2>3 DEF Contained
    <3>2. c = cddtrue \/ c = cddfalse
      BY <2>3, TerminalIs
    <3>3. \A v \in Y : Leaf(cddtrue, v) = 1 /\ Leaf(cddfalse, v) = 0
      BY TerminalLeaf
    <3> QED BY <3>1, <3>2, <3>3, Terminals DEF AllIn
  <2>4. CASE ~IsTerminal(c)
    <3>1. IsCdd(LevelOf(c))
      BY <2>4, InnerFacts DEF IsCdd, BddLevels
    <3>2. \A x \in Cdds, X \in SUBSET Proper :
              LevelOf(x) > LevelOf(c) /\ X # {} => (<<x, X>> \in ContainedAt[h] <=> AllIn(x, X))
      <4> SUFFICES ASSUME NEW x \in Cdds, NEW X \in SUBSET Proper, LevelOf(x) > LevelOf(c), X # {}
                   PROVE  <<x, X>> \in ContainedAt[h] <=> AllIn(x, X)
        OBVIOUS
      <4>1. LevelOf(x) + h >= Depth
        BY <1>0, CddLevel
      <4> QED BY <1>2, <4>1
    <3> QED BY <2>2, <2>4, <3>1, <3>2, ContainedIs
  <2> QED BY <2>3, <2>4
<1> HIDE DEF R
<1>3. \A h \in Nat : h \in T
  BY <1>1, <1>2, Induction
<1>4. R(Depth)
  BY <1>0, <1>3
<1>5. LevelOf(d) + Depth >= Depth
  BY <1>0, CddLevel
<1> QED BY <1>4, <1>5 DEF R, cdd_contains

-----------------------------------------------------------------------------
(* What the client extracts.                                               *)

\* What is extracted, and what is left.
LEMMA ZoneIs ==
    ASSUME NEW d, NEW D, Denotes(d, D), d # cddfalse
    PROVE  /\ Closed(Zone(d)) /\ Zone(d) \subseteq Feasible
           /\ Accepted(cdd_extract_bdd(d), Zone(d)) = D \cap Zone(d)
           /\ Zone(d) # {} => Denotes(cdd_extract_dbm(d), D \ Zone(d))
<1> DEFINE Z == Zone(d)
           b == cdd_extract_bdd(d)
<1>1. d \in Cdds /\ dbm_init \in SUBSET Proper /\ Closed(dbm_init)
  BY DenotesIs, InitClosed, FeasibleProper
<1>2. b \in Cdds /\ Closed(Z) /\ \A v \in Z : Leaf(b, v) = Leaf(d, v)
  BY <1>1, ExtractIs DEF Zone
<1>3. cdd_extract_dbm(d) = And(d, Neg(cdd_from_dbm(Z)))
  BY DEF cdd_extract_dbm, Zone
<1> HIDE DEF Z, b
<1>4. Z \subseteq Feasible
  BY <1>2 DEF Closed
<1>5. \A v \in Z : Holds(b, v) <=> Leaf(b, v) = 1
  BY <1>2, <1>4, FeasibleProper, LeafBelow
<1>6. Accepted(b, Z) = D \cap Z
  BY <1>2, <1>4, <1>5, DenotesIs DEF Accepted
<1>7. ASSUME Z # {} PROVE Denotes(cdd_extract_dbm(d), D \ Z)
  <2> DEFINE z == cdd_from_dbm(Z)
  <2>1. z \in Cdds /\ \A v \in Feasible : Leaf(z, v) = IF v \in Z THEN 1 ELSE 0
    BY <1>2, <1>7, FromDbmIs
  <2> HIDE DEF z
  <2>2. Denotes(z, Z)
    BY <1>4, <2>1, Denoted
  <2>3. Denotes(And(d, Neg(z)), D \cap (Feasible \ Z))
    BY <2>2, NegDenotes, AndDenotes
  <2>4. D \cap (Feasible \ Z) = D \ Z
    BY DenotesIs
  <2> QED BY <1>3, <2>3, <2>4 DEF z
<1> QED BY <1>2, <1>4, <1>6, <1>7 DEF Z, b

-----------------------------------------------------------------------------
(* Diagrams without idle edges.                                            *)

Taking(d, k, P) == {v \in P : EdgeOf(d, v) = k}
\* A set of pairs in which every edge of a diagram over clock differences is taken by a vector of
\* its set, and leads to another pair.
Thrifty(T) == \A t \in T : ~cdd_isBDD(t[1]) => \A k \in 1..Arity(t[1]) :
    Taking(t[1], k, t[2]) # {} /\ <<Child(t[1], k), Taking(t[1], k, t[2])>> \in T
\* No edge above the Booleans is one that no vector of P takes.
Lean(d, P) == \E T \in SUBSET (Cdds \X SUBSET Proper) : <<d, P>> \in T /\ Thrifty(T)

\* What being lean says of a node.
LEMMA LeanUnfold ==
    ASSUME NEW d, NEW P, Lean(d, P), ~cdd_isBDD(d), NEW k \in 1..Arity(d)
    PROVE  Taking(d, k, P) # {} /\ Lean(Child(d, k), Taking(d, k, P))
<1>1. PICK T \in SUBSET (Cdds \X SUBSET Proper) : <<d, P>> \in T /\ Thrifty(T)
  BY DEF Lean
<1> DEFINE t == <<d, P>>
<1>2. t \in T /\ t[1] = d /\ t[2] = P
  BY <1>1
<1> HIDE DEF t
<1>3. Taking(t[1], k, t[2]) # {} /\ <<Child(t[1], k), Taking(t[1], k, t[2])>> \in T
  BY <1>1, <1>2 DEF Thrifty
<1>4. Taking(d, k, P) # {} /\ <<Child(d, k), Taking(d, k, P)>> \in T
  BY <1>2, <1>3
<1> QED BY <1>1, <1>4 DEF Lean

\* A lean diagram is a diagram, its set a set of vectors.
LEMMA LeanArgs == ASSUME NEW d, NEW P, Lean(d, P) PROVE d \in Cdds /\ P \in SUBSET Proper
BY DEF Lean

\* All lean diagrams.
LeanPairs == {t \in Cdds \X SUBSET Proper : Lean(t[1], t[2])}

\* A set of pairs that are lean as far as they lead out of the set is a set of lean pairs.
LEMMA LeanInto ==
    ASSUME NEW S \in SUBSET (Cdds \X SUBSET Proper),
           \A t \in S : ~cdd_isBDD(t[1]) => \A k \in 1..Arity(t[1]) :
               /\ Taking(t[1], k, t[2]) # {}
               /\ <<Child(t[1], k), Taking(t[1], k, t[2])>> \in S \cup LeanPairs,
           NEW d, NEW P, <<d, P>> \in S
    PROVE  Lean(d, P)
<1> DEFINE T == S \cup LeanPairs
<1>1. T \in SUBSET (Cdds \X SUBSET Proper)
  BY DEF LeanPairs
<1>2. ASSUME NEW t \in LeanPairs, ~cdd_isBDD(t[1]), NEW k \in 1..Arity(t[1])
      PROVE  Taking(t[1], k, t[2]) # {} /\ <<Child(t[1], k), Taking(t[1], k, t[2])>> \in LeanPairs
  <2> DEFINE c == Child(t[1], k)
             Q == Taking(t[1], k, t[2])
  <2>1. Lean(t[1], t[2])
    BY DEF LeanPairs
  <2>2. Q # {} /\ Lean(c, Q)
    BY <1>2, <2>1, LeanUnfold
  <2> HIDE DEF c, Q
  <2>3. c \in Cdds /\ Q \in SUBSET Proper
    BY <2>2, LeanArgs
  <2>4. <<c, Q>> \in LeanPairs
    BY <2>2, <2>3 DEF LeanPairs
  <2> QED BY <2>2, <2>4 DEF c, Q
<1>3. Thrifty(T)
  BY <1>2 DEF Thrifty
<1> HIDE DEF T
<1>4. <<d, P>> \in T
  BY DEF T
<1> QED BY <1>1, <1>3, <1>4 DEF Lean

\* A BDD is lean: it has no clock differences.
LEMMA LeanBdd ==
    ASSUME NEW d \in Cdds, cdd_isBDD(d), NEW P \in SUBSET Proper
    PROVE  Lean(d, P)
<1> DEFINE S == {<<d, P>>}
<1>1. \A t \in S : t[1] = d /\ t[2] = P
  OBVIOUS
<1>2. S \in SUBSET (Cdds \X SUBSET Proper) /\ <<d, P>> \in S
  OBVIOUS
<1> HIDE DEF S
<1> QED BY <1>1, <1>2, LeanInto

\* A node is lean if all its edges are taken and lean.
LEMMA LeanFold ==
    ASSUME NEW d \in Cdds, NEW P \in SUBSET Proper,
           \A k \in 1..Arity(d) : Taking(d, k, P) # {} /\ Lean(Child(d, k), Taking(d, k, P))
    PROVE  Lean(d, P)
<1> DEFINE S == {<<d, P>>}
<1>1. \A t \in S : t[1] = d /\ t[2] = P
  OBVIOUS
<1>2. S \in SUBSET (Cdds \X SUBSET Proper) /\ <<d, P>> \in S
  OBVIOUS
<1>3. ASSUME NEW k \in 1..Arity(d) PROVE <<Child(d, k), Taking(d, k, P)>> \in LeanPairs
  <2> DEFINE c == Child(d, k)
             Q == Taking(d, k, P)
  <2>1. Lean(c, Q)
    OBVIOUS
  <2> HIDE DEF c, Q
  <2>2. c \in Cdds /\ Q \in SUBSET Proper
    BY <2>1, LeanArgs
  <2>3. <<c, Q>> \in LeanPairs
    BY <2>1, <2>2 DEF LeanPairs
  <2> QED BY <2>3 DEF c, Q
<1> HIDE DEF S
<1>4. \A t \in S : \A k \in 1..Arity(t[1]) :
         /\ Taking(t[1], k, t[2]) # {}
         /\ <<Child(t[1], k), Taking(t[1], k, t[2])>> \in S \cup LeanPairs
  BY <1>1, <1>3
<1> QED BY <1>2, <1>4, LeanInto

\* More vectors take more edges.
LEMMA LeanGrows ==
    ASSUME NEW d, NEW P, Lean(d, P), NEW Q \in SUBSET Proper, P \subseteq Q
    PROVE  Lean(d, Q)
<1> DEFINE S == {t \in Cdds \X SUBSET Proper : \E R \in SUBSET t[2] : Lean(t[1], R)}
<1>1. ASSUME NEW t \in S, ~cdd_isBDD(t[1]), NEW k \in 1..Arity(t[1])
      PROVE  /\ Taking(t[1], k, t[2]) # {}
             /\ <<Child(t[1], k), Taking(t[1], k, t[2])>> \in S
  <2> DEFINE c == Child(t[1], k)
             X == Taking(t[1], k, t[2])
  <2>1. PICK R \in SUBSET t[2] : Lean(t[1], R)
    OBVIOUS
  <2>2. Taking(t[1], k, R) # {} /\ Lean(c, Taking(t[1], k, R))
    BY <1>1, <2>1, LeanUnfold
  <2>3. Taking(t[1], k, R) \subseteq X /\ X \in SUBSET Proper
    BY <2>1 DEF Taking
  <2> HIDE DEF c, X
  <2>4. c \in Cdds
    BY <2>2, LeanArgs
  <2>5. X # {} /\ <<c, X>> \in S
    BY <2>2, <2>3, <2>4
  <2> QED BY <2>5 DEF c, X
<1>2. <<d, Q>> \in S
  <2>1. d \in Cdds
    BY LeanArgs
  <2> QED BY <2>1
<1>3. S \in SUBSET (Cdds \X SUBSET Proper)
  OBVIOUS
<1> HIDE DEF S
<1>4. \A t \in S : ~cdd_isBDD(t[1]) => \A k \in 1..Arity(t[1]) :
         /\ Taking(t[1], k, t[2]) # {}
         /\ <<Child(t[1], k), Taking(t[1], k, t[2])>> \in S \cup LeanPairs
  BY <1>1
<1> QED BY <1>2, <1>3, <1>4, LeanInto

\* What Pack makes of lean children is lean.
LEMMA PackLean ==
    ASSUME NEW l \in CddLevels, NEW cs, NEW ws, Packable(l, cs, ws), NEW P \in SUBSET Proper,
           \A k \in 1..Len(cs) : \E Y \in SUBSET P :
               Y # {} /\ (\A v \in Y : Covers(ws, v[l], k)) /\ Lean(cs[k], Y)
    PROVE  Lean(Pack(l, cs, ws), P)
<1> DEFINE r == Pack(l, cs, ws)
<1>0. l \in Levels /\ IsCdd(l) /\ l \in Nat
  BY LevelRange DEF CddLevels, IsCdd
<1>1. /\ r \in Cdds /\ LevelOf(r) >= l
      /\ LevelOf(r) > l => \A k \in 1..Len(cs) : cs[k] = r
      /\ LevelOf(r) = l => PackedEdges(r, l, cs, ws)
  BY <1>0, PackIs
<1> HIDE DEF r
<1>2. CASE LevelOf(r) > l
  <2>1. 1 \in 1..Len(cs)
    BY DEF Packable, BoundList
  <2>2. cs[1] = r
    BY <1>1, <1>2, <2>1
  <2>3. PICK Y \in SUBSET P : Lean(cs[1], Y)
    BY <2>1
  <2>4. Lean(r, P)
    BY <2>2, <2>3, LeanGrows
  <2> QED BY <2>4 DEF r
<1>3. CASE LevelOf(r) = l
  <2>1. PackedEdges(r, l, cs, ws)
    BY <1>1, <1>3
  <2>2. ASSUME NEW j \in 1..Arity(r)
        PROVE  Taking(r, j, P) # {} /\ Lean(Child(r, j), Taking(r, j, P))
    <3>1. PICK k \in 1..Len(cs) : Child(r, j) = cs[k] /\ \A v \in Proper : Covers(ws, v[l], k) => EdgeOf(r, v) = j
      BY <2>1 DEF PackedEdges
    <3>2. PICK Y \in SUBSET P : Y # {} /\ (\A v \in Y : Covers(ws, v[l], k)) /\ Lean(cs[k], Y)
      OBVIOUS
    <3>3. Y \subseteq Taking(r, j, P) /\ Taking(r, j, P) \in SUBSET Proper
      BY <3>1, <3>2 DEF Taking
    <3>4. Lean(cs[k], Taking(r, j, P))
      BY <3>2, <3>3, LeanGrows
    <3> QED BY <3>1, <3>2, <3>3, <3>4
  <2>3. Lean(r, P)
    BY <1>1, <2>2, LeanFold
  <2> QED BY <2>3 DEF r
<1>4. LevelOf(r) > l \/ LevelOf(r) = l
  BY <1>0, <1>1, CddLevel
<1> QED BY <1>2, <1>3, <1>4

\* Below a BDD there are only BDDs, because the clocks are declared before the Booleans.
LEMMA BddBelow ==
    ASSUME Timely, NEW d \in Cdds, cdd_isBDD(d), NEW r \in Cdds, LevelOf(r) >= LevelOf(d)
    PROVE  cdd_isBDD(r)
<1> SUFFICES ASSUME ~IsTerminal(r), IsCdd(LevelOf(r)) PROVE FALSE
  BY DEF cdd_isBDD
<1>1. LevelOf(r) \in CddLevels /\ LevelOf(r) \in Levels /\ LevelOf(r) < MAXLEVEL
  BY InnerFacts DEF IsCdd
<1>2. LevelOf(d) \in Nat /\ LevelOf(r) \in Nat /\ MAXLEVEL \in Nat
  BY CddLevel
<1>3. ~IsTerminal(d)
  BY <1>1, <1>2, TerminalIs
<1>4. LevelOf(d) \in BddLevels
  BY <1>3, InnerFacts DEF BddLevels, cdd_isBDD, IsCdd
<1>5. LevelOf(r) < LevelOf(d)
  BY <1>1, <1>4 DEF Timely
<1> QED BY <1>2, <1>5

\* A result of cdd_reduce below the constraints P has no idle edges in P.
LeansTo(P, r) == Zonal(P) /\ P # {} => Lean(r, P)

\* A step of tarjan_reduce_rec leaves no idle edge if the calls for the children do not.
LEMMA ReducedLean ==
    ASSUME Timely, NEW rec, NEW d \in Cdds, ~IsTerminal(d), NEW P \in SUBSET Proper,
           \A c \in Cdds, Q \in SUBSET Proper : LevelOf(c) > LevelOf(d) =>
               ReducesTo(c, Q, rec[<<c, Q>>]) /\ LeansTo(Q, rec[<<c, Q>>])
    PROVE  LeansTo(P, Reduced(rec, d, P))
<1> DEFINE l == LevelOf(d)
           r == Reduced(rec, d, P)
<1> SUFFICES ASSUME Zonal(P), P # {} PROVE Lean(r, P)
  BY DEF LeansTo
<1>0. l \in Levels /\ l \in Nat /\ ReducesTo(d, P, r)
  <2>1. l \in Levels /\ l \in Nat
    BY InnerFacts, CddLevel
  <2>2. ReducesTo(d, P, r)
    BY ReducedIs
  <2> QED BY <2>1, <2>2
<1>1. CASE IsCdd(l)
  <2> DEFINE bs == [k \in 1..Arity(d) |-> Upper(d, k)]
             w == Window(P, l, bs)
             cs == [k \in DOMAIN w |-> rec[<<Child(d, w[k]), Under(P, l, bs, w, k)>>]]
  <2>1. /\ l \in CddLevels /\ LevelBounds(l, bs) /\ Len(bs) = Arity(d)
        /\ \A k \in 1..Arity(d) : Child(d, k) \in Cdds /\ LevelOf(Child(d, k)) > l
    <3>1. bs = BoundsIn(d.node.elem)
      BY InnerFacts DEF BoundsIn, Upper
    <3>2. BoundList(BoundsIn(d.node.elem)) /\ Len(BoundsIn(d.node.elem)) = Arity(d)
      BY <1>1, CddNode
    <3>3. l \in CddLevels /\ \A k \in 1..Arity(d) : BoundsIn(d.node.elem)[k] \in BoundsOf(l)
      BY <1>1, CddNode
    <3>4. \A k \in 1..Arity(d) : Child(d, k) \in Cdds /\ LevelOf(Child(d, k)) > l
      BY <1>1, CddNode
    <3> HIDE DEF bs
    <3> QED BY <3>1, <3>2, <3>3, <3>4 DEF LevelBounds
  <2>2. r = IF w[1] = Len(bs) THEN rec[<<Child(d, w[1]), P>>] ELSE PackWindow(l, bs, w, cs)
    <3>1. Len(bs) = Arity(d)
      BY <2>1
    <3> QED BY <1>1, <3>1 DEF Reduced
  <2> HIDE DEF bs, w, r
  <2>3. w = Window(P, l, bs)
    BY DEF w
  <2>4. Indices(bs, w)
    BY <2>1, <2>3, WindowList
  <2>5. /\ Len(w) \in Nat /\ Len(w) >= 1 /\ DOMAIN w = 1..Len(w)
        /\ \A k \in 1..Len(w) : w[k] \in 1..Arity(d)
    BY <2>1, <2>4 DEF Indices
  <2>6. CASE w[1] = Len(bs)
    <3>1. Child(d, w[1]) \in Cdds /\ LevelOf(Child(d, w[1])) > l
      BY <2>1, <2>5
    <3>2. LeansTo(P, r)
      BY <2>2, <2>6, <3>1
    <3> QED BY <3>2 DEF LeansTo, r
  <2>7. CASE w[1] # Len(bs)
    <3>1. ASSUME NEW k \in 1..Len(w)
          PROVE  /\ cs[k] \in Cdds /\ LevelOf(cs[k]) > l
                 /\ Under(P, l, bs, w, k) # {} /\ Under(P, l, bs, w, k) \subseteq P
                 /\ \A v \in Under(P, l, bs, w, k) : Covers(bs, v[l], w[k])
                 /\ Lean(cs[k], Under(P, l, bs, w, k))
      <4> DEFINE Q == Under(P, l, bs, w, k)
                 c == Child(d, w[k])
      <4>1. Q \subseteq P /\ \A v \in Q : Covers(bs, v[l], w[k])
        BY <2>1, <2>3, WindowIs
      <4>2. c \in Cdds /\ LevelOf(c) > l /\ w[k] \in 1..Arity(d)
        BY <2>1, <2>5
      <4>3. cs[k] = rec[<<c, Q>>]
        BY <2>5
      <4>4. Zonal(Q) /\ Q # {}
        BY <2>1, <2>3, <2>7, UnderZonal
      <4> HIDE DEF Q, c, cs
      <4>5. ReducesTo(c, Q, cs[k]) /\ LeansTo(Q, cs[k])
        BY <4>1, <4>2, <4>3
      <4>6. cs[k] \in Cdds /\ LevelOf(cs[k]) >= LevelOf(c)
        BY <4>5 DEF ReducesTo, Represents
      <4>7. LevelOf(cs[k]) > l
        BY <1>0, <4>2, <4>6, CddLevel
      <4>8. Lean(cs[k], Q)
        BY <4>4, <4>5 DEF LeansTo
      <4> QED BY <4>1, <4>4, <4>6, <4>7, <4>8 DEF Q
    <3>2. cs \in Seq(Cdds) /\ Len(cs) = Len(w)
      <4>1. cs \in [1..Len(w) -> Cdds]
        BY <2>5, <3>1
      <4> HIDE DEF cs
      <4> QED BY <2>5, <4>1, FunctionIsSeq
    <3>3. r = PackWindow(l, bs, w, cs)
      BY <2>2, <2>7
    <3> HIDE DEF cs
    <3>4. WindowPacked(P, l, bs, w, cs, r)
      BY <2>1, <2>3, <3>1, <3>2, <3>3, PackWindowIs
    <3>5. PICK ws : /\ Packable(l, cs, ws) /\ r = Pack(l, cs, ws)
                    /\ \A v \in P, k \in 1..Len(w) : Covers(bs, v[l], w[k]) => Covers(ws, v[l], k)
      BY <3>4 DEF WindowPacked
    <3>6. ASSUME NEW k \in 1..Len(cs)
          PROVE  \E Y \in SUBSET P : Y # {} /\ (\A v \in Y : Covers(ws, v[l], k)) /\ Lean(cs[k], Y)
      <4> DEFINE Q == Under(P, l, bs, w, k)
      <4>1. Q # {} /\ Q \subseteq P /\ (\A v \in Q : Covers(bs, v[l], w[k])) /\ Lean(cs[k], Q)
        BY <3>1, <3>2
      <4> HIDE DEF Q
      <4>2. \A v \in Q : Covers(ws, v[l], k)
        BY <3>2, <3>5, <4>1
      <4> QED BY <4>1, <4>2
    <3>7. Lean(Pack(l, cs, ws), P)
      BY <2>1, <3>5, <3>6, PackLean
    <3> QED BY <3>5, <3>7 DEF r
  <2> QED BY <2>6, <2>7
<1>2. CASE ~IsCdd(l)
  <2>1. r \in Cdds /\ LevelOf(r) >= LevelOf(d) /\ cdd_isBDD(d)
    BY <1>0, <1>2 DEF ReducesTo, Represents, cdd_isBDD
  <2>2. cdd_isBDD(r)
    BY <2>1, BddBelow
  <2> QED BY <2>1, <2>2, LeanBdd
<1> QED BY <1>1, <1>2

\* cdd_reduce leaves no idle edge.
LEMMA TarjanLean ==
    ASSUME Timely, NEW d \in Cdds, NEW P \in SUBSET Proper
    PROVE  LeansTo(P, TarjanReduce(d, P))
<1> DEFINE R(h) == \A c \in Cdds, Q \in SUBSET Proper :
                      LevelOf(c) + h >= Depth => /\ ReducesTo(c, Q, TarjanReduceAt[h][<<c, Q>>])
                                                 /\ LeansTo(Q, TarjanReduceAt[h][<<c, Q>>])
           T == {h \in Nat : R(h)}
<1>0. Depth \in Nat /\ Depth = MAXLEVEL + 1 /\ MAXLEVEL \in Nat
  BY Basics
<1>1. 0 \in T
  BY <1>0, CddLevel
<1>2. ASSUME NEW h \in Nat, h \in T PROVE h + 1 \in T
  <2> SUFFICES ASSUME NEW c \in Cdds, NEW Q \in SUBSET Proper, LevelOf(c) + (h + 1) >= Depth
               PROVE  /\ ReducesTo(c, Q, TarjanReduceAt[h + 1][<<c, Q>>])
                      /\ LeansTo(Q, TarjanReduceAt[h + 1][<<c, Q>>])
    OBVIOUS
  <2>1. c \in ddNode /\ Q \in ValSets
    BY PointerFacts DEF Proper, ValSets
  <2>2. TarjanReduceAt[h + 1][<<c, Q>>] = IF IsTerminal(c) THEN c ELSE Reduced(TarjanReduceAt[h], c, Q)
    BY <2>1, TarjanReduceEquation
  <2>3. CASE IsTerminal(c)
    <3>1. \A v \in Q : Leaf(c, v) = LeafOf(c)[v]
      BY LeafOfIs
    <3>2. LevelOf(c) >= LevelOf(c)
      BY CddLevel
    <3>3. Lean(c, Q)
      BY <2>3, LeanBdd DEF cdd_isBDD
    <3> QED BY <2>2, <2>3, <3>1, <3>2, <3>3 DEF ReducesTo, Represents, LeansTo
  <2>4. CASE ~IsTerminal(c)
    <3>1. \A x \in Cdds, R1 \in SUBSET Proper : LevelOf(x) > LevelOf(c) =>
              ReducesTo(x, R1, TarjanReduceAt[h][<<x, R1>>]) /\ LeansTo(R1, TarjanReduceAt[h][<<x, R1>>])
      BY <1>0, <1>2, CddLevel
    <3>2. ReducesTo(c, Q, Reduced(TarjanReduceAt[h], c, Q))
      BY <2>4, <3>1, ReducedIs
    <3>3. LeansTo(Q, Reduced(TarjanReduceAt[h], c, Q))
      BY <2>4, <3>1, ReducedLean
    <3> QED BY <2>2, <2>4, <3>2, <3>3
  <2> QED BY <2>3, <2>4
<1> HIDE DEF R
<1>3. \A h \in Nat : h \in T
  BY <1>1, <1>2, Induction
<1>4. R(Depth)
  BY <1>0, <1>3
<1>5. LevelOf(d) + Depth >= Depth
  BY <1>0, CddLevel
<1> QED BY <1>4, <1>5 DEF R, TarjanReduce

\* The diagrams that the C++ layer takes apart.
LEMMA ReduceLean ==
    ASSUME Timely, NEW d \in Cdds
    PROVE  Lean(cdd_reduce(d), Feasible)
BY TarjanLean, FeasibleZonal, FeasibleProper, SomeVector DEF LeansTo, cdd_reduce

\* In a merge with a single edge every edge of the other list is met once.
LEMMA SingleMerge ==
    ASSUME NEW l \in CddLevels, NEW e1, NEW e2, CddList(l, e2), NEW ms, MergeFacts(l, e1, e2, ms),
           \A k \in 1..Len(e1) : e1[k].bnd = INF,
           NEW i \in 1..Len(ms), NEW k \in 1..Len(ms), ms[i].right = ms[k].right
    PROVE  i = k
<1> DEFINE bs == Bounds(ms)
<1>0. /\ BoundList(bs) /\ Len(bs) = Len(ms) /\ Len(ms) \in Nat
      /\ \A m \in 1..Len(ms) : ms[m].left \in 1..Len(e1) /\ ms[m].right \in 1..Len(e2) /\ bs[m] \in BoundsOf(l)
      /\ \A x \in Int, m \in 1..Len(ms) : Covers(bs, x, m) => Covers(BoundsIn(e2), x, ms[m].right)
      /\ \A m \in 1..Len(ms) : bs[m] \in {e1[ms[m].left].bnd, e2[ms[m].right].bnd}
  BY DEF MergeFacts
<1>00. l \in Levels /\ INF \in Nat
  BY Basics DEF CddLevels
<1> HIDE DEF bs
<1>1. ASSUME NEW m \in 1..Len(ms), NEW n \in 1..Len(ms), m < n, ms[m].right = ms[n].right
      PROVE  FALSE
  <2>1. bs[m] < INF /\ bs[m] \in Int
    <3>1. m \in 1..Len(bs) /\ m < Len(bs)
      BY <1>0, <1>1
    <3> QED BY <1>0, <3>1, BoundsBelowInf
  <2>2. bs[m] = e2[ms[m].right].bnd
    <3>1. bs[m] # INF
      BY <1>00, <2>1
    <3>2. e1[ms[m].left].bnd = INF
      BY <1>0
    <3>3. bs[m] \in {e1[ms[m].left].bnd, e2[ms[m].right].bnd}
      BY <1>0
    <3> QED BY <3>1, <3>2, <3>3
  <2>3. PICK x \in CellReps(l) : Covers(bs, x, n)
    BY <1>0, CellOfEdge
  <2>4. x \in Int
    BY CellRepsAre, DiffsAreInt
  <2>5. Covers(BoundsIn(e2), x, ms[n].right)
    BY <1>0, <2>3, <2>4
  <2>6. BoundsIn(e2)[ms[n].right] = e2[ms[n].right].bnd
    BY <1>0 DEF BoundsIn
  <2>7. Below(x, bs[m])
    BY <1>1, <2>2, <2>5, <2>6 DEF Covers
  <2>8. n - 1 \in 1..Len(bs) /\ n \in 1..Len(bs) /\ m \in 1..Len(bs) /\ n # 1 /\ n - 1 >= m
    BY <1>0, <1>1
  <2>9. ~Below(x, bs[n - 1])
    BY <2>3, <2>8 DEF Covers
  <2>10. bs[m] <= bs[n - 1] /\ bs[n - 1] <= INF /\ bs[n - 1] \in Int
    <3>1. m < n - 1 => bs[m] < bs[n - 1]
      BY <1>0, <2>8, BoundsAscend
    <3>2. bs[n - 1] <= INF /\ bs[n - 1] \in Int
      BY <1>0, <2>8, BoundsBelowInf
    <3>3. m = n - 1 => bs[m] = bs[n - 1]
      OBVIOUS
    <3>4. m < n - 1 \/ m = n - 1
      BY <2>8
    <3> QED BY <2>1, <3>1, <3>2, <3>3, <3>4
  <2>11. Below(x, bs[n - 1])
    BY <2>1, <2>4, <2>7, <2>10, BelowMonotone
  <2> QED BY <2>9, <2>11
<1>2. i \in Int /\ k \in Int
  BY <1>0
<1>3. i < k \/ k < i \/ i = k
  BY <1>2
<1> QED BY <1>1, <1>3

\* A step of cdd_apply that meets a BDD leaves no idle edge if the calls for the children do not.
LEMMA AppliedLean ==
    ASSUME Timely, NEW rec, NEW b \in Cdds, ~IsTerminal(b), cdd_isBDD(b),
           NEW d \in Cdds, ~IsTerminal(d), ~cdd_isBDD(d), NEW P, Lean(d, P),
           \A c \in Cdds : \A Q : LevelOf(c) > LevelOf(d) /\ Lean(c, Q) =>
               /\ Computes("and", b, c, rec[<<"and", b, c>>])
               /\ Lean(rec[<<"and", b, c>>], Q)
    PROVE  Lean(Applied(rec, "and", b, d), P)
<1> DEFINE level == Min({LevelOf(b), LevelOf(d)})
           l == LevelOf(d)
           le == EdgesAt(b, l)
           re == EdgesAt(d, l)
           ms == Merge(le, re)
           cs == [k \in DOMAIN ms |-> rec[<<"and", NegCond(le[ms[k].left].child, b.neg), NegCond(re[ms[k].right].child, d.neg)>>]]
           r == Applied(rec, "and", b, d)
<1>0. /\ l \in CddLevels /\ l \in Levels /\ IsCdd(l) /\ l \in Nat /\ P \in SUBSET Proper
      /\ LevelOf(b) \in BddLevels /\ l < LevelOf(b) /\ LevelOf(b) \in Nat
  <2>1. l \in CddLevels /\ IsCdd(l) /\ LevelOf(b) \in BddLevels
    BY InnerFacts DEF cdd_isBDD, IsCdd, BddLevels
  <2>2. l < LevelOf(b)
    BY <2>1 DEF Timely
  <2>3. P \in SUBSET Proper
    BY LeanArgs
  <2> QED BY <2>1, <2>2, <2>3, CddLevel DEF CddLevels
<1>1. level = l
  <2>1. level \in {LevelOf(b), LevelOf(d)} /\ level <= LevelOf(b) /\ level <= LevelOf(d)
    BY TopLevel
  <2> HIDE DEF level
  <2> QED BY <1>0, <2>1
<1>2. r = Pack(l, cs, Bounds(ms))
  <2>1. r = IF IsCdd(level)
            THEN LET le1 == EdgesAt(b, level)
                     re1 == EdgesAt(d, level)
                     ms1 == Merge(le1, re1)
                 IN  Pack(level, [k \in DOMAIN ms1 |-> rec[<<"and", NegCond(le1[ms1[k].left].child, b.neg),
                                                        NegCond(re1[ms1[k].right].child, d.neg)>>]], Bounds(ms1))
            ELSE r
    BY Zenon DEF Applied
  <2> HIDE DEF level, r
  <2> QED BY <1>0, <1>1, <2>1
<1>3. /\ le = <<Elem(Rglr(b), INF)>> /\ Len(le) = 1 /\ le[1].child = Rglr(b) /\ le[1].bnd = INF
      /\ NegCond(Rglr(b), b.neg) = b
      /\ re = d.node.elem
  <2>1. le = <<Elem(Rglr(b), INF)>> /\ re = d.node.elem
    BY <1>0 DEF EdgesAt
  <2> QED BY <2>1, Negations DEF Elem
<1>4. CddList(l, le) /\ CddList(l, re)
  BY <1>0, EdgesAtCdd
<1>5. ms = Merge(le, re)
  OBVIOUS
<1> HIDE DEF le, re, ms, r
<1>6. MergeFacts(l, le, re, ms)
  BY <1>0, <1>4, <1>5, MergedIs
<1>7. /\ Len(ms) \in Nat /\ DOMAIN ms = 1..Len(ms)
      /\ \A k \in 1..Len(ms) : /\ ms[k].left = 1 /\ ms[k].right \in 1..Arity(d)
                               /\ Bounds(ms)[k] \in BoundsOf(l)
      /\ BoundList(Bounds(ms)) /\ Len(Bounds(ms)) = Len(ms)
      /\ \A x \in Int, k \in 1..Len(ms) : Covers(Bounds(ms), x, k) => Covers(BoundsIn(d.node.elem), x, ms[k].right)
  <2>1. \A k \in 1..Len(ms) : ms[k].left \in 1..1 /\ ms[k].right \in 1..Arity(d)
    BY <1>3, <1>6 DEF MergeFacts, Arity
  <2> QED BY <1>3, <1>6, <2>1 DEF MergeFacts
<1>8. ASSUME NEW k \in 1..Len(ms)
      PROVE  /\ cs[k] \in Cdds /\ LevelOf(cs[k]) > l
             /\ Taking(d, ms[k].right, P) # {}
             /\ Lean(cs[k], Taking(d, ms[k].right, P))
  <2> DEFINE c == Child(d, ms[k].right)
             Q == Taking(d, ms[k].right, P)
  <2>1. c \in Cdds /\ LevelOf(c) > l
    BY <1>0, <1>7, CddNode
  <2>2. cs[k] = rec[<<"and", b, c>>]
    BY <1>3, <1>7 DEF Child
  <2>3. Q # {} /\ Lean(c, Q)
    BY <1>7, LeanUnfold
  <2> HIDE DEF c, Q, cs
  <2>4. Computes("and", b, c, cs[k]) /\ Lean(cs[k], Q)
    BY <2>1, <2>2, <2>3
  <2>5. cs[k] \in Cdds /\ LevelOf(cs[k]) > l
    <3>1. LevelOf(c) \in Nat
      BY <2>1, CddLevel
    <3>2. cs[k] \in Cdds /\ LevelOf(cs[k]) \in Nat
      BY <2>4, CddLevel DEF Computes
    <3> QED BY <1>0, <2>1, <2>4, <3>1, <3>2 DEF Computes
  <2> QED BY <2>3, <2>4, <2>5 DEF Q
<1>9. cs \in Seq(Cdds) /\ Len(cs) = Len(ms)
  <2>1. cs \in [1..Len(ms) -> Cdds]
    BY <1>7, <1>8
  <2> HIDE DEF cs
  <2> QED BY <1>7, <2>1, FunctionIsSeq
<1> HIDE DEF cs
<1>10. Packable(l, cs, Bounds(ms))
  BY <1>7, <1>8, <1>9 DEF Packable
<1>11. ASSUME NEW k \in 1..Len(cs)
       PROVE  \E Y \in SUBSET P : Y # {} /\ (\A v \in Y : Covers(Bounds(ms), v[l], k)) /\ Lean(cs[k], Y)
  <2> DEFINE Q == Taking(d, ms[k].right, P)
  <2>1. ASSUME NEW v \in Q PROVE Covers(Bounds(ms), v[l], k)
    <3>1. v \in Proper /\ v[l] \in Int /\ EdgeOf(d, v) = ms[k].right
      BY <1>0 DEF Taking, Proper, Vals
    <3>2. PICK i : Covers(Bounds(ms), v[l], i)
      BY <1>7, <3>1, CoverExists
    <3>3. i \in 1..Len(ms)
      BY <1>7, <3>2 DEF Covers
    <3>4. Covers(BoundsIn(d.node.elem), v[l], ms[i].right)
      BY <1>7, <3>1, <3>2, <3>3
    <3>5. Covers(BoundsIn(d.node.elem), v[l], EdgeOf(d, v)) /\ BoundList(BoundsIn(d.node.elem))
      BY <1>0, <3>1, EdgeTaken, CddNode
    <3>6. ms[i].right = ms[k].right
      BY <3>1, <3>4, <3>5, CoverUnique
    <3>7. i = k
      <4>1. k \in 1..Len(ms) /\ \A m \in 1..Len(le) : le[m].bnd = INF
        BY <1>3, <1>9
      <4> QED BY <1>0, <1>4, <1>6, <3>3, <3>6, <4>1, SingleMerge
    <3> QED BY <3>2, <3>7
  <2>2. Q \in SUBSET P
    BY DEF Taking
  <2>3. Q # {} /\ Lean(cs[k], Q)
    BY <1>8, <1>9
  <2> HIDE DEF Q
  <2> QED BY <2>1, <2>2, <2>3
<1>12. Lean(Pack(l, cs, Bounds(ms)), P)
  BY <1>0, <1>10, <1>11, PackLean
<1> QED BY <1>2, <1>12 DEF r

\* cdd_and with a BDD leaves no idle edge.
LEMMA AndLean ==
    ASSUME Timely, NEW b \in Cdds, cdd_isBDD(b), NEW d, NEW P, Lean(d, P)
    PROVE  Lean(And(b, d), P) /\ Lean(And(d, b), P)
<1> DEFINE R(h) == \A c \in Cdds : \A Q : Deep(h, b, c) /\ Lean(c, Q) => Lean(ApplyAt[h][<<"and", b, c>>], Q)
           T == {h \in Nat : R(h)}
<1>0. Depth \in Nat /\ Depth = MAXLEVEL + 1 /\ MAXLEVEL \in Nat /\ "and" \in Ops
  BY Basics DEF Ops
<1>1. 0 \in T
  <2>1. ASSUME NEW c \in Cdds PROVE ~Deep(0, b, c)
    BY <1>0, CddLevel DEF Deep
  <2> QED BY <2>1
<1>2. ASSUME NEW h \in Nat, h \in T PROVE h + 1 \in T
  <2> SUFFICES ASSUME NEW c \in Cdds, NEW Q, Deep(h + 1, b, c), Lean(c, Q)
               PROVE  Lean(ApplyAt[h + 1][<<"and", b, c>>], Q)
    OBVIOUS
  <2> DEFINE r == ApplyAt[h + 1][<<"and", b, c>>]
  <2>1. b \in ddNode /\ c \in ddNode /\ Q \in SUBSET Proper
    BY PointerFacts, LeanArgs
  <2>2. r = IF IsTrivial("and", b, c) THEN Trivial("and", b, c) ELSE Applied(ApplyAt[h], "and", b, c)
    BY <1>0, <2>1, ApplyEquation
  <2>3. Computes("and", b, c, r)
    BY <1>0, ApplyAtIs
  <2> HIDE DEF r
  <2>4. CASE IsTrivial("and", b, c)
    <3>1. r \in {b, c, cddfalse}
      <4>1. r = CASE b = c \/ c = cddtrue -> b
                  [] b = cddfalse \/ c = cddfalse \/ b = Neg(c) -> cddfalse
                  [] b = cddtrue -> c
                  [] OTHER -> "none"
        BY <2>2, <2>4 DEF Trivial
      <4>2. b = c \/ b = Neg(c) \/ b \in {cddtrue, cddfalse} \/ c \in {cddtrue, cddfalse}
        BY <2>4, TerminalIs DEF IsTrivial
      <4> QED BY <4>1, <4>2
    <3>2. cddfalse \in Cdds /\ cdd_isBDD(cddfalse)
      BY Terminals DEF cdd_isBDD
    <3>3. Lean(b, Q) /\ Lean(cddfalse, Q)
      BY <2>1, <3>2, LeanBdd
    <3>4. Lean(r, Q)
      BY <3>1, <3>3
    <3> QED BY <3>4 DEF r
  <2>5. CASE ~IsTrivial("and", b, c) /\ cdd_isBDD(c)
    <3>1. r \in Cdds /\ (LevelOf(r) >= LevelOf(b) \/ LevelOf(r) >= LevelOf(c))
      BY <2>3 DEF Computes
    <3>2. cdd_isBDD(r)
      BY <2>5, <3>1, BddBelow
    <3>3. Lean(r, Q)
      BY <2>1, <3>1, <3>2, LeanBdd
    <3> QED BY <3>3 DEF r
  <2>6. CASE ~IsTrivial("and", b, c) /\ ~cdd_isBDD(c)
    <3>1. ~IsTerminal(b) /\ ~IsTerminal(c)
      BY <2>6 DEF IsTrivial
    <3>2. ASSUME NEW x \in Cdds, NEW Y, LevelOf(x) > LevelOf(c), Lean(x, Y)
          PROVE  Computes("and", b, x, ApplyAt[h][<<"and", b, x>>]) /\ Lean(ApplyAt[h][<<"and", b, x>>], Y)
      <4>1. LevelOf(b) > LevelOf(c)
        <5>1. LevelOf(b) \in BddLevels /\ LevelOf(c) \in CddLevels
          BY <2>6, <3>1, InnerFacts DEF cdd_isBDD, IsCdd, BddLevels
        <5> QED BY <5>1, CddLevel DEF Timely
      <4>2. LevelOf(b) \in Nat /\ LevelOf(c) \in Nat /\ LevelOf(x) \in Nat
        BY CddLevel
      <4>3. Deep(h, b, x)
        BY <1>0, <3>2, <4>1, <4>2 DEF Deep
      <4> QED BY <1>0, <1>2, <3>2, <4>3, ApplyAtIs
    <3>3. Lean(Applied(ApplyAt[h], "and", b, c), Q)
      BY <2>6, <3>1, <3>2, AppliedLean
    <3>4. Lean(r, Q)
      BY <2>2, <2>6, <3>3
    <3> QED BY <3>4 DEF r
  <2> QED BY <2>4, <2>5, <2>6
<1> HIDE DEF R
<1>3. \A h \in Nat : h \in T
  BY <1>1, <1>2, Induction
<1>4. R(Depth)
  BY <1>0, <1>3
<1>5. d \in Cdds
  BY LeanArgs
<1>6. Deep(Depth, b, d)
  BY <1>0, <1>5, CddLevel DEF Deep
<1>7. Lean(And(b, d), P)
  BY <1>4, <1>5, <1>6 DEF R, And, Apply
<1>8. And(b, d) = And(d, b)
  <2>1. /\ And(b, d) \in Cdds /\ And(d, b) \in Cdds
        /\ \A v \in Proper : Leaf(And(b, d), v) = Leaf(And(d, b), v)
    BY <1>5, AndIs
  <2>2. Agree(And(b, d), And(d, b))
    BY <2>1, VectorsProper DEF Agree
  <2> QED BY <2>1, <2>2, CanonicalDiagrams
<1> QED BY <1>7, <1>8

\* With a vector P has all that differ from it in the Booleans only.
Free(P) == \A v \in P, u \in Vectors : \E w \in P :
    (\A l \in CddLevels : w[l] = v[l]) /\ (\A l \in BddLevels : w[l] = u[l])

\* Every clock valuation goes with every Boolean valuation.
LEMMA FeasibleFree == Free(Feasible)
<1> SUFFICES ASSUME NEW v \in Feasible, NEW u \in Vectors
             PROVE  \E w \in Feasible : (\A l \in CddLevels : w[l] = v[l]) /\ (\A l \in BddLevels : w[l] = u[l])
  BY DEF Free
<1>1. PICK p \in Points, b \in [BddLevels -> {0, 1}] : v = VectorOf(p, b)
  BY DEF Feasible
<1> DEFINE c == [l \in BddLevels |-> u[l]]
           w == VectorOf(p, c)
<1>2. c \in [BddLevels -> {0, 1}] /\ \A l \in BddLevels : c[l] = u[l]
  BY VectorsProper DEF Proper
<1> HIDE DEF c
<1>3. w \in Feasible
  BY <1>2 DEF Feasible
<1>4. \A l \in CddLevels : w[l] = v[l]
  BY <1>1, <1>2, VectorOfIs
<1>5. \A l \in BddLevels : w[l] = u[l]
  BY <1>2, VectorOfIs
<1> QED BY <1>3, <1>4, <1>5

\* An edge of a clock difference is taken whatever the Booleans are.
LEMMA TakingFree ==
    ASSUME NEW d, IsCdd(LevelOf(d)), NEW k, NEW P, Free(P)
    PROVE  Free(Taking(d, k, P))
<1> SUFFICES ASSUME NEW v \in Taking(d, k, P), NEW u \in Vectors
             PROVE  \E w \in Taking(d, k, P) : (\A l \in CddLevels : w[l] = v[l]) /\ (\A l \in BddLevels : w[l] = u[l])
  BY DEF Free
<1>1. v \in P /\ EdgeOf(d, v) = k
  BY DEF Taking
<1>2. PICK w \in P : (\A l \in CddLevels : w[l] = v[l]) /\ (\A l \in BddLevels : w[l] = u[l])
  BY <1>1 DEF Free
<1>3. w[LevelOf(d)] = v[LevelOf(d)]
  BY <1>2 DEF IsCdd
<1>4. EdgeOf(d, w) = EdgeOf(d, v)
  BY <1>3 DEF EdgeOf
<1> QED BY <1>1, <1>2, <1>4 DEF Taking

\* What a BDD says depends on the Booleans only.
LEMMA BddDepends ==
    ASSUME Timely, NEW d \in Cdds, cdd_isBDD(d), NEW v \in Proper, NEW w \in Proper,
           \A l \in BddLevels : v[l] = w[l]
    PROVE  Leaf(d, v) = Leaf(d, w)
<1>1. ASSUME NEW l \in Levels, l >= LevelOf(d) PROVE v[l] = w[l]
  <2>1. CASE l \in BddLevels
    BY <2>1
  <2>2. CASE l \in CddLevels
    <3>1. l \in Nat /\ l < MAXLEVEL /\ MAXLEVEL \in Nat /\ LevelOf(d) \in Nat
      BY LevelRange, CddLevel
    <3>2. ~IsTerminal(d)
      BY <1>1, <3>1, TerminalIs
    <3>3. LevelOf(d) \in BddLevels
      BY <3>2, InnerFacts DEF BddLevels, cdd_isBDD, IsCdd
    <3>4. l < LevelOf(d)
      BY <2>2, <3>3 DEF Timely
    <3> QED BY <1>1, <3>1, <3>4
  <2> QED BY <2>1, <2>2 DEF BddLevels
<1> QED BY <1>1, LeafDepends

\* A BDD other than false is true of a vector, whatever the clocks.
LEMMA BddHolds ==
    ASSUME Timely, NEW d \in Cdds, cdd_isBDD(d), d # cddfalse, NEW P \in SUBSET Proper, P # {}, Free(P)
    PROVE  \E v \in P : Leaf(d, v) = 1
<1>1. PICK u \in Vectors : Leaf(d, u) # Leaf(cddfalse, u)
  <2>1. ~Agree(d, cddfalse)
    BY CanonicalDiagrams, Terminals
  <2> QED BY <2>1 DEF Agree
<1>2. u \in Proper
  BY VectorsProper
<1>3. Leaf(d, u) = 1
  <2>1. Leaf(d, u) \in {0, 1} /\ Leaf(cddfalse, u) = 0
    BY <1>2, LeafBelow, TerminalLeaf
  <2> QED BY <1>1, <2>1
<1>4. PICK v \in P : TRUE
  OBVIOUS
<1>5. PICK w \in P : \A l \in BddLevels : w[l] = u[l]
  BY <1>4 DEF Free
<1>6. Leaf(d, w) = Leaf(d, u)
  BY <1>2, <1>5, BddDepends
<1> QED BY <1>3, <1>5, <1>6

\* A lean diagram other than false has a vector on the path that the extraction takes.
LEMMA LeanHolds ==
    ASSUME Timely, NEW d, NEW P, Lean(d, P), d # cddfalse, P # {}, Free(P)
    PROVE  \E v \in P : Leaf(d, v) = 1 /\ \A Y \in SUBSET Proper : v \in Y => v \in ExtractZone(d, Y)
<1> DEFINE Met(h, c, Q) == \E v \in Q : /\ Leaf(c, v) = 1
                                        /\ \A Y \in SUBSET Proper : v \in Y => v \in ExtractZoneAt[h][<<c, Y>>]
           R(h) == \A c \in Cdds : \A Q : /\ c # cddfalse /\ LevelOf(c) + h >= Depth
                                      /\ Lean(c, Q) /\ Q # {} /\ Free(Q)
                                      => Met(h, c, Q)
           T == {h \in Nat : R(h)}
<1>0. Depth \in Nat /\ Depth = MAXLEVEL + 1 /\ MAXLEVEL \in Nat
  BY Basics
<1>1. 0 \in T
  <2>1. \A c \in Cdds : ~(LevelOf(c) + 0 >= Depth)
    BY <1>0, CddLevel
  <2> QED BY <2>1
<1>2. ASSUME NEW h \in Nat, h \in T PROVE h + 1 \in T
  <2> SUFFICES ASSUME NEW c \in Cdds, NEW Q, c # cddfalse, LevelOf(c) + (h + 1) >= Depth,
                      Lean(c, Q), Q # {}, Free(Q)
               PROVE  Met(h + 1, c, Q)
    OBVIOUS
  <2>1. c \in ddNode /\ Q \in SUBSET Proper /\ SUBSET Proper \subseteq ValSets
    BY PointerFacts, LeanArgs DEF Proper, ValSets
  <2>2. \A Y \in SUBSET Proper : ExtractZoneAt[h + 1][<<c, Y>>] =
            IF IsTerminal(c) \/ ~IsCdd(LevelOf(c)) THEN Y ELSE ExtractZoneAt[h][<<Next1(c), ZoneOn(c, Y)>>]
    BY <2>1, ExtractZoneEquation
  <2>3. CASE cdd_isBDD(c)
    <3>1. PICK v \in Q : Leaf(c, v) = 1
      BY <2>1, <2>3, BddHolds
    <3> QED BY <2>2, <2>3, <3>1 DEF cdd_isBDD
  <2>4. CASE ~cdd_isBDD(c)
    <3> DEFINE k == FirstEdge(c)
               n == Next1(c)
               X == Taking(c, k, Q)
    <3>0. ~IsTerminal(c) /\ IsCdd(LevelOf(c))
      BY <2>4 DEF cdd_isBDD
    <3>1. k \in 1..Arity(c) /\ n = Child(c, k)
      BY <3>0, CddNode DEF FirstEdge, Next1
    <3>2. n \in Cdds /\ LevelOf(n) > LevelOf(c) /\ n # cddfalse
      BY <2>1, <3>0, FirstEdgeIs
    <3>3. X # {} /\ Lean(n, X)
      BY <2>4, <3>1, LeanUnfold
    <3>4. Free(X)
      BY <3>0, TakingFree
    <3>5. X \subseteq Q /\ \A v \in X : EdgeOf(c, v) = k
      BY DEF Taking
    <3>6. \A Y \in SUBSET Proper : ZoneOn(c, Y) = Narrowed(Y, c, k)
      BY DEF ZoneOn, Narrowed
    <3> HIDE DEF n, X, k
    <3>7. LevelOf(n) + h >= Depth
      BY <1>0, <3>2, CddLevel
    <3>8. Met(h, n, X)
      BY <1>2, <3>2, <3>3, <3>4, <3>7
    <3>9. PICK v \in X : Leaf(n, v) = 1 /\ \A Y \in SUBSET Proper : v \in Y => v \in ExtractZoneAt[h][<<n, Y>>]
      BY <3>8
    <3>10. Leaf(c, v) = 1
      BY <2>1, <3>0, <3>1, <3>5, <3>9, LeafBelow
    <3>11. ASSUME NEW Y \in SUBSET Proper, v \in Y PROVE v \in ExtractZoneAt[h + 1][<<c, Y>>]
      <4>1. v \in ZoneOn(c, Y) /\ ZoneOn(c, Y) \in SUBSET Proper
        BY <3>0, <3>1, <3>5, <3>6, <3>11, NarrowedIs
      <4>2. v \in ExtractZoneAt[h][<<n, ZoneOn(c, Y)>>]
        BY <3>9, <4>1
      <4> QED BY <2>2, <3>0, <4>2 DEF n
    <3> QED BY <3>5, <3>10, <3>11
  <2> QED BY <2>3, <2>4
<1> HIDE DEF R
<1>3. \A h \in Nat : h \in T
  BY <1>1, <1>2, Induction
<1>4. R(Depth)
  BY <1>0, <1>3
<1>5. d \in Cdds /\ LevelOf(d) + Depth >= Depth
  BY <1>0, CddLevel, LeanArgs
<1> QED BY <1>4, <1>5 DEF R, ExtractZone

\* The Boolean part that is extracted is a BDD.
LEMMA ExtractBddIs == ASSUME NEW d \in Cdds PROVE cdd_isBDD(cdd_extract_bdd(d))
<1> DEFINE R(h) == \A c \in Cdds : LevelOf(c) + h >= Depth => cdd_isBDD(ExtractBddAt[h][c])
           T == {h \in Nat : R(h)}
<1>0. Depth \in Nat /\ Depth = MAXLEVEL + 1 /\ MAXLEVEL \in Nat
  BY Basics
<1>1. 0 \in T
  <2>1. \A c \in Cdds : ~(LevelOf(c) + 0 >= Depth)
    BY <1>0, CddLevel
  <2> QED BY <2>1
<1>2. ASSUME NEW h \in Nat, h \in T PROVE h + 1 \in T
  <2> SUFFICES ASSUME NEW c \in Cdds, LevelOf(c) + (h + 1) >= Depth
               PROVE  cdd_isBDD(ExtractBddAt[h + 1][c])
    OBVIOUS
  <2>1. c \in ddNode
    BY PointerFacts
  <2>2. ExtractBddAt[h + 1][c] =
            IF IsTerminal(c) THEN cddtrue ELSE IF ~IsCdd(LevelOf(c)) THEN c ELSE ExtractBddAt[h][Next1(c)]
    BY <2>1, ExtractBddEquation
  <2>3. CASE IsTerminal(c) \/ ~IsCdd(LevelOf(c))
    BY <2>2, <2>3, Terminals DEF cdd_isBDD
  <2>4. CASE ~IsTerminal(c) /\ IsCdd(LevelOf(c))
    <3> DEFINE n == Next1(c)
    <3>1. n \in Cdds /\ LevelOf(n) > LevelOf(c)
      <4>1. {} \in SUBSET Proper
        OBVIOUS
      <4> QED BY <2>4, <4>1, FirstEdgeIs
    <3>2. ExtractBddAt[h + 1][c] = ExtractBddAt[h][n]
      BY <2>2, <2>4
    <3> HIDE DEF n
    <3>3. LevelOf(n) + h >= Depth
      BY <1>0, <3>1, CddLevel
    <3> QED BY <1>2, <3>1, <3>2, <3>3
  <2> QED BY <2>3, <2>4
<1> HIDE DEF R
<1>3. \A h \in Nat : h \in T
  BY <1>1, <1>2, Induction
<1>4. R(Depth)
  BY <1>0, <1>3
<1>5. LevelOf(d) + Depth >= Depth
  BY <1>0, CddLevel
<1> QED BY <1>4, <1>5 DEF R, cdd_extract_bdd

-----------------------------------------------------------------------------
(* The loops over zones.                                                   *)

\* One part of a diagram: a zone without negative clocks and the BDD below it.
PartRecords == [dbm : SUBSET Feasible, BDD_part : Cdds]
Part(p) == /\ p \in PartRecords
           /\ p.dbm \subseteq dbm_init /\ Closed(p.dbm) /\ cdd_isBDD(p.BDD_part)
           /\ \E v \in p.dbm : Leaf(p.BDD_part, v) = 1
Within(p, v) == v \in p.dbm /\ Leaf(p.BDD_part, v) = 1
\* The parts of a diagram that denotes D.
PartsOf(parts, D) ==
    /\ parts \in Seq(PartRecords) /\ Len(parts) \in Nat /\ DOMAIN parts = 1..Len(parts)
    /\ \A k \in 1..Len(parts) : Part(parts[k])
    /\ \A v \in Feasible : v \in D <=> \E k \in 1..Len(parts) : Within(parts[k], v)

\* One round: a part is taken out, what is left is lean again and smaller.
Round(d, D, p, r) ==
    /\ Part(p) /\ \A v \in p.dbm : v \in D <=> Leaf(p.BDD_part, v) = 1
    /\ Denotes(r, D \ p.dbm) /\ Lean(r, Feasible) /\ D \ p.dbm \subseteq dbm_init
    /\ D \ p.dbm = {} => r = cddfalse
    /\ \E v \in D : v \in p.dbm

\* The zone of the first path of a lean diagram meets its set.
LEMMA RoundIs ==
    ASSUME Timely, NEW d, NEW D, Denotes(d, D), Lean(d, Feasible), D \subseteq dbm_init, ~cdd_isBDD(d)
    PROVE  Round(d, D, cdd_extract_bdd_and_dbm(d), Rest(d))
<1> DEFINE p == cdd_extract_bdd_and_dbm(d)
           r == Rest(d)
           Z == Zone(d)
           b == cdd_extract_bdd(d)
<1>1. p = [dbm |-> Z, BDD_part |-> b]
  BY DEF cdd_extract_bdd_and_dbm, Zone
<1>2. d \in Cdds /\ d # cddfalse
  BY DenotesIs, Terminals DEF cdd_isBDD
<1>3. dbm_init \in SUBSET Proper /\ Closed(dbm_init)
  BY InitClosed, FeasibleProper
<1>4. /\ b \in Cdds /\ cdd_isBDD(b) /\ Z \subseteq dbm_init /\ Closed(Z)
      /\ \A v \in Z : Leaf(b, v) = Leaf(d, v)
  BY <1>2, <1>3, ExtractIs, ExtractBddIs DEF Zone
<1>5. PICK v \in Feasible : Leaf(d, v) = 1 /\ \A Y \in SUBSET Proper : v \in Y => v \in ExtractZone(d, Y)
  BY <1>2, LeanHolds, SomeVector, FeasibleFree
<1>6. v \in D /\ v \in Z
  <2>1. v \in D
    BY <1>5, DenotesIs
  <2> QED BY <1>3, <1>5, <2>1 DEF Zone
<1>7. Denotes(cdd_extract_dbm(d), D \ Z)
  BY <1>2, <1>6, ZoneIs
<1>8. D \ Z \subseteq dbm_init
  OBVIOUS
<1>9. {u \in D \ Z : \A i \in Clocks \ {0} : Diff(u, i, 0) >= 0} = D \ Z
  BY <1>8 DEF dbm_init
<1>10. Denotes(cdd_remove_negative(cdd_extract_dbm(d)), D \ Z)
  BY <1>7, <1>9, RemoveNegativeDenotes
<1>11. Denotes(r, D \ Z) /\ (D \ Z = {} => r = cddfalse)
  BY <1>10, ReduceDenotes DEF Rest
<1>12. Lean(r, Feasible)
  BY <1>10, ReduceLean DEF Rest, Denotes
<1>13. \A u \in Z : u \in D <=> Leaf(b, u) = 1
  BY <1>4, DenotesIs, InitClosed
<1> HIDE DEF p, r, Z, b
<1>14. p.dbm = Z /\ p.BDD_part = b /\ p \in PartRecords
  BY <1>1, <1>4 DEF PartRecords, Closed
<1>15. Part(p)
  BY <1>4, <1>5, <1>6, <1>13, <1>14 DEF Part
<1>16. Round(d, D, p, r)
  BY <1>6, <1>8, <1>11, <1>12, <1>13, <1>14, <1>15 DEF Round
<1> QED BY <1>16 DEF p, r

\* A part in front of the parts of what is left.
LEMMA PartsCons ==
    ASSUME NEW d, NEW D \in SUBSET Feasible, NEW p, NEW r, Round(d, D, p, r), NEW parts, PartsOf(parts, D \ p.dbm)
    PROVE  PartsOf(<<p>> \o parts, D)
<1> DEFINE s == <<p>> \o parts
           n == Len(parts)
           A == PartRecords
<1>1. Part(p) /\ p \in A /\ \A v \in p.dbm : v \in D <=> Leaf(p.BDD_part, v) = 1
  BY DEF Round, Part
<1>2. /\ parts \in Seq(A) /\ n \in Nat
      /\ \A k \in 1..n : Part(parts[k])
      /\ \A v \in Feasible : v \in D \ p.dbm <=> \E k \in 1..n : Within(parts[k], v)
  BY DEF PartsOf
<1> HIDE DEF A
<1>3. /\ s \in Seq(A) /\ Len(s) = n + 1 /\ DOMAIN s = 1..Len(s)
      /\ s[1] = p /\ \A k \in 1..n : s[k + 1] = parts[k]
  <2>1. <<p>> \in Seq(A) /\ Len(<<p>>) = 1 /\ <<p>>[1] = p
    BY <1>1
  <2>2. s \in Seq(A) /\ Len(s) = 1 + n
    BY <1>2, <2>1, ConcatProperties
  <2>3. \A i \in 1..Len(s) : s[i] = IF i <= 1 THEN <<p>>[i] ELSE parts[i - 1]
    BY <1>2, <2>1, ConcatProperties
  <2> HIDE DEF s
  <2>4. s[1] = p
    BY <1>2, <2>1, <2>2, <2>3
  <2>5. \A k \in 1..n : s[k + 1] = parts[k]
    BY <1>2, <2>2, <2>3
  <2>6. DOMAIN s = 1..Len(s)
    BY <2>2, SeqDef
  <2> QED BY <1>2, <2>2, <2>4, <2>5, <2>6
<1> HIDE DEF s
<1>4. \A k \in 1..(n + 1) : k = 1 \/ (k - 1 \in 1..n /\ (k - 1) + 1 = k)
  BY <1>2
<1>5. \A k \in 1..(n + 1) : Part(s[k])
  BY <1>1, <1>2, <1>3, <1>4
<1>6. ASSUME NEW v \in Feasible PROVE v \in D <=> \E k \in 1..(n + 1) : Within(s[k], v)
  <2>1. v \in D => Within(p, v) \/ \E k \in 1..n : Within(parts[k], v)
    BY <1>1, <1>2 DEF Within
  <2>2. Within(p, v) => v \in D
    BY <1>1 DEF Within
  <2>3. \A k \in 1..n : Within(parts[k], v) => v \in D
    BY <1>2
  <2>4. 1 \in 1..(n + 1) /\ \A k \in 1..n : k + 1 \in 1..(n + 1)
    BY <1>2
  <2>5. v \in D => \E k \in 1..(n + 1) : Within(s[k], v)
    BY <1>3, <2>1, <2>4
  <2>6. \A k \in 1..(n + 1) : Within(s[k], v) => v \in D
    BY <1>3, <1>4, <2>2, <2>3
  <2> QED BY <2>5, <2>6
<1>7. n + 1 \in Nat
  BY <1>2
<1>8. PartsOf(s, D)
  BY <1>3, <1>5, <1>6, <1>7 DEF PartsOf, A
<1> QED BY <1>8 DEF s

\* No parts: nothing to denote.
LEMMA NoParts == PartsOf(<<>>, {})
<1> DEFINE A == PartRecords
<1>1. <<>> \in Seq(A) /\ Len(<<>>) = 0 /\ DOMAIN <<>> = 1..0
  OBVIOUS
<1>2. \A k : k \notin 1..0
  OBVIOUS
<1> QED BY <1>1, <1>2 DEF PartsOf

\* A diagram of non-negative clocks that says nothing of the clocks is empty, because a clock
\* can be negative.
LEMMA BddEmpty ==
    ASSUME Timely, CddLevels # {}, NEW d, NEW D, Denotes(d, D), cdd_isBDD(d), D \subseteq dbm_init
    PROVE  D = {}
<1> SUFFICES ASSUME NEW v \in D PROVE FALSE
  OBVIOUS
<1>1. v \in Feasible /\ v \in Vectors /\ v \in Proper /\ d \in Cdds /\ Leaf(d, v) = 1
  BY DenotesIs, FeasibleProper
<1>2. PICK w \in Feasible : w \notin dbm_init
  BY InitClosed DEF Timely
<1>3. PICK x \in Feasible : (\A l \in CddLevels : x[l] = w[l]) /\ (\A l \in BddLevels : x[l] = v[l])
  BY <1>1, FeasibleFree DEF Free
<1>4. x \in Proper /\ w \in Proper
  BY FeasibleProper
<1>5. Leaf(d, x) = Leaf(d, v)
  BY <1>1, <1>3, <1>4, BddDepends
<1>6. x \in D
  BY <1>1, <1>5, DenotesIs
<1>7. PICK i \in Clocks \ {0} : ~(Diff(w, i, 0) >= 0)
  BY <1>2 DEF dbm_init
<1>8. Diff(x, i, 0) >= 0
  BY <1>6 DEF dbm_init
<1>9. DiffLevel(i, 0) \in CddLevels
  BY <1>4, NotNegative
<1>10. x[DiffLevel(i, 0)] = w[DiffLevel(i, 0)]
  BY <1>3, <1>9
<1>11. Above(x[DiffLevel(i, 0)], 0) /\ ~Above(w[DiffLevel(i, 0)], 0)
  BY <1>4, <1>7, <1>8, NotNegative
<1> QED BY <1>10, <1>11

SplitInStep(n, below) ==
    [d \in ddNode |-> IF cdd_isBDD(d) THEN <<>> ELSE <<cdd_extract_bdd_and_dbm(d)>> \o below[Rest(d)]]
SplitInRec == INSTANCE Recursion WITH Base <- [d \in ddNode |-> <<>>], Step <- SplitInStep
ReducedParts(d, below) == <<cdd_extract_bdd_and_dbm(d)>> \o below[Rest(d)]
SplitReducedStep(n, below) ==
    [d \in ddNode |-> IF cdd_isBDD(d) THEN <<>> ELSE ReducedParts(cdd_reduce(d), below)]
SplitReducedRec == INSTANCE Recursion WITH Base <- [d \in ddNode |-> <<>>], Step <- SplitReducedStep

\* The loops of the C++ layer, one round more.
LEMMA SplitEquation ==
    ASSUME NEW d \in ddNode
    PROVE  /\ SplitIn[0][d] = <<>>
           /\ \A n \in Nat : SplitIn[n + 1][d] =
                  IF cdd_isBDD(d) THEN <<>> ELSE <<cdd_extract_bdd_and_dbm(d)>> \o SplitIn[n][Rest(d)]
<1>1. SplitIn = SplitInRec!F
  BY DEF SplitIn, SplitInRec!F, SplitInStep
<1> HIDE DEF SplitIn
<1>2. /\ SplitIn[0] = [x \in ddNode |-> <<>>]
      /\ \A n \in Nat : SplitIn[n + 1] = SplitInStep(n + 1, SplitIn[n])
  BY <1>1, SplitInRec!Def
<1> QED BY <1>2 DEF SplitInStep

\* The same for the loop that reduces before it extracts.
LEMMA SplitReducedEquation ==
    ASSUME NEW d \in ddNode
    PROVE  /\ SplitReducedIn[0][d] = <<>>
           /\ \A n \in Nat : SplitReducedIn[n + 1][d] =
                  IF cdd_isBDD(d) THEN <<>> ELSE ReducedParts(cdd_reduce(d), SplitReducedIn[n])
<1>1. SplitReducedIn = SplitReducedRec!F
  BY DEF SplitReducedIn, SplitReducedRec!F, SplitReducedStep, ReducedParts
<1> HIDE DEF SplitReducedIn
<1>2. /\ SplitReducedIn[0] = [x \in ddNode |-> <<>>]
      /\ \A n \in Nat : SplitReducedIn[n + 1] = SplitReducedStep(n + 1, SplitReducedIn[n])
  BY <1>1, SplitReducedRec!Def
<1> QED BY <1>2 DEF SplitReducedStep

\* Every round takes a vector out of a finite set.
LEMMA RoundShrinks ==
    ASSUME IsFiniteSet(Feasible), NEW d, NEW D \in SUBSET Feasible, NEW p, NEW r, Round(d, D, p, r),
           NEW n \in Nat, Cardinality(D) <= n + 1
    PROVE  Cardinality(D \ p.dbm) <= n
<1>1. PICK v \in D : v \in p.dbm
  BY DEF Round
<1>2. IsFiniteSet(D)
  BY FS_Subset
<1>3. IsFiniteSet(D \ {v}) /\ Cardinality(D \ {v}) = Cardinality(D) - 1
  BY <1>2, FS_RemoveElement
<1>4. D \ p.dbm \subseteq D \ {v}
  BY <1>1
<1>5. Cardinality(D \ p.dbm) <= Cardinality(D \ {v}) /\ IsFiniteSet(D \ p.dbm)
  BY <1>3, <1>4, FS_Subset
<1>6. Cardinality(D \ p.dbm) \in Nat /\ Cardinality(D) \in Nat
  BY <1>2, <1>5, FS_CardinalityType
<1> QED BY <1>3, <1>5, <1>6

\* An empty set has no part, and a diagram that has no clock left is empty.
LEMMA SplitIs ==
    ASSUME Timely, CddLevels # {}, NEW n \in Nat
    PROVE  \A d, D : /\ Denotes(d, D) /\ D \subseteq dbm_init /\ Cardinality(D) <= n
                     /\ Lean(d, Feasible) /\ (D = {} => d = cddfalse)
                     => PartsOf(SplitIn[n][d], D)
<1> DEFINE R(m) == \A d, D : /\ Denotes(d, D) /\ D \subseteq dbm_init /\ Cardinality(D) <= m
                             /\ Lean(d, Feasible) /\ (D = {} => d = cddfalse)
                             => PartsOf(SplitIn[m][d], D)
           T == {m \in Nat : R(m)}
<1>0. IsFiniteSet(Feasible)
  BY DEF Timely
<1>1. 0 \in T
  <2> SUFFICES ASSUME NEW d, NEW D, Denotes(d, D), Cardinality(D) <= 0
               PROVE  PartsOf(SplitIn[0][d], D)
    OBVIOUS
  <2>1. d \in ddNode /\ D \subseteq Feasible
    BY DenotesIs, PointerFacts
  <2>2. IsFiniteSet(D)
    BY <1>0, <2>1, FS_Subset
  <2>3. Cardinality(D) \in Nat
    BY <2>2, FS_CardinalityType
  <2>4. D = {}
    BY <2>2, <2>3, FS_EmptySet
  <2> QED BY <2>1, <2>4, SplitEquation, NoParts
<1>2. ASSUME NEW m \in Nat, m \in T PROVE m + 1 \in T
  <2> SUFFICES ASSUME NEW d, NEW D, Denotes(d, D), D \subseteq dbm_init, Cardinality(D) <= m + 1,
                      Lean(d, Feasible), D = {} => d = cddfalse
               PROVE  PartsOf(SplitIn[m + 1][d], D)
    OBVIOUS
  <2>1. d \in ddNode /\ D \in SUBSET Feasible
    BY DenotesIs, PointerFacts
  <2>2. SplitIn[m + 1][d] =
            IF cdd_isBDD(d) THEN <<>> ELSE <<cdd_extract_bdd_and_dbm(d)>> \o SplitIn[m][Rest(d)]
    BY <2>1, SplitEquation
  <2>3. CASE cdd_isBDD(d)
    <3>1. D = {}
      BY <2>3, BddEmpty
    <3> QED BY <2>2, <2>3, <3>1, NoParts
  <2>4. CASE ~cdd_isBDD(d)
    <3> DEFINE p == cdd_extract_bdd_and_dbm(d)
               r == Rest(d)
    <3>1. Round(d, D, p, r)
      BY <2>4, RoundIs
    <3> HIDE DEF p, r
    <3>2. Cardinality(D \ p.dbm) <= m
      BY <1>0, <2>1, <3>1, RoundShrinks
    <3>3. PartsOf(SplitIn[m][r], D \ p.dbm)
      BY <1>2, <3>1, <3>2 DEF Round
    <3>4. PartsOf(<<p>> \o SplitIn[m][r], D)
      BY <2>1, <3>1, <3>3, PartsCons
    <3> QED BY <2>2, <2>4, <3>4 DEF p, r
  <2> QED BY <2>3, <2>4
<1> HIDE DEF R
<1>3. \A m \in Nat : m \in T
  BY <1>1, <1>2, Induction
<1>4. R(n)
  BY <1>3
<1> QED BY <1>4 DEF R

\* The same for the loop that reduces in every round.
LEMMA SplitReducedIs ==
    ASSUME Timely, CddLevels # {}, NEW n \in Nat
    PROVE  \A d, D : Denotes(d, D) /\ D \subseteq dbm_init /\ Cardinality(D) <= n /\ (D = {} => d = cddfalse)
                     => PartsOf(SplitReducedIn[n][d], D)
<1> DEFINE R(m) == \A d, D : Denotes(d, D) /\ D \subseteq dbm_init /\ Cardinality(D) <= m /\ (D = {} => d = cddfalse)
                             => PartsOf(SplitReducedIn[m][d], D)
           T == {m \in Nat : R(m)}
<1>0. IsFiniteSet(Feasible)
  BY DEF Timely
<1>1. 0 \in T
  <2> SUFFICES ASSUME NEW d, NEW D, Denotes(d, D), Cardinality(D) <= 0
               PROVE  PartsOf(SplitReducedIn[0][d], D)
    OBVIOUS
  <2>1. d \in ddNode /\ D \subseteq Feasible
    BY DenotesIs, PointerFacts
  <2>2. IsFiniteSet(D)
    BY <1>0, <2>1, FS_Subset
  <2>3. Cardinality(D) \in Nat
    BY <2>2, FS_CardinalityType
  <2>4. D = {}
    BY <2>2, <2>3, FS_EmptySet
  <2> QED BY <2>1, <2>4, SplitReducedEquation, NoParts
<1>2. ASSUME NEW m \in Nat, m \in T PROVE m + 1 \in T
  <2> SUFFICES ASSUME NEW d, NEW D, Denotes(d, D), D \subseteq dbm_init, Cardinality(D) <= m + 1,
                      D = {} => d = cddfalse
               PROVE  PartsOf(SplitReducedIn[m + 1][d], D)
    OBVIOUS
  <2>1. d \in ddNode /\ D \in SUBSET Feasible
    BY DenotesIs, PointerFacts
  <2>2. SplitReducedIn[m + 1][d] =
            IF cdd_isBDD(d) THEN <<>> ELSE ReducedParts(cdd_reduce(d), SplitReducedIn[m])
    BY <2>1, SplitReducedEquation
  <2>3. CASE cdd_isBDD(d)
    <3>1. D = {}
      BY <2>3, BddEmpty
    <3> QED BY <2>2, <2>3, <3>1, NoParts
  <2>4. CASE ~cdd_isBDD(d)
    <3> DEFINE e == cdd_reduce(d)
               p == cdd_extract_bdd_and_dbm(e)
               r == Rest(e)
    <3>1. Denotes(e, D) /\ Lean(e, Feasible)
      BY DenotesIs, ReduceDenotes, ReduceLean
    <3>2. ~cdd_isBDD(e)
      <4>1. SUFFICES ASSUME cdd_isBDD(e) PROVE FALSE
        OBVIOUS
      <4>2. D = {}
        BY <3>1, <4>1, BddEmpty
      <4> QED BY <2>4, <4>2, Terminals DEF cdd_isBDD
    <3> HIDE DEF e
    <3>3. Round(e, D, p, r)
      BY <3>1, <3>2, RoundIs
    <3>4. ReducedParts(e, SplitReducedIn[m]) = <<p>> \o SplitReducedIn[m][r]
      BY DEF ReducedParts
    <3> HIDE DEF p, r
    <3>5. Cardinality(D \ p.dbm) <= m
      BY <1>0, <2>1, <3>3, RoundShrinks
    <3>6. PartsOf(SplitReducedIn[m][r], D \ p.dbm)
      BY <1>2, <3>3, <3>5 DEF Round
    <3>7. PartsOf(<<p>> \o SplitReducedIn[m][r], D)
      BY <2>1, <3>3, <3>6, PartsCons
    <3> QED BY <2>2, <2>4, <3>4, <3>7 DEF e
  <2> QED BY <2>3, <2>4
<1> HIDE DEF R
<1>3. \A m \in Nat : m \in T
  BY <1>1, <1>2, Induction
<1>4. R(n)
  BY <1>3
<1> QED BY <1>4 DEF R

\* Rounds are enough: there are no more of them than vectors.
LEMMA RoundsAreEnough ==
    ASSUME Timely, NEW D \in SUBSET Feasible
    PROVE  Rounds \in Nat /\ Cardinality(D) <= Rounds
<1>1. IsFiniteSet(Feasible)
  BY DEF Timely
<1>2. Cardinality(Feasible) \in Nat /\ Cardinality(D) <= Cardinality(Feasible)
  BY <1>1, FS_CardinalityType, FS_Subset
<1> QED BY <1>2 DEF Rounds

-----------------------------------------------------------------------------
(* Delays.                                                                 *)

\* A delay keeps the Booleans.
LEMMA TrailIs ==
    ASSUME NEW t \in Trails
    PROVE  /\ t.from \in Feasible /\ t.to \in Feasible
           /\ \A l \in BddLevels : t.from[l] = t.to[l]
<1>1. PICK p \in NonNegative, b \in Booleans : \E x \in Delays(p) :
          t = [from |-> VectorOf(p, b), to |-> VectorOf(Elapsed(p, x), b),
               seen |-> {VectorOf(Elapsed(p, e), b) : e \in 0..x}]
  BY DEF Trails
<1>0. PICK d \in Delays(p) :
          t = [from |-> VectorOf(p, b), to |-> VectorOf(Elapsed(p, d), b),
               seen |-> {VectorOf(Elapsed(p, e), b) : e \in 0..d}]
  BY <1>1
<1>2. t.from = VectorOf(p, b) /\ t.to = VectorOf(Elapsed(p, d), b)
  BY <1>0
<1>3. p \in Points /\ Elapsed(p, d) \in Points /\ b \in [BddLevels -> {0, 1}]
  BY DEF NonNegative, Delays, Booleans
<1>4. t.from \in Feasible /\ t.to \in Feasible
  BY <1>2, <1>3 DEF Feasible
<1>5. \A l \in BddLevels : t.from[l] = b[l] /\ t.to[l] = b[l]
  BY <1>2, <1>3, VectorOfIs
<1> QED BY <1>4, <1>5

\* A vector without negative clocks comes from a valuation without negative clocks.
LEMMA InitPoint ==
    ASSUME NEW v \in dbm_init
    PROVE  \E p \in NonNegative, b \in Booleans : v = VectorOf(p, b)
<1>1. PICK p \in Points, b \in [BddLevels -> {0, 1}] : v = VectorOf(p, b)
  BY DEF dbm_init, Feasible
<1>2. ASSUME NEW i \in Clocks PROVE p[i] >= 0
  <2>1. CASE i = 0
    BY <2>1, PointIs
  <2>2. CASE i # 0
    <3> DEFINE l == DiffLevel(i, 0)
    <3>1. v \in Proper /\ i \in Clocks \ {0} /\ Diff(v, i, 0) >= 0
      BY <2>2, FeasibleProper DEF dbm_init
    <3>2. l \in CddLevels /\ 0 \in RawBnd[l] /\ Above(v[l], 0)
      BY <3>1, NotNegative
    <3>3. Info[l].clock1 = i /\ Info[l].clock2 = 0
      <4>1. 0 \in Clocks /\ i > 0
        BY <3>1, ClockZero
      <4> QED BY <4>1, DiffLevelIs
    <3> HIDE DEF l
    <3>4. v[l] = RepOf(l, p[i] - p[0])
      BY <1>1, <3>2, <3>3, VectorOfIs
    <3>5. 0 \in Clocks /\ p[0] = 0 /\ p[i] \in Int /\ p[i] - p[0] \in Diffs /\ p[i] - p[0] = p[i]
      BY ClockZero, PointIs
    <3>6. v[l] \in Int /\ (Below(v[l], 0) <=> Below(p[i], 0))
      BY <3>2, <3>4, <3>5, RepOfIs
    <3>7. ~Below(p[i], 0)
      BY <3>2, <3>6, FiniteBound
    <3>8. Limit(0) = 0 /\ Unit * 0 = 0
      BY UnitIs DEF Limit
    <3>9. ~(p[i] < 0)
      BY <3>7, <3>8 DEF Below
    <3> QED BY <3>5, <3>9
  <2> QED BY <2>1, <2>2
<1> QED BY <1>1, <1>2 DEF NonNegative, Booleans

\* A delay may be zero.
LEMMA TrailStays ==
    ASSUME NEW v \in dbm_init
    PROVE  \E t \in Trails : t.from = v /\ t.to = v /\ t.seen = {v}
<1>1. PICK p \in NonNegative, b \in Booleans : v = VectorOf(p, b)
  BY InitPoint
<1>2. p \in Points
  BY DEF NonNegative
<1>3. Elapsed(p, 0) = p
  <2>1. p \in [Clocks -> Span] /\ p[0] = 0 /\ \A i \in Clocks : p[i] \in Int
    BY <1>2, PointIs
  <2> QED BY <2>1 DEF Elapsed
<1>4. 0 \in Delays(p)
  <2>1. 0 \in Diffs
    BY DiffsAreInt
  <2> QED BY <1>2, <1>3, <2>1 DEF Delays
<1>5. {VectorOf(Elapsed(p, e), b) : e \in 0..0} = {v}
  BY <1>1, <1>3
<1> DEFINE t == [from |-> VectorOf(p, b), to |-> VectorOf(Elapsed(p, 0), b),
                 seen |-> {VectorOf(Elapsed(p, e), b) : e \in 0..0}]
<1>6. t \in Trails
  <2> DEFINE S(q, a) == {[from |-> VectorOf(q, a), to |-> VectorOf(Elapsed(q, d), a),
                          seen |-> {VectorOf(Elapsed(q, e), a) : e \in 0..d}] : d \in Delays(q)}
  <2>1. t \in S(p, b)
    BY <1>4
  <2>2. Trails = UNION {UNION {S(q, a) : a \in Booleans} : q \in NonNegative}
    BY DEF Trails
  <2> HIDE DEF S, t
  <2> QED BY <1>1, <2>1, <2>2
<1>7. t.from = v /\ t.to = v /\ t.seen = {v}
  BY <1>1, <1>3, <1>5
<1> QED BY <1>6, <1>7

\* What the parts of D become when their zones are changed.
ChangedTo(parts, change) == {w \in Feasible : \E k \in 1..Len(parts) : w \in change[k] /\ Leaf(parts[k].BDD_part, w) = 1}

\* The loop that puts changed parts together again.
LEMMA JoinedIs ==
    ASSUME NEW parts, NEW D, PartsOf(parts, D), NEW change \in [1..Len(parts) -> SUBSET Feasible],
           \A k \in 1..Len(parts) : change[k] # {} /\ Closed(change[k])
    PROVE  Denotes(Joined(parts, change), ChangedTo(parts, change))
<1> DEFINE n == Len(parts)
           cs == [k \in DOMAIN parts |-> And(cdd_from_dbm(change[k]), parts[k].BDD_part)]
           u == UnionOver(cs)
<1>1. n \in Nat /\ DOMAIN parts = 1..n /\ \A k \in 1..n : parts[k].BDD_part \in Cdds
  BY DEF PartsOf, Part, PartRecords
<1>2. ASSUME NEW k \in 1..n
      PROVE  /\ cs[k] \in Cdds
             /\ \A v \in Feasible : Leaf(cs[k], v) = 1 <=> v \in change[k] /\ Leaf(parts[k].BDD_part, v) = 1
  <2> DEFINE z == cdd_from_dbm(change[k])
  <2>1. z \in Cdds /\ \A v \in Feasible : Leaf(z, v) = IF v \in change[k] THEN 1 ELSE 0
    BY FromDbmIs
  <2>2. cs[k] = And(z, parts[k].BDD_part)
    BY <1>1
  <2> HIDE DEF z, cs
  <2>3. /\ cs[k] \in Cdds
        /\ \A v \in Proper : Leaf(cs[k], v) = IF Leaf(z, v) = 1 /\ Leaf(parts[k].BDD_part, v) = 1 THEN 1 ELSE 0
    BY <1>1, <2>1, <2>2, AndIs
  <2> QED BY <2>1, <2>3, FeasibleProper
<1>3. cs \in Seq(Cdds) /\ Len(cs) = n
  <2>1. cs \in [1..n -> Cdds]
    BY <1>1, <1>2
  <2> HIDE DEF cs
  <2> QED BY <1>1, <2>1, FunctionIsSeq
<1>4. Joined(parts, change) = u
  BY DEF Joined
<1> HIDE DEF cs, u
<1>5. \A i \in 1..Len(cs) : LevelOf(cs[i]) >= 0
  BY <1>2, <1>3, CddLevel
<1>6. AllOf(Len(cs), cs, 0, u)
  <2>1. 0 \in Nat /\ 0 <= MAXLEVEL
    BY Basics
  <2> QED BY <1>3, <1>5, <2>1, UnionIs DEF u
<1>7. u \in Cdds /\ \A v \in Proper : Leaf(u, v) = IF \E i \in 1..n : Leaf(cs[i], v) = 1 THEN 1 ELSE 0
  BY <1>3, <1>6 DEF AllOf
<1>8. \A v \in Feasible : v \in ChangedTo(parts, change) <=> Leaf(u, v) = 1
  <2> SUFFICES ASSUME NEW v \in Feasible PROVE v \in ChangedTo(parts, change) <=> Leaf(u, v) = 1
    OBVIOUS
  <2>1. v \in ChangedTo(parts, change) <=> \E i \in 1..n : Leaf(cs[i], v) = 1
    BY <1>2 DEF ChangedTo
  <2> QED BY <1>7, <2>1, FeasibleProper
<1>9. ChangedTo(parts, change) \in SUBSET Feasible
  BY DEF ChangedTo
<1> QED BY <1>4, <1>7, <1>8, <1>9, Denoted

\* Delays and pasts of a zone without negative clocks.
LEMMA ZonesMove ==
    ASSUME Timely, NEW Z \in SUBSET dbm_init, Z # {}, Closed(Z)
    PROVE  /\ dbm_up(Z) \in SUBSET Feasible /\ dbm_up(Z) # {} /\ Closed(dbm_up(Z))
           /\ dbm_down(Z) \in SUBSET Feasible /\ dbm_down(Z) # {} /\ Closed(dbm_down(Z))
<1>1. PICK v \in Z : TRUE
  OBVIOUS
<1>2. PICK t \in Trails : t.from = v /\ t.to = v
  BY <1>1, TrailStays
<1>3. v \in dbm_up(Z) /\ v \in dbm_down(Z)
  BY <1>1, <1>2 DEF dbm_up, dbm_down
<1>4. dbm_up(Z) \subseteq Feasible /\ dbm_down(Z) \subseteq Feasible
  BY TrailIs DEF dbm_up, dbm_down
<1> QED BY <1>3, <1>4 DEF Timely

\* The parts of the diagrams that the loops of cdd_delay and cdd_past take apart.
LEMMA SplitReducedParts ==
    ASSUME Timely, NEW d, NEW D, Denotes(d, D), Ready(d, D), ~cdd_isBDD(d)
    PROVE  PartsOf(SplitReduced(d), D)
<1>1. CddLevels # {}
  BY DEF cdd_isBDD, IsCdd
<1>2. D \in SUBSET Feasible /\ D \subseteq dbm_init /\ (D = {} => d = cddfalse)
  BY DenotesIs DEF Ready
<1>3. Rounds \in Nat /\ Cardinality(D) <= Rounds
  BY <1>2, RoundsAreEnough
<1> QED BY <1>1, <1>2, <1>3, SplitReducedIs DEF SplitReduced

\* A trail from or to a part is one from or to the same Booleans.
LEMMA PartTrail ==
    ASSUME Timely, NEW p, Part(p), NEW t \in Trails
    PROVE  Leaf(p.BDD_part, t.from) = Leaf(p.BDD_part, t.to)
<1>1. t.from \in Proper /\ t.to \in Proper /\ \A l \in BddLevels : t.from[l] = t.to[l]
  BY TrailIs, FeasibleProper
<1>2. p.BDD_part \in Cdds /\ cdd_isBDD(p.BDD_part)
  BY DEF Part, PartRecords
<1> QED BY <1>1, <1>2, BddDepends

\* cdd_delay denotes what can be reached by a delay.
LEMMA DelayIs ==
    ASSUME Timely, NEW d, NEW D, Denotes(d, D), Ready(d, D)
    PROVE  Denotes(cdd_delay(d), IF cdd_isBDD(d) THEN D ELSE DelayOf(D))
<1>1. CASE cdd_isBDD(d)
  BY <1>1 DEF cdd_delay
<1>2. CASE ~cdd_isBDD(d)
  <2> DEFINE parts == SplitReduced(d)
             n == Len(parts)
             change == [k \in DOMAIN parts |-> dbm_up(parts[k].dbm)]
  <2>1. PartsOf(parts, D) /\ D \subseteq Feasible
    BY <1>2, SplitReducedParts, DenotesIs
  <2>2. cdd_delay(d) = Joined(parts, change)
    BY <1>2 DEF cdd_delay
  <2> HIDE DEF parts
  <2>3. n \in Nat /\ DOMAIN parts = 1..n /\ \A k \in 1..n : Part(parts[k])
    BY <2>1 DEF PartsOf
  <2>4. \A k \in 1..n : change[k] = dbm_up(parts[k].dbm)
    BY <2>3
  <2>5. \A k \in 1..n : change[k] \in SUBSET Feasible /\ change[k] # {} /\ Closed(change[k])
    BY <2>3, <2>4, ZonesMove DEF Part
  <2>6. change \in [1..n -> SUBSET Feasible]
    BY <2>3, <2>5
  <2> HIDE DEF change
  <2>7. Denotes(Joined(parts, change), ChangedTo(parts, change))
    BY <2>1, <2>5, <2>6, JoinedIs
  <2>8. ASSUME NEW w \in Feasible PROVE w \in ChangedTo(parts, change) <=> w \in DelayOf(D)
    <3>1. ASSUME NEW k \in 1..n, w \in change[k], Leaf(parts[k].BDD_part, w) = 1 PROVE w \in DelayOf(D)
      <4>1. PICK t \in Trails : t.from \in parts[k].dbm /\ t.to = w
        BY <2>4, <3>1 DEF dbm_up
      <4>2. Leaf(parts[k].BDD_part, t.from) = 1 /\ t.from \in Feasible
        BY <2>3, <3>1, <4>1, PartTrail, TrailIs
      <4>3. Within(parts[k], t.from)
        BY <4>1, <4>2 DEF Within
      <4>4. t.from \in D
        BY <2>1, <4>2, <4>3 DEF PartsOf
      <4> QED BY <4>1, <4>4 DEF DelayOf
    <3>2. ASSUME w \in DelayOf(D) PROVE \E k \in 1..n : w \in change[k] /\ Leaf(parts[k].BDD_part, w) = 1
      <4>1. PICK t \in Trails : t.from \in D /\ t.to = w
        BY <3>2 DEF DelayOf
      <4>2. PICK k \in 1..n : Within(parts[k], t.from)
        BY <2>1, <4>1 DEF PartsOf
      <4>3. Leaf(parts[k].BDD_part, w) = 1
        BY <2>3, <4>1, <4>2, PartTrail DEF Within
      <4>4. w \in change[k]
        BY <2>4, <4>1, <4>2 DEF Within, dbm_up
      <4> QED BY <4>3, <4>4
    <3> QED BY <3>1, <3>2 DEF ChangedTo
  <2>9. ChangedTo(parts, change) = DelayOf(D)
    BY <2>8 DEF ChangedTo, DelayOf
  <2> QED BY <1>2, <2>2, <2>7, <2>9 DEF change
<1> QED BY <1>1, <1>2

\* cdd_past denotes what can reach it by a delay.
LEMMA PastIs ==
    ASSUME Timely, NEW d, NEW D, Denotes(d, D), Ready(d, D)
    PROVE  Denotes(cdd_past(d), IF cdd_isBDD(d) THEN D ELSE PastOf(D))
<1>1. CASE cdd_isBDD(d)
  BY <1>1 DEF cdd_past
<1>2. CASE ~cdd_isBDD(d)
  <2> DEFINE parts == SplitReduced(d)
             n == Len(parts)
             change == [k \in DOMAIN parts |-> dbm_down(parts[k].dbm)]
  <2>1. PartsOf(parts, D) /\ D \subseteq Feasible
    BY <1>2, SplitReducedParts, DenotesIs
  <2>2. cdd_past(d) = Joined(parts, change)
    BY <1>2 DEF cdd_past
  <2> HIDE DEF parts
  <2>3. n \in Nat /\ DOMAIN parts = 1..n /\ \A k \in 1..n : Part(parts[k])
    BY <2>1 DEF PartsOf
  <2>4. \A k \in 1..n : change[k] = dbm_down(parts[k].dbm)
    BY <2>3
  <2>5. \A k \in 1..n : change[k] \in SUBSET Feasible /\ change[k] # {} /\ Closed(change[k])
    BY <2>3, <2>4, ZonesMove DEF Part
  <2>6. change \in [1..n -> SUBSET Feasible]
    BY <2>3, <2>5
  <2> HIDE DEF change
  <2>7. Denotes(Joined(parts, change), ChangedTo(parts, change))
    BY <2>1, <2>5, <2>6, JoinedIs
  <2>8. ASSUME NEW w \in Feasible PROVE w \in ChangedTo(parts, change) <=> w \in PastOf(D)
    <3>1. ASSUME NEW k \in 1..n, w \in change[k], Leaf(parts[k].BDD_part, w) = 1 PROVE w \in PastOf(D)
      <4>1. PICK t \in Trails : t.to \in parts[k].dbm /\ t.from = w
        BY <2>4, <3>1 DEF dbm_down
      <4>2. Leaf(parts[k].BDD_part, t.to) = 1 /\ t.to \in Feasible
        BY <2>3, <3>1, <4>1, PartTrail, TrailIs
      <4>3. Within(parts[k], t.to)
        BY <4>1, <4>2 DEF Within
      <4>4. t.to \in D
        BY <2>1, <4>2, <4>3 DEF PartsOf
      <4> QED BY <4>1, <4>4 DEF PastOf
    <3>2. ASSUME w \in PastOf(D) PROVE \E k \in 1..n : w \in change[k] /\ Leaf(parts[k].BDD_part, w) = 1
      <4>1. PICK t \in Trails : t.to \in D /\ t.from = w
        BY <3>2 DEF PastOf
      <4>2. PICK k \in 1..n : Within(parts[k], t.to)
        BY <2>1, <4>1 DEF PartsOf
      <4>3. Leaf(parts[k].BDD_part, w) = 1
        BY <2>3, <4>1, <4>2, PartTrail DEF Within
      <4>4. w \in change[k]
        BY <2>4, <4>1, <4>2 DEF Within, dbm_down
      <4> QED BY <4>3, <4>4
    <3> QED BY <3>1, <3>2 DEF ChangedTo
  <2>9. ChangedTo(parts, change) = PastOf(D)
    BY <2>8 DEF ChangedTo, PastOf
  <2> QED BY <1>2, <2>2, <2>7, <2>9 DEF change
<1> QED BY <1>1, <1>2

-----------------------------------------------------------------------------
(* cdd_predt.                                                              *)

\* SetToSeq lists the members of a finite set.
LEMMA SetToSeqIs ==
    ASSUME NEW S, IsFiniteSet(S)
    PROVE  /\ Cardinality(S) \in Nat /\ SetToSeq(S) \in [1..Cardinality(S) -> S]
           /\ \A x \in S : \E k \in 1..Cardinality(S) : SetToSeq(S)[k] = x
<1> DEFINE n == Cardinality(S)
           s == SetToSeq(S)
           K == 1..n
<1>1. n \in Nat /\ Bijection(K, S) # {}
  BY FS_CardinalityType DEF ExistsBijection
<1>2. PICK h : h \in Bijection(K, S)
  BY <1>1
<1>3. h \in [K -> S] /\ IsInjective(h)
  BY <1>2 DEF Bijection, Injection
<1>4. s \in [K -> S] /\ IsInjective(s)
  BY <1>3 DEF SetToSeq
<1>5. IsFiniteSet(K) /\ Cardinality(K) = n
  BY <1>1, FS_Interval
<1> HIDE DEF s, K, n
<1>6. s \in Injection(K, S)
  BY <1>4 DEF Injection
<1>7. s \in Surjection(K, S)
  BY <1>5, <1>6, FS_Injection DEF n
<1>8. \A x \in S : \E k \in K : s[k] = x
  BY <1>7 DEF Surjection
<1> QED BY <1>1, <1>4, <1>8 DEF s, K, n

\* What a union of diagrams says.
LEMMA UnionOf ==
    ASSUME NEW n \in Nat, NEW cs \in [1..n -> Cdds]
    PROVE  /\ UnionOver(cs) \in Cdds
           /\ \A v \in Proper : Leaf(UnionOver(cs), v) = 1 <=> \E i \in 1..n : Leaf(cs[i], v) = 1
<1>1. cs \in Seq(Cdds) /\ Len(cs) = n
  BY FunctionIsSeq
<1>2. \A i \in 1..Len(cs) : LevelOf(cs[i]) >= 0
  BY <1>1, CddLevel
<1>3. AllOf(Len(cs), cs, 0, UnionOver(cs))
  <2>1. 0 \in Nat /\ 0 <= MAXLEVEL
    BY Basics
  <2> QED BY <1>1, <1>2, <2>1, UnionIs
<1> QED BY <1>1, <1>3 DEF AllOf

\* The vectors with the same clock valuations are a closed set.
LEMMA ClockPartIs ==
    ASSUME NEW v \in Feasible
    PROVE  v \in ClockPart(v) /\ Closed(ClockPart(v))
<1>1. v \in ClockPart(v) /\ ClockPart(v) \subseteq Feasible
  BY DEF ClockPart
<1>2. ASSUME NEW w \in Hull(ClockPart(v)), NEW l \in CddLevels PROVE w[l] = v[l]
  <2>1. w \in Feasible /\ \A b \in RawBnd[l] :
            /\ (\A u \in ClockPart(v) : Below(u[l], b)) => Below(w[l], b)
            /\ (\A u \in ClockPart(v) : Above(u[l], b)) => Above(w[l], b)
    BY DEF Hull
  <2>2. \A u \in ClockPart(v) : u[l] = v[l]
    BY DEF ClockPart
  <2>3. \A b \in RawBnd[l] : (Below(v[l], b) => Below(w[l], b)) /\ (Above(v[l], b) => Above(w[l], b))
    BY <2>1, <2>2
  <2>4. l \in Levels /\ w[l] \in CellReps(l) /\ v[l] \in CellReps(l) /\ w[l] \in Int /\ v[l] \in Int
    <3>1. l \in Levels
      BY DEF CddLevels
    <3>2. w[l] \in CellReps(l) /\ v[l] \in CellReps(l)
      BY <2>1, <3>1, FeasibleProper DEF Vectors
    <3> QED BY <3>1, <3>2, CellRepsAre, DiffsAreInt
  <2>5. \A b \in RawBnd[l] : Below(v[l], b) <=> Below(w[l], b)
    BY <2>3, <2>4, FiniteBound
  <2>6. CellOf(l, w[l]) = CellOf(l, v[l])
    BY <2>5 DEF CellOf
  <2> QED BY <2>4, <2>6, CellRepsAre
<1>3. Hull(ClockPart(v)) \subseteq ClockPart(v)
  BY <1>2 DEF ClockPart, Hull
<1> QED BY <1>1, <1>3 DEF Closed

\* What is made of a federation has the clock valuations of its vectors.
LEMMA FedIs ==
    ASSUME Timely, NEW S \in SUBSET Feasible
    PROVE  /\ cdd_from_fed(S) \in Cdds
           /\ \A w \in Feasible : Leaf(cdd_from_fed(S), w) = 1 <=> \E v \in S : w \in ClockPart(v)
<1> DEFINE Z(v) == cdd_from_dbm(ClockPart(v))
           X == {Z(v) : v \in S}
           n == Cardinality(X)
           cs == SetToSeq(X)
<1>1. \A v \in S : Z(v) \in Cdds /\ \A w \in Feasible : Leaf(Z(v), w) = IF w \in ClockPart(v) THEN 1 ELSE 0
  <2> SUFFICES ASSUME NEW v \in S
               PROVE  Z(v) \in Cdds /\ \A w \in Feasible : Leaf(Z(v), w) = IF w \in ClockPart(v) THEN 1 ELSE 0
    OBVIOUS
  <2>1. Closed(ClockPart(v)) /\ ClockPart(v) # {}
    BY ClockPartIs
  <2> QED BY <2>1, FromDbmIs
<1>2. IsFiniteSet(X)
  <2> DEFINE h == [v \in S |-> Z(v)]
  <2> HIDE DEF Z
  <2>1. h \in Surjection(S, X)
    BY DEF Surjection
  <2>2. IsFiniteSet(S)
    BY FS_Subset DEF Timely
  <2> HIDE DEF h, X
  <2> QED BY <2>1, <2>2, FS_Surjection
<1> HIDE DEF Z
<1>3. X \subseteq Cdds
  BY <1>1
<1>4. cdd_from_fed(S) = UnionOver(cs)
  BY DEF cdd_from_fed, Z
<1>5. \A w : (\E v \in S : Leaf(Z(v), w) = 1) <=> \E x \in X : Leaf(x, w) = 1
  OBVIOUS
<1> HIDE DEF X
<1>6. n \in Nat /\ cs \in [1..n -> X] /\ \A x \in X : \E k \in 1..n : cs[k] = x
  BY <1>2, SetToSeqIs
<1> HIDE DEF cs, n
<1>7. cs \in [1..n -> Cdds]
  BY <1>3, <1>6
<1>8. /\ UnionOver(cs) \in Cdds
      /\ \A w \in Proper : Leaf(UnionOver(cs), w) = 1 <=> \E i \in 1..n : Leaf(cs[i], w) = 1
  BY <1>6, <1>7, UnionOf
<1>9. ASSUME NEW w \in Feasible
      PROVE  Leaf(UnionOver(cs), w) = 1 <=> \E v \in S : w \in ClockPart(v)
  <2>1. Leaf(UnionOver(cs), w) = 1 <=> \E x \in X : Leaf(x, w) = 1
    BY <1>6, <1>8, FeasibleProper
  <2>2. (\E x \in X : Leaf(x, w) = 1) <=> \E v \in S : w \in ClockPart(v)
    BY <1>1, <1>5
  <2> QED BY <2>1, <2>2
<1> QED BY <1>4, <1>8, <1>9

\* The vectors with the Booleans of b.
WithBools(b) == {v \in Feasible : \A l \in BddLevels : v[l] = b[l]}

\* There are finitely many valuations of the Booleans.
LEMMA BooleansFinite == IsFiniteSet(Booleans)
<1> DEFINE h == [X \in SUBSET BddLevels |-> [l \in BddLevels |-> IF l \in X THEN 1 ELSE 0]]
<1>1. IsFiniteSet(SUBSET BddLevels)
  <2>1. 0 \in Int /\ MAXLEVEL - 1 \in Int /\ BddLevels \subseteq 0..(MAXLEVEL - 1)
    BY Basics, LevelRange DEF BddLevels
  <2>2. IsFiniteSet(BddLevels)
    BY <2>1, FS_Interval, FS_Subset
  <2> QED BY <2>2, FS_SUBSET
<1>2. h \in [SUBSET BddLevels -> Booleans]
  BY DEF Booleans
<1>3. ASSUME NEW b \in Booleans PROVE \E X \in SUBSET BddLevels : h[X] = b
  <2> DEFINE X == {l \in BddLevels : b[l] = 1}
  <2>1. X \in SUBSET BddLevels
    OBVIOUS
  <2>2. b \in [BddLevels -> {0, 1}] /\ \A l \in BddLevels : b[l] = IF l \in X THEN 1 ELSE 0
    BY DEF Booleans
  <2>3. h[X] = [l \in BddLevels |-> IF l \in X THEN 1 ELSE 0]
    BY <2>1
  <2>4. h[X] = b
    BY <2>2, <2>3
  <2> QED BY <2>1, <2>4
<1> HIDE DEF h
<1>4. h \in Surjection(SUBSET BddLevels, Booleans)
  BY <1>2, <1>3 DEF Surjection
<1> QED BY <1>1, <1>4, FS_Surjection

\* cdd_and of BDDs is a BDD.
LEMMA BddAnd ==
    ASSUME Timely, NEW a \in Cdds, cdd_isBDD(a), NEW b \in Cdds, cdd_isBDD(b)
    PROVE  And(a, b) \in Cdds /\ cdd_isBDD(And(a, b))
<1>1. "and" \in Ops
  BY DEF Ops
<1>2. Computes("and", a, b, And(a, b))
  BY <1>1, ApplyIs DEF And
<1> DEFINE r == And(a, b)
<1>3. r \in Cdds /\ (LevelOf(r) >= LevelOf(a) \/ LevelOf(r) >= LevelOf(b))
  BY <1>2 DEF Computes
<1> HIDE DEF r
<1>4. LevelOf(r) >= LevelOf(a) => cdd_isBDD(r)
  BY <1>3, BddBelow
<1>5. LevelOf(r) >= LevelOf(b) => cdd_isBDD(r)
  BY <1>3, BddBelow
<1>6. r \in Cdds /\ cdd_isBDD(r)
  BY <1>3, <1>4, <1>5
<1> QED BY <1>6 DEF r

\* A Boolean or its negation.
LEMMA LiteralIs ==
    ASSUME Timely, NEW l \in BddLevels, NEW x \in {0, 1}
    PROVE  cdd_isBDD(Literal(l, x)) /\ Denotes(Literal(l, x), {v \in Feasible : v[l] = x})
<1> DEFINE d == cdd_bddvar(l)
           D == {v \in Feasible : v[l] = 1}
<1>1. Denotes(d, D)
  BY BddvarIs
<1>2. cdd_isBDD(d)
  <2>1. l \in Levels /\ ~IsCdd(l)
    BY DEF BddLevels, IsCdd
  <2>2. d \in Cdds /\ LevelOf(d) >= l
    BY <2>1, BelowTerminals, MakeBddIs DEF cdd_bddvar
  <2>3. ASSUME ~IsTerminal(d), IsCdd(LevelOf(d)) PROVE FALSE
    <3>1. LevelOf(d) \in CddLevels
      BY <2>3 DEF IsCdd
    <3>2. LevelOf(d) < l
      BY <3>1 DEF Timely
    <3> QED BY <2>1, <2>2, <3>2, LevelRange, CddLevel
  <2> QED BY <2>3 DEF cdd_isBDD
<1>3. \A v \in Feasible : v[l] \in {0, 1}
  BY FeasibleProper DEF Proper
<1>4. Feasible \ D = {v \in Feasible : v[l] = 0}
  BY <1>3
<1> HIDE DEF d, D
<1>5. d \in Cdds
  BY <1>1, DenotesIs
<1>6. Denotes(Neg(d), Feasible \ D) /\ cdd_isBDD(Neg(d))
  BY <1>1, <1>2, <1>5, NegDenotes, Complement DEF cdd_isBDD
<1>7. CASE x = 1
  BY <1>1, <1>2, <1>7 DEF d, D, Literal
<1>8. CASE x = 0
  <2>1. Literal(l, x) = Neg(d)
    BY <1>8 DEF d, Literal, cdd_bddnvar
  <2>2. Feasible \ D = {v \in Feasible : v[l] = x}
    BY <1>4, <1>8
  <2> QED BY <1>6, <2>1, <2>2
<1> QED BY <1>7, <1>8

LiteralsStep(n, below) ==
    [t \in ddNode \X PartialBooleans |->
        IF n - 1 \in DOMAIN t[2] THEN And(below[t], Literal(n - 1, t[2][n - 1])) ELSE below[t]]
LiteralsRec == INSTANCE Recursion WITH Base <- [t \in ddNode \X PartialBooleans |-> t[1]], Step <- LiteralsStep

\* A valuation of the Booleans as a diagram.
LEMMA ConjIs ==
    ASSUME Timely, NEW b \in Booleans
    PROVE  cdd_isBDD(Conj(cddtrue, b)) /\ Denotes(Conj(cddtrue, b), WithBools(b))
<1> DEFINE t == <<cddtrue, b>>
           To(n) == {v \in Feasible : \A l \in BddLevels : l < n => v[l] = b[l]}
           R(n) == cdd_isBDD(WithLiterals[n][t]) /\ Denotes(WithLiterals[n][t], To(n))
           T == {n \in Nat : R(n)}
<1>1. WithLiterals = LiteralsRec!F
  BY DEF WithLiterals, LiteralsRec!F, LiteralsStep
<1> HIDE DEF WithLiterals
<1>2. /\ WithLiterals[0] = [x \in ddNode \X PartialBooleans |-> x[1]]
      /\ \A n \in Nat : WithLiterals[n + 1] = LiteralsStep(n + 1, WithLiterals[n])
  BY <1>1, LiteralsRec!Def
<1>3. t \in ddNode \X PartialBooleans /\ t[1] = cddtrue /\ t[2] = b /\ DOMAIN b = BddLevels
      /\ \A l \in BddLevels : b[l] \in {0, 1} /\ l \in Nat
  <2>1. cddtrue \in ddNode
    BY Terminals, PointerFacts
  <2>2. b \in PartialBooleans /\ DOMAIN b = BddLevels /\ \A l \in BddLevels : b[l] \in {0, 1}
    <3>1. b \in [BddLevels -> {0, 1}] /\ BddLevels \in SUBSET BddLevels
      BY DEF Booleans
    <3> QED BY <3>1 DEF PartialBooleans
  <2>3. \A l \in BddLevels : l \in Nat
    BY LevelRange DEF BddLevels
  <2> QED BY <2>1, <2>2, <2>3
<1>4. WithLiterals[0][t] = cddtrue
  BY <1>2, <1>3
<1>5. ASSUME NEW n \in Nat
      PROVE  WithLiterals[n + 1][t] = IF n \in BddLevels THEN And(WithLiterals[n][t], Literal(n, b[n]))
                                      ELSE WithLiterals[n][t]
  <2>1. (n + 1) - 1 = n
    OBVIOUS
  <2>2. WithLiterals[n + 1][t] = LiteralsStep(n + 1, WithLiterals[n])[t]
    BY <1>2
  <2>3. LiteralsStep(n + 1, WithLiterals[n])[t] =
            IF (n + 1) - 1 \in DOMAIN t[2] THEN And(WithLiterals[n][t], Literal((n + 1) - 1, t[2][(n + 1) - 1]))
            ELSE WithLiterals[n][t]
    BY <1>3 DEF LiteralsStep
  <2> HIDE DEF t
  <2> QED BY <1>3, <2>1, <2>2, <2>3
<1> HIDE DEF t
<1>6. 0 \in T
  <2>1. To(0) = Feasible
    BY <1>3
  <2>2. Denotes(cddtrue, Feasible)
    <3>1. \A v \in Feasible : Leaf(cddtrue, v) = 1
      BY FeasibleProper, TerminalLeaf
    <3> QED BY <3>1, Terminals, Denoted
  <2> QED BY <1>4, <2>1, <2>2, Terminals DEF cdd_isBDD
<1>7. ASSUME NEW n \in Nat, n \in T PROVE n + 1 \in T
  <2> DEFINE w == WithLiterals[n][t]
             W == To(n)
             W1 == To(n + 1)
  <2>1. cdd_isBDD(w) /\ Denotes(w, W)
    BY <1>7
  <2>2. CASE n \in BddLevels
    <3> DEFINE D == {v \in Feasible : v[n] = b[n]}
               lit == Literal(n, b[n])
    <3>1. W1 = W \cap D
      <4>1. ASSUME NEW v \in Feasible
            PROVE  (\A l \in BddLevels : l < n + 1 => v[l] = b[l])
                   <=> (\A l \in BddLevels : l < n => v[l] = b[l]) /\ v[n] = b[n]
        <5>1. \A l \in BddLevels : l < n + 1 <=> (l < n \/ l = n)
          BY <1>3
        <5> QED BY <2>2, <5>1
      <4> QED BY <4>1
    <3>2. cdd_isBDD(lit) /\ Denotes(lit, D)
      BY <1>3, <2>2, LiteralIs
    <3>3. WithLiterals[n + 1][t] = And(w, lit)
      BY <1>5, <2>2
    <3> HIDE DEF w, W, W1, D, lit
    <3>4. Denotes(And(w, lit), W \cap D) /\ cdd_isBDD(And(w, lit))
      BY <2>1, <3>2, AndDenotes, BddAnd, DenotesIs
    <3>5. cdd_isBDD(WithLiterals[n + 1][t]) /\ Denotes(WithLiterals[n + 1][t], W1)
      BY <3>1, <3>3, <3>4
    <3> QED BY <3>5 DEF W1
  <2>3. CASE n \notin BddLevels
    <3>1. \A l \in BddLevels : l < n + 1 <=> l < n
      BY <1>3, <2>3
    <3>2. W1 = W
      BY <3>1
    <3>3. WithLiterals[n + 1][t] = w
      BY <1>5, <2>3
    <3> HIDE DEF w, W, W1
    <3>4. cdd_isBDD(WithLiterals[n + 1][t]) /\ Denotes(WithLiterals[n + 1][t], W1)
      BY <2>1, <3>2, <3>3
    <3> QED BY <3>4 DEF W1
  <2> QED BY <2>2, <2>3
<1> HIDE DEF R
<1>8. \A n \in Nat : n \in T
  BY <1>6, <1>7, Induction
<1>9. R(MAXLEVEL) /\ To(MAXLEVEL) = WithBools(b)
  <2>1. MAXLEVEL \in Nat /\ \A l \in BddLevels : l < MAXLEVEL
    BY Basics, LevelRange DEF BddLevels
  <2> QED BY <1>8, <2>1 DEF WithBools
<1> HIDE DEF To
<1> QED BY <1>9 DEF R, Conj, t

\* A closed set has all vectors with the clock valuations of one that it has.
LEMMA ClosedClocks ==
    ASSUME NEW Z, Closed(Z), NEW v \in Z, NEW w \in Feasible, \A l \in CddLevels : w[l] = v[l]
    PROVE  w \in Z
<1>1. ASSUME NEW l \in CddLevels, NEW b \in RawBnd[l]
      PROVE  /\ (\A u \in Z : Below(u[l], b)) => Below(w[l], b)
             /\ (\A u \in Z : Above(u[l], b)) => Above(w[l], b)
  <2>1. v \in Z /\ w[l] = v[l]
    OBVIOUS
  <2> QED BY <2>1
<1>2. w \in Hull(Z)
  BY <1>1 DEF Hull
<1> QED BY <1>2 DEF Closed

\* Whether a clock is negative does not depend on the Booleans.
LEMMA InitFree == Free(dbm_init)
<1> SUFFICES ASSUME NEW v \in dbm_init, NEW u \in Vectors
             PROVE  \E w \in dbm_init : (\A l \in CddLevels : w[l] = v[l]) /\ (\A l \in BddLevels : w[l] = u[l])
  BY DEF Free
<1>1. v \in Feasible /\ Closed(dbm_init)
  BY InitClosed
<1>2. PICK w \in Feasible : (\A l \in CddLevels : w[l] = v[l]) /\ (\A l \in BddLevels : w[l] = u[l])
  BY <1>1, FeasibleFree DEF Free
<1>3. w \in dbm_init
  BY <1>1, <1>2, ClosedClocks
<1> QED BY <1>2, <1>3

\* Valuations without negative clocks have vectors without negative clocks.
LEMMA PointInit ==
    ASSUME NEW p \in NonNegative, NEW b \in Booleans
    PROVE  VectorOf(p, b) \in dbm_init
<1> DEFINE v == VectorOf(p, b)
<1>1. p \in Points /\ b \in [BddLevels -> {0, 1}] /\ \A c \in Clocks : p[c] >= 0
  BY DEF NonNegative, Booleans
<1>2. v \in Feasible /\ v \in Proper /\ \A l \in CddLevels : v[l] = RepOf(l, p[Info[l].clock1] - p[Info[l].clock2])
  BY <1>1, VectorOfIs DEF Feasible
<1> HIDE DEF v
<1>3. ASSUME NEW i \in Clocks \ {0} PROVE Diff(v, i, 0) >= 0
  <2> DEFINE l == DiffLevel(i, 0)
  <2>1. l \in CddLevels /\ 0 \in RawBnd[l] /\ (Diff(v, i, 0) >= 0 <=> Above(v[l], 0))
    BY <1>2, NotNegative
  <2>2. Info[l].clock1 = i /\ Info[l].clock2 = 0
    <3>1. 0 \in Clocks /\ i > 0
      BY ClockZero
    <3> QED BY <3>1, DiffLevelIs
  <2> HIDE DEF l
  <2>3. v[l] = RepOf(l, p[i] - p[0])
    BY <1>2, <2>1, <2>2
  <2>4. 0 \in Clocks /\ p[0] = 0 /\ p[i] \in Int /\ p[i] - p[0] \in Diffs /\ p[i] - p[0] = p[i] /\ p[i] >= 0
    BY <1>1, ClockZero, PointIs
  <2>5. v[l] \in Int /\ (Below(v[l], 0) <=> Below(p[i], 0))
    BY <2>1, <2>3, <2>4, RepOfIs
  <2>6. Limit(0) = 0 /\ Unit * 0 = 0 /\ 0 % 2 = 0 /\ INF # 0
    <3>1. INF # 0
      BY <2>1, FiniteBound
    <3> QED BY <3>1, UnitIs DEF Limit
  <2>7. ~Below(p[i], 0)
    BY <2>4, <2>6 DEF Below
  <2> QED BY <2>1, <2>5, <2>7 DEF Above
<1> QED BY <1>2, <1>3 DEF v, dbm_init

\* There is a vector without negative clocks.
LEMMA SomeInit == dbm_init # {}
<1> DEFINE p == [c \in Clocks |-> 0]
<1>1. p \in Points
  <2>1. p \in [Clocks -> Span] /\ p[0] = 0
    BY ClockZero, GridAssumption
  <2> QED BY <2>1, PointMade
<1>2. p \in NonNegative
  BY <1>1 DEF NonNegative
<1>3. PICK b \in Booleans : TRUE
  BY SomeVector DEF Booleans
<1> QED BY <1>2, <1>3, PointInit

\* A delay starts where no clock is negative; it passes through its start and keeps the Booleans.
LEMMA TrailSeen ==
    ASSUME NEW t \in Trails
    PROVE  /\ t.from \in dbm_init /\ t.from \in t.seen
           /\ \A u \in t.seen : \A l \in BddLevels : u[l] = t.from[l]
<1>1. PICK p \in NonNegative, b \in Booleans : \E x \in Delays(p) :
          t = [from |-> VectorOf(p, b), to |-> VectorOf(Elapsed(p, x), b),
               seen |-> {VectorOf(Elapsed(p, e), b) : e \in 0..x}]
  BY DEF Trails
<1>2. PICK d \in Delays(p) :
          t = [from |-> VectorOf(p, b), to |-> VectorOf(Elapsed(p, d), b),
               seen |-> {VectorOf(Elapsed(p, e), b) : e \in 0..d}]
  BY <1>1
<1>3. t.from = VectorOf(p, b) /\ t.seen = {VectorOf(Elapsed(p, e), b) : e \in 0..d}
  BY <1>2
<1>4. Elapsed(p, 0) = p
  <2>1. p \in [Clocks -> Span] /\ p[0] = 0 /\ \A i \in Clocks : p[i] \in Int
    BY PointIs DEF NonNegative
  <2> QED BY <2>1 DEF Elapsed
<1>5. 0 \in 0..d
  BY DiffsAreInt DEF Delays
<1>6. t.from \in t.seen
  BY <1>3, <1>4, <1>5
<1>7. ASSUME NEW u \in t.seen, NEW l \in BddLevels PROVE u[l] = t.from[l]
  <2>1. PICK e \in 0..d : u = VectorOf(Elapsed(p, e), b)
    BY <1>3
  <2>2. l \in Levels /\ ~IsCdd(l)
    BY DEF BddLevels, IsCdd
  <2> QED BY <1>3, <2>1, <2>2 DEF VectorOf
<1> QED BY <1>3, <1>6, <1>7, PointInit

\* The same delay under other Booleans.
LEMMA TrailUnder ==
    ASSUME NEW t \in Trails, NEW w \in Feasible, \A l \in CddLevels : w[l] = t.from[l]
    PROVE  \E s \in Trails : /\ s.from = w /\ \A l \in CddLevels : s.to[l] = t.to[l]
                             /\ \A u \in s.seen \cap Feasible : \E x \in t.seen \cap Feasible :
                                    \A l \in CddLevels : x[l] = u[l]
<1>1. PICK p \in NonNegative, b \in Booleans : \E x \in Delays(p) :
          t = [from |-> VectorOf(p, b), to |-> VectorOf(Elapsed(p, x), b),
               seen |-> {VectorOf(Elapsed(p, e), b) : e \in 0..x}]
  BY DEF Trails
<1>2. PICK d \in Delays(p) :
          t = [from |-> VectorOf(p, b), to |-> VectorOf(Elapsed(p, d), b),
               seen |-> {VectorOf(Elapsed(p, e), b) : e \in 0..d}]
  BY <1>1
<1>3. t.from = VectorOf(p, b) /\ t.to = VectorOf(Elapsed(p, d), b) /\ t.seen = {VectorOf(Elapsed(p, e), b) : e \in 0..d}
  BY <1>2
<1> DEFINE c == [l \in BddLevels |-> w[l]]
           s == [from |-> VectorOf(p, c), to |-> VectorOf(Elapsed(p, d), c),
                 seen |-> {VectorOf(Elapsed(p, e), c) : e \in 0..d}]
<1>4. w \in Proper /\ DOMAIN w = Levels /\ w = [l \in Levels |-> w[l]]
  BY FeasibleProper DEF Proper, Vals
<1>5. c \in Booleans /\ \A l \in BddLevels : c[l] = w[l]
  BY <1>4 DEF Booleans, Proper
<1> HIDE DEF c
<1>6. s \in Trails
  <2> DEFINE S(q, a) == {[from |-> VectorOf(q, a), to |-> VectorOf(Elapsed(q, y), a),
                          seen |-> {VectorOf(Elapsed(q, e), a) : e \in 0..y}] : y \in Delays(q)}
  <2>1. s \in S(p, c)
    OBVIOUS
  <2>2. Trails = UNION {UNION {S(q, a) : a \in Booleans} : q \in NonNegative}
    BY DEF Trails
  <2> HIDE DEF S, s
  <2> QED BY <1>5, <2>1, <2>2
<1>7. \A q, a, l : l \in CddLevels => VectorOf(q, a)[l] = RepOf(l, q[Info[l].clock1] - q[Info[l].clock2])
  BY DEF VectorOf, CddLevels, IsCdd
<1>8. \A q, a, l : l \in BddLevels => VectorOf(q, a)[l] = a[l]
  BY DEF VectorOf, BddLevels, CddLevels, IsCdd
<1>9. \A q, a : VectorOf(q, a) = [l \in Levels |-> VectorOf(q, a)[l]]
  BY DEF VectorOf
<1>10. \A l : l \in Levels <=> l \in CddLevels \/ l \in BddLevels
  BY DEF BddLevels, CddLevels
<1>11. VectorOf(p, c) = w
  <2>1. ASSUME NEW l \in Levels PROVE VectorOf(p, c)[l] = w[l]
    <3>1. CASE l \in CddLevels
      BY <1>3, <1>7, <3>1
    <3>2. CASE l \in BddLevels
      BY <1>5, <1>8, <3>2
    <3> QED BY <1>10, <3>1, <3>2
  <2> QED BY <1>4, <1>9, <2>1
<1>12. \A l \in CddLevels : VectorOf(Elapsed(p, d), c)[l] = VectorOf(Elapsed(p, d), b)[l]
  BY <1>7
<1>13. ASSUME NEW e \in 0..d, VectorOf(Elapsed(p, e), c) \in Feasible
       PROVE  /\ VectorOf(Elapsed(p, e), b) \in Feasible
              /\ \A l \in CddLevels : VectorOf(Elapsed(p, e), b)[l] = VectorOf(Elapsed(p, e), c)[l]
  <2> DEFINE y == Elapsed(p, e)
  <2>1. PICK q \in Points, a \in [BddLevels -> {0, 1}] : VectorOf(y, c) = VectorOf(q, a)
    BY <1>13 DEF Feasible
  <2> HIDE DEF y
  <2>2. ASSUME NEW l \in Levels PROVE VectorOf(y, b)[l] = VectorOf(q, b)[l]
    <3>1. CASE l \in CddLevels
      BY <1>7, <2>1, <3>1
    <3>2. CASE l \in BddLevels
      BY <1>8, <3>2
    <3> QED BY <1>10, <3>1, <3>2
  <2>3. VectorOf(y, b) = VectorOf(q, b)
    BY <1>9, <2>2
  <2>4. b \in [BddLevels -> {0, 1}]
    BY DEF Booleans
  <2>5. VectorOf(y, b) \in Feasible
    BY <2>3, <2>4 DEF Feasible
  <2>6. \A l \in CddLevels : VectorOf(y, b)[l] = VectorOf(y, c)[l]
    BY <1>7
  <2> QED BY <2>5, <2>6 DEF y
<1>14. s.from = w /\ \A l \in CddLevels : s.to[l] = t.to[l]
  BY <1>3, <1>11, <1>12
<1>15. s.seen = {VectorOf(Elapsed(p, e), c) : e \in 0..d}
  OBVIOUS
<1> HIDE DEF s
<1>16. \A u \in s.seen \cap Feasible : \E x \in t.seen \cap Feasible : \A l \in CddLevels : x[l] = u[l]
  <2> SUFFICES ASSUME NEW u \in s.seen \cap Feasible
               PROVE  \E x \in t.seen \cap Feasible : \A l \in CddLevels : x[l] = u[l]
    OBVIOUS
  <2>1. PICK e \in 0..d : u = VectorOf(Elapsed(p, e), c)
    BY <1>15
  <2> DEFINE x == VectorOf(Elapsed(p, e), b)
  <2>2. x \in t.seen
    BY <1>3
  <2>3. x \in Feasible /\ \A l \in CddLevels : x[l] = u[l]
    BY <1>13, <2>1
  <2> HIDE DEF x
  <2> QED BY <2>2, <2>3
<1> QED BY <1>6, <1>14, <1>16

\* What the safe part of one Boolean valuation must be for cdd_predt_dbm: a diagram without idle
\* edges, of non-negative clocks unless it says nothing of the clocks.
Safe(b, e, E) ==
    /\ Denotes(e, E) /\ E \subseteq WithBools(b) /\ Lean(e, Feasible)
    /\ cdd_isBDD(e) \/ E \subseteq dbm_init

\* The federation of the safe zones meets the delays that meet the safe part, and has no Booleans.
LEMMA SafeFedIs ==
    ASSUME Timely, NEW b \in Booleans, NEW e, NEW E, Safe(b, e, E), e # cddfalse
    PROVE  LET S == SafeFed(ZonesOf(Split(e)))
           IN  /\ S \subseteq Feasible
               /\ \A v \in S, w \in Feasible : (\A l \in CddLevels : w[l] = v[l]) => w \in S
               /\ \A t \in Trails : t.from \in WithBools(b) => (t.seen \cap S = {} <=> t.seen \cap E = {})
<1> DEFINE parts == Split(e)
           n == Len(parts)
           S == SafeFed(ZonesOf(parts))
<1>0. Denotes(e, E) /\ E \subseteq WithBools(b) /\ Lean(e, Feasible) /\ e \in Cdds /\ E \subseteq Feasible
  BY DenotesIs DEF Safe
<1>1. PICK v \in Feasible : Leaf(e, v) = 1
  BY <1>0, LeanHolds, SomeVector, FeasibleFree
<1>2. v \in E /\ v \in WithBools(b)
  BY <1>0, <1>1, DenotesIs
<1>3. CASE cdd_isBDD(e)
  <2>1. Split(e) = <<>>
    <3>1. e \in ddNode /\ Rounds \in Nat
      BY <1>0, PointerFacts, RoundsAreEnough
    <3>2. Rounds = 0 \/ (Rounds - 1 \in Nat /\ (Rounds - 1) + 1 = Rounds)
      BY <3>1
    <3> QED BY <1>3, <3>1, <3>2, SplitEquation DEF Split
  <2>2. S = dbm_init
    BY <2>1 DEF ZonesOf, SafeFed
  <2>3. ASSUME NEW t \in Trails, t.from \in WithBools(b)
        PROVE  t.from \in t.seen /\ t.from \in dbm_init /\ t.from \in E
    <3>1. t.from \in t.seen /\ t.from \in dbm_init
      BY TrailSeen
    <3>2. t.from \in Proper /\ v \in Proper /\ \A l \in BddLevels : t.from[l] = v[l]
      BY <1>2, <2>3, FeasibleProper DEF WithBools
    <3>3. Leaf(e, t.from) = 1
      BY <1>0, <1>1, <1>3, <3>2, BddDepends
    <3> QED BY <1>0, <2>3, <3>1, <3>3, DenotesIs DEF WithBools
  <2>4. Closed(dbm_init) /\ dbm_init \subseteq Feasible
    BY InitClosed
  <2>5. \A x \in dbm_init, w \in Feasible : (\A l \in CddLevels : w[l] = x[l]) => w \in dbm_init
    BY <2>4, ClosedClocks
  <2>6. \A t \in Trails : t.from \in WithBools(b) => ~(t.seen \cap dbm_init = {}) /\ ~(t.seen \cap E = {})
    BY <2>3
  <2> HIDE DEF S
  <2>7. /\ S \subseteq Feasible
        /\ \A x \in S, w \in Feasible : (\A l \in CddLevels : w[l] = x[l]) => w \in S
        /\ \A t \in Trails : t.from \in WithBools(b) => (t.seen \cap S = {} <=> t.seen \cap E = {})
    BY <2>2, <2>4, <2>5, <2>6
  <2> QED BY <2>7 DEF S
<1>4. CASE ~cdd_isBDD(e)
  <2>1. E \subseteq dbm_init /\ E # {}
    BY <1>2, <1>4 DEF Safe
  <2>2. PartsOf(parts, E)
    <3>1. CddLevels # {}
      BY <1>4 DEF cdd_isBDD, IsCdd
    <3>2. Rounds \in Nat /\ Cardinality(E) <= Rounds
      BY <1>0, RoundsAreEnough
    <3> QED BY <1>0, <2>1, <3>1, <3>2, SplitIs DEF Split
  <2> HIDE DEF parts
  <2>3. /\ n \in Nat /\ DOMAIN parts = 1..n /\ \A k \in 1..n : Part(parts[k])
        /\ \A x \in Feasible : x \in E <=> \E k \in 1..n : Within(parts[k], x)
    BY <2>2 DEF PartsOf
  <2>4. \A x : x \in ZonesOf(parts) <=> \E k \in 1..n : x \in parts[k].dbm
    BY <2>3 DEF ZonesOf
  <2>5. ZonesOf(parts) # {}
    BY <1>2, <1>0, <2>3, <2>4 DEF Within
  <2>6. S = ZonesOf(parts)
    BY <2>5 DEF SafeFed
  <2>7. \A k \in 1..n : parts[k].dbm \subseteq Feasible /\ Closed(parts[k].dbm)
    BY <2>3 DEF Part, PartRecords
  <2> HIDE DEF S
  <2>8. S \subseteq Feasible
    BY <2>4, <2>6, <2>7
  <2>9. ASSUME NEW x \in S, NEW w \in Feasible, \A l \in CddLevels : w[l] = x[l] PROVE w \in S
    <3>1. PICK k \in 1..n : x \in parts[k].dbm
      BY <2>4, <2>6
    <3>2. w \in parts[k].dbm
      BY <2>7, <2>9, <3>1, ClosedClocks
    <3> QED BY <2>4, <2>6, <3>2
  <2>10. ASSUME NEW x \in WithBools(b) PROVE x \in S <=> x \in E
    <3>1. x \in Feasible /\ x \in Proper
      BY FeasibleProper DEF WithBools
    <3>2. ASSUME x \in S PROVE x \in E
      <4>1. PICK k \in 1..n : x \in parts[k].dbm
        BY <2>4, <2>6, <3>2
      <4>2. PICK y \in parts[k].dbm : Leaf(parts[k].BDD_part, y) = 1
        BY <2>3 DEF Part
      <4>3. y \in Feasible /\ Within(parts[k], y)
        BY <2>7, <4>2 DEF Within
      <4>4. y \in E
        BY <2>3, <4>3
      <4>5. y \in Proper /\ \A l \in BddLevels : x[l] = y[l]
        BY <1>0, <4>3, <4>4, FeasibleProper DEF WithBools
      <4>6. parts[k].BDD_part \in Cdds /\ cdd_isBDD(parts[k].BDD_part)
        BY <2>3 DEF Part, PartRecords
      <4>7. Leaf(parts[k].BDD_part, x) = 1
        BY <3>1, <4>2, <4>5, <4>6, BddDepends
      <4> QED BY <2>3, <3>1, <4>1, <4>7 DEF Within
    <3>3. ASSUME x \in E PROVE x \in S
      BY <2>3, <2>4, <2>6, <3>1, <3>3 DEF Within
    <3> QED BY <3>2, <3>3
  <2>11. ASSUME NEW t \in Trails, t.from \in WithBools(b) PROVE t.seen \cap S = {} <=> t.seen \cap E = {}
    <3>1. \A u \in t.seen : u \in Feasible => u \in WithBools(b)
      BY <2>11, TrailSeen DEF WithBools
    <3> QED BY <1>0, <2>8, <2>10, <3>1
  <2>12. /\ S \subseteq Feasible
         /\ \A x \in S, w \in Feasible : (\A l \in CddLevels : w[l] = x[l]) => w \in S
         /\ \A t \in Trails : t.from \in WithBools(b) => (t.seen \cap S = {} <=> t.seen \cap E = {})
    BY <2>8, <2>9, <2>11
  <2> QED BY <2>12 DEF S, parts
<1> QED BY <1>3, <1>4

\* Under one Boolean valuation: the delays into the zone that avoid the safe part.
LEMMA PredtUnderIs ==
    ASSUME Timely, NEW b \in Booleans, NEW e, NEW E, Safe(b, e, E),
           NEW Z \in SUBSET dbm_init, Z # {}, Closed(Z)
    PROVE  /\ PredtUnder(Z, e) \in Cdds
           /\ \A w \in WithBools(b) : Leaf(PredtUnder(Z, e), w) = 1
                  <=> \E t \in Trails : t.from = w /\ t.to \in Z /\ t.seen \cap E = {}
<1> DEFINE Avoids(w) == \E t \in Trails : t.from = w /\ t.to \in Z /\ t.seen \cap E = {}
<1>0. WithBools(b) \subseteq Feasible
  BY DEF WithBools
<1>1. CASE e = cddfalse
  <2> DEFINE D == dbm_down(Z)
             d == cdd_from_dbm(D)
  <2>1. D # {} /\ Closed(D)
    BY ZonesMove
  <2>2. d \in Cdds /\ \A v \in Feasible : Leaf(d, v) = IF v \in D THEN 1 ELSE 0
    BY <2>1, FromDbmIs
  <2>3. E = {}
    <3>1. \A v \in Feasible : Leaf(e, v) = 0
      BY <1>1, FeasibleProper, TerminalLeaf
    <3> QED BY <3>1, DenotesIs DEF Safe
  <2>4. PredtUnder(Z, e) = d
    BY <1>1 DEF PredtUnder
  <2>5. \A w : w \in D <=> Avoids(w)
    BY <2>3 DEF dbm_down
  <2> HIDE DEF D, d, Avoids
  <2>6. PredtUnder(Z, e) \in Cdds /\ \A w \in WithBools(b) : Leaf(PredtUnder(Z, e), w) = 1 <=> Avoids(w)
    BY <1>0, <2>2, <2>4, <2>5
  <2> QED BY <2>6 DEF Avoids
<1>2. CASE e # cddfalse
  <2> DEFINE S == SafeFed(ZonesOf(Split(e)))
             P == predt(Z, S)
             d == cdd_from_fed(P)
  <2>1. /\ S \subseteq Feasible
        /\ \A v \in S, w \in Feasible : (\A l \in CddLevels : w[l] = v[l]) => w \in S
        /\ \A t \in Trails : t.from \in WithBools(b) => (t.seen \cap S = {} <=> t.seen \cap E = {})
    BY <1>2, SafeFedIs
  <2>2. PredtUnder(Z, e) = d
    BY <1>2 DEF PredtUnder
  <2> HIDE DEF S
  <2>3. P \in SUBSET Feasible /\ \A v : v \in P <=> \E t \in Trails : t.from = v /\ t.to \in Z /\ t.seen \cap S = {}
    BY TrailIs DEF predt
  <2> HIDE DEF P
  <2>4. d \in Cdds /\ \A w \in Feasible : Leaf(d, w) = 1 <=> \E v \in P : w \in ClockPart(v)
    BY <2>3, FedIs
  <2> HIDE DEF d
  <2>5. ASSUME NEW w \in WithBools(b), NEW v \in P, w \in ClockPart(v) PROVE Avoids(w)
    <3>1. PICK t \in Trails : t.from = v /\ t.to \in Z /\ t.seen \cap S = {}
      BY <2>3
    <3>2. w \in Feasible /\ \A l \in CddLevels : w[l] = t.from[l]
      BY <2>5, <3>1 DEF ClockPart
    <3>3. PICK s \in Trails : /\ s.from = w /\ \A l \in CddLevels : s.to[l] = t.to[l]
                              /\ \A u \in s.seen \cap Feasible : \E x \in t.seen \cap Feasible :
                                     \A l \in CddLevels : x[l] = u[l]
      BY <3>2, TrailUnder
    <3>4. s.to \in Z
      BY <3>1, <3>3, ClosedClocks, TrailIs
    <3>5. s.seen \cap S = {}
      <4> SUFFICES ASSUME NEW u \in s.seen \cap S PROVE FALSE
        OBVIOUS
      <4>1. PICK x \in t.seen \cap Feasible : \A l \in CddLevels : x[l] = u[l]
        BY <2>1, <3>3
      <4>2. x \in S
        BY <2>1, <4>1
      <4> QED BY <3>1, <4>1, <4>2
    <3>6. s.seen \cap E = {}
      BY <2>1, <3>3, <3>5
    <3> QED BY <3>3, <3>4, <3>6
  <2>6. ASSUME NEW w \in WithBools(b), Avoids(w) PROVE \E v \in P : w \in ClockPart(v)
    <3>1. PICK t \in Trails : t.from = w /\ t.to \in Z /\ t.seen \cap E = {}
      BY <2>6
    <3>2. t.seen \cap S = {}
      BY <2>1, <3>1
    <3>3. w \in P
      BY <2>3, <3>1, <3>2
    <3> QED BY <1>0, <3>3, ClockPartIs
  <2> HIDE DEF Avoids
  <2>7. PredtUnder(Z, e) \in Cdds /\ \A w \in WithBools(b) : Leaf(PredtUnder(Z, e), w) = 1 <=> Avoids(w)
    BY <1>0, <2>2, <2>4, <2>5, <2>6
  <2> QED BY <2>7 DEF Avoids
<1> QED BY <1>1, <1>2

\* What cdd_predt relies on: the safe part is reduced.
Usable(d, D) == Denotes(d, D) /\ Ready(d, D) /\ cdd_reduce(d) = d
\* From v a delay leads to part p without meeting E.
Lost(p, E, v) == \E t \in Trails : t.from = v /\ Within(p, t.to) /\ t.seen \cap E = {}
\* One round of the loop over the valuations of the Booleans.
PredtRound(p, e, a) ==
    IF cdd_equiv(And(a, p.BDD_part), cddfalse) THEN cddfalse
    ELSE And(PredtUnder(p.dbm, And(And(p.BDD_part, e), a)), a)

\* It denotes the part of the result under that valuation.
LEMMA PredtRoundIs ==
    ASSUME Timely, NEW p, Part(p), NEW e, NEW E, Usable(e, E), NEW b \in Booleans
    PROVE  /\ PredtRound(p, e, Conj(cddtrue, b)) \in Cdds
           /\ \A v \in Feasible : Leaf(PredtRound(p, e, Conj(cddtrue, b)), v) = 1 <=> v \in WithBools(b) /\ Lost(p, E, v)
<1> DEFINE a == Conj(cddtrue, b)
           B == p.BDD_part
           Z == p.dbm
           Y == {v \in Feasible : Leaf(B, v) = 1}
           U == WithBools(b)
           r == PredtRound(p, e, a)
<1>1. cdd_isBDD(a) /\ Denotes(a, U) /\ a \in Cdds /\ U \subseteq Feasible
  BY ConjIs, DenotesIs
<1>2. /\ B \in Cdds /\ cdd_isBDD(B) /\ Denotes(B, Y) /\ Z \in SUBSET dbm_init /\ Z # {} /\ Closed(Z)
      /\ \A x \in Feasible : x \in Y <=> Leaf(B, x) = 1
  <2>1. B \in Cdds /\ cdd_isBDD(B) /\ Z \in SUBSET dbm_init /\ Z # {} /\ Closed(Z)
    BY DEF Part, PartRecords
  <2> QED BY <2>1, Denoted
<1>3. Denotes(e, E) /\ e \in Cdds /\ E \subseteq Feasible /\ Lean(e, Feasible) /\ (cdd_isBDD(e) \/ E \subseteq dbm_init)
  BY DenotesIs, ReduceLean DEF Usable, Ready
<1>4. \A x \in U, y \in U : x \in Y => y \in Y
  <2> SUFFICES ASSUME NEW x \in U, NEW y \in U, x \in Y PROVE y \in Y
    OBVIOUS
  <2>1. x \in Proper /\ y \in Proper /\ \A l \in BddLevels : x[l] = y[l]
    BY FeasibleProper DEF WithBools
  <2> QED BY <1>1, <1>2, <2>1, BddDepends
<1>5. \A t \in Trails : /\ t.from \in Feasible /\ t.to \in Feasible
                        /\ t.from \in U => t.to \in U
                        /\ t.from \in U => \A u \in t.seen : u \in Feasible => u \in U
  BY TrailIs, TrailSeen DEF WithBools
<1>6. \A x \in Feasible : Within(p, x) <=> x \in Z /\ x \in Y
  BY <1>2 DEF Within
<1>7. r = IF cdd_equiv(And(a, B), cddfalse) THEN cddfalse ELSE And(PredtUnder(Z, And(And(B, e), a)), a)
  BY DEF PredtRound
<1> HIDE DEF a, B, Z, Y, U, r
<1>8. Denotes(cddfalse, {}) /\ \A v \in Feasible : Leaf(cddfalse, v) = 0
  <2>1. \A v \in Feasible : Leaf(cddfalse, v) = 0
    BY FeasibleProper, TerminalLeaf
  <2> QED BY <2>1, Terminals, Denoted
<1>9. cdd_equiv(And(a, B), cddfalse) <=> U \cap Y = {}
  <2>1. Denotes(And(a, B), U \cap Y)
    BY <1>1, <1>2, AndDenotes
  <2> QED BY <1>8, <2>1, EquivIs
<1>10. CASE U \cap Y = {}
  <2>1. r = cddfalse
    BY <1>7, <1>9, <1>10
  <2>2. \A v \in Feasible : ~(v \in U /\ Lost(p, E, v))
    BY <1>5, <1>6, <1>10 DEF Lost
  <2> QED BY <1>8, <2>1, <2>2, Terminals DEF r, U, a
<1>11. CASE U \cap Y # {}
  <2> DEFINE c == And(And(B, e), a)
             C == (Y \cap E) \cap U
             q == PredtUnder(Z, c)
  <2>1. U \subseteq Y
    BY <1>4, <1>11
  <2>2. Denotes(c, C)
    BY <1>1, <1>2, <1>3, AndDenotes
  <2>3. Lean(c, Feasible)
    BY <1>1, <1>2, <1>3, AndLean
  <2>4. cdd_isBDD(e) => cdd_isBDD(c)
    BY <1>1, <1>2, <1>3, BddAnd
  <2>5. C = E \cap U
    BY <2>1
  <2> HIDE DEF c, C
  <2>6. Safe(b, c, C)
    BY <1>3, <2>2, <2>3, <2>4, <2>5 DEF Safe, U
  <2>7. /\ q \in Cdds
        /\ \A v \in U : Leaf(q, v) = 1 <=> \E t \in Trails : t.from = v /\ t.to \in Z /\ t.seen \cap C = {}
    BY <1>2, <2>6, PredtUnderIs DEF U
  <2> HIDE DEF q
  <2>8. r = And(q, a)
    BY <1>7, <1>9, <1>11 DEF q, c
  <2>9. r \in Cdds /\ \A v \in Feasible : Leaf(r, v) = 1 <=> Leaf(q, v) = 1 /\ Leaf(a, v) = 1
    BY <1>1, <2>7, <2>8, AndIs, FeasibleProper
  <2>10. ASSUME NEW v \in Feasible PROVE Leaf(r, v) = 1 <=> v \in U /\ Lost(p, E, v)
    <3>1. Leaf(a, v) = 1 <=> v \in U
      BY <1>1, DenotesIs
    <3>2. ASSUME v \in U PROVE Leaf(q, v) = 1 <=> Lost(p, E, v)
      <4>1. ASSUME NEW t \in Trails, t.from = v
            PROVE  (t.to \in Z /\ t.seen \cap C = {}) <=> (Within(p, t.to) /\ t.seen \cap E = {})
        <5>1. t.to \in U /\ t.to \in Feasible /\ \A u \in t.seen : u \in Feasible => u \in U
          BY <1>5, <3>2, <4>1
        <5>2. t.seen \cap C = {} <=> t.seen \cap E = {}
          BY <1>3, <2>5, <5>1
        <5>3. t.to \in Z <=> Within(p, t.to)
          BY <1>6, <2>1, <5>1
        <5> QED BY <5>2, <5>3
      <4>2. Lost(p, E, v) <=> \E t \in Trails : t.from = v /\ t.to \in Z /\ t.seen \cap C = {}
        BY <4>1 DEF Lost
      <4> QED BY <2>7, <3>2, <4>2
    <3> QED BY <2>9, <3>1, <3>2
  <2> QED BY <2>9, <2>10 DEF r, U, a
<1> QED BY <1>10, <1>11

\* cdd_predt_dbm: the delays into one part of the target.
LEMMA PredtDbmIs ==
    ASSUME Timely, NEW p, Part(p), NEW e, NEW E, Usable(e, E)
    PROVE  /\ cdd_predt_dbm(p.dbm, p.BDD_part, e) \in Cdds
           /\ \A v \in Feasible : Leaf(cdd_predt_dbm(p.dbm, p.BDD_part, e), v) = 1 <=> Lost(p, E, v)
<1> DEFINE B == p.BDD_part
           Z == p.dbm
           r == cdd_predt_dbm(Z, B, e)
<1>1. B \in Cdds /\ cdd_isBDD(B) /\ Z \in SUBSET dbm_init /\ Z # {} /\ Closed(Z)
  BY DEF Part, PartRecords
<1>2. Denotes(e, E) /\ e \in Cdds /\ E \subseteq Feasible
  BY DenotesIs DEF Usable
<1>3. \A x : Within(p, x) <=> x \in Z /\ Leaf(B, x) = 1
  BY DEF Within
<1>4. \A t \in Trails : Leaf(B, t.from) = Leaf(B, t.to)
  BY PartTrail
<1>5. CASE And(B, e) = cddfalse
  <2> DEFINE D == dbm_down(Z)
             d == cdd_from_dbm(D)
  <2>1. D # {} /\ Closed(D)
    BY <1>1, ZonesMove
  <2>2. d \in Cdds /\ \A v \in Feasible : Leaf(d, v) = IF v \in D THEN 1 ELSE 0
    BY <2>1, FromDbmIs
  <2>3. r = And(d, B)
    BY <1>5 DEF cdd_predt_dbm
  <2>4. ASSUME NEW v \in Feasible PROVE v \in D /\ Leaf(B, v) = 1 <=> Lost(p, E, v)
    <3>1. ASSUME NEW t \in Trails, Leaf(B, t.from) = 1 PROVE t.seen \cap E = {}
      <4> SUFFICES ASSUME NEW u \in t.seen \cap E PROVE FALSE
        OBVIOUS
      <4>1. u \in Feasible /\ u \in Proper /\ t.from \in Proper /\ \A l \in BddLevels : u[l] = t.from[l]
        BY <1>2, TrailIs, TrailSeen, FeasibleProper
      <4>2. Leaf(B, u) = 1
        BY <1>1, <3>1, <4>1, BddDepends
      <4>3. Leaf(e, u) = 1
        BY <1>2, <4>1, DenotesIs
      <4>4. Leaf(And(B, e), u) = 1
        BY <1>1, <1>2, <4>1, <4>2, <4>3, AndIs
      <4> QED BY <1>5, <4>1, <4>4, TerminalLeaf
    <3>2. v \in D <=> \E t \in Trails : t.from = v /\ t.to \in Z
      BY DEF dbm_down
    <3> HIDE DEF D, B, Z
    <3>3. \A t \in Trails : t.from = v => (t.to \in Z /\ Leaf(B, v) = 1 <=> Within(p, t.to) /\ t.seen \cap E = {})
      BY <1>3, <1>4, <3>1
    <3> QED BY <3>2, <3>3 DEF Lost
  <2> HIDE DEF D, d, B, Z, r
  <2>5. r \in Cdds /\ \A v \in Feasible : Leaf(r, v) = 1 <=> v \in D /\ Leaf(B, v) = 1
    BY <1>1, <2>2, <2>3, AndIs, FeasibleProper
  <2>6. r \in Cdds /\ \A v \in Feasible : Leaf(r, v) = 1 <=> Lost(p, E, v)
    BY <2>4, <2>5
  <2> QED BY <2>6 DEF r, B, Z
<1>6. CASE And(B, e) # cddfalse
  <2> DEFINE n == Cardinality(Booleans)
             bs == SetToSeq(Booleans)
             as == [i \in DOMAIN bs |-> Conj(cddtrue, bs[i])]
             cs == [i \in DOMAIN as |-> PredtRound(p, e, as[i])]
  <2>1. n \in Nat /\ bs \in [1..n -> Booleans] /\ \A b \in Booleans : \E i \in 1..n : bs[i] = b
    BY BooleansFinite, SetToSeqIs
  <2>2. r = UnionOver([i \in DOMAIN Valuations |->
                IF cdd_equiv(And(Valuations[i], B), cddfalse) THEN cddfalse
                ELSE And(PredtUnder(Z, And(And(B, e), Valuations[i])), Valuations[i])])
    BY <1>6 DEF cdd_predt_dbm
  <2>3. Valuations = as
    BY DEF Valuations
  <2>4. r = UnionOver(cs)
    BY <2>2, <2>3 DEF PredtRound
  <2> HIDE DEF bs, n, r, B, Z
  <2>5. DOMAIN as = 1..n /\ \A i \in 1..n : as[i] = Conj(cddtrue, bs[i])
    BY <2>1
  <2> HIDE DEF as
  <2>6. \A i \in 1..n : cs[i] = PredtRound(p, e, Conj(cddtrue, bs[i])) /\ DOMAIN cs = 1..n
    BY <2>5
  <2>7. \A i \in 1..n : /\ cs[i] \in Cdds
                        /\ \A v \in Feasible : Leaf(cs[i], v) = 1 <=> v \in WithBools(bs[i]) /\ Lost(p, E, v)
    <3> SUFFICES ASSUME NEW i \in 1..n
                 PROVE  /\ cs[i] \in Cdds
                        /\ \A v \in Feasible : Leaf(cs[i], v) = 1 <=> v \in WithBools(bs[i]) /\ Lost(p, E, v)
      OBVIOUS
    <3>1. bs[i] \in Booleans
      BY <2>1
    <3> HIDE DEF cs
    <3> QED BY <2>6, <3>1, PredtRoundIs
  <2>8. cs \in [1..n -> Cdds]
    BY <2>5, <2>7
  <2> HIDE DEF cs
  <2>9. /\ r \in Cdds
        /\ \A v \in Proper : Leaf(r, v) = 1 <=> \E i \in 1..n : Leaf(cs[i], v) = 1
    BY <2>1, <2>4, <2>8, UnionOf
  <2>10. ASSUME NEW v \in Feasible PROVE \E i \in 1..n : v \in WithBools(bs[i])
    <3> DEFINE b == [l \in BddLevels |-> v[l]]
    <3>1. b \in Booleans /\ \A l \in BddLevels : v[l] = b[l]
      BY FeasibleProper DEF Proper, Booleans
    <3> HIDE DEF b
    <3>2. v \in WithBools(b)
      BY <3>1 DEF WithBools
    <3> QED BY <2>1, <3>1, <3>2
  <2>11. ASSUME NEW v \in Feasible PROVE Leaf(r, v) = 1 <=> Lost(p, E, v)
    BY <2>7, <2>9, <2>10, FeasibleProper
  <2> QED BY <2>9, <2>11 DEF r, B, Z
<1> QED BY <1>5, <1>6

\* cdd_predt goes through the parts of the target.
LEMMA PredtIs ==
    ASSUME Timely, NEW d, NEW D, Usable(d, D), NEW e, NEW E, Usable(e, E)
    PROVE  Accepted(cdd_predt(d, e), Feasible) = LostTo(D \cap dbm_init, E)
<1> DEFINE r == cdd_predt(d, e)
           T == D \cap dbm_init
<1>1. Denotes(d, D) /\ d \in Cdds /\ D \subseteq Feasible /\ Denotes(e, E) /\ E \subseteq Feasible
  BY DenotesIs DEF Usable
<1>2. \A x \in Cdds : \A v \in Feasible : Holds(x, v) <=> Leaf(x, v) = 1
  BY LeafBelow, FeasibleProper
<1>3. Accepted(cddfalse, Feasible) = {}
  <2>1. \A v \in Feasible : ~Holds(cddfalse, v)
    BY <1>2, Terminals, TerminalLeaf, FeasibleProper
  <2> QED BY <2>1 DEF Accepted
<1>4. CASE d = cddfalse
  <2>1. D = {}
    BY <1>1, <1>3, <1>4, DenotesIs
  <2> QED BY <1>3, <1>4, <2>1 DEF cdd_predt, LostTo
<1>5. CASE d # cddfalse /\ e = cddtrue
  <2>1. E = Feasible
    <3>1. \A v \in Feasible : Leaf(e, v) = 1
      BY <1>5, FeasibleProper, TerminalLeaf
    <3> QED BY <1>1, <3>1, DenotesIs
  <2>2. LostTo(T, E) = {}
    BY <2>1, TrailSeen, TrailIs DEF LostTo
  <2> QED BY <1>3, <1>5, <2>2 DEF cdd_predt
<1>6. CASE d # cddfalse /\ e # cddtrue
  <2> DEFINE parts == IF cdd_isBDD(d) THEN <<[dbm |-> dbm_init, BDD_part |-> d]>> ELSE Split(d)
             n == Len(parts)
             cs == [k \in DOMAIN parts |-> cdd_predt_dbm(parts[k].dbm, parts[k].BDD_part, e)]
  <2>1. r = UnionOver(cs)
    BY <1>6 DEF cdd_predt
  <2>2. PartsOf(parts, T)
    <3>1. CASE cdd_isBDD(d)
      <4> DEFINE p == [dbm |-> dbm_init, BDD_part |-> d]
                 A == PartRecords
      <4>1. Closed(dbm_init) /\ dbm_init \subseteq Feasible /\ dbm_init \in SUBSET Proper
        BY InitClosed, FeasibleProper
      <4>2. dbm_init # {}
        BY SomeInit
      <4>3. \E v \in dbm_init : Leaf(d, v) = 1
        BY <1>1, <1>6, <3>1, <4>1, <4>2, BddHolds, InitFree
      <4>4. p.dbm = dbm_init /\ p.BDD_part = d /\ p \in A
        BY <1>1, <4>1 DEF PartRecords
      <4>5. parts = <<p>>
        BY <3>1
      <4> HIDE DEF p, A, parts
      <4>6. Part(p)
        BY <3>1, <4>1, <4>3, <4>4 DEF Part, A
      <4>7. parts \in Seq(A) /\ Len(parts) = 1 /\ DOMAIN parts = 1..1 /\ parts[1] = p
        BY <4>4, <4>5
      <4>8. \A v \in Feasible : v \in T <=> Within(p, v)
        BY <1>1, <4>4, DenotesIs DEF Within
      <4>9. \A k : k \in 1..1 <=> k = 1
        OBVIOUS
      <4> QED BY <4>6, <4>7, <4>8, <4>9 DEF PartsOf, A
    <3>2. CASE ~cdd_isBDD(d)
      <4>1. D \subseteq dbm_init /\ (D = {} => d = cddfalse) /\ Lean(d, Feasible)
        BY <1>1, <3>2, ReduceLean DEF Usable, Ready
      <4>2. CddLevels # {}
        BY <3>2 DEF cdd_isBDD, IsCdd
      <4>3. Rounds \in Nat /\ Cardinality(D) <= Rounds
        BY <1>1, RoundsAreEnough
      <4>4. PartsOf(Split(d), D)
        BY <1>1, <4>1, <4>2, <4>3, SplitIs DEF Split
      <4>5. T = D
        BY <4>1
      <4> QED BY <3>2, <4>4, <4>5
    <3> QED BY <3>1, <3>2
  <2> HIDE DEF parts, r, T
  <2>3. /\ n \in Nat /\ DOMAIN parts = 1..n /\ \A k \in 1..n : Part(parts[k])
        /\ \A v \in Feasible : v \in T <=> \E k \in 1..n : Within(parts[k], v)
    BY <2>2 DEF PartsOf
  <2> HIDE DEF n
  <2>4. ASSUME NEW k \in 1..n
        PROVE  cs[k] \in Cdds /\ \A v \in Feasible : Leaf(cs[k], v) = 1 <=> Lost(parts[k], E, v)
    <3> DEFINE p == parts[k]
    <3>1. cs[k] = cdd_predt_dbm(p.dbm, p.BDD_part, e) /\ Part(p)
      BY <2>3
    <3> HIDE DEF p, cs
    <3>2. cs[k] \in Cdds /\ \A v \in Feasible : Leaf(cs[k], v) = 1 <=> Lost(p, E, v)
      BY <3>1, PredtDbmIs
    <3> QED BY <3>2 DEF p
  <2>5. cs \in [1..n -> Cdds]
    BY <2>3, <2>4
  <2> HIDE DEF cs
  <2>6. r \in Cdds /\ \A v \in Proper : Leaf(r, v) = 1 <=> \E k \in 1..n : Leaf(cs[k], v) = 1
    BY <2>1, <2>3, <2>5, UnionOf
  <2>7. ASSUME NEW v \in Feasible PROVE Leaf(r, v) = 1 <=> v \in LostTo(T, E)
    <3>1. Leaf(r, v) = 1 <=> \E k \in 1..n : Lost(parts[k], E, v)
      BY <2>4, <2>6, FeasibleProper
    <3>2. v \in LostTo(T, E) <=> \E t \in Trails : t.from = v /\ t.to \in T /\ t.seen \cap E = {}
      BY DEF LostTo
    <3>3. \A t \in Trails : t.to \in T <=> \E k \in 1..n : Within(parts[k], t.to)
      BY <2>3, TrailIs
    <3> QED BY <3>1, <3>2, <3>3 DEF Lost
  <2>8. Accepted(r, Feasible) = LostTo(T, E)
    <3>1. \A v \in Feasible : Holds(r, v) <=> v \in LostTo(T, E)
      BY <1>2, <2>6, <2>7
    <3> QED BY <3>1 DEF Accepted, LostTo
  <2> QED BY <2>8 DEF r, T
<1> QED BY <1>4, <1>5, <1>6

-----------------------------------------------------------------------------
(* The theorems.                                                           *)

\* The first diagrams a client holds denote their sets.
LEMMA InitDenotes == Init => IInv
<1> SUFFICES ASSUME Init PROVE IInv
  OBVIOUS
<1>1. /\ cddtrue \in Cdds /\ cddfalse \in Cdds
      /\ \A v \in Feasible : Leaf(cddtrue, v) = 1 /\ Leaf(cddfalse, v) = 0
  BY Terminals, TerminalLeaf, FeasibleProper
<1>2. Denotes(cddtrue, Feasible) /\ Denotes(cddfalse, {})
  BY <1>1 DEF Denotes
<1> QED BY <1>2 DEF Init, IInv

\* A step that replaces f by a diagram that denotes its new set keeps the invariant.
LEMMA BecomeDenotes ==
    ASSUME IInv, NEW d, NEW D, Denotes(d, D), Become(d, D)
    PROVE  IInv'
<1>1. f' = d /\ F' = D /\ g' = g /\ G' = G /\ Denotes(g, G)
  BY DEF Become, IInv
<1> QED BY <1>1 DEF IInv, Denotes

\* Every call of a client keeps the invariant.
LEMMA NextDenotes == IInv /\ [Next]_vars => IInv'
<1> SUFFICES ASSUME IInv, [Next]_vars PROVE IInv'
  OBVIOUS
<1>0. Denotes(f, F) /\ Denotes(g, G) /\ \A o \in Operands : Denotes(o.dd, o.set)
  BY OperandIs DEF IInv
<1>1. CASE Keep
  <2>1. f' = f /\ F' = F /\ g' = f /\ G' = F
    BY <1>1 DEF Keep
  <2> QED BY <1>0, <2>1 DEF IInv, Denotes
<1>2. CASE Negate
  BY <1>0, <1>2, NegDenotes, BecomeDenotes DEF Negate
<1>3. CASE ApplyAnd
  BY <1>0, <1>3, AndDenotes, BecomeDenotes DEF ApplyAnd
<1>4. CASE ApplyXor
  BY <1>0, <1>4, XorDenotes, BecomeDenotes DEF ApplyXor
<1>5. CASE ApplyOr
  BY <1>0, <1>5, OrDenotes, BecomeDenotes DEF ApplyOr
<1>6. CASE Ite
  BY <1>0, <1>6, IteDenotes, BecomeDenotes DEF Ite
<1>7. CASE AndReduce
  <2>1. PICK o \in Operands, cached \in Caches : Become(cdd_apply_reduce(f, o.dd, "and", cached), F \cap o.set)
    BY <1>7 DEF AndReduce
  <2>2. Denotes(cdd_apply_reduce(f, o.dd, "and", cached), Combined("and", F, o.set))
    BY <1>0, OpDenotes DEF Ops
  <2>3. Denotes(cdd_apply_reduce(f, o.dd, "and", cached), F \cap o.set)
    BY <2>2 DEF Combined
  <2> QED BY <2>1, <2>3, BecomeDenotes
<1>8. CASE XorReduce
  <2>1. PICK o \in Operands, cached \in Caches : Become(cdd_apply_reduce(f, o.dd, "xor", cached), SymDiff(F, o.set))
    BY <1>8 DEF XorReduce
  <2>2. Denotes(cdd_apply_reduce(f, o.dd, "xor", cached), Combined("xor", F, o.set))
    BY <1>0, OpDenotes DEF Ops
  <2>3. Denotes(cdd_apply_reduce(f, o.dd, "xor", cached), SymDiff(F, o.set))
    BY <2>2 DEF Combined
  <2> QED BY <2>1, <2>3, BecomeDenotes
<1>9. CASE Reduce
  BY <1>0, <1>9, ReduceDenotes, BecomeDenotes DEF Reduce
<1>10. CASE RemoveNegative
  BY <1>0, <1>10, RemoveNegativeDenotes, BecomeDenotes DEF RemoveNegative
<1>11. CASE Extract
  <2> DEFINE d == cdd_reduce(f)
  <2>1. d # cddfalse /\ Zone(d) # {} /\ Become(cdd_extract_dbm(d), F \ Zone(d))
    BY <1>11 DEF Extract
  <2>2. Denotes(d, F)
    BY <1>0, ReduceDenotes
  <2> HIDE DEF d
  <2>3. Denotes(cdd_extract_dbm(d), F \ Zone(d))
    BY <2>1, <2>2, ZoneIs
  <2> QED BY <2>1, <2>3, BecomeDenotes
<1>12. CASE Reduce2
  BY <1>0, <1>12, Reduce2Denotes, BecomeDenotes DEF Reduce2
<1>13. CASE Replace
  BY <1>0, <1>13, ReplaceDenotes, BecomeDenotes DEF Replace
<1>14. CASE UNCHANGED vars
  <2>1. f' = f /\ F' = F /\ g' = g /\ G' = G
    BY <1>14 DEF vars
  <2> QED BY <1>0, <2>1 DEF IInv, Denotes
<1> QED BY <1>1, <1>2, <1>3, <1>4, <1>5, <1>6, <1>7, <1>8, <1>9, <1>10, <1>11, <1>12, <1>13, <1>14 DEF Next

\* Both diagrams are diagrams of the sets they are to denote, always.
THEOREM Denote == Spec => []IInv
<1>1. Init => IInv
  BY InitDenotes
<1>2. IInv /\ [Next]_vars => IInv'
  BY NextDenotes
<1> QED BY <1>1, <1>2, PTL DEF Spec

\* Whatever sequence of calls made a diagram, what it says of every clock valuation is what the
\* Boolean operations on sets say: constructors, cdd_apply, cdd_ite, cdd_remove_negative,
\* cdd_reduce, cdd_apply_reduce, cdd_reduce2, cdd_replace and the extraction of zones.
THEOREM Soundness == Spec => []Sound
<1>1. IInv => Sound
  BY DenotesIs DEF IInv, Sound
<1> QED BY <1>1, Denote, PTL

\* Every diagram the constructors and operations make is in normal form: levels increase along
\* paths, bounds increase strictly up to INF, neighbouring children differ and the first edge
\* is regular.
THEOREM Normality == Spec => []Normal
<1>1. IInv => Normal
  BY DenotesIs, CddsNormal DEF IInv, Normal
<1> QED BY <1>1, Denote, PTL

\* Diagrams that agree on every vector are the same: where nodes have no duplicates, the
\* constant-time equality of pointers is exact up to infeasible vectors.
THEOREM Canonicity == Spec => []Canonical
<1>1. IInv => Canonical
  <2> SUFFICES ASSUME IInv, Accepted(f, Vectors) = Accepted(g, Vectors) PROVE f = g
    BY DEF Canonical
  <2>1. f \in Cdds /\ g \in Cdds
    BY DEF IInv, Denotes
  <2>2. ASSUME NEW v \in Vectors PROVE Leaf(f, v) = Leaf(g, v)
    <3>1. Holds(f, v) <=> Holds(g, v)
      BY DEF Accepted
    <3>2. v \in Proper
      BY VectorsProper
    <3> QED BY <2>1, <3>1, <3>2, LeafBelow
  <2> QED BY <2>1, <2>2, CanonicalDiagrams DEF Agree
<1> QED BY <1>1, Denote, PTL

\* What the comment of cdd_reduce promises: a reduced diagram is true or false when its set is
\* full or empty.
THEOREM SemiCanonicity == Spec => []SemiCanonical
<1>1. IInv => SemiCanonical
  BY ReduceDenotes DEF IInv, SemiCanonical
<1> QED BY <1>1, Denote, PTL

\* cdd_apply_reduce reduces while it applies: its result is a terminal when its set is empty or
\* full, whichever levels the cache of cdd_apply holds.
THEOREM ApplyReduceCanonicity == Spec => []ApplyReduceCanonical
<1>1. IInv => ApplyReduceCanonical
  <2> SUFFICES ASSUME IInv, NEW o \in Operands, NEW cached \in Caches
               PROVE  /\ F \cap o.set = Feasible <=> cdd_apply_reduce(f, o.dd, "and", cached) = cddtrue
                      /\ F \cap o.set = {} <=> cdd_apply_reduce(f, o.dd, "and", cached) = cddfalse
    BY DEF ApplyReduceCanonical
  <2>1. Denotes(f, F) /\ Denotes(o.dd, o.set)
    BY OperandIs DEF IInv
  <2>2. /\ Combined("and", F, o.set) = Feasible <=> cdd_apply_reduce(f, o.dd, "and", cached) = cddtrue
        /\ Combined("and", F, o.set) = {} <=> cdd_apply_reduce(f, o.dd, "and", cached) = cddfalse
    <3>1. "and" \in Ops
      BY DEF Ops
    <3> DEFINE d == o.dd
               D == o.set
    <3>2. Denotes(d, D)
      BY <2>1
    <3> HIDE DEF d, D
    <3>3. /\ Combined("and", F, D) = Feasible <=> cdd_apply_reduce(f, d, "and", cached) = cddtrue
          /\ Combined("and", F, D) = {} <=> cdd_apply_reduce(f, d, "and", cached) = cddfalse
      BY <2>1, <3>1, <3>2, OpDenotes
    <3> QED BY <3>3 DEF d, D
  <2> QED BY <2>2 DEF Combined
<1> QED BY <1>1, Denote, PTL

\* cdd_equiv answers true exactly for diagrams of the same set of clock valuations.
THEOREM EquivExactness == Spec => []EquivExact
<1>1. IInv => EquivExact
  <2> SUFFICES ASSUME IInv, NEW o \in Operands PROVE cdd_equiv(f, o.dd) <=> F = o.set
    BY DEF EquivExact
  <2>1. Denotes(f, F) /\ Denotes(o.dd, o.set)
    BY OperandIs DEF IInv
  <2> QED BY <2>1, EquivIs
<1> QED BY <1>1, Denote, PTL

\* cdd_extract_dbm and cdd_extract_bdd split off a zone and its Boolean part: what is extracted
\* and what is left have together the valuations of the diagram.
THEOREM ExtractExactness == Spec => []ExtractExact
<1>1. IInv => ExtractExact
  <2> SUFFICES ASSUME IInv, cdd_reduce(f) # cddfalse
               PROVE  Accepted(cdd_extract_bdd(cdd_reduce(f)), Zone(cdd_reduce(f))) = F \cap Zone(cdd_reduce(f))
    BY DEF ExtractExact
  <2>1. Denotes(cdd_reduce(f), F)
    BY ReduceDenotes DEF IInv
  <2> QED BY <2>1, ZoneIs
<1> QED BY <1>1, Denote, PTL

\* cdd_contains answers exactly whether a zone is part of a diagram without Booleans.
THEOREM ContainsExactness == ASSUME BddLevels = {} PROVE Spec => []ContainsExact
<1>1. IInv => ContainsExact
  <2> SUFFICES ASSUME IInv, NEW Z \in Zones PROVE cdd_contains(f, Z) <=> Z \subseteq F
    BY DEF ContainsExact
  <2>1. Z # {} /\ Z \subseteq Feasible
    BY DEF Zones, IntervalSet
  <2>2. f \in Cdds /\ \A v \in Feasible : v \in F <=> Leaf(f, v) = 1
    BY DenotesIs DEF IInv
  <2>3. Z \in SUBSET Proper
    BY <2>1, FeasibleProper
  <2>4. cdd_contains(f, Z) <=> AllIn(f, Z)
    BY <2>1, <2>2, <2>3, ContainsIs
  <2> QED BY <2>1, <2>2, <2>4 DEF AllIn
<1> QED BY <1>1, Denote, PTL

\* Every call of a client with delays and pasts keeps the invariant.
LEMMA NextDelaysDenotes == IInv /\ [NextDelays]_vars => IInv'
<1> SUFFICES ASSUME IInv, [NextDelays]_vars PROVE IInv'
  OBVIOUS
<1>0. Denotes(f, F) /\ Denotes(g, G)
  BY DEF IInv
<1>1. CASE [Next]_vars
  BY <1>1, NextDenotes
<1>2. CASE Delay
  <2> DEFINE D == IF cdd_isBDD(f) THEN F ELSE DelayOf(F)
  <2>1. Timely /\ Ready(f, F)
    BY <1>2, TimedAssumption DEF Delay
  <2>2. Denotes(cdd_delay(f), D)
    BY <1>0, <2>1, DelayIs
  <2>3. CASE Become(cdd_delay(f), D)
    BY <2>2, <2>3, BecomeDenotes
  <2>4. CASE \E o \in Made : Become(cdd_delay_invariant(f, o.dd), D \cap o.set)
    <3>1. PICK o \in Made : Become(cdd_delay_invariant(f, o.dd), D \cap o.set)
      BY <2>4
    <3> HIDE DEF D
    <3>2. Denotes(o.dd, o.set)
      BY MadeIs
    <3>3. Denotes(cdd_delay_invariant(f, o.dd), D \cap o.set)
      BY <2>2, <3>2, AndDenotes DEF cdd_delay_invariant
    <3> QED BY <3>1, <3>3, BecomeDenotes
  <2> QED BY <1>2, <2>3, <2>4 DEF Delay
<1>3. CASE Past
  <2>1. Timely /\ Ready(f, F)
    BY <1>3, TimedAssumption DEF Past
  <2>2. Denotes(cdd_past(f), IF cdd_isBDD(f) THEN F ELSE PastOf(F))
    BY <1>0, <2>1, PastIs
  <2> QED BY <1>3, <2>2, BecomeDenotes DEF Past
<1> QED BY <1>1, <1>2, <1>3 DEF NextDelays

\* Both diagrams are diagrams of the sets they are to denote, also when the client lets time pass.
THEOREM DelayDenote == SpecDelays => []IInv
<1>1. Init => IInv
  BY InitDenotes
<1>2. IInv /\ [NextDelays]_vars => IInv'
  BY NextDelaysDenotes
<1> QED BY <1>1, <1>2, PTL DEF SpecDelays

\* cdd_delay, cdd_delay_invariant and cdd_past take a diagram apart into zones, move the zones and
\* put them together again: the result is the set of the clock valuations that a delay reaches, or
\* from which a delay reaches the diagram, and the loops end before they have run out of vectors.
THEOREM DelaySoundness == SpecDelays => []Sound
<1>1. IInv => Sound
  BY DenotesIs DEF IInv, Sound
<1> QED BY <1>1, DelayDenote, PTL

\* cdd_predt returns exactly the valuations that can delay into the target without meeting the safe
\* part, under every valuation of the Booleans by itself: its loops over the parts of the target,
\* over the valuations of the Booleans and over the safe zones leave none out and add none.
THEOREM PredtExactness == ASSUME Timely PROVE SpecDelays => []PredtExact
<1>1. IInv => PredtExact
  <2> SUFFICES ASSUME IInv, Ready(f, F), cdd_reduce(f) = f, Ready(g, G), cdd_reduce(g) = g
               PROVE  Accepted(cdd_predt(f, g), Feasible) = LostTo(F \cap dbm_init, G)
    BY DEF PredtExact
  <2>1. Usable(f, F) /\ Usable(g, G)
    BY DEF Usable, IInv
  <2> QED BY <2>1, PredtIs
<1> QED BY <1>1, DelayDenote, PTL
=============================================================================
