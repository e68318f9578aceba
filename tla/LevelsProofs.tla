---------------------------- MODULE LevelsProofs ----------------------------
(***************************************************************************)
(* The variable order is exact for any number of clocks, Booleans, calls and *)
(* node sizes.  The first part is about the numbering of clock differences,  *)
(* the second about the declarations.                                       *)
(***************************************************************************)
EXTENDS Levels, NatFacts, SequenceTheorems

-----------------------------------------------------------------------------
(* The numbering of differences.                                           *)

\* Twice the number of differences of n clocks, without the division.
LEMMA CountDoubled == ASSUME NEW n \in Nat PROVE 2 * cdd_difference_count(n) = n * (n - 1)
<1>1. PICK m \in Nat : n = 2 * m \/ n = 2 * m + 1
  <2>1. n \div 2 \in Nat /\ (n = 2 * (n \div 2) \/ n = 2 * (n \div 2) + 1)
    OBVIOUS
  <2> QED BY <2>1
<1>2. CASE n = 2 * m
  <2>1. n * (n - 1) = 2 * (m * (2 * m - 1))
    BY <1>2
  <2>2. m * (2 * m - 1) \in Int
    OBVIOUS
  <2> QED BY <2>1, <2>2 DEF cdd_difference_count
<1>3. CASE n = 2 * m + 1
  <2>1. n * (n - 1) = 2 * (m * (2 * m + 1))
    BY <1>3
  <2>2. m * (2 * m + 1) \in Int
    OBVIOUS
  <2> QED BY <2>1, <2>2 DEF cdd_difference_count
<1> QED BY <1>1, <1>2, <1>3

\* The number of differences of n clocks is a natural number.
LEMMA CountNat == ASSUME NEW n \in Nat PROVE cdd_difference_count(n) \in Nat
<1>1. n * (n - 1) \in Nat
  <2>1. CASE n = 0
    BY <2>1
  <2>2. CASE n > 0
    BY <2>2
  <2> QED BY <2>1, <2>2
<1> QED BY <1>1 DEF cdd_difference_count

\* Clocks added later have larger difference numbers than all differences of the
\* earlier ones.
LEMMA CountGrows == ASSUME NEW c \in Nat, NEW d \in Nat, c < d PROVE cdd_difference_count(c) + c <= cdd_difference_count(d)
<1>1. PICK k \in Nat : d = c + 1 + k
  BY d - c - 1 \in Nat
<1>2. d * (d - 1) = (c + 1) * c + k * (2 * c + 1 + k)
  BY <1>1
<1>3. k * (2 * c + 1 + k) >= 0
  BY <1>1
<1>4. (c + 1) * c = c * (c - 1) + 2 * c
  OBVIOUS
<1>5. 2 * cdd_difference_count(c) = c * (c - 1) /\ 2 * cdd_difference_count(d) = d * (d - 1)
  BY CountDoubled
<1>6. cdd_difference_count(c) \in Nat /\ cdd_difference_count(d) \in Nat
  BY CountNat
<1>7. 2 * cdd_difference_count(c) + 2 * c <= 2 * cdd_difference_count(d)
  BY <1>2, <1>3, <1>4, <1>5
<1> QED BY <1>6, <1>7

\* Different differences have different numbers.
LEMMA NumbersDiffer ==
    ASSUME NEW c \in Nat, NEW d \in 0..(c - 1), NEW e \in Nat, NEW f \in 0..(e - 1),
           cdd_difference_count(c) + d = cdd_difference_count(e) + f
    PROVE  c = e /\ d = f
<1>1. cdd_difference_count(c) \in Nat /\ cdd_difference_count(e) \in Nat
  BY CountNat
<1>2. c < e => cdd_difference_count(c) + c <= cdd_difference_count(e)
  BY CountGrows
<1>3. e < c => cdd_difference_count(e) + e <= cdd_difference_count(c)
  BY CountGrows
<1> QED BY <1>1, <1>2, <1>3

\* Every number below the count is the number of a difference.
LEMMA NumbersCovered ==
    ASSUME NEW n \in Nat, NEW k \in 0..(cdd_difference_count(n) - 1)
    PROVE  \E c \in 0..n : \E d \in 0..(c - 1) : k = cdd_difference_count(c) + d
<1> DEFINE T == {c \in Nat : k < cdd_difference_count(c)}
<1>1. n \in T /\ T \in SUBSET Nat
  BY CountNat
<1>2. PICK m \in T : \A y \in T : m <= y
  <2> HIDE DEF T
  <2> QED BY <1>1, LeastElement
<1>3. m \in Nat /\ k < cdd_difference_count(m) /\ m <= n
  BY <1>1, <1>2
<1>4. m # 0 /\ m # 1
  BY <1>3 DEF cdd_difference_count
<1>5. m - 1 \in Nat /\ cdd_difference_count(m - 1) <= k
  <2>1. m - 1 \in Nat /\ m - 1 \notin T
    BY <1>2, <1>3, <1>4
  <2>2. cdd_difference_count(m - 1) \in Nat
    BY <2>1, CountNat
  <2> QED BY <2>1, <2>2
<1>6. cdd_difference_count(m) = cdd_difference_count(m - 1) + (m - 1)
  <2>1. m * (m - 1) = (m - 1) * ((m - 1) - 1) + 2 * (m - 1)
    BY <1>3
  <2>2. 2 * cdd_difference_count(m) = m * (m - 1)
    BY <1>3, CountDoubled
  <2>3. 2 * cdd_difference_count(m - 1) = (m - 1) * ((m - 1) - 1)
    BY <1>5, CountDoubled
  <2>4. cdd_difference_count(m) \in Nat /\ cdd_difference_count(m - 1) \in Nat
    BY <1>3, <1>5, CountNat
  <2>5. 2 * cdd_difference_count(m) = 2 * cdd_difference_count(m - 1) + 2 * (m - 1)
    BY <2>1, <2>2, <2>3
  <2> QED BY <1>3, <2>4, <2>5
<1>7. cdd_difference_count(m - 1) \in Nat
  BY <1>5, CountNat
<1>8. /\ m - 1 \in 0..n
      /\ k - cdd_difference_count(m - 1) \in 0..((m - 1) - 1)
      /\ k = cdd_difference_count(m - 1) + (k - cdd_difference_count(m - 1))
  BY <1>3, <1>5, <1>6, <1>7
<1> QED BY <1>8

\* The k-th difference is the one with number k.
LEMMA DifferencesInOrder ==
    ASSUME NEW n \in Nat, NEW k \in 0..(cdd_difference_count(n) - 1)
    PROVE  LET p == Differences(n)[k]
           IN  /\ p \in (0..n) \X (0..n) /\ p[2] < p[1]
               /\ k = cdd_difference_count(p[1]) + p[2]
<1>1. PICK c \in 0..n : \E d \in 0..(c - 1) : k = cdd_difference_count(c) + d
  BY NumbersCovered
<1>2. PICK d \in 0..(c - 1) : k = cdd_difference_count(c) + d
  BY <1>1
<1>3. \E p \in (0..n) \X (0..n) : p[2] < p[1] /\ k = cdd_difference_count(p[1]) + p[2]
  <2>1. <<c, d>> \in (0..n) \X (0..n) /\ <<c, d>>[2] < <<c, d>>[1]
    OBVIOUS
  <2> QED BY <1>2, <2>1
<1> QED BY <1>3 DEF Differences

-----------------------------------------------------------------------------
(* The declarations.                                                       *)

\* Appending keeps the levels there are and puts the new ones behind them.
LEMMA AppendKeeps ==
    ASSUME NEW s \in Seq(LevelInfo), NEW t \in Seq(LevelInfo)
    PROVE  /\ s \o t \in Seq(LevelInfo) /\ Len(s \o t) = Len(s) + Len(t)
           /\ Len(s) \in Nat /\ Len(t) \in Nat
           /\ \A l \in 0..(Len(s) - 1) : (s \o t)[l + 1] = s[l + 1]
           /\ \A k \in 1..Len(t) : (s \o t)[Len(s) + k] = t[k]
<1>1. Len(s) \in Nat /\ Len(t) \in Nat
  OBVIOUS
<1> QED BY <1>1, ConcatProperties

\* A function on 1..k is a sequence of length k.
LEMMA FunctionAsSeq ==
    ASSUME NEW S, NEW k \in Nat, NEW f \in [1..k -> S]
    PROVE  f \in Seq(S) /\ Len(f) = k
<1>1. f \in Seq(S)
  BY SeqDef
<1>2. DOMAIN f = 1..Len(f) /\ Len(f) \in Nat
  BY <1>1, LenProperties
<1> QED BY <1>1, <1>2

\* The library that has not been started has an empty order, which satisfies it.
LEMMA Initially == Init => IInv
<1> SUFFICES ASSUME Init PROVE IInv
  OBVIOUS
<1>1. TypeOK
  <2>1. running \in BOOLEAN
    BY Zenon DEF Init
  <2>2. levelinfo \in Seq(LevelInfo) /\ clocknum \in Nat /\ varnum \in Nat /\ bdd_start_level \in Nat
    BY DEF Init
  <2>3. slots \in [Man -> Nat \cup {-1}]
    BY DEF Init
  <2> QED BY <2>1, <2>2, <2>3 DEF TypeOK
<1>2. levelcnt = 0 /\ cdd_difference_count(0) = 0
  BY DEF Init, levelcnt, cdd_difference_count
<1>3. Counted /\ InverseExact
  BY <1>2 DEF Init, Counted, InverseExact
<1>4. Slotted
  BY DEF Init, Slotted
<1> QED BY <1>1, <1>3, <1>4 DEF IInv

\* Growing by n levels keeps the arrays of subtables right.
LEMMA GrowSlots ==
    ASSUME TypeOK, Slotted, NEW n \in Nat, slots' = add_levels(n), levelcnt' = levelcnt + n, levelcnt \in Nat
    PROVE  slots' \in [Man -> Nat \cup {-1}] /\ Slotted'
<1>1. slots' = [m \in Man |-> IF slots[m] >= 0 /\ m < maxcddsize THEN levelcnt + n ELSE slots[m]]
  BY DEF add_levels
<1>2. slots' \in [Man -> Nat \cup {-1}]
  BY <1>1 DEF TypeOK
<1>3. ASSUME NEW m \in Man \ {maxcddsize} PROVE slots'[m] \in {-1, levelcnt'}
  <2>1. m \in Int /\ m < maxcddsize
    BY LevelsAssumption DEF Man
  <2>2. slots[m] \in {-1, levelcnt}
    BY DEF Slotted
  <2>3. slots'[m] = IF slots[m] >= 0 /\ m < maxcddsize THEN levelcnt + n ELSE slots[m]
    BY <1>1
  <2> QED BY <2>1, <2>2, <2>3
<1> QED BY <1>2, <1>3 DEF Slotted

\* cdd_add_clocks: the new differences get the levels behind the last one, in the
\* order of their numbers.
LEMMA AddClocks ==
    ASSUME IInv, NEW n \in Nat, cdd_add_clocks(n)
    PROVE  IInv' /\ levelcnt' >= levelcnt /\ \A l \in LevelSet : levelinfo'[l + 1] = Info(l)
<1> DEFINE old   == cdd_difference_count(clocknum)
           diffs == cdd_difference_count(clocknum + n) - old
           pair  == Differences(clocknum + n)
           new   == [k \in old..(old + diffs - 1) |-> levelcnt + k - old]
           cell  == [k \in DOMAIN new |-> cdd_difference(pair[k][1], pair[k][2])]
           infos == [k \in 1..diffs |-> CddInfo(pair[old + k - 1][1], pair[old + k - 1][2])]
<1>1. /\ TypeOK /\ Counted /\ InverseExact /\ Slotted
      /\ slots' = add_levels(diffs)
      /\ levelinfo' = levelinfo \o infos
      /\ diff2level' = [d \in DOMAIN diff2level \cup {cell[k] : k \in DOMAIN cell} |->
                            IF \E k \in DOMAIN cell : cell[k] = d
                            THEN new[CHOOSE k \in DOMAIN cell : cell[k] = d]
                            ELSE diff2level[d]]
      /\ clocknum' = clocknum + n
      /\ UNCHANGED <<running, varnum, bdd_start_level>>
  BY DEF IInv, cdd_add_clocks, Appended
<1>2. clocknum \in Nat /\ clocknum + n \in Nat /\ levelinfo \in Seq(LevelInfo)
  BY <1>1 DEF TypeOK
<1>3. old \in Nat /\ diffs \in Nat /\ old + diffs = cdd_difference_count(clocknum + n)
  <2>1. old \in Nat /\ cdd_difference_count(clocknum + n) \in Nat
    BY <1>2, CountNat
  <2>2. CASE n = 0
    BY <1>2, <2>1, <2>2
  <2>3. CASE n > 0
    <3>1. clocknum < clocknum + n
      BY <1>2, <2>3
    <3>2. old + clocknum <= cdd_difference_count(clocknum + n)
      BY <1>2, <3>1, CountGrows
    <3> QED BY <1>2, <2>1, <3>2
  <2> QED BY <2>1, <2>2, <2>3
<1>4. ASSUME NEW k \in old..(old + diffs - 1)
      PROVE  /\ pair[k] \in (0..(clocknum + n)) \X (0..(clocknum + n)) /\ pair[k][2] < pair[k][1]
             /\ k = cdd_difference_count(pair[k][1]) + pair[k][2]
             /\ k \in DOMAIN cell /\ cell[k] = k
  <2>1. k \in 0..(cdd_difference_count(clocknum + n) - 1)
    BY <1>3
  <2>2. /\ pair[k] \in (0..(clocknum + n)) \X (0..(clocknum + n)) /\ pair[k][2] < pair[k][1]
        /\ k = cdd_difference_count(pair[k][1]) + pair[k][2]
    BY <1>2, <2>1, DifferencesInOrder
  <2>3. k \in DOMAIN cell /\ cell[k] = cdd_difference_count(pair[k][1]) + pair[k][2]
    BY DEF cdd_difference
  <2> QED BY <2>2, <2>3
<1>5. DOMAIN cell = old..(old + diffs - 1)
  OBVIOUS
<1>6. infos \in Seq(LevelInfo) /\ Len(infos) = diffs
  <2>1. ASSUME NEW k \in 1..diffs PROVE infos[k] \in LevelInfo
    <3>1. old + k - 1 \in old..(old + diffs - 1)
      BY <1>3
    <3>2. pair[old + k - 1][1] \in Nat /\ pair[old + k - 1][2] \in Nat
      BY <1>2, <1>4, <3>1
    <3> QED BY <3>2 DEF LevelInfo, CddInfo
  <2>2. infos \in [1..diffs -> LevelInfo]
    BY <2>1
  <2> HIDE DEF infos, diffs
  <2> QED BY <1>3, <2>2, FunctionAsSeq
<1> HIDE DEF pair, infos, cell, new, diffs
<1>7. /\ levelinfo' \in Seq(LevelInfo) /\ levelcnt' = levelcnt + diffs /\ levelcnt \in Nat
      /\ \A l \in LevelSet : levelinfo'[l + 1] = levelinfo[l + 1]
      /\ \A k \in 1..diffs : levelinfo'[levelcnt + k] = infos[k]
  BY <1>1, <1>2, <1>6, AppendKeeps DEF levelcnt, LevelSet
<1>8. slots' \in [Man -> Nat \cup {-1}] /\ Slotted'
  BY <1>1, <1>3, <1>7, GrowSlots
<1>9. TypeOK'
  BY <1>1, <1>2, <1>7, <1>8 DEF TypeOK
<1>10. Counted'
  <2>1. levelcnt = old + varnum /\ varnum \in Nat
    BY <1>1 DEF Counted, TypeOK
  <2> QED BY <1>1, <1>3, <1>7, <2>1 DEF Counted
<1>11. InverseExact'
  <2> SUFFICES ASSUME NEW i \in 0..(clocknum' - 1), NEW j \in 0..(i - 1) PROVE LeadsTo(i, j)'
    BY Zenon DEF InverseExact
  <2> DEFINE d == cdd_difference_count(i) + j
  <2>0. i \in Nat /\ j \in Nat /\ j < i /\ i < clocknum + n
    BY <1>1, <1>2
  <2>1. cdd_difference_count(i) \in Nat /\ d \in Nat
    BY <2>0, CountNat
  <2>2. CASE i < clocknum
    <3>1. LeadsTo(i, j)
      <4>1. i \in 0..(clocknum - 1)
        BY <1>2, <2>0, <2>2
      <4> QED BY <1>1, <4>1, Zenon DEF InverseExact
    <3>2. d < old
      <4>1. cdd_difference_count(i) + i <= old
        BY <1>2, <2>0, <2>1, <2>2, CountGrows
      <4> QED BY <1>3, <2>0, <2>1, <4>1
    <3>3. ~ \E k \in DOMAIN cell : cell[k] = d
      BY <1>3, <1>4, <1>5, <2>0, <2>1, <3>2
    <3>4. d \in DOMAIN diff2level /\ diff2level[d] \in LevelSet /\ Info(diff2level[d]) = CddInfo(i, j)
      BY <3>1 DEF LeadsTo, cdd_difference
    <3>5. d \in DOMAIN diff2level' /\ diff2level'[d] = diff2level[d]
      BY <1>1, <3>3, <3>4
    <3>6. diff2level[d] \in LevelSet' /\ levelinfo'[diff2level[d] + 1] = CddInfo(i, j)
      BY <1>3, <1>7, <3>4 DEF LevelSet, Info
    <3> QED BY <3>5, <3>6 DEF LeadsTo, cdd_difference, Info, LevelSet, CddInfo
  <2>3. CASE i >= clocknum
    <3>1. d \in old..(old + diffs - 1)
      <4>1. old <= cdd_difference_count(i)
        <5>1. CASE i = clocknum
          BY <1>3, <5>1
        <5>2. CASE clocknum < i
          <6>1. old + clocknum <= cdd_difference_count(i)
            BY <1>2, <2>0, <2>1, <5>2, CountGrows
          <6> QED BY <1>2, <1>3, <2>0, <2>1, <6>1
        <5> QED BY <1>2, <2>0, <2>1, <2>3, <5>1, <5>2
      <4>2. cdd_difference_count(i) + i <= cdd_difference_count(clocknum + n)
        BY <1>2, <2>0, CountGrows
      <4> QED BY <1>3, <2>0, <2>1, <4>1, <4>2
    <3>2. d \in DOMAIN cell /\ cell[d] = d
      BY <1>4, <3>1
    <3>3. (CHOOSE k \in DOMAIN cell : cell[k] = d) = d
      <4>1. \A k \in DOMAIN cell : cell[k] = d => k = d
        BY <1>4, <1>5
      <4> QED BY <3>2, <4>1
    <3>4. d \in DOMAIN diff2level' /\ diff2level'[d] = new[d]
      BY <1>1, <3>2, <3>3
    <3>5. new[d] = levelcnt + d - old
      BY <3>1 DEF new
    <3>6. pair[d] = <<i, j>>
      <4>1. /\ pair[d] \in (0..(clocknum + n)) \X (0..(clocknum + n)) /\ pair[d][2] < pair[d][1]
            /\ cdd_difference_count(i) + j = cdd_difference_count(pair[d][1]) + pair[d][2]
        BY <1>4, <3>1
      <4>2. pair[d][1] \in Nat /\ pair[d][2] \in 0..(pair[d][1] - 1)
        BY <1>2, <4>1
      <4>3. i = pair[d][1] /\ j = pair[d][2]
        BY <2>0, <2>1, <4>1, <4>2, NumbersDiffer
      <4> QED BY <4>1, <4>3
    <3>7. levelinfo'[new[d] + 1] = CddInfo(i, j)
      <4>1. d - old + 1 \in 1..diffs /\ new[d] + 1 = levelcnt + (d - old + 1)
        BY <1>3, <1>7, <3>1, <3>5
      <4>2. levelinfo'[new[d] + 1] = infos[d - old + 1]
        BY <1>7, <4>1
      <4>3. old + (d - old + 1) - 1 = d
        BY <1>3, <2>0, <2>1
      <4>4. infos[d - old + 1] = CddInfo(pair[d][1], pair[d][2])
        BY <4>1, <4>3 DEF infos
      <4> QED BY <3>6, <4>2, <4>4
    <3>8. new[d] \in LevelSet'
      BY <1>3, <1>7, <3>1, <3>5 DEF LevelSet
    <3> QED BY <3>4, <3>7, <3>8 DEF LeadsTo, cdd_difference, Info, LevelSet, CddInfo
  <2> QED BY <1>2, <2>0, <2>1, <2>2, <2>3
<1> QED BY <1>3, <1>7, <1>8, <1>9, <1>10, <1>11 DEF IInv, Info

\* What a step does to the order: nothing, levels appended, or a fresh start.
LEMMA Step ==
    ASSUME IInv, [Next]_vars
    PROVE  /\ IInv'
           /\ running /\ running' => \A l \in LevelSet :
                  l + 1 <= Len(levelinfo') /\ levelinfo'[l + 1] = Info(l)
<1>0. TypeOK /\ Counted /\ InverseExact /\ Slotted /\ Len(levelinfo) \in Nat
  BY DEF IInv, TypeOK
<1>1. CASE cdd_init
  <2>1. /\ ~running /\ running' = TRUE /\ levelinfo' = <<>> /\ clocknum' = 0 /\ varnum' = 0
        /\ diff2level' = <<>> /\ slots' = [m \in Man |-> IF m = 0 THEN 0 ELSE -1]
        /\ bdd_start_level' = bdd_start_level
    BY <1>1 DEF cdd_init, Empty
  <2>2. levelcnt' = 0 /\ cdd_difference_count(0) = 0
    BY <2>1 DEF levelcnt, cdd_difference_count
  <2>3. TypeOK'
    <3>1. running' \in BOOLEAN
      BY <2>1, Zenon
    <3>2. /\ levelinfo' \in Seq(LevelInfo) /\ clocknum' \in Nat /\ varnum' \in Nat
          /\ bdd_start_level' \in Nat
      BY <1>0, <2>1 DEF TypeOK
    <3>3. slots' \in [Man -> Nat \cup {-1}]
      BY <2>1
    <3> QED BY <3>1, <3>2, <3>3 DEF TypeOK
  <2>4. Counted' /\ InverseExact'
    BY <2>1, <2>2 DEF Counted, InverseExact
  <2>5. Slotted'
    BY <2>1, <2>2 DEF Slotted
  <2> QED BY <2>1, <2>3, <2>4, <2>5 DEF IInv
<1>2. CASE cdd_done
  <2>1. /\ running' = FALSE
        /\ UNCHANGED <<levelinfo, clocknum, varnum, diff2level, bdd_start_level, slots>>
    BY <1>2 DEF cdd_done
  <2>2. TypeOK'
    <3>1. running' \in BOOLEAN
      BY <2>1, Zenon
    <3> QED BY <1>0, <2>1, <3>1 DEF TypeOK
  <2>3. Counted' /\ InverseExact' /\ Slotted'
    BY <1>0, <2>1 DEF Counted, InverseExact, Slotted, LeadsTo, levelcnt, LevelSet, Info
  <2> QED BY <2>1, <2>2, <2>3 DEF IInv
<1>3. ASSUME NEW n \in 1..MaxAdd, cdd_add_clocks(n)
      PROVE  IInv' /\ \A l \in LevelSet : l + 1 <= Len(levelinfo') /\ levelinfo'[l + 1] = Info(l)
  <2>1. n \in Nat
    BY LevelsAssumption
  <2>2. /\ IInv' /\ Len(levelinfo') >= Len(levelinfo)
        /\ \A l \in LevelSet : levelinfo'[l + 1] = Info(l)
    BY <1>3, <2>1, AddClocks DEF levelcnt
  <2>3. Len(levelinfo') \in Nat
    BY <2>2 DEF IInv, TypeOK
  <2> QED BY <1>0, <2>2, <2>3 DEF LevelSet, levelcnt
<1>4. ASSUME NEW n \in 1..MaxAdd, cdd_add_bddvar(n)
      PROVE  IInv' /\ \A l \in LevelSet : l + 1 <= Len(levelinfo') /\ levelinfo'[l + 1] = Info(l)
  <2> DEFINE infos == [k \in 1..n |-> BddInfo]
  <2>1. /\ slots' = add_levels(n) /\ levelinfo' = levelinfo \o infos /\ varnum' = varnum + n
        /\ bdd_start_level' = levelcnt /\ UNCHANGED <<running, clocknum, diff2level>>
    BY <1>4 DEF cdd_add_bddvar, Appended
  <2>2. n \in Nat
    BY LevelsAssumption
  <2>3. infos \in Seq(LevelInfo) /\ Len(infos) = n
    <3>1. infos \in [1..n -> LevelInfo]
      BY DEF LevelInfo
    <3> HIDE DEF infos
    <3> QED BY <2>2, <3>1, FunctionAsSeq
  <2> HIDE DEF infos
  <2>4. /\ levelinfo' \in Seq(LevelInfo) /\ levelcnt' = levelcnt + n /\ levelcnt \in Nat
        /\ \A l \in LevelSet : levelinfo'[l + 1] = levelinfo[l + 1]
    BY <1>0, <2>1, <2>3, AppendKeeps DEF levelcnt, LevelSet, TypeOK
  <2>5. slots' \in [Man -> Nat \cup {-1}] /\ Slotted'
    BY <1>0, <2>1, <2>2, <2>4, GrowSlots
  <2>6. TypeOK'
    BY <1>0, <2>1, <2>2, <2>4, <2>5 DEF TypeOK
  <2>7. Counted'
    <3>1. cdd_difference_count(clocknum) \in Nat /\ varnum \in Nat
      BY <1>0, CountNat DEF TypeOK
    <3> QED BY <1>0, <2>1, <2>2, <2>4, <3>1 DEF Counted
  <2>8. InverseExact'
    <3>1. ASSUME NEW i \in 0..(clocknum - 1), NEW j \in 0..(i - 1) PROVE LeadsTo(i, j)'
      <4>1. LeadsTo(i, j)
        BY <1>0, Zenon DEF InverseExact
      <4> DEFINE d == cdd_difference_count(i) + j
      <4>2. d \in DOMAIN diff2level /\ diff2level[d] \in LevelSet /\ Info(diff2level[d]) = CddInfo(i, j)
        BY <4>1 DEF LeadsTo, cdd_difference
      <4>3. diff2level[d] \in LevelSet' /\ levelinfo'[diff2level[d] + 1] = CddInfo(i, j)
        BY <2>2, <2>4, <4>2 DEF LevelSet, Info
      <4>4. diff2level' = diff2level
        BY <2>1
      <4> QED BY <4>2, <4>3, <4>4 DEF LeadsTo, cdd_difference, Info, LevelSet, CddInfo
    <3>2. clocknum' = clocknum
      BY <2>1
    <3> QED BY <3>1, <3>2, Zenon DEF InverseExact
  <2>9. IInv'
    BY <2>5, <2>6, <2>7, <2>8 DEF IInv
  <2> QED BY <2>2, <2>4, <2>9 DEF LevelSet, levelcnt, Info
<1>5. ASSUME NEW len \in 2..maxcddsize, NewManager(len)
      PROVE  IInv' /\ levelinfo' = levelinfo
  <2>1. /\ slots' = [slots EXCEPT ![len] = levelcnt]
        /\ UNCHANGED <<running, levelinfo, clocknum, varnum, diff2level, bdd_start_level>>
    BY <1>5 DEF NewManager
  <2>2. levelcnt' = levelcnt /\ levelcnt \in Nat /\ len \in Man
    BY <1>0, <2>1 DEF levelcnt, Man
  <2>3. slots' \in [Man -> Nat \cup {-1}]
    BY <1>0, <2>1, <2>2 DEF TypeOK
  <2>4. TypeOK'
    BY <1>0, <2>1, <2>3 DEF TypeOK
  <2>5. Slotted'
    BY <1>0, <2>1, <2>2 DEF Slotted, TypeOK
  <2>6. Counted' /\ InverseExact'
    BY <1>0, <2>1 DEF Counted, InverseExact, LeadsTo, levelcnt, LevelSet, Info
  <2> QED BY <2>1, <2>4, <2>5, <2>6 DEF IInv
<1>6. CASE UNCHANGED vars
  <2>1. /\ UNCHANGED <<running, levelinfo, clocknum, varnum, diff2level, bdd_start_level, slots>>
    BY <1>6 DEF vars
  <2>2. TypeOK'
    BY <1>0, <2>1 DEF TypeOK
  <2>3. Counted' /\ InverseExact' /\ Slotted'
    BY <1>0, <2>1 DEF Counted, InverseExact, Slotted, LeadsTo, levelcnt, LevelSet, Info
  <2> QED BY <1>0, <2>1, <2>2, <2>3 DEF IInv, LevelSet, levelcnt, Info
<1>7. ASSUME levelinfo' = levelinfo, NEW l \in LevelSet
      PROVE  l + 1 <= Len(levelinfo') /\ levelinfo'[l + 1] = Info(l)
  BY <1>0, <1>7 DEF LevelSet, levelcnt, Info
<1>8. cdd_init => ~running
  BY DEF cdd_init
<1>9. cdd_done => ~running'
  BY DEF cdd_done
<1>10. UNCHANGED vars => levelinfo' = levelinfo
  BY DEF vars
<1> QED BY <1>1, <1>2, <1>3, <1>4, <1>5, <1>6, <1>7, <1>8, <1>9, <1>10, Zenon DEF Next

-----------------------------------------------------------------------------
\* IInv is an invariant of the declarations: the order is counted right, the map
\* from differences is its inverse, the arrays of subtables fit, also while the
\* library is stopped (cdd_add_clocks, cdd_add_bddvar, add_levels).
THEOREM OrderInvariant == Spec => []IInv
<1>1. IInv /\ [Next]_vars => IInv'
  BY Step
<1> QED BY Initially, <1>1, PTL DEF Spec

\* cdd_diff2level leads from every clock difference to the level that describes it,
\* after any number of declarations of clocks and Booleans in any order.
THEOREM OrderIsExact == Spec => []OrderExact
<1>1. IInv => OrderExact
  BY DEF IInv, OrderExact, Counted, InverseExact
<1> QED BY OrderInvariant, <1>1, PTL

\* man->subtables[level] is inside the array of every manager below the largest
\* node size, whenever the managers were created (kernel.c:1025-1043).
THEOREM SlotsFit == Spec => []SlotsBelowMax
<1>1. IInv => SlotsBelowMax
  BY DEF IInv, SlotsBelowMax, Slotted
<1> QED BY OrderInvariant, <1>1, PTL

\* A declared level keeps its meaning until the library is stopped: cdd_levelinfo
\* only grows.
THEOREM LevelsNeverChange == Spec => LevelsStable
<1>1. IInv /\ [Next]_vars =>
        [running /\ running' => \A l \in LevelSet :
            l + 1 <= Len(levelinfo') /\ levelinfo'[l + 1] = Info(l)]_vars
  BY Step
<1> QED BY OrderInvariant, <1>1, PTL DEF Spec, LevelsStable
=============================================================================
