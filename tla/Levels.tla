------------------------------- MODULE Levels -------------------------------
(***************************************************************************)
(* The variable order and the life cycle of the library (src/src/kernel.c): *)
(* cdd_init and cdd_done, the declaration of clocks and Booleans, which    *)
(* appends levels, and the arrays of subtables in the node managers, which *)
(* have to grow with the order.  Managers are created when the first node  *)
(* of their size is made.                                                  *)
(***************************************************************************)
EXTENDS Integers, Sequences

CONSTANTS
    maxcddsize,  \* cdd_maxcddsize, the first argument of cdd_init
    MaxLevels,   \* bound: no variable is declared beyond this many levels
    MaxAdd       \* bound: variables declared by one call

ASSUME LevelsAssumption ==
    maxcddsize \in Nat \ {0, 1} /\ MaxLevels \in Nat /\ MaxAdd \in Nat

VARIABLES
    running,          \* cdd_running
    levelinfo,        \* cdd_levelinfo, level l at position l + 1
    clocknum,         \* cdd_clocknum
    varnum,           \* cdd_varnum
    diff2level,       \* cdd_diff2level
    bdd_start_level,
    slots             \* length of the subtable array of a manager, -1 without one
vars == <<running, levelinfo, clocknum, varnum, diff2level, bdd_start_level, slots>>

\* Managers by node size; bddmanager is 0, cddmanager[n] is n.
Man == {0} \cup 2..maxcddsize
levelcnt == Len(levelinfo)
LevelSet == 0..(levelcnt - 1)
Info(l)  == levelinfo[l + 1]
BddInfo  == [type |-> "bdd"]
CddInfo(i, j) == [type |-> "cdd", clock1 |-> i, clock2 |-> j]

\* Definitions whose name ends in _M are faulty variants of the definition they
\* precede, kept to show that the properties notice the fault.

cdd_difference_count(n) == (n * (n - 1)) \div 2
cdd_difference_M(c, d) == cdd_difference_count(d) + c \* the clocks are exchanged
cdd_difference(c, d) == cdd_difference_count(c) + d

-----------------------------------------------------------------------------
Empty ==
    /\ levelinfo' = <<>> /\ clocknum' = 0 /\ varnum' = 0 /\ diff2level' = <<>>
    /\ slots' = [m \in Man |-> IF m = 0 THEN 0 ELSE -1]

\* bdd_start_level keeps its value over cdd_done and cdd_init.
cdd_init ==
    /\ ~running /\ running' = TRUE
    /\ Empty /\ UNCHANGED bdd_start_level

cdd_done ==
    /\ running /\ running' = FALSE
    /\ UNCHANGED <<levelinfo, clocknum, varnum, diff2level, bdd_start_level, slots>>

\* The arrays of all managers grow, except that of the largest nodes.
add_levels_M(n) == [slots EXCEPT ![0] = levelcnt + n] \* only that of bddmanager
add_levels(n) == [m \in Man |-> IF slots[m] >= 0 /\ m < maxcddsize THEN levelcnt + n ELSE slots[m]]

\* New levels are put below the existing ones.
Appended_M(infos) == infos \o levelinfo \* written from the start of the array
Appended(infos) == levelinfo \o infos

\* The differences of clocks 0 .. n-1 in the order in which they become levels.
Differences(n) == [k \in 0..(cdd_difference_count(n) - 1) |->
    CHOOSE p \in (0..n) \X (0..n) : p[2] < p[1] /\ k = cdd_difference_count(p[1]) + p[2]]

cdd_add_clocks(n) ==
    LET old   == cdd_difference_count(clocknum)
        diffs == cdd_difference_count(clocknum + n) - old
        pair  == Differences(clocknum + n)
        \* The level of the k-th new difference, and the cell its number selects.
        new   == [k \in old..(old + diffs - 1) |-> levelcnt + k - old]
        cell  == [k \in DOMAIN new |-> cdd_difference(pair[k][1], pair[k][2])]
    IN  /\ running /\ levelcnt + diffs <= MaxLevels
        /\ slots' = add_levels(diffs)
        /\ levelinfo' = Appended([k \in 1..diffs |->
                            CddInfo(pair[old + k - 1][1], pair[old + k - 1][2])])
        /\ diff2level' = [d \in DOMAIN diff2level \cup {cell[k] : k \in DOMAIN cell} |->
                            IF \E k \in DOMAIN cell : cell[k] = d
                            THEN new[CHOOSE k \in DOMAIN cell : cell[k] = d]
                            ELSE diff2level[d]]
        /\ clocknum' = clocknum + n
        /\ UNCHANGED <<running, varnum, bdd_start_level>>

cdd_add_bddvar(n) ==
    /\ running /\ levelcnt + n <= MaxLevels
    /\ slots' = add_levels(n)
    /\ levelinfo' = Appended([k \in 1..n |-> BddInfo])
    /\ varnum' = varnum + n
    /\ bdd_start_level' = levelcnt
    /\ UNCHANGED <<running, clocknum, diff2level>>

\* The first node of a size creates its manager (cdd_make_cdd_node).
NewManager(len) ==
    /\ running /\ slots[len] = -1
    /\ \E l \in LevelSet : Info(l).type = "cdd"
    /\ slots' = [slots EXCEPT ![len] = levelcnt]
    /\ UNCHANGED <<running, levelinfo, clocknum, varnum, diff2level, bdd_start_level>>

Init ==
    /\ running = FALSE /\ levelinfo = <<>> /\ clocknum = 0 /\ varnum = 0
    /\ diff2level = <<>> /\ bdd_start_level = 0
    /\ slots = [m \in Man |-> -1]

Next ==
    \/ cdd_init \/ cdd_done
    \/ \E n \in 1..MaxAdd : cdd_add_clocks(n) \/ cdd_add_bddvar(n)
    \/ \E len \in 2..maxcddsize : NewManager(len)
Spec == Init /\ [][Next]_vars

-----------------------------------------------------------------------------
(* Properties.                                                             *)

\* The cell of a difference holds the level that describes it.
LeadsTo(i, j) == /\ cdd_difference(i, j) \in DOMAIN diff2level
                 /\ diff2level[cdd_difference(i, j)] \in LevelSet
                 /\ Info(diff2level[cdd_difference(i, j)]) = CddInfo(i, j)

\* The order and the two ways into it agree: whatever the declarations were and
\* however they alternated, cdd_diff2level leads from every clock difference to
\* the level that describes it (kernel.c:884-897 rely on it), and the levels are
\* those of the differences and of the Booleans.
OrderExact == running =>
    /\ \A i \in 0..(clocknum - 1) : \A j \in 0..(i - 1) : LeadsTo(i, j)
    /\ levelcnt = cdd_difference_count(clocknum) + varnum

\* A level never changes its meaning while the library runs: nodes made before a
\* declaration keep theirs.
LevelsStable == [][running /\ running' => \A l \in LevelSet :
                      l + 1 <= Len(levelinfo') /\ levelinfo'[l + 1] = Info(l)]_vars

\* Every manager below the largest node size has a slot for every level, so that
\* man->subtables[level] (kernel.c:631, 717) is inside its array, however the
\* creation of managers and the declaration of variables interleave.
SlotsBelowMax == running => \A m \in Man \ {maxcddsize} : slots[m] \in {-1, levelcnt}

\* The inductive invariant of the proofs in module LevelsProofs: all of this holds
\* of a stopped library too, whose variables keep their values.
LevelInfo == {BddInfo} \cup [type : {"cdd"}, clock1 : Nat, clock2 : Nat]
TypeOK == /\ running \in BOOLEAN /\ levelinfo \in Seq(LevelInfo)
          /\ clocknum \in Nat /\ varnum \in Nat /\ bdd_start_level \in Nat
          /\ slots \in [Man -> Nat \cup {-1}]
Counted == levelcnt = cdd_difference_count(clocknum) + varnum
InverseExact == \A i \in 0..(clocknum - 1) : \A j \in 0..(i - 1) : LeadsTo(i, j)
Slotted == \A m \in Man \ {maxcddsize} : slots[m] \in {-1, levelcnt}
IInv == TypeOK /\ Counted /\ InverseExact /\ Slotted

\* add_levels "Updates node managers to handle n additional levels"
\* (kernel.c:1025): all of them.
SlotsForAll == running => \A m \in Man : slots[m] \in {-1, levelcnt}
=============================================================================
