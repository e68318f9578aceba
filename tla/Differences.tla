----------------------------- MODULE Differences -----------------------------
(***************************************************************************)
(* Clocks, levels, raw bounds and what they mean.  A clock valuation gives  *)
(* every clock difference a value; a vector gives every level a value (a    *)
(* difference in units of 1/Unit, or 0/1 for a Boolean).  Some vectors are  *)
(* induced by no clock valuation: the infeasible paths that cdd_reduce      *)
(* removes from a diagram.                                                  *)
(***************************************************************************)
EXTENDS Integers, FiniteSets, FiniteSetsExt

CONSTANTS
    ClockNum,   \* cdd_clocknum: clocks 0 .. ClockNum-1, clock 0 is always zero
    Info,       \* cdd_levelinfo: for every level a type and, for "cdd", clock1 > clock2
    INF,        \* the infinite bound, larger than every finite one
    MAXLEVEL,   \* level of the terminal, larger than every level
    Unit,       \* grid points per time unit: enough to separate fractional parts
    Span,       \* the grid values a clock may take (bound)
    RawBnd      \* the finite bounds used at each CDD level (bound)

Clocks == 0..(ClockNum - 1)
Levels == DOMAIN Info
CddLevels == {l \in Levels : Info[l].type = "cdd"}
BddLevels == Levels \ CddLevels
IsCdd(l) == l \in CddLevels

ASSUME DifferencesAssumption ==
    /\ ClockNum \in Nat \ {0} /\ MAXLEVEL \in Nat /\ Levels \subseteq 0..(MAXLEVEL - 1) /\ INF \in Nat
    /\ \A l \in CddLevels : Info[l].clock1 \in Clocks /\ Info[l].clock2 \in 0..(Info[l].clock1 - 1)
    \* Every difference has a level of its own (cdd_add_clocks).
    /\ \A i \in Clocks : \A j \in 0..(i - 1) :
        \E l \in CddLevels : \A k \in CddLevels : Info[k].clock1 = i /\ Info[k].clock2 = j <=> k = l

\* cdd_diff2level[cdd_difference(i, j)] for i > j.
DiffLevel(i, j) == CHOOSE l \in CddLevels : Info[l].clock1 = i /\ Info[l].clock2 = j

-----------------------------------------------------------------------------
(* Raw bounds: 2 * limit, plus 1 for a weak upper or a strict lower bound. *)

Limit(b) == b \div 2
Flip(b)  == -2 * Limit(b) + (1 - (b % 2))
bnd_l2u(b) == IF b = -INF THEN INF ELSE Flip(b)
bnd_u2l(b) == IF b = INF THEN -INF ELSE Flip(b)
\* The sum is weak when both bounds are.
bnd_add(a, b) == IF a = INF \/ b = INF THEN INF
                 ELSE 2 * (Limit(a) + Limit(b)) + (IF a % 2 = 1 /\ b % 2 = 1 THEN 1 ELSE 0)

-----------------------------------------------------------------------------
(* The meaning of bounds and levels, for reference.                        *)

\* Difference d satisfies the upper bound b, the lower bound b.
Below(d, b) == b = INF \/ d < Unit * Limit(b) \/ (d = Unit * Limit(b) /\ b % 2 = 1)
Above(d, b) == b = -INF \/ ~Below(d, b)

\* A valuation of the levels, feasible or not.
Vals == [Levels -> Int]
ValSets == SUBSET Vals

\* One difference per cell between the bounds of a level stands for the cell.
CellOf(l, d) == {b \in RawBnd[l] : Below(d, b)}
Diffs == {x - y : x \in Span, y \in Span}

\* The grid has no holes and a point in every cell.  A bound and the one that Flip
\* makes of it are finite.  Zero is a bound where cdd_remove_negative needs it.
ASSUME GridAssumption ==
    /\ Unit \in Nat \ {0} /\ Span \subseteq Int /\ 0 \in Span
    /\ \A x, y \in Span : x..y \subseteq Span
    /\ \A l \in CddLevels : RawBnd[l] \subseteq (2 - INF)..(INF - 1)
    /\ \A l \in CddLevels : Info[l].clock2 = 0 => 0 \in RawBnd[l]
    /\ \A l \in CddLevels : \A a \in RawBnd[l] :
        /\ \E d \in Diffs : Below(d, a)
        /\ \A b \in RawBnd[l] \cup {INF} : a < b => \E d \in Diffs : Above(d, a) /\ Below(d, b)
CellReps(l) == IF ~IsCdd(l) THEN {0, 1}
               ELSE {CHOOSE d \in Diffs : CellOf(l, d) = c : c \in {CellOf(l, d) : d \in Diffs}}

Vectors == {v \in [Levels -> UNION {CellReps(l) : l \in Levels}] :
                \A l \in Levels : v[l] \in CellReps(l)}
\* Clock valuations on the grid; clock 0 is zero.
Points == {[c \in Clocks |-> IF c = 0 THEN 0 ELSE p[c]] : p \in [1..(ClockNum - 1) -> Span]}
\* The vector of a clock valuation p and a Boolean valuation b.
RepOf(l, d) == CHOOSE e \in CellReps(l) : CellOf(l, e) = CellOf(l, d)
VectorOf(p, b) == [l \in Levels |-> IF IsCdd(l) THEN RepOf(l, p[Info[l].clock1] - p[Info[l].clock2])
                                               ELSE b[l]]
\* The vectors that some clock valuation induces.
Feasible == {VectorOf(p, b) : p \in Points, b \in [BddLevels -> {0, 1}]}
\* The difference of two clocks in a vector.
Diff(v, i, j) == IF i > j THEN v[DiffLevel(i, j)] ELSE -v[DiffLevel(j, i)]
=============================================================================
