----------------------------- MODULE DiagramOps -----------------------------
(***************************************************************************)
(* A client of the operators.  It works on a diagram f, combining it with   *)
(* constraints it makes and with g, a copy it kept of an earlier f.  F and  *)
(* G are the sets of feasible vectors that f and g are to denote, computed  *)
(* with plain set operations.                                               *)
(***************************************************************************)
EXTENDS Diagrams

CONSTANTS
    Retain,      \* cardinalities of the sets of which the client keeps a copy (bound)
    Caches,      \* which levels may have their subproblems cached (bound)
    LevelMap,    \* arguments of cdd_replace: what Boolean levels are replaced by,
    ClockMap     \* and clocks

\* The bounds of a difference are, seen from the clocks that replace its own, among
\* the bounds of their difference.  Clock 0 stays what it is.
ASSUME ClientAssumption ==
    /\ Caches \subseteq SUBSET Nat
    /\ LevelMap \in [BddLevels -> BddLevels]
    /\ ClockMap \in [Clocks -> Clocks] /\ ClockMap[0] = 0
    /\ \A l \in CddLevels :
        LET i == ClockMap[Info[l].clock1]
            j == ClockMap[Info[l].clock2]
        IN  \/ i > j /\ RawBnd[l] \subseteq RawBnd[DiffLevel(i, j)]
            \/ i < j /\ {Flip(b) : b \in RawBnd[l]} \subseteq RawBnd[DiffLevel(j, i)]

VARIABLES f, g, F, G
vars == <<f, g, F, G>>

-----------------------------------------------------------------------------
(* Reference meaning.                                                      *)

\* The edge that v takes, and the terminal at the end of its path: 0 or 1.
EdgeOf(d, v) == LET l == LevelOf(d)
                IN  IF IsCdd(l) THEN Min({i \in 1..Arity(d) : Below(v[l], Upper(d, i))}) ELSE v[l] + 1
LeafAt[h \in Nat] == IF h = 0 THEN <<>> ELSE
    [t \in ddNode \X Vals |->
        IF IsTerminal(t[1]) THEN t[1].neg ELSE LeafAt[h - 1][<<Child(t[1], EdgeOf(t[1], t[2])), t[2]>>]]
Holds(d, v) == LeafAt[Depth][<<d, v>>] = 1
Accepted(d, V) == {v \in V : Holds(d, v)}

\* Arguments <<i, j, low, high>> of cdd_interval within the bounds of the
\* instance, in both orders of the clocks, never without any bound.
IntervalArgs == UNION {
    LET lows  == RawBnd[l] \cup {-INF}
        highs == RawBnd[l] \cup {INF}
        args  == {a \in lows \X highs : a[1] < a[2] /\ a # <<-INF, INF>>}
    IN  {<<Info[l].clock1, Info[l].clock2, a[1], a[2]>> : a \in args}
        \cup {<<Info[l].clock2, Info[l].clock1, bnd_u2l(a[2]), bnd_l2u(a[1])>> : a \in args}
    : l \in CddLevels}
IntervalSet(a) == {v \in Feasible : Above(Diff(v, a[1], a[2]), a[3]) /\ Below(Diff(v, a[1], a[2]), a[4])}


\* The feasible vector v seen through a renaming: level l has the value in it that
\* the replacement of l has in v.
Renamed == [v \in Feasible |-> CHOOSE w \in Feasible :
    /\ \A l \in CddLevels : CellOf(l, w[l]) =
            CellOf(l, Diff(v, ClockMap[Info[l].clock1], ClockMap[Info[l].clock2]))
    /\ \A l \in BddLevels : w[l] = v[LevelMap[l]]]

-----------------------------------------------------------------------------
\* The constraints a client can make, with their meaning.
Meaning(d, D) == [dd |-> d, set |-> D]
Made == {Meaning(cddtrue, Feasible)}
    \cup {Meaning(cdd_interval(a[1], a[2], a[3], a[4]), IntervalSet(a)) : a \in IntervalArgs}
    \cup {Meaning(cdd_upper(a[1], a[2], a[4]), IntervalSet(<<a[1], a[2], -INF, a[4]>>)) : a \in IntervalArgs}
    \cup {Meaning(cdd_bddvar(l), {v \in Feasible : v[l] = 1}) : l \in BddLevels}
Operands == Made \cup {Meaning(g, G)}

Become(d, D) == f' = d /\ F' = D /\ UNCHANGED <<g, G>>

Keep      == Cardinality(F) \in Retain /\ g' = f /\ G' = F /\ UNCHANGED <<f, F>>
Negate    == Become(Neg(f), Feasible \ F)
ApplyAnd  == \E o \in Operands : Become(And(f, o.dd), F \cap o.set)
ApplyXor  == \E o \in Operands : Become(Xor(f, o.dd), SymDiff(F, o.set))
ApplyOr   == \E o \in Operands : Become(Or(f, o.dd), F \cup o.set)
Ite       == \E o \in Operands : Become(cdd_ite(f, o.dd, g), (F \cap o.set) \cup (G \ F))
AndReduce == \E o \in Operands : \E cached \in Caches :
                 Become(cdd_apply_reduce(f, o.dd, "and", cached), F \cap o.set)
XorReduce == \E o \in Operands : \E cached \in Caches :
                 Become(cdd_apply_reduce(f, o.dd, "xor", cached), SymDiff(F, o.set))
Reduce    == Become(cdd_reduce(f), F)
Reduce2   == Become(cdd_reduce2(f), F)
Replace   == Become(cdd_replace(f, LevelMap, ClockMap), {v \in Feasible : Renamed[v] \in F})
RemoveNegative == Become(cdd_remove_negative(f),
                         {v \in F : \A i \in Clocks \ {0} : Diff(v, i, 0) >= 0})

\* A zone is taken out of the reduced diagram ("PRECONDITION: call CDD reduce
\* first", cdd.h:589) and the loop goes on with the rest, as in cdd_delay; the
\* assertion dbm_isValid requires that the zone is not empty.
Zone(d) == ExtractZone(d, dbm_init)
Extract   == LET d == cdd_reduce(f)
             IN  d # cddfalse /\ Zone(d) # {} /\ Become(cdd_extract_dbm(d), F \ Zone(d))

Init == f = cddtrue /\ F = Feasible /\ g = cddfalse /\ G = {}
Next == \/ Keep \/ Negate \/ ApplyAnd \/ ApplyXor \/ ApplyOr \/ Ite
        \/ AndReduce \/ XorReduce \/ Reduce \/ Reduce2 \/ Replace \/ RemoveNegative \/ Extract
Spec == Init /\ [][Next]_vars

-----------------------------------------------------------------------------
(* Properties.                                                             *)

\* Every operator computes the set it promises: along any sequence of calls the
\* diagram denotes the clock valuations the set operations give.
Sound == Accepted(f, Feasible) = F /\ Accepted(g, Feasible) = G

\* The shape hash-consing relies on: levels increase, a node has two or more
\* edges with increasing bounds ending at INF, neighbours differ, and the first
\* edge is regular (cdd.h:50-58, the definition of a reduced CDD).
NormalEdges(l, e) ==
    /\ Len(e) >= 2 /\ (~IsCdd(l) => Len(e) = 2)
    /\ e[1].child.neg = 0
    /\ \A k \in 1..(Len(e) - 1) : e[k].bnd < e[k + 1].bnd /\ e[k].child # e[k + 1].child
    /\ IsCdd(l) => e[Len(e)].bnd = INF
    /\ \A k \in DOMAIN e : LevelOf(e[k].child) > l
NormalAt[h \in Nat] == IF h = 0 THEN {} ELSE
    {d \in ddNode : IsTerminal(d) \/ ( /\ LevelOf(d) \in Levels
                                      /\ NormalEdges(LevelOf(d), d.node.elem)
                                      /\ \A k \in 1..Arity(d) : d.node.elem[k].child \in NormalAt[h - 1])}
NormalForms == NormalAt[Depth]
Normal == f \in NormalForms /\ g \in NormalForms

\* Two diagrams that agree on every vector of level values are the same: where
\* nodes have no duplicates, the constant-time equality of pointers is exact up to
\* infeasible vectors.
Canonical == Accepted(f, Vectors) = Accepted(g, Vectors) => f = g

\* cdd.h:517-527: in reduced form a tautology is cddtrue and an empty CDD is
\* cddfalse.
SemiCanonical == /\ F = Feasible <=> cdd_reduce(f) = cddtrue
                 /\ F = {} <=> cdd_reduce(f) = cddfalse

\* The same of cdd_apply_reduce, whichever levels the operator cache holds: an
\* unreduced result of cdd_apply that it finds there (cddop.c:1587-1594) does not show.
ApplyReduceCanonical == \A o \in Operands : \A cached \in Caches :
    LET d == cdd_apply_reduce(f, o.dd, "and", cached)
    IN  /\ F \cap o.set = Feasible <=> d = cddtrue
        /\ F \cap o.set = {} <=> d = cddfalse

\* cdd_equiv decides whether two diagrams denote the same clock valuations, also
\* when they differ on infeasible paths.
EquivExact == \A o \in Operands : cdd_equiv(f, o.dd) <=> F = o.set

\* cdd.h:569-575: "Returns true if dbm is included in the CDD".  The zones are
\* the intersections of two intervals.
Zones == {IntervalSet(a) \cap IntervalSet(b) : a \in IntervalArgs, b \in IntervalArgs} \ {{}}
ContainsExact == \A Z \in Zones : cdd_contains(f, Z) <=> Z \subseteq F

\* The same with the most generous reading of a diagram over Booleans: a zone that
\* is reported as included is included for some valuation of the Booleans.
SameBooleans(v, w) == \A l \in BddLevels : v[l] = w[l]
ContainsForSome == \A Z \in Zones : cdd_contains(f, Z) =>
    \E w \in Feasible : {v \in Z : SameBooleans(v, w)} \subseteq F

\* The zone and the BDD that cdd_extract_dbm and cdd_extract_bdd find, taken
\* together, are exactly what the diagram says about the zone: nothing is added
\* and nothing is lost when callers treat the pieces one by one (cdd_delay,
\* cdd_past, cdd_predt).
ExtractExact == LET d == cdd_reduce(f) IN
    d # cddfalse => Accepted(cdd_extract_bdd(d), Zone(d)) = F \cap Zone(d)
=============================================================================
