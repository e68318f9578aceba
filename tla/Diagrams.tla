------------------------------ MODULE Diagrams ------------------------------
(***************************************************************************)
(* The decision-diagram algorithms of src/src/cddop.c and the constructors *)
(* of src/src/kernel.c as operators on values.  A diagram is a pointer with *)
(* its negation bit: [neg |-> 0 or 1, node |-> ...]; a node is its level   *)
(* and its edges.  Equality of values stands for equality of pointers,     *)
(* which hash-consing provides (property Unique of module NodeTable).      *)
(*                                                                         *)
(* Left out, because the value of a result does not depend on them: the    *)
(* reference counts (module NodeTable), the operator caches (except in     *)
(* cdd_apply_reduce) and the swap of operands that improves their hit rate. *)
(*                                                                         *)
(* A recursive function of the code is a family of functions here, one for  *)
(* every number of nodes that a path may still have: the name ends in At.  *)
(* Levels increase along a path, so Depth nodes are enough.                *)
(***************************************************************************)
EXTENDS Differences, Sequences, SequencesExt, Functions, TLC

\* Definitions whose name ends in _M are faulty variants of the definition they
\* precede, kept to show that the properties notice the fault.

-----------------------------------------------------------------------------
(* Pointers and nodes.                                                     *)

Terminal == [level |-> MAXLEVEL, elem |-> <<>>]
cddfalse == [neg |-> 0, node |-> Terminal]
cddtrue  == [neg |-> 1, node |-> Terminal]

Elem(child, bnd) == [child |-> child, bnd |-> bnd]
\* All nodes, and all pointers, whose paths have at most Depth nodes.
Depth == MAXLEVEL + 1
NodesAt[h \in Nat] == IF h = 0 THEN {} ELSE
    [level : 0..MAXLEVEL, elem : Seq([child : [neg : {0, 1}, node : NodesAt[h - 1]], bnd : Int])]
ddNode == [neg : {0, 1}, node : NodesAt[Depth]]
EdgeLists == Seq([child : ddNode, bnd : Int])

IsTerminal(f) == f.node = Terminal
LevelOf(f)    == f.node.level
NegCond(f, mask) == [f EXCEPT !.neg = (@ + mask) % 2]
Neg(f)        == NegCond(f, 1)
Rglr(f)       == [f EXCEPT !.neg = 0]

\* Edges seen through the negation bit (cdd_iterator, bdd_low, bdd_high).  A BDD
\* node keeps its branches as two edges whose bounds have no meaning.
Child(f, k) == NegCond(f.node.elem[k].child, f.neg)
Upper(f, k) == f.node.elem[k].bnd
Lower(f, k) == IF k = 1 THEN -INF ELSE f.node.elem[k - 1].bnd
Arity(f)    == Len(f.node.elem)
Low(f)  == Child(f, 1)
High(f) == Child(f, 2)

MakeBdd_M(level, low, high) == \* the high edge keeps its own negation bit
    IF low = high THEN low
    ELSE [neg  |-> low.neg,
          node |-> [level |-> level, elem |-> <<Elem(Rglr(low), 0), Elem(high, 1)>>]]
MakeBdd(level, low, high) ==
    IF low = high THEN low
    ELSE [neg  |-> low.neg,
          node |-> [level |-> level,
                    elem  |-> <<Elem(Rglr(low), 0), Elem(NegCond(high, low.neg), 1)>>]]

MakeCdd_M(level, elem) == \* a node with one edge is kept
    [neg |-> 0, node |-> [level |-> level, elem |-> elem]]
MakeCdd(level, elem) ==
    IF Len(elem) = 1 THEN elem[1].child
    ELSE [neg |-> 0, node |-> [level |-> level, elem |-> elem]]

cdd_bddvar(level) == MakeBdd(level, cddfalse, cddtrue)

\* Not called with an interval that has no bound at all.
cdd_interval_from_level(level, low, high) ==
    IF low > -INF
    THEN MakeCdd(level, <<Elem(cddfalse, low), Elem(cddtrue, high)>>
                        \o (IF high < INF THEN <<Elem(cddfalse, INF)>> ELSE <<>>))
    ELSE Neg(MakeCdd(level, <<Elem(cddfalse, high), Elem(cddtrue, INF)>>))

cdd_upper_from_level(level, bnd) ==
    CASE bnd = INF -> cddtrue
      [] bnd = -INF -> cddfalse
      [] OTHER -> Neg(MakeCdd(level, <<Elem(cddfalse, bnd), Elem(cddtrue, INF)>>))

cdd_interval_M(i, j, low, high) == \* the bounds are not exchanged
    IF i > j THEN cdd_interval_from_level(DiffLevel(i, j), low, high)
             ELSE cdd_interval_from_level(DiffLevel(j, i), low, high)
cdd_interval(i, j, low, high) ==
    IF i > j THEN cdd_interval_from_level(DiffLevel(i, j), low, high)
             ELSE cdd_interval_from_level(DiffLevel(j, i), bnd_u2l(high), bnd_l2u(low))

cdd_upper(i, j, bnd) ==
    IF i > j THEN cdd_upper_from_level(DiffLevel(i, j), bnd)
             ELSE Neg(cdd_upper_from_level(DiffLevel(j, i), bnd_u2l(bnd)))

-----------------------------------------------------------------------------
(* cdd_apply.                                                              *)

\* The members of K that are at most n, in ascending order.
Ascending[n \in Nat] == IF n = 0 THEN [K \in SUBSET Nat |-> <<>>] ELSE
    [K \in SUBSET Nat |-> IF n \in K THEN Append(Ascending[n - 1][K], n) ELSE Ascending[n - 1][K]]
\* The last index of each run of equal children.
RunEnds(cs) == Ascending[Len(cs)][{k \in DOMAIN cs : k = Len(cs) \/ cs[k] # cs[k + 1]}]
\* One edge per run of equal children, carrying the last bound of the run; the
\* first edge is stored regular and its negation bit moves to the result.
EdgesOfRuns_M(level, cs, bs, ks) == \* the negation bit stays on the first edge
    MakeCdd(level, [i \in DOMAIN ks |-> Elem(cs[ks[i]], bs[ks[i]])])
EdgesOfRuns(level, cs, bs, ks) ==
    NegCond(MakeCdd(level, [i \in DOMAIN ks |-> Elem(NegCond(cs[ks[i]], cs[1].neg), bs[ks[i]])]),
            cs[1].neg)
Pack_M(level, cs, bs) == \* a run keeps its first bound
    LET ends == RunEnds(cs)
    IN  EdgesOfRuns(level, cs, bs, [i \in DOMAIN ends |-> IF i = 1 THEN 1 ELSE ends[i - 1] + 1])
Pack(level, cs, bs) ==
    LET all == cs \o <<>> \* every child is worked out once
    IN  EdgesOfRuns(level, all, bs, RunEnds(all))

\* The edges of an operand at a level: its own, or one edge to all of it.
EdgesAt(f, level) == IF LevelOf(f) = level THEN f.node.elem ELSE <<Elem(Rglr(f), INF)>>
\* The two edge lists are merged in one pass: at every step the edges with the
\* smaller bound are left.  Each element names the edges it combines.
Merged(rec, es1, es2, i, j) ==
    LET b == Min({es1[i].bnd, es2[j].bnd})
    IN  <<[left |-> i, right |-> j, bnd |-> b]>>
        \o IF b = INF THEN <<>>
           ELSE rec[<<es1, es2, IF es1[i].bnd = b THEN i + 1 ELSE i, IF es2[j].bnd = b THEN j + 1 ELSE j>>]
MergeAt[n \in Nat] == IF n = 0 THEN <<>> ELSE
    [t \in EdgeLists \X EdgeLists \X Nat \X Nat |-> Merged(MergeAt[n - 1], t[1], t[2], t[3], t[4])]
Merge(es1, es2) == MergeAt[Len(es1) + Len(es2)][<<es1, es2, 1, 1>>]
Bounds(ms) == [k \in DOMAIN ms |-> ms[k].bnd]

\* Results that need no recursion, or "none".
Trivial(op, l, r) ==
    IF op = "and"
    THEN CASE l = r \/ r = cddtrue -> l
           [] l = cddfalse \/ r = cddfalse \/ l = Neg(r) -> cddfalse
           [] l = cddtrue -> r
           [] OTHER -> "none"
    ELSE CASE l = r -> cddfalse
           [] l = Neg(r) -> cddtrue
           [] l = cddfalse -> r
           [] r = cddfalse -> l
           [] l = cddtrue -> Neg(r)
           [] r = cddtrue -> Neg(l)
           [] OTHER -> "none"
IsTrivial(op, l, r) ==
    \/ l = r \/ l = Neg(r) \/ IsTerminal(l) \/ IsTerminal(r)

Applied(rec, op, l, r) ==
    LET level == Min({LevelOf(l), LevelOf(r)})
        le == EdgesAt(l, level)
        re == EdgesAt(r, level)
        ms == Merge(le, re)
        Both(i, j) == rec[<<op, NegCond(le[i].child, l.neg), NegCond(re[j].child, r.neg)>>]
        Branch(k)  == Both(Min({k, Len(le)}), Min({k, Len(re)}))
    IN  IF IsCdd(level)
        THEN Pack(level, [k \in DOMAIN ms |-> Both(ms[k].left, ms[k].right)], Bounds(ms))
        ELSE MakeBdd(level, Branch(1), Branch(2))
Ops == {"and", "xor"}
ApplyAt[h \in Nat] == IF h = 0 THEN <<>> ELSE
    [t \in Ops \X ddNode \X ddNode |->
        IF IsTrivial(t[1], t[2], t[3]) THEN Trivial(t[1], t[2], t[3])
        ELSE Applied(ApplyAt[h - 1], t[1], t[2], t[3])]
Apply(op, l, r) == ApplyAt[Depth][<<op, l, r>>]

And(l, r) == Apply("and", l, r)
Xor(l, r) == Apply("xor", l, r)
Or_M(l, r) == Neg(And(Neg(l), r)) \* one operand is not complemented
Or(l, r)  == Neg(And(Neg(l), Neg(r)))
cdd_ite(f, g, h) == Or(And(f, g), And(Neg(f), h))

\* The clocks up to i are not negative.
NonNegativeUpto[i \in Nat] == IF i = 0 THEN [f \in ddNode |-> f] ELSE
    [f \in ddNode |-> And(NonNegativeUpto[i - 1][f], cdd_interval(i, 0, 0, INF))]
cdd_remove_negative(f) == NonNegativeUpto[ClockNum - 1][f]

-----------------------------------------------------------------------------
(* cdd_reduce and cdd_apply_reduce.  The constraint graph they extend on   *)
(* the way down is the set P of feasible vectors that satisfy all pushed   *)
(* bounds; cdd_tarjan_consistent tells whether it is empty.                *)

PushUpper(P, l, b) == {v \in P : Below(v[l], b)}
PushLower(P, l, b) == {v \in P : Above(v[l], b)}
Consistent(P) == P # {}

\* Children that are visited.  From the left, the first with a consistent upper
\* bound (the last child if there is none); to the right, up to the first
\* inconsistent lower bound.  The lower bound of child k is bs[k - 1].
FirstChild(P, l, bs) ==
    Min({k \in DOMAIN bs : k = Len(bs) \/ Consistent(PushUpper(P, l, bs[k]))})
LastChild_M(P, l, bs, first) == \* one child too few when the last bound is consistent
    Max({first} \cup {k \in 2..(Len(bs) - 1) : Consistent(PushLower(P, l, bs[k - 1]))})
LastChild(P, l, bs, first) ==
    Max({first} \cup {k \in 2..Len(bs) : Consistent(PushLower(P, l, bs[k - 1]))})
Window(P, l, bs) == LET first == FirstChild(P, l, bs)
                        last  == LastChild(P, l, bs, first)
                    IN  [k \in 1..(last - first + 1) |-> first + k - 1]
\* The graph in which the k-th child of window w is reduced: the first child has
\* no lower bound to push.
Under(P, l, bs, w, k) ==
    PushUpper(IF k = 1 THEN P ELSE PushLower(P, l, bs[w[k] - 1]), l, bs[w[k]])
\* The results for the children of the window: the outermost intervals extend to
\* infinity.
PackWindow(l, bs, w, cs) ==
    Pack(l, cs, [k \in DOMAIN w |-> IF k = Len(w) THEN INF ELSE bs[w[k]]])

\* A node none of whose children changed is returned as it is, which is what
\* Pack makes of it.
Reduced(rec, f, P) ==
    LET l  == LevelOf(f)
        bs == [k \in 1..Arity(f) |-> Upper(f, k)]
        w  == Window(P, l, bs)
    IN  IF ~IsCdd(l) THEN MakeBdd(l, rec[<<Low(f), P>>], rec[<<High(f), P>>])
        ELSE IF w[1] = Arity(f) THEN rec[<<Child(f, w[1]), P>>]
        ELSE PackWindow(l, bs, w, [k \in DOMAIN w |-> rec[<<Child(f, w[k]), Under(P, l, bs, w, k)>>]])
TarjanReduceAt[h \in Nat] == IF h = 0 THEN <<>> ELSE
    [t \in ddNode \X ValSets |->
        IF IsTerminal(t[1]) THEN t[1] ELSE Reduced(TarjanReduceAt[h - 1], t[1], t[2])]
TarjanReduce(f, P) == TarjanReduceAt[Depth][<<f, P>>]
cdd_reduce(f) == TarjanReduce(f, Feasible)

CacheHit_M(op, f, g, P) == Apply(op, f, g) \* the cached result is not reduced
CacheHit(op, f, g, P) == TarjanReduce(Apply(op, f, g), P)

\* cdd_apply_reduce shares the cache of cdd_apply, whose results are not reduced:
\* a hit is reduced below the constraints P.  Which subproblems are in the cache
\* depends on earlier calls and collections: those at the levels in cached.
AppliedReduced(rec, op, f, g, P, cached) ==
    LET l  == Min({LevelOf(f), LevelOf(g)})
        fe == EdgesAt(f, l)
        ge == EdgesAt(g, l)
        ms == Merge(fe, ge)
        bs == Bounds(ms)
        w  == Window(P, l, bs)
        Both(i, j, Q) == rec[<<op, NegCond(fe[i].child, f.neg), NegCond(ge[j].child, g.neg), Q, cached>>]
        Branch(k)     == Both(Min({k, Len(fe)}), Min({k, Len(ge)}), P)
        Rec(k, Q)     == Both(ms[k].left, ms[k].right, Q)
    IN  IF ~IsCdd(l) THEN MakeBdd(l, Branch(1), Branch(2))
        ELSE IF w[1] = Len(bs) THEN Rec(w[1], P)
        ELSE PackWindow(l, bs, w, [k \in DOMAIN w |-> Rec(w[k], Under(P, l, bs, w, k))])
ApplyReduceAt[h \in Nat] == IF h = 0 THEN <<>> ELSE
    [t \in Ops \X ddNode \X ddNode \X ValSets \X (SUBSET Nat) |->
        IF IsTrivial(t[1], t[2], t[3]) THEN TarjanReduce(Trivial(t[1], t[2], t[3]), t[4])
        ELSE IF Min({LevelOf(t[2]), LevelOf(t[3])}) \in t[5] THEN CacheHit(t[1], t[2], t[3], t[4])
        ELSE AppliedReduced(ApplyReduceAt[h - 1], t[1], t[2], t[3], t[4], t[5])]
ApplyReduce(op, f, g, P, cached) == ApplyReduceAt[Depth][<<op, f, g, P, cached>>]
cdd_apply_reduce(f, g, op, cached) == ApplyReduce(op, f, g, Feasible, cached)

cdd_equiv(c, d) == cdd_reduce(Xor(c, d)) = cddfalse

-----------------------------------------------------------------------------
(* cdd_reduce2 and cdd_replace.                                            *)

\* The union of the first n diagrams of a list, added from left to right.
UnionUpto[n \in Nat] == IF n = 0 THEN [cs \in Seq(ddNode) |-> cddfalse] ELSE
    [cs \in Seq(ddNode) |-> Or(UnionUpto[n - 1][cs], cs[n])]
UnionOver(cs) ==
    LET all == cs \o <<>> \* every diagram is worked out once
    IN  UnionUpto[Len(all)][all]

add_bound(c, level, low, up) ==
    IF low = -INF /\ up = INF THEN c ELSE And(c, cdd_interval_from_level(level, low, up))

\* A union of neighbouring children, and the bounds around them.
Segment(dd, low, up) == [dd |-> dd, low |-> low, up |-> up]
\* Child k joins the segment s before it when that makes no difference.
Joins(f, s, k) ==
    LET l     == LevelOf(f)
        split == Or(add_bound(s.dd, l, s.low, s.up), add_bound(Child(f, k), l, Lower(f, k), Upper(f, k)))
        join  == add_bound(Or(s.dd, Child(f, k)), l, s.low, Upper(f, k))
    IN  cdd_equiv(split, join)
Extended(f, ss, k) ==
    LET s == Last(ss)
    IN  IF Joins(f, s, k)
        THEN Front(ss) \o <<Segment(Or(s.dd, Child(f, k)), s.low, Upper(f, k))>>
        ELSE Append(ss, Segment(Child(f, k), Lower(f, k), Upper(f, k)))
\* The segments of the children 1 .. k + 1.
SegmentsUpto[k \in Nat] == IF k = 0 THEN [f \in ddNode |-> <<Segment(Child(f, 1), -INF, Upper(f, 1))>>] ELSE
    [f \in ddNode |-> Extended(f, SegmentsUpto[k - 1][f], k + 1)]
Segments(f) == SegmentsUpto[Arity(f) - 1][f]

Reduced2(rec, f) ==
    LET l  == LevelOf(f)
        ss == Segments(f)
    IN  IF ~IsCdd(l) THEN MakeBdd(l, rec[Low(f)], rec[High(f)])
        ELSE UnionOver([i \in DOMAIN ss |-> add_bound(rec[ss[i].dd], l, ss[i].low, ss[i].up)])
Reduce2At[h \in Nat] == IF h = 0 THEN <<>> ELSE
    [f \in ddNode |-> IF IsTerminal(f) THEN f ELSE Reduced2(Reduce2At[h - 1], f)]
cdd_reduce2(f) == Reduce2At[Depth][f]

\* Boolean levels are replaced by levels, clocks by clocks.
Replaced(rec, f, levels, clocks) ==
    LET l == LevelOf(f)
        Rec(k)  == rec[<<Child(f, k), levels, clocks>>]
        Edge(k) == And(cdd_interval(clocks[Info[l].clock1], clocks[Info[l].clock2],
                                    Lower(f, k), Upper(f, k)), Rec(k))
    IN  IF ~IsCdd(l) THEN cdd_ite(cdd_bddvar(levels[l]), Rec(2), Rec(1))
        ELSE UnionOver([k \in 1..Arity(f) |-> Edge(k)])
RenameAt[h \in Nat] == IF h = 0 THEN <<>> ELSE
    [t \in ddNode \X [BddLevels -> BddLevels] \X [Clocks -> Clocks] |->
        IF IsTerminal(t[1]) THEN t[1] ELSE Replaced(RenameAt[h - 1], t[1], t[2], t[3])]
cdd_replace(f, levels, clocks) == RenameAt[Depth][<<f, levels, clocks>>]

-----------------------------------------------------------------------------
(* cdd_contains.                                                           *)

\* The DBM is the set Z of the vectors of its zone, narrowed to an edge by
\* cdd_constrain2.  At a BDD node the stored branches are followed, without the
\* negation bit of the pointer to the node.
cdd_constrain2_M(Z, l, lower, upper) == PushUpper(Z, l, upper) \* the lower bound is lost
cdd_constrain2(Z, l, lower, upper) == PushUpper(PushLower(Z, l, lower), l, upper)
\* Whether Z is contained in f; rec are the pairs of which this is so further down.
Contained(rec, f, Z) ==
    IF IsTerminal(f) THEN f = cddtrue
    ELSE IF ~IsCdd(LevelOf(f)) THEN \E k \in {1, 2} : <<f.node.elem[k].child, Z>> \in rec
    ELSE \A k \in 1..Arity(f) :
            LET Zk == cdd_constrain2(Z, LevelOf(f), Lower(f, k), Upper(f, k))
            IN  Child(f, k) = cddtrue \/ Zk = {} \/ <<Child(f, k), Zk>> \in rec
ContainedAt[h \in Nat] == IF h = 0 THEN {} ELSE
    {t \in ddNode \X ValSets : Contained(ContainedAt[h - 1], t[1], t[2])}
cdd_contains(f, Z) == <<f, Z>> \in ContainedAt[Depth]

-----------------------------------------------------------------------------
(* cdd_from_dbm, cdd_extract_dbm, cdd_extract_bdd.  A DBM is the non-empty *)
(* set Z of the vectors of its zone; its entries are the tightest bounds.  *)

TightUpper(Z, l) == Min({b \in RawBnd[l] \cup {INF} : \A v \in Z : Below(v[l], b)})
TightLower(Z, l) == Max({b \in RawBnd[l] \cup {-INF} : \A v \in Z : Above(v[l], b)})

\* A smallest set of entries that defines the zone: side "lo" stands for the
\* lower bound of the level, "hi" for the upper bound.
Entries(Z) ==
    {[level |-> l, side |-> "hi", set |-> PushUpper(Feasible, l, TightUpper(Z, l))] : l \in CddLevels}
    \cup {[level |-> l, side |-> "lo", set |-> PushLower(Feasible, l, TightLower(Z, l))] : l \in CddLevels}
dbm_analyzeForMinDBM(Z) ==
    LET entries  == {e \in Entries(Z) : e.set # Feasible}
        defining == {S \in SUBSET entries : {v \in Feasible : \A e \in S : v \in e.set} = Z}
        least    == CHOOSE S \in defining : \A T \in defining : Cardinality(S) <= Cardinality(T)
    IN  {<<e.level, e.side>> : e \in least}

\* Bottom-up over the clock differences.
FromLevel(Z, ok, c, l) ==
    LET lo == <<l, "lo">> \in ok
        hi == <<l, "hi">> \in ok
    IN  CASE lo /\ hi  -> MakeCdd(l, <<Elem(cddfalse, TightLower(Z, l)), Elem(c, TightUpper(Z, l)),
                                      Elem(cddfalse, INF)>>)
          [] lo /\ ~hi -> MakeCdd(l, <<Elem(cddfalse, TightLower(Z, l)), Elem(c, INF)>>)
          [] hi /\ ~lo -> NegCond(MakeCdd(l, <<Elem(Rglr(c), TightUpper(Z, l)),
                                              Elem(NegCond(cddfalse, c.neg), INF)>>), c.neg)
          [] OTHER -> c
\* The n highest levels.
FromLevels[n \in Nat] == IF n = 0 THEN [t \in ValSets \X (SUBSET (Nat \X {"lo", "hi"})) |-> cddtrue] ELSE
    [t \in ValSets \X (SUBSET (Nat \X {"lo", "hi"})) |->
        IF IsCdd(MAXLEVEL - n) THEN FromLevel(t[1], t[2], FromLevels[n - 1][t], MAXLEVEL - n)
        ELSE FromLevels[n - 1][t]]
cdd_from_dbm(Z) == FromLevels[MAXLEVEL][<<Z, dbm_analyzeForMinDBM(Z)>>]

\* dbm_init: all clocks are non-negative.
dbm_init == {v \in Feasible : \A i \in Clocks \ {0} : Diff(v, i, 0) >= 0}

\* The leftmost edge that does not lead to false.
FirstEdge_M(f) == 1 \* an edge to false is followed too
FirstEdge(f) == IF Child(f, 1) = cddfalse THEN 2 ELSE 1

\* The zone on the path of first edges down to a BDD node or a terminal, and the
\* diagram at the end of that path.
ExtractZoneAt[h \in Nat] == IF h = 0 THEN <<>> ELSE
    [t \in ddNode \X ValSets |->
        LET f == t[1]
            Z == t[2]
            k == FirstEdge(f)
        IN  IF IsTerminal(f) \/ ~IsCdd(LevelOf(f)) THEN Z
            ELSE ExtractZoneAt[h - 1][<<Child(f, k), cdd_constrain2(Z, LevelOf(f), Lower(f, k), Upper(f, k))>>]]
ExtractZone(f, Z) == ExtractZoneAt[Depth][<<f, Z>>]
ExtractBddAt[h \in Nat] == IF h = 0 THEN <<>> ELSE
    [f \in ddNode |->
        IF IsTerminal(f) THEN cddtrue
        ELSE IF ~IsCdd(LevelOf(f)) THEN f ELSE ExtractBddAt[h - 1][Child(f, FirstEdge(f))]]
cdd_extract_bdd(f) == ExtractBddAt[Depth][f]
cdd_extract_dbm(f) == And(f, Neg(cdd_from_dbm(ExtractZone(f, dbm_init))))
=============================================================================
