------------------------------- MODULE Derived -------------------------------
(***************************************************************************)
(* Quantification, composed of the operators of module Diagrams.           *)
(***************************************************************************)
EXTENDS Diagrams

\* Definitions whose name ends in _M are faulty variants of the definition they
\* precede, kept to show that the properties notice the fault.

-----------------------------------------------------------------------------
(* cdd_exist.  The argument clocks is read in two ways: as a list of clocks *)
(* by cdd_exist_rec, and by relax as a vector indexed by clock, beyond the   *)
(* end of the list too.  The parameter flags is what relax finds: the clocks *)
(* whose entry is not zero.  rc holds the removed constraints, rc[<<i, j>>]  *)
(* the upper bound of clock i - clock j.  The caches of both functions are   *)
(* looked up without regard to rc: they are functions from what is compared  *)
(* to the result, and stay empty when every entry is displaced (~keeps).     *)

\* The constraint an edge at level l and the removed constraint cut imply on the
\* difference of their two other clocks; none is [pos |-> -1].
Consequence_M(cut, flags, l, lower, upper) == [pos |-> -1] \* nothing is kept
Consequence(cut, flags, l, lower, upper) ==
    LET i == Info[l].clock1
        j == Info[l].clock2
        Implied(pos, neg, low, up) == [pos |-> pos, neg |-> neg, lower |-> bnd_u2l(low), upper |-> up]
    IN  CASE i = cut.clock1 /\ i \in flags ->
                Implied(j, cut.clock2, bnd_add(upper, bnd_l2u(cut.lower)), bnd_add(cut.upper, bnd_l2u(lower)))
          [] i = cut.clock2 /\ i \in flags ->
                Implied(cut.clock1, j, bnd_add(bnd_l2u(cut.lower), bnd_l2u(lower)), bnd_add(cut.upper, upper))
          [] j = cut.clock1 /\ j \in flags ->
                Implied(i, cut.clock2, bnd_add(bnd_l2u(cut.lower), bnd_l2u(lower)), bnd_add(cut.upper, upper))
          [] j = cut.clock2 /\ j \in flags ->
                Implied(i, cut.clock1, bnd_add(cut.upper, bnd_l2u(lower)), bnd_add(upper, bnd_l2u(cut.lower)))
          [] OTHER -> [pos |-> -1]

\* It is added when it is tighter than a constraint that was removed from the
\* same two clocks, and together with that constraint.
WithConsequence_M(f, c, rc) == \* the two clocks are exchanged
    IF c.pos = -1 THEN f
    ELSE LET low == bnd_u2l(rc[<<c.neg, c.pos>>])
             up  == rc[<<c.pos, c.neg>>]
         IN  IF c.lower > low \/ c.upper < up
             THEN And(f, cdd_interval(c.neg, c.pos, Max({c.lower, low}), Min({c.upper, up})))
             ELSE f
WithConsequence(f, c, rc) ==
    IF c.pos = -1 THEN f
    ELSE LET low == bnd_u2l(rc[<<c.neg, c.pos>>])
             up  == rc[<<c.pos, c.neg>>]
         IN  IF c.lower > low \/ c.upper < up
             THEN And(f, cdd_interval(c.pos, c.neg, Max({c.lower, low}), Min({c.upper, up})))
             ELSE f

\* What a visit returns: the result and the cache, into which the result is put.
Entered(keeps, key, res, cache) ==
    [dd |-> res, cache |-> IF keeps THEN cache @@ (key :> res) ELSE cache]
\* The children are visited from left to right, each with the cache the one before
\* it leaves behind.
Visited(acc, r) == [dds |-> Append(acc.dds, r.dd), cache |-> r.cache]

RECURSIVE relax(_, _, _, _, _, _)
relax(node, flags, cut, rc, keeps, cache) ==
    LET l == LevelOf(node)
        Edge(k, below) == And(WithConsequence(below, Consequence(cut, flags, l, Lower(node, k), Upper(node, k)), rc),
                              cdd_interval_from_level(l, Lower(node, k), Upper(node, k)))
        Result(v) ==
            Entered(keeps, <<node, cut>>,
                    IF IsCdd(l) THEN UnionOver([k \in DOMAIN v.dds |-> Edge(k, v.dds[k])])
                    ELSE cdd_ite(cdd_bddvar(l), v.dds[2], v.dds[1]),
                    v.cache)
    IN  IF IsTerminal(node) THEN [dd |-> node, cache |-> cache]
        ELSE IF <<node, cut>> \in DOMAIN cache THEN [dd |-> cache[<<node, cut>>], cache |-> cache]
        ELSE Result(FoldLeft(LAMBDA acc, k : Visited(acc, relax(Child(node, k), flags, cut, rc, keeps, acc.cache)),
                             [dds |-> <<>>, cache |-> cache], [k \in 1..Arity(node) |-> k]))

\* The removed constraints together with the constraint of an edge.
WithRemoved(rc, cut) == [rc EXCEPT ![<<cut.clock2, cut.clock1>>] = bnd_l2u(cut.lower),
                                   ![<<cut.clock1, cut.clock2>>] = cut.upper]

\* One cache stands for both: the keys are pairs for relax, one-tuples for
\* cdd_exist_rec.
RECURSIVE cdd_exist_rec(_, _, _, _, _, _, _)
cdd_exist_rec(node, levels_bool, clocks, flags, rc, keeps, cache) ==
    LET l == LevelOf(node)
        affected == {Info[l].clock1, Info[l].clock2} \cap Range(clocks) # {}
        Cut(k) == [clock1 |-> Info[l].clock1, clock2 |-> Info[l].clock2,
                   lower |-> Lower(node, k), upper |-> Upper(node, k)]
        Rec(r, removed) == cdd_exist_rec(r.dd, levels_bool, clocks, flags, removed, keeps, r.cache)
        Forget(k, found) ==
            IF IsCdd(l) /\ affected
            THEN Rec(relax(Child(node, k), flags, Cut(k), WithRemoved(rc, Cut(k)), keeps, found), WithRemoved(rc, Cut(k)))
            ELSE Rec([dd |-> Child(node, k), cache |-> found], rc)
        Edge(k, below) ==
            IF affected THEN below ELSE And(cdd_interval_from_level(l, Lower(node, k), Upper(node, k)), below)
        Result(v) ==
            Entered(keeps, <<node>>,
                    IF IsCdd(l) THEN UnionOver([k \in DOMAIN v.dds |-> Edge(k, v.dds[k])])
                    ELSE IF l \in levels_bool THEN Or(v.dds[1], v.dds[2])
                    ELSE cdd_ite(cdd_bddvar(l), v.dds[2], v.dds[1]),
                    v.cache)
    IN  IF IsTerminal(node) THEN [dd |-> node, cache |-> cache]
        ELSE IF <<node>> \in DOMAIN cache THEN [dd |-> cache[<<node>>], cache |-> cache]
        ELSE Result(FoldLeft(LAMBDA acc, k : Visited(acc, Forget(k, acc.cache)),
                             [dds |-> <<>>, cache |-> cache], [k \in 1..Arity(node) |-> k]))

cdd_exist(node, levels_bool, clocks, flags, keeps) ==
    cdd_exist_rec(node, levels_bool, clocks, flags, [d \in Clocks \X Clocks |-> INF], keeps, <<>>).dd
=============================================================================
