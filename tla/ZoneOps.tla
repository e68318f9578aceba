------------------------------- MODULE ZoneOps -------------------------------
(***************************************************************************)
(* The client of module DiagramOps with delays and pasts.  F is the set    *)
(* that f is to denote; here it is computed from the clock valuations      *)
(* themselves.                                                              *)
(***************************************************************************)
EXTENDS DiagramOps, Zones

CONSTANT Beside \* cardinalities of G beside which timed operations are used (bound)

-----------------------------------------------------------------------------
(* Reference meaning.                                                      *)

DelayOf(D) == {w \in Feasible : \E t \in Trails : t.from \in D /\ t.to = w}
PastOf(D)  == {v \in Feasible : \E t \in Trails : t.from = v /\ t.to \in D}
\* Valuations that reach Target by a delay and are not in Safe on the way, the
\* two ends included: "the overlap is considered to be saved" (cppext.cpp:140).
LostTo(Target, Safe) == {v \in Feasible :
    \E t \in Trails : t.from = v /\ t.to \in Target /\ \A u \in t.seen : u \notin Safe}

\* The vectors that satisfy the bounds that all of Z satisfies, and the zones: the
\* sets that have no others.
Hull(Z) == {v \in Feasible : \A l \in CddLevels : \A b \in RawBnd[l] :
                /\ (\A u \in Z : Below(u[l], b)) => Below(v[l], b)
                /\ (\A u \in Z : Above(u[l], b)) => Above(v[l], b)}
Closed(Z) == Z \subseteq Feasible /\ Hull(Z) \subseteq Z

\* What the timed operations rely on: the clocks are declared before the Booleans;
\* a clock can be negative; the DBM operations give zones, which needs a grid wide
\* enough for the bounds of the instance.
Timely ==
    /\ IsFiniteSet(Feasible)
    /\ \A l \in CddLevels, m \in BddLevels : l < m
    /\ CddLevels # {} => dbm_init # Feasible
    /\ \A Z \in SUBSET dbm_init : Closed(Z) => Closed(dbm_up(Z)) /\ Closed(dbm_down(Z))
ASSUME TimedAssumption == Beside # {} => Timely

\* What the loops over zones need: no negative clocks (a zone would be empty and
\* the assertion dbm_isValid fail) and no empty diagram in disguise.
Ready(d, D) == (cdd_isBDD(d) \/ D \subseteq dbm_init) /\ (D = {} => d = cddfalse)

-----------------------------------------------------------------------------
(* Actions.                                                                *)

Delay == /\ Cardinality(G) \in Beside /\ Ready(f, F)
         /\ \/ Become(cdd_delay(f), IF cdd_isBDD(f) THEN F ELSE DelayOf(F))
            \/ \E o \in Made : Become(cdd_delay_invariant(f, o.dd),
                                      (IF cdd_isBDD(f) THEN F ELSE DelayOf(F)) \cap o.set)
Past  == /\ Cardinality(G) \in Beside /\ Ready(f, F)
         /\ Become(cdd_past(f), IF cdd_isBDD(f) THEN F ELSE PastOf(F))

NextDelays == Next \/ Delay \/ Past
SpecDelays == Init /\ [][NextDelays]_vars

-----------------------------------------------------------------------------
(* Properties.                                                             *)

\* cppext.cpp:136-146: cdd_predt returns exactly the states that can delay into
\* the target without reaching the safe states, for every Boolean valuation by
\* itself, whether or not the two overlap.  The precondition Usable is not in that
\* comment: both arguments are reduced and none is empty without being cddfalse.  The
\* loops of cdd_predt extract from their arguments before they reduce anything, and
\* a zone on an infeasible path is no valid DBM.
PredtExact ==
    LET Usable(d, D) == Ready(d, D) /\ cdd_reduce(d) = d
    IN  Usable(f, F) /\ Usable(g, G) =>
            Accepted(cdd_predt(f, g), Feasible) = LostTo(F \cap dbm_init, G)
=============================================================================
