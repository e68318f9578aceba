-------------------------------- MODULE Zones --------------------------------
(***************************************************************************)
(* Diagrams and zones in the C++ layer (src/src/cppext.cpp): a diagram is  *)
(* taken apart into zones, each with the BDD below it, the zones are        *)
(* changed by DBM operations and the parts are put together again.          *)
(*                                                                         *)
(* The DBM library is external.  As in module Diagrams a DBM is the set of *)
(* vectors of its zone; its operations are what they do to the clock       *)
(* valuations of that set.                                                 *)
(***************************************************************************)
EXTENDS Diagrams

\* Definitions whose name ends in _M are faulty variants of the definition they
\* precede, kept to show that the properties notice the fault.

-----------------------------------------------------------------------------
(* Clock valuations behind vectors.                                        *)

NonNegative == {p \in Points : \A c \in Clocks : p[c] >= 0}
Booleans == [BddLevels -> {0, 1}]

\* Delays from vector v: where each ends and what it passes through.
Elapsed(p, d) == [c \in Clocks |-> IF c = 0 THEN 0 ELSE p[c] + d]
Delays(p) == {d \in Diffs : d >= 0 /\ Elapsed(p, d) \in Points}
Trails == UNION {UNION {{[from |-> VectorOf(p, b), to |-> VectorOf(Elapsed(p, d), b),
                          seen |-> {VectorOf(Elapsed(p, e), b) : e \in 0..d}] : d \in Delays(p)}
                        : b \in Booleans} : p \in NonNegative}

-----------------------------------------------------------------------------
(* The DBM library.                                                        *)

dbm_up(Z)   == {t.to : t \in {t \in Trails : t.from \in Z}}
dbm_down(Z) == {t.from : t \in {t \in Trails : t.to \in Z}}

\* fed_t::predt: from where a delay reaches Bad and meets Good at no moment.
predt(Bad, Good) == {t.from : t \in {t \in Trails : t.to \in Bad /\ t.seen \cap Good = {}}}

-----------------------------------------------------------------------------
(* Splitting a diagram into zones.                                         *)

cdd_bddnvar(level) == Neg(cdd_bddvar(level))

cdd_isBDD(f) == IsTerminal(f) \/ ~IsCdd(LevelOf(f))

\* The zone of the first path and the BDD at its end, and what is left over.
cdd_extract_bdd_and_dbm(f) == [dbm |-> ExtractZone(f, dbm_init), BDD_part |-> cdd_extract_bdd(f)]
Rest_M(f) == cdd_reduce(f) \* the zone stays in the diagram
Rest(f) == cdd_reduce(cdd_remove_negative(cdd_extract_dbm(f)))

\* The parts in the order of the loops "while (!cdd_isterminal(copy) && ...)";
\* the loop of cdd_predt does not reduce before it extracts.  Every round takes
\* vectors out of the diagram, so that there are no more rounds than vectors.
Rounds == Cardinality(Feasible)
SplitIn[n \in Nat] == IF n = 0 THEN [f \in ddNode |-> <<>>] ELSE
    [f \in ddNode |->
        IF cdd_isBDD(f) THEN <<>> ELSE <<cdd_extract_bdd_and_dbm(f)>> \o SplitIn[n - 1][Rest(f)]]
Split(f) == SplitIn[Rounds][f]
SplitReducedIn[n \in Nat] == IF n = 0 THEN [f \in ddNode |-> <<>>] ELSE
    [f \in ddNode |->
        LET Parts(d) == <<cdd_extract_bdd_and_dbm(d)>> \o SplitReducedIn[n - 1][Rest(d)]
        IN  IF cdd_isBDD(f) THEN <<>> ELSE Parts(cdd_reduce(f))]
SplitReduced(f) == SplitReducedIn[Rounds][f]

\* res |= cdd(dbm) & bottom, where change is what became of the zones.
Joined(parts, change) ==
    UnionOver([k \in DOMAIN parts |-> And(cdd_from_dbm(change[k]), parts[k].BDD_part)])

\* Booleans are given values one after the other, in the order of the levels.
Literal(l, x) == IF x = 1 THEN cdd_bddvar(l) ELSE cdd_bddnvar(l)
PartialBooleans == UNION {[L -> {0, 1}] : L \in SUBSET BddLevels}
\* The levels below n.
WithLiterals[n \in Nat] == IF n = 0 THEN [t \in ddNode \X PartialBooleans |-> t[1]] ELSE
    [t \in ddNode \X PartialBooleans |->
        IF n - 1 \in DOMAIN t[2] THEN And(WithLiterals[n - 1][t], Literal(n - 1, t[2][n - 1]))
        ELSE WithLiterals[n - 1][t]]
Conj(f, b) == WithLiterals[MAXLEVEL][<<f, b>>]

-----------------------------------------------------------------------------
(* Delays.                                                                 *)

cdd_delay(f) ==
    LET Delayed(parts) == Joined(parts, [k \in DOMAIN parts |-> dbm_up(parts[k].dbm)])
    IN  IF cdd_isBDD(f) THEN f ELSE Delayed(SplitReduced(f))
cdd_delay_invariant(f, invar) == And(cdd_delay(f), invar)

cdd_past(f) ==
    LET Past(parts) == Joined(parts, [k \in DOMAIN parts |-> dbm_down(parts[k].dbm)])
    IN  IF cdd_isBDD(f) THEN f ELSE Past(SplitReduced(f))

\* A federation as one zone for every valuation of the clock differences.
ClockPart(v) == {w \in Feasible : \A l \in CddLevels : w[l] = v[l]}
cdd_from_fed(S) == UnionOver(SetToSeq({cdd_from_dbm(ClockPart(v)) : v \in S}))

\* One Boolean valuation: the safe zones under it, good_copy, save part of the
\* target zone; a safe part without zones is unbounded; with no safe part all of
\* the past is lost.
ZonesOf(parts) == UNION {parts[k].dbm : k \in DOMAIN parts}
SafeFed(safe) == IF safe = {} THEN dbm_init ELSE safe
PredtUnder_M(Z, good_copy) == \* the safe part is only cut out of the past
    cdd_from_fed(dbm_down(Z) \ (IF good_copy = cddfalse THEN {} ELSE SafeFed(ZonesOf(Split(good_copy)))))
PredtUnder(Z, good_copy) ==
    IF good_copy = cddfalse THEN cdd_from_dbm(dbm_down(Z))
    ELSE cdd_from_fed(predt(Z, SafeFed(ZonesOf(Split(good_copy)))))

\* The Boolean valuations, bdd_start_level upwards.
Valuations == LET bs == SetToSeq(Booleans) IN [i \in DOMAIN bs |-> Conj(cddtrue, bs[i])]
cdd_predt_dbm(Z, bdd_target, safe) ==
    LET UnderEach(all_booleans, good) == UnionOver([i \in DOMAIN all_booleans |->
            IF cdd_equiv(And(all_booleans[i], bdd_target), cddfalse) THEN cddfalse
            ELSE And(PredtUnder(Z, And(good, all_booleans[i])), all_booleans[i])])
    IN  IF And(bdd_target, safe) = cddfalse THEN And(cdd_from_dbm(dbm_down(Z)), bdd_target)
        ELSE UnderEach(Valuations, And(bdd_target, safe))

cdd_predt(target, safe) ==
    LET Lost(parts) == UnionOver([k \in DOMAIN parts |-> cdd_predt_dbm(parts[k].dbm, parts[k].BDD_part, safe)])
    IN  IF target = cddfalse THEN target
        ELSE IF safe = cddtrue THEN cddfalse
        ELSE Lost(IF cdd_isBDD(target) THEN <<[dbm |-> dbm_init, BDD_part |-> target]>> ELSE Split(target))
=============================================================================
