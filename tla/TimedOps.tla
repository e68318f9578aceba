------------------------------ MODULE TimedOps ------------------------------
(***************************************************************************)
(* A client of the timed operations: it explores a timed system, forwards   *)
(* and backwards, keeping the reached states in f.  F is the set that f is  *)
(* to denote, as in module DiagramOps; here it is computed from the clock   *)
(* valuations themselves.                                                  *)
(***************************************************************************)
EXTENDS DerivedOps, Timed, ZoneOps

CONSTANTS
    ClockResets, \* the clock resets of transitions, see module Timed
    BoolResets,  \* and their Boolean resets
    ClockLists,  \* the lists of clocks that are quantified (bound)
    GuardLevels  \* the levels that guards of transitions constrain (bound)

-----------------------------------------------------------------------------
(* Reference meaning.                                                      *)

\* The vectors before and after an update of the clocks and the Booleans.
UpdatedClocks(p, clocks) == [c \in Clocks |-> IF c \in DOMAIN clocks THEN Unit * clocks[c] ELSE p[c]]
UpdatedBools(b, bools) == [l \in BddLevels |-> IF l \in DOMAIN bools THEN bools[l] ELSE b[l]]
Updates == {[from |-> VectorOf(p, b), clocks |-> clocks, bools |-> bools,
             to |-> VectorOf(UpdatedClocks(p, clocks), UpdatedBools(b, bools))] :
            p \in NonNegative, b \in Booleans, clocks \in ClockResets, bools \in BoolResets}
UpdatesOf(clocks, bools) == {u \in Updates : u.clocks = clocks /\ u.bools = bools}
TargetsOf(D, clocks, bools) == {u.to : u \in {u \in UpdatesOf(clocks, bools) : u.from \in D}}
SourcesOf(D, clocks, bools) == {u.from : u \in {u \in UpdatesOf(clocks, bools) : u.to \in D}}

\* The update as a diagram ("x == 0 and b == true", cppext.cpp:584) and its set.
UpdateDD(clocks, bools) ==
    LET cs == SetToSortSeq(DOMAIN clocks, <)
    IN  Conj(FoldLeft(And, cddtrue, [i \in DOMAIN cs |->
                    cdd_interval(cs[i], 0, 2 * clocks[cs[i]], 2 * clocks[cs[i]] + 1)]),
             bools)

-----------------------------------------------------------------------------
(* Actions.                                                                *)

Guards == {o \in Made : o.dd = cddtrue \/ LevelOf(o.dd) \in GuardLevels}
Transition == /\ Cardinality(G) \in Beside /\ F \subseteq dbm_init
              /\ \E o \in Guards, clocks \in ClockResets, bools \in BoolResets :
                    /\ Ready(cdd_remove_negative(And(f, o.dd)), F \cap o.set)
                    /\ Become(cdd_transition(f, o.dd, clocks, bools), TargetsOf(F \cap o.set, clocks, bools))

\* cdd_transition_back, and cdd_transition_back_past where its loop may start.
Back(d, D) == \/ Become(d, D)
              \/ Ready(d, D) /\ Become(cdd_past(d), PastOf(D))
BackBy(o, update, clocks, bools) ==
    /\ Ready(And(f, update), Accepted(And(f, update), Feasible))
    /\ Back(cdd_transition_back(f, o.dd, update, clocks, bools), o.set \cap SourcesOf(F, clocks, bools))
TransitionBack ==
    /\ Cardinality(G) \in Beside /\ F \subseteq dbm_init
    /\ \E o \in Guards, clocks \in ClockResets, bools \in BoolResets :
        BackBy(o, UpdateDD(clocks, bools), clocks, bools)

NextTimed == Delay \/ Past \/ Transition \/ TransitionBack
NextMixed == NextAll \/ NextTimed
SpecMixed == Init /\ [][NextMixed]_vars

\* Zones only: a client that explores a timed automaton with non-negative clocks
\* and joins what it finds with the part it kept.
Guard == \E o \in Made : Become(And(f, o.dd), F \cap o.set)
KeepReduced == Cardinality(F) \in Retain /\ g' = cdd_reduce(f) /\ G' = F /\ UNCHANGED <<f, F>>
Join  == f' = Or(f, g) /\ F' = F \cup G /\ g' = cddfalse /\ G' = {}
InitZones == f = cdd_remove_negative(cddtrue) /\ F = dbm_init /\ g = cddfalse /\ G = {}
NextZones == Guard \/ Join \/ KeepReduced \/ Reduce \/ NextTimed
SpecZones == InitZones /\ [][NextZones]_vars

-----------------------------------------------------------------------------
(* Properties.                                                             *)

\* The clocks that relax takes for listed: entries of the array that are not zero,
\* beyond the end of the list whatever is found there.
Flags(clocks) == {{c \in 0..(Len(clocks) - 1) : clocks[c + 1] # 0} \cup beyond :
                  beyond \in SUBSET (Len(clocks)..(ClockNum - 1))}
Quantified(D, clocks) ==
    LET kept == {l \in CddLevels : {Info[l].clock1, Info[l].clock2} \cap Range(clocks) = {}}
    IN  {v \in Feasible : \E w \in D : \A l \in kept \cup BddLevels : v[l] = w[l]}

\* cdd.h:1021-1030: no valuation is lost by the quantification of clocks, whatever
\* lies behind the array, without caches and with caches that return every result
\* of the call again, also for another context.
ExistCovers == \A clocks \in ClockLists : \A flags \in Flags(clocks), keeps \in BOOLEAN :
    Quantified(F, clocks) \subseteq Accepted(cdd_exist(f, {}, clocks, flags, keeps), Feasible)

\* And none is added when both readings of the array agree on the listed clocks.
ExistExact == \A clocks \in ClockLists : \A flags \in Flags(clocks), keeps \in BOOLEAN :
    Range(clocks) \subseteq flags =>
        Accepted(cdd_exist(f, {}, clocks, flags, keeps), Feasible) = Quantified(F, clocks)

\* No empty interval is left over in the result: relax meets the bounds of a
\* consequence with those removed before (cddop.c:713) and compares neither.
ExistNormal == \A clocks \in ClockLists : \A flags \in Flags(clocks), keeps \in BOOLEAN :
    cdd_exist(f, {}, clocks, flags, keeps) \in NormalForms

\* cppext.cpp:570: cdd_transition returns the target states, so none when no state
\* satisfies the guard.
NothingFromNothing == \A o \in Made, clocks \in ClockResets :
    F \subseteq dbm_init /\ F \cap o.set = {} =>
        Accepted(cdd_transition(f, o.dd, clocks, <<>>), Feasible) = {}
=============================================================================
