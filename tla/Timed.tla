-------------------------------- MODULE Timed --------------------------------
(***************************************************************************)
(* The transitions of the C++ layer (src/src/cppext.cpp): Booleans and     *)
(* clocks are reset, forwards and backwards, on the zones of module Zones. *)
(***************************************************************************)
EXTENDS Derived, Zones

\* Definitions whose name ends in _M are faulty variants of the definition they
\* precede, kept to show that the properties notice the fault.

-----------------------------------------------------------------------------
(* The DBM library.                                                        *)

\* Vectors before and after clock x gets a value.
Values == {u \in Span : u >= 0}
Assignments == {[from |-> VectorOf(p, b), clock |-> x, value |-> u, to |-> VectorOf([p EXCEPT ![x] = u], b)] :
                p \in NonNegative, b \in Booleans, x \in Clocks \ {0}, u \in Values}

dbm_updateValue(Z, x, value) ==
    {a.to : a \in {a \in Assignments : a.from \in Z /\ a.clock = x /\ a.value = Unit * value}}
dbm_freeClock(Z, x) == {a.to : a \in {a \in Assignments : a.from \in Z /\ a.clock = x}}

-----------------------------------------------------------------------------
(* Transitions.  Resets are functions: from clocks to values, from Boolean  *)
(* levels to 0 or 1 (the arrays of the code, with no entry listed twice).  *)

ExistBools(f, bools) == IF bools = <<>> THEN f ELSE cdd_exist(f, DOMAIN bools, <<>>, {}, TRUE)

\* The clock resets of the diagram copy, zone by zone.
ResetZone(Z, clocks) ==
    FoldLeft(LAMBDA D, x : dbm_updateValue(D, x, clocks[x]), Z, SetToSortSeq(DOMAIN clocks, <))
ResetClocks(copy, clocks) ==
    LET Reset(parts) == Joined(parts, [k \in DOMAIN parts |-> ResetZone(parts[k].dbm, clocks)])
    IN  IF clocks = <<>> \/ cdd_isBDD(copy) THEN copy ELSE Reset(SplitReduced(copy))

cdd_apply_reset_M(state, clocks, bools) == \* the old values of the Booleans are not forgotten
    ResetClocks(cdd_remove_negative(Conj(state, bools)), clocks)
cdd_apply_reset(state, clocks, bools) ==
    ResetClocks(cdd_remove_negative(Conj(ExistBools(state, bools), bools)), clocks)

cdd_transition(state, guard, clocks, bools) == cdd_apply_reset(And(state, guard), clocks, bools)

FreeClocks(Z, clocks) == FoldLeft(dbm_freeClock, Z, SetToSortSeq(DOMAIN clocks, <))
cdd_transition_back(state, guard, update, clocks, bools) ==
    LET Freed(parts) == Joined(parts, [k \in DOMAIN parts |-> FreeClocks(parts[k].dbm, clocks)])
        Back(copy) == IF clocks = <<>> \/ (~IsTerminal(copy) /\ ~IsCdd(LevelOf(copy))) THEN copy
                      ELSE Freed(SplitReduced(cdd_remove_negative(copy)))
    IN  IF And(state, update) = cddfalse THEN cddfalse
        ELSE And(Back(ExistBools(And(state, update), bools)), guard)
=============================================================================
