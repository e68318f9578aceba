---------------------------- MODULE MC_DiagramOps ----------------------------
(* Instances of DiagramOps for TLC.                                        *)
EXTENDS TimedOps, TLC

CddLevel(i, j) == [type |-> "cdd", clock1 |-> i, clock2 |-> j]
BddLevel == [type |-> "bdd"]

\* Clock values in thirds of a time unit: from -1 to 1, from -1 to 2.
Grid1 == -3..3
Grid2 == -3..6

NoCache  == {{}}
\* The subproblems at the lowest of three levels are cached.
LowestCache == {{2}}
AnyCache == SUBSET Levels

\* One clock difference and one Boolean: x1 < 0, x1 = 0, 0 < x1 <= 1, x1 > 1.
AInfo == (0 :> CddLevel(1, 0)) @@ (1 :> BddLevel)
ABnd  == (0 :> {0, 1, 3})
AClkResets == {<<>>, 1 :> 0}
ABoolResets == {<<>>, 1 :> 0, 1 :> 1}
AMap  == (1 :> 1)
AClk  == (0 :> 0) @@ (1 :> 1)

\* Three differences of two clocks: infeasible paths.
BInfo == (0 :> CddLevel(1, 0)) @@ (1 :> CddLevel(2, 0)) @@ (2 :> CddLevel(2, 1))
BBnd  == (0 :> {0}) @@ (1 :> {0}) @@ (2 :> {0, 1})
BMap  == <<>>
BClk  == (0 :> 0) @@ (1 :> 2) @@ (2 :> 1)

\* Three differences of two clocks in units of time: the signs of x1, x2, x2 - x1.
Grid0 == -2..2
EBnd  == (0 :> {0, 1}) @@ (1 :> {0, 1}) @@ (2 :> {0, 1})
EClkResets == {<<>>, 1 :> 0, 2 :> 0, (1 :> 0) @@ (2 :> 0)}

\* A Boolean above a clock difference.
DInfo == (0 :> BddLevel) @@ (1 :> CddLevel(1, 0))
DBnd  == (1 :> {0, 3})
DMap  == (0 :> 0)

NoResets == {<<>>}
NoLists  == {}
ELists   == {<<0>>, <<1>>, <<2>>, <<1, 2>>, <<2, 0>>, <<1, 2, 1>>}
=============================================================================
