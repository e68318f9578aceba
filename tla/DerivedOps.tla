------------------------------ MODULE DerivedOps ------------------------------
(***************************************************************************)
(* The client of module DiagramOps with quantification over Booleans.      *)
(***************************************************************************)
EXTENDS DiagramOps, Derived, BellmanFord

Exist     == \E L \in SUBSET BddLevels :
                 Become(cdd_exist(f, L, <<>>, {}, TRUE), {v \in Feasible : \E w \in F : \A l \in Levels \ L : w[l] = v[l]})

NextAll == Next \/ Exist
SpecAll == Init /\ [][NextAll]_vars

\* test_cdd.cpp:286-308: the reduction with the Bellman-Ford test, on the bounds as
\* they are pushed and popped, gives the diagram that cdd_reduce gives.  The test
\* compares pointers; diagrams are values here, so this says it of nodes without
\* duplicates.  Where Elem has padding, equal nodes can be two (Unique fails in
\* nodetable_padding), and the repository runs the test for three clocks on 32 bits
\* only: "passes only on 32-bit, need to fix it" (test_cdd.cpp:1045, 1064).
BfReduceSame == cdd_bf_reduce(f) = cdd_reduce(f)
=============================================================================
