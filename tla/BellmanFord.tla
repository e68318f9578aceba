----------------------------- MODULE BellmanFord -----------------------------
(***************************************************************************)
(* cdd_bf_reduce (src/src/debug.c), the reduction kept for comparison with  *)
(* cdd_reduce, and the consistency test it uses (src/src/bellmanford.c).    *)
(* Here nothing is abstracted to sets of vectors: the graph is the sequence *)
(* of the pushed constraints with their raw bounds, an edge from i to j of  *)
(* length value for x_i - x_j <= value, and the distances of one test are   *)
(* where the next one starts.                                              *)
(***************************************************************************)
EXTENDS Diagrams

\* Definitions whose name ends in _M are faulty variants of the definition they
\* precede, kept to show that the properties notice the fault.

-----------------------------------------------------------------------------
\* struct distance: the sum of the bounds and the number of strict ones.
Add(d, bnd) == [value |-> d.value + Limit(bnd), strictness |-> d.strictness + 1 - (bnd % 2)]
Less_M(a, b) == a.value < b.value \* strictness is ignored
Less(a, b) == a.value < b.value \/ (a.value = b.value /\ a.strictness > b.strictness)
Zeros == [c \in Clocks |-> [value |-> 0, strictness |-> 0]]

Improves(e, dist) == Less(Add(dist[e.i], e.value), dist[e.j])

\* One pass over the edges, in the order in which they were pushed.
Pass(edges, dist) ==
    FoldLeft(LAMBDA p, e : IF Improves(e, p.dist)
                           THEN [dist |-> [p.dist EXCEPT ![e.j] = Add(p.dist[e.i], e.value)], found |-> TRUE]
                           ELSE p,
             [dist |-> dist, found |-> FALSE], edges)
\* After pass p, more passes until nothing is found, v in all at most.
RECURSIVE Passes(_, _, _)
Passes(edges, p, v) == IF p.found /\ v > 1 THEN Passes(edges, Pass(edges, p.dist), v - 1) ELSE p

cdd_bf_consistent(edges, dist) ==
    LET Verdict(p) == [dist |-> p.dist,
                       result |-> ~p.found \/ \A n \in DOMAIN edges : ~Improves(edges[n], p.dist)]
    IN  Verdict(Passes(edges, Pass(edges, dist), ClockNum))

-----------------------------------------------------------------------------
\* cdd_bf_push at the end of the graph.
Pushed(edges, i, j, bnd) == Append(edges, [i |-> i, j |-> j, value |-> bnd])
PushedUpper(edges, l, bnd) ==
    IF bnd = INF THEN edges ELSE Pushed(edges, Info[l].clock1, Info[l].clock2, bnd)
PushedLower(edges, l, bnd) == Pushed(edges, Info[l].clock2, Info[l].clock1, bnd_l2u(bnd))

\* The first child with a consistent upper bound, or the last child.
RECURSIVE FirstFrom(_, _, _, _)
FirstFrom(node, k, edges, dist) ==
    LET Tested(test) == IF test.result THEN [k |-> k, dist |-> test.dist]
                        ELSE FirstFrom(node, k + 1, edges, test.dist)
    IN  IF k = Arity(node) THEN [k |-> k, dist |-> dist]
        ELSE Tested(cdd_bf_consistent(PushedUpper(edges, LevelOf(node), Upper(node, k)), dist))

\* The distances are those the visit before left behind.  From the first child on,
\* the next one is reduced too if its lower bound is consistent; cs are the results.
RECURSIVE cdd_bf_reduce_rec(_, _, _)
cdd_bf_reduce_rec(node, edges, dist) ==
    LET l == LevelOf(node)
        Node(low, high) == [dd |-> MakeBdd(l, low.dd, high.dd), dist |-> high.dist]
        Branches(low) == Node(low, cdd_bf_reduce_rec(High(node), edges, low.dist))
        RECURSIVE Others(_, _, _)
        Others(k, cs, d) ==
            LET lower == PushedLower(edges, l, Lower(node, k))
                Added(r) == Others(k + 1, Append(cs, r.dd), r.dist)
                Tested(test) == IF ~test.result THEN [cs |-> cs, dist |-> test.dist]
                                ELSE Added(cdd_bf_reduce_rec(Child(node, k), PushedUpper(lower, l, Upper(node, k)), test.dist))
            IN  IF k > Arity(node) THEN [cs |-> cs, dist |-> d] ELSE Tested(cdd_bf_consistent(lower, d))
        Packed(first, all) ==
            [dd |-> PackWindow(l, [k \in 1..Arity(node) |-> Upper(node, k)],
                               [n \in DOMAIN all.cs |-> first + n - 1], all.cs),
             dist |-> all.dist]
        From(first, head) == IF first = Arity(node) THEN head
                             ELSE Packed(first, Others(first + 1, <<head.dd>>, head.dist))
        Started(start) == From(start.k, cdd_bf_reduce_rec(Child(node, start.k),
                                            PushedUpper(edges, l, Upper(node, start.k)), start.dist))
    IN  IF IsTerminal(node) THEN [dd |-> node, dist |-> dist]
        ELSE IF ~IsCdd(l) THEN Branches(cdd_bf_reduce_rec(Low(node), edges, dist))
        ELSE Started(FirstFrom(node, 1, edges, dist))

cdd_bf_reduce(node) == cdd_bf_reduce_rec(node, <<>>, Zeros).dd
=============================================================================
