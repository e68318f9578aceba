------------------------------- MODULE Tarjan -------------------------------
(***************************************************************************)
(* The incremental consistency test of src/src/tarjan.c: difference        *)
(* constraints x_i - x_j <= c are pushed and popped as edges from i to j,  *)
(* and cdd_tarjan_consistent looks for a negative cycle with Bellman-Ford  *)
(* in FIFO order and subtree disassembly.  Distances and the queue live on *)
(* between calls.                                                          *)
(*                                                                         *)
(* The linked lists become a sequence (fifo) and a forest (parent): the    *)
(* preorder list and the depths of the code encode the same trees.         *)
(***************************************************************************)
EXTENDS Integers, FiniteSets, Sequences, SequencesExt

CONSTANTS
    Dim,      \* number of clocks
    Bound,    \* raw bounds that are pushed
    Floor     \* bound: nothing is pushed once a distance has drifted further

V == 0..(Dim - 1)
NoVertex == Dim

ASSUME TarjanAssumption == Dim \in Nat \ {0} /\ Bound \subseteq Int /\ Floor \in Nat

VARIABLES
    edges,    \* edges and count: the outgoing edges of each vertex
    dist,     \* distance vector
    fifo,     \* fifo and queued: vertices to scan
    parent,   \* spanning forest of the running test
    u,        \* vertex being scanned, or NoVertex
    k,        \* next edge of u
    running,  \* a test is in progress
    verdict,  \* result of the last test, 2 once the graph has changed
    scans     \* history: vertices taken from the queue by the running test
vars == <<edges, dist, fifo, parent, u, k, running, verdict, scans>>

\* Definitions whose name ends in _M are faulty variants of the definition they
\* precede, kept to show that the properties notice the fault.

-----------------------------------------------------------------------------
\* A distance is a value and the number of strict bounds on the way; with equal
\* values the one with more strict bounds is less.
Add(d, c) == [value |-> d.value + (c \div 2), strictness |-> d.strictness + 1 - (c % 2)]
Less_M(a, b) == a.value < b.value \* strictness is ignored
Less(a, b) == a.value < b.value \/ (a.value = b.value /\ a.strictness > b.strictness)
Zero == [value |-> 0, strictness |-> 0]

Improving(i, d) == \E e \in ToSet(edges[i]) : Less(Add(d[i], e.value), d[e.v])

\* The elements of s that are in S, in their order.
Keep(s, S) ==
    LET F[n \in 0..Len(s)] == IF n = 0 THEN <<>>
                              ELSE IF s[n] \in S THEN Append(F[n - 1], s[n]) ELSE F[n - 1]
    IN  F[Len(s)]

\* populateQueue: every vertex with an improving edge, in index order.
Populated_M(d) == <<>> \* the queue is not repaired
Populated(d) == Keep([i \in 1..Dim |-> i - 1], {i \in V : Improving(i, d)})

\* What hangs below r in the forest P: the least set with the children of r and of
\* its own members.
Below(P, r) == {w \in V : \A S \in SUBSET V :
                   (\A x \in V : P[x] = r \/ P[x] \in S => x \in S) => w \in S}
Subtree_M(r) == {} \* nothing is found below r, nothing is disassembled
Subtree(r) == Below(parent, r)

-----------------------------------------------------------------------------
\* At most one edge between two vertices (asserted by the code); callers pop
\* after an inconsistent test before they push or test again.
Push(i, j, c) ==
    /\ ~running /\ verdict # 0
    /\ i # j /\ \A e \in ToSet(edges[i]) : e.v # j
    /\ \A w \in V : dist[w].value >= -Floor /\ dist[w].strictness <= Floor
    /\ edges' = [edges EXCEPT ![i] = Append(@, [v |-> j, value |-> c])]
    /\ fifo' = IF i \notin ToSet(fifo) /\ Less(Add(dist[i], c), dist[j])
               THEN Append(fifo, i) ELSE fifo
    /\ verdict' = 2
    /\ UNCHANGED <<dist, parent, u, k, running, scans>>

Pop(i) ==
    /\ ~running /\ edges[i] # <<>>
    /\ edges' = [edges EXCEPT ![i] = Front(@)]
    /\ verdict' = 2
    /\ UNCHANGED <<dist, fifo, parent, u, k, running, scans>>

\* The forest and the scan position are local to a test: at its end they are
\* dropped, and every test starts with each vertex a tree of its own.
NoForest == [w \in V |-> NoVertex]
Return(result) ==
    /\ verdict' = result /\ running' = FALSE
    /\ parent' = NoForest /\ u' = NoVertex /\ k' = 1 /\ scans' = 0

\* cdd_tarjan_consistent is called ...
Start ==
    /\ ~running /\ verdict # 0 /\ running' = TRUE
    /\ UNCHANGED <<edges, dist, fifo, parent, u, k, verdict, scans>>

\* ... takes the first vertex of the queue ...
Dequeue_M == \* and leaves it there
    /\ running /\ u = NoVertex /\ fifo # <<>>
    /\ u' = Head(fifo) /\ k' = 1 /\ scans' = scans + 1
    /\ UNCHANGED <<edges, dist, fifo, parent, running, verdict>>
Dequeue ==
    /\ running /\ u = NoVertex /\ fifo # <<>>
    /\ u' = Head(fifo) /\ k' = 1 /\ fifo' = Tail(fifo) /\ scans' = scans + 1
    /\ UNCHANGED <<edges, dist, parent, running, verdict>>

\* ... follows its edges; an edge that improves the distance to v makes v a child
\* of u and takes what hangs below v out of the forest and of the queue.  When u
\* itself hangs below v there is a negative cycle.
Disassembled_M(v) == Append(Keep(fifo, V \ Subtree(v)), v) \* queued twice
Disassembled(v) == Keep(fifo, V \ Subtree(v)) \o
                   (IF v \in ToSet(fifo) THEN <<>> ELSE <<v>>)
Follow ==
    /\ running /\ u # NoVertex /\ k <= Len(edges[u])
    /\ LET v   == edges[u][k].v
           sum == Add(dist[u], edges[u][k].value)
           d   == [dist EXCEPT ![v] = sum]
       IN  IF ~Less(sum, dist[v])
           THEN k' = k + 1 /\ UNCHANGED <<dist, fifo, parent, u, running, verdict, scans>>
           ELSE /\ dist' = d
                /\ IF u \in Subtree(v)
                   THEN /\ fifo' = Populated(d)
                        /\ Return(0)
                   ELSE /\ parent' = [w \in V |-> IF w = v THEN u
                                                  ELSE IF w \in Subtree(v) THEN NoVertex
                                                  ELSE parent[w]]
                        /\ fifo' = Disassembled(v)
                        /\ k' = k + 1
                        /\ UNCHANGED <<u, running, verdict, scans>>
    /\ UNCHANGED edges

Scanned ==
    /\ running /\ u # NoVertex /\ k > Len(edges[u])
    /\ u' = NoVertex /\ k' = 1
    /\ UNCHANGED <<edges, dist, fifo, parent, running, verdict, scans>>

\* ... until the queue is empty.
Finish ==
    /\ running /\ u = NoVertex /\ fifo = <<>>
    /\ Return(1)
    /\ UNCHANGED <<edges, dist, fifo>>

Init ==
    /\ edges = [i \in V |-> <<>>] /\ dist = [i \in V |-> Zero] /\ fifo = <<>>
    /\ parent = NoForest /\ u = NoVertex /\ k = 1
    /\ running = FALSE /\ verdict = 2 /\ scans = 0

Step == Dequeue \/ Follow \/ Scanned \/ Finish
Next == \/ \E i, j \in V : \E c \in Bound : Push(i, j, c)
        \/ \E i \in V : Pop(i)
        \/ Start \/ Step
Spec == Init /\ [][Next]_vars

-----------------------------------------------------------------------------
(* Properties.                                                             *)

\* Types.  The queue is a linked list through an array of vertices, so inserting
\* a vertex that is already queued (tarjan.c:318) would corrupt it.
TypeOK ==
    /\ edges \in [V -> Seq([v : V, value : Bound])]
    /\ dist \in [V -> [value : Int, strictness : Nat]]
    /\ fifo \in Seq(V) /\ IsInjective(fifo) /\ parent \in [V -> V \cup {NoVertex}]
    /\ u \in V \cup {NoVertex} /\ k \in Nat \ {0}
    /\ running \in BOOLEAN /\ verdict \in {0, 1, 2}

\* Reference: a cycle through distinct vertices that is shorter than zero, or of
\* length zero with a strict bound on it.
EdgeTo(i, j) == CHOOSE e \in ToSet(edges[i]) : e.v = j
Linked(i, j) == \E e \in ToSet(edges[i]) : e.v = j
Next1(c, n) == IF n = Len(c) THEN c[1] ELSE c[n + 1]
Cycles == {c \in UNION {[1..n -> V] : n \in 2..Dim} :
             /\ \A a, b \in DOMAIN c : a # b => c[a] # c[b]
             /\ \A n \in DOMAIN c : Linked(c[n], Next1(c, n))}
Total(c) == LET t[n \in 0..Len(c)] == IF n = 0 THEN Zero
                                      ELSE Add(t[n - 1], EdgeTo(c[n], Next1(c, n)).value)
            IN  t[Len(c)]
NegativeCycle == \E c \in Cycles : LET t == Total(c)
                                    IN  t.value < 0 \/ (t.value = 0 /\ t.strictness > 0)

\* cdd_tarjan_consistent returns 1 exactly when the constraints that are on the
\* graph now are satisfiable, whatever was pushed, popped and tested before.
VerdictExact == /\ verdict = 1 => ~NegativeCycle
                /\ verdict = 0 => NegativeCycle

\* Between tests every vertex with an improving edge is queued: the queue and the
\* distances left behind by a test that found a cycle are good for the next one.
QueueCovers == ~running => \A i \in V : Improving(i, dist) => i \in ToSet(fifo)

\* Every edge of the forest is tight: whatever hung below a vertex when its
\* distance improved has been taken out (disassemble), so that a vertex found
\* below another one really closes a negative cycle.
ForestTight == \A w \in V : parent[w] # NoVertex =>
    \E e \in ToSet(edges[parent[w]]) :
        e.v = w /\ dist[w] = Add(dist[parent[w]], e.value)

\* Every test ends, on graphs with and without negative cycles and whatever queue
\* and distances earlier tests left behind, within the bound that subtree
\* disassembly buys: a vertex taken from the queue in the p-th pass hangs at least
\* p - 1 deep in the forest, which leaves Dim - p + 1 vertices for that pass.
TestBounded == scans <= (Dim * (Dim + 1)) \div 2

-----------------------------------------------------------------------------
(* The inductive invariant of the proofs in module TarjanProofs.           *)

\* No loops and no parallel edges (tarjan.c asserts it).
Simple == \A i \in V : \A a, b \in DOMAIN edges[i] :
              edges[i][a].v # i /\ (edges[i][a].v = edges[i][b].v => a = b)

\* Nothing of a test is left between tests.
Idle == ~running => parent = NoForest /\ u = NoVertex /\ k = 1 /\ scans = 0

\* The forest is one, and vertices that wait to be scanned are leaves of it.
Acyclic == \A w \in V : w \notin Subtree(w)
QueuedAreLeaves == u \notin ToSet(fifo) /\ \A x \in V : parent[x] \notin ToSet(fifo)

\* The edges of u that have been followed do not improve anything any more.
Followed == u # NoVertex => \A n \in DOMAIN edges[u] :
    n < k => ~Less(Add(dist[u], edges[u][n].value), dist[edges[u][n].v])

\* Subtree disassembly takes vertices from the queue that may still have improving
\* edges: they are going to be improved themselves.  From the vertices of A some
\* target z of an improving edge of A leads to each of them over edges y -> z with
\* dist[y] + c <= dist[z].
Active == ToSet(fifo) \cup ({u} \ {NoVertex})
Leads(d, A, S) == \A y \in V : \A e \in ToSet(edges[y]) :
    \/ y \in A /\ Less(Add(d[y], e.value), d[e.v])
    \/ y \in S /\ ~Less(d[e.v], Add(d[y], e.value))
    => e.v \in S
Pending == running => \A i \in V : Improving(i, dist) /\ i \notin Active =>
    \A S \in SUBSET V : Leads(dist, Active, S) => i \in S

\* The passes over the queue: in the p-th pass the first q vertices of the queue are
\* left to scan, p - 1 deep in the forest, the others are for the next pass.
Deep(P, w, n) == \E a \in [0..n -> V] : a[0] = w /\ \A i \in 1..n : P[a[i - 1]] = a[i]
InPass(p, q) ==
    /\ 2 * (scans + q) <= p * (2 * Dim - p + 1)
    /\ \A i \in 1..q : Deep(parent, fifo[i], p - 1)
    /\ \A i \in (q + 1)..Len(fifo) : Deep(parent, fifo[i], p)
    /\ u # NoVertex => Deep(parent, u, p - 1)
Passes == running => \E p \in 1..Dim : \E q \in 0..Len(fifo) : InPass(p, q)

IInv == /\ TypeOK /\ scans \in Nat /\ Simple /\ Idle /\ ForestTight /\ Acyclic /\ QueuedAreLeaves
        /\ Followed /\ QueueCovers /\ Pending /\ Passes /\ VerdictExact
=============================================================================
