# A TLA+ development of the CDD library

The library (`src/src`, `src/include/cdd`) represents sets of clock and Boolean
valuations as Clock Difference Diagrams: decision diagrams with two kinds of
nodes, BDD nodes (a Boolean variable, two branches) and CDD nodes (a difference
of two clocks, a list of intervals), shared through hash tables, reference
counted and garbage collected. This directory holds TLA+ modules that model it,
TLC configurations that check them on small instances, and TLAPS proofs about
the node kernel, the variable order, the consistency test and the operators on
diagrams for instances of any size.

Run, in this directory: `tlc -workers 2 -config levels.cfg Levels`,
`tlc -workers 2 -config nodetable_bdd.cfg MC_NodeTable`,
`tlapm NodeTableProofs.tla`, `tlapm NodeStoreProofs.tla`,
`tlapm LevelsProofs.tla`, `tlapm TarjanProofs.tla`, `tlapm ApplyProofs.tla`,
`tlapm DiagramProofs.tla` (the last two take about twenty minutes each);
`PROJECT.json` lists every run with its module.

## 1. Inventory

| Component | Source | State | Operations |
|---|---|---|---|
| Node kernel | `kernel.c`, `kernel.h` | node managers (one for BDD nodes, one per CDD node size) with chunks, free list, counters; subtables (hash chains) per level; a 10-bit counter per node; the reference stack `cdd_refstack` | `cdd_make_bdd_node`, `cdd_make_cdd_node`, `cdd_ref`, `cdd_deref`, `cdd_rec_deref`, `cdd_reclaim`, `cdd_gbc`, `cdd_alloc_node`, `cdd_rehash`, marking |
| Variable order, life cycle | `kernel.c` | `cdd_levelinfo`, `cdd_diff2level`, `cdd_clocknum`, `cdd_varnum`, `bdd_start_level`, `cdd_running` | `cdd_init`, `cdd_done`, `cdd_add_clocks`, `cdd_add_bddvar` |
| Operator caches | `cache.c`, `cddop.c` | direct-mapped tables for apply, quantification, replacement and relax | lookup, update, flush before a collection |
| Constructors, Boolean operators | `kernel.c`, `cddop.c` | none beyond the caches | `cdd_bddvar`, `cdd_interval`, `cdd_upper`, `cdd_neg`, `cdd_apply`, `cdd_ite`, `cdd_remove_negative` |
| Reduction | `cddop.c` | a constraint graph per call | `cdd_reduce`, `cdd_apply_reduce`, `cdd_reduce2`, `cdd_equiv` |
| Quantification, replacement, zones | `cddop.c`, `relax.c` | caches with an operation number `opid` | `cdd_exist` (with `relax`), `cdd_replace`, `cdd_contains`, `cdd_from_dbm`, `cdd_extract_dbm`, `cdd_extract_bdd` |
| Incremental consistency test | `tarjan.c` | edges, distances, queue; a spanning forest during a test | `cdd_tarjan_push`, `_pop`, `_consistent` |
| Bellman-Ford reduction, debugging | `bellmanford.c`, `debug.c` | edges and distances of one reduction | `cdd_bf_push`, `cdd_bf_pop`, `cdd_bf_consistent`, `cdd_bf_reduce` |
| C++ layer | `cppext.cpp`, `cdd.h` | reference-owning handles (`class cdd`) | `cdd_delay`, `cdd_past`, `cdd_predt`, `cdd_apply_reset`, `cdd_transition`, `cdd_transition_back`, `cdd_bdd_to_array` |
| Printing | `print.c` | none | output |
| External | UDBM, UUtils | | `dbm_*`, bit arrays |

How they interact. Everything is a call on the caller's thread; there are no
threads, no messages and nothing is persistent. The operators call the kernel to
make nodes; a call that makes a node may collect garbage in the middle, which
flushes all operator caches and frees every node whose counter is zero; the
operators therefore hold references (frames) to their intermediate results. The
explicit stacks of `cdd_rec_deref` and `cdd_reclaim` live above the top of the
reference stack the operators use. The caches hold *unreferenced* results, which
`cdd_reclaim` brings back when they are hit. Reduction walks a diagram and drives
the consistency test with pushes and pops, which keeps its distances and its
queue over thousands of tests of one walk. The C++ layer takes a diagram apart into
zones, each with the BDD below it, hands the zones to the DBM library and puts the
changed parts together again.

What is hard. (1) The interplay of counters, dead but not yet collected nodes,
weak caches and collections that start in the middle of an allocation: a legal
sequence of calls decides whether freed memory is reused. (2) State that one
consistency test leaves to the next. (3) Shared caches whose entries mean
different things to different readers. (4) Canonical form, on which constant-time
equality rests, through operators with negation bits, run merging and windows of
consistent intervals. (5) A variable order that grows while nodes, managers and
subtable arrays exist. (6) Loops that extract one zone after the other from a diagram
that is not known to be reduced or non-empty. (7) Quantification over clocks, which
must keep what the removed constraints imply, with caches that do not record which
constraints those were. There is no failure or message handling to speak of, so
the hazards in `PROJECT.json` are sequences, orders, stale state and boundaries.

What makes each component correct:

* kernel: no counter is below the number of owners; nothing that is counted,
  held, returned or on a stack is freed; nodes are unique, closed under children
  and ordered; held nodes never change; the counters that trigger collections are
  exact; every loop ends;
* caches: an entry never names a freed node;
* order: differences, levels and the inverse map agree; levels keep their meaning;
  the subtable arrays cover all levels;
* operators: each denotes the set operation it is named after, in normal form, and
  equal functions are equal diagrams, hence equal pointers where nodes have no duplicates;
* reduction: tautology and emptiness are terminals, equivalence is decided, also
  through the shared cache;
* zones: inclusion is decided, extraction neither adds nor loses valuations;
* consistency test: the verdict is exact after any history; each test ends; the
  Bellman-Ford test leads to the same reduced diagram, up to duplicates of nodes;
* quantification over clocks: no valuation is lost, and none is added when the
  argument is well formed;
* timed operations: delay, past, transitions and the timed predecessor denote what they
  do to every single valuation.

## 2. Modules

| Module | Models | Extends |
|---|---|---|
| `NodeTable` | node kernel and caches, as a state machine with interleaved loop steps | |
| `NodeTableProofs` | theorems about `NodeTable`: references, memory, uniqueness, and the counters that decide when memory is collected | `NodeTable`, TLAPS |
| `Store` | what the kernel promises: a store of immutable values with handles | |
| `NodeStore` | the refinement mapping from `NodeTable` to `Store` | `NodeTable` |
| `NodeStoreProofs` | the proof that `NodeTable` implements `Store` | `NodeStore`, `NodeTableProofs`, `NatFacts` |
| `MC_NodeTable` | instances of `NodeTable` | `NodeStore` |
| `Levels` | variable order and life cycle | |
| `NatFacts` | least elements, induction over sets of naturals, functions defined by recursion | TLAPS |
| `LevelsProofs` | theorems about `Levels` | `Levels`, `NatFacts` |
| `Tarjan`, `MC_Tarjan` | consistency test, its instance | |
| `TarjanProofs` | theorems about `Tarjan` | `Tarjan`, `NatFacts` |
| `Differences` | clocks, levels, raw bounds and their meaning (reference) | |
| `Diagrams` | the constructors, `cdd_apply`, reduction (`cdd_reduce`, `cdd_apply_reduce`, `cdd_reduce2`), `cdd_replace`, inclusion and extraction, as functions on diagram values | `Differences` |
| `DiagramOps` | a client that calls these operators, with the meaning of every result tracked by set operations | `Diagrams` |
| `Recursion` | a function defined by recursion on the naturals satisfies its equation | `NatFacts` |
| `Zones` | diagrams and zones in the C++ layer: the loops over zones, delay, past, the timed predecessor, as functions on diagram values | `Diagrams` |
| `ZoneOps` | the client of `DiagramOps` with delays and pasts | `DiagramOps`, `Zones` |
| `ApplyProofs` | lemmas about the operators: bounds, `cdd_apply`, the constructors, normal form, `cdd_reduce` and `cdd_apply_reduce` | `DiagramOps`, `NatFacts`; instances of `Recursion` |
| `DiagramProofs` | extraction, inclusion, replacement, `cdd_reduce2`, the loops over zones, the timed predecessor; theorems about `DiagramOps` and `ZoneOps` | `ApplyProofs`, `ZoneOps` |
| `Derived` | `cdd_exist` with `relax`, composed of the operators of `Diagrams` | `Diagrams` |
| `BellmanFord` | the second consistency test and the reduction that uses it | `Diagrams` |
| `DerivedOps` | the client of `DiagramOps` with quantification over Booleans too; the Bellman-Ford reduction compared | `DiagramOps`, `Derived`, `BellmanFord` |
| `Timed` | the transitions of the C++ layer, with resets of clocks and Booleans, on the zones of `Zones` | `Derived`, `Zones` |
| `TimedOps`, `MC_DiagramOps` | a client that explores a timed system forwards and backwards; instances of all clients | `DerivedOps`, `Timed`, `ZoneOps` |

Definitions keep the names of the source where TLA+ allows it. A definition whose
name ends in `_M` is a faulty variant of the one that follows it (a dropped test,
an off-by-one, a missing reset); it is used by nothing and documents which fault a
property notices. `PROJECT.json` says which property notices which variant.

### NodeTable

One variable per field group: `place` (no chunk, free list, hash table), `node`
(contents), `ref`, `deadcnt`, `freecnt`, `tdead` (the counters of manager and
subtable), `cache`, `hold` (references owned by clients and operator frames), `ret`
(the result on its way to the caller), `pend` and `todo` (the explicit stacks of
`cdd_rec_deref` and `cdd_reclaim`, as multisets, since their order is not used),
`req` (the node that `cdd_alloc_node` is working for), `error`. `dead` and `stale`
are history variables: the nodes `cdd_rec_deref` has released, and those of them a
collection has passed over. The code cannot tell a dead node from a floating one
(made but not yet referenced), as both have counter 0, and much of what can go
wrong is about that confusion.

| Action | Code |
|---|---|
| `MakeHeld`, `MakeFloating` (with `MakeHit`, `MakeMiss`) | `cdd_make_*_node` up to the allocation; in `MakeFloating` the high branch is the result just returned, passed on without a reference (`cddop.c:321`, `1395`, `1736`) |
| `AllocGbc`, `AllocChunk`, `AllocTake` | `cdd_alloc_node` and the end of `cdd_make_*_node` |
| `Ref`, `Discard`, `DropFrame`, `Return` | `cdd_ref` and the uses of `cdd_deref` in the operators |
| `Release`, `RecDerefStep` | `cdd_rec_deref`: call and one iteration |
| `ReclaimStep` | one iteration of `cdd_reclaim` |
| `CachePut`, `CacheHit`, `Flushed` | the operator caches and their flush |
| `Gbc` | `cdd_gbc` called by a client |

Abstracted: hash chains (a lookup is membership), and the bounds and negation bits
of a node, for which `Label` stands. Clients are arbitrary but obey the protocol of
the operators: they pass on nodes they hold or have just received, and release what
they hold. The gain over modelling one operator is that every order of making,
releasing, hitting the cache and collecting is covered.

### Store, NodeStore

`Store` is the kernel as its clients see it: values (diagrams that contain their
children), how many references a client holds to each, the result being returned and
what the caches may remember. Nothing in it has an address, a counter or a free list; a
held value stays what it is because there is nothing that could change it. `NodeStore`
maps every address of the table to the diagram below it and states `ImplementsStore`:
each action of the kernel is an action of the store or changes nothing it can see.
`Value`, a recursive function, is defined on the `Intact` nodes: those of the table that
no collection has passed over, whose descendants are all there. The terminal and what
is no value have level 0, which no node has. A handle is a value with the number of
references to it (`References`, whatever the addresses). A node that has been asked for
shows as the result from the moment of the call, before it has an address. Collections,
chunks, the reuse of addresses and the explicit-stack loops thereby become invisible
steps. The refinement would fail if a collection freed a node below a held one, if a
cache hit returned what has been rebuilt at a reused address, or if a lookup returned
another node than the one asked for.

### Levels, Tarjan

`Levels` has one action per declaration and one for the creation of a manager by the
first node of a size (`cdd_make_cdd_node`, `kernel.c:709-715`). `Tarjan` has one
action per push and pop, and splits `cdd_tarjan_consistent` into `Start`, `Dequeue`,
`Follow` (one edge), `Scanned` and `Finish`. The linked queue is a sequence; the
preorder list with depths is the forest it encodes. The walk over the descendants of a
vertex, which the code does by depths, is `Below`: the least set of vertices that is
closed under children. `Keep` is the queue without the vertices the walk removes.
`scans` is a history variable.

### Differences, Diagrams, DiagramOps, Derived, DerivedOps

Diagrams are values (a negation bit and a node, a node being its level and edges),
so equality of values stands for equality of pointers: that is what `Unique` of
`NodeTable` provides. It does so where `Elem` has no padding. On LP64 (finding 2) a CDD
node can have duplicates, equal diagrams can be different pointers, and the code, which
compares pointers, takes them for different: what is said here of equal diagrams is then
said up to duplicates, and a comparison of pointers decides less. `test_cdd.cpp:1045`
restricts such a comparison to 32 bits. The operators are translated one for one. Left out of a
value-level model are counters and caches, except where a cached result differs
from a computed one: `cdd_apply_reduce` finds unreduced results of `cdd_apply` in the
cache they share, and takes the set `cached` of levels whose subproblems are there.
The constraint graph that reduction drives is the set of feasible vectors below the
current path; that the real graph decides its emptiness is what `Tarjan` shows. A DBM
is the set of vectors of its zone.

`Differences` gives meaning on a grid: `Unit` = 3 points per time unit separate the
fractional parts of two clocks, and a level is divided into the cells between the
bounds of the instance. `Vectors` are all combinations of cells, `Feasible` those that
some clock valuation induces; the difference is what `cdd_reduce` is about. The
assumptions say what the code and a usable grid give: `DifferencesAssumption` that every
clock difference has one level, the larger clock first (`cdd_add_clocks`; module `Levels`
proves it), and that the terminal comes last; `GridAssumption` that the grid has no holes
and a point in every cell, that a bound stays finite when its clocks are exchanged, and
that the bound `< 0` that `cdd_remove_negative` uses is among the bounds.

A recursive function of the code appears as a family of functions, `ApplyAt[h]` for
diagrams with at most `h` nodes on a path, and the operator itself as the member for
`Depth`: levels increase along a path, so this is no restriction. Recursive *operators*
would be closed to the prover. `Derived` and `BellmanFord`, about which nothing is
proved, keep them.

In `DiagramOps` a client repeatedly replaces its diagram `f` by the result of an
operator applied to `f`, to a constraint it makes and to a diagram `g` it kept
(`Spec`; `SpecAll` of `DerivedOps` adds `cdd_exist` over Booleans).
Alongside, `F` and `G` are computed by set operations. The states are thus all
diagrams that *some sequence of calls* produces, by whatever route.

`cdd_reduce2` walks the children of a node with one union in hand (`prev`, `low`):
`Segments` is the list of the unions it ends up with and their bounds, `Joins` the test
that decides whether the next child goes into the union, `Reduced2` the sum of the
segments. `cdd_replace` gets its two arrays as the constants `LevelMap` and `ClockMap`;
what it has to give is the set of vectors whose `Renamed` vector is in the old set, level
by level and difference by difference. `ClientAssumption` says which arguments make sense:
clock 0 stays clock 0, the two clocks of a difference do not become one, and their
bounds are bounds of the difference they become, possibly with the clocks exchanged.

`cdd_exist` over clocks is modelled with `relax`, the removed constraints `rc` and both
caches. Its argument `clocks[]` is read in two ways: as a list by `cdd_exist_rec`, as a
vector indexed by clock by `relax`, also beyond its end (`cddop.c:682`). The model takes
the two readings as two arguments, `clocks` and `flags`, and the properties quantify over
every content the vector can have for a given list. `keeps` says whether the
direct-mapped caches keep every entry of the call or lose all; neither cache compares
`rc`. What is in between, a cache that has lost some entries, is not enumerated.

### BellmanFord

Edges in the order of the pushes, distances with their number of strict bounds, up to
`ClockNum` passes over the edges. The distances are threaded through the walk as in the
code: they survive from one test to the next and are never reset, while edges are popped.

### Zones, ZoneOps, Timed, TimedOps

`Zones` and `Timed` follow `cppext.cpp`: `Split` and `SplitReduced` are its two loops over
zones (`cdd_predt` does not reduce before it extracts), `Rest` is what one turn leaves over,
`Joined` the union of the changed parts. The loops are functions of the number of rounds
that are left, of which there are no more than vectors (`Rounds`; the proofs show that
this is enough), and what ends in fewer rounds is not affected. `Zones` has delay, past
and the timed predecessor, which need no quantification, and `ZoneOps` the client that
uses them: these two are what the proofs are about. `Timed` and `TimedOps` add resets and
transitions. The DBM operations are external and modelled by
what they do to the valuations of a zone: `Trails` are all delays on the grid with the
valuations they pass through, `Assignments` all resets of one clock. In `ZoneOps` and
`TimedOps` the sets that a client expects are computed from whole clock valuations at once
(`DelayOf`, `PastOf`, `TargetsOf`, `SourcesOf`, `LostTo`), without zones and without
diagrams. `Ready` is the precondition of the loops: non-negative clocks and no empty
diagram in disguise; finding 5 shows what happens without it. `PredtExact` asks more, of
both arguments: that they are reduced (`Usable`). The comment of `cdd_predt`
(`cppext.cpp:224-232`) asks for nothing, but its loops extract from an argument before
they reduce it, and a path that no valuation follows gives an empty zone, which is no
valid DBM.

`TimedAssumption` says of an instance whose client uses timed operations (`Beside # {}`)
what they rely on (`Timely`): the clocks are declared before the Booleans, since the path
of `cdd_extract_dbm` ends at the first Boolean; a clock can be negative; the grid is finite,
and `dbm_up` and `dbm_down` make zones of zones, which is what the real DBM operations do
and a grid must be wide enough to show. TLC checks it in the runs `dd_mixed` and `dd_timed`.

## 3. Runs

| Run | Instance and bounds | Shows |
|---|---|---|
| `nodetable_bdd` | 3 BDD addresses in chunks of 2 (one slot of the first is the sentinel), 2 levels, one cache slot, `MAXREF` 4 | counters never below owners, nothing freed while in use, closed and ordered diagrams, uniqueness, no `CDD_DEREF` or empty free list, nothing lost to collection, held nodes immutable; the kernel implements `Store` |
| `nodetable_mixed` | 2 BDD and 2 CDD addresses, CDD level above BDD level (BDD nodes have only terminal branches, so that finding 1 cannot occur), no padding | the inductive invariant `IInv` of the proofs; cache flushing; no reference leaks; dead and free counters exact; the loops end |
| `nodetable_reclaim` | as `nodetable_bdd`, all children held | **violation**, finding 1 |
| `nodetable_padding` | 3 CDD addresses, with padding | **violation**, finding 2 |
| `levels` | nodes up to size 3, at most 9 levels, 1 or 2 variables per call | order and inverse agree, levels stable, arrays grow |
| `levels_slots` | the same | **violation**, finding 3 |
| `tarjan_verdict` | 3 clocks, bounds `<= -1` and `< 1` | exact verdict, queue covers, forest tight, each test within its bound |
| `dd_mixed` | one difference with three bounds above one Boolean; every operator and every timed operation, with resets of the clock and the Boolean; any levels cached | every operator sound, normal form, canonical, extraction exact, the timed predecessor exact |
| `dd_clocks` | three differences of two clocks | the same with infeasible paths: reduction decides emptiness and tautology also through cached subproblems, `cdd_equiv` and `cdd_contains` exact, the Bellman-Ford reduction gives the diagram that `cdd_reduce` gives (the same pointer where nodes have no duplicates) |
| `dd_timed` | the same differences, two bounds each, non-negative clocks in whole units; timed operations, joins and reduction; six lists of quantified clocks | delays, pasts and transitions sound, the timed predecessor exact, quantification over clocks covers, is exact when the argument is well formed, and is in normal form |
| `dd_contains` | a Boolean above a difference | **violation**, finding 4 |
| `timed_empty` | as `dd_timed` | **violation**, finding 5 |

### Bounds and why they are enough

* Addresses and chunks: `CanAlloc` stops a client when the memory of the instance is
  used up (the real library asks the operating system). Three addresses give a parent
  with a shared child and a third node to reuse the space of either; a chunk of 2
  gives allocation from the free list, by a new chunk and by collection. `MINFREE` 20
  is the code's value, so that one dead node suffices.
* `MAXREF` 4 instead of 1023: with `MaxHold` 1, edges and stacks, counters do reach
  it, so saturation happens; the proofs cover every value.
* `MaxHold` bounds references of one client to one node, `MaxDrift` how far the dead
  and free counters may drift below zero once finding 1 has made them wrong (no
  further nodes are made then).
* `Slot`: one cache slot shared by all operations makes every put a collision.
* `Floor` = 1: edges are pushed while no distance has drifted by more than one, which
  includes pushes onto distances an earlier test has lowered. The bounds of
  `StrictBounds` form cycles of positive, zero (strict and weak) and negative length.
* `MaxLevels`, `MaxAdd`: four clocks, or three with several blocks of Booleans
  before, between and after, in one or several calls.
* `Span`, `RawBnd`: the grid has to show every cell between the bounds, and adding
  more bounds multiplies diagrams. `dd_mixed` has all functions of its 8 cells,
  `dd_clocks` all functions of its feasible cells that calls reach. `dd_timed` works in
  whole units (`Unit` 1, clocks from -2 to 2): DBM operations on a grid without
  fractional parts are exact for the bounds `< 0` and `<= 0` of the instance, and
  delays leave the grid only where no bound can tell.
* `Retain`: the cardinalities of the sets of which the client keeps a copy. `dd_mixed`
  keeps diagrams of at most one valuation, `dd_timed` of one, which is what
  `PredtExact` takes for the safe part and `Canonical` for the other diagram;
  `dd_clocks` keeps none. `Beside`: the timed operations are called while the copy is
  empty, since they do not read it.
* `GuardLevels`: transitions are guarded by constraints on any level in `dd_mixed` and
  by no constraint in `dd_timed`, where `Guard` is an action of its own.
* `ClockResets`, `BoolResets`: none, each clock, both clocks to 0; the Boolean to either
  value. `ClockLists`: lists of one to three clocks, with the reference clock, with a
  repeated entry, and lists that the two readings of the array understand differently.
* `Caches`: every set of levels in `dd_mixed`; the lowest of the three levels in
  `dd_clocks`, so that the upper two are worked on edge by edge and every path ends in
  a cache hit.

Deadlock is checked in every run: a client can always make a further call.
Symmetry is used only in runs of invariants and of one step property, for addresses
of one manager, which the code treats alike (the order of addresses in a hash chain is
abstracted).

### Fairness

Only `nodetable_mixed` has a liveness property, under weak fairness of `Loop`: the
iterations of the explicit-stack loops and of the allocator, which run on the
caller's thread without waiting for anything. No client action is fair. The
termination of the consistency test is checked as a bound (`TestBounded`) and so
needs no fairness.

## 4. Findings

1. `cdd_reclaim` on a BDD node whose branches are the same dead node up to negation
   (`kernel.c:490-497`) tests both counters before it raises either, pushes the child
   twice and reclaims it twice: `deadcnt` becomes too small and the grandchildren keep
   a reference nobody owns. Consequence: leaked nodes and late collections, never a
   node freed too early (`RefSafe` holds; see the proofs). A second cause of the same
   drift, present in `Spec` and excluded from `SpecHeld`, is the floating high branch
   of `MakeFloating`: it may be reclaimed although it is not dead. There is no third:
   `CleanRunsExact` proves that a run without these two loses no reference and no count.
2. `cdd_make_cdd_node` hashes and compares whole `Elem` structures. On LP64 they have
   four bytes of padding, which `cdd_push` does not write and the stacks of the two
   loops overwrite with halves of pointers, so an existing node can be missed. The tests
   know the symptom: `test_reduce` (`test_cdd.cpp:286-308`) requires that `cdd_reduce` and
   `cdd_bf_reduce` return the same pointer, and for three clocks it is compiled for 32 bits
   only, as it "passes only on 32-bit, need to fix it" (lines 1045 and 1064-1067), where an
   `Elem` has no padding. `BfReduceSame` checks that the two reductions agree as diagrams,
   so the models blame the pointers and not the algorithms; whether something else differs
   between 32 and 64 bits as well, they do not say.
3. `add_levels` (`kernel.c:1033`) leaves out the manager of the largest nodes.
4. `cdd_contains` ignores the negation bit of a pointer to a BDD node (`cddop.c:409`).
5. The loop of `cdd_apply_reset` (`cppext.cpp:543`) tests that its diagram is not a
   terminal, reduces it and extracts a zone without testing again. A diagram that no
   valuation satisfies but that is not `cddfalse` becomes `cddfalse` in between, and the
   zone of all non-negative clocks is extracted from it: a transition whose guard meets
   no state leads to states. `cdd_delay`, `cdd_past` and `cdd_transition_back` have the
   same loop; a reduced argument avoids it.

Also noticed, not the subject of a run: `relax` keeps all consequences of removed
constraints only if the array `clocks[]` names each listed clock in both of its readings
(the condition of `ExistExact`); otherwise the result of `cdd_exist` is larger than the
projection, never smaller (`ExistCovers`). `bdd_start_level` is overwritten by every
call of `cdd_add_bddvar` (`kernel.c:1088`), while `cdd_predt_dbm` takes `cdd_varnum`
levels from there on for the Booleans; `relax` keeps a reference in its CDD case that
it gives up in its BDD case (`cddop.c:746`, `762`); `cdd_rehash` tests
`postgbc_handler` and calls `postrehash_handler`.

## 5. Proofs

`NodeTableProofs` proves, for every number of addresses, managers, levels, labels and
cache slots, every `MAXREF`, `MINFREE`, `THRESHOLD` and chunk size:

| Theorem | Statement |
|---|---|
| `TypeCorrect` | `Spec => []TypeOK` |
| `RefCountsSafe` | `Spec => []RefSafe`: a counter is saturated or at least the number of owners |
| `NothingDangles` | `Spec => []NoDangling`: what is counted, held, returned or on a stack is in the table |
| `CachesFresh` | `Spec => []CacheFresh` |
| `NeverReleasedTwice` | `Spec => [](error # "CDD_DEREF")` |
| `DiagramsWellFormed` | `Spec => []WellFormed` |
| `HeldNodesImmutable` | `Spec => HeldImmutable` |
| `NodesUnique` | `Spec => []Unique`, assuming `PaddedElem = FALSE` |
| `BddNodesUnique` | `Spec => []UniqueBdd`: with or without padding there are no two equal BDD nodes |
| `Invariance` | `Spec => []IInv`, the inductive invariant below |
| `NothingLost` | `Spec => []NoLostNode`: between calls a live node is referenced or is the last result |

The argument. `RefSafe` is not inductive by itself: a step of `cdd_rec_deref` that finds
its node dead, or a cache hit on a node whose children have been freed, would break it.
`IInv` adds that only one loop runs at a time and no result waits while one does
(`OneLoop`); that a dead node has counter 0 and is not being returned unless
`cdd_reclaim` is at work on it (`DeadZero`); and that the nodes that are not `stale` -
dead nodes that a collection has passed over because their subtable reported no dead
node, which finding 1 makes possible - are closed under children and ordered, that no
cache entry and no reclaim stack names a stale node, and that the key of a requested
node is ordered (`Closed`). The flush before each collection gives the cache part.
`nodetable_mixed` checks `IInv` as it is used in the proof. The core of the step proofs
is how `Owed` (holds, stack entries, edges from live nodes, the request) changes in each
action; lemmas about cardinalities of edge sets (`EdgesOf`) carry it. `NothingLost`
needs one more strengthening, since `cdd_reclaim` revives a node before it references
the children: `Covered` says that meanwhile an unreferenced live node is a child of a
node on the reclaim stack, and that an unreferenced node on that stack is the result
itself. It is inductive relative to `IInv`. `BddNodesUnique` needs the lookup of BDD
nodes only, and that a key tells its manager by its level (`SameManager`), so that a new
CDD node cannot be a copy of a BDD node. The theorems rest on `NodeTableAssumption`
only. That they hold although finding 1 makes `deadcnt` wrong is worth saying: the
counters decide *when* memory is collected, never *what* is freed.

The second part of the module is about those counters, and about references that are
lost rather than missing:

| Theorem | Statement |
|---|---|
| `NeverFails` | `Spec => []NoError`: `cdd_rec_deref` meets no zero counter, and a collection that `cdd_alloc_node` starts leaves a free node |
| `CleanRunsExact` | `Spec /\ []CleanReclaim => [](RefExact /\ CountersExact)` |
| `NoLeaks` | `Spec => []RefExact`, assuming that every level of a Boolean is the lowest of the order |
| `CountersTrue` | `Spec => []CountersExact`, under the same assumption |

`NeverFails` holds in every run, the faulty ones included. `cdd_alloc_node` collects
when the manager reports dead nodes, and a collection visits only the subtables that
report some; it would find the free list empty afterwards if a manager's counter
reported dead nodes where no subtable did. `Drift` is the invariant that excludes it:
neither counter is ever too large, and a manager's counter and the counters of its
subtables miss *the same number* of dead nodes. The sum over the subtables is not
written as a sum, which would need induction over data, but as the cardinality of a set
of pairs (`Missing`); `RanksCount` numbers the dead nodes level by level to show that no
node is counted twice.

`CleanReclaim` says of one state what finding 1 violates, the doubled child and the
floating one. `Exact` is inductive relative to `IInv` and `Covered` where `CleanReclaim`
holds: references and counters are exact, and (`Reviving`) a node on the reclaim stack
is dead, on the stack once and not above the result that is being revived, and its
unreferenced children are dead too. The assumption of `NoLeaks` and `CountersTrue` is
one on the instance: clocks only, or a single Boolean below all clocks, as in
`nodetable_mixed`. Then a BDD node has only the terminal as child, and `CleanReclaim` is
a consequence of `IInv` (`LowestIsClean`). For other orders the code does lose count, as
`nodetable_reclaim` shows, and the theorem that remains is `CleanRunsExact`.

Before they were proved, TLC checked `Drift` and `CleanReclaim => Exact`, each as an
invariant, on the instances of `nodetable_bdd` and `nodetable_mixed`.

`NodeStoreProofs` proves the refinement, for the same instances and from
`NodeTableAssumption` only:

| Theorem | Statement |
|---|---|
| `KernelImplementsStore` | `Spec => ImplementsStore`: every step of the kernel is a step of `Store` or does not show |

The argument. *Values are well defined.* A recursive function is a `CHOOSE`, so there
must be a solution, and it must be the only one where it matters. Intact nodes are
`Grounded`: their children are intact and on a higher level (`Closed` in `IInv`). A
solution is built from the highest level downwards (`SolutionExists`), and two solutions,
of the states before and after a step too, agree on nodes with the same descendants
(`SolutionsAgree`, `ValuesKept`). *Clients see intact nodes only* (`Visible`): what they
hold, have been returned, have requested or find in a cache. For the arguments of cached
results that is `ArgsIntact`, which the flush before a collection maintains and which is
proved invariant here. *Steps.* There is one lemma per action. `SweepShows`: a
collection makes caches forget and nothing else, since it keeps every node below a
visible one. `MakeShows`: the result has the value asked for, whether the lookup finds a
live node, revives a dead one or even a stale one (the client has the children, so they
are intact), or the node is still to be allocated. `RefShows`, `DerefShows`: a reference
more or less at one address is one more or less to its value. The statement does not
assume that values have one address: it holds with the duplicates of finding 2.
`CachePutShows`, `CacheHitShows`: a hit returns the value that was remembered, also if
the node is dead. `LoopHidden`, `TakeHidden`: iterations of the loops, chunks and the
allocation of a requested node do not show.

`LevelsProofs` proves, for every number of clocks, Booleans, node sizes and calls, from
`LevelsAssumption` only:

| Theorem | Statement |
|---|---|
| `OrderInvariant` | `Spec => []IInv`, the inductive invariant of the declarations |
| `OrderIsExact` | `Spec => []OrderExact`: `cdd_diff2level` leads from every difference to its level |
| `SlotsFit` | `Spec => []SlotsBelowMax`: below the largest node size every level has its subtable |
| `LevelsNeverChange` | `Spec => LevelsStable`: a declared level keeps its meaning |

The argument has two parts. The first is arithmetic: `cdd_difference(i, j)`, that is
`i (i - 1) / 2 + j`, numbers the pairs `j < i` without gaps or repetitions
(`NumbersDiffer`, `NumbersCovered`), because `n (n - 1) / 2` grows by at least `c` from
`c` to a larger clock (`CountGrows`) and, for the gaps, because there is a least number
of clocks that has more than `k` differences (`LeastElement` of `NatFacts`). So the loop
of `cdd_add_clocks` gives the k-th new level to the k-th difference and fills exactly
the cells that are new. The second is the invariant: `OrderExact` and `SlotsBelowMax`
say nothing of a stopped library, and a declaration needs to know that the number of
levels is the number of differences plus that of Booleans, so `Levels!IInv` states the
types, the count, the inverse map and the lengths of the arrays whether or not the
library runs.

`TarjanProofs` proves, for every number of clocks, every set of bounds and every
sequence of pushes, pops and tests, from `TarjanAssumption` only:

| Theorem | Statement |
|---|---|
| `TarjanInvariant` | `Spec => []IInv`, the inductive invariant of the test |
| `TarjanTypes` | `Spec => []TypeOK`; in particular no vertex is queued twice |
| `VerdictIsExact` | `Spec => []VerdictExact`: the test returns 1 exactly when no cycle is negative |
| `QueueMissesNothing` | `Spec => []QueueCovers`: between tests every vertex with an improving edge is queued |
| `ForestStaysTight` | `Spec => []ForestTight`: an edge of the forest accounts for the distance of its target |
| `TestsAreBounded` | `Spec => []TestBounded`: a test scans at most `Dim (Dim + 1) / 2` vertices |

The argument. *A verdict of 1.* If no edge improves, the distances are a potential, and
the length of every cycle is at least zero (`FeasibleNoCycle`, by induction along the
cycle on distances with their strictness). That an empty queue means that no edge
improves is the difficult part, since subtree disassembly takes vertices off the queue
that still have improving edges. `Pending` says why that is allowed: every vertex that
has an improving edge and is neither queued nor being scanned lies behind one that will
be improved first. It belongs to every set that contains the targets of improving edges
of active vertices and is closed under edges `y -> z` with `dist[y] + c <= dist[z]`.
With an empty queue the empty set is such a set, so no such vertex is left. The vertices
that `cdd_tarjan_consistent` disassembles hang below the improved vertex by tight edges
(`ForestTight`), which is how they get there (`ImprovePending`). *A verdict of 0.* When
the scanned vertex lies below the target of its improving edge, the tight path between
them and that edge form a cycle whose length is the improvement, hence negative
(`ClosedCycle`). That needs the forest to be one (`Acyclic`) and its path to be a cycle
of the graph. *The bound.* `QueuedAreLeaves` makes the queued vertices and their
ancestors disjoint. In the p-th pass a queued vertex has p - 1 ancestors (`Deep`), so a
pass scans at most `Dim - p + 1` vertices (`PassSize`), and there are at most `Dim`
passes; `Passes` adds them up. This holds whatever distances and queue the test starts
from and whether or not there is a negative cycle, which is why termination needs no
fairness. *Between tests* `QueueCovers` has to survive pushes, pops and a test that
stops at a negative cycle, with the queue and distances it leaves behind.

TLC checked `IInv` on three vertices before the proof. `VerdictExact` defines lengths of
cycles by a recursive function; induction on them, as on climbs through the forest and
on sequences (`Keep`), is done over a set of naturals (`Induction` of `NatFacts`), which
the provers can instantiate.

`DiagramProofs`, on the lemmas of `ApplyProofs`, proves for every number of clocks, every
order of levels with or without Booleans, every set of bounds, every grid and every sequence
of calls, from `DifferencesAssumption`, `GridAssumption` and `ClientAssumption` (a cache is
described by a set of levels; the arguments of `cdd_replace` are maps of levels and clocks
that make sense for the bounds of the instance), `DelayDenote` and `DelaySoundness` also
from `TimedAssumption`:

| Theorem | Statement |
|---|---|
| `Denote` | `Spec => []IInv`, the inductive invariant below |
| `Soundness` | `Spec => []Sound`: every diagram denotes the set that the set operations give, after constructors, Boolean operators, all three reductions, replacements and extractions in any order |
| `Normality` | `Spec => []Normal`: every diagram is in normal form |
| `Canonicity` | `Spec => []Canonical`: the same function of the level values is the same diagram, hence the same pointer where nodes have no duplicates |
| `SemiCanonicity` | `Spec => []SemiCanonical`: `cdd_reduce` decides emptiness and tautology |
| `ApplyReduceCanonicity` | `Spec => []ApplyReduceCanonical`: so does `cdd_apply_reduce`, whichever levels have their unreduced results in the cache |
| `EquivExactness` | `Spec => []EquivExact`: `cdd_equiv` decides equality of sets |
| `ExtractExactness` | `Spec => []ExtractExact`: the extracted zone and BDD are what the diagram says |
| `ContainsExactness` | `Spec => []ContainsExact` where no level is a Boolean; with Booleans it fails, finding 4 |
| `DelayDenote` | `SpecDelays => []IInv`: the invariant of a client that also delays and goes back in time |
| `DelaySoundness` | `SpecDelays => []Sound`: the loops of `cdd_delay` and `cdd_past` over zones neither lose nor add a valuation |
| `PredtExactness` | `SpecDelays => []PredtExact`: `cdd_predt` returns exactly what can delay into the target and not be saved, for the arguments described above, if the instance is `Timely` |

The argument. `IInv` says of both diagrams of the client that they `Denote` their sets: a
diagram is in `Cdds`, and `Leaf`, what it says of a valuation, is 1 exactly on the set.
`Cdds` are the diagrams in normal form whose bounds are bounds of the instance. `Sound`
alone is not inductive: an operator is right only on diagrams whose edges cover every
value of their difference once (`CoverExists`, `CoverUnique`), which is what normal form
is for. One lemma per operator shows that it keeps `Denotes`, and nothing else about the
client is needed (`NextDenotes`).

*Recursion.* The operators are functions of functions of functions; `Recursion!Def`,
instantiated for each family, gives its equation, and induction on the height is done
with `Induction` of `NatFacts`. *`cdd_apply`.* `MergeFrom` shows that the one pass over two
edge lists produces increasing bounds, each with the pair of edges that covers the
interval below it; `PackIs` that one edge per run of equal results, with the negation bit
moved to the front, says the same and is in normal form. *Constructors.* `BelowFlip` is
the exchange of clocks: a difference satisfies a bound exactly when its opposite does not
satisfy the flipped one. *Canonicity.* Two diagrams that say the same of all vectors are
equal by induction on the height: the first edge being regular fixes the negation bit,
and a bound that only one of them has would separate equal neighbours (`SameBounds`). It
needs a vector in every cell, hence `GridAssumption`.

*Reduction.* On a set `P` of vectors a result `Represents` a function if it says what the
function says on `P` and, where `P` is zonal and the function constant on it, is a
terminal. The second half is the difficult one. The code tests one bound of a child at a
time, and a child of the window that no vector of `P` follows would keep a result of its
own; so every child of the window must have a vector, given that one satisfies its upper
bound and one its lower bound (`Between`). That holds for `Zonal` sets, those whose clock
valuations are closed under the maximum of one and a shifted other, translated back so
that clock 0 is zero: bounds on differences keep that property (`JoinBetween`) and the
feasible vectors have it (`FeasibleZonal`), so every set that reduction meets has it. The
results on the window are then the same terminal, and one run. `cdd_apply_reduce` is
proved with the same window, for any set of cached levels: a cache hit is a reduction of
a result of `cdd_apply`.

*`cdd_reduce2`.* `Segmented` is the invariant of the loop over the children: the segments of
the first `k` children, each inside its bounds, say of every feasible vector what these
children say inside theirs. A segment grows only if `cdd_equiv` calls both ways the same,
and that is decisive because the same has been proved of `cdd_equiv` (`EquivIs`); outside
its bounds a segment may say anything, which `add_bound` cuts off. The recursion is on
segments, which are unions of children and not children, so the induction is on the height
that a diagram's top level leaves. *Replacement.* `RenamedIs` shows that `Renamed` is
defined: the valuation whose clock `i` has the value of clock `ClockMap[i]` induces it.
`ReplacedEdge` shows that the interval of the replacing clocks says of a vector what the
edge says of the renamed vector, by `BelowFlip` when the clocks come in the other order.
Both operators end in sums over edges, one union after the other (`UnionIs`).

*Extraction.* A set is `Closed` if it is the intersection of the bounds that hold on it; the
zones on a path are (`PushClosed`). The external `dbm_analyzeForMinDBM` returns a smallest
set of entries that define the zone; `MarksAre` shows that there is one and that it
defines the zone, which makes `cdd_from_dbm` right. *Inclusion.* `cdd_contains` narrows
the zone to each edge; without Booleans the answer is that every vector of it leads to
true.

*The loops over zones.* `ExtractExact` is about one extraction. A loop is right if the
zones it extracts, each with the Booleans below it, cover the diagram (`PartsOf`), and if it
ends. For both, the first path of the diagram has to meet the set in every round. It does
in a `Lean` diagram, one in which every edge above the Booleans is taken by some vector of
the set that gets there: the path then ends in a BDD other than false, which is true of a
vector of the zone, since every clock valuation goes with every Boolean valuation
(`FeasibleFree`, `LeanHolds`). Whatever `cdd_reduce` returns is lean (`ReduceLean`), because
every child of its window has a vector (`Between`, again). So every round takes a vector
out of the set (`RoundIs`), and there are enough rounds in `Rounds`, the number of vectors
(`RoundShrinks`). A zone is `Closed`, and `dbm_up` and `dbm_down` keep it so, which is what
makes `cdd_from_dbm` right on the changed zones (`JoinedIs`). A delay keeps the Booleans
(`TrailIs`), so that a changed zone goes with the BDD of the unchanged one.

*`cdd_predt`.* The code restricts the safe part to the BDD of a part of the target and to
one valuation of the Booleans and takes that apart without reducing it; a conjunction with a
BDD leaves a lean diagram lean (`AndLean`). Its zones, looked at without their Booleans,
meet the same delays under that valuation as the safe part does (`SafeFedIs`); a delay is
the same one under other Booleans (`TrailUnder`), so that the federation may ignore them
and the literals of the valuation cut the result down again (`ConjIs`). A safe part that
says nothing of the clocks has no zones and stands for all of them. If the Booleans of the
part meet nothing safe, all of the past is lost (`PredtDbmIs`). The union over valuations
and parts is the set `LostTo` (`PredtIs`). Of the zones of a federation the proof uses that
their union is the federation.

TLC checks the conjuncts of what `IInv` says that it can evaluate, `Sound` and `Normal`, in
`dd_mixed` and `dd_clocks`; `Cdds` itself is a set of diagrams over sequences of any
length, which TLC does not enumerate.

Only model-checked: liveness (`LoopsEnd`), which is out of the prover's reach, and whatever
`Derived`, `BellmanFord` and `Timed` add: `cdd_exist` as a step of `SpecAll`, transitions as
steps of `SpecMixed` and `SpecZones`, and the invariants `BfReduceSame`, `ExistCovers`,
`ExistExact` and `ExistNormal`. The theorems are about `Spec` and `SpecDelays`;
`dd_mixed`, `dd_clocks` and `dd_timed` check the same invariants along the more numerous
steps of `SpecMixed`, `SpecAll` and `SpecZones`. Every invariant and step property of
`NodeTable`, `NodeStore`, `Levels`, `Tarjan`, `DiagramOps` and `ZoneOps` that a passing run
checks is proved, the exact counters and inclusion under the assumptions above.

## 6. Not modelled

* Hash chains, rehashing and its handlers, marking and counting, extra terminals
  (`MULTI_TERMINAL`), failing allocations, the depth of the reference stack. A lookup is
  membership in `NodeTable`; the order within a chain decides no result.
* Operator frames on top of the node table: `NodeTable` has arbitrary clients that
  obey the protocol, and so does not show where one operator breaks it
  (`cdd_remove_negative`, the cache hit of `cdd_apply_reduce`, `cdd_extract_dbm`, the
  reference that `relax` keeps in its CDD case).
* `class cdd`: its handles are clients of `NodeTable` (a reference per handle), their
  copy and assignment operators are not modelled themselves.
* `cdd_bdd_to_array`, which lists the paths of a BDD for a caller, and printing: they
  change no state of the library.
* DBMs of fewer clocks than are declared: the comparisons with `dim` in `cdd_contains`
  (`cddop.c:389`) and `cdd_from_dbm` (`cddop.c:1016`) are left out. Every DBM of the models
  is over all clocks.
* The error for a node with more than `cdd_maxcddsize` edges (`kernel.c:698`).
* Direct-mapped caches that have lost a part of their entries. `cdd_apply_reduce` finds all
  subproblems of a level or none (`cddop.c:1584-1595`), `relax` and `cdd_exist_rec` find
  every earlier result of the call or none (`cddop.c:663-668`, `796-800`).
* Booleans that are declared by several calls, where `bdd_start_level` names only the
  last block: `cdd_predt` is modelled for one block of Booleans.
* The external libraries, other than what their zone operations do to valuations.
  Distances of `Tarjan` and `BellmanFord` are unbounded integers.

## 7. Plan

1. `Frames`: the operators of `cddop.c` whose reference protocol is not that of an
   arbitrary client, as call frames over `NodeTable` (hazards at `cddop.c:1121`, `1593`,
   `1171`, `746`) and with the depth of the reference stack.
2. Hash chains and rehashing as a module that implements `Found`, with ordered chains
   and the search resumed after a collection.
3. `Timed` composed with `Levels`, for Booleans declared in several blocks.
4. Proofs about `Derived` and `Timed`: quantification, whose functions would first have
   to be written without recursive operators, and transitions, which build on it.
5. Caches of quantification that keep any part of their entries.
