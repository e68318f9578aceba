------------------------------ MODULE NodeTable ------------------------------
(***************************************************************************)
(* The node kernel of the CDD package (src/src/kernel.c): hash-consed      *)
(* nodes kept in per-manager chunks, saturating reference counts, the two  *)
(* explicit-stack loops cdd_rec_deref and cdd_reclaim, the allocator with  *)
(* its just-in-time garbage collection, and the weak operator caches that  *)
(* are flushed before a collection.                                        *)
(*                                                                         *)
(* A node whose counter is 0 is in one of two conditions the code cannot   *)
(* tell apart: FLOATING (just made or reclaimed: its children are counted) *)
(* or DEAD (released by cdd_rec_deref: its children have been released and *)
(* it is counted in deadcnt).  The history variable dead records which.    *)
(*                                                                         *)
(* Data abstraction.  A node is its level, its children and a label for    *)
(* what else distinguishes two nodes with the same children: the relative  *)
(* negation bits and, for a CDD node, the bounds.  Label 0 means "no       *)
(* relative negation".  Hash chains are left out: a lookup is membership.  *)
(***************************************************************************)
EXTENDS Integers, FiniteSets

CONSTANTS
    Addr,        \* node addresses (the space of all chunks)
    Term,        \* the terminal node, cdd_terminal
    None,        \* no value
    Man,         \* node managers: bddmanager and cddmanager[2], [3], ...
    BddMan,      \* bddmanager (in Man when some node is a BDD node)
    ManOf,       \* the manager whose chunk holds an address
    MaxSize,     \* cdd_maxcddsize, the largest node
    Arity,       \* children per node of a manager
    Level,       \* levels of the variable order
    BddLevel,    \* the levels of type TYPE_BDD
    Label,       \* see above
    Slot,        \* slots of the operator caches
    MAXREF,      \* saturation value of the reference counter
    MINFREE,     \* a manager is collected when more than MINFREE% is dead ...
    THRESHOLD,   \* ... and, in cdd_gbc, at most THRESHOLD% is free
    ChunkNodes,  \* nodes per chunk
    PaddedElem,  \* TRUE when Elem has padding bytes (LP64), see Make
    MaxHold,     \* bound: references a client holds on one node
    MaxDrift     \* bound: how far deadcnt may drift below zero

Node == Addr \cup {Term}

ASSUME NodeTableAssumption ==
    /\ IsFiniteSet(Addr) /\ IsFiniteSet(Man) /\ IsFiniteSet(Level)
    /\ Term \notin Addr /\ None \notin Node \cup Man
    /\ ManOf \in [Addr -> Man]
    /\ MaxSize \in Nat /\ Arity \in [Man -> 2..MaxSize]
    /\ BddMan \in Man => Arity[BddMan] = 2
    /\ Level \subseteq Nat \ {0} /\ BddLevel \subseteq Level
    /\ Label \subseteq Nat /\ 0 \in Label
    /\ MAXREF \in Nat \ {0} /\ MINFREE \in Nat /\ THRESHOLD \in Nat
    /\ ChunkNodes \in Nat \ {0} /\ PaddedElem \in BOOLEAN
    /\ MaxHold \in Nat /\ MaxDrift \in Nat

VARIABLES
    place,    \* "none" (no chunk yet), "free" (free list) or "table"
    node,     \* contents of an address
    ref,      \* reference counters
    deadcnt,  \* NodeManager.deadcnt
    freecnt,  \* NodeManager.freecnt
    tdead,    \* SubTable.deadcnt, per manager and level
    cache,    \* operator cache slots
    hold,     \* references clients and operator frames own (cdd_ref calls)
    ret,      \* result on its way back to the caller, or None
    pend,     \* cdd_rec_deref: how often a node is on the explicit stack
    todo,     \* cdd_reclaim: how often a node is on the explicit stack
    req,      \* node being allocated by cdd_make_*_node, or NoReq
    error,    \* what went wrong: "ok", "CDD_DEREF" or "NULL"
    dead,     \* history: nodes cdd_rec_deref has released
    stale     \* history: dead nodes that have survived a collection

counters == <<deadcnt, freecnt, tdead>>
client   == <<hold, ret>>
loops    == <<pend, todo, req>>
vars     == <<place, node, ref, counters, cache, client, loops, error, dead, stale>>

-----------------------------------------------------------------------------
\* Definitions whose name ends in _M are faulty variants of the definition they
\* precede, kept to show that the properties notice the fault.

\* Saturating counter arithmetic: cdd_satinc, repeated c times, and cdd_satdec.
SatAdd_M(r, c) == r + c \* no saturation
SatAdd(r, c) == IF r + c >= MAXREF THEN MAXREF ELSE r + c
SatDec(r)    == IF r = MAXREF THEN MAXREF ELSE r - 1

Blank == [level |-> 0, kid |-> <<>>, lab |-> 0]
Content(m) == [level : IF m = BddMan THEN BddLevel ELSE Level \ BddLevel,
               kid   : [1..Arity[m] -> Node],
               lab   : Label]
AnyContent == {Blank} \cup UNION {Content(m) : m \in Man}
Empty == [n \in Node |-> 0]
NoEntry == [args |-> {}, res |-> None]
NoReq == [man |-> None, key |-> Blank]

Table        == {a \in Addr : place[a] = "table"}
OfMan(m)     == {a \in Addr : ManOf[a] = m}
FreeList(m)  == {a \in OfMan(m) : place[a] = "free"}
\* The manager's first chunk also holds its sentinel.
AllocCnt(m)  == 1 + Cardinality({a \in OfMan(m) : place[a] # "none"})
Live         == Table \ dead
Kids(a)      == {node[a].kid[i] : i \in DOMAIN node[a].kid}
LevelOf(n)   == node[n].level

\* Positions at which child vector k mentions n, and the references it takes.
At(k, n)     == {i \in DOMAIN k : k[i] = n}
RefKids_M(k) == ref \* the children's counters are left alone
RefKids(k)   == [n \in Node |-> SatAdd(ref[n], Cardinality(At(k, n)))]

Idle == pend = Empty /\ todo = Empty /\ req = NoReq /\ error = "ok"
\* No result with a zero counter is waiting for its first reference.
Settled == ret # None => ref[ret] > 0
\* What a client can name: nodes it holds and the children of those.
Known(n) == hold[n] > 0 \/ \E p \in Addr : hold[p] > 0 /\ n \in Kids(p)

-----------------------------------------------------------------------------
(* cdd_gbc_nodemanager and cdd_operator_flush.                             *)

Due(m) == MINFREE * AllocCnt(m) < 100 * deadcnt[m]

Garbage_M(ms)  == {a \in Table : ManOf[a] \in ms /\ ref[a] <= 1} \* off by one
GarbageSkip_M(ms) == {a \in Table : /\ ManOf[a] \in ms \* one dead node is overlooked
                                   /\ tdead[ManOf[a]][LevelOf(a)] > 1
                                   /\ ref[a] = 0}
Garbage(ms) == {a \in Table : /\ ManOf[a] \in ms
                              /\ tdead[ManOf[a]][LevelOf(a)] # 0
                              /\ ref[a] = 0}

\* Entries with an unreferenced argument or result are dropped.
Flushed_M == [s \in Slot |-> IF \E n \in cache[s].args : ref[n] = 0
                             THEN NoEntry ELSE cache[s]] \* the result is not tested
Flushed == [s \in Slot |-> IF \E n \in cache[s].args \cup {cache[s].res} :
                                n \in Node /\ ref[n] = 0
                           THEN NoEntry ELSE cache[s]]

\* Sweep the managers ms: unreferenced nodes of every subtable that reports
\* dead nodes return to the free list.
Sweep(ms) ==
    /\ place' = [a \in Addr |-> IF a \in Garbage(ms) THEN "free" ELSE place[a]]
    /\ node' = [a \in Addr |-> IF a \in Garbage(ms) THEN Blank ELSE node[a]]
    /\ tdead' = [m \in Man |-> IF m \in ms THEN [l \in Level |-> 0] ELSE tdead[m]]
    /\ freecnt' = [m \in Man |-> IF m \in ms THEN freecnt[m] + deadcnt[m] ELSE freecnt[m]]
    /\ deadcnt' = [m \in Man |-> IF m \in ms THEN 0 ELSE deadcnt[m]]
    /\ dead' = dead \ Garbage(ms)
    /\ stale' = dead \ Garbage(ms)
    /\ cache' = Flushed

\* cdd_gbc, called by a client that has no floating result.
Gbc ==
    /\ Idle /\ ret = None
    /\ Sweep({m \in Man : THRESHOLD * AllocCnt(m) >= 100 * freecnt[m] /\ Due(m)})
    /\ UNCHANGED <<ref, client, loops, error>>

-----------------------------------------------------------------------------
(* cdd_make_bdd_node and cdd_make_cdd_node.                                *)

\* Nodes the lookup can find.  memcmp compares whole Elems, so where Elem has
\* padding bytes (which cdd_push never writes) a CDD node may be missed.
Found(key) == {p \in Table : node[p] = key}
MayMiss_M(m, key) == TRUE \* the search stops too early
MayMiss(m, key) == Found(key) = {} \/ (PaddedElem /\ m # BddMan)

\* Enough memory for one more node (bound: Addr is all the memory there is).
CanAlloc(m) ==
    \/ FreeList(m) # {} \/ Due(m)
    \/ Cardinality({a \in OfMan(m) : place[a] = "none"}) >= ChunkNodes

\* Arguments the operators pass: levels below the node's, no two neighbours
\* equal unless the label tells them apart.
WellOrdered(key) == \A i \in DOMAIN key.kid :
    key.kid[i] # Term => LevelOf(key.kid[i]) > key.level
Reduced(key) == key.lab = 0 => \A i \in DOMAIN key.kid :
    i + 1 \in DOMAIN key.kid => key.kid[i] # key.kid[i + 1]

\* The lookup succeeds: an unreferenced node is reclaimed first.
MakeHit(m, key) == \E p \in Found(key) :
    /\ ret' = p
    /\ todo' = IF ref[p] = 0 THEN [todo EXCEPT ![p] = 1] ELSE todo
    /\ stale' = stale \ {p}
    /\ UNCHANGED <<place, node, ref, counters, cache, hold, pend, req, error, dead>>

\* The lookup fails: reference the children, then allocate.
MakeMiss(m, key) ==
    /\ MayMiss(m, key) /\ CanAlloc(m)
    /\ ref' = RefKids(key.kid)
    /\ req' = [man |-> m, key |-> key]
    /\ ret' = None
    /\ UNCHANGED <<place, node, counters, cache, hold, pend, todo, error, dead, stale>>

Drifted == \E m \in Man : deadcnt[m] <= -MaxDrift \/ freecnt[m] <= -MaxDrift

\* All children are owned by the calling frame (or are the terminal).
MakeHeld == /\ Idle /\ Settled /\ ~Drifted
            /\ \E m \in Man : \E key \in Content(m) :
                /\ WellOrdered(key) /\ Reduced(key)
                /\ \A n \in Node : At(key.kid, n) # {} => n = Term \/ hold[n] > 0
                /\ MakeHit(m, key) \/ MakeMiss(m, key)

\* The high branch of a BDD node is the result just returned, passed on without
\* a reference: cdd_make_bdd_node(level, n, cdd_apply_rec(..)) in cdd_apply_rec,
\* and likewise in tarjan_reduce_rec and cdd_apply_reduce_rec.
MakeFloating == /\ Idle /\ ret # None /\ ret # Term /\ ~Drifted
                /\ BddMan \in Man
                /\ \E key \in Content(BddMan) :
                    /\ WellOrdered(key) /\ Reduced(key)
                    /\ key.kid[2] = ret
                    /\ key.kid[1] = Term \/ hold[key.kid[1]] > 0
                    /\ MakeHit(BddMan, key) \/ MakeMiss(BddMan, key)

\* cdd_alloc_node with an empty free list: collect this manager ...
AllocGbc ==
    /\ req # NoReq /\ error = "ok"
    /\ FreeList(req.man) = {} /\ Due(req.man)
    /\ Sweep({req.man})
    /\ error' = IF Garbage({req.man}) = {} THEN "NULL" ELSE error
    /\ UNCHANGED <<ref, client, loops>>

\* ... or get a chunk from the operating system.
AllocChunk ==
    /\ req # NoReq /\ error = "ok"
    /\ FreeList(req.man) = {} /\ ~Due(req.man)
    /\ \E S \in SUBSET {a \in OfMan(req.man) : place[a] = "none"} :
        /\ Cardinality(S) = ChunkNodes
        /\ place' = [a \in Addr |-> IF a \in S THEN "free" ELSE place[a]]
    /\ freecnt' = [freecnt EXCEPT ![req.man] = @ + ChunkNodes]
    /\ UNCHANGED <<node, ref, deadcnt, tdead, cache, client, loops, error, dead, stale>>

\* Take a free node, initialise it and return it floating.
AllocTake ==
    /\ req # NoReq /\ error = "ok"
    /\ \E a \in FreeList(req.man) :
        /\ place' = [place EXCEPT ![a] = "table"]
        /\ node' = [node EXCEPT ![a] = req.key]
        /\ ret' = a
    /\ freecnt' = [freecnt EXCEPT ![req.man] = @ - 1]
    /\ req' = NoReq
    /\ UNCHANGED <<ref, deadcnt, tdead, cache, hold, pend, todo, error, dead, stale>>

-----------------------------------------------------------------------------
(* References held by clients and operator frames.                         *)

\* cdd_ref of a result, or of a node the client already knows.
Ref(n) ==
    /\ Idle /\ n # Term /\ hold[n] < MaxHold
    /\ n = ret \/ (Settled /\ Known(n))
    /\ ref' = [ref EXCEPT ![n] = SatAdd(@, 1)]
    /\ hold' = [hold EXCEPT ![n] = @ + 1]
    /\ ret' = IF n = ret THEN None ELSE ret
    /\ UNCHANGED <<place, node, counters, cache, loops, error, dead, stale>>

\* A result that needs no reference: it is already owned (cdd_apply_rec drops
\* a branch equal to the previous one).
Discard ==
    /\ Idle /\ ret # None /\ ref[ret] > 0
    /\ ret' = None
    /\ UNCHANGED <<place, node, ref, counters, cache, hold, loops, error, dead, stale>>

PlainDeref(n) ==
    /\ hold[n] > 0
    /\ ref' = [ref EXCEPT ![n] = SatDec(@)]
    /\ hold' = [hold EXCEPT ![n] = @ - 1]
    /\ UNCHANGED <<place, node, counters, cache, loops, error, dead, stale>>

\* A frame gives up a temporary with cdd_deref: the new result owns it now, or
\* is the temporary itself.
DropFrame(n) ==
    /\ Idle /\ ret # None /\ ret # Term
    /\ n = ret \/ n \in Kids(ret)
    /\ PlainDeref(n)
    /\ UNCHANGED ret

\* "cdd_deref(f); return f;": a held result is handed to the caller.
Return(n) ==
    /\ Idle /\ ret = None
    /\ PlainDeref(n)
    /\ ret' = n

\* cdd_rec_deref: the handle goes on the explicit stack ...
Release(n) ==
    /\ Idle /\ ret = None /\ hold[n] > 0
    /\ hold' = [hold EXCEPT ![n] = @ - 1]
    /\ pend' = [pend EXCEPT ![n] = 1]
    /\ UNCHANGED <<place, node, ref, counters, cache, ret, todo, req, error, dead, stale>>

\* ... and each iteration drops one reference; a node that reaches zero is
\* counted dead and its children are pushed.
Dies_M(n) == FALSE \* the last release is not noticed
Dies(n) == ref[n] = 1 /\ MAXREF # 1
RecDerefStep(n) ==
    /\ pend[n] > 0 /\ error = "ok"
    /\ IF ref[n] = 0
       THEN /\ error' = "CDD_DEREF" /\ pend' = Empty
            /\ UNCHANGED <<ref, counters, dead>>
       ELSE /\ ref' = [ref EXCEPT ![n] = SatDec(@)]
            /\ IF Dies(n)
               THEN /\ pend' = [c \in Node |-> pend[c] - (IF c = n THEN 1 ELSE 0)
                                               + Cardinality(At(node[n].kid, c))]
                    /\ deadcnt' = [deadcnt EXCEPT ![ManOf[n]] = @ + 1]
                    /\ tdead' = [tdead EXCEPT ![ManOf[n]][LevelOf(n)] = @ + 1]
                    /\ dead' = dead \cup {n}
               ELSE /\ pend' = [pend EXCEPT ![n] = @ - 1]
                    /\ UNCHANGED <<deadcnt, tdead, dead>>
            /\ UNCHANGED <<freecnt, error>>
    /\ UNCHANGED <<place, node, cache, client, todo, req, stale>>

-----------------------------------------------------------------------------
(* cdd_reclaim.                                                            *)

\* Children pushed when a is popped: those with a zero counter.  The TYPE_CDD
\* branch tests each child after referencing the previous ones; the TYPE_BDD
\* branch tests both children before referencing either.
Pushed_M(a, c) == 0 \* the children are not reclaimed
PushedTwice_M(a, c) == IF ref[c] # 0 THEN 0 ELSE Cardinality(At(node[a].kid, c))
Pushed(a, c) ==
    IF ref[c] # 0 \/ At(node[a].kid, c) = {} THEN 0
    ELSE IF ManOf[a] = BddMan THEN Cardinality(At(node[a].kid, c)) ELSE 1

ReclaimStep(a) ==
    /\ todo[a] > 0
    /\ deadcnt' = [deadcnt EXCEPT ![ManOf[a]] = @ - 1]
    /\ tdead' = [tdead EXCEPT ![ManOf[a]][LevelOf(a)] = @ - 1]
    /\ ref' = RefKids(node[a].kid)
    /\ todo' = [c \in Node |-> todo[c] - (IF c = a THEN 1 ELSE 0) + Pushed(a, c)]
    /\ dead' = dead \ {a}
    /\ UNCHANGED <<place, node, freecnt, cache, client, pend, req, error, stale>>

-----------------------------------------------------------------------------
(* The operator caches.                                                    *)

\* The operator stores its result under its arguments, which its caller holds.
CachePut(s) ==
    /\ Idle /\ ret # None
    /\ \E a, b \in {n \in Addr : Known(n)} :
        cache' = [cache EXCEPT ![s] = [args |-> {a, b}, res |-> ret]]
    /\ UNCHANGED <<place, node, ref, counters, client, loops, error, dead, stale>>

\* A hit: an unreferenced result is reclaimed before it is returned.
CacheHit(s) ==
    /\ Idle /\ Settled /\ ~Drifted
    /\ cache[s] # NoEntry /\ \A n \in cache[s].args : Known(n)
    /\ ret' = cache[s].res
    /\ todo' = IF ref[cache[s].res] = 0 THEN [todo EXCEPT ![cache[s].res] = 1] ELSE todo
    /\ UNCHANGED <<place, node, ref, counters, cache, hold, pend, req, error, dead, stale>>

-----------------------------------------------------------------------------
Init ==
    /\ \E S \in SUBSET Addr :
        /\ \A m \in Man : Cardinality(S \cap OfMan(m)) = ChunkNodes - 1
        /\ place = [a \in Addr |-> IF a \in S THEN "free" ELSE "none"]
    /\ node = [a \in Addr |-> Blank]
    /\ ref = [n \in Node |-> IF n = Term THEN MAXREF ELSE 0]
    /\ deadcnt = [m \in Man |-> 0]
    /\ freecnt = [m \in Man |-> ChunkNodes - 1]
    /\ tdead = [m \in Man |-> [l \in Level |-> 0]]
    /\ cache = [s \in Slot |-> NoEntry]
    /\ hold = Empty /\ ret = None
    /\ pend = Empty /\ todo = Empty /\ req = NoReq
    /\ error = "ok" /\ dead = {} /\ stale = {}

Loop == \/ \E n \in Addr : RecDerefStep(n) \/ ReclaimStep(n)
        \/ RecDerefStep(Term)
        \/ AllocGbc \/ AllocChunk \/ AllocTake

\* Every step except passing a floating child to cdd_make_*_node.
NextHeld ==
    \/ MakeHeld \/ Discard \/ Gbc \/ Loop
    \/ \E n \in Addr : Ref(n) \/ DropFrame(n) \/ Return(n) \/ Release(n)
    \/ \E s \in Slot : CachePut(s) \/ CacheHit(s)
Next == NextHeld \/ MakeFloating

SpecHeld == Init /\ [][NextHeld]_vars
Spec     == Init /\ [][Next]_vars
\* The loops run to completion on the caller's thread.
FairSpec == Spec /\ WF_vars(Loop)

-----------------------------------------------------------------------------
(* Properties.                                                             *)

\* Nodes that can carry a reference count: type correctness of the kernel's
\* state, with the terminal permanently saturated (kernel.c:166).
TypeOK ==
    /\ place \in [Addr -> {"none", "free", "table"}]
    /\ node \in [Addr -> AnyContent]
    /\ \A a \in Addr : node[a] \in Content(ManOf[a]) \cup {Blank}
    /\ \A a \in Table : node[a] # Blank
    /\ ref \in [Node -> 0..MAXREF] /\ ref[Term] = MAXREF
    /\ deadcnt \in [Man -> Int] /\ freecnt \in [Man -> Int]
    /\ tdead \in [Man -> [Level -> Int]]
    /\ cache \in [Slot -> [args : SUBSET Addr, res : Node \cup {None}]]
    /\ \A s \in Slot : cache[s].res = None => cache[s] = NoEntry
    /\ hold \in [Node -> Nat] /\ hold[Term] = 0
    /\ ret \in Node \cup {None}
    /\ pend \in [Node -> Nat]
    /\ todo \in [Node -> Nat] /\ todo[Term] = 0
    /\ \/ req = NoReq
       \/ \E m \in Man : \E key \in Content(m) : req = [man |-> m, key |-> key]
    /\ error \in {"ok", "CDD_DEREF", "NULL"}
    /\ dead \subseteq Table /\ stale \subseteq dead

\* Edges into n from nodes that own their children.
EdgesOf(L, nd, n) == {e \in L \X (1..MaxSize) : e[2] \in At(nd[e[1]].kid, n)}
EdgesInto(n) == EdgesOf(Live, node, n)
Requested(n) == IF req = NoReq THEN 0 ELSE Cardinality(At(req.key.kid, n))
\* References to n: handles and frames, the deref stack, edges, the request.
Owed(n) == hold[n] + pend[n] + Cardinality(EdgesInto(n)) + Requested(n)

\* No node has fewer counted references than owners, unless saturated: the
\* guarantee behind "all nodes are internally reference counted" (cdd.h:134).
RefSafe == \A n \in Addr : ref[n] = MAXREF \/ ref[n] >= Owed(n)

\* Counters are exact: no reference is ever leaked.
RefExact == \A n \in Addr : ref[n] = MAXREF \/ ref[n] = Owed(n)

\* deadcnt is the "Number of dead nodes" (kernel.h), freecnt that of free ones.
DeadOf(m) == dead \cap OfMan(m)
DeadAt(m, l) == {a \in DeadOf(m) : LevelOf(a) = l}
Counted == \A m \in Man :
    /\ deadcnt[m] = Cardinality(DeadOf(m))
    /\ freecnt[m] = Cardinality(FreeList(m))
    /\ \A l \in Level : tdead[m][l] = Cardinality(DeadAt(m, l))
CountersExact == Idle => Counted

\* Everything a client can reach is in the table, above its children in the
\* order, and owns them: no collection or reuse of an address shows.
WellFormed == Idle => \A a \in Live :
    \A n \in Kids(a) \ {Term} : n \in Live /\ LevelOf(n) > LevelOf(a)

\* A counted node, a result and a node on a stack are in the table: no
\* reference anyone owns outlives its node (kernel.c:519-531 frees at zero).
NoDangling == \A n \in Addr :
    ref[n] > 0 \/ hold[n] > 0 \/ pend[n] > 0 \/ todo[n] > 0 \/ ret = n => n \in Table

\* "There are no duplicate nodes" (cdd.h:53).
Unique == \A a, b \in Table : node[a] = node[b] => a = b

\* The strengthening that makes Unique inductive: while a node is being
\* allocated, no other node gets its key.
UniqueInv == Unique /\ (req # NoReq => Found(req.key) = {})

\* BDD nodes are compared field by field (kernel.c:645): whatever padding Elem has, they
\* have no duplicates.  The second definition is the strengthening.
UniqueBdd == \A a, b \in Table : ManOf[a] = BddMan /\ node[a] = node[b] => a = b
UniqueBddInv == UniqueBdd /\ (req # NoReq /\ req.man = BddMan => Found(req.key) = {})

\* A cache entry never names an address that has been collected.
CacheFresh == \A s \in Slot : cache[s] # NoEntry =>
    cache[s].args \cup {cache[s].res} \subseteq Table \cup {Term}

\* The strengthening that makes RefSafe and NoDangling inductive: one loop
\* runs at a time, only a node on the reclaim stack is both dead and counted,
\* results are not dead, and the nodes that are not stale (which include all
\* cached results) are closed under children and ordered.
OneLoop ==
    /\ \A n, k \in Node : pend[n] > 0 => todo[k] = 0 /\ ret = None
    /\ req # NoReq => ret = None /\ \A n \in Node : pend[n] = 0 /\ todo[n] = 0
    /\ error # "ok" => error = "NULL" /\ req # NoReq
DeadZero == \A n \in dead : todo[n] = 0 => ref[n] = 0 /\ ret # n
Ordered(key) == \A i \in DOMAIN key.kid :
    \/ key.kid[i] = Term
    \/ key.kid[i] \in Table \ stale /\ LevelOf(key.kid[i]) > key.level
Closed ==
    /\ \A a \in Table \ stale : Ordered(node[a])
    /\ \A a \in Addr : todo[a] > 0 => a \notin stale
    /\ \A s \in Slot : cache[s].res \notin stale
    /\ req # NoReq => Ordered(req.key)
IInv == TypeOK /\ RefSafe /\ NoDangling /\ CacheFresh /\ OneLoop /\ DeadZero /\ Closed

\* cdd_rec_deref never meets a zero counter, cdd_alloc_node never finds the
\* free list empty after a collection.
NoError == error = "ok"

\* The strengthening that makes NoError inductive: a dead counter is never too large,
\* and a manager's counter and those of its subtables miss the same dead nodes.  A
\* pair <<l, i>> of Missing stands for the i-th dead node that subtable l misses.
Missing(m) == UNION {{l} \X (1..(Cardinality(DeadAt(m, l)) - tdead[m][l])) : l \in Level}
DriftOf(m) ==
    /\ \A l \in Level : tdead[m][l] <= Cardinality(DeadAt(m, l))
    /\ IsFiniteSet(Missing(m))
    /\ deadcnt[m] + Cardinality(Missing(m)) = Cardinality(DeadOf(m))
Drift == \A m \in Man : DriftOf(m)

\* What finding 1 of the README is about: cdd_reclaim pushes a child of a BDD node
\* twice (kernel.c:490-497), or one that is not dead.
CleanReclaim == \A a, c \in Addr :
    todo[a] > 0 /\ ManOf[a] = BddMan /\ c \in Kids(a) /\ ref[c] = 0
        => c \in dead /\ Cardinality(At(node[a].kid, c)) = 1

\* Without it the counters are exact.  The strengthening for RefExact and Counted:
\* what is on the reclaim stack is dead, on it once and not above the result, and
\* so are its unreferenced children.
Reviving == \A a \in Addr : todo[a] > 0 =>
    /\ todo[a] = 1 /\ a \in dead
    /\ ret \in Addr /\ (a = ret \/ LevelOf(a) > LevelOf(ret))
    /\ \A c \in Kids(a) : ref[c] = 0 => c \in dead
Exact == RefExact /\ Counted /\ Reviving

\* Only the result being returned is unreferenced without being counted dead:
\* nothing is lost to a later collection.
NoLostNode == Idle => \A a \in Live : ref[a] = 0 => a = ret

\* The strengthening that makes NoLostNode inductive: while cdd_reclaim runs, a live
\* node may also wait for the reference of a parent on its stack, and an unreferenced
\* node on the stack is the result itself.
Covered ==
    /\ \A a \in Live : ref[a] = 0 => a = ret \/ \E p \in Addr : todo[p] > 0 /\ a \in Kids(p)
    /\ \A a \in Addr : todo[a] > 0 => ref[a] > 0 \/ ret = a

\* What a node holds never changes while someone holds a reference to it.
HeldImmutable == [][\A n \in Addr : hold[n] > 0 =>
                        node'[n] = node[n] /\ place'[n] = "table"]_vars

\* Every loop of the kernel comes to an end.
LoopsEnd == ~Idle ~> Idle
=============================================================================
