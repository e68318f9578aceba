--------------------------- MODULE NodeTableProofs ---------------------------
(***************************************************************************)
(* Proofs about module NodeTable.  The conjunction IInv is inductive; the  *)
(* properties follow from it.  First come facts about counting edges and   *)
(* about the invariant in one state, then one lemma per action.  The        *)
(* second part is about the counters that decide when memory is collected:  *)
(* they never promise a dead node that is not there, and they are exact,    *)
(* like the reference counts, as long as cdd_reclaim revives each node once. *)
(***************************************************************************)
EXTENDS NodeTable, FiniteSetTheorems, FunctionTheorems, TLAPS

\* A node made by cdd_make_*_node mentions a child finitely often.
LEMMA AtCount ==
    ASSUME NEW m \in Man, NEW key \in Content(m), NEW n
    PROVE  /\ IsFiniteSet(At(key.kid, n)) /\ Cardinality(At(key.kid, n)) \in Nat
           /\ Cardinality(At(key.kid, n)) = 0 <=> At(key.kid, n) = {}
           /\ At(key.kid, n) \subseteq 1..MaxSize
<1>1. At(key.kid, n) \subseteq 1..Arity[m]
  BY DEF At, Content
<1>2. 1..Arity[m] \subseteq 1..MaxSize /\ Arity[m] \in Nat
  BY NodeTableAssumption
<1>3. IsFiniteSet(1..Arity[m])
  BY <1>2, FS_Interval
<1> QED BY <1>1, <1>2, <1>3, FS_Subset, FS_EmptySet, FS_CardinalityType

\* The edges into a node can be counted.
LEMMA EdgesFinite ==
    ASSUME NEW L \in SUBSET Addr, NEW nd, NEW n
    PROVE  IsFiniteSet(EdgesOf(L, nd, n)) /\ Cardinality(EdgesOf(L, nd, n)) \in Nat
<1>1. IsFiniteSet(L)
  BY NodeTableAssumption, FS_Subset
<1>2. IsFiniteSet(1..MaxSize)
  BY NodeTableAssumption, FS_Interval
<1>3. IsFiniteSet(L \X (1..MaxSize))
  BY <1>1, <1>2, FS_Product
<1> QED BY <1>3, FS_Subset, FS_CardinalityType DEF EdgesOf

\* Releasing nodes, or freeing them, adds no edge into n.
LEMMA EdgesMono ==
    ASSUME NEW L \in SUBSET Addr, NEW M \in SUBSET L, NEW nd, NEW od, NEW n,
           \A a \in M : nd[a] = od[a]
    PROVE  Cardinality(EdgesOf(M, nd, n)) <= Cardinality(EdgesOf(L, od, n))
<1>1. EdgesOf(M, nd, n) \subseteq EdgesOf(L, od, n)
  BY DEF EdgesOf
<1> QED BY <1>1, EdgesFinite, FS_Subset

\* A node that comes to own its children (AllocTake, ReclaimStep) adds exactly
\* its own edges; read from right to left, one that dies takes them away.
LEMMA EdgesAdd ==
    ASSUME NEW L \in SUBSET Addr, NEW a \in Addr, a \notin L, NEW nd, NEW n,
           At(nd[a].kid, n) \subseteq 1..MaxSize
    PROVE  Cardinality(EdgesOf(L \cup {a}, nd, n))
             = Cardinality(EdgesOf(L, nd, n)) + Cardinality(At(nd[a].kid, n))
<1> DEFINE E == EdgesOf(L, nd, n)  A == At(nd[a].kid, n)  F == {a} \X A
<1>1. IsFiniteSet(E) /\ Cardinality(E) \in Nat
  BY EdgesFinite
<1>2. IsFiniteSet(A) /\ Cardinality(A) \in Nat
  <2>1. IsFiniteSet(1..MaxSize)
    BY NodeTableAssumption, FS_Interval
  <2> QED BY <2>1, FS_Subset, FS_CardinalityType
<1>3. IsFiniteSet(F) /\ Cardinality(F) = Cardinality(A)
  <2>1. IsFiniteSet({a}) /\ Cardinality({a}) = 1
    BY FS_Singleton
  <2> HIDE DEF A
  <2>2. IsFiniteSet({a} \X A) /\ Cardinality({a} \X A) = 1 * Cardinality(A)
    BY <1>2, <2>1, FS_Product
  <2> QED BY <1>2, <2>2
<1>4. EdgesOf(L \cup {a}, nd, n) = E \cup F
  BY DEF EdgesOf
<1>5. E \cap F = {}
  BY DEF EdgesOf
<1> HIDE DEF E, A, F
<1>6. Cardinality(E \cup F) = Cardinality(E) + Cardinality(F) - Cardinality(E \cap F)
  BY <1>1, <1>3, FS_Union
<1>7. Cardinality(E \cap F) = 0
  BY <1>5, FS_EmptySet
<1>8. Cardinality(E \cup F) = Cardinality(E) + Cardinality(A)
  BY <1>1, <1>2, <1>3, <1>6, <1>7
<1> QED BY <1>4, <1>8 DEF E, A

\* A child of a live node has at least one edge into it.
LEMMA EdgeCounted ==
    ASSUME NEW L \in SUBSET Addr, NEW a \in L, NEW nd, NEW n, At(nd[a].kid, n) # {},
           At(nd[a].kid, n) \subseteq 1..MaxSize
    PROVE  Cardinality(EdgesOf(L, nd, n)) >= 1
<1>1. PICK i \in 1..MaxSize : i \in At(nd[a].kid, n)
  OBVIOUS
<1>2. <<a, i>> \in EdgesOf(L, nd, n)
  BY <1>1 DEF EdgesOf
<1>3. IsFiniteSet(EdgesOf(L, nd, n)) /\ Cardinality(EdgesOf(L, nd, n)) \in Nat
  BY EdgesFinite
<1>4. Cardinality(EdgesOf(L, nd, n)) # 0
  BY <1>2, <1>3, FS_EmptySet
<1> QED BY <1>3, <1>4
-----------------------------------------------------------------------------
\* The counter arithmetic of cdd_satinc and cdd_satdec (kernel.h:111-120): within
\* 0 .. MAXREF, exact below MAXREF, and stuck there.
LEMMA Sat ==
    ASSUME NEW r \in 0..MAXREF, NEW c \in Nat
    PROVE  /\ SatAdd(r, c) \in 0..MAXREF
           /\ SatAdd(r, c) = MAXREF \/ SatAdd(r, c) = r + c
           /\ r = MAXREF => SatAdd(r, c) = MAXREF
           /\ c = 0 => SatAdd(r, c) = r
           /\ c > 0 => SatAdd(r, c) > 0
           /\ r > 0 => SatDec(r) \in 0..MAXREF
           /\ r = MAXREF => SatDec(r) = MAXREF
           /\ r # MAXREF => SatDec(r) = r - 1
BY NodeTableAssumption DEF SatAdd, SatDec

\* An address in the table holds a node of its manager.
LEMMA InTable ==
    ASSUME TypeOK, NEW a \in Table
    PROVE  /\ a \in Addr /\ ManOf[a] \in Man
           /\ node[a] \in Content(ManOf[a]) /\ LevelOf(a) \in Level
<1>1. a \in Addr /\ ManOf[a] \in Man /\ node[a] \in Content(ManOf[a])
  BY NodeTableAssumption DEF TypeOK, Table
<1> QED BY <1>1, NodeTableAssumption DEF Content, LevelOf

\* What AtCount says, for a node in the table.
LEMMA KidCount ==
    ASSUME TypeOK, NEW a \in Table, NEW n
    PROVE  /\ Cardinality(At(node[a].kid, n)) \in Nat
           /\ At(node[a].kid, n) \subseteq 1..MaxSize
           /\ Cardinality(At(node[a].kid, n)) = 0 <=> At(node[a].kid, n) = {}
BY InTable, AtCount

\* What AtCount says, for the node being allocated.
LEMMA ReqCount ==
    ASSUME TypeOK, req # NoReq, NEW n
    PROVE  /\ req.man \in Man /\ req.key \in Content(req.man)
           /\ Cardinality(At(req.key.kid, n)) \in Nat
           /\ At(req.key.kid, n) \subseteq 1..MaxSize
           /\ Cardinality(At(req.key.kid, n)) = 0 <=> At(req.key.kid, n) = {}
<1>1. PICK m \in Man : \E key \in Content(m) : req = [man |-> m, key |-> key]
  BY DEF TypeOK
<1>2. req.man = m /\ req.key \in Content(m)
  BY <1>1
<1> QED BY <1>2, AtCount

\* The four kinds of owners of a reference are natural numbers.
LEMMA OwedParts ==
    ASSUME TypeOK, NEW n \in Node
    PROVE  /\ hold[n] \in Nat /\ pend[n] \in Nat
           /\ Cardinality(EdgesInto(n)) \in Nat /\ Requested(n) \in Nat
           /\ Owed(n) = hold[n] + pend[n] + Cardinality(EdgesInto(n)) + Requested(n)
           /\ Owed(n) \in Nat
<1>1. hold[n] \in Nat /\ pend[n] \in Nat
  BY DEF TypeOK
<1>2. Live \in SUBSET Addr
  BY DEF Live, Table
<1>3. Cardinality(EdgesInto(n)) \in Nat
  BY <1>2, EdgesFinite DEF EdgesInto
<1>4. Requested(n) \in Nat
  BY ReqCount DEF Requested
<1> QED BY <1>1, <1>3, <1>4 DEF Owed

\* Whatever is owned is counted, in the table and, unless it waits on the stack of
\* cdd_reclaim, live.
LEMMA OwnedInTable ==
    ASSUME IInv, NEW n \in Addr, Owed(n) > 0
    PROVE  /\ ref[n] > 0 /\ n \in Table
           /\ todo[n] = 0 => n \in Live /\ n \notin stale
<1>1. TypeOK /\ n \in Node /\ ref[n] \in Nat
  BY NodeTableAssumption DEF IInv, TypeOK, Node
<1>2. Owed(n) \in Nat
  BY <1>1, OwedParts
<1>3. ref[n] > 0
  BY <1>1, <1>2, NodeTableAssumption DEF IInv, RefSafe
<1>4. n \in Table
  BY <1>3 DEF IInv, NoDangling
<1>5. todo[n] = 0 => n \notin dead
  BY <1>3 DEF IInv, DeadZero
<1> QED BY <1>1, <1>3, <1>4, <1>5 DEF Live, TypeOK

\* A node held by a client or an operator frame is such a node ...
LEMMA HeldInTable ==
    ASSUME IInv, NEW n \in Addr, hold[n] > 0
    PROVE  /\ ref[n] > 0 /\ n \in Table
           /\ todo[n] = 0 => n \in Live /\ n \notin stale
<1>1. TypeOK /\ n \in Node
  BY DEF IInv, Node
<1>2. Owed(n) > 0
  BY <1>1, OwedParts
<1> QED BY <1>2, OwnedInTable

\* ... and so is a child of a live node.
LEMMA KidInTable ==
    ASSUME IInv, NEW a \in Live, NEW n \in Addr, At(node[a].kid, n) # {}
    PROVE  /\ ref[n] > 0 /\ n \in Table
           /\ todo[n] = 0 => n \in Live /\ n \notin stale
<1>1. TypeOK /\ n \in Node /\ a \in Table /\ Live \in SUBSET Addr
  BY DEF IInv, Node, Live, Table
<1>2. At(node[a].kid, n) \subseteq 1..MaxSize
  BY <1>1, KidCount
<1>3. Cardinality(EdgesInto(n)) >= 1
  BY <1>1, <1>2, EdgeCounted DEF EdgesInto
<1>4. Owed(n) > 0
  BY <1>1, <1>3, OwedParts
<1> QED BY <1>4, OwnedInTable

\* What an idle client can name is live, hence may be referenced or cached.
LEMMA KnownLive ==
    ASSUME IInv, Idle, NEW n \in Addr, n = ret \/ Known(n)
    PROVE  n \in Live /\ n \notin stale
<1>1. TypeOK /\ \A k \in Node : todo[k] = 0
  BY DEF IInv, Idle, Empty
<1>2. n \in Node
  BY DEF Node
<1>3. CASE n = ret
  <2>1. n \in Table /\ n \notin dead
    BY <1>1, <1>2, <1>3 DEF IInv, NoDangling, DeadZero
  <2> QED BY <1>1, <2>1 DEF Live, TypeOK
<1>4. CASE hold[n] > 0
  BY <1>1, <1>2, <1>4, HeldInTable
<1>5. CASE \E p \in Addr : hold[p] > 0 /\ n \in Kids(p)
  <2>1. PICK p \in Addr : hold[p] > 0 /\ n \in Kids(p)
    BY <1>5
  <2>2. p \in Live
    BY <1>1, <2>1, HeldInTable DEF Node
  <2>3. At(node[p].kid, n) # {}
    BY <2>1 DEF Kids, At
  <2> QED BY <1>1, <1>2, <2>2, <2>3, KidInTable
<1> QED BY <1>3, <1>4, <1>5 DEF Known

-----------------------------------------------------------------------------
\* A cleared node is a content of an address.
LEMMA BlankContent == Blank \in AnyContent
<1>1. Blank \in {Blank}
  OBVIOUS
<1> QED BY <1>1, Zenon DEF AnyContent

\* cdd_init establishes the invariant.
LEMMA InitIInv == Init => IInv
<1> SUFFICES ASSUME Init PROVE IInv
  OBVIOUS
<1>1. Table = {} /\ Live = {}
  BY DEF Init, Table, Live
<1>2. TypeOK
  <2>1. PICK S \in SUBSET Addr : place = [a \in Addr |-> IF a \in S THEN "free" ELSE "none"]
    BY DEF Init
  <2>2. place \in [Addr -> {"none", "free", "table"}]
    BY <2>1
  <2>3. node \in [Addr -> AnyContent] /\ \A a \in Addr : node[a] \in Content(ManOf[a]) \cup {Blank}
    BY BlankContent DEF Init
  <2> QED BY <1>1, <2>2, <2>3, NodeTableAssumption DEF Init, TypeOK, Empty, Node, NoEntry
<1>3. \A n : Cardinality(EdgesInto(n)) = 0
  <2>1. \A n : EdgesInto(n) = {}
    BY <1>1 DEF EdgesInto, EdgesOf
  <2> QED BY <2>1, FS_EmptySet
<1>4. RefSafe
  BY <1>3, NodeTableAssumption DEF Init, RefSafe, Owed, Requested, Empty, Node
<1>5. NoDangling
  BY NodeTableAssumption DEF Init, NoDangling, Empty, Node
<1>6. CacheFresh /\ OneLoop /\ DeadZero
  BY DEF Init, CacheFresh, OneLoop, DeadZero, Empty
<1>7. Closed
  BY <1>1 DEF Init, Closed
<1> QED BY <1>2, <1>4, <1>5, <1>6, <1>7 DEF IInv

\* A step that only moves references between the client and its handles.
LEMMA ClientStep ==
    ASSUME IInv, Idle, UNCHANGED <<place, node, counters, cache, loops, error, dead, stale>>,
           ref' \in [Node -> 0..MAXREF], ref'[Term] = MAXREF,
           hold' \in [Node -> Nat], hold'[Term] = 0, ret' \in Node \cup {None},
           \A n \in Addr : \/ ref'[n] = MAXREF
                           \/ ref[n] # MAXREF /\ ref'[n] - hold'[n] = ref[n] - hold[n],
           \A n \in Addr : ref'[n] > 0 \/ hold'[n] > 0 \/ ret' = n => n \in Table,
           \A n \in dead : ref'[n] = ref[n] /\ (ret' # n \/ ret' = ret)
    PROVE  IInv'
<1> USE DEF counters, loops
<1>1. Table' = Table /\ Live' = Live
  BY DEF Table, Live
<1>2. TypeOK'
  BY <1>1 DEF IInv, TypeOK
<1>3. \A n : EdgesInto(n)' = EdgesInto(n) /\ Requested(n)' = Requested(n)
  BY <1>1 DEF EdgesInto, Requested
<1>4. RefSafe'
  <2> SUFFICES ASSUME NEW n \in Addr, ref'[n] # MAXREF
               PROVE  ref'[n] >= Owed(n)'
    BY DEF RefSafe
  <2>1. TypeOK /\ n \in Node /\ pend'[n] = pend[n]
    BY DEF IInv, Node
  <2>2. Owed(n)' = hold'[n] + pend[n] + Cardinality(EdgesInto(n)) + Requested(n)
    BY <1>3, <2>1 DEF Owed
  <2>3. ref[n] >= Owed(n)
    BY DEF IInv, RefSafe
  <2>4. ref[n] \in Nat /\ ref'[n] \in Nat /\ hold'[n] \in Nat
    BY <2>1, NodeTableAssumption DEF TypeOK
  <2> QED BY <2>1, <2>2, <2>3, <2>4, OwedParts
<1>5. NoDangling'
  BY <1>1 DEF IInv, NoDangling
<1>6. CacheFresh' /\ OneLoop' /\ DeadZero'
  BY <1>1 DEF IInv, CacheFresh, OneLoop, DeadZero, Idle, Empty
<1>7. Closed'
  BY <1>1 DEF IInv, Closed, Ordered, LevelOf
<1> QED BY <1>2, <1>4, <1>5, <1>6, <1>7 DEF IInv

\* cdd_ref of a result or of a node the client knows.
LEMMA RefStep ==
    ASSUME IInv, NEW n \in Addr, Ref(n)
    PROVE  IInv'
<1>1. TypeOK /\ n \in Node /\ n # Term /\ Idle /\ ref[n] \in 0..MAXREF
  BY NodeTableAssumption DEF IInv, TypeOK, Ref, Node
<1>2. n \in Live
  BY <1>1, KnownLive DEF Ref
<1>3. /\ ref' = [ref EXCEPT ![n] = SatAdd(ref[n], 1)]
      /\ hold' = [hold EXCEPT ![n] = hold[n] + 1]
      /\ ret' \in {ret, None}
      /\ UNCHANGED <<place, node, counters, cache, loops, error, dead, stale>>
  BY DEF Ref
<1>4. SatAdd(ref[n], 1) \in 0..MAXREF
      /\ (SatAdd(ref[n], 1) = MAXREF \/ SatAdd(ref[n], 1) = ref[n] + 1)
      /\ (ref[n] = MAXREF => SatAdd(ref[n], 1) = MAXREF)
  BY <1>1, Sat
<1>5. ref' \in [Node -> 0..MAXREF] /\ ref'[Term] = MAXREF
  BY <1>1, <1>3, <1>4 DEF TypeOK
<1>6. hold' \in [Node -> Nat] /\ hold'[Term] = 0 /\ ret' \in Node \cup {None}
  BY <1>1, <1>3 DEF TypeOK
<1>7. \A k \in Addr : \/ ref'[k] = MAXREF
                      \/ ref[k] # MAXREF /\ ref'[k] - hold'[k] = ref[k] - hold[k]
  BY <1>1, <1>3, <1>4, NodeTableAssumption DEF TypeOK, Node
<1>8. \A k \in Addr : ref'[k] > 0 \/ hold'[k] > 0 \/ ret' = k => k \in Table
  BY <1>1, <1>2, <1>3, NodeTableAssumption DEF IInv, NoDangling, Live, TypeOK, Node
<1>9. \A k \in dead : ref'[k] = ref[k] /\ (ret' # k \/ ret' = ret)
  BY <1>1, <1>2, <1>3, NodeTableAssumption DEF Live, Table, TypeOK, Node
<1> QED BY <1>1, <1>3, <1>5, <1>6, <1>7, <1>8, <1>9, ClientStep

\* A result that is dropped because it is already owned.
LEMMA DiscardStep ==
    ASSUME IInv, Discard
    PROVE  IInv'
<1>1. TypeOK /\ Idle /\ ref' = ref /\ hold' = hold /\ ret' = None
      /\ UNCHANGED <<place, node, counters, cache, loops, error, dead, stale>>
  BY DEF IInv, Discard
<1>2. \A n \in Addr : ref'[n] > 0 \/ hold'[n] > 0 \/ ret' = n => n \in Table
  BY <1>1, NodeTableAssumption DEF IInv, NoDangling, Node
<1>3. \A n \in Addr : ref'[n] - hold'[n] = ref[n] - hold[n]
  BY <1>1
<1>4. \A n \in dead : ret' # n
  BY <1>1, NodeTableAssumption DEF TypeOK, Table, Node
<1> QED BY <1>1, <1>2, <1>3, <1>4, ClientStep DEF TypeOK

\* cdd_deref by an operator frame (DropFrame, Return).
LEMMA PlainDerefStep ==
    ASSUME IInv, Idle, NEW n \in Addr, PlainDeref(n), ret' \in {ret, n}
    PROVE  IInv'
<1>1. /\ TypeOK /\ n \in Node /\ n # Term
      /\ ref[n] \in 0..MAXREF /\ hold[n] \in Nat /\ hold[n] > 0
  BY NodeTableAssumption DEF IInv, TypeOK, PlainDeref, Node
<1>2. n \in Live /\ ref[n] > 0
  BY <1>1, HeldInTable DEF Idle, Empty
<1>3. /\ ref' = [ref EXCEPT ![n] = SatDec(ref[n])]
      /\ hold' = [hold EXCEPT ![n] = hold[n] - 1]
      /\ UNCHANGED <<place, node, counters, cache, loops, error, dead, stale>>
  BY DEF PlainDeref
<1>4. /\ SatDec(ref[n]) \in 0..MAXREF
      /\ SatDec(ref[n]) = MAXREF \/ (ref[n] # MAXREF /\ SatDec(ref[n]) = ref[n] - 1)
  BY <1>1, <1>2, Sat
<1>5. ref' \in [Node -> 0..MAXREF] /\ ref'[Term] = MAXREF
  BY <1>1, <1>3, <1>4 DEF TypeOK
<1>6. hold' \in [Node -> Nat] /\ hold'[Term] = 0 /\ ret' \in Node \cup {None}
  BY <1>1, <1>3 DEF TypeOK
<1>7. \A k \in Addr : \/ ref'[k] = MAXREF
                      \/ ref[k] # MAXREF /\ ref'[k] - hold'[k] = ref[k] - hold[k]
  BY <1>1, <1>3, <1>4, NodeTableAssumption DEF TypeOK, Node
<1>8. \A k \in Addr : ref'[k] > 0 \/ hold'[k] > 0 \/ ret' = k => k \in Table
  BY <1>1, <1>2, <1>3, NodeTableAssumption DEF IInv, NoDangling, Live, TypeOK, Node
<1>9. \A k \in dead : ref'[k] = ref[k] /\ (ret' # k \/ ret' = ret)
  BY <1>1, <1>2, <1>3, NodeTableAssumption DEF Live, Table, TypeOK, Node
<1> QED BY <1>1, <1>3, <1>5, <1>6, <1>7, <1>8, <1>9, ClientStep

-----------------------------------------------------------------------------
\* The start of cdd_rec_deref: the handle moves to the explicit stack.
LEMMA ReleaseStep ==
    ASSUME IInv, NEW n \in Addr, Release(n)
    PROVE  IInv'
<1>1. /\ TypeOK /\ Idle /\ n \in Node /\ n # Term /\ hold[n] > 0 /\ hold[n] \in Nat
      /\ pend = Empty /\ todo = Empty /\ req = NoReq
  BY NodeTableAssumption DEF IInv, TypeOK, Release, Idle, Node
<1>2. /\ hold' = [hold EXCEPT ![n] = hold[n] - 1]
      /\ pend' = [pend EXCEPT ![n] = 1]
      /\ UNCHANGED <<place, node, ref, deadcnt, freecnt, tdead, cache, ret, todo, req,
                     error, dead, stale>>
  BY DEF Release, counters
<1>3. n \in Table
  BY <1>1, HeldInTable
<1>4. Table' = Table /\ Live' = Live
  BY <1>2 DEF Table, Live
<1>5. TypeOK'
  BY <1>1, <1>2, <1>4 DEF TypeOK
<1>6. \A k : EdgesInto(k)' = EdgesInto(k) /\ Requested(k)' = Requested(k)
  BY <1>2, <1>4 DEF EdgesInto, Requested
<1>7. RefSafe'
  <2> SUFFICES ASSUME NEW k \in Addr, ref'[k] # MAXREF
               PROVE  ref'[k] >= Owed(k)'
    BY DEF RefSafe
  <2>1. k \in Node /\ ref[k] >= Owed(k)
    BY <1>2 DEF IInv, RefSafe, Node
  <2>2. hold'[k] + pend'[k] = hold[k] + pend[k]
    BY <1>1, <1>2, <2>1 DEF TypeOK, Empty
  <2>3. hold'[k] \in Nat /\ pend'[k] \in Nat
    BY <1>5, <2>1 DEF TypeOK
  <2>4. Owed(k)' = hold'[k] + pend'[k] + Cardinality(EdgesInto(k)) + Requested(k)
    BY <1>6 DEF Owed
  <2>5. Owed(k)' = Owed(k)
    BY <1>1, <2>1, <2>2, <2>3, <2>4, OwedParts
  <2> QED BY <1>2, <2>1, <2>5
<1>8. NoDangling'
  BY <1>1, <1>2, <1>3, <1>4 DEF IInv, NoDangling, TypeOK, Node
<1>9. CacheFresh' /\ OneLoop' /\ DeadZero'
  BY <1>1, <1>2, <1>4 DEF IInv, CacheFresh, OneLoop, DeadZero, Empty, Release
<1>10. Closed'
  BY <1>2, <1>4 DEF IInv, Closed, Ordered, LevelOf
<1> QED BY <1>5, <1>7, <1>8, <1>9, <1>10 DEF IInv

\* One iteration of cdd_rec_deref (kernel.c:435-466): a node that dies hands the
\* references it owned to the stack, so no owner is lost.
LEMMA RecDerefStepInv ==
    ASSUME IInv, NEW n \in Node, RecDerefStep(n)
    PROVE  IInv'
<1>1. /\ TypeOK /\ pend[n] > 0 /\ pend[n] \in Nat /\ \A k \in Node : todo[k] = 0
      /\ req = NoReq /\ ref[n] \in 0..MAXREF /\ error = "ok"
  <2>1. TypeOK /\ pend[n] > 0 /\ pend[n] \in Nat /\ error = "ok" /\ ref[n] \in 0..MAXREF
    BY DEF IInv, TypeOK, RecDerefStep
  <2>2. (\A k \in Node : todo[k] = 0) /\ req = NoReq
    BY <2>1 DEF IInv, OneLoop
  <2> QED BY <2>1, <2>2
<1>2. ref[n] > 0 /\ (n \in Addr => n \in Live)
  <2>1. CASE n = Term
    BY <1>1, <2>1, NodeTableAssumption DEF TypeOK
  <2>2. CASE n \in Addr
    <3>1. Owed(n) > 0
      BY <1>1, OwedParts
    <3> QED BY <1>1, <2>2, <3>1, OwnedInTable
  <2> QED BY <2>1, <2>2 DEF Node
<1>3. /\ ref' = [ref EXCEPT ![n] = SatDec(ref[n])]
      /\ UNCHANGED <<place, node, freecnt, cache, hold, ret, todo, req, error, stale>>
  BY <1>2 DEF RecDerefStep, client
<1>4. Table' = Table
  BY <1>3 DEF Table
<1>5. /\ SatDec(ref[n]) \in 0..MAXREF
      /\ SatDec(ref[n]) = MAXREF \/ (ref[n] # MAXREF /\ SatDec(ref[n]) = ref[n] - 1)
      /\ ref[n] = MAXREF => SatDec(ref[n]) = MAXREF
  BY <1>1, <1>2, Sat
<1>6. ref' \in [Node -> 0..MAXREF] /\ ref'[Term] = MAXREF
  BY <1>1, <1>3, <1>5 DEF TypeOK
<1>7. \A k \in Node : Requested(k)' = Requested(k)
  BY <1>3 DEF Requested
<1>8. CASE ~Dies(n)
  <2>1. /\ pend' = [pend EXCEPT ![n] = pend[n] - 1]
        /\ UNCHANGED <<deadcnt, tdead, dead>>
    BY <1>2, <1>8 DEF RecDerefStep
  <2>2. TypeOK'
    BY <1>1, <1>3, <1>4, <1>6, <2>1 DEF TypeOK
  <2>3. Live' = Live /\ \A k : EdgesInto(k)' = EdgesInto(k)
    BY <1>3, <1>4, <2>1 DEF Live, EdgesInto
  <2>4. RefSafe'
    <3> SUFFICES ASSUME NEW k \in Addr, ref'[k] # MAXREF
                 PROVE  ref'[k] >= Owed(k)'
      BY DEF RefSafe
    <3>1. k \in Node /\ ref[k] # MAXREF /\ ref[k] >= Owed(k) /\ ref[k] \in Nat
      BY <1>1, <1>3, <1>5, NodeTableAssumption DEF IInv, RefSafe, TypeOK, Node
    <3>2. ref'[k] - pend'[k] = ref[k] - pend[k] /\ pend'[k] \in Nat /\ ref'[k] \in Nat
      BY <1>1, <1>3, <1>5, <2>1, <2>2, <3>1, NodeTableAssumption DEF TypeOK
    <3>3. Owed(k)' = hold[k] + pend'[k] + Cardinality(EdgesInto(k)) + Requested(k)
      BY <1>3, <1>7, <2>3, <3>1 DEF Owed
    <3> QED BY <1>1, <3>1, <3>2, <3>3, OwedParts
  <2>5. NoDangling'
    <3> SUFFICES ASSUME NEW k \in Addr,
                        ref'[k] > 0 \/ hold'[k] > 0 \/ pend'[k] > 0 \/ todo'[k] > 0 \/ ret' = k
                 PROVE  k \in Table'
      BY DEF NoDangling
    <3>1. CASE k = n
      BY <1>2, <1>4, <3>1 DEF Live
    <3>2. CASE k # n
      BY <1>1, <1>3, <1>4, <2>1, <3>2 DEF IInv, NoDangling, TypeOK, Node
    <3> QED BY <3>1, <3>2
  <2>6. DeadZero'
    BY <1>1, <1>2, <1>3, <2>1, NodeTableAssumption DEF IInv, DeadZero, Live, TypeOK, Table, Node
  <2>7. CacheFresh' /\ OneLoop'
    BY <1>1, <1>3, <1>4 DEF IInv, CacheFresh, OneLoop
  <2>8. Closed'
    BY <1>3, <1>4 DEF IInv, Closed, Ordered, LevelOf
  <2> QED BY <2>2, <2>4, <2>5, <2>6, <2>7, <2>8 DEF IInv
<1>9. CASE Dies(n)
  <2>1. /\ pend' = [c \in Node |-> pend[c] - (IF c = n THEN 1 ELSE 0)
                                           + Cardinality(At(node[n].kid, c))]
        /\ deadcnt' = [deadcnt EXCEPT ![ManOf[n]] = deadcnt[ManOf[n]] + 1]
        /\ tdead' = [tdead EXCEPT ![ManOf[n]][LevelOf(n)] = tdead[ManOf[n]][LevelOf(n)] + 1]
        /\ dead' = dead \cup {n}
    BY <1>2, <1>9 DEF RecDerefStep
  <2>2. n \in Addr /\ n \in Live /\ n \in Table /\ ref[n] = 1 /\ MAXREF # 1
    BY <1>1, <1>2, <1>9 DEF Dies, TypeOK, Node, Live
  <2>3. \A c : /\ Cardinality(At(node[n].kid, c)) \in Nat
               /\ At(node[n].kid, c) \subseteq 1..MaxSize
               /\ Cardinality(At(node[n].kid, c)) = 0 <=> At(node[n].kid, c) = {}
    BY <1>1, <2>2, KidCount
  <2>4. TypeOK'
    <3>1. ManOf[n] \in Man /\ LevelOf(n) \in Level
      BY <1>1, <2>2, InTable
    <3>2. deadcnt' \in [Man -> Int] /\ tdead' \in [Man -> [Level -> Int]]
      BY <1>1, <2>1, <3>1 DEF TypeOK
    <3>3. pend' \in [Node -> Nat]
      BY <1>1, <2>1, <2>3 DEF TypeOK
    <3> QED BY <1>1, <1>3, <1>4, <1>6, <2>1, <2>2, <3>2, <3>3 DEF TypeOK
  <2>5. Live' = Live \ {n}
    BY <1>4, <2>1, <2>2 DEF Live
  <2>6. \A k \in Node : Cardinality(EdgesInto(k)) =
                            Cardinality(EdgesInto(k)') + Cardinality(At(node[n].kid, k))
    <3> TAKE k \in Node
    <3>1. Live' \in SUBSET Addr /\ n \notin Live' /\ Live = Live' \cup {n}
      BY <2>2, <2>5 DEF Live, Table
    <3>2. Cardinality(EdgesOf(Live' \cup {n}, node, k))
             = Cardinality(EdgesOf(Live', node, k)) + Cardinality(At(node[n].kid, k))
      BY <2>2, <2>3, <3>1, EdgesAdd
    <3> QED BY <1>3, <3>1, <3>2 DEF EdgesInto
  <2>7. RefSafe'
    <3> SUFFICES ASSUME NEW k \in Addr, ref'[k] # MAXREF
                 PROVE  ref'[k] >= Owed(k)'
      BY DEF RefSafe
    <3>1. k \in Node /\ ref[k] # MAXREF /\ ref[k] >= Owed(k) /\ ref[k] \in Nat
      BY <1>1, <1>3, <1>5, NodeTableAssumption DEF IInv, RefSafe, TypeOK, Node
    <3>2. pend'[k] = pend[k] - (IF k = n THEN 1 ELSE 0) + Cardinality(At(node[n].kid, k))
      BY <2>1, <3>1
    <3>3. ref'[k] = ref[k] - (IF k = n THEN 1 ELSE 0)
      BY <1>1, <1>3, <1>5, <2>2, <3>1 DEF TypeOK
    <3>4. Owed(k)' = hold[k] + pend'[k] + Cardinality(EdgesInto(k)') + Requested(k)
      BY <1>3, <1>7, <3>1 DEF Owed
    <3>5. Cardinality(EdgesInto(k)') \in Nat
      <4>1. Live' \in SUBSET Addr
        BY <2>5 DEF Live, Table
      <4> QED BY <4>1, EdgesFinite DEF EdgesInto
    <3> QED BY <1>1, <2>3, <2>6, <3>1, <3>2, <3>3, <3>4, <3>5, OwedParts
  <2>8. NoDangling'
    <3> SUFFICES ASSUME NEW k \in Addr,
                        ref'[k] > 0 \/ hold'[k] > 0 \/ pend'[k] > 0 \/ todo'[k] > 0 \/ ret' = k
                 PROVE  k \in Table'
      BY DEF NoDangling
    <3>1. CASE k = n
      BY <1>4, <2>2, <3>1
    <3>2. CASE At(node[n].kid, k) # {}
      BY <1>4, <2>2, <3>2, KidInTable
    <3>3. CASE k # n /\ At(node[n].kid, k) = {}
      <4>1. pend'[k] = pend[k]
        BY <1>1, <2>1, <2>3, <3>3 DEF TypeOK, Node
      <4> QED BY <1>1, <1>3, <1>4, <3>3, <4>1 DEF IInv, NoDangling, TypeOK, Node
    <3> QED BY <3>1, <3>2, <3>3
  <2>9. DeadZero'
    <3>1. ret # n
      BY <1>1, <2>2, NodeTableAssumption DEF IInv, OneLoop, Node
    <3>2. ref'[n] = 0
      BY <1>1, <1>3, <2>2 DEF TypeOK, SatDec
    <3> SUFFICES ASSUME NEW k \in dead', todo'[k] = 0
                 PROVE  ref'[k] = 0 /\ ret' # k
      BY DEF DeadZero
    <3>3. CASE k = n
      BY <1>3, <3>1, <3>2, <3>3
    <3>4. CASE k \in dead /\ k # n
      BY <1>1, <1>3, <3>4 DEF IInv, DeadZero, TypeOK, Table, Node
    <3> QED BY <2>1, <3>3, <3>4
  <2>10. CacheFresh' /\ OneLoop'
    BY <1>1, <1>3, <1>4 DEF IInv, CacheFresh, OneLoop
  <2>11. Closed'
    BY <1>3, <1>4 DEF IInv, Closed, Ordered, LevelOf
  <2> QED BY <2>4, <2>7, <2>8, <2>9, <2>10, <2>11 DEF IInv
<1> QED BY <1>8, <1>9
-----------------------------------------------------------------------------
\* One iteration of cdd_reclaim (kernel.c:468-500): the node becomes an owner of its
\* children, which are referenced for it; unreferenced ones follow on the stack.
LEMMA ReclaimStepInv ==
    ASSUME IInv, NEW a \in Addr, ReclaimStep(a)
    PROVE  IInv'
<1>1. /\ TypeOK /\ a \in Node /\ a # Term /\ todo[a] > 0 /\ todo[a] \in Nat
      /\ (\A k \in Node : pend[k] = 0) /\ req = NoReq
  <2>1. TypeOK /\ a \in Node /\ a # Term /\ todo[a] > 0 /\ todo[a] \in Nat
    BY NodeTableAssumption DEF IInv, TypeOK, ReclaimStep, Node
  <2>2. \A k \in Node : pend[k] \in Nat
    BY <2>1 DEF TypeOK
  <2>3. (\A k \in Node : pend[k] = 0) /\ req = NoReq
    BY <2>1, <2>2 DEF IInv, OneLoop
  <2> QED BY <2>1, <2>3
<1>2. /\ deadcnt' = [deadcnt EXCEPT ![ManOf[a]] = deadcnt[ManOf[a]] - 1]
      /\ tdead' = [tdead EXCEPT ![ManOf[a]][LevelOf(a)] = tdead[ManOf[a]][LevelOf(a)] - 1]
      /\ ref' = [n \in Node |-> SatAdd(ref[n], Cardinality(At(node[a].kid, n)))]
      /\ todo' = [c \in Node |-> todo[c] - (IF c = a THEN 1 ELSE 0) + Pushed(a, c)]
      /\ dead' = dead \ {a}
      /\ UNCHANGED <<place, node, freecnt, cache, hold, ret, pend, req, error, stale>>
  BY DEF ReclaimStep, client, RefKids
<1>3. Table' = Table /\ a \in Table /\ a \notin stale
  BY <1>1, <1>2 DEF Table, IInv, NoDangling, Closed
<1>4. \A c : /\ Cardinality(At(node[a].kid, c)) \in Nat
             /\ At(node[a].kid, c) \subseteq 1..MaxSize
             /\ Cardinality(At(node[a].kid, c)) = 0 <=> At(node[a].kid, c) = {}
  BY <1>1, <1>3, KidCount
<1>5. \A c \in Node : /\ Pushed(a, c) \in Nat
                      /\ Pushed(a, c) > 0 <=> ref[c] = 0 /\ At(node[a].kid, c) # {}
  BY <1>4 DEF Pushed
<1>6. \A c \in Node : /\ ref[c] \in 0..MAXREF /\ ref'[c] \in 0..MAXREF
                      /\ ref'[c] = MAXREF \/ ref'[c] = ref[c] + Cardinality(At(node[a].kid, c))
                      /\ ref[c] = MAXREF => ref'[c] = MAXREF
                      /\ At(node[a].kid, c) = {} => ref'[c] = ref[c]
  <2> TAKE c \in Node
  <2>1. ref[c] \in 0..MAXREF
    BY <1>1 DEF TypeOK
  <2>2. ref'[c] = SatAdd(ref[c], Cardinality(At(node[a].kid, c)))
    BY <1>2
  <2> QED BY <1>4, <2>1, <2>2, Sat
<1>7. TypeOK'
  <2>1. ManOf[a] \in Man /\ LevelOf(a) \in Level
    BY <1>1, <1>3, InTable
  <2>2. deadcnt' \in [Man -> Int] /\ tdead' \in [Man -> [Level -> Int]]
    BY <1>1, <1>2, <2>1 DEF TypeOK
  <2>3. ref' \in [Node -> 0..MAXREF] /\ ref'[Term] = MAXREF
    BY <1>1, <1>2, <1>6 DEF TypeOK, Node
  <2>4. todo' \in [Node -> Nat]
    BY <1>1, <1>2, <1>5 DEF TypeOK
  <2>5. todo'[Term] = 0
    <3>1. Term \in Node /\ Pushed(a, Term) = 0
      BY <1>1, NodeTableAssumption DEF TypeOK, Pushed, Node
    <3> QED BY <1>1, <1>2, <3>1 DEF TypeOK
  <2>6. dead' \subseteq Table' /\ stale' \subseteq dead'
    BY <1>1, <1>2, <1>3 DEF TypeOK
  <2> QED BY <1>1, <1>2, <1>3, <2>2, <2>3, <2>4, <2>5, <2>6 DEF TypeOK
<1>8. Live' = Live \cup {a}
  BY <1>2, <1>3 DEF Live
<1>9. \A k : Cardinality(EdgesInto(k)') <=
                Cardinality(EdgesInto(k)) + Cardinality(At(node[a].kid, k))
  <2> TAKE k
  <2>1. Live \in SUBSET Addr
    BY DEF Live, Table
  <2>2. EdgesInto(k)' = EdgesOf(Live \cup {a}, node, k) /\ EdgesInto(k) = EdgesOf(Live, node, k)
    BY <1>2, <1>8 DEF EdgesInto
  <2>3. Cardinality(EdgesOf(Live, node, k)) \in Nat
    BY <2>1, EdgesFinite
  <2>4. CASE a \in Live
    <3>1. EdgesInto(k)' = EdgesInto(k)
      <4>1. Live \cup {a} = Live
        BY <2>4
      <4> QED BY <2>2, <4>1
    <3>2. Cardinality(At(node[a].kid, k)) \in Nat
      BY <1>4
    <3> QED BY <2>2, <2>3, <3>1, <3>2
  <2>5. CASE a \notin Live
    <3>1. Cardinality(EdgesOf(Live \cup {a}, node, k))
            = Cardinality(EdgesOf(Live, node, k)) + Cardinality(At(node[a].kid, k))
      BY <1>4, <2>1, <2>5, EdgesAdd
    <3> QED BY <1>4, <2>2, <2>3, <3>1
  <2> QED BY <2>4, <2>5
<1>10. RefSafe'
  <2> SUFFICES ASSUME NEW k \in Addr, ref'[k] # MAXREF
               PROVE  ref'[k] >= Owed(k)'
    BY DEF RefSafe
  <2>1. /\ k \in Node /\ ref[k] # MAXREF /\ ref[k] >= Owed(k) /\ ref[k] \in Nat
        /\ ref'[k] = ref[k] + Cardinality(At(node[a].kid, k))
    BY <1>6, NodeTableAssumption DEF IInv, RefSafe, Node
  <2>2. Owed(k)' = hold[k] + pend[k] + Cardinality(EdgesInto(k)') + Requested(k)
    BY <1>2, <2>1 DEF Owed, Requested
  <2>3. Cardinality(EdgesInto(k)') \in Nat
    <3>1. Live' \in SUBSET Addr
      BY <1>8 DEF Live, Table
    <3> QED BY <3>1, EdgesFinite DEF EdgesInto
  <2> QED BY <1>1, <1>4, <1>9, <2>1, <2>2, <2>3, OwedParts
\* A child of a, which is not stale, is in the table and not stale either.
<1>11. \A k \in Addr : At(node[a].kid, k) # {} => k \in Table \ stale
  <2>1. Ordered(node[a])
    BY <1>3 DEF IInv, Closed
  <2> QED BY <2>1, NodeTableAssumption DEF Ordered, At
<1>12. NoDangling'
  <2> SUFFICES ASSUME NEW k \in Addr,
                      ref'[k] > 0 \/ hold'[k] > 0 \/ pend'[k] > 0 \/ todo'[k] > 0 \/ ret' = k
               PROVE  k \in Table
    BY <1>3 DEF NoDangling
  <2>1. CASE k = a \/ At(node[a].kid, k) # {}
    BY <1>3, <1>11, <2>1
  <2>2. CASE k # a /\ At(node[a].kid, k) = {}
    <3>1. k \in Node /\ ref'[k] = ref[k]
      BY <1>6, <2>2 DEF Node
    <3>2. todo[k] \in Nat /\ Pushed(a, k) = 0
      BY <1>1, <2>2, <3>1 DEF TypeOK, Pushed
    <3>3. todo'[k] = todo[k]
      BY <1>2, <2>2, <3>1, <3>2
    <3> QED BY <1>2, <3>1, <3>3 DEF IInv, NoDangling
  <2> QED BY <2>1, <2>2
<1>13. DeadZero'
  <2> SUFFICES ASSUME NEW k \in dead', todo'[k] = 0
               PROVE  ref'[k] = 0 /\ ret' # k
    BY DEF DeadZero
  <2>1. k \in dead /\ k # a /\ k \in Node
    BY <1>1, <1>2 DEF TypeOK, Table, Node
  <2>2. todo[k] \in Nat /\ todo'[k] = todo[k] + Pushed(a, k)
    BY <1>1, <1>2, <2>1 DEF TypeOK
  <2>3. todo[k] = 0 /\ Pushed(a, k) = 0
    BY <1>5, <2>1, <2>2
  <2>4. ref[k] = 0 /\ ret # k
    BY <2>1, <2>3 DEF IInv, DeadZero
  <2> QED BY <1>2, <1>5, <1>6, <2>1, <2>3, <2>4
<1>14. OneLoop' /\ CacheFresh'
  BY <1>1, <1>2, <1>3 DEF IInv, OneLoop, CacheFresh
<1>15. Closed'
  <2>1. \A k \in Addr : todo'[k] > 0 => k \notin stale
    <3> SUFFICES ASSUME NEW k \in Addr, todo'[k] > 0 PROVE k \notin stale
      OBVIOUS
    <3>1. CASE k = a
      BY <1>3, <3>1
    <3>2. CASE k # a
      <4>1. k \in Node /\ todo[k] \in Nat /\ todo'[k] = todo[k] + Pushed(a, k)
        BY <1>1, <1>2, <3>2 DEF TypeOK, Node
      <4>2. todo[k] > 0 \/ Pushed(a, k) > 0
        BY <1>5, <4>1
      <4> QED BY <1>5, <1>11, <4>1, <4>2 DEF IInv, Closed
    <3> QED BY <3>1, <3>2
  <2> QED BY <1>1, <1>2, <1>3, <2>1 DEF IInv, Closed, Ordered, LevelOf
<1> QED BY <1>7, <1>10, <1>12, <1>13, <1>14, <1>15 DEF IInv
-----------------------------------------------------------------------------
\* A lookup that succeeds: the node found has live children, so it stops being
\* stale, and goes on the reclaim stack when it is unreferenced.
LEMMA FoundStep ==
    ASSUME IInv, Idle, NEW p \in Table, Ordered(node[p]), ret' = p,
           todo' = IF ref[p] = 0 THEN [todo EXCEPT ![p] = 1] ELSE todo,
           stale' = stale \ {p},
           UNCHANGED <<place, node, ref, counters, cache, hold, pend, req, error, dead>>
    PROVE  IInv'
<1>1. /\ TypeOK /\ p \in Addr /\ p \in Node /\ p # Term /\ p # None
      /\ pend = Empty /\ todo = Empty /\ req = NoReq
  BY NodeTableAssumption DEF IInv, Idle, Table, Node
<1>2. UNCHANGED <<place, node, ref, deadcnt, freecnt, tdead, cache, hold, pend, req, error, dead>>
  BY DEF counters
<1>3. Table' = Table /\ Live' = Live
  BY <1>2 DEF Table, Live
<1>4. todo' \in [Node -> Nat] /\ (\A k \in Node : k # p => todo'[k] = 0) /\ todo'[Term] = 0
  BY <1>1 DEF Empty, Node
<1>5. ref[p] = 0 => todo'[p] = 1
  BY <1>1 DEF Empty
<1>6. TypeOK'
  BY <1>1, <1>2, <1>3, <1>4 DEF TypeOK
<1>7. RefSafe'
  <2>1. \A k : EdgesInto(k)' = EdgesInto(k) /\ Requested(k)' = Requested(k)
    BY <1>2, <1>3 DEF EdgesInto, Requested
  <2>2. \A k : Owed(k)' = Owed(k)
    BY <1>2, <2>1 DEF Owed
  <2> QED BY <1>2, <2>2 DEF IInv, RefSafe
<1>8. NoDangling'
  BY <1>1, <1>2, <1>3, <1>4 DEF IInv, NoDangling, Node
<1>9. DeadZero'
  <2> SUFFICES ASSUME NEW k \in dead, todo'[k] = 0
               PROVE  ref[k] = 0 /\ p # k
    BY <1>2 DEF DeadZero
  <2>1. k \in Node /\ todo[k] = 0
    BY <1>1 DEF TypeOK, Table, Node, Empty
  <2>2. ref[k] = 0
    BY <2>1 DEF IInv, DeadZero
  <2> QED BY <1>5, <2>2
<1>10. OneLoop' /\ CacheFresh'
  BY <1>1, <1>2, <1>3, <1>4 DEF IInv, OneLoop, CacheFresh, Idle, Empty
<1>11. Closed'
  <2>1. \A a \in Table \ stale' : Ordered(node[a])
    BY DEF IInv, Closed
  <2>2. \A a \in Table \ stale' : Ordered(node[a])'
    BY <1>2, <1>3, <2>1 DEF Ordered, LevelOf
  <2>3. \A a \in Addr : todo'[a] > 0 => a \notin stale'
    BY <1>4 DEF Node
  <2> QED BY <1>1, <1>2, <1>3, <2>2, <2>3 DEF IInv, Closed
<1> QED BY <1>6, <1>7, <1>8, <1>9, <1>10, <1>11 DEF IInv

\* A failed lookup (kernel.c:652-657, 735-742): the children are referenced for the
\* node before it exists, so that a collection in between spares them.
LEMMA MissStep ==
    ASSUME IInv, Idle, NEW m \in Man, NEW key \in Content(m), MakeMiss(m, key),
           Ordered(key), \A n \in Addr : At(key.kid, n) # {} => n \in Live
    PROVE  IInv'
<1>1. TypeOK /\ pend = Empty /\ todo = Empty /\ req = NoReq
  BY DEF IInv, Idle
<1>2. /\ ref' = [n \in Node |-> SatAdd(ref[n], Cardinality(At(key.kid, n)))]
      /\ req' = [man |-> m, key |-> key] /\ ret' = None
      /\ UNCHANGED <<place, node, deadcnt, freecnt, tdead, cache, hold, pend, todo, error,
                     dead, stale>>
  BY DEF MakeMiss, counters, RefKids
<1>3. Table' = Table /\ Live' = Live
  BY <1>2 DEF Table, Live
<1>4. \A n \in Node : /\ ref[n] \in 0..MAXREF /\ ref'[n] \in 0..MAXREF
                      /\ Cardinality(At(key.kid, n)) \in Nat
                      /\ ref'[n] = MAXREF \/ ref'[n] = ref[n] + Cardinality(At(key.kid, n))
                      /\ ref[n] = MAXREF => ref'[n] = MAXREF
                      /\ At(key.kid, n) = {} => ref'[n] = ref[n]
  <2> TAKE n \in Node
  <2>1. ref[n] \in 0..MAXREF
    BY <1>1 DEF TypeOK
  <2>2. /\ Cardinality(At(key.kid, n)) \in Nat
        /\ At(key.kid, n) = {} => Cardinality(At(key.kid, n)) = 0
    BY AtCount
  <2>3. ref'[n] = SatAdd(ref[n], Cardinality(At(key.kid, n)))
    BY <1>2
  <2> QED BY <2>1, <2>2, <2>3, Sat
<1>5. TypeOK'
  <2>1. ref' \in [Node -> 0..MAXREF] /\ ref'[Term] = MAXREF
    BY <1>1, <1>2, <1>4 DEF TypeOK, Node
  <2>2. \E mm \in Man : \E k \in Content(mm) : req' = [man |-> mm, key |-> k]
    BY <1>2
  <2> QED BY <1>1, <1>2, <1>3, <2>1, <2>2 DEF TypeOK
<1>6. req' # NoReq /\ req'.key = key
  BY <1>2, NodeTableAssumption DEF NoReq
<1>7. RefSafe'
  <2> SUFFICES ASSUME NEW k \in Addr, ref'[k] # MAXREF
               PROVE  ref'[k] >= Owed(k)'
    BY DEF RefSafe
  <2>1. /\ k \in Node /\ ref[k] >= Owed(k) /\ ref[k] \in Nat
        /\ Cardinality(At(key.kid, k)) \in Nat
        /\ ref'[k] = ref[k] + Cardinality(At(key.kid, k))
    BY <1>4, NodeTableAssumption DEF IInv, RefSafe, Node
  <2>2. Requested(k)' = Cardinality(At(key.kid, k)) /\ Requested(k) = 0
    BY <1>1, <1>6 DEF Requested
  <2>3. EdgesInto(k)' = EdgesInto(k)
    BY <1>2, <1>3 DEF EdgesInto
  <2>4. Owed(k)' = hold[k] + pend[k] + Cardinality(EdgesInto(k)) + Cardinality(At(key.kid, k))
    BY <1>2, <2>2, <2>3 DEF Owed
  <2> QED BY <1>1, <2>1, <2>2, <2>4, OwedParts
<1>8. NoDangling'
  <2> SUFFICES ASSUME NEW k \in Addr,
                      ref'[k] > 0 \/ hold'[k] > 0 \/ pend'[k] > 0 \/ todo'[k] > 0 \/ ret' = k
               PROVE  k \in Table
    BY <1>3 DEF NoDangling
  <2>1. CASE At(key.kid, k) # {}
    BY <2>1 DEF Live
  <2>2. CASE At(key.kid, k) = {}
    BY <1>2, <1>4, <2>2, NodeTableAssumption DEF IInv, NoDangling, Node
  <2> QED BY <2>1, <2>2
<1>9. DeadZero'
  <2> SUFFICES ASSUME NEW k \in dead, todo[k] = 0
               PROVE  ref'[k] = 0 /\ ret' # k
    BY <1>2 DEF DeadZero
  <2>1. k \in Addr /\ k \in Node /\ k \notin Live
    BY <1>1 DEF TypeOK, Table, Node, Live
  <2>2. ref'[k] = ref[k]
    BY <1>4, <2>1
  <2> QED BY <1>2, <2>1, <2>2, NodeTableAssumption DEF IInv, DeadZero, Node
<1>10. OneLoop' /\ CacheFresh'
  BY <1>1, <1>2, <1>3, <1>6 DEF IInv, OneLoop, CacheFresh, Idle, Empty
<1>11. Closed'
  BY <1>2, <1>3, <1>6 DEF IInv, Closed, Ordered, LevelOf
<1> QED BY <1>5, <1>7, <1>8, <1>9, <1>10, <1>11 DEF IInv

\* The children an operator passes are live, and so the new node is ordered.
LEMMA MakeStep ==
    ASSUME IInv, Idle, NEW m \in Man, NEW key \in Content(m), WellOrdered(key),
           \A n \in Node : At(key.kid, n) # {} => n \in {Term, ret} \/ hold[n] > 0,
           MakeHit(m, key) \/ MakeMiss(m, key)
    PROVE  IInv'
<1>1. \A n \in Addr : At(key.kid, n) # {} => n \in Live /\ n \notin stale
  BY KnownLive, NodeTableAssumption DEF Known, Node
<1>2. Ordered(key)
  <2> SUFFICES ASSUME NEW i \in DOMAIN key.kid, key.kid[i] # Term
               PROVE  key.kid[i] \in Table \ stale /\ LevelOf(key.kid[i]) > key.level
    BY DEF Ordered
  <2>1. key.kid[i] \in Addr /\ At(key.kid, key.kid[i]) # {}
    BY DEF Content, Node, At
  <2> QED BY <1>1, <2>1 DEF WellOrdered, Live
<1>3. CASE MakeMiss(m, key)
  BY <1>1, <1>2, <1>3, MissStep
<1>4. CASE MakeHit(m, key)
  <2>1. PICK p \in Found(key) :
            /\ ret' = p
            /\ todo' = IF ref[p] = 0 THEN [todo EXCEPT ![p] = 1] ELSE todo
            /\ stale' = stale \ {p}
            /\ UNCHANGED <<place, node, ref, counters, cache, hold, pend, req, error, dead>>
    BY <1>4 DEF MakeHit
  <2>2. p \in Table /\ Ordered(node[p])
    BY <1>2 DEF Found
  <2> QED BY <2>1, <2>2, FoundStep
<1> QED BY <1>3, <1>4

\* An operator writes its result to a cache.
LEMMA CachePutStep ==
    ASSUME IInv, NEW s \in Slot, CachePut(s)
    PROVE  IInv'
<1>1. TypeOK /\ Idle /\ ret # None /\ ret \in Node
  BY DEF IInv, TypeOK, CachePut
<1>2. PICK a \in Addr, b \in Addr :
          /\ Known(a) /\ Known(b)
          /\ cache' = [cache EXCEPT ![s] = [args |-> {a, b}, res |-> ret]]
  BY DEF CachePut
<1>3. UNCHANGED <<place, node, ref, deadcnt, freecnt, tdead, hold, ret, pend, todo, req, error,
                  dead, stale>>
  BY DEF CachePut, counters, client, loops
<1>4. Table' = Table /\ Live' = Live
  BY <1>3 DEF Table, Live
<1>5. a \in Table /\ b \in Table
  BY <1>1, <1>2, KnownLive DEF Live
<1>6. ret \in Table \cup {Term} /\ ret \notin stale
  <2>1. CASE ret \in Addr
    BY <1>1, <2>1, KnownLive DEF Live
  <2>2. CASE ret = Term
    BY <1>1, <2>2, NodeTableAssumption DEF TypeOK, Table
  <2> QED BY <1>1, <2>1, <2>2 DEF Node
<1>7. TypeOK'
  <2>1. cache' \in [Slot -> [args : SUBSET Addr, res : Node \cup {None}]]
    BY <1>1, <1>2 DEF TypeOK
  <2>2. \A t \in Slot : cache'[t].res = None => cache'[t] = NoEntry
    BY <1>1, <1>2 DEF TypeOK
  <2> QED BY <1>1, <1>3, <1>4, <2>1, <2>2 DEF TypeOK
<1>8. RefSafe'
  <2>1. \A k : EdgesInto(k)' = EdgesInto(k) /\ Requested(k)' = Requested(k)
    BY <1>3, <1>4 DEF EdgesInto, Requested
  <2>2. \A k : Owed(k)' = Owed(k)
    BY <1>3, <2>1 DEF Owed
  <2> QED BY <1>3, <2>2 DEF IInv, RefSafe
<1>9. NoDangling' /\ OneLoop' /\ DeadZero'
  BY <1>3, <1>4 DEF IInv, NoDangling, OneLoop, DeadZero
<1>10. CacheFresh'
  <2> SUFFICES ASSUME NEW t \in Slot, cache'[t] # NoEntry
               PROVE  cache'[t].args \cup {cache'[t].res} \subseteq Table \cup {Term}
    BY <1>4 DEF CacheFresh
  <2>1. CASE t = s
    BY <1>1, <1>2, <1>5, <1>6, <2>1 DEF TypeOK
  <2>2. CASE t # s
    BY <1>1, <1>2, <2>2 DEF IInv, CacheFresh, TypeOK
  <2> QED BY <2>1, <2>2
<1>11. Closed'
  <2>1. \A t \in Slot : cache'[t].res \notin stale
    BY <1>1, <1>2, <1>6 DEF IInv, Closed, TypeOK
  <2> QED BY <1>3, <1>4, <2>1 DEF IInv, Closed, Ordered, LevelOf
<1> QED BY <1>7, <1>8, <1>9, <1>10, <1>11 DEF IInv

\* A cache hit (cddop.c:235-240): the result is in the table, and reclaimed when
\* unreferenced.
LEMMA CacheHitStep ==
    ASSUME IInv, NEW s \in Slot, CacheHit(s)
    PROVE  IInv'
<1> DEFINE p == cache[s].res
<1>1. /\ TypeOK /\ Idle /\ p \in Table \cup {Term} /\ p \notin stale
      /\ ret' = p
      /\ todo' = IF ref[p] = 0 THEN [todo EXCEPT ![p] = 1] ELSE todo
      /\ UNCHANGED <<place, node, ref, counters, cache, hold, pend, req, error, dead, stale>>
  BY DEF IInv, CacheFresh, Closed, CacheHit
<1> HIDE DEF p
<1>2. CASE p \in Table
  <2>1. Ordered(node[p]) /\ stale' = stale \ {p}
    BY <1>1, <1>2 DEF IInv, Closed
  <2> QED BY <1>1, <1>2, <2>1, FoundStep
<1>3. CASE p = Term
  <2>1. ref[p] # 0 /\ todo' = todo /\ hold' = hold /\ ref' = ref
    BY <1>1, <1>3, NodeTableAssumption DEF TypeOK
  <2>2. UNCHANGED <<place, node, counters, cache, loops, error, dead, stale>>
    BY <1>1, <2>1 DEF loops
  <2>3. \A n \in dead : ret' # n
    BY <1>1, <1>3, NodeTableAssumption DEF TypeOK, Table
  <2>4. \A n \in Addr : ref'[n] > 0 \/ hold'[n] > 0 \/ ret' = n => n \in Table
    BY <1>1, <1>3, <2>1, NodeTableAssumption DEF IInv, NoDangling
  <2>5. \A n \in Addr : ref'[n] - hold'[n] = ref[n] - hold[n]
    BY <2>1
  <2> QED BY <1>1, <1>3, <2>1, <2>2, <2>3, <2>4, <2>5, ClientStep DEF TypeOK, Node
<1> QED BY <1>1, <1>2, <1>3
-----------------------------------------------------------------------------
\* A collection frees only unreferenced nodes; the survivors that own their
\* children keep them, because a child of a live node is referenced.
LEMMA SweepStep ==
    ASSUME IInv, NEW ms \in SUBSET Man, Sweep(ms), ret = None,
           \A k \in Node : todo[k] = 0,
           UNCHANGED <<ref, client, loops>>,
           error' = "ok" \/ (error' = "NULL" /\ req # NoReq)
    PROVE  IInv'
<1> DEFINE G == Garbage(ms)
<1>1. /\ place' = [a \in Addr |-> IF a \in G THEN "free" ELSE place[a]]
      /\ node' = [a \in Addr |-> IF a \in G THEN Blank ELSE node[a]]
      /\ tdead' = [m \in Man |-> IF m \in ms THEN [l \in Level |-> 0] ELSE tdead[m]]
      /\ freecnt' = [m \in Man |-> IF m \in ms THEN freecnt[m] + deadcnt[m] ELSE freecnt[m]]
      /\ deadcnt' = [m \in Man |-> IF m \in ms THEN 0 ELSE deadcnt[m]]
      /\ dead' = dead \ G /\ stale' = dead \ G /\ cache' = Flushed
      /\ UNCHANGED <<ref, hold, ret, pend, todo, req>>
  BY DEF Sweep, client, loops
<1>2. TypeOK /\ \A a \in G : a \in Table /\ a \in Addr /\ ref[a] = 0
  BY DEF IInv, Garbage, Table
<1> HIDE DEF G
<1>3. Table' = Table \ G /\ Live' = Live \ G
  <2>1. Table' = Table \ G
    BY <1>1, <1>2 DEF Table, TypeOK
  <2> QED BY <1>1, <2>1 DEF Live
<1>4. \A a \in Table' : node'[a] = node[a] /\ a \in Addr
  BY <1>1, <1>3 DEF Table
<1>5. cache' = Flushed /\ \A s \in Slot : \/ cache'[s] = NoEntry
                     \/ /\ cache'[s] = cache[s]
                        /\ \A n \in cache[s].args \cup {cache[s].res} : n \in Node => ref[n] # 0
  BY <1>1 DEF Flushed
<1>6. TypeOK'
  <2>1. place' \in [Addr -> {"none", "free", "table"}]
    BY <1>1, <1>2 DEF TypeOK
  <2>2. /\ node' \in [Addr -> AnyContent]
        /\ \A a \in Addr : node'[a] \in Content(ManOf[a]) \cup {Blank}
    BY <1>1, <1>2, BlankContent DEF TypeOK
  <2>3. \A a \in Table' : node'[a] # Blank
    BY <1>2, <1>3, <1>4 DEF TypeOK
  <2>4. deadcnt' \in [Man -> Int] /\ freecnt' \in [Man -> Int] /\ tdead' \in [Man -> [Level -> Int]]
    BY <1>1, <1>2 DEF TypeOK
  <2>5. NoEntry \in [args : SUBSET Addr, res : Node \cup {None}]
    BY DEF NoEntry
  <2>6. cache' \in [Slot -> [args : SUBSET Addr, res : Node \cup {None}]]
    BY <1>2, <1>5, <2>5 DEF TypeOK, Flushed
  <2>7. \A s \in Slot : cache'[s].res = None => cache'[s] = NoEntry
    BY <1>2, <1>5 DEF TypeOK
  <2>8. dead' \subseteq Table' /\ stale' \subseteq dead'
    BY <1>1, <1>2, <1>3 DEF TypeOK
  <2> QED BY <1>1, <1>2, <2>1, <2>2, <2>3, <2>4, <2>6, <2>7, <2>8 DEF TypeOK
<1>7. RefSafe'
  <2> SUFFICES ASSUME NEW k \in Addr, ref'[k] # MAXREF
               PROVE  ref'[k] >= Owed(k)'
    BY DEF RefSafe
  <2>1. k \in Node /\ ref'[k] = ref[k] /\ ref[k] \in Nat /\ ref[k] >= Owed(k)
    BY <1>1, <1>2, NodeTableAssumption DEF IInv, RefSafe, TypeOK, Node
  <2>2. Live \in SUBSET Addr /\ Live' \in SUBSET Live /\ \A a \in Live' : node'[a] = node[a]
    BY <1>3, <1>4 DEF Live, Table
  <2>3. Cardinality(EdgesInto(k)') <= Cardinality(EdgesInto(k))
    BY <2>2, EdgesMono DEF EdgesInto
  <2>4. Cardinality(EdgesInto(k)') \in Nat
    <3>1. Live' \in SUBSET Addr
      BY <2>2
    <3> QED BY <3>1, EdgesFinite DEF EdgesInto
  <2>5. Owed(k)' = hold[k] + pend[k] + Cardinality(EdgesInto(k)') + Requested(k)
    BY <1>1 DEF Owed, Requested
  <2> QED BY <1>2, <2>1, <2>3, <2>4, <2>5, OwedParts
\* What is counted is not collected.
<1>8. \A n \in Addr : Owed(n) > 0 => n \in Table' /\ n \notin dead
  <2> SUFFICES ASSUME NEW n \in Addr, Owed(n) > 0 PROVE n \in Table' /\ n \notin dead
    OBVIOUS
  <2>1. ref[n] > 0 /\ n \in Table /\ n \in Live
    BY OwnedInTable DEF Node
  <2> QED BY <1>2, <1>3, <2>1 DEF Live
<1>9. NoDangling'
  <2> SUFFICES ASSUME NEW n \in Addr,
                      ref[n] > 0 \/ hold[n] > 0 \/ pend[n] > 0 \/ todo[n] > 0 \/ ret = n
               PROVE  n \in Table'
    BY <1>1 DEF NoDangling
  <2>1. n \in Node /\ ret # n /\ todo[n] = 0
    BY NodeTableAssumption DEF Node
  <2>2. CASE ref[n] > 0
    BY <1>2, <1>3, <2>2 DEF IInv, NoDangling
  <2>3. CASE hold[n] > 0 \/ pend[n] > 0
    BY <1>2, <1>8, <2>1, <2>3, OwedParts
  <2> QED BY <2>1, <2>2, <2>3
<1>10. \A a \in Live' : \A i \in DOMAIN node[a].kid :
          node[a].kid[i] = Term \/ (node[a].kid[i] \in Table' /\ node[a].kid[i] \notin dead)
  <2> SUFFICES ASSUME NEW a \in Live', NEW i \in DOMAIN node[a].kid, node[a].kid[i] # Term
               PROVE  node[a].kid[i] \in Table' /\ node[a].kid[i] \notin dead
    OBVIOUS
  <2>1. a \in Live /\ a \in Table
    BY <1>3 DEF Live
  <2>2. node[a].kid[i] \in Addr
    <3>1. node[a] \in Content(ManOf[a])
      BY <1>2, <2>1, InTable
    <3> QED BY <3>1 DEF Content, Node
  <2>3. At(node[a].kid, node[a].kid[i]) # {}
    BY DEF At
  <2>4. ref[node[a].kid[i]] > 0 /\ node[a].kid[i] \in Live
    BY <2>1, <2>2, <2>3, KidInTable DEF Node
  <2> QED BY <1>2, <1>3, <2>4 DEF Live
<1>11. DeadZero' /\ OneLoop'
  BY <1>1 DEF IInv, DeadZero, OneLoop
<1>12. CacheFresh' /\ \A s \in Slot : cache'[s].res \notin stale'
  <2> SUFFICES ASSUME NEW s \in Slot
               PROVE  /\ cache'[s] # NoEntry =>
                           cache'[s].args \cup {cache'[s].res} \subseteq Table' \cup {Term}
                      /\ cache'[s].res \notin stale'
    BY DEF CacheFresh
  <2>1. CASE cache'[s] = NoEntry
    BY <1>1, <1>2, <2>1, NodeTableAssumption DEF NoEntry, TypeOK, Table, Node
  <2>2. CASE cache'[s] # NoEntry
    <3>1. /\ cache'[s] = cache[s]
          /\ \A n \in cache[s].args \cup {cache[s].res} : n \in Node => ref[n] # 0
      BY <1>5, <2>2
    <3>2. cache[s].args \cup {cache[s].res} \subseteq Table \cup {Term}
      BY <2>2, <3>1 DEF IInv, CacheFresh
    <3>3. \A n \in cache[s].args \cup {cache[s].res} : n \notin G /\ n \notin dead
      BY <1>2, <3>1, <3>2, NodeTableAssumption DEF IInv, DeadZero, TypeOK, Table, Node
    <3> QED BY <1>1, <1>3, <3>1, <3>2, <3>3
  <2> QED BY <2>1, <2>2
<1>13. \A a \in Table' \ stale' : Ordered(node[a])'
  <2> SUFFICES ASSUME NEW a \in Table' \ stale',
                      NEW i \in DOMAIN node[a].kid, node[a].kid[i] # Term
               PROVE  /\ node[a].kid[i] \in Table' \ stale'
                      /\ node'[node[a].kid[i]].level > node[a].level
    BY <1>4 DEF Ordered, LevelOf
  <2>1. a \in Live' /\ a \in Table \ stale
    BY <1>1, <1>2, <1>3 DEF Live, TypeOK
  <2>2. node[a].kid[i] \in Table' \ stale'
    BY <1>1, <1>10, <2>1
  <2>3. node[node[a].kid[i]].level > node[a].level
    BY <2>1 DEF IInv, Closed, Ordered, LevelOf
  <2> QED BY <1>4, <2>2, <2>3
<1>14. ASSUME req # NoReq PROVE Ordered(req.key)'
  <2> SUFFICES ASSUME NEW i \in DOMAIN req.key.kid, req.key.kid[i] # Term
               PROVE  /\ req.key.kid[i] \in Table' \ stale'
                      /\ node'[req.key.kid[i]].level > req.key.level
    BY <1>1 DEF Ordered, LevelOf
  <2> DEFINE k == req.key.kid[i]
  <2>1. k \in Addr /\ node[k].level > req.key.level
    BY <1>14 DEF IInv, Closed, Ordered, LevelOf, Table
  <2>2. At(req.key.kid, k) # {}
    BY DEF At
  <2>3. Requested(k) \in Nat /\ Requested(k) > 0
    BY <1>2, <1>14, <2>2, ReqCount DEF Requested
  <2>4. Owed(k) > 0
    BY <1>2, <2>1, <2>3, OwedParts DEF Node
  <2> QED BY <1>1, <1>4, <1>8, <2>1, <2>4
<1>15. Closed'
  BY <1>1, <1>12, <1>13, <1>14 DEF Closed, Node
<1> QED BY <1>6, <1>7, <1>9, <1>11, <1>12, <1>15 DEF IInv

\* cdd_gbc, called by a client.
LEMMA GbcStep ==
    ASSUME IInv, Gbc
    PROVE  IInv'
<1>1. /\ ret = None /\ (\A k \in Node : todo[k] = 0) /\ error' = "ok"
      /\ UNCHANGED <<ref, client, loops>>
  BY DEF Gbc, Idle, Empty
<1>2. PICK ms \in SUBSET Man : Sweep(ms)
  BY DEF Gbc
<1> QED BY <1>1, <1>2, SweepStep

\* The collection inside cdd_alloc_node.
LEMMA AllocGbcStep ==
    ASSUME IInv, AllocGbc
    PROVE  IInv'
<1>1. /\ TypeOK /\ req # NoReq /\ ret = None /\ (\A k \in Node : todo[k] = 0)
      /\ Sweep({req.man}) /\ UNCHANGED <<ref, client, loops>>
      /\ error' = "ok" \/ error' = "NULL"
  BY DEF IInv, OneLoop, AllocGbc
<1>2. {req.man} \in SUBSET Man
  BY <1>1, ReqCount
<1> QED BY <1>1, <1>2, SweepStep

\* A new chunk (cdd_alloc_chunk).
LEMMA AllocChunkStep ==
    ASSUME IInv, AllocChunk
    PROVE  IInv'
<1>1. TypeOK /\ req # NoReq /\ req.man \in Man
  BY ReqCount DEF IInv, AllocChunk
<1>2. PICK S \in SUBSET Addr : /\ \A a \in S : place[a] = "none"
                               /\ place' = [a \in Addr |-> IF a \in S THEN "free" ELSE place[a]]
  BY DEF AllocChunk, OfMan
<1>3. /\ freecnt' = [freecnt EXCEPT ![req.man] = freecnt[req.man] + ChunkNodes]
      /\ UNCHANGED <<node, ref, deadcnt, tdead, cache, hold, ret, pend, todo, req, error,
                     dead, stale>>
  BY DEF AllocChunk, client, loops
<1>4. Table' = Table /\ Live' = Live
  BY <1>1, <1>2, <1>3 DEF Table, Live
<1>5. TypeOK'
  <2>1. place' \in [Addr -> {"none", "free", "table"}]
    BY <1>1, <1>2 DEF TypeOK
  <2>2. freecnt' \in [Man -> Int]
    BY <1>1, <1>3, NodeTableAssumption DEF TypeOK
  <2> QED BY <1>1, <1>3, <1>4, <2>1, <2>2 DEF TypeOK
<1>6. RefSafe'
  <2>1. \A k : EdgesInto(k)' = EdgesInto(k) /\ Requested(k)' = Requested(k)
    BY <1>3, <1>4 DEF EdgesInto, Requested
  <2>2. \A k : Owed(k)' = Owed(k)
    BY <1>3, <2>1 DEF Owed
  <2> QED BY <1>3, <2>2 DEF IInv, RefSafe
<1>7. NoDangling' /\ CacheFresh' /\ OneLoop' /\ DeadZero'
  BY <1>3, <1>4 DEF IInv, NoDangling, CacheFresh, OneLoop, DeadZero
<1>8. Closed'
  BY <1>3, <1>4 DEF IInv, Closed, Ordered, LevelOf
<1> QED BY <1>5, <1>6, <1>7, <1>8 DEF IInv

\* The node is taken from the free list and becomes the owner of its children: the
\* references owed to the request are now owed to its edges.
LEMMA AllocTakeStep ==
    ASSUME IInv, AllocTake
    PROVE  IInv'
<1>1. /\ TypeOK /\ req # NoReq /\ req.man \in Man /\ req.key \in Content(req.man)
      /\ error = "ok" /\ ret = None /\ \A n \in Node : pend[n] = 0 /\ todo[n] = 0
  BY ReqCount DEF IInv, OneLoop, AllocTake
<1>2. PICK a \in FreeList(req.man) :
          /\ place' = [place EXCEPT ![a] = "table"]
          /\ node' = [node EXCEPT ![a] = req.key]
          /\ ret' = a
  BY DEF AllocTake
<1>3. /\ freecnt' = [freecnt EXCEPT ![req.man] = freecnt[req.man] - 1]
      /\ req' = NoReq
      /\ UNCHANGED <<ref, deadcnt, tdead, cache, hold, pend, todo, error, dead, stale>>
  BY DEF AllocTake
<1>4. a \in Addr /\ a \in Node /\ a # None /\ ManOf[a] = req.man /\ a \notin Table /\ a \notin Live
  BY NodeTableAssumption DEF FreeList, OfMan, Table, Live, Node
<1>5. Table' = Table \cup {a} /\ Live' = Live \cup {a} /\ a \notin dead
  <2>1. Table' = Table \cup {a}
    BY <1>1, <1>2, <1>4 DEF Table, TypeOK
  <2>2. a \notin dead
    BY <1>1, <1>4 DEF TypeOK
  <2> QED BY <1>3, <2>1, <2>2 DEF Live
<1>6. node'[a] = req.key /\ \A k \in Addr : k # a => node'[k] = node[k]
  BY <1>1, <1>2, <1>4 DEF TypeOK
<1>7. TypeOK'
  <2>1. place' \in [Addr -> {"none", "free", "table"}]
    BY <1>1, <1>2, <1>4 DEF TypeOK
  <2>2. node' \in [Addr -> AnyContent]
    <3>1. req.key \in AnyContent
      BY <1>1 DEF AnyContent
    <3> QED BY <1>1, <1>2, <1>4, <3>1 DEF TypeOK
  <2>3. \A k \in Addr : node'[k] \in Content(ManOf[k]) \cup {Blank}
    BY <1>1, <1>4, <1>6 DEF TypeOK
  <2>4. \A k \in Table' : node'[k] # Blank
    <3>1. req.key # Blank
      BY <1>1, NodeTableAssumption DEF Content, Blank
    <3> QED BY <1>1, <1>4, <1>5, <1>6, <3>1 DEF TypeOK, Table
  <2>5. freecnt' \in [Man -> Int]
    BY <1>1, <1>3 DEF TypeOK
  <2> QED BY <1>1, <1>2, <1>3, <1>4, <1>5, <2>1, <2>2, <2>3, <2>4, <2>5 DEF TypeOK
<1>8. RefSafe'
  <2> SUFFICES ASSUME NEW k \in Addr, ref'[k] # MAXREF
               PROVE  ref'[k] >= Owed(k)'
    BY DEF RefSafe
  <2>1. k \in Node /\ ref'[k] = ref[k] /\ ref[k] >= Owed(k)
    BY <1>3 DEF IInv, RefSafe, Node
  <2>2. Live \in SUBSET Addr /\ \A p \in Live : node'[p] = node[p]
    BY <1>4, <1>6 DEF Live, Table
  <2>3. EdgesOf(Live, node', k) = EdgesInto(k)
    BY <2>2 DEF EdgesInto, EdgesOf
  <2>4. At(req.key.kid, k) \subseteq 1..MaxSize
    BY <1>1, ReqCount
  <2>5. Cardinality(EdgesOf(Live \cup {a}, node', k))
          = Cardinality(EdgesOf(Live, node', k)) + Cardinality(At(req.key.kid, k))
    BY <1>4, <1>6, <2>2, <2>4, EdgesAdd
  <2>6. Cardinality(EdgesInto(k)') = Cardinality(EdgesInto(k)) + Requested(k)
    BY <1>1, <1>5, <2>3, <2>5 DEF EdgesInto, Requested
  <2>7. Owed(k)' = hold[k] + pend[k] + Cardinality(EdgesInto(k)') + 0
    BY <1>3 DEF Owed, Requested
  <2> QED BY <1>1, <2>1, <2>6, <2>7, OwedParts
<1>9. NoDangling' /\ CacheFresh'
  BY <1>2, <1>3, <1>5 DEF IInv, NoDangling, CacheFresh
<1>10. OneLoop' /\ DeadZero'
  BY <1>1, <1>2, <1>3, <1>5 DEF IInv, OneLoop, DeadZero
<1>11. Closed'
  <2>1. \A k \in Table : LevelOf(k)' = LevelOf(k)
    BY <1>4, <1>6 DEF LevelOf, Table
  <2>2. ASSUME NEW key, Ordered(key)
        PROVE  \A i \in DOMAIN key.kid :
                  \/ key.kid[i] = Term
                  \/ key.kid[i] \in Table' \ stale' /\ LevelOf(key.kid[i])' > key.level
    BY <1>3, <1>5, <2>1, <2>2 DEF Ordered
  <2>3. \A k \in Table' \ stale' : Ordered(node[k])'
    <3> SUFFICES ASSUME NEW k \in Table' \ stale' PROVE Ordered(node[k])'
      OBVIOUS
    <3>1. CASE k = a
      <4>1. Ordered(req.key)
        BY <1>1 DEF IInv, Closed
      <4> QED BY <1>6, <2>2, <3>1, <4>1 DEF Ordered, LevelOf
    <3>2. CASE k # a
      <4>1. k \in Addr /\ node'[k] = node[k] /\ Ordered(node[k])
        BY <1>3, <1>5, <1>6, <3>2 DEF IInv, Closed, Table
      <4> QED BY <2>2, <4>1 DEF Ordered, LevelOf
    <3> QED BY <3>1, <3>2
  <2> QED BY <1>3, <2>3 DEF IInv, Closed
<1> QED BY <1>7, <1>8, <1>9, <1>10, <1>11 DEF IInv
-----------------------------------------------------------------------------
\* The invariant is inductive: one case per action.
LEMMA Inductive == IInv /\ [Next]_vars => IInv'
<1> SUFFICES ASSUME IInv, [Next]_vars PROVE IInv'
  OBVIOUS
<1>1. CASE MakeHeld
  <2>1. Idle /\ \E m \in Man : \E key \in Content(m) :
                 /\ WellOrdered(key)
                 /\ \A n \in Node : At(key.kid, n) # {} => n = Term \/ hold[n] > 0
                 /\ MakeHit(m, key) \/ MakeMiss(m, key)
    BY <1>1 DEF MakeHeld
  <2> QED BY <2>1, MakeStep
<1>2. CASE MakeFloating
  <2>1. PICK key \in Content(BddMan) :
            /\ WellOrdered(key) /\ key.kid[2] = ret
            /\ key.kid[1] = Term \/ hold[key.kid[1]] > 0
            /\ MakeHit(BddMan, key) \/ MakeMiss(BddMan, key)
    BY <1>2 DEF MakeFloating
  <2>2. Idle /\ BddMan \in Man /\ DOMAIN key.kid = {1, 2}
    <3>1. Idle /\ BddMan \in Man /\ Arity[BddMan] = 2
      BY <1>2, NodeTableAssumption DEF MakeFloating
    <3>2. DOMAIN key.kid = 1..2
      BY <3>1 DEF Content
    <3> QED BY <3>1, <3>2
  <2>3. \A n \in Node : At(key.kid, n) # {} => n \in {Term, ret} \/ hold[n] > 0
    BY <2>1, <2>2 DEF At
  <2> QED BY <2>1, <2>2, <2>3, MakeStep
<1>3. CASE Discard \/ Gbc
  BY <1>3, DiscardStep, GbcStep
<1>4. ASSUME NEW n \in Addr, Ref(n) PROVE IInv'
  BY <1>4, RefStep
<1>5. ASSUME NEW n \in Addr, DropFrame(n) \/ Return(n) PROVE IInv'
  <2>1. Idle /\ PlainDeref(n) /\ ret' \in {ret, n}
    BY <1>5 DEF DropFrame, Return
  <2> QED BY <2>1, PlainDerefStep
<1>6. ASSUME NEW n \in Addr, Release(n) PROVE IInv'
  BY <1>6, ReleaseStep
<1>7. ASSUME NEW n \in Node, RecDerefStep(n) PROVE IInv'
  BY <1>7, RecDerefStepInv
<1>8. ASSUME NEW n \in Addr, ReclaimStep(n) PROVE IInv'
  BY <1>8, ReclaimStepInv
<1>9. CASE AllocGbc \/ AllocChunk \/ AllocTake
  BY <1>9, AllocGbcStep, AllocChunkStep, AllocTakeStep
<1>10. ASSUME NEW s \in Slot, CachePut(s) \/ CacheHit(s) PROVE IInv'
  BY <1>10, CachePutStep, CacheHitStep
<1>11. CASE UNCHANGED vars
  <2>1. /\ UNCHANGED <<place, node, ref, deadcnt, freecnt, tdead, cache, hold, ret, pend, todo,
                       req, error, dead, stale>>
        /\ Table' = Table /\ Live' = Live
    BY <1>11 DEF vars, counters, client, loops, Table, Live
  <2>2. \A k : Owed(k)' = Owed(k)
    BY <2>1 DEF Owed, EdgesInto, Requested
  <2>3. RefSafe'
    BY <2>1, <2>2 DEF IInv, RefSafe
  <2>4. TypeOK'
    BY <2>1 DEF IInv, TypeOK
  <2> QED BY <2>1, <2>3, <2>4 DEF IInv, NoDangling, CacheFresh, OneLoop, DeadZero, Closed,
                                  Ordered, LevelOf
<1> QED BY <1>1, <1>2, <1>3, <1>4, <1>5, <1>6, <1>7, <1>8, <1>9, <1>10, <1>11
        DEF Next, NextHeld, Loop, Node

\* The invariant holds in every reachable state, for any number of addresses,
\* managers, levels, labels and cache slots.
THEOREM Invariance == Spec => []IInv
BY InitIInv, Inductive, PTL DEF Spec

\* Type correctness of the kernel's state (kernel.h, the declarations of the node and
\* manager structures).
THEOREM TypeCorrect == Spec => []TypeOK
<1>1. IInv => TypeOK
  BY DEF IInv
<1> QED BY <1>1, Invariance, PTL

\* Every node has at least as many references as owners, or is saturated: the
\* 10-bit counters of kernel.c never undercount, through both explicit-stack loops
\* and a collection in the middle of cdd_make_*_node.
THEOREM RefCountsSafe == Spec => []RefSafe
<1>1. IInv => RefSafe
  BY DEF IInv
<1> QED BY <1>1, Invariance, PTL

\* Whatever is counted, held, returned or on a stack has not been collected
\* (cdd_gbc_nodemanager frees by the counter alone, kernel.c:519-531).
THEOREM NothingDangles == Spec => []NoDangling
<1>1. IInv => NoDangling
  BY DEF IInv
<1> QED BY <1>1, Invariance, PTL

\* cdd_rec_deref never meets a counter that is already zero (the check that ends in
\* CDD_DEREF, kernel.c:442-446): no sequence of operations releases a node twice.
THEOREM NeverReleasedTwice == Spec => [](error # "CDD_DEREF")
<1>1. IInv => error # "CDD_DEREF"
  BY DEF IInv, OneLoop
<1> QED BY <1>1, Invariance, PTL

\* No operator cache names a collected address: flushing before a collection
\* (cdd_operator_flush) is enough, although the caches own no references.
THEOREM CachesFresh == Spec => []CacheFresh
<1>1. IInv => CacheFresh
  BY DEF IInv
<1> QED BY <1>1, Invariance, PTL

\* Between calls every live diagram is complete and ordered: the children of a live
\* node are live and on later levels.
THEOREM DiagramsWellFormed == Spec => []WellFormed
<1>1. IInv => WellFormed
  <2> SUFFICES ASSUME IInv, Idle, NEW a \in Live, NEW n \in Kids(a) \ {Term}
               PROVE  n \in Live /\ LevelOf(n) > LevelOf(a)
    BY DEF WellFormed
  <2>1. TypeOK /\ a \in Table /\ a \notin stale
    BY DEF IInv, Live, TypeOK
  <2>2. PICK i \in DOMAIN node[a].kid : n = node[a].kid[i]
    BY DEF Kids
  <2>3. Ordered(node[a])
    BY <2>1 DEF IInv, Closed
  <2>4. n \in Addr /\ LevelOf(n) > LevelOf(a) /\ At(node[a].kid, n) # {}
    BY <2>2, <2>3 DEF Ordered, LevelOf, Table, At
  <2>5. todo[n] = 0
    BY <2>4 DEF Idle, Empty, Node
  <2> QED BY <2>4, <2>5, KidInTable
<1> QED BY <1>1, Invariance, PTL

\* While a client holds a node, neither its content nor its place changes, whatever
\* other operations, loops and collections run.
THEOREM HeldNodesImmutable == Spec => HeldImmutable
<1>1. ASSUME IInv, [Next]_vars, NEW n \in Addr, hold[n] > 0
      PROVE  node'[n] = node[n] /\ place'[n] = "table"
  <2>1. TypeOK /\ ref[n] > 0 /\ n \in Table /\ place[n] = "table"
    BY <1>1, HeldInTable DEF IInv, Table
  <2>2. ASSUME NEW ms, Sweep(ms) PROVE node'[n] = node[n] /\ place'[n] = "table"
    BY <2>1, <2>2 DEF Sweep, Garbage
  <2>3. CASE AllocChunk
    BY <2>1, <2>3 DEF AllocChunk, OfMan
  <2>4. CASE AllocTake
    BY <2>1, <2>4 DEF AllocTake, FreeList, OfMan, TypeOK
  <2>5. CASE UNCHANGED <<place, node>>
    BY <2>1, <2>5
  <2>6. (\E ms : Sweep(ms)) \/ AllocChunk \/ AllocTake \/ UNCHANGED <<place, node>>
    BY <1>1 DEF Next, NextHeld, Loop, vars, MakeHeld, MakeFloating, MakeHit, MakeMiss, Discard, Gbc,
                Ref, DropFrame, Return, PlainDeref, Release, RecDerefStep, ReclaimStep, AllocGbc,
                CachePut, CacheHit
  <2> QED BY <2>2, <2>3, <2>4, <2>5, <2>6
<1>2. IInv /\ [Next]_vars => [\A n \in Addr : hold[n] > 0 =>
                                  node'[n] = node[n] /\ place'[n] = "table"]_vars
  BY <1>1
<1> QED BY <1>2, Invariance, PTL DEF Spec, HeldImmutable

\* "There are no duplicate nodes" (cdd.h:53), on builds where Elem has no padding:
\* lookup before allocation keeps the table free of duplicates.
THEOREM NodesUnique ==
    ASSUME PaddedElem = FALSE
    PROVE  Spec => []Unique
<1>1. Init => UniqueInv
  BY DEF Init, UniqueInv, Unique, Table
<1>2. IInv /\ UniqueInv /\ [Next]_vars => UniqueInv'
  <2> SUFFICES ASSUME IInv, UniqueInv, [Next]_vars PROVE UniqueInv'
    OBVIOUS
  <2>1. ASSUME NEW ms, Sweep(ms), UNCHANGED req PROVE UniqueInv'
    <3>1. Table' \subseteq Table /\ \A a \in Table' : node'[a] = node[a]
      BY <2>1 DEF Sweep, Table, IInv, TypeOK
    <3> QED BY <2>1, <3>1 DEF UniqueInv, Unique, Found
  <2>2. CASE UNCHANGED <<place, node, req>>
    BY <2>2 DEF UniqueInv, Unique, Found, Table
  <2>3. CASE AllocChunk
    <3>1. Table' = Table /\ UNCHANGED <<node, req>>
      BY <2>3 DEF AllocChunk, Table, OfMan, IInv, TypeOK, loops
    <3> QED BY <3>1 DEF UniqueInv, Unique, Found
  <2>4. CASE AllocTake
    <3>1. PICK a \in FreeList(req.man) : /\ place' = [place EXCEPT ![a] = "table"]
                                         /\ node' = [node EXCEPT ![a] = req.key]
      BY <2>4 DEF AllocTake
    <3>2. a \in Addr /\ TypeOK /\ req # NoReq /\ req' = NoReq
      BY <2>4 DEF FreeList, OfMan, IInv, AllocTake
    <3>3. Table' = Table \cup {a} /\ a \notin Table
      BY <3>1, <3>2 DEF Table, FreeList, TypeOK
    <3>4. node'[a] = req.key /\ \A k \in Table : node'[k] = node[k]
      BY <3>1, <3>2, <3>3 DEF Table, TypeOK
    <3> QED BY <3>2, <3>3, <3>4 DEF UniqueInv, Unique, Found
  <2>5. ASSUME NEW m, NEW key, MakeMiss(m, key) PROVE UniqueInv'
    <3>1. Found(key) = {} /\ UNCHANGED <<place, node>> /\ req'.key = key
      BY <2>5 DEF MakeMiss, MayMiss
    <3> QED BY <3>1 DEF UniqueInv, Unique, Found, Table
  <2>6. \/ \E ms : Sweep(ms) /\ UNCHANGED req
        \/ UNCHANGED <<place, node, req>> \/ AllocChunk \/ AllocTake
        \/ \E m, key : MakeMiss(m, key)
    BY DEF Next, NextHeld, Loop, vars, MakeHeld, MakeFloating, MakeHit, Discard, Gbc, loops,
           Ref, DropFrame, Return, PlainDeref, Release, RecDerefStep, ReclaimStep, AllocGbc,
           CachePut, CacheHit
  <2> QED BY <2>1, <2>2, <2>3, <2>4, <2>5, <2>6
<1>3. UniqueInv => Unique
  BY DEF UniqueInv
<1> QED BY <1>1, <1>2, <1>3, Invariance, PTL DEF Spec

\* Nodes with the same contents belong to the same manager: their level tells.
LEMMA SameManager ==
    ASSUME NEW m \in Man, NEW key, key \in Content(m), key \in Content(BddMan)
    PROVE  m = BddMan
<1>1. key.level \in BddLevel
  BY DEF Content
<1>2. m # BddMan => key.level \in Level \ BddLevel
  BY DEF Content
<1> QED BY <1>1, <1>2

\* "There are no duplicate nodes" (cdd.h:53) holds for BDD nodes on every build: only
\* the lookup of CDD nodes compares padding (finding 2 of the README).
THEOREM BddNodesUnique == Spec => []UniqueBdd
<1>1. Init => UniqueBddInv
  BY DEF Init, UniqueBddInv, UniqueBdd, Table
<1>2. IInv /\ UniqueBddInv /\ [Next]_vars => UniqueBddInv'
  <2> SUFFICES ASSUME IInv, UniqueBddInv, [Next]_vars PROVE UniqueBddInv'
    OBVIOUS
  <2>1. ASSUME NEW ms, Sweep(ms), UNCHANGED req PROVE UniqueBddInv'
    <3>1. Table' \subseteq Table /\ \A a \in Table' : node'[a] = node[a]
      BY <2>1 DEF Sweep, Table, IInv, TypeOK
    <3> QED BY <2>1, <3>1 DEF UniqueBddInv, UniqueBdd, Found
  <2>2. CASE UNCHANGED <<place, node, req>>
    BY <2>2 DEF UniqueBddInv, UniqueBdd, Found, Table
  <2>3. CASE AllocChunk
    <3>1. Table' = Table /\ UNCHANGED <<node, req>>
      BY <2>3 DEF AllocChunk, Table, OfMan, IInv, TypeOK, loops
    <3> QED BY <3>1 DEF UniqueBddInv, UniqueBdd, Found
  <2>4. CASE AllocTake
    <3>1. PICK a \in FreeList(req.man) : /\ place' = [place EXCEPT ![a] = "table"]
                                         /\ node' = [node EXCEPT ![a] = req.key]
      BY <2>4 DEF AllocTake
    <3>2. /\ a \in Addr /\ TypeOK /\ req # NoReq /\ req' = NoReq /\ ManOf[a] = req.man
          /\ req.man \in Man /\ req.key \in Content(req.man)
      BY <2>4, ReqCount DEF FreeList, OfMan, IInv, AllocTake
    <3>3. Table' = Table \cup {a} /\ a \notin Table
      BY <3>1, <3>2 DEF Table, FreeList, TypeOK
    <3>4. node'[a] = req.key /\ \A k \in Table : node'[k] = node[k]
      BY <3>1, <3>2, <3>3 DEF Table, TypeOK
    \* Neither of two equal nodes is new, or both are BDD nodes.
    <3>5. ASSUME NEW b \in Table, node[b] = req.key, ManOf[b] = BddMan \/ req.man = BddMan
          PROVE  FALSE
      <4>1. node[b] \in Content(ManOf[b]) /\ ManOf[b] \in Man
        BY <3>2, InTable
      <4>2. req.man = BddMan
        BY <3>2, <3>5, <4>1, SameManager
      <4> QED BY <3>2, <3>5, <4>2 DEF UniqueBddInv, Found
    <3> QED BY <3>2, <3>3, <3>4, <3>5 DEF UniqueBddInv, UniqueBdd
  <2>5. ASSUME NEW m, NEW key, MakeMiss(m, key) PROVE UniqueBddInv'
    <3>1. (m = BddMan => Found(key) = {}) /\ UNCHANGED <<place, node>>
          /\ req'.key = key /\ req'.man = m
      BY <2>5 DEF MakeMiss, MayMiss
    <3> QED BY <3>1 DEF UniqueBddInv, UniqueBdd, Found, Table
  <2>6. \/ \E ms : Sweep(ms) /\ UNCHANGED req
        \/ UNCHANGED <<place, node, req>> \/ AllocChunk \/ AllocTake
        \/ \E m, key : MakeMiss(m, key)
    BY DEF Next, NextHeld, Loop, vars, MakeHeld, MakeFloating, MakeHit, Discard, Gbc, loops,
           Ref, DropFrame, Return, PlainDeref, Release, RecDerefStep, ReclaimStep, AllocGbc,
           CachePut, CacheHit
  <2> QED BY <2>1, <2>2, <2>3, <2>4, <2>5, <2>6
<1>3. UniqueBddInv => UniqueBdd
  BY DEF UniqueBddInv
<1> QED BY <1>1, <1>2, <1>3, Invariance, PTL DEF Spec

-----------------------------------------------------------------------------
\* Between calls at most the result is unreferenced without being dead.
LEMMA IdleCovered ==
    ASSUME IInv, Covered, \A k \in Node : todo[k] = 0
    PROVE  \A a \in Live : ref[a] = 0 => a = ret
BY DEF Covered, Node

\* A node whose children are live and that is looked up, or returned from a cache
\* (kernel.c:728, cddop.c:235): the result it replaces was referenced, or is a child
\* of the node.
LEMMA HitCovered ==
    ASSUME IInv, Covered, Idle, NEW p \in Table \cup {Term},
           ret \in Addr => ref[ret] > 0 \/ (p # Term /\ ret \in Kids(p)),
           ret' = p, todo' = IF ref[p] = 0 THEN [todo EXCEPT ![p] = 1] ELSE todo,
           UNCHANGED <<place, node, ref, dead>>
    PROVE  Covered'
<1>1. TypeOK /\ \A k \in Node : todo[k] = 0
  BY DEF IInv, Idle, Empty
<1>2. p \in Node /\ ref[p] \in Nat /\ (p = Term => ref[p] > 0) /\ todo \in [Node -> Nat]
  BY <1>1, NodeTableAssumption DEF TypeOK, Table, Node
<1>3. Live' = Live /\ \A a \in Addr : Kids(a)' = Kids(a)
  BY DEF Live, Table, Kids
<1>4. ASSUME NEW a \in Addr, todo'[a] > 0 PROVE ret' = a
  BY <1>1, <1>2, <1>4 DEF Node
<1>5. ASSUME NEW a \in Live, ref[a] = 0
      PROVE  a = p \/ \E k \in Addr : todo'[k] > 0 /\ a \in Kids(k)
  <2>1. a = ret /\ a \in Addr
    BY <1>1, <1>5, IdleCovered DEF Live, Table
  <2>2. p # Term /\ ret \in Kids(p) /\ p \in Table /\ p \in Addr
    BY <1>5, <2>1, NodeTableAssumption DEF Table
  <2>3. CASE ref[p] = 0
    BY <1>2, <2>1, <2>2, <2>3
  <2>4. CASE ref[p] # 0
    <3>1. p \in Live
      BY <1>1, <1>2, <2>2, <2>4 DEF IInv, DeadZero, Live
    <3>2. At(node[p].kid, a) # {}
      BY <2>1, <2>2 DEF Kids, At
    <3> QED BY <1>5, <2>1, <3>1, <3>2, KidInTable
  <2> QED BY <2>3, <2>4
<1> QED BY <1>3, <1>4, <1>5 DEF Covered

\* A new node references its children before it is allocated (kernel.c:653): if one
\* of them was the floating result, it floats no more.
LEMMA MissCovered ==
    ASSUME IInv, Covered, Idle, NEW m \in Man, NEW key \in Content(m), MakeMiss(m, key),
           ret \in Addr => ref[ret] > 0 \/ At(key.kid, ret) # {}
    PROVE  Covered'
<1>1. TypeOK /\ \A k \in Node : todo[k] = 0
  BY DEF IInv, Idle, Empty
<1>2. UNCHANGED <<place, node, todo, dead>> /\ ref' = RefKids(key.kid)
  BY DEF MakeMiss
<1>3. ASSUME NEW a \in Live PROVE ref'[a] > 0
  <2>1. /\ a \in Node /\ a \in Addr /\ ref[a] \in 0..MAXREF
        /\ ref'[a] = SatAdd(ref[a], Cardinality(At(key.kid, a)))
        /\ Cardinality(At(key.kid, a)) \in Nat
    BY <1>1, <1>2, AtCount DEF Live, Table, Node, TypeOK, RefKids
  <2>2. ref[a] > 0 \/ Cardinality(At(key.kid, a)) > 0
    <3>1. CASE ref[a] = 0
      <4>1. a = ret
        BY <1>1, <3>1, IdleCovered
      <4> QED BY <2>1, <3>1, <4>1, AtCount
    <3> QED BY <2>1, <3>1
  <2>3. \/ SatAdd(ref[a], Cardinality(At(key.kid, a))) = MAXREF
        \/ SatAdd(ref[a], Cardinality(At(key.kid, a))) = ref[a] + Cardinality(At(key.kid, a))
    BY <2>1, Sat
  <2> QED BY <2>1, <2>2, <2>3, NodeTableAssumption
<1>4. Live' = Live
  BY <1>2 DEF Live, Table
<1>5. \A a \in Addr : todo'[a] = 0
  BY <1>1, <1>2 DEF Node
<1> QED BY <1>3, <1>4, <1>5, NodeTableAssumption DEF Covered

\* One iteration of cdd_reclaim: the children of the revived node are referenced in
\* the same step in which they may be pushed.
LEMMA ReclaimCovered ==
    ASSUME IInv, Covered, NEW a \in Addr, ReclaimStep(a)
    PROVE  Covered'
<1>1. /\ TypeOK /\ a \in Table /\ a \in Node /\ todo[a] > 0
      /\ ref \in [Node -> 0..MAXREF] /\ todo \in [Node -> Nat]
  BY DEF ReclaimStep, IInv, TypeOK, NoDangling, Node
<1>2. /\ UNCHANGED <<place, node, ret>>
      /\ ref' = RefKids(node[a].kid) /\ dead' = dead \ {a}
      /\ todo' = [c \in Node |-> todo[c] - (IF c = a THEN 1 ELSE 0) + Pushed(a, c)]
  BY DEF ReclaimStep, client
<1>3. Live' = Live \cup {a} /\ \A k \in Addr : Kids(k)' = Kids(k)
  BY <1>1, <1>2 DEF Live, Table, Kids
<1>4. ASSUME NEW c \in Node
      PROVE  /\ ref[c] \in 0..MAXREF /\ ref'[c] \in 0..MAXREF
             /\ ref[c] > 0 \/ At(node[a].kid, c) # {} => ref'[c] > 0
  <2>1. Cardinality(At(node[a].kid, c)) \in Nat
        /\ (Cardinality(At(node[a].kid, c)) = 0 <=> At(node[a].kid, c) = {})
    BY <1>1, KidCount
  <2>2. ref'[c] = SatAdd(ref[c], Cardinality(At(node[a].kid, c))) /\ ref[c] \in 0..MAXREF
    BY <1>1, <1>2 DEF RefKids
  <2>3. /\ SatAdd(ref[c], Cardinality(At(node[a].kid, c))) \in 0..MAXREF
        /\ \/ SatAdd(ref[c], Cardinality(At(node[a].kid, c))) = MAXREF
           \/ SatAdd(ref[c], Cardinality(At(node[a].kid, c))) = ref[c] + Cardinality(At(node[a].kid, c))
    BY <2>1, <2>2, Sat
  <2> QED BY <2>1, <2>2, <2>3, NodeTableAssumption
<1>5. ASSUME NEW c \in Node
      PROVE  /\ Pushed(a, c) \in Nat
             /\ Pushed(a, c) > 0 => At(node[a].kid, c) # {}
  BY <1>1, KidCount DEF Pushed
<1>6. ASSUME NEW c \in Addr, todo'[c] > 0 PROVE ref'[c] > 0 \/ ret' = c
  <2>1. c \in Node /\ todo[c] \in Nat
    BY <1>1 DEF Node
  <2>2. CASE Pushed(a, c) > 0
    BY <1>4, <1>5, <2>1, <2>2
  <2>3. CASE Pushed(a, c) = 0
    <3>1. todo'[c] = todo[c] - (IF c = a THEN 1 ELSE 0)
      BY <1>2, <2>1, <2>3
    <3>2. todo[c] > 0
      BY <1>6, <2>1, <3>1
    <3> QED BY <1>2, <1>4, <2>1, <3>2 DEF Covered
  <2> QED BY <1>5, <2>1, <2>2, <2>3
<1>7. ASSUME NEW b \in Live \cup {a}, ref'[b] = 0
      PROVE  b = ret \/ \E p \in Addr : todo'[p] > 0 /\ b \in Kids(p)
  <2>1. b \in Addr /\ b \in Node
    BY DEF Live, Table, Node
  <2>2. ref[b] = 0 /\ At(node[a].kid, b) = {}
    BY <1>4, <1>7, <2>1
  <2>3. CASE b = a
    BY <1>1, <2>2, <2>3 DEF Covered
  <2>4. CASE b \in Live /\ b # ret
    <3>1. PICK p \in Addr : todo[p] > 0 /\ b \in Kids(p)
      BY <2>2, <2>4 DEF Covered
    <3>2. p # a
      BY <2>2, <3>1 DEF Kids, At
    <3>3. p \in Node /\ todo'[p] = todo[p] + Pushed(a, p) /\ todo[p] \in Nat
      BY <1>1, <1>2, <1>5, <3>2 DEF Node
    <3>4. todo'[p] > 0
      BY <1>5, <3>1, <3>3
    <3> QED BY <3>1, <3>4
  <2> QED BY <1>7, <2>3, <2>4
<1> QED BY <1>2, <1>3, <1>6, <1>7 DEF Covered

\* A node is lost to no step: one step of each action.
LEMMA CoveredInductive == IInv /\ Covered /\ [Next]_vars => Covered'
<1> SUFFICES ASSUME IInv, Covered, [Next]_vars PROVE Covered'
  OBVIOUS
<1>0. TypeOK
  BY DEF IInv
<1>1. CASE MakeHeld
  <2>0. PICK m \in Man : \E key \in Content(m) : MakeHit(m, key) \/ MakeMiss(m, key)
    BY <1>1 DEF MakeHeld
  <2>1. PICK key \in Content(m) : MakeHit(m, key) \/ MakeMiss(m, key)
    BY <2>0
  <2>2. Idle /\ (ret \in Addr => ref[ret] > 0)
    BY <1>1, NodeTableAssumption DEF MakeHeld, Settled, Node
  <2>3. ASSUME MakeHit(m, key) PROVE Covered'
    BY <2>2, <2>3, HitCovered DEF MakeHit, Found
  <2> QED BY <2>1, <2>2, <2>3, MissCovered
<1>2. CASE MakeFloating
  <2>1. PICK key \in Content(BddMan) :
            key.kid[2] = ret /\ (MakeHit(BddMan, key) \/ MakeMiss(BddMan, key))
    BY <1>2 DEF MakeFloating
  <2>2. Idle /\ BddMan \in Man /\ 2 \in DOMAIN key.kid
    <3>1. Idle /\ BddMan \in Man /\ Arity[BddMan] = 2
      BY <1>2, NodeTableAssumption DEF MakeFloating
    <3> QED BY <3>1 DEF Content
  <2>3. ASSUME MakeHit(BddMan, key) PROVE Covered'
    <3>1. PICK p \in Found(key) :
              /\ ret' = p
              /\ todo' = IF ref[p] = 0 THEN [todo EXCEPT ![p] = 1] ELSE todo
              /\ UNCHANGED <<place, node, ref, dead>>
      BY <2>3 DEF MakeHit
    <3>2. p \in Table /\ p # Term /\ ret \in Kids(p)
      BY <2>1, <2>2, NodeTableAssumption DEF Found, Table, Kids
    <3> QED BY <2>2, <3>1, <3>2, HitCovered
  <2>4. At(key.kid, ret) # {}
    BY <2>1, <2>2 DEF At
  <2> QED BY <2>1, <2>2, <2>3, <2>4, MissCovered
<1>3. CASE Gbc \/ AllocGbc
  <2>1. /\ \E ms : Sweep(ms)
        /\ UNCHANGED <<ref, ret, todo>> /\ \A k \in Node : todo[k] = 0
    BY <1>3 DEF Gbc, AllocGbc, client, loops, Idle, Empty, IInv, OneLoop
  <2>2. Live' \subseteq Live
    BY <2>1 DEF Sweep, Live, Table, Garbage
  <2> QED BY <2>1, <2>2, IdleCovered DEF Covered, Node
<1>4. ASSUME NEW n \in Addr, Ref(n) PROVE Covered'
  <2>1. /\ UNCHANGED <<place, node, todo, dead>> /\ n \in Node /\ ref[n] \in 0..MAXREF
        /\ ref' = [ref EXCEPT ![n] = SatAdd(ref[n], 1)] /\ ret' = IF n = ret THEN None ELSE ret
        /\ \A k \in Node : todo[k] = 0
    BY <1>0, <1>4 DEF Ref, loops, Node, TypeOK, Idle, Empty
  <2>2. SatAdd(ref[n], 1) > 0
    BY <2>1, Sat
  <2>3. Live' = Live /\ Live \subseteq Node
    BY <2>1 DEF Live, Table, Node
  <2> QED BY <1>0, <2>1, <2>2, <2>3, IdleCovered DEF Covered, Node, TypeOK
<1>5. CASE Discard
  <2>1. /\ UNCHANGED <<place, node, ref, todo, dead>> /\ ref[ret] > 0 /\ \A k \in Node : todo[k] = 0
    BY <1>5 DEF Discard, loops, Idle, Empty
  <2>2. Live' = Live
    BY <2>1 DEF Live, Table
  <2> QED BY <2>1, <2>2, IdleCovered DEF Covered, Node
<1>6. ASSUME NEW n \in Addr, DropFrame(n) \/ Return(n) PROVE Covered'
  <2>1. /\ UNCHANGED <<place, node, todo, dead>> /\ n \in Node /\ ref[n] \in 0..MAXREF
        /\ ref' = [ref EXCEPT ![n] = SatDec(ref[n])] /\ hold[n] > 0
        /\ Idle /\ \A k \in Node : todo[k] = 0
    BY <1>0, <1>6 DEF DropFrame, Return, PlainDeref, loops, Node, TypeOK, Idle, Empty
  <2>2. Live' = Live /\ Live \subseteq Node /\ Live \subseteq Addr
    BY <2>1 DEF Live, Table, Node
  <2>3. CASE Return(n)
    BY <1>0, <2>1, <2>2, <2>3, IdleCovered, NodeTableAssumption DEF Return, Covered, Node, TypeOK
  <2>4. CASE DropFrame(n)
    <3>1. ret' = ret /\ ret \in Addr /\ (n = ret \/ n \in Kids(ret))
      BY <1>0, <2>4 DEF DropFrame, TypeOK, Node
    <3>2. n = ret \/ SatDec(ref[n]) > 0
      <4> SUFFICES ASSUME n \in Kids(ret) PROVE SatDec(ref[n]) > 0
        BY <3>1
      <4>1. ret \in Live /\ Live \in SUBSET Addr
        BY <2>1, <2>2, <3>1, KnownLive
      <4>2. At(node[ret].kid, n) # {} /\ At(node[ret].kid, n) \subseteq 1..MaxSize
        BY <1>0, <4>1, KidCount DEF Kids, At, Live
      <4>3. Cardinality(EdgesInto(n)) >= 1
        BY <4>1, <4>2, EdgeCounted DEF EdgesInto
      <4>4. Owed(n) >= 2
        BY <1>0, <2>1, <4>3, OwedParts
      <4>5. ref[n] = MAXREF \/ ref[n] >= Owed(n)
        BY DEF IInv, RefSafe
      <4>6. Owed(n) \in Nat
        BY <1>0, <2>1, OwedParts
      <4> QED BY <2>1, <4>4, <4>5, <4>6, NodeTableAssumption DEF SatDec
    <3> QED BY <1>0, <2>1, <2>2, <3>1, <3>2, IdleCovered DEF Covered, Node, TypeOK
  <2> QED BY <1>6, <2>3, <2>4
<1>7. ASSUME NEW n \in Addr, Release(n) PROVE Covered'
  <2>1. UNCHANGED <<place, node, ref, ret, todo, dead>>
    BY <1>7 DEF Release
  <2>2. Live' = Live /\ \A k \in Addr : Kids(k)' = Kids(k)
    BY <2>1 DEF Live, Table, Kids
  <2> QED BY <2>1, <2>2 DEF Covered
<1>8. ASSUME NEW n \in Node, RecDerefStep(n) PROVE Covered'
  <2>1. (\A k \in Node : todo[k] = 0) /\ ret = None /\ UNCHANGED <<place, node, ret, todo>>
    BY <1>8 DEF RecDerefStep, IInv, OneLoop, client
  <2>2. \A k \in Live : ref[k] # 0
    BY <2>1, IdleCovered, NodeTableAssumption DEF Live, Table, Node
  <2>3. ref[n] \in 0..MAXREF /\ dead \subseteq dead' /\ Live' \subseteq Live
    BY <1>0, <1>8, <2>1 DEF RecDerefStep, TypeOK, Live, Table
  <2>4. ASSUME NEW k \in Live' PROVE ref'[k] # 0
    <3>1. k \in Live /\ k \in Node /\ k \in Addr
      BY <2>3 DEF Live, Table, Node
    <3>2. CASE k # n \/ ref[n] = 0
      BY <1>0, <1>8, <2>2, <3>1, <3>2 DEF RecDerefStep, TypeOK
    <3>3. CASE k = n /\ ref[n] # 0
      <4>1. ref'[k] = SatDec(ref[n]) /\ ~Dies(n)
        BY <1>0, <1>8, <2>4, <3>1, <3>3 DEF RecDerefStep, TypeOK, Live
      <4> QED BY <2>3, <3>3, <4>1, NodeTableAssumption DEF SatDec, Dies
    <3> QED BY <3>2, <3>3
  <2> QED BY <2>1, <2>4 DEF Covered, Node
<1>9. ASSUME NEW n \in Addr, ReclaimStep(n) PROVE Covered'
  BY <1>9, ReclaimCovered
<1>10. CASE AllocChunk
  <2>1. UNCHANGED <<node, ref, ret, todo, dead>> /\ Table' = Table
    BY <1>0, <1>10 DEF AllocChunk, client, loops, Table, OfMan, TypeOK
  <2>2. Live' = Live /\ \A k \in Addr : Kids(k)' = Kids(k)
    BY <2>1 DEF Live, Kids
  <2> QED BY <2>1, <2>2 DEF Covered
<1>11. CASE AllocTake
  <2>1. PICK a \in FreeList(req.man) : place' = [place EXCEPT ![a] = "table"] /\ ret' = a
    BY <1>11 DEF AllocTake
  <2>2. /\ UNCHANGED <<ref, todo, dead>> /\ ret = None /\ \A k \in Node : todo[k] = 0
    BY <1>11 DEF AllocTake, IInv, OneLoop
  <2>3. Live' \subseteq Live \cup {a}
    BY <1>0, <2>1, <2>2 DEF Live, Table, TypeOK
  <2>4. \A k \in Live : ref[k] # 0
    BY <2>2, IdleCovered, NodeTableAssumption DEF Live, Table, Node
  <2> QED BY <2>1, <2>2, <2>3, <2>4 DEF Covered, Node
<1>12. ASSUME NEW s \in Slot, CacheHit(s) PROVE Covered'
  <2>1. Idle /\ (ret \in Addr => ref[ret] > 0) /\ UNCHANGED <<place, node, ref, dead>>
    BY <1>12, NodeTableAssumption DEF CacheHit, Settled, Node
  <2>2. cache[s].res \in Table \cup {Term}
    BY <1>12 DEF CacheHit, IInv, CacheFresh
  <2> QED BY <1>12, <2>1, <2>2, HitCovered DEF CacheHit
<1>13. CASE UNCHANGED vars \/ \E s \in Slot : CachePut(s)
  <2>1. UNCHANGED <<place, node, ref, ret, todo, dead>>
    BY <1>13 DEF vars, CachePut, client, loops
  <2>2. Live' = Live /\ \A k \in Addr : Kids(k)' = Kids(k)
    BY <2>1 DEF Live, Table, Kids
  <2> QED BY <2>1, <2>2 DEF Covered
<1> QED BY <1>1, <1>2, <1>3, <1>4, <1>5, <1>6, <1>7, <1>8, <1>9, <1>10, <1>11, <1>12, <1>13
        DEF Next, NextHeld, Loop, Node

\* Between calls every live node except the result on its way is referenced: no path
\* through the loops, the frames' plain cdd_deref and a lookup with a floating child
\* leaves a node that no collection would count (cddop.c:295, kernel.c:447).
THEOREM NothingLost == Spec => []NoLostNode
<1>1. Init => Covered
  BY DEF Init, Covered, Live, Table, Empty, Node
<1>2. IInv /\ Covered => NoLostNode
  BY IdleCovered DEF NoLostNode, Idle, Empty
<1> QED BY <1>1, <1>2, CoveredInductive, Invariance, PTL DEF Spec

-----------------------------------------------------------------------------
(* Counting level by level.                                                *)

\* The members of D, numbered on each level.
Ranks(D, lev) == UNION {{l} \X (1..Cardinality({a \in D : lev[a] = l})) : l \in Level}

\* Numbering loses and invents nothing.
LEMMA RanksCount ==
    ASSUME NEW D, IsFiniteSet(D), NEW lev \in [D -> Level]
    PROVE  IsFiniteSet(Ranks(D, lev)) /\ Cardinality(Ranks(D, lev)) = Cardinality(D)
<1> DEFINE On(l) == {a \in D : lev[a] = l}
           C(l) == Cardinality(On(l))
           g == [l \in Level |-> CHOOSE f \in Bijection(On(l), 1..C(l)) : TRUE]
           h == [a \in D |-> <<lev[a], g[lev[a]][a]>>]
           R == Ranks(D, lev)
<1>1. ASSUME NEW l \in Level PROVE g[l] \in Bijection(On(l), 1..C(l)) /\ C(l) \in Nat
  <2>1. IsFiniteSet(On(l))
    BY FS_Subset
  <2>2. C(l) \in Nat /\ ExistsBijection(1..C(l), On(l))
    BY <2>1, FS_CardinalityType
  <2>3. ExistsBijection(On(l), 1..C(l))
    BY <2>2, Fun_ExistsBijSymmetric
  <2>4. Bijection(On(l), 1..C(l)) # {}
    BY <2>3, Fun_ExistsBij
  <2> HIDE DEF On, C
  <2> QED BY <2>2, <2>4
<1>2. ASSUME NEW l \in Level
      PROVE  /\ \A a \in On(l) : g[l][a] \in 1..C(l)
             /\ \A a, b \in On(l) : g[l][a] = g[l][b] => a = b
             /\ \A i \in 1..C(l) : \E a \in On(l) : g[l][a] = i
  <2> HIDE DEF On, C, g
  <2> QED BY <1>1 DEF Bijection, Injection, IsInjective, Surjection
<1>3. \A x : x \in R <=> \E l \in Level : \E i \in 1..C(l) : x = <<l, i>>
  <2>1. R = UNION {{l} \X (1..C(l)) : l \in Level}
    BY DEF Ranks
  <2> HIDE DEF R, C
  <2> QED BY <2>1
<1> HIDE DEF R, g, C
<1>4. h \in [D -> R]
  <2> SUFFICES ASSUME NEW a \in D PROVE <<lev[a], g[lev[a]][a]>> \in R
    OBVIOUS
  <2>1. lev[a] \in Level /\ a \in On(lev[a])
    OBVIOUS
  <2> QED BY <2>1, <1>2, <1>3
<1>5. ASSUME NEW a \in D, NEW b \in D, h[a] = h[b] PROVE a = b
  <2>1. lev[a] = lev[b] /\ g[lev[a]][a] = g[lev[b]][b] /\ lev[a] \in Level
    BY <1>5
  <2>2. a \in On(lev[a]) /\ b \in On(lev[a])
    BY <2>1
  <2> QED BY <2>1, <2>2, <1>2
<1>6. ASSUME NEW x \in R PROVE \E a \in D : h[a] = x
  <2>1. PICK l \in Level : \E i \in 1..C(l) : x = <<l, i>>
    BY <1>3
  <2>2. PICK i \in 1..C(l) : x = <<l, i>>
    BY <2>1
  <2>3. PICK a \in On(l) : g[l][a] = i
    BY <1>2
  <2> QED BY <2>2, <2>3
<1> HIDE DEF h
<1>7. h \in Bijection(D, R)
  BY <1>4, <1>5, <1>6, Fun_IsBij
<1>8. ExistsBijection(D, R)
  BY <1>7, Fun_ExistsBij
<1> QED BY <1>8, FS_Bijection DEF R

\* Sets of addresses are finite.
LEMMA AddrFinite == ASSUME NEW S \in SUBSET Addr PROVE IsFiniteSet(S) /\ Cardinality(S) \in Nat
BY NodeTableAssumption, FS_Subset, FS_CardinalityType

\* So are those of the dead nodes of a manager and of a subtable.
LEMMA DeadFinite ==
    ASSUME NEW m, NEW l
    PROVE  /\ IsFiniteSet(DeadOf(m)) /\ Cardinality(DeadOf(m)) \in Nat
           /\ IsFiniteSet(DeadAt(m, l)) /\ Cardinality(DeadAt(m, l)) \in Nat
           /\ IsFiniteSet(DeadOf(m)') /\ Cardinality(DeadOf(m)') \in Nat
           /\ IsFiniteSet(DeadAt(m, l)') /\ Cardinality(DeadAt(m, l)') \in Nat
<1>1. /\ DeadOf(m) \in SUBSET Addr /\ DeadAt(m, l) \in SUBSET Addr
      /\ DeadOf(m)' \in SUBSET Addr /\ DeadAt(m, l)' \in SUBSET Addr
  BY DEF DeadOf, DeadAt, OfMan
<1> QED BY <1>1, AddrFinite

\* What Missing contains.
LEMMA MissingIs ==
    ASSUME NEW m
    PROVE  \A x : x \in Missing(m) <=>
              \E l \in Level : \E i \in 1..(Cardinality(DeadAt(m, l)) - tdead[m][l]) : x = <<l, i>>
BY DEF Missing

\* A manager whose subtables report no dead node where there are some misses at least
\* those.
LEMMA AllMissing ==
    ASSUME TypeOK, NEW m, \A l \in Level : tdead[m][l] = 0 \/ DeadAt(m, l) = {}
    PROVE  Ranks(DeadOf(m), [a \in DeadOf(m) |-> LevelOf(a)]) \subseteq Missing(m)
<1> DEFINE lev == [a \in DeadOf(m) |-> LevelOf(a)]
<1>1. \A l : {a \in DeadOf(m) : lev[a] = l} = DeadAt(m, l)
  BY DEF DeadAt
<1> SUFFICES ASSUME NEW x \in Ranks(DeadOf(m), lev) PROVE x \in Missing(m)
  OBVIOUS
<1>2. PICK l \in Level : \E i \in 1..Cardinality(DeadAt(m, l)) : x = <<l, i>>
  BY <1>1 DEF Ranks
<1>3. PICK i \in 1..Cardinality(DeadAt(m, l)) : x = <<l, i>>
  BY <1>2
<1>4. DeadAt(m, l) # {}
  BY <1>3, FS_EmptySet
<1>5. i \in 1..(Cardinality(DeadAt(m, l)) - tdead[m][l])
  BY <1>4, DeadFinite
<1> QED BY <1>3, <1>5, MissingIs

\* Levels of the dead nodes.
LEMMA DeadLevels ==
    ASSUME TypeOK, NEW m
    PROVE  [a \in DeadOf(m) |-> LevelOf(a)] \in [DeadOf(m) -> Level]
<1>1. \A a \in DeadOf(m) : a \in Table
  BY DEF TypeOK, DeadOf
<1> QED BY <1>1, InTable

\* A collection that the counter of dead nodes asked for finds one (kernel.c:556-561).
LEMMA DueFindsGarbage ==
    ASSUME IInv, Drift, NEW m \in Man, Due(m), \A k \in Node : todo[k] = 0
    PROVE  Garbage({m}) # {}
<1> SUFFICES ASSUME Garbage({m}) = {} PROVE FALSE
  OBVIOUS
<1> DEFINE lev == [a \in DeadOf(m) |-> LevelOf(a)]
           R == Ranks(DeadOf(m), lev)
<1>1. TypeOK /\ DriftOf(m)
  BY DEF IInv, Drift
<1>2. deadcnt[m] \in Int /\ deadcnt[m] > 0
  <2>1. IsFiniteSet({a \in OfMan(m) : place[a] # "none"})
    BY NodeTableAssumption, FS_Subset DEF OfMan
  <2>2. AllocCnt(m) \in Nat
    BY <2>1, FS_CardinalityType DEF AllocCnt
  <2>3. MINFREE * AllocCnt(m) \in Nat
    BY <2>2, NodeTableAssumption
  <2>4. deadcnt[m] \in Int
    BY <1>1 DEF TypeOK
  <2> QED BY <2>3, <2>4 DEF Due
<1>3. ASSUME NEW l \in Level, NEW a \in DeadAt(m, l) PROVE tdead[m][l] = 0
  <2>1. a \in dead /\ a \in Addr /\ ManOf[a] = m /\ LevelOf(a) = l /\ a \in Table
    BY <1>1 DEF DeadAt, DeadOf, OfMan, TypeOK
  <2>2. ref[a] = 0
    BY <2>1 DEF IInv, DeadZero, Node
  <2> QED BY <2>1, <2>2 DEF Garbage
<1>4. \A l \in Level : tdead[m][l] = 0 \/ DeadAt(m, l) = {}
  BY <1>3
<1>5. IsFiniteSet(R) /\ Cardinality(R) = Cardinality(DeadOf(m))
  BY <1>1, DeadFinite, DeadLevels, RanksCount
<1>6. R \subseteq Missing(m)
  BY <1>1, <1>4, AllMissing
<1>7. Cardinality(R) <= Cardinality(Missing(m))
  BY <1>1, <1>6, FS_Subset DEF DriftOf
<1>8. Cardinality(Missing(m)) \in Nat /\ Cardinality(DeadOf(m)) \in Nat
  BY <1>1, DeadFinite, FS_CardinalityType DEF DriftOf
<1> QED BY <1>1, <1>2, <1>5, <1>7, <1>8 DEF DriftOf

-----------------------------------------------------------------------------
(* The counters never promise too much.                                    *)

\* The members of d in a manager, and in one of its subtables.
Part(d, m) == d \cap OfMan(m)
PartAt(d, m, l) == {a \in d \cap OfMan(m) : LevelOf(a) = l}

\* One more dead node is one more on its level and one more of its manager.
LEMMA OneMoreDead ==
    ASSUME NEW d \in SUBSET Addr, NEW n \in Addr, n \notin d, NEW m, NEW l
    PROVE  /\ Cardinality(Part(d \cup {n}, m))
                = Cardinality(Part(d, m)) + (IF m = ManOf[n] THEN 1 ELSE 0)
           /\ Cardinality(PartAt(d \cup {n}, m, l))
                = Cardinality(PartAt(d, m, l))
                    + (IF m = ManOf[n] /\ l = LevelOf(n) THEN 1 ELSE 0)
<1> DEFINE X == d \cap OfMan(m)
           Y == {a \in X : LevelOf(a) = l}
           X2 == (d \cup {n}) \cap OfMan(m)
           Y2 == {a \in X2 : LevelOf(a) = l}
<1>1. /\ IsFiniteSet(X) /\ Cardinality(X) \in Nat /\ IsFiniteSet(Y) /\ Cardinality(Y) \in Nat
      /\ n \notin X /\ n \notin Y
  <2>1. X \in SUBSET Addr /\ Y \in SUBSET Addr
    OBVIOUS
  <2> QED BY <2>1, AddrFinite
<1>2. Cardinality(X2) = Cardinality(X) + (IF m = ManOf[n] THEN 1 ELSE 0)
  <2>1. CASE m = ManOf[n]
    <3>1. X2 = X \cup {n}
      BY <2>1 DEF OfMan
    <3> QED BY <1>1, <2>1, <3>1, FS_AddElement
  <2>2. CASE m # ManOf[n]
    <3>1. X2 = X
      BY <2>2 DEF OfMan
    <3> QED BY <1>1, <2>2, <3>1
  <2> QED BY <2>1, <2>2
<1>3. Cardinality(Y2) = Cardinality(Y) + (IF m = ManOf[n] /\ l = LevelOf(n) THEN 1 ELSE 0)
  <2>1. CASE m = ManOf[n] /\ l = LevelOf(n)
    <3>1. Y2 = Y \cup {n}
      BY <2>1 DEF OfMan
    <3> QED BY <1>1, <2>1, <3>1, FS_AddElement
  <2>2. CASE ~(m = ManOf[n] /\ l = LevelOf(n))
    <3>1. Y2 = Y
      BY <2>2 DEF OfMan
    <3> QED BY <1>1, <2>2, <3>1
  <2> QED BY <2>1, <2>2
<1> QED BY <1>2, <1>3 DEF Part, PartAt

\* The change of the dead nodes in a step.
More(m) == Cardinality(DeadOf(m)') - Cardinality(DeadOf(m))
MoreAt(m, l) == Cardinality(DeadAt(m, l)') - Cardinality(DeadAt(m, l))

\* The counters of manager m follow that change.
Follows(m) ==
    /\ deadcnt'[m] = deadcnt[m] + More(m)
    /\ \A l \in Level : tdead'[m][l] = tdead[m][l] + MoreAt(m, l)

\* Counters that follow the dead nodes miss what they missed.
LEMMA DriftFollows ==
    ASSUME TypeOK, TypeOK', NEW m \in Man, DriftOf(m), Follows(m)
    PROVE  DriftOf(m)'
<1>1. /\ deadcnt[m] \in Int
      /\ \A l \in Level : tdead[m][l] \in Int
  BY DEF TypeOK
<1>2. \A l \in Level : Cardinality(DeadAt(m, l)') - tdead'[m][l] = Cardinality(DeadAt(m, l)) - tdead[m][l]
  BY <1>1, DeadFinite DEF MoreAt, Follows
<1>3. Missing(m)' = Missing(m)
  <2>1. Missing(m)' = UNION {{l} \X (1..(Cardinality(DeadAt(m, l)') - tdead'[m][l])) : l \in Level}
    BY DEF Missing
  <2> QED BY <1>2, <2>1 DEF Missing
<1>4. \A l \in Level : tdead'[m][l] <= Cardinality(DeadAt(m, l)')
  BY <1>1, DeadFinite DEF MoreAt, Follows, DriftOf
<1>5. deadcnt'[m] + Cardinality(Missing(m)) = Cardinality(DeadOf(m)')
  <2>1. Cardinality(Missing(m)) \in Nat
    BY FS_CardinalityType DEF DriftOf
  <2>2. Cardinality(DeadOf(m)') \in Nat /\ Cardinality(DeadOf(m)) \in Nat
    BY DeadFinite
  <2>3. deadcnt[m] + Cardinality(Missing(m)) = Cardinality(DeadOf(m))
    BY DEF DriftOf
  <2>4. deadcnt'[m] = deadcnt[m] + (Cardinality(DeadOf(m)') - Cardinality(DeadOf(m)))
    BY DEF More, Follows
  <2> QED BY <1>1, <2>1, <2>2, <2>3, <2>4
<1> QED BY <1>3, <1>4, <1>5 DEF DriftOf

\* A node that dies is one more of its manager and of its subtable.
LEMMA OneDies ==
    ASSUME TypeOK, NEW n \in Table, n \notin dead, dead' = dead \cup {n}, node' = node, NEW m, NEW l
    PROVE  /\ More(m) = (IF m = ManOf[n] THEN 1 ELSE 0)
           /\ MoreAt(m, l) = (IF m = ManOf[n] /\ l = LevelOf(n) THEN 1 ELSE 0)
<1>1. n \in Addr /\ dead \in SUBSET Addr
  BY DEF Table, TypeOK
<1>2. DeadOf(m)' = Part(dead \cup {n}, m) /\ DeadAt(m, l)' = PartAt(dead \cup {n}, m, l)
  BY DEF Part, PartAt, DeadOf, DeadAt, OfMan, LevelOf
<1>3. DeadOf(m) = Part(dead, m) /\ DeadAt(m, l) = PartAt(dead, m, l)
  BY DEF Part, PartAt, DeadOf, DeadAt
<1>4. /\ Cardinality(DeadOf(m)') = Cardinality(DeadOf(m)) + (IF m = ManOf[n] THEN 1 ELSE 0)
      /\ Cardinality(DeadAt(m, l)')
           = Cardinality(DeadAt(m, l)) + (IF m = ManOf[n] /\ l = LevelOf(n) THEN 1 ELSE 0)
  <2>1. /\ Cardinality(Part(dead \cup {n}, m))
             = Cardinality(Part(dead, m)) + (IF m = ManOf[n] THEN 1 ELSE 0)
        /\ Cardinality(PartAt(dead \cup {n}, m, l))
             = Cardinality(PartAt(dead, m, l))
                 + (IF m = ManOf[n] /\ l = LevelOf(n) THEN 1 ELSE 0)
    BY <1>1, OneMoreDead
  <2> QED BY <1>2, <1>3, <2>1
<1>5. Cardinality(DeadOf(m)) \in Nat /\ Cardinality(DeadAt(m, l)) \in Nat
  BY DeadFinite
<1> QED BY <1>4, <1>5 DEF More, MoreAt

\* A dead node that is revived is discounted.
LEMMA OneRevives ==
    ASSUME TypeOK, NEW n \in Table, n \in dead, dead' = dead \ {n}, node' = node, NEW m, NEW l
    PROVE  /\ More(m) = (IF m = ManOf[n] THEN -1 ELSE 0)
           /\ MoreAt(m, l) = (IF m = ManOf[n] /\ l = LevelOf(n) THEN -1 ELSE 0)
<1>1. n \in Addr /\ dead' \in SUBSET Addr /\ n \notin dead' /\ dead = dead' \cup {n}
  BY DEF Table, TypeOK
<1>2. DeadOf(m)' = Part(dead', m) /\ DeadAt(m, l)' = PartAt(dead', m, l)
  BY DEF Part, PartAt, DeadOf, DeadAt, OfMan, LevelOf
<1>3. DeadOf(m) = Part(dead' \cup {n}, m) /\ DeadAt(m, l) = PartAt(dead' \cup {n}, m, l)
  BY <1>1 DEF Part, PartAt, DeadOf, DeadAt
<1>4. /\ Cardinality(DeadOf(m)) = Cardinality(DeadOf(m)') + (IF m = ManOf[n] THEN 1 ELSE 0)
      /\ Cardinality(DeadAt(m, l))
           = Cardinality(DeadAt(m, l)') + (IF m = ManOf[n] /\ l = LevelOf(n) THEN 1 ELSE 0)
  <2>1. /\ Cardinality(Part(dead' \cup {n}, m))
             = Cardinality(Part(dead', m)) + (IF m = ManOf[n] THEN 1 ELSE 0)
        /\ Cardinality(PartAt(dead' \cup {n}, m, l))
             = Cardinality(PartAt(dead', m, l))
                 + (IF m = ManOf[n] /\ l = LevelOf(n) THEN 1 ELSE 0)
    BY <1>1, OneMoreDead
  <2> QED BY <1>2, <1>3, <2>1
<1>5. Cardinality(DeadOf(m)') \in Nat /\ Cardinality(DeadAt(m, l)') \in Nat
  BY DeadFinite
<1> QED BY <1>4, <1>5 DEF More, MoreAt

\* Nothing of a manager dies or is revived, and its counters stay.
LEMMA NoneDies ==
    ASSUME TypeOK, NEW m \in Man, dead' \cap OfMan(m) = dead \cap OfMan(m),
           \A a \in dead \cap OfMan(m) : node'[a] = node[a],
           deadcnt'[m] = deadcnt[m], \A l \in Level : tdead'[m][l] = tdead[m][l]
    PROVE  Follows(m)
<1>1. DeadOf(m)' = DeadOf(m) /\ \A l : DeadAt(m, l)' = DeadAt(m, l)
  BY DEF DeadOf, DeadAt, OfMan, LevelOf
<1>2. \A l : More(m) = 0 /\ MoreAt(m, l) = 0
  BY <1>1, DeadFinite DEF More, MoreAt
<1>3. deadcnt[m] \in Int /\ \A l \in Level : tdead[m][l] \in Int
  BY DEF TypeOK
<1> QED BY <1>2, <1>3 DEF Follows

\* cdd_rec_deref finds a reference to drop on everything on its stack (kernel.c:441).
LEMMA RecDerefFinds ==
    ASSUME IInv, NEW n \in Node, RecDerefStep(n)
    PROVE  ref[n] # 0 /\ error' = "ok" /\ node' = node
<1>1. TypeOK /\ pend[n] > 0 /\ error = "ok"
  BY DEF IInv, RecDerefStep
<1>2. ref[n] # 0
  <2>1. CASE n = Term
    BY <1>1, <2>1, NodeTableAssumption DEF TypeOK
  <2>2. CASE n \in Addr
    <3>1. Owed(n) > 0
      BY <1>1, OwedParts
    <3>2. ref[n] > 0 /\ ref[n] \in 0..MAXREF
      BY <1>1, <2>2, <3>1, OwnedInTable DEF TypeOK
    <3> QED BY <3>2
  <2> QED BY <2>1, <2>2 DEF Node
<1> QED BY <1>1, <1>2 DEF RecDerefStep

\* An iteration of cdd_rec_deref counts the node that dies (kernel.c:450-452).
LEMMA RecDerefFollows ==
    ASSUME IInv, NEW n \in Node, RecDerefStep(n), NEW m \in Man
    PROVE  Follows(m)
<1>1. TypeOK /\ pend[n] > 0
  BY DEF IInv, RecDerefStep
<1>2. ref[n] # 0
  BY RecDerefFinds
<1>3. node' = node
  BY RecDerefFinds
<1>4. CASE ~Dies(n)
  BY <1>1, <1>2, <1>3, <1>4, NoneDies DEF RecDerefStep
<1>5. CASE Dies(n)
  <2>1. n \in Addr /\ n \in Table /\ n \notin dead
    <3>1. ref[n] = 1 /\ n # Term /\ n \in Addr
      BY <1>1, <1>5, NodeTableAssumption DEF Dies, TypeOK, Node
    <3>2. n \in Table /\ todo[n] = 0
      BY <1>1, <3>1 DEF IInv, NoDangling, OneLoop
    <3> QED BY <3>1, <3>2 DEF IInv, DeadZero
  <2>2. /\ deadcnt' = [deadcnt EXCEPT ![ManOf[n]] = deadcnt[ManOf[n]] + 1]
        /\ tdead' = [tdead EXCEPT ![ManOf[n]][LevelOf(n)] = tdead[ManOf[n]][LevelOf(n)] + 1]
        /\ dead' = dead \cup {n}
    BY <1>2, <1>5 DEF RecDerefStep
  <2>3. \A l : /\ More(m) = (IF m = ManOf[n] THEN 1 ELSE 0)
               /\ MoreAt(m, l) = (IF m = ManOf[n] /\ l = LevelOf(n) THEN 1 ELSE 0)
    BY <1>1, <1>3, <2>1, <2>2, OneDies
  <2>4. /\ deadcnt \in [Man -> Int] /\ tdead \in [Man -> [Level -> Int]]
        /\ ManOf[n] \in Man /\ LevelOf(n) \in Level
    BY <1>1, <2>1, InTable DEF TypeOK
  <2>5. deadcnt'[m] = deadcnt[m] + More(m)
    BY <2>2, <2>3, <2>4
  <2>6. ASSUME NEW l \in Level PROVE tdead'[m][l] = tdead[m][l] + MoreAt(m, l)
    BY <2>2, <2>3, <2>4
  <2> QED BY <2>5, <2>6 DEF Follows
<1> QED BY <1>4, <1>5

\* An iteration of cdd_reclaim discounts the dead node it revives (kernel.c:479-481).
LEMMA ReclaimFollows ==
    ASSUME TypeOK, NEW n \in dead, ReclaimStep(n), NEW m \in Man
    PROVE  Follows(m)
<1>1. n \in Table
  BY DEF TypeOK
<1>2. /\ deadcnt' = [deadcnt EXCEPT ![ManOf[n]] = deadcnt[ManOf[n]] - 1]
      /\ tdead' = [tdead EXCEPT ![ManOf[n]][LevelOf(n)] = tdead[ManOf[n]][LevelOf(n)] - 1]
      /\ dead' = dead \ {n} /\ node' = node
  BY DEF ReclaimStep
<1>3. /\ deadcnt \in [Man -> Int] /\ tdead \in [Man -> [Level -> Int]]
      /\ ManOf[n] \in Man /\ LevelOf(n) \in Level
  BY <1>1, InTable DEF TypeOK
<1>4. \A l : /\ More(m) = (IF m = ManOf[n] THEN -1 ELSE 0)
             /\ MoreAt(m, l) = (IF m = ManOf[n] /\ l = LevelOf(n) THEN -1 ELSE 0)
  BY <1>1, <1>2, OneRevives
<1>5. deadcnt'[m] = deadcnt[m] + More(m)
  BY <1>2, <1>3, <1>4
<1>6. ASSUME NEW l \in Level PROVE tdead'[m][l] = tdead[m][l] + MoreAt(m, l)
  BY <1>2, <1>3, <1>4
<1> QED BY <1>5, <1>6 DEF Follows

\* A node that cdd_reclaim revives although it is not dead is missed from then on.
LEMMA DriftGrows ==
    ASSUME TypeOK, NEW n \in Table, NEW m \in Man, DriftOf(m),
           DeadOf(m)' = DeadOf(m), \A l \in Level : DeadAt(m, l)' = DeadAt(m, l),
           m = ManOf[n], deadcnt'[m] = deadcnt[m] - 1,
           \A l \in Level : tdead'[m][l] = tdead[m][l] - (IF l = LevelOf(n) THEN 1 ELSE 0)
    PROVE  DriftOf(m)'
<1> DEFINE k == LevelOf(n)
           d(l) == Cardinality(DeadAt(m, l)) - tdead[m][l]
           e(l) == Cardinality(DeadAt(m, l)') - tdead'[m][l]
           x == <<k, d(k) + 1>>
<1>1. k \in Level
  BY InTable
<1>2. ASSUME NEW l \in Level
      PROVE  /\ d(l) \in Nat /\ e(l) = d(l) + (IF l = k THEN 1 ELSE 0)
             /\ tdead'[m][l] <= Cardinality(DeadAt(m, l)')
  <2>1. Cardinality(DeadAt(m, l)) \in Nat /\ tdead[m][l] \in Int
        /\ tdead[m][l] <= Cardinality(DeadAt(m, l))
    BY DeadFinite DEF TypeOK, DriftOf
  <2>2. /\ Cardinality(DeadAt(m, l)') = Cardinality(DeadAt(m, l))
        /\ tdead'[m][l] = tdead[m][l] - (IF l = k THEN 1 ELSE 0)
    OBVIOUS
  <2> QED BY <2>1, <2>2
<1>3. \A y : y \in Missing(m) <=> \E l \in Level : \E i \in 1..d(l) : y = <<l, i>>
  BY MissingIs
<1>4. \A y : y \in Missing(m)' <=> \E l \in Level : \E i \in 1..e(l) : y = <<l, i>>
  <2>1. Missing(m)' = UNION {{l} \X (1..e(l)) : l \in Level}
    BY DEF Missing
  <2> HIDE DEF e
  <2> QED BY <2>1
<1> HIDE DEF d, e, k
<1>5. x \notin Missing(m)
  BY <1>1, <1>2, <1>3
<1>6. Missing(m)' = Missing(m) \cup {x}
  <2>1. ASSUME NEW y \in Missing(m)' PROVE y \in Missing(m) \cup {x}
    <3>1. PICK l \in Level : \E i \in 1..e(l) : y = <<l, i>>
      BY <1>4, <2>1
    <3>2. PICK i \in 1..e(l) : y = <<l, i>>
      BY <3>1
    <3>3. i \in 1..d(l) \/ (l = k /\ i = d(k) + 1)
      BY <1>2
    <3> QED BY <1>3, <3>2, <3>3
  <2>2. ASSUME NEW y \in Missing(m) PROVE y \in Missing(m)'
    <3>1. PICK l \in Level : \E i \in 1..d(l) : y = <<l, i>>
      BY <1>3, <2>2
    <3>2. PICK i \in 1..d(l) : y = <<l, i>>
      BY <3>1
    <3>3. i \in 1..e(l)
      BY <1>2
    <3> QED BY <1>4, <3>2, <3>3
  <2>3. x \in Missing(m)'
    <3>1. d(k) + 1 \in 1..e(k)
      BY <1>1, <1>2
    <3> QED BY <1>1, <1>4, <3>1
  <2> QED BY <2>1, <2>2, <2>3
<1>7. IsFiniteSet(Missing(m)) /\ Cardinality(Missing(m)) \in Nat
  BY FS_CardinalityType DEF DriftOf
<1>8. IsFiniteSet(Missing(m)') /\ Cardinality(Missing(m)') = Cardinality(Missing(m)) + 1
  BY <1>5, <1>6, <1>7, FS_AddElement
<1>9. deadcnt'[m] + Cardinality(Missing(m)') = Cardinality(DeadOf(m)')
  <2>1. deadcnt[m] \in Int /\ deadcnt[m] + Cardinality(Missing(m)) = Cardinality(DeadOf(m))
    BY DEF TypeOK, DriftOf
  <2> QED BY <1>7, <1>8, <2>1
<1> QED BY <1>2, <1>8, <1>9 DEF DriftOf

\* A manager that has been swept counts no dead node: it misses those that are left,
\* the unreferenced nodes of subtables that reported none.
LEMMA DriftSwept ==
    ASSUME TypeOK', NEW m \in Man, deadcnt'[m] = 0, \A l \in Level : tdead'[m][l] = 0
    PROVE  DriftOf(m)'
<1> DEFINE D == DeadOf(m)'
           lev == [a \in D |-> LevelOf(a)']
           On(l) == {a \in D : lev[a] = l}
<1>1. IsFiniteSet(D) /\ Cardinality(D) \in Nat
  BY DeadFinite
<1>2. lev \in [D -> Level]
  <2>1. \A a \in D : node'[a] \in Content(ManOf[a]) /\ ManOf[a] \in Man
    BY NodeTableAssumption DEF TypeOK, DeadOf, OfMan
  <2> HIDE DEF D
  <2>2. ASSUME NEW a \in D PROVE node'[a].level \in Level
    <3>1. node'[a] \in Content(ManOf[a]) /\ ManOf[a] \in Man
      BY <2>1
    <3> QED BY <3>1, NodeTableAssumption DEF Content
  <2> QED BY <2>2 DEF LevelOf
<1>3. IsFiniteSet(Ranks(D, lev)) /\ Cardinality(Ranks(D, lev)) = Cardinality(D)
  BY <1>1, <1>2, RanksCount
<1>4. \A l \in Level : On(l) = DeadAt(m, l)'
  BY DEF DeadAt
<1>5. \A l \in Level : /\ Cardinality(DeadAt(m, l)') \in Nat
                       /\ Cardinality(DeadAt(m, l)') - tdead'[m][l] = Cardinality(DeadAt(m, l)')
  BY DeadFinite
<1>6. Missing(m)' = Ranks(D, lev)
  <2>1. Missing(m)' = UNION {{l} \X (1..(Cardinality(DeadAt(m, l)') - tdead'[m][l])) : l \in Level}
    BY DEF Missing
  <2>2. Ranks(D, lev) = UNION {{l} \X (1..Cardinality(DeadAt(m, l)')) : l \in Level}
    <3>1. Ranks(D, lev) = UNION {{l} \X (1..Cardinality(On(l))) : l \in Level}
      BY DEF Ranks
    <3> HIDE DEF On, lev, D
    <3> QED BY <1>4, <3>1
  <2> QED BY <1>5, <2>1, <2>2
<1> QED BY <1>1, <1>3, <1>5, <1>6 DEF DriftOf

-----------------------------------------------------------------------------
(* No error is ever reported.                                              *)

\* The collector leaves no manager with a counter that promises too much.
LEMMA SweepDrift ==
    ASSUME TypeOK, TypeOK', Drift, NEW ms, Sweep(ms)
    PROVE  Drift'
<1> SUFFICES ASSUME NEW m \in Man PROVE DriftOf(m)'
  BY DEF Drift
<1>1. CASE m \in ms
  BY <1>1, DriftSwept DEF Sweep
<1>2. CASE m \notin ms
  <2>1. /\ dead' \cap OfMan(m) = dead \cap OfMan(m)
        /\ \A a \in dead \cap OfMan(m) : node'[a] = node[a]
    <3>1. \A a \in OfMan(m) : a \in Addr /\ a \notin Garbage(ms)
      BY <1>2 DEF Garbage, OfMan
    <3> QED BY <3>1 DEF Sweep
  <2>2. deadcnt'[m] = deadcnt[m] /\ \A l \in Level : tdead'[m][l] = tdead[m][l]
    BY <1>2 DEF Sweep
  <2>3. Follows(m)
    BY <2>1, <2>2, NoneDies
  <2> QED BY <2>3, DriftFollows DEF Drift
<1> QED BY <1>1, <1>2

\* A step that leaves the dead nodes and their counters alone.
LEMMA SameDrift ==
    ASSUME TypeOK, TypeOK', Drift, UNCHANGED <<deadcnt, tdead, dead>>,
           \A a \in dead : node'[a] = node[a]
    PROVE  Drift'
<1> SUFFICES ASSUME NEW m \in Man PROVE DriftOf(m)'
  BY DEF Drift
<1>1. Follows(m)
  BY NoneDies
<1> QED BY <1>1, DriftFollows DEF Drift

\* cdd_reclaim need not find a dead node on its stack.
LEMMA ReclaimDrift ==
    ASSUME IInv, TypeOK', Drift, NEW n \in Addr, ReclaimStep(n)
    PROVE  Drift'
<1>1. TypeOK /\ n \in Table
  BY DEF IInv, ReclaimStep, NoDangling
<1> SUFFICES ASSUME NEW m \in Man PROVE DriftOf(m)'
  BY DEF Drift
<1>2. CASE n \in dead
  BY <1>1, <1>2, ReclaimFollows, DriftFollows DEF Drift
<1>3. CASE n \notin dead
  <2>1. /\ deadcnt' = [deadcnt EXCEPT ![ManOf[n]] = deadcnt[ManOf[n]] - 1]
        /\ tdead' = [tdead EXCEPT ![ManOf[n]][LevelOf(n)] = tdead[ManOf[n]][LevelOf(n)] - 1]
        /\ dead' = dead /\ node' = node
    BY <1>3 DEF ReclaimStep
  <2>2. /\ deadcnt \in [Man -> Int] /\ tdead \in [Man -> [Level -> Int]]
        /\ ManOf[n] \in Man /\ LevelOf(n) \in Level
    BY <1>1, InTable DEF TypeOK
  <2>3. CASE m = ManOf[n]
    <3>1. DeadOf(m)' = DeadOf(m) /\ \A l \in Level : DeadAt(m, l)' = DeadAt(m, l)
      BY <2>1 DEF DeadOf, DeadAt, OfMan, LevelOf
    <3>2. deadcnt'[m] = deadcnt[m] - 1
      BY <2>1, <2>2, <2>3
    <3>3. ASSUME NEW l \in Level
          PROVE  tdead'[m][l] = tdead[m][l] - (IF l = LevelOf(n) THEN 1 ELSE 0)
      BY <2>1, <2>2, <2>3
    <3> QED BY <1>1, <2>3, <3>1, <3>2, <3>3, DriftGrows DEF Drift
  <2>4. CASE m # ManOf[n]
    <3>1. deadcnt'[m] = deadcnt[m] /\ \A l \in Level : tdead'[m][l] = tdead[m][l]
      BY <2>1, <2>2, <2>4
    <3>2. Follows(m)
      BY <1>1, <2>1, <3>1, NoneDies
    <3> QED BY <1>1, <3>2, DriftFollows DEF Drift
  <2> QED BY <2>3, <2>4
<1> QED BY <1>2, <1>3

\* The counters never promise a dead node that is not there, and no error is reported:
\* one step of each action.
LEMMA DriftInductive == IInv /\ Drift /\ NoError /\ [Next]_vars => Drift' /\ NoError'
<1> SUFFICES ASSUME IInv, Drift, NoError, [Next]_vars PROVE Drift' /\ NoError'
  OBVIOUS
<1>1. IInv' /\ TypeOK /\ TypeOK'
  BY Inductive DEF IInv
<1>2. CASE UNCHANGED <<deadcnt, tdead, dead, node, error>>
  BY <1>1, <1>2, SameDrift DEF NoError
<1>3. CASE AllocTake
  <2>1. PICK a \in FreeList(req.man) : node' = [node EXCEPT ![a] = req.key]
    BY <1>3 DEF AllocTake
  <2>2. a \notin dead
    BY <1>1 DEF TypeOK, FreeList, OfMan, Table
  <2>3. \A k \in dead : node'[k] = node[k]
    BY <1>1, <2>1, <2>2 DEF TypeOK, Table
  <2> QED BY <1>1, <1>3, <2>3, SameDrift DEF AllocTake, NoError
<1>4. CASE Gbc
  <2>1. \E ms : Sweep(ms)
    BY <1>4 DEF Gbc
  <2> QED BY <1>1, <1>4, <2>1, SweepDrift DEF Gbc, NoError
<1>5. CASE AllocGbc
  <2>1. /\ req # NoReq /\ Due(req.man) /\ Sweep({req.man}) /\ \A k \in Node : todo[k] = 0
    BY <1>5 DEF AllocGbc, IInv, OneLoop
  <2>2. req.man \in Man
    BY <1>1, <2>1, ReqCount
  <2>3. Garbage({req.man}) # {}
    BY <2>1, <2>2, DueFindsGarbage
  <2>4. error' = error
    BY <1>5, <2>3 DEF AllocGbc
  <2> QED BY <1>1, <2>1, <2>4, SweepDrift DEF NoError
<1>6. ASSUME NEW n \in Node, RecDerefStep(n) PROVE Drift' /\ NoError'
  <2>1. error' = "ok"
    BY <1>6, RecDerefFinds
  <2> QED BY <1>1, <1>6, <2>1, RecDerefFollows, DriftFollows DEF Drift, NoError
<1>7. ASSUME NEW n \in Addr, ReclaimStep(n) PROVE Drift' /\ NoError'
  BY <1>1, <1>7, ReclaimDrift DEF ReclaimStep, NoError
<1>8. \/ UNCHANGED <<deadcnt, tdead, dead, node, error>> \/ AllocTake \/ Gbc \/ AllocGbc
      \/ \E n \in Node : RecDerefStep(n)
      \/ \E n \in Addr : ReclaimStep(n)
  <2>1. CASE MakeHeld \/ MakeFloating
    BY <2>1 DEF MakeHeld, MakeFloating, MakeHit, MakeMiss, counters
  <2>2. CASE Discard \/ AllocChunk \/ UNCHANGED vars
    BY <2>2 DEF Discard, AllocChunk, vars, counters
  <2>3. CASE \E n \in Addr : Ref(n) \/ DropFrame(n) \/ Return(n) \/ Release(n)
    BY <2>3 DEF Ref, DropFrame, Return, PlainDeref, Release, counters
  <2>4. CASE \E s \in Slot : CachePut(s) \/ CacheHit(s)
    BY <2>4 DEF CachePut, CacheHit, counters
  <2> QED BY <2>1, <2>2, <2>3, <2>4 DEF Next, NextHeld, Loop, Node
<1> QED BY <1>2, <1>3, <1>4, <1>5, <1>6, <1>7, <1>8

\* cdd_init leaves no dead node and counts none.
LEMMA InitDrift == Init => Drift /\ NoError
<1> SUFFICES ASSUME Init, NEW m \in Man PROVE DriftOf(m) /\ NoError
  BY DEF Drift, Init, NoError
<1>1. DeadOf(m) = {} /\ \A l \in Level : DeadAt(m, l) = {}
  BY DEF Init, DeadOf, DeadAt
<1>2. Cardinality(DeadOf(m)) = 0 /\ \A l \in Level : Cardinality(DeadAt(m, l)) = 0
  BY <1>1, FS_EmptySet
<1>3. deadcnt[m] = 0 /\ \A l \in Level : tdead[m][l] = 0
  BY DEF Init
<1>4. Missing(m) = {}
  BY <1>2, <1>3, MissingIs
<1>5. IsFiniteSet(Missing(m)) /\ Cardinality(Missing(m)) = 0
  BY <1>4, FS_EmptySet
<1> QED BY <1>2, <1>3, <1>5 DEF DriftOf, Init, NoError

\* cdd_rec_deref never meets a zero counter, and cdd_alloc_node never comes back from a
\* collection to an empty free list (kernel.c:441, kernel.c:556-566): a manager is
\* collected only when its counter shows dead nodes, and then a subtable that the sweep
\* visits holds one, although cdd_reclaim may discount nodes that were never counted.
THEOREM NeverFails == Spec => []NoError
<1>1. IInv /\ Drift /\ NoError /\ [Next]_vars => Drift' /\ NoError'
  BY DriftInductive
<1> QED BY <1>1, InitDrift, Invariance, PTL DEF Spec

-----------------------------------------------------------------------------
(* The counters are exact as long as cdd_reclaim revives each node once.   *)

\* Reference counts that follow their owners stay exact.
LEMMA ExactFollows ==
    ASSUME TypeOK, TypeOK', RefExact,
           \A n \in Addr : \/ ref'[n] = MAXREF
                           \/ ref[n] # MAXREF /\ ref'[n] - ref[n] = Owed(n)' - Owed(n)
    PROVE  RefExact'
<1> SUFFICES ASSUME NEW n \in Addr, ref'[n] # MAXREF PROVE ref'[n] = Owed(n)'
  BY DEF RefExact
<1>1. n \in Node
  BY DEF Node
<1>2. ref[n] = Owed(n) /\ ref'[n] - ref[n] = Owed(n)' - Owed(n)
  BY DEF RefExact
<1>3. ref[n] \in Nat /\ ref'[n] \in Nat
  BY <1>1, NodeTableAssumption DEF TypeOK
<1>4. Owed(n)' \in Nat
  <2>1. hold'[n] \in Nat /\ pend'[n] \in Nat
    BY <1>1 DEF TypeOK
  <2>2. Cardinality(EdgesInto(n)') \in Nat
    <3>1. Live' \in SUBSET Addr
      BY DEF Live, Table
    <3> QED BY <3>1, EdgesFinite DEF EdgesInto
  <2>3. Requested(n)' \in Nat
    <3>1. CASE req' = NoReq
      BY <3>1 DEF Requested
    <3>2. CASE req' # NoReq
      <4>1. PICK m \in Man : \E key \in Content(m) : req' = [man |-> m, key |-> key]
        BY <3>2 DEF TypeOK
      <4>2. PICK key \in Content(m) : req' = [man |-> m, key |-> key]
        BY <4>1
      <4>3. Cardinality(At(key.kid, n)) \in Nat
        BY AtCount
      <4> QED BY <3>2, <4>2, <4>3 DEF Requested
    <3> QED BY <3>1, <3>2
  <2> QED BY <2>1, <2>2, <2>3 DEF Owed
<1> QED BY <1>2, <1>3, <1>4

\* A step that moves references between the client's handles, the stack of
\* cdd_rec_deref and the result.
LEMMA HandlesExact ==
    ASSUME TypeOK, TypeOK', RefExact, UNCHANGED <<dead, req>>, Table' = Table,
           \A a \in Live : node'[a] = node[a],
           \A n \in Addr : \/ ref'[n] = MAXREF
                           \/ ref[n] # MAXREF /\ ref'[n] - ref[n] = (hold'[n] + pend'[n]) - (hold[n] + pend[n])
    PROVE  RefExact'
<1>1. Live' = Live /\ Live \in SUBSET Addr
  BY DEF Live, Table
<1>2. ASSUME NEW n \in Addr
      PROVE  \/ ref'[n] = MAXREF
             \/ ref[n] # MAXREF /\ ref'[n] - ref[n] = Owed(n)' - Owed(n)
  <2>1. n \in Node
    BY DEF Node
  <2>2. EdgesInto(n)' = EdgesInto(n) /\ Requested(n)' = Requested(n)
    BY <1>1 DEF EdgesInto, EdgesOf, Requested
  <2>3. Owed(n)' = hold'[n] + pend'[n] + Cardinality(EdgesInto(n)) + Requested(n)
    BY <2>2 DEF Owed
  <2>4. hold'[n] \in Nat /\ pend'[n] \in Nat
    BY <2>1 DEF TypeOK
  <2> QED BY <2>1, <2>3, <2>4, OwedParts
<1> QED BY <1>2, ExactFollows

\* The lookup fails: the new references are owed to the request.
LEMMA MissExact ==
    ASSUME IInv, TypeOK', RefExact, Idle, NEW m \in Man, NEW key \in Content(m), MakeMiss(m, key)
    PROVE  RefExact'
<1>1. TypeOK /\ req = NoReq
  BY DEF IInv, Idle
<1>2. /\ ref' = RefKids(key.kid) /\ req' = [man |-> m, key |-> key]
      /\ UNCHANGED <<place, node, hold, pend, dead>>
  BY DEF MakeMiss
<1>3. req' # NoReq /\ req'.key = key /\ Live' = Live
  BY <1>2, NodeTableAssumption DEF NoReq, Live, Table
<1>4. ASSUME NEW n \in Addr
      PROVE  \/ ref'[n] = MAXREF
             \/ ref[n] # MAXREF /\ ref'[n] - ref[n] = Owed(n)' - Owed(n)
  <2>1. /\ n \in Node /\ ref[n] \in 0..MAXREF /\ Cardinality(At(key.kid, n)) \in Nat
        /\ ref'[n] = SatAdd(ref[n], Cardinality(At(key.kid, n)))
    BY <1>1, <1>2, AtCount DEF TypeOK, Node, RefKids
  <2>2. /\ ref'[n] = MAXREF \/ ref'[n] = ref[n] + Cardinality(At(key.kid, n))
        /\ ref[n] = MAXREF => ref'[n] = MAXREF
    BY <2>1, Sat
  <2>3. Requested(n) = 0 /\ Requested(n)' = Cardinality(At(key.kid, n)) /\ EdgesInto(n)' = EdgesInto(n)
    BY <1>1, <1>2, <1>3 DEF Requested, EdgesInto
  <2>4. Owed(n)' = hold[n] + pend[n] + Cardinality(EdgesInto(n)) + Cardinality(At(key.kid, n))
    BY <1>2, <2>3 DEF Owed
  <2> QED BY <1>1, <2>1, <2>2, <2>3, <2>4, OwedParts
<1> QED BY <1>1, <1>4, ExactFollows

\* The node is allocated: what was owed to the request is owed to its edges.
LEMMA TakeExact ==
    ASSUME IInv, TypeOK', RefExact, AllocTake
    PROVE  RefExact'
<1>1. TypeOK /\ req # NoReq /\ req' = NoReq /\ UNCHANGED <<ref, hold, pend, dead>>
  BY DEF IInv, AllocTake
<1>2. PICK a \in FreeList(req.man) :
          place' = [place EXCEPT ![a] = "table"] /\ node' = [node EXCEPT ![a] = req.key]
  BY DEF AllocTake
<1>3. a \in Addr /\ a \notin Table /\ a \notin Live /\ a \notin dead
  BY <1>1 DEF FreeList, OfMan, Table, Live, TypeOK
<1>4. Live' = Live \cup {a} /\ node'[a] = req.key /\ \A k \in Live : node'[k] = node[k]
  BY <1>1, <1>2, <1>3 DEF Live, Table, TypeOK
<1>5. ASSUME NEW n \in Addr PROVE Owed(n)' = Owed(n) /\ Owed(n) \in Nat
  <2>1. n \in Node /\ Live \in SUBSET Addr
    BY DEF Node, Live, Table
  <2>2. At(req.key.kid, n) \subseteq 1..MaxSize /\ Cardinality(At(req.key.kid, n)) \in Nat
    BY <1>1, ReqCount
  <2>3. Cardinality(EdgesOf(Live \cup {a}, node', n))
          = Cardinality(EdgesOf(Live, node', n)) + Cardinality(At(req.key.kid, n))
    BY <1>3, <1>4, <2>1, <2>2, EdgesAdd
  <2>4. EdgesOf(Live, node', n) = EdgesInto(n) /\ EdgesInto(n)' = EdgesOf(Live \cup {a}, node', n)
    BY <1>4 DEF EdgesInto, EdgesOf
  <2>5. Requested(n)' = 0 /\ Requested(n) = Cardinality(At(req.key.kid, n))
    BY <1>1 DEF Requested
  <2>6. Owed(n)' = hold[n] + pend[n] + Cardinality(EdgesInto(n)') + 0
    BY <1>1, <2>5 DEF Owed
  <2> QED BY <1>1, <2>1, <2>2, <2>3, <2>4, <2>5, <2>6, OwedParts
<1>6. \A n \in Addr : ref'[n] \in Int /\ ref[n] \in Int
  BY <1>1, NodeTableAssumption DEF TypeOK, Node
<1> QED BY <1>1, <1>5, <1>6, ExactFollows

\* A dying node hands the references it owned to the stack of cdd_rec_deref.
LEMMA RecDerefExact ==
    ASSUME IInv, TypeOK', RefExact, NEW n \in Node, RecDerefStep(n)
    PROVE  RefExact'
<1>1. TypeOK /\ pend[n] > 0 /\ pend[n] \in Nat /\ ref[n] \in 0..MAXREF /\ \A k \in Node : todo[k] = 0
  BY DEF IInv, RecDerefStep, TypeOK, OneLoop
<1>2. ref[n] # 0
  BY RecDerefFinds
<1>3. /\ ref' = [ref EXCEPT ![n] = SatDec(ref[n])]
      /\ UNCHANGED <<place, node, hold, req>>
  BY <1>2 DEF RecDerefStep, client
<1>4. SatDec(ref[n]) = MAXREF \/ (ref[n] # MAXREF /\ SatDec(ref[n]) = ref[n] - 1)
  BY <1>1, <1>2, Sat
<1>5. Table' = Table
  BY <1>3 DEF Table
<1>6. CASE ~Dies(n)
  <2>1. pend' = [pend EXCEPT ![n] = pend[n] - 1] /\ dead' = dead
    BY <1>2, <1>6 DEF RecDerefStep
  <2>2. ASSUME NEW k \in Addr
        PROVE  \/ ref'[k] = MAXREF
               \/ /\ ref[k] # MAXREF
                  /\ ref'[k] - ref[k] = (hold'[k] + pend'[k]) - (hold[k] + pend[k])
    <3>1. k \in Node /\ hold[k] \in Nat /\ pend[k] \in Nat /\ ref[k] \in Nat
      BY <1>1, NodeTableAssumption DEF TypeOK, Node
    <3>2. hold'[k] = hold[k] /\ pend'[k] = pend[k] - (IF k = n THEN 1 ELSE 0)
      BY <1>1, <1>3, <2>1, <3>1 DEF TypeOK
    <3>3. CASE k = n
      <4>1. ref'[k] = SatDec(ref[n])
        BY <1>1, <1>3, <3>1, <3>3 DEF TypeOK
      <4> QED BY <1>4, <3>1, <3>2, <3>3, <4>1
    <3>4. CASE k # n
      <4>1. ref'[k] = ref[k]
        BY <1>1, <1>3, <3>1, <3>4 DEF TypeOK
      <4> QED BY <3>1, <3>2, <3>4, <4>1
    <3> QED BY <3>3, <3>4
  <2> QED BY <1>1, <1>3, <1>5, <2>1, <2>2, HandlesExact
<1>7. CASE Dies(n)
  <2>1. /\ pend' = [c \in Node |-> pend[c] - (IF c = n THEN 1 ELSE 0)
                                           + Cardinality(At(node[n].kid, c))]
        /\ dead' = dead \cup {n}
    BY <1>2, <1>7 DEF RecDerefStep
  <2>2. n \in Addr /\ n \in Table /\ n \in Live /\ ref[n] = 1 /\ MAXREF # 1
    <3>1. ref[n] = 1 /\ n # Term /\ n \in Addr /\ MAXREF # 1
      BY <1>1, <1>7, NodeTableAssumption DEF Dies, TypeOK, Node
    <3>2. n \in Table
      BY <1>1, <3>1 DEF IInv, NoDangling
    <3>3. n \notin dead
      BY <1>1, <3>1 DEF IInv, DeadZero
    <3> QED BY <3>1, <3>2, <3>3 DEF Live
  <2>3. Live' \in SUBSET Addr /\ n \notin Live' /\ Live = Live' \cup {n}
    BY <1>5, <2>1, <2>2 DEF Live, Table
  <2>4. ASSUME NEW k \in Addr
        PROVE  \/ ref'[k] = MAXREF
               \/ ref[k] # MAXREF /\ ref'[k] - ref[k] = Owed(k)' - Owed(k)
    <3>1. k \in Node /\ ref[k] \in Nat
      BY <1>1, NodeTableAssumption DEF TypeOK, Node
    <3>2. /\ At(node[n].kid, k) \subseteq 1..MaxSize
          /\ Cardinality(At(node[n].kid, k)) \in Nat
      BY <1>1, <2>2, KidCount
    <3>3. Cardinality(EdgesOf(Live' \cup {n}, node, k))
             = Cardinality(EdgesOf(Live', node, k)) + Cardinality(At(node[n].kid, k))
      BY <2>2, <2>3, <3>2, EdgesAdd
    <3>4. EdgesInto(k) = EdgesOf(Live' \cup {n}, node, k) /\ EdgesInto(k)' = EdgesOf(Live', node, k)
      BY <1>3, <2>3 DEF EdgesInto
    <3>5. Cardinality(EdgesOf(Live', node, k)) \in Nat
      BY <2>3, EdgesFinite
    <3>6. pend'[k] = pend[k] - (IF k = n THEN 1 ELSE 0) + Cardinality(At(node[n].kid, k))
      BY <2>1, <3>1
    <3>7. ref'[k] = ref[k] - (IF k = n THEN 1 ELSE 0)
      <4>1. CASE k = n
        <5>1. ref'[k] = SatDec(ref[n])
          BY <1>1, <1>3, <3>1, <4>1 DEF TypeOK
        <5> QED BY <2>2, <4>1, <5>1 DEF SatDec
      <4>2. CASE k # n
        BY <1>1, <1>3, <3>1, <4>2 DEF TypeOK
      <4> QED BY <4>1, <4>2
    <3>8. Owed(k)' = hold[k] + pend'[k] + Cardinality(EdgesOf(Live', node, k)) + Requested(k)
      BY <1>3, <3>4 DEF Owed, Requested
    <3>9. Owed(k)' - Owed(k) = 0 - (IF k = n THEN 1 ELSE 0)
      BY <1>1, <3>1, <3>2, <3>3, <3>4, <3>5, <3>6, <3>8, OwedParts
    <3> QED BY <2>2, <3>1, <3>7, <3>9
  <2> QED BY <1>1, <2>4, ExactFollows
<1> QED BY <1>6, <1>7

\* A dead node that cdd_reclaim revives becomes an owner of its children.
LEMMA ReclaimExact ==
    ASSUME IInv, TypeOK', RefExact, NEW a \in dead, ReclaimStep(a)
    PROVE  RefExact'
<1>1. TypeOK /\ a \in Table /\ a \in Addr /\ a \notin Live
  BY DEF IInv, TypeOK, Table, Live
<1>2. /\ ref' = RefKids(node[a].kid) /\ dead' = dead \ {a}
      /\ UNCHANGED <<place, node, hold, pend, req>>
  BY DEF ReclaimStep, client
<1>3. Live' = Live \cup {a} /\ Live \in SUBSET Addr
  BY <1>1, <1>2 DEF Live, Table
<1>4. ASSUME NEW n \in Addr
      PROVE  \/ ref'[n] = MAXREF
             \/ ref[n] # MAXREF /\ ref'[n] - ref[n] = Owed(n)' - Owed(n)
  <2>1. /\ Cardinality(At(node[a].kid, n)) \in Nat
        /\ At(node[a].kid, n) \subseteq 1..MaxSize
    BY <1>1, KidCount
  <2>2. /\ n \in Node /\ ref[n] \in 0..MAXREF
        /\ ref'[n] = SatAdd(ref[n], Cardinality(At(node[a].kid, n)))
    BY <1>1, <1>2 DEF TypeOK, Node, RefKids
  <2>3. /\ ref'[n] = MAXREF \/ ref'[n] = ref[n] + Cardinality(At(node[a].kid, n))
        /\ ref[n] = MAXREF => ref'[n] = MAXREF
    BY <2>1, <2>2, Sat
  <2>4. Cardinality(EdgesOf(Live \cup {a}, node, n))
          = Cardinality(EdgesOf(Live, node, n)) + Cardinality(At(node[a].kid, n))
    BY <1>1, <1>3, <2>1, EdgesAdd
  <2>5. EdgesInto(n)' = EdgesOf(Live \cup {a}, node, n) /\ EdgesInto(n) = EdgesOf(Live, node, n)
    BY <1>2, <1>3 DEF EdgesInto
  <2>6. Owed(n)' = hold[n] + pend[n] + Cardinality(EdgesInto(n)') + Requested(n)
    BY <1>2 DEF Owed, Requested
  <2> QED BY <1>1, <2>1, <2>2, <2>3, <2>4, <2>5, <2>6, OwedParts
<1> QED BY <1>1, <1>4, ExactFollows

\* Between two iterations of the loops, what a collection frees is what is dead: nothing
\* live is unreferenced, and every subtable with a dead node reports one.
LEMMA SweepFreesDead ==
    ASSUME IInv, Covered, Counted, ret = None, \A k \in Node : todo[k] = 0, NEW ms \in SUBSET Man
    PROVE  Garbage(ms) = {a \in dead : ManOf[a] \in ms}
<1>1. TypeOK
  BY DEF IInv
<1>2. ASSUME NEW a \in Garbage(ms) PROVE a \in dead /\ ManOf[a] \in ms
  <2>1. a \in Table /\ ref[a] = 0 /\ ManOf[a] \in ms /\ a \in Addr
    BY <1>2 DEF Garbage, Table
  <2>2. a \notin Live
    BY <2>1, IdleCovered, NodeTableAssumption DEF Node
  <2> QED BY <2>1, <2>2 DEF Live
<1>3. ASSUME NEW a \in dead, ManOf[a] \in ms PROVE a \in Garbage(ms)
  <2>1. a \in Table /\ a \in Addr /\ ManOf[a] \in Man /\ LevelOf(a) \in Level
    BY <1>1, InTable DEF TypeOK
  <2>2. ref[a] = 0
    BY <2>1 DEF IInv, DeadZero, Node
  <2>3. a \in DeadAt(ManOf[a], LevelOf(a))
    BY <2>1 DEF DeadAt, DeadOf, OfMan
  <2>4. Cardinality(DeadAt(ManOf[a], LevelOf(a))) # 0
    BY <2>3, DeadFinite, FS_EmptySet
  <2>5. tdead[ManOf[a]][LevelOf(a)] # 0
    BY <2>1, <2>4 DEF Counted
  <2> QED BY <1>3, <2>1, <2>2, <2>5 DEF Garbage
<1> QED BY <1>2, <1>3

\* Free lists are finite.
LEMMA FreeFinite ==
    ASSUME NEW m
    PROVE  /\ IsFiniteSet(FreeList(m)) /\ Cardinality(FreeList(m)) \in Nat
           /\ IsFiniteSet(FreeList(m)') /\ Cardinality(FreeList(m)') \in Nat
<1>1. FreeList(m) \in SUBSET Addr /\ FreeList(m)' \in SUBSET Addr
  BY DEF FreeList, OfMan
<1> QED BY <1>1, AddrFinite

\* Two sets of addresses without a common member.
LEMMA DisjointCount ==
    ASSUME NEW A \in SUBSET Addr, NEW B \in SUBSET Addr, A \cap B = {}
    PROVE  Cardinality(A \cup B) = Cardinality(A) + Cardinality(B)
<1>1. IsFiniteSet(A) /\ IsFiniteSet(B) /\ Cardinality(A) \in Nat /\ Cardinality(B) \in Nat
  BY AddrFinite
<1>2. Cardinality(A \cup B) = Cardinality(A) + Cardinality(B) - Cardinality(A \cap B)
  BY <1>1, FS_Union
<1>3. Cardinality(A \cap B) = 0
  BY FS_EmptySet
<1> QED BY <1>1, <1>2, <1>3

\* Counters that follow the dead nodes and the free list stay exact.
LEMMA CountedFollows ==
    ASSUME TypeOK, Counted,
           \A m \in Man : Follows(m) /\ freecnt'[m] = Cardinality(FreeList(m)')
    PROVE  Counted'
<1> SUFFICES ASSUME NEW m \in Man
             PROVE  /\ deadcnt'[m] = Cardinality(DeadOf(m)')
                    /\ freecnt'[m] = Cardinality(FreeList(m)')
                    /\ \A l \in Level : tdead'[m][l] = Cardinality(DeadAt(m, l)')
  BY DEF Counted
<1>1. deadcnt'[m] = Cardinality(DeadOf(m)')
  <2>1. deadcnt[m] = Cardinality(DeadOf(m))
    BY DEF Counted
  <2>2. deadcnt'[m] = deadcnt[m] + (Cardinality(DeadOf(m)') - Cardinality(DeadOf(m)))
    BY DEF Follows, More
  <2>3. Cardinality(DeadOf(m)) \in Nat /\ Cardinality(DeadOf(m)') \in Nat
    BY DeadFinite
  <2> QED BY <2>1, <2>2, <2>3
<1>2. ASSUME NEW l \in Level PROVE tdead'[m][l] = Cardinality(DeadAt(m, l)')
  <2>1. tdead[m][l] = Cardinality(DeadAt(m, l))
    BY DEF Counted
  <2>2. tdead'[m][l] = tdead[m][l] + (Cardinality(DeadAt(m, l)') - Cardinality(DeadAt(m, l)))
    BY DEF Follows, MoreAt
  <2>3. Cardinality(DeadAt(m, l)) \in Nat /\ Cardinality(DeadAt(m, l)') \in Nat
    BY DeadFinite
  <2> QED BY <2>1, <2>2, <2>3
<1> QED BY <1>1, <1>2

\* A step that leaves memory alone keeps the free lists counted.
LEMMA SameFree ==
    ASSUME Counted, UNCHANGED <<place, freecnt>>, NEW m \in Man
    PROVE  freecnt'[m] = Cardinality(FreeList(m)')
<1>1. FreeList(m)' = FreeList(m)
  BY DEF FreeList, OfMan
<1> QED BY <1>1 DEF Counted

\* A collection (cdd_gbc_nodemanager) moves the dead nodes to the free list and their
\* number to freecnt.
LEMMA SweepCounted ==
    ASSUME IInv, Covered, Counted, ret = None, \A k \in Node : todo[k] = 0,
           NEW ms \in SUBSET Man, Sweep(ms)
    PROVE  Counted'
<1>1. TypeOK /\ Garbage(ms) = {a \in dead : ManOf[a] \in ms} /\ dead \subseteq Table
  BY SweepFreesDead DEF IInv, TypeOK
<1>2. /\ place' = [a \in Addr |-> IF a \in Garbage(ms) THEN "free" ELSE place[a]]
      /\ node' = [a \in Addr |-> IF a \in Garbage(ms) THEN Blank ELSE node[a]]
      /\ dead' = dead \ Garbage(ms)
  BY DEF Sweep
<1> SUFFICES ASSUME NEW m \in Man
             PROVE  /\ deadcnt'[m] = Cardinality(DeadOf(m)')
                    /\ freecnt'[m] = Cardinality(FreeList(m)')
                    /\ \A l \in Level : tdead'[m][l] = Cardinality(DeadAt(m, l)')
  BY DEF Counted
<1>3. CASE m \in ms
  <2>1. DeadOf(m)' = {} /\ \A l \in Level : DeadAt(m, l)' = {}
    BY <1>1, <1>2, <1>3 DEF DeadOf, DeadAt, OfMan
  <2>2. FreeList(m)' = FreeList(m) \cup DeadOf(m)
    BY <1>1, <1>2, <1>3 DEF FreeList, DeadOf, OfMan
  <2>3. /\ FreeList(m) \in SUBSET Addr /\ DeadOf(m) \in SUBSET Addr
        /\ FreeList(m) \cap DeadOf(m) = {}
    BY <1>1 DEF FreeList, DeadOf, OfMan, Table
  <2>4. Cardinality(FreeList(m)') = Cardinality(FreeList(m)) + Cardinality(DeadOf(m))
    BY <2>2, <2>3, DisjointCount
  <2>5. /\ deadcnt'[m] = 0 /\ freecnt'[m] = freecnt[m] + deadcnt[m]
        /\ \A l \in Level : tdead'[m][l] = 0
    BY <1>3 DEF Sweep
  <2> QED BY <2>1, <2>4, <2>5, FS_EmptySet DEF Counted
<1>4. CASE m \notin ms
  <2>1. /\ DeadOf(m)' = DeadOf(m) /\ FreeList(m)' = FreeList(m)
    BY <1>1, <1>2, <1>4 DEF DeadOf, FreeList, OfMan
  <2>2. \A l \in Level : DeadAt(m, l)' = DeadAt(m, l)
    <3>1. \A a \in DeadOf(m) : LevelOf(a)' = LevelOf(a)
      BY <1>1, <1>2, <1>4 DEF DeadOf, OfMan, LevelOf
    <3> QED BY <2>1, <3>1 DEF DeadAt
  <2>3. deadcnt'[m] = deadcnt[m] /\ freecnt'[m] = freecnt[m] /\ tdead'[m] = tdead[m]
    BY <1>4 DEF Sweep
  <2> QED BY <2>1, <2>2, <2>3 DEF Counted
<1> QED BY <1>3, <1>4

\* ... and releases no reference: nothing live is freed.
LEMMA SweepExact ==
    ASSUME IInv, TypeOK', Covered, Exact, ret = None, \A k \in Node : todo[k] = 0,
           NEW ms \in SUBSET Man, Sweep(ms), UNCHANGED <<ref, client, loops>>
    PROVE  RefExact'
<1>1. /\ TypeOK /\ Garbage(ms) = {a \in dead : ManOf[a] \in ms} /\ dead \subseteq Table
      /\ RefExact
  BY SweepFreesDead DEF IInv, TypeOK, Exact
<1>2. /\ place' = [a \in Addr |-> IF a \in Garbage(ms) THEN "free" ELSE place[a]]
      /\ node' = [a \in Addr |-> IF a \in Garbage(ms) THEN Blank ELSE node[a]]
      /\ dead' = dead \ Garbage(ms) /\ UNCHANGED <<ref, hold, pend, req>>
  BY DEF Sweep, client, loops
<1>3. Live' = Live /\ Live \subseteq Addr /\ \A a \in Live : node'[a] = node[a]
  BY <1>1, <1>2 DEF Live, Table
<1>4. ASSUME NEW n \in Addr
      PROVE  Owed(n)' = Owed(n) /\ Owed(n) \in Nat /\ ref[n] \in Nat /\ ref'[n] = ref[n]
  <2>1. EdgesInto(n)' = EdgesInto(n) /\ Requested(n)' = Requested(n) /\ n \in Node
    BY <1>2, <1>3 DEF EdgesInto, EdgesOf, Requested, Node
  <2>2. ref[n] \in Nat
    BY <1>1, <2>1, NodeTableAssumption DEF TypeOK
  <2> QED BY <1>1, <1>2, <2>1, <2>2, OwedParts DEF Owed
<1> QED BY <1>1, <1>4, ExactFollows

\* A new chunk brings ChunkNodes free nodes.
LEMMA ChunkCounted ==
    ASSUME TypeOK, Counted, AllocChunk
    PROVE  Counted'
<1>1. req # NoReq /\ req.man \in Man /\ UNCHANGED <<node, deadcnt, tdead, dead>>
  BY ReqCount DEF AllocChunk
<1>2. PICK S \in SUBSET {a \in OfMan(req.man) : place[a] = "none"} :
          /\ Cardinality(S) = ChunkNodes
          /\ place' = [a \in Addr |-> IF a \in S THEN "free" ELSE place[a]]
  BY DEF AllocChunk
<1>3. freecnt' = [freecnt EXCEPT ![req.man] = freecnt[req.man] + ChunkNodes]
  BY DEF AllocChunk
<1>4. ASSUME NEW m \in Man PROVE freecnt'[m] = Cardinality(FreeList(m)')
  <2>1. freecnt[m] = Cardinality(FreeList(m))
    BY DEF Counted
  <2>2. CASE m = req.man
    <3>1. FreeList(m)' = FreeList(m) \cup S
      BY <1>2, <2>2 DEF FreeList, OfMan
    <3>2. FreeList(m) \in SUBSET Addr /\ S \in SUBSET Addr /\ FreeList(m) \cap S = {}
      BY <1>2 DEF FreeList, OfMan
    <3>3. Cardinality(FreeList(m)') = Cardinality(FreeList(m)) + Cardinality(S)
      BY <3>1, <3>2, DisjointCount
    <3> QED BY <1>1, <1>2, <1>3, <2>1, <2>2, <3>3 DEF TypeOK
  <2>3. CASE m # req.man
    <3>1. FreeList(m)' = FreeList(m)
      BY <1>2, <2>3 DEF FreeList, OfMan
    <3> QED BY <1>1, <1>3, <2>1, <2>3, <3>1 DEF TypeOK
  <2> QED BY <2>2, <2>3
<1>5. \A m \in Man : Follows(m)
  BY <1>1, NoneDies
<1> QED BY <1>4, <1>5, CountedFollows

\* Taking a node from the free list.
LEMMA TakeCounted ==
    ASSUME TypeOK, Counted, AllocTake
    PROVE  Counted'
<1>1. req # NoReq /\ req.man \in Man /\ UNCHANGED <<deadcnt, tdead, dead>>
  BY ReqCount DEF AllocTake
<1>2. PICK b \in FreeList(req.man) :
          place' = [place EXCEPT ![b] = "table"] /\ node' = [node EXCEPT ![b] = req.key]
  BY DEF AllocTake
<1>3. freecnt' = [freecnt EXCEPT ![req.man] = freecnt[req.man] - 1]
  BY DEF AllocTake
<1>4. b \in Addr /\ ManOf[b] = req.man /\ place[b] = "free"
  BY DEF FreeList, OfMan
<1>5. ASSUME NEW m \in Man PROVE freecnt'[m] = Cardinality(FreeList(m)')
  <2>1. freecnt[m] = Cardinality(FreeList(m)) /\ IsFiniteSet(FreeList(m))
        /\ Cardinality(FreeList(m)) \in Nat
    BY FreeFinite DEF Counted
  <2>2. CASE m = req.man
    <3>1. FreeList(m)' = FreeList(m) \ {b} /\ b \in FreeList(m)
      BY <1>2, <1>4, <2>2 DEF FreeList, OfMan, TypeOK
    <3>2. Cardinality(FreeList(m)') = Cardinality(FreeList(m)) - 1
      BY <2>1, <3>1, FS_RemoveElement
    <3> QED BY <1>1, <1>3, <2>1, <2>2, <3>2 DEF TypeOK
  <2>3. CASE m # req.man
    <3>1. FreeList(m)' = FreeList(m)
      BY <1>2, <1>4, <2>3 DEF FreeList, OfMan, TypeOK
    <3> QED BY <1>1, <1>3, <2>1, <2>3, <3>1 DEF TypeOK
  <2> QED BY <2>2, <2>3
<1>6. \A k \in dead : node'[k] = node[k]
  <2>1. b \notin dead
    BY <1>4 DEF TypeOK, Table
  <2> QED BY <1>2, <2>1 DEF TypeOK, Table
<1>7. \A m \in Man : Follows(m)
  BY <1>1, <1>6, NoneDies
<1> QED BY <1>5, <1>7, CountedFollows

\* A node that is not stale lies above its children (Closed).
LEMMA BelowParent ==
    ASSUME IInv, NEW a \in Table, a \notin stale, NEW c \in Kids(a), c # Term
    PROVE  /\ c \in Table /\ c \notin stale /\ c \in Addr
           /\ LevelOf(c) \in Nat /\ LevelOf(a) \in Nat /\ LevelOf(c) > LevelOf(a)
<1>1. TypeOK /\ Ordered(node[a])
  BY DEF IInv, Closed
<1>2. c \in Table /\ c \notin stale /\ LevelOf(c) > LevelOf(a)
  BY <1>1 DEF Ordered, Kids, LevelOf
<1>3. LevelOf(c) \in Level /\ LevelOf(a) \in Level /\ c \in Addr
  BY <1>1, <1>2, InTable
<1> QED BY <1>2, <1>3, NodeTableAssumption

\* A lookup or a cache hit puts an unreferenced node on the reclaim stack: it is dead
\* unless it is the floating result.
LEMMA HitReviving ==
    ASSUME IInv, Covered, Idle, NEW p \in Table, ref[p] = 0 => p # ret,
           ret' = p, todo' = IF ref[p] = 0 THEN [todo EXCEPT ![p] = 1] ELSE todo,
           UNCHANGED <<place, node, ref, dead>>,
           ref[p] = 0 => \A c \in Kids(p) : ref[c] = 0 => c \in dead
    PROVE  Reviving'
<1>1. TypeOK /\ todo = Empty /\ p \in Addr /\ p \in Node /\ \A k \in Node : todo[k] = 0
  BY DEF IInv, Idle, Empty, Table, Node
<1> SUFFICES ASSUME NEW a \in Addr, todo'[a] > 0
             PROVE  /\ todo'[a] = 1 /\ a \in dead'
                    /\ ret' \in Addr /\ (a = ret' \/ LevelOf(a)' > LevelOf(ret)')
                    /\ \A c \in Kids(a)' : ref'[c] = 0 => c \in dead'
  BY DEF Reviving
<1>2. a = p /\ ref[p] = 0 /\ todo'[a] = 1
  BY <1>1 DEF Empty, Node
<1>3. p \in dead
  BY <1>1, <1>2, IdleCovered DEF Live
<1>4. Kids(a)' = Kids(a)
  BY DEF Kids
<1> QED BY <1>1, <1>2, <1>3, <1>4

\* An iteration of cdd_reclaim pushes dead children that are not on the stack yet.
LEMMA ReclaimReviving ==
    ASSUME IInv, Covered, Reviving, CleanReclaim, NEW a \in Addr, ReclaimStep(a)
    PROVE  Reviving'
<1>1. /\ TypeOK /\ todo[a] = 1 /\ a \in dead /\ a \in Table /\ a \notin stale /\ ret \in Addr
      /\ a = ret \/ LevelOf(a) > LevelOf(ret)
      /\ \A c \in Kids(a) : ref[c] = 0 => c \in dead
  BY DEF ReclaimStep, IInv, NoDangling, Closed, Reviving
<1>2. /\ ref' = RefKids(node[a].kid) /\ dead' = dead \ {a} /\ UNCHANGED <<node, ret>>
      /\ todo' = [c \in Node |-> todo[c] - (IF c = a THEN 1 ELSE 0) + Pushed(a, c)]
  BY DEF ReclaimStep, client
<1>3. \A k \in Addr : Kids(k)' = Kids(k) /\ LevelOf(k)' = LevelOf(k)
  BY <1>2 DEF Kids, LevelOf
<1>4. /\ todo \in [Node -> Nat] /\ ref \in [Node -> 0..MAXREF] /\ ref[Term] # 0
      /\ LevelOf(a) \in Nat /\ LevelOf(ret) \in Nat
  <2>1. ret \in Table
    BY <1>1 DEF IInv, NoDangling
  <2>2. LevelOf(a) \in Level /\ LevelOf(ret) \in Level
    BY <1>1, <2>1, InTable
  <2> QED BY <1>1, <2>2, NodeTableAssumption DEF TypeOK
\* A child that is still unreferenced after the step was so before.
<1>5. ASSUME NEW d \in Node, ref'[d] = 0 PROVE ref[d] = 0
  <2>1. /\ ref'[d] = SatAdd(ref[d], Cardinality(At(node[a].kid, d)))
        /\ Cardinality(At(node[a].kid, d)) \in Nat /\ ref[d] \in 0..MAXREF
    BY <1>1, <1>2, <1>4, KidCount DEF RefKids
  <2>2. ref'[d] = MAXREF \/ ref'[d] = ref[d] + Cardinality(At(node[a].kid, d))
    BY <2>1, Sat
  <2> QED BY <1>5, <2>1, <2>2, NodeTableAssumption
\* What is pushed is dead, below the result and pushed once.
<1>6. ASSUME NEW c \in Addr, Pushed(a, c) # 0
      PROVE  /\ c \in dead /\ c # a /\ todo'[c] = 1 /\ c \in Table /\ c \notin stale
             /\ LevelOf(c) > LevelOf(ret) /\ LevelOf(c) > LevelOf(a) /\ LevelOf(c) \in Nat
  <2>1. ref[c] = 0 /\ c \in Kids(a) /\ c # Term /\ c \in Node
    BY <1>6, NodeTableAssumption DEF Pushed, At, Kids, Node
  <2>2. c \in dead /\ c \in Table /\ c \notin stale /\ LevelOf(c) \in Nat /\ LevelOf(c) > LevelOf(a)
    BY <1>1, <2>1, BelowParent
  <2>3. LevelOf(c) > LevelOf(ret) /\ c # a /\ c # ret
    BY <1>1, <1>4, <2>2
  <2>4. todo[c] = 0
    BY <1>4, <2>1, <2>3 DEF Covered
  <2>5. Pushed(a, c) = 1
    BY <1>1, <1>6, <2>1 DEF Pushed, CleanReclaim
  <2>6. todo'[c] = 1
    BY <1>2, <2>1, <2>3, <2>4, <2>5
  <2> QED BY <2>2, <2>3, <2>6
<1> SUFFICES ASSUME NEW c \in Addr, todo'[c] > 0
             PROVE  /\ todo'[c] = 1 /\ c \in dead' /\ ret' \in Addr
                    /\ c = ret' \/ LevelOf(c)' > LevelOf(ret)'
                    /\ \A d \in Kids(c)' : ref'[d] = 0 => d \in dead'
  BY DEF Reviving
<1>7. ret' = ret /\ LevelOf(c)' = LevelOf(c) /\ LevelOf(ret)' = LevelOf(ret) /\ Kids(c)' = Kids(c)
  BY <1>1, <1>2, <1>3 DEF LevelOf
<1>8. c \in Node
  BY DEF Node
<1>9. CASE Pushed(a, c) # 0
  <2>1. /\ c \in dead /\ c # a /\ todo'[c] = 1 /\ c \in Table /\ c \notin stale
        /\ LevelOf(c) > LevelOf(ret) /\ LevelOf(c) > LevelOf(a) /\ LevelOf(c) \in Nat
    BY <1>6, <1>9
  <2>2. ASSUME NEW d \in Kids(c), ref'[d] = 0 PROVE d \in dead'
    <3>0. node[c] \in Content(ManOf[c])
      BY <1>1, <2>1, InTable
    <3>1. d \in Node
      BY <3>0 DEF Kids, Content
    <3>2. ref[d] = 0 /\ d # Term
      BY <1>4, <1>5, <2>2, <3>1
    <3>3. d \in Table /\ LevelOf(d) \in Nat /\ LevelOf(d) > LevelOf(c)
      BY <2>1, <3>2, BelowParent
    <3>4. d # a /\ d # ret
      BY <1>4, <2>1, <3>3
    <3>5. d \in dead
      <4> SUFFICES ASSUME d \in Live PROVE d \in dead
        BY <3>3 DEF Live
      <4>1. PICK p \in Addr : todo[p] > 0 /\ d \in Kids(p)
        BY <3>2, <3>4 DEF Covered
      <4> QED BY <3>2, <4>1 DEF Reviving
    <3> QED BY <1>2, <3>4, <3>5
  <2> QED BY <1>1, <1>2, <1>7, <2>1, <2>2
<1>10. CASE Pushed(a, c) = 0
  <2>1. c # a /\ todo[c] > 0 /\ todo'[c] = todo[c]
    BY <1>1, <1>2, <1>4, <1>8, <1>10
  <2>2. /\ todo[c] = 1 /\ c \in dead /\ (c = ret \/ LevelOf(c) > LevelOf(ret))
        /\ \A d \in Kids(c) : ref[d] = 0 => d \in dead
    BY <2>1 DEF Reviving
  <2>3. c \in Table /\ c \notin stale
    BY <2>1 DEF IInv, NoDangling, Closed
  <2>4. ASSUME NEW d \in Kids(c), ref'[d] = 0 PROVE d \in dead'
    <3>0. node[c] \in Content(ManOf[c])
      BY <1>1, <2>3, InTable
    <3>1. d \in Node
      BY <3>0 DEF Kids, Content
    <3>2. ref[d] = 0 /\ d # Term
      BY <1>4, <1>5, <2>4, <3>1
    <3>3. d \in dead
      BY <2>2, <3>2
    <3>4. d # a
      <4> SUFFICES ASSUME d = a PROVE FALSE
        OBVIOUS
      <4>1. a = ret
        BY <1>1, <3>2 DEF Covered
      <4>2. LevelOf(a) > LevelOf(c) /\ LevelOf(c) \in Nat
        BY <2>3, <3>2, BelowParent
      <4> QED BY <1>4, <2>1, <2>2, <4>1, <4>2
    <3> QED BY <1>2, <3>3, <3>4
  <2> QED BY <1>1, <1>2, <1>7, <2>1, <2>2, <2>4
<1> QED BY <1>9, <1>10

\* A step that leaves the store and its counters alone.
LEMMA SameCounted ==
    ASSUME TypeOK, Counted, UNCHANGED <<place, node, counters, dead>>
    PROVE  Counted'
<1>1. UNCHANGED <<place, node, deadcnt, freecnt, tdead, dead>>
  BY DEF counters
<1>2. \A m \in Man : Follows(m) /\ freecnt'[m] = Cardinality(FreeList(m)')
  BY <1>1, NoneDies, SameFree
<1> QED BY <1>2, CountedFollows

\* A client step: references move between handles and the result, or to the stack of
\* cdd_rec_deref.
LEMMA ClientExact ==
    ASSUME TypeOK, TypeOK', Exact, UNCHANGED <<place, node, counters, req, dead>>,
           \A n \in Addr : \/ ref'[n] = MAXREF
                           \/ /\ ref[n] # MAXREF
                              /\ ref'[n] - ref[n] = (hold'[n] + pend'[n]) - (hold[n] + pend[n])
    PROVE  RefExact' /\ Counted'
<1>1. Table' = Table
  BY DEF Table
<1>2. RefExact'
  BY <1>1, HandlesExact DEF Exact
<1> QED BY <1>2, SameCounted DEF Exact

\* A step that leaves the references alone as well.
LEMMA QuietExact ==
    ASSUME TypeOK, TypeOK', Exact, UNCHANGED <<place, node, ref, counters, hold, pend, req, dead>>
    PROVE  RefExact' /\ Counted'
<1>1. \A n \in Addr : ref[n] \in Nat /\ hold[n] \in Nat /\ pend[n] \in Nat
  BY NodeTableAssumption DEF TypeOK, Node
<1>2. \A n \in Addr : \/ ref'[n] = MAXREF
                      \/ /\ ref[n] # MAXREF
                         /\ ref'[n] - ref[n] = (hold'[n] + pend'[n]) - (hold[n] + pend[n])
  BY <1>1
<1> QED BY <1>2, ClientExact

\* cdd_make_*_node: the node it finds is dead or referenced, and so are its children
\* where cdd_reclaim looks at them.
LEMMA MakeExact ==
    ASSUME IInv, TypeOK', Covered, Exact, CleanReclaim', Idle, NEW m \in Man, NEW key \in Content(m),
           WellOrdered(key),
           \/ Settled /\ \A n \in Node : At(key.kid, n) # {} => n = Term \/ hold[n] > 0
           \/ /\ m = BddMan /\ ret \in Addr /\ At(key.kid, ret) # {}
              /\ \A n \in Node : At(key.kid, n) # {} => n \in {Term, ret} \/ hold[n] > 0,
           MakeHit(m, key) \/ MakeMiss(m, key)
    PROVE  Exact'
<1>1. TypeOK /\ \A k \in Node : todo[k] = 0
  BY DEF IInv, Idle, Empty
<1>2. CASE MakeMiss(m, key)
  <2>1. UNCHANGED <<place, node, counters, dead, todo>>
    BY <1>2 DEF MakeMiss
  <2>2. Counted' /\ RefExact'
    BY <1>1, <1>2, <2>1, SameCounted, MissExact DEF Exact
  <2>3. Reviving'
    BY <1>1, <2>1 DEF Reviving, Node
  <2> QED BY <2>2, <2>3 DEF Exact
<1>3. CASE MakeHit(m, key)
  <2>1. PICK p \in Found(key) :
            /\ ret' = p
            /\ todo' = IF ref[p] = 0 THEN [todo EXCEPT ![p] = 1] ELSE todo
            /\ UNCHANGED <<place, node, ref, counters, hold, pend, req, dead>>
    BY <1>3 DEF MakeHit
  <2>2. p \in Table /\ p \in Addr /\ node[p] = key /\ LevelOf(p) \in Nat /\ ManOf[p] \in Man
    <3>1. p \in Table /\ node[p] = key
      BY DEF Found
    <3> QED BY <1>1, <3>1, InTable, NodeTableAssumption
  <2>3. RefExact' /\ Counted'
    BY <1>1, <2>1, QuietExact
  \* The floating result is not found: it lies below the node that is looked up.
  <2>4. ASSUME ref[p] = 0 PROVE p # ret
    <3>1. CASE Settled
      BY <2>2, <2>4, <3>1, NodeTableAssumption DEF Settled, Node
    <3>2. CASE ret \in Addr /\ At(key.kid, ret) # {}
      <4>1. PICK i \in DOMAIN key.kid : key.kid[i] = ret
        BY <3>2 DEF At
      <4>2. LevelOf(ret) > key.level
        BY <3>2, <4>1, NodeTableAssumption DEF WellOrdered
      <4> QED BY <2>2, <4>2 DEF LevelOf
    <3> QED BY <3>1, <3>2
  <2>5. ASSUME ref[p] = 0, NEW c \in Kids(p), ref[c] = 0 PROVE c \in dead
    <3>1. c \in Node /\ At(key.kid, c) # {}
      BY <2>2 DEF Kids, At, Content
    <3>2. c # Term /\ c \in Addr
      BY <1>1, <2>5, <3>1, NodeTableAssumption DEF TypeOK, Node
    <3>3. ~(hold[c] > 0)
      BY <2>5, <3>2, HeldInTable
    <3>4. m = BddMan
      BY <3>1, <3>2, <3>3
    <3>5. ManOf[p] = BddMan
      <4>1. node[p] \in Content(ManOf[p]) /\ node[p] \in Content(BddMan)
        BY <1>1, <2>2, <3>4, InTable
      <4>2. node[p].level \in BddLevel
        BY <4>1 DEF Content
      <4>3. ManOf[p] # BddMan => node[p].level \in Level \ BddLevel
        BY <4>1 DEF Content
      <4> QED BY <4>2, <4>3
    <3>6. todo'[p] > 0 /\ ref'[c] = 0 /\ c \in Kids(p)'
      <4>1. todo' = [todo EXCEPT ![p] = 1] /\ p \in DOMAIN todo
        BY <1>1, <2>1, <2>2, <2>5 DEF TypeOK, Node
      <4> QED BY <2>1, <2>5, <4>1 DEF Kids
    <3>7. c \in dead'
      BY <2>2, <3>2, <3>5, <3>6 DEF CleanReclaim
    <3> QED BY <2>1, <3>7
  <2>6. Reviving'
    BY <2>1, <2>2, <2>4, <2>5, HitReviving
  <2> QED BY <2>3, <2>6 DEF Exact
<1> QED BY <1>2, <1>3

\* A cache hit: the result is dead or referenced, and so are its children.
LEMMA CacheHitExact ==
    ASSUME IInv, TypeOK', Covered, Exact, NEW s \in Slot, CacheHit(s)
    PROVE  Exact'
<1> DEFINE p == cache[s].res
<1>1. /\ TypeOK /\ Idle /\ p \in Table \cup {Term} /\ p \notin stale /\ ret' = p /\ Settled
      /\ todo' = IF ref[p] = 0 THEN [todo EXCEPT ![p] = 1] ELSE todo
      /\ UNCHANGED <<place, node, ref, counters, hold, pend, req, dead>>
  BY DEF IInv, CacheFresh, Closed, CacheHit
<1> HIDE DEF p
<1>2. RefExact' /\ Counted'
  BY <1>1, QuietExact
<1>3. \A k \in Node : todo[k] = 0
  BY <1>1 DEF Idle, Empty
<1>4. CASE p \in Table
  <2>1. ref[p] = 0 => p # ret
    BY <1>1, <1>4, NodeTableAssumption DEF Settled, Table, Node
  <2>2. ASSUME NEW c \in Kids(p), ref[c] = 0 PROVE c \in dead
    <3>1. c # Term
      BY <1>1, <2>2, NodeTableAssumption DEF TypeOK
    <3>2. c \in Table /\ c \in Addr
      BY <1>1, <1>4, <3>1, BelowParent
    <3>3. c # ret
      BY <1>1, <2>2, <3>2, NodeTableAssumption DEF Settled, Node
    <3> QED BY <1>3, <2>2, <3>2, <3>3, IdleCovered DEF Live
  <2>3. Reviving'
    BY <1>1, <1>4, <2>1, <2>2, HitReviving
  <2> QED BY <1>2, <2>3 DEF Exact
<1>5. CASE p = Term
  <2>1. todo' = todo
    BY <1>1, <1>5, NodeTableAssumption DEF TypeOK
  <2>2. Reviving'
    BY <1>3, <2>1 DEF Reviving, Node
  <2> QED BY <1>2, <2>2 DEF Exact
<1> QED BY <1>1, <1>4, <1>5

\* Exactness is kept: one step of each action.
LEMMA ExactInductive ==
    IInv /\ Covered /\ Exact /\ CleanReclaim /\ CleanReclaim' /\ [Next]_vars => Exact'
<1> SUFFICES ASSUME IInv, Covered, Exact, CleanReclaim, CleanReclaim', [Next]_vars PROVE Exact'
  OBVIOUS
<1>0. TypeOK /\ TypeOK' /\ RefExact /\ Counted
  BY Inductive DEF IInv, Exact
<1>1. CASE MakeHeld
  <2>1. Idle /\ Settled
    BY <1>1 DEF MakeHeld
  <2>2. PICK m \in Man : \E key \in Content(m) :
            /\ WellOrdered(key)
            /\ \A n \in Node : At(key.kid, n) # {} => n = Term \/ hold[n] > 0
            /\ MakeHit(m, key) \/ MakeMiss(m, key)
    BY <1>1 DEF MakeHeld
  <2> QED BY <1>0, <2>1, <2>2, MakeExact
<1>2. CASE MakeFloating
  <2>1. PICK key \in Content(BddMan) :
            /\ WellOrdered(key) /\ key.kid[2] = ret
            /\ key.kid[1] = Term \/ hold[key.kid[1]] > 0
            /\ MakeHit(BddMan, key) \/ MakeMiss(BddMan, key)
    BY <1>2 DEF MakeFloating
  <2>2. Idle /\ BddMan \in Man /\ DOMAIN key.kid = 1..2 /\ ret \in Addr
    <3>1. Idle /\ BddMan \in Man /\ Arity[BddMan] = 2 /\ ret \in Addr
      BY <1>0, <1>2, NodeTableAssumption DEF MakeFloating, TypeOK, Node
    <3> QED BY <3>1 DEF Content
  <2>3. /\ At(key.kid, ret) # {}
        /\ \A n \in Node : At(key.kid, n) # {} => n \in {Term, ret} \/ hold[n] > 0
    BY <2>1, <2>2 DEF At
  <2> QED BY <1>0, <2>1, <2>2, <2>3, MakeExact
<1>3. CASE Gbc \/ AllocGbc
  <2>1. /\ \E ms \in SUBSET Man : Sweep(ms)
        /\ ret = None /\ (\A k \in Node : todo[k] = 0) /\ UNCHANGED <<ref, client, loops>>
    <3>1. CASE Gbc
      BY <3>1 DEF Gbc, Idle, Empty
    <3>2. CASE AllocGbc
      <4>1. req # NoReq
        BY <3>2 DEF AllocGbc
      <4>2. req.man \in Man
        BY <1>0, <4>1, ReqCount
      <4> QED BY <3>2, <4>1, <4>2 DEF AllocGbc, IInv, OneLoop
    <3> QED BY <1>3, <3>1, <3>2
  <2>2. RefExact' /\ Counted'
    BY <1>0, <2>1, SweepExact, SweepCounted
  <2>3. Reviving'
    BY <2>1 DEF Reviving, Node, loops
  <2> QED BY <2>2, <2>3 DEF Exact
<1>4. ASSUME NEW n \in Addr, Ref(n) PROVE Exact'
  <2>1. /\ n \in Node /\ ref[n] \in 0..MAXREF /\ (\A k \in Node : todo[k] = 0)
        /\ ref' = [ref EXCEPT ![n] = SatAdd(ref[n], 1)]
        /\ hold' = [hold EXCEPT ![n] = hold[n] + 1]
        /\ UNCHANGED <<place, node, counters, pend, todo, req, dead>>
    BY <1>0, <1>4 DEF Ref, TypeOK, Node, loops, Idle, Empty
  <2>2. /\ SatAdd(ref[n], 1) = MAXREF \/ SatAdd(ref[n], 1) = ref[n] + 1
        /\ ref[n] = MAXREF => SatAdd(ref[n], 1) = MAXREF
    BY <2>1, Sat
  <2>3. \A k \in Addr : \/ ref'[k] = MAXREF
                        \/ /\ ref[k] # MAXREF
                           /\ ref'[k] - ref[k] = (hold'[k] + pend'[k]) - (hold[k] + pend[k])
    BY <1>0, <2>1, <2>2, NodeTableAssumption DEF TypeOK, Node
  <2>4. RefExact' /\ Counted'
    BY <1>0, <2>1, <2>3, ClientExact
  <2>5. Reviving'
    BY <2>1 DEF Reviving, Node
  <2> QED BY <2>4, <2>5 DEF Exact
<1>5. CASE Discard \/ \E s \in Slot : CachePut(s)
  <2>1. /\ UNCHANGED <<place, node, ref, counters, hold, pend, todo, req, dead>>
        /\ \A k \in Node : todo[k] = 0
    BY <1>5 DEF Discard, CachePut, client, loops, Idle, Empty
  <2>2. Reviving'
    BY <2>1 DEF Reviving, Node
  <2> QED BY <1>0, <2>1, <2>2, QuietExact DEF Exact
<1>6. ASSUME NEW n \in Addr, DropFrame(n) \/ Return(n) PROVE Exact'
  <2>1. /\ n \in Node /\ ref[n] \in 0..MAXREF /\ (\A k \in Node : todo[k] = 0) /\ hold[n] > 0
        /\ ref' = [ref EXCEPT ![n] = SatDec(ref[n])]
        /\ hold' = [hold EXCEPT ![n] = hold[n] - 1]
        /\ UNCHANGED <<place, node, counters, pend, todo, req, dead>>
    BY <1>0, <1>6 DEF DropFrame, Return, PlainDeref, TypeOK, Node, loops, Idle, Empty
  <2>2. ref[n] > 0
    BY <2>1, HeldInTable
  <2>3. SatDec(ref[n]) = MAXREF \/ (ref[n] # MAXREF /\ SatDec(ref[n]) = ref[n] - 1)
    BY <2>1, <2>2, Sat
  <2>4. \A k \in Addr : \/ ref'[k] = MAXREF
                        \/ /\ ref[k] # MAXREF
                           /\ ref'[k] - ref[k] = (hold'[k] + pend'[k]) - (hold[k] + pend[k])
    BY <1>0, <2>1, <2>3, NodeTableAssumption DEF TypeOK, Node
  <2>5. RefExact' /\ Counted'
    BY <1>0, <2>1, <2>4, ClientExact
  <2>6. Reviving'
    BY <2>1 DEF Reviving, Node
  <2> QED BY <2>5, <2>6 DEF Exact
<1>7. ASSUME NEW n \in Addr, Release(n) PROVE Exact'
  <2>1. /\ n \in Node /\ pend = Empty /\ (\A k \in Node : todo[k] = 0)
        /\ hold' = [hold EXCEPT ![n] = hold[n] - 1] /\ pend' = [pend EXCEPT ![n] = 1]
        /\ UNCHANGED <<place, node, ref, counters, todo, req, dead>>
    BY <1>7 DEF Release, Node, Idle, Empty
  <2>2. ASSUME NEW k \in Addr
        PROVE  ref'[k] - ref[k] = (hold'[k] + pend'[k]) - (hold[k] + pend[k])
    <3>1. k \in Node /\ hold[k] \in Nat /\ ref[k] \in Nat /\ pend[k] = 0 /\ pend[n] = 0
      BY <1>0, <2>1, NodeTableAssumption DEF TypeOK, Node, Empty
    <3>2. hold'[k] = hold[k] - (IF k = n THEN 1 ELSE 0) /\ pend'[k] = (IF k = n THEN 1 ELSE 0)
      BY <1>0, <2>1, <3>1 DEF TypeOK
    <3> QED BY <2>1, <3>1, <3>2
  <2>3. RefExact' /\ Counted'
    BY <1>0, <2>1, <2>2, ClientExact
  <2>4. Reviving'
    BY <2>1 DEF Reviving, Node
  <2> QED BY <2>3, <2>4 DEF Exact
<1>8. ASSUME NEW n \in Node, RecDerefStep(n) PROVE Exact'
  <2>1. (\A k \in Node : todo[k] = 0) /\ UNCHANGED <<place, todo>>
    BY <1>8 DEF RecDerefStep, IInv, OneLoop
  <2>2. freecnt' = freecnt
    BY <1>8 DEF RecDerefStep, counters
  <2>3. Counted'
    BY <1>0, <1>8, <2>1, <2>2, RecDerefFollows, SameFree, CountedFollows
  <2>4. Reviving'
    BY <2>1 DEF Reviving, Node
  <2> QED BY <1>0, <1>8, <2>3, <2>4, RecDerefExact DEF Exact
<1>9. ASSUME NEW n \in Addr, ReclaimStep(n) PROVE Exact'
  <2>1. n \in dead /\ Reviving /\ UNCHANGED <<place, freecnt>>
    BY <1>9 DEF ReclaimStep, Exact, Reviving
  <2>2. Counted'
    BY <1>0, <1>9, <2>1, ReclaimFollows, SameFree, CountedFollows
  <2>3. Reviving'
    BY <1>9, <2>1, ReclaimReviving
  <2> QED BY <1>0, <1>9, <2>1, <2>2, <2>3, ReclaimExact DEF Exact
<1>10. CASE AllocChunk
  <2>1. /\ UNCHANGED <<node, ref, hold, pend, todo, req, dead>> /\ Table' = Table
        /\ \A k \in Node : todo[k] = 0
    BY <1>0, <1>10 DEF AllocChunk, client, loops, Table, OfMan, TypeOK, IInv, OneLoop
  <2>2. \A n \in Addr : ref[n] \in Nat /\ hold[n] \in Nat /\ pend[n] \in Nat
    BY <1>0, NodeTableAssumption DEF TypeOK, Node
  <2>3. \A n \in Addr : \/ ref'[n] = MAXREF
                        \/ /\ ref[n] # MAXREF
                           /\ ref'[n] - ref[n] = (hold'[n] + pend'[n]) - (hold[n] + pend[n])
    BY <2>1, <2>2
  <2>4. RefExact'
    BY <1>0, <2>1, <2>3, HandlesExact
  <2>5. Reviving'
    BY <2>1 DEF Reviving, Node
  <2> QED BY <1>0, <1>10, <2>4, <2>5, ChunkCounted DEF Exact
<1>11. CASE AllocTake
  <2>1. UNCHANGED todo /\ \A k \in Node : todo[k] = 0
    BY <1>11 DEF AllocTake, IInv, OneLoop
  <2>2. Reviving'
    BY <2>1 DEF Reviving, Node
  <2> QED BY <1>0, <1>11, <2>2, TakeExact, TakeCounted DEF Exact
<1>12. ASSUME NEW s \in Slot, CacheHit(s) PROVE Exact'
  BY <1>0, <1>12, CacheHitExact
<1>13. CASE UNCHANGED vars
  <2>1. UNCHANGED <<place, node, ref, counters, hold, ret, pend, todo, req, dead>>
    BY <1>13 DEF vars, client, loops
  <2>2. Reviving'
    BY <2>1 DEF Exact, Reviving, Kids, LevelOf
  <2> QED BY <1>0, <2>1, <2>2, QuietExact DEF Exact
<1> QED BY <1>1, <1>2, <1>3, <1>4, <1>5, <1>6, <1>7, <1>8, <1>9, <1>10, <1>11, <1>12, <1>13
        DEF Next, NextHeld, Loop, Node

\* cdd_init counts what it sets up.
LEMMA InitExact == Init => Exact
<1> SUFFICES ASSUME Init PROVE Exact
  OBVIOUS
<1>1. Reviving
  BY DEF Init, Reviving, Empty, Node
<1>2. RefExact
  <2>1. \A n : EdgesInto(n) = {}
    BY DEF Init, EdgesInto, EdgesOf, Live, Table
  <2>2. \A n : Cardinality(EdgesInto(n)) = 0
    BY <2>1, FS_EmptySet
  <2> QED BY <2>2, NodeTableAssumption DEF Init, RefExact, Owed, Requested, Empty, Node
<1>3. ASSUME NEW m \in Man
      PROVE  /\ deadcnt[m] = Cardinality(DeadOf(m))
             /\ freecnt[m] = Cardinality(FreeList(m))
             /\ \A l \in Level : tdead[m][l] = Cardinality(DeadAt(m, l))
  <2>1. DeadOf(m) = {} /\ \A l \in Level : DeadAt(m, l) = {}
    BY DEF Init, DeadOf, DeadAt
  <2>2. PICK S \in SUBSET Addr : /\ \A k \in Man : Cardinality(S \cap OfMan(k)) = ChunkNodes - 1
                                 /\ place = [a \in Addr |-> IF a \in S THEN "free" ELSE "none"]
    BY DEF Init
  <2>3. FreeList(m) = S \cap OfMan(m)
    BY <2>2 DEF FreeList, OfMan
  <2> QED BY <2>1, <2>2, <2>3, FS_EmptySet DEF Init
<1>4. Counted
  BY <1>3 DEF Counted
<1> QED BY <1>1, <1>2, <1>4 DEF Exact

\* The strengthening of NoLostNode, for use with other invariants.
LEMMA CoveredInvariance == Spec => []Covered
<1>1. Init => Covered
  BY DEF Init, Covered, Live, Table, Empty, Node
<1> QED BY <1>1, CoveredInductive, Invariance, PTL DEF Spec

\* Finding 1 of the README is the only way to lose count: in every run in which
\* cdd_reclaim never meets a BDD node with a child that is unreferenced and mentioned
\* twice or floating (kernel.c:490-497), no reference is leaked, and between calls
\* deadcnt, freecnt and the subtables' counters are the numbers of dead and free nodes.
THEOREM CleanRunsExact == Spec /\ []CleanReclaim => [](RefExact /\ CountersExact)
<1>1. Exact => RefExact /\ CountersExact
  BY DEF Exact, CountersExact
<1>2. Spec /\ []CleanReclaim => []Exact
  BY InitExact, ExactInductive, Invariance, CoveredInvariance, PTL DEF Spec
<1> QED BY <1>1, <1>2, PTL

\* Where BDD nodes have no children but the terminal, there is nothing to push twice.
LEMMA LowestIsClean ==
    ASSUME \A l \in BddLevel : \A j \in Level : j <= l
    PROVE  IInv => CleanReclaim
<1> SUFFICES ASSUME IInv, NEW a \in Addr, NEW c \in Addr, todo[a] > 0, ManOf[a] = BddMan,
                    c \in Kids(a), ref[c] = 0
             PROVE  FALSE
  BY DEF CleanReclaim
<1>1. TypeOK /\ a \in Table /\ a \notin stale /\ c # Term
  BY NodeTableAssumption DEF IInv, NoDangling, Closed
<1>2. c \in Table /\ LevelOf(c) > LevelOf(a)
  BY <1>1, BelowParent
<1>3. LevelOf(c) \in Level /\ node[a] \in Content(BddMan)
  BY <1>1, <1>2, InTable
<1>4. LevelOf(a) \in BddLevel
  BY <1>3 DEF Content, LevelOf
<1>5. LevelOf(c) <= LevelOf(a)
  BY <1>3, <1>4
<1>6. LevelOf(c) \in Nat /\ LevelOf(a) \in Nat
  BY <1>1, BelowParent
<1> QED BY <1>2, <1>5, <1>6

\* With clocks only, or with the Booleans' one level at the bottom of the order, no
\* reference is ever leaked: every counter below MAXREF is the number of handles, stack
\* entries, edges and requests that own the node.
THEOREM NoLeaks ==
    ASSUME \A l \in BddLevel : \A j \in Level : j <= l
    PROVE  Spec => []RefExact
<1>1. Exact => RefExact
  BY DEF Exact
<1>2. IInv => CleanReclaim
  BY LowestIsClean
<1>3. Spec => []Exact
  BY <1>2, InitExact, ExactInductive, Invariance, CoveredInvariance, PTL DEF Spec
<1> QED BY <1>1, <1>3, PTL

\* Under the same condition deadcnt, freecnt and the subtables' counters are exact between
\* calls, so that cdd_gbc and cdd_alloc_node collect exactly when they are meant to.
THEOREM CountersTrue ==
    ASSUME \A l \in BddLevel : \A j \in Level : j <= l
    PROVE  Spec => []CountersExact
<1>1. Exact => CountersExact
  BY DEF Exact, CountersExact
<1>2. IInv => CleanReclaim
  BY LowestIsClean
<1>3. Spec => []Exact
  BY <1>2, InitExact, ExactInductive, Invariance, CoveredInvariance, PTL DEF Spec
<1> QED BY <1>1, <1>3, PTL
=============================================================================
