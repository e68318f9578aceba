---------------------------- MODULE ApplyProofs ----------------------------
(***************************************************************************)
(* Lemmas about the operators of module Diagrams: which diagrams the        *)
(* constructors, cdd_apply, cdd_ite, cdd_remove_negative and the            *)
(* reductions make, and what these say of a valuation.  Two notions carry   *)
(* everything: Cdds, the diagrams that hash-consing can have built over the *)
(* bounds of the instance, and Leaf, what a diagram says of a valuation.    *)
(* Diagrams that say the same of all vectors are equal.                    *)
(*                                                                         *)
(* First come the operators that do not reduce; then reduction, with sets   *)
(* of vectors closed under joins and the window of children that are        *)
(* visited; then what the operators do to the sets that diagrams denote;    *)
(* then those that end in unions: replacement (vectors seen through a       *)
(* renaming) and cdd_reduce2 (segments of children).                       *)
(*                                                                         *)
(* A recursive definition X is unfolded once, in lemma XEquation: each is   *)
(* an instance of module Recursion.                                        *)
(***************************************************************************)
EXTENDS DiagramOps, NatFacts, SequenceTheorems, TLAPS

-----------------------------------------------------------------------------
(* Diagrams in normal form.                                                *)

\* One more node on every path.
NodesStep(h, below) ==
    [level : 0..MAXLEVEL, elem : Seq([child : [neg : {0, 1}, node : below], bnd : Int])]
NodesRec == INSTANCE Recursion WITH Base <- {}, Step <- NodesStep

\* The nodes of height h + 1 are made over those of height h.
LEMMA NodesEquation == /\ NodesAt[0] = {}
                       /\ \A h \in Nat : NodesAt[h + 1] = NodesStep(h + 1, NodesAt[h])
<1>1. NodesAt = NodesRec!F
  BY DEF NodesAt, NodesRec!F, NodesStep
<1> HIDE DEF NodesAt
<1> QED BY <1>1, NodesRec!Def

\* The pointers whose paths have at most h nodes.
PointersAt(h) == [neg : {0, 1}, node : NodesAt[h]]

\* The bounds a node has on its level: those of the instance and INF, or the two
\* branches of a Boolean.
BoundsOf(l) == IF IsCdd(l) THEN RawBnd[l] \cup {INF} ELSE {0, 1}
\* A node in normal form with these bounds, whose children are in Below.
NormalNode(d, Children) ==
    /\ LevelOf(d) \in Levels
    /\ NormalEdges(LevelOf(d), d.node.elem)
    /\ \A k \in 1..Arity(d) : d.node.elem[k].bnd \in BoundsOf(LevelOf(d))
    /\ \A k \in 1..Arity(d) : d.node.elem[k].child \in Children
CddsStep(h, below) == {d \in PointersAt(h) : IsTerminal(d) \/ NormalNode(d, below)}
CddsAt[h \in Nat] == IF h = 0 THEN {} ELSE CddsStep(h, CddsAt[h - 1])
CddsRec == INSTANCE Recursion WITH Base <- {}, Step <- CddsStep
Cdds == CddsAt[Depth]

\* The pointers in normal form of height h + 1 are made over those of height h.
LEMMA CddsEquation == /\ CddsAt[0] = {}
                      /\ \A h \in Nat : CddsAt[h + 1] = CddsStep(h + 1, CddsAt[h])
<1>1. CddsAt = CddsRec!F
  BY DEF CddsAt, CddsRec!F
<1> HIDE DEF CddsAt
<1> QED BY <1>1, CddsRec!Def

\* Longer paths are allowed, not required.
LEMMA NodesGrow == ASSUME NEW h \in Nat PROVE NodesAt[h] \subseteq NodesAt[h + 1]
<1> DEFINE T == {n \in Nat : NodesAt[n] \subseteq NodesAt[n + 1]}
<1>1. 0 \in T
  BY NodesEquation
<1>2. ASSUME NEW n \in Nat, n \in T PROVE n + 1 \in T
  <2>1. NodesAt[n] \subseteq NodesAt[n + 1]
    BY <1>2
  <2> DEFINE E(N) == [child : [neg : {0, 1}, node : N], bnd : Int]
  <2>2. E(NodesAt[n]) \subseteq E(NodesAt[n + 1])
    BY <2>1
  <2>3. Seq(E(NodesAt[n])) \subseteq Seq(E(NodesAt[n + 1]))
    <3> HIDE DEF E
    <3> QED BY <2>2
  <2>4. NodesStep(n + 1, NodesAt[n]) \subseteq NodesStep((n + 1) + 1, NodesAt[n + 1])
    BY <2>3 DEF NodesStep
  <2>5. NodesAt[n + 1] \subseteq NodesAt[(n + 1) + 1]
    BY <2>4, NodesEquation, n + 1 \in Nat
  <2> QED BY <2>5
<1> HIDE DEF T
<1>3. \A n \in Nat : n \in T
  BY <1>1, <1>2, Induction
<1> QED BY <1>3 DEF T

\* A pointer in normal form of height h is one of height h + 1.
LEMMA CddsGrow == ASSUME NEW h \in Nat PROVE CddsAt[h] \subseteq CddsAt[h + 1]
<1> DEFINE T == {n \in Nat : CddsAt[n] \subseteq CddsAt[n + 1]}
<1>1. 0 \in T
  BY CddsEquation
<1>2. ASSUME NEW n \in Nat, n \in T PROVE n + 1 \in T
  <2>1. CddsAt[n] \subseteq CddsAt[n + 1]
    BY <1>2
  <2>2. PointersAt(n + 1) \subseteq PointersAt((n + 1) + 1)
    BY NodesGrow, n + 1 \in Nat DEF PointersAt
  <2>3. CddsStep(n + 1, CddsAt[n]) \subseteq CddsStep((n + 1) + 1, CddsAt[n + 1])
    BY <2>1, <2>2 DEF CddsStep, NormalNode
  <2>4. CddsAt[n + 1] \subseteq CddsAt[(n + 1) + 1]
    BY <2>3, CddsEquation, n + 1 \in Nat
  <2> QED BY <2>4
<1> HIDE DEF T
<1>3. \A n \in Nat : n \in T
  BY <1>1, <1>2, Induction
<1> QED BY <1>3 DEF T

\* A node of height h is one of every larger height.
LEMMA NodesMonotone == ASSUME NEW h \in Nat, NEW k \in Nat PROVE NodesAt[h] \subseteq NodesAt[h + k]
<1> DEFINE T == {n \in Nat : NodesAt[h] \subseteq NodesAt[h + n]}
<1>1. 0 \in T
  OBVIOUS
<1>2. ASSUME NEW n \in Nat, n \in T PROVE n + 1 \in T
  <2>1. NodesAt[h + n] \subseteq NodesAt[(h + n) + 1]
    BY NodesGrow, h + n \in Nat
  <2>2. (h + n) + 1 = h + (n + 1)
    OBVIOUS
  <2> QED BY <1>2, <2>1, <2>2
<1> HIDE DEF T
<1>3. \A n \in Nat : n \in T
  BY <1>1, <1>2, Induction
<1> QED BY <1>3 DEF T

\* A pointer in normal form of height h is one of every larger height.
LEMMA CddsMonotone == ASSUME NEW h \in Nat, NEW k \in Nat PROVE CddsAt[h] \subseteq CddsAt[h + k]
<1> DEFINE T == {n \in Nat : CddsAt[h] \subseteq CddsAt[h + n]}
<1>1. 0 \in T
  OBVIOUS
<1>2. ASSUME NEW n \in Nat, n \in T PROVE n + 1 \in T
  <2>1. CddsAt[h + n] \subseteq CddsAt[(h + n) + 1]
    BY CddsGrow, h + n \in Nat
  <2>2. (h + n) + 1 = h + (n + 1)
    OBVIOUS
  <2> QED BY <1>2, <2>1, <2>2
<1> HIDE DEF T
<1>3. \A n \in Nat : n \in T
  BY <1>1, <1>2, Induction
<1> QED BY <1>3 DEF T

\* A sequence whose members are in B is a sequence over B.
LEMMA SeqInto == ASSUME NEW A, NEW B, NEW s \in Seq(A), \A k \in 1..Len(s) : s[k] \in B
                 PROVE  s \in Seq(B)
<1>1. Len(s) \in Nat /\ s \in [1..Len(s) -> B]
  OBVIOUS
<1> QED BY <1>1, SeqDef

\* The members of a sequence over A are in A.
LEMMA SeqElem == ASSUME NEW A, NEW s \in Seq(A), NEW k \in 1..Len(s) PROVE s[k] \in A
OBVIOUS

\* An edge whose child is in B is an edge over B.
LEMMA EdgeInto == ASSUME NEW A, NEW B, NEW x \in [child : A, bnd : Int], x.child \in B
                  PROVE  x \in [child : B, bnd : Int]
OBVIOUS

\* What the assumptions on the constants say of levels and bounds.
LEMMA Basics == /\ MAXLEVEL \in Nat /\ Depth \in Nat /\ Depth = MAXLEVEL + 1 /\ Levels \subseteq 0..(MAXLEVEL - 1)
                /\ INF \in Nat /\ CddLevels \subseteq Levels
                /\ \A l \in CddLevels : RawBnd[l] \subseteq (2 - INF)..(INF - 1)
BY DifferencesAssumption, GridAssumption DEF Depth, CddLevels

\* Levels are numbers below the level of the terminal.
LEMMA LevelRange == ASSUME NEW l \in Levels PROVE l \in Nat /\ l < MAXLEVEL /\ MAXLEVEL \in Nat
BY DifferencesAssumption

\* The bounds of a node are integers, at a clock difference at most INF.
LEMMA BoundsAreInt == ASSUME NEW l \in Levels PROVE BoundsOf(l) \subseteq Int /\ \A b \in BoundsOf(l) : IsCdd(l) => b <= INF
BY Basics DEF BoundsOf, IsCdd

\* The terminal is a node of every height.
LEMMA TerminalNode == ASSUME NEW h \in Nat PROVE Terminal \in NodesAt[h + 1]
<1>1. <<>> \in Seq([child : [neg : {0, 1}, node : NodesAt[h]], bnd : Int])
  OBVIOUS
<1>2. Terminal \in NodesStep(h + 1, NodesAt[h])
  BY <1>1, Basics DEF Terminal, NodesStep
<1> QED BY <1>2, NodesEquation

\* What is known of a diagram with paths of at most h + 1 nodes.
LEMMA CddsStepFacts ==
    ASSUME NEW h \in Nat, NEW d \in CddsAt[h + 1]
    PROVE  /\ d.neg \in {0, 1} /\ d.node \in NodesAt[h + 1]
           /\ d = [neg |-> d.neg, node |-> d.node]
           /\ d.node = [level |-> d.node.level, elem |-> d.node.elem]
           /\ LevelOf(d) \in 0..MAXLEVEL
           /\ d.node.elem \in Seq([child : PointersAt(h), bnd : Int])
           /\ IsTerminal(d) \/ NormalNode(d, CddsAt[h])
<1>1. d \in CddsStep(h + 1, CddsAt[h])
  BY CddsEquation
<1>2. d \in PointersAt(h + 1)
  BY <1>1 DEF CddsStep
<1>3. d.node \in NodesStep(h + 1, NodesAt[h])
  BY <1>2, NodesEquation DEF PointersAt
<1> QED BY <1>1, <1>2, <1>3 DEF CddsStep, PointersAt, NodesStep, LevelOf

\* The level of a pointer in normal form is at most that of the terminal.
LEMMA CddsLevel == ASSUME NEW h \in Nat, NEW d \in CddsAt[h] PROVE LevelOf(d) \in 0..MAXLEVEL
<1>1. h # 0
  BY CddsEquation
<1>2. h - 1 \in Nat /\ (h - 1) + 1 = h
  BY <1>1
<1>3. d \in CddsAt[(h - 1) + 1]
  BY <1>2
<1> QED BY <1>2, <1>3, CddsStepFacts

\* A pointer in normal form is a pointer.
LEMMA CddsArePointers == ASSUME NEW h \in Nat PROVE CddsAt[h] \subseteq PointersAt(h)
<1>1. CASE h = 0
  BY <1>1, CddsEquation
<1>2. CASE h # 0
  <2>1. h - 1 \in Nat /\ (h - 1) + 1 = h
    BY <1>2
  <2>2. CddsAt[h] = CddsStep(h, CddsAt[h - 1])
    BY <2>1, CddsEquation
  <2> QED BY <2>2 DEF CddsStep
<1> QED BY <1>1, <1>2

\* The level of a diagram bounds the length of its paths.
LEMMA LevelBoundsDepth ==
    ASSUME NEW h \in Nat, NEW d \in CddsAt[h], NEW k \in Nat, LevelOf(d) + k >= Depth
    PROVE  d \in CddsAt[k]
<1> DEFINE T == {n \in Nat : \A e \in CddsAt[n] : \A m \in Nat : LevelOf(e) + m >= Depth => e \in CddsAt[m]}
<1>1. 0 \in T
  BY CddsEquation
<1>2. ASSUME NEW n \in Nat, n \in T PROVE n + 1 \in T
  <2> SUFFICES ASSUME NEW e \in CddsAt[n + 1], NEW m \in Nat, LevelOf(e) + m >= Depth
               PROVE  e \in CddsAt[m]
    OBVIOUS
  <2>1. /\ e.neg \in {0, 1}
        /\ e = [neg |-> e.neg, node |-> e.node]
        /\ e.node = [level |-> e.node.level, elem |-> e.node.elem]
        /\ LevelOf(e) \in 0..MAXLEVEL
        /\ e.node.elem \in Seq([child : PointersAt(n), bnd : Int])
        /\ IsTerminal(e) \/ NormalNode(e, CddsAt[n])
    BY CddsStepFacts
  <2>2. m - 1 \in Nat /\ (m - 1) + 1 = m
    BY <2>1, Basics
  <2>3. CddsAt[m] = CddsStep(m, CddsAt[m - 1]) /\ NodesAt[m] = NodesStep(m, NodesAt[m - 1])
    BY <2>2, CddsEquation, NodesEquation
  <2>4. CASE IsTerminal(e)
    <3>1. e.node \in NodesAt[m]
      BY <2>2, <2>4, TerminalNode DEF IsTerminal
    <3>2. e \in PointersAt(m)
      BY <3>1, <2>1 DEF PointersAt
    <3> QED BY <3>2, <2>3, <2>4 DEF CddsStep
  <2>5. CASE NormalNode(e, CddsAt[n])
    <3>1. ASSUME NEW i \in 1..Arity(e) PROVE e.node.elem[i].child \in CddsAt[m - 1] /\ e.node.elem[i].bnd \in Int
                                             /\ e.node.elem[i] = [child |-> e.node.elem[i].child, bnd |-> e.node.elem[i].bnd]
      <4>0. DOMAIN e.node.elem = 1..Len(e.node.elem)
        BY <2>1
      <4>1. e.node.elem[i].child \in CddsAt[n] /\ LevelOf(e.node.elem[i].child) > LevelOf(e)
        BY <2>5, <4>0 DEF NormalNode, NormalEdges, Arity
      <4>2. e.node.elem[i] \in [child : PointersAt(n), bnd : Int]
        BY <2>1, SeqElem DEF Arity
      <4>3. LevelOf(e.node.elem[i].child) \in Nat
        BY <4>1, CddsLevel, Basics
      <4>4. LevelOf(e.node.elem[i].child) + (m - 1) >= Depth
        BY <4>1, <4>3, <2>1, Basics
      <4>5. e.node.elem[i].child \in CddsAt[m - 1]
        BY <4>1, <4>4, <1>2, <2>2
      <4> QED BY <4>2, <4>5
    <3>2. e.node.elem \in Seq([child : PointersAt(m - 1), bnd : Int])
      <4> DEFINE B == [child : PointersAt(m - 1), bnd : Int]
      <4>1. \A i \in 1..Len(e.node.elem) : e.node.elem[i] \in B
        <5> SUFFICES ASSUME NEW i \in 1..Len(e.node.elem) PROVE e.node.elem[i] \in B
          OBVIOUS
        <5>1. e.node.elem[i].child \in PointersAt(m - 1)
          BY <3>1, <2>2, CddsArePointers DEF Arity
        <5>2. e.node.elem[i] \in [child : PointersAt(n), bnd : Int]
          BY <2>1, SeqElem
        <5> QED BY <5>1, <5>2, EdgeInto
      <4> HIDE DEF B
      <4>2. e.node.elem \in Seq(B)
        BY <4>1, <2>1, SeqInto
      <4> QED BY <4>2 DEF B
    <3>3. e.node \in NodesAt[m]
      BY <3>2, <2>1, <2>3 DEF NodesStep, PointersAt, LevelOf
    <3>4. e \in PointersAt(m)
      BY <3>3, <2>1 DEF PointersAt
    <3>5. NormalNode(e, CddsAt[m - 1])
      BY <3>1, <2>5 DEF NormalNode
    <3> QED BY <3>4, <3>5, <2>3 DEF CddsStep
  <2> QED BY <2>1, <2>4, <2>5
<1> HIDE DEF T
<1>3. \A n \in Nat : n \in T
  BY <1>1, <1>2, Induction
<1> QED BY <1>3 DEF T

\* A list of edges on level l to diagrams below it.
EdgesOn(l) == Seq([child : Cdds, bnd : BoundsOf(l)])

\* A pointer in normal form is its negation bit and its node, which is its level and its edges.
LEMMA PointerFacts ==
    ASSUME NEW d \in Cdds
    PROVE  /\ d.neg \in {0, 1} /\ d = [neg |-> d.neg, node |-> d.node]
           /\ d.node = [level |-> d.node.level, elem |-> d.node.elem]
           /\ LevelOf(d) \in 0..MAXLEVEL /\ d \in ddNode
<1>1. Depth = MAXLEVEL + 1 /\ MAXLEVEL \in Nat
  BY Basics
<1>2. d \in CddsAt[MAXLEVEL + 1]
  BY <1>1 DEF Cdds
<1>3. d \in ddNode
  BY <1>1, <1>2, CddsArePointers, Basics DEF PointersAt, ddNode
<1> QED BY <1>1, <1>2, <1>3, CddsStepFacts

\* The level of a pointer in normal form is a number, at most that of the terminal.
LEMMA CddLevel == ASSUME NEW d \in Cdds PROVE LevelOf(d) \in Nat /\ LevelOf(d) <= MAXLEVEL /\ MAXLEVEL \in Nat
<1>1. LevelOf(d) \in 0..MAXLEVEL
  BY PointerFacts
<1> QED BY <1>1, Basics

\* The two terminals are different pointers in normal form on the last level.
LEMMA Terminals ==
    /\ cddtrue \in Cdds /\ cddfalse \in Cdds
    /\ IsTerminal(cddtrue) /\ IsTerminal(cddfalse) /\ cddtrue # cddfalse
    /\ LevelOf(cddtrue) = MAXLEVEL /\ LevelOf(cddfalse) = MAXLEVEL
<1>1. Depth = MAXLEVEL + 1 /\ MAXLEVEL \in Nat
  BY Basics
<1>2. \A n \in {0, 1} : [neg |-> n, node |-> Terminal] \in CddsStep(MAXLEVEL + 1, CddsAt[MAXLEVEL])
  BY <1>1, TerminalNode DEF CddsStep, PointersAt, IsTerminal
<1>3. \A n \in {0, 1} : [neg |-> n, node |-> Terminal] \in Cdds
  BY <1>1, <1>2, CddsEquation DEF Cdds
<1> QED BY <1>3 DEF cddtrue, cddfalse, IsTerminal, LevelOf, Terminal

\* A pointer to the terminal is true or false, as its negation bit says.
LEMMA TerminalIs ==
    ASSUME NEW d \in Cdds, IsTerminal(d)
    PROVE  /\ d = cddtrue \/ d = cddfalse
           /\ d.neg = 1 <=> d = cddtrue
           /\ LevelOf(d) = MAXLEVEL
BY PointerFacts DEF IsTerminal, cddtrue, cddfalse, LevelOf, Terminal

\* A pointer to another node is on a level of its own, with edges in normal form.
LEMMA InnerFacts ==
    ASSUME NEW d \in Cdds, ~IsTerminal(d)
    PROVE  /\ LevelOf(d) \in Levels /\ LevelOf(d) < MAXLEVEL
           /\ NormalEdges(LevelOf(d), d.node.elem)
           /\ d.node.elem \in EdgesOn(LevelOf(d))
           /\ Arity(d) \in Nat /\ Arity(d) = Len(d.node.elem)
<1>1. Depth = MAXLEVEL + 1 /\ MAXLEVEL \in Nat
  BY Basics
<1>2. d \in CddsAt[MAXLEVEL + 1]
  BY <1>1 DEF Cdds
<1>3. NormalNode(d, CddsAt[MAXLEVEL]) /\ d.node.elem \in Seq([child : PointersAt(MAXLEVEL), bnd : Int])
  BY <1>1, <1>2, CddsStepFacts
<1>4. CddsAt[MAXLEVEL] \subseteq Cdds
  BY <1>1, CddsGrow DEF Cdds
<1>5. ASSUME NEW k \in 1..Len(d.node.elem)
      PROVE  d.node.elem[k] \in [child : Cdds, bnd : BoundsOf(LevelOf(d))]
  <2>1. d.node.elem[k] \in [child : PointersAt(MAXLEVEL), bnd : Int]
    BY <1>3, SeqElem
  <2>2. d.node.elem[k].child \in Cdds /\ d.node.elem[k].bnd \in BoundsOf(LevelOf(d))
    BY <1>3, <1>4 DEF NormalNode, Arity
  <2> QED BY <2>1, <2>2
<1>6. d.node.elem \in EdgesOn(LevelOf(d))
  <2> DEFINE A == [child : PointersAt(MAXLEVEL), bnd : Int]
             B == [child : Cdds, bnd : BoundsOf(LevelOf(d))]
  <2>1. d.node.elem \in Seq(A) /\ \A k \in 1..Len(d.node.elem) : d.node.elem[k] \in B
    BY <1>3, <1>5
  <2> HIDE DEF A, B
  <2>2. d.node.elem \in Seq(B)
    BY <2>1, SeqInto
  <2> QED BY <2>2 DEF B, EdgesOn
<1>7. LevelOf(d) \in Levels /\ NormalEdges(LevelOf(d), d.node.elem)
  BY <1>3 DEF NormalNode
<1>8. LevelOf(d) < MAXLEVEL
  BY <1>7, LevelRange
<1> QED BY <1>6, <1>7, <1>8, <1>3 DEF Arity

\* Edge lists in normal form have integer bounds and children in normal form.
LEMMA EdgesAreInt == ASSUME NEW l \in Levels, NEW e \in EdgesOn(l)
                     PROVE  /\ e \in EdgeLists
                            /\ Len(e) \in Nat /\ DOMAIN e = 1..Len(e)
                            /\ \A k \in 1..Len(e) : /\ e[k].child \in Cdds /\ e[k].bnd \in BoundsOf(l) /\ e[k].bnd \in Int
                                                    /\ e[k] = Elem(e[k].child, e[k].bnd)
<1> USE DEF EdgesOn
<1>1. ASSUME NEW k \in 1..Len(e)
      PROVE  /\ e[k].child \in Cdds /\ e[k].bnd \in BoundsOf(l) /\ e[k].bnd \in Int
             /\ e[k] = Elem(e[k].child, e[k].bnd) /\ e[k] \in [child : ddNode, bnd : Int]
  <2>1. e[k] \in [child : Cdds, bnd : BoundsOf(l)]
    BY SeqElem
  <2>2. e[k].child \in ddNode /\ e[k].bnd \in Int
    BY <2>1, PointerFacts, BoundsAreInt
  <2> QED BY <2>1, <2>2 DEF Elem
<1>2. e \in EdgeLists
  <2> DEFINE A == [child : Cdds, bnd : BoundsOf(l)]
             B == [child : ddNode, bnd : Int]
  <2>1. e \in Seq(A) /\ \A k \in 1..Len(e) : e[k] \in B
    BY <1>1
  <2> HIDE DEF A, B, EdgesOn
  <2>2. e \in Seq(B)
    BY <2>1, SeqInto
  <2> QED BY <2>2 DEF B, EdgeLists
<1> QED BY <1>1, <1>2

\* What makes a node of normal form.
LEMMA MakeNode ==
    ASSUME NEW l \in Levels, NEW n \in {0, 1}, NEW e \in EdgesOn(l), NormalEdges(l, e)
    PROVE  /\ [neg |-> n, node |-> [level |-> l, elem |-> e]] \in Cdds
           /\ ~IsTerminal([neg |-> n, node |-> [level |-> l, elem |-> e]])
<1> DEFINE d == [neg |-> n, node |-> [level |-> l, elem |-> e]]
<1>1. Depth = MAXLEVEL + 1 /\ MAXLEVEL \in Nat /\ l \in 0..MAXLEVEL /\ l # MAXLEVEL
  BY Basics
<1>2. ASSUME NEW k \in 1..Len(e) PROVE /\ e[k].child \in CddsAt[MAXLEVEL] /\ e[k].bnd \in BoundsOf(l)
                                       /\ e[k] \in [child : PointersAt(MAXLEVEL), bnd : Int]
  <2>1. e[k].child \in CddsAt[Depth] /\ e[k].bnd \in BoundsOf(l) /\ e[k].bnd \in Int
        /\ e[k] = Elem(e[k].child, e[k].bnd)
    BY EdgesAreInt DEF Cdds
  <2>2. LevelOf(e[k].child) > l /\ LevelOf(e[k].child) \in 0..MAXLEVEL
    <3>1. DOMAIN e = 1..Len(e)
      BY EdgesAreInt
    <3> QED BY <2>1, <3>1, PointerFacts DEF NormalEdges, Cdds
  <2>3. LevelOf(e[k].child) + MAXLEVEL >= Depth
    BY <2>2, <1>1
  <2>4. e[k].child \in CddsAt[MAXLEVEL]
    BY <2>1, <2>3, <1>1, LevelBoundsDepth, Basics
  <2>5. e[k].child \in PointersAt(MAXLEVEL)
    BY <2>4, <1>1, CddsArePointers
  <2> QED BY <2>1, <2>4, <2>5 DEF Elem
<1>3. e \in Seq([child : PointersAt(MAXLEVEL), bnd : Int])
  BY <1>2, SeqInto DEF EdgesOn
<1>4. d.node \in NodesStep(MAXLEVEL + 1, NodesAt[MAXLEVEL])
  BY <1>1, <1>3 DEF NodesStep, PointersAt
<1>5. d \in PointersAt(MAXLEVEL + 1)
  BY <1>4, <1>1, NodesEquation DEF PointersAt
<1>6. NormalNode(d, CddsAt[MAXLEVEL])
  BY <1>2 DEF NormalNode, LevelOf, Arity
<1>7. d \in CddsStep(MAXLEVEL + 1, CddsAt[MAXLEVEL])
  BY <1>5, <1>6 DEF CddsStep
<1>8. d \in Cdds
  BY <1>1, <1>7, CddsEquation DEF Cdds
<1>9. ~IsTerminal(d)
  BY <1>1 DEF IsTerminal, Terminal
<1> QED BY <1>8, <1>9

\* Changing the negation bit keeps the node, the level and the normal form, and is its own
\* inverse.
LEMMA Negations ==
    ASSUME NEW d \in Cdds, NEW n \in {0, 1}
    PROVE  /\ NegCond(d, n) = [neg |-> (d.neg + n) % 2, node |-> d.node]
           /\ NegCond(d, n) \in Cdds /\ NegCond(d, n).neg = (d.neg + n) % 2 /\ NegCond(d, n).node = d.node
           /\ LevelOf(NegCond(d, n)) = LevelOf(d)
           /\ NegCond(d, 0) = d
           /\ NegCond(NegCond(d, n), n) = d
           /\ IsTerminal(NegCond(d, n)) <=> IsTerminal(d)
           /\ Rglr(d) = [neg |-> 0, node |-> d.node] /\ Rglr(d) \in Cdds /\ LevelOf(Rglr(d)) = LevelOf(d)
           /\ NegCond(Rglr(d), d.neg) = d /\ NegCond(d, d.neg) = Rglr(d)
<1>1. d.neg \in {0, 1} /\ d = [neg |-> d.neg, node |-> d.node] /\ d.node = [level |-> d.node.level, elem |-> d.node.elem]
  BY PointerFacts
<1>2. ASSUME NEW m \in {0, 1} PROVE [neg |-> m, node |-> d.node] \in Cdds
  <2>1. CASE IsTerminal(d)
    BY <2>1, Terminals DEF IsTerminal, cddtrue, cddfalse
  <2>2. CASE ~IsTerminal(d)
    <3>1. [neg |-> m, node |-> [level |-> d.node.level, elem |-> d.node.elem]] \in Cdds
      BY <2>2, InnerFacts, MakeNode DEF LevelOf
    <3> QED BY <3>1, <1>1
  <2> QED BY <2>1, <2>2
<1>3. \A m \in {0, 1} : NegCond(d, m) = [neg |-> (d.neg + m) % 2, node |-> d.node]
  BY <1>1 DEF NegCond
<1>4. \A m \in {0, 1} : (d.neg + m) % 2 \in {0, 1} /\ (((d.neg + m) % 2) + m) % 2 = d.neg
  BY <1>1
<1>5. NegCond(d, n) \in Cdds
  BY <1>2, <1>3, <1>4
<1>6. NegCond(NegCond(d, n), n) = d
  <2>1. NegCond([neg |-> (d.neg + n) % 2, node |-> d.node], n) = [neg |-> (((d.neg + n) % 2) + n) % 2, node |-> d.node]
    BY DEF NegCond
  <2> QED BY <2>1, <1>3, <1>4, <1>1
<1>7. Rglr(d) = [neg |-> 0, node |-> d.node]
  BY <1>1 DEF Rglr
<1>8. Rglr(d) \in Cdds
  BY <1>2, <1>7
<1>9. NegCond(d, 0) = d
  BY <1>1, <1>3, (d.neg + 0) % 2 = d.neg
<1>10. NegCond(d, d.neg) = Rglr(d)
  BY <1>1, <1>3, <1>7, (d.neg + d.neg) % 2 = 0
<1>11. NegCond(Rglr(d), d.neg) = d
  <2>1. NegCond([neg |-> 0, node |-> d.node], d.neg) = [neg |-> (0 + d.neg) % 2, node |-> d.node]
    BY DEF NegCond
  <2> QED BY <2>1, <1>7, <1>1
<1> QED BY <1>3, <1>5, <1>6, <1>7, <1>8, <1>9, <1>10, <1>11 DEF LevelOf, IsTerminal

\* Induction from the terminals upwards.
LEMMA CddInduction ==
    ASSUME NEW S, \A d \in Cdds : (\A c \in Cdds : LevelOf(c) > LevelOf(d) => c \in S) => d \in S
    PROVE  Cdds \subseteq S
<1> DEFINE T == {n \in Nat : \A d \in Cdds : LevelOf(d) + n >= MAXLEVEL + 1 => d \in S}
<1>0. MAXLEVEL \in Nat /\ \A d \in Cdds : LevelOf(d) \in Nat /\ LevelOf(d) <= MAXLEVEL
  BY CddLevel, Basics
<1>1. 0 \in T
  BY <1>0
<1>2. ASSUME NEW n \in Nat, n \in T PROVE n + 1 \in T
  <2> SUFFICES ASSUME NEW d \in Cdds, LevelOf(d) + (n + 1) >= MAXLEVEL + 1 PROVE d \in S
    OBVIOUS
  <2>1. ASSUME NEW c \in Cdds, LevelOf(c) > LevelOf(d) PROVE c \in S
    <3>1. LevelOf(c) \in Nat /\ LevelOf(d) \in Nat /\ MAXLEVEL \in Nat
      BY <1>0
    <3>2. LevelOf(c) + n >= MAXLEVEL + 1
      BY <3>1, <2>1
    <3> QED BY <1>2, <2>1, <3>2
  <2> QED BY <2>1
<1> HIDE DEF T
<1>3. \A n \in Nat : n \in T
  BY <1>1, <1>2, Induction
<1>4. MAXLEVEL + 1 \in T
  BY <1>0, <1>3
<1> QED BY <1>0, <1>4 DEF T

-----------------------------------------------------------------------------
(* Bounds.                                                                 *)

\* Multiplication by a natural number is monotone.
LEMMA MultMonotone == ASSUME NEW u \in Nat, NEW a \in Int, NEW b \in Int, a <= b PROVE u * a <= u * b
<1> DEFINE T == {n \in Nat : n * a <= n * b}
<1>1. 0 \in T
  OBVIOUS
<1>2. ASSUME NEW n \in Nat, n \in T PROVE n + 1 \in T
  <2>1. (n + 1) * a = n * a + a /\ (n + 1) * b = n * b + b /\ n * a \in Int /\ n * b \in Int
    OBVIOUS
  <2> HIDE DEF T
  <2>2. n * a <= n * b
    BY <1>2 DEF T
  <2>3. (n + 1) * a <= (n + 1) * b
    BY <2>1, <2>2
  <2> QED BY <2>3 DEF T
<1> HIDE DEF T
<1>3. \A n \in Nat : n \in T
  BY <1>1, <1>2, Induction
<1> QED BY <1>3 DEF T

\* A time unit has at least one grid point.
LEMMA UnitIs == Unit \in Nat /\ Unit > 0
BY GridAssumption

\* A raw bound is twice its limit plus its last bit.
LEMMA LimitFacts == ASSUME NEW b \in Int
                    PROVE  /\ Limit(b) \in Int /\ (b % 2) \in {0, 1} /\ b = 2 * Limit(b) + (b % 2)
                           /\ Unit * Limit(b) \in Int
BY UnitIs DEF Limit

\* Raw bounds are ordered by their limits, and by their last bits among equal limits.
LEMMA TwoDigits ==
    ASSUME NEW p \in Int, NEW q \in Int, NEW x \in {0, 1}, NEW y \in {0, 1}, 2 * p + x <= 2 * q + y
    PROVE  p <= q /\ (p = q => x <= y)
OBVIOUS

\* A value below a bound is below every larger one.
LEMMA BelowMonotone ==
    ASSUME NEW d \in Int, NEW a \in Int, NEW b \in Int, a <= b, b <= INF, Below(d, a)
    PROVE  Below(d, b)
<1>1. INF \in Int
  BY Basics
<1>2. CASE a = INF
  BY <1>1, <1>2 DEF Below
<1>3. CASE a # INF
  <2> DEFINE s == Unit * Limit(a)
             t == Unit * Limit(b)
  <2>a. Limit(a) \in Int /\ (a % 2) \in {0, 1} /\ a = 2 * Limit(a) + (a % 2)
    BY LimitFacts
  <2>b. Limit(b) \in Int /\ (b % 2) \in {0, 1} /\ b = 2 * Limit(b) + (b % 2)
    BY LimitFacts
  <2>1. Limit(a) <= Limit(b) /\ (Limit(a) = Limit(b) => a % 2 <= b % 2)
    <3>1. 2 * Limit(a) + (a % 2) <= 2 * Limit(b) + (b % 2)
      BY <2>a, <2>b
    <3>2. Limit(a) \in Int /\ Limit(b) \in Int /\ (a % 2) \in {0, 1} /\ (b % 2) \in {0, 1}
      BY <2>a, <2>b
    <3> DEFINE x == a % 2
               y == b % 2
    <3> HIDE DEF x, y
    <3>3. Limit(a) <= Limit(b) /\ (Limit(a) = Limit(b) => x <= y)
      BY <3>1, <3>2, TwoDigits DEF x, y
    <3> QED BY <3>3 DEF x, y
  <2>2. s \in Int /\ t \in Int /\ s <= t
    BY <2>1, LimitFacts, MultMonotone, UnitIs
  <2>3. CASE Limit(a) = Limit(b)
    <3>1. a % 2 = 1 => b % 2 = 1
      BY <2>1, <2>3, LimitFacts
    <3> QED BY <3>1, <2>3, <1>3 DEF Below
  <2>4. CASE Limit(a) < Limit(b)
    <3>1. Limit(a) + 1 <= Limit(b) /\ Limit(a) + 1 \in Int
      BY <2>4, <2>a, <2>b
    <3>2. Unit * (Limit(a) + 1) <= t
      BY <3>1, LimitFacts, MultMonotone, UnitIs
    <3>3. Unit * (Limit(a) + 1) = s + Unit
      BY LimitFacts, UnitIs
    <3>4. s < t
      BY <3>2, <3>3, <2>2, UnitIs
    <3>5. d <= s
      BY <1>3, <2>2 DEF Below
    <3>6. d < t
      BY <3>4, <3>5, <2>2
    <3> QED BY <3>6 DEF Below
  <2> QED BY <2>1, <2>3, <2>4, <2>a, <2>b
<1> QED BY <1>2, <1>3

\* A difference above a bound is one that is not below it.
LEMMA AboveIs == ASSUME NEW d \in Int, NEW b \in Int, b # -INF PROVE Above(d, b) <=> ~Below(d, b)
BY DEF Above

\* Bounds of a list of edges: they increase and end at INF.
BoundList(bs) == /\ bs \in Seq(Int) /\ Len(bs) >= 1 /\ bs[Len(bs)] = INF
                 /\ \A k \in 1..(Len(bs) - 1) : bs[k] < bs[k + 1]
\* Index k is that of the interval that d is in.
Covers(bs, d, k) == k \in 1..Len(bs) /\ Below(d, bs[k]) /\ (k = 1 \/ ~Below(d, bs[k - 1]))

\* Edge bounds increase strictly.
LEMMA BoundsAscend ==
    ASSUME NEW bs, BoundList(bs), NEW i \in 1..Len(bs), NEW j \in 1..Len(bs), i < j
    PROVE  bs[i] < bs[j]
<1> DEFINE T == {n \in Nat : i + 1 + n <= Len(bs) => bs[i] < bs[i + 1 + n]}
<1>0. Len(bs) \in Nat /\ \A k \in 1..Len(bs) : bs[k] \in Int
  BY DEF BoundList
<1>1. 0 \in T
  BY <1>0 DEF BoundList
<1>2. ASSUME NEW n \in Nat, n \in T PROVE n + 1 \in T
  <2> SUFFICES ASSUME i + 1 + (n + 1) <= Len(bs) PROVE bs[i] < bs[i + 1 + (n + 1)]
    OBVIOUS
  <2> DEFINE m == i + 1 + n
  <2>1. m \in 1..(Len(bs) - 1) /\ m + 1 = i + 1 + (n + 1) /\ m \in 1..Len(bs) /\ m + 1 \in 1..Len(bs)
    BY <1>0
  <2>2. bs[i] < bs[m]
    BY <1>2, <2>1, <1>0
  <2>3. bs[m] < bs[m + 1]
    BY <2>1 DEF BoundList
  <2>4. bs[i] < bs[m + 1]
    BY <2>1, <2>2, <2>3, <1>0
  <2> QED BY <2>1, <2>4
<1> HIDE DEF T
<1>3. \A n \in Nat : n \in T
  BY <1>1, <1>2, Induction
<1>4. j - i - 1 \in T /\ i + 1 + (j - i - 1) = j
  BY <1>0, <1>3
<1> QED BY <1>0, <1>4 DEF T

\* Only the last edge has the infinite bound.
LEMMA BoundsBelowInf ==
    ASSUME NEW bs, BoundList(bs), NEW i \in 1..Len(bs)
    PROVE  bs[i] \in Int /\ bs[i] <= INF /\ (i < Len(bs) => bs[i] < INF)
<1>1. Len(bs) \in Nat /\ \A k \in 1..Len(bs) : bs[k] \in Int
  BY DEF BoundList
<1>2. i < Len(bs) => bs[i] < INF
  BY <1>1, BoundsAscend DEF BoundList
<1> QED BY <1>1, <1>2, Basics DEF BoundList

\* Every difference is covered by some edge: the intervals of a node leave no gap.
LEMMA CoverExists ==
    ASSUME NEW bs, BoundList(bs), NEW d \in Int
    PROVE  \E k : Covers(bs, d, k)
<1> DEFINE T == {k \in 1..Len(bs) : Below(d, bs[k])}
<1>1. Len(bs) \in Nat /\ Len(bs) \in T
  BY DEF BoundList, Below
<1>2. T \in SUBSET Nat /\ T # {}
  BY <1>1
<1> HIDE DEF T
<1>3. PICK k \in T : \A y \in T : k <= y
  BY <1>2, LeastElement
<1>4. k = 1 \/ ~Below(d, bs[k - 1])
  BY <1>1, <1>3 DEF T
<1> QED BY <1>3, <1>4 DEF T, Covers

\* The edge that covers a difference is the first whose bound it satisfies.
LEMMA CoverIsMin ==
    ASSUME NEW bs, BoundList(bs), NEW d \in Int, NEW k, Covers(bs, d, k)
    PROVE  /\ k = Min({i \in 1..Len(bs) : Below(d, bs[i])})
           /\ \A i \in 1..Len(bs) : Below(d, bs[i]) <=> k <= i
<1>1. Len(bs) \in Nat /\ k \in 1..Len(bs) /\ k \in Nat
  BY DEF BoundList, Covers
<1>2. ASSUME NEW i \in 1..Len(bs) PROVE Below(d, bs[i]) <=> k <= i
  <2>1. bs[i] \in Int /\ bs[i] <= INF /\ bs[k] \in Int
    BY <1>1, BoundsBelowInf
  <2>2. CASE k <= i
    <3>1. bs[k] <= bs[i]
      BY <2>2, <2>1, <1>1, BoundsAscend
    <3> QED BY <3>1, <2>1, <2>2, BelowMonotone DEF Covers
  <2>3. CASE i < k
    <3>1. k - 1 \in 1..Len(bs) /\ i <= k - 1 /\ k # 1
      BY <2>3, <1>1
    <3>2. bs[i] <= bs[k - 1] /\ bs[k - 1] \in Int /\ bs[k - 1] <= INF
      BY <3>1, <2>1, BoundsAscend, BoundsBelowInf
    <3>3. ~Below(d, bs[i])
      BY <3>1, <3>2, <2>1, BelowMonotone DEF Covers
    <3> QED BY <3>3, <2>3, <1>1
  <2> QED BY <2>2, <2>3, <1>1
<1> DEFINE S == {i \in 1..Len(bs) : Below(d, bs[i])}
<1>3. k \in S /\ \A y \in S : k <= y
  BY <1>1, <1>2
<1>4. \A x \in S : (\A y \in S : x <= y) => x = k
  BY <1>3, <1>1
<1> HIDE DEF S
<1>5. Min(S) = k
  BY <1>3, <1>4 DEF Min
<1> QED BY <1>2, <1>5 DEF S

\* A difference is covered by one edge only: the intervals of a node do not overlap.
LEMMA CoverUnique ==
    ASSUME NEW bs, BoundList(bs), NEW d \in Int, NEW k, NEW m, Covers(bs, d, k), Covers(bs, d, m)
    PROVE  k = m
<1>1. k \in 1..Len(bs) /\ m \in 1..Len(bs) /\ Len(bs) \in Nat
  BY DEF Covers, BoundList
<1>2. \A i \in 1..Len(bs) : Below(d, bs[i]) <=> k <= i
  BY CoverIsMin
<1>3. \A i \in 1..Len(bs) : Below(d, bs[i]) <=> m <= i
  BY CoverIsMin
<1> QED BY <1>1, <1>2, <1>3

-----------------------------------------------------------------------------
(* What a diagram says of a valuation.                                     *)

\* Valuations in which Booleans are 0 or 1.
Proper == {v \in Vals : \A l \in BddLevels : v[l] \in {0, 1}}

LeafStep(h, below) ==
    [t \in ddNode \X Vals |->
        IF IsTerminal(t[1]) THEN t[1].neg ELSE below[<<Child(t[1], EdgeOf(t[1], t[2])), t[2]>>]]
LeafRec == INSTANCE Recursion WITH Base <- <<>>, Step <- LeafStep
Leaf(d, v) == LeafAt[Depth][<<d, v>>]

\* The leaf a valuation reaches from a node is the one it reaches from the child it selects.
LEMMA LeafEquation ==
    ASSUME NEW h \in Nat, NEW d \in ddNode, NEW v \in Vals
    PROVE  LeafAt[h + 1][<<d, v>>] =
               IF IsTerminal(d) THEN d.neg ELSE LeafAt[h][<<Child(d, EdgeOf(d, v)), v>>]
<1>1. LeafAt = LeafRec!F
  BY DEF LeafAt, LeafRec!F, LeafStep
<1> HIDE DEF LeafAt
<1>2. LeafAt[h + 1] = LeafStep(h + 1, LeafAt[h])
  BY <1>1, LeafRec!Def
<1> QED BY <1>2 DEF LeafStep

\* The bounds of a list of edges.
BoundsIn(e) == [k \in 1..Len(e) |-> e[k].bnd]
\* A list of edges to which an operand on a CDD level comes down.
CddList(l, e) == /\ e \in EdgesOn(l) /\ BoundList(BoundsIn(e)) /\ Len(BoundsIn(e)) = Len(e)
                 /\ \A k \in 1..Len(e) : LevelOf(e[k].child) > l

\* The bounds of an edge list, edge by edge.
LEMMA BoundsInIs == ASSUME NEW l \in Levels, NEW e \in EdgesOn(l)
                    PROVE  /\ BoundsIn(e) \in Seq(Int) /\ Len(BoundsIn(e)) = Len(e) /\ Len(e) \in Nat
                           /\ \A k \in 1..Len(e) : BoundsIn(e)[k] = e[k].bnd
<1>1. Len(e) \in Nat /\ \A k \in 1..Len(e) : e[k].bnd \in Int
  BY EdgesAreInt
<1> QED BY <1>1, SeqDef DEF BoundsIn

\* The edges of a clock-difference node in normal form are a list that covers every difference.
LEMMA CddNodeList ==
    ASSUME NEW l \in Levels, IsCdd(l), NEW e \in EdgesOn(l), NormalEdges(l, e)
    PROVE  CddList(l, e)
<1>1. /\ BoundsIn(e) \in Seq(Int) /\ Len(BoundsIn(e)) = Len(e) /\ Len(e) \in Nat
      /\ \A k \in 1..Len(e) : BoundsIn(e)[k] = e[k].bnd
  BY BoundsInIs
<1>2. BoundList(BoundsIn(e))
  BY <1>1 DEF BoundList, NormalEdges
<1>3. DOMAIN e = 1..Len(e)
  BY EdgesAreInt
<1> QED BY <1>1, <1>2, <1>3 DEF CddList, NormalEdges

\* A clock-difference node has at least two edges, and its first edge is regular.
LEMMA InnerCdd ==
    ASSUME NEW d \in Cdds, ~IsTerminal(d), IsCdd(LevelOf(d))
    PROVE  CddList(LevelOf(d), d.node.elem) /\ Arity(d) >= 2 /\ d.node.elem[1].child.neg = 0
BY InnerFacts, CddNodeList DEF NormalEdges

\* A Boolean node has two different branches on later levels, and its low branch is regular.
LEMMA InnerBdd ==
    ASSUME NEW d \in Cdds, ~IsTerminal(d), ~IsCdd(LevelOf(d))
    PROVE  /\ LevelOf(d) \in BddLevels /\ Arity(d) = 2
           /\ d.node.elem = <<Elem(d.node.elem[1].child, 0), Elem(d.node.elem[2].child, 1)>>
           /\ d.node.elem[1].child \in Cdds /\ d.node.elem[2].child \in Cdds
           /\ LevelOf(d.node.elem[1].child) > LevelOf(d) /\ LevelOf(d.node.elem[2].child) > LevelOf(d)
           /\ d.node.elem[1].child.neg = 0
           /\ d.node.elem[1].child # d.node.elem[2].child
<1> DEFINE e == d.node.elem
           l == LevelOf(d)
<1>1. l \in Levels /\ e \in EdgesOn(l) /\ NormalEdges(l, e) /\ Arity(d) = Len(e)
  BY InnerFacts
<1>2. Len(e) = 2 /\ l \in BddLevels
  BY <1>1 DEF NormalEdges, IsCdd, BddLevels
<1>3. DOMAIN e = 1..2 /\ 1 \in 1..Len(e) /\ 2 \in 1..Len(e)
  BY <1>1, <1>2, EdgesAreInt
<1>4. /\ e[1].child \in Cdds /\ e[1].bnd \in BoundsOf(l) /\ e[1].bnd \in Int /\ e[1] = Elem(e[1].child, e[1].bnd)
  BY <1>1, <1>3, EdgesAreInt
<1>5. /\ e[2].child \in Cdds /\ e[2].bnd \in BoundsOf(l) /\ e[2].bnd \in Int /\ e[2] = Elem(e[2].child, e[2].bnd)
  BY <1>1, <1>3, EdgesAreInt
<1>6. e[1].bnd < e[2].bnd /\ e[1].child # e[2].child /\ e[1].child.neg = 0
  BY <1>1, <1>2 DEF NormalEdges
<1>7. e[1].bnd = 0 /\ e[2].bnd = 1
  BY <1>4, <1>5, <1>6, <1>2 DEF BoundsOf, BddLevels, IsCdd
<1>8. LevelOf(e[1].child) > l /\ LevelOf(e[2].child) > l
  BY <1>1, <1>3 DEF NormalEdges
<1>9. e = <<Elem(e[1].child, 0), Elem(e[2].child, 1)>>
  <2>1. e \in Seq([child : Cdds, bnd : BoundsOf(l)])
    BY <1>1 DEF EdgesOn
  <2>2. e = <<e[1], e[2]>>
    BY <2>1, <1>2
  <2> QED BY <2>2, <1>4, <1>5, <1>7
<1> QED BY <1>1, <1>2, <1>4, <1>5, <1>6, <1>8, <1>9

\* The edge that a valuation takes, and what is below it.
LEMMA EdgeTaken ==
    ASSUME NEW d \in Cdds, ~IsTerminal(d), NEW v \in Proper
    PROVE  /\ EdgeOf(d, v) \in 1..Arity(d)
           /\ Child(d, EdgeOf(d, v)) \in Cdds /\ LevelOf(Child(d, EdgeOf(d, v))) > LevelOf(d)
           /\ IsCdd(LevelOf(d)) => Covers(BoundsIn(d.node.elem), v[LevelOf(d)], EdgeOf(d, v))
<1> DEFINE e == d.node.elem
           l == LevelOf(d)
           k == EdgeOf(d, v)
<1>1. d.neg \in {0, 1} /\ l \in Levels /\ Arity(d) = Len(e) /\ v \in Vals /\ v[l] \in Int
  BY PointerFacts, InnerFacts DEF Proper, Vals
<1>2. CASE IsCdd(l)
  <2>1. CddList(l, e)
    BY <1>2, InnerCdd
  <2> DEFINE bs == BoundsIn(e)
  <2>2. PICK m : Covers(bs, v[l], m)
    BY <1>1, <2>1, CoverExists DEF CddList
  <2>3. m = Min({i \in 1..Len(bs) : Below(v[l], bs[i])})
    BY <1>1, <2>1, <2>2, CoverIsMin DEF CddList
  <2>4. Len(bs) = Arity(d) /\ \A i \in 1..Len(bs) : bs[i] = Upper(d, i)
    BY <2>1, <1>1 DEF CddList, BoundsIn, Upper
  <2>5. m = k
    <3> HIDE DEF bs
    <3>1. {i \in 1..Len(bs) : Below(v[l], bs[i])} = {i \in 1..Arity(d) : Below(v[l], Upper(d, i))}
      BY <2>4
    <3> QED BY <2>3, <3>1, <1>2 DEF EdgeOf
  <2>6. k \in 1..Len(e)
    BY <2>2, <2>4, <2>5, <1>1 DEF Covers
  <2>7. e[k].child \in Cdds /\ LevelOf(e[k].child) > l
    BY <2>1, <2>6, <1>1, EdgesAreInt DEF CddList
  <2>8. Child(d, k) \in Cdds /\ LevelOf(Child(d, k)) > l
    BY <2>7, <1>1, Negations DEF Child
  <2> QED BY <1>1, <2>2, <2>5, <2>6, <2>8
<1>3. CASE ~IsCdd(l)
  <2>1. /\ l \in BddLevels /\ Arity(d) = 2 /\ e[1].child \in Cdds /\ e[2].child \in Cdds
        /\ LevelOf(e[1].child) > l /\ LevelOf(e[2].child) > l
    BY <1>3, InnerBdd
  <2>2. v[l] \in {0, 1} /\ k = v[l] + 1
    BY <1>3, <2>1 DEF Proper, EdgeOf
  <2>3. k \in {1, 2}
    BY <2>2
  <2>4. e[k].child \in Cdds /\ LevelOf(e[k].child) > l
    BY <2>1, <2>3
  <2>5. Child(d, k) \in Cdds /\ LevelOf(Child(d, k)) > l
    BY <2>4, <1>1, Negations DEF Child
  <2> QED BY <2>1, <2>3, <2>5, <1>3
<1> QED BY <1>2, <1>3

\* A path has an end, which does not depend on the number of steps allowed.
LEMMA LeafEnough ==
    ASSUME NEW d \in Cdds, NEW v \in Proper, NEW h \in Nat, LevelOf(d) + h >= Depth
    PROVE  LeafAt[h][<<d, v>>] = Leaf(d, v) /\ Leaf(d, v) \in {0, 1}
<1> DEFINE P(c) == \A m, n \in Nat : LevelOf(c) + m >= Depth /\ LevelOf(c) + n >= Depth =>
                      LeafAt[m][<<c, v>>] = LeafAt[n][<<c, v>>] /\ LeafAt[m][<<c, v>>] \in {0, 1}
           S == {c \in Cdds : P(c)}
<1>0. v \in Vals
  BY DEF Proper
<1>1. ASSUME NEW c \in Cdds, \A b \in Cdds : LevelOf(b) > LevelOf(c) => b \in S
      PROVE  c \in S
  <2> SUFFICES ASSUME NEW m \in Nat, NEW n \in Nat, LevelOf(c) + m >= Depth, LevelOf(c) + n >= Depth
               PROVE  LeafAt[m][<<c, v>>] = LeafAt[n][<<c, v>>] /\ LeafAt[m][<<c, v>>] \in {0, 1}
    OBVIOUS
  <2>1. LevelOf(c) \in Nat /\ LevelOf(c) <= MAXLEVEL /\ MAXLEVEL \in Nat /\ Depth = MAXLEVEL + 1 /\ Depth \in Nat
    BY CddLevel, Basics
  <2>2. m - 1 \in Nat /\ (m - 1) + 1 = m /\ n - 1 \in Nat /\ (n - 1) + 1 = n
    BY <2>1
  <2> DEFINE b == Child(c, EdgeOf(c, v))
  <2>3. c \in ddNode /\ c.neg \in {0, 1}
    BY PointerFacts
  <2>4. LeafAt[m][<<c, v>>] = IF IsTerminal(c) THEN c.neg ELSE LeafAt[m - 1][<<b, v>>]
    <3>1. LeafAt[(m - 1) + 1][<<c, v>>] = IF IsTerminal(c) THEN c.neg ELSE LeafAt[m - 1][<<b, v>>]
      BY <2>2, <2>3, <1>0, LeafEquation
    <3> QED BY <3>1, <2>2
  <2>5. LeafAt[n][<<c, v>>] = IF IsTerminal(c) THEN c.neg ELSE LeafAt[n - 1][<<b, v>>]
    <3>1. LeafAt[(n - 1) + 1][<<c, v>>] = IF IsTerminal(c) THEN c.neg ELSE LeafAt[n - 1][<<b, v>>]
      BY <2>2, <2>3, <1>0, LeafEquation
    <3> QED BY <3>1, <2>2
  <2>6. CASE IsTerminal(c)
    BY <2>3, <2>4, <2>5, <2>6
  <2>7. CASE ~IsTerminal(c)
    <3>1. b \in Cdds /\ LevelOf(b) > LevelOf(c)
      BY <2>7, EdgeTaken
    <3>2. LevelOf(b) \in Nat
      BY <3>1, CddLevel
    <3>3. LevelOf(b) + (m - 1) >= Depth /\ LevelOf(b) + (n - 1) >= Depth
      BY <3>1, <3>2, <2>1
    <3>4. P(b)
      BY <3>1, <1>1
    <3> HIDE DEF b
    <3>5. LeafAt[m - 1][<<b, v>>] = LeafAt[n - 1][<<b, v>>] /\ LeafAt[m - 1][<<b, v>>] \in {0, 1}
      BY <3>3, <3>4, <2>2
    <3> QED BY <2>4, <2>5, <2>7, <3>5
  <2> QED BY <2>6, <2>7
<1> HIDE DEF P
<1>2. \A c \in Cdds : (\A b \in Cdds : LevelOf(b) > LevelOf(c) => b \in S) => c \in S
  BY <1>1
<1> HIDE DEF S
<1>3. Cdds \subseteq S
  BY <1>2, CddInduction
<1>4. P(d)
  BY <1>3 DEF S
<1>5. Depth \in Nat /\ LevelOf(d) + Depth >= Depth
  BY Basics, CddLevel
<1> QED BY <1>4, <1>5 DEF P, Leaf

\* The path of a valuation.
LEMMA LeafBelow ==
    ASSUME NEW d \in Cdds, NEW v \in Proper
    PROVE  /\ IsTerminal(d) => Leaf(d, v) = d.neg
           /\ ~IsTerminal(d) => Leaf(d, v) = Leaf(Child(d, EdgeOf(d, v)), v)
           /\ Leaf(d, v) \in {0, 1}
           /\ Holds(d, v) <=> Leaf(d, v) = 1
<1>1. v \in Vals /\ d \in ddNode
  BY PointerFacts DEF Proper
<1>2. Depth = MAXLEVEL + 1 /\ MAXLEVEL \in Nat /\ LevelOf(d) \in Nat /\ Depth \in Nat
  BY Basics, CddLevel
<1>3. Leaf(d, v) = IF IsTerminal(d) THEN d.neg ELSE LeafAt[MAXLEVEL][<<Child(d, EdgeOf(d, v)), v>>]
  BY <1>1, <1>2, LeafEquation DEF Leaf
<1>4. ASSUME ~IsTerminal(d)
      PROVE  LeafAt[MAXLEVEL][<<Child(d, EdgeOf(d, v)), v>>] = Leaf(Child(d, EdgeOf(d, v)), v)
  <2> DEFINE b == Child(d, EdgeOf(d, v))
  <2>1. b \in Cdds /\ LevelOf(b) > LevelOf(d)
    BY <1>4, EdgeTaken
  <2>2. LevelOf(b) + MAXLEVEL >= Depth
    BY <2>1, <1>2, CddLevel
  <2> HIDE DEF b
  <2>3. LeafAt[MAXLEVEL][<<b, v>>] = Leaf(b, v)
    BY <2>1, <2>2, <1>2, LeafEnough
  <2> QED BY <2>3 DEF b
<1>5. Leaf(d, v) \in {0, 1}
  <2>1. LevelOf(d) + Depth >= Depth
    BY <1>2
  <2> QED BY <2>1, <1>2, LeafEnough
<1> QED BY <1>3, <1>4, <1>5 DEF Holds, Leaf

\* Adding bits modulo two is associative.
LEMMA Parity == ASSUME NEW x \in {0, 1}, NEW y \in {0, 1}, NEW z \in {0, 1}
                PROVE  (((x + y) % 2) + z) % 2 = (x + ((y + z) % 2)) % 2
<1>1. CASE x = 0
  BY <1>1
<1>2. CASE x = 1
  BY <1>2
<1> QED BY <1>1, <1>2

\* A negated diagram has the same edges, to negated diagrams.
LEMMA EdgesNegated ==
    ASSUME NEW d \in Cdds, ~IsTerminal(d), NEW n \in {0, 1}, NEW v \in Proper
    PROVE  /\ EdgeOf(NegCond(d, n), v) = EdgeOf(d, v)
           /\ \A k \in 1..Arity(d) : Child(NegCond(d, n), k) = NegCond(Child(d, k), n)
<1>1. d.neg \in {0, 1} /\ NegCond(d, n) = [neg |-> (d.neg + n) % 2, node |-> d.node]
  <2>1. d.neg \in {0, 1}
    BY PointerFacts
  <2>2. NegCond(d, n) = [neg |-> (d.neg + n) % 2, node |-> d.node]
    BY Negations
  <2> QED BY <2>1, <2>2
<1>2. EdgeOf(NegCond(d, n), v) = EdgeOf(d, v)
  BY <1>1 DEF EdgeOf, LevelOf, Arity, Upper
<1>3. ASSUME NEW k \in 1..Arity(d) PROVE Child(NegCond(d, n), k) = NegCond(Child(d, k), n)
  <2> DEFINE c == d.node.elem[k].child
  <2>1. c \in Cdds
    BY InnerFacts, EdgesAreInt
  <2>2. c.neg \in {0, 1} /\ (d.neg + n) % 2 \in {0, 1}
    <3>1. (d.neg + n) % 2 \in {0, 1}
      BY <1>1
    <3>2. c.neg \in {0, 1}
      <4> HIDE DEF c
      <4> QED BY <2>1, PointerFacts
    <3> QED BY <3>1, <3>2
  <2>3. Child(NegCond(d, n), k) = [neg |-> (c.neg + ((d.neg + n) % 2)) % 2, node |-> c.node]
    <3>1. Child(NegCond(d, n), k) = NegCond(c, (d.neg + n) % 2)
      BY <1>1 DEF Child
    <3> HIDE DEF c
    <3> QED BY <3>1, <2>1, <2>2, Negations
  <2>4. Child(d, k) = NegCond(c, d.neg)
    BY DEF Child
  <2> HIDE DEF c
  <2>5. Child(d, k) \in Cdds /\ Child(d, k).neg = (c.neg + d.neg) % 2 /\ Child(d, k).node = c.node
    BY <2>1, <2>4, <1>1, Negations
  <2>6. NegCond(Child(d, k), n) = [neg |-> (((c.neg + d.neg) % 2) + n) % 2, node |-> c.node]
    BY <2>5, Negations
  <2>7. (((c.neg + d.neg) % 2) + n) % 2 = (c.neg + ((d.neg + n) % 2)) % 2
    <3> DEFINE x == c.neg
               y == d.neg
    <3> HIDE DEF x, y
    <3>1. x \in {0, 1} /\ y \in {0, 1}
      BY <2>2, <1>1 DEF x, y
    <3>2. (((x + y) % 2) + n) % 2 = (x + ((y + n) % 2)) % 2
      BY <3>1, Parity
    <3> QED BY <3>2 DEF x, y
  <2> QED BY <2>3, <2>6, <2>7
<1> QED BY <1>2, <1>3

\* The negation bit of a pointer is added to every leaf.
LEMMA LeafNegated ==
    ASSUME NEW d \in Cdds, NEW v \in Proper, NEW n \in {0, 1}
    PROVE  Leaf(NegCond(d, n), v) = (Leaf(d, v) + n) % 2
<1> DEFINE P(c) == Leaf(NegCond(c, n), v) = (Leaf(c, v) + n) % 2
           S == {c \in Cdds : P(c)}
<1>1. ASSUME NEW c \in Cdds, \A b \in Cdds : LevelOf(b) > LevelOf(c) => b \in S
      PROVE  c \in S
  <2>1. NegCond(c, n) \in Cdds /\ (IsTerminal(NegCond(c, n)) <=> IsTerminal(c)) /\ NegCond(c, n).neg = (c.neg + n) % 2
    BY Negations
  <2>2. CASE IsTerminal(c)
    <3>1. Leaf(NegCond(c, n), v) = (c.neg + n) % 2 /\ Leaf(c, v) = c.neg
      BY <2>1, <2>2, LeafBelow
    <3> QED BY <3>1
  <2>3. CASE ~IsTerminal(c)
    <3> DEFINE b == Child(c, EdgeOf(c, v))
    <3>1. b \in Cdds /\ LevelOf(b) > LevelOf(c) /\ EdgeOf(c, v) \in 1..Arity(c)
      BY <2>3, EdgeTaken
    <3>2. P(b)
      BY <3>1, <1>1
    <3>3. Leaf(c, v) = Leaf(b, v)
      BY <2>3, LeafBelow
    <3>4. Leaf(NegCond(c, n), v) = Leaf(Child(NegCond(c, n), EdgeOf(NegCond(c, n), v)), v)
      BY <2>1, <2>3, LeafBelow
    <3>5. Child(NegCond(c, n), EdgeOf(NegCond(c, n), v)) = NegCond(b, n)
      BY <2>3, <3>1, EdgesNegated
    <3> HIDE DEF b
    <3>6. P(c)
      BY <3>2, <3>3, <3>4, <3>5
    <3> QED BY <3>6
  <2> QED BY <2>2, <2>3
<1> HIDE DEF S, P
<1>2. \A c \in Cdds : (\A b \in Cdds : LevelOf(b) > LevelOf(c) => b \in S) => c \in S
  BY <1>1
<1>3. Cdds \subseteq S
  BY <1>2, CddInduction
<1> QED BY <1>3 DEF S, P

\* What is below a level does not depend on the levels above.
LEMMA LeafDepends ==
    ASSUME NEW d \in Cdds, NEW v \in Proper, NEW w \in Proper,
           \A l \in Levels : l >= LevelOf(d) => v[l] = w[l]
    PROVE  Leaf(d, v) = Leaf(d, w)
<1> DEFINE P(c) == (\A l \in Levels : l >= LevelOf(c) => v[l] = w[l]) => Leaf(c, v) = Leaf(c, w)
           S == {c \in Cdds : P(c)}
<1>1. ASSUME NEW c \in Cdds, \A b \in Cdds : LevelOf(b) > LevelOf(c) => b \in S,
             \A l \in Levels : l >= LevelOf(c) => v[l] = w[l]
      PROVE  Leaf(c, v) = Leaf(c, w)
  <2>1. CASE IsTerminal(c)
    BY <2>1, LeafBelow
  <2>2. CASE ~IsTerminal(c)
    <3> DEFINE b == Child(c, EdgeOf(c, v))
    <3>0. LevelOf(c) \in Levels /\ LevelOf(c) \in Nat
      BY <2>2, InnerFacts, CddLevel
    <3>1. b \in Cdds /\ LevelOf(b) > LevelOf(c)
      BY <2>2, EdgeTaken
    <3>2. v[LevelOf(c)] = w[LevelOf(c)]
      BY <1>1, <3>0
    <3>3. EdgeOf(c, w) = EdgeOf(c, v)
      BY <3>2 DEF EdgeOf
    <3>4. Leaf(c, v) = Leaf(b, v) /\ Leaf(c, w) = Leaf(b, w)
      BY <2>2, <3>3, LeafBelow
    <3> HIDE DEF b
    <3>5. P(b)
      BY <1>1, <3>1
    <3>6. \A l \in Levels : l >= LevelOf(b) => l >= LevelOf(c)
      BY <3>0, <3>1, LevelRange, CddLevel
    <3> QED BY <3>4, <3>5, <3>6, <1>1
  <2> QED BY <2>1, <2>2
<1>2. \A c \in Cdds : (\A b \in Cdds : LevelOf(b) > LevelOf(c) => b \in S) => c \in S
  BY <1>1
<1> HIDE DEF S, P
<1>3. Cdds \subseteq S
  BY <1>2, CddInduction
<1> QED BY <1>3 DEF S, P

\* An operand below the level is an edge list of its own: one edge up to INF.
LEMMA SingleEdge ==
    ASSUME NEW l \in Levels, NEW d \in Cdds, LevelOf(d) > l
    PROVE  CddList(l, <<Elem(d, INF)>>) \/ ~IsCdd(l)
<1> SUFFICES ASSUME IsCdd(l) PROVE CddList(l, <<Elem(d, INF)>>)
  OBVIOUS
<1> DEFINE e == <<Elem(d, INF)>>
<1>1. Elem(d, INF) \in [child : Cdds, bnd : BoundsOf(l)] /\ INF \in Int
  BY Basics DEF Elem, BoundsOf
<1>2. e \in EdgesOn(l) /\ Len(e) = 1 /\ e[1] = Elem(d, INF)
  BY <1>1 DEF EdgesOn
<1>3. BoundsIn(e) \in Seq(Int) /\ Len(BoundsIn(e)) = 1 /\ BoundsIn(e)[1] = INF
  BY <1>1, <1>2, BoundsInIs DEF Elem
<1> HIDE DEF e
<1>4. BoundList(BoundsIn(e))
  BY <1>3 DEF BoundList
<1>5. CddList(l, e)
  BY <1>2, <1>3, <1>4 DEF CddList, Elem
<1> QED BY <1>5 DEF e

\* The edges of an operand on a CDD level that is not below it.
LEMMA EdgesAtCdd ==
    ASSUME NEW d \in Cdds, NEW l \in Levels, IsCdd(l), l <= LevelOf(d)
    PROVE  /\ CddList(l, EdgesAt(d, l))
           /\ \A k \in 1..Len(EdgesAt(d, l)) :
                /\ NegCond(EdgesAt(d, l)[k].child, d.neg) \in Cdds
                /\ LevelOf(NegCond(EdgesAt(d, l)[k].child, d.neg)) > l
           /\ \A v \in Proper, k \in 1..Len(EdgesAt(d, l)) : Covers(BoundsIn(EdgesAt(d, l)), v[l], k) =>
                Leaf(d, v) = Leaf(NegCond(EdgesAt(d, l)[k].child, d.neg), v)
<1>0. d.neg \in {0, 1} /\ LevelOf(d) \in Nat /\ l \in Nat /\ l < MAXLEVEL
  BY PointerFacts, CddLevel, LevelRange
<1> DEFINE e == EdgesAt(d, l)
<1>1. CASE LevelOf(d) = l
  <2>1. ~IsTerminal(d) /\ e = d.node.elem
    BY <1>0, <1>1, TerminalIs DEF EdgesAt
  <2>2. CddList(l, e)
    BY <1>1, <2>1, InnerCdd
  <2>3. ASSUME NEW k \in 1..Len(e)
        PROVE  NegCond(e[k].child, d.neg) \in Cdds /\ LevelOf(NegCond(e[k].child, d.neg)) > l
    <3>1. e[k].child \in Cdds /\ LevelOf(e[k].child) > l
      BY <2>2, EdgesAreInt DEF CddList
    <3> QED BY <3>1, <1>0, Negations
  <2>4. ASSUME NEW v \in Proper, NEW k \in 1..Len(e), Covers(BoundsIn(e), v[l], k)
        PROVE  Leaf(d, v) = Leaf(NegCond(e[k].child, d.neg), v)
    <3>1. Covers(BoundsIn(e), v[l], EdgeOf(d, v)) /\ v[l] \in Int
      BY <1>1, <2>1, EdgeTaken DEF Proper, Vals
    <3>2. k = EdgeOf(d, v)
      BY <3>1, <2>2, <2>4, CoverUnique DEF CddList
    <3>3. Leaf(d, v) = Leaf(Child(d, k), v)
      BY <3>2, <2>1, LeafBelow
    <3> QED BY <3>3, <2>1 DEF Child
  <2> QED BY <2>2, <2>3, <2>4
<1>2. CASE LevelOf(d) # l
  <2>1. e = <<Elem(Rglr(d), INF)>>
    BY <1>2 DEF EdgesAt
  <2>2. Rglr(d) \in Cdds /\ LevelOf(Rglr(d)) > l /\ NegCond(Rglr(d), d.neg) = d
    BY <1>0, <1>2, Negations
  <2>3. CddList(l, e)
    BY <2>1, <2>2, SingleEdge
  <2>4. Len(e) = 1 /\ e[1].child = Rglr(d)
    BY <2>1 DEF Elem
  <2> QED BY <2>2, <2>3, <2>4, <1>0, <1>2
<1> QED BY <1>1, <1>2

\* The branch of an operand on a Boolean level that is not below it.
BranchAt(d, l, k) == NegCond(EdgesAt(d, l)[Min({k, Len(EdgesAt(d, l))})].child, d.neg)

\* The minimum of two integers.
LEMMA MinIs == ASSUME NEW a \in Int, NEW b \in Int
               PROVE  Min({a, b}) = IF a <= b THEN a ELSE b
<1> DEFINE m == IF a <= b THEN a ELSE b
<1>1. m \in {a, b} /\ \A y \in {a, b} : m <= y
  OBVIOUS
<1>2. \A x \in {a, b} : (\A y \in {a, b} : x <= y) => x = m
  OBVIOUS
<1> HIDE DEF m
<1>3. Min({a, b}) = m
  BY <1>1, <1>2 DEF Min
<1> QED BY <1>3 DEF m

\* At a Boolean level the two branches of an operand say together what it says.
LEMMA BranchAtBdd ==
    ASSUME NEW d \in Cdds, NEW l \in Levels, ~IsCdd(l), l <= LevelOf(d)
    PROVE  /\ \A k \in {1, 2} : BranchAt(d, l, k) \in Cdds /\ LevelOf(BranchAt(d, l, k)) > l
           /\ \A v \in Proper : v[l] \in {0, 1} /\ Leaf(d, v) = Leaf(BranchAt(d, l, v[l] + 1), v)
<1>0. d.neg \in {0, 1} /\ LevelOf(d) \in Nat /\ l \in Nat /\ l < MAXLEVEL
  BY PointerFacts, CddLevel, LevelRange
<1> DEFINE e == EdgesAt(d, l)
<1>00. \A v \in Proper : v[l] \in {0, 1}
  BY DEF Proper, BddLevels, IsCdd
<1>1. CASE LevelOf(d) = l
  <2>1. ~IsTerminal(d) /\ e = d.node.elem
    BY <1>0, <1>1, TerminalIs DEF EdgesAt
  <2>2. /\ Arity(d) = 2
        /\ e[1].child \in Cdds /\ e[2].child \in Cdds
        /\ LevelOf(e[1].child) > LevelOf(d) /\ LevelOf(e[2].child) > LevelOf(d)
    BY <1>1, <2>1, InnerBdd
  <2>3. Len(e) = 2
    BY <2>1, <2>2 DEF Arity
  <2>4. ASSUME NEW k \in {1, 2} PROVE BranchAt(d, l, k) = Child(d, k)
    <3>1. Min({k, 2}) = k
      BY MinIs
    <3> QED BY <3>1, <2>3, <2>1 DEF BranchAt, Child
  <2>5. ASSUME NEW k \in {1, 2}
        PROVE  NegCond(e[k].child, d.neg) \in Cdds /\ LevelOf(NegCond(e[k].child, d.neg)) > l
    BY <2>2, <1>0, <1>1, Negations
  <2>6. ASSUME NEW v \in Proper
        PROVE  Leaf(d, v) = Leaf(BranchAt(d, l, v[l] + 1), v)
    <3>1. v[l] \in {0, 1}
      BY <1>00
    <3>2. EdgeOf(d, v) = v[l] + 1
      BY <1>1 DEF EdgeOf
    <3>3. Leaf(d, v) = Leaf(Child(d, v[l] + 1), v)
      BY <3>2, <2>1, LeafBelow
    <3>4. v[l] + 1 \in {1, 2}
      BY <3>1
    <3> QED BY <3>3, <3>4, <2>4
  <2>7. \A k \in {1, 2} : BranchAt(d, l, k) \in Cdds /\ LevelOf(BranchAt(d, l, k)) > l
    BY <2>1, <2>4, <2>5 DEF Child
  <2> QED BY <2>6, <2>7, <1>00
<1>2. CASE LevelOf(d) # l
  <2>1. e = <<Elem(Rglr(d), INF)>>
    BY <1>2 DEF EdgesAt
  <2>2. Len(e) = 1 /\ e[1].child = Rglr(d)
    BY <2>1 DEF Elem
  <2>3. NegCond(Rglr(d), d.neg) = d
    BY Negations
  <2>4. ASSUME NEW k \in {1, 2} PROVE BranchAt(d, l, k) = d
    <3>1. Min({k, 1}) = 1
      BY MinIs
    <3> QED BY <3>1, <2>2, <2>3 DEF BranchAt
  <2>5. \A v \in Proper : v[l] + 1 \in {1, 2}
    BY <1>00
  <2> QED BY <2>4, <2>5, <1>0, <1>00, <1>2
<1> QED BY <1>1, <1>2

-----------------------------------------------------------------------------
(* One edge per run of equal children.                                     *)

AscendingStep(n, below) ==
    [K \in SUBSET Nat |-> IF n \in K THEN Append(below[K], n) ELSE below[K]]
AscendingRec == INSTANCE Recursion WITH Base <- [K \in SUBSET Nat |-> <<>>], Step <- AscendingStep

\* How the ascending list of a set grows with the limit.
LEMMA AscendingEquation ==
    ASSUME NEW K \in SUBSET Nat
    PROVE  /\ Ascending[0][K] = <<>>
           /\ \A n \in Nat : Ascending[n + 1][K] =
                  IF n + 1 \in K THEN Append(Ascending[n][K], n + 1) ELSE Ascending[n][K]
<1>1. Ascending = AscendingRec!F
  BY DEF Ascending, AscendingRec!F, AscendingStep
<1> HIDE DEF Ascending
<1>2. Ascending[0] = [J \in SUBSET Nat |-> <<>>] /\ \A n \in Nat : Ascending[n + 1] = AscendingStep(n + 1, Ascending[n])
  BY <1>1, AscendingRec!Def
<1> QED BY <1>2 DEF AscendingStep

\* The members of K from 1 to n, in ascending order.
Listed(ks, K, n) ==
    /\ ks \in Seq(1..n)
    /\ \A i \in 1..Len(ks) : ks[i] \in K
    /\ \A i \in 1..(Len(ks) - 1) : ks[i] < ks[i + 1]
    /\ \A j \in K : 1 <= j /\ j <= n => Len(ks) >= 1 /\ j <= ks[Len(ks)]
    /\ \A i \in 1..Len(ks), j \in K : ~((i = 1 \/ ks[i - 1] < j) /\ 1 <= j /\ j < ks[i])

\* The ascending list of a set holds its members up to the limit, once each.
LEMMA AscendingLists == ASSUME NEW K \in SUBSET Nat, NEW n \in Nat PROVE Listed(Ascending[n][K], K, n)
<1> DEFINE T == {m \in Nat : Listed(Ascending[m][K], K, m)}
<1>1. 0 \in T
  <2>1. Ascending[0][K] = <<>>
    BY AscendingEquation
  <2>2. Listed(<<>>, K, 0)
    BY DEF Listed
  <2> QED BY <2>1, <2>2
<1>2. ASSUME NEW m \in Nat, m \in T PROVE m + 1 \in T
  <2> DEFINE ks == Ascending[m][K]
             js == Ascending[m + 1][K]
  <2>1. Listed(ks, K, m)
    BY <1>2
  <2>2. js = IF m + 1 \in K THEN Append(ks, m + 1) ELSE ks
    BY AscendingEquation
  <2> HIDE DEF ks, js
  <2>3. ks \in Seq(Nat) /\ Len(ks) \in Nat /\ \A i \in 1..Len(ks) : ks[i] \in 1..m
    BY <2>1 DEF Listed
  <2>4. CASE m + 1 \notin K
    <3>1. js = ks
      BY <2>2, <2>4
    <3>2. ks \in Seq(1..(m + 1))
      <4>1. \A i \in 1..Len(ks) : ks[i] \in 1..(m + 1)
        BY <2>3
      <4> QED BY <4>1, <2>3, SeqInto
    <3>3. \A j \in K : j <= m + 1 => j <= m
      BY <2>4
    <3>4. Listed(ks, K, m + 1)
      BY <2>1, <3>2, <3>3 DEF Listed
    <3> QED BY <3>1, <3>4 DEF js
  <2>5. CASE m + 1 \in K
    <3>1. js = Append(ks, m + 1)
      BY <2>2, <2>5
    <3>2. /\ js \in Seq(Nat) /\ Len(js) = Len(ks) + 1 /\ js[Len(js)] = m + 1
          /\ \A i \in 1..Len(ks) : js[i] = ks[i]
      BY <3>1, <2>3
    <3>3. js \in Seq(1..(m + 1))
      <4>1. ASSUME NEW i \in 1..Len(js) PROVE js[i] \in 1..(m + 1)
        <5>1. CASE i = Len(js)
          BY <5>1, <3>2
        <5>2. CASE i # Len(js)
          <6>1. i \in 1..Len(ks)
            BY <5>2, <3>2, <2>3
          <6>2. js[i] = ks[i] /\ ks[i] \in 1..m
            BY <6>1, <3>2, <2>3
          <6> QED BY <6>2
        <5> QED BY <5>1, <5>2
      <4> QED BY <4>1, <3>2, SeqInto
    <3>4. ASSUME NEW i \in 1..Len(js) PROVE js[i] \in K
      <4>1. CASE i = Len(js)
        BY <4>1, <3>2, <2>5
      <4>2. CASE i # Len(js)
        <5>1. i \in 1..Len(ks)
          BY <4>2, <3>2, <2>3
        <5> QED BY <5>1, <3>2, <2>1 DEF Listed
      <4> QED BY <4>1, <4>2
    <3>5. ASSUME NEW i \in 1..(Len(js) - 1) PROVE js[i] < js[i + 1]
      <4>1. CASE i = Len(ks)
        BY <4>1, <3>2, <2>3, <3>5
      <4>2. CASE i # Len(ks)
        <5>1. i \in 1..(Len(ks) - 1) /\ i \in 1..Len(ks) /\ i + 1 \in 1..Len(ks)
          BY <4>2, <3>2, <2>3
        <5>2. ks[i] < ks[i + 1]
          BY <5>1, <2>1 DEF Listed
        <5> QED BY <5>1, <5>2, <3>2
      <4> QED BY <4>1, <4>2
    <3>6. \A j \in K : 1 <= j /\ j <= m + 1 => Len(js) >= 1 /\ j <= js[Len(js)]
      BY <3>2, <2>3
    <3>7. ASSUME NEW i \in 1..Len(js), NEW j \in K, i = 1 \/ js[i - 1] < j, 1 <= j, j < js[i]
          PROVE  FALSE
      <4>1. CASE i = Len(js)
        <5>1. j <= m /\ j \in Nat
          BY <4>1, <3>2, <3>7
        <5>2. Len(ks) >= 1 /\ j <= ks[Len(ks)]
          BY <5>1, <3>7, <2>1 DEF Listed
        <5>3. i # 1 /\ i - 1 = Len(ks) /\ Len(ks) \in 1..Len(ks)
          BY <5>2, <4>1, <3>2, <2>3
        <5>4. js[i - 1] = ks[Len(ks)] /\ ks[Len(ks)] \in Nat
          BY <5>3, <3>2, <2>3
        <5> QED BY <5>1, <5>2, <5>3, <5>4, <3>7
      <4>2. CASE i # Len(js)
        <5>1. i \in 1..Len(ks) /\ (i # 1 => i - 1 \in 1..Len(ks))
          BY <4>2, <3>2, <2>3
        <5>2. js[i] = ks[i] /\ (i # 1 => js[i - 1] = ks[i - 1])
          BY <5>1, <3>2
        <5> QED BY <5>1, <5>2, <3>7, <2>1 DEF Listed
      <4> QED BY <4>1, <4>2
    <3>8. Listed(js, K, m + 1)
      BY <3>3, <3>4, <3>5, <3>6, <3>7 DEF Listed
    <3> QED BY <3>8 DEF js
  <2> QED BY <2>4, <2>5
<1> HIDE DEF T
<1>3. \A m \in Nat : m \in T
  BY <1>1, <1>2, Induction
<1> QED BY <1>3 DEF T

\* Index k is in the i-th run of the list ks of the ends of runs.
InRun(ks, i, k) == i \in 1..Len(ks) /\ (i = 1 \/ ks[i - 1] < k) /\ k <= ks[i]

\* The list ks divides cs into runs of equal members.
RunList(cs, ks) ==
    /\ ks \in Seq(1..Len(cs)) /\ Len(ks) \in Nat /\ Len(ks) >= 1 /\ ks[Len(ks)] = Len(cs)
    /\ \A i \in 1..(Len(ks) - 1) : ks[i] < ks[i + 1] /\ cs[ks[i]] # cs[ks[i + 1]]
    /\ \A k \in 1..Len(cs) : \E i \in 1..Len(ks) : InRun(ks, i, k)
    /\ \A k \in 1..Len(cs), i \in 1..Len(ks) : InRun(ks, i, k) => cs[k] = cs[ks[i]]

\* The ends of the runs of equal children divide the children into runs.
LEMMA Runs ==
    ASSUME NEW X, NEW cs \in Seq(X), Len(cs) >= 1, NEW ks, ks = RunEnds(cs)
    PROVE  RunList(cs, ks)
<1> DEFINE n == Len(cs)
           K == {k \in DOMAIN cs : k = Len(cs) \/ cs[k] # cs[k + 1]}
<1>0. n \in Nat /\ DOMAIN cs = 1..n /\ n >= 1
  OBVIOUS
<1>1. K \in SUBSET Nat /\ n \in K /\ ks = Ascending[n][K]
  BY <1>0 DEF RunEnds
<1>2. \A k \in K : k \in 1..n /\ (k = n \/ cs[k] # cs[k + 1])
  BY <1>0
<1>3. \A k \in 1..n : k \notin K => cs[k] = cs[k + 1] /\ k # n
  BY <1>0
<1> HIDE DEF K
<1> HIDE DEF n
<1>4. Listed(ks, K, n)
  BY <1>0, <1>1, AscendingLists
<1>5. /\ ks \in Seq(1..n) /\ Len(ks) \in Nat /\ \A i \in 1..Len(ks) : ks[i] \in 1..n
  <2>1. ks \in Seq(1..n)
    BY <1>4 DEF Listed
  <2>2. \A i \in 1..Len(ks) : ks[i] \in 1..n
    BY <2>1, SeqElem
  <2> QED BY <2>1, <2>2
<1>6. Len(ks) >= 1 /\ ks[Len(ks)] = n
  <2>1. Len(ks) >= 1 /\ n <= ks[Len(ks)]
    BY <1>4, <1>0, <1>1 DEF Listed
  <2> QED BY <2>1, <1>5, <1>0
<1>7. ASSUME NEW k \in 1..n PROVE \E i \in 1..Len(ks) : InRun(ks, i, k)
  <2> DEFINE S == {i \in 1..Len(ks) : k <= ks[i]}
  <2>1. Len(ks) \in S /\ S \in SUBSET Nat /\ S # {}
    BY <1>5, <1>6, <1>0
  <2> HIDE DEF S
  <2>2. PICK i \in S : \A y \in S : i <= y
    BY <2>1, LeastElement
  <2>3. i \in 1..Len(ks) /\ k <= ks[i]
    BY DEF S
  <2>4. i = 1 \/ ks[i - 1] < k
    <3> SUFFICES ASSUME i # 1 PROVE ks[i - 1] < k
      OBVIOUS
    <3>1. i - 1 \in 1..Len(ks) /\ ~(i <= i - 1)
      BY <2>3, <1>5
    <3>2. i - 1 \notin S
      BY <3>1, <2>2
    <3>3. ks[i - 1] \in Int /\ k \in Int
      BY <3>1, <1>5
    <3> QED BY <3>1, <3>2, <3>3 DEF S
  <2> QED BY <2>3, <2>4 DEF InRun
<1>8. ASSUME NEW k \in 1..n, NEW i \in 1..Len(ks), InRun(ks, i, k) PROVE cs[k] = cs[ks[i]]
  <2> DEFINE T == {m \in Nat : k + m <= ks[i] => cs[k] = cs[k + m]}
  <2>0. ks[i] \in 1..n /\ k <= ks[i] /\ (i = 1 \/ ks[i - 1] < k)
    BY <1>5, <1>8 DEF InRun
  <2>1. 0 \in T
    OBVIOUS
  <2>2. ASSUME NEW m \in Nat, m \in T PROVE m + 1 \in T
    <3> SUFFICES ASSUME k + (m + 1) <= ks[i] PROVE cs[k] = cs[k + (m + 1)]
      OBVIOUS
    <3>1. k + m \in 1..n /\ k + m < ks[i] /\ (k + m) + 1 = k + (m + 1) /\ 1 <= k + m /\ k <= k + m
      BY <2>0, <1>0
    <3>2. cs[k] = cs[k + m]
      BY <2>2, <3>1, <2>0
    <3>3. i = 1 \/ ks[i - 1] < k + m
      <4> SUFFICES ASSUME i # 1 PROVE ks[i - 1] < k + m
        OBVIOUS
      <4>1. i - 1 \in 1..Len(ks)
        BY <1>5
      <4>2. ks[i - 1] \in Int /\ k \in Int /\ k + m \in Int
        BY <4>1, <1>5
      <4> QED BY <4>2, <2>0, <3>1
    <3>4. k + m \notin K
      BY <3>1, <3>3, <1>4 DEF Listed
    <3> QED BY <3>1, <3>2, <3>4, <1>3
  <2> HIDE DEF T
  <2>3. \A m \in Nat : m \in T
    BY <2>1, <2>2, Induction
  <2>4. ks[i] - k \in T /\ k + (ks[i] - k) = ks[i]
    BY <2>0, <2>3
  <2> QED BY <2>4, <2>0 DEF T
<1>9. ASSUME NEW i \in 1..(Len(ks) - 1) PROVE ks[i] < ks[i + 1] /\ cs[ks[i]] # cs[ks[i + 1]]
  <2>1. i \in 1..Len(ks) /\ i + 1 \in 1..Len(ks) /\ i + 1 # 1 /\ (i + 1) - 1 = i
    BY <1>5
  <2>2. ks[i] < ks[i + 1] /\ ks[i] \in K /\ ks[i] \in 1..n /\ ks[i + 1] \in 1..n
    BY <1>4, <1>5, <2>1 DEF Listed
  <2>3. cs[ks[i]] # cs[ks[i] + 1] /\ ks[i] + 1 \in 1..n /\ ks[i] < ks[i] + 1 /\ ks[i] + 1 <= ks[i + 1]
    BY <2>2, <1>2, <1>0
  <2>4. InRun(ks, i + 1, ks[i] + 1)
    BY <2>1, <2>3 DEF InRun
  <2>5. cs[ks[i] + 1] = cs[ks[i + 1]]
    BY <2>1, <2>3, <2>4, <1>8
  <2> QED BY <2>2, <2>3, <2>5
<1> QED BY <1>5, <1>6, <1>7, <1>8, <1>9 DEF n, RunList

\* A positive number other than one is at least two.
LEMMA AtLeastTwo == ASSUME NEW n \in Nat, n >= 1, n # 1
                    PROVE  n >= 2 /\ 1 \in 1..(n - 1) /\ 1 \in 1..n /\ 2 \in 1..n
OBVIOUS

\* The empty sequence is neutral.
LEMMA ConcatEmpty == ASSUME NEW X, NEW cs \in Seq(X) PROVE cs \o <<>> = cs
OBVIOUS

\* Children below level l, one for each of the intervals of bs.
Packable(l, cs, bs) ==
    /\ cs \in Seq(Cdds) /\ BoundList(bs) /\ Len(bs) = Len(cs)
    /\ \A k \in 1..Len(cs) : bs[k] \in BoundsOf(l) /\ LevelOf(cs[k]) > l

\* Every edge of r leads to the child of an interval, all of which takes that edge.
PackedEdges(r, l, cs, bs) ==
    /\ ~IsTerminal(r)
    /\ \A j \in 1..Arity(r) : \E k \in 1..Len(cs) :
          Child(r, j) = cs[k] /\ \A v \in Proper : Covers(bs, v[l], k) => EdgeOf(r, v) = j

\* Packing a list of children makes a diagram in normal form that says on every interval what
\* the child of the interval says; if all children are equal it is that child.
LEMMA PackIs ==
    ASSUME NEW l \in Levels, IsCdd(l), NEW cs, NEW bs, Packable(l, cs, bs)
    PROVE  /\ Pack(l, cs, bs) \in Cdds /\ LevelOf(Pack(l, cs, bs)) >= l
           /\ \A v \in Proper, k \in 1..Len(cs) : Covers(bs, v[l], k) => Leaf(Pack(l, cs, bs), v) = Leaf(cs[k], v)
           /\ \A c : (\A k \in 1..Len(cs) : cs[k] = c) => Pack(l, cs, bs) = c
           /\ LevelOf(Pack(l, cs, bs)) > l => \A k \in 1..Len(cs) : cs[k] = Pack(l, cs, bs)
           /\ LevelOf(Pack(l, cs, bs)) = l => PackedEdges(Pack(l, cs, bs), l, cs, bs)
<1> DEFINE ks == RunEnds(cs)
           n == cs[1].neg
           e == [i \in DOMAIN ks |-> Elem(NegCond(cs[ks[i]], n), bs[ks[i]])]
           d == Pack(l, cs, bs)
<1>1. /\ cs \in Seq(Cdds) /\ BoundList(bs) /\ Len(bs) = Len(cs) /\ Len(cs) \in Nat /\ Len(cs) >= 1
      /\ \A k \in 1..Len(cs) : cs[k] \in Cdds /\ bs[k] \in BoundsOf(l) /\ LevelOf(cs[k]) > l /\ bs[k] \in Int
  BY DEF Packable, BoundList
<1>2. d = NegCond(MakeCdd(l, e), n)
  BY <1>1, ConcatEmpty DEF Pack, EdgesOfRuns
<1> HIDE DEF d
<1>a. RunList(cs, ks)
  <2>1. cs \in Seq(Cdds) /\ Len(cs) >= 1 /\ ks = RunEnds(cs)
    BY <1>1
  <2> HIDE DEF ks
  <2> QED BY <2>1, Runs
<1> HIDE DEF ks
<1>b. Len(ks) \in Nat /\ Len(ks) >= 1
  BY <1>a DEF RunList
<1>3. /\ ks \in Seq(1..Len(cs)) /\ Len(ks) \in Nat /\ Len(ks) >= 1 /\ ks[Len(ks)] = Len(cs)
      /\ \A i \in 1..(Len(ks) - 1) : ks[i] < ks[i + 1] /\ cs[ks[i]] # cs[ks[i + 1]]
      /\ \A k \in 1..Len(cs) : \E i \in 1..Len(ks) : InRun(ks, i, k)
      /\ \A k \in 1..Len(cs), i \in 1..Len(ks) : InRun(ks, i, k) => cs[k] = cs[ks[i]]
  BY <1>a DEF RunList
<1>4. DOMAIN ks = 1..Len(ks) /\ \A i \in 1..Len(ks) : ks[i] \in 1..Len(cs)
  <2>1. ks \in Seq(1..Len(cs))
    BY <1>3
  <2> QED BY <2>1, <1>b, SeqElem
<1>5. n \in {0, 1}
  <2>1. 1 \in 1..Len(cs)
    BY <1>1
  <2>2. cs[1] \in Cdds
    BY <2>1, <1>1
  <2> QED BY <2>2, PointerFacts
<1> HIDE DEF n
<1>6. ASSUME NEW i \in 1..Len(ks)
      PROVE  /\ e[i] = Elem(NegCond(cs[ks[i]], n), bs[ks[i]])
             /\ e[i].child = NegCond(cs[ks[i]], n) /\ e[i].bnd = bs[ks[i]]
             /\ e[i] \in [child : Cdds, bnd : BoundsOf(l)]
             /\ e[i].child \in Cdds /\ LevelOf(e[i].child) > l /\ NegCond(e[i].child, n) = cs[ks[i]]
  <2>1. ks[i] \in 1..Len(cs) /\ cs[ks[i]] \in Cdds /\ LevelOf(cs[ks[i]]) > l
    BY <1>1, <1>4
  <2>2. NegCond(cs[ks[i]], n) \in Cdds /\ LevelOf(NegCond(cs[ks[i]], n)) > l /\ NegCond(NegCond(cs[ks[i]], n), n) = cs[ks[i]]
    BY <2>1, <1>5, Negations
  <2>3. bs[ks[i]] \in BoundsOf(l)
    BY <2>1, <1>1
  <2>4. e[i] = Elem(NegCond(cs[ks[i]], n), bs[ks[i]])
    BY <1>4
  <2> HIDE DEF e
  <2> QED BY <2>2, <2>3, <2>4 DEF Elem
<1>7. e \in EdgesOn(l) /\ Len(e) = Len(ks) /\ DOMAIN e = 1..Len(ks)
  <2>1. DOMAIN e = 1..Len(ks)
    BY <1>4
  <2> HIDE DEF e
  <2>2. e = [i \in 1..Len(ks) |-> e[i]]
    BY <2>1, <1>4 DEF e
  <2>3. e \in [1..Len(ks) -> [child : Cdds, bnd : BoundsOf(l)]]
    BY <2>2, <1>6
  <2> DEFINE A == [child : Cdds, bnd : BoundsOf(l)]
  <2>4. e \in [1..Len(ks) -> A]
    BY <2>3
  <2> HIDE DEF A
  <2>5. e \in Seq(A) /\ Len(e) = Len(ks)
    BY <2>4, <1>b, SeqDef
  <2> QED BY <2>1, <2>5 DEF EdgesOn, A
<1> HIDE DEF e
<1>8. cs[1] = cs[ks[1]]
  <2>1. 1 <= ks[1] /\ 1 \in 1..Len(ks) /\ 1 \in 1..Len(cs)
    BY <1>3, <1>4, <1>1
  <2>2. InRun(ks, 1, 1)
    BY <2>1 DEF InRun
  <2> QED BY <2>1, <2>2, <1>3
<1>9. CASE Len(ks) = 1
  <2>1. MakeCdd(l, e) = e[1].child
    BY <1>7, <1>9 DEF MakeCdd
  <2>2. d = cs[ks[1]] /\ ks[1] \in 1..Len(cs)
    BY <2>1, <1>2, <1>4, <1>6, <1>9
  <2>3. \A k \in 1..Len(cs) : cs[k] = d
    <3>1. \A k \in 1..Len(cs) : InRun(ks, 1, k)
      BY <1>3, <1>9 DEF InRun
    <3> QED BY <3>1, <2>2, <1>3, <1>9
  <2>4. d \in Cdds /\ LevelOf(d) > l /\ l \in Nat /\ LevelOf(d) \in Nat
    BY <2>2, <1>1, LevelRange, CddLevel
  <2>5. \A c : (\A k \in 1..Len(cs) : cs[k] = c) => d = c
    BY <2>2
  <2> QED BY <2>3, <2>4, <2>5 DEF d
<1>10. CASE Len(ks) # 1
  <2> DEFINE b == [neg |-> 0, node |-> [level |-> l, elem |-> e]]
  <2>a. 1 \in 1..(Len(ks) - 1) /\ 1 \in 1..Len(ks) /\ 2 \in 1..Len(ks)
    BY <1>b, <1>10, AtLeastTwo
  <2>1. Len(e) >= 2
    BY <1>3, <1>7, <1>10
  <2>2. MakeCdd(l, e) = b
    BY <1>7, <1>10 DEF MakeCdd
  <2>3. NormalEdges(l, e)
    <3>1. e[1].child.neg = 0
      <4>1. 1 \in 1..Len(ks) /\ e[1].child = NegCond(cs[1], n) /\ cs[1] \in Cdds
        BY <1>3, <1>6, <1>8, <1>1
      <4>2. NegCond(cs[1], cs[1].neg) = Rglr(cs[1]) /\ Rglr(cs[1]).neg = 0
        BY <4>1, Negations
      <4> QED BY <4>1, <4>2 DEF n
    <3>2. ASSUME NEW k \in 1..(Len(e) - 1) PROVE e[k].bnd < e[k + 1].bnd /\ e[k].child # e[k + 1].child
      <4>1. k \in 1..Len(ks) /\ k + 1 \in 1..Len(ks) /\ k \in 1..(Len(ks) - 1)
        BY <1>3, <1>7
      <4>2. ks[k] < ks[k + 1] /\ cs[ks[k]] # cs[ks[k + 1]] /\ ks[k] \in 1..Len(bs) /\ ks[k + 1] \in 1..Len(bs)
        BY <4>1, <1>3, <1>4, <1>1
      <4>3. bs[ks[k]] < bs[ks[k + 1]]
        BY <4>2, <1>1, BoundsAscend
      <4> QED BY <4>1, <4>2, <4>3, <1>6
    <3>3. e[Len(e)].bnd = INF
      BY <1>3, <1>6, <1>7, <1>1 DEF BoundList
    <3> QED BY <3>1, <3>2, <3>3, <2>1, <1>6, <1>7 DEF NormalEdges
  <2>4. b \in Cdds /\ ~IsTerminal(b)
    BY <2>3, <1>7, MakeNode
  <2>5. /\ d \in Cdds /\ ~IsTerminal(d) /\ d.neg = n /\ d.node = [level |-> l, elem |-> e]
        /\ LevelOf(d) = l
    <3>1. b.neg = 0 /\ b.node = [level |-> l, elem |-> e] /\ (0 + n) % 2 = n
      BY <1>5
    <3> HIDE DEF b
    <3>2. d = NegCond(b, n)
      BY <2>2, <1>2
    <3>3. d \in Cdds /\ d.neg = (b.neg + n) % 2 /\ d.node = b.node /\ ~IsTerminal(d)
      BY <3>2, <2>4, <1>5, Negations
    <3>4. LevelOf(d) = l
      BY <3>3, <3>1 DEF LevelOf
    <3> QED BY <3>1, <3>3, <3>4
  <2>6. d.node.elem = e /\ Arity(d) = Len(e)
    BY <2>5 DEF Arity
  <2>7. ASSUME NEW v \in Proper, NEW k \in 1..Len(cs), Covers(bs, v[l], k), NEW i \in 1..Len(ks), InRun(ks, i, k)
        PROVE  EdgeOf(d, v) = i /\ Leaf(d, v) = Leaf(cs[k], v)
    <3>1. InRun(ks, i, k)
      BY <2>7
    <3>2. cs[k] = cs[ks[i]] /\ ks[i] \in 1..Len(cs)
      BY <3>1, <1>3, <1>4
    <3>3. v[l] \in Int
      BY DEF Proper, Vals
    <3>4. Covers(BoundsIn(e), v[l], i)
      <4>1. \A j \in 1..Len(bs) : Below(v[l], bs[j]) <=> k <= j
        BY <2>7, <3>3, <1>1, CoverIsMin
      <4>2. Below(v[l], bs[ks[i]])
        BY <4>1, <3>1, <3>2, <1>1 DEF InRun
      <4>3. i = 1 \/ ~Below(v[l], bs[ks[i - 1]])
        <5> SUFFICES ASSUME i # 1 PROVE ~Below(v[l], bs[ks[i - 1]])
          OBVIOUS
        <5>1. i - 1 \in 1..Len(ks)
          BY <1>3
        <5>2. ks[i - 1] \in 1..Len(bs) /\ ks[i - 1] < k
          BY <5>1, <3>1, <1>4, <1>1 DEF InRun
        <5> QED BY <4>1, <5>2, <1>1
      <4>4. BoundsIn(e)[i] = bs[ks[i]] /\ (i # 1 => BoundsIn(e)[i - 1] = bs[ks[i - 1]]) /\ Len(BoundsIn(e)) = Len(ks)
        <5>1. i # 1 => i - 1 \in 1..Len(ks)
          BY <1>3
        <5>2. Len(BoundsIn(e)) = Len(e) /\ \A j \in 1..Len(e) : BoundsIn(e)[j] = e[j].bnd
          BY <1>7, BoundsInIs
        <5> QED BY <5>1, <5>2, <1>6, <1>7
      <4> QED BY <4>2, <4>3, <4>4 DEF Covers
    <3>5. Covers(BoundsIn(e), v[l], EdgeOf(d, v))
      BY <2>5, <2>6, EdgeTaken
    <3>6. BoundList(BoundsIn(e))
      BY <2>3, <1>7, CddNodeList DEF CddList
    <3>7. EdgeOf(d, v) = i
      BY <3>3, <3>4, <3>5, <3>6, CoverUnique
    <3>8. Leaf(d, v) = Leaf(Child(d, i), v)
      BY <3>7, <2>5, LeafBelow
    <3>9. Child(d, i) = cs[ks[i]]
      BY <2>5, <2>6, <1>6 DEF Child
    <3> QED BY <3>2, <3>7, <3>8, <3>9
  <2>9. ASSUME NEW v \in Proper, NEW k \in 1..Len(cs), Covers(bs, v[l], k) PROVE Leaf(d, v) = Leaf(cs[k], v)
    <3>1. PICK i \in 1..Len(ks) : InRun(ks, i, k)
      BY <1>3
    <3> QED BY <2>7, <2>9, <3>1
  <2>10. PackedEdges(d, l, cs, bs)
    <3> SUFFICES ASSUME NEW j \in 1..Len(ks)
                 PROVE  \E k \in 1..Len(cs) : Child(d, j) = cs[k]
                                              /\ \A v \in Proper : Covers(bs, v[l], k) => EdgeOf(d, v) = j
      BY <2>5, <2>6, <1>7 DEF PackedEdges
    <3>1. ks[j] \in 1..Len(cs)
      BY <1>4
    <3>2. Child(d, j) = cs[ks[j]]
      BY <2>5, <2>6, <1>6 DEF Child
    <3>3. InRun(ks, j, ks[j])
      <4>1. j # 1 => ks[j - 1] < ks[j]
        <5> SUFFICES ASSUME j # 1 PROVE ks[j - 1] < ks[j]
          OBVIOUS
        <5>1. j - 1 \in 1..(Len(ks) - 1) /\ (j - 1) + 1 = j
          BY <1>b
        <5>2. ks[j - 1] < ks[(j - 1) + 1]
          BY <5>1, <1>3
        <5> QED BY <5>1, <5>2
      <4> QED BY <3>1, <4>1 DEF InRun
    <3> QED BY <3>1, <3>2, <3>3, <2>7
  <2>8. ASSUME NEW c, \A k \in 1..Len(cs) : cs[k] = c PROVE d = c
    <3>1. 1 \in 1..(Len(ks) - 1) /\ 1 \in 1..Len(ks) /\ 2 \in 1..Len(ks)
      BY <2>a
    <3>2. cs[ks[1]] # cs[ks[1 + 1]] /\ ks[1] \in 1..Len(cs) /\ ks[1 + 1] \in 1..Len(cs)
      BY <3>1, <1>3, <1>4
    <3> QED BY <3>2, <2>8
  <2> QED BY <2>5, <2>8, <2>9, <2>10, LevelRange DEF d
<1> QED BY <1>9, <1>10

\* Making a Boolean node makes a diagram in normal form that says what the branch of the value
\* says.
LEMMA MakeBddIs ==
    ASSUME NEW l \in Levels, ~IsCdd(l), NEW a \in Cdds, NEW b \in Cdds, LevelOf(a) > l, LevelOf(b) > l
    PROVE  /\ MakeBdd(l, a, b) \in Cdds /\ LevelOf(MakeBdd(l, a, b)) >= l
           /\ \A v \in Proper : Leaf(MakeBdd(l, a, b), v) = IF v[l] = 0 THEN Leaf(a, v) ELSE Leaf(b, v)
           /\ a = b => MakeBdd(l, a, b) = a
           /\ LevelOf(MakeBdd(l, a, b)) > l => a = b
<1>0. l \in Nat /\ LevelOf(a) \in Nat /\ LevelOf(b) \in Nat /\ a.neg \in {0, 1}
  BY LevelRange, CddLevel, PointerFacts
<1>1. CASE a = b
  BY <1>0, <1>1 DEF MakeBdd
<1>2. CASE a # b
  <2> DEFINE n == a.neg
             e == <<Elem(Rglr(a), 0), Elem(NegCond(b, n), 1)>>
             d == [neg |-> n, node |-> [level |-> l, elem |-> e]]
  <2>1. MakeBdd(l, a, b) = d
    BY <1>2 DEF MakeBdd
  <2>2. /\ Rglr(a) \in Cdds /\ LevelOf(Rglr(a)) > l /\ Rglr(a).neg = 0
        /\ NegCond(b, n) \in Cdds /\ LevelOf(NegCond(b, n)) > l
        /\ NegCond(NegCond(b, n), n) = b /\ NegCond(Rglr(a), n) = a
    BY <1>0, Negations
  <2>3. Rglr(a) # NegCond(b, n)
    BY <2>2, <1>2
  <2>4. e \in EdgesOn(l)
    <3>1. Elem(Rglr(a), 0) \in [child : Cdds, bnd : BoundsOf(l)] /\ Elem(NegCond(b, n), 1) \in [child : Cdds, bnd : BoundsOf(l)]
      BY <2>2 DEF Elem, BoundsOf
    <3> QED BY <3>1 DEF EdgesOn
  <2>5. /\ Len(e) = 2 /\ DOMAIN e = 1..2 /\ e[1].child = Rglr(a) /\ e[2].child = NegCond(b, n)
        /\ e[1].bnd = 0 /\ e[2].bnd = 1
    BY DEF Elem
  <2> HIDE DEF e
  <2>6. NormalEdges(l, e)
    BY <2>2, <2>3, <2>5 DEF NormalEdges
  <2>7. d \in Cdds /\ ~IsTerminal(d)
    BY <1>0, <2>4, <2>6, MakeNode
  <2>8. LevelOf(d) = l /\ d.neg = n /\ d.node.elem = e
    BY DEF LevelOf
  <2> HIDE DEF d
  <2>9. ASSUME NEW v \in Proper PROVE Leaf(d, v) = IF v[l] = 0 THEN Leaf(a, v) ELSE Leaf(b, v)
    <3>1. v[l] \in {0, 1}
      BY DEF Proper, BddLevels, IsCdd
    <3>2. EdgeOf(d, v) = v[l] + 1
      BY <2>8 DEF EdgeOf
    <3>3. Leaf(d, v) = Leaf(Child(d, v[l] + 1), v)
      BY <3>2, <2>7, LeafBelow
    <3>4. Child(d, 1) = a /\ Child(d, 2) = b
      BY <2>2, <2>5, <2>8 DEF Child
    <3>5. CASE v[l] = 0
      <4>1. v[l] + 1 = 1
        BY <3>5
      <4> QED BY <4>1, <3>3, <3>4, <3>5
    <3>6. CASE v[l] = 1
      <4>1. v[l] + 1 = 2
        BY <3>6
      <4> QED BY <4>1, <3>3, <3>4, <3>6
    <3> QED BY <3>1, <3>5, <3>6
  <2> QED BY <2>1, <2>7, <2>8, <2>9, <1>0, <1>2
<1> QED BY <1>1, <1>2

-----------------------------------------------------------------------------
(* Merging two lists of edges.                                             *)

MergeStep(n, below) ==
    [t \in EdgeLists \X EdgeLists \X Nat \X Nat |-> Merged(below, t[1], t[2], t[3], t[4])]
MergeRec == INSTANCE Recursion WITH Base <- <<>>, Step <- MergeStep

\* One step of the merge of two edge lists.
LEMMA MergeEquation ==
    ASSUME NEW n \in Nat, NEW e1 \in EdgeLists, NEW e2 \in EdgeLists, NEW i \in Nat, NEW j \in Nat
    PROVE  MergeAt[n + 1][<<e1, e2, i, j>>] = Merged(MergeAt[n], e1, e2, i, j)
<1>1. MergeAt = MergeRec!F
  BY DEF MergeAt, MergeRec!F, MergeStep
<1> HIDE DEF MergeAt
<1>2. MergeAt[n + 1] = MergeStep(n + 1, MergeAt[n])
  BY <1>1, MergeRec!Def
<1> QED BY <1>2 DEF MergeStep

\* The edges of a merge of e1 from i and e2 from j.
Pairs(e1, e2) == [left : 1..Len(e1), right : 1..Len(e2), bnd : Int]
\* A merge of e1 from i and e2 from j: its bounds increase up to INF, and the interval of
\* each of its edges lies in the intervals of the two edges it names and ends with one of them.
MergeOf(l, ms, e1, e2, i, j) ==
    /\ ms \in Seq(Pairs(e1, e2)) /\ Len(ms) \in Nat /\ Len(ms) >= 1
    /\ ms[Len(ms)].bnd = INF
    /\ \A k \in 1..(Len(ms) - 1) : ms[k].bnd < ms[k + 1].bnd
    /\ \A k \in 1..Len(ms) : ms[k].bnd \in BoundsOf(l) /\ ms[1].bnd <= ms[k].bnd
    /\ \A k \in 1..Len(ms) : ms[k].left >= i /\ ms[k].bnd <= e1[ms[k].left].bnd
    /\ \A k \in 1..Len(ms) : ms[k].right >= j /\ ms[k].bnd <= e2[ms[k].right].bnd
    /\ \A k \in 1..Len(ms) : ms[k].left > i => k > 1 /\ e1[ms[k].left - 1].bnd <= ms[k - 1].bnd
    /\ \A k \in 1..Len(ms) : ms[k].right > j => k > 1 /\ e2[ms[k].right - 1].bnd <= ms[k - 1].bnd
    /\ ms[1].bnd \in {e1[i].bnd, e2[j].bnd}
    /\ \A k \in 1..Len(ms) : ms[k].bnd \in {e1[ms[k].left].bnd, e2[ms[k].right].bnd}

\* One more edge in front of a merge of the rest.
LEMMA MergeCons ==
    ASSUME NEW l \in Levels, NEW e1, NEW e2, CddList(l, e1), CddList(l, e2),
           NEW i \in 1..Len(e1), NEW j \in 1..Len(e2),
           NEW i2 \in 1..Len(e1), NEW j2 \in 1..Len(e2), NEW b \in Int,
           b \in {e1[i].bnd, e2[j].bnd}, b <= e1[i].bnd, b <= e2[j].bnd, b # INF,
           i2 = IF e1[i].bnd = b THEN i + 1 ELSE i,
           j2 = IF e2[j].bnd = b THEN j + 1 ELSE j,
           b < e1[i2].bnd, b < e2[j2].bnd,
           NEW ms, MergeOf(l, ms, e1, e2, i2, j2)
    PROVE  MergeOf(l, <<[left |-> i, right |-> j, bnd |-> b]>> \o ms, e1, e2, i, j)
<1> DEFINE x == [left |-> i, right |-> j, bnd |-> b]
           ns == <<x>> \o ms
<1>0. /\ ms \in Seq(Pairs(e1, e2)) /\ Len(ms) \in Nat /\ Len(ms) >= 1 /\ Len(e1) \in Nat /\ Len(e2) \in Nat
      /\ \A k \in 1..Len(e1) : e1[k].bnd \in Int /\ e1[k].bnd \in BoundsOf(l)
      /\ \A k \in 1..Len(e2) : e2[k].bnd \in Int /\ e2[k].bnd \in BoundsOf(l)
  BY EdgesAreInt DEF MergeOf, CddList
<1>1. x \in Pairs(e1, e2)
  BY DEF Pairs
<1>2. /\ ns \in Seq(Pairs(e1, e2)) /\ Len(ns) = Len(ms) + 1 /\ ns[1] = x
      /\ \A k \in 2..(Len(ms) + 1) : ns[k] = ms[k - 1]
  <2> DEFINE A == Pairs(e1, e2)
  <2>1. x \in A /\ ms \in Seq(A) /\ Len(ms) \in Nat
    BY <1>0, <1>1
  <2> HIDE DEF A, x
  <2>2. ns \in Seq(A) /\ Len(ns) = Len(ms) + 1 /\ ns[1] = x /\ \A k \in 2..(Len(ms) + 1) : ns[k] = ms[k - 1]
    BY <2>1
  <2> QED BY <2>2 DEF A
<1> HIDE DEF ns
<1>l. Len(ns) = Len(ms) + 1 /\ Len(ns) \in Nat /\ Len(ms) \in Nat
  BY <1>0, <1>2
<1>3. x.left = i /\ x.right = j /\ x.bnd = b
  OBVIOUS
<1> HIDE DEF x
<1>4. \A k \in 1..Len(ms) : ms[k].left \in 1..Len(e1) /\ ms[k].right \in 1..Len(e2) /\ ms[k].bnd \in Int
  <2> SUFFICES ASSUME NEW k \in 1..Len(ms) PROVE ms[k] \in Pairs(e1, e2)
    BY DEF Pairs
  <2> QED BY <1>0, SeqElem
<1>5. ms[1].bnd \in {e1[i2].bnd, e2[j2].bnd} /\ b < ms[1].bnd /\ ms[1].bnd \in Int
  BY <1>0, <1>4 DEF MergeOf
<1>6. \A k \in 1..Len(ms) : b < ms[k].bnd
  <2>1. \A k \in 1..Len(ms) : ms[1].bnd <= ms[k].bnd
    BY DEF MergeOf
  <2> QED BY <2>1, <1>4, <1>5
<1>7. \A k \in 1..Len(ns) : k = 1 \/ (k \in 2..(Len(ms) + 1) /\ k - 1 \in 1..Len(ms) /\ ns[k] = ms[k - 1])
  BY <1>2, <1>0
<1>8. ns[Len(ns)].bnd = INF
  <2>1. ns[Len(ns)] = ms[Len(ms)]
    <3>1. Len(ms) + 1 \in 2..(Len(ms) + 1) /\ (Len(ms) + 1) - 1 = Len(ms)
      BY <1>0
    <3>2. ns[Len(ms) + 1] = ms[(Len(ms) + 1) - 1]
      BY <3>1, <1>2
    <3> QED BY <3>1, <3>2, <1>l
  <2> QED BY <2>1 DEF MergeOf
<1>9. ASSUME NEW k \in 1..(Len(ns) - 1) PROVE ns[k].bnd < ns[k + 1].bnd
  <2>1. k + 1 \in 2..(Len(ms) + 1) /\ ns[k + 1] = ms[k] /\ k \in 1..Len(ms)
    BY <1>2, <1>0
  <2>2. CASE k = 1
    BY <2>1, <2>2, <1>2, <1>3, <1>6
  <2>3. CASE k # 1
    <3>1. ns[k] = ms[k - 1] /\ k - 1 \in 1..(Len(ms) - 1) /\ (k - 1) + 1 = k
      BY <2>1, <2>3, <1>2, <1>0
    <3>2. ms[k - 1].bnd < ms[(k - 1) + 1].bnd
      BY <3>1 DEF MergeOf
    <3> QED BY <3>1, <3>2, <2>1
  <2> QED BY <2>2, <2>3
<1>10. ASSUME NEW k \in 1..Len(ns)
       PROVE  /\ ns[k].bnd \in BoundsOf(l) /\ ns[1].bnd <= ns[k].bnd
              /\ ns[k].left >= i /\ ns[k].bnd <= e1[ns[k].left].bnd
              /\ ns[k].right >= j /\ ns[k].bnd <= e2[ns[k].right].bnd
              /\ ns[k].bnd \in {e1[ns[k].left].bnd, e2[ns[k].right].bnd}
  <2>1. CASE k = 1
    BY <2>1, <1>0, <1>2, <1>3
  <2>2. CASE k # 1
    <3>1. k - 1 \in 1..Len(ms) /\ ns[k] = ms[k - 1]
      BY <2>2, <1>7
    <3> DEFINE m == k - 1
    <3> HIDE DEF m
    <3>2. m \in 1..Len(ms) /\ ns[k] = ms[m]
      BY <3>1 DEF m
    <3>3. b < ms[m].bnd /\ ms[m].bnd \in Int
      BY <3>2, <1>4, <1>6
    <3>4. ms[m].bnd \in BoundsOf(l) /\ ms[m].left >= i2 /\ ms[m].bnd <= e1[ms[m].left].bnd
          /\ ms[m].right >= j2 /\ ms[m].bnd <= e2[ms[m].right].bnd
          /\ ms[m].bnd \in {e1[ms[m].left].bnd, e2[ms[m].right].bnd}
      BY <3>2 DEF MergeOf
    <3>5. ms[m].left \in Int /\ ms[m].right \in Int /\ i2 >= i /\ j2 >= j
      BY <3>2, <1>4
    <3>6. ns[1].bnd = b
      BY <1>2, <1>3
    <3>7. ms[m].left >= i /\ ms[m].right >= j
      BY <3>4, <3>5
    <3>8. ns[1].bnd <= ns[k].bnd
      BY <3>2, <3>3, <3>6
    <3> QED BY <3>2, <3>4, <3>7, <3>8
  <2> QED BY <2>1, <2>2
<1>11. ASSUME NEW k \in 1..Len(ns), ns[k].left > i
       PROVE  k > 1 /\ e1[ns[k].left - 1].bnd <= ns[k - 1].bnd
  <2>1. k # 1 /\ k - 1 \in 1..Len(ms) /\ ns[k] = ms[k - 1] /\ k > 1
    BY <1>2, <1>3, <1>7, <1>11
  <2>2. ns[k - 1].bnd >= b
    <3>1. k - 1 \in 1..Len(ns)
      BY <1>l, <2>1
    <3>2. ns[k - 1].bnd \in Int
      <4>1. CASE k - 1 = 1
        BY <4>1, <1>2, <1>3
      <4>2. CASE k - 1 # 1
        BY <4>2, <3>1, <1>4, <1>7
      <4> QED BY <4>1, <4>2
    <3>3. ns[1].bnd = b /\ ns[1].bnd <= ns[k - 1].bnd
      BY <3>1, <1>2, <1>3, <1>10
    <3> QED BY <3>2, <3>3
  <2> DEFINE m == k - 1
  <2>3. m \in 1..Len(ms) /\ ns[k] = ms[m]
    BY <2>1
  <2> HIDE DEF m
  <2>4. ms[m].left >= i2 /\ ms[m].left \in 1..Len(e1)
    BY <2>3, <1>4 DEF MergeOf
  <2>5. CASE ms[m].left = i2
    <3>1. i2 = i + 1 /\ e1[i].bnd = b
      BY <2>5, <2>3, <1>11
    <3>2. ns[k].left - 1 = i
      BY <3>1, <2>5, <2>3
    <3> QED BY <3>1, <3>2, <2>1, <2>2
  <2>6. CASE ms[m].left # i2
    <3>1. ms[m].left > i2
      BY <2>4, <2>6
    <3>2. m > 1 /\ e1[ms[m].left - 1].bnd <= ms[m - 1].bnd
      BY <2>3, <3>1 DEF MergeOf
    <3>3. ns[m] = ms[m - 1]
      BY <3>2, <2>3, <1>2
    <3>4. ns[k - 1] = ms[m - 1]
      BY <3>3 DEF m
    <3> QED BY <3>2, <3>4, <2>1, <2>3
  <2> QED BY <2>5, <2>6
<1>12. ASSUME NEW k \in 1..Len(ns), ns[k].right > j
       PROVE  k > 1 /\ e2[ns[k].right - 1].bnd <= ns[k - 1].bnd
  <2>1. k # 1 /\ k - 1 \in 1..Len(ms) /\ ns[k] = ms[k - 1] /\ k > 1
    BY <1>2, <1>3, <1>7, <1>12
  <2>2. ns[k - 1].bnd >= b
    <3>1. k - 1 \in 1..Len(ns)
      BY <1>l, <2>1
    <3>2. ns[k - 1].bnd \in Int
      <4>1. CASE k - 1 = 1
        BY <4>1, <1>2, <1>3
      <4>2. CASE k - 1 # 1
        BY <4>2, <3>1, <1>4, <1>7
      <4> QED BY <4>1, <4>2
    <3>3. ns[1].bnd = b /\ ns[1].bnd <= ns[k - 1].bnd
      BY <3>1, <1>2, <1>3, <1>10
    <3> QED BY <3>2, <3>3
  <2> DEFINE m == k - 1
  <2>3. m \in 1..Len(ms) /\ ns[k] = ms[m]
    BY <2>1
  <2> HIDE DEF m
  <2>4. ms[m].right >= j2 /\ ms[m].right \in 1..Len(e2)
    BY <2>3, <1>4 DEF MergeOf
  <2>5. CASE ms[m].right = j2
    <3>1. j2 = j + 1 /\ e2[j].bnd = b
      BY <2>5, <2>3, <1>12
    <3>2. ns[k].right - 1 = j
      BY <3>1, <2>5, <2>3
    <3> QED BY <3>1, <3>2, <2>1, <2>2
  <2>6. CASE ms[m].right # j2
    <3>1. ms[m].right > j2
      BY <2>4, <2>6
    <3>2. m > 1 /\ e2[ms[m].right - 1].bnd <= ms[m - 1].bnd
      BY <2>3, <3>1 DEF MergeOf
    <3>3. ns[m] = ms[m - 1]
      BY <3>2, <2>3, <1>2
    <3>4. ns[k - 1] = ms[m - 1]
      BY <3>3 DEF m
    <3> QED BY <3>2, <3>4, <2>1, <2>3
  <2> QED BY <2>5, <2>6
<1>13. ns[1].bnd \in {e1[i].bnd, e2[j].bnd}
  BY <1>2, <1>3
<1>14. MergeOf(l, ns, e1, e2, i, j)
  <2>1. Len(ns) \in Nat /\ Len(ns) >= 1
    BY <1>0, <1>2
  <2> QED BY <2>1, <1>2, <1>8, <1>9, <1>10, <1>11, <1>12, <1>13 DEF MergeOf
<1> QED BY <1>14 DEF ns, x

\* The merge of two last edges is one element.
LEMMA MergeOne ==
    ASSUME NEW l \in Levels, IsCdd(l), NEW e1, NEW e2, CddList(l, e1), CddList(l, e2),
           NEW i \in 1..Len(e1), NEW j \in 1..Len(e2), e1[i].bnd = INF, e2[j].bnd = INF
    PROVE  MergeOf(l, <<[left |-> i, right |-> j, bnd |-> INF]>>, e1, e2, i, j)
<1> DEFINE x == [left |-> i, right |-> j, bnd |-> INF]
<1>1. x \in Pairs(e1, e2) /\ INF \in Int /\ INF \in BoundsOf(l)
  BY Basics DEF Pairs, BoundsOf
<1>2. x.left = i /\ x.right = j /\ x.bnd = INF
  OBVIOUS
<1> HIDE DEF x
<1>3. <<x>> \in Seq(Pairs(e1, e2)) /\ Len(<<x>>) = 1 /\ <<x>>[1] = x
  BY <1>1
<1>4. i \in Int /\ j \in Int
  OBVIOUS
<1>5. MergeOf(l, <<x>>, e1, e2, i, j)
  BY <1>1, <1>2, <1>3, <1>4 DEF MergeOf
<1> QED BY <1>5 DEF x

\* The minimum of two integers is one of them and bounds both.
LEMMA MinTwo == ASSUME NEW a \in Int, NEW b \in Int
                PROVE  /\ Min({a, b}) \in Int /\ Min({a, b}) \in {a, b}
                       /\ Min({a, b}) <= a /\ Min({a, b}) <= b
<1>1. Min({a, b}) = IF a <= b THEN a ELSE b
  BY MinIs
<1> DEFINE m == Min({a, b})
<1>2. m = IF a <= b THEN a ELSE b
  BY <1>1
<1> HIDE DEF m
<1>3. m \in Int /\ m \in {a, b} /\ m <= a /\ m <= b
  BY <1>2
<1> QED BY <1>3 DEF m

\* An edge that is not the last has a successor with a larger bound.
LEMMA NextEdge ==
    ASSUME NEW l \in Levels, NEW e, CddList(l, e), NEW k \in 1..Len(e)
    PROVE  /\ e[k].bnd \in Int /\ e[k].bnd <= INF /\ e \in EdgeLists /\ Len(e) \in Nat
           /\ e[k].bnd # INF => k + 1 \in 1..Len(e) /\ e[k].bnd < e[k + 1].bnd
<1>1. /\ e \in EdgeLists /\ Len(e) \in Nat /\ BoundList(BoundsIn(e)) /\ Len(BoundsIn(e)) = Len(e)
      /\ \A m \in 1..Len(e) : e[m].bnd \in Int /\ BoundsIn(e)[m] = e[m].bnd
  BY EdgesAreInt, BoundsInIs DEF CddList
<1>2. e[k].bnd <= INF
  BY <1>1, BoundsBelowInf
<1>3. ASSUME e[k].bnd # INF PROVE k + 1 \in 1..Len(e) /\ e[k].bnd < e[k + 1].bnd
  <2>1. k # Len(e)
    BY <1>1, <1>3 DEF BoundList
  <2>2. k + 1 \in 1..Len(e) /\ k \in 1..(Len(e) - 1)
    BY <2>1, <1>1
  <2> QED BY <2>2, <1>1 DEF BoundList
<1> QED BY <1>1, <1>2, <1>3

\* Edges that are left from p and q onwards.
Remaining(e1, e2, p, q) == (Len(e1) - p) + (Len(e2) - q) + 1
Merges(l, e1, e2, m) == \A p \in 1..Len(e1), q \in 1..Len(e2) :
    Remaining(e1, e2, p, q) <= m => MergeOf(l, MergeAt[m][<<e1, e2, p, q>>], e1, e2, p, q)

\* A step of the merge, given that the rest of the lists is merged.
LEMMA MergeMore ==
    ASSUME NEW l \in Levels, IsCdd(l), NEW e1, NEW e2, CddList(l, e1), CddList(l, e2),
           NEW m \in Nat, Merges(l, e1, e2, m),
           NEW p \in 1..Len(e1), NEW q \in 1..Len(e2), Remaining(e1, e2, p, q) <= m + 1
    PROVE  MergeOf(l, MergeAt[m + 1][<<e1, e2, p, q>>], e1, e2, p, q)
<1> DEFINE b == Min({e1[p].bnd, e2[q].bnd})
           p2 == IF e1[p].bnd = b THEN p + 1 ELSE p
           q2 == IF e2[q].bnd = b THEN q + 1 ELSE q
           x == [left |-> p, right |-> q, bnd |-> b]
           r == MergeAt[m][<<e1, e2, p2, q2>>]
<1>0. /\ e1[p].bnd \in Int /\ e1[p].bnd <= INF /\ e1 \in EdgeLists /\ Len(e1) \in Nat
      /\ e1[p].bnd # INF => p + 1 \in 1..Len(e1) /\ e1[p].bnd < e1[p + 1].bnd
  BY NextEdge
<1>00. /\ e2[q].bnd \in Int /\ e2[q].bnd <= INF /\ e2 \in EdgeLists /\ Len(e2) \in Nat
       /\ e2[q].bnd # INF => q + 1 \in 1..Len(e2) /\ e2[q].bnd < e2[q + 1].bnd
  BY NextEdge
<1>1. b \in Int /\ b \in {e1[p].bnd, e2[q].bnd} /\ b <= e1[p].bnd /\ b <= e2[q].bnd
  BY <1>0, <1>00, MinTwo
<1>2. MergeAt[m + 1][<<e1, e2, p, q>>] = <<x>> \o (IF b = INF THEN <<>> ELSE r)
  <2>1. p \in Nat /\ q \in Nat
    OBVIOUS
  <2>2. MergeAt[m + 1][<<e1, e2, p, q>>] = Merged(MergeAt[m], e1, e2, p, q)
    BY <2>1, <1>0, <1>00, MergeEquation
  <2> QED BY <2>2, Zenon DEF Merged
<1>3. /\ p2 = IF e1[p].bnd = b THEN p + 1 ELSE p
      /\ q2 = IF e2[q].bnd = b THEN q + 1 ELSE q
  OBVIOUS
<1> HIDE DEF b, r
<1>4. INF \in Int
  BY Basics
<1>5. CASE b = INF
  <2>1. e1[p].bnd = INF /\ e2[q].bnd = INF
    BY <1>0, <1>00, <1>1, <1>4, <1>5
  <2>2. <<x>> \o <<>> = <<x>>
    OBVIOUS
  <2>3. MergeOf(l, <<x>>, e1, e2, p, q)
    BY <2>1, <1>5, MergeOne
  <2> QED BY <2>2, <2>3, <1>2, <1>5
<1>6. CASE b # INF
  <2>1. p2 \in 1..Len(e1) /\ b < e1[p2].bnd
    <3>1. CASE e1[p].bnd = b
      <4>1. p2 = p + 1
        BY <3>1
      <4> QED BY <3>1, <4>1, <1>0, <1>6
    <3>2. CASE e1[p].bnd # b
      <4>1. p2 = p
        BY <3>2
      <4> QED BY <3>2, <4>1, <1>0, <1>1
    <3> QED BY <3>1, <3>2
  <2>2. q2 \in 1..Len(e2) /\ b < e2[q2].bnd
    <3>1. CASE e2[q].bnd = b
      <4>1. q2 = q + 1
        BY <3>1
      <4> QED BY <3>1, <4>1, <1>00, <1>6
    <3>2. CASE e2[q].bnd # b
      <4>1. q2 = q
        BY <3>2
      <4> QED BY <3>2, <4>1, <1>00, <1>1
    <3> QED BY <3>1, <3>2
  <2>3. p2 >= p /\ q2 >= q /\ (p2 = p + 1 \/ q2 = q + 1)
    BY <1>1
  <2> HIDE DEF p2, q2
  <2>4. Remaining(e1, e2, p2, q2) <= m
    <3>1. Len(e1) \in Nat /\ Len(e2) \in Nat /\ p2 \in Int /\ q2 \in Int
      BY <1>0, <1>00, <2>1, <2>2
    <3> QED BY <3>1, <2>3 DEF Remaining
  <2>5. MergeOf(l, r, e1, e2, p2, q2)
    BY <2>1, <2>2, <2>4 DEF Merges, r
  <2>6. MergeOf(l, <<[left |-> p, right |-> q, bnd |-> b]>> \o r, e1, e2, p, q)
    BY <2>1, <2>2, <2>5, <1>1, <1>3, <1>6, MergeCons
  <2> QED BY <2>6, <1>2, <1>6
<1> QED BY <1>5, <1>6

\* By induction on the number of edges left, the merge is right from any pair of edges.
LEMMA MergeFrom ==
    ASSUME NEW l \in Levels, IsCdd(l), NEW e1, NEW e2, CddList(l, e1), CddList(l, e2), NEW n \in Nat
    PROVE  Merges(l, e1, e2, n)
<1> DEFINE T == {m \in Nat : Merges(l, e1, e2, m)}
<1>1. 0 \in T
  <2>1. ASSUME NEW p \in 1..Len(e1), NEW q \in 1..Len(e2) PROVE ~(Remaining(e1, e2, p, q) <= 0)
    <3>1. Len(e1) \in Nat /\ Len(e2) \in Nat
      BY NextEdge
    <3> QED BY <3>1 DEF Remaining
  <2> QED BY <2>1 DEF Merges
<1>2. ASSUME NEW m \in Nat, m \in T PROVE m + 1 \in T
  <2>1. \A p \in 1..Len(e1), q \in 1..Len(e2) :
            Remaining(e1, e2, p, q) <= m + 1 => MergeOf(l, MergeAt[m + 1][<<e1, e2, p, q>>], e1, e2, p, q)
    BY <1>2, MergeMore
  <2>2. Merges(l, e1, e2, m + 1)
    BY <2>1 DEF Merges
  <2> QED BY <2>2
<1> HIDE DEF T
<1>3. \A m \in Nat : m \in T
  BY <1>1, <1>2, Induction
<1> QED BY <1>3 DEF T

\* The intervals of the merge are those of both lists.
LEMMA MergeIs ==
    ASSUME NEW l \in Levels, IsCdd(l), NEW e1, NEW e2, CddList(l, e1), CddList(l, e2),
           NEW ms, ms = Merge(e1, e2)
    PROVE  /\ ms \in Seq(Pairs(e1, e2)) /\ Len(ms) \in Nat /\ DOMAIN ms = 1..Len(ms)
           /\ \A k \in 1..Len(ms) : /\ ms[k].left \in 1..Len(e1) /\ ms[k].right \in 1..Len(e2)
                                    /\ Bounds(ms)[k] \in BoundsOf(l)
           /\ BoundList(Bounds(ms)) /\ Len(Bounds(ms)) = Len(ms)
           /\ \A d \in Int, k \in 1..Len(ms) : Covers(Bounds(ms), d, k) =>
                  Covers(BoundsIn(e1), d, ms[k].left) /\ Covers(BoundsIn(e2), d, ms[k].right)
           /\ \A k \in 1..Len(ms) : Bounds(ms)[k] \in {e1[ms[k].left].bnd, e2[ms[k].right].bnd}
<1>0. /\ Len(e1) \in Nat /\ Len(e2) \in Nat /\ Len(e1) >= 1 /\ Len(e2) >= 1
      /\ BoundList(BoundsIn(e1)) /\ Len(BoundsIn(e1)) = Len(e1)
      /\ BoundList(BoundsIn(e2)) /\ Len(BoundsIn(e2)) = Len(e2)
      /\ \A k \in 1..Len(e1) : e1[k].bnd \in Int /\ BoundsIn(e1)[k] = e1[k].bnd /\ e1[k].bnd <= INF
      /\ \A k \in 1..Len(e2) : e2[k].bnd \in Int /\ BoundsIn(e2)[k] = e2[k].bnd /\ e2[k].bnd <= INF
  <2>1. /\ Len(e1) \in Nat /\ Len(e2) \in Nat
        /\ BoundList(BoundsIn(e1)) /\ Len(BoundsIn(e1)) = Len(e1)
        /\ BoundList(BoundsIn(e2)) /\ Len(BoundsIn(e2)) = Len(e2)
        /\ \A k \in 1..Len(e1) : e1[k].bnd \in Int /\ BoundsIn(e1)[k] = e1[k].bnd
        /\ \A k \in 1..Len(e2) : e2[k].bnd \in Int /\ BoundsIn(e2)[k] = e2[k].bnd
    BY EdgesAreInt, BoundsInIs DEF CddList
  <2>2. Len(e1) >= 1 /\ Len(e2) >= 1
    BY <2>1 DEF BoundList
  <2> QED BY <2>1, <2>2, BoundsBelowInf
<1>1. MergeOf(l, ms, e1, e2, 1, 1)
  <2>1. Len(e1) + Len(e2) \in Nat /\ 1 \in 1..Len(e1) /\ 1 \in 1..Len(e2)
        /\ Remaining(e1, e2, 1, 1) <= Len(e1) + Len(e2)
    BY <1>0 DEF Remaining
  <2>2. MergeOf(l, MergeAt[Len(e1) + Len(e2)][<<e1, e2, 1, 1>>], e1, e2, 1, 1)
    BY <2>1, MergeFrom DEF Merges
  <2> QED BY <2>2 DEF Merge
<1>2. ms \in Seq(Pairs(e1, e2)) /\ Len(ms) \in Nat /\ Len(ms) >= 1
  BY <1>1 DEF MergeOf
<1>3. DOMAIN ms = 1..Len(ms)
  BY <1>2
<1>4. \A k \in 1..Len(ms) : ms[k].left \in 1..Len(e1) /\ ms[k].right \in 1..Len(e2) /\ ms[k].bnd \in Int
  <2> SUFFICES ASSUME NEW k \in 1..Len(ms) PROVE ms[k] \in Pairs(e1, e2)
    BY DEF Pairs
  <2> QED BY <1>2, SeqElem
<1>5. Bounds(ms) \in Seq(Int) /\ Len(Bounds(ms)) = Len(ms) /\ \A k \in 1..Len(ms) : Bounds(ms)[k] = ms[k].bnd
  BY <1>2, <1>3, <1>4, SeqDef DEF Bounds
<1>6. BoundList(Bounds(ms))
  <2>1. Bounds(ms)[Len(ms)] = INF
    BY <1>1, <1>2, <1>5 DEF MergeOf
  <2>2. ASSUME NEW k \in 1..(Len(ms) - 1) PROVE Bounds(ms)[k] < Bounds(ms)[k + 1]
    <3>1. k \in 1..Len(ms) /\ k + 1 \in 1..Len(ms)
      BY <1>2
    <3>2. ms[k].bnd < ms[k + 1].bnd
      BY <1>1 DEF MergeOf
    <3> QED BY <3>1, <3>2, <1>5
  <2> QED BY <2>1, <2>2, <1>2, <1>5 DEF BoundList
<1>7. ASSUME NEW d \in Int, NEW k \in 1..Len(ms), Covers(Bounds(ms), d, k)
      PROVE  Covers(BoundsIn(e1), d, ms[k].left) /\ Covers(BoundsIn(e2), d, ms[k].right)
  <2>1. Below(d, ms[k].bnd) /\ ms[k].bnd \in Int
    BY <1>4, <1>5, <1>7 DEF Covers
  <2>2. k > 1 => k - 1 \in 1..Len(ms) /\ ~Below(d, ms[k - 1].bnd)
    <3> SUFFICES ASSUME k > 1 PROVE k - 1 \in 1..Len(ms) /\ ~Below(d, ms[k - 1].bnd)
      OBVIOUS
    <3>1. k - 1 \in 1..Len(ms) /\ k # 1
      OBVIOUS
    <3>2. ~Below(d, Bounds(ms)[k - 1])
      BY <3>1, <1>7 DEF Covers
    <3> QED BY <3>1, <3>2, <1>5
  <2>3. Covers(BoundsIn(e1), d, ms[k].left)
    <3> DEFINE p == ms[k].left
    <3>1. p \in 1..Len(e1) /\ ms[k].bnd <= e1[p].bnd /\ e1[p].bnd \in Int /\ e1[p].bnd <= INF
      BY <1>0, <1>1, <1>4 DEF MergeOf
    <3>2. Below(d, e1[p].bnd)
      BY <2>1, <3>1, BelowMonotone
    <3>3. ASSUME p # 1 PROVE ~Below(d, e1[p - 1].bnd) /\ p - 1 \in 1..Len(e1)
      <4>1. p - 1 \in 1..Len(e1) /\ p > 1
        BY <3>1, <3>3
      <4>2. k > 1 /\ e1[p - 1].bnd <= ms[k - 1].bnd
        BY <4>1, <1>1 DEF MergeOf
      <4>3. e1[p - 1].bnd \in Int /\ ms[k - 1].bnd \in Int /\ ms[k - 1].bnd <= INF
        <5>1. k - 1 \in 1..Len(ms)
          BY <4>2, <2>2
        <5>2. Bounds(ms)[k - 1] <= INF
          BY <5>1, <1>5, <1>6, BoundsBelowInf
        <5> QED BY <5>1, <5>2, <4>1, <1>0, <1>4, <1>5
      <4>4. ~Below(d, e1[p - 1].bnd)
        BY <4>2, <4>3, <2>2, BelowMonotone
      <4> QED BY <4>1, <4>4
    <3> HIDE DEF p
    <3>4. Covers(BoundsIn(e1), d, p)
      BY <3>1, <3>2, <3>3, <1>0 DEF Covers
    <3> QED BY <3>4 DEF p
  <2>4. Covers(BoundsIn(e2), d, ms[k].right)
    <3> DEFINE p == ms[k].right
    <3>1. p \in 1..Len(e2) /\ ms[k].bnd <= e2[p].bnd /\ e2[p].bnd \in Int /\ e2[p].bnd <= INF
      BY <1>0, <1>1, <1>4 DEF MergeOf
    <3>2. Below(d, e2[p].bnd)
      BY <2>1, <3>1, BelowMonotone
    <3>3. ASSUME p # 1 PROVE ~Below(d, e2[p - 1].bnd) /\ p - 1 \in 1..Len(e2)
      <4>1. p - 1 \in 1..Len(e2) /\ p > 1
        BY <3>1, <3>3
      <4>2. k > 1 /\ e2[p - 1].bnd <= ms[k - 1].bnd
        BY <4>1, <1>1 DEF MergeOf
      <4>3. e2[p - 1].bnd \in Int /\ ms[k - 1].bnd \in Int /\ ms[k - 1].bnd <= INF
        <5>1. k - 1 \in 1..Len(ms)
          BY <4>2, <2>2
        <5>2. Bounds(ms)[k - 1] <= INF
          BY <5>1, <1>5, <1>6, BoundsBelowInf
        <5> QED BY <5>1, <5>2, <4>1, <1>0, <1>4, <1>5
      <4>4. ~Below(d, e2[p - 1].bnd)
        BY <4>2, <4>3, <2>2, BelowMonotone
      <4> QED BY <4>1, <4>4
    <3> HIDE DEF p
    <3>4. Covers(BoundsIn(e2), d, p)
      BY <3>1, <3>2, <3>3, <1>0 DEF Covers
    <3> QED BY <3>4 DEF p
  <2> QED BY <2>3, <2>4
<1>8. \A k \in 1..Len(ms) : Bounds(ms)[k] \in BoundsOf(l)
  BY <1>1, <1>5 DEF MergeOf
<1>9. \A d \in Int, k \in 1..Len(ms) : Covers(Bounds(ms), d, k) =>
          Covers(BoundsIn(e1), d, ms[k].left) /\ Covers(BoundsIn(e2), d, ms[k].right)
  BY <1>7
<1>10. \A k \in 1..Len(ms) : Bounds(ms)[k] \in {e1[ms[k].left].bnd, e2[ms[k].right].bnd}
  BY <1>1, <1>5 DEF MergeOf
<1> HIDE DEF Bounds
<1> QED BY <1>2, <1>3, <1>4, <1>5, <1>6, <1>8, <1>9, <1>10

\* What a merge of two edge lists gives, under one name.
MergeFacts(l, e1, e2, ms) ==
    /\ Len(ms) \in Nat /\ DOMAIN ms = 1..Len(ms)
    /\ \A k \in 1..Len(ms) : /\ ms[k].left \in 1..Len(e1) /\ ms[k].right \in 1..Len(e2)
                             /\ Bounds(ms)[k] \in BoundsOf(l)
    /\ BoundList(Bounds(ms)) /\ Len(Bounds(ms)) = Len(ms)
    /\ \A d \in Int, k \in 1..Len(ms) : Covers(Bounds(ms), d, k) =>
           Covers(BoundsIn(e1), d, ms[k].left) /\ Covers(BoundsIn(e2), d, ms[k].right)
    /\ \A k \in 1..Len(ms) : Bounds(ms)[k] \in {e1[ms[k].left].bnd, e2[ms[k].right].bnd}
\* MergeIs under that name.
LEMMA MergedIs ==
    ASSUME NEW l \in Levels, IsCdd(l), NEW e1, NEW e2, CddList(l, e1), CddList(l, e2),
           NEW ms, ms = Merge(e1, e2)
    PROVE  MergeFacts(l, e1, e2, ms)
<1> DEFINE A == Len(ms) \in Nat /\ DOMAIN ms = 1..Len(ms)
           B == \A k \in 1..Len(ms) : /\ ms[k].left \in 1..Len(e1) /\ ms[k].right \in 1..Len(e2)
                                      /\ Bounds(ms)[k] \in BoundsOf(l)
           C == BoundList(Bounds(ms)) /\ Len(Bounds(ms)) = Len(ms)
           D == \A d \in Int, k \in 1..Len(ms) : Covers(Bounds(ms), d, k) =>
                    Covers(BoundsIn(e1), d, ms[k].left) /\ Covers(BoundsIn(e2), d, ms[k].right)
           E == \A k \in 1..Len(ms) : Bounds(ms)[k] \in {e1[ms[k].left].bnd, e2[ms[k].right].bnd}
<1>1. A
  BY MergeIs
<1>2. B
  BY MergeIs
<1>3. C
  BY MergeIs
<1>4. D
  BY MergeIs
<1>5. E
  BY MergeIs
<1> QED BY <1>1, <1>2, <1>3, <1>4, <1>5 DEF MergeFacts

-----------------------------------------------------------------------------
(* cdd_apply.                                                              *)

ApplyStep(h, below) ==
    [t \in Ops \X ddNode \X ddNode |->
        IF IsTrivial(t[1], t[2], t[3]) THEN Trivial(t[1], t[2], t[3])
        ELSE Applied(below, t[1], t[2], t[3])]
ApplyRec == INSTANCE Recursion WITH Base <- <<>>, Step <- ApplyStep

\* cdd_apply_rec one level down: terminal cases, then one call for every merged edge.
LEMMA ApplyEquation ==
    ASSUME NEW h \in Nat, NEW op \in Ops, NEW l \in ddNode, NEW r \in ddNode
    PROVE  ApplyAt[h + 1][<<op, l, r>>] =
               IF IsTrivial(op, l, r) THEN Trivial(op, l, r) ELSE Applied(ApplyAt[h], op, l, r)
<1>1. ApplyAt = ApplyRec!F
  BY DEF ApplyAt, ApplyRec!F, ApplyStep
<1> HIDE DEF ApplyAt
<1>2. ApplyAt[h + 1] = ApplyStep(h + 1, ApplyAt[h])
  BY <1>1, ApplyRec!Def
<1> QED BY <1>2 DEF ApplyStep

\* The operators on terminals.
OpLeaf(op, a, b) == IF op = "and" THEN IF a = 1 /\ b = 1 THEN 1 ELSE 0
                                  ELSE IF a = b THEN 0 ELSE 1
\* What cdd_apply promises of the result d.
Computes(op, l, r, d) ==
    /\ d \in Cdds /\ (LevelOf(d) >= LevelOf(l) \/ LevelOf(d) >= LevelOf(r))
    /\ \A v \in Proper : Leaf(d, v) = OpLeaf(op, Leaf(l, v), Leaf(r, v))

\* Complementing a diagram complements what it says of every valuation.
LEMMA Complement ==
    ASSUME NEW d \in Cdds
    PROVE  /\ Neg(d) \in Cdds /\ LevelOf(Neg(d)) = LevelOf(d) /\ Neg(Neg(d)) = d
           /\ IsTerminal(Neg(d)) <=> IsTerminal(d)
           /\ \A v \in Proper : Leaf(Neg(d), v) = 1 - Leaf(d, v)
<1>1. /\ Neg(d) \in Cdds /\ LevelOf(Neg(d)) = LevelOf(d) /\ Neg(Neg(d)) = d
      /\ IsTerminal(Neg(d)) <=> IsTerminal(d)
  BY Negations DEF Neg
<1>2. ASSUME NEW v \in Proper PROVE Leaf(Neg(d), v) = 1 - Leaf(d, v)
  <2>1. Leaf(Neg(d), v) = (Leaf(d, v) + 1) % 2 /\ Leaf(d, v) \in {0, 1}
    BY LeafNegated, LeafBelow DEF Neg
  <2>2. CASE Leaf(d, v) = 0
    BY <2>1, <2>2
  <2>3. CASE Leaf(d, v) = 1
    BY <2>1, <2>3
  <2> QED BY <2>1, <2>2, <2>3
<1> QED BY <1>1, <1>2

\* True says 1 and false says 0 of every valuation.
LEMMA TerminalLeaf == ASSUME NEW v \in Proper PROVE Leaf(cddtrue, v) = 1 /\ Leaf(cddfalse, v) = 0
<1>1. cddtrue \in Cdds /\ cddfalse \in Cdds /\ IsTerminal(cddtrue) /\ IsTerminal(cddfalse)
  BY Terminals
<1>2. Leaf(cddtrue, v) = cddtrue.neg /\ Leaf(cddfalse, v) = cddfalse.neg
  BY <1>1, LeafBelow
<1> QED BY <1>2 DEF cddtrue, cddfalse

\* The terminal cases of cdd_apply_rec are right.
LEMMA TrivialIs ==
    ASSUME NEW op \in Ops, NEW l \in Cdds, NEW r \in Cdds, IsTrivial(op, l, r)
    PROVE  Computes(op, l, r, Trivial(op, l, r))
<1>1. /\ cddtrue \in Cdds /\ cddfalse \in Cdds
      /\ LevelOf(cddtrue) = MAXLEVEL /\ LevelOf(cddfalse) = MAXLEVEL
  BY Terminals
<1>2. /\ LevelOf(l) \in Nat /\ LevelOf(l) <= MAXLEVEL /\ LevelOf(r) \in Nat /\ LevelOf(r) <= MAXLEVEL
      /\ MAXLEVEL \in Nat
  BY CddLevel
<1>3. \A v \in Proper : Leaf(l, v) \in {0, 1} /\ Leaf(r, v) \in {0, 1}
  BY LeafBelow
<1>4. \A v \in Proper : Leaf(cddtrue, v) = 1 /\ Leaf(cddfalse, v) = 0
  BY TerminalLeaf
<1>5. /\ Neg(l) \in Cdds /\ LevelOf(Neg(l)) = LevelOf(l) /\ Neg(r) \in Cdds /\ LevelOf(Neg(r)) = LevelOf(r)
      /\ \A v \in Proper : Leaf(Neg(l), v) = 1 - Leaf(l, v) /\ Leaf(Neg(r), v) = 1 - Leaf(r, v)
  BY Complement
<1>6. \/ l = r \/ l = Neg(r) \/ l = cddtrue \/ l = cddfalse \/ r = cddtrue \/ r = cddfalse
  BY TerminalIs DEF IsTrivial
<1>a. /\ Neg(cddtrue) = cddfalse /\ Neg(cddfalse) = cddtrue /\ cddtrue # cddfalse
      /\ l # Neg(l) /\ r # Neg(r) /\ Neg(Neg(l)) = l /\ Neg(Neg(r)) = r
  <2>1. Neg(cddtrue) = cddfalse /\ Neg(cddfalse) = cddtrue
    BY DEF Neg, NegCond, cddtrue, cddfalse
  <2>2. l.neg \in {0, 1} /\ Neg(l).neg = (l.neg + 1) % 2 /\ r.neg \in {0, 1} /\ Neg(r).neg = (r.neg + 1) % 2
    BY PointerFacts, Negations DEF Neg
  <2>3. l.neg # Neg(l).neg /\ r.neg # Neg(r).neg
    BY <2>2
  <2> QED BY <2>1, <2>3, Complement, Terminals
<1>7. CASE op = "and"
  <2>1. CASE l = r \/ r = cddtrue
    <3>1. Trivial(op, l, r) = l
      BY <1>a, <1>7, <2>1 DEF Trivial
    <3> QED BY <3>1, <1>2, <1>3, <1>4, <1>7, <2>1 DEF Computes, OpLeaf
  <2>2. CASE ~(l = r \/ r = cddtrue) /\ (l = cddfalse \/ r = cddfalse \/ l = Neg(r))
    <3>1. Trivial(op, l, r) = cddfalse
      BY <1>a, <1>7, <2>2 DEF Trivial
    <3> QED BY <3>1, <1>1, <1>2, <1>3, <1>4, <1>5, <1>7, <2>2 DEF Computes, OpLeaf
  <2>3. CASE ~(l = r \/ r = cddtrue) /\ ~(l = cddfalse \/ r = cddfalse \/ l = Neg(r)) /\ l = cddtrue
    <3>1. Trivial(op, l, r) = r
      BY <1>a, <1>7, <2>3 DEF Trivial
    <3> QED BY <3>1, <1>1, <1>2, <1>3, <1>4, <1>7, <2>3 DEF Computes, OpLeaf
  <2> QED BY <2>1, <2>2, <2>3, <1>6
<1>8. CASE op # "and"
  <2>1. CASE l = r
    <3>1. Trivial(op, l, r) = cddfalse
      BY <1>a, <1>8, <2>1 DEF Trivial
    <3> QED BY <3>1, <1>1, <1>2, <1>4, <1>8, <2>1 DEF Computes, OpLeaf
  <2>2. CASE l # r /\ l = Neg(r)
    <3>1. Trivial(op, l, r) = cddtrue
      BY <1>a, <1>8, <2>2 DEF Trivial
    <3>2. \A v \in Proper : Leaf(l, v) # Leaf(r, v)
      BY <1>3, <1>5, <2>2
    <3> QED BY <3>1, <3>2, <1>1, <1>2, <1>4, <1>8 DEF Computes, OpLeaf
  <2>3. CASE l # r /\ l # Neg(r) /\ l = cddfalse
    <3>1. Trivial(op, l, r) = r
      BY <1>a, <1>8, <2>3 DEF Trivial
    <3> QED BY <3>1, <1>2, <1>3, <1>4, <1>8, <2>3 DEF Computes, OpLeaf
  <2>4. CASE l # r /\ l # Neg(r) /\ l # cddfalse /\ r = cddfalse
    <3>1. Trivial(op, l, r) = l
      BY <1>a, <1>8, <2>4 DEF Trivial
    <3> QED BY <3>1, <1>2, <1>3, <1>4, <1>8, <2>4 DEF Computes, OpLeaf
  <2>5. CASE l # r /\ l # Neg(r) /\ l # cddfalse /\ r # cddfalse /\ l = cddtrue
    <3>1. Trivial(op, l, r) = Neg(r)
      BY <1>a, <1>8, <2>5 DEF Trivial
    <3> QED BY <3>1, <1>2, <1>3, <1>4, <1>5, <1>8, <2>5 DEF Computes, OpLeaf
  <2>6. CASE l # r /\ l # Neg(r) /\ l # cddfalse /\ r # cddfalse /\ l # cddtrue /\ r = cddtrue
    <3>1. Trivial(op, l, r) = Neg(l)
      BY <1>a, <1>8, <2>6 DEF Trivial
    <3> QED BY <3>1, <1>2, <1>3, <1>4, <1>5, <1>8, <2>6 DEF Computes, OpLeaf
  <2> QED BY <2>1, <2>2, <2>3, <2>4, <2>5, <2>6, <1>6
<1> QED BY <1>7, <1>8

\* The level at which an operator takes two operands apart.
LEMMA TopLevel ==
    ASSUME NEW l \in Cdds, NEW r \in Cdds, ~IsTerminal(l), ~IsTerminal(r),
           NEW level, level = Min({LevelOf(l), LevelOf(r)})
    PROVE  /\ level \in Levels /\ level \in Nat /\ level <= LevelOf(l) /\ level <= LevelOf(r)
           /\ level \in {LevelOf(l), LevelOf(r)}
<1>1. LevelOf(l) \in Int /\ LevelOf(r) \in Int
  BY CddLevel
<1>2. level \in {LevelOf(l), LevelOf(r)} /\ level <= LevelOf(l) /\ level <= LevelOf(r)
  BY <1>1, MinTwo
<1>3. LevelOf(l) \in Levels /\ LevelOf(r) \in Levels
  BY InnerFacts
<1>4. level \in Levels
  BY <1>2, <1>3
<1> QED BY <1>2, <1>4, LevelRange

\* The step of the recursion, when the results for the children are right.
LEMMA AppliedIs ==
    ASSUME NEW rec, NEW op \in Ops, NEW l \in Cdds, NEW r \in Cdds, ~IsTerminal(l), ~IsTerminal(r),
           \A a \in Cdds, b \in Cdds :
               LevelOf(a) > Min({LevelOf(l), LevelOf(r)}) /\ LevelOf(b) > Min({LevelOf(l), LevelOf(r)}) =>
                   Computes(op, a, b, rec[<<op, a, b>>])
    PROVE  Computes(op, l, r, Applied(rec, op, l, r))
<1> DEFINE level == Min({LevelOf(l), LevelOf(r)})
           le == EdgesAt(l, level)
           re == EdgesAt(r, level)
           ms == Merge(le, re)
           Both(i, j) == rec[<<op, NegCond(le[i].child, l.neg), NegCond(re[j].child, r.neg)>>]
           cs == [k \in DOMAIN ms |-> Both(ms[k].left, ms[k].right)]
           Branch(k) == Both(Min({k, Len(le)}), Min({k, Len(re)}))
           d == Applied(rec, op, l, r)
<1>1. /\ level \in Levels /\ level \in Nat /\ level <= LevelOf(l) /\ level <= LevelOf(r)
      /\ level \in {LevelOf(l), LevelOf(r)}
  BY TopLevel
<1>2. \A a \in Cdds, b \in Cdds : LevelOf(a) > level /\ LevelOf(b) > level =>
          Computes(op, a, b, rec[<<op, a, b>>])
  OBVIOUS
<1>3. d = IF IsCdd(level) THEN Pack(level, cs, Bounds(ms)) ELSE MakeBdd(level, Branch(1), Branch(2))
  BY Zenon DEF Applied
<1> HIDE DEF d, level
<1>4. ASSUME NEW a \in Cdds, NEW b \in Cdds, LevelOf(a) > level, LevelOf(b) > level,
             NEW c, c = rec[<<op, a, b>>]
      PROVE  /\ c \in Cdds /\ LevelOf(c) > level
             /\ \A v \in Proper : Leaf(c, v) = OpLeaf(op, Leaf(a, v), Leaf(b, v))
  <2>1. Computes(op, a, b, c)
    BY <1>2, <1>4
  <2>2. LevelOf(c) \in Nat /\ LevelOf(a) \in Nat /\ LevelOf(b) \in Nat
    BY <2>1, CddLevel DEF Computes
  <2> QED BY <2>1, <2>2, <1>1, <1>4 DEF Computes
<1>5. CASE IsCdd(level)
  <2>1. /\ CddList(level, le)
        /\ \A k \in 1..Len(le) : NegCond(le[k].child, l.neg) \in Cdds /\ LevelOf(NegCond(le[k].child, l.neg)) > level
        /\ \A v \in Proper, k \in 1..Len(le) : Covers(BoundsIn(le), v[level], k) =>
               Leaf(l, v) = Leaf(NegCond(le[k].child, l.neg), v)
    BY <1>1, <1>5, EdgesAtCdd
  <2>2. /\ CddList(level, re)
        /\ \A k \in 1..Len(re) : NegCond(re[k].child, r.neg) \in Cdds /\ LevelOf(NegCond(re[k].child, r.neg)) > level
        /\ \A v \in Proper, k \in 1..Len(re) : Covers(BoundsIn(re), v[level], k) =>
               Leaf(r, v) = Leaf(NegCond(re[k].child, r.neg), v)
    BY <1>1, <1>5, EdgesAtCdd
  <2>0. ms = Merge(le, re)
    OBVIOUS
  <2> HIDE DEF le, re, ms
  <2>00. level \in Levels /\ IsCdd(level) /\ CddList(level, le) /\ CddList(level, re)
    BY <1>1, <1>5, <2>1, <2>2
  <2>000. MergeFacts(level, le, re, ms)
    BY <2>00, <2>0, MergedIs
  <2>3. /\ Len(ms) \in Nat /\ DOMAIN ms = 1..Len(ms)
        /\ \A k \in 1..Len(ms) : /\ ms[k].left \in 1..Len(le) /\ ms[k].right \in 1..Len(re)
                                 /\ Bounds(ms)[k] \in BoundsOf(level)
        /\ BoundList(Bounds(ms)) /\ Len(Bounds(ms)) = Len(ms)
        /\ \A x \in Int, k \in 1..Len(ms) : Covers(Bounds(ms), x, k) =>
               Covers(BoundsIn(le), x, ms[k].left) /\ Covers(BoundsIn(re), x, ms[k].right)
    BY <2>000 DEF MergeFacts
  <2>4. ASSUME NEW k \in 1..Len(ms)
        PROVE  /\ cs[k] \in Cdds /\ LevelOf(cs[k]) > level
               /\ \A v \in Proper : Leaf(cs[k], v) = OpLeaf(op, Leaf(NegCond(le[ms[k].left].child, l.neg), v),
                                                                Leaf(NegCond(re[ms[k].right].child, r.neg), v))
    <3> DEFINE a == NegCond(le[ms[k].left].child, l.neg)
               b == NegCond(re[ms[k].right].child, r.neg)
    <3>1. a \in Cdds /\ LevelOf(a) > level /\ b \in Cdds /\ LevelOf(b) > level
      BY <2>1, <2>2, <2>3
    <3>2. cs[k] = rec[<<op, a, b>>]
      BY <2>3
    <3> HIDE DEF a, b, cs
    <3>3. /\ cs[k] \in Cdds /\ LevelOf(cs[k]) > level
          /\ \A v \in Proper : Leaf(cs[k], v) = OpLeaf(op, Leaf(a, v), Leaf(b, v))
      BY <3>1, <3>2, <1>4
    <3> QED BY <3>3 DEF a, b
  <2>5. cs \in Seq(Cdds) /\ Len(cs) = Len(ms)
    <3>1. DOMAIN cs = 1..Len(ms)
      BY <2>3
    <3>2. cs = [k \in 1..Len(ms) |-> cs[k]]
      BY <2>3
    <3> HIDE DEF cs
    <3>3. cs \in [1..Len(ms) -> Cdds]
      BY <3>2, <2>4
    <3> QED BY <3>3, <2>3, SeqDef
  <2> HIDE DEF cs
  <2>6. Packable(level, cs, Bounds(ms))
    BY <2>3, <2>4, <2>5 DEF Packable
  <2>7. /\ d \in Cdds /\ LevelOf(d) >= level
        /\ \A v \in Proper, k \in 1..Len(cs) : Covers(Bounds(ms), v[level], k) => Leaf(d, v) = Leaf(cs[k], v)
    BY <1>1, <1>3, <1>5, <2>6, PackIs
  <2>8. ASSUME NEW v \in Proper PROVE Leaf(d, v) = OpLeaf(op, Leaf(l, v), Leaf(r, v))
    <3>1. v[level] \in Int
      BY <1>1 DEF Proper, Vals
    <3>2. PICK k : Covers(Bounds(ms), v[level], k)
      BY <3>1, <2>3, CoverExists
    <3>3. k \in 1..Len(ms)
      BY <3>2, <2>3 DEF Covers
    <3>4. Covers(BoundsIn(le), v[level], ms[k].left) /\ Covers(BoundsIn(re), v[level], ms[k].right)
      BY <3>1, <3>2, <3>3, <2>3
    <3>5. Leaf(l, v) = Leaf(NegCond(le[ms[k].left].child, l.neg), v)
      BY <3>3, <3>4, <2>1, <2>3
    <3>6. Leaf(r, v) = Leaf(NegCond(re[ms[k].right].child, r.neg), v)
      BY <3>3, <3>4, <2>2, <2>3
    <3>7. Leaf(d, v) = Leaf(cs[k], v)
      BY <3>2, <3>3, <2>5, <2>7
    <3> QED BY <3>3, <3>5, <3>6, <3>7, <2>4
  <2>9. LevelOf(d) >= LevelOf(l) \/ LevelOf(d) >= LevelOf(r)
    BY <2>7, <1>1
  <2> QED BY <2>7, <2>8, <2>9 DEF Computes, d
<1>6. CASE ~IsCdd(level)
  <2>1. /\ \A k \in {1, 2} : BranchAt(l, level, k) \in Cdds /\ LevelOf(BranchAt(l, level, k)) > level
        /\ \A v \in Proper : v[level] \in {0, 1} /\ Leaf(l, v) = Leaf(BranchAt(l, level, v[level] + 1), v)
    BY <1>1, <1>6, BranchAtBdd
  <2>2. /\ \A k \in {1, 2} : BranchAt(r, level, k) \in Cdds /\ LevelOf(BranchAt(r, level, k)) > level
        /\ \A v \in Proper : v[level] \in {0, 1} /\ Leaf(r, v) = Leaf(BranchAt(r, level, v[level] + 1), v)
    BY <1>1, <1>6, BranchAtBdd
  <2>3. ASSUME NEW k \in {1, 2}
        PROVE  /\ Branch(k) \in Cdds /\ LevelOf(Branch(k)) > level
               /\ \A v \in Proper : Leaf(Branch(k), v) = OpLeaf(op, Leaf(BranchAt(l, level, k), v), Leaf(BranchAt(r, level, k), v))
    <3>1. Branch(k) = rec[<<op, BranchAt(l, level, k), BranchAt(r, level, k)>>]
      BY DEF BranchAt
    <3>2. BranchAt(l, level, k) \in Cdds /\ LevelOf(BranchAt(l, level, k)) > level
      BY <2>1
    <3>3. BranchAt(r, level, k) \in Cdds /\ LevelOf(BranchAt(r, level, k)) > level
      BY <2>2
    <3> HIDE DEF Branch
    <3> QED BY <3>1, <3>2, <3>3, <1>4
  <2> HIDE DEF Branch
  <2>4. Branch(1) \in Cdds /\ LevelOf(Branch(1)) > level /\ Branch(2) \in Cdds /\ LevelOf(Branch(2)) > level
    BY <2>3
  <2>5. /\ d \in Cdds /\ LevelOf(d) >= level
        /\ \A v \in Proper : Leaf(d, v) = IF v[level] = 0 THEN Leaf(Branch(1), v) ELSE Leaf(Branch(2), v)
    BY <1>1, <1>3, <1>6, <2>4, MakeBddIs
  <2>6. ASSUME NEW v \in Proper PROVE Leaf(d, v) = OpLeaf(op, Leaf(l, v), Leaf(r, v))
    <3>1. CASE v[level] = 0
      <4>1. v[level] + 1 = 1
        BY <3>1
      <4>2. Leaf(l, v) = Leaf(BranchAt(l, level, 1), v) /\ Leaf(r, v) = Leaf(BranchAt(r, level, 1), v)
        BY <4>1, <2>1, <2>2
      <4> QED BY <4>2, <3>1, <2>3, <2>5
    <3>2. CASE v[level] = 1
      <4>1. v[level] + 1 = 2
        BY <3>2
      <4>2. Leaf(l, v) = Leaf(BranchAt(l, level, 2), v) /\ Leaf(r, v) = Leaf(BranchAt(r, level, 2), v)
        BY <4>1, <2>1, <2>2
      <4> QED BY <4>2, <3>2, <2>3, <2>5
    <3> QED BY <3>1, <3>2, <2>1
  <2>7. LevelOf(d) >= LevelOf(l) \/ LevelOf(d) >= LevelOf(r)
    BY <2>5, <1>1
  <2> QED BY <2>5, <2>6, <2>7 DEF Computes, d
<1> QED BY <1>5, <1>6

\* Enough steps for the levels of both operands.
Deep(h, l, r) == LevelOf(l) + h >= Depth /\ LevelOf(r) + h >= Depth

\* By induction on the height, cdd_apply_rec combines the operands pointwise.
LEMMA ApplyAtIs ==
    ASSUME NEW op \in Ops, NEW h \in Nat
    PROVE  \A l \in Cdds, r \in Cdds : Deep(h, l, r) => Computes(op, l, r, ApplyAt[h][<<op, l, r>>])
<1> DEFINE P(n) == \A l \in Cdds, r \in Cdds : Deep(n, l, r) => Computes(op, l, r, ApplyAt[n][<<op, l, r>>])
           T == {n \in Nat : P(n)}
<1>0. Depth = MAXLEVEL + 1 /\ MAXLEVEL \in Nat
  BY Basics
<1>1. 0 \in T
  <2>1. ASSUME NEW l \in Cdds, NEW r \in Cdds PROVE ~Deep(0, l, r)
    BY <1>0, CddLevel DEF Deep
  <2> QED BY <2>1
<1>2. ASSUME NEW n \in Nat, n \in T PROVE n + 1 \in T
  <2> SUFFICES ASSUME NEW l \in Cdds, NEW r \in Cdds, Deep(n + 1, l, r)
               PROVE  Computes(op, l, r, ApplyAt[n + 1][<<op, l, r>>])
    OBVIOUS
  <2>1. l \in ddNode /\ r \in ddNode
    BY PointerFacts
  <2>2. ApplyAt[n + 1][<<op, l, r>>] =
            IF IsTrivial(op, l, r) THEN Trivial(op, l, r) ELSE Applied(ApplyAt[n], op, l, r)
    BY <2>1, ApplyEquation
  <2>3. CASE IsTrivial(op, l, r)
    BY <2>2, <2>3, TrivialIs
  <2>4. CASE ~IsTrivial(op, l, r)
    <3>1. ~IsTerminal(l) /\ ~IsTerminal(r)
      BY <2>4 DEF IsTrivial
    <3> DEFINE level == Min({LevelOf(l), LevelOf(r)})
    <3>2. level \in Nat /\ level \in {LevelOf(l), LevelOf(r)}
      BY <3>1, TopLevel
    <3> HIDE DEF level
    <3>3. ASSUME NEW a \in Cdds, NEW b \in Cdds, LevelOf(a) > level, LevelOf(b) > level
          PROVE  Computes(op, a, b, ApplyAt[n][<<op, a, b>>])
      <4>1. LevelOf(a) \in Nat /\ LevelOf(b) \in Nat
        BY CddLevel
      <4>2. Deep(n, a, b)
        BY <4>1, <3>2, <3>3, <1>0 DEF Deep
      <4> QED BY <4>2, <1>2
    <3>4. Computes(op, l, r, Applied(ApplyAt[n], op, l, r))
      BY <3>1, <3>3, AppliedIs DEF level
    <3> QED BY <3>4, <2>2, <2>4
  <2> QED BY <2>3, <2>4
<1> HIDE DEF T
<1>3. \A n \in Nat : n \in T
  BY <1>1, <1>2, Induction
<1> QED BY <1>3 DEF T

\* cdd_apply makes a diagram in normal form that combines the operands pointwise.
LEMMA ApplyIs ==
    ASSUME NEW op \in Ops, NEW l \in Cdds, NEW r \in Cdds
    PROVE  Computes(op, l, r, Apply(op, l, r))
<1>1. Depth \in Nat /\ LevelOf(l) \in Nat /\ LevelOf(r) \in Nat
  BY Basics, CddLevel
<1>2. Deep(Depth, l, r)
  BY <1>1 DEF Deep
<1> QED BY <1>1, <1>2, ApplyAtIs DEF Apply

\* The operators built from it.
LEMMA AndIs == ASSUME NEW l \in Cdds, NEW r \in Cdds
               PROVE  /\ And(l, r) \in Cdds
                      /\ \A v \in Proper : Leaf(And(l, r), v) = IF Leaf(l, v) = 1 /\ Leaf(r, v) = 1 THEN 1 ELSE 0
BY ApplyIs DEF And, Computes, OpLeaf, Ops

\* cdd_xor is exclusive or, pointwise.
LEMMA XorIs == ASSUME NEW l \in Cdds, NEW r \in Cdds
               PROVE  /\ Xor(l, r) \in Cdds
                      /\ \A v \in Proper : Leaf(Xor(l, r), v) = IF Leaf(l, v) = Leaf(r, v) THEN 0 ELSE 1
BY ApplyIs DEF Xor, Computes, OpLeaf, Ops

\* cdd_or, made of cdd_and and complements, is disjunction, pointwise.
LEMMA OrIs == ASSUME NEW l \in Cdds, NEW r \in Cdds
              PROVE  /\ Or(l, r) \in Cdds
                     /\ \A v \in Proper : Leaf(Or(l, r), v) = IF Leaf(l, v) = 1 \/ Leaf(r, v) = 1 THEN 1 ELSE 0
<1>1. Neg(l) \in Cdds /\ Neg(r) \in Cdds
  BY Complement
<1> DEFINE a == And(Neg(l), Neg(r))
<1>2. a \in Cdds
  BY <1>1, AndIs
<1>3. Or(l, r) = Neg(a)
  BY DEF Or
<1> SUFFICES ASSUME NEW v \in Proper
             PROVE  Or(l, r) \in Cdds /\ Leaf(Or(l, r), v) = IF Leaf(l, v) = 1 \/ Leaf(r, v) = 1 THEN 1 ELSE 0
  BY <1>2, <1>3, Complement
<1>4. Leaf(a, v) = IF Leaf(Neg(l), v) = 1 /\ Leaf(Neg(r), v) = 1 THEN 1 ELSE 0
  BY <1>1, AndIs
<1>5. Leaf(l, v) \in {0, 1} /\ Leaf(r, v) \in {0, 1} /\ Leaf(Neg(l), v) = 1 - Leaf(l, v) /\ Leaf(Neg(r), v) = 1 - Leaf(r, v)
  BY LeafBelow, Complement
<1> HIDE DEF a
<1>6. Neg(a) \in Cdds /\ Leaf(Neg(a), v) = 1 - Leaf(a, v)
  BY <1>2, Complement
<1> QED BY <1>3, <1>4, <1>5, <1>6

\* cdd_ite selects pointwise between its second and third argument.
LEMMA IteIs == ASSUME NEW a \in Cdds, NEW b \in Cdds, NEW c \in Cdds
               PROVE  /\ cdd_ite(a, b, c) \in Cdds
                      /\ \A v \in Proper : Leaf(cdd_ite(a, b, c), v) = IF Leaf(a, v) = 1 THEN Leaf(b, v) ELSE Leaf(c, v)
<1>1. And(a, b) \in Cdds /\ Neg(a) \in Cdds
  BY AndIs, Complement
<1>2. And(Neg(a), c) \in Cdds
  BY <1>1, AndIs
<1>3. cdd_ite(a, b, c) \in Cdds
  BY <1>1, <1>2, OrIs DEF cdd_ite
<1> SUFFICES ASSUME NEW v \in Proper
             PROVE  Leaf(cdd_ite(a, b, c), v) = IF Leaf(a, v) = 1 THEN Leaf(b, v) ELSE Leaf(c, v)
  BY <1>3
<1>4. Leaf(cdd_ite(a, b, c), v) = IF Leaf(And(a, b), v) = 1 \/ Leaf(And(Neg(a), c), v) = 1 THEN 1 ELSE 0
  BY <1>1, <1>2, OrIs DEF cdd_ite
<1>5. Leaf(And(a, b), v) = IF Leaf(a, v) = 1 /\ Leaf(b, v) = 1 THEN 1 ELSE 0
  BY AndIs
<1>6. Leaf(And(Neg(a), c), v) = IF Leaf(Neg(a), v) = 1 /\ Leaf(c, v) = 1 THEN 1 ELSE 0
  BY <1>1, AndIs
<1>7. Leaf(a, v) \in {0, 1} /\ Leaf(b, v) \in {0, 1} /\ Leaf(c, v) \in {0, 1} /\ Leaf(Neg(a), v) = 1 - Leaf(a, v)
  BY LeafBelow, Complement
<1> QED BY <1>4, <1>5, <1>6, <1>7

-----------------------------------------------------------------------------
(* Vectors.                                                                *)

\* The clocks of a level, the first larger than the second, determine the level.
LEMMA LevelClocks ==
    ASSUME NEW l \in CddLevels
    PROVE  /\ Info[l].clock1 \in Clocks /\ Info[l].clock2 \in Clocks
           /\ Info[l].clock1 \in Nat /\ Info[l].clock2 \in Nat /\ Info[l].clock2 < Info[l].clock1
           /\ DiffLevel(Info[l].clock1, Info[l].clock2) = l
<1> DEFINE i == Info[l].clock1
           j == Info[l].clock2
<1>0. ClockNum \in Nat /\ i \in Clocks /\ j \in 0..(i - 1)
  BY DifferencesAssumption
<1>1. i \in Nat /\ j \in Nat /\ j < i /\ j \in Clocks
  BY <1>0 DEF Clocks
<1>2. PICK m \in CddLevels : \A k \in CddLevels : Info[k].clock1 = i /\ Info[k].clock2 = j <=> k = m
  <2> HIDE DEF i, j
  <2> QED BY <1>0, DifferencesAssumption
<1>3. m = l
  BY <1>2
<1>4. \A k \in CddLevels : Info[k].clock1 = i /\ Info[k].clock2 = j <=> k = l
  BY <1>2, <1>3
<1> HIDE DEF i, j
<1>5. DiffLevel(i, j) = l
  BY <1>4 DEF DiffLevel
<1> QED BY <1>0, <1>1, <1>5 DEF i, j

\* The level of a difference has the clocks of the difference.
LEMMA DiffLevelIs ==
    ASSUME NEW i \in Clocks, NEW j \in Clocks, i > j
    PROVE  /\ DiffLevel(i, j) \in CddLevels /\ DiffLevel(i, j) \in Levels
           /\ Info[DiffLevel(i, j)].clock1 = i /\ Info[DiffLevel(i, j)].clock2 = j
<1>1. ClockNum \in Nat /\ j \in 0..(i - 1)
  BY DifferencesAssumption DEF Clocks
<1>2. PICK m \in CddLevels : \A k \in CddLevels : Info[k].clock1 = i /\ Info[k].clock2 = j <=> k = m
  BY <1>1, DifferencesAssumption
<1>3. DiffLevel(i, j) \in CddLevels /\ Info[DiffLevel(i, j)].clock1 = i /\ Info[DiffLevel(i, j)].clock2 = j
  BY <1>2 DEF DiffLevel
<1> QED BY <1>3 DEF CddLevels

\* The differences of the grid, and what stands for one at a level.
LEMMA DiffsAre == /\ \A x \in Span, y \in Span : x - y \in Diffs
                  /\ \A d \in Diffs : \E x \in Span, y \in Span : d = x - y
<1> DEFINE Sub(x, y) == x - y
<1>1. Diffs = {Sub(x, y) : x \in Span, y \in Span}
  BY DEF Diffs
<1> HIDE DEF Sub
<1>2. /\ \A x \in Span, y \in Span : Sub(x, y) \in Diffs
      /\ \A d \in Diffs : \E x \in Span, y \in Span : d = Sub(x, y)
  BY <1>1
<1> QED BY <1>2 DEF Sub

\* The clock differences of the grid are integers, zero among them.
LEMMA DiffsAreInt == Diffs \subseteq Int /\ 0 \in Diffs
<1>1. Span \subseteq Int /\ 0 \in Span
  BY GridAssumption
<1>2. 0 = 0 - 0
  OBVIOUS
<1>3. Diffs \subseteq Int
  <2> SUFFICES ASSUME NEW d \in Diffs PROVE d \in Int
    OBVIOUS
  <2>1. PICK x \in Span, y \in Span : d = x - y
    BY DiffsAre
  <2>2. x \in Int /\ y \in Int
    BY <1>1
  <2> QED BY <2>1, <2>2
<1>4. 0 - 0 \in Diffs
  BY <1>1, DiffsAre
<1> QED BY <1>2, <1>3, <1>4

\* Every cell between the bounds of a level has one representative.
LEMMA CellRepsAre ==
    ASSUME NEW l \in CddLevels
    PROVE  /\ CellReps(l) \subseteq Diffs
           /\ \A d \in Diffs : \E e \in CellReps(l) : CellOf(l, e) = CellOf(l, d)
           /\ \A e1 \in CellReps(l), e2 \in CellReps(l) : CellOf(l, e1) = CellOf(l, e2) => e1 = e2
<1> DEFINE Rep(c) == CHOOSE d \in Diffs : CellOf(l, d) = c
           Cells == {CellOf(l, d) : d \in Diffs}
<1>1. CellReps(l) = {Rep(c) : c \in Cells}
  BY DEF CellReps, IsCdd
<1>2. \A c \in Cells : Rep(c) \in Diffs /\ CellOf(l, Rep(c)) = c
  OBVIOUS
<1>3. \A d \in Diffs : CellOf(l, d) \in Cells
  OBVIOUS
<1> HIDE DEF Rep, Cells
<1> QED BY <1>1, <1>2, <1>3

\* A difference and the representative of its cell satisfy the same bounds.
LEMMA RepOfIs ==
    ASSUME NEW l \in CddLevels, NEW d \in Diffs
    PROVE  /\ RepOf(l, d) \in CellReps(l) /\ RepOf(l, d) \in Diffs /\ RepOf(l, d) \in Int
           /\ CellOf(l, RepOf(l, d)) = CellOf(l, d)
           /\ \A b \in RawBnd[l] \cup {INF} : Below(RepOf(l, d), b) <=> Below(d, b)
<1>1. RepOf(l, d) \in CellReps(l) /\ CellOf(l, RepOf(l, d)) = CellOf(l, d)
  BY CellRepsAre DEF RepOf
<1>2. RepOf(l, d) \in Diffs /\ RepOf(l, d) \in Int
  BY <1>1, CellRepsAre, DiffsAreInt
<1>3. ASSUME NEW b \in RawBnd[l] PROVE Below(RepOf(l, d), b) <=> Below(d, b)
  <2>1. b \in CellOf(l, RepOf(l, d)) <=> b \in CellOf(l, d)
    BY <1>1
  <2> QED BY <2>1 DEF CellOf
<1>4. Below(RepOf(l, d), INF) /\ Below(d, INF)
  BY DEF Below
<1> QED BY <1>1, <1>2, <1>3, <1>4

\* Clock valuations.
LEMMA PointIs ==
    ASSUME NEW p \in Points
    PROVE  /\ p \in [Clocks -> Span] /\ p[0] = 0
           /\ \A i \in Clocks : p[i] \in Span /\ p[i] \in Int
           /\ \A i \in Clocks, j \in Clocks : p[i] - p[j] \in Diffs /\ p[i] - p[j] \in Int
<1>1. PICK q \in [1..(ClockNum - 1) -> Span] : p = [c \in Clocks |-> IF c = 0 THEN 0 ELSE q[c]]
  BY DEF Points
<1>2. Span \subseteq Int /\ 0 \in Span /\ ClockNum \in Nat /\ ClockNum # 0
  BY GridAssumption, DifferencesAssumption
<1>3. \A i \in Clocks : p[i] \in Span
  <2>1. \A i \in Clocks : i # 0 => i \in 1..(ClockNum - 1)
    BY <1>2 DEF Clocks
  <2> QED BY <2>1, <1>1, <1>2
<1>4. 0 \in Clocks
  BY <1>2 DEF Clocks
<1>5. p[0] = 0
  BY <1>1, <1>4
<1>6. p \in [Clocks -> Span]
  BY <1>1, <1>3
<1>7. \A i \in Clocks, j \in Clocks : p[i] - p[j] \in Diffs /\ p[i] - p[j] \in Int
  <2> SUFFICES ASSUME NEW i \in Clocks, NEW j \in Clocks PROVE p[i] - p[j] \in Diffs /\ p[i] - p[j] \in Int
    OBVIOUS
  <2>1. p[i] \in Span /\ p[j] \in Span
    BY <1>3
  <2>2. p[i] - p[j] \in Diffs
    BY <2>1, DiffsAre
  <2> QED BY <2>2, DiffsAreInt
<1> QED BY <1>2, <1>3, <1>5, <1>6, <1>7

\* The vector of a clock valuation gives every level the representative of its difference.
LEMMA VectorOfIs ==
    ASSUME NEW p \in Points, NEW b \in [BddLevels -> {0, 1}]
    PROVE  /\ VectorOf(p, b) \in Vectors
           /\ VectorOf(p, b) \in Proper
           /\ \A l \in CddLevels : VectorOf(p, b)[l] = RepOf(l, p[Info[l].clock1] - p[Info[l].clock2])
           /\ \A l \in BddLevels : VectorOf(p, b)[l] = b[l]
<1> DEFINE v == VectorOf(p, b)
<1>1. v = [l \in Levels |-> IF IsCdd(l) THEN RepOf(l, p[Info[l].clock1] - p[Info[l].clock2]) ELSE b[l]]
  BY DEF VectorOf
<1> HIDE DEF v
<1>2. \A l \in CddLevels : l \in Levels /\ v[l] = RepOf(l, p[Info[l].clock1] - p[Info[l].clock2])
  BY <1>1 DEF CddLevels, IsCdd
<1>3. \A l \in BddLevels : l \in Levels /\ ~IsCdd(l) /\ v[l] = b[l] /\ v[l] \in {0, 1}
  BY <1>1 DEF BddLevels, IsCdd
<1>4. \A l \in CddLevels : v[l] \in CellReps(l) /\ v[l] \in Int
  BY <1>2, LevelClocks, PointIs, RepOfIs
<1>5. \A l \in BddLevels : CellReps(l) = {0, 1}
  BY <1>3 DEF CellReps
<1>6. \A l \in Levels : v[l] \in CellReps(l) /\ v[l] \in Int
  BY <1>3, <1>4, <1>5 DEF BddLevels
<1>7. v \in Proper
  <2>1. v \in [Levels -> Int]
    BY <1>1, <1>6
  <2> QED BY <2>1, <1>3 DEF Proper, Vals
<1>8. v \in Vectors
  <2>1. v \in [Levels -> UNION {CellReps(l) : l \in Levels}]
    BY <1>1, <1>6
  <2> QED BY <2>1, <1>6 DEF Vectors
<1> QED BY <1>2, <1>3, <1>7, <1>8 DEF v

\* Vectors are proper: integers at clock differences, bits at Booleans.
LEMMA VectorsProper == Vectors \subseteq Proper
<1> SUFFICES ASSUME NEW v \in Vectors PROVE v \in Proper
  OBVIOUS
<1>1. v = [l \in Levels |-> v[l]] /\ \A l \in Levels : v[l] \in CellReps(l)
  BY DEF Vectors
<1>2. \A l \in CddLevels : v[l] \in Int
  BY <1>1, CellRepsAre, DiffsAreInt DEF CddLevels
<1>3. \A l \in BddLevels : v[l] \in {0, 1}
  BY <1>1 DEF BddLevels, IsCdd, CellReps
<1>4. \A l \in Levels : v[l] \in Int
  BY <1>2, <1>3 DEF BddLevels
<1>5. v \in Vals
  BY <1>1, <1>4 DEF Vals
<1> QED BY <1>3, <1>5 DEF Proper

\* Feasible vectors are proper.
LEMMA FeasibleProper == Feasible \subseteq Proper /\ Feasible \subseteq Vectors
BY VectorOfIs DEF Feasible

-----------------------------------------------------------------------------
(* Bounds seen from the other side.                                        *)

\* Flip makes the bound of the opposite difference: 1 - b on raw bounds.
LEMMA FlipIs ==
    ASSUME NEW b \in Int
    PROVE  Flip(b) = 1 - b /\ Limit(1 - b) = -Limit(b) /\ ((1 - b) % 2 = 1 <=> b % 2 = 0)
<1>1. Limit(b) \in Int /\ (b % 2) \in {0, 1} /\ b = 2 * Limit(b) + (b % 2)
  BY LimitFacts
<1>2. Limit(1 - b) \in Int /\ ((1 - b) % 2) \in {0, 1} /\ 1 - b = 2 * Limit(1 - b) + ((1 - b) % 2)
  BY LimitFacts
<1> DEFINE q == Limit(b)
           x == b % 2
           p == Limit(1 - b)
           y == (1 - b) % 2
<1>3. q \in Int /\ p \in Int /\ x \in {0, 1} /\ y \in {0, 1} /\ b = 2 * q + x /\ 1 - b = 2 * p + y
  BY <1>1, <1>2
<1>4. Flip(b) = -2 * q + (1 - x)
  BY DEF Flip
<1> HIDE DEF q, x, p, y
<1>5. p = -q /\ y = 1 - x
  BY <1>3
<1>6. Flip(b) = 1 - b
  BY <1>3, <1>4
<1> QED BY <1>3, <1>5, <1>6 DEF q, x, p, y

\* A difference satisfies a bound when its opposite does not satisfy the flipped bound.
LEMMA BelowFlip ==
    ASSUME NEW d \in Int, NEW b \in Int, b # INF, 1 - b # INF
    PROVE  Below(-d, 1 - b) <=> ~Below(d, b)
<1> DEFINE u == Unit * Limit(b)
<1>1. u \in Int /\ (b % 2) \in {0, 1} /\ Limit(b) \in Int
  BY LimitFacts
<1>2. Unit * Limit(1 - b) = -u
  BY FlipIs, UnitIs, <1>1
<1>3. Below(-d, 1 - b) <=> -d < -u \/ (-d = -u /\ b % 2 = 0)
  BY <1>2, FlipIs DEF Below
<1>4. Below(d, b) <=> d < u \/ (d = u /\ b % 2 = 1)
  BY DEF Below
<1> HIDE DEF u
<1>5. b % 2 = 0 <=> ~(b % 2 = 1)
  BY <1>1
<1> QED BY <1>1, <1>3, <1>4, <1>5

\* What is known of a finite bound of an instance.
LEMMA FiniteBound ==
    ASSUME NEW l \in CddLevels, NEW b \in RawBnd[l]
    PROVE  /\ b \in Int /\ b # INF /\ b # -INF /\ -INF < b /\ b < INF /\ 1 - b # INF /\ 1 - b # -INF
           /\ INF \in Int /\ -INF < INF /\ b \in BoundsOf(l) /\ INF \in BoundsOf(l)
           /\ bnd_l2u(b) = 1 - b /\ bnd_u2l(b) = 1 - b /\ bnd_l2u(1 - b) = b /\ bnd_u2l(1 - b) = b
           /\ \A d \in Int : /\ Above(d, b) <=> ~Below(d, b)
                             /\ Below(-d, 1 - b) <=> ~Below(d, b)
                             /\ Above(-d, 1 - b) <=> Below(d, b)
<1>1. INF \in Nat /\ b \in (2 - INF)..(INF - 1)
  BY Basics
<1>2. b \in Int /\ b # INF /\ b # -INF /\ -INF < b /\ b < INF /\ 1 - b # INF /\ 1 - b # -INF /\ INF \in Int /\ -INF < INF
      /\ 1 - b \in Int /\ 1 - (1 - b) = b
  BY <1>1
<1>3. b \in BoundsOf(l) /\ INF \in BoundsOf(l)
  BY DEF BoundsOf, IsCdd
<1>4. bnd_l2u(b) = 1 - b /\ bnd_u2l(b) = 1 - b /\ bnd_l2u(1 - b) = b /\ bnd_u2l(1 - b) = b
  <2>1. Flip(b) = 1 - b /\ Flip(1 - b) = b
    BY <1>2, FlipIs
  <2> QED BY <2>1, <1>2 DEF bnd_l2u, bnd_u2l
<1>5. ASSUME NEW d \in Int
      PROVE  /\ Above(d, b) <=> ~Below(d, b)
             /\ Below(-d, 1 - b) <=> ~Below(d, b)
             /\ Above(-d, 1 - b) <=> Below(d, b)
  <2>1. Below(-d, 1 - b) <=> ~Below(d, b)
    BY <1>2, BelowFlip
  <2> QED BY <2>1, <1>2 DEF Above
<1> QED BY <1>2, <1>3, <1>4, <1>5

\* The infinite bounds are exchanged, and everything satisfies them.
LEMMA InfiniteBound ==
    /\ bnd_u2l(INF) = -INF /\ bnd_l2u(-INF) = INF /\ bnd_u2l(bnd_l2u(-INF)) = -INF /\ bnd_l2u(bnd_u2l(INF)) = INF
    /\ \A d \in Int : Below(d, INF) /\ Above(d, -INF)
BY DEF bnd_u2l, bnd_l2u, Below, Above

-----------------------------------------------------------------------------
(* The constructors.                                                       *)

\* A node on a CDD level, and what it says of a valuation.
LEMMA NodeIs ==
    ASSUME NEW l \in CddLevels, NEW e \in EdgesOn(l), NormalEdges(l, e), NEW d, d = MakeCdd(l, e)
    PROVE  /\ d \in Cdds /\ LevelOf(d) = l
           /\ \A v \in Proper, k \in 1..Len(e) : Covers(BoundsIn(e), v[l], k) => Leaf(d, v) = Leaf(e[k].child, v)
<1>0. l \in Levels /\ IsCdd(l)
  BY DEF CddLevels, IsCdd
<1>1. Len(e) >= 2
  BY DEF NormalEdges
<1>2. d = [neg |-> 0, node |-> [level |-> l, elem |-> e]]
  <2>1. Len(e) # 1
    BY <1>0, <1>1, EdgesAreInt
  <2> QED BY <2>1 DEF MakeCdd
<1>3. d \in Cdds /\ ~IsTerminal(d)
  BY <1>0, <1>2, MakeNode
<1>4. LevelOf(d) = l /\ d.neg = 0 /\ d.node.elem = e
  BY <1>2 DEF LevelOf
<1>5. ASSUME NEW v \in Proper, NEW k \in 1..Len(e), Covers(BoundsIn(e), v[l], k)
      PROVE  Leaf(d, v) = Leaf(e[k].child, v)
  <2>1. v[l] \in Int
    BY <1>0 DEF Proper, Vals
  <2>2. Covers(BoundsIn(e), v[l], EdgeOf(d, v))
    BY <1>0, <1>3, <1>4, EdgeTaken
  <2>3. BoundList(BoundsIn(e))
    BY <1>0, CddNodeList DEF CddList
  <2>4. EdgeOf(d, v) = k
    BY <2>1, <2>2, <2>3, <1>5, CoverUnique
  <2>5. Leaf(d, v) = Leaf(Child(d, k), v)
    BY <2>4, <1>3, LeafBelow
  <2>6. e[k].child \in Cdds
    BY <1>0, EdgesAreInt
  <2>7. Child(d, k) = e[k].child
    BY <2>6, <1>4, Negations DEF Child
  <2> QED BY <2>5, <2>7
<1> QED BY <1>3, <1>4, <1>5

\* Two edges: one up to bound b, one from there.
LEMMA TwoEdges ==
    ASSUME NEW l \in CddLevels, NEW b \in RawBnd[l], NEW a \in Cdds, NEW c \in Cdds,
           LevelOf(a) > l, LevelOf(c) > l, a # c, a.neg = 0,
           NEW d, d = MakeCdd(l, <<Elem(a, b), Elem(c, INF)>>)
    PROVE  /\ d \in Cdds /\ LevelOf(d) = l
           /\ \A v \in Proper : Leaf(d, v) = IF Below(v[l], b) THEN Leaf(a, v) ELSE Leaf(c, v)
<1> DEFINE e == <<Elem(a, b), Elem(c, INF)>>
<1>0. /\ b \in BoundsOf(l) /\ INF \in BoundsOf(l) /\ b < INF /\ b \in Int /\ INF \in Int
      /\ l \in Levels /\ IsCdd(l)
  BY FiniteBound DEF CddLevels, IsCdd
<1>1. e \in EdgesOn(l)
  BY <1>0 DEF EdgesOn, Elem
<1>2. /\ Len(e) = 2 /\ DOMAIN e = 1..2 /\ e[1].child = a /\ e[1].bnd = b /\ e[2].child = c /\ e[2].bnd = INF
  BY DEF Elem
<1>3. d = MakeCdd(l, e)
  OBVIOUS
<1> HIDE DEF e
<1>4. NormalEdges(l, e)
  BY <1>0, <1>2 DEF NormalEdges
<1>5. BoundsIn(e)[1] = b /\ BoundsIn(e)[2] = INF /\ Len(BoundsIn(e)) = 2
  <2>1. 1 \in 1..Len(e) /\ 2 \in 1..Len(e)
    BY <1>2
  <2> QED BY <1>0, <1>1, <1>2, <2>1, BoundsInIs
<1>6. ASSUME NEW v \in Proper PROVE Leaf(d, v) = IF Below(v[l], b) THEN Leaf(a, v) ELSE Leaf(c, v)
  <2>1. CASE Below(v[l], b)
    <3>1. Covers(BoundsIn(e), v[l], 1) /\ 1 \in 1..Len(e)
      BY <2>1, <1>2, <1>5 DEF Covers
    <3> QED BY <3>1, <2>1, <1>1, <1>2, <1>3, <1>4, NodeIs
  <2>2. CASE ~Below(v[l], b)
    <3>1. Below(v[l], INF) /\ 2 - 1 = 1
      BY DEF Below
    <3>2. Covers(BoundsIn(e), v[l], 2) /\ 2 \in 1..Len(e)
      BY <3>1, <2>2, <1>2, <1>5 DEF Covers
    <3> QED BY <3>2, <2>2, <1>1, <1>2, <1>3, <1>4, NodeIs
  <2> QED BY <2>1, <2>2
<1>7. d \in Cdds /\ LevelOf(d) = l
  BY <1>1, <1>3, <1>4, NodeIs
<1> QED BY <1>6, <1>7

\* Three edges: c between two bounds, false outside.
LEMMA ThreeEdges ==
    ASSUME NEW l \in CddLevels, NEW b1 \in RawBnd[l], NEW b2 \in RawBnd[l], b1 < b2, NEW c \in Cdds,
           LevelOf(c) > l, c # cddfalse,
           NEW d, d = MakeCdd(l, <<Elem(cddfalse, b1), Elem(c, b2), Elem(cddfalse, INF)>>)
    PROVE  /\ d \in Cdds /\ LevelOf(d) = l
           /\ \A v \in Proper : Leaf(d, v) = IF ~Below(v[l], b1) /\ Below(v[l], b2) THEN Leaf(c, v) ELSE 0
<1> DEFINE e == <<Elem(cddfalse, b1), Elem(c, b2), Elem(cddfalse, INF)>>
<1>0. /\ b1 \in BoundsOf(l) /\ b2 \in BoundsOf(l) /\ INF \in BoundsOf(l) /\ b2 < INF /\ b1 \in Int /\ b2 \in Int
      /\ INF \in Int /\ l \in Levels /\ IsCdd(l)
  BY FiniteBound DEF CddLevels, IsCdd
<1>00. cddfalse \in Cdds /\ LevelOf(cddfalse) > l /\ cddfalse.neg = 0
  BY Terminals, <1>0, LevelRange DEF cddfalse
<1>1. e \in EdgesOn(l)
  BY <1>0, <1>00 DEF EdgesOn, Elem
<1>2. /\ Len(e) = 3 /\ DOMAIN e = 1..3 /\ e[1].child = cddfalse /\ e[1].bnd = b1 /\ e[2].child = c /\ e[2].bnd = b2
      /\ e[3].child = cddfalse /\ e[3].bnd = INF
  BY DEF Elem
<1>3. d = MakeCdd(l, e)
  OBVIOUS
<1> HIDE DEF e
<1>4. NormalEdges(l, e)
  BY <1>0, <1>00, <1>2 DEF NormalEdges
<1>5. BoundsIn(e)[1] = b1 /\ BoundsIn(e)[2] = b2 /\ BoundsIn(e)[3] = INF /\ Len(BoundsIn(e)) = 3
  <2>1. 1 \in 1..Len(e) /\ 2 \in 1..Len(e) /\ 3 \in 1..Len(e)
    BY <1>2
  <2> QED BY <1>0, <1>1, <1>2, <2>1, BoundsInIs
<1>6. ASSUME NEW v \in Proper
      PROVE  Leaf(d, v) = IF ~Below(v[l], b1) /\ Below(v[l], b2) THEN Leaf(c, v) ELSE 0
  <2>0. Leaf(cddfalse, v) = 0
    BY TerminalLeaf
  <2>1. CASE Below(v[l], b1)
    <3>1. Covers(BoundsIn(e), v[l], 1) /\ 1 \in 1..Len(e)
      BY <2>1, <1>2, <1>5 DEF Covers
    <3> QED BY <3>1, <2>0, <2>1, <1>1, <1>2, <1>3, <1>4, NodeIs
  <2>2. CASE ~Below(v[l], b1) /\ Below(v[l], b2)
    <3>1. 2 - 1 = 1
      OBVIOUS
    <3>2. Covers(BoundsIn(e), v[l], 2) /\ 2 \in 1..Len(e)
      BY <3>1, <2>2, <1>2, <1>5 DEF Covers
    <3> QED BY <3>2, <2>2, <1>1, <1>2, <1>3, <1>4, NodeIs
  <2>3. CASE ~Below(v[l], b1) /\ ~Below(v[l], b2)
    <3>1. Below(v[l], INF) /\ 3 - 1 = 2
      BY DEF Below
    <3>2. Covers(BoundsIn(e), v[l], 3) /\ 3 \in 1..Len(e)
      BY <3>1, <2>3, <1>2, <1>5 DEF Covers
    <3> QED BY <3>2, <2>0, <2>3, <1>1, <1>2, <1>3, <1>4, NodeIs
  <2> QED BY <2>1, <2>2, <2>3
<1>7. d \in Cdds /\ LevelOf(d) = l
  BY <1>1, <1>3, <1>4, NodeIs
<1> QED BY <1>6, <1>7

\* What is known of the terminals below a CDD level.
LEMMA BelowTerminals ==
    ASSUME NEW l \in Levels
    PROVE  /\ cddtrue \in Cdds /\ cddfalse \in Cdds /\ LevelOf(cddtrue) > l /\ LevelOf(cddfalse) > l
           /\ cddtrue # cddfalse /\ cddfalse.neg = 0 /\ cddtrue.neg = 1
           /\ Neg(cddtrue) = cddfalse /\ Neg(cddfalse) = cddtrue
           /\ \A v \in Proper : Leaf(cddtrue, v) = 1 /\ Leaf(cddfalse, v) = 0
BY Terminals, LevelRange, TerminalLeaf DEF cddtrue, cddfalse, Neg, NegCond

\* An interval of a level: the valuations between two bounds.
InInterval(l, low, high, v) == Above(v[l], low) /\ Below(v[l], high)
Bounded(l, low, high) == /\ low \in RawBnd[l] \cup {-INF} /\ high \in RawBnd[l] \cup {INF} /\ low < high
                         /\ <<low, high>> # <<-INF, INF>>

\* A pair extended by one element.
LEMMA TwoAndOne == ASSUME NEW x, NEW y, NEW z PROVE <<x, y>> \o <<z>> = <<x, y, z>>
<1> DEFINE X == {x, y, z}
           s == <<x, y>> \o <<z>>
           t == <<x, y, z>>
<1>1. <<x, y>> \in Seq(X) /\ <<z>> \in Seq(X) /\ t \in Seq(X)
  OBVIOUS
<1>2. s \in Seq(X) /\ Len(s) = 3
  BY <1>1, ConcatProperties
<1>3. s[1] = x /\ s[2] = y /\ s[3] = z
  <2>1. Len(<<x, y>>) = 2 /\ Len(<<z>>) = 1
    OBVIOUS
  <2> QED BY <1>1, <2>1, ConcatProperties
<1>4. Len(t) = 3 /\ t[1] = x /\ t[2] = y /\ t[3] = z
  OBVIOUS
<1> HIDE DEF s, t
<1>5. \A i \in 1..Len(s) : s[i] = t[i]
  BY <1>2, <1>3, <1>4
<1>6. s = t
  BY <1>1, <1>2, <1>4, <1>5, SeqEqual
<1> QED BY <1>6 DEF s, t

\* The node made for an upper bound says whether the difference is below it.
LEMMA UptoIs ==
    ASSUME NEW l \in CddLevels, NEW b \in RawBnd[l],
           NEW d, d = Neg(MakeCdd(l, <<Elem(cddfalse, b), Elem(cddtrue, INF)>>))
    PROVE  d \in Cdds /\ LevelOf(d) = l /\ \A v \in Proper : Leaf(d, v) = IF Below(v[l], b) THEN 1 ELSE 0
<1> DEFINE c == MakeCdd(l, <<Elem(cddfalse, b), Elem(cddtrue, INF)>>)
<1>1. l \in Levels
  BY DEF CddLevels
<1>2. c \in Cdds /\ LevelOf(c) = l /\ \A v \in Proper : Leaf(c, v) = IF Below(v[l], b) THEN 0 ELSE 1
  BY <1>1, BelowTerminals, TwoEdges
<1> HIDE DEF c
<1>3. d = Neg(c)
  BY DEF c
<1>4. d \in Cdds /\ LevelOf(d) = l /\ \A v \in Proper : Leaf(d, v) = 1 - Leaf(c, v)
  BY <1>2, <1>3, Complement
<1>5. ASSUME NEW v \in Proper PROVE Leaf(d, v) = IF Below(v[l], b) THEN 1 ELSE 0
  BY <1>2, <1>4
<1> QED BY <1>4, <1>5

\* cdd_interval_from_level says whether the difference of the level is in the interval.
LEMMA IntervalFromLevelIs ==
    ASSUME NEW l \in CddLevels, NEW low, NEW high, Bounded(l, low, high),
           NEW d, d = cdd_interval_from_level(l, low, high)
    PROVE  d \in Cdds /\ LevelOf(d) = l /\ \A v \in Proper : Leaf(d, v) = IF InInterval(l, low, high, v) THEN 1 ELSE 0
<1>0. l \in Levels /\ \A v \in Proper : v[l] \in Int
  BY DEF CddLevels, Proper, Vals
<1>1. CASE low \in RawBnd[l] /\ high \in RawBnd[l]
  <2>1. low > -INF /\ high < INF
    BY <1>1, FiniteBound
  <2>2. d = MakeCdd(l, <<Elem(cddfalse, low), Elem(cddtrue, high), Elem(cddfalse, INF)>>)
    <3>1. <<Elem(cddfalse, low), Elem(cddtrue, high)>> \o <<Elem(cddfalse, INF)>> =
              <<Elem(cddfalse, low), Elem(cddtrue, high), Elem(cddfalse, INF)>>
      BY TwoAndOne
    <3> QED BY <2>1, <3>1 DEF cdd_interval_from_level
  <2>3. low < high
    BY DEF Bounded
  <2>4. d \in Cdds /\ LevelOf(d) = l /\ \A v \in Proper : Leaf(d, v) = IF ~Below(v[l], low) /\ Below(v[l], high) THEN Leaf(cddtrue, v) ELSE 0
    BY <1>0, <1>1, <2>2, <2>3, BelowTerminals, ThreeEdges
  <2>5. \A v \in Proper : Above(v[l], low) <=> ~Below(v[l], low)
    BY <1>0, <1>1, FiniteBound
  <2> QED BY <1>0, <2>4, <2>5, BelowTerminals DEF InInterval
<1>2. CASE low \in RawBnd[l] /\ high = INF
  <2>1. low > -INF /\ ~(high < INF)
    BY <1>2, FiniteBound
  <2>2. d = MakeCdd(l, <<Elem(cddfalse, low), Elem(cddtrue, INF)>>)
    <3>1. <<Elem(cddfalse, low), Elem(cddtrue, INF)>> \o <<>> =
              <<Elem(cddfalse, low), Elem(cddtrue, INF)>>
      OBVIOUS
    <3> QED BY <1>2, <2>1, <3>1 DEF cdd_interval_from_level
  <2>3. d \in Cdds /\ LevelOf(d) = l /\ \A v \in Proper : Leaf(d, v) = IF Below(v[l], low) THEN Leaf(cddfalse, v) ELSE Leaf(cddtrue, v)
    BY <1>0, <1>2, <2>2, BelowTerminals, TwoEdges
  <2>4. \A v \in Proper : (Above(v[l], low) <=> ~Below(v[l], low)) /\ Below(v[l], high)
    BY <1>0, <1>2, FiniteBound, InfiniteBound
  <2> QED BY <1>0, <2>3, <2>4, BelowTerminals DEF InInterval
<1>3. CASE low = -INF /\ high \in RawBnd[l]
  <2>1. ~(low > -INF)
    BY <1>3, FiniteBound
  <2>2. d = Neg(MakeCdd(l, <<Elem(cddfalse, high), Elem(cddtrue, INF)>>))
    BY <2>1 DEF cdd_interval_from_level
  <2>3. d \in Cdds /\ LevelOf(d) = l /\ \A v \in Proper : Leaf(d, v) = IF Below(v[l], high) THEN 1 ELSE 0
    BY <1>3, <2>2, UptoIs
  <2>4. \A v \in Proper : Above(v[l], low)
    BY <1>3 DEF Above
  <2> QED BY <2>3, <2>4 DEF InInterval
<1> QED BY <1>1, <1>2, <1>3 DEF Bounded

\* cdd_upper_from_level says whether the difference of the level is below the bound.
LEMMA UpperFromLevelIs ==
    ASSUME NEW l \in CddLevels, NEW b \in RawBnd[l], NEW d, d = cdd_upper_from_level(l, b)
    PROVE  d \in Cdds /\ \A v \in Proper : Leaf(d, v) = IF Below(v[l], b) THEN 1 ELSE 0
<1>1. b # INF /\ b # -INF
  BY FiniteBound
<1>2. d = Neg(MakeCdd(l, <<Elem(cddfalse, b), Elem(cddtrue, INF)>>))
  BY <1>1 DEF cdd_upper_from_level
<1> QED BY <1>2, UptoIs

\* The arguments of a call, and the interval of a level that they mean.
LEMMA IntervalArg ==
    ASSUME NEW a \in IntervalArgs
    PROVE  \E l, low, high :
        /\ l \in CddLevels
        /\ Bounded(l, low, high)
        /\ \/ a = <<Info[l].clock1, Info[l].clock2, low, high>>
           \/ a = <<Info[l].clock2, Info[l].clock1, bnd_u2l(high), bnd_l2u(low)>>
<1> DEFINE Args(l) == {a2 \in (RawBnd[l] \cup {-INF}) \X (RawBnd[l] \cup {INF}) : a2[1] < a2[2] /\ a2 # <<-INF, INF>>}
           Calls(l) == {<<Info[l].clock1, Info[l].clock2, a2[1], a2[2]>> : a2 \in Args(l)}
                       \cup {<<Info[l].clock2, Info[l].clock1, bnd_u2l(a2[2]), bnd_l2u(a2[1])>> : a2 \in Args(l)}
<1>1. IntervalArgs = UNION {Calls(l) : l \in CddLevels}
  BY Zenon DEF IntervalArgs
<1> HIDE DEF Calls
<1>2. PICK l \in CddLevels : a \in Calls(l)
  BY <1>1
<1> HIDE DEF Args
<1>3. PICK a2 \in Args(l) : \/ a = <<Info[l].clock1, Info[l].clock2, a2[1], a2[2]>>
                            \/ a = <<Info[l].clock2, Info[l].clock1, bnd_u2l(a2[2]), bnd_l2u(a2[1])>>
  BY <1>2 DEF Calls
<1>4. Bounded(l, a2[1], a2[2])
  BY <1>3 DEF Args, Bounded
<1> QED BY <1>3, <1>4

\* The set IntervalSet computes, for the arguments of an interval of a level.
LEMMA IntervalSetIs ==
    ASSUME NEW l \in CddLevels, NEW low, NEW high, Bounded(l, low, high), NEW a,
           \/ a = <<Info[l].clock1, Info[l].clock2, low, high>>
           \/ a = <<Info[l].clock2, Info[l].clock1, bnd_u2l(high), bnd_l2u(low)>>
    PROVE  IntervalSet(a) = {v \in Feasible : InInterval(l, low, high, v)}
<1>0. /\ Info[l].clock1 \in Nat /\ Info[l].clock2 \in Nat /\ Info[l].clock2 < Info[l].clock1
      /\ DiffLevel(Info[l].clock1, Info[l].clock2) = l
  BY LevelClocks
<1>1. \A v \in Feasible : v[l] \in Int
  BY FeasibleProper DEF CddLevels, Proper, Vals
<1>2. CASE a = <<Info[l].clock1, Info[l].clock2, low, high>>
  <2>1. \A v \in Feasible : Diff(v, a[1], a[2]) = v[l]
    BY <1>0, <1>2 DEF Diff
  <2> QED BY <1>2, <2>1 DEF IntervalSet, InInterval
<1>3. CASE a = <<Info[l].clock2, Info[l].clock1, bnd_u2l(high), bnd_l2u(low)>>
  <2>0. a[1] = Info[l].clock2 /\ a[2] = Info[l].clock1 /\ a[3] = bnd_u2l(high) /\ a[4] = bnd_l2u(low)
    BY <1>3
  <2> SUFFICES ASSUME NEW v \in Feasible
               PROVE  Above(Diff(v, a[1], a[2]), a[3]) /\ Below(Diff(v, a[1], a[2]), a[4]) <=> InInterval(l, low, high, v)
    BY DEF IntervalSet
  <2>1. Diff(v, a[1], a[2]) = -v[l]
    <3>1. ~(Info[l].clock2 > Info[l].clock1)
      BY <1>0
    <3> QED BY <1>0, <2>0, <3>1 DEF Diff
  <2>2. Above(-v[l], bnd_u2l(high)) <=> Below(v[l], high)
    <3>1. CASE high \in RawBnd[l]
      BY <3>1, <1>1, FiniteBound
    <3>2. CASE high = INF
      <4>1. -v[l] \in Int /\ v[l] \in Int
        BY <1>1
      <4> QED BY <4>1, <3>2, InfiniteBound
    <3> QED BY <3>1, <3>2 DEF Bounded
  <2>3. Below(-v[l], bnd_l2u(low)) <=> Above(v[l], low)
    <3>1. CASE low \in RawBnd[l]
      BY <3>1, <1>1, FiniteBound
    <3>2. CASE low = -INF
      <4>1. -v[l] \in Int /\ v[l] \in Int
        BY <1>1
      <4> QED BY <4>1, <3>2, InfiniteBound
    <3> QED BY <3>1, <3>2 DEF Bounded
  <2> QED BY <2>0, <2>1, <2>2, <2>3 DEF InInterval
<1> QED BY <1>2, <1>3

\* A diagram d denotes the set D of feasible vectors.
Denotes(d, D) == d \in Cdds /\ D = {v \in Feasible : Leaf(d, v) = 1}

\* cdd_interval denotes the valuations in the interval, in whichever order the clocks are
\* given.
LEMMA IntervalIs ==
    ASSUME NEW a \in IntervalArgs
    PROVE  Denotes(cdd_interval(a[1], a[2], a[3], a[4]), IntervalSet(a))
<1>1. PICK l, low, high :
        /\ l \in CddLevels
        /\ Bounded(l, low, high)
        /\ \/ a = <<Info[l].clock1, Info[l].clock2, low, high>>
           \/ a = <<Info[l].clock2, Info[l].clock1, bnd_u2l(high), bnd_l2u(low)>>
  BY IntervalArg
<1>2. /\ Info[l].clock1 \in Nat /\ Info[l].clock2 \in Nat /\ Info[l].clock2 < Info[l].clock1
      /\ DiffLevel(Info[l].clock1, Info[l].clock2) = l
  BY <1>1, LevelClocks
<1>3. IntervalSet(a) = {v \in Feasible : InInterval(l, low, high, v)}
  BY <1>1, IntervalSetIs
<1> DEFINE d == cdd_interval(a[1], a[2], a[3], a[4])
<1>4. d = cdd_interval_from_level(l, low, high)
  <2>1. CASE a = <<Info[l].clock1, Info[l].clock2, low, high>>
    BY <1>2, <2>1 DEF cdd_interval
  <2>2. CASE a = <<Info[l].clock2, Info[l].clock1, bnd_u2l(high), bnd_l2u(low)>>
    <3>1. bnd_u2l(bnd_l2u(low)) = low /\ bnd_l2u(bnd_u2l(high)) = high
      <4>1. low \in RawBnd[l] => bnd_u2l(bnd_l2u(low)) = low
        BY <1>1, FiniteBound
      <4>2. high \in RawBnd[l] => bnd_l2u(bnd_u2l(high)) = high
        BY <1>1, FiniteBound
      <4> QED BY <4>1, <4>2, <1>1, InfiniteBound DEF Bounded
    <3>2. ~(Info[l].clock2 > Info[l].clock1)
      BY <1>2
    <3>3. a[1] = Info[l].clock2 /\ a[2] = Info[l].clock1 /\ a[3] = bnd_u2l(high) /\ a[4] = bnd_l2u(low)
      BY <2>2
    <3> QED BY <1>2, <3>1, <3>2, <3>3 DEF cdd_interval
  <2> QED BY <1>1, <2>1, <2>2
<1> HIDE DEF d
<1>5. d \in Cdds /\ \A v \in Proper : Leaf(d, v) = IF InInterval(l, low, high, v) THEN 1 ELSE 0
  BY <1>1, <1>4, IntervalFromLevelIs
<1>6. Denotes(d, IntervalSet(a))
  BY <1>3, <1>5, FeasibleProper DEF Denotes
<1> QED BY <1>6 DEF d

\* cdd_upper denotes the valuations below the bound, in whichever order the clocks are given.
LEMMA UpperIs ==
    ASSUME NEW a \in IntervalArgs
    PROVE  Denotes(cdd_upper(a[1], a[2], a[4]), IntervalSet(<<a[1], a[2], -INF, a[4]>>))
<1>1. PICK l, low, high :
        /\ l \in CddLevels
        /\ Bounded(l, low, high)
        /\ \/ a = <<Info[l].clock1, Info[l].clock2, low, high>>
           \/ a = <<Info[l].clock2, Info[l].clock1, bnd_u2l(high), bnd_l2u(low)>>
  BY IntervalArg
<1>2. /\ Info[l].clock1 \in Nat /\ Info[l].clock2 \in Nat /\ Info[l].clock2 < Info[l].clock1
      /\ DiffLevel(Info[l].clock1, Info[l].clock2) = l
  BY <1>1, LevelClocks
<1>3. \A v \in Feasible : v[l] \in Int /\ v \in Proper /\ -v[l] \in Int
  BY <1>1, FeasibleProper DEF CddLevels, Proper, Vals
<1> DEFINE d == cdd_upper(a[1], a[2], a[4])
           x == <<a[1], a[2], -INF, a[4]>>
<1>4. IntervalSet(x) = {v \in Feasible : Below(Diff(v, a[1], a[2]), a[4])}
  <2>1. x[1] = a[1] /\ x[2] = a[2] /\ x[3] = -INF /\ x[4] = a[4]
    OBVIOUS
  <2> HIDE DEF x
  <2>2. IntervalSet(x) = {v \in Feasible : Above(Diff(v, a[1], a[2]), -INF) /\ Below(Diff(v, a[1], a[2]), a[4])}
    BY <2>1 DEF IntervalSet
  <2> QED BY <2>2 DEF Above
<1> HIDE DEF x
<1>00. INF \in Int /\ (low \in RawBnd[l] => low # -INF) /\ (high \in RawBnd[l] => high # INF /\ -INF < INF)
       /\ (low \in RawBnd[l] => -INF < INF)
  BY <1>1, Basics, FiniteBound
<1>0. -INF # INF
  BY <1>00, <1>1 DEF Bounded
<1>5. CASE a = <<Info[l].clock1, Info[l].clock2, low, high>>
  <2>1. a[1] = Info[l].clock1 /\ a[2] = Info[l].clock2 /\ a[4] = high
    BY <1>5
  <2>2. d = cdd_upper_from_level(l, high)
    BY <1>2, <2>1 DEF cdd_upper
  <2>3. IntervalSet(x) = {v \in Feasible : Below(v[l], high)}
    BY <1>2, <1>4, <2>1 DEF Diff
  <2> HIDE DEF d
  <2>4. ASSUME high \in RawBnd[l] PROVE Denotes(d, IntervalSet(x))
    BY <1>1, <2>2, <2>3, <2>4, <1>3, UpperFromLevelIs DEF Denotes
  <2>5. ASSUME high = INF PROVE Denotes(d, IntervalSet(x))
    <3>1. d = cddtrue
      BY <1>0, <2>2, <2>5 DEF cdd_upper_from_level
    <3> QED BY <3>1, <2>3, <2>5, <1>3, Terminals, TerminalLeaf, InfiniteBound DEF Denotes
  <2>6. Denotes(d, IntervalSet(x))
    BY <2>4, <2>5, <1>1 DEF Bounded
  <2> QED BY <2>6 DEF d, x
<1>6. CASE a = <<Info[l].clock2, Info[l].clock1, bnd_u2l(high), bnd_l2u(low)>>
  <2>1. a[1] = Info[l].clock2 /\ a[2] = Info[l].clock1 /\ a[4] = bnd_l2u(low)
    BY <1>6
  <2>2. ~(Info[l].clock2 > Info[l].clock1)
    BY <1>2
  <2>3. d = Neg(cdd_upper_from_level(l, bnd_u2l(bnd_l2u(low))))
    BY <1>2, <2>1, <2>2 DEF cdd_upper
  <2>4. IntervalSet(x) = {v \in Feasible : Below(-v[l], bnd_l2u(low))}
    BY <1>2, <1>4, <2>1, <2>2 DEF Diff
  <2> HIDE DEF d
  <2>5. ASSUME low \in RawBnd[l] PROVE Denotes(d, IntervalSet(x))
    <3> DEFINE u == cdd_upper_from_level(l, low)
    <3>1. u \in Cdds /\ \A v \in Proper : Leaf(u, v) = IF Below(v[l], low) THEN 1 ELSE 0
      BY <1>1, <2>5, UpperFromLevelIs
    <3>2. d = Neg(u)
      BY <1>1, <2>3, <2>5, FiniteBound
    <3> HIDE DEF u
    <3>3. d \in Cdds /\ \A v \in Proper : Leaf(d, v) = IF Below(v[l], low) THEN 0 ELSE 1
      BY <3>1, <3>2, Complement
    <3>4. \A v \in Feasible : Below(-v[l], bnd_l2u(low)) <=> ~Below(v[l], low)
      BY <1>1, <2>5, <1>3, FiniteBound
    <3> QED BY <3>3, <3>4, <2>4, <1>3 DEF Denotes
  <2>6. ASSUME low = -INF PROVE Denotes(d, IntervalSet(x))
    <3>1. cdd_upper_from_level(l, -INF) = cddfalse
      BY <1>0 DEF cdd_upper_from_level
    <3>2. Neg(cddfalse) = cddtrue
      BY DEF Neg, NegCond, cddtrue, cddfalse
    <3>3. d = cddtrue
      BY <2>3, <2>6, <3>1, <3>2, InfiniteBound
    <3>4. \A v \in Feasible : Below(-v[l], bnd_l2u(low))
      BY <2>6, <1>3, InfiniteBound
    <3> QED BY <3>3, <3>4, <2>4, <1>3, Terminals, TerminalLeaf DEF Denotes
  <2>7. Denotes(d, IntervalSet(x))
    BY <2>5, <2>6, <1>1 DEF Bounded
  <2> QED BY <2>7 DEF d, x
<1> QED BY <1>1, <1>5, <1>6

\* cdd_bddvar denotes the valuations in which the Boolean is true.
LEMMA BddvarIs ==
    ASSUME NEW l \in BddLevels
    PROVE  Denotes(cdd_bddvar(l), {v \in Feasible : v[l] = 1})
<1>1. l \in Levels /\ ~IsCdd(l)
  BY DEF BddLevels, IsCdd
<1> DEFINE d == cdd_bddvar(l)
<1>2. d = MakeBdd(l, cddfalse, cddtrue)
  BY DEF cdd_bddvar
<1> HIDE DEF d
<1>3. d \in Cdds /\ \A v \in Proper : Leaf(d, v) = IF v[l] = 0 THEN Leaf(cddfalse, v) ELSE Leaf(cddtrue, v)
  BY <1>1, <1>2, BelowTerminals, MakeBddIs
<1>4. \A v \in Feasible : v \in Proper /\ v[l] \in {0, 1}
  BY FeasibleProper DEF Proper
<1>5. Denotes(d, {v \in Feasible : v[l] = 1})
  BY <1>3, <1>4, TerminalLeaf DEF Denotes
<1> QED BY <1>5 DEF d

\* Every constraint that a client makes denotes the set it stands for.
LEMMA MadeIs == ASSUME NEW o \in Made PROVE Denotes(o.dd, o.set)
<1>1. CASE o = Meaning(cddtrue, Feasible)
  BY <1>1, Terminals, TerminalLeaf, FeasibleProper DEF Meaning, Denotes
<1>2. ASSUME NEW a \in IntervalArgs, o = Meaning(cdd_interval(a[1], a[2], a[3], a[4]), IntervalSet(a))
      PROVE  Denotes(o.dd, o.set)
  BY <1>2, IntervalIs DEF Meaning
<1>3. ASSUME NEW a \in IntervalArgs,
             o = Meaning(cdd_upper(a[1], a[2], a[4]), IntervalSet(<<a[1], a[2], -INF, a[4]>>))
      PROVE  Denotes(o.dd, o.set)
  BY <1>3, UpperIs DEF Meaning
<1>4. ASSUME NEW l \in BddLevels, o = Meaning(cdd_bddvar(l), {v \in Feasible : v[l] = 1})
      PROVE  Denotes(o.dd, o.set)
  BY <1>4, BddvarIs DEF Meaning
<1> QED BY <1>1, <1>2, <1>3, <1>4 DEF Made

-----------------------------------------------------------------------------
(* cdd_remove_negative.                                                    *)

NonNegativeStep(i, below) == [d \in ddNode |-> And(below[d], cdd_interval(i, 0, 0, INF))]
NonNegativeRec == INSTANCE Recursion WITH Base <- [d \in ddNode |-> d], Step <- NonNegativeStep

\* The loop of cdd_remove_negative, one clock at a time.
LEMMA NonNegativeEquation ==
    ASSUME NEW d \in ddNode
    PROVE  /\ NonNegativeUpto[0][d] = d
           /\ \A n \in Nat : NonNegativeUpto[n + 1][d] = And(NonNegativeUpto[n][d], cdd_interval(n + 1, 0, 0, INF))
<1>1. NonNegativeUpto = NonNegativeRec!F
  BY DEF NonNegativeUpto, NonNegativeRec!F, NonNegativeStep
<1> HIDE DEF NonNegativeUpto
<1>2. NonNegativeUpto[0] = [e \in ddNode |-> e] /\ \A n \in Nat : NonNegativeUpto[n + 1] = NonNegativeStep(n + 1, NonNegativeUpto[n])
  BY <1>1, NonNegativeRec!Def
<1> QED BY <1>2 DEF NonNegativeStep

\* The interval of the loop says whether the clock is not negative.
LEMMA NonNegativeClock ==
    ASSUME NEW i \in Clocks \ {0}, NEW d, d = cdd_interval(i, 0, 0, INF)
    PROVE  d \in Cdds /\ \A v \in Proper : Leaf(d, v) = IF Diff(v, i, 0) >= 0 THEN 1 ELSE 0
<1> DEFINE l == DiffLevel(i, 0)
<1>1. ClockNum \in Nat /\ i \in Nat /\ i > 0 /\ 0 \in Clocks
  BY DifferencesAssumption DEF Clocks
<1>2. l \in CddLevels /\ l \in Levels /\ Info[l].clock2 = 0
  BY <1>1, DiffLevelIs
<1>3. \A v \in Proper : Diff(v, i, 0) = v[l] /\ v[l] \in Int
  BY <1>1, <1>2 DEF Diff, Proper, Vals
<1>4. d = cdd_interval_from_level(l, 0, INF)
  BY <1>1 DEF cdd_interval
<1> HIDE DEF l
<1>5. 0 \in RawBnd[l]
  BY <1>2, GridAssumption
<1>6. 0 # INF /\ 0 # -INF /\ 0 < INF /\ INF \in Int /\ \A x \in Int : Above(x, 0) <=> ~Below(x, 0)
  BY <1>2, <1>5, FiniteBound
<1>7. Bounded(l, 0, INF)
  <2>1. <<0, INF>> # <<-INF, INF>>
    BY <1>6
  <2> QED BY <2>1, <1>5, <1>6 DEF Bounded
<1>8. d \in Cdds /\ \A v \in Proper : Leaf(d, v) = IF InInterval(l, 0, INF, v) THEN 1 ELSE 0
  BY <1>2, <1>4, <1>7, IntervalFromLevelIs
<1>9. \A x \in Int : Below(x, 0) <=> x < 0
  <2>1. Limit(0) = 0 /\ 0 % 2 = 0 /\ Unit * 0 = 0
    BY UnitIs DEF Limit
  <2>2. Unit * Limit(0) = 0
    BY <2>1
  <2> QED BY <2>1, <2>2, <1>6 DEF Below
<1>10. ASSUME NEW v \in Proper PROVE InInterval(l, 0, INF, v) <=> Diff(v, i, 0) >= 0
  <2>1. v[l] \in Int
    BY <1>3
  <2> QED BY <2>1, <1>3, <1>6, <1>9, InfiniteBound DEF InInterval
<1> QED BY <1>8, <1>10

\* After n clocks the loop has removed the valuations in which one of them is negative.
LEMMA NonNegativeIs ==
    ASSUME NEW d \in Cdds, NEW n \in Nat, n <= ClockNum - 1
    PROVE  /\ NonNegativeUpto[n][d] \in Cdds
           /\ \A v \in Proper : Leaf(NonNegativeUpto[n][d], v) =
                  IF Leaf(d, v) = 1 /\ \A i \in 1..n : Diff(v, i, 0) >= 0 THEN 1 ELSE 0
<1> DEFINE P(m) == /\ NonNegativeUpto[m][d] \in Cdds
                   /\ \A v \in Proper : Leaf(NonNegativeUpto[m][d], v) =
                          IF Leaf(d, v) = 1 /\ \A i \in 1..m : Diff(v, i, 0) >= 0 THEN 1 ELSE 0
           T == {m \in Nat : m <= ClockNum - 1 => P(m)}
<1>0. d \in ddNode /\ ClockNum \in Nat
  BY PointerFacts, DifferencesAssumption
<1>1. 0 \in T
  <2>1. NonNegativeUpto[0][d] = d
    BY <1>0, NonNegativeEquation
  <2>2. ASSUME NEW v \in Proper PROVE Leaf(d, v) = IF Leaf(d, v) = 1 /\ \A i \in 1..0 : Diff(v, i, 0) >= 0 THEN 1 ELSE 0
    BY LeafBelow
  <2>3. P(0)
    BY <2>1, <2>2
  <2> QED BY <2>3
<1>2. ASSUME NEW m \in Nat, m \in T PROVE m + 1 \in T
  <2> SUFFICES ASSUME m + 1 <= ClockNum - 1 PROVE P(m + 1)
    OBVIOUS
  <2>1. m + 1 \in Clocks \ {0} /\ m <= ClockNum - 1
    BY <1>0 DEF Clocks
  <2> DEFINE c == cdd_interval(m + 1, 0, 0, INF)
             e == NonNegativeUpto[m][d]
             r == NonNegativeUpto[m + 1][d]
  <2>2. c \in Cdds /\ \A v \in Proper : Leaf(c, v) = IF Diff(v, m + 1, 0) >= 0 THEN 1 ELSE 0
    BY <2>1, NonNegativeClock
  <2>3. e \in Cdds /\ \A v \in Proper : Leaf(e, v) = IF Leaf(d, v) = 1 /\ \A i \in 1..m : Diff(v, i, 0) >= 0 THEN 1 ELSE 0
    BY <1>2, <2>1
  <2>4. r = And(e, c)
    BY <1>0, NonNegativeEquation
  <2> HIDE DEF c, e, r
  <2>5. r \in Cdds /\ \A v \in Proper : Leaf(r, v) = IF Leaf(e, v) = 1 /\ Leaf(c, v) = 1 THEN 1 ELSE 0
    BY <2>2, <2>3, <2>4, AndIs
  <2>6. ASSUME NEW v \in Proper
        PROVE  Leaf(r, v) = IF Leaf(d, v) = 1 /\ \A i \in 1..(m + 1) : Diff(v, i, 0) >= 0 THEN 1 ELSE 0
    <3>1. (\A i \in 1..(m + 1) : Diff(v, i, 0) >= 0) <=> (\A i \in 1..m : Diff(v, i, 0) >= 0) /\ Diff(v, m + 1, 0) >= 0
      <4>1. \A i \in 1..(m + 1) : i \in 1..m \/ i = m + 1
        OBVIOUS
      <4>2. m + 1 \in 1..(m + 1) /\ \A i \in 1..m : i \in 1..(m + 1)
        OBVIOUS
      <4> QED BY <4>1, <4>2
    <3> QED BY <3>1, <2>2, <2>3, <2>5
  <2>7. P(m + 1)
    BY <2>5, <2>6 DEF r
  <2> QED BY <2>7
<1> HIDE DEF P
<1>3. \A m \in Nat : m \in T
  BY <1>1, <1>2, Induction
<1>4. P(n)
  BY <1>3
<1> QED BY <1>4 DEF P

\* cdd_remove_negative keeps the valuations in which no clock is negative.
LEMMA RemoveNegativeIs ==
    ASSUME NEW d \in Cdds
    PROVE  /\ cdd_remove_negative(d) \in Cdds
           /\ \A v \in Proper : Leaf(cdd_remove_negative(d), v) =
                  IF Leaf(d, v) = 1 /\ \A i \in Clocks \ {0} : Diff(v, i, 0) >= 0 THEN 1 ELSE 0
<1>1. ClockNum \in Nat /\ ClockNum # 0
  BY DifferencesAssumption
<1>2. ClockNum - 1 \in Nat /\ 1..(ClockNum - 1) = Clocks \ {0}
  BY <1>1 DEF Clocks
<1> QED BY <1>2, NonNegativeIs DEF cdd_remove_negative

-----------------------------------------------------------------------------
(* Equal functions have equal diagrams.                                    *)

\* Every interval between two bounds of a level has a vector value in it.
LEMMA CellInside ==
    ASSUME NEW l \in CddLevels, NEW x \in RawBnd[l] \cup {-INF}, NEW y \in RawBnd[l] \cup {INF}, x < y
    PROVE  \E e \in CellReps(l) : Above(e, x) /\ Below(e, y)
<1>1. \E d \in Diffs : Above(d, x) /\ Below(d, y)
  <2>1. CASE x \in RawBnd[l]
    BY <2>1, GridAssumption
  <2>2. CASE x = -INF /\ y \in RawBnd[l]
    <3>1. \A d \in Diffs : Above(d, x)
      BY <2>2 DEF Above
    <3>2. PICK d \in Diffs : Below(d, y)
      BY <2>2, GridAssumption
    <3> QED BY <3>1, <3>2
  <2>3. CASE x = -INF /\ y = INF
    BY <2>3, DiffsAreInt DEF Above, Below
  <2> QED BY <2>1, <2>2, <2>3
<1>2. PICK d \in Diffs : Above(d, x) /\ Below(d, y)
  BY <1>1
<1>3. RepOf(l, d) \in CellReps(l) /\ d \in Int /\ RepOf(l, d) \in Int
      /\ \A b \in RawBnd[l] \cup {INF} : Below(RepOf(l, d), b) <=> Below(d, b)
  BY RepOfIs, DiffsAreInt
<1>4. Below(RepOf(l, d), y)
  BY <1>2, <1>3
<1>5. Above(RepOf(l, d), x)
  <2>1. CASE x \in RawBnd[l]
    BY <1>2, <1>3, <2>1, FiniteBound
  <2>2. CASE x = -INF
    BY <2>2 DEF Above
  <2> QED BY <2>1, <2>2
<1> QED BY <1>3, <1>4, <1>5

\* Every edge of a list of edges is taken by some vector value.
LEMMA CellOfEdge ==
    ASSUME NEW l \in CddLevels, NEW bs, BoundList(bs), \A k \in 1..Len(bs) : bs[k] \in BoundsOf(l),
           NEW k \in 1..Len(bs)
    PROVE  \E e \in CellReps(l) : Covers(bs, e, k)
<1>0. IsCdd(l) /\ BoundsOf(l) = RawBnd[l] \cup {INF} /\ Len(bs) \in Nat
  BY DEF IsCdd, BoundsOf, BoundList
<1>1. CASE k = 1
  <2>1. CASE bs[1] = INF
    <3>1. PICK e \in CellReps(l) : TRUE
      BY CellRepsAre, DiffsAreInt
    <3> QED BY <2>1, <3>1, <1>1 DEF Covers, Below
  <2>2. CASE bs[1] # INF
    <3>1. bs[1] \in RawBnd[l]
      BY <1>0, <1>1, <2>2
    <3>2. -INF < bs[1]
      BY <3>1, FiniteBound
    <3>3. PICK e \in CellReps(l) : Below(e, bs[1])
      BY <3>1, <3>2, CellInside
    <3> QED BY <3>3, <1>1 DEF Covers
  <2> QED BY <2>1, <2>2
<1>2. CASE k # 1
  <2>1. k - 1 \in 1..Len(bs) /\ k - 1 \in 1..(Len(bs) - 1) /\ (k - 1) + 1 = k
    BY <1>0, <1>2
  <2>2. bs[k - 1] < bs[k]
    BY <2>1 DEF BoundList
  <2>3. bs[k - 1] \in RawBnd[l] /\ bs[k] \in RawBnd[l] \cup {INF}
    <3>1. bs[k - 1] # INF
      BY <2>1, BoundsBelowInf
    <3> QED BY <1>0, <2>1, <3>1
  <2>4. PICK e \in CellReps(l) : Above(e, bs[k - 1]) /\ Below(e, bs[k])
    BY <2>2, <2>3, CellInside
  <2>5. e \in Int
    BY CellRepsAre, DiffsAreInt
  <2>6. ~Below(e, bs[k - 1])
    BY <2>3, <2>4, <2>5, FiniteBound
  <2> QED BY <2>4, <2>6 DEF Covers
<1> QED BY <1>1, <1>2

\* A vector with another value at one level.
LEMMA Redirect ==
    ASSUME NEW v \in Vectors, NEW l \in Levels, NEW e \in CellReps(l)
    PROVE  \E w \in Vectors : /\ w[l] = e
                              /\ \A c \in Cdds : LevelOf(c) > l => Leaf(c, w) = Leaf(c, v)
<1> DEFINE w == [v EXCEPT ![l] = e]
<1>1. v \in [Levels -> UNION {CellReps(m) : m \in Levels}] /\ \A m \in Levels : v[m] \in CellReps(m)
  BY DEF Vectors
<1>2. w[l] = e /\ \A m \in Levels : m # l => w[m] = v[m]
  BY <1>1
<1>3. w \in Vectors
  <2>1. e \in UNION {CellReps(m) : m \in Levels}
    OBVIOUS
  <2>2. w \in [Levels -> UNION {CellReps(m) : m \in Levels}]
    BY <1>1, <2>1
  <2>3. \A m \in Levels : w[m] \in CellReps(m)
    BY <1>1, <1>2
  <2> QED BY <2>2, <2>3 DEF Vectors
<1>4. ASSUME NEW c \in Cdds, LevelOf(c) > l PROVE Leaf(c, w) = Leaf(c, v)
  <2>1. \A m \in Levels : m >= LevelOf(c) => m # l
    BY <1>4, LevelRange, CddLevel
  <2>2. \A m \in Levels : m >= LevelOf(c) => w[m] = v[m]
    BY <2>1, <1>2
  <2> QED BY <2>2, <1>3, VectorsProper, LeafDepends
<1> QED BY <1>2, <1>3, <1>4

\* Two diagrams that are the same function of the vectors.
Agree(a, b) == \A v \in Vectors : Leaf(a, v) = Leaf(b, v)

\* What is below two edges that one value of a level takes.
LEMMA AgreeBelow ==
    ASSUME NEW a \in Cdds, NEW b \in Cdds, Agree(a, b), NEW l \in Levels, NEW e \in CellReps(l),
           NEW c1 \in Cdds, NEW c2 \in Cdds, LevelOf(c1) > l, LevelOf(c2) > l,
           \A w \in Vectors : w[l] = e => Leaf(a, w) = Leaf(c1, w),
           \A w \in Vectors : w[l] = e => Leaf(b, w) = Leaf(c2, w)
    PROVE  Agree(c1, c2)
<1> SUFFICES ASSUME NEW v \in Vectors PROVE Leaf(c1, v) = Leaf(c2, v)
  BY DEF Agree
<1>1. PICK w \in Vectors : w[l] = e /\ \A c \in Cdds : LevelOf(c) > l => Leaf(c, w) = Leaf(c, v)
  BY Redirect
<1>2. Leaf(a, w) = Leaf(c1, w) /\ Leaf(b, w) = Leaf(c2, w) /\ Leaf(a, w) = Leaf(b, w)
  BY <1>1 DEF Agree
<1>3. Leaf(c1, w) = Leaf(c1, v) /\ Leaf(c2, w) = Leaf(c2, v)
  BY <1>1
<1> QED BY <1>2, <1>3

\* The edge of a node that a value of its level takes.
LEMMA EdgeAt ==
    ASSUME NEW d \in Cdds, ~IsTerminal(d), NEW k \in 1..Arity(d), NEW e,
           IF IsCdd(LevelOf(d)) THEN Covers(BoundsIn(d.node.elem), e, k) ELSE k = e + 1 /\ e \in {0, 1}
    PROVE  /\ Child(d, k) \in Cdds /\ LevelOf(Child(d, k)) > LevelOf(d)
           /\ \A w \in Vectors : w[LevelOf(d)] = e => Leaf(d, w) = Leaf(Child(d, k), w)
<1> DEFINE l == LevelOf(d)
<1>0. l \in Levels /\ d.neg \in {0, 1} /\ d.node.elem \in EdgesOn(l) /\ NormalEdges(l, d.node.elem) /\ Arity(d) = Len(d.node.elem)
  BY InnerFacts, PointerFacts
<1>1. Child(d, k) \in Cdds /\ LevelOf(Child(d, k)) > l
  <2>1. d.node.elem[k].child \in Cdds
    BY <1>0, EdgesAreInt
  <2>2. LevelOf(d.node.elem[k].child) > l
    BY <1>0, EdgesAreInt DEF NormalEdges
  <2> QED BY <1>0, <2>1, <2>2, Negations DEF Child
<1>2. ASSUME NEW w \in Vectors, w[l] = e PROVE Leaf(d, w) = Leaf(Child(d, k), w)
  <2>0. w \in Proper
    BY VectorsProper
  <2>1. EdgeOf(d, w) = k
    <3>1. CASE IsCdd(l)
      <4>1. Covers(BoundsIn(d.node.elem), w[l], EdgeOf(d, w)) /\ Covers(BoundsIn(d.node.elem), w[l], k)
        BY <2>0, <3>1, <1>2, EdgeTaken
      <4>2. BoundList(BoundsIn(d.node.elem)) /\ w[l] \in Int
        BY <1>0, <2>0, <3>1, CddNodeList DEF CddList, Proper, Vals
      <4> QED BY <4>1, <4>2, CoverUnique
    <3>2. CASE ~IsCdd(l)
      BY <1>2, <3>2 DEF EdgeOf
    <3> QED BY <3>1, <3>2
  <2> QED BY <2>0, <2>1, LeafBelow
<1> QED BY <1>1, <1>2

\* A value that takes a given edge.
LEMMA SomeEdge ==
    ASSUME NEW d \in Cdds, ~IsTerminal(d), NEW k \in 1..Arity(d)
    PROVE  \E e \in CellReps(LevelOf(d)) :
               IF IsCdd(LevelOf(d)) THEN Covers(BoundsIn(d.node.elem), e, k) ELSE k = e + 1 /\ e \in {0, 1}
<1> DEFINE l == LevelOf(d)
<1>0. l \in Levels /\ d.node.elem \in EdgesOn(l) /\ NormalEdges(l, d.node.elem) /\ Arity(d) = Len(d.node.elem)
  BY InnerFacts
<1>1. CASE IsCdd(l)
  <2>1. BoundList(BoundsIn(d.node.elem)) /\ Len(BoundsIn(d.node.elem)) = Arity(d)
    BY <1>0, <1>1, CddNodeList DEF CddList
  <2>2. \A i \in 1..Len(BoundsIn(d.node.elem)) : BoundsIn(d.node.elem)[i] \in BoundsOf(l)
    BY <1>0, <2>1, BoundsInIs, EdgesAreInt
  <2>3. l \in CddLevels
    BY <1>1 DEF IsCdd
  <2> QED BY <1>1, <2>1, <2>2, <2>3, CellOfEdge
<1>2. CASE ~IsCdd(l)
  <2>1. CellReps(l) = {0, 1}
    BY <1>2 DEF CellReps
  <2>2. k \in 1..2
    BY <1>2, InnerBdd
  <2>3. k = 1 \/ k = 2
    BY <2>2
  <2>4. CASE k = 1
    BY <1>2, <2>1, <2>4
  <2>5. CASE k = 2
    BY <1>2, <2>1, <2>5
  <2> QED BY <2>3, <2>4, <2>5
<1> QED BY <1>1, <1>2

\* A node does not agree with a diagram below its level: its first two children
\* would be that diagram.
LEMMA TopAgrees ==
    ASSUME NEW a \in Cdds, NEW b \in Cdds, ~IsTerminal(a), LevelOf(b) > LevelOf(a), Agree(a, b),
           \A x \in Cdds, y \in Cdds : LevelOf(x) > LevelOf(a) /\ LevelOf(y) > LevelOf(a) /\ Agree(x, y) => x = y
    PROVE  FALSE
<1>0. /\ LevelOf(a) \in Levels /\ NormalEdges(LevelOf(a), a.node.elem) /\ Arity(a) = Len(a.node.elem) /\ Arity(a) \in Nat
      /\ a.node.elem \in EdgesOn(LevelOf(a)) /\ a.neg \in {0, 1}
  BY InnerFacts, PointerFacts
<1>1. Arity(a) >= 2 /\ a.node.elem[1].child # a.node.elem[2].child
  <2>1. Arity(a) >= 2
    BY <1>0 DEF NormalEdges
  <2>2. 1 \in 1..(Arity(a) - 1) /\ 1 + 1 = 2
    BY <1>0, <2>1
  <2> QED BY <1>0, <2>1, <2>2 DEF NormalEdges
<1>2. 1 \in 1..Arity(a) /\ 2 \in 1..Arity(a)
  BY <1>0, <1>1
<1>3. ASSUME NEW k \in 1..Arity(a) PROVE Child(a, k) = b
  <2>1. PICK e \in CellReps(LevelOf(a)) :
           IF IsCdd(LevelOf(a)) THEN Covers(BoundsIn(a.node.elem), e, k) ELSE k = e + 1 /\ e \in {0, 1}
    BY SomeEdge
  <2>2. /\ Child(a, k) \in Cdds /\ LevelOf(Child(a, k)) > LevelOf(a)
        /\ \A w \in Vectors : w[LevelOf(a)] = e => Leaf(a, w) = Leaf(Child(a, k), w)
    BY <2>1, EdgeAt
  <2>3. Agree(Child(a, k), b)
    BY <1>0, <2>1, <2>2, AgreeBelow
  <2> QED BY <2>2, <2>3
<1>4. Child(a, 1) = Child(a, 2)
  BY <1>2, <1>3
<1>5. a.node.elem[1].child \in Cdds /\ a.node.elem[2].child \in Cdds
  BY <1>0, <1>2, EdgesAreInt
<1>6. NegCond(Child(a, 1), a.neg) = a.node.elem[1].child /\ NegCond(Child(a, 2), a.neg) = a.node.elem[2].child
  BY <1>0, <1>5, Negations DEF Child
<1> QED BY <1>1, <1>4, <1>6

\* An index of a list of bounds that starts below x and ends above it, if x is not one
\* of them.
LEMMA Straddle ==
    ASSUME NEW bs, BoundList(bs), NEW x \in Int, x < INF, \A k \in 1..Len(bs) : bs[k] # x
    PROVE  \E m \in 1..Len(bs) : x < bs[m] /\ (m = 1 \/ bs[m - 1] < x)
<1> DEFINE S == {m \in 1..Len(bs) : x < bs[m]}
<1>0. Len(bs) \in Nat /\ Len(bs) >= 1 /\ bs[Len(bs)] = INF
  BY DEF BoundList
<1>1. Len(bs) \in S /\ S \subseteq Nat
  BY <1>0
<1>2. PICK m \in S : \A j \in S : m <= j
  BY <1>1, LeastElement
<1>3. ASSUME m # 1 PROVE bs[m - 1] < x
  <2>1. m - 1 \in 1..Len(bs) /\ m - 1 < m
    BY <1>0, <1>3
  <2>2. m - 1 \notin S
    BY <1>2, <2>1
  <2>3. bs[m - 1] \in Int
    BY <2>1, BoundsBelowInf
  <2> QED BY <2>1, <2>2, <2>3
<1> QED BY <1>2, <1>3

\* Lists of bounds with the same members.
Among(bs, cs) == \A i \in 1..Len(bs) : \E j \in 1..Len(cs) : bs[i] = cs[j]

\* Bound lists with the same bounds are equal.
LEMMA SameBounds ==
    ASSUME NEW bs, NEW cs, BoundList(bs), BoundList(cs), Among(bs, cs), Among(cs, bs)
    PROVE  Len(bs) = Len(cs) /\ \A k \in 1..Len(bs) : bs[k] = cs[k]
<1>0. /\ Len(bs) \in Nat /\ Len(cs) \in Nat /\ Len(bs) >= 1 /\ Len(cs) >= 1
      /\ \A i \in 1..Len(bs) : bs[i] \in Int
      /\ \A i \in 1..Len(cs) : cs[i] \in Int
  BY BoundsBelowInf DEF BoundList
<1>1. \A i \in 1..Len(bs), j \in 1..Len(bs) : i < j => bs[i] < bs[j]
  BY BoundsAscend
<1>2. \A i \in 1..Len(cs), j \in 1..Len(cs) : i < j => cs[i] < cs[j]
  BY BoundsAscend
<1> DEFINE Q(k) == k \in 1..Len(bs) => k \in 1..Len(cs) /\ bs[k] = cs[k]
           T == {k \in Nat : Q(k)}
<1>3. 0 \in T
  OBVIOUS
<1>4. ASSUME NEW k \in Nat, k \in T PROVE k + 1 \in T
  <2> SUFFICES ASSUME k + 1 \in 1..Len(bs) PROVE k + 1 \in 1..Len(cs) /\ bs[k + 1] = cs[k + 1]
    OBVIOUS
  <2>1. PICK m \in 1..Len(cs) : bs[k + 1] = cs[m]
    BY DEF Among
  <2>2. m >= k + 1
    <3>1. CASE k = 0
      BY <3>1
    <3>2. CASE k # 0
      <4>1. k \in 1..Len(bs) /\ k \in 1..Len(cs) /\ bs[k] = cs[k] /\ k < k + 1
        BY <1>0, <1>4, <3>2
      <4>2. bs[k] < bs[k + 1]
        BY <1>1, <4>1
      <4>3. cs[k] < cs[m]
        BY <2>1, <4>1, <4>2
      <4>4. ~(m < k) /\ m # k
        <5>1. m < k => cs[m] < cs[k]
          BY <1>2, <4>1
        <5>2. cs[m] \in Int /\ cs[k] \in Int
          BY <1>0, <4>1
        <5> QED BY <4>3, <5>1, <5>2
      <4> QED BY <4>4, <4>1
    <3> QED BY <3>1, <3>2
  <2>3. k + 1 \in 1..Len(cs)
    BY <1>0, <2>2
  <2>4. ASSUME m > k + 1 PROVE FALSE
    <3>1. cs[k + 1] < cs[m]
      BY <1>2, <2>3, <2>4
    <3>2. PICK i \in 1..Len(bs) : cs[k + 1] = bs[i]
      BY <2>3 DEF Among
    <3>3. bs[i] < bs[k + 1]
      BY <2>1, <3>1, <3>2
    <3>4. ~(k + 1 < i) /\ i # k + 1
      <4>1. k + 1 < i => bs[k + 1] < bs[i]
        BY <1>1
      <4>2. bs[k + 1] \in Int /\ bs[i] \in Int
        BY <1>0
      <4> QED BY <3>3, <4>1, <4>2
    <3>5. i <= k /\ k \in 1..Len(bs)
      BY <1>0, <3>4
    <3>6. k \in 1..Len(cs) /\ bs[k] = cs[k]
      BY <1>4, <3>5
    <3>7. cs[k] < cs[k + 1]
      BY <1>2, <2>3, <3>6
    <3>8. bs[i] <= bs[k]
      <4>1. CASE i = k
        BY <4>1, <1>0
      <4>2. CASE i < k
        <5>1. bs[i] < bs[k] /\ bs[i] \in Int /\ bs[k] \in Int
          BY <1>0, <1>1, <4>2, <3>5
        <5> QED BY <5>1
      <4> QED BY <4>1, <4>2, <3>5
    <3>9. cs[k] \in Int /\ cs[k + 1] \in Int /\ bs[i] \in Int /\ bs[k] \in Int
      BY <1>0, <2>3, <3>5, <3>6
    <3> QED BY <3>2, <3>6, <3>7, <3>8, <3>9
  <2>5. m = k + 1
    BY <2>2, <2>4
  <2> QED BY <2>1, <2>3, <2>5
<1> HIDE DEF T
<1>5. \A k \in Nat : k \in T
  BY <1>3, <1>4, Induction
<1>6. \A k \in 1..Len(bs) : k \in 1..Len(cs) /\ bs[k] = cs[k]
  BY <1>0, <1>5 DEF T
<1>7. Len(bs) = Len(cs)
  <2>1. Len(bs) \in 1..Len(cs) /\ bs[Len(bs)] = cs[Len(bs)]
    BY <1>0, <1>6
  <2>2. bs[Len(bs)] = INF /\ cs[Len(cs)] = INF
    BY DEF BoundList
  <2>3. Len(bs) < Len(cs) => cs[Len(bs)] < cs[Len(cs)]
    BY <1>0, <1>2, <2>1
  <2> QED BY <1>0, <2>1, <2>2, <2>3
<1> QED BY <1>6, <1>7

\* The value of a level lies in the interval of an edge.
LEMMA CoverWith ==
    ASSUME NEW l \in CddLevels, NEW bs, BoundList(bs), \A j \in 1..Len(bs) : bs[j] \in BoundsOf(l),
           NEW k \in 1..Len(bs), NEW y \in RawBnd[l] \cup {-INF}, NEW z \in RawBnd[l] \cup {INF}, NEW e \in Int,
           Above(e, y), Below(e, z), z <= bs[k], k = 1 \/ bs[k - 1] <= y
    PROVE  Covers(bs, e, k)
<1>0. bs[k] \in Int /\ bs[k] <= INF /\ z \in Int /\ y \in Int /\ INF \in Int /\ -INF \in Int /\ Len(bs) \in Nat
  <2>1. bs[k] \in Int /\ bs[k] <= INF /\ INF \in Int /\ -INF \in Int /\ Len(bs) \in Nat
    <3>1. bs[k] \in Int /\ bs[k] <= INF
      BY BoundsBelowInf
    <3>2. INF \in Int /\ -INF \in Int
      BY Basics
    <3>3. Len(bs) \in Nat
      BY DEF BoundList
    <3> QED BY <3>1, <3>2, <3>3
  <2>2. z \in Int /\ y \in Int
    BY <2>1, FiniteBound
  <2> QED BY <2>1, <2>2
<1>1. Below(e, bs[k])
  BY <1>0, BelowMonotone
<1>2. ASSUME k # 1 PROVE ~Below(e, bs[k - 1])
  <2>1. k - 1 \in 1..Len(bs) /\ k - 1 < Len(bs)
    BY <1>0, <1>2
  <2>2. bs[k - 1] \in RawBnd[l] /\ bs[k - 1] \in Int /\ bs[k - 1] < INF
    BY <2>1, BoundsBelowInf DEF BoundsOf, IsCdd
  <2>3. -INF < bs[k - 1] /\ bs[k - 1] <= y
    BY <1>2, <2>2, FiniteBound
  <2>4. y \in RawBnd[l]
    BY <1>0, <2>2, <2>3
  <2>5. ~Below(e, y) /\ y <= INF
    BY <2>4, FiniteBound
  <2> QED BY <1>0, <2>2, <2>3, <2>5, BelowMonotone
<1> QED BY <1>1, <1>2 DEF Covers

\* The hypothesis of the induction on levels: below level l, diagrams that agree are equal.
CanonicalBelow(l) == \A x \in Cdds, y \in Cdds : LevelOf(x) > l /\ LevelOf(y) > l /\ Agree(x, y) => x = y

\* One value of the level takes edge k of a and edge m of b.
LEMMA SharedEdges ==
    ASSUME NEW a \in Cdds, NEW b \in Cdds, ~IsTerminal(a), ~IsTerminal(b), LevelOf(a) = LevelOf(b), Agree(a, b),
           CanonicalBelow(LevelOf(a)), IsCdd(LevelOf(a)),
           NEW k \in 1..Arity(a), NEW m \in 1..Arity(b), NEW e \in CellReps(LevelOf(a)),
           Covers(BoundsIn(a.node.elem), e, k), Covers(BoundsIn(b.node.elem), e, m)
    PROVE  Child(a, k) = Child(b, m)
<1>1. /\ Child(a, k) \in Cdds /\ LevelOf(Child(a, k)) > LevelOf(a)
      /\ \A w \in Vectors : w[LevelOf(a)] = e => Leaf(a, w) = Leaf(Child(a, k), w)
  BY EdgeAt
<1>2. /\ Child(b, m) \in Cdds /\ LevelOf(Child(b, m)) > LevelOf(a)
      /\ \A w \in Vectors : w[LevelOf(a)] = e => Leaf(b, w) = Leaf(Child(b, m), w)
  BY EdgeAt
<1>3. LevelOf(a) \in Levels
  BY InnerFacts
<1>4. Agree(Child(a, k), Child(b, m))
  BY <1>1, <1>2, <1>3, AgreeBelow
<1> QED BY <1>1, <1>2, <1>4 DEF CanonicalBelow

\* What a node on a CDD level is made of.
LEMMA CddNode ==
    ASSUME NEW d \in Cdds, ~IsTerminal(d), IsCdd(LevelOf(d))
    PROVE  /\ LevelOf(d) \in CddLevels /\ LevelOf(d) \in Levels
           /\ BoundList(BoundsIn(d.node.elem)) /\ Len(BoundsIn(d.node.elem)) = Arity(d)
           /\ Arity(d) \in Nat /\ Arity(d) >= 2
           /\ \A k \in 1..Arity(d) : /\ BoundsIn(d.node.elem)[k] \in BoundsOf(LevelOf(d))
                                     /\ BoundsIn(d.node.elem)[k] = d.node.elem[k].bnd
                                     /\ d.node.elem[k].child \in Cdds /\ LevelOf(d.node.elem[k].child) > LevelOf(d)
                                     /\ Child(d, k) \in Cdds /\ LevelOf(Child(d, k)) > LevelOf(d)
                                     /\ NegCond(Child(d, k), d.neg) = d.node.elem[k].child
                                     /\ d.node.elem[k] = Elem(d.node.elem[k].child, d.node.elem[k].bnd)
           /\ \A k \in 1..(Arity(d) - 1) : Child(d, k) # Child(d, k + 1)
           /\ Child(d, 1).neg = d.neg
<1>0. /\ LevelOf(d) \in Levels /\ d.neg \in {0, 1} /\ d.node.elem \in EdgesOn(LevelOf(d))
      /\ NormalEdges(LevelOf(d), d.node.elem) /\ Arity(d) = Len(d.node.elem)
  BY InnerFacts, PointerFacts
<1>1. LevelOf(d) \in CddLevels
  BY DEF IsCdd
<1>2. BoundList(BoundsIn(d.node.elem)) /\ Len(BoundsIn(d.node.elem)) = Arity(d)
  BY <1>0, CddNodeList DEF CddList
<1>3. Arity(d) \in Nat /\ Arity(d) >= 2
  BY InnerCdd, InnerFacts
<1>4. ASSUME NEW k \in 1..Arity(d)
      PROVE  /\ BoundsIn(d.node.elem)[k] \in BoundsOf(LevelOf(d))
             /\ BoundsIn(d.node.elem)[k] = d.node.elem[k].bnd
             /\ d.node.elem[k].child \in Cdds /\ LevelOf(d.node.elem[k].child) > LevelOf(d)
             /\ Child(d, k) \in Cdds /\ LevelOf(Child(d, k)) > LevelOf(d)
             /\ NegCond(Child(d, k), d.neg) = d.node.elem[k].child
             /\ d.node.elem[k] = Elem(d.node.elem[k].child, d.node.elem[k].bnd)
  <2>1. /\ BoundsIn(d.node.elem)[k] = d.node.elem[k].bnd /\ d.node.elem[k].bnd \in BoundsOf(LevelOf(d))
        /\ d.node.elem[k].child \in Cdds /\ d.node.elem[k] = Elem(d.node.elem[k].child, d.node.elem[k].bnd)
    BY <1>0, BoundsInIs, EdgesAreInt
  <2>2. LevelOf(d.node.elem[k].child) > LevelOf(d)
    BY <1>0, EdgesAreInt DEF NormalEdges
  <2>3. /\ NegCond(d.node.elem[k].child, d.neg) \in Cdds
        /\ LevelOf(NegCond(d.node.elem[k].child, d.neg)) = LevelOf(d.node.elem[k].child)
        /\ NegCond(NegCond(d.node.elem[k].child, d.neg), d.neg) = d.node.elem[k].child
    BY <1>0, <2>1, Negations
  <2> QED BY <2>1, <2>2, <2>3 DEF Child
<1>5. ASSUME NEW k \in 1..(Arity(d) - 1) PROVE Child(d, k) # Child(d, k + 1)
  <2>1. k \in 1..Arity(d) /\ k + 1 \in 1..Arity(d)
    BY <1>3
  <2>2. d.node.elem[k].child # d.node.elem[k + 1].child
    BY <1>0 DEF NormalEdges
  <2> QED BY <2>1, <2>2, <1>4
<1>6. Child(d, 1).neg = d.neg
  <2>1. 1 \in 1..Arity(d)
    BY <1>3
  <2>2. d.node.elem[1].child.neg = 0 /\ d.node.elem[1].child \in Cdds
    BY <1>4, <2>1, InnerCdd
  <2> DEFINE c == d.node.elem[1].child
  <2>3. Child(d, 1) = NegCond(c, d.neg)
    BY DEF Child
  <2>4. c \in Cdds /\ c.neg = 0 /\ d.neg \in {0, 1}
    BY <1>0, <2>2
  <2> HIDE DEF c
  <2>5. NegCond(c, d.neg).neg = (c.neg + d.neg) % 2
    BY <2>4, Negations
  <2> QED BY <2>3, <2>4, <2>5
<1> QED BY <1>0, <1>1, <1>2, <1>3, <1>4, <1>5, <1>6

\* Every bound of a is one of b: the two sides of it have different children.
LEMMA AgreeBounds ==
    ASSUME NEW a \in Cdds, NEW b \in Cdds, ~IsTerminal(a), ~IsTerminal(b), LevelOf(a) = LevelOf(b), Agree(a, b),
           CanonicalBelow(LevelOf(a)), IsCdd(LevelOf(a))
    PROVE  Among(BoundsIn(a.node.elem), BoundsIn(b.node.elem))
<1> DEFINE l == LevelOf(a)
           ba == BoundsIn(a.node.elem)
           bb == BoundsIn(b.node.elem)
<1>1. /\ l \in CddLevels /\ BoundList(ba) /\ Len(ba) = Arity(a) /\ \A k \in 1..Len(ba) : ba[k] \in BoundsOf(l)
      /\ Len(ba) \in Nat /\ \A k \in 1..(Len(ba) - 1) : Child(a, k) # Child(a, k + 1)
  BY CddNode
<1>2. /\ BoundList(bb) /\ Len(bb) = Arity(b) /\ \A k \in 1..Len(bb) : bb[k] \in BoundsOf(l)
      /\ Len(bb) \in Nat /\ Len(bb) >= 1
  BY CddNode
<1>3. BoundsOf(l) = RawBnd[l] \cup {INF} /\ INF \in Int /\ -INF \in Int
  BY Basics DEF BoundsOf
<1>4. \A k \in 1..Len(ba), m \in 1..Len(bb), e \in CellReps(l) :
          Covers(ba, e, k) /\ Covers(bb, e, m) => Child(a, k) = Child(b, m)
  BY <1>1, <1>2, SharedEdges
<1>5. CellReps(l) \subseteq Int
  BY <1>1, CellRepsAre, DiffsAreInt
<1> HIDE DEF l, ba, bb
<1> SUFFICES ASSUME NEW k \in 1..Len(ba), \A m \in 1..Len(bb) : bb[m] # ba[k] PROVE FALSE
  BY DEF Among, ba, bb
<1>6. ba[k] # INF
  <2>1. bb[Len(bb)] = INF /\ Len(bb) \in 1..Len(bb)
    BY <1>2 DEF BoundList
  <2> QED BY <2>1
<1>7. ba[k] \in RawBnd[l] /\ ba[k] \in Int /\ ba[k] < INF /\ -INF < ba[k]
  BY <1>1, <1>3, <1>6, FiniteBound
<1>8. k # Len(ba)
  BY <1>1, <1>6 DEF BoundList
<1>9. k + 1 \in 1..Len(ba) /\ k \in 1..(Len(ba) - 1) /\ (k + 1) - 1 = k
  BY <1>1, <1>8
<1>10. PICK m \in 1..Len(bb) : ba[k] < bb[m] /\ (m = 1 \/ bb[m - 1] < ba[k])
  BY <1>2, <1>7, Straddle
<1> DEFINE x == ba[k]
           y1 == IF k = 1 THEN -INF ELSE ba[k - 1]
           y2 == IF m = 1 THEN -INF ELSE bb[m - 1]
           y == IF y1 <= y2 THEN y2 ELSE y1
           z == IF ba[k + 1] <= bb[m] THEN ba[k + 1] ELSE bb[m]
<1>11. y1 \in RawBnd[l] \cup {-INF} /\ y1 < x /\ y1 \in Int
  <2>1. ASSUME k # 1 PROVE ba[k - 1] \in RawBnd[l] /\ ba[k - 1] < x /\ ba[k - 1] \in Int
    <3>1. k - 1 \in 1..Len(ba) /\ k - 1 < k /\ k - 1 < Len(ba)
      BY <1>1, <2>1
    <3>2. ba[k - 1] < ba[k] /\ ba[k - 1] < INF /\ ba[k - 1] \in Int
      BY <1>1, <3>1, BoundsAscend, BoundsBelowInf
    <3> QED BY <1>1, <1>3, <3>1, <3>2
  <2> QED BY <2>1, <1>3, <1>7
<1>12. y2 \in RawBnd[l] \cup {-INF} /\ y2 < x /\ y2 \in Int
  <2>1. ASSUME m # 1 PROVE bb[m - 1] \in RawBnd[l] /\ bb[m - 1] < x /\ bb[m - 1] \in Int
    <3>1. m - 1 \in 1..Len(bb) /\ m - 1 < Len(bb)
      BY <1>2, <2>1
    <3>2. bb[m - 1] < INF /\ bb[m - 1] \in Int
      BY <1>2, <3>1, BoundsBelowInf
    <3> QED BY <1>2, <1>3, <1>10, <2>1, <3>1, <3>2
  <2> QED BY <2>1, <1>3, <1>7
<1>13. y \in RawBnd[l] \cup {-INF} /\ y < x /\ y1 <= y /\ y2 <= y
  <2> HIDE DEF y1, y2
  <2> QED BY <1>11, <1>12
<1>14. /\ x < ba[k + 1] /\ ba[k + 1] \in RawBnd[l] \cup {INF} /\ ba[k + 1] \in Int
       /\ bb[m] \in RawBnd[l] \cup {INF} /\ bb[m] \in Int
  BY <1>1, <1>2, <1>3, <1>9, BoundsBelowInf DEF BoundList
<1>15. z \in RawBnd[l] \cup {INF} /\ x < z /\ z <= ba[k + 1] /\ z <= bb[m]
  BY <1>10, <1>14
<1>16. k = 1 \/ ba[k - 1] <= y
  BY <1>13
<1>17. m = 1 \/ bb[m - 1] <= y
  BY <1>13
<1>171. m = 1 \/ bb[m - 1] <= x
  <2>1. bb[m - 1] < x => m = 1 \/ bb[m - 1] <= x
    <3>1. CASE m = 1
      BY <3>1
    <3>2. CASE m # 1
      <4>1. m - 1 \in 1..Len(bb)
        BY <1>2, <3>2
      <4>2. bb[m - 1] \in Int /\ x \in Int
        BY <1>2, <1>7, <4>1, BoundsBelowInf
      <4> HIDE DEF x
      <4> QED BY <4>2
    <3> QED BY <3>1, <3>2
  <2> QED BY <1>10, <2>1
<1>18. x \in RawBnd[l] /\ x \in Int /\ x <= ba[k] /\ x <= bb[m]
  BY <1>7, <1>10, <1>14
<1> HIDE DEF x, y, z, y1, y2
<1>19. PICK e1 \in CellReps(l) : Above(e1, y) /\ Below(e1, x)
  BY <1>1, <1>13, <1>18, CellInside
<1>20. Covers(ba, e1, k) /\ Covers(bb, e1, m)
  <2>1. e1 \in Int /\ x \in RawBnd[l] \cup {INF}
    BY <1>5, <1>18
  <2>2. Covers(ba, e1, k)
    BY <1>1, <1>13, <1>16, <1>18, <1>19, <2>1, CoverWith
  <2>3. Covers(bb, e1, m)
    BY <1>1, <1>2, <1>13, <1>17, <1>18, <1>19, <2>1, CoverWith
  <2> QED BY <2>2, <2>3
<1>21. PICK e2 \in CellReps(l) : Above(e2, x) /\ Below(e2, z)
  BY <1>1, <1>15, <1>18, CellInside
<1>22. Covers(ba, e2, k + 1) /\ Covers(bb, e2, m)
  <2>1. e2 \in Int /\ x \in RawBnd[l] \cup {-INF}
    BY <1>5, <1>18
  <2>2. k + 1 = 1 \/ ba[(k + 1) - 1] <= x
    BY <1>9, <1>18 DEF x
  <2>3. Covers(ba, e2, k + 1)
    BY <1>1, <1>9, <1>15, <1>21, <2>1, <2>2, CoverWith
  <2>4. Covers(bb, e2, m)
    BY <1>1, <1>2, <1>15, <1>171, <1>21, <2>1, CoverWith
  <2> QED BY <2>3, <2>4
<1>23. Child(a, k) = Child(b, m) /\ Child(a, k + 1) = Child(b, m)
  BY <1>4, <1>9, <1>20, <1>22
<1> QED BY <1>1, <1>9, <1>23

\* Two nodes on one CDD level.
LEMMA AgreeCdd ==
    ASSUME NEW a \in Cdds, NEW b \in Cdds, ~IsTerminal(a), ~IsTerminal(b), LevelOf(a) = LevelOf(b), Agree(a, b),
           CanonicalBelow(LevelOf(a)), IsCdd(LevelOf(a))
    PROVE  a = b
<1> DEFINE l == LevelOf(a)
           ba == BoundsIn(a.node.elem)
           bb == BoundsIn(b.node.elem)
<1>0. Agree(b, a) /\ CanonicalBelow(LevelOf(b)) /\ IsCdd(LevelOf(b))
  BY DEF Agree
<1>1. Among(ba, bb) /\ Among(bb, ba)
  BY <1>0, AgreeBounds
<1>2. BoundList(ba) /\ BoundList(bb) /\ Len(ba) = Arity(a) /\ Len(bb) = Arity(b)
  BY <1>0, CddNode
<1>3. Arity(a) = Arity(b) /\ \A k \in 1..Arity(a) : ba[k] = bb[k]
  <2>1. Len(ba) = Len(bb) /\ \A k \in 1..Len(ba) : ba[k] = bb[k]
    <3> HIDE DEF ba, bb
    <3> QED BY <1>1, <1>2, SameBounds
  <2> QED BY <2>1, <1>2
<1>4. ASSUME NEW k \in 1..Arity(a) PROVE Child(a, k) = Child(b, k)
  <2>1. l \in CddLevels /\ \A j \in 1..Len(ba) : ba[j] \in BoundsOf(l)
    BY <1>2, CddNode
  <2>2. k \in 1..Len(ba) /\ k \in 1..Len(bb) /\ k \in 1..Arity(b)
    BY <1>2, <1>3
  <2>3. PICK e \in CellReps(l) : Covers(ba, e, k)
    <3> HIDE DEF ba, l
    <3> QED BY <1>2, <2>1, <2>2, CellOfEdge
  <2>4. Covers(bb, e, k)
    <3>1. k = 1 \/ (k - 1 \in 1..Arity(a) /\ ba[k - 1] = bb[k - 1])
      BY <1>0, <1>3, CddNode
    <3>2. ba[k] = bb[k]
      BY <1>3
    <3> HIDE DEF ba, bb
    <3> QED BY <2>2, <2>3, <3>1, <3>2 DEF Covers
  <2> QED BY <2>2, <2>3, <2>4, SharedEdges
<1>5. a.neg = b.neg /\ a.neg \in {0, 1}
  <2>1. 1 \in 1..Arity(a)
    BY CddNode
  <2>2. Child(a, 1).neg = a.neg /\ Child(b, 1).neg = b.neg
    BY <1>0, CddNode
  <2> QED BY <1>4, <2>1, <2>2, PointerFacts
<1>6. ASSUME NEW k \in 1..Arity(a) PROVE a.node.elem[k] = b.node.elem[k]
  <2>1. /\ NegCond(Child(a, k), a.neg) = a.node.elem[k].child
        /\ a.node.elem[k] = Elem(a.node.elem[k].child, a.node.elem[k].bnd)
        /\ ba[k] = a.node.elem[k].bnd
    BY CddNode
  <2>2. /\ NegCond(Child(b, k), b.neg) = b.node.elem[k].child
        /\ b.node.elem[k] = Elem(b.node.elem[k].child, b.node.elem[k].bnd)
        /\ bb[k] = b.node.elem[k].bnd
    BY <1>0, <1>3, CddNode
  <2>3. ba[k] = bb[k] /\ Child(a, k) = Child(b, k)
    BY <1>3, <1>4
  <2> HIDE DEF ba, bb
  <2> QED BY <1>5, <2>1, <2>2, <2>3
<1>7. a.node.elem = b.node.elem
  <2>1. /\ a.node.elem \in EdgesOn(LevelOf(a)) /\ b.node.elem \in EdgesOn(LevelOf(a))
        /\ Len(a.node.elem) = Arity(a) /\ Len(b.node.elem) = Arity(a)
    BY <1>3, InnerFacts
  <2> QED BY <1>6, <2>1, SeqEqual DEF EdgesOn
<1>8. a.node = b.node
  BY <1>7, PointerFacts DEF LevelOf
<1> QED BY <1>5, <1>8, PointerFacts

\* Two nodes on one Boolean level.
LEMMA AgreeBdd ==
    ASSUME NEW a \in Cdds, NEW b \in Cdds, ~IsTerminal(a), ~IsTerminal(b), LevelOf(a) = LevelOf(b), Agree(a, b),
           CanonicalBelow(LevelOf(a)), ~IsCdd(LevelOf(a))
    PROVE  a = b
<1> DEFINE l == LevelOf(a)
<1>0. l \in Levels /\ CellReps(l) = {0, 1} /\ a.neg \in {0, 1} /\ b.neg \in {0, 1}
  BY InnerFacts, PointerFacts DEF CellReps
<1>1. /\ Arity(a) = 2 /\ a.node.elem = <<Elem(a.node.elem[1].child, 0), Elem(a.node.elem[2].child, 1)>>
      /\ a.node.elem[1].child \in Cdds /\ a.node.elem[2].child \in Cdds
      /\ a.node.elem[1].child.neg = 0
  BY InnerBdd
<1>2. /\ Arity(b) = 2 /\ b.node.elem = <<Elem(b.node.elem[1].child, 0), Elem(b.node.elem[2].child, 1)>>
      /\ b.node.elem[1].child \in Cdds /\ b.node.elem[2].child \in Cdds
      /\ b.node.elem[1].child.neg = 0
  BY InnerBdd
<1>3. ASSUME NEW k \in 1..2 PROVE Child(a, k) = Child(b, k)
  <2>0. PICK e \in {0, 1} : k = e + 1
    OBVIOUS
  <2>1. /\ Child(a, k) \in Cdds /\ LevelOf(Child(a, k)) > l
        /\ \A w \in Vectors : w[l] = e => Leaf(a, w) = Leaf(Child(a, k), w)
    BY <1>1, <2>0, EdgeAt
  <2>2. /\ Child(b, k) \in Cdds /\ LevelOf(Child(b, k)) > l
        /\ \A w \in Vectors : w[l] = e => Leaf(b, w) = Leaf(Child(b, k), w)
    BY <1>2, <2>0, EdgeAt
  <2>3. Agree(Child(a, k), Child(b, k))
    BY <1>0, <2>0, <2>1, <2>2, AgreeBelow
  <2> QED BY <2>1, <2>2, <2>3 DEF CanonicalBelow
<1>4. Child(a, 1) = Child(b, 1) /\ Child(a, 2) = Child(b, 2)
  BY <1>3
<1>5. a.neg = b.neg
  <2>1. Child(a, 1).neg = (0 + a.neg) % 2 /\ Child(b, 1).neg = (0 + b.neg) % 2
    BY <1>0, <1>1, <1>2, Negations DEF Child
  <2> QED BY <1>0, <1>4, <2>1
<1>6. a.node.elem[1].child = b.node.elem[1].child /\ a.node.elem[2].child = b.node.elem[2].child
  <2>1. NegCond(Child(a, 1), a.neg) = a.node.elem[1].child /\ NegCond(Child(a, 2), a.neg) = a.node.elem[2].child
    BY <1>0, <1>1, Negations DEF Child
  <2>2. NegCond(Child(b, 1), b.neg) = b.node.elem[1].child /\ NegCond(Child(b, 2), b.neg) = b.node.elem[2].child
    BY <1>0, <1>2, Negations DEF Child
  <2> QED BY <1>4, <1>5, <2>1, <2>2
<1>7. a.node.elem = b.node.elem
  BY <1>1, <1>2, <1>6
<1>8. a.node = b.node
  BY <1>7, PointerFacts DEF LevelOf
<1> QED BY <1>5, <1>8, PointerFacts

\* There is a vector.
LEMMA SomeVector == Feasible # {} /\ Vectors # {} /\ Points # {} /\ [BddLevels -> {0, 1}] # {}
<1>1. [l \in BddLevels |-> 0] \in [BddLevels -> {0, 1}]
  OBVIOUS
<1>2. Points # {}
  <2>1. [i \in 1..(ClockNum - 1) |-> 0] \in [1..(ClockNum - 1) -> Span]
    BY GridAssumption
  <2> QED BY <2>1 DEF Points
<1>3. Feasible # {}
  <2>1. PICK p \in Points, b \in [BddLevels -> {0, 1}] : TRUE
    BY <1>1, <1>2
  <2>2. VectorOf(p, b) \in Feasible
    BY <2>1 DEF Feasible
  <2> QED BY <2>2
<1> QED BY <1>1, <1>2, <1>3, FeasibleProper

\* Diagrams that agree on every vector are equal.
LEMMA CanonicalDiagrams ==
    ASSUME NEW a \in Cdds, NEW b \in Cdds, Agree(a, b)
    PROVE  a = b
<1> DEFINE P(h) == \A x \in Cdds, y \in Cdds : Deep(h, x, y) /\ Agree(x, y) => x = y
           T == {h \in Nat : P(h)}
<1>0. Depth \in Nat /\ Depth = MAXLEVEL + 1 /\ MAXLEVEL \in Nat
  BY Basics
<1>1. 0 \in T
  BY <1>0, CddLevel DEF Deep
<1>2. ASSUME NEW h \in Nat, h \in T PROVE h + 1 \in T
  <2> SUFFICES ASSUME NEW x \in Cdds, NEW y \in Cdds, Deep(h + 1, x, y), Agree(x, y) PROVE x = y
    OBVIOUS
  <2>0. LevelOf(x) \in Nat /\ LevelOf(x) <= MAXLEVEL /\ LevelOf(y) \in Nat /\ LevelOf(y) <= MAXLEVEL /\ Agree(y, x)
    BY CddLevel DEF Agree
  <2>1. ASSUME NEW l \in Nat, l = LevelOf(x) \/ l = LevelOf(y) PROVE CanonicalBelow(l)
    <3>1. \A c \in Cdds, d \in Cdds : LevelOf(c) > l /\ LevelOf(d) > l => Deep(h, c, d)
      BY <1>0, <2>0, <2>1, CddLevel DEF Deep
    <3> QED BY <3>1, <1>2 DEF CanonicalBelow
  <2>2. CASE IsTerminal(x) /\ IsTerminal(y)
    <3>1. PICK v \in Vectors : TRUE
      BY SomeVector
    <3>2. Leaf(x, v) = Leaf(y, v)
      BY DEF Agree
    <3>3. Leaf(cddtrue, v) = 1 /\ Leaf(cddfalse, v) = 0
      BY VectorsProper, TerminalLeaf
    <3> QED BY <2>2, <3>2, <3>3, TerminalIs
  <2>3. CASE ~IsTerminal(x) /\ LevelOf(x) < LevelOf(y)
    <3>1. CanonicalBelow(LevelOf(x))
      BY <2>0, <2>1
    <3> QED BY <2>3, <3>1, TopAgrees DEF CanonicalBelow
  <2>4. CASE ~IsTerminal(y) /\ LevelOf(y) < LevelOf(x)
    <3>1. CanonicalBelow(LevelOf(y))
      BY <2>0, <2>1
    <3> QED BY <2>0, <2>4, <3>1, TopAgrees DEF CanonicalBelow
  <2>5. CASE ~IsTerminal(x) /\ ~IsTerminal(y) /\ LevelOf(x) = LevelOf(y)
    <3>1. CanonicalBelow(LevelOf(x))
      BY <2>0, <2>1
    <3> QED BY <2>5, <3>1, AgreeCdd, AgreeBdd
  <2>6. /\ IsTerminal(x) => LevelOf(x) = MAXLEVEL
        /\ IsTerminal(y) => LevelOf(y) = MAXLEVEL
        /\ ~IsTerminal(x) => LevelOf(x) < MAXLEVEL
        /\ ~IsTerminal(y) => LevelOf(y) < MAXLEVEL
    BY TerminalIs, InnerFacts
  <2> QED BY <2>0, <2>2, <2>3, <2>4, <2>5, <2>6
<1> HIDE DEF P
<1>3. \A h \in Nat : h \in T
  BY <1>1, <1>2, Induction
<1>4. P(Depth)
  BY <1>0, <1>3
<1>5. Deep(Depth, a, b)
  BY <1>0, CddLevel DEF Deep
<1> QED BY <1>4, <1>5 DEF P

-----------------------------------------------------------------------------
(* The diagrams are in normal form.                                        *)

NormalStep(h, below) ==
    {d \in ddNode : IsTerminal(d) \/ ( /\ LevelOf(d) \in Levels
                                      /\ NormalEdges(LevelOf(d), d.node.elem)
                                      /\ \A k \in 1..Arity(d) : d.node.elem[k].child \in below)}
NormalRec == INSTANCE Recursion WITH Base <- {}, Step <- NormalStep

\* The normal forms of height h + 1 are made over those of height h.
LEMMA NormalEquation == \A h \in Nat : NormalAt[h + 1] = NormalStep(h + 1, NormalAt[h])
<1>1. NormalAt = NormalRec!F
  BY DEF NormalAt, NormalRec!F, NormalStep
<1> HIDE DEF NormalAt
<1> QED BY <1>1, NormalRec!Def

\* The pointers of the proofs are in the normal form that the runs check.
LEMMA CddsNormal == Cdds \subseteq NormalForms
<1> DEFINE P(h) == \A d \in Cdds : LevelOf(d) + h >= Depth => d \in NormalAt[h]
           T == {h \in Nat : P(h)}
<1>0. Depth \in Nat /\ Depth = MAXLEVEL + 1 /\ MAXLEVEL \in Nat
  BY Basics
<1>1. 0 \in T
  BY <1>0, CddLevel
<1>2. ASSUME NEW h \in Nat, h \in T PROVE h + 1 \in T
  <2> SUFFICES ASSUME NEW d \in Cdds, LevelOf(d) + (h + 1) >= Depth PROVE d \in NormalAt[h + 1]
    OBVIOUS
  <2>1. d \in ddNode
    BY PointerFacts
  <2>2. CASE IsTerminal(d)
    <3>1. d \in NormalStep(h + 1, NormalAt[h])
      BY <2>1, <2>2 DEF NormalStep
    <3> QED BY <3>1, NormalEquation
  <2>3. CASE ~IsTerminal(d)
    <3>1. /\ LevelOf(d) \in Levels /\ NormalEdges(LevelOf(d), d.node.elem)
          /\ d.node.elem \in EdgesOn(LevelOf(d)) /\ Arity(d) = Len(d.node.elem)
      BY <2>3, InnerFacts
    <3>2. ASSUME NEW k \in 1..Arity(d) PROVE d.node.elem[k].child \in NormalAt[h]
      <4>1. d.node.elem[k].child \in Cdds
        BY <3>1, EdgesAreInt
      <4>2. LevelOf(d.node.elem[k].child) > LevelOf(d)
        BY <3>1, EdgesAreInt DEF NormalEdges
      <4>3. LevelOf(d.node.elem[k].child) + h >= Depth
        <5>1. LevelOf(d) \in Nat /\ LevelOf(d.node.elem[k].child) \in Nat
          BY <4>1, CddLevel
        <5> QED BY <5>1, <4>2, <1>0
      <4> QED BY <4>1, <4>3, <1>2
    <3>3. d \in NormalStep(h + 1, NormalAt[h])
      BY <2>1, <3>1, <3>2 DEF NormalStep
    <3> QED BY <3>3, NormalEquation
  <2> QED BY <2>2, <2>3
<1> HIDE DEF P
<1>3. \A h \in Nat : h \in T
  BY <1>1, <1>2, Induction
<1>4. P(Depth)
  BY <1>0, <1>3
<1> QED BY <1>0, <1>4, CddLevel DEF P, NormalForms

-----------------------------------------------------------------------------
(* The children that cdd_reduce visits.                                    *)

\* A function on 1..n is a sequence of length n.
LEMMA FunctionIsSeq == ASSUME NEW n \in Nat, NEW X, NEW s \in [1..n -> X]
                       PROVE  s \in Seq(X) /\ Len(s) = n /\ DOMAIN s = 1..n
BY SeqDef

\* A non-empty set of natural numbers has a least member.
LEMMA MinOf ==
    ASSUME NEW S \in SUBSET Nat, S # {}
    PROVE  Min(S) \in S /\ \A x \in S : Min(S) <= x
<1>1. \E x \in S : \A y \in S : x <= y
  BY LeastElement
<1> QED BY <1>1 DEF Min

\* A non-empty bounded set of natural numbers has a greatest member.
LEMMA MaxOf ==
    ASSUME NEW n \in Nat, NEW S \in SUBSET (0..n), S # {}
    PROVE  Max(S) \in S /\ \A x \in S : x <= Max(S)
<1> DEFINE U == {k \in Nat : k <= n /\ n - k \in S}
<1>1. U # {} /\ U \subseteq Nat
  <2>1. PICK x \in S : TRUE
    OBVIOUS
  <2>2. n - x \in U
    <3>1. n - (n - x) = x /\ n - x \in Nat /\ n - x <= n
      OBVIOUS
    <3> QED BY <3>1
  <2> QED BY <2>2
<1>2. PICK u \in U : \A y \in U : u <= y
  BY <1>1, LeastElement
<1>3. \A x \in S : x <= n - u
  <2> TAKE x \in S
  <2>1. n - (n - x) = x /\ n - x \in Nat /\ n - x <= n
    OBVIOUS
  <2>2. n - x \in U
    BY <2>1
  <2> QED BY <1>2, <2>1, <2>2
<1>4. \E x \in S : \A y \in S : y <= x
  BY <1>2, <1>3
<1> QED BY <1>4 DEF Max

\* The bounds of a list of edges on CDD level l.
LevelBounds(l, bs) == BoundList(bs) /\ \A k \in 1..Len(bs) : bs[k] \in BoundsOf(l)

\* The bounds of a merged edge list: bounds of the level, and INF last.
LEMMA LevelBoundsAre ==
    ASSUME NEW l \in CddLevels, NEW bs, LevelBounds(l, bs)
    PROVE  /\ Len(bs) \in Nat /\ Len(bs) >= 1 /\ DOMAIN bs = 1..Len(bs) /\ bs[Len(bs)] = INF
           /\ \A k \in 1..Len(bs) : bs[k] \in RawBnd[l] \cup {INF} /\ bs[k] \in Int
           /\ \A k \in 1..(Len(bs) - 1) : bs[k] \in RawBnd[l] /\ \A d \in Int : Above(d, bs[k]) <=> ~Below(d, bs[k])
<1>1. BoundList(bs) /\ \A k \in 1..Len(bs) : bs[k] \in RawBnd[l] \cup {INF}
  BY DEF LevelBounds, BoundsOf, IsCdd
<1>2. Len(bs) \in Nat /\ Len(bs) >= 1 /\ DOMAIN bs = 1..Len(bs) /\ bs[Len(bs)] = INF
  BY <1>1 DEF BoundList
<1>3. ASSUME NEW k \in 1..(Len(bs) - 1)
      PROVE  bs[k] \in RawBnd[l] /\ \A d \in Int : Above(d, bs[k]) <=> ~Below(d, bs[k])
  <2>1. k \in 1..Len(bs) /\ k < Len(bs)
    BY <1>2
  <2>2. bs[k] # INF
    BY <1>1, <2>1, BoundsBelowInf
  <2>3. bs[k] \in RawBnd[l]
    BY <1>1, <2>1, <2>2
  <2> QED BY <2>3, FiniteBound
<1>4. \A k \in 1..Len(bs) : bs[k] \in Int
  BY <1>1, BoundsBelowInf
<1> QED BY <1>1, <1>2, <1>3, <1>4

\* The first and the last child of the window.
LEMMA FirstIs ==
    ASSUME NEW l \in CddLevels, NEW bs, LevelBounds(l, bs), NEW P \in SUBSET Proper,
           NEW first, first = FirstChild(P, l, bs)
    PROVE  /\ first \in 1..Len(bs)
           /\ first # Len(bs) => PushUpper(P, l, bs[first]) # {}
           /\ \A k \in 1..Len(bs) : k < first => PushUpper(P, l, bs[k]) = {}
<1> DEFINE S == {k \in DOMAIN bs : k = Len(bs) \/ Consistent(PushUpper(P, l, bs[k]))}
<1>0. Len(bs) \in Nat /\ Len(bs) >= 1 /\ DOMAIN bs = 1..Len(bs)
  BY LevelBoundsAre
<1>1. S \in SUBSET Nat /\ S # {}
  <2>1. Len(bs) \in S
    BY <1>0
  <2> QED BY <1>0, <2>1
<1>2. first = Min(S)
  BY DEF FirstChild
<1>3. first \in S /\ \A k \in S : first <= k
  <2> HIDE DEF S
  <2> QED BY <1>1, <1>2, MinOf
<1> QED BY <1>0, <1>3 DEF Consistent

EndsWindow(P, l, bs, first, last) ==
    /\ last \in 1..Len(bs) /\ first <= last
    /\ last # first => PushLower(P, l, bs[last - 1]) # {}
    /\ \A k \in 2..Len(bs) : last < k => PushLower(P, l, bs[k - 1]) = {}

\* LastChild is where the consistent lower bounds end.
LEMMA LastIs ==
    ASSUME NEW l \in CddLevels, NEW bs, LevelBounds(l, bs), NEW P \in SUBSET Proper,
           NEW first \in 1..Len(bs), NEW last, last = LastChild(P, l, bs, first)
    PROVE  EndsWindow(P, l, bs, first, last)
<1> DEFINE R == {k \in 2..Len(bs) : Consistent(PushLower(P, l, bs[k - 1]))}
           S == {first} \cup R
<1>0. Len(bs) \in Nat /\ Len(bs) >= 1
  BY LevelBoundsAre
<1>1. S \in SUBSET (0..Len(bs)) /\ S # {} /\ S \subseteq 1..Len(bs)
  BY <1>0
<1>2. last = Max(S)
  BY DEF LastChild
<1>3. last \in S /\ \A k \in S : k <= last
  <2> HIDE DEF S
  <2> QED BY <1>0, <1>1, <1>2, MaxOf
<1>4. last \in 1..Len(bs) /\ first <= last
  BY <1>1, <1>3
<1>5. last # first => PushLower(P, l, bs[last - 1]) # {}
  BY <1>3 DEF Consistent
<1>6. ASSUME NEW k \in 2..Len(bs), last < k PROVE PushLower(P, l, bs[k - 1]) = {}
  <2>1. k \notin S
    BY <1>0, <1>1, <1>3, <1>6
  <2> QED BY <2>1 DEF Consistent
<1> QED BY <1>4, <1>5, <1>6 DEF EndsWindow

\* The window as a list of indices.
Indices(bs, w) ==
    /\ Len(w) \in Nat /\ Len(w) >= 1 /\ DOMAIN w = 1..Len(w)
    /\ \A k \in 1..Len(w) : w[k] = w[1] + k - 1 /\ w[k] \in 1..Len(bs)
Reaches(bs, w) == \A m \in 1..Len(bs) : w[1] <= m /\ m <= w[Len(w)] => \E k \in 1..Len(w) : w[k] = m

\* The window of children that cdd_reduce visits, first to last.
LEMMA WindowList ==
    ASSUME NEW l \in CddLevels, NEW bs, LevelBounds(l, bs), NEW P \in SUBSET Proper,
           NEW w, w = Window(P, l, bs)
    PROVE  /\ Indices(bs, w) /\ Reaches(bs, w)
           /\ w[1] = FirstChild(P, l, bs) /\ w[Len(w)] = LastChild(P, l, bs, w[1])
<1> DEFINE first == FirstChild(P, l, bs)
           last == LastChild(P, l, bs, first)
<1>1. w = [k \in 1..(last - first + 1) |-> first + k - 1]
  BY DEF Window
<1>2. first \in 1..Len(bs) /\ last \in 1..Len(bs) /\ first <= last /\ Len(bs) \in Nat
  <2>1. Len(bs) \in Nat
    BY LevelBoundsAre
  <2>2. first \in 1..Len(bs)
    BY FirstIs
  <2>3. last = LastChild(P, l, bs, first)
    OBVIOUS
  <2> HIDE DEF first, last
  <2>4. last \in 1..Len(bs) /\ first <= last
    BY <2>2, <2>3, LastIs DEF EndsWindow
  <2> QED BY <2>1, <2>2, <2>4
<1> HIDE DEF first, last
<1>3. last - first + 1 \in Nat /\ last - first + 1 >= 1
  BY <1>2
<1>4. w \in Seq(1..Len(bs)) /\ Len(w) = last - first + 1 /\ DOMAIN w = 1..Len(w)
  <2>1. \A k \in 1..(last - first + 1) : first + k - 1 \in 1..Len(bs)
    BY <1>2
  <2>2. w \in [1..(last - first + 1) -> 1..Len(bs)]
    BY <1>1, <2>1
  <2> QED BY <1>3, <2>2, FunctionIsSeq
<1>5. \A k \in 1..Len(w) : w[k] = first + k - 1
  BY <1>1, <1>4
<1>6. w[1] = first /\ w[Len(w)] = last
  <2>1. 1 \in 1..Len(w) /\ Len(w) \in 1..Len(w)
    BY <1>3, <1>4
  <2>2. w[1] = first + 1 - 1 /\ w[Len(w)] = first + Len(w) - 1
    BY <1>5, <2>1
  <2> QED BY <2>2, <1>2, <1>4
<1>7. ASSUME NEW m \in 1..Len(bs), first <= m, m <= last PROVE \E k \in 1..Len(w) : w[k] = m
  <2>1. m - first + 1 \in 1..Len(w)
    BY <1>2, <1>4, <1>7
  <2>2. w[m - first + 1] = m
    BY <1>2, <1>5, <1>7, <2>1
  <2> QED BY <2>1, <2>2
<1>8. \A k \in 1..Len(w) : w[k] \in 1..Len(bs)
  BY <1>4
<1>9. w[1] = FirstChild(P, l, bs) /\ w[Len(w)] = LastChild(P, l, bs, w[1])
  BY <1>6 DEF first, last
<1>10. Reaches(bs, w)
  BY <1>6, <1>7 DEF Reaches
<1>11. Indices(bs, w)
  BY <1>3, <1>4, <1>5, <1>6, <1>8 DEF Indices
<1> QED BY <1>9, <1>10, <1>11

\* Which vectors are below which child.
LEMMA WindowIs ==
    ASSUME NEW l \in CddLevels, NEW bs, LevelBounds(l, bs), NEW P \in SUBSET Proper,
           NEW w, w = Window(P, l, bs)
    PROVE  /\ \A k \in 1..Len(w) : Under(P, l, bs, w, k) \subseteq P
           /\ \A k \in 1..Len(w) : \A v \in Under(P, l, bs, w, k) : Covers(bs, v[l], w[k])
           /\ \A v \in P : \E k \in 1..Len(w) : Covers(bs, v[l], w[k]) /\ v \in Under(P, l, bs, w, k)
           /\ w[1] = Len(bs) => \A v \in P : Covers(bs, v[l], Len(bs))
<1>0. /\ Len(bs) \in Nat /\ Len(bs) >= 1 /\ \A v \in P : v[l] \in Int
      /\ \A k \in 1..(Len(bs) - 1), d \in Int : Above(d, bs[k]) <=> ~Below(d, bs[k])
      /\ bs[Len(bs)] = INF
  BY LevelBoundsAre DEF CddLevels, Proper, Vals
<1>1. /\ Len(w) \in Nat /\ Len(w) >= 1
      /\ \A k \in 1..Len(w) : w[k] = w[1] + k - 1 /\ w[k] \in 1..Len(bs)
      /\ w[1] = FirstChild(P, l, bs) /\ w[Len(w)] = LastChild(P, l, bs, w[1])
      /\ Reaches(bs, w)
  <2>1. Indices(bs, w) /\ Reaches(bs, w) /\ w[1] = FirstChild(P, l, bs) /\ w[Len(w)] = LastChild(P, l, bs, w[1])
    BY WindowList
  <2> QED BY <2>1 DEF Indices
<1>2. w[1] \in 1..Len(bs) /\ \A k \in 1..Len(bs) : k < w[1] => PushUpper(P, l, bs[k]) = {}
  BY <1>1, FirstIs
<1>3. \A k \in 2..Len(bs) : w[Len(w)] < k => PushLower(P, l, bs[k - 1]) = {}
  <2>1. EndsWindow(P, l, bs, w[1], w[Len(w)])
    BY <1>1, <1>2, LastIs
  <2> QED BY <2>1 DEF EndsWindow
<1>4. ASSUME NEW k \in 1..Len(w) PROVE Under(P, l, bs, w, k) \subseteq P
  BY DEF Under, PushUpper, PushLower
\* Nothing is below the bound before the first child.
<1>5. ASSUME NEW v \in P, w[1] # 1 PROVE ~Below(v[l], bs[w[1] - 1])
  <2>1. w[1] - 1 \in 1..Len(bs) /\ w[1] - 1 < w[1]
    BY <1>2, <1>5
  <2>2. PushUpper(P, l, bs[w[1] - 1]) = {}
    BY <1>2, <2>1
  <2> QED BY <2>2 DEF PushUpper
<1>6. ASSUME NEW k \in 1..Len(w), NEW v \in Under(P, l, bs, w, k) PROVE Covers(bs, v[l], w[k])
  <2>1. Below(v[l], bs[w[k]]) /\ v \in P /\ w[k] \in 1..Len(bs)
    BY <1>1, <1>6 DEF Under, PushUpper, PushLower
  <2>2. CASE k = 1
    BY <2>1, <2>2, <1>5 DEF Covers
  <2>3. CASE k # 1
    <3>1. Above(v[l], bs[w[k] - 1])
      BY <1>6, <2>3 DEF Under, PushUpper, PushLower
    <3>2. w[k] - 1 \in 1..(Len(bs) - 1)
      BY <1>1, <1>2, <2>3
    <3>3. ~Below(v[l], bs[w[k] - 1])
      BY <1>0, <2>1, <3>1, <3>2
    <3> QED BY <2>1, <3>3 DEF Covers
  <2> QED BY <2>2, <2>3
<1>7. ASSUME NEW v \in P PROVE \E k \in 1..Len(w) : Covers(bs, v[l], w[k]) /\ v \in Under(P, l, bs, w, k)
  <2>1. PICK m : Covers(bs, v[l], m)
    BY <1>0, CoverExists DEF LevelBounds
  <2>2. m \in 1..Len(bs) /\ Below(v[l], bs[m]) /\ (m = 1 \/ ~Below(v[l], bs[m - 1]))
    BY <2>1 DEF Covers
  <2>3. w[1] <= m
    <3>1. PushUpper(P, l, bs[m]) # {}
      BY <2>2 DEF PushUpper
    <3>2. ~(m < w[1])
      BY <1>2, <2>2, <3>1
    <3>3. w[1] \in 1..Len(bs) /\ m \in 1..Len(bs)
      BY <1>2, <2>2
    <3> QED BY <3>2, <3>3
  <2>4. m <= w[Len(w)]
    <3>1. CASE m = 1
      <4>1. w[Len(w)] \in 1..Len(bs)
        BY <1>1
      <4> QED BY <3>1, <4>1
    <3>2. CASE m # 1
      <4>1. m \in 2..Len(bs) /\ m - 1 \in 1..(Len(bs) - 1)
        BY <1>0, <2>2, <3>2
      <4>2. Above(v[l], bs[m - 1])
        BY <1>0, <2>2, <3>2, <4>1
      <4>3. PushLower(P, l, bs[m - 1]) # {}
        BY <4>2 DEF PushLower
      <4>4. w[Len(w)] \in 1..Len(bs)
        BY <1>1
      <4>5. ~(w[Len(w)] < m)
        BY <1>3, <4>1, <4>3
      <4> QED BY <4>1, <4>4, <4>5
    <3> QED BY <3>1, <3>2
  <2>5. PICK k \in 1..Len(w) : w[k] = m
    BY <1>1, <2>2, <2>3, <2>4 DEF Reaches
  <2>6. v \in Under(P, l, bs, w, k)
    <3>1. CASE k = 1
      BY <2>2, <2>5, <3>1 DEF Under, PushUpper
    <3>2. CASE k # 1
      <4>1. w[k] - 1 \in 1..(Len(bs) - 1) /\ m # 1
        BY <1>1, <1>2, <2>5, <3>2
      <4>2. Above(v[l], bs[w[k] - 1])
        BY <1>0, <2>2, <2>5, <4>1
      <4> QED BY <2>2, <2>5, <3>2, <4>2 DEF Under, PushUpper, PushLower
    <3> QED BY <3>1, <3>2
  <2> QED BY <2>1, <2>5, <2>6
<1>8. ASSUME w[1] = Len(bs), NEW v \in P PROVE Covers(bs, v[l], Len(bs))
  <2>1. Below(v[l], bs[Len(bs)])
    BY <1>0 DEF Below
  <2> QED BY <2>1, <1>0, <1>5, <1>8 DEF Covers
<1> QED BY <1>4, <1>6, <1>7, <1>8

\* Diagram r packs the children over bounds that cover what the bounds of the window cover.
WindowPacked(P, l, bs, w, cs, r) == \E ws :
    /\ Packable(l, cs, ws) /\ r = Pack(l, cs, ws)
    /\ \A v \in P, k \in 1..Len(w) : Covers(bs, v[l], w[k]) => Covers(ws, v[l], k)

\* The results for the children of the window.
LEMMA PackWindowIs ==
    ASSUME NEW l \in CddLevels, NEW bs, LevelBounds(l, bs), NEW P \in SUBSET Proper,
           NEW w, w = Window(P, l, bs), NEW cs \in Seq(Cdds), Len(cs) = Len(w),
           \A k \in 1..Len(w) : LevelOf(cs[k]) > l,
           NEW r, r = PackWindow(l, bs, w, cs)
    PROVE  /\ r \in Cdds /\ LevelOf(r) >= l
           /\ \A v \in P, k \in 1..Len(w) : Covers(bs, v[l], w[k]) => Leaf(r, v) = Leaf(cs[k], v)
           /\ \A c : (\A k \in 1..Len(w) : cs[k] = c) => r = c
           /\ WindowPacked(P, l, bs, w, cs, r)
<1> DEFINE ws == [k \in 1..Len(w) |-> IF k = Len(w) THEN INF ELSE bs[w[k]]]
<1>0. /\ Len(bs) \in Nat /\ Len(bs) >= 1 /\ \A v \in P : v[l] \in Int
      /\ \A k \in 1..Len(bs) : bs[k] \in RawBnd[l] \cup {INF} /\ bs[k] \in Int
      /\ l \in Levels /\ IsCdd(l) /\ BoundsOf(l) = RawBnd[l] \cup {INF} /\ INF \in Int
      /\ BoundList(bs)
  <2>1. /\ Len(bs) \in Nat /\ Len(bs) >= 1
        /\ \A k \in 1..Len(bs) : bs[k] \in RawBnd[l] \cup {INF} /\ bs[k] \in Int
    BY LevelBoundsAre
  <2>2. /\ l \in Levels /\ IsCdd(l) /\ BoundsOf(l) = RawBnd[l] \cup {INF} /\ \A v \in P : v[l] \in Int
    BY DEF CddLevels, Proper, Vals, IsCdd, BoundsOf
  <2>3. INF \in Int /\ BoundList(bs)
    BY Basics DEF LevelBounds
  <2> QED BY <2>1, <2>2, <2>3
<1>1. /\ Len(w) \in Nat /\ Len(w) >= 1 /\ DOMAIN w = 1..Len(w)
      /\ \A k \in 1..Len(w) : w[k] = w[1] + k - 1 /\ w[k] \in 1..Len(bs)
  <2>1. Indices(bs, w)
    BY WindowList
  <2> QED BY <2>1 DEF Indices
<1>2. r = Pack(l, cs, ws)
  BY <1>1 DEF PackWindow
<1>3. ws \in Seq(Int) /\ Len(ws) = Len(w) /\ \A k \in 1..Len(w) : ws[k] = IF k = Len(w) THEN INF ELSE bs[w[k]]
  <2>1. \A k \in 1..Len(w) : (IF k = Len(w) THEN INF ELSE bs[w[k]]) \in Int
    BY <1>0, <1>1
  <2>2. ws \in [1..Len(w) -> Int]
    BY <2>1
  <2>3. \A k \in 1..Len(w) : ws[k] = IF k = Len(w) THEN INF ELSE bs[w[k]]
    OBVIOUS
  <2> HIDE DEF ws
  <2> QED BY <1>1, <2>2, <2>3, FunctionIsSeq
<1> HIDE DEF ws
<1>4. ASSUME NEW k \in 1..(Len(ws) - 1) PROVE ws[k] < ws[k + 1]
  <2>1. k \in 1..Len(w) /\ k + 1 \in 1..Len(w) /\ k # Len(w)
    BY <1>1, <1>3
  <2>2. w[k + 1] = w[k] + 1 /\ w[k] \in 1..Len(bs) /\ w[k + 1] \in 1..Len(bs)
    <3>1. w[k] = w[1] + k - 1 /\ w[k + 1] = w[1] + (k + 1) - 1 /\ w[k] \in 1..Len(bs) /\ w[k + 1] \in 1..Len(bs) /\ w[1] \in 1..Len(bs)
      BY <1>1, <2>1
    <3> QED BY <3>1
  <2>3. bs[w[k]] < bs[w[k + 1]] /\ bs[w[k]] < INF
    <3>1. w[k] < w[k + 1] /\ w[k] < Len(bs)
      BY <1>0, <2>2
    <3> QED BY <1>0, <2>2, <3>1, BoundsAscend, BoundsBelowInf
  <2> QED BY <1>3, <2>1, <2>3
<1>5. BoundList(ws)
  <2>1. ws[Len(ws)] = INF
    BY <1>1, <1>3
  <2> QED BY <1>1, <1>3, <1>4, <2>1 DEF BoundList
<1>6. Packable(l, cs, ws)
  <2>1. \A k \in 1..Len(cs) : ws[k] \in BoundsOf(l)
    BY <1>0, <1>1, <1>3
  <2> QED BY <1>3, <1>5, <2>1 DEF Packable
<1>7. /\ r \in Cdds /\ LevelOf(r) >= l
      /\ \A v \in Proper, k \in 1..Len(cs) : Covers(ws, v[l], k) => Leaf(r, v) = Leaf(cs[k], v)
      /\ \A c : (\A k \in 1..Len(cs) : cs[k] = c) => r = c
  BY <1>0, <1>2, <1>6, PackIs
<1>8. ASSUME NEW v \in P, NEW k \in 1..Len(w), Covers(bs, v[l], w[k])
      PROVE  Covers(ws, v[l], k) /\ Leaf(r, v) = Leaf(cs[k], v)
  <2>1. Below(v[l], ws[k])
    BY <1>3, <1>8 DEF Covers, Below
  <2>2. k = 1 \/ ~Below(v[l], ws[k - 1])
    <3>1. ASSUME k # 1 PROVE ~Below(v[l], ws[k - 1])
      <4>1. k - 1 \in 1..Len(w) /\ k - 1 # Len(w)
        BY <1>1, <3>1
      <4>2. w[k - 1] = w[k] - 1 /\ w[k - 1] \in 1..Len(bs)
        <5>1. w[k] = w[1] + k - 1 /\ w[1] \in 1..Len(bs)
          BY <1>1
        <5>2. w[k - 1] = w[1] + (k - 1) - 1 /\ w[k - 1] \in 1..Len(bs)
          BY <1>1, <4>1
        <5> QED BY <5>1, <5>2
      <4>3. w[k] # 1
        BY <1>1, <4>2
      <4> QED BY <1>3, <1>8, <4>1, <4>2, <4>3 DEF Covers
    <3> QED BY <3>1
  <2>3. Covers(ws, v[l], k)
    BY <1>3, <2>1, <2>2 DEF Covers
  <2> QED BY <1>7, <2>3
<1>9. WindowPacked(P, l, bs, w, cs, r)
  BY <1>2, <1>6, <1>8 DEF WindowPacked
<1> QED BY <1>7, <1>8, <1>9

-----------------------------------------------------------------------------
(* The sets of vectors that bounds define.  The clock valuations of such a  *)
(* set are closed under the maximum of one and a shifted other: the clocks *)
(* are translated back so that clock 0 is zero again.                      *)

Larger(x, y) == IF x <= y THEN y ELSE x
\* The maximum of p and of q shifted by s.
Join(p, q, s) == [c \in Clocks |-> Larger(p[c], q[c] + s) - Larger(0, s)]
MaxClosed(Q) == \A p \in Q, q \in Q, s \in Int : Join(p, q, s) \in Q
VectorsOf(Q) == {VectorOf(p, b) : p \in Q, b \in [BddLevels -> {0, 1}]}
Zonal(P) == \E Q \in SUBSET Points : MaxClosed(Q) /\ P = VectorsOf(Q)

\* Larger is the maximum of two integers.
LEMMA LargerIs == ASSUME NEW x \in Int, NEW y \in Int
                  PROVE  /\ Larger(x, y) \in Int /\ Larger(x, y) \in {x, y} /\ Larger(x, y) >= x /\ Larger(x, y) >= y
BY DEF Larger

\* Clock 0 is a clock.
LEMMA ClockZero == 0 \in Clocks /\ ClockNum \in Nat /\ Clocks \subseteq Nat
BY DifferencesAssumption DEF Clocks

\* A grid point with clock 0 at zero is a clock valuation.
LEMMA PointMade == ASSUME NEW x \in [Clocks -> Span], x[0] = 0 PROVE x \in Points
<1> DEFINE p == [i \in 1..(ClockNum - 1) |-> x[i]]
<1>1. \A c \in Clocks : c # 0 => c \in 1..(ClockNum - 1)
  BY DifferencesAssumption DEF Clocks
<1>2. \A c \in 1..(ClockNum - 1) : c \in Clocks
  BY DifferencesAssumption DEF Clocks
<1>3. p \in [1..(ClockNum - 1) -> Span]
  BY <1>2
<1>4. x = [c \in Clocks |-> IF c = 0 THEN 0 ELSE p[c]]
  BY <1>1
<1> HIDE DEF p
<1> QED BY <1>3, <1>4 DEF Points

\* The join of two points is a point, whose differences lie between those of the two.
LEMMA JoinIs ==
    ASSUME NEW p \in Points, NEW q \in Points, NEW s \in Int
    PROVE  /\ Join(p, q, s) \in Points
           /\ \A i \in Clocks : Join(p, q, s)[i] = Larger(p[i], q[i] + s) - Larger(0, s)
<1>1. /\ \A c \in Clocks : p[c] \in Span /\ p[c] \in Int /\ q[c] \in Span /\ q[c] \in Int
      /\ p[0] = 0 /\ q[0] = 0
  BY PointIs
<1>2. ASSUME NEW c \in Clocks PROVE Larger(p[c], q[c] + s) - Larger(0, s) \in Span
  <2> DEFINE x == p[c]
             y == q[c]
             z == Larger(x, y + s) - Larger(0, s)
  <2>1. x \in Int /\ y \in Int /\ x \in Span /\ y \in Span
    BY <1>1
  <2> HIDE DEF x, y
  <2>2. z \in Int /\ ((x <= z /\ z <= y) \/ (y <= z /\ z <= x))
    BY <2>1 DEF Larger
  <2>3. z \in x..y \/ z \in y..x
    BY <2>1, <2>2
  <2>4. z \in Span
    <3> HIDE DEF z
    <3> QED BY <2>1, <2>3, GridAssumption
  <2> QED BY <2>4 DEF x, y
<1>3. Join(p, q, s) \in [Clocks -> Span]
  BY <1>2 DEF Join
<1>4. Join(p, q, s)[0] = 0
  <2>1. Join(p, q, s)[0] = Larger(0, 0 + s) - Larger(0, s)
    BY <1>1, ClockZero DEF Join
  <2> QED BY <2>1, LargerIs
<1> QED BY <1>3, <1>4, PointMade DEF Join

\* Differences of the pointwise maximum of two valuations lie between those of the two.
LEMMA JoinBetween ==
    ASSUME NEW a \in Int, NEW b \in Int, NEW x \in Int, NEW y \in Int, NEW s \in Int
    PROVE  LET d == (Larger(a, b + s) - Larger(0, s)) - (Larger(x, y + s) - Larger(0, s))
           IN  d \in Int /\ (d <= a - x \/ d <= b - y) /\ (d >= a - x \/ d >= b - y)
BY DEF Larger

\* The vectors of a clock valuation, seen through a bound of a level.
LEMMA VectorBelow ==
    ASSUME NEW l \in CddLevels, NEW b \in RawBnd[l] \cup {INF}, NEW p \in Points, NEW c \in [BddLevels -> {0, 1}]
    PROVE  Below(VectorOf(p, c)[l], b) <=> Below(p[Info[l].clock1] - p[Info[l].clock2], b)
<1>1. VectorOf(p, c)[l] = RepOf(l, p[Info[l].clock1] - p[Info[l].clock2])
  BY VectorOfIs
<1>2. p[Info[l].clock1] - p[Info[l].clock2] \in Diffs
  BY LevelClocks, PointIs
<1> QED BY <1>1, <1>2, RepOfIs

\* What is below a bound is also below it when it is smaller.
LEMMA BelowDown ==
    ASSUME NEW d \in Int, NEW e \in Int, NEW b, b \in Int \/ b = INF, e <= d, Below(d, b)
    PROVE  Below(e, b)
<1>1. Unit * Limit(b) \in Int \/ b = INF
  BY LimitFacts
<1> QED BY <1>1 DEF Below

\* A bound keeps a set of vectors zonal.
LEMMA PushZonal ==
    ASSUME NEW P, Zonal(P), NEW l \in CddLevels, NEW b \in RawBnd[l] \cup {INF}
    PROVE  Zonal(PushUpper(P, l, b)) /\ (b # INF => Zonal(PushLower(P, l, b)))
<1> DEFINE i == Info[l].clock1
           j == Info[l].clock2
<1>0. i \in Clocks /\ j \in Clocks /\ (b \in Int \/ b = INF)
  BY LevelClocks, FiniteBound
<1> HIDE DEF i, j
<1>1. PICK Q \in SUBSET Points : MaxClosed(Q) /\ P = VectorsOf(Q)
  BY DEF Zonal
<1>2. \A p \in Q, c \in [BddLevels -> {0, 1}] : Below(VectorOf(p, c)[l], b) <=> Below(p[i] - p[j], b)
  BY <1>1, VectorBelow DEF i, j
<1>3. \A p \in Q : p[i] \in Int /\ p[j] \in Int /\ p \in Points
  BY <1>0, <1>1, PointIs
\* The differences of a join.
<1>4. ASSUME NEW p \in Q, NEW q \in Q, NEW s \in Int
      PROVE  LET d == Join(p, q, s)[i] - Join(p, q, s)[j]
             IN  /\ Join(p, q, s) \in Q /\ d \in Int
                 /\ d <= p[i] - p[j] \/ d <= q[i] - q[j]
                 /\ d >= p[i] - p[j] \/ d >= q[i] - q[j]
  <2>1. Join(p, q, s) \in Q
    BY <1>1 DEF MaxClosed
  <2>2. /\ Join(p, q, s)[i] = Larger(p[i], q[i] + s) - Larger(0, s)
        /\ Join(p, q, s)[j] = Larger(p[j], q[j] + s) - Larger(0, s)
    BY <1>0, <1>3, JoinIs
  <2>3. p[i] \in Int /\ p[j] \in Int /\ q[i] \in Int /\ q[j] \in Int
    BY <1>3
  <2> DEFINE a1 == p[i]
             a2 == p[j]
             b1 == q[i]
             b2 == q[j]
  <2>4. LET d == (Larger(a1, b1 + s) - Larger(0, s)) - (Larger(a2, b2 + s) - Larger(0, s))
        IN  d \in Int /\ (d <= a1 - a2 \/ d <= b1 - b2) /\ (d >= a1 - a2 \/ d >= b1 - b2)
    <3> HIDE DEF a1, a2, b1, b2
    <3>1. a1 \in Int /\ a2 \in Int /\ b1 \in Int /\ b2 \in Int
      BY <2>3 DEF a1, a2, b1, b2
    <3> QED BY <3>1, JoinBetween
  <2> QED BY <2>1, <2>2, <2>4
<1>5. Zonal(PushUpper(P, l, b))
  <2> DEFINE R == {p \in Q : Below(p[i] - p[j], b)}
  <2>1. MaxClosed(R)
    <3> SUFFICES ASSUME NEW p \in R, NEW q \in R, NEW s \in Int PROVE Join(p, q, s) \in R
      BY DEF MaxClosed
    <3> DEFINE d == Join(p, q, s)[i] - Join(p, q, s)[j]
               x == p[i] - p[j]
               y == q[i] - q[j]
    <3>1. Join(p, q, s) \in Q /\ d \in Int /\ (d <= x \/ d <= y)
      BY <1>4
    <3>2. Below(x, b) /\ Below(y, b) /\ x \in Int /\ y \in Int
      BY <1>3
    <3>3. Below(d, b)
      <4> HIDE DEF d, x, y
      <4> QED BY <1>0, <3>1, <3>2, BelowDown
    <3> QED BY <3>1, <3>3
  <2>2. PushUpper(P, l, b) = VectorsOf(R)
    BY <1>1, <1>2 DEF PushUpper, VectorsOf
  <2>3. R \in SUBSET Points
    BY <1>1
  <2> QED BY <2>1, <2>2, <2>3 DEF Zonal
<1>6. ASSUME b # INF PROVE Zonal(PushLower(P, l, b))
  <2> DEFINE R == {p \in Q : ~Below(p[i] - p[j], b)}
  <2>1. MaxClosed(R)
    <3> SUFFICES ASSUME NEW p \in R, NEW q \in R, NEW s \in Int PROVE Join(p, q, s) \in R
      BY DEF MaxClosed
    <3> DEFINE d == Join(p, q, s)[i] - Join(p, q, s)[j]
               x == p[i] - p[j]
               y == q[i] - q[j]
    <3>1. Join(p, q, s) \in Q /\ d \in Int /\ (d >= x \/ d >= y)
      BY <1>4
    <3>2. ~Below(x, b) /\ ~Below(y, b) /\ x \in Int /\ y \in Int
      BY <1>3
    <3>3. ~Below(d, b)
      <4> HIDE DEF d, x, y
      <4> QED BY <1>0, <3>1, <3>2, BelowDown
    <3> QED BY <3>1, <3>3
  <2>2. PushLower(P, l, b) = VectorsOf(R)
    <3>1. \A p \in Q, c \in [BddLevels -> {0, 1}] : Above(VectorOf(p, c)[l], b) <=> ~Below(p[i] - p[j], b)
      <4>1. b # -INF
        BY <1>6, FiniteBound
      <4> QED BY <1>2, <4>1 DEF Above
    <3> QED BY <1>1, <3>1 DEF PushLower, VectorsOf
  <2>3. R \in SUBSET Points
    BY <1>1
  <2> QED BY <2>1, <2>2, <2>3 DEF Zonal
<1> QED BY <1>5, <1>6

\* The feasible vectors, from which cdd_reduce starts, are a zonal set.
LEMMA FeasibleZonal == Zonal(Feasible)
<1>1. MaxClosed(Points)
  BY JoinIs DEF MaxClosed
<1>2. Feasible = VectorsOf(Points)
  BY DEF Feasible, VectorsOf
<1> QED BY <1>1, <1>2 DEF Zonal

\* Members of a zonal set are feasible and proper.
LEMMA ZonalProper == ASSUME NEW P, Zonal(P) PROVE P \subseteq Feasible /\ P \in SUBSET Proper
<1>1. PICK Q \in SUBSET Points : P = VectorsOf(Q)
  BY DEF Zonal
<1>2. P \subseteq Feasible
  BY <1>1 DEF VectorsOf, Feasible
<1> QED BY <1>2, FeasibleProper

\* Every valuation of a Boolean goes with every clock valuation.
LEMMA ZonalFree ==
    ASSUME NEW P, Zonal(P), NEW v \in P, NEW l \in BddLevels, NEW x \in {0, 1}
    PROVE  \E w \in P : w[l] = x /\ \A m \in Levels : m # l => w[m] = v[m]
<1>1. PICK Q \in SUBSET Points : P = VectorsOf(Q)
  BY DEF Zonal
<1>2. PICK p \in Q, c \in [BddLevels -> {0, 1}] : v = VectorOf(p, c)
  BY <1>1 DEF VectorsOf
<1> DEFINE c2 == [c EXCEPT ![l] = x]
           w == VectorOf(p, c2)
<1>3. c2 \in [BddLevels -> {0, 1}] /\ c2[l] = x /\ \A m \in BddLevels : m # l => c2[m] = c[m]
  OBVIOUS
<1> HIDE DEF c2
<1>4. w \in P
  BY <1>1, <1>3 DEF VectorsOf
<1>5. w[l] = x
  BY <1>1, <1>3, VectorOfIs
<1>6. ASSUME NEW m \in Levels, m # l PROVE w[m] = v[m]
  BY <1>1, <1>2, <1>3, <1>6, VectorOfIs DEF BddLevels
<1> QED BY <1>4, <1>5, <1>6

\* If a zonal set has vectors on both sides of an interval it has one inside.
LEMMA Between ==
    ASSUME NEW P, Zonal(P), NEW l \in CddLevels, NEW a \in RawBnd[l], NEW b \in RawBnd[l], a < b,
           NEW u \in P, Below(u[l], a), NEW v \in P, ~Below(v[l], b)
    PROVE  \E w \in P : Above(w[l], a) /\ Below(w[l], b)
<1> DEFINE i == Info[l].clock1
           j == Info[l].clock2
<1>0. i \in Clocks /\ j \in Clocks /\ a \in Int /\ b \in Int
  BY LevelClocks, FiniteBound
<1>1. PICK Q \in SUBSET Points : MaxClosed(Q) /\ P = VectorsOf(Q)
  BY DEF Zonal
<1>2. PICK p \in Q, c \in [BddLevels -> {0, 1}] : u = VectorOf(p, c)
  BY <1>1 DEF VectorsOf
<1>3. PICK q \in Q, c2 \in [BddLevels -> {0, 1}] : v = VectorOf(q, c2)
  BY <1>1 DEF VectorsOf
<1>4. Below(p[i] - p[j], a) /\ ~Below(q[i] - q[j], b)
  BY <1>1, <1>2, <1>3, VectorBelow
<1> HIDE DEF i, j
<1>5. PICK d \in Diffs : Above(d, a) /\ Below(d, b)
  BY GridAssumption
<1>6. d \in Int /\ ~Below(d, a)
  BY <1>5, DiffsAreInt, FiniteBound
<1>7. p[i] \in Int /\ p[j] \in Int /\ q[i] \in Int /\ q[j] \in Int
  BY <1>0, <1>1, PointIs
<1>8. ~(d <= p[i] - p[j])
  BY <1>0, <1>4, <1>6, <1>7, BelowDown
<1>9. ~(q[i] - q[j] <= d)
  BY <1>0, <1>4, <1>5, <1>6, <1>7, BelowDown
<1>10. p[i] - p[j] <= d /\ d <= q[i] - q[j]
  BY <1>6, <1>7, <1>8, <1>9
<1> DEFINE s == p[j] + d - q[i]
           r == Join(p, q, s)
           w == VectorOf(r, c)
<1>11. s \in Int
  BY <1>6, <1>7
<1>12. r \in Q
  BY <1>1, <1>11 DEF MaxClosed
<1>13. r[i] - r[j] = d
  <2>1. r[i] = Larger(p[i], q[i] + s) - Larger(0, s) /\ r[j] = Larger(p[j], q[j] + s) - Larger(0, s)
    <3> HIDE DEF s
    <3> QED BY <1>0, <1>1, <1>11, JoinIs
  <2>2. (Larger(p[i], q[i] + s) - Larger(0, s)) - (Larger(p[j], q[j] + s) - Larger(0, s)) = d
    <3> DEFINE a1 == p[i]
               a2 == p[j]
               b1 == q[i]
               b2 == q[j]
    <3>1. /\ a1 \in Int /\ a2 \in Int /\ b1 \in Int /\ b2 \in Int /\ a1 - a2 <= d /\ d <= b1 - b2 /\ d \in Int
          /\ s \in Int /\ s = a2 + d - b1
      BY <1>6, <1>7, <1>10, <1>11
    <3> HIDE DEF a1, a2, b1, b2, s
    <3>2. (Larger(a1, b1 + s) - Larger(0, s)) - (Larger(a2, b2 + s) - Larger(0, s)) = d
      BY <3>1 DEF Larger
    <3> QED BY <3>2 DEF a1, a2, b1, b2
  <2> HIDE DEF r, s
  <2> QED BY <2>1, <2>2
<1> HIDE DEF r, s
<1>14. w \in P
  BY <1>1, <1>12 DEF VectorsOf
<1>15. Below(w[l], b) /\ ~Below(w[l], a)
  <2>1. r \in Points
    BY <1>1, <1>12
  <2>2. /\ Below(w[l], b) <=> Below(r[Info[l].clock1] - r[Info[l].clock2], b)
        /\ Below(w[l], a) <=> Below(r[Info[l].clock1] - r[Info[l].clock2], a)
    BY <2>1, VectorBelow
  <2>3. r[Info[l].clock1] - r[Info[l].clock2] = d
    BY <1>13 DEF i, j
  <2> QED BY <1>5, <1>6, <2>2, <2>3
<1>16. a # -INF
  BY FiniteBound
<1> QED BY <1>14, <1>15, <1>16 DEF Above

\* The graph is extended with bounds that leave it consistent at every child of the window.
LEMMA UnderZonal ==
    ASSUME NEW l \in CddLevels, NEW bs, LevelBounds(l, bs), NEW P, Zonal(P), P # {},
           NEW w, w = Window(P, l, bs), w[1] # Len(bs), NEW k \in 1..Len(w)
    PROVE  Zonal(Under(P, l, bs, w, k)) /\ Under(P, l, bs, w, k) # {}
<1>0. /\ Len(bs) \in Nat /\ Len(bs) >= 1 /\ bs[Len(bs)] = INF
      /\ \A m \in 1..Len(bs) : bs[m] \in RawBnd[l] \cup {INF} /\ bs[m] \in Int
      /\ \A m \in 1..(Len(bs) - 1) : bs[m] \in RawBnd[l]
  BY LevelBoundsAre
<1>1. P \in SUBSET Proper
  BY ZonalProper
<1>2. Indices(bs, w) /\ w[1] = FirstChild(P, l, bs) /\ w[Len(w)] = LastChild(P, l, bs, w[1])
  BY <1>1, WindowList
<1>3. Len(w) \in Nat /\ Len(w) >= 1 /\ w[k] = w[1] + k - 1 /\ w[Len(w)] = w[1] + Len(w) - 1
  <2>1. Len(w) \in 1..Len(w)
    BY <1>2 DEF Indices
  <2> QED BY <1>2, <2>1 DEF Indices
<1>4. w[1] \in 1..Len(bs) /\ w[k] \in 1..Len(bs) /\ w[Len(w)] \in 1..Len(bs)
  <2>1. Len(w) \in 1..Len(w) /\ 1 \in 1..Len(w)
    BY <1>3
  <2> QED BY <1>2, <2>1 DEF Indices
<1>5. PushUpper(P, l, bs[w[1]]) # {}
  BY <1>1, <1>2, FirstIs
<1>6. /\ w[Len(w)] # w[1] => PushLower(P, l, bs[w[Len(w)] - 1]) # {}
      /\ \A m \in 2..Len(bs) : w[Len(w)] < m => PushLower(P, l, bs[m - 1]) = {}
  <2> DEFINE first == w[1]
             last == w[Len(w)]
  <2>1. last = LastChild(P, l, bs, first) /\ first \in 1..Len(bs)
    BY <1>2, <1>4
  <2> HIDE DEF first, last
  <2>2. EndsWindow(P, l, bs, first, last)
    BY <1>1, <2>1, LastIs
  <2> QED BY <2>2 DEF first, last, EndsWindow
<1>7. \A v \in P : v[l] \in Int
  BY <1>1 DEF Proper, Vals, CddLevels
<1>8. \A m \in 1..(Len(bs) - 1), v \in P : Above(v[l], bs[m]) <=> ~Below(v[l], bs[m])
  BY <1>7, LevelBoundsAre
<1>9. CASE k = 1
  <2>1. Under(P, l, bs, w, k) = PushUpper(P, l, bs[w[1]])
    BY <1>9 DEF Under
  <2> QED BY <1>0, <1>4, <1>5, <2>1, PushZonal
<1>10. CASE k # 1
  <2>1. w[k] - 1 \in 1..(Len(bs) - 1) /\ w[k] - 1 \in 1..Len(bs) /\ w[k] # 1
    BY <1>3, <1>4, <1>10
  <2>2. Under(P, l, bs, w, k) = PushUpper(PushLower(P, l, bs[w[k] - 1]), l, bs[w[k]])
    BY <1>10 DEF Under
  <2>3. bs[w[k] - 1] \in RawBnd[l] /\ bs[w[k] - 1] # INF
    BY <1>0, <2>1, FiniteBound
  <2>4. Zonal(PushLower(P, l, bs[w[k] - 1]))
    BY <2>3, PushZonal
  <2>5. Zonal(Under(P, l, bs, w, k))
    BY <1>0, <1>4, <2>2, <2>4, PushZonal
  <2>6. w[Len(w)] # w[1]
    BY <1>3, <1>4, <1>10
  <2>7. PICK v \in P : Above(v[l], bs[w[Len(w)] - 1])
    BY <1>6, <2>6 DEF PushLower
  <2>8. CASE k = Len(w)
    <3>1. Below(v[l], bs[w[k]])
      <4>1. CASE w[k] = Len(bs)
        BY <1>0, <4>1 DEF Below
      <4>2. CASE w[k] # Len(bs)
        <5>1. w[k] + 1 \in 2..Len(bs) /\ (w[k] + 1) - 1 = w[k] /\ w[k] < w[k] + 1 /\ w[k] \in 1..(Len(bs) - 1)
          BY <1>0, <1>4, <4>2
        <5>2. PushLower(P, l, bs[w[k]]) = {}
          BY <1>6, <2>8, <5>1
        <5>3. ~Above(v[l], bs[w[k]])
          BY <5>2 DEF PushLower
        <5> QED BY <1>8, <5>1, <5>3
      <4> QED BY <4>1, <4>2
    <3>2. v \in Under(P, l, bs, w, k)
      BY <2>2, <2>7, <2>8, <3>1 DEF PushUpper, PushLower
    <3> QED BY <2>5, <3>2
  <2>9. CASE k # Len(w)
    <3>1. w[k] \in 1..(Len(bs) - 1) /\ w[k] <= w[Len(w)] - 1 /\ w[1] <= w[k] - 1 /\ w[Len(w)] - 1 \in 1..(Len(bs) - 1)
      BY <1>3, <1>4, <1>10, <2>9
    <3>2. bs[w[k]] \in RawBnd[l] /\ bs[w[k] - 1] \in RawBnd[l] /\ bs[w[k] - 1] < bs[w[k]]
      <4>1. BoundList(bs)
        BY DEF LevelBounds
      <4>2. w[k] - 1 < w[k] /\ w[k] - 1 \in 1..Len(bs)
        BY <1>4, <2>1
      <4>3. bs[w[k] - 1] < bs[w[k]]
        BY <1>4, <4>1, <4>2, BoundsAscend
      <4> QED BY <1>0, <2>1, <3>1, <4>3
    <3>3. PICK u \in P : Below(u[l], bs[w[1]])
      BY <1>5 DEF PushUpper
    <3>4. Below(u[l], bs[w[k] - 1])
      <4>1. bs[w[1]] <= bs[w[k] - 1]
        <5>1. CASE w[1] = w[k] - 1
          <6>1. bs[w[1]] \in Int
            BY <1>0, <1>4
          <6> QED BY <5>1, <6>1
        <5>2. CASE w[1] < w[k] - 1
          <6>1. bs[w[1]] < bs[w[k] - 1]
            BY <1>4, <2>1, <5>2, BoundsAscend DEF LevelBounds
          <6>2. bs[w[1]] \in Int /\ bs[w[k] - 1] \in Int
            BY <1>0, <1>4, <2>1
          <6> QED BY <6>1, <6>2
        <5> QED BY <3>1, <5>1, <5>2, <1>4, <2>1
      <4>2. bs[w[1]] \in Int /\ bs[w[k] - 1] \in Int /\ bs[w[k] - 1] <= INF
        BY <1>0, <1>4, <2>1, BoundsBelowInf DEF LevelBounds
      <4> QED BY <1>7, <3>3, <4>1, <4>2, BelowMonotone
    <3>5. ~Below(v[l], bs[w[k]])
      <4>1. ~Below(v[l], bs[w[Len(w)] - 1])
        BY <1>8, <2>7, <3>1
      <4> DEFINE n == w[Len(w)] - 1
                 m == w[k]
      <4>2. n \in 1..Len(bs) /\ m \in 1..Len(bs) /\ m <= n
        BY <1>4, <3>1
      <4> HIDE DEF n, m
      <4>3. bs[m] <= bs[n] /\ bs[m] \in Int /\ bs[n] \in Int /\ bs[n] <= INF
        <5>1. bs[m] \in Int /\ bs[n] \in Int /\ bs[n] <= INF
          BY <4>2, BoundsBelowInf DEF LevelBounds
        <5>2. m < n => bs[m] < bs[n]
          BY <4>2, BoundsAscend DEF LevelBounds
        <5>3. m < n \/ m = n
          BY <4>2
        <5> QED BY <5>1, <5>2, <5>3
      <4>4. Below(v[l], bs[m]) => Below(v[l], bs[n])
        BY <1>7, <4>3, BelowMonotone
      <4> QED BY <4>1, <4>4 DEF n, m
    <3>6. PICK x \in P : Above(x[l], bs[w[k] - 1]) /\ Below(x[l], bs[w[k]])
      BY <3>2, <3>3, <3>4, <3>5, Between
    <3>7. x \in Under(P, l, bs, w, k)
      BY <2>2, <3>6 DEF PushUpper, PushLower
    <3> QED BY <2>5, <3>7
  <2> QED BY <2>8, <2>9
<1> QED BY <1>9, <1>10

-----------------------------------------------------------------------------
(* What a diagram says on a set of vectors.                                *)

\* Diagram r is V on P, and a terminal if P is defined by bounds and V does not change on it.
Represents(P, V, r) ==
    /\ r \in Cdds /\ \A v \in P : Leaf(r, v) = V[v]
    /\ Zonal(P) /\ P # {} /\ (\A u \in P, v \in P : V[u] = V[v]) => IsTerminal(r)
LeafOf(d) == [v \in Proper |-> Leaf(d, v)]

\* A result that represents a function represents every function equal to it on P.
LEMMA RepresentsSame ==
    ASSUME NEW P, NEW V, NEW H, NEW r, Represents(P, V, r), \A v \in P : V[v] = H[v]
    PROVE  Represents(P, H, r)
BY DEF Represents

\* The function a diagram stands for, as a function.
LEMMA LeafOfIs == ASSUME NEW d \in Cdds PROVE \A v \in Proper : LeafOf(d)[v] = Leaf(d, v)
BY DEF LeafOf

\* A terminal is known by one of its values.
TerminalOf(t) == IF t = 1 THEN cddtrue ELSE cddfalse

\* A terminal is determined by what it says of any one valuation.
LEMMA TerminalValue ==
    ASSUME NEW d \in Cdds, IsTerminal(d), NEW v \in Proper
    PROVE  d = TerminalOf(Leaf(d, v))
BY TerminalIs, TerminalLeaf DEF TerminalOf

\* The result for a node on a CDD level.
LEMMA WindowResult ==
    ASSUME NEW l \in CddLevels, NEW bs, LevelBounds(l, bs), NEW P \in SUBSET Proper,
           NEW w, w = Window(P, l, bs), w[1] # Len(bs), NEW V,
           NEW cs \in Seq(Cdds), Len(cs) = Len(w),
           \A k \in 1..Len(w) : LevelOf(cs[k]) > l /\ Represents(Under(P, l, bs, w, k), V, cs[k]),
           NEW r, r = PackWindow(l, bs, w, cs)
    PROVE  Represents(P, V, r) /\ LevelOf(r) >= l
<1>1. /\ r \in Cdds /\ LevelOf(r) >= l
      /\ \A v \in P, k \in 1..Len(w) : Covers(bs, v[l], w[k]) => Leaf(r, v) = Leaf(cs[k], v)
      /\ \A c : (\A k \in 1..Len(w) : cs[k] = c) => r = c
  BY PackWindowIs
<1>2. /\ \A k \in 1..Len(w) : Under(P, l, bs, w, k) \subseteq P
      /\ \A v \in P : \E k \in 1..Len(w) : Covers(bs, v[l], w[k]) /\ v \in Under(P, l, bs, w, k)
  BY WindowIs
<1>3. ASSUME NEW v \in P PROVE Leaf(r, v) = V[v]
  <2>1. PICK k \in 1..Len(w) : Covers(bs, v[l], w[k]) /\ v \in Under(P, l, bs, w, k)
    BY <1>2
  <2>2. Leaf(cs[k], v) = V[v]
    BY <2>1 DEF Represents
  <2> QED BY <1>1, <2>1, <2>2
<1>4. ASSUME Zonal(P), P # {}, \A u \in P, v \in P : V[u] = V[v] PROVE IsTerminal(r)
  <2>1. PICK v \in P : TRUE
    BY <1>4
  <2>2. ASSUME NEW k \in 1..Len(w) PROVE cs[k] = TerminalOf(V[v])
    <3>1. Zonal(Under(P, l, bs, w, k)) /\ Under(P, l, bs, w, k) # {}
      BY <1>4, UnderZonal
    <3>2. PICK u \in Under(P, l, bs, w, k) : TRUE
      BY <3>1
    <3>3. \A x \in Under(P, l, bs, w, k), y \in Under(P, l, bs, w, k) : V[x] = V[y]
      BY <1>2, <1>4
    <3>4. cs[k] \in Cdds /\ IsTerminal(cs[k]) /\ Leaf(cs[k], u) = V[u]
      BY <3>1, <3>3 DEF Represents
    <3>5. u \in P /\ u \in Proper
      BY <1>2, <3>2
    <3>6. V[u] = V[v]
      BY <1>4, <3>5
    <3> QED BY <3>4, <3>5, <3>6, TerminalValue
  <2>3. r = TerminalOf(V[v])
    BY <1>1, <2>2
  <2> QED BY <2>3, Terminals DEF TerminalOf
<1> QED BY <1>1, <1>3, <1>4 DEF Represents

\* The result for a node on a Boolean level.
LEMMA BranchResult ==
    ASSUME NEW l \in BddLevels, NEW a \in Cdds, NEW b \in Cdds, LevelOf(a) > l, LevelOf(b) > l,
           NEW P \in SUBSET Proper, NEW V, NEW V0, NEW V1, Represents(P, V0, a), Represents(P, V1, b),
           \A v \in P : V[v] = IF v[l] = 0 THEN V0[v] ELSE V1[v],
           \A u \in P, v \in P : (\A m \in Levels : m # l => u[m] = v[m]) => V0[u] = V0[v] /\ V1[u] = V1[v]
    PROVE  Represents(P, V, MakeBdd(l, a, b)) /\ LevelOf(MakeBdd(l, a, b)) >= l
<1>0. l \in Levels /\ ~IsCdd(l) /\ \A v \in P : v[l] \in {0, 1}
  BY DEF BddLevels, IsCdd, Proper
<1> DEFINE r == MakeBdd(l, a, b)
<1>1. /\ r \in Cdds /\ LevelOf(r) >= l
      /\ \A v \in Proper : Leaf(r, v) = IF v[l] = 0 THEN Leaf(a, v) ELSE Leaf(b, v)
      /\ a = b => r = a
  BY <1>0, MakeBddIs
<1> HIDE DEF r
<1>2. \A v \in P : Leaf(a, v) = V0[v] /\ Leaf(b, v) = V1[v]
  BY DEF Represents
<1>3. ASSUME NEW v \in P PROVE Leaf(r, v) = V[v]
  BY <1>1, <1>2
<1>4. ASSUME Zonal(P), P # {}, \A u \in P, v \in P : V[u] = V[v] PROVE IsTerminal(r)
  <2>1. PICK x \in P : TRUE
    BY <1>4
  <2>2. ASSUME NEW v \in P PROVE V0[v] = V[x] /\ V1[v] = V[x]
    <3>1. PICK u \in P : u[l] = 0 /\ \A m \in Levels : m # l => u[m] = v[m]
      BY <1>4, ZonalFree
    <3>2. PICK w \in P : w[l] = 1 /\ \A m \in Levels : m # l => w[m] = v[m]
      BY <1>4, ZonalFree
    <3>3. V0[u] = V0[v] /\ V1[w] = V1[v]
      BY <3>1, <3>2
    <3>4. V[u] = V0[u] /\ V[w] = V1[w]
      BY <3>1, <3>2
    <3>5. V[u] = V[x] /\ V[w] = V[x]
      BY <1>4
    <3> QED BY <3>3, <3>4, <3>5
  <2>3. IsTerminal(a) /\ IsTerminal(b)
    BY <1>4, <2>2 DEF Represents
  <2>4. Leaf(a, x) = V[x] /\ Leaf(b, x) = V[x] /\ x \in Proper
    BY <1>2, <2>2
  <2>5. a = b
    BY <2>3, <2>4, TerminalValue
  <2> QED BY <1>1, <2>3, <2>5
<1>5. Represents(P, V, r) /\ LevelOf(r) >= l
  BY <1>1, <1>3, <1>4 DEF Represents
<1> QED BY <1>5 DEF r

\* What is below level l is the same for vectors that differ at l only.
LEMMA SameBelow ==
    ASSUME NEW d \in Cdds, NEW l \in Levels, LevelOf(d) > l, NEW u \in Proper, NEW v \in Proper,
           \A m \in Levels : m # l => u[m] = v[m]
    PROVE  Leaf(d, u) = Leaf(d, v)
<1>1. \A m \in Levels : m >= LevelOf(d) => m # l
  BY LevelRange, CddLevel
<1> QED BY <1>1, LeafDepends

-----------------------------------------------------------------------------
(* cdd_reduce.                                                             *)

TarjanReduceStep(h, below) ==
    [t \in ddNode \X ValSets |-> IF IsTerminal(t[1]) THEN t[1] ELSE Reduced(below, t[1], t[2])]
TarjanReduceRec == INSTANCE Recursion WITH Base <- <<>>, Step <- TarjanReduceStep

\* tarjan_reduce_rec one level down.
LEMMA TarjanReduceEquation ==
    ASSUME NEW h \in Nat, NEW d \in ddNode, NEW P \in ValSets
    PROVE  TarjanReduceAt[h + 1][<<d, P>>] = IF IsTerminal(d) THEN d ELSE Reduced(TarjanReduceAt[h], d, P)
<1>1. TarjanReduceAt = TarjanReduceRec!F
  BY DEF TarjanReduceAt, TarjanReduceRec!F, TarjanReduceStep
<1> HIDE DEF TarjanReduceAt
<1>2. TarjanReduceAt[h + 1] = TarjanReduceStep(h + 1, TarjanReduceAt[h])
  BY <1>1, TarjanReduceRec!Def
<1>3. <<d, P>> \in ddNode \X ValSets
  OBVIOUS
<1> QED BY <1>2, <1>3 DEF TarjanReduceStep

\* Result r of reducing d below P.
ReducesTo(d, P, r) == Represents(P, LeafOf(d), r) /\ LevelOf(r) >= LevelOf(d)

\* A step of tarjan_reduce_rec is right if the calls for the children are.
LEMMA ReducedIs ==
    ASSUME NEW rec, NEW d \in Cdds, ~IsTerminal(d), NEW P \in SUBSET Proper,
           \A c \in Cdds, Q \in SUBSET Proper : LevelOf(c) > LevelOf(d) => ReducesTo(c, Q, rec[<<c, Q>>])
    PROVE  ReducesTo(d, P, Reduced(rec, d, P))
<1> DEFINE l == LevelOf(d)
           r == Reduced(rec, d, P)
<1>0. l \in Levels /\ l \in Nat
  BY InnerFacts, CddLevel
<1>1. CASE IsCdd(l)
  <2> DEFINE bs == [k \in 1..Arity(d) |-> Upper(d, k)]
             w == Window(P, l, bs)
             cs == [k \in DOMAIN w |-> rec[<<Child(d, w[k]), Under(P, l, bs, w, k)>>]]
  <2>1. /\ l \in CddLevels /\ LevelBounds(l, bs) /\ Len(bs) = Arity(d) /\ bs = BoundsIn(d.node.elem)
        /\ \A k \in 1..Arity(d) : Child(d, k) \in Cdds /\ LevelOf(Child(d, k)) > l
    <3>1. bs = BoundsIn(d.node.elem)
      BY InnerFacts DEF BoundsIn, Upper
    <3>2. BoundList(BoundsIn(d.node.elem)) /\ Len(BoundsIn(d.node.elem)) = Arity(d)
      BY <1>1, CddNode
    <3>3. l \in CddLevels /\ \A k \in 1..Arity(d) : BoundsIn(d.node.elem)[k] \in BoundsOf(l)
      BY <1>1, CddNode
    <3>4. \A k \in 1..Arity(d) : Child(d, k) \in Cdds /\ LevelOf(Child(d, k)) > l
      BY <1>1, CddNode
    <3> HIDE DEF bs
    <3> QED BY <3>1, <3>2, <3>3, <3>4 DEF LevelBounds
  <2>2. r = IF w[1] = Len(bs) THEN rec[<<Child(d, w[1]), P>>] ELSE PackWindow(l, bs, w, cs)
    <3>1. Len(bs) = Arity(d)
      BY <2>1
    <3> QED BY <1>1, <3>1 DEF Reduced
  <2> HIDE DEF bs, w, r
  <2>3. w = Window(P, l, bs)
    BY DEF w
  <2>4. Indices(bs, w)
    BY <2>1, <2>3, WindowList
  <2>5. /\ Len(w) \in Nat /\ Len(w) >= 1 /\ DOMAIN w = 1..Len(w)
        /\ \A k \in 1..Len(w) : w[k] \in 1..Arity(d)
    BY <2>1, <2>4 DEF Indices
  <2>6. \A v \in Proper, k \in 1..Arity(d) : Covers(bs, v[l], k) => Leaf(d, v) = Leaf(Child(d, k), v)
    <3> SUFFICES ASSUME NEW v \in Proper, NEW k \in 1..Arity(d), Covers(bs, v[l], k)
                 PROVE  Leaf(d, v) = Leaf(Child(d, k), v)
      OBVIOUS
    <3>1. Covers(bs, v[l], EdgeOf(d, v))
      BY <1>1, <2>1, EdgeTaken
    <3>2. v[l] \in Int /\ BoundList(bs)
      BY <1>0, <2>1 DEF Proper, Vals, LevelBounds
    <3>3. EdgeOf(d, v) = k
      BY <3>1, <3>2, CoverUnique
    <3> QED BY <3>3, LeafBelow
  <2>7. CASE w[1] = Len(bs)
    <3>1. Len(bs) \in 1..Arity(d) /\ \A v \in P : Covers(bs, v[l], Len(bs))
      <4>1. 1 \in 1..Len(w)
        BY <2>5
      <4> QED BY <2>1, <2>3, <2>5, <2>7, <4>1, WindowIs
    <3> DEFINE c == Child(d, Len(bs))
    <3>2. c \in Cdds /\ LevelOf(c) > l
      BY <2>1, <3>1
    <3>3. \A v \in P : LeafOf(c)[v] = LeafOf(d)[v]
      BY <2>6, <3>1, <3>2, LeafOfIs
    <3>4. r = rec[<<c, P>>]
      BY <2>2, <2>7
    <3> HIDE DEF c
    <3>5. ReducesTo(c, P, r)
      BY <3>2, <3>4
    <3>6. Represents(P, LeafOf(d), r)
      BY <3>3, <3>5, RepresentsSame DEF ReducesTo
    <3>7. LevelOf(r) >= l
      <4>1. r \in Cdds /\ LevelOf(r) >= LevelOf(c)
        BY <3>5 DEF ReducesTo, Represents
      <4> QED BY <1>0, <3>2, <4>1, CddLevel
    <3> QED BY <3>6, <3>7 DEF ReducesTo, r
  <2>8. CASE w[1] # Len(bs)
    <3>1. ASSUME NEW k \in 1..Len(w)
          PROVE  /\ cs[k] \in Cdds /\ LevelOf(cs[k]) > l
                 /\ Represents(Under(P, l, bs, w, k), LeafOf(d), cs[k])
      <4> DEFINE Q == Under(P, l, bs, w, k)
                 c == Child(d, w[k])
      <4>1. Q \in SUBSET Proper /\ \A v \in Q : Covers(bs, v[l], w[k])
        BY <2>1, <2>3, WindowIs
      <4>2. c \in Cdds /\ LevelOf(c) > l /\ w[k] \in 1..Arity(d)
        BY <2>1, <2>5
      <4>3. cs[k] = rec[<<c, Q>>]
        BY <2>5
      <4>4. \A v \in Q : LeafOf(c)[v] = LeafOf(d)[v]
        BY <2>6, <4>1, <4>2, LeafOfIs
      <4> HIDE DEF Q, c, cs
      <4>5. ReducesTo(c, Q, cs[k])
        BY <4>1, <4>2, <4>3
      <4>6. Represents(Q, LeafOf(d), cs[k])
        BY <4>4, <4>5, RepresentsSame DEF ReducesTo
      <4>7. cs[k] \in Cdds /\ LevelOf(cs[k]) >= LevelOf(c)
        BY <4>5 DEF ReducesTo, Represents
      <4>8. LevelOf(cs[k]) > l
        BY <1>0, <4>2, <4>7, CddLevel
      <4> QED BY <4>6, <4>7, <4>8 DEF Q
    <3>2. cs \in Seq(Cdds) /\ Len(cs) = Len(w)
      <4>1. cs \in [1..Len(w) -> Cdds]
        BY <2>5, <3>1
      <4> HIDE DEF cs
      <4> QED BY <2>5, <4>1, FunctionIsSeq
    <3>3. r = PackWindow(l, bs, w, cs)
      BY <2>2, <2>8
    <3> HIDE DEF cs
    <3>4. Represents(P, LeafOf(d), r) /\ LevelOf(r) >= l
      BY <2>1, <2>3, <2>8, <3>1, <3>2, <3>3, WindowResult
    <3> QED BY <3>4 DEF ReducesTo, r
  <2> QED BY <2>7, <2>8
<1>2. CASE ~IsCdd(l)
  <2> DEFINE a == rec[<<Low(d), P>>]
             b == rec[<<High(d), P>>]
  <2>1. /\ l \in BddLevels /\ Low(d) \in Cdds /\ High(d) \in Cdds /\ LevelOf(Low(d)) > l /\ LevelOf(High(d)) > l
    <3>1. 1 \in 1..Arity(d) /\ 2 \in 1..Arity(d) /\ l \in BddLevels
      BY <1>2, InnerBdd
    <3>2. Child(d, 1) \in Cdds /\ LevelOf(Child(d, 1)) > l
      <4>1. IF IsCdd(l) THEN Covers(BoundsIn(d.node.elem), 0, 1) ELSE 1 = 0 + 1 /\ 0 \in {0, 1}
        BY <1>2
      <4> QED BY <3>1, <4>1, EdgeAt
    <3>3. Child(d, 2) \in Cdds /\ LevelOf(Child(d, 2)) > l
      <4>1. IF IsCdd(l) THEN Covers(BoundsIn(d.node.elem), 1, 2) ELSE 2 = 1 + 1 /\ 1 \in {0, 1}
        BY <1>2
      <4> QED BY <3>1, <4>1, EdgeAt
    <3> QED BY <3>1, <3>2, <3>3 DEF Low, High
  <2>2. r = MakeBdd(l, a, b)
    BY <1>2 DEF Reduced
  <2>3. ReducesTo(Low(d), P, a) /\ ReducesTo(High(d), P, b)
    BY <2>1
  <2> HIDE DEF a, b, r
  <2>4. /\ Represents(P, LeafOf(Low(d)), a) /\ Represents(P, LeafOf(High(d)), b)
        /\ a \in Cdds /\ b \in Cdds /\ LevelOf(a) >= LevelOf(Low(d)) /\ LevelOf(b) >= LevelOf(High(d))
    BY <2>3 DEF ReducesTo, Represents
  <2>5. LevelOf(a) > l /\ LevelOf(b) > l
    BY <1>0, <2>1, <2>4, CddLevel
  <2>6. \A v \in P : LeafOf(d)[v] = IF v[l] = 0 THEN LeafOf(Low(d))[v] ELSE LeafOf(High(d))[v]
    <3> SUFFICES ASSUME NEW v \in P PROVE Leaf(d, v) = IF v[l] = 0 THEN Leaf(Low(d), v) ELSE Leaf(High(d), v)
      BY <2>1, LeafOfIs
    <3>1. EdgeOf(d, v) = v[l] + 1 /\ v[l] \in {0, 1}
      BY <1>2, <2>1 DEF EdgeOf, Proper
    <3> QED BY <3>1, LeafBelow DEF Low, High
  <2>7. ASSUME NEW u \in P, NEW v \in P, \A m \in Levels : m # l => u[m] = v[m]
        PROVE  LeafOf(Low(d))[u] = LeafOf(Low(d))[v] /\ LeafOf(High(d))[u] = LeafOf(High(d))[v]
    <3>1. Leaf(Low(d), u) = Leaf(Low(d), v) /\ Leaf(High(d), u) = Leaf(High(d), v)
      BY <1>0, <2>1, <2>7, SameBelow
    <3> QED BY <2>1, <3>1, LeafOfIs
  <2>8. Represents(P, LeafOf(d), r) /\ LevelOf(r) >= l
    <3> DEFINE V == LeafOf(d)
               V0 == LeafOf(Low(d))
               V1 == LeafOf(High(d))
    <3> HIDE DEF V, V0, V1, l
    <3>1. /\ Represents(P, V0, a) /\ Represents(P, V1, b)
          /\ \A v \in P : V[v] = IF v[l] = 0 THEN V0[v] ELSE V1[v]
      BY <2>4, <2>6 DEF V, V0, V1
    <3>2. \A u \in P, v \in P : (\A m \in Levels : m # l => u[m] = v[m]) => V0[u] = V0[v] /\ V1[u] = V1[v]
      BY <2>7 DEF V0, V1
    <3>3. l \in BddLevels /\ a \in Cdds /\ b \in Cdds /\ LevelOf(a) > l /\ LevelOf(b) > l
      BY <2>1, <2>4, <2>5
    <3>4. Represents(P, V, MakeBdd(l, a, b)) /\ LevelOf(MakeBdd(l, a, b)) >= l
      BY <3>1, <3>2, <3>3, BranchResult
    <3>5. Represents(P, V, r) /\ LevelOf(r) >= l
      BY <2>2, <3>4
    <3> QED BY <3>5 DEF V, l
  <2> QED BY <2>8 DEF ReducesTo, r
<1> QED BY <1>1, <1>2

\* cdd_reduce keeps what the diagram says of P, and what it says of P determines the result.
LEMMA TarjanReduceIs ==
    ASSUME NEW d \in Cdds, NEW P \in SUBSET Proper
    PROVE  ReducesTo(d, P, TarjanReduce(d, P))
<1> DEFINE R(h) == \A c \in Cdds, Q \in SUBSET Proper :
                      LevelOf(c) + h >= Depth => ReducesTo(c, Q, TarjanReduceAt[h][<<c, Q>>])
           T == {h \in Nat : R(h)}
<1>0. Depth \in Nat /\ Depth = MAXLEVEL + 1 /\ MAXLEVEL \in Nat
  BY Basics
<1>1. 0 \in T
  BY <1>0, CddLevel
<1>2. ASSUME NEW h \in Nat, h \in T PROVE h + 1 \in T
  <2> SUFFICES ASSUME NEW c \in Cdds, NEW Q \in SUBSET Proper, LevelOf(c) + (h + 1) >= Depth
               PROVE  ReducesTo(c, Q, TarjanReduceAt[h + 1][<<c, Q>>])
    OBVIOUS
  <2>1. c \in ddNode /\ Q \in ValSets
    BY PointerFacts DEF Proper, ValSets
  <2>2. TarjanReduceAt[h + 1][<<c, Q>>] = IF IsTerminal(c) THEN c ELSE Reduced(TarjanReduceAt[h], c, Q)
    BY <2>1, TarjanReduceEquation
  <2>3. CASE IsTerminal(c)
    <3>1. \A v \in Q : Leaf(c, v) = LeafOf(c)[v]
      BY LeafOfIs
    <3>2. LevelOf(c) >= LevelOf(c)
      BY CddLevel
    <3> QED BY <2>2, <2>3, <3>1, <3>2 DEF ReducesTo, Represents
  <2>4. CASE ~IsTerminal(c)
    <3>1. \A x \in Cdds, R1 \in SUBSET Proper : LevelOf(x) > LevelOf(c) => ReducesTo(x, R1, TarjanReduceAt[h][<<x, R1>>])
      BY <1>0, <1>2, CddLevel
    <3>2. ReducesTo(c, Q, Reduced(TarjanReduceAt[h], c, Q))
      BY <2>4, <3>1, ReducedIs
    <3> QED BY <2>2, <2>4, <3>2
  <2> QED BY <2>3, <2>4
<1> HIDE DEF R
<1>3. \A h \in Nat : h \in T
  BY <1>1, <1>2, Induction
<1>4. R(Depth)
  BY <1>0, <1>3
<1>5. LevelOf(d) + Depth >= Depth
  BY <1>0, CddLevel
<1> QED BY <1>4, <1>5 DEF R, TarjanReduce

-----------------------------------------------------------------------------
(* cdd_apply_reduce.                                                       *)

ApplyReduceStep(h, below) ==
    [t \in Ops \X ddNode \X ddNode \X ValSets \X (SUBSET Nat) |->
        IF IsTrivial(t[1], t[2], t[3]) THEN TarjanReduce(Trivial(t[1], t[2], t[3]), t[4])
        ELSE IF Min({LevelOf(t[2]), LevelOf(t[3])}) \in t[5] THEN CacheHit(t[1], t[2], t[3], t[4])
        ELSE AppliedReduced(below, t[1], t[2], t[3], t[4], t[5])]
ApplyReduceRec == INSTANCE Recursion WITH Base <- <<>>, Step <- ApplyReduceStep

\* cdd_apply_reduce_rec one level down: terminal cases, a cache hit, or the merged edges.
LEMMA ApplyReduceEquation ==
    ASSUME NEW h \in Nat, NEW op \in Ops, NEW a \in ddNode, NEW b \in ddNode, NEW P \in ValSets,
           NEW cached \in SUBSET Nat
    PROVE  ApplyReduceAt[h + 1][<<op, a, b, P, cached>>] =
               IF IsTrivial(op, a, b) THEN TarjanReduce(Trivial(op, a, b), P)
               ELSE IF Min({LevelOf(a), LevelOf(b)}) \in cached THEN CacheHit(op, a, b, P)
               ELSE AppliedReduced(ApplyReduceAt[h], op, a, b, P, cached)
<1>1. ApplyReduceAt = ApplyReduceRec!F
  BY DEF ApplyReduceAt, ApplyReduceRec!F, ApplyReduceStep
<1> HIDE DEF ApplyReduceAt
<1>2. ApplyReduceAt[h + 1] = ApplyReduceStep(h + 1, ApplyReduceAt[h])
  BY <1>1, ApplyReduceRec!Def
<1>3. <<op, a, b, P, cached>> \in Ops \X ddNode \X ddNode \X ValSets \X (SUBSET Nat)
  OBVIOUS
<1> QED BY <1>2, <1>3, Zenon DEF ApplyReduceStep

\* What an operator is to compute.
OpOf(op, a, b) == [v \in Proper |-> OpLeaf(op, Leaf(a, v), Leaf(b, v))]
OpReducesTo(op, a, b, P, r) ==
    Represents(P, OpOf(op, a, b), r) /\ (LevelOf(r) >= LevelOf(a) \/ LevelOf(r) >= LevelOf(b))

\* The pointwise combination of two diagrams, as a function.
LEMMA OpOfIs == ASSUME NEW op, NEW a, NEW b
                PROVE  \A v \in Proper : OpOf(op, a, b)[v] = OpLeaf(op, Leaf(a, v), Leaf(b, v))
BY DEF OpOf

\* Reducing the result of cdd_apply.
LEMMA ReduceComputed ==
    ASSUME NEW op, NEW a \in Cdds, NEW b \in Cdds, NEW d, Computes(op, a, b, d), NEW P \in SUBSET Proper
    PROVE  OpReducesTo(op, a, b, P, TarjanReduce(d, P))
<1>1. d \in Cdds /\ \A v \in Proper : Leaf(d, v) = OpLeaf(op, Leaf(a, v), Leaf(b, v))
  BY DEF Computes
<1>2. Represents(P, LeafOf(d), TarjanReduce(d, P)) /\ LevelOf(TarjanReduce(d, P)) >= LevelOf(d)
  BY <1>1, TarjanReduceIs DEF ReducesTo
<1>3. \A v \in P : LeafOf(d)[v] = OpOf(op, a, b)[v]
  BY <1>1, LeafOfIs, OpOfIs
<1>4. Represents(P, OpOf(op, a, b), TarjanReduce(d, P))
  BY <1>2, <1>3, RepresentsSame
<1>5. /\ LevelOf(d) \in Nat /\ LevelOf(a) \in Nat /\ LevelOf(b) \in Nat /\ LevelOf(TarjanReduce(d, P)) \in Nat
      /\ LevelOf(d) >= LevelOf(a) \/ LevelOf(d) >= LevelOf(b)
  BY <1>1, <1>2, CddLevel DEF Represents, Computes
<1> QED BY <1>2, <1>4, <1>5 DEF OpReducesTo

\* Two operands below level l that say the same as a and b on Q.
SayAlike(a, b, c1, c2, Q) == \A v \in Q : Leaf(a, v) = Leaf(c1, v) /\ Leaf(b, v) = Leaf(c2, v)

\* A result for the children represents the combination of the operands, where the children say
\* alike.
LEMMA OpBelow ==
    ASSUME NEW op, NEW a \in Cdds, NEW b \in Cdds, NEW l \in Nat, NEW c1 \in Cdds, NEW c2 \in Cdds,
           LevelOf(c1) > l, LevelOf(c2) > l, NEW Q \in SUBSET Proper, NEW r, OpReducesTo(op, c1, c2, Q, r),
           SayAlike(a, b, c1, c2, Q)
    PROVE  Represents(Q, OpOf(op, a, b), r) /\ LevelOf(r) > l /\ r \in Cdds
<1>1. \A v \in Q : OpOf(op, c1, c2)[v] = OpOf(op, a, b)[v]
  BY OpOfIs DEF SayAlike
<1>2. Represents(Q, OpOf(op, a, b), r)
  BY <1>1, RepresentsSame DEF OpReducesTo
<1>3. r \in Cdds
  BY <1>2 DEF Represents
<1>4. LevelOf(r) \in Nat /\ LevelOf(c1) \in Nat /\ LevelOf(c2) \in Nat
  BY <1>3, CddLevel
<1> QED BY <1>2, <1>3, <1>4 DEF OpReducesTo

\* V is V0 or V1 according to the Boolean at level l, on which neither depends.
Splits(P, l, V, V0, V1) ==
    /\ \A v \in P : V[v] = IF v[l] = 0 THEN V0[v] ELSE V1[v]
    /\ \A u \in P, v \in P : (\A m \in Levels : m # l => u[m] = v[m]) => V0[u] = V0[v] /\ V1[u] = V1[v]

\* A Boolean node over two results represents the function that its branches split.
LEMMA SplitResult ==
    ASSUME NEW l \in BddLevels, NEW a \in Cdds, NEW b \in Cdds, LevelOf(a) > l, LevelOf(b) > l,
           NEW P \in SUBSET Proper, NEW V, NEW V0, NEW V1, Represents(P, V0, a), Represents(P, V1, b),
           Splits(P, l, V, V0, V1)
    PROVE  Represents(P, V, MakeBdd(l, a, b)) /\ LevelOf(MakeBdd(l, a, b)) >= l
BY BranchResult DEF Splits

\* The recursive calls on operands below level l reduce to what they should.
RecReduces(rec, op, l, cached) ==
    \A c \in Cdds, d \in Cdds, Q \in SUBSET Proper :
        LevelOf(c) > l /\ LevelOf(d) > l => OpReducesTo(op, c, d, Q, rec[<<op, c, d, Q, cached>>])

\* A step of cdd_apply_reduce_rec is right if the calls for the merged edges are.
LEMMA AppliedReducedIs ==
    ASSUME NEW rec, NEW op \in Ops, NEW a \in Cdds, NEW b \in Cdds, ~IsTerminal(a), ~IsTerminal(b),
           NEW P \in SUBSET Proper, NEW cached, NEW l, l = Min({LevelOf(a), LevelOf(b)}),
           RecReduces(rec, op, l, cached)
    PROVE  OpReducesTo(op, a, b, P, AppliedReduced(rec, op, a, b, P, cached))
<1> DEFINE le == EdgesAt(a, l)
           re == EdgesAt(b, l)
           ms == Merge(le, re)
           bs == Bounds(ms)
           w  == Window(P, l, bs)
           Both(i, j, Q) == rec[<<op, NegCond(le[i].child, a.neg), NegCond(re[j].child, b.neg), Q, cached>>]
           Branch(k) == Both(Min({k, Len(le)}), Min({k, Len(re)}), P)
           Rec(k, Q) == Both(ms[k].left, ms[k].right, Q)
           cs == [k \in DOMAIN w |-> Rec(w[k], Under(P, l, bs, w, k))]
           r == AppliedReduced(rec, op, a, b, P, cached)
<1>1. /\ l \in Levels /\ l \in Nat /\ l <= LevelOf(a) /\ l <= LevelOf(b)
      /\ l \in {LevelOf(a), LevelOf(b)}
  BY TopLevel
<1>2. r = IF ~IsCdd(l) THEN MakeBdd(l, Branch(1), Branch(2))
          ELSE IF w[1] = Len(bs) THEN Rec(w[1], P) ELSE PackWindow(l, bs, w, cs)
  BY Zenon DEF AppliedReduced
<1> HIDE DEF r
<1>3. ASSUME NEW x \in Cdds, NEW y \in Cdds, LevelOf(x) > l, LevelOf(y) > l, NEW Q \in SUBSET Proper,
             SayAlike(a, b, x, y, Q),
             NEW c, c = rec[<<op, x, y, Q, cached>>]
      PROVE  Represents(Q, OpOf(op, a, b), c) /\ LevelOf(c) > l /\ c \in Cdds
  <2>1. OpReducesTo(op, x, y, Q, c)
    BY <1>3 DEF RecReduces
  <2> QED BY <1>1, <1>3, <2>1, OpBelow
<1>4. CASE IsCdd(l)
  <2>1. /\ CddList(l, le)
        /\ \A k \in 1..Len(le) : NegCond(le[k].child, a.neg) \in Cdds /\ LevelOf(NegCond(le[k].child, a.neg)) > l
        /\ \A v \in Proper, k \in 1..Len(le) : Covers(BoundsIn(le), v[l], k) =>
               Leaf(a, v) = Leaf(NegCond(le[k].child, a.neg), v)
    BY <1>1, <1>4, EdgesAtCdd
  <2>2. /\ CddList(l, re)
        /\ \A k \in 1..Len(re) : NegCond(re[k].child, b.neg) \in Cdds /\ LevelOf(NegCond(re[k].child, b.neg)) > l
        /\ \A v \in Proper, k \in 1..Len(re) : Covers(BoundsIn(re), v[l], k) =>
               Leaf(b, v) = Leaf(NegCond(re[k].child, b.neg), v)
    BY <1>1, <1>4, EdgesAtCdd
  <2> HIDE DEF le, re
  <2>ms. ms = Merge(le, re)
    OBVIOUS
  <2> HIDE DEF ms
  <2>m. MergeFacts(l, le, re, ms)
    BY <1>1, <1>4, <2>1, <2>2, <2>ms, MergedIs
  <2>3. /\ Len(ms) \in Nat /\ DOMAIN ms = 1..Len(ms)
        /\ \A k \in 1..Len(ms) : /\ ms[k].left \in 1..Len(le) /\ ms[k].right \in 1..Len(re)
                                 /\ Bounds(ms)[k] \in BoundsOf(l)
        /\ BoundList(Bounds(ms)) /\ Len(Bounds(ms)) = Len(ms)
        /\ \A x \in Int, k \in 1..Len(ms) : Covers(Bounds(ms), x, k) =>
               Covers(BoundsIn(le), x, ms[k].left) /\ Covers(BoundsIn(re), x, ms[k].right)
    BY <2>m DEF MergeFacts
  <2>4. l \in CddLevels /\ LevelBounds(l, bs) /\ Len(bs) = Len(ms)
    BY <1>4, <2>3 DEF LevelBounds, IsCdd
  <2> HIDE DEF bs
  <2>5. w = Window(P, l, bs)
    OBVIOUS
  <2> HIDE DEF w
  <2>6. Indices(bs, w)
    BY <2>4, <2>5, WindowList
  <2>7. /\ Len(w) \in Nat /\ Len(w) >= 1 /\ DOMAIN w = 1..Len(w)
        /\ \A k \in 1..Len(w) : w[k] \in 1..Len(ms)
    BY <2>4, <2>6 DEF Indices
  \* The children of edge m of the merge, on vectors that take it.
  <2>8. ASSUME NEW m \in 1..Len(ms), NEW Q \in SUBSET Proper, \A v \in Q : Covers(bs, v[l], m)
        PROVE  Represents(Q, OpOf(op, a, b), Rec(m, Q)) /\ LevelOf(Rec(m, Q)) > l /\ Rec(m, Q) \in Cdds
    <3> DEFINE x == NegCond(le[ms[m].left].child, a.neg)
               y == NegCond(re[ms[m].right].child, b.neg)
               c == Rec(m, Q)
    <3>1. x \in Cdds /\ LevelOf(x) > l /\ y \in Cdds /\ LevelOf(y) > l
      BY <2>1, <2>2, <2>3
    <3>2. ASSUME NEW v \in Q PROVE Leaf(a, v) = Leaf(x, v) /\ Leaf(b, v) = Leaf(y, v)
      <4>1. v[l] \in Int /\ v \in Proper
        BY <1>1 DEF Proper, Vals
      <4>2. Covers(Bounds(ms), v[l], m)
        BY <2>8 DEF bs
      <4>3. Covers(BoundsIn(le), v[l], ms[m].left) /\ Covers(BoundsIn(re), v[l], ms[m].right)
        BY <2>3, <4>1, <4>2
      <4>4. Leaf(a, v) = Leaf(x, v)
        BY <2>1, <2>3, <4>1, <4>3
      <4>5. Leaf(b, v) = Leaf(y, v)
        BY <2>2, <2>3, <4>1, <4>3
      <4> QED BY <4>4, <4>5
    <3>3. c = rec[<<op, x, y, Q, cached>>]
      OBVIOUS
    <3> HIDE DEF x, y, c
    <3>3a. SayAlike(a, b, x, y, Q)
      BY <3>2 DEF SayAlike
    <3>4. Represents(Q, OpOf(op, a, b), c) /\ LevelOf(c) > l /\ c \in Cdds
      BY <1>3, <3>1, <3>3a, <3>3
    <3> QED BY <3>4 DEF c
  <2> HIDE DEF Rec
  <2>9. CASE w[1] = Len(bs)
    <3>1. w[1] \in 1..Len(ms) /\ \A v \in P : Covers(bs, v[l], w[1])
      <4>1. 1 \in 1..Len(w)
        BY <2>7
      <4>2. w[1] \in 1..Len(ms)
        BY <2>7, <4>1
      <4>3. w[1] = Len(bs) => \A v \in P : Covers(bs, v[l], Len(bs))
        BY <2>4, <2>5, WindowIs
      <4>4. \A v \in P : Covers(bs, v[l], w[1])
        BY <2>9, <4>3
      <4> QED BY <4>2, <4>4
    <3>2. Represents(P, OpOf(op, a, b), Rec(w[1], P)) /\ LevelOf(Rec(w[1], P)) > l
      BY <2>8, <3>1
    <3>3. r = Rec(w[1], P)
      BY <1>2, <1>4, <2>9
    <3>4. r \in Cdds /\ Represents(P, OpOf(op, a, b), r) /\ LevelOf(r) > l
      BY <3>2, <3>3 DEF Represents
    <3>5. LevelOf(r) \in Nat /\ LevelOf(a) \in Nat /\ LevelOf(b) \in Nat
      BY <3>4, CddLevel
    <3> QED BY <1>1, <3>4, <3>5 DEF OpReducesTo, r
  <2>10. CASE w[1] # Len(bs)
    <3>1. ASSUME NEW k \in 1..Len(w)
          PROVE  /\ cs[k] \in Cdds /\ LevelOf(cs[k]) > l
                 /\ Represents(Under(P, l, bs, w, k), OpOf(op, a, b), cs[k])
      <4> DEFINE Q == Under(P, l, bs, w, k)
      <4>1. Q \in SUBSET Proper /\ \A v \in Q : Covers(bs, v[l], w[k])
        BY <2>4, <2>5, WindowIs
      <4>2. cs[k] = Rec(w[k], Q)
        BY <2>7
      <4>3. w[k] \in 1..Len(ms)
        BY <2>7
      <4> HIDE DEF Q, cs
      <4> QED BY <2>8, <4>1, <4>2, <4>3 DEF Q
    <3>2. cs \in Seq(Cdds) /\ Len(cs) = Len(w)
      <4>1. cs \in [1..Len(w) -> Cdds]
        BY <2>7, <3>1
      <4> HIDE DEF cs
      <4> QED BY <2>7, <4>1, FunctionIsSeq
    <3>3. r = PackWindow(l, bs, w, cs)
      BY <1>2, <1>4, <2>10
    <3> HIDE DEF cs
    <3>4. Represents(P, OpOf(op, a, b), r) /\ LevelOf(r) >= l
      BY <2>4, <2>5, <2>10, <3>1, <3>2, <3>3, WindowResult
    <3> QED BY <1>1, <3>4 DEF OpReducesTo, r
  <2> QED BY <2>9, <2>10
<1>5. CASE ~IsCdd(l)
  <2>1. /\ \A k \in {1, 2} : BranchAt(a, l, k) \in Cdds /\ LevelOf(BranchAt(a, l, k)) > l
        /\ \A v \in Proper : v[l] \in {0, 1} /\ Leaf(a, v) = Leaf(BranchAt(a, l, v[l] + 1), v)
    BY <1>1, <1>5, BranchAtBdd
  <2>2. /\ \A k \in {1, 2} : BranchAt(b, l, k) \in Cdds /\ LevelOf(BranchAt(b, l, k)) > l
        /\ \A v \in Proper : v[l] \in {0, 1} /\ Leaf(b, v) = Leaf(BranchAt(b, l, v[l] + 1), v)
    BY <1>1, <1>5, BranchAtBdd
  <2>3. ASSUME NEW k \in {1, 2}
        PROVE  /\ Branch(k) \in Cdds /\ LevelOf(Branch(k)) > l
               /\ Represents(P, OpOf(op, BranchAt(a, l, k), BranchAt(b, l, k)), Branch(k))
    <3> DEFINE x == BranchAt(a, l, k)
               y == BranchAt(b, l, k)
               c == Branch(k)
    <3>1. c = rec[<<op, x, y, P, cached>>]
      BY DEF BranchAt
    <3>2. x \in Cdds /\ LevelOf(x) > l /\ y \in Cdds /\ LevelOf(y) > l
      BY <2>1, <2>2
    <3> HIDE DEF x, y, c
    <3>3. OpReducesTo(op, x, y, P, c)
      BY <3>1, <3>2 DEF RecReduces
    <3>s. SayAlike(x, y, x, y, P)
      BY DEF SayAlike
    <3>4. Represents(P, OpOf(op, x, y), c) /\ LevelOf(c) > l /\ c \in Cdds
      BY <1>1, <3>2, <3>3, <3>s, OpBelow
    <3> QED BY <3>4 DEF x, y, c
  <2> DEFINE b1 == Branch(1)
             b2 == Branch(2)
             V  == OpOf(op, a, b)
             V0 == OpOf(op, BranchAt(a, l, 1), BranchAt(b, l, 1))
             V1 == OpOf(op, BranchAt(a, l, 2), BranchAt(b, l, 2))
  <2>4. b1 \in Cdds /\ LevelOf(b1) > l /\ b2 \in Cdds /\ LevelOf(b2) > l /\ Represents(P, V0, b1) /\ Represents(P, V1, b2)
    BY <2>3
  <2>5. r = MakeBdd(l, b1, b2) /\ l \in BddLevels
    BY <1>1, <1>2, <1>5 DEF BddLevels, IsCdd
  <2> HIDE DEF b1, b2
  <2>6. ASSUME NEW v \in P PROVE V[v] = IF v[l] = 0 THEN V0[v] ELSE V1[v]
    <3>0. v \in Proper
      OBVIOUS
    <3>1. CASE v[l] = 0
      <4>1. v[l] + 1 = 1
        BY <3>1
      <4>2. Leaf(a, v) = Leaf(BranchAt(a, l, 1), v) /\ Leaf(b, v) = Leaf(BranchAt(b, l, 1), v)
        BY <3>0, <4>1, <2>1, <2>2
      <4> QED BY <3>0, <3>1, <4>2, OpOfIs
    <3>2. CASE v[l] = 1
      <4>1. v[l] + 1 = 2
        BY <3>2
      <4>2. Leaf(a, v) = Leaf(BranchAt(a, l, 2), v) /\ Leaf(b, v) = Leaf(BranchAt(b, l, 2), v)
        BY <3>0, <4>1, <2>1, <2>2
      <4> QED BY <3>0, <3>2, <4>2, OpOfIs
    <3> QED BY <3>0, <3>1, <3>2, <2>1
  <2>7. ASSUME NEW u \in P, NEW v \in P, \A m \in Levels : m # l => u[m] = v[m]
        PROVE  V0[u] = V0[v] /\ V1[u] = V1[v]
    <3>1. u \in Proper /\ v \in Proper /\ \A m \in Levels : m # l => u[m] = v[m]
      BY <2>7
    <3>2. ASSUME NEW d \in Cdds, LevelOf(d) > l PROVE Leaf(d, u) = Leaf(d, v)
      BY <1>1, <3>1, <3>2, SameBelow
    <3>3. \A k \in {1, 2} : /\ Leaf(BranchAt(a, l, k), u) = Leaf(BranchAt(a, l, k), v)
                            /\ Leaf(BranchAt(b, l, k), u) = Leaf(BranchAt(b, l, k), v)
      BY <2>1, <2>2, <3>2
    <3> QED BY <3>1, <3>3, OpOfIs
  <2> HIDE DEF V, V0, V1
  <2>8. Splits(P, l, V, V0, V1)
    BY <2>6, <2>7 DEF Splits
  <2> HIDE DEF le, re, ms, w, cs, Branch, Both, Rec
  <2>x. Represents(P, V, MakeBdd(l, b1, b2)) /\ LevelOf(MakeBdd(l, b1, b2)) >= l
    BY <2>4, <2>5, <2>8, SplitResult
  <2>9. Represents(P, V, r) /\ LevelOf(r) >= l
    BY <2>5, <2>x
  <2> QED BY <1>1, <2>9 DEF OpReducesTo, r, V
<1> QED BY <1>4, <1>5

\* cdd_apply_reduce keeps what the combination says of P, and that determines the result,
\* whichever levels the cache holds.
LEMMA ApplyReduceIs ==
    ASSUME NEW op \in Ops, NEW a \in Cdds, NEW b \in Cdds, NEW P \in SUBSET Proper, NEW cached \in SUBSET Nat
    PROVE  OpReducesTo(op, a, b, P, ApplyReduce(op, a, b, P, cached))
<1> DEFINE R(h) == \A x \in Cdds, y \in Cdds, Q \in SUBSET Proper :
                      Deep(h, x, y) => OpReducesTo(op, x, y, Q, ApplyReduceAt[h][<<op, x, y, Q, cached>>])
           T == {h \in Nat : R(h)}
<1>0. Depth \in Nat /\ Depth = MAXLEVEL + 1 /\ MAXLEVEL \in Nat
  BY Basics
<1>1. 0 \in T
  <2>1. ASSUME NEW x \in Cdds, NEW y \in Cdds PROVE ~Deep(0, x, y)
    BY <1>0, CddLevel DEF Deep
  <2> QED BY <2>1
<1>2. ASSUME NEW h \in Nat, h \in T PROVE h + 1 \in T
  <2> SUFFICES ASSUME NEW x \in Cdds, NEW y \in Cdds, NEW Q \in SUBSET Proper, Deep(h + 1, x, y)
               PROVE  OpReducesTo(op, x, y, Q, ApplyReduceAt[h + 1][<<op, x, y, Q, cached>>])
    OBVIOUS
  <2>1. x \in ddNode /\ y \in ddNode /\ Q \in ValSets
    BY PointerFacts DEF Proper, ValSets
  <2>2. ApplyReduceAt[h + 1][<<op, x, y, Q, cached>>] =
               IF IsTrivial(op, x, y) THEN TarjanReduce(Trivial(op, x, y), Q)
               ELSE IF Min({LevelOf(x), LevelOf(y)}) \in cached THEN CacheHit(op, x, y, Q)
               ELSE AppliedReduced(ApplyReduceAt[h], op, x, y, Q, cached)
    BY <2>1, ApplyReduceEquation
  <2>3. CASE IsTrivial(op, x, y)
    BY <2>2, <2>3, TrivialIs, ReduceComputed
  <2>4. CASE ~IsTrivial(op, x, y) /\ Min({LevelOf(x), LevelOf(y)}) \in cached
    BY <2>2, <2>4, ApplyIs, ReduceComputed DEF CacheHit
  <2>5. CASE ~IsTrivial(op, x, y) /\ Min({LevelOf(x), LevelOf(y)}) \notin cached
    <3>1. ~IsTerminal(x) /\ ~IsTerminal(y)
      BY <2>5 DEF IsTrivial
    <3> DEFINE l == Min({LevelOf(x), LevelOf(y)})
    <3>2. l \in Nat /\ l \in {LevelOf(x), LevelOf(y)}
      BY <3>1, TopLevel
    <3>3. l = Min({LevelOf(x), LevelOf(y)})
      OBVIOUS
    <3> HIDE DEF l
    <3>4. ASSUME NEW c \in Cdds, NEW d \in Cdds, NEW Q2 \in SUBSET Proper, LevelOf(c) > l, LevelOf(d) > l
          PROVE  OpReducesTo(op, c, d, Q2, ApplyReduceAt[h][<<op, c, d, Q2, cached>>])
      <4>1. LevelOf(c) \in Nat /\ LevelOf(d) \in Nat
        BY CddLevel
      <4>2. Deep(h, c, d)
        BY <4>1, <3>2, <3>4, <1>0 DEF Deep
      <4> QED BY <4>2, <1>2
    <3>5. OpReducesTo(op, x, y, Q, AppliedReduced(ApplyReduceAt[h], op, x, y, Q, cached))
      <4>1. RecReduces(ApplyReduceAt[h], op, l, cached)
        BY <3>4 DEF RecReduces
      <4> QED BY <3>1, <3>3, <4>1, AppliedReducedIs
    <3> QED BY <3>5, <2>2, <2>5
  <2> QED BY <2>3, <2>4, <2>5
<1> HIDE DEF R
<1>3. \A h \in Nat : h \in T
  BY <1>1, <1>2, Induction
<1>4. R(Depth)
  BY <1>0, <1>3
<1>5. Deep(Depth, a, b)
  BY <1>0, CddLevel DEF Deep
<1> QED BY <1>4, <1>5 DEF R, ApplyReduce

-----------------------------------------------------------------------------
(* The client.                                                             *)

\* The inductive invariant: both pointers are diagrams that hash-consing can
\* have built, and each denotes the set that is kept beside it.
IInv == Denotes(f, F) /\ Denotes(g, G)

\* What it means that a diagram denotes a set.
LEMMA DenotesIs ==
    ASSUME NEW d, NEW D, Denotes(d, D)
    PROVE  /\ d \in Cdds /\ D \subseteq Feasible /\ D = Accepted(d, Feasible)
           /\ \A v \in Feasible : /\ v \in Proper /\ Leaf(d, v) \in {0, 1}
                                  /\ v \in D <=> Leaf(d, v) = 1
                                  /\ Holds(d, v) <=> Leaf(d, v) = 1
BY LeafBelow, FeasibleProper DEF Denotes, Accepted

\* A diagram denotes the set of the valuations that it accepts.
LEMMA Denoted ==
    ASSUME NEW d \in Cdds, NEW D \in SUBSET Feasible, \A v \in Feasible : v \in D <=> Leaf(d, v) = 1
    PROVE  Denotes(d, D)
BY DEF Denotes

\* In every state that satisfies the invariant, every operand denotes its set.
LEMMA OperandIs == ASSUME IInv, NEW o \in Operands PROVE Denotes(o.dd, o.set)
<1>1. CASE o \in Made
  BY <1>1, MadeIs
<1>2. CASE o = Meaning(g, G)
  BY <1>2 DEF Meaning, IInv
<1> QED BY <1>1, <1>2 DEF Operands

\* What is reduced below the constraints of all feasible vectors.
LEMMA ReducedDenotes ==
    ASSUME NEW V, NEW r, Represents(Feasible, V, r), NEW D \in SUBSET Feasible,
           \A v \in Feasible : V[v] \in {0, 1} /\ (v \in D <=> V[v] = 1)
    PROVE  /\ Denotes(r, D)
           /\ D = Feasible <=> r = cddtrue
           /\ D = {} <=> r = cddfalse
<1>1. r \in Cdds /\ \A v \in Feasible : Leaf(r, v) = V[v]
  BY DEF Represents
<1>2. (\A u \in Feasible, v \in Feasible : V[u] = V[v]) => IsTerminal(r)
  BY FeasibleZonal, SomeVector DEF Represents
<1>3. PICK v \in Feasible : TRUE
  BY SomeVector
<1>4. \A u \in Feasible : Leaf(cddtrue, u) = 1 /\ Leaf(cddfalse, u) = 0
  BY TerminalLeaf, FeasibleProper
<1>5. ASSUME D = Feasible PROVE r = cddtrue
  <2>1. \A u \in Feasible : V[u] = 1
    BY <1>5
  <2>2. IsTerminal(r)
    BY <1>2, <2>1
  <2>3. r = cddtrue \/ r = cddfalse
    BY <1>1, <2>2, TerminalIs
  <2> QED BY <1>1, <1>3, <1>4, <2>1, <2>3
<1>6. ASSUME D = {} PROVE r = cddfalse
  <2>1. \A u \in Feasible : V[u] = 0
    BY <1>6
  <2>2. IsTerminal(r)
    BY <1>2, <2>1
  <2>3. r = cddtrue \/ r = cddfalse
    BY <1>1, <2>2, TerminalIs
  <2> QED BY <1>1, <1>3, <1>4, <2>1, <2>3
<1>7. r = cddtrue => D = Feasible
  BY <1>1, <1>4
<1>8. r = cddfalse => D = {}
  BY <1>1, <1>4
<1>9. Denotes(r, D)
  BY <1>1, Denoted
<1> QED BY <1>5, <1>6, <1>7, <1>8, <1>9

\* cdd_reduce keeps the set, and gives a terminal for the empty and the full one.
LEMMA ReduceDenotes ==
    ASSUME NEW d, NEW D, Denotes(d, D)
    PROVE  /\ Denotes(cdd_reduce(d), D)
           /\ D = Feasible <=> cdd_reduce(d) = cddtrue
           /\ D = {} <=> cdd_reduce(d) = cddfalse
<1>1. d \in Cdds /\ D \in SUBSET Feasible /\ Feasible \in SUBSET Proper
  BY DenotesIs, FeasibleProper
<1>2. Represents(Feasible, LeafOf(d), cdd_reduce(d))
  BY <1>1, TarjanReduceIs DEF ReducesTo, cdd_reduce
<1>3. \A v \in Feasible : LeafOf(d)[v] \in {0, 1} /\ (v \in D <=> LeafOf(d)[v] = 1)
  BY <1>1, DenotesIs, LeafOfIs
<1> QED BY <1>1, <1>2, <1>3, ReducedDenotes

\* The set that an operator computes.
Combined(op, A, B) == IF op = "and" THEN A \cap B ELSE SymDiff(A, B)

\* cdd_apply and cdd_apply_reduce combine the sets, and the latter gives a terminal for the
\* empty and the full result.
LEMMA OpDenotes ==
    ASSUME NEW op \in Ops, NEW a, NEW A, Denotes(a, A), NEW b, NEW B, Denotes(b, B), NEW cached \in Caches
    PROVE  /\ Denotes(Apply(op, a, b), Combined(op, A, B))
           /\ Denotes(cdd_apply_reduce(a, b, op, cached), Combined(op, A, B))
           /\ Combined(op, A, B) = Feasible <=> cdd_apply_reduce(a, b, op, cached) = cddtrue
           /\ Combined(op, A, B) = {} <=> cdd_apply_reduce(a, b, op, cached) = cddfalse
<1> DEFINE D == Combined(op, A, B)
           r == cdd_apply_reduce(a, b, op, cached)
<1>1. a \in Cdds /\ b \in Cdds /\ Feasible \in SUBSET Proper /\ cached \in SUBSET Nat
  BY DenotesIs, FeasibleProper, ClientAssumption
<1>2. ASSUME NEW v \in Feasible PROVE OpLeaf(op, Leaf(a, v), Leaf(b, v)) \in {0, 1}
                                      /\ (v \in D <=> OpLeaf(op, Leaf(a, v), Leaf(b, v)) = 1)
  BY DenotesIs DEF Combined, SymDiff, OpLeaf, Ops
<1>3. D \in SUBSET Feasible
  BY DenotesIs DEF Combined, SymDiff
<1>4. OpReducesTo(op, a, b, Feasible, r)
  BY <1>1, ApplyReduceIs DEF cdd_apply_reduce
<1>5. Computes(op, a, b, Apply(op, a, b))
  BY <1>1, ApplyIs
<1> HIDE DEF D, r
<1>6. Denotes(Apply(op, a, b), D)
  BY <1>1, <1>2, <1>3, <1>5, Denoted DEF Computes
<1> DEFINE V == OpOf(op, a, b)
<1>7. \A v \in Feasible : V[v] \in {0, 1} /\ (v \in D <=> V[v] = 1)
  BY <1>1, <1>2, OpOfIs
<1>8. Represents(Feasible, V, r)
  BY <1>4 DEF OpReducesTo
<1> HIDE DEF V
<1>9. Denotes(r, D) /\ (D = Feasible <=> r = cddtrue) /\ (D = {} <=> r = cddfalse)
  BY <1>3, <1>7, <1>8, ReducedDenotes
<1> QED BY <1>6, <1>9 DEF D, r

\* Complementing a diagram complements its set.
LEMMA NegDenotes ==
    ASSUME NEW d, NEW D, Denotes(d, D)
    PROVE  Denotes(Neg(d), Feasible \ D)
<1>1. d \in Cdds /\ Neg(d) \in Cdds /\ \A v \in Feasible : Leaf(Neg(d), v) = 1 - Leaf(d, v)
  BY DenotesIs, Complement, FeasibleProper
<1>2. \A v \in Feasible : v \in Feasible \ D <=> Leaf(Neg(d), v) = 1
  BY <1>1, DenotesIs
<1> QED BY <1>1, <1>2, Denoted

\* cdd_and intersects the sets.
LEMMA AndDenotes ==
    ASSUME NEW a, NEW A, Denotes(a, A), NEW b, NEW B, Denotes(b, B)
    PROVE  Denotes(And(a, b), A \cap B)
<1>1. And(a, b) \in Cdds /\ \A v \in Feasible : Leaf(And(a, b), v) = IF Leaf(a, v) = 1 /\ Leaf(b, v) = 1 THEN 1 ELSE 0
  BY DenotesIs, AndIs, FeasibleProper
<1>2. A \cap B \in SUBSET Feasible /\ \A v \in Feasible : v \in A \cap B <=> Leaf(And(a, b), v) = 1
  BY <1>1, DenotesIs
<1> QED BY <1>1, <1>2, Denoted

\* cdd_or unites the sets.
LEMMA OrDenotes ==
    ASSUME NEW a, NEW A, Denotes(a, A), NEW b, NEW B, Denotes(b, B)
    PROVE  Denotes(Or(a, b), A \cup B)
<1>1. Or(a, b) \in Cdds /\ \A v \in Feasible : Leaf(Or(a, b), v) = IF Leaf(a, v) = 1 \/ Leaf(b, v) = 1 THEN 1 ELSE 0
  BY DenotesIs, OrIs, FeasibleProper
<1>2. A \cup B \in SUBSET Feasible /\ \A v \in Feasible : v \in A \cup B <=> Leaf(Or(a, b), v) = 1
  BY <1>1, DenotesIs
<1> QED BY <1>1, <1>2, Denoted

\* cdd_xor takes the symmetric difference.
LEMMA XorDenotes ==
    ASSUME NEW a, NEW A, Denotes(a, A), NEW b, NEW B, Denotes(b, B)
    PROVE  Denotes(Xor(a, b), SymDiff(A, B))
<1>1. Xor(a, b) \in Cdds /\ \A v \in Feasible : Leaf(Xor(a, b), v) = IF Leaf(a, v) = Leaf(b, v) THEN 0 ELSE 1
  BY DenotesIs, XorIs, FeasibleProper
<1>2. SymDiff(A, B) \in SUBSET Feasible /\ \A v \in Feasible : v \in SymDiff(A, B) <=> Leaf(Xor(a, b), v) = 1
  BY <1>1, DenotesIs DEF SymDiff
<1> QED BY <1>1, <1>2, Denoted

\* cdd_ite selects between the sets.
LEMMA IteDenotes ==
    ASSUME NEW a, NEW A, Denotes(a, A), NEW b, NEW B, Denotes(b, B), NEW c, NEW C, Denotes(c, C)
    PROVE  Denotes(cdd_ite(a, b, c), (A \cap B) \cup (C \ A))
<1> DEFINE d == cdd_ite(a, b, c)
           D == (A \cap B) \cup (C \ A)
<1>1. d \in Cdds /\ \A v \in Feasible : Leaf(d, v) = IF Leaf(a, v) = 1 THEN Leaf(b, v) ELSE Leaf(c, v)
  BY DenotesIs, IteIs, FeasibleProper
<1> HIDE DEF d
<1>2. D \in SUBSET Feasible /\ \A v \in Feasible : v \in D <=> Leaf(d, v) = 1
  BY <1>1, DenotesIs
<1>3. Denotes(d, D)
  BY <1>1, <1>2, Denoted
<1> QED BY <1>3 DEF d

\* cdd_remove_negative keeps the members in which no clock is negative.
LEMMA RemoveNegativeDenotes ==
    ASSUME NEW d, NEW D, Denotes(d, D)
    PROVE  Denotes(cdd_remove_negative(d), {v \in D : \A i \in Clocks \ {0} : Diff(v, i, 0) >= 0})
<1> DEFINE r == cdd_remove_negative(d)
           R == {v \in D : \A i \in Clocks \ {0} : Diff(v, i, 0) >= 0}
<1>1. r \in Cdds /\ \A v \in Feasible :
          Leaf(r, v) = IF Leaf(d, v) = 1 /\ \A i \in Clocks \ {0} : Diff(v, i, 0) >= 0 THEN 1 ELSE 0
  BY DenotesIs, RemoveNegativeIs, FeasibleProper
<1> HIDE DEF r
<1>2. R \in SUBSET Feasible /\ \A v \in Feasible : v \in R <=> Leaf(r, v) = 1
  BY <1>1, DenotesIs
<1> HIDE DEF R
<1>3. Denotes(r, R)
  BY <1>1, <1>2, Denoted
<1> QED BY <1>3 DEF r, R

\* cdd_equiv compares the sets.
LEMMA EquivIs ==
    ASSUME NEW a, NEW A, Denotes(a, A), NEW b, NEW B, Denotes(b, B)
    PROVE  cdd_equiv(a, b) <=> A = B
<1> DEFINE d == Xor(a, b)
           D == {v \in Feasible : Leaf(a, v) # Leaf(b, v)}
<1>1. d \in Cdds /\ \A v \in Feasible : Leaf(d, v) = IF Leaf(a, v) = Leaf(b, v) THEN 0 ELSE 1
  BY DenotesIs, XorIs, FeasibleProper
<1>2. cdd_equiv(a, b) <=> cdd_reduce(d) = cddfalse
  BY DEF cdd_equiv
<1> HIDE DEF d
<1>3. D \in SUBSET Feasible /\ \A v \in Feasible : v \in D <=> Leaf(d, v) = 1
  BY <1>1
<1>4. Denotes(d, D)
  BY <1>1, <1>3, Denoted
<1>5. D = {} <=> cdd_reduce(d) = cddfalse
  BY <1>4, ReduceDenotes
<1>6. D = {} <=> A = B
  BY DenotesIs
<1> QED BY <1>2, <1>5, <1>6

-----------------------------------------------------------------------------
(* Unions of lists of diagrams.                                            *)

UnionStep(n, below) == [cs \in Seq(ddNode) |-> Or(below[cs], cs[n])]
UnionRec == INSTANCE Recursion WITH Base <- [cs \in Seq(ddNode) |-> cddfalse], Step <- UnionStep

\* The union of one diagram more.
LEMMA UnionEquation ==
    ASSUME NEW cs \in Seq(ddNode)
    PROVE  /\ UnionUpto[0][cs] = cddfalse
           /\ \A n \in Nat : UnionUpto[n + 1][cs] = Or(UnionUpto[n][cs], cs[n + 1])
<1>1. UnionUpto = UnionRec!F
  BY DEF UnionUpto, UnionRec!F, UnionStep
<1> HIDE DEF UnionUpto
<1>2. /\ UnionUpto[0] = [s \in Seq(ddNode) |-> cddfalse]
      /\ \A n \in Nat : UnionUpto[n + 1] = UnionStep(n + 1, UnionUpto[n])
  BY <1>1, UnionRec!Def
<1> QED BY <1>2 DEF UnionStep

\* Operands from a level on have a union from that level on.
LEMMA OrLevel ==
    ASSUME NEW a \in Cdds, NEW b \in Cdds, NEW x \in Nat, LevelOf(a) >= x, LevelOf(b) >= x
    PROVE  LevelOf(Or(a, b)) >= x
<1> DEFINE c == And(Neg(a), Neg(b))
<1>1. /\ Neg(a) \in Cdds /\ LevelOf(Neg(a)) = LevelOf(a)
      /\ Neg(b) \in Cdds /\ LevelOf(Neg(b)) = LevelOf(b)
  BY Complement
<1>2. Computes("and", Neg(a), Neg(b), c)
  BY <1>1, ApplyIs DEF And, Ops
<1>3. Or(a, b) = Neg(c)
  BY DEF Or
<1> HIDE DEF c
<1>4. c \in Cdds /\ (LevelOf(c) >= LevelOf(a) \/ LevelOf(c) >= LevelOf(b))
  BY <1>1, <1>2 DEF Computes
<1>5. LevelOf(Or(a, b)) = LevelOf(c)
  BY <1>3, <1>4, Complement
<1> QED BY <1>4, <1>5, CddLevel

\* What the union of a list says of a valuation, and where its levels start.
AllOf(n, cs, x, d) ==
    /\ d \in Cdds /\ LevelOf(d) >= x
    /\ \A v \in Proper : Leaf(d, v) = IF \E i \in 1..n : Leaf(cs[i], v) = 1 THEN 1 ELSE 0
LEMMA UnionUptoIs ==
    ASSUME NEW cs \in Seq(Cdds), NEW x \in Nat, x <= MAXLEVEL, \A i \in 1..Len(cs) : LevelOf(cs[i]) >= x,
           NEW n \in Nat, n <= Len(cs)
    PROVE  AllOf(n, cs, x, UnionUpto[n][cs])
<1> DEFINE T == {m \in Nat : m <= Len(cs) => AllOf(m, cs, x, UnionUpto[m][cs])}
<1>0. /\ cs \in Seq(ddNode) /\ Len(cs) \in Nat
      /\ \A i \in 1..Len(cs) : cs[i] \in Cdds
  <2>1. Len(cs) \in Nat /\ \A i \in 1..Len(cs) : cs[i] \in Cdds
    BY SeqElem
  <2>2. \A i \in 1..Len(cs) : cs[i] \in ddNode
    BY <2>1, PointerFacts
  <2> DEFINE A == Cdds
             B == ddNode
  <2>3. cs \in Seq(A) /\ \A i \in 1..Len(cs) : cs[i] \in B
    BY <2>2
  <2> HIDE DEF A, B
  <2>4. cs \in Seq(B)
    BY <2>3, SeqInto
  <2> QED BY <2>1, <2>4 DEF B
<1>1. 0 \in T
  <2>1. UnionUpto[0][cs] = cddfalse
    BY <1>0, UnionEquation
  <2>2. cddfalse \in Cdds /\ LevelOf(cddfalse) >= x /\ \A v \in Proper : Leaf(cddfalse, v) = 0
    BY Terminals, TerminalLeaf
  <2>3. ~\E i \in 1..0 : TRUE
    OBVIOUS
  <2>4. AllOf(0, cs, x, cddfalse)
    BY <2>2, <2>3 DEF AllOf
  <2> QED BY <2>1, <2>4
<1>2. ASSUME NEW m \in Nat, m \in T PROVE m + 1 \in T
  <2> SUFFICES ASSUME m + 1 <= Len(cs) PROVE AllOf(m + 1, cs, x, UnionUpto[m + 1][cs])
    OBVIOUS
  <2> DEFINE a == UnionUpto[m][cs]
             b == cs[m + 1]
             d == Or(a, b)
  <2>1. AllOf(m, cs, x, a) /\ m + 1 \in 1..Len(cs)
    BY <1>0, <1>2
  <2>2. b \in Cdds /\ LevelOf(b) >= x
    BY <1>0, <2>1
  <2>3. UnionUpto[m + 1][cs] = d
    BY <1>0, UnionEquation
  <2>4. \A i \in 1..(m + 1) : i \in 1..m \/ i = m + 1
    OBVIOUS
  <2>5. m + 1 \in 1..(m + 1) /\ \A i \in 1..m : i \in 1..(m + 1)
    OBVIOUS
  <2> HIDE DEF a
  <2>6. a \in Cdds /\ LevelOf(a) >= x /\ \A v \in Proper : Leaf(a, v) = IF \E i \in 1..m : Leaf(cs[i], v) = 1 THEN 1 ELSE 0
    BY <2>1 DEF AllOf
  <2> HIDE DEF b
  <2>7. d \in Cdds /\ \A v \in Proper : Leaf(d, v) = IF Leaf(a, v) = 1 \/ Leaf(b, v) = 1 THEN 1 ELSE 0
    BY <2>2, <2>6, OrIs
  <2>8. LevelOf(d) >= x
    BY <2>2, <2>6, OrLevel
  <2> HIDE DEF d
  <2>9. \A v \in Proper : Leaf(d, v) = IF \E i \in 1..(m + 1) : Leaf(cs[i], v) = 1 THEN 1 ELSE 0
    BY <2>4, <2>5, <2>6, <2>7 DEF b
  <2>10. AllOf(m + 1, cs, x, d)
    BY <2>7, <2>8, <2>9 DEF AllOf
  <2> QED BY <2>3, <2>10
<1> HIDE DEF T
<1>3. n \in T
  BY <1>1, <1>2, Induction
<1> QED BY <1>3 DEF T

\* The union of all of them.
LEMMA UnionIs ==
    ASSUME NEW cs \in Seq(Cdds), NEW x \in Nat, x <= MAXLEVEL, \A i \in 1..Len(cs) : LevelOf(cs[i]) >= x
    PROVE  AllOf(Len(cs), cs, x, UnionOver(cs))
<1>1. cs \o <<>> = cs /\ Len(cs) \in Nat
  <2> DEFINE A == Cdds
  <2>1. cs \in Seq(A)
    OBVIOUS
  <2> HIDE DEF A
  <2> QED BY <2>1, ConcatEmpty
<1>2. UnionOver(cs) = UnionUpto[Len(cs)][cs]
  BY <1>1 DEF UnionOver
<1> QED BY <1>1, <1>2, UnionUptoIs

\* The edges of a node on a CDD level as intervals with a diagram below each.
LEMMA EdgeInterval ==
    ASSUME NEW d \in Cdds, ~IsTerminal(d), IsCdd(LevelOf(d)), NEW k \in 1..Arity(d)
    PROVE  /\ Child(d, k) \in Cdds /\ LevelOf(Child(d, k)) > LevelOf(d)
           /\ Bounded(LevelOf(d), Lower(d, k), Upper(d, k))
           /\ \A v \in Proper : InInterval(LevelOf(d), Lower(d, k), Upper(d, k), v) <=> EdgeOf(d, v) = k
<1> DEFINE l == LevelOf(d)
           bs == BoundsIn(d.node.elem)
<1>1. /\ CddList(l, d.node.elem) /\ Arity(d) >= 2 /\ Arity(d) \in Nat /\ Arity(d) = Len(d.node.elem) /\ l \in Levels
      /\ d.node.elem \in EdgesOn(l)
  BY InnerCdd, InnerFacts
<1>2. l \in CddLevels /\ INF \in Int /\ \A b \in RawBnd[l] : b \in Int /\ b # INF /\ b # -INF /\ -INF < b /\ b < INF
  <2>1. l \in CddLevels
    BY DEF IsCdd
  <2>2. INF \in Int
    BY DifferencesAssumption
  <2> HIDE DEF l
  <2> QED BY <2>1, <2>2, FiniteBound
<1>3. BoundList(bs) /\ Len(bs) = Arity(d)
  BY <1>1 DEF CddList
<1>4. \A i \in 1..Arity(d) : /\ Upper(d, i) = bs[i] /\ bs[i] \in BoundsOf(l) /\ bs[i] \in Int
                             /\ (i < Arity(d) => bs[i] \in RawBnd[l])
  <2> TAKE i \in 1..Arity(d)
  <2>1. Upper(d, i) = bs[i] /\ d.node.elem[i].bnd \in BoundsOf(l)
    BY <1>1, EdgesAreInt DEF BoundsIn, Upper
  <2>2. bs[i] \in Int /\ (i < Arity(d) => bs[i] < INF)
    BY <1>3, BoundsBelowInf
  <2>3. bs[i] = d.node.elem[i].bnd
    BY <1>1 DEF BoundsIn
  <2> HIDE DEF bs
  <2> QED BY <2>1, <2>2, <2>3, <1>2 DEF BoundsOf
<1>5. \A i \in 1..Arity(d) : i # 1 => Lower(d, i) = bs[i - 1] /\ i - 1 \in 1..Arity(d) /\ i - 1 < Arity(d)
  <2> TAKE i \in 1..Arity(d)
  <2> SUFFICES ASSUME i # 1 PROVE Lower(d, i) = bs[i - 1] /\ i - 1 \in 1..Arity(d) /\ i - 1 < Arity(d)
    OBVIOUS
  <2>1. i - 1 \in 1..Arity(d) /\ i - 1 < Arity(d)
    BY <1>1
  <2> QED BY <1>1, <2>1 DEF Lower, BoundsIn
<1>6. Lower(d, 1) = -INF
  BY DEF Lower
<1> HIDE DEF bs
<1>7. Child(d, k) \in Cdds /\ LevelOf(Child(d, k)) > l
  <2>1. d.node.elem[k].child \in Cdds /\ d.neg \in {0, 1} /\ NormalEdges(l, d.node.elem)
    BY <1>1, EdgesAreInt, PointerFacts, InnerFacts
  <2>2. LevelOf(d.node.elem[k].child) > l
    BY <1>1, <2>1, EdgesAreInt DEF NormalEdges
  <2> QED BY <2>1, <2>2, Negations DEF Child
<1>8. Bounded(l, Lower(d, k), Upper(d, k))
  <2>1. Upper(d, k) \in RawBnd[l] \cup {INF} /\ Upper(d, k) \in Int
    BY <1>2, <1>4 DEF BoundsOf, IsCdd
  <2>2. CASE k = 1
    <3>1. Upper(d, k) \in RawBnd[l] /\ Lower(d, k) = -INF
      BY <1>1, <1>4, <1>6, <2>2
    <3>2. Upper(d, k) # INF /\ -INF < Upper(d, k)
      BY <1>2, <3>1
    <3> QED BY <3>1, <3>2 DEF Bounded
  <2>3. CASE k # 1
    <3>1. Lower(d, k) = bs[k - 1] /\ bs[k - 1] \in RawBnd[l]
      BY <1>4, <1>5, <2>3
    <3>2. Lower(d, k) # -INF
      BY <1>2, <3>1
    <3>3. bs[k - 1] < bs[k]
      <4>1. k - 1 \in 1..(Len(bs) - 1) /\ (k - 1) + 1 = k
        BY <1>1, <1>3, <1>5, <2>3
      <4> QED BY <4>1, <1>3, <1>4, <1>5, <2>3 DEF BoundList
    <3> QED BY <2>1, <3>1, <3>2, <3>3, <1>4 DEF Bounded
  <2> QED BY <2>2, <2>3
<1>9. ASSUME NEW v \in Proper PROVE InInterval(l, Lower(d, k), Upper(d, k), v) <=> EdgeOf(d, v) = k
  <2>0. v[l] \in Int
    BY <1>1 DEF Proper, Vals
  <2>1. InInterval(l, Lower(d, k), Upper(d, k), v) <=> Covers(bs, v[l], k)
    <3>1. CASE k = 1
      BY <3>1, <1>3, <1>4, <1>6 DEF InInterval, Covers, Above
    <3>2. CASE k # 1
      <4>1. Lower(d, k) = bs[k - 1] /\ bs[k - 1] # -INF
        BY <1>2, <1>4, <1>5, <3>2
      <4> QED BY <4>1, <3>2, <1>3, <1>4 DEF InInterval, Covers, Above
    <3> QED BY <3>1, <3>2
  <2>2. Covers(bs, v[l], EdgeOf(d, v))
    BY EdgeTaken DEF bs
  <2>3. Covers(bs, v[l], k) => EdgeOf(d, v) = k
    BY <1>3, <2>0, <2>2, CoverUnique
  <2> QED BY <2>1, <2>2, <2>3
<1> QED BY <1>7, <1>8, <1>9


-----------------------------------------------------------------------------
(* cdd_replace.                                                            *)

RenameStep(h, below) ==
    [t \in ddNode \X [BddLevels -> BddLevels] \X [Clocks -> Clocks] |->
        IF IsTerminal(t[1]) THEN t[1] ELSE Replaced(below, t[1], t[2], t[3])]
RenameRec == INSTANCE Recursion WITH Base <- <<>>, Step <- RenameStep

\* cdd_replace_rec one level down.
LEMMA RenameEquation ==
    ASSUME NEW h \in Nat, NEW d \in ddNode
    PROVE  RenameAt[h + 1][<<d, LevelMap, ClockMap>>] =
               IF IsTerminal(d) THEN d ELSE Replaced(RenameAt[h], d, LevelMap, ClockMap)
<1>1. RenameAt = RenameRec!F
  BY DEF RenameAt, RenameRec!F, RenameStep
<1> HIDE DEF RenameAt
<1>2. RenameAt[h + 1] = RenameStep(h + 1, RenameAt[h])
  BY <1>1, RenameRec!Def
<1>3. <<d, LevelMap, ClockMap>> \in ddNode \X [BddLevels -> BddLevels] \X [Clocks -> Clocks]
  BY ClientAssumption
<1> QED BY <1>2, <1>3 DEF RenameStep

\* The clocks that replace those of a level.
Clock1(l) == ClockMap[Info[l].clock1]
Clock2(l) == ClockMap[Info[l].clock2]

\* Level m is that of their difference, seen in one direction or the other.
SameWay(l, m)  == Clock1(l) > Clock2(l) /\ m = DiffLevel(Clock1(l), Clock2(l)) /\ \A b \in RawBnd[l] : b \in RawBnd[m]
OtherWay(l, m) == Clock1(l) < Clock2(l) /\ m = DiffLevel(Clock2(l), Clock1(l)) /\ \A b \in RawBnd[l] : 1 - b \in RawBnd[m]
LEMMA LevelReplaced ==
    ASSUME NEW l \in CddLevels
    PROVE  /\ Clock1(l) \in Clocks /\ Clock2(l) \in Clocks /\ Clock1(l) \in Nat /\ Clock2(l) \in Nat
           /\ \E m \in CddLevels : /\ SameWay(l, m) \/ OtherWay(l, m)
                                   /\ \/ Info[m].clock1 = Clock1(l) /\ Info[m].clock2 = Clock2(l)
                                      \/ Info[m].clock1 = Clock2(l) /\ Info[m].clock2 = Clock1(l)
<1> DEFINE i == ClockMap[Info[l].clock1]
           j == ClockMap[Info[l].clock2]
<1>1. /\ ClockMap \in [Clocks -> Clocks]
      /\ \/ i > j /\ RawBnd[l] \subseteq RawBnd[DiffLevel(i, j)]
         \/ i < j /\ {Flip(b) : b \in RawBnd[l]} \subseteq RawBnd[DiffLevel(j, i)]
  BY ClientAssumption
<1>2. i \in Clocks /\ j \in Clocks /\ i \in Nat /\ j \in Nat
  <2>1. Info[l].clock1 \in Clocks /\ Info[l].clock2 \in Clocks
    BY LevelClocks
  <2>2. i \in Clocks /\ j \in Clocks
    BY <1>1, <2>1
  <2> HIDE DEF i, j
  <2> QED BY <2>2, ClockZero
<1>3. i = Clock1(l) /\ j = Clock2(l)
  BY DEF Clock1, Clock2
<1> HIDE DEF i, j
<1>4. CASE i > j /\ RawBnd[l] \subseteq RawBnd[DiffLevel(i, j)]
  <2>1. DiffLevel(i, j) \in CddLevels /\ Info[DiffLevel(i, j)].clock1 = i /\ Info[DiffLevel(i, j)].clock2 = j
    BY <1>2, <1>4, DiffLevelIs
  <2>2. SameWay(l, DiffLevel(i, j))
    BY <1>3, <1>4 DEF SameWay
  <2> DEFINE m == DiffLevel(i, j)
  <2>3. m \in CddLevels /\ SameWay(l, m) /\ Info[m].clock1 = Clock1(l) /\ Info[m].clock2 = Clock2(l)
    BY <1>3, <2>1, <2>2
  <2> HIDE DEF m
  <2>4. \E n \in CddLevels : /\ SameWay(l, n) \/ OtherWay(l, n)
                             /\ \/ Info[n].clock1 = Clock1(l) /\ Info[n].clock2 = Clock2(l)
                                \/ Info[n].clock1 = Clock2(l) /\ Info[n].clock2 = Clock1(l)
    BY <2>3
  <2> QED BY <1>2, <1>3, <2>4
<1>5. CASE i < j /\ {Flip(b) : b \in RawBnd[l]} \subseteq RawBnd[DiffLevel(j, i)]
  <2>1. j > i
    BY <1>2, <1>5
  <2>2. DiffLevel(j, i) \in CddLevels /\ Info[DiffLevel(j, i)].clock1 = j /\ Info[DiffLevel(j, i)].clock2 = i
    BY <1>2, <2>1, DiffLevelIs
  <2>3. \A b \in RawBnd[l] : 1 - b \in RawBnd[DiffLevel(j, i)]
    <3> TAKE b \in RawBnd[l]
    <3>1. b \in Int
      BY FiniteBound
    <3>2. Flip(b) = 1 - b
      BY <3>1, FlipIs
    <3> QED BY <1>5, <3>2
  <2>4. OtherWay(l, DiffLevel(j, i))
    BY <1>3, <1>5, <2>3 DEF OtherWay
  <2> QED BY <1>2, <1>3, <2>2, <2>4
<1> QED BY <1>1, <1>4, <1>5 DEF i, j

\* The difference of the replacing clocks in a feasible vector is in the cell of their
\* difference in the clock valuation.
LEMMA CellReplaced ==
    ASSUME NEW p \in Points, NEW bb \in [BddLevels -> {0, 1}], NEW l \in CddLevels, NEW v, v = VectorOf(p, bb)
    PROVE  CellOf(l, Diff(v, Clock1(l), Clock2(l))) = CellOf(l, p[Clock1(l)] - p[Clock2(l)])
<1> DEFINE i == Clock1(l)
           j == Clock2(l)
           x == p[i] - p[j]
           y == p[j] - p[i]
<1>1. PICK m \in CddLevels : /\ SameWay(l, m) \/ OtherWay(l, m)
                             /\ \/ Info[m].clock1 = i /\ Info[m].clock2 = j
                                \/ Info[m].clock1 = j /\ Info[m].clock2 = i
  BY LevelReplaced
<1>2. i \in Clocks /\ j \in Clocks /\ i \in Nat /\ j \in Nat
  BY LevelReplaced
<1>3. p[i] \in Int /\ p[j] \in Int /\ x \in Diffs /\ y \in Diffs /\ x \in Int /\ y \in Int /\ y = -x
  BY <1>2, PointIs
<1>4. v[m] = RepOf(m, p[Info[m].clock1] - p[Info[m].clock2])
  BY VectorOfIs
<1> HIDE DEF i, j
<1>5. ASSUME SameWay(l, m) PROVE CellOf(l, Diff(v, i, j)) = CellOf(l, x)
  <2>1. i > j /\ m = DiffLevel(i, j) /\ \A b \in RawBnd[l] : b \in RawBnd[m]
    BY <1>5 DEF SameWay, i, j
  <2>2. Info[m].clock1 = i /\ Info[m].clock2 = j
    BY <1>2, <2>1, DiffLevelIs
  <2>3. Diff(v, i, j) = RepOf(m, x)
    BY <1>4, <2>1, <2>2 DEF Diff
  <2> HIDE DEF x
  <2>4. \A b \in RawBnd[l] : Below(RepOf(m, x), b) <=> Below(x, b)
    BY <1>3, <2>1, RepOfIs
  <2> QED BY <2>3, <2>4 DEF CellOf
<1>6. ASSUME OtherWay(l, m) PROVE CellOf(l, Diff(v, i, j)) = CellOf(l, x)
  <2>1. i < j /\ m = DiffLevel(j, i) /\ \A b \in RawBnd[l] : 1 - b \in RawBnd[m]
    BY <1>6 DEF OtherWay, i, j
  <2>2. Info[m].clock1 = j /\ Info[m].clock2 = i /\ ~(i > j)
    <3>1. j > i /\ ~(i > j)
      BY <1>2, <2>1
    <3> QED BY <1>2, <2>1, <3>1, DiffLevelIs
  <2> DEFINE e == RepOf(m, y)
  <2>3. Diff(v, i, j) = -e
    BY <1>4, <2>1, <2>2 DEF Diff
  <2> HIDE DEF x, y
  <2>4. e \in Int /\ \A b \in RawBnd[m] : Below(e, b) <=> Below(y, b)
    BY <1>3, RepOfIs
  <2> HIDE DEF e
  <2>5. ASSUME NEW b \in RawBnd[l] PROVE Below(-e, b) <=> Below(x, b)
    <3>1. 1 - b \in RawBnd[m]
      BY <2>1
    <3>2. (Above(e, 1 - b) <=> ~Below(e, 1 - b)) /\ (Above(y, 1 - b) <=> ~Below(y, 1 - b))
      BY <1>3, <2>4, <3>1, FiniteBound
    <3>3. -(-e) = e /\ -e \in Int /\ -x = y
      BY <1>3, <2>4
    <3>4. (Above(-(-e), 1 - b) <=> Below(-e, b)) /\ (Above(-x, 1 - b) <=> Below(x, b))
      BY <1>3, <3>3, FiniteBound
    <3>5. Below(e, 1 - b) <=> Below(y, 1 - b)
      BY <2>4, <3>1
    <3> QED BY <3>2, <3>3, <3>4, <3>5
  <2> QED BY <2>3, <2>5 DEF CellOf
<1> QED BY <1>1, <1>5, <1>6 DEF i, j

\* What it is to see a feasible vector through the renaming.
SeenAs(v, w) ==
    /\ \A l \in CddLevels : CellOf(l, w[l]) = CellOf(l, Diff(v, Clock1(l), Clock2(l)))
    /\ \A l \in BddLevels : w[l] = v[LevelMap[l]]

\* There is such a feasible vector.
LEMMA RenamedIs ==
    ASSUME NEW v \in Feasible
    PROVE  Renamed[v] \in Feasible /\ SeenAs(v, Renamed[v])
<1>1. PICK p \in Points, bb \in [BddLevels -> {0, 1}] : v = VectorOf(p, bb)
  BY DEF Feasible
<1> DEFINE q == [c \in Clocks |-> p[ClockMap[c]]]
           cc == [l \in BddLevels |-> bb[LevelMap[l]]]
           w == VectorOf(q, cc)
<1>2. ClockMap \in [Clocks -> Clocks] /\ ClockMap[0] = 0 /\ LevelMap \in [BddLevels -> BddLevels]
  BY ClientAssumption
<1>3. q \in Points
  <2>1. p \in [Clocks -> Span] /\ p[0] = 0
    BY PointIs
  <2>2. q \in [Clocks -> Span] /\ q[0] = 0
    BY <1>2, <2>1, ClockZero
  <2> HIDE DEF q
  <2> QED BY <2>2, PointMade
<1>4. cc \in [BddLevels -> {0, 1}]
  BY <1>2
<1>5. \A l \in CddLevels : q[Info[l].clock1] = p[Clock1(l)] /\ q[Info[l].clock2] = p[Clock2(l)]
  BY LevelClocks DEF Clock1, Clock2
<1>6. \A l \in BddLevels : cc[l] = bb[LevelMap[l]] /\ LevelMap[l] \in BddLevels
  BY <1>2
<1> HIDE DEF q, cc
<1>7. w \in Feasible
  BY <1>3, <1>4 DEF Feasible
<1>8. /\ \A l \in CddLevels : w[l] = RepOf(l, q[Info[l].clock1] - q[Info[l].clock2])
      /\ \A l \in BddLevels : w[l] = cc[l]
  BY <1>3, <1>4, VectorOfIs
<1>9. \A l \in BddLevels : v[l] = bb[l]
  BY <1>1, VectorOfIs
<1> HIDE DEF w
<1>10. ASSUME NEW l \in CddLevels PROVE CellOf(l, w[l]) = CellOf(l, Diff(v, Clock1(l), Clock2(l)))
  <2>1. q[Info[l].clock1] - q[Info[l].clock2] \in Diffs
    BY <1>3, LevelClocks, PointIs
  <2>2. CellOf(l, w[l]) = CellOf(l, q[Info[l].clock1] - q[Info[l].clock2])
    BY <1>8, <2>1, RepOfIs
  <2>3. CellOf(l, Diff(v, Clock1(l), Clock2(l))) = CellOf(l, p[Clock1(l)] - p[Clock2(l)])
    BY <1>1, CellReplaced
  <2> QED BY <1>5, <2>2, <2>3
<1>11. SeenAs(v, w)
  BY <1>6, <1>8, <1>9, <1>10 DEF SeenAs
<1>12. Renamed[v] = CHOOSE z \in Feasible : SeenAs(v, z)
  BY DEF Renamed, SeenAs, Clock1, Clock2
<1> QED BY <1>7, <1>11, <1>12

\* The vector seen through the renaming satisfies a bound exactly when the difference of
\* the replacing clocks does.
LEMMA BoundReplaced ==
    ASSUME NEW l \in CddLevels, NEW v \in Feasible, NEW w \in Feasible, SeenAs(v, w), NEW m \in CddLevels
    PROVE  /\ v[m] \in Int /\ w[l] \in Int
           /\ SameWay(l, m) => \A b \in RawBnd[l] : Below(w[l], b) <=> Below(v[m], b)
           /\ OtherWay(l, m) => \A b \in RawBnd[l] : Below(w[l], b) <=> Below(-v[m], b)
<1>1. v[m] \in Int /\ w[l] \in Int
  BY FeasibleProper DEF Proper, Vals, CddLevels
<1>2. CellOf(l, w[l]) = CellOf(l, Diff(v, Clock1(l), Clock2(l)))
  BY DEF SeenAs
<1>3. \A b \in RawBnd[l] : Below(w[l], b) <=> Below(Diff(v, Clock1(l), Clock2(l)), b)
  BY <1>2 DEF CellOf
<1>4. SameWay(l, m) => Diff(v, Clock1(l), Clock2(l)) = v[m]
  BY DEF SameWay, Diff
<1>5. OtherWay(l, m) => Diff(v, Clock1(l), Clock2(l)) = -v[m]
  <2>1. Clock1(l) \in Nat /\ Clock2(l) \in Nat
    BY LevelReplaced
  <2>2. OtherWay(l, m) => ~(Clock1(l) > Clock2(l))
    BY <2>1 DEF OtherWay
  <2> QED BY <2>2 DEF OtherWay, Diff
<1> QED BY <1>1, <1>3, <1>4, <1>5

\* The interval of the replacing clocks says of a vector what the edge says of the vector
\* seen through the renaming.
LEMMA ReplacedEdge ==
    ASSUME NEW l \in CddLevels, NEW low, NEW high, Bounded(l, low, high),
           NEW c, c = cdd_interval(Clock1(l), Clock2(l), low, high)
    PROVE  c \in Cdds /\ \A v \in Feasible : Leaf(c, v) = IF InInterval(l, low, high, Renamed[v]) THEN 1 ELSE 0
<1>1. PICK m \in CddLevels : SameWay(l, m) \/ OtherWay(l, m)
  BY LevelReplaced
<1>2. Clock1(l) \in Nat /\ Clock2(l) \in Nat
  BY LevelReplaced
<1>3. \A v \in Feasible :
        /\ v[m] \in Int /\ Renamed[v][l] \in Int
        /\ SameWay(l, m) => \A b \in RawBnd[l] : Below(Renamed[v][l], b) <=> Below(v[m], b)
        /\ OtherWay(l, m) => \A b \in RawBnd[l] : Below(Renamed[v][l], b) <=> Below(-v[m], b)
  BY RenamedIs, BoundReplaced
<1>4. /\ low \in RawBnd[l] \cup {-INF} /\ high \in RawBnd[l] \cup {INF} /\ low < high
      /\ ~(low = -INF /\ high = INF)
  BY DEF Bounded
<1>5. /\ \A b \in RawBnd[l] : b \in Int /\ b # INF /\ b # -INF /\ bnd_l2u(b) = 1 - b /\ bnd_u2l(b) = 1 - b
      /\ bnd_u2l(INF) = -INF /\ bnd_l2u(-INF) = INF
  BY FiniteBound, InfiniteBound
<1>6. CASE SameWay(l, m)
  <2>1. c = cdd_interval_from_level(m, low, high) /\ \A b \in RawBnd[l] : b \in RawBnd[m]
    BY <1>6 DEF SameWay, cdd_interval
  <2>2. Bounded(m, low, high)
    BY <1>4, <2>1 DEF Bounded
  <2>3. c \in Cdds /\ \A v \in Proper : Leaf(c, v) = IF InInterval(m, low, high, v) THEN 1 ELSE 0
    BY <2>1, <2>2, IntervalFromLevelIs
  <2>4. ASSUME NEW v \in Feasible PROVE InInterval(m, low, high, v) <=> InInterval(l, low, high, Renamed[v])
    <3>1. Below(v[m], high) <=> Below(Renamed[v][l], high)
      <4>1. CASE high = INF
        BY <4>1 DEF Below
      <4>2. CASE high \in RawBnd[l]
        BY <1>3, <1>6, <4>2
      <4> QED BY <1>4, <4>1, <4>2
    <3>2. Above(v[m], low) <=> Above(Renamed[v][l], low)
      <4>1. CASE low = -INF
        BY <4>1 DEF Above
      <4>2. CASE low \in RawBnd[l]
        BY <1>3, <1>5, <1>6, <4>2 DEF Above
      <4> QED BY <1>4, <4>1, <4>2
    <3> QED BY <3>1, <3>2 DEF InInterval
  <2> QED BY <2>3, <2>4, FeasibleProper
<1>7. CASE OtherWay(l, m)
  <2>1. /\ c = cdd_interval_from_level(m, bnd_u2l(high), bnd_l2u(low)) /\ \A b \in RawBnd[l] : 1 - b \in RawBnd[m]
    <3>1. ~(Clock1(l) > Clock2(l))
      BY <1>2, <1>7 DEF OtherWay
    <3> QED BY <1>7, <3>1 DEF OtherWay, cdd_interval
  <2> DEFINE a == bnd_u2l(high)
             z == bnd_l2u(low)
  <2>2. /\ high = INF => a = -INF
        /\ high \in RawBnd[l] => a = 1 - high /\ a \in RawBnd[m]
        /\ low = -INF => z = INF
        /\ low \in RawBnd[l] => z = 1 - low /\ z \in RawBnd[m]
    BY <1>5, <2>1
  <2>3. \A b \in RawBnd[m] : b \in Int /\ -INF < b /\ b < INF
    BY FiniteBound
  <2> HIDE DEF a, z
  <2>4. Bounded(m, a, z)
    <3>1. a \in RawBnd[m] \cup {-INF} /\ z \in RawBnd[m] \cup {INF}
      BY <1>4, <2>2
    <3>2. a < z
      <4>1. CASE high = INF /\ low \in RawBnd[l]
        BY <2>2, <2>3, <4>1
      <4>2. CASE high \in RawBnd[l] /\ low = -INF
        BY <2>2, <2>3, <4>2
      <4>3. CASE high \in RawBnd[l] /\ low \in RawBnd[l]
        BY <1>4, <1>5, <2>2, <4>3
      <4>4. CASE high = INF /\ low = -INF
        BY <1>4, <2>2, <4>4
      <4> QED BY <1>4, <4>1, <4>2, <4>3, <4>4
    <3>3. ~(a = -INF /\ z = INF)
      <4>1. high \in RawBnd[l] => a # -INF
        BY <2>2, <2>3
      <4>2. low \in RawBnd[l] => z # INF
        BY <2>2, <2>3
      <4> QED BY <1>4, <4>1, <4>2
    <3>4. <<a, z>> # <<-INF, INF>>
      BY <3>3
    <3> QED BY <3>1, <3>2, <3>4 DEF Bounded
  <2>5. c \in Cdds /\ \A v \in Proper : Leaf(c, v) = IF InInterval(m, a, z, v) THEN 1 ELSE 0
    BY <2>1, <2>4, IntervalFromLevelIs DEF a, z
  <2>6. ASSUME NEW v \in Feasible PROVE InInterval(m, a, z, v) <=> InInterval(l, low, high, Renamed[v])
    <3>0. v[m] \in Int /\ -v[m] \in Int /\ -(-v[m]) = v[m]
      BY <1>3
    <3>1. Above(v[m], a) <=> Below(Renamed[v][l], high)
      <4>1. CASE high = INF
        BY <2>2, <4>1 DEF Below, Above
      <4>2. CASE high \in RawBnd[l]
        <5>1. Above(-(-v[m]), 1 - high) <=> Below(-v[m], high)
          BY <3>0, <4>2, FiniteBound
        <5>2. Below(Renamed[v][l], high) <=> Below(-v[m], high)
          BY <1>3, <1>7, <4>2
        <5> QED BY <2>2, <3>0, <4>2, <5>1, <5>2
      <4> QED BY <1>4, <4>1, <4>2
    <3>2. Below(v[m], z) <=> Above(Renamed[v][l], low)
      <4>1. CASE low = -INF
        BY <2>2, <4>1 DEF Above, Below
      <4>2. CASE low \in RawBnd[l]
        <5>1. Below(-(-v[m]), 1 - low) <=> ~Below(-v[m], low)
          BY <3>0, <4>2, FiniteBound
        <5>2. Below(Renamed[v][l], low) <=> Below(-v[m], low)
          BY <1>3, <1>7, <4>2
        <5>3. Above(Renamed[v][l], low) <=> ~Below(Renamed[v][l], low)
          BY <1>5, <4>2 DEF Above
        <5> QED BY <2>2, <3>0, <4>2, <5>1, <5>2, <5>3
      <4> QED BY <1>4, <4>1, <4>2
    <3> QED BY <3>1, <3>2 DEF InInterval
  <2> QED BY <2>5, <2>6, FeasibleProper
<1> QED BY <1>1, <1>6, <1>7

\* What cdd_replace promises: r says of a vector what d says of it seen through the renaming.
Renames(d, r) == r \in Cdds /\ \A v \in Feasible : Leaf(r, v) = Leaf(d, Renamed[v])

\* A step of cdd_replace_rec at a clock difference.
LEMMA ReplacedCdd ==
    ASSUME NEW rec, NEW d \in Cdds, ~IsTerminal(d), IsCdd(LevelOf(d)),
           \A c \in Cdds : LevelOf(c) > LevelOf(d) => Renames(c, rec[<<c, LevelMap, ClockMap>>])
    PROVE  Renames(d, Replaced(rec, d, LevelMap, ClockMap))
<1> DEFINE l == LevelOf(d)
           i1 == Clock1(l)
           i2 == Clock2(l)
           R(k) == rec[<<Child(d, k), LevelMap, ClockMap>>]
           I(k) == cdd_interval(i1, i2, Lower(d, k), Upper(d, k))
           es == [k \in 1..Arity(d) |-> And(I(k), R(k))]
           r == Replaced(rec, d, LevelMap, ClockMap)
<1>1. l \in CddLevels /\ Arity(d) \in Nat
  BY InnerFacts DEF IsCdd
<1>2. r = UnionOver(es)
  BY DEF Replaced, Clock1, Clock2
<1>3. ASSUME NEW k \in 1..Arity(d)
      PROVE  /\ es[k] \in Cdds
             /\ \A v \in Feasible : Leaf(es[k], v) = 1 <=> EdgeOf(d, Renamed[v]) = k /\ Leaf(Child(d, k), Renamed[v]) = 1
  <2>1. /\ Child(d, k) \in Cdds /\ LevelOf(Child(d, k)) > l
        /\ Bounded(l, Lower(d, k), Upper(d, k))
        /\ \A v \in Proper : InInterval(l, Lower(d, k), Upper(d, k), v) <=> EdgeOf(d, v) = k
    BY EdgeInterval
  <2>2. R(k) \in Cdds /\ \A v \in Feasible : Leaf(R(k), v) = Leaf(Child(d, k), Renamed[v])
    BY <2>1 DEF Renames
  <2>3. /\ I(k) \in Cdds
        /\ \A v \in Feasible : Leaf(I(k), v) = IF InInterval(l, Lower(d, k), Upper(d, k), Renamed[v]) THEN 1 ELSE 0
    BY <1>1, <2>1, ReplacedEdge
  <2>4. es[k] = And(I(k), R(k))
    OBVIOUS
  <2> HIDE DEF es, I, R
  <2>5. es[k] \in Cdds /\ \A v \in Proper : Leaf(es[k], v) = IF Leaf(I(k), v) = 1 /\ Leaf(R(k), v) = 1 THEN 1 ELSE 0
    BY <2>2, <2>3, <2>4, AndIs
  <2>6. ASSUME NEW v \in Feasible
        PROVE  Leaf(es[k], v) = 1 <=> EdgeOf(d, Renamed[v]) = k /\ Leaf(Child(d, k), Renamed[v]) = 1
    <3>1. v \in Proper /\ Renamed[v] \in Proper
      BY RenamedIs, FeasibleProper
    <3>2. InInterval(l, Lower(d, k), Upper(d, k), Renamed[v]) <=> EdgeOf(d, Renamed[v]) = k
      BY <2>1, <3>1
    <3>3. Leaf(es[k], v) = 1 <=> Leaf(I(k), v) = 1 /\ Leaf(R(k), v) = 1
      BY <2>5, <3>1
    <3> QED BY <2>2, <2>3, <3>2, <3>3
  <2> QED BY <2>5, <2>6
<1>4. Len(es) = Arity(d) /\ es \in Seq(Cdds) /\ \A k \in 1..Len(es) : LevelOf(es[k]) >= 0
  <2>1. es \in [1..Arity(d) -> Cdds]
    BY <1>3
  <2>2. Len(es) = Arity(d) /\ es \in Seq(Cdds)
    <3> HIDE DEF es
    <3> QED BY <1>1, <2>1, FunctionIsSeq
  <2> HIDE DEF es
  <2> QED BY <1>3, <2>2, CddLevel
<1> HIDE DEF es, r, I, R
<1>5. 0 \in Nat /\ 0 <= MAXLEVEL
  BY Basics
<1>6. AllOf(Len(es), es, 0, r)
  BY <1>2, <1>4, <1>5, UnionIs
<1>7. /\ r \in Cdds
      /\ \A v \in Proper : Leaf(r, v) = IF \E k \in 1..Arity(d) : Leaf(es[k], v) = 1 THEN 1 ELSE 0
  BY <1>4, <1>6 DEF AllOf
<1>8. ASSUME NEW v \in Feasible PROVE Leaf(r, v) = Leaf(d, Renamed[v])
  <2> DEFINE w == Renamed[v]
             k == EdgeOf(d, w)
  <2>1. v \in Proper /\ w \in Proper
    BY RenamedIs, FeasibleProper
  <2>2. k \in 1..Arity(d)
    BY <2>1, EdgeTaken
  <2>3. Leaf(d, w) = Leaf(Child(d, k), w) /\ Leaf(d, w) \in {0, 1}
    BY <2>1, LeafBelow
  <2>4. (\E n \in 1..Arity(d) : Leaf(es[n], v) = 1) <=> Leaf(d, w) = 1
    BY <1>3, <2>2, <2>3
  <2> QED BY <1>7, <2>1, <2>3, <2>4
<1> QED BY <1>7, <1>8 DEF Renames, r

\* A step of cdd_replace_rec at a Boolean.
LEMMA ReplacedBdd ==
    ASSUME NEW rec, NEW d \in Cdds, ~IsTerminal(d), ~IsCdd(LevelOf(d)),
           \A c \in Cdds : LevelOf(c) > LevelOf(d) => Renames(c, rec[<<c, LevelMap, ClockMap>>])
    PROVE  Renames(d, Replaced(rec, d, LevelMap, ClockMap))
<1> DEFINE l == LevelOf(d)
           a == rec[<<Child(d, 1), LevelMap, ClockMap>>]
           b == rec[<<Child(d, 2), LevelMap, ClockMap>>]
           x == cdd_bddvar(LevelMap[l])
           r == Replaced(rec, d, LevelMap, ClockMap)
<1>1. l \in BddLevels /\ Arity(d) = 2 /\ \A k \in {1, 2} : k \in 1..Arity(d)
  BY InnerBdd
<1>2. LevelMap[l] \in BddLevels
  BY <1>1, ClientAssumption
<1>3. r = cdd_ite(x, b, a)
  BY DEF Replaced
<1>4. \A k \in {1, 2} : Child(d, k) \in Cdds /\ LevelOf(Child(d, k)) > l
  <2>1. d.neg \in {0, 1}
    BY PointerFacts
  <2>2. \A k \in {1, 2} : d.node.elem[k].child \in Cdds /\ LevelOf(d.node.elem[k].child) > l
    BY InnerBdd
  <2> QED BY <2>1, <2>2, Negations DEF Child
<1>5. a \in Cdds /\ b \in Cdds /\ \A v \in Feasible : Leaf(a, v) = Leaf(Child(d, 1), Renamed[v]) /\ Leaf(b, v) = Leaf(Child(d, 2), Renamed[v])
  BY <1>4 DEF Renames
<1>6. x \in Cdds /\ \A v \in Feasible : Leaf(x, v) = 1 <=> v[LevelMap[l]] = 1
  BY <1>2, BddvarIs DEF Denotes
<1> HIDE DEF a, b, x, r
<1>7. r \in Cdds /\ \A v \in Proper : Leaf(r, v) = IF Leaf(x, v) = 1 THEN Leaf(b, v) ELSE Leaf(a, v)
  BY <1>3, <1>5, <1>6, IteIs
<1>8. ASSUME NEW v \in Feasible PROVE Leaf(r, v) = Leaf(d, Renamed[v])
  <2>1. v \in Proper /\ Renamed[v] \in Proper
    BY RenamedIs, FeasibleProper
  <2>2. Renamed[v][l] = v[LevelMap[l]] /\ Renamed[v][l] \in {0, 1}
    BY <1>1, <2>1, RenamedIs DEF SeenAs, Proper
  <2>3. EdgeOf(d, Renamed[v]) = Renamed[v][l] + 1
    BY DEF EdgeOf
  <2>4. Leaf(d, Renamed[v]) = Leaf(Child(d, EdgeOf(d, Renamed[v])), Renamed[v])
    BY <2>1, LeafBelow
  <2>5. CASE Renamed[v][l] = 0
    <3>0. v[LevelMap[l]] = 0 /\ EdgeOf(d, Renamed[v]) = 1
      BY <2>2, <2>3, <2>5
    <3>1. EdgeOf(d, Renamed[v]) = 1 /\ Leaf(x, v) # 1
      BY <1>6, <3>0
    <3>2. Leaf(d, Renamed[v]) = Leaf(Child(d, 1), Renamed[v])
      BY <2>4, <3>1
    <3> QED BY <1>5, <1>7, <2>1, <3>1, <3>2
  <2>6. CASE Renamed[v][l] = 1
    <3>0. v[LevelMap[l]] = 1 /\ EdgeOf(d, Renamed[v]) = 2
      BY <2>2, <2>3, <2>6
    <3>1. EdgeOf(d, Renamed[v]) = 2 /\ Leaf(x, v) = 1
      BY <1>6, <3>0
    <3>2. Leaf(d, Renamed[v]) = Leaf(Child(d, 2), Renamed[v])
      BY <2>4, <3>1
    <3> QED BY <1>5, <1>7, <2>1, <3>1, <3>2
  <2> QED BY <2>2, <2>5, <2>6
<1> QED BY <1>7, <1>8 DEF Renames, r

\* cdd_replace says of a vector what the diagram says of it seen through the renaming.
LEMMA ReplaceIs ==
    ASSUME NEW d \in Cdds
    PROVE  Renames(d, cdd_replace(d, LevelMap, ClockMap))
<1> DEFINE R(h) == \A c \in Cdds : LevelOf(c) + h >= Depth => Renames(c, RenameAt[h][<<c, LevelMap, ClockMap>>])
           T == {h \in Nat : R(h)}
<1>0. Depth \in Nat /\ Depth = MAXLEVEL + 1 /\ MAXLEVEL \in Nat
  BY Basics
<1>1. 0 \in T
  BY <1>0, CddLevel
<1>2. ASSUME NEW h \in Nat, h \in T PROVE h + 1 \in T
  <2> SUFFICES ASSUME NEW c \in Cdds, LevelOf(c) + (h + 1) >= Depth
               PROVE  Renames(c, RenameAt[h + 1][<<c, LevelMap, ClockMap>>])
    OBVIOUS
  <2>1. c \in ddNode
    BY PointerFacts
  <2>2. RenameAt[h + 1][<<c, LevelMap, ClockMap>>] =
            IF IsTerminal(c) THEN c ELSE Replaced(RenameAt[h], c, LevelMap, ClockMap)
    BY <2>1, RenameEquation
  <2>3. CASE IsTerminal(c)
    <3>1. \A v \in Feasible : v \in Proper /\ Renamed[v] \in Proper
      BY RenamedIs, FeasibleProper
    <3>2. \A v \in Feasible : Leaf(c, v) = Leaf(c, Renamed[v])
      BY <2>3, <3>1, LeafBelow
    <3> QED BY <2>2, <2>3, <3>2 DEF Renames
  <2>4. CASE ~IsTerminal(c)
    <3>1. \A x \in Cdds : LevelOf(x) > LevelOf(c) => Renames(x, RenameAt[h][<<x, LevelMap, ClockMap>>])
      BY <1>0, <1>2, CddLevel
    <3>2. Renames(c, Replaced(RenameAt[h], c, LevelMap, ClockMap))
      BY <2>4, <3>1, ReplacedCdd, ReplacedBdd
    <3> QED BY <2>2, <2>4, <3>2
  <2> QED BY <2>3, <2>4
<1> HIDE DEF R
<1>3. \A h \in Nat : h \in T
  BY <1>1, <1>2, Induction
<1>4. R(Depth)
  BY <1>0, <1>3
<1>5. LevelOf(d) + Depth >= Depth
  BY <1>0, CddLevel
<1> QED BY <1>4, <1>5 DEF R, cdd_replace

\* cdd_replace renames the set.
LEMMA ReplaceDenotes ==
    ASSUME NEW d, NEW D, Denotes(d, D)
    PROVE  Denotes(cdd_replace(d, LevelMap, ClockMap), {v \in Feasible : Renamed[v] \in D})
<1> DEFINE r == cdd_replace(d, LevelMap, ClockMap)
           R == {v \in Feasible : Renamed[v] \in D}
<1>1. d \in Cdds
  BY DenotesIs
<1>2. r \in Cdds /\ \A v \in Feasible : Leaf(r, v) = Leaf(d, Renamed[v])
  BY <1>1, ReplaceIs DEF Renames
<1> HIDE DEF r
<1>3. \A v \in Feasible : Renamed[v] \in D <=> Leaf(d, Renamed[v]) = 1
  BY RenamedIs, DenotesIs
<1>4. R \in SUBSET Feasible /\ \A v \in Feasible : v \in R <=> Leaf(r, v) = 1
  BY <1>2, <1>3
<1> HIDE DEF R
<1>5. Denotes(r, R)
  BY <1>2, <1>4, Denoted
<1> QED BY <1>5 DEF r, R


-----------------------------------------------------------------------------
(* cdd_reduce2.                                                            *)

\* The bounds of an interval of level l, which may be without any.
Interval(l, low, up) == low \in RawBnd[l] \cup {-INF} /\ up \in RawBnd[l] \cup {INF} /\ low < up

\* add_bound restricts a diagram further down to the interval.
LEMMA AddBoundIs ==
    ASSUME NEW l \in CddLevels, NEW low, NEW up, Interval(l, low, up), NEW c \in Cdds, LevelOf(c) >= l,
           NEW d, d = add_bound(c, l, low, up)
    PROVE  /\ d \in Cdds /\ LevelOf(d) >= l
           /\ \A v \in Proper : Leaf(d, v) = 1 <=> InInterval(l, low, up, v) /\ Leaf(c, v) = 1
<1>1. CASE low = -INF /\ up = INF
  <2>1. d = c
    BY <1>1 DEF add_bound
  <2>2. \A v \in Proper : InInterval(l, low, up, v)
    BY <1>1 DEF InInterval, Above, Below
  <2> QED BY <2>1, <2>2
<1>2. CASE ~(low = -INF /\ up = INF)
  <2> DEFINE x == cdd_interval_from_level(l, low, up)
  <2>1. d = And(c, x)
    BY <1>2 DEF add_bound
  <2>2. <<low, up>> # <<-INF, INF>>
    BY <1>2
  <2>3. Bounded(l, low, up)
    BY <2>2 DEF Interval, Bounded
  <2>4. x \in Cdds /\ LevelOf(x) = l /\ \A v \in Proper : Leaf(x, v) = IF InInterval(l, low, up, v) THEN 1 ELSE 0
    BY <2>3, IntervalFromLevelIs
  <2> HIDE DEF x
  <2>5. Computes("and", c, x, d)
    BY <2>1, <2>4, ApplyIs DEF And, Ops
  <2>6. d \in Cdds /\ (LevelOf(d) >= LevelOf(c) \/ LevelOf(d) >= LevelOf(x))
    BY <2>5 DEF Computes
  <2>7. LevelOf(d) >= l
    <3>1. LevelOf(d) \in Nat /\ LevelOf(c) \in Nat /\ l \in Nat
      BY <2>4, <2>6, CddLevel
    <3> QED BY <2>4, <2>6, <3>1
  <2>8. \A v \in Proper : Leaf(d, v) = IF Leaf(c, v) = 1 /\ Leaf(x, v) = 1 THEN 1 ELSE 0
    BY <2>1, <2>4, AndIs
  <2> QED BY <2>4, <2>6, <2>7, <2>8
<1> QED BY <1>1, <1>2

\* Diagrams that cdd_equiv finds equivalent say the same of the feasible vectors.
LEMMA EquivLeaf ==
    ASSUME NEW a \in Cdds, NEW b \in Cdds, cdd_equiv(a, b), NEW v \in Feasible
    PROVE  Leaf(a, v) = 1 <=> Leaf(b, v) = 1
<1> DEFINE A == {u \in Feasible : Leaf(a, u) = 1}
           B == {u \in Feasible : Leaf(b, u) = 1}
<1>1. Denotes(a, A) /\ Denotes(b, B)
  BY DEF Denotes
<1>2. (v \in A <=> Leaf(a, v) = 1) /\ (v \in B <=> Leaf(b, v) = 1)
  OBVIOUS
<1> HIDE DEF A, B
<1>3. A = B
  BY <1>1, EquivIs
<1> QED BY <1>2, <1>3

\* A list whose last member is replaced.
LEMMA LastReplaced ==
    ASSUME NEW S, NEW s \in Seq(S), Len(s) >= 1, NEW x \in S, NEW t, t = Front(s) \o <<x>>
    PROVE  /\ t \in Seq(S) /\ Len(t) = Len(s) /\ Len(s) \in Nat
           /\ t[Len(s)] = x /\ Last(s) = s[Len(s)] /\ Last(s) \in S /\ Last(t) = x
           /\ \A i \in 1..(Len(s) - 1) : t[i] = s[i]
<1> DEFINE n == Len(s) - 1
           r == SubSeq(s, 1, n)
<1>1. n \in Nat /\ Len(s) \in Nat /\ 1..n \subseteq 1..Len(s)
  OBVIOUS
<1>2. r \in Seq(S) /\ Len(r) = n /\ \A i \in 1..n : r[i] = s[i]
  BY <1>1
<1>3. t = r \o <<x>>
  BY DEF Front
<1> HIDE DEF r
<1>4. t \in Seq(S) /\ Len(t) = n + 1 /\ t[n + 1] = x /\ \A i \in 1..n : t[i] = r[i]
  <2> DEFINE y == <<x>>
  <2>1. y \in Seq(S) /\ Len(y) = 1 /\ y[1] = x
    OBVIOUS
  <2>2. t = r \o y
    BY <1>3
  <2> HIDE DEF y, n
  <2>3. /\ t \in Seq(S) /\ Len(t) = Len(r) + Len(y)
        /\ \A i \in 1..(Len(r) + Len(y)) : t[i] = IF i <= Len(r) THEN r[i] ELSE y[i - Len(r)]
    <3>1. r \in Seq(S) /\ y \in Seq(S)
      BY <1>2, <2>1
    <3>2. /\ r \o y \in Seq(S) /\ Len(r \o y) = Len(r) + Len(y)
          /\ \A i \in 1..(Len(r) + Len(y)) : (r \o y)[i] = IF i <= Len(r) THEN r[i] ELSE y[i - Len(r)]
      BY <3>1, ConcatProperties, Zenon
    <3> QED BY <2>2, <3>2
  <2>4. Len(r) + Len(y) = n + 1 /\ n + 1 \in 1..(n + 1) /\ ~(n + 1 <= n) /\ (n + 1) - n = 1
    BY <1>1, <1>2, <2>1
  <2>5. \A i \in 1..n : i \in 1..(n + 1) /\ i <= n
    BY <1>1
  <2> QED BY <1>2, <2>1, <2>3, <2>4, <2>5
<1>5. Last(s) = s[Len(s)] /\ Last(s) \in S
  BY <1>1 DEF Last
<1>6. Last(t) = x
  BY <1>1, <1>4 DEF Last
<1> QED BY <1>1, <1>2, <1>4, <1>5, <1>6

\* A list that is continued.
LEMMA LastAdded ==
    ASSUME NEW S, NEW s \in Seq(S), NEW x \in S, NEW t, t = Append(s, x)
    PROVE  /\ t \in Seq(S) /\ Len(t) = Len(s) + 1 /\ Len(s) \in Nat
           /\ t[Len(s) + 1] = x /\ Last(t) = x
           /\ \A i \in 1..Len(s) : t[i] = s[i]
<1>1. t \in Seq(S) /\ Len(t) = Len(s) + 1 /\ Len(s) \in Nat /\ t[Len(s) + 1] = x /\ \A i \in 1..Len(s) : t[i] = s[i]
  OBVIOUS
<1>2. Last(t) = x
  BY <1>1 DEF Last
<1> QED BY <1>1, <1>2

\* Segments of a node on level l: a diagram further down, and bounds around it.
SegmentsOn(l) == {s \in [dd : Cdds, low : Int, up : Int] : LevelOf(s.dd) > l /\ Interval(l, s.low, s.up)}
\* What a segment says of a valuation, and what the first k children of d say.
Says(l, s, v) == InInterval(l, s.low, s.up, v) /\ Leaf(s.dd, v) = 1
ChildSays(d, k, v) == InInterval(LevelOf(d), Lower(d, k), Upper(d, k), v) /\ Leaf(Child(d, k), v) = 1
\* The segments of the first k children of d.
Segmented(d, k, ss) ==
    /\ ss \in Seq(SegmentsOn(LevelOf(d))) /\ Len(ss) >= 1 /\ Last(ss).up = Upper(d, k)
    /\ \A v \in Feasible : (\E i \in 1..Len(ss) : Says(LevelOf(d), ss[i], v)) <=> (\E j \in 1..k : ChildSays(d, j, v))

\* A segment is made of a diagram further down and bounds of the level.
LEMMA SegmentIs ==
    ASSUME NEW l \in CddLevels, NEW c \in Cdds, LevelOf(c) > l, NEW low, NEW up, Interval(l, low, up)
    PROVE  /\ Segment(c, low, up) \in SegmentsOn(l)
           /\ Segment(c, low, up).dd = c /\ Segment(c, low, up).low = low /\ Segment(c, low, up).up = up
<1>1. low \in Int /\ up \in Int
  <2>1. INF \in Int /\ -INF \in Int
    BY DifferencesAssumption
  <2>2. \A b \in RawBnd[l] : b \in Int
    BY FiniteBound
  <2> QED BY <2>1, <2>2 DEF Interval
<1> QED BY <1>1 DEF Segment, SegmentsOn

\* The children of a node as segments, and how neighbours meet.
LEMMA ChildSegment ==
    ASSUME NEW d \in Cdds, ~IsTerminal(d), IsCdd(LevelOf(d)), NEW k \in 1..Arity(d)
    PROVE  /\ Child(d, k) \in Cdds /\ LevelOf(Child(d, k)) > LevelOf(d)
           /\ Interval(LevelOf(d), Lower(d, k), Upper(d, k))
           /\ k # 1 => Lower(d, k) = Upper(d, k - 1)
           /\ Lower(d, 1) = -INF
           /\ \A v \in Proper : ChildSays(d, k, v) <=> EdgeOf(d, v) = k /\ Leaf(Child(d, k), v) = 1
<1>1. Interval(LevelOf(d), Lower(d, k), Upper(d, k))
  BY EdgeInterval DEF Bounded, Interval
<1>2. (k # 1 => Lower(d, k) = Upper(d, k - 1)) /\ Lower(d, 1) = -INF
  BY DEF Lower, Upper
<1> QED BY <1>1, <1>2, EdgeInterval DEF ChildSays

\* One child more: it joins the last segment, or becomes one of its own.
LEMMA ExtendedIs ==
    ASSUME NEW d \in Cdds, ~IsTerminal(d), IsCdd(LevelOf(d)), NEW k \in Nat \ {0}, k + 1 <= Arity(d),
           NEW ss, Segmented(d, k, ss), NEW t, t = Extended(d, ss, k + 1)
    PROVE  Segmented(d, k + 1, t)
<1> DEFINE l == LevelOf(d)
           s == Last(ss)
           c == Child(d, k + 1)
           lo == Lower(d, k + 1)
           up == Upper(d, k + 1)
           n == Len(ss)
           D == SegmentsOn(l)
<1>1. l \in CddLevels /\ Arity(d) \in Nat /\ k + 1 \in 1..Arity(d) /\ k \in 1..Arity(d) /\ k + 1 # 1 /\ (k + 1) - 1 = k
  BY InnerFacts DEF IsCdd
<1>2. /\ c \in Cdds /\ LevelOf(c) > l /\ Interval(l, lo, up) /\ lo = Upper(d, k)
  BY <1>1, ChildSegment
<1>3. ss \in Seq(D) /\ n \in Nat /\ n >= 1 /\ s.up = lo
  BY <1>2 DEF Segmented
<1>4. s = ss[n] /\ s \in D
  <2>1. n \in 1..n
    BY <1>3
  <2>2. s = ss[n]
    BY DEF Last
  <2> HIDE DEF s, D
  <2>3. ss[n] \in D
    BY <1>3, <2>1, SeqElem
  <2> QED BY <2>2, <2>3
<1>5. s.dd \in Cdds /\ LevelOf(s.dd) > l /\ Interval(l, s.low, s.up) /\ s.low \in Int /\ s.up \in Int
  BY <1>4 DEF SegmentsOn
<1>6. \A v \in Feasible : (\E i \in 1..n : Says(l, ss[i], v)) <=> (\E j \in 1..k : ChildSays(d, j, v))
  BY DEF Segmented
<1>7. \A j \in 1..(k + 1) : j \in 1..k \/ j = k + 1
  BY <1>1
<1>8. k + 1 \in 1..(k + 1) /\ \A j \in 1..k : j \in 1..(k + 1)
  BY <1>1
<1>9. \A v : ChildSays(d, k + 1, v) <=> InInterval(l, lo, up, v) /\ Leaf(c, v) = 1
  BY DEF ChildSays
<1>10. t = IF Joins(d, s, k + 1) THEN Front(ss) \o <<Segment(Or(s.dd, c), s.low, up)>>
           ELSE Append(ss, Segment(c, lo, up))
  BY DEF Extended
<1>l. l \in Nat /\ LevelOf(c) \in Nat /\ LevelOf(s.dd) \in Nat /\ LevelOf(c) >= l /\ LevelOf(s.dd) >= l /\ LevelOf(c) >= l + 1 /\ LevelOf(s.dd) >= l + 1
  BY <1>2, <1>5, CddLevel
<1>11. CASE Joins(d, s, k + 1)
  <2> DEFINE o == Or(s.dd, c)
             x == Segment(o, s.low, up)
             p == add_bound(s.dd, l, s.low, s.up)
             q == add_bound(c, l, lo, up)
             j == add_bound(o, l, s.low, up)
  <2>1. t = Front(ss) \o <<x>> /\ cdd_equiv(Or(p, q), j)
    BY <1>10, <1>11 DEF Joins
  <2>2. o \in Cdds /\ LevelOf(o) > l
    <3>1. o \in Cdds /\ LevelOf(o) >= l + 1
      BY <1>2, <1>5, <1>l, OrIs, OrLevel
    <3> HIDE DEF o
    <3> QED BY <1>l, <3>1, CddLevel
  <2>3. \A v \in Proper : Leaf(o, v) = IF Leaf(s.dd, v) = 1 \/ Leaf(c, v) = 1 THEN 1 ELSE 0
    BY <1>2, <1>5, OrIs
  <2>4. Interval(l, s.low, up)
    <3>1. \A b \in RawBnd[l] : b \in Int
      BY <1>1, FiniteBound
    <3>2. up \in Int /\ lo \in Int
      BY <1>2, <1>3, <1>5, <3>1, DifferencesAssumption DEF Interval
    <3> QED BY <1>2, <1>3, <1>5, <3>2 DEF Interval
  <2> HIDE DEF o, c, lo, up, s
  <2>5. x \in D /\ x.dd = o /\ x.low = s.low /\ x.up = up
    BY <1>1, <2>2, <2>4, SegmentIs
  <2>6. p \in Cdds /\ \A v \in Proper : Leaf(p, v) = 1 <=> InInterval(l, s.low, s.up, v) /\ Leaf(s.dd, v) = 1
    BY <1>1, <1>5, <1>l, AddBoundIs
  <2>7. q \in Cdds /\ \A v \in Proper : Leaf(q, v) = 1 <=> InInterval(l, lo, up, v) /\ Leaf(c, v) = 1
    BY <1>1, <1>2, <1>l, AddBoundIs
  <2>8. j \in Cdds /\ \A v \in Proper : Leaf(j, v) = 1 <=> InInterval(l, s.low, up, v) /\ Leaf(o, v) = 1
    <3>1. LevelOf(o) >= l
      BY <2>2, <1>l, CddLevel
    <3> QED BY <1>1, <2>2, <2>4, <3>1, AddBoundIs
  <2> HIDE DEF p, q, j, x
  <2>9. Or(p, q) \in Cdds /\ \A v \in Proper : Leaf(Or(p, q), v) = 1 <=> Leaf(p, v) = 1 \/ Leaf(q, v) = 1
    BY <2>6, <2>7, OrIs
  <2>10. \A v \in Feasible : Leaf(j, v) = 1 <=> Leaf(p, v) = 1 \/ Leaf(q, v) = 1
    BY <2>1, <2>8, <2>9, EquivLeaf, FeasibleProper
  <2> HIDE DEF D, n
  <2>11. /\ t \in Seq(D) /\ Len(t) = n /\ t[n] = x /\ Last(t) = x
         /\ \A i \in 1..(n - 1) : t[i] = ss[i]
    BY <1>3, <2>1, <2>5, LastReplaced DEF n
  <2>12. n \in 1..n /\ \A i \in 1..n : i \in 1..(n - 1) \/ i = n
    BY <1>3
  <2>13. \A i \in 1..(n - 1) : i \in 1..n
    BY <1>3
  <2>14. ASSUME NEW v \in Feasible
         PROVE  (\E i \in 1..n : Says(l, t[i], v)) <=> (\E m \in 1..(k + 1) : ChildSays(d, m, v))
    <3>1. v \in Proper
      BY FeasibleProper
    <3>2. Says(l, x, v) <=> Leaf(j, v) = 1
      BY <2>5, <2>8, <3>1 DEF Says
    <3>3. Says(l, s, v) <=> Leaf(p, v) = 1
      BY <2>6, <3>1 DEF Says
    <3>4. ChildSays(d, k + 1, v) <=> Leaf(q, v) = 1
      BY <1>9, <2>7, <3>1
    <3>5. (\E i \in 1..n : Says(l, t[i], v)) <=> (\E i \in 1..(n - 1) : Says(l, ss[i], v)) \/ Says(l, x, v)
      BY <2>11, <2>12, <2>13
    <3>6. (\E i \in 1..n : Says(l, ss[i], v)) <=> (\E i \in 1..(n - 1) : Says(l, ss[i], v)) \/ Says(l, s, v)
      BY <1>4, <2>12, <2>13
    <3>7. (\E m \in 1..(k + 1) : ChildSays(d, m, v)) <=> (\E m \in 1..k : ChildSays(d, m, v)) \/ ChildSays(d, k + 1, v)
      BY <1>7, <1>8
    <3> QED BY <1>6, <2>10, <3>2, <3>3, <3>4, <3>5, <3>6, <3>7
  <2>15. Last(t).up = Upper(d, k + 1)
    BY <2>5, <2>11 DEF up
  <2> QED BY <1>3, <2>11, <2>14, <2>15 DEF Segmented, D
<1>12. CASE ~Joins(d, s, k + 1)
  <2> DEFINE x == Segment(c, lo, up)
  <2>1. t = Append(ss, x)
    BY <1>10, <1>12
  <2> HIDE DEF c, lo, up, s
  <2>2. x \in D /\ x.dd = c /\ x.low = lo /\ x.up = up
    BY <1>1, <1>2, SegmentIs
  <2> HIDE DEF D, n, x
  <2>3. /\ t \in Seq(D) /\ Len(t) = n + 1 /\ t[n + 1] = x /\ Last(t) = x
        /\ \A i \in 1..n : t[i] = ss[i]
    BY <1>3, <2>1, <2>2, LastAdded DEF n
  <2>4. n + 1 \in 1..(n + 1) /\ n + 1 >= 1 /\ \A i \in 1..(n + 1) : i \in 1..n \/ i = n + 1
    BY <1>3
  <2>5. \A i \in 1..n : i \in 1..(n + 1)
    BY <1>3
  <2>6. ASSUME NEW v \in Feasible
        PROVE  (\E i \in 1..(n + 1) : Says(l, t[i], v)) <=> (\E m \in 1..(k + 1) : ChildSays(d, m, v))
    <3>1. Says(l, x, v) <=> ChildSays(d, k + 1, v)
      BY <1>9, <2>2 DEF Says
    <3>2. (\E i \in 1..(n + 1) : Says(l, t[i], v)) <=> (\E i \in 1..n : Says(l, ss[i], v)) \/ Says(l, x, v)
      BY <2>3, <2>4, <2>5
    <3>3. (\E m \in 1..(k + 1) : ChildSays(d, m, v)) <=> (\E m \in 1..k : ChildSays(d, m, v)) \/ ChildSays(d, k + 1, v)
      BY <1>7, <1>8
    <3> QED BY <1>6, <3>1, <3>2, <3>3
  <2>7. Last(t).up = Upper(d, k + 1)
    BY <2>2, <2>3 DEF up
  <2> QED BY <2>3, <2>4, <2>6, <2>7 DEF Segmented, D
<1> QED BY <1>11, <1>12

SegmentsStep(n, below) == [d \in ddNode |-> Extended(d, below[d], n + 1)]
SegmentsRec == INSTANCE Recursion
    WITH Base <- [d \in ddNode |-> <<Segment(Child(d, 1), -INF, Upper(d, 1))>>], Step <- SegmentsStep

\* The segments with one child more.
LEMMA SegmentsEquation ==
    ASSUME NEW d \in ddNode
    PROVE  /\ SegmentsUpto[0][d] = <<Segment(Child(d, 1), -INF, Upper(d, 1))>>
           /\ \A n \in Nat : SegmentsUpto[n + 1][d] = Extended(d, SegmentsUpto[n][d], n + 2)
<1>1. SegmentsUpto = SegmentsRec!F
  BY DEF SegmentsUpto, SegmentsRec!F, SegmentsStep
<1> HIDE DEF SegmentsUpto
<1>2. SegmentsUpto[0] = [c \in ddNode |-> <<Segment(Child(c, 1), -INF, Upper(c, 1))>>]
  BY <1>1, SegmentsRec!Def
<1>3. \A n \in Nat : SegmentsUpto[n + 1] = SegmentsStep(n + 1, SegmentsUpto[n])
  BY <1>1, SegmentsRec!Def
<1>4. SegmentsUpto[0][d] = <<Segment(Child(d, 1), -INF, Upper(d, 1))>>
  BY <1>2
<1>5. ASSUME NEW n \in Nat PROVE SegmentsUpto[n + 1][d] = Extended(d, SegmentsUpto[n][d], n + 2)
  <2>1. SegmentsUpto[n + 1][d] = Extended(d, SegmentsUpto[n][d], (n + 1) + 1)
    BY <1>3 DEF SegmentsStep
  <2>2. (n + 1) + 1 = n + 2
    OBVIOUS
  <2> QED BY <2>1, <2>2
<1> QED BY <1>4, <1>5

\* The segments of a node say what the node says.
LEMMA SegmentsAre ==
    ASSUME NEW d \in Cdds, ~IsTerminal(d), IsCdd(LevelOf(d)), NEW n \in Nat, n + 1 <= Arity(d)
    PROVE  Segmented(d, n + 1, SegmentsUpto[n][d])
<1> DEFINE T == {m \in Nat : m + 1 <= Arity(d) => Segmented(d, m + 1, SegmentsUpto[m][d])}
<1>0. d \in ddNode /\ Arity(d) \in Nat /\ Arity(d) >= 2 /\ 1 \in 1..Arity(d) /\ LevelOf(d) \in CddLevels
  <2>1. Arity(d) \in Nat /\ Arity(d) >= 2 /\ LevelOf(d) \in CddLevels
    BY InnerCdd, InnerFacts DEF IsCdd
  <2>2. 1 \in 1..Arity(d)
    BY <2>1
  <2>3. d \in ddNode
    BY PointerFacts
  <2> QED BY <2>1, <2>2, <2>3
<1>1. 0 \in T
  <2> DEFINE l == LevelOf(d)
             x == Segment(Child(d, 1), -INF, Upper(d, 1))
             ss == <<x>>
             D == SegmentsOn(l)
  <2>1. SegmentsUpto[0][d] = ss
    BY <1>0, SegmentsEquation
  <2>2. /\ Child(d, 1) \in Cdds /\ LevelOf(Child(d, 1)) > l
        /\ Interval(l, -INF, Upper(d, 1)) /\ Lower(d, 1) = -INF
    BY <1>0, ChildSegment
  <2>3. x \in D /\ x.dd = Child(d, 1) /\ x.low = -INF /\ x.up = Upper(d, 1)
    BY <1>0, <2>2, SegmentIs
  <2> HIDE DEF x, D
  <2>4. ss \in Seq(D) /\ Len(ss) = 1 /\ ss[1] = x
    BY <2>3
  <2>5. Last(ss) = x
    BY <2>4 DEF Last
  <2> HIDE DEF ss
  <2>6. 1..1 = {1} /\ 0 + 1 = 1
    OBVIOUS
  <2>7. \A v \in Feasible : (\E i \in 1..1 : Says(l, ss[i], v)) <=> (\E j \in 1..1 : ChildSays(d, j, v))
    BY <2>2, <2>3, <2>4, <2>6 DEF Says, ChildSays
  <2>8. Segmented(d, 1, ss)
    BY <2>3, <2>4, <2>5, <2>7 DEF Segmented, D
  <2> QED BY <2>1, <2>6, <2>8
<1>2. ASSUME NEW m \in Nat, m \in T PROVE m + 1 \in T
  <2> SUFFICES ASSUME (m + 1) + 1 <= Arity(d) PROVE Segmented(d, (m + 1) + 1, SegmentsUpto[m + 1][d])
    OBVIOUS
  <2>1. Segmented(d, m + 1, SegmentsUpto[m][d]) /\ m + 1 \in Nat \ {0} /\ m + 2 = (m + 1) + 1
    BY <1>0, <1>2
  <2>2. SegmentsUpto[m + 1][d] = Extended(d, SegmentsUpto[m][d], (m + 1) + 1)
    BY <1>0, <2>1, SegmentsEquation
  <2> QED BY <2>1, <2>2, ExtendedIs
<1> HIDE DEF T
<1>3. n \in T
  BY <1>1, <1>2, Induction
<1> QED BY <1>3 DEF T

\* What cdd_reduce2 promises of the result r: it says the same of feasible vectors.
Keeps(d, r) == /\ r \in Cdds /\ LevelOf(r) >= LevelOf(d)
               /\ \A v \in Feasible : Leaf(r, v) = 1 <=> Leaf(d, v) = 1

\* A step of cdd_reduce2_rec at a clock difference.
LEMMA Reduced2Cdd ==
    ASSUME NEW rec, NEW d \in Cdds, ~IsTerminal(d), IsCdd(LevelOf(d)),
           \A c \in Cdds : LevelOf(c) > LevelOf(d) => Keeps(c, rec[c])
    PROVE  Keeps(d, Reduced2(rec, d))
<1> DEFINE l == LevelOf(d)
           ss == Segments(d)
           n == Len(ss)
           es == [i \in DOMAIN ss |-> add_bound(rec[ss[i].dd], l, ss[i].low, ss[i].up)]
           r == Reduced2(rec, d)
<1>0. Arity(d) \in Nat /\ Arity(d) >= 2 /\ l \in CddLevels /\ l \in Nat /\ l <= MAXLEVEL
  BY InnerCdd, InnerFacts, CddLevel DEF IsCdd
<1>1. Segmented(d, Arity(d), ss)
  <2>1. Arity(d) - 1 \in Nat /\ (Arity(d) - 1) + 1 = Arity(d)
    BY <1>0
  <2>2. ss = SegmentsUpto[Arity(d) - 1][d]
    BY DEF Segments
  <2> HIDE DEF ss
  <2>3. Segmented(d, (Arity(d) - 1) + 1, SegmentsUpto[Arity(d) - 1][d])
    BY <1>0, <2>1, SegmentsAre
  <2> QED BY <2>1, <2>2, <2>3
<1>2. r = UnionOver(es)
  BY <1>0 DEF Reduced2, IsCdd
<1> HIDE DEF ss, r
<1>3. ss \in Seq(SegmentsOn(l)) /\ n \in Nat /\ n >= 1 /\ DOMAIN ss = 1..n
  BY <1>1 DEF Segmented
<1>4. ASSUME NEW i \in 1..n
      PROVE  /\ es[i] \in Cdds /\ LevelOf(es[i]) >= l
             /\ \A v \in Feasible : Leaf(es[i], v) = 1 <=> Says(l, ss[i], v)
  <2> DEFINE D == SegmentsOn(l)
             s == ss[i]
             c == rec[s.dd]
             e == es[i]
  <2>1. s \in D
    <3>1. ss \in Seq(D) /\ i \in 1..Len(ss)
      BY <1>3
    <3> HIDE DEF D
    <3>2. ss[i] \in D
      BY <3>1, SeqElem
    <3> QED BY <3>2
  <2>2. s.dd \in Cdds /\ LevelOf(s.dd) > l /\ Interval(l, s.low, s.up)
    BY <2>1 DEF SegmentsOn
  <2>3. e = add_bound(c, l, s.low, s.up)
    BY <1>3
  <2> HIDE DEF s, e, es
  <2>4. c \in Cdds /\ LevelOf(c) >= LevelOf(s.dd) /\ \A v \in Feasible : Leaf(c, v) = 1 <=> Leaf(s.dd, v) = 1
    BY <2>2 DEF Keeps
  <2> HIDE DEF c
  <2>5. LevelOf(c) >= l
    BY <1>0, <2>2, <2>4, CddLevel
  <2>6. /\ e \in Cdds /\ LevelOf(e) >= l
        /\ \A v \in Proper : Leaf(e, v) = 1 <=> InInterval(l, s.low, s.up, v) /\ Leaf(c, v) = 1
    BY <1>0, <2>2, <2>3, <2>4, <2>5, AddBoundIs
  <2>7. \A v \in Feasible : Leaf(e, v) = 1 <=> Says(l, s, v)
    BY <2>4, <2>6, FeasibleProper DEF Says
  <2> QED BY <2>6, <2>7 DEF e, s
<1>5. Len(es) = n /\ es \in Seq(Cdds)
  <2>1. es \in [1..n -> Cdds]
    BY <1>3, <1>4
  <2> HIDE DEF es
  <2> QED BY <1>3, <2>1, FunctionIsSeq
<1> HIDE DEF es
<1>6. AllOf(n, es, l, r)
  <2>1. \A i \in 1..Len(es) : LevelOf(es[i]) >= l
    BY <1>4, <1>5
  <2>2. AllOf(Len(es), es, l, UnionOver(es))
    BY <1>0, <1>5, <2>1, UnionIs
  <2> QED BY <1>2, <1>5, <2>2
<1>7. /\ r \in Cdds /\ LevelOf(r) >= l
      /\ \A v \in Proper : Leaf(r, v) = IF \E i \in 1..n : Leaf(es[i], v) = 1 THEN 1 ELSE 0
  BY <1>6 DEF AllOf
<1>8. ASSUME NEW v \in Feasible PROVE Leaf(r, v) = 1 <=> Leaf(d, v) = 1
  <2>0. v \in Proper
    BY FeasibleProper
  <2>1. Leaf(r, v) = 1 <=> \E i \in 1..n : Says(l, ss[i], v)
    BY <1>4, <1>7, <2>0
  <2>2. (\E i \in 1..n : Says(l, ss[i], v)) <=> (\E j \in 1..Arity(d) : ChildSays(d, j, v))
    BY <1>1 DEF Segmented
  <2>3. EdgeOf(d, v) \in 1..Arity(d) /\ Leaf(d, v) = Leaf(Child(d, EdgeOf(d, v)), v)
    BY <2>0, EdgeTaken, LeafBelow
  <2>4. \A j \in 1..Arity(d) : ChildSays(d, j, v) <=> EdgeOf(d, v) = j /\ Leaf(Child(d, j), v) = 1
    BY <2>0, ChildSegment
  <2> QED BY <2>1, <2>2, <2>3, <2>4
<1> QED BY <1>7, <1>8 DEF Keeps, r

\* A step of cdd_reduce2_rec at a Boolean.
LEMMA Reduced2Bdd ==
    ASSUME NEW rec, NEW d \in Cdds, ~IsTerminal(d), ~IsCdd(LevelOf(d)),
           \A c \in Cdds : LevelOf(c) > LevelOf(d) => Keeps(c, rec[c])
    PROVE  Keeps(d, Reduced2(rec, d))
<1> DEFINE l == LevelOf(d)
           a == rec[Low(d)]
           b == rec[High(d)]
           r == Reduced2(rec, d)
<1>1. l \in Levels /\ l \in Nat /\ l \in BddLevels
  BY InnerFacts, InnerBdd, CddLevel
<1>2. r = MakeBdd(l, a, b)
  BY DEF Reduced2
<1>3. \A k \in {1, 2} : Child(d, k) \in Cdds /\ LevelOf(Child(d, k)) > l
  <2>1. d.neg \in {0, 1}
    BY PointerFacts
  <2>2. \A k \in {1, 2} : d.node.elem[k].child \in Cdds /\ LevelOf(d.node.elem[k].child) > l
    BY InnerBdd
  <2> QED BY <2>1, <2>2, Negations DEF Child
<1>4. Low(d) = Child(d, 1) /\ High(d) = Child(d, 2)
  BY DEF Low, High
<1>5. /\ a \in Cdds /\ LevelOf(a) >= LevelOf(Child(d, 1)) /\ b \in Cdds /\ LevelOf(b) >= LevelOf(Child(d, 2))
      /\ \A v \in Feasible : /\ Leaf(a, v) = 1 <=> Leaf(Child(d, 1), v) = 1
                             /\ Leaf(b, v) = 1 <=> Leaf(Child(d, 2), v) = 1
  BY <1>3, <1>4 DEF Keeps
<1> HIDE DEF a, b, r
<1>6. LevelOf(a) > l /\ LevelOf(b) > l
  BY <1>1, <1>3, <1>5, CddLevel
<1>7. r \in Cdds /\ LevelOf(r) >= l /\ \A v \in Proper : Leaf(r, v) = IF v[l] = 0 THEN Leaf(a, v) ELSE Leaf(b, v)
  BY <1>1, <1>2, <1>5, <1>6, MakeBddIs
<1>8. ASSUME NEW v \in Feasible PROVE Leaf(r, v) = 1 <=> Leaf(d, v) = 1
  <2>1. v \in Proper /\ v[l] \in {0, 1}
    BY <1>1, FeasibleProper DEF Proper
  <2>2. EdgeOf(d, v) = v[l] + 1
    BY DEF EdgeOf
  <2>3. Leaf(d, v) = Leaf(Child(d, EdgeOf(d, v)), v)
    BY <2>1, LeafBelow
  <2>4. CASE v[l] = 0
    <3>1. EdgeOf(d, v) = 1
      BY <2>2, <2>4
    <3>2. Leaf(d, v) = Leaf(Child(d, 1), v)
      BY <2>3, <3>1
    <3> QED BY <1>5, <1>7, <2>1, <2>4, <3>2
  <2>5. CASE v[l] = 1
    <3>1. EdgeOf(d, v) = 2
      BY <2>2, <2>5
    <3>2. Leaf(d, v) = Leaf(Child(d, 2), v)
      BY <2>3, <3>1
    <3>3. Leaf(r, v) = Leaf(b, v)
      BY <1>7, <2>1, <2>5
    <3> QED BY <1>5, <3>2, <3>3
  <2> QED BY <2>1, <2>4, <2>5
<1> QED BY <1>7, <1>8 DEF Keeps, r

Reduce2Step(h, below) == [d \in ddNode |-> IF IsTerminal(d) THEN d ELSE Reduced2(below, d)]
Reduce2Rec == INSTANCE Recursion WITH Base <- <<>>, Step <- Reduce2Step

\* cdd_reduce2_rec one level down.
LEMMA Reduce2Equation ==
    ASSUME NEW h \in Nat, NEW d \in ddNode
    PROVE  Reduce2At[h + 1][d] = IF IsTerminal(d) THEN d ELSE Reduced2(Reduce2At[h], d)
<1>1. Reduce2At = Reduce2Rec!F
  BY DEF Reduce2At, Reduce2Rec!F, Reduce2Step
<1> HIDE DEF Reduce2At
<1>2. Reduce2At[h + 1] = Reduce2Step(h + 1, Reduce2At[h])
  BY <1>1, Reduce2Rec!Def
<1> QED BY <1>2 DEF Reduce2Step

\* cdd_reduce2 keeps what a diagram says of the feasible vectors.
LEMMA Reduce2Is ==
    ASSUME NEW d \in Cdds
    PROVE  Keeps(d, cdd_reduce2(d))
<1> DEFINE R(h) == \A c \in Cdds : LevelOf(c) + h >= Depth => Keeps(c, Reduce2At[h][c])
           T == {h \in Nat : R(h)}
<1>0. Depth \in Nat /\ Depth = MAXLEVEL + 1 /\ MAXLEVEL \in Nat
  BY Basics
<1>1. 0 \in T
  BY <1>0, CddLevel
<1>2. ASSUME NEW h \in Nat, h \in T PROVE h + 1 \in T
  <2> SUFFICES ASSUME NEW c \in Cdds, LevelOf(c) + (h + 1) >= Depth PROVE Keeps(c, Reduce2At[h + 1][c])
    OBVIOUS
  <2>1. c \in ddNode
    BY PointerFacts
  <2>2. Reduce2At[h + 1][c] = IF IsTerminal(c) THEN c ELSE Reduced2(Reduce2At[h], c)
    BY <2>1, Reduce2Equation
  <2>3. CASE IsTerminal(c)
    <3>1. LevelOf(c) >= LevelOf(c)
      BY CddLevel
    <3> QED BY <2>2, <2>3, <3>1 DEF Keeps
  <2>4. CASE ~IsTerminal(c)
    <3>1. \A x \in Cdds : LevelOf(x) > LevelOf(c) => Keeps(x, Reduce2At[h][x])
      BY <1>0, <1>2, CddLevel
    <3>2. Keeps(c, Reduced2(Reduce2At[h], c))
      BY <2>4, <3>1, Reduced2Cdd, Reduced2Bdd
    <3> QED BY <2>2, <2>4, <3>2
  <2> QED BY <2>3, <2>4
<1> HIDE DEF R
<1>3. \A h \in Nat : h \in T
  BY <1>1, <1>2, Induction
<1>4. R(Depth)
  BY <1>0, <1>3
<1>5. LevelOf(d) + Depth >= Depth
  BY <1>0, CddLevel
<1> QED BY <1>4, <1>5 DEF R, cdd_reduce2

\* cdd_reduce2 keeps the set.
LEMMA Reduce2Denotes ==
    ASSUME NEW d, NEW D, Denotes(d, D)
    PROVE  Denotes(cdd_reduce2(d), D)
<1> DEFINE r == cdd_reduce2(d)
<1>1. d \in Cdds
  BY DenotesIs
<1>2. r \in Cdds /\ \A v \in Feasible : Leaf(r, v) = 1 <=> Leaf(d, v) = 1
  BY <1>1, Reduce2Is DEF Keeps
<1> HIDE DEF r
<1>3. D \in SUBSET Feasible /\ \A v \in Feasible : v \in D <=> Leaf(r, v) = 1
  BY <1>2, DenotesIs
<1>4. Denotes(r, D)
  BY <1>2, <1>3, Denoted
<1> QED BY <1>4 DEF r
=============================================================================
