---------------------------- MODULE MC_NodeTable ----------------------------
(* Instances of NodeTable for TLC.                                         *)
EXTENDS NodeStore, TLC

CONSTANTS b1, b2, b3, c1, c2, c3, \* addresses
          Bdd, Cdd2               \* bddmanager and cddmanager[2]

\* BDD nodes only.
BAddr  == {b1, b2, b3}
BMan   == {Bdd}
BManOf == [a \in BAddr |-> Bdd]
BArity == [m \in BMan |-> 2]
BSym   == Permutations(BAddr)

\* CDD nodes only.
CAddr  == {c1, c2, c3}
CMan   == {Cdd2}
CManOf == [a \in CAddr |-> Cdd2]
CArity == [m \in CMan |-> 2]
CSym   == Permutations(CAddr)

\* A CDD level above a BDD level: two managers that are collected separately.
XAddr  == {b1, b2, c1, c2}
XMan   == {Bdd, Cdd2}
XManOf == [a \in XAddr |-> IF a \in {b1, b2} THEN Bdd ELSE Cdd2]
XArity == [m \in XMan |-> 2]
=============================================================================
