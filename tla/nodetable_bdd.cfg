SPECIFICATION Spec
CONSTANTS
 b1=b1 b2=b2 b3=b3 c1=c1 c2=c2 c3=c3 Bdd=Bdd Cdd2=Cdd2
 Addr <- BAddr
 Term = Term
 None = None
 Man <- BMan
 BddMan = Bdd
 ManOf <- BManOf
 Arity <- BArity
 Level = {1, 2}
 BddLevel = {1, 2}
 Label = {0, 1}
 Slot = {s1}
 MaxSize = 2
 MAXREF = 4
 MINFREE = 20
 THRESHOLD = 5
 ChunkNodes = 2
 PaddedElem = FALSE
 MaxHold = 1
 MaxDrift = 1
SYMMETRY BSym
INVARIANTS TypeOK RefSafe NoDangling WellFormed Unique NoError NoLostNode
PROPERTIES HeldImmutable ImplementsStore
