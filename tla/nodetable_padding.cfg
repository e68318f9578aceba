SPECIFICATION Spec
CONSTANTS
 b1=b1 b2=b2 b3=b3 c1=c1 c2=c2 c3=c3 Bdd=Bdd Cdd2=Cdd2
 Addr <- CAddr
 Term = Term
 None = None
 Man <- CMan
 BddMan = Bdd
 ManOf <- CManOf
 Arity <- CArity
 Level = {1, 2}
 BddLevel = {}
 Label = {0, 1}
 Slot = {s1}
 MaxSize = 2
 MAXREF = 4
 MINFREE = 20
 THRESHOLD = 5
 ChunkNodes = 2
 PaddedElem = TRUE
 MaxHold = 1
 MaxDrift = 1
SYMMETRY CSym
INVARIANTS Unique
