SPECIFICATION FairSpec
CONSTANTS
 b1=b1 b2=b2 b3=b3 c1=c1 c2=c2 c3=c3 Bdd=Bdd Cdd2=Cdd2
 Addr <- XAddr
 Term = Term
 None = None
 Man <- XMan
 BddMan = Bdd
 ManOf <- XManOf
 Arity <- XArity
 Level = {1, 2}
 BddLevel = {2}
 Label = {0, 1}
 Slot = {s1}
 MaxSize = 2
 MAXREF = 4
 MINFREE = 20
 THRESHOLD = 5
 ChunkNodes = 1
 PaddedElem = FALSE
 MaxHold = 1
 MaxDrift = 1
INVARIANTS IInv CacheFresh RefExact CountersExact
PROPERTIES LoopsEnd
