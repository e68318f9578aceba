SPECIFICATION Spec
CONSTANTS
 maxcddsize = 3
 MaxLevels = 9
 MaxAdd = 2
INVARIANTS OrderExact SlotsBelowMax
PROPERTIES LevelsStable
