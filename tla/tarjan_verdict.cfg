SPECIFICATION Spec
CONSTANTS
 Dim = 3
 Bound <- StrictBounds
 Floor = 1
INVARIANTS TypeOK VerdictExact QueueCovers ForestTight TestBounded
