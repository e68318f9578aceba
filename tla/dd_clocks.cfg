SPECIFICATION SpecAll
CONSTANTS
 ClockNum = 3
 INF = 100
 MAXLEVEL = 9
 Unit = 3
 Span <- Grid1
 Info <- BInfo
 RawBnd <- BBnd
 LevelMap <- BMap
 ClockMap <- BClk
 Caches <- LowestCache
 Retain = {}
 ClockResets <- NoResets
 BoolResets <- NoResets
 Beside = {}
 ClockLists <- NoLists
 GuardLevels = {}
INVARIANTS Sound Normal SemiCanonical EquivExact ApplyReduceCanonical ContainsExact ExtractExact BfReduceSame
