SPECIFICATION SpecAll
CONSTANTS
 ClockNum = 2
 INF = 100
 MAXLEVEL = 9
 Unit = 3
 Span <- Grid2
 Info <- DInfo
 RawBnd <- DBnd
 LevelMap <- DMap
 ClockMap <- AClk
 Caches <- NoCache
 Retain = {}
 ClockResets <- NoResets
 BoolResets <- NoResets
 Beside = {}
 ClockLists <- NoLists
 GuardLevels = {}
INVARIANTS ContainsForSome
