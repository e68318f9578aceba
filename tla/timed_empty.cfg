SPECIFICATION SpecZones
CONSTANTS
 ClockNum = 3
 INF = 100
 MAXLEVEL = 9
 Unit = 1
 Span <- Grid0
 Info <- BInfo
 RawBnd <- EBnd
 LevelMap <- BMap
 ClockMap <- BClk
 Caches <- NoCache
 Retain = {}
 Beside = {0}
 ClockResets <- EClkResets
 BoolResets <- NoResets
 ClockLists <- NoLists
 GuardLevels = {2}
INVARIANTS NothingFromNothing
