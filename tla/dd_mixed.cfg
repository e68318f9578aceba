SPECIFICATION SpecMixed
CONSTANTS
 ClockNum = 2
 INF = 100
 MAXLEVEL = 9
 Unit = 3
 Span <- Grid2
 Info <- AInfo
 RawBnd <- ABnd
 LevelMap <- AMap
 ClockMap <- AClk
 Caches <- AnyCache
 Retain = {0, 1}
 ClockResets <- AClkResets
 BoolResets <- ABoolResets
 Beside = {0}
 ClockLists <- NoLists
 GuardLevels = {0, 1}
INVARIANTS Sound Normal Canonical ExtractExact PredtExact
