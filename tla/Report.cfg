SPECIFICATION FairSpec
CONSTANTS
  t1 = t1
  t2 = t2
  t3 = t3
  opA = opA
  opB = opB
  Threads <- MCThreads
  Guards <- MCGuards
  Posters <- MCPosters
  Readers <- MCReaders
  Operations <- MCOperations
  Costs <- MCCosts
  OpOf <- MCOpOf
  ActualOf <- MCActualOf
  Posts <- MCPosts
  Estimate = 1
  Capacity = 2
  Own = Own
  Other = Other
  NoCurrency = NoCurrency
  NoEvent = NoEvent
  MaxRecords = 3
INVARIANTS
  SnapshotIsLatest
  BucketsAreExact
  ReportIsCovered
  SkewIsConcurrent
PROPERTIES
  CallsReturn
