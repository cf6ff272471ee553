\* The components that share no state, one at a time.
SPECIFICATION DevicesSpec
CONSTANTS
  NProcs = 1
  Contexts = {0, 1}
  NDev = 2
  MaxPriority = 1
  Exclusive = TRUE
  OthersDrive = TRUE
  QueueSize = 3
  VectorLength = 2
  MaxFields = 2
  NChunks = 12
  L1Line = 2
  L2Line = 4
  BlockSize = 4
  L1Sets = 1
  L1Ways = 2
  L2Sets = 1
  L2Ways = 1
  LowerSize = 4
  UpperSize = 2
  MaxAccess = 1
  Unmapped <- NoMemory
  LaneNumbers = {1, 3}
  AccumNumbers = {1, 3}
  PartNumbers = {1, 2, 4}
  MaxVl = 5
  ChunkSize = 4
  PageSize = 8
  Bases = {0, 3, 4, 8}
  Sizes = {4, 7, 8}
  MaxRegions = 3
  Starts = {0, 1, 4, 6, 11}
  FileSizes = {0, 1, 6}
  Pads = {0, 5}
  MaxSegments = 2
  CounterSize = 4
  Quanta = {1, 3}
  Radix = 4
  LogWidth = 3
  Seconds = {{}, {0}, {7}, {0, 1, 2, 3, 4, 5, 6, 7}, {1, 2, 5}, {0, 2, 3, 6, 7}, {1, 3, 5, 7}, {2, 3, 4}}
INVARIANTS DevicesTypeOK
           ServiceIsCurrent ScanFindsTheBest
           LineFollowsQueue RestartsExactly StoresKept ReportsTruthful StreamIsMemory
           EachTermOnce ProgramInMemory CountersExact ComputationsExact
\* A vector instruction that is done is the end of its behaviour.
CHECK_DEADLOCK FALSE
