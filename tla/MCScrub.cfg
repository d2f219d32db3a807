SPECIFICATION AllSpec
CONSTANTS
  w1 = w1
  w2 = w2
  Workers = {w1, w2}
  Batches <- MCBatches
  ScrubFields = {"reasoning"}
  MaxDepth = 3
  MaxTokensPerChunk = 2
  MaxLength = 3
  Backbones = {"xlm-r", "distilbert", "ort"}
  ProbeLists <- MCProbeLists
  Configs <- MCConfigs
  None = None
  Caches <- MCCaches
  TraceIds = {"trace"}
  TraceComponents <- MCTraceComponents
  MaxComponents = 3
  NotLoaded = NotLoaded
SYMMETRY Symmetry
INVARIANTS BatchingIsInvisible PlaceholdersCountUp NothingUnscrubbedLeaves RowFollowsAttempts
