SPECIFICATION CudaSpec
CONSTANTS
  MaximumTokens <- MCMaximumTokens
  PageTokens = 4
  SinkTokens = 4
  RecentTokens = 4
  Junk = Junk
  MaximumDrafts = 3
  ChunkTokens = 4
  Drafts = 3
  PromptLengths <- MCPromptLengths
  OutputModes <- MCBothModes
INVARIANTS
  OwnersAgree
  BranchIsAllOrNothing
  CancelledCallsLeaveNoBranch
  DamageIsConfined
PROPERTY
  ImplementsExecutor
