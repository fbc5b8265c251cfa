SPECIFICATION ResumeSpec
CONSTANTS
  Absent = Absent
  Samples = 3
  Epochs = 2
  Accumulation = 2
  CheckpointEvery = 2
  OversizedSets <- MCOversizedSets
  MaxFailures = 3
  MaxManual = 2
  MaxClears = 2
INVARIANTS
  EvidenceIsTheCommitMarker
  RecordsHold
  ResumedTrainingIsUninterrupted
PROPERTIES
  ResumingEnds
