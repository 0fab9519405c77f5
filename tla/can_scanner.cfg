SPECIFICATION FairSpec
CONSTANTS
  NodeMax = 3  Own = 1
  Channels = 2
  PollCount = 2
  Backoff = 1
  Ranges <- MCRanges
  LateMax = 1
  PauseMax = 1
INVARIANT TypeOK
INVARIANT BusyIsOutstanding
INVARIANT ScanWaitsForAnswers
PROPERTY Lifecycle
PROPERTY ScanEnds
