SPECIFICATION Spec
CONSTANTS
  NodeMax = 3  Own = 1
  Channels = 3
  PollCount = 2
  Backoff = 0
  Ranges <- MCRange
  LateMax = 2
  PauseMax = 0
PROPERTY AvailableWasRead
