SPECIFICATION Spec
CONSTANTS
  Width = 5
  LineBytes = 10
  K = 2
  ViewerK = 2
  Height = 3
  scene <- MCscene
  Cycle = 4
  MinCycle = 3
  Step = 1
  MaxCycle = 4
  QueueMax = 2
INVARIANT TypeOK
INVARIANT LinesWhole
INVARIANT StimulusFollowsPhase
PROPERTY FramesFresh
