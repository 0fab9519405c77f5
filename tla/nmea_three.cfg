SPECIFICATION MCContestSpec
CONSTANTS
  Node <- MCNode3
  name <- MCname3
  Preferred = {0}
  Last = 1
  RandomDelay = 1
  ClaimDelay = 1
  InboxMax = 1
INVARIANT ConflictIsNoticed
PROPERTY ConflictsEnd
