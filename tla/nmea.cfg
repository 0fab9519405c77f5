SPECIFICATION FairSpec
CONSTANTS
  Node <- MCNode2
  name <- MCname2
  Preferred <- MCPreferred
  Last = 1
  RandomDelay = 1
  ClaimDelay = 2
  InboxMax = 2
INVARIANT TypeOK
INVARIANT ConflictIsNoticed
PROPERTY ClaimedUnchallenged
PROPERTY OwnerYieldsToLower
PROPERTY ConflictsEnd
