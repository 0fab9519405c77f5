SPECIFICATION FairSpec
CONSTANTS
  fast = fast  slow = slow
  Timer = {fast, slow}
  ival <- MCival
  Client = {c1, c2}
  c1 = c1  c2 = c2
  Server = Server  Bus = Bus
  Fd = {0, 1, 2, 3}
  NoFd = NoFd
  MaxLate = 2
INVARIANT TypeOK
INVARIANT TimersKept
INVARIANT ConnectionsRegistered
PROPERTY TicksSpaced
PROPERTY ClientsServed
