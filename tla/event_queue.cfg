\* The Linux build: device callbacks run inside arch_idle().
SPECIFICATION FairSpec
CONSTANTS
  Boot = Boot  Tick = Tick  Uart = Uart  Button = Button
  NoEvent = NoEvent
  Size = 7
  Event <- MCEvent
  evSize <- MCevSize
  MaxLevel = 2
  Sources <- MCSources
  Response <- MCResponse
  BootEvent = Boot
  Preemptive = FALSE
  MaxXruns = 1
INVARIANT TypeOK
INVARIANT NoUnknownEvent
INVARIANT Framed
PROPERTY QueuedBytesKept
PROPERTY ImplementsFifo
PROPERTY EventuallyDispatched
