\* The microcontroller build: interrupts preempt the main loop and each other.
SPECIFICATION FairSpec
CONSTANTS
  Boot = Boot  Tick = Tick  Uart = Uart  Button = Button
  NoEvent = NoEvent
  Size = 6
  Event <- MCEvent
  evSize <- MCevSize
  MaxLevel = 2
  Sources <- MCSources
  Response <- MCResponse
  BootEvent = Boot
  Preemptive = TRUE
  MaxXruns = 1
INVARIANT NoUnknownEvent
