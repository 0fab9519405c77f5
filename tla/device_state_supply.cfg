SPECIFICATION Spec
CONSTANTS
  OnTicks = 30
  HoldTicks = 10
  Sample <- MCSample
PROPERTY RetryMeansLowSupply
