SPECIFICATION FairSpec
CONSTANTS
  OnTicks = 30
  HoldTicks = 10
  Sample <- MCSample
INVARIANT TypeOK
INVARIANT HighNeedsLow
PROPERTY PrechargedBeforeHigh
PROPERTY PrechargeHandsOver
PROPERTY ComesToRest
