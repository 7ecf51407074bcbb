\* One substream, all parameter sets; jiffies wraps after 16 ticks.
SPECIFICATION FairSpec
CONSTANTS
  Substreams = {s1}
  HZ = 2
  Params <- MCParamsMany
  JMOD = 16
  MaxLate = 3
  MaxOwed = 1
INVARIANTS
  PointerInBuffer
  Accounting
  TimerOnPeriodEnd
  TimerIffRunning
PROPERTIES
  PeriodsReported
