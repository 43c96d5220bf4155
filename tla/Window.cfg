\* The clock from poll to last handler; a check may fail although there is a notice.
CONSTANTS
  Configs <- SomeConfigs
  MaxMissed = 2
SPECIFICATION Spec
INVARIANTS WindowTypeOK DeadlineKept TwoMinutesKept
PROPERTY ImplementsMonitor
CHECK_DEADLOCK FALSE
