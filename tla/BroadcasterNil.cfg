\* A handler whose constructor failed next to one that is fine.
CONSTANTS
  kubernetes = kubernetes
  telegram = telegram
  nomad = nomad
  Handlers <- TwoHandlers
  HonoursCtx <- TwoHandlers
  Fallible <- TwoHandlers
  MaxEvents = 1
SPECIFICATION FairSpec
PROPERTY AllResultsCollected
CHECK_DEADLOCK FALSE
