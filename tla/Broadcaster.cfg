\* Three handlers that honour their context, one of which may be nil; two rounds.
CONSTANTS
  kubernetes = kubernetes
  telegram = telegram
  nomad = nomad
  Handlers <- AllHandlers
  HonoursCtx <- AllHandlers
  Fallible <- OneNomad
  MaxEvents = 2
SPECIFICATION FairSpec
INVARIANTS BroadcasterTypeOK HostnameWhole CrashOnlyFromBroken ReportNeverBlocks
           RoundsDoNotOverlap SummaryExact
PROPERTIES RoundEnds BroadcasterStops
CHECK_DEADLOCK FALSE
