\* A cloud provider and the dummy, two handlers that need never return, one may be nil.
CONSTANTS
  kubernetes = kubernetes
  telegram = telegram
  Monitored = {"tencent", "dummy"}
  Handlers <- TwoHandlers
  HonoursCtx <- NoHandler
  Fallible <- JustTelegram
  MaxEvents = 1
SPECIFICATION FairSpec
INVARIANTS TypeOK GracefulMeansHandled
PROPERTIES ImplementsDelivery SignalEndsProcess AnnouncementReachesHandlers
