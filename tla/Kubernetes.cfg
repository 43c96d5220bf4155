\* Two pods of any kind, all configurations, any loss of answers, and API calls that
\* need only come back when the context is done.
CONSTANTS
  web = web
  job = job
  Pods <- TwoPods
SPECIFICATION FairSpec
PROPERTIES NothingAfterReturn ContextEndsDrain StuckPodsDoNotHoldDrain
INVARIANTS DrainTypeOK NothingSlipsIn SuccessLeavesAtMostHalf VerdictExact
CHECK_DEADLOCK FALSE
