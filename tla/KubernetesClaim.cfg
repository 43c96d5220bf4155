\* What "successfully evicted and deleted" is said of.
CONSTANTS
  web = web
  job = job
  Pods <- TwoPods
SYMMETRY Alike
SPECIFICATION Spec
INVARIANT DeletedMeansGone
CHECK_DEADLOCK FALSE
