\* Handlers from a file, name, durations and logging from the environment.
CONSTANTS
  Malformed = Malformed
  Empty = Empty
  Envs <- SmallEnvs
  Files <- HandlerFiles
  Clouds <- FewClouds
SPECIFICATION Spec
INVARIANTS StartupTypeOK RunsAsAssumed DummyTogether ConfiguredNotReplaced OnlyServedProviders
CHECK_DEADLOCK FALSE
