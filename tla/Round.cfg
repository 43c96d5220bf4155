\* The Nomad and the Telegram handler in one round, under fairness.
CONSTANTS
  Nodes <- TwoNodes
  Hostnames <- SomeNames
  InstanceIDs <- SomeIDs
  ConfiguredName <- NameInUse
SPECIFICATION FairSpec
INVARIANTS RoundTypeOK OnlyNamedNodeDrained AlertNamesDrainedNode MessageFaithful
PROPERTY RoundEndsIfAnswered
CHECK_DEADLOCK FALSE
