\* The same with a Nomad API that need not answer.
CONSTANTS
  Nodes <- TwoNodes
  Hostnames <- SomeNames
  InstanceIDs <- OneID
  ConfiguredName <- NameInUse
SPECIFICATION FairSpec
PROPERTY RoundEnds
CHECK_DEADLOCK FALSE
