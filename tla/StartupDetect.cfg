\* An instance on Huawei Cloud, with auto-detection.
CONSTANTS
  Malformed = Malformed
  Empty = Empty
  Envs <- SmallEnvs
  Files <- HandlerFiles
  Clouds = {"huawei"}
SPECIFICATION Spec
INVARIANT DetectedIsHere
CHECK_DEADLOCK FALSE
