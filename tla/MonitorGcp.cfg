\* The GCP provider alone: NoFalseAlarm does not hold.
CONSTANT Monitored = {"gcp"}
SPECIFICATION Spec
INVARIANT NoFalseAlarm
CHECK_DEADLOCK FALSE
