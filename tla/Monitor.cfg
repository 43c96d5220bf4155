\* Every provider whose spot verdict the code gets right.
CONSTANT Monitored = {"aws", "alicloud", "tencent", "huawei", "dummy"}
SPECIFICATION FairSpec
INVARIANTS MonitorTypeOK MutexOwnership NoFalseAlarm
PROPERTIES OneAlarmPerRun AnnouncementBecomesEvent LoopStops
CHECK_DEADLOCK FALSE
