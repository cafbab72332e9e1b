CONSTANTS
  Notices = {1, 2}
  KindOf <- MCKindOf
  LevelOf <- MCLevelOf
  Reloads = {1, 2}
  Configs <- MCConfigs
  Readable = {"t", "w"}
  QueueCap = 1
  Window = 1
  MaxTime = 1
SPECIFICATION Spec
CHECK_DEADLOCK FALSE
INVARIANTS DeliveredOnce RedactedSaveKeepsSecrets
PROPERTIES CloseReturns
