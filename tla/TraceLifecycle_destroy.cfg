\* What the header says of otel_sdk_destroy.
SPECIFICATION Spec
CONSTANTS
  Threads = {t1, t2}
  Helpers = {h1}
  NoHelper = NoHelper
  SpawnCanFail = FALSE
  MaxHandles = 1
PROPERTIES
  DestroyShutsDown
CHECK_DEADLOCK FALSE
