\* The system always grants a thread, the exporter may never answer.
SPECIFICATION CallersFairSpec
CONSTANTS
  Threads = {t1, t2, t3}
  Helpers = {h1, h2}
  NoHelper = NoHelper
  SpawnCanFail = FALSE
  MaxHandles = 1
INVARIANTS
  FlagTracksFlush
  StopsOnce
  ReferencesPin
PROPERTIES
  TimedCallsReturn
\* Threads may have no further calls to make.
CHECK_DEADLOCK FALSE
