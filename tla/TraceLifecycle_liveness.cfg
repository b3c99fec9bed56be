\* The exporter answers every call in the end.
SPECIFICATION FairSpec
CONSTANTS
  Threads = {t1, t2}
  Helpers = {h1, h2}
  NoHelper = NoHelper
  SpawnCanFail = TRUE
  MaxHandles = 2
PROPERTIES
  FlagClears
  AbandonedStops
\* Threads may have no further calls to make.
CHECK_DEADLOCK FALSE
