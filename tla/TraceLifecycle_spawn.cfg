\* As the safety run, but the system may refuse a helper thread.
SPECIFICATION Spec
CONSTANTS
  Threads = {t1, t2, t3}
  Helpers = {h1, h2, h3}
  NoHelper = NoHelper
  SpawnCanFail = TRUE
  MaxHandles = 1
SYMMETRY Symmetry
INVARIANTS
  AtMostOneFlush
CHECK_DEADLOCK FALSE
