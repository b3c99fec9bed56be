\* Three threads export, flush, shut down and drop one exporter; two readers collect two
\* instruments, nested up to twice, and may keep collecting while one is destroyed; two
\* threads report to and replace two sinks, up to four calls deep.
SPECIFICATION FairCallbacksSpec
CONSTANTS
  Threads = {t1, t2, t3}
  NoThread = NoThread
  MaxTokens = 2
  Instruments = {i1, i2}
  Readers = {r1, r2}
  MaxNesting = 2
  MaxCallbacks = 3
  Reporters = {u1, u2}
  Sinks = {k1, k2}
  NoSink = NoSink
  MaxCalls = 4
INVARIANTS
  ShutdownIsLast
  DestroyComesLast
  CallbackTokensAreScoped
  UserDataOwnedOnce
  SinkOwnedOnce
PROPERTIES
  CallbackStateReleased
\* The exporter may be dropped, its threads and readers done.
CHECK_DEADLOCK FALSE
