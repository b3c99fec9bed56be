\* As in Spans.cfg; the implementation panics in a call.
SPECIFICATION Spec
CONSTANTS
  current = current
  older = older
  Impls <- TwoImpls
  Features <- TwoFeatures
  Tracers = {t1}
  Handles = {h1, h2}
  Snapshots = {k1, k2}
  Noop = Noop
  Null = Null
  Sentinel = Sentinel
  Stray = Stray
  MaxSpans = 2
INVARIANT FailureIsExplained
