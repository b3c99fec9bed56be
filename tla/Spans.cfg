\* The tracer is destroyed and obtained again from the other implementation, so that
\* spans of both meet.
SPECIFICATION Spec
CONSTANTS
  current = current
  older = older
  Impls <- TwoImpls
  Features <- TwoFeatures
  Tracers = {t1}
  Handles = {h1, h2}
  Snapshots = {k1, k2}
  Noop = Noop
  Null = Null
  Sentinel = Sentinel
  Stray = Stray
  MaxSpans = 2
SYMMETRY Symmetry
VIEW WithoutAnswers
INVARIANTS
  EndedExactlyOnce
  OwnParentsOnly
  ContextsAreValid
