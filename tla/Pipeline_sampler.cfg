\* One builder that builds two SDKs.
SPECIFICATION Spec
CONSTANTS
  e1 = e1
  e2 = e2
  m1 = m1
  m2 = m2
  bt = bt
  bm = bm
  Exporters <- MCExporters
  Stages <- MCStages
  SignalOf <- MCSignalOf
  Processors = {p1}
  Builders = {k1}
  Sdks = {s1, s2}
  NoExporter = NoExporter
  MaxProcessors = 1
PROPERTIES
  SamplerIsKept
\* Handles are used once.
CHECK_DEADLOCK FALSE
