\* Pipeline: two trace and two metric exporters, two processors, one builder and SDK.
\* Instruments: three handles and boxes. Views: two setters on a builder. Manual reader:
\* two threads, two measurements. Metric batches: two scopes of two metrics. Batch views:
\* up to three records where two are allowed. OTLP: one exporter with two headers;
\* one build has both transports, of which one compresses, the other gRPC alone.
SPECIFICATION DataPathSpec
CONSTANTS
  e1 = e1
  e2 = e2
  m1 = m1
  m2 = m2
  bt = bt
  bm = bm
  Exporters <- MCExporters
  Stages <- MCStages
  SignalOf <- MCSignalOf
  Processors = {p1, p2}
  Builders = {k1}
  Sdks = {s1}
  NoExporter = NoExporter
  MaxProcessors = 1
  MaxHandles = 3
  MaxObjects = 3
  MaxAttributes = 1
  MaxSetters = 2
  Flushers = {c1, c2}
  Measurements = {n1, n2}
  MaxLength = 2
  Scopes = {o1, o2}
  MaxRecords = 2
  MaxBatch = 3
  x = x
  y = y
  k = k
  l = l
  u = u
  v = v
  w = w
  upperK = upperK
  counter = counter
  gauge = gauge
  good = good
  bad = bad
  OtlpHandles = {h1}
  HeaderNames = {k, upperK, l}
  HeaderValues = {v, w}
  LowerCase <- MCLowerCase
  NotMetadata = {l}
  Compressions = {"none", "gzip"}
  Temporalities = {"default", "delta"}
  FeatureSets = {{"otlp-http", "otlp-http-gzip", "otlp-grpc", "metrics-async-runtime"},
                 {"otlp-grpc", "otlp-grpc-gzip"}}
  MaxHeaders = 2
  Off = Off
  Null = Null
SYMMETRY DataPathSymmetry
INVARIANTS
  ReleasedOnce
  InstrumentTypesAgree
  InstrumentsOwnedOnce
  ViewsSelectAsDeclared
  ManualReaderAccounts
  WalkVisitsInOrder
  BatchViewsFaithful
  OtlpBuiltAsAsked
  OtlpRuntimeFollowsExporter
  OtlpReadersCanExport
\* Handles are used once, walks and batches end.
CHECK_DEADLOCK FALSE
