------------------------------- MODULE MCDataPath -------------------------------
(* What lies between an application's configuration and its exporter, on small instances:
   the ownership of exporters (Pipeline), the instruments measured with, the views that
   select and rename them, the manual reader that collects, the walk over a metric batch,
   the views of span and log batches, and the OTLP exporters. In the code these share no
   state but their handles. A behaviour is of one part, which `part` names; the variables
   of the others are Off. *)
EXTENDS MCPipeline

CONSTANTS
  MaxHandles, MaxObjects,                                       \* Instruments
  MaxAttributes, MaxSetters,                                    \* MetricViews
  Flushers, Measurements,                                       \* ManualReader
  MaxLength,                                                    \* MetricBatch
  Scopes, MaxRecords, MaxBatch,                                 \* ExportViews
  x, y, k, l, u, v, w, upperK, counter, gauge, good, bad,       \* values
  OtlpHandles, HeaderNames, HeaderValues, LowerCase,            \* OtlpExporters
  NotMetadata, Compressions, Temporalities, FeatureSets, MaxHeaders,
  Off, Null

VARIABLES
  part,
  level, handles, contexts, states, creation, answer,
  configuration, view, transferred, setters,
  temporality, recorded, pending, exported, lost, started, swapped, reader, accepting,
  gone, stops, pc, taken, seen, result,
  metrics, members, at, index, visited, status,
  kind, records, done, heap, vec, keys, indices, phase,
  features, builder, exporter, runtime, call, readerConfig, otlpReader, outcome

instrumentVars == <<level, handles, contexts, states, creation, answer>>
viewVars == <<configuration, view, transferred, setters>>
readerVars ==
  <<temporality, recorded, pending, exported, lost, started, swapped, reader, accepting,
    gone, stops, pc, taken, seen, result>>
walkVars == <<metrics, members, at, index, visited, status>>
exportVars == <<kind, records, done, heap, vec, keys, indices, phase>>
otlpVars ==
  <<features, builder, exporter, runtime, call, readerConfig, otlpReader, outcome>>

Instrument == INSTANCE Instruments WITH call <- creation, outcome <- answer

\* What Null is not: a creation under way.
Creation ==
  [at : {"entered", "leased", "returned"}, row : Instrument!Rows, ctx : Nat, state : Nat]

ASSUME InstrumentAssumption == Null \notin Creation

\* Names and patterns of up to four characters over two letters.
View == INSTANCE MetricViews WITH
  builder <- configuration, calls <- setters, MaxCalls <- MaxSetters,
  Patterns <- {<<>>, <<"a">>, <<"*">>, <<"a", "*">>, <<"*", "a">>, <<"a", "*", "a">>,
               <<"a", "*", "b">>, <<"*", "*">>, <<"a", "a", "*", "a">>},
  Names <- {<<"a">>, <<"b">>, <<"a", "a">>, <<"a", "b">>, <<"a", "a", "a">>},
  ExactFields <- {"meter_name", "unit"}, Strings <- {x, y}, Keys <- {k, l}, Values <- {u},
  InstrumentKinds <- {counter, gauge}, OutputNames <- {good, bad}, BadNames <- {bad}

Manual == INSTANCE ManualReader WITH
  Threads <- Flushers, exporter <- accepting, batch <- taken

\* A metric of each kind, one with a start that cannot be told, with points without and
\* with exemplars, of which one has a time that cannot be told.
Metric(what, start, time, points) ==
  [kind |-> what, start |-> start, time |-> time, points |-> points]
Walk == INSTANCE MetricBatch WITH
  batch <- metrics, callbacks <- members, i <- index,
  Metrics <- {Metric("gauge", "none", TRUE, <<<<TRUE, TRUE>>, <<>>>>),
              Metric("sum", "none", TRUE, <<<<>>>>),
              Metric("histogram", "told", TRUE, <<<<>>, <<FALSE>>>>),
              Metric("exponential_histogram", "told", TRUE, <<<<>>>>)}

Export == INSTANCE ExportViews WITH batch <- records

\* What Null is not: the views of values, attributes, records and scopes.
Owners == Scopes \cup Nat
Pointers == [to : Nat, at : Nat]
ValueViews == [of : Owners]
AttributeViews == [of : Owners, value : Pointers \cup {Null}]
RecordViews ==
  [of : Owners, attributes : Nat \cup {Null}, scope : Pointers \cup {Null},
   events : Nat \cup {Null}]

ASSUME ExportAssumption ==
  /\ MaxRecords \in Nat /\ MaxBatch \in Nat
  /\ Null \notin ValueViews \cup AttributeViews \cup RecordViews

Otlp == INSTANCE OtlpExporters WITH
  Exporters <- OtlpHandles, Keys <- HeaderNames, Values <- HeaderValues, Fold <- LowerCase,
  readers <- readerConfig, reader <- otlpReader

\* Of three names two are alike but for their case.
MCLowerCase == [name \in {k, upperK, l} |-> IF name = upperK THEN k ELSE name]

\* What Null is not: the builders, exporters, calls and readers of OTLP.
Header == [key : HeaderNames, value : HeaderValues]
OtlpConfig ==
  [headers : Seq(Header), transport : Otlp!Transports, compression : Compressions,
   temporality : Temporalities]
OtlpExporter ==
  [kind : Otlp!Transports \cup {"custom"}, compression : Compressions,
   temporality : Temporalities, asked : Seq(Header),
   metadata : UNION {[names -> HeaderValues] : names \in SUBSET HeaderNames}]
OtlpCall == [op : {"build", "drop"}, e : OtlpHandles, caller : Otlp!Callers]
OtlpReader == [runtime : {"blocking", "async"}, exporter : OtlpHandles]

ASSUME OtlpAssumption ==
  /\ LowerCase \in [HeaderNames -> HeaderNames]
  /\ "none" \in Compressions /\ "default" \in Temporalities
  /\ Null \notin OtlpConfig /\ Null \notin OtlpExporter /\ Null \notin OtlpCall
  /\ Null \notin OtlpReader /\ Null \notin OtlpHandles

InstrumentOff ==
  level = Off /\ handles = Off /\ contexts = Off /\ states = Off /\ creation = Off /\
  answer = Off

ViewOff ==
  configuration = Off /\ view = Off /\ transferred = Off /\ setters = Off

ManualOff ==
  temporality = Off /\ recorded = Off /\ pending = Off /\ exported = Off /\
  lost = Off /\ started = Off /\ swapped = Off /\ reader = Off /\ accepting = Off /\
  gone = Off /\ stops = Off /\ pc = Off /\ taken = Off /\ seen = Off /\ result = Off

WalkOff ==
  metrics = Off /\ members = Off /\ at = Off /\ index = Off /\ visited = Off /\
  status = Off

ExportOff ==
  kind = Off /\ records = Off /\ done = Off /\ heap = Off /\ vec = Off /\
  keys = Off /\ indices = Off /\ phase = Off

OtlpOff ==
  features = Off /\ builder = Off /\ exporter = Off /\ runtime = Off /\ call = Off /\
  readerConfig = Off /\ otlpReader = Off /\ outcome = Off

DataPathInit ==
  /\ part \in {"pipeline", "instruments", "views", "manual_reader", "walk", "export_views", "otlp"}
  /\ Init
  /\ IF part = "instruments" THEN Instrument!Init ELSE InstrumentOff
  /\ IF part = "views" THEN View!Init ELSE ViewOff
  /\ IF part = "manual_reader" THEN Manual!Init ELSE ManualOff
  /\ IF part = "walk" THEN Walk!Init ELSE WalkOff
  /\ IF part = "export_views" THEN Export!Init ELSE ExportOff
  /\ IF part = "otlp" THEN Otlp!Init ELSE OtlpOff

OthersThanPipeline ==
  <<part, instrumentVars, viewVars, readerVars, walkVars, exportVars, otlpVars>>
OthersThanInstrument ==
  <<part, vars, viewVars, readerVars, walkVars, exportVars, otlpVars>>
OthersThanView ==
  <<part, vars, instrumentVars, readerVars, walkVars, exportVars, otlpVars>>
OthersThanManual ==
  <<part, vars, instrumentVars, viewVars, walkVars, exportVars, otlpVars>>
OthersThanWalk ==
  <<part, vars, instrumentVars, viewVars, readerVars, exportVars, otlpVars>>
OthersThanExport ==
  <<part, vars, instrumentVars, viewVars, readerVars, walkVars, otlpVars>>
OthersThanOtlp ==
  <<part, vars, instrumentVars, viewVars, readerVars, walkVars, exportVars>>

InPipeline(A) == part = "pipeline" /\ A /\ UNCHANGED OthersThanPipeline
InInstrument(A) == part = "instruments" /\ A /\ UNCHANGED OthersThanInstrument
InView(A) == part = "views" /\ A /\ UNCHANGED OthersThanView
InManual(A) == part = "manual_reader" /\ A /\ UNCHANGED OthersThanManual
InWalk(A) == part = "walk" /\ A /\ UNCHANGED OthersThanWalk
InExport(A) == part = "export_views" /\ A /\ UNCHANGED OthersThanExport
InOtlp(A) == part = "otlp" /\ A /\ UNCHANGED OthersThanOtlp

PipelineStep ==
  \/ \E h \in Handles : InPipeline(new(h))
  \/ \E e \in Exporters : InPipeline(ExporterStep(e))
  \/ \E b \in Stages : InPipeline(StageStep(b))
  \/ \E p \in Processors : InPipeline(ProcessorStep(p))
  \/ \E b \in Builders : InPipeline(BuilderStep(b))
  \/ \E s \in Sdks : InPipeline(SdkStep(s))

InstrumentStep ==
  \/ InInstrument(Instrument!Meter) \/ InInstrument(Instrument!Create)
  \/ InInstrument(Instrument!Creating) \/ InInstrument(Instrument!Use)
  \/ InInstrument(Instrument!Collect) \/ InInstrument(Instrument!DropPipeline)

ViewStep ==
  \/ InView(View!otel_metric_view_builder_new) \/ InView(View!otel_metric_view_builder_destroy)
  \/ InView(configuration # Null /\ View!Setter)
  \/ InView(configuration # Null /\ View!otel_metric_view_builder_build)
  \/ InView(View!otel_metric_view_destroy) \/ InView(View!otel_sdk_builder_add_metric_view)

ManualStep ==
  \/ \E m \in Measurements : InManual(Manual!Record(m))
  \/ \E t \in Flushers : InManual(Manual!Flush(t)) \/ InManual(Manual!Shutdown(t))

WalkStep ==
  \/ InWalk(Walk!Resource) \/ InWalk(Walk!Scope) \/ InWalk(Walk!Metric)
  \/ InWalk(Walk!Point) \/ InWalk(Walk!Exemplar) \/ InWalk(Walk!LoopEnds)

ExportStep ==
  \/ InExport(Export!Convert) \/ InExport(Export!ConvertFails) \/ InExport(Export!Settle)
  \/ InExport(Export!Show) \/ InExport(Export!Drop)

OtlpStep ==
  \/ InOtlp(Otlp!Configure) \/ InOtlp(Otlp!Build)
  \/ InOtlp(Otlp!Read) \/ InOtlp(Otlp!Release)

DataPathNext ==
  PipelineStep \/ InstrumentStep \/ ViewStep \/ ManualStep \/ WalkStep \/ ExportStep \/ OtlpStep

DataPathSpec ==
  DataPathInit /\ [][DataPathNext]_<<OthersThanPipeline, vars>>

\* Header values are alike.
DataPathSymmetry == Symmetry \cup Permutations({v, w})

--------------------------------------------------------------------------------
(* The tables of both libraries agree on the number of every typed instrument, bound
   instrument, callback and observer (metrics_vtable.rs:609, 662, metrics.rs:1133). *)
InstrumentTypesAgree == part = "instruments" => Instrument!TypesAgree

(* Boxes of the SDK have one owner and callback states are released once, whichever step of
   a creation or of a binding fails (metrics.rs:846-851, metrics_vtable.rs:308-311). *)
InstrumentsOwnedOnce ==
  part = "instruments" => Instrument!StateReleasedOnce /\ Instrument!ContextsHaveOneOwner

(* A view that could be built selects what it declares, and its wildcard does not match a
   name's letters twice (metric_view.rs:544-592). *)
ViewsSelectAsDeclared == part = "views" => View!SelectsAsDeclared

(* A manual reader accounts for every measurement, its flush answers Ok only for what was
   exported or another flush answers for, and it is stopped once, whatever flushes and
   shutdowns run at a time (manual_metric_reader.rs:37-55). *)
ManualReaderAccounts ==
  part = "manual_reader" => Manual!FlushAccounts /\ Manual!StoppedOnce

(* The visitor sees every part of a metric batch once and in order until something ends the
   walk, and the walk says what (metric_batch.rs:735-810). *)
WalkVisitsInOrder == part = "walk" => Walk!VisitsInOrder

(* A span or log batch is shown whole or not at all, every pointer of its view leads to
   what belongs to its record, and nothing of it is left behind
   (log_export_view.rs:855-982, span_export_view.rs:483-604). *)
BatchViewsFaithful ==
  part = "export_views" => Export!ViewsReadTheirRecords /\ Export!WholeBatchOrNothing

(* An OTLP exporter is what its builder was asked for, headers included
   (otlp_exporter.rs:148-186, 255-276, 369-405). *)
OtlpBuiltAsAsked == part = "otlp" => Otlp!BuiltAsAsked

(* A gRPC runtime lives exactly as long as its exporter and is dropped where Tokio allows it
   (metric_exporter.rs:56-113). *)
OtlpRuntimeFollowsExporter == part = "otlp" => Otlp!RuntimeFollowsExporter

(* A periodic reader that could be built can export
   (periodic_metric_reader.rs:309-330, 396-437). *)
OtlpReadersCanExport == part = "otlp" => Otlp!ReadersCanExport
================================================================================
