--------------------------- MODULE OtlpExporters ---------------------------
(* OTLP exporters: from the configuration an application puts together to the thread
   that drives the exporter. The builders of the three signals have one shape; the
   metric exporter, the only one with a temporality and with a reader that may run on
   Tokio, is followed to its reader.

   A gRPC exporter owns a Tokio runtime on which its transport lives. Tokio forbids to
   block inside an entered runtime and to drop a runtime there, so it matters where a
   call comes from: "outside" every runtime, or "inside" one of somebody else. *)
EXTENDS Naturals, Sequences

CONSTANTS
  Exporters,      \* exporter handles built in the run
  Keys, Values,   \* header names and values
  Fold,           \* what a name is in lower case
  NotMetadata,    \* the names that end in -bin or that gRPC metadata cannot have
  Compressions, Temporalities,
  FeatureSets,    \* the builds of the library: sets of cargo features
  MaxHeaders,     \* bound on the headers of one builder
  Null

VARIABLES
  features,   \* what this build of the library contains
  builder,    \* the live exporter builder, or Null
  exporter,   \* exporter[e]: the upstream exporter behind a handle, or Null
  runtime,    \* runtime[e]: the gRPC runtime of an exporter
  call,       \* the build or the destruction in progress, or Null
  readers,    \* the reader builder: runtime, timeout, exporter
  reader,     \* the periodic reader that was built, or Null
  outcome     \* how the last export of the reader ended

vars == <<features, builder, exporter, runtime, call, readers, reader, outcome>>

Transports == {"http", "grpc"}
Callers == {"outside", "inside"}
EmptyConfig ==
  [headers |-> <<>>, transport |-> "http", compression |-> "none", temporality |-> "default"]
EmptyReader == [runtime |-> "blocking", timeout |-> FALSE, exporter |-> Null]

Init ==
  /\ features \in FeatureSets
  /\ builder = Null
  /\ exporter = [e \in Exporters |-> Null]
  /\ runtime = [e \in Exporters |-> "none"]
  /\ call = Null
  /\ readers = EmptyReader
  /\ reader = Null
  /\ outcome = "none"

Owned == {readers.exporter} \cup (IF reader = Null THEN {} ELSE {reader.exporter})
Fresh(e) == exporter[e] = Null /\ runtime[e] = "none"
Idle == call = Null

------------------------------------------------------------------------------
(* The exporter builder. A call that is refused changes nothing and is no step. *)

ConfigOnly == UNCHANGED <<features, exporter, runtime, call, readers, reader, outcome>>

otel_otlp_exporter_builder_new ==
  Idle /\ builder = Null /\ builder' = EmptyConfig /\ ConfigOnly

otel_otlp_exporter_builder_destroy ==
  Idle /\ builder # Null /\ builder' = Null /\ ConfigOnly

with_config(new) == Idle /\ builder # Null /\ builder' = new /\ ConfigOnly

set_transport(t) == builder # Null /\ with_config([builder EXCEPT !.transport = t])
set_compression(c) == builder # Null /\ with_config([builder EXCEPT !.compression = c])
set_temporality(t) == builder # Null /\ with_config([builder EXCEPT !.temporality = t])

\* Fault: a name is compared as it was written.
SameNameAsWritten(k, l) == k = l

SameName(k, l) == Fold[k] = Fold[l]

add_header(k, v) ==
  /\ builder # Null
  /\ Len(builder.headers) < MaxHeaders
  /\ \A i \in DOMAIN builder.headers : ~ SameName(builder.headers[i].key, k)
  /\ with_config([builder EXCEPT !.headers = Append(@, [key |-> k, value |-> v])])

------------------------------------------------------------------------------
(* Building: what the library lacks is an error and never replaced by what it has. *)

validate_transport_available(c) ==
  "otlp-" \o c.transport \in features

CompressionCompiledIn(transport, compression) ==
  compression = "none" \/ "otlp-" \o transport \o "-" \o compression \in features

validate_compression_available(c) == CompressionCompiledIn(c.transport, c.compression)

Names(headers) == {Fold[headers[i].key] : i \in DOMAIN headers}

\* The HTTP headers a hash map turns into when names are folded: of two names that fold
\* together either value survives.
HttpHeaders(headers) ==
  {m \in [Names(headers) -> Values] :
     \A n \in Names(headers) :
       \E i \in DOMAIN headers : Fold[headers[i].key] = n /\ headers[i].value = m[n]}

\* The metadata of gRPC: entries are inserted in order and a later one replaces.
build_grpc_metadata(headers) ==
  [n \in Names(headers) |->
     LET last == CHOOSE i \in DOMAIN headers :
                   /\ Fold[headers[i].key] = n
                   /\ \A j \in DOMAIN headers : Fold[headers[j].key] = n => j <= i
     IN headers[last].value]

MetadataFits(headers) ==
  \A i \in DOMAIN headers : headers[i].key \notin NotMetadata

Built(c, metadata) ==
  [kind |-> c.transport, compression |-> c.compression, temporality |-> c.temporality,
   asked |-> c.headers, metadata |-> metadata]

build_http_exporter(e) ==
  /\ builder.transport = "http"
  /\ \E m \in HttpHeaders(builder.headers) :
       exporter' = [exporter EXCEPT ![e] = Built(builder, m)]
  /\ UNCHANGED <<runtime, call>>

\* The runtime comes first and the exporter is built inside it.
build_grpc_exporter(e, caller) ==
  /\ builder.transport = "grpc"
  /\ MetadataFits(builder.headers)
  /\ runtime' = [runtime EXCEPT ![e] = "running"]
  /\ call' = [op |-> "build", e |-> e, caller |-> caller]
  /\ UNCHANGED exporter

otel_otlp_exporter_builder_build(e, caller) ==
  /\ Idle /\ builder # Null /\ Fresh(e)
  /\ validate_transport_available(builder)
  /\ validate_compression_available(builder)
  /\ build_http_exporter(e) \/ build_grpc_exporter(e, caller)
  /\ UNCHANGED <<features, builder, readers, reader, outcome>>

GrpcExporterBuilt ==
  /\ call # Null /\ call.op = "build"
  /\ exporter' = [exporter EXCEPT ![call.e] =
                    Built(builder, build_grpc_metadata(builder.headers))]
  /\ call' = Null
  /\ UNCHANGED <<features, builder, runtime, readers, reader, outcome>>

otel_custom_metric_exporter_new(e) ==
  /\ Idle /\ Fresh(e)
  /\ exporter' = [exporter EXCEPT ![e] =
                    [kind |-> "custom", compression |-> "none", temporality |-> "default",
                     asked |-> <<>>, metadata |-> <<>>]]
  /\ UNCHANGED <<features, builder, runtime, call, readers, reader, outcome>>

------------------------------------------------------------------------------
(* Disposal. *)

DropRuntime(where) == IF where = "inside" THEN "panicked" ELSE "stopped"

\* Fault: the runtime is dropped where the call comes from.
dispose_grpc_runtime_here(caller) == DropRuntime(caller)

\* A runtime is dropped by a thread of its own when the caller is inside another one.
dispose_grpc_runtime(caller) ==
  CASE caller = "inside" -> DropRuntime("disposer thread")
    [] caller = "outside" -> DropRuntime(caller)

\* The runtime guard is dropped when the upstream builder fails.
GrpcExporterFails ==
  /\ call # Null /\ call.op = "build"
  /\ runtime' = [runtime EXCEPT ![call.e] = dispose_grpc_runtime(call.caller)]
  /\ call' = Null
  /\ UNCHANGED <<features, builder, exporter, readers, reader, outcome>>

\* The exporter goes first, then the runtime its transport lives on.
GrpcExporterDropped(e, caller) ==
  /\ exporter' = [exporter EXCEPT ![e] = Null]
  /\ IF exporter[e].kind = "grpc"
       THEN call' = [op |-> "drop", e |-> e, caller |-> caller]
       ELSE UNCHANGED call
  /\ UNCHANGED runtime

ReleaseRuntime ==
  /\ call # Null /\ call.op = "drop"
  /\ exporter' = [exporter EXCEPT ![call.e] = Null]
  /\ runtime' = [runtime EXCEPT ![call.e] = dispose_grpc_runtime(call.caller)]
  /\ call' = Null
  /\ UNCHANGED <<features, builder, readers, reader, outcome>>

otel_metric_exporter_destroy(e, caller) ==
  /\ Idle /\ exporter[e] # Null /\ e \notin Owned
  /\ GrpcExporterDropped(e, caller)
  /\ UNCHANGED <<features, builder, readers, reader, outcome>>

------------------------------------------------------------------------------
(* The periodic reader that drives a metric exporter. *)

ReaderConfig(new) ==
  /\ Idle
  /\ readers' = new
  /\ UNCHANGED <<features, builder, exporter, runtime, call, reader, outcome>>

set_runtime(r) == ReaderConfig([readers EXCEPT !.runtime = r])
set_timeout(given) == ReaderConfig([readers EXCEPT !.timeout = given])

set_exporter(e) ==
  /\ readers.exporter = Null
  /\ exporter[e] # Null /\ e \notin Owned
  /\ ReaderConfig([readers EXCEPT !.exporter = e])

\* Fault: only the gRPC exporter is known to block.
BlocksGrpc(e) == exporter[e].kind = "grpc"

Blocks(e) == exporter[e].kind \in {"http", "grpc"}

Refused ==
  \/ readers.runtime = "blocking" /\ readers.timeout
  \/ readers.runtime = "async" /\ ("metrics-async-runtime" \notin features \/ Blocks(readers.exporter))

otel_periodic_metric_reader_builder_build ==
  /\ Idle /\ reader = Null
  /\ readers.exporter # Null
  /\ ~ Refused
  /\ reader' = [runtime |-> readers.runtime, exporter |-> readers.exporter]
  /\ readers' = [readers EXCEPT !.exporter = Null]
  /\ UNCHANGED <<features, builder, exporter, runtime, call, outcome>>

\* An async reader's worker is a task of its runtime, a blocking one's is a thread.
Worker == IF reader.runtime = "async" THEN "inside" ELSE "outside"

otel_periodic_metric_reader_destroy ==
  /\ Idle /\ reader # Null
  /\ GrpcExporterDropped(reader.exporter, Worker)
  /\ reader' = Null
  /\ UNCHANGED <<features, builder, readers, outcome>>

otel_periodic_metric_reader_builder_destroy(caller) ==
  /\ Idle /\ readers.exporter # Null
  /\ GrpcExporterDropped(readers.exporter, caller)
  /\ readers' = EmptyReader
  /\ UNCHANGED <<features, builder, reader, outcome>>

\* A gRPC export blocks on its own runtime and is refused inside any; the blocking HTTP
\* client panics there.
ExportFrom(kind, where) ==
  IF where = "outside" \/ kind = "custom" THEN "sent"
  ELSE IF kind = "grpc" THEN "refused" ELSE "panicked"

Export ==
  /\ Idle /\ reader # Null
  /\ outcome' = ExportFrom(exporter[reader.exporter].kind, Worker)
  /\ UNCHANGED <<features, builder, exporter, runtime, call, readers, reader>>

------------------------------------------------------------------------------
Configure ==
  \/ otel_otlp_exporter_builder_new
  \/ otel_otlp_exporter_builder_destroy
  \/ \E t \in Transports : set_transport(t)
  \/ \E c \in Compressions : set_compression(c)
  \/ \E t \in Temporalities : set_temporality(t)
  \/ \E k \in Keys, v \in Values : add_header(k, v)

Build ==
  \/ \E e \in Exporters, c \in Callers : otel_otlp_exporter_builder_build(e, c)
  \/ \E e \in Exporters : otel_custom_metric_exporter_new(e)
  \/ GrpcExporterBuilt
  \/ GrpcExporterFails

Read ==
  \/ \E r \in {"blocking", "async"} : set_runtime(r)
  \/ \E given \in BOOLEAN : set_timeout(given)
  \/ \E e \in Exporters : set_exporter(e)
  \/ otel_periodic_metric_reader_builder_build
  \/ Export

Release ==
  \/ \E e \in Exporters, c \in Callers : otel_metric_exporter_destroy(e, c)
  \/ \E c \in Callers : otel_periodic_metric_reader_builder_destroy(c)
  \/ otel_periodic_metric_reader_destroy
  \/ ReleaseRuntime

Next == Configure \/ Build \/ Read \/ Release

Spec == Init /\ [][Next]_vars

------------------------------------------------------------------------------
(* An exporter is what its configuration asked for or is not built at all: the transport
   and the compression are compiled in, and every header a builder accepted is sent
   with the value it was accepted with, whatever maps it went through on the way
   (otlp_exporter.rs:148-186, 255-276, 369-405: a later value never silently replaces an
   earlier one, there is no fallback to another transport or to no compression). *)
BuiltAsAsked ==
  \A e \in Exporters :
    exporter[e] # Null /\ exporter[e].kind # "custom" =>
      /\ ("otlp-" \o exporter[e].kind) \in features
      /\ exporter[e].compression = "none"
           \/ "otlp-" \o exporter[e].kind \o "-" \o exporter[e].compression \in features
      /\ \A i \in DOMAIN exporter[e].asked :
           LET h == exporter[e].asked[i] IN exporter[e].metadata[Fold[h.key]] = h.value

(* A gRPC exporter never lives without its runtime, no runtime is left behind by an
   exporter that failed to build or was dropped, and none is dropped where Tokio forbids
   it, wherever the application, a builder or a reader lets go of the exporter
   (metric_exporter.rs:56-113, otlp_metric_exporter.rs:330-371). *)
RuntimeFollowsExporter ==
  \A e \in Exporters :
    /\ exporter[e] # Null /\ exporter[e].kind = "grpc" => runtime[e] = "running"
    /\ runtime[e] = "running" =>
         \/ exporter[e] # Null
         \/ call # Null /\ call.e = e
    /\ runtime[e] # "panicked"

(* A reader that could be built can export: no order of set_runtime, set_timeout_millis
   and set_exporter leaves a blocking exporter with a worker inside Tokio, where each of
   its exports would be refused or panic (periodic_metric_reader.rs:309-330, 396-437). *)
ReadersCanExport == outcome \in {"none", "sent"}
=============================================================================
