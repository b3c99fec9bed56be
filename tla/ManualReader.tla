------------------------------ MODULE ManualReader ------------------------------
(***************************************************************************)
(* Metrics collected by hand (sdk/src/manual_metric_reader.rs): a flush of *)
(* the SDK's metrics collects into the caller's own batch, exports it and  *)
(* flushes the exporter, three steps no lock spans, while other threads    *)
(* measure, flush, or shut the SDK's metrics down.                         *)
(*                                                                         *)
(* The reader and the pipeline of opentelemetry_sdk are external: a delta  *)
(* collection takes what was measured since the last one, a cumulative one *)
(* reports all of it.  An exporter refuses once it was shut down; its own  *)
(* lock is CustomExporter's matter.                                        *)
(***************************************************************************)
EXTENDS Naturals, FiniteSets

CONSTANTS
  Threads,       (* threads of the application                             *)
  Measurements   (* measurements, each made once                           *)

VARIABLES
  temporality,   (* of the exporter: "delta" or "cumulative"               *)
  recorded,      (* measurements made                                      *)
  pending,       (* measured since the last collection                     *)
  exported,      (* what the exporter has accepted                         *)
  lost,          (* taken from the pipeline by a flush that then failed    *)
  started,       (* shutdown_started of the metrics lifecycle              *)
  swapped,       (* ManualMetricReader.shutdown                            *)
  reader,        (* upstream's reader collects                             *)
  exporter,      (* the exporter accepts                                   *)
  gone,          (* the SDK is destroyed                                   *)
  stops,         (* shutdowns of the exporter through the reader           *)
  pc,            (* where each thread's call is                            *)
  batch,         (* what each thread's flush has collected                 *)
  seen,          (* what had been measured when its call began             *)
  result         (* how its last call ended                                *)

data == <<recorded, pending, exported, lost>>
locks == <<started, swapped, reader, exporter, stops>>
local == <<pc, batch, seen, result>>
vars == <<temporality, data, locks, gone, local>>

Init ==
  /\ temporality \in {"delta", "cumulative"}
  /\ recorded = {} /\ pending = {} /\ exported = {} /\ lost = {}
  /\ started = FALSE /\ swapped = FALSE /\ reader = TRUE /\ exporter = TRUE /\ stops = 0 /\ gone = FALSE
  /\ pc = [t \in Threads |-> "idle"]
  /\ batch = [t \in Threads |-> {}]
  /\ seen = [t \in Threads |-> {}]
  /\ result = [t \in Threads |-> "none"]

delta == temporality = "delta"

Goto(t, from, to) == pc[t] = from /\ pc' = [pc EXCEPT ![t] = to]
Ends(t, from, answer) == Goto(t, from, "idle") /\ result' = [result EXCEPT ![t] = answer]

Record(m) ==
  /\ ~gone
  /\ m \notin recorded
  /\ recorded' = recorded \cup {m}
  /\ pending' = pending \cup {m}
  /\ UNCHANGED <<gone, temporality, exported, lost, locks, local>>

-----------------------------------------------------------------------------
(* otel_sdk_metrics_force_flush: shutdown_started is read under the lifecycle's mutex, and
   the mutex is gone before the provider flushes. *)
metrics_force_flush(t) ==
  /\ ~gone
  /\ ~started
  /\ Goto(t, "idle", "collect")
  /\ seen' = [seen EXCEPT ![t] = recorded]
  /\ result' = [result EXCEPT ![t] = "none"]
  /\ UNCHANGED <<gone, temporality, data, locks, batch>>

metrics_force_flush_refused(t) ==
  /\ ~gone
  /\ started
  /\ Ends(t, "idle", "already_shutdown")
  /\ UNCHANGED <<gone, temporality, data, locks, batch, seen>>

(* collect_and_export: the reader fills the caller's ResourceMetrics. *)
Collect(t) ==
  /\ reader
  /\ Goto(t, "collect", "export")
  /\ batch' = [batch EXCEPT ![t] = IF delta THEN pending ELSE recorded]
  /\ pending' = IF delta THEN {} ELSE pending
  /\ UNCHANGED <<gone, temporality, recorded, exported, lost, locks, seen, result>>

CollectFails(t) ==
  /\ ~reader
  /\ Ends(t, "collect", "failed")
  /\ UNCHANGED <<gone, temporality, data, locks, batch, seen>>

Export(t) ==
  /\ exporter
  /\ Goto(t, "export", "flush")
  /\ exported' = exported \cup batch[t]
  /\ batch' = [batch EXCEPT ![t] = {}]
  /\ UNCHANGED <<gone, temporality, recorded, pending, lost, locks, seen, result>>

(* Fault: the export's answer is not looked at. *)
ExportFailsUnnoticed(t) ==
  /\ Goto(t, "export", "flush")
  /\ lost' = IF delta THEN lost \cup batch[t] ELSE lost
  /\ batch' = [batch EXCEPT ![t] = {}]
  /\ UNCHANGED <<gone, temporality, recorded, pending, exported, locks, seen, result>>

(* The exporter was shut down meanwhile, or its callback fails: what this flush has
   collected is gone, and its caller is told. *)
ExportFails(t) ==
  /\ Ends(t, "export", "failed")
  /\ lost' = IF delta THEN lost \cup batch[t] ELSE lost
  /\ batch' = [batch EXCEPT ![t] = {}]
  /\ UNCHANGED <<gone, temporality, recorded, pending, exported, locks, seen>>

FlushExporter(t) ==
  /\ exporter
  /\ Ends(t, "flush", "ok")
  /\ UNCHANGED <<gone, temporality, data, locks, batch, seen>>

FlushExporterFails(t) ==
  /\ Ends(t, "flush", "failed")
  /\ UNCHANGED <<gone, temporality, data, locks, batch, seen>>

-----------------------------------------------------------------------------
(* otel_sdk_metrics_shutdown; the slot is ProviderLifecycle's matter. *)
metrics_shutdown(t) ==
  /\ ~gone
  /\ ~started
  /\ started' = TRUE
  /\ Goto(t, "idle", "swap")
  /\ UNCHANGED <<gone, temporality, data, swapped, reader, exporter, stops, batch, seen, result>>

(* otel_sdk_destroy, when every other call has returned: the provider's end shuts its readers
   down, whether or not that was done before. *)
sdk_destroy(t) ==
  /\ ~gone
  /\ \A u \in Threads : pc[u] = "idle"
  /\ gone' = TRUE
  /\ Goto(t, "idle", "swap")
  /\ UNCHANGED <<temporality, data, locks, batch, seen, result>>

metrics_shutdown_refused(t) ==
  /\ ~gone
  /\ started
  /\ Ends(t, "idle", "already_shutdown")
  /\ UNCHANGED <<gone, temporality, data, locks, batch, seen>>

(* ManualMetricReader::shutdown: one caller only goes on. *)
SwapShutdown(t) ==
  /\ ~swapped
  /\ swapped' = TRUE
  /\ Goto(t, "swap", "stop_reader")
  /\ UNCHANGED <<gone, temporality, data, started, reader, exporter, stops, batch, seen, result>>

AlreadyShutdown(t) ==
  /\ swapped
  /\ Ends(t, "swap", "already_shutdown")
  /\ UNCHANGED <<gone, temporality, data, locks, batch, seen>>

StopReader(t) ==
  /\ Goto(t, "stop_reader", "stop_exporter")
  /\ reader' = FALSE
  /\ UNCHANGED <<gone, temporality, data, started, swapped, exporter, stops, batch, seen, result>>

StopExporter(t) ==
  /\ Ends(t, "stop_exporter", "stopped")
  /\ exporter' = FALSE
  /\ stops' = stops + 1
  /\ UNCHANGED <<gone, temporality, data, started, swapped, reader, batch, seen>>

-----------------------------------------------------------------------------
Flush(t) ==
  \/ metrics_force_flush(t) \/ metrics_force_flush_refused(t)
  \/ Collect(t) \/ CollectFails(t) \/ Export(t) \/ ExportFails(t)
  \/ FlushExporter(t) \/ FlushExporterFails(t)

Shutdown(t) ==
  \/ metrics_shutdown(t) \/ sdk_destroy(t) \/ metrics_shutdown_refused(t)
  \/ SwapShutdown(t) \/ AlreadyShutdown(t) \/ StopReader(t) \/ StopExporter(t)

Next ==
  \/ \E m \in Measurements : Record(m)
  \/ \E t \in Threads : Flush(t) \/ Shutdown(t)

Spec == Init /\ [][Next]_vars

-----------------------------------------------------------------------------
(* What another thread's flush has taken. *)
InOtherHands(t) == UNION {batch[u] : u \in Threads \ {t}}

(* Whatever was measured is waiting, under way, exported or lost to a flush that failed; and
   a flush that answers Ok has not left behind what was measured before it was
   called (manual_metric_reader.rs:37-46): it has exported it, or, of a delta reader,
   another flush took it, which exports it or answers with an error itself.  A cumulative
   reader's flush has exported it, whoever else flushes or shuts down meanwhile. *)
FlushAccounts ==
  /\ recorded = pending \cup exported \cup lost \cup UNION {batch[t] : t \in Threads}
  /\ \A t \in Threads : result[t] = "ok" =>
      IF delta
        THEN seen[t] \subseteq exported \cup lost \cup InOtherHands(t)
        ELSE seen[t] \subseteq exported

(* The exporter is shut down once, after its reader, and whoever was told that the shutdown
   is done finds both stopped (manual_metric_reader.rs:48-55). *)
StoppedOnce ==
  /\ stops <= 1
  /\ ~exporter => ~reader
  /\ (\E t \in Threads : result[t] = "stopped") => stops = 1
===============================================================================
