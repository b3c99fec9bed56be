------------------------------- MODULE MetricBatch -------------------------------
(***************************************************************************)
(* otel_metric_batch_visit (sdk/src/metric_batch.rs): an export callback   *)
(* walks the batch it was lent by having its own callbacks called for the  *)
(* resource, scopes, metrics, points and exemplars, those it has given.    *)
(* What ends the walk early is a callback's answer or a time the C types   *)
(* cannot hold.                                                            *)
(*                                                                         *)
(* A batch is a sequence of scopes, a scope a sequence of metrics.  A      *)
(* metric is [kind, start, time, points]: start and time say whether the C *)
(* types can hold them, and a gauge may have no start.  A point is the     *)
(* sequence of its exemplars, each whether its time can be told.           *)
(***************************************************************************)
EXTENDS Naturals, Sequences, FiniteSets
LOCAL INSTANCE SequencesExt

CONSTANTS
  Metrics,      (* metrics a batch may have: [kind, start, time, points]  *)
  MaxLength     (* bound: scopes of a batch, metrics of a scope            *)

(* The members of OtelMetricVisitor. *)
Callbacks == {"resource", "scope", "metric", "point", "exemplar"}

(* AggregatedMetrics and MetricData *)
Kinds == {"gauge", "sum", "histogram", "exponential_histogram"}

UpTo(S, n) == UNION {[1..k -> S] : k \in 0..n}
Batches == UpTo(UpTo(Metrics, MaxLength), MaxLength)

VARIABLES
  batch,        (* what the export callback was lent                       *)
  callbacks,    (* the visitor's members that are not NULL                 *)
  at,           (* the loop that is being run, or "done"                   *)
  i,            (* its index and those around it: <<scope, metric, point, exemplar>> *)
  visited,      (* the calls made so far and whether each was answered Ok   *)
  status        (* what the walk returns: "ok", "refused" by a callback, "internal" *)

vars == <<batch, callbacks, at, i, visited, status>>

Init ==
  /\ batch \in Batches
  /\ callbacks \in SUBSET Callbacks
  /\ at = "resource"
  /\ i = <<0, 0, 0, 0>>
  /\ visited = <<>>
  /\ status = "ok"

TheScope == batch[i[1]]
TheMetric == TheScope[i[2]]
ThePoint == TheMetric.points[i[3]]

(* The members of OtelMetricPoint a point of each kind fills in; the others are zero. *)
GaugeMembers == {"value"}
SumMembers == {"value", "temporality", "is_monotonic"}
HistogramMembers == {"temporality", "count", "sum", "min", "max", "bounds", "bucket_counts"}
ExponentialMembers ==
  {"temporality", "count", "sum", "min", "max", "scale", "zero_count", "zero_threshold",
   "positive_buckets", "negative_buckets"}

PointMembers ==
  [gauge |-> GaugeMembers, sum |-> SumMembers, histogram |-> HistogramMembers,
   exponential_histogram |-> ExponentialMembers]

(* What the callback is told besides attributes. *)
Shown(what) ==
  CASE what = "metric" -> {TheMetric.kind}
    [] what = "point" -> PointMembers[TheMetric.kind]
    [] OTHER -> {}

(* The times of a metric can be told: timestamp and optional_timestamp. *)
Told(metric) ==
  metric.time /\ (metric.start = "told" \/ (metric.kind = "gauge" /\ metric.start = "none"))

Goto(loop, index) == at' = loop /\ i' = index
Stop(answer) == at' = "done" /\ status' = answer /\ UNCHANGED i

Visit(what, ok) == [what |-> what, i |-> i, shown |-> Shown(what), ok |-> ok]

(* Fault: what the callback for exemplars answers is dropped by visit_exemplars. *)
CallIgnoring(what, loop, index) ==
  IF what \notin callbacks
    THEN Goto(loop, index) /\ UNCHANGED <<visited, status>>
    ELSE \E ok \in BOOLEAN :
           /\ visited' = Append(visited, Visit(what, ok))
           /\ IF ok \/ what = "exemplar" THEN Goto(loop, index) /\ UNCHANGED status ELSE Stop("refused")

(* A callback, if there is one, and Visitor::check of what it answers. *)
Call(what, loop, index) ==
  IF what \notin callbacks
    THEN Goto(loop, index) /\ UNCHANGED <<visited, status>>
    ELSE \E ok \in BOOLEAN :
           /\ visited' = Append(visited, Visit(what, ok))
           /\ IF ok THEN Goto(loop, index) /\ UNCHANGED status ELSE Stop("refused")

Resource ==
  /\ at = "resource"
  /\ Call("resource", "scope", <<1, 0, 0, 0>>)
  /\ UNCHANGED <<batch, callbacks>>

Scope ==
  /\ at = "scope"
  /\ i[1] \in DOMAIN batch
  /\ Call("scope", "metric", <<i[1], 1, 0, 0>>)
  /\ UNCHANGED <<batch, callbacks>>

(* announce_metric *)
Metric ==
  /\ at = "metric"
  /\ i[2] \in DOMAIN TheScope
  /\ Call("metric", "point", <<i[1], i[2], 1, 0>>)
  /\ UNCHANGED <<batch, callbacks>>

(* visit_gauge, visit_sum, visit_histogram, visit_exponential_histogram: the metric's times
   are converted for every point, whoever wants it. *)
Point ==
  /\ at = "point"
  /\ i[3] \in DOMAIN TheMetric.points
  /\ IF Told(TheMetric)
       THEN Call("point", "exemplar", <<i[1], i[2], i[3], 1>>)
       ELSE Stop("internal") /\ UNCHANGED visited
  /\ UNCHANGED <<batch, callbacks>>

(* visit_exemplars: not looked at without a callback. *)
Exemplar ==
  /\ at = "exemplar"
  /\ "exemplar" \in callbacks
  /\ i[4] \in DOMAIN ThePoint
  /\ IF ThePoint[i[4]]
       THEN Call("exemplar", "exemplar", [i EXCEPT ![4] = @ + 1])
       ELSE Stop("internal") /\ UNCHANGED visited
  /\ UNCHANGED <<batch, callbacks>>

(* A loop has run out: the one around it goes on. *)
LoopEnds ==
  /\ \/ /\ at = "exemplar" /\ ("exemplar" \notin callbacks \/ i[4] \notin DOMAIN ThePoint)
        /\ Goto("point", <<i[1], i[2], i[3] + 1, 0>>)
        /\ UNCHANGED status
     \/ /\ at = "point" /\ i[3] \notin DOMAIN TheMetric.points
        /\ Goto("metric", <<i[1], i[2] + 1, 0, 0>>)
        /\ UNCHANGED status
     \/ /\ at = "metric" /\ i[2] \notin DOMAIN TheScope
        /\ Goto("scope", <<i[1] + 1, 0, 0, 0>>)
        /\ UNCHANGED status
     \/ /\ at = "scope" /\ i[1] \notin DOMAIN batch
        /\ Stop("ok")
  /\ UNCHANGED <<batch, callbacks, visited>>

Next == Resource \/ Scope \/ Metric \/ Point \/ Exemplar \/ LoopEnds

Spec == Init /\ [][Next]_vars

-----------------------------------------------------------------------------
(* The batch, read from its beginning to its end: what there is to visit and whether its
   times can be told. *)
Entry(what, index, time) == <<[what |-> what, i |-> index, time |-> time]>>
Each(f) == FlattenSeq(f)

PointEntries(s, m, p) ==
  LET metric == batch[s][m] IN
  Entry("point", <<s, m, p, 0>>, Told(metric))
    \o Each([e \in DOMAIN metric.points[p] |->
               Entry("exemplar", <<s, m, p, e>>, metric.points[p][e])])

MetricEntries(s, m) ==
  Entry("metric", <<s, m, 0, 0>>, TRUE)
    \o Each([p \in DOMAIN batch[s][m].points |-> PointEntries(s, m, p)])

ScopeEntries(s) ==
  Entry("scope", <<s, 0, 0, 0>>, TRUE) \o Each([m \in DOMAIN batch[s] |-> MetricEntries(s, m)])

Entries == Entry("resource", <<0, 0, 0, 0>>, TRUE) \o Each([s \in DOMAIN batch |-> ScopeEntries(s)])

(* A walk visits what there are callbacks for, each once and in the order of the batch, up to
   the first time that cannot be told, and a refusal is the last visit there is; the answer
   names the reason why it ended (metric_batch.rs:735-810). *)
VisitsInOrder ==
  at = "done" =>
    LET relevant == SelectSeq(Entries, LAMBDA x : x.what \in callbacks \cup {"point"})
        untold == {n \in DOMAIN relevant : ~relevant[n].time}
        told == {n \in DOMAIN relevant : \A k \in untold : n < k}
        wanted == SelectSeq(SubSeq(relevant, 1, Cardinality(told)),
                            LAMBDA x : x.what \in callbacks)
        n == Len(visited)
    IN  /\ n <= Len(wanted)
        /\ \A k \in 1..n : /\ visited[k].what = wanted[k].what
                           /\ visited[k].i = wanted[k].i
                           /\ visited[k].ok \/ k = n
                           /\ visited[k].what = "point" =>
                                LET kind == batch[visited[k].i[1]][visited[k].i[2]].kind IN
                                /\ "bounds" \in visited[k].shown <=> kind = "histogram"
                                /\ "scale" \in visited[k].shown <=> kind = "exponential_histogram"
        /\ status = "refused" <=> n > 0 /\ ~Last(visited).ok
        /\ status # "refused" => n = Len(wanted)
        /\ status # "refused" => (status = "ok" <=> untold = {})
===============================================================================
