--------------------------------- MODULE Spans ---------------------------------
(***************************************************************************)
(* Tracers, spans and span contexts of the C API (api/src/trace.rs) over   *)
(* the implementations behind them (sdk/src/vtable.rs), with the handle    *)
(* checks (api/src/handle.rs) and the thread's last-error slot             *)
(* (api/src/error.rs).                                                     *)
(*                                                                         *)
(* Several implementations can have been installed in turn, so handles of  *)
(* each can meet in one call; an implementation may be older than the API  *)
(* and lack the newer entries of its vtable.  Without an implementation    *)
(* every span is the one NOOP_SPAN of the process.                         *)
(*                                                                         *)
(* A span is used by one thread at a time (trace.h), so a call is a step;  *)
(* names, attributes and timestamps are well formed or not.                *)
(***************************************************************************)
EXTENDS Naturals, Sequences, FiniteSets

CONSTANTS
  Impls,          (* installed implementations, each with its vtable       *)
  Features,       (* Features[i]: the entries i has, 0 (oldest) to 3       *)
  Tracers, Handles, Snapshots,   (* the caller's variables                 *)
  Noop,           (* a NULL vtable: no implementation                      *)
  Null,           (* a NULL pointer                                        *)
  Sentinel,       (* the address of NOOP_SPAN                              *)
  Stray,          (* a live handle of another kind                         *)
  MaxSpans        (* bound: spans the implementations start                *)

VARIABLES
  tracer,         (* the implementation behind each tracer handle          *)
  handle,         (* each OtelSpan                                         *)
  sentinelEnded,  (* NOOP_SPAN.ended                                       *)
  span,           (* the SdkSpan objects, in the order they were started   *)
  stopped,        (* implementations whose provider was shut down          *)
  snapshot,       (* each OtelSpanContext                                  *)
  lastError,      (* LAST_ERROR of the calling thread is set               *)
  result          (* what the last call returned                           *)

objects == <<tracer, handle, sentinelEnded, span, snapshot>>
vars == <<objects, stopped, lastError, result>>

(***************************************************************************)
(* A span context.  Ids are numbers, 0 the invalid one; the span id of a   *)
(* local span is its place in span, and a trace has the id of its root.    *)
(* parses: the tracestate is one the implementation can read.              *)
(***************************************************************************)
Remote == MaxSpans + 1
SpanContext ==
  [trace : 0..Remote, span : 0..Remote, parses : BOOLEAN]
Empty == [trace |-> 0, span |-> 0, parses |-> TRUE]
IsValid(c) == c.trace # 0 /\ c.span # 0

OtelSpan == [impl : Impls, ctx : 1..MaxSpans, ended : BOOLEAN]
SdkSpan ==
  [impl : Impls, context : SpanContext, parent : 0..MaxSpans, ends : 0..2, freed : BOOLEAN]

(* Pointers that lead to no object are told from those that do. *)
ASSUME SpansAssumption ==
  /\ Noop \notin Impls
  /\ Features \in [Impls -> 0..3]
  /\ MaxSpans \in Nat
  /\ Null # Sentinel
  /\ {Null, Sentinel} \cap OtelSpan = {} /\ Null \notin SpanContext

TypeOK ==
  /\ tracer \in [Tracers -> Impls \cup {Noop, Null}]
  /\ handle \in [Handles -> OtelSpan \cup {Sentinel, Null}]
  /\ sentinelEnded \in BOOLEAN
  /\ span \in Seq(SdkSpan) /\ Len(span) <= MaxSpans
  /\ stopped \subseteq Impls
  /\ snapshot \in [Snapshots -> SpanContext \cup {Null}]
  /\ lastError \in BOOLEAN
  /\ result \in {"ok", "failed", "quiet"}

Init ==
  /\ tracer = [t \in Tracers |-> Null]
  /\ handle = [h \in Handles |-> Null]
  /\ sentinelEnded = FALSE
  /\ span = <<>>
  /\ stopped = {}
  /\ snapshot = [k \in Snapshots |-> Null]
  /\ lastError = FALSE
  /\ result = "quiet"

(* fail, set_last_error: the call reports a failure and says why. *)
Fail == lastError' = TRUE /\ result' = "failed"
Refuse == Fail /\ UNCHANGED objects

(* clear_last_error at the start of a call that goes on to succeed. *)
Succeed == lastError' = FALSE /\ result' = "ok"

(* guard_ptr, guard_status of the vtable: an SDK that panics has failed, but nobody
   says why, and the slot was cleared when the call began. *)
FailSilently == lastError' = FALSE /\ result' = "failed"
Panic == FailSilently /\ UNCHANGED objects

(* Calls on a no-op handle leave an older message in place. *)
Ignore == result' = "quiet" /\ UNCHANGED lastError

(* checked_ref: NULL and handles of another kind are refused. *)
IsHandle(p) == p \notin {Null, Stray}
IsBacked(h) == handle[h] \notin {Null, Sentinel}

(* trace_vtable_supports_*: entries beyond the implementation's struct_size. *)
HasSpanContext(i) == Features[i] >= 1
HasSpanStartEx(i) == Features[i] >= 2
HasContext(i) == Features[i] >= 3

-----------------------------------------------------------------------------
(* vt_provider_get_tracer, vt_provider_retain: NULL, with the reason; a retain that
   panics is given one by retain_global. *)
RetainOrNamesFail(i) == i # Noop

(* otel_tracer_provider_get_tracer on a provider of implementation i: the slot's
   provider may be gone, or fail to be retained; the names may be malformed. *)
GetTracer(t, i) ==
  /\ tracer[t] = Null
  /\ \/ RetainOrNamesFail(i) /\ Refuse
     \/ i # Noop /\ Panic
     \/ /\ tracer' = [tracer EXCEPT ![t] = i]
        /\ Succeed
        /\ UNCHANGED <<handle, sentinelEnded, span, snapshot>>
  /\ UNCHANGED stopped

(* otel_tracer_destroy. *)
DestroyTracer(t) ==
  /\ tracer[t] # Null
  /\ tracer' = [tracer EXCEPT ![t] = Null]
  /\ result' = "quiet"
  /\ UNCHANGED <<handle, sentinelEnded, span, snapshot, stopped, lastError>>

(* new_span for a no-op tracer: the shared sentinel. *)
StartNoop(h) ==
  /\ handle' = [handle EXCEPT ![h] = Sentinel]
  /\ Ignore
  /\ UNCHANGED <<tracer, sentinelEnded, span, snapshot>>

(* build_with_context: a child of a valid parent, else a root; a provider that was
   shut down starts spans without a context. *)
StartedContext(i, parent) ==
  IF i \in stopped THEN Empty
  ELSE [trace |-> IF IsValid(parent) THEN parent.trace ELSE Len(span) + 1,
        span |-> Len(span) + 1, parses |-> TRUE]

(* The SdkSpan the implementation makes; live: the span of its own it was handed. *)
Started(i, parent, live) ==
  [impl |-> i, context |-> StartedContext(i, parent),
   parent |-> live, ends |-> 0, freed |-> FALSE]

(* The implementation starts a span and new_span makes its handle. *)
Start(h, i, parent, live) ==
  /\ Len(span) < MaxSpans
  /\ span' = Append(span, Started(i, parent, live))
  /\ handle' = [handle EXCEPT ![h] = [impl |-> i, ctx |-> Len(span) + 1, ended |-> FALSE]]
  /\ Succeed
  /\ UNCHANGED <<tracer, sentinelEnded, snapshot>>

(* vt_tracer_start_span and its kin, with arguments in order: what runs the sampler and
   the processors may panic. *)
StartOrPanic(h, i, parent, live) == Start(h, i, parent, live) \/ Panic

(* Fault: the parent's implementation is not compared. *)
LiveParentOfAny(i, p) == IF p \in Handles /\ IsBacked(p) THEN handle[p].ctx ELSE 0

(* The parent handed to implementation i: only a span of its own. *)
LiveParent(i, p) ==
  IF p \in Handles /\ IsBacked(p) /\ handle[p].impl = i THEN handle[p].ctx ELSE 0

ContextOf(ctx) == IF ctx = 0 THEN Empty ELSE span[ctx].context

(* The parents a caller can name: none, a live span, a handle of another kind. *)
Parents == {h \in Handles : handle[h] # Null} \cup {Null, Stray}
ParentContexts == {k \in Snapshots : snapshot[k] # Null} \cup {Null, Stray}

(* otel_tracer_start_span; wellFormed: the name is UTF-8. *)
StartSpan(t, h, p, wellFormed) ==
  /\ tracer[t] # Null /\ handle[h] = Null
  /\ IF tracer[t] = Noop THEN StartNoop(h)
     ELSE IF p = Stray \/ ~wellFormed THEN Refuse
     ELSE LET live == LiveParent(tracer[t], p)
          IN StartOrPanic(h, tracer[t], ContextOf(live), live)
  /\ UNCHANGED stopped

(* span_context_from_view: the tracestate is read at last. *)
FromView(c) == c.parses

(* vt_tracer_start_span_with_context. *)
ContextStartOk(c, wellFormed) == FromView(c) /\ IsValid(c) /\ wellFormed

(* otel_tracer_start_span_with_context: the context is checked before the tracer;
   p: options->parent, which may not be given as well. *)
StartSpanWithContext(t, h, p, k, wellFormed) ==
  /\ tracer[t] # Null /\ handle[h] = Null
  /\ LET i == tracer[t]
     IN IF ~IsHandle(k) \/ p # Null THEN Refuse
        ELSE IF i = Noop THEN StartNoop(h)
        ELSE IF HasSpanContext(i) /\ ContextStartOk(snapshot[k], wellFormed)
             THEN StartOrPanic(h, i, snapshot[k], 0)
        ELSE Refuse
  /\ UNCHANGED stopped

(***************************************************************************)
(* OtelSpanStartOptionsEx.  size: the last group of fields struct_size     *)
(* reaches (only attributes and links, or the parent mode, may be missing, *)
(* else the prefix is flawed); flaw: the group that holds a value to be    *)
(* refused.  Fields struct_size does not reach are not read.               *)
(***************************************************************************)
Sizes == {"required", "links", "full"}
Flaws == {"none", "prefix", "arrays", "contents", "mode", "name"}
Modes == {"explicit", "ambient", "root"}

Read(o) == {"prefix", "name"}
  \cup (IF o.size \in {"links", "full"} THEN {"arrays", "contents"} ELSE {})
  \cup (IF o.size = "full" THEN {"mode"} ELSE {})
Mode(o) == IF o.size = "full" THEN o.mode ELSE "explicit"

(* The checks made before the tracer is looked at, links' contents left to later. *)
OptionsOk(o) ==
  /\ o.flaw \notin Read(o) \cap {"prefix", "arrays", "mode"}
  /\ o.parent = Null \/ o.context = Null
  /\ Mode(o) = "explicit" \/ (o.parent = Null /\ o.context = Null)

(* The checks of a backed tracer: its vtable, the handles. *)
BackedOptionsOk(i, o) ==
  /\ HasSpanStartEx(i)
  /\ Mode(o) = "ambient" => HasContext(i)
  /\ o.parent # Stray /\ o.context # Stray

(* The context the implementation is given a view of: the calling thread's current
   one (current_data), or the one named. *)
GivenContext(o) ==
  IF Mode(o) = "ambient" THEN o.current
  ELSE IF o.context # Null THEN snapshot[o.context] ELSE Empty

(* vt_tracer_start_span_ex: the name, attributes and links; a context given that is
   valid at all has to be readable. *)
ExStartOk(o) ==
  /\ o.flaw \notin Read(o) \cap {"contents", "name"}
  /\ FromView(GivenContext(o))

(* otel_tracer_start_span_ex. *)
StartSpanEx(t, h, o) ==
  /\ tracer[t] # Null /\ handle[h] = Null
  /\ LET i == tracer[t]
         live == LiveParent(i, o.parent)
     IN IF ~OptionsOk(o) THEN Refuse
        ELSE IF i = Noop THEN StartNoop(h)
        ELSE IF BackedOptionsOk(i, o) /\ ExStartOk(o)
             THEN StartOrPanic(h, i, IF live # 0 THEN ContextOf(live) ELSE GivenContext(o), live)
        ELSE Refuse
  /\ UNCHANGED stopped

-----------------------------------------------------------------------------
(* An attribute is converted or refused (to_key_value), an array of them as a whole
   (collect_key_values). *)
AttributeOk(a) == a \notin {"empty key", "malformed", "unknown tag"}
AttributesOk(as) == as # "null" /\ as # "too many" /\ AttributeOk(as)
Attributes == {"fine", "empty key", "malformed", "unknown tag"}

(* vt_span_add_event; the status, whose description is only read for an error. *)
EventOk(w) == w.name /\ AttributesOk(w.attributes)
StatusOk(w) == w.code # "unknown" /\ (w.code = "error" => w.name)

Writes ==
  [op : {"attribute"}, attribute : Attributes] \cup
  [op : {"event"}, name : BOOLEAN, attributes : Attributes \cup {"null", "too many"}] \cup
  [op : {"status"}, name : BOOLEAN, code : {"unset", "ok", "error", "unknown"}] \cup
  [op : {"name"}, name : BOOLEAN]

WriteOk(w) ==
  \/ w.op = "attribute" /\ AttributeOk(w.attribute)
  \/ w.op = "event" /\ EventOk(w)
  \/ w.op = "status" /\ StatusOk(w)
  \/ w.op = "name" /\ w.name

(* The setters, otel_span_add_event, _set_status, _update_name: dispatch_span. *)
WriteSpan(h, w) ==
  /\ handle[h] # Null
  /\ IF handle[h] = Sentinel THEN Ignore
     ELSE IF WriteOk(w) THEN Succeed \/ FailSilently
     ELSE Fail
  /\ UNCHANGED <<objects, stopped>>

(* vt_span_end: counted, to see a span ended twice; a panic in it is swallowed. *)
Ended(s) == [s EXCEPT !.ends = IF s.ends = 2 THEN 2 ELSE s.ends + 1]

(* Fault: end calls the implementation whatever the flag was. *)
EndAlways(h) == [span EXCEPT ![handle[h].ctx] = Ended(@)]

(* OtelSpan::end: the swap lets the first caller through. *)
EndedSpans(h) ==
  IF handle[h].ended THEN span ELSE [span EXCEPT ![handle[h].ctx] = Ended(@)]

(* NOOP_SPAN.ended after end: it returns first. *)
SentinelAfterEnd(h) == sentinelEnded

(* otel_span_end. *)
EndSpan(h) ==
  /\ handle[h] # Null
  /\ IF IsBacked(h)
     THEN /\ span' = EndedSpans(h)
          /\ handle' = [handle EXCEPT ![h].ended = TRUE]
          /\ Succeed
     ELSE Ignore /\ UNCHANGED <<span, handle>>
  /\ sentinelEnded' = SentinelAfterEnd(h)
  /\ UNCHANGED <<tracer, snapshot, stopped>>

(* vt_span_free. *)
Freed(s) == [s EXCEPT !.freed = TRUE]

(* OtelSpan::end_and_free_ctx: ended first, unless it was. *)
EndedAndFreed(h) == [EndedSpans(h) EXCEPT ![handle[h].ctx] = Freed(@)]

(* otel_span_destroy. *)
DestroySpan(h) ==
  /\ handle[h] # Null
  /\ span' = IF IsBacked(h) THEN EndedAndFreed(h) ELSE span
  /\ handle' = [handle EXCEPT ![h] = Null]
  /\ result' = "quiet"
  /\ UNCHANGED <<tracer, sentinelEnded, snapshot, stopped, lastError>>

-----------------------------------------------------------------------------
(* Fault: what the visitor is given is taken as it is. *)
ReceivedAny(c) == TRUE

(* receive_span_context refuses zero ids. *)
Received(c) == IsValid(c)

(* vt_span_context_visit: what the visitor is shown. *)
Visited(h) == ContextOf(handle[h].ctx)

(* otel_span_get_context. *)
GetContext(h, k) ==
  /\ handle[h] # Null /\ snapshot[k] = Null
  /\ LET visits == IsBacked(h) /\ HasSpanContext(handle[h].impl)
     IN \/ IF visits /\ Received(Visited(h))
           THEN /\ snapshot' = [snapshot EXCEPT ![k] = Visited(h)]
                /\ Succeed
                /\ UNCHANGED <<tracer, handle, sentinelEnded, span>>
           ELSE Refuse
        \/ visits /\ Panic
  /\ UNCHANGED stopped

(* otel_span_context_create: ids checked, the tracestate only for length and UTF-8. *)
CreateContext(k, id, parses) ==
  /\ snapshot[k] = Null
  /\ IF id = 0 THEN Refuse
     ELSE /\ snapshot' = [snapshot EXCEPT ![k] =
               [trace |-> id, span |-> id, parses |-> parses]]
          /\ Succeed
          /\ UNCHANGED <<tracer, handle, sentinelEnded, span>>
  /\ UNCHANGED stopped

(* otel_span_context_clone: a copy of its own. *)
CloneContext(k, from) ==
  /\ snapshot[k] = Null /\ snapshot[from] # Null
  /\ snapshot' = [snapshot EXCEPT ![k] = snapshot[from]]
  /\ Succeed
  /\ UNCHANGED <<tracer, handle, sentinelEnded, span, stopped>>

(* otel_span_context_is_valid, _trace_id and the other readers. *)
ReadContext(k, outIsNull) ==
  /\ snapshot[k] # Null
  /\ IF outIsNull THEN Fail ELSE Succeed
  /\ UNCHANGED <<objects, stopped>>

(* otel_span_context_destroy. *)
DestroyContext(k) ==
  /\ snapshot[k] # Null
  /\ snapshot' = [snapshot EXCEPT ![k] = Null]
  /\ result' = "quiet"
  /\ UNCHANGED <<tracer, handle, sentinelEnded, span, stopped, lastError>>

(* Any call on NULL or on a handle of another kind. *)
WrongHandle == Refuse /\ UNCHANGED stopped

-----------------------------------------------------------------------------
(* The rest of the program shuts a provider down. *)
Stop(i) ==
  /\ i \notin stopped
  /\ stopped' = stopped \cup {i}
  /\ UNCHANGED <<objects, lastError, result>>

(* The current context has no span context, or was made from a handle. *)
Currents == {Empty} \cup {snapshot[k] : k \in {k \in Snapshots : snapshot[k] # Null}}

(* Options with at most one thing wrong at a time; only an ambient mode that is read asks
   for the current context. *)
ExOptions ==
  [size : Sizes, flaw : {"none"}, mode : Modes, parent : Parents, context : ParentContexts,
   current : {Empty}] \cup
  [size : {"full"}, flaw : {"none"}, mode : {"ambient"}, parent : {Null}, context : {Null},
   current : Currents] \cup
  [size : Sizes, flaw : Flaws, mode : {"explicit"}, parent : {Null}, context : {Null},
   current : {Empty}]

Next ==
  \/ \E t \in Tracers, i \in Impls \cup {Noop} : GetTracer(t, i)
  \/ \E t \in Tracers : DestroyTracer(t)
  \/ \E t \in Tracers, h \in Handles, p \in Parents, ok \in BOOLEAN : StartSpan(t, h, p, ok)
  \/ \E t \in Tracers, h \in Handles, p \in Parents, k \in ParentContexts, ok \in BOOLEAN :
       StartSpanWithContext(t, h, p, k, ok)
  \/ \E t \in Tracers, h \in Handles, o \in ExOptions : StartSpanEx(t, h, o)
  \/ \E h \in Handles, w \in Writes : WriteSpan(h, w)
  \/ \E h \in Handles : EndSpan(h)
  \/ \E h \in Handles : DestroySpan(h)
  \/ \E h \in Handles, k \in Snapshots : GetContext(h, k)
  \/ \E k \in Snapshots, id \in {0, Remote}, parses \in BOOLEAN : CreateContext(k, id, parses)
  \/ \E k, from \in Snapshots : CloneContext(k, from)
  \/ \E k \in Snapshots, outIsNull \in BOOLEAN : ReadContext(k, outIsNull)
  \/ \E k \in Snapshots : DestroyContext(k)
  \/ WrongHandle
  \/ \E i \in Impls : Stop(i)

Spec == Init /\ [][Next]_vars

-----------------------------------------------------------------------------
\* Of each span: its ends, and the one handle it has until it is freed.
SpanEndedOnce(c) ==
  /\ span[c].ends <= 1
  /\ span[c].freed => span[c].ends = 1
  /\ ~span[c].freed => \E h \in Handles :
       /\ IsBacked(h) /\ handle[h].ctx = c /\ handle[h].impl = span[c].impl
       /\ handle[h].ended <=> span[c].ends = 1
       /\ \A g \in Handles \ {h} : IsBacked(g) => handle[g].ctx # c

EachSpanEndedOnce == \A c \in DOMAIN span : SpanEndedOnce(c)

(* A span is ended once, whether by otel_span_end, by otel_span_destroy or by both,
   in whatever order threads hand it on, and never after it was freed; every span
   not freed belongs to one handle (trace.rs:185 and 197). NOOP_SPAN, which all callers
   share without a lock, is never written (trace.rs:326 and 184). *)
EndedExactlyOnce ==
  /\ ~sentinelEnded
  /\ EachSpanEndedOnce

(* An implementation reads a parent through its own type, so it is never handed a
   span of another implementation (trace.rs:918, vtable.rs:317). *)
OwnParentsOnly ==
  \A c \in DOMAIN span :
    span[c].parent # 0 => span[span[c].parent].impl = span[c].impl

(* A span context handle never holds zero ids, so that otel_tracer_start_span_ex and
   the log calls may rely on it, although spans started after a shutdown have none
   (trace.rs:405, vtable.rs:340). *)
ContextsAreValid == \A k \in Snapshots : snapshot[k] # Null => IsValid(snapshot[k])

(* "A REAL backed/global implementation was asked and failed (malformed view, allocation
   failure, or a guarded vtable panic); it left the last-error set" (trace.rs:829-830;
   924-925 of a span): who is told of a failure finds its reason in the slot. *)
FailureIsExplained == result = "failed" => lastError
===============================================================================
