---------------------------------- MODULE Logs ----------------------------------
(***************************************************************************)
(* Loggers and log records: the C entry points (api/src/logs.rs), the      *)
(* conversion of a record by the SDK (sdk/src/logs_vtable.rs) and of a     *)
(* batch of records for a custom exporter (sdk/src/log_export_view.rs).    *)
(* The values of a record are those of LogValues.                          *)
(*                                                                         *)
(* Records are emitted, wait for a processor and are exported as a batch.  *)
(* Calls do not share state but the queue, so a call is a step.            *)
(***************************************************************************)
EXTENDS LogValues

CONSTANTS
  Loggers,        (* the caller's handles                                  *)
  Null,
  Noop,           (* a logger without an implementation                    *)
  Scopes,         (* the scopes loggers are obtained with                  *)
  Resources,      (* resources an SDK is built with                        *)
  Contexts,       (* span contexts: [valid, flags]                         *)
  None,           (* no context                                            *)
  MaxAttributes,  (* OTEL_LOG_MAX_ATTRIBUTES                               *)
  MaxExported,    (* OTEL_LOG_EXPORT_MAX_RECORDS                           *)
  Records,        (* what callers emit                                     *)
  Pools,          (* <<nodes, attribute values>> of further records        *)
  MaxQueue        (* bound: records waiting to be exported                 *)

(***************************************************************************)
(* What is said of all the records of a logger or of an SDK.  long: its    *)
(* name, schema, a key or a value is over OTEL_LOG_MAX_STRING_LEN.  The    *)
(* SDK takes 1 048 576 attributes of a scope and 1024 of a resource, of    *)
(* which any number here.                                                  *)
(***************************************************************************)
Owner == [attributes : Nat, long : BOOLEAN]

ASSUME LogsAssumption ==
  /\ {Null, Noop} \cap Scopes = {} /\ Null # Noop
  /\ Scopes \subseteq Owner /\ Resources \subseteq Owner
  /\ None \notin Contexts
  /\ MaxAttributes \in Nat
  /\ MaxExported \in Nat /\ MaxQueue \in Nat

VARIABLES
  logger,      (* what each OtelLogger stands for: Null, Noop or its scope *)
  current,     (* the span context of the thread's current context         *)
  call,        (* the call under way and what it returns                  *)
  queue,       (* records the processor holds, with what they came from    *)
  exported     (* the batch the exporter's callback reads, or was not      *)
               (* shown: its views and what they came from                 *)

vars == <<logger, current, call, queue, exported>>

NoBatch == [shown |-> FALSE, views |-> <<>>, sources |-> <<>>, resource |-> None]
NoCall == [how |-> "none"]

Idle == call = NoCall /\ exported = NoBatch

Init ==
  /\ logger = [l \in Loggers |-> Null]
  /\ current = None
  /\ call = NoCall
  /\ queue = <<>>
  /\ exported = NoBatch

-----------------------------------------------------------------------------
(* otel_logger_provider_get_logger_with_options: options may be missing, too short
   or malformed, their attributes invalid, the slot's provider refuse to be retained;
   the slot may be empty. *)
GetLogger(l) ==
  /\ Idle
  /\ logger[l] = Null
  /\ \/ call' = [how |-> "get", status |-> "refused"] /\ UNCHANGED logger
     \/ /\ call' = [how |-> "get", status |-> "ok"]
        /\ \E s \in Scopes \cup {Noop} : logger' = [logger EXCEPT ![l] = s]
  /\ UNCHANGED <<current, queue, exported>>

(* otel_logger_destroy; records already emitted keep their scope. *)
DestroyLogger(l) ==
  /\ Idle
  /\ logger[l] # Null
  /\ logger' = [logger EXCEPT ![l] = Null]
  /\ UNCHANGED <<current, call, queue, exported>>

(* The thread attaches or detaches a context (ContextStack). *)
SetCurrent(c) ==
  /\ Idle
  /\ c # current /\ (c # None => c.valid)
  /\ current' = c
  /\ UNCHANGED <<logger, call, queue, exported>>

(* severity_from_u32 *)
IsSeverity(n) == n \in 1..24

(* otel_logger_enabled: whether it may be asked about at all. *)
Asks(l, severity) == logger[l] \notin {Null, Noop} /\ IsSeverity(severity)

Enabled(l, severity) ==
  /\ Idle
  /\ logger[l] # Null
  /\ call' = [how |-> "enabled",
              status |-> IF ~IsSeverity(severity) THEN "refused"
                         ELSE IF Asks(l, severity) THEN "asked" ELSE "ok"]
  /\ UNCHANGED <<logger, current, queue, exported>>

-----------------------------------------------------------------------------
(***************************************************************************)
(* OtelLogRecordView.  flaws: what else is wrong with it, of "null",       *)
(* "short" (struct_size), "reserved" (a reserved word, of the record or    *)
(* its trace context), "fields" (an unknown presence bit), "array" (a      *)
(* count without an array).                                                *)
(***************************************************************************)
HeaderOk(r) == r.flaws \cap {"null", "short"} = {}

Roots(r) == (IF r.body = None THEN <<>> ELSE <<r.body>>) \o
            [i \in DOMAIN r.attributes |-> r.attributes[i].value]

CountsOk(r) == Len(r.attributes) <= MaxAttributes /\ Len(r.nodes) <= MaxNodes

(* Trace context: not zero, and no flags beyond SAMPLED and RANDOM. *)
ContextOk(c) == c.valid /\ c.flags = "known"

(* emit_record: everything that is checked before a record is made. *)
Valid(r) ==
  /\ r.flaws = {}
  /\ r.severity \in 0..24
  /\ CountsOk(r)
  /\ \A i \in DOMAIN r.attributes : r.attributes[i].key # NoKey
  /\ Validate(r.nodes, Roots(r))
  /\ r.context = None \/ ContextOk(r.context)

(* emit_record: the SDK's record. *)
SdkRecord(r) ==
  LET converted == Convert(r.nodes, Roots(r))
      out == converted.out
      first == IF r.body = None THEN 0 ELSE 1
  IN [ok |-> converted.state.ok, time |-> r.time, severity |-> r.severity, context |-> r.context,
      body |-> IF r.body = None THEN None ELSE out[1],
      attributes |-> [i \in DOMAIN r.attributes |->
                        [key |-> r.attributes[i].key, value |-> out[first + i]]]]

(* What an emission comes to: its status and the queue after it. *)
Refused == [status |-> "refused", queue |-> queue]
Ignored == [status |-> "ok", queue |-> queue]

(* logger_emit; SdkLogger::emit hands the record to the processor. *)
LoggerEmit(l, r) ==
  IF Valid(r) /\ SdkRecord(r).ok
  THEN [status |-> "ok",
        queue |-> Append(queue, [record |-> SdkRecord(r), scope |-> logger[l]])]
  ELSE Refused

(* otel_logger_emit; without an implementation nothing nested is read. *)
DoEmit(l, r) ==
  IF ~HeaderOk(r) THEN Refused
  ELSE IF logger[l] = Noop THEN Ignored
  ELSE LoggerEmit(l, r)

(* otel_logger_emit_with_context *)
DoEmitWithContext(l, r, c) ==
  IF ~c.valid \/ ~HeaderOk(r) \/ r.context # None THEN Refused
  ELSE DoEmit(l, [r EXCEPT !.context = c])

(* otel_logger_emit_with_current_context: when the thread's context is used. *)
TakesCurrent(l, r) == logger[l] # Noop /\ r.context = None /\ current # None

DoEmitWithCurrent(l, r) ==
  IF HeaderOk(r) /\ TakesCurrent(l, r) THEN DoEmitWithContext(l, r, current)
  ELSE DoEmit(l, r)

CanEmit(l) == Idle /\ logger[l] # Null /\ Len(queue) < MaxQueue

Emission(how, l, r, c, outcome) ==
  /\ CanEmit(l)
  /\ call' = [how |-> how, record |-> r, given |-> c, to |-> logger[l],
              status |-> outcome.status]
  /\ queue' = outcome.queue
  /\ UNCHANGED <<logger, current, exported>>

Emit(l, r) == Emission("emit", l, r, None, DoEmit(l, r))
EmitWithContext(l, r, c) == Emission("with", l, r, c, DoEmitWithContext(l, r, c))
EmitWithCurrentContext(l, r) == Emission("current", l, r, current, DoEmitWithCurrent(l, r))

(* A call returns to its caller. *)
Return ==
  /\ call # NoCall
  /\ call' = NoCall
  /\ UNCHANGED <<logger, current, queue, exported>>

(* Bound: a record of Pools is emitted first, outside of any context. *)
Plain == [flaws |-> {}, time |-> FALSE, severity |-> 0, body |-> None,
          attributes |-> <<>>, nodes |-> <<>>, context |-> None]
Pooled(nodes, values) ==
  [Plain EXCEPT !.nodes = nodes,
                !.attributes = [i \in DOMAIN values |->
                                  [key |-> KeyOrder[1], value |-> values[i]]]]
EmitPool(l) ==
  /\ Idle /\ current = None /\ queue = <<>> /\ logger[l] # Null
  /\ \E pool \in Pools : Emit(l, Pooled(pool[1], pool[2]))

-----------------------------------------------------------------------------
ValuesOf(q) ==
  (IF q.body = None THEN <<>> ELSE <<q.body>>) \o
  [i \in DOMAIN q.attributes |-> q.attributes[i].value]

(* convert_record: the record as the callback sees it. *)
ConvertRecord(q) ==
  LET flat == Flatten(ValuesOf(q))
      first == IF q.body = None THEN 0 ELSE 1
  IN [ok |-> flat.ok /\ Len(q.attributes) <= MaxAttributes,
      view |-> [q EXCEPT !.body = IF @ = None THEN None ELSE flat.roots[1],
                         !.attributes = [i \in DOMAIN @ |->
                            [key |-> @[i].key, value |-> flat.roots[first + i]]]]
               @@ [nodes |-> flat.nodes]]

(* flatten and string_view of a scope or a resource, whose values are no containers. *)
OwnerOk(o) == o.attributes <= MaxAttributes /\ ~o.long

(* convert_scope, of the scopes of a batch *)
ScopesOk(batch) == \A i \in DOMAIN batch : OwnerOk(batch[i].scope)

(* convert_batch of a batch and the exporter's resource; the callback sees the whole
   batch or is not called. *)
Export(resource) ==
  /\ Idle
  /\ queue # <<>>
  /\ LET converted == [i \in DOMAIN queue |-> ConvertRecord(queue[i].record)]
         ok == /\ OwnerOk(resource) /\ ScopesOk(queue)
               /\ Len(queue) <= MaxExported
               /\ \A i \in DOMAIN queue : converted[i].ok
     IN exported' = [shown |-> ok, sources |-> queue, resource |-> resource,
                     views |-> IF ok THEN [i \in DOMAIN queue |-> converted[i].view] ELSE <<>>]
  /\ queue' = <<>>
  /\ UNCHANGED <<logger, current, call>>

(* The callback returns, or the export has failed; the views are gone. *)
ExportReturns ==
  /\ exported # NoBatch
  /\ exported' = NoBatch
  /\ UNCHANGED <<logger, current, call, queue>>

Next ==
  \/ \E l \in Loggers :
       \/ GetLogger(l)
       \/ DestroyLogger(l)
       \/ \E n \in {0, 1, 24, 25} : Enabled(l, n)
       \/ \E r \in Records : Emit(l, r)
       \/ EmitPool(l)
       \/ \E r \in Records, c \in Contexts : EmitWithContext(l, r, c)
       \/ \E r \in Records : EmitWithCurrentContext(l, r)
  \/ \E c \in Contexts \cup {None} : SetCurrent(c)
  \/ Return
  \/ \E resource \in Resources : Export(resource)
  \/ ExportReturns

Spec == Init /\ [][Next]_vars

-----------------------------------------------------------------------------
Emitting == call.how \in {"emit", "with", "current"} /\ call.to # Noop

(* The context an emission asks for: the record's own, or else that of its call
   (api/include/opentelemetry_c/logs.h). *)
Asked(e) == IF e.record.context # None THEN e.record.context ELSE e.given

(* logs.h:209-223, 195: a backed logger takes exactly the records whose pool is a
   forest hanging from the record's values, within the limits, and whose header and
   context are in order (sdk/src/logs_vtable.rs:624 checks them piecemeal, in two
   passes over the pool). *)
AcceptedIffForest ==
  Emitting =>
    LET r == call.record
        both == call.how = "with" /\ r.context # None
    IN (call.status = "ok") <=>
         /\ r.flaws = {} /\ r.severity \in 0..24 /\ ~both
         /\ Len(r.attributes) <= MaxAttributes /\ Len(r.nodes) <= MaxNodes
         /\ \A i \in DOMAIN r.attributes : r.attributes[i].key # NoKey
         /\ IsForest(r.nodes, Roots(r))
         /\ Asked(call) = None \/ ContextOk(Asked(call))

(* The record handed to the processor nests the values as the pool lays them out,
   each node moved into its container once (logs_vtable.rs:522); it is correlated with
   the context its caller named and no other: never with the thread's unless asked to,
   never with two (logs.rs:415, 465). *)
ConvertedFaithfully ==
  Emitting /\ call.status = "ok" =>
    LET r == call.record
        q == queue[Len(queue)]
    IN /\ q.scope = call.to
       /\ ValuesOf(q.record) = TreesOf(r.nodes, Roots(r))
       /\ [i \in DOMAIN r.attributes |-> q.record.attributes[i].key] =
          [i \in DOMAIN r.attributes |-> r.attributes[i].key]
       /\ q.record.context = Asked(call)
       /\ r.context = None \/ call.how # "with"

(* No record that was accepted keeps its batch from the callback: only what the SDK was
   built with, the scope a logger was obtained with or the size of the batch can, and a
   batch is shown or withheld as a whole. Every record that is shown has its values laid
   out in a pool that is again valid as input and stands for the same values
   (log_export_view.rs:620, 866). *)
ExportRoundTrip ==
  exported # NoBatch =>
    LET Exceeds(o) == o.long \/ o.attributes > MaxAttributes
    IN /\ exported.shown \/ Exceeds(exported.resource) \/ Len(exported.sources) > MaxExported
                         \/ \E i \in DOMAIN exported.sources : Exceeds(exported.sources[i].scope)
       /\ exported.shown => DOMAIN exported.views = DOMAIN exported.sources
       /\ \A i \in DOMAIN exported.views :
            LET view == exported.views[i]
            IN /\ Validate(view.nodes, ValuesOf(view))
               /\ TreesOf(view.nodes, ValuesOf(view)) = ValuesOf(exported.sources[i].record)
===============================================================================
