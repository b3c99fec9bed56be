------------------------------- MODULE Propagation -------------------------------
(***************************************************************************)
(* What crosses a process boundary: baggage (api/src/baggage.rs) and span  *)
(* contexts (api/src/propagation.rs), built or received, written to the    *)
(* headers of a carrier and read back by the next process.                 *)
(*                                                                         *)
(* Processes differ only in what they hold, so the process that reads the  *)
(* carrier is the one that wrote it, some steps later; between the two,    *)
(* other implementations may replace or extend the headers.                *)
(*                                                                         *)
(* The two propagators share nothing: bound, one rests while the other     *)
(* moves.                                                                  *)
(***************************************************************************)
EXTENDS BaggageValues, TraceContext

CONSTANTS
  Absent,        (* no object, no header                                  *)
  Members,       (* members other implementations write                    *)
  MaxHeader,     (* bound: members of a header                             *)
  Traceparents,  (* traceparents other implementations write               *)
  States,        (* tracestates                                            *)
  MaxCreated     (* OTEL_SPAN_CONTEXT_MAX_TRACESTATE                       *)

VARIABLES
  builder,     (* entries of the OtelBaggageBuilder, or Absent            *)
  baggage,     (* entries of the OtelBaggage, or Absent                   *)
  context,     (* the OtelSpanContext, or Absent                          *)
  carrier      (* headers [baggage, traceparent, tracestate]               *)

propagationVars == <<builder, baggage, context, carrier>>

NoHeaders == [baggage |-> <<>>, traceparent |-> Absent, tracestate |-> <<>>]

PropagationInit == builder = Absent /\ baggage = Absent /\ context = Absent /\ carrier = NoHeaders

Entries == [key : Tokens \cup OtherKeys, value : Values, metadata : {"", "p", " p", "?"}]

ContextRests == context = Absent /\ carrier.traceparent = Absent /\ carrier.tracestate = <<>>
BaggageRests == builder = Absent /\ baggage = Absent /\ carrier.baggage = <<>>

-----------------------------------------------------------------------------
(* Calls that are refused change nothing and are not steps. *)
BuilderCreate ==
  /\ ContextRests
  /\ builder = Absent
  /\ baggage = Absent /\ carrier.baggage = <<>>   (* bound *)
  /\ builder' = <<>>
  /\ UNCHANGED <<baggage, context, carrier>>

BuilderSet(e) ==
  /\ builder # Absent
  /\ baggage = Absent   (* bound *)
  /\ SetOk(builder, e)
  /\ builder' = Put(builder, e)
  /\ UNCHANGED <<baggage, context, carrier>>

BuilderRemove(k) ==
  /\ builder # Absent
  /\ baggage = Absent   (* bound *)
  /\ builder' = Without(builder, k)
  /\ UNCHANGED <<baggage, context, carrier>>

(* The builder stays as it is, and may go on. *)
BuilderBuild ==
  /\ builder # Absent
  /\ baggage = Absent   (* bound *)
  /\ validate_bounds(builder)
  /\ baggage' = builder
  /\ UNCHANGED <<builder, context, carrier>>

BuilderDestroy ==
  /\ builder # Absent
  /\ builder' = Absent
  /\ UNCHANGED <<baggage, context, carrier>>

(* The last handle of it; clones share the entries, which nothing changes. *)
BaggageDestroy ==
  /\ baggage # Absent
  /\ baggage' = Absent
  /\ UNCHANGED <<builder, context, carrier>>

(* The caller asks for the length and passes a buffer that is large enough. *)
BaggageInject ==
  /\ baggage # Absent
  /\ builder = Absent   (* bound *)
  /\ carrier' = [carrier EXCEPT !.baggage = Inject(baggage)]
  /\ UNCHANGED <<builder, baggage, context>>

BaggageExtract ==
  /\ baggage = Absent /\ builder = Absent   (* bound *)
  /\ ContextRests
  /\ baggage' = Extract(carrier.baggage)
  /\ UNCHANGED <<builder, context, carrier>>

(* Another implementation extends the header. *)
HeaderExtended(m) ==
  /\ ContextRests
  /\ baggage = Absent /\ builder = Absent
  /\ Len(carrier.baggage) < MaxHeader
  /\ carrier' = [carrier EXCEPT !.baggage = Append(@, m)]
  /\ UNCHANGED <<builder, baggage, context>>

-----------------------------------------------------------------------------
ContextCreate(trace, span, flags, remote, state) ==
  /\ BaggageRests
  /\ context = Absent
  /\ carrier = NoHeaders   (* bound *)
  /\ CreateOk(trace, span, state, MaxCreated)
  /\ context' = [trace |-> trace, span |-> span, flags |-> flags, remote |-> remote,
                 state |-> state]
  /\ UNCHANGED <<builder, baggage, carrier>>

ContextDestroy ==
  /\ context # Absent
  /\ context' = Absent
  /\ UNCHANGED <<builder, baggage, carrier>>

(* The two headers are written by two calls; a caller may use either alone. *)
ContextInjectTraceparent ==
  /\ context # Absent /\ IsValid(context)
  /\ carrier' = [carrier EXCEPT !.traceparent = InjectTraceparent(context)]
  /\ UNCHANGED <<builder, baggage, context>>

ContextInjectTracestate ==
  /\ context # Absent /\ IsValid(context)
  /\ carrier' = [carrier EXCEPT !.tracestate = InjectTracestate(context)]
  /\ UNCHANGED <<builder, baggage, context>>

ContextExtract ==
  /\ BaggageRests
  /\ context = Absent
  /\ carrier.traceparent # Absent /\ TraceparentOk(carrier.traceparent)
  /\ context' = ExtractContext(carrier.traceparent, carrier.tracestate)
  /\ UNCHANGED <<builder, baggage, carrier>>

(* Another implementation replaces the headers. *)
HeadersReplaced(p, state) ==
  /\ BaggageRests
  /\ context = Absent
  /\ carrier.tracestate = <<>>   (* bound *)
  /\ carrier' = [carrier EXCEPT !.traceparent = p, !.tracestate = state]
  /\ UNCHANGED <<builder, baggage, context>>

(* The request the headers belong to is over. *)
CarrierDone ==
  /\ carrier # NoHeaders
  /\ carrier' = NoHeaders
  /\ UNCHANGED <<builder, baggage, context>>

PropagationNext ==
  \/ CarrierDone
  \/ BuilderCreate \/ BuilderBuild \/ BuilderDestroy
  \/ \E e \in Entries : BuilderSet(e)
  \/ \E k \in Tokens \cup OtherKeys : BuilderRemove(k)
  \/ BaggageDestroy \/ BaggageInject \/ BaggageExtract
  \/ \E m \in Members : HeaderExtended(m)
  \/ \E t, s \in {"zero", "id"}, f \in {"00", "01", "other"}, r \in BOOLEAN, st \in States :
       ContextCreate(t, s, f, r, st)
  \/ ContextDestroy
  \/ ContextInjectTraceparent \/ ContextInjectTracestate \/ ContextExtract
  \/ \E p \in Traceparents, st \in States : HeadersReplaced(p, st)

PropagationSpec == PropagationInit /\ [][PropagationNext]_propagationVars

-----------------------------------------------------------------------------
Hop(entries) == Extract(Inject(entries))

(* An entry as it arrives, if it does. *)
Trimmed(e) == IF Encodes(e) THEN [e EXCEPT !.metadata = Canonical[@]] ELSE e

(* However baggage is made, by a builder (baggage.rs:183-262, 290-318) or from a header of
   any form (583-629), it keeps to the limits and names a key once, so that a lookup
   (360-395) finds what a visit (400-428) shows. *)
WithinLimits ==
  \A entries \in {builder, baggage} \ {Absent} :
    /\ validate_bounds(entries)
    /\ \A i \in DOMAIN entries : Get(entries, entries[i].key) = {VisitEntries(entries, i)[i]}

(* Baggage written to a header and read back (baggage.rs:545-578, 634-682, 496-543) is what
   was written, in its order and with the blanks of its metadata trimmed.  It lacks only
   what a header cannot carry and what would not have fitted; and what crossed one
   boundary crosses the next unchanged. *)
HopKeepsBaggage ==
  baggage # Absent =>
    LET arrived == Hop(baggage)
    IN  /\ arrived = SelectSeq([i \in DOMAIN baggage |-> Trimmed(baggage[i])],
                                LAMBDA e : Has(arrived, e.key))
        /\ \A i \in DOMAIN arrived : arrived[i].key \in Tokens
        /\ \A i \in DOMAIN baggage :
             Encodes(baggage[i]) =>
               \/ Has(arrived, baggage[i].key)
               \/ HeaderBytes(Append(Inject(baggage), encoded_member(baggage[i]))) > MaxBytes
        /\ Hop(arrived) = arrived

(* A span context written to the two headers and read back (propagation.rs:292-398,
   183-278) is the same context, remote, with all its flags; its tracestate is kept if it
   is one, although a context may be created with anything (trace.rs:706-769). *)
HopKeepsContext ==
  context # Absent =>
    /\ TraceparentOk(InjectTraceparent(context))
    /\ ExtractContext(InjectTraceparent(context), InjectTracestate(context)) =
         [context EXCEPT !.remote = TRUE,
                         !.state = IF validate_tracestate(@) THEN @ ELSE <<>>]

(* What crosses a process boundary in headers is what was sent, baggage and span context
   alike (baggage.rs:496-682, propagation.rs:183-398). *)
HopKeepsWhatItCarries == HopKeepsBaggage /\ HopKeepsContext
===============================================================================
