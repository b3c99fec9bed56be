------------------------------ MODULE Spans_proofs ------------------------------
(***************************************************************************)
(* Proofs about Spans, for any implementations, tracers, handles and span  *)
(* contexts: each span is ended and freed once, parents are an             *)
(* implementation's own, context handles are valid.                        *)
(***************************************************************************)
EXTENDS Spans, TLAPS

(* A handle leads to a span that lives, of the implementation the handle names. *)
HandlesLead ==
  \A h \in Handles : IsBacked(h) =>
    /\ handle[h].ctx \in DOMAIN span
    /\ ~span[handle[h].ctx].freed

(* A parent was started before its child, by the same implementation. *)
ParentsAreOwn ==
  \A c \in DOMAIN span : span[c].parent # 0 =>
    /\ span[c].parent \in DOMAIN span
    /\ span[span[c].parent].impl = span[c].impl

Inv ==
  /\ TypeOK
  /\ EndedExactlyOnce
  /\ HandlesLead
  /\ ParentsAreOwn
  /\ ContextsAreValid

--------------------------------------------------------------------------------
(* The handle of a span that lives is the one it was started with. *)
LEMMA HandleOfSpan ==
  ASSUME Inv, NEW h \in Handles, IsBacked(h)
  PROVE  LET c == handle[h].ctx
         IN /\ handle[h] \in OtelSpan
            /\ c \in DOMAIN span /\ span[c] \in SdkSpan /\ ~span[c].freed
            /\ span[c].impl = handle[h].impl
            /\ (handle[h].ended <=> span[c].ends = 1)
            /\ \A g \in Handles \ {h} : IsBacked(g) => handle[g].ctx # c
<1> DEFINE c == handle[h].ctx
<1>1. handle[h] \in OtelSpan
  BY DEF Inv, TypeOK, IsBacked
<1>2. c \in DOMAIN span /\ ~span[c].freed
  BY DEF Inv, HandlesLead
<1>3. span[c] \in SdkSpan
  BY <1>2 DEF Inv, TypeOK
<1>4. PICK k \in Handles :
        /\ IsBacked(k) /\ handle[k].ctx = c /\ handle[k].impl = span[c].impl
        /\ (handle[k].ended <=> span[c].ends = 1)
        /\ \A g \in Handles \ {k} : IsBacked(g) => handle[g].ctx # c
  BY <1>2 DEF Inv, EndedExactlyOnce, EachSpanEndedOnce, SpanEndedOnce
<1>5. k = h
  BY <1>4
<1>6. QED
  BY <1>1, <1>2, <1>3, <1>4, <1>5

(* The live parent an implementation is handed is a span of its own. *)
LEMMA LiveParentIsOwn ==
  ASSUME Inv, NEW i, NEW p
  PROVE  LET live == LiveParent(i, p)
         IN live # 0 => live \in DOMAIN span /\ span[live].impl = i
BY HandleOfSpan DEF LiveParent

(* What is read of a span or of no span is a span context. *)
LEMMA ContextOfType ==
  ASSUME Inv, NEW c \in {0} \cup DOMAIN span
  PROVE  ContextOf(c) \in SpanContext
<1>1. Empty \in SpanContext
  BY SpansAssumption DEF Empty, SpanContext, Remote
<1>2. c # 0 => span[c] \in SdkSpan
  BY DEF Inv, TypeOK
<1>3. QED
  BY <1>1, <1>2 DEF ContextOf, SdkSpan

(* The initial state satisfies the invariant. *)
LEMMA InitInv == Init => Inv
<1> SUFFICES ASSUME Init PROVE Inv
  OBVIOUS
<1>1. TypeOK
  <2>1. span \in Seq(SdkSpan) /\ Len(span) <= MaxSpans
    BY SpansAssumption DEF Init
  <2>2. QED
    BY <2>1 DEF Init, TypeOK
<1>2. EndedExactlyOnce /\ HandlesLead /\ ParentsAreOwn
  BY DEF Init, EndedExactlyOnce, EachSpanEndedOnce, SpanEndedOnce, HandlesLead, ParentsAreOwn, IsBacked
<1>3. ContextsAreValid
  BY DEF Init, ContextsAreValid
<1>4. QED
  BY <1>1, <1>2, <1>3 DEF Inv

(* The implementation starts a span for a handle that has none. *)
LEMMA StartStep ==
  ASSUME Inv, NEW h \in Handles, handle[h] = Null, NEW i \in Impls,
         NEW parent \in SpanContext, NEW live \in {0} \cup DOMAIN span,
         live # 0 => span[live].impl = i,
         Start(h, i, parent, live), UNCHANGED stopped,
         NEW n, n = Len(span) + 1
  PROVE  Inv'
<1> DEFINE new == Started(i, parent, live)
           otel == [impl |-> i, ctx |-> n, ended |-> FALSE]
<1>1. n \in 1..MaxSpans /\ n \notin DOMAIN span
  BY SpansAssumption DEF Inv, TypeOK, Start
<1>2. new \in SdkSpan
  <2>1. StartedContext(i, parent) \in SpanContext
    BY <1>1, SpansAssumption DEF StartedContext, SpanContext, Empty, Remote
  <2>2. live \in 0..MaxSpans
    BY <1>1, SpansAssumption DEF Inv, TypeOK
  <2>3. QED
    BY <2>1, <2>2 DEF Started, SdkSpan
<1>3. /\ span' = Append(span, new) /\ DOMAIN span' = DOMAIN span \cup {n}
      /\ span'[n] = new /\ \A c \in DOMAIN span : span'[c] = span[c]
      /\ span' \in Seq(SdkSpan) /\ Len(span') = n
  BY <1>2 DEF Start, Inv, TypeOK
<1>4. handle' = [handle EXCEPT ![h] = otel] /\ otel \in OtelSpan
  BY <1>1 DEF Start, OtelSpan
<1>5. /\ IsBacked(h)' /\ ~IsBacked(h)
      /\ handle'[h] = otel
      /\ \A g \in Handles \ {h} : handle'[g] = handle[g] /\ (IsBacked(g)' <=> IsBacked(g))
  BY <1>4, SpansAssumption DEF IsBacked, Inv, TypeOK
<1>6. TypeOK'
  <2>1. handle' \in [Handles -> OtelSpan \cup {Sentinel, Null}]
    BY <1>4 DEF Inv, TypeOK
  <2>2. span' \in Seq(SdkSpan) /\ Len(span') <= MaxSpans
    BY <1>1, <1>3
  <2>3. QED
    BY <2>1, <2>2 DEF Start, Inv, TypeOK, Succeed
<1>7. EndedExactlyOnce'
  <2>1. ASSUME NEW c \in DOMAIN span PROVE SpanEndedOnce(c)'
    <3>1. SpanEndedOnce(c)
      BY DEF Inv, EndedExactlyOnce, EachSpanEndedOnce
    <3>2. span'[c] = span[c] /\ c # n
      BY <1>1, <1>3
    <3>3. handle'[h].ctx = n
      BY <1>5
    <3>4. QED
      BY <1>5, <3>1, <3>2, <3>3 DEF SpanEndedOnce
  <2>2. /\ span'[n].ends = 0 /\ ~span'[n].freed /\ span'[n].impl = i
        /\ \A g \in Handles \ {h} : IsBacked(g)' => handle'[g].ctx # n
    BY <1>1, <1>3, <1>5, HandleOfSpan DEF Started
  <2>3. handle'[h].ctx = n /\ handle'[h].impl = i /\ ~handle'[h].ended
    BY <1>5
  <2>4. SpanEndedOnce(n)'
    BY <1>5, <2>2, <2>3 DEF SpanEndedOnce
  <2>5. QED
    BY <1>3, <2>1, <2>4 DEF EndedExactlyOnce, EachSpanEndedOnce, Inv, Start
<1>8. HandlesLead'
  BY <1>1, <1>3, <1>5 DEF Inv, HandlesLead, Started
<1>9. ParentsAreOwn'
  BY <1>1, <1>3 DEF Inv, ParentsAreOwn, Started
<1>10. ContextsAreValid'
  BY DEF Start, Inv, ContextsAreValid, IsValid
<1>11. QED
  BY <1>6, <1>7, <1>8, <1>9, <1>10 DEF Inv

(* A step that leaves the spans and who holds them alone. *)
LEMMA OtherStep ==
  ASSUME Inv, TypeOK', UNCHANGED span, sentinelEnded' = FALSE,
         \A h \in Handles : handle'[h] = handle[h] \/ (~IsBacked(h) /\ ~IsBacked(h)'),
         ContextsAreValid'
  PROVE  Inv'
<1>1. \A h \in Handles : /\ IsBacked(h)' <=> IsBacked(h)
                         /\ IsBacked(h) => handle'[h] = handle[h]
  BY DEF IsBacked
<1>2. EndedExactlyOnce'
  BY <1>1 DEF Inv, EndedExactlyOnce, EachSpanEndedOnce, SpanEndedOnce
<1>3. HandlesLead'
  BY <1>1 DEF Inv, HandlesLead
<1>4. ParentsAreOwn'
  BY DEF Inv, ParentsAreOwn
<1>5. QED
  BY <1>2, <1>3, <1>4 DEF Inv

(* otel_tracer_start_span and its kin: a span, the no-op one, or a failure. *)
LEMMA NoopStep ==
  ASSUME Inv, NEW h \in Handles, handle[h] = Null, StartNoop(h), UNCHANGED stopped
  PROVE  Inv'
<1>1. TypeOK'
  BY DEF Inv, TypeOK, StartNoop, Ignore
<1>2. \A g \in Handles : handle'[g] = handle[g] \/ (~IsBacked(g) /\ ~IsBacked(g)')
  BY DEF Inv, TypeOK, StartNoop, IsBacked
<1>3. ContextsAreValid'
  BY DEF Inv, ContextsAreValid, IsValid, StartNoop
<1>4. UNCHANGED span /\ sentinelEnded' = FALSE
  BY DEF StartNoop, Inv, EndedExactlyOnce
<1>5. QED
  BY <1>1, <1>2, <1>3, <1>4, OtherStep

(* A call that changes no object, whatever it answers. *)
LEMMA AnswerStep ==
  ASSUME Inv, Fail \/ FailSilently \/ Succeed \/ Ignore, UNCHANGED <<objects, stopped>>
  PROVE  Inv'
<1>1. TypeOK'
  BY DEF Inv, TypeOK, Fail, FailSilently, Succeed, Ignore, objects
<1>2. ContextsAreValid'
  BY DEF Inv, ContextsAreValid, IsValid, objects
<1>3. UNCHANGED <<span, handle>> /\ sentinelEnded' = FALSE
  BY DEF objects, Inv, EndedExactlyOnce
<1>4. QED
  BY <1>1, <1>2, <1>3, OtherStep

LEMMA RefuseStep ==
  ASSUME Inv, Refuse \/ Panic, UNCHANGED stopped
  PROVE  Inv'
BY AnswerStep DEF Refuse, Panic

(* otel_tracer_start_span, otel_tracer_start_span_with_context, otel_tracer_start_span_ex. *)
LEMMA StartSpanStep ==
  ASSUME Inv, NEW t \in Tracers, NEW h \in Handles, NEW p \in Parents, NEW ok \in BOOLEAN,
         StartSpan(t, h, p, ok)
  PROVE  Inv'
<1> DEFINE i == tracer[t]
           live == LiveParent(i, p)
<1>1. handle[h] = Null /\ UNCHANGED stopped
  BY DEF StartSpan
<1>2. CASE i = Noop
  BY <1>1, <1>2, NoopStep DEF StartSpan
<1>3. CASE i # Noop /\ (Refuse \/ Panic)
  BY <1>1, <1>3, RefuseStep
<1>4. CASE i # Noop /\ Start(h, i, ContextOf(live), live)
  <2>1. i \in Impls
    BY <1>4 DEF StartSpan, Inv, TypeOK
  <2>2. live # 0 => live \in DOMAIN span /\ span[live].impl = i
    BY LiveParentIsOwn
  <2>3. ContextOf(live) \in SpanContext
    BY <2>2, ContextOfType
  <2>4. QED
    BY <1>1, <1>4, <2>1, <2>2, <2>3, StartStep
<1>5. QED
  BY <1>2, <1>3, <1>4 DEF StartSpan, StartOrPanic

LEMMA StartSpanWithContextStep ==
  ASSUME Inv, NEW t \in Tracers, NEW h \in Handles, NEW p \in Parents,
         NEW k \in ParentContexts, NEW ok \in BOOLEAN, StartSpanWithContext(t, h, p, k, ok)
  PROVE  Inv'
<1> DEFINE i == tracer[t]
<1>1. handle[h] = Null /\ UNCHANGED stopped
  BY DEF StartSpanWithContext
<1>2. CASE StartNoop(h)
  BY <1>1, <1>2, NoopStep
<1>3. CASE Refuse \/ Panic
  BY <1>1, <1>3, RefuseStep
<1>4. CASE IsHandle(k) /\ i # Noop /\ Start(h, i, snapshot[k], 0)
  <2>1. i \in Impls
    BY <1>4 DEF StartSpanWithContext, Inv, TypeOK
  <2>2. snapshot[k] \in SpanContext
    BY <1>4 DEF IsHandle, ParentContexts, Inv, TypeOK
  <2>3. QED
    BY <1>1, <1>4, <2>1, <2>2, StartStep
<1>5. QED
  BY <1>2, <1>3, <1>4 DEF StartSpanWithContext, StartOrPanic

LEMMA StartSpanExStep ==
  ASSUME Inv, NEW t \in Tracers, NEW h \in Handles, NEW o \in ExOptions,
         StartSpanEx(t, h, o)
  PROVE  Inv'
<1> DEFINE i == tracer[t]
           live == LiveParent(i, o.parent)
           parent == IF live # 0 THEN ContextOf(live) ELSE GivenContext(o)
<1>1. handle[h] = Null /\ UNCHANGED stopped
  BY DEF StartSpanEx
<1>2. CASE StartNoop(h)
  BY <1>1, <1>2, NoopStep
<1>3. CASE Refuse \/ Panic
  BY <1>1, <1>3, RefuseStep
<1>4. CASE i # Noop /\ BackedOptionsOk(i, o) /\ Start(h, i, parent, live)
  <2>1. i \in Impls
    BY <1>4 DEF StartSpanEx, Inv, TypeOK
  <2>2. live # 0 => live \in DOMAIN span /\ span[live].impl = i
    BY LiveParentIsOwn
  <2>3. Empty \in SpanContext
    BY ContextOfType DEF ContextOf
  <2>4. o.current \in SpanContext
    BY <2>3 DEF ExOptions, Currents, Inv, TypeOK
  <2>5. o.context \in ParentContexts
    BY DEF ExOptions, ParentContexts
  <2>6. o.context # Stray
    BY <1>4 DEF BackedOptionsOk
  <2>7. GivenContext(o) \in SpanContext
    BY <2>3, <2>4, <2>5, <2>6 DEF GivenContext, ParentContexts, Inv, TypeOK
  <2>8. parent \in SpanContext
    BY <2>2, <2>7, ContextOfType
  <2>9. QED
    BY <1>1, <1>4, <2>1, <2>2, <2>8, StartStep
<1>5. QED
  BY <1>2, <1>3, <1>4 DEF StartSpanEx, StartOrPanic

--------------------------------------------------------------------------------
(* A step that ends the span of handle h and frees it together with its handle or not. *)
LEMMA EndingStep ==
  ASSUME Inv, NEW h \in Handles, IsBacked(h), NEW freed \in BOOLEAN,
         NEW c, c = handle[h].ctx,
         NEW new \in SdkSpan, new.ends = 1, new.freed <=> freed,
         new.impl = span[c].impl, new.parent = span[c].parent,
         span' = [span EXCEPT ![c] = new],
         handle' = [handle EXCEPT ![h] = IF freed THEN Null ELSE [@ EXCEPT !.ended = TRUE]],
         UNCHANGED <<tracer, sentinelEnded, snapshot, stopped>>,
         lastError' \in BOOLEAN, result' \in {"ok", "quiet"}
  PROVE  Inv'
<1>1. /\ handle[h] \in OtelSpan
      /\ c \in DOMAIN span /\ span[c] \in SdkSpan /\ ~span[c].freed
      /\ span[c].impl = handle[h].impl
      /\ \A g \in Handles \ {h} : IsBacked(g) => handle[g].ctx # c
  BY HandleOfSpan
<1>2. /\ span' \in Seq(SdkSpan) /\ Len(span') = Len(span) /\ DOMAIN span' = DOMAIN span
      /\ \A d \in DOMAIN span : d # c => span'[d] = span[d]
  BY <1>1 DEF Inv, TypeOK
<1>3. span'[c] = new
  BY <1>1 DEF Inv, TypeOK
<1>4. /\ span'[c].ends = 1 /\ (span'[c].freed <=> freed)
      /\ span'[c].impl = span[c].impl /\ span'[c].parent = span[c].parent
  BY <1>3
<1>5. \A d \in DOMAIN span : span'[d].impl = span[d].impl /\ span'[d].parent = span[d].parent
  BY <1>2, <1>4
<1>6. /\ handle'[h] = IF freed THEN Null ELSE [handle[h] EXCEPT !.ended = TRUE]
      /\ \A g \in Handles \ {h} : handle'[g] = handle[g]
  BY DEF Inv, TypeOK
<1>7. ~freed => /\ handle'[h] \in OtelSpan /\ handle'[h].ctx = c
                /\ handle'[h].impl = span'[c].impl /\ handle'[h].ended
  <2>1. ASSUME NEW o \in OtelSpan
        PROVE  LET e == [o EXCEPT !.ended = TRUE]
               IN e \in OtelSpan /\ e.ctx = o.ctx /\ e.impl = o.impl /\ e.ended
    BY DEF OtelSpan
  <2>2. LET e == [handle[h] EXCEPT !.ended = TRUE]
        IN e \in OtelSpan /\ e.ctx = handle[h].ctx /\ e.impl = handle[h].impl /\ e.ended
    BY <1>1, <2>1
  <2>3. ~freed => handle'[h] = [handle[h] EXCEPT !.ended = TRUE]
    BY <1>6
  <2>4. QED
    BY <1>1, <1>4, <2>2, <2>3
<1>8. /\ IsBacked(h)' <=> ~freed
      /\ \A g \in Handles \ {h} : IsBacked(g)' <=> IsBacked(g)
  BY <1>6, <1>7, SpansAssumption DEF IsBacked
<1>9. TypeOK'
  <2>1. handle' \in [Handles -> OtelSpan \cup {Sentinel, Null}]
    BY <1>6, <1>7 DEF Inv, TypeOK
  <2>2. QED
    BY <1>2, <2>1 DEF Inv, TypeOK
<1>10. EndedExactlyOnce'
  <2>1. ASSUME NEW d \in DOMAIN span, d # c PROVE SpanEndedOnce(d)'
    <3>1. SpanEndedOnce(d)
      BY DEF Inv, EndedExactlyOnce, EachSpanEndedOnce
    <3>2. IsBacked(h)' => handle'[h].ctx # d
      BY <1>7, <1>8, <2>1
    <3>3. span'[d] = span[d]
      BY <1>2, <2>1
    <3>4. \A k \in Handles : IsBacked(k) /\ handle[k].ctx = d => k # h
      BY <2>1
    <3>5. QED
      BY <1>6, <1>8, <3>1, <3>2, <3>3, <3>4 DEF SpanEndedOnce
  <2>2. SpanEndedOnce(c)'
    BY <1>1, <1>4, <1>6, <1>7, <1>8 DEF SpanEndedOnce
  <2>3. QED
    BY <1>2, <2>1, <2>2 DEF EachSpanEndedOnce, EndedExactlyOnce, Inv
<1>11. HandlesLead'
  <2>1. ASSUME NEW g \in Handles, IsBacked(g)'
        PROVE  handle'[g].ctx \in DOMAIN span' /\ ~span'[handle'[g].ctx].freed
    <3>1. CASE g = h
      BY <1>1, <1>2, <1>4, <1>7, <1>8, <2>1, <3>1
    <3>2. CASE g # h
      BY <1>1, <1>2, <1>6, <1>8, <2>1, <3>2 DEF Inv, HandlesLead
    <3>3. QED
      BY <3>1, <3>2
  <2>2. QED
    BY <2>1 DEF HandlesLead
<1>12. ParentsAreOwn'
  BY <1>2, <1>5 DEF Inv, ParentsAreOwn
<1>13. ContextsAreValid'
  BY DEF Inv, ContextsAreValid, IsValid
<1>14. QED
  BY <1>9, <1>10, <1>11, <1>12, <1>13 DEF Inv

(* What vt_span_end and vt_span_free make of a span that was or was not ended. *)
LEMMA EndedType ==
  ASSUME NEW s \in SdkSpan, NEW e, e = s \/ e = Ended(s), e.ends = 1
  PROVE  /\ e \in SdkSpan /\ e.impl = s.impl /\ e.parent = s.parent /\ e.freed = s.freed
         /\ Freed(e) \in SdkSpan /\ Freed(e).ends = 1 /\ Freed(e).freed
         /\ Freed(e).impl = s.impl /\ Freed(e).parent = s.parent
<1>1. e \in SdkSpan /\ e.impl = s.impl /\ e.parent = s.parent /\ e.freed = s.freed
  BY DEF Ended, SdkSpan
<1>2. QED
  BY <1>1 DEF Freed, SdkSpan

(* EndedSpans leaves the span of handle h ended once. *)
LEMMA EndedSpansOf ==
  ASSUME Inv, NEW h \in Handles, IsBacked(h), NEW c, c = handle[h].ctx
  PROVE  \E e \in SdkSpan :
           /\ e = span[c] \/ e = Ended(span[c])
           /\ e.ends = 1
           /\ EndedSpans(h) = [span EXCEPT ![c] = e]
<1>1. /\ c \in DOMAIN span /\ span[c] \in SdkSpan /\ ~span[c].freed
      /\ handle[h].ended <=> span[c].ends = 1
  BY HandleOfSpan
<1>2. span[c].ends = 0 \/ span[c].ends = 1
  BY <1>1 DEF Inv, EndedExactlyOnce, EachSpanEndedOnce, SpanEndedOnce, SdkSpan
<1>3. CASE handle[h].ended
  <2>1. span = [span EXCEPT ![c] = span[c]]
    BY <1>1 DEF Inv, TypeOK
  <2>2. QED
    BY <1>1, <1>3, <2>1 DEF EndedSpans
<1>4. CASE ~handle[h].ended
  <2>1. Ended(span[c]) \in SdkSpan /\ Ended(span[c]).ends = 1
    BY <1>1, <1>2, <1>4 DEF Ended, SdkSpan
  <2>2. EndedSpans(h) = [span EXCEPT ![c] = Ended(span[c])]
    BY <1>1, <1>4 DEF EndedSpans, Inv, TypeOK
  <2>3. QED
    BY <2>1, <2>2
<1>5. QED
  BY <1>3, <1>4

(* otel_span_end. *)
LEMMA EndSpanStep ==
  ASSUME Inv, NEW h \in Handles, EndSpan(h)
  PROVE  Inv'
<1> SUFFICES ASSUME NEW c, c = handle[h].ctx PROVE Inv'
  OBVIOUS
<1>1. CASE ~IsBacked(h)
  <2>1. Ignore /\ UNCHANGED <<objects, stopped>>
    BY <1>1 DEF EndSpan, SentinelAfterEnd, objects
  <2>2. QED
    BY <2>1, AnswerStep
<1>2. CASE IsBacked(h)
  <2>1. span[c] \in SdkSpan /\ ~span[c].freed
    BY <1>2, HandleOfSpan
  <2>2. PICK e \in SdkSpan : /\ e = span[c] \/ e = Ended(span[c])
                             /\ e.ends = 1 /\ EndedSpans(h) = [span EXCEPT ![c] = e]
    BY <1>2, EndedSpansOf
  <2>3. e.impl = span[c].impl /\ e.parent = span[c].parent /\ (e.freed <=> FALSE)
    BY <2>1, <2>2, EndedType
  <2>4. /\ span' = [span EXCEPT ![c] = e]
        /\ handle' = [handle EXCEPT ![h] = IF FALSE THEN Null ELSE [@ EXCEPT !.ended = TRUE]]
    BY <1>2, <2>2 DEF EndSpan, Inv, TypeOK
  <2>5. /\ UNCHANGED <<tracer, sentinelEnded, snapshot, stopped>>
        /\ lastError' \in BOOLEAN /\ result' \in {"ok", "quiet"}
    BY <1>2 DEF EndSpan, SentinelAfterEnd, Succeed
  <2>6. QED
    BY <1>2, <2>2, <2>3, <2>4, <2>5, EndingStep
<1>3. QED
  BY <1>1, <1>2

(* otel_span_destroy. *)
LEMMA DestroySpanStep ==
  ASSUME Inv, NEW h \in Handles, DestroySpan(h)
  PROVE  Inv'
<1> SUFFICES ASSUME NEW c, c = handle[h].ctx PROVE Inv'
  OBVIOUS
<1>1. /\ UNCHANGED <<tracer, sentinelEnded, snapshot, stopped>>
      /\ lastError' \in BOOLEAN /\ result' \in {"ok", "quiet"}
  BY DEF DestroySpan, Inv, TypeOK
<1>2. handle' = [handle EXCEPT ![h] = Null]
  BY DEF DestroySpan
<1>3. CASE ~IsBacked(h)
  <2>1. TypeOK'
    BY <1>1, <1>2, <1>3 DEF DestroySpan, Inv, TypeOK
  <2>2. ContextsAreValid'
    BY <1>1 DEF Inv, ContextsAreValid, IsValid
  <2>3. \A g \in Handles : handle'[g] = handle[g] \/ (~IsBacked(g) /\ ~IsBacked(g)')
    BY <1>2, <1>3 DEF Inv, TypeOK, IsBacked
  <2>4. UNCHANGED span /\ sentinelEnded' = FALSE
    BY <1>1, <1>3 DEF DestroySpan, Inv, EndedExactlyOnce
  <2>5. QED
    BY <1>1, <2>1, <2>2, <2>3, <2>4, OtherStep
<1>4. CASE IsBacked(h)
  <2>1. span[c] \in SdkSpan /\ c \in DOMAIN span
    BY <1>4, HandleOfSpan
  <2>2. PICK e \in SdkSpan : /\ e = span[c] \/ e = Ended(span[c])
                            /\ e.ends = 1 /\ EndedSpans(h) = [span EXCEPT ![c] = e]
    BY <1>4, EndedSpansOf
  <2>3. /\ Freed(e) \in SdkSpan /\ Freed(e).ends = 1 /\ (Freed(e).freed <=> TRUE)
        /\ Freed(e).impl = span[c].impl /\ Freed(e).parent = span[c].parent
    BY <2>1, <2>2, EndedType
  <2>4. span' = [span EXCEPT ![c] = Freed(e)]
    BY <1>4, <2>1, <2>2 DEF DestroySpan, EndedAndFreed, Inv, TypeOK
  <2>5. handle' = [handle EXCEPT ![h] = IF TRUE THEN Null ELSE [@ EXCEPT !.ended = TRUE]]
    BY <1>2
  <2>6. QED
    BY <1>1, <1>4, <2>3, <2>4, <2>5, EndingStep
<1>5. QED
  BY <1>3, <1>4

--------------------------------------------------------------------------------
(* otel_span_get_context, otel_span_context_create, otel_span_context_clone,
   otel_span_context_destroy change one handle of a span context. *)
LEMMA SnapshotStep ==
  ASSUME Inv, NEW k \in Snapshots, NEW c \in SpanContext \cup {Null}, c # Null => IsValid(c),
         snapshot' = [snapshot EXCEPT ![k] = c],
         UNCHANGED <<tracer, handle, sentinelEnded, span, stopped>>,
         Succeed \/ (result' = "quiet" /\ UNCHANGED lastError)
  PROVE  Inv'
<1>1. TypeOK'
  BY DEF Inv, TypeOK, Succeed
<1>2. ContextsAreValid'
  BY DEF Inv, TypeOK, ContextsAreValid, IsValid
<1>3. UNCHANGED <<span, handle>> /\ sentinelEnded' = FALSE
  BY DEF Inv, EndedExactlyOnce
<1>4. QED
  BY <1>1, <1>2, <1>3, OtherStep

LEMMA GetContextStep ==
  ASSUME Inv, NEW h \in Handles, NEW k \in Snapshots, GetContext(h, k)
  PROVE  Inv'
<1>1. CASE Refuse \/ Panic
  BY <1>1, RefuseStep DEF GetContext
<1>2. CASE IsBacked(h) /\ IsValid(Visited(h)) /\ ~Refuse /\ ~Panic
  <2>1. Visited(h) \in SpanContext
    BY <1>2, HandleOfSpan, ContextOfType DEF Visited
  <2>2. /\ snapshot' = [snapshot EXCEPT ![k] = Visited(h)] /\ Succeed
        /\ UNCHANGED <<tracer, handle, sentinelEnded, span, stopped>>
    BY <1>2 DEF GetContext
  <2>3. QED
    BY <1>2, <2>1, <2>2, SnapshotStep
<1>3. QED
  BY <1>1, <1>2 DEF GetContext, Received

LEMMA CreateContextStep ==
  ASSUME Inv, NEW k \in Snapshots, NEW id \in {0, Remote}, NEW parses \in BOOLEAN,
         CreateContext(k, id, parses)
  PROVE  Inv'
<1> DEFINE c == [trace |-> id, span |-> id, parses |-> parses]
<1>1. CASE id = 0
  BY <1>1, RefuseStep DEF CreateContext
<1>2. CASE id # 0
  <2>1. c \in SpanContext /\ IsValid(c)
    BY <1>2, SpansAssumption DEF SpanContext, IsValid, Remote
  <2>2. /\ snapshot' = [snapshot EXCEPT ![k] = c] /\ Succeed
        /\ UNCHANGED <<tracer, handle, sentinelEnded, span, stopped>>
    BY <1>2 DEF CreateContext
  <2>3. QED
    BY <2>1, <2>2, SnapshotStep
<1>3. QED
  BY <1>1, <1>2

LEMMA CloneContextStep ==
  ASSUME Inv, NEW k \in Snapshots, NEW from \in Snapshots, CloneContext(k, from)
  PROVE  Inv'
<1>1. snapshot[from] \in SpanContext /\ IsValid(snapshot[from])
  BY DEF CloneContext, Inv, TypeOK, ContextsAreValid
<1>2. QED
  BY <1>1, SnapshotStep DEF CloneContext

LEMMA DestroyContextStep ==
  ASSUME Inv, NEW k \in Snapshots, DestroyContext(k)
  PROVE  Inv'
BY SnapshotStep DEF DestroyContext

--------------------------------------------------------------------------------
(* otel_tracer_provider_get_tracer, otel_tracer_destroy and the shutdown of a provider leave
   spans and contexts alone. *)
LEMMA TracerStep ==
  ASSUME Inv,
         \/ \E t \in Tracers, i \in Impls \cup {Noop} : GetTracer(t, i)
         \/ \E t \in Tracers : DestroyTracer(t)
         \/ \E i \in Impls : Stop(i)
  PROVE  Inv'
<1>1. TypeOK'
  <2>1. ASSUME NEW t \in Tracers, NEW i \in Impls \cup {Noop}, GetTracer(t, i) PROVE TypeOK'
    BY <2>1 DEF Inv, TypeOK, GetTracer, Refuse, Fail, Panic, FailSilently, Succeed, objects
  <2>2. ASSUME NEW t \in Tracers, DestroyTracer(t) PROVE TypeOK'
    BY <2>2 DEF Inv, TypeOK, DestroyTracer
  <2>3. ASSUME NEW i \in Impls, Stop(i) PROVE TypeOK'
    BY <2>3 DEF Inv, TypeOK, Stop, objects
  <2>4. QED
    BY <2>1, <2>2, <2>3
<1>2. UNCHANGED <<handle, span, snapshot>> /\ sentinelEnded' = FALSE
  BY DEF GetTracer, DestroyTracer, Stop, Refuse, Panic, objects, Inv, EndedExactlyOnce
<1>3. ContextsAreValid'
  BY <1>2 DEF Inv, ContextsAreValid, IsValid
<1>4. QED
  BY <1>1, <1>2, <1>3, OtherStep

(* Every step keeps the invariant. *)
LEMMA StepInv == Inv /\ [Next]_vars => Inv'
<1> SUFFICES ASSUME Inv, [Next]_vars PROVE Inv'
  OBVIOUS
<1>1. ASSUME NEW t \in Tracers, NEW h \in Handles, NEW p \in Parents, NEW ok \in BOOLEAN,
             StartSpan(t, h, p, ok)
      PROVE  Inv'
  BY <1>1, StartSpanStep
<1>2. ASSUME NEW t \in Tracers, NEW h \in Handles, NEW p \in Parents, NEW k \in ParentContexts,
             NEW ok \in BOOLEAN, StartSpanWithContext(t, h, p, k, ok)
      PROVE  Inv'
  BY <1>2, StartSpanWithContextStep
<1>3. ASSUME NEW h \in Handles, NEW w \in Writes, WriteSpan(h, w) PROVE Inv'
  BY <1>3, AnswerStep DEF WriteSpan
<1>4. ASSUME NEW k \in Snapshots, NEW outIsNull \in BOOLEAN, ReadContext(k, outIsNull) PROVE Inv'
  BY <1>4, AnswerStep DEF ReadContext
<1>5. CASE WrongHandle
  BY <1>5, RefuseStep DEF WrongHandle
<1>6. CASE UNCHANGED vars
  <2>1. TypeOK' /\ ContextsAreValid' /\ sentinelEnded' = FALSE
    BY <1>6 DEF vars, objects, Inv, TypeOK, ContextsAreValid, IsValid, EndedExactlyOnce
  <2>2. QED
    BY <1>6, <2>1, OtherStep DEF vars, objects
<1>7. QED
  BY <1>1, <1>2, <1>3, <1>4, <1>5, <1>6, StartSpanExStep, EndSpanStep, DestroySpanStep,
     GetContextStep, CreateContextStep, CloneContextStep, DestroyContextStep, TracerStep
     DEF Next

(* The invariant holds in every reachable state. *)
LEMMA Invariant == Spec => []Inv
BY InitInv, StepInv, PTL DEF Spec

(* Every variable keeps its type. *)
THEOREM TypeCorrect == Spec => []TypeOK
<1>1. Inv => TypeOK
  BY DEF Inv
<1>2. QED
  BY <1>1, Invariant, PTL

(* A span is ended once and before it is freed, whoever ends or destroys its handle, and the
   shared no-op span is never written (trace.rs:185, 197 and 326). *)
THEOREM EndedExactlyOnceHolds == Spec => []EndedExactlyOnce
<1>1. Inv => EndedExactlyOnce
  BY DEF Inv
<1>2. QED
  BY <1>1, Invariant, PTL

(* An implementation is never handed a parent of another one (trace.rs:918). *)
THEOREM OwnParentsOnlyHolds == Spec => []OwnParentsOnly
<1>1. Inv => OwnParentsOnly
  BY DEF Inv, ParentsAreOwn, OwnParentsOnly
<1>2. QED
  BY <1>1, Invariant, PTL

(* No handle of a span context holds zero ids (trace.rs:405). *)
THEOREM ContextsAreValidHolds == Spec => []ContextsAreValid
<1>1. Inv => ContextsAreValid
  BY DEF Inv
<1>2. QED
  BY <1>1, Invariant, PTL
================================================================================
