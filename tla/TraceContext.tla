------------------------------ MODULE TraceContext ------------------------------
(***************************************************************************)
(* W3C Trace Context (api/src/propagation.rs), as operators: the headers   *)
(* traceparent and tracestate, and the span contexts made of them.         *)
(*                                                                         *)
(* A traceparent is [length, separated, version, trace, span, flags];      *)
(* "nothex" stands for a field that is not lowercase hexadecimal.          *)
(* A tracestate is a sequence of list members, [key, value] or Blank, with *)
(* key a sequence of what "@" separates.                                   *)
(***************************************************************************)
EXTENDS Naturals, SequencesExt

CONSTANTS
  Blank,       (* a member of nothing but blanks                           *)
  NoEquals,    (* a member without "="                                     *)
  MaxState,    (* MAX_TRACESTATE_LEN                                       *)
  MaxMembers   (* MAX_TRACESTATE_MEMBERS                                   *)

ASSUME TraceContextAssumption ==
  MaxState \in Nat /\ MaxMembers \in Nat /\ Blank # NoEquals

(* A part of a key: its length, its first character, whether the others are key-char. *)
PartOk(part, longest, first) ==
  part.length \in 1..longest /\ part.first \in first /\ part.rest

is_valid_tracestate_key(key) ==
  \/ Len(key) = 1 /\ PartOk(key[1], 256, {"lower"})
  \/ /\ Len(key) = 2
     /\ PartOk(key[1], 241, {"lower", "digit"})
     /\ PartOk(key[2], 14, {"lower"})

(* A value: its length, whether it is printable without "," and "=", and how it ends. *)
is_valid_tracestate_value(v) == v.length \in 1..256 /\ v.printable /\ ~v.blankEnd

KeyBytes(key) == FoldLeft(LAMBDA n, part : n + part.length, Len(key) - 1, key)
StateMemberBytes(m) ==
  IF m \in {Blank, NoEquals} THEN 1 ELSE KeyBytes(m.key) + 1 + m.value.length
StateBytes(state) ==
  IF state = <<>> THEN 0 ELSE FoldLeft(LAMBDA n, m : n + StateMemberBytes(m), Len(state) - 1, state)

validate_tracestate(state) ==
  LET members == SelectSeq(state, LAMBDA m : m # Blank)
  IN  /\ StateBytes(state) <= MaxState
      /\ Len(members) <= MaxMembers
      /\ \A i \in DOMAIN members :
           /\ members[i] # NoEquals
           /\ is_valid_tracestate_key(members[i].key)
           /\ is_valid_tracestate_value(members[i].value)
           /\ \A j \in 1..(i - 1) : members[j].key # members[i].key

-----------------------------------------------------------------------------
(* otel_trace_propagation_extract: which traceparent names a context. *)
TraceparentOk(p) ==
  /\ p.length # "short"
  /\ p.separated
  /\ p.version \notin {"nothex", "ff"}
  /\ p.version = "00" => p.length = "exact"
  /\ p.length # "run-on"
  /\ p.trace \notin {"nothex", "zero"} /\ p.span \notin {"nothex", "zero"}
  /\ p.flags # "nothex"

(* A tracestate that does not parse is dropped and the context kept. *)
ExtractContext(p, state) ==
  [trace |-> p.trace, span |-> p.span, flags |-> p.flags, remote |-> TRUE,
   state |-> IF validate_tracestate(state) THEN state ELSE <<>>]

(* otel_trace_propagation_inject_traceparent *)
InjectTraceparent(c) ==
  [length |-> "exact", separated |-> TRUE, version |-> "00",
   trace |-> c.trace, span |-> c.span, flags |-> c.flags]

(* otel_trace_propagation_inject_tracestate: as it is stored. *)
InjectTracestate(c) == c.state

(* OtelSpanContext::is_valid *)
IsValid(c) == c.trace # "zero" /\ c.span # "zero"

(* otel_span_context_create: not zero, and a longer tracestate than W3C allows, of any form. *)
CreateOk(trace, span, state, longest) ==
  trace # "zero" /\ span # "zero" /\ StateBytes(state) <= longest
===============================================================================
