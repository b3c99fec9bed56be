------------------------------- MODULE Instruments -------------------------------
(***************************************************************************)
(* Meters and instruments: the typed C functions of api/src/metrics.rs and *)
(* the SDK's table behind them, sdk/src/metrics_vtable.rs.  Both libraries *)
(* repeat, instrument by instrument, which numbers go with which kind; they *)
(* meet in untyped pointers, so nothing but the agreement of their tables  *)
(* keeps a value of one type from being read as another.                   *)
(*                                                                         *)
(* An observable's callback state is reference counted: the handle has one *)
(* reference, and one is handed to the SDK with the creation, which owes   *)
(* its release from then on, whatever becomes of the instrument.           *)
(*                                                                         *)
(* The registered table may be an older SDK's: entries were appended over  *)
(* time, and struct_size tells how many there are.                         *)
(***************************************************************************)
EXTENDS Naturals, Sequences, FiniteSets

CONSTANTS
  MaxHandles,  (* bound: handles made                                      *)
  MaxObjects,  (* bound: boxes and callback states behind them             *)
  Null

(* The typed handles of the C API: the kind and number their creation asks for, the table
   entry they record with, the trampoline they register and the type of their callback. *)
SyncRow(kind, number, record) ==
  [kind |-> kind, number |-> number, record |-> record, trampoline |-> Null, callback |-> Null]
ObservableRow(kind, number, trampoline, callback) ==
  [kind |-> kind, number |-> number, record |-> Null, trampoline |-> trampoline,
   callback |-> callback]

SyncRows ==
  {SyncRow("Counter", "U64", "u64"),       SyncRow("Counter", "F64", "f64"),
   SyncRow("UpDownCounter", "I64", "i64"), SyncRow("UpDownCounter", "F64", "f64"),
   SyncRow("Gauge", "U64", "u64"),         SyncRow("Gauge", "I64", "i64"),
   SyncRow("Gauge", "F64", "f64"),
   SyncRow("Histogram", "U64", "u64"),     SyncRow("Histogram", "F64", "f64")}

ObservableRows ==
  {ObservableRow("ObservableCounter", "U64", "u64", "u64"),
   ObservableRow("ObservableCounter", "F64", "f64", "f64"),
   ObservableRow("ObservableUpDownCounter", "I64", "i64", "i64"),
   ObservableRow("ObservableUpDownCounter", "F64", "f64", "f64"),
   ObservableRow("ObservableGauge", "U64", "u64", "u64"),
   ObservableRow("ObservableGauge", "I64", "i64", "i64"),
   ObservableRow("ObservableGauge", "F64", "f64", "f64")}

Rows == SyncRows \cup ObservableRows

(* define_bound_instrument: the bound handles' own entries. *)
BoundRecord(row) ==
  CASE row.kind \in {"Counter", "Histogram"} /\ row.number = "U64" -> "u64"
    [] row.kind \in {"Counter", "Histogram"} /\ row.number = "F64" -> "f64"
    [] OTHER -> Null

(* The SDK's tables.  SdkMetricInstrument: what a creation may ask for. *)
SyncVariants ==
  {<<"Counter", "U64">>, <<"Counter", "F64">>, <<"UpDownCounter", "I64">>,
   <<"UpDownCounter", "F64">>, <<"Gauge", "U64">>, <<"Gauge", "I64">>, <<"Gauge", "F64">>,
   <<"Histogram", "U64">>, <<"Histogram", "F64">>}

(* The observer contexts of the closures made for observables. *)
ObserverContexts ==
  [u64 |-> {<<"ObservableCounter", "U64">>, <<"ObservableGauge", "U64">>},
   i64 |-> {<<"ObservableUpDownCounter", "I64">>, <<"ObservableGauge", "I64">>},
   f64 |-> {<<"ObservableCounter", "F64">>, <<"ObservableUpDownCounter", "F64">>,
            <<"ObservableGauge", "F64">>}]

Numbers == {"u64", "i64", "f64"}
ObserverContext(variant) == CHOOSE n \in Numbers : variant \in ObserverContexts[n]
Supported(variant) ==
  variant \in SyncVariants \/ \E n \in Numbers : variant \in ObserverContexts[n]

(* Fault: a gauge is forgotten in the macro's list. *)
RecordVariantsWithoutGauge ==
  [u64 |-> {<<"Counter", "U64">>, <<"Gauge", "U64">>, <<"Histogram", "U64">>},
   i64 |-> {<<"UpDownCounter", "I64">>},
   f64 |-> {<<"Counter", "F64">>, <<"UpDownCounter", "F64">>, <<"Gauge", "F64">>,
            <<"Histogram", "F64">>}]

RecordVariants ==
  [u64 |-> {<<"Counter", "U64">>, <<"Gauge", "U64">>, <<"Histogram", "U64">>},
   i64 |-> {<<"UpDownCounter", "I64">>, <<"Gauge", "I64">>},
   f64 |-> {<<"Counter", "F64">>, <<"UpDownCounter", "F64">>, <<"Gauge", "F64">>,
            <<"Histogram", "F64">>}]

BindVariants ==
  {<<"Counter", "U64">>, <<"Counter", "F64">>, <<"Histogram", "U64">>, <<"Histogram", "F64">>}

BoundRecordVariants ==
  [u64 |-> {<<"Counter", "U64">>, <<"Histogram", "U64">>},
   f64 |-> {<<"Counter", "F64">>, <<"Histogram", "F64">>}]

VARIABLES
  level,     (* extensions of the table: 1 scopes, 2 creation status, 3 binding *)
  handles,   (* every handle made: what it is, its row, context and state  *)
  contexts,  (* the SDK's boxes: meters, instruments, bound instruments    *)
  states,    (* callback states: the handle's reference, the SDK's, ...    *)
  call,      (* the creation under way, or Null                            *)
  outcome    (* how the last call ended                                    *)

vars == <<level, handles, contexts, states, call, outcome>>

Init ==
  /\ level \in 0..3
  /\ handles = <<>> /\ contexts = <<>> /\ states = <<>>
  /\ call = Null
  /\ outcome = "none"

Idle == call = Null
HasRoom == Len(handles) < MaxHandles /\ Len(contexts) + Len(states) < MaxObjects
Variant(row) == <<row.kind, row.number>>

IsA(h, what) == h \in DOMAIN handles /\ handles[h].what = what /\ handles[h].live

NewHandle(what, row, ctx, state) ==
  handles' = Append(handles, [what |-> what, row |-> row, ctx |-> ctx, state |-> state,
                              live |-> TRUE])

(* Box::into_raw; 0 is the NULL context of a handle without an implementation. *)
NewContext(what, row) == contexts' = Append(contexts, [what |-> what, row |-> row, freed |-> 0])
NextContext == Len(contexts) + 1

Ends(result) == outcome' = result

-----------------------------------------------------------------------------
(* Meters. *)

(* validate_scope_attributes, or the SDK's own look at them, refuses; or the table is too
   old for a scope with attributes. *)
get_meter_fails(attributes) ==
  /\ Idle
  /\ Ends(IF attributes /\ level < 1 THEN "unsupported" ELSE "refused")
  /\ UNCHANGED <<level, handles, contexts, states, call>>

(* No provider is registered. *)
get_meter_noop ==
  /\ Idle /\ HasRoom
  /\ NewHandle("meter", Null, 0, 0)
  /\ Ends("ok")
  /\ UNCHANGED <<level, contexts, states, call>>

get_meter(attributes) ==
  /\ Idle /\ HasRoom
  /\ attributes => level >= 1
  /\ NewContext("meter", Null)
  /\ NewHandle("meter", Null, NextContext, 0)
  /\ Ends("ok")
  /\ UNCHANGED <<level, states, call>>

-----------------------------------------------------------------------------
(* Creation of an instrument. *)

(* validate_instrument_config: the name, the options' size, description and unit, and the
   boundaries, which only a histogram may have. *)
create_refused(m, row) ==
  /\ Idle
  /\ IsA(m, "meter")
  /\ Ends("refused")
  /\ UNCHANGED <<level, handles, contexts, states, call>>

Observable(row) == row \in ObservableRows

(* An observable's state, with the handle's reference and perhaps the SDK's. *)
NewState(row, lease) ==
  states' = IF Observable(row)
            THEN Append(states, [row |-> row, handle |-> TRUE, lease |-> lease, released |-> 0])
            ELSE states
StateOf(row) == IF Observable(row) THEN Len(states) + 1 ELSE 0

create_noop(m, row) ==
  /\ Idle /\ HasRoom
  /\ IsA(m, "meter")
  /\ handles[m].ctx = 0
  /\ NewState(row, "none")
  /\ NewHandle("instrument", row, 0, StateOf(row))
  /\ Ends("ok")
  /\ UNCHANGED <<level, contexts, call>>

(* create_instrument, create_observable: over to the SDK. *)
create(m, row) ==
  /\ Idle /\ HasRoom
  /\ IsA(m, "meter")
  /\ handles[m].ctx # 0
  /\ NewState(row, "handed")
  /\ call' = [at |-> "entered", row |-> row, ctx |-> 0, state |-> StateOf(row)]
  /\ UNCHANGED <<level, handles, contexts, outcome>>

At(at) == ~Idle /\ call.at = at
Moved(at) == call' = [call EXCEPT !.at = at]

Lease(s, lease, released) ==
  states' = IF s = 0 THEN states
            ELSE [states EXCEPT ![s].lease = lease, ![s].released = @ + released]

(* callback_lease: the reference has an owner from here on. *)
TakeLease ==
  /\ At("entered")
  /\ Lease(call.state, "leased", 0)
  /\ Moved("leased")
  /\ UNCHANGED <<level, handles, contexts, outcome>>

(* A check of the SDK's own fails, or something panics before upstream has the closure: the
   lease is dropped on the way out. *)
SdkFails ==
  /\ At("leased")
  /\ Lease(call.state, "none", 1)
  /\ Moved("returned")
  /\ UNCHANGED <<level, handles, contexts, outcome>>

(* The instrument is built; an observable's lease moves into the closure upstream keeps. *)
SdkBuilds ==
  /\ At("leased")
  /\ Supported(Variant(call.row))
  /\ NewContext("instrument", call.row)
  /\ Lease(call.state, "closure", 0)
  /\ call' = [call EXCEPT !.at = "returned", !.ctx = NextContext]
  /\ UNCHANGED <<level, handles, outcome>>

CreateReturns ==
  /\ At("returned") /\ call.ctx # 0
  /\ NewHandle("instrument", call.row, call.ctx, call.state)
  /\ Ends("ok")
  /\ call' = Null
  /\ UNCHANGED <<level, contexts, states>>

(* The user data stays the caller's; an old table cannot say what was wrong. *)
CreateReturnsNull ==
  /\ At("returned") /\ call.ctx = 0
  /\ states' = IF call.state = 0 THEN states ELSE [states EXCEPT ![call.state].handle = FALSE]
  /\ Ends(IF level >= 2 THEN "failed" ELSE "invalid_config")
  /\ call' = Null
  /\ UNCHANGED <<level, handles, contexts>>

-----------------------------------------------------------------------------
(* Binding. *)

bind_noop(i) ==
  /\ Idle /\ HasRoom
  /\ IsA(i, "instrument")
  /\ handles[i].ctx = 0
  /\ BoundRecord(handles[i].row) # Null
  /\ NewHandle("bound", handles[i].row, 0, 0)
  /\ Ends("ok")
  /\ UNCHANGED <<level, contexts, states, call>>

Bindable(i) ==
  /\ IsA(i, "instrument")
  /\ handles[i].ctx # 0
  /\ BoundRecord(handles[i].row) # Null

bind_unsupported(i) ==
  /\ Idle
  /\ Bindable(i)
  /\ level < 3
  /\ Ends("unsupported")
  /\ UNCHANGED <<level, handles, contexts, states, call>>

(* instrument_bind of the SDK. *)
bind(i) ==
  /\ Idle /\ HasRoom
  /\ Bindable(i)
  /\ level = 3
  /\ IF Variant(contexts[handles[i].ctx].row) \in BindVariants
       THEN /\ NewContext("bound", handles[i].row)
            /\ NewHandle("bound", handles[i].row, NextContext, 0)
            /\ Ends("ok")
       ELSE Ends("mismatch") /\ UNCHANGED <<handles, contexts>>
  /\ UNCHANGED <<level, states, call>>

(* Fault: a status other than Ok returns at once. *)
bind_fails_with_context_leaking(i) ==
  /\ Idle /\ HasRoom
  /\ Bindable(i)
  /\ level = 3
  /\ NewContext("bound", handles[i].row)
  /\ Ends("failed")
  /\ UNCHANGED <<level, handles, states, call>>

(* An SDK that made the box and reports an error all the same: it is freed. *)
bind_fails_with_context(i) ==
  /\ Idle /\ HasRoom
  /\ Bindable(i)
  /\ level = 3
  /\ contexts' = Append(contexts, [what |-> "bound", row |-> handles[i].row, freed |-> 1])
  /\ Ends("failed")
  /\ UNCHANGED <<level, handles, states, call>>

-----------------------------------------------------------------------------
(* Measurements. *)

(* Attributes are looked at by the SDK, before the instrument. *)
record(i, readable) ==
  /\ Idle
  /\ IsA(i, "instrument")
  /\ handles[i].row \in SyncRows
  /\ Ends(IF handles[i].ctx = 0 THEN "ok"
          ELSE IF ~readable THEN "refused"
          ELSE IF Variant(contexts[handles[i].ctx].row) \in RecordVariants[handles[i].row.record]
          THEN "ok" ELSE "mismatch")
  /\ UNCHANGED <<level, handles, contexts, states, call>>

bound_record(b) ==
  /\ Idle
  /\ IsA(b, "bound")
  /\ Ends(IF \/ handles[b].ctx = 0
             \/ Variant(contexts[handles[b].ctx].row)
                  \in BoundRecordVariants[BoundRecord(handles[b].row)]
          THEN "ok" ELSE "mismatch")
  /\ UNCHANGED <<level, handles, contexts, states, call>>

(* A collection runs the closure: the trampoline finds the callback of its own type or
   none, registers the observer under its own number, and the callback's observe function
   reads the closure's observer context as one of that number. *)
collect(s, readable) ==
  LET row == states[s].row
  IN  /\ Idle
      /\ states[s].lease = "closure"
      /\ states[s].handle
      /\ Ends(CASE row.trampoline # row.callback -> "silent"
                [] ~readable -> "refused"
                [] row.trampoline # ObserverContext(Variant(row)) -> "confused"
                [] OTHER -> "ok")
      /\ UNCHANGED <<level, handles, contexts, states, call>>

-----------------------------------------------------------------------------
(* meter_free, instrument_free, bound_instrument_free, then the handle; an observable is
   disabled and its reference dropped. *)
Freed(ctx) == IF ctx = 0 THEN contexts ELSE [contexts EXCEPT ![ctx].freed = @ + 1]

destroy(h) ==
  /\ Idle
  /\ h \in DOMAIN handles /\ handles[h].live
  /\ handles' = [handles EXCEPT ![h].live = FALSE]
  /\ contexts' = Freed(handles[h].ctx)
  /\ states' = IF handles[h].state = 0 THEN states
               ELSE [states EXCEPT ![handles[h].state].handle = FALSE]
  /\ UNCHANGED <<level, call, outcome>>

(* Upstream's pipeline goes, and its closures with it. *)
DropPipeline ==
  /\ Idle
  /\ \E s \in DOMAIN states : states[s].lease = "closure"
  /\ states' = [s \in DOMAIN states |->
                  IF states[s].lease = "closure"
                  THEN [states[s] EXCEPT !.lease = "none", !.released = @ + 1]
                  ELSE states[s]]
  /\ UNCHANGED <<level, handles, contexts, call, outcome>>

Meter ==
  \/ get_meter_noop
  \/ \E attributes \in BOOLEAN : get_meter(attributes) \/ get_meter_fails(attributes)
Create ==
  \E m \in DOMAIN handles, row \in Rows :
     create(m, row) \/ create_noop(m, row) \/ create_refused(m, row)
Creating == TakeLease \/ SdkFails \/ SdkBuilds \/ CreateReturns \/ CreateReturnsNull
Use ==
  \E h \in DOMAIN handles :
     \/ bind(h) \/ bind_noop(h) \/ bind_unsupported(h) \/ bind_fails_with_context(h)
     \/ record(h, TRUE) \/ record(h, FALSE) \/ bound_record(h) \/ destroy(h)
Collect == \E s \in DOMAIN states, readable \in BOOLEAN : collect(s, readable)

Next == Meter \/ Create \/ Creating \/ Use \/ Collect \/ DropPipeline

Spec == Init /\ [][Next]_vars

-----------------------------------------------------------------------------
(* The tables of both libraries agree: no typed call on a live handle of its type is told
   that its number does not match (metrics_vtable.rs:609), no callback is passed over by
   its trampoline (metrics.rs:1133) and no observer context is read as one of another
   number (metrics_vtable.rs:662). *)
TypesAgree == outcome \notin {"mismatch", "silent", "confused"}

(* A callback state handed to the SDK is released exactly once: when its creation has
   failed, whichever step failed it (metrics_vtable.rs:308-311), or when the pipeline drops
   the closure, and never while a closure may call it. *)
StateReleasedOnce ==
  \A s \in DOMAIN states :
    LET given == states[s].lease # "none" \/ states[s].released > 0
    IN  /\ states[s].released = 1 <=> given /\ states[s].lease = "none"
        /\ states[s].released <= 1
        /\ \A h \in DOMAIN handles :
             handles[h].state = s /\ handles[h].ctx # 0 => given
        /\ Idle /\ ~(\E h \in DOMAIN handles : handles[h].state = s) => states[s].released = 1

(* Between calls every box of the SDK that was not freed belongs to one live handle, and no
   box is freed twice: neither a failed creation nor a binding that reports an error leaves
   one behind (metrics.rs:846-851). *)
ContextsHaveOneOwner ==
  Idle => \A c \in DOMAIN contexts :
    /\ contexts[c].freed <= 1
    /\ Cardinality({h \in DOMAIN handles : handles[h].live /\ handles[h].ctx = c})
         = 1 - contexts[c].freed
===============================================================================
