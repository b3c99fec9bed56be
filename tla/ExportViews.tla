------------------------------- MODULE ExportViews -------------------------------
(***************************************************************************)
(* The views a custom exporter's callback reads (sdk/src/log_export_view.rs *)
(* and sdk/src/span_export_view.rs): a batch of records is converted into  *)
(* structures that point at one another, shown to the callback and freed.  *)
(*                                                                         *)
(* A Vec is a buffer on the heap.  Pushing to it may move it: the buffer   *)
(* it had is freed, and a pointer into it dangles.  Everything a view      *)
(* refers to is therefore pushed first and pointed at when every Vec has   *)
(* its final length; only a buffer whose Vec has ceased to grow may be     *)
(* pointed at before.                                                      *)
(***************************************************************************)
EXTENDS Naturals, Sequences

CONSTANTS
  Scopes,      (* instrumentation scopes, by address                       *)
  MaxRecords,  (* OTEL_LOG_EXPORT_MAX_RECORDS, OTEL_SPAN_EXPORT_MAX_SPANS  *)
  MaxBatch,    (* bound: records of a batch, past the limit                *)
  Null

(* Logs are exported with their values; spans with events, too, and with links and trace
   states, which are kept as the events are. *)
Kinds == {"logs", "spans"}

(* A record of a batch: its scope, whether its first attribute is an array that needs a
   buffer of its own, and whether everything in it can be converted. *)
Records == [scope : Scopes, array : BOOLEAN, convertible : BOOLEAN]

VARIABLES
  kind,        (* what is exported                                         *)
  batch,       (* the records upstream lends                               *)
  done,        (* how many have been converted                             *)
  heap,        (* buffers: their contents, or Freed                        *)
  vec,         (* the buffer of each Vec                                   *)
  keys,        (* scopes met so far, of logs                               *)
  indices,     (* the scope view of each record                            *)
  phase        (* "converting", "settled", "shown", "failed", "dropped"    *)

vars == <<kind, batch, done, heap, vec, keys, indices, phase>>

(* What is left of a buffer that is freed: nothing to read. *)
Freed == <<>>

Init ==
  /\ kind \in Kinds
  /\ batch \in UNION {[1..n -> Records] : n \in 0..MaxBatch}
  /\ done = 0
  /\ heap = [i \in 1..5 |-> <<>>]
  /\ vec = [scopes |-> 1, scopeAttributes |-> 2, records |-> 3, recordAttributes |-> 4,
            events |-> 5]
  /\ keys = <<>> /\ indices = <<>>
  /\ phase = "converting"

-----------------------------------------------------------------------------
(* Storage under construction: [heap, vec]. *)

(* A buffer of its own, with its final length. *)
Allocate(s, contents) == [s EXCEPT !.heap = Append(@, contents)]
Newest(s) == Len(s.heap)

(* try_push: the buffer may have to move. *)
Push(s, v, item, moves) ==
  LET old == s.vec[v]
      longer == Append(s.heap[old], item)
  IN  IF moves
        THEN [heap |-> Append([s.heap EXCEPT ![old] = Freed], longer),
              vec |-> [s.vec EXCEPT ![v] = Len(s.heap) + 1]]
        ELSE [s EXCEPT !.heap[old] = longer]

(* convert_attribute_parts: an array's backing is pushed to a Vec of Vecs, and what is
   pointed at is the inner buffer, which stays where it is. *)
Converted(s, owner, array) ==
  LET backed == IF array THEN Allocate(s, <<[of |-> owner]>>) ELSE s
      value == IF array THEN [to |-> Newest(backed), at |-> 1] ELSE Null
  IN  Allocate(backed, <<[of |-> owner, value |-> value]>>)

NoView(owner) == [of |-> owner, attributes |-> Null, scope |-> Null, events |-> Null]

(* Where the record's scope view is: logs look the scope up by its address. *)
Known(r) == {i \in DOMAIN keys : keys[i] = r.scope /\ kind = "logs"}

ScopePushed(s, r, moves) ==
  LET converted == Converted(s, r.scope, FALSE)
      attributes == Newest(converted)
      viewed == Push(converted, "scopes", NoView(r.scope), moves)
  IN  Push(viewed, "scopeAttributes", attributes, moves)

EventsPushed(s, i, moves) ==
  IF kind = "logs" THEN s
  ELSE LET events == Allocate(s, <<NoView(i)>>)
       IN  Push(events, "events", Newest(events), moves)

RecordPushed(s, i, r, moves) ==
  LET converted == Converted(s, i, r.array)
      attributes == Newest(converted)
      viewed == Push(converted, "records", NoView(i), moves)
  IN  EventsPushed(Push(viewed, "recordAttributes", attributes, moves), i, moves)

(* Logs are counted as they are converted, spans before. *)
PastLimit ==
  IF kind = "logs" THEN done + 1 > MaxRecords ELSE Len(batch) > MaxRecords

(* What fails the batch: the limit, or a record that cannot be converted. *)
Fails == PastLimit \/ ~batch[done + 1].convertible

(* convert_batch: the next record. *)
Convert ==
  /\ phase = "converting"
  /\ done < Len(batch)
  /\ ~Fails
  /\ LET i == done + 1
         r == batch[i]
     IN  \E scopesMove, recordsMove \in BOOLEAN :
              LET s == [heap |-> heap, vec |-> vec]
                  scoped == IF Known(r) = {} THEN ScopePushed(s, r, scopesMove) ELSE s
                  pushed == RecordPushed(scoped, i, r, recordsMove)
              IN  /\ heap' = pushed.heap /\ vec' = pushed.vec
                  /\ keys' = IF Known(r) = {} THEN Append(keys, r.scope) ELSE keys
                  /\ indices' = Append(indices, IF Known(r) = {} THEN Len(keys) + 1
                                                ELSE CHOOSE j \in Known(r) : TRUE)
                  /\ done' = i
  /\ UNCHANGED <<kind, batch, phase>>

(* What was allocated is dropped and the callback is not called. *)
ConvertFails ==
  /\ phase = "converting"
  /\ done < Len(batch)
  /\ Fails
  /\ heap' = [b \in DOMAIN heap |-> Freed]
  /\ phase' = "failed"
  /\ UNCHANGED <<kind, batch, done, vec, keys, indices>>

-----------------------------------------------------------------------------
Contents(v) == heap[vec[v]]

(* The inner buffer the i-th entry of a Vec of Vecs owns. *)
Inner(v, i) == Contents(v)[i]

SettledScopes ==
  [i \in DOMAIN Contents("scopes") |->
     [Contents("scopes")[i] EXCEPT !.attributes = Inner("scopeAttributes", i)]]

(* Fault: scopes are taken to be as many as records. *)
SettledRecordsByPosition ==
  [i \in DOMAIN Contents("records") |->
     [Contents("records")[i] EXCEPT
        !.attributes = Inner("recordAttributes", i),
        !.scope = [to |-> vec["scopes"], at |-> i],
        !.events = IF kind = "spans" THEN Inner("events", i) ELSE Null]]

SettledRecords ==
  [i \in DOMAIN Contents("records") |->
     [Contents("records")[i] EXCEPT
        !.attributes = Inner("recordAttributes", i),
        !.scope = [to |-> vec["scopes"], at |-> indices[i]],
        !.events = IF kind = "spans" THEN Inner("events", i) ELSE Null]]

(* Every Vec has its final length: pointers are taken. *)
Settle ==
  /\ phase = "converting"
  /\ done = Len(batch)
  /\ heap' = [heap EXCEPT ![vec["scopes"]] = SettledScopes, ![vec["records"]] = SettledRecords]
  /\ phase' = "settled"
  /\ UNCHANGED <<kind, batch, done, vec, keys, indices>>

(* The exporter calls the application back with the batch's view. *)
Show ==
  /\ phase = "settled"
  /\ phase' = "shown"
  /\ UNCHANGED <<kind, batch, done, heap, vec, keys, indices>>

(* The callback has returned: the storage is dropped. *)
Drop ==
  /\ phase = "shown"
  /\ heap' = [b \in DOMAIN heap |-> Freed]
  /\ phase' = "dropped"
  /\ UNCHANGED <<kind, batch, done, vec, keys, indices>>

Next == Convert \/ ConvertFails \/ Settle \/ Show \/ Drop

Spec == Init /\ [][Next]_vars

-----------------------------------------------------------------------------
(* What the callback finds behind a pointer. *)
Read(p) == IF p.at \in DOMAIN heap[p.to] THEN heap[p.to][p.at] ELSE Null

First(buffer) == Read([to |-> buffer, at |-> 1])
IsOf(view, owner) == view # Null /\ view.of = owner

(* What the callback reads through the view (log_export_view.rs:855-982,
   span_export_view.rs:483-604) are the records of the batch, all and in order, each with
   its own attributes, arrays and events and its own scope with that scope's attributes,
   whichever buffers moved while the batch was converted. *)
ViewsReadTheirRecords ==
  phase = "shown" =>
    /\ Len(Contents("records")) = Len(batch)
    /\ \A i \in DOMAIN batch :
         LET record == Read([to |-> vec["records"], at |-> i])
             attribute == First(record.attributes)
             scope == Read(record.scope)
         IN  /\ IsOf(record, i)
             /\ IsOf(attribute, i)
             /\ batch[i].array => IsOf(Read(attribute.value), i)
             /\ IsOf(scope, batch[i].scope)
             /\ IsOf(First(scope.attributes), batch[i].scope)
             /\ kind = "spans" => IsOf(First(record.events), i)

(* A callback sees whole batches only: a record that cannot be converted, or one past the
   limit, keeps the batch from it (log_export_view.rs:855-860, span_export_view.rs:487-491),
   and nothing of the batch is left on the heap then. *)
WholeBatchOrNothing ==
  LET whole == Len(batch) <= MaxRecords /\ \A i \in DOMAIN batch : batch[i].convertible
  IN  /\ phase \in {"settled", "shown", "dropped"} => whole
      /\ phase = "failed" => ~whole /\ \A b \in DOMAIN heap : heap[b] = Freed
===============================================================================
