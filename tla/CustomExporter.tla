----------------------------- MODULE CustomExporter -----------------------------
(***************************************************************************)
(* An exporter made of the application's C callbacks                       *)
(* (sdk/src/custom_log_exporter.rs; the trace and metric exporters are the *)
(* same machine with a flush callback, and the metric exporter hands its   *)
(* callback a token for the batch, sdk/src/metric_batch.rs).               *)
(*                                                                         *)
(* Processors and readers share the exporter by reference and may call it  *)
(* from several threads.  Export and flush hold a read lock during the     *)
(* whole callback, shutdown the write lock; whoever drops the last         *)
(* reference runs Drop: a shutdown, then state_destroy.                    *)
(***************************************************************************)
EXTENDS Naturals, FiniteSets

CONSTANTS
  Threads,    (* threads of processors, readers and the application *)
  NoThread,   (* nobody                                             *)
  MaxTokens   (* bound: exports that get as far as a batch token    *)

ASSUME CustomExporterAssumption == NoThread \notin Threads /\ MaxTokens \in Nat

VARIABLES
  callbacks,    (* the optional members of the callback table in use  *)
  owned,        (* the processor or reader still has its reference    *)
  flag,         (* the shutdown flag inside the lock                  *)
  readers,      (* threads holding the read lock                      *)
  writer,       (* the thread holding the write lock                  *)
  nextToken,    (* NEXT_BATCH_TOKEN                                   *)
  batches,      (* ACTIVE_BATCHES of each thread                      *)
  shutdowns,    (* how often the shutdown callback was invoked        *)
  destroys,     (* how often state_destroy was due                    *)
  pc            (* where each thread is                               *)

lockVars == <<flag, readers, writer>>
tokenVars == <<nextToken, batches>>
vars == <<callbacks, owned, lockVars, tokenVars, shutdowns, destroys, pc>>

(* The optional members, in the order in which the table declares them. *)
Optional == {"force_flush", "shutdown", "state_destroy"}
Position == [m \in Optional |-> CASE m = "force_flush" -> 3
                                  [] m = "shutdown" -> 4
                                  [] m = "state_destroy" -> 5]

(* A member is read only if the caller's struct_size, in words, covers it. *)
read_callbacks(given, size) == {m \in given : Position[m] <= size}

Init ==
  /\ callbacks = {}
  /\ owned = FALSE
  /\ flag = FALSE
  /\ readers = {}
  /\ writer = NoThread
  /\ nextToken = 1
  /\ batches = [t \in Threads |-> {}]
  /\ shutdowns = 0
  /\ destroys = 0
  /\ pc = [t \in Threads |-> "idle"]

Goto(t, from, to) ==
  /\ pc[t] = from
  /\ pc' = [pc EXCEPT ![t] = to]

InCall == {t \in Threads : pc[t] # "idle"}

(* A call's own reference goes with it; the last one runs Drop. *)
AfterCall(t) == IF owned \/ InCall \ {t} # {} THEN "idle" ELSE "drop_lock"

--------------------------------------------------------------------------------
(* Construction: a table without an export callback, or too short to hold one,
   is refused and the state stays the caller's. *)
new ==
  /\ ~owned /\ destroys = 0 /\ InCall = {}
  /\ owned' = TRUE
  /\ \E given \in SUBSET Optional, size \in 2..5 :
       callbacks' = read_callbacks(given, size)
  /\ UNCHANGED <<lockVars, tokenVars, shutdowns, destroys, pc>>

(* Bound: a token is left for every export that may get one. *)
export(t) ==
  /\ owned
  /\ nextToken + Cardinality({u \in Threads : pc[u] = "export_lock"}) <= MaxTokens
  /\ Goto(t, "idle", "export_lock")
  /\ UNCHANGED <<callbacks, owned, lockVars, tokenVars, shutdowns, destroys>>

(* Fault: the flag is not looked at under the lock. *)
ExportUnchecked(t) ==
  /\ writer = NoThread
  /\ Goto(t, "export_lock", "exporting")
  /\ readers' = readers \cup {t}
  /\ batches' = [batches EXCEPT ![t] = @ \cup {nextToken}]
  /\ nextToken' = nextToken + 1
  /\ UNCHANGED <<callbacks, owned, flag, writer, shutdowns, destroys>>

(* The read lock is taken; the callback runs unless shutdown came first. *)
ExportLock(t) ==
  /\ writer = NoThread
  /\ pc[t] = "export_lock"
  /\ \/ /\ flag
        /\ Goto(t, "export_lock", AfterCall(t))
        /\ UNCHANGED <<readers, tokenVars>>
     \/ /\ ~flag
        /\ Goto(t, "export_lock", "exporting")
        /\ readers' = readers \cup {t}
        /\ batches' = [batches EXCEPT ![t] = @ \cup {nextToken}]
        /\ nextToken' = nextToken + 1
  /\ UNCHANGED <<callbacks, owned, flag, writer, shutdowns, destroys>>

(* Fault: the token survives its callback. *)
ExportDoneKeepsToken(t) ==
  /\ Goto(t, "exporting", AfterCall(t))
  /\ readers' = readers \ {t}
  /\ UNCHANGED <<callbacks, owned, flag, writer, tokenVars, shutdowns, destroys>>

(* The token dies, then the lock is released. *)
ExportDone(t) ==
  /\ Goto(t, "exporting", AfterCall(t))
  /\ batches' = [batches EXCEPT ![t] = {}]
  /\ readers' = readers \ {t}
  /\ UNCHANGED <<callbacks, owned, flag, writer, nextToken, shutdowns, destroys>>

force_flush(t) ==
  /\ owned
  /\ Goto(t, "idle", "flush_lock")
  /\ UNCHANGED <<callbacks, owned, lockVars, tokenVars, shutdowns, destroys>>

FlushLock(t) ==
  /\ writer = NoThread
  /\ pc[t] = "flush_lock"
  /\ \/ /\ flag \/ "force_flush" \notin callbacks
        /\ Goto(t, "flush_lock", AfterCall(t))
        /\ UNCHANGED readers
     \/ /\ ~flag /\ "force_flush" \in callbacks
        /\ Goto(t, "flush_lock", "flushing")
        /\ readers' = readers \cup {t}
  /\ UNCHANGED <<callbacks, owned, flag, writer, tokenVars, shutdowns, destroys>>

FlushDone(t) ==
  /\ Goto(t, "flushing", AfterCall(t))
  /\ readers' = readers \ {t}
  /\ UNCHANGED <<callbacks, owned, flag, writer, tokenVars, shutdowns, destroys>>

--------------------------------------------------------------------------------
shutdown(t) ==
  /\ owned
  /\ Goto(t, "idle", "shutdown_lock")
  /\ UNCHANGED <<callbacks, owned, lockVars, tokenVars, shutdowns, destroys>>

(* Fault: the flag does not stop a second shutdown. *)
TakeWriteLockAgain(t, from, running, done) ==
  /\ readers = {} /\ writer = NoThread
  /\ flag' = TRUE
  /\ Goto(t, from, running)
  /\ writer' = t
  /\ shutdowns' = shutdowns + 1
  /\ UNCHANGED <<callbacks, owned, readers, tokenVars, destroys>>

(* The write lock is taken, the flag set and the callback runs; a second shutdown
   goes on to `done`. *)
TakeWriteLock(t, from, running, done) ==
  /\ readers = {} /\ writer = NoThread
  /\ pc[t] = from
  /\ flag' = TRUE
  /\ IF flag \/ "shutdown" \notin callbacks
       THEN Goto(t, from, done) /\ UNCHANGED <<writer, shutdowns>>
       ELSE /\ Goto(t, from, running)
            /\ writer' = t
            /\ shutdowns' = shutdowns + 1
  /\ UNCHANGED <<callbacks, owned, readers, tokenVars, destroys>>

ShutdownLock(t) == TakeWriteLock(t, "shutdown_lock", "shutting_down", AfterCall(t))

ShutdownDone(t) ==
  /\ Goto(t, "shutting_down", AfterCall(t))
  /\ writer' = NoThread
  /\ UNCHANGED <<callbacks, owned, flag, readers, tokenVars, shutdowns, destroys>>

(* The processor, the reader or the exporter's handle goes.  If a call is under
   way elsewhere, Drop is left to it. *)
drop(t) ==
  /\ owned
  /\ owned' = FALSE
  /\ Goto(t, "idle", IF InCall = {} THEN "drop_lock" ELSE "idle")
  /\ UNCHANGED <<callbacks, lockVars, tokenVars, shutdowns, destroys>>

DropShutdown(t) == TakeWriteLock(t, "drop_lock", "drop_shutting_down", "destroy")

DropShutdownDone(t) ==
  /\ Goto(t, "drop_shutting_down", "destroy")
  /\ writer' = NoThread
  /\ UNCHANGED <<callbacks, owned, flag, readers, tokenVars, shutdowns, destroys>>

(* state_destroy runs if the table has one. *)
Destroy(t) ==
  /\ Goto(t, "destroy", "idle")
  /\ destroys' = destroys + 1
  /\ UNCHANGED <<callbacks, owned, lockVars, tokenVars, shutdowns>>

(* otel_metric_batch_visit looks a token up on the calling thread only. *)
active_batch(t, token) == token \in batches[t]

--------------------------------------------------------------------------------
Call(t) == export(t) \/ force_flush(t) \/ shutdown(t) \/ drop(t)

Reader(t) == ExportLock(t) \/ ExportDone(t) \/ FlushLock(t) \/ FlushDone(t)
Writer(t) == ShutdownLock(t) \/ DropShutdown(t)
Ending(t) == ShutdownDone(t) \/ DropShutdownDone(t) \/ Destroy(t)

Next == new \/ \E t \in Threads : Call(t) \/ Reader(t) \/ Writer(t) \/ Ending(t)

Spec == Init /\ [][Next]_vars

(* Callbacks return, and std's RwLock admits no new reader while a writer waits;
   nobody has to call the exporter or to drop it. *)
Fairness ==
  \A t \in Threads :
    WF_vars(Reader(t)) /\ SF_vars(Writer(t)) /\ WF_vars(Ending(t))

FairSpec == Spec /\ Fairness

--------------------------------------------------------------------------------
(* Properties. *)

(* Every variable holds a value of its kind (CustomLogExporter,
   custom_log_exporter.rs:153). *)
TypeOK ==
  /\ callbacks \subseteq Optional
  /\ owned \in BOOLEAN /\ flag \in BOOLEAN
  /\ readers \subseteq Threads
  /\ writer \in Threads \cup {NoThread}
  /\ nextToken \in Nat
  /\ batches \in [Threads -> SUBSET Nat]
  /\ shutdowns \in 0..1 /\ destroys \in 0..1
  /\ pc \in [Threads -> {"idle", "export_lock", "exporting", "flush_lock", "flushing",
                         "shutdown_lock", "shutting_down", "drop_lock",
                         "drop_shutting_down", "destroy"}]

Exporting == {t \in Threads : pc[t] \in {"exporting", "flushing"}}
Stopping == {t \in Threads : pc[t] \in {"shutting_down", "drop_shutting_down"}}

(* Once the shutdown callback has begun, no export or flush callback runs, not
   even one that was called before (custom_log_exporter.rs:16-22). *)
ShutdownIsLast == shutdowns > 0 => Exporting = {}

(* state_destroy comes after every callback has returned and after the one
   shutdown callback, whoever drops the exporter (custom_log_exporter.rs:271). *)
DestroyComesLast ==
  destroys > 0 =>
    /\ Exporting \cup Stopping = {}
    /\ shutdowns = IF "shutdown" \in callbacks THEN 1 ELSE 0
    /\ ~owned

(* A batch token is honoured on the thread of its export callback only, and only
   until that callback returns (metric_batch.rs:221). *)
TokensAreScoped ==
  \A t \in Threads : \A token \in 1..MaxTokens :
    active_batch(t, token) =>
      /\ pc[t] = "exporting"
      /\ \A u \in Threads \ {t} : ~active_batch(u, token)

(* A dropped exporter gives the callback state back (custom_log_exporter.rs:271). *)
StateReleased == (~owned /\ InCall # {}) ~> destroys = 1
===============================================================================
