-------------------------- MODULE CustomExporter_proofs --------------------------
(* Proofs about CustomExporter for any number of threads: no callback after the shutdown
   callback, state_destroy last, batch tokens scoped to their callback.

   The lock carries the first (readers and the writer are who runs a callback, and a set
   flag keeps readers out), the last reference the second (the thread in Drop is alone),
   the counter of tokens the third. *)
EXTENDS CustomExporter, TLAPS

Dropping == {"drop_lock", "drop_shutting_down", "destroy"}

(* Who holds the lock is who runs a callback under it, and the flag keeps readers out. *)
LockInv ==
  /\ \A t \in Threads : t \in readers <=> pc[t] \in {"exporting", "flushing"}
  /\ \A t \in Threads : writer = t <=> pc[t] \in {"shutting_down", "drop_shutting_down"}
  /\ flag => readers = {}
  /\ writer # NoThread => flag
  /\ shutdowns = IF flag /\ "shutdown" \in callbacks THEN 1 ELSE 0

(* The thread that runs Drop is the last; before `new` nothing has happened. *)
DropInv ==
  /\ \A t \in Threads : pc[t] \in Dropping =>
       /\ ~owned /\ destroys = 0
       /\ \A u \in Threads \ {t} : pc[u] = "idle"
  /\ \A t \in Threads : pc[t] \in {"drop_shutting_down", "destroy"} => flag
  /\ destroys = 1 => ~owned /\ flag /\ \A t \in Threads : pc[t] = "idle"
  /\ ~owned /\ destroys = 0 /\ (\A t \in Threads : pc[t] = "idle") => ~flag

(* Tokens are drawn from the counter, for the thread that exports. *)
TokenInv ==
  /\ \A t \in Threads : batches[t] # {} => pc[t] = "exporting"
  /\ \A t \in Threads : \A token \in batches[t] :
       token < nextToken /\ \A u \in Threads \ {t} : token \notin batches[u]

(* The inductive invariant. *)
Inv == TypeOK /\ LockInv /\ DropInv /\ TokenInv

(* The initial state satisfies the invariant. *)
LEMMA InitInv == Init => Inv
<1> SUFFICES ASSUME Init PROVE Inv
  OBVIOUS
<1> USE CustomExporterAssumption DEF CustomExporterAssumption, Init
<1>1. TypeOK
  <2>1. batches \in [Threads -> SUBSET Nat]
    OBVIOUS
  <2>2. shutdowns \in 0..1 /\ destroys \in 0..1 /\ nextToken \in Nat
    OBVIOUS
  <2>3. QED
    BY <2>1, <2>2 DEF TypeOK
<1>2. LockInv
  BY DEF LockInv
<1>3. DropInv
  BY DEF DropInv, Dropping
<1>4. TokenInv
  BY DEF TokenInv
<1>5. QED
  BY <1>1, <1>2, <1>3, <1>4 DEF Inv

(* Every action keeps the invariant. *)
LEMMA StepInv == Inv /\ [Next]_vars => Inv'
<1> SUFFICES ASSUME Inv, [Next]_vars PROVE Inv'
  OBVIOUS
<1> USE CustomExporterAssumption
    DEF CustomExporterAssumption, Inv, TypeOK, LockInv, DropInv, TokenInv, Dropping, Goto,
        InCall, AfterCall, lockVars, tokenVars
<1>1. ASSUME new PROVE Inv'
  <2>1. callbacks' \subseteq Optional
    BY <1>1 DEF new, read_callbacks
  <2>2. QED
    BY <1>1, <2>1 DEF new
<1>2. ASSUME NEW t \in Threads, export(t) PROVE Inv'
  BY <1>2 DEF export
<1>3. ASSUME NEW t \in Threads, force_flush(t) PROVE Inv'
  BY <1>3 DEF force_flush
<1>4. ASSUME NEW t \in Threads, shutdown(t) PROVE Inv'
  BY <1>4 DEF shutdown
<1>5. ASSUME NEW t \in Threads, drop(t) PROVE Inv'
  <2>1. CASE InCall = {}
    <3>1. \A u \in Threads : pc[u] = "idle"
      BY <2>1
    <3>2. pc' = [pc EXCEPT ![t] = "drop_lock"]
      BY <1>5, <2>1 DEF drop
    <3>3. /\ owned /\ owned' = FALSE
          /\ UNCHANGED <<callbacks, lockVars, tokenVars, shutdowns, destroys>>
      BY <1>5 DEF drop
    <3>4. TypeOK'
      BY <3>2, <3>3
    <3>5. LockInv'
      BY <3>1, <3>2, <3>3
    <3>6. DropInv'
      BY <3>1, <3>2, <3>3
    <3>7. TokenInv'
      BY <3>1, <3>2, <3>3
    <3>8. QED
      BY <3>4, <3>5, <3>6, <3>7
  <2>2. CASE InCall # {}
    <3>1. PICK u \in Threads : pc[u] # "idle"
      BY <2>2
    <3>2. pc' = pc
      BY <1>5, <2>2 DEF drop
    <3>3. QED
      BY <1>5, <3>1, <3>2 DEF drop
  <2>3. QED
    BY <2>1, <2>2
<1>6. ASSUME NEW t \in Threads, ExportLock(t) PROVE Inv'
  BY <1>6 DEF ExportLock
<1>7. ASSUME NEW t \in Threads, ExportDone(t) PROVE Inv'
  BY <1>7 DEF ExportDone
<1>8. ASSUME NEW t \in Threads, FlushLock(t) PROVE Inv'
  BY <1>8 DEF FlushLock
<1>9. ASSUME NEW t \in Threads, FlushDone(t) PROVE Inv'
  BY <1>9 DEF FlushDone
<1>10. ASSUME NEW t \in Threads, ShutdownLock(t) PROVE Inv'
  BY <1>10 DEF ShutdownLock, TakeWriteLock
<1>11. ASSUME NEW t \in Threads, DropShutdown(t) PROVE Inv'
  BY <1>11 DEF DropShutdown, TakeWriteLock
<1>12. ASSUME NEW t \in Threads, ShutdownDone(t) PROVE Inv'
  BY <1>12 DEF ShutdownDone
<1>13. ASSUME NEW t \in Threads, DropShutdownDone(t) PROVE Inv'
  BY <1>13 DEF DropShutdownDone
<1>14. ASSUME NEW t \in Threads, Destroy(t) PROVE Inv'
  BY <1>14 DEF Destroy
<1>15. ASSUME UNCHANGED vars PROVE Inv'
  BY <1>15 DEF vars
<1> HIDE DEF Inv, TypeOK, LockInv, DropInv, TokenInv, Dropping, Goto, InCall, AfterCall,
             lockVars, tokenVars
<1>16. QED
  BY <1>1, <1>2, <1>3, <1>4, <1>5, <1>6, <1>7, <1>8, <1>9, <1>10, <1>11, <1>12, <1>13,
     <1>14, <1>15
  DEF Next, Call, Reader, Writer, Ending

(* The invariant holds in every reachable state. *)
LEMMA Invariant == Spec => []Inv
BY InitInv, StepInv, PTL DEF Spec

(* The invariant says all that was promised of an exporter. *)
LEMMA Promises == Inv => TypeOK /\ ShutdownIsLast /\ DestroyComesLast /\ TokensAreScoped
<1> SUFFICES ASSUME Inv PROVE TypeOK /\ ShutdownIsLast /\ DestroyComesLast /\ TokensAreScoped
  OBVIOUS
<1>1. TypeOK
  BY DEF Inv
<1>2. ShutdownIsLast
  BY DEF Inv, TypeOK, LockInv, ShutdownIsLast, Exporting
<1>3. DestroyComesLast
  BY DEF Inv, TypeOK, LockInv, DropInv, DestroyComesLast, Exporting, Stopping
<1>4. TokensAreScoped
  BY CustomExporterAssumption
    DEF CustomExporterAssumption, Inv, TypeOK, TokenInv, TokensAreScoped, active_batch
<1>5. QED
  BY <1>1, <1>2, <1>3, <1>4

(* The state of an exporter keeps its type: shutdown and state_destroy are called at
   most once among it (custom_log_exporter.rs:153). *)
THEOREM TypeCorrect == Spec => []TypeOK
BY Invariant, Promises, PTL

(* Once the shutdown callback has begun no export and no flush callback runs
   (custom_log_exporter.rs:16-22). *)
THEOREM ShutdownIsLastHolds == Spec => []ShutdownIsLast
BY Invariant, Promises, PTL

(* state_destroy comes after all callbacks have returned and after the one shutdown
   callback (custom_log_exporter.rs:271). *)
THEOREM DestroyComesLastHolds == Spec => []DestroyComesLast
BY Invariant, Promises, PTL

(* A batch token is honoured on its thread and until its callback returns, and no
   other thread has it (metric_batch.rs:221). *)
THEOREM TokensAreScopedHolds == Spec => []TokensAreScoped
BY Invariant, Promises, PTL
==================================================================================
