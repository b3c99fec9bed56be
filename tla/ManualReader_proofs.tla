--------------------------- MODULE ManualReader_proofs ---------------------------
(***************************************************************************)
(* Proofs about ManualReader: FlushAccounts and StoppedOnce, for any       *)
(* threads and measurements.                                               *)
(***************************************************************************)
EXTENDS ManualReader, TLAPS

Places ==
  {"idle", "collect", "export", "flush", "swap", "stop_reader", "stop_exporter"}
Answers == {"none", "ok", "failed", "stopped", "already_shutdown"}

TypeOK ==
  /\ recorded \in SUBSET Measurements /\ pending \in SUBSET Measurements
  /\ exported \in SUBSET Measurements /\ lost \in SUBSET Measurements
  /\ batch \in [Threads -> SUBSET Measurements]
  /\ seen \in [Threads -> SUBSET Measurements]
  /\ pc \in [Threads -> Places] /\ result \in [Threads -> Answers]
  /\ temporality \in {"delta", "cumulative"}
  /\ stops \in Nat
  /\ reader \in BOOLEAN /\ exporter \in BOOLEAN /\ swapped \in BOOLEAN

(* A flush holds m between a collection and its export. *)
Held(m) == \E t \in Threads : m \in batch[t]
Gone(m) == m \in exported \/ m \in lost \/ Held(m)

(* Where measurements are.  Only a flush about to export holds any.  A delta collection
   moves them on; a cumulative one leaves them pending for ever. *)
AccountInv ==
  /\ \A t \in Threads, m \in Measurements :
       /\ m \in batch[t] => pc[t] = "export"
       /\ m \in seen[t] => m \in recorded
  /\ \A t \in Threads : result[t] = "ok" => pc[t] \notin {"collect", "export", "flush"}
  /\ \A m \in Measurements : m \in pending \/ Gone(m) => m \in recorded
  /\ delta => \A m \in recorded : m \in pending \/ Gone(m)
  /\ delta => \A t \in Threads : pc[t] \in {"export", "flush"} \/ result[t] = "ok" =>
       \A m \in seen[t] : Gone(m)
  /\ ~delta => \A m \in recorded : m \in pending
  /\ ~delta => \A t \in Threads : pc[t] = "export" => \A m \in seen[t] : m \in batch[t]
  /\ ~delta => \A t \in Threads : pc[t] = "flush" \/ result[t] = "ok" =>
       \A m \in seen[t] : m \in exported

(* The swap lets one thread through, which stops the reader, then the exporter. *)
StopInv ==
  /\ stops = IF exporter THEN 0 ELSE 1
  /\ ~swapped => exporter /\ reader
  /\ ~exporter => ~reader
  /\ \A t \in Threads :
       /\ pc[t] \in {"stop_reader", "stop_exporter"} =>
            /\ swapped /\ exporter
            /\ \A u \in Threads \ {t} : pc[u] \notin {"stop_reader", "stop_exporter"}
       /\ pc[t] = "stop_exporter" => ~reader
       /\ result[t] = "stopped" => ~exporter

Inv == TypeOK /\ AccountInv /\ StopInv

(* The initial state satisfies the invariant. *)
LEMMA InitInv == Init => Inv
<1>1. Init => batch \in [Threads -> SUBSET Measurements] /\ seen \in [Threads -> SUBSET Measurements]
  BY DEF Init
<1>2. Init => pc \in [Threads -> Places] /\ result \in [Threads -> Answers]
  BY DEF Init, Places, Answers
<1>3. Init => TypeOK
  <2>1. Init => /\ recorded \subseteq Measurements /\ pending \subseteq Measurements
                /\ exported \subseteq Measurements /\ lost \subseteq Measurements
    BY DEF Init
  <2>2. Init => stops \in Nat /\ reader \in BOOLEAN /\ exporter \in BOOLEAN
    BY DEF Init
  <2>3. Init => swapped \in BOOLEAN
    BY DEF Init
  <2>4. Init => temporality \in {"delta", "cumulative"}
    BY DEF Init
  <2>5. QED
    BY <1>1, <1>2, <2>1, <2>2, <2>3, <2>4 DEF TypeOK
<1>4. Init => AccountInv
  BY DEF Init, AccountInv, Held, Gone, delta
<1>5. Init => StopInv
  BY DEF Init, StopInv
<1>6. QED
  BY <1>3, <1>4, <1>5 DEF Inv

(* Steps of a flush keep the invariant. *)
LEMMA FlushStep ==
  ASSUME Inv, NEW t \in Threads, Flush(t)
  PROVE  Inv'
<1> USE DEF Inv, TypeOK, Places, Answers, AccountInv, StopInv, Held, Gone, delta, Goto, Ends, locks, local, data
<1>1. CASE metrics_force_flush(t)
  BY <1>1 DEF metrics_force_flush
<1>2. CASE metrics_force_flush_refused(t)
  BY <1>2 DEF metrics_force_flush_refused
<1>3. CASE Collect(t)
  BY <1>3 DEF Collect
<1>4. CASE CollectFails(t)
  BY <1>4 DEF CollectFails
<1>5. CASE Export(t)
  BY <1>5 DEF Export
<1>6. CASE ExportFails(t)
  BY <1>6 DEF ExportFails
<1>7. CASE FlushExporter(t)
  BY <1>7 DEF FlushExporter
<1>8. CASE FlushExporterFails(t)
  BY <1>8 DEF FlushExporterFails
<1> HIDE DEF Inv, TypeOK, Places, Answers, AccountInv, StopInv, Held, Gone, delta, Goto, Ends, locks, local, data
<1>9. QED
  BY <1>1, <1>2, <1>3, <1>4, <1>5, <1>6, <1>7, <1>8 DEF Flush

(* Steps of a shutdown keep the invariant. *)
LEMMA ShutdownStep ==
  ASSUME Inv, NEW t \in Threads, Shutdown(t)
  PROVE  Inv'
<1> USE DEF Inv, TypeOK, Places, Answers, AccountInv, StopInv, Held, Gone, delta, Goto, Ends, locks, local, data
<1>1. CASE metrics_shutdown(t)
  BY <1>1 DEF metrics_shutdown
<1>2. CASE sdk_destroy(t)
  BY <1>2 DEF sdk_destroy
<1>3. CASE metrics_shutdown_refused(t)
  BY <1>3 DEF metrics_shutdown_refused
<1>4. CASE SwapShutdown(t)
  BY <1>4 DEF SwapShutdown
<1>5. CASE AlreadyShutdown(t)
  BY <1>5 DEF AlreadyShutdown
<1>6. CASE StopReader(t)
  <2>1. TypeOK' /\ AccountInv'
    <3>1. TypeOK'
      BY <1>6 DEF StopReader
    <3>2. AccountInv'
      BY <1>6 DEF StopReader
    <3>3. QED
      BY <3>1, <3>2
  <2>2. StopInv'
    BY <1>6 DEF StopReader
  <2>3. QED
    BY <2>1, <2>2
<1>7. CASE StopExporter(t)
  <2>1. stops = 0 /\ ~reader /\ swapped
    BY <1>7 DEF StopExporter
  <2>2. TypeOK' /\ AccountInv'
    <3>1. stops' \in Nat
      BY <1>7 DEF StopExporter
    <3>2. pc' \in [Threads -> Places] /\ result' \in [Threads -> Answers]
      BY <1>7 DEF StopExporter
    <3>3. TypeOK'
      BY <1>7, <3>1, <3>2 DEF StopExporter
    <3>4. AccountInv'
      BY <1>7 DEF StopExporter
    <3>5. QED
      BY <3>3, <3>4
  <2>3. stops' = 1 /\ exporter' = FALSE /\ ~reader' /\ swapped'
    BY <1>7, <2>1 DEF StopExporter
  <2>4. \A u \in Threads : pc'[u] \notin {"stop_reader", "stop_exporter"}
    BY <1>7 DEF StopExporter
  <2>5. StopInv'
    BY <2>3, <2>4
  <2>6. QED
    BY <2>2, <2>5
<1> HIDE DEF Inv, TypeOK, Places, Answers, AccountInv, StopInv, Held, Gone, delta, Goto, Ends, locks, local, data
<1>8. QED
  BY <1>1, <1>2, <1>3, <1>4, <1>5, <1>6, <1>7 DEF Shutdown

(* Every step keeps the invariant. *)
LEMMA StepInv == Inv /\ [Next]_vars => Inv'
<1> SUFFICES ASSUME Inv, [Next]_vars PROVE Inv'
  OBVIOUS
<1>1. ASSUME NEW m \in Measurements, Record(m) PROVE Inv'
  BY <1>1 DEF Inv, TypeOK, Places, Answers, AccountInv, StopInv, Held, Gone, delta, Record, locks, local
<1>2. CASE UNCHANGED vars
  BY <1>2 DEF Inv, TypeOK, Places, Answers, AccountInv, StopInv, Held, Gone, delta, vars, data, locks, local
<1>3. QED
  BY <1>1, <1>2, FlushStep, ShutdownStep DEF Next

(* The invariant holds in every reachable state. *)
LEMMA Invariant == Spec => []Inv
BY InitInv, StepInv, PTL DEF Spec

(* What the invariant says of flushes and shutdowns. *)
LEMMA InvMeans == Inv => FlushAccounts /\ StoppedOnce
<1>1. Inv => FlushAccounts
  <2> SUFFICES ASSUME Inv PROVE FlushAccounts
    OBVIOUS
  <2> USE DEF Inv, TypeOK, Places, Answers, AccountInv, Held, Gone
  <2>1. \A m \in Measurements : m \in UNION {batch[t] : t \in Threads} <=> Held(m)
    OBVIOUS
  <2>2. ASSUME NEW t \in Threads, result[t] = "ok", delta, NEW m \in seen[t]
        PROVE  m \in exported \cup lost \cup InOtherHands(t)
    BY <2>2 DEF InOtherHands
  <2>3. UNION {batch[t] : t \in Threads} \subseteq Measurements
    OBVIOUS
  <2>4. \A m \in Measurements :
          m \in recorded <=> m \in pending \/ Gone(m)
    BY DEF delta
  <2>5. recorded = pending \cup exported \cup lost \cup UNION {batch[t] : t \in Threads}
    BY <2>1, <2>3, <2>4
  <2>6. QED
    BY <2>2, <2>5 DEF FlushAccounts
<1>2. Inv => StoppedOnce
  BY DEF Inv, TypeOK, StopInv, StoppedOnce
<1>3. QED
  BY <1>1, <1>2

(* Nothing measured is unaccounted for, and a flush that answers Ok leaves nothing behind
   but what another flush has taken (manual_metric_reader.rs:37-46). *)
THEOREM FlushAccountsHolds == Spec => []FlushAccounts
BY InvMeans, Invariant, PTL

(* However many threads shut down and destroy, one stops the reader and then the exporter
   (manual_metric_reader.rs:48-55). *)
THEOREM StoppedOnceHolds == Spec => []StoppedOnce
BY InvMeans, Invariant, PTL
================================================================================
