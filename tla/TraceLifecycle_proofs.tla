-------------------------- MODULE TraceLifecycle_proofs --------------------------
(***************************************************************************)
(* Proofs about TraceLifecycle for any number of threads, helpers and      *)
(* handles.                                                                *)
(***************************************************************************)
EXTENDS TraceLifecycle, FiniteSetTheorems, TLAPS

USE TraceLifecycleAssumption DEF TraceLifecycleAssumption

(* No step of a call or of a helper gives a variable a value of another kind. *)
LEMMA TypeStep ==
  ASSUME TypeOK, [Next]_vars
  PROVE  TypeOK'
<1> USE DEF TypeOK, Goto, HelperStep, DropProvider, refVars, flushVars
<1>1. ASSUME NEW t \in Threads, force_flush(t) PROVE TypeOK'
  BY <1>1 DEF force_flush
<1>2. ASSUME NEW t \in Threads, otel_sdk_shutdown(t) PROVE TypeOK'
  BY <1>2 DEF otel_sdk_shutdown
<1>3. ASSUME NEW t \in Threads, destroy(t) PROVE TypeOK'
  BY <1>3 DEF destroy
<1>4. ASSUME NEW t \in Threads, set_as_global(t) PROVE TypeOK'
  BY <1>4 DEF set_as_global
<1>5. ASSUME NEW t \in Threads, replace_global(t) PROVE TypeOK'
  BY <1>5 DEF replace_global
<1>6. ASSUME NEW t \in Threads, retain_global(t) PROVE TypeOK'
  BY <1>6 DEF retain_global
<1>7. ASSUME NEW t \in Threads, new_handle(t) PROVE TypeOK'
  BY <1>7 DEF new_handle
<1>8. ASSUME NEW t \in Threads, destroy_handle(t) PROVE TypeOK'
  BY <1>8 DEF destroy_handle
<1>9. ASSUME NEW t \in Threads, Register(t) PROVE TypeOK'
  BY <1>9 DEF Register
<1>10. ASSUME NEW t \in Threads, RegisterRefused(t) PROVE TypeOK'
  BY <1>10 DEF RegisterRefused
<1>11. ASSUME NEW t \in Threads, FreeOld(t) PROVE TypeOK'
  BY <1>11 DEF FreeOld
<1>12. ASSUME NEW t \in Threads, Retain(t) PROVE TypeOK'
  BY <1>12 DEF Retain
<1>13. ASSUME NEW t \in Threads, GetGlobalTracer(t) PROVE TypeOK'
  BY <1>13 DEF GetGlobalTracer
<1>14. ASSUME NEW t \in Threads, SwapFlag(t) PROVE TypeOK'
  BY <1>14 DEF SwapFlag
<1>15. ASSUME NEW t \in Threads, Spawn(t) PROVE TypeOK'
  BY <1>15 DEF Spawn
<1>16. ASSUME NEW t \in Threads, SpawnFails(t) PROVE TypeOK'
  BY <1>16 DEF SpawnFails
<1>17. ASSUME NEW t \in Threads, SpawnFailed(t) PROVE TypeOK'
  BY <1>17 DEF SpawnFailed
<1>18. ASSUME NEW t \in Threads, WaitEnds(t) PROVE TypeOK'
  BY <1>18 DEF WaitEnds
<1>19. ASSUME NEW t \in Threads, FlushHere(t) PROVE TypeOK'
  BY <1>19 DEF FlushHere
<1>20. ASSUME NEW t \in Threads, StopPipeline(t) PROVE TypeOK'
  BY <1>20 DEF StopPipeline
<1>21. ASSUME NEW h \in Helpers, FlushReturns(h) PROVE TypeOK'
  BY <1>21 DEF FlushReturns
<1>22. ASSUME NEW h \in Helpers, FlushPanics(h) PROVE TypeOK'
  BY <1>22 DEF FlushPanics
<1>23. ASSUME NEW h \in Helpers, SendResult(h) PROVE TypeOK'
  BY <1>23 DEF SendResult
<1>24. ASSUME NEW h \in Helpers, HelperEnds(h) PROVE TypeOK'
  BY <1>24 DEF HelperEnds
<1>25. ASSUME UNCHANGED vars PROVE TypeOK'
  BY <1>25 DEF vars
<1> HIDE DEF TypeOK, Goto, HelperStep, DropProvider, refVars, flushVars
<1>26. QED
  BY <1>1, <1>2, <1>3, <1>4, <1>5, <1>6, <1>7, <1>8, <1>9, <1>10, <1>11, <1>12,
     <1>13, <1>14, <1>15, <1>16, <1>17, <1>18, <1>19, <1>20, <1>21, <1>22,
     <1>23, <1>24, <1>25
  DEF Next, Call, SlotStep, TimedStep, PipelineStep, Helping

(* The initial values are of their kind (sdk.rs:102). *)
LEMMA InitType == Init => TypeOK
<1> SUFFICES ASSUME Init PROVE TypeOK
  OBVIOUS
<1>1. /\ shutdown \in BOOLEAN /\ inFlight \in BOOLEAN
      /\ sdkLive \in BOOLEAN /\ inSlot \in BOOLEAN
  BY DEF Init
<1>2. handles \in 0..MaxHandles /\ stops \in Nat
  BY DEF Init
<1>3. \A t \in Threads : mine[t] = NoHelper /\ pc[t] = "idle"
  BY DEF Init
<1>4. QED
  BY <1>1, <1>2, <1>3 DEF Init, TypeOK

(* The flags, counters and threads of one SDK's trace pipeline keep their kind,
   and a call waits for a helper exactly while it is in recv_timeout
   (sdk.rs:102, 1032). *)
THEOREM TypeCorrect == Spec => []TypeOK
<1>1. Init => TypeOK
  BY InitType
<1>2. TypeOK /\ [Next]_vars => TypeOK'
  BY TypeStep
<1>3. QED
  BY <1>1, <1>2, PTL DEF Spec

--------------------------------------------------------------------------------
(***************************************************************************)
(* StopsOnce and ReferencesPin.  A reference can only be made from another *)
(* one: by a call on a live handle, by a reader that keeps the slot as it  *)
(* is, from a provider handle.  So the references, once all gone, stay     *)
(* gone, and the shutdown that precedes the last of them is one call's.    *)
(***************************************************************************)

(* A call that will still clone the provider, or shut it down, keeps the SDK
   alive: destroy must not run beside it. *)
CallersKeepSdk ==
  \A t \in Threads : pc[t] \in {"flush_here", "swap", "spawn", "spawn_failed",
                                "wait", "stop"} => sdkLive

(* The read lock keeps the slot as it is. *)
ReadersKeepSlot == \A t \in Threads : pc[t] = "retain" => inSlot

(* The swap of the shutdown flag lets one call through. *)
OneStopper ==
  \A t \in Threads : pc[t] = "stop" =>
    shutdown /\ \A u \in Threads : pc[u] = "stop" => u = t

StopInv ==
  /\ TypeOK /\ CallersKeepSdk /\ ReadersKeepSlot /\ OneStopper /\ StopsOnce

(* No step of a call or of a helper breaks the accounting of references. *)
LEMMA StopStep ==
  ASSUME StopInv, [Next]_vars, TypeOK'
  PROVE  StopInv'
<1> USE DEF StopInv, CallersKeepSdk, ReadersKeepSlot, OneStopper, StopsOnce,
    Referenced, HoldsProvider, HoldsBox, Writable, Unused,
    TypeOK, Goto, HelperStep, DropProvider, refVars, flushVars
<1>1. ASSUME NEW t \in Threads, force_flush(t) PROVE StopInv'
  BY <1>1 DEF force_flush
<1>2. ASSUME NEW t \in Threads, otel_sdk_shutdown(t) PROVE StopInv'
  BY <1>2 DEF otel_sdk_shutdown
<1>3. ASSUME NEW t \in Threads, destroy(t) PROVE StopInv'
  BY <1>3 DEF destroy
<1>4. ASSUME NEW t \in Threads, set_as_global(t) PROVE StopInv'
  BY <1>4 DEF set_as_global
<1>5. ASSUME NEW t \in Threads, replace_global(t) PROVE StopInv'
  BY <1>5 DEF replace_global
<1>6. ASSUME NEW t \in Threads, retain_global(t) PROVE StopInv'
  BY <1>6 DEF retain_global
<1>7. ASSUME NEW t \in Threads, new_handle(t) PROVE StopInv'
  BY <1>7 DEF new_handle
<1>8. ASSUME NEW t \in Threads, destroy_handle(t) PROVE StopInv'
  BY <1>8 DEF destroy_handle
<1>9. ASSUME NEW t \in Threads, Register(t) PROVE StopInv'
  BY <1>9 DEF Register
<1>10. ASSUME NEW t \in Threads, RegisterRefused(t) PROVE StopInv'
  BY <1>10 DEF RegisterRefused
<1>11. ASSUME NEW t \in Threads, FreeOld(t) PROVE StopInv'
  BY <1>11 DEF FreeOld
<1>12. ASSUME NEW t \in Threads, Retain(t) PROVE StopInv'
  BY <1>12 DEF Retain
<1>13. ASSUME NEW t \in Threads, GetGlobalTracer(t) PROVE StopInv'
  BY <1>13 DEF GetGlobalTracer
<1>14. ASSUME NEW t \in Threads, SwapFlag(t) PROVE StopInv'
  BY <1>14 DEF SwapFlag
<1>15. ASSUME NEW t \in Threads, Spawn(t) PROVE StopInv'
  BY <1>15 DEF Spawn
<1>16. ASSUME NEW t \in Threads, SpawnFails(t) PROVE StopInv'
  BY <1>16 DEF SpawnFails
<1>17. ASSUME NEW t \in Threads, SpawnFailed(t) PROVE StopInv'
  BY <1>17 DEF SpawnFailed
<1>18. ASSUME NEW t \in Threads, WaitEnds(t) PROVE StopInv'
  BY <1>18 DEF WaitEnds
<1>19. ASSUME NEW t \in Threads, FlushHere(t) PROVE StopInv'
  BY <1>19 DEF FlushHere
<1>20. ASSUME NEW t \in Threads, StopPipeline(t) PROVE StopInv'
  BY <1>20 DEF StopPipeline
<1>21. ASSUME NEW h \in Helpers, FlushReturns(h) PROVE StopInv'
  BY <1>21 DEF FlushReturns
<1>22. ASSUME NEW h \in Helpers, FlushPanics(h) PROVE StopInv'
  BY <1>22 DEF FlushPanics
<1>23. ASSUME NEW h \in Helpers, SendResult(h) PROVE StopInv'
  BY <1>23 DEF SendResult
<1>24. ASSUME NEW h \in Helpers, HelperEnds(h) PROVE StopInv'
  BY <1>24 DEF HelperEnds
<1>25. ASSUME UNCHANGED vars PROVE StopInv'
  BY <1>25 DEF vars
<1> HIDE DEF StopInv, CallersKeepSdk, ReadersKeepSlot, OneStopper, StopsOnce,
    Referenced, HoldsProvider, HoldsBox, Writable, Unused,
    TypeOK, Goto, HelperStep, DropProvider, refVars, flushVars
<1>26. QED
  BY <1>1, <1>2, <1>3, <1>4, <1>5, <1>6, <1>7, <1>8, <1>9, <1>10, <1>11, <1>12,
     <1>13, <1>14, <1>15, <1>16, <1>17, <1>18, <1>19, <1>20, <1>21, <1>22,
     <1>23, <1>24, <1>25
  DEF Next, Call, SlotStep, TimedStep, PipelineStep, Helping

(* The accounting of references holds in every reachable state. *)
LEMMA StopInvariant == Spec => []StopInv
<1>1. Init => StopInv
  BY InitType DEF Init, StopInv, CallersKeepSdk, ReadersKeepSlot, OneStopper,
                  StopsOnce, Referenced
<1>2. StopInv /\ [Next]_vars /\ TypeOK' => StopInv'
  BY StopStep
<1>3. QED
  BY <1>1, <1>2, TypeCorrect, PTL DEF Spec

(* The trace pipeline is shut down by the one call that wins the flag or by the
   last reference dropped, never by both (sdk.rs:1054, vtable.rs:278). *)
THEOREM StopsOnceHolds == Spec => []StopsOnce
BY StopInvariant, PTL DEF StopInv

(* A provider looked up in the slot, or referenced from anywhere, has not been
   stopped by a reference dropped elsewhere (global.rs:67). *)
THEOREM ReferencesPinHolds == Spec => []ReferencesPin
<1>1. StopInv => ReferencesPin
  BY DEF StopInv, StopsOnce, ReadersKeepSlot, ReferencesPin, Referenced
<1>2. QED
  BY <1>1, StopInvariant, PTL

--------------------------------------------------------------------------------
(***************************************************************************)
(* FlagTracksFlush, when helper threads can always be spawned: without the *)
(* second clearing of the failure path, the flag is a lock that passes     *)
(* from the caller who wins it to that caller's helper.                    *)
(***************************************************************************)

(* At most one caller or helper has the flag, and somebody has if it is set. *)
OneFlusher ==
  /\ \A t \in Threads : pc[t] # "spawn_failed"
  /\ \A h, g \in Flushing : h = g
  /\ \A t, u \in Spawning : t = u
  /\ Flushing = {} \/ Spawning = {}
  /\ inFlight <=> Flushing # {} \/ Spawning # {}

FlagInv == TypeOK /\ OneFlusher

(* No step of a call or of a helper separates the flag from its flush. *)
LEMMA FlagStep ==
  ASSUME ~SpawnCanFail, FlagInv, [Next]_vars, TypeOK'
  PROVE  FlagInv'
<1> USE DEF FlagInv, OneFlusher, Flushing, Spawning,
    TypeOK, Goto, HelperStep, DropProvider, refVars, flushVars
<1>1. ASSUME NEW t \in Threads, force_flush(t) PROVE FlagInv'
  BY <1>1 DEF force_flush
<1>2. ASSUME NEW t \in Threads, otel_sdk_shutdown(t) PROVE FlagInv'
  BY <1>2 DEF otel_sdk_shutdown
<1>3. ASSUME NEW t \in Threads, destroy(t) PROVE FlagInv'
  BY <1>3 DEF destroy
<1>4. ASSUME NEW t \in Threads, set_as_global(t) PROVE FlagInv'
  BY <1>4 DEF set_as_global
<1>5. ASSUME NEW t \in Threads, replace_global(t) PROVE FlagInv'
  BY <1>5 DEF replace_global
<1>6. ASSUME NEW t \in Threads, retain_global(t) PROVE FlagInv'
  BY <1>6 DEF retain_global
<1>7. ASSUME NEW t \in Threads, new_handle(t) PROVE FlagInv'
  BY <1>7 DEF new_handle
<1>8. ASSUME NEW t \in Threads, destroy_handle(t) PROVE FlagInv'
  BY <1>8 DEF destroy_handle
<1>9. ASSUME NEW t \in Threads, Register(t) PROVE FlagInv'
  BY <1>9 DEF Register
<1>10. ASSUME NEW t \in Threads, RegisterRefused(t) PROVE FlagInv'
  BY <1>10 DEF RegisterRefused
<1>11. ASSUME NEW t \in Threads, FreeOld(t) PROVE FlagInv'
  BY <1>11 DEF FreeOld
<1>12. ASSUME NEW t \in Threads, Retain(t) PROVE FlagInv'
  BY <1>12 DEF Retain
<1>13. ASSUME NEW t \in Threads, GetGlobalTracer(t) PROVE FlagInv'
  BY <1>13 DEF GetGlobalTracer
<1>14. ASSUME NEW t \in Threads, SwapFlag(t) PROVE FlagInv'
  BY <1>14 DEF SwapFlag
<1>15. ASSUME NEW t \in Threads, Spawn(t) PROVE FlagInv'
  BY <1>15 DEF Spawn
<1>16. ASSUME NEW t \in Threads, SpawnFails(t) PROVE FlagInv'
  BY <1>16 DEF SpawnFails
<1>17. ASSUME NEW t \in Threads, SpawnFailed(t) PROVE FlagInv'
  BY <1>17 DEF SpawnFailed
<1>18. ASSUME NEW t \in Threads, WaitEnds(t) PROVE FlagInv'
  BY <1>18 DEF WaitEnds
<1>19. ASSUME NEW t \in Threads, FlushHere(t) PROVE FlagInv'
  BY <1>19 DEF FlushHere
<1>20. ASSUME NEW t \in Threads, StopPipeline(t) PROVE FlagInv'
  BY <1>20 DEF StopPipeline
<1>21. ASSUME NEW h \in Helpers, FlushReturns(h) PROVE FlagInv'
  BY <1>21 DEF FlushReturns
<1>22. ASSUME NEW h \in Helpers, FlushPanics(h) PROVE FlagInv'
  BY <1>22 DEF FlushPanics
<1>23. ASSUME NEW h \in Helpers, SendResult(h) PROVE FlagInv'
  BY <1>23 DEF SendResult
<1>24. ASSUME NEW h \in Helpers, HelperEnds(h) PROVE FlagInv'
  BY <1>24 DEF HelperEnds
<1>25. ASSUME UNCHANGED vars PROVE FlagInv'
  BY <1>25 DEF vars
<1> HIDE DEF FlagInv, OneFlusher, Flushing, Spawning,
    TypeOK, Goto, HelperStep, DropProvider, refVars, flushVars
<1>26. QED
  BY <1>1, <1>2, <1>3, <1>4, <1>5, <1>6, <1>7, <1>8, <1>9, <1>10, <1>11, <1>12,
     <1>13, <1>14, <1>15, <1>16, <1>17, <1>18, <1>19, <1>20, <1>21, <1>22,
     <1>23, <1>24, <1>25
  DEF Next, Call, SlotStep, TimedStep, PipelineStep, Helping

(* What the invariant says in terms of Cardinality. *)
LEMMA FlagCounts == OneFlusher => FlagTracksFlush
<1> SUFFICES ASSUME OneFlusher PROVE FlagTracksFlush
  OBVIOUS
<1>1. Flushing = {} \/ \E h \in Flushing : Flushing = {h}
  BY DEF OneFlusher
<1>2. Spawning = {} \/ \E t \in Spawning : Spawning = {t}
  BY DEF OneFlusher
<1>3. Cardinality(Flushing) = IF Flushing = {} THEN 0 ELSE 1
  BY <1>1, FS_EmptySet, FS_Singleton
<1>4. Cardinality(Spawning) = IF Spawning = {} THEN 0 ELSE 1
  BY <1>2, FS_EmptySet, FS_Singleton
<1>5. QED
  BY <1>3, <1>4 DEF OneFlusher, FlagTracksFlush

(* As long as a helper can always be spawned, the in-flight flag is up exactly
   while one timed flush is being started or runs (sdk.rs:1009, 1022). *)
THEOREM FlagTracksFlushHolds == ~SpawnCanFail => (Spec => []FlagTracksFlush)
<1> SUFFICES ASSUME ~SpawnCanFail PROVE Spec => []FlagTracksFlush
  OBVIOUS
<1>1. Init => FlagInv
  BY InitType DEF Init, FlagInv, OneFlusher, Flushing, Spawning
<1>2. FlagInv /\ [Next]_vars /\ TypeOK' => FlagInv'
  BY FlagStep
<1>3. FlagInv => FlagTracksFlush
  BY FlagCounts DEF FlagInv
<1>4. QED
  BY <1>1, <1>2, <1>3, TypeCorrect, PTL DEF Spec
=================================================================================
