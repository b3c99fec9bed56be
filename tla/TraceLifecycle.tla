---------------------------- MODULE TraceLifecycle ----------------------------
(***************************************************************************)
(* The trace pipeline of one SDK: flushing, shutting down and destroying   *)
(* it (sdk/src/sdk.rs:943-1067), and the API's global slot that may hold   *)
(* it (api/src/global.rs).  A flush with a timeout runs on a helper thread *)
(* that outlives the call, and even the SDK handle, when the exporter is   *)
(* slow; a flag shared with the helper keeps a second timed flush from     *)
(* starting.  Unlike the other signals' slots this one is never cleared,   *)
(* only overwritten, and installing is not serialised with shutting down.  *)
(*                                                                         *)
(* The pipeline itself (opentelemetry_sdk's SdkTracerProvider) is          *)
(* external: a flush takes any time, may panic, and the pipeline is shut   *)
(* down by the last reference dropped if nothing shut it down before.      *)
(***************************************************************************)
EXTENDS Naturals, FiniteSets

CONSTANTS
  Threads,       (* application threads                                 *)
  Helpers,       (* helper threads that can be spawned, one per flush   *)
  NoHelper,      (* a call that waits for no helper                     *)
  SpawnCanFail,  (* whether the system may refuse a helper thread       *)
  MaxHandles     (* bound: provider and tracer handles at any time      *)

ASSUME TraceLifecycleAssumption ==
  /\ NoHelper \notin Helpers
  /\ SpawnCanFail \in BOOLEAN
  /\ MaxHandles \in Nat

VARIABLES
  shutdown,   (* OtelSdk.shutdown                                     *)
  inFlight,   (* OtelSdk.flush_in_flight                              *)
  sdkLive,    (* otel_sdk_destroy has not been called                 *)
  inSlot,     (* the global slot references this SDK's provider       *)
  handles,    (* how many provider handles and tracers reference it   *)
  stops,      (* how often the pipeline has been shut down            *)
  helper,     (* what each helper thread is doing                     *)
  mine,       (* the helper a call waits for                          *)
  pc          (* where each application thread is                     *)

refVars == <<sdkLive, inSlot, handles>>
flushVars == <<inFlight, helper, mine>>
vars == <<shutdown, refVars, flushVars, stops, pc>>

Init ==
  /\ shutdown = FALSE
  /\ inFlight = FALSE
  /\ sdkLive = TRUE
  /\ inSlot = FALSE
  /\ handles = 0
  /\ stops = 0
  /\ helper = [h \in Helpers |-> "unused"]
  /\ mine = [t \in Threads |-> NoHelper]
  /\ pc = [t \in Threads |-> "idle"]

Goto(t, from, to) ==
  /\ pc[t] = from
  /\ pc' = [pc EXCEPT ![t] = to]

HelperStep(h, from, to) ==
  /\ helper[h] = from
  /\ helper' = [helper EXCEPT ![h] = to]

(* The helpers whose closure still holds its clone of the provider. *)
HoldsProvider(h) == helper[h] \in {"flushing", "cleared", "answered"}

(* The threads whose call owns a boxed reference (provider_ctx, provider_retain). *)
HoldsBox(t) == pc[t] \in {"install", "free_old", "free_replaced", "get_tracer"}

(* No thread holds the slot's read lock. *)
Writable == \A t \in Threads : pc[t] # "retain"

(* Somebody holds a reference to the pipeline. *)
Referenced ==
  \/ sdkLive \/ inSlot \/ handles > 0
  \/ \E h \in Helpers : HoldsProvider(h)
  \/ \E t \in Threads : HoldsBox(t)

(* A reference is dropped.  The last one shuts the pipeline down, unless that
   was done before.  Stands last in its action: it needs every other new value. *)
DropProvider == stops' = IF ~Referenced' /\ stops = 0 THEN 1 ELSE stops

(* No thread is in a call on the SDK handle. *)
Unused == \A t \in Threads : pc[t] \in {"idle", "free_replaced", "retain", "get_tracer"}

--------------------------------------------------------------------------------
(* otel_sdk_force_flush. *)

(* A shut-down SDK refuses the call, which then changes nothing.  Bound: a
   helper is left for every call on its way to spawn one. *)
force_flush(t) ==
  /\ sdkLive
  /\ ~shutdown
  /\ \/ Goto(t, "idle", "flush_here")
     \/ /\ Cardinality({h \in Helpers : helper[h] = "unused"})
             > Cardinality({u \in Threads : pc[u] \in {"swap", "spawn"}})
        /\ Goto(t, "idle", "swap")
  /\ UNCHANGED <<shutdown, flushVars, refVars, stops>>

(* Without a timeout the flush runs on the calling thread, flag or no flag. *)
FlushHere(t) ==
  /\ Goto(t, "flush_here", "idle")
  /\ UNCHANGED <<shutdown, flushVars, refVars, stops>>

SwapFlag(t) ==
  /\ \/ inFlight /\ Goto(t, "swap", "idle")
     \/ ~inFlight /\ Goto(t, "swap", "spawn")
  /\ inFlight' = TRUE
  /\ UNCHANGED <<shutdown, refVars, stops, helper, mine>>

Spawn(t) ==
  /\ Goto(t, "spawn", "wait")
  /\ \E h \in Helpers :
       /\ HelperStep(h, "unused", "flushing")
       /\ mine' = [mine EXCEPT ![t] = h]
  /\ UNCHANGED <<shutdown, inFlight, refVars, stops>>

(* spawn drops the closure it could not run: FlushGuard clears the flag... *)
SpawnFails(t) ==
  /\ SpawnCanFail
  /\ Goto(t, "spawn", "spawn_failed")
  /\ inFlight' = FALSE
  /\ UNCHANGED <<shutdown, refVars, stops, helper, mine>>

(* ... and the error path clears it once more. *)
SpawnFailed(t) ==
  /\ Goto(t, "spawn_failed", "idle")
  /\ inFlight' = FALSE
  /\ UNCHANGED <<shutdown, refVars, stops, helper, mine>>

(* Fault: the call waits for the helper however long it takes. *)
WaitEndsUntimed(t) ==
  /\ Goto(t, "wait", "idle")
  /\ mine[t] # NoHelper
  /\ helper[mine[t]] \in {"answered", "hung_up", "ended"}
  /\ mine' = [mine EXCEPT ![t] = NoHelper]
  /\ UNCHANGED <<shutdown, inFlight, refVars, stops, helper>>

(* recv_timeout: the helper answered, or hung up, or the time is over. *)
WaitEnds(t) ==
  /\ Goto(t, "wait", "idle")
  /\ mine' = [mine EXCEPT ![t] = NoHelper]
  /\ UNCHANGED <<shutdown, inFlight, refVars, stops, helper>>

--------------------------------------------------------------------------------
(* The helper thread. *)

(* Fault: the flag stays set while the result is already on its way. *)
FlushReturnsFlagged(h) ==
  /\ HelperStep(h, "flushing", "cleared")
  /\ UNCHANGED <<shutdown, inFlight, refVars, stops, mine, pc>>

(* drop(guard) comes before the result is sent. *)
FlushReturns(h) ==
  /\ HelperStep(h, "flushing", "cleared")
  /\ inFlight' = FALSE
  /\ UNCHANGED <<shutdown, refVars, stops, mine, pc>>

SendResult(h) ==
  /\ HelperStep(h, "cleared", "answered")
  /\ UNCHANGED <<shutdown, inFlight, refVars, stops, mine, pc>>

(* The closure ends and with it the helper's reference to the provider. *)
HelperEnds(h) ==
  /\ HelperStep(h, "answered", "ended")
  /\ UNCHANGED <<shutdown, inFlight, refVars, mine, pc>>
  /\ DropProvider

(* Fault: a flush that panics leaves the flag behind. *)
FlushPanicsFlagged(h) ==
  /\ HelperStep(h, "flushing", "hung_up")
  /\ UNCHANGED <<shutdown, inFlight, refVars, mine, pc>>
  /\ DropProvider

(* Unwinding drops the provider, the guard and the sender. *)
FlushPanics(h) ==
  /\ HelperStep(h, "flushing", "hung_up")
  /\ inFlight' = FALSE
  /\ UNCHANGED <<shutdown, refVars, mine, pc>>
  /\ DropProvider

--------------------------------------------------------------------------------
(* otel_sdk_shutdown and otel_sdk_destroy. *)

(* Fault: the flag is read and, later, set, not swapped. *)
ShutdownUnswapped(t) ==
  /\ sdkLive
  /\ Goto(t, "idle", "stop")
  /\ ~shutdown \/ \E u \in Threads : pc[u] = "stop"
  /\ shutdown' = TRUE
  /\ UNCHANGED <<flushVars, refVars, stops>>

(* The first call wins; every other one returns at once. *)
otel_sdk_shutdown(t) ==
  /\ sdkLive
  /\ ~shutdown
  /\ shutdown' = TRUE
  /\ Goto(t, "idle", "stop")
  /\ UNCHANGED <<flushVars, refVars, stops>>

StopPipeline(t) ==
  /\ Goto(t, "stop", "idle")
  /\ stops' = stops + 1
  /\ UNCHANGED <<shutdown, flushVars, refVars>>

(* Fault: the handle goes but its reference to the provider stays. *)
DestroyLeaks(t) ==
  /\ sdkLive
  /\ Unused
  /\ sdkLive' = FALSE
  /\ UNCHANGED <<shutdown, inSlot, handles, flushVars, stops, pc>>

(* Never concurrent with another call on the handle; a helper may still be
   flushing, the slot and handles keep their references.  Drop for OtelSdk shuts
   the other signals down, not this one. *)
destroy(t) ==
  /\ sdkLive
  /\ Unused
  /\ sdkLive' = FALSE
  /\ UNCHANGED <<shutdown, inSlot, handles, flushVars, pc>>
  /\ DropProvider

--------------------------------------------------------------------------------
(* The global slot. *)

(* otel_sdk_set_as_global up to the call into the API: the flag is looked at,
   then the provider boxed.  A shutdown may follow before it is installed. *)
set_as_global(t) ==
  /\ sdkLive
  /\ ~shutdown
  /\ Goto(t, "idle", "install")
  /\ UNCHANGED <<shutdown, refVars, flushVars, stops>>

(* otel_api_register_global_provider: the slot is swapped under the write lock,
   what it held is freed after that. *)
Register(t) ==
  /\ Writable
  /\ Goto(t, "install", IF inSlot THEN "free_old" ELSE "idle")
  /\ inSlot' = TRUE
  /\ UNCHANGED <<shutdown, sdkLive, handles, flushVars, stops>>

(* The API has another ABI and refuses: set_as_global frees the box itself. *)
RegisterRefused(t) ==
  /\ Goto(t, "install", "idle")
  /\ UNCHANGED <<shutdown, refVars, flushVars>>
  /\ DropProvider

(* Fault: the slot is overwritten while a reader looks at it. *)
replace_global_unlocked(t) ==
  /\ inSlot
  /\ Goto(t, "idle", "free_replaced")
  /\ inSlot' = FALSE
  /\ UNCHANGED <<shutdown, sdkLive, handles, flushVars, stops>>

(* Another SDK is installed over this one. *)
replace_global(t) ==
  /\ inSlot
  /\ Writable
  /\ Goto(t, "idle", "free_replaced")
  /\ inSlot' = FALSE
  /\ UNCHANGED <<shutdown, sdkLive, handles, flushVars, stops>>

(* The reference the slot had is released outside the lock. *)
FreeOld(t) ==
  /\ \E from \in {"free_old", "free_replaced"} : Goto(t, from, "idle")
  /\ UNCHANGED <<shutdown, refVars, flushVars>>
  /\ DropProvider

(* retain_global takes the read lock ... *)
retain_global(t) ==
  /\ inSlot
  /\ Goto(t, "idle", "retain")
  /\ UNCHANGED <<shutdown, refVars, flushVars, stops>>

(* ... and clones what the slot references before it lets go of it, or fails to,
   and the lookup with it. *)
Retain(t) ==
  /\ Goto(t, "retain", "get_tracer") \/ Goto(t, "retain", "idle")
  /\ UNCHANGED <<shutdown, refVars, flushVars, stops>>

(* The tracer is made, or its name is malformed, from the clone, which is then
   freed.  Bound: with no room for another handle the name is malformed. *)
GetGlobalTracer(t) ==
  /\ Goto(t, "get_tracer", "idle")
  /\ handles' \in {handles, handles + 1} \cap 0..MaxHandles
  /\ UNCHANGED <<shutdown, sdkLive, inSlot, flushVars>>
  /\ DropProvider

(* otel_sdk_get_tracer_provider, or a tracer or span made from a handle. *)
new_handle(t) ==
  /\ sdkLive \/ handles > 0
  /\ pc[t] = "idle"
  /\ handles < MaxHandles
  /\ handles' = handles + 1
  /\ UNCHANGED <<shutdown, sdkLive, inSlot, flushVars, stops, pc>>

destroy_handle(t) ==
  /\ handles > 0
  /\ pc[t] = "idle"
  /\ handles' = handles - 1
  /\ UNCHANGED <<shutdown, sdkLive, inSlot, flushVars, pc>>
  /\ DropProvider

--------------------------------------------------------------------------------
Call(t) ==
  \/ force_flush(t) \/ otel_sdk_shutdown(t) \/ destroy(t)
  \/ set_as_global(t) \/ replace_global(t) \/ retain_global(t)
  \/ new_handle(t) \/ destroy_handle(t)

(* What a call on the slot does once it has begun. *)
SlotStep(t) ==
  \/ Register(t) \/ RegisterRefused(t) \/ FreeOld(t)
  \/ Retain(t) \/ GetGlobalTracer(t)

(* What a timed call does without waiting for the exporter. *)
TimedStep(t) ==
  SwapFlag(t) \/ Spawn(t) \/ SpawnFails(t) \/ SpawnFailed(t) \/ WaitEnds(t)

PipelineStep(t) == FlushHere(t) \/ StopPipeline(t)

Helping(h) == FlushReturns(h) \/ FlushPanics(h) \/ SendResult(h) \/ HelperEnds(h)

Next ==
  \/ \E t \in Threads : Call(t) \/ SlotStep(t) \/ TimedStep(t) \/ PipelineStep(t)
  \/ \E h \in Helpers : Helping(h)

Spec == Init /\ [][Next]_vars

(* The scheduler runs the callers; the exporter may never answer. *)
CallersFairSpec == Spec /\ \A t \in Threads : WF_vars(TimedStep(t))

(* The exporter answers every flush and every shutdown. *)
FairSpec ==
  /\ CallersFairSpec
  /\ \A t \in Threads : WF_vars(PipelineStep(t)) /\ WF_vars(SlotStep(t))
  /\ \A h \in Helpers : WF_vars(Helping(h))

--------------------------------------------------------------------------------
(* Properties. *)

(* Every variable holds a value of its kind, and a call waits for a helper of
   its own (OtelSdk, sdk.rs:102). *)
TypeOK ==
  /\ shutdown \in BOOLEAN /\ inFlight \in BOOLEAN
  /\ sdkLive \in BOOLEAN /\ inSlot \in BOOLEAN
  /\ handles \in 0..MaxHandles
  /\ stops \in Nat
  /\ helper \in [Helpers -> {"unused", "flushing", "cleared", "answered",
                             "ended", "hung_up"}]
  /\ mine \in [Threads -> Helpers \cup {NoHelper}]
  /\ pc \in [Threads -> {"idle", "flush_here", "swap", "spawn", "spawn_failed",
                         "wait", "stop", "install", "free_old",
                         "free_replaced", "retain", "get_tracer"}]
  /\ \A t \in Threads : mine[t] # NoHelper <=> pc[t] = "wait"

Flushing == {h \in Helpers : helper[h] = "flushing"}
Spawning == {t \in Threads : pc[t] = "spawn"}

(* At most one timed flush is in flight (sdk.rs:983: "at most one in flight"). *)
AtMostOneFlush == Cardinality(Flushing) <= 1

(* The flag is set exactly while one timed flush is being started or runs: a
   caller is refused for a flush that really is unfinished, and one whose flush
   has answered can start the next at once (sdk.rs:1009, 1022). *)
FlagTracksFlush ==
  Cardinality(Flushing) + Cardinality(Spawning) = IF inFlight THEN 1 ELSE 0

(* The pipeline is shut down once, whoever comes first: a shutdown call or the
   last of the handle, the slot, the helpers and the tracers to let go
   (sdk.rs:1054). *)
StopsOnce ==
  stops = IF \/ ~Referenced
             \/ shutdown /\ \A t \in Threads : pc[t] # "stop"
          THEN 1 ELSE 0

(* Whoever has a reference, or is reading the slot to get one, finds a pipeline
   nobody but a shutdown has stopped (global.rs:67). *)
ReferencesPin ==
  Referenced \/ (\E t \in Threads : pc[t] = "retain") => stops = 0 \/ shutdown

(* Destroying an SDK that was not shut down shuts it down (sdk.h:423). *)
DestroyShutsDown == [][sdkLive /\ ~sdkLive' => stops' = 1]_vars

(* A call with a timeout returns even if the exporter never does (sdk.rs:1032). *)
TimedCallsReturn ==
  \A t \in Threads :
    pc[t] \in {"swap", "spawn", "spawn_failed", "wait"} ~> pc[t] = "idle"

(* A flush that panics, times out or never starts does not disable timed
   flushing for good (sdk.rs:975). *)
FlagClears == inFlight ~> ~inFlight

(* Once the SDK is destroyed, another SDK is installed and the tracers are gone,
   the pipeline stops, however its flushes end (sdk.rs:1015, global.rs:147). *)
LetGo == ~sdkLive /\ ~inSlot /\ handles = 0
AbandonedStops == <>[]LetGo => <>(stops = 1)
===============================================================================
