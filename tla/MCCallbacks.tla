------------------------------ MODULE MCCallbacks ------------------------------
(* The three protocols by which application callbacks are called and released, on small
   instances: a behaviour is one of a custom exporter, of observable instruments or of
   the diagnostic sink. They share no state in the code and none here; `part` says whose
   behaviour it is, the variables of the others keep their initial values. *)
EXTENDS CustomExporter

CONSTANTS
  Instruments, Readers, MaxNesting, MaxCallbacks,   \* of ObservableCallback
  Reporters, Sinks, NoSink, MaxCalls                \* of DiagnosticSink

(* "No sink" is not a sink. *)
ASSUME CallbacksAssumption == NoSink \notin Sinks

VARIABLES
  part,
  handle, enabled, userData, hasDestroy, destroyed, registered, nextObserver, observers,
  frames,
  current, reporting, used, sinkDestroyed, calls

observableVars ==
  <<handle, enabled, userData, hasDestroy, destroyed, registered, nextObserver, observers,
    frames>>
sinkVars == <<current, reporting, used, sinkDestroyed, calls>>

Observable == INSTANCE ObservableCallback

Sink == INSTANCE DiagnosticSink WITH
  Threads <- Reporters, MaxNesting <- MaxCalls, destroyed <- sinkDestroyed

CallbacksInit ==
  /\ part \in {"exporter", "observable", "sink"}
  /\ Init /\ Observable!Init /\ Sink!Init

Others == <<part, observableVars, sinkVars>>
OthersThanObservable == <<part, vars, sinkVars>>
OthersThanSink == <<part, vars, observableVars>>

CreateExporter == part = "exporter" /\ new /\ UNCHANGED Others
CallExporter(t) == part = "exporter" /\ Call(t) /\ UNCHANGED Others
ReadExporter(t) == part = "exporter" /\ Reader(t) /\ UNCHANGED Others
WriteExporter(t) == part = "exporter" /\ Writer(t) /\ UNCHANGED Others
EndExporter(t) == part = "exporter" /\ Ending(t) /\ UNCHANGED Others

ObservableApplication(i) ==
  part = "observable" /\ Observable!Application(i) /\ UNCHANGED OthersThanObservable
ObservableCollect(r, i) ==
  part = "observable" /\ Observable!Collect(r, i) /\ UNCHANGED OthersThanObservable
ObservableTrampoline(r) ==
  part = "observable" /\ Observable!Trampoline(r) /\ UNCHANGED OthersThanObservable

SinkCall(t) == part = "sink" /\ Sink!Call(t) /\ UNCHANGED OthersThanSink
SinkInternal(t) == part = "sink" /\ Sink!Internal(t) /\ UNCHANGED OthersThanSink
SinkReturns(t) == part = "sink" /\ Sink!CallbackReturns(t) /\ UNCHANGED OthersThanSink

CallbacksNext ==
  \/ CreateExporter
  \/ \E t \in Threads :
       CallExporter(t) \/ ReadExporter(t) \/ WriteExporter(t) \/ EndExporter(t)
  \/ \E i \in Instruments : ObservableApplication(i)
  \/ \E r \in Readers :
       ObservableTrampoline(r) \/ \E i \in Instruments : ObservableCollect(r, i)
  \/ \E t \in Reporters : SinkCall(t) \/ SinkInternal(t) \/ SinkReturns(t)

CallbacksSpec ==
  /\ CallbacksInit
  /\ [][CallbacksNext]_<<part, vars, observableVars, sinkVars>>

\* The fairness of each part, as its module has it.
ObservableReturns(r) ==
  part = "observable" /\ Observable!LeaveCallback(r) /\ UNCHANGED OthersThanObservable
ObservableReleases(i) ==
  part = "observable" /\ Observable!Releasing(i) /\ UNCHANGED OthersThanObservable

FairCallbacksSpec ==
  /\ CallbacksSpec
  /\ \A t \in Threads :
       WF_vars(ReadExporter(t)) /\ SF_vars(WriteExporter(t)) /\ WF_vars(EndExporter(t))
  /\ \A r \in Readers :
       WF_observableVars(ObservableTrampoline(r)) /\ SF_observableVars(ObservableReturns(r))
  /\ \A i \in Instruments : WF_observableVars(ObservableReleases(i))
  /\ \A t \in Reporters : WF_sinkVars(SinkInternal(t)) /\ SF_sinkVars(SinkReturns(t))

--------------------------------------------------------------------------------
(* An observable's user data outlives every callback that may use it and is given to its
   destructor exactly once, after the handle and the last callback are gone
   (metrics.rs:1015-1037). *)
UserDataOwnedOnce == Observable!UserDataLive /\ Observable!DestroyedOnce

(* The tokens callbacks are given, for batches (metric_batch.rs:221) and for observers
   (metrics.h:200), are good on their thread and until their callback returns. *)
CallbackTokensAreScoped == TokensAreScoped /\ Observable!TokensAreScoped

(* The diagnostic callback never runs on a sink that was given to state_destroy nor
   inside itself, and every sink is given to it exactly once (diagnostic.rs:82-103). *)
SinkOwnedOnce == Sink!EmitUsesLiveSink /\ Sink!NoRecursiveEmit /\ Sink!DestroyedOnce

(* What the application handed over with its callbacks comes back to it in the end,
   however busy the callbacks are (custom_log_exporter.rs:271, metrics.h:208,
   diagnostic.rs:158-163). *)
CallbackStateReleased ==
  StateReleased /\ Observable!UserDataReleased /\ Sink!ReplacedIsReleased
================================================================================
