----------------------------- MODULE DiagnosticSink -----------------------------
(***************************************************************************)
(* The process-wide diagnostic callback (api/src/diagnostic.rs).  Any      *)
(* thread reports to the sink it finds installed while others replace it.  *)
(* Reports clone the sink and call it without a lock, so that the callback *)
(* may itself report, or replace the very sink that is running; the last   *)
(* reference to a sink runs its state_destroy, which is the application's  *)
(* code again.                                                             *)
(*                                                                         *)
(* Every thread has a stack of the calls it is inside of, the innermost    *)
(* last.  Only the innermost one moves; the application's code makes calls *)
(* from emit and from state_destroy as it does from nowhere.               *)
(***************************************************************************)
EXTENDS Naturals, Sequences

CONSTANTS
  Threads,     (* application and SDK threads                      *)
  Sinks,       (* callback tables with their user data, used once  *)
  NoSink,      (* no callback                                      *)
  MaxNesting   (* bound: calls inside of each other on one thread  *)

VARIABLES
  current,     (* DIAGNOSTIC_SINK                              *)
  reporting,   (* REPORTING_DIAGNOSTIC of each thread          *)
  used,        (* sinks handed to otel_set_diagnostic_callback *)
  destroyed,   (* how often a sink's state_destroy was called  *)
  calls        (* the calls each thread is inside of           *)

vars == <<current, reporting, used, destroyed, calls>>

Init ==
  /\ current = NoSink
  /\ reporting = [t \in Threads |-> FALSE]
  /\ used = {}
  /\ destroyed = [s \in Sinks |-> 0]
  /\ calls = [t \in Threads |-> <<>>]

Depth(t) == Len(calls[t])
Top(t) == calls[t][Depth(t)]
At(t, op, at) == Depth(t) > 0 /\ Top(t).op = op /\ Top(t).at = at

(* The application's code runs: outside of every call, or in a callback. *)
UserCode(t) ==
  /\ Depth(t) < MaxNesting
  /\ Depth(t) = 0 \/ At(t, "report", "emit") \/ At(t, "destroy", "destroy")

Enter(t, op, at, s) ==
  calls' = [calls EXCEPT ![t] = Append(@, [op |-> op, at |-> at, sink |-> s])]
Move(t, at, s) ==
  calls' = [calls EXCEPT ![t][Depth(t)].at = at, ![t][Depth(t)].sink = s]
Leave(t) == calls' = [calls EXCEPT ![t] = SubSeq(@, 1, Depth(t) - 1)]

(* The n-th call thread t is inside of holds a reference to s. *)
Holds(t, n, s) == calls[t][n].sink = s /\ calls[t][n].op # "destroy"
Held(s) == \E t \in Threads : \E n \in DOMAIN calls[t] : Holds(t, n, s)
IsLastHolder(t, s) ==
  \A u \in Threads : \A n \in DOMAIN calls[u] : Holds(u, n, s) => u = t /\ n = Depth(t)

--------------------------------------------------------------------------------
(* report: a thread inside a report has nothing more to say. *)
report(t) ==
  /\ UserCode(t)
  /\ ~reporting[t]
  /\ reporting' = [reporting EXCEPT ![t] = TRUE]
  /\ Enter(t, "report", "load", NoSink)
  /\ UNCHANGED <<current, used, destroyed>>

(* The sink is cloned under the read lock; the lock is gone before emit runs. *)
LoadSink(t) ==
  /\ At(t, "report", "load")
  /\ IF current = NoSink THEN Move(t, "end", NoSink) ELSE Move(t, "emit", current)
  /\ UNCHANGED <<current, reporting, used, destroyed>>

EmitReturns(t) ==
  /\ At(t, "report", "emit")
  /\ Move(t, "release", Top(t).sink)
  /\ UNCHANGED <<current, reporting, used, destroyed>>

(* otel_set_diagnostic_callback: a new sink, or none. *)
set_diagnostic_callback(t, s) ==
  /\ UserCode(t)
  /\ s \notin used
  /\ used' = used \cup ({s} \ {NoSink})
  /\ Enter(t, "set", "swap", s)
  /\ UNCHANGED <<current, reporting, destroyed>>

SwapSink(t) ==
  /\ At(t, "set", "swap")
  /\ current' = Top(t).sink
  /\ Move(t, IF current = NoSink THEN "end" ELSE "release", current)
  /\ UNCHANGED <<reporting, used, destroyed>>

(* Fault: the replaced sink is destroyed although a report may still use it. *)
ReleaseNow(t) ==
  /\ At(t, "report", "release") \/ At(t, "set", "release")
  /\ LET s == Top(t).sink
         left == [calls[t] EXCEPT ![Depth(t)].at = "end", ![Depth(t)].sink = NoSink]
     IN IF current = s \/ At(t, "report", "release")
        THEN calls' = [calls EXCEPT ![t] = left] /\ UNCHANGED destroyed
        ELSE /\ calls' = [calls EXCEPT ![t] =
                  Append(left, [op |-> "destroy", at |-> "destroy", sink |-> s])]
             /\ destroyed' = [destroyed EXCEPT ![s] = @ + 1]
  /\ UNCHANGED <<current, reporting, used>>

(* A reference is dropped; the last one runs state_destroy right here. *)
Release(t) ==
  /\ At(t, "report", "release") \/ At(t, "set", "release")
  /\ LET s == Top(t).sink
         left == [calls[t] EXCEPT ![Depth(t)].at = "end", ![Depth(t)].sink = NoSink]
     IN IF current = s \/ ~IsLastHolder(t, s)
        THEN calls' = [calls EXCEPT ![t] = left] /\ UNCHANGED destroyed
        ELSE /\ calls' = [calls EXCEPT ![t] =
                  Append(left, [op |-> "destroy", at |-> "destroy", sink |-> s])]
             /\ destroyed' = [destroyed EXCEPT ![s] = @ + 1]
  /\ UNCHANGED <<current, reporting, used>>

DestroyReturns(t) ==
  /\ At(t, "destroy", "destroy")
  /\ Leave(t)
  /\ UNCHANGED <<current, reporting, used, destroyed>>

(* ReportingGuard outlives the report's reference to the sink. *)
End(t) ==
  /\ At(t, "report", "end") \/ At(t, "set", "end")
  /\ Leave(t)
  /\ reporting' = IF Top(t).op = "report" THEN [reporting EXCEPT ![t] = FALSE]
                  ELSE reporting
  /\ UNCHANGED <<current, used, destroyed>>

--------------------------------------------------------------------------------
Call(t) == report(t) \/ \E s \in Sinks \cup {NoSink} : set_diagnostic_callback(t, s)

Internal(t) == LoadSink(t) \/ SwapSink(t) \/ Release(t) \/ End(t)
CallbackReturns(t) == EmitReturns(t) \/ DestroyReturns(t)

Next == \E t \in Threads : Call(t) \/ Internal(t) \/ CallbackReturns(t)

Spec == Init /\ [][Next]_vars

(* A callback returns in the end, whatever calls it makes before. *)
Fairness == \A t \in Threads : WF_vars(Internal(t)) /\ SF_vars(CallbackReturns(t))

FairSpec == Spec /\ Fairness

--------------------------------------------------------------------------------
(* Properties. *)

CallType ==
  [op : {"report", "set", "destroy"},
   at : {"load", "emit", "swap", "release", "destroy", "end"},
   sink : Sinks \cup {NoSink}]

(* Every variable holds a value of its kind; a thread is marked as reporting
   exactly while it is inside a report (diagnostic.rs:57-69). *)
TypeOK ==
  /\ current \in Sinks \cup {NoSink}
  /\ reporting \in [Threads -> BOOLEAN]
  /\ used \subseteq Sinks
  /\ destroyed \in [Sinks -> Nat]
  /\ calls \in [Threads -> Seq(CallType)]
  /\ \A t \in Threads :
       reporting[t] <=> \E n \in DOMAIN calls[t] : calls[t][n].op = "report"

(* emit never runs on a sink whose state_destroy was called, even if the running
   callback itself replaces the sink (diagnostic.rs:85-103). *)
EmitUsesLiveSink ==
  \A t \in Threads : \A n \in DOMAIN calls[t] :
    calls[t][n].op = "report" /\ calls[t][n].sink # NoSink
      => destroyed[calls[t][n].sink] = 0

(* The callback never runs inside itself on one thread, however emit and
   state_destroy call back (diagnostic.rs:82-84). *)
NoRecursiveEmit ==
  \A t \in Threads : \A m, n \in DOMAIN calls[t] :
    calls[t][m].op = "report" /\ calls[t][n].op = "report" => m = n

(* state_destroy is called once for every sink that is installed no more and in
   nobody's hands (diagnostic.rs:47). *)
DestroyedOnce ==
  \A s \in Sinks :
    destroyed[s] = IF s \in used /\ current # s /\ ~Held(s) THEN 1 ELSE 0

(* A replaced sink is given back once the reports that use it have returned
   (diagnostic.rs:158-163). *)
ReplacedIsReleased ==
  \A s \in Sinks :
    (\E t \in Threads : At(t, "set", "release") /\ Top(t).sink = s) ~> destroyed[s] = 1
===============================================================================
