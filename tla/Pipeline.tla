-------------------------------- MODULE Pipeline --------------------------------
(***************************************************************************)
(* How exporters travel from the call that creates them into an SDK:       *)
(* batch_processor.rs, log_processor.rs, periodic_metric_reader.rs,        *)
(* manual_metric_reader.rs and the builder and providers of sdk.rs.  Every *)
(* transfer poisons the C handle and moves what is inside it; every        *)
(* refusal must leave it with the caller; whoever holds an exporter last   *)
(* must release it, once.                                                  *)
(*                                                                         *)
(* "Stages" are the builders that hold one exporter: those of the batch    *)
(* span processor, the batch log processor and the periodic metric reader. *)
(* "Processors" are span processors, log processors and metric readers.    *)
(* The caller uses no handle from two threads and none he has given away.  *)
(* Calls that are refused and change nothing are not steps.                *)
(***************************************************************************)
EXTENDS Naturals, FiniteSets, Sequences, SequencesExt

CONSTANTS
  Exporters,      (* otel_{trace,log,metric}_exporter_t, used once        *)
  Stages,         (* builders that hold one exporter                      *)
  Processors,     (* span and log processors and metric readers           *)
  Builders,       (* otel_sdk_builder_t                                   *)
  Sdks,           (* otel_sdk_t                                           *)
  SignalOf,       (* the signal of every exporter and stage               *)
  NoExporter,     (* an empty exporter field                              *)
  MaxProcessors   (* MAX_SPAN_PROCESSORS, MAX_METRIC_READERS, MAX_LOG_... *)

Signals == {"trace", "metric", "log"}
Handles == Exporters \cup Stages \cup Processors \cup Builders \cup Sdks

(* A handle is of one kind, which its header tells. *)
ASSUME PipelineAssumption ==
  /\ Exporters \cap (Stages \cup Processors \cup Builders \cup Sdks) = {}
  /\ Stages \cap (Processors \cup Builders \cup Sdks) = {}
  /\ Processors \cap (Builders \cup Sdks) = {}
  /\ Builders \cap Sdks = {}
  /\ SignalOf \in [Exporters \cup Stages -> Signals]
  /\ NoExporter \notin Exporters
  /\ MaxProcessors \in Nat

VARIABLES
  unused,      (* handles that have not been created                       *)
  live,        (* handles the caller has: their header is not poisoned     *)
  staged,      (* the exporter field of a stage                            *)
  inner,       (* the exporter inside a processor                          *)
  added,       (* the processor lists of an SDK builder                    *)
  installed,   (* the processors of an SDK's providers                     *)
  providers,   (* provider handles that outlive their SDK: <<sdk, signal>> *)
  released,    (* how often an exporter was dropped                        *)
  sampler,     (* the sampler field of an SDK builder                      *)
  samplerUsed, (* the sampler of an SDK's tracer provider                  *)
  samplerSet   (* the sampler last asked of an SDK builder                 *)

handleVars == <<unused, live>>
samplerVars == <<sampler, samplerUsed, samplerSet>>
vars == <<handleVars, staged, inner, added, installed, providers, released,
          samplerVars>>

Empty == [g \in Signals |-> <<>>]

Init ==
  /\ unused = Handles
  /\ live = {}
  /\ staged = [b \in Stages |-> NoExporter]
  /\ inner = [p \in Processors |-> NoExporter]
  /\ added = [k \in Builders |-> Empty]
  /\ installed = [s \in Sdks |-> Empty]
  /\ providers = {}
  /\ released = [e \in Exporters |-> 0]
  /\ sampler = [k \in Builders |-> "default"]
  /\ samplerUsed = [s \in Sdks |-> "default"]
  /\ samplerSet = [k \in Builders |-> "default"]

--------------------------------------------------------------------------------
(* Handles. *)

(* into_raw: the caller gets a live handle. *)
Create(h) ==
  /\ h \in unused
  /\ unused' = unused \ {h}
  /\ live' = live \cup {h}

(* take, destroy: the header is poisoned.  A call that is refused has not got
   this far: it leaves the handle live. *)
Take(h) ==
  /\ h \in live
  /\ live' = live \ {h}
  /\ UNCHANGED unused

(* take and into_raw in one call. *)
Exchange(h, new) ==
  /\ h \in live
  /\ new \in unused
  /\ unused' = unused \ {new}
  /\ live' = (live \ {h}) \cup {new}

(* Dropping a set of exporters. *)
Drop(es) == released' = [e \in Exporters |-> released[e] + IF e \in es THEN 1 ELSE 0]

SignalOfProcessor(p) == SignalOf[inner[p]]
Inside(lists, g) == {inner[p] : p \in ToSet(lists[g])}
AllInside(lists) == UNION {Inside(lists, g) : g \in Signals}

--------------------------------------------------------------------------------
(* Exporters and the stages that hold one. *)

new(h) ==
  /\ h \in Exporters \cup Stages \cup Builders
  /\ Create(h)
  /\ UNCHANGED <<staged, inner, added, installed, providers, released, samplerVars>>

exporter_destroy(e) ==
  /\ Take(e)
  /\ Drop({e})
  /\ UNCHANGED <<staged, inner, added, installed, providers, samplerVars>>

(* A processor builder replaces its exporter; a reader builder refuses a second. *)
set_exporter(b, e) ==
  /\ b \in live
  /\ SignalOf[b] = SignalOf[e]
  /\ SignalOf[b] = "metric" => staged[b] = NoExporter
  /\ Take(e)
  /\ Drop({staged[b]})
  /\ staged' = [staged EXCEPT ![b] = e]
  /\ UNCHANGED <<inner, added, installed, providers, samplerVars>>

(* build: the exporter moves into a new processor. *)
stage_build(b, p) ==
  /\ b \in live
  /\ staged[b] # NoExporter
  /\ p \in Processors /\ Create(p)
  /\ inner' = [inner EXCEPT ![p] = staged[b]]
  /\ staged' = [staged EXCEPT ![b] = NoExporter]
  /\ UNCHANGED <<added, installed, providers, released, samplerVars>>

(* The worker thread or the runtime cannot be started: the exporter was taken
   already and goes with the attempt; the stage stays, empty. *)
stage_build_fails(b) ==
  /\ b \in live
  /\ staged[b] # NoExporter
  /\ Drop({staged[b]})
  /\ staged' = [staged EXCEPT ![b] = NoExporter]
  /\ UNCHANGED <<handleVars, inner, added, installed, providers, samplerVars>>

stage_destroy(b) ==
  /\ Take(b)
  /\ Drop({staged[b]})
  /\ staged' = [staged EXCEPT ![b] = NoExporter]
  /\ UNCHANGED <<inner, added, installed, providers, samplerVars>>

(* The simple processors and the manual reader have no stage. *)
wrap_exporter(e, p) ==
  /\ p \in Processors
  /\ Exchange(e, p)
  /\ inner' = [inner EXCEPT ![p] = e]
  /\ UNCHANGED <<staged, added, installed, providers, released, samplerVars>>

processor_destroy(p) ==
  /\ Take(p)
  /\ Drop({inner[p]})
  /\ UNCHANGED <<staged, inner, added, installed, providers, samplerVars>>

--------------------------------------------------------------------------------
(* The SDK builder. *)

(* otel_sdk_builder_add_*: periodic and manual readers share one list. *)
add_processor(k, p) ==
  /\ k \in live
  /\ Take(p)
  /\ Len(added[k][SignalOfProcessor(p)]) < MaxProcessors
  /\ added' = [added EXCEPT ![k][SignalOfProcessor(p)] = Append(@, p)]
  /\ UNCHANGED <<staged, inner, installed, providers, released, samplerVars>>

set_sampler(k, v) ==
  /\ k \in live
  /\ sampler' = [sampler EXCEPT ![k] = v]
  /\ samplerSet' = [samplerSet EXCEPT ![k] = v]
  /\ UNCHANGED <<handleVars, staged, inner, added, installed, providers, released,
                 samplerUsed>>

(* otel_sdk_build: the lists, the sampler and the limits move into the SDK, and
   what is left of them in the builder is their default. *)
sdk_build(k, s) ==
  /\ k \in live
  /\ s \in Sdks /\ Create(s)
  /\ installed' = [installed EXCEPT ![s] = added[k]]
  /\ added' = [added EXCEPT ![k] = Empty]
  /\ samplerUsed' = [samplerUsed EXCEPT ![s] = sampler[k]]
  /\ sampler' = [sampler EXCEPT ![k] = "default"]
  /\ UNCHANGED <<staged, inner, providers, released, samplerSet>>

(* Whatever no SDK has taken goes with the builder. *)
builder_destroy(k) ==
  /\ Take(k)
  /\ Drop(AllInside(added[k]))
  /\ added' = [added EXCEPT ![k] = Empty]
  /\ UNCHANGED <<staged, inner, installed, providers, samplerVars>>

--------------------------------------------------------------------------------
(* The SDK.  A provider is shared by the SDK and the API handles made from it. *)

get_provider(s, g) ==
  /\ s \in live
  /\ providers' = providers \cup {<<s, g>>}
  /\ UNCHANGED <<handleVars, staged, inner, added, installed, released, samplerVars>>

Held(s) == {g \in Signals : <<s, g>> \in providers}

(* Fault: the SDK takes the exporters with it while providers still use them. *)
sdk_destroy_all(s) ==
  /\ Take(s)
  /\ Drop(AllInside(installed[s]))
  /\ UNCHANGED <<staged, inner, added, installed, providers, samplerVars>>

(* The SDK drops its references to the three providers. *)
sdk_destroy(s) ==
  /\ Take(s)
  /\ Drop(UNION {Inside(installed[s], g) : g \in Signals \ Held(s)})
  /\ installed' = [installed EXCEPT ![s] =
                     [g \in Signals |-> IF g \in Held(s) THEN @[g] ELSE <<>>]]
  /\ UNCHANGED <<staged, inner, added, providers, samplerVars>>

(* The last handle of a provider whose SDK is gone. *)
provider_destroy(s, g) ==
  /\ <<s, g>> \in providers
  /\ providers' = providers \ {<<s, g>>}
  /\ IF s \in live
     THEN UNCHANGED <<installed, released>>
     ELSE /\ Drop(Inside(installed[s], g))
          /\ installed' = [installed EXCEPT ![s][g] = <<>>]
  /\ UNCHANGED <<handleVars, staged, inner, added, samplerVars>>

--------------------------------------------------------------------------------
ExporterStep(e) ==
  \/ exporter_destroy(e)
  \/ \E b \in Stages : set_exporter(b, e)
  \/ \E p \in Processors : wrap_exporter(e, p)

StageStep(b) ==
  \/ stage_build_fails(b) \/ stage_destroy(b)
  \/ \E p \in Processors : stage_build(b, p)

ProcessorStep(p) == processor_destroy(p) \/ \E k \in Builders : add_processor(k, p)

BuilderStep(k) ==
  \/ builder_destroy(k)
  \/ \E v \in {"default", "custom"} : set_sampler(k, v)
  \/ \E s \in Sdks : sdk_build(k, s)

SdkStep(s) ==
  sdk_destroy(s) \/ \E g \in Signals : get_provider(s, g) \/ provider_destroy(s, g)

Next ==
  \/ \E h \in Handles : new(h)
  \/ \E e \in Exporters : ExporterStep(e)
  \/ \E b \in Stages : StageStep(b)
  \/ \E p \in Processors : ProcessorStep(p)
  \/ \E k \in Builders : BuilderStep(k)
  \/ \E s \in Sdks : SdkStep(s)

Spec == Init /\ [][Next]_vars

--------------------------------------------------------------------------------
(* Properties. *)

(* The places exporter e is in: the caller's handle, a stage, a processor the
   caller has, an SDK builder or a provider that its SDK or a handle keeps. *)
Homes(e) ==
  {<<"caller", e>> : x \in {e} \cap live}
  \cup {<<"stage", b>> : b \in {b \in Stages : b \in live /\ staged[b] = e}}
  \cup {<<"processor", p>> : p \in {p \in Processors : p \in live /\ inner[p] = e}}
  \cup {<<"builder", k>> : k \in {k \in Builders : k \in live /\ e \in AllInside(added[k])}}
  \cup {<<"sdk", s>> : s \in {s \in Sdks : \E g \in Signals :
                                e \in Inside(installed[s], g)
                                /\ (s \in live \/ <<s, g>> \in providers)}}

(* Along every path of transfers, refusals, failures and destructions an
   exporter is in one place and, once it is in none, was dropped exactly once:
   neither leaked nor dropped under a provider that uses it (sdk.rs:772,
   batch_processor.rs:289, log_processor.rs:350). *)
ReleasedOnce ==
  \A e \in Exporters :
    released[e] + Cardinality(Homes(e)) = IF e \in unused THEN 0 ELSE 1

(* Every SDK is built "from the accumulated configuration" (sdk.h:299), of which
   only the processors are said to be used up (sdk.h:305): it samples as its
   builder was last told to. *)
SamplerIsKept ==
  [][\A k \in Builders, s \in Sdks :
       sdk_build(k, s) => samplerUsed'[s] = samplerSet[k]]_vars
================================================================================
