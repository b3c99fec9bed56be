# Formal models of opentelemetry-c

opentelemetry-c gives C programs the OpenTelemetry API and SDK. It is three Rust crates:
`api/` (the shared library instrumentation links), `sdk/` (the shared library an application
adds to configure pipelines, a layer over the upstream `opentelemetry_sdk` crate) and `abi/`
(the `#[repr(C)]` types and vtables between the two). Two things are hard to test in it.
*Ownership and order*: references that cross the library boundary, process-global slots that
threads replace while others read them, callbacks that run while their owner goes away, tokens
that must die on time. *Checks that must agree*: tables the two libraries repeat, pools of
untrusted indices, limits counted in several places, headers written here and read elsewhere.
This directory models both in TLA+, checks them with TLC, and proves with TLAPS the safety
properties of the first and some of the second.

Paths below are relative to the repository. `M!D` names definition D of module M.

## 1. Inventory

### Components, their state and operations

| Component | State | Operations | Model |
|---|---|---|---|
| Metrics global slot (`api/src/metrics_global.rs`) | `GLOBAL_METRICS` (vtable, context, registration id) under an RwLock; `NEXT_REGISTRATION_ID` | register, unregister by token, retain | `ProviderLifecycle` |
| Metrics life cycle (`sdk/src/sdk.rs:871-938, 1112-1155, 168-194`) | `metrics_lifecycle` mutex: `shutdown_started`, `global_registration` | set as global, shutdown, destroy, get provider | `ProviderLifecycle` |
| Logs slot and life cycle (`api/src/logs_global.rs`, `sdk/src/sdk.rs:1167-1306`) | the same under other names | the same | by analogy only |
| Trace global slot (`api/src/global.rs`) | `GLOBAL` (vtable, context) under an RwLock; no token, never cleared | register, retain | `TraceLifecycle` |
| Trace flush and shutdown (`sdk/src/sdk.rs:943-1067`) | `shutdown`, `flush_in_flight`; helper threads | force_flush, shutdown, destroy | `TraceLifecycle` |
| Tracers and spans (`api/src/trace.rs`, `sdk/src/vtable.rs`) | per span handle: vtable, context, `ended`; the shared `NOOP_SPAN`; span context handles | start (three ways), write, end, destroy, context operations | `Spans` |
| Last-error slot (`api/src/error.rs`) | `LAST_ERROR` of each thread | set, clear, read | `Spans` (for its calls) |
| Observable instruments (`api/src/metrics.rs:975-1475`, `sdk/src/metrics_vtable.rs`) | per callback: `enabled`, `user_data`; per thread: `OBSERVERS`; `NEXT_OBSERVER` | create, destroy, trampoline, observe | `ObservableCallback` |
| Meters and instruments (`api/src/metrics.rs`, `sdk/src/metrics_vtable.rs`) | handles, the SDK's boxes behind them, callback states | get meter, create, record, bind, record bound, collect, destroy | `Instruments` |
| Metric views (`sdk/src/metric_view.rs`) | a builder's and a view's configuration | setters, build, add to an SDK builder, apply | `MetricViews` |
| Manual reader (`sdk/src/manual_metric_reader.rs`) | `shutdown`; upstream's reader; the exporter | flush, shutdown, destroy | `ManualReader` |
| Periodic reader (`sdk/src/periodic_metric_reader.rs`) | builder: runtime, timeout, exporter | set, build, destroy | `OtlpExporters`, `Pipeline` |
| OTLP exporters (`sdk/src/otlp_*.rs`, `metric_exporter.rs`) | configuration; a private gRPC runtime | configure, build, export, destroy | `OtlpExporters` |
| Custom exporters (`sdk/src/custom_*_exporter.rs`) | shutdown flag in an RwLock | export, force_flush, shutdown, drop | `CustomExporter` |
| Metric batches (`sdk/src/metric_batch.rs`) | batch tokens per thread | visit | `CustomExporter` (tokens), `MetricBatch` (walk) |
| Span and log batches (`sdk/src/span_export_view.rs`, `log_export_view.rs`) | buffers that point at one another | convert, show, drop | `ExportViews` |
| Pipeline construction (`sdk/src/sdk.rs:53-838`, processors, readers) | what a handle holds, whether it is poisoned | create, set_exporter, build, add, destroy | `Pipeline` |
| Loggers and records (`api/src/logs.rs`, `sdk/src/logs_vtable.rs`) | logger handles; a record and its pool of values | get logger, enabled, emit (three ways), export | `Logs`, `LogValues` |
| Baggage (`api/src/baggage.rs`) | builder, immutable baggage | set, remove, build, visit, inject, extract | `BaggageValues`, `Propagation` |
| Trace context (`api/src/propagation.rs`) | none | inject, extract | `TraceContext`, `Propagation` |
| Context scopes (`api/src/context.rs`) | per-thread stack and counters; `NEXT_THREAD_TOKEN` | current, attach, detach, thread exit | `ContextStack` |
| Diagnostics (`api/src/diagnostic.rs`) | `DIAGNOSTIC_SINK`; per-thread `REPORTING_DIAGNOSTIC` | set callback, report | `DiagnosticSink` |
| ABI types, upstream crate, examples | | | not modelled (section 8) |

### How they interact

- An instrumentation library calls the API. The API looks into the signal's global slot, takes
  a reference of its own to the provider there *under the read lock* and calls the SDK through
  its vtable. Without an SDK every call is a no-op. A vtable may be an older SDK's and lack the
  newer entries; handles of several SDKs may meet in one call.
- The application builds a pipeline: exporters move into processors and readers, those into the
  SDK builder, that into the SDK. Each move poisons the C handle it came from.
- The SDK installs itself in the slots through functions of the API. A replaced provider is
  freed outside the slot's lock, by the thread that replaced it.
- Upstream worker threads call back: exporters written in C, observable callbacks. Both may
  call into the library again; what they are lent is good until they return.
- Baggage and span contexts leave the process in headers and come back in others, which any
  implementation may have written.

### Where it is hard

The list with lines is `hazards` in `PROJECT.json`. In short:

1. *Lookup against replacement*: a reader must have its reference before the replaced one is
   freed (`global.rs:72`, `metrics_global.rs:91`, `diagnostic.rs:88`).
2. *Installation against shutdown* of one SDK, and stale registrations of an older SDK
   (`sdk.rs:879`, `metrics_global.rs:176`).
3. *Time-outs*: a timed flush gives up while its helper goes on, and the handle may be destroyed
   meanwhile (`sdk.rs:1009-1040`).
4. *Callbacks*: user data must outlive the running callback, also when that callback destroys
   its own instrument or replaces its own sink (`metrics.rs:1016`, `diagnostic.rs:88`).
5. *Tokens* that C code may keep, copy and reuse (`context.rs:390`, `metrics.rs:1190`,
   `metric_batch.rs:221`), and counters that wrap (`context.rs:72-89`).
6. *Failure in the middle*: a refused registration, a thread that cannot be spawned, a flush
   that panics, a creation that fails after the callback was leased, a runtime that does not
   start, an exporter that is dropped where its runtime must not be.
7. *Collected but not exported*: a manual flush has emptied a delta pipeline while another
   flush or a shutdown overtakes it (`manual_metric_reader.rs:37`).
8. *Two implementations at once*: a parent span, a vtable or a context handle of another SDK
   (`trace.rs:918`), and an `ended` flag that all users of the no-op span share (`trace.rs:185`).
9. *Untrusted structure*: pools of indices checked in two passes (`logs_vtable.rs:624`), pointers
   into buffers that move (`log_export_view.rs:961`), patterns that overlap themselves
   (`metric_view.rs:552`), limits that several functions count (`baggage.rs:250`).

Nothing is persisted and no message is lost or reordered by this code itself, so crash recovery
and unreliable delivery are not hazards here; delivery is the upstream exporters' business.

## 2. Modules

A step of a model is one access to state other threads can see, or a block of code under one
lock that makes no call; a call on an object one thread uses at a time is one step. Names of
actions and variables are the code's where TLA+ allows it; `map` in `PROJECT.json` gives the
source lines of every definition. Operators whose comment begins with `Fault:` are not used by
any specification: each is a plausible mistake in the definition that follows it, kept to show
that a property notices it (`mutants` in `PROJECT.json`).

### Providers

**`GlobalProvider`** is the abstract specification of a signal's slot: one register, taken by
running SDKs, cleared only by the SDK in it, which is out of it before it stops.

**`ProviderLifecycle`** is how the code does that. A *context* is one boxed clone of a provider
(`provider_ctx`, `vt_provider_retain`); `frees` counts `provider_free` on it and `Owners` says
who must call that. Threads run `set_as_global` (lock the life-cycle mutex, draw a token, swap
the slot, free the old context, store the token), `shutdown` (take the token under the mutex,
unregister if the slot still has it, stop the provider), `destroy` (the same without the
mutex, which the C contract makes exclusive), `get_meter_provider` and lookups in the slot.
`ProviderLifecycle!Global` instantiates `GlobalProvider` with the SDK whose provider the slot
references and the phase each SDK is in.

**`TraceLifecycle`** is the trace signal of one SDK. It differs from the other two: there is no
mutex, no token and no unregistration, and destruction does not shut the provider down but
drops one reference to it (`sdk.rs:168-194` names the meter and the logger provider only). The
model counts who references the pipeline: the handle, the slot, provider handles and tracers,
boxes in a running call, helpers of timed flushes. A helper runs `provider.force_flush`, drops
the guard that clears `flush_in_flight`, sends its answer and ends, in that order, or panics.

### Callbacks and tokens

**`ObservableCallback`**: for every instrument the handle's life (creation that may fail after
the callback is registered, destruction in three steps), the reference-counted user data and
the closure in the upstream pipeline; for every collecting thread a stack of trampolines, each
of which reads `enabled`, acquires the user data, draws an observer token, runs the callback,
revokes the token and releases.

**`CustomExporter`**: threads export and flush under the read lock, shut down under the write
lock; the owner drops the exporter while calls may be running; Drop shuts down, then runs
`state_destroy`. The batch token of the metric exporter is part of the export step.
`read_callbacks` reads only the members that the caller's `struct_size` covers.

**`DiagnosticSink`**: the sink is cloned out of the lock, called, released; whoever drops the
last reference runs `state_destroy`. Each thread has a stack of calls, because both callbacks
may report or replace the sink again.

**`ContextStack`**: the per-thread stack of attached contexts, scope tokens in the caller's
memory (copied at will) and the two wrapping counters. The initial states are those of a
program that has run for a while, so that a wrap is a few steps away; no number that a thread
will still get is in use (`Ahead`).

### Spans, logs, propagation

**`Spans`**: tracers, span handles, span objects and span context handles over several
implementations, each with the vtable entries of its age (`Features`), and over none. Every call
has its refusals in the order of the code, and says whether it leaves a reason in the last-error
slot. A provider may be shut down at any time, after which its spans have no ids; it may panic
in any call, which the vtable's guards turn into a failure without a reason (`Panic`,
`FailSilently`). `StartSpanEx` reads only the fields `struct_size` covers.

**`LogValues`** has the operators on pools: `Validate` is the SDK's first pass, which claims
ranges and remembers what was referenced; `Convert` its second; `Flatten` lays values
out again. `IsForest` is the reference definition. **`Logs`** has the calls: a record with its
flaws is emitted with a context, without or with the thread's current one, waits in the
processor and is shown to an exporter, or not, with the rest of its batch. A batch is withheld
for what a record carries, what its scope or the exporter's resource carries (`Owner`: a number
of attributes, and whether a string is too long) or the number of its records.

**`BaggageValues`** has the builder's limits, the parser and the printer of the baggage header;
**`TraceContext`** those of `traceparent` and `tracestate`. A value is one of a few that differ
in what encoding and decoding do to them: a printable byte, a percent sign, a byte to be escaped,
the replacement character. **`Propagation`** makes a process of them: it builds baggage and
contexts, writes them to a carrier, others rewrite the carrier, it reads them back.

### The path of the data

**`Pipeline`**: exporters on their way into an SDK, with every refusal (wrong signal, occupied
slot, full list, dead handle) and every failure after something has moved; when the holder
goes, what it holds is released. Also the sampler, which the SDK builder gives away.

**`Instruments`**: the typed functions of the API as rows of tables (kind, number, vtable entry,
trampoline) and the SDK's tables behind the untyped pointers; creation and binding with every
point of failure; an SDK with none, one, two or all three of the extensions of the metrics vtable.

**`MetricViews`**: a builder with its validation, a view with its owner, and the
criteria with the wildcard as the code matches it.

**`ManualReader`**: the three steps of a flush and the three of a shutdown, by several threads,
over what was measured, collected, exported and lost.

**`MetricBatch`**: `otel_metric_batch_visit` as one nested loop that a callback's answer or a
time that C cannot hold may end at any point.

**`ExportViews`**: a `Vec` is a buffer that moves, and is freed, when it grows; the views are
converted record by record, pointed at each other, shown and dropped.

**`OtlpExporters`**: builders and headers, the features compiled into the library, the private
runtime of a gRPC exporter from `build` to disposal, from outside and from inside another
runtime, and the periodic reader that drives the exporter.

`MC<module>` modules add the values of the instances. `MCCallbacks`, `MCDataPath` and
`MCPayloads` (`Logs` and `Propagation`) check several components in one run. The components there share no state in the code but handles that
are moved once, so interleaving two of them would show nothing that each alone does not; each
behaviour is one component's, chosen by `part` in the initial state, and a property says
something of its own part. The OTLP part's names, headers and builds are constants of `MCDataPath` with
values in `DataPath.cfg`, so that what is proved of that part holds for any.

`ProviderLifecycle_proofs`, `TraceLifecycle_proofs`, `ContextStack_proofs`,
`CustomExporter_proofs`, `ManualReader_proofs` and `Spans_proofs` hold the proofs about the
modules they are named after; `Callbacks_proofs` those about `ObservableCallback` and
`DiagnosticSink` as `MCCallbacks` composes them, and `DataPath_proofs` those about `Pipeline`,
`ManualReader`, `OtlpExporters` and `Instruments` as `MCDataPath` composes them.

## 3. Runs

Deadlock checking is off where handles, contexts and callbacks are used up, so that a program
that makes no further calls stops; that nothing gets stuck is what the liveness properties say.
`spans` and `payloads` never stop and check it.

| Run | Instance | Distinct states | What it shows |
|---|---|---|---|
| `provider` | 2 threads, 2 SDKs, 3 contexts | 159 438 | References are released once and never used after it; only the owner of a registration clears it; the whole implements `GlobalProvider`; every call returns, and every shutdown or destruction begun is completed |
| `trace_safety` | 3 threads, 2 helpers, 1 handle, no spawn failure | 185 932 | The in-flight flag means exactly one unfinished flush; the pipeline stops once, and not under somebody who references it; timed calls return even if the exporter never does |
| `trace_liveness` | 2 threads, 2 helpers, 2 handles, spawn may fail | 49 419 | The flag is always cleared again; an abandoned pipeline stops |
| `trace_spawn_failure` | 3 threads, 3 helpers, spawn may fail | violation | Two timed flushes at once (section 6) |
| `trace_destroy` | 2 threads, 1 helper, 1 handle | violation | Destruction without shutdown (section 6) |
| `context` | 2 threads, 2 scopes, 2 contexts, depth 2, 3 attachments; 3 generations, 3 thread tokens | 171 470 | A token names one attachment and is never the inactive one; detaching restores what was current; a used token is refused for ever |
| `callbacks` | exporter: 3 threads, 2 batch tokens; observables: 2 instruments, 2 readers, nesting 2, 3 callbacks; sink: 2 threads, 2 sinks, 4 calls deep | 43 064 | No callback after shutdown has begun, none on released state, none on a replaced sink; tokens are scoped; every state comes back once, and does come back |
| `spans` | 2 implementations (current and old), 1 tracer, 2 span handles, 2 context handles, 2 spans | 114 640 | A span ends once and belongs to one handle; no implementation sees another's span; context handles are valid |
| `spans_panic` | as `spans` | violation | A call fails without a reason (section 6) |
| `payloads` | pools of up to 3 nodes under 1 attribute and 2 under 2, every flaw of a header, 3 records queued of which 2 may be exported, 3 scopes, 3 resources; 3 token keys and 1 other, limits 2 entries and 11 bytes, headers of 4 members, tracestates at each limit of the grammar | 425 371 | Exactly the forests within the limits are taken, converted as they are laid out, correlated as asked, and exported in a valid pool again, unless their scope, resource or batch is too large. Limits hold however baggage is made; what crosses a boundary is what was sent |
| `data_path` | see `DataPath.cfg`, each part as large as below | 1 345 876 | Exporters and instruments have one owner; tables agree; views select as declared; manual flushes account for what they took; walks and views are faithful; OTLP exporters are as asked and can export |
| `pipeline_sampler` | 1 processor, 1 builder, 2 SDKs | violation | A second build loses the sampler (section 6) |

### Why the bounds are enough

- *Provider*: the races are between an installer, a second one or a stopper, and a reader;
  staleness needs two SDKs, and three contexts allow an installation over an installation with
  a clone in between. The safety properties are proved for any number (section 5), so the run
  is sized for its liveness, with two threads.
- *Trace*: the flag needs two callers and a third who is refused; a refused spawn matters with
  two further callers, so that run has three helpers. One handle tells "somebody else still
  references it" from "nobody does"; the liveness run has two.
- *Observable*: nesting two lets a callback of one instrument run inside another's, on each of
  two threads; three tokens let one thread draw two while the other holds one.
- *Diagnostics*: four calls deep is a report inside a `state_destroy` inside a replacement inside
  a report.
- *Context*: depth two has an innermost and an outer attachment; three attachments reach the
  depth limit and one after it. Generation and thread numbers have three values besides zero,
  one more than can be in use, so the wrap happens and no number comes round to one in use.
  `TokensIdentify` would fail if 2^64 attachments passed while one token was kept; a program
  cannot get there.
- *Spans*: two implementations of different age give every missing vtable entry and every mixed
  parent; two handles are a parent and its child; two context handles are a copy and its
  original. Options of `start_span_ex` have one flaw at a time, since the first flaw refuses.
  States that differ only in what the last call answered count as one (`VIEW WithoutAnswers`):
  no action and none of the run's properties reads the answer.
- *Logs*: three nodes suffice for a cycle, a shared node, an unreachable one and one nested too
  deep; with an attribute limit of two, a third attribute is one too many. Scopes and resources
  are at the attribute limit, one over it, or have a string that is too long. Two records are
  the largest batch that may be exported. What is added to a batch that will be withheld, for a
  scope or as the third record, is an empty record, pools are emitted in a scope that fits, and
  the thread's context changes between batches (`SmallBatches`); a batch that may be shown has
  any two records.
- *Propagation*: with a limit of two entries the third is refused or ignored; eleven bytes are
  passed by one encoded replacement character (nine) and another member, but not by what a
  program stores for them.
- *Pipeline*: 2 trace and 2 metric exporters, 2 stages, 2 processors, 1 builder, 1 SDK, lists of
  one, which make the limit one step away; two signals give the wrong-signal refusals, which are
  the same for logs.
- *Instruments*: three handles are a meter, an instrument and a binding of it; all 16 typed
  instruments and all four ages of the vtable are among the choices.
- *Views*: two setters and the build; names of up to three letters, so that `a*a` meets `a`.
- *Manual reader*: two threads and two measurements, one before and one after the other flush.
- *Metric batch*: two scopes of two metrics, each kind among them, points with two exemplars;
  the walk may be refused at each.
- *Export views*: batches of up to three records where two are allowed, so that every `Vec`
  moves once after something was put in it, and the limit is passed.
- *OTLP*: two headers of which one may repeat the other in another case; two builds, one with
  both transports, one that can only compress over gRPC.

## 4. Fairness

Fairness is stated for code that has begun and may run, never for the choice to make a call.

- Threads inside a call are scheduled: weak fairness of their steps.
- `ProviderLifecycle!Fairness`, `CustomExporter!Fairness`: strong fairness for writers. std's
  RwLock lets no new reader in while a writer waits, so a stream of readers does not starve it.
- `TraceLifecycle!CallersFairSpec`: only the callers' own steps. The exporter may hang for ever,
  which is what `TimedCallsReturn` is about. `FairSpec` adds that flush and shutdown return.
- `ObservableCallback`, `DiagnosticSink`: the application's callbacks return
  (`metrics.h:204`: "Callbacks must finish in finite time"). The fairness is strong where a
  callback can itself make calls and so enable and disable its return.
- `MCCallbacks!FairCallbacksSpec` states the three again for the parts of the composition.

The modules whose calls are single steps, and `ManualReader`, whose properties are safety
properties, state none.

## 5. Proofs

`ProviderLifecycle_proofs` proves, for any threads, SDKs and contexts, from
`ProviderLifecycleAssumption` (the "no thread", "no SDK", NULL values are none of the real ones):

| Theorem | Property | Invariant |
|---|---|---|
| `TypeCorrect` | `TypeOK` | itself |
| `StoppedNeverGlobalHolds`, `RegistrationTracksSlotHolds` | a stopped provider is not global; a stored token is the key to the slot | `LifecycleInv` |
| `OnlyOwnerClearsHolds` | `OnlyOwnerClears` | `TokenInv` |
| `RefinesGlobalProvider` | `ImplementsGlobalProvider` | `LifecycleInv` and `TokenInv` |
| `NoUseAfterFreeHolds`, `SingleOwnerHolds` | `NoUseAfterFree`, `SingleOwner` | `OwnerInv` |

*Why the invariants are stronger than the properties.* "A stopped provider is not in the slot"
says nothing of a call that is half way. `LifecycleInv` adds: an installer holds the mutex of an
SDK that is not shutting down (`InstallerHoldsLock`), so the shutdown's test and the installation
exclude each other; at most one thread stops an SDK (`StopperIsAlone`); and whoever is in the slot
can be cleared, by the stored registration, by the installer about to store it, or by the
unregistration under way (`SlotHasKey`). `TokenInv` adds that tokens are drawn once: below the
counter, unknown to others while on their way to the slot, and naming the SDK in it.
`OwnerInv` adds that contexts are never shared between the slot, the handles and the locals of a
call, and that a reader inside the lock is looking at the slot's own context.

`TraceLifecycle_proofs` proves, for any threads, helpers and number of handles, from
`TraceLifecycleAssumption`:

| Theorem | Property | Invariant |
|---|---|---|
| `TypeCorrect` | `TypeOK` | itself |
| `StopsOnceHolds`, `ReferencesPinHolds` | `StopsOnce`, `ReferencesPin` | `StopInv` |
| `FlagTracksFlushHolds` (if helpers can always be spawned) | `FlagTracksFlush` | `FlagInv` |

`StopInv` adds to `StopsOnce` what keeps references from coming out of nothing: a call that will
still clone the provider keeps the SDK alive, a reader keeps the slot as it is, and the swap of
the shutdown flag lets one call through. `FlagInv` says that the flag is a lock that passes from
the caller who wins it to that caller's helper; the only thing that breaks it is a refused spawn.

`ContextStack_proofs` proves, for any threads, scopes, depth and size of the counters, from
`ContextStackAssumption`: `TypeCorrect` (with the depth limit) and `ScopesNestHolds`. The
invariant is that each entry of a stack has the context of the entry below it as its `outer`
(`Nests`); `PushNests` and `PopNests` say so of `Append` and of the removal of the last entry.

With `TokenAssumption` (no more threads than thread numbers, no more attachments of a thread than
generations: 2^64 - 1 of each) it also proves `TokensIdentifyHolds` and the action property
`UsedTokensStayDeadHolds`. Both counters wrap, so nothing can be said by comparing numbers with
them. `TokenInv` counts around the ring instead: a generation was issued by a thread if it is no
further behind its counter than the thread has attached (`Issued`), and the number of a thread in
use is at least as far ahead of the shared counter as there are threads still to be numbered
(`Numbered`). `StackMade` and `GenerationTaken` say what one draw does to these distances, at the
wrap too. Then an attachment takes a pair no entry and no token has (`AttachStep`), and every
other step adds no entry (`TokenSteps`), which is why a dead token stays dead (`DeadTokens`).

`CustomExporter_proofs` proves, for any threads and tokens, from `CustomExporterAssumption`:
`TypeCorrect`, `ShutdownIsLastHolds`, `DestroyComesLastHolds` and `TokensAreScopedHolds`. The
invariant has three parts: `LockInv` ties the lock to the program counters and the shutdown flag
to an empty set of readers; `DropInv` says that the thread in Drop is alone; `TokenInv` that
tokens are drawn from the counter for the thread that exports.

`ManualReader_proofs` proves, for any threads and measurements and from no assumption,
`FlushAccountsHolds` and `StoppedOnceHolds`. `AccountInv` says where measurements are: a flush
holds some only between its collection and its export, and what a delta collection took, or a
cumulative one left pending, was recorded. `StopInv` says that the swap of the shutdown flag lets
one thread through, which finds the exporter running and stops the reader first. The run that
checks these properties on a small instance is `data_path`.

`Spans_proofs` proves, for any implementations of any age, tracers, handles and spans, from
`SpansAssumption` (`NULL`, the shared `NOOP_SPAN` and "no implementation" are none of the real
ones, an implementation has none to three extensions):

| Theorem | Property |
|---|---|
| `TypeCorrect` | `TypeOK` |
| `EndedExactlyOnceHolds` | `EndedExactlyOnce` |
| `OwnParentsOnlyHolds` | `OwnParentsOnly` |
| `ContextsAreValidHolds` | `ContextsAreValid` |

`EndedExactlyOnce` says from the span's side that it belongs to one handle, of its own
implementation, until it is freed, ended. The invariant adds the handle's side, which is what a
call has: a handle leads to a span that was started and is not freed (`HandlesLead`), and a
parent was started before its child, by the same implementation (`ParentsAreOwn`).

`Callbacks_proofs` proves, for any instruments, readers, nesting, threads, sinks and depth of
calls, from `CallbacksAssumption` ("no sink" is not a sink), `UserDataOwnedOnceHolds`,
`CallbackTokensAreScopedHolds` and `SinkOwnedOnceHolds`, with the type invariants
`ObservableTypeCorrect` and `SinkTypeCorrect`. In both components the last to leave releases,
so the invariants tie three things together: the state's references, the calls that use it and
whether it was released.

- `ObservableInv`: the switches of a callback state follow from where its handle is
  (`HandleState`), only closures that were registered run (`FramesAreRegistered`), and user data
  was destroyed exactly if the handle is gone and no frame refers to it. The active tokens of a
  thread are those of its running callbacks, drawn once (`TokensOfCallbacks`).
- `SinkInv`: what a call has in its hands follows from where it stands (`CallsAreShaped`), so
  that a sink is held by those who must still release it; a sink was destroyed exactly if it was
  installed, is no more and nobody holds it. A thread's mark says whether it is inside a report,
  and it is inside one at most (`ReportsAreMarked`).

`DataPath_proofs` proves properties of five parts of the run `data_path`. `PartSteps` is the
lemma on which each rests: the parts share no state, so a step is one of its part or leaves
the part's variables alone.

| Theorem | From | Invariant |
|---|---|---|
| `ReleasedOnceHolds` | `PipelineAssumption` (kinds of handles are disjoint) | `PipelineInv` |
| `ManualReaderAccountsHolds` | nothing | that of `ManualReader_proofs`, instantiated |
| `OtlpBuiltAsAskedHolds`, `OtlpRuntimeFollowsExporterHolds`, `OtlpReadersCanExportHolds` | `OtlpAssumption` (header names are folded to header names; Null is no builder, exporter or reader) | `OtlpInv` |
| `InstrumentTypesAgreeHolds`, `InstrumentsOwnedOnceHolds` | `InstrumentAssumption` (Null is not a creation under way) | `InstrumentInv` |
| `BatchViewsFaithfulHolds` | `ExportAssumption` (the limits are numbers; Null is no view) | `ExportInv` |

- `PipelineInv`: an exporter is inside one stage or processor at most, and then its caller has
  no handle of it (`Carried`); a processor is its caller's, or in one list of one builder or SDK
  that is still there (`Listed`); what nobody has was released, once (`Accounted`).
  `ReleasedOnce` counts an exporter's homes; `OneHome` says that there is one at most.
- `OtlpInv`: a builder has no two headers that are alike but for their case, so that writing them
  to a map loses none, and while a gRPC exporter is built its builder is what was validated
  (`OtlpBuilding`). A runtime runs for a gRPC exporter or for the call that builds or drops one
  (`OtlpRuntimes`). A reader and its builder own different exporters (`OtlpOwned`).
- `InstrumentInv`: `Matching` carries the row a box was made for from the creation to the handle
  and to the binding made from it, so that at a call the tables are asked about one row only;
  that they agree on every row is `TablesAgree`. `Boxes` says that each box of the SDK is a
  handle's, the creation's or freed. `Leases` says the same of callback states, and that how far
  a creation has come tells who owes the release.
- `ExportInv`: each Vec has a buffer of its own (`Sound`), so that pushing to one moves no other;
  an inner buffer belongs to no Vec and stays where it is (`Stable`), so that what was found in
  it is found there after any later push (`Rest`). Of what has been converted, the i-th entries
  of the parallel Vecs belong together (`ScopesKept`, `RecordsKept`), and the scope of a record is
  the one its index names (`IndicesKept`). `PushLengthens` and `ConvertedParts` say what one push
  and one conversion do to this. `SettleStep` follows every pointer that is taken at the end, and
  the callback reads the same (`ReadsAll`).

Each invariant has one lemma with one step per action. The refinement of `GlobalProvider` splits
into the initial states and, per action, an abstract step (`install`, `begin`, `remove`, `stop`)
or a stutter.

Only model-checked:

- All liveness (TLAPS cannot reason about fairness and ENABLED).
- What folds and recursive functions compute (induction over data): `Logs!AcceptedIffForest`,
  `ConvertedFaithfully` and `ExportRoundTrip`, `Propagation!WithinLimits` and
  `HopKeepsWhatItCarries`, `ViewsSelectAsDeclared` (the wildcard) and
  `WalkVisitsInOrder` (the order of a nested loop).

## 6. Where code and documents disagree

- **`trace_spawn_failure`** (`sdk.rs:1026`). If the helper cannot be spawned, the closure that was
  not run is dropped and its `FlushGuard` clears the flag; the error path then clears it again.
  Between the two another caller may have set it. The flag then is down while that caller's
  flush runs, and a third caller starts another, against "at most one in flight" (`sdk.rs:983`)
  and "at most one such helper exists at a time" (`sdk.h:37`). With no spawn failure
  `FlagTracksFlush` holds.
- **`trace_destroy`** (`sdk.rs:188`). "If not already shut down, dropping the SDK triggers a
  best-effort shutdown" (`sdk.h:423`). Drop shuts down metrics and logs; traces only stop with
  the last reference, so an SDK that is global, or whose tracers live, is destroyed with its
  trace pipeline running. `AbandonedStops` is what does hold.
- **`pipeline_sampler`** (`sdk.rs:778`). `otel_sdk_build` takes the sampler and the span limits
  out of the builder. `sdk.h:305` says of a second build only that it has no processors; it also
  samples by the default.
- **`spans_panic`** (`sdk/src/vtable.rs:60`). "A REAL backed/global implementation was asked and
  failed (malformed view, allocation failure, or a guarded vtable panic); it left the last-error
  set" (`trace.rs:829`, likewise `:924` and, of any failure, `trace.h:101`). The API clears the
  slot and calls the vtable, whose `guard_ptr` and `guard_status` catch a panic and answer NULL
  or `InternalError` and nothing else; the guards of `handle.rs` set the error. So after a panic,
  say of a processor, the caller has NULL and an empty slot. `retain_global` supplies a reason
  (`global.rs:85`); the trace calls have no such default. Malformed arguments do leave a reason.

That `otel_sdk_set_as_global` may install an SDK that shuts down meanwhile is not in this list:
`sdk.h:23-26` leaves it to the caller.

### What the models made plain

The following contradicts no document, but a maintainer may want to know it. The models have
each of these behaviours, and the properties are worded so as to allow them.

- *Logs*: a custom exporter sees no batch with a record of a scope with more than 256
  attributes, though a logger may be obtained with 1 048 576, and none at all if the resource has
  more than 256, though the SDK builder takes 1024; nor if a string of either is over 1 MiB, or
  the batch has over 65 536 records, which `max_export_batch_size` does not exclude
  (`log_processor.rs:283`). `ExportRoundTrip` says that nothing else withholds a batch. A
  record whose span context has trace flags other than sampled and random is refused as
  `InvalidConfig`.
- *Spans*: `otel_span_destroy(NULL)` leaves a reason in the last-error slot although it does
  nothing. A span started after its provider was shut down has no ids, so its context cannot be
  obtained (`ContextsAreValid`). `otel_span_context_create` takes tracestates that the far side
  of an injection discards (`HopKeepsContext`).
- *Baggage*: a value decoded with replacement characters grows from three bytes to nine when it
  is injected again and may then be dropped; a builder's metadata is emitted as it was given and
  trimmed by the receiver (`HopKeepsBaggage`).
- *Manual reader*: with delta temporality a flush may answer Ok while the measurements made
  before it are still in the hands of another flush (`FlushAccounts`). A shutdown does not
  collect what is pending.
- *Views*: a view with a wildcard and an output name gives every instrument it matches the same
  name.
- *Metric batches*: a metric's times are converted, and may end the walk, even if the visitor has
  no `point` callback; an exemplar's only if it has an `exemplar` callback.
- *OTLP*: a header that gRPC metadata cannot carry is refused when a gRPC exporter is built, and
  not when it is added. The disposal of a runtime inside another one relies on a thread that can
  be spawned (`expect`).

## 7. Plan

All components with control of their own are modelled, and the ownership of everything handed
over is proved for any number of actors. What is left is the life cycle of logs:
`ProviderLifecycle` for both signals of one SDK, whose `destroy` goes through both.

## 8. Not modelled

- The upstream `opentelemetry_sdk`: queues of batch processors, the periodic worker, aggregation.
  It is not in the repository. Where the code depends on it, the model assumes what the code
  does: a provider is stopped by its last reference, an observable callback is called at any
  time until the pipeline is dropped, a delta collection takes what was measured since the last
  one, a flush takes any time and may panic.
- The life cycle of the logs provider as a model of its own. `logs_global.rs` and the Logs half
  of `sdk.rs` repeat the Metrics code under other names, except for the test of a zero token and
  for a flush without a timeout.
- The text of values: names, attribute values, messages, sizes and intervals are well formed or
  not, or members of a small set. Out of memory is modelled only where the code goes on after it.
- What a context carries, and the messages in the last-error slot. Whether there is one is
  modelled for the calls of `Spans` only, without the panics that the vtables of the other
  signals guard against.
- In `tracestate`, spaces around a member (`propagation.rs:81`) and bytes that are not UTF-8,
  for which extraction fails (`propagation.rs:266`).
- Endpoints, timeouts, TLS and the network of OTLP exporters.
- Calls that break the C contract (dead handles, destruction during use). The models never make
  them; the `checked_ref` header test is a best effort.
- Weak memory orders. The atomics concerned are read and written with Acquire/Release or under
  locks, and the models interleave whole accesses.
- Layouts of the ABI types, examples, fuzz targets, packaging.
