--------------------------- MODULE ProviderLifecycle ---------------------------
(***************************************************************************)
(* The life of one signal's provider: the API-owned global slot            *)
(* (api/src/metrics_global.rs), the SDK functions that install, shut down  *)
(* and destroy a provider (sdk/src/sdk.rs) and the readers that take a     *)
(* reference from the slot (api/src/metrics.rs).  The Logs signal runs the *)
(* same code under other names.                                            *)
(*                                                                         *)
(* A "context" is one boxed clone of a provider: provider_ctx and          *)
(* provider_retain allocate one, provider_free releases one.  Threads      *)
(* interleave between any two accesses to shared state; a write-locked     *)
(* block of the slot makes no call, so it is one step that waits for the   *)
(* readers to leave.                                                       *)
(***************************************************************************)
EXTENDS Naturals, FiniteSets

CONSTANTS
  Threads,    (* application threads calling the C API     *)
  Sdks,       (* otel_sdk_t handles, built and live at start *)
  Contexts,   (* boxed provider references, never reused     *)
  NoThread,   (* an unlocked mutex                           *)
  NoSdk,      (* no SDK                                      *)
  NoContext   (* the NULL context                            *)

ASSUME ProviderLifecycleAssumption ==
  /\ NoThread \notin Threads
  /\ NoSdk \notin Sdks
  /\ NoContext \notin Contexts

VARIABLES
  slot,                 (* GLOBAL_METRICS: the context and its registration id *)
  slotReaders,          (* threads holding the slot's read lock                *)
  nextRegistrationId,   (* NEXT_REGISTRATION_ID                                *)
  allocated,            (* contexts boxed so far                               *)
  provider,             (* the SDK whose provider a context references         *)
  frees,                (* how often provider_free was called on a context     *)
  handles,              (* contexts owned by API provider handles              *)
  sdkLive,              (* SDK handles not passed to otel_sdk_destroy yet      *)
  lifecycleLock,        (* holder of metrics_lifecycle                         *)
  shutdownStarted,      (* metrics_lifecycle.shutdown_started                  *)
  globalRegistration,   (* metrics_lifecycle.global_registration, 0 for None   *)
  stopped,              (* the provider's shutdown has run                     *)
  pc,                   (* where each thread is                                *)
  sdk,                  (* the SDK a thread's call works on                    *)
  own,                  (* the context a thread's call owns                    *)
  old,                  (* the slot context a thread took out, or is reading   *)
  token                 (* the registration id a thread holds                  *)

slotVars == <<slot, slotReaders, nextRegistrationId>>
contextVars == <<allocated, provider, frees, handles>>
sdkVars == <<sdkLive, lifecycleLock, shutdownStarted, globalRegistration, stopped>>
threadVars == <<pc, sdk, own, old, token>>
vars == <<slotVars, contextVars, sdkVars, threadVars>>

EmptySlot == [ctx |-> NoContext, id |-> 0]

Live(c) == c \in allocated /\ frees[c] = 0

Init ==
  /\ slot = EmptySlot
  /\ slotReaders = {}
  /\ nextRegistrationId = 1
  /\ allocated = {}
  /\ provider = [c \in Contexts |-> NoSdk]
  /\ frees = [c \in Contexts |-> 0]
  /\ handles = {}
  /\ sdkLive = Sdks
  /\ lifecycleLock = [s \in Sdks |-> NoThread]
  /\ shutdownStarted = [s \in Sdks |-> FALSE]
  /\ globalRegistration = [s \in Sdks |-> 0]
  /\ stopped = [s \in Sdks |-> FALSE]
  /\ pc = [t \in Threads |-> "idle"]
  /\ sdk = [t \in Threads |-> NoSdk]
  /\ own = [t \in Threads |-> NoContext]
  /\ old = [t \in Threads |-> NoContext]
  /\ token = [t \in Threads |-> 0]

--------------------------------------------------------------------------------
(* Steps shared by the operations. *)

Goto(t, from, to) ==
  /\ pc[t] = from
  /\ pc' = [pc EXCEPT ![t] = to]

(* A call returns: its locals are gone. *)
Return(t, from) ==
  /\ Goto(t, from, "idle")
  /\ sdk' = [sdk EXCEPT ![t] = NoSdk]
  /\ own' = [own EXCEPT ![t] = NoContext]
  /\ old' = [old EXCEPT ![t] = NoContext]
  /\ token' = [token EXCEPT ![t] = 0]

(* Box::into_raw(Box::new(provider.clone())): a fresh reference to s.  Which
   unused context it is makes no difference, so it is a fixed one. *)
FreshContext == CHOOSE c \in Contexts \ allocated : TRUE

BoxProvider(s) ==
  /\ Contexts \ allocated # {}
  /\ allocated' = allocated \cup {FreshContext}
  /\ provider' = [provider EXCEPT ![FreshContext] = s]

(* Bound: a box is left for every install that is on its way to make one. *)
SpareContext ==
  Cardinality(Contexts \ allocated) > Cardinality({t \in Threads : pc[t] = "set_lock"})

provider_free(c) == frees' = [frees EXCEPT ![c] = @ + 1]

(* The old context of a slot that was empty is NULL and is not freed. *)
FreeOld(t) ==
  IF old[t] = NoContext THEN UNCHANGED frees ELSE provider_free(old[t])

(* The C contract: an SDK handle is used only while it is live. *)
Begin(t, s, to) ==
  /\ s \in sdkLive
  /\ Goto(t, "idle", to)
  /\ sdk' = [sdk EXCEPT ![t] = s]
  /\ UNCHANGED <<slotVars, contextVars, sdkVars, own, old, token>>

--------------------------------------------------------------------------------
(* otel_sdk_set_metrics_as_global: the lifecycle mutex is held throughout. *)

set_as_global(t, s) == SpareContext /\ Begin(t, s, "set_lock")

SetLock(t) ==
  /\ pc[t] = "set_lock"
  /\ lifecycleLock[sdk[t]] = NoThread
  /\ \/ /\ shutdownStarted[sdk[t]]
        /\ Return(t, "set_lock")
        /\ UNCHANGED <<slotVars, contextVars, sdkVars>>
     \/ /\ ~shutdownStarted[sdk[t]]
        /\ BoxProvider(sdk[t])
        /\ own' = [own EXCEPT ![t] = FreshContext]
        /\ lifecycleLock' = [lifecycleLock EXCEPT ![sdk[t]] = t]
        /\ Goto(t, "set_lock", "install_id")
        /\ UNCHANGED <<slotVars, frees, handles, sdkLive, shutdownStarted,
                       globalRegistration, stopped, sdk, old, token>>

(* Fault: a refused context is forgotten. *)
InstallRefusedLeaks(t) ==
  /\ Return(t, "install_id")
  /\ lifecycleLock' = [lifecycleLock EXCEPT ![sdk[t]] = NoThread]
  /\ UNCHANGED <<slotVars, contextVars, sdkLive, shutdownStarted,
                 globalRegistration, stopped>>

(* The API refuses the vtable: the context stays the caller's, who frees it. *)
InstallRefused(t) ==
  /\ Return(t, "install_id")
  /\ provider_free(own[t])
  /\ lifecycleLock' = [lifecycleLock EXCEPT ![sdk[t]] = NoThread]
  /\ UNCHANGED <<slotVars, allocated, provider, handles, sdkLive,
                 shutdownStarted, globalRegistration, stopped>>

(* The id is drawn before the slot is locked. *)
next_registration_id(t) ==
  /\ Goto(t, "install_id", "install_swap")
  /\ token' = [token EXCEPT ![t] = nextRegistrationId]
  /\ nextRegistrationId' = nextRegistrationId + 1
  /\ UNCHANGED <<slot, slotReaders, contextVars, sdkVars, sdk, own, old>>

(* Fault: the slot is swapped without waiting for its readers. *)
InstallSwapUnlocked(t) ==
  /\ Goto(t, "install_swap", "install_free")
  /\ slot' = [ctx |-> own[t], id |-> token[t]]
  /\ old' = [old EXCEPT ![t] = slot.ctx]
  /\ own' = [own EXCEPT ![t] = NoContext]
  /\ UNCHANGED <<slotReaders, nextRegistrationId, contextVars, sdkVars, sdk, token>>

InstallSwap(t) ==
  /\ Goto(t, "install_swap", "install_free")
  /\ slotReaders = {}
  /\ slot' = [ctx |-> own[t], id |-> token[t]]
  /\ old' = [old EXCEPT ![t] = slot.ctx]
  /\ own' = [own EXCEPT ![t] = NoContext]
  /\ UNCHANGED <<slotReaders, nextRegistrationId, contextVars, sdkVars, sdk, token>>

InstallFree(t) ==
  /\ Goto(t, "install_free", "set_store")
  /\ FreeOld(t)
  /\ old' = [old EXCEPT ![t] = NoContext]
  /\ UNCHANGED <<slotVars, allocated, provider, handles, sdkVars, sdk, own, token>>

(* Fault: the lifecycle mutex is never released. *)
SetStoreKeepsLock(t) ==
  /\ Return(t, "set_store")
  /\ globalRegistration' = [globalRegistration EXCEPT ![sdk[t]] = token[t]]
  /\ UNCHANGED <<slotVars, contextVars, sdkLive, lifecycleLock, shutdownStarted, stopped>>

SetStore(t) ==
  /\ Return(t, "set_store")
  /\ globalRegistration' = [globalRegistration EXCEPT ![sdk[t]] = token[t]]
  /\ lifecycleLock' = [lifecycleLock EXCEPT ![sdk[t]] = NoThread]
  /\ UNCHANGED <<slotVars, contextVars, sdkLive, shutdownStarted, stopped>>

--------------------------------------------------------------------------------
(* otel_sdk_metrics_shutdown and the Drop of OtelSdk. *)

shutdown(t, s) == Begin(t, s, "shutdown_lock")

(* A zero token means the SDK never was global: nothing to unregister. *)
AfterTake(tok) == IF tok = 0 THEN "stop" ELSE "unregister"

(* Fault: the token is taken without the lifecycle mutex. *)
ShutdownTakeUnlocked(t) ==
  /\ pc[t] = "shutdown_lock"
  /\ shutdownStarted' = [shutdownStarted EXCEPT ![sdk[t]] = TRUE]
  /\ token' = [token EXCEPT ![t] = globalRegistration[sdk[t]]]
  /\ globalRegistration' = [globalRegistration EXCEPT ![sdk[t]] = 0]
  /\ Goto(t, "shutdown_lock", AfterTake(globalRegistration[sdk[t]]))
  /\ UNCHANGED <<slotVars, contextVars, sdkLive, lifecycleLock, stopped, sdk, own, old>>

ShutdownTake(t) ==
  /\ pc[t] = "shutdown_lock"
  /\ lifecycleLock[sdk[t]] = NoThread
  /\ \/ /\ shutdownStarted[sdk[t]]
        /\ Return(t, "shutdown_lock")
        /\ UNCHANGED <<slotVars, contextVars, sdkVars>>
     \/ /\ ~shutdownStarted[sdk[t]]
        /\ shutdownStarted' = [shutdownStarted EXCEPT ![sdk[t]] = TRUE]
        /\ token' = [token EXCEPT ![t] = globalRegistration[sdk[t]]]
        /\ globalRegistration' = [globalRegistration EXCEPT ![sdk[t]] = 0]
        /\ Goto(t, "shutdown_lock", AfterTake(globalRegistration[sdk[t]]))
        /\ UNCHANGED <<slotVars, contextVars, sdkLive, lifecycleLock, stopped,
                       sdk, own, old>>

(* otel_sdk_destroy, never concurrent with another call on the same handle. *)
destroy(t, s) ==
  /\ s \in sdkLive
  /\ \A u \in Threads : sdk[u] # s
  /\ Goto(t, "idle", AfterTake(globalRegistration[s]))
  /\ sdk' = [sdk EXCEPT ![t] = s]
  /\ sdkLive' = sdkLive \ {s}
  /\ token' = [token EXCEPT ![t] = globalRegistration[s]]
  /\ globalRegistration' = [globalRegistration EXCEPT ![s] = 0]
  /\ UNCHANGED <<slotVars, contextVars, lifecycleLock, shutdownStarted, stopped,
                 own, old>>

(* Fault: the slot is cleared whatever registration occupies it. *)
UnregisterUnconditional(t) ==
  /\ slotReaders = {}
  /\ Goto(t, "unregister", "unregister_free")
  /\ slot' = EmptySlot
  /\ old' = [old EXCEPT ![t] = slot.ctx]
  /\ UNCHANGED <<slotReaders, nextRegistrationId, contextVars, sdkVars, sdk, own, token>>

(* Fault: a stale token waits for its registration to come back. *)
UnregisterWaits(t) ==
  /\ slotReaders = {}
  /\ slot.id = token[t]
  /\ Goto(t, "unregister", "unregister_free")
  /\ slot' = EmptySlot
  /\ old' = [old EXCEPT ![t] = slot.ctx]
  /\ UNCHANGED <<slotReaders, nextRegistrationId, contextVars, sdkVars, sdk, own, token>>

(* otel_api_unregister_global_meter_provider: a stale token is a no-op. *)
unregister(t) ==
  /\ pc[t] = "unregister"
  /\ slotReaders = {}
  /\ \/ /\ slot.id # token[t]
        /\ Goto(t, "unregister", "stop")
        /\ UNCHANGED <<slot, old>>
     \/ /\ slot.id = token[t]
        /\ Goto(t, "unregister", "unregister_free")
        /\ slot' = EmptySlot
        /\ old' = [old EXCEPT ![t] = slot.ctx]
  /\ UNCHANGED <<slotReaders, nextRegistrationId, contextVars, sdkVars, sdk, own, token>>

UnregisterFree(t) ==
  /\ Goto(t, "unregister_free", "stop")
  /\ FreeOld(t)
  /\ old' = [old EXCEPT ![t] = NoContext]
  /\ UNCHANGED <<slotVars, allocated, provider, handles, sdkVars, sdk, own, token>>

(* provider.shutdown(), repeated harmlessly by Drop after a shutdown. *)
StopProvider(t) ==
  /\ Return(t, "stop")
  /\ stopped' = [stopped EXCEPT ![sdk[t]] = TRUE]
  /\ UNCHANGED <<slotVars, contextVars, sdkLive, lifecycleLock, shutdownStarted,
                 globalRegistration>>

--------------------------------------------------------------------------------
(* otel_meter_provider_get_meter on the global handle, and backed handles. *)

ReadSlot(t) ==
  /\ slot.ctx # NoContext
  /\ Goto(t, "idle", "retain")
  /\ slotReaders' = slotReaders \cup {t}
  /\ old' = [old EXCEPT ![t] = slot.ctx]
  /\ UNCHANGED <<slot, nextRegistrationId, contextVars, sdkVars, sdk, own, token>>

(* provider_retain under the read lock: a clone of the slot's context, or NULL. *)
RetainGlobal(t) ==
  /\ pc[t] = "retain"
  /\ slotReaders' = slotReaders \ {t}
  /\ old' = [old EXCEPT ![t] = NoContext]
  /\ \/ /\ Goto(t, "retain", "get_meter")
        /\ SpareContext
        /\ BoxProvider(provider[old[t]])
        /\ own' = [own EXCEPT ![t] = FreshContext]
     \/ /\ Goto(t, "retain", "idle")
        /\ UNCHANGED <<allocated, provider, own>>
  /\ UNCHANGED <<slot, nextRegistrationId, frees, handles, sdkVars, sdk, token>>

(* The meter is made through the retained context, which is then released. *)
GetMeter(t) ==
  /\ Return(t, "get_meter")
  /\ provider_free(own[t])
  /\ UNCHANGED <<slotVars, allocated, provider, handles, sdkVars>>

(* otel_sdk_get_meter_provider: an API handle that owns a context of its own. *)
get_meter_provider(t, s) ==
  /\ pc[t] = "idle"
  /\ s \in sdkLive
  /\ SpareContext
  /\ BoxProvider(s)
  /\ handles' = handles \cup {FreshContext}
  /\ UNCHANGED <<slotVars, frees, sdkVars, threadVars>>

provider_destroy(t, c) ==
  /\ pc[t] = "idle"
  /\ c \in handles
  /\ handles' = handles \ {c}
  /\ provider_free(c)
  /\ UNCHANGED <<slotVars, allocated, provider, sdkVars, threadVars>>

--------------------------------------------------------------------------------
Call(t) ==
  \/ \E s \in Sdks : \/ set_as_global(t, s)
                     \/ shutdown(t, s)
                     \/ destroy(t, s)
                     \/ get_meter_provider(t, s)
  \/ \E c \in Contexts : provider_destroy(t, c)
  \/ ReadSlot(t)

(* The steps a thread inside a call takes on its own. *)
Step(t) ==
  \/ SetLock(t) \/ InstallRefused(t) \/ next_registration_id(t)
  \/ InstallSwap(t) \/ InstallFree(t) \/ SetStore(t)
  \/ ShutdownTake(t) \/ unregister(t) \/ UnregisterFree(t) \/ StopProvider(t)
  \/ RetainGlobal(t) \/ GetMeter(t)

Next == \E t \in Threads : Call(t) \/ Step(t)

(* The scheduler runs every thread that can move, and std's RwLock admits no new
   reader while a writer waits: readers that keep coming do not starve it.
   Which calls are made is the user's choice. *)
Fairness ==
  \A t \in Threads : /\ WF_vars(Step(t))
                     /\ SF_vars(InstallSwap(t))
                     /\ SF_vars(unregister(t))

Spec == Init /\ [][Next]_vars
FairSpec == Spec /\ Fairness

--------------------------------------------------------------------------------
(* Properties. *)

Locations ==
  {"idle", "set_lock", "install_id", "install_swap", "install_free", "set_store",
   "shutdown_lock", "unregister", "unregister_free", "stop", "retain", "get_meter"}

ThreadTypeOK ==
  /\ pc \in [Threads -> Locations]
  /\ sdk \in [Threads -> Sdks \cup {NoSdk}]
  /\ own \in [Threads -> Contexts \cup {NoContext}]
  /\ old \in [Threads -> Contexts \cup {NoContext}]
  /\ token \in [Threads -> Nat]
  /\ \A t \in Threads :
       /\ sdk[t] = NoSdk <=> pc[t] \in {"idle", "retain", "get_meter"}
       /\ own[t] # NoContext <=> pc[t] \in {"install_id", "install_swap", "get_meter"}
       /\ pc[t] = "retain" => old[t] # NoContext

SharedTypeOK ==
  /\ slot \in [ctx : Contexts \cup {NoContext}, id : Nat]
  /\ slotReaders \subseteq Threads
  /\ nextRegistrationId \in Nat \ {0}
  /\ allocated \subseteq Contexts
  /\ provider \in [Contexts -> Sdks \cup {NoSdk}]
  /\ frees \in [Contexts -> Nat]
  /\ handles \subseteq Contexts
  /\ sdkLive \subseteq Sdks
  /\ lifecycleLock \in [Sdks -> Threads \cup {NoThread}]
  /\ shutdownStarted \in [Sdks -> BOOLEAN]
  /\ globalRegistration \in [Sdks -> Nat]
  /\ stopped \in [Sdks -> BOOLEAN]

(* Every variable holds a value of its kind (the state declared in
   metrics_global.rs:15 and in OtelSdk, sdk.rs:102). *)
TypeOK == SharedTypeOK /\ ThreadTypeOK

(* The SDK whose provider the slot hands out. *)
Installed == IF slot.ctx = NoContext THEN NoSdk ELSE provider[slot.ctx]

(* The threads that will release a context they took out of the slot. *)
Releasing(t) == pc[t] \in {"install_free", "unregister_free"}

(* Who must release context c: the slot, an API handle, or a thread's call. *)
Owners(c) ==
  {<<"slot", NoThread>> : x \in {slot.ctx} \cap {c}}
  \cup {<<"handle", NoThread>> : x \in handles \cap {c}}
  \cup {<<"own", t>> : t \in {u \in Threads : own[u] = c}}
  \cup {<<"old", t>> : t \in {u \in Threads : old[u] = c /\ Releasing(u)}}

(* A context is released exactly once, by its only owner: a replaced, stale,
   refused or failed registration neither leaks a provider reference nor frees
   one twice (metrics_global.rs:71, sdk.rs:888, metrics.rs:453). *)
SingleOwner ==
  \A c \in allocated : frees[c] + Cardinality(Owners(c)) = 1

(* The context a reader clones under the read lock cannot have been released by
   a concurrent replacement or unregistration (metrics_global.rs:91). *)
NoUseAfterFree ==
  \A t \in Threads : pc[t] = "retain" => Live(old[t])

(* The slot never hands out a provider that has been shut down: unregistration
   comes first, and no installation can slip in between (sdk.rs:876, 1142). *)
StoppedNeverGlobal == \A s \in Sdks : stopped[s] => Installed # s

(* Only the SDK that is installed empties the slot: an older SDK's stale token
   never clears a provider installed after it (metrics_global.rs:176). *)
OnlyOwnerClears ==
  [][\A s \in Sdks : Installed = s /\ slot' = EmptySlot =>
       \E t \in Threads : pc[t] = "unregister" /\ sdk[t] = s /\ pc'[t] # pc[t]]_vars

(* When no call is at work on s, the stored registration is the key to the
   slot s occupies: a shutdown that comes now will find it (sdk.rs:896). *)
RegistrationTracksSlot ==
  \A s \in Sdks :
    (\A t \in Threads : sdk[t] # s) /\ Installed = s => globalRegistration[s] = slot.id

(* Every call returns, whatever locks it meets on its way (sdk.rs:879). *)
CallsReturn == \A t \in Threads : pc[t] # "idle" ~> pc[t] = "idle"

(* The abstract register this component implements. *)
Phase(s) ==
  IF stopped[s] THEN "stopped"
  ELSE IF shutdownStarted[s] \/ s \notin sdkLive THEN "stopping"
  ELSE "running"

Global == INSTANCE GlobalProvider
            WITH installed <- Installed, phase <- [s \in Sdks |-> Phase(s)]

(* Slot, tokens and mutexes together behave as one register that only running
   SDKs take and only their own shutdown clears (metrics_global.rs:42, 165,
   sdk.rs:871, 1112). *)
ImplementsGlobalProvider == Global!Safety

(* Every shutdown or destruction that has begun takes the SDK out of the slot
   and stops it (sdk.rs:168, 1129). *)
ShutdownCompletes ==
  \A s \in Sdks : Phase(s) = "stopping" ~> Phase(s) = "stopped"
===============================================================================
