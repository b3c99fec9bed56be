------------------------ MODULE ProviderLifecycle_proofs ------------------------
(***************************************************************************)
(* Proofs about ProviderLifecycle for any number of threads, SDKs and      *)
(* contexts.                                                               *)
(***************************************************************************)
EXTENDS ProviderLifecycle, FiniteSetTheorems, TLAPS

USE ProviderLifecycleAssumption

(* A fresh context is a context that was not allocated (Box::into_raw). *)
LEMMA FreshContextType ==
  Contexts \ allocated # {} => FreshContext \in Contexts \ allocated
BY DEF FreshContext

(* Releasing a context raises its counter and no other. *)
LEMMA FreeType ==
  ASSUME NEW c, frees \in [Contexts -> Nat], provider_free(c)
  PROVE  frees' \in [Contexts -> Nat]
<1>1. CASE c \in Contexts
  BY <1>1 DEF provider_free
<1>2. CASE c \notin Contexts
  BY <1>2 DEF provider_free
<1>3. QED
  BY <1>1, <1>2

(* A returning call leaves its thread's locals empty. *)
LEMMA ReturnType ==
  ASSUME NEW t \in Threads, NEW from, ThreadTypeOK, Return(t, from)
  PROVE  ThreadTypeOK'
BY DEF ThreadTypeOK, Return, Goto, Locations

(* The locals of every thread keep their kind through every call. *)
LEMMA ThreadTypeStep ==
  ASSUME TypeOK, [Next]_vars
  PROVE  ThreadTypeOK'
<1>1. ASSUME NEW t \in Threads, NEW s \in Sdks, set_as_global(t, s) PROVE ThreadTypeOK'
  BY <1>1, FreshContextType, ReturnType
  DEF set_as_global, TypeOK, ThreadTypeOK, SharedTypeOK, Locations, slotVars, contextVars, sdkVars, threadVars,
      Goto, BoxProvider, provider_free, FreeOld, EmptySlot, AfterTake, Begin
<1>2. ASSUME NEW t \in Threads, SetLock(t) PROVE ThreadTypeOK'
  BY <1>2, FreshContextType, ReturnType
  DEF SetLock, TypeOK, ThreadTypeOK, SharedTypeOK, Locations, slotVars, contextVars, sdkVars, threadVars,
      Goto, BoxProvider, provider_free, FreeOld, EmptySlot, AfterTake, Begin
<1>3. ASSUME NEW t \in Threads, InstallRefused(t) PROVE ThreadTypeOK'
  BY <1>3, FreshContextType, ReturnType
  DEF InstallRefused, TypeOK, ThreadTypeOK, SharedTypeOK, Locations, slotVars, contextVars, sdkVars, threadVars,
      Goto, BoxProvider, provider_free, FreeOld, EmptySlot, AfterTake, Begin
<1>4. ASSUME NEW t \in Threads, next_registration_id(t) PROVE ThreadTypeOK'
  BY <1>4, FreshContextType, ReturnType
  DEF next_registration_id, TypeOK, ThreadTypeOK, SharedTypeOK, Locations, slotVars, contextVars, sdkVars, threadVars,
      Goto, BoxProvider, provider_free, FreeOld, EmptySlot, AfterTake, Begin
<1>5. ASSUME NEW t \in Threads, InstallSwap(t) PROVE ThreadTypeOK'
  BY <1>5, FreshContextType, ReturnType
  DEF InstallSwap, TypeOK, ThreadTypeOK, SharedTypeOK, Locations, slotVars, contextVars, sdkVars, threadVars,
      Goto, BoxProvider, provider_free, FreeOld, EmptySlot, AfterTake, Begin
<1>6. ASSUME NEW t \in Threads, InstallFree(t) PROVE ThreadTypeOK'
  BY <1>6, FreshContextType, ReturnType
  DEF InstallFree, TypeOK, ThreadTypeOK, SharedTypeOK, Locations, slotVars, contextVars, sdkVars, threadVars,
      Goto, BoxProvider, provider_free, FreeOld, EmptySlot, AfterTake, Begin
<1>7. ASSUME NEW t \in Threads, SetStore(t) PROVE ThreadTypeOK'
  BY <1>7, FreshContextType, ReturnType
  DEF SetStore, TypeOK, ThreadTypeOK, SharedTypeOK, Locations, slotVars, contextVars, sdkVars, threadVars,
      Goto, BoxProvider, provider_free, FreeOld, EmptySlot, AfterTake, Begin
<1>8. ASSUME NEW t \in Threads, NEW s \in Sdks, shutdown(t, s) PROVE ThreadTypeOK'
  BY <1>8, FreshContextType, ReturnType
  DEF shutdown, TypeOK, ThreadTypeOK, SharedTypeOK, Locations, slotVars, contextVars, sdkVars, threadVars,
      Goto, BoxProvider, provider_free, FreeOld, EmptySlot, AfterTake, Begin
<1>9. ASSUME NEW t \in Threads, ShutdownTake(t) PROVE ThreadTypeOK'
  <2>1. CASE Return(t, "shutdown_lock") /\ UNCHANGED <<slotVars, contextVars, sdkVars>>
    BY <2>1, ReturnType DEF TypeOK, SharedTypeOK, slotVars, contextVars, sdkVars
  <2>2. CASE ~shutdownStarted[sdk[t]]
    BY <1>9, <2>2 DEF ShutdownTake, TypeOK, ThreadTypeOK, Locations, Goto, AfterTake, SharedTypeOK
  <2>3. QED
    BY <1>9, <2>1, <2>2 DEF ShutdownTake
<1>10. ASSUME NEW t \in Threads, NEW s \in Sdks, destroy(t, s) PROVE ThreadTypeOK'
  BY <1>10, FreshContextType, ReturnType
  DEF destroy, TypeOK, ThreadTypeOK, SharedTypeOK, Locations, slotVars, contextVars, sdkVars, threadVars,
      Goto, BoxProvider, provider_free, FreeOld, EmptySlot, AfterTake, Begin
<1>11. ASSUME NEW t \in Threads, unregister(t) PROVE ThreadTypeOK'
  BY <1>11, FreshContextType, ReturnType
  DEF unregister, TypeOK, ThreadTypeOK, SharedTypeOK, Locations, slotVars, contextVars, sdkVars, threadVars,
      Goto, BoxProvider, provider_free, FreeOld, EmptySlot, AfterTake, Begin
<1>12. ASSUME NEW t \in Threads, UnregisterFree(t) PROVE ThreadTypeOK'
  BY <1>12, FreshContextType, ReturnType
  DEF UnregisterFree, TypeOK, ThreadTypeOK, SharedTypeOK, Locations, slotVars, contextVars, sdkVars, threadVars,
      Goto, BoxProvider, provider_free, FreeOld, EmptySlot, AfterTake, Begin
<1>13. ASSUME NEW t \in Threads, StopProvider(t) PROVE ThreadTypeOK'
  BY <1>13, FreshContextType, ReturnType
  DEF StopProvider, TypeOK, ThreadTypeOK, SharedTypeOK, Locations, slotVars, contextVars, sdkVars, threadVars,
      Goto, BoxProvider, provider_free, FreeOld, EmptySlot, AfterTake, Begin
<1>14. ASSUME NEW t \in Threads, ReadSlot(t) PROVE ThreadTypeOK'
  BY <1>14, FreshContextType, ReturnType
  DEF ReadSlot, TypeOK, ThreadTypeOK, SharedTypeOK, Locations, slotVars, contextVars, sdkVars, threadVars,
      Goto, BoxProvider, provider_free, FreeOld, EmptySlot, AfterTake, Begin
<1>15. ASSUME NEW t \in Threads, RetainGlobal(t) PROVE ThreadTypeOK'
  BY <1>15, FreshContextType, ReturnType
  DEF RetainGlobal, TypeOK, ThreadTypeOK, SharedTypeOK, Locations, slotVars, contextVars, sdkVars, threadVars,
      Goto, BoxProvider, provider_free, FreeOld, EmptySlot, AfterTake, Begin
<1>16. ASSUME NEW t \in Threads, GetMeter(t) PROVE ThreadTypeOK'
  BY <1>16, FreshContextType, ReturnType
  DEF GetMeter, TypeOK, ThreadTypeOK, SharedTypeOK, Locations, slotVars, contextVars, sdkVars, threadVars,
      Goto, BoxProvider, provider_free, FreeOld, EmptySlot, AfterTake, Begin
<1>17. ASSUME NEW t \in Threads, NEW s \in Sdks, get_meter_provider(t, s) PROVE ThreadTypeOK'
  BY <1>17, FreshContextType, ReturnType
  DEF get_meter_provider, TypeOK, ThreadTypeOK, SharedTypeOK, Locations, slotVars, contextVars, sdkVars, threadVars,
      Goto, BoxProvider, provider_free, FreeOld, EmptySlot, AfterTake, Begin
<1>18. ASSUME NEW t \in Threads, NEW c \in Contexts, provider_destroy(t, c) PROVE ThreadTypeOK'
  BY <1>18, FreshContextType, ReturnType
  DEF provider_destroy, TypeOK, ThreadTypeOK, SharedTypeOK, Locations, slotVars, contextVars, sdkVars, threadVars,
      Goto, BoxProvider, provider_free, FreeOld, EmptySlot, AfterTake, Begin
<1>19. ASSUME UNCHANGED vars PROVE ThreadTypeOK'
  BY <1>19 DEF TypeOK, ThreadTypeOK, SharedTypeOK, vars, slotVars, contextVars,
               sdkVars, threadVars
<1>20. QED
  BY <1>1, <1>2, <1>3, <1>4, <1>5, <1>6, <1>7, <1>8, <1>9, <1>10, <1>11, <1>12, <1>13, <1>14, <1>15, <1>16, <1>17, <1>18, <1>19
  DEF Next, Call, Step

(* The shared state keeps its kind through every call. *)
LEMMA SharedTypeStep ==
  ASSUME TypeOK, [Next]_vars
  PROVE  SharedTypeOK'
<1>1. ASSUME NEW t \in Threads, NEW s \in Sdks, set_as_global(t, s) PROVE SharedTypeOK'
  BY <1>1, FreshContextType, ReturnType
  DEF set_as_global, TypeOK, ThreadTypeOK, SharedTypeOK, Locations, slotVars, contextVars, sdkVars, threadVars,
      Goto, BoxProvider, provider_free, FreeOld, EmptySlot, AfterTake, Begin
<1>2. ASSUME NEW t \in Threads, SetLock(t) PROVE SharedTypeOK'
  BY <1>2, FreshContextType, ReturnType
  DEF SetLock, TypeOK, ThreadTypeOK, SharedTypeOK, Locations, slotVars, contextVars, sdkVars, threadVars,
      Goto, BoxProvider, provider_free, FreeOld, EmptySlot, AfterTake, Begin
<1>3. ASSUME NEW t \in Threads, InstallRefused(t) PROVE SharedTypeOK'
  <2>1. frees' \in [Contexts -> Nat]
    BY <1>3, FreeType DEF InstallRefused, TypeOK, SharedTypeOK
  <2>2. QED
    BY <1>3, <2>1 DEF InstallRefused, TypeOK, SharedTypeOK, ThreadTypeOK, slotVars, sdkVars
<1>4. ASSUME NEW t \in Threads, next_registration_id(t) PROVE SharedTypeOK'
  BY <1>4, FreshContextType, ReturnType
  DEF next_registration_id, TypeOK, ThreadTypeOK, SharedTypeOK, Locations, slotVars, contextVars, sdkVars, threadVars,
      Goto, BoxProvider, provider_free, FreeOld, EmptySlot, AfterTake, Begin
<1>5. ASSUME NEW t \in Threads, InstallSwap(t) PROVE SharedTypeOK'
  BY <1>5, FreshContextType, ReturnType
  DEF InstallSwap, TypeOK, ThreadTypeOK, SharedTypeOK, Locations, slotVars, contextVars, sdkVars, threadVars,
      Goto, BoxProvider, provider_free, FreeOld, EmptySlot, AfterTake, Begin
<1>6. ASSUME NEW t \in Threads, InstallFree(t) PROVE SharedTypeOK'
  BY <1>6, FreshContextType, ReturnType
  DEF InstallFree, TypeOK, ThreadTypeOK, SharedTypeOK, Locations, slotVars, contextVars, sdkVars, threadVars,
      Goto, BoxProvider, provider_free, FreeOld, EmptySlot, AfterTake, Begin
<1>7. ASSUME NEW t \in Threads, SetStore(t) PROVE SharedTypeOK'
  BY <1>7, FreshContextType, ReturnType
  DEF SetStore, TypeOK, ThreadTypeOK, SharedTypeOK, Locations, slotVars, contextVars, sdkVars, threadVars,
      Goto, BoxProvider, provider_free, FreeOld, EmptySlot, AfterTake, Begin
<1>8. ASSUME NEW t \in Threads, NEW s \in Sdks, shutdown(t, s) PROVE SharedTypeOK'
  BY <1>8, FreshContextType, ReturnType
  DEF shutdown, TypeOK, ThreadTypeOK, SharedTypeOK, Locations, slotVars, contextVars, sdkVars, threadVars,
      Goto, BoxProvider, provider_free, FreeOld, EmptySlot, AfterTake, Begin
<1>9. ASSUME NEW t \in Threads, ShutdownTake(t) PROVE SharedTypeOK'
  <2>1. CASE Return(t, "shutdown_lock") /\ UNCHANGED <<slotVars, contextVars, sdkVars>>
    BY <2>1, ReturnType DEF TypeOK, SharedTypeOK, slotVars, contextVars, sdkVars
  <2>2. CASE ~shutdownStarted[sdk[t]]
    <3>1. /\ shutdownStarted' = [shutdownStarted EXCEPT ![sdk[t]] = TRUE]
          /\ globalRegistration' = [globalRegistration EXCEPT ![sdk[t]] = 0]
          /\ UNCHANGED <<slotVars, contextVars, sdkLive, lifecycleLock, stopped>>
      BY <1>9, <2>2 DEF ShutdownTake
    <3>2. /\ shutdownStarted' \in [Sdks -> BOOLEAN]
          /\ globalRegistration' \in [Sdks -> Nat]
      BY <3>1 DEF TypeOK, SharedTypeOK
    <3>3. QED
      BY <3>1, <3>2 DEF TypeOK, SharedTypeOK, slotVars, contextVars
  <2>3. QED
    BY <1>9, <2>1, <2>2 DEF ShutdownTake
<1>10. ASSUME NEW t \in Threads, NEW s \in Sdks, destroy(t, s) PROVE SharedTypeOK'
  BY <1>10, FreshContextType, ReturnType
  DEF destroy, TypeOK, ThreadTypeOK, SharedTypeOK, Locations, slotVars, contextVars, sdkVars, threadVars,
      Goto, BoxProvider, provider_free, FreeOld, EmptySlot, AfterTake, Begin
<1>11. ASSUME NEW t \in Threads, unregister(t) PROVE SharedTypeOK'
  BY <1>11, FreshContextType, ReturnType
  DEF unregister, TypeOK, ThreadTypeOK, SharedTypeOK, Locations, slotVars, contextVars, sdkVars, threadVars,
      Goto, BoxProvider, provider_free, FreeOld, EmptySlot, AfterTake, Begin
<1>12. ASSUME NEW t \in Threads, UnregisterFree(t) PROVE SharedTypeOK'
  BY <1>12, FreshContextType, ReturnType
  DEF UnregisterFree, TypeOK, ThreadTypeOK, SharedTypeOK, Locations, slotVars, contextVars, sdkVars, threadVars,
      Goto, BoxProvider, provider_free, FreeOld, EmptySlot, AfterTake, Begin
<1>13. ASSUME NEW t \in Threads, StopProvider(t) PROVE SharedTypeOK'
  BY <1>13, FreshContextType, ReturnType
  DEF StopProvider, TypeOK, ThreadTypeOK, SharedTypeOK, Locations, slotVars, contextVars, sdkVars, threadVars,
      Goto, BoxProvider, provider_free, FreeOld, EmptySlot, AfterTake, Begin
<1>14. ASSUME NEW t \in Threads, ReadSlot(t) PROVE SharedTypeOK'
  BY <1>14, FreshContextType, ReturnType
  DEF ReadSlot, TypeOK, ThreadTypeOK, SharedTypeOK, Locations, slotVars, contextVars, sdkVars, threadVars,
      Goto, BoxProvider, provider_free, FreeOld, EmptySlot, AfterTake, Begin
<1>15. ASSUME NEW t \in Threads, RetainGlobal(t) PROVE SharedTypeOK'
  <2>1. allocated' \subseteq Contexts /\ provider' \in [Contexts -> Sdks \cup {NoSdk}]
    BY <1>15, FreshContextType
    DEF RetainGlobal, BoxProvider, TypeOK, SharedTypeOK, ThreadTypeOK
  <2>2. QED
    BY <1>15, <2>1 DEF RetainGlobal, TypeOK, SharedTypeOK, slotVars, sdkVars
<1>16. ASSUME NEW t \in Threads, GetMeter(t) PROVE SharedTypeOK'
  <2>1. frees' \in [Contexts -> Nat]
    BY <1>16, FreeType DEF GetMeter, TypeOK, SharedTypeOK
  <2>2. QED
    BY <1>16, <2>1 DEF GetMeter, TypeOK, SharedTypeOK, ThreadTypeOK, slotVars, sdkVars
<1>17. ASSUME NEW t \in Threads, NEW s \in Sdks, get_meter_provider(t, s) PROVE SharedTypeOK'
  BY <1>17, FreshContextType, ReturnType
  DEF get_meter_provider, TypeOK, ThreadTypeOK, SharedTypeOK, Locations, slotVars, contextVars, sdkVars, threadVars,
      Goto, BoxProvider, provider_free, FreeOld, EmptySlot, AfterTake, Begin
<1>18. ASSUME NEW t \in Threads, NEW c \in Contexts, provider_destroy(t, c) PROVE SharedTypeOK'
  BY <1>18, FreshContextType, ReturnType
  DEF provider_destroy, TypeOK, ThreadTypeOK, SharedTypeOK, Locations, slotVars, contextVars, sdkVars, threadVars,
      Goto, BoxProvider, provider_free, FreeOld, EmptySlot, AfterTake, Begin
<1>19. ASSUME UNCHANGED vars PROVE SharedTypeOK'
  BY <1>19 DEF TypeOK, ThreadTypeOK, SharedTypeOK, vars, slotVars, contextVars,
               sdkVars, threadVars
<1>20. QED
  BY <1>1, <1>2, <1>3, <1>4, <1>5, <1>6, <1>7, <1>8, <1>9, <1>10, <1>11, <1>12, <1>13, <1>14, <1>15, <1>16, <1>17, <1>18, <1>19
  DEF Next, Call, Step

(* The state of the slot, the contexts, the SDKs and the calls is well formed
   in every behaviour (metrics_global.rs:15, sdk.rs:102). *)
THEOREM TypeCorrect == Spec => []TypeOK
<1>1. Init => TypeOK
  BY DEF Init, TypeOK, ThreadTypeOK, SharedTypeOK, EmptySlot, Locations
<1>2. TypeOK /\ [Next]_vars => TypeOK'
  BY ThreadTypeStep, SharedTypeStep DEF TypeOK
<1>3. QED
  BY <1>1, <1>2, PTL DEF Spec

--------------------------------------------------------------------------------
(***************************************************************************)
(* StoppedNeverGlobal.  By itself it says nothing about a call that is     *)
(* half way, so it is strengthened: a thread that installs holds the       *)
(* lifecycle mutex of an SDK that is not shutting down, at most one thread *)
(* stops an SDK, and whoever still can clear the slot holds the key to it. *)
(***************************************************************************)
Installing(t) == pc[t] \in {"install_id", "install_swap", "install_free", "set_store"}
Swapped(t) == pc[t] \in {"install_free", "set_store"}
Stopping(t) == pc[t] \in {"unregister", "unregister_free", "stop"}
Closed(s) == shutdownStarted[s] \/ s \notin sdkLive

(* set_as_global checks shutdown_started and registers under one mutex hold. *)
InstallerHoldsLock ==
  \A t \in Threads : Installing(t) => lifecycleLock[sdk[t]] = t /\ ~Closed(sdk[t])

(* A call is on a live handle, except the Drop that destroy runs. *)
CallerOnLiveSdk ==
  \A t \in Threads : pc[t] \in {"set_lock", "shutdown_lock"} => sdk[t] \in sdkLive

(* Only one thread ever stops an SDK at a time, and it took the token. *)
StopperIsAlone ==
  \A t \in Threads : Stopping(t) =>
    /\ Closed(sdk[t])
    /\ \A u \in Threads : Stopping(u) /\ sdk[u] = sdk[t] => u = t

ClosedHasNoToken ==
  \A s \in Sdks : /\ Closed(s) => globalRegistration[s] = 0
                  /\ stopped[s] => Closed(s)

(* The slot's context was allocated, so its provider never changes; an
   installer's context is a clone of its own SDK's provider. *)
ContextsKnown ==
  /\ slot.ctx # NoContext => slot.ctx \in allocated
  /\ \A t \in Threads : pc[t] \in {"install_id", "install_swap"} =>
       own[t] \in allocated /\ provider[own[t]] = sdk[t]

TokensNonZero ==
  \A t \in Threads : pc[t] \in {"install_swap", "install_free", "set_store", "unregister"}
                     => token[t] # 0

(* Whoever is in the slot can be cleared: by the stored registration, by the
   installer that is about to store it, or by the unregistration under way. *)
SlotHasKey ==
  \A s \in Sdks : Installed = s =>
    \/ globalRegistration[s] = slot.id /\ slot.id # 0
    \/ \E t \in Threads : /\ sdk[t] = s /\ token[t] = slot.id
                          /\ Swapped(t) \/ pc[t] = "unregister"

InstallerKeyIsSlots ==
  \A t \in Threads : Swapped(t) /\ Installed = sdk[t] => slot.id = token[t]

StoppedOut ==
  /\ \A t \in Threads : pc[t] \in {"unregister_free", "stop"} => Installed # sdk[t]
  /\ StoppedNeverGlobal

LifecycleInv ==
  /\ TypeOK /\ InstallerHoldsLock /\ CallerOnLiveSdk /\ StopperIsAlone
  /\ ClosedHasNoToken /\ ContextsKnown /\ TokensNonZero /\ SlotHasKey
  /\ InstallerKeyIsSlots /\ StoppedOut

(* No step of any call breaks the life-cycle invariant. *)
LEMMA LifecycleStep ==
  ASSUME LifecycleInv, [Next]_vars, TypeOK'
  PROVE  LifecycleInv'
<1> USE FreshContextType
    DEF
    TypeOK, ThreadTypeOK, SharedTypeOK, Locations, LifecycleInv,
    InstallerHoldsLock, CallerOnLiveSdk, StopperIsAlone, ClosedHasNoToken,
    ContextsKnown, TokensNonZero, SlotHasKey, InstallerKeyIsSlots, StoppedOut,
    StoppedNeverGlobal, Installing, Swapped, Stopping, Closed, Installed, Goto,
    Return, BoxProvider, FreeOld, provider_free, Begin, AfterTake, EmptySlot,
    slotVars, contextVars, sdkVars, threadVars
<1>1. ASSUME NEW t \in Threads, NEW s \in Sdks, set_as_global(t, s) PROVE LifecycleInv'
  BY <1>1 DEF set_as_global
<1>2. ASSUME NEW t \in Threads, SetLock(t) PROVE LifecycleInv'
  BY <1>2 DEF SetLock
<1>3. ASSUME NEW t \in Threads, InstallRefused(t) PROVE LifecycleInv'
  BY <1>3 DEF InstallRefused
<1>4. ASSUME NEW t \in Threads, next_registration_id(t) PROVE LifecycleInv'
  BY <1>4 DEF next_registration_id
<1>5. ASSUME NEW t \in Threads, InstallSwap(t) PROVE LifecycleInv'
  BY <1>5 DEF InstallSwap
<1>6. ASSUME NEW t \in Threads, InstallFree(t) PROVE LifecycleInv'
  BY <1>6 DEF InstallFree
<1>7. ASSUME NEW t \in Threads, SetStore(t) PROVE LifecycleInv'
  BY <1>7 DEF SetStore
<1>8. ASSUME NEW t \in Threads, NEW s \in Sdks, shutdown(t, s) PROVE LifecycleInv'
  BY <1>8 DEF shutdown
<1>9. ASSUME NEW t \in Threads, ShutdownTake(t) PROVE LifecycleInv'
  BY <1>9 DEF ShutdownTake
<1>10. ASSUME NEW t \in Threads, NEW s \in Sdks, destroy(t, s) PROVE LifecycleInv'
  BY <1>10 DEF destroy
<1>11. ASSUME NEW t \in Threads, unregister(t) PROVE LifecycleInv'
  BY <1>11 DEF unregister
<1>12. ASSUME NEW t \in Threads, UnregisterFree(t) PROVE LifecycleInv'
  BY <1>12 DEF UnregisterFree
<1>13. ASSUME NEW t \in Threads, StopProvider(t) PROVE LifecycleInv'
  BY <1>13 DEF StopProvider
<1>14. ASSUME NEW t \in Threads, ReadSlot(t) PROVE LifecycleInv'
  BY <1>14 DEF ReadSlot
<1>15. ASSUME NEW t \in Threads, RetainGlobal(t) PROVE LifecycleInv'
  BY <1>15 DEF RetainGlobal
<1>16. ASSUME NEW t \in Threads, GetMeter(t) PROVE LifecycleInv'
  BY <1>16 DEF GetMeter
<1>17. ASSUME NEW t \in Threads, NEW s \in Sdks, get_meter_provider(t, s) PROVE LifecycleInv'
  BY <1>17 DEF get_meter_provider
<1>18. ASSUME NEW t \in Threads, NEW c \in Contexts, provider_destroy(t, c) PROVE LifecycleInv'
  BY <1>18 DEF provider_destroy
<1>19. ASSUME UNCHANGED vars PROVE LifecycleInv'
  BY <1>19 DEF vars
<1> HIDE FreshContextType
    DEF
    TypeOK, ThreadTypeOK, SharedTypeOK, Locations, LifecycleInv,
    InstallerHoldsLock, CallerOnLiveSdk, StopperIsAlone, ClosedHasNoToken,
    ContextsKnown, TokensNonZero, SlotHasKey, InstallerKeyIsSlots, StoppedOut,
    StoppedNeverGlobal, Installing, Swapped, Stopping, Closed, Installed, Goto,
    Return, BoxProvider, FreeOld, provider_free, Begin, AfterTake, EmptySlot,
    slotVars, contextVars, sdkVars, threadVars
<1>20. QED
  BY <1>1, <1>2, <1>3, <1>4, <1>5, <1>6, <1>7, <1>8, <1>9, <1>10, <1>11, <1>12,
     <1>13, <1>14, <1>15, <1>16, <1>17, <1>18, <1>19
  DEF Next, Call, Step

(* The life-cycle invariant holds in every reachable state. *)
LEMMA LifecycleInvariant == Spec => []LifecycleInv
<1>1. Init => LifecycleInv
  BY DEF Init, LifecycleInv, TypeOK, ThreadTypeOK, SharedTypeOK, Locations, EmptySlot,
         InstallerHoldsLock, CallerOnLiveSdk, StopperIsAlone, ClosedHasNoToken,
         ContextsKnown, TokensNonZero, SlotHasKey, InstallerKeyIsSlots, StoppedOut,
         StoppedNeverGlobal, Installing, Swapped, Stopping, Closed, Installed
<1>2. LifecycleInv /\ [Next]_vars /\ TypeOK' => LifecycleInv'
  BY LifecycleStep
<1>3. QED
  BY <1>1, <1>2, TypeCorrect, PTL DEF Spec

(* A provider that has been shut down is never handed out by the slot, however
   installations, shutdowns and destructions of any number of SDKs interleave
   (sdk.rs:871, 1112, 168). *)
THEOREM StoppedNeverGlobalHolds == Spec => []StoppedNeverGlobal
BY LifecycleInvariant, PTL DEF LifecycleInv, StoppedOut

(* A shutdown that starts while no other call is at work on its SDK finds the
   key to the slot it occupies (sdk.rs:896, 1138). *)
THEOREM RegistrationTracksSlotHolds == Spec => []RegistrationTracksSlot
<1>1. LifecycleInv => RegistrationTracksSlot
  BY DEF LifecycleInv, SlotHasKey, RegistrationTracksSlot
<1>2. QED
  BY <1>1, LifecycleInvariant, PTL

--------------------------------------------------------------------------------
(***************************************************************************)
(* OnlyOwnerClears.  A token is a key to one installation: it is drawn     *)
(* once, and while the slot carries it the slot is the drawer's.           *)
(***************************************************************************)
HoldsToken(t) ==
  pc[t] \in {"install_swap", "install_free", "set_store", "unregister",
             "unregister_free", "stop"}

TokensDrawn ==
  /\ slot.id < nextRegistrationId
  /\ \A s \in Sdks : globalRegistration[s] < nextRegistrationId
  /\ \A t \in Threads : /\ token[t] < nextRegistrationId
                        /\ token[t] # 0 => HoldsToken(t)

(* A token on its way to the slot is known to its thread alone. *)
NewTokenUnknown ==
  \A t \in Threads : pc[t] = "install_swap" =>
    /\ token[t] # 0
    /\ token[t] # slot.id
    /\ \A s \in Sdks : globalRegistration[s] # token[t]
    /\ \A u \in Threads : u # t => token[u] # token[t]

TokenNamesOwner ==
  /\ slot.id = 0 <=> slot.ctx = NoContext
  /\ \A s \in Sdks : globalRegistration[s] = slot.id /\ slot.id # 0 => Installed = s
  /\ \A t \in Threads : token[t] = slot.id /\ token[t] # 0 => Installed = sdk[t]

TokenInv == LifecycleInv /\ TokensDrawn /\ NewTokenUnknown /\ TokenNamesOwner

(* No step of any call breaks the token invariant. *)
LEMMA TokenStep ==
  ASSUME TokenInv, LifecycleInv', [Next]_vars, TypeOK'
  PROVE  TokenInv'
<1> USE FreshContextType
    DEF
    TypeOK, ThreadTypeOK, SharedTypeOK, Locations, TokenInv, TokensDrawn,
    NewTokenUnknown, TokenNamesOwner, HoldsToken, Installed, ContextsKnown,
    LifecycleInv, Goto, Return, BoxProvider, FreeOld, provider_free, Begin,
    AfterTake, EmptySlot, slotVars, contextVars, sdkVars, threadVars
<1>1. ASSUME NEW t \in Threads, NEW s \in Sdks, set_as_global(t, s) PROVE TokenInv'
  BY <1>1 DEF set_as_global
<1>2. ASSUME NEW t \in Threads, SetLock(t) PROVE TokenInv'
  BY <1>2 DEF SetLock
<1>3. ASSUME NEW t \in Threads, InstallRefused(t) PROVE TokenInv'
  BY <1>3 DEF InstallRefused
<1>4. ASSUME NEW t \in Threads, next_registration_id(t) PROVE TokenInv'
  BY <1>4 DEF next_registration_id
<1>5. ASSUME NEW t \in Threads, InstallSwap(t) PROVE TokenInv'
  BY <1>5 DEF InstallSwap
<1>6. ASSUME NEW t \in Threads, InstallFree(t) PROVE TokenInv'
  BY <1>6 DEF InstallFree
<1>7. ASSUME NEW t \in Threads, SetStore(t) PROVE TokenInv'
  BY <1>7 DEF SetStore
<1>8. ASSUME NEW t \in Threads, NEW s \in Sdks, shutdown(t, s) PROVE TokenInv'
  BY <1>8 DEF shutdown
<1>9. ASSUME NEW t \in Threads, ShutdownTake(t) PROVE TokenInv'
  <2>1. CASE shutdownStarted[sdk[t]]
    BY <1>9, <2>1 DEF ShutdownTake
  <2>2. CASE ~shutdownStarted[sdk[t]]
    <3>1. TokensDrawn'
      BY <1>9, <2>2 DEF ShutdownTake
    <3>2. NewTokenUnknown'
      BY <1>9, <2>2 DEF ShutdownTake
    <3>3. TokenNamesOwner'
      BY <1>9, <2>2 DEF ShutdownTake
    <3>4. QED
      BY <3>1, <3>2, <3>3
  <2>3. QED
    BY <2>1, <2>2
<1>10. ASSUME NEW t \in Threads, NEW s \in Sdks, destroy(t, s) PROVE TokenInv'
  BY <1>10 DEF destroy
<1>11. ASSUME NEW t \in Threads, unregister(t) PROVE TokenInv'
  BY <1>11 DEF unregister
<1>12. ASSUME NEW t \in Threads, UnregisterFree(t) PROVE TokenInv'
  BY <1>12 DEF UnregisterFree
<1>13. ASSUME NEW t \in Threads, StopProvider(t) PROVE TokenInv'
  BY <1>13 DEF StopProvider
<1>14. ASSUME NEW t \in Threads, ReadSlot(t) PROVE TokenInv'
  BY <1>14 DEF ReadSlot
<1>15. ASSUME NEW t \in Threads, RetainGlobal(t) PROVE TokenInv'
  BY <1>15 DEF RetainGlobal
<1>16. ASSUME NEW t \in Threads, GetMeter(t) PROVE TokenInv'
  BY <1>16 DEF GetMeter
<1>17. ASSUME NEW t \in Threads, NEW s \in Sdks, get_meter_provider(t, s) PROVE TokenInv'
  BY <1>17 DEF get_meter_provider
<1>18. ASSUME NEW t \in Threads, NEW c \in Contexts, provider_destroy(t, c) PROVE TokenInv'
  BY <1>18 DEF provider_destroy
<1>19. ASSUME UNCHANGED vars PROVE TokenInv'
  BY <1>19 DEF vars
<1> HIDE FreshContextType
    DEF
    TypeOK, ThreadTypeOK, SharedTypeOK, Locations, TokenInv, TokensDrawn,
    NewTokenUnknown, TokenNamesOwner, HoldsToken, Installed, ContextsKnown,
    LifecycleInv, Goto, Return, BoxProvider, FreeOld, provider_free, Begin,
    AfterTake, EmptySlot, slotVars, contextVars, sdkVars, threadVars
<1>20. QED
  BY <1>1, <1>2, <1>3, <1>4, <1>5, <1>6, <1>7, <1>8, <1>9, <1>10, <1>11, <1>12,
     <1>13, <1>14, <1>15, <1>16, <1>17, <1>18, <1>19
  DEF Next, Call, Step

(* The token invariant holds in every reachable state. *)
LEMMA TokenInvariant == Spec => []TokenInv
<1>1. Init /\ LifecycleInv => TokenInv
  BY DEF Init, TokenInv, TokensDrawn, NewTokenUnknown, TokenNamesOwner, EmptySlot
<1>2. TokenInv /\ LifecycleInv' /\ [Next]_vars => TokenInv'
  BY TokenStep DEF LifecycleInv
<1>3. QED
  BY <1>1, <1>2, LifecycleInvariant, PTL DEF Spec

(* Only the SDK that is installed empties the slot, through its own token
   (metrics_global.rs:165). *)
THEOREM OnlyOwnerClearsHolds == Spec => OnlyOwnerClears
<1> DEFINE ClearedByOwner ==
      \A s \in Sdks : Installed = s /\ slot' = EmptySlot =>
        \E t \in Threads : pc[t] = "unregister" /\ sdk[t] = s /\ pc'[t] # pc[t]
<1>1. ASSUME TokenInv, Next PROVE ClearedByOwner
  <2> SUFFICES ASSUME NEW s \in Sdks, Installed = s, slot' = EmptySlot
               PROVE  \E t \in Threads : pc[t] = "unregister" /\ sdk[t] = s /\ pc'[t] # pc[t]
    OBVIOUS
  <2>1. slot # EmptySlot
    BY ProviderLifecycleAssumption DEF Installed, EmptySlot
  <2>2. ASSUME NEW t \in Threads, InstallSwap(t) PROVE FALSE
    BY <1>1, <2>2 DEF InstallSwap, Goto, EmptySlot, TokenInv, LifecycleInv, ContextsKnown,
                      TypeOK, SharedTypeOK, ThreadTypeOK
  <2>3. PICK t \in Threads : unregister(t)
    <3>1. PICK t \in Threads : Call(t) \/ Step(t)
      BY <1>1 DEF Next
    <3>2. UNCHANGED slot \/ InstallSwap(t) \/ unregister(t)
      BY <3>1 DEF Call, Step, set_as_global, shutdown, destroy, get_meter_provider,
                  provider_destroy, ReadSlot, Begin, SetLock, InstallRefused,
                  next_registration_id, InstallFree, SetStore, ShutdownTake,
                  UnregisterFree, StopProvider, RetainGlobal, GetMeter, slotVars
    <3>3. QED
      BY <2>1, <2>2, <3>2
  <2>4. /\ pc[t] = "unregister" /\ pc' = [pc EXCEPT ![t] = "unregister_free"]
        /\ slot.id = token[t]
    BY <2>1, <2>3 DEF unregister, Goto
  <2>5. Installed = sdk[t]
    BY <1>1, <2>4 DEF TokenInv, TokenNamesOwner, LifecycleInv, TokensNonZero
  <2>6. QED
    BY <1>1, <2>4, <2>5 DEF TokenInv, LifecycleInv, TypeOK, ThreadTypeOK
<1>2. TokenInv /\ [Next]_vars => [ClearedByOwner]_vars
  BY <1>1
<1>3. QED
  BY <1>2, TokenInvariant, PTL DEF Spec, OnlyOwnerClears

--------------------------------------------------------------------------------
(***************************************************************************)
(* The refinement: installing is InstallSwap, a shutdown begins where the  *)
(* token is taken, and ends in StopProvider; every other step stutters.    *)
(***************************************************************************)
SlotAndPhasesStay == Installed' = Installed /\ \A s \in Sdks : Phase(s)' = Phase(s)

(* Every step of a call is a step of the abstract register, or none. *)
LEMMA RefinementStep ==
  ASSUME TokenInv, LifecycleInv', [Next]_vars
  PROVE  [Global!Next]_<<Installed, [s \in Sdks |-> Phase(s)]>>
<1> USE FreshContextType
    DEF
    TokenInv, LifecycleInv, ContextsKnown, TypeOK, ThreadTypeOK, SharedTypeOK,
    SlotAndPhasesStay, Installed, Phase, Goto, Return, BoxProvider, FreeOld,
    provider_free, Begin, AfterTake, EmptySlot, slotVars, contextVars, sdkVars,
    threadVars
<1>1. ASSUME NEW t \in Threads, NEW s \in Sdks, set_as_global(t, s) PROVE SlotAndPhasesStay
  BY <1>1 DEF set_as_global
<1>2. ASSUME NEW t \in Threads, SetLock(t) PROVE SlotAndPhasesStay
  BY <1>2 DEF SetLock
<1>3. ASSUME NEW t \in Threads, InstallRefused(t) PROVE SlotAndPhasesStay
  BY <1>3 DEF InstallRefused
<1>4. ASSUME NEW t \in Threads, next_registration_id(t) PROVE SlotAndPhasesStay
  BY <1>4 DEF next_registration_id
<1>5. ASSUME NEW t \in Threads, InstallFree(t) PROVE SlotAndPhasesStay
  BY <1>5 DEF InstallFree
<1>6. ASSUME NEW t \in Threads, SetStore(t) PROVE SlotAndPhasesStay
  BY <1>6 DEF SetStore
<1>7. ASSUME NEW t \in Threads, NEW s \in Sdks, shutdown(t, s) PROVE SlotAndPhasesStay
  BY <1>7 DEF shutdown
<1>8. ASSUME NEW t \in Threads, UnregisterFree(t) PROVE SlotAndPhasesStay
  BY <1>8 DEF UnregisterFree
<1>9. ASSUME NEW t \in Threads, ReadSlot(t) PROVE SlotAndPhasesStay
  BY <1>9 DEF ReadSlot
<1>10. ASSUME NEW t \in Threads, RetainGlobal(t) PROVE SlotAndPhasesStay
  BY <1>10 DEF RetainGlobal
<1>11. ASSUME NEW t \in Threads, GetMeter(t) PROVE SlotAndPhasesStay
  BY <1>11 DEF GetMeter
<1>12. ASSUME NEW t \in Threads, NEW s \in Sdks, get_meter_provider(t, s) PROVE SlotAndPhasesStay
  BY <1>12 DEF get_meter_provider
<1>13. ASSUME NEW t \in Threads, NEW c \in Contexts, provider_destroy(t, c) PROVE SlotAndPhasesStay
  BY <1>13 DEF provider_destroy
<1>14. ASSUME NEW t \in Threads, InstallSwap(t)
       PROVE  /\ Phase(sdk[t]) = "running" /\ Installed' = sdk[t]
              /\ \A s \in Sdks : Phase(s)' = Phase(s)
  BY <1>14 DEF InstallSwap, InstallerHoldsLock, Installing, Closed, ClosedHasNoToken
<1>15. ASSUME NEW t \in Threads, ShutdownTake(t)
       PROVE  \/ SlotAndPhasesStay
              \/ /\ Phase(sdk[t]) = "running" /\ Installed' = Installed
                 /\ \A s \in Sdks :
                      Phase(s)' = IF s = sdk[t] THEN "stopping" ELSE Phase(s)
  BY <1>15 DEF ShutdownTake, CallerOnLiveSdk, ClosedHasNoToken, Closed
<1>16. ASSUME NEW t \in Threads, NEW s \in Sdks, destroy(t, s)
       PROVE  \/ SlotAndPhasesStay
              \/ /\ Phase(s) = "running" /\ Installed' = Installed
                 /\ \A r \in Sdks : Phase(r)' = IF r = s THEN "stopping" ELSE Phase(r)
  BY <1>16 DEF destroy
<1>17. ASSUME NEW t \in Threads, unregister(t)
       PROVE  \/ SlotAndPhasesStay
              \/ /\ Phase(sdk[t]) = "stopping" /\ Installed = sdk[t]
                 /\ Installed' = NoSdk
                 /\ \A s \in Sdks : Phase(s)' = Phase(s)
  BY <1>17 DEF unregister, TokenNamesOwner, TokensNonZero, StopperIsAlone, Stopping,
               Closed, StoppedOut, StoppedNeverGlobal
<1>18. ASSUME NEW t \in Threads, StopProvider(t)
       PROVE  \/ SlotAndPhasesStay
              \/ /\ Phase(sdk[t]) = "stopping" /\ Installed # sdk[t]
                 /\ Installed' = Installed
                 /\ \A s \in Sdks :
                      Phase(s)' = IF s = sdk[t] THEN "stopped" ELSE Phase(s)
  <2>1. /\ sdk[t] \in Sdks /\ Closed(sdk[t]) /\ Installed # sdk[t]
        /\ stopped' = [stopped EXCEPT ![sdk[t]] = TRUE]
        /\ UNCHANGED <<slot, provider, shutdownStarted, sdkLive>>
    BY <1>18 DEF StopProvider, StopperIsAlone, Stopping, StoppedOut
  <2>2. CASE stopped[sdk[t]]
    BY <2>1, <2>2
  <2>3. CASE ~stopped[sdk[t]]
    <3>1. Phase(sdk[t]) = "stopping"
      BY <2>1, <2>3 DEF Closed
    <3>2. \A s \in Sdks : Phase(s)' = IF s = sdk[t] THEN "stopped" ELSE Phase(s)
      BY <2>1
    <3>3. Installed' = Installed
      BY <2>1
    <3>4. QED
      BY <2>1, <3>1, <3>2, <3>3
  <2>4. QED
    BY <2>2, <2>3
<1>19. ASSUME UNCHANGED vars PROVE SlotAndPhasesStay
  BY <1>19 DEF vars
<1> HIDE FreshContextType
    DEF
    TokenInv, LifecycleInv, ContextsKnown, TypeOK, ThreadTypeOK, SharedTypeOK,
    SlotAndPhasesStay, Installed, Phase, Goto, Return, BoxProvider, FreeOld,
    provider_free, Begin, AfterTake, EmptySlot, slotVars, contextVars, sdkVars,
    threadVars
<1>20. ASSUME SlotAndPhasesStay
       PROVE  UNCHANGED <<Installed, [s \in Sdks |-> Phase(s)]>>
  BY <1>20 DEF SlotAndPhasesStay
<1>21. ASSUME NEW s \in Sdks, NEW to,
              \A r \in Sdks : Phase(r)' = IF r = s THEN to ELSE Phase(r)
       PROVE  [r \in Sdks |-> Phase(r)]' = [[r \in Sdks |-> Phase(r)] EXCEPT ![s] = to]
  BY <1>21
<1>22. ASSUME \A s \in Sdks : Phase(s)' = Phase(s)
       PROVE  [s \in Sdks |-> Phase(s)]' = [s \in Sdks |-> Phase(s)]
  BY <1>22
<1>23. \A t \in Threads : pc[t] \in {"install_swap", "shutdown_lock", "unregister", "stop"}
                          => sdk[t] \in Sdks
  BY DEF TokenInv, LifecycleInv, TypeOK, ThreadTypeOK
<1>24. ASSUME NEW t \in Threads, InstallSwap(t) PROVE Global!Next
  <2>1. sdk[t] \in Sdks
    BY <1>23, <1>24 DEF InstallSwap, Goto
  <2>2. Global!Install(sdk[t])
    BY <1>14, <1>22, <1>24, <2>1 DEF Global!Install
  <2>3. QED
    BY <2>1, <2>2 DEF Global!Next
<1>25. ASSUME NEW t \in Threads, ShutdownTake(t) PROVE SlotAndPhasesStay \/ Global!Next
  <2>1. sdk[t] \in Sdks
    BY <1>23, <1>25 DEF ShutdownTake
  <2>2. CASE ~SlotAndPhasesStay
    <3>1. [s \in Sdks |-> Phase(s)]'
            = [[s \in Sdks |-> Phase(s)] EXCEPT ![sdk[t]] = "stopping"]
      BY <1>15, <1>21, <1>25, <2>1, <2>2
    <3>2. Global!BeginStop(sdk[t])
      BY <1>15, <1>25, <2>1, <2>2, <3>1 DEF Global!BeginStop
    <3>3. QED
      BY <2>1, <3>2 DEF Global!Next
  <2>3. QED
    BY <2>2
<1>26. ASSUME NEW t \in Threads, NEW s \in Sdks, destroy(t, s)
       PROVE  SlotAndPhasesStay \/ Global!Next
  <2>1. SlotAndPhasesStay \/ Global!BeginStop(s)
    BY <1>16, <1>21, <1>26 DEF Global!BeginStop
  <2>2. QED
    BY <2>1 DEF Global!Next
<1>27. ASSUME NEW t \in Threads, unregister(t) PROVE SlotAndPhasesStay \/ Global!Next
  <2>1. sdk[t] \in Sdks
    BY <1>23, <1>27 DEF unregister
  <2>2. SlotAndPhasesStay \/ Global!Clear(sdk[t])
    BY <1>17, <1>22, <1>27, <2>1 DEF Global!Clear
  <2>3. QED
    BY <2>1, <2>2 DEF Global!Next
<1>28. ASSUME NEW t \in Threads, StopProvider(t) PROVE SlotAndPhasesStay \/ Global!Next
  <2>1. sdk[t] \in Sdks
    BY <1>23, <1>28 DEF StopProvider, Return, Goto
  <2>2. CASE ~SlotAndPhasesStay
    <3>1. [s \in Sdks |-> Phase(s)]'
            = [[s \in Sdks |-> Phase(s)] EXCEPT ![sdk[t]] = "stopped"]
      BY <1>18, <1>21, <1>28, <2>1, <2>2
    <3>2. Global!Stop(sdk[t])
      BY <1>18, <1>28, <2>1, <2>2, <3>1 DEF Global!Stop
    <3>3. QED
      BY <2>1, <3>2 DEF Global!Next
  <2>3. QED
    BY <2>2
<1>29. SlotAndPhasesStay \/ Global!Next
  BY <1>1, <1>2, <1>3, <1>4, <1>5, <1>6, <1>7, <1>8, <1>9, <1>10, <1>11, <1>12, <1>13,
     <1>19, <1>24, <1>25, <1>26, <1>27, <1>28 DEF Next, Call, Step
<1>30. QED
  BY <1>20, <1>29

(* The slot with its locks, tokens and mutexes implements one register that
   only running SDKs take and only their own shutdown clears. *)
THEOREM RefinesGlobalProvider == Spec => ImplementsGlobalProvider
<1>1. Init => Global!Init
  BY ProviderLifecycleAssumption
  DEF Init, Global!Init, Installed, EmptySlot, Phase
<1>2. TokenInv /\ LifecycleInv' /\ [Next]_vars => [Global!Next]_Global!vars
  BY RefinementStep DEF Global!vars
<1>3. QED
  BY <1>1, <1>2, TokenInvariant, LifecycleInvariant, PTL
  DEF Spec, ImplementsGlobalProvider, Global!Safety

--------------------------------------------------------------------------------
(***************************************************************************)
(* SingleOwner and NoUseAfterFree.  A context is owned by the slot, by an  *)
(* API handle, or by a thread's local; no two of these ever share one, and *)
(* the slot keeps its context while a reader is inside.                    *)
(***************************************************************************)
OwnedByCall(t, c) == own[t] = c \/ (old[t] = c /\ Releasing(t))

ReadersInside ==
  /\ slotReaders = {t \in Threads : pc[t] = "retain"}
  /\ \A t \in slotReaders : old[t] = slot.ctx

OwnersDisjoint ==
  \A c \in Contexts :
    /\ slot.ctx = c => c \notin handles
    /\ \A t \in Threads : OwnedByCall(t, c) =>
         /\ c # slot.ctx /\ c \notin handles
         /\ \A u \in Threads : OwnedByCall(u, c) => u = t

OwnedIsLive ==
  /\ \A c \in Contexts : frees[c] \in {0, 1} /\ (frees[c] = 1 => c \in allocated)
  /\ \A c \in Contexts : c \in allocated /\ frees[c] = 0 <=>
       slot.ctx = c \/ c \in handles \/ \E t \in Threads : OwnedByCall(t, c)

OwnerInv == TypeOK /\ ReadersInside /\ OwnersDisjoint /\ OwnedIsLive

(* No step of any call breaks the ownership of contexts. *)
LEMMA OwnerStep ==
  ASSUME OwnerInv, [Next]_vars, TypeOK'
  PROVE  OwnerInv'
<1> USE FreshContextType
    DEF
    TypeOK, ThreadTypeOK, SharedTypeOK, Locations, OwnerInv, ReadersInside,
    OwnersDisjoint, OwnedIsLive, OwnedByCall, Releasing, Goto, Return, BoxProvider,
    FreeOld, provider_free, Begin, AfterTake, EmptySlot, slotVars, contextVars,
    sdkVars, threadVars
<1>1. ASSUME NEW t \in Threads, NEW s \in Sdks, set_as_global(t, s) PROVE OwnerInv'
  BY <1>1 DEF set_as_global
<1>2. ASSUME NEW t \in Threads, SetLock(t) PROVE OwnerInv'
  <2>1. CASE Return(t, "set_lock") /\ UNCHANGED <<slotVars, contextVars, sdkVars>>
    BY <1>2, <2>1
  <2>2. CASE ~shutdownStarted[sdk[t]]
    <3>1. /\ FreshContext \in Contexts \ allocated
          /\ own' = [own EXCEPT ![t] = FreshContext] /\ own[t] = NoContext
          /\ pc' = [pc EXCEPT ![t] = "install_id"] /\ pc[t] = "set_lock"
          /\ allocated' = allocated \cup {FreshContext}
          /\ UNCHANGED <<slot, slotReaders, frees, handles, old>>
      BY <1>2, <2>2 DEF SetLock
    <3>2. \A u \in Threads, c \in Contexts :
            OwnedByCall(u, c)' <=> OwnedByCall(u, c) \/ (u = t /\ c = FreshContext)
      BY <3>1
    <3>3. \A u \in Threads : ~OwnedByCall(u, FreshContext)
      BY <3>1
    <3>4. ReadersInside'
      BY <3>1
    <3>5. OwnersDisjoint'
      BY <3>1, <3>2, <3>3
    <3>6. OwnedIsLive'
      BY <3>1, <3>2
    <3>7. QED
      BY <3>4, <3>5, <3>6
  <2>3. QED
    BY <1>2, <2>1, <2>2 DEF SetLock
<1>3. ASSUME NEW t \in Threads, InstallRefused(t) PROVE OwnerInv'
  BY <1>3 DEF InstallRefused
<1>4. ASSUME NEW t \in Threads, next_registration_id(t) PROVE OwnerInv'
  BY <1>4 DEF next_registration_id
<1>5. ASSUME NEW t \in Threads, InstallSwap(t) PROVE OwnerInv'
  BY <1>5 DEF InstallSwap
<1>6. ASSUME NEW t \in Threads, InstallFree(t) PROVE OwnerInv'
  BY <1>6 DEF InstallFree
<1>7. ASSUME NEW t \in Threads, SetStore(t) PROVE OwnerInv'
  BY <1>7 DEF SetStore
<1>8. ASSUME NEW t \in Threads, NEW s \in Sdks, shutdown(t, s) PROVE OwnerInv'
  <2>1. /\ pc[t] = "idle" /\ pc'[t] = "shutdown_lock"
        /\ \A u \in Threads \ {t} : pc'[u] = pc[u]
        /\ UNCHANGED <<slotVars, contextVars, own, old>>
    BY <1>8 DEF shutdown
  <2>2. \A u \in Threads, c \in Contexts : OwnedByCall(u, c)' <=> OwnedByCall(u, c)
    BY <2>1
  <2>3. ReadersInside'
    BY <2>1
  <2>4. OwnersDisjoint'
    BY <2>1, <2>2
  <2>5. OwnedIsLive'
    BY <2>1, <2>2
  <2>6. QED
    BY <2>3, <2>4, <2>5
<1>9. ASSUME NEW t \in Threads, ShutdownTake(t) PROVE OwnerInv'
  BY <1>9 DEF ShutdownTake
<1>10. ASSUME NEW t \in Threads, NEW s \in Sdks, destroy(t, s) PROVE OwnerInv'
  BY <1>10 DEF destroy
<1>11. ASSUME NEW t \in Threads, unregister(t) PROVE OwnerInv'
  BY <1>11 DEF unregister
<1>12. ASSUME NEW t \in Threads, UnregisterFree(t) PROVE OwnerInv'
  BY <1>12 DEF UnregisterFree
<1>13. ASSUME NEW t \in Threads, StopProvider(t) PROVE OwnerInv'
  BY <1>13 DEF StopProvider
<1>14. ASSUME NEW t \in Threads, ReadSlot(t) PROVE OwnerInv'
  BY <1>14 DEF ReadSlot
<1>15. ASSUME NEW t \in Threads, RetainGlobal(t) PROVE OwnerInv'
  BY <1>15 DEF RetainGlobal
<1>16. ASSUME NEW t \in Threads, GetMeter(t) PROVE OwnerInv'
  BY <1>16 DEF GetMeter
<1>17. ASSUME NEW t \in Threads, NEW s \in Sdks, get_meter_provider(t, s) PROVE OwnerInv'
  BY <1>17 DEF get_meter_provider
<1>18. ASSUME NEW t \in Threads, NEW c \in Contexts, provider_destroy(t, c) PROVE OwnerInv'
  BY <1>18 DEF provider_destroy
<1>19. ASSUME UNCHANGED vars PROVE OwnerInv'
  BY <1>19 DEF vars
<1> HIDE FreshContextType
    DEF
    TypeOK, ThreadTypeOK, SharedTypeOK, Locations, OwnerInv, ReadersInside,
    OwnersDisjoint, OwnedIsLive, OwnedByCall, Releasing, Goto, Return, BoxProvider,
    FreeOld, provider_free, Begin, AfterTake, EmptySlot, slotVars, contextVars,
    sdkVars, threadVars
<1>20. QED
  BY <1>1, <1>2, <1>3, <1>4, <1>5, <1>6, <1>7, <1>8, <1>9, <1>10, <1>11, <1>12,
     <1>13, <1>14, <1>15, <1>16, <1>17, <1>18, <1>19
  DEF Next, Call, Step

(* Ownership of contexts holds in every reachable state. *)
LEMMA OwnerInvariant == Spec => []OwnerInv
<1>1. Init => OwnerInv
  BY DEF Init, OwnerInv, TypeOK, ThreadTypeOK, SharedTypeOK, Locations, EmptySlot,
         ReadersInside, OwnersDisjoint, OwnedIsLive, OwnedByCall, Releasing
<1>2. OwnerInv /\ [Next]_vars /\ TypeOK' => OwnerInv'
  BY OwnerStep
<1>3. QED
  BY <1>1, <1>2, TypeCorrect, PTL DEF Spec

(* A reader that clones the slot's context under the read lock never clones a
   released one (metrics_global.rs:86). *)
THEOREM NoUseAfterFreeHolds == Spec => []NoUseAfterFree
<1>1. OwnerInv => NoUseAfterFree
  BY DEF OwnerInv, NoUseAfterFree, Live, ReadersInside, OwnedIsLive, TypeOK,
         ThreadTypeOK, SharedTypeOK
<1>2. QED
  BY <1>1, OwnerInvariant, PTL

(* Every provider reference is released exactly once, by its one owner, on every
   path: replaced, stale, refused, failed or returned (metrics_global.rs:71,
   sdk.rs:888, metrics.rs:453). *)
THEOREM SingleOwnerHolds == Spec => []SingleOwner
<1>1. ASSUME OwnerInv, NEW c \in allocated
      PROVE  frees[c] + Cardinality(Owners(c)) = 1
  <2> USE <1>1 DEF OwnerInv, TypeOK, SharedTypeOK, ThreadTypeOK
  <2>1. frees[c] \in {0, 1} /\ c \in Contexts
    BY DEF OwnedIsLive
  <2>2. CASE frees[c] = 1
    <3>1. Owners(c) = {}
      BY <2>2 DEF Owners, OwnedIsLive, OwnedByCall
    <3>2. QED
      BY <2>2, <3>1, FS_EmptySet
  <2>3. CASE frees[c] = 0
    <3>1. ASSUME slot.ctx = c PROVE Cardinality(Owners(c)) = 1
      <4>1. Owners(c) = {<<"slot", NoThread>>}
        BY <2>1, <3>1 DEF Owners, OwnersDisjoint, OwnedByCall
      <4>2. QED
        BY <4>1, FS_Singleton
    <3>2. ASSUME c \in handles PROVE Cardinality(Owners(c)) = 1
      <4>1. Owners(c) = {<<"handle", NoThread>>}
        BY <2>1, <3>2 DEF Owners, OwnersDisjoint, OwnedByCall
      <4>2. QED
        BY <4>1, FS_Singleton
    <3>3. ASSUME NEW t \in Threads, own[t] = c
          PROVE  Cardinality(Owners(c)) = 1
      <4>1. Owners(c) = {<<"own", t>>}
        BY <2>1, <3>3 DEF Owners, OwnersDisjoint, OwnedByCall, Releasing
      <4>2. QED
        BY <4>1, FS_Singleton
    <3>4. ASSUME NEW t \in Threads, old[t] = c, Releasing(t)
          PROVE  Cardinality(Owners(c)) = 1
      <4>1. Owners(c) = {<<"old", t>>}
        BY <2>1, <3>4 DEF Owners, OwnersDisjoint, OwnedByCall, Releasing
      <4>2. QED
        BY <4>1, FS_Singleton
    <3>5. slot.ctx = c \/ c \in handles \/ \E t \in Threads : OwnedByCall(t, c)
      BY <2>1, <2>3 DEF OwnedIsLive
    <3>6. QED
      BY <2>3, <3>1, <3>2, <3>3, <3>4, <3>5 DEF OwnedByCall
  <2>4. QED
    BY <2>1, <2>2, <2>3
<1>2. OwnerInv => SingleOwner
  BY <1>1 DEF SingleOwner
<1>3. QED
  BY <1>2, OwnerInvariant, PTL
=================================================================================
