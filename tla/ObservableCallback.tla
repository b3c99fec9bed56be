--------------------------- MODULE ObservableCallback ---------------------------
(***************************************************************************)
(* Observable instruments (api/src/metrics.rs:975-1475 and the callback    *)
(* lease of sdk/src/metrics_vtable.rs): readers run the user's callback    *)
(* during collection, each on its own thread and possibly nested, while    *)
(* the application creates and destroys the instrument's handle, even from *)
(* inside the callback.  The callback's user data is reference counted:    *)
(* the handle's state holds one reference, every running callback another, *)
(* and the last one dropped runs user_data_destroy.                        *)
(*                                                                         *)
(* The pipeline of opentelemetry_sdk is external: it may call the closure  *)
(* it was given at any time until it drops it, and has no way to           *)
(* unregister it.                                                          *)
(***************************************************************************)
EXTENDS Naturals, FiniteSets, Sequences

CONSTANTS
  Instruments,   (* observable instruments                            *)
  Readers,       (* threads on which readers collect                  *)
  MaxNesting,    (* bound: collections nested on one thread           *)
  MaxCallbacks   (* bound: callbacks that get as far as a token       *)

VARIABLES
  handle,        (* where the creation or destruction of a handle is  *)
  enabled,       (* CallbackState.enabled                             *)
  userData,      (* CallbackState.user_data is Some                   *)
  hasDestroy,    (* UserData.destroy is Some                          *)
  destroyed,     (* how often user_data_destroy has run               *)
  registered,    (* the pipeline holds the closure and its lease      *)
  nextObserver,  (* NEXT_OBSERVER                                     *)
  observers,     (* OBSERVERS of each thread: active tokens           *)
  frames         (* the trampolines running on each thread, last on top *)

instrumentVars == <<handle, enabled, userData, hasDestroy, destroyed, registered>>
vars == <<instrumentVars, nextObserver, observers, frames>>

Init ==
  /\ handle = [i \in Instruments |-> "none"]
  /\ enabled = [i \in Instruments |-> FALSE]
  /\ userData = [i \in Instruments |-> FALSE]
  /\ hasDestroy = [i \in Instruments |-> FALSE]
  /\ destroyed = [i \in Instruments |-> 0]
  /\ registered = [i \in Instruments |-> FALSE]
  /\ nextObserver = 1
  /\ observers = [r \in Readers |-> {}]
  /\ frames = [r \in Readers |-> <<>>]

Holding == {"acquired", "calling", "leaving"}

(* The n-th trampoline on thread r holds a reference to i's user data. *)
Holds(r, n, i) == frames[r][n].instrument = i /\ frames[r][n].at \in Holding
Referenced(i) == \E r \in Readers : \E n \in DOMAIN frames[r] : Holds(r, n, i)

(* UserData::drop, run by whoever drops the last reference. *)
DropUserData(i, last) ==
  IF last /\ hasDestroy[i]
  THEN /\ destroyed' = [destroyed EXCEPT ![i] = @ + 1]
       /\ hasDestroy' = [hasDestroy EXCEPT ![i] = FALSE]
  ELSE UNCHANGED <<destroyed, hasDestroy>>

SetHandle(i, from, to) ==
  /\ handle[i] = from
  /\ handle' = [handle EXCEPT ![i] = to]

--------------------------------------------------------------------------------
(* Creation. *)

create(i) ==
  /\ SetHandle(i, "none", "creating")
  /\ enabled' = [enabled EXCEPT ![i] = TRUE]
  /\ userData' = [userData EXCEPT ![i] = TRUE]
  /\ hasDestroy' = [hasDestroy EXCEPT ![i] = TRUE]
  /\ UNCHANGED <<destroyed, registered, nextObserver, observers, frames>>

(* The SDK moves the lease into the closure it registers, the last thing of a
   creation that can fail. *)
RegisterCallback(i) ==
  /\ SetHandle(i, "creating", "created")
  /\ registered' = [registered EXCEPT ![i] = TRUE]
  /\ UNCHANGED <<enabled, userData, hasDestroy, destroyed, nextObserver, observers, frames>>

(* A meter without an implementation makes a handle that is never called. *)
CreateUnbacked(i) ==
  /\ SetHandle(i, "creating", "created")
  /\ UNCHANGED <<enabled, userData, hasDestroy, destroyed, registered,
                 nextObserver, observers, frames>>

(* The lease was dropped on the way; disable_and_relinquish_user_data leaves
   the user data to the caller. *)
CreateFails(i) ==
  /\ SetHandle(i, "creating", "failed")
  /\ enabled' = [enabled EXCEPT ![i] = FALSE]
  /\ userData' = [userData EXCEPT ![i] = FALSE]
  /\ hasDestroy' = [hasDestroy EXCEPT ![i] = FALSE]
  /\ UNCHANGED <<destroyed, registered, nextObserver, observers, frames>>

--------------------------------------------------------------------------------
(* Destruction: disable_and_release_user_data.  The application may be any
   thread, a callback of this very instrument included. *)

Disable(i) ==
  /\ SetHandle(i, "created", "disabled")
  /\ enabled' = [enabled EXCEPT ![i] = FALSE]
  /\ UNCHANGED <<userData, hasDestroy, destroyed, registered, nextObserver,
                 observers, frames>>

TakeUserData(i) ==
  /\ SetHandle(i, "disabled", "taken")
  /\ userData' = [userData EXCEPT ![i] = FALSE]
  /\ UNCHANGED <<enabled, hasDestroy, destroyed, registered, nextObserver,
                 observers, frames>>

(* Fault: destruction does not ask whether a callback still runs. *)
ReleaseAtOnce(i) ==
  /\ SetHandle(i, "taken", "gone")
  /\ DropUserData(i, TRUE)
  /\ UNCHANGED <<enabled, userData, registered, nextObserver, observers, frames>>

(* The reference is dropped outside the lock, then the handle is freed. *)
Release(i) ==
  /\ SetHandle(i, "taken", "gone")
  /\ DropUserData(i, ~Referenced(i) /\ ~userData[i])
  /\ UNCHANGED <<enabled, userData, registered, nextObserver, observers, frames>>

(* The pipeline goes, with no collection under way in this closure. *)
DropPipeline(i) ==
  /\ registered[i]
  /\ handle[i] # "creating"
  /\ \A r \in Readers : \A n \in DOMAIN frames[r] : frames[r][n].instrument # i
  /\ registered' = [registered EXCEPT ![i] = FALSE]
  /\ UNCHANGED <<handle, enabled, userData, hasDestroy, destroyed, nextObserver,
                 observers, frames>>

--------------------------------------------------------------------------------
(* Collection: callback_trampoline_u64, _i64 and _f64. *)

Depth(r) == Len(frames[r])
Running(r, at) == Depth(r) > 0 /\ frames[r][Depth(r)].at = at
Current(r) == frames[r][Depth(r)].instrument

MoveTo(r, at) == frames' = [frames EXCEPT ![r][Depth(r)].at = at]
Leave(r) == frames' = [frames EXCEPT ![r] = SubSeq(@, 1, Depth(r) - 1)]

(* The trampolines that may still ask for a token. *)
Pending ==
  Cardinality({f \in Readers \X (1..MaxNesting) :
                 f[2] \in DOMAIN frames[f[1]] /\ frames[f[1]][f[2]].token = 0})

(* The pipeline calls the closure: at the bottom, or from a callback that made
   another reader collect. *)
Collect(r, i) ==
  /\ registered[i]
  /\ Depth(r) = 0 \/ Running(r, "calling")
  /\ Depth(r) < MaxNesting
  /\ nextObserver + Pending <= MaxCallbacks
  /\ frames' = [frames EXCEPT ![r] =
                  Append(@, [instrument |-> i, at |-> "entered", token |-> 0])]
  /\ UNCHANGED <<instrumentVars, nextObserver, observers>>

(* The first look at `enabled` takes no lock. *)
LoadEnabled(r) ==
  /\ Running(r, "entered")
  /\ IF enabled[Current(r)] THEN MoveTo(r, "enabled") ELSE Leave(r)
  /\ UNCHANGED <<instrumentVars, nextObserver, observers>>

(* Under the lock: a second look, then a reference of one's own. *)
Acquire(r) ==
  /\ Running(r, "enabled")
  /\ IF enabled[Current(r)] /\ userData[Current(r)]
       THEN MoveTo(r, "acquired") ELSE Leave(r)
  /\ UNCHANGED <<instrumentVars, nextObserver, observers>>

EnterCallback(r) ==
  /\ Running(r, "acquired")
  /\ nextObserver' = nextObserver + 1
  /\ observers' = [observers EXCEPT ![r] = @ \cup {nextObserver}]
  /\ frames' = [frames EXCEPT ![r][Depth(r)].at = "calling",
                              ![r][Depth(r)].token = nextObserver]
  /\ UNCHANGED instrumentVars

(* The callback returned: its token dies first ... *)
LeaveCallback(r) ==
  /\ Running(r, "calling")
  /\ observers' = [observers EXCEPT ![r] = @ \ {frames[r][Depth(r)].token}]
  /\ MoveTo(r, "leaving")
  /\ UNCHANGED <<instrumentVars, nextObserver>>

(* Fault: only the handle's destruction ever runs user_data_destroy. *)
DropReferenceQuietly(r) ==
  /\ Running(r, "leaving")
  /\ Leave(r)
  /\ UNCHANGED <<instrumentVars, nextObserver, observers>>

(* ... then its reference, perhaps the last one. *)
DropReference(r) ==
  /\ Running(r, "leaving")
  /\ Leave(r)
  /\ DropUserData(Current(r),
       /\ ~userData[Current(r)]
       /\ handle[Current(r)] # "taken"
       /\ \A s \in Readers : \A n \in DOMAIN frames[s] :
            Holds(s, n, Current(r)) => s = r /\ n = Depth(r))
  /\ UNCHANGED <<handle, enabled, userData, registered, nextObserver, observers>>

(* otel_observer_*_observe: a token is looked up on the calling thread only. *)
Accepts(r, token) == token \in observers[r]

--------------------------------------------------------------------------------
Application(i) ==
  \/ create(i) \/ RegisterCallback(i) \/ CreateUnbacked(i) \/ CreateFails(i)
  \/ Disable(i) \/ TakeUserData(i) \/ Release(i) \/ DropPipeline(i)

Releasing(i) == TakeUserData(i) \/ Release(i)

Trampoline(r) ==
  \/ LoadEnabled(r) \/ Acquire(r) \/ EnterCallback(r)
  \/ LeaveCallback(r) \/ DropReference(r)

Next ==
  \/ \E i \in Instruments : Application(i)
  \/ \E r \in Readers : Trampoline(r) \/ \E i \in Instruments : Collect(r, i)

Spec == Init /\ [][Next]_vars

(* Callbacks finish in finite time (metrics.h:204), however often they make
   another reader collect, and a begun destruction goes on; nobody has to destroy
   an instrument or to collect. *)
Fairness ==
  /\ \A r \in Readers : WF_vars(Trampoline(r)) /\ SF_vars(LeaveCallback(r))
  /\ \A i \in Instruments : WF_vars(Releasing(i))

FairSpec == Spec /\ Fairness

--------------------------------------------------------------------------------
(* Properties. *)

FrameType ==
  [instrument : Instruments,
   at : {"entered", "enabled", "acquired", "calling", "leaving"},
   token : Nat]

(* Every variable holds a value of its kind (CallbackState, metrics.rs:983). *)
TypeOK ==
  /\ handle \in [Instruments -> {"none", "creating", "created", "failed",
                                 "disabled", "taken", "gone"}]
  /\ enabled \in [Instruments -> BOOLEAN]
  /\ userData \in [Instruments -> BOOLEAN]
  /\ hasDestroy \in [Instruments -> BOOLEAN]
  /\ destroyed \in [Instruments -> 0..1]
  /\ registered \in [Instruments -> BOOLEAN]
  /\ nextObserver \in Nat
  /\ observers \in [Readers -> SUBSET Nat]
  /\ frames \in [Readers -> Seq(FrameType)]

(* No callback runs on user data its destructor has seen, whoever destroys the
   handle meanwhile, the callback itself included (metrics.rs:1015-1037). *)
UserDataLive ==
  \A i \in Instruments : Referenced(i) => destroyed[i] = 0

(* Once the handle is gone and the last callback has left, user_data_destroy has
   run exactly once; a failed creation never runs it (metrics.h:205). *)
DestroyedOnce ==
  \A i \in Instruments :
    destroyed[i] = IF handle[i] = "gone" /\ ~Referenced(i) THEN 1 ELSE 0

(* An observer token is accepted on the thread of its callback and nowhere else,
   and only until that callback returns, nested ones included (metrics.h:200). *)
TokensAreScoped ==
  \A r \in Readers : \A token \in 0..MaxCallbacks :
    Accepts(r, token) <=>
      \A s \in Readers :
        (\E n \in DOMAIN frames[s] : frames[s][n].at = "calling"
                                     /\ frames[s][n].token = token) <=> s = r

(* A destroyed handle's user data is given back, however busy the readers are
   (metrics.h:208). *)
UserDataReleased ==
  \A i \in Instruments : handle[i] = "disabled" ~> destroyed[i] = 1
===============================================================================
