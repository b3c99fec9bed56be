---------------------------- MODULE Callbacks_proofs ----------------------------
(***************************************************************************)
(* Proofs about observable instruments and the diagnostic sink, for any    *)
(* instruments, readers, sinks, threads and nesting, and what they and     *)
(* CustomExporter_proofs say together of the callbacks of MCCallbacks.     *)
(***************************************************************************)
EXTENDS MCCallbacks, Sequences, CustomExporter_proofs

--------------------------------------------------------------------------------
(* Observable instruments. *)

(* The switches of a callback state, and its destructor, follow from where its handle is. *)
HandleState(i) ==
  /\ enabled[i] <=> handle[i] \in {"creating", "created"}
  /\ userData[i] <=> handle[i] \in {"creating", "created", "disabled"}
  /\ hasDestroy[i] <=> handle[i] \notin {"none", "failed"} /\ destroyed[i] = 0
  /\ registered[i] => handle[i] \notin {"none", "creating", "failed"}

(* Only a closure that was registered ever runs. *)
FramesAreRegistered ==
  \A r \in Readers : \A n \in DOMAIN frames[r] :
    handle[frames[r][n].instrument] \notin {"none", "creating", "failed"}

(* The active tokens of a thread are those of its running callbacks, and no two callbacks
   have the same. *)
Calling(r, n, token) ==
  n \in DOMAIN frames[r] /\ frames[r][n].at = "calling" /\ frames[r][n].token = token
TokensOfCallbacks ==
  /\ \A r \in Readers, token \in Nat :
       token \in observers[r] <=> \E n \in Nat : Calling(r, n, token)
  /\ \A r, s \in Readers, m, n, token \in Nat :
       Calling(r, m, token) /\ Calling(s, n, token) => r = s /\ m = n
  /\ \A r \in Readers : \A token \in observers[r] : token < nextObserver

ObservableInv ==
  /\ Observable!TypeOK
  /\ \A i \in Instruments : HandleState(i)
  /\ Observable!DestroyedOnce
  /\ FramesAreRegistered
  /\ TokensOfCallbacks

(* The initial state satisfies the invariant. *)
LEMMA ObservableInitInv == Observable!Init => ObservableInv
<1> SUFFICES ASSUME Observable!Init PROVE ObservableInv
  OBVIOUS
<1> USE DEF Observable!Init
<1>1. Observable!TypeOK
  BY DEF Observable!TypeOK
<1>2. \A i \in Instruments : HandleState(i)
  BY DEF HandleState
<1>3. Observable!DestroyedOnce
  BY DEF Observable!DestroyedOnce, Observable!Referenced
<1>4. FramesAreRegistered /\ TokensOfCallbacks
  BY DEF FramesAreRegistered, TokensOfCallbacks, Calling
<1>5. QED
  BY <1>1, <1>2, <1>3, <1>4 DEF ObservableInv

(* What is on a stack is a frame. *)
LEMMA FrameIsTyped ==
  ASSUME ObservableInv, NEW r \in Readers, NEW n \in DOMAIN frames[r]
  PROVE  /\ frames[r] \in Seq(Observable!FrameType)
         /\ frames[r][n] \in Observable!FrameType
         /\ frames[r][n].instrument \in Instruments /\ frames[r][n].token \in Nat
         /\ n \in 1..Len(frames[r]) /\ Len(frames[r]) \in Nat
<1>1. frames[r] \in Seq(Observable!FrameType)
  BY DEF ObservableInv, Observable!TypeOK
<1>2. frames[r][n] \in Observable!FrameType /\ n \in 1..Len(frames[r]) /\ Len(frames[r]) \in Nat
  BY <1>1
<1>3. QED
  BY <1>1, <1>2 DEF Observable!FrameType

(* Steps of a handle leave the trampolines alone: what is left to see is the handle's own
   state and whether its user data is destroyed when it should be. *)
LEMMA HandleStep ==
  ASSUME ObservableInv, NEW i \in Instruments,
         Observable!TypeOK', UNCHANGED <<nextObserver, observers, frames>>,
         \A j \in Instruments \ {i} :
           /\ handle'[j] = handle[j] /\ enabled'[j] = enabled[j] /\ userData'[j] = userData[j]
           /\ hasDestroy'[j] = hasDestroy[j] /\ destroyed'[j] = destroyed[j]
           /\ registered'[j] = registered[j],
         HandleState(i)',
         destroyed'[i] = IF handle'[i] = "gone" /\ ~Observable!Referenced(i) THEN 1 ELSE 0,
         handle'[i] \notin {"none", "creating", "failed"}
           \/ handle[i] \in {"none", "creating", "failed"}
  PROVE  ObservableInv'
<1>1. \A j \in Instruments : HandleState(j)'
  BY DEF ObservableInv, HandleState
<1>2. Observable!DestroyedOnce'
  BY DEF ObservableInv, Observable!DestroyedOnce, Observable!Referenced, Observable!Holds
<1>3. FramesAreRegistered'
  <2>1. ASSUME NEW r \in Readers, NEW n \in DOMAIN frames[r]
        PROVE  handle'[frames[r][n].instrument] \notin {"none", "creating", "failed"}
    <3>1. frames[r][n].instrument \in Instruments
      BY FrameIsTyped
    <3>2. handle[frames[r][n].instrument] \notin {"none", "creating", "failed"}
      BY DEF ObservableInv, FramesAreRegistered
    <3>3. QED
      BY <3>1, <3>2
  <2>2. QED
    BY <2>1 DEF FramesAreRegistered
<1>4. TokensOfCallbacks'
  BY DEF ObservableInv, TokensOfCallbacks, Calling
<1>5. QED
  BY <1>1, <1>2, <1>3, <1>4 DEF ObservableInv

(* Creation, destruction and the end of the pipeline keep the invariant. *)
LEMMA ApplicationStep ==
  ASSUME ObservableInv, NEW i \in Instruments, Observable!Application(i)
  PROVE  ObservableInv'
<1> DEFINE untouched == \A j \in Instruments \ {i} :
             /\ handle'[j] = handle[j] /\ enabled'[j] = enabled[j] /\ userData'[j] = userData[j]
             /\ hasDestroy'[j] = hasDestroy[j] /\ destroyed'[j] = destroyed[j]
             /\ registered'[j] = registered[j]
           due == IF handle'[i] = "gone" /\ ~Observable!Referenced(i) THEN 1 ELSE 0
<1>0. /\ HandleState(i)
      /\ destroyed[i] = IF handle[i] = "gone" /\ ~Observable!Referenced(i) THEN 1 ELSE 0
  BY DEF ObservableInv, Observable!DestroyedOnce
<1>1. CASE Observable!create(i)
  <2>1. Observable!TypeOK' /\ untouched
    BY <1>0, <1>1 DEF Observable!create, Observable!SetHandle, HandleState, ObservableInv, Observable!TypeOK
  <2>2. HandleState(i)' /\ destroyed'[i] = due
    BY <1>0, <1>1 DEF Observable!create, Observable!SetHandle, HandleState,
      ObservableInv, Observable!TypeOK
  <2>3. /\ UNCHANGED <<nextObserver, observers, frames>>
        /\ handle'[i] \notin {"none", "creating", "failed"}
             \/ handle[i] \in {"none", "creating", "failed"}
    BY <1>1 DEF Observable!create, Observable!SetHandle, ObservableInv, Observable!TypeOK
  <2>4. QED
    BY <2>1, <2>2, <2>3, HandleStep
<1>2. CASE Observable!RegisterCallback(i)
  <2>1. Observable!TypeOK' /\ untouched
    BY <1>0, <1>2 DEF Observable!RegisterCallback, Observable!SetHandle, HandleState, ObservableInv, Observable!TypeOK
  <2>2. HandleState(i)' /\ destroyed'[i] = due
    BY <1>0, <1>2 DEF Observable!RegisterCallback, Observable!SetHandle, HandleState,
      ObservableInv, Observable!TypeOK
  <2>3. /\ UNCHANGED <<nextObserver, observers, frames>>
        /\ handle'[i] \notin {"none", "creating", "failed"}
             \/ handle[i] \in {"none", "creating", "failed"}
    BY <1>2 DEF Observable!RegisterCallback, Observable!SetHandle, ObservableInv, Observable!TypeOK
  <2>4. QED
    BY <2>1, <2>2, <2>3, HandleStep
<1>3. CASE Observable!CreateUnbacked(i)
  <2>1. Observable!TypeOK' /\ untouched
    BY <1>0, <1>3 DEF Observable!CreateUnbacked, Observable!SetHandle, HandleState, ObservableInv, Observable!TypeOK
  <2>2. HandleState(i)' /\ destroyed'[i] = due
    BY <1>0, <1>3 DEF Observable!CreateUnbacked, Observable!SetHandle, HandleState,
      ObservableInv, Observable!TypeOK
  <2>3. /\ UNCHANGED <<nextObserver, observers, frames>>
        /\ handle'[i] \notin {"none", "creating", "failed"}
             \/ handle[i] \in {"none", "creating", "failed"}
    BY <1>3 DEF Observable!CreateUnbacked, Observable!SetHandle, ObservableInv, Observable!TypeOK
  <2>4. QED
    BY <2>1, <2>2, <2>3, HandleStep
<1>4. CASE Observable!CreateFails(i)
  <2>1. Observable!TypeOK' /\ untouched
    BY <1>0, <1>4 DEF Observable!CreateFails, Observable!SetHandle, HandleState, ObservableInv, Observable!TypeOK
  <2>2. HandleState(i)' /\ destroyed'[i] = due
    BY <1>0, <1>4 DEF Observable!CreateFails, Observable!SetHandle, HandleState,
      ObservableInv, Observable!TypeOK
  <2>3. /\ UNCHANGED <<nextObserver, observers, frames>>
        /\ handle'[i] \notin {"none", "creating", "failed"}
             \/ handle[i] \in {"none", "creating", "failed"}
    BY <1>4 DEF Observable!CreateFails, Observable!SetHandle, ObservableInv, Observable!TypeOK
  <2>4. QED
    BY <2>1, <2>2, <2>3, HandleStep
<1>5. CASE Observable!Disable(i)
  <2>1. Observable!TypeOK' /\ untouched
    BY <1>0, <1>5 DEF Observable!Disable, Observable!SetHandle, HandleState, ObservableInv, Observable!TypeOK
  <2>2. HandleState(i)' /\ destroyed'[i] = due
    BY <1>0, <1>5 DEF Observable!Disable, Observable!SetHandle, HandleState,
      ObservableInv, Observable!TypeOK
  <2>3. /\ UNCHANGED <<nextObserver, observers, frames>>
        /\ handle'[i] \notin {"none", "creating", "failed"}
             \/ handle[i] \in {"none", "creating", "failed"}
    BY <1>5 DEF Observable!Disable, Observable!SetHandle, ObservableInv, Observable!TypeOK
  <2>4. QED
    BY <2>1, <2>2, <2>3, HandleStep
<1>6. CASE Observable!TakeUserData(i)
  <2>1. Observable!TypeOK' /\ untouched
    BY <1>0, <1>6 DEF Observable!TakeUserData, Observable!SetHandle, HandleState, ObservableInv, Observable!TypeOK
  <2>2. HandleState(i)' /\ destroyed'[i] = due
    BY <1>0, <1>6 DEF Observable!TakeUserData, Observable!SetHandle, HandleState,
      ObservableInv, Observable!TypeOK
  <2>3. /\ UNCHANGED <<nextObserver, observers, frames>>
        /\ handle'[i] \notin {"none", "creating", "failed"}
             \/ handle[i] \in {"none", "creating", "failed"}
    BY <1>6 DEF Observable!TakeUserData, Observable!SetHandle, ObservableInv, Observable!TypeOK
  <2>4. QED
    BY <2>1, <2>2, <2>3, HandleStep
<1>7. CASE Observable!Release(i)
  <2>1. Observable!TypeOK' /\ untouched
    <3>1. destroyed[i] = 0
      BY <1>0, <1>7 DEF Observable!Release, Observable!SetHandle
    <3>2. destroyed' \in [Instruments -> 0..1] /\ hasDestroy' \in [Instruments -> BOOLEAN]
      <4>1. destroyed' \in {destroyed, [destroyed EXCEPT ![i] = 1]}
        BY <1>7, <3>1 DEF Observable!Release, Observable!DropUserData
      <4>2. hasDestroy' \in {hasDestroy, [hasDestroy EXCEPT ![i] = FALSE]}
        BY <1>7 DEF Observable!Release, Observable!DropUserData
      <4>3. [destroyed EXCEPT ![i] = 1] \in [Instruments -> 0..1]
        BY DEF ObservableInv, Observable!TypeOK
      <4>4. QED
        BY <4>1, <4>2, <4>3 DEF ObservableInv, Observable!TypeOK
    <3>3. Observable!TypeOK'
      BY <1>7, <3>2 DEF Observable!Release, Observable!SetHandle, ObservableInv,
                        Observable!TypeOK
    <3>4. untouched
      BY <1>7 DEF Observable!Release, Observable!SetHandle, Observable!DropUserData,
                  ObservableInv, Observable!TypeOK
    <3>5. QED
      BY <3>3, <3>4
  <2>2. HandleState(i)' /\ destroyed'[i] = due
    BY <1>0, <1>7 DEF Observable!Release, Observable!SetHandle, Observable!DropUserData, HandleState,
      ObservableInv, Observable!TypeOK
  <2>3. /\ UNCHANGED <<nextObserver, observers, frames>>
        /\ handle'[i] \notin {"none", "creating", "failed"}
             \/ handle[i] \in {"none", "creating", "failed"}
    BY <1>7 DEF Observable!Release, Observable!SetHandle, Observable!DropUserData, ObservableInv, Observable!TypeOK
  <2>4. QED
    BY <2>1, <2>2, <2>3, HandleStep
<1>8. CASE Observable!DropPipeline(i)
  <2>1. Observable!TypeOK' /\ untouched
    BY <1>0, <1>8 DEF Observable!DropPipeline, HandleState, ObservableInv, Observable!TypeOK
  <2>2. HandleState(i)' /\ destroyed'[i] = due
    BY <1>0, <1>8 DEF Observable!DropPipeline, HandleState,
      ObservableInv, Observable!TypeOK
  <2>3. /\ UNCHANGED <<nextObserver, observers, frames>>
        /\ handle'[i] \notin {"none", "creating", "failed"}
             \/ handle[i] \in {"none", "creating", "failed"}
    BY <1>8 DEF Observable!DropPipeline, ObservableInv, Observable!TypeOK
  <2>4. QED
    BY <2>1, <2>2, <2>3, HandleStep
<1>9. QED
  BY <1>1, <1>2, <1>3, <1>4, <1>5, <1>6, <1>7, <1>8 DEF Observable!Application

(* Leaving takes the topmost trampoline off the stack of its thread. *)
LEMMA LeaveStack ==
  ASSUME ObservableInv, NEW r \in Readers, NEW d, d = Len(frames[r]), d > 0,
         Observable!Leave(r)
  PROVE  /\ frames' \in [Readers -> Seq(Observable!FrameType)]
         /\ \A s \in Readers \ {r} : frames'[s] = frames[s]
         /\ DOMAIN frames'[r] = DOMAIN frames[r] \ {d} /\ d \in DOMAIN frames[r]
         /\ \A n \in DOMAIN frames'[r] : frames'[r][n] = frames[r][n]
<1>1. frames[r] \in Seq(Observable!FrameType) /\ d \in Nat
  BY DEF ObservableInv, Observable!TypeOK
<1>2. frames'[r] = SubSeq(frames[r], 1, d - 1)
  BY DEF Observable!Leave, Observable!Depth, ObservableInv, Observable!TypeOK
<1>3. /\ SubSeq(frames[r], 1, d - 1) \in Seq(Observable!FrameType)
      /\ DOMAIN SubSeq(frames[r], 1, d - 1) = 1..(d - 1)
      /\ \A n \in 1..(d - 1) : SubSeq(frames[r], 1, d - 1)[n] = frames[r][n]
  BY <1>1
<1>4. /\ \A s \in Readers \ {r} : frames'[s] = frames[s]
      /\ frames' \in [Readers -> Seq(Observable!FrameType)]
  BY <1>2, <1>3 DEF Observable!Leave, Observable!Depth, ObservableInv, Observable!TypeOK
<1>5. 1..(d - 1) = DOMAIN frames[r] \ {d} /\ d \in DOMAIN frames[r]
  BY <1>1
<1>6. QED
  BY <1>2, <1>3, <1>4, <1>5

(* Moving on changes the topmost trampoline only. *)
LEMMA MoveStack ==
  ASSUME ObservableInv, NEW r \in Readers, NEW d, d = Len(frames[r]), d > 0,
         NEW now \in Observable!FrameType,
         frames' = [frames EXCEPT ![r][d] = now]
  PROVE  /\ frames' \in [Readers -> Seq(Observable!FrameType)]
         /\ \A s \in Readers \ {r} : frames'[s] = frames[s]
         /\ DOMAIN frames'[r] = DOMAIN frames[r] /\ d \in DOMAIN frames[r]
         /\ \A n \in DOMAIN frames[r] \ {d} : frames'[r][n] = frames[r][n]
         /\ frames'[r][d] = now
<1>1. frames[r] \in Seq(Observable!FrameType) /\ d \in DOMAIN frames[r]
  BY DEF ObservableInv, Observable!TypeOK
<1>2. frames'[r] = [frames[r] EXCEPT ![d] = now]
  BY DEF ObservableInv, Observable!TypeOK
<1>3. [frames[r] EXCEPT ![d] = now] \in Seq(Observable!FrameType)
  BY <1>1
<1>4. frames' \in [Readers -> Seq(Observable!FrameType)]
  BY <1>2, <1>3 DEF ObservableInv, Observable!TypeOK
<1>5. \A s \in Readers \ {r} : frames'[s] = frames[s]
  BY DEF ObservableInv, Observable!TypeOK
<1>6. QED
  BY <1>1, <1>2, <1>4, <1>5

(* A step that neither starts nor ends a callback. *)
LEMMA SameCallbacks ==
  ASSUME ObservableInv, UNCHANGED <<nextObserver, observers>>,
         \A s \in Readers, n, token \in Nat : Calling(s, n, token)' <=> Calling(s, n, token)
  PROVE  TokensOfCallbacks'
<1>1. TokensOfCallbacks
  BY DEF ObservableInv
<1>2. \A s \in Readers, token \in Nat :
        token \in observers'[s] <=> \E n \in Nat : Calling(s, n, token)'
  BY <1>1 DEF TokensOfCallbacks
<1>3. \A r, s \in Readers, m, n, token \in Nat :
        Calling(r, m, token)' /\ Calling(s, n, token)' => r = s /\ m = n
  BY <1>1 DEF TokensOfCallbacks
<1>4. \A r \in Readers : \A token \in observers'[r] : token < nextObserver'
  BY <1>1 DEF TokensOfCallbacks
<1>5. QED
  BY <1>2, <1>3, <1>4 DEF TokensOfCallbacks

(* A step of a trampoline that leaves the handles alone and neither takes nor drops a
   reference to what a destroyed handle has left behind. *)
LEMMA QuietStep ==
  ASSUME ObservableInv, UNCHANGED Observable!instrumentVars, Observable!TypeOK',
         \A i \in Instruments : handle[i] = "gone" =>
           (Observable!Referenced(i)' <=> Observable!Referenced(i)),
         FramesAreRegistered', TokensOfCallbacks'
  PROVE  ObservableInv'
<1>1. \A i \in Instruments : HandleState(i)'
  BY DEF ObservableInv, HandleState, Observable!instrumentVars
<1>2. Observable!DestroyedOnce'
  BY DEF ObservableInv, Observable!DestroyedOnce, Observable!instrumentVars
<1>3. QED
  BY <1>1, <1>2 DEF ObservableInv

(* The pipeline's call puts a trampoline on top. *)
LEMMA CollectStep ==
  ASSUME ObservableInv, NEW r \in Readers, NEW i \in Instruments, Observable!Collect(r, i)
  PROVE  ObservableInv'
<1> DEFINE now == [instrument |-> i, at |-> "entered", token |-> 0]
<1> SUFFICES ASSUME NEW d, d = Len(frames[r]) + 1 PROVE ObservableInv'
  OBVIOUS
<1>1. frames[r] \in Seq(Observable!FrameType) /\ now \in Observable!FrameType
  BY DEF ObservableInv, Observable!TypeOK, Observable!FrameType
<1>2. frames' = [frames EXCEPT ![r] = Append(@, now)]
  BY DEF Observable!Collect
<1>3. /\ frames' \in [Readers -> Seq(Observable!FrameType)]
      /\ \A s \in Readers \ {r} : frames'[s] = frames[s]
      /\ DOMAIN frames'[r] = DOMAIN frames[r] \cup {d} /\ d \notin DOMAIN frames[r]
      /\ \A n \in DOMAIN frames[r] : frames'[r][n] = frames[r][n]
      /\ frames'[r][d] = now
  BY <1>1, <1>2 DEF ObservableInv, Observable!TypeOK
<1>4. UNCHANGED <<Observable!instrumentVars, nextObserver, observers>>
  BY DEF Observable!Collect
<1>5. Observable!TypeOK'
  BY <1>3, <1>4 DEF Observable!instrumentVars, ObservableInv, Observable!TypeOK
<1>6. \A j \in Instruments : Observable!Referenced(j)' <=> Observable!Referenced(j)
  <2>1. ASSUME NEW j \in Instruments
        PROVE  Observable!Referenced(j)' <=> Observable!Referenced(j)
    <3>1. ~Observable!Holds(r, d, j)'
      BY <1>3 DEF Observable!Holds, Observable!Holding
    <3>2. \A s \in Readers : \A n \in DOMAIN frames[s] :
            Observable!Holds(s, n, j)' <=> Observable!Holds(s, n, j)
      BY <1>3 DEF Observable!Holds
    <3>3. QED
      BY <1>3, <3>1, <3>2 DEF Observable!Referenced
  <2>2. QED
    BY <2>1
<1>7. FramesAreRegistered'
  BY <1>3, <1>4 DEF Observable!Collect, Observable!instrumentVars, ObservableInv,
                    FramesAreRegistered, HandleState
<1>8. TokensOfCallbacks'
  <2>1. \A s \in Readers, n, token \in Nat : Calling(s, n, token)' <=> Calling(s, n, token)
    BY <1>3 DEF Calling
  <2>2. QED
    BY <1>4, <2>1, SameCallbacks
<1>9. QED
  BY <1>4, <1>5, <1>6, <1>7, <1>8, QuietStep

(* A trampoline that finds its instrument disabled leaves before it took a reference. *)
LEMMA TurnedAwayStep ==
  ASSUME ObservableInv, NEW r \in Readers,
         Observable!Running(r, "entered") \/ Observable!Running(r, "enabled"),
         Observable!Leave(r), UNCHANGED <<Observable!instrumentVars, nextObserver, observers>>
  PROVE  ObservableInv'
<1> SUFFICES ASSUME NEW d, d = Len(frames[r]) PROVE ObservableInv'
  OBVIOUS
<1>1. d > 0 /\ frames[r][d].at \in {"entered", "enabled"}
  BY DEF Observable!Running, Observable!Depth
<1>2. /\ frames' \in [Readers -> Seq(Observable!FrameType)]
      /\ \A s \in Readers \ {r} : frames'[s] = frames[s]
      /\ DOMAIN frames'[r] = DOMAIN frames[r] \ {d} /\ d \in DOMAIN frames[r]
      /\ \A n \in DOMAIN frames'[r] : frames'[r][n] = frames[r][n]
  BY <1>1, LeaveStack
<1>3. Observable!TypeOK'
  BY <1>2 DEF Observable!instrumentVars, ObservableInv, Observable!TypeOK
<1>4. \A j \in Instruments : Observable!Referenced(j)' <=> Observable!Referenced(j)
  BY <1>1, <1>2 DEF Observable!Referenced, Observable!Holds, Observable!Holding
<1>5. FramesAreRegistered'
  BY <1>2 DEF Observable!instrumentVars, ObservableInv, FramesAreRegistered
<1>6. TokensOfCallbacks'
  <2>1. \A s \in Readers, n, token \in Nat : Calling(s, n, token)' <=> Calling(s, n, token)
    BY <1>1, <1>2 DEF Calling
  <2>2. QED
    BY <2>1, SameCallbacks
<1>7. QED
  BY <1>3, <1>4, <1>5, <1>6, QuietStep

(* The topmost trampoline moves on, its instrument as it was. *)
LEMMA MovedStack ==
  ASSUME ObservableInv, NEW r \in Readers, NEW d, d = Len(frames[r]), d > 0,
         NEW now \in Observable!FrameType, now.instrument = frames[r][d].instrument,
         frames' = [frames EXCEPT ![r][d] = now],
         UNCHANGED Observable!instrumentVars, nextObserver' \in Nat,
         observers' \in [Readers -> SUBSET Nat]
  PROVE  /\ Observable!TypeOK' /\ FramesAreRegistered'
         /\ \A j \in Instruments :
              (now.instrument = j => (now.at \in Observable!Holding <=> Observable!Holds(r, d, j)))
                => (Observable!Referenced(j)' <=> Observable!Referenced(j))
<1>1. /\ frames' \in [Readers -> Seq(Observable!FrameType)]
      /\ \A s \in Readers \ {r} : frames'[s] = frames[s]
      /\ DOMAIN frames'[r] = DOMAIN frames[r] /\ d \in DOMAIN frames[r]
      /\ \A n \in DOMAIN frames[r] \ {d} : frames'[r][n] = frames[r][n]
      /\ frames'[r][d] = now
  BY MoveStack
<1>2. Observable!TypeOK'
  BY <1>1 DEF Observable!instrumentVars, ObservableInv, Observable!TypeOK
<1>3. FramesAreRegistered'
  BY <1>1 DEF Observable!instrumentVars, ObservableInv, FramesAreRegistered
<1>4. ASSUME NEW j \in Instruments,
             now.instrument = j => (now.at \in Observable!Holding <=> Observable!Holds(r, d, j))
      PROVE  Observable!Referenced(j)' <=> Observable!Referenced(j)
  <2>1. \A s \in Readers : \A n \in DOMAIN frames[s] :
          Observable!Holds(s, n, j)' <=> Observable!Holds(s, n, j)
    BY <1>1, <1>4 DEF Observable!Holds, Observable!Holding
  <2>2. \A s \in Readers : DOMAIN frames'[s] = DOMAIN frames[s]
    BY <1>1
  <2>3. QED
    BY <2>1, <2>2 DEF Observable!Referenced
<1>5. QED
  BY <1>2, <1>3, <1>4

(* What MoveTo puts on top. *)
LEMMA MoveToStack ==
  ASSUME ObservableInv, NEW r \in Readers, NEW d, d = Len(frames[r]), d > 0,
         NEW at \in {"entered", "enabled", "acquired", "calling", "leaving"},
         Observable!MoveTo(r, at)
  PROVE  \E now \in Observable!FrameType :
           /\ now.at = at /\ now.instrument = frames[r][d].instrument
           /\ now.token = frames[r][d].token
           /\ frames' = [frames EXCEPT ![r][d] = now]
<1>1. d \in DOMAIN frames[r] /\ frames[r] \in Seq(Observable!FrameType)
  BY DEF ObservableInv, Observable!TypeOK
<1>2. ASSUME NEW f \in Observable!FrameType
      PROVE  LET now == [f EXCEPT !.at = at]
             IN /\ now \in Observable!FrameType
                /\ now.at = at /\ now.instrument = f.instrument /\ now.token = f.token
  BY DEF Observable!FrameType
<1>3. frames' = [frames EXCEPT ![r][d] = [frames[r][d] EXCEPT !.at = at]]
  BY <1>1 DEF Observable!MoveTo, Observable!Depth, ObservableInv, Observable!TypeOK
<1>4. frames[r][d] \in Observable!FrameType
  BY <1>1
<1>5. LET now == [frames[r][d] EXCEPT !.at = at]
      IN /\ now \in Observable!FrameType
         /\ now.at = at /\ now.instrument = frames[r][d].instrument
         /\ now.token = frames[r][d].token
  BY <1>2, <1>4
<1>6. QED
  BY <1>3, <1>5

(* The first look at `enabled`, without the lock. *)
LEMMA LoadEnabledStep ==
  ASSUME ObservableInv, NEW r \in Readers, Observable!LoadEnabled(r)
  PROVE  ObservableInv'
<1> SUFFICES ASSUME NEW d, d = Len(frames[r]) PROVE ObservableInv'
  OBVIOUS
<1>1. /\ d > 0 /\ frames[r][d].at = "entered" /\ Observable!Running(r, "entered")
      /\ UNCHANGED <<Observable!instrumentVars, nextObserver, observers>>
  BY DEF Observable!LoadEnabled, Observable!Running, Observable!Depth
<1>2. CASE Observable!Leave(r)
  BY <1>1, <1>2, TurnedAwayStep
<1>3. CASE Observable!MoveTo(r, "enabled")
  <2>1. PICK now \in Observable!FrameType :
          /\ now.at = "enabled" /\ now.instrument = frames[r][d].instrument
          /\ frames' = [frames EXCEPT ![r][d] = now]
    BY <1>1, <1>3, MoveToStack
  <2>2. \A j : now.at \notin Observable!Holding /\ ~Observable!Holds(r, d, j)
    BY <1>1, <2>1 DEF Observable!Holds, Observable!Holding
  <2>3. nextObserver' \in Nat /\ observers' \in [Readers -> SUBSET Nat]
    BY <1>1 DEF ObservableInv, Observable!TypeOK
  <2>4. /\ Observable!TypeOK' /\ FramesAreRegistered'
        /\ \A j \in Instruments : Observable!Referenced(j)' <=> Observable!Referenced(j)
    BY <1>1, <2>1, <2>2, <2>3, MovedStack
  <2>5. \A s \in Readers, n, token \in Nat : Calling(s, n, token)' <=> Calling(s, n, token)
    BY <1>1, <2>1, MoveStack DEF Calling
  <2>6. QED
    BY <1>1, <2>4, <2>5, SameCallbacks, QuietStep
<1>4. QED
  BY <1>2, <1>3 DEF Observable!LoadEnabled

(* The second look, under the lock, takes a reference: the handle is still there. *)
LEMMA AcquireStep ==
  ASSUME ObservableInv, NEW r \in Readers, Observable!Acquire(r)
  PROVE  ObservableInv'
<1> SUFFICES ASSUME NEW d, d = Len(frames[r]) PROVE ObservableInv'
  OBVIOUS
<1>1. /\ d > 0 /\ frames[r][d].at = "enabled" /\ Observable!Running(r, "enabled")
      /\ UNCHANGED <<Observable!instrumentVars, nextObserver, observers>>
  BY DEF Observable!Acquire, Observable!Running, Observable!Depth
<1>2. CASE Observable!Leave(r)
  BY <1>1, <1>2, TurnedAwayStep
<1>3. CASE /\ enabled[frames[r][d].instrument]
           /\ Observable!MoveTo(r, "acquired")
  <2>1. PICK now \in Observable!FrameType :
          /\ now.at = "acquired" /\ now.instrument = frames[r][d].instrument
          /\ frames' = [frames EXCEPT ![r][d] = now]
    BY <1>1, <1>3, MoveToStack
  <2>2. handle[now.instrument] # "gone"
    BY <1>3, <2>1 DEF ObservableInv, HandleState, Observable!FrameType
  <2>3. nextObserver' \in Nat /\ observers' \in [Readers -> SUBSET Nat]
    BY <1>1 DEF ObservableInv, Observable!TypeOK
  <2>4. /\ Observable!TypeOK' /\ FramesAreRegistered'
        /\ \A j \in Instruments : handle[j] = "gone" =>
             (Observable!Referenced(j)' <=> Observable!Referenced(j))
    BY <1>1, <2>1, <2>2, <2>3, MovedStack
  <2>5. \A s \in Readers, n, token \in Nat : Calling(s, n, token)' <=> Calling(s, n, token)
    BY <1>1, <2>1, MoveStack DEF Calling
  <2>6. QED
    BY <1>1, <2>4, <2>5, SameCallbacks, QuietStep
<1>4. QED
  BY <1>2, <1>3 DEF Observable!Acquire, Observable!Current, Observable!Depth

(* The callback is called with a token nobody has had. *)
LEMMA EnterCallbackStep ==
  ASSUME ObservableInv, NEW r \in Readers, Observable!EnterCallback(r)
  PROVE  ObservableInv'
<1> SUFFICES ASSUME NEW d, d = Len(frames[r]) PROVE ObservableInv'
  OBVIOUS
<1>1. /\ d > 0 /\ frames[r][d].at = "acquired"
      /\ UNCHANGED Observable!instrumentVars
      /\ nextObserver \in Nat /\ nextObserver' = nextObserver + 1
      /\ observers' = [observers EXCEPT ![r] = @ \cup {nextObserver}]
  BY DEF Observable!EnterCallback, Observable!Running, Observable!Depth, ObservableInv,
         Observable!TypeOK
<1>2. \E now \in Observable!FrameType :
        /\ now.at = "calling" /\ now.instrument = frames[r][d].instrument
        /\ now.token = nextObserver
        /\ frames' = [frames EXCEPT ![r][d] = now]
  <2>1. d \in DOMAIN frames[r] /\ frames[r] \in Seq(Observable!FrameType)
    BY <1>1 DEF ObservableInv, Observable!TypeOK
  <2>2. ASSUME NEW f \in Observable!FrameType, NEW token \in Nat
        PROVE  LET now == [[f EXCEPT !.at = "calling"] EXCEPT !.token = token]
               IN /\ now \in Observable!FrameType
                  /\ now.at = "calling" /\ now.instrument = f.instrument /\ now.token = token
    BY DEF Observable!FrameType
  <2>3. frames' = [frames EXCEPT ![r][d] =
                     [[frames[r][d] EXCEPT !.at = "calling"] EXCEPT !.token = nextObserver]]
    BY <2>1 DEF Observable!EnterCallback, Observable!Depth, ObservableInv, Observable!TypeOK
  <2>4. frames[r][d] \in Observable!FrameType
    BY <2>1
  <2>5. QED
    BY <1>1, <2>2, <2>3, <2>4
<1>3. PICK now \in Observable!FrameType :
        /\ now.at = "calling" /\ now.instrument = frames[r][d].instrument
        /\ now.token = nextObserver
        /\ frames' = [frames EXCEPT ![r][d] = now]
  BY <1>2
<1>4. \A j : now.instrument = j => now.at \in Observable!Holding /\ Observable!Holds(r, d, j)
  BY <1>1, <1>3 DEF Observable!Holds, Observable!Holding
<1>5. nextObserver' \in Nat /\ observers' \in [Readers -> SUBSET Nat]
  BY <1>1 DEF ObservableInv, Observable!TypeOK
<1>6. /\ Observable!TypeOK' /\ FramesAreRegistered'
      /\ \A j \in Instruments : Observable!Referenced(j)' <=> Observable!Referenced(j)
  BY <1>1, <1>3, <1>4, <1>5, MovedStack
<1>7. TokensOfCallbacks'
  <2>1. TokensOfCallbacks
    BY DEF ObservableInv
  <2>2. \A s \in Readers, n, token \in Nat :
          Calling(s, n, token)' <=>
            Calling(s, n, token) \/ (s = r /\ n = d /\ token = nextObserver)
    <3>1. /\ \A s \in Readers \ {r} : frames'[s] = frames[s]
          /\ DOMAIN frames'[r] = DOMAIN frames[r] /\ d \in DOMAIN frames[r]
          /\ \A n \in DOMAIN frames[r] \ {d} : frames'[r][n] = frames[r][n]
          /\ frames'[r][d] = now
      BY <1>1, <1>3, MoveStack
    <3>2. \A token \in Nat : /\ Calling(r, d, token)' <=> token = nextObserver
                             /\ ~Calling(r, d, token)
      BY <1>1, <1>3, <3>1 DEF Calling
    <3>3. \A n, token \in Nat : n # d => (Calling(r, n, token)' <=> Calling(r, n, token))
      BY <3>1 DEF Calling
    <3>4. \A s \in Readers \ {r}, n, token \in Nat :
            Calling(s, n, token)' <=> Calling(s, n, token)
      BY <3>1 DEF Calling
    <3>5. QED
      BY <3>2, <3>3, <3>4
  <2>3. d \in Nat
    BY <1>1 DEF ObservableInv, Observable!TypeOK
  <2>4. \A s \in Readers, n \in Nat : ~Calling(s, n, nextObserver)
    BY <1>1, <2>1 DEF TokensOfCallbacks
  <2>5. \A s \in Readers, token \in Nat :
          token \in observers'[s] <=> token \in observers[s] \/ (s = r /\ token = nextObserver)
    BY <1>1 DEF ObservableInv, Observable!TypeOK
  <2>6. \A s \in Readers, token \in Nat :
          token \in observers'[s] <=> \E n \in Nat : Calling(s, n, token)'
    BY <2>1, <2>2, <2>3, <2>5 DEF TokensOfCallbacks
  <2>7. \A q, s \in Readers, m, n, token \in Nat :
          Calling(q, m, token)' /\ Calling(s, n, token)' => q = s /\ m = n
    BY <2>1, <2>2, <2>4 DEF TokensOfCallbacks
  <2>8. \A s \in Readers : \A token \in observers'[s] : token < nextObserver'
    BY <1>1, <1>5, <2>1, <2>5 DEF TokensOfCallbacks
  <2>9. QED
    BY <2>6, <2>7, <2>8 DEF TokensOfCallbacks
<1>8. QED
  BY <1>1, <1>6, <1>7, QuietStep

(* The callback returned: its token, and no other, dies. *)
LEMMA LeaveCallbackStep ==
  ASSUME ObservableInv, NEW r \in Readers, Observable!LeaveCallback(r)
  PROVE  ObservableInv'
<1> SUFFICES ASSUME NEW d, d = Len(frames[r]), NEW old, old = frames[r][d].token
             PROVE  ObservableInv'
  OBVIOUS
<1>1. /\ d > 0 /\ frames[r][d].at = "calling"
      /\ UNCHANGED <<Observable!instrumentVars, nextObserver>>
      /\ observers' = [observers EXCEPT ![r] = @ \ {old}]
      /\ Observable!MoveTo(r, "leaving")
  BY DEF Observable!LeaveCallback, Observable!Running, Observable!Depth
<1>2. PICK now \in Observable!FrameType :
        /\ now.at = "leaving" /\ now.instrument = frames[r][d].instrument
        /\ frames' = [frames EXCEPT ![r][d] = now]
  BY <1>1, MoveToStack
<1>3. \A j : now.instrument = j => now.at \in Observable!Holding /\ Observable!Holds(r, d, j)
  BY <1>1, <1>2 DEF Observable!Holds, Observable!Holding
<1>4. nextObserver' \in Nat /\ observers' \in [Readers -> SUBSET Nat]
  BY <1>1 DEF ObservableInv, Observable!TypeOK
<1>5. /\ Observable!TypeOK' /\ FramesAreRegistered'
      /\ \A j \in Instruments : Observable!Referenced(j)' <=> Observable!Referenced(j)
  BY <1>1, <1>2, <1>3, <1>4, MovedStack
<1>6. TokensOfCallbacks'
  <2>1. TokensOfCallbacks
    BY DEF ObservableInv
  <2>2. /\ \A s \in Readers \ {r} : frames'[s] = frames[s]
        /\ DOMAIN frames'[r] = DOMAIN frames[r] /\ d \in DOMAIN frames[r]
        /\ \A n \in DOMAIN frames[r] \ {d} : frames'[r][n] = frames[r][n]
        /\ frames'[r][d] = now
    BY <1>1, <1>2, MoveStack
  <2>3. d \in Nat /\ old \in Nat
    BY <2>2, FrameIsTyped
  <2>4. Calling(r, d, old) /\ \A token \in Nat : ~Calling(r, d, token)'
    BY <1>1, <1>2, <2>2 DEF Calling
  <2>5. \A s \in Readers, n, token \in Nat :
          s # r \/ n # d => (Calling(s, n, token)' <=> Calling(s, n, token))
    BY <2>2 DEF Calling
  <2>6. \A s \in Readers, token \in Nat :
          token \in observers'[s] <=> token \in observers[s] /\ ~(s = r /\ token = old)
    BY <1>1 DEF ObservableInv, Observable!TypeOK
  <2>7. \A n, token \in Nat : Calling(r, d, token) => token = old
    BY DEF Calling
  <2>8. \A s \in Readers, n \in Nat : Calling(s, n, old) => s = r /\ n = d
    BY <2>1, <2>3, <2>4 DEF TokensOfCallbacks
  <2>9. \A s \in Readers, token \in Nat :
          token \in observers'[s] <=> \E n \in Nat : Calling(s, n, token)'
    <3> SUFFICES ASSUME NEW s \in Readers, NEW token \in Nat
                 PROVE  token \in observers'[s] <=> \E n \in Nat : Calling(s, n, token)'
      OBVIOUS
    <3>1. token \in observers[s] <=> \E n \in Nat : Calling(s, n, token)
      BY <2>1 DEF TokensOfCallbacks
    <3>2. token \in observers'[s] <=> token \in observers[s] /\ ~(s = r /\ token = old)
      BY <2>6
    <3>3. CASE s = r /\ token = old
      <4>1. \A n \in Nat : ~Calling(r, n, old)'
        <5>1. ASSUME NEW n \in Nat, n # d
              PROVE  ~Calling(r, n, old)'
          BY <2>3, <2>5, <2>8, <5>1
        <5>2. ~Calling(r, d, old)'
          BY <2>3, <2>4
        <5>3. QED
          BY <5>1, <5>2
      <4>2. QED
        BY <3>2, <3>3, <4>1
    <3>4. CASE ~(s = r /\ token = old)
      <4>1. ASSUME NEW n \in Nat
            PROVE  Calling(s, n, token)' <=> Calling(s, n, token)
        <5>1. CASE s # r \/ n # d
          BY <2>5, <5>1
        <5>2. CASE s = r /\ n = d
          BY <2>4, <2>7, <3>4, <5>2
        <5>3. QED
          BY <5>1, <5>2
      <4>2. QED
        BY <3>1, <3>2, <3>4, <4>1
    <3>5. QED
      BY <3>3, <3>4
  <2>10. \A q, s \in Readers, m, n, token \in Nat :
          Calling(q, m, token)' /\ Calling(s, n, token)' => q = s /\ m = n
    BY <2>1, <2>4, <2>5 DEF TokensOfCallbacks
  <2>11. \A s \in Readers : \A token \in observers'[s] : token < nextObserver'
    BY <1>1, <1>4, <2>1, <2>6 DEF TokensOfCallbacks
  <2>12. QED
    BY <2>9, <2>10, <2>11 DEF TokensOfCallbacks
<1>7. QED
  BY <1>1, <1>5, <1>6, QuietStep

(* A trampoline drops its reference; the last one of a handle that is gone destroys. *)
LEMMA DropReferenceStep ==
  ASSUME ObservableInv, NEW r \in Readers, Observable!DropReference(r)
  PROVE  ObservableInv'
<1> SUFFICES ASSUME NEW d, d = Len(frames[r]), NEW i, i = frames[r][d].instrument
             PROVE  ObservableInv'
  OBVIOUS
<1>1. /\ d > 0 /\ frames[r][d].at = "leaving" /\ Observable!Leave(r)
      /\ UNCHANGED <<handle, enabled, userData, registered, nextObserver, observers>>
  BY DEF Observable!DropReference, Observable!Running, Observable!Depth
<1>2. /\ frames' \in [Readers -> Seq(Observable!FrameType)]
      /\ \A s \in Readers \ {r} : frames'[s] = frames[s]
      /\ DOMAIN frames'[r] = DOMAIN frames[r] \ {d} /\ d \in DOMAIN frames[r]
      /\ \A n \in DOMAIN frames'[r] : frames'[r][n] = frames[r][n]
  BY <1>1, LeaveStack
<1>3. i \in Instruments /\ handle[i] \notin {"none", "creating", "failed"}
  BY <1>2, FrameIsTyped DEF ObservableInv, FramesAreRegistered
<1>4. Observable!Holds(r, d, i) /\ Observable!Referenced(i) /\ destroyed[i] = 0 /\ hasDestroy[i]
  BY <1>1, <1>2, <1>3 DEF Observable!Holds, Observable!Holding, Observable!Referenced, ObservableInv,
                          Observable!DestroyedOnce, HandleState
<1> DEFINE last == \A s \in Readers : \A n \in DOMAIN frames[s] :
                     Observable!Holds(s, n, i) => s = r /\ n = d
<1>5. Observable!Referenced(i)' <=> ~last
  <2>1. \A s \in Readers : \A n \in DOMAIN frames'[s] :
          /\ n \in DOMAIN frames[s] /\ ~(s = r /\ n = d)
          /\ Observable!Holds(s, n, i)' <=> Observable!Holds(s, n, i)
    BY <1>2 DEF Observable!Holds
  <2>2. \A s \in Readers : \A n \in DOMAIN frames[s] :
          ~(s = r /\ n = d) => n \in DOMAIN frames'[s]
    BY <1>2
  <2>3. QED
    BY <2>1, <2>2 DEF Observable!Referenced
<1>6. \A j \in Instruments \ {i} : Observable!Referenced(j)' <=> Observable!Referenced(j)
  <2>1. ASSUME NEW j \in Instruments \ {i}
        PROVE  Observable!Referenced(j)' <=> Observable!Referenced(j)
    <3>1. ~Observable!Holds(r, d, j)
      BY DEF Observable!Holds
    <3>2. \A s \in Readers : \A n \in DOMAIN frames'[s] :
            /\ n \in DOMAIN frames[s]
            /\ Observable!Holds(s, n, j)' <=> Observable!Holds(s, n, j)
      BY <1>2 DEF Observable!Holds
    <3>3. \A s \in Readers : \A n \in DOMAIN frames[s] :
            Observable!Holds(s, n, j) => n \in DOMAIN frames'[s]
      BY <1>2, <3>1
    <3>4. QED
      BY <3>2, <3>3 DEF Observable!Referenced
  <2>2. QED
    BY <2>1
<1>7. ~userData[i] /\ handle[i] # "taken" <=> handle[i] = "gone"
  <2>1. HandleState(i)
    BY <1>3 DEF ObservableInv
  <2>2. handle[i] \in {"none", "creating", "created", "failed", "disabled", "taken", "gone"}
    BY <1>3 DEF ObservableInv, Observable!TypeOK
  <2>3. QED
    BY <1>3, <2>1, <2>2 DEF HandleState
<1>8. IF handle[i] = "gone" /\ last
      THEN /\ destroyed' = [destroyed EXCEPT ![i] = 1]
           /\ hasDestroy' = [hasDestroy EXCEPT ![i] = FALSE]
      ELSE UNCHANGED <<destroyed, hasDestroy>>
  BY <1>4, <1>7 DEF Observable!DropReference, Observable!DropUserData, Observable!Current,
                    Observable!Depth
<1>9. /\ destroyed' \in [Instruments -> 0..1] /\ hasDestroy' \in [Instruments -> BOOLEAN]
      /\ \A j \in Instruments \ {i} : destroyed'[j] = destroyed[j] /\ hasDestroy'[j] = hasDestroy[j]
      /\ destroyed'[i] = IF handle[i] = "gone" /\ last THEN 1 ELSE 0
      /\ hasDestroy'[i] <=> destroyed'[i] = 0
  <2>1. destroyed \in [Instruments -> 0..1] /\ hasDestroy \in [Instruments -> BOOLEAN]
    BY DEF ObservableInv, Observable!TypeOK
  <2>2. CASE handle[i] = "gone" /\ last
    <3>1. destroyed' = [destroyed EXCEPT ![i] = 1] /\ hasDestroy' = [hasDestroy EXCEPT ![i] = FALSE]
      BY <1>8, <2>2
    <3> HIDE DEF last
    <3>2. destroyed' \in [Instruments -> 0..1] /\ destroyed'[i] = 1
      BY <1>3, <2>1, <3>1
    <3>3. hasDestroy' \in [Instruments -> BOOLEAN] /\ ~hasDestroy'[i]
      BY <1>3, <2>1, <3>1
    <3>4. \A j \in Instruments \ {i} : destroyed'[j] = destroyed[j] /\ hasDestroy'[j] = hasDestroy[j]
      BY <2>1, <3>1
    <3>5. QED
      BY <2>2, <3>2, <3>3, <3>4
  <2>3. CASE ~(handle[i] = "gone" /\ last)
    <3>1. destroyed' = destroyed /\ hasDestroy' = hasDestroy
      BY <1>8, <2>3
    <3> HIDE DEF last
    <3>2. QED
      BY <1>4, <2>1, <2>3, <3>1
  <2>4. QED
    BY <2>2, <2>3
<1>10. Observable!TypeOK'
  BY <1>1, <1>2, <1>9 DEF ObservableInv, Observable!TypeOK
<1>11. \A j \in Instruments : HandleState(j)'
  BY <1>1, <1>3, <1>9 DEF ObservableInv, HandleState
<1>12. Observable!DestroyedOnce'
  BY <1>1, <1>5, <1>6, <1>9 DEF ObservableInv, Observable!DestroyedOnce
<1>13. FramesAreRegistered'
  BY <1>1, <1>2 DEF ObservableInv, FramesAreRegistered
<1>14. TokensOfCallbacks'
  <2>1. \A s \in Readers, n, token \in Nat : Calling(s, n, token)' <=> Calling(s, n, token)
    BY <1>1, <1>2 DEF Calling
  <2>2. QED
    BY <1>1, <2>1, SameCallbacks
<1>15. QED
  BY <1>10, <1>11, <1>12, <1>13, <1>14 DEF ObservableInv

(* Every step of observable instruments keeps their invariant. *)
LEMMA ObservableStepInv ==
  ASSUME ObservableInv,
         \/ \E i \in Instruments : Observable!Application(i)
         \/ \E r \in Readers :
              Observable!Trampoline(r) \/ \E i \in Instruments : Observable!Collect(r, i)
         \/ UNCHANGED observableVars
  PROVE  ObservableInv'
<1>1. CASE UNCHANGED observableVars
  <2>1. /\ Observable!TypeOK' /\ FramesAreRegistered' /\ Observable!DestroyedOnce'
        /\ \A i \in Instruments : HandleState(i)'
    BY <1>1 DEF observableVars, ObservableInv, Observable!TypeOK, FramesAreRegistered, HandleState,
                Observable!DestroyedOnce, Observable!Referenced, Observable!Holds
  <2>2. TokensOfCallbacks'
    BY <1>1, SameCallbacks DEF observableVars, Calling
  <2>3. QED
    BY <2>1, <2>2 DEF ObservableInv
<1>2. QED
  BY <1>1, ApplicationStep, CollectStep, LoadEnabledStep, AcquireStep, EnterCallbackStep,
     LeaveCallbackStep, DropReferenceStep DEF Observable!Trampoline
--------------------------------------------------------------------------------
(* The diagnostic sink. *)

OnStack(t, n) == n \in DOMAIN calls[t]
Reports(t, n) == OnStack(t, n) /\ calls[t][n].op = "report"

(* What a call has in its hands follows from what it is and where it stands. *)
Shaped(c) ==
  \/ c.op = "report" /\ c.at \in {"load", "end"} /\ c.sink = NoSink
  \/ c.op = "report" /\ c.at \in {"emit", "release"} /\ c.sink \in Sinks
  \/ c.op = "set" /\ c.at = "swap"
  \/ c.op = "set" /\ c.at = "release" /\ c.sink \in Sinks
  \/ c.op = "set" /\ c.at = "end" /\ c.sink = NoSink
  \/ c.op = "destroy" /\ c.at = "destroy"
CallsAreShaped == \A t \in Reporters, n \in Nat : OnStack(t, n) => Shaped(calls[t][n])

(* The mark of a thread says whether it is inside a report, and it is inside one at most. *)
ReportsAreMarked ==
  /\ reporting \in [Reporters -> BOOLEAN]
  /\ \A t \in Reporters : reporting[t] <=> \E n \in Nat : Reports(t, n)
  /\ \A t \in Reporters, m, n \in Nat : Reports(t, m) /\ Reports(t, n) => m = n

(* Whoever has a sink has it from otel_set_diagnostic_callback. *)
SinksAreUsed ==
  /\ used \subseteq Sinks
  /\ current \in used \cup {NoSink}
  /\ \A s \in Sinks : Sink!Held(s) => s \in used

SinkInv ==
  /\ calls \in [Reporters -> Seq(Sink!CallType)]
  /\ sinkDestroyed \in [Sinks -> Nat]
  /\ CallsAreShaped
  /\ ReportsAreMarked
  /\ SinksAreUsed
  /\ Sink!DestroyedOnce

(* The initial state satisfies the invariant. *)
LEMMA SinkInitInv == Sink!Init => SinkInv
<1> SUFFICES ASSUME Sink!Init PROVE SinkInv
  OBVIOUS
<1> USE DEF Sink!Init
<1>1. calls \in [Reporters -> Seq(Sink!CallType)] /\ sinkDestroyed \in [Sinks -> Nat]
  OBVIOUS
<1>2. CallsAreShaped /\ ReportsAreMarked
  BY DEF CallsAreShaped, ReportsAreMarked, Reports, OnStack
<1>3. SinksAreUsed /\ Sink!DestroyedOnce
  BY DEF SinksAreUsed, Sink!DestroyedOnce, Sink!Held
<1>4. QED
  BY <1>1, <1>2, <1>3 DEF SinkInv

(* The invariant says all that was promised of the sink. *)
LEMMA SinkPromises == SinkInv => Sink!TypeOK /\ SinkOwnedOnce
<1> SUFFICES ASSUME SinkInv PROVE Sink!TypeOK /\ SinkOwnedOnce
  OBVIOUS
<1>1. \A t \in Reporters : calls[t] \in Seq(Sink!CallType) /\ DOMAIN calls[t] \subseteq Nat
  BY DEF SinkInv
<1>2. Sink!TypeOK
  BY <1>1 DEF SinkInv, ReportsAreMarked, SinksAreUsed, Reports, OnStack, Sink!TypeOK
<1>3. Sink!NoRecursiveEmit
  BY <1>1 DEF SinkInv, ReportsAreMarked, Reports, OnStack, Sink!NoRecursiveEmit
<1>4. Sink!EmitUsesLiveSink
  <2> SUFFICES ASSUME NEW t \in Reporters, NEW n \in DOMAIN calls[t],
                      calls[t][n].op = "report", calls[t][n].sink # NoSink
               PROVE  sinkDestroyed[calls[t][n].sink] = 0
    BY DEF Sink!EmitUsesLiveSink
  <2>1. calls[t][n] \in Sink!CallType
    BY <1>1
  <2>2. calls[t][n].sink \in Sinks
    BY <2>1 DEF Sink!CallType
  <2>3. Sink!Held(calls[t][n].sink)
    BY DEF Sink!Held, Sink!Holds
  <2>4. QED
    BY <2>2, <2>3 DEF SinkInv, Sink!DestroyedOnce
<1>5. QED
  BY <1>2, <1>3, <1>4 DEF SinkInv, SinkOwnedOnce

(* A thread rearranges its stack at some positions, and nothing else is touched. *)
Changes(t, P) ==
  /\ calls' \in [Reporters -> Seq(Sink!CallType)]
  /\ \A u \in Reporters, n \in Nat :
       u # t \/ n \notin P =>
         (OnStack(u, n)' <=> OnStack(u, n)) /\ (OnStack(u, n) => calls'[u][n] = calls[u][n])
HeldBeside(t, P, s) ==
  \E u \in Reporters, n \in Nat :
    OnStack(u, n) /\ (u # t \/ n \notin P) /\ Sink!Holds(u, n, s)

(* Who holds a sink depends on the positions that change only. *)
LEMMA HoldersOfChange ==
  ASSUME SinkInv, NEW t \in Reporters, NEW P \in SUBSET Nat, Changes(t, P), NEW s
  PROVE  /\ Sink!Held(s) <=>
              HeldBeside(t, P, s) \/ \E n \in P : OnStack(t, n) /\ Sink!Holds(t, n, s)
         /\ Sink!Held(s)' <=>
              HeldBeside(t, P, s) \/ \E n \in P : OnStack(t, n)' /\ Sink!Holds(t, n, s)'
<1>1. \A u \in Reporters : DOMAIN calls[u] \subseteq Nat /\ DOMAIN calls'[u] \subseteq Nat
  BY DEF SinkInv, Changes
<1>2. Sink!Held(s) <=>
        HeldBeside(t, P, s) \/ \E n \in P : OnStack(t, n) /\ Sink!Holds(t, n, s)
  BY <1>1 DEF Sink!Held, HeldBeside, OnStack
<1>3. \A u \in Reporters, n \in Nat :
        u # t \/ n \notin P =>
          (OnStack(u, n)' /\ Sink!Holds(u, n, s)' <=> OnStack(u, n) /\ Sink!Holds(u, n, s))
  BY DEF Changes, Sink!Holds
<1>4. Sink!Held(s)' <=> \E u \in Reporters, n \in Nat : OnStack(u, n)' /\ Sink!Holds(u, n, s)'
  BY <1>1 DEF Sink!Held, OnStack
<1>5. QED
  BY <1>2, <1>3, <1>4 DEF HeldBeside

(* The shapes of calls are kept if the new ones have theirs. *)
LEMMA ShapesOfChange ==
  ASSUME SinkInv, NEW t \in Reporters, NEW P \in SUBSET Nat, Changes(t, P),
         \A n \in P : OnStack(t, n)' => Shaped(calls'[t][n])
  PROVE  CallsAreShaped'
<1>1. CallsAreShaped
  BY DEF SinkInv
<1>2. ASSUME NEW u \in Reporters, NEW n \in Nat, OnStack(u, n)'
      PROVE  Shaped(calls'[u][n])
  BY <1>1, <1>2 DEF Changes, CallsAreShaped
<1>3. \A c : Shaped(c)' <=> Shaped(c)
  BY DEF Shaped
<1>4. QED
  BY <1>2, <1>3 DEF CallsAreShaped, Shaped

(* A step that neither begins nor ends a report leaves the marks right. *)
LEMMA MarksOfChange ==
  ASSUME SinkInv, NEW t \in Reporters, NEW P \in SUBSET Nat, Changes(t, P),
         UNCHANGED reporting, \A n \in P : Reports(t, n)' <=> Reports(t, n)
  PROVE  ReportsAreMarked'
<1>1. \A u \in Reporters, n \in Nat : Reports(u, n)' <=> Reports(u, n)
  BY DEF Changes, Reports
<1>2. ReportsAreMarked
  BY DEF SinkInv
<1>3. QED
  BY <1>1, <1>2 DEF ReportsAreMarked

(* Entering a call puts it on top. *)
LEMMA EnterStack ==
  ASSUME SinkInv, NEW t \in Reporters, NEW d, d = Len(calls[t]),
         NEW op \in {"report", "set", "destroy"},
         NEW at \in {"load", "emit", "swap", "release", "destroy", "end"},
         NEW s \in Sinks \cup {NoSink}, Sink!Enter(t, op, at, s)
  PROVE  /\ d \in Nat /\ Changes(t, {d + 1}) /\ ~OnStack(t, d + 1) /\ OnStack(t, d + 1)'
         /\ calls'[t][d + 1].op = op /\ calls'[t][d + 1].at = at /\ calls'[t][d + 1].sink = s
<1> DEFINE c == [op |-> op, at |-> at, sink |-> s]
<1>1. calls[t] \in Seq(Sink!CallType) /\ d \in Nat /\ c \in Sink!CallType
  <2>1. calls[t] \in Seq(Sink!CallType) /\ d \in Nat
    BY DEF SinkInv
  <2>2. c \in Sink!CallType
    BY DEF Sink!CallType
  <2>3. QED
    BY <2>1, <2>2
<1>2. /\ calls'[t] = Append(calls[t], c)
      /\ \A u \in Reporters \ {t} : calls'[u] = calls[u]
      /\ DOMAIN calls' = Reporters
      /\ calls' = [calls EXCEPT ![t] = Append(calls[t], c)]
  BY DEF SinkInv, Sink!Enter
<1> HIDE DEF c
<1>3. /\ Append(calls[t], c) \in Seq(Sink!CallType)
      /\ DOMAIN Append(calls[t], c) = 1..(d + 1)
      /\ Append(calls[t], c)[d + 1] = c
      /\ \A n \in 1..d : Append(calls[t], c)[n] = calls[t][n]
  BY <1>1
<1>4. calls' \in [Reporters -> Seq(Sink!CallType)]
  BY <1>2, <1>3 DEF SinkInv
<1>5. DOMAIN calls[t] = 1..d
  BY <1>1
<1>6. Changes(t, {d + 1})
  <2>1. \A n \in Nat : n # d + 1 =>
          (OnStack(t, n)' <=> OnStack(t, n)) /\ (OnStack(t, n) => calls'[t][n] = calls[t][n])
    BY <1>1, <1>2, <1>3, <1>5 DEF OnStack
  <2>2. \A u \in Reporters, n \in Nat : u # t =>
          (OnStack(u, n)' <=> OnStack(u, n)) /\ (OnStack(u, n) => calls'[u][n] = calls[u][n])
    BY <1>2 DEF OnStack
  <2>3. QED
    BY <1>4, <2>1, <2>2 DEF Changes
<1>7. QED
  BY <1>1, <1>2, <1>3, <1>5, <1>6 DEF OnStack, c

(* Moving on changes where the topmost call stands and what it has in its hands. *)
LEMMA MoveCall ==
  ASSUME SinkInv, NEW t \in Reporters, NEW d, d = Len(calls[t]), d > 0,
         NEW at \in {"load", "emit", "swap", "release", "destroy", "end"},
         NEW s \in Sinks \cup {NoSink}, Sink!Move(t, at, s)
  PROVE  /\ d \in Nat /\ Changes(t, {d}) /\ OnStack(t, d) /\ OnStack(t, d)'
         /\ calls'[t][d].op = calls[t][d].op
         /\ calls'[t][d].at = at /\ calls'[t][d].sink = s
<1>1. /\ calls[t] \in Seq(Sink!CallType) /\ d \in Nat /\ d \in DOMAIN calls[t]
      /\ calls[t][d] \in Sink!CallType
  BY DEF SinkInv
<1>2. ASSUME NEW c \in Sink!CallType
      PROVE  LET now == [[c EXCEPT !.at = at] EXCEPT !.sink = s]
             IN now \in Sink!CallType /\ now.op = c.op /\ now.at = at /\ now.sink = s
  BY DEF Sink!CallType
<1>3. PICK now \in Sink!CallType :
        /\ now.op = calls[t][d].op /\ now.at = at /\ now.sink = s
        /\ calls' = [calls EXCEPT ![t][d] = now]
  <2>1. calls' = [calls EXCEPT ![t][d] = [[calls[t][d] EXCEPT !.at = at] EXCEPT !.sink = s]]
    BY <1>1 DEF Sink!Move, Sink!Depth, SinkInv
  <2>2. QED
    BY <1>1, <1>2, <2>1
<1>4. /\ calls'[t] = [calls[t] EXCEPT ![d] = now]
      /\ \A u \in Reporters \ {t} : calls'[u] = calls[u]
  BY <1>3 DEF SinkInv
<1>5. [calls[t] EXCEPT ![d] = now] \in Seq(Sink!CallType)
  BY <1>1
<1>6. calls' \in [Reporters -> Seq(Sink!CallType)]
  BY <1>3, <1>4, <1>5 DEF SinkInv
<1>7. Changes(t, {d})
  <2>1. \A n \in Nat : n # d =>
          (OnStack(t, n)' <=> OnStack(t, n)) /\ (OnStack(t, n) => calls'[t][n] = calls[t][n])
    BY <1>1, <1>4 DEF OnStack
  <2>2. \A u \in Reporters, n \in Nat : u # t =>
          (OnStack(u, n)' <=> OnStack(u, n)) /\ (OnStack(u, n) => calls'[u][n] = calls[u][n])
    BY <1>4 DEF OnStack
  <2>3. QED
    BY <1>6, <2>1, <2>2 DEF Changes
<1>8. QED
  BY <1>1, <1>3, <1>4, <1>7 DEF OnStack

(* Returning takes the topmost call off the stack. *)
LEMMA ReturnStack ==
  ASSUME SinkInv, NEW t \in Reporters, NEW d, d = Len(calls[t]), d > 0, Sink!Leave(t)
  PROVE  d \in Nat /\ Changes(t, {d}) /\ OnStack(t, d) /\ ~OnStack(t, d)'
<1>1. calls[t] \in Seq(Sink!CallType) /\ d \in Nat /\ d \in DOMAIN calls[t]
  BY DEF SinkInv
<1>2. /\ calls'[t] = SubSeq(calls[t], 1, d - 1)
      /\ \A u \in Reporters \ {t} : calls'[u] = calls[u]
      /\ calls' = [calls EXCEPT ![t] = SubSeq(calls[t], 1, d - 1)]
  BY DEF Sink!Leave, Sink!Depth, SinkInv
<1>3. /\ SubSeq(calls[t], 1, d - 1) \in Seq(Sink!CallType)
      /\ DOMAIN SubSeq(calls[t], 1, d - 1) = 1..(d - 1)
      /\ \A n \in 1..(d - 1) : SubSeq(calls[t], 1, d - 1)[n] = calls[t][n]
      /\ DOMAIN calls[t] = 1..d
  BY <1>1
<1>4. calls' \in [Reporters -> Seq(Sink!CallType)]
  BY <1>2, <1>3 DEF SinkInv
<1>5. Changes(t, {d})
  <2>1. \A n \in Nat : n # d =>
          (OnStack(t, n)' <=> OnStack(t, n)) /\ (OnStack(t, n) => calls'[t][n] = calls[t][n])
    BY <1>1, <1>2, <1>3 DEF OnStack
  <2>2. \A u \in Reporters, n \in Nat : u # t =>
          (OnStack(u, n)' <=> OnStack(u, n)) /\ (OnStack(u, n) => calls'[u][n] = calls[u][n])
    BY <1>2 DEF OnStack
  <2>3. QED
    BY <1>4, <2>1, <2>2 DEF Changes
<1>6. QED
  BY <1>1, <1>2, <1>3, <1>5 DEF OnStack

(* A report begins, on a thread that is not inside one. *)
LEMMA ReportStep ==
  ASSUME SinkInv, NEW t \in Reporters, Sink!report(t)
  PROVE  SinkInv'
<1> SUFFICES ASSUME NEW d, d = Len(calls[t]) PROVE SinkInv'
  OBVIOUS
<1> USE CallbacksAssumption DEF CallbacksAssumption
<1>1. /\ ~reporting[t] /\ reporting' = [reporting EXCEPT ![t] = TRUE]
      /\ Sink!Enter(t, "report", "load", NoSink)
      /\ UNCHANGED <<current, used, sinkDestroyed>>
  BY DEF Sink!report
<1>2. /\ d \in Nat /\ Changes(t, {d + 1}) /\ ~OnStack(t, d + 1) /\ OnStack(t, d + 1)'
      /\ calls'[t][d + 1].op = "report" /\ calls'[t][d + 1].at = "load"
      /\ calls'[t][d + 1].sink = NoSink
  BY <1>1, EnterStack
<1>3. CallsAreShaped'
  BY <1>2, ShapesOfChange DEF Shaped
<1>4. \A s \in Sinks : Sink!Held(s)' <=> Sink!Held(s)
  BY <1>2, HoldersOfChange DEF Sink!Holds
<1>5. ReportsAreMarked'
  <2>1. ReportsAreMarked
    BY DEF SinkInv
  <2>2. \A u \in Reporters, n \in Nat :
          Reports(u, n)' <=> Reports(u, n) \/ (u = t /\ n = d + 1)
    BY <1>2 DEF Changes, Reports
  <2>3. \A n \in Nat : ~Reports(t, n)
    BY <1>1, <2>1 DEF ReportsAreMarked
  <2>4. reporting' \in [Reporters -> BOOLEAN] /\ reporting'[t]
        /\ \A u \in Reporters \ {t} : reporting'[u] = reporting[u]
    BY <1>1, <2>1 DEF ReportsAreMarked
  <2>5. \A u \in Reporters : reporting'[u] <=> \E n \in Nat : Reports(u, n)'
    BY <1>2, <2>1, <2>2, <2>4 DEF ReportsAreMarked
  <2>6. \A u \in Reporters, m, n \in Nat : Reports(u, m)' /\ Reports(u, n)' => m = n
    BY <2>1, <2>2, <2>3 DEF ReportsAreMarked
  <2>7. QED
    BY <2>4, <2>5, <2>6 DEF ReportsAreMarked
<1>6. SinksAreUsed' /\ Sink!DestroyedOnce'
  BY <1>1, <1>4 DEF SinkInv, SinksAreUsed, Sink!DestroyedOnce
<1>7. QED
  BY <1>1, <1>2, <1>3, <1>5, <1>6 DEF SinkInv, Changes

(* The report finds the sink that is installed, or none. *)
LEMMA LoadSinkStep ==
  ASSUME SinkInv, NEW t \in Reporters, Sink!LoadSink(t)
  PROVE  SinkInv'
<1> SUFFICES ASSUME NEW d, d = Len(calls[t]) PROVE SinkInv'
  OBVIOUS
<1> USE CallbacksAssumption DEF CallbacksAssumption
<1>1. /\ d > 0 /\ calls[t][d].op = "report" /\ calls[t][d].at = "load"
      /\ UNCHANGED <<current, reporting, used, sinkDestroyed>>
  BY DEF Sink!LoadSink, Sink!At, Sink!Depth, Sink!Top
<1>2. current \in Sinks \cup {NoSink} /\ used \subseteq Sinks
  BY DEF SinkInv, SinksAreUsed
<1>3. /\ d \in Nat /\ Changes(t, {d}) /\ OnStack(t, d) /\ OnStack(t, d)'
      /\ calls'[t][d].op = "report" /\ calls'[t][d].sink = current
      /\ calls'[t][d].at = IF current = NoSink THEN "end" ELSE "emit"
  <2>1. CASE current = NoSink
    <3>1. Sink!Move(t, "end", NoSink)
      BY <2>1 DEF Sink!LoadSink
    <3>2. QED
      BY <1>1, <2>1, <3>1, MoveCall
  <2>2. CASE current # NoSink
    <3>1. Sink!Move(t, "emit", current)
      BY <2>2 DEF Sink!LoadSink
    <3>2. QED
      BY <1>1, <1>2, <2>2, <3>1, MoveCall
  <2>3. QED
    BY <2>1, <2>2
<1>4. calls[t][d].sink = NoSink
  BY <1>1, <1>3 DEF SinkInv, CallsAreShaped, Shaped
<1>5. CallsAreShaped'
  BY <1>2, <1>3, ShapesOfChange DEF Shaped
<1>6. ReportsAreMarked'
  BY <1>1, <1>3, MarksOfChange DEF Reports
<1>7. \A s \in Sinks : s # current => (Sink!Held(s)' <=> Sink!Held(s))
  BY <1>3, <1>4, HoldersOfChange DEF Sink!Holds
<1>8. SinksAreUsed' /\ Sink!DestroyedOnce'
  BY <1>1, <1>2, <1>7 DEF SinkInv, SinksAreUsed, Sink!DestroyedOnce
<1>9. QED
  BY <1>1, <1>3, <1>5, <1>6, <1>8 DEF SinkInv, Changes

(* The callback returned; the report still has its reference. *)
LEMMA EmitReturnsStep ==
  ASSUME SinkInv, NEW t \in Reporters, Sink!EmitReturns(t)
  PROVE  SinkInv'
<1> SUFFICES ASSUME NEW d, d = Len(calls[t]) PROVE SinkInv'
  OBVIOUS
<1>1. /\ d > 0 /\ calls[t][d].op = "report" /\ calls[t][d].at = "emit"
      /\ Sink!Move(t, "release", calls[t][d].sink)
      /\ UNCHANGED <<current, reporting, used, sinkDestroyed>>
  BY DEF Sink!EmitReturns, Sink!At, Sink!Depth, Sink!Top
<1>2. calls[t][d].sink \in Sinks /\ d \in Nat
  <2>1. d \in Nat /\ OnStack(t, d)
    BY <1>1 DEF SinkInv, OnStack
  <2>2. QED
    BY <1>1, <2>1 DEF SinkInv, CallsAreShaped, Shaped
<1>3. /\ Changes(t, {d}) /\ OnStack(t, d) /\ OnStack(t, d)'
      /\ calls'[t][d].op = "report" /\ calls'[t][d].at = "release"
      /\ calls'[t][d].sink = calls[t][d].sink
  <2> DEFINE held == calls[t][d].sink
  <2>1. Sink!Move(t, "release", held) /\ d > 0 /\ held \in Sinks \cup {NoSink}
    BY <1>1, <1>2
  <2>2. held = calls[t][d].sink
    OBVIOUS
  <2> HIDE DEF held
  <2>3. /\ Changes(t, {d}) /\ OnStack(t, d) /\ OnStack(t, d)'
        /\ calls'[t][d].op = calls[t][d].op
        /\ calls'[t][d].at = "release" /\ calls'[t][d].sink = held
    BY <2>1, MoveCall
  <2>4. QED
    BY <1>1, <2>2, <2>3
<1>4. CallsAreShaped'
  BY <1>2, <1>3, ShapesOfChange DEF Shaped
<1>5. ReportsAreMarked'
  BY <1>1, <1>2, <1>3, MarksOfChange DEF Reports
<1>6. \A s \in Sinks : Sink!Held(s)' <=> Sink!Held(s)
  BY <1>1, <1>2, <1>3, HoldersOfChange DEF Sink!Holds
<1>7. SinksAreUsed' /\ Sink!DestroyedOnce'
  BY <1>1, <1>6 DEF SinkInv, SinksAreUsed, Sink!DestroyedOnce
<1>8. QED
  BY <1>1, <1>3, <1>4, <1>5, <1>7 DEF SinkInv, Changes

(* A sink nobody had before is handed over. *)
LEMMA SetCallbackStep ==
  ASSUME SinkInv, NEW t \in Reporters, NEW s \in Sinks \cup {NoSink},
         Sink!set_diagnostic_callback(t, s)
  PROVE  SinkInv'
<1> SUFFICES ASSUME NEW d, d = Len(calls[t]) PROVE SinkInv'
  OBVIOUS
<1> USE CallbacksAssumption DEF CallbacksAssumption
<1>1. /\ s \notin used /\ used' = used \cup ({s} \ {NoSink})
      /\ Sink!Enter(t, "set", "swap", s)
      /\ UNCHANGED <<current, reporting, sinkDestroyed>>
  BY DEF Sink!set_diagnostic_callback
<1>2. /\ d \in Nat /\ Changes(t, {d + 1}) /\ ~OnStack(t, d + 1) /\ OnStack(t, d + 1)'
      /\ calls'[t][d + 1].op = "set" /\ calls'[t][d + 1].at = "swap"
      /\ calls'[t][d + 1].sink = s
  BY <1>1, EnterStack
<1>3. CallsAreShaped'
  BY <1>2, ShapesOfChange DEF Shaped
<1>4. ReportsAreMarked'
  BY <1>1, <1>2, MarksOfChange DEF Reports
<1>5. \A k \in Sinks : Sink!Held(k)' <=> Sink!Held(k) \/ k = s
  BY <1>2, HoldersOfChange DEF Sink!Holds
<1>6. SinksAreUsed' /\ Sink!DestroyedOnce'
  BY <1>1, <1>5 DEF SinkInv, SinksAreUsed, Sink!DestroyedOnce
<1>7. QED
  BY <1>1, <1>2, <1>3, <1>4, <1>6 DEF SinkInv, Changes

(* The sinks change places; the old one stays in the hands of the call. *)
LEMMA SwapSinkStep ==
  ASSUME SinkInv, NEW t \in Reporters, Sink!SwapSink(t)
  PROVE  SinkInv'
<1> SUFFICES ASSUME NEW d, d = Len(calls[t]) PROVE SinkInv'
  OBVIOUS
<1> USE CallbacksAssumption DEF CallbacksAssumption
<1>1. /\ d > 0 /\ calls[t][d].op = "set" /\ calls[t][d].at = "swap"
      /\ current' = calls[t][d].sink
      /\ Sink!Move(t, IF current = NoSink THEN "end" ELSE "release", current)
      /\ UNCHANGED <<reporting, used, sinkDestroyed>>
  BY DEF Sink!SwapSink, Sink!At, Sink!Depth, Sink!Top
<1>2. current \in Sinks \cup {NoSink} /\ used \subseteq Sinks
  BY DEF SinkInv, SinksAreUsed
<1>3. /\ d \in Nat /\ Changes(t, {d}) /\ OnStack(t, d) /\ OnStack(t, d)'
      /\ calls'[t][d].op = "set" /\ calls'[t][d].sink = current
      /\ calls'[t][d].at = IF current = NoSink THEN "end" ELSE "release"
  <2>1. (IF current = NoSink THEN "end" ELSE "release")
          \in {"load", "emit", "swap", "release", "destroy", "end"}
    OBVIOUS
  <2>2. QED
    BY <1>1, <1>2, <2>1, MoveCall
<1>4. current' \in Sinks \cup {NoSink}
  <2>1. calls[t][d] \in Sink!CallType
    BY <1>3 DEF SinkInv, OnStack
  <2>2. QED
    BY <1>1, <2>1 DEF Sink!CallType
<1>5. CallsAreShaped'
  BY <1>2, <1>3, ShapesOfChange DEF Shaped
<1>6. ReportsAreMarked'
  BY <1>1, <1>3, MarksOfChange DEF Reports
<1>7. \A s \in Sinks :
        /\ s \notin {current, current'} => (Sink!Held(s)' <=> Sink!Held(s))
        /\ s = current => Sink!Held(s)'
        /\ s = current' => Sink!Held(s)
  BY <1>1, <1>3, HoldersOfChange DEF Sink!Holds
<1>8. SinksAreUsed' /\ Sink!DestroyedOnce'
  BY <1>1, <1>2, <1>4, <1>7 DEF SinkInv, SinksAreUsed, Sink!DestroyedOnce
<1>9. QED
  BY <1>1, <1>3, <1>5, <1>6, <1>8 DEF SinkInv, Changes

(* A call that ends has nothing in its hands. *)
LEMMA EndStep ==
  ASSUME SinkInv, NEW t \in Reporters, Sink!End(t)
  PROVE  SinkInv'
<1> SUFFICES ASSUME NEW d, d = Len(calls[t]) PROVE SinkInv'
  OBVIOUS
<1> USE CallbacksAssumption DEF CallbacksAssumption
<1>1. /\ d > 0 /\ calls[t][d].op \in {"report", "set"} /\ calls[t][d].at = "end"
      /\ Sink!Leave(t)
      /\ reporting' = IF calls[t][d].op = "report" THEN [reporting EXCEPT ![t] = FALSE]
                      ELSE reporting
      /\ UNCHANGED <<current, used, sinkDestroyed>>
  BY DEF Sink!End, Sink!At, Sink!Depth, Sink!Top
<1>2. d \in Nat /\ Changes(t, {d}) /\ OnStack(t, d) /\ ~OnStack(t, d)'
  BY <1>1, ReturnStack
<1>3. calls[t][d].sink = NoSink
  BY <1>1, <1>2 DEF SinkInv, CallsAreShaped, Shaped
<1>4. CallsAreShaped'
  BY <1>2, ShapesOfChange
<1>5. ReportsAreMarked'
  <2>1. CASE calls[t][d].op = "set"
    <3>1. ~Reports(t, d) /\ ~Reports(t, d)'
      BY <1>2, <2>1 DEF Reports
    <3>2. QED
      BY <1>1, <1>2, <2>1, <3>1, MarksOfChange
  <2>2. CASE calls[t][d].op = "report"
    <3>1. ReportsAreMarked
      BY DEF SinkInv
    <3>2. \A u \in Reporters, n \in Nat :
            Reports(u, n)' <=> Reports(u, n) /\ ~(u = t /\ n = d)
      BY <1>2 DEF Changes, Reports
    <3>3. \A n \in Nat : Reports(t, n) => n = d
      BY <1>2, <2>2, <3>1 DEF ReportsAreMarked, Reports
    <3>4. /\ reporting' \in [Reporters -> BOOLEAN] /\ ~reporting'[t]
          /\ \A u \in Reporters \ {t} : reporting'[u] = reporting[u]
      BY <1>1, <2>2, <3>1 DEF ReportsAreMarked
    <3>5. \A u \in Reporters : reporting'[u] <=> \E n \in Nat : Reports(u, n)'
      BY <3>1, <3>2, <3>3, <3>4 DEF ReportsAreMarked
    <3>6. \A u \in Reporters, m, n \in Nat : Reports(u, m)' /\ Reports(u, n)' => m = n
      BY <3>1, <3>2 DEF ReportsAreMarked
    <3>7. QED
      BY <3>4, <3>5, <3>6 DEF ReportsAreMarked
  <2>3. QED
    BY <1>1, <2>1, <2>2
<1>6. \A s \in Sinks : Sink!Held(s)' <=> Sink!Held(s)
  BY <1>2, <1>3, HoldersOfChange DEF Sink!Holds
<1>7. SinksAreUsed' /\ Sink!DestroyedOnce'
  BY <1>1, <1>6 DEF SinkInv, SinksAreUsed, Sink!DestroyedOnce
<1>8. QED
  BY <1>1, <1>2, <1>4, <1>5, <1>7 DEF SinkInv, Changes

(* state_destroy returns to the call that had the last reference. *)
LEMMA DestroyReturnsStep ==
  ASSUME SinkInv, NEW t \in Reporters, Sink!DestroyReturns(t)
  PROVE  SinkInv'
<1> SUFFICES ASSUME NEW d, d = Len(calls[t]) PROVE SinkInv'
  OBVIOUS
<1>1. /\ d > 0 /\ calls[t][d].op = "destroy" /\ Sink!Leave(t)
      /\ UNCHANGED <<current, reporting, used, sinkDestroyed>>
  BY DEF Sink!DestroyReturns, Sink!At, Sink!Depth, Sink!Top
<1>2. d \in Nat /\ Changes(t, {d}) /\ OnStack(t, d) /\ ~OnStack(t, d)'
  BY <1>1, ReturnStack
<1>3. CallsAreShaped'
  BY <1>2, ShapesOfChange
<1>4. ReportsAreMarked'
  BY <1>1, <1>2, MarksOfChange DEF Reports
<1>5. \A s \in Sinks : Sink!Held(s)' <=> Sink!Held(s)
  BY <1>1, <1>2, HoldersOfChange DEF Sink!Holds
<1>6. SinksAreUsed' /\ Sink!DestroyedOnce'
  BY <1>1, <1>5 DEF SinkInv, SinksAreUsed, Sink!DestroyedOnce
<1>7. QED
  BY <1>1, <1>2, <1>3, <1>4, <1>6 DEF SinkInv, Changes

(* A reference is given up, and if it was the last one state_destroy is called on top. *)
LEMMA ReleaseStack ==
  ASSUME SinkInv, NEW t \in Reporters, NEW d, d = Len(calls[t]), d > 0,
         NEW s \in Sinks, s = calls[t][d].sink, Sink!Release(t)
  PROVE  /\ d \in Nat /\ Changes(t, {d, d + 1})
         /\ OnStack(t, d) /\ OnStack(t, d)' /\ ~OnStack(t, d + 1)
         /\ calls'[t][d].op = calls[t][d].op /\ calls'[t][d].at = "end"
         /\ calls'[t][d].sink = NoSink
         /\ OnStack(t, d + 1)' => /\ calls'[t][d + 1].op = "destroy"
                                  /\ calls'[t][d + 1].at = "destroy"
<1> DEFINE left == [calls[t] EXCEPT ![d].at = "end", ![d].sink = NoSink]
           top == [op |-> "destroy", at |-> "destroy", sink |-> s]
<1>0. PICK stack \in {left, Append(left, top)} : calls' = [calls EXCEPT ![t] = stack]
  BY DEF Sink!Release, Sink!Depth, Sink!Top
<1>1. /\ calls[t] \in Seq(Sink!CallType) /\ d \in Nat /\ d \in DOMAIN calls[t]
      /\ calls[t][d] \in Sink!CallType /\ DOMAIN calls[t] = 1..d
  BY DEF SinkInv
<1>2. ASSUME NEW c \in Sink!CallType
      PROVE  LET now == [[c EXCEPT !.at = "end"] EXCEPT !.sink = NoSink]
             IN now \in Sink!CallType /\ now.op = c.op /\ now.at = "end" /\ now.sink = NoSink
  BY DEF Sink!CallType
<1>3. PICK now \in Sink!CallType :
        /\ now.op = calls[t][d].op /\ now.at = "end" /\ now.sink = NoSink
        /\ left = [calls[t] EXCEPT ![d] = now]
  <2>1. left = [calls[t] EXCEPT ![d] = [[calls[t][d] EXCEPT !.at = "end"] EXCEPT !.sink = NoSink]]
    BY <1>1
  <2>2. QED
    BY <1>1, <1>2, <2>1
<1> HIDE DEF left
<1>4. /\ left \in Seq(Sink!CallType) /\ Len(left) = d /\ DOMAIN left = 1..d /\ left[d] = now
      /\ \A n \in 1..d : n # d => left[n] = calls[t][n]
  <2>1. left \in Seq(Sink!CallType) /\ Len(left) = d
    BY <1>1, <1>3
  <2>2. DOMAIN left = 1..d /\ left[d] = now /\ \A n \in 1..d : n # d => left[n] = calls[t][n]
    BY <1>1, <1>3
  <2>3. QED
    BY <2>1, <2>2
<1>5. top \in Sink!CallType /\ top.op = "destroy" /\ top.at = "destroy"
  BY DEF Sink!CallType
<1> HIDE DEF top
<1>6. /\ Append(left, top) \in Seq(Sink!CallType) /\ DOMAIN Append(left, top) = 1..(d + 1)
      /\ Append(left, top)[d + 1] = top
      /\ \A n \in 1..d : Append(left, top)[n] = left[n]
  <2>1. left \in Seq(Sink!CallType) /\ Len(left) = d /\ top \in Sink!CallType /\ d \in Nat
    BY <1>1, <1>4, <1>5
  <2>2. QED
    BY <2>1
<1>7. /\ stack \in Seq(Sink!CallType) /\ stack[d] = now
      /\ DOMAIN stack \in {1..d, 1..(d + 1)}
      /\ \A n \in 1..d : n # d => stack[n] = calls[t][n]
      /\ d + 1 \in DOMAIN stack => stack[d + 1] = top
  <2>1. CASE stack = left
    BY <1>1, <1>4, <2>1
  <2>2. CASE stack = Append(left, top)
    BY <1>1, <1>4, <1>6, <2>2
  <2>3. QED
    BY <2>1, <2>2 DEF top
<1>8. /\ calls' \in [Reporters -> Seq(Sink!CallType)] /\ calls'[t] = stack
      /\ \A u \in Reporters \ {t} : calls'[u] = calls[u]
  BY <1>0, <1>7 DEF SinkInv
<1>9. Changes(t, {d, d + 1})
  <2>1. \A n \in Nat : n \notin {d, d + 1} =>
          (OnStack(t, n)' <=> OnStack(t, n)) /\ (OnStack(t, n) => calls'[t][n] = calls[t][n])
    BY <1>1, <1>7, <1>8 DEF OnStack
  <2>2. \A u \in Reporters, n \in Nat : u # t =>
          (OnStack(u, n)' <=> OnStack(u, n)) /\ (OnStack(u, n) => calls'[u][n] = calls[u][n])
    BY <1>8 DEF OnStack
  <2>3. QED
    BY <1>8, <2>1, <2>2 DEF Changes
<1>10. QED
  BY <1>1, <1>3, <1>5, <1>7, <1>8, <1>9 DEF OnStack

(* The last reference to a sink that is not installed destroys it, and no other does. *)
LEMMA ReleaseStep ==
  ASSUME SinkInv, NEW t \in Reporters, Sink!Release(t)
  PROVE  SinkInv'
<1> SUFFICES ASSUME NEW d, d = Len(calls[t]), NEW s, s = calls[t][d].sink PROVE SinkInv'
  OBVIOUS
<1> USE CallbacksAssumption DEF CallbacksAssumption
<1> DEFINE last == current # s /\ Sink!IsLastHolder(t, s)
<1>1. /\ d > 0 /\ calls[t][d].op \in {"report", "set"} /\ calls[t][d].at = "release"
      /\ UNCHANGED <<current, reporting, used>>
  BY DEF Sink!Release, Sink!At, Sink!Depth, Sink!Top
<1>2. sinkDestroyed' = IF last THEN [sinkDestroyed EXCEPT ![s] = @ + 1] ELSE sinkDestroyed
  BY DEF Sink!Release, Sink!Depth, Sink!Top
<1>3. d \in Nat /\ OnStack(t, d) /\ s \in Sinks
  <2>1. d \in Nat /\ OnStack(t, d)
    BY <1>1 DEF SinkInv, OnStack
  <2>2. QED
    BY <1>1, <2>1 DEF SinkInv, CallsAreShaped, Shaped
<1>4. /\ Changes(t, {d, d + 1}) /\ OnStack(t, d)' /\ ~OnStack(t, d + 1)
      /\ calls'[t][d].op = calls[t][d].op /\ calls'[t][d].at = "end"
      /\ calls'[t][d].sink = NoSink
      /\ OnStack(t, d + 1)' => /\ calls'[t][d + 1].op = "destroy"
                               /\ calls'[t][d + 1].at = "destroy"
  BY <1>1, <1>3, ReleaseStack
<1>5. CallsAreShaped'
  BY <1>1, <1>3, <1>4, ShapesOfChange DEF Shaped
<1>6. ReportsAreMarked'
  BY <1>1, <1>3, <1>4, MarksOfChange DEF Reports
<1>7. \A k \in Sinks :
        /\ Sink!Held(k)' <=> HeldBeside(t, {d, d + 1}, k)
        /\ Sink!Held(k) <=> HeldBeside(t, {d, d + 1}, k) \/ k = s
  BY <1>1, <1>3, <1>4, HoldersOfChange DEF Sink!Holds
<1>8. Sink!IsLastHolder(t, s) <=> ~HeldBeside(t, {d, d + 1}, s)
  <2>1. \A u \in Reporters : DOMAIN calls[u] \subseteq Nat
    BY DEF SinkInv
  <2>2. QED
    BY <1>3, <1>4, <2>1 DEF Sink!IsLastHolder, Sink!Depth, HeldBeside, OnStack
<1>9. SinksAreUsed'
  BY <1>1, <1>7 DEF SinkInv, SinksAreUsed
<1>10. s \in used /\ sinkDestroyed[s] = 0
  BY <1>3, <1>7 DEF SinkInv, SinksAreUsed, Sink!DestroyedOnce
<1>11. sinkDestroyed' \in [Sinks -> Nat] /\ Sink!DestroyedOnce'
  <2>1. CASE last
    <3>1. sinkDestroyed' = [sinkDestroyed EXCEPT ![s] = @ + 1]
      BY <1>2, <2>1
    <3>2. sinkDestroyed' \in [Sinks -> Nat]
      <4>1. sinkDestroyed' = [sinkDestroyed EXCEPT ![s] = 1]
        BY <1>10, <3>1
      <4>2. QED
        BY <4>1 DEF SinkInv
    <3>3. sinkDestroyed'[s] = 1 /\ \A k \in Sinks \ {s} : sinkDestroyed'[k] = sinkDestroyed[k]
      BY <1>3, <1>10, <3>1 DEF SinkInv
    <3>4. QED
      BY <1>1, <1>3, <1>7, <1>8, <1>10, <2>1, <3>2, <3>3 DEF SinkInv, Sink!DestroyedOnce
  <2>2. CASE ~last
    BY <1>1, <1>2, <1>3, <1>7, <1>8, <1>10, <2>2 DEF SinkInv, Sink!DestroyedOnce
  <2>3. QED
    BY <2>1, <2>2
<1>12. QED
  BY <1>4, <1>5, <1>6, <1>9, <1>11 DEF SinkInv, Changes

(* Every step of the diagnostic sink keeps its invariant. *)
LEMMA SinkStepInv ==
  ASSUME SinkInv,
         \/ \E t \in Reporters : Sink!Call(t) \/ Sink!Internal(t) \/ Sink!CallbackReturns(t)
         \/ UNCHANGED sinkVars
  PROVE  SinkInv'
<1>1. CASE UNCHANGED sinkVars
  BY <1>1 DEF sinkVars, SinkInv, CallsAreShaped, OnStack, Shaped, ReportsAreMarked, Reports,
              SinksAreUsed, Sink!DestroyedOnce, Sink!Held, Sink!Holds
<1>2. QED
  BY <1>1, ReportStep, SetCallbackStep, LoadSinkStep, SwapSinkStep, ReleaseStep, EndStep,
     EmitReturnsStep, DestroyReturnsStep
  DEF Sink!Call, Sink!Internal, Sink!CallbackReturns

--------------------------------------------------------------------------------
(* Components by themselves. *)

(* The invariant of observable instruments says all that was promised of them. *)
LEMMA ObservablePromises == ObservableInv => UserDataOwnedOnce /\ Observable!TokensAreScoped
<1> SUFFICES ASSUME ObservableInv PROVE UserDataOwnedOnce /\ Observable!TokensAreScoped
  OBVIOUS
<1>1. UserDataOwnedOnce
  BY DEF ObservableInv, Observable!TypeOK, UserDataOwnedOnce, Observable!DestroyedOnce,
         Observable!UserDataLive
<1>2. Observable!TokensAreScoped
  <2>1. TokensOfCallbacks
    BY DEF ObservableInv
  <2>2. ASSUME NEW s \in Readers, NEW token \in Nat
        PROVE  (\E n \in DOMAIN frames[s] : frames[s][n].at = "calling"
                                            /\ frames[s][n].token = token)
                 <=> \E n \in Nat : Calling(s, n, token)
    BY FrameIsTyped DEF Calling
  <2>3. ASSUME NEW r \in Readers, NEW token \in Nat
        PROVE  token \in observers[r] <=>
                 \A s \in Readers : (\E n \in Nat : Calling(s, n, token)) <=> s = r
    BY <2>1 DEF TokensOfCallbacks
  <2>4. \A token \in 0..MaxCallbacks : token \in Nat
    OBVIOUS
  <2>5. QED
    BY <2>2, <2>3, <2>4 DEF Observable!TokensAreScoped, Observable!Accepts
<1>3. QED
  BY <1>1, <1>2

(* Observable instruments keep their invariant. *)
LEMMA ObservableInvariant == Observable!Spec => []ObservableInv
<1>1. ObservableInv /\ [Observable!Next]_(Observable!vars) => ObservableInv'
  BY ObservableStepInv
  DEF Observable!Next, Observable!vars, Observable!instrumentVars, observableVars
<1>2. QED
  BY <1>1, ObservableInitInv, PTL DEF Observable!Spec

(* The diagnostic sink keeps its invariant. *)
LEMMA SinkInvariant == Sink!Spec => []SinkInv
<1>1. SinkInv /\ [Sink!Next]_(Sink!vars) => SinkInv'
  BY SinkStepInv DEF Sink!Next, Sink!vars, sinkVars
<1>2. QED
  BY <1>1, SinkInitInv, PTL DEF Sink!Spec

(* Callbacks together behave as each of the three protocols does alone. *)
LEMMA PartsAreIndependent == CallbacksSpec => Spec /\ Observable!Spec /\ Sink!Spec
<1>1. CallbacksInit => Init /\ Observable!Init /\ Sink!Init
  BY DEF CallbacksInit
<1>2. [CallbacksNext]_<<part, vars, observableVars, sinkVars>>
        => /\ [Next]_vars /\ [Observable!Next]_(Observable!vars) /\ [Sink!Next]_(Sink!vars)
  <2> SUFFICES ASSUME [CallbacksNext]_<<part, vars, observableVars, sinkVars>>
               PROVE  /\ Next \/ UNCHANGED vars
                      /\ Observable!Next \/ UNCHANGED observableVars
                      /\ Sink!Next \/ UNCHANGED sinkVars
    BY DEF Observable!vars, Observable!instrumentVars, observableVars, Sink!vars, sinkVars
  <2>1. CASE UNCHANGED <<part, vars, observableVars, sinkVars>>
    BY <2>1
  <2>2. ASSUME CreateExporter \/ \E t \in Threads : CallExporter(t) \/ ReadExporter(t)
                                                    \/ WriteExporter(t) \/ EndExporter(t)
        PROVE  Next /\ UNCHANGED <<observableVars, sinkVars>>
    BY <2>2 DEF CreateExporter, CallExporter, ReadExporter, WriteExporter, EndExporter, Others,
                Next
  <2>3. ASSUME \/ \E i \in Instruments : ObservableApplication(i)
               \/ \E r \in Readers : ObservableTrampoline(r)
                                     \/ \E i \in Instruments : ObservableCollect(r, i)
        PROVE  Observable!Next /\ UNCHANGED <<vars, sinkVars>>
    BY <2>3 DEF ObservableApplication, ObservableTrampoline, ObservableCollect,
                OthersThanObservable, Observable!Next
  <2>4. ASSUME \E t \in Reporters : SinkCall(t) \/ SinkInternal(t) \/ SinkReturns(t)
        PROVE  Sink!Next /\ UNCHANGED <<vars, observableVars>>
    BY <2>4 DEF SinkCall, SinkInternal, SinkReturns, OthersThanSink, Sink!Next
  <2>5. QED
    BY <2>1, <2>2, <2>3, <2>4 DEF CallbacksNext
<1>3. QED
  BY <1>1, <1>2, PTL DEF CallbacksSpec, Spec, Observable!Spec, Sink!Spec

--------------------------------------------------------------------------------
(* The callbacks of MCCallbacks. *)

(* No callback runs on user data its destructor has seen, and the destructor runs exactly
   once, after the handle and the last callback are gone (metrics.rs:1015-1037). *)
THEOREM UserDataOwnedOnceHolds == CallbacksSpec => []UserDataOwnedOnce
BY ObservableInvariant, ObservablePromises, PartsAreIndependent, PTL

(* The tokens callbacks are given are good on their thread and until their callback
   returns, and no two have the same (metric_batch.rs:221, metrics.rs:1071). *)
THEOREM CallbackTokensAreScopedHolds == CallbacksSpec => []CallbackTokensAreScoped
<1>1. Inv /\ ObservableInv => CallbackTokensAreScoped
  BY Promises, ObservablePromises DEF CallbackTokensAreScoped
<1>2. QED
  BY <1>1, Invariant, ObservableInvariant, PartsAreIndependent, PTL

(* The diagnostic callback runs neither on a destroyed sink nor inside itself, and every
   replaced sink is destroyed exactly once (diagnostic.rs:82-103). *)
THEOREM SinkOwnedOnceHolds == CallbacksSpec => []SinkOwnedOnce
BY SinkInvariant, SinkPromises, PartsAreIndependent, PTL

(* A thread is marked as reporting exactly while it is inside a report, and every variable
   of the sink holds a value of its kind (diagnostic.rs:57-69). *)
THEOREM SinkTypeCorrect == CallbacksSpec => []Sink!TypeOK
BY SinkInvariant, SinkPromises, PartsAreIndependent, PTL

(* Every variable of observable instruments holds a value of its kind: user_data_destroy
   runs once at most (metrics.rs:983). *)
THEOREM ObservableTypeCorrect == CallbacksSpec => []Observable!TypeOK
<1>1. ObservableInv => Observable!TypeOK
  BY DEF ObservableInv
<1>2. QED
  BY <1>1, ObservableInvariant, PartsAreIndependent, PTL
==================================================================================
