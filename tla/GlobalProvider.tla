---------------------------- MODULE GlobalProvider ----------------------------
(***************************************************************************)
(* What the process-global provider slot promises its users, with every    *)
(* lock, token and reference count left out: one register that holds the   *)
(* installed SDK or nothing.  An SDK is installed only while it is         *)
(* running, is removed only by itself, and never stops accepting telemetry *)
(* while the slot still hands it out.                                      *)
(***************************************************************************)
CONSTANTS
  Sdks,   (* SDK handles that install their provider   *)
  NoSdk   (* the empty slot, which is none of the SDKs *)

VARIABLES
  installed,  (* the SDK the slot hands out, or NoSdk *)
  phase       (* how far each SDK has shut down       *)

vars == <<installed, phase>>

Phases == {"running", "stopping", "stopped"}

Init ==
  /\ installed = NoSdk
  /\ phase = [s \in Sdks |-> "running"]

(* A running SDK takes the slot, from whoever had it. *)
Install(s) ==
  /\ phase[s] = "running"
  /\ installed' = s
  /\ UNCHANGED phase

(* Shutdown or destruction begins: from here on s may not be installed. *)
BeginStop(s) ==
  /\ phase[s] = "running"
  /\ phase' = [phase EXCEPT ![s] = "stopping"]
  /\ UNCHANGED installed

(* A stopping SDK removes itself; nobody else's installation is touched. *)
Clear(s) ==
  /\ phase[s] = "stopping"
  /\ installed = s
  /\ installed' = NoSdk
  /\ UNCHANGED phase

(* The provider stops accepting telemetry once nobody can find it. *)
Stop(s) ==
  /\ phase[s] = "stopping"
  /\ installed # s
  /\ phase' = [phase EXCEPT ![s] = "stopped"]
  /\ UNCHANGED installed

Next == \E s \in Sdks : Install(s) \/ BeginStop(s) \/ Clear(s) \/ Stop(s)

Safety == Init /\ [][Next]_vars
===============================================================================
