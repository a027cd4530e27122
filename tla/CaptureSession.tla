--------------------------- MODULE CaptureSession ---------------------------
(***************************************************************************)
(* What a capture session promises (spec section 4.2): the lifecycle      *)
(* Uninitialized -> {Ready | Failed} -> Streaming -> Closed, uniform       *)
(* across backends.  A session is initialised once; a failed one is       *)
(* released and used no more; next() hands out frames only while the      *)
(* session is Ready; Closed is terminal and every next() after it fails.  *)
(*                                                                         *)
(* The state is the phase and the number of frames handed out so far.    *)
(* A next() that fails changes neither, so it is a stuttering step.       *)
(***************************************************************************)
EXTENDS Naturals

VARIABLES
  phase,   \* "uninit", "ready", "failed", "closed"
  served   \* frames next() has returned

vars == <<phase, served>>

Init ==
  /\ phase = "uninit"
  /\ served = 0

(* initialize(settings) opens the session or fails, releasing everything. *)
Open ==
  /\ phase = "uninit"
  /\ phase' \in {"ready", "failed"}
  /\ UNCHANGED served

(* next() returns one frame of a Ready session.                            *)
Serve ==
  /\ phase = "ready"
  /\ served' = served + 1
  /\ UNCHANGED phase

(* shutdown() closes the session; calling it again changes nothing.        *)
Close ==
  /\ phase \in {"ready", "closed"}
  /\ phase' = "closed"
  /\ UNCHANGED served

Next == Open \/ Serve \/ Close

Spec == Init /\ [][Next]_vars

=============================================================================
