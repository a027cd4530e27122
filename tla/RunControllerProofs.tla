------------------------- MODULE RunControllerProofs -------------------------
(***************************************************************************)
(* Proof of cancellation latency for App::run, for every set of failing   *)
(* calls.  Once the lock file is gone (removedAt >= 0) the loop may still *)
(* be anywhere between the tick and the save of the sample in progress:   *)
(* that sample may be saved, and then the lock check at the end of the     *)
(* iteration breaks the loop before another save.                          *)
(***************************************************************************)
EXTENDS RunController, TLAPS

LatencyInv ==
  /\ TypeOK
  /\ removedAt >= 0 <=> ~locked
  /\ removedAt >= 0 =>
       \/ saved = removedAt
       \/ saved = removedAt + 1 /\ pc \in {"check", "shutdown", "returned"}

LEMMA InitLatencyInv == Init => LatencyInv
  BY DEF Init, LatencyInv, TypeOK, Pcs

LEMMA NextLatencyInv == LatencyInv /\ [Next]_vars => LatencyInv'
<1> SUFFICES ASSUME LatencyInv, [Next]_vars PROVE LatencyInv'
  OBVIOUS
<1> USE DEF LatencyInv, TypeOK, Pcs
<1>1. CASE CreateCamera
  BY <1>1 DEF CreateCamera, Results, ReturnErr
<1>2. CASE SyncTime
  BY <1>2 DEF SyncTime, Results, ReturnErr
<1>3. CASE TakeLock
  <2>1. CASE locked' = TRUE /\ removedAt' = -1 /\ pc' = "tick" /\ UNCHANGED outcome
    BY <1>3, <2>1 DEF TakeLock
  <2>2. CASE pc' = "returned" /\ outcome' = "err" /\ UNCHANGED <<locked, removedAt>>
    BY <1>3, <2>2 DEF TakeLock
  <2>. QED BY <1>3, <2>1, <2>2 DEF TakeLock, Results, ReturnErr
<1>4. CASE Tick
  BY <1>4 DEF Tick
<1>5. CASE Capture
  BY <1>5 DEF Capture, Results, ReturnErr
<1>6. CASE Save
  BY <1>6 DEF Save, Results, ReturnErr
<1>7. CASE CheckLock
  BY <1>7 DEF CheckLock
<1>8. CASE ShutdownCamera
  BY <1>8 DEF ShutdownCamera, Results
<1>9. CASE RemoveLock
  <2>1. locked /\ ~locked' /\ removedAt' = saved /\ saved' = saved
    BY <1>9 DEF RemoveLock
  <2>2. removedAt' >= 0 /\ removedAt' \in -1..saved'
    BY <2>1
  <2>. QED BY <1>9, <2>1, <2>2 DEF RemoveLock
<1>10. CASE Returned
  BY <1>10 DEF Returned, vars
<1>11. CASE UNCHANGED vars
  BY <1>11 DEF vars
<1>. QED BY <1>1, <1>2, <1>3, <1>4, <1>5, <1>6, <1>7, <1>8, <1>9, <1>10, <1>11
     DEF Next

(* Cancellation latency: once another process deletes the lock file, run() *)
(* saves at most the one sample it was working on.                         *)
THEOREM BoundedCancellation == Spec => []CancellationLatency
<1>1. LatencyInv => CancellationLatency
  BY DEF LatencyInv, TypeOK, CancellationLatency
<1>. QED BY <1>1, InitLatencyInv, NextLatencyInv, PTL DEF Spec

=============================================================================
