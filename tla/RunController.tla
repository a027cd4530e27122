---------------------------- MODULE RunController ----------------------------
(***************************************************************************)
(* The run controller: App::run of src/src/app.rs.  It creates the camera *)
(* through CameraFactory, builds a TimeProbe (samples = -1, so the probe  *)
(* never ends), syncs the time over NTP when the manifest says so, takes  *)
(* the lock file, then per sample: pulls a tick, captures a frame, saves  *)
(* it, and re-checks the lock file; it shuts the camera down when the     *)
(* loop ends.  Every `?` returns from run() at once.                      *)
(*                                                                         *)
(* The camera is seen through CameraLike: whether a session is open, and  *)
(* how often shutdown() was called.  The probe's blocking next() is one  *)
(* step (Scheduler checks that it returns).  Any other process may delete *)
(* the lock file at any time.                                              *)
(***************************************************************************)
EXTENDS Integers

CONSTANTS
  Failures  \* the fallible calls that may fail: subset of FallibleCalls

FallibleCalls == {"create", "ntp", "lock", "next", "save", "shutdown"}

ASSUME FailuresType == Failures \subseteq FallibleCalls

VARIABLES
  pc,          \* the statement of run() about to execute
  use_ntp,     \* manifest.config.use_ntp
  session,     \* the camera: "none" (not created), "open", "closed"
  shutdowns,   \* calls of camera.shutdown()
  locked,      \* the lock file exists
  saved,       \* frames handed to ImageLogger::save successfully
  removedAt,   \* history: saved when the lock file was last deleted, -1 if present
  outcome      \* "running", or what run() returned: "ok", "err"

vars == <<pc, use_ntp, session, shutdowns, locked, saved, removedAt, outcome>>

Pcs == {"create", "ntp", "lock", "tick", "capture", "save", "check", "shutdown", "returned"}

-----------------------------------------------------------------------------
(* The outcomes of a fallible call.                                        *)
Results(call) == IF call \in Failures THEN {"ok", "err"} ELSE {"ok"}

(* A `?` on an error: run() returns Err at once.                           *)
ReturnErr ==
  /\ pc' = "returned"
  /\ outcome' = "err"

(* The lock file may or may not exist when the program starts.             *)
Init ==
  /\ pc = "create"
  /\ use_ntp \in BOOLEAN
  /\ session = "none"
  /\ shutdowns = 0
  /\ locked \in BOOLEAN
  /\ saved = 0
  /\ removedAt = IF locked THEN -1 ELSE 0
  /\ outcome = "running"

(* camera_factory.create_camera()?: a camera whose initialize() failed is *)
(* dropped inside the factory.                                             *)
CreateCamera ==
  /\ pc = "create"
  /\ \E r \in Results("create") :
       IF r = "ok"
         THEN /\ session' = "open"
              /\ pc' = "ntp"
              /\ UNCHANGED outcome
         ELSE /\ ReturnErr
              /\ UNCHANGED session
  /\ UNCHANGED <<use_ntp, shutdowns, locked, saved, removedAt>>

(* TimeProbe::new, then probe.sync_network_time(..)? when use_ntp.         *)
SyncTime ==
  /\ pc = "ntp"
  /\ \E r \in IF use_ntp THEN Results("ntp") ELSE {"ok"} :
       IF r = "ok"
         THEN /\ pc' = "lock"
              /\ UNCHANGED outcome
         ELSE ReturnErr
  /\ UNCHANGED <<use_ntp, session, shutdowns, locked, saved, removedAt>>

(* run_lock.lock()?: writes the lock file unless it exists.                *)
TakeLock ==
  /\ pc = "lock"
  /\ \E r \in Results("lock") :
       IF r = "ok"
         THEN /\ locked' = TRUE
              /\ removedAt' = -1
              /\ pc' = "tick"
              /\ UNCHANGED outcome
         ELSE /\ ReturnErr
              /\ UNCHANGED <<locked, removedAt>>
  /\ UNCHANGED <<use_ntp, session, shutdowns, saved>>

(* for sample in probe: the probe has no sample limit, so next() blocks   *)
(* until the interval has passed and returns Some.                         *)
Tick ==
  /\ pc = "tick"
  /\ pc' = "capture"
  /\ UNCHANGED <<use_ntp, session, shutdowns, locked, saved, removedAt, outcome>>

(* camera.next()?                                                          *)
Capture ==
  /\ pc = "capture"
  /\ \E r \in Results("next") :
       IF r = "ok"
         THEN /\ pc' = "save"
              /\ UNCHANGED outcome
         ELSE ReturnErr
  /\ UNCHANGED <<use_ntp, session, shutdowns, locked, saved, removedAt>>

(* Mutant: a failed save is logged and the loop continues with the next  *)
(* tick, skipping the lock check.                                          *)
SaveErrContinue ==
  /\ pc = "save"
  /\ \E r \in Results("save") :
       IF r = "ok"
         THEN /\ saved' = saved + 1
              /\ pc' = "check"
         ELSE /\ pc' = "tick"
              /\ UNCHANGED saved
  /\ UNCHANGED <<use_ntp, session, shutdowns, locked, removedAt, outcome>>

(* image_logger.save(frame, sample)?                                       *)
Save ==
  /\ pc = "save"
  /\ \E r \in Results("save") :
       IF r = "ok"
         THEN /\ saved' = saved + 1
              /\ pc' = "check"
              /\ UNCHANGED outcome
         ELSE /\ ReturnErr
              /\ UNCHANGED saved
  /\ UNCHANGED <<use_ntp, session, shutdowns, locked, removedAt>>

(* Mutant: the loop never re-checks the lock file.                         *)
CheckLockNoBreak ==
  /\ pc = "check"
  /\ pc' = "tick"
  /\ UNCHANGED <<use_ntp, session, shutdowns, locked, saved, removedAt, outcome>>

(* if !run_lock.is_locked() { break; }                                     *)
CheckLock ==
  /\ pc = "check"
  /\ pc' = IF locked THEN "tick" ELSE "shutdown"
  /\ UNCHANGED <<use_ntp, session, shutdowns, locked, saved, removedAt, outcome>>

(* camera.shutdown()?; Ok(()).                                             *)
ShutdownCamera ==
  /\ pc = "shutdown"
  /\ session' = "closed"
  /\ shutdowns' = shutdowns + 1
  /\ pc' = "returned"
  /\ outcome' \in {IF r = "ok" THEN "ok" ELSE "err" : r \in Results("shutdown")}
  /\ UNCHANGED <<use_ntp, locked, saved, removedAt>>

(* Another process deletes the lock file.                                  *)
RemoveLock ==
  /\ locked
  /\ locked' = FALSE
  /\ removedAt' = saved
  /\ UNCHANGED <<pc, use_ntp, session, shutdowns, saved, outcome>>

(* run() has returned.                                                     *)
Returned ==
  /\ pc = "returned"
  /\ UNCHANGED vars

Next ==
  \/ CreateCamera
  \/ SyncTime
  \/ TakeLock
  \/ Tick
  \/ Capture
  \/ Save
  \/ CheckLock
  \/ ShutdownCamera
  \/ RemoveLock
  \/ Returned

Spec == Init /\ [][Next]_vars

(* run() is one thread: each of its own statements, once reached,         *)
(* executes.  The probe's next() returns (Scheduler's PollsBounded), and  *)
(* NTP, the lock file and the logger return Ok or Err.  camera.next() is  *)
(* left out: AvCamera's read loop may spin forever (FfmpegCamera's        *)
(* NextReturns), so its return is a hypothesis of the properties that     *)
(* need it.  Deleting the lock file is another process's choice and gets *)
(* no fairness.                                                            *)
RunSteps ==
  CreateCamera \/ SyncTime \/ TakeLock \/ Tick \/ Save \/ CheckLock \/ ShutdownCamera

(* The camera's next() returns, with a frame or an error, whenever it is  *)
(* called: true of the replay backend, whose next() is one step.           *)
CameraReturns == WF_vars(Capture)

LiveSpec == Spec /\ WF_vars(RunSteps)

-----------------------------------------------------------------------------
TypeOK ==
  /\ pc \in Pcs
  /\ use_ntp \in BOOLEAN
  /\ session \in {"none", "open", "closed"}
  /\ shutdowns \in Nat
  /\ locked \in BOOLEAN
  /\ saved \in Nat
  /\ removedAt \in -1..saved
  /\ outcome \in {"running", "ok", "err"}

(* Cancellation latency (spec sections 4.3 and 8): once the lock file is  *)
(* deleted, at most the sample in progress is still saved; the loop stops *)
(* after it.                                                               *)
CancellationLatency ==
  removedAt >= 0 => saved <= removedAt + 1

(* Cancellation takes effect (spec section 4.3): with a camera whose      *)
(* next() returns, once the lock file is gone while the sampling loop     *)
(* runs, run() eventually returns: the loop re-checks the lock after every *)
(* save and breaks out to shutdown().                                       *)
CancellationReturns ==
  CameraReturns =>
    ((pc \in {"tick", "capture", "save", "check"} /\ ~locked) ~> pc = "returned")

(* Teardown on every exit (spec sections 4.3 and 7): when run() returns   *)
(* after the camera was created, camera.shutdown() has been called exactly *)
(* once, on the error paths too.                                           *)
ShutdownOnExit ==
  (pc = "returned" /\ session # "none") => shutdowns = 1

=============================================================================
