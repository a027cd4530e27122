------------------------------ MODULE Scheduler ------------------------------
(***************************************************************************)
(* The drift-corrected sampling scheduler: TimeProbe of                    *)
(* src/src/resources/time_probe.rs, an Iterator of TimeSnapshot.           *)
(*                                                                         *)
(* The monotonic clock (Instant::now()) is a variable measured in clock    *)
(* units, SubMs of them per millisecond, so that Duration::as_millis       *)
(* truncates as it does in the code.  A caller pulls snapshots one at a    *)
(* time; inside next() the busy-poll loop is one step per poll: either it *)
(* emits a snapshot or it sleeps for `idle`.  Between two pulls the caller *)
(* spends some time of its own (capturing and saving the frame).          *)
(*                                                                         *)
(* time_scale is an f32 in the code; the model takes the integral scales   *)
(* the application (1) and the tests (1, 5) use, for which the f32         *)
(* multiplication and floor are exact.                                     *)
(***************************************************************************)
EXTENDS Integers, Sequences

CONSTANTS
  Interval,         \* config.interval: ms between samples
  Idle,             \* config.idle: ms slept between two polls
  Samples,          \* config.samples: > 0 bounds the sequence, <= 0 is unbounded
  TimeScaleConfig,  \* config.time_scale as passed to TimeProbe::new
  SubMs,            \* monotonic clock units per millisecond
  MaxOvershoot,     \* clock units a sleep may overrun the requested duration
  MaxWork,          \* clock units the caller may spend between two pulls
  NtpSeconds,       \* the seconds values an NTP lookup may return
  StartReference    \* Local::now().timestamp() * 1000 at construction

ASSUME IntervalType == Interval \in Nat
ASSUME IdleType == Idle \in Nat
ASSUME SamplesType == Samples \in Int
ASSUME TimeScaleType == TimeScaleConfig \in Int
ASSUME SubMsType == SubMs \in Nat \ {0}
ASSUME MaxOvershootType == MaxOvershoot \in Nat
ASSUME MaxWorkType == MaxWork \in Nat
ASSUME NtpSecondsType == NtpSeconds \subseteq Nat
ASSUME StartReferenceType == StartReference \in Nat

VARIABLES
  clock,      \* Instant::now(), in clock units
  reference,  \* self.reference: ms since the epoch the probe is anchored to
  moment,     \* self.moment: Instant the probe started (or was re-synced)
  last,       \* self.last: Instant of the previous sample
  sampled,    \* self.sampled
  pc,         \* "caller", "polling" (inside next()), "consuming", "ended"
  snaps,      \* history: every TimeSnapshot next() returned, in order
  polls       \* history: sleeps in the current call of next()

vars == <<clock, reference, moment, last, sampled, pc, snaps, polls>>

-----------------------------------------------------------------------------
(* TimeProbe::new normalises a non-positive time_scale to 1.               *)
time_scale == IF TimeScaleConfig <= 0 THEN 1 ELSE TimeScaleConfig

(* Duration::as_millis of a span of clock units: truncation.               *)
AsMillis(d) == d \div SubMs

(* (ms as f32 * time_scale).floor() as u128, exact for integral scales.    *)
Scaled(ms) == ms * time_scale

(* Mutant: the snapshot is stamped with the reference alone.               *)
AsSnapshotNoOffset(ms) == [timestamp |-> reference, elapsed |-> ms]

(* TimeProbe::as_snapshot; the utc field only formats timestamp.           *)
AsSnapshot(ms) == [timestamp |-> reference + ms, elapsed |-> ms]

(* Mutant: the bound checked with > instead of >=.                          *)
ExhaustedLate == Samples > 0 /\ sampled > Samples

(* The early return of next(): a bounded probe that took all its samples.  *)
Exhausted == Samples > 0 /\ sampled >= Samples

(* The scaled time since the previous sample, as next() computes it.      *)
ElapsedScale == Scaled(AsMillis(clock - last))

-----------------------------------------------------------------------------
(* TimeProbe::new: moment and last are two reads of the clock.             *)
Init ==
  /\ clock \in 0..MaxOvershoot
  /\ moment = 0
  /\ last = clock
  /\ reference = StartReference
  /\ sampled = 0
  /\ pc = "caller"
  /\ snaps = <<>>
  /\ polls = 0

(* sync_network_time after a successful lookup of `sec` seconds: replaces  *)
(* the reference and restarts both instants.  Its callers (App::run and    *)
(* the tests) call it only before the first pull; a failed lookup returns  *)
(* an error and changes nothing.                                           *)
SyncNetworkTime(sec) ==
  /\ pc = "caller"
  /\ sampled = 0
  /\ reference' = sec * 1000
  /\ moment' = clock
  /\ last' = clock
  /\ UNCHANGED <<clock, sampled, pc, snaps, polls>>

(* next() on an exhausted probe returns None; the caller's loop ends.      *)
PullEnd ==
  /\ pc = "caller"
  /\ Exhausted
  /\ pc' = "ended"
  /\ UNCHANGED <<clock, reference, moment, last, sampled, snaps, polls>>

(* next() on a probe with samples left enters its polling loop.            *)
PullStart ==
  /\ pc = "caller"
  /\ ~Exhausted
  /\ pc' = "polling"
  /\ polls' = 0
  /\ UNCHANGED <<clock, reference, moment, last, sampled, snaps>>

(* Mutant: a sample is due once `interval` ms have passed (>=).           *)
EmitAtInterval ==
  /\ pc = "polling"
  /\ ElapsedScale >= Interval
  /\ sampled' = sampled + 1
  /\ last' = clock
  /\ snaps' = Append(snaps, AsSnapshot(Scaled(AsMillis(clock - moment))))
  /\ pc' = "consuming"
  /\ UNCHANGED <<clock, reference, moment, polls>>

(* Mutant: the snapshot's span is taken the wrong way round.               *)
EmitSwapped ==
  /\ pc = "polling"
  /\ ElapsedScale > Interval
  /\ sampled' = sampled + 1
  /\ last' = clock
  /\ snaps' = Append(snaps, AsSnapshot(Scaled(AsMillis(moment - clock))))
  /\ pc' = "consuming"
  /\ UNCHANGED <<clock, reference, moment, polls>>

(* A poll finds more than `interval` scaled ms since the previous sample:  *)
(* count it, move `last` to now and return the snapshot of the scaled time *)
(* since `moment`.                                                         *)
Emit ==
  /\ pc = "polling"
  /\ ElapsedScale > Interval
  /\ sampled' = sampled + 1
  /\ last' = clock
  /\ snaps' = Append(snaps, AsSnapshot(Scaled(AsMillis(clock - moment))))
  /\ pc' = "consuming"
  /\ UNCHANGED <<clock, reference, moment, polls>>

(* Mutant: every poll moves `last` to now.                                  *)
SleepResetsLast ==
  /\ pc = "polling"
  /\ ~(ElapsedScale > Interval)
  /\ \E d \in (Idle * SubMs)..(Idle * SubMs + MaxOvershoot) :
       /\ d > 0
       /\ clock' = clock + d
       /\ last' = clock + d
  /\ polls' = polls + 1
  /\ UNCHANGED <<reference, moment, sampled, pc, snaps>>

(* A poll that is too early sleeps for `idle` ms (at least that long).     *)
Sleep ==
  /\ pc = "polling"
  /\ ~(ElapsedScale > Interval)
  /\ \E d \in (Idle * SubMs)..(Idle * SubMs + MaxOvershoot) :
       /\ d > 0
       /\ clock' = clock + d
  /\ polls' = polls + 1
  /\ UNCHANGED <<reference, moment, last, sampled, pc, snaps>>

(* The caller handles the snapshot (captures and saves a frame), which    *)
(* takes time, then pulls again.                                           *)
Consume ==
  /\ pc = "consuming"
  /\ \E w \in 0..MaxWork : clock' = clock + w
  /\ pc' = "caller"
  /\ UNCHANGED <<reference, moment, last, sampled, snaps, polls>>

(* The caller's loop has ended: nothing else happens.                      *)
Finished ==
  /\ pc = "ended"
  /\ UNCHANGED vars

Next ==
  \/ \E sec \in NtpSeconds : SyncNetworkTime(sec)
  \/ PullEnd
  \/ PullStart
  \/ Emit
  \/ Sleep
  \/ Consume
  \/ Finished

(* The polling loop runs on the only thread and its sleep always returns; *)
(* the caller keeps pulling.                                               *)
Fairness ==
  /\ WF_vars(Emit)
  /\ WF_vars(Sleep)
  /\ WF_vars(PullStart \/ PullEnd)
  /\ WF_vars(Consume)

Spec == Init /\ [][Next]_vars /\ Fairness

-----------------------------------------------------------------------------
TypeOK ==
  /\ clock \in Nat
  /\ reference \in Nat
  /\ moment \in Nat
  /\ last \in Nat
  /\ sampled \in Nat
  /\ pc \in {"caller", "polling", "consuming", "ended"}
  /\ snaps \in Seq([timestamp : Nat, elapsed : Nat])
  /\ polls \in Nat

(* The elapsed time of the snapshot before the i-th (0 before the first).  *)
PrevElapsed(i) == IF i = 1 THEN 0 ELSE snaps[i - 1].elapsed

(* Drift correction: every snapshot's elapsed time exceeds the previous   *)
(* one's by more than `interval`, although next() measures the wait from   *)
(* `last` and the snapshot from `moment`, each truncated to ms separately. *)
SamplesSpaced ==
  \A i \in 1..Len(snaps) : snaps[i].elapsed - PrevElapsed(i) > Interval

(* A probe with max_samples = N >= 0 yields exactly N snapshots: never     *)
(* more, and exactly N by the time it returns None (spec section 8).       *)
ExactlyMaxSamples ==
  Samples >= 0 =>
    /\ Len(snaps) <= Samples
    /\ pc = "ended" => Len(snaps) = Samples

(* The i-th snapshot (1-indexed) has floor(elapsed / interval) = i, as the *)
(* spec (section 8) and the tests sample_at_interval* assert.              *)
ElapsedMatchesIndex ==
  \A i \in 1..Len(snaps) : snaps[i].elapsed \div Interval = i

(* Poll latency: a call of next() sleeps at most                           *)
(* interval / (idle * time_scale) + 1 times before it returns (with a     *)
(* positive idle): each sleep adds at least `idle` whole ms to the time   *)
(* measured since the previous sample, and nothing else moves it back.    *)
MaxPolls == Interval \div (Idle * time_scale) + 1

PollsBounded == Idle > 0 => polls <= MaxPolls

(* File naming: ImageLogger::save names each frame's file after the        *)
(* snapshot's timestamp.  No step rewrites or drops a snapshot next() has  *)
(* returned, and each new one is stamped more than `interval` ms after the *)
(* previous one: sync_network_time moves the reference only before the    *)
(* first sample, and as_snapshot adds the drift-corrected time since      *)
(* `moment` to it.  So every frame gets a new file name, in capture order, *)
(* as long as the f32 cast of the elapsed value is exact (below 2^24 ms).  *)
StampsAdvance ==
  [][snaps' # snaps =>
       /\ Len(snaps') = Len(snaps) + 1
       /\ SubSeq(snaps', 1, Len(snaps)) = snaps
       /\ Len(snaps) > 0 =>
            snaps'[Len(snaps')].timestamp - snaps[Len(snaps)].timestamp > Interval]_vars

(* Every call of next() that enters the polling loop eventually returns a *)
(* snapshot: the busy-poll loop does not spin forever.                     *)
NextReturns == (pc = "polling") ~> (pc = "consuming")

=============================================================================
