--------------------------- MODULE SchedulerProofs ---------------------------
(***************************************************************************)
(* Proofs about Scheduler, for every value of its constants: the type     *)
(* invariant, the spacing of the snapshots (SamplesSpaced), the poll      *)
(* latency (PollsBounded) and the sample count (ExactlyMaxSamples).       *)
(*                                                                         *)
(* SamplesSpaced is not inductive by itself: the next snapshot is spaced  *)
(* from the previous one only because that one's elapsed time is the      *)
(* scaled truncation of last - moment, and because the clock never runs  *)
(* backwards past last and moment.  IInv adds those facts.                *)
(***************************************************************************)
EXTENDS Scheduler, SequenceTheorems, TLAPS

(* The inductive invariant.                                                *)
IInv ==
  /\ TypeOK
  /\ moment <= last
  /\ last <= clock
  /\ Len(snaps) = sampled
  /\ sampled > 0 => snaps[sampled].elapsed = Scaled(AsMillis(last - moment))
  /\ SamplesSpaced

(* Truncating division loses at most the carry: floor(a/b) - floor(c/b)  *)
(* is at least floor((a-c)/b).                                             *)
LEMMA DivDiff ==
  ASSUME NEW a \in Nat, NEW c \in Nat, NEW b \in Nat \ {0}, c <= a
  PROVE  (a - c) \div b <= a \div b - c \div b
<1>1. /\ b * (a \div b) <= a /\ a < b * (a \div b) + b
      /\ b * (c \div b) <= c /\ c < b * (c \div b) + b
      /\ b * ((a - c) \div b) <= a - c
  BY Z3
<1>2. b * ((a - c) \div b) < b * (a \div b - c \div b + 1)
  BY <1>1, Z3
<1>. QED BY <1>2, Z3

(* Scaling by a positive factor keeps the ordering of DivDiff.             *)
LEMMA ScaledDivDiff ==
  ASSUME NEW a \in Nat, NEW c \in Nat, NEW b \in Nat \ {0}, NEW s \in Nat \ {0},
         c <= a
  PROVE  s * ((a - c) \div b) <= s * (a \div b) - s * (c \div b)
<1>1. (a - c) \div b <= a \div b - c \div b
  BY DivDiff
<1>. QED BY <1>1, Z3

(* The arithmetic of one emission, over opaque integers: a gap measured   *)
(* from `last` that exceeds the interval, and is at most the difference of *)
(* the two snapshots' elapsed times, separates the snapshots by more than *)
(* the interval.                                                           *)
LEMMA SpacingArith ==
  \A g, n, b, p :
    (/\ g \in Int /\ n \in Int /\ b \in Nat
     /\ g <= n - b /\ g > Interval
     /\ (p = 0 \/ p = b))
    => n - p > Interval
BY IntervalType, Z3

LEMMA TimeScalePositive == time_scale \in Nat \ {0}
  BY TimeScaleType DEF time_scale

LEMMA InitIInv == Init => IInv
  BY StartReferenceType, MaxOvershootType
  DEF Init, IInv, TypeOK, SamplesSpaced

LEMMA NextIInv == IInv /\ [Next]_vars => IInv'
<1> SUFFICES ASSUME IInv, [Next]_vars PROVE IInv'
  OBVIOUS
<1> USE TimeScalePositive, SubMsType, IntervalType DEF IInv, TypeOK
<1>1. CASE \E sec \in NtpSeconds : SyncNetworkTime(sec)
  BY <1>1, NtpSecondsType DEF SyncNetworkTime, SamplesSpaced
<1>2. CASE PullEnd
  BY <1>2 DEF PullEnd, SamplesSpaced, PrevElapsed
<1>3. CASE PullStart
  BY <1>3 DEF PullStart, SamplesSpaced, PrevElapsed
<1>4. CASE Emit
  <2> DEFINE new == AsSnapshot(Scaled(AsMillis(clock - moment)))
             prev == IF sampled = 0 THEN 0 ELSE snaps[sampled].elapsed
  <2>1. time_scale * ((clock - last) \div SubMs)
          <= time_scale * ((clock - moment) \div SubMs)
             - time_scale * ((last - moment) \div SubMs)
    <3>1. /\ clock - moment \in Nat /\ last - moment \in Nat
          /\ last - moment <= clock - moment
          /\ (clock - moment) - (last - moment) = clock - last
      OBVIOUS
    <3>. QED BY <3>1, ScaledDivDiff
  <2>2. time_scale * ((clock - last) \div SubMs) > Interval
    BY <1>4 DEF Emit, ElapsedScale, Scaled, AsMillis
  <2>3. /\ (clock - moment) \div SubMs \in Nat
        /\ (last - moment) \div SubMs \in Nat
    BY Z3
  <2>4. new = [timestamp |-> reference + time_scale * ((clock - moment) \div SubMs),
               elapsed |-> time_scale * ((clock - moment) \div SubMs)]
    BY DEF AsSnapshot, Scaled, AsMillis
  <2>9. new.elapsed - prev > Interval
    <3>1. /\ time_scale * ((last - moment) \div SubMs) \in Nat
          /\ time_scale * ((clock - moment) \div SubMs) \in Int
          /\ time_scale * ((clock - last) \div SubMs) \in Int
      BY <2>3, Z3
    <3>2. new.elapsed = time_scale * ((clock - moment) \div SubMs)
      BY <2>4
    <3>3. prev = 0 \/ prev = time_scale * ((last - moment) \div SubMs)
      BY DEF Scaled, AsMillis
    <3>. QED BY ONLY <2>1, <2>2, <3>1, <3>2, <3>3, SpacingArith, Zenon
  <2>10. new \in [timestamp : Nat, elapsed : Nat]
    BY <2>3, <2>4, Z3
  <2>5. snaps' = Append(snaps, new) /\ sampled' = sampled + 1
    BY <1>4 DEF Emit
  <2>6. /\ Len(snaps') = sampled'
        /\ snaps' \in Seq([timestamp : Nat, elapsed : Nat])
        /\ snaps'[sampled'] = new
        /\ \A i \in 1..sampled : snaps'[i] = snaps[i]
    BY <2>10, <2>5, AppendProperties
  <2>7. SamplesSpaced'
    <3> SUFFICES ASSUME NEW i \in 1..Len(snaps')
                 PROVE  snaps'[i].elapsed - PrevElapsed(i)' > Interval
      BY DEF SamplesSpaced
    <3>1. CASE i = sampled'
      <4>1. PrevElapsed(i)' = prev
        BY <2>5, <2>6, <3>1 DEF PrevElapsed
      <4>. QED BY <2>9, <2>6, <3>1, <4>1
    <3>2. CASE i # sampled'
      <4>1. i \in 1..Len(snaps) /\ snaps'[i] = snaps[i]
        BY <2>5, <2>6, <3>2
      <4>2. PrevElapsed(i)' = PrevElapsed(i)
        BY <2>6, <4>1 DEF PrevElapsed
      <4>. QED BY <4>1, <4>2 DEF SamplesSpaced
    <3>. QED BY <3>1, <3>2
  <2>8. snaps'[sampled'].elapsed = Scaled(AsMillis(last' - moment'))
    BY <1>4, <2>6 DEF Emit, AsSnapshot
  <2>. QED BY <1>4, <2>6, <2>7, <2>8 DEF Emit
<1>5. CASE Sleep
  BY <1>5 DEF Sleep, SamplesSpaced, PrevElapsed
<1>6. CASE Consume
  BY <1>6, MaxWorkType DEF Consume, SamplesSpaced, PrevElapsed
<1>7. CASE Finished
  BY <1>7 DEF Finished, vars, SamplesSpaced, PrevElapsed
<1>8. CASE UNCHANGED vars
  BY <1>8 DEF vars, SamplesSpaced, PrevElapsed
<1>. QED BY <1>1, <1>2, <1>3, <1>4, <1>5, <1>6, <1>7, <1>8 DEF Next

(* The scheduler's variables keep their types in every reachable state.    *)
THEOREM TypeCorrect == Spec => []TypeOK
<1>1. IInv => TypeOK
  BY DEF IInv
<1>. QED BY <1>1, InitIInv, NextIInv, PTL DEF Spec

(* Drift correction: every snapshot next() returns is more than `interval` *)
(* scaled ms after the previous one (after the start for the first).      *)
THEOREM SpacedSamples == Spec => []SamplesSpaced
<1>1. IInv => SamplesSpaced
  BY DEF IInv
<1>. QED BY <1>1, InitIInv, NextIInv, PTL DEF Spec

-----------------------------------------------------------------------------
(* Poll latency.  While next() polls, every sleep so far has added at      *)
(* least `idle` ms to the time since `last`; so the sleeps of one call     *)
(* cannot outnumber MaxPolls.                                              *)
PInv ==
  /\ TypeOK
  /\ Idle > 0 => polls <= MaxPolls
  /\ pc = "polling" => clock - last >= polls * (Idle * SubMs)

(* With a positive idle, the bound MaxPolls is a positive number.          *)
LEMMA MaxPollsPositive == Idle > 0 => MaxPolls \in Nat \ {0}
<1> SUFFICES ASSUME Idle > 0 PROVE MaxPolls \in Nat \ {0}
  OBVIOUS
<1>1. Idle * time_scale \in Nat \ {0}
  BY TimeScalePositive, IdleType, Z3
<1>2. Interval \div (Idle * time_scale) \in Nat
  BY <1>1, IntervalType, Z3
<1>. QED BY <1>2 DEF MaxPolls

(* Truncating division by k keeps a lower bound that is a multiple of k.   *)
LEMMA DivLower ==
  ASSUME NEW e \in Nat, NEW m \in Nat, NEW k \in Nat \ {0}, e >= m * k
  PROVE  e \div k >= m
<1>1. e < k * (e \div k) + k
  BY Z3
<1>2. m * k < (e \div k + 1) * k
  BY <1>1, Z3
<1>. QED BY <1>2, Z3

(* A multiple of a that is at most I is at most I \div a times a.          *)
LEMMA DivUpper ==
  ASSUME NEW a \in Nat \ {0}, NEW p \in Nat, NEW n \in Int, a * p <= n
  PROVE  p <= n \div a
<1>1. n < a * (n \div a) + a
  BY Z3
<1>. QED BY <1>1, Z3

(* The arithmetic of one sleep: a poll that found at most `interval`       *)
(* scaled ms, after p sleeps of at least `idle` ms each, was not the last *)
(* one allowed.                                                            *)
LEMMA SleepArith ==
  ASSUME NEW e \in Nat, NEW p \in Nat, NEW i \in Nat \ {0}, NEW k \in Nat \ {0},
         NEW s \in Nat \ {0},
         e >= p * (i * k), s * (e \div k) <= Interval
  PROVE  p + 1 <= Interval \div (i * s) + 1
<1>1. e >= (p * i) * k
  BY Z3
<1>2. e \div k >= p * i
  BY <1>1, DivLower
<1>3. (i * s) * p <= Interval
  <2>1. s * (p * i) <= s * (e \div k)
    BY <1>2, Z3
  <2>. QED BY <2>1, IntervalType, Z3
<1>4. p <= Interval \div (i * s)
  BY <1>3, DivUpper, IntervalType
<1>. QED BY <1>4, <1>3, IntervalType, Z3

LEMMA InitPInv == Init => PInv
  BY StartReferenceType, MaxOvershootType, MaxPollsPositive DEF Init, PInv, TypeOK

LEMMA NextPInv == IInv /\ PInv /\ [Next]_vars => PInv'
<1> SUFFICES ASSUME IInv, PInv, [Next]_vars PROVE PInv'
  OBVIOUS
<1>0. TypeOK'
  BY NextIInv DEF IInv
<1> USE TimeScalePositive, SubMsType, IntervalType, IdleType DEF PInv, TypeOK
<1>1. CASE \E sec \in NtpSeconds : SyncNetworkTime(sec)
  BY <1>0, <1>1 DEF SyncNetworkTime
<1>2. CASE PullEnd
  BY <1>0, <1>2 DEF PullEnd
<1>3. CASE PullStart
  <2>1. polls' = 0 /\ pc' = "polling" /\ clock' = clock /\ last' = last
    BY <1>3 DEF PullStart
  <2>2. clock - last \in Nat
    BY DEF IInv
  <2>. QED BY <1>0, <2>1, <2>2, MaxPollsPositive, Z3
<1>4. CASE Emit
  BY <1>0, <1>4 DEF Emit
<1>5. CASE Sleep
  <2>1. PICK d \in (Idle * SubMs)..(Idle * SubMs + MaxOvershoot) :
          /\ clock' = clock + d /\ polls' = polls + 1
          /\ last' = last /\ pc' = pc /\ pc = "polling"
    BY <1>5 DEF Sleep
  <2>2. clock - last >= polls * (Idle * SubMs)
    BY <2>1
  <2>3. time_scale * ((clock - last) \div SubMs) <= Interval
    BY <1>5 DEF Sleep, ElapsedScale, Scaled, AsMillis
  <2>4. clock - last \in Nat
    BY DEF IInv
  <2>5. Idle > 0 => polls + 1 <= MaxPolls
    <3> SUFFICES ASSUME Idle > 0 PROVE polls + 1 <= MaxPolls
      OBVIOUS
    <3>1. Idle \in Nat \ {0} /\ polls \in Nat /\ time_scale \in Nat \ {0}
      OBVIOUS
    <3>2. polls + 1 <= Interval \div (Idle * time_scale) + 1
      BY <2>2, <2>3, <2>4, <3>1, SleepArith
    <3>. QED BY <3>2 DEF MaxPolls
  <2>6. clock' - last' >= polls' * (Idle * SubMs)
    BY <2>1, <2>2, <2>4, Z3
  <2>. QED BY <1>0, <2>1, <2>5, <2>6
<1>6. CASE Consume
  BY <1>0, <1>6 DEF Consume
<1>7. CASE Finished
  BY <1>0, <1>7 DEF Finished, vars
<1>8. CASE UNCHANGED vars
  BY <1>0, <1>8 DEF vars
<1>. QED BY <1>1, <1>2, <1>3, <1>4, <1>5, <1>6, <1>7, <1>8 DEF Next

(* Poll latency: with a positive idle, no call of next() sleeps more than *)
(* interval / (idle * time_scale) + 1 times before returning a sample.    *)
THEOREM PollLatency == Spec => []PollsBounded
<1>1. IInv /\ PInv => PollsBounded
  BY DEF PInv, PollsBounded
<1>2. Init => IInv /\ PInv
  BY InitIInv, InitPInv
<1>3. IInv /\ PInv /\ [Next]_vars => IInv' /\ PInv'
  BY NextIInv, NextPInv
<1>. QED BY <1>1, <1>2, <1>3, PTL DEF Spec

-----------------------------------------------------------------------------
(* Sample count.  A bounded probe enters its polling loop only with a      *)
(* sample left, so the loop's emission never takes sampled past the bound; *)
(* the early return happens only once all samples were taken.  With       *)
(* Len(snaps) = sampled from IInv this gives ExactlyMaxSamples.            *)
CountInv ==
  Samples > 0 =>
    /\ sampled <= Samples
    /\ pc = "polling" => sampled < Samples
    /\ pc = "ended" => sampled >= Samples

LEMMA InitCountInv == Init => CountInv
  BY SamplesType DEF Init, CountInv

LEMMA NextCountInv == IInv /\ CountInv /\ [Next]_vars => CountInv'
<1> SUFFICES ASSUME IInv, CountInv, [Next]_vars, Samples > 0 PROVE CountInv'
  BY DEF CountInv
<1> USE SamplesType DEF CountInv, IInv, TypeOK
<1>1. CASE \E sec \in NtpSeconds : SyncNetworkTime(sec)
  BY <1>1 DEF SyncNetworkTime
<1>2. CASE PullEnd
  BY <1>2 DEF PullEnd, Exhausted
<1>3. CASE PullStart
  BY <1>3 DEF PullStart, Exhausted
<1>4. CASE Emit
  BY <1>4 DEF Emit
<1>5. CASE Sleep \/ Consume
  BY <1>5 DEF Sleep, Consume
<1>6. CASE Finished \/ UNCHANGED vars
  BY <1>6 DEF Finished, vars
<1>. QED BY <1>1, <1>2, <1>3, <1>4, <1>5, <1>6 DEF Next

(* A probe built with max_samples = N > 0 yields at most N snapshots, and  *)
(* exactly N by the time next() returns None (spec section 8).  For N = 0 *)
(* the code's `samples > 0` test makes the probe unbounded, and the       *)
(* property fails (see the hazard at time_probe.rs:81); for N < 0 it says *)
(* nothing.                                                                *)
THEOREM SampleCount == Samples # 0 => (Spec => []ExactlyMaxSamples)
<1> SUFFICES ASSUME Samples # 0 PROVE Spec => []ExactlyMaxSamples
  OBVIOUS
<1>1. IInv /\ CountInv => ExactlyMaxSamples
  BY SamplesType DEF IInv, CountInv, ExactlyMaxSamples
<1>2. Init => IInv /\ CountInv
  BY InitIInv, InitCountInv
<1>3. IInv /\ CountInv /\ [Next]_vars => IInv' /\ CountInv'
  BY NextIInv, NextCountInv
<1>. QED BY <1>1, <1>2, <1>3, PTL DEF Spec


-----------------------------------------------------------------------------
(* File naming.  Every snapshot returned so far carries the current       *)
(* reference: as_snapshot stamps it with reference + elapsed, and          *)
(* sync_network_time, the only step that moves the reference, runs before *)
(* the first sample.  With SamplesSpaced this spaces the timestamps.       *)
StampInv ==
  \A i \in 1..Len(snaps) : snaps[i].timestamp = reference + snaps[i].elapsed

LEMMA InitStampInv == Init => StampInv
  BY DEF Init, StampInv

LEMMA NextStampInv == IInv /\ StampInv /\ [Next]_vars => StampInv'
<1> SUFFICES ASSUME IInv, StampInv, [Next]_vars PROVE StampInv'
  OBVIOUS
<1> USE DEF IInv, TypeOK
<1>1. CASE \E sec \in NtpSeconds : SyncNetworkTime(sec)
  <2>1. snaps' = snaps /\ Len(snaps) = 0
    BY <1>1 DEF SyncNetworkTime
  <2>. QED BY <2>1 DEF StampInv
<1>2. CASE Emit
  <2> DEFINE new == AsSnapshot(Scaled(AsMillis(clock - moment)))
  <2>1. snaps' = Append(snaps, new) /\ reference' = reference
    BY <1>2 DEF Emit
  <2>2. new.timestamp = reference + new.elapsed
    BY DEF AsSnapshot
  <2>3. /\ Len(snaps') = Len(snaps) + 1
        /\ snaps'[Len(snaps')] = new
        /\ \A i \in 1..Len(snaps) : snaps'[i] = snaps[i]
    BY <2>1, AppendProperties
  <2>. QED BY <2>1, <2>2, <2>3 DEF StampInv
<1>3. CASE PullEnd \/ PullStart \/ Sleep \/ Consume \/ Finished \/ UNCHANGED vars
  BY <1>3 DEF PullEnd, PullStart, Sleep, Consume, Finished, vars, StampInv
<1>. QED BY <1>1, <1>2, <1>3 DEF Next

(* The step that StampsAdvance constrains.                                 *)
StampStep ==
  snaps' # snaps =>
    /\ Len(snaps') = Len(snaps) + 1
    /\ SubSeq(snaps', 1, Len(snaps)) = snaps
    /\ Len(snaps) > 0 =>
         snaps'[Len(snaps')].timestamp - snaps[Len(snaps)].timestamp > Interval

(* Only Emit changes the snapshots, and it appends one.                   *)
LEMMA OnlyEmitAppends ==
  ASSUME IInv, [Next]_vars, snaps' # snaps
  PROVE  /\ Emit
         /\ snaps' = Append(snaps, AsSnapshot(Scaled(AsMillis(clock - moment))))
<1>1. Emit
  BY DEF Next, SyncNetworkTime, PullEnd, PullStart, Sleep, Consume, Finished, vars
<1>. QED BY <1>1 DEF Emit

LEMMA StepStamps == IInv /\ StampInv /\ [Next]_vars => [StampStep]_vars
<1> SUFFICES ASSUME IInv, StampInv, [Next]_vars, snaps' # snaps
             PROVE  StampStep
  BY DEF StampStep
<1>0. PICK n \in Nat : n = Len(snaps)
  BY LenProperties DEF IInv, TypeOK
<1>1. snaps' = Append(snaps, AsSnapshot(Scaled(AsMillis(clock - moment))))
      /\ Emit
  BY OnlyEmitAppends
<1>2. IInv' /\ StampInv'
  BY NextIInv, NextStampInv
<1>3. /\ snaps \in Seq([timestamp : Nat, elapsed : Nat])
      /\ n \in Nat
      /\ Len(snaps') = n + 1
      /\ \A i \in 1..n : snaps'[i] = snaps[i]
      /\ snaps' \in Seq([timestamp : Nat, elapsed : Nat])
  BY <1>0, <1>2, <1>1, AppendProperties DEF IInv, TypeOK
<1>4. SubSeq(snaps', 1, n) = snaps
  <2>1. /\ SubSeq(snaps', 1, n) \in Seq([timestamp : Nat, elapsed : Nat])
        /\ Len(SubSeq(snaps', 1, n)) = n
        /\ \A i \in 1..n : SubSeq(snaps', 1, n)[i] = snaps'[i]
    <3>1. \A i \in 1..n : snaps'[i] \in [timestamp : Nat, elapsed : Nat]
      <4> SUFFICES ASSUME NEW i \in 1..n
                   PROVE  snaps'[i] \in [timestamp : Nat, elapsed : Nat]
        OBVIOUS
      <4>1. i \in 1..Len(snaps')
        BY <1>0, <1>3
      <4>. QED BY <1>3, <4>1, ElementOfSeq
    <3>. QED BY <1>3, <3>1, SubSeqProperties
  <2>. QED BY <1>0, <1>3, <2>1, SeqEqual
<1>5. ASSUME n > 0
      PROVE  snaps'[n + 1].timestamp - snaps[n].timestamp > Interval
  <2>0. SamplesSpaced'
    BY <1>2 DEF IInv
  <2>1. snaps'[n + 1].elapsed - PrevElapsed(n + 1)' > Interval
    BY <2>0, <1>0, <1>3 DEF SamplesSpaced
  <2>2. PrevElapsed(n + 1)' = snaps[n].elapsed
    BY <1>0, <1>3, <1>5 DEF PrevElapsed
  <2>3. /\ snaps'[n + 1].timestamp = reference' + snaps'[n + 1].elapsed
        /\ snaps[n].timestamp = reference + snaps[n].elapsed
        /\ reference' = reference
    BY <1>0, <1>1, <1>2, <1>3, <1>5 DEF StampInv, Emit
  <2>4. /\ snaps'[n + 1].elapsed \in Nat /\ snaps[n].elapsed \in Nat
        /\ reference \in Nat
    <3>1. n + 1 \in 1..Len(snaps') /\ n \in 1..Len(snaps)
      BY <1>0, <1>3, <1>5
    <3>2. snaps'[n + 1] \in [timestamp : Nat, elapsed : Nat]
          /\ snaps[n] \in [timestamp : Nat, elapsed : Nat]
      BY <1>3, <3>1, ElementOfSeq
    <3>. QED BY <3>2 DEF IInv, TypeOK
  <2>. QED BY <2>1, <2>2, <2>3, <2>4
<1>. QED BY <1>3, <1>4, <1>5 DEF StampStep

(* File naming (StampsAdvance): next() never rewrites a snapshot it has   *)
(* returned, and stamps each new one more than `interval` ms after the    *)
(* previous, for every value of the constants, in the exact arithmetic    *)
(* Scheduler gives since_spawn_scale.  The code's f32 cast agrees with it *)
(* while the scaled elapsed time is below 2^24 ms (about 4.6 hours at      *)
(* time_scale 1); so far ImageLogger::save gives every frame a file name   *)
(* of its own.  Past it, F32Elapsed shows two stamps colliding.            *)
THEOREM StampedInOrder == Spec => StampsAdvance
<1>1. Init => IInv /\ StampInv
  BY InitIInv, InitStampInv
<1>2. IInv /\ StampInv /\ [Next]_vars => IInv' /\ StampInv'
  BY NextIInv, NextStampInv
<1>3. IInv /\ StampInv /\ [Next]_vars => [StampStep]_vars
  BY StepStamps
<1>. QED BY <1>1, <1>2, <1>3, PTL DEF Spec, StampsAdvance, StampStep

=============================================================================
