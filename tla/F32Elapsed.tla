----------------------------- MODULE F32Elapsed -----------------------------
(***************************************************************************)
(* The elapsed time TimeProbe::next (src/src/resources/time_probe.rs)     *)
(* reports, with the f32 arithmetic of the code:                           *)
(*                                                                         *)
(*   since_spawn_scale = (since_spawn_real as f32 * time_scale).floor()   *)
(*                                                                         *)
(* `as f32` and the f32 product round to nearest, ties to even, keeping   *)
(* Precision significant bits (24 for f32).  The model takes a small      *)
(* Precision so that rounding shows up at small spans; the decision to    *)
(* emit uses the span since the previous sample, which is far below       *)
(* 2^Precision ms and exact, so consecutive samples are more than         *)
(* `interval` scaled ms apart in real time.  Scheduler checks that        *)
(* polling loop; here each step is one emitted sample.                     *)
(***************************************************************************)
EXTENDS Integers, Sequences

CONSTANTS
  Precision,  \* significant bits of the float type, positive
  Interval,   \* config.interval (ms), a natural
  TimeScale,  \* config.time_scale, a positive integer
  MaxGap      \* most real ms between two samples, a natural

VARIABLES
  span,    \* (now - self.moment).as_millis() at the last sample
  snaps    \* history: the elapsed value of every snapshot returned

vars == <<span, snaps>>

-----------------------------------------------------------------------------
(* The exponent of the unit in the last place of the float nearest to x:  *)
(* the least k with x \div 2^k < 2^Precision.                              *)
UlpExp(x) ==
  CHOOSE k \in 0..x : /\ x \div 2^k < 2^Precision
                      /\ (k = 0 \/ x \div 2^(k - 1) >= 2^Precision)

(* A natural number converted to the float type: round to nearest, ties   *)
(* to an even significand.                                                 *)
ToFloat(x) ==
  LET u == 2^UlpExp(x)
      q == x \div u
      r == x % u
  IN  IF 2 * r < u \/ (2 * r = u /\ q % 2 = 0) THEN q * u ELSE (q + 1) * u

(* since_spawn_scale: the product is rounded again, floor and the cast   *)
(* back to u128 keep the integral value.                                   *)
ElapsedOf(ms) == ToFloat(ToFloat(ms) * TimeScale)

(* Real spans between two samples that pass the emission test             *)
(* elapsed_scale > interval, with elapsed_scale exact.                      *)
Gaps == {d \in 1..MaxGap : d * TimeScale > Interval}

-----------------------------------------------------------------------------
Init ==
  /\ span = 0
  /\ snaps = <<>>

(* A poll finds the interval passed: the snapshot reports the rounded     *)
(* scaled span since the probe started.                                    *)
Emit ==
  \E d \in Gaps :
    /\ span' = span + d
    /\ snaps' = Append(snaps, ElapsedOf(span + d))

Next == Emit

Spec == Init /\ [][Next]_vars

-----------------------------------------------------------------------------
(* Spec section 8: the snapshots' elapsed values are strictly increasing, *)
(* so ImageLogger::save, which names each file after the timestamp,       *)
(* writes every frame to a file of its own.                                *)
ElapsedIncreasing ==
  \A k \in 2..Len(snaps) : snaps[k - 1] < snaps[k]

=============================================================================
