----------------------------- MODULE MCScheduler -----------------------------
(***************************************************************************)
(* Small instances of Scheduler for TLC.  Times are scaled down: an        *)
(* interval of a few ms with an idle of 1 ms keeps the interval/idle ratio *)
(* of the tests (500/100, 1000/100) while the clock stays small.           *)
(***************************************************************************)
EXTENDS Scheduler

(* Bound on the clock, for the runs with an unbounded probe.               *)
MaxClock == 40 * SubMs

ClockBound == clock <= MaxClock

=============================================================================
