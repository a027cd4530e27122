---------------------------- MODULE MCF32Elapsed ----------------------------
(***************************************************************************)
(* F32Elapsed at a 3-bit significand: a unit in the last place reaches    *)
(* the interval at a span of a few dozen ms, where f32 reaches 1000 ms at *)
(* 2^33 ms (about 99 days).                                                *)
(***************************************************************************)
EXTENDS F32Elapsed

(* Bound on the span since the probe started.                             *)
MaxSpan == 48

SpanBound == span <= MaxSpan

=============================================================================
