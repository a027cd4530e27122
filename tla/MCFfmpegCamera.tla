--------------------------- MODULE MCFfmpegCamera ---------------------------
(* Model-checking instance of FfmpegCamera: the counters of leaked         *)
(* SwsContexts and packet payloads grow with every frame, so they are      *)
(* bounded here.                                                           *)
EXTENDS FfmpegCamera

(* Three picture shapes: 4x3, its transpose 3x4 with the same byte count, *)
(* and 2x2 with another.                                                   *)
CONSTANTS g4x3, g3x4, g2x2

MCGeometries == {g4x3, g3x4, g2x2}

(* w * h * 3 bytes of RGB24 for each shape.                                *)
MCBufferSize == [g \in MCGeometries |-> IF g = g2x2 THEN 12 ELSE 36]

MaxSws == 3
MaxLost == 2

(* The sessions explored: at most MaxSws conversions and MaxLost lost      *)
(* payloads.                                                               *)
LeakBound == sws <= MaxSws /\ lost <= MaxLost

=============================================================================
