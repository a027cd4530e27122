--------------------------- MODULE MCRunController ---------------------------
(***************************************************************************)
(* Small instances of RunController for TLC.                               *)
(***************************************************************************)
EXTENDS RunController

(* Bound on the samples saved while the lock file exists; once it is      *)
(* deleted the loop saves at most one more (CancellationLatency).          *)
MaxSaves == 4

SaveBound == saved <= MaxSaves \/ ~locked

=============================================================================
