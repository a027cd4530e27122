---------------------------- MODULE MCMockCamera ----------------------------
(***************************************************************************)
(* Small instances of MockCamera for TLC.                                  *)
(***************************************************************************)
EXTENDS MockCamera

(* Bound on the number of next() calls a client makes.                     *)
MaxCalls == 7

CallBound == Len(log) <= MaxCalls

(* Directories with an entry that does not decode, names that are not   *)
(* contiguous, and a longer clean one.                                      *)
MCFolders ==
  { [n \in {2, 5} |-> IF n = 2 THEN "image" ELSE "other"],
    [n \in {1, 3, 4} |-> IF n = 1 THEN "other" ELSE "image"],
    [n \in {1, 2, 3} |-> "image"] }

(* The same with an empty folder.                                          *)
MCFoldersWithEmpty == MCFolders \cup {[n \in {} |-> "image"]}

=============================================================================
