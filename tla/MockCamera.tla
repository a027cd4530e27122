----------------------------- MODULE MockCamera -----------------------------
(***************************************************************************)
(* The replay backend: MockCamera of src/src/hardware/mock_camera.rs as   *)
(* CameraFactory::create_camera (src/src/hardware.rs) hands it out.        *)
(*                                                                         *)
(* A folder is a directory: a function from entry names (ordered like    *)
(* the OsStrings sort_by_key compares) to the kind of entry, an "image"   *)
(* that decodes or an "other" entry (a non-image file or a sub-directory) *)
(* on which ImageReader fails.  ResourceFolder::enumerate_files lists it, *)
(* in whatever order read_dir yields, and sorts the listing by name.       *)
(* Frame pixels are identified by the index of the listing entry they     *)
(* were decoded from.                                                      *)
(*                                                                         *)
(* The client is any holder of the Box<dyn CameraLike>: after the factory *)
(* it may call next() and shutdown() in any order, as the trait allows.   *)
(***************************************************************************)
EXTENDS Integers, Sequences, FiniteSets

CONSTANTS
  Folders   \* the directories use_mock_folder may name

Kinds == {"image", "other"}

(* A folder holds finitely many entries, which read_dir lists.             *)
ASSUME FoldersType ==
  \A f \in Folders : /\ DOMAIN f \subseteq Nat \ {0}
                    /\ IsFiniteSet(DOMAIN f)
                    /\ \A n \in DOMAIN f : f[n] \in Kinds

(* Mutant: the listing in the reverse of name order, one order read_dir   *)
(* may yield, with the sort left out.                                      *)
EnumerateFilesUnsorted(dir) ==
  [i \in 1..Cardinality(DOMAIN dir) |->
     LET n == CHOOSE x \in DOMAIN dir :
                Cardinality({y \in DOMAIN dir : y > x}) = i - 1
     IN  [name |-> n, kind |-> dir[n]]]

(* ResourceFolder::enumerate_files: every entry of the directory, sorted  *)
(* by file name; the i-th entry is the one with i - 1 names below it.      *)
EnumerateFiles(dir) ==
  [i \in 1..Cardinality(DOMAIN dir) |->
     LET n == CHOOSE x \in DOMAIN dir :
                Cardinality({y \in DOMAIN dir : y < x}) = i - 1
     IN  [name |-> n, kind |-> dir[n]]]

Entry == [name : Nat, kind : Kinds]

(* Values a flag key may hold ("absent": no such key), with what          *)
(* to_lowercase makes of each.                                              *)
FlagLower ==
  [v \in {"absent", "1", "Yes", "TRUE", "no"} |->
     CASE v = "Yes" -> "yes" [] v = "TRUE" -> "true" [] OTHER -> v]

(* ConfigMap::flag: false without the key, else whether the lowercased    *)
(* value is "1", "yes" or "true".                                          *)
Flag(v) == v # "absent" /\ FlagLower[v] \in {"1", "yes", "true"}

(* The configurations initialize() may see: no use_mock_folder key, a     *)
(* path that does not exist, one that exists but read_dir cannot open     *)
(* (not a directory, no permission), or an existing folder with a value   *)
(* of the use_mock_repeat_frames key.                                      *)
Settings ==
  {[key |-> k, dir |-> CHOOSE f \in Folders : TRUE, repeat |-> "absent"] :
      k \in {"absent", "missing", "unreadable"}}
  \cup [key : {"present"}, dir : Folders, repeat : DOMAIN FlagLower]

(* ResourceFolder::require_existing: Ok exactly when the path exists.      *)
RequireExisting(s) == s.key # "missing"

(* fs::read_dir in enumerate_files opens the path.                         *)
ReadDirOk(s) == s.key # "unreadable"

VARIABLES
  status,   \* "new", "ready", "failed" (factory returned Err), "closed", "panicked"
  offset,   \* self.offset (isize)
  repeat,   \* self.repeat
  frames,   \* self.frames: the listing
  active,   \* entry whose pixels self.active holds, -1 for None
  log       \* history: the outcome of every next() call, in order

vars == <<status, offset, repeat, frames, active, log>>

-----------------------------------------------------------------------------
(* MockCamera::new, through Default.                                       *)
Init ==
  /\ status = "new"
  /\ offset = -1
  /\ repeat = FALSE
  /\ frames = <<>>
  /\ active = -1
  /\ log = <<>>

(* CameraFactory::create_camera calls initialize(config).  Without        *)
(* use_mock_folder it succeeds and changes nothing; a folder that          *)
(* require_existing or enumerate_files rejects is an error, after which    *)
(* the factory drops the camera; otherwise the sorted listing is taken.   *)
Initialize(s) ==
  /\ status = "new"
  /\ CASE s.key = "absent" -> status' = "ready" /\ UNCHANGED <<offset, repeat, frames>>
       [] ~RequireExisting(s) \/ ~ReadDirOk(s) ->
                              status' = "failed" /\ UNCHANGED <<offset, repeat, frames>>
       [] OTHER ->            /\ status' = "ready"
                              /\ frames' = EnumerateFiles(s.dir)
                              /\ repeat' = Flag(s.repeat)
                              /\ offset' = -1
  /\ UNCHANGED <<active, log>>

(* Mutant: a repeating listing wraps to index 1.                            *)
NextOffsetWrapToOne ==
  IF offset + 1 >= Len(frames) /\ repeat THEN 1 ELSE offset + 1

(* The index next() moves to: one past the current one, back to 0 past    *)
(* the end of a repeating listing.                                          *)
NextOffset ==
  IF offset + 1 >= Len(frames) /\ repeat THEN 0 ELSE offset + 1

(* next() past the end of a listing that does not repeat.                  *)
NextExhausted ==
  /\ status \in {"ready", "closed"}
  /\ offset + 1 >= Len(frames)
  /\ ~repeat
  /\ offset' = offset + 1
  /\ log' = Append(log, [kind |-> "exhausted", name |-> 0])
  /\ UNCHANGED <<status, repeat, frames, active>>

(* next() indexes self.frames at the new offset; on an empty repeating     *)
(* listing the index is out of bounds and the thread panics.               *)
NextOutOfBounds ==
  /\ status \in {"ready", "closed"}
  /\ ~(offset + 1 >= Len(frames) /\ ~repeat)
  /\ NextOffset >= Len(frames)
  /\ status' = "panicked"
  /\ offset' = NextOffset
  /\ UNCHANGED <<repeat, frames, active, log>>

(* Mutant: self.active records the 1-based position of the entry.          *)
NextReadOneBased ==
  /\ status \in {"ready", "closed"}
  /\ ~(offset + 1 >= Len(frames) /\ ~repeat)
  /\ NextOffset < Len(frames)
  /\ offset' = NextOffset
  /\ IF frames[NextOffset + 1].kind = "image"
       THEN /\ active' = NextOffset + 1
            /\ log' = Append(log, [kind |-> "frame", name |-> frames[NextOffset + 1].name])
       ELSE /\ log' = Append(log, [kind |-> "error", name |-> frames[NextOffset + 1].name])
            /\ UNCHANGED active
  /\ UNCHANGED <<status, repeat, frames>>

(* next() reads the entry at the new offset: read_frame decodes an image  *)
(* into self.active and returns the frame borrowing it, and fails on any   *)
(* other entry, leaving self.active as it was.                             *)
NextRead ==
  /\ status \in {"ready", "closed"}
  /\ ~(offset + 1 >= Len(frames) /\ ~repeat)
  /\ NextOffset < Len(frames)
  /\ offset' = NextOffset
  /\ IF frames[NextOffset + 1].kind = "image"
       THEN /\ active' = NextOffset
            /\ log' = Append(log, [kind |-> "frame", name |-> frames[NextOffset + 1].name])
       ELSE /\ log' = Append(log, [kind |-> "error", name |-> frames[NextOffset + 1].name])
            /\ UNCHANGED active
  /\ UNCHANGED <<status, repeat, frames>>

(* shutdown() returns Ok and releases nothing.                             *)
Shutdown ==
  /\ status \in {"ready", "closed"}
  /\ status' = "closed"
  /\ UNCHANGED <<offset, repeat, frames, active, log>>

(* The factory's error dropped the camera, or the thread panicked.         *)
Gone ==
  /\ status \in {"failed", "panicked"}
  /\ UNCHANGED vars

Next ==
  \/ \E s \in Settings : Initialize(s)
  \/ NextExhausted
  \/ NextOutOfBounds
  \/ NextRead
  \/ Shutdown
  \/ Gone

Spec == Init /\ [][Next]_vars

-----------------------------------------------------------------------------
TypeOK ==
  /\ status \in {"new", "ready", "failed", "closed", "panicked"}
  /\ offset \in Int
  /\ repeat \in BOOLEAN
  /\ frames \in Seq(Entry)
  /\ active \in -1..(Len(frames) - 1)
  /\ log \in Seq([kind : {"frame", "error", "exhausted"}, name : Nat])

(* The entry the k-th next() call should serve: the listing in order,      *)
(* cycling when it repeats.                                                *)
ExpectedEntry(k) == IF repeat THEN (k - 1) % Len(frames) ELSE k - 1

(* Replay order (spec section 8): the k-th next() serves the entry whose  *)
(* name is the (ExpectedEntry(k) + 1)-th smallest of the folder, wrapping *)
(* to the first name when the listing repeats, a frame exactly when that  *)
(* entry decodes, and without repeat fails with DeviceNoLongerAvailable   *)
(* on every call once the listing is exhausted.                            *)
ReplayOrder ==
  \A k \in 1..Len(log) :
    IF repeat \/ k <= Len(frames)
      THEN /\ Cardinality({j \in 1..Len(frames) : frames[j].name < log[k].name})
                = ExpectedEntry(k)
           /\ \E j \in 1..Len(frames) :
                /\ frames[j].name = log[k].name
                /\ (log[k].kind = "frame") = (frames[j].kind = "image")
      ELSE log[k].kind = "exhausted"

(* next() never panics: every way the replay source can run dry is        *)
(* reported as an error (spec section 7).                                  *)
NoPanic == status # "panicked"

=============================================================================
