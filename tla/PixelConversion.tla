-------------------------- MODULE PixelConversion --------------------------
(***************************************************************************)
(* Encoding::frame_from_slice of src/src/encoding.rs: wraps a byte slice  *)
(* as an RGB ImageBuffer of a declared width and height.  The same code   *)
(* is helpers::as_rgb_image in both capture crates, which answers None    *)
(* where frame_from_slice answers an error.                                *)
(*                                                                         *)
(* width, height and the size products are u32 (Bits wide); bytes.len()  *)
(* is usize and is cast to u32 when the width is recomputed.  A u32       *)
(* multiplication that overflows panics in a debug build and wraps in a   *)
(* release build; Builds says which builds are considered.                *)
(* ImageBuffer::from_raw (image crate) returns None unless the buffer     *)
(* holds at least width * height * 3 bytes, computed without overflow.    *)
(*                                                                         *)
(* The module is a harness: each initial state is one call and its       *)
(* result.                                                                 *)
(***************************************************************************)
EXTENDS Integers

CONSTANTS
  Bits,     \* width of the u32 arithmetic (32 in the code)
  MaxDim,   \* largest width and height tried
  MaxLen,   \* largest buffer length tried
  Builds    \* subset of {"debug", "release"}

ASSUME BitsType == Bits \in Nat \ {0}
ASSUME MaxDimType == MaxDim \in Nat
ASSUME MaxLenType == MaxLen \in Nat
ASSUME BuildsType == Builds \subseteq {"debug", "release"} /\ Builds # {}

Word == 2^Bits

(* u32 arithmetic: the wrapped value, and whether a*b*3 overflows.         *)
Wrap(x) == x % Word
Size3Overflows(a, b) == a * b >= Word \/ Wrap(a * b) * 3 >= Word

(* The bytes a width x height RGB image needs, as u32 code computes it.    *)
U32Size(a, b) == Wrap(a * b * 3)

Outcomes == {"ok", "invalid_length", "invalid_data", "panic"}

Result(o, x, y) == [outcome |-> o, dx |-> x, dy |-> y]

(* Mutant: ImageBuffer::from_raw trusted to accept any length check.      *)
CheckAndWrapNoFit(len, dx, dy, build) ==
  IF build = "debug" /\ Size3Overflows(dx, dy) THEN Result("panic", dx, dy)
  ELSE IF len # U32Size(dx, dy) THEN Result("invalid_length", dx, dy)
  ELSE Result("ok", dx, dy)

(* Step 2 of frame_from_slice: the length check against the (possibly     *)
(* recomputed) geometry, then ImageBuffer::from_raw.                       *)
CheckAndWrap(len, dx, dy, build) ==
  IF build = "debug" /\ Size3Overflows(dx, dy) THEN Result("panic", dx, dy)
  ELSE IF len # U32Size(dx, dy) THEN Result("invalid_length", dx, dy)
  ELSE IF len < dx * dy * 3 THEN Result("invalid_data", dx, dy)
  ELSE Result("ok", dx, dy)

(* frame_from_slice(bytes, width, height): when the length does not match *)
(* width * height * 3 the width is recomputed from the length, keeping the *)
(* height.                                                                 *)
FrameFromSlice(len, width, height, build) ==
  IF build = "debug" /\ Size3Overflows(width, height)
    THEN Result("panic", width, height)
  ELSE IF len = U32Size(width, height)
    THEN CheckAndWrap(len, width, height, build)
  ELSE IF height = 0
    THEN Result("panic", 0, height)
  ELSE CheckAndWrap(len, (Wrap(len) \div height) \div 3, height, build)

(* helpers::as_rgb_image(bytes, width, height) of rust-ffmpeg-capture:   *)
(* the same geometry recomputation and checks, with None for both errors. *)
AsRgbImage(len, width, height, build) ==
  LET r == FrameFromSlice(len, width, height, build)
  IN  IF r.outcome \in {"invalid_length", "invalid_data"}
        THEN Result("none", r.dx, r.dy)
        ELSE r

-----------------------------------------------------------------------------
VARIABLES
  input,   \* [len, width, height, build] of the current call
  result,  \* what frame_from_slice returned for it
  rgb      \* what as_rgb_image returned for it

vars == <<input, result, rgb>>

Inputs == [len : 0..MaxLen, width : 0..MaxDim, height : 0..MaxDim, build : Builds]

Init ==
  \E i \in Inputs :
    /\ input = i
    /\ result = FrameFromSlice(i.len, i.width, i.height, i.build)
    /\ rgb = AsRgbImage(i.len, i.width, i.height, i.build)

(* Every initial state is one call; nothing happens after it.              *)
Done == UNCHANGED vars

Next == Done

Spec == Init /\ [][Next]_vars

-----------------------------------------------------------------------------
TypeOK ==
  /\ input \in Inputs
  /\ result \in [outcome : Outcomes, dx : Nat, dy : Nat]
  /\ rgb \in [outcome : {"ok", "none", "panic"}, dx : Nat, dy : Nat]

(* A frame handed on to persistence covers its buffer exactly: the        *)
(* geometry frame_from_slice or as_rgb_image returns needs exactly the    *)
(* bytes of the slice, with no u32 wrap-around hiding a shortfall (spec   *)
(* section 6).                                                             *)
FrameCoversBuffer ==
  \A r \in {result, rgb} : r.outcome = "ok" => input.len = r.dx * r.dy * 3

(* Pixel conversion rejects every buffer whose length is not              *)
(* width * height * 3, and a frame it returns has the declared geometry    *)
(* (spec section 8).                                                       *)
RejectsMismatch ==
  result.outcome = "ok" =>
    /\ input.len = input.width * input.height * 3
    /\ result.dx = input.width
    /\ result.dy = input.height

=============================================================================
