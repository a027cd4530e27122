----------------------- MODULE PixelConversionProofs -----------------------
(***************************************************************************)
(* Proof that frame_from_slice and as_rgb_image never return an image     *)
(* whose geometry needs other than exactly the bytes of the slice, for    *)
(* every word width, dimension and length, in debug and release builds.  *)
(*                                                                         *)
(* The argument: an accepted slice passed both the u32 length check       *)
(* len = (dx * dy * 3) mod 2^Bits and ImageBuffer::from_raw's check       *)
(* len >= dx * dy * 3.  A residue is at most the number it is taken of,   *)
(* so the two together leave len = dx * dy * 3: from_raw's check is what  *)
(* catches a wrapped product.                                              *)
(***************************************************************************)
EXTENDS PixelConversion, FiniteSets, FiniteSetTheorems, TLAPS

(* The word modulus is a positive number: 2^Bits counts the subsets of    *)
(* 1..Bits, a finite set that has the empty set among its members.         *)
LEMMA WordPositive == Word \in Nat \ {0}
<1>0. /\ IsFiniteSet(1..Bits)
      /\ Cardinality(1..Bits) = Bits
  BY FS_Interval, BitsType
<1>1. /\ IsFiniteSet(SUBSET (1..Bits))
      /\ Cardinality(SUBSET (1..Bits)) = 2^Cardinality(1..Bits)
  BY <1>0, FS_SUBSET, Zenon
<1>2. Cardinality(1..Bits) = Bits
  BY <1>0
<1>3. Cardinality(SUBSET (1..Bits)) \in Nat \ {0}
  <2>1. {} \in SUBSET (1..Bits)  OBVIOUS
  <2>. QED  BY <1>1, <2>1, FS_EmptySet, FS_CardinalityType
<1>. QED  BY <1>1, <1>2, <1>3 DEF Word

(* A residue modulo a positive number is at most the number itself.       *)
LEMMA ModAtMost ==
  ASSUME NEW x \in Nat, NEW m \in Nat \ {0}
  PROVE  x % m <= x
  BY Z3

(* CheckAndWrap accepts only a length equal to dx * dy * 3, and returns   *)
(* the geometry it was given.                                              *)
LEMMA CheckAndWrapOk ==
  ASSUME NEW len \in Nat, NEW dx \in Nat, NEW dy \in Nat, NEW build,
         CheckAndWrap(len, dx, dy, build).outcome = "ok"
  PROVE  /\ len = dx * dy * 3
         /\ CheckAndWrap(len, dx, dy, build).dx = dx
         /\ CheckAndWrap(len, dx, dy, build).dy = dy
<1>1. /\ len = (dx * dy * 3) % Word
      /\ ~(len < dx * dy * 3)
      /\ CheckAndWrap(len, dx, dy, build) = Result("ok", dx, dy)
  BY DEF CheckAndWrap, Result, U32Size, Wrap
<1>2. len <= dx * dy * 3
  <2>1. dx * dy * 3 \in Nat
    OBVIOUS
  <2>. QED BY <1>1, <2>1, WordPositive, ModAtMost
<1>. QED BY <1>1, <1>2 DEF Result

(* What frame_from_slice accepts covers its buffer exactly.               *)
LEMMA FrameFromSliceOk ==
  ASSUME NEW len \in Nat, NEW width \in Nat, NEW height \in Nat, NEW build,
         FrameFromSlice(len, width, height, build).outcome = "ok"
  PROVE  LET r == FrameFromSlice(len, width, height, build)
         IN  len = r.dx * r.dy * 3
<1> DEFINE r == FrameFromSlice(len, width, height, build)
<1>1. CASE build = "debug" /\ Size3Overflows(width, height)
  BY <1>1 DEF FrameFromSlice, Result
<1>2. CASE ~(build = "debug" /\ Size3Overflows(width, height))
           /\ len = U32Size(width, height)
  <2>1. r = CheckAndWrap(len, width, height, build)
    BY <1>2 DEF FrameFromSlice
  <2>. QED BY <2>1, CheckAndWrapOk
<1>3. CASE ~(build = "debug" /\ Size3Overflows(width, height))
           /\ len # U32Size(width, height) /\ height = 0
  BY <1>3 DEF FrameFromSlice, Result
<1>4. CASE ~(build = "debug" /\ Size3Overflows(width, height))
           /\ len # U32Size(width, height) /\ height # 0
  <2> DEFINE dx == (Wrap(len) \div height) \div 3
  <2>1. r = CheckAndWrap(len, dx, height, build)
    BY <1>4 DEF FrameFromSlice
  <2>2. dx \in Nat
    BY <1>4, WordPositive, Z3 DEF Wrap
  <2>. QED BY <2>1, <2>2, CheckAndWrapOk
<1>. QED BY <1>1, <1>2, <1>3, <1>4

(* The harness invariant: the state is one call and its results.          *)
CallInv ==
  /\ input \in Inputs
  /\ result = FrameFromSlice(input.len, input.width, input.height, input.build)
  /\ rgb = AsRgbImage(input.len, input.width, input.height, input.build)

LEMMA InitCallInv == Init => CallInv
  BY DEF Init, CallInv

LEMMA NextCallInv == CallInv /\ [Next]_vars => CallInv'
  BY DEF CallInv, Next, Done, vars

(* An image frame_from_slice or as_rgb_image returns needs exactly the    *)
(* bytes of the slice: no u32 wrap-around of width * height * 3 lets a    *)
(* short buffer through, in a debug or a release build.                    *)
THEOREM CoversBuffer == Spec => []FrameCoversBuffer
<1>1. CallInv => FrameCoversBuffer
  <2> SUFFICES ASSUME CallInv PROVE FrameCoversBuffer
    OBVIOUS
  <2>1. input.len \in Nat /\ input.width \in Nat /\ input.height \in Nat
    BY DEF CallInv, Inputs
  <2>2. result.outcome = "ok" => input.len = result.dx * result.dy * 3
    BY <2>1, FrameFromSliceOk DEF CallInv
  <2>3. rgb.outcome = "ok" => input.len = rgb.dx * rgb.dy * 3
    <3>1. rgb.outcome = "ok" => rgb = result
      BY DEF CallInv, AsRgbImage, Result
    <3>. QED BY <2>2, <3>1
  <2>. QED BY <2>2, <2>3 DEF FrameCoversBuffer
<1>. QED BY <1>1, InitCallInv, NextCallInv, PTL DEF Spec

=============================================================================
