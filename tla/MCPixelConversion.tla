------------------------- MODULE MCPixelConversion -------------------------
(***************************************************************************)
(* frame_from_slice with 5-bit "u32" arithmetic, so that the products of  *)
(* small geometries wrap as 32-bit ones do for large ones.                 *)
(***************************************************************************)
EXTENDS PixelConversion

=============================================================================
