--------------------------- MODULE MCGCSafepoint ---------------------------
(* GCSafepoint for TLC. *)
EXTENDS GCSafepoint
=============================================================================
