---------------------------- MODULE MCFreePages -----------------------------
(* Free pages of a small file, for TLC. *)
EXTENDS FreePages
=============================================================================
