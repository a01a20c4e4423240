--------------------------- MODULE MCLazyStateFlow ---------------------------
(* An instance of LazyStateFlow for TLC. *)
EXTENDS LazyStateFlow
=============================================================================
