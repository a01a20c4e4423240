-------------------------- MODULE MCEngineLocking --------------------------
(* Instances of EngineLocking for TLC. *)
EXTENDS EngineLocking

AnyMoves == File \X File
=============================================================================
