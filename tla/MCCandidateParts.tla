-------------------------- MODULE MCCandidateParts --------------------------
(* A small instance of CandidateParts: the values are in the .cfg file. *)
EXTENDS CandidateParts
=============================================================================
