-------------------------- MODULE MCImageMatching --------------------------
(* A small instance of ImageMatching: one artwork with two images. *)
EXTENDS ImageMatching

CONSTANTS x1, x2

OneArtwork == {1}
OneOwner == [x \in {x1, x2} |-> 1]
=============================================================================
