--------------------------- MODULE MCImageCleanup ---------------------------
(* Instances of ImageCleanup for TLC.                                      *)
EXTENDS ImageCleanup, TLC

CONSTANTS r1, r2, t1

\* r1 and r2 are aliases of one file; r1 names it canonically.
MCRow == {r1, r2}
MCTarget == {t1}
MCTargetOf == [r \in MCRow |-> t1]
MCCanonical == {r1}
=============================================================================
