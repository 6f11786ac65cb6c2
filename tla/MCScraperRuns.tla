--------------------------- MODULE MCScraperRuns ---------------------------
(* A small instance of ScraperRuns: the values are in the .cfg file. *)
EXTENDS ScraperRuns
=============================================================================
