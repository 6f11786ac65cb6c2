---------------------------- MODULE MCSourceScraper ----------------------------
(* Small instances of SourceScraper for TLC. *)
EXTENDS SourceScraper

MCListings == {<<1, 2>>, <<2, 3>>}
MCOffers == {{}, {"a"}}
=============================================================================
