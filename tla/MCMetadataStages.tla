--------------------------- MODULE MCMetadataStages ---------------------------
(* Small instances of MetadataStages for TLC. *)
EXTENDS MetadataStages

\* A lost artwork resembles what the descriptions say, and what a site shows first.
MCAlike(l, title, meta) == title.v # 1 \/ title.of = "text"
MCGarbled == {<<"x", 1>>}
MCBlank == {<<"y", 1>>}
MCSilent == {<<"y", 0>>}
=============================================================================
