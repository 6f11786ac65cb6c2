---------------------------- MODULE MCEntityUpserts ----------------------------
(* Small instances of EntityUpserts for TLC. *)
EXTENDS EntityUpserts

C(kind, name) == [kind |-> kind, name |-> name]

\* Three platforms name the same people in another order and in another case.
MCPlan(s) ==
    IF s = "p" THEN << <<C("artist", "monet"), C("auctioneer", "hall")>>,
                       <<C("artist", "degas"), C("expert", "roe")>>, <<>> >>
    ELSE IF s = "r" THEN << <<C("auctioneer", "hall"), C("artist", "degas")>> >>
    ELSE << <<C("artist", "Degas"), C("expert", "roe")>>,
            <<C("artist", "monet"), C("auctioneer", "hall")>> >>

MCKey(n) == IF n = "Degas" THEN "degas" ELSE n
=============================================================================
