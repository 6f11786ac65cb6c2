--------------------------- MODULE MetadataStages ---------------------------
(***************************************************************************)
(* The two metadata stages of a pipeline cycle                             *)
(* (src/matching_pipeline/metadata_extraction, metadata_normalization,     *)
(* metadata_matching) over the rows the scrapers go on writing: the        *)
(* extraction reads a batch of descriptions, closes its connection, asks a *)
(* language model, normalizes the answers in a file and writes them back;  *)
(* the matching streams the rows that wait, scores each against the lost   *)
(* artworks held in memory and marks them.  The schema's trigger takes the *)
(* marks of a row away when what they were computed from changes.          *)
(***************************************************************************)
EXTENDS Integers, FiniteSets, FiniteSetsExt

CONSTANTS
    Auctions,       \* auction_artwork rows
    Losts,          \* lost_artwork rows
    MaxVersion,     \* bound on the versions of a site's page
    ExtractBatch,   \* MATCHING_BATCH_SIZE
    MatchBatch,     \* _BATCH_SIZE of the matcher
    Garbled,        \* <<auction, version>>: descriptions the model has no answer for
    Blank,          \* <<auction, version>>: descriptions without entities
    Silent,         \* <<auction, version>>: pages that show no description
    Alike(_, _, _), \* a lost artwork, a title and a metadata column alike enough
    Scrapes,        \* bound on the pages scraped again
    Faults,         \* bound on stages that fail or are killed
    None            \* no value

Versions == 0..MaxVersion

ASSUME VersionsAssumption == MaxVersion \in Nat
ASSUME BatchesAssumption == ExtractBatch \in Nat \ {0} /\ MatchBatch \in Nat \ {0}
ASSUME DescriptionsAssumption == Garbled \cup Blank \cup Silent \subseteq Auctions \X Versions
ASSUME BoundsAssumption == Scrapes \in Nat /\ Faults \in Nat

VARIABLES
    row,        \* auction_artwork
    score,      \* match_score: the pairs' image and metadata columns
    stage,      \* where the pipeline's cycle is
    file,       \* descriptions.jsonl
    stream,     \* the rows the matching still has to fetch, as its cursor sees them
    batch,      \* the rows fetched last, not yet scored
    scored,     \* those scored, not yet marked
    known,      \* the image pairs without metadata, read with the batch
    scrapes, faults,    \* bounds
    retold,     \* rows given another description while the extraction held one,
    reshown     \* other inputs while the matching held some (history)

stores == <<row, score>>
work == <<file, stream, batch, scored, known>>
history == <<retold, reshown>>
vars == <<stores, stage, work, scrapes, faults, history>>

\* The title columns hold what the site shows or what the description says.
Titles == [of : {"site", "text"}, v : Versions \cup {None}]

Steps == <<"artist", "dating", "dimensions", "technique">>
AllSteps == {Steps[n] : n \in 1..4}

\* The columns the extraction fills: the description they come from, and the
\* normalizations they went through.
Metadata == [of : Versions, filled : SUBSET AllSteps]
Rows == [text : Versions, title : Titles, meta : Metadata \cup {None},
         imaged : BOOLEAN, extracted : BOOLEAN, matched : BOOLEAN]
Input(r) == <<r.title, r.meta>>
Inputs == Titles \X (Metadata \cup {None})
Pairs == Losts \X Auctions
Scores == [image : BOOLEAN, meta : Inputs \cup {None}]
Records == [text : Versions, parsed : BOOLEAN, filled : SUBSET AllSteps]

ASSUME NoneAssumption == None \notin Versions \cup Metadata \cup Inputs \cup Scores

Init ==
    /\ row = [a \in Auctions |->
                [text |-> 0, title |-> [of |-> "site", v |-> 0], meta |-> None,
                 imaged |-> FALSE, extracted |-> FALSE, matched |-> FALSE]]
    /\ score = [p \in Pairs |-> None]
    /\ stage = "images"
    /\ file = [a \in {} |-> None]
    /\ stream = [a \in {} |-> None] /\ batch = [a \in {} |-> None]
    /\ scored = {} /\ known = {}
    /\ scrapes = 0 /\ faults = 0
    /\ retold = {} /\ reshown = {}

NoFile == [a \in {} |-> None]
Without(f, S) == [a \in DOMAIN f \ S |-> f[a]]

-----------------------------------------------------------------------------
(* The database *)

\* Mutant: the extraction's mark outlives a new description.
TriggeredMatching(old, new) ==
    [new EXCEPT !.matched = @ /\ Input(new) = Input(old) /\ new.text = old.text]

\* set_auction_artwork_processed_timestamps, before each UPDATE of a row.
Triggered(old, new) ==
    LET changed == Input(new) # Input(old) \/ new.text # old.text
    IN  [new EXCEPT !.matched = @ /\ ~changed,
                    !.extracted = @ /\ new.text = old.text]

Update(changes) ==
    row' = [a \in Auctions |-> IF a \in DOMAIN changes THEN Triggered(row[a], changes[a])
                                                       ELSE row[a]]

\* A scraper writes the page it sees, the title columns the extraction wrote
\* before included; a new image takes the image mark away.
Scrape(a) ==
    /\ scrapes < Scrapes
    /\ \E v \in {row[a].text, row[a].text + 1} \cap Versions, linked \in BOOLEAN :
         Update([x \in {a} |-> [row[a] EXCEPT !.text = v, !.title = [of |-> "site", v |-> v],
                                              !.imaged = @ /\ ~linked]])
    /\ scrapes' = scrapes + 1
    /\ retold' = IF row'[a].text = row[a].text THEN retold
                 ELSE IF a \in DOMAIN file THEN retold \cup {a} ELSE retold \ {a}
    /\ reshown' = IF Input(row'[a]) = Input(row[a]) /\ row'[a].text = row[a].text THEN reshown
                  ELSE IF a \in DOMAIN stream \cup DOMAIN batch \cup scored
                       THEN reshown \cup {a} ELSE reshown \ {a}
    /\ UNCHANGED <<score, stage, work, faults>>

Pending(p) == score[p] # None /\ score[p].image /\ score[p].meta = None

\* The image stages: their rows are marked, and a pair that has no metadata
\* score yet sends its auction to the matching again.
ImageStage ==
    /\ stage = "images"
    /\ \E found \in SUBSET {p \in Pairs : ~row[p[2]].imaged} :
         LET now == [p \in Pairs |->
                       IF p \in found
                       THEN [image |-> TRUE, meta |-> IF score[p] = None THEN None ELSE score[p].meta]
                       ELSE score[p]]
             again == {p[2] : p \in {q \in found : now[q].meta = None}}
         IN  /\ score' = now
             /\ row' = [a \in Auctions |-> [row[a] EXCEPT !.imaged = TRUE,
                                                         !.matched = @ /\ a \notin again]]
    /\ stage' = "extraction"
    /\ UNCHANGED <<work, scrapes, faults, history>>

-----------------------------------------------------------------------------
(* Extraction and normalization *)

Unextracted ==
    {a \in Auctions : row[a].imaged /\ ~row[a].extracted /\ <<a, row[a].text>> \notin Silent}

\* _has_eligible_artworks
SkipExtraction ==
    /\ stage = "extraction" /\ Unextracted = {}
    /\ stage' = "matching"
    /\ UNCHANGED <<stores, work, scrapes, faults, history>>

Priority(a) == \E l \in Losts : Pending(<<l, a>>)

\* get_descriptions: a full batch, rows that wait for a metadata score first.
GetDescriptions ==
    /\ stage = "extraction" /\ Unextracted # {}
    /\ \E S \in SUBSET Unextracted :
         /\ Cardinality(S) = Min({ExtractBatch, Cardinality(Unextracted)})
         /\ \A a \in S, b \in Unextracted \ S : Priority(b) => Priority(a)
         /\ file' = [a \in S |-> [text |-> row[a].text, parsed |-> FALSE, filled |-> {}]]
    /\ stage' = "extract"
    /\ retold' = retold \ DOMAIN file'
    /\ UNCHANGED <<stores, stream, batch, scored, known, scrapes, faults, reshown>>

\* extract_metadata: without one parsed answer the stage ends.
ExtractMetadata ==
    LET answers == [a \in DOMAIN file |->
                      [file[a] EXCEPT !.parsed = <<a, file[a].text>> \notin Garbled]]
        some == \E a \in DOMAIN file : answers[a].parsed
    IN  /\ stage = "extract"
        /\ file' = IF some THEN answers ELSE NoFile
        /\ stage' = IF some THEN "artist" ELSE "matching"
        /\ UNCHANGED <<stores, stream, batch, scored, known, scrapes, faults, history>>

\* One normalization rewrites the whole file: run_artist_normalization,
\* run_dating_normalization, run_dimension_normalization and
\* run_technique_material_normalization, in this order.
Normalize ==
    \E n \in 1..4 :
        /\ stage = Steps[n]
        /\ file' = [a \in DOMAIN file |-> [file[a] EXCEPT !.filled = @ \cup {Steps[n]}]]
        /\ stage' = IF n < 4 THEN Steps[n + 1] ELSE "write"
        /\ UNCHANGED <<stores, stream, batch, scored, known, scrapes, faults, history>>

\* write_descriptions: an answer without entities leaves only the mark.
Written(a) ==
    IF <<a, file[a].text>> \in Blank THEN [row[a] EXCEPT !.extracted = TRUE]
    ELSE [row[a] EXCEPT !.title = [of |-> "text", v |-> file[a].text],
                        !.meta = [of |-> file[a].text, filled |-> file[a].filled],
                        !.extracted = TRUE]

WriteDescriptions ==
    /\ stage = "write"
    /\ Update([a \in {x \in DOMAIN file : file[x].parsed} |-> Written(a)])
    /\ file' = NoFile
    /\ stage' = "matching"
    /\ UNCHANGED <<score, stream, batch, scored, known, scrapes, faults, history>>

-----------------------------------------------------------------------------
(* Matching *)

Unmatched == {a \in Auctions : row[a].imaged /\ row[a].extracted /\ ~row[a].matched}

SkipMatching ==
    /\ stage = "matching" /\ Unmatched = {}
    /\ stage' = "images"
    /\ UNCHANGED <<stores, work, scrapes, faults, history>>

\* The cursor keeps the rows as they are when it is opened.
OpenStream ==
    /\ stage = "matching" /\ Unmatched # {}
    /\ stream' = [a \in Unmatched |-> Input(row[a])]
    /\ stage' = "fetch"
    /\ reshown' = reshown \ Unmatched
    /\ UNCHANGED <<stores, file, batch, scored, known, scrapes, faults, retold>>

\* fetchmany and fetch_existing_pairs; the rows that wait come first here too.
FetchBatch ==
    /\ stage = "fetch" /\ DOMAIN stream # {}
    /\ \E S \in SUBSET DOMAIN stream :
         /\ Cardinality(S) = Min({MatchBatch, Cardinality(DOMAIN stream)})
         /\ \A a \in S, b \in DOMAIN stream \ S : Priority(b) => Priority(a)
         /\ batch' = [a \in S |-> stream[a]]
         /\ stream' = Without(stream, S)
         /\ known' = {p \in Pairs : p[2] \in S /\ Pending(p)}
    /\ stage' = "score"
    /\ UNCHANGED <<stores, file, scored, scrapes, faults, history>>

\* Mutant: only the scores above the threshold are kept.
KeptAlike(l, a) == Alike(l, batch[a][1], batch[a][2])

\* calculate_pair_score: worth a row, or scored because the images matched.
Kept(l, a) == Alike(l, batch[a][1], batch[a][2]) \/ <<l, a>> \in known

\* process_one_auction and bulk_insert: the workers' results arrive in any
\* order, and a full buffer is inserted and committed on its own.
InsertScores ==
    /\ stage = "score" /\ DOMAIN batch # {}
    /\ \E S \in (SUBSET DOMAIN batch) \ {{}} :
         /\ score' = [p \in Pairs |->
                        IF p[2] \in S /\ Kept(p[1], p[2])
                        THEN [image |-> score[p] # None /\ score[p].image, meta |-> batch[p[2]]]
                        ELSE score[p]]
         /\ batch' = Without(batch, S)
         /\ scored' = scored \cup S
    /\ UNCHANGED <<row, stage, file, stream, known, scrapes, faults, history>>

\* Mutant: only auctions that got a score are marked.
MarkScored ==
    /\ stage = "score" /\ DOMAIN batch = {}
    /\ row' = [a \in Auctions |->
                 [row[a] EXCEPT !.matched =
                    @ \/ (a \in scored /\ \E l \in Losts : score[<<l, a>>] # None)]]
    /\ scored' = {} /\ known' = {}
    /\ stage' = "fetch"
    /\ UNCHANGED <<score, file, stream, batch, scrapes, faults, history>>

\* bulk_mark_auction_processed
MarkProcessed ==
    /\ stage = "score" /\ DOMAIN batch = {}
    /\ row' = [a \in Auctions |-> IF a \in scored THEN [row[a] EXCEPT !.matched = TRUE]
                                                  ELSE row[a]]
    /\ scored' = {} /\ known' = {}
    /\ stage' = "fetch"
    /\ UNCHANGED <<score, file, stream, batch, scrapes, faults, history>>

StreamEnds ==
    /\ stage = "fetch" /\ DOMAIN stream = {}
    /\ stage' = "images"
    /\ UNCHANGED <<stores, work, scrapes, faults, history>>

-----------------------------------------------------------------------------
(* Failures, and the cycle *)

Extracting == stage \in {"extraction", "extract", "write"} \cup AllSteps

\* A stage that raises or is killed: its transaction is rolled back, and the
\* cycle goes on with the next stage.
StageFails ==
    /\ stage # "images" /\ faults < Faults
    /\ faults' = faults + 1
    /\ stage' = IF Extracting THEN "matching" ELSE "images"
    /\ file' = NoFile /\ stream' = NoFile /\ batch' = NoFile
    /\ scored' = {} /\ known' = {}
    /\ UNCHANGED <<stores, scrapes, history>>

Cycle ==
    \/ ImageStage
    \/ SkipExtraction \/ GetDescriptions \/ ExtractMetadata \/ Normalize \/ WriteDescriptions
    \/ SkipMatching \/ OpenStream \/ FetchBatch \/ InsertScores \/ MarkProcessed \/ StreamEnds

Next == Cycle \/ StageFails \/ \E a \in Auctions : Scrape(a)

\* The scheduler starts a cycle at every trigger and waits for its stages.
Spec == Init /\ [][Next]_vars /\ WF_vars(Cycle)

-----------------------------------------------------------------------------
(* Properties *)

TypeOK ==
    /\ row \in [Auctions -> Rows]
    /\ score \in [Pairs -> Scores \cup {None}]
    /\ stage \in {"images", "extraction", "extract", "write", "matching", "fetch", "score"}
                 \cup AllSteps
    /\ DOMAIN file \subseteq Auctions /\ \A a \in DOMAIN file : file[a] \in Records
    /\ DOMAIN stream \subseteq Auctions /\ \A a \in DOMAIN stream : stream[a] \in Inputs
    /\ DOMAIN batch \subseteq Auctions /\ \A a \in DOMAIN batch : batch[a] \in Inputs
    /\ scored \subseteq Auctions /\ known \subseteq Pairs
    /\ scrapes \in 0..Scrapes /\ faults \in 0..Faults /\ retold \cup reshown \subseteq Auctions

\* A row that is marked extracted, and was not scraped while its batch was out,
\* carries what its own description says, normalized by all four steps: no failed
\* stage, no garbled answer and no batch of another cycle marks a row it did not
\* read.
ExtractedIsCurrent ==
    \A a \in Auctions : row[a].extracted /\ a \notin retold =>
        /\ <<a, row[a].text>> \notin Garbled \cup Silent
        /\ \/ <<a, row[a].text>> \in Blank
           \/ row[a].meta = [of |-> row[a].text, filled |-> AllSteps]

\* A row marked as matched, and not scraped while the matcher held it, has the
\* score of what it now says for every lost artwork it is alike enough to, and a
\* metadata score beside every image score, whatever failed in between.
MatchedIsScored ==
    \A a \in Auctions : row[a].matched /\ a \notin reshown =>
        \A l \in Losts :
            /\ Alike(l, row[a].title, row[a].meta) =>
                   score[<<l, a>>] # None /\ score[<<l, a>>].meta = Input(row[a])
            /\ ~Pending(<<l, a>>)

\* Every lot that has a description the model can read is matched in the end, as
\* long as unreadable ones do not fill a batch.
EveryLotIsMatched ==
    \A a \in Auctions :
        <>[]( \/ <<a, row[a].text>> \in Garbled \cup Silent
              \/ row[a].extracted /\ row[a].matched)
=============================================================================
