--------------------------- MODULE ImageMatching ---------------------------
(***************************************************************************)
(* How image-match scores and processed flags stay true to the images: the *)
(* scrapers that record bytes and links (scrapers/db_interface.py), the    *)
(* triggers that invalidate scores (db/init-production), image blocking    *)
(* and image matching, whose result is written in one fenced transaction   *)
(* (matching_pipeline/image_matching/db_results.py).                       *)
(*                                                                         *)
(* Every SQL statement whose place in its transaction matters is a step at *)
(* READ COMMITTED: it reads what is committed, waits for row locks, and    *)
(* its writes are seen at COMMIT.  The bytes of an image are a version     *)
(* number (0: no file); the digest and the content_version of its row are  *)
(* the version that was recorded.  The lost images are one image.          *)
(***************************************************************************)
EXTENDS Integers, FiniteSets, Functions

CONSTANTS
  Artwork,      \* auction_artwork ids, in their order
  Image,        \* auction images; file names carry the artwork's id
  Owner,        \* the artwork of an image
  Broken,       \* images whose bytes cannot be decoded
  Scraper,      \* scraper sessions
  BatchSize,    \* MATCHING_BATCH_SIZE, in artworks
  MaxVersion,   \* bound: how often an auction image's bytes are written
  MaxRevision,  \* bound: versions of the lost image, changes of the lost corpus
  MaxTxns,      \* bound: scraper transactions and replays
  MaxFaults,    \* bound: failing images, aborts and deaths of the pipeline
  MaxEvents     \* bound: transactions, lost changes and downloads of old images together

ASSUME MatchingAssumption ==
  /\ Artwork \subseteq Nat /\ IsFiniteSet(Image)
  /\ Owner \in [Image -> Artwork]
  /\ Broken \subseteq Image
  /\ BatchSize \in Nat \ {0} /\ MaxVersion \in Nat \ {0}
  /\ MaxRevision \in Nat \ {0} /\ MaxTxns \in Nat /\ MaxFaults \in Nat /\ MaxEvents \in Nat

Version == 0..MaxVersion
Of(a) == {x \in Image : Owner[x] = a}

VARIABLES
  \* --- the image store
  disk,      \* version of the bytes at an image's path
  lostDisk,  \* version of the lost image's bytes
  \* --- committed database state
  ver,       \* image_file.content_version; 0: no row
  embedded,  \* version its is_embedded = true stands for; 0: false
  linked,    \* auction_artwork_image_file rows
  done,      \* links that are processed and completed without error
  flag,      \* artworks with is_image_matching_processed = true
  score,     \* the image part of an artwork's match_score row
  lostVer,   \* content_version of the lost image
  revision,  \* lost_content_revision
  \* --- open transactions of the scrapers
  tx,
  \* --- the pipeline process: blocking, then matching
  pc, rev, rows, lostRow, parts, results,
  \* --- the matcher's transaction
  upserts, finLinks, finArts,
  \* --- history: the verdict behind a processed link; bounds
  judged, txns, faults

store    == <<disk, lostDisk>>
images   == <<ver, embedded, lostVer, revision>>
matches  == <<linked, done, flag, score, judged>>
blocking == <<rev, rows, lostRow, parts>>
writing  == <<upserts, finLinks, finArts>>
bounds   == <<txns, faults>>
vars     == <<store, images, matches, tx, pc, blocking, results, writing, bounds>>

NoScore == [img |-> "none"]
Kept == [img |-> "kept"]  \* an upsert that leaves the better row as it is
NoVerdict == [out |-> "none"]
NoPart == [ver |-> 0, rev |-> 0]
Nowhere == [x \in Image |-> 0]
NoTx == [stage |-> "none", art |-> 0, fp |-> Nowhere, auth |-> FALSE, inval |-> FALSE,
         cleared |-> FALSE, reset |-> {}, add |-> {}, remove |-> {}, opens |-> "keep"]

Init ==
  /\ disk \in [Image -> {0, 1}] /\ ver = disk
  /\ linked = {x \in Image : ver[x] # 0}
  /\ lostDisk = 1 /\ lostVer = 1 /\ revision = 1
  /\ embedded = Nowhere
  /\ done = {} /\ flag = {}
  /\ score = [a \in Artwork |-> NoScore] /\ judged = [x \in Image |-> NoVerdict]
  /\ tx = [s \in Scraper |-> NoTx]
  /\ pc = "idle" /\ rev = 0 /\ rows = Nowhere /\ lostRow = 0
  /\ parts = [x \in Image |-> NoPart] /\ results = [x \in Image |-> NoVerdict]
  /\ upserts = [a \in Artwork |-> NoScore] /\ finLinks = {} /\ finArts = {}
  /\ txns = 0 /\ faults = 0

Redownloads == SumFunction([x \in Image |-> IF disk[x] > 1 THEN disk[x] - 1 ELSE 0])
Room == txns + (lostDisk - 1) + (revision - 1) + Redownloads < MaxEvents

Fault == faults < MaxFaults /\ faults' = faults + 1 /\ UNCHANGED txns

-----------------------------------------------------------------------------
(* What the pipeline has in hand, and the row locks.                       *)

Parted    == {x \in Image : parts[x].ver # 0}
Accepted  == {x \in Image : results[x].out \in {"accepted", "partial"}}
\* Mutant: images with failed pairs count as processed.
ProcessedAnyway == {x \in Image : results[x].out \in {"accepted", "rejected", "partial", "failed"}}
\* A failed image or pair leaves its auction image pending.
Processed == {x \in Image : results[x].out \in {"accepted", "rejected"}}
Resolved  == Accepted \cup Processed

Locked == {"lockrevision", "upsert", "finalize", "write"}
\* FOR SHARE on image_file, until the end of the matcher's transaction.
ShareLocked == IF pc \in Locked THEN Resolved ELSE {}
RevisionLocked == pc \in Locked \ {"lockrevision"} /\ Resolved # {}
\* ON CONFLICT locks the match_score row that it finds.
ScoreLocked(a) ==
  pc \in {"finalize", "write"} /\ upserts[a] # NoScore /\ score[a] # NoScore

Open(s) == tx[s].stage # "none"
Want(s) == {x \in Image : tx[s].fp[x] # 0}
\* Image rows whose digest an open transaction has changed.
Changed(s) == {x \in Want(s) : ver[x] \notin {0, tx[s].fp[x]}}

-----------------------------------------------------------------------------
(* Scrapers.                                                               *)

Scraping == <<pc, blocking, results, writing, faults>>

\* download_images writes new bytes beside the path and renames them onto it.
Download(x) ==
  /\ disk[x] < MaxVersion /\ (disk[x] = 0 \/ Room)
  /\ disk' = [disk EXCEPT ![x] = @ + 1]
  /\ UNCHANGED <<lostDisk, images, matches, tx, txns, Scraping>>

\* upsert_auction_artwork updates the artwork's row and so locks it.
Touch(s, a) ==
  /\ ~Open(s) /\ Room /\ txns < MaxTxns
  /\ \A q \in Scraper : Open(q) => tx[q].art # a
  /\ tx' = [tx EXCEPT ![s] = [NoTx EXCEPT !.stage = "touched", !.art = a]]
  /\ txns' = txns + 1
  /\ UNCHANGED <<store, images, matches, Scraping>>

\* The trigger on image_file: an image that is linked and whose digest changes takes
\* the scores of its artwork with it ...
Invalidates(changed) == changed \cap linked # {}
\* ... as does an authoritative download that found no image at all.
ClearsEmpty(want, auth) == auth /\ want = {}

\* set_auction_artwork_images up to the scores: _ensure_image_file_id records the
\* bytes at each path, and the triggers see which rows have changed.
Record(s) ==
  /\ tx[s].stage = "touched"
  /\ \E want \in SUBSET {x \in Of(tx[s].art) : disk[x] # 0}, auth \in BOOLEAN :
       LET a == tx[s].art
           changed == {x \in want : ver[x] \notin {0, disk[x]}}
           clears == (Invalidates(changed) \/ ClearsEmpty(want, auth)) /\ score[a] # NoScore
       IN /\ changed \cap ShareLocked = {}
          /\ clears => ~ScoreLocked(a)
          /\ tx' = [tx EXCEPT ![s] = [@ EXCEPT
               !.stage = "recorded", !.auth = auth, !.inval = Invalidates(changed),
               !.cleared = clears,
               !.fp = [x \in Image |-> IF x \in want THEN disk[x] ELSE 0]]]
  /\ UNCHANGED <<store, images, matches, txns, Scraping>>

Existing(s) == linked \cap Of(tx[s].art)
Added(s) == Want(s) \ Existing(s)
\* Mutant: only the changed image is replayed, not its siblings.
ReplayedChangedOnly(s) == IF tx[s].inval THEN Existing(s) \cap done \cap Changed(s) ELSE {}
\* With the scores, every processed link of the artwork goes back to pending.
Replayed(s) == IF tx[s].inval THEN Existing(s) \cap done ELSE {}
\* A pending link that is inserted reopens its artwork.
Reopened(s) == tx[s].inval \/ Added(s) # {}
\* An artwork that was found to have no image is closed.
Closed(s) == tx[s].auth /\ Want(s) = {}

\* ... and the rest of it: superseded links are deleted, new ones inserted.
Relink(s) ==
  /\ tx[s].stage = "recorded"
  /\ tx' = [tx EXCEPT ![s] = [@ EXCEPT
       !.stage = "linked",
       !.reset = Replayed(s),
       !.add = Added(s),
       !.remove = IF tx[s].auth THEN Existing(s) \ Want(s) ELSE {},
       !.opens = CASE Closed(s) -> "close" [] Reopened(s) -> "reopen" [] OTHER -> "keep"]]
  /\ UNCHANGED <<store, images, matches, txns, Scraping>>

\* _commit_batch.
CommitTx(s) ==
  /\ tx[s].stage = "linked"
  /\ LET t == tx[s] IN
     /\ ver' = [x \in Image |-> IF x \in Want(s) THEN t.fp[x] ELSE ver[x]]
     /\ embedded' = [x \in Image |-> IF x \in Changed(s) THEN 0 ELSE embedded[x]]
     /\ linked' = (linked \ t.remove) \cup t.add
     /\ done' = done \ (t.reset \cup t.remove)
     /\ flag' = CASE t.opens = "close"  -> flag \cup {t.art}
                  [] t.opens = "reopen" -> flag \ {t.art}
                  [] OTHER -> flag
     /\ score' = [score EXCEPT ![t.art] =
          IF t.cleared THEN NoScore
          ELSE IF @ # NoScore /\ @.img \in t.remove THEN [@ EXCEPT !.orphan = TRUE]
          ELSE @]
  /\ tx' = [tx EXCEPT ![s] = NoTx]
  /\ UNCHANGED <<store, lostVer, revision, judged, txns, Scraping>>

\* The batch fails, or the worker dies: the bytes on disk stay.
AbortTx(s) ==
  /\ Open(s)
  /\ tx' = [tx EXCEPT ![s] = NoTx]
  /\ UNCHANGED <<store, images, matches, txns, Scraping>>

-----------------------------------------------------------------------------
(* Statements over every artwork wait for the rows that scrapers hold.     *)

RowsFree == \A s \in Scraper : Open(s) =>
  /\ ~tx[s].cleared /\ tx[s].reset = {} /\ tx[s].remove = {}
  /\ tx[s].art \in flag => linked \cap Of(tx[s].art) = {}

\* Every link of a live image is pending again, and so is its artwork.
ReplayAll ==
  /\ done' = {}
  /\ flag' = {a \in flag : linked \cap Of(a) = {}}

LostDownload ==
  /\ Room /\ lostDisk < MaxRevision
  /\ lostDisk' = lostDisk + 1
  /\ UNCHANGED <<disk, images, matches, tx, txns, Scraping>>

\* set_lost_artwork_images: other bytes or other links of the lost images.
LostRecorded == lostVer' = lostDisk

\* ... whose triggers invalidate everything, once in a transaction
\* (invalidate_all_image_matching_for_lost_change).
LostChange ==
  /\ Room /\ revision < MaxRevision /\ ~RevisionLocked /\ RowsFree
  /\ \A a \in Artwork : ~ScoreLocked(a)
  /\ LostRecorded
  /\ revision' = revision + 1
  /\ score' = [a \in Artwork |-> NoScore]
  /\ ReplayAll
  /\ UNCHANGED <<store, ver, embedded, linked, judged, tx, txns, Scraping>>

\* reset_auction_image_matching_for_replay, asked for by an operator.
Replay ==
  /\ pc = "idle" /\ Room /\ txns < MaxTxns /\ RowsFree
  /\ ReplayAll
  /\ txns' = txns + 1
  /\ UNCHANGED <<store, images, linked, score, judged, tx, Scraping>>

Environment ==
  \/ \E x \in Image : Download(x)
  \/ LostDownload \/ LostChange \/ Replay
  \/ \E s \in Scraper : \/ \E a \in Artwork : Touch(s, a)
                        \/ Record(s) \/ Relink(s) \/ CommitTx(s) \/ AbortTx(s)

-----------------------------------------------------------------------------
(* Image blocking.                                                         *)

Pipeline == <<store, lostVer, revision, tx, txns>>
NoParts == parts' = [x \in Image |-> NoPart]

\* Mutant: a link that was embedded but not finished is not taken up again.
SelectedOnce == {x \in linked : embedded[x] = 0}

\* _auction_image_state_filter; a link without the error-free mark is pending.
Selected == {x \in linked : embedded[x] = 0 \/ x \notin done}

\* has_unprocessed_auction_image_file_rows, which states the same condition again.
Unprocessed == Selected # {}

\* The artworks with the lowest ids, MATCHING_BATCH_SIZE of them.
Batch == LET arts == {Owner[x] : x \in Selected} IN
         {a \in arts : Cardinality({b \in arts : b < a}) < BatchSize}

\* Nothing to do: the candidates are cleared, and matching finds none.
SkipBlocking ==
  /\ pc = "idle" /\ ~Unprocessed
  /\ NoParts
  /\ pc' = "match"
  /\ UNCHANGED <<Pipeline, ver, embedded, matches, rev, rows, lostRow, results, writing, faults>>

\* read_lost_image_content_revision, before any row is read.
ReadRevision ==
  /\ pc = "idle" /\ Unprocessed
  /\ rev' = revision
  /\ pc' = "load"
  /\ UNCHANGED <<Pipeline, ver, embedded, matches, rows, lostRow, parts, results, writing, faults>>

\* load_db_image_file_rows; undecodable images are left out.
LoadRows ==
  /\ pc = "load"
  /\ rows' = [x \in Image |->
       IF x \in Selected \ Broken /\ Owner[x] \in Batch THEN ver[x] ELSE 0]
  /\ lostRow' = lostVer
  /\ IF rows' = Nowhere THEN NoParts /\ pc' = "match" ELSE UNCHANGED parts /\ pc' = "rank"
  /\ UNCHANGED <<Pipeline, ver, embedded, matches, rev, results, writing, faults>>

\* Every fingerprint of a file agrees with its row, before and after the ranking.
Unchanged == /\ lostDisk = lostRow
             /\ \A x \in Image : rows[x] # 0 => disk[x] = rows[x]

\* write_candidate_parts, the second look at the files included.
WriteParts ==
  /\ pc = "rank" /\ Unchanged
  /\ parts' = [x \in Image |-> IF rows[x] = 0 THEN NoPart ELSE [ver |-> rows[x], rev |-> rev]]
  /\ pc' = "mark"
  /\ UNCHANGED <<Pipeline, ver, embedded, matches, rev, rows, lostRow, results, writing, faults>>

\* A file differs from its row: the parts are cleared, matching is skipped.
RefuseFiles ==
  /\ pc = "rank" /\ ~Unchanged
  /\ NoParts
  /\ pc' = "idle" /\ rows' = Nowhere
  /\ UNCHANGED <<Pipeline, ver, embedded, matches, rev, lostRow, results, writing, faults>>

\* Mutant: the row's content_version is not compared.
MarkEmbeddedAny ==
  /\ pc = "mark"
  /\ \A s \in Scraper : Open(s) => \A x \in Changed(s) : rows[x] = 0
  /\ embedded' = [x \in Image |-> IF rows[x] # 0 /\ embedded[x] = 0 THEN rows[x] ELSE embedded[x]]
  /\ pc' = "match" /\ rows' = Nowhere
  /\ UNCHANGED <<Pipeline, ver, matches, rev, lostRow, parts, results, writing, faults>>

\* mark_image_files_embedded.
MarkEmbedded ==
  /\ pc = "mark"
  /\ \A s \in Scraper : Open(s) => \A x \in Changed(s) : rows[x] = 0
  /\ embedded' = [x \in Image |->
       IF rows[x] # 0 /\ ver[x] = rows[x] /\ embedded[x] = 0 THEN rows[x] ELSE embedded[x]]
  /\ pc' = "match" /\ rows' = Nowhere
  /\ UNCHANGED <<Pipeline, ver, matches, rev, lostRow, parts, results, writing, faults>>

-----------------------------------------------------------------------------
(* Image matching.                                                         *)

Quiet == <<Pipeline, ver, embedded>>

\* run_image_matching takes up the next auction image; the bytes it reads are not
\* compared with the candidates' fingerprints.
MatchImage(x) ==
  /\ pc = "match" /\ x \in Parted /\ results[x] = NoVerdict
  /\ \E out \in {"accepted", "rejected", "partial", "failed"} :
       /\ results' = [results EXCEPT ![x] =
            [out |-> out, bytes |-> disk[x], lost |-> lostDisk, rev |-> parts[x].rev]]
       /\ IF out \in {"partial", "failed"} THEN Fault ELSE UNCHANGED faults
  /\ UNCHANGED <<Quiet, matches, pc, blocking, writing>>

BeginWrite ==
  /\ pc = "match" /\ \A x \in Parted : results[x] # NoVerdict
  /\ pc' = IF Resolved = {} THEN "finalize" ELSE "lockimages"
  /\ UNCHANGED <<Quiet, matches, blocking, results, writing, faults>>

Rest == /\ pc' = "idle" /\ rev' = 0 /\ lostRow' = 0
        /\ results' = [x \in Image |-> NoVerdict]
        /\ upserts' = [a \in Artwork |-> NoScore] /\ finLinks' = {} /\ finArts' = {}
        /\ UNCHANGED <<rows, parts>>

\* Mutant: the auction images' versions are not compared.
LockImagesBlindly ==
  /\ pc = "lockimages"
  /\ \A s \in Scraper : Open(s) => Changed(s) \cap Resolved = {}
  /\ pc' = "lockrevision"
  /\ UNCHANGED <<Quiet, matches, blocking, results, writing, faults>>

\* _lock_and_validate_image_content_snapshot: the image rows ...
LockImages ==
  /\ pc = "lockimages"
  /\ \A s \in Scraper : Open(s) => Changed(s) \cap Resolved = {}
  /\ IF \A x \in Resolved : ver[x] = parts[x].ver
     THEN pc' = "lockrevision" /\ UNCHANGED <<blocking, results, writing>>
     ELSE Rest
  /\ UNCHANGED <<Quiet, matches, faults>>

\* ... and the revision of the lost corpus; on a mismatch it raises.
LockRevision ==
  /\ pc = "lockrevision"
  /\ IF \A x \in Resolved : parts[x].rev = revision
     THEN pc' = "upsert" /\ UNCHANGED <<blocking, results, writing>>
     ELSE Rest
  /\ UNCHANGED <<Quiet, matches, faults>>

\* The row that an accepted image makes.
ScoreOf(x) == [img |-> x, bytes |-> results[x].bytes, lost |-> results[x].lost,
               rev |-> results[x].rev, orphan |-> FALSE]

\* _fetch_links and _upsert_match_scores: the best accepted image of an artwork
\* makes its row, unless the row that is there is better (it is locked all the same).
Upsert ==
  /\ pc = "upsert"
  /\ IF \A x \in Accepted : x \in linked
     THEN LET arts == {Owner[x] : x \in Accepted} IN
          /\ \A s \in Scraper : tx[s].art \in arts => ~tx[s].cleared
          /\ \E u \in [Artwork -> {ScoreOf(x) : x \in Accepted} \cup {Kept, NoScore}] :
               /\ \A a \in Artwork :
                    u[a] \in IF a \notin arts THEN {NoScore}
                             ELSE {ScoreOf(x) : x \in Accepted \cap Of(a)}
                                    \cup (IF score[a] # NoScore THEN {Kept} ELSE {})
               /\ upserts' = u
          /\ pc' = "finalize" /\ UNCHANGED <<blocking, results, finLinks, finArts>>
     ELSE Rest
  /\ UNCHANGED <<Quiet, matches, faults>>

\* Every link of the artwork is done, or of an image that was just processed.
Complete(a) == \A x \in linked \cap Of(a) : x \in done \/ x \in Processed

\* _finalize_processed_auction_links: one statement, one snapshot; it may then
\* wait for the rows that it has to update.
Finalize ==
  /\ pc = "finalize"
  /\ finLinks' = (Processed \cap linked) \ done
  /\ finArts' = {a \in Artwork \ flag : Complete(a)}
  /\ pc' = "write"
  /\ UNCHANGED <<Quiet, matches, blocking, results, upserts, faults>>

\* The rows are free, the updates apply to what they are now, and COMMIT.
CommitWrite ==
  /\ pc = "write"
  /\ \A s \in Scraper : Open(s) => /\ tx[s].art \notin finArts
                                   /\ tx[s].remove \cap finLinks = {}
  /\ done' = done \cup (finLinks \cap linked)
  /\ flag' = flag \cup finArts
  /\ score' = [a \in Artwork |->
       IF upserts[a] \in {NoScore, Kept} THEN score[a]
       ELSE [upserts[a] EXCEPT !.orphan = @ \/ upserts[a].img \notin linked]]
  /\ judged' = [x \in Image |-> IF x \in finLinks \cap linked THEN results[x] ELSE judged[x]]
  /\ Rest
  /\ UNCHANGED <<Quiet, linked, faults>>

\* The pipeline's step raises (out of memory, lost connection) or is killed.
PipelineFails ==
  /\ pc # "idle" /\ Fault
  /\ pc' = "idle" /\ rev' = 0 /\ lostRow' = 0 /\ rows' = Nowhere
  /\ results' = [x \in Image |-> NoVerdict]
  /\ upserts' = [a \in Artwork |-> NoScore] /\ finLinks' = {} /\ finArts' = {}
  /\ UNCHANGED <<store, images, matches, tx, parts>>

Cycle ==
  \/ SkipBlocking \/ ReadRevision \/ LoadRows \/ WriteParts \/ RefuseFiles \/ MarkEmbedded
  \/ \E x \in Image : MatchImage(x)
  \/ BeginWrite \/ LockImages \/ LockRevision \/ Upsert \/ Finalize \/ CommitWrite

Next == Environment \/ Cycle \/ PipelineFails

Spec == Init /\ [][Next]_vars

\* The scheduler runs one cycle after another; a scraper transaction ends, by
\* COMMIT or, when its worker fails or loses a deadlock, by a rollback.
FairSpec ==
  /\ Spec /\ WF_vars(Cycle)
  /\ \A s \in Scraper : WF_vars(Record(s) \/ Relink(s) \/ CommitTx(s) \/ AbortTx(s))
-----------------------------------------------------------------------------
(* Properties.                                                             *)

Verdict == [out : {"accepted", "rejected", "partial", "failed"}, bytes : 0..MaxVersion,
            lost : 1..MaxRevision, rev : 1..MaxRevision]
Score == [img : Image, bytes : 0..MaxVersion, lost : 1..MaxRevision,
          rev : 1..MaxRevision, orphan : BOOLEAN]

Transaction == [stage : {"none", "touched", "recorded", "linked"}, art : Nat,
                fp : [Image -> 0..MaxVersion], auth : BOOLEAN, inval : BOOLEAN, cleared : BOOLEAN,
                reset : SUBSET Image, add : SUBSET Image, remove : SUBSET Image,
                opens : {"keep", "reopen", "close"}]

\* The state has its type; versions stay within their bounds.
TypeOK ==
  /\ disk \in [Image -> 0..MaxVersion] /\ lostDisk \in 1..MaxRevision
  /\ ver \in [Image -> 0..MaxVersion] /\ embedded \in [Image -> 0..MaxVersion]
  /\ lostVer \in 1..MaxRevision /\ revision \in 1..MaxRevision
  /\ linked \subseteq Image /\ done \subseteq linked /\ flag \subseteq Artwork
  /\ score \in [Artwork -> Score \cup {NoScore}]
  /\ judged \in [Image -> Verdict \cup {NoVerdict}]
  /\ tx \in [Scraper -> Transaction]
  /\ pc \in {"idle", "load", "rank", "mark", "match", "lockimages"} \cup Locked
  /\ rev \in 0..MaxRevision /\ lostRow \in 0..MaxRevision /\ rows \in [Image -> 0..MaxVersion]
  /\ parts \in [Image -> [ver : 0..MaxVersion, rev : 0..MaxRevision]]
  /\ results \in [Image -> Verdict \cup {NoVerdict}]
  /\ upserts \in [Artwork -> Score \cup {NoScore, Kept}]
  /\ finLinks \subseteq Image /\ finArts \subseteq Artwork
  /\ txns \in 0..MaxTxns /\ faults \in 0..MaxFaults

\* A score is about the lost corpus of this revision and about bytes at least as
\* new as those recorded for its images, whatever was recorded while the matcher
\* computed (the fence of _lock_and_validate_image_content_snapshot), as long as
\* its auction image has kept its link.
ScoresAreCurrent ==
  \A a \in Artwork : score[a] # NoScore =>
    /\ score[a].rev = revision /\ score[a].lost >= lostVer
    /\ ~score[a].orphan => score[a].img \in linked /\ score[a].bytes >= ver[score[a].img]

\* Behind each processed link is a verdict on this revision of the lost corpus and
\* on bytes as new as the recorded ones, and an accepted one still has its score:
\* what loses a score (the triggers of image_file) reopens every image of it.
DoneIsJudged ==
  \A x \in done :
    /\ judged[x] # NoVerdict
    /\ judged[x].rev = revision /\ judged[x].lost >= lostVer /\ judged[x].bytes >= ver[x]
    /\ judged[x].out = "accepted" => score[Owner[x]] # NoScore

\* What image cleanup's inventory asks of an artwork before it deletes its images.
Deletable(a) ==
  /\ a \in flag /\ linked \cap Of(a) # {} /\ score[a] = NoScore
  /\ \A x \in linked \cap Of(a) : x \in done /\ embedded[x] # 0

\* "Filesystem cleanup cannot mistake a technical failure for a classifier
\* rejection": images are deleted only after an error-free rejection of their bytes.
DeletableIsRejected ==
  \A a \in Artwork : Deletable(a) =>
    \A x \in linked \cap Of(a) : judged[x].out = "rejected" /\ judged[x].bytes >= ver[x]

\* is_embedded = true says that the recorded bytes went through blocking, although
\* it is written long after the bytes were read (mark_image_files_embedded).
EmbeddedIsCurrent == \A x \in Image : embedded[x] \in {0, ver[x]}

\* Files and rows agree, as they do once every batch has committed its downloads.
Consistent == lostDisk = lostVer /\ \A x \in linked : disk[x] = ver[x]

\* An image that stays linked is judged in the end, whatever was refused, reset or
\* replayed on the way.
PendingIsJudged ==
  <>[]Consistent => \A x \in Image : x \in linked ~> (x \in done \/ x \notin linked)
=============================================================================
