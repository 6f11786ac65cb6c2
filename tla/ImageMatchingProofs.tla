------------------------ MODULE ImageMatchingProofs ------------------------
(***************************************************************************)
(* For any numbers of artworks, images and scraper sessions, the scores,   *)
(* verdicts and marks of ImageMatching are about recorded bytes.  An open  *)
(* scraper transaction holds its artwork's row, so that it alone changes   *)
(* the rows of the artwork's images; what it will invalidate is therefore  *)
(* fixed when it records, and the matcher's locks decide who is first: no  *)
(* image that the matcher has locked is about to change, and no score that *)
(* it is about to write is about to be cleared.                            *)
(***************************************************************************)
EXTENDS ImageMatching, TLAPS

-----------------------------------------------------------------------------
(* The inductive invariant.                                                *)

\* Rows lag behind files, and a linked image has a row.
VersionsOK ==
  /\ \A x \in Image : ver[x] <= disk[x]
  /\ lostVer <= lostDisk
  /\ \A x \in linked : ver[x] # 0

\* A transaction holds its artwork's row; what it has read and written is about that
\* artwork's images, whose rows nobody else changes.
HeldAlone ==
  \A s, q \in Scraper : s # q /\ Open(s) /\ Open(q) => tx[s].art # tx[q].art

TxOK(s) ==
  /\ ~Open(s) => tx[s] = NoTx
  /\ Open(s) => tx[s].art \in Artwork
  /\ tx[s].stage \in {"none", "touched"} => Want(s) = {} /\ ~tx[s].cleared
  /\ tx[s].stage # "linked" => tx[s].reset = {} /\ tx[s].add = {} /\ tx[s].remove = {}
  /\ \A x \in Want(s) : Owner[x] = tx[s].art /\ ver[x] <= tx[s].fp[x] /\ tx[s].fp[x] <= disk[x]
  /\ Changed(s) \cap linked # {} => tx[s].inval
  /\ tx[s].cleared => tx[s].inval \/ (tx[s].auth /\ Want(s) = {})
  /\ tx[s].add \subseteq Want(s) /\ tx[s].remove \subseteq Of(tx[s].art)

TransactionsOK == HeldAlone /\ \A s \in Scraper : TxOK(s)

\* What the pipeline has in hand was read from rows and files that have only got newer.
HandsOK ==
  /\ rev <= revision /\ (pc \in {"load", "rank"} => rev # 0)
  /\ \A x \in Image : /\ rows[x] <= disk[x]
                      /\ parts[x].ver <= disk[x] /\ parts[x].rev <= revision
                      /\ parts[x].ver # 0 => parts[x].rev # 0
  /\ \A x \in Image : results[x] # NoVerdict =>
       /\ pc \in {"match", "lockimages"} \cup Locked
       /\ parts[x].ver # 0
       /\ results[x].rev = parts[x].rev /\ results[x].bytes >= parts[x].ver
       /\ results[x].rev = revision => results[x].lost >= lostVer

\* An image that the matcher has locked is the one it has compared, and is not about to
\* change; nor is the revision, once it is locked.
LocksOK ==
  /\ pc \in Locked =>
       \A x \in Resolved : /\ ver[x] = parts[x].ver
                           /\ \A s \in Scraper : x \notin Changed(s)
  /\ pc \in Locked \ {"lockrevision"} => \A x \in Resolved : results[x].rev = revision

\* What the matcher is about to write, and for which artworks.
UpsertsOK ==
  /\ pc \notin {"finalize", "write"} => \A a \in Artwork : upserts[a] = NoScore
  /\ \A a \in Artwork :
       /\ upserts[a] \notin {NoScore, Kept} => \E x \in Accepted \cap Of(a) : upserts[a] = ScoreOf(x)
       /\ upserts[a] # NoScore => Accepted \cap Of(a) # {}
       /\ upserts[a] = Kept => score[a] # NoScore
  /\ pc \in {"finalize", "write"} => \A x \in Accepted : upserts[Owner[x]] # NoScore
  /\ \A s \in Scraper : tx[s].cleared => upserts[tx[s].art] = NoScore
  /\ finLinks \subseteq Processed /\ (finLinks # {} => pc = "write")

\* A score is of its artwork's image; one that stays is not about a changing image.
ScoresOK ==
  /\ ScoresAreCurrent
  /\ \A a \in Artwork : score[a] # NoScore => Owner[score[a].img] = a
  /\ \A s \in Scraper :
       LET a == tx[s].art IN
       Open(s) /\ ~tx[s].cleared /\ score[a] # NoScore /\ ~score[a].orphan
         => score[a].img \notin Changed(s)

\* A link that is done when its image changes, or accepted when its score goes, is reset.
DoneOK ==
  /\ DoneIsJudged
  /\ \A x \in done : judged[x].out \in {"accepted", "rejected"}
  /\ \A s \in Scraper : tx[s].stage = "linked" =>
       \A x \in done \ (tx[s].reset \cup tx[s].remove) :
         /\ x \notin Changed(s)
         /\ tx[s].cleared /\ Owner[x] = tx[s].art => judged[x].out # "accepted"

IInv ==
  /\ TypeOK /\ VersionsOK /\ EmbeddedIsCurrent /\ TransactionsOK /\ HandsOK
  /\ LocksOK /\ UpsertsOK /\ ScoresOK /\ DoneOK

-----------------------------------------------------------------------------
(* Facts about the values.                                                 *)

LEMMA ScoreFacts ==
  ASSUME NEW v \in Score
  PROVE  /\ v # NoScore /\ v # Kept
         /\ \A b \in BOOLEAN : [v EXCEPT !.orphan = b] \in Score
<1>1. DOMAIN v = {"img", "bytes", "lost", "rev", "orphan"} BY DEF Score
<1>2. DOMAIN NoScore = {"img"} /\ DOMAIN Kept = {"img"} BY DEF NoScore, Kept
<1>3. v # NoScore /\ v # Kept BY <1>1, <1>2
<1>4. ASSUME NEW b \in BOOLEAN PROVE [v EXCEPT !.orphan = b] \in Score BY DEF Score
<1> QED BY <1>3, <1>4

LEMMA VerdictFacts == \A v \in Verdict : v # NoVerdict
BY DEF Verdict, NoVerdict

LEMMA NoTxFacts ==
  /\ NoTx \in Transaction /\ NoTx.stage = "none" /\ ~NoTx.cleared
  /\ NoTx.reset = {} /\ NoTx.add = {} /\ NoTx.remove = {} /\ NoTx.fp = Nowhere
BY MatchingAssumption DEF NoTx, Transaction, Nowhere

-----------------------------------------------------------------------------
(* What the steps of a scraper transaction do to it.                       *)

Others(s) == \A q \in Scraper : q # s => tx'[q] = tx[q]

NewlyChanged(want) == {x \in want : ver[x] \notin {0, disk[x]}}
Clears(s, want, auth) ==
  (Invalidates(NewlyChanged(want)) \/ ClearsEmpty(want, auth)) /\ score[tx[s].art] # NoScore

LEMMA RecordStep ==
  ASSUME TypeOK, NEW s \in Scraper, Record(s)
  PROVE  \E want \in SUBSET Of(tx[s].art), auth \in BOOLEAN :
           /\ \A x \in want : disk[x] # 0
           /\ NewlyChanged(want) \cap ShareLocked = {}
           /\ Clears(s, want, auth) => ~ScoreLocked(tx[s].art)
           /\ Others(s)
           /\ tx'[s].stage = "recorded" /\ tx'[s].art = tx[s].art /\ tx'[s].auth = auth
           /\ tx'[s].inval = Invalidates(NewlyChanged(want))
           /\ tx'[s].cleared = Clears(s, want, auth)
           /\ tx'[s].reset = tx[s].reset /\ tx'[s].add = tx[s].add /\ tx'[s].remove = tx[s].remove
           /\ Want(s)' = want /\ \A x \in want : tx'[s].fp[x] = disk[x]
           /\ Changed(s)' = NewlyChanged(want)
           /\ tx'[s] \in Transaction
<1>1. PICK want \in SUBSET {x \in Of(tx[s].art) : disk[x] # 0}, auth \in BOOLEAN :
        /\ NewlyChanged(want) \cap ShareLocked = {}
        /\ Clears(s, want, auth) => ~ScoreLocked(tx[s].art)
        /\ tx' = [tx EXCEPT ![s] = [@ EXCEPT
             !.stage = "recorded", !.auth = auth, !.inval = Invalidates(NewlyChanged(want)),
             !.cleared = Clears(s, want, auth),
             !.fp = [x \in Image |-> IF x \in want THEN disk[x] ELSE 0]]]
  BY Zenon DEF Record, NewlyChanged, Clears
<1>2. tx \in [Scraper -> Transaction] /\ tx[s] \in Transaction BY DEF TypeOK
<1>3. Invalidates(NewlyChanged(want)) \in BOOLEAN /\ Clears(s, want, auth) \in BOOLEAN
  BY DEF Invalidates, Clears, ClearsEmpty
<1> DEFINE fp == [x \in Image |-> IF x \in want THEN disk[x] ELSE 0]
<1>5. fp \in [Image -> 0..MaxVersion] BY MatchingAssumption DEF TypeOK
<1>6. Others(s) /\ tx'[s] \in Transaction BY <1>1, <1>2, <1>3, <1>5 DEF Others, Transaction
<1>7. /\ tx'[s].stage = "recorded" /\ tx'[s].art = tx[s].art /\ tx'[s].auth = auth
      /\ tx'[s].inval = Invalidates(NewlyChanged(want))
      /\ tx'[s].cleared = Clears(s, want, auth)
      /\ tx'[s].reset = tx[s].reset /\ tx'[s].add = tx[s].add /\ tx'[s].remove = tx[s].remove
      /\ tx'[s].fp = fp
  BY <1>1, <1>2 DEF Transaction
<1>8. want \subseteq Image /\ want \in SUBSET Of(tx[s].art) /\ \A x \in want : disk[x] # 0
  BY <1>1 DEF Of
<1>9. Want(s)' = want /\ \A x \in want : tx'[s].fp[x] = disk[x] BY <1>7, <1>8 DEF Want
<1>10. ver' = ver BY DEF Record, images
<1>11. Changed(s)' = NewlyChanged(want) BY <1>9, <1>10 DEF Changed, NewlyChanged
<1> QED BY <1>1, <1>6, <1>7, <1>8, <1>9, <1>11

LEMMA RelinkStep ==
  ASSUME TypeOK, NEW s \in Scraper, Relink(s)
  PROVE  /\ Others(s) /\ tx'[s] \in Transaction
         /\ tx'[s].stage = "linked" /\ tx'[s].art = tx[s].art /\ tx'[s].auth = tx[s].auth
         /\ tx'[s].inval = tx[s].inval /\ tx'[s].cleared = tx[s].cleared
         /\ tx'[s].reset = Replayed(s) /\ tx'[s].add = Added(s)
         /\ tx'[s].remove = IF tx[s].auth THEN Existing(s) \ Want(s) ELSE {}
         /\ Want(s)' = Want(s) /\ tx'[s].fp = tx[s].fp /\ Changed(s)' = Changed(s)
<1>1. tx \in [Scraper -> Transaction] /\ tx[s] \in Transaction BY DEF TypeOK
<1>2. /\ Replayed(s) \in SUBSET Image /\ Added(s) \in SUBSET Image
      /\ Existing(s) \in SUBSET Image
  BY DEF Replayed, Added, Existing, Want, Of
<1>3. Others(s) /\ tx'[s] \in Transaction BY <1>1, <1>2 DEF Relink, Others, Transaction
<1>4. /\ tx'[s].stage = "linked" /\ tx'[s].art = tx[s].art /\ tx'[s].auth = tx[s].auth
      /\ tx'[s].inval = tx[s].inval /\ tx'[s].cleared = tx[s].cleared
      /\ tx'[s].reset = Replayed(s) /\ tx'[s].add = Added(s) /\ tx'[s].fp = tx[s].fp
      /\ tx'[s].remove = IF tx[s].auth THEN Existing(s) \ Want(s) ELSE {}
  BY <1>1 DEF Relink, Transaction
<1>5. ver' = ver BY DEF Relink, images
<1> QED BY <1>3, <1>4, <1>5 DEF Want, Changed

\* The end of a transaction, either way, and its beginning.
LEMMA OverStep ==
  ASSUME TypeOK, NEW s \in Scraper, CommitTx(s) \/ AbortTx(s)
  PROVE  Others(s) /\ tx'[s] = NoTx /\ Want(s)' = {} /\ Changed(s)' = {}
<1>1. Others(s) /\ tx'[s] = NoTx BY DEF TypeOK, CommitTx, AbortTx, Others
<1> QED BY <1>1, NoTxFacts DEF Want, Changed, Nowhere

LEMMA TouchStep ==
  ASSUME TypeOK, NEW s \in Scraper, NEW a \in Artwork, Touch(s, a)
  PROVE  /\ Others(s) /\ tx'[s] \in Transaction
         /\ tx'[s].stage = "touched" /\ tx'[s].art = a /\ ~tx'[s].cleared
         /\ tx'[s].reset = {} /\ tx'[s].add = {} /\ tx'[s].remove = {}
         /\ Want(s)' = {} /\ Changed(s)' = {}
<1>1. /\ Others(s) /\ tx'[s] \in Transaction
      /\ tx'[s].stage = "touched" /\ tx'[s].art = a /\ ~tx'[s].cleared
      /\ tx'[s].reset = {} /\ tx'[s].add = {} /\ tx'[s].remove = {} /\ tx'[s].fp = Nowhere
  BY MatchingAssumption, NoTxFacts DEF TypeOK, Touch, Others, Transaction
<1> QED BY <1>1 DEF Want, Changed, Nowhere

-----------------------------------------------------------------------------
(* Types.                                                                  *)

LEMMA TypeInit == Init => TypeOK
<1> SUFFICES ASSUME Init PROVE TypeOK
  OBVIOUS
<1> USE MatchingAssumption DEF Init
<1>1. disk \in [Image -> 0..MaxVersion] /\ ver \in [Image -> 0..MaxVersion]
  OBVIOUS
<1>2. tx \in [Scraper -> Transaction] BY NoTxFacts
<1>3. /\ parts \in [Image -> [ver : 0..MaxVersion, rev : 0..MaxRevision]]
      /\ rows \in [Image -> 0..MaxVersion] /\ embedded \in [Image -> 0..MaxVersion]
  BY DEF NoPart, Nowhere
<1>4. /\ results \in [Image -> Verdict \cup {NoVerdict}]
      /\ judged \in [Image -> Verdict \cup {NoVerdict}]
      /\ score \in [Artwork -> Score \cup {NoScore}]
      /\ upserts \in [Artwork -> Score \cup {NoScore, Kept}]
  OBVIOUS
<1> QED BY <1>1, <1>2, <1>3, <1>4 DEF TypeOK

LEMMA TypeEnvironment == TypeOK /\ TransactionsOK /\ Environment => TypeOK'
<1> SUFFICES ASSUME TypeOK, TransactionsOK, Environment PROVE TypeOK'
  OBVIOUS
<1> USE MatchingAssumption DEF Scraping, store, images, matches, blocking, writing, bounds, Locked
<1>1. ASSUME NEW x \in Image, Download(x) PROVE TypeOK'
  BY <1>1 DEF TypeOK, Download
<1>2. CASE LostDownload BY <1>2 DEF TypeOK, LostDownload
<1>3. CASE LostChange
  <2>1. score' \in [Artwork -> Score \cup {NoScore}] BY <1>3 DEF LostChange
  <2>2. lostVer' \in 1..MaxRevision /\ revision' \in 1..MaxRevision
    BY <1>3 DEF LostChange, LostRecorded, TypeOK
  <2> QED BY <2>1, <2>2, <1>3 DEF TypeOK, LostChange, ReplayAll
<1>4. CASE Replay
  <2>1. done' = {} /\ flag' \subseteq Artwork BY <1>4 DEF TypeOK, Replay, ReplayAll
  <2>2. txns' \in 0..MaxTxns BY <1>4 DEF TypeOK, Replay
  <2> QED BY <2>1, <2>2, <1>4 DEF TypeOK, Replay
<1>5. ASSUME NEW s \in Scraper, NEW a \in Artwork, Touch(s, a) PROVE TypeOK'
  <2>1. tx' = [tx EXCEPT ![s] = tx'[s]] BY <1>5 DEF TypeOK, Touch
  <2>2. tx' \in [Scraper -> Transaction] BY <2>1, <1>5, TouchStep DEF TypeOK
  <2> QED BY <2>2, <1>5 DEF TypeOK, Touch
<1>6. ASSUME NEW s \in Scraper, Record(s) PROVE TypeOK'
  <2>1. tx' = [tx EXCEPT ![s] = tx'[s]] BY <1>6 DEF TypeOK, Record
  <2>2. tx' \in [Scraper -> Transaction] BY <2>1, <1>6, RecordStep DEF TypeOK
  <2> QED BY <2>2, <1>6 DEF TypeOK, Record
<1>7. ASSUME NEW s \in Scraper, Relink(s) PROVE TypeOK'
  <2>1. tx' = [tx EXCEPT ![s] = tx'[s]] BY <1>7 DEF TypeOK, Relink
  <2>2. tx' \in [Scraper -> Transaction] BY <2>1, <1>7, RelinkStep DEF TypeOK
  <2> QED BY <2>2, <1>7 DEF TypeOK, Relink
<1>8. ASSUME NEW s \in Scraper, CommitTx(s) PROVE TypeOK'
  <2>1. tx[s] \in Transaction BY DEF TypeOK
  <2>2. tx' \in [Scraper -> Transaction] BY <1>8, NoTxFacts DEF TypeOK, CommitTx
  <2>3. ver' \in [Image -> 0..MaxVersion] /\ embedded' \in [Image -> 0..MaxVersion]
    BY <2>1, <1>8 DEF TypeOK, CommitTx, Transaction
  <2>4. score' \in [Artwork -> Score \cup {NoScore}]
    BY <1>8, ScoreFacts DEF TypeOK, CommitTx
  <2>5. flag' \subseteq Artwork
    <3>1. tx[s].art \in Artwork BY <1>8 DEF CommitTx, TransactionsOK, TxOK, Open
    <3> QED BY <3>1, <1>8 DEF TypeOK, CommitTx
  <2>6. linked' \subseteq Image /\ done' \subseteq linked'
    BY <2>1, <1>8 DEF TypeOK, CommitTx, Transaction
  <2> QED BY <2>2, <2>3, <2>4, <2>5, <2>6, <1>8 DEF TypeOK, CommitTx
<1>9. ASSUME NEW s \in Scraper, AbortTx(s) PROVE TypeOK'
  <2>1. tx' \in [Scraper -> Transaction] BY <1>9, NoTxFacts DEF TypeOK, AbortTx
  <2> QED BY <2>1, <1>9 DEF TypeOK, AbortTx
<1> QED BY <1>1, <1>2, <1>3, <1>4, <1>5, <1>6, <1>7, <1>8, <1>9 DEF Environment

LEMMA RestType == TypeOK /\ Rest => 
  /\ pc' = "idle" /\ rev' = 0 /\ lostRow' = 0 /\ finLinks' = {} /\ finArts' = {}
  /\ results' \in [Image -> Verdict \cup {NoVerdict}]
  /\ upserts' \in [Artwork -> Score \cup {NoScore, Kept}]
  /\ rows' = rows /\ parts' = parts
BY DEF Rest

LEMMA ScoreOfType ==
  ASSUME TypeOK, NEW x \in Accepted
  PROVE  ScoreOf(x) \in Score
BY DEF TypeOK, Accepted, ScoreOf, Score, Verdict, NoVerdict

LEMMA TypePipeline == TypeOK /\ HandsOK /\ (Cycle \/ PipelineFails) => TypeOK'
<1> SUFFICES ASSUME TypeOK, HandsOK, Cycle \/ PipelineFails PROVE TypeOK'
  OBVIOUS
<1> USE MatchingAssumption
    DEF Pipeline, Quiet, store, images, matches, blocking, writing, bounds, Locked
<1>1. CASE SkipBlocking BY <1>1 DEF TypeOK, SkipBlocking, NoParts, NoPart
<1>2. CASE ReadRevision BY <1>2 DEF TypeOK, ReadRevision
<1>3. CASE LoadRows
  <2>1. rows' \in [Image -> 0..MaxVersion] BY <1>3 DEF TypeOK, LoadRows
  <2> QED BY <2>1, <1>3 DEF TypeOK, LoadRows, NoParts, NoPart
<1>4. CASE WriteParts BY <1>4 DEF TypeOK, WriteParts, NoPart
<1>5. CASE RefuseFiles BY <1>5 DEF TypeOK, RefuseFiles, NoParts, NoPart, Nowhere
<1>6. CASE MarkEmbedded BY <1>6 DEF TypeOK, MarkEmbedded, Nowhere
<1>7. ASSUME NEW x \in Image, MatchImage(x) PROVE TypeOK'
  <2>1. parts[x].rev \in 1..MaxRevision BY <1>7 DEF TypeOK, HandsOK, MatchImage, Parted
  <2>2. results' \in [Image -> Verdict \cup {NoVerdict}] /\ faults' \in 0..MaxFaults /\ txns' = txns
    BY <2>1, <1>7 DEF TypeOK, MatchImage, Verdict, Fault
  <2> QED BY <2>2, <1>7 DEF TypeOK, MatchImage
<1>8. CASE BeginWrite BY <1>8 DEF TypeOK, BeginWrite
<1>9. CASE LockImages
  <2>1. CASE Rest BY <2>1, <1>9, RestType DEF TypeOK, LockImages
  <2>2. CASE ~Rest BY <2>2, <1>9 DEF TypeOK, LockImages
  <2> QED BY <2>1, <2>2
<1>10. CASE LockRevision
  <2>1. CASE Rest BY <2>1, <1>10, RestType DEF TypeOK, LockRevision
  <2>2. CASE ~Rest BY <2>2, <1>10 DEF TypeOK, LockRevision
  <2> QED BY <2>1, <2>2
<1>11. CASE Upsert
  <2>1. upserts' \in [Artwork -> Score \cup {NoScore, Kept}]
    BY <1>11, ScoreOfType, RestType DEF Upsert
  <2>2. CASE Rest BY <2>2, <1>11, RestType DEF TypeOK, Upsert
  <2>3. CASE ~Rest BY <2>1, <2>3, <1>11 DEF TypeOK, Upsert
  <2> QED BY <2>2, <2>3
<1>12. CASE Finalize BY <1>12 DEF TypeOK, Finalize
<1>13. CASE CommitWrite
  <2>1. score' \in [Artwork -> Score \cup {NoScore}]
    BY <1>13, ScoreFacts DEF TypeOK, CommitWrite, Score
  <2>2. judged' \in [Image -> Verdict \cup {NoVerdict}] BY <1>13 DEF TypeOK, CommitWrite
  <2> QED BY <2>1, <2>2, <1>13, RestType DEF TypeOK, CommitWrite
<1>14. CASE PipelineFails BY <1>14 DEF TypeOK, PipelineFails, Fault, Nowhere
<1> QED
  BY <1>1, <1>2, <1>3, <1>4, <1>5, <1>6, <1>7, <1>8, <1>9, <1>10, <1>11, <1>12, <1>13, <1>14
     DEF Cycle

-----------------------------------------------------------------------------
(* What the steps leave alone.                                             *)

LEMMA EnvironmentFrame ==
  Environment => UNCHANGED <<pc, rev, rows, lostRow, parts, results, upserts, finLinks, finArts>>
BY DEF Environment, Download, LostDownload, LostChange, Replay, Touch, Record, Relink, CommitTx,
       AbortTx, Scraping, blocking, writing

LEMMA PipelineFrame ==
  Cycle \/ PipelineFails =>
    /\ UNCHANGED <<disk, lostDisk, ver, lostVer, revision, tx, linked>>
    /\ embedded' = embedded \/ MarkEmbedded
    /\ UNCHANGED <<score, judged, done>> \/ CommitWrite
<1> USE DEF Pipeline, Quiet, store, images, matches, blocking, writing
<1>1. ASSUME NEW x \in Image, MatchImage(x)
      PROVE  UNCHANGED <<disk, lostDisk, ver, lostVer, revision, tx, linked, embedded, score,
                         judged, done>>
  BY <1>1 DEF MatchImage
<1>2. CASE CommitWrite BY <1>2 DEF CommitWrite
<1>3. CASE MarkEmbedded BY <1>3 DEF MarkEmbedded
<1>4. CASE SkipBlocking \/ ReadRevision \/ LoadRows \/ WriteParts \/ RefuseFiles
  BY <1>4 DEF SkipBlocking, ReadRevision, LoadRows, WriteParts, RefuseFiles
<1>5. CASE BeginWrite \/ LockImages \/ LockRevision \/ Upsert \/ Finalize
  BY <1>5 DEF BeginWrite, LockImages, LockRevision, Upsert, Finalize
<1>6. CASE PipelineFails BY <1>6 DEF PipelineFails
<1> QED BY <1>1, <1>2, <1>3, <1>4, <1>5, <1>6 DEF Cycle

\* Only a transaction that commits changes the rows of auction images, and only of those it
\* wants; its artwork is its own, so nobody else's change is touched.
LEMMA CommitStep ==
  ASSUME TypeOK, VersionsOK, TransactionsOK, NEW s \in Scraper, CommitTx(s)
  PROVE  /\ \A x \in Image : ver'[x] = IF x \in Want(s) THEN tx[s].fp[x] ELSE ver[x]
         /\ \A x \in Image : x \notin Want(s) => ver'[x] = ver[x]
         /\ \A x \in linked : x \notin Changed(s) => ver'[x] = ver[x]
         /\ \A x \in Want(s) : x \in Image /\ Owner[x] = tx[s].art
         /\ \A x \in tx[s].remove : Owner[x] = tx[s].art
         /\ \A x \in tx[s].add : x \in Want(s)
         /\ tx[s].art \in Artwork
         /\ \A q \in Scraper : q # s =>
              /\ Open(q) => tx[q].art # tx[s].art
              /\ Want(q)' = Want(q) /\ Changed(q)' = Changed(q)
         /\ linked' = (linked \ tx[s].remove) \cup tx[s].add
         /\ disk' = disk /\ lostDisk' = lostDisk /\ lostVer' = lostVer
<1>1. \A x \in Image : ver'[x] = IF x \in Want(s) THEN tx[s].fp[x] ELSE ver[x]
  BY DEF CommitTx
<1>2. TxOK(s) /\ Open(s) BY DEF TransactionsOK, CommitTx, Open
<1>3. \A x \in Want(s) : x \in Image /\ Owner[x] = tx[s].art BY <1>2 DEF TxOK, Want
<1>4. \A x \in tx[s].remove : Owner[x] = tx[s].art BY <1>2 DEF TxOK, Of
<1>5. \A x \in tx[s].add : x \in Want(s) BY <1>2 DEF TxOK
<1>6. \A x \in linked : x \notin Changed(s) => ver'[x] = ver[x]
  BY <1>1 DEF VersionsOK, Changed, TypeOK
<1>7. ASSUME NEW q \in Scraper, q # s
      PROVE  /\ Open(q) => tx[q].art # tx[s].art
             /\ Want(q)' = Want(q) /\ Changed(q)' = Changed(q)
  <2>1. Open(q) => tx[q].art # tx[s].art BY <1>2, <1>7 DEF TransactionsOK, HeldAlone
  <2>2. tx'[q] = tx[q] BY <1>7, OverStep DEF Others
  <2>3. Want(q)' = Want(q) BY <2>2 DEF Want
  <2>4. ASSUME NEW x \in Want(q) PROVE x \notin Want(s)
    <3>1. TxOK(q) BY DEF TransactionsOK
    <3>2. Open(q) BY <3>1, NoTxFacts DEF TxOK, Want, Nowhere
    <3>3. Owner[x] = tx[q].art BY <3>1 DEF TxOK
    <3> QED BY <3>2, <3>3, <2>1, <1>3
  <2>5. Want(q) \subseteq Image BY DEF Want
  <2>6. \A x \in Want(q) : ver'[x] = ver[x] BY <2>4, <2>5, <1>1
  <2>7. Changed(q)' = Changed(q) BY <2>2, <2>3, <2>6 DEF Changed
  <2> QED BY <2>1, <2>3, <2>7
<1>8. /\ linked' = (linked \ tx[s].remove) \cup tx[s].add
      /\ disk' = disk /\ lostDisk' = lostDisk /\ lostVer' = lostVer
  BY DEF CommitTx, store
<1>9. tx[s].art \in Artwork BY <1>2 DEF TxOK
<1> QED BY <1>1, <1>3, <1>4, <1>5, <1>6, <1>7, <1>8, <1>9

-----------------------------------------------------------------------------
(* Versions and transactions.                                              *)

LEMMA VersionsStep ==
  TypeOK /\ VersionsOK /\ TransactionsOK /\ (Environment \/ Cycle \/ PipelineFails) => VersionsOK'
<1> SUFFICES ASSUME TypeOK, VersionsOK, TransactionsOK, Environment \/ Cycle \/ PipelineFails
             PROVE  VersionsOK'
  OBVIOUS
<1>1. CASE Cycle \/ PipelineFails BY <1>1, PipelineFrame DEF VersionsOK
<1>2. ASSUME NEW x \in Image, Download(x) PROVE VersionsOK'
  BY <1>2 DEF VersionsOK, TypeOK, Download, images, matches
<1>3. CASE LostDownload BY <1>3 DEF VersionsOK, TypeOK, LostDownload, images, matches
<1>4. CASE LostChange BY <1>4 DEF VersionsOK, TypeOK, LostChange, LostRecorded, store
<1>5. CASE Replay BY <1>5 DEF VersionsOK, Replay, store, images
<1>6. ASSUME NEW s \in Scraper, CommitTx(s) PROVE VersionsOK'
  <2>1. TxOK(s) BY DEF TransactionsOK
  <2>2. \A x \in Image : ver'[x] <= disk'[x]
    BY <2>1, <1>6, CommitStep DEF VersionsOK, TypeOK, TxOK
  <2>3. \A x \in linked' : ver'[x] # 0
    BY <2>1, <1>6, CommitStep DEF VersionsOK, TypeOK, TxOK, Want
  <2> QED BY <2>2, <2>3, <1>6, CommitStep DEF VersionsOK
<1>7. ASSUME NEW s \in Scraper,
             (\E a \in Artwork : Touch(s, a)) \/ Record(s) \/ Relink(s) \/ AbortTx(s)
      PROVE  VersionsOK'
  BY <1>7 DEF VersionsOK, Touch, Record, Relink, AbortTx, store, images, matches
<1> QED BY <1>1, <1>2, <1>3, <1>4, <1>5, <1>6, <1>7 DEF Environment

LEMMA EmbeddedStep ==
  TypeOK /\ VersionsOK /\ TransactionsOK /\ EmbeddedIsCurrent
    /\ (Environment \/ Cycle \/ PipelineFails) => EmbeddedIsCurrent'
<1> SUFFICES ASSUME TypeOK, VersionsOK, TransactionsOK, EmbeddedIsCurrent,
                    Environment \/ Cycle \/ PipelineFails
             PROVE  EmbeddedIsCurrent'
  OBVIOUS
<1>1. CASE MarkEmbedded
  BY <1>1 DEF MarkEmbedded, EmbeddedIsCurrent
<1>2. CASE (Cycle \/ PipelineFails) /\ ~MarkEmbedded
  BY <1>2, PipelineFrame DEF EmbeddedIsCurrent
<1>3. ASSUME NEW s \in Scraper, CommitTx(s) PROVE EmbeddedIsCurrent'
  <2> SUFFICES ASSUME NEW x \in Image PROVE embedded'[x] \in {0, ver'[x]}
    BY DEF EmbeddedIsCurrent
  <2>1. embedded'[x] = IF x \in Changed(s) THEN 0 ELSE embedded[x] BY <1>3 DEF CommitTx
  <2>2. embedded[x] \in {0, ver[x]} BY DEF EmbeddedIsCurrent
  <2>3. CASE x \in Want(s)
    BY <2>1, <2>2, <2>3, <1>3, CommitStep DEF Changed
  <2>4. CASE x \notin Want(s) BY <2>1, <2>2, <2>4, <1>3, CommitStep
  <2> QED BY <2>3, <2>4
<1>4. CASE \E x \in Image : Download(x) BY <1>4 DEF EmbeddedIsCurrent, Download, images
<1>5. CASE LostDownload \/ LostChange \/ Replay
  BY <1>5 DEF EmbeddedIsCurrent, LostDownload, LostChange, Replay, images
<1>6. ASSUME NEW s \in Scraper,
             (\E a \in Artwork : Touch(s, a)) \/ Record(s) \/ Relink(s) \/ AbortTx(s)
      PROVE  EmbeddedIsCurrent'
  BY <1>6 DEF EmbeddedIsCurrent, Touch, Record, Relink, AbortTx, images
<1> QED BY <1>1, <1>2, <1>3, <1>4, <1>5, <1>6 DEF Environment

\* Nothing of a transaction that takes no step changes, unless its images' rows do.
LEMMA OtherTransaction ==
  ASSUME NEW s \in Scraper, TxOK(s), tx'[s] = tx[s], linked' = linked, ver' = ver,
         \A x \in Image : disk[x] <= disk'[x], TypeOK, TypeOK'
  PROVE  TxOK(s)'
<1>1. Want(s)' = Want(s) /\ Changed(s)' = Changed(s) BY DEF Want, Changed
<1>2. \A x \in Want(s) : x \in Image BY DEF Want
<1>3. \A x \in Want(s) : tx[s].fp[x] <= disk'[x]
  BY <1>2 DEF TxOK, TypeOK, Transaction
<1> QED BY <1>1, <1>3 DEF TxOK, Open

LEMMA TransactionsStep ==
  TypeOK /\ TypeOK' /\ VersionsOK /\ TransactionsOK /\ (Environment \/ Cycle \/ PipelineFails)
    => TransactionsOK'
<1> SUFFICES ASSUME TypeOK, TypeOK', VersionsOK, TransactionsOK,
                    Environment \/ Cycle \/ PipelineFails
             PROVE  TransactionsOK'
  OBVIOUS
<1>a. \A s \in Scraper : TxOK(s) BY DEF TransactionsOK
<1>b. \A x \in Image : disk[x] <= disk[x] BY DEF TypeOK
<1>1. CASE Cycle \/ PipelineFails
  <2>1. tx' = tx /\ linked' = linked /\ ver' = ver /\ disk' = disk BY <1>1, PipelineFrame
  <2>2. \A s \in Scraper : TxOK(s)' BY <2>1, <1>a, <1>b, OtherTransaction
  <2>3. HeldAlone' BY <2>1 DEF TransactionsOK, HeldAlone, Open
  <2> QED BY <2>2, <2>3 DEF TransactionsOK
<1>2. CASE (\E x \in Image : Download(x)) \/ LostDownload \/ LostChange \/ Replay
  <2>1. tx' = tx /\ linked' = linked /\ ver' = ver
    BY <1>2 DEF Download, LostDownload, LostChange, Replay, images, matches
  <2>2. \A x \in Image : disk[x] <= disk'[x]
    <3>1. ASSUME NEW y \in Image, Download(y) PROVE \A x \in Image : disk[x] <= disk'[x]
      BY <3>1 DEF Download, TypeOK
    <3>2. CASE LostDownload \/ LostChange \/ Replay
      BY <3>2, <1>b DEF LostDownload, LostChange, Replay, store
    <3> QED BY <3>1, <3>2, <1>2
  <2>3. \A s \in Scraper : TxOK(s)' BY <2>1, <2>2, <1>a, OtherTransaction
  <2>4. HeldAlone' BY <2>1 DEF TransactionsOK, HeldAlone, Open
  <2> QED BY <2>3, <2>4 DEF TransactionsOK
<1>3. ASSUME NEW s \in Scraper,
             (\E a \in Artwork : Touch(s, a)) \/ Record(s) \/ Relink(s) \/ AbortTx(s)
      PROVE  TransactionsOK'
  <2>1. disk' = disk /\ ver' = ver /\ linked' = linked
    BY <1>3 DEF Touch, Record, Relink, AbortTx, store, images, matches
  <2>2. Others(s)
    BY <1>3, TouchStep, RecordStep, RelinkStep, OverStep
  <2>3. \A q \in Scraper : q # s => TxOK(q)'
    BY <2>1, <2>2, <1>a, <1>b, OtherTransaction DEF Others
  <2>4. TxOK(s)' /\ (Open(s)' => /\ Open(s) => tx'[s].art = tx[s].art
                                 /\ Open(s) \/ \A q \in Scraper : Open(q) => tx[q].art # tx'[s].art)
    <3>1. ASSUME NEW a \in Artwork, Touch(s, a)
          PROVE  TxOK(s)' /\ ~Open(s) /\ \A q \in Scraper : Open(q) => tx[q].art # tx'[s].art
      BY <3>1, TouchStep DEF TxOK, Open, Touch, Of
    <3>2. CASE Record(s)
      <4>1. PICK want \in SUBSET Of(tx[s].art), auth \in BOOLEAN :
              /\ tx'[s].stage = "recorded" /\ tx'[s].art = tx[s].art /\ tx'[s].auth = auth
              /\ tx'[s].inval = Invalidates(NewlyChanged(want))
              /\ tx'[s].cleared = Clears(s, want, auth)
              /\ tx'[s].reset = tx[s].reset /\ tx'[s].add = tx[s].add
              /\ tx'[s].remove = tx[s].remove
              /\ Want(s)' = want /\ \A x \in want : tx'[s].fp[x] = disk[x]
              /\ Changed(s)' = NewlyChanged(want)
        BY <3>2, RecordStep
      <4>2. tx[s].stage = "touched" /\ Open(s) BY <3>2 DEF Record, Open
      <4>3. \A x \in want : x \in Image /\ Owner[x] = tx[s].art BY DEF Of
      <4>4. \A x \in want : ver'[x] <= tx'[s].fp[x] /\ tx'[s].fp[x] <= disk'[x]
        BY <4>1, <4>3, <2>1 DEF VersionsOK, TypeOK
      <4>5. Changed(s)' \cap linked' # {} => tx'[s].inval BY <4>1, <2>1 DEF Invalidates
      <4>6. tx'[s].cleared => tx'[s].inval \/ (tx'[s].auth /\ Want(s)' = {})
        BY <4>1 DEF Clears, ClearsEmpty
      <4>7. tx[s].reset = {} /\ tx[s].add = {} /\ tx[s].remove = {} /\ tx[s].art \in Artwork
        BY <4>2, <1>a DEF TxOK
      <4> QED BY <4>1, <4>2, <4>3, <4>4, <4>5, <4>6, <4>7 DEF TxOK, Open
    <3>3. CASE Relink(s)
      <4>1. tx[s].stage = "recorded" /\ Open(s) BY <3>3 DEF Relink, Open
      <4>2. /\ Added(s) \subseteq Want(s)
            /\ Existing(s) \subseteq Of(tx[s].art)
        BY DEF Added, Existing
      <4>3. TxOK(s) BY <1>a
      <4> QED BY <4>1, <4>2, <4>3, <3>3, <2>1, RelinkStep DEF TxOK, Open, Of
    <3>4. CASE AbortTx(s) BY <3>4, OverStep, NoTxFacts DEF TxOK, Open
    <3> QED BY <3>1, <3>2, <3>3, <3>4, <1>3
  <2>5. HeldAlone' BY <2>2, <2>4 DEF TransactionsOK, HeldAlone, Others, Open
  <2> QED BY <2>3, <2>4, <2>5 DEF TransactionsOK
<1>4. ASSUME NEW s \in Scraper, CommitTx(s) PROVE TransactionsOK'
  <2>1. TxOK(s)' BY <1>4, OverStep, NoTxFacts DEF TxOK, Open
  <2>2. ASSUME NEW q \in Scraper, q # s PROVE TxOK(q)'
    <3>1. TxOK(q) /\ tx'[q] = tx[q] BY <1>a, <1>4, <2>2, OverStep DEF Others
    <3>2. Want(q)' = Want(q) /\ Changed(q)' = Changed(q) BY <1>4, <2>2, CommitStep
    <3>3. \A x \in Want(q) : x \in Image /\ x \notin Want(s)
      <4>1. Open(q) \/ Want(q) = {} BY <3>1, NoTxFacts DEF TxOK, Want, Nowhere
      <4> QED BY <4>1, <3>1, <2>2, <1>4, CommitStep DEF TxOK, Want
    <3>4. \A x \in Want(q) : ver'[x] = ver[x] /\ disk' = disk BY <3>3, <1>4, CommitStep
    <3>5. \A x \in Want(q) : x \in linked' => x \in linked
      BY <3>3, <1>4, CommitStep
    <3>6. Changed(q) \cap linked' # {} => Changed(q) \cap linked # {}
      BY <3>5 DEF Changed
    <3> QED BY <3>1, <3>2, <3>4, <3>6 DEF TxOK, Open
  <2>3. HeldAlone' BY <1>4, <2>1, OverStep, NoTxFacts DEF TransactionsOK, HeldAlone, Others, Open
  <2> QED BY <2>1, <2>2, <2>3 DEF TransactionsOK
<1> QED BY <1>1, <1>2, <1>3, <1>4 DEF Environment

-----------------------------------------------------------------------------
(* What the pipeline has in hand.                                          *)

LEMMA NoVerdicts ==
  (\A x \in Image : results'[x] = NoVerdict) => Accepted' = {} /\ Processed' = {} /\ Resolved' = {}
BY DEF NoVerdict, Accepted, Processed, Resolved

\* A step of the environment leaves what was read behind the files, and a lost change
\* leaves every verdict behind the revision.
LEMMA HandsEnvironment ==
  TypeOK /\ TypeOK' /\ HandsOK /\ Environment => HandsOK'
<1> SUFFICES ASSUME TypeOK, TypeOK', HandsOK, Environment PROVE HandsOK'
  OBVIOUS
<1> USE EnvironmentFrame
<1>1. \A x \in Image : disk[x] <= disk'[x]
  <2>1. ASSUME NEW y \in Image, Download(y) PROVE \A x \in Image : disk[x] <= disk'[x]
    BY <2>1 DEF Download, TypeOK
  <2>2. CASE UNCHANGED disk BY <2>2 DEF TypeOK
  <2> QED
    BY <2>1, <2>2 DEF Environment, LostDownload, LostChange, Replay, Touch, Record, Relink,
                      CommitTx, AbortTx, store
<1>2. \/ LostChange
      \/ revision' = revision /\ lostVer' = lostVer
  BY DEF Environment, Download, LostDownload, LostChange, Replay, Touch, Record, Relink,
         CommitTx, AbortTx, images
<1>3. /\ rev' <= revision' /\ (pc' \in {"load", "rank"} => rev' # 0)
      /\ \A x \in Image : /\ rows'[x] <= disk'[x]
                          /\ parts'[x].ver <= disk'[x] /\ parts'[x].rev <= revision'
                          /\ parts'[x].ver # 0 => parts'[x].rev # 0
  <2>1. revision <= revision' BY <1>2 DEF LostChange, TypeOK
  <2>2. /\ \A x \in Image : rows[x] <= disk'[x] /\ parts[x].ver <= disk'[x]
        /\ rev <= revision' /\ \A x \in Image : parts[x].rev <= revision'
    BY <1>1, <2>1 DEF HandsOK, TypeOK
  <2> QED BY <2>2 DEF HandsOK
<1>4. ASSUME NEW x \in Image, results'[x] # NoVerdict
      PROVE  /\ pc' \in {"match", "lockimages"} \cup Locked
             /\ parts'[x].ver # 0
             /\ results'[x].rev = parts'[x].rev /\ results'[x].bytes >= parts'[x].ver
             /\ results'[x].rev = revision' => results'[x].lost >= lostVer'
  <2>1. CASE LostChange
    <3>1. results[x].rev <= revision BY <1>4 DEF HandsOK
    <3>2. revision' = revision + 1 BY <2>1 DEF LostChange
    <3>3. results[x].rev # revision' BY <3>1, <3>2, <1>4 DEF TypeOK, Verdict
    <3> QED BY <3>3, <1>4 DEF HandsOK
  <2>2. CASE revision' = revision /\ lostVer' = lostVer BY <2>2, <1>4 DEF HandsOK
  <2> QED BY <2>1, <2>2, <1>2
<1> QED BY <1>3, <1>4 DEF HandsOK, Locked

LEMMA HandsPipeline ==
  TypeOK /\ VersionsOK /\ HandsOK /\ (Cycle \/ PipelineFails) => HandsOK'
<1> SUFFICES ASSUME TypeOK, VersionsOK, HandsOK, Cycle \/ PipelineFails PROVE HandsOK'
  OBVIOUS
<1> USE PipelineFrame
        DEF HandsOK, Pipeline, Quiet, blocking, writing, NoParts, NoPart, Nowhere, Locked
<1>1. CASE SkipBlocking BY <1>1 DEF SkipBlocking, TypeOK
<1>2. CASE ReadRevision BY <1>2 DEF ReadRevision, TypeOK
<1>3. CASE LoadRows
  <2>1. \A x \in Image : rows'[x] <= disk'[x] BY <1>3 DEF LoadRows, TypeOK, VersionsOK
  <2> QED BY <2>1, <1>3 DEF LoadRows, TypeOK
<1>4. CASE WriteParts BY <1>4 DEF WriteParts, TypeOK
<1>5. CASE RefuseFiles BY <1>5 DEF RefuseFiles, TypeOK
<1>6. CASE MarkEmbedded BY <1>6 DEF MarkEmbedded, TypeOK
<1>7. ASSUME NEW x \in Image, MatchImage(x) PROVE HandsOK'
  <2>1. /\ pc = "match" /\ parts[x].ver # 0
        /\ results'[x].rev = parts[x].rev /\ results'[x].bytes = disk[x]
        /\ results'[x].lost = lostDisk
        /\ \A y \in Image : y # x => results'[y] = results[y]
    BY <1>7 DEF MatchImage, Parted, TypeOK
  <2>2. results'[x].bytes >= parts[x].ver /\ results'[x].lost >= lostVer
    BY <2>1 DEF TypeOK, VersionsOK
  <2> QED BY <2>1, <2>2, <1>7 DEF MatchImage
<1>8. CASE BeginWrite BY <1>8 DEF BeginWrite
<1>9. CASE (LockImages /\ ~Rest) \/ (LockRevision /\ ~Rest) \/ (Upsert /\ ~Rest) \/ Finalize
  <2>1. pc \in {"lockimages"} \cup Locked /\ pc' \in Locked
    BY <1>9 DEF LockImages, LockRevision, Upsert, Finalize
  <2>2. UNCHANGED <<blocking, results>>
    BY <1>9 DEF LockImages, LockRevision, Upsert, Finalize
  <2> QED BY <2>1, <2>2
<1>10. CASE Rest BY <1>10, MatchingAssumption DEF Rest, TypeOK
<1>11. CASE PipelineFails BY <1>11, MatchingAssumption DEF PipelineFails, TypeOK
<1> QED
  BY <1>1, <1>2, <1>3, <1>4, <1>5, <1>6, <1>7, <1>8, <1>9, <1>10, <1>11 DEF Cycle, CommitWrite

-----------------------------------------------------------------------------
(* The matcher's locks.                                                    *)

LEMMA SameVerdicts ==
  results' = results => Accepted' = Accepted /\ Processed' = Processed /\ Resolved' = Resolved
BY DEF Accepted, Processed, Resolved

LEMMA ResolvedHasVerdict ==
  ASSUME NEW x \in Resolved
  PROVE  x \in Image /\ results[x] # NoVerdict
BY DEF Resolved, Accepted, Processed, NoVerdict

\* A transaction that is not open has changed no row.
LEMMA ClosedUnchanged ==
  ASSUME TransactionsOK, NEW s \in Scraper, ~Open(s)
  PROVE  Changed(s) = {}
BY NoTxFacts DEF TransactionsOK, TxOK, Changed, Want, Nowhere

LEMMA LocksEnvironment ==
  TypeOK /\ VersionsOK /\ TransactionsOK /\ HandsOK /\ LocksOK /\ Environment => LocksOK'
<1> SUFFICES ASSUME TypeOK, VersionsOK, TransactionsOK, HandsOK, LocksOK, Environment
             PROVE  LocksOK'
  OBVIOUS
<1>a. Resolved' = Resolved /\ pc' = pc /\ parts' = parts /\ results' = results
  BY EnvironmentFrame, SameVerdicts
<1>1. CASE (\E x \in Image : Download(x)) \/ LostDownload \/ Replay
  <2>1. tx' = tx /\ ver' = ver /\ revision' = revision
    BY <1>1 DEF Download, LostDownload, Replay, images
  <2>2. \A s \in Scraper : Changed(s)' = Changed(s) BY <2>1 DEF Changed, Want
  <2> QED BY <2>1, <2>2, <1>a DEF LocksOK, Locked
<1>2. CASE LostChange
  <2>1. tx' = tx /\ ver' = ver BY <1>2 DEF LostChange
  <2>2. \A s \in Scraper : Changed(s)' = Changed(s) BY <2>1 DEF Changed, Want
  <2>3. pc \in Locked \ {"lockrevision"} => Resolved = {} BY <1>2 DEF LostChange, RevisionLocked
  <2> QED BY <2>1, <2>2, <2>3, <1>a DEF LocksOK, Locked
<1>3. ASSUME NEW s \in Scraper,
             (\E a \in Artwork : Touch(s, a)) \/ Record(s) \/ Relink(s) \/ AbortTx(s)
      PROVE  LocksOK'
  <2>1. ver' = ver /\ revision' = revision
    BY <1>3 DEF Touch, Record, Relink, AbortTx, images
  <2>2. Others(s) BY <1>3, TouchStep, RecordStep, RelinkStep, OverStep
  <2>3. \A q \in Scraper : q # s => Changed(q)' = Changed(q)
    BY <2>1, <2>2 DEF Others, Changed, Want
  <2>4. pc \in Locked => \A x \in Resolved : x \notin Changed(s)'
    <3>1. CASE Record(s)
      <4>1. PICK want \in SUBSET Of(tx[s].art) :
              NewlyChanged(want) \cap ShareLocked = {} /\ Changed(s)' = NewlyChanged(want)
        BY <3>1, RecordStep
      <4> QED BY <4>1 DEF ShareLocked
    <3>2. CASE Relink(s) BY <3>2, RelinkStep DEF LocksOK
    <3>3. CASE AbortTx(s) BY <3>3, OverStep
    <3>4. CASE \E a \in Artwork : Touch(s, a) BY <3>4, TouchStep
    <3> QED BY <3>1, <3>2, <3>3, <3>4, <1>3
  <2> QED BY <2>1, <2>3, <2>4, <1>a DEF LocksOK, Locked
<1>4. ASSUME NEW s \in Scraper, CommitTx(s) PROVE LocksOK'
  <2>1. revision' = revision BY <1>4 DEF CommitTx
  <2>2. Changed(s)' = {} BY <1>4, OverStep
  <2>3. \A q \in Scraper : q # s => Changed(q)' = Changed(q) BY <1>4, CommitStep
  <2>4. ASSUME pc \in Locked, NEW x \in Resolved PROVE ver'[x] = parts[x].ver
    <3>1. x \in Image /\ ver[x] = parts[x].ver /\ x \notin Changed(s) /\ parts[x].ver # 0
      BY <2>4, ResolvedHasVerdict DEF LocksOK, HandsOK
    <3>2. ver'[x] = IF x \in Want(s) THEN tx[s].fp[x] ELSE ver[x] BY <3>1, <1>4, CommitStep
    <3> QED BY <3>1, <3>2 DEF Changed
  <2> QED BY <2>1, <2>2, <2>3, <2>4, <1>a DEF LocksOK, Locked
<1> QED BY <1>1, <1>2, <1>3, <1>4 DEF Environment

LEMMA LocksPipeline ==
  TypeOK /\ TransactionsOK /\ HandsOK /\ LocksOK /\ (Cycle \/ PipelineFails) => LocksOK'
<1> SUFFICES ASSUME TypeOK, TransactionsOK, HandsOK, LocksOK, Cycle \/ PipelineFails
             PROVE  LocksOK'
  OBVIOUS
<1>a. ver' = ver /\ revision' = revision /\ \A s \in Scraper : Changed(s)' = Changed(s)
  BY PipelineFrame DEF Changed, Want
<1>1. CASE SkipBlocking \/ ReadRevision \/ LoadRows \/ WriteParts \/ RefuseFiles \/ MarkEmbedded
             \/ (\E x \in Image : MatchImage(x)) \/ Rest \/ PipelineFails
  <2>1. pc' \in {"idle", "load", "rank", "mark", "match"}
    BY <1>1 DEF SkipBlocking, ReadRevision, LoadRows, WriteParts, RefuseFiles, MarkEmbedded,
                MatchImage, Rest, PipelineFails
  <2> QED BY <2>1 DEF LocksOK, Locked
<1>2. CASE BeginWrite
  <2>1. Resolved' = Resolved BY <1>2, SameVerdicts DEF BeginWrite
  <2> QED BY <2>1, <1>2 DEF BeginWrite, LocksOK, Locked
<1>3. CASE LockImages /\ ~Rest
  <2>1. Resolved' = Resolved /\ parts' = parts /\ pc' = "lockrevision"
    BY <1>3, SameVerdicts DEF LockImages, blocking
  <2>2. \A x \in Resolved : ver[x] = parts[x].ver BY <1>3 DEF LockImages
  <2>3. \A x \in Resolved : \A s \in Scraper : x \notin Changed(s)
    BY <1>3, ClosedUnchanged DEF LockImages
  <2> QED BY <2>1, <2>2, <2>3, <1>a DEF LocksOK, Locked
<1>4. CASE LockRevision /\ ~Rest
  <2>1. Resolved' = Resolved /\ parts' = parts /\ results' = results /\ pc' = "upsert"
    BY <1>4, SameVerdicts DEF LockRevision, blocking
  <2>2. \A x \in Resolved : results[x].rev = revision
    BY <1>4, ResolvedHasVerdict DEF LockRevision, HandsOK
  <2> QED BY <2>1, <2>2, <1>4, <1>a DEF LocksOK, Locked, LockRevision
<1>5. CASE (Upsert /\ ~Rest) \/ Finalize
  <2>1. Resolved' = Resolved /\ parts' = parts /\ results' = results /\ pc \in {"upsert", "finalize"}
    BY <1>5, SameVerdicts DEF Upsert, Finalize, blocking
  <2> QED BY <2>1, <1>a DEF LocksOK, Locked
<1> QED BY <1>1, <1>2, <1>3, <1>4, <1>5 DEF Cycle, CommitWrite

-----------------------------------------------------------------------------
(* What the matcher is about to write.                                     *)

LEMMA ClearedHasArtwork ==
  ASSUME TransactionsOK, NEW s \in Scraper, tx[s].cleared
  PROVE  Open(s) /\ tx[s].art \in Artwork
BY NoTxFacts DEF TransactionsOK, TxOK, Open

LEMMA UpsertsEnvironment ==
  TypeOK /\ VersionsOK /\ TransactionsOK /\ UpsertsOK /\ Environment => UpsertsOK'
<1> SUFFICES ASSUME TypeOK, VersionsOK, TransactionsOK, UpsertsOK, Environment
             PROVE  UpsertsOK'
  OBVIOUS
<1>a. /\ Accepted' = Accepted /\ Processed' = Processed /\ pc' = pc /\ upserts' = upserts
      /\ finLinks' = finLinks /\ results' = results
  BY EnvironmentFrame, SameVerdicts
<1>b. \A x : ScoreOf(x)' = ScoreOf(x) BY <1>a DEF ScoreOf
<1>c. SUFFICES /\ \A a \in Artwork : upserts[a] = Kept => score'[a] # NoScore
               /\ \A s \in Scraper : tx'[s].cleared => upserts[tx'[s].art] = NoScore
  BY <1>a, <1>b DEF UpsertsOK
<1>1. CASE (\E x \in Image : Download(x)) \/ LostDownload \/ Replay
  BY <1>1 DEF Download, LostDownload, Replay, matches, UpsertsOK
<1>2. CASE LostChange
  <2>1. tx' = tx BY <1>2 DEF LostChange
  <2>2. ASSUME NEW a \in Artwork PROVE upserts[a] # Kept
    <3>1. ~ScoreLocked(a) BY <1>2 DEF LostChange
    <3>2. Kept # NoScore BY DEF Kept, NoScore
    <3> QED BY <3>1, <3>2 DEF ScoreLocked, UpsertsOK
  <2> QED BY <2>1, <2>2 DEF UpsertsOK
<1>3. ASSUME NEW s \in Scraper,
             (\E a \in Artwork : Touch(s, a)) \/ Record(s) \/ Relink(s) \/ AbortTx(s)
      PROVE  /\ \A a \in Artwork : upserts[a] = Kept => score'[a] # NoScore
             /\ \A q \in Scraper : tx'[q].cleared => upserts[tx'[q].art] = NoScore
  <2>1. score' = score BY <1>3 DEF Touch, Record, Relink, AbortTx, matches
  <2>2. Others(s) BY <1>3, TouchStep, RecordStep, RelinkStep, OverStep
  <2>3. tx'[s].cleared => upserts[tx'[s].art] = NoScore
    <3>1. CASE Record(s)
      <4>1. PICK want \in SUBSET Of(tx[s].art), auth \in BOOLEAN :
              /\ Clears(s, want, auth) => ~ScoreLocked(tx[s].art)
              /\ tx'[s].cleared = Clears(s, want, auth) /\ tx'[s].art = tx[s].art
        BY <3>1, RecordStep
      <4>2. tx[s].art \in Artwork
        BY <3>1 DEF TransactionsOK, TxOK, Record, Open
      <4> QED BY <4>1, <4>2 DEF Clears, ScoreLocked, UpsertsOK
    <3>2. CASE Relink(s) BY <3>2, RelinkStep DEF UpsertsOK
    <3>3. CASE AbortTx(s) BY <3>3, OverStep, NoTxFacts
    <3>4. CASE \E a \in Artwork : Touch(s, a) BY <3>4, TouchStep
    <3> QED BY <3>1, <3>2, <3>3, <3>4, <1>3
  <2> QED BY <2>1, <2>2, <2>3 DEF Others, UpsertsOK
<1>4. ASSUME NEW s \in Scraper, CommitTx(s)
      PROVE  /\ \A a \in Artwork : upserts[a] = Kept => score'[a] # NoScore
             /\ \A q \in Scraper : tx'[q].cleared => upserts[tx'[q].art] = NoScore
  <2>1. \A q \in Scraper : tx'[q].cleared => upserts[tx'[q].art] = NoScore
    BY <1>4, OverStep, NoTxFacts DEF Others, UpsertsOK
  <2>2. ASSUME NEW a \in Artwork, upserts[a] = Kept PROVE score'[a] # NoScore
    <3>1. score[a] \in Score BY <2>2 DEF UpsertsOK, TypeOK
    <3>2. ~(a = tx[s].art /\ tx[s].cleared)
      <4>1. Kept # NoScore BY DEF Kept, NoScore
      <4> QED BY <4>1, <2>2 DEF UpsertsOK
    <3>3. score'[a] \in {score[a], [score[a] EXCEPT !.orphan = TRUE]}
      BY <3>2, <1>4 DEF CommitTx, TypeOK
    <3> QED BY <3>1, <3>3, ScoreFacts
  <2> QED BY <2>1, <2>2
<1> QED BY <1>1, <1>2, <1>3, <1>4 DEF Environment

LEMMA UpsertsPipeline ==
  TypeOK /\ TransactionsOK /\ UpsertsOK /\ (Cycle \/ PipelineFails) => UpsertsOK'
<1> SUFFICES ASSUME TypeOK, TransactionsOK, UpsertsOK, Cycle \/ PipelineFails
             PROVE  UpsertsOK'
  OBVIOUS
<1>a. tx' = tx /\ linked' = linked BY PipelineFrame
<1>b. \A s \in Scraper : tx[s].cleared => tx[s].art \in Artwork BY ClearedHasArtwork
<1>c. Kept # NoScore BY DEF Kept, NoScore
<1>1. CASE /\ pc \notin {"finalize", "write"} /\ pc' \notin {"finalize", "write"}
           /\ upserts' = upserts /\ finLinks' = finLinks
  BY <1>1, <1>a, <1>b, <1>c DEF UpsertsOK
<1>2. CASE Rest \/ PipelineFails
  <2>1. /\ pc' = "idle" /\ finLinks' = {} /\ \A a \in Artwork : upserts'[a] = NoScore
    BY <1>2 DEF Rest, PipelineFails
  <2> QED BY <2>1, <1>a, <1>b, <1>c DEF UpsertsOK
<1>3. CASE BeginWrite /\ pc' = "finalize"
  <2>1. Resolved = {} /\ pc = "match" /\ results' = results /\ UNCHANGED writing
    BY <1>3 DEF BeginWrite
  <2>2. Accepted' = {} BY <2>1, SameVerdicts DEF Resolved
  <2> QED BY <2>1, <2>2, <1>3, <1>a, <1>b, <1>c DEF UpsertsOK, writing
<1>4. CASE Upsert /\ ~Rest
  <2> DEFINE arts == {Owner[x] : x \in Accepted}
  <2>1. /\ pc = "upsert" /\ pc' = "finalize" /\ results' = results /\ finLinks' = finLinks
        /\ \A s \in Scraper : tx[s].art \in arts => ~tx[s].cleared
    BY <1>4 DEF Upsert
  <2>2. Accepted' = Accepted /\ Processed' = Processed /\ \A x : ScoreOf(x)' = ScoreOf(x)
    BY <2>1, SameVerdicts DEF ScoreOf
  <2>3. \A a \in Artwork :
          upserts'[a] \in IF a \notin arts THEN {NoScore}
                          ELSE {ScoreOf(x) : x \in Accepted \cap Of(a)}
                                 \cup (IF score[a] # NoScore THEN {Kept} ELSE {})
    BY <1>4 DEF Upsert
  <2>4. \A x \in Accepted : ScoreOf(x) # NoScore /\ ScoreOf(x) # Kept
    BY ScoreOfType, ScoreFacts
  <2>5. \A x \in Accepted : x \in Image /\ Owner[x] \in Artwork
    BY MatchingAssumption DEF Accepted
  <2>6. score' = score BY <1>4 DEF Upsert, matches
  <2>7. ASSUME NEW a \in Artwork
        PROVE  /\ upserts'[a] \notin {NoScore, Kept}
                    => \E x \in Accepted \cap Of(a) : upserts'[a] = ScoreOf(x)
               /\ upserts'[a] # NoScore => Accepted \cap Of(a) # {}
               /\ upserts'[a] = Kept => score[a] # NoScore
    <3>1. CASE a \notin arts BY <3>1, <2>3, <1>c
    <3>2. CASE a \in arts
      <4>1. PICK x \in Accepted : a = Owner[x] BY <3>2
      <4>2. Accepted \cap Of(a) # {} BY <4>1, <2>5 DEF Of
      <4>3. upserts'[a] \in {ScoreOf(y) : y \in Accepted \cap Of(a)}
                              \cup (IF score[a] # NoScore THEN {Kept} ELSE {})
        BY <3>2, <2>3
      <4>4. upserts'[a] = Kept => score[a] # NoScore BY <4>3, <2>4
      <4>5. upserts'[a] # Kept => \E y \in Accepted \cap Of(a) : upserts'[a] = ScoreOf(y)
        BY <4>3
      <4> QED BY <4>2, <4>4, <4>5
    <3> QED BY <3>1, <3>2
  <2>8. \A x \in Accepted : upserts'[Owner[x]] # NoScore
    BY <2>3, <2>4, <2>5, <1>c
  <2>9. \A s \in Scraper : tx'[s].cleared => upserts'[tx'[s].art] = NoScore
    BY <2>1, <2>3, <1>a, <1>b
  <2>10. finLinks' = {} BY <2>1 DEF UpsertsOK
  <2> QED BY <2>1, <2>2, <2>6, <2>7, <2>8, <2>9, <2>10 DEF UpsertsOK
<1>5. CASE Finalize
  <2>1. /\ pc = "finalize" /\ pc' = "write" /\ results' = results /\ upserts' = upserts
        /\ score' = score /\ finLinks' \subseteq Processed
    BY <1>5 DEF Finalize, matches
  <2>2. Accepted' = Accepted /\ Processed' = Processed /\ \A x : ScoreOf(x)' = ScoreOf(x)
    BY <2>1, SameVerdicts DEF ScoreOf
  <2> QED BY <2>1, <2>2, <1>a DEF UpsertsOK
<1>6. CASE SkipBlocking \/ ReadRevision \/ LoadRows \/ WriteParts \/ RefuseFiles \/ MarkEmbedded
             \/ (\E x \in Image : MatchImage(x)) \/ LockImages \/ LockRevision
             \/ (BeginWrite /\ pc' # "finalize")
  BY <1>1, <1>2, <1>6
     DEF SkipBlocking, ReadRevision, LoadRows, WriteParts, RefuseFiles, MarkEmbedded, MatchImage,
         LockImages, LockRevision, BeginWrite, writing
<1> QED BY <1>2, <1>3, <1>4, <1>5, <1>6 DEF Cycle, CommitWrite

-----------------------------------------------------------------------------
(* Scores.                                                                 *)

LEMMA ScoresFrame ==
  ASSUME ScoresOK, UNCHANGED <<score, ver, linked, revision, lostVer, tx>>
  PROVE  ScoresOK'
<1>1. \A s \in Scraper : Changed(s)' = Changed(s) BY DEF Changed, Want
<1> QED BY <1>1 DEF ScoresOK, ScoresAreCurrent, Open

LEMMA ScoresEnvironment ==
  TypeOK /\ VersionsOK /\ TransactionsOK /\ ScoresOK /\ Environment => ScoresOK'
<1> SUFFICES ASSUME TypeOK, VersionsOK, TransactionsOK, ScoresOK, Environment
             PROVE  ScoresOK'
  OBVIOUS
<1>1. CASE (\E x \in Image : Download(x)) \/ LostDownload \/ Replay
  <2>1. UNCHANGED <<score, ver, linked, revision, lostVer, tx>>
    BY <1>1 DEF Download, LostDownload, Replay, images, matches
  <2> QED BY <2>1, ScoresFrame
<1>2. CASE LostChange
  <2>1. /\ \A a \in Artwork : score'[a] = NoScore
        /\ tx' = tx
    BY <1>2 DEF LostChange
  <2>2. \A s \in Scraper : Open(s)' => tx'[s].art \in Artwork
    BY <2>1 DEF TransactionsOK, TxOK, Open
  <2> QED BY <2>1, <2>2 DEF ScoresOK, ScoresAreCurrent
<1>3. ASSUME NEW s \in Scraper,
             (\E a \in Artwork : Touch(s, a)) \/ Record(s) \/ Relink(s) \/ AbortTx(s)
      PROVE  ScoresOK'
  <2>1. UNCHANGED <<score, ver, linked, revision, lostVer>>
    BY <1>3 DEF Touch, Record, Relink, AbortTx, images, matches
  <2>2. Others(s) BY <1>3, TouchStep, RecordStep, RelinkStep, OverStep
  <2>3. \A q \in Scraper : q # s => Changed(q)' = Changed(q) /\ tx'[q] = tx[q]
    BY <2>1, <2>2 DEF Others, Changed, Want
  <2>4. LET a == tx'[s].art IN
        Open(s)' /\ ~tx'[s].cleared /\ score[a] # NoScore /\ ~score[a].orphan
          => score[a].img \notin Changed(s)'
    <3>1. CASE Record(s)
      <4>1. PICK want \in SUBSET Of(tx[s].art), auth \in BOOLEAN :
              /\ tx'[s].cleared = Clears(s, want, auth) /\ tx'[s].art = tx[s].art
              /\ Changed(s)' = NewlyChanged(want)
        BY <3>1, RecordStep
      <4>2. tx[s].art \in Artwork
        BY <3>1 DEF TransactionsOK, TxOK, Record, Open
      <4> QED BY <4>1, <4>2 DEF Clears, Invalidates, ScoresOK, ScoresAreCurrent
    <3>2. CASE Relink(s) BY <3>2, RelinkStep DEF ScoresOK, Relink, Open
    <3>3. CASE AbortTx(s) BY <3>3, OverStep
    <3>4. CASE \E a \in Artwork : Touch(s, a) BY <3>4, TouchStep
    <3> QED BY <3>1, <3>2, <3>3, <3>4, <1>3
  <2> QED BY <2>1, <2>3, <2>4 DEF ScoresOK, ScoresAreCurrent, Open
<1>4. ASSUME NEW s \in Scraper, CommitTx(s) PROVE ScoresOK'
  <2> DEFINE t == tx[s]
  <2>1. revision' = revision /\ lostVer' = lostVer BY <1>4 DEF CommitTx
  <2>2. \A a \in Artwork : a # t.art => score'[a] = score[a] BY <1>4 DEF CommitTx, TypeOK
  <2>3. score'[t.art] = IF t.cleared THEN NoScore
                        ELSE IF score[t.art] # NoScore /\ score[t.art].img \in t.remove
                             THEN [score[t.art] EXCEPT !.orphan = TRUE]
                             ELSE score[t.art]
    BY <1>4, CommitStep DEF CommitTx, TypeOK
  <2>4. ASSUME NEW a \in Artwork, score'[a] # NoScore
        PROVE  /\ score[a] \in Score
               /\ score'[a].img = score[a].img /\ score'[a].bytes = score[a].bytes
               /\ score'[a].rev = score[a].rev /\ score'[a].lost = score[a].lost
               /\ ~score'[a].orphan => /\ ~score[a].orphan
                                       /\ a = t.art => ~t.cleared /\ score[a].img \notin t.remove
    <3>1. score[a] \in Score BY <2>2, <2>3, <2>4 DEF TypeOK
    <3> QED BY <3>1, <2>2, <2>3, <2>4 DEF Score
  <2>5. ASSUME NEW a \in Artwork, score'[a] # NoScore, ~score'[a].orphan
        PROVE  /\ score'[a].img \in linked' /\ score'[a].bytes >= ver'[score'[a].img]
    <3> DEFINE x == score[a].img
    <3>1. x \in linked /\ score[a].bytes >= ver[x] /\ Owner[x] = a /\ ~score[a].orphan
      BY <2>4, <2>5, ScoreFacts DEF ScoresOK, ScoresAreCurrent
    <3>2. x \notin t.remove BY <2>4, <2>5, <3>1, <1>4, CommitStep
    <3>3. x \in linked' BY <3>1, <3>2, <1>4, CommitStep
    <3>4. x \notin Changed(s)
      <4>1. CASE a = t.art
        <5>1. Open(s) BY <1>4 DEF CommitTx, Open
        <5>2. ~t.cleared /\ score[a] # NoScore BY <4>1, <2>4, <2>5, ScoreFacts
        <5> QED BY <4>1, <5>1, <5>2, <3>1 DEF ScoresOK
      <4>2. CASE a # t.art BY <4>2, <3>1, <1>4, CommitStep DEF Changed
      <4> QED BY <4>1, <4>2
    <3>5. ver'[x] = ver[x] BY <3>1, <3>4, <1>4, CommitStep
    <3> QED BY <2>4, <2>5, <3>1, <3>3, <3>5
  <2>6. ScoresAreCurrent'
    BY <2>1, <2>4, <2>5, ScoreFacts DEF ScoresOK, ScoresAreCurrent
  <2>7. \A a \in Artwork : score'[a] # NoScore => Owner[score'[a].img] = a
    BY <2>4, ScoreFacts DEF ScoresOK
  <2>8. ASSUME NEW q \in Scraper, NEW a \in Artwork, a = tx'[q].art,
               Open(q)', ~tx'[q].cleared, score'[a] # NoScore, ~score'[a].orphan
        PROVE  score'[a].img \notin Changed(q)'
    <3>1. q # s BY <2>8, <1>4, OverStep, NoTxFacts DEF Open
    <3>2. tx'[q] = tx[q] /\ Changed(q)' = Changed(q)
      BY <3>1, <1>4, OverStep, CommitStep DEF Others
    <3> QED BY <3>2, <2>8, <2>4, ScoreFacts DEF ScoresOK, Open
  <2>9. \A q \in Scraper : Open(q)' => tx'[q].art \in Artwork
    <3> SUFFICES ASSUME NEW q \in Scraper, Open(q)' PROVE tx'[q].art \in Artwork
      OBVIOUS
    <3>1. q # s BY <1>4, OverStep, NoTxFacts DEF Open
    <3>2. tx'[q] = tx[q] BY <3>1, <1>4, OverStep DEF Others
    <3> QED BY <3>2 DEF TransactionsOK, TxOK, Open
  <2> QED BY <2>6, <2>7, <2>8, <2>9 DEF ScoresOK
<1> QED BY <1>1, <1>2, <1>3, <1>4 DEF Environment

\* The matcher writes what it has compared, under the locks.
LEMMA WrittenScore ==
  ASSUME TypeOK, HandsOK, LocksOK, UpsertsOK, pc = "write",
         NEW a \in Artwork, upserts[a] \notin {NoScore, Kept}
  PROVE  LET x == upserts[a].img IN
         /\ upserts[a] \in Score /\ ~upserts[a].orphan
         /\ x \in Image /\ Owner[x] = a /\ x \in Resolved
         /\ upserts[a].bytes >= ver[x] /\ upserts[a].rev = revision /\ upserts[a].lost >= lostVer
<1>1. PICK x \in Accepted \cap Of(a) : upserts[a] = ScoreOf(x) BY DEF UpsertsOK
<1>2. /\ upserts[a].img = x /\ ~upserts[a].orphan /\ upserts[a].bytes = results[x].bytes
      /\ upserts[a].rev = results[x].rev /\ upserts[a].lost = results[x].lost
      /\ upserts[a] \in Score
  BY <1>1, ScoreOfType DEF ScoreOf
<1>3. x \in Resolved /\ x \in Image /\ Owner[x] = a /\ results[x] # NoVerdict
  BY <1>1, ResolvedHasVerdict DEF Resolved, Of
<1>4. ver[x] = parts[x].ver /\ results[x].rev = revision BY <1>3 DEF LocksOK, Locked
<1>5. results[x].bytes >= ver[x] /\ results[x].lost >= lostVer BY <1>3, <1>4 DEF HandsOK
<1> QED BY <1>2, <1>3, <1>4, <1>5

LEMMA ScoresPipeline ==
  TypeOK /\ TransactionsOK /\ HandsOK /\ LocksOK /\ UpsertsOK /\ ScoresOK
    /\ (Cycle \/ PipelineFails) => ScoresOK'
<1> SUFFICES ASSUME TypeOK, TransactionsOK, HandsOK, LocksOK, UpsertsOK, ScoresOK,
                    Cycle \/ PipelineFails
             PROVE  ScoresOK'
  OBVIOUS
<1>1. UNCHANGED <<ver, linked, revision, lostVer, tx>> BY PipelineFrame
<1>2. CASE ~CommitWrite
  <2>1. score' = score BY <1>2, PipelineFrame
  <2> QED BY <2>1, <1>1, ScoresFrame
<1>3. CASE CommitWrite
  <2>1. \A s \in Scraper : Changed(s)' = Changed(s) BY <1>1 DEF Changed, Want
  <2>2. pc = "write" BY <1>3 DEF CommitWrite
  <2>3. ASSUME NEW a \in Artwork, upserts[a] \notin {NoScore, Kept}
        PROVE  /\ score'[a].img = upserts[a].img /\ score'[a].bytes = upserts[a].bytes
               /\ score'[a].rev = upserts[a].rev /\ score'[a].lost = upserts[a].lost
               /\ score'[a].orphan = (upserts[a].img \notin linked)
    <3>1. upserts[a] \in Score /\ ~upserts[a].orphan BY <2>2, <2>3, WrittenScore
    <3>2. score'[a] = [upserts[a] EXCEPT !.orphan = @ \/ upserts[a].img \notin linked]
      BY <2>3, <1>3 DEF CommitWrite
    <3> QED BY <3>1, <3>2 DEF Score
  <2>4. \A a \in Artwork : upserts[a] \in {NoScore, Kept} => score'[a] = score[a]
    BY <1>3 DEF CommitWrite
  <2>5. ScoresAreCurrent'
    <3> SUFFICES ASSUME NEW a \in Artwork, score'[a] # NoScore
                 PROVE  /\ score'[a].rev = revision /\ score'[a].lost >= lostVer
                        /\ ~score'[a].orphan => /\ score'[a].img \in linked
                                                /\ score'[a].bytes >= ver[score'[a].img]
      BY <1>1 DEF ScoresAreCurrent
    <3>1. CASE upserts[a] \in {NoScore, Kept}
      BY <3>1, <2>4 DEF ScoresOK, ScoresAreCurrent
    <3>2. CASE upserts[a] \notin {NoScore, Kept} BY <3>2, <2>2, <2>3, WrittenScore
    <3> QED BY <3>1, <3>2
  <2>6. \A a \in Artwork : score'[a] # NoScore => Owner[score'[a].img] = a
    BY <2>2, <2>3, <2>4, WrittenScore DEF ScoresOK
  <2>7. ASSUME NEW s \in Scraper, NEW a \in Artwork, a = tx[s].art,
               Open(s), ~tx[s].cleared, score'[a] # NoScore, ~score'[a].orphan
        PROVE  score'[a].img \notin Changed(s)
    <3>1. CASE upserts[a] \in {NoScore, Kept} BY <3>1, <2>4, <2>7 DEF ScoresOK
    <3>2. CASE upserts[a] \notin {NoScore, Kept}
      BY <3>2, <2>2, <2>3, WrittenScore DEF LocksOK, Locked
    <3> QED BY <3>1, <3>2
  <2>8. \A s \in Scraper : Open(s) => tx[s].art \in Artwork BY DEF TransactionsOK, TxOK
  <2> QED BY <1>1, <2>1, <2>5, <2>6, <2>7, <2>8 DEF ScoresOK, Open
<1> QED BY <1>2, <1>3

-----------------------------------------------------------------------------
(* Processed links.                                                        *)

LEMMA DoneFrame ==
  ASSUME DoneOK, UNCHANGED <<done, judged, revision, lostVer, ver, score, tx>>
  PROVE  DoneOK'
<1>1. \A s \in Scraper : Changed(s)' = Changed(s) BY DEF Changed, Want
<1> QED BY <1>1 DEF DoneOK, DoneIsJudged

LEMMA DoneEnvironment ==
  TypeOK /\ VersionsOK /\ TransactionsOK /\ DoneOK /\ Environment => DoneOK'
<1> SUFFICES ASSUME TypeOK, VersionsOK, TransactionsOK, DoneOK, Environment
             PROVE  DoneOK'
  OBVIOUS
<1>1. CASE (\E x \in Image : Download(x)) \/ LostDownload
  <2>1. UNCHANGED <<done, judged, revision, lostVer, ver, score, tx>>
    BY <1>1 DEF Download, LostDownload, images, matches
  <2> QED BY <2>1, DoneFrame
<1>2. CASE LostChange \/ Replay
  <2>1. done' = {} BY <1>2 DEF LostChange, Replay, ReplayAll
  <2> QED BY <2>1 DEF DoneOK, DoneIsJudged
<1>3. ASSUME NEW s \in Scraper,
             (\E a \in Artwork : Touch(s, a)) \/ Record(s) \/ Relink(s) \/ AbortTx(s)
      PROVE  DoneOK'
  <2>1. UNCHANGED <<done, judged, revision, lostVer, ver, score, linked>>
    BY <1>3 DEF Touch, Record, Relink, AbortTx, images, matches
  <2>2. Others(s) BY <1>3, TouchStep, RecordStep, RelinkStep, OverStep
  <2>3. \A q \in Scraper : q # s => Changed(q)' = Changed(q) /\ tx'[q] = tx[q]
    BY <2>1, <2>2 DEF Others, Changed, Want
  <2>4. CASE Relink(s)
    <3>1. /\ tx'[s].art = tx[s].art /\ tx'[s].cleared = tx[s].cleared
          /\ tx'[s].reset = Replayed(s) /\ Changed(s)' = Changed(s)
          /\ tx'[s].remove = IF tx[s].auth THEN Existing(s) \ Want(s) ELSE {}
      BY <2>4, RelinkStep
    <3>2. TxOK(s) BY DEF TransactionsOK
    <3>3. ASSUME NEW x \in done \ (tx'[s].reset \cup tx'[s].remove)
          PROVE  /\ x \notin Changed(s)
                 /\ tx[s].cleared => Owner[x] # tx[s].art
      <4>1. x \in linked /\ x \in Image BY DEF TypeOK
      <4>2. Owner[x] = tx[s].art => x \in Existing(s) BY <4>1 DEF Existing, Of
      <4>3. tx[s].inval => Owner[x] # tx[s].art BY <3>1, <3>3, <4>2 DEF Replayed
      <4>4. x \notin Changed(s)
        <5> SUFFICES ASSUME x \in Changed(s) PROVE FALSE
          OBVIOUS
        <5>1. tx[s].inval BY <4>1, <3>2 DEF TxOK
        <5>2. Owner[x] = tx[s].art BY <3>2 DEF TxOK, Changed
        <5> QED BY <5>1, <5>2, <4>3
      <4>5. ASSUME tx[s].cleared, ~tx[s].inval PROVE Owner[x] # tx[s].art
        <5>1. tx[s].auth /\ Want(s) = {} BY <4>5, <3>2 DEF TxOK
        <5> QED BY <5>1, <3>1, <3>3, <4>2
      <4> QED BY <4>3, <4>4, <4>5
    <3> QED BY <2>1, <2>3, <3>1, <3>3 DEF DoneOK, DoneIsJudged
  <2>5. CASE tx'[s].stage # "linked"
    BY <2>1, <2>3, <2>5 DEF DoneOK, DoneIsJudged
  <2>6. Relink(s) \/ tx'[s].stage # "linked"
    BY <1>3, TouchStep, RecordStep, OverStep, NoTxFacts
  <2> QED BY <2>4, <2>5, <2>6
<1>4. ASSUME NEW s \in Scraper, CommitTx(s) PROVE DoneOK'
  <2> DEFINE t == tx[s]
  <2>1. /\ revision' = revision /\ lostVer' = lostVer /\ judged' = judged
        /\ done' = done \ (t.reset \cup t.remove) /\ t.stage = "linked"
    BY <1>4 DEF CommitTx
  <2>2. \A x \in done' : /\ x \in done /\ x \notin Changed(s)
                         /\ t.cleared /\ Owner[x] = t.art => judged[x].out # "accepted"
    BY <2>1 DEF DoneOK
  <2>3. \A x \in done' : x \in linked /\ x \in Image /\ Owner[x] \in Artwork
    BY <2>2, MatchingAssumption DEF TypeOK
  <2>4. \A x \in done' : ver'[x] = ver[x] BY <2>2, <2>3, <1>4, CommitStep
  <2>5. ASSUME NEW a \in Artwork, score[a] # NoScore, ~(a = t.art /\ t.cleared)
        PROVE  score'[a] # NoScore
    <3>1. score[a] \in Score BY <2>5 DEF TypeOK
    <3>2. score'[a] \in {score[a], [score[a] EXCEPT !.orphan = TRUE]}
      BY <2>5, <1>4 DEF CommitTx, TypeOK
    <3> QED BY <3>1, <3>2, ScoreFacts
  <2>6. DoneIsJudged'
    BY <2>1, <2>2, <2>3, <2>4, <2>5 DEF DoneOK, DoneIsJudged
  <2>7. \A q \in Scraper : q # s => tx'[q] = tx[q] /\ Changed(q)' = Changed(q)
    BY <1>4, OverStep, CommitStep DEF Others
  <2>8. tx'[s].stage # "linked" BY <1>4, OverStep, NoTxFacts
  <2> QED BY <2>1, <2>2, <2>6, <2>7, <2>8 DEF DoneOK
<1> QED BY <1>1, <1>2, <1>3, <1>4 DEF Environment

\* The links that the matcher finishes were judged under the locks, and an accepted one
\* brings a score with it.
LEMMA WrittenLink ==
  ASSUME TypeOK, HandsOK, LocksOK, UpsertsOK, pc = "write", NEW x \in finLinks
  PROVE  /\ x \in Image /\ Owner[x] \in Artwork /\ results[x] # NoVerdict
         /\ results[x].out \in {"accepted", "rejected"}
         /\ results[x].rev = revision /\ results[x].lost >= lostVer
         /\ results[x].bytes >= ver[x]
         /\ \A s \in Scraper : x \notin Changed(s)
         /\ results[x].out = "accepted" => upserts[Owner[x]] # NoScore
<1>1. x \in Processed BY DEF UpsertsOK
<1>2. x \in Resolved /\ x \in Image /\ results[x].out \in {"accepted", "rejected"}
  BY <1>1 DEF Resolved, Processed
<1>3. results[x] # NoVerdict BY <1>2, ResolvedHasVerdict
<1>4. /\ ver[x] = parts[x].ver /\ results[x].rev = revision
      /\ \A s \in Scraper : x \notin Changed(s)
  BY <1>2 DEF LocksOK, Locked
<1>5. results[x].bytes >= ver[x] /\ results[x].lost >= lostVer BY <1>2, <1>3, <1>4 DEF HandsOK
<1>6. results[x].out = "accepted" => upserts[Owner[x]] # NoScore
  BY <1>2 DEF UpsertsOK, Accepted
<1>7. Owner[x] \in Artwork BY <1>2, MatchingAssumption
<1> QED BY <1>2, <1>3, <1>4, <1>5, <1>6, <1>7

LEMMA DonePipeline ==
  TypeOK /\ HandsOK /\ LocksOK /\ UpsertsOK /\ DoneOK /\ (Cycle \/ PipelineFails) => DoneOK'
<1> SUFFICES ASSUME TypeOK, HandsOK, LocksOK, UpsertsOK, DoneOK, Cycle \/ PipelineFails
             PROVE  DoneOK'
  OBVIOUS
<1>1. UNCHANGED <<ver, linked, revision, lostVer, tx>> BY PipelineFrame
<1>2. CASE ~CommitWrite
  <2>1. UNCHANGED <<score, judged, done>> BY <1>2, PipelineFrame
  <2> QED BY <2>1, <1>1, DoneFrame
<1>3. CASE CommitWrite
  <2>1. /\ pc = "write" /\ done' = done \cup (finLinks \cap linked)
        /\ \A x \in Image :
             judged'[x] = IF x \in finLinks \cap linked THEN results[x] ELSE judged[x]
    BY <1>3 DEF CommitWrite
  <2>2. ASSUME NEW a \in Artwork, score[a] # NoScore \/ upserts[a] # NoScore
        PROVE  score'[a] # NoScore
    <3>1. CASE upserts[a] \in {NoScore, Kept}
      <4>1. score'[a] = score[a] BY <3>1, <1>3 DEF CommitWrite
      <4> QED BY <4>1, <3>1, <2>2 DEF UpsertsOK
    <3>2. CASE upserts[a] \notin {NoScore, Kept}
      <4>1. upserts[a] \in Score BY <3>2 DEF TypeOK
      <4>2. score'[a] = [upserts[a] EXCEPT !.orphan = upserts[a].orphan \/ upserts[a].img \notin linked]
        BY <3>2, <1>3 DEF CommitWrite
      <4>3. (upserts[a].orphan \/ upserts[a].img \notin linked) \in BOOLEAN
        BY <4>1 DEF Score
      <4> QED BY <4>1, <4>2, <4>3, ScoreFacts
    <3> QED BY <3>1, <3>2
  <2>3. \A x \in done' : x \in Image /\ Owner[x] \in Artwork
    BY <2>1, MatchingAssumption DEF TypeOK
  <2>4. ASSUME NEW x \in done', x \in finLinks \cap linked
        PROVE  /\ judged'[x] = results[x] /\ judged'[x] # NoVerdict
               /\ judged'[x].out \in {"accepted", "rejected"}
               /\ judged'[x].rev = revision /\ judged'[x].lost >= lostVer
               /\ judged'[x].bytes >= ver[x]
               /\ judged'[x].out = "accepted" =>
                    upserts[Owner[x]] # NoScore /\ score'[Owner[x]] # NoScore
               /\ \A s \in Scraper : x \notin Changed(s)
    BY <2>1, <2>2, <2>3, <2>4, WrittenLink
  <2>5. ASSUME NEW x \in done', x \notin finLinks \cap linked
        PROVE  /\ x \in done /\ judged'[x] = judged[x]
               /\ judged[x].out = "accepted" => score'[Owner[x]] # NoScore
    BY <2>1, <2>2, <2>3, <2>5 DEF DoneOK, DoneIsJudged
  <2>6. DoneIsJudged' BY <1>1, <2>4, <2>5 DEF DoneOK, DoneIsJudged
  <2>7. \A s \in Scraper : Changed(s)' = Changed(s) BY <1>1 DEF Changed, Want
  <2>8. ASSUME NEW s \in Scraper, tx[s].stage = "linked",
               NEW x \in done' \ (tx[s].reset \cup tx[s].remove)
        PROVE  /\ x \notin Changed(s)
               /\ tx[s].cleared /\ Owner[x] = tx[s].art => judged'[x].out # "accepted"
    <3>1. CASE x \in finLinks \cap linked BY <3>1, <2>4 DEF UpsertsOK
    <3>2. CASE x \notin finLinks \cap linked BY <3>2, <2>5, <2>8 DEF DoneOK
    <3> QED BY <3>1, <3>2
  <2>9. \A x \in done' : judged'[x].out \in {"accepted", "rejected"}
    BY <2>4, <2>5 DEF DoneOK
  <2> QED BY <1>1, <2>6, <2>7, <2>8, <2>9 DEF DoneOK
<1> QED BY <1>2, <1>3

-----------------------------------------------------------------------------
(* The invariant.                                                          *)

LEMMA InvInit == Init => IInv
<1> SUFFICES ASSUME Init PROVE IInv
  OBVIOUS
<1>1. TypeOK BY TypeInit
<1>2. VersionsOK /\ EmbeddedIsCurrent
  BY <1>1 DEF Init, VersionsOK, EmbeddedIsCurrent, Nowhere, TypeOK
<1>3. \A s \in Scraper : tx[s] = NoTx BY DEF Init
<1>4. \A s \in Scraper : ~Open(s) /\ Want(s) = {} /\ Changed(s) = {}
  BY <1>3, NoTxFacts DEF Open, Want, Changed, Nowhere
<1>5. TransactionsOK BY <1>3, <1>4, NoTxFacts DEF TransactionsOK, HeldAlone, TxOK
<1>6. HandsOK BY MatchingAssumption DEF Init, HandsOK, Nowhere, NoPart
<1>7. LocksOK BY DEF Init, LocksOK, Locked
<1>8. UpsertsOK
  <2>1. NoScore # Kept BY DEF NoScore, Kept
  <2>2. \A x \in Image : results[x] = NoVerdict BY DEF Init
  <2>3. Processed = {} /\ finLinks = {} BY <2>2 DEF Processed, NoVerdict, Init
  <2>4. \A s \in Scraper : ~tx[s].cleared BY <1>3, NoTxFacts
  <2> QED BY <2>1, <2>3, <2>4 DEF Init, UpsertsOK
<1>9. ScoresOK BY <1>4 DEF Init, ScoresOK, ScoresAreCurrent
<1>10. DoneOK BY DEF Init, DoneOK, DoneIsJudged
<1> QED BY <1>1, <1>2, <1>5, <1>6, <1>7, <1>8, <1>9, <1>10 DEF IInv

LEMMA InvStep == IInv /\ [Next]_vars => IInv'
<1> SUFFICES ASSUME IInv, [Next]_vars PROVE IInv'
  OBVIOUS
<1> USE DEF IInv
<1>1. CASE Environment
  <2>1. TypeOK' BY <1>1, TypeEnvironment
  <2>2. VersionsOK' /\ EmbeddedIsCurrent' BY <1>1, VersionsStep, EmbeddedStep
  <2>3. TransactionsOK' BY <1>1, <2>1, TransactionsStep
  <2>4. HandsOK' /\ LocksOK' BY <1>1, <2>1, HandsEnvironment, LocksEnvironment
  <2>5. UpsertsOK' /\ ScoresOK' /\ DoneOK'
    BY <1>1, UpsertsEnvironment, ScoresEnvironment, DoneEnvironment
  <2> QED BY <2>1, <2>2, <2>3, <2>4, <2>5
<1>2. CASE Cycle \/ PipelineFails
  <2>1. TypeOK' BY <1>2, TypePipeline
  <2>2. VersionsOK' /\ EmbeddedIsCurrent' BY <1>2, VersionsStep, EmbeddedStep
  <2>3. TransactionsOK' BY <1>2, <2>1, TransactionsStep
  <2>4. HandsOK' /\ LocksOK' BY <1>2, HandsPipeline, LocksPipeline
  <2>5. UpsertsOK' /\ ScoresOK' /\ DoneOK'
    BY <1>2, UpsertsPipeline, ScoresPipeline, DonePipeline
  <2> QED BY <2>1, <2>2, <2>3, <2>4, <2>5
<1>3. CASE UNCHANGED vars
  <2>1. /\ UNCHANGED <<disk, lostDisk, ver, embedded, lostVer, revision, linked, done, flag, score,
                       judged, tx, pc, rev, rows, lostRow, parts, results, upserts, finLinks,
                       finArts, txns, faults>>
    BY <1>3 DEF vars, store, images, matches, blocking, writing, bounds
  <2>2. TypeOK' BY <2>1 DEF TypeOK, Locked
  <2>3. \A s \in Scraper : Want(s)' = Want(s) /\ Changed(s)' = Changed(s) /\ Open(s)' = Open(s)
    BY <2>1 DEF Want, Changed, Open
  <2>4. VersionsOK' /\ EmbeddedIsCurrent' /\ HandsOK'
    BY <2>1 DEF VersionsOK, EmbeddedIsCurrent, HandsOK, Locked
  <2>5. TransactionsOK' BY <2>1, <2>3 DEF TransactionsOK, HeldAlone, TxOK
  <2>6. Accepted' = Accepted /\ Processed' = Processed /\ Resolved' = Resolved
    BY <2>1, SameVerdicts
  <2>7. LocksOK' /\ UpsertsOK' BY <2>1, <2>3, <2>6 DEF LocksOK, UpsertsOK, Locked, ScoreOf
  <2>8. ScoresOK' /\ DoneOK' BY <2>1, ScoresFrame, DoneFrame
  <2> QED BY <2>2, <2>4, <2>5, <2>7, <2>8
<1> QED BY <1>1, <1>2, <1>3 DEF Next

LEMMA Invariance == Spec => []IInv
BY InvInit, InvStep, PTL DEF Spec

\* The state keeps its type.
THEOREM TypeCorrect == Spec => []TypeOK
<1>1. IInv => TypeOK BY DEF IInv
<1> QED BY <1>1, Invariance, PTL

\* The mark of blocking is only ever on the bytes it is about, although the row may have
\* changed since it was read (mark_image_files_embedded, input_sources.py).
THEOREM EmbeddedMarksAreCurrent == Spec => []EmbeddedIsCurrent
<1>1. IInv => EmbeddedIsCurrent BY DEF IInv
<1> QED BY <1>1, Invariance, PTL

\* No score survives, or is written after, a change of the bytes it is about or of the lost
\* corpus: the triggers take what is there, the fence of the matcher's transaction
\* (_lock_and_validate_image_content_snapshot) stops what is not there yet.
THEOREM ScoresStayCurrent == Spec => []ScoresAreCurrent
<1>1. IInv => ScoresAreCurrent BY DEF IInv, ScoresOK
<1> QED BY <1>1, Invariance, PTL

\* A processed link stands for a verdict on recorded bytes and on this lost corpus, and an
\* accepted one still has its score (the triggers of 01_schema_production.sql).
THEOREM DoneLinksAreJudged == Spec => []DoneIsJudged
<1>1. IInv => DoneIsJudged BY DEF IInv, DoneOK
<1> QED BY <1>1, Invariance, PTL

\* Image cleanup's inventory finds an artwork's images deletable only when the bytes of each
\* of them were rejected without an error (image_cleanup/cleanup.py:44-60).
THEOREM OnlyRejectedIsDeletable == Spec => []DeletableIsRejected
<1>1. IInv => DeletableIsRejected
  <2> SUFFICES ASSUME IInv, NEW a \in Artwork, Deletable(a), NEW x \in linked \cap Of(a)
               PROVE  judged[x].out = "rejected" /\ judged[x].bytes >= ver[x]
    BY DEF DeletableIsRejected
  <2>1. x \in done /\ score[a] = NoScore /\ Owner[x] = a BY DEF Deletable, Of
  <2> QED BY <2>1 DEF IInv, DoneOK, DoneIsJudged
<1> QED BY <1>1, Invariance, PTL
=============================================================================
