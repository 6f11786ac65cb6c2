-------------------------- MODULE MetadataScoring --------------------------
(***************************************************************************)
(* How the datings of a batch of lots are normalised, and how a pool of    *)
(* threads then scores the lots against every lost artwork                 *)
(* (matching_pipeline/metadata_normalization/dating_normalization and      *)
(* matching_pipeline/metadata_matching).                                   *)
(*                                                                         *)
(* The threads share three indexes over the lost artworks, each loaded by  *)
(* the first thread that needs it: those of the artists and of the titles  *)
(* under a lock and a flag that is read outside it too, that of the        *)
(* datings with neither, and kept in a file from one run to the next.  The *)
(* lost artworks may change at any time: the rows to score, and each       *)
(* index, are of the moment they were read.                                *)
(***************************************************************************)
EXTENDS PairScores

CONSTANTS Workers,          \* the threads of the pool
          Lots,             \* the auction lots of the batch
          LotRows,          \* what a lot has besides its dating
          Birth,            \* the birth year of a lot's artist, or None
          Handoffs,         \* the dating texts the lots can come with
          Reading,          \* the mentions a model that reads well answers with
          Catalogues,       \* the contents the lost_artwork table can have
          ImagePairs,       \* the pairs <<lot, row>> that image matching has scored
          MaxChanges,       \* bound: changes of the lost artworks
          MaxKills,         \* bound: deaths of the process
          MaxRuns           \* bound: runs of the matcher

ASSUME ScoringAssumption ==
    /\ Workers # {} /\ None \notin Workers /\ Catalogues # {}
    /\ Handoffs \subseteq [Lots -> [form : STRING, y1 : Int \cup {None}, y2 : Int \cup {None},
                                    id : STRING]]
    /\ MaxChanges \in Nat /\ MaxKills \in Nat /\ MaxRuns \in Nat

\* A pattern matches digits, and the fields of a mention are numbers or missing.
ASSUME DatingAssumption ==
    /\ IsFiniteSet(Lots) /\ \A l \in Lots : Birth[l] \in Int \cup {None}
    /\ \A h \in Handoffs : \A l \in Lots :
          /\ RegexMatches(h[l]) => h[l].y1 \in Nat
          /\ h[l].form \in {"interval", "short interval", "bracketed", "parenthesized"} =>
                 h[l].y2 \in Nat
          /\ h[l].form = "other" => h[l].id \in DOMAIN Reading
    /\ \A id \in DOMAIN Reading :
          /\ IsFiniteSet(DOMAIN Reading[id])
          /\ \A i \in DOMAIN Reading[id] :
                {N1(Reading[id][i]), N2(Reading[id][i])} \subseteq Int \cup {None}

\* Names, titles and sizes are as the tables hold them, and every similarity
\* and rarity is clamped to 0..Unit (Jaro-Winkler, Levenshtein, the table of
\* common titles, count_confidence.py:132 and the density of sizes); a rarity
\* does not grow with the count.
IsSeq(s) == s \in Seq(Range(s))
Dated == [start : Int \cup {None}, end : Int \cup {None}]
LostRows == UNION {Range(c) : c \in Catalogues}
AnyRows == LostRows \cup Range(LotRows)

ASSUME RowsAssumption ==
    /\ DOMAIN LotRows = Lots
    /\ \A c \in Catalogues : IsSeq(c)
    /\ \A r \in LostRows : r.span \in Dated
    /\ \A r \in AnyRows :
          /\ IsSeq(r.names) /\ IsSeq(r.materials) /\ IsSeq(r.techniques)
          /\ {r.width, r.height} \subseteq Int \cup {None}
    /\ \A place \in {"material", "technique"} : IsFiniteSet(DOMAIN Parent[place])

ASSUME AlikeAssumption ==
    /\ \A a \in UNION {Range(r.names) : r \in LostRows} :
          \A b \in {r.artist : r \in Range(LotRows)} \ {None} : NameAlike(a.key, b.key) \in 0..Unit
    /\ \A a, b \in {r.title : r \in AnyRows} \ {None} :
          LET pair == Stripped(a, b) IN TitleEdits(pair[1], pair[2]) \in 0..Unit
    /\ \A t \in DOMAIN CommonTitles : CommonTitles[t] \in 0..Unit
    /\ \A r \in AnyRows : Sized(r) => SizeRarity(r.width, r.height) \in 0..Unit

\* A total and a count may be of two tables.
ASSUME LogAssumption ==
    \A c, d \in Catalogues : \A total \in 2..Len(c), count \in 2..Len(d) :
        /\ LogShare(total, count) \in 0..Unit
        /\ \A fewer \in 2..count : LogShare(total, fewer) >= LogShare(total, count)

VARIABLES text,             \* the datings of the handoff file, None once normalised
          span,             \* dating_start and dating_end of each lot
          rows,             \* the lost artworks
          file,             \* dating_state.pkl
          run,              \* what the stage is doing
          read,             \* the rows match_metadata read when it started
          artists, titles,  \* the two indexes under locks
          dating,           \* the index of the datings, or None
          worker,           \* the threads
          waiting,          \* the lots no thread has taken yet
          scores,           \* the scores of the lots that are ready
          budget            \* what is left of the bounds

scoringVars == <<text, span, rows, file, run, read, artists, titles, dating, worker, waiting,
          scores, budget>>
indexes == <<artists, titles, dating>>
process == <<run, read, artists, titles, dating, worker, waiting, scores>>
handoff == <<text, span>>

Torn == "torn"
NoFile == "no file"
Unscored == [l \in Lots |-> None]

NoArtists == [counts |-> <<>>, total |-> 0, loaded |-> FALSE, lookup |-> <<>>,
              current |-> FALSE, lock |-> None, of |-> <<>>]
NoTitles == [counts |-> <<>>, total |-> 0, loaded |-> FALSE, lock |-> None, of |-> <<>>,
             totalOf |-> <<>>]

\* A thread: what it does next, with which lot and which row; the names it has
\* still to look up, the rarities it has found and the scores of the lot.
Idle == [pc |-> "idle", lot |-> None, row |-> 0, ask |-> <<>>, rarities |-> <<>>,
         artist |-> 0, title |-> 0, found |-> <<>>]

ScoringTypeOK ==
    /\ run \in {"normalising", "asking", "off", "scoring", "failed", "done"}
    /\ DOMAIN span = Lots /\ rows \in Catalogues
    /\ artists.lock \in Workers \cup {None} /\ titles.lock \in Workers \cup {None}
    /\ DOMAIN worker = Workers /\ waiting \subseteq Lots

ScoringInit ==
    /\ text \in Handoffs
    /\ span = [l \in Lots |-> Undated]
    /\ rows \in Catalogues
    /\ file = NoFile
    /\ run = "normalising"
    /\ read = <<>>
    /\ artists = NoArtists /\ titles = NoTitles /\ dating = None
    /\ worker = [w \in Workers |-> Idle]
    /\ waiting = {}
    /\ scores = Unscored
    /\ budget = [changes |-> MaxChanges, kills |-> MaxKills, runs |-> MaxRuns]

-----------------------------------------------------------------------------
(***************************************************************************)
(* Normalising the datings                                                 *)
(***************************************************************************)
Unmatched == {l \in Lots : text[l].form = "other"}

NormalizeWithRegex ==
    /\ run = "normalising"
    /\ span' = [l \in Lots |-> RegexDating(text[l], Birth[l])]
    /\ run' = "asking"
    /\ UNCHANGED <<text, rows, file, read, indexes, worker, waiting, scores, budget>>

\* The answers come in an order of the model's own; one may be missing, and
\* one may be of no use.
Orders(S) == UNION {{q \in [1..n -> S] : \A i, j \in 1..n : i # j => q[i] # q[j]} :
                        n \in 0..Cardinality(S)}
Answer(l, good) == [dating |-> text[l].id, mentions |-> IF good THEN Reading[text[l].id] ELSE <<>>]
Answers == {[i \in DOMAIN q |-> Answer(q[i], q[i] \notin poor)] :
               q \in Orders(Unmatched), poor \in {{}} \cup {{l} : l \in Unmatched}}

\* The order of the lots in the handoff file.
Before(l, m) == LotRows[l].place < LotRows[m].place

\* A bug: the answers are taken in the order they came.
AnswerInOrder(l, answers) ==
    LET turn == 1 + Cardinality({m \in Unmatched : Before(m, l)})
    IN  IF turn \in DOMAIN answers THEN answers[turn].mentions ELSE <<>>

\* A lot is given the first answer that repeats its text and that no lot
\* before it with the same text was given.
AnswerOf(l, answers) ==
    LET same == Among({a \in Range(answers) : a.dating = text[l].id}, answers)
        turn == 1 + Cardinality({m \in Unmatched : text[m].id = text[l].id /\ Before(m, l)})
    IN  IF turn \in DOMAIN same THEN same[turn].mentions ELSE <<>>

NormalizeWithModel ==
    /\ run = "asking"
    /\ \E answers \in Answers :
          span' = [l \in Lots |-> IF l \in Unmatched
                                  THEN ResolveDating(AnswerOf(l, answers), Birth[l])
                                  ELSE span[l]]
    /\ run' = "off"
    /\ UNCHANGED <<text, rows, file, read, indexes, worker, waiting, scores, budget>>

-----------------------------------------------------------------------------
(***************************************************************************)
(* The stage                                                               *)
(***************************************************************************)
\* The artist of a lot is one text, and the names are what it is split into.
LotRow(l) == [artist |-> LotRows[l].artist, names |-> LotRows[l].names, title |-> LotRows[l].title,
              materials |-> LotRows[l].materials, techniques |-> LotRows[l].techniques,
              width |-> LotRows[l].width, height |-> LotRows[l].height, span |-> span[l]]

\* match_metadata reads every lost artwork and the first batch of lots.
StartRun ==
    /\ run = "off" /\ budget.runs > 0
    /\ budget' = [budget EXCEPT !.runs = @ - 1]
    /\ run' = "scoring"
    /\ read' = rows
    /\ waiting' = Lots
    /\ text' = [l \in Lots |-> None]
    /\ UNCHANGED <<span, rows, file, indexes, worker, scores>>

\* process_one_auction on a free thread; the pool takes every lot, also after
\* one has raised.
Take(w) ==
    /\ run = "scoring" /\ worker[w].pc = "idle"
    /\ \E l \in waiting :
          /\ worker' = [worker EXCEPT ![w] = [Idle EXCEPT !.pc = "pair", !.lot = l, !.row = 1]]
          /\ waiting' = waiting \ {l}
    /\ UNCHANGED <<handoff, rows, file, run, read, indexes, scores, budget>>

\* The lots are through: their rows are inserted, which a score outside its
\* CHECK undoes, and a lot whose scoring raised ends the stage.
InRange(s) == s = None \/ (s # NaN /\ 0 <= s /\ s <= Unit)
AllInsertable(found) ==
    \A i \in DOMAIN found :
        /\ InRange(found[i].score.final) /\ InRange(found[i].score.confidence)
        /\ \A c \in Components : InRange(found[i].score.sims[c])

Finish ==
    /\ run = "scoring" /\ waiting = {}
    /\ \A w \in Workers : worker[w].pc = "idle"
    /\ run' = IF \A l \in Lots : scores[l] # None /\ AllInsertable(scores[l])
              THEN "done" ELSE "failed"
    /\ UNCHANGED <<handoff, rows, file, read, indexes, worker, waiting, scores, budget>>

\* The end of the process, with all it held in memory.
Forget ==
    /\ run' = "off" /\ read' = <<>>
    /\ artists' = NoArtists /\ titles' = NoTitles /\ dating' = None
    /\ worker' = [w \in Workers |-> Idle] /\ waiting' = {} /\ scores' = Unscored

ExitStage ==
    /\ run = "failed"
    /\ Forget
    /\ UNCHANGED <<handoff, rows, file, budget>>

Kill ==
    /\ run = "scoring" /\ budget.kills > 0
    /\ budget' = [budget EXCEPT !.kills = @ - 1]
    /\ Forget
    /\ UNCHANGED <<handoff, rows, file>>

\* The scrapers change the lost artworks.
ChangeRows ==
    /\ run \in {"off", "scoring"} /\ budget.changes > 0
    /\ budget' = [budget EXCEPT !.changes = @ - 1]
    /\ rows' \in Catalogues \ {rows}
    /\ UNCHANGED <<handoff, file, process>>

-----------------------------------------------------------------------------
(***************************************************************************)
(* A thread scores a lot against one lost artwork after the other          *)
(***************************************************************************)
Lost(w) == read[worker[w].row]
Lot(w) == LotRow(worker[w].lot)
At(w, pc) == run = "scoring" /\ worker[w].pc = pc
Goto(w, pc) == worker' = [worker EXCEPT ![w].pc = pc]
Raise(w) == worker' = [worker EXCEPT ![w] = Idle]
StageKept == UNCHANGED <<handoff, rows, run, read, waiting, budget>>

\* A pair that is worth nothing is kept only to complete an image match.
KeptPair(w, s) == s.valid \/ <<worker[w].lot, worker[w].row>> \in ImagePairs
NextRow(w, s) ==
    [worker EXCEPT ![w] =
        [Idle EXCEPT !.pc = "pair", !.lot = worker[w].lot, !.row = worker[w].row + 1,
                     !.found = IF KeptPair(w, s)
                               THEN Append(worker[w].found, [row |-> worker[w].row, score |-> s])
                               ELSE worker[w].found]]

StartPair(w) ==
    /\ At(w, "pair") /\ worker[w].row \in DOMAIN read
    /\ LET lostNames == KnownNames(Lost(w).names)
           lotNames == KnownNames(Lot(w).names)
       IN  IF Nameless(Lost(w), Lot(w))
           THEN worker' = NextRow(w, PairScore(Lost(w), Lot(w), 0, 0, 0))
           ELSE IF <<>> \in {lostNames, lotNames} THEN Goto(w, "title")
           ELSE worker' = [worker EXCEPT ![w].pc = "artist", ![w].ask = lostNames \o lotNames]
    /\ StageKept /\ UNCHANGED <<file, indexes, scores>>

LotReady(w) ==
    /\ At(w, "pair") /\ worker[w].row \notin DOMAIN read
    /\ scores' = [scores EXCEPT ![worker[w].lot] = worker[w].found]
    /\ worker' = [worker EXCEPT ![w] = Idle]
    /\ StageKept /\ UNCHANGED <<file, indexes>>

-----------------------------------------------------------------------------
(***************************************************************************)
(* The rarity of the artists                                               *)
(***************************************************************************)
Found(w, rarity) ==
    worker' = [worker EXCEPT ![w].pc = "artist", ![w].ask = Tail(@),
                             ![w].rarities = Append(@, rarity)]

\* The count of a name by its own spelling, or by the spelling kept for its
\* key: the two reads of _get_artist_count.
Spelling(n) == IF n \in DOMAIN artists.counts THEN {n}
               ELSE {artists.lookup[k] : k \in {n.key} \cap DOMAIN artists.lookup}
CountedRarity(n) == LET spelling == CHOOSE s \in Spelling(n) : TRUE
                    IN  Rarity(artists.total, artists.counts[spelling])

AskArtist(w) ==
    /\ At(w, "artist") /\ worker[w].ask # <<>>
    /\ LET name == Head(worker[w].ask)
       IN  IF ~artists.loaded THEN Goto(w, "await artists")
           ELSE IF Spelling(name) # {} THEN Found(w, CountedRarity(name))
           ELSE Goto(w, "unseen")
    /\ StageKept /\ UNCHANGED <<file, indexes, scores>>

\* A name that is not in the lookup index counts as unseen unless the index is
\* of other counts than the present ones; it is rebuilt then.  Whether it was
\* when it was read is not asked.
Unseen(w) ==
    /\ At(w, "unseen")
    /\ IF artists.counts # <<>> /\ ~artists.current
       THEN Goto(w, "rebuild")
       ELSE Found(w, Unit)
    /\ StageKept /\ UNCHANGED <<file, indexes, scores>>

Rebuild(w) ==
    /\ At(w, "rebuild")
    /\ artists' = [artists EXCEPT !.lookup = LookupIndex(artists.counts)]
    /\ Goto(w, "rebuilt")
    /\ StageKept /\ UNCHANGED <<file, titles, dating, scores>>

Rebuilt(w) ==
    /\ At(w, "rebuilt")
    /\ artists' = [artists EXCEPT !.current = TRUE]
    /\ LET name == Head(worker[w].ask)
       IN  Found(w, IF Spelling(name) # {} THEN CountedRarity(name) ELSE Unit)
    /\ StageKept /\ UNCHANGED <<file, titles, dating, scores>>

ArtistsJudged(w) ==
    /\ At(w, "artist") /\ worker[w].ask = <<>>
    /\ LET n == Len(KnownNames(Lost(w).names))
           all == worker[w].rarities
       IN  worker' = [worker EXCEPT ![w].pc = "title", ![w].rarities = <<>>,
               ![w].artist = (MeanOf(SubSeq(all, 1, n))
                              + MeanOf(SubSeq(all, n + 1, Len(all)))) \div 2]
    /\ StageKept /\ UNCHANGED <<file, indexes, scores>>

\* load_artist_index: the flag is read again under the lock.
LockArtists(w) ==
    /\ At(w, "await artists") /\ artists.lock = None
    /\ IF artists.loaded
       THEN Goto(w, "artist") /\ UNCHANGED artists
       ELSE Goto(w, "load artists") /\ artists' = [artists EXCEPT !.lock = w]
    /\ StageKept /\ UNCHANGED <<file, titles, dating, scores>>

LoadArtists(w) ==
    /\ At(w, "load artists")
    /\ artists' = [artists EXCEPT !.counts = ArtistCounts(rows), !.of = rows,
                                  !.total = Cardinality(Documents(rows))]
    /\ Goto(w, "raise artists")
    /\ StageKept /\ UNCHANGED <<file, titles, dating, scores>>

\* The flag is raised first, and the lookup index built after it.
RaiseArtists(w) ==
    /\ At(w, "raise artists")
    /\ artists' = [artists EXCEPT !.loaded = TRUE]
    /\ Goto(w, "index artists")
    /\ StageKept /\ UNCHANGED <<file, titles, dating, scores>>

IndexArtists(w) ==
    /\ At(w, "index artists")
    /\ artists' = [artists EXCEPT !.lookup = LookupIndex(artists.counts)]
    /\ Goto(w, "free artists")
    /\ StageKept /\ UNCHANGED <<file, titles, dating, scores>>

FreeArtists(w) ==
    /\ At(w, "free artists")
    /\ artists' = [artists EXCEPT !.current = TRUE, !.lock = None]
    /\ Goto(w, "artist")
    /\ StageKept /\ UNCHANGED <<file, titles, dating, scores>>

-----------------------------------------------------------------------------
(***************************************************************************)
(* The rarity of the titles                                                *)
(***************************************************************************)
JudgeTitle(w) ==
    /\ At(w, "title")
    /\ LET a == Lost(w).title
           b == Lot(w).title
           Rare(t) == TitleRarity(titles.counts, titles.total, t)
       IN  IF None \in {a, b} THEN Goto(w, "dating")
           ELSE IF ~titles.loaded THEN Goto(w, "await titles")
           ELSE worker' = [worker EXCEPT ![w].pc = "dating",
                                         ![w].title = (Rare(a) + Rare(b)) \div 2]
    /\ StageKept /\ UNCHANGED <<file, indexes, scores>>

LockTitles(w) ==
    /\ At(w, "await titles") /\ titles.lock = None
    /\ IF titles.loaded
       THEN Goto(w, "title") /\ UNCHANGED titles
       ELSE Goto(w, "load titles") /\ titles' = [titles EXCEPT !.lock = w]
    /\ StageKept /\ UNCHANGED <<file, artists, dating, scores>>

\* Two queries, each of the table as it is then: the counts first, the total after them.
CountTitles(w) ==
    /\ At(w, "load titles")
    /\ titles' = [titles EXCEPT !.counts = TitleCounts(rows), !.of = rows]
    /\ Goto(w, "total titles")
    /\ StageKept /\ UNCHANGED <<file, artists, dating, scores>>

TotalTitles(w) ==
    /\ At(w, "total titles")
    /\ titles' = [titles EXCEPT !.total = Cardinality(Titled(rows)), !.totalOf = rows]
    /\ Goto(w, "free titles")
    /\ StageKept /\ UNCHANGED <<file, artists, dating, scores>>

FreeTitles(w) ==
    /\ At(w, "free titles")
    /\ titles' = [titles EXCEPT !.loaded = TRUE, !.lock = None]
    /\ Goto(w, "title")
    /\ StageKept /\ UNCHANGED <<file, artists, dating, scores>>

-----------------------------------------------------------------------------
(***************************************************************************)
(* The rarity of the datings, and the score                                *)
(***************************************************************************)
Compose(w, rarity) ==
    worker' = NextRow(w, PairScore(Lost(w), Lot(w), worker[w].title, worker[w].artist, rarity))

\* Nobody guards the index, nor the file: a thread that finds the file while
\* another writes it, or as a killed process left it, cannot read it.
JudgeDating(w) ==
    /\ At(w, "dating")
    /\ LET a == Lost(w).span
           b == Lot(w).span
       IN  IF ~Closed(a) \/ ~Closed(b) THEN Compose(w, 0) /\ UNCHANGED dating
           ELSE IF dating # None
           THEN /\ Compose(w, MeanConfidence(DatingRarity(dating, a), DatingRarity(dating, b)))
                /\ UNCHANGED dating
           ELSE IF file = NoFile THEN Goto(w, "query datings") /\ UNCHANGED dating
           ELSE IF file = Torn THEN Raise(w) /\ UNCHANGED dating
           ELSE dating' = file /\ UNCHANGED worker
    /\ StageKept /\ UNCHANGED <<file, artists, titles, scores>>

\* Without a dated row there is no first year to begin at, and an array has no
\* negative length.
QueryDatings(w) ==
    /\ At(w, "query datings")
    /\ IF \/ DatedSpans(rows) = <<>>
          \/ LastYear(DatedSpans(rows)) + 1 < FirstYear(DatedSpans(rows))
       THEN Raise(w) /\ UNCHANGED dating
       ELSE Goto(w, "open file") /\ dating' = DatedSpans(rows)
    /\ StageKept /\ UNCHANGED <<file, artists, titles, scores>>

OpenFile(w) ==
    /\ At(w, "open file")
    /\ file' = Torn
    /\ Goto(w, "dump")
    /\ StageKept /\ UNCHANGED <<indexes, scores>>

Dump(w) ==
    /\ At(w, "dump")
    /\ file' = dating
    /\ Goto(w, "dating")
    /\ StageKept /\ UNCHANGED <<indexes, scores>>

-----------------------------------------------------------------------------
Step(w) ==
    \/ Take(w) \/ StartPair(w) \/ LotReady(w)
    \/ AskArtist(w) \/ Unseen(w) \/ Rebuild(w) \/ Rebuilt(w) \/ ArtistsJudged(w)
    \/ LockArtists(w) \/ LoadArtists(w) \/ RaiseArtists(w) \/ IndexArtists(w) \/ FreeArtists(w)
    \/ JudgeTitle(w) \/ LockTitles(w) \/ CountTitles(w) \/ TotalTitles(w) \/ FreeTitles(w)
    \/ JudgeDating(w) \/ QueryDatings(w) \/ OpenFile(w) \/ Dump(w)

ScoringNext ==
    \/ NormalizeWithRegex \/ NormalizeWithModel
    \/ StartRun \/ Finish \/ ExitStage \/ Kill \/ ChangeRows
    \/ \E w \in Workers : Step(w)

ScoringSpec == ScoringInit /\ [][ScoringNext]_scoringVars
-----------------------------------------------------------------------------
(***************************************************************************)
(* Properties                                                              *)
(***************************************************************************)
\* What the model answers is given to the records by their text, in whatever
\* order the answers come (qwen_classify_mentions.py:301): a lot's interval is
\* what its own text says, or nothing, and its years are in order unless the
\* text itself is an interval with the later year first.
DatesAreTheirOwn ==
    \A l \in Lots : run = "off" /\ text[l] # None =>
        /\ span[l] \in {Undated, IF l \in Unmatched
                                 THEN ResolveDating(Reading[text[l].id], Birth[l])
                                 ELSE RegexDating(text[l], Birth[l])}
        /\ Backwards(span[l]) => text[l].form = "interval"

\* The scores of this run, of the lots that are through and of those in work.
ScoresOf(l) ==
    LET ready == IF scores[l] = None THEN {} ELSE {scores[l][i] : i \in DOMAIN scores[l]}
    IN  ready \cup UNION {{worker[w].found[i] : i \in DOMAIN worker[w].found} :
                            w \in {v \in Workers : worker[v].lot = l}}

\* How rare the names and the titles of a pair are among the lost artworks the
\* indexes were loaded from.  The titles are counted in one table and set
\* against the number of titles in another, where the table changed between
\* the two queries (title/count_confidence.py:45, 59).
NameRarity(n) == Rarity(Cardinality(Documents(artists.of)),
                        Cardinality({i \in DOMAIN artists.of : n.key \in Keys(artists.of[i])}))
TrueTitleRarity(t) ==
    Rarity(Cardinality(Titled(titles.totalOf)),
           Cardinality({i \in Titled(titles.of) : Spelled(titles.of[i].title) = Spelled(t)}))
MeanRarity(names) == MeanOf([i \in DOMAIN names |-> NameRarity(names[i])])

ArtistRarity(lost, lot) ==
    LET a == KnownNames(lost.names)
        b == KnownNames(lot.names)
    IN  IF <<>> \in {a, b} THEN 0 ELSE (MeanRarity(a) + MeanRarity(b)) \div 2
TitlesRarity(lost, lot) ==
    IF None \in {lost.title, lot.title} THEN 0
    ELSE (TrueTitleRarity(lost.title) + TrueTitleRarity(lot.title)) \div 2

\* However the threads interleave, and whatever is loaded, rebuilt or half
\* built when a name is looked up, no artist counts as more common than it is
\* among the rows its index was loaded from, and no title than its count is
\* among the titles that were there when these were numbered
\* (artist/count_confidence.py:250, title/count_confidence.py:56).
RarityNeverUnderstated ==
    \A l \in Lots : \A f \in ScoresOf(l) :
        LET lost == read[f.row]
            lot == LotRow(l)
        IN  ~Nameless(lost, lot) =>
            /\ f.score.confs.artist >= ArtistRarity(lost, lot)
            /\ f.score.confs.title >= TitlesRarity(lost, lot)

\* What is known of both sides agrees well enough, whatever is not known.
Agree(sims) ==
    LET known == {c \in Components : sims[c] # None}
    IN  known # {} /\ SumFunction([c \in known |-> Weights[c] * (sims[c] - Threshold)]) >= 0

\* A pair that agrees, and is rare enough by the tables its run has loaded, even
\* if its dating counts for nothing.
Deserving(lost, lot) ==
    /\ ~Nameless(lost, lot)
    /\ Agree(Similarities(lost, lot))
    /\ ConfidenceScore(Confidences(lost, lot, TitlesRarity(lost, lot), ArtistRarity(lost, lot), 0))
           >= ConfThreshold

\* The table takes the similarities and the final score of a pair, whatever it was
\* scored with.  It takes the confidence too, unless the dating's is no number
\* (dating/count_confidence.py:78, 01_schema_production.sql:406).
FitsTable(s) ==
    /\ InRange(s.final)
    /\ \A c \in Components : InRange(s.sims[c])
    /\ InRange(s.confidence) <=> s.confs.dating # NaN

\* A row is kept for one of two reasons: image matching has scored the pair, or
\* what is known of it agrees and its confidence reaches the threshold.  And no
\* such pair is missing once its lot is through, what is rare being said by the
\* tables its run has loaded (metadata_matcher.py:343, 386).
\* A row that is kept can be inserted, but for a confidence that is no number.
KeptIsDeserved ==
    \A l \in Lots :
        /\ \A f \in ScoresOf(l) :
              /\ FitsTable(f.score)
              /\ \/ <<l, f.row>> \in ImagePairs
                 \/ /\ Agree(f.score.sims)
                    /\ f.score.confidence \notin 0..(ConfThreshold - 1)
        /\ scores[l] # None =>
              \A i \in DOMAIN read :
                  (<<l, i>> \in ImagePairs \/ Deserving(read[i], LotRow(l))) =>
                      \E f \in ScoresOf(l) : f.row = i
=============================================================================
