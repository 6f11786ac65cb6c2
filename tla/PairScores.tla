----------------------------- MODULE PairScores -----------------------------
(***************************************************************************)
(* The metadata scores of a lost artwork and an auction lot               *)
(* (matching_pipeline/metadata_matching): six similarities, each from 0 to *)
(* Unit or None where a side is missing, six confidences from 0 to Unit,   *)
(* and the weighted means of calculate_pair_score.                         *)
(*                                                                         *)
(* Scores are integers, Unit standing for 1.0.  Names and titles are       *)
(* records that keep apart what the code compares: a name [key, form] its  *)
(* case-folded spelling and its own; a title [words, rest, form] the words *)
(* of WORDS_TO_REMOVE in it, the rest of it (None if nothing) and the      *)
(* white space around it.  The edit distances, the logarithms and the      *)
(* density of sizes are parameters.                                        *)
(***************************************************************************)
EXTENDS DatingIntervals, FiniteSets, FiniteSetsExt

CONSTANTS NameAlike(_, _),    \* Jaro-Winkler of two different names
          TitleEdits(_, _),   \* Levenshtein of two different titles
          LogShare(_, _),     \* log(total / count) / log(total), clamped to 0..Unit
          SizeRarity(_, _),   \* log(1 / density) of a size, normalised and clamped
          CommonTitles,       \* the titles of common_titles.csv and their scores
          UnknownKeys,        \* UNKNOWN_ARTIST_NAMES
          Unbekannt,          \* the one of them that is also the root of the trees
          Parent              \* Parent["material"], Parent["technique"]: name -> parent

Unit == 100
NaN == -1                     \* the confidence that came from a division by log(1)

Weights == [title |-> 35, artist |-> 25, dating |-> 15, dimensions |-> 15,
            material |-> 5, technique |-> 5]
Components == DOMAIN Weights
Threshold == 70
ConfThreshold == 50

MeanOf(s) == SumFunction(s) \div Len(s)

\* The members of a sequence that are in a set, in their order.
Among(S, s) ==
    LET upto[k \in 0..Len(s)] ==
            IF k = 0 THEN <<>>
            ELSE IF s[k] \in S THEN Append(upto[k - 1], s[k]) ELSE upto[k - 1]
    IN  upto[Len(s)]

-----------------------------------------------------------------------------
(***************************************************************************)
(* Artists                                                                 *)
(***************************************************************************)
KnownNames(names) == Among({n \in Range(names) : n.key \notin UnknownKeys}, names)

Rarity(total, count) == IF total <= 1 \/ count <= 1 THEN Unit ELSE LogShare(total, count)

\* In how many rows a name occurs, counted once per row under the spelling
\* met first; the rows with a name in them.
Documents(rows) == {i \in DOMAIN rows : KnownNames(rows[i].names) # <<>>}
Keys(row) == {n.key : n \in {row.names[j] : j \in DOMAIN row.names}} \ UnknownKeys
FirstSpelling(rows, key) ==
    LET i == Least({d \in Documents(rows) : key \in Keys(rows[d])})
        ns == KnownNames(rows[i].names)
    IN  ns[Least({j \in DOMAIN ns : ns[j].key = key})]

\* A bug: an artist who stands twice in a row counts twice.
ArtistMentions(rows) ==
    LET keys == UNION {Keys(rows[i]) : i \in DOMAIN rows}
    IN  [n \in {FirstSpelling(rows, key) : key \in keys} |->
            SumFunction([i \in DOMAIN rows |->
                Cardinality({j \in DOMAIN rows[i].names : rows[i].names[j].key = n.key})])]

ArtistCounts(rows) ==
    LET keys == UNION {Keys(rows[i]) : i \in DOMAIN rows}
    IN  [n \in {FirstSpelling(rows, key) : key \in keys} |->
            Cardinality({i \in DOMAIN rows : n.key \in Keys(rows[i])})]
LookupIndex(counts) == [key \in {n.key : n \in DOMAIN counts} |->
                            CHOOSE n \in DOMAIN counts : n.key = key]

\* A lost artist and the artist of a lot, all its names in one.
ArtistAlike(a, b) == IF b = None THEN None
                     ELSE IF {"", Unbekannt} \cap {a.key, b.key} # {} THEN None
                     ELSE IF a.key = b.key THEN Unit ELSE NameAlike(a.key, b.key)

-----------------------------------------------------------------------------
(***************************************************************************)
(* Titles                                                                  *)
(***************************************************************************)
Spelled(t) == [words |-> t.words, rest |-> t.rest]

\* Both titles without the removable words they share, unless one of them
\* consists of nothing else.
Stripped(a, b) ==
    LET shared == a.words \cap b.words
        Rest(t) == [words |-> t.words \ shared, rest |-> t.rest]
        Blank(t) == t.words \subseteq shared /\ t.rest = None
    IN  IF Blank(a) \/ Blank(b) THEN <<Spelled(a), Spelled(b)>> ELSE <<Rest(a), Rest(b)>>

EditAlike(a, b) == LET pair == Stripped(a, b)
                   IN  IF pair[1] = pair[2] THEN Unit ELSE TitleEdits(pair[1], pair[2])

\* Equal titles score Unit, or less when the title is a common one.
TitleAlike(a, b) ==
    IF None \in {a, b} THEN None
    ELSE IF Spelled(a) # Spelled(b) THEN EditAlike(a, b)
    ELSE IF Spelled(a) \in DOMAIN CommonTitles THEN CommonTitles[Spelled(a)]
    ELSE Unit

\* The titles that occur more than once, counted as they are stored and kept
\* by their normal form: of several stored forms the rarest is kept.
Titled(rows) == {i \in DOMAIN rows : rows[i].title # None}
TitleCounts(rows) ==
    LET count(t) == Cardinality({i \in Titled(rows) : rows[i].title = t})
        repeated == {t \in {rows[i].title : i \in Titled(rows)} : count(t) > 1}
    IN  [n \in {Spelled(t) : t \in repeated} |->
            Least({count(t) : t \in {u \in repeated : Spelled(u) = n}})]

TitleRarity(counts, total, t) ==
    IF Spelled(t) \in DOMAIN counts THEN Rarity(total, counts[Spelled(t)]) ELSE Unit

-----------------------------------------------------------------------------
(***************************************************************************)
(* Datings                                                                 *)
(***************************************************************************)
Buffer == 200

\* An open interval is closed two hundred years further on, or now.
Filled(iv) ==
    LET s == IF iv.start = None THEN iv.end - Buffer ELSE iv.start
    IN  Interval(s, IF iv.end = None THEN Capped(s + Buffer) ELSE iv.end)

DatingAlike(a, b) ==
    IF Undated \in {a, b} THEN None
    ELSE LET x == Filled(a) y == Filled(b)
         IN  IF Greatest({x.start, y.start}) <= Least({x.end, y.end}) THEN Unit ELSE 0

Closed(iv) == None \notin Bounds(iv)

\* The intervals the rarity of a year is counted over.
DatedSpans(rows) ==
    LET spans == [i \in DOMAIN rows |-> rows[i].span]
    IN  Among({iv \in Range(spans) : Closed(iv)}, spans)

FirstYear(spans) == Least({spans[i].start : i \in DOMAIN spans})
LastYear(spans) == Greatest({spans[i].end : i \in DOMAIN spans})

\* The year an interval is counted up to.  The counts are an array that begins
\* at the first year: an index before it counts from the array's end.
Until(spans, iv) ==
    IF iv.end + 1 >= FirstYear(spans) THEN iv.end + 1
    ELSE iv.end + 1 + (LastYear(spans) + 1 - FirstYear(spans))

YearRarity(spans, year) ==
    LET covered == Cardinality({i \in DOMAIN spans :
                        spans[i].start <= year /\ year < Until(spans, spans[i])})
    IN  Rarity(Len(spans), covered)

\* The mean rarity of the years of an interval that lie within the years
\* known; one dated row alone has log(1) = 0 to divide by.
DatingRarity(spans, iv) ==
    LET lo == Greatest({iv.start, FirstYear(spans)})
        hi == Least({iv.end, LastYear(spans)})
    IN  IF lo > hi THEN Unit
        ELSE IF Len(spans) = 1 THEN NaN
        ELSE SumFunction([y \in lo..hi |-> YearRarity(spans, y)]) \div (iv.end - iv.start + 1)

MeanConfidence(a, b) == IF NaN \in {a, b} THEN NaN ELSE (a + b) \div 2

-----------------------------------------------------------------------------
(***************************************************************************)
(* Sizes                                                                   *)
(***************************************************************************)
Sized(r) == r.width # None /\ r.height # None

WithinTenth(a, b) ==
    /\ a > 0 /\ b > 0
    /\ 10 * (IF a > b THEN a - b ELSE b - a) <= (IF a > b THEN a ELSE b)

SizesAlike(a, b) ==
    IF ~Sized(a) \/ ~Sized(b) THEN None
    ELSE ( (IF WithinTenth(a.width, b.width) THEN Unit ELSE 0)
         + (IF WithinTenth(a.height, b.height) THEN Unit ELSE 0)) \div 2

\* Prepared with the row, once for each artwork.
SizeConfidence(r) == IF Sized(r) THEN SizeRarity(r.width, r.height) ELSE 0

-----------------------------------------------------------------------------
(***************************************************************************)
(* Materials and techniques: places in two trees                           *)
(***************************************************************************)
\* The path from a name towards the root: it ends at the root, at a name that
\* is not in the tree or has no parent, and when it meets itself.
PathFrom(tree, name) ==
    LET End(p) == p[Len(p)]
        AtEnd(p) == \/ End(p) \notin DOMAIN tree
                    \/ tree[End(p)] = None
                    \/ Len(p) > 1 /\ End(p) = Unbekannt
                    \/ \E i \in 1..(Len(p) - 1) : p[i] = End(p)
        walk[k \in 0..Cardinality(DOMAIN tree)] ==
            IF k = 0 THEN <<name>>
            ELSE IF AtEnd(walk[k - 1]) THEN walk[k - 1]
            ELSE Append(walk[k - 1], tree[End(walk[k - 1])])
    IN  walk[Cardinality(DOMAIN tree)]

PathToRoot(tree, name) == IF name \in DOMAIN tree THEN PathFrom(tree, name) ELSE <<Unbekannt>>

\* The edges two paths to the root share, over the edges of both.
PlacesAlike(tree, a, b) ==
    IF Unbekannt \in {a, b} THEN None
    ELSE IF a = b THEN Unit
    ELSE LET p == PathToRoot(tree, a)
             q == PathToRoot(tree, b)
             Node(path, i) == path[Len(path) - i + 1]
             lengths == 1..Least({Len(p), Len(q)})
             shared == Cardinality({n \in lengths : \A i \in 1..n : Node(p, i) = Node(q, i)})
             common == IF shared > 1 THEN shared - 1 ELSE 0
             total == (Len(p) - 1) + (Len(q) - 1) - common
         IN  IF total <= 0 THEN Unit ELSE (Unit * common) \div total

BestOf(S) == IF S \ {None} = {} THEN None ELSE Greatest(S \ {None})

BestAlike(tree, as, bs) ==
    BestOf({PlacesAlike(tree, as[i], bs[j]) : i \in DOMAIN as, j \in DOMAIN bs})

Depth(tree, name) == Len(PathToRoot(tree, name)) - 1
Height(tree) == IF DOMAIN tree = {} THEN 0 ELSE Greatest({Depth(tree, n) : n \in DOMAIN tree})

DepthRatio(tree, name) ==
    IF name = Unbekannt \/ Height(tree) = 0 THEN 0
    ELSE (Unit * Depth(tree, name)) \div Height(tree)

NothingKnown(names) == \A i \in DOMAIN names : names[i] = Unbekannt

FieldConfidence(tree, names) == MeanOf([i \in DOMAIN names |-> DepthRatio(tree, names[i])])

PlaceConfidence(tree, as, bs) ==
    IF NothingKnown(as) \/ NothingKnown(bs) THEN 0
    ELSE (FieldConfidence(tree, as) + FieldConfidence(tree, bs)) \div 2

-----------------------------------------------------------------------------
(***************************************************************************)
(* The pair                                                                *)
(***************************************************************************)
\* Neither a title nor an artist to go by, on one side.
Nameless(lost, lot) == \/ lost.title = None /\ lost.names = <<>>
                       \/ lot.title = None /\ lot.artist = None

Similarities(lost, lot) ==
    [title      |-> TitleAlike(lost.title, lot.title),
     artist     |-> BestOf({ArtistAlike(lost.names[i], lot.artist) : i \in DOMAIN lost.names}),
     dating     |-> DatingAlike(lost.span, lot.span),
     dimensions |-> SizesAlike(lost, lot),
     material   |-> BestAlike(Parent["material"], lost.materials, lot.materials),
     technique  |-> BestAlike(Parent["technique"], lost.techniques, lot.techniques)]

\* The confidences of the title, the artist and the dating come from indexes
\* over all lost artworks.
Confidences(lost, lot, title, artist, dating) ==
    [title |-> title, artist |-> artist, dating |-> dating,
     dimensions |-> MeanConfidence(SizeConfidence(lost), SizeConfidence(lot)),
     material   |-> PlaceConfidence(Parent["material"], lost.materials, lot.materials),
     technique  |-> PlaceConfidence(Parent["technique"], lost.techniques, lot.techniques)]

\* The mean of the similarities that are known, by the weights of these.
FinalOverAll(sims) ==
    SumFunction([c \in {k \in Components : sims[k] # None} |-> Weights[c] * sims[c]]) \div Unit

FinalScore(sims) ==
    LET known == {c \in Components : sims[c] # None}
    IN  IF known = {} THEN 0
        ELSE SumFunction([c \in known |-> Weights[c] * sims[c]])
                 \div SumFunction([c \in known |-> Weights[c]])

ConfidenceScore(confs) ==
    IF \E c \in Components : confs[c] = NaN THEN NaN
    ELSE SumFunction([c \in Components |-> Weights[c] * confs[c]]) \div Unit

\* A score that is not a number is below no threshold.
Worthless(final, confidence) ==
    final < Threshold \/ (confidence # NaN /\ confidence < ConfThreshold)

PairScore(lost, lot, title, artist, dating) ==
    IF Nameless(lost, lot)
    THEN [sims |-> [c \in Components |-> 0], confs |-> [c \in Components |-> 0],
          final |-> 0, confidence |-> 0, valid |-> FALSE]
    ELSE LET sims == Similarities(lost, lot)
             confs == Confidences(lost, lot, title, artist, dating)
             final == FinalScore(sims)
             confidence == ConfidenceScore(confs)
         IN  [sims |-> sims, confs |-> confs, final |-> final, confidence |-> confidence,
              valid |-> ~Worthless(final, confidence)]
=============================================================================
