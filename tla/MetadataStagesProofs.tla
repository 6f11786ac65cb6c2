------------------------ MODULE MetadataStagesProofs ------------------------
(***************************************************************************)
(* For any numbers of lots, lost artworks, versions, scrapes and failures, *)
(* a mark of a metadata stage stands for what its row says, unless the row *)
(* was scraped while the stage held it.  A stage keeps what it has read    *)
(* beside rows that change: a row that was not scraped meanwhile still     *)
(* says what was read, and one that was is recorded as such.               *)
(***************************************************************************)
EXTENDS MetadataStages, TLAPS

-----------------------------------------------------------------------------
(* The inductive invariant.                                                *)

\* Who holds rows when.
StageOK ==
  /\ stage \notin {"extract", "write"} \cup AllSteps => DOMAIN file = {}
  /\ stage \notin {"fetch", "score"} => DOMAIN stream = {}
  /\ stage # "score" => DOMAIN batch = {} /\ scored = {}

\* A description is the row's, unless the row was scraped since, and has gone through the
\* steps before the one at hand.
FileOK ==
  \A a \in DOMAIN file :
    /\ <<a, file[a].text>> \notin Silent
    /\ file[a].parsed => <<a, file[a].text>> \notin Garbled
    /\ a \notin retold => file[a].text = row[a].text
    /\ \A n \in 1..4 : stage = Steps[n] => file[a].filled = {Steps[m] : m \in 1..(n - 1)}
    /\ stage = "extract" => file[a].filled = {}
    /\ stage = "write" => file[a].filled = AllSteps

\* What MatchedIsScored says of a row that is matched.
IsScored(a) ==
  \A l \in Losts :
    /\ Alike(l, row[a].title, row[a].meta) =>
         score[<<l, a>>] # None /\ score[<<l, a>>].meta = Input(row[a])
    /\ ~Pending(<<l, a>>)

\* What the matching holds of a row is what the row says, unless it was scraped since; no pair
\* waits for a score that was not read with its batch.
HeldOK ==
  /\ \A a \in DOMAIN stream : a \notin reshown => stream[a] = Input(row[a])
  /\ \A a \in DOMAIN batch : a \notin reshown => batch[a] = Input(row[a])
  /\ \A a \in DOMAIN batch, l \in Losts : Pending(<<l, a>>) => <<l, a>> \in known
  /\ \A a \in scored : a \notin reshown => IsScored(a)

IInv ==
  TypeOK /\ StageOK /\ FileOK /\ HeldOK /\ ExtractedIsCurrent /\ MatchedIsScored
-----------------------------------------------------------------------------
(* What the statements do to a row.                                        *)

LEMMA AllStepsAre ==
  /\ AllSteps = {"artist", "dating", "dimensions", "technique"}
  /\ Steps[1] = "artist" /\ Steps[2] = "dating" /\ Steps[3] = "dimensions"
  /\ Steps[4] = "technique" /\ \A n \in 1..4 : Steps[n] \in AllSteps
<1>1. /\ Steps[1] = "artist" /\ Steps[2] = "dating" /\ Steps[3] = "dimensions"
      /\ Steps[4] = "technique"
  BY DEF Steps
<1>2. \A n \in 1..4 : n = 1 \/ n = 2 \/ n = 3 \/ n = 4 OBVIOUS
<1> QED BY <1>1, <1>2 DEF AllSteps

\* The trigger takes away the marks of what has changed.
LEMMA TriggeredIs ==
  ASSUME NEW old \in Rows, NEW new \in Rows
  PROVE  /\ Triggered(old, new) \in Rows
         /\ Triggered(old, new).text = new.text /\ Input(Triggered(old, new)) = Input(new)
         /\ Triggered(old, new).title = new.title /\ Triggered(old, new).meta = new.meta
         /\ Triggered(old, new).imaged = new.imaged
         /\ Triggered(old, new).extracted <=> new.extracted /\ new.text = old.text
         /\ Triggered(old, new).matched <=>
              new.matched /\ Input(new) = Input(old) /\ new.text = old.text
BY DEF Triggered, Rows, Input

LEMMA UpdateIs ==
  ASSUME TypeOK, NEW changes, DOMAIN changes \subseteq Auctions,
         \A a \in DOMAIN changes : changes[a] \in Rows, Update(changes)
  PROVE  /\ row' \in [Auctions -> Rows]
         /\ \A a \in Auctions : row'[a] = IF a \in DOMAIN changes
                                          THEN Triggered(row[a], changes[a]) ELSE row[a]
<1>1. \A a \in Auctions : row[a] \in Rows BY DEF TypeOK
<1>2. \A a \in DOMAIN changes : Triggered(row[a], changes[a]) \in Rows
  BY <1>1, TriggeredIs
<1>3. row' = [a \in Auctions |-> IF a \in DOMAIN changes
                                 THEN Triggered(row[a], changes[a]) ELSE row[a]]
  BY DEF Update
<1> QED BY <1>1, <1>2, <1>3

LEMMA RowFacts ==
  ASSUME TypeOK, NEW a \in Auctions
  PROVE  /\ row[a] \in Rows /\ row[a].text \in Versions /\ row[a].meta \in Metadata \cup {None}
         /\ row[a].title \in Titles /\ Input(row[a]) \in Inputs
         /\ {row[a].imaged, row[a].extracted, row[a].matched} \subseteq BOOLEAN
BY DEF TypeOK, Rows, Input, Inputs

\* A page that is scraped again keeps the marks as long as it says the same.
LEMMA ScrapeIs ==
  ASSUME TypeOK, NEW b \in Auctions, Scrape(b)
  PROVE  /\ row' \in [Auctions -> Rows] /\ \A a \in Auctions : a # b => row'[a] = row[a]
         /\ row'[b].meta = row[b].meta
         /\ row'[b].extracted <=> row[b].extracted /\ row'[b].text = row[b].text
         /\ row'[b].matched <=> row[b].matched /\ Input(row'[b]) = Input(row[b])
                                  /\ row'[b].text = row[b].text
         /\ UNCHANGED <<score, stage, work>>
<1>1. PICK v \in Versions, linked \in BOOLEAN :
        Update([x \in {b} |-> [row[b] EXCEPT !.text = v, !.title = [of |-> "site", v |-> v],
                                             !.imaged = @ /\ ~linked]])
  BY DEF Scrape
<1> DEFINE n == [row[b] EXCEPT !.text = v, !.title = [of |-> "site", v |-> v],
                               !.imaged = @ /\ ~linked]
<1>2. row[b] \in Rows /\ [of |-> "site", v |-> v] \in Titles BY RowFacts DEF Titles
<1>3. /\ n \in Rows /\ n.text = v /\ n.meta = row[b].meta
      /\ n.extracted = row[b].extracted /\ n.matched = row[b].matched
  BY <1>2 DEF Rows
<1>4. Update([x \in {b} |-> n]) BY <1>1
<1> HIDE DEF n
<1>5. /\ row' \in [Auctions -> Rows]
      /\ \A a \in Auctions : row'[a] = IF a \in {b} THEN Triggered(row[a], n) ELSE row[a]
  BY <1>3, <1>4, UpdateIs
<1>6. row'[b] = Triggered(row[b], n) /\ \A a \in Auctions : a # b => row'[a] = row[a] BY <1>5
<1>7. UNCHANGED <<score, stage, work>> BY DEF Scrape
<1> QED BY <1>2, <1>3, <1>5, <1>6, <1>7, TriggeredIs

\* What is written back: the mark, and unless the answer is blank what was read.
LEMMA WriteIs ==
  ASSUME TypeOK, WriteDescriptions
  PROVE  /\ row' \in [Auctions -> Rows]
         /\ \A a \in Auctions :
              \/ row'[a] = row[a]
              \/ /\ a \in DOMAIN file /\ file[a].parsed
                 /\ row'[a].text = row[a].text /\ row'[a].extracted
                 /\ row'[a].matched <=> row[a].matched /\ Input(row'[a]) = Input(row[a])
                 /\ \/ <<a, file[a].text>> \in Blank /\ row'[a].meta = row[a].meta
                    \/ row'[a].meta = [of |-> file[a].text, filled |-> file[a].filled]
<1> DEFINE P == {x \in DOMAIN file : file[x].parsed}
           w == [a \in P |-> Written(a)]
<1>1. ASSUME NEW a \in P
      PROVE  /\ Written(a) \in Rows /\ Written(a).text = row[a].text /\ Written(a).extracted
             /\ Written(a).matched = row[a].matched
             /\ \/ <<a, file[a].text>> \in Blank /\ Written(a).meta = row[a].meta
                \/ Written(a).meta = [of |-> file[a].text, filled |-> file[a].filled]
  <2>1. a \in Auctions /\ file[a] \in Records BY DEF TypeOK
  <2>2. row[a] \in Rows /\ file[a].text \in Versions /\ file[a].filled \in SUBSET AllSteps
    BY <2>1, RowFacts DEF Records
  <2>3. /\ [of |-> "text", v |-> file[a].text] \in Titles
        /\ [of |-> file[a].text, filled |-> file[a].filled] \in Metadata
    BY <2>2 DEF Titles, Metadata
  <2>4. CASE <<a, file[a].text>> \in Blank BY <2>2, <2>4 DEF Written, Rows
  <2>5. CASE <<a, file[a].text>> \notin Blank BY <2>2, <2>3, <2>5 DEF Written, Rows
  <2> QED BY <2>4, <2>5
<1>2. P \subseteq Auctions /\ Update(w) BY DEF TypeOK, WriteDescriptions
<1>3. DOMAIN w = P /\ \A a \in P : w[a] = Written(a) OBVIOUS
<1> HIDE DEF w
<1>4. /\ row' \in [Auctions -> Rows]
      /\ \A a \in Auctions : row'[a] = IF a \in P THEN Triggered(row[a], Written(a)) ELSE row[a]
  BY <1>1, <1>2, <1>3, UpdateIs
<1>5. ASSUME NEW a \in P
      PROVE  /\ row'[a].text = row[a].text /\ row'[a].extracted
             /\ row'[a].matched <=> row[a].matched /\ Input(row'[a]) = Input(row[a])
             /\ row'[a].meta = Written(a).meta
  <2>1. row'[a] = Triggered(row[a], Written(a)) /\ row[a] \in Rows BY <1>2, <1>4, RowFacts
  <2>2. /\ Written(a) \in Rows /\ Written(a).text = row[a].text /\ Written(a).extracted
        /\ Written(a).matched = row[a].matched
    BY <1>1
  <2> DEFINE n == Written(a)
  <2> HIDE DEF n
  <2>3. /\ Triggered(row[a], n).text = n.text /\ Triggered(row[a], n).meta = n.meta
        /\ Input(Triggered(row[a], n)) = Input(n)
        /\ Triggered(row[a], n).extracted <=> n.extracted /\ n.text = row[a].text
        /\ Triggered(row[a], n).matched <=>
             n.matched /\ Input(n) = Input(row[a]) /\ n.text = row[a].text
    BY <2>1, <2>2, TriggeredIs DEF n
  <2>4. /\ row'[a] = Triggered(row[a], n) /\ n.text = row[a].text /\ n.extracted
        /\ n.matched = row[a].matched /\ n.meta = Written(a).meta
    BY <2>1, <2>2 DEF n
  <2> QED BY <2>3, <2>4
<1> QED BY <1>1, <1>4, <1>5

\* A page that still shows what it showed is no event for who holds its row.
LEMMA ScrapeRecords ==
  ASSUME NEW b \in Auctions, Scrape(b)
  PROVE  /\ \A a \in Auctions \ {b} : /\ a \in retold' <=> a \in retold
                                      /\ a \in reshown' <=> a \in reshown
         /\ row'[b].text = row[b].text => retold' = retold
         /\ row'[b].text # row[b].text /\ b \in DOMAIN file => b \in retold'
         /\ Input(row'[b]) = Input(row[b]) /\ row'[b].text = row[b].text => reshown' = reshown
         /\ Input(row'[b]) # Input(row[b])
              /\ b \in DOMAIN stream \cup DOMAIN batch \cup scored => b \in reshown'
         /\ retold' \subseteq retold \cup {b} /\ reshown' \subseteq reshown \cup {b}
<1>1. retold' = IF row'[b].text = row[b].text THEN retold
                ELSE IF b \in DOMAIN file THEN retold \cup {b} ELSE retold \ {b}
  BY DEF Scrape
<1>2. reshown' = IF Input(row'[b]) = Input(row[b]) /\ row'[b].text = row[b].text THEN reshown
                 ELSE IF b \in DOMAIN stream \cup DOMAIN batch \cup scored
                      THEN reshown \cup {b} ELSE reshown \ {b}
  BY DEF Scrape
<1> QED BY <1>1, <1>2

-----------------------------------------------------------------------------
(* What a mark of the matching stands for.                                 *)

LEMMA InputsAre ==
  ASSUME NEW r, NEW q, Input(r) = Input(q)
  PROVE  r.title = q.title /\ r.meta = q.meta
BY DEF Input

LEMMA MatchedIs ==
  MatchedIsScored <=> \A a \in Auctions : row[a].matched /\ a \notin reshown => IsScored(a)
BY DEF MatchedIsScored, IsScored

LEMMA MatchedIsPrime ==
  MatchedIsScored' <=>
    \A a \in Auctions : row'[a].matched /\ a \notin reshown' => IsScored(a)'
BY DEF MatchedIsScored, IsScored, Pending

\* A row that says the same and whose scores stand is as scored as before.
LEMMA StaysScored ==
  ASSUME NEW a \in Auctions, IsScored(a), Input(row'[a]) = Input(row[a]),
         \A l \in Losts : score'[<<l, a>>] = score[<<l, a>>]
  PROVE  IsScored(a)'
<1>1. row'[a].title = row[a].title /\ row'[a].meta = row[a].meta BY InputsAre
<1> QED BY <1>1 DEF IsScored, Pending

\* The rows and the scores as they are, and no row less recorded than before.
LEMMA StillMatched ==
  ASSUME MatchedIsScored, UNCHANGED stores,
         \A a \in Auctions : row[a].matched /\ a \notin reshown' => a \notin reshown
  PROVE  MatchedIsScored'
<1>1. \A a \in Auctions : row'[a] = row[a] /\ \A l \in Losts : score'[<<l, a>>] = score[<<l, a>>]
  BY DEF stores
<1>2. ASSUME NEW a \in Auctions, row'[a].matched, a \notin reshown' PROVE IsScored(a)'
  <2>1. IsScored(a) BY <1>1, <1>2, MatchedIs
  <2> QED BY <1>1, <2>1, StaysScored
<1> QED BY <1>2, MatchedIsPrime

LEMMA StillExtracted ==
  ASSUME ExtractedIsCurrent, UNCHANGED row,
         \A a \in Auctions : row[a].extracted /\ a \notin retold' => a \notin retold
  PROVE  ExtractedIsCurrent'
BY DEF ExtractedIsCurrent

\* Nothing held, nothing to keep up with.
LEMMA HoldsNothing ==
  /\ DOMAIN file' = {} => FileOK'
  /\ DOMAIN stream' = {} /\ DOMAIN batch' = {} /\ scored' = {} => HeldOK'
BY DEF FileOK, HeldOK

LEMMA NoFileIs == DOMAIN NoFile = {} /\ \A f, S : DOMAIN Without(f, S) = DOMAIN f \ S
BY DEF NoFile, Without

LEMMA StagesAre ==
  AllSteps \cap {"images", "extraction", "extract", "write", "matching", "fetch", "score"} = {}
BY AllStepsAre

\* Between the stages of a cycle nothing is held.
LEMMA BetweenStages ==
  ASSUME StageOK, stage \in {"images", "extraction", "matching"}
  PROVE  DOMAIN file = {} /\ DOMAIN stream = {} /\ DOMAIN batch = {} /\ scored = {}
BY StagesAre DEF StageOK

LEMMA ExtractionHolds ==
  ASSUME StageOK, stage \in {"extract", "write"} \cup AllSteps
  PROVE  DOMAIN stream = {} /\ DOMAIN batch = {} /\ scored = {}
BY StagesAre DEF StageOK

LEMMA MatchingHolds ==
  ASSUME StageOK, stage \in {"fetch", "score"}
  PROVE  DOMAIN file = {} /\ (stage = "fetch" => DOMAIN batch = {} /\ scored = {})
BY StagesAre DEF StageOK

-----------------------------------------------------------------------------
(* Every step keeps the invariant.                                         *)

LEMMA ImageStageKeeps == ASSUME IInv, ImageStage PROVE IInv'
<1>1. PICK found \in SUBSET {p \in Pairs : ~row[p[2]].imaged} :
        LET now == [p \in Pairs |->
                      IF p \in found
                      THEN [image |-> TRUE, meta |-> IF score[p] = None THEN None ELSE score[p].meta]
                      ELSE score[p]]
            again == {p[2] : p \in {q \in found : now[q].meta = None}}
        IN  /\ score' = now
            /\ row' = [a \in Auctions |-> [row[a] EXCEPT !.imaged = TRUE,
                                                        !.matched = @ /\ a \notin again]]
  BY DEF ImageStage
<1> DEFINE again == {p[2] : p \in {q \in found : score'[q].meta = None}}
<1>2. score' = [p \in Pairs |->
                  IF p \in found
                  THEN [image |-> TRUE, meta |-> IF score[p] = None THEN None ELSE score[p].meta]
                  ELSE score[p]]
  BY <1>1
<1>3. row' = [a \in Auctions |-> [row[a] EXCEPT !.imaged = TRUE, !.matched = @ /\ a \notin again]]
  BY <1>1
<1>4. /\ stage = "images" /\ stage' = "extraction" /\ UNCHANGED <<work, scrapes, faults, history>>
      /\ TypeOK /\ StageOK
  BY DEF ImageStage, IInv
<1>5. DOMAIN file = {} /\ DOMAIN stream = {} /\ DOMAIN batch = {} /\ scored = {}
  BY <1>4, BetweenStages
<1>6. \A a \in Auctions :
        /\ row'[a].text = row[a].text /\ row'[a].title = row[a].title /\ row'[a].meta = row[a].meta
        /\ row'[a].extracted = row[a].extracted
        /\ row'[a].matched <=> row[a].matched /\ a \notin again
        /\ row'[a] \in Rows
  <2> TAKE a \in Auctions
  <2>1. row[a] \in Rows /\ row'[a] = [row[a] EXCEPT !.imaged = TRUE, !.matched = @ /\ a \notin again]
    BY <1>3, <1>4, RowFacts
  <2> HIDE DEF again
  <2> QED BY <2>1 DEF Rows
<1>7. \A p \in Pairs : score'[p] \in Scores \cup {None}
  <2> TAKE p \in Pairs
  <2>1. score[p] \in Scores \cup {None} BY <1>4 DEF TypeOK
  <2>2. CASE p \notin found BY <1>2, <2>1, <2>2
  <2>3. CASE p \in found
    <3>1. (IF score[p] = None THEN None ELSE score[p].meta) \in Inputs \cup {None}
      BY <2>1 DEF Scores
    <3> QED BY <1>2, <2>3, <3>1 DEF Scores
  <2> QED BY <2>2, <2>3
<1>8. TypeOK'
  <2>1. row' \in [Auctions -> Rows] /\ score' \in [Pairs -> Scores \cup {None}]
    BY <1>2, <1>3, <1>6, <1>7
  <2> QED BY <1>4, <2>1 DEF TypeOK, work, history
<1>9. StageOK' BY <1>4, <1>5 DEF StageOK, work
<1>10. FileOK' /\ HeldOK' BY <1>4, <1>5, HoldsNothing DEF work
<1>11. ExtractedIsCurrent' BY <1>4, <1>6 DEF IInv, ExtractedIsCurrent, history
<1>12. MatchedIsScored'
  <2>1. ASSUME NEW a \in Auctions, row'[a].matched, a \notin reshown' PROVE IsScored(a)'
    <3>1. row[a].matched /\ a \notin again /\ a \notin reshown BY <1>4, <1>6, <2>1 DEF history
    <3>2. IsScored(a) BY <3>1, MatchedIs DEF IInv
    <3>3. ASSUME NEW l \in Losts
          PROVE  /\ Alike(l, row[a].title, row[a].meta) =>
                      score'[<<l, a>>] # None /\ score'[<<l, a>>].meta = Input(row[a])
                 /\ ~(score'[<<l, a>>] # None /\ score'[<<l, a>>].image
                        /\ score'[<<l, a>>].meta = None)
      <4>1. <<l, a>> \in Pairs /\ <<l, a>>[2] = a BY DEF Pairs
      <4>2. CASE <<l, a>> \notin found
        BY <1>2, <3>2, <4>1, <4>2 DEF IsScored, Pending
      <4>3. CASE <<l, a>> \in found
        <5>1. score'[<<l, a>>].meta # None BY <3>1, <4>1, <4>3
        <5>2. score'[<<l, a>>] = [image |-> TRUE, meta |-> IF score[<<l, a>>] = None THEN None
                                                          ELSE score[<<l, a>>].meta]
          BY <1>2, <4>1, <4>3
        <5>3. score'[<<l, a>>].meta = score[<<l, a>>].meta BY <5>1, <5>2
        <5>4. score[<<l, a>>] \in Scores BY <1>4, <4>1, <5>1, <5>2 DEF TypeOK
        <5>5. score[<<l, a>>].meta \in Inputs \cup {None} BY <5>4 DEF Scores
        <5>6. score'[<<l, a>>] = [image |-> TRUE, meta |-> score[<<l, a>>].meta]
          <6>1. score[<<l, a>>] # None BY <5>4, NoneAssumption
          <6> QED BY <5>2, <6>1
        <5>7. score'[<<l, a>>] \in Scores BY <5>5, <5>6 DEF Scores
        <5> QED BY <3>2, <5>1, <5>3, <5>7, NoneAssumption DEF IsScored
      <4> QED BY <4>2, <4>3
    <3>4. Input(row'[a]) = Input(row[a]) /\ row'[a].title = row[a].title /\ row'[a].meta = row[a].meta
      BY <1>6 DEF Input
    <3> QED BY <3>3, <3>4 DEF IsScored, Pending
  <2> QED BY <2>1, MatchedIsPrime
<1> QED BY <1>8, <1>9, <1>10, <1>11, <1>12 DEF IInv

LEMMA SkipKeeps == ASSUME IInv, SkipExtraction \/ SkipMatching \/ StreamEnds PROVE IInv'
<1>1. /\ UNCHANGED <<stores, work, scrapes, faults, history>> /\ stage' \in {"images", "matching"}
      /\ TypeOK /\ StageOK
  BY DEF SkipExtraction, SkipMatching, StreamEnds, IInv
<1>2. DOMAIN file = {} /\ DOMAIN stream = {} /\ DOMAIN batch = {} /\ scored = {}
  <2>1. CASE SkipExtraction \/ SkipMatching
    BY <1>1, <2>1, BetweenStages DEF SkipExtraction, SkipMatching
  <2>2. CASE StreamEnds BY <1>1, <2>2, MatchingHolds DEF StreamEnds
  <2> QED BY <2>1, <2>2
<1>3. TypeOK' BY <1>1 DEF TypeOK, stores, work, history
<1>4. StageOK' /\ FileOK' /\ HeldOK' BY <1>1, <1>2, HoldsNothing DEF StageOK, work
<1>5. ExtractedIsCurrent' /\ MatchedIsScored'
  BY <1>1, StillExtracted, StillMatched DEF IInv, stores, history
<1> QED BY <1>3, <1>4, <1>5 DEF IInv

LEMMA GetDescriptionsKeeps == ASSUME IInv, GetDescriptions PROVE IInv'
<1>1. /\ stage = "extraction" /\ stage' = "extract" /\ retold' = retold \ DOMAIN file'
      /\ UNCHANGED <<stores, stream, batch, scored, known, scrapes, faults, reshown>>
      /\ TypeOK /\ StageOK
  BY DEF GetDescriptions, IInv
<1>2. PICK S \in SUBSET Unextracted :
        file' = [a \in S |-> [text |-> row[a].text, parsed |-> FALSE, filled |-> {}]]
  BY DEF GetDescriptions
<1>3. DOMAIN file' = S /\ S \subseteq Auctions BY <1>2 DEF Unextracted
<1>4. DOMAIN stream = {} /\ DOMAIN batch = {} /\ scored = {} BY <1>1, BetweenStages
<1>5. ASSUME NEW a \in S
      PROVE  /\ file'[a].text = row[a].text /\ ~file'[a].parsed /\ file'[a].filled = {}
             /\ file'[a] \in Records /\ ~row[a].extracted /\ <<a, row[a].text>> \notin Silent
  <2>1. row[a].text \in Versions BY <1>1, <1>3, RowFacts
  <2>2. file'[a] = [text |-> row[a].text, parsed |-> FALSE, filled |-> {}] BY <1>2
  <2> QED BY <2>1, <2>2 DEF Records, Unextracted
<1>6. TypeOK' BY <1>1, <1>3, <1>5 DEF TypeOK, stores
<1>7. StageOK' BY <1>1, <1>4 DEF StageOK
<1>8. FileOK'
  <2>1. \A n \in 1..4 : stage' # Steps[n] BY <1>1, AllStepsAre, StagesAre
  <2>2. row' = row BY <1>1 DEF stores
  <2> QED BY <1>1, <1>3, <1>5, <2>1, <2>2 DEF FileOK
<1>9. HeldOK' BY <1>1, <1>4, HoldsNothing
<1>10. ExtractedIsCurrent' BY <1>1, <1>3, <1>5, StillExtracted DEF IInv, stores
<1>11. MatchedIsScored' BY <1>1, StillMatched DEF IInv
<1> QED BY <1>6, <1>7, <1>8, <1>9, <1>10, <1>11 DEF IInv

LEMMA ExtractMetadataKeeps == ASSUME IInv, ExtractMetadata PROVE IInv'
<1> DEFINE answers == [a \in DOMAIN file |->
                         [file[a] EXCEPT !.parsed = <<a, file[a].text>> \notin Garbled]]
<1>1. /\ stage = "extract"
      /\ UNCHANGED <<stores, stream, batch, scored, known, scrapes, faults, history>>
      /\ \/ stage' = "artist" /\ file' = answers
         \/ stage' = "matching" /\ file' = NoFile
      /\ TypeOK /\ StageOK /\ FileOK
  BY DEF ExtractMetadata, IInv
<1>2. DOMAIN stream = {} /\ DOMAIN batch = {} /\ scored = {} BY <1>1, ExtractionHolds
<1>3. ASSUME NEW a \in DOMAIN file
      PROVE  /\ answers[a] \in Records /\ answers[a].text = file[a].text
             /\ answers[a].parsed <=> <<a, file[a].text>> \notin Garbled
             /\ answers[a].filled = file[a].filled
  <2>1. file[a] \in Records BY <1>1 DEF TypeOK
  <2>2. answers[a] = [file[a] EXCEPT !.parsed = <<a, file[a].text>> \notin Garbled] OBVIOUS
  <2> HIDE DEF answers
  <2> QED BY <2>1, <2>2 DEF Records
<1>4. DOMAIN answers = DOMAIN file /\ DOMAIN NoFile = {} BY NoFileIs
<1> HIDE DEF answers
<1>5. TypeOK'
  <2>1. DOMAIN file' \subseteq Auctions /\ \A a \in DOMAIN file' : file'[a] \in Records
    BY <1>1, <1>3, <1>4 DEF TypeOK
  <2>2. "artist" \in AllSteps BY AllStepsAre
  <2> QED BY <1>1, <2>1, <2>2 DEF TypeOK, stores, history
<1>6. StageOK'
  <2>1. "artist" \in AllSteps BY AllStepsAre
  <2> QED BY <1>1, <1>2, <1>4, <2>1 DEF StageOK
<1>7. FileOK'
  <2>1. CASE file' = NoFile BY <1>4, <2>1, HoldsNothing
  <2>2. CASE stage' = "artist" /\ file' = answers
    <3>1. ASSUME NEW a \in DOMAIN file
          PROVE  /\ <<a, file[a].text>> \notin Silent /\ file[a].filled = {}
                 /\ a \notin retold => file[a].text = row[a].text
      BY <1>1 DEF FileOK
    <3>2. {Steps[m] : m \in 1..(1 - 1)} = {} OBVIOUS
    <3>3. \A n \in 1..4 : stage' = Steps[n] => n = 1 BY <2>2, AllStepsAre
    <3>4. row' = row /\ retold' = retold BY <1>1 DEF stores, history
    <3>5. ASSUME NEW a \in DOMAIN file' , NEW n \in 1..4, stage' = Steps[n]
          PROVE  file'[a].filled = {Steps[m] : m \in 1..(n - 1)}
      BY <1>3, <1>4, <2>2, <3>1, <3>2, <3>3, <3>5
    <3> QED BY <1>3, <1>4, <2>2, <3>1, <3>4, <3>5 DEF FileOK
  <2> QED BY <1>1, <2>1, <2>2
<1>8. HeldOK' BY <1>1, <1>2, HoldsNothing
<1>9. ExtractedIsCurrent' /\ MatchedIsScored'
  BY <1>1, StillExtracted, StillMatched DEF IInv, stores, history
<1> QED BY <1>5, <1>6, <1>7, <1>8, <1>9 DEF IInv

LEMMA NormalizeKeeps == ASSUME IInv, Normalize PROVE IInv'
<1>1. PICK n \in 1..4 :
        /\ stage = Steps[n]
        /\ file' = [a \in DOMAIN file |-> [file[a] EXCEPT !.filled = @ \cup {Steps[n]}]]
        /\ stage' = IF n < 4 THEN Steps[n + 1] ELSE "write"
        /\ UNCHANGED <<stores, stream, batch, scored, known, scrapes, faults, history>>
  BY DEF Normalize
<1>2. TypeOK /\ StageOK /\ FileOK BY DEF IInv
<1>3. stage \in AllSteps BY <1>1, AllStepsAre
<1>4. DOMAIN stream = {} /\ DOMAIN batch = {} /\ scored = {} BY <1>2, <1>3, ExtractionHolds
<1>5. DOMAIN file' = DOMAIN file /\ stage' \in {"write"} \cup AllSteps
  <2>1. n < 4 => n + 1 \in 1..4 OBVIOUS
  <2> QED BY <1>1, <2>1, AllStepsAre
<1>6. ASSUME NEW a \in DOMAIN file
      PROVE  /\ file'[a] \in Records /\ file'[a].text = file[a].text
             /\ file'[a].parsed = file[a].parsed /\ file'[a].filled = {Steps[m] : m \in 1..n}
  <2>1. file[a] \in Records /\ file[a].filled = {Steps[m] : m \in 1..(n - 1)}
    BY <1>1, <1>2 DEF TypeOK, FileOK
  <2>2. file'[a] = [file[a] EXCEPT !.filled = @ \cup {Steps[n]}] BY <1>1
  <2>3. 1..n = 1..(n - 1) \cup {n} OBVIOUS
  <2>4. {Steps[m] : m \in 1..n} = {Steps[m] : m \in 1..(n - 1)} \cup {Steps[n]} BY <2>3
  <2>5. Steps[n] \in AllSteps BY AllStepsAre
  <2> QED BY <2>1, <2>2, <2>4, <2>5 DEF Records
<1>7. TypeOK' BY <1>1, <1>2, <1>5, <1>6 DEF TypeOK, stores, history
<1>8. StageOK' BY <1>1, <1>4, <1>5, StagesAre DEF StageOK
<1>9. FileOK'
  <2>1. row' = row /\ retold' = retold BY <1>1 DEF stores, history
  <2>2. ASSUME NEW a \in DOMAIN file
        PROVE  /\ <<a, file[a].text>> \notin Silent
               /\ file[a].parsed => <<a, file[a].text>> \notin Garbled
               /\ a \notin retold => file[a].text = row[a].text
    BY <1>2 DEF FileOK
  <2>3. ASSUME NEW k \in 1..4, stage' = Steps[k] PROVE k = n + 1
    <3>1. n = 1 \/ n = 2 \/ n = 3 \/ n = 4 OBVIOUS
    <3>2. k = 1 \/ k = 2 \/ k = 3 \/ k = 4 OBVIOUS
    <3> QED BY <1>1, <2>3, <3>1, <3>2, AllStepsAre
  <2>4. \A k \in 1..4 : k = n + 1 => 1..(k - 1) = 1..n OBVIOUS
  <2>5. ASSUME NEW a \in DOMAIN file, NEW k \in 1..4, stage' = Steps[k]
        PROVE  file'[a].filled = {Steps[m] : m \in 1..(k - 1)}
    <3>1. 1..(k - 1) = 1..n BY <2>3, <2>4, <2>5
    <3> QED BY <1>6, <3>1
  <2>6. stage' # "extract" BY <1>5, StagesAre
  <2>7. stage' = "write" => n = 4 /\ {Steps[m] : m \in 1..n} = AllSteps
    <3>1. n < 4 => n + 1 \in 1..4 OBVIOUS
    <3>2. stage' = "write" => n = 4 BY <1>1, <3>1, AllStepsAre, StagesAre
    <3> QED BY <3>2 DEF AllSteps
  <2> QED BY <1>5, <1>6, <2>1, <2>2, <2>5, <2>6, <2>7 DEF FileOK
<1>10. HeldOK' BY <1>1, <1>4, HoldsNothing
<1>11. ExtractedIsCurrent' /\ MatchedIsScored'
  BY <1>1, StillExtracted, StillMatched DEF IInv, stores, history
<1> QED BY <1>7, <1>8, <1>9, <1>10, <1>11 DEF IInv

LEMMA WriteKeeps == ASSUME IInv, WriteDescriptions PROVE IInv'
<1>1. /\ stage = "write" /\ stage' = "matching" /\ file' = NoFile
      /\ UNCHANGED <<score, stream, batch, scored, known, scrapes, faults, history>>
      /\ TypeOK /\ StageOK /\ FileOK
  BY DEF WriteDescriptions, IInv
<1>2. DOMAIN stream = {} /\ DOMAIN batch = {} /\ scored = {} /\ DOMAIN file' = {}
  BY <1>1, ExtractionHolds, NoFileIs
<1>3. /\ row' \in [Auctions -> Rows]
      /\ \A a \in Auctions :
           \/ row'[a] = row[a]
           \/ /\ a \in DOMAIN file /\ file[a].parsed
              /\ row'[a].text = row[a].text /\ row'[a].extracted
              /\ row'[a].matched <=> row[a].matched /\ Input(row'[a]) = Input(row[a])
              /\ \/ <<a, file[a].text>> \in Blank /\ row'[a].meta = row[a].meta
                 \/ row'[a].meta = [of |-> file[a].text, filled |-> file[a].filled]
  BY <1>1, WriteIs
<1>4. TypeOK' BY <1>1, <1>2, <1>3 DEF TypeOK, history
<1>5. StageOK' /\ FileOK' /\ HeldOK'
  BY <1>1, <1>2, HoldsNothing DEF StageOK
<1>6. ExtractedIsCurrent'
  <2>1. SUFFICES ASSUME NEW a \in Auctions, row'[a].extracted, a \notin retold
        PROVE  /\ <<a, row'[a].text>> \notin Garbled \cup Silent
               /\ \/ <<a, row'[a].text>> \in Blank
                  \/ row'[a].meta = [of |-> row'[a].text, filled |-> AllSteps]
    BY <1>1 DEF ExtractedIsCurrent, history
  <2>2. CASE row'[a] = row[a] BY <2>1, <2>2 DEF IInv, ExtractedIsCurrent
  <2>3. CASE row'[a] # row[a]
    <3>1. /\ a \in DOMAIN file /\ file[a].parsed /\ row'[a].text = row[a].text
          /\ \/ <<a, file[a].text>> \in Blank
             \/ row'[a].meta = [of |-> file[a].text, filled |-> file[a].filled]
      BY <1>3, <2>3
    <3>2. /\ <<a, file[a].text>> \notin Silent \cup Garbled
          /\ file[a].text = row[a].text /\ file[a].filled = AllSteps
      BY <1>1, <2>1, <3>1 DEF FileOK
    <3> QED BY <3>1, <3>2
  <2> QED BY <2>2, <2>3
<1>7. MatchedIsScored'
  <2>1. ASSUME NEW a \in Auctions, row'[a].matched, a \notin reshown' PROVE IsScored(a)'
    <3>1. row[a].matched /\ Input(row'[a]) = Input(row[a]) /\ a \notin reshown
      BY <1>1, <1>3, <2>1 DEF history
    <3>2. IsScored(a) BY <3>1, MatchedIs DEF IInv
    <3>3. \A l \in Losts : score'[<<l, a>>] = score[<<l, a>>] BY <1>1
    <3> QED BY <3>1, <3>2, <3>3, StaysScored
  <2> QED BY <2>1, MatchedIsPrime
<1> QED BY <1>4, <1>5, <1>6, <1>7 DEF IInv

LEMMA OpenStreamKeeps == ASSUME IInv, OpenStream PROVE IInv'
<1>1. /\ stage = "matching" /\ stage' = "fetch" /\ stream' = [a \in Unmatched |-> Input(row[a])]
      /\ reshown' = reshown \ Unmatched
      /\ UNCHANGED <<stores, file, batch, scored, known, scrapes, faults, retold>>
      /\ TypeOK /\ StageOK
  BY DEF OpenStream, IInv
<1>2. DOMAIN file = {} /\ DOMAIN batch = {} /\ scored = {} BY <1>1, BetweenStages
<1>3. Unmatched \subseteq Auctions /\ \A a \in Unmatched : ~row[a].matched BY DEF Unmatched
<1>4. ASSUME NEW a \in DOMAIN stream'
      PROVE  a \in Auctions /\ stream'[a] = Input(row[a]) /\ stream'[a] \in Inputs
  <2>1. a \in Auctions /\ stream'[a] = Input(row[a]) BY <1>1, <1>3
  <2> QED BY <1>1, <2>1, RowFacts
<1>5. TypeOK' BY <1>1, <1>4 DEF TypeOK, stores
<1>6. StageOK' /\ FileOK' BY <1>1, <1>2, StagesAre, HoldsNothing DEF StageOK
<1>7. HeldOK' BY <1>1, <1>2, <1>4 DEF HeldOK, stores
<1>8. ExtractedIsCurrent' BY <1>1, StillExtracted DEF IInv, stores
<1>9. MatchedIsScored' BY <1>1, <1>3, StillMatched DEF IInv
<1> QED BY <1>5, <1>6, <1>7, <1>8, <1>9 DEF IInv

LEMMA FetchBatchKeeps == ASSUME IInv, FetchBatch PROVE IInv'
<1>1. PICK S \in SUBSET DOMAIN stream :
        /\ batch' = [a \in S |-> stream[a]] /\ stream' = Without(stream, S)
        /\ known' = {p \in Pairs : p[2] \in S /\ Pending(p)}
  BY DEF FetchBatch
<1>2. /\ stage = "fetch" /\ stage' = "score"
      /\ UNCHANGED <<stores, file, scored, scrapes, faults, history>>
      /\ TypeOK /\ StageOK
  BY DEF FetchBatch, IInv
<1>3. DOMAIN file = {} /\ scored = {} BY <1>2, MatchingHolds
<1>4. /\ DOMAIN batch' = S /\ DOMAIN stream' = DOMAIN stream \ S
      /\ \A a \in S : batch'[a] = stream[a]
      /\ \A a \in DOMAIN stream \ S : stream'[a] = stream[a]
  BY <1>1 DEF Without
<1>5. row' = row /\ score' = score /\ reshown' = reshown BY <1>2 DEF stores, history
<1>6. TypeOK' BY <1>1, <1>2, <1>4 DEF TypeOK, stores, history
<1>7. StageOK' /\ FileOK' BY <1>2, <1>3, HoldsNothing DEF StageOK
<1>8. HeldOK'
  <2>1. \A a \in DOMAIN stream : a \notin reshown => stream[a] = Input(row[a])
    BY DEF IInv, HeldOK
  <2>2. ASSUME NEW a \in DOMAIN batch', NEW l \in Losts, Pending(<<l, a>>)' PROVE <<l, a>> \in known'
    <3>1. Pending(<<l, a>>) BY <1>5, <2>2 DEF Pending
    <3>2. <<l, a>> \in Pairs /\ <<l, a>>[2] = a /\ a \in S BY <1>2, <1>4, <2>2 DEF TypeOK, Pairs
    <3> QED BY <1>1, <3>1, <3>2
  <2>3. \A a \in DOMAIN stream' : a \notin reshown' => stream'[a] = Input(row[a])
    BY <1>4, <1>5, <2>1
  <2>4. \A a \in DOMAIN batch' : a \notin reshown' => batch'[a] = Input(row[a])
    BY <1>4, <1>5, <2>1
  <2>5. scored' = {} BY <1>2, <1>3
  <2> QED BY <1>5, <2>2, <2>3, <2>4, <2>5 DEF HeldOK
<1>9. ExtractedIsCurrent' /\ MatchedIsScored'
  BY <1>2, StillExtracted, StillMatched DEF IInv, stores, history
<1> QED BY <1>6, <1>7, <1>8, <1>9 DEF IInv

\* What is inserted for a row of the batch is the score of what the row says, for every lost
\* artwork it is alike enough to and for every pair that waited.
LEMMA InsertedIsScored ==
  ASSUME TypeOK, HeldOK, NEW S \in SUBSET DOMAIN batch, row' = row,
         score' = [p \in Pairs |->
                     IF p[2] \in S /\ Kept(p[1], p[2])
                     THEN [image |-> score[p] # None /\ score[p].image, meta |-> batch[p[2]]]
                     ELSE score[p]],
         NEW a \in Auctions, a \notin reshown
  PROVE  /\ a \in S => IsScored(a)'
         /\ IsScored(a) => IsScored(a)'
<1>1. ASSUME NEW l \in Losts
      PROVE  /\ <<l, a>> \in Pairs /\ <<l, a>>[1] = l /\ <<l, a>>[2] = a
             /\ score'[<<l, a>>] = IF a \in S /\ Kept(l, a)
                                   THEN [image |-> score[<<l, a>>] # None /\ score[<<l, a>>].image,
                                         meta |-> batch[a]]
                                   ELSE score[<<l, a>>]
  <2>1. <<l, a>> \in Pairs /\ <<l, a>>[1] = l /\ <<l, a>>[2] = a BY DEF Pairs
  <2> QED BY <2>1
<1>2. CASE a \notin S
  <2>1. \A l \in Losts : score'[<<l, a>>] = score[<<l, a>>] BY <1>1, <1>2
  <2> QED BY <1>2, <2>1, StaysScored
<1>3. CASE a \in S
  <2>1. batch[a] = Input(row[a]) /\ batch[a] \in Inputs BY <1>3 DEF HeldOK, TypeOK
  <2>2. batch[a][1] = row[a].title /\ batch[a][2] = row[a].meta BY <2>1 DEF Input
  <2>3. ASSUME NEW l \in Losts
        PROVE  /\ Alike(l, row[a].title, row[a].meta) =>
                    score'[<<l, a>>] # None /\ score'[<<l, a>>].meta = Input(row[a])
               /\ ~(score'[<<l, a>>] # None /\ score'[<<l, a>>].image
                      /\ score'[<<l, a>>].meta = None)
    <3>1. CASE Kept(l, a)
      <4>1. score'[<<l, a>>] = [image |-> score[<<l, a>>] # None /\ score[<<l, a>>].image,
                                meta |-> batch[a]]
        BY <1>1, <1>3, <3>1
      <4>2. score'[<<l, a>>].meta = batch[a] BY <4>1
      <4>3. (score[<<l, a>>] # None /\ score[<<l, a>>].image) \in BOOLEAN
        <5>1. score[<<l, a>>] \in Scores \cup {None} BY <1>1 DEF TypeOK
        <5> QED BY <5>1 DEF Scores
      <4>4. PICK i \in BOOLEAN : score'[<<l, a>>] = [image |-> i, meta |-> batch[a]]
        BY <4>1, <4>3
      <4>5. score'[<<l, a>>] \in Scores BY <2>1, <4>4 DEF Scores
      <4> QED BY <2>1, <4>2, <4>5, NoneAssumption
    <3>2. CASE ~Kept(l, a)
      <4>1. score'[<<l, a>>] = score[<<l, a>>] BY <1>1, <3>2
      <4>2. ~Alike(l, row[a].title, row[a].meta) /\ <<l, a>> \notin known
        BY <2>2, <3>2 DEF Kept
      <4>3. ~Pending(<<l, a>>) BY <1>3, <4>2 DEF HeldOK
      <4> QED BY <4>1, <4>2, <4>3 DEF Pending
    <3> QED BY <3>1, <3>2
  <2> QED BY <2>3 DEF IsScored, Pending
<1> QED BY <1>2, <1>3

LEMMA InsertScoresKeeps == ASSUME IInv, InsertScores PROVE IInv'
<1>1. PICK S \in SUBSET DOMAIN batch :
        /\ score' = [p \in Pairs |->
                       IF p[2] \in S /\ Kept(p[1], p[2])
                       THEN [image |-> score[p] # None /\ score[p].image, meta |-> batch[p[2]]]
                       ELSE score[p]]
        /\ batch' = Without(batch, S) /\ scored' = scored \cup S
  BY DEF InsertScores
<1>2. /\ stage = "score" /\ UNCHANGED <<row, stage, file, stream, known, scrapes, faults, history>>
      /\ TypeOK /\ StageOK /\ HeldOK
  BY DEF InsertScores, IInv
<1>3. DOMAIN file = {} /\ S \subseteq Auctions BY <1>2, MatchingHolds DEF TypeOK
<1>4. DOMAIN batch' = DOMAIN batch \ S /\ \A a \in DOMAIN batch \ S : batch'[a] = batch[a]
  BY <1>1 DEF Without
<1>5. ASSUME NEW p \in Pairs PROVE score'[p] \in Scores \cup {None}
  <2>1. score[p] \in Scores \cup {None} BY <1>2 DEF TypeOK
  <2>2. CASE p[2] \in S
    <3>1. batch[p[2]] \in Inputs BY <1>2, <2>2 DEF TypeOK
    <3>2. (score[p] # None /\ score[p].image) \in BOOLEAN BY <2>1 DEF Scores
    <3>3. [image |-> score[p] # None /\ score[p].image, meta |-> batch[p[2]]] \in Scores
      BY <3>1, <3>2 DEF Scores
    <3> QED BY <1>1, <2>1, <3>3
  <2>3. CASE p[2] \notin S BY <1>1, <2>1, <2>3
  <2> QED BY <2>2, <2>3
<1>6. TypeOK'
  <2>1. score' \in [Pairs -> Scores \cup {None}] BY <1>1, <1>5
  <2> QED BY <1>1, <1>2, <1>3, <1>4, <2>1 DEF TypeOK, history
<1>7. StageOK' /\ FileOK' BY <1>2, <1>3, HoldsNothing DEF StageOK
<1>8. row' = row /\ reshown' = reshown BY <1>2 DEF history
<1>9. \A a \in Auctions \ reshown : (a \in S => IsScored(a)') /\ (IsScored(a) => IsScored(a)')
  BY <1>1, <1>2, <1>8, InsertedIsScored
<1>10. HeldOK'
  <2>1. \A a \in DOMAIN stream' : a \notin reshown' => stream'[a] = Input(row'[a])
    BY <1>2, <1>8 DEF HeldOK
  <2>2. \A a \in DOMAIN batch' : a \notin reshown' => batch'[a] = Input(row'[a])
    BY <1>2, <1>4, <1>8 DEF HeldOK
  <2>3. ASSUME NEW a \in DOMAIN batch', NEW l \in Losts, Pending(<<l, a>>)' PROVE <<l, a>> \in known'
    <3>1. <<l, a>> \in Pairs /\ <<l, a>>[2] = a /\ a \in DOMAIN batch \ S
      BY <1>2, <1>4 DEF TypeOK, Pairs
    <3>2. score'[<<l, a>>] = score[<<l, a>>] BY <1>1, <3>1
    <3> QED BY <1>2, <2>3, <3>1, <3>2 DEF HeldOK, Pending
  <2>4. \A a \in scored' : a \notin reshown' => IsScored(a)'
    <3>1. \A a \in scored : a \notin reshown => IsScored(a) BY <1>2 DEF HeldOK
    <3>2. scored \subseteq Auctions BY <1>2 DEF TypeOK
    <3> QED BY <1>1, <1>3, <1>8, <1>9, <3>1, <3>2
  <2> QED BY <2>1, <2>2, <2>3, <2>4 DEF HeldOK
<1>11. ExtractedIsCurrent' BY <1>2, StillExtracted DEF IInv, history
<1>12. MatchedIsScored'
  <2>1. \A a \in Auctions : row'[a].matched /\ a \notin reshown' => IsScored(a)'
    BY <1>8, <1>9, MatchedIs DEF IInv
  <2> QED BY <2>1, MatchedIsPrime
<1> QED BY <1>6, <1>7, <1>10, <1>11, <1>12 DEF IInv

LEMMA MarkProcessedKeeps == ASSUME IInv, MarkProcessed PROVE IInv'
<1>1. /\ stage = "score" /\ DOMAIN batch = {} /\ stage' = "fetch"
      /\ row' = [a \in Auctions |-> IF a \in scored THEN [row[a] EXCEPT !.matched = TRUE]
                                                    ELSE row[a]]
      /\ scored' = {} /\ known' = {}
      /\ UNCHANGED <<score, file, stream, batch, scrapes, faults, history>>
      /\ TypeOK /\ StageOK /\ HeldOK
  BY DEF MarkProcessed, IInv
<1>2. DOMAIN file = {} BY <1>1, MatchingHolds
<1>3. ASSUME NEW a \in Auctions
      PROVE  /\ row'[a] \in Rows /\ row'[a].text = row[a].text /\ row'[a].meta = row[a].meta
             /\ row'[a].extracted = row[a].extracted /\ Input(row'[a]) = Input(row[a])
             /\ row'[a].matched => row[a].matched \/ a \in scored
  <2>1. row[a] \in Rows BY <1>1, RowFacts
  <2>2. row'[a] = IF a \in scored THEN [row[a] EXCEPT !.matched = TRUE] ELSE row[a] BY <1>1
  <2> QED BY <2>1, <2>2 DEF Rows, Input
<1>4. TypeOK'
  <2>1. row' \in [Auctions -> Rows] BY <1>1, <1>3
  <2> QED BY <1>1, <2>1 DEF TypeOK, history
<1>5. StageOK' /\ FileOK' BY <1>1, <1>2, HoldsNothing DEF StageOK
<1>6. HeldOK'
  <2>1. DOMAIN stream \subseteq Auctions BY <1>1 DEF TypeOK
  <2>2. \A a \in DOMAIN stream' : a \notin reshown' => stream'[a] = Input(row'[a])
    BY <1>1, <1>3, <2>1 DEF HeldOK, history
  <2> QED BY <1>1, <2>2 DEF HeldOK
<1>7. ExtractedIsCurrent' BY <1>1, <1>3 DEF IInv, ExtractedIsCurrent, history
<1>8. MatchedIsScored'
  <2>1. ASSUME NEW a \in Auctions, row'[a].matched, a \notin reshown' PROVE IsScored(a)'
    <3>1. a \notin reshown BY <1>1, <2>1 DEF history
    <3>2. IsScored(a) BY <1>1, <1>3, <2>1, <3>1, MatchedIs DEF IInv, HeldOK
    <3>3. \A l \in Losts : score'[<<l, a>>] = score[<<l, a>>] BY <1>1
    <3> QED BY <1>3, <3>2, <3>3, StaysScored
  <2> QED BY <2>1, MatchedIsPrime
<1> QED BY <1>4, <1>5, <1>6, <1>7, <1>8 DEF IInv

\* A stage that fails lets go of what it held and changes no row and no score.
LEMMA StageFailsKeeps == ASSUME IInv, StageFails PROVE IInv'
<1>1. /\ faults < Faults /\ faults' = faults + 1 /\ stage' \in {"matching", "images"}
      /\ file' = NoFile /\ stream' = NoFile /\ batch' = NoFile /\ scored' = {} /\ known' = {}
      /\ UNCHANGED <<stores, scrapes, history>>
      /\ TypeOK
  BY DEF StageFails, IInv
<1>2. DOMAIN file' = {} /\ DOMAIN stream' = {} /\ DOMAIN batch' = {} BY <1>1, NoFileIs
<1>3. TypeOK'
  <2>1. faults' \in 0..Faults BY <1>1, BoundsAssumption DEF TypeOK
  <2> QED BY <1>1, <1>2, <2>1 DEF TypeOK, stores, history
<1>4. StageOK' /\ FileOK' /\ HeldOK' BY <1>1, <1>2, HoldsNothing DEF StageOK
<1>5. ExtractedIsCurrent' /\ MatchedIsScored'
  BY <1>1, StillExtracted, StillMatched DEF IInv, stores, history
<1> QED BY <1>3, <1>4, <1>5 DEF IInv

LEMMA ScrapeKeeps == ASSUME IInv, NEW b \in Auctions, Scrape(b) PROVE IInv'
<1>1. TypeOK /\ StageOK /\ FileOK /\ HeldOK BY DEF IInv
<1>2. /\ row' \in [Auctions -> Rows] /\ \A a \in Auctions : a # b => row'[a] = row[a]
      /\ row'[b].meta = row[b].meta
      /\ row'[b].extracted <=> row[b].extracted /\ row'[b].text = row[b].text
      /\ row'[b].matched <=> row[b].matched /\ Input(row'[b]) = Input(row[b])
                               /\ row'[b].text = row[b].text
  BY <1>1, ScrapeIs
<1>3. /\ score' = score /\ stage' = stage /\ file' = file /\ stream' = stream /\ batch' = batch
      /\ scored' = scored /\ known' = known
  BY <1>1, ScrapeIs DEF work
<1>4. /\ \A a \in Auctions \ {b} : (a \in retold' <=> a \in retold) /\ (a \in reshown' <=> a \in reshown)
      /\ row'[b].text = row[b].text => retold' = retold
      /\ row'[b].text # row[b].text /\ b \in DOMAIN file => b \in retold'
      /\ Input(row'[b]) = Input(row[b]) /\ row'[b].text = row[b].text => reshown' = reshown
      /\ Input(row'[b]) # Input(row[b])
           /\ b \in DOMAIN stream \cup DOMAIN batch \cup scored => b \in reshown'
      /\ retold' \subseteq retold \cup {b} /\ reshown' \subseteq reshown \cup {b}
  BY ScrapeRecords
<1>5. TypeOK'
  <2>1. scrapes' \in 0..Scrapes
    <3>1. scrapes \in 0..Scrapes /\ scrapes < Scrapes /\ scrapes' = scrapes + 1
      BY <1>1 DEF TypeOK, Scrape
    <3> QED BY <3>1, BoundsAssumption
  <2>2. faults' = faults BY DEF Scrape
  <2>3. retold' \cup reshown' \subseteq Auctions BY <1>1, <1>4 DEF TypeOK
  <2> QED BY <1>1, <1>2, <1>3, <2>1, <2>2, <2>3 DEF TypeOK
<1>6. StageOK' BY <1>1, <1>3 DEF StageOK
<1>7. FileOK'
  <2>1. ASSUME NEW a \in DOMAIN file, a \notin retold' PROVE file[a].text = row'[a].text
    <3>1. a \in Auctions /\ (a \notin retold => file[a].text = row[a].text)
      BY <1>1 DEF TypeOK, FileOK
    <3> QED BY <1>2, <1>4, <2>1, <3>1
  <2> QED BY <1>1, <1>3, <2>1 DEF FileOK
\* A row that is not recorded as scraped says what it said.
<1>8. ASSUME NEW a \in DOMAIN stream \cup DOMAIN batch \cup scored, a \notin reshown'
      PROVE  a \in Auctions /\ a \notin reshown /\ Input(row'[a]) = Input(row[a])
  <2>1. a \in Auctions BY <1>1 DEF TypeOK
  <2>2. CASE a # b BY <1>2, <1>4, <1>8, <2>1, <2>2
  <2>3. CASE a = b
    <3>1. Input(row'[b]) = Input(row[b]) BY <1>4, <1>8, <2>3
    <3>2. b \notin reshown
      <4>1. reshown' = IF Input(row'[b]) = Input(row[b]) /\ row'[b].text = row[b].text THEN reshown
                       ELSE IF b \in DOMAIN stream \cup DOMAIN batch \cup scored
                            THEN reshown \cup {b} ELSE reshown \ {b}
        BY DEF Scrape
      <4> QED BY <1>8, <2>3, <4>1
    <3> QED BY <2>1, <2>3, <3>1, <3>2
  <2> QED BY <2>2, <2>3
<1>9. HeldOK'
  <2>1. \A a \in DOMAIN stream' : a \notin reshown' => stream'[a] = Input(row'[a])
    BY <1>1, <1>3, <1>8 DEF HeldOK
  <2>2. \A a \in DOMAIN batch' : a \notin reshown' => batch'[a] = Input(row'[a])
    BY <1>1, <1>3, <1>8 DEF HeldOK
  <2>3. \A a \in DOMAIN batch', l \in Losts : Pending(<<l, a>>)' => <<l, a>> \in known'
    BY <1>1, <1>3 DEF HeldOK, Pending
  <2>4. ASSUME NEW a \in scored', a \notin reshown' PROVE IsScored(a)'
    <3>1. a \in Auctions /\ a \notin reshown /\ Input(row'[a]) = Input(row[a]) BY <1>3, <1>8, <2>4
    <3>2. IsScored(a) BY <1>1, <1>3, <2>4, <3>1 DEF HeldOK
    <3>3. \A l \in Losts : score'[<<l, a>>] = score[<<l, a>>] BY <1>3
    <3> QED BY <3>1, <3>2, <3>3, StaysScored
  <2> QED BY <2>1, <2>2, <2>3, <2>4 DEF HeldOK
<1>10. ExtractedIsCurrent'
  <2>1. ASSUME NEW a \in Auctions, row'[a].extracted, a \notin retold'
        PROVE  /\ row[a].extracted /\ a \notin retold
               /\ row'[a].text = row[a].text /\ row'[a].meta = row[a].meta
    BY <1>2, <1>4, <2>1
  <2> QED BY <2>1 DEF IInv, ExtractedIsCurrent
<1>11. MatchedIsScored'
  <2>1. ASSUME NEW a \in Auctions, row'[a].matched, a \notin reshown' PROVE IsScored(a)'
    <3>1. row[a].matched /\ a \notin reshown /\ Input(row'[a]) = Input(row[a])
      BY <1>2, <1>4, <2>1
    <3>2. IsScored(a) BY <3>1, MatchedIs DEF IInv
    <3>3. \A l \in Losts : score'[<<l, a>>] = score[<<l, a>>] BY <1>3
    <3> QED BY <3>1, <3>2, <3>3, StaysScored
  <2> QED BY <2>1, MatchedIsPrime
<1> QED BY <1>5, <1>6, <1>7, <1>9, <1>10, <1>11 DEF IInv

-----------------------------------------------------------------------------
(* The invariant, and what it says.                                        *)

LEMMA InitInv == ASSUME Init PROVE IInv
<1>1. /\ row = [a \in Auctions |->
                  [text |-> 0, title |-> [of |-> "site", v |-> 0], meta |-> None,
                   imaged |-> FALSE, extracted |-> FALSE, matched |-> FALSE]]
      /\ score = [p \in Pairs |-> None] /\ stage = "images"
      /\ DOMAIN file = {} /\ DOMAIN stream = {} /\ DOMAIN batch = {}
      /\ scored = {} /\ known = {} /\ scrapes = 0 /\ faults = 0 /\ retold = {} /\ reshown = {}
  BY DEF Init
<1>2. 0 \in Versions BY VersionsAssumption DEF Versions
<1>3. \A a \in Auctions : row[a] \in Rows /\ ~row[a].extracted /\ ~row[a].matched
  <2>1. [of |-> "site", v |-> 0] \in Titles BY <1>2 DEF Titles
  <2> QED BY <1>1, <1>2, <2>1 DEF Rows
<1>4. TypeOK
  <2>1. row \in [Auctions -> Rows] /\ score \in [Pairs -> Scores \cup {None}] BY <1>1, <1>3
  <2>2. scrapes \in 0..Scrapes /\ faults \in 0..Faults BY <1>1, BoundsAssumption
  <2> QED BY <1>1, <2>1, <2>2 DEF TypeOK
<1>5. StageOK /\ FileOK /\ HeldOK BY <1>1 DEF StageOK, FileOK, HeldOK
<1>6. ExtractedIsCurrent /\ MatchedIsScored BY <1>3 DEF ExtractedIsCurrent, MatchedIsScored
<1> QED BY <1>4, <1>5, <1>6 DEF IInv

LEMMA NextInv == ASSUME IInv, [Next]_vars PROVE IInv'
<1>1. CASE ImageStage BY <1>1, ImageStageKeeps
<1>2. CASE SkipExtraction \/ SkipMatching \/ StreamEnds BY <1>2, SkipKeeps
<1>3. CASE GetDescriptions BY <1>3, GetDescriptionsKeeps
<1>4. CASE ExtractMetadata BY <1>4, ExtractMetadataKeeps
<1>5. CASE Normalize BY <1>5, NormalizeKeeps
<1>6. CASE WriteDescriptions BY <1>6, WriteKeeps
<1>7. CASE OpenStream BY <1>7, OpenStreamKeeps
<1>8. CASE FetchBatch BY <1>8, FetchBatchKeeps
<1>9. CASE InsertScores BY <1>9, InsertScoresKeeps
<1>10. CASE MarkProcessed BY <1>10, MarkProcessedKeeps
<1>11. CASE StageFails BY <1>11, StageFailsKeeps
<1>12. ASSUME NEW a \in Auctions, Scrape(a) PROVE IInv' BY <1>12, ScrapeKeeps
<1>13. CASE UNCHANGED vars
  <2>1. UNCHANGED <<stores, stage, work, scrapes, faults, history>> BY <1>13 DEF vars
  <2>2. TypeOK' /\ StageOK' /\ FileOK'
    BY <2>1 DEF IInv, TypeOK, StageOK, FileOK, stores, work, history
  <2>3. HeldOK' BY <2>1 DEF IInv, HeldOK, IsScored, Pending, stores, work, history
  <2>4. ExtractedIsCurrent' /\ MatchedIsScored'
    BY <2>1, StillExtracted, StillMatched DEF IInv, stores, history
  <2> QED BY <2>2, <2>3, <2>4 DEF IInv
<1> QED BY <1>1, <1>2, <1>3, <1>4, <1>5, <1>6, <1>7, <1>8, <1>9, <1>10, <1>11, <1>12, <1>13
     DEF Next, Cycle

LEMMA Invariance == Spec => []IInv
<1>1. Init => IInv BY InitInv
<1>2. IInv /\ [Next]_vars => IInv' BY NextInv
<1> QED BY <1>1, <1>2, PTL DEF Spec

\* Rows, scores and what the stages hold of them keep their shapes: in particular a score is
\* always of inputs that a row can have.
THEOREM TypeCorrect == Spec => []TypeOK
<1>1. IInv => TypeOK BY DEF IInv
<1> QED BY <1>1, Invariance, PTL

\* write_descriptions marks a row as extracted only with the answer to the row's own
\* description, normalized by all four steps: of a garbled answer, a failed stage or an older
\* batch no mark is left, unless the row was scraped while its batch was out.
THEOREM ExtractedMarksAreCurrent == Spec => []ExtractedIsCurrent
<1>1. IInv => ExtractedIsCurrent BY DEF IInv
<1> QED BY <1>1, Invariance, PTL

\* bulk_mark_auction_processed marks a row as matched only when the scores of what it says are
\* in the table and no image pair of it waits for a metadata score, however the inserts, the
\* scrapes and the failures of the stage are ordered, unless it was scraped while it was held.
THEOREM MatchedMarksAreScored == Spec => []MatchedIsScored
<1>1. IInv => MatchedIsScored BY DEF IInv
<1> QED BY <1>1, Invariance, PTL
=============================================================================
