------------------------- MODULE ScraperRunsProofs -------------------------
(***************************************************************************)
(* For any numbers of workers, reconcilers, runs and entries: a worker     *)
(* without its lock commits one batch at most, and while no lock session   *)
(* is lost, a row is written by the process that holds the lock or by a    *)
(* COMMIT on its way, which keeps others from the rows it has written.     *)
(* Where each run is settled before the next begins, the run before is its *)
(* baseline, and what its worker counts it counts alone.                   *)
(* The rows that runs share with others follow.                            *)
(***************************************************************************)
EXTENDS ScraperRuns, EntityUpserts, FiniteSetTheorems, SequenceTheorems, WellFoundedInduction,
        TLAPS

-----------------------------------------------------------------------------
(* The inductive invariant.                                                *)

Scraping == {"baseline", "start", "begin", "scrape", "commit", "checkpoint", "ended", "count",
             "completed", "fail", "failed"}
Inside == {"select", "stamp", "insert", "release"} \cup Scraping
Early == {"off", "acquire", "select", "stamp", "insert"}

\* Reconcilers do not scrape.
PlacesOK ==
  \A p \in Process : p \notin Worker => pc[p] \in {"off", "select", "stamp", "release", "dead"}

\* The lock is taken in one place only; after a late batch comes no fence but the one that
\* fails.
LateOK(w) ==
  /\ pc[w] \in {"off", "acquire"} => lock # w
  /\ late[w] # 0 => /\ late[w] = 1 /\ lock # w
                    /\ pc[w] \in {"scrape", "checkpoint", "ended", "fail", "failed", "release", "dead"}

\* Every row was inserted by a worker that was started for it.
Pending == {w \in Worker : pc[w] \in {"acquire", "select", "stamp", "insert"}}
PendingOK == IsFiniteSet(Pending) /\ started + Cardinality(Pending) <= launches

\* The rows that processes and transactions know of exist, and no two transactions have
\* written the same one.
MineOK(w) ==
  /\ mine[w] <= started /\ (pc[w] \in Scraping => mine[w] # 0)
  /\ pc[w] \in Early => mine[w] = 0 /\ before[w] = NoCount
RowsOK ==
  /\ \A w \in Worker : MineOK(w)
  /\ \A p \in Process : stale[p] \subseteq 1..started
  /\ \A t \in wire : /\ DOMAIN t.rows \subseteq 1..started
                     /\ \A r \in DOMAIN t.rows : t.rows[r].status # "none"
  /\ \A t, u \in wire : t # u => DOMAIN t.rows \cap DOMAIN u.rows = {}

\* What was counted is no less than what is left of the entries there were, with those
\* that have come since.
Possible(c) == c.from # "none" => c.at <= made /\ entries + c.at <= made + c.total
CountsOK ==
  /\ entries <= made
  /\ \A r \in Run : Possible(rows[r].counts)
  /\ \A t \in wire : \A r \in DOMAIN t.rows : Possible(t.rows[r].counts)
  /\ \A w \in Worker : /\ Possible(before[w]) /\ Possible(result[w])
                       /\ before[w].new = 0 /\ before[w].from # "count"

\* Without a failure every run is counted.
CountedIfOver(row) == row.status \in {"completed", "failed"} => row.counts.from = "count"
FaultlessOK == faults = 0 =>
  /\ \A r \in Run : CountedIfOver(rows[r])
  /\ \A t \in wire : \A r \in DOMAIN t.rows : CountedIfOver(t.rows[r])
  /\ \A w \in Worker : pc[w] \in {"completed", "failed"} => result[w].from = "count"

\* While no lock session is lost, one process is at work, on a row of its own or on rows
\* that nobody works on; the end of a row is recorded once, unless a COMMIT that got no
\* answer had recorded it.
HeldInside == \A p \in Process : pc[p] \in Inside => lock = p
OwnersOK ==
  /\ \A p \in Process : pc[p] = "stamp" => \A r \in stale[p] : Running(r) \/ r \in landed
  /\ \A w \in Worker : pc[w] \in Scraping =>
       \/ Running(mine[w])
       \/ mine[w] \in landed /\ Finished(mine[w]) /\ pc[w] \in {"fail", "failed"}
  /\ \A t \in wire : \A r \in DOMAIN t.rows :
       /\ Finished(r) => r \in landed /\ t.rows[r].status = "failed"
       /\ \A w \in Worker : pc[w] \in Inside /\ mine[w] = r =>
            /\ t.by = w
            /\ t.rows[r].status # "running" => pc[w] \in {"fail", "failed", "release"}

\* Runs that follow each other: all but the last are over for good.
Before(r) == Prior(r, {q \in Ended : q < r})
AddsUp(r, c) ==
  /\ c.new = IF c.from = "count" THEN Over(c.total, Before(r).total) ELSE 0
  /\ "none" \notin {c.from, Before(r).from} =>
       c.at >= Before(r).at /\ c.total + Before(r).at <= c.at + Before(r).total
Settled(q) ==
  /\ ~Running(q) /\ q \notin Locked
  /\ \A p \in Process : pc[p] = "stamp" => q \notin stale[p]
  /\ \A w \in Worker : pc[w] \in Scraping => mine[w] # q
CountsAddUp ==
  /\ \A r \in 1..started : AddsUp(r, rows[r].counts)
  /\ \A t \in wire : \A r \in DOMAIN t.rows : AddsUp(r, t.rows[r].counts)
  /\ \A w \in Worker : pc[w] \in Scraping =>
       /\ AddsUp(mine[w], before[w])
       /\ pc[w] \in {"completed", "failed"} => AddsUp(mine[w], result[w])
SerialOK == (\A q \in 1..(started - 1) : Settled(q)) /\ CountsAddUp

StateOK == TypeOK /\ PlacesOK /\ PendingOK /\ RowsOK /\ CountsOK
IInv == /\ StateOK /\ (\A w \in Worker : LateOK(w)) /\ FaultlessOK
        /\ losses = 0 => HeldInside /\ OwnersOK /\ (behind = {} => SerialOK)

-----------------------------------------------------------------------------
(* What the statements compute.                                            *)

LEMMA MaxExists ==
  ASSUME NEW n \in Nat, NEW S \in SUBSET (1..n), S # {}
  PROVE  \E q \in S : \A o \in S : o <= q
<1> DEFINE T == {n - q : q \in S}
           Less == {ss \in Nat \X Nat : ss[1] < ss[2]}
<1>1. T \subseteq Nat OBVIOUS
<1>2. T # {}
  <2>1. PICK q \in S : TRUE OBVIOUS
  <2>2. n - q \in T OBVIOUS
  <2> QED BY <2>2
<1>3. IsWellFoundedOn(Less, Nat) BY NatLessThanWellFounded DEF OpToRel
<1> HIDE DEF T
<1>4. PICK d \in T : \A e \in T : ~(<<e, d>> \in Less)
  <2> HIDE DEF Less
  <2> QED BY <1>1, <1>2, <1>3, WFMin
<1>5. ASSUME NEW e \in T PROVE d <= e
  <2>1. e \in Nat /\ d \in Nat BY <1>1
  <2>2. e < d => <<e, d>> \in Less BY <2>1
  <2> HIDE DEF Less
  <2>3. ~(e < d) BY <2>2, <1>4
  <2> QED BY <2>1, <2>3
<1> USE DEF T
<1>6. PICK q \in S : d = n - q OBVIOUS
<1>7. ASSUME NEW o \in S PROVE o <= q
  <2>1. n - o \in T OBVIOUS
  <2> QED BY <2>1, <1>5, <1>6
<1> QED BY <1>7

LEMMA CountFacts ==
  /\ NoCount \in Counts /\ NoPrior \in Counts /\ NoRow \in Row
  /\ NoRow.status = "none" /\ NoRow.counts = NoCount
  /\ NoCount.new = 0 /\ NoCount.from = "none"
  /\ NoPrior.total = 0 /\ NoPrior.at = 0 /\ NoPrior.from = "before"
<1>1. 0 \in 0..MaxEntries BY RunsAssumption
<1>2. NoCount \in Counts BY <1>1 DEF NoCount, Counts
<1>3. NoPrior = [total |-> 0, new |-> 0, at |-> 0, from |-> "before"] BY DEF NoPrior, NoCount
<1>4. NoPrior \in Counts BY <1>1, <1>3 DEF Counts
<1>5. NoRow \in Row BY <1>2 DEF NoRow, Row
<1> QED BY <1>2, <1>3, <1>4, <1>5 DEF NoRow, NoCount

LEMMA CountsFields ==
  ASSUME NEW c \in Counts
  PROVE  /\ c.total \in 0..MaxEntries /\ c.new \in 0..MaxEntries /\ c.at \in 0..MaxEntries
         /\ c.total \in Nat /\ c.new \in Nat /\ c.at \in Nat
         /\ c.from \in {"none", "before", "count"}
BY RunsAssumption DEF Counts

LEMMA OverType ==
  ASSUME NEW a \in 0..MaxEntries, NEW b \in 0..MaxEntries
  PROVE  Over(a, b) \in 0..MaxEntries
BY RunsAssumption DEF Over

LEMMA CountOverFacts ==
  ASSUME TypeOK, NEW b \in 0..MaxEntries
  PROVE  /\ CountOver(b) \in Counts
         /\ CountOver(b).total = entries /\ CountOver(b).new = Over(entries, b)
         /\ CountOver(b).at = made /\ CountOver(b).from = "count"
<1>1. entries \in 0..MaxEntries /\ made \in 0..MaxEntries BY DEF TypeOK
<1>2. Over(entries, b) \in 0..MaxEntries BY <1>1, OverType
<1> QED BY <1>1, <1>2 DEF CountOver, Counts

\* The run that started last among some runs is one of them.
LEMMA LatestIsOne ==
  ASSUME NEW r, NEW done \in SUBSET Run, done \ {r} # {}
  PROVE  Latest(r, done) \in done \ {r}
<1>1. done \ {r} \in SUBSET (1..MaxRuns) BY DEF Run
<1>2. \E q \in done \ {r} : \A o \in done \ {r} : o <= q BY <1>1, RunsAssumption, MaxExists
<1> QED BY <1>2 DEF Latest

LEMMA PriorFacts ==
  ASSUME TypeOK, CountsOK, NEW r, NEW done \in SUBSET Run
  PROVE  Prior(r, done) \in Counts /\ Possible(Prior(r, done))
<1>1. CASE done \ {r} = {}
  <2>1. Prior(r, done) = NoPrior BY <1>1 DEF Prior
  <2>2. entries \in Nat /\ made \in Nat /\ entries <= made BY RunsAssumption DEF TypeOK, CountsOK
  <2> QED BY <2>1, <2>2, CountFacts DEF Possible
<1>2. CASE done \ {r} # {}
  <2>1. Latest(r, done) \in Run BY <1>2, LatestIsOne
  <2>2. Prior(r, done) = rows[Latest(r, done)].counts BY <1>2 DEF Prior
  <2>3. \A q \in Run : rows[q].counts \in Counts /\ Possible(rows[q].counts)
    BY DEF TypeOK, Row, CountsOK
  <2> QED BY <2>1, <2>2, <2>3
<1> QED BY <1>1, <1>2

LEMMA CountedFacts ==
  ASSUME TypeOK, CountsOK, NEW r
  PROVE  /\ Counted(r) \in Counts /\ Possible(Counted(r)) /\ Counted(r).from = "count"
         /\ Counted(r) = CountOver(Prior(r, Ended).total)
<1>1. Ended \in SUBSET Run BY DEF Ended
<1>2. Prior(r, Ended).total \in 0..MaxEntries BY <1>1, PriorFacts, CountsFields
<1>3. made \in Nat /\ entries \in Nat BY RunsAssumption DEF TypeOK
<1> DEFINE c == CountOver(Prior(r, Ended).total)
<1>4. c \in Counts /\ c.total = entries /\ c.at = made /\ c.from = "count"
  BY <1>2, CountOverFacts
<1>5. Counted(r) = c BY DEF Counted
<1> HIDE DEF c
<1>6. Possible(c) BY <1>3, <1>4 DEF Possible
<1> QED BY <1>4, <1>5, <1>6 DEF c

\* Interrupted rows: marked as failed, and counted over the total of a run or the entries
\* of now, or left as they were counted.
CountedOverSome(c) == \E b \in 0..MaxEntries : c = CountOver(b)

LEMMA InterruptedFacts ==
  ASSUME TypeOK, CountsOK, NEW p \in Process, NEW u, NEW place, NEW r \in stale[p]
  PROVE  /\ Interrupted(p, u, place)[r] = [status |-> "failed",
                                           counts |-> Interrupted(p, u, place)[r].counts]
         /\ \/ r \in u /\ Interrupted(p, u, place)[r].counts = rows[r].counts
            \/ r \notin u /\ CountedOverSome(Interrupted(p, u, place)[r].counts)
<1> DEFINE stamped == {q \in stale[p] : place[q] < place[r]}
           done == Ended \cup stamped
           base == IF done \ {r} # {} /\ Latest(r, done) \in stamped \ u
                   THEN entries ELSE Prior(r, done).total
           row == Interrupted(p, u, place)[r]
<1>1. row = [status |-> "failed",
             counts |-> IF r \in u THEN rows[r].counts ELSE CountOver(base)]
  BY DEF Interrupted
<1>2. base \in 0..MaxEntries
  <2>1. done \in SUBSET Run BY DEF Ended, TypeOK
  <2>2. Prior(r, done).total \in 0..MaxEntries BY <2>1, PriorFacts, CountsFields
  <2> QED BY <2>2 DEF TypeOK
<1> HIDE DEF base, row
<1>3. row.status = "failed" /\ row.counts = IF r \in u THEN rows[r].counts ELSE CountOver(base)
  BY <1>1
<1> QED BY <1>1, <1>2, <1>3 DEF row, CountedOverSome

\* When the last row alone may look interrupted, it is counted over the run before.
LEMMA InterruptedLast ==
  ASSUME TypeOK, NEW p \in Process, NEW u, NEW place \in Orders(stale[p]), NEW r \in stale[p],
         stale[p] \subseteq {r}, r \notin u
  PROVE  Interrupted(p, u, place)[r].counts = Counted(r)
<1> DEFINE stamped == {q \in stale[p] : place[q] < place[r]}
           row == Interrupted(p, u, place)[r]
<1>1. stamped = {}
  <2>1. place[r] \in 1..Cardinality(stale[p]) BY DEF Orders
  <2>2. stale[p] = {r} /\ Cardinality({r}) = 1 BY FS_Singleton
  <2>3. place[r] = 1 BY <2>1, <2>2
  <2>4. \A q \in stale[p] : q = r BY <2>2
  <2> QED BY <2>3, <2>4
<1>2. row = [status |-> "failed", counts |-> CountOver(Prior(r, Ended).total)]
  BY <1>1 DEF Interrupted
<1> HIDE DEF row
<1>3. row.counts = CountOver(Prior(r, Ended).total) BY <1>2
<1> QED BY <1>3 DEF row, Counted

-----------------------------------------------------------------------------
(* What a process may write into a row, leaving some rows uncounted.        *)

Writes(p, r, row, u) ==
  \/ pc[p] = "insert" /\ r = started + 1 /\ row = [NoRow EXCEPT !.status = "running"]
  \/ /\ pc[p] = "stamp" /\ r \in stale[p]
     /\ \E place \in Orders(stale[p]) : row = Interrupted(p, u, place)[r]
  \/ /\ pc[p] = "checkpoint" /\ r = mine[p] /\ Running(r)
     /\ row = [status |-> "running", counts |-> Counted(r)]
  \/ /\ pc[p] \in {"completed", "failed"} /\ r = mine[p]
     /\ row = [status |-> pc[p], counts |-> result[p]]

\* Every worker that is about to insert a row was started and has inserted none.
LEMMA RoomToInsert ==
  ASSUME StateOK, NEW p \in Process, pc[p] = "insert"
  PROVE  p \in Worker /\ started + 1 \in Run /\ started + 1 \in 0..MaxRuns
<1>0. p \in Worker BY DEF StateOK, PlacesOK
<1>1. p \in Pending BY <1>0 DEF Pending
<1>2. Cardinality(Pending) \in Nat /\ Cardinality(Pending) # 0
  BY <1>1, FS_CardinalityType, FS_EmptySet DEF StateOK, PendingOK
<1>3. started \in Nat /\ launches \in 0..MaxRuns BY RunsAssumption DEF StateOK, TypeOK
<1>4. started + Cardinality(Pending) <= launches BY DEF StateOK, PendingOK
<1> HIDE DEF Pending
<1> QED BY <1>0, <1>2, <1>3, <1>4, RunsAssumption DEF Run

\* A worker that scrapes has a row of its own.
LEMMA OwnRow ==
  ASSUME StateOK, NEW p \in Process, pc[p] \in Scraping
  PROVE  p \in Worker /\ mine[p] \in 1..started /\ mine[p] \in Run
<1>1. p \in Worker BY DEF StateOK, PlacesOK, Scraping
<1>2. mine[p] \in 0..MaxRuns /\ mine[p] <= started /\ mine[p] # 0 /\ started \in 0..MaxRuns
  BY <1>1 DEF StateOK, TypeOK, RowsOK, MineOK
<1> QED BY <1>1, <1>2, RunsAssumption DEF Run

LEMMA WriteFacts ==
  ASSUME StateOK, NEW p \in Process, NEW r, NEW row, NEW u, Writes(p, r, row, u)
  PROVE  /\ r \in Run /\ row \in Row /\ row.status # "none" /\ Possible(row.counts)
         /\ pc[p] \in Inside
         /\ pc[p] = "insert" => r = started + 1 /\ row.status = "running" /\ row.counts = NoCount
         /\ pc[p] = "stamp" => r \in stale[p] /\ row.status = "failed"
         /\ pc[p] = "checkpoint" => r = mine[p] /\ Running(r) /\ row.status = "running"
         /\ pc[p] \in {"completed", "failed"} => r = mine[p] /\ row.status = pc[p]
         /\ pc[p] \in {"insert", "stamp", "checkpoint", "completed", "failed"}
         /\ pc[p] # "insert" => r \in 1..started
<1> USE DEF StateOK
<1>1. CASE pc[p] = "insert"
  <2> DEFINE new == [NoRow EXCEPT !.status = "running"]
  <2>1. new = [status |-> "running", counts |-> NoCount] BY DEF NoRow
  <2>2. r = started + 1 /\ row = new BY <1>1 DEF Writes
  <2> HIDE DEF new
  <2>3. row.status = "running" /\ row.counts = NoCount /\ row \in Row
    BY <2>1, <2>2, CountFacts DEF Row
  <2>4. r \in Run BY <1>1, <2>2, RoomToInsert
  <2> QED BY <1>1, <2>2, <2>3, <2>4, CountFacts DEF Possible, Inside
<1>2. CASE pc[p] = "stamp"
  <2>1. r \in stale[p] BY <1>2 DEF Writes
  <2>2. PICK place \in Orders(stale[p]) : row = Interrupted(p, u, place)[r] BY <1>2 DEF Writes
  <2>3. stale[p] \subseteq 1..started /\ 1..started \subseteq Run
    BY RunsAssumption DEF RowsOK, TypeOK, Run
  <2>4. row = [status |-> "failed", counts |-> row.counts] BY <2>1, <2>2, InterruptedFacts
  <2>5. row.counts = rows[r].counts \/ CountedOverSome(row.counts)
    BY <2>1, <2>2, InterruptedFacts
  <2>6. rows[r].counts \in Counts /\ Possible(rows[r].counts)
    BY <2>1, <2>3 DEF TypeOK, Row, CountsOK
  <2>7. \A b \in 0..MaxEntries : CountOver(b) \in Counts /\ Possible(CountOver(b))
    BY CountOverFacts, RunsAssumption DEF Possible, TypeOK
  <2>8. row.counts \in Counts /\ Possible(row.counts) BY <2>5, <2>6, <2>7 DEF CountedOverSome
  <2>9. row.status = "failed" /\ row \in Row BY <2>4, <2>8 DEF Row
  <2> QED BY <1>2, <2>1, <2>3, <2>8, <2>9 DEF Inside
<1>3. CASE pc[p] = "checkpoint"
  <2>1. r = mine[p] /\ Running(r) /\ row = [status |-> "running", counts |-> Counted(r)]
    BY <1>3 DEF Writes
  <2>2. Counted(r) \in Counts /\ Possible(Counted(r)) BY CountedFacts
  <2>3. row.status = "running" /\ row.counts = Counted(r) /\ row \in Row BY <2>1, <2>2 DEF Row
  <2>4. mine[p] \in 1..started /\ mine[p] \in Run BY <1>3, OwnRow DEF Scraping
  <2> QED BY <1>3, <2>1, <2>2, <2>3, <2>4 DEF Inside, Scraping
<1>4. CASE pc[p] \in {"completed", "failed"}
  <2>1. r = mine[p] /\ row = [status |-> pc[p], counts |-> result[p]] BY <1>4 DEF Writes
  <2>2. p \in Worker /\ mine[p] \in 1..started /\ mine[p] \in Run BY <1>4, OwnRow DEF Scraping
  <2>3. result[p] \in Counts /\ Possible(result[p]) BY <2>2 DEF TypeOK, CountsOK
  <2>4. row.status = pc[p] /\ row.counts = result[p] /\ row \in Row BY <1>4, <2>1, <2>3 DEF Row
  <2> QED BY <1>4, <2>1, <2>2, <2>3, <2>4 DEF Inside, Scraping
<1> QED BY <1>1, <1>2, <1>3, <1>4 DEF Writes

\* Where nothing is left uncounted, what is over has been counted.
LEMMA WriteCounted ==
  ASSUME StateOK, FaultlessOK, faults = 0, NEW p \in Process, NEW r, NEW row,
         Writes(p, r, row, {})
  PROVE  CountedIfOver(row)
<1> USE DEF StateOK
<1>1. CASE pc[p] \in {"insert", "checkpoint"} BY <1>1, WriteFacts DEF CountedIfOver
<1>2. CASE pc[p] = "stamp"
  <2>1. r \in stale[p] BY <1>2 DEF Writes
  <2>2. PICK place \in Orders(stale[p]) : row = Interrupted(p, {}, place)[r] BY <1>2 DEF Writes
  <2>3. CountedOverSome(row.counts) BY <2>1, <2>2, InterruptedFacts
  <2>4. row.counts.from = "count" BY <2>3, CountOverFacts DEF CountedOverSome
  <2> QED BY <2>4 DEF CountedIfOver
<1>3. CASE pc[p] \in {"completed", "failed"}
  <2>1. row = [status |-> pc[p], counts |-> result[p]] BY <1>3 DEF Writes
  <2>2. p \in Worker BY <1>3, OwnRow DEF Scraping
  <2>3. result[p].from = "count" BY <1>3, <2>2 DEF FaultlessOK
  <2>4. row.counts = result[p] BY <2>1
  <2> QED BY <2>3, <2>4 DEF CountedIfOver
<1> QED BY <1>1, <1>2, <1>3, WriteFacts

-----------------------------------------------------------------------------
(* Transactions.                                                           *)

SendingPcs == {"insert", "stamp", "begin", "commit", "checkpoint", "completed", "failed"}

LEMMA SentFacts ==
  ASSUME StateOK, NEW p \in Process, NEW t \in Sent(p)
  PROVE  /\ pc[p] \in SendingPcs /\ TransactionOK(t) /\ t.by = p
         /\ \A r \in DOMAIN t.rows : Writes(p, r, t.rows[r], {})
<1>1. PICK written, work :
        /\ t = Tx(p, written, work) /\ work \subseteq {"purge", "add"} /\ pc[p] \in SendingPcs
        /\ \A r \in DOMAIN written : Writes(p, r, written[r], {})
  <2>1. CASE pc[p] = "insert"
    <3> DEFINE new == [NoRow EXCEPT !.status = "running"]
               written == Only(started + 1, new)
    <3>1. t = Tx(p, written, {}) BY <2>1 DEF Sent
    <3>2. \A r \in DOMAIN written : Writes(p, r, written[r], {}) BY <2>1 DEF Only, Writes
    <3> HIDE DEF written
    <3> QED BY <2>1, <3>1, <3>2 DEF SendingPcs
  <2>2. CASE pc[p] = "stamp"
    <3>1. PICK place \in Orders(stale[p]) : t = Tx(p, Interrupted(p, {}, place), {})
      BY <2>2 DEF Sent
    <3> DEFINE written == Interrupted(p, {}, place)
    <3>2. DOMAIN written = stale[p] BY DEF Interrupted
    <3>3. \A r \in stale[p] : Writes(p, r, written[r], {}) BY <2>2 DEF Writes
    <3> HIDE DEF written
    <3>4. t = Tx(p, written, {}) BY <3>1 DEF written
    <3> QED BY <2>2, <3>2, <3>3, <3>4 DEF SendingPcs
  <2>3. CASE pc[p] \in {"begin", "commit"}
    <3>1. \E work \in SUBSET {"purge", "add"} : t = Tx(p, NoRows, work) BY <2>3 DEF Sent
    <3>2. DOMAIN NoRows = {} BY DEF NoRows
    <3> QED BY <2>3, <3>1, <3>2 DEF SendingPcs
  <2>4. CASE pc[p] = "checkpoint"
    <3> DEFINE row == [status |-> "running", counts |-> Counted(mine[p])]
               written == IF Running(mine[p]) THEN Only(mine[p], row) ELSE NoRows
    <3>1. t = Tx(p, written, {}) BY <2>4 DEF Sent
    <3>2. \A r \in DOMAIN written : Writes(p, r, written[r], {})
      BY <2>4 DEF Only, NoRows, Writes
    <3> HIDE DEF written
    <3> QED BY <2>4, <3>1, <3>2 DEF SendingPcs
  <2>5. CASE pc[p] \in {"completed", "failed"}
    <3> DEFINE row == [status |-> pc[p], counts |-> result[p]]
               written == Only(mine[p], row)
    <3>1. t = Tx(p, written, {}) BY <2>5 DEF Sent
    <3>2. \A r \in DOMAIN written : Writes(p, r, written[r], {}) BY <2>5 DEF Only, Writes
    <3> HIDE DEF written
    <3> QED BY <2>5, <3>1, <3>2 DEF SendingPcs
  <2> QED BY <2>1, <2>2, <2>3, <2>4, <2>5 DEF Sent
<1>2. t.by = p /\ t.nth = started /\ t.rows = written /\ t.lots = work BY <1>1 DEF Tx
<1>3. started \in 0..MaxRuns BY DEF StateOK, TypeOK
<1>4. \A r \in DOMAIN written : r \in Run /\ written[r] \in Row BY <1>1, WriteFacts
<1> QED BY <1>1, <1>2, <1>3, <1>4 DEF TransactionOK

-----------------------------------------------------------------------------
(* Whose steps they are, and what they do to the rows, the transactions on   *)
(* their way and the entries.                                                *)

StepOf(p) ==
  \/ p \in Worker /\ (Launch(p) \/ Work(p) \/ RunFails(p) \/ CountFails(p))
  \/ p \in Reconciler /\ Reconcile(p)
  \/ StampUncounted(p) \/ CommitFails(p) \/ Die(p) \/ LoseLock(p) \/ Session(p) \/ Decide(p)

LEMMA EveryStep == Next => \E p \in Process : StepOf(p)
BY DEF Next, StepOf, Process

Quiet == UNCHANGED <<rows, started, entries, wire, made, behind, landed>>
Passed(p) ==
  /\ pc[p] = "insert" => pc'[p] = "baseline"
  /\ pc[p] = "stamp" => pc'[p] = Onward(p)
  /\ pc[p] = "checkpoint" => pc'[p] \in {"scrape", "ended"}
  /\ pc[p] \in {"completed", "failed"} => pc'[p] = "release"
Posts(p) ==
  /\ \E t \in Sent(p) : Unlocked(t) /\ wire' = wire \cup {t}
  /\ Sending(p) /\ UNCHANGED <<rows, entries, made, landed, local>>
  /\ pc[p] \in {"insert", "stamp", "failed"} => pc'[p] \in {"release", "dead"}
  /\ pc[p] = "completed" => pc'[p] \in {"fail", "dead"}

LEMMA Effects ==
  ASSUME StateOK, NEW p \in Process, StepOf(p)
  PROVE  \/ Quiet \/ Posts(p)
         \/ (Commit(p) \/ StampUncounted(p)) /\ Passed(p)
         \/ \E t \in wire : Land(t) \/ Lose(t)
<1>0. DOMAIN pc = Process BY DEF StateOK, TypeOK
<1> USE DEF Quiet, database, history
<1>1. CASE p \in Worker /\ (Launch(p) \/ RunFails(p) \/ CountFails(p))
  BY <1>1 DEF First, Launch, RunFails, CountFails
<1>2. CASE p \in Worker /\ Work(p)
  <2>1. CASE Acquire(p) \/ Skip(p) \/ SelectStale(p) \/ CountBefore(p)
    BY <2>1 DEF First, Acquire, Skip, SelectStale, CountBefore
  <2>2. CASE FirstFence(p) \/ Fence(p) \/ NothingToDo(p) \/ Count(p) \/ Release(p)
    BY <2>2 DEF FirstFence, Fence, NothingToDo, Count, Release
  <2>3. CASE Stamp(p) \/ Insert(p) \/ PurgeFirst(p) \/ CommitBatch(p) \/ Record(p)
    <3>1. Commit(p) /\ Passed(p)
      BY <1>0, <2>3 DEF Stamp, Insert, PurgeFirst, CommitBatch, Record, Passed, To
    <3> QED BY <3>1
  <2>4. CASE Checkpoint(p)
    <3>1. CASE Held(p)
      <4>1. Commit(p) /\ Passed(p) BY <1>0, <2>4, <3>1 DEF Checkpoint, Passed, To
      <4> QED BY <4>1
    <3>2. CASE ~Held(p) BY <2>4, <3>2 DEF Checkpoint
    <3> QED BY <3>1, <3>2
  <2> QED BY <1>2, <2>1, <2>2, <2>3, <2>4 DEF Work
<1>3. CASE p \in Reconciler /\ Reconcile(p)
  <2>1. Stamp(p) => Commit(p) /\ Passed(p) BY <1>0 DEF Stamp, Passed, To
  <2> QED BY <1>3, <2>1 DEF Reconcile, Poll, SelectStale, Release
<1>4. CASE CommitFails(p)
  <2>1. \E l \in CASE pc[p] \in {"insert", "stamp", "failed"}  -> {"release"}
                   [] pc[p] \in {"begin", "commit", "completed"} -> {"fail"}
                   [] OTHER                                      -> {"scrape", "ended"} :
           pc'[p] = l
    BY <1>0, <1>4 DEF CommitFails, To
  <2>2. pc[p] \in {"insert", "stamp", "failed"} => pc'[p] \in {"release", "dead"} BY <2>1
  <2>3. pc[p] = "completed" => pc'[p] \in {"fail", "dead"} BY <2>1
  <2>4. Posts(p) BY <1>4, <2>2, <2>3 DEF CommitFails, Posts
  <2> QED BY <2>4
<1>5. CASE Die(p)
  <2>1. CASE UNCHANGED <<wire, started, behind, late>> BY <1>5, <2>1 DEF Die
  <2>2. CASE ~UNCHANGED <<wire, started, behind, late>>
    <3>1. pc'[p] = "dead" BY <1>0, <1>5 DEF Die, To
    <3>2. Posts(p) BY <1>5, <2>2, <3>1 DEF Die, Posts
    <3> QED BY <3>2
  <2> QED BY <2>1, <2>2
<1>6. CASE LoseLock(p) \/ Session(p) BY <1>6 DEF LoseLock, Session, DropSession, Reap
<1>7. CASE Decide(p) BY <1>7 DEF Decide
<1>8. CASE StampUncounted(p)
  <2>1. Passed(p) BY <1>0, <1>8 DEF StampUncounted, Passed, To
  <2> QED BY <1>8, <2>1
<1> QED BY <1>1, <1>2, <1>3, <1>4, <1>5, <1>6, <1>7, <1>8 DEF StepOf

\* Only a process at insert takes a number, and takes note of what is not settled.
LEMMA StartedEffect ==
  ASSUME StateOK, NEW p \in Process, StepOf(p)
  PROVE  \/ started' = started /\ behind' = behind
         \/ /\ pc[p] = "insert" /\ started' = started + 1 /\ lock' = lock
            /\ behind' = behind \cup {r \in Run : Running(r) \/ r \in Locked}
            /\ Commit(p) \/ Posts(p)
<1>1. CASE Quiet BY <1>1 DEF Quiet
<1>2. CASE Commit(p) BY <1>2 DEF Commit, Sending
<1>3. CASE Posts(p) /\ started' # started
  <2>1. Sending(p) /\ pc[p] = "insert" BY <1>3 DEF Posts, Sending
  <2>2. Die(p) \/ CommitFails(p) \/ Commit(p)
    <3>1. p \in Worker BY <2>1, RoomToInsert
    <3>2. ~Reconcile(p) \/ p \notin Reconciler BY <3>1, RunsAssumption
    <3>3. CASE Work(p)
      BY <2>1, <3>3 DEF First, Work, Acquire, Skip, SelectStale, Stamp, Insert, CountBefore, FirstFence, Fence,
                   PurgeFirst, NothingToDo, CommitBatch, Checkpoint, Count, Record, Release
    <3>4. ~Launch(p) /\ ~RunFails(p) /\ ~CountFails(p) /\ ~StampUncounted(p)
      BY <1>3, <2>1 DEF First, Launch, RunFails, CountFails, StampUncounted, database
    <3>5. ~LoseLock(p) /\ ~Session(p) /\ ~Decide(p)
      BY <1>3 DEF LoseLock, Session, DropSession, Reap, Decide, Land, Lose, database
    <3> QED BY <3>2, <3>3, <3>4, <3>5 DEF StepOf
  <2>3. lock' = lock BY <2>2 DEF Die, CommitFails, Commit
  <2> QED BY <1>3, <2>1, <2>3 DEF Sending
<1>4. CASE Posts(p) /\ started' = started
  <2>1. pc[p] # "insert"
    <3>1. started \in Nat BY RunsAssumption DEF StateOK, TypeOK
    <3> QED BY <1>4, <3>1 DEF Posts, Sending
  <2> QED BY <1>4, <2>1 DEF Posts, Sending
<1>5. CASE StampUncounted(p) BY <1>5 DEF StampUncounted, history
<1>6. CASE \E t \in wire : Land(t) \/ Lose(t) BY <1>6 DEF Land, Lose, history
<1> QED BY <1>1, <1>2, <1>3, <1>4, <1>5, <1>6, Effects

\* A row changes when its process writes it, with nobody's transaction on it, or when a
\* transaction that has written it is decided.
Wrote(p, r) ==
  /\ r \notin Locked /\ wire' = wire /\ landed' = landed /\ Passed(p)
  /\ started' = IF pc[p] = "insert" THEN started + 1 ELSE started
  /\ \E u : Writes(p, r, rows'[r], u) /\ (u # {} => faults' # faults)
LandedOn(r) ==
  \E t \in wire : Land(t) /\ r \in DOMAIN t.rows /\ rows'[r] = t.rows[r]

LEMMA ApplyRows ==
  ASSUME NEW t, Apply(t), NEW r \in Run
  PROVE  rows'[r] = IF r \in DOMAIN t.rows THEN t.rows[r] ELSE rows[r]
BY DEF Apply

LEMMA RowEffect ==
  ASSUME StateOK, NEW p \in Process, StepOf(p), NEW r \in Run
  PROVE  rows'[r] = rows[r] \/ Wrote(p, r) \/ LandedOn(r)
<1>1. CASE Quiet \/ Posts(p) BY <1>1 DEF Quiet, Posts
<1>2. CASE Commit(p) /\ Passed(p)
  <2>1. PICK t \in Sent(p) : Unlocked(t) /\ Apply(t) BY <1>2 DEF Commit
  <2>2. CASE r \notin DOMAIN t.rows BY <2>1, <2>2, ApplyRows
  <2>3. CASE r \in DOMAIN t.rows
    <3>1. rows'[r] = t.rows[r] BY <2>1, <2>3, ApplyRows
    <3>2. Writes(p, r, t.rows[r], {}) BY <2>3, SentFacts
    <3>3. r \notin Locked BY <2>1, <2>3 DEF Unlocked
    <3> QED BY <1>2, <3>1, <3>2, <3>3 DEF Wrote, Commit, Sending
  <2> QED BY <2>2, <2>3
<1>3. CASE StampUncounted(p) /\ Passed(p)
  <2>1. CASE UNCHANGED rows BY <2>1
  <2>2. CASE ~UNCHANGED rows
    <3>1. PICK u \in SUBSET stale[p] \ {{}}, place \in Orders(stale[p]) :
            /\ stale[p] \cap Locked = {}
            /\ rows' = [q \in Run |-> IF q \in stale[p] THEN Interrupted(p, u, place)[q] ELSE rows[q]]
      BY <1>3, <2>2 DEF StampUncounted
    <3>2. CASE r \notin stale[p] BY <3>1, <3>2
    <3>3. CASE r \in stale[p]
      <4>1. rows'[r] = Interrupted(p, u, place)[r] BY <3>1, <3>3
      <4>2. Writes(p, r, rows'[r], u) BY <1>3, <3>3, <4>1 DEF Writes, StampUncounted
      <4>3. faults' # faults
        <5>1. faults \in Nat BY RunsAssumption DEF StateOK, TypeOK
        <5> QED BY <1>3, <5>1 DEF StampUncounted, Fault
      <4>4. r \notin Locked BY <3>1, <3>3
      <4> QED BY <1>3, <4>2, <4>3, <4>4 DEF Wrote, StampUncounted, history
    <3> QED BY <3>2, <3>3
  <2> QED BY <2>1, <2>2
<1>4. CASE \E t \in wire : Land(t)
  <2>1. PICK t \in wire : Land(t) BY <1>4
  <2>2. CASE r \notin DOMAIN t.rows BY <2>1, <2>2, ApplyRows DEF Land
  <2>3. CASE r \in DOMAIN t.rows BY <2>1, <2>3, ApplyRows DEF Land, LandedOn
  <2> QED BY <2>2, <2>3
<1>5. CASE \E t \in wire : Lose(t) BY <1>5 DEF Lose
<1> QED BY <1>1, <1>2, <1>3, <1>4, <1>5, Effects

\* A transaction is on its way because it was, or because its process has just sent it.
LEMMA WireEffect ==
  ASSUME StateOK, NEW p \in Process, StepOf(p)
  PROVE  \/ Posts(p)
         \/ wire' = wire
         \/ \E t \in wire : wire' = wire \ {t} /\ (Land(t) \/ Lose(t))
BY Effects DEF Quiet, Commit, StampUncounted, Land, Lose

\* A purge takes entries away; what is added is added to those ever committed.
LEMMA EntriesEffect ==
  ASSUME StateOK, NEW p \in Process, StepOf(p)
  PROVE  /\ made' \in 0..MaxEntries /\ entries' \in 0..MaxEntries
         /\ made <= made' /\ entries' + made <= entries + made' /\ entries' <= made'
<1>0. made \in 0..MaxEntries /\ entries \in 0..MaxEntries /\ entries <= made /\ MaxEntries \in Nat
  BY RunsAssumption DEF StateOK, TypeOK, CountsOK
<1>1. ASSUME NEW t, Apply(t)
      PROVE  /\ made' \in 0..MaxEntries /\ entries' \in 0..MaxEntries
             /\ made <= made' /\ entries' + made <= entries + made' /\ entries' <= made'
  <2>1. PICK add \in IF "add" \in t.lots THEN {0, 1} ELSE {0},
             kept \in IF "purge" \in t.lots THEN 0..entries ELSE {entries} :
           entries' = kept + add /\ made' = made + add /\ made' <= MaxEntries
    BY <1>1 DEF Apply
  <2>2. add \in {0, 1} /\ kept \in 0..entries BY <1>0, <2>1
  <2> QED BY <1>0, <2>1, <2>2
<1>2. CASE UNCHANGED <<entries, made>> BY <1>0, <1>2
<1>3. CASE Commit(p) BY <1>1, <1>3 DEF Commit
<1>4. CASE \E t \in wire : Land(t) BY <1>1, <1>4 DEF Land
<1> QED BY <1>2, <1>3, <1>4, Effects DEF Quiet, Posts, StampUncounted, Lose, history

-----------------------------------------------------------------------------
(* How a process moves on.                                                  *)

Keeps(p) ==
  /\ stale'[p] = stale[p]
  /\ p \in Worker => mine'[p] = mine[p] /\ before'[p] = before[p] /\ result'[p] = result[p]
Rests(p) == pc'[p] = pc[p] /\ Keeps(p) /\ late' = late
Enters(p) ==
  /\ Keeps(p) /\ late' = late
  /\ \/ p \in Worker /\ pc[p] = "off" /\ pc'[p] = "acquire" /\ lock' = lock
     \/ p \in Worker /\ pc[p] = "acquire" /\ pc'[p] = "off" /\ lock' = lock
     \/ /\ pc[p] = IF p \in Worker THEN "acquire" ELSE "off"
        /\ pc'[p] = "select" /\ lock = Free /\ lock' = p
Leaves(p) == pc[p] \in {"release", "dead"} /\ pc'[p] = "off" /\ Gone(p) /\ lock' # p
Dies(p) == Alive(p) /\ pc'[p] = "dead" /\ Keeps(p) /\ lock' = lock
Passes(p) ==
  /\ Keeps(p) /\ lock' = lock
  /\ \/ pc[p] = "stamp" /\ pc'[p] \in {Onward(p), "release"}
     \/ pc[p] \in {"select", "insert"} /\ pc'[p] = "release"
Advances(p) ==
  /\ pc[p] \in Scraping \ {"fail", "failed"}
  /\ pc'[p] \in Scraping \ {"baseline", "completed", "failed"}
  /\ pc[p] = "completed" => pc'[p] = "fail"
  /\ Keeps(p) /\ lock' = lock
EndsRun(p) ==
  /\ pc[p] \in {"completed", "failed"} /\ pc'[p] = "release"
  /\ pc[p] = "completed" => Record(p)
  /\ Keeps(p) /\ lock' = lock
Moves(p) ==
  \/ Rests(p) \/ Enters(p) \/ Leaves(p) \/ Dies(p) \/ SelectStale(p) \/ Passes(p) \/ Insert(p)
  \/ CountBefore(p) \/ Advances(p) \/ Count(p) \/ CountFails(p) \/ EndsRun(p)

LEMMA AllMove ==
  ASSUME StateOK, NEW p \in Process, StepOf(p)
  PROVE  Moves(p)
<1> USE DEF Keeps
<1>0. /\ DOMAIN pc = Process /\ DOMAIN mine = Worker /\ DOMAIN before = Worker
      /\ DOMAIN result = Worker /\ DOMAIN stale = Process
  BY DEF StateOK, TypeOK
<1>1. CASE p \in Worker /\ (Launch(p) \/ Acquire(p) \/ Skip(p))
  <2>1. Enters(p)
    BY <1>0, <1>1 DEF First, Launch, Acquire, Skip, Enters, To, local, history, database
  <2> QED BY <2>1 DEF Moves
<1>2. CASE Stamp(p) \/ StampUncounted(p)
  <2>1. Passes(p)
    BY <1>0, <1>2 DEF Stamp, StampUncounted, Commit, Passes, To, local
  <2> QED BY <2>1 DEF Moves
<1>3. CASE p \in Worker /\ (FirstFence(p) \/ Fence(p) \/ PurgeFirst(p) \/ NothingToDo(p) \/ CommitBatch(p))
  <2>1. Advances(p)
    BY <1>0, <1>3
    DEF FirstFence, Fence, PurgeFirst, NothingToDo, CommitBatch, Commit, Advances, To, local, database, Scraping
  <2> QED BY <2>1 DEF Moves
<1>4. CASE p \in Worker /\ Checkpoint(p)
  <2>1. Advances(p)
    BY <1>0, <1>4 DEF Checkpoint, Commit, Advances, To, local, database, Scraping
  <2> QED BY <2>1 DEF Moves
<1>12. CASE p \in Worker /\ RunFails(p)
  <2>1. CASE pc[p] \in {"select", "stamp", "insert"}
    <3>1. Passes(p) BY <1>0, <1>12, <2>1 DEF RunFails, Passes, To, local, database
    <3> QED BY <3>1 DEF Moves
  <2>2. CASE pc[p] \notin {"select", "stamp", "insert"}
    <3>1. Advances(p) BY <1>0, <1>12, <2>2 DEF RunFails, Advances, To, local, database, Scraping
    <3> QED BY <3>1 DEF Moves
  <2> QED BY <2>1, <2>2
<1>5. CASE p \in Worker /\ Record(p)
  <2>1. EndsRun(p) BY <1>0, <1>5 DEF Record, Commit, EndsRun, To, local
  <2> QED BY <2>1 DEF Moves
<1>6. CASE Release(p) \/ Reap(p)
  <2>1. lock' # p
    BY <1>6, RunsAssumption DEF Release, Reap, Process, database
  <2>2. Leaves(p) BY <1>0, <1>6, <2>1 DEF Release, Reap, Leaves, To
  <2> QED BY <2>2 DEF Moves
<1>7. CASE p \in Reconciler /\ Poll(p)
  <2>1. p \notin Worker BY <1>7, RunsAssumption
  <2>2. Enters(p) \/ Rests(p)
    BY <1>0, <1>7, <2>1 DEF Poll, Enters, Rests, To, local, history
  <2> QED BY <2>2 DEF Moves
<1>8. CASE Die(p)
  <2>1. Dies(p) BY <1>0, <1>8 DEF Die, Dies, To, local
  <2> QED BY <2>1 DEF Moves
<1>9. CASE CommitFails(p)
  <2>1. /\ pc[p] \in SendingPcs /\ Keeps(p) /\ lock' = lock
        /\ \E l \in CASE pc[p] \in {"insert", "stamp", "failed"}  -> {"release"}
                      [] pc[p] \in {"begin", "commit", "completed"} -> {"fail"}
                      [] OTHER                                      -> {"scrape", "ended"} :
             pc'[p] = l
    BY <1>0, <1>9, SentFacts DEF CommitFails, To, local
  <2>2. CASE pc[p] \in {"insert", "stamp"}
    <3>1. Passes(p) BY <2>1, <2>2 DEF Passes
    <3> QED BY <3>1 DEF Moves
  <2>3. CASE pc[p] \in {"begin", "commit", "completed"}
    <3>1. pc'[p] = "fail" BY <2>1, <2>3
    <3>2. Advances(p) BY <2>1, <2>3, <3>1 DEF Advances, Scraping
    <3> QED BY <3>2 DEF Moves
  <2>4. CASE pc[p] = "checkpoint"
    <3>1. pc'[p] \in {"scrape", "ended"} BY <2>1, <2>4
    <3>2. Advances(p) BY <2>1, <2>4, <3>1 DEF Advances, Scraping
    <3> QED BY <3>2 DEF Moves
  <2>5. CASE pc[p] = "failed"
    <3>1. EndsRun(p) BY <2>1, <2>5 DEF EndsRun
    <3> QED BY <3>1 DEF Moves
  <2> QED BY <2>1, <2>2, <2>3, <2>4, <2>5 DEF SendingPcs
<1>10. CASE DropSession(p) \/ LoseLock(p) \/ Decide(p)
  <2>1. Rests(p)
    BY <1>10 DEF DropSession, LoseLock, Decide, Land, Lose, Rests, local, history
  <2> QED BY <2>1 DEF Moves
<1>11. CASE SelectStale(p) \/ Insert(p) \/ CountBefore(p) \/ Count(p) \/ CountFails(p)
  BY <1>11 DEF Moves
<1> QED BY <1>1, <1>2, <1>3, <1>4, <1>5, <1>6, <1>7, <1>8, <1>9, <1>10, <1>11, <1>12
        DEF StepOf, Work, Reconcile, Session

\* The others stay as they are.
LEMMA OthersStay ==
  ASSUME StateOK, NEW p \in Process, StepOf(p), NEW q \in Process, q # p
  PROVE  /\ pc'[q] = pc[q] /\ stale'[q] = stale[q]
         /\ q \in Worker => /\ mine'[q] = mine[q] /\ before'[q] = before[q]
                            /\ result'[q] = result[q] /\ late'[q] = late[q]
<1>0. /\ DOMAIN pc = Process /\ DOMAIN mine = Worker /\ DOMAIN before = Worker
      /\ DOMAIN result = Worker /\ DOMAIN stale = Process /\ DOMAIN late = Worker
  BY DEF StateOK, TypeOK
<1> USE <1>0 DEF local, history, database, To
<1>1. ASSUME Sending(p) PROVE q \in Worker => late'[q] = late[q] BY <1>1 DEF Sending
<1>2. CASE p \in Worker /\ (Launch(p) \/ Acquire(p) \/ Skip(p) \/ RunFails(p) \/ CountFails(p))
  BY <1>2 DEF First, Launch, Acquire, Skip, RunFails, CountFails
<1>3. CASE SelectStale(p) \/ (p \in Worker /\ (CountBefore(p) \/ FirstFence(p) \/ Fence(p) \/ NothingToDo(p) \/ Count(p)))
  BY <1>3 DEF SelectStale, CountBefore, FirstFence, Fence, NothingToDo, Count
<1>4. CASE Stamp(p) \/ (p \in Worker /\ (Insert(p) \/ PurgeFirst(p) \/ CommitBatch(p) \/ Record(p)))
  BY <1>1, <1>4 DEF Stamp, Insert, PurgeFirst, CommitBatch, Record, Commit
<1>5. CASE p \in Worker /\ Checkpoint(p) BY <1>1, <1>5 DEF Checkpoint, Commit
<1>6. CASE Release(p) \/ Reap(p) BY <1>6 DEF Release, Reap, Gone
<1>7. CASE Poll(p) \/ DropSession(p) \/ LoseLock(p) BY <1>7 DEF Poll, DropSession, LoseLock
<1>8. CASE StampUncounted(p) BY <1>8 DEF StampUncounted
<1>9. CASE CommitFails(p) BY <1>1, <1>9 DEF CommitFails
<1>10. CASE Die(p) BY <1>1, <1>10 DEF Die
<1>11. CASE Decide(p) BY <1>11 DEF Decide, Land, Lose
<1> QED BY <1>2, <1>3, <1>4, <1>5, <1>6, <1>7, <1>8, <1>9, <1>10, <1>11
        DEF StepOf, Work, Reconcile, Session

\* The lock goes from nobody to a process that comes, and from one that goes, or loses it.
LEMMA LockEffect ==
  ASSUME NEW p \in Process, StepOf(p)
  PROVE  \/ lock' = lock
         \/ lock = Free /\ lock' = p
         \/ /\ lock = p /\ lock' = Free
            /\ Release(p) \/ DropSession(p) \/ LoseLock(p)
<1> USE DEF database
<1>1. CASE p \in Worker /\ (Launch(p) \/ RunFails(p) \/ CountFails(p))
  BY <1>1 DEF First, Launch, RunFails, CountFails
<1>2. CASE p \in Worker /\ Work(p)
  BY <1>2 DEF First, Work, Acquire, Skip, SelectStale, Stamp, Insert, CountBefore, FirstFence, Fence, PurgeFirst,
              NothingToDo, CommitBatch, Checkpoint, Count, Record, Release, Commit
<1>3. CASE p \in Reconciler /\ Reconcile(p)
  BY <1>3 DEF Reconcile, Poll, SelectStale, Stamp, Release, Commit
<1>4. CASE StampUncounted(p) \/ CommitFails(p) \/ Die(p) \/ LoseLock(p) \/ Session(p) \/ Decide(p)
  BY <1>4 DEF StampUncounted, CommitFails, Die, LoseLock, Session, DropSession, Reap, Decide, Land, Lose
<1> QED BY <1>1, <1>2, <1>3, <1>4 DEF StepOf

-----------------------------------------------------------------------------
(* The state keeps its type.                                               *)

LEMMA InvInit == Init => IInv
<1> SUFFICES ASSUME Init PROVE IInv OBVIOUS
<1> USE RunsAssumption DEF Init
<1>1. TypeOK
  <2>1. \A p \in Process : "off" \in {"off", "acquire"} OBVIOUS
  <2> QED BY CountFacts DEF TypeOK
<1>2. PlacesOK /\ (\A w \in Worker : LateOK(w)) BY DEF PlacesOK, LateOK, Process
<1>3. PendingOK
  <2>1. Pending = {} BY DEF Pending, Process
  <2> QED BY <2>1, FS_EmptySet DEF PendingOK
<1>4. RowsOK BY DEF RowsOK, MineOK, Process, Scraping
<1>5. CountsOK BY CountFacts DEF CountsOK, Possible
<1>6. FaultlessOK BY CountFacts DEF FaultlessOK, CountedIfOver, Process
<1>7. HeldInside /\ OwnersOK BY DEF HeldInside, OwnersOK, Inside, Scraping, Process
<1>8. SerialOK
  <2>1. \A q \in 1..(started - 1) : FALSE /\ \A r \in 1..started : FALSE OBVIOUS
  <2>2. \A w \in Worker : pc[w] \notin Scraping BY DEF Scraping, Process
  <2> QED BY <2>1, <2>2 DEF SerialOK, CountsAddUp
<1> QED BY <1>1, <1>2, <1>3, <1>4, <1>5, <1>6, <1>7, <1>8 DEF IInv, StateOK

LEMMA LocalsStep ==
  ASSUME StateOK, NEW p \in Process, StepOf(p)
  PROVE  /\ pc' \in [Process -> {"off", "acquire", "select", "stamp", "insert", "baseline", "start",
                         "begin", "scrape", "commit", "checkpoint", "ended", "count",
                         "completed", "fail", "failed", "release", "dead"}]
         /\ mine' \in [Worker -> 0..MaxRuns] /\ purge' \in [Worker -> {"none", "own", "batch"}]
         /\ before' \in [Worker -> Counts] /\ result' \in [Worker -> Counts]
         /\ stale' \in [Process -> SUBSET Run] /\ late' \in [Worker -> Nat]
         /\ launches' \in 0..MaxRuns /\ breaks' \in 0..MaxBreaks
         /\ losses' \in 0..MaxLosses /\ faults' \in 0..MaxFaults
<1>0. /\ pc \in [Process -> {"off", "acquire", "select", "stamp", "insert", "baseline", "start",
                         "begin", "scrape", "commit", "checkpoint", "ended", "count",
                         "completed", "fail", "failed", "release", "dead"}]
      /\ mine \in [Worker -> 0..MaxRuns] /\ purge \in [Worker -> {"none", "own", "batch"}]
      /\ before \in [Worker -> Counts] /\ result \in [Worker -> Counts]
      /\ stale \in [Process -> SUBSET Run] /\ late \in [Worker -> Nat]
      /\ launches \in 0..MaxRuns /\ breaks \in 0..MaxBreaks
      /\ losses \in 0..MaxLosses /\ faults \in 0..MaxFaults
  BY DEF StateOK, TypeOK
<1>1. ASSUME Sending(p) PROVE late' \in [Worker -> Nat]
  <2>1. late' = late \/ late' = [late EXCEPT ![p] = @ + 1] BY <1>1 DEF Sending
  <2>2. [late EXCEPT ![p] = @ + 1] \in [Worker -> Nat]
    <3>1. late \in [Worker -> Nat] BY <1>0
    <3>2. p \in Worker => late[p] + 1 \in Nat BY <3>1
    <3> HIDE <1>0
    <3>3. [late EXCEPT ![p] = @ + 1] = [w \in Worker |-> IF w = p THEN late[p] + 1 ELSE late[w]]
      BY <3>1
    <3>4. \A w \in Worker : (IF w = p THEN late[p] + 1 ELSE late[w]) \in Nat BY <3>1, <3>2
    <3> QED BY <3>3, <3>4
  <2> QED BY <1>0, <2>1, <2>2
<1> USE <1>0, RunsAssumption DEF local, history, database, bounds, To
<1>2. CASE p \in Worker /\ (Launch(p) \/ RunFails(p))
  BY <1>2 DEF First, Launch, RunFails, Fault
<1>3. CASE p \in Worker /\ (Acquire(p) \/ Skip(p) \/ FirstFence(p) \/ Fence(p) \/ NothingToDo(p))
  BY <1>3 DEF First, Acquire, Skip, FirstFence, Fence, NothingToDo
<1>4. CASE SelectStale(p)
  <2>1. LooksInterrupted \in SUBSET Run BY DEF LooksInterrupted
  <2> QED BY <1>4, <2>1 DEF SelectStale, Onward
<1>5. CASE Stamp(p) \/ StampUncounted(p)
  BY <1>1, <1>5 DEF Stamp, StampUncounted, Commit, Fault, Onward
<1>6. CASE p \in Worker /\ Insert(p)
  <2>1. started + 1 \in 0..MaxRuns BY <1>6, RoomToInsert DEF Insert
  <2> QED BY <1>1, <1>6, <2>1 DEF Insert, Commit
<1>7. CASE p \in Worker /\ CountBefore(p)
  <2>1. [total |-> entries, new |-> 0, at |-> made, from |-> "before"] \in Counts
    BY DEF StateOK, TypeOK, Counts
  <2> QED BY <1>7, <2>1 DEF CountBefore
<1>8. CASE p \in Worker /\ (PurgeFirst(p) \/ CommitBatch(p) \/ Record(p))
  BY <1>1, <1>8 DEF PurgeFirst, CommitBatch, Record, Commit
<1>9. CASE p \in Worker /\ Checkpoint(p) BY <1>1, <1>9 DEF Checkpoint, Commit
<1>10. CASE p \in Worker /\ Count(p)
  <2>1. Counted(mine[p]) \in Counts BY CountedFacts DEF StateOK
  <2> QED BY <1>10, <2>1 DEF Count
<1>11. CASE p \in Worker /\ CountFails(p) BY <1>11 DEF CountFails, Fault
<1>12. CASE Release(p) \/ Reap(p)
  <2>1. Gone(p) /\ UNCHANGED bounds /\ To(p, "off") BY <1>12 DEF Release, Reap
  <2> QED BY <2>1, CountFacts DEF Gone
<1>13. CASE Poll(p) \/ DropSession(p) \/ LoseLock(p)
  BY <1>13 DEF Poll, DropSession, LoseLock
<1>14. CASE CommitFails(p)
  <2>1. \E l \in {"release", "fail", "scrape", "ended"} : To(p, l) BY <1>14 DEF CommitFails
  <2> QED BY <1>1, <1>14, <2>1 DEF CommitFails, Break
<1>15. CASE Die(p) BY <1>1, <1>15 DEF Die, Break
<1>16. CASE Decide(p) BY <1>16 DEF Decide, Land, Lose
<1> QED BY <1>2, <1>3, <1>4, <1>5, <1>6, <1>7, <1>8, <1>9, <1>10, <1>11, <1>12, <1>13, <1>14,
           <1>15, <1>16 DEF StepOf, Work, Reconcile, Session

\* A number is taken for a row, and for no other reason.
LEMMA StartedType ==
  ASSUME StateOK, NEW p \in Process, StepOf(p)
  PROVE  started' \in 0..MaxRuns /\ started \in Nat /\ started' \in Nat /\ started <= started'
<1>1. started \in 0..MaxRuns BY DEF StateOK, TypeOK
<1> QED BY <1>1, StartedEffect, RoomToInsert, RunsAssumption

LEMMA RowsType ==
  ASSUME StateOK, NEW p \in Process, StepOf(p)
  PROVE  rows' \in [Run -> Row] /\ \A r \in Run : r > started' => rows'[r] = NoRow
<1>0. rows \in [Run -> Row] /\ \A r \in Run : r > started => rows[r] = NoRow
  BY DEF StateOK, TypeOK
<1>1. rows' = [r \in Run |-> rows'[r]]
  <2>1. ASSUME NEW t, Apply(t) PROVE rows' = [r \in Run |-> rows'[r]] BY <2>1 DEF Apply
  <2>2. CASE UNCHANGED rows BY <1>0, <2>2
  <2>3. CASE StampUncounted(p) BY <1>0, <2>3 DEF StampUncounted
  <2>4. CASE Commit(p) BY <2>1, <2>4 DEF Commit
  <2>5. CASE \E t \in wire : Land(t) BY <2>1, <2>5 DEF Land
  <2> QED BY <2>2, <2>3, <2>4, <2>5, Effects DEF Quiet, Posts, Lose
<1>2. ASSUME NEW r \in Run PROVE rows'[r] \in Row /\ (r > started' => rows'[r] = NoRow)
  <2>0. r \in Nat /\ started \in Nat /\ started' \in Nat /\ started <= started'
    BY RunsAssumption, StartedType DEF Run
  <2>1. CASE rows'[r] = rows[r] BY <1>0, <2>0, <2>1
  <2>2. CASE Wrote(p, r)
    <3>1. PICK u : Writes(p, r, rows'[r], u) BY <2>2 DEF Wrote
    <3>2. rows'[r] \in Row /\ (r = started + 1 \/ r \in 1..started)
          /\ (pc[p] = "insert" => r = started + 1)
      BY <3>1, WriteFacts
    <3>3. r <= started'
      <4>1. CASE pc[p] = "insert" BY <2>2, <3>2, <4>1, <2>0 DEF Wrote
      <4>2. CASE pc[p] # "insert" BY <3>1, <4>2, <2>0, WriteFacts
      <4> QED BY <4>1, <4>2
    <3> QED BY <2>0, <3>2, <3>3
  <2>3. CASE LandedOn(r)
    <3>1. PICK t \in wire : r \in DOMAIN t.rows /\ rows'[r] = t.rows[r] BY <2>3 DEF LandedOn
    <3>2. TransactionOK(t) /\ DOMAIN t.rows \subseteq 1..started
      BY DEF StateOK, TypeOK, RowsOK
    <3> QED BY <2>0, <3>1, <3>2 DEF TransactionOK
  <2> QED BY <2>1, <2>2, <2>3, RowEffect
<1> QED BY <1>1, <1>2

LEMMA TypeStep ==
  ASSUME StateOK, NEW p \in Process, StepOf(p)
  PROVE  TypeOK'
<1>1. lock' \in Process \cup {Free} BY LockEffect DEF StateOK, TypeOK
<1>2. entries' \in 0..MaxEntries /\ made' \in 0..MaxEntries BY EntriesEffect
<1>3. \A t \in wire' : TransactionOK(t)
  <2>1. \A t \in wire : TransactionOK(t) BY DEF StateOK, TypeOK
  <2> QED BY <2>1, WireEffect, SentFacts DEF Posts
<1>4. behind' \subseteq Run BY StartedEffect DEF StateOK, TypeOK
<1>5. landed' \subseteq Run
  <2>1. landed \subseteq Run /\ \A t \in wire : DOMAIN t.rows \subseteq Run
    BY DEF StateOK, TypeOK, TransactionOK
  <2> QED BY <2>1, Effects DEF Quiet, Commit, Posts, StampUncounted, Land, Lose, history
<1>6. (\A t \in wire : TransactionOK(t))' BY <1>3 DEF TransactionOK
<1> QED BY <1>1, <1>2, <1>4, <1>5, <1>6, RowsType, StartedType, LocalsStep DEF TypeOK

LEMMA PlacesStep ==
  ASSUME StateOK, NEW p \in Process, StepOf(p)
  PROVE  PlacesOK'
<1> SUFFICES ASSUME NEW q \in Process, q \notin Worker
             PROVE  pc'[q] \in {"off", "select", "stamp", "release", "dead"}
  BY DEF PlacesOK
<1>0. pc[q] \in {"off", "select", "stamp", "release", "dead"} BY DEF StateOK, PlacesOK
<1>1. CASE q # p BY <1>0, <1>1, OthersStay
<1>2. CASE q = p
  <2>1. Moves(p) BY AllMove
  <2>2. ~Insert(p) /\ ~CountBefore(p) /\ ~Count(p) /\ ~CountFails(p)
    BY <1>0, <1>2 DEF Insert, CountBefore, Count, CountFails
  <2>3. CASE SelectStale(p)
    BY <1>2, <2>3 DEF SelectStale, Onward, To, StateOK, TypeOK
  <2> QED BY <1>0, <1>2, <2>1, <2>2, <2>3
          DEF Moves, Rests, Enters, Leaves, Dies, Passes, Onward, Advances, EndsRun, Scraping
<1> QED BY <1>1, <1>2

LEMMA LateStep ==
  ASSUME StateOK, NEW p \in Process, StepOf(p), \A w \in Worker : LateOK(w), NEW w \in Worker
  PROVE  LateOK(w)'
<1>0. LateOK(w) /\ late[w] \in Nat /\ w # Free /\ w \in Process
  BY RunsAssumption DEF StateOK, TypeOK, Process
<1>1. CASE w # p
  <2>1. pc'[w] = pc[w] /\ late'[w] = late[w] BY <1>0, <1>1, OthersStay
  <2>2. lock' = lock \/ lock' = p \/ lock' = Free BY LockEffect
  <2> QED BY <1>0, <1>1, <2>1, <2>2 DEF LateOK
<1>2. CASE w = p
  <2>1. LateOK(p) /\ p \in Worker /\ late[p] \in Nat /\ p # Free BY <1>0, <1>2
  <2>2. DOMAIN pc = Process /\ DOMAIN late = Worker BY DEF StateOK, TypeOK
  <2>3. p \notin Reconciler BY <2>1, RunsAssumption
  <2> USE <1>2, <2>1, <2>2 DEF LateOK, To, database, history, local
  <2>4. CASE Launch(p) \/ Acquire(p) \/ Skip(p) BY <2>4 DEF First, Launch, Acquire, Skip
  <2>5. CASE SelectStale(p) BY <2>5 DEF SelectStale, Onward
  <2>6. CASE Stamp(p) \/ StampUncounted(p)
    BY <2>6 DEF Stamp, StampUncounted, Commit, Sending, Onward
  <2>7. CASE Insert(p) \/ PurgeFirst(p) \/ CommitBatch(p) \/ Record(p)
    BY <2>7 DEF Insert, PurgeFirst, CommitBatch, Record, Commit, Sending
  <2>8. CASE Checkpoint(p) BY <2>8 DEF Checkpoint, Commit, Sending, Held
  <2>9. CASE CountBefore(p) \/ FirstFence(p) \/ Fence(p) \/ NothingToDo(p) \/ Count(p)
    BY <2>9 DEF CountBefore, FirstFence, Fence, NothingToDo, Count, Held
  <2>10. CASE RunFails(p) \/ CountFails(p) BY <2>10 DEF RunFails, CountFails
  <2>11. CASE Release(p) \/ Reap(p)
    <3>1. lock' # p BY <2>11 DEF Release, Reap
    <3>2. late'[p] = 0 /\ pc'[p] = "off" BY <2>11 DEF Release, Reap, Gone
    <3> QED BY <3>1, <3>2
  <2>12. CASE DropSession(p) \/ LoseLock(p) \/ Decide(p)
    BY <2>12 DEF DropSession, LoseLock, Decide, Land, Lose
  <2>13. CASE CommitFails(p)
    <3>1. /\ Sending(p) /\ lock' = lock /\ pc[p] \in SendingPcs
          /\ pc[p] = "checkpoint" => lock = p
      BY <2>13, SentFacts DEF CommitFails, Held
    <3>2. CASE pc[p] \in {"begin", "commit"}
      BY <2>13, <3>1, <3>2 DEF CommitFails, Sending
    <3>3. CASE pc[p] \in {"insert", "stamp", "failed"}
      BY <2>13, <3>1, <3>3 DEF CommitFails, Sending
    <3>4. CASE pc[p] \in {"checkpoint", "completed"}
      BY <2>13, <3>1, <3>4 DEF CommitFails, Sending
    <3> QED BY <3>1, <3>2, <3>3, <3>4 DEF SendingPcs
  <2>14. CASE Die(p)
    <3>1. pc'[p] = "dead" /\ lock' = lock BY <2>14 DEF Die
    <3>2. late'[p] = late[p] \/ (pc[p] \in {"begin", "commit"} /\ lock # p /\ late'[p] = late[p] + 1)
      BY <2>14 DEF Die, Sending
    <3> QED BY <3>1, <3>2
  <2> QED BY <2>3, <2>4, <2>5, <2>6, <2>7, <2>8, <2>9, <2>10, <2>11, <2>12, <2>13, <2>14, <1>2
          DEF StepOf, Work, Session
<1> QED BY <1>1, <1>2

-----------------------------------------------------------------------------
(* Numbers, rows and counts.                                               *)

LEMMA BoundsEffect ==
  ASSUME StateOK, NEW p \in Process, StepOf(p)
  PROVE  /\ launches' = launches \/ (p \in Worker /\ Launch(p) /\ launches' = launches + 1)
         /\ faults' = faults \/ faults' = faults + 1
         /\ losses' = losses \/ losses' = losses + 1
         /\ ~LoseLock(p) => losses' = losses
<1> USE DEF bounds, Fault, Break
<1>1. CASE p \in Worker /\ (Launch(p) \/ RunFails(p) \/ CountFails(p))
  BY <1>1 DEF First, Launch, RunFails, CountFails
<1>2. CASE p \in Worker /\ Work(p)
  BY <1>2 DEF First, Work, Acquire, Skip, SelectStale, Stamp, Insert, CountBefore, FirstFence, Fence, PurgeFirst,
              NothingToDo, CommitBatch, Checkpoint, Count, Record, Release
<1>3. CASE p \in Reconciler /\ Reconcile(p)
  BY <1>3 DEF Reconcile, Poll, SelectStale, Stamp, Release
<1>4. CASE StampUncounted(p) \/ CommitFails(p) \/ Die(p) \/ LoseLock(p) \/ Session(p) \/ Decide(p)
  BY <1>4
  DEF StampUncounted, CommitFails, Die, LoseLock, Session, DropSession, Reap, Decide, Land, Lose
<1> QED BY <1>1, <1>2, <1>3, <1>4 DEF StepOf

\* A number is taken by a worker that is no longer to insert a row.
LEMMA InsertSteps ==
  ASSUME StateOK, NEW p \in Process, StepOf(p), started' # started
  PROVE  /\ pc[p] = "insert" /\ p \in Worker /\ launches' = launches
         /\ Insert(p) \/ CommitFails(p) \/ Die(p)
         /\ pc'[p] \in {"baseline", "release", "dead"}
<1>1. pc[p] = "insert" BY StartedEffect
<1>2. p \in Worker BY <1>1, RoomToInsert
<1>3. ~Reconcile(p) \/ p \notin Reconciler BY <1>2, RunsAssumption
<1>4. CASE Work(p)
  <2>1. Insert(p)
    BY <1>1, <1>4 DEF First, Work, Acquire, Skip, SelectStale, Stamp, CountBefore, FirstFence, Fence,
                      PurgeFirst, NothingToDo, CommitBatch, Checkpoint, Count, Record, Release
  <2> QED BY <1>1, <1>2, <2>1 DEF Insert, bounds, To, StateOK, TypeOK
<1>5. ~Launch(p) /\ ~RunFails(p) /\ ~CountFails(p) /\ ~StampUncounted(p)
  BY <1>1 DEF First, Launch, RunFails, CountFails, StampUncounted, database
<1>6. ~LoseLock(p) /\ ~Session(p) /\ ~Decide(p)
  BY DEF LoseLock, Session, DropSession, Reap, Decide, Land, Lose, database
<1>7. CASE CommitFails(p)
  BY <1>1, <1>2, <1>7 DEF CommitFails, Break, To, StateOK, TypeOK
<1>8. CASE Die(p) BY <1>1, <1>2, <1>8 DEF Die, Break, To, StateOK, TypeOK
<1> QED BY <1>3, <1>4, <1>5, <1>6, <1>7, <1>8 DEF StepOf

LEMMA PendingStep ==
  ASSUME StateOK, NEW p \in Process, StepOf(p)
  PROVE  PendingOK'
<1> DEFINE ToInsert == {"acquire", "select", "stamp", "insert"}
<1>0. /\ IsFiniteSet(Pending) /\ started + Cardinality(Pending) <= launches
      /\ started \in Nat /\ started' \in Nat /\ launches \in Nat
  BY RunsAssumption, StartedType DEF StateOK, TypeOK, PendingOK
<1>1. Cardinality(Pending) \in Nat BY <1>0, FS_CardinalityType
<1>2. \A w \in Worker : w # p => (w \in Pending' <=> w \in Pending)
  BY OthersStay DEF Pending, Process
<1>3. p \in Pending <=> p \in Worker /\ pc[p] \in ToInsert BY DEF Pending
<1>4. p \in Pending' <=> p \in Worker /\ pc'[p] \in ToInsert BY DEF Pending
<1>5. Pending \subseteq Worker /\ Pending' \subseteq Worker BY DEF Pending
<1> HIDE DEF Pending
<1>6. CASE p \notin Pending /\ p \in Pending'
  <2>1. p \in Worker /\ pc[p] \notin ToInsert /\ pc'[p] \in ToInsert BY <1>3, <1>4, <1>6
  <2>2. pc[p] = "off"
    <3>1. ~CountBefore(p) /\ ~Count(p) /\ ~CountFails(p) /\ ~Insert(p) /\ ~SelectStale(p)
      BY <2>1 DEF CountBefore, Count, CountFails, Insert, SelectStale, To, StateOK, TypeOK
    <3> QED BY <2>1, <3>1, AllMove
            DEF Moves, Rests, Enters, Leaves, Dies, Passes, Advances, EndsRun, Scraping
  <2>3. started' = started BY <2>2, InsertSteps
  <2>4. Launch(p) /\ launches' = launches + 1
    <3>1. p \notin Reconciler BY <2>1, RunsAssumption
    <3>2. CASE Work(p)
      BY <2>2, <3>2 DEF First, Work, Acquire, Skip, SelectStale, Stamp, Insert, CountBefore, FirstFence, Fence,
                   PurgeFirst, NothingToDo, CommitBatch, Checkpoint, Count, Record, Release
    <3>3. ~RunFails(p) /\ ~CountFails(p) /\ ~StampUncounted(p) /\ ~Die(p) /\ ~LoseLock(p)
      BY <2>2 DEF RunFails, CountFails, StampUncounted, Die, LoseLock, Alive
    <3>4. ~CommitFails(p) BY <2>2, SentFacts DEF CommitFails, SendingPcs
    <3>5. ~Session(p) /\ ~Decide(p)
      BY <2>1, <2>2 DEF Session, DropSession, Reap, Decide, Land, Lose
    <3>6. CASE Launch(p) BY <3>6 DEF First, Launch
    <3> QED BY <3>1, <3>2, <3>3, <3>4, <3>5, <3>6 DEF StepOf
  <2>5. Pending' = Pending \cup {p} BY <1>2, <1>5, <1>6
  <2>6. IsFiniteSet(Pending') /\ Cardinality(Pending') = Cardinality(Pending) + 1
    BY <1>0, <1>6, <2>5, FS_AddElement
  <2> QED BY <1>0, <1>1, <2>3, <2>4, <2>6 DEF PendingOK
<1>7. CASE p \in Pending /\ p \notin Pending'
  <2>1. Pending' = Pending \ {p} BY <1>2, <1>5, <1>7
  <2>2. IsFiniteSet(Pending') /\ Cardinality(Pending') = Cardinality(Pending) - 1
    BY <1>0, <1>7, <2>1, FS_RemoveElement
  <2>3. launches' >= launches BY <1>0, BoundsEffect
  <2>4. started' <= started + 1 BY <1>0, StartedEffect
  <2>5. launches' \in Nat BY <1>0, BoundsEffect
  <2> QED BY <1>0, <1>1, <2>2, <2>3, <2>4, <2>5 DEF PendingOK
<1>8. CASE p \in Pending <=> p \in Pending'
  <2>1. Pending' = Pending BY <1>2, <1>5, <1>8
  <2>2. started' = started
    <3>1. started' # started => p \in Worker /\ pc[p] \in ToInsert /\ pc'[p] \notin ToInsert
      BY InsertSteps
    <3> QED BY <1>3, <1>4, <1>8, <3>1
  <2>3. launches' >= launches /\ launches' \in Nat BY <1>0, BoundsEffect
  <2> QED BY <1>0, <1>1, <2>1, <2>2, <2>3 DEF PendingOK
<1> QED BY <1>6, <1>7, <1>8

LEMMA MineStep ==
  ASSUME StateOK, NEW p \in Process, StepOf(p), NEW w \in Worker
  PROVE  MineOK(w)'
<1>0. /\ MineOK(w) /\ mine[w] \in Nat /\ w \in Process
      /\ started \in Nat /\ started' \in Nat /\ started <= started'
  BY RunsAssumption, StartedType DEF StateOK, TypeOK, RowsOK, Process
<1>1. CASE w # p BY <1>0, <1>1, OthersStay DEF MineOK
<1>2. CASE w = p
  <2> USE <1>0, <1>2 DEF MineOK
  <2>0. DOMAIN pc = Process /\ DOMAIN mine = Worker /\ DOMAIN before = Worker
    BY DEF StateOK, TypeOK
  <2>1. CASE Rests(p) \/ Enters(p) \/ Dies(p) \/ Passes(p)
    BY <2>1 DEF Rests, Enters, Dies, Passes, Keeps, Onward, Early, Scraping
  <2>2. CASE Advances(p) \/ EndsRun(p)
    BY <2>2 DEF Advances, EndsRun, Keeps, Early, Scraping
  <2>3. CASE Leaves(p)
    <3>1. mine'[p] = 0 /\ before'[p] = NoCount /\ pc'[p] = "off"
      BY <2>0, <2>3 DEF Leaves, Gone
    <3> QED BY <3>1 DEF Scraping
  <2>4. CASE SelectStale(p) BY <2>0, <2>4 DEF SelectStale, To, Onward, Early, Scraping
  <2>5. CASE Insert(p)
    <3>1. mine'[p] = started + 1 /\ pc'[p] = "baseline" BY <2>0, <2>5 DEF Insert, To
    <3>2. started' = started + 1 BY <2>5 DEF Insert, Commit, Sending
    <3> QED BY <3>1, <3>2 DEF Early, Scraping
  <2>6. CASE CountBefore(p) BY <2>0, <2>6 DEF CountBefore, To, Early, Scraping
  <2>7. CASE Count(p) \/ CountFails(p)
    BY <2>0, <2>7 DEF Count, CountFails, To, Early, Scraping
  <2> QED BY <2>1, <2>2, <2>3, <2>4, <2>5, <2>6, <2>7, AllMove DEF Moves
<1> QED BY <1>1, <1>2

LEMMA StaleStep ==
  ASSUME StateOK, NEW p \in Process, StepOf(p), NEW q \in Process
  PROVE  stale'[q] \subseteq 1..started'
<1>0. stale[q] \subseteq 1..started /\ started \in Nat /\ started' \in Nat /\ started <= started'
  BY StartedType DEF StateOK, RowsOK
<1>1. CASE stale'[q] = stale[q] BY <1>0, <1>1
<1>2. CASE q = p /\ SelectStale(p)
  <2>1. stale'[q] = LooksInterrupted BY <1>2 DEF SelectStale, StateOK, TypeOK
  <2>2. ASSUME NEW r \in LooksInterrupted PROVE r \in 1..started
    <3>1. r \in Run /\ rows[r] # NoRow BY <2>2, CountFacts DEF LooksInterrupted, Running
    <3>2. r \in Nat /\ r >= 1 BY <3>1, RunsAssumption DEF Run
    <3>3. ~(r > started) BY <3>1 DEF StateOK, TypeOK
    <3> QED BY <1>0, <3>2, <3>3
  <2> QED BY <1>0, <2>1, <2>2
<1>3. CASE q = p /\ Leaves(p) BY <1>3 DEF Leaves, Gone, StateOK, TypeOK
<1>4. CASE q = p /\ ~SelectStale(p) /\ ~Leaves(p)
  <2>1. Insert(p) \/ CountBefore(p) \/ Count(p) \/ CountFails(p) => stale'[q] = stale[q]
    BY DEF Insert, CountBefore, Count, CountFails
  <2>2. stale'[q] = stale[q]
    BY <1>4, <2>1, AllMove
    DEF Moves, Rests, Enters, Dies, Passes, Advances, EndsRun, Keeps
  <2> QED BY <1>1, <2>2
<1> QED BY <1>1, <1>2, <1>3, <1>4, OthersStay

LEMMA RowsStep ==
  ASSUME StateOK, NEW p \in Process, StepOf(p)
  PROVE  RowsOK'
<1>0. started \in Nat /\ started' \in Nat /\ started <= started' BY StartedType
<1>1. /\ \A t \in wire : /\ DOMAIN t.rows \subseteq 1..started
                         /\ \A r \in DOMAIN t.rows : t.rows[r].status # "none"
      /\ \A t, u \in wire : t # u => DOMAIN t.rows \cap DOMAIN u.rows = {}
  BY DEF StateOK, RowsOK
<1>2. /\ \A t \in wire' : /\ DOMAIN t.rows \subseteq 1..started'
                          /\ \A r \in DOMAIN t.rows : t.rows[r].status # "none"
      /\ \A t, u \in wire' : t # u => DOMAIN t.rows \cap DOMAIN u.rows = {}
  <2>1. CASE wire' \subseteq wire BY <1>0, <1>1, <2>1
  <2>2. CASE Posts(p)
    <3>1. PICK t \in Sent(p) : Unlocked(t) /\ wire' = wire \cup {t} BY <2>2 DEF Posts
    <3>2. ASSUME NEW r \in DOMAIN t.rows PROVE r \in 1..started' /\ t.rows[r].status # "none"
      <4>1. Writes(p, r, t.rows[r], {}) BY SentFacts
      <4>2. CASE pc[p] = "insert"
        <5>1. started' = started + 1 /\ r = started + 1
          BY <2>2, <4>1, <4>2, WriteFacts DEF Posts, Sending
        <5> QED BY <1>0, <4>1, <5>1, WriteFacts
      <4>3. CASE pc[p] # "insert" BY <1>0, <4>1, <4>3, WriteFacts
      <4> QED BY <4>2, <4>3
    <3>3. \A u \in wire : DOMAIN t.rows \cap DOMAIN u.rows = {} BY <3>1 DEF Unlocked, Locked
    <3> QED BY <1>0, <1>1, <3>1, <3>2, <3>3
  <2> QED BY <2>1, <2>2, WireEffect
<1>3. \A w \in Worker : MineOK(w)' BY MineStep
<1>4. \A q \in Process : stale'[q] \subseteq 1..started' BY StaleStep
<1> QED BY <1>2, <1>3, <1>4 DEF RowsOK

\* What could have been counted is not contradicted by what comes after.
LEMMA PossibleKept ==
  ASSUME StateOK, NEW p \in Process, StepOf(p), NEW c \in Counts, Possible(c)
  PROVE  Possible(c)'
<1>1. c.total \in Nat /\ c.at \in Nat BY CountsFields
<1>2. made \in Nat /\ entries \in Nat BY RunsAssumption DEF StateOK, TypeOK
<1>3. /\ made' \in Nat /\ entries' \in Nat
      /\ made <= made' /\ entries' + made <= entries + made'
  BY EntriesEffect, RunsAssumption
<1>4. c.from # "none" => c.at <= made /\ entries + c.at <= made + c.total BY DEF Possible
<1>5. ASSUME NEW a \in Nat, NEW b \in Nat, NEW m \in Nat, NEW e \in Nat, NEW n \in Nat,
             NEW f \in Nat, a <= m, e + a <= m + b, m <= n, f + m <= e + n
      PROVE  a <= n /\ f + a <= n + b
  BY <1>5
<1> DEFINE n == made'
           f == entries'
<1>6. n \in Nat /\ f \in Nat /\ made <= n /\ f + made <= entries + n BY <1>3
<1> HIDE DEF n, f
<1>7. c.from # "none" => c.at <= n /\ f + c.at <= n + c.total BY <1>1, <1>2, <1>4, <1>5, <1>6
<1> QED BY <1>7 DEF Possible, n, f

LEMMA CountsStep ==
  ASSUME StateOK, NEW p \in Process, StepOf(p)
  PROVE  CountsOK'
<1> USE DEF StateOK
<1>1. entries' <= made' BY EntriesEffect
<1>2. ASSUME NEW r \in Run PROVE Possible(rows[r].counts)'
  <2>1. rows'[r].counts \in Counts BY RowsType DEF Row
  <2>2. Possible(rows'[r].counts)
    <3>1. CASE rows'[r] = rows[r] BY <3>1 DEF CountsOK
    <3>2. CASE Wrote(p, r) BY <3>2, WriteFacts DEF Wrote
    <3>3. CASE LandedOn(r) BY <3>3 DEF LandedOn, CountsOK
    <3> QED BY <3>1, <3>2, <3>3, RowEffect
  <2> DEFINE c == rows'[r].counts
  <2> HIDE DEF c
  <2>3. c \in Counts /\ Possible(c) BY <2>1, <2>2 DEF c
  <2>4. c.from # "none" => c.at <= made' /\ entries' + c.at <= made' + c.total
    BY <2>3, PossibleKept DEF Possible
  <2> QED BY <2>4 DEF c, Possible
<1>3. ASSUME NEW t \in wire', NEW r \in DOMAIN t.rows PROVE Possible(t.rows[r].counts)'
  <2>1. t.rows[r].counts \in Counts /\ Possible(t.rows[r].counts)
    <3>1. CASE t \in wire
      BY <3>1 DEF CountsOK, TypeOK, TransactionOK, Row
    <3>2. CASE t \in Sent(p) BY <3>2, SentFacts, WriteFacts DEF Row
    <3> QED BY <3>1, <3>2, WireEffect DEF Posts
  <2> QED BY <2>1, PossibleKept
<1>4. ASSUME NEW w \in Worker
      PROVE  /\ Possible(before[w])' /\ Possible(result[w])'
             /\ before'[w].new = 0 /\ before'[w].from # "count"
  <2>0. before[w] \in Counts /\ result[w] \in Counts /\ before'[w] \in Counts /\ result'[w] \in Counts
    BY LocalsStep DEF TypeOK
  <2>1. /\ Possible(before[w]) /\ Possible(result[w]) /\ before[w].new = 0
        /\ before[w].from # "count"
    BY DEF CountsOK
  <2>2. /\ Possible(before'[w]) /\ Possible(result'[w]) /\ before'[w].new = 0
        /\ before'[w].from # "count"
    <3>1. CASE w # p BY <2>1, <3>1, OthersStay DEF Process
    <3>2. CASE w = p
      <4> USE <2>1, <3>2
      <4>1. CASE Keeps(p) BY <4>1 DEF Keeps
      <4>2. CASE Leaves(p)
        <5>1. before'[p] = NoCount /\ result'[p] = NoCount
          BY <4>2 DEF Leaves, Gone, TypeOK
        <5> QED BY <5>1, CountFacts DEF Possible
      <4>3. CASE CountBefore(p)
        <5> DEFINE c == [total |-> entries, new |-> 0, at |-> made, from |-> "before"]
        <5>1. before'[p] = c /\ result'[p] = result[p] BY <4>3 DEF CountBefore, TypeOK
        <5>2. c.total = entries /\ c.at = made /\ c.new = 0 /\ c.from = "before" OBVIOUS
        <5> HIDE DEF c
        <5>3. made \in Nat /\ entries \in Nat BY RunsAssumption DEF TypeOK
        <5> QED BY <5>1, <5>2, <5>3 DEF Possible
      <4>4. CASE Count(p)
        <5>1. result'[p] = Counted(mine[p]) /\ before'[p] = before[p] BY <4>4 DEF Count, TypeOK
        <5> QED BY <5>1, CountedFacts
      <4>5. CASE CountFails(p) BY <4>5 DEF CountFails, TypeOK
      <4>6. CASE SelectStale(p) \/ Insert(p) BY <4>6 DEF SelectStale, Insert
      <4> QED BY <4>1, <4>2, <4>3, <4>4, <4>5, <4>6, AllMove
              DEF Moves, Rests, Enters, Dies, Passes, Advances, EndsRun
    <3> QED BY <3>1, <3>2
  <2> DEFINE b == before'[w]
             c == result'[w]
  <2> HIDE DEF b, c
  <2>3. b \in Counts /\ c \in Counts /\ Possible(b) /\ Possible(c) BY <2>0, <2>2 DEF b, c
  <2>4. /\ b.from # "none" => b.at <= made' /\ entries' + b.at <= made' + b.total
        /\ c.from # "none" => c.at <= made' /\ entries' + c.at <= made' + c.total
    BY <2>3, PossibleKept DEF Possible
  <2> QED BY <2>2, <2>4 DEF b, c, Possible
<1> QED BY <1>1, <1>2, <1>3, <1>4 DEF CountsOK

LEMMA FaultlessStep ==
  ASSUME StateOK, FaultlessOK, NEW p \in Process, StepOf(p)
  PROVE  FaultlessOK'
<1> SUFFICES ASSUME faults' = 0
    PROVE /\ \A r \in Run : CountedIfOver(rows'[r])
          /\ \A t \in wire' : \A r \in DOMAIN t.rows : CountedIfOver(t.rows[r])
          /\ \A w \in Worker : pc'[w] \in {"completed", "failed"} => result'[w].from = "count"
  BY DEF FaultlessOK, CountedIfOver
<1>1. faults = 0 /\ faults' = faults
  <2>1. faults \in Nat BY RunsAssumption DEF StateOK, TypeOK
  <2> QED BY <2>1, BoundsEffect
<1>2. /\ \A r \in Run : CountedIfOver(rows[r])
      /\ \A t \in wire : \A r \in DOMAIN t.rows : CountedIfOver(t.rows[r])
      /\ \A w \in Worker : pc[w] \in {"completed", "failed"} => result[w].from = "count"
  BY <1>1 DEF FaultlessOK
<1>3. ASSUME NEW r \in Run PROVE CountedIfOver(rows'[r])
  <2>1. CASE Wrote(p, r) BY <1>1, <2>1, WriteCounted DEF Wrote
  <2>2. CASE LandedOn(r) BY <1>2, <2>2 DEF LandedOn
  <2> QED BY <1>2, <2>1, <2>2, RowEffect
<1>4. ASSUME NEW t \in wire', NEW r \in DOMAIN t.rows PROVE CountedIfOver(t.rows[r])
  <2>1. CASE t \in wire BY <1>2, <2>1
  <2>2. CASE t \in Sent(p) BY <1>1, <2>2, SentFacts, WriteCounted
  <2> QED BY <2>1, <2>2, WireEffect DEF Posts
<1>5. ASSUME NEW w \in Worker, pc'[w] \in {"completed", "failed"} PROVE result'[w].from = "count"
  <2>1. CASE w # p BY <1>2, <1>5, <2>1, OthersStay DEF Process
  <2>2. CASE w = p
    <3>0. faults \in Nat BY RunsAssumption DEF StateOK, TypeOK
    <3>1. ~CountFails(p) BY <1>1, <3>0 DEF CountFails, Fault
    <3>2. CASE Count(p)
      <4>1. result'[p] = Counted(mine[p]) BY <2>2, <3>2 DEF Count, StateOK, TypeOK
      <4> QED BY <2>2, <4>1, CountedFacts DEF StateOK
    <3>3. ~SelectStale(p) /\ ~Insert(p) /\ ~CountBefore(p)
      BY <1>5, <2>2 DEF SelectStale, Insert, CountBefore, To, Onward, StateOK, TypeOK
    <3>4. CASE Rests(p) BY <1>2, <1>5, <2>2, <3>4 DEF Rests, Keeps
    <3> QED BY <1>5, <2>2, <3>1, <3>2, <3>3, <3>4, AllMove
            DEF Moves, Enters, Leaves, Dies, Passes, Onward, Advances, EndsRun
  <2> QED BY <2>1, <2>2
<1> QED BY <1>3, <1>4, <1>5

-----------------------------------------------------------------------------
(* While no lock session is lost: who is at work, and on which rows.        *)

LEMMA HeldStep ==
  ASSUME StateOK, HeldInside, NEW p \in Process, StepOf(p), ~LoseLock(p)
  PROVE  HeldInside'
<1> SUFFICES ASSUME NEW q \in Process, pc'[q] \in Inside PROVE lock' = q BY DEF HeldInside
<1>0. Free \notin Process /\ DOMAIN pc = Process
  BY RunsAssumption DEF Process, StateOK, TypeOK
<1>1. CASE q # p
  <2>1. lock = q BY <1>1, OthersStay DEF HeldInside
  <2> QED BY <1>0, <1>1, <2>1, LockEffect
<1>2. CASE q = p
  <2>1. ~Release(p) /\ ~DropSession(p)
    BY <1>0, <1>2 DEF Release, DropSession, To, Inside, Scraping, local
  <2>2. pc[p] \in Inside => lock = p BY DEF HeldInside
  <2>3. lock = p => lock' = p BY <1>0, <2>1, LockEffect
  <2>4. CASE Enters(p) BY <1>2, <2>4 DEF Enters, Inside, Scraping
  <2>5. CASE Leaves(p) \/ Dies(p) BY <1>2, <2>5 DEF Leaves, Dies, Inside, Scraping
  <2>6. CASE Rests(p) BY <1>2, <2>2, <2>3, <2>6 DEF Rests
  <2>7. CASE Passes(p) \/ Advances(p) \/ EndsRun(p)
    BY <1>2, <2>2, <2>3, <2>7 DEF Passes, Advances, EndsRun, Inside, Scraping
  <2>8. CASE SelectStale(p) \/ Insert(p) \/ CountBefore(p) \/ Count(p) \/ CountFails(p)
    BY <1>2, <2>2, <2>3, <2>8
    DEF SelectStale, Insert, CountBefore, Count, CountFails, Inside, Scraping
  <2> QED BY <2>4, <2>5, <2>6, <2>7, <2>8, AllMove DEF Moves
<1> QED BY <1>1, <1>2

\* What is written is written by the process that holds the lock.
LEMMA WriterHolds ==
  ASSUME StateOK, HeldInside, NEW p \in Process, NEW r, Wrote(p, r)
  PROVE  lock = p /\ \A q \in Process : q # p => pc[q] \notin Inside
BY WriteFacts DEF Wrote, HeldInside

\* A row ends by its writer, or by a transaction on its way: then it is taken note of.
LEMMA LandingFacts ==
  ASSUME StateOK, OwnersOK, NEW r \in Run, LandedOn(r)
  PROVE  /\ rows'[r].status \in {"running", "completed", "failed"}
         /\ rows'[r].status # "running" => r \in landed'
         /\ Finished(r) => rows'[r].status = "failed"
         /\ \E t \in wire : /\ Land(t) /\ r \in DOMAIN t.rows /\ rows'[r] = t.rows[r]
                            /\ \A w \in Worker :
                                 /\ pc[w] \in Inside /\ mine[w] = r
                                 /\ rows'[r].status # "running"
                                 => pc[w] \in {"fail", "failed", "release"}
<1>1. PICK t \in wire : Land(t) /\ r \in DOMAIN t.rows /\ rows'[r] = t.rows[r]
  BY DEF LandedOn
<1>2. t.rows[r].status \in {"running", "completed", "failed"}
  BY <1>1 DEF StateOK, TypeOK, TransactionOK, Row, RowsOK
<1>3. t.rows[r].status # "running" => r \in landed' BY <1>1 DEF Land
<1> QED BY <1>1, <1>2, <1>3 DEF OwnersOK

LEMMA LandedGrows ==
  ASSUME StateOK, NEW p \in Process, StepOf(p)
  PROVE  landed \subseteq landed'
BY Effects DEF Quiet, Posts, Commit, StampUncounted, Land, Lose, history

\* The rows a process has found interrupted are still, but for what landed.
LEMMA StampsStep ==
  ASSUME StateOK, HeldInside, OwnersOK, NEW p \in Process, StepOf(p), NEW q \in Process,
         pc'[q] = "stamp", NEW r \in stale'[q]
  PROVE  Running(r)' \/ r \in landed'
<1>0. DOMAIN pc = Process /\ DOMAIN stale = Process BY DEF StateOK, TypeOK
<1>1. CASE q = p /\ SelectStale(p)
  <2>1. stale'[p] = LooksInterrupted /\ rows' = rows
    BY <1>0, <1>1 DEF SelectStale, database
  <2> QED BY <1>1, <2>1 DEF LooksInterrupted, Running
<1>2. CASE pc[q] = "stamp" /\ stale'[q] = stale[q]
  <2>1. r \in Run /\ (Running(r) \/ r \in landed)
    BY <1>2 DEF StateOK, TypeOK, OwnersOK
  <2>2. CASE r \in landed BY <2>2, LandedGrows
  <2>3. CASE rows'[r] = rows[r] BY <2>1, <2>3, LandedGrows DEF Running
  <2>4. CASE LandedOn(r) BY <2>1, <2>4, LandingFacts DEF Running
  <2>5. CASE Wrote(p, r)
    <3>1. q = p BY <1>2, <2>5, WriterHolds DEF Inside
    <3> QED BY <1>2, <2>5, <3>1 DEF Wrote, Passed, Onward
  <2> QED BY <2>1, <2>2, <2>3, <2>4, <2>5, RowEffect
<1>3. CASE q # p BY <1>2, <1>3, OthersStay
<1>4. CASE q = p /\ ~SelectStale(p)
  <2>1. ~Insert(p) /\ ~CountBefore(p) /\ ~Count(p) /\ ~CountFails(p)
    BY <1>0, <1>4 DEF Insert, CountBefore, Count, CountFails, To
  <2>2. Rests(p)
    BY <1>4, <2>1, AllMove DEF Moves, Enters, Leaves, Dies, Passes, Onward, Advances, EndsRun, Scraping
  <2> QED BY <1>2, <1>4, <2>2 DEF Rests, Keeps
<1> QED BY <1>1, <1>3, <1>4

\* A worker that scrapes has its row running, unless its end has landed.
LEMMA OwnRowStep ==
  ASSUME StateOK, HeldInside, OwnersOK, NEW p \in Process, StepOf(p), NEW w \in Worker,
         pc'[w] \in Scraping
  PROVE  \/ Running(mine[w])'
         \/ mine'[w] \in landed' /\ Finished(mine[w])' /\ pc'[w] \in {"fail", "failed"}
<1>0. /\ DOMAIN pc = Process /\ DOMAIN mine = Worker /\ w \in Process
      /\ Scraping \subseteq Inside
  BY DEF StateOK, TypeOK, Process, Inside
\* Its row, as long as it does not write it itself.
<1>1. ASSUME pc[w] \in Scraping, mine'[w] = mine[w], ~Wrote(p, mine[w]),
             pc[w] \in {"fail", "failed"} => pc'[w] \in {"fail", "failed"}
      PROVE  \/ Running(mine[w])'
             \/ mine'[w] \in landed' /\ Finished(mine[w])' /\ pc'[w] \in {"fail", "failed"}
  <2>1. mine[w] \in Run BY <1>0, <1>1, OwnRow
  <2>2. \/ Running(mine[w])
        \/ mine[w] \in landed /\ Finished(mine[w]) /\ pc[w] \in {"fail", "failed"}
    BY <1>1 DEF OwnersOK
  <2>3. CASE rows'[mine[w]] = rows[mine[w]]
    BY <1>1, <2>2, <2>3, LandedGrows DEF Running, Finished
  <2>4. CASE LandedOn(mine[w])
    <3>1. /\ rows'[mine[w]].status \in {"running", "completed", "failed"}
          /\ rows'[mine[w]].status # "running" => mine[w] \in landed'
          /\ rows'[mine[w]].status # "running" => pc[w] \in {"fail", "failed", "release"}
      BY <1>0, <1>1, <2>1, <2>4, LandingFacts
    <3>2. "release" \notin Scraping BY DEF Scraping
    <3> QED BY <1>1, <3>1, <3>2 DEF Running, Finished
  <2> QED BY <1>1, <2>1, <2>3, <2>4, RowEffect
<1>2. CASE w # p
  <2>1. pc'[w] = pc[w] /\ mine'[w] = mine[w] BY <1>0, <1>2, OthersStay
  <2>2. ~Wrote(p, mine[w]) BY <1>0, <1>2, <2>1, WriterHolds
  <2> QED BY <1>1, <2>1, <2>2
<1>3. CASE w = p
  <2>1. CASE Rests(p)
    <3>1. pc'[p] = pc[p] /\ mine'[p] = mine[p] BY <1>3, <2>1 DEF Rests, Keeps
    <3>2. ~Wrote(p, mine[p])
      <4>1. SUFFICES ASSUME Wrote(p, mine[p]) PROVE FALSE OBVIOUS
      <4>2. pc[p] \in {"checkpoint", "completed", "failed"}
        BY <1>3, <3>1, <4>1, WriteFacts DEF Wrote, Scraping
      <4> QED BY <3>1, <4>1, <4>2 DEF Wrote, Passed
    <3> QED BY <1>1, <1>3, <3>1, <3>2
  <2>2. CASE Insert(p)
    <3> DEFINE new == [NoRow EXCEPT !.status = "running"]
    <3>1. PICK t \in Sent(p) : Apply(t) BY <2>2 DEF Insert, Commit
    <3>2. t = Tx(p, Only(started + 1, new), {}) BY <2>2, <3>1 DEF Insert, Sent
    <3>3. t.rows = Only(started + 1, new) BY <3>2 DEF Tx
    <3>4. started + 1 \in DOMAIN t.rows /\ t.rows[started + 1] = new BY <3>3 DEF Only
    <3>5. started + 1 \in Run BY <2>2, RoomToInsert DEF Insert
    <3>6. rows'[started + 1] = new BY <3>1, <3>4, <3>5, ApplyRows
    <3>7. new.status = "running" BY DEF NoRow
    <3>8. mine'[p] = started + 1 BY <1>0, <1>3, <2>2 DEF Insert
    <3> QED BY <1>3, <3>6, <3>7, <3>8 DEF Running
  <2>3. CASE CountBefore(p) \/ Count(p) \/ CountFails(p)
    <3>1. /\ pc[p] \in {"baseline", "count", "fail"} /\ mine'[p] = mine[p]
          /\ rows' = rows
          /\ pc[p] \in {"fail", "failed"} => pc'[p] \in {"fail", "failed"}
      BY <1>0, <2>3 DEF CountBefore, Count, CountFails, To, database
    <3>2. pc[p] \in Scraping BY <3>1 DEF Scraping
    <3>3. \/ Running(mine[p])
          \/ mine[p] \in landed /\ Finished(mine[p]) /\ pc[p] \in {"fail", "failed"}
      BY <1>3, <3>2 DEF OwnersOK
    <3> QED BY <1>3, <3>1, <3>3, LandedGrows DEF Running, Finished
  <2>4. CASE Advances(p)
    <3>1. pc[p] \in Scraping \ {"fail", "failed"} /\ mine'[p] = mine[p]
      BY <1>3, <2>4 DEF Advances, Keeps
    <3>2. CASE Wrote(p, mine[p])
      <4>1. pc[p] = "checkpoint"
        BY <1>3, <3>1, <3>2, WriteFacts DEF Wrote, Passed, Scraping
      <4>2. rows'[mine[p]].status = "running" BY <3>2, <4>1, WriteFacts DEF Wrote
      <4> QED BY <1>3, <3>1, <4>2 DEF Running
    <3> QED BY <1>1, <1>3, <3>1, <3>2
  <2>5. ~SelectStale(p) BY <1>0, <1>3 DEF SelectStale, To, Onward, Scraping
  <2>6. ~Enters(p) /\ ~Leaves(p) /\ ~Dies(p) /\ ~Passes(p) /\ ~EndsRun(p)
    BY <1>3 DEF Enters, Leaves, Dies, Passes, Onward, EndsRun, Scraping
  <2> QED BY <2>1, <2>2, <2>3, <2>4, <2>5, <2>6, AllMove DEF Moves
<1> QED BY <1>2, <1>3

\* What a transaction on its way has to do with its row, and with its row's worker.
OnItsWay(t, r) ==
  /\ Finished(r) => r \in landed /\ t.rows[r].status = "failed"
  /\ \A w \in Worker : pc[w] \in Inside /\ mine[w] = r =>
       /\ t.by = w
       /\ t.rows[r].status # "running" => pc[w] \in {"fail", "failed", "release"}

LEMMA OldOnItsWay ==
  ASSUME StateOK, HeldInside, OwnersOK, NEW p \in Process, StepOf(p),
         NEW t \in wire, t \in wire', NEW r \in DOMAIN t.rows
  PROVE  OnItsWay(t, r)'
<1>0. /\ r \in Run /\ r \in 1..started /\ started \in Nat /\ OnItsWay(t, r)
      /\ DOMAIN pc = Process /\ DOMAIN mine = Worker
  BY RunsAssumption DEF StateOK, TypeOK, RowsOK, TransactionOK, OwnersOK, OnItsWay
<1>1. ASSUME Finished(r)' PROVE r \in landed' /\ t.rows[r].status = "failed"
  <2>1. ~Wrote(p, r) BY DEF Wrote, Locked
  <2>2. ~LandedOn(r)
    <3>1. SUFFICES ASSUME NEW u \in wire, Land(u), r \in DOMAIN u.rows PROVE FALSE
      BY DEF LandedOn
    <3>2. u # t BY <3>1 DEF Land
    <3> QED BY <3>1, <3>2 DEF StateOK, RowsOK
  <2>3. rows'[r] = rows[r] BY <1>0, <2>1, <2>2, RowEffect
  <2> QED BY <1>0, <1>1, <2>3, LandedGrows DEF Finished, OnItsWay
<1>2. ASSUME NEW w \in Worker, pc'[w] \in Inside, mine'[w] = r
      PROVE  /\ t.by = w
             /\ t.rows[r].status # "running" => pc'[w] \in {"fail", "failed", "release"}
  <2>1. ASSUME pc[w] \in Inside, mine[w] = r,
               pc[w] \in {"fail", "failed", "release"} => pc'[w] \in {"fail", "failed", "release"}
        PROVE  /\ t.by = w
               /\ t.rows[r].status # "running" => pc'[w] \in {"fail", "failed", "release"}
    BY <1>0, <2>1 DEF OnItsWay
  <2>2. CASE w # p
    <3>1. pc'[w] = pc[w] /\ mine'[w] = mine[w] BY <2>2, OthersStay DEF Process
    <3> QED BY <1>2, <2>1, <3>1
  <2>3. CASE w = p
    <3>1. pc[p] \in Early => mine[p] = 0 BY <2>3 DEF StateOK, RowsOK, MineOK
    <3>2. r # 0 BY <1>0
    <3>3. CASE Rests(p) BY <1>2, <2>1, <2>3, <3>3 DEF Rests, Keeps
    <3>4. ~Enters(p) BY <1>2, <2>3, <3>1, <3>2 DEF Enters, Keeps, Early
    <3>5. ~Leaves(p) /\ ~Dies(p) BY <1>2, <2>3 DEF Leaves, Dies, Inside, Scraping
    <3>6. ~SelectStale(p) BY <1>2, <2>3, <3>1, <3>2 DEF SelectStale, Early
    <3>7. ~Passes(p) BY <1>2, <2>3, <3>1, <3>2 DEF Passes, Keeps, Early
    <3>8. ~Insert(p)
      <4>1. Insert(p) => mine'[p] = started + 1 BY <1>0, <2>3 DEF Insert
      <4> QED BY <1>0, <1>2, <2>3, <4>1
    <3>9. CASE CountBefore(p) \/ Count(p) \/ CountFails(p)
      <4>1. /\ pc[p] \in Inside /\ mine' = mine
            /\ pc[p] \in {"fail", "failed", "release"} => pc'[p] \in {"fail", "failed", "release"}
        BY <1>0, <3>9 DEF CountBefore, Count, CountFails, To, Inside, Scraping
      <4> QED BY <1>2, <2>1, <2>3, <4>1
    <3>10. CASE Advances(p)
      <4>1. /\ pc[p] \in Inside /\ mine'[p] = mine[p]
            /\ pc[p] \notin {"fail", "failed", "release"}
        BY <2>3, <3>10 DEF Advances, Keeps, Inside, Scraping
      <4> QED BY <1>2, <2>1, <2>3, <4>1
    <3>11. CASE EndsRun(p)
      <4>1. pc[p] \in Inside /\ mine'[p] = mine[p] /\ pc'[p] = "release"
        BY <2>3, <3>11 DEF EndsRun, Keeps, Inside, Scraping
      <4> QED BY <1>2, <2>1, <2>3, <4>1
    <3> QED BY <3>3, <3>4, <3>5, <3>6, <3>7, <3>8, <3>9, <3>10, <3>11, AllMove DEF Moves
  <2> QED BY <2>2, <2>3
<1> QED BY <1>1, <1>2 DEF OnItsWay

LEMMA NewOnItsWay ==
  ASSUME StateOK, HeldInside, OwnersOK, NEW p \in Process, StepOf(p), Posts(p),
         NEW t \in Sent(p), NEW r \in DOMAIN t.rows
  PROVE  OnItsWay(t, r)'
<1>0. /\ started \in Nat /\ t.by = p /\ Writes(p, r, t.rows[r], {})
      /\ \A q \in Run : q > started => rows[q] = NoRow
  BY SentFacts, RunsAssumption DEF StateOK, TypeOK
<1>1. /\ r \in Run /\ pc[p] \in Inside
      /\ pc[p] = "insert" => r = started + 1 /\ t.rows[r].status = "running"
      /\ pc[p] = "stamp" => r \in stale[p] /\ t.rows[r].status = "failed"
      /\ pc[p] = "checkpoint" => r = mine[p] /\ Running(r) /\ t.rows[r].status = "running"
      /\ pc[p] \in {"completed", "failed"} => r = mine[p] /\ t.rows[r].status = pc[p]
      /\ pc[p] \in {"insert", "stamp", "checkpoint", "completed", "failed"}
      /\ pc[p] # "insert" => r \in 1..started
  BY <1>0, WriteFacts
<1>2. rows' = rows /\ landed' = landed /\ mine' = mine BY DEF Posts, local
<1>3. ASSUME Finished(r)' PROVE r \in landed' /\ t.rows[r].status = "failed"
  <2>1. Finished(r) /\ ~Running(r) /\ rows[r] # NoRow
    BY <1>2, <1>3, CountFacts DEF Finished, Running
  <2>2. pc[p] # "insert"
    <3>1. pc[p] = "insert" => r > started BY <1>0, <1>1
    <3> QED BY <1>0, <1>1, <2>1, <3>1
  <2>3. CASE pc[p] = "stamp" BY <1>1, <1>2, <2>1, <2>3 DEF OwnersOK
  <2>4. CASE pc[p] \in {"completed", "failed"}
    <3>1. p \in Worker /\ pc[p] \in Scraping BY <2>4, OwnRow DEF Scraping
    <3>2. mine[p] \in landed /\ pc[p] \in {"fail", "failed"}
      BY <1>1, <2>1, <2>4, <3>1 DEF OwnersOK
    <3> QED BY <1>1, <1>2, <2>4, <3>2
  <2> QED BY <1>1, <2>1, <2>2, <2>3, <2>4
<1>4. ASSUME NEW w \in Worker, pc'[w] \in Inside, mine'[w] = r
      PROVE  /\ t.by = w
             /\ t.rows[r].status # "running" => pc'[w] \in {"fail", "failed", "release"}
  <2>1. w = p
    <3>1. SUFFICES ASSUME w # p PROVE FALSE OBVIOUS
    <3>2. pc[w] \in Inside BY <1>4, <3>1, OthersStay DEF Process
    <3>3. lock = w /\ lock = p BY <1>1, <3>2 DEF HeldInside, Process
    <3> QED BY <3>1, <3>3
  <2>2. mine[p] = r BY <1>2, <1>4, <2>1
  <2>3. pc[p] = "stamp" => FALSE
    <3>1. pc[p] = "stamp" => mine[p] = 0 BY <2>1 DEF StateOK, RowsOK, MineOK, Early
    <3> QED BY <1>0, <1>1, <2>2, <3>1
  <2>4. "dead" \notin Inside BY DEF Inside, Scraping
  <2> QED BY <1>0, <1>1, <1>4, <2>1, <2>3, <2>4 DEF Posts
<1> QED BY <1>3, <1>4 DEF OnItsWay

LEMMA OwnersStep ==
  ASSUME StateOK, HeldInside, OwnersOK, NEW p \in Process, StepOf(p)
  PROVE  OwnersOK'
<1>1. \A q \in Process : pc'[q] = "stamp" => \A r \in stale'[q] : Running(r)' \/ r \in landed'
  BY StampsStep
<1>2. \A w \in Worker : pc'[w] \in Scraping =>
        \/ Running(mine[w])'
        \/ mine'[w] \in landed' /\ Finished(mine[w])' /\ pc'[w] \in {"fail", "failed"}
  BY OwnRowStep
<1>3. \A t \in wire' : \A r \in DOMAIN t.rows : OnItsWay(t, r)'
  <2>1. SUFFICES ASSUME NEW t \in wire', NEW r \in DOMAIN t.rows PROVE OnItsWay(t, r)' OBVIOUS
  <2>2. CASE t \in wire BY <2>2, OldOnItsWay
  <2>3. CASE t \notin wire
    <3>1. Posts(p) BY <2>3, WireEffect
    <3>2. t \in Sent(p)
      <4>1. PICK u \in Sent(p) : wire' = wire \cup {u} BY <3>1 DEF Posts
      <4> QED BY <2>3, <4>1
    <3> QED BY <3>1, <3>2, NewOnItsWay
  <2> QED BY <2>2, <2>3
<1> QED BY <1>1, <1>2, <1>3 DEF OwnersOK, OnItsWay, Running, Finished

-----------------------------------------------------------------------------
(* While each run is settled before the next begins, the run before is the  *)
(* baseline, and it does not change.                                        *)

\* What is settled when the last number is taken.
EarlierSettled == \A q \in 1..(started - 1) : Settled(q)

\* The row of a worker that scrapes is the last one.
LEMMA MineIsLast ==
  ASSUME StateOK, EarlierSettled, NEW w \in Worker, pc[w] \in Scraping
  PROVE  mine[w] = started
<1>1. mine[w] \in 1..started /\ started \in Nat
  BY OwnRow, RunsAssumption DEF Process, StateOK, TypeOK
<1>2. mine[w] \notin 1..(started - 1) BY DEF EarlierSettled, Settled
<1> QED BY <1>1, <1>2

LEMMA SettledUnwritten ==
  ASSUME StateOK, NEW p \in Process, NEW q \in 1..started, Settled(q), NEW row, NEW u
  PROVE  ~Writes(p, q, row, u)
<1>1. SUFFICES ASSUME Writes(p, q, row, u) PROVE FALSE OBVIOUS
<1>2. started \in Nat BY RunsAssumption DEF StateOK, TypeOK
<1>3. q # started + 1 BY <1>2
<1>4. CASE pc[p] = "stamp" BY <1>1, <1>4, WriteFacts DEF Settled
<1>5. CASE pc[p] \in {"checkpoint", "completed", "failed"}
  <2>1. p \in Worker /\ pc[p] \in Scraping /\ q = mine[p]
    BY <1>1, <1>5, OwnRow, WriteFacts DEF Scraping
  <2> QED BY <2>1 DEF Settled
<1> QED BY <1>1, <1>3, <1>4, <1>5, WriteFacts

\* A settled row stays settled, and as it is.
LEMMA SettledStays ==
  ASSUME StateOK, NEW p \in Process, StepOf(p), NEW q \in 1..started, Settled(q)
  PROVE  rows'[q] = rows[q] /\ Settled(q)'
<1>0. /\ q \in Run /\ started \in Nat
      /\ DOMAIN pc = Process /\ DOMAIN stale = Process /\ DOMAIN mine = Worker
  BY RunsAssumption DEF StateOK, TypeOK, Run
<1>1. rows'[q] = rows[q]
  <2>1. ~Wrote(p, q) BY SettledUnwritten DEF Wrote
  <2>2. ~LandedOn(q) BY DEF LandedOn, Settled, Locked
  <2> QED BY <1>0, <2>1, <2>2, RowEffect
<1>2. ~Running(q)' BY <1>1 DEF Settled, Running
<1>3. \A t \in wire' : q \notin DOMAIN t.rows
  <2>1. \A t \in wire : q \notin DOMAIN t.rows BY DEF Settled, Locked
  <2>2. \A t \in Sent(p) : q \notin DOMAIN t.rows BY SentFacts, SettledUnwritten
  <2> QED BY <2>1, <2>2, WireEffect DEF Posts
<1>4. ASSUME NEW x \in Process, pc'[x] = "stamp" PROVE q \notin stale'[x]
  <2>1. CASE x # p BY <1>4, <2>1, OthersStay DEF Settled
  <2>2. CASE x = p
    <3>1. CASE SelectStale(p)
      <4>1. stale'[p] = LooksInterrupted BY <1>0, <3>1 DEF SelectStale
      <4> QED BY <2>2, <4>1 DEF LooksInterrupted, Settled
    <3>2. CASE Rests(p) BY <1>4, <2>2, <3>2 DEF Rests, Keeps, Settled
    <3>3. ~Insert(p) /\ ~CountBefore(p) /\ ~Count(p) /\ ~CountFails(p)
      BY <1>0, <1>4, <2>2 DEF Insert, CountBefore, Count, CountFails, To
    <3> QED BY <1>4, <2>2, <3>1, <3>2, <3>3, AllMove
            DEF Moves, Enters, Leaves, Dies, Passes, Onward, Advances, EndsRun, Scraping
  <2> QED BY <2>1, <2>2
<1>5. ASSUME NEW w \in Worker, pc'[w] \in Scraping PROVE mine'[w] # q
  <2>0. pc[w] \in Scraping => mine[w] # q BY DEF Settled
  <2>1. CASE w # p BY <1>5, <2>0, <2>1, OthersStay DEF Process
  <2>2. CASE w = p
    <3>1. CASE Insert(p)
      <4>1. mine'[p] = started + 1 BY <1>0, <2>2, <3>1 DEF Insert
      <4> QED BY <1>0, <2>2, <4>1
    <3>2. CASE Rests(p) \/ Advances(p)
      BY <1>5, <2>0, <2>2, <3>2 DEF Rests, Advances, Keeps
    <3>3. CASE CountBefore(p) \/ Count(p) \/ CountFails(p)
      BY <2>0, <2>2, <3>3 DEF CountBefore, Count, CountFails, Scraping
    <3>4. ~SelectStale(p) BY <1>0, <1>5, <2>2 DEF SelectStale, To, Onward, Scraping
    <3> QED BY <1>5, <2>2, <3>1, <3>2, <3>3, <3>4, AllMove
            DEF Moves, Enters, Leaves, Dies, Passes, Onward, EndsRun, Scraping
  <2> QED BY <2>1, <2>2
<1> QED BY <1>1, <1>2, <1>3, <1>4, <1>5 DEF Settled, Locked

\* When a number is taken with nothing behind, all rows before are settled.
LEMMA AllBeforeSettled ==
  ASSUME StateOK, HeldInside, EarlierSettled, NEW p \in Process, StepOf(p), behind' = {},
         NEW q \in 1..(started' - 1)
  PROVE  q \in 1..started /\ Settled(q)
<1>0. started \in Nat /\ started' \in Nat BY StartedType
<1>1. CASE started' = started BY <1>0, <1>1 DEF EarlierSettled
<1>2. CASE started' # started
  <2>1. /\ pc[p] = "insert" /\ started' = started + 1
        /\ behind' = behind \cup {r \in Run : Running(r) \/ r \in Locked}
    BY <1>2, StartedEffect
  <2>2. q \in 1..started /\ q \in Run
    BY <1>0, <2>1, RunsAssumption DEF StateOK, TypeOK, Run
  <2>3. ~Running(q) /\ q \notin Locked BY <2>1, <2>2
  <2>4. lock = p BY <2>1 DEF HeldInside, Inside
  <2>5. \A x \in Process : pc[x] \in Inside => x = p BY <2>4 DEF HeldInside
  <2>6. \A x \in Process : pc[x] # "stamp" BY <2>1, <2>5 DEF Inside
  <2>7. \A w \in Worker : pc[w] \notin Scraping
    <3>1. "insert" \notin Scraping BY DEF Scraping
    <3> QED BY <2>1, <2>5, <3>1 DEF Inside, Process
  <2> QED BY <2>2, <2>3, <2>6, <2>7 DEF Settled
<1> QED BY <1>1, <1>2

\* A baseline is what it is by the rows before.
LEMMA BeforeKept ==
  ASSUME StateOK, StateOK', NEW r, \A q \in Run : q < r => rows'[q] = rows[q]
  PROVE  Before(r)' = Before(r) /\ Before(r) \in Counts /\ Possible(Before(r))
<1> DEFINE done == {q \in Ended : q < r}
<1>1. done \in SUBSET Run /\ done \ {r} \subseteq done BY DEF Ended
<1>2. done' = done BY DEF Ended, Finished
<1>3. \A q \in done : q \in Run /\ rows'[q] = rows[q] BY <1>1 DEF Ended
<1> HIDE DEF done
<1>4. Latest(r, done)' = Latest(r, done) BY <1>2 DEF Latest
<1>5. Prior(r, done)' = Prior(r, done)
  <2>1. CASE done \ {r} = {} BY <1>2, <2>1 DEF Prior
  <2>2. CASE done \ {r} # {}
    <3>1. Latest(r, done) \in done BY <1>1, <2>2, LatestIsOne
    <3> QED BY <1>2, <1>3, <1>4, <2>2, <3>1 DEF Prior
  <2> QED BY <2>1, <2>2
<1>6. Prior(r, done) \in Counts /\ Possible(Prior(r, done)) BY <1>1, PriorFacts DEF StateOK
<1> QED BY <1>5, <1>6 DEF Before, done

\* The last run is counted over the run before.
LEMMA PriorIsBefore ==
  ASSUME StateOK
  PROVE  Prior(started, Ended) = Before(started)
<1> DEFINE done == {q \in Ended : q < started}
<1>1. started \in Nat /\ \A q \in Run : q > started => rows[q] = NoRow
  BY RunsAssumption DEF StateOK, TypeOK
<1>2. \A q \in Ended : q \in Run /\ q \in Nat /\ ~(q > started)
  BY <1>1, RunsAssumption, CountFacts DEF Ended, Finished, Run
<1>3. Ended \ {started} = done \ {started} BY <1>1, <1>2
<1> HIDE DEF done
<1>4. Latest(started, Ended) = Latest(started, done) BY <1>3 DEF Latest
<1>5. Prior(started, Ended) = Prior(started, done) BY <1>3, <1>4 DEF Prior
<1> QED BY <1>5 DEF Before, done

\* A count of now adds up: what is there now came after, or was there then.
LEMMA NowAddsUp ==
  ASSUME StateOK, NEW r, NEW c, c.total = entries, c.at = made,
         c.new = IF c.from = "count" THEN Over(c.total, Before(r).total) ELSE 0
  PROVE  AddsUp(r, c)
<1>1. Before(r) \in Counts /\ Possible(Before(r))
  <2>1. {q \in Ended : q < r} \in SUBSET Run BY DEF Ended
  <2> QED BY <2>1, PriorFacts DEF StateOK, Before
<1>2. Before(r).total \in Nat /\ Before(r).at \in Nat BY <1>1, CountsFields
<1>3. entries \in Nat /\ made \in Nat BY RunsAssumption DEF StateOK, TypeOK
<1> QED BY <1>1, <1>2, <1>3 DEF AddsUp, Possible

LEMMA CountedAddsUp ==
  ASSUME StateOK
  PROVE  AddsUp(started, Counted(started))
<1>1. Ended \in SUBSET Run BY DEF Ended
<1>2. Prior(started, Ended).total \in 0..MaxEntries
  BY <1>1, PriorFacts, CountsFields DEF StateOK
<1>3. Counted(started) = CountOver(Before(started).total) BY PriorIsBefore DEF Counted
<1>4. Before(started).total \in 0..MaxEntries BY <1>2, PriorIsBefore
<1> QED BY <1>3, <1>4, CountOverFacts, NowAddsUp DEF StateOK

LEMMA NoCountAddsUp == ASSUME NEW r PROVE AddsUp(r, NoCount)
BY CountFacts DEF AddsUp

\* What is written into a row adds up.
LEMMA WriteAddsUp ==
  ASSUME StateOK, EarlierSettled, CountsAddUp, NEW p \in Process, NEW r, NEW row, NEW u,
         Writes(p, r, row, u)
  PROVE  AddsUp(r, row.counts)
<1>0. started \in Nat BY RunsAssumption DEF StateOK, TypeOK
<1>1. CASE pc[p] = "insert" BY <1>1, WriteFacts, NoCountAddsUp
<1>2. CASE pc[p] = "stamp"
  <2>1. r \in stale[p] /\ stale[p] \subseteq 1..started BY <1>2 DEF Writes, StateOK, RowsOK
  <2>2. \A q \in 1..(started - 1) : q \notin stale[p] BY <1>2 DEF EarlierSettled, Settled
  <2>3. stale[p] \subseteq {r} /\ r = started BY <1>0, <2>1, <2>2
  <2>4. PICK place \in Orders(stale[p]) : row = Interrupted(p, u, place)[r]
    BY <1>2 DEF Writes
  <2>5. CASE r \in u
    <3>1. row.counts = rows[r].counts BY <2>1, <2>4, <2>5, InterruptedFacts DEF StateOK
    <3> QED BY <2>1, <3>1 DEF CountsAddUp
  <2>6. CASE r \notin u
    <3>1. row.counts = Counted(r)
      BY <2>1, <2>3, <2>4, <2>6, InterruptedLast DEF StateOK
    <3> QED BY <2>3, <3>1, CountedAddsUp
  <2> QED BY <2>5, <2>6
<1>3. CASE pc[p] = "checkpoint"
  <2>1. p \in Worker /\ pc[p] \in Scraping BY <1>3, OwnRow DEF Scraping
  <2>2. r = mine[p] /\ row = [status |-> "running", counts |-> Counted(r)]
    BY <1>3 DEF Writes
  <2>3. r = started /\ row.counts = Counted(r) BY <2>1, <2>2, MineIsLast
  <2> QED BY <2>3, CountedAddsUp
<1>4. CASE pc[p] \in {"completed", "failed"}
  <2>1. p \in Worker /\ pc[p] \in Scraping BY <1>4, OwnRow DEF Scraping
  <2>2. r = mine[p] /\ row = [status |-> pc[p], counts |-> result[p]] BY <1>4 DEF Writes
  <2>3. row.counts = result[p] BY <2>2
  <2> QED BY <1>4, <2>1, <2>2, <2>3 DEF CountsAddUp
<1> QED BY <1>1, <1>2, <1>3, <1>4, WriteFacts

\* What a worker knows of the entries before it and of its own adds up.
LEMMA WorkerAddsUp ==
  ASSUME StateOK, EarlierSettled, CountsAddUp, NEW p \in Process, StepOf(p),
         NEW w \in Worker, pc'[w] \in Scraping
  PROVE  /\ AddsUp(mine'[w], before'[w])
         /\ pc'[w] \in {"completed", "failed"} => AddsUp(mine'[w], result'[w])
<1>0. /\ DOMAIN pc = Process /\ DOMAIN mine = Worker /\ DOMAIN before = Worker
      /\ DOMAIN result = Worker
  BY DEF StateOK, TypeOK
<1>1. pc[w] \in Scraping =>
        /\ AddsUp(mine[w], before[w])
        /\ pc[w] \in {"completed", "failed"} => AddsUp(mine[w], result[w])
  BY DEF CountsAddUp
<1>2. CASE w # p
  <2>1. pc'[w] = pc[w] /\ mine'[w] = mine[w] /\ before'[w] = before[w] /\ result'[w] = result[w]
    BY <1>2, OthersStay DEF Process
  <2> QED BY <1>1, <2>1
<1>3. CASE w = p
  <2>1. CASE Rests(p)
    <3>1. pc'[w] = pc[w] /\ mine'[w] = mine[w] /\ before'[w] = before[w] /\ result'[w] = result[w]
      BY <1>3, <2>1 DEF Rests, Keeps
    <3> QED BY <1>1, <3>1
  <2>2. CASE Advances(p)
    <3>1. /\ pc[w] \in Scraping /\ pc'[w] \notin {"completed", "failed"}
          /\ mine'[w] = mine[w] /\ before'[w] = before[w]
      BY <1>3, <2>2 DEF Advances, Keeps
    <3> QED BY <1>1, <3>1
  <2>3. CASE Insert(p)
    <3>1. pc'[w] = "baseline" /\ before'[w] = before[w] /\ pc[w] = "insert"
      BY <1>0, <1>3, <2>3 DEF Insert, To
    <3>2. before[w] = NoCount BY <3>1 DEF StateOK, RowsOK, MineOK, Early
    <3> QED BY <3>1, <3>2, NoCountAddsUp
  <2>4. CASE CountBefore(p)
    <3> DEFINE c == [total |-> entries, new |-> 0, at |-> made, from |-> "before"]
    <3>1. pc'[w] = "start" /\ before'[w] = c /\ mine'[w] = mine[w]
      BY <1>0, <1>3, <2>4 DEF CountBefore, To
    <3>2. c.total = entries /\ c.at = made /\ c.new = 0 /\ c.from = "before" OBVIOUS
    <3> HIDE DEF c
    <3>3. AddsUp(mine[w], c) BY <3>2, NowAddsUp
    <3> QED BY <3>1, <3>3
  <2>5. CASE Count(p)
    <3>1. /\ pc[w] \in Scraping /\ mine'[w] = mine[w] /\ before'[w] = before[w]
          /\ result'[w] = Counted(mine[w])
      BY <1>0, <1>3, <2>5 DEF Count, Scraping
    <3>2. mine[w] = started BY <3>1, MineIsLast
    <3> QED BY <1>1, <3>1, <3>2, CountedAddsUp
  <2>6. CASE CountFails(p)
    <3>1. /\ pc[w] \in Scraping /\ mine'[w] = mine[w] /\ before'[w] = before[w]
          /\ result'[w] = before[w]
      BY <1>0, <1>3, <2>6 DEF CountFails, Scraping
    <3> QED BY <1>1, <3>1
  <2>7. ~SelectStale(p) BY <1>0, <1>3 DEF SelectStale, To, Onward, Scraping
  <2>8. ~Enters(p) /\ ~Leaves(p) /\ ~Dies(p) /\ ~Passes(p) /\ ~EndsRun(p)
    BY <1>3 DEF Enters, Leaves, Dies, Passes, Onward, EndsRun, Scraping
  <2> QED BY <2>1, <2>2, <2>3, <2>4, <2>5, <2>6, <2>7, <2>8, AllMove DEF Moves
<1> QED BY <1>2, <1>3

LEMMA SerialStep ==
  ASSUME StateOK, StateOK', HeldInside, SerialOK, NEW p \in Process, StepOf(p), behind' = {}
  PROVE  SerialOK'
<1>0. started \in Nat /\ started' \in Nat /\ started <= started' BY StartedType
<1>1. EarlierSettled /\ CountsAddUp BY DEF SerialOK, EarlierSettled
<1>2. ASSUME NEW q \in 1..(started' - 1) PROVE rows'[q] = rows[q] /\ Settled(q)'
  BY <1>1, AllBeforeSettled, SettledStays
<1>3. ASSUME NEW r \in 1..started', NEW c PROVE AddsUp(r, c) => AddsUp(r, c)'
  <2>1. \A q \in Run : q < r => rows'[q] = rows[q]
    <3> DEFINE n == started'
    <3>1. \A q \in Run : q < r => q \in 1..(n - 1)
      <4>1. n \in Nat /\ r \in 1..n BY <1>0
      <4> HIDE DEF n
      <4> QED BY <4>1, RunsAssumption DEF Run
    <3> QED BY <1>2, <3>1
  <2>2. Before(r)' = Before(r) BY <2>1, BeforeKept
  <2> QED BY <2>2 DEF AddsUp
<1>4. \A r \in 1..started : r \in 1..started' BY <1>0
<1>5. ASSUME NEW r \in 1..started' PROVE AddsUp(r, rows'[r].counts)
  <2>0. r \in Run /\ r \in Nat BY <1>0, StartedType, RunsAssumption DEF Run
  <2>1. CASE rows'[r] = rows[r]
    <3>1. CASE r \in 1..started BY <1>1, <2>1, <3>1 DEF CountsAddUp
    <3>2. CASE r \notin 1..started
      <4>1. r > started BY <1>0, <2>0, <3>2
      <4>2. rows[r] = NoRow BY <2>0, <4>1 DEF StateOK, TypeOK
      <4> QED BY <2>1, <4>2, CountFacts, NoCountAddsUp
    <3> QED BY <3>1, <3>2
  <2>2. CASE Wrote(p, r) BY <1>1, <2>2, WriteAddsUp DEF Wrote
  <2>3. CASE LandedOn(r) BY <1>1, <2>3 DEF LandedOn, CountsAddUp
  <2> QED BY <2>0, <2>1, <2>2, <2>3, RowEffect
<1>6. ASSUME NEW t \in wire', NEW r \in DOMAIN t.rows
      PROVE  AddsUp(r, t.rows[r].counts) /\ r \in 1..started'
  <2>0. RowsOK' BY DEF StateOK
  <2>1. r \in 1..started' BY <2>0 DEF RowsOK
  <2>2. CASE t \in wire BY <1>1, <2>1, <2>2 DEF CountsAddUp
  <2>3. CASE t \in Sent(p) BY <1>1, <2>1, <2>3, SentFacts, WriteAddsUp
  <2> QED BY <2>1, <2>2, <2>3, WireEffect DEF Posts
<1>7. ASSUME NEW w \in Worker, pc'[w] \in Scraping
      PROVE  /\ mine'[w] \in 1..started' /\ AddsUp(mine'[w], before'[w])
             /\ pc'[w] \in {"completed", "failed"} => AddsUp(mine'[w], result'[w])
  <2>1. mine'[w] \in Nat /\ mine'[w] <= started' /\ mine'[w] # 0
    BY <1>7, RunsAssumption DEF StateOK, TypeOK, RowsOK, MineOK
  <2> QED BY <1>0, <1>1, <1>7, <2>1, WorkerAddsUp
<1>8. (\A r \in 1..started : AddsUp(r, rows[r].counts))' BY <1>3, <1>5
<1>9. (\A t \in wire : \A r \in DOMAIN t.rows : AddsUp(r, t.rows[r].counts))' BY <1>3, <1>6
<1>10. (\A w \in Worker : pc[w] \in Scraping =>
          /\ AddsUp(mine[w], before[w])
          /\ pc[w] \in {"completed", "failed"} => AddsUp(mine[w], result[w]))'
  BY <1>3, <1>7
<1>11. (\A q \in 1..(started - 1) : Settled(q))' BY <1>2
<1> QED BY <1>8, <1>9, <1>10, <1>11 DEF SerialOK, CountsAddUp

-----------------------------------------------------------------------------
(* The invariant holds, and what follows from it.                          *)

LEMMA InvStep == IInv /\ [Next]_vars => IInv'
<1> SUFFICES ASSUME IInv, [Next]_vars PROVE IInv' OBVIOUS
<1>1. CASE Next
  <2>0. StateOK /\ (\A w \in Worker : LateOK(w)) /\ FaultlessOK BY DEF IInv
  <2>1. PICK p \in Process : StepOf(p) BY <1>1, EveryStep
  <2>2. StateOK'
    BY <2>0, <2>1, TypeStep, PlacesStep, PendingStep, RowsStep, CountsStep DEF StateOK
  <2>3. \A w \in Worker : LateOK(w)' BY <2>0, <2>1, LateStep
  <2>4. FaultlessOK' BY <2>0, <2>1, FaultlessStep
  <2>5. ASSUME losses' = 0
        PROVE  (HeldInside /\ OwnersOK /\ (behind = {} => SerialOK))'
    <3>1. losses = 0 /\ ~LoseLock(p)
      <4>1. losses \in Nat BY <2>0, RunsAssumption DEF StateOK, TypeOK
      <4>2. LoseLock(p) => losses' = losses + 1 BY DEF LoseLock
      <4> QED BY <2>0, <2>1, <2>5, <4>1, <4>2, BoundsEffect
    <3>2. HeldInside /\ OwnersOK /\ (behind = {} => SerialOK) BY <3>1 DEF IInv
    <3>3. HeldInside' BY <2>0, <2>1, <3>1, <3>2, HeldStep
    <3>4. OwnersOK' BY <2>0, <2>1, <3>2, OwnersStep
    <3>5. behind' = {} => behind = {} BY <2>0, <2>1, StartedEffect
    <3>6. behind' = {} => SerialOK' BY <2>0, <2>1, <2>2, <3>2, <3>5, SerialStep
    <3> QED BY <3>3, <3>4, <3>6
  <2> QED BY <2>2, <2>3, <2>4, <2>5 DEF IInv
<1>2. CASE UNCHANGED vars
  <2> USE <1>2 DEF vars, database, local, history, bounds
  <2>0. StateOK /\ (\A w \in Worker : LateOK(w)) /\ FaultlessOK BY DEF IInv
  <2>1. TypeOK' BY <2>0 DEF StateOK, TypeOK
  <2>2. PlacesOK' BY <2>0 DEF StateOK, PlacesOK
  <2>3. PendingOK'
    <3>1. Pending' = Pending BY DEF Pending
    <3> QED BY <2>0, <3>1 DEF StateOK, PendingOK
  <2>4. RowsOK' BY <2>0 DEF StateOK, RowsOK, MineOK
  <2>5. CountsOK' BY <2>0 DEF StateOK, CountsOK, Possible
  <2>6. \A w \in Worker : LateOK(w)' BY <2>0 DEF LateOK
  <2>7. FaultlessOK' BY <2>0 DEF FaultlessOK
  <2>8. ASSUME losses' = 0
        PROVE  (HeldInside /\ OwnersOK /\ (behind = {} => SerialOK))'
    <3>1. HeldInside /\ OwnersOK /\ (behind = {} => SerialOK) BY <2>8 DEF IInv
    <3>2. HeldInside' BY <3>1 DEF HeldInside
    <3>3. OwnersOK' BY <3>1 DEF OwnersOK, Running, Finished
    <3>4. ASSUME NEW q PROVE Settled(q) => Settled(q)' BY DEF Settled, Running, Locked
    <3>5. ASSUME NEW r, NEW c PROVE AddsUp(r, c) => AddsUp(r, c)'
      BY DEF AddsUp, Before, Prior, Latest, Ended, Finished
    <3>6. SerialOK => SerialOK' BY <3>4, <3>5 DEF SerialOK, CountsAddUp
    <3> QED BY <3>1, <3>2, <3>3, <3>6
  <2>9. StateOK' BY <2>1, <2>2, <2>3, <2>4, <2>5 DEF StateOK
  <2> QED BY <2>6, <2>7, <2>8, <2>9 DEF IInv
<1> QED BY <1>1, <1>2

LEMMA Invariance == Spec => []IInv
BY InvInit, InvStep, PTL DEF Spec

\* The state keeps its type, and rows exist in the order they were started.
THEOREM TypeCorrect == Spec => []TypeOK
<1>1. IInv => TypeOK BY DEF IInv, StateOK
<1> QED BY <1>1, Invariance, PTL

\* A worker without its lock commits one batch at most: the one whose fence it had passed
\* when the lock went (orchestrator.py:705-717).
THEOREM OneLateBatchOnly == Spec => []OneLateBatch
<1>1. IInv => OneLateBatch
  <2> SUFFICES ASSUME IInv, NEW w \in Worker PROVE late[w] <= 1 BY DEF OneLateBatch
  <2>1. LateOK(w) /\ late[w] \in Nat BY DEF IInv, StateOK, TypeOK
  <2> QED BY <2>1 DEF LateOK
<1> QED BY <1>1, Invariance, PTL

\* Where each run is settled before the next begins, the new entries of a run are those its
\* total has over the total of the run before, and no more than were committed in between,
\* with purges, failing counts and late COMMITs; without a failure every run is counted
\* (orchestrator.py:389-393, 754-757).
THEOREM NewEntriesAreCountedOnce == Spec => []NewEntriesAddUp
<1>1. IInv => NewEntriesAddUp
  <2> SUFFICES ASSUME IInv, losses = 0, behind = {}, NEW r \in Ended
               PROVE  LET c == rows[r].counts
                          b == Prior(r, {q \in Ended : q < r}) IN
                      /\ c.new = IF c.from = "count" THEN Over(c.total, b.total) ELSE 0
                      /\ "none" \notin {c.from, b.from} => c.at >= b.at /\ c.new <= c.at - b.at
                      /\ faults = 0 => c.from = "count"
    BY DEF NewEntriesAddUp
  <2> DEFINE c == rows[r].counts
             b == Before(r)
  <2>0. StateOK /\ FaultlessOK /\ CountsAddUp BY DEF IInv, SerialOK
  <2>1. r \in Run /\ Finished(r) BY DEF Ended
  <2>2. r \in 1..started
    <3>1. rows[r] # NoRow BY <2>1, CountFacts DEF Finished
    <3>2. ~(r > started) BY <2>0, <2>1, <3>1 DEF StateOK, TypeOK
    <3>3. started \in Nat /\ r \in 1..MaxRuns
      BY <2>0, <2>1, RunsAssumption DEF StateOK, TypeOK, Run
    <3> QED BY <3>2, <3>3, RunsAssumption
  <2>3. AddsUp(r, c) BY <2>0, <2>2 DEF CountsAddUp
  <2>4. c \in Counts /\ b \in Counts
    <3>1. {q \in Ended : q < r} \in SUBSET Run BY DEF Ended
    <3>2. b \in Counts BY <2>0, <3>1, PriorFacts DEF StateOK, Before
    <3> QED BY <2>0, <2>1, <3>2 DEF StateOK, TypeOK, Row
  <2>5. faults = 0 => c.from = "count"
    BY <2>0, <2>1 DEF FaultlessOK, CountedIfOver, Finished
  <2> HIDE DEF c, b
  <2>6. /\ c.new = IF c.from = "count" THEN Over(c.total, b.total) ELSE 0
        /\ "none" \notin {c.from, b.from} => c.at >= b.at /\ c.total + b.at <= c.at + b.total
    BY <2>3 DEF AddsUp, b
  <2>7. c.total \in Nat /\ b.total \in Nat /\ c.at \in Nat /\ b.at \in Nat
    BY <2>4, CountsFields
  <2>8. "none" \notin {c.from, b.from} => c.at >= b.at /\ c.new <= c.at - b.at
    BY <2>6, <2>7 DEF Over
  <2> QED BY <2>5, <2>6, <2>8 DEF c, b, Before
<1> QED BY <1>1, Invariance, PTL

\* A row that is over stays as it is, unless its end landed behind its process's back.
LEMMA OverStays ==
  ASSUME StateOK, OwnersOK, NEW p \in Process, StepOf(p), NEW r \in Run, Finished(r)
  PROVE  rows'[r] = rows[r] \/ (r \in landed /\ rows'[r].status = "failed")
<1>0. started \in Nat /\ ~Running(r) /\ rows[r] # NoRow /\ r \in Nat
  BY RunsAssumption, CountFacts DEF StateOK, TypeOK, Finished, Running, Run
<1>1. CASE LandedOn(r) BY <1>1 DEF LandedOn, OwnersOK
<1>2. CASE Wrote(p, r)
  <2>1. PICK u : Writes(p, r, rows'[r], u) BY <1>2 DEF Wrote
  <2>2. pc[p] # "insert"
    <3>1. pc[p] = "insert" => r > started BY <1>0, <2>1, WriteFacts
    <3> QED BY <1>0, <3>1 DEF StateOK, TypeOK
  <2>3. pc[p] # "checkpoint" BY <1>0, <2>1, WriteFacts
  <2>4. CASE pc[p] = "stamp" BY <1>0, <2>1, <2>4, WriteFacts DEF OwnersOK
  <2>5. CASE pc[p] \in {"completed", "failed"}
    <3>1. p \in Worker /\ pc[p] \in Scraping BY <2>5, OwnRow DEF Scraping
    <3>2. r = mine[p] /\ rows'[r].status = pc[p] BY <2>1, <2>5, WriteFacts
    <3>3. mine[p] \in landed /\ pc[p] \in {"fail", "failed"}
      BY <1>0, <3>1, <3>2 DEF OwnersOK
    <3> QED BY <2>5, <3>2, <3>3
  <2> QED BY <2>1, <2>2, <2>3, <2>4, <2>5, WriteFacts
<1> QED BY <1>1, <1>2, RowEffect

\* A running row of a live worker is ended by that worker, or by its COMMIT on the way.
LEMMA EndsOwnRow ==
  ASSUME StateOK, HeldInside, OwnersOK, NEW p \in Process, StepOf(p), NEW w \in Worker,
         Alive(w), mine[w] # 0, Running(mine[w]), rows'[mine[w]].status # "running"
  PROVE  \/ pc[w] \in {"completed", "failed"} /\ pc'[w] = "release"
         \/ \E t \in wire \ wire' : t.by = w
<1>1. w \in Process /\ mine[w] \in Run
  BY RunsAssumption DEF StateOK, TypeOK, Process, Run
<1>2. pc[w] \in Inside /\ pc[w] \notin Early
  BY <1>1 DEF StateOK, TypeOK, RowsOK, MineOK, Alive, Inside, Scraping, Early
<1>3. CASE LandedOn(mine[w])
  <2>1. PICK t \in wire : Land(t) /\ mine[w] \in DOMAIN t.rows BY <1>3 DEF LandedOn
  <2>2. t.by = w BY <1>2, <2>1 DEF OwnersOK
  <2> QED BY <2>1, <2>2 DEF Land
<1>4. CASE Wrote(p, mine[w])
  <2>1. w = p BY <1>1, <1>2, <1>4, WriterHolds
  <2>2. PICK u : Writes(p, mine[w], rows'[mine[w]], u) BY <1>4 DEF Wrote
  <2>3. pc[p] \in {"completed", "failed"}
    BY <1>2, <2>1, <2>2, WriteFacts DEF Early
  <2> QED BY <1>4, <2>1, <2>3 DEF Wrote, Passed
<1>5. rows'[mine[w]] # rows[mine[w]] BY DEF Running
<1> QED BY <1>1, <1>3, <1>4, <1>5, RowEffect

\* While no lock session is lost, a live worker's row is ended by that worker
\* (orchestrator.py:210-221), and no late write by run_id meets a row that is over (774):
\* only a row whose end was committed behind its process's back is marked as failed.
THEOREM RowsEndedByTheirOwner == Spec => EndedByItsOwner
<1> DEFINE Owned == losses = 0 =>
             /\ \A r \in Ended : \/ rows'[r] = rows[r]
                                 \/ r \in landed /\ rows'[r].status = "failed"
             /\ \A w \in Worker :
                  Alive(w) /\ mine[w] # 0 /\ Running(mine[w]) /\ rows'[mine[w]].status # "running"
                    => \/ pc[w] \in {"completed", "failed"} /\ pc'[w] = "release"
                       \/ \E t \in wire \ wire' : t.by = w
<1>1. ASSUME IInv, Next PROVE Owned
  <2> SUFFICES ASSUME losses = 0
        PROVE /\ \A r \in Ended : \/ rows'[r] = rows[r]
                                  \/ r \in landed /\ rows'[r].status = "failed"
              /\ \A w \in Worker :
                  Alive(w) /\ mine[w] # 0 /\ Running(mine[w]) /\ rows'[mine[w]].status # "running"
                    => \/ pc[w] \in {"completed", "failed"} /\ pc'[w] = "release"
                       \/ \E t \in wire \ wire' : t.by = w
    OBVIOUS
  <2>0. StateOK /\ HeldInside /\ OwnersOK BY <1>1 DEF IInv
  <2>1. PICK p \in Process : StepOf(p) BY <1>1, EveryStep
  <2>2. \A r \in Ended : rows'[r] = rows[r] \/ (r \in landed /\ rows'[r].status = "failed")
    BY <2>0, <2>1, OverStays DEF Ended
  <2> QED BY <2>0, <2>1, <2>2, EndsOwnRow
<1>2. IInv /\ [Next]_vars => [Owned]_vars BY <1>1
<1>3. [][Owned]_vars <=> EndedByItsOwner BY DEF EndedByItsOwner
<1> QED BY <1>2, <1>3, Invariance, PTL DEF Spec

-----------------------------------------------------------------------------
(* The rows that the runs of different scrapers share (EntityUpserts).  A   *)
(* transaction refers to committed rows and its own; what it has of the     *)
(* lot at hand answers the calls of that lot one by one, and every lot      *)
(* before it is saved, so that its commit leaves only whole lots.           *)

-----------------------------------------------------------------------------
(* Their inductive invariant.                                              *)

Steps == {"idle", "find", "insert", "again", "update", "save", "done", "failed"}
InRun(s) == step[s] \notin {"idle", "done", "failed"}

\* The rows a transaction sees of those that may be referred to.
Stored(s) == table \cup own[s]

\* Rows of a set, each of the call at its place.
Answers(q, calls, S) ==
    /\ q \in Seq(Rows) /\ Len(q) <= Len(calls)
    /\ \A n \in 1..Len(q) : q[n] \in S /\ Same(q[n], calls[n])

UpsertShape ==
    /\ table \subseteq Rows /\ DOMAIN source \subseteq table
    /\ own \in [Scrapers -> SUBSET Rows] /\ touched \in [Scrapers -> SUBSET Rows]
    /\ DOMAIN unsaved = Scrapers
    /\ refs \in [Scrapers -> Seq(Rows)]
    /\ at \in [Scrapers -> Nat] /\ step \in [Scrapers -> Steps] /\ runs \in [Scrapers -> 0..Runs]

\* Where a run is in its lot, and what it has of it.
LotOK(s) ==
    /\ at[s] \in 1..Len(Plan(s))
    /\ Answers(refs[s], Lot(s), Stored(s))
    /\ touched[s] \subseteq Stored(s)
    /\ step[s] \in {"find", "insert", "again"} => Len(refs[s]) < Len(Lot(s))
    /\ step[s] = "update" => refs[s] # <<>>
    /\ step[s] = "save" => Len(refs[s]) = Len(Lot(s))
    /\ ~InRun(s) => refs[s] = <<>>
    /\ InRun(s) => runs[s] # 0

\* The lots it has saved are whole, and those it has left behind are saved.
LotsBehindOK(s) ==
    /\ \A x \in DOMAIN unsaved[s] :
         /\ x \in {s} \X DOMAIN Plan(s)
         /\ Answers(unsaved[s][x], Plan(s)[x[2]], Stored(s))
         /\ Len(unsaved[s][x]) = Len(Plan(s)[x[2]])
    /\ InRun(s) => \A i \in 1..(at[s] - 1) : <<s, i>> \in DOMAIN lots \cup DOMAIN unsaved[s]
    /\ step[s] = "done" => \A i \in DOMAIN Plan(s) : <<s, i>> \in DOMAIN lots

LotsOK ==
    \A x \in DOMAIN lots :
        /\ x \in Scrapers \X Nat /\ x[2] \in DOMAIN Plan(x[1])
        /\ Answers(lots[x], Plan(x[1])[x[2]], table)
        /\ Len(lots[x]) = Len(Plan(x[1])[x[2]])

UInv == UpsertShape /\ LotsOK /\ \A s \in Scrapers : LotOK(s) /\ LotsBehindOK(s)

-----------------------------------------------------------------------------
(* Plans and answers.                                                      *)

LEMMA PlansAre ==
  ASSUME NEW s \in Scrapers
  PROVE  /\ Len(Plan(s)) \in Nat \ {0} /\ DOMAIN Plan(s) = 1..Len(Plan(s))
         /\ \A i \in 1..Len(Plan(s)) :
              /\ Plan(s)[i] \in Seq([kind : Kinds, name : Names])
              /\ Len(Plan(s)[i]) \in Nat /\ DOMAIN Plan(s)[i] = 1..Len(Plan(s)[i])
              /\ \A n \in 1..Len(Plan(s)[i]) : Plan(s)[i][n] \in [kind : Kinds, name : Names]
<1> DEFINE C == [kind : Kinds, name : Names]
           lotsOf == Plan(s)
<1>1. lotsOf \in Seq(Seq(C)) /\ lotsOf # <<>>
  BY PlanAssumption
<1> HIDE DEF C, lotsOf
<1>2. Len(lotsOf) \in Nat \ {0} /\ DOMAIN lotsOf = 1..Len(lotsOf)
  BY <1>1
<1>3. ASSUME NEW i \in 1..Len(lotsOf)
      PROVE  /\ lotsOf[i] \in Seq(C)
             /\ Len(lotsOf[i]) \in Nat /\ DOMAIN lotsOf[i] = 1..Len(lotsOf[i])
             /\ \A n \in 1..Len(lotsOf[i]) : lotsOf[i][n] \in C
  <2>1. lotsOf[i] \in Seq(C)
    BY <1>1, <1>3
  <2> QED BY <2>1
<1> QED BY <1>2, <1>3 DEF C, lotsOf

\* More rows to choose from, the same answers.
LEMMA AnswersGrow ==
  ASSUME NEW q, NEW calls, NEW S, NEW T, S \subseteq T, Answers(q, calls, S)
  PROVE  Answers(q, calls, T)
BY DEF Answers

LEMMA AnswersNone ==
  ASSUME NEW calls, NEW S, Len(calls) \in Nat
  PROVE  Answers(<<>>, calls, S)
BY DEF Answers

\* The next call of a lot is answered.
LEMMA AnswersAppend ==
  ASSUME NEW q, NEW calls, NEW S, Answers(q, calls, S), Len(calls) \in Nat, Len(q) < Len(calls),
         NEW r \in Rows, r \in S, Same(r, calls[Len(q) + 1])
  PROVE  Answers(Append(q, r), calls, S) /\ Len(Append(q, r)) = Len(q) + 1 /\ Append(q, r) # <<>>
<1>1. q \in Seq(Rows) /\ Len(q) \in Nat /\ \A n \in 1..Len(q) : q[n] \in S /\ Same(q[n], calls[n])
  BY DEF Answers
<1> DEFINE p == Append(q, r)
<1>2. /\ p \in Seq(Rows) /\ Len(p) = Len(q) + 1 /\ p # <<>> /\ p[Len(q) + 1] = r
      /\ \A n \in 1..Len(q) : p[n] = q[n]
  BY <1>1
<1> HIDE DEF p
<1>3. ASSUME NEW n \in 1..Len(p) PROVE p[n] \in S /\ Same(p[n], calls[n])
  <2>1. CASE n = Len(q) + 1
    BY <1>2, <2>1
  <2>2. CASE n # Len(q) + 1
    <3>1. n \in 1..Len(q)
      BY <1>1, <1>2, <1>3, <2>2
    <3>2. p[n] = q[n] /\ q[n] \in S /\ Same(q[n], calls[n])
      BY <1>1, <1>2, <3>1
    <3> QED BY <3>2
  <2> QED BY <2>1, <2>2
<1>4. Len(p) <= Len(calls)
  BY <1>1, <1>2
<1>5. Answers(p, calls, S)
  BY <1>2, <1>3, <1>4 DEF Answers
<1> QED BY <1>2, <1>5 DEF p

\* A run reads its lot, and the call at hand is one.
LEMMA AtLot ==
  ASSUME NEW s \in Scrapers, UpsertShape, LotOK(s)
  PROVE  /\ Lot(s) \in Seq([kind : Kinds, name : Names]) /\ Len(Lot(s)) \in Nat
         /\ refs[s] \in Seq(Rows) /\ Len(refs[s]) \in Nat /\ Len(refs[s]) <= Len(Lot(s))
         /\ Len(refs[s]) < Len(Lot(s)) => Call(s) \in [kind : Kinds, name : Names]
<1>1. at[s] \in 1..Len(Plan(s))
  BY DEF LotOK
<1>2. /\ Lot(s) \in Seq([kind : Kinds, name : Names]) /\ Len(Lot(s)) \in Nat
      /\ \A n \in 1..Len(Lot(s)) : Lot(s)[n] \in [kind : Kinds, name : Names]
  BY <1>1, PlansAre DEF Lot
<1>3. refs[s] \in Seq(Rows) /\ Len(refs[s]) \in Nat /\ Len(refs[s]) <= Len(Lot(s))
  BY DEF LotOK, Answers
<1>4. ASSUME Len(refs[s]) < Len(Lot(s)) PROVE Call(s) \in [kind : Kinds, name : Names]
  <2>1. Len(refs[s]) + 1 \in 1..Len(Lot(s))
    BY <1>2, <1>3, <1>4
  <2> QED BY <1>2, <2>1 DEF Call
<1> QED BY <1>2, <1>3, <1>4

\* What a transaction sees is of the kind of rows it may refer to.
LEMMA SeenAnswers ==
  ASSUME NEW s \in Scrapers, UpsertShape, NEW r \in Seen(s)
  PROVE  r \in Rows /\ r \in Stored(s) /\ Same(r, Call(s))
<1>1. own[s] \subseteq Rows /\ table \subseteq Rows
  BY DEF UpsertShape
<1> QED BY <1>1 DEF Seen, Stored

-----------------------------------------------------------------------------
(* One scraper's step and the others.                                      *)

\* The database only grows, and nobody else's transaction is touched.
Apart(s) ==
  /\ table \subseteq table' /\ DOMAIN lots \subseteq DOMAIN lots'
  /\ \A t \in Scrapers \ {s} :
       /\ own'[t] = own[t] /\ touched'[t] = touched[t] /\ unsaved'[t] = unsaved[t]
       /\ refs'[t] = refs[t] /\ at'[t] = at[t] /\ step'[t] = step[t] /\ runs'[t] = runs[t]

LEMMA OthersKeep ==
  ASSUME NEW s \in Scrapers, UInv, Apart(s), NEW t \in Scrapers \ {s}
  PROVE  LotOK(t)' /\ LotsBehindOK(t)'
<1>1. LotOK(t) /\ LotsBehindOK(t) /\ table \subseteq table' /\ DOMAIN lots \subseteq DOMAIN lots'
  BY DEF UInv, Apart
<1>2. /\ own'[t] = own[t] /\ touched'[t] = touched[t] /\ unsaved'[t] = unsaved[t]
      /\ refs'[t] = refs[t] /\ at'[t] = at[t] /\ step'[t] = step[t] /\ runs'[t] = runs[t]
  BY DEF Apart
<1>3. Stored(t) \subseteq Stored(t)'
  BY <1>1, <1>2 DEF Stored
<1>4. Lot(t)' = Lot(t)
  BY <1>2 DEF Lot
<1>5. LotOK(t)'
  <2>1. Answers(refs'[t], Lot(t)', Stored(t)')
    <3>1. Answers(refs[t], Lot(t), Stored(t))
      BY <1>1 DEF LotOK
    <3> QED BY <1>2, <1>3, <1>4, <3>1, AnswersGrow
  <2>2. touched'[t] \subseteq Stored(t)'
    BY <1>1, <1>2, <1>3 DEF LotOK
  <2> QED BY <1>1, <1>2, <1>4, <2>1, <2>2 DEF LotOK, InRun
<1>6. LotsBehindOK(t)'
  <2>1. ASSUME NEW x \in DOMAIN unsaved'[t]
        PROVE  /\ x \in {t} \X DOMAIN Plan(t)
               /\ Answers(unsaved'[t][x], Plan(t)[x[2]], Stored(t)')
               /\ Len(unsaved'[t][x]) = Len(Plan(t)[x[2]])
    <3>1. /\ x \in {t} \X DOMAIN Plan(t)
          /\ Answers(unsaved[t][x], Plan(t)[x[2]], Stored(t))
          /\ Len(unsaved[t][x]) = Len(Plan(t)[x[2]])
      BY <1>1, <1>2, <2>1 DEF LotsBehindOK
    <3> QED BY <1>2, <1>3, <3>1, AnswersGrow
  <2>2. InRun(t)' => \A i \in 1..(at'[t] - 1) : <<t, i>> \in DOMAIN lots' \cup DOMAIN unsaved'[t]
    BY <1>1, <1>2 DEF LotsBehindOK, InRun
  <2>3. step'[t] = "done" => \A i \in DOMAIN Plan(t) : <<t, i>> \in DOMAIN lots'
    BY <1>1, <1>2 DEF LotsBehindOK
  <2> QED BY <2>1, <2>2, <2>3 DEF LotsBehindOK
<1> QED BY <1>5, <1>6

\* So a step keeps the invariant when it keeps its own scraper's part.
LEMMA OneScraper ==
  ASSUME NEW s \in Scrapers, UInv, Apart(s), UpsertShape', LotsOK', LotOK(s)', LotsBehindOK(s)'
  PROVE  UInv'
BY OthersKeep DEF UInv

LEMMA LotsKeep ==
  ASSUME UInv, lots' = lots, table \subseteq table'
  PROVE  LotsOK'
<1>1. LotsOK
  BY DEF UInv
<1>2. ASSUME NEW x \in DOMAIN lots'
      PROVE  /\ x \in Scrapers \X Nat /\ x[2] \in DOMAIN Plan(x[1])
             /\ Answers(lots'[x], Plan(x[1])[x[2]], table')
             /\ Len(lots'[x]) = Len(Plan(x[1])[x[2]])
  BY <1>1, <1>2, AnswersGrow DEF LotsOK
<1> QED BY <1>2 DEF LotsOK

\* A transaction that is rolled back.
LEMMA UpsertAbort ==
  ASSUME NEW s \in Scrapers, UInv, Abort(s)
  PROVE  UInv'
<1> USE DEF Abort, Fresh
<1>1. UpsertShape /\ LotOK(s) /\ LotsBehindOK(s)
  BY DEF UInv
<1>2. /\ own' = [own EXCEPT ![s] = {}] /\ touched' = [touched EXCEPT ![s] = {}]
      /\ unsaved' = [unsaved EXCEPT ![s] = NoLots] /\ refs' = [refs EXCEPT ![s] = <<>>]
      /\ step' = [step EXCEPT ![s] = "failed"]
      /\ UNCHANGED <<table, source, lots, at, runs>>
  OBVIOUS
<1>3. /\ own'[s] = {} /\ touched'[s] = {} /\ unsaved'[s] = NoLots /\ refs'[s] = <<>>
      /\ step'[s] = "failed" /\ at'[s] = at[s]
  BY <1>1, <1>2 DEF UpsertShape
<1>4. UpsertShape'
  <2>1. table' \subseteq Rows /\ DOMAIN source' \subseteq table' /\ DOMAIN unsaved' = Scrapers
    BY <1>1, <1>2 DEF UpsertShape
  <2>2. own' \in [Scrapers -> SUBSET Rows] /\ touched' \in [Scrapers -> SUBSET Rows]
    BY <1>1, <1>2 DEF UpsertShape
  <2>3. refs' \in [Scrapers -> Seq(Rows)]
    BY <1>1, <1>2 DEF UpsertShape
  <2>4. at' \in [Scrapers -> Nat] /\ step' \in [Scrapers -> Steps]
              /\ runs' \in [Scrapers -> 0..Runs]
    BY <1>1, <1>2 DEF UpsertShape, Steps
  <2> QED BY <2>1, <2>2, <2>3, <2>4 DEF UpsertShape
<1>5. LotsOK'
  BY <1>2, LotsKeep
<1>6. LotOK(s)'
  <2>1. Len(Lot(s)') \in Nat
    BY <1>1, <1>2, AtLot DEF Lot
  <2>2. Answers(refs'[s], Lot(s)', Stored(s)')
    BY <1>3, <2>1, AnswersNone
  <2> QED BY <1>1, <1>3, <2>2 DEF LotOK, InRun
<1>7. LotsBehindOK(s)'
  BY <1>3 DEF LotsBehindOK, InRun, NoLots
<1>8. Apart(s)
  BY <1>1, <1>2 DEF Apart, UpsertShape
<1> QED BY <1>4, <1>5, <1>6, <1>7, <1>8, OneScraper

LEMMA UpsertStart ==
  ASSUME NEW s \in Scrapers, UInv, Start(s)
  PROVE  UInv'
<1> USE DEF Start
<1>1. UpsertShape /\ LotOK(s) /\ LotsBehindOK(s) /\ ~InRun(s)
  BY DEF UInv, InRun
<1>2. /\ runs' = [runs EXCEPT ![s] = @ + 1] /\ at' = [at EXCEPT ![s] = 1]
      /\ step' = [step EXCEPT ![s] = IF Lot(s)' = <<>> THEN "save" ELSE "find"]
      /\ UNCHANGED <<table, source, lots, own, touched, unsaved, refs>>
  OBVIOUS
<1>3. /\ runs'[s] = runs[s] + 1 /\ at'[s] = 1 /\ refs'[s] = <<>>
      /\ step'[s] = IF Lot(s)' = <<>> THEN "save" ELSE "find"
  BY <1>1, <1>2 DEF UpsertShape, LotOK
<1>4. UpsertShape'
  <2>1. runs[s] \in 0..Runs /\ runs[s] < Runs /\ Runs \in Nat
    BY <1>1, BoundsAssumption DEF UpsertShape
  <2>2. runs' \in [Scrapers -> 0..Runs]
    BY <1>1, <1>2, <2>1 DEF UpsertShape
  <2>3. at' \in [Scrapers -> Nat] /\ step' \in [Scrapers -> Steps]
    BY <1>1, <1>2 DEF UpsertShape, Steps
  <2> QED BY <1>1, <1>2, <2>2, <2>3 DEF UpsertShape
<1>5. LotsOK'
  BY <1>2, LotsKeep
<1>6. 1 \in 1..Len(Plan(s)) /\ Lot(s)' = Plan(s)[1]
      /\ Lot(s)' \in Seq([kind : Kinds, name : Names]) /\ Len(Lot(s)') \in Nat
  <2>1. 1 \in 1..Len(Plan(s))
    BY PlansAre
  <2>2. Plan(s)[1] \in Seq([kind : Kinds, name : Names]) /\ Len(Plan(s)[1]) \in Nat
    BY <2>1, PlansAre
  <2>3. Lot(s)' = Plan(s)[1]
    BY <1>3 DEF Lot
  <2> QED BY <2>1, <2>2, <2>3
<1>7. LotOK(s)'
  <2>1. Answers(refs'[s], Lot(s)', Stored(s)')
    BY <1>3, <1>6, AnswersNone
  <2>2. touched'[s] \subseteq Stored(s)'
    BY <1>1, <1>2 DEF LotOK, Stored
  <2>3. Len(refs'[s]) = 0 /\ (Lot(s)' # <<>> => 0 < Len(Lot(s)'))
              /\ (Lot(s)' = <<>> => Len(Lot(s)') = 0)
    BY <1>3, <1>6
  <2>4. runs'[s] # 0
    BY <1>1, <1>3 DEF UpsertShape
  <2> QED BY <1>3, <1>6, <2>1, <2>2, <2>3, <2>4 DEF LotOK, InRun
<1>8. LotsBehindOK(s)'
  <2>1. at'[s] - 1 = 0 /\ step'[s] # "done"
    BY <1>3
  <2>2. \A x \in DOMAIN unsaved'[s] :
          /\ x \in {s} \X DOMAIN Plan(s)
          /\ Answers(unsaved'[s][x], Plan(s)[x[2]], Stored(s)')
          /\ Len(unsaved'[s][x]) = Len(Plan(s)[x[2]])
    BY <1>1, <1>2 DEF LotsBehindOK, Stored
  <2> QED BY <2>1, <2>2 DEF LotsBehindOK
<1>9. Apart(s)
  BY <1>1, <1>2 DEF Apart, UpsertShape
<1> QED BY <1>4, <1>5, <1>7, <1>8, <1>9, OneScraper

\* A step that only says what comes next in the lot.
LEMMA UpsertOn ==
  ASSUME NEW s \in Scrapers, UInv, InRun(s), NEW next \in {"find", "insert", "again", "save"},
         step' = [step EXCEPT ![s] = next],
         UNCHANGED <<table, source, lots, own, unsaved, refs, at, runs>>,
         NEW U, U \subseteq Stored(s), touched' = [touched EXCEPT ![s] = U],
         next \in {"find", "insert", "again"} => Len(refs[s]) < Len(Lot(s)),
         next = "save" => Len(refs[s]) = Len(Lot(s))
  PROVE  UInv'
<1>1. UpsertShape /\ LotOK(s) /\ LotsBehindOK(s)
  BY DEF UInv
<1>2. step'[s] = next /\ touched'[s] = U
  BY <1>1 DEF UpsertShape
<1>3. UpsertShape'
  <2>1. U \subseteq Rows
    BY <1>1 DEF UpsertShape, Stored
  <2>2. step' \in [Scrapers -> Steps] /\ touched' \in [Scrapers -> SUBSET Rows]
    BY <1>1, <2>1 DEF UpsertShape, Steps
  <2> QED BY <1>1, <2>2 DEF UpsertShape
<1>4. LotsOK'
  BY LotsKeep
<1>5. LotOK(s)'
  <2>1. Lot(s)' = Lot(s) /\ Stored(s)' = Stored(s)
    BY DEF Lot, Stored
  <2> QED BY <1>1, <1>2, <2>1 DEF LotOK, InRun
<1>6. LotsBehindOK(s)'
  <2>1. \A x \in DOMAIN unsaved'[s] :
          /\ x \in {s} \X DOMAIN Plan(s)
          /\ Answers(unsaved'[s][x], Plan(s)[x[2]], Stored(s)')
          /\ Len(unsaved'[s][x]) = Len(Plan(s)[x[2]])
    BY <1>1 DEF LotsBehindOK, Stored
  <2>2. \A i \in 1..(at'[s] - 1) : <<s, i>> \in DOMAIN lots' \cup DOMAIN unsaved'[s]
    BY <1>1 DEF LotsBehindOK
  <2> QED BY <1>2, <2>1, <2>2 DEF LotsBehindOK
<1>7. Apart(s)
  BY <1>1 DEF Apart, UpsertShape
<1> QED BY <1>3, <1>4, <1>5, <1>6, <1>7, OneScraper

\* A call is answered by a row that is stored, or is now.
LEMMA UpsertResolved ==
  ASSUME NEW s \in Scrapers, UInv, InRun(s), Len(refs[s]) < Len(Lot(s)),
         NEW r \in Rows, Same(r, Call(s)), Resolved(s, r),
         NEW O, own' = [own EXCEPT ![s] = O], own[s] \subseteq O, O \subseteq Rows,
         r \in table \cup O,
         UNCHANGED <<table, source, lots, touched, unsaved, at, runs>>
  PROVE  UInv'
<1>1. UpsertShape /\ LotOK(s) /\ LotsBehindOK(s)
  BY DEF UInv
<1> DEFINE next == IF r.kind = "auctioneer" THEN "update" ELSE Onwards(s, Len(refs[s]) + 1)
           q == Append(refs[s], r)
<1>2. refs' = [refs EXCEPT ![s] = q] /\ step' = [step EXCEPT ![s] = next]
  BY DEF Resolved
<1>3. /\ Len(Lot(s)) \in Nat /\ refs[s] \in Seq(Rows) /\ Len(refs[s]) \in Nat
      /\ q \in Seq(Rows)
  BY <1>1, AtLot
<1>4. Stored(s)' = table \cup O /\ Stored(s) \subseteq Stored(s)' /\ Lot(s)' = Lot(s)
  BY <1>1 DEF Stored, Lot, UpsertShape
<1>5. Answers(q, Lot(s), Stored(s)') /\ Len(q) = Len(refs[s]) + 1 /\ q # <<>>
  <2>1. Answers(refs[s], Lot(s), Stored(s)')
    BY <1>1, <1>4, AnswersGrow DEF LotOK
  <2>2. Same(r, Lot(s)[Len(refs[s]) + 1])
    BY DEF Call
  <2>3. r \in Stored(s)'
    BY <1>4
  <2> QED BY <1>3, <2>1, <2>2, <2>3, AnswersAppend
<1>6. /\ next \in {"update", "find", "save"}
      /\ next = "find" => Len(q) < Len(Lot(s))
      /\ next = "save" => Len(q) = Len(Lot(s))
  BY <1>3, <1>5 DEF Onwards
<1> HIDE DEF next, q
<1>7. refs'[s] = q /\ step'[s] = next
  BY <1>1, <1>2 DEF UpsertShape
<1>8. UpsertShape'
  <2>1. refs' \in [Scrapers -> Seq(Rows)]
    BY <1>1, <1>2, <1>3 DEF UpsertShape
  <2>2. step' \in [Scrapers -> Steps]
    BY <1>1, <1>2, <1>6 DEF UpsertShape, Steps
  <2>3. own' \in [Scrapers -> SUBSET Rows]
    BY <1>1 DEF UpsertShape
  <2> QED BY <1>1, <2>1, <2>2, <2>3 DEF UpsertShape
<1>9. LotsOK'
  BY LotsKeep
<1>10. LotOK(s)'
  <2>1. touched'[s] \subseteq Stored(s)'
    BY <1>1, <1>4 DEF LotOK
  <2>2. runs'[s] # 0 /\ at'[s] \in 1..Len(Plan(s))
    BY <1>1 DEF LotOK
  <2>3. Answers(refs'[s], Lot(s)', Stored(s)')
    BY <1>4, <1>5, <1>7
  <2> QED BY <1>4, <1>5, <1>6, <1>7, <2>1, <2>2, <2>3 DEF LotOK, InRun
<1>11. LotsBehindOK(s)'
  <2>1. ASSUME NEW x \in DOMAIN unsaved'[s]
        PROVE  /\ x \in {s} \X DOMAIN Plan(s)
               /\ Answers(unsaved'[s][x], Plan(s)[x[2]], Stored(s)')
               /\ Len(unsaved'[s][x]) = Len(Plan(s)[x[2]])
    <3>1. /\ x \in {s} \X DOMAIN Plan(s)
          /\ Answers(unsaved[s][x], Plan(s)[x[2]], Stored(s))
          /\ Len(unsaved[s][x]) = Len(Plan(s)[x[2]])
      BY <1>1, <2>1 DEF LotsBehindOK
    <3> QED BY <1>4, <3>1, AnswersGrow
  <2>2. \A i \in 1..(at'[s] - 1) : <<s, i>> \in DOMAIN lots' \cup DOMAIN unsaved'[s]
    BY <1>1 DEF LotsBehindOK
  <2>3. step'[s] # "done"
    BY <1>6, <1>7
  <2> QED BY <2>1, <2>2, <2>3 DEF LotsBehindOK
<1>12. Apart(s)
  BY <1>1, <1>2 DEF Apart, UpsertShape
<1> QED BY <1>8, <1>9, <1>10, <1>11, <1>12, OneScraper

LEMMA UpsertFind ==
  ASSUME NEW s \in Scrapers, UInv, Find(s) \/ FindAgain(s)
  PROVE  UInv'
<1>1. UpsertShape /\ LotOK(s) /\ step[s] \in {"find", "again"} /\ InRun(s)
            /\ Len(refs[s]) < Len(Lot(s))
  BY DEF UInv, Find, FindAgain, InRun, LotOK
<1>2. CASE Abort(s)
  BY <1>2, UpsertAbort
<1>3. CASE /\ step' = [step EXCEPT ![s] = "insert"]
           /\ UNCHANGED <<table, source, lots, open, runs>>
  <2>1. touched' = [touched EXCEPT ![s] = touched[s]] /\ touched[s] \subseteq Stored(s)
    BY <1>1, <1>3 DEF open, UpsertShape, LotOK
  <2>2. UNCHANGED <<table, source, lots, own, unsaved, refs, at, runs>>
    BY <1>3 DEF open
  <2> QED BY <1>1, <1>3, <2>1, <2>2, UpsertOn
<1>4. CASE /\ \E r \in Seen(s) : Resolved(s, r)
           /\ UNCHANGED <<table, source, lots, own, touched, unsaved, at, runs>>
  <2>1. PICK r \in Seen(s) : Resolved(s, r)
    BY <1>4
  <2>2. r \in Rows /\ r \in Stored(s) /\ Same(r, Call(s))
    BY <1>1, SeenAnswers
  <2>3. own' = [own EXCEPT ![s] = own[s]] /\ own[s] \subseteq Rows /\ r \in table \cup own[s]
    BY <1>1, <1>4, <2>2 DEF UpsertShape, Stored
  <2> QED BY <1>1, <1>4, <2>1, <2>2, <2>3, UpsertResolved
<1> QED BY <1>2, <1>3, <1>4 DEF Find, FindAgain

LEMMA UpsertInsert ==
  ASSUME NEW s \in Scrapers, UInv, InsertRow(s)
  PROVE  UInv'
<1>1. UpsertShape /\ LotOK(s) /\ InRun(s) /\ Len(refs[s]) < Len(Lot(s))
  BY DEF UInv, InsertRow, InRun, LotOK
<1> DEFINE r == Created(s)
           O == own[s] \cup {Created(s)}
<1>2. Call(s) \in [kind : Kinds, name : Names] /\ runs[s] \in 1..Runs
  <2>1. runs[s] \in 0..Runs /\ runs[s] # 0
    BY <1>1 DEF UpsertShape, LotOK
  <2>2. runs[s] \in 1..Runs
    BY <2>1, BoundsAssumption
  <2> QED BY <1>1, <2>2, AtLot
<1>3. r \in Rows /\ r.kind = Call(s).kind /\ r.name = Call(s).name
  BY <1>2 DEF Rows, Created
<1>4. Same(r, Call(s))
  BY <1>3 DEF Same
<1>5. own[s] \subseteq O /\ O \subseteq Rows /\ r \in table \cup O
  BY <1>1, <1>3 DEF UpsertShape
<1>6. /\ own' = [own EXCEPT ![s] = O] /\ Resolved(s, r)
      /\ UNCHANGED <<table, source, lots, touched, unsaved, at, runs>>
  BY DEF InsertRow
<1> HIDE DEF r, O
<1> QED BY <1>1, <1>3, <1>4, <1>5, <1>6, UpsertResolved

LEMMA UpsertConflict ==
  ASSUME NEW s \in Scrapers, UInv, Conflict(s)
  PROVE  UInv'
<1>1. UpsertShape /\ LotOK(s) /\ InRun(s) /\ Len(refs[s]) < Len(Lot(s))
  BY DEF UInv, Conflict, InRun, LotOK
<1>2. CASE Abort(s)
  BY <1>2, UpsertAbort
<1>3. CASE /\ step' = [step EXCEPT ![s] = "again"]
           /\ UNCHANGED <<table, source, lots, open, runs>>
  <2>1. touched' = [touched EXCEPT ![s] = touched[s]] /\ touched[s] \subseteq Stored(s)
    BY <1>1, <1>3 DEF open, UpsertShape, LotOK
  <2>2. UNCHANGED <<table, source, lots, own, unsaved, refs, at, runs>>
    BY <1>3 DEF open
  <2> QED BY <1>1, <1>3, <2>1, <2>2, UpsertOn
<1> QED BY <1>2, <1>3 DEF Conflict

LEMMA UpsertUpdate ==
  ASSUME NEW s \in Scrapers, UInv, Update(s)
  PROVE  UInv'
<1>1. UpsertShape /\ LotOK(s) /\ InRun(s) /\ step[s] = "update"
  BY DEF UInv, Update, InRun
<1>2. /\ refs[s] \in Seq(Rows) /\ Len(refs[s]) \in Nat /\ Len(Lot(s)) \in Nat
      /\ Len(refs[s]) <= Len(Lot(s)) /\ refs[s] # <<>>
  BY <1>1, AtLot DEF LotOK
<1>3. Last(refs[s]) \in Stored(s)
  <2>1. Len(refs[s]) \in 1..Len(refs[s])
    BY <1>2
  <2>2. refs[s][Len(refs[s])] \in Stored(s)
    BY <1>1, <2>1 DEF LotOK, Answers
  <2> QED BY <2>2 DEF Last
<1>4. PICK U : U \in {touched[s], touched[s] \cup {Last(refs[s])}}
               /\ touched' = [touched EXCEPT ![s] = U]
  <2> DEFINE r == Last(refs[s])
             same == r \in touched[s] \/ (r \in DOMAIN source /\ source[r] = s)
  <2>1. touched' = [touched EXCEPT ![s] = IF same THEN @ ELSE @ \cup {r}]
    BY DEF Update
  <2>2. CASE same
    <3>1. touched' = [touched EXCEPT ![s] = touched[s]]
      BY <2>1, <2>2
    <3> QED BY <3>1
  <2>3. CASE ~same
    <3>1. touched' = [touched EXCEPT ![s] = touched[s] \cup {r}]
      BY <2>1, <2>3
    <3> QED BY <3>1
  <2> QED BY <2>2, <2>3
<1>5. U \subseteq Stored(s)
  BY <1>1, <1>3, <1>4 DEF LotOK
<1> DEFINE next == Onwards(s, Len(refs[s]))
<1>6. /\ next \in {"find", "insert", "again", "save"}
      /\ next \in {"find", "insert", "again"} => Len(refs[s]) < Len(Lot(s))
      /\ next = "save" => Len(refs[s]) = Len(Lot(s))
  BY <1>2 DEF Onwards
<1>7. /\ step' = [step EXCEPT ![s] = next]
      /\ UNCHANGED <<table, source, lots, own, unsaved, refs, at, runs>>
  BY DEF Update
<1> HIDE DEF next
<1> QED BY <1>1, <1>4, <1>5, <1>6, <1>7, UpsertOn

\* The lots a transaction has once the lot at hand is among them.
LEMMA WrittenOK ==
  ASSUME NEW s \in Scrapers, UInv, step[s] = "save"
  PROVE  /\ DOMAIN Written(s) = DOMAIN unsaved[s] \cup {<<s, at[s]>>}
         /\ \A x \in DOMAIN Written(s) :
              /\ x \in {s} \X DOMAIN Plan(s)
              /\ Answers(Written(s)[x], Plan(s)[x[2]], Stored(s))
              /\ Len(Written(s)[x]) = Len(Plan(s)[x[2]])
         /\ \A i \in 1..at[s] : <<s, i>> \in DOMAIN lots \cup DOMAIN Written(s)
<1>1. UpsertShape /\ LotOK(s) /\ LotsBehindOK(s) /\ InRun(s)
  BY DEF UInv, InRun
<1>2. DOMAIN Written(s) = DOMAIN unsaved[s] \cup {<<s, at[s]>>}
  BY DEF Written
<1>3. at[s] \in DOMAIN Plan(s) /\ at[s] \in Nat
  BY <1>1, PlansAre DEF LotOK
<1>4. ASSUME NEW x \in DOMAIN Written(s)
      PROVE  /\ x \in {s} \X DOMAIN Plan(s)
             /\ Answers(Written(s)[x], Plan(s)[x[2]], Stored(s))
             /\ Len(Written(s)[x]) = Len(Plan(s)[x[2]])
  <2>1. CASE x = <<s, at[s]>>
    <3>1. Written(s)[x] = refs[s] /\ x[2] = at[s] /\ x \in {s} \X DOMAIN Plan(s)
      BY <1>3, <2>1 DEF Written
    <3>2. Answers(refs[s], Plan(s)[at[s]], Stored(s)) /\ Len(refs[s]) = Len(Plan(s)[at[s]])
      BY <1>1 DEF LotOK, Lot
    <3> QED BY <3>1, <3>2
  <2>2. CASE x # <<s, at[s]>>
    <3>1. x \in DOMAIN unsaved[s] /\ Written(s)[x] = unsaved[s][x]
      BY <1>2, <1>4, <2>2 DEF Written
    <3> QED BY <1>1, <3>1 DEF LotsBehindOK
  <2> QED BY <2>1, <2>2
<1>5. ASSUME NEW i \in 1..at[s] PROVE <<s, i>> \in DOMAIN lots \cup DOMAIN Written(s)
  <2>1. CASE i = at[s]
    BY <1>2, <2>1
  <2>2. CASE i # at[s]
    <3>1. i \in 1..(at[s] - 1)
      BY <1>3, <1>5, <2>2
    <3> QED BY <1>1, <1>2, <3>1 DEF LotsBehindOK
  <2> QED BY <2>1, <2>2
<1> QED BY <1>2, <1>4, <1>5

\* The next lot is begun, or was the last.
LEMMA NextLot ==
  ASSUME NEW s \in Scrapers, UInv, SaveLot(s)
  PROVE  /\ at'[s] \in 1..Len(Plan(s)) /\ at' \in [Scrapers -> Nat]
         /\ step' \in [Scrapers -> Steps] /\ step'[s] \in {"done", "save", "find"}
         /\ step'[s] = "done" => at[s] = Len(Plan(s))
         /\ step'[s] # "done" => at'[s] = at[s] + 1 /\ at[s] # Len(Plan(s))
         /\ Len(Lot(s)') \in Nat
         /\ step'[s] = "find" => 0 < Len(Lot(s)')
         /\ step'[s] = "save" => 0 = Len(Lot(s)')
         /\ \A t \in Scrapers \ {s} : at'[t] = at[t] /\ step'[t] = step[t]
<1>1. UpsertShape /\ at[s] \in 1..Len(Plan(s)) /\ Len(Plan(s)) \in Nat
  BY PlansAre DEF UInv, LotOK
<1>2. /\ at' = [at EXCEPT ![s] = IF @ < Len(Plan(s)) THEN @ + 1 ELSE @]
      /\ step' = [step EXCEPT ![s] =
                    IF at[s] = Len(Plan(s)) THEN "done"
                    ELSE IF Plan(s)[at[s] + 1] = <<>> THEN "save" ELSE "find"]
  BY DEF SaveLot
<1>3. /\ at'[s] = IF at[s] < Len(Plan(s)) THEN at[s] + 1 ELSE at[s]
      /\ step'[s] = IF at[s] = Len(Plan(s)) THEN "done"
                    ELSE IF Plan(s)[at[s] + 1] = <<>> THEN "save" ELSE "find"
      /\ \A t \in Scrapers \ {s} : at'[t] = at[t] /\ step'[t] = step[t]
  BY <1>1, <1>2 DEF UpsertShape
<1>4. at'[s] \in 1..Len(Plan(s))
  BY <1>1, <1>3
<1>5. at' \in [Scrapers -> Nat]
  BY <1>1, <1>2 DEF UpsertShape
<1>6. step' \in [Scrapers -> Steps]
  BY <1>1, <1>2 DEF UpsertShape, Steps
<1>7. Lot(s)' \in Seq([kind : Kinds, name : Names]) /\ Lot(s)' = Plan(s)[at'[s]]
  BY <1>4, PlansAre DEF Lot
<1>8. Len(Lot(s)') \in Nat /\ (Lot(s)' = <<>> <=> Len(Lot(s)') = 0)
  BY <1>7
<1>9. at[s] # Len(Plan(s)) => at'[s] = at[s] + 1 /\ Lot(s)' = Plan(s)[at[s] + 1]
  BY <1>1, <1>3, <1>7
<1>10. /\ step'[s] \in {"done", "save", "find"}
       /\ step'[s] = "done" => at[s] = Len(Plan(s))
       /\ step'[s] # "done" => at[s] # Len(Plan(s))
  BY <1>3
<1>11. /\ step'[s] = "find" => 0 < Len(Lot(s)')
       /\ step'[s] = "save" => 0 = Len(Lot(s)')
  <2>1. CASE at[s] = Len(Plan(s))
    BY <1>3, <2>1
  <2>2. CASE at[s] # Len(Plan(s))
    <3>1. step'[s] = IF Lot(s)' = <<>> THEN "save" ELSE "find"
      BY <1>3, <1>9, <2>2
    <3>2. CASE Lot(s)' = <<>>
      BY <1>8, <3>1, <3>2
    <3>3. CASE Lot(s)' # <<>>
      BY <1>8, <3>1, <3>3
    <3> QED BY <3>2, <3>3
  <2> QED BY <2>1, <2>2
<1> QED BY <1>3, <1>4, <1>5, <1>6, <1>8, <1>9, <1>10, <1>11

\* A lot is saved: the transaction ends with it, or goes on.
LEMMA UpsertSave ==
  ASSUME NEW s \in Scrapers, UInv, SaveLot(s)
  PROVE  UInv'
<1>1. UpsertShape /\ LotsOK /\ LotOK(s) /\ LotsBehindOK(s) /\ step[s] = "save" /\ InRun(s)
  BY DEF UInv, SaveLot, InRun
<1> DEFINE w == Written(s)
<1>2. /\ DOMAIN w = DOMAIN unsaved[s] \cup {<<s, at[s]>>}
      /\ \A x \in DOMAIN w :
           /\ x \in {s} \X DOMAIN Plan(s)
           /\ Answers(w[x], Plan(s)[x[2]], Stored(s))
           /\ Len(w[x]) = Len(Plan(s)[x[2]])
      /\ \A i \in 1..at[s] : <<s, i>> \in DOMAIN lots \cup DOMAIN w
  BY <1>1, WrittenOK
<1>3. /\ at'[s] \in 1..Len(Plan(s)) /\ at' \in [Scrapers -> Nat]
      /\ step' \in [Scrapers -> Steps] /\ step'[s] \in {"done", "save", "find"}
      /\ step'[s] = "done" => at[s] = Len(Plan(s))
      /\ step'[s] # "done" => at'[s] = at[s] + 1 /\ at[s] # Len(Plan(s))
      /\ Len(Lot(s)') \in Nat
      /\ step'[s] = "find" => 0 < Len(Lot(s)')
      /\ step'[s] = "save" => 0 = Len(Lot(s)')
      /\ \A t \in Scrapers \ {s} : at'[t] = at[t] /\ step'[t] = step[t]
  BY NextLot
<1>4. runs' = runs /\ runs[s] # 0 /\ at[s] \in Nat /\ DOMAIN Plan(s) = 1..Len(Plan(s))
  BY <1>1, PlansAre DEF SaveLot, LotOK
<1>5. ASSUME refs'[s] = <<>>, touched'[s] \subseteq Stored(s)' PROVE LotOK(s)'
  <2>1. Answers(refs'[s], Lot(s)', Stored(s)')
    BY <1>3, <1>5, AnswersNone
  <2> QED BY <1>3, <1>4, <1>5, <2>1 DEF LotOK, InRun
<1> HIDE DEF w
<1>6. CASE at[s] % Every = 0 \/ at[s] = Len(Plan(s))
  <2>1. /\ table' = table \cup own[s]
        /\ source' = [r \in DOMAIN source
              \cup touched[s] |-> IF r \in touched[s] THEN s ELSE source[r]]
        /\ lots' = [x \in DOMAIN lots \cup DOMAIN w |-> IF x \in DOMAIN w THEN w[x] ELSE lots[x]]
        /\ Fresh(s)
    BY <1>6 DEF SaveLot, w
  <2>2. /\ own'[s] = {} /\ touched'[s] = {} /\ unsaved'[s] = NoLots /\ refs'[s] = <<>>
        /\ \A t \in Scrapers \ {s} : /\ own'[t] = own[t] /\ touched'[t] = touched[t]
                                     /\ unsaved'[t] = unsaved[t] /\ refs'[t] = refs[t]
    BY <1>1, <2>1 DEF Fresh, UpsertShape
  <2>3. table' = Stored(s) /\ Stored(s)' = table'
    BY <2>1, <2>2 DEF Stored
  <2>4. UpsertShape'
    <3>1. table' \subseteq Rows
      BY <1>1, <2>1 DEF UpsertShape
    <3>2. DOMAIN source' \subseteq table'
      BY <1>1, <2>1, <2>3 DEF UpsertShape, LotOK, Stored
    <3>3. own' \in [Scrapers -> SUBSET Rows] /\ touched' \in [Scrapers -> SUBSET Rows]
      BY <1>1, <2>1 DEF UpsertShape, Fresh
    <3>4. refs' \in [Scrapers -> Seq(Rows)] /\ DOMAIN unsaved' = Scrapers
      BY <1>1, <2>1 DEF UpsertShape, Fresh
    <3> QED BY <1>1, <1>3, <1>4, <3>1, <3>2, <3>3, <3>4 DEF UpsertShape
  <2>5. LotsOK'
    <3>1. ASSUME NEW x \in DOMAIN lots'
          PROVE  /\ x \in Scrapers \X Nat /\ x[2] \in DOMAIN Plan(x[1])
                 /\ Answers(lots'[x], Plan(x[1])[x[2]], table')
                 /\ Len(lots'[x]) = Len(Plan(x[1])[x[2]])
      <4>1. CASE x \in DOMAIN w
        <5>1. lots'[x] = w[x] /\ x[1] = s /\ x \in {s} \X DOMAIN Plan(s)
          BY <1>2, <2>1, <4>1
        <5>2. x \in Scrapers \X Nat /\ x[2] \in DOMAIN Plan(s)
          BY <1>4, <5>1
        <5> QED BY <1>2, <2>3, <4>1, <5>1, <5>2
      <4>2. CASE x \notin DOMAIN w
        <5>1. x \in DOMAIN lots /\ lots'[x] = lots[x] /\ table \subseteq table'
          BY <2>1, <3>1, <4>2
        <5>2. /\ x \in Scrapers \X Nat /\ x[2] \in DOMAIN Plan(x[1])
              /\ Answers(lots[x], Plan(x[1])[x[2]], table)
              /\ Len(lots[x]) = Len(Plan(x[1])[x[2]])
          BY <1>1, <5>1 DEF LotsOK
        <5> QED BY <5>1, <5>2, AnswersGrow
      <4> QED BY <4>1, <4>2
    <3> QED BY <3>1 DEF LotsOK
  <2>6. LotOK(s)'
    BY <1>5, <2>2
  <2>7. LotsBehindOK(s)'
    <3>1. DOMAIN unsaved'[s] = {}
      BY <2>2 DEF NoLots
    <3>2. \A i \in 1..at[s] : <<s, i>> \in DOMAIN lots'
      BY <1>2, <2>1
    <3>3. InRun(s)' => \A i \in 1..(at'[s] - 1) : <<s, i>> \in DOMAIN lots'
      <4>1. ASSUME InRun(s)' PROVE at'[s] - 1 = at[s]
        BY <1>3, <1>4, <4>1 DEF InRun
      <4> QED BY <3>2, <4>1
    <3>4. step'[s] = "done" => \A i \in DOMAIN Plan(s) : <<s, i>> \in DOMAIN lots'
      BY <1>3, <1>4, <3>2
    <3> QED BY <3>1, <3>3, <3>4 DEF LotsBehindOK
  <2>8. Apart(s)
    BY <1>3, <1>4, <2>1, <2>2 DEF Apart
  <2> QED BY <2>4, <2>5, <2>6, <2>7, <2>8, OneScraper
<1>7. CASE ~(at[s] % Every = 0 \/ at[s] = Len(Plan(s)))
  <2>1. /\ unsaved' = [unsaved EXCEPT ![s] = w] /\ refs' = [refs EXCEPT ![s] = <<>>]
        /\ UNCHANGED <<table, source, lots, own, touched>>
    BY <1>7 DEF SaveLot, w
  <2>2. unsaved'[s] = w /\ refs'[s] = <<>> /\ Stored(s)' = Stored(s)
    BY <1>1, <2>1 DEF UpsertShape, Stored
  <2>3. UpsertShape'
    <3>1. refs' \in [Scrapers -> Seq(Rows)] /\ DOMAIN unsaved' = Scrapers
      BY <1>1, <2>1 DEF UpsertShape
    <3> QED BY <1>1, <1>3, <1>4, <2>1, <3>1 DEF UpsertShape
  <2>4. LotsOK'
    BY <2>1, LotsKeep
  <2>5. LotOK(s)'
    BY <1>1, <1>5, <2>1, <2>2 DEF LotOK
  <2>6. LotsBehindOK(s)'
    <3>1. step'[s] # "done" /\ at'[s] - 1 = at[s]
      BY <1>3, <1>4, <1>7
    <3> QED BY <1>2, <2>1, <2>2, <3>1 DEF LotsBehindOK
  <2>7. Apart(s)
    BY <1>1, <1>3, <1>4, <2>1 DEF Apart, UpsertShape
  <2> QED BY <2>3, <2>4, <2>5, <2>6, <2>7, OneScraper
<1> QED BY <1>6, <1>7

-----------------------------------------------------------------------------
(* The rows that lots refer to.                                            *)

LEMMA UpsertInitial == UpsertInit => UInv
<1> SUFFICES ASSUME UpsertInit PROVE UInv
  OBVIOUS
<1> USE DEF UpsertInit
<1>1. UpsertShape
  BY BoundsAssumption DEF UpsertShape, Steps
<1>2. LotsOK
  BY DEF LotsOK, NoLots
<1>3. ASSUME NEW s \in Scrapers PROVE LotOK(s) /\ LotsBehindOK(s)
  <2>1. at[s] = 1 /\ refs[s] = <<>> /\ step[s] = "idle" /\ touched[s] = {} /\ unsaved[s] = NoLots
    BY <1>3
  <2>2. 1 \in 1..Len(Plan(s)) /\ Len(Lot(s)) \in Nat
    <3>1. 1 \in 1..Len(Plan(s))
      BY PlansAre
    <3>2. Len(Plan(s)[1]) \in Nat
      BY <3>1, PlansAre
    <3> QED BY <2>1, <3>1, <3>2 DEF Lot
  <2>3. Answers(refs[s], Lot(s), Stored(s))
    BY <2>1, <2>2, AnswersNone
  <2> QED BY <2>1, <2>2, <2>3 DEF LotOK, LotsBehindOK, InRun, NoLots
<1> QED BY <1>1, <1>2, <1>3 DEF UInv

LEMMA UpsertStep == UInv /\ [UpsertNext]_upsertVars => UInv'
<1> SUFFICES ASSUME UInv, [UpsertNext]_upsertVars PROVE UInv'
  OBVIOUS
<1>1. CASE UNCHANGED upsertVars
  <2>1. UNCHANGED <<table, source, lots, own, touched, unsaved, refs, at, step, runs>>
    BY <1>1 DEF upsertVars, open
  <2>2. UpsertShape' /\ LotsOK'
    BY <2>1 DEF UInv, UpsertShape, LotsOK
  <2>3. ASSUME NEW s \in Scrapers PROVE LotOK(s)' /\ LotsBehindOK(s)'
    <3>1. LotOK(s) /\ LotsBehindOK(s)
      BY <2>3 DEF UInv
    <3>2. Lot(s)' = Lot(s) /\ Stored(s)' = Stored(s)
      BY <2>1 DEF Lot, Stored
    <3> QED BY <2>1, <3>1, <3>2 DEF LotOK, LotsBehindOK, InRun
  <2> QED BY <2>2, <2>3 DEF UInv
<1>2. CASE UpsertNext
  <2>1. PICK s \in Scrapers : Start(s) \/ UpsertWork(s) \/ Deadlock(s) \/ Stop(s)
    BY <1>2 DEF UpsertNext
  <2>2. CASE Start(s)
    BY <2>2, UpsertStart
  <2>3. CASE Find(s) \/ FindAgain(s)
    BY <2>3, UpsertFind
  <2>4. CASE InsertRow(s)
    BY <2>4, UpsertInsert
  <2>5. CASE Conflict(s)
    BY <2>5, UpsertConflict
  <2>6. CASE Update(s)
    BY <2>6, UpsertUpdate
  <2>7. CASE SaveLot(s)
    BY <2>7, UpsertSave
  <2>8. CASE Deadlock(s) \/ Stop(s)
    BY <2>8, UpsertAbort DEF Deadlock, Stop
  <2> QED BY <2>1, <2>2, <2>3, <2>4, <2>5, <2>6, <2>7, <2>8 DEF UpsertWork
<1> QED BY <1>1, <1>2

LEMMA UpsertInvariant == UpsertSpec => []UInv
<1>1. UpsertInit => UInv
  BY UpsertInitial
<1>2. UInv /\ [UpsertNext]_upsertVars => UInv'
  BY UpsertStep
<1> QED BY <1>1, <1>2, PTL DEF UpsertSpec

\* Every committed lot refers to committed rows, those its page named, and an open transaction
\* to committed rows or its own, whoever else inserts the same names, waits or is rolled back
\* (db_interface.py get_or_create_*).
THEOREM UpsertReferencesHold == UpsertSpec => []ReferencesHold
<1>1. UInv => ReferencesHold
  <2> SUFFICES ASSUME UInv PROVE ReferencesHold
    OBVIOUS
  <2>1. ASSUME NEW x \in DOMAIN lots
        PROVE  LET calls == Plan(x[1])[x[2]]
               IN  /\ Len(lots[x]) = Len(calls)
                   /\ \A n \in DOMAIN calls : lots[x][n] \in table /\ Same(lots[x][n], calls[n])
    <3>1. /\ x[1] \in Scrapers /\ x[2] \in DOMAIN Plan(x[1])
          /\ Answers(lots[x], Plan(x[1])[x[2]], table)
          /\ Len(lots[x]) = Len(Plan(x[1])[x[2]])
      BY <2>1 DEF UInv, LotsOK
    <3>2. DOMAIN Plan(x[1])[x[2]] = 1..Len(Plan(x[1])[x[2]])
      BY <3>1, PlansAre
    <3> QED BY <3>1, <3>2 DEF Answers
  <2>2. ASSUME NEW s \in Scrapers, NEW q, NEW calls, Answers(q, calls, Stored(s))
        PROVE  ToSet(q) \subseteq table \cup own[s]
    <3>1. DOMAIN q = 1..Len(q)
      BY <2>2 DEF Answers
    <3> QED BY <2>2, <3>1 DEF Answers, Stored, ToSet
  <2>3. ASSUME NEW s \in Scrapers
        PROVE  /\ ToSet(refs[s]) \subseteq table \cup own[s]
               /\ \A x \in DOMAIN unsaved[s] : ToSet(unsaved[s][x]) \subseteq table \cup own[s]
    <3>1. Answers(refs[s], Lot(s), Stored(s))
      BY <2>3 DEF UInv, LotOK
    <3>2. \A x \in DOMAIN unsaved[s] : Answers(unsaved[s][x], Plan(s)[x[2]], Stored(s))
      BY <2>3 DEF UInv, LotsBehindOK
    <3> QED BY <2>2, <3>1, <3>2
  <2> QED BY <2>1, <2>3 DEF ReferencesHold
<1> QED BY <1>1, UpsertInvariant, PTL

\* A run that ends without an error has saved every one of its lots.
THEOREM UpsertDoneSavedAll == UpsertSpec => []DoneSavedAll
<1>1. UInv => DoneSavedAll
  BY DEF UInv, LotsBehindOK, DoneSavedAll
<1> QED BY <1>1, UpsertInvariant, PTL

\* What transactions hold are rows, those of an update are stored, runs keep to their lots.
THEOREM UpsertTypes == UpsertSpec => []UpsertTypeOK
<1>1. UInv => UpsertTypeOK
  BY DEF UInv, UpsertShape, LotOK, Stored, Steps, UpsertTypeOK
<1> QED BY <1>1, UpsertInvariant, PTL
=============================================================================
