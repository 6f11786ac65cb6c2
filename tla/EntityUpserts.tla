---------------------------- MODULE EntityUpserts ----------------------------
(***************************************************************************)
(* The rows that scrapers share (src/scrapers/db_interface.py,             *)
(* get_or_create_*; src/scrapers/*/entities.py): artists, auctioneers and  *)
(* experts are looked up by name and inserted when they are missing, each  *)
(* scraper inside a transaction that lasts a batch of lots.  PostgreSQL    *)
(* shows a statement what is committed and what its own transaction wrote, *)
(* and makes a second insert of a unique key wait for the transaction that *)
(* holds the first.  An artist is inserted under a savepoint, an           *)
(* auctioneer without one, and an expert has no unique key at all.         *)
(***************************************************************************)
EXTENDS Integers, Sequences, FiniteSets, SequencesExt

CONSTANTS
    Scrapers,   \* scrapers running at the same time, each on its own platform
    Plan(_),    \* a scraper's lots in order, each the names its page calls for
    Key(_),     \* a name as the unique indexes see it, without case
    Every,      \* commit_every
    Runs,       \* bound on the runs of a scraper
    None        \* no value

Kinds == {"artist", "auctioneer", "expert"}
Unique == {"artist", "auctioneer"}
Names == {c.name : c \in UNION {UNION {ToSet(lot) : lot \in ToSet(Plan(s))} : s \in Scrapers}}

\* A run without lots never comes near these rows.
ASSUME PlanAssumption ==
    \A s \in Scrapers : Plan(s) # <<>> /\ Plan(s) \in Seq(Seq([kind : Kinds, name : Names]))
ASSUME BoundsAssumption == Every \in Nat \ {0} /\ Runs \in Nat \ {0}

VARIABLES
    table,      \* committed rows of the three tables
    source,     \* the scraper whose raw_data an auctioneer row holds, committed
    lots,       \* committed lots: <<scraper, lot>> with the rows they refer to
    own,        \* rows a scraper has inserted since its last commit
    touched,    \* auctioneers it has updated since then
    unsaved,    \* lots it has saved since then
    refs,       \* the rows the lot at hand has resolved so far
    at,         \* the lot it is at
    step,       \* "idle", "find", "insert", "again", "update", "save", "done" or "failed"
    runs        \* runs started

open == <<own, touched, unsaved, refs, at>>
upsertVars == <<table, source, lots, open, step, runs>>

\* A row is known by the run that inserted it.
Rows == [kind : Kinds, name : Names, by : Scrapers \X (1..Runs)]
NoLots == [x \in {} |-> <<>>]

UpsertInit ==
    /\ table = {} /\ lots = NoLots
    /\ source = [r \in {} |-> None]
    /\ own = [s \in Scrapers |-> {}] /\ touched = [s \in Scrapers |-> {}]
    /\ unsaved = [s \in Scrapers |-> NoLots]
    /\ refs = [s \in Scrapers |-> <<>>]
    /\ at = [s \in Scrapers |-> 1]
    /\ step = [s \in Scrapers |-> "idle"]
    /\ runs = [s \in Scrapers |-> 0]

Lot(s) == Plan(s)[at[s]]
Call(s) == Lot(s)[Len(refs[s]) + 1]

\* What the lookup of a call compares: an expert's name is taken as it is.
Same(r, c) ==
    /\ r.kind = c.kind
    /\ IF c.kind \in Unique THEN Key(r.name) = Key(c.name) ELSE r.name = c.name

\* What a statement of a scraper sees.
Seen(s) == {r \in table \cup own[s] : Same(r, Call(s))}

\* The scrapers whose open transactions hold the unique key of a call.
KeyHolders(s) ==
    {t \in Scrapers \ {s} : Call(s).kind \in Unique /\ \E r \in own[t] : Same(r, Call(s))}
RowHolders(s) ==
    {t \in Scrapers \ {s} : refs[s] # <<>> /\ Last(refs[s]) \in touched[t]}

\* After a call: the next one of the lot, or the lot is saved.
Onwards(s, n) == IF n = Len(Lot(s)) THEN "save" ELSE "find"

\* The auctioneers get what the scraper knows of them (raw_data); the update is
\* sent when it changes the row.
Resolved(s, r) ==
    /\ refs' = [refs EXCEPT ![s] = Append(@, r)]
    /\ step' = [step EXCEPT ![s] = IF r.kind = "auctioneer" THEN "update"
                                   ELSE Onwards(s, Len(refs[s]) + 1)]

-----------------------------------------------------------------------------
(* The run of a scraper *)

Fresh(s) ==
    /\ own' = [own EXCEPT ![s] = {}] /\ touched' = [touched EXCEPT ![s] = {}]
    /\ unsaved' = [unsaved EXCEPT ![s] = NoLots]
    /\ refs' = [refs EXCEPT ![s] = <<>>]

Start(s) ==
    /\ step[s] \in {"idle", "done", "failed"} /\ runs[s] < Runs
    /\ runs' = [runs EXCEPT ![s] = @ + 1]
    /\ at' = [at EXCEPT ![s] = 1]
    /\ step' = [step EXCEPT ![s] = IF Lot(s)' = <<>> THEN "save" ELSE "find"]
    /\ UNCHANGED <<table, source, lots, own, touched, unsaved, refs>>

\* A transaction that is rolled back leaves nothing, and the run is over.
Abort(s) ==
    /\ Fresh(s)
    /\ step' = [step EXCEPT ![s] = "failed"]
    /\ UNCHANGED <<table, source, lots, at, runs>>

\* scalar_one_or_none raises on a second expert of the name; the first row is
\* taken of the others.
Find(s) ==
    /\ step[s] = "find"
    /\ IF Seen(s) = {}
       THEN /\ step' = [step EXCEPT ![s] = "insert"]
            /\ UNCHANGED <<table, source, lots, open, runs>>
       ELSE IF Cardinality(Seen(s)) > 1 /\ Call(s).kind = "expert" THEN Abort(s)
       ELSE /\ \E r \in Seen(s) : Resolved(s, r)
            /\ UNCHANGED <<table, source, lots, own, touched, unsaved, at, runs>>

Created(s) == [kind |-> Call(s).kind, name |-> Call(s).name, by |-> <<s, runs[s]>>]
Taken(s) == Call(s).kind \in Unique /\ \E r \in table : Same(r, Call(s))

\* The insert waits for whoever holds the key.
InsertRow(s) ==
    /\ step[s] = "insert" /\ KeyHolders(s) = {} /\ ~Taken(s)
    /\ own' = [own EXCEPT ![s] = @ \cup {Created(s)}]
    /\ Resolved(s, Created(s))
    /\ UNCHANGED <<table, source, lots, touched, unsaved, at, runs>>

\* Mutant: the object that was to be inserted is returned all the same.
ConflictIgnored(s) ==
    /\ step[s] = "insert" /\ KeyHolders(s) = {} /\ Taken(s)
    /\ Resolved(s, Created(s))
    /\ UNCHANGED <<table, source, lots, own, touched, unsaved, at, runs>>

\* Mutant: the whole session is rolled back, not the savepoint.
ConflictRollsBack(s) ==
    /\ step[s] = "insert" /\ KeyHolders(s) = {} /\ Taken(s)
    /\ own' = [own EXCEPT ![s] = {}] /\ touched' = [touched EXCEPT ![s] = {}]
    /\ unsaved' = [unsaved EXCEPT ![s] = NoLots]
    /\ step' = [step EXCEPT ![s] = "again"]
    /\ UNCHANGED <<table, source, lots, refs, at, runs>>

\* IntegrityError: under a savepoint the artist is looked up again; an
\* auctioneer's insert has none, and its exception ends the run.
Conflict(s) ==
    /\ step[s] = "insert" /\ KeyHolders(s) = {} /\ Taken(s)
    /\ IF Call(s).kind = "artist"
       THEN /\ step' = [step EXCEPT ![s] = "again"]
            /\ UNCHANGED <<table, source, lots, open, runs>>
       ELSE Abort(s)

FindAgain(s) ==
    /\ step[s] = "again"
    /\ IF Seen(s) = {} THEN Abort(s)
       ELSE /\ \E r \in Seen(s) : Resolved(s, r)
            /\ UNCHANGED <<table, source, lots, own, touched, unsaved, at, runs>>

\* resolve_auctioneer_id writes the row when its raw_data differs; the update
\* waits for whoever holds the row.
Update(s) ==
    LET r == Last(refs[s])
        same == r \in touched[s] \/ (r \in DOMAIN source /\ source[r] = s)
    IN  /\ step[s] = "update"
        /\ same \/ RowHolders(s) = {}
        /\ touched' = [touched EXCEPT ![s] = IF same THEN @ ELSE @ \cup {r}]
        /\ step' = [step EXCEPT ![s] = Onwards(s, Len(refs[s]))]
        /\ UNCHANGED <<table, source, lots, own, unsaved, refs, at, runs>>

\* The lot is saved with the rows it refers to, and after every Every lots,
\* and after the last, the transaction is committed.
Written(s) == [x \in DOMAIN unsaved[s] \cup {<<s, at[s]>>} |->
                 IF x = <<s, at[s]>> THEN refs[s] ELSE unsaved[s][x]]

SaveLot(s) ==
    /\ step[s] = "save"
    /\ LET full == at[s] % Every = 0 \/ at[s] = Len(Plan(s))
           w == Written(s)
       IN  IF full
           THEN /\ table' = table \cup own[s]
                /\ source' = [r \in DOMAIN source \cup touched[s] |->
                                IF r \in touched[s] THEN s ELSE source[r]]
                /\ lots' = [x \in DOMAIN lots \cup DOMAIN w |->
                              IF x \in DOMAIN w THEN w[x] ELSE lots[x]]
                /\ Fresh(s)
           ELSE /\ unsaved' = [unsaved EXCEPT ![s] = w]
                /\ refs' = [refs EXCEPT ![s] = <<>>]
                /\ UNCHANGED <<table, source, lots, own, touched>>
    /\ at' = [at EXCEPT ![s] = IF @ < Len(Plan(s)) THEN @ + 1 ELSE @]
    /\ step' = [step EXCEPT ![s] =
                  IF at[s] = Len(Plan(s)) THEN "done"
                  ELSE IF Plan(s)[at[s] + 1] = <<>> THEN "save" ELSE "find"]
    /\ UNCHANGED runs

\* Whom a scraper waits for; PostgreSQL ends a circle by failing one of it.
WaitsFor(s) ==
    CASE step[s] = "insert" -> KeyHolders(s)
      [] step[s] = "update" /\ ~(Last(refs[s]) \in DOMAIN source
                                 /\ source[Last(refs[s])] = s) -> RowHolders(s)
      [] OTHER -> {}

InCircle(s) ==
    \E S \in SUBSET Scrapers :
        s \in S /\ \A x \in S : \E y \in S : y \in WaitsFor(x) /\ \E z \in S : x \in WaitsFor(z)

Deadlock(s) == InCircle(s) /\ Abort(s)

\* The scraper is stopped, or its page fails.
Stop(s) == step[s] \notin {"idle", "done", "failed"} /\ Abort(s)

UpsertWork(s) == Find(s) \/ InsertRow(s) \/ Conflict(s) \/ FindAgain(s) \/ Update(s) \/ SaveLot(s)

UpsertNext == \E s \in Scrapers : Start(s) \/ UpsertWork(s) \/ Deadlock(s) \/ Stop(s)

UpsertSpec == UpsertInit /\ [][UpsertNext]_upsertVars

-----------------------------------------------------------------------------
(* Properties *)

UpsertTypeOK ==
    /\ table \subseteq Rows /\ DOMAIN source \subseteq table
    /\ \A s \in Scrapers :
         /\ own[s] \subseteq Rows /\ touched[s] \subseteq table \cup own[s]
         /\ at[s] \in 1..Len(Plan(s)) /\ runs[s] \in 0..Runs
         /\ step[s] \in {"idle", "find", "insert", "again", "update", "save", "done", "failed"}

\* Every lot that was committed refers to rows that are committed too and are
\* those its page named, and what an open transaction refers to is committed or
\* its own: nobody builds on a row another transaction may still take back, and
\* a lost race for a name does not leave a lot with a row that was never stored.
ReferencesHold ==
    /\ \A x \in DOMAIN lots :
         LET calls == Plan(x[1])[x[2]]
         IN  /\ Len(lots[x]) = Len(calls)
             /\ \A n \in DOMAIN calls : lots[x][n] \in table /\ Same(lots[x][n], calls[n])
    /\ \A s \in Scrapers :
         /\ ToSet(refs[s]) \subseteq table \cup own[s]
         /\ \A x \in DOMAIN unsaved[s] : ToSet(unsaved[s][x]) \subseteq table \cup own[s]

\* A run that ends without an error has every one of its lots in the database,
\* however many names it lost a race for on the way.
DoneSavedAll ==
    \A s \in Scrapers : step[s] = "done" =>
        \A i \in DOMAIN Plan(s) : <<s, i>> \in DOMAIN lots
=============================================================================
