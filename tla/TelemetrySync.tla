--------------------------- MODULE TelemetrySync ---------------------------
(***************************************************************************)
(* One synchronization of the match graph (telemetry/sync_*.py).  A first   *)
(* database snapshot is spooled as inventory pages of identifiers and row   *)
(* hashes; the receiver answers each page with what it needs; a second      *)
(* snapshot is spooled as data pages, every row checked against the hash    *)
(* that was advertised, batches halved until they fit; then the data pages  *)
(* are posted and the receiver applies them, at once or while it is polled. *)
(*                                                                         *)
(* A row's hash is its version: 0 is no row.  The version of an artwork is  *)
(* that of all its hash covers (SyncGraph).  Whether a batch fits its page  *)
(* is free: sizes are data.  The database changes between the snapshots;    *)
(* a request, its answer, or a poll may fail or be lost.                    *)
(***************************************************************************)
EXTENDS Integers, Sequences, FiniteSets

CONSTANTS
  MatchCount,          \* match_score rows, numbered in the order of their keys
  LostOf, AuctionOf,   \* number of a match -> number of its lost, of its auction artwork
  InventoryPerPage,    \* INVENTORY_MATCHES_PER_PAGE
  DataPerPage,         \* DATA_MATCHES_PER_PAGE
  PageRetries,         \* PAGE_RETRIES
  MaxPages,            \* MAX_SYNC_OPERATION_PAGES
  MaxTransfer,         \* MAX_SYNC_TRANSFER_BYTES, in pages
  PollCount,           \* ASYNC_APPLY_TIMEOUT_SECONDS // ASYNC_APPLY_POLL_INTERVAL_SECONDS + 1
  MaxChanges           \* bound: changes of the database

ASSUME SyncAssumption ==
  /\ MatchCount \in Nat
  /\ LostOf \in [1 .. MatchCount -> Nat] /\ AuctionOf \in [1 .. MatchCount -> Nat]
  /\ {InventoryPerPage, DataPerPage, PageRetries, PollCount} \subseteq Nat \ {0}
  /\ MaxPages \in Nat /\ MaxTransfer \in Nat /\ MaxChanges \in Nat

Matches    == {<<"match", n>> : n \in 1 .. MatchCount}
Ends(m)    == {<<"lost", LostOf[m[2]]>>, <<"auction", AuctionOf[m[2]]>>}
Closure(S) == UNION {Ends(m) : m \in S}
Entities   == Closure(Matches)
Rows       == Matches \cup Entities

\* The first n rows of a set of rows of one kind.
First(S, n) == {r \in S : Cardinality({x \in S : x[2] < r[2]}) < n}

VARIABLES
  \* --- the database: row -> version; changes so far; the snapshot that is open
  db, changes, snap,
  \* --- the sender: where it is; pages of advertised matches and the hashes of their rows
  stage, inventory, advertised, requested,
  \* --- batches still to spool, first first (the recursion of sync_data), what the iterators
  \*     have given out, the data pages (sets of rows, each with its version), all pages
  todo, taken, pages, pageCount,
  \* --- the page being posted, its attempt, what has been transferred, polls
  page, attempt, transfer, polls,
  \* --- the receiver: what it lacks, data pages it has, state of the operation
  lacking, got, state

database  == <<db, changes>>
inventing == <<inventory, advertised>>
spooling  == <<todo, taken, pages>>
posting   == <<page, attempt, transfer>>
receiver  == <<lacking, got, state>>
syncVars == <<database, snap, stage, inventing, requested, spooling, pageCount, posting, polls, receiver>>

NoRow == [r \in Rows |-> 0]
Over  == {"ok", "transient", "terminal", "deadline"}

SyncInit ==
  /\ db = [r \in Rows |-> 1] /\ changes = 0 /\ snap = NoRow
  /\ stage = "inventory" /\ inventory = <<>> /\ advertised = NoRow /\ requested = {}
  /\ todo = <<>> /\ taken = {} /\ pages = <<>> /\ pageCount = 0
  /\ page = 1 /\ attempt = 1 /\ transfer = 0 /\ polls = 0
  /\ lacking \in SUBSET Rows /\ got = {} /\ state = "open"

-----------------------------------------------------------------------------
(* The database between the snapshots: a match or an artwork is written      *)
(* again, a match is deleted, an artwork is deleted with its matches.        *)

Deleted(r) == {r} \cup {m \in Matches : r \in Ends(m)}

Change ==
  /\ stage = "post" /\ changes < MaxChanges
  /\ \E r \in Rows :
       /\ db[r] # 0
       /\ \/ db' = [db EXCEPT ![r] = @ + 1]
          \/ db' = [x \in Rows |-> IF x \in Deleted(r) THEN 0 ELSE db[x]]
  /\ changes' = changes + 1
  /\ UNCHANGED <<snap, stage, inventing, requested, spooling, pageCount, posting, polls, receiver>>

-----------------------------------------------------------------------------
(* Snapshots.  An error while one is open closes it and ends the operation:  *)
(* a closure too large for a page of its own, no page or space left, the     *)
(* connection lost, or a row that is not what was advertised.                *)

OpenSnapshot ==
  /\ stage \in {"inventory", "data"} /\ snap = NoRow
  /\ snap' = db
  /\ UNCHANGED <<database, stage, inventing, requested, spooling, pageCount, posting, polls, receiver>>

Raise(kind) ==
  /\ stage' = kind /\ snap' = NoRow
  /\ UNCHANGED <<database, inventing, requested, spooling, pageCount, posting, polls, receiver>>

SpoolFails ==
  /\ stage \in {"inventory", "data"}
  /\ \E kind \in {"transient", "terminal"} : Raise(kind)

\* ensure_page_capacity: one more page, and the reserved ones, fit.
PageFits(reserved) == pageCount + 1 + reserved <= MaxPages

-----------------------------------------------------------------------------
(* The inventory (sync_inventory.py). *)

Listed == UNION {inventory[i] : i \in 1 .. Len(inventory)}
Unlisted == {m \in Matches : snap[m] # 0 /\ \A k \in Listed : k[2] < m[2]}

\* record_inventory: the hash of every listed match, and of all it reaches, is kept.
Recorded(rows) == [r \in Rows |-> IF r \in rows \cup Closure(rows) THEN snap[r] ELSE advertised[r]]

\* One page: the next matches after the cursor, with the hashes of all they reach.  An empty
\* graph still has one page, an empty one.  A page is kept for the data.
SpoolInventory ==
  /\ stage = "inventory" /\ snap # NoRow
  /\ Unlisted # {} \/ inventory = <<>>
  /\ PageFits(1)
  /\ LET rows == First(Unlisted, InventoryPerPage)
     IN /\ inventory' = Append(inventory, rows)
        /\ advertised' = Recorded(rows)
  /\ pageCount' = pageCount + 1
  /\ UNCHANGED <<database, snap, stage, requested, spooling, posting, polls, receiver>>

\* The snapshot is closed before the receiver is asked; every page has been encoded by then.
CloseInventory ==
  /\ stage = "inventory" /\ inventory # <<>> /\ Unlisted = {}
  /\ snap' = NoRow
  /\ stage' = IF Len(inventory) <= MaxTransfer THEN "post" ELSE "terminal"
  /\ UNCHANGED <<database, inventing, requested, spooling, pageCount, posting, polls, receiver>>

-----------------------------------------------------------------------------
(* Posting a page (_post_page_with_retries).  The receiver takes a data page  *)
(* in; with the last it applies the operation, at once or after the answer.   *)

Debit == transfer < MaxTransfer /\ transfer' = transfer + 1

OutOfBudget ==
  /\ stage \in {"post", "send"} /\ transfer = MaxTransfer
  /\ Raise("terminal")

Take ==
  /\ stage = "send"
  /\ got' = got \cup {page}
  /\ state' \in IF page = Len(pages) /\ state = "open" THEN {"applying", "complete"} ELSE {state}
  /\ UNCHANGED lacking

MayTake == Take \/ UNCHANGED receiver

\* A transient failure, the answer lost or none: again, until the attempts are used up.
Retry ==
  IF attempt = PageRetries THEN stage' = "transient" /\ UNCHANGED attempt
                           ELSE attempt' = attempt + 1 /\ UNCHANGED stage

PostFails ==
  /\ stage \in {"post", "send"} /\ Debit
  /\ Retry /\ MayTake
  /\ UNCHANGED <<database, snap, inventing, requested, spooling, pageCount, page, polls>>

\* Refused for good, or an answer that is no acknowledgement of this page.
PostRefused ==
  /\ stage \in {"post", "send"} /\ Debit
  /\ stage' = "terminal" /\ MayTake
  /\ UNCHANGED <<database, snap, inventing, requested, spooling, pageCount, page, attempt, polls>>

\* The receiver names what it lacks of this page, with the last page of all pages.
Needed ==
  LET rows == IF page < Len(inventory) THEN inventory[page] ELSE Listed
  IN lacking \cap (rows \cup Closure(rows))

\* record_needed: a match is requested with both of its artworks.
Asked == Needed \cup Closure(Needed \cap Matches)

\* The mutant does not start at the first data page.
DataFromHere == UNCHANGED page
DataFromFirst == page' = 1

PostInventory ==
  /\ stage = "post" /\ Debit
  /\ attempt' = 1
  /\ requested' = requested \cup Asked
  /\ IF page < Len(inventory) THEN page' = page + 1 /\ UNCHANGED stage
                              ELSE stage' = "data" /\ DataFromFirst
  /\ UNCHANGED <<database, snap, inventing, spooling, pageCount, polls, receiver>>

-----------------------------------------------------------------------------
(* Spooling the data pages (sync_data.py).  A batch of pairs is fetched first; *)
(* what it fetched, or a batch of artworks no requested match brings along, is *)
(* then materialized with its closure.  Either is halved while it is too large. *)

Fetch(S)                == [fetched |-> FALSE, rows |-> S, expected |-> S \cup Closure(S)]
Materialize(S, expected) == [fetched |-> TRUE, rows |-> S, expected |-> expected]

Extra(kind) == {e \in requested \cap Entities :
                  e[1] = kind /\ ~\E m \in requested \cap Matches : e \in Ends(m)}

\* What an iterator of the catalog has left, in the order they are used.
Waiting == LET left == <<(requested \cap Matches) \ taken, Extra("lost") \ taken,
                         Extra("auction") \ taken>>
           IN IF left[1] # {} THEN left[1] ELSE IF left[2] # {} THEN left[2] ELSE left[3]

\* The next batch of an iterator.
NextBatch ==
  /\ stage = "data" /\ snap # NoRow /\ todo = <<>> /\ Waiting # {}
  /\ LET rows == First(Waiting, DataPerPage)
     IN /\ todo' = <<IF rows \subseteq Matches THEN Fetch(rows) ELSE Materialize(rows, rows)>>
        /\ taken' = taken \cup rows
  /\ UNCHANGED <<database, snap, stage, inventing, requested, pages, pageCount, posting, polls,
                 receiver>>

LowerHalf(S) == First(S, Cardinality(S) \div 2)
UpperHalf(S) == S \ LowerHalf(S)

Current == stage = "data" /\ snap # NoRow /\ todo # <<>>

\* The rows themselves are too many bytes: nothing has been fetched, both halves are.
SplitPairs ==
  /\ Current /\ ~Head(todo).fetched /\ Cardinality(Head(todo).rows) > 1
  /\ todo' = <<Fetch(LowerHalf(Head(todo).rows)), Fetch(UpperHalf(Head(todo).rows))>> \o Tail(todo)
  /\ UNCHANGED <<database, snap, stage, inventing, requested, taken, pages, pageCount, posting, polls,
                 receiver>>

\* The rows that are left are fetched; what is expected of them stays.
FetchPairs ==
  /\ Current /\ ~Head(todo).fetched
  /\ todo' = <<Materialize({m \in Head(todo).rows : snap[m] # 0}, Head(todo).expected)>>
             \o Tail(todo)
  /\ UNCHANGED <<database, snap, stage, inventing, requested, taken, pages, pageCount, posting, polls,
                 receiver>>

\* Too large, before or after the content is verified.  The halves expect the rows they have.
HalfOf(S) == Materialize(S, S \cup Closure(S \cap Matches))

SplitContent ==
  /\ Current /\ Head(todo).fetched /\ Cardinality(Head(todo).rows) > 1
  /\ todo' = <<HalfOf(LowerHalf(Head(todo).rows)), HalfOf(UpperHalf(Head(todo).rows))>>
             \o Tail(todo)
  /\ UNCHANGED <<database, snap, stage, inventing, requested, taken, pages, pageCount, posting, polls,
                 receiver>>

\* verify_content: exactly the expected rows, each with the hash that was advertised.
Actual(task) == {r \in task.rows \cup Closure(task.rows \cap Matches) : snap[r] # 0}
Verified(task) ==
  /\ Actual(task) = task.expected
  /\ \A r \in Actual(task) : snap[r] = advertised[r]

ContentChanged == Current /\ Head(todo).fetched /\ ~Verified(Head(todo)) /\ Raise("transient")

WritePage(rows) ==
  /\ PageFits(0)
  /\ pages' = Append(pages, {<<r, snap[r]>> : r \in rows})
  /\ pageCount' = pageCount + 1
  /\ UNCHANGED <<database, snap, stage, inventing, requested, taken, posting, polls, receiver>>

SpoolContent ==
  /\ Current /\ Head(todo).fetched /\ Verified(Head(todo))
  /\ todo' = Tail(todo)
  /\ WritePage(Actual(Head(todo)))

Spooled == stage = "data" /\ snap # NoRow /\ todo = <<>> /\ Waiting = {}

\* Nothing was requested: one empty page closes the operation.
SpoolEmpty == Spooled /\ pages = <<>> /\ UNCHANGED todo /\ WritePage({})

CloseData ==
  /\ Spooled /\ pages # <<>>
  /\ snap' = NoRow
  /\ stage' = IF Len(inventory) + Len(pages) <= MaxTransfer THEN "send" ELSE "terminal"
  /\ UNCHANGED <<database, inventing, requested, spooling, pageCount, posting, polls, receiver>>

-----------------------------------------------------------------------------
(* Data pages, and the wait for the receiver to apply them. *)

PostData ==
  /\ stage = "send" /\ Debit /\ Take
  /\ attempt' = 1
  /\ IF page < Len(pages)
       THEN page' = page + 1 /\ UNCHANGED stage
       ELSE /\ UNCHANGED page
            /\ \/ state' \in {"complete", "superseded"} /\ stage' = "ok"
               \/ state' = "applying" /\ stage' = "apply"
  /\ UNCHANGED <<database, snap, inventing, requested, spooling, pageCount, polls>>

\* One status request: no answer for now, still applying, done, failed, or no valid answer.
\* The mutant takes the silence of a receiver for success.
PolledHopeful ==
  \/ polls < PollCount /\ polls' = polls + 1 /\ stage' = IF polls' = PollCount THEN "ok" ELSE stage
  \/ state \in {"complete", "superseded"} /\ stage' = "ok" /\ UNCHANGED polls
Polled ==
  \/ polls < PollCount /\ polls' = polls + 1 /\ UNCHANGED stage
  \/ polls < PollCount /\ state \in {"complete", "superseded"} /\ stage' = "ok" /\ UNCHANGED polls
  \/ stage' = "terminal" /\ UNCHANGED polls

PollStatus ==
  /\ stage = "apply" /\ Polled
  /\ UNCHANGED <<database, snap, inventing, requested, spooling, pageCount, posting, receiver>>

\* The receiver, in its own time.
Applied ==
  /\ state = "applying"
  /\ state' \in {"complete", "superseded", "failed"}
  /\ UNCHANGED <<database, snap, stage, inventing, requested, spooling, pageCount, posting, polls,
                 lacking, got>>

\* The worker's alarm (telemetry/cli.py).
WorkerAlarm == stage \notin Over /\ Raise("deadline")

Sender ==
  \/ OpenSnapshot \/ SpoolFails \/ SpoolInventory \/ CloseInventory
  \/ OutOfBudget \/ PostFails \/ PostRefused \/ PostInventory
  \/ NextBatch \/ SplitPairs \/ FetchPairs \/ SplitContent \/ ContentChanged \/ SpoolContent
  \/ SpoolEmpty \/ CloseData \/ PostData \/ PollStatus

SyncNext == Sender \/ WorkerAlarm \/ Change \/ Applied

SyncSpec     == SyncInit /\ [][SyncNext]_syncVars
SyncFairSpec == SyncSpec /\ WF_syncVars(Sender)

-----------------------------------------------------------------------------
(* Properties *)

Sent == UNION {pages[i] : i \in 1 .. Len(pages)}

\* The type invariant: attempts stay within PAGE_RETRIES, the transfer within its budget, and
\* a snapshot is open only while pages are spooled.
SyncTypeOK ==
  /\ db \in [Rows -> Nat] /\ snap \in [Rows -> Nat] /\ advertised \in [Rows -> Nat]
  /\ changes \in 0 .. MaxChanges
  /\ stage \in Over \cup {"inventory", "post", "data", "send", "apply"}
  /\ inventory \in Seq(SUBSET Matches) /\ requested \subseteq Rows /\ taken \subseteq Rows
  /\ todo \in Seq([fetched : BOOLEAN, rows : SUBSET Rows, expected : SUBSET Rows])
  /\ pageCount \in 0 .. MaxPages /\ page \in Nat \ {0}
  /\ attempt \in 1 .. PageRetries /\ transfer \in 0 .. MaxTransfer /\ polls \in 0 .. PollCount
  /\ lacking \subseteq Rows /\ got \subseteq 1 .. Len(pages)
  /\ state \in {"open", "applying", "complete", "superseded", "failed"}
  /\ snap # NoRow => stage \in {"inventory", "data"}

\* telemetry/README.md 95, "Current row hashes must still match the advertised inventory": no
\* data page holds a row that changed between the snapshots.
SentIsAdvertised == \A x \in Sent : x[2] = advertised[x[1]] /\ x[2] # 0

\* However the batches are split, what the receiver asked for is in a page once the pages are
\* sent, unless it is gone, or the match that brought it along is.
SentOrGone ==
  stage \in {"send", "apply", "ok"} =>
    \A r \in requested :
      \/ <<r, advertised[r]>> \in Sent
      \/ db[r] = 0
      \/ \E m \in requested \cap Matches : r \in Ends(m) /\ db[m] = 0

\* However rows change between the snapshots, batches are split, pages are retried and answers
\* lost: the receiver applies an operation only when it has all of its pages, and these are
\* what was advertised and asked for.
AppliedIsWhole ==
  /\ SentIsAdvertised
  /\ SentOrGone
  /\ state # "open" => got = 1 .. Len(pages)

\* The operation ends with one outcome, and success is never reported for an operation that the
\* receiver has not applied.
Operation == INSTANCE SyncOperation WITH
  outcome <- IF stage \in Over THEN stage ELSE "running",
  applied <- state \in {"complete", "superseded"}
OperationKept == Operation!Spec
=============================================================================
