---------------------------- MODULE ScraperRuns ----------------------------
(***************************************************************************)
(* The runs of one scraper: worker processes that take its PostgreSQL      *)
(* advisory lock (scrapers/run_lock.py), record a scraper_run row, purge   *)
(* and commit batches of entries behind a fence and write how the run      *)
(* ended (scrapers/orchestrator.py), and the dashboard's orchestrator,     *)
(* which finds the rows of workers that are gone and marks them as         *)
(* interrupted.                                                            *)
(*                                                                         *)
(* The lock belongs to a session of its own: it can be lost while the      *)
(* worker lives, and outlives a worker until the server notices.  Every    *)
(* transaction's COMMIT can outlive its client: the process is killed, or  *)
(* its connection breaks, and the server has still to decide.  Entries are *)
(* counted, as the code does; a run's number is its place in the order of  *)
(* started_at.                                                             *)
(***************************************************************************)
EXTENDS Integers, FiniteSets

CONSTANTS
  Worker,       \* worker processes of this scraper
  Reconciler,   \* orchestrators that reconcile interrupted runs
  Free,         \* the lock when nobody holds it
  MaxRuns,      \* bound: worker processes started
  MaxEntries,   \* bound: entries ever committed
  MaxBreaks,    \* bound: processes killed and connections broken
  MaxLosses,    \* bound: lock sessions lost under a live process
  MaxFaults,    \* bound: failing scrapes and statements
  MaxTroubles   \* bound: the last three together

ASSUME RunsAssumption ==
  /\ Worker \cap Reconciler = {} /\ Free \notin Worker \cup Reconciler
  /\ MaxRuns \in Nat /\ MaxEntries \in Nat
  /\ MaxBreaks \in Nat /\ MaxLosses \in Nat /\ MaxFaults \in Nat
  /\ MaxTroubles \in Nat

Process == Worker \cup Reconciler
Run == 1..MaxRuns

VARIABLES
  \* --- the database
  lock,      \* the process whose session holds the advisory lock
  rows,      \* scraper_run rows
  started,   \* how many run numbers are taken
  entries,   \* entries of this scraper
  wire,      \* transactions whose COMMIT the server has not decided, their clients gone on
  \* --- the processes
  pc, mine, purge, before, result, stale,
  \* --- history: entries ever committed; batches a worker sent after it had lost its
  \*     lock; runs not settled when the row of a later run was sent; rows ended by a
  \*     COMMIT whose client had gone on; bounds
  made, late, behind, landed, launches, breaks, losses, faults

database == <<lock, rows, started, entries, wire>>
local    == <<mine, purge, before, result, stale>>
history  == <<made, late, behind, landed>>
bounds   == <<launches, breaks, losses, faults>>
vars     == <<database, pc, local, history, bounds>>

\* The columns total_entries and entries_scraped, with the history of the total: where it
\* comes from, and the entries ever committed when it was counted.
NoCount == [total |-> 0, new |-> 0, at |-> 0, from |-> "none"]
NoRow   == [status |-> "none", counts |-> NoCount]

Init ==
  /\ lock = Free /\ started = 0 /\ entries = 0 /\ wire = {}
  /\ rows = [r \in Run |-> NoRow]
  /\ pc = [p \in Process |-> "off"]
  /\ mine = [w \in Worker |-> 0] /\ purge = [w \in Worker |-> "none"]
  /\ before = [w \in Worker |-> NoCount] /\ result = [w \in Worker |-> NoCount]
  /\ stale = [p \in Process |-> {}]
  /\ made = 0 /\ late = [w \in Worker |-> 0] /\ behind = {} /\ landed = {}
  /\ launches = 0 /\ breaks = 0 /\ losses = 0 /\ faults = 0

To(p, l) == pc' = [pc EXCEPT ![p] = l]
Room  == breaks + losses + faults < MaxTroubles
Fault == /\ Room /\ faults < MaxFaults /\ faults' = faults + 1
         /\ UNCHANGED <<launches, breaks, losses>>
Break == /\ Room /\ breaks < MaxBreaks /\ breaks' = breaks + 1
         /\ UNCHANGED <<launches, losses, faults>>

-----------------------------------------------------------------------------
(* What the statements compute.                                            *)

Finished(r) == rows[r].status \in {"completed", "failed"}
Running(r)  == rows[r].status = "running"
Ended       == {r \in Run : Finished(r)}

Over(a, b) == IF a > b THEN a - b ELSE 0

\* Before the first run there is nothing, and that is known.
NoPrior == [NoCount EXCEPT !.from = "before"]

\* _baseline_from_prior_run: the run among those over, other than r, that started last.
Latest(r, done) == CHOOSE q \in done \ {r} : \A o \in done \ {r} : o <= q
Prior(r, done) == IF done \ {r} = {} THEN NoPrior ELSE rows[Latest(r, done)].counts

CountOver(base) ==
  [total |-> entries, new |-> Over(entries, base), at |-> made, from |-> "count"]

\* _collect_entry_counts, _backfill_counts: the entries of now, and those over the baseline.
Counted(r) == CountOver(Prior(r, Ended).total)

\* Mutant: another session's lock is taken for one's own.
HeldBySomeone(w) == lock # Free

\* ensure_held asks pg_locks, in the session of the lease.
Held(w) == lock = w

-----------------------------------------------------------------------------
(* Transactions: the rows they write, and what they do to the entries.     *)

Tx(p, written, work) == [by |-> p, nth |-> started, rows |-> written, lots |-> work]
Only(r, row) == [q \in {r} |-> row]
NoRows == [q \in {} |-> NoRow]

\* Mutant: the counts of an interrupted run are not filled in.
InterruptedUncounted(p, uncounted, place) ==
  [r \in stale[p] |-> [rows[r] EXCEPT !.status = "failed"]]

\* Rows that look interrupted are marked as failed, one after the other in no particular
\* order, with the counts of now (_mark_run_interrupted, _backfill_counts), or without if
\* counting raises.
Interrupted(p, uncounted, place) ==
  [r \in stale[p] |->
     LET stamped == {q \in stale[p] : place[q] < place[r]}
         done == Ended \cup stamped
         base == IF done \ {r} # {} /\ Latest(r, done) \in stamped \ uncounted
                 THEN entries ELSE Prior(r, done).total
     IN [status |-> "failed",
         counts |-> IF r \in uncounted THEN rows[r].counts ELSE CountOver(base)]]

Orders(S) == {place \in [S -> 1..Cardinality(S)] : \A q, r \in S : place[q] = place[r] => q = r}

\* The transaction whose COMMIT p sends next.
Sent(p) ==
  CASE pc[p] = "insert" ->
         {Tx(p, Only(started + 1, [NoRow EXCEPT !.status = "running"]), {})}
    [] pc[p] = "stamp" -> {Tx(p, Interrupted(p, {}, place), {}) : place \in Orders(stale[p])}
    [] pc[p] = "begin" -> {Tx(p, NoRows, {"purge"})}
    [] pc[p] = "commit" ->
         {Tx(p, NoRows, IF purge[p] = "batch" THEN {"purge", "add"} ELSE {"add"})}
    [] pc[p] = "checkpoint" ->
         {Tx(p, IF Running(mine[p])
                THEN Only(mine[p], [status |-> "running", counts |-> Counted(mine[p])])
                ELSE NoRows, {})}
    [] pc[p] \in {"completed", "failed"} ->
         {Tx(p, Only(mine[p], [status |-> pc[p], counts |-> result[p]]), {})}
    [] OTHER -> {}

\* A row that an undecided transaction has written is locked.
Locked == UNION {DOMAIN t.rows : t \in wire}
Unlocked(t) == DOMAIN t.rows \cap Locked = {}

\* The server commits: a purge removes what its DELETE saw, a batch may add an entry.
Apply(t) ==
  /\ rows' = [r \in Run |-> IF r \in DOMAIN t.rows THEN t.rows[r] ELSE rows[r]]
  /\ \E add  \in IF "add" \in t.lots THEN {0, 1} ELSE {0},
        kept \in IF "purge" \in t.lots THEN 0..entries ELSE {entries} :
       entries' = kept + add /\ made' = made + add /\ made' <= MaxEntries

\* What is taken note of when p sends its COMMIT: the number of its row, and a batch
\* without the lock.
Sending(p) ==
  /\ started' = IF pc[p] = "insert" THEN started + 1 ELSE started
  /\ behind' = IF pc[p] = "insert"
               THEN behind \cup {r \in Run : Running(r) \/ r \in Locked} ELSE behind
  /\ late' = IF pc[p] \in {"begin", "commit"} /\ lock # p
             THEN [late EXCEPT ![p] = @ + 1] ELSE late

\* p commits, and has the answer.
Commit(p) ==
  /\ \E t \in Sent(p) : Unlocked(t) /\ Apply(t)
  /\ Sending(p)
  /\ UNCHANGED <<lock, wire, landed>>

-----------------------------------------------------------------------------
(* A worker.                                                               *)

\* Workers that have not taken the lock are alike, so it makes no difference which is next.
First(w, place) == pc[w] = place /\ w = CHOOSE v \in Worker : pc[v] = place

Launch(w) ==
  /\ First(w, "off") /\ launches < MaxRuns
  /\ launches' = launches + 1 /\ To(w, "acquire")
  /\ UNCHANGED <<database, local, history, breaks, losses, faults>>

\* pg_try_advisory_lock.
Acquire(w) ==
  /\ First(w, "acquire") /\ lock = Free
  /\ lock' = w /\ To(w, "select")
  /\ UNCHANGED <<rows, started, entries, wire, local, history, bounds>>

\* Twenty attempts found the lock taken.
Skip(w) ==
  /\ First(w, "acquire") /\ lock # Free
  /\ To(w, "off")
  /\ UNCHANGED <<database, local, history, bounds>>

\* What follows the interrupted rows.
Onward(p) == IF p \in Worker THEN "insert" ELSE "release"

\* Mutant: rows without progress are left out.
InterruptedWithProgress == {r \in Run : Running(r) /\ rows[r].counts.total > 0}

\* The rows that look interrupted to one who holds the lock.
LooksInterrupted == {r \in Run : Running(r)}

\* _finalize_interrupted_runs_for_scraper: they are read ...
SelectStale(p) ==
  /\ pc[p] = "select"
  /\ stale' = [stale EXCEPT ![p] = LooksInterrupted]
  /\ To(p, IF LooksInterrupted = {} THEN Onward(p) ELSE "stamp")
  /\ UNCHANGED <<database, mine, purge, before, result, history, bounds>>

\* ... and stamped.
Stamp(p) ==
  /\ pc[p] = "stamp" /\ Commit(p) /\ To(p, Onward(p))
  /\ UNCHANGED <<local, bounds>>

\* A count raises, and is passed over: rows are stamped without counts, or, when the
\* failed statement has undone the transaction, not at all.
StampUncounted(p) ==
  /\ pc[p] = "stamp" /\ Fault /\ To(p, Onward(p))
  /\ \/ UNCHANGED rows
     \/ \E uncounted \in SUBSET stale[p] \ {{}}, place \in Orders(stale[p]) :
          LET written == Interrupted(p, uncounted, place) IN
          /\ stale[p] \cap Locked = {}
          /\ rows' = [r \in Run |-> IF r \in stale[p] THEN written[r] ELSE rows[r]]
  /\ UNCHANGED <<lock, started, entries, wire, local, history>>

\* The run's row, committed on its own.
Insert(w) ==
  /\ pc[w] = "insert" /\ Commit(w)
  /\ mine' = [mine EXCEPT ![w] = started + 1]
  /\ To(w, "baseline")
  /\ UNCHANGED <<purge, before, result, stale, bounds>>

\* count_before.
CountBefore(w) ==
  /\ pc[w] = "baseline"
  /\ before' = [before EXCEPT ![w] =
       [total |-> entries, new |-> 0, at |-> made, from |-> "before"]]
  /\ To(w, "start")
  /\ UNCHANGED <<database, mine, purge, result, stale, history, bounds>>

\* The fences: before the scraper runs, by hand with or without --purge, which Lost Art
\* commits on its own and the auction platforms with their first batch ...
FirstFence(w) ==
  /\ pc[w] = "start"
  /\ \/ /\ Held(w)
        /\ \E k \in {"none", "own", "batch"} :
             purge' = [purge EXCEPT ![w] = k] /\ To(w, IF k = "own" THEN "begin" ELSE "scrape")
     \/ ~Held(w) /\ To(w, "fail") /\ UNCHANGED purge
  /\ UNCHANGED <<database, mine, before, result, stale, history, bounds>>

\* ... before a batch is committed (or progress is published), and when it has run.
Fence(w) ==
  /\ pc[w] \in {"scrape", "ended"}
  /\ To(w, IF ~Held(w) THEN "fail" ELSE IF pc[w] = "scrape" THEN "commit" ELSE "count")
  /\ UNCHANGED <<database, local, history, bounds>>

\* A purge in a transaction of its own, behind the first fence.
PurgeFirst(w) ==
  /\ pc[w] = "begin" /\ Commit(w)
  /\ purge' = [purge EXCEPT ![w] = "none"]
  /\ To(w, "scrape")
  /\ UNCHANGED <<mine, before, result, stale, bounds>>

\* Discovery found no URL: a purge that waits for its batch is refused.
NothingToDo(w) ==
  /\ pc[w] = "scrape"
  /\ To(w, IF purge[w] = "batch" THEN "fail" ELSE "ended")
  /\ UNCHANGED <<database, local, history, bounds>>

CommitBatch(w) ==
  /\ pc[w] = "commit" /\ Commit(w)
  /\ purge' = [purge EXCEPT ![w] = "none"]
  /\ To(w, "checkpoint")
  /\ UNCHANGED <<mine, before, result, stale, bounds>>

\* checkpoint_progress, and the next batch or the end of the queue.
Checkpoint(w) ==
  /\ pc[w] = "checkpoint"
  /\ IF Held(w)
     THEN Commit(w) /\ \E l \in {"scrape", "ended"} : To(w, l)
     ELSE To(w, "fail") /\ UNCHANGED <<database, history>>
  /\ UNCHANGED <<local, bounds>>

\* An import, a page or a statement that raises, the count before the run among them; before
\* there is a row of the run, nothing is recorded.
RunFails(w) ==
  /\ pc[w] \in {"select", "stamp", "insert", "baseline", "start", "begin", "scrape", "commit",
                "checkpoint", "ended"}
  /\ Fault
  /\ To(w, IF pc[w] \in {"select", "stamp", "insert"} THEN "release" ELSE "fail")
  /\ UNCHANGED <<database, local, history>>

\* _collect_entry_counts.
Count(w) ==
  /\ pc[w] \in {"count", "fail"}
  /\ result' = [result EXCEPT ![w] = Counted(mine[w])]
  /\ To(w, IF pc[w] = "count" THEN "completed" ELSE "failed")
  /\ UNCHANGED <<database, mine, purge, before, stale, history, bounds>>

\* It raises: a completed run becomes a failed one, a failed run falls back to the
\* count from before, or to 0 when there is none.
CountFails(w) ==
  /\ pc[w] \in {"count", "fail"} /\ Fault
  /\ result' = [result EXCEPT ![w] = before[w]]
  /\ To(w, IF pc[w] = "count" THEN "fail" ELSE "failed")
  /\ UNCHANGED <<database, mine, purge, before, stale, history>>

\* The row's last UPDATE, by its run_id, whatever its status is by now.
Record(w) ==
  /\ pc[w] \in {"completed", "failed"} /\ Commit(w)
  /\ To(w, "release")
  /\ UNCHANGED <<local, bounds>>

\* A COMMIT that gets no answer.  A missed checkpoint is passed over; from the success
\* path it goes into the failure path, from there out.
CommitFails(p) ==
  /\ Break
  /\ \E t \in Sent(p) : Unlocked(t) /\ wire' = wire \cup {t}
  /\ Sending(p)
  /\ pc[p] = "checkpoint" => Held(p)
  /\ \E l \in CASE pc[p] \in {"insert", "stamp", "failed"}  -> {"release"}
                [] pc[p] \in {"begin", "commit", "completed"} -> {"fail"}
                [] OTHER                                      -> {"scrape", "ended"} : To(p, l)
  /\ UNCHANGED <<lock, rows, entries, local, made, landed>>

\* Nothing of a process is left.
Gone(p) ==
  /\ stale' = [stale EXCEPT ![p] = {}]
  /\ IF p \in Worker
     THEN /\ mine' = [mine EXCEPT ![p] = 0] /\ purge' = [purge EXCEPT ![p] = "none"]
          /\ before' = [before EXCEPT ![p] = NoCount] /\ result' = [result EXCEPT ![p] = NoCount]
          /\ late' = [late EXCEPT ![p] = 0]
     ELSE UNCHANGED <<mine, purge, before, result, late>>

\* lease.release; the process ends.
Release(p) ==
  /\ pc[p] = "release"
  /\ lock' = IF lock = p THEN Free ELSE lock
  /\ To(p, "off")
  /\ Gone(p)
  /\ UNCHANGED <<rows, started, entries, wire, made, behind, landed, bounds>>

-----------------------------------------------------------------------------
(* The dashboard's orchestrator.                                           *)

\* Mutant: rows are taken for interrupted without the lock.
PollUnlocked(p) ==
  /\ pc[p] = "off"
  /\ IF \E r \in Run : Running(r) THEN To(p, "select") ELSE UNCHANGED pc
  /\ UNCHANGED <<database, local, history, bounds>>

\* _finalize_interrupted_runs: only with an unfinished run, and only with the lock.
Poll(p) ==
  /\ pc[p] = "off"
  /\ IF lock = Free /\ \E r \in Run : Running(r)
     THEN lock' = p /\ To(p, "select")
     ELSE UNCHANGED <<lock, pc>>
  /\ UNCHANGED <<rows, started, entries, wire, local, history, bounds>>

-----------------------------------------------------------------------------
(* Deaths, lost sessions, and COMMITs on their way.                        *)

Alive(p) == pc[p] \notin {"off", "dead"}

\* A process is killed; the COMMIT it may have sent is still on its way.
Die(p) ==
  /\ Alive(p) /\ Break
  /\ To(p, "dead")
  /\ \/ UNCHANGED <<wire, started, behind, late>>
     \/ /\ \E t \in Sent(p) : Unlocked(t) /\ wire' = wire \cup {t}
        /\ Sending(p)
  /\ UNCHANGED <<lock, rows, entries, local, made, landed>>

\* The server commits for a client that has gone on, or it does not.
Land(t) ==
  /\ t \in wire /\ wire' = wire \ {t} /\ Apply(t)
  /\ landed' = landed \cup {r \in DOMAIN t.rows : t.rows[r].status # "running"}
  /\ UNCHANGED <<lock, started, pc, local, late, behind, bounds>>

Lose(t) ==
  /\ t \in wire /\ wire' = wire \ {t}
  /\ UNCHANGED <<lock, rows, started, entries, pc, local, history, bounds>>

\* The server ends the lock session of a process that is gone ...
DropSession(p) ==
  /\ pc[p] = "dead" /\ lock = p
  /\ lock' = Free
  /\ UNCHANGED <<rows, started, entries, wire, pc, local, history, bounds>>

Reap(p) ==
  /\ pc[p] = "dead" /\ lock # p
  /\ To(p, "off")
  /\ Gone(p)
  /\ UNCHANGED <<database, made, behind, landed, bounds>>

\* ... or of one that lives (backend terminated, network).
LoseLock(p) ==
  /\ lock = p /\ Alive(p)
  /\ Room /\ losses < MaxLosses /\ losses' = losses + 1
  /\ lock' = Free
  /\ UNCHANGED <<rows, started, entries, wire, pc, local, history, launches, breaks, faults>>

-----------------------------------------------------------------------------
Work(w) ==
  \/ Acquire(w) \/ Skip(w) \/ SelectStale(w) \/ Stamp(w) \/ Insert(w) \/ CountBefore(w)
  \/ FirstFence(w) \/ Fence(w) \/ PurgeFirst(w) \/ NothingToDo(w) \/ CommitBatch(w) \/ Checkpoint(w)
  \/ Count(w) \/ Record(w) \/ Release(w)

Reconcile(p) == Poll(p) \/ SelectStale(p) \/ Stamp(p) \/ Release(p)

Session(p) == DropSession(p) \/ Reap(p)
Decide(p)  == \E t \in wire : t.by = p /\ (Land(t) \/ Lose(t))

Next ==
  \/ \E w \in Worker : Launch(w) \/ Work(w) \/ RunFails(w) \/ CountFails(w)
  \/ \E p \in Reconciler : Reconcile(p)
  \/ \E p \in Process : \/ StampUncounted(p) \/ CommitFails(p) \/ Die(p) \/ LoseLock(p)
                        \/ Session(p) \/ Decide(p)

Spec == Init /\ [][Next]_vars

\* Workers and the server take their steps, a queue of URLs is finite, and the
\* dashboard goes on polling.
FairSpec ==
  /\ Spec
  /\ WF_vars(\E p \in Process : Session(p)) /\ WF_vars(\E p \in Process : Decide(p))
  /\ \A w \in Worker : WF_vars(Work(w)) /\ SF_vars(Checkpoint(w) /\ pc'[w] # "scrape")
  /\ \A p \in Reconciler : WF_vars(Reconcile(p))

-----------------------------------------------------------------------------
(* Properties.                                                             *)

Counts == [total : 0..MaxEntries, new : 0..MaxEntries, at : 0..MaxEntries,
           from : {"none", "before", "count"}]
Row == [status : {"none", "running", "completed", "failed"}, counts : Counts]
TransactionOK(t) ==
  /\ t.by \in Process /\ t.nth \in 0..MaxRuns /\ t.lots \subseteq {"purge", "add"}
  /\ DOMAIN t.rows \subseteq Run /\ \A r \in DOMAIN t.rows : t.rows[r] \in Row

\* The state has its type, and rows exist in the order they were started.
TypeOK ==
  /\ lock \in Process \cup {Free}
  /\ rows \in [Run -> Row] /\ started \in 0..MaxRuns /\ entries \in 0..MaxEntries
  /\ \A r \in Run : r > started => rows[r] = NoRow
  /\ \A t \in wire : TransactionOK(t)
  /\ pc \in [Process -> {"off", "acquire", "select", "stamp", "insert", "baseline", "start",
                         "begin", "scrape", "commit", "checkpoint", "ended", "count",
                         "completed", "fail", "failed", "release", "dead"}]
  /\ mine \in [Worker -> 0..MaxRuns] /\ purge \in [Worker -> {"none", "own", "batch"}]
  /\ before \in [Worker -> Counts] /\ result \in [Worker -> Counts]
  /\ stale \in [Process -> SUBSET Run]
  /\ made \in 0..MaxEntries /\ late \in [Worker -> Nat]
  /\ behind \subseteq Run /\ landed \subseteq Run
  /\ launches \in 0..MaxRuns /\ breaks \in 0..MaxBreaks
  /\ losses \in 0..MaxLosses /\ faults \in 0..MaxFaults

\* A worker whose lock is gone commits at most the batch (or the purge) whose fence it had
\* passed (the fences of orchestrator.py:705-717).
OneLateBatch == \A w \in Worker : late[w] <= 1

\* Whether runs completed, failed or were interrupted, with purges among them, the new
\* entries of a run are those its total has over the total of the run before, and no more
\* than were committed in between: none is counted twice (orchestrator.py:389-393).  This
\* is while no lock session is lost and each run is settled before the next begins.  A run
\* whose own count fails reports the count from before it and nothing new (754-757); one
\* with no count at all (from "none") has the total 0, and the next run reports every entry
\* as new once more: the amount over such a total is the exception.
NewEntriesAddUp ==
  losses = 0 /\ behind = {} =>
    \A r \in Ended :
      LET c == rows[r].counts
          p == Prior(r, {q \in Ended : q < r}) IN
      /\ c.new = IF c.from = "count" THEN Over(c.total, p.total) ELSE 0
      /\ "none" \notin {c.from, p.from} => c.at >= p.at /\ c.new <= c.at - p.at
      /\ faults = 0 => c.from = "count"

\* While no lock session is lost, the row of a live worker is ended by that worker only
\* (orchestrator.py:210-221), and a row that is over stays as it is: no late write of a
\* worker, by run_id, meets a row another process has finished (774).  Only a row whose end
\* was committed behind its process's back may still be marked as failed.
EndedByItsOwner ==
  [][losses = 0 =>
       /\ \A r \in Ended : \/ rows'[r] = rows[r]
                           \/ r \in landed /\ rows'[r].status = "failed"
       /\ \A w \in Worker :
            Alive(w) /\ mine[w] # 0 /\ Running(mine[w]) /\ rows'[mine[w]].status # "running"
              => \/ pc[w] \in {"completed", "failed"} /\ pc'[w] = "release"
                 \/ \E t \in wire \ wire' : t.by = w]_vars

\* A row at status running is finished in the end: by its worker, or by the next
\* worker or the dashboard when that worker is gone.
RunsFinish == \A r \in Run : (rows[r].status = "running") ~> (rows[r].status # "running")

=============================================================================
