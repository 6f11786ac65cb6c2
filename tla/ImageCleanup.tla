---------------------------- MODULE ImageCleanup ----------------------------
(***************************************************************************)
(* The crash-safe deletion of unmatched auction images: the apply mode of  *)
(* scrapers/image_cleanup/cleanup.py, against the PostgreSQL server that   *)
(* runs its transaction, the image store (a directory tree), the coordinated *)
(* image writers (scrapers, image blocking) and the matching pipeline.     *)
(*                                                                         *)
(* Data is abstracted to what the properties tell apart: a resolved path   *)
(* is a member of Target, the bytes of a file are a version number of its  *)
(* target (0: no file), and an operation id is a pair <<target, n>>.       *)
(***************************************************************************)
EXTENDS Integers, FiniteSets

CONSTANTS
  Row,            \* image_file rows, inserted or not yet
  Target,         \* resolved paths below SMARTMATCH_IMAGES_DIR
  TargetOf,       \* the target each row's file_path resolves to
  Canonical,      \* the rows whose file_path is the canonical path
  Writer,         \* processes that write images under the shared lock
  MaxVersion,     \* bound: how often a target's bytes are written
  OpsPerTarget,   \* bound: quarantine operations of a target at a time
  MaxCrashes,     \* bound: process deaths and power losses
  MaxFaults,      \* bound: failing system calls and lost connections
  MaxRuns         \* bound: writer runs

ASSUME ConstantsAssumption ==
  /\ IsFiniteSet(Row)
  /\ TargetOf \in [Row -> Target]
  /\ Canonical \subseteq Row
  /\ MaxVersion \in Nat \ {0}
  /\ OpsPerTarget \in Nat \ {0}
  /\ MaxCrashes \in Nat /\ MaxFaults \in Nat /\ MaxRuns \in Nat

Op == Target \X (1..OpsPerTarget)
NoOp == <<>>
Use == {"candidate", "protected", "idle"}
Version == 0..MaxVersion

VARIABLES
  \* --- committed database state
  rowState,   \* "unborn"; "live": file_path set; "cleaned": file_path NULL, cleaned_up_at set
  use,        \* what the row's links and scores make of it
  runRow,     \* writers with a scraper_run row at status 'running'
  \* --- the cleanup transaction as the server sees it
  txn,        \* "none", "open" (advisory and table locks held), "committing"
  marks,      \* rows its UPDATE marked cleaned
  verdict,    \* what became of the last COMMIT
  \* --- the image store
  orig,       \* version at the original path
  journal,    \* journal file of an operation: "none", "tmp" or "live"
  named,      \* the image_file_ids a journal names
  data,       \* version in the operation's staged file
  lag,        \* earlier states of the store a power loss can still bring back
  \* --- the cleanup process
  pc, cur, mode, pending, failed, todo, opened, cleanedIds, staged,
  \* --- the writers
  wpc, fetched,
  \* --- history: versions written, removed by hand, deleted by a commit; bounds
  written, lost, condemned, crashes, faults, runs

db      == <<rowState, use, runRow>>
server  == <<txn, marks, verdict>>
store   == <<orig, journal, named, data>>
local   == <<cur, mode, pending, failed, todo, opened, cleanedIds, staged>>
writers == <<wpc, fetched, runs>>
history == <<written, lost, condemned>>
bounds  == <<crashes, faults>>
vars    == <<db, server, store, lag, pc, local, writers, history, bounds>>

-----------------------------------------------------------------------------
(* The image store.                                                        *)

StoreState == [orig : [Target -> Version], journal : [Op -> {"none", "tmp", "live"}],
               named : [Op -> SUBSET Row], data : [Op -> Version]]
Now == [orig |-> orig, journal |-> journal, named |-> named, data |-> data]

\* The directories are fsynced: nothing older can come back.
Synced   == lag' = {}
\* The change is in the page cache only.
Unsynced == lag' = lag \cup {Now}
\* What a power loss can leave on disk.
OnDisk   == lag \cup {Now}

Empty(o)    == journal[o] = "none" /\ data[o] = 0
Occupied(o) == ~Empty(o)
Journals    == {o \in Op : journal[o] = "live"}

\* _unlink_if_exists on the journal of o.
UnlinkJournal(o) ==
  /\ journal' = [journal EXCEPT ![o] = "none"]
  /\ named' = [named EXCEPT ![o] = {}]

\* The staged file of o is renamed to its original path.
PutBack(o) ==
  /\ orig' = [orig EXCEPT ![o[1]] = data[o]]
  /\ data' = [data EXCEPT ![o] = 0]

\* _restore_quarantined_file: the file is still, or again, at its path ...
AtPath(o)     == data[o] = 0 /\ orig[o[1]] # 0
\* ... or can be renamed back; otherwise the code raises.
Restorable(o) == data[o] # 0 /\ orig[o[1]] = 0

-----------------------------------------------------------------------------
(* What the database says of a target.                                     *)

Live(t)       == {r \in Row : rowState[r] = "live" /\ TargetOf[r] = t}
Candidates(t) == {r \in Live(t) : use[r] = "candidate"}
Protected(t)  == \E r \in Live(t) : use[r] = "protected"

\* The operations of _cleanup_inventory: some alias is a candidate, none
\* protects the file, and a candidate names it by its canonical path.
Deletable == {t \in Target : /\ ~Protected(t)
                             /\ Candidates(t) \cap Canonical # {}}

\* _quarantine_transaction_committed: all rows cleaned, or all still live.
AllCleaned(R) == \A r \in R : rowState[r] = "cleaned"
AllLive(R)    == \A r \in R : rowState[r] = "live"

-----------------------------------------------------------------------------
\* image_file.file_path is UNIQUE: one live row per canonical path.
UniquePaths == \A r, q \in Canonical :
  /\ rowState[r] = "live" /\ rowState[q] = "live" /\ TargetOf[r] = TargetOf[q]
  => r = q

Init ==
  /\ rowState \in [Row -> {"unborn", "live"}]
  /\ use \in [Row -> Use]
  /\ \A r \in Row : rowState[r] = "unborn" => use[r] = "idle"
  /\ UniquePaths
  /\ runRow = {} /\ txn = "none" /\ marks = {} /\ verdict = "none"
  /\ orig \in [Target -> {0, 1}]
  /\ \A t \in Target : Live(t) = {} => orig[t] = 0
  /\ written = orig
  /\ journal = [o \in Op |-> "none"] /\ named = [o \in Op |-> {}]
  /\ data = [o \in Op |-> 0] /\ lag = {}
  /\ pc = "idle" /\ cur = NoOp /\ mode = "none" /\ pending = {} /\ failed = FALSE
  /\ todo = {} /\ opened = 0 /\ cleanedIds = {} /\ staged = {}
  /\ wpc = [w \in Writer |-> "off"] /\ fetched = [w \in Writer |-> {}]
  /\ condemned = [t \in Target |-> {}] /\ lost = [t \in Target |-> {}]
  /\ crashes = 0 /\ faults = 0 /\ runs = 0

-----------------------------------------------------------------------------
(* The cleanup process.  Between two of its steps it may be killed.        *)

\* An environment failure that a step meets.
Fault == faults < MaxFaults /\ faults' = faults + 1 /\ UNCHANGED crashes

\* conn.rollback() and conn.close(); on an error path the rollback itself may
\* fail, and then the server notices the lost client later (AbortOrphan).
Rollback  == txn' = "none" /\ marks' = {} /\ verdict' = "none"
CloseConn == txn' \in {"none", txn} /\ marks' = {} /\ verdict' = "none"

\* The process ends: its variables are gone and the store lock is free.
Exit ==
  /\ pc' = "idle" /\ cur' = NoOp /\ mode' = "none" /\ pending' = {} /\ failed' = FALSE
  /\ todo' = {} /\ opened' = 0 /\ cleanedIds' = {} /\ staged' = {}

\* cleanup_unmatched_auction_images: the exclusive store lock, not waited for.
TakeStoreLock ==
  /\ pc = "idle"
  /\ \A w \in Writer : wpc[w] # "writing"
  /\ pc' = "connect"
  /\ UNCHANGED <<db, server, store, lag, local, writers, history, bounds>>

\* CleanupAlreadyRunning or CleanupBlockedByActiveScraper.
SkipCleanup ==
  /\ pc = "connect"
  /\ txn # "none" \/ runRow # {}
  /\ Exit
  /\ UNCHANGED <<db, server, store, lag, writers, history, bounds>>

\* Mutant: the advisory lock dies with the client instead of the transaction.
LockSnapshotAlone ==
  /\ pc = "connect"
  /\ runRow = {}
  /\ txn' = IF txn = "none" THEN "open" ELSE txn
  /\ pc' = "recover" /\ pending' = Journals
  /\ Synced
  /\ UNCHANGED <<db, marks, verdict, store, cur, mode, failed, todo, opened,
                 cleanedIds, staged, writers, history, bounds>>

\* _lock_cleanup_snapshot, then the listing of _recover_quarantine, which
\* removes the temporary journals it finds.
LockSnapshot ==
  /\ pc = "connect"
  /\ txn = "none" /\ runRow = {}
  /\ txn' = "open" /\ marks' = {} /\ verdict' = "none"
  /\ pc' = "recover" /\ pending' = Journals
  /\ journal' = [o \in Op |-> IF journal[o] = "tmp" THEN "none" ELSE journal[o]]
  /\ named' = [o \in Op |-> IF journal[o] = "tmp" THEN {} ELSE named[o]]
  /\ Synced
  /\ UNCHANGED <<db, orig, data, cur, mode, failed, todo, opened, cleanedIds, staged,
                 writers, history, bounds>>

\* Mutant: recovery restores every journal it finds.
PickJournalUnasked ==
  /\ pc = "recover" /\ cur = NoOp /\ txn = "open"
  /\ \E o \in pending : pending' = pending \ {o} /\ cur' = o
  /\ mode' = "restore"
  /\ UNCHANGED <<db, server, store, lag, pc, failed, todo, opened, cleanedIds,
                 staged, writers, history, bounds>>

\* _recover_quarantine takes up the next journal and asks the database what
\* became of its transaction.
PickJournal ==
  /\ pc = "recover" /\ cur = NoOp /\ txn = "open"
  /\ \E o \in pending :
       /\ pending' = pending \ {o}
       /\ \/ AllCleaned(named[o]) /\ mode' = "purge"
          \/ AllLive(named[o]) /\ ~AllCleaned(named[o]) /\ mode' = "restore"
       /\ cur' = o
  /\ UNCHANGED <<db, server, store, lag, pc, failed, todo, opened, cleanedIds,
                 staged, writers, history, bounds>>

\* The query fails, or finds the rows in mixed states.
RefuseJournal ==
  /\ pc = "recover" /\ cur = NoOp
  /\ \E o \in pending :
       /\ pending' = pending \ {o}
       /\ txn # "open" \/ ~(AllCleaned(named[o]) \/ AllLive(named[o]))
  /\ failed' = TRUE
  /\ UNCHANGED <<db, server, store, lag, pc, cur, mode, todo, opened, cleanedIds,
                 staged, writers, history, bounds>>

\* _restore_uncommitted_quarantine takes up the next journal without asking.
PickUndo ==
  /\ pc = "undo" /\ cur = NoOp
  /\ \E o \in pending : cur' = o /\ pending' = pending \ {o}
  /\ mode' = "restore"
  /\ UNCHANGED <<db, server, store, lag, pc, failed, todo, opened, cleanedIds,
                 staged, writers, history, bounds>>

Unstage(o) ==
  /\ data[o] # 0
  /\ data' = [data EXCEPT ![o] = 0]
  /\ Synced
  /\ UNCHANGED <<orig, journal, named>>

DropJournal(o) ==
  /\ UnlinkJournal(o) /\ Synced
  /\ UNCHANGED <<orig, data>>

\* Mutant: the journal is removed before the staged file.
PurgeJournalFirst ==
  /\ mode = "purge" /\ cur # NoOp
  /\ \/ journal[cur] = "live" /\ DropJournal(cur) /\ UNCHANGED <<cur, mode>>
     \/ journal[cur] = "none" /\ Unstage(cur) /\ cur' = NoOp /\ mode' = "none"
  /\ UNCHANGED <<db, server, pc, pending, failed, todo, opened, cleanedIds, staged,
                 writers, history, bounds>>

\* Mutant: a purge that was interrupted after the staged file was removed is
\* not completed.
PurgeWhole ==
  /\ mode = "purge" /\ cur # NoOp
  /\ \/ Unstage(cur) /\ UNCHANGED <<cur, mode, failed>>
     \/ data[cur] = 0 /\ journal[cur] = "live" /\ cur' = NoOp /\ mode' = "none"
        /\ failed' = TRUE /\ UNCHANGED <<store, lag>>
  /\ UNCHANGED <<db, server, pc, pending, todo, opened, cleanedIds, staged,
                 writers, history, bounds>>

\* _purge_quarantined_file: the staged file first, then its journal.
Purge ==
  /\ mode = "purge" /\ cur # NoOp
  /\ \/ Unstage(cur) /\ UNCHANGED <<cur, mode>>
     \/ data[cur] = 0 /\ DropJournal(cur) /\ cur' = NoOp /\ mode' = "none"
  /\ UNCHANGED <<db, server, pc, pending, failed, todo, opened, cleanedIds, staged,
                 writers, history, bounds>>

\* _restore_quarantined_file: back to its path, then the journal.
Restore ==
  /\ mode = "restore" /\ cur # NoOp
  /\ \/ /\ Restorable(cur) /\ PutBack(cur) /\ Synced
        /\ UNCHANGED <<journal, named, cur, mode>>
     \/ AtPath(cur) /\ DropJournal(cur) /\ cur' = NoOp /\ mode' = "none"
  /\ UNCHANGED <<db, server, pc, pending, failed, todo, opened, cleanedIds, staged,
                 writers, history, bounds>>

\* A journal that cannot be reconciled is left as it is: the destination is
\* taken, the staged file is missing, or a system call fails.
LeaveJournal ==
  /\ pc \in {"recover", "undo"} /\ cur # NoOp
  /\ \/ mode = "restore" /\ ~Restorable(cur) /\ ~AtPath(cur) /\ UNCHANGED bounds
     \/ Fault
  /\ cur' = NoOp /\ mode' = "none" /\ failed' = TRUE
  /\ UNCHANGED <<db, server, store, lag, pc, pending, todo, opened, cleanedIds,
                 staged, writers, history>>

Reconciled == cur = NoOp /\ pending = {}

\* "requires manual recovery": fail closed on errors and leftovers.
RecoveryFails ==
  /\ pc = "recover" /\ Reconciled
  /\ failed \/ \E o \in Op : Occupied(o)
  /\ CloseConn /\ Exit
  /\ UNCHANGED <<db, store, lag, writers, history, bounds>>

\* The preflight finds no candidate row, or the inventory lists the targets.
Inventory ==
  /\ pc = "recover" /\ Reconciled /\ txn = "open"
  /\ ~failed /\ \A o \in Op : Empty(o)
  /\ IF \A t \in Target : Candidates(t) = {}
     THEN Rollback /\ Exit
     ELSE /\ pc' = "operate" /\ todo' = Deletable
          /\ UNCHANGED <<server, cur, mode, pending, failed, opened, cleanedIds, staged>>
  /\ UNCHANGED <<db, store, lag, writers, history, bounds>>

\* Any exception after recovery and before the commit attempt: roll back, drop
\* temporary journals, then restore what is in quarantine.
GiveUp(j) ==
  /\ CloseConn
  /\ pc' = "undo" /\ pending' = {o \in Op : j[o] = "live"}
  /\ journal' = [o \in Op |-> IF j[o] = "tmp" THEN "none" ELSE j[o]]
  /\ named' = [o \in Op |-> IF j[o] = "tmp" THEN {} ELSE named[o]]
  /\ cur' = NoOp /\ mode' = "none" /\ failed' = FALSE
  /\ todo' = {} /\ opened' = 0 /\ cleanedIds' = {} /\ staged' = {}

\* Mutant: only the candidate rows of a target are journaled and marked.
OpenTargetCandidates ==
  /\ pc = "operate"
  /\ \E t \in todo :
       /\ orig[t] # 0
       /\ opened' = orig[t] /\ todo' = todo \ {t}
       /\ \E n \in 1..OpsPerTarget :
            LET o == <<t, n>> IN
            /\ Empty(o) /\ cur' = o
            /\ journal' = [journal EXCEPT ![o] = "tmp"]
            /\ named' = [named EXCEPT ![o] = Candidates(t)]
  /\ pc' = "tmp" /\ Unsynced
  /\ UNCHANGED <<db, server, orig, data, mode, pending, failed, cleanedIds, staged,
                 writers, history, bounds>>

\* _operate_on_target and _create_quarantine_journal up to the temporary file.
OpenTarget ==
  /\ pc = "operate"
  /\ \E t \in todo :
       /\ orig[t] # 0
       /\ opened' = orig[t] /\ todo' = todo \ {t}
       /\ \E n \in 1..OpsPerTarget :
            LET o == <<t, n>> IN
            /\ Empty(o) /\ cur' = o
            /\ journal' = [journal EXCEPT ![o] = "tmp"]
            /\ named' = [named EXCEPT ![o] = Live(t)]
  /\ pc' = "tmp" /\ Unsynced
  /\ UNCHANGED <<db, server, orig, data, mode, pending, failed, cleanedIds, staged,
                 writers, history, bounds>>

\* A file already missing is marked cleaned without a quarantine entry.
TargetMissing ==
  /\ pc = "operate"
  /\ \E t \in todo : /\ orig[t] = 0
                     /\ todo' = todo \ {t}
                     /\ cleanedIds' = cleanedIds \cup Live(t)
  /\ UNCHANGED <<db, server, store, lag, pc, cur, mode, pending, failed, opened,
                 staged, writers, history, bounds>>

\* open() or a parent directory fails: "failed", the loop goes on.
TargetFails ==
  /\ pc = "operate" /\ Fault
  /\ \E t \in todo : todo' = todo \ {t}
  /\ UNCHANGED <<db, server, store, lag, pc, cur, mode, pending, failed, opened,
                 cleanedIds, staged, writers, history>>

\* The journal is renamed into place and the quarantine directory fsynced.
PublishJournal ==
  /\ pc = "tmp"
  /\ journal' = [journal EXCEPT ![cur] = "live"] /\ Synced
  /\ pc' = "journaled"
  /\ UNCHANGED <<db, server, orig, named, data, local, writers, history,
                 bounds>>

\* _stage_target: the file moves into quarantine ...
MoveTarget ==
  /\ pc = "journaled" /\ orig[cur[1]] # 0
  /\ data' = [data EXCEPT ![cur] = orig[cur[1]]]
  /\ orig' = [orig EXCEPT ![cur[1]] = 0]
  /\ Unsynced /\ pc' = "moved"
  /\ UNCHANGED <<db, server, journal, named, local, writers, history,
                 bounds>>

\* ... or is gone ("missing"), or the rename fails ("failed"), and the journal
\* is dropped ...
NotMoved ==
  /\ pc = "journaled"
  /\ \/ orig[cur[1]] = 0 /\ cleanedIds' = cleanedIds \cup named[cur] /\ UNCHANGED bounds
     \/ Fault /\ UNCHANGED cleanedIds
  /\ DropJournal(cur)
  /\ pc' = "operate" /\ cur' = NoOp /\ opened' = 0
  /\ UNCHANGED <<db, server, mode, pending, failed, todo, staged, writers, history>>

\* Mutant: the two directories are not fsynced after the move.
StageLazily ==
  /\ pc = "moved" /\ data[cur] = opened
  /\ cleanedIds' = cleanedIds \cup named[cur] /\ staged' = staged \cup {cur}
  /\ pc' = "operate" /\ cur' = NoOp /\ opened' = 0
  /\ UNCHANGED <<db, server, store, lag, mode, pending, failed, todo, writers, history,
                 bounds>>

\* ... and it is the file that was opened: both directories are fsynced ...
StageDurably ==
  /\ pc = "moved" /\ data[cur] = opened
  /\ Synced
  /\ cleanedIds' = cleanedIds \cup named[cur] /\ staged' = staged \cup {cur}
  /\ pc' = "operate" /\ cur' = NoOp /\ opened' = 0
  /\ UNCHANGED <<db, server, store, mode, pending, failed, todo, writers, history, bounds>>

\* ... or another one, which goes back if its place is free ("unsafe").
ReturnChanged ==
  /\ pc \in {"moved", "returned"}
  /\ \/ /\ pc = "moved" /\ data[cur] # opened /\ Restorable(cur)
        /\ PutBack(cur) /\ Synced /\ pc' = "returned"
        /\ UNCHANGED <<journal, named, cur, opened>>
     \/ /\ pc = "returned" /\ DropJournal(cur)
        /\ pc' = "operate" /\ cur' = NoOp /\ opened' = 0
  /\ UNCHANGED <<db, server, mode, pending, failed, todo, cleanedIds, staged,
                 writers, history, bounds>>

\* A system call of the staging raises, the changed file's place is taken, or
\* the inventory's own query finds the connection lost.
StagingRaises ==
  /\ \/ pc = "moved" /\ data[cur] # opened /\ ~Restorable(cur) /\ UNCHANGED bounds
     \/ pc = "recover" /\ Reconciled /\ ~failed /\ (\A o \in Op : Empty(o))
          /\ txn # "open" /\ UNCHANGED bounds
     \/ pc \in {"operate", "tmp", "journaled", "moved", "returned"} /\ Fault
  /\ GiveUp(journal) /\ Unsynced
  /\ UNCHANGED <<db, orig, data, writers, history>>

\* _mark_image_files_cleaned_up: every row must still be live.
MarkCleaned ==
  /\ pc = "operate" /\ todo = {}
  /\ \/ /\ cleanedIds = {} /\ CloseConn /\ Exit
        /\ UNCHANGED <<journal, named>>
     \/ /\ cleanedIds # {} /\ txn = "open" /\ AllLive(cleanedIds)
        /\ marks' = cleanedIds /\ pc' = "commit"
        /\ UNCHANGED <<txn, verdict, journal, named, local>>
     \/ /\ cleanedIds # {} /\ (txn # "open" \/ ~AllLive(cleanedIds))
        /\ GiveUp(journal)
  /\ UNCHANGED <<db, orig, data, lag, writers, history, bounds>>

\* conn.commit(): whatever it raises from now on, nothing is restored.
SendCommit ==
  /\ pc = "commit"
  /\ \/ /\ txn = "open" /\ txn' = "committing" /\ pc' = "waiting"
        /\ UNCHANGED <<marks, verdict, local>>
     \/ txn # "open" /\ Exit /\ UNCHANGED server
  /\ UNCHANGED <<db, store, lag, writers, history, bounds>>

CommitReturns ==
  /\ pc = "waiting" /\ txn = "none"
  /\ \/ /\ verdict = "committed" /\ pc' = "purge" /\ pending' = staged
        /\ UNCHANGED <<cur, mode, failed, todo, opened, cleanedIds, staged>>
     \/ verdict = "aborted" /\ Exit
  /\ UNCHANGED <<db, server, store, lag, writers, history, bounds>>

\* The connection breaks before the answer: the outcome is unknown.
CommitRaises ==
  /\ pc = "waiting" /\ Fault /\ Exit
  /\ UNCHANGED <<db, server, store, lag, writers, history>>

\* _purge_quarantined_files over this run's operations.
PickPurge ==
  /\ pc = "purge" /\ cur = NoOp
  /\ \E o \in pending : cur' = o /\ pending' = pending \ {o}
  /\ mode' = "purge"
  /\ UNCHANGED <<db, server, store, lag, pc, failed, todo, opened, cleanedIds,
                 staged, writers, history, bounds>>

\* The purge is done, or raises (CleanupPurgePending); or the undo is done.
Finish ==
  /\ \/ pc \in {"purge", "undo"} /\ Reconciled /\ UNCHANGED bounds
     \/ pc = "purge" /\ Fault
  /\ Exit
  /\ UNCHANGED <<db, server, store, lag, writers, history>>

Cleanup ==
  \/ TakeStoreLock \/ SkipCleanup \/ LockSnapshot
  \/ PickJournal \/ RefuseJournal \/ PickUndo \/ Purge \/ Restore \/ LeaveJournal
  \/ RecoveryFails \/ Inventory
  \/ OpenTarget \/ TargetMissing \/ TargetFails \/ PublishJournal \/ MoveTarget
  \/ NotMoved \/ StageDurably \/ ReturnChanged \/ StagingRaises
  \/ MarkCleaned \/ SendCommit \/ CommitReturns \/ CommitRaises
  \/ PickPurge \/ Finish

-----------------------------------------------------------------------------
(* The database server.                                                    *)

\* The steps at which the cleanup process is connected in its transaction.
Attached == {"recover", "operate", "tmp", "journaled", "moved", "returned",
             "commit", "waiting"}

\* The COMMIT takes effect, whether or not its sender is still there.
Commit ==
  /\ txn = "committing"
  /\ txn' = "none" /\ marks' = {}
  /\ verdict' = IF pc = "waiting" THEN "committed" ELSE "none"
  /\ rowState' = [r \in Row |-> IF r \in marks THEN "cleaned" ELSE rowState[r]]
  /\ condemned' = [t \in Target |-> condemned[t] \cup
       {data[o] : o \in {q \in Journals : q[1] = t /\ data[q] # 0
                                          /\ named[q] \subseteq marks}}]
  /\ UNCHANGED <<use, runRow, store, lag, pc, local, writers, written, lost, bounds>>

\* ... or fails, or the session is lost before it was sent.
AbortTransaction ==
  /\ \/ txn = "committing" /\ Fault
     \/ txn = "open" /\ pc \in Attached /\ Fault
     \/ txn = "open" /\ pc \notin Attached /\ UNCHANGED bounds
  /\ txn' = "none" /\ marks' = {}
  /\ verdict' = IF pc = "waiting" THEN "aborted" ELSE "none"
  /\ UNCHANGED <<db, store, lag, pc, local, writers, history>>

Server == Commit \/ AbortTransaction

-----------------------------------------------------------------------------
(* Deaths.                                                                 *)

Die == crashes < MaxCrashes /\ crashes' = crashes + 1 /\ UNCHANGED faults

\* The cleanup process is killed: the kernel drops its flock, the server still
\* has its transaction.
Kill ==
  /\ pc # "idle" /\ Die /\ Exit
  /\ UNCHANGED <<db, server, store, lag, writers, history>>

\* The host loses power: every process is gone, the store is what was on disk,
\* a COMMIT in flight took effect or did not.
PowerLoss ==
  /\ Die /\ Exit
  /\ \E s \in OnDisk : /\ orig' = s.orig /\ journal' = s.journal
                       /\ named' = s.named /\ data' = s.data
  /\ lag' = {}
  /\ txn' = "none" /\ marks' = {} /\ verdict' = "none"
  /\ wpc' = [w \in Writer |-> "off"] /\ fetched' = [w \in Writer |-> {}]
  /\ UNCHANGED <<db, runs, history>>

-----------------------------------------------------------------------------
(* Image writers: scrapers, and untracked ones (image blocking, the manual *)
(* lostart image scraper) that hold the shared lock without a run row.     *)

Elsewhere == <<server, pc, local, lost, condemned>>

\* run_scraper commits a running row; the INSERT waits for the cleanup's SHARE
\* lock on scraper_run.
StartRun(w) ==
  /\ wpc[w] = "off" /\ w \notin runRow /\ runs < MaxRuns
  /\ \/ txn = "none" /\ runRow' = runRow \cup {w}
     \/ UNCHANGED runRow
  /\ wpc' = [wpc EXCEPT ![w] = "started"] /\ runs' = runs + 1
  /\ UNCHANGED <<rowState, use, store, lag, fetched, written, bounds, Elsewhere>>

\* image_storage_lock(exclusive=False) waits for the exclusive holder.
TakeSharedLock(w) ==
  /\ wpc[w] = "started" /\ pc = "idle"
  /\ wpc' = [wpc EXCEPT ![w] = "writing"]
  /\ UNCHANGED <<db, store, lag, fetched, runs, written, bounds, Elsewhere>>

\* download_images: a valid file at the path is reused, otherwise the bytes are
\* written beside it and renamed onto it.
Download(w, t) ==
  /\ wpc[w] = "writing" /\ t \notin fetched[w]
  /\ \/ orig[t] # 0 /\ UNCHANGED <<store, lag, written>>
     \/ /\ written[t] < MaxVersion
        /\ written' = [written EXCEPT ![t] = @ + 1]
        /\ orig' = [orig EXCEPT ![t] = written'[t]]
        /\ Synced /\ UNCHANGED <<journal, named, data>>
  /\ fetched' = [fetched EXCEPT ![w] = @ \cup {t}]
  /\ UNCHANGED <<db, wpc, runs, bounds, Elsewhere>>

\* _ensure_image_file_id and the new, unprocessed link; the transaction waits
\* for the cleanup's SHARE locks.
RecordImage(w, t) ==
  /\ t \in fetched[w] /\ txn = "none"
  /\ \E r \in Canonical :
       /\ TargetOf[r] = t
       /\ \/ rowState[r] = "live"
          \/ rowState[r] = "unborn" /\ Live(t) \cap Canonical = {}
       /\ rowState' = [rowState EXCEPT ![r] = "live"]
       /\ use' = [use EXCEPT ![r] = "protected"]
  /\ fetched' = [fetched EXCEPT ![w] = @ \ {t}]
  /\ UNCHANGED <<runRow, store, lag, wpc, runs, written, bounds, Elsewhere>>

\* The run ends and lets go of the lock; what it did not commit is rolled back.
ReleaseShared(w) ==
  /\ wpc[w] = "writing"
  /\ wpc' = [wpc EXCEPT ![w] = "released"]
  /\ fetched' = [fetched EXCEPT ![w] = {}]
  /\ UNCHANGED <<db, store, lag, runs, written, bounds, Elsewhere>>

\* The run row gets its final status, by its owner or, after the owner died, by
\* _finalize_interrupted_runs.
FinishRun(w) ==
  /\ \/ wpc[w] = "released"
     \/ wpc[w] = "off" /\ w \in runRow
  /\ w \in runRow => txn = "none"
  /\ wpc' = [wpc EXCEPT ![w] = "off"] /\ runRow' = runRow \ {w}
  /\ UNCHANGED <<rowState, use, store, lag, fetched, runs, written, bounds, Elsewhere>>

KillWriter(w) ==
  /\ wpc[w] # "off" /\ Die
  /\ wpc' = [wpc EXCEPT ![w] = "off"] /\ fetched' = [fetched EXCEPT ![w] = {}]
  /\ UNCHANGED <<db, store, lag, runs, written, Elsewhere>>

\* Mutant: match_score and the link tables are not locked.
ChangeUseUnlocked(r) ==
  /\ rowState[r] = "live"
  /\ \E u \in Use : use' = [use EXCEPT ![r] = u]
  /\ UNCHANGED <<rowState, runRow, store, lag, writers, written, bounds, Elsewhere>>

\* A pipeline or scraper transaction changes what a row is used for: links, flags
\* and scores are frozen by the cleanup's SHARE locks.
ChangeUse(r) ==
  /\ rowState[r] = "live" /\ txn = "none"
  /\ \E u \in Use : use' = [use EXCEPT ![r] = u]
  /\ UNCHANGED <<rowState, runRow, store, lag, writers, written, bounds, Elsewhere>>

\* A program that ignores the lock replaces or removes the file that is being
\* staged, the race that _stage_target looks for.
HandEdit ==
  /\ pc \in {"tmp", "journaled", "moved"} /\ Fault
  /\ LET t == cur[1] IN
     \/ /\ written[t] < MaxVersion
        /\ written' = [written EXCEPT ![t] = @ + 1]
        /\ orig' = [orig EXCEPT ![t] = written'[t]]
        /\ UNCHANGED lost
     \/ /\ orig[t] # 0
        /\ orig' = [orig EXCEPT ![t] = 0]
        /\ lost' = [lost EXCEPT ![t] = @ \cup {orig[t]}]
        /\ UNCHANGED written
  /\ Synced
  /\ UNCHANGED <<db, server, journal, named, data, pc, local, writers, condemned>>

Environment ==
  \/ \E w \in Writer :
       \/ StartRun(w) \/ TakeSharedLock(w) \/ ReleaseShared(w) \/ FinishRun(w)
       \/ KillWriter(w)
       \/ \E t \in Target : Download(w, t) \/ RecordImage(w, t)
  \/ \E r \in Row : ChangeUse(r)
  \/ HandEdit

Next == Cleanup \/ Server \/ Kill \/ PowerLoss \/ Environment

Spec == Init /\ [][Next]_vars

\* The scheduler starts a cleanup at every interval, the server decides what it
\* was sent, and runs come to an end and are reconciled.  The steps that wait for
\* a lock of another process (flock, LOCK TABLE) or look whether it is free are
\* strongly fair: the kernel and PostgreSQL queue the waiters, and a cleanup is
\* minutes while the interval between two is hours.
Fairness ==
  /\ WF_vars(Cleanup) /\ SF_vars(TakeStoreLock) /\ SF_vars(LockSnapshot)
  /\ WF_vars(Commit) /\ WF_vars(AbortTransaction)
  /\ \A w \in Writer : WF_vars(ReleaseShared(w)) /\ SF_vars(FinishRun(w))
                       /\ SF_vars(TakeSharedLock(w))

FairSpec == Spec /\ Fairness

-----------------------------------------------------------------------------
(* Properties.                                                             *)

TypeDb == /\ rowState \in [Row -> {"unborn", "live", "cleaned"}]
          /\ use \in [Row -> Use]
          /\ runRow \subseteq Writer

TypeServer == /\ txn \in {"none", "open", "committing"}
              /\ marks \subseteq Row
              /\ verdict \in {"none", "committed", "aborted"}

TypeStore == /\ orig \in [Target -> Version]
             /\ journal \in [Op -> {"none", "tmp", "live"}]
             /\ named \in [Op -> SUBSET Row]
             /\ data \in [Op -> Version]
             /\ lag \subseteq StoreState

TypeProcess ==
  /\ pc \in Attached \cup {"idle", "connect", "undo", "purge"}
  /\ cur \in Op \cup {NoOp} /\ mode \in {"none", "purge", "restore"}
  /\ pending \subseteq Op /\ failed \in BOOLEAN /\ todo \subseteq Target
  /\ opened \in Version /\ cleanedIds \subseteq Row /\ staged \subseteq Op

TypeWriters == /\ wpc \in [Writer -> {"off", "started", "writing", "released"}]
               /\ fetched \in [Writer -> SUBSET Target]
               /\ runs \in 0..MaxRuns

TypeHistory == /\ written \in [Target -> Version]
               /\ lost \in [Target -> SUBSET Version]
               /\ condemned \in [Target -> SUBSET Version]
               /\ crashes \in 0..MaxCrashes /\ faults \in 0..MaxFaults

\* Type invariant.
TypeOK == /\ TypeDb /\ TypeServer /\ TypeStore
          /\ TypeProcess /\ TypeWriters /\ TypeHistory

\* Whatever a power loss leaves on disk, every file in quarantine has a journal
\* that says where it came from and for which rows (_create_quarantine_journal
\* before the rename, _purge_quarantined_file and _restore_quarantined_file
\* removing the journal last).
StagedIsJournaled ==
  \A s \in OnDisk : \A o \in Op :
    s.data[o] # 0 => s.journal[o] = "live" /\ s.named[o] # {}

\* Bytes leave quarantine only as the database decided: they are destroyed when
\* every row the journal names is committed as cleaned, and they return to
\* their path when none is (cleanup.py:360-373, 1231-1246).
StagedBytesFollowDatabase ==
  [][\A o \in Op : data[o] # 0 /\ data'[o] = 0 /\ ~(PowerLoss) =>
       IF orig'[o[1]] = data[o]
       THEN \A r \in named[o] : rowState[r] # "cleaned"
       ELSE AllCleaned(named[o])]_vars

\* A committed deletion is never undone: bytes whose rows were committed as
\* cleaned do not come back to their path, on no disk a power loss may leave.
DeletionSticks ==
  \A s \in OnDisk : \A t \in Target : s.orig[t] \notin condemned[t]

\* A row is cleaned only when, at the commit, no live row that resolves to the
\* same file protects it (the SHARE locks of 431-445, the groups of 497-529).
NeverCleansProtected ==
  [][\A r \in Row : rowState[r] = "live" /\ rowState'[r] = "cleaned"
       => ~Protected(TargetOf[r])]_vars

\* The restore that does not ask the database never meets a journal whose rows
\* are committed (1043-1070 after recovery emptied the quarantine).
BlindRestoreIsSafe ==
  pc = "undo" => \A o \in Journals : \A r \in named[o] : rowState[r] = "live"

\* A cleanup never judges a journal while the server may still commit its
\* transaction (the transaction-level advisory lock, 407-409).
RecoveryReadsDecided ==
  pc = "recover" => txn # "committing" /\ marks = {}

\* No file is put back, by the run that moved it (349-360) or by a later one (866-929),
\* before the outcome of its transaction is known, or while that may still be a commit.
RestoredOnDecision == BlindRestoreIsSafe /\ RecoveryReadsDecided

\* A journal of an uncommitted move that no restore can follow: new bytes are at
\* the path, or the file is at neither place.
Irreconcilable(o) == /\ journal[o] = "live" /\ AllLive(named[o])
                     /\ ~Restorable(o) /\ ~AtPath(o)

\* The quarantine is emptied again and again, unless such a journal stops it:
\* no crash or failing call alone blocks the cleanup for good.
QuarantineDrains ==
  []<>((\A o \in Op : Empty(o)) \/ \E o \in Op : Irreconcilable(o))

-----------------------------------------------------------------------------
(* The inductive invariant behind the safety properties, see               *)
(* ImageCleanupProofs.                                                     *)

\* On every disk a power loss may leave: the staged files are journaled, a
\* version is in one place, and a condemned version is in quarantine under rows
\* that are cleaned, or nowhere.
StoreOK(s) ==
  /\ \A o \in Op : s.data[o] # 0 => /\ s.journal[o] = "live"
                                    /\ s.data[o] # s.orig[o[1]]
                                    /\ s.data[o] <= written[o[1]]
  /\ \A o \in Op : s.named[o] = {} <=> s.journal[o] = "none"
  /\ \A o, q \in Op : o[1] = q[1] /\ s.data[o] # 0 /\ s.data[o] = s.data[q] => o = q
  /\ \A t \in Target : s.orig[t] <= written[t] /\ s.orig[t] \notin condemned[t]
  /\ \A o \in Op : s.data[o] \in condemned[o[1]] => AllCleaned(s.named[o])

Staging == {"tmp", "journaled", "moved", "returned"}
Operating == Staging \cup {"operate"}

\* Where the cleanup process is, and what it then knows of its operation.
ProcessOK ==
  /\ pc \notin Staging \cup {"recover", "undo", "purge"} => cur = NoOp
  /\ pc \in Staging => cur \in Op
  /\ pc \notin Operating => todo = {}
  /\ pc \in {"idle", "connect", "recover"} => staged = {} /\ cleanedIds = {}
  /\ mode # "none" <=> pc \in {"recover", "undo", "purge"} /\ cur # NoOp
  /\ pc = "tmp" => journal[cur] = "tmp"
  /\ pc \in Staging \ {"tmp"} => journal[cur] = "live"
  /\ pc \in {"tmp", "journaled", "returned"} => data[cur] = 0
  /\ pc = "moved" => data[cur] # 0
  /\ mode # "none" => journal[cur] = "live"
  /\ pc \in {"recover", "undo", "purge"} => pending \subseteq Journals /\ cur \notin pending
  /\ pc \in {"operate", "commit", "waiting"} \cup Staging
       => \A o \in staged : journal[o] = "live" /\ o # cur

\* What the process knows of the rows of its journals.
RowsOK ==
  /\ mode = "purge" => AllCleaned(named[cur])
  /\ mode = "restore" => AllLive(named[cur])
  /\ pc \in Operating \cup {"undo", "commit"}
       => \A o \in Op : journal[o] # "none" => AllLive(named[o])
  /\ pc \in Operating \cup {"commit", "waiting"}
       => \A o \in staged : named[o] \subseteq cleanedIds
  /\ pc = "purge" => \A o \in pending : AllCleaned(named[o])
  /\ \A t \in todo : Live(t) # {}

\* What the server will commit, and that nothing is in flight otherwise.
CommitOK ==
  /\ txn = "committing" => /\ pc \in {"waiting", "idle", "connect"}
                           /\ lag = {}
                           /\ pc = "waiting" => marks = cleanedIds
  /\ pc = "commit" /\ txn = "open" => marks = cleanedIds
  /\ pc = "waiting" /\ verdict = "committed" => AllCleaned(cleanedIds)
  /\ pc \in {"recover", "operate", "commit", "waiting"} => lag = {}
  /\ pc = "recover" => marks = {}
  /\ pc \in Operating \cup {"recover", "commit"} => verdict = "none"
  /\ pc = "waiting" => txn # "open"
  /\ pc = "waiting" /\ txn = "committing" => verdict # "committed"

\* While its transaction holds the table locks, nothing the cleanup chose is
\* protected.
ChosenOK ==
  /\ txn = "open" /\ pc \in Operating \cup {"commit"} =>
       /\ \A t \in todo : ~Protected(t)
       /\ cur # NoOp => ~Protected(cur[1]) /\ named[cur] \subseteq Live(cur[1])
       /\ \A r \in cleanedIds : ~Protected(TargetOf[r])
  /\ txn = "committing" => \A r \in marks : ~Protected(TargetOf[r])

IInv ==
  /\ TypeOK
  /\ \A s \in OnDisk : StoreOK(s)
  /\ \A t \in Target : condemned[t] \subseteq 1..written[t]
  /\ ProcessOK /\ RowsOK /\ CommitOK /\ ChosenOK

\* The bytes of a target that are not given up: at their path, or in quarantine
\* for rows that are not committed as cleaned.
Kept == [t \in Target |->
  ({orig[t]} \cup {data[o] : o \in {q \in Op : q[1] = t /\ ~AllCleaned(named[q])}})
    \ {0}]

\* The protocol implements the one-step deletion: whatever is killed or fails,
\* a file's bytes are given up in the same step that commits its rows, and never
\* for a protected file.
Atomic == INSTANCE AtomicCleanup WITH kept <- Kept
ImplementsAtomicCleanup == Atomic!Spec

=============================================================================
