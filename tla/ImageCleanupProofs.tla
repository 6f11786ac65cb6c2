------------------------- MODULE ImageCleanupProofs -------------------------
(***************************************************************************)
(* The safety of ImageCleanup for every set of files, rows and writers and *)
(* for every bound.  The type lemmas come first, one per group of          *)
(* variables.  Then, for each conjunct of IInv, a lemma that a step keeps  *)
(* it: the store (what each action does to one disk state, and that a power *)
(* loss only chooses among states that were already safe), the process, its *)
(* knowledge of the rows, the commit in flight, and the chosen targets.    *)
(* Invariance puts them together; the theorems after it read the           *)
(* properties off IInv, or off one step that starts in it.  Last, with     *)
(* three more invariants, the protocol implements AtomicCleanup.           *)
(***************************************************************************)
EXTENDS ImageCleanup, TLAPS

LEMMA OpFacts == /\ NoOp \notin Op
                 /\ \A o \in Op : o[1] \in Target
                 /\ \A t \in Target : \A n \in 1..OpsPerTarget :
                       <<t, n>> \in Op /\ <<t, n>>[1] = t
BY DEF Op, NoOp

LEMMA NowType == TypeStore => Now \in StoreState
BY DEF Now, StoreState, TypeStore

LEMMA InitType == Init => TypeOK
<1> SUFFICES ASSUME Init PROVE TypeOK OBVIOUS
<1> USE DEF Init
<1>1. 0 \in Version /\ {0, 1} \subseteq Version BY ConstantsAssumption DEF Version
<1>2. TypeDb BY DEF TypeDb
<1>3. TypeServer BY DEF TypeServer
<1>4. TypeStore BY <1>1 DEF TypeStore
<1>5. TypeProcess BY <1>1 DEF TypeProcess, Attached
<1>6. TypeWriters BY ConstantsAssumption DEF TypeWriters
<1>7. TypeHistory BY <1>1, ConstantsAssumption DEF TypeHistory
<1> QED BY <1>2, <1>3, <1>4, <1>5, <1>6, <1>7 DEF TypeOK

LEMMA DbTypeStep == ASSUME TypeOK, Next PROVE TypeDb'
<1> USE DEF TypeOK, TypeDb, TypeServer, TypeWriters, db
<1>1. CASE Cleanup
  BY <1>1 DEF Cleanup, TakeStoreLock, SkipCleanup, LockSnapshot, PickJournal,
     RefuseJournal, PickUndo, Purge, Restore, LeaveJournal, RecoveryFails, Inventory,
     OpenTarget, TargetMissing, TargetFails, PublishJournal, MoveTarget, NotMoved,
     StageDurably, ReturnChanged, StagingRaises, MarkCleaned, SendCommit,
     CommitReturns, CommitRaises, PickPurge, Finish
<1>2. CASE Server BY <1>2 DEF Server, Commit, AbortTransaction
<1>3. CASE Kill \/ PowerLoss BY <1>3 DEF Kill, PowerLoss
<1>4. CASE Environment
  BY <1>4 DEF Environment, StartRun, TakeSharedLock, Download, RecordImage,
     ReleaseShared, FinishRun, KillWriter, ChangeUse, HandEdit, Use
<1> QED BY <1>1, <1>2, <1>3, <1>4 DEF Next

LEMMA ServerTypeStep == ASSUME TypeOK, Next PROVE TypeServer'
<1> USE DEF TypeOK, TypeServer, TypeProcess, server
<1>1. CASE Cleanup
  BY <1>1 DEF Cleanup, TakeStoreLock, SkipCleanup, LockSnapshot, PickJournal,
     RefuseJournal, PickUndo, Purge, Restore, LeaveJournal, RecoveryFails, Inventory,
     OpenTarget, TargetMissing, TargetFails, PublishJournal, MoveTarget, NotMoved,
     StageDurably, ReturnChanged, StagingRaises, MarkCleaned, SendCommit,
     CommitReturns, CommitRaises, PickPurge, Finish, GiveUp, CloseConn, Rollback
<1>2. CASE Server BY <1>2 DEF Server, Commit, AbortTransaction
<1>3. CASE Kill \/ PowerLoss BY <1>3 DEF Kill, PowerLoss
<1>4. CASE Environment
  BY <1>4 DEF Environment, StartRun, TakeSharedLock, Download, RecordImage,
     ReleaseShared, FinishRun, KillWriter, ChangeUse, HandEdit, Elsewhere
<1> QED BY <1>1, <1>2, <1>3, <1>4 DEF Next

LEMMA ProcessTypeStep == ASSUME TypeOK, ProcessOK, Next PROVE TypeProcess'
<1> USE OpFacts DEF TypeOK, TypeProcess, Attached
<1>0. 0 \in Version BY ConstantsAssumption DEF Version
<1>1. ASSUME Exit PROVE TypeProcess' BY <1>0, <1>1 DEF Exit
<1>2. ASSUME NEW j, GiveUp(j) PROVE TypeProcess' BY <1>0, <1>2 DEF GiveUp
<1>3. ASSUME UNCHANGED <<pc, local>> PROVE TypeProcess' BY <1>3 DEF local
<1>4. CASE TakeStoreLock \/ SkipCleanup \/ LockSnapshot
  BY <1>1, <1>4 DEF TakeStoreLock, SkipCleanup, LockSnapshot, Journals, local
<1>5. CASE PickJournal \/ RefuseJournal \/ PickUndo
  BY <1>5 DEF PickJournal, RefuseJournal, PickUndo
<1>6. CASE Purge \/ Restore \/ LeaveJournal
  BY <1>6 DEF Purge, Restore, LeaveJournal
<1>7. CASE RecoveryFails \/ Inventory
  BY <1>1, <1>7 DEF RecoveryFails, Inventory, Deletable
<1>8. CASE OpenTarget BY <1>8 DEF OpenTarget, TypeStore
<1>9. CASE TargetMissing \/ TargetFails
  BY <1>9 DEF TargetMissing, TargetFails, Live
<1>10. CASE PublishJournal \/ MoveTarget
  BY <1>10 DEF PublishJournal, MoveTarget, local
<1>11. CASE NotMoved \/ StageDurably \/ ReturnChanged
  <2>1. cur \in Op
    BY <1>11 DEF NotMoved, StageDurably, ReturnChanged, ProcessOK, Staging
  <2>2. named[cur] \subseteq Row BY <2>1 DEF TypeStore
  <2> QED BY <1>0, <1>11, <2>1, <2>2 DEF NotMoved, StageDurably, ReturnChanged
<1>12. CASE StagingRaises BY <1>2, <1>12 DEF StagingRaises
<1>13. CASE MarkCleaned \/ SendCommit \/ CommitReturns \/ CommitRaises
  BY <1>1, <1>2, <1>13 DEF MarkCleaned, SendCommit, CommitReturns, CommitRaises, local
<1>14. CASE PickPurge \/ Finish BY <1>1, <1>14 DEF PickPurge, Finish
<1>15. CASE Server BY <1>3, <1>15 DEF Server, Commit, AbortTransaction
<1>16. CASE Kill \/ PowerLoss BY <1>1, <1>16 DEF Kill, PowerLoss
<1>17. CASE Environment
  BY <1>3, <1>17 DEF Environment, StartRun, TakeSharedLock, Download, RecordImage,
     ReleaseShared, FinishRun, KillWriter, ChangeUse, HandEdit, Elsewhere
<1> QED BY <1>4, <1>5, <1>6, <1>7, <1>8, <1>9, <1>10, <1>11, <1>12, <1>13, <1>14,
     <1>15, <1>16, <1>17 DEF Next, Cleanup

LEMMA WriterTypeStep == ASSUME TypeOK, Next PROVE TypeWriters'
<1> USE ConstantsAssumption DEF TypeOK, TypeWriters, writers
<1>1. CASE Cleanup
  BY <1>1 DEF Cleanup, TakeStoreLock, SkipCleanup, LockSnapshot, PickJournal,
     RefuseJournal, PickUndo, Purge, Restore, LeaveJournal, RecoveryFails, Inventory,
     OpenTarget, TargetMissing, TargetFails, PublishJournal, MoveTarget, NotMoved,
     StageDurably, ReturnChanged, StagingRaises, MarkCleaned, SendCommit,
     CommitReturns, CommitRaises, PickPurge, Finish
<1>2. CASE Server BY <1>2 DEF Server, Commit, AbortTransaction
<1>3. CASE Kill \/ PowerLoss BY <1>3 DEF Kill, PowerLoss
<1>4. CASE Environment
  BY <1>4 DEF Environment, StartRun, TakeSharedLock, Download, RecordImage,
     ReleaseShared, FinishRun, KillWriter, ChangeUse, HandEdit
<1> QED BY <1>1, <1>2, <1>3, <1>4 DEF Next

LEMMA StoreTypeStep == ASSUME TypeOK, ProcessOK, Next PROVE TypeStore'
<1> USE OpFacts, ConstantsAssumption DEF TypeOK, TypeStore, Version
<1>1. ASSUME Unsynced PROVE lag' \subseteq StoreState
  BY <1>1, NowType DEF Unsynced
<1>2. ASSUME Synced PROVE lag' \subseteq StoreState BY <1>2 DEF Synced
<1>3. ASSUME UNCHANGED <<store, lag>> PROVE TypeStore' BY <1>3 DEF store
<1>4. CASE TakeStoreLock \/ SkipCleanup \/ PickJournal \/ RefuseJournal \/ PickUndo
           \/ LeaveJournal \/ RecoveryFails \/ Inventory \/ TargetMissing \/ TargetFails
           \/ StageDurably \/ SendCommit \/ CommitReturns \/ CommitRaises \/ PickPurge
           \/ Finish \/ Server \/ Kill
  BY <1>2, <1>3, <1>4 DEF TakeStoreLock, SkipCleanup, PickJournal, RefuseJournal,
     PickUndo, LeaveJournal, RecoveryFails, Inventory, TargetMissing, TargetFails,
     StageDurably, SendCommit, CommitReturns, CommitRaises, PickPurge, Finish,
     Server, Commit, AbortTransaction, Kill, store
<1>5. CASE LockSnapshot BY <1>2, <1>5 DEF LockSnapshot
<1>6. CASE Purge
  <2>1. cur \in Op BY <1>6 DEF Purge, TypeProcess
  <2> QED BY <1>2, <1>6, <2>1 DEF Purge, Unstage, DropJournal, UnlinkJournal
<1>7. CASE Restore
  <2>1. cur \in Op BY <1>7 DEF Restore, TypeProcess
  <2>2. data[cur] \in Version /\ cur[1] \in Target BY <2>1
  <2> QED BY <1>2, <1>7, <2>1, <2>2 DEF Restore, PutBack, DropJournal, UnlinkJournal
<1>8. CASE OpenTarget
  <2>1. PICK t \in todo, n \in 1..OpsPerTarget :
          /\ journal' = [journal EXCEPT ![<<t, n>>] = "tmp"]
          /\ named' = [named EXCEPT ![<<t, n>>] = Live(t)]
    BY <1>8 DEF OpenTarget
  <2>2. Live(t) \subseteq Row BY DEF Live
  <2>3. UNCHANGED <<orig, data>> /\ Unsynced BY <1>8 DEF OpenTarget
  <2> QED BY <1>1, <2>1, <2>2, <2>3
<1>9. CASE PublishJournal \/ MoveTarget
  BY <1>1, <1>2, <1>9 DEF PublishJournal, MoveTarget, ProcessOK, Staging
<1>10. CASE NotMoved \/ ReturnChanged
  <2>1. cur \in Op BY <1>10 DEF NotMoved, ReturnChanged, ProcessOK, Staging
  <2>2. data[cur] \in Version /\ cur[1] \in Target BY <2>1
  <2> QED BY <1>2, <1>10, <2>1, <2>2 DEF NotMoved, ReturnChanged, PutBack, DropJournal, UnlinkJournal
<1>11. CASE StagingRaises BY <1>1, <1>11 DEF StagingRaises, GiveUp
<1>12. CASE MarkCleaned BY <1>12 DEF MarkCleaned, GiveUp
<1>13. CASE PowerLoss BY <1>13, NowType DEF PowerLoss, OnDisk, StoreState
<1>14. CASE Environment
  BY <1>2, <1>3, <1>14 DEF Environment, StartRun, TakeSharedLock, Download, RecordImage,
     ReleaseShared, FinishRun, KillWriter, ChangeUse, HandEdit, Elsewhere, store,
     TypeHistory
<1> QED BY <1>4, <1>5, <1>6, <1>7, <1>8, <1>9, <1>10, <1>11, <1>12, <1>13, <1>14
     DEF Next, Cleanup

LEMMA HistoryTypeStep == ASSUME TypeOK, ProcessOK, Next PROVE TypeHistory'
<1> USE OpFacts, ConstantsAssumption DEF TypeOK, TypeHistory, Version, history, bounds,
     Fault, Die
<1>1. CASE Cleanup
  BY <1>1 DEF Cleanup, TakeStoreLock, SkipCleanup, LockSnapshot, PickJournal,
     RefuseJournal, PickUndo, Purge, Restore, LeaveJournal, RecoveryFails, Inventory,
     OpenTarget, TargetMissing, TargetFails, PublishJournal, MoveTarget, NotMoved,
     StageDurably, ReturnChanged, StagingRaises, MarkCleaned, SendCommit,
     CommitReturns, CommitRaises, PickPurge, Finish
<1>2. CASE Server BY <1>2 DEF Server, Commit, AbortTransaction, TypeStore, Journals
<1>3. CASE Kill \/ PowerLoss BY <1>3 DEF Kill, PowerLoss
<1>4. CASE Environment
  BY <1>4 DEF Environment, StartRun, TakeSharedLock, Download, RecordImage,
     ReleaseShared, FinishRun, KillWriter, ChangeUse, HandEdit, Elsewhere, TypeStore
<1> QED BY <1>1, <1>2, <1>3, <1>4 DEF Next

-----------------------------------------------------------------------------
(* The store on every disk a power loss may leave.                         *)

LEMMA TypeStep == ASSUME TypeOK, ProcessOK, Next PROVE TypeOK'
BY DbTypeStep, ServerTypeStep, ProcessTypeStep, WriterTypeStep, StoreTypeStep,
   HistoryTypeStep DEF TypeOK

\* Rows that are cleaned stay cleaned, and version numbers only grow.
LEMMA Monotone ==
  ASSUME TypeOK, ProcessOK, Next
  PROVE  /\ \A R \in SUBSET Row : AllCleaned(R) => AllCleaned(R)'
         /\ \A t \in Target : written[t] <= written'[t]
<1> USE OpFacts DEF TypeOK, TypeDb, TypeHistory, TypeProcess, Version, db, history
<1>1. CASE Cleanup
  BY <1>1 DEF Cleanup, TakeStoreLock, SkipCleanup, LockSnapshot, PickJournal,
     RefuseJournal, PickUndo, Purge, Restore, LeaveJournal, RecoveryFails, Inventory,
     OpenTarget, TargetMissing, TargetFails, PublishJournal, MoveTarget, NotMoved,
     StageDurably, ReturnChanged, StagingRaises, MarkCleaned, SendCommit,
     CommitReturns, CommitRaises, PickPurge, Finish, AllCleaned
<1>2. CASE Server BY <1>2 DEF Server, Commit, AbortTransaction, AllCleaned
<1>3. CASE Kill \/ PowerLoss BY <1>3 DEF Kill, PowerLoss, AllCleaned
<1>4. CASE Environment
  BY <1>4 DEF Environment, StartRun, TakeSharedLock, Download, RecordImage,
     ReleaseShared, FinishRun, KillWriter, ChangeUse, HandEdit, AllCleaned,
     ProcessOK, Staging
<1> QED BY <1>1, <1>2, <1>3, <1>4 DEF Next

\* StoreOK of the store as it is, in terms of its variables.
StoreNow ==
  /\ \A o \in Op : data[o] # 0 => /\ journal[o] = "live"
                                  /\ data[o] # orig[o[1]]
                                  /\ data[o] <= written[o[1]]
  /\ \A o \in Op : named[o] = {} <=> journal[o] = "none"
  /\ \A o, q \in Op : o[1] = q[1] /\ data[o] # 0 /\ data[o] = data[q] => o = q
  /\ \A t \in Target : orig[t] <= written[t] /\ orig[t] \notin condemned[t]
  /\ \A o \in Op : data[o] \in condemned[o[1]] => AllCleaned(named[o])

LEMMA NowStore == StoreOK(Now) <=> StoreNow
BY DEF StoreOK, StoreNow, Now

LEMMA NowStorePrime == StoreOK(Now)' <=> StoreNow'
BY DEF StoreOK, StoreNow, Now

LEMMA IInvNow == IInv => StoreNow
BY NowStore DEF IInv, OnDisk

\* No version is given up before it is written.
LEMMA CondemnedStep ==
  ASSUME IInv, Next
  PROVE  \A t \in Target : condemned'[t] \subseteq 1..written'[t]
<1> USE DEF IInv, TypeOK, TypeHistory, Version
<1>1. CASE Commit
  <2> SUFFICES ASSUME NEW t \in Target, NEW v \in condemned'[t]
               PROVE  v \in 1..written'[t]
    OBVIOUS
  <2>1. \/ v \in condemned[t]
        \/ \E q \in Op : q[1] = t /\ data[q] # 0 /\ v = data[q]
    BY <1>1 DEF Commit, Journals
  <2>2. \A q \in Op : data[q] \in Nat /\ (data[q] # 0 => data[q] <= written[q[1]])
    BY ConstantsAssumption, IInvNow DEF StoreNow, TypeStore
  <2> QED BY <1>1, <2>1, <2>2 DEF Commit
<1>2. CASE ~Commit
  <2>1. UNCHANGED condemned
    BY <1>2 DEF Next, Cleanup, TakeStoreLock, SkipCleanup, LockSnapshot, PickJournal,
       RefuseJournal, PickUndo, Purge, Restore, LeaveJournal, RecoveryFails, Inventory,
       OpenTarget, TargetMissing, TargetFails, PublishJournal, MoveTarget, NotMoved,
       StageDurably, ReturnChanged, StagingRaises, MarkCleaned, SendCommit,
       CommitReturns, CommitRaises, PickPurge, Finish, Server, AbortTransaction,
       Kill, PowerLoss, Environment, StartRun, TakeSharedLock, Download, RecordImage,
       ReleaseShared, FinishRun, KillWriter, ChangeUse, HandEdit, Elsewhere, history
  <2>2. TypeHistory' BY HistoryTypeStep
  <2>3. \A t \in Target : written[t] <= written'[t] BY Monotone
  <2> QED BY <2>1, <2>2, <2>3
<1> QED BY <1>1, <1>2

\* Unless a commit takes effect, what a disk may hold stays consistent with the
\* versions and the rows.
LEMMA DiskStable ==
  ASSUME IInv, Next, ~Commit, NEW s \in OnDisk
  PROVE  StoreOK(s)'
<1>1. UNCHANGED condemned
  BY DEF Next, Cleanup, TakeStoreLock, SkipCleanup, LockSnapshot, PickJournal,
     RefuseJournal, PickUndo, Purge, Restore, LeaveJournal, RecoveryFails, Inventory,
     OpenTarget, TargetMissing, TargetFails, PublishJournal, MoveTarget, NotMoved,
     StageDurably, ReturnChanged, StagingRaises, MarkCleaned, SendCommit,
     CommitReturns, CommitRaises, PickPurge, Finish, Server, AbortTransaction,
     Kill, PowerLoss, Environment, StartRun, TakeSharedLock, Download, RecordImage,
     ReleaseShared, FinishRun, KillWriter, ChangeUse, HandEdit, Elsewhere, history
<1>2. \A R \in SUBSET Row : AllCleaned(R) => AllCleaned(R)' BY Monotone DEF IInv
<1>3. \A t \in Target : written[t] <= written'[t] BY Monotone DEF IInv
<1>4. s \in StoreState BY NowType DEF IInv, TypeOK, TypeStore, OnDisk
<1>5. \A o \in Op : s.data[o] \in Nat /\ s.named[o] \in SUBSET Row
  BY <1>4, ConstantsAssumption DEF StoreState, Version
<1>6. \A t \in Target : s.orig[t] \in Nat /\ written[t] \in Nat /\ written'[t] \in Nat
  BY <1>4, ConstantsAssumption, HistoryTypeStep
     DEF StoreState, Version, IInv, TypeOK, TypeHistory
<1>7. StoreOK(s) BY DEF IInv
<1>8. \A o \in Op : s.data[o] # 0 => s.data[o] <= written'[o[1]]
  BY <1>3, <1>5, <1>6, <1>7, OpFacts DEF StoreOK
<1>9. \A t \in Target : s.orig[t] <= written'[t]
  BY <1>3, <1>6, <1>7 DEF StoreOK
<1> QED BY <1>1, <1>2, <1>5, <1>7, <1>8, <1>9 DEF StoreOK

\* The store after a step of a running system.
LEMMA StoreNowStep ==
  ASSUME IInv, Next, ~Commit, ~PowerLoss
  PROVE  StoreNow'
<1> USE OpFacts, ConstantsAssumption
<1>1. ASSUME UNCHANGED store PROVE StoreNow'
  <2>1. PICK s \in OnDisk : s = Now BY DEF OnDisk
  <2>2. StoreOK(s)' BY DiskStable
  <2> QED BY <1>1, <2>1, <2>2 DEF StoreOK, StoreNow, Now, store
<1>2. StoreNow /\ TypeStore /\ ProcessOK /\ RowsOK BY IInvNow DEF IInv, TypeOK
<1>3. \A R \in SUBSET Row : AllCleaned(R) => AllCleaned(R)' BY Monotone DEF IInv
<1>4. \A o \in Op : data[o] \in Nat BY <1>2 DEF TypeStore, Version
<1>5. \A t \in Target : orig[t] \in Nat /\ written[t] \in Nat /\ 0 \notin condemned[t]
                        /\ condemned[t] \subseteq 1..written[t]
  BY <1>2 DEF TypeStore, Version, IInv, TypeOK, TypeHistory
<1>6. ASSUME NEW j, j = [o \in Op |-> IF journal[o] = "tmp" THEN "none" ELSE journal[o]],
             journal' = j,
             named' = [o \in Op |-> IF journal[o] = "tmp" THEN {} ELSE named[o]],
             UNCHANGED <<orig, data, db, history>>
      PROVE  StoreNow'
  BY <1>2, <1>6 DEF StoreNow, TypeStore, db, history, AllCleaned
<1>7. ASSUME cur \in Op, data[cur] = 0, UnlinkJournal(cur),
             UNCHANGED <<orig, data, db, history>>
      PROVE  StoreNow'
  BY <1>2, <1>4, <1>5, <1>7 DEF StoreNow, TypeStore, UnlinkJournal, db, history, AllCleaned
<1>8. ASSUME cur \in Op, Restorable(cur), AllLive(named[cur]), PutBack(cur),
             UNCHANGED <<journal, named, db, history>>
      PROVE  StoreNow'
  <2>1. named[cur] # {} BY <1>2, <1>8 DEF Restorable, StoreNow
  <2>2. ~AllCleaned(named[cur]) BY <1>8, <2>1 DEF AllLive, AllCleaned
  <2>3. data[cur] \notin condemned[cur[1]] BY <1>2, <1>8, <2>2 DEF StoreNow
  <2> QED
    BY <1>2, <1>4, <1>5, <1>8, <2>3
       DEF StoreNow, TypeStore, PutBack, Restorable, db, history, AllCleaned
<1>9. CASE TakeStoreLock \/ SkipCleanup \/ PickJournal \/ RefuseJournal \/ PickUndo
           \/ LeaveJournal \/ RecoveryFails \/ Inventory \/ TargetMissing \/ TargetFails
           \/ StageDurably \/ SendCommit \/ CommitReturns \/ CommitRaises \/ PickPurge
           \/ Finish \/ AbortTransaction \/ Kill
  BY <1>1, <1>9 DEF TakeStoreLock, SkipCleanup, PickJournal, RefuseJournal,
     PickUndo, LeaveJournal, RecoveryFails, Inventory, TargetMissing, TargetFails,
     StageDurably, SendCommit, CommitReturns, CommitRaises, PickPurge, Finish,
     AbortTransaction, Kill
<1>10. CASE LockSnapshot BY <1>6, <1>10 DEF LockSnapshot
<1>11. CASE Purge
  <2>1. cur \in Op BY <1>11 DEF Purge, IInv, TypeOK, TypeProcess
  <2>2. CASE Unstage(cur)
    BY <1>2, <1>4, <1>5, <1>11, <2>1, <2>2
       DEF Purge, Unstage, StoreNow, TypeStore, db, history, AllCleaned
  <2>3. CASE data[cur] = 0 /\ DropJournal(cur)
    BY <1>7, <1>11, <2>1, <2>3 DEF Purge, DropJournal
  <2> QED BY <1>11, <2>2, <2>3 DEF Purge
<1>12. CASE Restore
  <2>1. cur \in Op BY <1>12 DEF Restore, IInv, TypeOK, TypeProcess
  <2>2. AllLive(named[cur]) BY <1>2, <1>12 DEF Restore, RowsOK
  <2> QED
    BY <1>7, <1>8, <1>12, <2>1, <2>2 DEF Restore, AtPath, DropJournal
<1>13. CASE OpenTarget
  <2>1. PICK t \in todo, o \in Op :
          /\ Empty(o)
          /\ journal' = [journal EXCEPT ![o] = "tmp"]
          /\ named' = [named EXCEPT ![o] = Live(t)]
    BY <1>13 DEF OpenTarget, IInv, TypeOK, TypeProcess
  <2>2. Live(t) # {} BY <1>2 DEF RowsOK
  <2>3. UNCHANGED <<orig, data, db, history>> BY <1>13 DEF OpenTarget
  <2> QED
    BY <1>2, <1>4, <1>5, <2>1, <2>2, <2>3
       DEF StoreNow, TypeStore, Empty, db, history, AllCleaned
<1>14. CASE PublishJournal
  BY <1>2, <1>14
     DEF PublishJournal, ProcessOK, Staging, StoreNow, TypeStore, db, history, AllCleaned
<1>15. CASE MoveTarget
  <2>1. cur \in Op /\ journal[cur] = "live" /\ data[cur] = 0
    BY <1>2, <1>15 DEF MoveTarget, ProcessOK, Staging
  <2> QED
    BY <1>2, <1>4, <1>5, <1>15, <2>1
       DEF MoveTarget, StoreNow, TypeStore, db, history, AllCleaned
<1>16. CASE NotMoved
  <2>1. cur \in Op /\ data[cur] = 0 BY <1>2, <1>16 DEF NotMoved, ProcessOK, Staging
  <2> QED BY <1>7, <1>16, <2>1 DEF NotMoved, DropJournal
<1>17. CASE ReturnChanged
  <2>1. cur \in Op /\ (pc = "returned" => data[cur] = 0) /\ AllLive(named[cur])
    BY <1>2, <1>17 DEF ReturnChanged, ProcessOK, Staging, RowsOK, Operating
  <2> QED BY <1>7, <1>8, <1>17, <2>1 DEF ReturnChanged, DropJournal
<1>18. CASE StagingRaises BY <1>6, <1>18 DEF StagingRaises, GiveUp
<1>19. CASE MarkCleaned BY <1>1, <1>6, <1>19 DEF MarkCleaned, GiveUp, store
<1>20. CASE \E w \in Writer, t \in Target : Download(w, t)
  <2>1. PICK w \in Writer, t \in Target : Download(w, t) BY <1>20
  <2>2. CASE UNCHANGED store BY <1>1, <2>2
  <2>3. CASE /\ written' = [written EXCEPT ![t] = @ + 1]
             /\ orig' = [orig EXCEPT ![t] = written'[t]]
             /\ UNCHANGED <<journal, named, data>>
    BY <1>2, <1>4, <1>5, <2>1, <2>3
       DEF Download, StoreNow, TypeStore, IInv, TypeOK, TypeHistory, Elsewhere, db, AllCleaned
  <2> QED BY <2>1, <2>2, <2>3 DEF Download
<1>21. CASE HandEdit
  <2>1. cur[1] \in Target BY <1>2, <1>21 DEF HandEdit, ProcessOK, Staging
  <2> QED
    BY <1>2, <1>4, <1>5, <1>21, <2>1
       DEF HandEdit, StoreNow, TypeStore, IInv, TypeOK, TypeHistory, db, AllCleaned
<1>22. CASE \/ \E w \in Writer : \/ StartRun(w) \/ TakeSharedLock(w) \/ ReleaseShared(w)
                                 \/ FinishRun(w) \/ KillWriter(w)
                                 \/ \E t \in Target : RecordImage(w, t)
            \/ \E r \in Row : ChangeUse(r)
  BY <1>1, <1>22 DEF StartRun, TakeSharedLock, RecordImage, ReleaseShared, FinishRun,
     KillWriter, ChangeUse
<1> QED BY <1>9, <1>10, <1>11, <1>12, <1>13, <1>14, <1>15, <1>16, <1>17, <1>18, <1>19,
     <1>20, <1>21, <1>22 DEF Next, Cleanup, Server, Environment

LEMMA StoreStep ==
  ASSUME IInv, Next
  PROVE  \A s \in OnDisk' : StoreOK(s)'
<1> SUFFICES ASSUME NEW s \in OnDisk' PROVE StoreOK(s)' OBVIOUS
<1>1. CASE Commit
  <2> USE OpFacts, ConstantsAssumption
  <2>1. lag = {} /\ UNCHANGED <<store, lag, written>>
    BY <1>1 DEF Commit, IInv, CommitOK
  <2>2. s = Now BY <2>1 DEF OnDisk, Now, store
  <2>3. StoreNow BY IInvNow
  <2>4. /\ rowState' = [r \in Row |-> IF r \in marks THEN "cleaned" ELSE rowState[r]]
        /\ condemned' = [t \in Target |-> condemned[t] \cup
             {data[o] : o \in {q \in Journals : q[1] = t /\ data[q] # 0
                                              /\ named[q] \subseteq marks}}]
    BY <1>1 DEF Commit
  <2>5. \A R \in SUBSET Row : AllCleaned(R) \/ R \subseteq marks => AllCleaned(R)'
    BY <2>4 DEF AllCleaned, IInv, TypeOK, TypeDb
  <2>6. \A o \in Op : named[o] \in SUBSET Row BY DEF IInv, TypeOK, TypeStore
  <2>7. ASSUME NEW t \in Target PROVE orig[t] \notin condemned'[t]
    <3>1. \A q \in Op : q[1] = t /\ data[q] # 0 => data[q] # orig[t]
      BY <2>3 DEF StoreNow
    <3>2. orig[t] \notin condemned[t] BY <2>3 DEF StoreNow
    <3> QED BY <2>4, <3>1, <3>2 DEF Journals
  <2>8. ASSUME NEW o \in Op, data[o] \in condemned'[o[1]] PROVE AllCleaned(named[o])'
    <3>1. CASE data[o] \in condemned[o[1]] BY <2>1, <2>3, <2>5, <2>6, <3>1
         DEF StoreNow, AllCleaned, store
    <3>2. CASE data[o] \notin condemned[o[1]]
      <4>1. PICK q \in Op : q[1] = o[1] /\ data[q] # 0 /\ named[q] \subseteq marks
                            /\ data[o] = data[q]
        BY <2>4, <2>8, <3>2 DEF Journals
      <4>2. o = q BY <2>3, <4>1 DEF StoreNow
      <4> QED BY <2>1, <2>5, <2>6, <4>1, <4>2 DEF AllCleaned, store
    <3> QED BY <3>1, <3>2
  <2>9. StoreNow'
    BY <2>1, <2>3, <2>7, <2>8 DEF StoreNow, store
  <2> QED BY <2>1, <2>2, <2>9 DEF StoreNow, StoreOK, Now, store
<1>2. CASE PowerLoss
  <2>1. PICK d \in OnDisk : /\ orig' = d.orig /\ journal' = d.journal
                            /\ named' = d.named /\ data' = d.data
    BY <1>2 DEF PowerLoss
  <2>2. s = Now' BY <1>2 DEF PowerLoss, OnDisk
  <2>3. ~Commit
    BY <1>2, ConstantsAssumption
       DEF PowerLoss, Commit, Die, bounds, IInv, TypeOK, TypeHistory
  <2>4. StoreOK(d)' BY <2>3, DiskStable
  <2> QED BY <2>1, <2>2, <2>4 DEF StoreOK, Now
<1>3. CASE ~Commit /\ ~PowerLoss
  <2>1. \/ s \in OnDisk
        \/ s = Now'
    BY <1>3 DEF Next, Cleanup, TakeStoreLock, SkipCleanup, LockSnapshot, PickJournal,
       RefuseJournal, PickUndo, Purge, Restore, LeaveJournal, RecoveryFails, Inventory,
       OpenTarget, TargetMissing, TargetFails, PublishJournal, MoveTarget, NotMoved,
       StageDurably, ReturnChanged, StagingRaises, MarkCleaned, SendCommit,
       CommitReturns, CommitRaises, PickPurge, Finish, Server, AbortTransaction,
       Kill, Environment, StartRun, TakeSharedLock, Download, RecordImage,
       ReleaseShared, FinishRun, KillWriter, ChangeUse, HandEdit, OnDisk, Synced,
       Unsynced, Unstage, DropJournal
  <2>2. CASE s \in OnDisk BY <1>3, <2>2, DiskStable
  <2>3. CASE s = Now'
    BY <1>3, <2>3, StoreNowStep DEF StoreNow, StoreOK, Now
  <2> QED BY <2>1, <2>2, <2>3
<1> QED BY <1>1, <1>2, <1>3

-----------------------------------------------------------------------------
(* What the cleanup process and the server know.                           *)

LEMMA ProcessStep == ASSUME IInv, Next PROVE ProcessOK'
<1> USE OpFacts DEF ProcessOK, Staging, Operating
<1>1. TypeStore /\ TypeProcess /\ ProcessOK BY DEF IInv, TypeOK
<1>2. ASSUME Exit PROVE ProcessOK' BY <1>2 DEF Exit
<1>3. ASSUME UNCHANGED <<pc, local, journal, data>> PROVE ProcessOK'
  BY <1>1, <1>3 DEF local, Journals
<1>4. ASSUME GiveUp(journal) PROVE ProcessOK'
  BY <1>1, <1>4 DEF GiveUp, Journals, TypeStore
<1>5. CASE TakeStoreLock \/ SkipCleanup \/ LockSnapshot
  BY <1>1, <1>2, <1>5
     DEF TakeStoreLock, SkipCleanup, LockSnapshot, local, Journals, TypeStore
<1>6. CASE PickJournal \/ RefuseJournal \/ PickUndo \/ PickPurge
  BY <1>1, <1>6
     DEF PickJournal, RefuseJournal, PickUndo, PickPurge, store, Journals, TypeProcess
<1>7. CASE Purge \/ Restore \/ LeaveJournal
  BY <1>1, <1>7
     DEF Purge, Unstage, Restore, PutBack, DropJournal, UnlinkJournal, LeaveJournal,
         store, Journals, TypeStore, TypeProcess
<1>8. CASE RecoveryFails \/ Inventory \/ TargetMissing \/ TargetFails
  BY <1>1, <1>2, <1>8
     DEF RecoveryFails, Inventory, TargetMissing, TargetFails, Reconciled, store
<1>16. CASE SendCommit \/ CommitReturns \/ CommitRaises \/ Finish
  BY <1>1, <1>2, <1>16
     DEF SendCommit, CommitReturns, CommitRaises, Finish, store, local, Journals, TypeProcess
<1>9. CASE OpenTarget
  <2>1. PICK t \in todo, o \in Op :
          /\ Empty(o) /\ cur' = o
          /\ journal' = [journal EXCEPT ![o] = "tmp"]
    BY <1>1, <1>9 DEF OpenTarget, TypeProcess
  <2>2. /\ pc = "operate" /\ pc' = "tmp" /\ UNCHANGED <<data, mode, staged>>
    BY <1>9 DEF OpenTarget
  <2> QED BY <1>1, <2>1, <2>2 DEF TypeStore, TypeProcess, Empty
<1>10. CASE PublishJournal \/ MoveTarget
  BY <1>1, <1>10 DEF PublishJournal, MoveTarget, TypeStore, TypeProcess, local
<1>11. CASE NotMoved \/ StageDurably \/ ReturnChanged
  BY <1>1, <1>11
     DEF NotMoved, StageDurably, ReturnChanged, DropJournal, UnlinkJournal, PutBack,
         TypeStore, TypeProcess, store
<1>12. CASE StagingRaises \/ MarkCleaned
  BY <1>1, <1>2, <1>4, <1>12 DEF StagingRaises, MarkCleaned, local
<1>13. CASE Server BY <1>3, <1>13 DEF Server, Commit, AbortTransaction, store
<1>14. CASE Kill \/ PowerLoss BY <1>2, <1>14 DEF Kill, PowerLoss
<1>15. CASE Environment
  BY <1>3, <1>15 DEF Environment, StartRun, TakeSharedLock, Download, RecordImage,
     ReleaseShared, FinishRun, KillWriter, ChangeUse, HandEdit, Elsewhere, store
<1> QED BY <1>5, <1>6, <1>7, <1>8, <1>9, <1>10, <1>11, <1>12, <1>13, <1>14, <1>15,
     <1>16 DEF Next, Cleanup

LEMMA CommitStep == ASSUME IInv, Next PROVE CommitOK'
<1> USE OpFacts DEF CommitOK, Staging, Operating
<1>1. TypeServer /\ TypeProcess /\ CommitOK /\ ProcessOK BY DEF IInv, TypeOK
<1>2. ASSUME Exit, UNCHANGED <<server, lag>> PROVE CommitOK'
  BY <1>1, <1>2 DEF Exit, server
<1>3. ASSUME UNCHANGED <<server, pc, cleanedIds>>, lag' \in {lag, {}} PROVE CommitOK'
  <2>1. AllCleaned(cleanedIds) => AllCleaned(cleanedIds)'
    BY <1>1, <1>3, Monotone DEF IInv, TypeOK, TypeProcess, AllCleaned
  <2> QED BY <1>1, <1>3, <2>1 DEF server
<1>4. CASE TakeStoreLock \/ SkipCleanup \/ LockSnapshot
  BY <1>1, <1>2, <1>4
     DEF TakeStoreLock, SkipCleanup, LockSnapshot, server, local, Synced
<1>5. CASE PickJournal \/ RefuseJournal \/ PickUndo \/ LeaveJournal
  BY <1>3, <1>5 DEF PickJournal, RefuseJournal, PickUndo, LeaveJournal, db
<1>6. CASE Purge \/ Restore \/ PickPurge
  BY <1>1, <1>6 DEF Purge, Restore, PickPurge, Synced, Unstage, DropJournal, server,
     ProcessOK
<1>7. CASE RecoveryFails \/ Inventory
  BY <1>1, <1>7 DEF RecoveryFails, Inventory, CloseConn, Rollback, Exit, server
<1>8. CASE OpenTarget \/ TargetMissing \/ TargetFails \/ PublishJournal \/ MoveTarget
  BY <1>1, <1>8 DEF OpenTarget, TargetMissing, TargetFails, PublishJournal, MoveTarget,
     server, local, Synced
<1>9. CASE NotMoved \/ StageDurably \/ ReturnChanged
  BY <1>1, <1>9 DEF NotMoved, StageDurably, ReturnChanged, Synced, DropJournal, server
<1>10. CASE StagingRaises
  BY <1>1, <1>10 DEF StagingRaises, GiveUp, CloseConn
<1>11. CASE MarkCleaned
  BY <1>1, <1>11 DEF MarkCleaned, GiveUp, CloseConn, Exit, local
<1>12. CASE SendCommit \/ CommitReturns \/ CommitRaises
  BY <1>1, <1>2, <1>12 DEF SendCommit, CommitReturns, CommitRaises, server, local, db,
     AllCleaned
<1>13. CASE Finish BY <1>2, <1>13 DEF Finish
<1>14. CASE Server
  BY <1>1, <1>14 DEF Server, Commit, AbortTransaction, local, db, AllCleaned, TypeServer,
     TypeProcess
<1>15. CASE Kill \/ PowerLoss
  BY <1>2, <1>15 DEF Kill, PowerLoss, Exit, store
<1>16. CASE Environment
  BY <1>3, <1>16 DEF Environment, StartRun, TakeSharedLock, Download, RecordImage,
     ReleaseShared, FinishRun, KillWriter, ChangeUse, HandEdit, Elsewhere, local, Synced
<1> QED BY <1>4, <1>5, <1>6, <1>7, <1>8, <1>9, <1>10, <1>11, <1>12, <1>13, <1>14, <1>15,
     <1>16 DEF Next, Cleanup

\* Unless a commit takes effect, live rows stay live.
LEMMA LiveMonotone ==
  ASSUME TypeOK, Next, ~Commit
  PROVE  \A R \in SUBSET Row : AllLive(R) => AllLive(R)'
<1> USE DEF TypeOK, TypeDb, db, AllLive
<1>1. CASE Cleanup
  BY <1>1 DEF Cleanup, TakeStoreLock, SkipCleanup, LockSnapshot, PickJournal,
     RefuseJournal, PickUndo, Purge, Restore, LeaveJournal, RecoveryFails, Inventory,
     OpenTarget, TargetMissing, TargetFails, PublishJournal, MoveTarget, NotMoved,
     StageDurably, ReturnChanged, StagingRaises, MarkCleaned, SendCommit,
     CommitReturns, CommitRaises, PickPurge, Finish
<1>2. CASE AbortTransaction BY <1>2 DEF AbortTransaction
<1>3. CASE Kill \/ PowerLoss BY <1>3 DEF Kill, PowerLoss
<1>4. CASE Environment
  BY <1>4 DEF Environment, StartRun, TakeSharedLock, Download, RecordImage,
     ReleaseShared, FinishRun, KillWriter, ChangeUse, HandEdit
<1> QED BY <1>1, <1>2, <1>3, <1>4 DEF Next, Server

LEMMA RowsStep == ASSUME IInv, Next PROVE RowsOK'
<1> USE OpFacts DEF Staging, Operating
<1>1. TypeStore /\ TypeProcess /\ ProcessOK /\ RowsOK /\ CommitOK BY DEF IInv, TypeOK
<1>2. \A o \in Op : named[o] \in SUBSET Row BY <1>1 DEF TypeStore
<1>3. ASSUME Exit PROVE RowsOK' BY <1>3 DEF Exit, RowsOK
<1>4. CASE Commit
  BY <1>1, <1>4 DEF Commit, local, store, RowsOK, ProcessOK, CommitOK
<1>5. CASE Kill \/ PowerLoss BY <1>3, <1>5 DEF Kill, PowerLoss
<1> SUFFICES ASSUME ~Commit, ~Kill, ~PowerLoss PROVE RowsOK'
  BY <1>4, <1>5
<1>6. \A r \in Row : /\ rowState[r] = "cleaned" => rowState'[r] = "cleaned"
                     /\ rowState[r] = "live" => rowState'[r] = "live"
  <2> SUFFICES ASSUME NEW r \in Row
               PROVE  /\ rowState[r] = "cleaned" => rowState'[r] = "cleaned"
                      /\ rowState[r] = "live" => rowState'[r] = "live"
    OBVIOUS
  <2>1. AllCleaned({r}) => AllCleaned({r})' BY Monotone DEF IInv
  <2>2. AllLive({r}) => AllLive({r})' BY LiveMonotone DEF IInv
  <2> QED BY <2>1, <2>2 DEF AllCleaned, AllLive
<1> USE DEF AllCleaned, AllLive
<1>7. \A t \in Target : Live(t) # {} => Live(t)' # {}
  <2> SUFFICES ASSUME NEW t \in Target, NEW r \in Live(t) PROVE r \in Live(t)'
    OBVIOUS
  <2> QED BY <1>6 DEF Live
<1>8. ASSUME UNCHANGED <<pc, local, journal, named>> PROVE RowsOK'
  <2>1. cur # NoOp => cur \in Op BY <1>1 DEF TypeProcess
  <2>2. /\ mode \in {"purge", "restore"} => cur \in Op
        /\ staged \subseteq Op /\ todo \subseteq Target /\ pending \subseteq Op
    BY <1>1, <2>1 DEF ProcessOK, TypeProcess
  <2>3. \A t \in todo' : Live(t)' # {} BY <1>1, <1>7, <1>8, <2>2 DEF RowsOK, local
  <2>4. mode = "purge" => AllCleaned(named[cur])'
    BY <1>1, <1>2, <1>6, <1>8, <2>2 DEF RowsOK, local
  <2>5. mode = "restore" => AllLive(named[cur])'
    BY <1>1, <1>2, <1>6, <1>8, <2>2 DEF RowsOK, local
  <2>6. pc \in Operating \cup {"undo", "commit"}
          => \A o \in Op : journal[o] # "none" => AllLive(named[o])'
    BY <1>1, <1>2, <1>6, <1>8 DEF RowsOK
  <2>7. pc = "purge" => \A o \in pending : AllCleaned(named[o])'
    BY <1>1, <1>2, <1>6, <1>8, <2>2 DEF RowsOK, local
  <2> QED BY <1>1, <1>8, <2>3, <2>4, <2>5, <2>6, <2>7 DEF RowsOK, local
<1>9. CASE TakeStoreLock \/ SkipCleanup \/ LockSnapshot \/ RecoveryFails
  BY <1>1, <1>3, <1>9
     DEF TakeStoreLock, SkipCleanup, LockSnapshot, RecoveryFails, local, RowsOK, ProcessOK
<1>10. CASE PickJournal \/ RefuseJournal \/ PickUndo \/ PickPurge
  <2>1. UNCHANGED <<rowState, named, journal, todo, pc>> /\ Journals \subseteq Op
    BY <1>10 DEF PickJournal, RefuseJournal, PickUndo, PickPurge, db, store, Journals
  <2> QED BY <1>1, <1>10, <2>1
     DEF PickJournal, RefuseJournal, PickUndo, PickPurge, RowsOK, ProcessOK, Live,
         TypeProcess, Journals
<1>11. CASE Purge \/ Restore \/ LeaveJournal
  BY <1>1, <1>11
     DEF Purge, Restore, LeaveJournal, Unstage, PutBack, DropJournal, UnlinkJournal,
         RowsOK, ProcessOK, TypeProcess, TypeStore, Live, db, store
<1>12. CASE Inventory
  BY <1>1, <1>3, <1>12
     DEF Inventory, Deletable, Candidates, Empty, RowsOK, ProcessOK, Live, Reconciled, db,
         store
<1>13. CASE OpenTarget
  <2>1. PICK t \in todo, o \in Op :
          /\ Empty(o) /\ cur' = o
          /\ journal' = [journal EXCEPT ![o] = "tmp"]
          /\ named' = [named EXCEPT ![o] = Live(t)]
    BY <1>1, <1>13 DEF OpenTarget, TypeProcess
  <2>2. /\ pc = "operate" /\ pc' = "tmp" /\ todo' \subseteq todo
        /\ UNCHANGED <<rowState, mode, staged, cleanedIds>>
    BY <1>13 DEF OpenTarget, db
  <2> QED
    BY <1>1, <2>1, <2>2 DEF RowsOK, ProcessOK, Empty, Live, TypeStore, TypeProcess
<1>14. CASE TargetMissing \/ TargetFails \/ PublishJournal \/ MoveTarget
  BY <1>1, <1>14
     DEF TargetMissing, TargetFails, PublishJournal, MoveTarget, RowsOK, ProcessOK, Live,
         local, db, store, TypeStore, TypeProcess
<1>15. CASE NotMoved \/ StageDurably \/ ReturnChanged
  BY <1>1, <1>15
     DEF NotMoved, StageDurably, ReturnChanged, PutBack, DropJournal, UnlinkJournal,
         RowsOK, ProcessOK, Live, db, store, TypeStore, TypeProcess
<1>16. CASE StagingRaises \/ MarkCleaned
  BY <1>1, <1>3, <1>16
     DEF StagingRaises, MarkCleaned, GiveUp, Empty, RowsOK, ProcessOK, Live, local, db,
         TypeStore, TypeProcess
<1>17. CASE SendCommit \/ CommitReturns \/ CommitRaises \/ Finish
  BY <1>1, <1>3, <1>17
     DEF SendCommit, CommitReturns, CommitRaises, Finish, RowsOK, ProcessOK, CommitOK,
         Live, local, db, store, TypeProcess
<1>18. CASE AbortTransaction BY <1>8, <1>18 DEF AbortTransaction, store
<1>19. CASE Environment
  BY <1>8, <1>19 DEF Environment, StartRun, TakeSharedLock, Download, RecordImage,
     ReleaseShared, FinishRun, KillWriter, ChangeUse, HandEdit, Elsewhere, store
<1> QED BY <1>9, <1>10, <1>11, <1>12, <1>13, <1>14, <1>15, <1>16, <1>17, <1>18, <1>19
     DEF Next, Cleanup, Server

LEMMA ChosenStep == ASSUME IInv, Next PROVE ChosenOK'
<1> USE OpFacts DEF Staging, Operating
<1>1. TypeStore /\ TypeProcess /\ TypeServer /\ ProcessOK /\ CommitOK /\ ChosenOK
  BY DEF IInv, TypeOK
<1>2. ASSUME txn' = "none" PROVE ChosenOK' BY <1>2 DEF ChosenOK
<1>3. ASSUME UNCHANGED <<rowState, use>>
      PROVE  \A t : Protected(t)' <=> Protected(t)
  BY <1>3 DEF Protected, Live
<1>4. ASSUME UNCHANGED <<rowState, use, named, todo, cur, cleanedIds, marks>>,
             txn' = txn \/ txn' = "none",
             txn' = "open" /\ pc' \in Operating \cup {"commit"}
               => pc \in Operating \cup {"commit"}
      PROVE  ChosenOK'
  BY <1>1, <1>3, <1>4 DEF ChosenOK, Live
<1>5. ASSUME UNCHANGED <<rowState, use, marks>>, txn' = txn,
             pc' \notin Operating \cup {"commit"}
      PROVE  ChosenOK'
  BY <1>1, <1>3, <1>5 DEF ChosenOK
<1>6. CASE TakeStoreLock \/ SkipCleanup \/ Kill \/ Finish
  BY <1>5, <1>6 DEF TakeStoreLock, SkipCleanup, Kill, Finish, Exit, db, server
<1>7. CASE LockSnapshot \/ RecoveryFails
  BY <1>1, <1>7 DEF LockSnapshot, RecoveryFails, CloseConn, Exit, CommitOK, ChosenOK
<1>8. CASE PickJournal \/ RefuseJournal \/ PickUndo \/ PickPurge
  BY <1>5, <1>8 DEF PickJournal, RefuseJournal, PickUndo, PickPurge, db, server
<1>9. CASE Purge \/ Restore \/ LeaveJournal
  BY <1>1, <1>5, <1>9
     DEF Purge, Restore, LeaveJournal, ProcessOK, db, server
<1>10. CASE Inventory
  BY <1>1, <1>2, <1>3, <1>10
     DEF Inventory, Rollback, Deletable, ProcessOK, ChosenOK, Reconciled, db, server
<1>11. CASE OpenTarget
  <2>1. PICK t \in todo, o \in Op :
          /\ cur' = o /\ o[1] = t
          /\ named' = [named EXCEPT ![o] = Live(t)]
    BY <1>1, <1>11 DEF OpenTarget, TypeProcess
  <2>2. /\ pc = "operate" /\ todo' \subseteq todo
        /\ UNCHANGED <<rowState, use, txn, marks, cleanedIds>>
    BY <1>11 DEF OpenTarget, db, server
  <2> QED BY <1>1, <1>3, <2>1, <2>2 DEF ChosenOK, CommitOK, TypeStore, Live
<1>12. CASE TargetMissing \/ TargetFails
  BY <1>1, <1>3, <1>12
     DEF TargetMissing, TargetFails, ChosenOK, CommitOK, ProcessOK, Live, db, server, store
<1>13. CASE PublishJournal \/ MoveTarget
  BY <1>4, <1>13 DEF PublishJournal, MoveTarget, db, server, local
<1>14. CASE NotMoved \/ StageDurably \/ ReturnChanged
  BY <1>1, <1>3, <1>14
     DEF NotMoved, StageDurably, ReturnChanged, DropJournal, UnlinkJournal, ProcessOK,
         ChosenOK, CommitOK, Live, db, server, store, TypeStore
<1>15. CASE StagingRaises
  BY <1>1, <1>15 DEF StagingRaises, GiveUp, CloseConn, CommitOK, ChosenOK
<1>16. CASE MarkCleaned
  BY <1>1, <1>3, <1>16
     DEF MarkCleaned, GiveUp, CloseConn, Exit, CommitOK, ProcessOK, ChosenOK, Live, local,
         db, server
<1>17. CASE SendCommit \/ CommitReturns \/ CommitRaises
  BY <1>1, <1>3, <1>5, <1>17
     DEF SendCommit, CommitReturns, CommitRaises, Exit, CommitOK, ChosenOK, db, server, local
<1>18. CASE Server \/ PowerLoss
  BY <1>2, <1>18 DEF Server, Commit, AbortTransaction, PowerLoss
<1>19. CASE \/ \E w \in Writer : \/ StartRun(w) \/ TakeSharedLock(w) \/ ReleaseShared(w)
                                 \/ FinishRun(w) \/ KillWriter(w)
                                 \/ \E t \in Target : Download(w, t)
            \/ HandEdit
  BY <1>4, <1>19 DEF StartRun, TakeSharedLock, Download, ReleaseShared, FinishRun,
     KillWriter, HandEdit, Elsewhere, db, server, store, local
<1>20. CASE \/ \E w \in Writer, t \in Target : RecordImage(w, t)
            \/ \E r \in Row : ChangeUse(r)
  BY <1>2, <1>20 DEF RecordImage, ChangeUse, Elsewhere, server
<1> QED BY <1>6, <1>7, <1>8, <1>9, <1>10, <1>11, <1>12, <1>13, <1>14, <1>15, <1>16,
     <1>17, <1>18, <1>19, <1>20 DEF Next, Cleanup, Environment

-----------------------------------------------------------------------------
(* The theorems.                                                           *)

LEMMA InitInv == Init => IInv
<1> SUFFICES ASSUME Init PROVE IInv OBVIOUS
<1>1. TypeOK BY InitType
<1>2. OnDisk = {Now} BY DEF OnDisk, Init
<1>3. StoreNow
  BY <1>1, ConstantsAssumption, OpFacts DEF Init, StoreNow, TypeOK, TypeStore, Version
<1>4. \A t \in Target : condemned[t] \subseteq 1..written[t] BY DEF Init
<1>5. ProcessOK BY DEF Init, ProcessOK, Staging, Operating
<1>6. RowsOK BY DEF Init, RowsOK, Staging, Operating
<1>7. CommitOK /\ ChosenOK BY DEF Init, CommitOK, ChosenOK, Staging, Operating
<1> QED BY <1>1, <1>2, <1>3, <1>4, <1>5, <1>6, <1>7, NowStore DEF IInv

LEMMA NextInv == IInv /\ Next => IInv'
<1> SUFFICES ASSUME IInv, Next PROVE IInv' OBVIOUS
<1>1. TypeOK' BY TypeStep DEF IInv
<1> QED BY <1>1, StoreStep, CondemnedStep, ProcessStep, RowsStep, CommitStep, ChosenStep
       DEF IInv

LEMMA StutterInv == IInv /\ UNCHANGED vars => IInv'
<1> SUFFICES ASSUME IInv, UNCHANGED vars PROVE IInv' OBVIOUS
<1> USE DEF vars, db, server, store, local, writers, history, bounds
<1>1. TypeOK'
  BY DEF IInv, TypeOK, TypeDb, TypeServer, TypeStore, TypeProcess, TypeWriters, TypeHistory
<1>2. \A s \in OnDisk' : StoreOK(s)' BY DEF IInv, OnDisk, Now, StoreOK, AllCleaned
<1>3. ProcessOK' BY DEF IInv, ProcessOK, Journals
<1>4. RowsOK' BY DEF IInv, RowsOK, AllCleaned, AllLive, Live
<1>5. CommitOK' BY DEF IInv, CommitOK, AllCleaned
<1>6. ChosenOK' BY DEF IInv, ChosenOK, Protected, Live
<1> QED BY <1>1, <1>2, <1>3, <1>4, <1>5, <1>6 DEF IInv

\* The inductive invariant: where the process is, what it knows of its journals
\* and rows, and that every disk a power loss may leave agrees with the database.
THEOREM Invariance == Spec => []IInv
<1>1. IInv /\ [Next]_vars => IInv' BY NextInv, StutterInv
<1> QED BY InitInv, <1>1, PTL DEF Spec

\* Every variable keeps its type, whatever the number of rows, files, writers,
\* deaths and failing calls.
THEOREM TypeCorrect == Spec => []TypeOK
<1>1. IInv => TypeOK BY DEF IInv
<1> QED BY Invariance, <1>1, PTL

\* Whatever a power loss leaves on disk, every file in quarantine has a journal
\* that names its rows.
THEOREM QuarantineIsJournaled == Spec => []StagedIsJournaled
<1>1. IInv => StagedIsJournaled
  BY DEF IInv, StagedIsJournaled, StoreOK
<1> QED BY Invariance, <1>1, PTL

\* Bytes whose rows were committed as cleaned never come back to their path, on
\* any disk a power loss may leave.
THEOREM DeletionIsDurable == Spec => []DeletionSticks
<1>1. IInv => DeletionSticks BY DEF IInv, DeletionSticks, StoreOK
<1> QED BY Invariance, <1>1, PTL

\* The restore after a failure that does not ask the database never meets a
\* journal whose rows are committed.
THEOREM UndoIsSafe == Spec => []BlindRestoreIsSafe
<1>1. IInv => BlindRestoreIsSafe
  BY DEF IInv, BlindRestoreIsSafe, RowsOK, Journals, AllLive, Staging, Operating
<1> QED BY Invariance, <1>1, PTL

\* A cleanup never judges a journal while the server may still commit.
THEOREM RecoveryIsDecided == Spec => []RecoveryReadsDecided
<1>1. IInv => RecoveryReadsDecided BY DEF IInv, RecoveryReadsDecided, CommitOK
<1> QED BY Invariance, <1>1, PTL

\* No restore precedes the outcome of the transaction of the files it puts back.
THEOREM RestoresAreDecided == Spec => []RestoredOnDecision
<1>1. BlindRestoreIsSafe /\ RecoveryReadsDecided => RestoredOnDecision
  BY DEF RestoredOnDecision
<1> QED BY UndoIsSafe, RecoveryIsDecided, <1>1, PTL

\* A commit cleans no row of a file that a live row protects.
THEOREM ProtectedIsKept == Spec => NeverCleansProtected
<1>1. ASSUME IInv, Next
      PROVE  \A r \in Row : rowState[r] = "live" /\ rowState'[r] = "cleaned"
                              => ~Protected(TargetOf[r])
  <2>1. CASE Commit
    BY <1>1, <2>1 DEF Commit, IInv, TypeOK, TypeDb, ChosenOK
  <2>2. CASE ~Commit
    <3> SUFFICES ASSUME NEW r \in Row, rowState[r] = "live"
                 PROVE  rowState'[r] = "live"
      OBVIOUS
    <3>1. AllLive({r}) => AllLive({r})' BY <1>1, <2>2, LiveMonotone DEF IInv
    <3> QED BY <3>1 DEF AllLive
  <2> QED BY <2>1, <2>2
<1>2. IInv /\ [Next]_vars
        => [\A r \in Row : rowState[r] = "live" /\ rowState'[r] = "cleaned"
              => ~Protected(TargetOf[r])]_vars
  BY <1>1
<1> QED BY Invariance, <1>2, PTL DEF Spec, NeverCleansProtected

\* Bytes leave quarantine only as the database decided, whatever else happens.
THEOREM BytesFollowDatabase == Spec => StagedBytesFollowDatabase
<1> DEFINE Leaves(o) == data[o] # 0 /\ data'[o] = 0 /\ ~PowerLoss
           Decided(o) == IF orig'[o[1]] = data[o]
                         THEN \A r \in named[o] : rowState[r] # "cleaned"
                         ELSE AllCleaned(named[o])
<1>1. ASSUME IInv, Next, NEW o \in Op, Leaves(o) PROVE Decided(o)
  <2> USE <1>1, OpFacts
  <2>1. StoreNow /\ TypeStore /\ TypeProcess /\ ProcessOK /\ RowsOK
    BY IInvNow DEF IInv, TypeOK
  <2>2. CASE Purge
    BY <2>1, <2>2
       DEF Purge, Unstage, DropJournal, RowsOK, ProcessOK, StoreNow, TypeStore, TypeProcess
  <2>3. ASSUME cur \in Op, PutBack(cur), AllLive(named[cur]) PROVE Decided(o)
    BY <2>1, <2>3 DEF PutBack, AllLive, TypeStore
  <2>4. CASE Restore
    BY <2>1, <2>3, <2>4 DEF Restore, RowsOK, TypeProcess, DropJournal
  <2>5. CASE ReturnChanged
    BY <2>1, <2>3, <2>5
       DEF ReturnChanged, RowsOK, ProcessOK, Staging, Operating, DropJournal
  <2>6. CASE MoveTarget
    BY <2>1, <2>6, ConstantsAssumption DEF MoveTarget, TypeStore
  <2>7. CASE UNCHANGED data BY <2>7
  <2> QED
    BY <2>2, <2>4, <2>5, <2>6, <2>7
       DEF Next, Cleanup, TakeStoreLock, SkipCleanup, LockSnapshot, PickJournal,
       RefuseJournal, PickUndo, LeaveJournal, RecoveryFails, Inventory, OpenTarget,
       TargetMissing, TargetFails, PublishJournal, NotMoved, StageDurably, StagingRaises,
       MarkCleaned, SendCommit, CommitReturns, CommitRaises, PickPurge, Finish, Server,
       Commit, AbortTransaction, Kill, Environment, StartRun, TakeSharedLock, Download,
       RecordImage, ReleaseShared, FinishRun, KillWriter, ChangeUse, HandEdit,
       DropJournal, store
<1>2. IInv /\ [Next]_vars => [\A o \in Op : Leaves(o) => Decided(o)]_vars BY <1>1
<1> QED BY Invariance, <1>2, PTL DEF Spec, StagedBytesFollowDatabase
-----------------------------------------------------------------------------
(* The protocol implements AtomicCleanup.  Apart from a commit, every step *)
(* leaves what is kept alone, or is a write or a removal at the path; and  *)
(* every disk a power loss may leave keeps the same.                       *)

\* Kept of one state of the store.
KeptIn(s, t) ==
  ({s.orig[t]} \cup {s.data[o] : o \in {q \in Op : q[1] = t /\ ~AllCleaned(s.named[q])}})
    \ {0}

\* A transaction marks live rows, and with one row of a file all of them.
WholeOK ==
  /\ txn = "open" /\ pc \in Operating \cup {"commit"} =>
       /\ AllLive(cleanedIds) /\ \A r \in cleanedIds : Live(TargetOf[r]) \subseteq cleanedIds
       /\ cur # NoOp => named[cur] = Live(cur[1])
  /\ txn = "committing" =>
       AllLive(marks) /\ \A r \in marks : Live(TargetOf[r]) \subseteq marks

\* A journal names rows of its target.
NamedOK == \A s \in OnDisk : \A o \in Op : \A r \in s.named[o] : TargetOf[r] = o[1]

SameKept == \A s \in OnDisk : \A t \in Target : KeptIn(s, t) = Kept[t]

AInv == IInv /\ WholeOK /\ NamedOK /\ SameKept

LEMMA WholeStep == ASSUME IInv, WholeOK, Next PROVE WholeOK'
<1> USE OpFacts DEF Staging, Operating
<1>1. TypeStore /\ TypeProcess /\ TypeServer /\ ProcessOK /\ CommitOK
  BY DEF IInv, TypeOK
<1>2. ASSUME txn' = "none" PROVE WholeOK' BY <1>2 DEF WholeOK
<1>3. ASSUME UNCHANGED <<rowState, named, cur, cleanedIds, marks>>,
             txn' = txn \/ txn' = "none",
             txn' = "open" /\ pc' \in Operating \cup {"commit"}
               => pc \in Operating \cup {"commit"}
      PROVE  WholeOK'
  BY <1>3 DEF WholeOK, Live, AllLive
<1>4. ASSUME UNCHANGED <<rowState, marks>>, txn' = txn, pc' \notin Operating \cup {"commit"}
      PROVE  WholeOK'
  BY <1>4 DEF WholeOK, Live, AllLive
<1>5. CASE TakeStoreLock \/ SkipCleanup \/ Kill \/ Finish
  BY <1>4, <1>5 DEF TakeStoreLock, SkipCleanup, Kill, Finish, Exit, db, server
<1>6. CASE LockSnapshot \/ RecoveryFails
  BY <1>1, <1>6 DEF LockSnapshot, RecoveryFails, CloseConn, Exit, CommitOK, WholeOK
<1>7. CASE PickJournal \/ RefuseJournal \/ PickUndo \/ PickPurge
  BY <1>4, <1>7 DEF PickJournal, RefuseJournal, PickUndo, PickPurge, db, server
<1>8. CASE Purge \/ Restore \/ LeaveJournal
  BY <1>1, <1>4, <1>8 DEF Purge, Restore, LeaveJournal, ProcessOK, db, server
<1>9. CASE Inventory
  BY <1>1, <1>2, <1>9
     DEF Inventory, Rollback, ProcessOK, WholeOK, AllLive, Reconciled, db, server
<1>10. CASE OpenTarget
  <2>1. PICK t \in todo, o \in Op :
          /\ cur' = o /\ o[1] = t
          /\ named' = [named EXCEPT ![o] = Live(t)]
    BY <1>1, <1>10 DEF OpenTarget, TypeProcess
  <2>2. pc = "operate" /\ UNCHANGED <<rowState, txn, marks, cleanedIds>>
    BY <1>10 DEF OpenTarget, db, server
  <2>3. named'[o] = Live(t) BY <1>1, <2>1 DEF TypeStore
  <2> QED BY <2>1, <2>2, <2>3 DEF WholeOK, Live, AllLive
<1>11. CASE TargetMissing \/ TargetFails
  BY <1>1, <1>11
     DEF TargetMissing, TargetFails, WholeOK, ProcessOK, Live, AllLive, db, server, store
<1>12. CASE PublishJournal \/ MoveTarget
  BY <1>3, <1>12 DEF PublishJournal, MoveTarget, db, server, local
<1>13. CASE NotMoved \/ StageDurably \/ ReturnChanged
  BY <1>1, <1>13
     DEF NotMoved, StageDurably, ReturnChanged, DropJournal, UnlinkJournal, ProcessOK,
         WholeOK, Live, AllLive, db, server, store, TypeStore
<1>14. CASE StagingRaises
  BY <1>1, <1>14 DEF StagingRaises, GiveUp, CloseConn, CommitOK, WholeOK
<1>15. CASE MarkCleaned
  BY <1>1, <1>15
     DEF MarkCleaned, GiveUp, CloseConn, Exit, CommitOK, ProcessOK, WholeOK, Live, AllLive,
         local, db, server
<1>16. CASE SendCommit \/ CommitReturns \/ CommitRaises
  BY <1>1, <1>4, <1>16
     DEF SendCommit, CommitReturns, CommitRaises, Exit, CommitOK, WholeOK, Live, AllLive,
         db, server, local
<1>17. CASE Server \/ PowerLoss
  BY <1>2, <1>17 DEF Server, Commit, AbortTransaction, PowerLoss
<1>18. CASE \/ \E w \in Writer : \/ StartRun(w) \/ TakeSharedLock(w) \/ ReleaseShared(w)
                                 \/ FinishRun(w) \/ KillWriter(w)
                                 \/ \E t \in Target : Download(w, t)
            \/ HandEdit
  BY <1>3, <1>18 DEF StartRun, TakeSharedLock, Download, ReleaseShared, FinishRun,
     KillWriter, HandEdit, Elsewhere, db, server, store, local
<1>19. CASE \/ \E w \in Writer, t \in Target : RecordImage(w, t)
            \/ \E r \in Row : ChangeUse(r)
  BY <1>2, <1>19 DEF RecordImage, ChangeUse, Elsewhere, server
<1> QED BY <1>5, <1>6, <1>7, <1>8, <1>9, <1>10, <1>11, <1>12, <1>13, <1>14, <1>15,
     <1>16, <1>17, <1>18, <1>19 DEF Next, Cleanup, Environment

\* Only what the system could see changes what a disk holds.
LEMMA DisksStep ==
  ASSUME Next
  PROVE  OnDisk' \subseteq OnDisk \cup {Now'}
<1>1. lag' \in {lag, {}, lag \cup {Now}}
  BY DEF Next, Cleanup, TakeStoreLock, SkipCleanup, LockSnapshot, PickJournal,
     RefuseJournal, PickUndo, Purge, Restore, LeaveJournal, RecoveryFails, Inventory,
     OpenTarget, TargetMissing, TargetFails, PublishJournal, MoveTarget, NotMoved,
     StageDurably, ReturnChanged, StagingRaises, MarkCleaned, SendCommit,
     CommitReturns, CommitRaises, PickPurge, Finish, Server, Commit, AbortTransaction,
     Kill, PowerLoss, Environment, StartRun, TakeSharedLock, Download, RecordImage,
     ReleaseShared, FinishRun, KillWriter, ChangeUse, HandEdit, Synced,
     Unsynced, Unstage, DropJournal
<1> QED BY <1>1 DEF OnDisk

\* What the journals of the store name now, in terms of its variables.
NamedNow == \A o \in Op : \A r \in named[o] : TargetOf[r] = o[1]

LEMMA NamedNowStep ==
  ASSUME IInv, NamedOK, Next
  PROVE  NamedNow'
<1> USE OpFacts
<1>1. TypeStore /\ TypeProcess BY DEF IInv, TypeOK
<1>2. NamedNow
  <2>1. Now \in OnDisk BY DEF OnDisk
  <2>2. Now.named = named BY DEF Now
  <2> QED BY <2>1, <2>2 DEF NamedOK, NamedNow
<1>3. ASSUME UNCHANGED named PROVE NamedNow' BY <1>2, <1>3 DEF NamedNow
<1>4. ASSUME named' = [o \in Op |-> IF journal[o] = "tmp" THEN {} ELSE named[o]]
      PROVE  NamedNow'
  BY <1>2, <1>4 DEF NamedNow
<1>5. ASSUME NEW o, UnlinkJournal(o) PROVE NamedNow'
  BY <1>1, <1>2, <1>5 DEF NamedNow, UnlinkJournal, TypeStore
<1>6. CASE OpenTarget
  <2>1. PICK t \in todo, o \in Op :
          o[1] = t /\ named' = [named EXCEPT ![o] = Live(t)]
    BY <1>1, <1>6 DEF OpenTarget, TypeProcess
  <2>2. \A r \in Live(t) : TargetOf[r] = o[1] BY <2>1 DEF Live
  <2> QED BY <1>1, <1>2, <2>1, <2>2 DEF NamedNow, TypeStore
<1>7. CASE PowerLoss
  BY <1>7 DEF PowerLoss, NamedOK, NamedNow
<1>8. CASE LockSnapshot \/ StagingRaises \/ MarkCleaned
  BY <1>3, <1>4, <1>8 DEF LockSnapshot, StagingRaises, MarkCleaned, GiveUp
<1>9. CASE Purge \/ Restore \/ NotMoved \/ ReturnChanged
  BY <1>3, <1>5, <1>9 DEF Purge, Unstage, Restore, NotMoved, ReturnChanged, DropJournal
<1>10. CASE UNCHANGED named BY <1>3, <1>10
<1> QED
  BY <1>6, <1>7, <1>8, <1>9, <1>10
     DEF Next, Cleanup, TakeStoreLock, SkipCleanup, PickJournal, RefuseJournal, PickUndo,
     LeaveJournal, RecoveryFails, Inventory, TargetMissing, TargetFails, PublishJournal,
     MoveTarget, StageDurably, SendCommit, CommitReturns, CommitRaises, PickPurge, Finish,
     Server, Commit, AbortTransaction, Kill, Environment, StartRun, TakeSharedLock,
     Download, RecordImage, ReleaseShared, FinishRun, KillWriter, ChangeUse, HandEdit,
     store

LEMMA NamedStep == ASSUME IInv, NamedOK, Next PROVE NamedOK'
<1>1. NamedNow' BY NamedNowStep
<1>2. OnDisk' \subseteq OnDisk \cup {Now'} BY DisksStep
<1>3. \A o \in Op : Now'.named[o] = named'[o] BY DEF Now
<1> QED BY <1>1, <1>2, <1>3 DEF NamedOK, NamedNow

-----------------------------------------------------------------------------
(* What is kept.                                                           *)

\* Something of version v of t's bytes is not given up.
Holds(t, v) ==
  v # 0 /\ (v = orig[t] \/ \E o \in Op : o[1] = t /\ ~AllCleaned(named[o]) /\ data[o] = v)

LEMMA KeptHolds ==
  /\ \A t \in Target : \A v : v \in Kept[t] <=> Holds(t, v)
  /\ \A t \in Target : KeptIn(Now, t) = Kept[t]
BY DEF Kept, Holds, KeptIn, Now

LEMMA KeptHoldsPrime ==
  /\ \A t \in Target : \A v : v \in Kept'[t] <=> Holds(t, v)'
  /\ \A t \in Target : KeptIn(Now, t)' = Kept'[t]
BY DEF Kept, Holds, KeptIn, Now

LEMMA SameHolds ==
  ASSUME \A t \in Target : \A v : Holds(t, v)' <=> Holds(t, v)
  PROVE  Kept' = Kept
<1>1. \A t \in Target : Kept'[t] = Kept[t] BY KeptHolds, KeptHoldsPrime
<1> QED BY <1>1 DEF Kept

\* Who is cleaned changes with a commit only.
LEMMA CleanedSame ==
  ASSUME IInv, Next, ~Commit
  PROVE  \A R \in SUBSET Row : AllCleaned(R)' <=> AllCleaned(R)
<1>1. \A R \in SUBSET Row : AllCleaned(R) => AllCleaned(R)' BY Monotone DEF IInv
<1>2. \A r \in Row : rowState'[r] = "cleaned" => rowState[r] = "cleaned"
  <2> USE DEF IInv, TypeOK, TypeDb, db
  <2>1. CASE Cleanup
    BY <2>1 DEF Cleanup, TakeStoreLock, SkipCleanup, LockSnapshot, PickJournal,
       RefuseJournal, PickUndo, Purge, Restore, LeaveJournal, RecoveryFails, Inventory,
       OpenTarget, TargetMissing, TargetFails, PublishJournal, MoveTarget, NotMoved,
       StageDurably, ReturnChanged, StagingRaises, MarkCleaned, SendCommit,
       CommitReturns, CommitRaises, PickPurge, Finish
  <2>2. CASE AbortTransaction BY <2>2 DEF AbortTransaction
  <2>3. CASE Kill \/ PowerLoss BY <2>3 DEF Kill, PowerLoss
  <2>4. CASE Environment
    BY <2>4 DEF Environment, StartRun, TakeSharedLock, Download, RecordImage,
       ReleaseShared, FinishRun, KillWriter, ChangeUse, HandEdit
  <2> QED BY <2>1, <2>2, <2>3, <2>4 DEF Next, Server
<1> QED BY <1>1, <1>2 DEF AllCleaned

\* New bytes at the path of t, or none.
Written(t) ==
  /\ written[t] < MaxVersion /\ written' = [written EXCEPT ![t] = @ + 1]
  /\ orig' = [orig EXCEPT ![t] = written'[t]]
  /\ UNCHANGED <<rowState, use, journal, named, data, lost>> /\ Synced
Removed(t) ==
  /\ orig[t] # 0 /\ orig' = [orig EXCEPT ![t] = 0]
  /\ lost' = [lost EXCEPT ![t] = @ \cup {orig[t]}]
  /\ UNCHANGED <<rowState, use, journal, named, data, written>> /\ Synced

LEMMA AtThePath ==
  ASSUME IInv
  PROVE  /\ \A w \in Writer, t \in Target :
              Download(w, t) => Written(t) \/ UNCHANGED <<store, lag, db, written, lost>>
         /\ HandEdit => cur[1] \in Target /\ (Written(cur[1]) \/ Removed(cur[1]))
<1>1. pc \in {"tmp", "journaled", "moved"} => cur[1] \in Target
  BY OpFacts DEF IInv, ProcessOK, Staging
<1> QED
  BY <1>1 DEF Download, HandEdit, Written, Removed, Elsewhere, db

\* Everybody else keeps what there is: what leaves a path is in quarantine in the same
\* step, what returns leaves it, and what is destroyed was given up at a commit.
LEMMA KeptStays ==
  ASSUME IInv, Next, ~Commit, ~PowerLoss, \A t \in Target : ~Written(t) /\ ~Removed(t)
  PROVE  Kept' = Kept
<1> USE OpFacts, ConstantsAssumption
<1>1. StoreNow /\ TypeStore /\ TypeProcess /\ ProcessOK /\ RowsOK BY IInvNow DEF IInv, TypeOK
<1>2. \A R \in SUBSET Row : AllCleaned(R)' <=> AllCleaned(R) BY CleanedSame
<1>3. \A o \in Op : named[o] \in SUBSET Row BY <1>1 DEF TypeStore
<1>4. ASSUME UNCHANGED <<orig, data>>, \A o \in Op : data[o] # 0 => named'[o] = named[o]
      PROVE  Kept' = Kept
  <2>1. \A t \in Target : \A v : Holds(t, v)' <=> Holds(t, v)
    BY <1>2, <1>3, <1>4 DEF Holds
  <2> QED BY <2>1, SameHolds
<1>5. ASSUME UNCHANGED store PROVE Kept' = Kept BY <1>4, <1>5 DEF store
<1>6. ASSUME cur \in Op, data[cur] = 0, UnlinkJournal(cur), UNCHANGED <<orig, data>>
      PROVE  Kept' = Kept
  BY <1>1, <1>4, <1>6 DEF UnlinkJournal, TypeStore
<1>7. ASSUME UNCHANGED <<orig, data>>,
             named' = [o \in Op |-> IF journal[o] = "tmp" THEN {} ELSE named[o]]
      PROVE  Kept' = Kept
  <2>1. \A o \in Op : data[o] # 0 => named'[o] = named[o] BY <1>1, <1>7 DEF StoreNow
  <2> QED BY <1>4, <1>7, <2>1
<1>8. ASSUME NEW o \in Op, data[o] # 0, orig[o[1]] = 0, AllLive(named[o]), PutBack(o),
             UNCHANGED named
      PROVE  Kept' = Kept
  <2>1. named[o] # {} /\ ~AllCleaned(named[o])
    BY <1>1, <1>8 DEF StoreNow, AllLive, AllCleaned
  <2>2. \A t \in Target : \A v : Holds(t, v)' <=> Holds(t, v)
    <3> SUFFICES ASSUME NEW t \in Target, NEW v PROVE Holds(t, v)' <=> Holds(t, v)
      OBVIOUS
    <3>1. /\ \A q \in Op : data'[q] = IF q = o THEN 0 ELSE data[q]
          /\ orig'[t] = IF t = o[1] THEN data[o] ELSE orig[t]
      BY <1>1, <1>8 DEF PutBack, TypeStore
    <3>2. \A q \in Op : AllCleaned(named[q])' <=> AllCleaned(named[q])
      BY <1>2, <1>3, <1>8 DEF AllCleaned
    <3> QED BY <1>8, <2>1, <3>1, <3>2 DEF Holds
  <2> QED BY <2>2, SameHolds
<1>9. CASE TakeStoreLock \/ SkipCleanup \/ PickJournal \/ RefuseJournal \/ PickUndo
           \/ LeaveJournal \/ RecoveryFails \/ Inventory \/ TargetMissing \/ TargetFails
           \/ StageDurably \/ SendCommit \/ CommitReturns \/ CommitRaises \/ PickPurge
           \/ Finish \/ AbortTransaction \/ Kill
  BY <1>5, <1>9 DEF TakeStoreLock, SkipCleanup, PickJournal, RefuseJournal,
     PickUndo, LeaveJournal, RecoveryFails, Inventory, TargetMissing, TargetFails,
     StageDurably, SendCommit, CommitReturns, CommitRaises, PickPurge, Finish,
     AbortTransaction, Kill
<1>10. CASE LockSnapshot BY <1>7, <1>10 DEF LockSnapshot
<1>11. CASE Purge
  <2>1. cur \in Op /\ AllCleaned(named[cur]) BY <1>1, <1>11 DEF Purge, TypeProcess, RowsOK
  <2>2. CASE Unstage(cur)
    <3>1. /\ \A q \in Op : data'[q] = IF q = cur THEN 0 ELSE data[q]
          /\ UNCHANGED <<orig, named>>
      BY <1>1, <2>2 DEF Unstage, TypeStore
    <3>2. \A q \in Op : AllCleaned(named[q])' <=> AllCleaned(named[q])
      BY <1>2, <1>3, <3>1 DEF AllCleaned
    <3>3. \A t \in Target : \A v : Holds(t, v)' <=> Holds(t, v)
      BY <2>1, <3>1, <3>2 DEF Holds
    <3> QED BY <3>3, SameHolds
  <2>3. CASE data[cur] = 0 /\ DropJournal(cur) BY <1>6, <2>1, <2>3 DEF DropJournal
  <2> QED BY <1>11, <2>2, <2>3 DEF Purge
<1>12. CASE Restore
  <2>1. cur \in Op /\ AllLive(named[cur]) BY <1>1, <1>12 DEF Restore, TypeProcess, RowsOK
  <2>2. CASE Restorable(cur) /\ PutBack(cur) /\ UNCHANGED named
    BY <1>8, <2>1, <2>2 DEF Restorable
  <2>3. CASE AtPath(cur) /\ DropJournal(cur) BY <1>6, <2>1, <2>3 DEF AtPath, DropJournal
  <2> QED BY <1>12, <2>2, <2>3 DEF Restore
<1>13. CASE OpenTarget
  <2>1. PICK t \in todo, o \in Op : Empty(o) /\ named' = [named EXCEPT ![o] = Live(t)]
    BY <1>1, <1>13 DEF OpenTarget, TypeProcess
  <2>2. UNCHANGED <<orig, data>> BY <1>13 DEF OpenTarget
  <2>3. \A q \in Op : data[q] # 0 => named'[q] = named[q] BY <1>1, <2>1 DEF Empty, TypeStore
  <2> QED BY <1>4, <2>2, <2>3
<1>14. CASE PublishJournal BY <1>4, <1>14 DEF PublishJournal
<1>15. CASE MoveTarget
  <2>1. cur \in Op /\ journal[cur] = "live" /\ data[cur] = 0 /\ orig[cur[1]] # 0
        /\ AllLive(named[cur])
    BY <1>1, <1>15 DEF MoveTarget, ProcessOK, RowsOK, Staging, Operating
  <2>2. ~AllCleaned(named[cur])
    BY <1>1, <2>1 DEF StoreNow, AllLive, AllCleaned
  <2>3. /\ \A q \in Op : data'[q] = IF q = cur THEN orig[cur[1]] ELSE data[q]
        /\ \A t \in Target : orig'[t] = IF t = cur[1] THEN 0 ELSE orig[t]
        /\ UNCHANGED named
    BY <1>1, <1>15, <2>1 DEF MoveTarget, TypeStore
  <2>4. \A q \in Op : AllCleaned(named[q])' <=> AllCleaned(named[q])
    BY <1>2, <1>3, <2>3 DEF AllCleaned
  <2>5. \A t \in Target : \A v : Holds(t, v)' <=> Holds(t, v)
    BY <2>1, <2>2, <2>3, <2>4 DEF Holds
  <2> QED BY <2>5, SameHolds
<1>16. CASE NotMoved
  <2>1. cur \in Op /\ data[cur] = 0 BY <1>1, <1>16 DEF NotMoved, ProcessOK, Staging
  <2> QED BY <1>6, <1>16, <2>1 DEF NotMoved, DropJournal
<1>17. CASE ReturnChanged
  <2>1. cur \in Op /\ (pc = "returned" => data[cur] = 0) /\ AllLive(named[cur])
    BY <1>1, <1>17 DEF ReturnChanged, ProcessOK, Staging, RowsOK, Operating
  <2> QED BY <1>6, <1>8, <1>17, <2>1 DEF ReturnChanged, DropJournal, Restorable
<1>18. CASE StagingRaises BY <1>7, <1>18 DEF StagingRaises, GiveUp
<1>19. CASE MarkCleaned BY <1>5, <1>7, <1>19 DEF MarkCleaned, GiveUp, store
<1>20. CASE \E w \in Writer, t \in Target : Download(w, t) BY <1>5, <1>20, AtThePath
<1>21. CASE HandEdit BY <1>21, AtThePath
<1>22. CASE \/ \E w \in Writer : \/ StartRun(w) \/ TakeSharedLock(w) \/ ReleaseShared(w)
                                 \/ FinishRun(w) \/ KillWriter(w)
                                 \/ \E t \in Target : RecordImage(w, t)
            \/ \E r \in Row : ChangeUse(r)
  BY <1>5, <1>22 DEF StartRun, TakeSharedLock, RecordImage, ReleaseShared, FinishRun,
     KillWriter, ChangeUse
<1> QED BY <1>9, <1>10, <1>11, <1>12, <1>13, <1>14, <1>15, <1>16, <1>17, <1>18, <1>19,
     <1>20, <1>21, <1>22 DEF Next, Cleanup, Server, Environment

\* What a power loss brings back keeps what was kept before it.
LEMMA KeptSurvives ==
  ASSUME AInv, PowerLoss, Next
  PROVE  Kept' = Kept
<1> USE DEF AInv
<1>1. PICK s \in OnDisk : /\ orig' = s.orig /\ named' = s.named /\ data' = s.data
  BY DEF PowerLoss
<1>2. ~Commit
  BY ConstantsAssumption DEF PowerLoss, Commit, Die, bounds, IInv, TypeOK, TypeHistory
<1>3. s.named \in [Op -> SUBSET Row]
  BY NowType DEF IInv, TypeOK, TypeStore, OnDisk, StoreState
<1>4. \A q \in Op : s.named[q] \in SUBSET Row BY <1>3
<1>5. \A q \in Op : AllCleaned(named[q])' <=> AllCleaned(s.named[q])
  BY <1>1, <1>2, <1>4, CleanedSame DEF AllCleaned
<1>6. \A t \in Target : Kept'[t] = KeptIn(s, t) BY <1>1, <1>5 DEF Kept, KeptIn
<1>7. \A t \in Target : Kept'[t] = Kept[t] BY <1>6 DEF SameKept
<1> QED BY <1>7 DEF Kept

LEMMA SameKeptStep == ASSUME AInv, Next PROVE SameKept'
<1> USE DEF AInv
<1>1. \A t \in Target : KeptIn(Now, t)' = Kept'[t] BY KeptHoldsPrime
<1>2. ASSUME OnDisk' = {Now'} PROVE SameKept'
  BY <1>1, <1>2 DEF SameKept, KeptIn
<1>3. CASE Commit
  <2>1. lag' = {} BY <1>3 DEF Commit, IInv, CommitOK
  <2>2. OnDisk' = {Now'} BY <2>1 DEF OnDisk
  <2> QED BY <1>2, <2>2
<1>4. CASE PowerLoss \/ \E t \in Target : Written(t) \/ Removed(t)
  <2>1. lag' = {} BY <1>4 DEF PowerLoss, Written, Removed, Synced
  <2>2. OnDisk' = {Now'} BY <2>1 DEF OnDisk
  <2> QED BY <1>2, <2>2
<1>5. CASE ~Commit /\ ~PowerLoss /\ \A t \in Target : ~Written(t) /\ ~Removed(t)
  <2>1. Kept' = Kept BY <1>5, KeptStays
  <2>2. ASSUME NEW s \in OnDisk', NEW t \in Target PROVE KeptIn(s, t)' = Kept'[t]
    <3>1. CASE s = Now' BY <1>1, <3>1 DEF KeptIn
    <3>2. CASE s \in OnDisk
      <4>1. s.named \in [Op -> SUBSET Row]
        BY <3>2, NowType DEF IInv, TypeOK, TypeStore, OnDisk, StoreState
      <4>2. \A q \in Op : s.named[q] \in SUBSET Row BY <4>1
      <4>3. \A q \in Op : AllCleaned(s.named[q])' <=> AllCleaned(s.named[q])
        BY <1>5, <4>2, CleanedSame
      <4>4. KeptIn(s, t)' = KeptIn(s, t) BY <4>3 DEF KeptIn
      <4>5. KeptIn(s, t) = Kept[t] BY <3>2 DEF SameKept
      <4> QED BY <2>1, <4>4, <4>5
    <3> QED BY <3>1, <3>2, DisksStep
  <2> QED BY <2>2 DEF SameKept
<1> QED BY <1>3, <1>4, <1>5

LEMMA AInvInit == Init => AInv
<1> SUFFICES ASSUME Init PROVE AInv OBVIOUS
<1>1. IInv BY InitInv
<1>2. WholeOK BY DEF Init, WholeOK
<1>3. OnDisk = {Now} BY DEF Init, OnDisk
<1>4. NamedOK BY <1>3 DEF NamedOK, Init, Now
<1>5. SameKept BY <1>3, KeptHolds DEF SameKept
<1> QED BY <1>1, <1>2, <1>4, <1>5 DEF AInv

LEMMA AInvNext == AInv /\ [Next]_vars => AInv'
<1> SUFFICES ASSUME AInv, [Next]_vars PROVE AInv' OBVIOUS
<1>1. CASE Next BY <1>1, NextInv, WholeStep, NamedStep, SameKeptStep DEF AInv
<1>2. CASE UNCHANGED vars
  <2>1. IInv' BY <1>2, StutterInv DEF AInv
  <2> USE <1>2 DEF AInv, vars, db, server, store, local
  <2>2. WholeOK' BY DEF WholeOK, Live, AllLive
  <2>3. OnDisk' = OnDisk BY DEF OnDisk, Now
  <2>4. NamedOK' BY <2>3 DEF NamedOK
  <2>5. Kept' = Kept BY DEF Kept, AllCleaned
  <2>6. SameKept' BY <2>3, <2>5 DEF SameKept, KeptIn, AllCleaned
  <2> QED BY <2>1, <2>2, <2>4, <2>6
<1> QED BY <1>1, <1>2

-----------------------------------------------------------------------------
(* Each step is a step of AtomicCleanup, or none.                          *)

LEMMA WriteIsWrite ==
  ASSUME AInv, NEW t \in Target, Written(t)
  PROVE  Atomic!Write(t)
<1> USE DEF AInv
<1>1. StoreNow /\ TypeStore BY IInvNow DEF IInv, TypeOK
<1>2. written[t] \in Nat /\ written'[t] = written[t] + 1
  BY ConstantsAssumption DEF Written, IInv, TypeOK, TypeHistory, Version
<1>3. /\ \A q \in Target : orig'[q] = IF q = t THEN written'[t] ELSE orig[q]
      /\ UNCHANGED <<data, named, rowState>>
  BY <1>1 DEF Written, TypeStore
<1>4. \A o \in Op : AllCleaned(named[o])' <=> AllCleaned(named[o]) BY <1>3 DEF AllCleaned
<1>5. \A o \in Op : data[o] # 0 => data[o] # orig[o[1]] BY <1>1 DEF StoreNow
<1>6. \A q \in Target : \A v : v \in Kept'[q] <=>
        IF q = t THEN v \in (Kept[t] \ {orig[t]}) \cup {written'[t]} ELSE v \in Kept[q]
  <2> SUFFICES ASSUME NEW q \in Target, NEW v
               PROVE  Holds(q, v)' <=> IF q = t
                        THEN (Holds(t, v) /\ v # orig[t]) \/ v = written'[t] ELSE Holds(q, v)
    BY KeptHolds, KeptHoldsPrime
  <2> QED BY <1>2, <1>3, <1>4, <1>5 DEF Holds
<1>7. Kept' = [Kept EXCEPT ![t] = (@ \ {orig[t]}) \cup {written'[t]}]
  BY <1>6 DEF Kept
<1>8. orig[t] \in Kept[t] \cup {0} BY KeptHolds DEF Holds
<1> QED BY <1>7, <1>8 DEF Written, Atomic!Write

LEMMA RemoveIsRemove ==
  ASSUME AInv, NEW t \in Target, Removed(t)
  PROVE  Atomic!Remove(t)
<1> USE DEF AInv
<1>1. StoreNow /\ TypeStore BY IInvNow DEF IInv, TypeOK
<1>2. /\ \A q \in Target : orig'[q] = IF q = t THEN 0 ELSE orig[q]
      /\ UNCHANGED <<data, named, rowState>>
  BY <1>1 DEF Removed, TypeStore
<1>3. \A o \in Op : AllCleaned(named[o])' <=> AllCleaned(named[o]) BY <1>2 DEF AllCleaned
<1>4. \A o \in Op : data[o] # 0 => data[o] # orig[o[1]] BY <1>1 DEF StoreNow
<1>5. \A q \in Target : \A v : v \in Kept'[q] <=>
        IF q = t THEN v \in Kept[t] \ {orig[t]} ELSE v \in Kept[q]
  <2> SUFFICES ASSUME NEW q \in Target, NEW v
               PROVE  Holds(q, v)' <=> IF q = t THEN Holds(t, v) /\ v # orig[t]
                                                 ELSE Holds(q, v)
    BY KeptHolds, KeptHoldsPrime
  <2> QED BY <1>2, <1>3, <1>4 DEF Holds
<1>6. Kept' = [Kept EXCEPT ![t] = @ \ {orig[t]}] BY <1>5 DEF Kept
<1>7. orig[t] \in Kept[t] BY KeptHolds DEF Holds, Removed
<1> QED BY <1>6, <1>7 DEF Removed, Atomic!Remove

\* A commit gives up the bytes of its files in the step that marks all their rows.
LEMMA CommitIsDelete ==
  ASSUME AInv, Commit
  PROVE  Atomic!Delete \/ UNCHANGED Atomic!vars
<1> USE DEF AInv
<1>1. StoreNow /\ TypeStore /\ TypeDb /\ TypeServer BY IInvNow DEF IInv, TypeOK
<1>2. /\ rowState' = [r \in Row |-> IF r \in marks THEN "cleaned" ELSE rowState[r]]
      /\ UNCHANGED <<use, orig, data, named, written, lost>>
  BY DEF Commit, store
<1>3. /\ AllLive(marks) /\ \A r \in marks : Live(TargetOf[r]) \subseteq marks
      /\ \A r \in marks : ~Protected(TargetOf[r])
  BY DEF Commit, WholeOK, IInv, ChosenOK
<1>4. \A o \in Op : named[o] \in SUBSET Row /\ \A r \in named[o] : TargetOf[r] = o[1]
  <2>1. Now \in OnDisk /\ Now.named = named BY DEF OnDisk, Now
  <2> QED BY <1>1, <2>1 DEF NamedOK, TypeStore
<1>5. \A o \in Op : AllCleaned(named[o]) => AllCleaned(named[o])'
  BY <1>2, <1>4 DEF AllCleaned
<1>6. \A t \in Target : \A v : Holds(t, v)' => Holds(t, v) BY <1>2, <1>5 DEF Holds
<1> DEFINE T == {TargetOf[r] : r \in marks}
<1>7. ASSUME NEW t \in Target, t \notin T, NEW v PROVE Holds(t, v) => Holds(t, v)'
  <2>1. \A o \in Op : o[1] = t /\ ~AllCleaned(named[o]) => ~AllCleaned(named[o])'
    BY <1>2, <1>4, <1>7 DEF AllCleaned
  <2> QED BY <1>2, <2>1 DEF Holds
<1>8. CASE marks = {}
  <2>1. rowState' = rowState BY <1>1, <1>2, <1>8 DEF TypeDb
  <2>2. Kept' = Kept BY <1>6, <1>7, <1>8, SameHolds
  <2> QED BY <1>2, <2>1, <2>2 DEF Atomic!vars
<1>9. CASE marks # {}
  <2>1. marks \in (SUBSET Row) \ {{}} /\ T \subseteq Target
    BY <1>1, <1>9, ConstantsAssumption DEF TypeServer
  <2>2. \A t \in T : Atomic!Live(t) \subseteq marks BY <1>3 DEF Atomic!Live, Live
  <2>3. \A r \in marks : rowState[r] = "live" /\ use[r] # "protected"
    BY <1>3, <2>1 DEF AllLive, Protected, Live
  <2> DEFINE newer == [t \in T |-> Kept'[t]]
  <2>4. \A t \in Target : Kept'[t] \subseteq 1..MaxVersion
    <3>1. \A t \in Target : orig[t] \in Version BY <1>1 DEF TypeStore
    <3>2. \A o \in Op : data[o] \in Version BY <1>1 DEF TypeStore
    <3>3. \A t \in Target : \A v : Holds(t, v) => v \in Version \ {0}
      BY <3>1, <3>2 DEF Holds
    <3> QED BY <1>6, <3>3, KeptHoldsPrime, ConstantsAssumption DEF Version
  <2>5. newer \in [T -> SUBSET (1..MaxVersion)] BY <2>1, <2>4
  <2>6. \A t \in T : newer[t] \subseteq Kept[t] BY <1>6, <2>1, KeptHolds, KeptHoldsPrime
  <2>7. \A t \in Target : t \notin T => Kept'[t] = Kept[t]
    BY <1>6, <1>7, KeptHolds, KeptHoldsPrime
  <2>8. Kept' = [t \in Target |-> IF t \in T THEN newer[t] ELSE Kept[t]]
    <3>1. Kept' = [t \in Target |-> Kept'[t]] BY DEF Kept
    <3> HIDE DEF T
    <3> QED BY <2>7, <3>1
  <2> HIDE DEF newer
  <2>9. Atomic!Delete
    BY <1>2, <2>1, <2>2, <2>3, <2>5, <2>6, <2>8 DEF Atomic!Delete
  <2> QED BY <2>9
<1> QED BY <1>8, <1>9

LEMMA RefinesInit == Init => Atomic!Init
<1> SUFFICES ASSUME Init PROVE Atomic!Init OBVIOUS
<1> USE DEF Init
<1>1. written = orig /\ orig \in [Target -> {0, 1}] OBVIOUS
<1>2. \A o \in Op : data[o] = 0 OBVIOUS
<1>3. \A t \in Target : \A v : v \in Kept[t] <=> v # 0 /\ v = orig[t]
  BY <1>2, KeptHolds DEF Holds
<1>4. \A t \in Target : Kept[t] = IF written[t] = 0 THEN {} ELSE {1}
  <2> SUFFICES ASSUME NEW t \in Target
               PROVE  Kept[t] = IF written[t] = 0 THEN {} ELSE {1}
    OBVIOUS
  <2>1. orig[t] = 0 => Kept[t] = {} BY <1>3
  <2>2. orig[t] = 1 => Kept[t] = {1} BY <1>3
  <2>3. orig[t] \in {0, 1} BY <1>1
  <2> QED BY <1>1, <2>1, <2>2, <2>3
<1>5. Kept = [t \in Target |-> IF written[t] = 0 THEN {} ELSE {1}] BY <1>4 DEF Kept
<1> QED BY <1>1, <1>5 DEF Atomic!Init, Use

LEMMA RefinesNext == AInv /\ [Next]_vars => [Atomic!Next]_(Atomic!vars)
<1> SUFFICES ASSUME AInv, [Next]_vars PROVE Atomic!Next \/ UNCHANGED Atomic!vars
  OBVIOUS
<1>1. CASE Commit BY <1>1, CommitIsDelete DEF Atomic!Next
<1>2. CASE PowerLoss
  BY <1>2, KeptSurvives DEF PowerLoss, Next, db, history, Atomic!vars
<1>3. CASE \E t \in Target : Written(t) \/ Removed(t)
  BY <1>3, WriteIsWrite, RemoveIsRemove DEF Atomic!Next
<1>4. CASE UNCHANGED vars
  BY <1>4 DEF vars, db, store, history, Kept, AllCleaned, Atomic!vars
<1>5. CASE /\ Next /\ ~Commit /\ ~PowerLoss
           /\ \A t \in Target : ~Written(t) /\ ~Removed(t)
  <2>1. Kept' = Kept BY <1>5, KeptStays DEF AInv
  <2>2. CASE \E w \in Writer, t \in Target : RecordImage(w, t)
    <3>1. PICK r \in Canonical :
            /\ rowState[r] \in {"live", "unborn"}
            /\ rowState' = [rowState EXCEPT ![r] = "live"]
            /\ use' = [use EXCEPT ![r] = "protected"]
      BY <2>2 DEF RecordImage
    <3>2. UNCHANGED <<written, lost>> BY <2>2 DEF RecordImage, Elsewhere
    <3>3. Atomic!Record(r) BY <2>1, <3>1, <3>2 DEF Atomic!Record
    <3> QED BY <3>3, ConstantsAssumption DEF Atomic!Next
  <2>3. CASE \E r \in Row : ChangeUse(r)
    <3>1. PICK r \in Row : ChangeUse(r) BY <2>3
    <3>2. Atomic!ChangeUse(r)
      BY <2>1, <3>1 DEF ChangeUse, Elsewhere, Use, Atomic!ChangeUse
    <3> QED BY <3>2 DEF Atomic!Next
  <2>4. CASE HandEdit \/ \E w \in Writer, t \in Target : Download(w, t)
    BY <1>5, <2>1, <2>4, AtThePath DEF AInv, db, Atomic!vars
  <2>5. CASE /\ ~HandEdit /\ ~\E r \in Row : ChangeUse(r)
             /\ ~\E w \in Writer, t \in Target : Download(w, t) \/ RecordImage(w, t)
    <3>1. UNCHANGED <<rowState, use, written, lost>>
      BY <1>5, <2>5
         DEF Next, Cleanup, TakeStoreLock, SkipCleanup, LockSnapshot, PickJournal,
         RefuseJournal, PickUndo, Purge, Restore, LeaveJournal, RecoveryFails, Inventory,
         OpenTarget, TargetMissing, TargetFails, PublishJournal, MoveTarget, NotMoved,
         StageDurably, ReturnChanged, StagingRaises, MarkCleaned, SendCommit,
         CommitReturns, CommitRaises, PickPurge, Finish, Server, AbortTransaction, Kill,
         Environment, StartRun, TakeSharedLock, ReleaseShared, FinishRun, KillWriter,
         Elsewhere, db, history
    <3> QED BY <2>1, <3>1 DEF Atomic!vars
  <2> QED BY <2>2, <2>3, <2>4, <2>5
<1> QED BY <1>1, <1>2, <1>3, <1>4, <1>5

\* The protocol with its quarantine, its recovery and its crashes implements the deletion
\* in one step: for any numbers of rows, files, writers, deaths and failures, the bytes of
\* a file are given up exactly when a transaction commits all its live rows as cleaned.
THEOREM CleanupIsAtomic == Spec => ImplementsAtomicCleanup
<1> QED
  BY AInvInit, AInvNext, RefinesInit, RefinesNext, PTL
     DEF Spec, ImplementsAtomicCleanup, Atomic!Spec
=============================================================================
