---------------------- MODULE TelemetryDeliveryProofs ----------------------
(***************************************************************************)
(* For any number of dates, starts and attempts: one operation per date,   *)
(* a bounded start-up, its own worker's workspace locked, and a ledger     *)
(* that implements DailyAttempt.  A worker between its claim and its       *)
(* record owns the row of its date, which says "started" and lets nobody   *)
(* else in; what a dead worker leaves behind is a claim nobody owns.       *)
(* The synchronization a worker delivers follows.                          *)
(***************************************************************************)
EXTENDS TelemetryDelivery, TelemetrySync, FiniteSetTheorems, SequenceTheorems, TLAPS

-----------------------------------------------------------------------------
(* The inductive invariant.                                                *)

\* A worker that has claimed the row of its date and not yet closed it.
Owner(s) == /\ work[s].trigger = "daily"
            /\ work[s].pc \in {"collect", "open", "lock", "deliver", "record"}

WorkerOK(s) ==
  /\ work[s].pc \in {"claim", "record"} => work[s].trigger = "daily"
  /\ work[s].pc \in {"claim", "collect", "open", "lock", "deliver", "record"}
       => work[s].date \in Dates
  /\ Owner(s) => /\ rows[work[s].date] = "started"
                 /\ work[s].pc # "record" => work[s].date \notin delivered
                 /\ work[s].pc = "record" /\ work[s].out = "ok" => work[s].date \in delivered

OwnersApart ==
  \A s, t \in Slots : s # t /\ Owner(s) /\ Owner(t) => work[s].date # work[t].date

\* What was sent is what the receiver has, and was claimed.
LedgerOK ==
  \A d \in Dates : /\ sends[d] = IF d \in delivered THEN 1 ELSE 0
                   /\ rows[d] = "none" => d \notin delivered

\* Start-up attempts are the failed ones and the worker under way.
StartupOK ==
  /\ startupRuns <= MaxTransient
  /\ startupPending => /\ failures < MaxTransient
                       /\ startupRuns <= failures + (IF work["child"].pc = "none" THEN 0 ELSE 1)
  /\ work["child"].pc # "none" => (work["child"].trigger = "startup" <=> startupPending)
  /\ lastDaily # NoDate => ~startupPending

\* No daemon, no worker of its own: a scavenger runs when the child has no workspace.
OffOK == pc = "off" => work["child"].pc = "none"

IInv ==
  /\ TypeOK
  /\ (\A s \in Slots : WorkerOK(s)) /\ OwnersApart /\ LedgerOK
  /\ StartupOK
  /\ WorkspacesKept /\ OffOK

-----------------------------------------------------------------------------
(* Claims.                                                                 *)

\* What the daemon and the world around it do to workers: start them, end them or let them
\* grow old.
Around == \/ StartDaemon \/ DaemonStep \/ Shutdown \/ Crash \/ RunByHand
          \/ Age("child") \/ NextDay

LEMMA AroundFrame ==
  ASSUME TypeOK, Around
  PROVE  /\ UNCHANGED <<rows, delivered, sends>>
         /\ \A s \in Slots : \/ work'[s].pc \in {"none", "exited", "settings"}
                             \/ /\ work'[s].pc = work[s].pc /\ work'[s].date = work[s].date
                                /\ work'[s].out = work[s].out
                                /\ work'[s].trigger = work[s].trigger
<1> USE DEF ledger, daemon, Slots, TypeOK
<1>1. CASE StartDaemon \/ NextDay BY <1>1 DEF StartDaemon, NextDay
<1>2. CASE Announce BY <1>2 DEF Announce, Gone, NoWork
<1>3. CASE Shutdown \/ Crash BY <1>3 DEF Shutdown, Crash, Gone, NoWork
<1>4. CASE FindOverdue \/ Poll \/ NothingDue \/ BackedOff \/ LaunchFails
  BY <1>4 DEF FindOverdue, Poll, NothingDue, BackedOff, LaunchFails
<1>5. CASE Terminate
  <2>1. CASE Alive("child")
    <3> DEFINE z == [NoWork EXCEPT !.pc = "exited", !.out = "deadline",
                                   !.trigger = work["child"].trigger]
    <3>1. z.pc = "exited" BY DEF NoWork
    <3>2. work' = [work EXCEPT !["child"] = z] BY <1>5, <2>1 DEF Terminate
    <3>3. UNCHANGED <<rows, delivered, sends>> BY <1>5, <2>1 DEF Terminate
    <3> HIDE DEF z
    <3> QED BY <3>1, <3>2, <3>3
  <2>2. CASE ~Alive("child") BY <1>5, <2>2 DEF Terminate, Alive
  <2> QED BY <2>1, <2>2
<1>6. CASE ReapChild BY <1>6 DEF ReapChild, Reap, NoWork
<1>7. CASE LaunchWorker BY <1>7 DEF LaunchWorker
<1>8. CASE RunByHand BY <1>8 DEF RunByHand
<1>9. CASE Age("child") BY <1>9 DEF Age
<1> QED BY <1>1, <1>2, <1>3, <1>4, <1>5, <1>6, <1>7, <1>8, <1>9 DEF Around, DaemonStep

ClaimsOK == (\A s \in Slots : WorkerOK(s)) /\ OwnersApart /\ LedgerOK

LEMMA ClaimsAround ==
  ASSUME TypeOK, ClaimsOK, Around
  PROVE  ClaimsOK'
<1>1. UNCHANGED <<rows, delivered, sends>> BY AroundFrame
<1>2. ASSUME NEW s \in Slots
      PROVE  WorkerOK(s)' /\ (Owner(s)' => Owner(s) /\ work'[s].date = work[s].date)
  <2>1. CASE work'[s].pc \in {"none", "exited", "settings"} BY <2>1 DEF WorkerOK, Owner
  <2>2. CASE /\ work'[s].pc = work[s].pc /\ work'[s].date = work[s].date
             /\ work'[s].out = work[s].out /\ work'[s].trigger = work[s].trigger
    BY <1>1, <2>2 DEF WorkerOK, Owner, ClaimsOK
  <2> QED BY <2>1, <2>2, AroundFrame
<1>3. OwnersApart' BY <1>2 DEF OwnersApart, ClaimsOK
<1>4. LedgerOK' BY <1>1 DEF LedgerOK, ClaimsOK
<1> QED BY <1>2, <1>3, <1>4 DEF ClaimsOK

\* What a worker's step leaves alone.
LEMMA WorkerFrame ==
  ASSUME TypeOK, NEW s \in Slots, WorkerStep(s)
  PROVE  /\ \A t \in Slots : t # s => work'[t] = work[t] /\ spool'[t] = spool[t]
         /\ UNCHANGED <<today, config, starts, daemon, startupRuns>>
         /\ Alive(s)
         /\ Kill(s) \/ UNCHANGED stale
BY DEF TypeOK, WorkerStep, Settings, Claim, ClaimFails, Collect, Open, Lock, Deliver, Record, Alarm,
       Kill, Abandon, Alive, Goto, Exit, Ended, env, daemon, spools

\* The steps of the ledger under the worker's date, as DailyAttempt has them.
Claims(d)    == rows[d] = "none" /\ rows' = [rows EXCEPT ![d] = "started"]
                /\ UNCHANGED <<delivered, sends>>
Delivers(d)  == rows[d] = "started" /\ d \notin delivered /\ delivered' = delivered \cup {d}
                /\ sends' = [sends EXCEPT ![d] = @ + 1] /\ UNCHANGED rows
Closes(d)    == /\ rows[d] = "started" /\ UNCHANGED <<delivered, sends>>
                /\ \E status \in {"sent", "failed"} :
                     /\ status = "sent" => d \in delivered
                     /\ rows' = [rows EXCEPT ![d] = status]
Rests        == UNCHANGED <<rows, delivered, sends>>
Moves(s)     == LET d == work[s].date IN
                \/ Rests
                \/ d \in Dates /\ Claims(d)
                \/ d \in Dates /\ Owner(s) /\ (Delivers(d) \/ Closes(d))
\* A worker owns what it owned before, or what it has just claimed.
Keeps(s)     == Owner(s)' => /\ work'[s].date = work[s].date
                             /\ Owner(s) \/ rows[work[s].date] = "none"

LEMMA WorkerMoves ==
  ASSUME TypeOK, LedgerOK, NEW s \in Slots, WorkerOK(s), WorkerStep(s)
  PROVE  WorkerOK(s)' /\ Keeps(s) /\ Moves(s)
<1> USE DEF TypeOK, WorkerOK, Owner, Keeps, Moves, Rests, ledger
<1> DEFINE d == work[s].date
<1>0. NoWork.pc = "none" /\ \A c : Exited(s, c).pc \in {"none", "exited"}
  BY DEF NoWork, Exited
<1>1. ASSUME work'[s].pc \in {"none", "exited"} PROVE WorkerOK(s)' /\ Keeps(s) BY <1>1
<1>2. CASE Settings(s)
  <2>1. CASE config # "valid" BY <1>2, <1>0, <2>1 DEF Settings, Exit
  <2>2. CASE config = "valid" BY <1>2, <2>2 DEF Settings
  <2> QED BY <2>1, <2>2
<1>3. CASE Claim(s)
  <2>1. CASE rows[d] = "none"
    <3>1. d \in Dates /\ work[s].trigger = "daily" BY <1>3 DEF Claim
    <3>2. Claims(d) BY <1>3, <2>1 DEF Claim, Claims
    <3>3. work'[s].pc = "collect" /\ work'[s].date = d /\ work'[s].trigger = work[s].trigger
      BY <1>3, <2>1 DEF Claim, Goto
    <3>4. rows'[d] = "started" BY <3>1, <3>2 DEF Claims
    <3>5. delivered' = delivered BY <3>2 DEF Claims
    <3>6. d \notin delivered BY <2>1, <3>1 DEF LedgerOK
    <3>7. WorkerOK(s)' BY <3>1, <3>3, <3>4, <3>5, <3>6
    <3>8. Keeps(s) BY <2>1, <3>3
    <3>9. Moves(s) BY <3>1, <3>2
    <3> QED BY <3>7, <3>8, <3>9
  <2>2. CASE rows[d] # "none" BY <1>3, <1>0, <2>2 DEF Claim, Exit
  <2> QED BY <2>1, <2>2
<1>4. CASE ClaimFails(s) BY <1>0, <1>4 DEF ClaimFails, Exit, Claims
\* an operation that ends without a success goes to the record, or out
<1>5. ASSUME NEW code \in {"transient", "terminal"}, Ended(s, code), Rests,
             work[s].pc \in {"collect", "open", "lock", "deliver"}
      PROVE  WorkerOK(s)' /\ Keeps(s) /\ Moves(s)
  <2>1. CASE work[s].trigger = "daily"
    <3>1. /\ work'[s].pc = "record" /\ work'[s].out = code /\ work'[s].date = d
          /\ work'[s].trigger = "daily"
      BY <1>5, <2>1 DEF Ended
    <3> QED BY <1>5, <2>1, <3>1
  <2>2. CASE work[s].trigger # "daily" BY <1>0, <1>5, <2>2 DEF Ended, Exit
  <2> QED BY <2>1, <2>2
<1>6. CASE Collect(s)
  <2>1. CASE Goto(s, "open") /\ Rests BY <1>6, <2>1 DEF Collect, Goto
  <2> QED BY <1>5, <1>6, <2>1 DEF Collect
<1>7. CASE Open(s)
  <2>1. CASE Goto(s, "lock") /\ Rests BY <1>7, <2>1 DEF Open, Goto
  <2> QED BY <1>5, <1>7, <2>1 DEF Open
<1>13. CASE Lock(s) BY <1>13 DEF Lock, Goto
<1>14. CASE Kill(s) BY <1>0, <1>1, <1>14 DEF Kill, Exit
\* the receiver has the operation of a worker that goes to its record
<1>8. ASSUME Received(s), work[s].trigger = "daily", work[s].pc = "deliver", rows' = rows,
             work'[s].pc = "record", work'[s].date = d, work'[s].trigger = "daily"
      PROVE  WorkerOK(s)' /\ Keeps(s) /\ Moves(s)
  <2>1. Owner(s) /\ d \in Dates BY <1>8
  <2>2. Delivers(d) BY <1>8, <2>1 DEF Received, Delivers
  <2>3. d \in delivered' /\ rows'[d] = "started" BY <1>8, <2>1, <2>2 DEF Delivers
  <2>4. WorkerOK(s)' BY <1>8, <2>1, <2>3
  <2> QED BY <1>8, <2>1, <2>2, <2>4
<1>9. CASE Deliver(s)
  <2>1. CASE Received(s) /\ \E code \in {"ok", "transient", "terminal"} : Ended(s, code)
    <3>1. CASE work[s].trigger = "daily"
      <4>1. work'[s].pc = "record" /\ work'[s].date = d /\ work'[s].trigger = "daily"
        BY <2>1, <3>1 DEF Ended
      <4> QED BY <1>8, <1>9, <2>1, <3>1, <4>1 DEF Deliver
    <3>2. CASE work[s].trigger # "daily"
      <4>1. Rests BY <1>9, <2>1, <3>2 DEF Deliver, Received
      <4>2. work'[s].pc \in {"none", "exited"} BY <1>0, <2>1, <3>2 DEF Ended, Exit
      <4> QED BY <1>1, <4>1, <4>2
    <3> QED BY <3>1, <3>2
  <2> QED BY <1>5, <1>9, <2>1 DEF Deliver
\* a worker writes the answer to its claim
<1>10. ASSUME work[s].pc = "record", UNCHANGED <<delivered, sends>>,
              rows' = [rows EXCEPT ![d] = Answer(work[s].out)]
       PROVE  Moves(s)
  <2>1. Owner(s) /\ d \in Dates /\ rows[d] = "started" BY <1>10
  <2>2. Answer(work[s].out) \in {"sent", "failed"} BY DEF Answer
  <2>3. Answer(work[s].out) = "sent" => d \in delivered BY <1>10, <2>1 DEF Answer
  <2>4. Closes(d) BY <1>10, <2>1, <2>2, <2>3 DEF Closes
  <2> QED BY <2>1, <2>4
<1>11. CASE Record(s)
  <2>1. work'[s].pc \in {"none", "exited"} BY <1>0, <1>11 DEF Record, Exit
  <2>2. Moves(s) BY <1>10, <1>11 DEF Record
  <2> QED BY <1>1, <2>1, <2>2
<1>12. CASE Alarm(s)
  <2> DEFINE w == [work[s] EXCEPT !.rung = TRUE, !.out = "deadline"]
  <2>0. /\ w.pc = work[s].pc /\ w.date = d /\ w.trigger = work[s].trigger
        /\ [w EXCEPT !.pc = "record"].pc = "record" /\ [w EXCEPT !.pc = "record"].date = d
        /\ [w EXCEPT !.pc = "record"].trigger = work[s].trigger
        /\ [w EXCEPT !.pc = "record"].out = "deadline"
    OBVIOUS
  <2>1. CASE /\ w.pc \in {"collect", "open", "lock", "deliver"} /\ w.trigger = "daily"
             /\ work' = [work EXCEPT ![s] = [w EXCEPT !.pc = "record"]]
             /\ UNCHANGED rows
             /\ \/ w.pc = "deliver" /\ Received(s)
                \/ UNCHANGED <<delivered, sends>>
    <3>1. /\ work'[s].pc = "record" /\ work'[s].date = d /\ work'[s].trigger = "daily"
          /\ work'[s].out = "deadline"
      BY <2>0, <2>1
    <3>2. work[s].trigger = "daily" /\ work[s].pc \in {"collect", "open", "lock", "deliver"}
      BY <2>0, <2>1
    <3>3. CASE work[s].pc = "deliver" /\ Received(s) BY <1>8, <2>1, <3>1, <3>2, <3>3
    <3>4. CASE UNCHANGED <<delivered, sends>> BY <2>1, <3>1, <3>2, <3>4
    <3> QED BY <2>0, <2>1, <3>3, <3>4
  <2>2. CASE /\ Exit(s, "deadline")
             /\ \/ UNCHANGED rows
                \/ w.pc = "claim" /\ rows[d] = "none" /\ rows' = [rows EXCEPT ![d] = "started"]
                \/ w.pc = "record" /\ rows' = [rows EXCEPT ![d] = Answer(work[s].out)]
             /\ UNCHANGED <<delivered, sends>>
    <3>1. work'[s].pc \in {"none", "exited"} BY <1>0, <2>2 DEF Exit
    <3>2. Moves(s)
      <4>1. CASE UNCHANGED rows BY <2>2, <4>1
      <4>2. CASE w.pc = "claim" /\ rows[d] = "none" /\ rows' = [rows EXCEPT ![d] = "started"]
        <5>1. d \in Dates BY <2>0, <4>2
        <5> QED BY <2>2, <4>2, <5>1 DEF Claims
      <4>3. CASE w.pc = "record" /\ rows' = [rows EXCEPT ![d] = Answer(work[s].out)]
        BY <1>10, <2>0, <2>2, <4>3
      <4> QED BY <2>2, <4>1, <4>2, <4>3
    <3> QED BY <1>1, <3>1, <3>2
  <2>3. w.date = d BY <2>0
  <2> HIDE DEF w
  <2> QED BY <1>12, <2>1, <2>2 DEF Alarm, w
<1> QED BY <1>2, <1>3, <1>4, <1>6, <1>7, <1>9, <1>11, <1>12, <1>13, <1>14 DEF WorkerStep

LEMMA ClaimsWorker ==
  ASSUME TypeOK, ClaimsOK, NEW s \in Slots, WorkerStep(s), TypeOK'
  PROVE  ClaimsOK'
<1> DEFINE d == work[s].date
<1>1. WorkerOK(s)' /\ Keeps(s) /\ Moves(s) BY WorkerMoves DEF ClaimsOK
<1>2. \A t \in Slots : t # s => work'[t] = work[t] BY WorkerFrame
\* the row of another owner is another one, or was claimed already
<1>3. ASSUME NEW t \in Slots, t # s, Owner(t)
      PROVE  /\ rows'[work[t].date] = rows[work[t].date]
             /\ work[t].date \in delivered' <=> work[t].date \in delivered
  <2>1. work[t].date \in Dates /\ rows[work[t].date] = "started"
    BY <1>3 DEF ClaimsOK, WorkerOK, Owner
  <2>2. CASE Rests BY <2>2 DEF Rests
  <2>3. CASE d \in Dates /\ Claims(d) BY <2>1, <2>3 DEF Claims, TypeOK
  <2>4. CASE d \in Dates /\ Owner(s) /\ (Delivers(d) \/ Closes(d))
    <3>1. work[t].date # d BY <1>3, <2>4 DEF ClaimsOK, OwnersApart
    <3> QED BY <2>1, <2>4, <3>1 DEF Delivers, Closes, TypeOK
  <2> QED BY <1>1, <2>2, <2>3, <2>4 DEF Moves
<1>4. ASSUME NEW t \in Slots, t # s PROVE WorkerOK(t)'
  BY <1>2, <1>3, <1>4 DEF WorkerOK, Owner, ClaimsOK
<1>5. OwnersApart'
  <2>1. ASSUME NEW t \in Slots, t # s, Owner(s)', Owner(t)' PROVE work'[s].date # work'[t].date
    <3>1. Owner(t) /\ work'[t] = work[t] BY <1>2, <2>1 DEF Owner
    <3>2. work'[s].date = d /\ (Owner(s) \/ rows[d] = "none") BY <1>1, <2>1 DEF Keeps
    <3>3. rows[work[t].date] = "started" BY <3>1 DEF ClaimsOK, WorkerOK, Owner
    <3>4. Owner(s) => d # work[t].date BY <2>1, <3>1 DEF ClaimsOK, OwnersApart
    <3> QED BY <3>1, <3>2, <3>3, <3>4
  <2>2. ASSUME NEW q \in Slots, NEW t \in Slots, q # t, q # s, t # s, Owner(q)', Owner(t)'
        PROVE  work'[q].date # work'[t].date
    <3>1. work'[q] = work[q] /\ work'[t] = work[t] BY <1>2, <2>2
    <3> QED BY <2>2, <3>1 DEF ClaimsOK, OwnersApart, Owner
  <2> QED BY <2>1, <2>2 DEF OwnersApart
<1>6. LedgerOK'
  <2> SUFFICES ASSUME NEW e \in Dates
               PROVE  /\ sends'[e] = IF e \in delivered' THEN 1 ELSE 0
                      /\ rows'[e] = "none" => e \notin delivered'
    BY DEF LedgerOK
  <2>0. /\ sends[e] = IF e \in delivered THEN 1 ELSE 0
        /\ rows[e] = "none" => e \notin delivered
    BY DEF ClaimsOK, LedgerOK
  <2>1. CASE Rests BY <2>0, <2>1 DEF Rests
  <2>2. CASE d \in Dates /\ Claims(d) BY <2>0, <2>2 DEF Claims, TypeOK
  <2>3. CASE d \in Dates /\ Delivers(d) BY <2>0, <2>3 DEF Delivers, TypeOK
  <2>4. CASE d \in Dates /\ Closes(d) BY <2>0, <2>4 DEF Closes, TypeOK
  <2> QED BY <1>1, <2>1, <2>2, <2>3, <2>4 DEF Moves
<1> QED BY <1>1, <1>4, <1>5, <1>6 DEF ClaimsOK

-----------------------------------------------------------------------------
(* Start-up attempts.                                                      *)

\* Seen from the daemon, a worker's step keeps its child and what it was started for.
SameChild ==
  /\ work'["child"].pc = "none" <=> work["child"].pc = "none"
  /\ work["child"].pc # "none" => work'["child"].trigger = work["child"].trigger

LEMMA ChildStep ==
  ASSUME TypeOK, NEW s \in Slots, WorkerStep(s)
  PROVE  SameChild
<1>1. CASE s # "child"
  <2>1. work'["child"] = work["child"] BY <1>1, WorkerFrame DEF Slots
  <2> QED BY <2>1 DEF SameChild
<1>2. CASE s = "child"
  <2> USE <1>2 DEF TypeOK, SameChild, Slots
  <2>1. work["child"].pc \notin {"none", "exited"}
    BY WorkerFrame DEF Alive
  <2>2. ASSUME NEW code, Exit("child", code) PROVE SameChild
    <3>1. /\ Exited("child", code).pc = "exited"
          /\ Exited("child", code).trigger = work["child"].trigger
      BY DEF Exited, NoWork
    <3>2. work' = [work EXCEPT !["child"] = Exited("child", code)] BY <2>2 DEF Exit
    <3> QED BY <2>1, <3>1, <3>2
  <2>3. ASSUME NEW l, l # "none", Goto("child", l) PROVE SameChild BY <2>1, <2>3 DEF Goto
  <2>4. ASSUME NEW code, Ended("child", code) PROVE SameChild
    <3>1. CASE work["child"].trigger = "daily" BY <2>1, <2>4, <3>1 DEF Ended
    <3>2. CASE work["child"].trigger # "daily" BY <2>2, <2>4, <3>2 DEF Ended
    <3> QED BY <3>1, <3>2
  <2>5. CASE Settings("child")
    <3>1. CASE config # "valid" BY <2>2, <2>5, <3>1 DEF Settings
    <3>2. CASE config = "valid" BY <2>1, <2>5, <3>2 DEF Settings
    <3> QED BY <3>1, <3>2
  <2>6. CASE Claim("child") \/ ClaimFails("child")
    BY <2>2, <2>3, <2>6 DEF Claim, ClaimFails
  <2>7. CASE Collect("child") \/ Open("child") \/ Lock("child")
    BY <2>3, <2>4, <2>7 DEF Collect, Open, Lock
  <2>8. CASE Deliver("child") BY <2>4, <2>8 DEF Deliver
  <2>9. CASE Record("child") BY <2>2, <2>9 DEF Record
  <2>10. CASE Alarm("child")
    <3> DEFINE w == [work["child"] EXCEPT !.rung = TRUE, !.out = "deadline"]
    <3>1. CASE work' = [work EXCEPT !["child"] = [w EXCEPT !.pc = "record"]]
      <4>1. [w EXCEPT !.pc = "record"].pc = "record"
            /\ [w EXCEPT !.pc = "record"].trigger = work["child"].trigger
        OBVIOUS
      <4> HIDE DEF w
      <4> QED BY <2>1, <3>1, <4>1
    <3>2. CASE Exit("child", "deadline") BY <2>2, <3>2
    <3> HIDE DEF w
    <3> QED BY <2>10, <3>1, <3>2 DEF Alarm, w
  <2>11. CASE Kill("child") BY <2>2, <2>11 DEF Kill
  <2> QED BY <2>5, <2>6, <2>7, <2>8, <2>9, <2>10, <2>11 DEF WorkerStep
<1> QED BY <1>1, <1>2

LEMMA StartupAroundSame ==
  ASSUME TypeOK, StartupOK, SameChild,
         UNCHANGED <<startupRuns, startupPending, failures, lastDaily>>
  PROVE  StartupOK'
BY DEF StartupOK, SameChild

LEMMA StartupStep ==
  ASSUME TypeOK, StartupOK, Next
  PROVE  StartupOK'
<1> USE DeliveryAssumption DEF TypeOK, Slots
<1>0. NoWork.pc = "none" /\ NoDate \notin Dates BY DEF NoWork, NoDate, Dates
<1>1. CASE \E s \in Slots : WorkerStep(s)
  <2>1. SameChild BY <1>1, ChildStep
  <2>2. UNCHANGED <<startupRuns, startupPending, failures, lastDaily>>
    BY <1>1, WorkerFrame DEF daemon
  <2> QED BY <2>1, <2>2, StartupAroundSame
<1>2. CASE Gone /\ work' = [s \in Slots |-> NoWork] BY <1>0, <1>2 DEF Gone, StartupOK
<1>3. CASE StartDaemon \/ NextDay \/ RunByHand \/ FindOverdue \/ Poll
           \/ NothingDue \/ BackedOff
  <2>1. work'["child"] = work["child"]
        /\ UNCHANGED <<startupRuns, startupPending, failures, lastDaily>>
    BY <1>3 DEF StartDaemon, NextDay, RunByHand, FindOverdue, Poll, NothingDue,
                BackedOff, daemon
  <2> QED BY <2>1, StartupAroundSame DEF SameChild
<1>4. CASE Announce
  <2>1. CASE Gone BY <1>2, <2>1 DEF Gone
  <2>2. CASE ~Gone
    <3>1. UNCHANGED <<startupRuns, startupPending, failures, lastDaily, work>>
      BY <1>4, <2>2 DEF Announce
    <3> QED BY <3>1, StartupAroundSame DEF SameChild
  <2> QED BY <2>1, <2>2
<1>5. CASE Shutdown \/ Crash BY <1>2, <1>5 DEF Shutdown, Crash, Gone
<1>6. CASE Terminate \/ Age("child")
  <2>1. UNCHANGED <<startupRuns, startupPending, failures, lastDaily>>
    BY <1>6 DEF Terminate, Age, daemon
  <2>2. SameChild
    <3>1. CASE Terminate /\ Alive("child")
      <4> DEFINE w == [NoWork EXCEPT !.pc = "exited", !.out = "deadline",
                                     !.trigger = work["child"].trigger]
      <4>1. w.pc = "exited" /\ w.trigger = work["child"].trigger BY DEF NoWork
      <4>2. work' = [work EXCEPT !["child"] = w] BY <3>1 DEF Terminate
      <4> HIDE DEF w
      <4> QED BY <3>1, <4>1, <4>2 DEF SameChild, Alive
    <3>2. CASE Terminate /\ ~Alive("child") BY <3>2 DEF Terminate, SameChild
    <3>3. CASE Age("child") BY <3>3 DEF Age, SameChild
    <3> QED BY <1>6, <3>1, <3>2, <3>3
  <2> QED BY <2>1, <2>2, StartupAroundSame
<1>7. CASE ReapChild
  <2>1. work'["child"].pc = "none" BY <1>0, <1>7 DEF ReapChild, Reap
  <2>2. lastDaily' = lastDaily /\ startupRuns' = startupRuns BY <1>7 DEF ReapChild, Reap
  <2>3. work["child"].pc = "exited" BY <1>7 DEF ReapChild
  <2>4. CASE work["child"].trigger = "startup"
    <3>1. startupPending /\ failures < MaxTransient /\ startupRuns <= failures + 1
      BY <2>3, <2>4 DEF StartupOK
    <3>2. lastDaily = NoDate BY <3>1 DEF StartupOK
    <3>3. startupPending' = FALSE
          \/ (failures + 1 < MaxTransient /\ failures' = failures + 1)
      BY <1>7, <2>4 DEF ReapChild, Reap, StartupFailed
    <3> QED BY <2>1, <2>2, <3>1, <3>2, <3>3 DEF StartupOK
  <2>5. CASE work["child"].trigger # "startup"
    <3>1. ~startupPending BY <2>3, <2>5 DEF StartupOK
    <3>2. startupPending' = startupPending BY <1>7, <2>5 DEF ReapChild, Reap
    <3> QED BY <2>1, <2>2, <3>1, <3>2 DEF StartupOK
  <2> QED BY <2>4, <2>5
<1>8. CASE LaunchWorker
  <2>1. /\ work["child"].pc = "none"
        /\ work'["child"].pc = "settings" /\ work'["child"].trigger = Trigger
        /\ UNCHANGED <<startupPending, failures>>
        /\ lastDaily' = IF Trigger = "daily" THEN today ELSE lastDaily
        /\ startupRuns' = startupRuns + (IF Trigger = "startup" THEN 1 ELSE 0)
    BY <1>8 DEF LaunchWorker, Due, NoWork
  <2>2. CASE startupPending BY <2>1, <2>2 DEF StartupOK, Trigger
  <2>3. CASE ~startupPending BY <2>1, <2>3 DEF StartupOK, Trigger
  <2> QED BY <2>2, <2>3
<1>9. CASE LaunchFails
  <2>1. work["child"].pc = "none" /\ work' = work /\ startupRuns' = startupRuns
    BY <1>9 DEF LaunchFails, Due
  <2>2. CASE startupPending
    <3>1. lastDaily' = lastDaily /\ StartupFailed("poll") BY <1>9, <2>2 DEF LaunchFails
    <3>2. startupPending' = FALSE \/ (failures + 1 < MaxTransient /\ failures' = failures + 1)
      BY <3>1 DEF StartupFailed
    <3> QED BY <2>1, <2>2, <3>1, <3>2 DEF StartupOK
  <2>3. CASE ~startupPending
    <3>1. startupPending' = startupPending BY <1>9, <2>3 DEF LaunchFails
    <3> QED BY <2>1, <2>3, <3>1 DEF StartupOK
  <2> QED BY <2>2, <2>3
<1> QED BY <1>1, <1>3, <1>4, <1>5, <1>6, <1>7, <1>8, <1>9 DEF Next, DaemonStep

-----------------------------------------------------------------------------
(* Workspaces.                                                             *)

SpoolsOK == WorkspacesKept /\ OffOK

\* The workspace of the daemon's worker, by where the worker is.
ChildSpool(p) == CASE p = "open" -> "open" [] p = "lock" -> "opened"
                   [] p = "deliver" -> "locked" [] OTHER -> "none"

LEMMA KeptIs ==
  /\ WorkspacesKept <=> /\ spool["child"] = ChildSpool(work["child"].pc)
                        /\ Alive("child") => "child" \notin stale
  /\ WorkspacesKept' <=> /\ spool'["child"] = ChildSpool(work'["child"].pc)
                         /\ Alive("child")' => "child" \notin stale'
BY DEF WorkspacesKept, ChildSpool

LEMMA SpoolWorker ==
  ASSUME TypeOK, WorkspacesKept, WorkerStep("child")
  PROVE  spool'["child"] = ChildSpool(work'["child"].pc)
<1> USE DEF TypeOK, ChildSpool, spools, Slots
<1> DEFINE p == work["child"].pc
<1>0. NoWork.pc = "none" /\ \A c : Exited("child", c).pc = "exited" BY DEF NoWork, Exited
<1>k. spool["child"] = ChildSpool(p) BY KeptIs
<1>1. ASSUME NEW code, Exit("child", code) PROVE work'["child"].pc = "exited"
  BY <1>0, <1>1 DEF Exit
<1>2. ASSUME NEW code, Ended("child", code) PROVE work'["child"].pc \in {"exited", "record"}
  <2>1. CASE work["child"].trigger = "daily" BY <1>2, <2>1 DEF Ended
  <2>2. CASE work["child"].trigger # "daily" BY <1>1, <1>2, <2>2 DEF Ended
  <2> QED BY <2>1, <2>2
<1>3. CASE Settings("child")
  <2>1. CASE config # "valid" BY <1>k, <1>1, <1>3, <2>1 DEF Settings
  <2>2. CASE config = "valid" BY <1>k, <1>3, <2>2 DEF Settings
  <2> QED BY <2>1, <2>2
<1>4. CASE Claim("child") \/ ClaimFails("child")
  BY <1>k, <1>1, <1>4 DEF Claim, ClaimFails, Goto
<1>5. CASE Collect("child") BY <1>k, <1>2, <1>5 DEF Collect, Goto
<1>6. CASE Open("child") BY <1>k, <1>2, <1>6 DEF Open, Goto
<1>7. CASE Lock("child") BY <1>k, <1>7 DEF Lock, Goto
<1>8. CASE Deliver("child") BY <1>2, <1>8 DEF Deliver
<1>9. CASE Record("child") BY <1>k, <1>1, <1>9 DEF Record
<1>10. CASE Alarm("child")
  <2> DEFINE w == [work["child"] EXCEPT !.rung = TRUE, !.out = "deadline"]
  <2>1. spool'["child"] = "none" BY <1>10 DEF Alarm
  <2>2. CASE work' = [work EXCEPT !["child"] = [w EXCEPT !.pc = "record"]]
    <3>1. [w EXCEPT !.pc = "record"].pc = "record" OBVIOUS
    <3> HIDE DEF w
    <3> QED BY <2>1, <2>2, <3>1
  <2>3. CASE Exit("child", "deadline") BY <1>1, <2>1, <2>3
  <2> HIDE DEF w
  <2> QED BY <1>10, <2>2, <2>3 DEF Alarm, w
<1>11. CASE Kill("child") BY <1>1, <1>11 DEF Kill, Abandon
<1> QED BY <1>3, <1>4, <1>5, <1>6, <1>7, <1>8, <1>9, <1>10, <1>11 DEF WorkerStep

\* A scavenger does nothing to a worker that has no workspace.
LEMMA Scavenger ==
  ASSUME CleanSpools, spool["child"] = "none"
  PROVE  spool'["child"] = "none" /\ "child" \notin stale'
BY DEF CleanSpools, Scavenged, Unremoved, Slots

LEMMA SpoolStep ==
  ASSUME TypeOK, SpoolsOK, Next
  PROVE  SpoolsOK'
<1> USE DEF TypeOK, SpoolsOK, OffOK, Slots, spools, daemon
<1> DEFINE p == work["child"].pc
<1>0. NoWork.pc = "none" BY DEF NoWork
<1>k. /\ spool["child"] = ChildSpool(p) /\ Alive("child") => "child" \notin stale
      /\ \A q \in {"none", "settings", "exited"} : ChildSpool(q) = "none"
  BY KeptIs DEF ChildSpool
<1>1. ASSUME NEW s \in Slots, WorkerStep(s) PROVE SpoolsOK'
  <2>1. /\ \A t \in Slots : t # s => work'[t] = work[t] /\ spool'[t] = spool[t]
        /\ Alive(s) /\ (Kill(s) \/ UNCHANGED stale) /\ pc' = pc
    BY <1>1, WorkerFrame
  <2>2. CASE s = "child"
    <3>1. spool'["child"] = ChildSpool(work'["child"].pc) BY <1>1, <2>2, SpoolWorker
    <3>2. CASE UNCHANGED stale BY <1>k, <2>1, <2>2, <3>1, <3>2, KeptIs DEF Alive
    <3>3. CASE Kill(s)
      <4>1. work'["child"].pc = "exited" BY <2>2, <3>3 DEF Kill, Exit, Exited, NoWork
      <4> QED BY <2>1, <2>2, <3>1, <4>1, KeptIs DEF Alive
    <3> QED BY <2>1, <3>2, <3>3
  <2>3. CASE s # "child"
    <3>1. "child" \in stale' => "child" \in stale BY <2>1, <2>3 DEF Kill, Abandon
    <3> QED BY <1>k, <2>1, <2>3, <3>1, KeptIs DEF Alive
  <2> QED BY <2>2, <2>3
\* all workers end
<1>2. ASSUME spool'["child"] = "none", work'["child"].pc = "none" PROVE SpoolsOK'
  BY <1>k, <1>2, KeptIs DEF Alive
\* a scavenger runs when there is no child
<1>3. ASSUME CleanSpools, p \in {"none", "exited"}, work'["child"].pc \in {"none", "settings"},
             pc' # "off"
      PROVE  SpoolsOK'
  <2>0. spool["child"] = "none"
    <3>1. \A q \in {"none", "exited"} : ChildSpool(q) = "none" BY DEF ChildSpool
    <3>2. ChildSpool(work["child"].pc) = "none" BY <1>3, <3>1
    <3> QED BY <3>2, KeptIs
  <2>1. spool'["child"] = "none" /\ "child" \notin stale' BY <1>3, <2>0, Scavenger
  <2> QED BY <1>k, <1>3, <2>1, KeptIs
<1>4. ASSUME UNCHANGED spools, pc' = "off" => pc = "off", work'["child"].pc = p
      PROVE  SpoolsOK'
  BY <1>k, <1>4, KeptIs DEF Alive
<1>5. CASE StartDaemon BY <1>3, <1>5 DEF StartDaemon
<1>15. CASE LaunchFails
  <2>1. pc' \in {"poll", "backoff"} BY <1>15 DEF LaunchFails, StartupFailed
  <2> QED BY <1>3, <1>15, <2>1 DEF LaunchFails, Due
<1>6. CASE ReapChild
  <2>1. pc' \in {"launch", "backoff"} BY <1>6 DEF ReapChild, Reap, StartupFailed
  <2> QED BY <1>0, <1>3, <1>6, <2>1 DEF ReapChild, Reap
<1>7. CASE LaunchWorker BY <1>3, <1>7 DEF LaunchWorker, Due, NoWork
<1>8. CASE Announce
  <2>1. CASE Gone /\ Abandon(Slots) BY <1>0, <1>2, <2>1 DEF Gone, Abandon
  <2>2. CASE UNCHANGED <<work, spool, stale>> /\ pc' = "launch" BY <1>4, <1>8, <2>2 DEF Announce
  <2> QED BY <1>8, <2>1, <2>2 DEF Announce
<1>9. CASE Shutdown BY <1>0, <1>2, <1>9 DEF Shutdown, Gone
<1>10. CASE Crash BY <1>0, <1>2, <1>10 DEF Crash, Gone, Abandon
<1>11. CASE Terminate
  <2>1. CASE Alive("child")
    <3> DEFINE z == [NoWork EXCEPT !.pc = "exited", !.out = "deadline",
                                   !.trigger = work["child"].trigger]
    <3>1. z.pc = "exited" BY DEF NoWork
    <3>2. work' = [work EXCEPT !["child"] = z] BY <1>11, <2>1 DEF Terminate
    <3>3. spool'["child"] = "none" /\ pc' = "reap" BY <1>11, <2>1 DEF Terminate, Abandon
    <3> HIDE DEF z
    <3>4. work'["child"].pc = "exited" BY <3>1, <3>2
    <3> QED BY <1>k, <3>3, <3>4, KeptIs DEF Alive
  <2>2. CASE ~Alive("child")
    <3>1. UNCHANGED spools /\ pc' = "reap" /\ work'["child"].pc = p
      BY <1>11, <2>2 DEF Terminate
    <3> QED BY <1>4, <3>1
  <2> QED BY <2>1, <2>2
<1>12. CASE RunByHand BY <1>4, <1>12 DEF RunByHand
<1>13. CASE Age("child") BY <1>4, <1>13 DEF Age
<1>14. CASE FindOverdue \/ Poll \/ NothingDue \/ BackedOff \/ NextDay
  BY <1>4, <1>14 DEF FindOverdue, Poll, NothingDue, BackedOff, NextDay
<1> QED BY <1>1, <1>5, <1>6, <1>7, <1>8, <1>9, <1>10, <1>11, <1>12, <1>13, <1>14, <1>15
        DEF Next, DaemonStep

-----------------------------------------------------------------------------
(* Types.                                                                  *)

Worker == [pc : {"none", "settings", "claim", "collect", "open", "lock", "deliver", "record",
                 "exited"},
           trigger : {"startup", "daily"}, date : Dates \cup {NoDate},
           out : Codes, age : {"young", "alarm", "overdue"}, rung : BOOLEAN]

LEMMA NoWorkType == NoWork \in Worker BY DEF NoWork, Worker, Codes

LEMMA ExitedType ==
  ASSUME TypeOK, NEW s \in Slots, NEW code \in Codes
  PROVE  Exited(s, code) \in Worker
BY NoWorkType DEF Exited, TypeOK, Worker, NoWork

LEMMA WorkType ==
  ASSUME TypeOK, NEW s \in Slots, WorkerStep(s)
  PROVE  work' \in [Slots -> Worker]
<1> DEFINE w == work[s]
<1>1. w \in Worker /\ work \in [Slots -> Worker] BY DEF TypeOK, Worker
<1>2. {"ok", "terminal", "noop", "transient", "deadline"} = Codes BY DEF Codes
<1>3. ASSUME NEW code \in Codes, Exit(s, code) PROVE work' \in [Slots -> Worker]
  BY <1>1, <1>3, ExitedType DEF Exit
<1>4. ASSUME NEW v \in Worker, work' = [work EXCEPT ![s] = v] PROVE work' \in [Slots -> Worker]
  BY <1>1, <1>4
<1>5. ASSUME NEW l \in {"collect", "open", "lock", "deliver"}, Goto(s, l)
      PROVE  work' \in [Slots -> Worker]
  <2>1. [w EXCEPT !.pc = l] \in Worker BY <1>1 DEF Worker
  <2> QED BY <1>4, <1>5, <2>1 DEF Goto
<1>6. ASSUME NEW code \in Codes, Ended(s, code) PROVE work' \in [Slots -> Worker]
  <2>1. CASE w.trigger = "daily"
    <3>1. [w EXCEPT !.pc = "record", !.out = code] \in Worker BY <1>1 DEF Worker
    <3>2. work' = [work EXCEPT ![s] = [w EXCEPT !.pc = "record", !.out = code]]
      BY <1>1, <1>6, <2>1 DEF Ended
    <3> QED BY <1>4, <3>1, <3>2
  <2>2. CASE w.trigger # "daily" BY <1>3, <1>6, <2>2 DEF Ended
  <2> QED BY <2>1, <2>2
<1>7. CASE Settings(s)
  <2>1. CASE config # "valid" BY <1>2, <1>3, <1>7, <2>1 DEF Settings
  <2>2. CASE config = "valid"
    <3> DEFINE l == IF w.trigger = "daily" THEN "claim" ELSE "collect"
    <3>1. [w EXCEPT !.date = today, !.pc = l] \in Worker BY <1>1 DEF Worker, TypeOK
    <3>2. work' = [work EXCEPT ![s] = [w EXCEPT !.date = today, !.pc = l]]
      BY <1>1, <1>7, <2>2 DEF Settings
    <3> QED BY <1>4, <3>1, <3>2
  <2> QED BY <2>1, <2>2
<1>8. CASE Claim(s) \/ ClaimFails(s) BY <1>2, <1>3, <1>5, <1>8 DEF Claim, ClaimFails
<1>9. CASE Collect(s) BY <1>2, <1>5, <1>6, <1>9 DEF Collect
<1>10. CASE Open(s) \/ Lock(s) BY <1>2, <1>5, <1>6, <1>10 DEF Open, Lock
<1>11. CASE Deliver(s) BY <1>2, <1>6, <1>11 DEF Deliver
<1>12. CASE Record(s)
  <2>1. w.out \in Codes BY <1>1 DEF Worker
  <2> QED BY <1>2, <1>3, <1>12, <2>1 DEF Record
<1>13. CASE Alarm(s)
  <2> DEFINE v == [w EXCEPT !.rung = TRUE, !.out = "deadline"]
  <2>1. [v EXCEPT !.pc = "record"] \in Worker BY <1>1, <1>2 DEF Worker
  <2>2. CASE work' = [work EXCEPT ![s] = [v EXCEPT !.pc = "record"]] BY <1>4, <2>1, <2>2
  <2>3. CASE Exit(s, "deadline") BY <1>2, <1>3, <2>3
  <2> HIDE DEF v
  <2> QED BY <1>13, <2>2, <2>3 DEF Alarm, v
<1>14. CASE Kill(s) BY <1>2, <1>3, <1>14 DEF Kill
<1> QED BY <1>7, <1>8, <1>9, <1>10, <1>11, <1>12, <1>13, <1>14 DEF WorkerStep

LEMMA WorkTypeAround ==
  ASSUME TypeOK, Around
  PROVE  work' \in [Slots -> Worker]
<1> DEFINE w == work["child"]
<1>0. "child" \in Slots /\ "manual" \in Slots BY DEF Slots
<1>1. w \in Worker /\ work["manual"] \in Worker /\ work \in [Slots -> Worker]
  BY <1>0 DEF TypeOK, Worker
<1>2. CASE work' = work BY <1>1, <1>2
<1>3. CASE work' = [s \in Slots |-> NoWork] BY <1>3, NoWorkType
<1>4. CASE ReapChild BY <1>1, <1>4, NoWorkType DEF ReapChild, Reap
<1>5. CASE LaunchWorker
  <2>1. [NoWork EXCEPT !.pc = "settings", !.trigger = Trigger] \in Worker
    BY NoWorkType DEF Worker, Trigger
  <2> QED BY <1>1, <1>5, <2>1 DEF LaunchWorker
<1>6. CASE RunByHand
  <2>1. [work["manual"] EXCEPT !.pc = "settings"] \in Worker BY <1>1 DEF Worker
  <2> QED BY <1>1, <1>6, <2>1 DEF RunByHand
<1>7. CASE Age("child")
  <2> DEFINE a == IF w.age = "young" THEN "alarm" ELSE "overdue"
  <2>1. [w EXCEPT !.age = a] \in Worker BY <1>1 DEF Worker
  <2>2. work' = [work EXCEPT !["child"] = [w EXCEPT !.age = a]] BY <1>1, <1>7 DEF Age
  <2> QED BY <1>1, <2>1, <2>2
<1>8. CASE Terminate
  <2>1. CASE Alive("child")
    <3> DEFINE z == [NoWork EXCEPT !.pc = "exited", !.out = "deadline", !.trigger = w.trigger]
    <3>1. w.trigger \in {"startup", "daily"} BY <1>1 DEF Worker
    <3>2. [NoWork EXCEPT !.pc = "exited", !.out = "deadline"] \in Worker
      BY NoWorkType DEF Worker, Codes
    <3>3. z = [[NoWork EXCEPT !.pc = "exited", !.out = "deadline"] EXCEPT !.trigger = w.trigger]
      BY Zenon DEF NoWork
    <3>4. z \in Worker
      <4> HIDE DEF w
      <4> QED BY <3>1, <3>2 DEF Worker, NoWork
    <3>5. work' = [work EXCEPT !["child"] = z] BY <1>8, <2>1 DEF Terminate
    <3> HIDE DEF w, z
    <3> QED BY <1>1, <3>4, <3>5
  <2>2. CASE ~Alive("child")
    <3>1. [w EXCEPT !.out = "deadline"] \in Worker BY <1>1 DEF Worker, Codes
    <3>2. work' = [work EXCEPT !["child"] = [w EXCEPT !.out = "deadline"]]
      BY <1>1, <1>8, <2>2 DEF Terminate
    <3> QED BY <1>1, <3>1, <3>2
  <2> QED BY <2>1, <2>2
<1> QED BY <1>2, <1>3, <1>4, <1>5, <1>6, <1>7, <1>8
        DEF Around, DaemonStep, StartDaemon, Crash, NextDay, Announce, Gone,
            FindOverdue, Poll, NothingDue, LaunchFails, BackedOff, Shutdown, daemon

LEMMA LedgerType ==
  ASSUME TypeOK, ClaimsOK, Next
  PROVE  /\ rows' \in [Dates -> {"none", "started", "sent", "failed"}]
         /\ delivered' \subseteq Dates /\ sends' \in [Dates -> Nat]
<1>1. CASE Around BY <1>1, AroundFrame DEF TypeOK
<1>2. ASSUME NEW s \in Slots, WorkerStep(s)
      PROVE  /\ rows' \in [Dates -> {"none", "started", "sent", "failed"}]
             /\ delivered' \subseteq Dates /\ sends' \in [Dates -> Nat]
  <2>1. Moves(s) BY <1>2, WorkerMoves DEF ClaimsOK
  <2> QED BY <2>1 DEF Moves, Rests, Claims, Delivers, Closes, TypeOK
<1> QED BY <1>1, <1>2 DEF Next, Around

LEMMA TypeStep ==
  ASSUME TypeOK, ClaimsOK, StartupOK, Next
  PROVE  TypeOK'
<1> USE DeliveryAssumption
<1>1. work' \in [Slots -> Worker] BY WorkType, WorkTypeAround DEF Next, Around
<1>2. /\ rows' \in [Dates -> {"none", "started", "sent", "failed"}]
      /\ delivered' \subseteq Dates /\ sends' \in [Dates -> Nat]
  BY LedgerType
<1>3. today' \in Dates /\ config' \in Configs /\ starts' \in 0 .. MaxStarts
      /\ spool' \in [Slots -> Spools] /\ startupRuns' \in Nat
  <2>1. CASE \E s \in Slots : WorkerStep(s)
    <3>1. UNCHANGED <<today, config, starts, startupRuns>> BY <2>1, WorkerFrame
    <3>2. spool' \in [Slots -> Spools]
      BY <2>1 DEF TypeOK, WorkerStep, Settings, Claim, ClaimFails, Collect, Open, Lock, Deliver,
                  Record, Alarm, Kill, Abandon, spools, Spools
    <3> QED BY <3>1, <3>2 DEF TypeOK
  <2> USE DEF TypeOK, Gone, CleanSpools, Abandon, env, daemon, spools
  <2>0. "none" \in Spools BY DEF Spools
  <2>2. CASE StartDaemon
    <3>1. spool' \in [Slots -> Spools] BY <2>2 DEF StartDaemon
    <3>2. starts' \in 0 .. MaxStarts
      <4>1. starts < MaxStarts /\ starts' = starts + 1 BY <2>2 DEF StartDaemon
      <4>2. starts \in 0 .. MaxStarts OBVIOUS
      <4> QED BY <4>1, <4>2
    <3>4. config' \in Configs BY <2>2 DEF StartDaemon
    <3>3. UNCHANGED <<today, startupRuns>> BY <2>2 DEF StartDaemon
    <3> QED BY <3>1, <3>2, <3>3, <3>4
  <2>3. CASE Announce BY <2>0, <2>3 DEF Announce
  <2>4. CASE FindOverdue \/ Poll \/ NothingDue \/ BackedOff \/ RunByHand
             \/ Age("child")
    BY <2>4 DEF FindOverdue, Poll, NothingDue, BackedOff, RunByHand, Age
  <2>5. CASE ReapChild BY <2>5 DEF ReapChild, Reap
  <2>6. CASE LaunchWorker \/ LaunchFails BY <2>6 DEF LaunchWorker, LaunchFails
  <2>7. CASE Terminate BY <2>0, <2>7 DEF Terminate
  <2>8. CASE Shutdown \/ Crash BY <2>0, <2>8 DEF Shutdown, Crash
  <2>9. CASE NextDay BY <2>9 DEF NextDay, Dates
  <2> QED BY <2>1, <2>2, <2>3, <2>4, <2>5, <2>6, <2>7, <2>8, <2>9 DEF Next, DaemonStep
<1>4. stale' \subseteq {"child", "other"}
  <2> USE DEF TypeOK, spools
  <2>1. ASSUME NEW S \in SUBSET Slots, Abandon(S) PROVE stale' \subseteq {"child", "other"}
    BY <2>1 DEF Abandon
  <2>2. CASE \E s \in Slots : WorkerStep(s)
    <3>1. PICK s \in Slots : WorkerStep(s) BY <2>2
    <3>2. UNCHANGED stale \/ Abandon({s}) BY <3>1, WorkerFrame DEF Kill
    <3> QED BY <2>1, <3>1, <3>2
  <2>3. CASE CleanSpools BY <2>3 DEF CleanSpools, Unremoved
  <2>4. CASE Announce BY <2>1, <2>4 DEF Announce
  <2>5. CASE Crash BY <2>1, <2>5 DEF Crash
  <2>6. CASE Terminate BY <2>1, <2>6 DEF Terminate, Slots
  <2>7. CASE Shutdown
    BY <2>7 DEF Shutdown, Unremoved
  <2>8. CASE UNCHANGED stale BY <2>8
  <2> QED BY <2>2, <2>3, <2>4, <2>5, <2>6, <2>7, <2>8
          DEF Next, DaemonStep, StartDaemon, FindOverdue, Poll, NothingDue, BackedOff, ReapChild,
              Reap, LaunchWorker, LaunchFails, RunByHand, Age, NextDay
<1>5. /\ pc' \in {"off", "announce", "poll", "terminate", "reap", "launch", "backoff"}
      /\ startupPending' \in BOOLEAN /\ failures' \in 0 .. MaxTransient
      /\ lastDaily' \in Dates \cup {NoDate}
      /\ health' \in {"starting", "running", "disabled", "healthy", "degraded", "unhealthy",
                      "stopping"}
  <2> USE DEF TypeOK, daemon
  <2>1. CASE \E s \in Slots : WorkerStep(s) BY <2>1, WorkerFrame
  <2>0. 0 \in 0 .. MaxTransient OBVIOUS
  <2>2. CASE Announce \/ Shutdown \/ Crash
    <3>1. CASE Gone
      <4>1. /\ pc' = "off" /\ startupPending' = TRUE /\ failures' = 0 /\ lastDaily' = NoDate
        BY <3>1 DEF Gone
      <4>2. health' \in {"unhealthy", "stopping", health}
        BY <2>2, <3>1 DEF Announce, Shutdown, Crash, Gone
      <4> QED BY <2>0, <4>1, <4>2
    <3>2. CASE ~Gone BY <2>2, <3>2 DEF Announce, Shutdown, Crash
    <3> QED BY <3>1, <3>2
  <2>3. CASE StartDaemon \/ FindOverdue \/ Poll \/ NothingDue \/ BackedOff \/ Terminate
             \/ RunByHand \/ Age("child") \/ NextDay
    BY <2>3 DEF StartDaemon, FindOverdue, Poll, NothingDue, BackedOff, Terminate,
                RunByHand, Age, NextDay
  <2>4. CASE LaunchWorker BY <2>4 DEF LaunchWorker, ReportLaunch
  <2>5. ASSUME NEW l \in {"poll", "launch"}, StartupFailed(l), startupPending
        PROVE  /\ pc' \in {"poll", "launch", "backoff"} /\ health' \in {"unhealthy", "degraded"}
               /\ startupPending' \in BOOLEAN /\ failures' \in 0 .. MaxTransient
    <3>1. failures + 1 \in 0 .. MaxTransient BY <2>5 DEF StartupOK
    <3> QED BY <2>5, <3>1 DEF StartupFailed
  <2>6. CASE LaunchFails
    <3>1. CASE startupPending
      <4>1. StartupFailed("poll") /\ lastDaily' = lastDaily BY <2>6, <3>1 DEF LaunchFails
      <4> QED BY <2>5, <3>1, <4>1
    <3>2. CASE ~startupPending BY <2>6, <3>2 DEF LaunchFails
    <3> QED BY <3>1, <3>2
  <2>7. CASE ReapChild
    <3>0. work["child"].pc = "exited" /\ lastDaily' = lastDaily BY <2>7 DEF ReapChild, Reap
    <3>1. CASE work["child"].trigger = "startup"
      <4>1. startupPending BY <3>0, <3>1 DEF StartupOK
      <4>2. CASE StartupFailed("launch") BY <2>5, <3>0, <4>1, <4>2
      <4>3. CASE ~StartupFailed("launch")
        <5>1. /\ startupPending' = FALSE /\ pc' = "launch" /\ health' \in {"healthy", "unhealthy"}
              /\ failures' \in {0, failures}
          BY <2>7, <3>1, <4>3 DEF ReapChild, Reap
        <5> QED BY <2>0, <3>0, <5>1
      <4> QED BY <4>2, <4>3
    <3>2. CASE work["child"].trigger # "startup"
      <4>1. /\ startupPending' = startupPending /\ failures' = failures /\ pc' = "launch"
            /\ health' \in {"healthy", "unhealthy", health}
        BY <2>7, <3>2 DEF ReapChild, Reap
      <4> QED BY <3>0, <4>1
    <3> QED BY <3>1, <3>2
  <2> QED BY <2>1, <2>2, <2>3, <2>4, <2>6, <2>7 DEF Next, DaemonStep
<1> QED BY <1>1, <1>2, <1>3, <1>4, <1>5 DEF TypeOK, Worker

-----------------------------------------------------------------------------
(* The invariant holds, and what follows from it.                          *)

LEMMA InvInit == Init => IInv
<1> SUFFICES ASSUME Init PROVE IInv OBVIOUS
<1> USE DeliveryAssumption DEF Init
<1>0. \A s \in Slots : work[s] = NoWork OBVIOUS
<1>1. TypeOK
  <2>1. work \in [Slots -> Worker] BY NoWorkType
  <2>2. 0 \in Dates /\ 0 \in 0 .. MaxTransient /\ 0 \in 0 .. MaxStarts /\ "valid" \in Configs
    BY DEF Dates, Configs
  <2>3. /\ rows \in [Dates -> {"none", "started", "sent", "failed"}] /\ sends \in [Dates -> Nat]
        /\ spool \in [Slots -> Spools]
    BY DEF Spools
  <2>4. startupPending \in BOOLEAN OBVIOUS
  <2>6. delivered \subseteq Dates /\ lastDaily \in Dates \cup {NoDate} OBVIOUS
  <2>7. stale \subseteq {"child", "other"} /\ startupRuns \in Nat OBVIOUS
  <2>5. today \in Dates /\ failures \in 0 .. MaxTransient /\ starts \in 0 .. MaxStarts
        /\ config \in Configs
    BY <2>2
  <2> QED BY <2>1, <2>3, <2>4, <2>5, <2>6, <2>7 DEF TypeOK, Worker
<1>2. ClaimsOK BY <1>0 DEF ClaimsOK, WorkerOK, Owner, OwnersApart, LedgerOK, NoWork
<1>3. StartupOK BY <1>0 DEF StartupOK, NoWork, Slots
<1>4. SpoolsOK BY <1>0 DEF SpoolsOK, WorkspacesKept, OffOK, Slots, NoWork
<1> QED BY <1>1, <1>2, <1>3, <1>4 DEF IInv, ClaimsOK, SpoolsOK

LEMMA InvStep == IInv /\ [Next]_vars => IInv'
<1> SUFFICES ASSUME IInv, [Next]_vars PROVE IInv' OBVIOUS
<1>0. TypeOK /\ ClaimsOK /\ StartupOK /\ SpoolsOK BY DEF IInv, ClaimsOK, SpoolsOK
<1>1. CASE Next
  <2>1. TypeOK' BY <1>0, <1>1, TypeStep
  <2>2. StartupOK' /\ SpoolsOK' BY <1>0, <1>1, StartupStep, SpoolStep
  <2>3. ClaimsOK' BY <1>0, <1>1, <2>1, ClaimsAround, ClaimsWorker DEF Next, Around
  <2> QED BY <2>1, <2>2, <2>3 DEF IInv, ClaimsOK, SpoolsOK
<1>2. CASE UNCHANGED vars
  <2> USE <1>0, <1>2 DEF vars, env, daemon, spools, ledger
  <2>1. TypeOK' BY DEF TypeOK
  <2>2. ClaimsOK' BY DEF ClaimsOK, WorkerOK, Owner, OwnersApart, LedgerOK
  <2>3. StartupOK' BY DEF StartupOK
  <2>4. SpoolsOK' BY DEF SpoolsOK, WorkspacesKept, OffOK, Alive
  <2> QED BY <2>1, <2>2, <2>3, <2>4 DEF IInv, ClaimsOK, SpoolsOK
<1> QED BY <1>1, <1>2

LEMMA Invariance == Spec => []IInv
BY InvInit, InvStep, PTL DEF Spec

\* The state keeps its type.
THEOREM TypeCorrect == Spec => []TypeOK
<1>1. IInv => TypeOK BY DEF IInv
<1> QED BY <1>1, Invariance, PTL

\* The receiver gets one daily operation for a date at most (delivery.py:22), a daemon makes
\* a bounded number of start-up attempts and none later (daemon.py:128-175), and its worker
\* has its workspace, locked when it delivers, and none of a dead one's beside it that nobody
\* has tried to remove (sync_workspace.py:26-66).
THEOREM DeliveryIsSafe == Spec => []DeliverySafe
<1>1. ASSUME IInv PROVE DeliverySafe
  <2>0. TypeOK /\ LedgerOK /\ StartupOK /\ WorkspacesKept BY <1>1 DEF IInv
  <2>1. OnePerDay
    <3> SUFFICES ASSUME NEW d \in Dates PROVE sends[d] <= 1 BY DEF OnePerDay
    <3> QED BY <2>0 DEF LedgerOK
  <2>2. StartupBounded BY <2>0 DEF StartupOK, StartupBounded, TypeOK, Slots
  <2> QED BY <2>0, <2>1, <2>2 DEF DeliverySafe
<1> QED BY <1>1, Invariance, PTL

\* The ledger implements DailyAttempt: a claim is for ever, one operation at most is delivered
\* under it, and "sent" is written for what was delivered (telemetry/database.py:229-345).
THEOREM LedgerImplementsDailyAttempt == Spec => LedgerKept
<1>1. Init => Ledger!Init BY DEF Init, Ledger!Init
<1>2. ASSUME IInv, Next PROVE [Ledger!Next]_<<rows, delivered>>
  <2>0. TypeOK /\ ClaimsOK BY <1>2 DEF IInv, ClaimsOK
  <2>1. CASE Around BY <2>0, <2>1, AroundFrame
  <2>2. ASSUME NEW s \in Slots, WorkerStep(s) PROVE [Ledger!Next]_<<rows, delivered>>
    <3>1. Moves(s) BY <2>0, <2>2, WorkerMoves DEF ClaimsOK
    <3>2. CASE Rests BY <3>2 DEF Rests
    <3>3. ASSUME NEW d \in Dates, Claims(d) PROVE Ledger!Next
      <4>1. Ledger!Claim(d) BY <3>3 DEF Claims, Ledger!Claim
      <4> QED BY <4>1 DEF Ledger!Next
    <3>4. ASSUME NEW d \in Dates, Delivers(d) PROVE Ledger!Next
      <4>1. Ledger!Deliver(d) BY <3>4 DEF Delivers, Ledger!Deliver
      <4> QED BY <4>1 DEF Ledger!Next
    <3>5. ASSUME NEW d \in Dates, Closes(d) PROVE Ledger!Next
      <4>1. \E status \in {"sent", "failed"} : Ledger!Close(d, status)
        BY <3>5 DEF Closes, Ledger!Close
      <4> QED BY <4>1 DEF Ledger!Next
    <3> QED BY <3>1, <3>2, <3>3, <3>4, <3>5 DEF Moves
  <2> QED BY <1>2, <2>1, <2>2 DEF Next, Around
<1>3. UNCHANGED vars => UNCHANGED <<rows, delivered>> BY DEF vars, ledger
<1>4. IInv /\ [Next]_vars => [Ledger!Next]_<<rows, delivered>> BY <1>2, <1>3
<1> QED BY <1>1, <1>4, Invariance, PTL DEF Spec, LedgerKept, Ledger!Spec

-----------------------------------------------------------------------------
(* The synchronization that a worker runs when it delivers (TelemetrySync), *)
(* for any matches, page sizes, budgets and failures: what is sent is what  *)
(* was advertised, what was asked for is sent unless it is gone, and the    *)
(* receiver applies a whole operation.                                      *)

-----------------------------------------------------------------------------
(* Its inductive invariant.                                                *)

\* A row that is no longer there, or was asked for because of a match that is not.
Vanished(r) == db[r] = 0 \/ \E m \in requested \cap Matches : r \in Ends(m) /\ db[m] = 0

\* A row that is in a page, is to be in one, or is gone.
Settled(r) ==
  \/ <<r, advertised[r]>> \in Sent
  \/ \E i \in 1 .. Len(todo) : r \in todo[i].expected
  \/ Vanished(r)

\* Nothing is spooled before the data pages, and the receiver takes no page in before they
\* are all there.
OrderOK ==
  /\ stage \in {"inventory", "post"} =>
       todo = <<>> /\ taken = {} /\ pages = <<>>
  /\ stage \in {"inventory", "post", "data"} => state = "open" /\ got = {}
  /\ stage = "data" => page = 1
  /\ snap # NoRow => snap = db

\* A batch is of rows that were asked for, and expects them with all they reach, or less those
\* that are gone.
BatchOK(task) ==
  /\ task.rows \subseteq requested
  /\ ~task.fetched => task.rows \subseteq Matches
        /\ task.expected = task.rows \cup Closure(task.rows)
  /\ \A r \in task.expected : r \in task.rows \cup Closure(task.rows \cap Matches) \/ Vanished(r)

\* What the iterators have given out is settled, and so is what a match brings along.
BatchesOK ==
  stage = "data" =>
    /\ \A i \in 1 .. Len(todo) : BatchOK(todo[i])
    /\ taken \subseteq requested
    /\ \A r \in taken : Settled(r) /\ (r \in Matches => \A e \in Ends(r) : Settled(e))

\* The receiver has the pages before the one at hand, which it may have too.
SendOK ==
  stage = "send" => page \in 1 .. Len(pages) /\ 1 .. (page - 1) \subseteq got
        /\ got \subseteq 1 .. page

PagesOK == pages \in Seq(SUBSET (Rows \X Nat))

SyncInv == SyncTypeOK /\ PagesOK /\ OrderOK /\ BatchesOK /\ SendOK /\ AppliedIsWhole

-----------------------------------------------------------------------------
(* Rows and batches.                                                       *)

LEMMA EndsAreEntities ==
  ASSUME NEW m \in Matches
  PROVE  Ends(m) \subseteq Entities
BY DEF Entities, Closure

LEMMA ClosureIn ==
  ASSUME NEW S, S \subseteq Matches
  PROVE  Closure(S) \subseteq Entities /\ Closure(S) \subseteq Rows
BY DEF Entities, Closure, Rows

LEMMA FirstIn ==
  ASSUME NEW S, NEW n
  PROVE  First(S, n) \subseteq S
BY DEF First

\* Matches and artworks are different rows.
LEMMA KindsApart == Matches \cap Entities = {} /\ \A e \in Entities : e[1] \in {"lost", "auction"}
<1>1. ASSUME NEW m \in Matches PROVE m[1] = "match"
  BY <1>1 DEF Matches
<1>2. ASSUME NEW e \in Entities PROVE e[1] \in {"lost", "auction"}
  BY <1>2 DEF Entities, Closure, Ends
<1> QED BY <1>1, <1>2

LEMMA HalvesAreAll ==
  ASSUME NEW S
  PROVE  LowerHalf(S) \cup UpperHalf(S) = S /\ LowerHalf(S) \subseteq S /\ UpperHalf(S) \subseteq S
BY FirstIn DEF LowerHalf, UpperHalf

Task == [fetched : BOOLEAN, rows : SUBSET Rows, expected : SUBSET Rows]

LEMMA FetchIsTask ==
  ASSUME NEW S, S \subseteq Matches
  PROVE  Fetch(S) \in Task
<1>1. S \cup Closure(S) \subseteq Rows
  BY ClosureIn DEF Rows
<1> QED BY <1>1 DEF Task, Fetch, Rows

LEMMA MaterializeIsTask ==
  ASSUME NEW S, S \subseteq Rows, NEW E, E \subseteq Rows
  PROVE  Materialize(S, E) \in Task
BY DEF Task, Materialize

LEMMA HalfIsTask ==
  ASSUME NEW S, S \subseteq Rows
  PROVE  HalfOf(S) \in Task
<1>1. S \cap Matches \subseteq Matches
  OBVIOUS
<1>2. Closure(S \cap Matches) \subseteq Rows
  BY <1>1, ClosureIn
<1> QED BY <1>2, MaterializeIsTask DEF HalfOf

-----------------------------------------------------------------------------
(* Sequences of batches and of pages.                                      *)

\* A batch is replaced by two: these, and the others, are what there is.
LEMMA HeadSplit ==
  ASSUME NEW T, NEW s \in Seq(T), s # <<>>, NEW a \in T, NEW b \in T,
         NEW t, t = <<a, b>> \o Tail(s)
  PROVE  /\ t \in Seq(T)
         /\ \A i \in 1 .. Len(t) : t[i] = a \/ t[i] = b \/ \E j \in 1 .. Len(s) : t[i] = s[j]
         /\ 1 \in 1 .. Len(t) /\ t[1] = a /\ 2 \in 1 .. Len(t) /\ t[2] = b
         /\ \A j \in 2 .. Len(s) : j + 1 \in 1 .. Len(t) /\ t[j + 1] = s[j]
<1> DEFINE u == <<a, b>>
           v == Tail(s)
<1>1. u \in Seq(T) /\ Len(u) = 2 /\ u[1] = a /\ u[2] = b
  OBVIOUS
<1>2. v \in Seq(T) /\ Len(v) = Len(s) - 1 /\ \A i \in 1 .. Len(v) : v[i] = s[i + 1]
  OBVIOUS
<1>3. Len(s) \in Nat /\ Len(s) >= 1
  OBVIOUS
<1>0. t = u \o v
  OBVIOUS
<1> HIDE DEF u, v
<1>4. /\ t \in Seq(T) /\ Len(t) = Len(u) + Len(v)
      /\ \A i \in 1 .. Len(t) : t[i] = IF i <= Len(u) THEN u[i] ELSE v[i - Len(u)]
  <2>1. u \in Seq(T) /\ v \in Seq(T)
    BY <1>1, <1>2
  <2>2. /\ u \o v \in Seq(T) /\ Len(u \o v) = Len(u) + Len(v)
        /\ \A i \in 1 .. Len(u) + Len(v) : (u \o v)[i] = IF i <= Len(u) THEN u[i] ELSE v[i - Len(u)]
    BY ONLY <2>1, ConcatProperties
  <2> QED BY ONLY <1>0, <2>2, <1>1, <1>2
<1>5. Len(t) = Len(s) + 1
  BY <1>1, <1>2, <1>3, <1>4
<1>6. t[1] = a /\ t[2] = b /\ 1 \in 1 .. Len(t) /\ 2 \in 1 .. Len(t)
  BY <1>1, <1>3, <1>4, <1>5
<1>7. ASSUME NEW j \in 2 .. Len(s)
      PROVE  j + 1 \in 1 .. Len(t) /\ t[j + 1] = s[j]
  <2>1. j + 1 \in 1 .. Len(t) /\ ~(j + 1 <= 2) /\ j - 1 \in 1 .. Len(v)
    BY <1>2, <1>3, <1>5, <1>7
  <2>2. t[j + 1] = v[j - 1]
    <3>1. t[j + 1] = v[(j + 1) - Len(u)]
      BY <1>1, <1>4, <2>1
    <3>2. (j + 1) - Len(u) = j - 1
      BY <1>1
    <3> QED BY <3>1, <3>2
  <2>3. v[j - 1] = s[j]
    BY <1>2, <2>1
  <2> QED BY <2>1, <2>2, <2>3
<1>8. ASSUME NEW i \in 1 .. Len(t)
      PROVE  t[i] = a \/ t[i] = b \/ \E j \in 1 .. Len(s) : t[i] = s[j]
  <2>1. CASE i \in {1, 2}
    BY <1>6, <2>1
  <2>2. CASE i \notin {1, 2}
    <3>1. i - 1 \in 2 .. Len(s)
      BY <1>3, <1>5, <1>8, <2>2
    <3>2. t[(i - 1) + 1] = s[i - 1]
      BY <1>7, <3>1
    <3> QED BY <1>8, <3>1, <3>2
  <2> QED BY <2>1, <2>2
<1> QED BY <1>4, <1>6, <1>7, <1>8 DEF u, v

\* A batch is replaced by one.
LEMMA HeadReplaced ==
  ASSUME NEW T, NEW s \in Seq(T), s # <<>>, NEW a \in T,
         NEW t, t = <<a>> \o Tail(s)
  PROVE  /\ t \in Seq(T)
         /\ \A i \in 1 .. Len(t) : t[i] = a \/ \E j \in 1 .. Len(s) : t[i] = s[j]
         /\ 1 \in 1 .. Len(t) /\ t[1] = a
         /\ \A j \in 2 .. Len(s) : j \in 1 .. Len(t) /\ t[j] = s[j]
<1> DEFINE u == <<a>>
           v == Tail(s)
<1>1. u \in Seq(T) /\ Len(u) = 1 /\ u[1] = a
  OBVIOUS
<1>2. v \in Seq(T) /\ Len(v) = Len(s) - 1 /\ \A i \in 1 .. Len(v) : v[i] = s[i + 1]
  OBVIOUS
<1>3. Len(s) \in Nat /\ Len(s) >= 1
  OBVIOUS
<1>0. t = u \o v
  OBVIOUS
<1> HIDE DEF u, v
<1>4. /\ t \in Seq(T) /\ Len(t) = Len(u) + Len(v)
      /\ \A i \in 1 .. Len(t) : t[i] = IF i <= Len(u) THEN u[i] ELSE v[i - Len(u)]
  <2>1. u \in Seq(T) /\ v \in Seq(T)
    BY <1>1, <1>2
  <2>2. /\ u \o v \in Seq(T) /\ Len(u \o v) = Len(u) + Len(v)
        /\ \A i \in 1 .. Len(u) + Len(v) : (u \o v)[i] = IF i <= Len(u) THEN u[i] ELSE v[i - Len(u)]
    BY ONLY <2>1, ConcatProperties
  <2> QED BY ONLY <1>0, <2>2, <1>1, <1>2
<1>5. Len(t) = Len(s)
  BY <1>1, <1>2, <1>3, <1>4
<1>6. t[1] = a /\ 1 \in 1 .. Len(t)
  BY <1>1, <1>3, <1>4, <1>5
<1>7. ASSUME NEW j \in 2 .. Len(s)
      PROVE  j \in 1 .. Len(t) /\ t[j] = s[j]
  <2>1. j \in 1 .. Len(t) /\ ~(j <= 1) /\ j - 1 \in 1 .. Len(v)
    BY <1>2, <1>3, <1>5, <1>7
  <2>2. t[j] = v[j - 1]
    BY <1>1, <1>4, <2>1
  <2>3. v[j - 1] = s[j]
    BY <1>2, <2>1
  <2> QED BY <2>1, <2>2, <2>3
<1>8. ASSUME NEW i \in 1 .. Len(t)
      PROVE  t[i] = a \/ \E j \in 1 .. Len(s) : t[i] = s[j]
  <2>1. CASE i = 1
    BY <1>6, <2>1
  <2>2. CASE i # 1
    <3>1. i \in 2 .. Len(s)
      BY <1>3, <1>5, <1>8, <2>2
    <3> QED BY <1>7, <3>1
  <2> QED BY <2>1, <2>2
<1> QED BY <1>4, <1>6, <1>7, <1>8 DEF u, v

LEMMA TailIs ==
  ASSUME NEW T, NEW s \in Seq(T), s # <<>>
  PROVE  /\ Tail(s) \in Seq(T)
         /\ \A i \in 1 .. Len(Tail(s)) : \E j \in 1 .. Len(s) : Tail(s)[i] = s[j]
         /\ \A j \in 2 .. Len(s) : j - 1 \in 1 .. Len(Tail(s)) /\ Tail(s)[j - 1] = s[j]
         /\ 1 \in 1 .. Len(s) /\ Head(s) = s[1] /\ Head(s) \in T
<1> DEFINE v == Tail(s)
<1>2. v \in Seq(T) /\ Len(v) = Len(s) - 1 /\ \A i \in 1 .. Len(v) : v[i] = s[i + 1]
  OBVIOUS
<1>3. Len(s) \in Nat /\ Len(s) >= 1 /\ Head(s) = s[1] /\ s[1] \in T
  OBVIOUS
<1> HIDE DEF v
<1>4. \A i \in 1 .. Len(v) : \E j \in 1 .. Len(s) : v[i] = s[j]
  <2>1. ASSUME NEW i \in 1 .. Len(v) PROVE i + 1 \in 1 .. Len(s) /\ v[i] = s[i + 1]
    BY <1>2, <1>3, <2>1
  <2> QED BY <2>1
<1>5. \A j \in 2 .. Len(s) : j - 1 \in 1 .. Len(v) /\ v[j - 1] = s[j]
  <2>1. ASSUME NEW j \in 2 .. Len(s) PROVE j - 1 \in 1 .. Len(v) /\ (j - 1) + 1 = j
    BY <1>2, <1>3, <2>1
  <2> QED BY <1>2, <2>1
<1> QED BY <1>2, <1>3, <1>4, <1>5 DEF v

\* What the pages hold once there is one more.
LEMMA OneMorePage ==
  ASSUME NEW T, NEW s \in Seq(T), NEW a \in T
  PROVE  LET t == Append(s, a)
         IN  /\ t \in Seq(T) /\ t # <<>> /\ Len(t) = Len(s) + 1
             /\ UNION {t[i] : i \in 1 .. Len(t)} = (UNION {s[i] : i \in 1 .. Len(s)}) \cup a
<1> DEFINE t == Append(s, a)
<1>1. /\ t \in Seq(T) /\ t # <<>> /\ Len(t) = Len(s) + 1 /\ Len(s) \in Nat
      /\ t[Len(s) + 1] = a /\ \A i \in 1 .. Len(s) : t[i] = s[i]
  OBVIOUS
<1> HIDE DEF t
<1>2. ASSUME NEW i \in 1 .. Len(t) PROVE t[i] = a \/ \E j \in 1 .. Len(s) : t[i] = s[j]
  <2>1. i \in 1 .. Len(s) \/ i = Len(s) + 1
    BY <1>1, <1>2
  <2> QED BY <1>1, <2>1
<1>3. Len(s) + 1 \in 1 .. Len(t) /\ \A i \in 1 .. Len(s) : i \in 1 .. Len(t)
  BY <1>1
<1>4. UNION {t[i] : i \in 1 .. Len(t)} = (UNION {s[i] : i \in 1 .. Len(s)}) \cup a
  <2>1. ASSUME NEW x \in UNION {t[i] : i \in 1 .. Len(t)}
        PROVE  x \in (UNION {s[i] : i \in 1 .. Len(s)}) \cup a
    <3>1. PICK i \in 1 .. Len(t) : x \in t[i]
      BY <2>1
    <3> QED BY <1>2, <3>1
  <2>2. ASSUME NEW x \in (UNION {s[i] : i \in 1 .. Len(s)}) \cup a
        PROVE  x \in UNION {t[i] : i \in 1 .. Len(t)}
    <3>1. CASE x \in a
      BY <1>1, <1>3, <3>1
    <3>2. CASE x \in UNION {s[i] : i \in 1 .. Len(s)}
      <4>1. PICK i \in 1 .. Len(s) : x \in s[i]
        BY <3>2
      <4>2. i \in 1 .. Len(t) /\ x \in t[i]
        BY <1>1, <1>3, <4>1
      <4> QED BY <4>2
    <3> QED BY <2>2, <3>1, <3>2
  <2> QED BY <2>1, <2>2
<1> QED BY <1>1, <1>4 DEF t

-----------------------------------------------------------------------------
(* The steps before the data pages.                                        *)

LEMMA SyncStarts == SyncInit => SyncInv
<1> SUFFICES ASSUME SyncInit PROVE SyncInv
  OBVIOUS
<1>1. SyncTypeOK
  <2>1. db \in [Rows -> Nat] /\ snap \in [Rows -> Nat] /\ advertised \in [Rows -> Nat]
    BY DEF SyncInit, NoRow
  <2>2. inventory \in Seq(SUBSET Matches) /\ requested \subseteq Rows /\ taken \subseteq Rows
    BY DEF SyncInit
  <2>3. todo \in Seq([fetched : BOOLEAN, rows : SUBSET Rows, expected : SUBSET Rows])
    BY DEF SyncInit
  <2>4. /\ changes \in 0 .. MaxChanges /\ pageCount \in 0 .. MaxPages /\ page \in Nat \ {0}
        /\ attempt \in 1 .. PageRetries /\ transfer \in 0 .. MaxTransfer /\ polls \in 0 .. PollCount
    BY SyncAssumption DEF SyncInit
  <2> QED BY <2>1, <2>2, <2>3, <2>4 DEF SyncInit, SyncTypeOK
<1>2. PagesOK
  BY DEF SyncInit, PagesOK
<1>3. OrderOK /\ BatchesOK /\ SendOK
  BY DEF SyncInit, OrderOK, BatchesOK, SendOK
<1>4. AppliedIsWhole
  BY DEF SyncInit, AppliedIsWhole, SentIsAdvertised, SentOrGone, Sent
<1> QED BY <1>1, <1>2, <1>3, <1>4 DEF SyncInv

\* Nothing but where the sender is, and its snapshot, changes when an error ends the operation.
LEMMA SyncRaise ==
  ASSUME SyncInv, NEW kind \in Over \ {"ok"}, Raise(kind)
  PROVE  SyncInv'
<1> USE DEF Raise, database, inventing, spooling, posting, receiver
<1>1. SyncTypeOK'
  <2>1. snap' = NoRow /\ NoRow' = NoRow /\ NoRow \in [Rows -> Nat] /\ Rows' = Rows
    BY DEF NoRow
  <2>2. stage' \in Over
    OBVIOUS
  <2> QED BY <2>1, <2>2 DEF SyncInv, SyncTypeOK
<1>2. PagesOK'
  BY DEF SyncInv, PagesOK
<1>3. stage' \in {"transient", "terminal", "deadline"}
  BY DEF Over
<1>4. OrderOK' /\ BatchesOK' /\ SendOK'
  <2>1. snap' = NoRow'
    BY DEF NoRow
  <2> QED BY <1>3, <2>1 DEF OrderOK, BatchesOK, SendOK
<1>5. AppliedIsWhole'
  BY <1>3 DEF SyncInv, AppliedIsWhole, SentIsAdvertised, SentOrGone, Sent
<1> QED BY <1>1, <1>2, <1>4, <1>5 DEF SyncInv

LEMMA SyncErrors ==
  ASSUME SyncInv, SpoolFails \/ OutOfBudget \/ ContentChanged \/ WorkerAlarm
  PROVE  SyncInv'
<1>1. \E kind \in Over \ {"ok"} : Raise(kind)
  BY DEF SpoolFails, OutOfBudget, ContentChanged, WorkerAlarm, Over
<1> QED BY <1>1, SyncRaise

LEMMA SyncChange ==
  ASSUME SyncInv, Change
  PROVE  SyncInv'
<1> USE DEF Change, inventing, spooling, posting, receiver
<1>1. SyncTypeOK'
  <2>1. db' \in [Rows -> Nat]
    <3>1. PICK r \in Rows : \/ db' = [db EXCEPT ![r] = @ + 1]
                            \/ db' = [x \in Rows |-> IF x \in Deleted(r) THEN 0 ELSE db[x]]
      OBVIOUS
    <3>2. db \in [Rows -> Nat]
      BY DEF SyncInv, SyncTypeOK
    <3> QED BY <3>1, <3>2
  <2>2. changes' \in 0 .. MaxChanges
    BY SyncAssumption DEF SyncInv, SyncTypeOK
  <2>3. Rows' = Rows /\ NoRow' = NoRow
    BY DEF NoRow
  <2> QED BY <2>1, <2>2, <2>3 DEF SyncInv, SyncTypeOK
<1>2. PagesOK'
  BY DEF SyncInv, PagesOK
<1>3. OrderOK' /\ BatchesOK' /\ SendOK'
  <2>1. snap = NoRow /\ snap' = snap /\ NoRow' = NoRow
    BY DEF SyncInv, SyncTypeOK, NoRow
  <2> QED BY <2>1 DEF SyncInv, OrderOK, BatchesOK, SendOK
<1>4. AppliedIsWhole'
  BY DEF SyncInv, AppliedIsWhole, SentIsAdvertised, SentOrGone, Sent
<1> QED BY <1>1, <1>2, <1>3, <1>4 DEF SyncInv

\* An opened snapshot is the database as it is.
LEMMA SyncOpen ==
  ASSUME SyncInv, OpenSnapshot
  PROVE  SyncInv'
<1> USE DEF OpenSnapshot, database, inventing, spooling, posting, receiver
<1>1. SyncTypeOK' /\ PagesOK'
  <2>1. Rows' = Rows
    OBVIOUS
  <2>2. snap' \in [Rows -> Nat] /\ stage' \in {"inventory", "data"}
    BY DEF SyncInv, SyncTypeOK
  <2> QED BY <2>1, <2>2 DEF SyncInv, SyncTypeOK, PagesOK
<1>2. OrderOK' /\ SendOK'
  BY DEF SyncInv, OrderOK, SendOK, NoRow
<1>3. BatchesOK'
  <2>1. ASSUME NEW r PROVE Settled(r) => Settled(r)'
    BY DEF Settled, Sent, Vanished
  <2>2. ASSUME NEW task, BatchOK(task) PROVE BatchOK(task)'
    BY <2>2 DEF BatchOK, Vanished
  <2>3. ASSUME NEW i \in 1 .. Len(todo), BatchOK(todo[i]) PROVE BatchOK(todo[i])'
    <3>1. todo' = todo
      OBVIOUS
    <3> QED BY <2>3, <3>1 DEF BatchOK, Vanished
  <2> QED BY <2>1, <2>3 DEF SyncInv, BatchesOK
<1>4. AppliedIsWhole'
  BY DEF SyncInv, AppliedIsWhole, SentIsAdvertised, SentOrGone, Sent
<1> QED BY <1>1, <1>2, <1>3, <1>4 DEF SyncInv

LEMMA SyncInventory ==
  ASSUME SyncInv, SpoolInventory
  PROVE  SyncInv'
<1> USE DEF SpoolInventory, database, posting, receiver
<1>1. /\ stage = "inventory" /\ pages = <<>> /\ state = "open" /\ snap = db
  BY DEF SyncInv, OrderOK
<1>2. SyncTypeOK'
  <2>1. inventory' \in Seq(SUBSET Matches)
    <3>1. First(Unlisted, InventoryPerPage) \in SUBSET Matches
      BY FirstIn DEF Unlisted
    <3>2. inventory \in Seq(SUBSET Matches)
      BY DEF SyncInv, SyncTypeOK
    <3> QED BY <3>1, <3>2
  <2>2. advertised' \in [Rows -> Nat]
    BY DEF SyncInv, SyncTypeOK, Recorded
  <2>3. pageCount' \in 0 .. MaxPages
    BY SyncAssumption DEF SyncInv, SyncTypeOK, PageFits
  <2>4. Rows' = Rows /\ NoRow' = NoRow
    BY DEF NoRow
  <2> QED BY <1>1, <2>1, <2>2, <2>3, <2>4 DEF SyncInv, SyncTypeOK, spooling
<1>3. PagesOK'
  BY DEF SyncInv, PagesOK, spooling
<1>4. OrderOK' /\ BatchesOK' /\ SendOK'
  <2>1. snap' = db'
    BY <1>1
  <2> QED BY <1>1, <2>1 DEF SyncInv, OrderOK, BatchesOK, SendOK, spooling
<1>5. AppliedIsWhole'
  BY <1>1 DEF SyncInv, AppliedIsWhole, SentIsAdvertised, SentOrGone, Sent, spooling
<1> QED BY <1>2, <1>3, <1>4, <1>5 DEF SyncInv

LEMMA SyncCloseInventory ==
  ASSUME SyncInv, CloseInventory
  PROVE  SyncInv'
<1> USE DEF CloseInventory, database, inventing, spooling, posting, receiver
<1>1. snap' = NoRow /\ NoRow' = NoRow /\ NoRow \in [Rows -> Nat] /\ Rows' = Rows
      /\ stage' \in {"post", "terminal"}
  BY DEF NoRow
<1>2. SyncTypeOK' /\ PagesOK'
  BY <1>1 DEF SyncInv, SyncTypeOK, PagesOK, Over
<1>3. OrderOK' /\ BatchesOK' /\ SendOK'
  BY <1>1 DEF SyncInv, OrderOK, BatchesOK, SendOK
<1>4. AppliedIsWhole'
  BY <1>1 DEF SyncInv, AppliedIsWhole, SentIsAdvertised, SentOrGone, Sent
<1> QED BY <1>2, <1>3, <1>4 DEF SyncInv

-----------------------------------------------------------------------------
(* Posting.                                                                *)

\* A page the receiver takes in: the pages before it, and this one, are what it has then.
LEMMA Takes ==
  ASSUME SyncInv, Take
  PROVE  /\ got' \subseteq 1 .. Len(pages)
               /\ state' \in {"open", "applying", "complete", "superseded", "failed"}
         /\ lacking' = lacking
         /\ 1 .. page \subseteq got' /\ got' \subseteq 1 .. page
         /\ state' # "open" => got' = 1 .. Len(pages)
<1> USE DEF Take
<1>1. /\ page \in 1 .. Len(pages) /\ 1 .. (page - 1) \subseteq got /\ got \subseteq 1 .. page
      /\ Len(pages) \in Nat /\ got \subseteq 1 .. Len(pages)
      /\ state \in {"open", "applying", "complete", "superseded", "failed"}
      /\ state # "open" => got = 1 .. Len(pages)
  BY DEF SyncInv, SendOK, SyncTypeOK, PagesOK, AppliedIsWhole
<1>2. got' \subseteq 1 .. Len(pages) /\ got' \subseteq 1 .. page
  BY <1>1
<1>3. 1 .. page \subseteq got'
  <2>1. ASSUME NEW i \in 1 .. page PROVE i \in 1 .. (page - 1) \/ i = page
    BY <1>1, <2>1
  <2> QED BY <1>1, <2>1
<1>4. state' \in {"open", "applying", "complete", "superseded", "failed"}
  BY <1>1
<1>5. ASSUME state' # "open" PROVE got' = 1 .. Len(pages)
  <2>1. CASE page = Len(pages)
    BY <1>2, <1>3, <2>1
  <2>2. CASE page # Len(pages)
    <3>1. state' = state
      BY <2>2
    <3> QED BY <1>1, <1>2, <1>5, <3>1
  <2> QED BY <2>1, <2>2
<1> QED BY <1>2, <1>3, <1>4, <1>5

LEMMA SyncPostFails ==
  ASSUME SyncInv, PostFails \/ PostRefused
  PROVE  SyncInv'
<1> USE DEF PostFails, PostRefused, database, inventing, spooling
<1>1. /\ stage \in {"post", "send"} /\ Debit /\ MayTake
      /\ stage' \in {stage, "transient", "terminal"}
      /\ UNCHANGED <<database, snap, inventing, requested, spooling, pageCount, page, polls>>
  BY DEF Retry
<1>2. attempt' \in 1 .. PageRetries
  <2>1. attempt \in 1 .. PageRetries /\ PageRetries \in Nat
    BY SyncAssumption DEF SyncInv, SyncTypeOK
  <2>2. CASE PostFails
    BY <2>1, <2>2 DEF Retry
  <2>3. CASE PostRefused
    BY <2>1, <2>3
  <2> QED BY <2>2, <2>3
<1>3. transfer' \in 0 .. MaxTransfer
  BY <1>1, SyncAssumption DEF SyncInv, SyncTypeOK, Debit
<1>4. /\ got' \subseteq 1 .. Len(pages) /\ lacking' = lacking
      /\ state' \in {"open", "applying", "complete", "superseded", "failed"}
      /\ state' # "open" => got' = 1 .. Len(pages)
      /\ stage = "send" => 1 .. (page - 1) \subseteq got' /\ got' \subseteq 1 .. page
      /\ stage = "post" => got' = got /\ state' = state
  <2>1. CASE Take
    <3>1. page \in Nat
      BY DEF SyncInv, SyncTypeOK
    <3>2. 1 .. (page - 1) \subseteq 1 .. page
      BY <3>1
    <3> QED BY <2>1, <3>2, Takes DEF Take
  <2>2. CASE UNCHANGED receiver
    BY <2>2 DEF SyncInv, SyncTypeOK, SendOK, AppliedIsWhole, receiver
  <2> QED BY <1>1, <2>1, <2>2 DEF MayTake
<1>5. snap = NoRow /\ snap' = NoRow /\ NoRow' = NoRow /\ Rows' = Rows
  BY <1>1 DEF SyncInv, SyncTypeOK, NoRow
<1>6. SyncTypeOK' /\ PagesOK'
  <2>1. stage' \in Over \cup {"inventory", "post", "data", "send", "apply"}
    BY <1>1 DEF Over
  <2> QED BY <1>1, <1>2, <1>3, <1>4, <1>5, <2>1 DEF SyncInv, SyncTypeOK, PagesOK
<1>7. OrderOK'
  BY <1>1, <1>4, <1>5 DEF SyncInv, OrderOK
<1>8. BatchesOK' /\ SendOK'
  BY <1>1, <1>4 DEF SyncInv, BatchesOK, SendOK
<1>9. AppliedIsWhole'
  <2>1. SentIsAdvertised'
    BY <1>1 DEF SyncInv, AppliedIsWhole, SentIsAdvertised, Sent
  <2>2. SentOrGone'
    BY <1>1 DEF SyncInv, AppliedIsWhole, SentOrGone, Sent
  <2> QED BY <1>1, <1>4, <2>1, <2>2 DEF AppliedIsWhole
<1> QED BY <1>6, <1>7, <1>8, <1>9 DEF SyncInv

LEMMA SyncPostInventory ==
  ASSUME SyncInv, PostInventory
  PROVE  SyncInv'
<1> USE DEF PostInventory, database, inventing, spooling, receiver
<1>1. /\ stage = "post" /\ stage' \in {"post", "data"} /\ (stage' = "data" => page' = 1)
      /\ snap = NoRow /\ snap' = NoRow /\ NoRow' = NoRow /\ Rows' = Rows
      /\ pages = <<>> /\ todo = <<>> /\ taken = {} /\ state = "open" /\ got = {}
  BY DEF SyncInv, SyncTypeOK, OrderOK, NoRow, DataFromFirst
<1>2. requested' \subseteq Rows
  <2>1. Needed \subseteq Rows
    BY DEF SyncInv, SyncTypeOK, Needed
  <2>2. Needed \cap Matches \subseteq Matches
    OBVIOUS
  <2>3. Closure(Needed \cap Matches) \subseteq Rows
    BY <2>2, ClosureIn
  <2> QED BY <2>1, <2>3 DEF SyncInv, SyncTypeOK, Asked
<1>3. page' \in Nat \ {0} /\ attempt' \in 1 .. PageRetries /\ transfer' \in 0 .. MaxTransfer
  BY SyncAssumption DEF SyncInv, SyncTypeOK, DataFromFirst, Debit
<1>4. SyncTypeOK' /\ PagesOK'
  BY <1>1, <1>2, <1>3 DEF SyncInv, SyncTypeOK, PagesOK
<1>5. OrderOK' /\ BatchesOK' /\ SendOK'
  BY <1>1 DEF OrderOK, BatchesOK, SendOK
<1>6. AppliedIsWhole'
  BY <1>1 DEF SyncInv, AppliedIsWhole, SentIsAdvertised, SentOrGone, Sent
<1> QED BY <1>4, <1>5, <1>6 DEF SyncInv

-----------------------------------------------------------------------------
(* The data pages.                                                         *)

\* What the steps that spool leave alone.
Frame == UNCHANGED <<db, snap, stage, advertised, requested, page, got, state>>

\* Whatever such a step does to the batches and the pages, it keeps the order of the operation.
LEMMA SpoolOrder ==
  ASSUME SyncInv, Frame, stage = "data"
  PROVE  OrderOK' /\ SendOK' /\ SentOrGone'
<1>1. NoRow' = NoRow
  BY DEF NoRow
<1> QED BY <1>1 DEF SyncInv, Frame, OrderOK, SendOK, SentOrGone

\* The batches change, the pages do not: what was settled stays settled.
LEMMA SpoolBatches ==
  ASSUME SyncInv, Frame, stage = "data", UNCHANGED <<pages, taken>>,
         NEW E, \A i \in 1 .. Len(todo') : todo'[i] \in E,
         \A task \in E : BatchOK(task),
         \A i \in 1 .. Len(todo) : \A r \in todo[i].expected :
           (\E j \in 1 .. Len(todo') : r \in todo'[j].expected) \/ Vanished(r)
  PROVE  BatchesOK' /\ AppliedIsWhole' /\ PagesOK'
<1> USE DEF Frame
<1>1. ASSUME NEW r PROVE Vanished(r) <=> Vanished(r)'
  BY DEF Vanished
<1>2. ASSUME NEW r, Settled(r) PROVE Settled(r)'
  <2>1. CASE <<r, advertised[r]>> \in Sent
    BY <2>1 DEF Settled, Sent
  <2>2. CASE Vanished(r)
    BY <1>1, <2>2 DEF Settled
  <2>3. CASE \E i \in 1 .. Len(todo) : r \in todo[i].expected
    BY <1>1, <2>3 DEF Settled
  <2> QED BY <1>2, <2>1, <2>2, <2>3 DEF Settled
<1>3. ASSUME NEW i \in 1 .. Len(todo') PROVE BatchOK(todo[i])'
  <2>1. BatchOK(todo'[i])
    OBVIOUS
  <2> QED BY <2>1, <1>1 DEF BatchOK
<1>4. taken' \subseteq requested'
  BY DEF SyncInv, BatchesOK
<1>5. \A r \in taken' : Settled(r)' /\ (r \in Matches' => \A e \in Ends(r)' : Settled(e)')
  <2>1. \A r \in taken : Settled(r) /\ (r \in Matches => \A e \in Ends(r) : Settled(e))
    BY DEF SyncInv, BatchesOK
  <2> QED BY <1>2, <2>1
<1>6. BatchesOK'
  BY <1>3, <1>4, <1>5 DEF BatchesOK
<1>7. AppliedIsWhole'
  <2>1. SentIsAdvertised'
    BY DEF SyncInv, AppliedIsWhole, SentIsAdvertised, Sent
  <2>2. SentOrGone'
    BY SpoolOrder
  <2> QED BY <2>1, <2>2 DEF SyncInv, AppliedIsWhole
<1>8. PagesOK'
  BY DEF SyncInv, PagesOK
<1> QED BY <1>6, <1>7, <1>8

LEMMA BatchesOf ==
  ASSUME SyncInv, stage = "data"
  PROVE  /\ todo \in Seq(Task) /\ snap \in [Rows -> Nat] /\ advertised \in [Rows -> Nat]
         /\ requested \subseteq Rows
         /\ \A i \in 1 .. Len(todo) : BatchOK(todo[i])
         /\ snap # NoRow => snap = db
BY DEF SyncInv, SyncTypeOK, BatchesOK, OrderOK, Task

\* The rest of the types are those of what stays.
LEMMA SpoolTypes ==
  ASSUME SyncInv, Frame, stage = "data",
         todo' \in Seq(Task), taken' \subseteq Rows, pageCount' \in 0 .. MaxPages,
         UNCHANGED <<changes, inventory, attempt, transfer, polls, lacking>>
  PROVE  SyncTypeOK'
<1>1. Rows' = Rows /\ NoRow' = NoRow
  BY DEF NoRow
<1>2. got' = {}
  BY DEF SyncInv, OrderOK, Frame
<1> QED BY <1>1, <1>2 DEF SyncInv, SyncTypeOK, Frame, Task

\* The batch at hand is replaced by two that expect what it does, less what is gone.
LEMMA SplitInTwo ==
  ASSUME SyncInv, Frame, stage = "data", todo # <<>>, NEW a \in Task, NEW b \in Task,
         todo' = <<a, b>> \o Tail(todo), BatchOK(a), BatchOK(b),
         \A r \in Head(todo).expected : r \in a.expected \/ r \in b.expected \/ Vanished(r),
         UNCHANGED <<pages, taken, changes, inventory, attempt, transfer, polls, lacking, pageCount>>
  PROVE  SyncInv'
<1>1. todo \in Seq(Task) /\ \A i \in 1 .. Len(todo) : BatchOK(todo[i])
  BY BatchesOf
<1>2. /\ todo' \in Seq(Task)
      /\ \A i \in 1 .. Len(todo') : todo'[i] = a \/ todo'[i] = b
            \/ \E j \in 1 .. Len(todo) : todo'[i] = todo[j]
      /\ 1 \in 1 .. Len(todo') /\ todo'[1] = a /\ 2 \in 1 .. Len(todo') /\ todo'[2] = b
      /\ \A j \in 2 .. Len(todo) : j + 1 \in 1 .. Len(todo') /\ todo'[j + 1] = todo[j]
  <2>1. todo \in Seq(Task) /\ todo # <<>> /\ a \in Task /\ b \in Task
              /\ todo' = <<a, b>> \o Tail(todo)
    BY <1>1
  <2> QED BY ONLY <2>1, HeadSplit
<1>3. 1 \in 1 .. Len(todo) /\ Head(todo) = todo[1]
  BY <1>1, TailIs
<1> DEFINE E == {a, b} \cup {todo[j] : j \in 1 .. Len(todo)}
<1>4. \A i \in 1 .. Len(todo') : todo'[i] \in E
  BY <1>2
<1>5. \A task \in E : BatchOK(task)
  BY <1>1
<1>6. ASSUME NEW i \in 1 .. Len(todo), NEW r \in todo[i].expected
      PROVE  (\E j \in 1 .. Len(todo') : r \in todo'[j].expected) \/ Vanished(r)
  <2>1. CASE i = 1
    BY <1>2, <1>3, <1>6, <2>1
  <2>2. CASE i # 1
    <3>1. i \in 2 .. Len(todo)
      BY <1>6, <2>2
    <3>2. i + 1 \in 1 .. Len(todo') /\ r \in todo'[i + 1].expected
      BY <1>2, <1>6, <3>1
    <3> QED BY <3>2
  <2> QED BY <2>1, <2>2
<1> HIDE DEF E
<1>7. BatchesOK' /\ AppliedIsWhole' /\ PagesOK'
  BY <1>4, <1>5, <1>6, SpoolBatches
<1>8. SyncTypeOK'
  <2>1. taken' \subseteq Rows /\ pageCount' \in 0 .. MaxPages
    BY DEF SyncInv, SyncTypeOK
  <2> QED BY <1>2, <2>1, SpoolTypes
<1>9. OrderOK' /\ SendOK'
  BY SpoolOrder
<1> QED BY <1>7, <1>8, <1>9 DEF SyncInv

LEMMA SyncSplitPairs ==
  ASSUME SyncInv, SplitPairs
  PROVE  SyncInv'
<1> DEFINE h == Head(todo)
           a == Fetch(LowerHalf(h.rows))
           b == Fetch(UpperHalf(h.rows))
<1>1. /\ stage = "data" /\ snap # NoRow /\ todo # <<>> /\ ~h.fetched
      /\ todo' = <<a, b>> \o Tail(todo)
      /\ UNCHANGED <<pages, taken, changes, inventory, attempt, transfer, polls, lacking, pageCount>>
      /\ Frame
  BY DEF SplitPairs, Current, Frame, database, inventing, posting, receiver
<1>2. BatchOK(h)
  BY <1>1, BatchesOf, TailIs
<1>3. h.rows \subseteq Matches /\ h.rows \subseteq requested
            /\ h.expected = h.rows \cup Closure(h.rows)
  BY <1>1, <1>2 DEF BatchOK
<1>4. LowerHalf(h.rows) \cup UpperHalf(h.rows) = h.rows
  BY HalvesAreAll
<1>5. a \in Task /\ b \in Task
  BY <1>3, <1>4, FetchIsTask
<1>6. BatchOK(a) /\ BatchOK(b)
  <2>1. ASSUME NEW S, S \subseteq h.rows PROVE BatchOK(Fetch(S))
    <3>1. S \cap Matches = S
      BY <1>3, <2>1
    <3> QED BY <1>3, <2>1, <3>1 DEF BatchOK, Fetch
  <2>2. LowerHalf(h.rows) \subseteq h.rows /\ UpperHalf(h.rows) \subseteq h.rows
    BY <1>4
  <2> QED BY <2>1, <2>2
<1>7. \A r \in h.expected : r \in a.expected \/ r \in b.expected \/ Vanished(r)
  BY <1>3, <1>4 DEF Fetch, Closure
<1> HIDE DEF h, a, b
<1>8. \A r \in Head(todo).expected : r \in a.expected \/ r \in b.expected \/ Vanished(r)
  BY <1>7 DEF h
<1> QED BY <1>1, <1>5, <1>6, <1>8, SplitInTwo

LEMMA SyncSplitContent ==
  ASSUME SyncInv, SplitContent
  PROVE  SyncInv'
<1> DEFINE h == Head(todo)
           a == HalfOf(LowerHalf(h.rows))
           b == HalfOf(UpperHalf(h.rows))
<1>1. /\ stage = "data" /\ snap # NoRow /\ todo # <<>>
      /\ todo' = <<a, b>> \o Tail(todo)
      /\ UNCHANGED <<pages, taken, changes, inventory, attempt, transfer, polls, lacking, pageCount>>
      /\ Frame
  BY DEF SplitContent, Current, Frame, database, inventing, posting, receiver
<1>2. BatchOK(h) /\ h \in Task
  BY <1>1, BatchesOf, TailIs
<1>3. /\ h.rows \subseteq requested /\ h.rows \subseteq Rows
      /\ \A r \in h.expected : r \in h.rows \cup Closure(h.rows \cap Matches) \/ Vanished(r)
  BY <1>2 DEF BatchOK, Task
<1>4. LowerHalf(h.rows) \cup UpperHalf(h.rows) = h.rows
  BY HalvesAreAll
<1>5. a \in Task /\ b \in Task
  BY <1>3, <1>4, HalfIsTask
<1>6. BatchOK(a) /\ BatchOK(b)
  BY <1>3, <1>4 DEF BatchOK, HalfOf, Materialize
<1>7. ASSUME NEW r \in h.expected PROVE r \in a.expected \/ r \in b.expected \/ Vanished(r)
  <2>1. CASE Vanished(r) \/ r \in h.rows
    BY <1>4, <2>1 DEF HalfOf, Materialize
  <2>2. CASE r \in Closure(h.rows \cap Matches)
    <3>1. PICK m \in h.rows \cap Matches : r \in Ends(m)
      BY <2>2 DEF Closure
    <3>2. r \in Closure(LowerHalf(h.rows) \cap Matches)
                \/ r \in Closure(UpperHalf(h.rows) \cap Matches)
      BY <1>4, <3>1 DEF Closure
    <3> QED BY <3>2 DEF HalfOf, Materialize
  <2> QED BY <1>3, <1>7, <2>1, <2>2
<1> HIDE DEF h, a, b
<1>8. \A r \in Head(todo).expected : r \in a.expected \/ r \in b.expected \/ Vanished(r)
  BY <1>7 DEF h
<1> QED BY <1>1, <1>5, <1>6, <1>8, SplitInTwo

LEMMA SyncFetchPairs ==
  ASSUME SyncInv, FetchPairs
  PROVE  SyncInv'
<1> DEFINE h == Head(todo)
           a == Materialize({m \in h.rows : snap[m] # 0}, h.expected)
<1>1. /\ stage = "data" /\ snap # NoRow /\ todo # <<>> /\ ~h.fetched
      /\ todo' = <<a>> \o Tail(todo)
      /\ UNCHANGED <<pages, taken, changes, inventory, attempt, transfer, polls, lacking, pageCount>>
      /\ Frame
  BY DEF FetchPairs, Current, Frame, database, inventing, posting, receiver
<1>2. BatchOK(h) /\ h \in Task /\ snap = db /\ requested \subseteq Rows
  BY <1>1, BatchesOf, TailIs
<1>3. h.rows \subseteq Matches /\ h.rows \subseteq requested
            /\ h.expected = h.rows \cup Closure(h.rows)
  BY <1>1, <1>2 DEF BatchOK
<1>4. a \in Task
  <2>1. h.rows \subseteq Rows /\ h.expected \subseteq Rows
    BY <1>2 DEF Task
  <2> QED BY <2>1, MaterializeIsTask
<1>5. BatchOK(a)
  <2>1. ASSUME NEW r \in h.expected
        PROVE  r \in {m \in h.rows : snap[m] # 0}
                     \cup Closure({m \in h.rows : snap[m] # 0} \cap Matches) \/ Vanished(r)
    <3>1. CASE r \in h.rows
      BY <1>2, <3>1 DEF Vanished
    <3>2. CASE r \in Closure(h.rows)
      <4>1. PICK m \in h.rows : r \in Ends(m)
        BY <3>2 DEF Closure
      <4>2. m \in requested \cap Matches
        BY <1>3
      <4>3. CASE snap[m] = 0
        BY <1>2, <4>1, <4>2, <4>3 DEF Vanished
      <4>4. CASE snap[m] # 0
        BY <1>3, <4>1, <4>4 DEF Closure
      <4> QED BY <4>3, <4>4
    <3> QED BY <1>3, <2>1, <3>1, <3>2
  <2> QED BY <1>3, <2>1 DEF BatchOK, Materialize
<1>6. a.expected = Head(todo).expected
  BY DEF Materialize
<1> HIDE DEF h, a
<1>7. todo \in Seq(Task) /\ \A i \in 1 .. Len(todo) : BatchOK(todo[i])
  BY <1>1, BatchesOf
<1>8. /\ todo' \in Seq(Task)
      /\ \A i \in 1 .. Len(todo') : todo'[i] = a \/ \E j \in 1 .. Len(todo) : todo'[i] = todo[j]
      /\ 1 \in 1 .. Len(todo') /\ todo'[1] = a
      /\ \A j \in 2 .. Len(todo) : j \in 1 .. Len(todo') /\ todo'[j] = todo[j]
  <2>1. todo \in Seq(Task) /\ todo # <<>> /\ a \in Task /\ todo' = <<a>> \o Tail(todo)
    BY <1>1, <1>4, <1>7
  <2> QED BY ONLY <2>1, HeadReplaced
<1>9. 1 \in 1 .. Len(todo) /\ Head(todo) = todo[1]
  BY <1>1, <1>7, TailIs
<1> DEFINE E == {a} \cup {todo[j] : j \in 1 .. Len(todo)}
<1>10. \A i \in 1 .. Len(todo') : todo'[i] \in E
  BY <1>8
<1>11. \A task \in E : BatchOK(task)
  BY <1>5, <1>7
<1>12. ASSUME NEW i \in 1 .. Len(todo), NEW r \in todo[i].expected
       PROVE  (\E j \in 1 .. Len(todo') : r \in todo'[j].expected) \/ Vanished(r)
  <2>1. CASE i = 1
    BY <1>6, <1>8, <1>9, <1>12, <2>1
  <2>2. CASE i # 1
    <3>1. i \in 2 .. Len(todo)
      BY <1>12, <2>2
    <3> QED BY <1>8, <1>12, <3>1
  <2> QED BY <2>1, <2>2
<1> HIDE DEF E
<1>13. BatchesOK' /\ AppliedIsWhole' /\ PagesOK'
  BY <1>1, <1>10, <1>11, <1>12, SpoolBatches
<1>14. SyncTypeOK'
  <2>1. taken' \subseteq Rows /\ pageCount' \in 0 .. MaxPages
    BY <1>1 DEF SyncInv, SyncTypeOK
  <2> QED BY <1>1, <1>8, <2>1, SpoolTypes
<1>15. OrderOK' /\ SendOK'
  BY <1>1, SpoolOrder
<1> QED BY <1>13, <1>14, <1>15 DEF SyncInv

LEMMA SyncNextBatch ==
  ASSUME SyncInv, NextBatch
  PROVE  SyncInv'
<1> DEFINE given == First(Waiting, DataPerPage)
           task == IF given \subseteq Matches THEN Fetch(given) ELSE Materialize(given, given)
<1>1. /\ stage = "data" /\ snap # NoRow /\ todo = <<>>
      /\ todo' = <<task>> /\ taken' = taken \cup given
      /\ UNCHANGED <<pages, changes, inventory, attempt, transfer, polls, lacking, pageCount>>
      /\ Frame
  BY DEF NextBatch, Frame, database, inventing, posting, receiver
<1>2. given \subseteq requested /\ (given \subseteq Matches \/ given \subseteq Entities)
  <2>1. given \subseteq Waiting
    BY FirstIn
  <2>2. Waiting \subseteq requested /\ (Waiting \subseteq Matches \/ Waiting \subseteq Entities)
    BY DEF Waiting, Extra
  <2> QED BY <2>1, <2>2
<1> HIDE DEF given
<1>3. requested \subseteq Rows
  BY <1>1, BatchesOf
<1>4. task \in Task /\ BatchOK(task) /\ given \subseteq task.expected
      /\ \A m \in given \cap Matches : Ends(m) \subseteq task.expected
  <2>1. CASE given \subseteq Matches
    <3>1. task = Fetch(given) /\ given \cap Matches = given
      BY <2>1
    <3>2. task \in Task
      BY <2>1, <3>1, FetchIsTask
    <3>3. BatchOK(task)
      BY <1>2, <2>1, <3>1 DEF BatchOK, Fetch
    <3>4. task.expected = given \cup Closure(given)
      BY <3>1 DEF Fetch
    <3> QED BY <3>1, <3>2, <3>3, <3>4 DEF Closure
  <2>2. CASE ~(given \subseteq Matches)
    <3>1. task = Materialize(given, given) /\ given \cap Matches = {}
      BY <1>2, <2>2, KindsApart
    <3>2. task \in Task
      BY <1>2, <1>3, <3>1, MaterializeIsTask
    <3>3. BatchOK(task) /\ given = task.expected
      BY <1>2, <3>1 DEF BatchOK, Materialize
    <3> QED BY <3>1, <3>2, <3>3
  <2> QED BY <2>1, <2>2
<1> HIDE DEF task
<1>5. /\ todo' \in Seq(Task) /\ 1 \in 1 .. Len(todo') /\ todo'[1] = task
      /\ \A i \in 1 .. Len(todo') : todo'[i] = task
  BY <1>1, <1>4
<1> USE DEF Frame
<1>6. ASSUME NEW r, Settled(r) \/ r \in task.expected PROVE Settled(r)'
  <2>1. CASE r \in task.expected
    BY <1>5, <2>1 DEF Settled
  <2>2. CASE Settled(r)
    <3>1. <<r, advertised[r]>> \in Sent \/ Vanished(r)
      BY <1>1, <2>2 DEF Settled
    <3> QED BY <1>1, <3>1 DEF Settled, Sent, Vanished
  <2> QED BY <1>6, <2>1, <2>2
<1>7. BatchesOK'
  <2>1. ASSUME NEW i \in 1 .. Len(todo') PROVE BatchOK(todo[i])'
    <3>1. BatchOK(todo'[i])
      BY <1>4, <1>5, <2>1
    <3> QED BY <1>1, <3>1 DEF BatchOK, Vanished
  <2>2. taken' \subseteq requested'
    BY <1>1, <1>2 DEF SyncInv, BatchesOK
  <2>3. ASSUME NEW r \in taken' PROVE Settled(r)'
                     /\ (r \in Matches' => \A e \in Ends(r)' : Settled(e)')
    <3>1. CASE r \in taken
      <4>1. Settled(r) /\ (r \in Matches => \A e \in Ends(r) : Settled(e))
        BY <1>1, <3>1 DEF SyncInv, BatchesOK
      <4> QED BY <1>6, <4>1
    <3>2. CASE r \in given
      <4>1. r \in task.expected /\ (r \in Matches => \A e \in Ends(r) : e \in task.expected)
        BY <1>4, <3>2
      <4> QED BY <1>6, <4>1
    <3> QED BY <1>1, <2>3, <3>1, <3>2
  <2> QED BY <2>1, <2>2, <2>3 DEF BatchesOK
<1>8. AppliedIsWhole' /\ PagesOK'
  <2>1. SentIsAdvertised'
    BY <1>1 DEF SyncInv, AppliedIsWhole, SentIsAdvertised, Sent
  <2>2. SentOrGone'
    BY <1>1, SpoolOrder
  <2> QED BY <1>1, <2>1, <2>2 DEF SyncInv, AppliedIsWhole, PagesOK
<1>9. SyncTypeOK'
  <2>1. taken' \subseteq Rows /\ pageCount' \in 0 .. MaxPages
    BY <1>1, <1>2, <1>3 DEF SyncInv, SyncTypeOK
  <2> QED BY <1>1, <1>5, <2>1, SpoolTypes
<1>10. OrderOK' /\ SendOK'
  BY <1>1, SpoolOrder
<1> QED BY <1>7, <1>8, <1>9, <1>10 DEF SyncInv

\* A page more: what it holds was advertised, and is there.
LEMMA OnePageMore ==
  ASSUME SyncInv, Frame, stage = "data", NEW R, R \subseteq Rows, WritePage(R),
         \A r \in R : snap[r] = advertised[r] /\ snap[r] # 0
  PROVE  /\ PagesOK' /\ AppliedIsWhole'
         /\ pageCount' \in 0 .. MaxPages
         /\ \A r : <<r, advertised[r]>> \in Sent \/ r \in R => (<<r, advertised[r]>> \in Sent)'
<1> USE DEF Frame
<1> DEFINE new == {<<r, snap[r]>> : r \in R}
<1>1. pages \in Seq(SUBSET (Rows \X Nat)) /\ new \in SUBSET (Rows \X Nat)
            /\ pages' = Append(pages, new)
  BY BatchesOf DEF SyncInv, PagesOK, WritePage
<1>2. new = {<<r, advertised[r]>> : r \in R}
  OBVIOUS
<1> HIDE DEF new
<1>3. pages' \in Seq(SUBSET (Rows \X Nat)) /\ Sent' = Sent \cup new
  BY <1>1, OneMorePage DEF Sent
<1>4. SentIsAdvertised'
  <2>1. ASSUME NEW x \in Sent' PROVE x[2] = advertised[x[1]] /\ x[2] # 0
    <3>1. CASE x \in Sent
      BY <3>1 DEF SyncInv, AppliedIsWhole, SentIsAdvertised
    <3>2. CASE x \in new
      BY <1>2, <3>2
    <3> QED BY <1>3, <2>1, <3>1, <3>2
  <2> QED BY <2>1 DEF SentIsAdvertised
<1>5. AppliedIsWhole'
  <2>1. SentOrGone'
    BY SpoolOrder
  <2>2. state' = "open"
    BY DEF SyncInv, OrderOK
  <2> QED BY <1>4, <2>1, <2>2 DEF AppliedIsWhole
<1>6. pageCount' \in 0 .. MaxPages
  BY SyncAssumption DEF SyncInv, SyncTypeOK, WritePage, PageFits
<1>7. \A r : <<r, advertised[r]>> \in Sent \/ r \in R => (<<r, advertised[r]>> \in Sent)'
  BY <1>2, <1>3
<1> QED BY <1>3, <1>5, <1>6, <1>7 DEF PagesOK

LEMMA SyncSpoolContent ==
  ASSUME SyncInv, SpoolContent
  PROVE  SyncInv'
<1> DEFINE h == Head(todo)
           R == Actual(h)
<1>1. /\ stage = "data" /\ snap # NoRow /\ todo # <<>> /\ Verified(h)
      /\ todo' = Tail(todo) /\ WritePage(R) /\ taken' = taken
      /\ UNCHANGED <<changes, inventory, attempt, transfer, polls, lacking>>
      /\ Frame
  BY DEF SpoolContent, Current, WritePage, Frame, database, inventing, posting, receiver
<1>2. h \in Task /\ todo \in Seq(Task)
  BY <1>1, BatchesOf, TailIs
<1>3. R = h.expected /\ R \subseteq Rows /\ \A r \in R : snap[r] = advertised[r] /\ snap[r] # 0
  BY <1>1, <1>2 DEF Verified, Actual, Task
<1> HIDE DEF R
<1>4. /\ PagesOK' /\ AppliedIsWhole' /\ pageCount' \in 0 .. MaxPages
      /\ \A r : <<r, advertised[r]>> \in Sent \/ r \in R => (<<r, advertised[r]>> \in Sent)'
  BY <1>1, <1>3, OnePageMore
<1>5. /\ todo' \in Seq(Task)
      /\ \A i \in 1 .. Len(todo') : \E j \in 1 .. Len(todo) : todo'[i] = todo[j]
      /\ \A j \in 2 .. Len(todo) : j - 1 \in 1 .. Len(todo') /\ todo'[j - 1] = todo[j]
      /\ 1 \in 1 .. Len(todo) /\ h = todo[1]
  BY <1>1, <1>2, TailIs
<1> USE DEF Frame
<1> HIDE DEF h
<1>6. ASSUME NEW r, Settled(r) PROVE Settled(r)'
  <2>1. CASE <<r, advertised[r]>> \in Sent
    BY <1>4, <2>1 DEF Settled
  <2>2. CASE Vanished(r)
    BY <1>1, <2>2 DEF Settled, Vanished
  <2>3. CASE \E i \in 1 .. Len(todo) : r \in todo[i].expected
    <3>1. PICK i \in 1 .. Len(todo) : r \in todo[i].expected
      BY <2>3
    <3>2. CASE i = 1
      BY <1>3, <1>4, <1>5, <3>1, <3>2 DEF Settled
    <3>3. CASE i # 1
      <4>1. i \in 2 .. Len(todo)
        BY <3>3
      <4>2. i - 1 \in 1 .. Len(todo') /\ r \in todo'[i - 1].expected
        BY <1>5, <3>1, <4>1
      <4> QED BY <4>2 DEF Settled
    <3> QED BY <3>2, <3>3
  <2> QED BY <1>6, <2>1, <2>2, <2>3 DEF Settled
<1>7. BatchesOK'
  <2>1. ASSUME NEW i \in 1 .. Len(todo') PROVE BatchOK(todo[i])'
    <3>1. \A j \in 1 .. Len(todo) : BatchOK(todo[j])
      BY <1>1, BatchesOf
    <3>2. BatchOK(todo'[i])
      BY <1>5, <2>1, <3>1
    <3> QED BY <1>1, <3>2 DEF BatchOK, Vanished
  <2>2. taken' \subseteq requested'
    BY <1>1 DEF SyncInv, BatchesOK
  <2>3. \A r \in taken' : Settled(r)' /\ (r \in Matches' => \A e \in Ends(r)' : Settled(e)')
    <3>1. \A r \in taken : Settled(r) /\ (r \in Matches => \A e \in Ends(r) : Settled(e))
      BY <1>1 DEF SyncInv, BatchesOK
    <3> QED BY <1>1, <1>6, <3>1
  <2> QED BY <2>1, <2>2, <2>3 DEF BatchesOK
<1>8. SyncTypeOK'
  <2>1. taken' \subseteq Rows
    BY <1>1 DEF SyncInv, SyncTypeOK
  <2> QED BY <1>1, <1>4, <1>5, <2>1, SpoolTypes
<1>9. OrderOK' /\ SendOK'
  BY <1>1, SpoolOrder
<1> QED BY <1>4, <1>7, <1>8, <1>9 DEF SyncInv

LEMMA SyncSpoolEmpty ==
  ASSUME SyncInv, SpoolEmpty
  PROVE  SyncInv'
<1>1. /\ stage = "data" /\ snap # NoRow /\ todo = <<>>
      /\ todo' = todo /\ WritePage({}) /\ taken' = taken
      /\ UNCHANGED <<changes, inventory, attempt, transfer, polls, lacking>>
      /\ Frame
  BY DEF SpoolEmpty, Spooled, WritePage, Frame, database, inventing, posting, receiver
<1>2. /\ PagesOK' /\ AppliedIsWhole' /\ pageCount' \in 0 .. MaxPages
      /\ \A r : <<r, advertised[r]>> \in Sent => (<<r, advertised[r]>> \in Sent)'
  <2>1. {} \subseteq Rows /\ \A r \in {} : snap[r] = advertised[r] /\ snap[r] # 0
    OBVIOUS
  <2> QED BY <1>1, <2>1, OnePageMore
<1> USE DEF Frame
<1>3. ASSUME NEW r, Settled(r) PROVE Settled(r)'
  BY <1>1, <1>2, <1>3 DEF Settled, Vanished
<1>4. BatchesOK'
  <2>1. Len(todo') = 0
    BY <1>1
  <2>2. taken' \subseteq requested'
    BY <1>1 DEF SyncInv, BatchesOK
  <2>3. \A r \in taken' : Settled(r)' /\ (r \in Matches' => \A e \in Ends(r)' : Settled(e)')
    <3>1. \A r \in taken : Settled(r) /\ (r \in Matches => \A e \in Ends(r) : Settled(e))
      BY <1>1 DEF SyncInv, BatchesOK
    <3> QED BY <1>1, <1>3, <3>1
  <2> QED BY <2>1, <2>2, <2>3 DEF BatchesOK
<1>5. SyncTypeOK'
  <2>1. taken' \subseteq Rows /\ todo' \in Seq(Task)
    BY <1>1, BatchesOf DEF SyncInv, SyncTypeOK
  <2> QED BY <1>1, <1>2, <2>1, SpoolTypes
<1>6. OrderOK' /\ SendOK'
  BY <1>1, SpoolOrder
<1> QED BY <1>2, <1>4, <1>5, <1>6 DEF SyncInv

\* Once nothing waits and no batch is left, what was asked for is in a page or gone.
LEMMA AllSettled ==
  ASSUME SyncInv, Spooled, NEW r \in requested
  PROVE  <<r, advertised[r]>> \in Sent \/ Vanished(r)
<1>1. /\ stage = "data" /\ Len(todo) = 0 /\ Waiting = {}
      /\ \A x \in taken : Settled(x) /\ (x \in Matches => \A e \in Ends(x) : Settled(e))
      /\ requested \subseteq Rows
  BY DEF Spooled, SyncInv, BatchesOK, SyncTypeOK
<1>2. /\ requested \cap Matches \subseteq taken
      /\ Extra("lost") \subseteq taken /\ Extra("auction") \subseteq taken
  BY <1>1 DEF Waiting
<1>3. Settled(r)
  <2>1. CASE r \in Matches
    BY <1>1, <1>2, <2>1
  <2>2. CASE r \in Entities
    <3>1. CASE \E m \in requested \cap Matches : r \in Ends(m)
      BY <1>1, <1>2, <3>1
    <3>2. CASE ~\E m \in requested \cap Matches : r \in Ends(m)
      <4>1. r[1] \in {"lost", "auction"}
        BY <2>2, KindsApart
      <4>2. r \in Extra("lost") \/ r \in Extra("auction")
        BY <2>2, <3>2, <4>1 DEF Extra
      <4> QED BY <1>1, <1>2, <4>2
    <3> QED BY <3>1, <3>2
  <2> QED BY <1>1, <2>1, <2>2 DEF Rows
<1> QED BY <1>1, <1>3 DEF Settled

LEMMA SyncCloseData ==
  ASSUME SyncInv, CloseData
  PROVE  SyncInv'
<1> USE DEF CloseData, database, inventing, spooling, posting, receiver
<1>1. /\ stage = "data" /\ stage' \in {"send", "terminal"} /\ page = 1 /\ pages # <<>>
      /\ snap' = NoRow /\ NoRow' = NoRow /\ NoRow \in [Rows -> Nat] /\ Rows' = Rows
      /\ got = {} /\ state = "open" /\ pages \in Seq(SUBSET (Rows \X Nat))
  BY DEF SyncInv, OrderOK, PagesOK, Spooled, NoRow
<1>2. SyncTypeOK' /\ PagesOK'
  BY <1>1 DEF SyncInv, SyncTypeOK, PagesOK, Over
<1>3. OrderOK' /\ BatchesOK'
  BY <1>1 DEF OrderOK, BatchesOK
<1>4. SendOK'
  <2>1. 1 \in 1 .. Len(pages) /\ 1 .. (1 - 1) = {}
    BY <1>1
  <2> QED BY <1>1, <2>1 DEF SendOK
<1>5. AppliedIsWhole'
  <2>1. SentIsAdvertised'
    BY DEF SyncInv, AppliedIsWhole, SentIsAdvertised, Sent
  <2>2. \A r \in requested : <<r, advertised[r]>> \in Sent \/ Vanished(r)
    BY AllSettled
  <2>3. SentOrGone'
    BY <2>2 DEF SentOrGone, Vanished, Sent
  <2> QED BY <1>1, <2>1, <2>3 DEF AppliedIsWhole
<1> QED BY <1>2, <1>3, <1>4, <1>5 DEF SyncInv

LEMMA SyncPostData ==
  ASSUME SyncInv, PostData
  PROVE  SyncInv'
<1> USE DEF PostData, database, inventing, spooling
<1>1. /\ stage = "send" /\ stage' \in {"send", "ok", "apply"} /\ Take /\ transfer' = transfer + 1
      /\ page \in 1 .. Len(pages) /\ page' \in 1 .. Len(pages)
            /\ (stage' = "send" => page' = page + 1)
      /\ Len(pages) \in Nat
  <2>1. page \in 1 .. Len(pages) /\ Len(pages) \in Nat
    BY DEF SyncInv, SendOK, PagesOK
  <2> QED BY <2>1 DEF Debit
<1>2. /\ got' \subseteq 1 .. Len(pages) /\ lacking' = lacking
      /\ state' \in {"open", "applying", "complete", "superseded", "failed"}
      /\ 1 .. page \subseteq got' /\ got' \subseteq 1 .. page
      /\ state' # "open" => got' = 1 .. Len(pages)
  BY <1>1, Takes
<1>3. transfer' \in 0 .. MaxTransfer /\ attempt' \in 1 .. PageRetries /\ page' \in Nat \ {0}
  BY <1>1, SyncAssumption DEF SyncInv, SyncTypeOK, Debit
<1>4. SyncTypeOK' /\ PagesOK'
  <2>1. snap = NoRow /\ snap' = NoRow /\ NoRow' = NoRow /\ Rows' = Rows
    BY DEF SyncInv, SyncTypeOK, NoRow
  <2>2. got' \subseteq 1 .. Len(pages') /\ lacking' \subseteq Rows
    BY <1>2 DEF SyncInv, SyncTypeOK
  <2> QED BY <1>1, <1>2, <1>3, <2>1, <2>2 DEF SyncInv, SyncTypeOK, PagesOK, Over
<1>5. OrderOK' /\ BatchesOK'
  <2>1. snap' = NoRow'
    BY DEF SyncInv, SyncTypeOK, NoRow
  <2> QED BY <1>1, <2>1 DEF OrderOK, BatchesOK
<1>6. SendOK'
  <2>1. ASSUME stage' = "send" PROVE 1 .. (page' - 1) \subseteq got' /\ got' \subseteq 1 .. page'
    <3>1. page' = page + 1 /\ page \in Nat
      BY <1>1, <2>1
    <3>2. page' - 1 = page /\ 1 .. page \subseteq 1 .. page'
      BY <3>1
    <3> QED BY <1>2, <3>2
  <2> QED BY <1>1, <2>1 DEF SendOK
<1>7. AppliedIsWhole'
  <2>1. SentIsAdvertised' /\ SentOrGone'
    BY <1>1 DEF SyncInv, AppliedIsWhole, SentIsAdvertised, SentOrGone, Sent
  <2> QED BY <1>2, <2>1 DEF AppliedIsWhole
<1> QED BY <1>4, <1>5, <1>6, <1>7 DEF SyncInv

LEMMA SyncPoll ==
  ASSUME SyncInv, PollStatus
  PROVE  SyncInv'
<1> USE DEF PollStatus, database, inventing, spooling, posting, receiver
<1>1. stage = "apply" /\ stage' \in {"apply", "ok", "terminal"} /\ polls' \in 0 .. PollCount
  BY SyncAssumption DEF SyncInv, SyncTypeOK, Polled
<1>2. snap = NoRow /\ snap' = NoRow /\ NoRow' = NoRow /\ Rows' = Rows
  BY <1>1 DEF SyncInv, SyncTypeOK, NoRow
<1>3. SyncTypeOK' /\ PagesOK'
  BY <1>1, <1>2 DEF SyncInv, SyncTypeOK, PagesOK, Over
<1>4. OrderOK' /\ BatchesOK' /\ SendOK'
  BY <1>1, <1>2 DEF OrderOK, BatchesOK, SendOK
<1>5. AppliedIsWhole'
  BY <1>1 DEF SyncInv, AppliedIsWhole, SentIsAdvertised, SentOrGone, Sent
<1> QED BY <1>3, <1>4, <1>5 DEF SyncInv

\* The receiver ends what it has begun, and a step of nobody.
LEMMA SyncApplied ==
  ASSUME SyncInv, Applied \/ UNCHANGED syncVars
  PROVE  SyncInv'
<1>1. /\ UNCHANGED <<db, changes, snap, stage, inventory, advertised, requested, todo, taken, pages,
                     pageCount, page, attempt, transfer, polls, lacking, got>>
      /\ \/ state' = state
         \/ state = "applying" /\ state' \in {"complete", "superseded", "failed"}
  BY DEF Applied, syncVars, database, inventing, spooling, posting, receiver
<1>2. Rows' = Rows /\ NoRow' = NoRow
  BY DEF NoRow
<1>3. SyncTypeOK' /\ PagesOK'
  BY <1>1, <1>2 DEF SyncInv, SyncTypeOK, PagesOK
<1>4. OrderOK' /\ SendOK'
  BY <1>1, <1>2 DEF SyncInv, OrderOK, SendOK
<1>5. BatchesOK'
  <2>1. ASSUME NEW r PROVE Settled(r) => Settled(r)'
    BY <1>1 DEF Settled, Sent, Vanished
  <2>2. ASSUME NEW i \in 1 .. Len(todo), BatchOK(todo[i]) PROVE BatchOK(todo[i])'
    <3>1. todo' = todo
      BY <1>1
    <3> QED BY <1>1, <2>2, <3>1 DEF BatchOK, Vanished
  <2> QED BY <1>1, <2>1, <2>2 DEF SyncInv, BatchesOK
<1>6. AppliedIsWhole'
  BY <1>1 DEF SyncInv, AppliedIsWhole, SentIsAdvertised, SentOrGone, Sent
<1> QED BY <1>3, <1>4, <1>5, <1>6 DEF SyncInv

LEMMA SyncSteps == SyncInv /\ [SyncNext]_syncVars => SyncInv'
<1> SUFFICES ASSUME SyncInv, [SyncNext]_syncVars PROVE SyncInv'
  OBVIOUS
<1>1. CASE OpenSnapshot
  BY <1>1, SyncOpen
<1>2. CASE SpoolFails \/ OutOfBudget \/ ContentChanged \/ WorkerAlarm
  BY <1>2, SyncErrors
<1>3. CASE SpoolInventory
  BY <1>3, SyncInventory
<1>4. CASE CloseInventory
  BY <1>4, SyncCloseInventory
<1>5. CASE PostFails \/ PostRefused
  BY <1>5, SyncPostFails
<1>6. CASE PostInventory
  BY <1>6, SyncPostInventory
<1>7. CASE NextBatch
  BY <1>7, SyncNextBatch
<1>8. CASE SplitPairs
  BY <1>8, SyncSplitPairs
<1>9. CASE FetchPairs
  BY <1>9, SyncFetchPairs
<1>10. CASE SplitContent
  BY <1>10, SyncSplitContent
<1>11. CASE SpoolContent
  BY <1>11, SyncSpoolContent
<1>12. CASE SpoolEmpty
  BY <1>12, SyncSpoolEmpty
<1>13. CASE CloseData
  BY <1>13, SyncCloseData
<1>14. CASE PostData
  BY <1>14, SyncPostData
<1>15. CASE PollStatus
  BY <1>15, SyncPoll
<1>16. CASE Change
  BY <1>16, SyncChange
<1>17. CASE Applied \/ UNCHANGED syncVars
  BY <1>17, SyncApplied
<1> QED
  BY <1>1, <1>2, <1>3, <1>4, <1>5, <1>6, <1>7, <1>8, <1>9, <1>10, <1>11, <1>12, <1>13, <1>14,
     <1>15, <1>16, <1>17 DEF SyncNext, Sender

LEMMA SyncInvariant == SyncSpec => []SyncInv
<1>1. SyncInit => SyncInv
  BY SyncStarts
<1>2. SyncInv /\ [SyncNext]_syncVars => SyncInv'
  BY SyncSteps
<1> QED BY <1>1, <1>2, PTL DEF SyncSpec

\* However rows change between the snapshots, batches are split, pages are retried and answers
\* lost, what the receiver applies is whole (sync_data.py, sync_inventory.py, delivery.py).
THEOREM SyncAppliedIsWhole == SyncSpec => []AppliedIsWhole
<1>1. SyncInv => AppliedIsWhole
  BY DEF SyncInv
<1> QED BY <1>1, SyncInvariant, PTL

\* Attempts stay within PAGE_RETRIES, transfers and pages within their budgets.
THEOREM SyncTypes == SyncSpec => []SyncTypeOK
<1>1. SyncInv => SyncTypeOK
  BY DEF SyncInv
<1> QED BY <1>1, SyncInvariant, PTL

-----------------------------------------------------------------------------
(* The operation.                                                          *)

outcome == IF stage \in Over THEN stage ELSE "running"
applied == state \in {"complete", "superseded"}

\* What is over stays over, what is applied stays applied, and the sender ends with success
\* only then.
LEMMA SyncEnds ==
  ASSUME SyncInv, [SyncNext]_syncVars
  PROVE  /\ stage \in Over => stage' = stage
         /\ applied => applied'
         /\ stage' = "ok" /\ stage # "ok" => applied'
<1> USE DEF database, inventing, spooling, posting, receiver
<1>1. CASE OpenSnapshot \/ SpoolInventory \/ CloseInventory
  BY <1>1 DEF OpenSnapshot, SpoolInventory, CloseInventory, Over, applied
<1>2. CASE SpoolFails \/ OutOfBudget \/ ContentChanged \/ WorkerAlarm
  BY <1>2 DEF SpoolFails, OutOfBudget, ContentChanged, WorkerAlarm, Current, Raise, Over, applied
<1>3. CASE PostFails \/ PostRefused
  BY <1>3 DEF PostFails, PostRefused, Retry, MayTake, Take, Over, applied
<1>4. CASE PostInventory
  BY <1>4 DEF PostInventory, Over, applied
<1>5. CASE NextBatch \/ SplitPairs \/ FetchPairs \/ SplitContent \/ SpoolContent \/ SpoolEmpty
  BY <1>5 DEF NextBatch, SplitPairs, FetchPairs, SplitContent, SpoolContent, SpoolEmpty, WritePage,
              Spooled, Current, Over, applied
<1>6. CASE CloseData
  BY <1>6 DEF CloseData, Spooled, Over, applied
<1>7. CASE PostData
  BY <1>7 DEF PostData, Take, Over, applied
<1>8. CASE PollStatus
  BY <1>8 DEF PollStatus, Polled, Over, applied
<1>9. CASE Change \/ Applied \/ UNCHANGED syncVars
  BY <1>9 DEF Change, Applied, syncVars, Over, applied
<1> QED
  BY <1>1, <1>2, <1>3, <1>4, <1>5, <1>6, <1>7, <1>8, <1>9 DEF SyncNext, Sender

\* Every step of the sender, the receiver and the database is a step of SyncOperation, or leaves
\* its outcome alone: one outcome, and success only for what the receiver has applied.
THEOREM SyncImplementsOperation ==
  SyncSpec => Operation!Init /\ [][Operation!Next]_<<outcome, applied>>
<1>1. SyncInit => Operation!Init
  BY DEF SyncInit, Operation!Init, Over
<1>2. SyncInv /\ [SyncNext]_syncVars => [Operation!Next]_<<outcome, applied>>
  <2> SUFFICES ASSUME SyncInv, [SyncNext]_syncVars PROVE [Operation!Next]_<<outcome, applied>>
    OBVIOUS
  <2>1. /\ stage \in Over => stage' = stage
        /\ applied => applied'
        /\ stage' = "ok" /\ stage # "ok" => applied'
    BY SyncEnds
  <2>2. applied \in BOOLEAN /\ applied' \in BOOLEAN
    BY DEF applied
  <2>3. CASE stage \in Over \/ stage' \notin Over
    <3>1. outcome' = outcome
      BY <2>1, <2>3 DEF outcome
    <3>2. CASE applied' = applied
      BY <3>1, <3>2
    <3>3. CASE applied' # applied
      <4>1. ~applied /\ applied' = TRUE
        BY <2>1, <2>2, <3>3
      <4> QED BY <3>1, <4>1 DEF Operation!Next, Operation!Apply, outcome, applied
    <3> QED BY <3>2, <3>3
  <2>4. CASE stage \notin Over /\ stage' \in Over
    <3>1. applied' \in {applied, TRUE}
      BY <2>1, <2>2
    <3>2. outcome = "running" /\ outcome' \in {"ok", "transient", "terminal", "deadline"}
      BY <2>4 DEF outcome, Over
    <3>3. outcome' = "ok" => applied'
      BY <2>1, <2>4 DEF outcome, Over
    <3> QED BY <3>1, <3>2, <3>3 DEF Operation!Next, Operation!Finish, outcome, applied
  <2> QED BY <2>3, <2>4
<1> QED BY <1>1, <1>2, SyncInvariant, PTL DEF SyncSpec
=============================================================================
