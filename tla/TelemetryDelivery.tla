------------------------- MODULE TelemetryDelivery -------------------------
(***************************************************************************)
(* The telemetry daemon (telemetry/daemon.py), the workers it runs          *)
(* (cli.py, delivery.py), the ledger of daily attempts (database.py) and    *)
(* the workspaces of the workers (sync_workspace.py).                       *)
(*                                                                         *)
(* The daemon has one worker at a time, "child"; an operator may run        *)
(* another one by hand in the same container, "manual".  A worker's         *)
(* synchronization is one step here (TelemetrySync models it), whose answer *)
(* may be lost: the receiver may have what the worker takes for failed.     *)
(* A worker's age is what the SIGALRM of cli.py and the parent's limit tell *)
(* apart; the alarm may never be acted upon (a blocked call).  A worker may  *)
(* be killed alone, and a container crash ends all processes; both keep      *)
(* ledger and workspaces.                                                   *)
(***************************************************************************)
EXTENDS Integers, FiniteSets

CONSTANTS
  LastDate,      \* UTC dates are 0..LastDate
  MaxTransient,  \* STARTUP_MAX_TRANSIENT_FAILURES
  MaxStarts      \* bound: starts of the container

ASSUME DeliveryAssumption ==
  /\ LastDate \in Nat /\ MaxTransient \in Nat \ {0} /\ MaxStarts \in Nat

Slots  == {"child", "manual"}
Dates  == 0 .. LastDate
NoDate == -1
\* exit codes: 0, TERMINAL 78, NOOP 79, TRANSIENT 75 or a signal, DEADLINE 124
Codes  == {"ok", "terminal", "noop", "transient", "deadline"}
Configs == {"malformed", "disabled", "invalid", "valid"}

VARIABLES
  \* --- the environment: UTC date, configuration of this container, its starts
  today, config, starts,
  \* --- the daemon
  pc, startupPending, failures, lastDaily, health,
  \* --- the workers: pc, trigger, date, outcome to record or exit with, age, alarm spent
  work,
  \* --- workspaces: the one of each worker, and what is left without an owner: by a child
  \*     since the last scavenger, or ("other") by a worker run by hand, or not removed
  spool, stale,
  \* --- the ledger, and what the receiver has
  rows, delivered,
  \* --- history: operations delivered per claim, startup attempts of this daemon
  sends, startupRuns

env     == <<config, starts>>
daemon  == <<pc, startupPending, failures, lastDaily, health>>
spools  == <<spool, stale>>
ledger  == <<rows, delivered, sends>>
vars    == <<today, env, daemon, work, spools, ledger, startupRuns>>

NoWork == [pc |-> "none", trigger |-> "daily", date |-> NoDate, out |-> "ok",
           age |-> "young", rung |-> FALSE]

Alive(s) == work[s].pc \notin {"none", "exited"}
Up       == pc # "off"

Init ==
  /\ today = 0 /\ config = "valid" /\ starts = 0
  /\ pc = "off" /\ startupPending = TRUE /\ failures = 0 /\ lastDaily = NoDate
  /\ health = "starting"
  /\ work = [s \in Slots |-> NoWork]
  /\ spool = [s \in Slots |-> "none"] /\ stale = {}
  /\ rows = [d \in Dates |-> "none"] /\ delivered = {}
  /\ sends = [d \in Dates |-> 0]
  /\ startupRuns = 0

-----------------------------------------------------------------------------
(* Workspaces.  A directory is made ("open"), its lock file is opened        *)
(* ("opened") and locked ("locked").  The scavenger removes every directory   *)
(* whose lock it gets.  Without its lock file ("bare") a directory is nobody's *)
(* for the next scavenger, whatever its owner holds; "lost" and "gone" have    *)
(* been removed before and after their owner opened the lock file.            *)

Spools == {"none", "open", "opened", "locked", "bare", "lost", "gone"}

\* What a scavenger makes of a workspace: a removal may fail before the lock file, after it, or
\* not at all.  An owner that opens the lock file after its removal has made a new one.
Scavenged(s) == CASE spool[s] = "open"   -> {"open", "lost"}
                  [] spool[s] = "opened" -> {"opened", "bare", "gone"}
                  [] spool[s] = "bare"   -> {"bare", "gone"}
                  [] OTHER               -> {spool[s]}

Unremoved == IF stale = {} THEN {{}} ELSE {{}, {"other"}}

CleanSpools ==
  /\ stale' \in Unremoved
  /\ spool' \in [Slots -> Spools]
  /\ \A s \in Slots : spool'[s] \in Scavenged(s)

\* Workers die and leave their workspaces behind.
Leaves(s) == spool[s] \in {"open", "opened", "locked", "bare"}
Abandon(S) ==
  /\ spool' = [s \in Slots |-> IF s \in S THEN "none" ELSE spool[s]]
  /\ stale' = stale \cup {IF s = "child" THEN s ELSE "other" : s \in {t \in S : Leaves(t)}}

-----------------------------------------------------------------------------
(* The daemon. *)

\* What the daemon kept in memory is gone.
Gone ==
  /\ pc' = "off" /\ startupPending' = TRUE /\ failures' = 0 /\ lastDaily' = NoDate
  /\ startupRuns' = 0
  /\ work' = [s \in Slots |-> NoWork]

StartDaemon ==
  /\ pc = "off" /\ starts < MaxStarts
  /\ starts' = starts + 1
  /\ config' \in Configs
  /\ pc' = "announce" /\ health' = "starting"
  /\ CleanSpools
  /\ UNCHANGED <<today, startupPending, failures, lastDaily, work, ledger, startupRuns>>

\* The first iteration finds the setting changed from None; a malformed one ends the daemon.
Announce ==
  /\ pc = "announce"
  /\ \/ config = "malformed" /\ health' = "unhealthy" /\ Gone /\ Abandon(Slots)
     \/ /\ config # "malformed"
        /\ health' = IF config = "disabled" THEN "disabled" ELSE "running"
        /\ pc' = "launch"
        /\ UNCHANGED <<startupPending, failures, lastDaily, work, spools, startupRuns>>
  /\ UNCHANGED <<today, env, ledger>>

\* The limit of the parent is past: it will end the worker whatever becomes of it.
FindOverdue ==
  /\ pc = "poll"
  /\ Alive("child") /\ work["child"].age = "overdue"
  /\ pc' = "terminate"
  /\ UNCHANGED <<today, env, startupPending, failures, lastDaily, health, work, spools,
                 ledger, startupRuns>>

\* A startup attempt failed and may be repeated: back off, unless the budget is spent.
StartupFailed(next) ==
  /\ failures' = failures + 1
  /\ IF failures + 1 >= MaxTransient
       THEN startupPending' = FALSE /\ health' = "unhealthy" /\ pc' = next
       ELSE startupPending' = startupPending /\ health' = "degraded" /\ pc' = "backoff"

Reap(code) ==
  /\ work' = [work EXCEPT !["child"] = NoWork]
  /\ CleanSpools
  /\ IF work["child"].trigger = "startup"
       THEN \/ /\ code = "ok"
               /\ startupPending' = FALSE /\ failures' = 0 /\ health' = "healthy"
               /\ pc' = "launch"
            \/ /\ code = "terminal"
               /\ startupPending' = FALSE /\ health' = "unhealthy" /\ pc' = "launch"
               /\ UNCHANGED failures
            \/ code \notin {"ok", "terminal"} /\ StartupFailed("launch")
       ELSE /\ health' = CASE code = "ok" -> "healthy" [] code = "noop" -> health
                           [] OTHER -> "unhealthy"
            /\ pc' = "launch"
            /\ UNCHANGED <<startupPending, failures>>
  /\ UNCHANGED <<today, env, lastDaily, ledger, startupRuns>>

\* SIGTERM ends a Python worker that has not exited by itself, SIGKILL any other.
Terminate ==
  /\ pc = "terminate"
  /\ IF Alive("child")
       THEN /\ work' = [work EXCEPT !["child"] = [NoWork EXCEPT !.pc = "exited", !.out = "deadline",
                                                            !.trigger = work["child"].trigger]]
            /\ Abandon({"child"})
       ELSE work' = [work EXCEPT !["child"].out = "deadline"] /\ UNCHANGED spools
  /\ pc' = "reap"
  /\ UNCHANGED <<today, env, startupPending, failures, lastDaily, health, ledger, startupRuns>>

ReapChild ==
  /\ pc \in {"poll", "reap"}
  /\ work["child"].pc = "exited"
  /\ Reap(work["child"].out)

\* The mutant waits for its worker as long as it takes.
PollPatient ==
  /\ pc = "poll"
  /\ work["child"].pc # "exited"
  /\ pc' = "launch"
  /\ UNCHANGED <<today, env, startupPending, failures, lastDaily, health, work, spools,
                 ledger, startupRuns>>

Poll ==
  /\ pc = "poll"
  /\ work["child"].pc # "exited"
  /\ ~(Alive("child") /\ work["child"].age = "overdue")
  /\ pc' = "launch"
  /\ UNCHANGED <<today, env, startupPending, failures, lastDaily, health, work, spools,
                 ledger, startupRuns>>

Trigger == IF startupPending THEN "startup" ELSE "daily"
Due     == /\ config # "disabled" /\ work["child"].pc = "none"
           /\ startupPending \/ today # lastDaily

NothingDue ==
  /\ pc = "launch" /\ ~Due
  /\ pc' = "poll"
  /\ UNCHANGED <<today, env, startupPending, failures, lastDaily, health, work, spools,
                 ledger, startupRuns>>

\* A worker that runs does not end the report of a failure.
ReportLaunch == IF health = "unhealthy" THEN health ELSE "running"

LaunchWorker ==
  /\ pc = "launch" /\ Due
  /\ CleanSpools
  /\ work' = [work EXCEPT !["child"] = [NoWork EXCEPT !.pc = "settings", !.trigger = Trigger]]
  /\ health' = ReportLaunch
  /\ lastDaily' = IF Trigger = "daily" THEN today ELSE lastDaily
  /\ startupRuns' = startupRuns + (IF Trigger = "startup" THEN 1 ELSE 0)
  /\ pc' = "poll"
  /\ UNCHANGED <<today, env, startupPending, failures, ledger>>

LaunchFails ==
  /\ pc = "launch" /\ Due
  /\ CleanSpools
  /\ IF startupPending
       THEN StartupFailed("poll") /\ UNCHANGED lastDaily
       ELSE /\ lastDaily' = today /\ health' = "unhealthy" /\ pc' = "poll"
            /\ UNCHANGED <<startupPending, failures>>
  /\ UNCHANGED <<today, env, work, ledger, startupRuns>>

BackedOff ==
  /\ pc = "backoff"
  /\ pc' = "poll"
  /\ UNCHANGED <<today, env, startupPending, failures, lastDaily, health, work, spools,
                 ledger, startupRuns>>

\* A request to stop is obeyed at the head of the loop.  The child and its workspace end
\* first; the container ends with its first process, and with it a worker run by hand, which
\* may leave a workspace behind.
Shutdown ==
  /\ pc \in {"announce", "poll"}
  /\ Gone
  /\ spool' = [s \in Slots |-> "none"]
  /\ \/ stale' \in Unremoved
     \/ Alive("manual") /\ stale' = {"other"}
  /\ health' = "stopping"
  /\ UNCHANGED <<today, env, ledger>>

Crash ==
  /\ Up
  /\ Gone
  /\ Abandon(Slots)
  /\ UNCHANGED <<today, env, health, ledger>>

-----------------------------------------------------------------------------
(* A worker: _run_one_shot with the deadline of its alarm. *)

Goto(s, p)      == work' = [work EXCEPT ![s].pc = p]
\* Nobody in the model waits for the code of a worker run by hand.
Exited(s, code) ==
  IF s = "manual" THEN NoWork
  ELSE [NoWork EXCEPT !.pc = "exited", !.trigger = work[s].trigger, !.out = code]
Exit(s, code)   == work' = [work EXCEPT ![s] = Exited(s, code)]
\* A daily operation that has ended, well or not, is recorded; a startup one is not.
Ended(s, code)  ==
  IF work[s].trigger = "daily"
    THEN work' = [work EXCEPT ![s].pc = "record", ![s].out = code]
    ELSE Exit(s, code)

\* docker exec: python -m telemetry.telemetry --trigger daily
RunByHand ==
  /\ Up /\ work["manual"].pc = "none"
  /\ work' = [work EXCEPT !["manual"].pc = "settings"]
  /\ UNCHANGED <<today, env, daemon, spools, ledger, startupRuns>>

Settings(s) ==
  /\ work[s].pc = "settings"
  /\ IF config # "valid"
       THEN Exit(s, "terminal")
       ELSE work' = [work EXCEPT ![s].date = today,
                                 ![s].pc = IF work[s].trigger = "daily" THEN "claim" ELSE "collect"]
  /\ UNCHANGED <<today, env, daemon, spools, ledger, startupRuns>>

\* The mutant takes over a claim that was never answered.
ClaimStarted(s) ==
  /\ work[s].pc = "claim"
  /\ IF rows[work[s].date] \in {"none", "started"}
       THEN rows' = [rows EXCEPT ![work[s].date] = "started"] /\ Goto(s, "collect")
       ELSE Exit(s, "noop") /\ UNCHANGED rows
  /\ UNCHANGED <<today, env, daemon, spools, delivered, sends, startupRuns>>

\* INSERT ... ON CONFLICT DO NOTHING, one transaction
Claim(s) ==
  /\ work[s].pc = "claim"
  /\ IF rows[work[s].date] = "none"
       THEN rows' = [rows EXCEPT ![work[s].date] = "started"] /\ Goto(s, "collect")
       ELSE Exit(s, "noop") /\ UNCHANGED rows
  /\ UNCHANGED <<today, env, daemon, spools, delivered, sends, startupRuns>>

\* The database fails, or its answer to the commit is lost.
ClaimFails(s) ==
  /\ work[s].pc = "claim"
  /\ Exit(s, "transient")
  /\ \/ UNCHANGED rows
     \/ rows[work[s].date] = "none" /\ rows' = [rows EXCEPT ![work[s].date] = "started"]
  /\ UNCHANGED <<today, env, daemon, spools, delivered, sends, startupRuns>>

\* The non-database part of the summary is collected, or fails; then the workspace is made.
Collect(s) ==
  /\ work[s].pc = "collect"
  /\ \/ /\ Goto(s, "open") /\ spool' = [spool EXCEPT ![s] = "open"]
     \/ /\ \E code \in {"transient", "terminal"} : Ended(s, code)
        /\ UNCHANGED spool
  /\ UNCHANGED <<today, env, daemon, stale, ledger, startupRuns>>

\* A workspace lost before its lock file was opened: an OSError, which is no transient failure.
Open(s) ==
  /\ work[s].pc = "open"
  /\ IF spool[s] = "open"
       THEN Goto(s, "lock") /\ spool' = [spool EXCEPT ![s] = "opened"]
       ELSE Ended(s, "terminal") /\ spool' = [spool EXCEPT ![s] = "none"]
  /\ UNCHANGED <<today, env, daemon, stale, ledger, startupRuns>>

\* flock succeeds on the opened file, whether or not that file still has a name.
Lock(s) ==
  /\ work[s].pc = "lock"
  /\ Goto(s, "deliver")
  /\ spool' = [spool EXCEPT ![s] = IF @ = "opened" THEN "locked" ELSE @]
  /\ UNCHANGED <<today, env, daemon, stale, ledger, startupRuns>>

Received(s) ==
  IF work[s].trigger = "daily"
    THEN /\ delivered' = delivered \cup {work[s].date}
         /\ sends' = [sends EXCEPT ![work[s].date] = @ + 1]
    ELSE UNCHANGED <<delivered, sends>>

\* The operation ends: with success, or with a failure the receiver may not share.  A workspace
\* that goes late may have served its purpose.
Deliver(s) ==
  /\ work[s].pc = "deliver"
  /\ \/ Received(s) /\ \E code \in {"ok", "transient", "terminal"} : Ended(s, code)
     \/ /\ \E code \in {"transient", "terminal"} : Ended(s, code)
        /\ UNCHANGED <<delivered, sends>>
  /\ spool' = [spool EXCEPT ![s] = "none"]
  /\ UNCHANGED <<today, env, daemon, stale, rows, startupRuns>>

\* The mutant records every daily attempt as sent.
AnswerSent(out) == "sent"

Answer(out) == IF out = "ok" THEN "sent" ELSE "failed"

\* Recorded, or not (then the exit asks for reconciliation), or recorded and not answered.
Record(s) ==
  /\ work[s].pc = "record"
  /\ LET out    == work[s].out
         status == [rows EXCEPT ![work[s].date] = Answer(out)]
         unsure == IF out = "deadline" THEN out ELSE "transient"
     IN \/ rows' = status /\ Exit(s, out)
        \/ rows' \in {rows, status} /\ Exit(s, unsure)
  /\ UNCHANGED <<today, env, daemon, spools, delivered, sends, startupRuns>>

\* The time of a worker run by hand is not counted: nothing depends on it.
Age(s) ==
  /\ Alive(s) /\ work[s].age # "overdue"
  /\ work' = [work EXCEPT ![s].age = IF @ = "young" THEN "alarm" ELSE "overdue"]
  /\ UNCHANGED <<today, env, daemon, spools, ledger, startupRuns>>

\* TelemetryDeadlineExceeded unwinds the worker from wherever it is: a claim may stay without
\* an answer, an operation of a claimed date is recorded as failed, a record may be cut short.
Alarm(s) ==
  /\ Alive(s) /\ work[s].age # "young" /\ ~work[s].rung
  /\ LET w == [work[s] EXCEPT !.rung = TRUE, !.out = "deadline"]
         d == w.date
     IN \/ /\ w.pc \in {"collect", "open", "lock", "deliver"} /\ w.trigger = "daily"
           /\ work' = [work EXCEPT ![s] = [w EXCEPT !.pc = "record"]]
           /\ UNCHANGED rows
           /\ \/ w.pc = "deliver" /\ Received(s)
              \/ UNCHANGED <<delivered, sends>>
        \/ /\ Exit(s, "deadline")
           /\ \/ UNCHANGED rows
              \/ w.pc = "claim" /\ rows[d] = "none" /\ rows' = [rows EXCEPT ![d] = "started"]
              \/ w.pc = "record" /\ rows' = [rows EXCEPT ![d] = Answer(work[s].out)]
           /\ w.pc \in {"collect", "open", "lock", "deliver"} => w.trigger = "startup"
           /\ UNCHANGED <<delivered, sends>>
  /\ spool' = [spool EXCEPT ![s] = "none"]
  /\ UNCHANGED <<today, env, daemon, stale, startupRuns>>

\* A worker dies alone (a signal, out of memory); the daemon finds an exit code of no meaning.
Kill(s) ==
  /\ Alive(s)
  /\ Exit(s, "transient") /\ Abandon({s})
  /\ UNCHANGED <<today, env, daemon, ledger, startupRuns>>

NextDay ==
  /\ today < LastDate
  /\ today' = today + 1
  /\ UNCHANGED <<env, daemon, work, spools, ledger, startupRuns>>

WorkerStep(s) == \/ Settings(s) \/ Claim(s) \/ ClaimFails(s) \/ Collect(s) \/ Open(s)
                 \/ Lock(s) \/ Deliver(s) \/ Record(s) \/ Alarm(s) \/ Kill(s)

DaemonStep == \/ Announce \/ FindOverdue \/ Terminate \/ ReapChild \/ Poll \/ NothingDue
              \/ LaunchWorker \/ LaunchFails \/ BackedOff

Next == \/ StartDaemon \/ DaemonStep \/ Shutdown \/ Crash \/ RunByHand
        \/ \E s \in Slots : WorkerStep(s)
        \/ Age("child") \/ NextDay

\* The daemon's loop runs on, and time passes for its worker; nothing else is promised, the
\* worker's own progress and its alarm included.
Fairness == WF_vars(DaemonStep) /\ WF_vars(Age("child"))

Spec     == Init /\ [][Next]_vars
FairSpec == Spec /\ Fairness

-----------------------------------------------------------------------------
(* Properties. *)

TypeOK ==
  /\ today \in Dates /\ config \in Configs /\ starts \in 0 .. MaxStarts
  /\ pc \in {"off", "announce", "poll", "terminate", "reap", "launch", "backoff"}
  /\ startupPending \in BOOLEAN /\ failures \in 0 .. MaxTransient
  /\ lastDaily \in Dates \cup {NoDate}
  /\ health \in {"starting", "running", "disabled", "healthy", "degraded", "unhealthy", "stopping"}
  /\ work \in [Slots -> [pc : {"none", "settings", "claim", "collect", "open", "lock", "deliver",
                                "record", "exited"},
                          trigger : {"startup", "daily"}, date : Dates \cup {NoDate},
                          out : Codes, age : {"young", "alarm", "overdue"}, rung : BOOLEAN]]
  /\ spool \in [Slots -> Spools] /\ stale \subseteq {"child", "other"}
  /\ rows \in [Dates -> {"none", "started", "sent", "failed"}] /\ delivered \subseteq Dates
  /\ sends \in [Dates -> Nat] /\ startupRuns \in Nat

\* However often the container crashes or is restarted, whoever runs a worker beside the daemon
\* and whatever answer is lost, the receiver gets at most one daily operation for a UTC date
\* (delivery.py:22, "at most one telemetry delivery per UTC day").
OnePerDay == \A d \in Dates : sends[d] <= 1

\* A daemon makes at most STARTUP_MAX_TRANSIENT_FAILURES startup attempts, and none any more
\* once it has gone over to the daily ones (daemon.py:128-175, 232-262).
StartupBounded ==
  /\ startupRuns <= MaxTransient
  /\ pc # "off" /\ lastDaily # NoDate =>
       ~startupPending /\ (work["child"].pc # "none" => work["child"].trigger = "daily")

\* The daemon's own worker always has its workspace and delivers under its lock, although it is
\* made, opened and locked in three steps beside a scavenger that gets every free lock; and it
\* never lives beside the workspace of a dead worker of the daemon that no scavenger has tried
\* to remove.  Only what could not be removed, or what a worker run by hand left, is beside it
\* (sync_workspace.py:26-66, daemon.py:81-90, 197-203).
WorkspacesKept ==
  /\ LET w == work["child"]
     IN spool["child"] = CASE w.pc = "open" -> "open" [] w.pc = "lock" -> "opened"
                           [] w.pc = "deliver" -> "locked" [] OTHER -> "none"
  /\ Alive("child") => "child" \notin stale

\* The three together: no attempt is made once too often, by the daemon, by hand or after a
\* crash, and none works on files that are another's (delivery.py:22, daemon.py:128,
\* sync_workspace.py:28).
DeliverySafe == OnePerDay /\ StartupBounded /\ WorkspacesKept

\* The ledger keeps what DailyAttempt promises: a claim is for ever, at most one operation is
\* delivered under it, and "sent" is written only for a date that was delivered.
Ledger == INSTANCE DailyAttempt
LedgerKept == Ledger!Spec

\* An enabled daemon that is left running turns to the daily work of the current date, even when
\* every worker hangs and ignores its alarm (the limit of daemon.py:71-85 ends it).
DailyComesUp ==
  \A d \in Dates : (Up /\ config = "valid" /\ today = d)
                      ~> (lastDaily = d \/ today # d \/ ~Up)
=============================================================================
