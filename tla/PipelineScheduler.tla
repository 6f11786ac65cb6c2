------------------------- MODULE PipelineScheduler -------------------------
(***************************************************************************)
(* The scheduler of the matching stages (scripts/run_pipeline_scheduler.py) *)
(* and the processes of the stage it runs.  Each stage is a process group   *)
(* of its own whose members fork, detach, exit and are adopted by the       *)
(* scheduler, a subreaper; when a stage has ended, by itself or by a stop   *)
(* request, the scheduler ends what is left of it before the next stage.    *)
(*                                                                         *)
(* /proc is read as the code reads it: first the list of process ids, then  *)
(* the state of each.  SIGTERM has no effect of its own, since a process may *)
(* exit at any time and may ignore it; time-outs fire whenever they like.   *)
(***************************************************************************)
EXTENDS Integers

CONSTANTS
  Proc,       \* process ids the stages use
  Scheduler,  \* the scheduler's own
  Last        \* number of stages: blocking, matching, and those after them

ASSUME SchedulerAssumption == Scheduler \notin Proc /\ Last \in Nat /\ Last >= 2

Blocking == 1
Matching == 2

VARIABLES
  \* --- the process table: state (none, live, doomed by SIGKILL, zombie), parent, group
  proc,
  \* --- the scheduler
  pc, stop, step, leader, code, failed, blockingSucceeded, skip, baseline,
  seen,      \* process ids the current scan has listed and not read
  found,     \* processes the current scan looks for and has found
  sig,       \* strongest signal of the current clean-up
  raising,   \* the group survived SIGKILL
  health, cycleHealth,
  \* --- history: the candidate artifacts are this cycle's, and whole; a stage failed
  \* and no cycle has succeeded since
  fresh, failing

cycle  == <<step, leader, failed, blockingSucceeded, skip, baseline, cycleHealth>>
scan   == <<seen, found, sig, raising>>
past   == <<fresh, failing>>
vars   == <<proc, pc, stop, code, cycle, scan, health, past>>

NoProcess == [state |-> "none", parent |-> Scheduler, group |-> Scheduler]

Init ==
  /\ proc = [p \in Proc |-> NoProcess]
  /\ pc = "idle" /\ stop = FALSE /\ step = 1 /\ leader = Scheduler /\ code = 0
  /\ failed = FALSE /\ blockingSucceeded = TRUE /\ skip = FALSE /\ baseline = {}
  /\ seen = {} /\ found = {} /\ sig = "no" /\ raising = FALSE
  /\ health = "running" /\ cycleHealth = "running"
  /\ fresh = FALSE /\ failing = FALSE

Present   == {p \in Proc : proc[p].state # "none"}
Active(p) == proc[p].state \in {"live", "doomed"}
Group(g)  == {p \in Present : proc[p].group = g}
Adopted   == {p \in Present : proc[p].parent = Scheduler}

\* A process id is free when no process and no group has it.
FreeIds == {p \in Proc \ Present : Group(p) = {}}

-----------------------------------------------------------------------------
(* The stage's processes.                                                  *)

Fork(p) ==
  /\ proc[p].state = "live"
  /\ \E q \in FreeIds :
       proc' = [proc EXCEPT ![q] = [proc[p] EXCEPT !.parent = p]]
  /\ UNCHANGED <<pc, stop, code, cycle, scan, health, past>>

\* setsid: unless it leads a group.
Detach(p) ==
  /\ proc[p].state = "live" /\ Group(p) = {}
  /\ proc' = [proc EXCEPT ![p].group = p]
  /\ UNCHANGED <<pc, stop, code, cycle, scan, health, past>>

Waited == pc \in {"poll", "term", "kill"}

\* A process ends; the scheduler adopts its children.
Exit(p) ==
  /\ Active(p)
  /\ proc' = [q \in Proc |->
       IF q = p THEN [proc[p] EXCEPT !.state = "zombie"]
       ELSE IF proc[q].parent = p THEN [proc[q] EXCEPT !.parent = Scheduler] ELSE proc[q]]
  /\ IF Waited /\ p = leader
     THEN /\ code' \in IF proc[p].state = "doomed" THEN {1} ELSE {0, 1}
          /\ fresh' = (fresh \/ (step = Blocking /\ code' = 0))
     ELSE UNCHANGED <<code, fresh>>
  /\ UNCHANGED <<pc, stop, cycle, scan, health, failing>>

\* A parent among the stage's processes waits for its child.
Wait(p) ==
  /\ proc[p].state = "zombie" /\ p \notin Adopted /\ proc[proc[p].parent].state = "live"
  /\ proc' = [proc EXCEPT ![p] = NoProcess]
  /\ UNCHANGED <<pc, stop, code, cycle, scan, health, past>>

-----------------------------------------------------------------------------
(* A cycle of stages.                                                      *)

RequestStop ==
  /\ ~stop /\ stop' = TRUE
  /\ UNCHANGED <<proc, pc, code, cycle, scan, health, past>>

\* run_scheduler leaves its loop.
Stopped ==
  /\ pc = "idle" /\ stop
  /\ pc' = "done" /\ health' = "stopping"
  /\ UNCHANGED <<proc, stop, code, cycle, scan, past>>

StartCycle ==
  /\ pc = "idle" /\ ~stop
  /\ pc' = "step" /\ step' = 1 /\ failed' = FALSE /\ blockingSucceeded' = TRUE
  /\ cycleHealth' = (IF health = "unhealthy" THEN "unhealthy" ELSE "running")
  /\ health' = cycleHealth'
  /\ fresh' = FALSE
  /\ UNCHANGED <<proc, stop, code, leader, skip, baseline, scan, failing>>

\* _run_cycle before a stage: the stop request, the environment of matching.
EndEarly ==
  /\ pc = "step" /\ stop
  /\ pc' = "finish"
  /\ UNCHANGED <<proc, stop, code, cycle, scan, health, past>>

\* Mutant: a failure earlier in the cycle is left out of the health of a stage.
PrepareForgets ==
  /\ pc = "step" /\ ~stop
  /\ skip' = (step = Matching /\ ~blockingSucceeded)
  /\ health' = cycleHealth
  /\ baseline' = Adopted
  /\ pc' = "launch"
  /\ UNCHANGED <<proc, stop, code, step, leader, failed, blockingSucceeded, cycleHealth,
                 scan, past>>

Prepare ==
  /\ pc = "step" /\ ~stop
  /\ skip' = (step = Matching /\ ~blockingSucceeded)
  /\ health' = IF failed THEN "unhealthy" ELSE cycleHealth
  /\ baseline' = Adopted
  /\ pc' = "launch"
  /\ UNCHANGED <<proc, stop, code, step, leader, failed, blockingSucceeded, cycleHealth,
                 scan, past>>

\* Popen, with a session of its own; which free id it gets makes no difference.
Launch ==
  /\ pc = "launch" /\ FreeIds # {}
  /\ leader' = CHOOSE p \in FreeIds : TRUE
  /\ proc' = [proc EXCEPT ![leader'] = [state |-> "live", parent |-> Scheduler, group |-> leader']]
  /\ pc' = "poll"
  /\ UNCHANGED <<stop, code, step, failed, blockingSucceeded, skip, baseline, cycleHealth,
                 scan, health, past>>

\* Mutant: a stage that cannot be started counts as run.
LaunchFailsQuietly ==
  /\ pc = "launch"
  /\ code' = 0 /\ pc' = "record"
  /\ UNCHANGED <<proc, stop, cycle, scan, health, past>>

\* Popen raises OSError.
LaunchFails ==
  /\ pc = "launch"
  /\ code' = 1 /\ pc' = "record"
  /\ UNCHANGED <<proc, stop, cycle, scan, health, past>>

Proceed(l) == pc' = l /\ sig' = "no"

\* The process is reaped, by poll or by wait.
Reap ==
  /\ Waited /\ proc[leader].state = "zombie"
  /\ proc' = [proc EXCEPT ![leader] = NoProcess]
  /\ Proceed("group")
  /\ UNCHANGED <<stop, code, cycle, seen, found, raising, health, past>>

\* _stop_process: SIGTERM ...
Terminate ==
  /\ pc = "poll" /\ stop /\ proc[leader].state # "zombie"
  /\ pc' = "term"
  /\ UNCHANGED <<proc, stop, code, cycle, scan, health, past>>

Doomed(P) ==
  [p \in Proc |-> IF p \in P /\ Active(p) THEN [proc[p] EXCEPT !.state = "doomed"] ELSE proc[p]]

\* Mutant: SIGTERM again.
TerminateAgain ==
  /\ pc = "term" /\ proc[leader].state # "zombie"
  /\ pc' = "term"
  /\ UNCHANGED <<proc, stop, code, cycle, scan, health, past>>

\* ... and SIGKILL, to the group.
KillLeader ==
  /\ pc = "term" /\ proc[leader].state # "zombie"
  /\ proc' = Doomed(Group(leader))
  /\ pc' = "kill"
  /\ UNCHANGED <<stop, code, cycle, scan, health, past>>

-----------------------------------------------------------------------------
(* What is left of a stage.                                                *)

\* A scan of /proc lists the process ids ...
List ==
  /\ pc \in {"group", "children"}
  /\ seen' = Present
  /\ pc' = IF pc = "group" THEN "groupStats" ELSE "childStats"
  /\ UNCHANGED <<proc, stop, code, cycle, found, sig, raising, health, past>>

\* Mutant: zombies do not count as children either.
SoughtActive ==
  IF pc = "groupStats" THEN {p \in Group(leader) : Active(p)}
                       ELSE {p \in Adopted : Active(p)} \ baseline

\* ... and reads their states one after the other, for the members of the leader's group
\* that are no zombies, or the scheduler's children that are new.
Sought ==
  IF pc = "groupStats" THEN {p \in Group(leader) : Active(p)} ELSE Adopted \ baseline

Read(p) ==
  /\ p \in seen /\ (pc = "childStats" \/ (pc = "groupStats" /\ found = {}))
  /\ seen' = seen \ {p} /\ found' = found \cup ({p} \cap Sought)
  /\ UNCHANGED <<proc, pc, stop, code, cycle, sig, raising, health, past>>

\* Looking for a group, the scan ends with the first member it finds.
Scanned ==
  /\ seen = {} \/ (pc = "groupStats" /\ found # {})
  /\ seen' = {} /\ found' = {}

Reaped(P, table) ==
  [p \in Proc |-> IF p \in P /\ table[p].state = "zombie" THEN NoProcess ELSE table[p]]

\* _stop_lingering_process_group.
GroupGone ==
  /\ pc = "groupStats" /\ Scanned /\ found = {}
  /\ Proceed("children")
  /\ UNCHANGED <<proc, stop, code, cycle, raising, health, past>>

TerminateGroup ==
  /\ pc = "groupStats" /\ Scanned /\ found # {} /\ sig = "no"
  /\ sig' = "TERM" /\ pc' = "group"
  /\ UNCHANGED <<proc, stop, code, cycle, raising, health, past>>

\* _wait_for_process_group_exit, before and at its deadline.
Waitable == Adopted \cap Group(leader)

AwaitGroup ==
  /\ pc = "groupStats" /\ Scanned /\ found # {} /\ sig # "no"
  /\ proc' = Reaped(Waitable, proc)
  /\ pc' = "group"
  /\ UNCHANGED <<stop, code, cycle, sig, raising, health, past>>

GroupDeadline ==
  /\ pc = "groupStats" /\ Scanned /\ found # {} /\ sig # "no"
  /\ IF sig = "TERM"
     THEN /\ proc' = Reaped(Waitable, Doomed(Group(leader)))
          /\ sig' = "KILL" /\ pc' = "group" /\ UNCHANGED raising
     ELSE /\ proc' = Reaped(Waitable, proc)
          /\ raising' = TRUE /\ Proceed("children")
  /\ UNCHANGED <<stop, code, cycle, health, past>>

\* _stop_new_child_processes.
ChildrenGone ==
  /\ pc = "childStats" /\ Scanned /\ found = {}
  /\ Proceed("record")
  /\ UNCHANGED <<proc, stop, code, cycle, raising, health, past>>

TerminateChildren ==
  /\ pc = "childStats" /\ Scanned /\ found # {} /\ sig = "no"
  /\ sig' = "TERM" /\ pc' = "children"
  /\ UNCHANGED <<proc, stop, code, cycle, raising, health, past>>

\* _signal_and_wait_for_new_children: every round signals and reaps each child.
Struck == IF sig = "KILL" THEN Reaped(found, Doomed(found)) ELSE Reaped(found, proc)

AwaitChildren ==
  /\ pc = "childStats" /\ Scanned /\ found # {} /\ sig # "no"
  /\ proc' = Struck
  /\ pc' = "children"
  /\ UNCHANGED <<stop, code, cycle, sig, raising, health, past>>

ChildrenDeadline ==
  /\ pc = "childStats" /\ Scanned /\ found # {} /\ sig # "no"
  /\ proc' = Struck
  /\ IF sig = "TERM"
     THEN sig' = "KILL" /\ pc' = "children" /\ UNCHANGED raising
     ELSE raising' = TRUE /\ Proceed("record")
  /\ UNCHANGED <<stop, code, cycle, health, past>>

-----------------------------------------------------------------------------
(* The end of a stage, of a cycle and of the scheduler.                    *)

\* RuntimeError leaves run_scheduler and main.
Crash ==
  /\ pc = "record" /\ raising
  /\ pc' = "crashed" /\ health' = "unhealthy"
  /\ UNCHANGED <<proc, stop, code, cycle, scan, past>>

RecordStep ==
  /\ pc = "record" /\ ~raising
  /\ failed' = (failed \/ code # 0) /\ failing' = (failing \/ code # 0)
  /\ health' = IF code # 0 THEN "unhealthy" ELSE health
  /\ blockingSucceeded' = IF step = Blocking THEN code = 0 ELSE blockingSucceeded
  /\ code' = 0
  /\ IF step < Last THEN step' = step + 1 /\ pc' = "step"
                    ELSE UNCHANGED step /\ pc' = "finish"
  /\ UNCHANGED <<proc, stop, leader, skip, baseline, cycleHealth, scan, fresh>>

FinishCycle ==
  /\ pc = "finish"
  /\ pc' = "idle"
  /\ IF stop THEN UNCHANGED <<health, failing>>
     ELSE /\ health' = IF failed THEN "unhealthy" ELSE "healthy"
          /\ failing' = (failing /\ failed)
  /\ UNCHANGED <<proc, stop, code, cycle, scan, fresh>>

\* The container ends with the scheduler and, unless it was stopped, starts again.
Restart ==
  /\ pc = "crashed" /\ ~stop
  /\ proc' = [p \in Proc |-> NoProcess] /\ pc' = "idle"
  /\ seen' = {} /\ found' = {} /\ sig' = "no" /\ raising' = FALSE
  /\ health' = "running" /\ failing' = FALSE
  /\ UNCHANGED <<stop, code, cycle, fresh>>

-----------------------------------------------------------------------------
Work ==
  \/ Stopped \/ StartCycle \/ EndEarly \/ Prepare \/ Launch \/ LaunchFails \/ Reap
  \/ Terminate \/ KillLeader \/ List \/ \E p \in Proc : Read(p)
  \/ GroupGone \/ TerminateGroup \/ AwaitGroup \/ GroupDeadline
  \/ ChildrenGone \/ TerminateChildren \/ AwaitChildren \/ ChildrenDeadline
  \/ Crash \/ RecordStep \/ FinishCycle

Deadline == GroupDeadline \/ ChildrenDeadline

Next ==
  \/ Work \/ RequestStop \/ Restart
  \/ \E p \in Proc : Fork(p) \/ Detach(p) \/ Exit(p) \/ Wait(p)

Spec == Init /\ [][Next]_vars

\* The scheduler runs, its clock reaches its deadlines, and a killed process dies.
FairSpec ==
  /\ Spec /\ WF_vars(Work) /\ SF_vars(Deadline)
  /\ \A p \in Proc : WF_vars(proc[p].state = "doomed" /\ Exit(p))

-----------------------------------------------------------------------------
(* Properties.                                                             *)

Entry == [state : {"none", "live", "doomed", "zombie"},
          parent : Proc \cup {Scheduler}, group : Proc \cup {Scheduler}]

\* The state has its type.
TypeOK ==
  /\ proc \in [Proc -> Entry]
  /\ pc \in {"idle", "step", "launch", "poll", "term", "kill", "group", "groupStats",
             "children", "childStats", "record", "finish", "done", "crashed"}
  /\ stop \in BOOLEAN /\ failed \in BOOLEAN /\ blockingSucceeded \in BOOLEAN
  /\ skip \in BOOLEAN /\ raising \in BOOLEAN /\ fresh \in BOOLEAN /\ failing \in BOOLEAN
  /\ step \in 1..Last /\ leader \in Proc \cup {Scheduler} /\ code \in {0, 1}
  /\ baseline \subseteq Proc /\ seen \subseteq Proc /\ found \subseteq Proc
  /\ sig \in {"no", "TERM", "KILL"}
  /\ health \in {"running", "healthy", "unhealthy", "stopping"}
  /\ cycleHealth \in {"running", "unhealthy"}

\* A stage never runs beside processes of an earlier one, however these forked,
\* detached or were orphaned, and leaves no zombie behind
\* (run_pipeline_scheduler.py:301-304).
Alone == pc \in {"idle", "step", "launch", "finish", "done"} => Present = {}

\* Matching works on the artifacts of a blocking stage of its own cycle that ended
\* with success (run_pipeline_scheduler.py:209-217).
FreshCandidates ==
  pc = "poll" /\ step = Matching /\ ~skip => fresh

\* matching_pipeline/README.md: a failed stage makes the service unhealthy, and only a
\* later fully successful cycle restores health.
HealthRemembers ==
  pc \notin {"done", "crashed"} => (health = "unhealthy" <=> failing)

\* A stop request ends the scheduler, whatever the processes of the stage do.
StopEnds == stop ~> pc \in {"done", "crashed"}

-----------------------------------------------------------------------------
(* The inductive invariant.                                                *)

\* A parent is the scheduler or a process that has not ended, and following parents
\* leads out of every set of processes.
Tree ==
  /\ \A p \in Present : p \notin Adopted => proc[p].parent \in Proc /\ Active(proc[p].parent)
  /\ \A S \in SUBSET Present : S # {} => \E p \in S : proc[p].parent \notin S

\* A scan that found processes found a child of the scheduler.
ScanFindsRoot ==
  pc = "childStats" /\ Present # {} => found \cup (seen \cap Adopted) # {}

Ended == pc = "record" /\ ~raising => Present = {}

Succession ==
  /\ Waited => leader \in Proc
  /\ step # Blocking /\ blockingSucceeded => fresh
  /\ step = Blocking /\ pc \in {"group", "groupStats", "children", "childStats", "record"}
       => (code = 0 => fresh)
  /\ step = Blocking /\ Waited /\ code = 0 /\ proc[leader].state = "zombie" => fresh
  /\ pc \in {"launch", "poll"} /\ step = Matching => (skip <=> ~blockingSucceeded)

Remembered ==
  pc \notin {"idle", "done", "crashed"} =>
    /\ failed => failing
    /\ ~failed => (cycleHealth = "unhealthy" <=> failing)

IInv ==
  /\ TypeOK /\ baseline = {} /\ Tree /\ ScanFindsRoot /\ Ended /\ Alone
  /\ Succession /\ Remembered /\ HealthRemembers
=============================================================================
