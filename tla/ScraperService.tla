--------------------------- MODULE ScraperService ---------------------------
(***************************************************************************)
(* The scraper container: supervisord keeps the dashboard and the scheduler *)
(* running and ends the container when one of them becomes FATAL            *)
(* (supervisord.conf, supervisor_events.py); the scheduler cleans up and    *)
(* starts a batch of scrapers at every trigger (scheduler.py); the threads  *)
(* of the dashboard start workers by hand, at most MaxOutstanding at a      *)
(* time (process_launcher.py).                                              *)
(***************************************************************************)
EXTENDS Integers, FiniteSets

CONSTANTS
  Thread,          \* threads of the dashboard that serve requests
  Request,         \* identifiers of launch requests
  Pid,             \* process numbers, of batches and of workers started by hand
  MaxOutstanding,  \* _DEFAULT_MAX_OUTSTANDING
  Interval,        \* SCRAPER_INTERVAL
  StartRetries,    \* startretries of supervisord.conf
  MaxTime,         \* bound: the clock
  MaxFaults        \* bound: crashes, failed starts, failed waits

ASSUME ServiceAssumption ==
  /\ {MaxOutstanding, Interval} \subseteq Nat \ {0}
  /\ {StartRetries, MaxTime, MaxFaults} \subseteq Nat
  /\ IsFiniteSet(Request) /\ IsFiniteSet(Pid)
  /\ Pid \subseteq Nat \ {0}

Program == {"dashboard", "scheduler"}
NoPid   == 0
Idle    == [at |-> "idle"]

VARIABLES
  now, faults,
  \* --- supervisord: the programs, starts that failed in a row, the container
  program, tries, container,
  \* --- the processes that run
  alive,
  \* --- the scheduler: where it is, its next trigger, the time it has read, its child processes
  \*     that are not reaped
  scheduler, next, seen, children,
  \* --- history of this scheduler: the last trigger that led to a batch, those whose batch
  \*     could not be started
  served, missed,
  \* --- the dashboard: its threads, reserved places with their process, watched requests
  thread, place, watched,
  \* --- history of this dashboard: its workers that run, those it has failed to wait for
  workers, unwatched

supervisor == <<program, tries, container>>
triggers   == <<served, missed>>
schedule   == <<scheduler, next, seen, children, triggers>>
launcher   == <<place, watched>>
started    == <<workers, unwatched>>
vars == <<now, faults, supervisor, alive, schedule, thread, launcher, started>>

Up(p)   == program[p] \in {"starting", "running"}
Fault   == faults < MaxFaults /\ faults' = faults + 1
NoPlace == [r \in {} |-> NoPid]
Without(r) == [x \in DOMAIN place \ {r} |-> place[x]]

Init ==
  /\ now = 0 /\ faults = 0 /\ alive = {}
  /\ program = [p \in Program |-> "starting"] /\ tries = [p \in Program |-> 0] /\ container = "up"
  /\ scheduler = "off" /\ next = 0 /\ seen = 0 /\ children = {}
  /\ served = -1 /\ missed = {}
  /\ thread = [t \in Thread |-> Idle] /\ place = NoPlace /\ watched = {}
  /\ workers = {} /\ unwatched = {}

Tick ==
  /\ now < MaxTime /\ now' = now + 1
  /\ UNCHANGED <<faults, supervisor, alive, schedule, thread, launcher, started>>

\* A worker or batch ends; who waits for it finds out later.
ProcessEnds(p) ==
  /\ p \in alive /\ alive' = alive \ {p}
  /\ workers' = workers \ {p} /\ unwatched' = unwatched \ {p}
  /\ UNCHANGED <<now, faults, supervisor, schedule, thread, launcher>>

\* A pid nobody holds: a process that has ended keeps its own until it is waited for.
Held == alive \cup children \cup {place[r] : r \in DOMAIN place}
          \cup {thread[t].pid : t \in {u \in Thread : "pid" \in DOMAIN thread[u]}}
FreePid == Pid \ Held

-----------------------------------------------------------------------------
(* supervisord.  A program that ends leaves its children behind. *)

NoSchedule ==
  /\ scheduler' = "off" /\ next' = 0 /\ seen' = 0 /\ children' = {}
  /\ served' = -1 /\ missed' = {}

NoLauncher ==
  /\ thread' = [t \in Thread |-> Idle] /\ place' = NoPlace /\ watched' = {}
  /\ workers' = {} /\ unwatched' = {}

Forget(p) ==
  IF p = "scheduler"
    THEN NoSchedule /\ UNCHANGED <<thread, launcher, started>>
    ELSE NoLauncher /\ UNCHANGED schedule

\* It has run for startsecs.
Started(p) ==
  /\ program[p] = "starting" /\ container = "up"
  /\ program' = [program EXCEPT ![p] = "running"] /\ tries' = [tries EXCEPT ![p] = 0]
  /\ UNCHANGED <<now, faults, container, alive, schedule, thread, launcher, started>>

Exits(p) ==
  /\ Up(p) /\ container = "up" /\ Fault
  /\ IF program[p] = "running"
       THEN program' = [program EXCEPT ![p] = "starting"] /\ UNCHANGED tries
       ELSE /\ tries' = [tries EXCEPT ![p] = @ + 1]
            /\ program' = [program EXCEPT ![p] = IF tries[p] < StartRetries THEN "backoff"
                                                                          ELSE "fatal"]
  /\ Forget(p)
  /\ UNCHANGED <<now, container, alive>>

Restart(p) ==
  /\ program[p] = "backoff" /\ container = "up"
  /\ program' = [program EXCEPT ![p] = "starting"]
  /\ UNCHANGED <<now, faults, tries, container, alive, schedule, thread, launcher, started>>

\* handle_event: the end of the event listener itself is not heard.
Essential(p) == p \in {"dashboard", "scheduler"}

FatalEvent(p) ==
  /\ program[p] = "fatal" /\ Essential(p) /\ container = "up"
  /\ container' = "stopping"
  /\ UNCHANGED <<now, faults, program, tries, alive, schedule, thread, launcher, started>>

StopRequest ==
  /\ container = "up" /\ container' = "stopping"
  /\ UNCHANGED <<now, faults, program, tries, alive, schedule, thread, launcher, started>>

\* The groups of both programs end, at the latest when they are killed; the rest goes with the
\* container.
ContainerEnds ==
  /\ container = "stopping" /\ container' = "down"
  /\ program' = [p \in Program |-> "stopped"] /\ alive' = {}
  /\ NoSchedule /\ NoLauncher
  /\ UNCHANGED <<now, faults, tries>>

-----------------------------------------------------------------------------
(* The scheduler. *)

Scheduling == Up("scheduler") /\ container # "down"
Reaped == children \cap alive
SchedulerOnly == UNCHANGED <<now, supervisor, thread, launcher, started>>

Boot ==
  /\ Scheduling /\ scheduler = "off"
  /\ scheduler' = "loop" /\ next' = now
  /\ UNCHANGED <<seen, triggers, children, faults, alive>> /\ SchedulerOnly

\* One round of the loop at a trigger: the cleanup is started, or cannot be.
Trigger ==
  /\ Scheduling /\ scheduler = "loop" /\ container = "up" /\ now >= next
  /\ seen' = now /\ children' = Reaped
  /\ \/ scheduler' = "cleanup" /\ UNCHANGED faults
     \/ scheduler' = "submit" /\ Fault
  /\ UNCHANGED <<next, triggers, alive>> /\ SchedulerOnly

\* next_trigger_after, from the time read before the cleanup.
NextAfter(previous, at) ==
  CHOOSE n \in {previous + k * Interval : k \in 1 .. MaxTime + 1} :
    n > at /\ n - Interval <= IF at > previous THEN at ELSE previous

\* It ends, with any exit code: batches are started all the same.  The mutant gives the interval
\* up when the cleanup has failed.
CleanupMustSucceed ==
  \/ scheduler' = "submit" /\ UNCHANGED next
  \/ scheduler' = "loop" /\ next' = NextAfter(next, seen)
CleanupEnded == scheduler' = "submit" /\ UNCHANGED next

CleanupEnds ==
  /\ Scheduling /\ scheduler = "cleanup"
  /\ CleanupEnded
  /\ UNCHANGED <<seen, triggers, children, faults, alive>> /\ SchedulerOnly

\* _submit_batch: a batch that cannot be started is logged, and its interval given up.
Submit ==
  /\ Scheduling /\ scheduler = "submit"
  /\ \/ \E p \in FreePid :
          /\ alive' = alive \cup {p} /\ children' = Reaped \cup {p}
          /\ served' = next /\ UNCHANGED <<missed, faults>>
     \/ /\ Fault \/ (FreePid = {} /\ UNCHANGED faults)
        /\ children' = Reaped /\ missed' = missed \cup {next}
        /\ UNCHANGED <<served, alive>>
  /\ next' = NextAfter(next, seen) /\ scheduler' = "loop" /\ seen' = 0
  /\ SchedulerOnly

-----------------------------------------------------------------------------
(* The dashboard: starting a worker. *)

Serving(t) == Up("dashboard") /\ container # "down"
Goto(t, where) == thread' = [thread EXCEPT ![t] = where]
LauncherOnly == UNCHANGED <<now, supervisor, schedule>>

\* Requests no place, thread or watcher has.
FreeRequest == Request \ (DOMAIN place \cup watched
                 \cup {thread[t].request : t \in {u \in Thread : "request" \in DOMAIN thread[u]}})

\* A place is reserved before the process exists.
Reserve(r) == place' = [x \in DOMAIN place \cup {r} |-> IF x = r THEN NoPid ELSE place[x]]

Launch(t, r) ==
  /\ Serving(t) /\ thread[t] = Idle /\ r \in FreeRequest
  /\ Cardinality(DOMAIN place) < MaxOutstanding
  /\ Reserve(r)
  /\ Goto(t, [at |-> "spawn", request |-> r])
  /\ UNCHANGED <<watched, faults, alive, started>> /\ LauncherOnly

\* Popen fails: the place is given back.  The mutant forgets to.
KeepPlace(r) == UNCHANGED place
GiveBack(r) == place' = Without(r)

SpawnFails(t) ==
  /\ Serving(t) /\ thread[t].at = "spawn" /\ (Fault \/ (FreePid = {} /\ UNCHANGED faults))
  /\ GiveBack(thread[t].request)
  /\ Goto(t, Idle)
  /\ UNCHANGED <<watched, alive, started>> /\ LauncherOnly

Spawn(t) ==
  /\ Serving(t) /\ thread[t].at = "spawn"
  /\ \E p \in FreePid :
       /\ alive' = alive \cup {p} /\ workers' = workers \cup {p}
       /\ place' = [x \in DOMAIN place \cup {thread[t].request} |->
                      IF x = thread[t].request THEN p ELSE place[x]]
       /\ Goto(t, [at |-> "watch", request |-> thread[t].request, pid |-> p])
  /\ UNCHANGED <<watched, faults, unwatched>> /\ LauncherOnly

Watch(t) ==
  /\ Serving(t) /\ thread[t].at = "watch"
  /\ watched' = watched \cup {thread[t].request}
  /\ Goto(t, Idle)
  /\ UNCHANGED <<place, faults, alive, started>> /\ LauncherOnly

\* No thread to watch it: the place is free at once, the process is terminated and waited for.
WatchFails(t) ==
  /\ Serving(t) /\ thread[t].at = "watch" /\ Fault
  /\ place' = Without(thread[t].request)
  /\ Goto(t, [at |-> "kill", pid |-> thread[t].pid])
  /\ UNCHANGED <<watched, alive, started>> /\ LauncherOnly

Killed(t) ==
  /\ Serving(t) /\ thread[t].at = "kill"
  /\ alive' = alive \ {thread[t].pid} /\ workers' = workers \ {thread[t].pid}
  /\ Goto(t, Idle)
  /\ UNCHANGED <<launcher, faults, unwatched>> /\ LauncherOnly

\* _wait_and_forget: the process has ended, or it cannot be waited for and may run on.
Forgotten(r) ==
  /\ Up("dashboard") /\ container # "down" /\ r \in watched
  /\ (place[r] \notin alive /\ UNCHANGED faults) \/ Fault
  /\ place' = Without(r) /\ watched' = watched \ {r}
  /\ unwatched' = unwatched \cup ({place[r]} \cap alive)
  /\ UNCHANGED <<thread, alive, workers>> /\ LauncherOnly

-----------------------------------------------------------------------------
Supervise == \E p \in Program : Started(p) \/ Restart(p) \/ FatalEvent(p)
Schedule  == Boot \/ Trigger \/ CleanupEnds \/ Submit
Serve(t)  == \/ SpawnFails(t) \/ Spawn(t) \/ Watch(t) \/ WatchFails(t) \/ Killed(t)

Next ==
  \/ Tick \/ StopRequest \/ Schedule \/ Supervise \/ ContainerEnds
  \/ \E p \in Pid : ProcessEnds(p)
  \/ \E p \in Program : Exits(p)
  \/ \E t \in Thread : \/ Serve(t)
                       \/ \E r \in Request : Launch(t, r)
  \/ \E r \in Request : Forgotten(r)

Spec == Init /\ [][Next]_vars

\* Every process ends, the cleanup too; supervisord and the scheduler run; the dashboard's
\* threads finish what they began.
FairSpec ==
  /\ Spec /\ WF_vars(Schedule) /\ WF_vars(Supervise) /\ WF_vars(ContainerEnds)
  /\ \A p \in Pid : WF_vars(ProcessEnds(p))
  /\ \A t \in Thread : WF_vars(Serve(t))
  /\ \A r \in Request : WF_vars(Forgotten(r))

-----------------------------------------------------------------------------
(* Properties *)

Doing == {Idle} \cup [at : {"spawn"}, request : Request]
           \cup [at : {"watch"}, request : Request, pid : Pid] \cup [at : {"kill"}, pid : Pid]

\* The type invariant.
TypeOK ==
  /\ now \in 0 .. MaxTime /\ faults \in 0 .. MaxFaults /\ alive \subseteq Pid
  /\ program \in [Program -> {"starting", "running", "backoff", "fatal", "stopped"}]
  /\ tries \in [Program -> 0 .. StartRetries + 1] /\ container \in {"up", "stopping", "down"}
  /\ scheduler \in {"off", "loop", "cleanup", "submit"} /\ {next, seen} \subseteq Nat
  /\ served \in Nat \cup {-1} /\ missed \subseteq Nat /\ children \subseteq Pid
  /\ thread \in [Thread -> Doing] /\ watched \subseteq Request
  /\ DOMAIN place \subseteq Request /\ place \in [DOMAIN place -> Pid \cup {NoPid}]
  /\ workers \subseteq Pid /\ unwatched \subseteq Pid

\* However launches, failures and ends interleave, there are at most MaxOutstanding places; every
\* worker of this dashboard that runs has one, but for those it could not wait for and those it
\* is terminating; and every place has somebody who will give it back, a thread that starts its
\* worker or a watcher that waits for it (process_launcher.py 63-118, "cannot all pass the
\* limit at once").
Launching   == {t \in Thread : thread[t].at \in {"spawn", "watch"}}
Terminating == {thread[t].pid : t \in {u \in Thread : thread[u].at = "kill"}}
InHand      == watched \cup {thread[t].request : t \in Launching}

PlacesCover ==
  /\ Cardinality(DOMAIN place) <= MaxOutstanding
  /\ \A p \in workers \ (unwatched \cup Terminating) : \E r \in DOMAIN place : place[r] = p
  /\ \A r, q \in DOMAIN place : r # q /\ place[r] \in Pid => place[r] # place[q]
  /\ DOMAIN place = InHand

\* Every trigger the scheduler lives to see has its batch, however the cleanup before it ends and
\* whatever became of earlier batches; only a batch whose own start fails is not tried again
\* (scheduler.py 96-125, "continuing with scrapers").
Due(n) == scheduler = "loop" /\ next = n /\ now >= n
EveryTriggerServed ==
  \A n \in 0 .. MaxTime :
    Due(n) ~> served >= n \/ n \in missed \/ scheduler = "off" \/ container # "up"

=============================================================================
