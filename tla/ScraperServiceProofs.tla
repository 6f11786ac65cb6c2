------------------------ MODULE ScraperServiceProofs ------------------------
(***************************************************************************)
(* For any numbers of threads, requests, places and processes, the places  *)
(* of the launcher cover the workers of this dashboard.  A request is in    *)
(* the hands of one thread until its worker is watched, and it has its      *)
(* place from before its process exists until it is given up; only then can *)
(* its number be used again.                                                *)
(***************************************************************************)
EXTENDS ScraperService, SourceScraper, FiniteSetTheorems, SequenceTheorems,
        WellFoundedInduction, TLAPS

-----------------------------------------------------------------------------
(* The inductive invariant.                                                *)

\* A program that may be started again has starts left.
TriesOK == \A p \in Program : program[p] \in {"starting", "running", "backoff"} =>
                                tries[p] <= StartRetries

\* The trigger that is served is not in the future of the time that was read.
TriggerOK == /\ seen <= MaxTime
             /\ scheduler \in {"cleanup", "submit"} => next <= seen

\* A request that is being launched has one thread and its place.
LaunchOK(t) ==
  LET r == thread[t].request
  IN  t \in Launching =>
        /\ r \in DOMAIN place \ watched
        /\ place[r] = IF thread[t].at = "watch" THEN thread[t].pid ELSE NoPid
        /\ \A u \in Launching : u # t => thread[u].request # r

\* Places are bounded and in somebody's hands, those of watched requests have their process,
\* and no two have the same.
PlacesOK ==
  /\ Cardinality(DOMAIN place) <= MaxOutstanding
  /\ \A r \in watched : r \in DOMAIN place /\ place[r] \in Pid
  /\ \A t \in Launching : thread[t].request \in DOMAIN place
  /\ \A r, q \in DOMAIN place : r # q /\ place[r] \in Pid => place[r] # place[q]
  /\ DOMAIN place \subseteq InHand

\* A worker that runs has a place, cannot be waited for, or is being terminated.
Covered(p) == p \in unwatched \cup Terminating \/ \E r \in DOMAIN place : place[r] = p
WorkersOK  == workers \subseteq alive /\ \A p \in workers : Covered(p)

IInv ==
  /\ TypeOK /\ TriesOK /\ TriggerOK
  /\ (\A t \in Thread : LaunchOK(t)) /\ PlacesOK /\ WorkersOK
-----------------------------------------------------------------------------
(* Places.                                                                 *)

CoverOK ==
  /\ thread \in [Thread -> Doing] /\ watched \subseteq Request
  /\ DOMAIN place \subseteq Request /\ place \in [DOMAIN place -> Pid \cup {NoPid}]
  /\ (\A t \in Thread : LaunchOK(t)) /\ PlacesOK

LEMMA DoingFacts ==
  /\ \A d \in Doing :
       /\ d.at = "spawn" => d.request \in Request
       /\ d.at = "watch" => d.request \in Request /\ d.pid \in Pid
       /\ d.at = "kill" => d.pid \in Pid
       /\ d.at \in {"idle", "spawn", "watch", "kill"}
  /\ Idle \in Doing /\ Idle.at = "idle"
  /\ \A r \in Request : /\ [at |-> "spawn", request |-> r] \in Doing
                        /\ \A p \in Pid : [at |-> "watch", request |-> r, pid |-> p] \in Doing
  /\ \A p \in Pid : [at |-> "kill", pid |-> p] \in Doing
BY DEF Doing, Idle

LEMMA NoPidIsNone == NoPid \notin Pid
BY ServiceAssumption DEF NoPid

Gone == thread' = [t \in Thread |-> Idle] /\ place' = NoPlace /\ watched' = {}

\* Everybody else leaves the launcher alone, or it is gone with its program.
LEMMA LauncherFrame ==
  ASSUME Next
  PROVE  \/ UNCHANGED <<thread, place, watched>> \/ Gone
         \/ \E t \in Thread : Serve(t) \/ \E r \in Request : Launch(t, r)
         \/ \E r \in Request : Forgotten(r)
<1> USE DEF launcher, Gone
<1>1. CASE Tick \/ StopRequest BY <1>1 DEF Tick, StopRequest
<1>2. CASE Schedule BY <1>2 DEF Schedule, Boot, Trigger, CleanupEnds, Submit, SchedulerOnly
<1>3. CASE Supervise BY <1>3 DEF Supervise, Started, Restart, FatalEvent
<1>4. CASE ContainerEnds BY <1>4 DEF ContainerEnds, NoLauncher
<1>5. CASE \E p \in Pid : ProcessEnds(p) BY <1>5 DEF ProcessEnds
<1>6. ASSUME NEW p \in Program, Exits(p)
      PROVE  UNCHANGED <<thread, place, watched>> \/ Gone
  BY <1>6 DEF Exits, Forget, NoLauncher
<1> QED BY <1>1, <1>2, <1>3, <1>4, <1>5, <1>6 DEF Next

LEMMA CoverGone ==
  ASSUME CoverOK, Gone
  PROVE  CoverOK'
<1>1. thread' = [t \in Thread |-> Idle] /\ place' = NoPlace /\ watched' = {} BY DEF Gone
<1>2. DOMAIN place' = {} /\ place' \in [{} -> Pid \cup {NoPid}] BY <1>1 DEF NoPlace
<1>3. Cardinality(DOMAIN place') <= MaxOutstanding BY <1>2, FS_EmptySet, ServiceAssumption
<1>4. thread' \in [Thread -> Doing] /\ \A t \in Thread : thread'[t].at = "idle"
  BY <1>1, DoingFacts
<1>5. Launching' = {} BY <1>4 DEF Launching
<1>6. DOMAIN place' \subseteq InHand' BY <1>2
<1> QED BY <1>1, <1>2, <1>3, <1>4, <1>5, <1>6 DEF CoverOK, LaunchOK, PlacesOK

LEMMA CoverFrame ==
  ASSUME CoverOK, UNCHANGED <<thread, place, watched>>
  PROVE  CoverOK'
BY DEF CoverOK, LaunchOK, PlacesOK, Launching, InHand

\* A place more, which is nobody's yet.
LEMMA CoverLaunch ==
  ASSUME CoverOK, NEW t \in Thread, NEW r \in Request, Launch(t, r)
  PROVE  CoverOK'
<1> DEFINE d == [at |-> "spawn", request |-> r]
<1>1. /\ thread[t] = Idle /\ r \notin DOMAIN place /\ r \notin watched
      /\ Cardinality(DOMAIN place) < MaxOutstanding
      /\ place' = [x \in DOMAIN place \cup {r} |-> IF x = r THEN NoPid ELSE place[x]]
      /\ thread' = [thread EXCEPT ![t] = d] /\ UNCHANGED watched
  BY DEF Launch, Reserve, Goto, FreeRequest
<1>2. d \in Doing /\ d.at = "spawn" /\ d.request = r BY DoingFacts
<1> HIDE DEF d
<1>3. DOMAIN place' = DOMAIN place \cup {r} BY <1>1
<1>4. \A x \in DOMAIN place' : place'[x] = IF x = r THEN NoPid ELSE place[x] BY <1>1
<1>5. place' \in [DOMAIN place' -> Pid \cup {NoPid}] BY <1>1, <1>3 DEF CoverOK
<1>6. thread' \in [Thread -> Doing] BY <1>1, <1>2 DEF CoverOK
<1>7. \A u \in Thread : thread'[u] = IF u = t THEN d ELSE thread[u] BY <1>1 DEF CoverOK
<1>8. Launching' = Launching \cup {t} BY <1>2, <1>7 DEF Launching
<1>9. t \notin Launching BY <1>1, DoingFacts DEF Launching
<1>10. \A u \in Launching : thread[u].request \in DOMAIN place BY DEF CoverOK, PlacesOK
<1>11. ASSUME NEW u \in Thread PROVE LaunchOK(u)'
  <2>1. CASE u = t
    <3>1. thread'[u].request = r /\ thread'[u].at = "spawn" BY <1>2, <1>7, <2>1
    <3>2. \A v \in Launching' : v # u => thread'[v].request # r BY <1>1, <1>7, <1>8, <1>10, <2>1
    <3> QED BY <1>1, <1>3, <1>4, <3>1, <3>2 DEF LaunchOK
  <2>2. CASE u # t
    <3>1. thread'[u] = thread[u] /\ LaunchOK(u) BY <1>7, <2>2 DEF CoverOK
    <3>2. CASE u \in Launching
      <4>1. thread[u].request \in DOMAIN place \ watched /\ thread[u].request # r
        BY <1>1, <3>1, <3>2 DEF LaunchOK
      <4>2. place'[thread[u].request] = place[thread[u].request] BY <1>3, <1>4, <4>1
      <4>3. \A v \in Launching : v # u => thread[v].request # thread[u].request
        BY <3>1, <3>2 DEF LaunchOK
      <4>4. \A v \in Launching' : v # u => thread'[v].request # thread[u].request
        <5> TAKE v \in Launching'
        <5>1. CASE v = t BY <1>2, <1>7, <4>1, <5>1
        <5>2. CASE v # t
          <6>1. v \in Launching /\ v \in Thread BY <1>8, <5>2 DEF Launching
          <6> QED BY <1>7, <4>3, <5>2, <6>1
        <5> QED BY <5>1, <5>2
      <4> QED BY <1>1, <1>3, <3>1, <3>2, <4>1, <4>2, <4>4 DEF LaunchOK
    <3>3. CASE u \notin Launching BY <1>8, <2>2, <3>3 DEF LaunchOK
    <3> QED BY <3>2, <3>3
  <2> QED BY <2>1, <2>2
<1>12. PlacesOK'
  <2>1. IsFiniteSet(DOMAIN place)
    BY ServiceAssumption, FS_Subset DEF CoverOK
  <2>2. Cardinality(DOMAIN place') <= MaxOutstanding
    <3>1. Cardinality(DOMAIN place') = Cardinality(DOMAIN place) + 1 BY <1>1, <1>3, <2>1, FS_AddElement
    <3>2. Cardinality(DOMAIN place) \in Nat BY <2>1, FS_CardinalityType
    <3> QED BY <1>1, <3>1, <3>2, ServiceAssumption
  <2>3. \A x \in watched' : x \in DOMAIN place' /\ place'[x] \in Pid
    BY <1>1, <1>3, <1>4 DEF CoverOK, PlacesOK
  <2>4. \A u \in Launching' : thread'[u].request \in DOMAIN place'
    <3> TAKE u \in Launching'
    <3>1. CASE u = t BY <1>2, <1>3, <1>7, <3>1
    <3>2. CASE u # t
      <4>1. u \in Launching /\ u \in Thread BY <1>8, <3>2 DEF Launching
      <4> QED BY <1>3, <1>7, <1>10, <3>2, <4>1
    <3> QED BY <3>1, <3>2
  <2>5. \A x, q \in DOMAIN place' : x # q /\ place'[x] \in Pid => place'[x] # place'[q]
    BY <1>3, <1>4, NoPidIsNone DEF CoverOK, PlacesOK
  <2>6. DOMAIN place' \subseteq InHand'
    <3> SUFFICES ASSUME NEW x \in DOMAIN place' PROVE x \in InHand' OBVIOUS
    <3>1. CASE x = r
      <4>1. t \in Launching' /\ thread'[t].request = r BY <1>2, <1>7, <1>8
      <4> QED BY <3>1, <4>1 DEF InHand
    <3>2. CASE x # r
      <4>1. x \in watched \/ \E u \in Launching : thread[u].request = x
        BY <1>3, <3>2 DEF CoverOK, PlacesOK, InHand
      <4>2. \A u \in Launching : u \in Launching' /\ thread'[u] = thread[u]
        BY <1>7, <1>8, <1>9 DEF Launching
      <4> QED BY <1>1, <4>1, <4>2 DEF InHand
    <3> QED BY <3>1, <3>2
  <2> QED BY <2>2, <2>3, <2>4, <2>5, <2>6 DEF PlacesOK
<1> QED BY <1>1, <1>3, <1>5, <1>6, <1>11, <1>12 DEF CoverOK

\* Places are given up, and nobody who is left needs them.
LEMMA CoverLess ==
  ASSUME CoverOK, NEW R,
         place' = [x \in DOMAIN place \ R |-> place[x]],
         thread' \in [Thread -> Doing], Launching' \subseteq Launching,
         \A u \in Launching' : thread'[u] = thread[u] /\ thread[u].request \notin R \cup watched',
         watched' \subseteq DOMAIN place \ R, \A x \in watched' : place[x] \in Pid,
         DOMAIN place \ R \subseteq InHand'
  PROVE  CoverOK'
<1>1. DOMAIN place' = DOMAIN place \ R /\ \A x \in DOMAIN place' : place'[x] = place[x] OBVIOUS
<1>2. place' \in [DOMAIN place' -> Pid \cup {NoPid}] /\ DOMAIN place' \subseteq Request
  BY <1>1 DEF CoverOK
<1>3. ASSUME NEW u \in Thread PROVE LaunchOK(u)'
  <2>1. CASE u \in Launching'
    <3>1. u \in Launching /\ thread'[u] = thread[u] /\ LaunchOK(u) BY <2>1 DEF CoverOK
    <3>2. /\ thread[u].request \in DOMAIN place \ watched
          /\ place[thread[u].request] = IF thread[u].at = "watch" THEN thread[u].pid ELSE NoPid
          /\ \A v \in Launching : v # u => thread[v].request # thread[u].request
      BY <3>1 DEF LaunchOK
    <3>3. thread[u].request \in DOMAIN place' \ watched' BY <1>1, <2>1, <3>2
    <3>4. \A v \in Launching' : v # u => thread'[v].request # thread[u].request BY <3>2
    <3> QED BY <1>1, <3>1, <3>2, <3>3, <3>4 DEF LaunchOK
  <2>2. CASE u \notin Launching' BY <2>2 DEF LaunchOK
  <2> QED BY <2>1, <2>2
<1>4. PlacesOK'
  <2>1. IsFiniteSet(DOMAIN place) BY ServiceAssumption, FS_Subset DEF CoverOK
  <2>2. Cardinality(DOMAIN place') <= MaxOutstanding
    <3>1. IsFiniteSet(DOMAIN place') /\ Cardinality(DOMAIN place') <= Cardinality(DOMAIN place)
      BY <1>1, <2>1, FS_Subset
    <3>2. Cardinality(DOMAIN place) \in Nat /\ Cardinality(DOMAIN place') \in Nat
      BY <2>1, <3>1, FS_CardinalityType
    <3>3. Cardinality(DOMAIN place) <= MaxOutstanding BY DEF CoverOK, PlacesOK
    <3> QED BY <3>1, <3>2, <3>3, ServiceAssumption
  <2>3. \A x \in watched' : x \in DOMAIN place' /\ place'[x] \in Pid BY <1>1
  <2>4. \A u \in Launching' : thread'[u].request \in DOMAIN place' BY <1>1 DEF CoverOK, PlacesOK
  <2>5. \A x, q \in DOMAIN place' : x # q /\ place'[x] \in Pid => place'[x] # place'[q]
    BY <1>1 DEF CoverOK, PlacesOK
  <2> QED BY <1>1, <2>2, <2>3, <2>4, <2>5 DEF PlacesOK
<1>5. watched' \subseteq Request BY DEF CoverOK
<1> QED BY <1>2, <1>3, <1>4, <1>5 DEF CoverOK

\* What a thread does next, when it is no longer launching.
LEMMA ThreadLeaves ==
  ASSUME CoverOK, NEW t \in Thread, NEW d \in Doing, d.at \notin {"spawn", "watch"},
         thread' = [thread EXCEPT ![t] = d]
  PROVE  /\ thread' \in [Thread -> Doing] /\ Launching' \subseteq Launching
         /\ \A u \in Launching' : u # t /\ thread'[u] = thread[u]
         /\ \A x \in InHand : x \in watched' \/ (t \in Launching /\ x = thread[t].request)
                                \/ x \in InHand' \/ x \in watched \ watched'
<1>1. thread' \in [Thread -> Doing] BY DEF CoverOK
<1>2. \A u \in Thread : thread'[u] = IF u = t THEN d ELSE thread[u] BY DEF CoverOK
<1>3. \A u \in Launching' : u \in Thread /\ thread'[u].at \in {"spawn", "watch"} BY DEF Launching
<1>4. \A u \in Launching' : u # t /\ thread'[u] = thread[u] BY <1>2, <1>3
<1>5. Launching' \subseteq Launching BY <1>3, <1>4 DEF Launching
<1>6. \A u \in Launching : u = t \/ (u \in Launching' /\ thread'[u] = thread[u])
  BY <1>2 DEF Launching
<1>7. \A x \in InHand : x \in watched' \/ (t \in Launching /\ x = thread[t].request)
                          \/ x \in InHand' \/ x \in watched \ watched'
  BY <1>6 DEF InHand
<1> QED BY <1>1, <1>4, <1>5, <1>7

LEMMA CoverServe ==
  ASSUME CoverOK, NEW t \in Thread, Serve(t), ~Spawn(t)
  PROVE  CoverOK'
<1> DEFINE r == thread[t].request
<1>0. /\ LaunchOK(t) /\ thread[t] \in Doing
      /\ \A x \in watched : x \in DOMAIN place /\ place[x] \in Pid
      /\ \A u \in Launching : LaunchOK(u) /\ thread[u].request \notin watched
      /\ Without(r) = [x \in DOMAIN place \ {r} |-> place[x]]
      /\ place = [x \in DOMAIN place \ {} |-> place[x]]
      /\ DOMAIN place \subseteq InHand /\ watched' \subseteq InHand'
  BY DEF CoverOK, PlacesOK, LaunchOK, Launching, Without, InHand
<1>1. CASE SpawnFails(t)
  <2>1. /\ thread[t].at = "spawn" /\ place' = Without(r) /\ UNCHANGED watched
        /\ thread' = [thread EXCEPT ![t] = Idle]
    BY <1>1 DEF SpawnFails, GiveBack, Goto
  <2>2. t \in Launching BY <2>1 DEF Launching
  <2>3. /\ thread' \in [Thread -> Doing] /\ Launching' \subseteq Launching
        /\ \A u \in Launching' : u # t /\ thread'[u] = thread[u]
        /\ \A x \in InHand : x \in watched' \/ (t \in Launching /\ x = thread[t].request)
                               \/ x \in InHand' \/ x \in watched \ watched'
    BY <2>1, ThreadLeaves, DoingFacts
  <2>4. r \notin watched /\ \A u \in Launching : u # t => thread[u].request # r
    BY <1>0, <2>2 DEF LaunchOK
  <2> HIDE DEF r
  <2>5. place' = [x \in DOMAIN place \ {r} |-> place[x]] BY <1>0, <2>1
  <2>6. \A u \in Launching' : thread'[u] = thread[u] /\ thread[u].request \notin {r} \cup watched'
    BY <1>0, <2>1, <2>3, <2>4
  <2>7. watched' \subseteq DOMAIN place \ {r} /\ \A x \in watched' : place[x] \in Pid
    BY <1>0, <2>1, <2>4
  <2>8. DOMAIN place \ {r} \subseteq InHand' BY <1>0, <2>1, <2>3 DEF r
  <2> QED BY <2>3, <2>5, <2>6, <2>7, <2>8, CoverLess
<1>2. CASE Watch(t)
  <2>1. /\ thread[t].at = "watch" /\ watched' = watched \cup {r} /\ UNCHANGED place
        /\ thread' = [thread EXCEPT ![t] = Idle]
    BY <1>2 DEF Watch, Goto
  <2>2. t \in Launching BY <2>1 DEF Launching
  <2>3. /\ thread' \in [Thread -> Doing] /\ Launching' \subseteq Launching
        /\ \A u \in Launching' : u # t /\ thread'[u] = thread[u]
        /\ \A x \in InHand : x \in watched' \/ (t \in Launching /\ x = thread[t].request)
                               \/ x \in InHand' \/ x \in watched \ watched'
    BY <2>1, ThreadLeaves, DoingFacts
  <2>4. r \in DOMAIN place /\ place[r] \in Pid /\ \A u \in Launching : u # t => thread[u].request # r
    BY <1>0, <2>1, <2>2, DoingFacts DEF LaunchOK
  <2> HIDE DEF r
  <2>5. \A u \in Launching' : thread'[u] = thread[u] /\ thread[u].request \notin {} \cup watched'
    BY <1>0, <2>1, <2>3, <2>4
  <2>6. watched' \subseteq DOMAIN place \ {} /\ \A x \in watched' : place[x] \in Pid
    BY <1>0, <2>1, <2>4
  <2>7. place' = [x \in DOMAIN place \ {} |-> place[x]] BY <1>0, <2>1
  <2>8. DOMAIN place \ {} \subseteq InHand' BY <1>0, <2>1, <2>3 DEF r
  <2> QED BY <2>3, <2>5, <2>6, <2>7, <2>8, CoverLess
<1>3. CASE WatchFails(t)
  <2>1. /\ thread[t].at = "watch" /\ place' = Without(r) /\ UNCHANGED watched
        /\ thread' = [thread EXCEPT ![t] = [at |-> "kill", pid |-> thread[t].pid]]
    BY <1>3 DEF WatchFails, Goto
  <2>2. t \in Launching /\ [at |-> "kill", pid |-> thread[t].pid] \in Doing
    BY <1>0, <2>1, DoingFacts DEF Launching
  <2>3. /\ thread' \in [Thread -> Doing] /\ Launching' \subseteq Launching
        /\ \A u \in Launching' : u # t /\ thread'[u] = thread[u]
        /\ \A x \in InHand : x \in watched' \/ (t \in Launching /\ x = thread[t].request)
                               \/ x \in InHand' \/ x \in watched \ watched'
    BY <2>1, <2>2, ThreadLeaves
  <2>4. r \notin watched /\ \A u \in Launching : u # t => thread[u].request # r
    BY <1>0, <2>2 DEF LaunchOK
  <2> HIDE DEF r
  <2>5. place' = [x \in DOMAIN place \ {r} |-> place[x]] BY <1>0, <2>1
  <2>6. \A u \in Launching' : thread'[u] = thread[u] /\ thread[u].request \notin {r} \cup watched'
    BY <1>0, <2>1, <2>3, <2>4
  <2>7. watched' \subseteq DOMAIN place \ {r} /\ \A x \in watched' : place[x] \in Pid
    BY <1>0, <2>1, <2>4
  <2>8. DOMAIN place \ {r} \subseteq InHand' BY <1>0, <2>1, <2>3 DEF r
  <2> QED BY <2>3, <2>5, <2>6, <2>7, <2>8, CoverLess
<1>4. CASE Killed(t)
  <2>1. UNCHANGED <<place, watched>> /\ thread' = [thread EXCEPT ![t] = Idle]
    BY <1>4 DEF Killed, Goto, launcher
  <2>2. /\ thread' \in [Thread -> Doing] /\ Launching' \subseteq Launching
        /\ \A u \in Launching' : u # t /\ thread'[u] = thread[u]
        /\ \A x \in InHand : x \in watched' \/ (t \in Launching /\ x = thread[t].request)
                               \/ x \in InHand' \/ x \in watched \ watched'
    BY <2>1, ThreadLeaves, DoingFacts
  <2>3. place' = [x \in DOMAIN place \ {} |-> place[x]] BY <1>0, <2>1
  <2>4. \A u \in Launching' : thread'[u] = thread[u] /\ thread[u].request \notin {} \cup watched'
    BY <1>0, <2>1, <2>2
  <2>5. watched' \subseteq DOMAIN place \ {} /\ \A x \in watched' : place[x] \in Pid
    BY <1>0, <2>1
  <2>6. t \notin Launching BY <1>4 DEF Killed, Launching
  <2>7. DOMAIN place \ {} \subseteq InHand' BY <1>0, <2>1, <2>2, <2>6
  <2> QED BY <2>2, <2>3, <2>4, <2>5, <2>7, CoverLess
<1> QED BY <1>1, <1>2, <1>3, <1>4 DEF Serve

LEMMA CoverForgotten ==
  ASSUME CoverOK, NEW r \in Request, Forgotten(r)
  PROVE  CoverOK'
<1>1. place' = [x \in DOMAIN place \ {r} |-> place[x]] /\ watched' = watched \ {r} /\ r \in watched
      /\ UNCHANGED thread
  BY DEF Forgotten, Without
<1>2. thread' \in [Thread -> Doing] /\ Launching' = Launching BY <1>1 DEF CoverOK, Launching
<1>3. \A u \in Launching : thread[u].request \notin watched BY DEF CoverOK, LaunchOK, Launching
<1>4. \A u \in Launching' : thread'[u] = thread[u] /\ thread[u].request \notin {r} \cup watched'
  BY <1>1, <1>2, <1>3
<1>5. watched' \subseteq DOMAIN place \ {r} /\ \A x \in watched' : place[x] \in Pid
  BY <1>1 DEF CoverOK, PlacesOK
<1>6. DOMAIN place \ {r} \subseteq InHand' BY <1>1, <1>2 DEF CoverOK, PlacesOK, InHand
<1> QED BY <1>1, <1>2, <1>4, <1>5, <1>6, CoverLess

\* The process that starts is a new one, and its place is there.
LEMMA CoverSpawn ==
  ASSUME CoverOK, NEW t \in Thread, Spawn(t)
  PROVE  CoverOK'
<1> DEFINE r == thread[t].request
<1>1. PICK p \in Pid :
        /\ p \notin {place[x] : x \in DOMAIN place}
        /\ place' = [x \in DOMAIN place \cup {r} |-> IF x = r THEN p ELSE place[x]]
        /\ thread' = [thread EXCEPT ![t] = [at |-> "watch", request |-> r, pid |-> p]]
  BY DEF Spawn, FreePid, Held, Goto
<1> DEFINE d == [at |-> "watch", request |-> r, pid |-> p]
<1>2. thread[t].at = "spawn" /\ UNCHANGED watched /\ t \in Launching BY DEF Spawn, Launching
<1>3. /\ r \in DOMAIN place \ watched /\ place[r] = NoPid
      /\ \A u \in Launching : u # t => thread[u].request # r
      /\ r \in Request
  BY <1>2, DoingFacts DEF CoverOK, LaunchOK
<1>4. d \in Doing /\ d.at = "watch" /\ d.request = r /\ d.pid = p BY <1>3, DoingFacts
<1>5. thread' = [thread EXCEPT ![t] = d] BY <1>1
<1> HIDE DEF r, d
<1>6. DOMAIN place' = DOMAIN place BY <1>1, <1>3
<1>7. \A x \in DOMAIN place' : place'[x] = IF x = r THEN p ELSE place[x] BY <1>1, <1>6
<1>8. place' \in [DOMAIN place' -> Pid \cup {NoPid}] BY <1>1, <1>6 DEF CoverOK
<1>9. thread' \in [Thread -> Doing] BY <1>4, <1>5 DEF CoverOK
<1>10. \A u \in Thread : thread'[u] = IF u = t THEN d ELSE thread[u] BY <1>5 DEF CoverOK
<1>11. \A u \in Thread : u \in Launching' <=> u \in Launching
  BY <1>2, <1>4, <1>10 DEF Launching
<1>12. Launching' = Launching BY <1>11 DEF Launching
<1>13. \A u \in Launching : u \in Thread /\ thread'[u].request = thread[u].request
  BY <1>4, <1>10 DEF Launching, r
<1>14. ASSUME NEW u \in Thread PROVE LaunchOK(u)'
  <2>0. LaunchOK(u) BY DEF CoverOK
  <2>1. CASE u \in Launching
    <3>1. /\ thread[u].request \in DOMAIN place \ watched
          /\ place[thread[u].request] = IF thread[u].at = "watch" THEN thread[u].pid ELSE NoPid
          /\ \A v \in Launching : v # u => thread[v].request # thread[u].request
      BY <2>0, <2>1 DEF LaunchOK
    <3>2. \A v \in Launching' : v # u => thread'[v].request # thread'[u].request
      BY <1>12, <1>13, <2>1, <3>1
    <3>3. place'[thread'[u].request] = IF thread'[u].at = "watch" THEN thread'[u].pid ELSE NoPid
      <4>1. CASE u = t BY <1>3, <1>4, <1>6, <1>7, <1>10, <4>1
      <4>2. CASE u # t
        <5>1. thread'[u] = thread[u] /\ thread[u].request # r BY <1>3, <1>10, <2>1, <4>2
        <5> QED BY <1>6, <1>7, <3>1, <5>1
      <4> QED BY <4>1, <4>2
    <3> QED BY <1>2, <1>6, <1>13, <2>1, <3>1, <3>2, <3>3 DEF LaunchOK
  <2>2. CASE u \notin Launching BY <1>12, <2>2 DEF LaunchOK
  <2> QED BY <2>1, <2>2
<1>15. PlacesOK'
  <2>1. Cardinality(DOMAIN place') <= MaxOutstanding BY <1>6 DEF CoverOK, PlacesOK
  <2>2. \A x \in watched' : x \in DOMAIN place' /\ place'[x] \in Pid
    BY <1>1, <1>2, <1>6, <1>7 DEF CoverOK, PlacesOK
  <2>3. \A u \in Launching' : thread'[u].request \in DOMAIN place'
    BY <1>6, <1>12, <1>13 DEF CoverOK, PlacesOK
  <2>4. \A x, q \in DOMAIN place' : x # q /\ place'[x] \in Pid => place'[x] # place'[q]
    <3>1. \A x \in DOMAIN place : place[x] # p BY <1>1
    <3> QED BY <1>6, <1>7, <3>1 DEF CoverOK, PlacesOK
  <2>5. DOMAIN place' \subseteq InHand'
    BY <1>2, <1>6, <1>12, <1>13 DEF CoverOK, PlacesOK, InHand
  <2> QED BY <2>1, <2>2, <2>3, <2>4, <2>5 DEF PlacesOK
<1> QED BY <1>2, <1>6, <1>8, <1>9, <1>14, <1>15 DEF CoverOK

LEMMA CoverStep == CoverOK /\ Next => CoverOK'
BY LauncherFrame, CoverGone, CoverFrame, CoverLaunch, CoverServe, CoverSpawn, CoverForgotten
-----------------------------------------------------------------------------
(* The workers that run.                                                   *)

StartedOK == workers \subseteq Pid /\ unwatched \subseteq Pid /\ alive \subseteq Pid /\ WorkersOK

LEMMA StartedServe ==
  ASSUME CoverOK, StartedOK, NEW t \in Thread, Serve(t)
  PROVE  StartedOK'
<1> DEFINE r == thread[t].request
<1> USE DEF StartedOK, WorkersOK
<1>0. /\ thread \in [Thread -> Doing] /\ thread[t] \in Doing /\ LaunchOK(t)
      /\ \A x \in DOMAIN place : Without(r)[x] = place[x] \/ x = r
      /\ DOMAIN Without(r) = DOMAIN place \ {r}
  BY DEF CoverOK, Without
<1>1. CASE SpawnFails(t)
  <2>1. /\ thread[t].at = "spawn" /\ place' = Without(r) /\ thread' = [thread EXCEPT ![t] = Idle]
        /\ UNCHANGED <<alive, workers, unwatched>>
    BY <1>1 DEF SpawnFails, GiveBack, Goto, started
  <2>2. place[r] = NoPid BY <1>0, <2>1 DEF LaunchOK, Launching
  <2>3. Terminating' = Terminating BY <1>0, <2>1, DoingFacts DEF Terminating
  <2>4. \A p \in workers : Covered(p)' BY <1>0, <2>1, <2>2, <2>3, NoPidIsNone DEF Covered
  <2> QED BY <2>1, <2>4
<1>2. CASE Spawn(t)
  <2>1. PICK p \in Pid :
          /\ alive' = alive \cup {p} /\ workers' = workers \cup {p}
          /\ place' = [x \in DOMAIN place \cup {r} |-> IF x = r THEN p ELSE place[x]]
          /\ thread' = [thread EXCEPT ![t] = [at |-> "watch", request |-> r, pid |-> p]]
          /\ UNCHANGED unwatched /\ thread[t].at = "spawn"
    BY <1>2 DEF Spawn, FreePid, Goto
  <2>2. place[r] = NoPid BY <1>0, <2>1 DEF LaunchOK, Launching
  <2>3. Terminating' = Terminating
    <3> DEFINE d == [at |-> "watch", request |-> r, pid |-> p]
    <3>1. d.at = "watch" /\ thread' = [thread EXCEPT ![t] = d] BY <2>1
    <3> HIDE DEF d
    <3> QED BY <1>0, <2>1, <3>1 DEF Terminating
  <2> HIDE DEF r
  <2>4. \A q \in workers : Covered(q)' BY <2>1, <2>2, <2>3, NoPidIsNone DEF Covered
  <2>5. Covered(p)' BY <2>1 DEF Covered
  <2> QED BY <2>1, <2>4, <2>5
<1>3. CASE Watch(t)
  <2>1. /\ thread[t].at = "watch" /\ thread' = [thread EXCEPT ![t] = Idle]
        /\ UNCHANGED <<place, alive, workers, unwatched>>
    BY <1>3 DEF Watch, Goto, started
  <2>2. Terminating' = Terminating BY <1>0, <2>1, DoingFacts DEF Terminating
  <2> QED BY <2>1, <2>2 DEF Covered
<1>4. CASE WatchFails(t)
  <2> DEFINE d == [at |-> "kill", pid |-> thread[t].pid]
  <2>1. /\ thread[t].at = "watch" /\ thread' = [thread EXCEPT ![t] = d]
        /\ place' = Without(r) /\ UNCHANGED <<alive, workers, unwatched>>
    BY <1>4 DEF WatchFails, Goto, started
  <2>2. place[r] = thread[t].pid BY <1>0, <2>1 DEF LaunchOK, Launching
  <2>3. d.at = "kill" /\ d.pid = thread[t].pid OBVIOUS
  <2> HIDE DEF d
  <2>4. Terminating \cup {thread[t].pid} \subseteq Terminating'
    BY <1>0, <2>1, <2>3 DEF Terminating
  <2>5. \A p \in workers : Covered(p)' BY <1>0, <2>1, <2>2, <2>4 DEF Covered
  <2> QED BY <2>1, <2>5
<1>5. CASE Killed(t)
  <2>1. /\ thread[t].at = "kill" /\ thread' = [thread EXCEPT ![t] = Idle]
        /\ alive' = alive \ {thread[t].pid} /\ workers' = workers \ {thread[t].pid}
        /\ UNCHANGED <<place, unwatched>>
    BY <1>5 DEF Killed, Goto, launcher
  <2>2. Terminating \ {thread[t].pid} \subseteq Terminating'
    BY <1>0, <2>1 DEF Terminating
  <2>3. \A p \in workers' : Covered(p)' BY <2>1, <2>2 DEF Covered
  <2> QED BY <2>1, <2>3
<1> QED BY <1>1, <1>2, <1>3, <1>4, <1>5 DEF Serve

LEMMA StartedStep ==
  ASSUME CoverOK, StartedOK, Next, alive' \subseteq Pid
  PROVE  StartedOK'
<1> USE DEF StartedOK, WorkersOK
<1>1. ASSUME workers' \subseteq workers, workers' \subseteq alive', unwatched' \subseteq Pid,
             unwatched \cap workers' \subseteq unwatched', UNCHANGED <<thread, place>>
      PROVE  StartedOK'
  <2>1. Terminating' = Terminating BY <1>1 DEF Terminating
  <2> QED BY <1>1, <2>1 DEF Covered
<1>2. CASE Tick \/ StopRequest BY <1>1, <1>2 DEF Tick, StopRequest, launcher, started
<1>3. CASE Schedule
  BY <1>1, <1>3 DEF Schedule, Boot, Trigger, CleanupEnds, Submit, SchedulerOnly, launcher, started
<1>4. CASE Supervise BY <1>1, <1>4 DEF Supervise, Started, Restart, FatalEvent, launcher, started
<1>5. ASSUME workers' = {}, unwatched' = {} PROVE StartedOK' BY <1>5
<1>6. CASE ContainerEnds BY <1>5, <1>6 DEF ContainerEnds, NoLauncher
<1>7. CASE \E p \in Pid : ProcessEnds(p) BY <1>1, <1>7 DEF ProcessEnds, launcher
<1>8. ASSUME NEW p \in Program, Exits(p) PROVE StartedOK'
  BY <1>1, <1>5, <1>8 DEF Exits, Forget, NoLauncher, launcher, started
<1>9. ASSUME NEW t \in Thread, NEW r \in Request, Launch(t, r) PROVE StartedOK'
  <2> DEFINE d == [at |-> "spawn", request |-> r]
  <2>1. /\ thread[t] = Idle /\ r \notin DOMAIN place
        /\ place' = [x \in DOMAIN place \cup {r} |-> IF x = r THEN NoPid ELSE place[x]]
        /\ thread' = [thread EXCEPT ![t] = d] /\ UNCHANGED <<alive, workers, unwatched>>
    BY <1>9 DEF Launch, Reserve, Goto, FreeRequest, started
  <2>2. d.at = "spawn" OBVIOUS
  <2> HIDE DEF d
  <2>3. thread \in [Thread -> Doing] BY DEF CoverOK
  <2>4. Terminating' = Terminating BY <2>1, <2>2, <2>3, DoingFacts DEF Terminating
  <2>5. \A p \in workers : Covered(p)' BY <2>1, <2>4 DEF Covered
  <2> QED BY <2>1, <2>5
<1>10. ASSUME NEW r \in Request, Forgotten(r) PROVE StartedOK'
  <2>1. /\ place' = [x \in DOMAIN place \ {r} |-> place[x]] /\ UNCHANGED <<thread, alive, workers>>
        /\ unwatched' = unwatched \cup ({place[r]} \cap alive)
    BY <1>10 DEF Forgotten, Without
  <2>2. Terminating' = Terminating BY <2>1 DEF Terminating
  <2>3. \A p \in workers : Covered(p)' BY <2>1, <2>2 DEF Covered
  <2> QED BY <2>1, <2>3
<1> QED BY <1>2, <1>3, <1>4, <1>6, <1>7, <1>8, <1>9, <1>10, StartedServe DEF Next

-----------------------------------------------------------------------------
(* The supervisor.                                                         *)

ProgramsOK ==
  /\ program \in [Program -> {"starting", "running", "backoff", "fatal", "stopped"}]
  /\ tries \in [Program -> 0 .. StartRetries + 1] /\ container \in {"up", "stopping", "down"}
  /\ TriesOK

\* Only supervisord and the end of a program change what supervisord knows.
LEMMA SupervisorFrame ==
  ASSUME Next
  PROVE  \/ UNCHANGED <<program, tries, container>>
         \/ Supervise \/ StopRequest \/ ContainerEnds \/ \E p \in Program : Exits(p)
<1> USE DEF supervisor
<1>1. CASE Tick BY <1>1 DEF Tick
<1>2. CASE Schedule BY <1>2 DEF Schedule, Boot, Trigger, CleanupEnds, Submit, SchedulerOnly
<1>3. CASE \E p \in Pid : ProcessEnds(p) BY <1>3 DEF ProcessEnds
<1>4. ASSUME NEW t \in Thread, Serve(t) \/ \E r \in Request : Launch(t, r)
      PROVE  UNCHANGED <<program, tries, container>>
  BY <1>4 DEF Serve, SpawnFails, Spawn, Watch, WatchFails, Killed, Launch, LauncherOnly
<1>5. CASE \E r \in Request : Forgotten(r) BY <1>5 DEF Forgotten, LauncherOnly
<1> QED BY <1>1, <1>2, <1>3, <1>4, <1>5 DEF Next

\* A failed start is counted up to the last one, and a program that runs starts anew.
LEMMA ProgramsStep == ASSUME ProgramsOK, Next PROVE ProgramsOK'
<1> USE DEF ProgramsOK
<1>0. StartRetries \in Nat BY ServiceAssumption
<1>1. CASE UNCHANGED <<program, tries, container>> BY <1>1 DEF TriesOK
<1>2. CASE StopRequest BY <1>2 DEF StopRequest, TriesOK
<1>3. CASE ContainerEnds BY <1>3 DEF ContainerEnds, TriesOK
<1>4. ASSUME NEW p \in Program, Started(p) PROVE ProgramsOK'
  <2>1. /\ program' = [program EXCEPT ![p] = "running"] /\ tries' = [tries EXCEPT ![p] = 0]
        /\ UNCHANGED container
    BY <1>4 DEF Started
  <2> QED BY <1>0, <2>1 DEF TriesOK
<1>5. ASSUME NEW p \in Program, Restart(p) PROVE ProgramsOK'
  <2>1. /\ program' = [program EXCEPT ![p] = "starting"] /\ program[p] = "backoff"
        /\ UNCHANGED <<tries, container>>
    BY <1>5 DEF Restart
  <2> QED BY <1>0, <2>1 DEF TriesOK
<1>6. ASSUME NEW p \in Program, FatalEvent(p) PROVE ProgramsOK'
  BY <1>6 DEF FatalEvent, TriesOK
<1>7. ASSUME NEW p \in Program, Exits(p) PROVE ProgramsOK'
  <2>0. Up(p) /\ UNCHANGED container BY <1>7 DEF Exits
  <2>1. CASE program[p] = "running"
    <3>1. program' = [program EXCEPT ![p] = "starting"] /\ UNCHANGED tries BY <1>7, <2>1 DEF Exits
    <3> QED BY <1>0, <2>0, <2>1, <3>1 DEF TriesOK
  <2>2. CASE program[p] # "running"
    <3>1. program[p] = "starting" /\ tries[p] <= StartRetries /\ tries[p] \in Nat
      BY <1>0, <2>0, <2>2 DEF Up, TriesOK
    <3>2. tries' = [tries EXCEPT ![p] = tries[p] + 1] BY <1>7, <2>2 DEF Exits
    <3>3. tries' \in [Program -> 0 .. StartRetries + 1] BY <1>0, <3>1, <3>2
    <3>4. program' = [program EXCEPT ![p] = IF tries[p] < StartRetries THEN "backoff"
                                                                       ELSE "fatal"]
      BY <1>7, <2>2 DEF Exits
    <3>5. program' \in [Program -> {"starting", "running", "backoff", "fatal", "stopped"}]
      BY <3>4
    <3>6. TriesOK' BY <1>0, <3>1, <3>2, <3>4 DEF TriesOK
    <3> QED BY <2>0, <3>3, <3>5, <3>6
  <2> QED BY <2>1, <2>2
<1> QED BY <1>1, <1>2, <1>3, <1>4, <1>5, <1>6, <1>7, SupervisorFrame DEF Supervise

-----------------------------------------------------------------------------
(* The clock, the faults and the processes.                                *)

ProcessesOK ==
  now \in 0 .. MaxTime /\ faults \in 0 .. MaxFaults /\ alive \subseteq Pid

LEMMA FaultCounts == faults \in 0 .. MaxFaults /\ Fault => faults' \in 0 .. MaxFaults
BY ServiceAssumption DEF Fault

LEMMA ProcessesStep == ASSUME ProcessesOK, Next PROVE ProcessesOK'
<1> USE DEF ProcessesOK
<1>1. CASE Tick BY <1>1, ServiceAssumption DEF Tick
<1>2. CASE StopRequest BY <1>2 DEF StopRequest
<1>3. CASE Schedule
  BY <1>3, FaultCounts
     DEF Schedule, Boot, Trigger, CleanupEnds, Submit, SchedulerOnly, FreePid
<1>4. CASE Supervise BY <1>4 DEF Supervise, Started, Restart, FatalEvent
<1>5. CASE ContainerEnds BY <1>5 DEF ContainerEnds
<1>6. CASE \E p \in Pid : ProcessEnds(p) BY <1>6 DEF ProcessEnds
<1>7. ASSUME NEW p \in Program, Exits(p) PROVE ProcessesOK'
  BY <1>7, FaultCounts DEF Exits
<1>8. ASSUME NEW t \in Thread, Serve(t) \/ \E r \in Request : Launch(t, r)
      PROVE  ProcessesOK'
  BY <1>8, FaultCounts
     DEF Serve, SpawnFails, Spawn, Watch, WatchFails, Killed, Launch, LauncherOnly, FreePid
<1>9. CASE \E r \in Request : Forgotten(r) BY <1>9, FaultCounts DEF Forgotten, LauncherOnly
<1> QED BY <1>1, <1>2, <1>3, <1>4, <1>5, <1>6, <1>7, <1>8, <1>9 DEF Next

-----------------------------------------------------------------------------
(* The schedule.                                                           *)

ScheduleOK ==
  /\ scheduler \in {"off", "loop", "cleanup", "submit"} /\ {next, seen} \subseteq Nat
  /\ served \in Nat \cup {-1} /\ missed \subseteq Nat /\ children \subseteq Pid
  /\ TriggerOK

\* There is a next trigger, the first of the grid after the time that was read.
LEMMA NextAfterIs ==
  ASSUME NEW previous \in Nat, NEW at \in Nat, previous <= at, at <= MaxTime
  PROVE  /\ NextAfter(previous, at) \in Nat
         /\ NextAfter(previous, at) > at /\ NextAfter(previous, at) - Interval <= at
<1> DEFINE Grid == {previous + k * Interval : k \in 1 .. MaxTime + 1}
           Is(n) == n > at /\ n - Interval <= IF at > previous THEN at ELSE previous
           q == (at - previous) \div Interval
<1>1. Interval \in Nat \ {0} /\ MaxTime \in Nat BY ServiceAssumption
<1>2. q \in Nat /\ q * Interval <= at - previous /\ at - previous < q * Interval + Interval
  BY <1>1
<1>3. q <= at - previous
  <2>1. q <= q * Interval BY <1>1, <1>2
  <2>2. q * Interval \in Nat BY <1>1, <1>2
  <2> HIDE DEF q
  <2> QED BY <1>1, <1>2, <2>1, <2>2
<1> HIDE DEF q
<1>4. q + 1 \in 1 .. MaxTime + 1 BY <1>1, <1>2, <1>3
<1>5. (q + 1) * Interval = q * Interval + Interval BY <1>1, <1>2
<1>6. previous + (q + 1) * Interval \in Grid BY <1>4
<1>7. Is(previous + (q + 1) * Interval)
  <2>1. q * Interval \in Nat BY <1>1, <1>2
  <2> QED BY <1>1, <1>2, <1>5, <2>1
<1>8. \E n \in Grid : Is(n) BY <1>6, <1>7
<1>9. Grid \subseteq Nat BY <1>1
<1>10. NextAfter(previous, at) = CHOOSE n \in Grid : Is(n) BY DEF NextAfter
<1> HIDE DEF Grid
<1>11. NextAfter(previous, at) \in Grid /\ Is(NextAfter(previous, at)) BY <1>8, <1>10
<1>12. /\ NextAfter(previous, at) \in Nat /\ NextAfter(previous, at) > at
       /\ NextAfter(previous, at) - Interval <= IF at > previous THEN at ELSE previous
  BY <1>9, <1>11
<1> HIDE DEF Is
<1> QED BY <1>12

LEMMA ScheduleStep == ASSUME ScheduleOK, ProcessesOK, Next PROVE ScheduleOK'
<1> USE DEF ScheduleOK
<1>0. UNCHANGED schedule => ScheduleOK' BY DEF schedule, triggers, TriggerOK
<1>1. CASE Tick \/ StopRequest BY <1>0, <1>1 DEF Tick, StopRequest
<1>2. CASE Boot BY <1>2, ServiceAssumption DEF Boot, TriggerOK, ProcessesOK, triggers
<1>3. CASE Trigger BY <1>3, ServiceAssumption DEF Trigger, TriggerOK, ProcessesOK, Reaped, triggers
<1>4. CASE CleanupEnds BY <1>4 DEF CleanupEnds, CleanupEnded, TriggerOK, triggers
<1>5. CASE Submit
  <2>1. scheduler = "submit" /\ next <= seen /\ seen <= MaxTime BY <1>5 DEF Submit, TriggerOK
  <2>2. NextAfter(next, seen) \in Nat BY <2>1, NextAfterIs
  <2>3. children' \subseteq Pid BY <1>5 DEF Submit, Reaped, FreePid
  <2>4. /\ scheduler' = "loop" /\ next' = NextAfter(next, seen) /\ seen' = 0
        /\ served' \in {served, next} /\ missed' \in {missed, missed \cup {next}}
    BY <1>5 DEF Submit
  <2> QED BY <2>2, <2>3, <2>4, ServiceAssumption DEF TriggerOK
<1>6. CASE Supervise BY <1>0, <1>6 DEF Supervise, Started, Restart, FatalEvent
<1>7. CASE ContainerEnds BY <1>7, ServiceAssumption DEF ContainerEnds, NoSchedule, TriggerOK
<1>8. CASE \E p \in Pid : ProcessEnds(p) BY <1>0, <1>8 DEF ProcessEnds
<1>9. ASSUME NEW p \in Program, Exits(p) PROVE ScheduleOK'
  BY <1>0, <1>9, ServiceAssumption DEF Exits, Forget, NoSchedule, TriggerOK
<1>10. ASSUME NEW t \in Thread, Serve(t) \/ \E r \in Request : Launch(t, r)
       PROVE  ScheduleOK'
  BY <1>0, <1>10
     DEF Serve, SpawnFails, Spawn, Watch, WatchFails, Killed, Launch, LauncherOnly
<1>11. CASE \E r \in Request : Forgotten(r) BY <1>0, <1>11 DEF Forgotten, LauncherOnly
<1> QED BY <1>1, <1>2, <1>3, <1>4, <1>5, <1>6, <1>7, <1>8, <1>9, <1>10, <1>11 DEF Next, Schedule

-----------------------------------------------------------------------------
(* The invariant.                                                          *)

LEMMA Parts == IInv <=> CoverOK /\ StartedOK /\ ProgramsOK /\ ProcessesOK /\ ScheduleOK
BY DEF IInv, TypeOK, CoverOK, StartedOK, ProgramsOK, ProcessesOK, ScheduleOK

LEMMA InitInv == Init => IInv
<1> SUFFICES ASSUME Init PROVE IInv OBVIOUS
<1> USE DEF Init
<1>1. ProgramsOK BY ServiceAssumption DEF ProgramsOK, TriesOK
<1>2. ProcessesOK BY ServiceAssumption DEF ProcessesOK
<1>3. ScheduleOK BY ServiceAssumption DEF ScheduleOK, TriggerOK
<1>4. CoverOK
  <2>1. DOMAIN place = {} /\ place \in [{} -> Pid \cup {NoPid}] BY DEF NoPlace
  <2>2. Cardinality(DOMAIN place) <= MaxOutstanding BY <2>1, FS_EmptySet, ServiceAssumption
  <2>3. thread \in [Thread -> Doing] /\ \A t \in Thread : thread[t].at = "idle" BY DoingFacts
  <2>4. Launching = {} BY <2>3 DEF Launching
  <2> QED BY <2>1, <2>2, <2>3, <2>4 DEF CoverOK, LaunchOK, PlacesOK
<1>5. StartedOK BY DEF StartedOK, WorkersOK
<1> QED BY <1>1, <1>2, <1>3, <1>4, <1>5, Parts

LEMMA NextInv == IInv /\ [Next]_vars => IInv'
<1> SUFFICES ASSUME IInv, [Next]_vars PROVE IInv' OBVIOUS
<1>1. CASE Next
  <2>1. CoverOK /\ StartedOK /\ ProgramsOK /\ ProcessesOK /\ ScheduleOK BY Parts
  <2>2. CoverOK' BY <1>1, <2>1, CoverStep
  <2>3. ProgramsOK' /\ ProcessesOK' /\ ScheduleOK'
    BY <1>1, <2>1, ProgramsStep, ProcessesStep, ScheduleStep
  <2>4. StartedOK' BY <1>1, <2>1, <2>3, StartedStep DEF ProcessesOK
  <2> QED BY <2>2, <2>3, <2>4
        DEF IInv, TypeOK, CoverOK, StartedOK, ProgramsOK, ProcessesOK, ScheduleOK
<1>2. CASE UNCHANGED vars
  <2>1. CoverOK /\ StartedOK /\ ProgramsOK /\ ProcessesOK /\ ScheduleOK BY Parts
  <2> USE DEF vars, supervisor, schedule, triggers, launcher, started
  <2>2. CoverOK' BY <1>2, <2>1, CoverFrame
  <2>3. ProgramsOK' BY <1>2, <2>1 DEF ProgramsOK, TriesOK
  <2>4. ProcessesOK' BY <1>2, <2>1 DEF ProcessesOK
  <2>5. ScheduleOK' BY <1>2, <2>1 DEF ScheduleOK, TriggerOK
  <2>6. StartedOK' BY <1>2, <2>1 DEF StartedOK, WorkersOK, Covered, Terminating
  <2> QED BY <2>2, <2>3, <2>4, <2>5, <2>6
        DEF IInv, TypeOK, CoverOK, StartedOK, ProgramsOK, ProcessesOK, ScheduleOK
<1> QED BY <1>1, <1>2

LEMMA Invariance == Spec => []IInv
BY InitInv, NextInv, PTL DEF Spec

\* The type invariant, for any numbers of threads, requests and processes: among others, a
\* program is started StartRetries + 1 times in a row at most (startretries), and there always
\* is a next trigger (next_trigger_after).
THEOREM TypeCorrect == Spec => []TypeOK
<1>1. IInv => TypeOK BY DEF IInv
<1> QED BY <1>1, Invariance, PTL

\* However threads, watchers, failures and restarts interleave, the dashboard has at most
\* MaxOutstanding places, a worker of its that runs has one of its own unless the dashboard
\* could not wait for it or is terminating it, and no place is kept that nobody will give back
\* (ProcessLauncher.launch).
THEOREM PlacesAreCovered == Spec => []PlacesCover
<1>1. ASSUME IInv PROVE PlacesCover
  <2>1. PlacesOK /\ WorkersOK BY <1>1 DEF IInv
  <2>2. InHand \subseteq DOMAIN place BY <2>1 DEF PlacesOK, InHand
  <2>3. DOMAIN place = InHand BY <2>1, <2>2 DEF PlacesOK
  <2> QED BY <2>1, <2>3 DEF PlacesOK, WorkersOK, Covered, PlacesCover
<1> QED BY <1>1, Invariance, PTL

-----------------------------------------------------------------------------
(* The runs that the workers are started for (SourceScraper).  The pages of *)
(* a listing are folded one at a time; what a fold computes over a page     *)
(* that comes last is proved by induction over positions, so that the lots  *)
(* found after each page are those of all pages read.  The loop over the    *)
(* lots then counts what is not committed, and what a saved row still has   *)
(* of the committed one.                                                    *)

-----------------------------------------------------------------------------
(* Induction over positions, and what folds compute.                       *)

\* A set of natural numbers that has a member has a least one.
LEMMA LeastMember ==
    ASSUME NEW T \in SUBSET Nat, T # {}
    PROVE  \E d \in T : \A e \in T : d <= e
<1> DEFINE Less == OpToRel(<, Nat)
<1>1. IsWellFoundedOn(Less, Nat) BY NatLessThanWellFounded
<1>2. PICK d \in T : \A e \in T : ~(<<e, d>> \in Less)
  <2> HIDE DEF Less
  <2> QED BY <1>1, WFMin
<1>3. ASSUME NEW e \in T PROVE d <= e
  <2>1. e \in Nat /\ d \in Nat OBVIOUS
  <2>2. e < d => <<e, d>> \in Less BY <2>1 DEF OpToRel
  <2>3. ~(e < d) BY <2>2, <1>2
  <2> QED BY <2>1, <2>3
<1> QED BY <1>3

\* Induction over 0..n: a set that holds 0 and goes on to the next is all of it.
LEMMA PrefixInduction ==
    ASSUME NEW n \in Nat, NEW T \in SUBSET (0..n), 0 \in T,
           \A k \in 0..(n - 1) : k \in T => k + 1 \in T
    PROVE  T = 0..n
<1> DEFINE R == (0..n) \ T
<1> SUFFICES ASSUME R # {} PROVE FALSE OBVIOUS
<1>1. R \in SUBSET Nat OBVIOUS
<1> HIDE DEF R
<1>2. PICK d \in R : \A e \in R : d <= e BY <1>1, LeastMember
<1> USE DEF R
<1>3. d \in 0..n /\ d \notin T /\ d # 0 OBVIOUS
<1>4. d - 1 \in 0..(n - 1) BY <1>3
<1>5. d - 1 \notin R
  <2> HIDE DEF R
  <2> QED BY <1>2, <1>3
<1>6. d - 1 \in T BY <1>4, <1>5
<1>7. (d - 1) + 1 \in T BY <1>4, <1>6
<1> QED BY <1>3, <1>7

\* A set of positions of a sequence that has a member has a last one.
LEMMA LastPosition ==
    ASSUME NEW n \in Nat, NEW t \in SUBSET (1..n), t # {}
    PROVE  Max(t) \in t /\ \A y \in t : y <= Max(t)
<1> DEFINE T == {n - x : x \in t}
<1>0. PICK z \in t : TRUE OBVIOUS
<1>1. T \in SUBSET Nat /\ n - z \in T BY <1>0
<1> HIDE DEF T
<1>2. PICK d \in T : \A e \in T : d <= e BY <1>1, LeastMember
<1> USE DEF T
<1>3. PICK x \in t : d = n - x BY <1>2
<1>4. ASSUME NEW y \in t PROVE x >= y
  <2>1. n - y \in T OBVIOUS
  <2>2. d <= n - y BY <2>1, <1>2
  <2> QED BY <2>2, <1>3
<1>5. Max(t) \in t /\ \A y \in t : Max(t) >= y BY <1>3, <1>4 DEF Max
<1> DEFINE m == Max(t)
<1>6. m \in 1..n /\ \A y \in t : y \in 1..n /\ m >= y BY <1>5
<1> HIDE DEF m
<1>7. \A y \in t : y <= m BY <1>6
<1> USE DEF m
<1> QED BY <1>5, <1>7

\* F[k] is the value a fold over s has after k members.
FoldRun(V, base, G, s, F) ==
    /\ F \in [0..Len(s) -> V] /\ F[0] = base
    /\ \A k \in 1..Len(s) : F[k] = G[<<F[k - 1], s[k]>>]

\* The values a fold over a sequence passes through.
LEMMA FoldChain ==
    ASSUME NEW V, NEW X, NEW base \in V, NEW G \in [V \X X -> V], NEW s \in Seq(X)
    PROVE  \E F : FoldRun(V, base, G, s, F)
<1> DEFINE Goes(n) == \E F \in [0..n -> V] :
               F[0] = base /\ \A k \in 1..n : F[k] = G[<<F[k - 1], s[k]>>]
           T == {n \in 0..Len(s) : Goes(n)}
<1>0. Len(s) \in Nat /\ \A k \in 1..Len(s) : s[k] \in X OBVIOUS
<1>1. Goes(0)
  <2> DEFINE H == [k \in 0..0 |-> base]
  <2>1. H \in [0..0 -> V] /\ H[0] = base OBVIOUS
  <2>2. \A k \in 1..0 : FALSE OBVIOUS
  <2> HIDE DEF H
  <2> QED BY <2>1, <2>2
<1>2. ASSUME NEW n \in 0..(Len(s) - 1), Goes(n) PROVE Goes(n + 1)
  <2>1. PICK F \in [0..n -> V] : F[0] = base /\ \A k \in 1..n : F[k] = G[<<F[k - 1], s[k]>>]
    BY <1>2
  <2> DEFINE H == [k \in 0..(n + 1) |-> IF k = n + 1 THEN G[<<F[n], s[n + 1]>>] ELSE F[k]]
  <2>2. n + 1 \in 1..Len(s) /\ n \in Nat BY <1>0
  <2>3. F[n] \in V /\ s[n + 1] \in X BY <2>1, <2>2, <1>0
  <2>4. G[<<F[n], s[n + 1]>>] \in V BY <2>3
  <2>5. H \in [0..(n + 1) -> V] BY <2>1, <2>2, <2>4
  <2>6. H[0] = base BY <2>1, <2>2
  <2>7. ASSUME NEW k \in 1..(n + 1) PROVE H[k] = G[<<H[k - 1], s[k]>>]
    <3>1. CASE k = n + 1
      <4>1. n \in 0..(n + 1) /\ n # n + 1 /\ k - 1 = n BY <3>1, <2>2
      <4>2. H[n] = F[n] BY <4>1
      <4>3. H[k] = G[<<F[n], s[n + 1]>>] BY <3>1, <2>2
      <4> HIDE DEF H
      <4> QED BY <4>1, <4>2, <4>3, <3>1
    <3>2. CASE k \in 1..n
      <4>1. k - 1 \in 0..(n + 1) /\ k - 1 # n + 1 /\ k # n + 1 /\ k \in 0..(n + 1)
        BY <3>2, <2>2
      <4>2. H[k - 1] = F[k - 1] /\ H[k] = F[k] BY <4>1
      <4> HIDE DEF H
      <4> QED BY <4>2, <3>2, <2>1
    <3> QED BY <3>1, <3>2, <2>2
  <2> HIDE DEF H
  <2> QED BY <2>5, <2>6, <2>7
<1> HIDE DEF Goes
<1>3. T \in SUBSET (0..Len(s)) /\ 0 \in T BY <1>0, <1>1
<1>4. \A n \in 0..(Len(s) - 1) : n \in T => n + 1 \in T BY <1>0, <1>2
<1> HIDE DEF T
<1>5. T = 0..Len(s) BY <1>0, <1>3, <1>4, PrefixInduction
<1> USE DEF T
<1>6. Goes(Len(s)) BY <1>5, <1>0
<1> QED BY <1>6 DEF Goes, FoldRun

\* h solves the recursion FoldLeft is defined by, over sets of positions of s.
FoldSolution(V, base, G, s, h) ==
    /\ h \in [SUBSET (1..Len(s)) -> V]
    /\ \A t \in SUBSET (1..Len(s)) :
           h[t] = IF t = {} THEN base ELSE G[<<h[t \ {Max(t)}], s[Max(t)]>>]

LEMMA FoldSolved ==
    ASSUME NEW V, NEW X, NEW base \in V, NEW G \in [V \X X -> V], NEW s \in Seq(X)
    PROVE  \E h : FoldSolution(V, base, G, s, h)
<1> DEFINE N == Len(s)
           Ok(h, t) == h[t] = IF t = {} THEN base ELSE G[<<h[t \ {Max(t)}], s[Max(t)]>>]
           Goes(n) == \E h \in [SUBSET (1..N) -> V] : \A t \in SUBSET (1..n) : Ok(h, t)
           T == {n \in 0..N : Goes(n)}
<1>0. N \in Nat /\ \A k \in 1..N : s[k] \in X OBVIOUS
<1> HIDE DEF N
<1>1. Goes(0)
  <2>1. [t \in SUBSET (1..N) |-> base] \in [SUBSET (1..N) -> V] OBVIOUS
  <2>2. \A t \in SUBSET (1..0) : t = {} /\ t \in SUBSET (1..N) OBVIOUS
  <2> QED BY <2>1, <2>2
<1>2. ASSUME NEW n \in 0..(N - 1), Goes(n) PROVE Goes(n + 1)
  <2>1. PICK h \in [SUBSET (1..N) -> V] : \A t \in SUBSET (1..n) : Ok(h, t) BY <1>2
  <2> DEFINE H == [t \in SUBSET (1..N) |->
                      IF t = {} THEN base ELSE G[<<h[t \ {Max(t)}], s[Max(t)]>>]]
  <2>2. ASSUME NEW t \in SUBSET (1..N), t # {}
        PROVE  /\ Max(t) \in 1..N /\ t \ {Max(t)} \in SUBSET (1..N)
               /\ \A y \in t : y <= Max(t)
    BY <2>2, <1>0, LastPosition
  <2>3. H \in [SUBSET (1..N) -> V]
    <3>1. ASSUME NEW t \in SUBSET (1..N), t # {} PROVE G[<<h[t \ {Max(t)}], s[Max(t)]>>] \in V
      <4>1. h[t \ {Max(t)}] \in V /\ s[Max(t)] \in X BY <3>1, <2>2, <1>0, <2>1
      <4> QED BY <4>1
    <3> QED BY <3>1
  <2>4. ASSUME NEW t \in SUBSET (1..n) PROVE H[t] = h[t]
    <3>1. t \in SUBSET (1..N) BY <1>0
    <3> QED BY <3>1, <2>1
  <2>5. ASSUME NEW t \in SUBSET (1..(n + 1)) PROVE Ok(H, t)
    <3>1. t \in SUBSET (1..N) BY <1>0
    <3>2. CASE t = {} BY <3>1, <3>2
    <3>3. CASE t # {}
      <4>1. Max(t) \in t /\ \A y \in t : y <= Max(t) BY <3>3, <1>0, LastPosition, n + 1 \in Nat
      <4>2. t \ {Max(t)} \in SUBSET (1..n)
        <5>1. ASSUME NEW y \in t \ {Max(t)} PROVE y \in 1..n
          <6>1. y <= Max(t) /\ y # Max(t) /\ y \in 1..(n + 1) /\ Max(t) \in 1..(n + 1) BY <4>1
          <6> QED BY <6>1
        <5> QED BY <5>1
      <4>3. H[t \ {Max(t)}] = h[t \ {Max(t)}] BY <4>2, <2>4
      <4>4. H[t] = G[<<h[t \ {Max(t)}], s[Max(t)]>>] BY <3>1, <3>3
      <4> HIDE DEF H
      <4> QED BY <4>3, <4>4, <3>3
    <3> QED BY <3>2, <3>3
  <2> HIDE DEF H, Ok
  <2> QED BY <2>3, <2>5
<1> HIDE DEF Goes
<1>3. T \in SUBSET (0..N) /\ 0 \in T BY <1>0, <1>1
<1>4. \A n \in 0..(N - 1) : n \in T => n + 1 \in T BY <1>0, <1>2
<1> HIDE DEF T
<1>5. T = 0..N BY <1>0, <1>3, <1>4, PrefixInduction
<1> USE DEF T
<1>6. Goes(N) BY <1>5, <1>0
<1> QED BY <1>6 DEF Goes, N, FoldSolution

\* The last of the first k positions, and what is left without it.
LEMMA LastOfFirst ==
    ASSUME NEW k \in Nat \ {0}
    PROVE  Max(1..k) = k /\ (1..k) \ {k} = 1..(k - 1) /\ 1..k # {}
<1>1. k \in 1..k /\ \A y \in 1..k : k >= y OBVIOUS
<1>2. \A x \in 1..k : (\A y \in 1..k : x >= y) => x = k OBVIOUS
<1>3. Max(1..k) = k BY <1>1, <1>2 DEF Max
<1> QED BY <1>1, <1>3

UnseenNext(known, new, l) == IF Contains(known \o new, l) THEN new ELSE Append(new, l)

\* Unseen is computed lot by lot.
LEMMA UnseenFold ==
    ASSUME NEW L, NEW known \in Seq(L), NEW s \in Seq(L), NEW F \in [0..Len(s) -> Seq(L)],
           F[0] = <<>>, \A k \in 1..Len(s) : F[k] = UnseenNext(known, F[k - 1], s[k])
    PROVE  Unseen(known, s) = F[Len(s)]
<1> DEFINE V == Seq(L)
           N == Len(s)
           G == [x \in V \X L |-> UnseenNext(known, x[1], x[2])]
           Solves(h) == h = [t \in SUBSET (1..N) |->
                               IF t = {} THEN <<>>
                                     ELSE UnseenNext(known, h[t \ {Max(t)}], s[Max(t)])]
           H == CHOOSE h : Solves(h)
<1>0. N \in Nat /\ DOMAIN s = 1..N /\ \A k \in 1..N : s[k] \in L OBVIOUS
<1>1. G \in [V \X L -> V] BY DEF UnseenNext
<1>2. \E h : Solves(h)
  <2>1. <<>> \in V OBVIOUS
  <2> HIDE DEF V
  <2>2. PICK h : FoldSolution(V, <<>>, G, s, h)
    <3> HIDE DEF G
    <3> QED BY <1>1, <2>1, FoldSolved
  <2>3. ASSUME NEW t \in SUBSET (1..N), t # {}
        PROVE h[t] = UnseenNext(known, h[t \ {Max(t)}], s[Max(t)])
    <3>1. Max(t) \in t BY <2>3, <1>0, LastPosition
    <3>2. t \ {Max(t)} \in SUBSET (1..N) /\ Max(t) \in 1..N BY <3>1
    <3>3. h[t \ {Max(t)}] \in V /\ s[Max(t)] \in L BY <3>2, <2>2, <1>0 DEF FoldSolution
    <3>4. h[t] = G[<<h[t \ {Max(t)}], s[Max(t)]>>] BY <2>2, <2>3 DEF FoldSolution
    <3> QED BY <3>3, <3>4
  <2>4. h[{}] = <<>> BY <2>2 DEF FoldSolution
  <2>5. Solves(h) BY <2>2, <2>3, <2>4 DEF FoldSolution
  <2> HIDE DEF Solves
  <2> QED BY <2>5
<1>3. Solves(H)
  <2> HIDE DEF Solves
  <2> QED BY <1>2
<1>4. Unseen(known, s) = H[1..N]
  <2>1. Unseen(known, s) = H[DOMAIN s]
    BY <1>0 DEF Unseen, FoldLeft, MapThenFoldSet, UnseenNext
  <2> QED BY <2>1, <1>0
<1>5. \A t \in SUBSET (1..N) : t # {} => H[t] = UnseenNext(known, H[t \ {Max(t)}], s[Max(t)])
  <2>1. Solves(H) => \A t \in SUBSET (1..N) :
            t # {} => H[t] = UnseenNext(known, H[t \ {Max(t)}], s[Max(t)])
    <3> HIDE DEF H
    <3> QED OBVIOUS
  <2> HIDE DEF Solves, H
  <2> QED BY <2>1, <1>3
<1>6. H[{}] = <<>>
  <2>1. Solves(H) => H[{}] = <<>>
    <3> HIDE DEF H
    <3> QED OBVIOUS
  <2> HIDE DEF Solves, H
  <2> QED BY <2>1, <1>3
<1> HIDE DEF H, Solves, G
<1> DEFINE T == {k \in 0..N : H[1..k] = F[k]}
<1>7. T \in SUBSET (0..N) /\ 0 \in T
  <2>1. 1..0 = {} OBVIOUS
  <2>2. H[1..0] = F[0] BY <2>1, <1>6
  <2> QED BY <2>2, <1>0
<1>8. ASSUME NEW k \in 0..(N - 1), k \in T PROVE k + 1 \in T
  <2>1. k + 1 \in Nat \ {0} /\ k + 1 \in 1..N /\ (k + 1) - 1 = k BY <1>0
  <2>2. Max(1..(k + 1)) = k + 1 /\ (1..(k + 1)) \ {k + 1} = 1..k /\ 1..(k + 1) # {}
    BY <2>1, LastOfFirst
  <2>3. 1..(k + 1) \in SUBSET (1..N) BY <2>1
  <2>4. H[1..(k + 1)] = UnseenNext(known, H[1..k], s[k + 1]) BY <2>2, <2>3, <1>5
  <2>5. F[k + 1] = UnseenNext(known, F[k], s[k + 1]) BY <2>1
  <2>6. H[1..k] = F[k] BY <1>8
  <2> QED BY <2>4, <2>5, <2>6, <2>1
<1> HIDE DEF T
<1>9. T = 0..N BY <1>0, <1>7, <1>8, PrefixInduction
<1>10. H[1..N] = F[N]
  <2> USE DEF T
  <2>1. N \in T BY <1>9, <1>0
  <2> QED BY <2>1
<1> QED BY <1>4, <1>10

UnseenSteps(L, known, s, F) ==
    /\ F \in [0..Len(s) -> Seq(L)] /\ F[0] = <<>>
    /\ \A k \in 1..Len(s) : F[k] = UnseenNext(known, F[k - 1], s[k])

LEMMA UnseenRun ==
    ASSUME NEW L, NEW known \in Seq(L), NEW s \in Seq(L)
    PROVE  \E F : UnseenSteps(L, known, s, F)
<1> DEFINE V == Seq(L)
           G == [x \in V \X L |-> UnseenNext(known, x[1], x[2])]
<1>1. G \in [V \X L -> V] BY DEF UnseenNext
<1>2. <<>> \in V OBVIOUS
<1>3. PICK F : FoldRun(V, <<>>, G, s, F)
  <2> HIDE DEF G
  <2> QED BY <1>1, <1>2, FoldChain
<1>4. ASSUME NEW k \in 1..Len(s) PROVE F[k] = UnseenNext(known, F[k - 1], s[k])
  <2>1. k - 1 \in 0..Len(s) /\ s[k] \in L OBVIOUS
  <2>2. F[k - 1] \in V BY <2>1, <1>3 DEF FoldRun
  <2>3. F[k] = G[<<F[k - 1], s[k]>>] BY <1>3 DEF FoldRun
  <2> QED BY <2>1, <2>2, <2>3
<1> QED BY <1>3, <1>4 DEF FoldRun, UnseenSteps

\* One more lot is added when it was not seen and is not there yet.
LEMMA UnseenAppend ==
    ASSUME NEW L, NEW known \in Seq(L), NEW s \in Seq(L), NEW x \in L
    PROVE  /\ Unseen(known, s) \in Seq(L)
           /\ Unseen(known, Append(s, x)) = UnseenNext(known, Unseen(known, s), x)
<1> DEFINE N == Len(s)
           S == Append(s, x)
<1>1. N \in Nat /\ S \in Seq(L) /\ Len(S) = N + 1 /\ S[N + 1] = x
      /\ \A k \in 1..N : S[k] = s[k]
  OBVIOUS
<1>2. PICK F \in [0..(N + 1) -> Seq(L)] :
          /\ F[0] = <<>>
          /\ \A k \in 1..(N + 1) : F[k] = UnseenNext(known, F[k - 1], S[k])
  <2> HIDE DEF S
  <2>1. PICK F : UnseenSteps(L, known, S, F) BY <1>1, UnseenRun
  <2> QED BY <2>1, <1>1 DEF UnseenSteps
<1>3. Unseen(known, S) = F[N + 1]
  <2>1. /\ F \in [0..Len(S) -> Seq(L)] /\ F[0] = <<>>
        /\ \A k \in 1..Len(S) : F[k] = UnseenNext(known, F[k - 1], S[k])
    BY <1>1, <1>2
  <2> HIDE DEF S
  <2>2. Unseen(known, S) = F[Len(S)] BY <1>1, <2>1, UnseenFold
  <2> QED BY <1>1, <2>2
<1> DEFINE E == [k \in 0..N |-> F[k]]
<1>4. E \in [0..N -> Seq(L)] /\ E[0] = <<>> /\ E[N] = F[N] BY <1>1, <1>2
<1>5. ASSUME NEW k \in 1..N PROVE E[k] = UnseenNext(known, E[k - 1], s[k])
  <2>1. k \in 1..(N + 1) /\ k \in 0..N /\ k - 1 \in 0..N BY <1>1
  <2>2. F[k] = UnseenNext(known, F[k - 1], S[k]) BY <2>1, <1>2
  <2>3. S[k] = s[k] /\ E[k] = F[k] /\ E[k - 1] = F[k - 1] BY <2>1, <1>1
  <2> HIDE DEF S, E
  <2> QED BY <2>2, <2>3
<1>6. Unseen(known, s) = E[N]
  <2> HIDE DEF E
  <2> QED BY <1>4, <1>5, UnseenFold
<1>7. F[N + 1] = UnseenNext(known, F[N], x)
  <2>1. N + 1 \in 1..(N + 1) /\ (N + 1) - 1 = N BY <1>1
  <2> HIDE DEF S
  <2> QED BY <2>1, <1>1, <1>2
<1> HIDE DEF S, E
<1>8. E[N] \in Seq(L) BY <1>1, <1>4
<1> QED BY <1>3, <1>4, <1>6, <1>7, <1>8 DEF S

LEMMA UnseenEmpty ==
    ASSUME NEW L, NEW known \in Seq(L)
    PROVE  Unseen(known, <<>>) = <<>>
<1>0. <<>> \in Seq(L) OBVIOUS
<1>1. PICK s \in Seq(L) : s = <<>> BY <1>0
<1>2. PICK F : UnseenSteps(L, known, s, F) BY UnseenRun
<1>3. Len(s) = 0 BY <1>1
<1>4. F[Len(s)] = <<>> BY <1>2, <1>3 DEF UnseenSteps
<1>5. Unseen(known, s) = F[Len(s)] BY <1>2, UnseenFold DEF UnseenSteps
<1> QED BY <1>1, <1>4, <1>5

LEMMA UnseenType ==
    ASSUME NEW L, NEW known \in Seq(L), NEW s \in Seq(L)
    PROVE  Unseen(known, s) \in Seq(L)
<1>1. PICK F : UnseenSteps(L, known, s, F) BY UnseenRun
<1>2. Unseen(known, s) = F[Len(s)] BY <1>1, UnseenFold DEF UnseenSteps
<1>3. Len(s) \in 0..Len(s) OBVIOUS
<1> QED BY <1>1, <1>2, <1>3 DEF UnseenSteps

\* The first n + 1 members are the first n and the next.
LEMMA SubSeqNext ==
    ASSUME NEW L, NEW s \in Seq(L), NEW n \in 0..(Len(s) - 1)
    PROVE  SubSeq(s, 1, n + 1) = Append(SubSeq(s, 1, n), s[n + 1])
           /\ SubSeq(s, 1, n) \in Seq(L) /\ s[n + 1] \in L
<1>1. Len(s) \in Nat /\ n + 1 \in 1..Len(s) OBVIOUS
<1>2. /\ SubSeq(s, 1, n + 1) \in Seq(L) /\ Len(SubSeq(s, 1, n + 1)) = n + 1
      /\ \A i \in 1..(n + 1) : SubSeq(s, 1, n + 1)[i] = s[i]
  BY <1>1
<1>3. /\ SubSeq(s, 1, n) \in Seq(L) /\ Len(SubSeq(s, 1, n)) = n
      /\ \A i \in 1..n : SubSeq(s, 1, n)[i] = s[i]
  BY <1>1
<1> DEFINE more == SubSeq(s, 1, n + 1)
           less == SubSeq(s, 1, n)
           then == Append(less, s[n + 1])
<1>4. s[n + 1] \in L BY <1>1
<1>5. more \in Seq(L) /\ Len(more) = n + 1 /\ \A i \in 1..(n + 1) : more[i] = s[i] BY <1>2
<1>6. less \in Seq(L) /\ Len(less) = n /\ \A i \in 1..n : less[i] = s[i] BY <1>3
<1> HIDE DEF more, less
<1>7. then \in Seq(L) /\ Len(then) = n + 1 /\ then[n + 1] = s[n + 1]
      /\ \A i \in 1..n : then[i] = less[i]
  BY <1>1, <1>4, <1>6, AppendProperties
<1> HIDE DEF then
<1>8. \A i \in 1..(n + 1) : i \in 1..n \/ i = n + 1 BY <1>1
<1>9. \A i \in 1..Len(more) : more[i] = then[i] BY <1>5, <1>6, <1>7, <1>8
<1>10. more = then BY <1>5, <1>7, <1>9, SeqEqual
<1> QED BY <1>4, <1>6, <1>10 DEF more, less, then

LEMMA SeqConcatAssoc ==
    ASSUME NEW L, NEW a \in Seq(L), NEW b \in Seq(L), NEW c \in Seq(L)
    PROVE  (a \o b) \o c = a \o (b \o c)
<1> DEFINE l == (a \o b) \o c
           r == a \o (b \o c)
<1>1. Len(a) \in Nat /\ Len(b) \in Nat /\ Len(c) \in Nat OBVIOUS
<1>2. /\ a \o b \in Seq(L) /\ Len(a \o b) = Len(a) + Len(b)
      /\ \A i \in 1..(Len(a) + Len(b)) :
             (a \o b)[i] = IF i <= Len(a) THEN a[i] ELSE b[i - Len(a)]
  BY ConcatProperties
<1>3. /\ b \o c \in Seq(L) /\ Len(b \o c) = Len(b) + Len(c)
      /\ \A i \in 1..(Len(b) + Len(c)) :
             (b \o c)[i] = IF i <= Len(b) THEN b[i] ELSE c[i - Len(b)]
  BY ConcatProperties
<1> DEFINE p == a \o b
           q == b \o c
<1> HIDE DEF p, q
<1>4. p \in Seq(L) /\ q \in Seq(L) BY <1>2, <1>3 DEF p, q
<1>5. /\ p \o c \in Seq(L) /\ Len(p \o c) = Len(p) + Len(c)
      /\ \A i \in 1..(Len(p) + Len(c)) :
             (p \o c)[i] = IF i <= Len(p) THEN p[i] ELSE c[i - Len(p)]
  BY <1>4, ConcatProperties
<1>6. /\ a \o q \in Seq(L) /\ Len(a \o q) = Len(a) + Len(q)
      /\ \A i \in 1..(Len(a) + Len(q)) :
             (a \o q)[i] = IF i <= Len(a) THEN a[i] ELSE q[i - Len(a)]
  BY <1>4, ConcatProperties
<1>7. Len(p) = Len(a) + Len(b) /\ Len(q) = Len(b) + Len(c) BY <1>2, <1>3 DEF p, q
<1>8. ASSUME NEW i \in 1..(Len(a) + Len(b) + Len(c)) PROVE (p \o c)[i] = (a \o q)[i]
  <2>1. (p \o c)[i] = IF i <= Len(p) THEN p[i] ELSE c[i - Len(p)] BY <1>1, <1>5, <1>7
  <2>2. (a \o q)[i] = IF i <= Len(a) THEN a[i] ELSE q[i - Len(a)] BY <1>1, <1>6, <1>7
  <2>3. i <= Len(p) => p[i] = IF i <= Len(a) THEN a[i] ELSE b[i - Len(a)]
    BY <1>1, <1>2, <1>7 DEF p
  <2>4. i > Len(a) =>
          q[i - Len(a)] = IF i - Len(a) <= Len(b) THEN b[i - Len(a)] ELSE c[(i - Len(a)) - Len(b)]
    <3>1. SUFFICES ASSUME i > Len(a)
                   PROVE q[i - Len(a)] = IF i - Len(a) <= Len(b) THEN b[i - Len(a)]
                                         ELSE c[(i - Len(a)) - Len(b)]
      OBVIOUS
    <3>2. i - Len(a) \in 1..(Len(b) + Len(c)) BY <1>1, <3>1
    <3> QED BY <3>2, <1>3 DEF q
  <2>5. (i - Len(a)) - Len(b) = i - Len(p) /\ (i - Len(a) <= Len(b) <=> i <= Len(p))
    BY <1>1, <1>7
  <2>6. i <= Len(a) => i <= Len(p) BY <1>1, <1>7
  <2> QED BY <1>1, <2>1, <2>2, <2>3, <2>4, <2>5, <2>6
<1>9. p \o c = a \o q
  <2>1. Len(p \o c) = Len(a) + Len(b) + Len(c) /\ Len(a \o q) = Len(a) + Len(b) + Len(c)
    BY <1>1, <1>5, <1>6, <1>7
  <2> DEFINE x == p \o c
             y == a \o q
  <2>2. x \in Seq(L) /\ y \in Seq(L) /\ Len(x) = Len(y) /\ \A i \in 1..Len(x) : x[i] = y[i]
    BY <1>5, <1>6, <1>8, <2>1
  <2> HIDE DEF x, y
  <2>3. x = y BY <2>2, SeqEqual
  <2> QED BY <2>3 DEF x, y
<1> QED BY <1>9 DEF p, q

Joined(a, b) == a \o b

LEMMA JoinedAssoc ==
    ASSUME NEW L, NEW a \in Seq(L), NEW b \in Seq(L), NEW c \in Seq(L)
    PROVE  Joined(Joined(a, b), c) = Joined(a, Joined(b, c))
<1>1. (a \o b) \o c = a \o (b \o c)
  <2> DEFINE l == (a \o b) \o c
             r == a \o (b \o c)
  <2>1. l = r BY SeqConcatAssoc
  <2> HIDE DEF l, r
  <2> QED BY <2>1 DEF l, r
<1> QED BY <1>1 DEF Joined

\* Two listings one after the other show what the first shows, then what the
\* second adds.
LEMMA UnseenConcat ==
    ASSUME NEW L, NEW known \in Seq(L), NEW A \in Seq(L), NEW B \in Seq(L)
    PROVE  Unseen(known, Joined(A, B)) =
               Joined(Unseen(known, A), Unseen(Joined(known, Unseen(known, A)), B))
<1> DEFINE N == Len(B)
           U == Unseen(known, A)
           W == known \o U
           P(k) == SubSeq(B, 1, k)
           T == {k \in 0..N : Unseen(known, A \o P(k)) = U \o Unseen(W, P(k))}
<1>0. N \in Nat OBVIOUS
<1>1. U \in Seq(L) BY UnseenType
<1> HIDE DEF U
<1>2. W \in Seq(L) BY <1>1
<1>3. T \in SUBSET (0..N) /\ 0 \in T
  <2>1. P(0) = <<>> BY <1>0
  <2>2. A \o <<>> = A /\ U \o <<>> = U BY <1>1
  <2> HIDE DEF W, P
  <2>3. Unseen(W, <<>>) = <<>> BY <1>2, UnseenEmpty
  <2>4. Unseen(known, A \o P(0)) = U \o Unseen(W, P(0)) BY <2>1, <2>2, <2>3 DEF U
  <2> QED BY <2>4, <1>0
<1>4. ASSUME NEW k \in 0..(N - 1), k \in T PROVE k + 1 \in T
  <2> DEFINE x == B[k + 1]
             V == Unseen(W, P(k))
  <2>1. P(k + 1) = Append(P(k), x) /\ P(k) \in Seq(L) /\ x \in L BY SubSeqNext
  <2>2. A \o P(k) \in Seq(L) /\ A \o P(k + 1) = Append(A \o P(k), x) BY <2>1
  <2>3. Unseen(known, A \o P(k)) = U \o V BY <1>4
  <2> HIDE DEF P, x, W
  <2>4. Unseen(known, A \o P(k + 1)) = UnseenNext(known, U \o V, x)
    <3>1. Unseen(known, Append(A \o P(k), x)) = UnseenNext(known, Unseen(known, A \o P(k)), x)
      <4> DEFINE Q == A \o P(k)
      <4>1. Q \in Seq(L) BY <2>2
      <4> HIDE DEF Q
      <4>2. Unseen(known, Append(Q, x)) = UnseenNext(known, Unseen(known, Q), x)
        BY <4>1, <2>1, UnseenAppend
      <4> QED BY <4>2 DEF Q
    <3> QED BY <3>1, <2>2, <2>3
  <2>5. V \in Seq(L) /\ Unseen(W, P(k + 1)) = UnseenNext(W, V, x)
    <3>1. Unseen(W, Append(P(k), x)) = UnseenNext(W, V, x) /\ V \in Seq(L)
      BY <1>2, <2>1, UnseenAppend
    <3> QED BY <3>1, <2>1
  <2> HIDE DEF V
  <2>6. known \o (U \o V) = W \o V
    <3>1. known \in Seq(L) /\ U \in Seq(L) /\ V \in Seq(L) BY <1>1, <2>5
    <3>2. Joined(Joined(known, U), V) = Joined(known, Joined(U, V)) BY <3>1, JoinedAssoc
    <3> QED BY <3>2 DEF W, Joined
  <2>7. UnseenNext(known, U \o V, x) = U \o UnseenNext(W, V, x)
    <3>1. U \o Append(V, x) = Append(U \o V, x) BY <1>1, <2>1, <2>5
    <3> QED BY <3>1, <2>6 DEF UnseenNext
  <2>8. k + 1 \in 0..N BY <1>0
  <2> USE DEF V
  <2> QED BY <2>4, <2>5, <2>7, <2>8
<1> HIDE DEF T
<1>5. T = 0..N BY <1>0, <1>3, <1>4, PrefixInduction
<1>6. P(N) = B OBVIOUS
<1> USE DEF T
<1>7. N \in T BY <1>5, <1>0
<1> QED BY <1>6, <1>7 DEF U, Joined

\* F[k] is the first k listings one after the other.
FlattenSteps(L, r, F) ==
    /\ F \in [0..Len(r) -> Seq(L)] /\ F[0] = <<>>
    /\ \A k \in 1..Len(r) : F[k] = F[k - 1] \o r[k]

LEMMA FlattenRun ==
    ASSUME NEW L, NEW r \in Seq(Seq(L))
    PROVE  \E F : FlattenSteps(L, r, F)
<1> DEFINE V == Seq(L)
           G == [x \in V \X V |-> x[1] \o x[2]]
<1>1. G \in [V \X V -> V] OBVIOUS
<1>2. <<>> \in V OBVIOUS
<1>3. PICK F : FoldRun(V, <<>>, G, r, F)
  <2> HIDE DEF G
  <2> QED BY <1>1, <1>2, FoldChain
<1>4. ASSUME NEW k \in 1..Len(r) PROVE F[k] = F[k - 1] \o r[k]
  <2>1. k - 1 \in 0..Len(r) /\ r[k] \in V OBVIOUS
  <2>2. F[k - 1] \in V BY <2>1, <1>3 DEF FoldRun
  <2>3. F[k] = G[<<F[k - 1], r[k]>>] BY <1>3 DEF FoldRun
  <2> QED BY <2>1, <2>2, <2>3
<1> QED BY <1>3, <1>4 DEF FoldRun, FlattenSteps

LEMMA FlattenFold ==
    ASSUME NEW L, NEW r \in Seq(Seq(L)), NEW F, FlattenSteps(L, r, F)
    PROVE  FlattenSeq(r) = F[Len(r)]
<1> DEFINE N == Len(r)
           Solves(f) == f = [i \in 1..N |-> IF i = 1 THEN r[i] ELSE f[i - 1] \o r[i]]
           H == CHOOSE f : Solves(f)
<1>0. N \in Nat /\ \A k \in 1..N : r[k] \in Seq(L) OBVIOUS
<1>1. CASE N = 0
  <2>1. r = <<>> BY <1>1
  <2>2. FlattenSeq(r) = r BY <1>1 DEF FlattenSeq
  <2> QED BY <1>1, <2>1, <2>2 DEF FlattenSteps
<1>2. CASE N # 0
  <2> DEFINE E == [i \in 1..N |-> F[i]]
  <2>1. ASSUME NEW i \in 1..N PROVE E[i] = IF i = 1 THEN r[i] ELSE E[i - 1] \o r[i]
    <3>1. F[i] = F[i - 1] \o r[i] BY DEF FlattenSteps
    <3>2. CASE i = 1
      <4>1. F[0] = <<>> /\ r[1] \in Seq(L) BY <1>0, <3>2 DEF FlattenSteps
      <4>2. <<>> \o r[1] = r[1] BY <4>1
      <4>3. i - 1 = 0 BY <3>2
      <4>4. F[i] = r[1] BY <3>1, <3>2, <4>1, <4>2, <4>3
      <4> QED BY <4>4, <3>2
    <3>3. CASE i # 1
      <4>1. i - 1 \in 1..N BY <3>3, <1>0
      <4>2. E[i - 1] = F[i - 1] /\ E[i] = F[i] BY <4>1
      <4> HIDE DEF E
      <4> QED BY <4>2, <3>1, <3>3
    <3> QED BY <3>2, <3>3
  <2>2. Solves(E)
    <3>1. DOMAIN E = 1..N /\ E = [i \in 1..N |-> E[i]] OBVIOUS
    <3> HIDE DEF E
    <3> QED BY <3>1, <2>1
  <2>3. Solves(H)
    <3> HIDE DEF Solves, E
    <3> QED BY <2>2
  <2>4. \A i \in 1..N : H[i] = IF i = 1 THEN r[i] ELSE H[i - 1] \o r[i]
    <3>1. Solves(H) => \A i \in 1..N : H[i] = IF i = 1 THEN r[i] ELSE H[i - 1] \o r[i]
      <4> HIDE DEF H
      <4> QED OBVIOUS
    <3> HIDE DEF Solves, H
    <3> QED BY <3>1, <2>3
  <2>5. FlattenSeq(r) = H[N] BY <1>2 DEF FlattenSeq
  <2> HIDE DEF H
  <2> DEFINE T == {k \in 0..N : k = 0 \/ H[k] = E[k]}
  <2>6. T \in SUBSET (0..N) /\ 0 \in T BY <1>0
  <2>7. ASSUME NEW k \in 0..(N - 1), k \in T PROVE k + 1 \in T
    <3>1. k + 1 \in 1..N /\ (k + 1) - 1 = k BY <1>0
    <3>2. H[k + 1] = (IF k + 1 = 1 THEN r[k + 1] ELSE H[k] \o r[k + 1]) BY <3>1, <2>4
    <3>3. E[k + 1] = (IF k + 1 = 1 THEN r[k + 1] ELSE E[k] \o r[k + 1])
      <4> HIDE DEF E
      <4> QED BY <3>1, <2>1
    <3> HIDE DEF E
    <3>4. CASE k = 0 BY <3>4, <3>2, <3>3, <3>1
    <3>5. CASE k # 0
      <4>1. H[k] = E[k] /\ k + 1 # 1 BY <2>7, <3>5
      <4>2. H[k + 1] = E[k + 1] BY <4>1, <3>2, <3>3
      <4> QED BY <4>2, <3>1
    <3> QED BY <3>4, <3>5
  <2> HIDE DEF T
  <2>8. T = 0..N BY <1>0, <2>6, <2>7, PrefixInduction
  <2>9. N \in T BY <2>8, <1>0
  <2> USE DEF T
  <2>10. H[N] = E[N] BY <2>9, <1>2
  <2> QED BY <2>5, <2>10, <1>0, <1>2
<1> QED BY <1>1, <1>2

LEMMA FlattenType ==
    ASSUME NEW L, NEW r \in Seq(Seq(L))
    PROVE  FlattenSeq(r) \in Seq(L)
<1>1. PICK F : FlattenSteps(L, r, F) BY FlattenRun
<1>2. FlattenSeq(r) = F[Len(r)] BY <1>1, FlattenFold
<1>3. Len(r) \in 0..Len(r) OBVIOUS
<1> QED BY <1>1, <1>2, <1>3 DEF FlattenSteps

\* One more listing comes after those before it.
LEMMA FlattenAppend ==
    ASSUME NEW L, NEW r \in Seq(Seq(L)), NEW p \in Seq(L)
    PROVE  FlattenSeq(Append(r, p)) = FlattenSeq(r) \o p
<1> DEFINE N == Len(r)
           S == Append(r, p)
<1>1. N \in Nat /\ S \in Seq(Seq(L)) /\ Len(S) = N + 1 /\ S[N + 1] = p
      /\ \A k \in 1..N : S[k] = r[k]
  OBVIOUS
<1> HIDE DEF S
<1>2. PICK F : FlattenSteps(L, S, F) BY <1>1, FlattenRun
<1>3. FlattenSeq(S) = F[N + 1] BY <1>1, <1>2, FlattenFold
<1> DEFINE E == [k \in 0..N |-> F[k]]
<1>4. F \in [0..(N + 1) -> Seq(L)] /\ F[0] = <<>> BY <1>1, <1>2 DEF FlattenSteps
<1>5. E \in [0..N -> Seq(L)] /\ E[0] = <<>> /\ E[N] = F[N] BY <1>1, <1>4
<1>6. ASSUME NEW k \in 1..N PROVE E[k] = E[k - 1] \o r[k]
  <2>1. k \in 1..(N + 1) /\ k \in 0..N /\ k - 1 \in 0..N BY <1>1
  <2>2. F[k] = F[k - 1] \o S[k] BY <2>1, <1>1, <1>2 DEF FlattenSteps
  <2>3. S[k] = r[k] /\ E[k] = F[k] /\ E[k - 1] = F[k - 1] BY <2>1, <1>1
  <2> HIDE DEF E
  <2> QED BY <2>2, <2>3
<1> HIDE DEF E
<1>7. FlattenSteps(L, r, E) BY <1>5, <1>6 DEF FlattenSteps
<1>8. FlattenSeq(r) = E[N] BY <1>7, FlattenFold
<1>9. F[N + 1] = F[N] \o p
  <2>1. N + 1 \in 1..(N + 1) /\ (N + 1) - 1 = N BY <1>1
  <2> QED BY <2>1, <1>1, <1>2 DEF FlattenSteps
<1> QED BY <1>3, <1>5, <1>8, <1>9 DEF S

LEMMA FlattenEmpty == FlattenSeq(<<>>) = <<>>
BY DEF FlattenSeq

LEMMA ContainsConcat ==
    ASSUME NEW L, NEW a \in Seq(L), NEW b \in Seq(L), NEW l
    PROVE  Contains(a \o b, l) <=> Contains(a, l) \/ Contains(b, l)
<1>1. Len(a) \in Nat /\ Len(b) \in Nat OBVIOUS
<1>2. /\ Len(a \o b) = Len(a) + Len(b)
      /\ \A i \in 1..(Len(a) + Len(b)) :
             (a \o b)[i] = IF i <= Len(a) THEN a[i] ELSE b[i - Len(a)]
  BY ConcatProperties
<1> DEFINE c == a \o b
<1> HIDE DEF c
<1>3. Len(c) = Len(a) + Len(b) /\ \A i \in 1..(Len(a) + Len(b)) :
          c[i] = IF i <= Len(a) THEN a[i] ELSE b[i - Len(a)]
  BY <1>2 DEF c
<1>4. Contains(c, l) => Contains(a, l) \/ Contains(b, l)
  <2> SUFFICES ASSUME NEW i \in 1..Len(c), c[i] = l PROVE Contains(a, l) \/ Contains(b, l)
    BY DEF Contains
  <2>1. CASE i <= Len(a) BY <2>1, <1>1, <1>3 DEF Contains
  <2>2. CASE ~(i <= Len(a))
    <3>1. i - Len(a) \in 1..Len(b) BY <2>2, <1>1, <1>3
    <3> QED BY <3>1, <2>2, <1>1, <1>3 DEF Contains
  <2> QED BY <2>1, <2>2
<1>5. Contains(a, l) => Contains(c, l)
  <2> SUFFICES ASSUME NEW i \in 1..Len(a), a[i] = l PROVE Contains(c, l) BY DEF Contains
  <2>1. i \in 1..Len(c) BY <1>1, <1>3
  <2> QED BY <2>1, <1>1, <1>3 DEF Contains
<1>6. Contains(b, l) => Contains(c, l)
  <2> SUFFICES ASSUME NEW i \in 1..Len(b), b[i] = l PROVE Contains(c, l) BY DEF Contains
  <2>1. i + Len(a) \in 1..Len(c) /\ ~(i + Len(a) <= Len(a)) /\ (i + Len(a)) - Len(a) = i
    BY <1>1, <1>3
  <2>2. c[i + Len(a)] = b[i] BY <2>1, <1>3
  <2> QED BY <2>1, <2>2 DEF Contains
<1> QED BY <1>4, <1>5, <1>6 DEF c

\* A sequence without repetition is all unseen, and stays so with one more lot.
LEMMA UnseenLonger ==
    ASSUME NEW L, NEW s \in Seq(L), NEW x \in L, Unseen(<<>>, s) = s, ~Contains(s, x)
    PROVE  Unseen(<<>>, Append(s, x)) = Append(s, x)
<1>0. <<>> \in Seq(L) OBVIOUS
<1>1. PICK e \in Seq(L) : e = <<>> BY <1>0
<1>2. Unseen(e, Append(s, x)) = UnseenNext(e, Unseen(e, s), x) BY UnseenAppend
<1>3. e \o s = s BY <1>1
<1>4. UnseenNext(e, s, x) = Append(s, x) BY <1>3 DEF UnseenNext
<1> QED BY <1>1, <1>2, <1>4

Acc == [found : Seq(Lots), counted : Nat]

YieldSteps(acc, s, F) ==
    /\ F \in [0..Len(s) -> Acc] /\ F[0] = acc
    /\ \A k \in 1..Len(s) : F[k] = Yield(F[k - 1], s[k])

LEMMA YieldType ==
    ASSUME skip \in Nat, NEW acc \in Acc, NEW l \in Lots
    PROVE  Yield(acc, l) \in Acc
<1>1. acc.found \in Seq(Lots) /\ acc.counted \in Nat BY DEF Acc
<1>2. Append(acc.found, l) \in Seq(Lots) BY <1>1
<1>3. (IF acc.counted >= skip THEN Append(acc.found, l) ELSE acc.found) \in Seq(Lots)
  BY <1>1, <1>2
<1>4. acc.counted + 1 \in Nat BY <1>1
<1> QED BY <1>3, <1>4 DEF Yield, Acc

LEMMA YieldRun ==
    ASSUME skip \in Nat, NEW acc \in Acc, NEW s \in Seq(Lots)
    PROVE  \E F : YieldSteps(acc, s, F)
<1> DEFINE G == [x \in Acc \X Lots |-> Yield(x[1], x[2])]
<1>1. G \in [Acc \X Lots -> Acc] BY YieldType
<1>3. PICK F : FoldRun(Acc, acc, G, s, F)
  <2> HIDE DEF G
  <2> QED BY <1>1, FoldChain
<1>4. ASSUME NEW k \in 1..Len(s) PROVE F[k] = Yield(F[k - 1], s[k])
  <2>1. k - 1 \in 0..Len(s) /\ s[k] \in Lots OBVIOUS
  <2>2. F[k - 1] \in Acc BY <2>1, <1>3 DEF FoldRun
  <2>3. F[k] = G[<<F[k - 1], s[k]>>] BY <1>3 DEF FoldRun
  <2> QED BY <2>1, <2>2, <2>3
<1> QED BY <1>3, <1>4 DEF FoldRun, YieldSteps

\* The lots of an auction are taken lot by lot.
LEMMA YieldFold ==
    ASSUME skip \in Nat, NEW acc \in Acc, NEW s \in Seq(Lots), NEW F, YieldSteps(acc, s, F)
    PROVE  FoldLeft(Yield, acc, s) = F[Len(s)]
<1> DEFINE N == Len(s)
           G == [x \in Acc \X Lots |-> Yield(x[1], x[2])]
           Solves(h) == h = [t \in SUBSET (1..N) |->
                               IF t = {} THEN acc ELSE Yield(h[t \ {Max(t)}], s[Max(t)])]
           H == CHOOSE h : Solves(h)
<1>0. N \in Nat /\ DOMAIN s = 1..N /\ \A k \in 1..N : s[k] \in Lots OBVIOUS
<1>1. G \in [Acc \X Lots -> Acc] BY YieldType
<1>2. \E h : Solves(h)
  <2>2. PICK h : FoldSolution(Acc, acc, G, s, h)
    <3> HIDE DEF G
    <3> QED BY <1>1, FoldSolved
  <2>3. ASSUME NEW t \in SUBSET (1..N), t # {}
        PROVE h[t] = Yield(h[t \ {Max(t)}], s[Max(t)])
    <3>1. Max(t) \in t BY <2>3, <1>0, LastPosition
    <3>2. t \ {Max(t)} \in SUBSET (1..N) /\ Max(t) \in 1..N BY <3>1
    <3>3. h[t \ {Max(t)}] \in Acc /\ s[Max(t)] \in Lots BY <3>2, <2>2, <1>0 DEF FoldSolution
    <3>4. h[t] = G[<<h[t \ {Max(t)}], s[Max(t)]>>] BY <2>2, <2>3 DEF FoldSolution
    <3> QED BY <3>3, <3>4
  <2>4. h[{}] = acc BY <2>2 DEF FoldSolution
  <2>5. Solves(h) BY <2>2, <2>3, <2>4 DEF FoldSolution
  <2> HIDE DEF Solves
  <2> QED BY <2>5
<1>3. Solves(H)
  <2> HIDE DEF Solves
  <2> QED BY <1>2
<1>4. FoldLeft(Yield, acc, s) = H[1..N]
  <2>1. FoldLeft(Yield, acc, s) = H[DOMAIN s] BY <1>0 DEF FoldLeft, MapThenFoldSet
  <2> QED BY <2>1, <1>0
<1>5. \A t \in SUBSET (1..N) : t # {} => H[t] = Yield(H[t \ {Max(t)}], s[Max(t)])
  <2>1. Solves(H) => \A t \in SUBSET (1..N) :
            t # {} => H[t] = Yield(H[t \ {Max(t)}], s[Max(t)])
    <3> HIDE DEF H
    <3> QED OBVIOUS
  <2> HIDE DEF Solves, H
  <2> QED BY <2>1, <1>3
<1>6. H[{}] = acc
  <2>1. Solves(H) => H[{}] = acc
    <3> HIDE DEF H
    <3> QED OBVIOUS
  <2> HIDE DEF Solves, H
  <2> QED BY <2>1, <1>3
<1> HIDE DEF H, Solves, G
<1> DEFINE T == {k \in 0..N : H[1..k] = F[k]}
<1>7. T \in SUBSET (0..N) /\ 0 \in T
  <2>1. 1..0 = {} OBVIOUS
  <2>2. H[1..0] = F[0] BY <2>1, <1>6 DEF YieldSteps
  <2> QED BY <2>2, <1>0
<1>8. ASSUME NEW k \in 0..(N - 1), k \in T PROVE k + 1 \in T
  <2>1. k + 1 \in Nat \ {0} /\ k + 1 \in 1..N /\ (k + 1) - 1 = k BY <1>0
  <2>2. Max(1..(k + 1)) = k + 1 /\ (1..(k + 1)) \ {k + 1} = 1..k /\ 1..(k + 1) # {}
    BY <2>1, LastOfFirst
  <2>3. 1..(k + 1) \in SUBSET (1..N) BY <2>1
  <2>4. H[1..(k + 1)] = Yield(H[1..k], s[k + 1]) BY <2>2, <2>3, <1>5
  <2>5. F[k + 1] = Yield(F[k], s[k + 1]) BY <2>1 DEF YieldSteps
  <2>6. H[1..k] = F[k] BY <1>8
  <2> QED BY <2>4, <2>5, <2>6, <2>1
<1> HIDE DEF T
<1>9. T = 0..N BY <1>0, <1>7, <1>8, PrefixInduction
<1>10. N \in T BY <1>9, <1>0
<1> USE DEF T
<1>11. H[1..N] = F[N] BY <1>10
<1> QED BY <1>4, <1>11

-----------------------------------------------------------------------------
(* The invariant.                                                          *)

Listing == {"start", "prepare", "count", "recount", "list", "listed"}
Shown == FlattenSeq(read)
ShownCut == FlattenSeq([i \in 1..Len(read) |-> Firsts(read[i], limit)])
StoredLots == SetToSeq({l \in Lots : tx[l] # None})
Distinct(s) == \A i, j \in 1..Len(s) : s[i] = s[j] => i = j

\* What has been collected is what the pages read so far show.
FoundBefore ==
    phase \in {"start", "prepare", "count", "recount"} => read = <<>> /\ found = <<>> /\ counted = 0
FoundAuction ==
    phase \in {"list", "listed"} /\ source = "sothebys" =>
        /\ skip = 0 => found = Unseen(StoredLots, ShownCut)
        /\ Unseen(<<>>, found) = found
FoundWhole == phase = "list" /\ source # "sothebys" => found = Unseen(<<>>, Shown)
FoundOpen == phase = "list" /\ source \in {"christies", "lottissimo"} => ~Enough(found)
FoundCut ==
    phase = "listed" /\ source # "sothebys" => Cut(found) = Cut(Unseen(<<>>, Shown))

FoundOK == FoundBefore /\ FoundAuction /\ FoundWhole /\ FoundOpen /\ FoundCut

\* Where the loop over the lots is.
LoopOK ==
    /\ phase \in Listing => queue = <<>> /\ done = 0 /\ written = 0 /\ savedFrom = NoRows
    /\ phase = "scrape" => done < Len(queue)
    /\ phase \in {"final", "ending", "done"} => done = Len(queue)
    /\ Distinct(queue)
    /\ \A l \in Lots : savedFrom[l] # None => \E j \in 1..done : queue[j] = l

Processings == IF source = "lostart" THEN written ELSE done
Pending == IF phase = "commit" THEN CommitEvery ELSE Processings % CommitEvery
Touched == {l \in Lots : tx[l] # rows[l]}

\* What is not committed yet.
BatchOK ==
    /\ phase \in {"start", "stopping", "done", "failed", "crashed"} => tx = rows
    /\ ~purge => /\ \A l \in Lots : savedFrom[l] = None => tx[l] = rows[l]
                 /\ Cardinality(Touched) <= Pending
    /\ purge /\ source # "lostart" /\ phase \in {"scrape", "commit", "final", "ending"} =>
           queue # <<>>
    /\ phase \in {"done", "failed"} => browser = {}

\* What a saved row keeps of the committed one.
Keeps(l) ==
    /\ tx[l] # None
    /\ \A i \in rows[l].images \ tx[l].images : savedFrom[l] # None /\ i \notin savedFrom[l].offered

KeptOK ==
    source \notin {"lostart", "christies"} /\ ~purge =>
        \A l \in Lots : rows[l] # None => Keeps(l)

SInv == SourceTypeOK /\ FoundOK /\ LoopOK /\ BatchOK /\ RowsFollowPages /\ KeptOK

-----------------------------------------------------------------------------
(* What the listing operators compute.                                     *)

\* What one auction adds: the lots it shows that are neither stored nor found,
\* once each, when none is to be skipped; and never a lot twice.
LEMMA YieldShows ==
    ASSUME skip \in Nat, NEW acc \in Acc, NEW s \in Seq(Lots), NEW st \in Seq(Lots),
           \A l \in Lots : Contains(st, l) <=> tx[l] # None
    PROVE  /\ FoldLeft(Yield, acc, s) \in Acc
           /\ skip = 0 => FoldLeft(Yield, acc, s).found =
                              acc.found \o Unseen(st \o acc.found, s)
           /\ Unseen(<<>>, acc.found) = acc.found =>
                  Unseen(<<>>, FoldLeft(Yield, acc, s).found) = FoldLeft(Yield, acc, s).found
<1> DEFINE N == Len(s)
           f == acc.found
           W == st \o f
           P(k) == SubSeq(s, 1, k)
<1>0. N \in Nat /\ f \in Seq(Lots) /\ W \in Seq(Lots) BY DEF Acc
<1>1. PICK F : YieldSteps(acc, s, F) BY YieldRun
<1>2. FoldLeft(Yield, acc, s) = F[N] BY <1>1, YieldFold
<1>3. \A k \in 0..N : F[k] \in Acc BY <1>1 DEF YieldSteps
<1>4. ASSUME skip = 0 PROVE F[N].found = f \o Unseen(W, s)
  <2> DEFINE T == {k \in 0..N : F[k].found = f \o Unseen(W, P(k))}
  <2>1. T \in SUBSET (0..N) /\ 0 \in T
    <3>1. P(0) = <<>> /\ f \o <<>> = f BY <1>0
    <3>2. Unseen(W, <<>>) = <<>>
      <4> HIDE DEF W
      <4> QED BY <1>0, UnseenEmpty
    <3>3. F[0].found = f BY <1>1 DEF YieldSteps
    <3>4. F[0].found = f \o Unseen(W, P(0)) BY <3>1, <3>2, <3>3
    <3>5. 0 \in 0..N BY <1>0
    <3> HIDE DEF P, W, f
    <3> QED BY <3>4, <3>5
  <2>2. ASSUME NEW k \in 0..(N - 1), k \in T PROVE k + 1 \in T
    <3> DEFINE x == s[k + 1]
               V == Unseen(W, P(k))
    <3>1. P(k + 1) = Append(P(k), x) /\ P(k) \in Seq(Lots) /\ x \in Lots BY SubSeqNext
    <3>2. F[k].found = f \o V BY <2>2
    <3>3. F[k + 1] = Yield(F[k], x)
      <4>1. k + 1 \in 1..N /\ (k + 1) - 1 = k BY <1>0
      <4> QED BY <4>1, <1>1 DEF YieldSteps
    <3>4. F[k] \in Acc /\ k + 1 \in 0..N BY <1>3, <1>0
    <3> HIDE DEF P, x, W
    <3>5. V \in Seq(Lots) /\ Unseen(W, P(k + 1)) = UnseenNext(W, V, x)
      <4>1. Unseen(W, Append(P(k), x)) = UnseenNext(W, V, x) /\ V \in Seq(Lots)
        BY <1>0, <3>1, UnseenAppend
      <4> QED BY <4>1, <3>1
    <3> HIDE DEF V
    <3>6. F[k + 1].found = IF tx[x] # None \/ Contains(f \o V, x) THEN f \o V
                           ELSE Append(f \o V, x)
      <4>1. F[k].counted >= skip BY <1>4, <3>4 DEF Acc
      <4>2. F[k + 1] = IF tx[x] # None \/ Contains(F[k].found, x) THEN F[k]
                       ELSE [found |-> Append(F[k].found, x), counted |-> F[k].counted + 1]
        BY <4>1, <3>3 DEF Yield
      <4>3. F[k + 1].found = IF tx[x] # None \/ Contains(F[k].found, x) THEN F[k].found
                             ELSE Append(F[k].found, x)
        BY <4>2
      <4> QED BY <4>3, <3>2
    <3>7. tx[x] # None \/ Contains(f \o V, x) <=> Contains(W \o V, x)
      <4>1. tx[x] # None <=> Contains(st, x) BY <3>1
      <4>2. f \o V \in Seq(Lots) BY <1>0, <3>5
      <4>3. Contains(st \o (f \o V), x) <=> Contains(st, x) \/ Contains(f \o V, x)
        <5> DEFINE q == f \o V
        <5>1. q \in Seq(Lots) BY <4>2
        <5> HIDE DEF q
        <5>2. Contains(st \o q, x) <=> Contains(st, x) \/ Contains(q, x)
          BY <5>1, ContainsConcat
        <5> QED BY <5>2 DEF q
      <4>4. (st \o f) \o V = st \o (f \o V)
        <5> HIDE DEF f
        <5>1. Joined(Joined(st, f), V) = Joined(st, Joined(f, V)) BY <1>0, <3>5, JoinedAssoc
        <5> QED BY <5>1 DEF Joined
      <4>5. W \o V = st \o (f \o V) BY <4>4 DEF W
      <4>6. Contains(W \o V, x) <=> Contains(st \o (f \o V), x) BY <4>5
      <4> HIDE DEF f
      <4> QED BY <4>1, <4>3, <4>6
    <3>8. f \o Append(V, x) = Append(f \o V, x)
      <4> HIDE DEF f
      <4> QED BY <1>0, <3>1, <3>5
    <3>9. F[k + 1].found = f \o UnseenNext(W, V, x) BY <3>6, <3>7, <3>8 DEF UnseenNext
    <3> QED BY <3>4, <3>5, <3>9
  <2> HIDE DEF T
  <2>3. T = 0..N BY <1>0, <2>1, <2>2, PrefixInduction
  <2>4. N \in T BY <2>3, <1>0
  <2> USE DEF T
  <2>5. P(N) = s OBVIOUS
  <2> QED BY <2>4, <2>5
<1>5. ASSUME Unseen(<<>>, f) = f PROVE Unseen(<<>>, F[N].found) = F[N].found
  <2> DEFINE T == {k \in 0..N : Unseen(<<>>, F[k].found) = F[k].found}
  <2>1. T \in SUBSET (0..N) /\ 0 \in T BY <1>0, <1>1, <1>5 DEF YieldSteps
  <2>2. ASSUME NEW k \in 0..(N - 1), k \in T PROVE k + 1 \in T
    <3> DEFINE x == s[k + 1]
               g == F[k].found
    <3>1. k + 1 \in 1..N /\ (k + 1) - 1 = k /\ x \in Lots BY <1>0
    <3>2. F[k + 1] = Yield(F[k], x) BY <3>1, <1>1 DEF YieldSteps
    <3>3. g \in Seq(Lots) BY <1>3, <1>0 DEF Acc
    <3>4. \/ F[k + 1].found = g
          \/ ~Contains(g, x) /\ F[k + 1].found = Append(g, x)
      BY <3>2 DEF Yield
    <3>5. Unseen(<<>>, g) = g BY <2>2
    <3> HIDE DEF g, x
    <3>6. ~Contains(g, x) => Unseen(<<>>, Append(g, x)) = Append(g, x)
      BY <3>1, <3>3, <3>5, UnseenLonger
    <3>7. Unseen(<<>>, F[k + 1].found) = F[k + 1].found BY <3>4, <3>5, <3>6
    <3> QED BY <3>7, <3>1
  <2> HIDE DEF T
  <2>3. T = 0..N BY <1>0, <2>1, <2>2, PrefixInduction
  <2>4. N \in T BY <2>3, <1>0
  <2> USE DEF T
  <2> QED BY <2>4
<1>6. F[N] \in Acc BY <1>0, <1>3
<1> QED BY <1>2, <1>4, <1>5, <1>6

\* No lot is twice among the unseen ones.
LEMMA DistinctAppend ==
    ASSUME NEW L, NEW s \in Seq(L), NEW x \in L, Distinct(s), ~Contains(s, x)
    PROVE  Distinct(Append(s, x))
<1> DEFINE a == Append(s, x)
           n == Len(s)
<1>1. n \in Nat /\ Len(a) = n + 1 /\ a[n + 1] = x /\ \A i \in 1..n : a[i] = s[i] OBVIOUS
<1>2. \A i \in 1..n : s[i] # x BY DEF Contains
<1> HIDE DEF a
<1>3. ASSUME NEW i \in 1..(n + 1), NEW j \in 1..(n + 1), a[i] = a[j] PROVE i = j
  <2>1. CASE i \in 1..n /\ j \in 1..n BY <2>1, <1>1, <1>3 DEF Distinct
  <2>2. CASE i = n + 1 /\ j \in 1..n BY <2>2, <1>1, <1>2, <1>3
  <2>3. CASE j = n + 1 /\ i \in 1..n BY <2>3, <1>1, <1>2, <1>3
  <2>4. CASE i = n + 1 /\ j = n + 1 BY <2>4
  <2> QED BY <1>1, <2>1, <2>2, <2>3, <2>4
<1>4. Distinct(a) BY <1>1, <1>3 DEF Distinct
<1> QED BY <1>4 DEF a

LEMMA UnseenDistinct ==
    ASSUME NEW L, NEW known \in Seq(L), NEW s \in Seq(L)
    PROVE  Distinct(Unseen(known, s))
<1>1. PICK F : UnseenSteps(L, known, s, F) BY UnseenRun
<1>2. Unseen(known, s) = F[Len(s)] BY <1>1, UnseenFold DEF UnseenSteps
<1> DEFINE N == Len(s)
           T == {k \in 0..N : Distinct(F[k])}
<1>0. N \in Nat OBVIOUS
<1>3. T \in SUBSET (0..N) /\ 0 \in T
  <2>1. F[0] = <<>> BY <1>1 DEF UnseenSteps
  <2>2. Distinct(F[0]) BY <2>1 DEF Distinct
  <2> QED BY <2>2, <1>0
<1>4. ASSUME NEW k \in 0..(N - 1), k \in T PROVE k + 1 \in T
  <2> DEFINE x == s[k + 1]
             g == F[k]
  <2>1. k + 1 \in 1..N /\ (k + 1) - 1 = k /\ x \in L BY <1>0
  <2>2. F[k + 1] = UnseenNext(known, g, x) BY <2>1, <1>1 DEF UnseenSteps
  <2>3. k \in 0..N BY <1>0
  <2>4. g \in Seq(L) BY <1>1, <2>3 DEF UnseenSteps
  <2>5. Distinct(g) BY <1>4
  <2> HIDE DEF g, x
  <2>6. ~Contains(known \o g, x) => ~Contains(g, x) BY <2>4, ContainsConcat
  <2>7. ~Contains(g, x) => Distinct(Append(g, x)) BY <2>1, <2>4, <2>5, DistinctAppend
  <2>8. Distinct(F[k + 1]) BY <2>2, <2>5, <2>6, <2>7 DEF UnseenNext
  <2> QED BY <2>8, <2>1
<1> HIDE DEF T
<1>5. T = 0..N BY <1>0, <1>3, <1>4, PrefixInduction
<1>6. N \in T BY <1>5, <1>0
<1> USE DEF T
<1> QED BY <1>2, <1>6

\* The row limit in the middle of a page loses nothing that would be kept.
LEMMA FirstsType ==
    ASSUME NEW L, NEW s \in Seq(L), NEW n, n = None \/ n \in Nat
    PROVE  /\ Firsts(s, n) \in Seq(L)
           /\ Firsts(s, None) = s
           /\ n \in Nat => /\ Len(Firsts(s, n)) = IF n < Len(s) THEN n ELSE Len(s)
                           /\ Len(s) <= n => Firsts(s, n) = s
           /\ \A i \in 1..Len(Firsts(s, n)) : Firsts(s, n)[i] = s[i]
           /\ Len(Firsts(s, n)) <= Len(s)
<1>1. Len(s) \in Nat OBVIOUS
<1>2. CASE n = None
  <2>1. n \notin Nat BY <1>2, LimitsAssumption
  <2>2. Firsts(s, n) = s BY <1>2 DEF Firsts
  <2> QED BY <1>1, <1>2, <2>1, <2>2
<1>3. CASE n \in Nat /\ n # None
  <2> DEFINE m == IF n < Len(s) THEN n ELSE Len(s)
  <2>1. m \in 0..Len(s) BY <1>1, <1>3
  <2> HIDE DEF m
  <2>2. /\ SubSeq(s, 1, m) \in Seq(L) /\ Len(SubSeq(s, 1, m)) = m
        /\ \A i \in 1..m : SubSeq(s, 1, m)[i] = s[i]
    BY <1>1, <2>1
  <2>3. Firsts(s, n) = SubSeq(s, 1, m) BY <1>3 DEF Firsts, m
  <2>4. m = Len(s) => SubSeq(s, 1, m) = s BY <2>2, <1>1
  <2>5. Firsts(s, None) = s BY DEF Firsts
  <2>6. m = IF n < Len(s) THEN n ELSE Len(s) BY DEF m
  <2>7. Len(s) <= n => m = Len(s) BY <2>6, <1>1, <1>3
  <2> QED BY <1>1, <1>3, <2>1, <2>2, <2>3, <2>4, <2>5, <2>6, <2>7
<1> QED BY <1>2, <1>3

LEMMA AfterSkip ==
    ASSUME NEW L, NEW s \in Seq(L), NEW k \in Nat
    PROVE  /\ SubSeq(s, k + 1, Len(s)) \in Seq(L)
           /\ Len(SubSeq(s, k + 1, Len(s))) = IF k < Len(s) THEN Len(s) - k ELSE 0
           /\ \A i \in 1..Len(SubSeq(s, k + 1, Len(s))) :
                  SubSeq(s, k + 1, Len(s))[i] = s[k + i]
<1>1. Len(s) \in Nat /\ k + 1 \in Nat OBVIOUS
<1>2. CASE k < Len(s)
  <2>1. SubSeq(s, k + 1, Len(s)) \in Seq(L) BY <1>1, <1>2
  <2>2. Len(SubSeq(s, k + 1, Len(s))) = Len(s) - k BY <1>1, <1>2
  <2>3. ASSUME NEW i \in 1..(Len(s) - k) PROVE SubSeq(s, k + 1, Len(s))[i] = s[k + i]
    <3>1. SubSeq(s, k + 1, Len(s))[i] = s[i + (k + 1) - 1] BY <1>1, <1>2
    <3>2. i + (k + 1) - 1 = k + i BY <1>1
    <3> QED BY <3>1, <3>2
  <2> QED BY <1>2, <2>1, <2>2, <2>3
<1>3. CASE ~(k < Len(s))
  <2>1. SubSeq(s, k + 1, Len(s)) = <<>> BY <1>1, <1>3
  <2>2. <<>> \in Seq(L) /\ Len(<<>>) = 0 /\ 1..0 = {} OBVIOUS
  <2> QED BY <1>3, <2>1, <2>2
<1> QED BY <1>2, <1>3

LEMMA CutFacts ==
    ASSUME NEW L, NEW s \in Seq(L), skip \in Nat, limit \in (Nat \ {0}) \cup {None}
    PROVE  /\ Cut(s) \in Seq(L)
           /\ Len(Cut(s)) = LET n == IF skip < Len(s) THEN Len(s) - skip ELSE 0
                            IN  IF limit # None /\ limit < n THEN limit ELSE n
           /\ \A i \in 1..Len(Cut(s)) : Cut(s)[i] = s[skip + i]
<1> DEFINE t == SubSeq(s, skip + 1, Len(s))
<1>1. /\ t \in Seq(L) /\ Len(t) = IF skip < Len(s) THEN Len(s) - skip ELSE 0
      /\ \A i \in 1..Len(t) : t[i] = s[skip + i]
  BY AfterSkip
<1> HIDE DEF t
<1>2. limit = None \/ limit \in Nat OBVIOUS
<1>3. /\ Firsts(t, limit) \in Seq(L) /\ Firsts(t, None) = t
      /\ limit \in Nat => Len(Firsts(t, limit)) = IF limit < Len(t) THEN limit ELSE Len(t)
      /\ \A i \in 1..Len(Firsts(t, limit)) : Firsts(t, limit)[i] = t[i]
      /\ Len(Firsts(t, limit)) <= Len(t)
  BY <1>1, <1>2, FirstsType
<1>4. Cut(s) = Firsts(t, limit) BY DEF Cut, t
<1>5. Len(t) \in Nat /\ Len(Cut(s)) \in Nat BY <1>1, <1>3, <1>4
<1>6. ASSUME NEW i \in 1..Len(Cut(s)) PROVE Cut(s)[i] = s[skip + i]
  <2>1. i \in 1..Len(t) BY <1>3, <1>4, <1>5
  <2> QED BY <2>1, <1>1, <1>3, <1>4
<1>7. Len(Cut(s)) = IF limit # None /\ limit < Len(t) THEN limit ELSE Len(t)
  <2>1. CASE limit = None BY <2>1, <1>3, <1>4
  <2>2. CASE limit # None BY <2>2, <1>2, <1>3, <1>4
  <2> QED BY <2>1, <2>2
<1> QED BY <1>1, <1>3, <1>4, <1>6, <1>7

LEMMA CutDistinct ==
    ASSUME NEW L, NEW s \in Seq(L), skip \in Nat, limit \in (Nat \ {0}) \cup {None}, Distinct(s)
    PROVE  Distinct(Cut(s))
<1>1. Len(s) \in Nat /\ Cut(s) \in Seq(L) /\ Len(Cut(s)) \in Nat BY CutFacts
<1>2. ASSUME NEW i \in 1..Len(Cut(s)) PROVE skip + i \in 1..Len(s)
  <2>1. Len(Cut(s)) = LET n == IF skip < Len(s) THEN Len(s) - skip ELSE 0
                      IN  IF limit # None /\ limit < n THEN limit ELSE n
    BY CutFacts
  <2>2. limit # None => limit \in Nat OBVIOUS
  <2>3. Len(Cut(s)) <= IF skip < Len(s) THEN Len(s) - skip ELSE 0 BY <2>1, <2>2, <1>1
  <2> QED BY <2>3, <1>1
<1>3. \A i \in 1..Len(Cut(s)) : Cut(s)[i] = s[skip + i] BY CutFacts
<1>4. ASSUME NEW i \in 1..Len(Cut(s)), NEW j \in 1..Len(Cut(s)), Cut(s)[i] = Cut(s)[j]
      PROVE  i = j
  <2>1. s[skip + i] = s[skip + j] BY <1>3, <1>4
  <2>2. skip + i = skip + j BY <2>1, <1>2 DEF Distinct
  <2> QED BY <2>2, <1>1
<1> QED BY <1>4 DEF Distinct

LEMMA CutUpTo ==
    ASSUME NEW L, NEW s \in Seq(L), skip \in Nat, limit \in (Nat \ {0}) \cup {None}
    PROVE  /\ UpToLimit(s) \in Seq(L) /\ Cut(UpToLimit(s)) = Cut(s)
           /\ ~Enough(UpToLimit(s)) => UpToLimit(s) = s
<1>1. CASE limit = None BY <1>1 DEF UpToLimit
<1>2. CASE limit # None
  <2> DEFINE u == Firsts(s, limit + skip)
  <2>1. limit \in Nat \ {0} /\ limit + skip \in Nat /\ Len(s) \in Nat BY <1>2
  <2>2. /\ u \in Seq(L)
        /\ Len(u) = IF limit + skip < Len(s) THEN limit + skip ELSE Len(s)
        /\ Len(s) <= limit + skip => u = s
        /\ \A i \in 1..Len(u) : u[i] = s[i]
    BY <2>1, FirstsType
  <2>3. UpToLimit(s) = u BY <1>2 DEF UpToLimit
  <2> HIDE DEF u
  <2>4. ~Enough(u) => u = s BY <1>2, <2>1, <2>2 DEF Enough
  <2>5. Cut(u) = Cut(s)
    <3>1. CASE Len(s) <= limit + skip BY <3>1, <2>2
    <3>2. CASE ~(Len(s) <= limit + skip)
      <4>1. Len(u) = limit + skip BY <3>2, <2>1, <2>2
      <4>2. /\ Cut(u) \in Seq(L)
            /\ Len(Cut(u)) = LET n == IF skip < Len(u) THEN Len(u) - skip ELSE 0
                             IN  IF limit # None /\ limit < n THEN limit ELSE n
            /\ \A i \in 1..Len(Cut(u)) : Cut(u)[i] = u[skip + i]
        BY <2>2, CutFacts
      <4>3. /\ Cut(s) \in Seq(L)
            /\ Len(Cut(s)) = LET n == IF skip < Len(s) THEN Len(s) - skip ELSE 0
                             IN  IF limit # None /\ limit < n THEN limit ELSE n
            /\ \A i \in 1..Len(Cut(s)) : Cut(s)[i] = s[skip + i]
        BY CutFacts
      <4>4. Len(Cut(u)) = limit
        <5>1. skip < Len(u) /\ Len(u) - skip = limit BY <4>1, <2>1
        <5> QED BY <4>2, <5>1, <2>1
      <4>5. Len(Cut(s)) = limit
        <5>1. skip < Len(s) /\ limit < Len(s) - skip BY <3>2, <2>1
        <5> QED BY <4>3, <5>1, <1>2
      <4>6. ASSUME NEW i \in 1..limit PROVE Cut(u)[i] = Cut(s)[i]
        <5>1. skip + i \in 1..Len(u) BY <4>1, <2>1
        <5> QED BY <5>1, <4>2, <4>3, <4>4, <4>5, <2>2
      <4> DEFINE x == Cut(u)
                 y == Cut(s)
      <4>7. x \in Seq(L) /\ y \in Seq(L) /\ Len(x) = Len(y) /\ \A i \in 1..Len(x) : x[i] = y[i]
        BY <4>2, <4>3, <4>4, <4>5, <4>6
      <4> HIDE DEF x, y
      <4>8. x = y BY <4>7, SeqEqual
      <4> QED BY <4>8 DEF x, y
    <3> QED BY <3>1, <3>2
  <2> QED BY <2>2, <2>3, <2>4, <2>5
<1> QED BY <1>1, <1>2

\* The sequence of the lots stored has those lots, and no others.
LEMMA StoredFacts ==
    ASSUME NEW S \in SUBSET Lots
    PROVE  SetToSeq(S) \in Seq(Lots) /\ \A l \in Lots : Contains(SetToSeq(S), l) <=> l \in S
<1> DEFINE n == Cardinality(S)
<1>1. IsFiniteSet(S) BY LotsAssumption, FS_Subset
<1>2. n \in Nat /\ ExistsBijection(1..n, S) BY <1>1, FS_CardinalityType
<1>3. PICK b \in [1..n -> S] : /\ \A i, j \in 1..n : b[i] = b[j] => i = j
                              /\ \A l \in S : \E i \in 1..n : b[i] = l
  BY <1>2 DEF ExistsBijection, Bijection, Injection, Surjection, IsInjective
<1> DEFINE f == SetToSeq(S)
<1>4. f \in [1..n -> S] /\ IsInjective(f)
  <2>1. \E g \in [1..n -> S] : IsInjective(g) BY <1>3 DEF IsInjective
  <2> QED BY <2>1 DEF SetToSeq
<1> HIDE DEF f
<1>5. f \in Seq(Lots) /\ Len(f) = n
  <2>1. f \in Seq(S) BY <1>2, <1>4
  <2>2. Len(f) = n BY <1>2, <1>4
  <2> QED BY <2>1, <2>2
<1> DEFINE R == {f[i] : i \in 1..n}
<1>6. R = S
  <2>1. R \in SUBSET S BY <1>4
  <2>2. f \in [1..n -> R] BY <1>4
  <2>3. f \in Bijection(1..n, R)
    BY <2>2, <1>4 DEF Bijection, Injection, Surjection, IsInjective
  <2>4. ExistsBijection(1..n, R) BY <2>3 DEF ExistsBijection
  <2> HIDE DEF R
  <2>5. Cardinality(R) = n BY <1>2, <2>4, FS_CountingElements
  <2> QED BY <1>1, <2>1, <2>5, FS_Subset
<1>7. ASSUME NEW l \in Lots PROVE Contains(f, l) <=> l \in S
  <2>1. Contains(f, l) <=> l \in R BY <1>5 DEF Contains
  <2> QED BY <2>1, <1>6
<1> QED BY <1>5, <1>7 DEF f

\* Counting on within a batch.
LEMMA ModNext ==
    ASSUME NEW n \in Nat, NEW c \in Nat \ {0}
    PROVE  /\ n % c \in 0..(c - 1)
           /\ (n + 1) % c = 0 => n % c = c - 1
           /\ (n + 1) % c # 0 => (n + 1) % c = (n % c) + 1
<1> DEFINE q == n \div c
           r == n % c
           q1 == (n + 1) \div c
           r1 == (n + 1) % c
<1>1. q \in Int /\ q1 \in Int /\ r \in 0..(c - 1) /\ r1 \in 0..(c - 1) OBVIOUS
<1>2. n = c * q + r /\ n + 1 = c * q1 + r1 OBVIOUS
<1> HIDE DEF q, r, q1, r1
<1>3. c * (q1 - q) = r + 1 - r1 BY <1>1, <1>2
<1> DEFINE m == q1 - q
<1>4. m \in Int /\ c * m = r + 1 - r1 BY <1>1, <1>3
<1> HIDE DEF m
<1>5. r + 1 - r1 <= c /\ r + 1 - r1 > 0 - c BY <1>1
<1>6. m = 0 \/ m = 1
  <2>1. m >= 2 => c * m > c BY <1>4
  <2>2. m <= -1 => c * m <= 0 - c BY <1>4
  <2> QED BY <1>4, <1>5, <2>1, <2>2
<1>7. m = 0 => r1 = r + 1 BY <1>1, <1>4
<1>8. m = 1 => r1 = 0 /\ r = c - 1 BY <1>1, <1>4
<1> QED BY <1>1, <1>6, <1>7, <1>8 DEF r, r1

-----------------------------------------------------------------------------
(* What the steps keep.                                                    *)

LEMMA Called ==
    SourceTypeOK =>
        /\ skip \in Nat
        /\ limit \in (Nat \ {0}) \cup {None} /\ pageLimit \in (Nat \ {0}) \cup {None}
BY LimitsAssumption DEF SourceTypeOK

LEMMA PendingType ==
    SourceTypeOK => Pending \in Nat /\ Pending <= CommitEvery
          /\ (phase # "commit" => Pending < CommitEvery)
<1> SUFFICES ASSUME SourceTypeOK PROVE Pending \in Nat /\ Pending <= CommitEvery
                                 /\ (phase # "commit" => Pending < CommitEvery)
  OBVIOUS
<1>1. CommitEvery \in Nat \ {0} BY LimitsAssumption
<1>2. Processings \in Nat
  <2>1. done \in Nat /\ written \in Nat BY DEF SourceTypeOK
  <2> QED BY <2>1 DEF Processings
<1>3. Processings % CommitEvery \in 0..(CommitEvery - 1)
  <2> HIDE DEF Processings
  <2> QED BY <1>1, <1>2, ModNext
<1> HIDE DEF Processings
<1> QED BY <1>1, <1>3 DEF Pending

\* Nothing is uncommitted when the session sees what is committed.
LEMMA NothingTouched == tx = rows => Touched = {} /\ Cardinality(Touched) = 0
BY FS_EmptySet DEF Touched

RowsApart == UNCHANGED <<config, rows, tx, queue, done, written, savedFrom>>

\* The discovery leaves the rows and the loop alone.
LEMMA ListingFrame ==
    ASSUME SInv, RowsApart, phase \in Listing, phase' \in Listing \ {"start"}, phase # "start"
    PROVE  LoopOK' /\ BatchOK' /\ RowsFollowPages' /\ KeptOK'
<1> USE DEF RowsApart, config
<1>1. LoopOK'
  <2>1. queue = <<>> /\ done = 0 /\ written = 0 /\ savedFrom = NoRows /\ Distinct(queue)
        /\ \A l \in Lots : savedFrom[l] # None => \E j \in 1..done : queue[j] = l
    BY DEF SInv, LoopOK
  <2> QED BY <2>1 DEF LoopOK, Listing, Distinct, NoRows
<1>2. BatchOK'
  <2>1. Pending' = Pending BY DEF Pending, Processings, Listing
  <2>2. Touched' = Touched BY DEF Touched
  <2>3. ~purge => /\ \A l \in Lots : savedFrom[l] = None => tx[l] = rows[l]
                  /\ Cardinality(Touched) <= Pending
    BY DEF SInv, BatchOK
  <2> QED BY <2>1, <2>2, <2>3 DEF BatchOK, Listing
<1>3. RowsFollowPages' BY DEF SInv, LoopOK, RowsFollowPages, NoRows
<1>4. KeptOK' BY DEF SInv, KeptOK, Keeps
<1> QED BY <1>1, <1>2, <1>3, <1>4

Ends == {"stopping", "failed", "crashed", "done"}

\* A run that fails or crashes drops what it did not commit.
LEMMA FailFrame ==
    ASSUME SInv, tx' = rows, UNCHANGED <<config, rows, listing, queue, done, written, savedFrom>>,
           phase' \in {"stopping", "crashed"}
    PROVE  FoundOK' /\ LoopOK' /\ BatchOK' /\ RowsFollowPages' /\ KeptOK'
<1> USE DEF config
<1>1. FoundOK' BY DEF FoundOK, FoundBefore, FoundAuction, FoundWhole, FoundOpen, FoundCut
<1>2. LoopOK'
  <2>1. Distinct(queue) /\ \A l \in Lots : savedFrom[l] # None => \E j \in 1..done : queue[j] = l
    BY DEF SInv, LoopOK
  <2> QED BY <2>1 DEF LoopOK, Listing, Distinct
<1>3. BatchOK'
  <2>1. Touched' = {} BY DEF Touched
  <2>2. Cardinality({}) = 0 BY FS_EmptySet
  <2>3. Pending' \in Nat
    <3>1. CommitEvery \in Nat \ {0} /\ done \in Nat /\ written \in Nat
      BY LimitsAssumption DEF SInv, SourceTypeOK
    <3>2. \E n \in Nat : Pending' = n % CommitEvery
      BY <3>1 DEF Processings, Pending
    <3>3. PICK n \in Nat : Pending' = n % CommitEvery BY <3>2
    <3> QED BY <3>1, <3>3, ModNext
  <2>4. Cardinality(Touched') <= Pending' BY <2>1, <2>2, <2>3
  <2>5. \A l \in Lots : tx'[l] = rows'[l] OBVIOUS
  <2> QED BY <2>4, <2>5 DEF BatchOK
<1>4. RowsFollowPages' BY DEF RowsFollowPages
<1>5. KeptOK'
  <2>1. \A l \in Lots : tx'[l] = rows'[l] OBVIOUS
  <2> QED BY <2>1 DEF KeptOK, Keeps
<1> QED BY <1>1, <1>2, <1>3, <1>4, <1>5

LEMMA InitOK == SourceInit => SInv
<1> SUFFICES ASSUME SourceInit PROVE SInv OBVIOUS
<1>1. SourceTypeOK
  <2>1. rows \in [Lots -> Rows \cup {None}] BY DEF SourceInit, Rows, OldRow
  <2>2. savedFrom \in [Lots -> Details \cup {None}] BY DEF SourceInit, NoRows
  <2>3. done \in 0..Len(queue) /\ written \in 0..done /\ pages \in 0..MaxPages
    BY LimitsAssumption DEF SourceInit
  <2>4. <<>> \in Seq(Lots) /\ <<>> \in Seq(Seq(Lots)) OBVIOUS
  <2> QED BY <2>1, <2>2, <2>3, <2>4 DEF SourceInit, SourceTypeOK
<1>2. FoundOK BY DEF SourceInit, FoundOK, FoundBefore, FoundAuction, FoundWhole, FoundOpen, FoundCut
<1>3. LoopOK
  <2>1. Distinct(queue) BY DEF SourceInit, Distinct
  <2>2. \A l \in Lots : savedFrom[l] = None BY DEF SourceInit, NoRows
  <2> QED BY <2>1, <2>2 DEF SourceInit, LoopOK
<1>4. BatchOK
  <2>1. tx = rows /\ phase = "start" BY DEF SourceInit
  <2>2. Pending \in Nat BY <1>1, PendingType
  <2> QED BY <2>1, <2>2, NothingTouched DEF BatchOK
<1>5. RowsFollowPages BY DEF SourceInit, RowsFollowPages, NoRows
<1>6. KeptOK
  <2>1. tx = rows BY DEF SourceInit
  <2> QED BY <2>1 DEF KeptOK, Keeps
<1> QED BY <1>1, <1>2, <1>3, <1>4, <1>5, <1>6 DEF SInv

-----------------------------------------------------------------------------
(* The discovery.                                                          *)

LEMMA NotEnough ==
    ASSUME NEW s \in Seq(Lots), skip \in Nat, limit \in (Nat \ {0}) \cup {None}, ~Enough(s)
    PROVE  UpToLimit(s) = s
<1>1. CASE limit = None BY <1>1 DEF UpToLimit
<1>2. CASE limit # None
  <2>1. limit + skip \in Nat /\ Len(s) \in Nat BY <1>2
  <2>2. Len(s) <= limit + skip BY <1>2, <2>1 DEF Enough
  <2>3. Firsts(s, limit + skip) = s BY <2>1, <2>2, FirstsType
  <2> QED BY <1>2, <2>3 DEF UpToLimit
<1> QED BY <1>1, <1>2

LEMMA ShowsType ==
    ASSUME NEW p \in Shows
    PROVE  Fetched(p) => p \in Seq(Lots)
<1>1. <<>> \in Seq(Lots) OBVIOUS
<1>2. CASE p \in Listings BY <1>2, LotsAssumption
<1>3. CASE p = Challenge BY <1>1, <1>3 DEF Challenge
<1>4. CASE p = NoPage BY <1>4 DEF Fetched
<1> QED BY <1>2, <1>3, <1>4 DEF Shows

LEMMA UnseenMore ==
    ASSUME NEW A \in Seq(Lots), NEW B \in Seq(Lots)
    PROVE  Unseen(<<>>, A \o B) = Unseen(<<>>, A) \o Unseen(Unseen(<<>>, A), B)
<1>0. <<>> \in Seq(Lots) OBVIOUS
<1>1. PICK e \in Seq(Lots) : e = <<>> BY <1>0
<1> DEFINE U == Unseen(e, A)
           W == e \o U
<1>2. Unseen(e, A \o B) = U \o Unseen(W, B)
  <2>1. Unseen(e, Joined(A, B)) = Joined(U, Unseen(Joined(e, U), B)) BY UnseenConcat
  <2> HIDE DEF U
  <2> QED BY <2>1 DEF Joined
<1>3. U \in Seq(Lots) BY UnseenType
<1> HIDE DEF U
<1>4. W = U BY <1>1, <1>3
<1> QED BY <1>1, <1>2, <1>4 DEF U

\* What New adds is what makes all pages read so far out of those before.
LEMMA NewShows ==
    ASSUME SourceTypeOK, NEW p \in Shows, read' = (IF Fetched(p) THEN Append(read, p) ELSE read),
           found = Unseen(<<>>, Shown)
    PROVE  New(p) \in Seq(Lots) /\ read' \in Seq(Seq(Lots))
           /\ found \o New(p) = Unseen(<<>>, Shown')
<1>0. found \in Seq(Lots) /\ read \in Seq(Seq(Lots)) BY DEF SourceTypeOK
<1>1. CASE Fetched(p)
  <2>1. p \in Seq(Lots) BY <1>1, ShowsType
  <2>2. Shown' = Shown \o p /\ Shown \in Seq(Lots)
    <3>1. FlattenSeq(Append(read, p)) = FlattenSeq(read) \o p BY <1>0, <2>1, FlattenAppend
    <3>2. FlattenSeq(read) \in Seq(Lots) BY <1>0, FlattenType
    <3> QED BY <1>1, <3>1, <3>2 DEF Shown
  <2>3. New(p) = Unseen(found, p) /\ New(p) \in Seq(Lots)
    <3>1. Unseen(found, p) \in Seq(Lots) BY <1>0, <2>1, UnseenType
    <3> QED BY <1>1, <3>1 DEF New
  <2>8. Unseen(<<>>, Shown \o p) = found \o Unseen(found, p)
    <3>1. Unseen(<<>>, Shown \o p) = Unseen(<<>>, Shown) \o Unseen(Unseen(<<>>, Shown), p)
      BY <2>1, <2>2, UnseenMore
    <3> QED BY <3>1
  <2>9. Append(read, p) \in Seq(Seq(Lots)) BY <1>0, <2>1
  <2> QED BY <1>1, <2>2, <2>3, <2>8, <2>9
<1>2. CASE ~Fetched(p)
  <2>1. New(p) = <<>> /\ found \o <<>> = found BY <1>0, <1>2 DEF New
  <2>2. Shown' = Shown BY <1>2 DEF Shown
  <2> QED BY <1>0, <1>2, <2>1, <2>2
<1> QED BY <1>1, <1>2

\* A page is read by a source whose discovery goes by the lots it found.
LEMMA ReadFound ==
    ASSUME SourceTypeOK, NEW p \in Shows, NEW lots, NEW stop, source # "sothebys",
           found = Unseen(<<>>, Shown), Read(p, lots, stop),
           lots = found \o New(p) \/ lots = UpToLimit(found \o New(p)),
           source \in {"christies", "lottissimo"} => stop \/ ~Enough(lots),
           source \notin {"christies", "lottissimo"} => lots = found \o New(p)
    PROVE  lots \in Seq(Lots) /\ read' \in Seq(Seq(Lots)) /\ FoundOK'
<1> DEFINE x == found \o New(p)
<1>0. source' = source /\ skip' = skip /\ limit' = limit /\ found' = lots
      /\ phase' = (IF stop THEN "listed" ELSE "list")
  BY DEF Read, config
<1>1. skip \in Nat /\ limit \in (Nat \ {0}) \cup {None} BY Called
<1>2. New(p) \in Seq(Lots) /\ read' \in Seq(Seq(Lots)) /\ x = Unseen(<<>>, Shown')
  <2>1. read' = (IF Fetched(p) THEN Append(read, p) ELSE read) BY DEF Read
  <2> QED BY <2>1, NewShows
<1>3. x \in Seq(Lots) BY <1>2 DEF SourceTypeOK
<1> HIDE DEF x
<1>4. /\ UpToLimit(x) \in Seq(Lots) /\ Cut(UpToLimit(x)) = Cut(x)
      /\ ~Enough(UpToLimit(x)) => UpToLimit(x) = x
  BY <1>1, <1>3, CutUpTo
<1>5. lots = x \/ lots = UpToLimit(x) BY DEF x
<1>6. Cut(lots) = Cut(x) /\ (~Enough(lots) => lots = x) BY <1>4, <1>5
<1>7. Unseen(<<>>, Shown)' = x /\ Cut(found)' = Cut(lots) 
      /\ Cut(Unseen(<<>>, Shown))' = Cut(x) /\ (Enough(found)' <=> Enough(lots))
  <2>0. Unseen(<<>>, Shown)' = Unseen(<<>>, Shown') OBVIOUS
  <2>1. Unseen(<<>>, Shown)' = x BY <1>2, <2>0
  <2>2. Cut(found)' = Cut(lots) /\ (Enough(found)' <=> Enough(lots))
    BY <1>0 DEF Cut, Firsts, Enough
  <2>3. Cut(Unseen(<<>>, Shown))' = Cut(x) BY <1>0, <2>1 DEF Cut, Firsts
  <2> QED BY <2>1, <2>2, <2>3
<1>8. phase' = "list" => lots = x /\ (source \in {"christies", "lottissimo"} => ~Enough(lots))
  <2> SUFFICES ASSUME phase' = "list"
               PROVE  lots = x /\ (source \in {"christies", "lottissimo"} => ~Enough(lots))
    OBVIOUS
  <2>1. ~stop BY <1>0
  <2> QED BY <2>1, <1>6 DEF x
<1>9. FoundBefore' /\ FoundAuction' BY <1>0 DEF FoundBefore, FoundAuction
<1>10. FoundWhole' BY <1>0, <1>7, <1>8 DEF FoundWhole
<1>11. FoundOpen' BY <1>0, <1>7, <1>8 DEF FoundOpen
<1>12. FoundCut' BY <1>0, <1>6, <1>7 DEF FoundCut
<1>13. FoundOK' BY <1>9, <1>10, <1>11, <1>12 DEF FoundOK
<1> QED BY <1>2, <1>3, <1>4, <1>5, <1>13

LEMMA NoneShown == read = <<>> => Shown = <<>> /\ ShownCut = <<>>
                                  /\ \A st \in Seq(Lots) : Unseen(st, <<>>) = <<>>
<1> SUFFICES ASSUME read = <<>>
             PROVE  Shown = <<>> /\ ShownCut = <<>> /\ \A st \in Seq(Lots) : Unseen(st, <<>>) = <<>>
  OBVIOUS
<1>1. Shown = <<>> BY FlattenEmpty DEF Shown
<1>2. [i \in 1..Len(read) |-> Firsts(read[i], limit)] = <<>> OBVIOUS
<1>3. ShownCut = <<>> BY <1>2, FlattenEmpty DEF ShownCut
<1> QED BY <1>1, <1>3, UnseenEmpty

LEMMA ReadKeeps ==
    ASSUME SInv, NEW p \in Shows, NEW lots, NEW stop, source # "sothebys",
           phase \in {"count", "recount", "list"}, Read(p, lots, stop),
           lots = found \o New(p) \/ lots = UpToLimit(found \o New(p)),
           source \in {"christies", "lottissimo"} => stop \/ ~Enough(lots),
           source \notin {"christies", "lottissimo"} => lots = found \o New(p),
           pages' \in 0..MaxPages, counted' = counted, browser' \subseteq Open
    PROVE  SInv'
<1>1. SourceTypeOK /\ FoundOK BY DEF SInv
<1>2. found = Unseen(<<>>, Shown)
  <2>1. CASE phase = "list" BY <2>1, <1>1 DEF FoundOK, FoundWhole
  <2>2. CASE phase # "list"
    <3>1. read = <<>> /\ found = <<>> BY <2>2, <1>1 DEF FoundOK, FoundBefore
    <3>2. <<>> \in Seq(Lots) OBVIOUS
    <3> QED BY <3>1, <3>2, NoneShown
  <2> QED BY <2>1, <2>2
<1>3. lots \in Seq(Lots) /\ read' \in Seq(Seq(Lots)) /\ FoundOK' BY <1>1, <1>2, ReadFound
<1>4. RowsApart /\ phase' \in {"list", "listed"} /\ page' = page + 1 /\ found' = lots
  BY DEF Read, RowsApart
<1>5. SourceTypeOK'
  <2>1. page' \in Nat \ {0} BY <1>1, <1>4 DEF SourceTypeOK
  <2>2. UNCHANGED <<source, purge, skip, limit, pageLimit, rows, tx, queue, done, written,
                    savedFrom>>
    BY <1>4 DEF RowsApart, config
  <2> QED BY <1>1, <1>3, <1>4, <2>1, <2>2 DEF SourceTypeOK
<1>6. LoopOK' /\ BatchOK' /\ RowsFollowPages' /\ KeptOK' BY <1>4, ListingFrame DEF Listing
<1> QED BY <1>3, <1>5, <1>6 DEF SInv

LEMMA BrowserType ==
    SourceTypeOK =>
        /\ browser \subseteq Open
        /\ MaybeBrowser => browser' \subseteq Open
        /\ StartBrowser(Open) => browser' \subseteq Open
        /\ \A b \in Partly : StartBrowser(b) => browser' \subseteq Open
<1> SUFFICES ASSUME SourceTypeOK
             PROVE  /\ browser \subseteq Open
                    /\ MaybeBrowser => browser' \subseteq Open
                    /\ StartBrowser(Open) => browser' \subseteq Open
                    /\ \A b \in Partly : StartBrowser(b) => browser' \subseteq Open
  OBVIOUS
<1>1. browser \subseteq Open BY DEF SourceTypeOK
<1>2. ASSUME NEW b \in Partly PROVE b \subseteq Open
  <2>1. PICK k \in 0..Len(Opening) : b = {Opening[j] : j \in 1..k} BY DEF Partly
  <2>2. Len(Opening) = 4 /\ DOMAIN Opening = 1..4 BY DEF Opening
  <2>3. \A j \in 1..k : j \in DOMAIN Opening BY <2>1, <2>2
  <2> QED BY <2>1, <2>3 DEF Open, ToSet
<1> QED BY <1>1, <1>2 DEF MaybeBrowser, StartBrowser

LEMMA ListKeeps ==
    ASSUME SInv, NEW p \in Shows,
           \/ ListChristies(p) \/ ListDrouot(p) \/ ListDorotheum(p)
           \/ CountLottissimo(p) \/ ListLottissimo(p) \/ ListLostArt(p)
    PROVE  SInv'
<1>0. SourceTypeOK /\ FoundOK BY DEF SInv
<1> DEFINE x == found \o New(p)
<1>1. CASE ListChristies(p)
  <2> DEFINE lots == UpToLimit(x)
  <2>1. source = "christies" /\ phase = "list" /\ counted' = counted /\ browser' = browser
    BY <1>1 DEF ListChristies
  <2>2. PICK total \in (IF page = 1 THEN 0..MaxPages ELSE {pages}) :
            /\ pages' = total
            /\ Read(p, lots, \/ p \in {NoPage, Challenge}
                             \/ Enough(lots) \/ AtLast(total) \/ AtLast(pageLimit))
    BY <1>1 DEF ListChristies
  <2>3. pages' \in 0..MaxPages BY <1>0, <2>2 DEF SourceTypeOK
  <2>4. browser' \subseteq Open BY <1>0, <2>1, BrowserType
  <2> DEFINE stop == \/ p \in {NoPage, Challenge}
                     \/ Enough(lots) \/ AtLast(total) \/ AtLast(pageLimit)
  <2>5. Read(p, lots, stop) /\ (stop \/ ~Enough(lots)) /\ lots = UpToLimit(found \o New(p))
    BY <2>2
  <2> HIDE DEF lots, stop
  <2> QED BY <2>1, <2>3, <2>4, <2>5, ReadKeeps
<1>2. CASE ListDrouot(p)
  <2> DEFINE stop == New(p) = <<>> \/ AtLast(pageLimit)
  <2>1. source = "drouot" /\ phase = "list" /\ Read(p, x, stop)
        /\ pages' = pages /\ counted' = counted /\ browser' = browser
    BY <1>2 DEF ListDrouot
  <2>2. browser' \subseteq Open /\ pages' \in 0..MaxPages
    BY <1>0, <2>1, BrowserType DEF SourceTypeOK
  <2> HIDE DEF stop
  <2> QED BY <2>1, <2>2, ReadKeeps
<1>3. CASE ListDorotheum(p)
  <2> DEFINE stop == \/ pageLimit = None \/ AtLast(pageLimit)
                     \/ (Fetched(p) /\ page > 1 /\ New(p) = <<>>)
                     \/ (Fetched(p) /\ Enough(x))
  <2>1. source = "dorotheum" /\ phase = "list" /\ Read(p, x, stop)
        /\ pages' = pages /\ counted' = counted /\ browser' = browser
    BY <1>3 DEF ListDorotheum
  <2>2. browser' \subseteq Open /\ pages' \in 0..MaxPages
    BY <1>0, <2>1, BrowserType DEF SourceTypeOK
  <2> HIDE DEF stop
  <2> QED BY <2>1, <2>2, ReadKeeps
<1>4. CASE ListLostArt(p)
  <2> DEFINE stop == New(p) = <<>> \/ Enough(x) \/ AtLast(pageLimit)
  <2>1. source = "lostart" /\ phase = "list" /\ Read(p, x, stop)
        /\ pages' = pages /\ counted' = counted /\ browser' = browser
    BY <1>4 DEF ListLostArt
  <2>2. browser' \subseteq Open /\ pages' \in 0..MaxPages
    BY <1>0, <2>1, BrowserType DEF SourceTypeOK
  <2> HIDE DEF stop
  <2> QED BY <2>1, <2>2, ReadKeeps
<1>5. CASE ListLottissimo(p)
  <2> DEFINE lots == UpToLimit(x)
             stop == (Fetched(p) /\ Enough(lots)) \/ page >= pages
  <2>1. source = "lottissimo" /\ phase = "list" /\ Read(p, lots, stop) /\ MaybeBrowser
        /\ pages' = pages /\ counted' = counted
    BY <1>5 DEF ListLottissimo
  <2>2. browser' \subseteq Open /\ pages' \in 0..MaxPages
    BY <1>0, <2>1, BrowserType DEF SourceTypeOK
  <2>3. ~Fetched(p) => ~Enough(lots)
    <3> SUFFICES ASSUME ~Fetched(p) PROVE ~Enough(lots) OBVIOUS
    <3>1. found \in Seq(Lots) /\ ~Enough(found) BY <1>0, <2>1 DEF SourceTypeOK, FoundOK, FoundOpen
    <3>2. x = found BY <3>1 DEF New
    <3>3. skip \in Nat /\ limit \in (Nat \ {0}) \cup {None} BY <1>0, Called
    <3>4. UpToLimit(found) = found BY <3>1, <3>3, NotEnough
    <3> QED BY <3>1, <3>2, <3>4
  <2>4. stop \/ ~Enough(lots) BY <2>3
  <2>5. lots = UpToLimit(found \o New(p)) OBVIOUS
  <2> HIDE DEF lots, stop
  <2> QED BY <2>1, <2>2, <2>4, <2>5, ReadKeeps
<1>6. CASE CountLottissimo(p)
  <2>0. source = "lottissimo" /\ phase \in {"count", "recount"} /\ MaybeBrowser
              /\ counted' = counted
    BY <1>6 DEF CountLottissimo
  <2>1. read = <<>> /\ found = <<>> BY <1>0, <2>0 DEF FoundOK, FoundBefore
  <2>2. browser' \subseteq Open BY <1>0, <2>0, BrowserType
  <2>3. CASE Fetched(p)
    <3> DEFINE lots == UpToLimit(New(p))
    <3>1. PICK total \in 1..MaxPages :
              /\ pages' = IF pageLimit = None \/ total < pageLimit THEN total ELSE pageLimit
              /\ Read(p, lots, Enough(lots) \/ page >= pages')
      BY <1>6, <2>3 DEF CountLottissimo
    <3> DEFINE stop == Enough(lots) \/ page >= pages'
    <3>2. pages' \in 0..MaxPages
      <4>1. pageLimit \in (Nat \ {0}) \cup {None} BY <1>0, Called
      <4>2. MaxPages \in Nat BY LimitsAssumption
      <4> QED BY <3>1, <4>1, <4>2
    <3>3. lots = UpToLimit(found \o New(p))
      <4>1. New(p) \in Seq(Lots)
        <5>1. p \in Seq(Lots) BY <2>3, ShowsType
        <5>2. found \in Seq(Lots) BY <1>0 DEF SourceTypeOK
        <5> QED BY <5>1, <5>2, <2>3, UnseenType DEF New
      <4>2. found \o New(p) = New(p) BY <2>1, <4>1
      <4> QED BY <4>2
    <3>4. Read(p, lots, stop) /\ (stop \/ ~Enough(lots)) BY <3>1
    <3> HIDE DEF lots, stop
    <3> QED BY <2>0, <2>2, <3>2, <3>3, <3>4, ReadKeeps
  <2>4. CASE ~Fetched(p)
    <3>1. /\ phase' = IF phase = "count" THEN "recount" ELSE "listed"
          /\ UNCHANGED <<config, rows, tx, page, pages, read, found, queue, done, written,
                         savedFrom>>
      BY <1>6, <2>4 DEF CountLottissimo
    <3>2. RowsApart BY <3>1 DEF RowsApart
    <3>3. UNCHANGED <<source, purge, skip, limit, pageLimit, read, found, counted>>
      BY <2>0, <3>1 DEF config
    <3>4. LoopOK' /\ BatchOK' /\ RowsFollowPages' /\ KeptOK'
      BY <2>0, <3>1, <3>2, ListingFrame DEF Listing
    <3>5. SourceTypeOK'
      <4>1. phase' \in {"recount", "listed"} BY <3>1
      <4>2. UNCHANGED <<source, purge, skip, limit, pageLimit, rows, tx, queue, done, written,
                        savedFrom, page, pages, read, found, counted>>
        BY <3>1, <3>3
      <4> QED BY <1>0, <2>2, <4>1, <4>2 DEF SourceTypeOK
    <3>6. FoundOK'
      <4>1. FoundBefore' BY <1>0, <2>0, <3>3, <3>1 DEF FoundOK, FoundBefore
      <4>2. FoundAuction' /\ FoundWhole' /\ FoundOpen'
        BY <2>0, <3>1, <3>3 DEF FoundAuction, FoundWhole, FoundOpen
      <4>3. found = Unseen(<<>>, Shown)
        <5>1. <<>> \in Seq(Lots) OBVIOUS
        <5> QED BY <5>1, <2>1, NoneShown
      <4>4. Unseen(<<>>, Shown)' = found'
        <5>1. Shown' = Shown BY <3>3 DEF Shown
        <5>2. Unseen(<<>>, Shown)' = Unseen(<<>>, Shown') OBVIOUS
        <5> QED BY <3>3, <4>3, <5>1, <5>2
      <4>5. FoundCut' BY <4>4 DEF FoundCut
      <4> QED BY <4>1, <4>2, <4>5 DEF FoundOK
    <3> QED BY <3>4, <3>5, <3>6 DEF SInv
  <2> QED BY <2>3, <2>4
<1> QED BY <1>1, <1>2, <1>3, <1>4, <1>5, <1>6

\* One auction of Sotheby's is read.
LEMMA AuctionKeeps ==
    ASSUME SInv, NEW p \in Shows, ListAuction(p)
    PROVE  SInv'
<1> DEFINE s == IF Fetched(p) THEN Firsts(p, limit) ELSE <<>>
           acc0 == [found |-> found, counted |-> counted]
           acc == FoldLeft(Yield, acc0, s)
           st == StoredLots
<1>0. SourceTypeOK /\ FoundOK BY DEF SInv
<1>1. source = "sothebys" /\ phase = "list" /\ Read(p, acc.found, page >= pages)
      /\ counted' = acc.counted /\ pages' = pages /\ browser' = browser
  BY DEF ListAuction
<1>2. /\ read' = (IF Fetched(p) THEN Append(read, p) ELSE read)
      /\ found' = acc.found /\ page' = page + 1 /\ phase' \in {"list", "listed"} /\ RowsApart
  BY <1>1 DEF Read, RowsApart
<1>3. skip \in Nat /\ limit \in (Nat \ {0}) \cup {None} BY <1>0, Called
<1>4. s \in Seq(Lots) /\ acc0 \in Acc
  <2>1. Fetched(p) => Firsts(p, limit) \in Seq(Lots)
    <3>1. limit = None \/ limit \in Nat BY <1>3
    <3> QED BY <3>1, ShowsType, FirstsType
  <2>2. <<>> \in Seq(Lots) OBVIOUS
  <2>3. found \in Seq(Lots) /\ counted \in Nat BY <1>0 DEF SourceTypeOK
  <2> QED BY <2>1, <2>2, <2>3 DEF Acc
<1>5. st \in Seq(Lots) /\ \A l \in Lots : Contains(st, l) <=> tx[l] # None
  <2>1. {l \in Lots : tx[l] # None} \in SUBSET Lots OBVIOUS
  <2> QED BY <2>1, StoredFacts DEF StoredLots
<1> HIDE DEF s, acc0, st
<1>6. /\ acc \in Acc
      /\ skip = 0 => acc.found = acc0.found \o Unseen(st \o acc0.found, s)
      /\ Unseen(<<>>, acc0.found) = acc0.found => Unseen(<<>>, acc.found) = acc.found
  BY <1>3, <1>4, <1>5, YieldShows
<1>7. acc0.found = found BY DEF acc0
<1> HIDE DEF acc
<1>8. Unseen(<<>>, found) = found /\ (skip = 0 => found = Unseen(st, ShownCut))
  BY <1>0, <1>1 DEF FoundOK, FoundAuction, st
<1> DEFINE cut == [i \in 1..Len(read) |-> Firsts(read[i], limit)]
<1>9. cut \in Seq(Seq(Lots)) /\ read \in Seq(Seq(Lots)) /\ ShownCut \in Seq(Lots)
  <2>1. read \in Seq(Seq(Lots)) BY <1>0 DEF SourceTypeOK
  <2>2. \A i \in 1..Len(read) : Firsts(read[i], limit) \in Seq(Lots)
    <3>1. limit = None \/ limit \in Nat BY <1>3
    <3>2. \A i \in 1..Len(read) : read[i] \in Seq(Lots) BY <2>1
    <3> QED BY <3>1, <3>2, FirstsType
  <2>3. Len(read) \in Nat BY <2>1
  <2>4. cut \in Seq(Seq(Lots)) BY <2>2, <2>3
  <2> HIDE DEF cut
  <2>5. FlattenSeq(cut) \in Seq(Lots) BY <2>4, FlattenType
  <2> QED BY <2>1, <2>4, <2>5 DEF ShownCut, cut
<1>10. limit' = limit /\ source' = source /\ skip' = skip /\ tx' = tx
  BY <1>2 DEF RowsApart, config
<1>11. ShownCut' = Joined(ShownCut, s) /\ read' \in Seq(Seq(Lots))
  <2>1. CASE Fetched(p)
    <3>1. read' = Append(read, p) /\ s = Firsts(p, limit) BY <1>2, <2>1 DEF s
    <3>2. p \in Seq(Lots) BY <2>1, ShowsType
    <3>3. [i \in 1..Len(read') |-> Firsts(read'[i], limit')] = Append(cut, s)
      <4> DEFINE a == [i \in 1..Len(read') |-> Firsts(read'[i], limit')]
                 b == Append(cut, s)
                 n == Len(read)
      <4>1. n \in Nat /\ Len(read') = n + 1 /\ read'[n + 1] = p
            /\ \A i \in 1..n : read'[i] = read[i]
        BY <1>9, <3>1, <3>2
      <4>2. DOMAIN a = 1..(n + 1) /\ \A i \in 1..(n + 1) : a[i] = Firsts(read'[i], limit)
        BY <1>10, <4>1
      <4>3. b \in Seq(Seq(Lots)) /\ Len(b) = n + 1 /\ b[n + 1] = s /\ \A i \in 1..n : b[i] = cut[i]
        BY <1>4, <1>9, <4>1
      <4>4. \A i \in 1..n : cut[i] = Firsts(read[i], limit) OBVIOUS
      <4>5. a = [i \in 1..(n + 1) |-> a[i]] BY <4>2
      <4>6. b = [i \in 1..(n + 1) |-> b[i]]
        <5> HIDE DEF b
        <5>1. DOMAIN b = 1..(n + 1) BY <4>3
        <5> QED BY <4>3, <5>1
      <4> HIDE DEF a, b, cut
      <4>7. \A i \in 1..(n + 1) : a[i] = b[i]
        <5> TAKE i \in 1..(n + 1)
        <5>1. CASE i = n + 1 BY <5>1, <4>1, <4>2, <4>3, <3>1
        <5>2. CASE i \in 1..n BY <5>2, <4>1, <4>2, <4>3, <4>4
        <5> QED BY <5>1, <5>2, <4>1
      <4> QED BY <4>5, <4>6, <4>7 DEF a, b
    <3> HIDE DEF cut
    <3>4. FlattenSeq(Append(cut, s)) = FlattenSeq(cut) \o s BY <1>4, <1>9, FlattenAppend
    <3>5. ShownCut' = FlattenSeq(Append(cut, s))
      <4>1. ShownCut' = FlattenSeq([i \in 1..Len(read') |-> Firsts(read'[i], limit')])
        BY DEF ShownCut, Firsts
      <4> QED BY <4>1, <3>3
    <3>6. Append(read, p) \in Seq(Seq(Lots)) BY <1>9, <3>2
    <3> QED BY <3>1, <3>4, <3>5, <3>6 DEF ShownCut, Joined, cut
  <2>2. CASE ~Fetched(p)
    <3>1. read' = read /\ s = <<>> BY <1>2, <2>2 DEF s
    <3>2. ShownCut' = ShownCut BY <1>10, <3>1 DEF ShownCut, Firsts
    <3>3. ShownCut \o <<>> = ShownCut BY <1>9
    <3> QED BY <1>9, <3>1, <3>2, <3>3 DEF Joined
  <2> QED BY <2>1, <2>2
<1>12. skip = 0 => found' = Unseen(st, Joined(ShownCut, s))
  <2> SUFFICES ASSUME skip = 0 PROVE found' = Unseen(st, Joined(ShownCut, s)) OBVIOUS
  <2>1. Unseen(st, Joined(ShownCut, s)) =
            Joined(Unseen(st, ShownCut), Unseen(Joined(st, Unseen(st, ShownCut)), s))
    BY <1>4, <1>5, <1>9, UnseenConcat
  <2>2. found' = found \o Unseen(st \o found, s) BY <1>2, <1>6, <1>7
  <2> QED BY <1>8, <2>1, <2>2 DEF Joined
<1>13. FoundOK'
  <2>1. StoredLots' = st BY <1>10 DEF StoredLots, st
  <2>2. Unseen(<<>>, found)' = found' BY <1>2, <1>6, <1>7, <1>8
  <2>3. Unseen(StoredLots, ShownCut)' = Unseen(st, Joined(ShownCut, s))
    <3>1. Unseen(StoredLots, ShownCut)' = Unseen(StoredLots', ShownCut') OBVIOUS
    <3> QED BY <3>1, <2>1, <1>11
  <2>4. FoundAuction' BY <1>10, <1>12, <2>2, <2>3 DEF FoundAuction
  <2> QED BY <1>1, <1>2, <1>10, <2>4
      DEF FoundOK, FoundBefore, FoundWhole, FoundOpen, FoundCut
<1>14. SourceTypeOK'
  <2>1. page' \in Nat \ {0} BY <1>0, <1>2 DEF SourceTypeOK
  <2>2. found' \in Seq(Lots) /\ counted' \in Nat BY <1>1, <1>2, <1>6 DEF Acc
  <2>3. UNCHANGED <<source, purge, skip, limit, pageLimit, rows, tx, queue, done, written,
                    savedFrom>>
    BY <1>2 DEF RowsApart, config
  <2> QED BY <1>0, <1>1, <1>2, <1>11, <2>1, <2>2, <2>3 DEF SourceTypeOK
<1>15. LoopOK' /\ BatchOK' /\ RowsFollowPages' /\ KeptOK'
  BY <1>1, <1>2, ListingFrame DEF Listing
<1> QED BY <1>13, <1>14, <1>15 DEF SInv

LEMMA CalendarKeeps == SInv /\ ReadCalendar => SInv'
<1> SUFFICES ASSUME SInv, ReadCalendar PROVE SInv' OBVIOUS
<1>0. SourceTypeOK /\ FoundOK BY DEF SInv
<1>1. source = "sothebys" /\ phase = "count" /\ phase' \in {"count", "listed", "list"}
  BY DEF ReadCalendar
<1>2. UNCHANGED <<config, rows, tx, page, read, found, counted, queue, done, written,
                  savedFrom, browser>>
  BY DEF ReadCalendar
<1>3. RowsApart /\ UNCHANGED <<source, purge, skip, limit, pageLimit>>
  BY <1>2 DEF RowsApart, config
<1>4. pages' \in 0..MaxPages BY <1>0, LimitsAssumption DEF ReadCalendar, SourceTypeOK
<1>5. SourceTypeOK' BY <1>0, <1>1, <1>2, <1>3, <1>4 DEF SourceTypeOK
<1>6. LoopOK' /\ BatchOK' /\ RowsFollowPages' /\ KeptOK'
  BY <1>1, <1>3, ListingFrame DEF Listing
<1>7. read = <<>> /\ found = <<>> /\ counted = 0 BY <1>0, <1>1 DEF FoundOK, FoundBefore
<1>8. FoundAuction'
  <2>1. {l \in Lots : tx'[l] # None} \in SUBSET Lots OBVIOUS
  <2>2. StoredLots' \in Seq(Lots) BY <2>1, StoredFacts DEF StoredLots
  <2>3. ShownCut' = ShownCut BY <1>2, <1>3 DEF ShownCut, Firsts
  <2>4. <<>> \in Seq(Lots) OBVIOUS
  <2>5. Unseen(StoredLots, ShownCut)' = <<>>
    <3>1. Unseen(StoredLots, ShownCut)' = Unseen(StoredLots', ShownCut') OBVIOUS
    <3> QED BY <3>1, <2>2, <2>3, <1>7, NoneShown
  <2>6. Unseen(<<>>, found)' = found'
    <3>1. Unseen(<<>>, found)' = Unseen(<<>>, found') OBVIOUS
    <3> QED BY <3>1, <2>4, <1>2, <1>7, NoneShown
  <2> QED BY <2>5, <2>6, <1>2, <1>7 DEF FoundAuction
<1>9. FoundOK'
  BY <1>1, <1>2, <1>3, <1>7, <1>8 DEF FoundOK, FoundBefore, FoundWhole, FoundOpen, FoundCut
<1> QED BY <1>5, <1>6, <1>9 DEF SInv

\* Nothing is listed yet.
LEMMA NoneFound ==
    ASSUME SInv, phase \in {"start", "prepare"}, phase' \in {"prepare", "count", "list"},
           phase' = "list" => source # "sothebys",
           UNCHANGED <<config, listing>>
    PROVE  FoundOK'
<1>0. SourceTypeOK /\ FoundOK BY DEF SInv
<1>1. read = <<>> /\ found = <<>> /\ counted = 0 BY <1>0 DEF FoundOK, FoundBefore
<1>2. UNCHANGED <<source, purge, skip, limit, pageLimit, read, found, counted>>
  BY DEF config, listing
<1>3. Unseen(<<>>, Shown)' = found'
  <2>1. Shown' = Shown /\ <<>> \in Seq(Lots) BY <1>2 DEF Shown
  <2>2. Unseen(<<>>, Shown)' = Unseen(<<>>, Shown') OBVIOUS
  <2> QED BY <2>1, <2>2, <1>1, <1>2, NoneShown
<1>4. ~Enough(found)'
  <2>1. skip \in Nat /\ limit \in (Nat \ {0}) \cup {None} BY <1>0, Called
  <2>2. Len(found') = 0 BY <1>1, <1>2
  <2> QED BY <1>2, <2>1, <2>2 DEF Enough
<1> QED BY <1>1, <1>2, <1>3, <1>4
    DEF FoundOK, FoundBefore, FoundAuction, FoundWhole, FoundOpen, FoundCut

LEMMA StartKeeps ==
    ASSUME SInv, Start \/ StartLostArt \/ Prepare
    PROVE  SInv'
<1>0. SourceTypeOK /\ LoopOK /\ BatchOK BY DEF SInv
<1>1. CASE Prepare
  <2>1. phase = "prepare" /\ phase' \in {"count", "list"}
        /\ (phase' = "list" => source # "sothebys")
        /\ UNCHANGED <<config, rows, tx, listing, queue, done, written, savedFrom>>
    BY <1>1 DEF Prepare
  <2>2. browser' \subseteq Open BY <1>0, <1>1, BrowserType DEF Prepare
  <2>4. FoundOK' BY <2>1, NoneFound
  <2>5. LoopOK' /\ BatchOK' /\ RowsFollowPages' /\ KeptOK'
    BY <2>1, ListingFrame DEF Listing, RowsApart
  <2>6. SourceTypeOK' BY <1>0, <2>1, <2>2 DEF SourceTypeOK, config, listing
  <2> QED BY <2>4, <2>5, <2>6 DEF SInv
<1>2. CASE Start \/ StartLostArt
  <2>1. /\ phase = "start" /\ phase' \in {"prepare", "list"}
        /\ phase' = "list" => source = "lostart"
        /\ tx' = (IF purge THEN NoRows ELSE tx)
        /\ rows' = (IF source = "lostart" THEN tx' ELSE rows)
        /\ UNCHANGED <<config, listing, queue, done, written, savedFrom, browser>>
    BY <1>2 DEF Start, StartLostArt
  <2>2. UNCHANGED <<source, purge, skip, limit, pageLimit, page, pages, read, found, counted>>
    BY <2>1 DEF config, listing
  <2>4. FoundOK' BY <2>1, NoneFound
  <2>5. SourceTypeOK'
    <3>1. tx' \in [Lots -> Rows \cup {None}] BY <1>0, <2>1 DEF SourceTypeOK, NoRows
    <3>2. rows' \in [Lots -> Rows \cup {None}] BY <1>0, <2>1, <3>1 DEF SourceTypeOK
    <3> QED BY <1>0, <2>1, <2>2, <3>1, <3>2 DEF SourceTypeOK
  <2>6. queue = <<>> /\ done = 0 /\ written = 0 /\ savedFrom = NoRows /\ tx = rows
    BY <1>0, <2>1 DEF LoopOK, Listing, BatchOK
  <2>7. LoopOK' BY <2>1, <2>6 DEF LoopOK, Listing, Distinct, NoRows
  <2>8. ~purge => tx' = rows' BY <2>1, <2>6
  <2>9. BatchOK'
    <3>1. ~purge' => /\ \A l \in Lots : tx'[l] = rows'[l]
                     /\ Cardinality(Touched') <= Pending'
      <4> SUFFICES ASSUME ~purge
                   PROVE  (\A l \in Lots : tx'[l] = rows'[l]) /\ Cardinality(Touched') <= Pending'
        BY <2>2
      <4>1. Touched' = {} BY <2>8 DEF Touched
      <4>2. Cardinality({}) = 0 BY FS_EmptySet
      <4>3. Pending' \in Nat
        <5>1. 0 % CommitEvery \in Nat
          <6>1. CommitEvery \in Nat \ {0} /\ 0 \in Nat BY LimitsAssumption
          <6> QED BY <6>1, ModNext
        <5>2. Pending' = 0 % CommitEvery BY <2>1, <2>6 DEF Pending, Processings
        <5> QED BY <5>1, <5>2
      <4> QED BY <2>8, <4>1, <4>2, <4>3
    <3> QED BY <3>1, <2>1, <2>2 DEF BatchOK
  <2>10. RowsFollowPages' BY <2>1, <2>6 DEF RowsFollowPages, NoRows
  <2>11. KeptOK'
    <3>1. ~purge => \A l \in Lots : tx'[l] = rows'[l] BY <2>8
    <3> QED BY <3>1, <2>2 DEF KeptOK, Keeps
  <2> QED BY <2>4, <2>5, <2>7, <2>9, <2>10, <2>11 DEF SInv
<1> QED BY <1>1, <1>2

LEMMA FailKeeps ==
    ASSUME SInv, Fail, browser' \subseteq Open
    PROVE  SInv'
<1>1. tx' = rows /\ UNCHANGED <<config, rows, listing, queue, done, written, savedFrom>>
      /\ phase' = "stopping"
  BY DEF Fail
<1>2. FoundOK' /\ LoopOK' /\ BatchOK' /\ RowsFollowPages' /\ KeptOK' BY <1>1, FailFrame
<1>3. SourceTypeOK' BY <1>1 DEF SInv, SourceTypeOK, config, listing
<1> QED BY <1>2, <1>3 DEF SInv

LEMMA FailsKeep ==
    ASSUME SInv, PrepareFails \/ ListFails \/ ScrapeFails \/ CommitFails
    PROVE  SInv'
<1>0. SourceTypeOK BY DEF SInv
<1>1. Fail BY DEF PrepareFails, ListFails, ScrapeFails, CommitFails
<1>2. browser' = browser \/ \E b \in Partly : StartBrowser(b)
  BY DEF PrepareFails, ListFails, ScrapeFails, CommitFails
<1>3. browser' \subseteq Open BY <1>0, <1>2, BrowserType
<1> QED BY <1>1, <1>3, FailKeeps

LEMMA CrashKeeps == SInv /\ Crash => SInv'
<1> SUFFICES ASSUME SInv, Crash PROVE SInv' OBVIOUS
<1>1. tx' = rows /\ UNCHANGED <<config, rows, listing, queue, done, written, savedFrom>>
      /\ phase' = "crashed" /\ browser' = {}
  BY DEF Crash
<1>2. FoundOK' /\ LoopOK' /\ BatchOK' /\ RowsFollowPages' /\ KeptOK' BY <1>1, FailFrame
<1>3. SourceTypeOK' BY <1>1 DEF SInv, SourceTypeOK, config, listing
<1> QED BY <1>2, <1>3 DEF SInv

\* The lots to scrape are distinct.
LEMMA SelectedType ==
    SInv /\ phase = "listed" => Selected \in Seq(Lots) /\ Distinct(Selected)
<1> SUFFICES ASSUME SInv, phase = "listed" PROVE Selected \in Seq(Lots) /\ Distinct(Selected)
  OBVIOUS
<1>0. SourceTypeOK /\ FoundOK /\ found \in Seq(Lots) BY DEF SInv, SourceTypeOK
<1>1. skip \in Nat /\ limit \in (Nat \ {0}) \cup {None} BY <1>0, Called
<1>2. <<>> \in Seq(Lots) OBVIOUS
<1>3. CASE source = "sothebys"
  <2>1. Unseen(<<>>, found) = found BY <1>0, <1>3 DEF FoundOK, FoundAuction
  <2>2. Distinct(Unseen(<<>>, found)) BY <1>0, <1>2, UnseenDistinct
  <2> QED BY <1>0, <1>3, <2>1, <2>2 DEF Selected
<1>4. CASE source # "sothebys"
  <2> DEFINE u == Unseen(<<>>, Shown)
  <2>1. Cut(found) = Cut(u) BY <1>0, <1>4 DEF FoundOK, FoundCut
  <2>2. u \in Seq(Lots) /\ Distinct(u)
    <3>1. Shown \in Seq(Lots) BY <1>0, FlattenType DEF SourceTypeOK, Shown
    <3> QED BY <3>1, <1>2, UnseenDistinct, UnseenType
  <2> HIDE DEF u
  <2>3. Cut(u) \in Seq(Lots) BY <1>1, <2>2, CutFacts
  <2>4. Distinct(Cut(u)) BY <1>1, <2>2, CutDistinct
  <2> QED BY <1>4, <2>1, <2>3, <2>4 DEF Selected
<1> QED BY <1>3, <1>4

LEMMA TakeKeeps == SInv /\ TakeQueue => SInv'
<1> SUFFICES ASSUME SInv, TakeQueue PROVE SInv' OBVIOUS
<1>0. SourceTypeOK /\ LoopOK /\ BatchOK /\ KeptOK BY DEF SInv
<1>1. phase = "listed" /\ queue' = Selected /\ ForgetListing
      /\ UNCHANGED <<config, rows, done, written, savedFrom, browser>>
  BY DEF TakeQueue
<1>2. UNCHANGED <<source, purge, skip, limit, pageLimit>> BY <1>1 DEF config
<1> DEFINE none == Selected = <<>> /\ purge /\ source # "lostart"
<1>3. /\ none => phase' = "stopping" /\ tx' = rows
      /\ ~none => phase' = (IF Selected = <<>> THEN "ending" ELSE "scrape") /\ tx' = tx
  BY DEF TakeQueue
<1>4. queue' \in Seq(Lots) /\ Distinct(queue') BY <1>1, SelectedType
<1>5. queue = <<>> /\ done = 0 /\ written = 0 /\ savedFrom = NoRows
  BY <1>0, <1>1 DEF LoopOK, Listing
<1>6. SourceTypeOK'
  <2>1. page' = 1 /\ pages' = 0 /\ counted' = 0 /\ read' = <<>> /\ found' = <<>>
    BY <1>1 DEF ForgetListing
  <2>2. <<>> \in Seq(Lots) /\ <<>> \in Seq(Seq(Lots)) OBVIOUS
  <2>3. tx' \in [Lots -> Rows \cup {None}] BY <1>0, <1>3 DEF SourceTypeOK
  <2>4. pages' \in 0..MaxPages BY <2>1, LimitsAssumption
  <2>5. phase' \in {"stopping", "ending", "scrape"} BY <1>3
  <2>6. done' \in 0..Len(queue') /\ written' \in 0..done' BY <1>1, <1>4, <1>5
  <2> QED BY <1>0, <1>1, <1>2, <1>4, <2>1, <2>2, <2>3, <2>4, <2>5, <2>6 DEF SourceTypeOK
<1>7. FoundOK'
  <2>1. phase' \in {"stopping", "ending", "scrape"} BY <1>3
  <2> QED BY <2>1 DEF FoundOK, FoundBefore, FoundAuction, FoundWhole, FoundOpen, FoundCut
<1>8. LoopOK'
  <2>1. phase' = "scrape" => done' < Len(queue')
    <3>1. phase' = "scrape" => queue' # <<>> BY <1>1, <1>3
    <3> QED BY <3>1, <1>1, <1>4, <1>5
  <2>2. phase' \in {"final", "ending", "done"} => done' = Len(queue')
    <3>1. phase' \in {"final", "ending", "done"} => queue' = <<>> BY <1>1, <1>3
    <3> QED BY <3>1, <1>1, <1>5
  <2>3. phase' \notin Listing BY <1>3 DEF Listing
  <2>4. Distinct(queue)' BY <1>4 DEF Distinct
  <2>5. \A l \in Lots : savedFrom'[l] = None BY <1>1, <1>5 DEF NoRows
  <2> QED BY <2>1, <2>2, <2>3, <2>4, <2>5 DEF LoopOK
<1>9. BatchOK'
  <2>1. phase' \in {"stopping", "ending", "scrape"} BY <1>3
  <2>2. phase' = "stopping" => tx' = rows' BY <1>1, <1>3
  <2>3. ~purge => /\ \A l \in Lots : tx'[l] = rows'[l]
                  /\ Cardinality(Touched') <= Pending'
    <3> SUFFICES ASSUME ~purge
                 PROVE  (\A l \in Lots : tx'[l] = rows'[l]) /\ Cardinality(Touched') <= Pending'
      OBVIOUS
    <3>1. tx' = tx /\ \A l \in Lots : tx[l] = rows[l]
      BY <1>0, <1>3, <1>5 DEF BatchOK, NoRows
    <3>2. Touched' = {} BY <1>1, <3>1 DEF Touched
    <3>3. Cardinality({}) = 0 BY FS_EmptySet
    <3>4. Pending' \in Nat
      <4>1. CommitEvery \in Nat \ {0} /\ 0 \in Nat BY LimitsAssumption
      <4>2. 0 % CommitEvery \in Nat BY <4>1, ModNext
      <4>3. Pending' = 0 % CommitEvery BY <1>1, <1>5, <2>1 DEF Pending, Processings
      <4> QED BY <4>2, <4>3
    <3> QED BY <1>1, <3>1, <3>2, <3>3, <3>4
  <2>4. purge /\ source # "lostart" /\ phase' \in {"scrape", "commit", "final", "ending"} =>
            queue' # <<>>
    BY <1>1, <1>3
  <2> QED BY <1>2, <2>1, <2>2, <2>3, <2>4 DEF BatchOK
<1>10. RowsFollowPages' BY <1>1, <1>5 DEF RowsFollowPages, NoRows
<1>11. KeptOK'
  <2>1. ~purge => tx' = tx BY <1>3
  <2> QED BY <1>0, <1>1, <1>2, <2>1 DEF KeptOK, Keeps
<1> QED BY <1>6, <1>7, <1>8, <1>9, <1>10, <1>11 DEF SInv

-----------------------------------------------------------------------------
(* The loop over the lots.                                                 *)

\* Adding a lot to a finite set adds at most one.
LEMMA OneMore ==
    ASSUME NEW S \in SUBSET Lots, NEW T \in SUBSET Lots, NEW l, T \subseteq S \cup {l}
    PROVE  Cardinality(T) <= Cardinality(S) + 1
<1>1. IsFiniteSet(S) BY LotsAssumption, FS_Subset
<1>2. Cardinality(S) \in Nat BY <1>1, FS_CardinalityType
<1> DEFINE A == S \cup {l}
<1>3. IsFiniteSet(A) /\ Cardinality(A) <= Cardinality(S) + 1
  <2>1. /\ IsFiniteSet(S \cup {l})
        /\ Cardinality(S \cup {l}) = IF l \in S THEN Cardinality(S) ELSE Cardinality(S) + 1
    BY <1>1, FS_AddElement
  <2> QED BY <1>2, <2>1
<1>4. T \in SUBSET A OBVIOUS
<1> HIDE DEF A
<1>5. IsFiniteSet(T) /\ Cardinality(T) <= Cardinality(A) BY <1>3, <1>4, FS_Subset
<1>6. Cardinality(T) \in Nat /\ Cardinality(A) \in Nat BY <1>3, <1>5, FS_CardinalityType
<1> QED BY <1>2, <1>3, <1>5, <1>6

LEMMA LotType ==
    SInv /\ phase = "scrape" => /\ done + 1 \in 1..Len(queue) /\ Lot \in Lots
                                /\ Len(queue) \in Nat /\ done \in Nat /\ savedFrom[Lot] = None
<1> SUFFICES ASSUME SInv, phase = "scrape"
             PROVE  /\ done + 1 \in 1..Len(queue) /\ Lot \in Lots
                    /\ Len(queue) \in Nat /\ done \in Nat /\ savedFrom[Lot] = None
  OBVIOUS
<1>1. queue \in Seq(Lots) /\ done \in 0..Len(queue)
            /\ done < Len(queue) BY DEF SInv, SourceTypeOK, LoopOK
<1>2. Len(queue) \in Nat /\ done \in Nat /\ done + 1 \in 1..Len(queue) BY <1>1
<1>3. Lot \in Lots BY <1>1, <1>2 DEF Lot
<1>4. ASSUME savedFrom[Lot] # None PROVE FALSE
  <2>1. PICK j \in 1..done : queue[j] = Lot BY <1>3, <1>4 DEF SInv, LoopOK
  <2>2. j \in 1..Len(queue) /\ j # done + 1 BY <1>2, <2>1
  <2> QED BY <1>2, <2>1, <2>2 DEF SInv, LoopOK, Distinct, Lot
<1> QED BY <1>2, <1>3, <1>4

\* Where a processed lot leaves the loop.
LEMMA ProcessedLoop ==
    ASSUME SInv, phase = "scrape", NEW full, Processed(full)
    PROVE  /\ phase' \in {"commit", "scrape", "final"} /\ (phase' = "commit" <=> full)
           /\ done' = done + 1 /\ queue' = queue /\ rows' = rows
           /\ UNCHANGED <<config, listing, source, purge, skip, limit, pageLimit, page, pages,
                          read, found, counted>>
           /\ done' \in 0..Len(queue)
           /\ phase' = "scrape" => done' < Len(queue)
           /\ phase' = "final" => done' = Len(queue)
<1>1. done + 1 \in 1..Len(queue) /\ Len(queue) \in Nat /\ done \in Nat BY LotType
<1>2. /\ done' = done + 1
      /\ phase' = IF full THEN "commit" ELSE IF done + 1 < Len(queue) THEN "scrape" ELSE "final"
      /\ UNCHANGED <<config, rows, listing, queue>>
  BY DEF Processed
<1>3. UNCHANGED <<source, purge, skip, limit, pageLimit, page, pages, read, found, counted>>
  BY <1>2 DEF config, listing
<1> QED BY <1>1, <1>2, <1>3

LEMMA SaveKeeps ==
    ASSUME SInv, phase = "scrape", NEW d \in Details, NEW row \in Rows, NEW full,
           tx' = [tx EXCEPT ![Lot] = row], savedFrom' = [savedFrom EXCEPT ![Lot] = d],
           Processed(full), browser' \subseteq Open,
           \/ source # "lostart" /\ written' = written /\ (full <=> FullBatch)
           \/ source = "lostart" /\ written' = written + 1
              /\ (full <=> (written + 1) % CommitEvery = 0),
           source # "christies" => row.title # "old",
           source \in {"christies", "dorotheum", "lostart"} => row.artist = d.artist,
           source \notin {"christies", "lostart"} =>
               \A i \in Before(Lot).images \ row.images : i \notin d.offered
    PROVE  SInv'
<1>0. SourceTypeOK /\ LoopOK /\ BatchOK /\ RowsFollowPages /\ KeptOK BY DEF SInv
<1>1. /\ done + 1 \in 1..Len(queue) /\ Lot \in Lots /\ Len(queue) \in Nat /\ done \in Nat
      /\ savedFrom[Lot] = None
  BY LotType
<1>2. /\ phase' \in {"commit", "scrape", "final"} /\ (phase' = "commit" <=> full)
      /\ done' = done + 1 /\ queue' = queue /\ rows' = rows
      /\ UNCHANGED <<config, listing, source, purge, skip, limit, pageLimit, page, pages,
                     read, found, counted>>
      /\ done' \in 0..Len(queue)
      /\ phase' = "scrape" => done' < Len(queue)
      /\ phase' = "final" => done' = Len(queue)
  BY ProcessedLoop
<1>3. d # None /\ row # None BY NoneAssumption
<1>4. /\ tx'[Lot] = row /\ \A l \in Lots : l # Lot => tx'[l] = tx[l]
      /\ savedFrom'[Lot] = d /\ \A l \in Lots : l # Lot => savedFrom'[l] = savedFrom[l]
      /\ tx' \in [Lots -> Rows \cup {None}] /\ savedFrom' \in [Lots -> Details \cup {None}]
  <2>1. tx \in [Lots -> Rows \cup {None}] /\ savedFrom \in [Lots -> Details \cup {None}]
    BY <1>0 DEF SourceTypeOK
  <2> HIDE DEF Lot
  <2> QED BY <1>1, <2>1
<1> HIDE DEF Lot
<1>5. written' \in 0..done'
  <2>1. written \in 0..done BY <1>0 DEF SourceTypeOK
  <2> QED BY <1>1, <1>2, <2>1
<1>6. SourceTypeOK' BY <1>0, <1>2, <1>4, <1>5 DEF SourceTypeOK
<1>7. FoundOK' BY <1>2 DEF FoundOK, FoundBefore, FoundAuction, FoundWhole, FoundOpen, FoundCut
<1>8. LoopOK'
  <2>1. ASSUME NEW l \in Lots, savedFrom'[l] # None PROVE \E j \in 1..done' : queue'[j] = l
    <3>1. CASE l = Lot
      <4>1. done + 1 \in 1..done' /\ queue'[done + 1] = l BY <1>1, <1>2, <3>1 DEF Lot
      <4> QED BY <4>1
    <3>2. CASE l # Lot
      <4>1. PICK j \in 1..done : queue[j] = l BY <1>0, <1>4, <2>1, <3>2 DEF LoopOK
      <4>2. j \in 1..done' BY <1>1, <1>2, <4>1
      <4> QED BY <1>2, <4>1, <4>2
    <3> QED BY <3>1, <3>2
  <2>2. Distinct(queue)' BY <1>0, <1>2 DEF LoopOK, Distinct
  <2> QED BY <1>2, <2>1, <2>2 DEF LoopOK, Listing
<1>9. BatchOK'
  <2>1. ASSUME ~purge PROVE /\ \A l \in Lots : savedFrom'[l] = None => tx'[l] = rows'[l]
                            /\ Cardinality(Touched') <= Pending'
    <3>1. \A l \in Lots : savedFrom'[l] = None => tx'[l] = rows'[l]
      BY <1>0, <1>2, <1>3, <1>4, <2>1 DEF BatchOK
    <3>2. Touched \in SUBSET Lots /\ Touched' \in SUBSET Lots
                /\ Touched' \subseteq Touched \cup {Lot}
      BY <1>2, <1>4 DEF Touched
    <3>3. Cardinality(Touched') <= Cardinality(Touched) + 1
      <4> DEFINE T == Touched
                 U == Touched'
      <4>1. T \in SUBSET Lots /\ U \in SUBSET Lots /\ U \subseteq T \cup {Lot} BY <3>2
      <4> HIDE DEF T, U
      <4>2. Cardinality(U) <= Cardinality(T) + 1 BY <4>1, OneMore
      <4> QED BY <4>2 DEF T, U
    <3>4. Pending' = Pending + 1 /\ Pending \in Nat
      <4>1. PICK n \in Nat : n = Processings /\ (full <=> (n + 1) % CommitEvery = 0)
                             /\ Processings' = n + 1
        <5>1. written \in Nat BY <1>0, <1>1 DEF SourceTypeOK
        <5> QED BY <1>1, <1>2, <5>1 DEF Processings, FullBatch
      <4>2. CommitEvery \in Nat \ {0} BY LimitsAssumption
      <4>3. /\ n % CommitEvery \in 0..(CommitEvery - 1)
            /\ (n + 1) % CommitEvery = 0 => n % CommitEvery = CommitEvery - 1
            /\ (n + 1) % CommitEvery # 0 => (n + 1) % CommitEvery = (n % CommitEvery) + 1
        BY <4>2, ModNext
      <4>4. Pending = n % CommitEvery BY <4>1 DEF Pending
      <4>5. Pending' = IF full THEN CommitEvery ELSE (n + 1) % CommitEvery
        BY <1>2, <4>1 DEF Pending
      <4> QED BY <4>1, <4>2, <4>3, <4>4, <4>5
    <3>5. Cardinality(Touched) <= Pending BY <1>0, <2>1 DEF BatchOK
    <3>6. Cardinality(Touched) \in Nat /\ Cardinality(Touched') \in Nat
      <4>1. IsFiniteSet(Touched) /\ IsFiniteSet(Touched') BY <3>2, LotsAssumption, FS_Subset
      <4> QED BY <4>1, FS_CardinalityType
    <3> QED BY <3>1, <3>3, <3>4, <3>5, <3>6
  <2>2. queue' # <<>>
    <3>1. queue # <<>> BY <1>1
    <3> QED BY <3>1, <1>2
  <2> QED BY <1>2, <2>1, <2>2 DEF BatchOK
<1>10. RowsFollowPages'
  <2>1. ASSUME NEW l \in Lots, savedFrom'[l] # None
        PROVE  /\ source # "christies" => tx'[l].title # "old"
               /\ source \in {"christies", "dorotheum", "lostart"} =>
                      tx'[l].artist = savedFrom'[l].artist
    <3>1. CASE l = Lot BY <1>4, <3>1
    <3>2. CASE l # Lot BY <1>0, <1>4, <2>1, <3>2 DEF RowsFollowPages
    <3> QED BY <3>1, <3>2
  <2> QED BY <1>2, <2>1 DEF RowsFollowPages
<1>11. KeptOK'
  <2>1. ASSUME source \notin {"lostart", "christies"}, ~purge, NEW l \in Lots, rows[l] # None
        PROVE  /\ tx'[l] # None
               /\ \A i \in rows[l].images \ tx'[l].images :
                      savedFrom'[l] # None /\ i \notin savedFrom'[l].offered
    <3>1. CASE l = Lot
      <4>1. tx[Lot] = rows[Lot] BY <1>0, <1>1, <2>1 DEF BatchOK
      <4>2. Before(Lot).images = rows[Lot].images BY <2>1, <3>1, <4>1 DEF Before
      <4>3. \A i \in rows[Lot].images \ row.images : i \notin d.offered BY <2>1, <4>2
      <4> QED BY <1>3, <1>4, <3>1, <4>3
    <3>2. CASE l # Lot
      <4>1. Keeps(l) BY <1>0, <2>1 DEF KeptOK
      <4> QED BY <1>4, <3>2, <4>1 DEF Keeps
    <3> QED BY <3>1, <3>2
  <2> QED BY <1>2, <2>1 DEF KeptOK, Keeps
<1> QED BY <1>6, <1>7, <1>8, <1>9, <1>10, <1>11 DEF SInv

-----------------------------------------------------------------------------
(* What a lot's row becomes.                                               *)

Titles == {"new", "made", None}

LEMMA DetailsType ==
    ASSUME NEW d \in Details
    PROVE  /\ d.title \in {"new", None} /\ d.artist \in {"new", None}
           /\ d.got \in SUBSET UNION Offers /\ d.got \subseteq d.offered
BY DEF Details, Downloads

LEMMA RowBuilt ==
    ASSUME NEW t \in {"old", "new", "made", None}, NEW a \in {"old", "new", None},
           NEW im \in SUBSET (OldImages \cup UNION Offers)
    PROVE  LET r == [title |-> t, artist |-> a, images |-> im]
           IN  r \in Rows /\ r.title = t /\ r.artist = a /\ r.images = im
BY DEF Rows

LEMMA RowParts ==
    ASSUME NEW r \in Rows
    PROVE  /\ r.title \in {"old", "new", "made", None} /\ r.artist \in {"old", "new", None}
           /\ r.images \in SUBSET (OldImages \cup UNION Offers)
           /\ r = [title |-> r.title, artist |-> r.artist, images |-> r.images]
BY DEF Rows

LEMMA UpsertRow ==
    ASSUME NEW r \in Rows, NEW t \in Titles, NEW a \in {"new", None}
    PROVE  LET u == Upsert(r, t, a)
           IN  /\ u \in Rows /\ u.images = r.images
               /\ u.title = IF t = None THEN r.title ELSE t
               /\ u.artist = IF a = None THEN r.artist ELSE a
<1> DEFINE u == Upsert(r, t, a)
           nt == IF t = None THEN r.title ELSE t
           na == IF a = None THEN r.artist ELSE a
<1>1. u = [title |-> nt, artist |-> na, images |-> r.images]
  <2>1. u = [r EXCEPT !.title = nt, !.artist = na] BY DEF Upsert
  <2> HIDE DEF u, nt, na
  <2>2. r \in [title : {"old", "new", "made", None}, artist : {"old", "new", None},
               images : SUBSET (OldImages \cup UNION Offers)]
    BY DEF Rows
  <2> QED BY <2>1, <2>2
<1>2. nt \in {"old", "new", "made", None} /\ na \in {"old", "new", None}
      /\ r.images \in SUBSET (OldImages \cup UNION Offers)
  BY RowParts DEF Titles
<1> HIDE DEF nt, na, u
<1>3. u \in Rows /\ u.title = nt /\ u.artist = na /\ u.images = r.images
  BY <1>1, <1>2, RowBuilt
<1> QED BY <1>3 DEF nt, na, u

LEMMA SetImagesRow ==
    ASSUME NEW r \in Rows, NEW d \in Details
    PROVE  LET u == SetImages(r, d)
           IN  /\ u \in Rows /\ u.title = r.title /\ u.artist = r.artist
               /\ \A i \in r.images \ u.images : i \notin d.offered
<1> DEFINE u == SetImages(r, d)
           im == IF d.got = d.offered THEN d.got ELSE r.images \cup d.got
<1>1. u = [title |-> r.title, artist |-> r.artist, images |-> im] BY RowParts DEF SetImages
<1>2. im \in SUBSET (OldImages \cup UNION Offers)
  <2>1. r.images \in SUBSET (OldImages \cup UNION Offers) BY RowParts
  <2>2. d.got \in SUBSET UNION Offers BY DetailsType
  <2> QED BY <2>1, <2>2
<1>3. \A i \in r.images \ im : i \notin d.offered OBVIOUS
<1> HIDE DEF im, u
<1>4. r.title \in {"old", "new", "made", None} /\ r.artist \in {"old", "new", None} BY RowParts
<1>5. u \in Rows /\ u.title = r.title /\ u.artist = r.artist /\ u.images = im
  BY <1>1, <1>2, <1>4, RowBuilt
<1> QED BY <1>3, <1>5 DEF u

LEMMA ClearTitleRow ==
    ASSUME NEW r \in Rows, NEW d \in Details
    PROVE  LET u == ClearTitle(r, d)
           IN  /\ u \in Rows /\ u.artist = r.artist /\ u.images = r.images
               /\ u.title = IF d.title = None THEN None ELSE r.title
<1>1. CASE d.title = None
  <2>1. ClearTitle(r, d) = [title |-> None, artist |-> r.artist, images |-> r.images]
    BY <1>1, RowParts DEF ClearTitle
  <2>2. r.artist \in {"old", "new", None} /\ r.images \in SUBSET (OldImages \cup UNION Offers)
    BY RowParts
  <2> QED BY <1>1, <2>1, <2>2, RowBuilt
<1>2. CASE d.title # None BY <1>2 DEF ClearTitle
<1> QED BY <1>1, <1>2

LEMMA ClearArtistRow ==
    ASSUME NEW r \in Rows, NEW d \in Details
    PROVE  LET u == ClearArtist(r, d)
           IN  /\ u \in Rows /\ u.title = r.title /\ u.images = r.images
               /\ u.artist = IF d.artist = None THEN None ELSE r.artist
<1>1. CASE d.artist = None
  <2>1. ClearArtist(r, d) = [title |-> r.title, artist |-> None, images |-> r.images]
    BY <1>1, RowParts DEF ClearArtist
  <2>2. r.title \in {"old", "new", "made", None}
        /\ r.images \in SUBSET (OldImages \cup UNION Offers)
    BY RowParts
  <2> QED BY <1>1, <2>1, <2>2, RowBuilt
<1>2. CASE d.artist # None BY <1>2 DEF ClearArtist
<1> QED BY <1>1, <1>2

LEMMA BeforeRow ==
    ASSUME SourceTypeOK, NEW l \in Lots
    PROVE  Before(l) \in Rows
<1>1. tx[l] \in Rows \cup {None} BY DEF SourceTypeOK
<1>2. [title |-> None, artist |-> None, images |-> {}] \in Rows BY DEF Rows
<1> QED BY <1>1, <1>2 DEF Before

\* The rows the auction platforms start from: what was stored, the title and the
\* artist the page has, and the images.
LEMMA AuctionRow ==
    ASSUME SourceTypeOK, NEW l \in Lots, NEW d \in Details, NEW t \in Titles
    PROVE  LET u == SetImages(Upsert(Before(l), t, d.artist), d)
           IN  /\ u \in Rows
               /\ t # None => u.title = t
               /\ d.artist # None => u.artist = d.artist
               /\ \A i \in Before(l).images \ u.images : i \notin d.offered
<1> DEFINE b == Before(l)
           v == Upsert(b, t, d.artist)
           u == SetImages(v, d)
<1>1. b \in Rows BY BeforeRow
<1>2. d.artist \in {"new", None} BY DetailsType
<1> HIDE DEF b
<1>3. /\ v \in Rows /\ v.images = b.images /\ v.title = (IF t = None THEN b.title ELSE t)
      /\ v.artist = (IF d.artist = None THEN b.artist ELSE d.artist)
  BY <1>1, <1>2, UpsertRow
<1> HIDE DEF v
<1>4. /\ u \in Rows /\ u.title = v.title /\ u.artist = v.artist
      /\ \A i \in v.images \ u.images : i \notin d.offered
  BY <1>3, SetImagesRow
<1> HIDE DEF u
<1>5. /\ u \in Rows /\ (t # None => u.title = t) /\ (d.artist # None => u.artist = d.artist)
      /\ \A i \in b.images \ u.images : i \notin d.offered
  BY <1>3, <1>4
<1> QED BY <1>5 DEF u, v, b

\* What is left of the title and the artist an earlier run stored.
LEMMA RowFromPage ==
    ASSUME SourceTypeOK, NEW l \in Lots, NEW d \in Details, NEW t \in Titles
    PROVE  LET u == SetImages(Upsert(Before(l), t, d.artist), d)
               ca == ClearArtist(u, d)
               ct == ClearTitle(u, d)
               cc == ClearArtist(ct, d)
           IN  /\ u \in Rows /\ ca \in Rows /\ ct \in Rows /\ cc \in Rows
               /\ t # None => u.title = t
               /\ t = d.title => ct.title # "old" /\ cc.title # "old"
               /\ ca.artist = d.artist /\ cc.artist = d.artist
               /\ \A i \in Before(l).images \ u.images : i \notin d.offered
               /\ ca.images = u.images /\ ct.images = u.images /\ cc.images = u.images
<1> DEFINE u == SetImages(Upsert(Before(l), t, d.artist), d)
           ca == ClearArtist(u, d)
           ct == ClearTitle(u, d)
           cc == ClearArtist(ct, d)
<1>1. /\ u \in Rows
      /\ t # None => u.title = t
      /\ d.artist # None => u.artist = d.artist
      /\ \A i \in Before(l).images \ u.images : i \notin d.offered
  BY AuctionRow
<1> HIDE DEF u
<1>2. /\ ct \in Rows /\ ct.artist = u.artist /\ ct.images = u.images
      /\ ct.title = IF d.title = None THEN None ELSE u.title
  BY <1>1, ClearTitleRow
<1>3. /\ ca \in Rows /\ ca.title = u.title /\ ca.images = u.images
      /\ ca.artist = IF d.artist = None THEN None ELSE u.artist
  BY <1>1, ClearArtistRow
<1> HIDE DEF ct, ca
<1>4. /\ cc \in Rows /\ cc.title = ct.title /\ cc.images = ct.images
      /\ cc.artist = IF d.artist = None THEN None ELSE ct.artist
  BY <1>2, ClearArtistRow
<1> HIDE DEF cc
<1>5. d.title \in {"new", None} BY DetailsType
<1>6. None # "old" BY NoneAssumption
<1>7. t = d.title => ct.title # "old" BY <1>1, <1>2, <1>5, <1>6
<1>8. ca.artist = d.artist /\ cc.artist = d.artist BY <1>1, <1>2, <1>3, <1>4
<1>9. /\ u \in Rows /\ ca \in Rows /\ ct \in Rows /\ cc \in Rows
      /\ t # None => u.title = t
      /\ t = d.title => ct.title # "old" /\ cc.title # "old"
      /\ ca.artist = d.artist /\ cc.artist = d.artist
      /\ \A i \in Before(l).images \ u.images : i \notin d.offered
      /\ ca.images = u.images /\ ct.images = u.images /\ cc.images = u.images
  BY <1>1, <1>2, <1>3, <1>4, <1>7, <1>8
<1> QED BY <1>9 DEF u, ca, ct, cc

LEMMA ScrapeKeeps ==
    ASSUME SInv, NEW d \in Details,
           \/ ScrapeChristies(d) \/ ScrapeDorotheum(d) \/ ScrapeDrouot(d)
           \/ ScrapeLottissimo(d) \/ ScrapeSothebys(d) \/ ScrapeLostArt(d)
    PROVE  SInv'
<1>0. SourceTypeOK BY DEF SInv
<1>1. phase = "scrape"
  BY DEF ScrapeChristies, ScrapeDorotheum, ScrapeDrouot, ScrapeLottissimo, ScrapeSothebys,
         ScrapeLostArt
<1>2. Lot \in Lots BY <1>1, LotType
<1>3. d.title \in {"new", None} /\ d.artist \in {"new", None} /\ None # "old"
  BY DetailsType, NoneAssumption
<1>4. browser' \subseteq Open
  BY <1>0, BrowserType
  DEF ScrapeChristies, ScrapeDorotheum, ScrapeDrouot, ScrapeLottissimo, ScrapeSothebys,
      ScrapeLostArt
<1> DEFINE u(t) == SetImages(Upsert(Before(Lot), t, d.artist), d)
<1>5. ASSUME NEW t \in Titles
      PROVE  /\ u(t) \in Rows /\ ClearArtist(u(t), d) \in Rows /\ ClearTitle(u(t), d) \in Rows
             /\ ClearArtist(ClearTitle(u(t), d), d) \in Rows
             /\ t # None => u(t).title = t
             /\ t = d.title => /\ ClearTitle(u(t), d).title # "old"
                               /\ ClearArtist(ClearTitle(u(t), d), d).title # "old"
             /\ ClearArtist(u(t), d).artist = d.artist
             /\ ClearArtist(ClearTitle(u(t), d), d).artist = d.artist
             /\ \A i \in Before(Lot).images \ u(t).images : i \notin d.offered
             /\ ClearArtist(u(t), d).images = u(t).images
             /\ ClearTitle(u(t), d).images = u(t).images
             /\ ClearArtist(ClearTitle(u(t), d), d).images = u(t).images
  BY <1>0, <1>2, RowFromPage
<1> HIDE DEF u
<1>6. d.title \in Titles /\ Orelse(d.title, "made") \in {"new", "made"}
      /\ Orelse(d.title, "made") \in Titles
  BY <1>3 DEF Titles, Orelse
<1>7. CASE ScrapeChristies(d)
  <2> DEFINE row == ClearArtist(u(d.title), d)
  <2>1. source = "christies" /\ Save(d, row) BY <1>7 DEF ScrapeChristies, u
  <2>2. row \in Rows /\ row.artist = d.artist BY <1>5, <1>6
  <2> HIDE DEF row
  <2> QED BY <1>1, <1>4, <2>1, <2>2, SaveKeeps DEF Save
<1>8. CASE ScrapeDorotheum(d)
  <2> DEFINE row == ClearArtist(ClearTitle(u(d.title), d), d)
  <2>1. source = "dorotheum" /\ Save(d, row) BY <1>8 DEF ScrapeDorotheum, u
  <2>2. /\ row \in Rows /\ row.artist = d.artist /\ row.title # "old"
        /\ \A i \in Before(Lot).images \ row.images : i \notin d.offered
    BY <1>5, <1>6
  <2> HIDE DEF row
  <2> QED BY <1>1, <1>4, <2>1, <2>2, SaveKeeps DEF Save
<1>9. CASE ScrapeDrouot(d)
  <2> DEFINE row == u(d.title)
  <2>1. source = "drouot" /\ Save(d, row) /\ d.title # None BY <1>9 DEF ScrapeDrouot, u
  <2>2. /\ row \in Rows /\ row.title # "old"
        /\ \A i \in Before(Lot).images \ row.images : i \notin d.offered
    BY <1>3, <1>5, <1>6, <2>1
  <2> HIDE DEF row
  <2> QED BY <1>1, <1>4, <2>1, <2>2, SaveKeeps DEF Save
<1>10. CASE ScrapeLottissimo(d)
  <2> DEFINE row == ClearTitle(u(d.title), d)
  <2>1. source = "lottissimo" /\ Save(d, row) BY <1>10 DEF ScrapeLottissimo, u
  <2>2. /\ row \in Rows /\ row.title # "old"
        /\ \A i \in Before(Lot).images \ row.images : i \notin d.offered
    BY <1>5, <1>6
  <2> HIDE DEF row
  <2> QED BY <1>1, <1>4, <2>1, <2>2, SaveKeeps DEF Save
<1>11. CASE ScrapeSothebys(d)
  <2> DEFINE row == u(Orelse(d.title, "made"))
  <2>1. source = "sothebys" /\ Save(d, row) BY <1>11 DEF ScrapeSothebys, u
  <2>2. /\ row \in Rows /\ row.title # "old"
        /\ \A i \in Before(Lot).images \ row.images : i \notin d.offered
    <3>1. Orelse(d.title, "made") # None BY <1>6, NoneAssumption, <1>3 DEF Orelse
    <3> QED BY <1>5, <1>6, <3>1
  <2> HIDE DEF row
  <2> QED BY <1>1, <1>4, <2>1, <2>2, SaveKeeps DEF Save
<1>12. CASE ScrapeLostArt(d)
  <2> DEFINE row == [title |-> Orelse(d.title, "made"), artist |-> d.artist, images |-> d.got]
             full == (written + 1) % CommitEvery = 0
  <2>1. /\ source = "lostart" /\ tx' = [tx EXCEPT ![Lot] = row]
        /\ savedFrom' = [savedFrom EXCEPT ![Lot] = d] /\ written' = written + 1 /\ Processed(full)
    BY <1>12 DEF ScrapeLostArt
  <2>2. row \in Rows /\ row.artist = d.artist /\ row.title # "old"
    <3>1. d.got \in SUBSET (OldImages \cup UNION Offers) BY DetailsType
    <3> QED BY <3>1, <1>3, <1>6, RowBuilt
  <2>3. full <=> (written + 1) % CommitEvery = 0 OBVIOUS
  <2> HIDE DEF row, full
  <2> QED BY <1>1, <1>4, <2>1, <2>2, <2>3, SaveKeeps
<1> QED BY <1>7, <1>8, <1>9, <1>10, <1>11, <1>12

\* A lot passed over changes no row; it counts towards the batch except in Lost Art.
LEMMA PassKeeps == SInv /\ PassOver => SInv'
<1> SUFFICES ASSUME SInv, PassOver PROVE SInv' OBVIOUS
<1> DEFINE full == source # "lostart" /\ FullBatch
<1>0. SourceTypeOK /\ LoopOK /\ BatchOK /\ RowsFollowPages /\ KeptOK BY DEF SInv
<1>1. phase = "scrape" /\ Processed(full) /\ UNCHANGED <<tx, written, savedFrom>>
  BY DEF PassOver
<1>2. browser' \subseteq Open BY <1>0, BrowserType DEF PassOver
<1>3. full <=> source # "lostart" /\ (done + 1) % CommitEvery = 0 BY DEF FullBatch
<1> HIDE DEF full
<1>4. done + 1 \in 1..Len(queue) /\ Len(queue) \in Nat /\ done \in Nat BY <1>1, LotType
<1>5. /\ phase' \in {"commit", "scrape", "final"} /\ (phase' = "commit" <=> full)
      /\ done' = done + 1 /\ queue' = queue /\ rows' = rows
      /\ UNCHANGED <<config, listing, source, purge, skip, limit, pageLimit, page, pages,
                     read, found, counted>>
      /\ done' \in 0..Len(queue)
      /\ phase' = "scrape" => done' < Len(queue)
      /\ phase' = "final" => done' = Len(queue)
  BY <1>1, ProcessedLoop
<1>6. written' \in 0..done'
  <2>1. written \in 0..done BY <1>0 DEF SourceTypeOK
  <2> QED BY <1>1, <1>4, <1>5, <2>1
<1>7. SourceTypeOK' BY <1>0, <1>1, <1>2, <1>5, <1>6 DEF SourceTypeOK
<1>8. FoundOK' BY <1>5 DEF FoundOK, FoundBefore, FoundAuction, FoundWhole, FoundOpen, FoundCut
<1>9. LoopOK'
  <2>1. ASSUME NEW l \in Lots, savedFrom'[l] # None PROVE \E j \in 1..done' : queue'[j] = l
    <3>1. PICK j \in 1..done : queue[j] = l BY <1>0, <1>1, <2>1 DEF LoopOK
    <3>2. j \in 1..done' BY <1>4, <1>5, <3>1
    <3> QED BY <1>5, <3>1, <3>2
  <2>2. Distinct(queue)' BY <1>0, <1>5 DEF LoopOK, Distinct
  <2> QED BY <1>5, <2>1, <2>2 DEF LoopOK, Listing
<1>10. Pending \in Nat /\ Pending' \in Nat /\ Pending <= Pending'
  <2>1. CommitEvery \in Nat \ {0} /\ written \in Nat
    BY <1>0, <1>4, LimitsAssumption DEF SourceTypeOK
  <2>2. CASE source = "lostart"
    <3>1. Pending = written % CommitEvery BY <1>1, <2>2 DEF Pending, Processings
    <3>2. Pending' = written % CommitEvery BY <1>1, <1>3, <1>5, <2>2 DEF Pending, Processings
    <3>3. written % CommitEvery \in 0..(CommitEvery - 1) BY <2>1, ModNext
    <3> QED BY <2>1, <3>1, <3>2, <3>3
  <2>3. CASE source # "lostart"
    <3>1. Pending = done % CommitEvery BY <1>1, <2>3 DEF Pending, Processings
    <3>2. Pending' = IF full THEN CommitEvery ELSE (done + 1) % CommitEvery
      BY <1>1, <1>5, <2>3 DEF Pending, Processings
    <3>3. /\ done % CommitEvery \in 0..(CommitEvery - 1)
          /\ (done + 1) % CommitEvery = 0 => done % CommitEvery = CommitEvery - 1
          /\ (done + 1) % CommitEvery # 0 =>
                 (done + 1) % CommitEvery = (done % CommitEvery) + 1
      BY <1>4, <2>1, ModNext
    <3> QED BY <1>3, <2>1, <2>3, <3>1, <3>2, <3>3
  <2> QED BY <2>2, <2>3
<1>11. BatchOK'
  <2>1. ASSUME ~purge PROVE /\ \A l \in Lots : savedFrom'[l] = None => tx'[l] = rows'[l]
                            /\ Cardinality(Touched') <= Pending'
    <3>1. Touched' = Touched BY <1>1, <1>5 DEF Touched
    <3>2. Cardinality(Touched) <= Pending BY <1>0, <2>1 DEF BatchOK
    <3>3. Cardinality(Touched) \in Nat
      <4>1. Touched \in SUBSET Lots BY DEF Touched
      <4>2. IsFiniteSet(Touched) BY <4>1, LotsAssumption, FS_Subset
      <4> QED BY <4>2, FS_CardinalityType
    <3>4. \A l \in Lots : savedFrom'[l] = None => tx'[l] = rows'[l]
      BY <1>0, <1>1, <1>5, <2>1 DEF BatchOK
    <3> QED BY <1>10, <3>1, <3>2, <3>3, <3>4
  <2>2. queue' # <<>>
    <3>1. queue # <<>> BY <1>4
    <3> QED BY <3>1, <1>5
  <2> QED BY <1>5, <2>1, <2>2 DEF BatchOK
<1>12. RowsFollowPages' BY <1>0, <1>1, <1>5 DEF RowsFollowPages
<1>13. KeptOK' BY <1>0, <1>1, <1>5 DEF KeptOK, Keeps
<1> QED BY <1>7, <1>8, <1>9, <1>11, <1>12, <1>13 DEF SInv

-----------------------------------------------------------------------------
(* Batches and the end.                                                    *)

\* What was committed, once the session's rows are.
LEMMA CommittedAll ==
    ASSUME SourceTypeOK, rows' = tx', UNCHANGED <<config, done, written>>
    PROVE  /\ \A l \in Lots : tx'[l] = rows'[l]
           /\ Touched' = {} /\ Cardinality(Touched') = 0 /\ Cardinality(Touched') <= Pending'
<1>1. Touched' = {} BY DEF Touched
<1>2. Cardinality({}) = 0 BY FS_EmptySet
<1>3. CommitEvery \in Nat \ {0} /\ done \in Nat /\ written \in Nat
  BY LimitsAssumption DEF SourceTypeOK
<1>4. \E n \in Nat : Pending' = CommitEvery \/ Pending' = n % CommitEvery
  BY <1>3 DEF Processings, Pending
<1>5. PICK n \in Nat : Pending' = CommitEvery \/ Pending' = n % CommitEvery BY <1>4
<1>6. Pending' \in Nat BY <1>3, <1>5, ModNext
<1> QED BY <1>1, <1>2, <1>6

LEMMA CommitKeeps == SInv /\ (CommitBatch \/ FinalCommit \/ Finish) => SInv'
<1> SUFFICES ASSUME SInv, CommitBatch \/ FinalCommit \/ Finish PROVE SInv' OBVIOUS
<1>0. SourceTypeOK /\ LoopOK /\ BatchOK /\ RowsFollowPages /\ KeptOK BY DEF SInv
<1>1. /\ phase \in {"commit", "final", "ending", "stopping"}
      /\ phase' \in {"scrape", "final", "ending", "done", "failed"}
      /\ UNCHANGED <<config, tx, listing, queue, done, written>>
      /\ rows' \in {rows, tx} /\ savedFrom' \in {savedFrom, NoRows} /\ browser' \in {browser, {}}
  BY DEF CommitBatch, FinalCommit, Finish
<1>2. UNCHANGED <<source, purge, skip, limit, pageLimit, page, pages, read, found, counted>>
  BY <1>1 DEF config, listing
<1>3. SourceTypeOK'
  <2>1. rows' \in [Lots -> Rows \cup {None}] BY <1>0, <1>1 DEF SourceTypeOK
  <2>2. savedFrom' \in [Lots -> Details \cup {None}] BY <1>0, <1>1 DEF SourceTypeOK, NoRows
  <2>3. browser' \subseteq Open BY <1>0, <1>1 DEF SourceTypeOK
  <2> QED BY <1>0, <1>1, <1>2, <2>1, <2>2, <2>3 DEF SourceTypeOK
<1>4. FoundOK' BY <1>1 DEF FoundOK, FoundBefore, FoundAuction, FoundWhole, FoundOpen, FoundCut
<1>5. LoopOK'
  <2>1. phase' = "scrape" => done' < Len(queue') BY <1>1 DEF CommitBatch, FinalCommit, Finish
  <2>2. phase' \in {"final", "ending", "done"} => done' = Len(queue')
    <3>1. done \in 0..Len(queue) /\ Len(queue) \in Nat BY <1>0 DEF SourceTypeOK
    <3>2. phase \in {"final", "ending"} => done = Len(queue) BY <1>0 DEF LoopOK
    <3> QED BY <1>1, <3>1, <3>2 DEF CommitBatch, FinalCommit, Finish
  <2>3. Distinct(queue)' BY <1>0, <1>1 DEF LoopOK, Distinct
  <2>4. ASSUME NEW l \in Lots, savedFrom'[l] # None PROVE \E j \in 1..done' : queue'[j] = l
    <3>1. savedFrom' = savedFrom BY <1>1, <2>4 DEF NoRows
    <3> QED BY <1>0, <1>1, <2>4, <3>1 DEF LoopOK
  <2> QED BY <1>1, <2>1, <2>2, <2>3, <2>4 DEF LoopOK, Listing
<1>6. rows' = rows => Touched' = Touched BY <1>1 DEF Touched
<1>7. phase # "commit" => Pending' = Pending
  <2>1. Processings' = Processings BY <1>1, <1>2 DEF Processings
  <2> QED BY <1>1, <2>1 DEF Pending
<1>8. rows' = tx' \/ (rows' = rows /\ phase # "commit")
  BY <1>1 DEF CommitBatch, FinalCommit, Finish
<1>9. savedFrom' = savedFrom \/ rows' = tx' BY <1>1 DEF CommitBatch, FinalCommit, Finish
<1>10. BatchOK'
  <2>1. phase' \in {"done", "failed"} => tx' = rows' /\ browser' = {}
    <3>1. phase' \in {"done", "failed"} => Finish BY DEF CommitBatch, FinalCommit
    <3>2. phase = "stopping" => tx = rows BY <1>0 DEF BatchOK
    <3> QED BY <1>1, <3>1, <3>2 DEF Finish
  <2>2. ASSUME ~purge PROVE /\ \A l \in Lots : savedFrom'[l] = None => tx'[l] = rows'[l]
                            /\ Cardinality(Touched') <= Pending'
    <3>1. CASE rows' = tx'
      <4>1. rows' = tx' /\ UNCHANGED <<config, done, written>> BY <1>1, <3>1
      <4> QED BY <1>0, <4>1, CommittedAll
    <3>2. CASE rows' # tx'
      <4>1. rows' = rows /\ savedFrom' = savedFrom /\ Touched' = Touched /\ Pending' = Pending
        BY <1>6, <1>7, <1>8, <1>9, <3>2
      <4> QED BY <1>0, <1>1, <2>2, <4>1 DEF BatchOK
    <3> QED BY <3>1, <3>2
  <2>3. purge /\ source # "lostart" /\ phase' \in {"scrape", "commit", "final", "ending"} =>
            queue' # <<>>
    <3>1. phase' \in {"scrape", "final", "ending"} => phase \in {"commit", "final"}
      BY DEF CommitBatch, FinalCommit, Finish
    <3> QED BY <1>0, <1>1, <3>1 DEF BatchOK
  <2> QED BY <1>1, <1>2, <2>1, <2>2, <2>3 DEF BatchOK
<1>11. RowsFollowPages'
  <2>1. ASSUME NEW l \in Lots, phase' \notin {"stopping", "failed", "crashed"}, savedFrom'[l] # None
        PROVE  /\ source' # "christies" => tx'[l].title # "old"
               /\ source' \in {"christies", "dorotheum", "lostart"} =>
                      tx'[l].artist = savedFrom'[l].artist
    <3>1. savedFrom' = savedFrom BY <1>1, <2>1 DEF NoRows
    <3>2. phase \notin {"stopping", "failed", "crashed"}
      BY <1>1, <2>1 DEF CommitBatch, FinalCommit, Finish
    <3> QED BY <1>0, <1>1, <1>2, <2>1, <3>1, <3>2 DEF RowsFollowPages
  <2> QED BY <2>1 DEF RowsFollowPages
<1>12. KeptOK'
  <2>1. CASE rows' = tx'
    <3>1. \A l \in Lots : tx'[l] = rows'[l] BY <2>1
    <3> QED BY <3>1 DEF KeptOK, Keeps
  <2>2. CASE rows' # tx'
    <3>1. rows' = rows /\ savedFrom' = savedFrom BY <1>8, <1>9, <2>2
    <3> QED BY <1>0, <1>1, <1>2, <3>1 DEF KeptOK, Keeps
  <2> QED BY <2>1, <2>2
<1> QED BY <1>3, <1>4, <1>5, <1>10, <1>11, <1>12 DEF SInv

LEMMA SInvNext == SInv /\ [SourceNext]_sourceVars => SInv'
<1> SUFFICES ASSUME SInv, [SourceNext]_sourceVars PROVE SInv' OBVIOUS
<1>1. CASE UNCHANGED sourceVars
  <2>1. UNCHANGED <<source, purge, skip, limit, pageLimit, rows, tx, phase, page, pages, read,
                    found, counted, queue, done, written, savedFrom, browser>>
    BY <1>1 DEF sourceVars, config, listing
  <2>2. SourceTypeOK' BY <2>1 DEF SInv, SourceTypeOK
  <2>3. FoundOK'
    <3>1. Shown' = Shown /\ ShownCut' = ShownCut /\ StoredLots' = StoredLots
      BY <2>1 DEF Shown, ShownCut, StoredLots, Firsts
    <3>2. Enough(found)' = Enough(found) BY <2>1 DEF Enough
    <3>3. \A s : Cut(s)' = Cut(s) BY <2>1 DEF Cut, Firsts
    <3> QED BY <2>1, <3>1, <3>2, <3>3
        DEF SInv, FoundOK, FoundBefore, FoundAuction, FoundWhole, FoundOpen, FoundCut
  <2>4. LoopOK' BY <2>1 DEF SInv, LoopOK, Distinct
  <2>5. BatchOK'
    <3>1. Touched' = Touched /\ Pending' = Pending BY <2>1 DEF Touched, Pending, Processings
    <3> QED BY <2>1, <3>1 DEF SInv, BatchOK
  <2>6. RowsFollowPages' BY <2>1 DEF SInv, RowsFollowPages
  <2>7. KeptOK' BY <2>1 DEF SInv, KeptOK, Keeps
  <2> QED BY <2>2, <2>3, <2>4, <2>5, <2>6, <2>7 DEF SInv
<1>2. CASE Start \/ StartLostArt \/ Prepare BY <1>2, StartKeeps
<1>3. CASE PrepareFails \/ ListFails \/ ScrapeFails \/ CommitFails BY <1>3, FailsKeep
<1>4. CASE List
  <2>1. PICK p \in Shows :
            \/ ListChristies(p) \/ ListDrouot(p) \/ ListDorotheum(p)
            \/ CountLottissimo(p) \/ ListLottissimo(p) \/ ListAuction(p) \/ ListLostArt(p)
    BY <1>4 DEF List
  <2>2. CASE ListAuction(p) BY <2>2, AuctionKeeps
  <2>3. CASE \/ ListChristies(p) \/ ListDrouot(p) \/ ListDorotheum(p)
             \/ CountLottissimo(p) \/ ListLottissimo(p) \/ ListLostArt(p)
    BY <2>3, ListKeeps
  <2> QED BY <2>1, <2>2, <2>3
<1>5. CASE ReadCalendar BY <1>5, CalendarKeeps
<1>6. CASE TakeQueue BY <1>6, TakeKeeps
<1>7. CASE Scrape
  <2>1. PICK d \in Details :
            \/ ScrapeChristies(d) \/ ScrapeDorotheum(d) \/ ScrapeDrouot(d)
            \/ ScrapeLottissimo(d) \/ ScrapeSothebys(d) \/ ScrapeLostArt(d)
    BY <1>7 DEF Scrape
  <2> QED BY <2>1, ScrapeKeeps
<1>8. CASE PassOver BY <1>8, PassKeeps
<1>9. CASE CommitBatch \/ FinalCommit \/ Finish BY <1>9, CommitKeeps
<1>10. CASE Crash BY <1>10, CrashKeeps
<1> QED BY <1>1, <1>2, <1>3, <1>4, <1>5, <1>6, <1>7, <1>8, <1>9, <1>10 DEF SourceNext, Run

\* The inductive invariant holds throughout every run of every scraper.
THEOREM SourceInvariant == SourceSpec => []SInv
<1>1. SInv /\ [SourceNext]_sourceVars => SInv' BY SInvNext
<1>2. SourceInit => SInv BY InitOK
<1> QED BY <1>1, <1>2, PTL DEF SourceSpec

-----------------------------------------------------------------------------
(* The theorems.                                                           *)

\* Every variable of a scraper run keeps its type.
THEOREM SourceTypes == SourceSpec => []SourceTypeOK
<1>1. SInv => SourceTypeOK BY DEF SInv
<1> QED BY <1>1, SourceInvariant, PTL

\* For every site, listing, row and page limit: the lots handed to the scraping
\* loop are those of the pages that were read, each once, in listing order, without
\* the first skip, up to the row limit (get_urls of each source).
THEOREM SourceQueueIsWhatWasRead == SourceSpec => []QueueIsWhatWasRead
<1>1. SInv => QueueIsWhatWasRead
  <2> SUFFICES ASSUME SInv, phase = "listed" PROVE QueueIsWhatWasRead
    BY DEF QueueIsWhatWasRead
  <2>1. FoundAuction /\ FoundCut BY DEF SInv, FoundOK
  <2>2. CASE source = "sothebys"
    <3>1. Selected = found BY <2>2 DEF Selected
    <3>2. /\ skip = 0 => found = Unseen(StoredLots, ShownCut)
          /\ Unseen(<<>>, found) = found
      BY <2>1, <2>2 DEF FoundAuction
    <3> QED BY <2>2, <3>1, <3>2 DEF QueueIsWhatWasRead, StoredLots, ShownCut
  <2>3. CASE source # "sothebys"
    <3>1. Selected = Cut(found) BY <2>3 DEF Selected
    <3>2. Cut(found) = Cut(Unseen(<<>>, Shown)) BY <2>1, <2>3 DEF FoundCut
    <3> QED BY <2>3, <3>1, <3>2 DEF QueueIsWhatWasRead, Shown
  <2> QED BY <2>2, <2>3
<1> QED BY <1>1, SourceInvariant, PTL

\* A row saved in a run follows the page it was saved from, and outside a purge at
\* most one batch is uncommitted; a run that ended has committed or dropped it all.
THEOREM SourceRowsFollowRun == SourceSpec => []RowsFollowRun
<1>1. SInv => RowsFollowRun
  <2> SUFFICES ASSUME SInv PROVE RowsFollowRun OBVIOUS
  <2>1. SourceTypeOK /\ LoopOK /\ BatchOK /\ RowsFollowPages BY DEF SInv
  <2>2. ASSUME ~purge PROVE Cardinality({l \in Lots : tx[l] # rows[l]}) <= CommitEvery
    <3>1. Cardinality(Touched) <= Pending BY <2>1, <2>2 DEF BatchOK
    <3>2. Pending \in Nat /\ Pending <= CommitEvery BY <2>1, PendingType
    <3>3. CommitEvery \in Nat BY LimitsAssumption
    <3>4. Cardinality(Touched) \in Nat
      <4>1. Touched \in SUBSET Lots BY DEF Touched
      <4>2. IsFiniteSet(Touched) BY <4>1, LotsAssumption, FS_Subset
      <4> QED BY <4>2, FS_CardinalityType
    <3>5. Cardinality(Touched) <= CommitEvery BY <3>1, <3>2, <3>3, <3>4
    <3> QED BY <3>5 DEF Touched
  <2>3. AtMostABatch BY <2>1, <2>2 DEF AtMostABatch, LoopOK, BatchOK
  <2> QED BY <2>1, <2>3 DEF RowsFollowRun
<1> QED BY <1>1, SourceInvariant, PTL

\* No failed page, download, batch or run takes a committed row of an auction
\* platform or a committed image link away: only a purge that found lots to replace
\* them does, or the lot's page itself.
THEOREM SourceNothingLostBlindly == SourceSpec => NothingLostBlindly
<1> DEFINE Step == \A l \in Lots :
         source \notin {"lostart", "christies"} /\ rows[l] # None =>
             \/ purge /\ queue # <<>>
             \/ /\ rows'[l] # None
                /\ \A i \in rows[l].images \ rows'[l].images :
                       savedFrom[l] # None /\ i \notin savedFrom[l].offered
<1>1. SInv /\ SourceNext => Step
  <2> SUFFICES ASSUME SInv, SourceNext, NEW l \in Lots, source \notin {"lostart", "christies"},
                      rows[l] # None
               PROVE  \/ purge /\ queue # <<>>
                      \/ /\ rows'[l] # None
                         /\ \A i \in rows[l].images \ rows'[l].images :
                                savedFrom[l] # None /\ i \notin savedFrom[l].offered
    OBVIOUS
  <2>1. CASE rows' = rows BY <2>1
  <2>2. CASE rows' # rows
    <3>1. (CommitBatch \/ FinalCommit \/ Finish) /\ rows' = tx
      <4>1. ~StartLostArt BY DEF StartLostArt
      <4>2. ~List
        BY <2>2 DEF List, Read, ListChristies, ListDrouot, ListDorotheum, CountLottissimo,
                    ListLottissimo, ListAuction, ListLostArt
      <4>3. ~Scrape
        BY <2>2 DEF Scrape, Save, Processed, ScrapeChristies, ScrapeDorotheum, ScrapeDrouot,
                    ScrapeLottissimo, ScrapeSothebys, ScrapeLostArt
      <4>4. ~(PrepareFails \/ ListFails \/ ScrapeFails \/ CommitFails)
        BY <2>2 DEF PrepareFails, ListFails, ScrapeFails, CommitFails, Fail
      <4>5. ~(Start \/ Prepare \/ ReadCalendar \/ TakeQueue \/ PassOver \/ Crash)
        BY <2>2 DEF Start, Prepare, ReadCalendar, TakeQueue, PassOver, Processed, Crash
      <4>6. CommitBatch \/ FinalCommit \/ Finish
        BY <4>1, <4>2, <4>3, <4>4, <4>5 DEF SourceNext, Run
      <4> QED BY <2>2, <4>6 DEF CommitBatch, FinalCommit, Finish
    <3>2. phase \in {"commit", "final", "ending"}
      BY <2>2, <3>1 DEF CommitBatch, FinalCommit, Finish
    <3>3. purge => queue # <<>> BY <3>2 DEF SInv, BatchOK
    <3>4. ~purge => Keeps(l) BY DEF SInv, KeptOK
    <3> QED BY <3>1, <3>3, <3>4 DEF Keeps
  <2> QED BY <2>1, <2>2
<1>2. SInv /\ [SourceNext]_sourceVars => [Step]_sourceVars BY <1>1
<1>3. SourceSpec => [][Step]_sourceVars BY <1>2, SourceInvariant, PTL DEF SourceSpec
<1> QED BY <1>3 DEF NothingLostBlindly
=============================================================================
