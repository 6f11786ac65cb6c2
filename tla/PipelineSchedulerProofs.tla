---------------------- MODULE PipelineSchedulerProofs ----------------------
(***************************************************************************)
(* For any number of processes and stages, PipelineScheduler's stages run  *)
(* alone.  The argument is about the tree of processes: as long as any     *)
(* process is left, one of them is a child of the scheduler, and stays in  *)
(* the process table until the scheduler itself waits for it, so no scan   *)
(* that finds nothing has missed anything.                                 *)
(*                                                                         *)
(* The second part is about the stage that scores metadata, for any lots,  *)
(* rows, threads and answers (MetadataScoring): its operators are proved   *)
(* to return what they should of any sequence, and its threads to share    *)
(* indexes that make no name too common.                                   *)
(***************************************************************************)
EXTENDS PipelineScheduler, MetadataScoring, FiniteSetTheorems, SequenceTheorems,
        WellFoundedInduction, TLAPS

LEMMA EntryFacts ==
  \A e \in Entry :
    /\ [e EXCEPT !.parent = Scheduler].parent = Scheduler
    /\ [e EXCEPT !.parent = Scheduler].state = e.state
    /\ [e EXCEPT !.state = "zombie"].parent = e.parent
    /\ [e EXCEPT !.state = "zombie"].state = "zombie"
BY DEF Entry

\* Only a child of the scheduler can be at the root of what is left.
LEMMA RootExists == ASSUME TypeOK, Tree, Present # {} PROVE Adopted # {}
<1>1. PICK p \in Present : proc[p].parent \notin Present BY DEF Tree
<1>2. p \in Adopted BY <1>1 DEF Tree, Present, Active
<1> QED BY <1>2

\* What a step without births and exits does to the table.
Kept ==
  \A p \in Proc :
    /\ Active(p) => Active(p)'
    /\ p \in Present' => p \in Present /\ proc'[p].parent = proc[p].parent

LEMMA KeptTree ==
  ASSUME Tree, Kept
  PROVE  Tree' /\ Present' \subseteq Present /\ Adopted' \subseteq Adopted
<1>1. Present' \subseteq Present BY DEF Kept, Present
<1>2. Adopted' \subseteq Adopted BY <1>1 DEF Kept, Adopted, Present
<1>3. ASSUME NEW p \in Present', p \notin Adopted'
      PROVE  (proc[p].parent \in Proc /\ Active(proc[p].parent))'
  <2>1. p \in Present /\ p \notin Adopted /\ proc'[p].parent = proc[p].parent
    BY <1>3 DEF Kept, Adopted, Present
  <2> QED BY <2>1 DEF Tree, Kept
<1>4. ASSUME NEW S \in SUBSET Present', S # {} PROVE \E p \in S : proc'[p].parent \notin S
  <2>1. PICK p \in S : proc[p].parent \notin S BY <1>1, <1>4 DEF Tree
  <2>2. p \in Proc /\ p \in Present' BY DEF Present
  <2> QED BY <2>1, <2>2 DEF Kept
<1>5. (\A p \in Present : p \notin Adopted => proc[p].parent \in Proc /\ Active(proc[p].parent))'
  BY <1>3
<1>6. (\A S \in SUBSET Present : S # {} => \E p \in S : proc[p].parent \notin S)'
  BY <1>4
<1> QED BY <1>1, <1>2, <1>5, <1>6 DEF Tree

\* A new process, the child of one that lives or of the scheduler, has no child.
LEMMA NewProcess ==
  ASSUME TypeOK, Tree, NEW q \in Proc \ Present, NEW e \in Entry,
         e.state = "live",
         e.parent = Scheduler \/ (e.parent \in Proc /\ Active(e.parent)),
         proc' = [proc EXCEPT ![q] = e]
  PROVE  Tree' /\ Present' = Present \cup {q} /\ Adopted \subseteq Adopted'
<1> USE SchedulerAssumption
<1>1. proc'[q] = e /\ \A p \in Proc : p # q => proc'[p] = proc[p] BY DEF TypeOK
<1>2. Present' = Present \cup {q} BY <1>1 DEF Present
<1>3. Adopted \subseteq Adopted' BY <1>1, <1>2 DEF Adopted, Present
<1>4. \A p \in Proc : Active(p) => Active(p)' BY <1>1 DEF Active, Present
<1>5. (\A p \in Present : p \notin Adopted => proc[p].parent \in Proc /\ Active(proc[p].parent))'
  <2> SUFFICES ASSUME NEW p \in Present', p \notin Adopted'
               PROVE  (proc[p].parent \in Proc /\ Active(proc[p].parent))'
    OBVIOUS
  <2>1. CASE p = q BY <2>1, <1>1, <1>4 DEF Adopted
  <2>2. CASE p # q
    <3>1. p \in Present /\ p \notin Adopted /\ proc'[p].parent = proc[p].parent
      BY <2>2, <1>1, <1>2, <1>3 DEF Present
    <3> QED BY <3>1, <1>4 DEF Tree
  <2> QED BY <2>1, <2>2
<1>6. (\A S \in SUBSET Present : S # {} => \E p \in S : proc[p].parent \notin S)'
  <2> SUFFICES ASSUME NEW S \in SUBSET Present', S # {}
               PROVE  \E p \in S : proc'[p].parent \notin S
    OBVIOUS
  <2>1. CASE S = {q}
    <3>1. e.parent # q BY DEF Active, Present
    <3> QED BY <2>1, <3>1, <1>1
  <2>2. CASE S # {q}
    <3>1. S \ {q} \in SUBSET Present /\ S \ {q} # {} BY <2>2, <1>2
    <3>2. PICK p \in S \ {q} : proc[p].parent \notin S \ {q} BY <3>1 DEF Tree
    <3>3. p \in Present /\ p # q BY <3>1, <3>2
    <3>4. proc[p].parent # q BY <3>3 DEF Tree, Adopted, Active, Present
    <3> QED BY <3>2, <3>3, <3>4, <1>1 DEF Present
  <2> QED BY <2>1, <2>2
<1> QED BY <1>2, <1>3, <1>5, <1>6 DEF Tree

\* The children of a process that ends become the scheduler's.
LEMMA ExitTree ==
  ASSUME TypeOK, Tree, NEW x \in Proc, Exit(x)
  PROVE  Tree' /\ Present' = Present /\ Adopted \subseteq Adopted'
<1> USE SchedulerAssumption
<1>1. x \in Present BY DEF Exit, Active, Present
<1>2. /\ proc'[x] = [proc[x] EXCEPT !.state = "zombie"]
      /\ \A p \in Proc : p # x /\ proc[p].parent # x => proc'[p] = proc[p]
      /\ \A p \in Proc : p # x /\ proc[p].parent = x
            => proc'[p] = [proc[p] EXCEPT !.parent = Scheduler]
  BY DEF Exit
<1>3. ASSUME NEW p \in Proc
      PROVE  /\ \/ proc'[p].parent = proc[p].parent
                \/ proc[p].parent = x /\ proc'[p].parent = Scheduler
             /\ p # x => proc'[p].state = proc[p].state
  <2>1. proc[p] \in Entry BY DEF TypeOK
  <2>2. CASE p = x BY <2>1, <2>2, <1>2, EntryFacts
  <2>3. CASE p # x /\ proc[p].parent # x BY <2>3, <1>2
  <2>4. CASE p # x /\ proc[p].parent = x BY <2>1, <2>4, <1>2, EntryFacts
  <2> QED BY <2>2, <2>3, <2>4
<1>4. \A p \in Proc : p # x => proc'[p].state = proc[p].state BY <1>3
<1>5. Present' = Present BY <1>1, <1>2, <1>4 DEF Present, TypeOK, Entry
<1>6. Adopted \subseteq Adopted' BY <1>3, <1>5 DEF Adopted, Present
<1>7. proc[x].parent # x
  <2>1. {x} \in SUBSET Present BY <1>1
  <2> QED BY <2>1 DEF Tree
<1>8. (\A p \in Present : p \notin Adopted => proc[p].parent \in Proc /\ Active(proc[p].parent))'
  <2> SUFFICES ASSUME NEW p \in Present', p \notin Adopted'
               PROVE  (proc[p].parent \in Proc /\ Active(proc[p].parent))'
    OBVIOUS
  <2>1. p \in Present /\ p \notin Adopted /\ p \in Proc BY <1>5, <1>6 DEF Present
  <2>2. proc'[p].parent # Scheduler BY <2>1, <1>5 DEF Adopted, Present
  <2>3. proc'[p].parent = proc[p].parent BY <2>1, <2>2, <1>3
  <2>4. proc[p].parent \in Proc /\ Active(proc[p].parent) BY <2>1 DEF Tree
  <2>5. proc[p].parent # x
    <3>1. CASE p = x BY <3>1, <1>7
    <3>2. CASE p # x BY <3>2, <2>1, <2>2, <1>2 DEF TypeOK, Entry
    <3> QED BY <3>1, <3>2
  <2> QED BY <2>3, <2>4, <2>5, <1>4 DEF Active
<1>9. (\A S \in SUBSET Present : S # {} => \E p \in S : proc[p].parent \notin S)'
  <2> SUFFICES ASSUME NEW S \in SUBSET Present', S # {}
               PROVE  \E p \in S : proc'[p].parent \notin S
    OBVIOUS
  <2>1. PICK p \in S : proc[p].parent \notin S BY <1>5 DEF Tree
  <2>2. p \in Proc /\ Scheduler \notin S BY DEF Present
  <2> QED BY <2>1, <2>2, <1>3
<1> QED BY <1>5, <1>6, <1>8, <1>9 DEF Tree

\* The entries the actions make.
LEMMA Tables ==
  ASSUME TypeOK, NEW P
  PROVE  /\ Doomed(P) \in [Proc -> Entry]
         /\ \A table \in [Proc -> Entry] : Reaped(P, table) \in [Proc -> Entry]
<1>1. NoProcess \in Entry BY DEF NoProcess, Entry
<1>2. \A e \in Entry : [e EXCEPT !.state = "doomed"] \in Entry BY DEF Entry
<1>3. Doomed(P) \in [Proc -> Entry] BY <1>2 DEF Doomed, TypeOK
<1>4. \A table \in [Proc -> Entry] : Reaped(P, table) \in [Proc -> Entry]
  BY <1>1 DEF Reaped
<1> QED BY <1>3, <1>4

LEMMA TableType == ASSUME TypeOK, Next PROVE proc' \in [Proc -> Entry]
<1> USE DEF TypeOK
<1>1. NoProcess \in Entry BY DEF NoProcess, Entry
<1>2. ASSUME NEW p \in Proc, Fork(p) \/ Detach(p) \/ Exit(p) \/ Wait(p)
      PROVE  proc' \in [Proc -> Entry]
  <2>1. \A e \in Entry : /\ [e EXCEPT !.state = "zombie"] \in Entry
                         /\ [e EXCEPT !.parent = Scheduler] \in Entry
                         /\ [e EXCEPT !.parent = p] \in Entry
                         /\ [e EXCEPT !.group = p] \in Entry
    BY DEF Entry
  <2>2. CASE Fork(p)
    <3>1. PICK q \in FreeIds : proc' = [proc EXCEPT ![q] = [proc[p] EXCEPT !.parent = p]]
      BY <2>2 DEF Fork
    <3>2. [proc[p] EXCEPT !.parent = p] \in Entry BY <2>1
    <3> QED BY <3>1, <3>2
  <2>3. CASE Detach(p)
    <3>1. proc' = [proc EXCEPT ![p] = [proc[p] EXCEPT !.group = p]] BY <2>3 DEF Detach
    <3> QED BY <2>1, <3>1
  <2>4. CASE Exit(p) BY <2>1, <2>4 DEF Exit
  <2>5. CASE Wait(p) BY <1>1, <2>5 DEF Wait
  <2> QED BY <1>2, <2>2, <2>3, <2>4, <2>5
<1>3. CASE Launch
  <2>1. leader' \in Proc BY <1>3 DEF Launch, FreeIds
  <2>2. [state |-> "live", parent |-> Scheduler, group |-> leader'] \in Entry
    BY <2>1 DEF Entry
  <2> QED BY <1>3, <2>1, <2>2 DEF Launch
<1>4. CASE Reap BY <1>1, <1>4 DEF Reap
<1>5. CASE KillLeader BY <1>5, Tables DEF KillLeader
<1>6. CASE AwaitGroup \/ GroupDeadline
  <2>1. \/ proc' = Reaped(Waitable, proc)
        \/ proc' = Reaped(Waitable, Doomed(Group(leader)))
    BY <1>6 DEF AwaitGroup, GroupDeadline
  <2>2. /\ Doomed(Group(leader)) \in [Proc -> Entry]
        /\ \A table \in [Proc -> Entry] : Reaped(Waitable, table) \in [Proc -> Entry]
    BY Tables
  <2> QED BY <2>1, <2>2
<1>7. CASE AwaitChildren \/ ChildrenDeadline
  BY <1>7, Tables DEF AwaitChildren, ChildrenDeadline, Struck
<1>8. CASE Restart BY <1>1, <1>8 DEF Restart
<1>9. CASE UNCHANGED proc BY <1>9
<1> QED
  BY <1>2, <1>3, <1>4, <1>5, <1>6, <1>7, <1>8, <1>9
     DEF Next, Work, Stopped, StartCycle, EndEarly, Prepare, LaunchFails, Terminate, List, Read,
         GroupGone, TerminateGroup, ChildrenGone, TerminateChildren, Crash, RecordStep,
         FinishCycle, RequestStop

\* The two halves of the scheduler's type.
Flags ==
  /\ stop \in BOOLEAN /\ failed \in BOOLEAN /\ blockingSucceeded \in BOOLEAN
  /\ skip \in BOOLEAN /\ raising \in BOOLEAN /\ fresh \in BOOLEAN /\ failing \in BOOLEAN

Control ==
  /\ pc \in {"idle", "step", "launch", "poll", "term", "kill", "group", "groupStats",
             "children", "childStats", "record", "finish", "done", "crashed"}
  /\ step \in 1..Last /\ leader \in Proc \cup {Scheduler} /\ code \in {0, 1}
  /\ baseline \subseteq Proc /\ seen \subseteq Proc /\ found \subseteq Proc
  /\ sig \in {"no", "TERM", "KILL"}
  /\ health \in {"running", "healthy", "unhealthy", "stopping"}
  /\ cycleHealth \in {"running", "unhealthy"}

LEMMA FlagsStep == ASSUME Flags, Next PROVE Flags'
<1> USE DEF Flags, cycle, scan, past
<1>1. CASE \E p \in Proc : Fork(p) \/ Detach(p) \/ Exit(p) \/ Wait(p)
  BY <1>1 DEF Fork, Detach, Exit, Wait
<1>2. CASE RequestStop BY <1>2 DEF RequestStop
<1>3. CASE Restart BY <1>3 DEF Restart
<1>4. CASE Stopped BY <1>4 DEF Stopped
<1>5. CASE StartCycle BY <1>5 DEF StartCycle
<1>6. CASE EndEarly BY <1>6 DEF EndEarly
<1>7. CASE Prepare BY <1>7 DEF Prepare
<1>8. CASE LaunchFails BY <1>8 DEF LaunchFails
<1>9. CASE Terminate BY <1>9 DEF Terminate
<1>10. CASE Launch BY <1>10 DEF Launch
<1>11. CASE Reap BY <1>11 DEF Reap
<1>12. CASE KillLeader BY <1>12 DEF KillLeader
<1>13. CASE List \/ \E p \in Proc : Read(p) BY <1>13 DEF List, Read
<1>14. CASE GroupGone BY <1>14 DEF GroupGone, Scanned
<1>15. CASE TerminateGroup BY <1>15 DEF TerminateGroup, Scanned
<1>16. CASE AwaitGroup BY <1>16 DEF AwaitGroup, Scanned
<1>17. CASE GroupDeadline BY <1>17 DEF GroupDeadline, Scanned
<1>18. CASE ChildrenGone BY <1>18 DEF ChildrenGone, Scanned
<1>19. CASE TerminateChildren BY <1>19 DEF TerminateChildren, Scanned
<1>20. CASE AwaitChildren BY <1>20 DEF AwaitChildren, Scanned
<1>21. CASE ChildrenDeadline BY <1>21 DEF ChildrenDeadline, Scanned
<1>22. CASE Crash BY <1>22 DEF Crash
<1>23. CASE RecordStep BY <1>23 DEF RecordStep
<1>24. CASE FinishCycle BY <1>24 DEF FinishCycle
<1> QED
  BY <1>1, <1>2, <1>3, <1>4, <1>5, <1>6, <1>7, <1>8, <1>9, <1>10, <1>11, <1>12, <1>13,
     <1>14, <1>15, <1>16, <1>17, <1>18, <1>19, <1>20, <1>21, <1>22, <1>23, <1>24
     DEF Next, Work

LEMMA ControlStep == ASSUME Control, Next PROVE Control'
<1> USE SchedulerAssumption DEF Control, cycle, scan, past
<1>1. CASE \E p \in Proc : Fork(p) \/ Detach(p) \/ Exit(p) \/ Wait(p)
  BY <1>1 DEF Fork, Detach, Exit, Wait
<1>2. CASE RequestStop BY <1>2 DEF RequestStop
<1>3. CASE Restart BY <1>3 DEF Restart
<1>4. CASE Stopped BY <1>4 DEF Stopped
<1>5. CASE StartCycle BY <1>5 DEF StartCycle
<1>6. CASE EndEarly BY <1>6 DEF EndEarly
<1>7. CASE Prepare BY <1>7 DEF Prepare, Adopted, Present
<1>8. CASE LaunchFails BY <1>8 DEF LaunchFails
<1>9. CASE Terminate BY <1>9 DEF Terminate
<1>10. CASE Launch BY <1>10 DEF Launch, FreeIds
<1>11. CASE Reap BY <1>11 DEF Reap, Proceed
<1>12. CASE KillLeader BY <1>12 DEF KillLeader
<1>13. CASE List \/ \E p \in Proc : Read(p) BY <1>13 DEF List, Read, Present
<1>14. CASE GroupGone BY <1>14 DEF GroupGone, Scanned, Proceed
<1>15. CASE TerminateGroup BY <1>15 DEF TerminateGroup, Scanned
<1>16. CASE AwaitGroup BY <1>16 DEF AwaitGroup, Scanned
<1>17. CASE GroupDeadline BY <1>17 DEF GroupDeadline, Scanned, Proceed
<1>18. CASE ChildrenGone BY <1>18 DEF ChildrenGone, Scanned, Proceed
<1>19. CASE TerminateChildren BY <1>19 DEF TerminateChildren, Scanned
<1>20. CASE AwaitChildren BY <1>20 DEF AwaitChildren, Scanned
<1>21. CASE ChildrenDeadline BY <1>21 DEF ChildrenDeadline, Scanned, Proceed
<1>22. CASE Crash BY <1>22 DEF Crash
<1>23. CASE RecordStep BY <1>23 DEF RecordStep
<1>24. CASE FinishCycle BY <1>24 DEF FinishCycle
<1> QED
  BY <1>1, <1>2, <1>3, <1>4, <1>5, <1>6, <1>7, <1>8, <1>9, <1>10, <1>11, <1>12, <1>13,
     <1>14, <1>15, <1>16, <1>17, <1>18, <1>19, <1>20, <1>21, <1>22, <1>23, <1>24
     DEF Next, Work

LEMMA TypeStep == ASSUME TypeOK, Next PROVE TypeOK'
<1>1. Flags /\ Control BY DEF TypeOK, Flags, Control
<1>2. Flags' /\ Control' BY <1>1, FlagsStep, ControlStep
<1> QED BY <1>2, TableType DEF TypeOK, Flags, Control

\* What the stage's processes do: the tree stays a tree, and no child of the scheduler
\* leaves the table.
LEMMA StageStep ==
  ASSUME TypeOK, Tree, NEW p \in Proc, Fork(p) \/ Detach(p) \/ Exit(p) \/ Wait(p)
  PROVE  Tree' /\ Adopted \subseteq Adopted' /\ (Present = {} => Present' = {})
<1>1. CASE Fork(p)
  <2>1. PICK q \in FreeIds : proc' = [proc EXCEPT ![q] = [proc[p] EXCEPT !.parent = p]]
    BY <1>1 DEF Fork
  <2>2. q \in Proc \ Present BY DEF FreeIds
  <2>3. /\ [proc[p] EXCEPT !.parent = p] \in Entry
        /\ [proc[p] EXCEPT !.parent = p].state = "live"
        /\ [proc[p] EXCEPT !.parent = p].parent = p
    BY <1>1 DEF Fork, TypeOK, Entry
  <2>4. Active(p) /\ p \in Present BY <1>1 DEF Fork, Active, Present
  <2>5. Tree' /\ Adopted \subseteq Adopted' BY <2>1, <2>2, <2>3, <2>4, NewProcess
  <2> QED BY <2>4, <2>5
<1>2. CASE Detach(p)
  <2>1. \A q \in Proc : proc'[q].state = proc[q].state /\ proc'[q].parent = proc[q].parent
    <3>1. proc' = [proc EXCEPT ![p] = [proc[p] EXCEPT !.group = p]] BY <1>2 DEF Detach
    <3>2. /\ [proc[p] EXCEPT !.group = p].state = proc[p].state
          /\ [proc[p] EXCEPT !.group = p].parent = proc[p].parent
      BY DEF TypeOK, Entry
    <3> QED BY <3>1, <3>2 DEF TypeOK
  <2>2. Present' = Present BY <2>1 DEF Present
  <2>3. Kept BY <2>1, <2>2 DEF Kept, Active
  <2>4. Adopted' = Adopted BY <2>1, <2>2 DEF Adopted, Present
  <2> QED BY <2>2, <2>3, <2>4, KeptTree
<1>3. CASE Exit(p) BY <1>3, ExitTree
<1>4. CASE Wait(p)
  <2>1. proc'[p] = NoProcess /\ \A q \in Proc : q # p => proc'[q] = proc[q]
    BY <1>4 DEF Wait, TypeOK
  <2>2. proc[p].state = "zombie" /\ p \notin Adopted BY <1>4 DEF Wait
  <2>3. p \notin Present' BY <2>1 DEF Present, NoProcess
  <2>4. Kept BY <2>1, <2>2, <2>3 DEF Kept, Active, Present
  <2>5. Adopted \subseteq Adopted' BY <2>1, <2>2 DEF Adopted, Present
  <2> QED BY <2>4, <2>5, KeptTree
<1> QED BY <1>1, <1>2, <1>3, <1>4

\* What the scheduler does to the table: it kills, and waits for the dead.
Culled ==
  \A p \in Proc :
    \/ proc'[p] = proc[p]
    \/ proc[p].state = "zombie" /\ proc'[p] = NoProcess
    \/ Active(p) /\ proc'[p] = [proc[p] EXCEPT !.state = "doomed"]

LEMMA CulledKept == ASSUME TypeOK, Culled PROVE Kept
<1> SUFFICES ASSUME NEW p \in Proc
             PROVE  /\ Active(p) => Active(p)'
                    /\ p \in Present' => p \in Present /\ proc'[p].parent = proc[p].parent
  BY DEF Kept
<1>1. proc[p] \in Entry BY DEF TypeOK
<1>2. CASE proc'[p] = proc[p] BY <1>2 DEF Active, Present
<1>3. CASE proc[p].state = "zombie" /\ proc'[p] = NoProcess
  BY <1>3 DEF Active, Present, NoProcess
<1>4. CASE Active(p) /\ proc'[p] = [proc[p] EXCEPT !.state = "doomed"]
  <2>1. /\ [proc[p] EXCEPT !.state = "doomed"].state = "doomed"
        /\ [proc[p] EXCEPT !.state = "doomed"].parent = proc[p].parent
    BY <1>1 DEF Entry
  <2> QED BY <1>4, <2>1 DEF Active, Present
<1> QED BY <1>2, <1>3, <1>4 DEF Culled

LEMMA CulledTables ==
  ASSUME TypeOK, NEW P, NEW Q,
         \/ proc' = Doomed(P)
         \/ proc' = Reaped(P, proc)
         \/ proc' = Reaped(P, Doomed(Q))
  PROVE  Culled
<1> SUFFICES ASSUME NEW p \in Proc
             PROVE  \/ proc'[p] = proc[p]
                    \/ proc[p].state = "zombie" /\ proc'[p] = NoProcess
                    \/ Active(p) /\ proc'[p] = [proc[p] EXCEPT !.state = "doomed"]
  BY DEF Culled
<1>1. CASE proc' = Doomed(P) BY <1>1 DEF Doomed
<1>2. CASE proc' = Reaped(P, proc) BY <1>2 DEF Reaped
<1>3. CASE proc' = Reaped(P, Doomed(Q))
  <2>1. CASE p \in Q /\ Active(p)
    <3>1. Doomed(Q)[p] = [proc[p] EXCEPT !.state = "doomed"] BY <2>1 DEF Doomed
    <3>2. Doomed(Q)[p].state = "doomed" BY <3>1 DEF TypeOK, Entry
    <3> QED BY <1>3, <2>1, <3>1, <3>2 DEF Reaped
  <2>2. CASE ~(p \in Q /\ Active(p))
    <3>1. Doomed(Q)[p] = proc[p] BY <2>2 DEF Doomed
    <3> QED BY <1>3, <3>1 DEF Reaped
  <2> QED BY <2>1, <2>2
<1> QED BY <1>1, <1>2, <1>3

LEMMA TreeStep == ASSUME TypeOK, Tree, Alone, Next PROVE Tree'
<1>1. CASE \E p \in Proc : Fork(p) \/ Detach(p) \/ Exit(p) \/ Wait(p)
  BY <1>1, StageStep
<1>2. CASE Launch
  <2>1. leader' \in Proc \ Present BY <1>2 DEF Launch, FreeIds
  <2>2. [state |-> "live", parent |-> Scheduler, group |-> leader'] \in Entry
    BY <2>1 DEF Entry
  <2> QED BY <1>2, <2>1, <2>2, NewProcess DEF Launch
<1>3. CASE Reap
  <2>1. Culled BY <1>3 DEF Reap, Culled, TypeOK
  <2> QED BY <2>1, CulledKept, KeptTree
<1>4. CASE KillLeader \/ AwaitGroup \/ GroupDeadline \/ AwaitChildren \/ ChildrenDeadline
  <2>1. Culled
    BY <1>4, CulledTables
       DEF KillLeader, AwaitGroup, GroupDeadline, AwaitChildren, ChildrenDeadline, Struck
  <2> QED BY <2>1, CulledKept, KeptTree
<1>5. CASE Restart
  <2>1. \A p \in Proc : proc'[p].state = "none" BY <1>5 DEF Restart, NoProcess
  <2>2. Present' = {} BY <2>1 DEF Present
  <2> QED BY <2>2 DEF Tree
<1>6. CASE UNCHANGED proc
  <2>1. Kept BY <1>6 DEF Kept, Active, Present
  <2> QED BY <2>1, KeptTree
<1> QED
  BY <1>1, <1>2, <1>3, <1>4, <1>5, <1>6
     DEF Next, Work, Stopped, StartCycle, EndEarly, Prepare, LaunchFails, Terminate, List, Read,
         GroupGone, TerminateGroup, ChildrenGone, TerminateChildren, Crash, RecordStep,
         FinishCycle, RequestStop

\* A table that does not change.
Quiet ==
  \/ Stopped \/ StartCycle \/ EndEarly \/ Prepare \/ LaunchFails \/ Terminate \/ List
  \/ \E p \in Proc : Read(p)
  \/ GroupGone \/ TerminateGroup \/ ChildrenGone \/ TerminateChildren \/ Crash
  \/ RecordStep \/ FinishCycle \/ RequestStop

LEMMA QuietTable == ASSUME Quiet PROVE Present' = Present /\ Adopted' = Adopted
<1>1. proc' = proc
  BY DEF Quiet, Stopped, StartCycle, EndEarly, Prepare, LaunchFails, Terminate, List, Read,
         GroupGone, TerminateGroup, ChildrenGone, TerminateChildren, Crash, RecordStep,
         FinishCycle, RequestStop
<1> QED BY <1>1 DEF Present, Adopted

\* The scan of ChildrenGone was complete: a process that is left would have given the
\* scheduler a child, and that child would have been listed and still be there.
LEMMA NothingMissed ==
  ASSUME ScanFindsRoot, ChildrenGone PROVE Present = {}
BY DEF ScanFindsRoot, ChildrenGone, Scanned

LEMMA ScanStep ==
  ASSUME TypeOK, Tree, baseline = {}, ScanFindsRoot, Next PROVE ScanFindsRoot'
<1> SUFFICES ASSUME pc' = "childStats", Present' # {}
             PROVE  (found \cup (seen \cap Adopted))' # {}
  BY DEF ScanFindsRoot
<1>1. CASE \E p \in Proc : Fork(p) \/ Detach(p) \/ Exit(p) \/ Wait(p)
  <2>1. PICK p \in Proc : Fork(p) \/ Detach(p) \/ Exit(p) \/ Wait(p) BY <1>1
  <2>2. Adopted \subseteq Adopted' /\ Present # {} BY <2>1, StageStep
  <2>3. pc' = pc /\ seen' = seen /\ found' = found BY <2>1 DEF Fork, Detach, Exit, Wait, scan
  <2> QED BY <2>2, <2>3 DEF ScanFindsRoot
<1>2. CASE List
  <2>1. seen' = Present /\ Present' = Present /\ Adopted' = Adopted
    BY <1>2, QuietTable DEF List, Quiet
  <2>2. Adopted # {} BY <2>1, RootExists
  <2> QED BY <2>1, <2>2 DEF Adopted
<1>3. CASE RequestStop
  <2>1. /\ Present' = Present /\ Adopted' = Adopted
        /\ seen' = seen /\ found' = found /\ pc' = pc
    BY <1>3, QuietTable DEF RequestStop, Quiet, scan
  <2> QED BY <2>1 DEF ScanFindsRoot
<1>4. CASE Restart BY <1>4 DEF Restart
<1>5. CASE \E p \in Proc : Read(p)
  <2>1. PICK p \in Proc : Read(p) BY <1>5
  <2>2. Present' = Present /\ Adopted' = Adopted BY <1>5, QuietTable DEF Quiet
  <2>3. /\ pc = "childStats" /\ seen' = seen \ {p}
        /\ found' = found \cup ({p} \cap Adopted)
    BY <2>1 DEF Read, Sought
  <2> QED BY <2>2, <2>3 DEF ScanFindsRoot
<1>6. CASE Work /\ ~List /\ ~\E p \in Proc : Read(p)
  BY <1>6
     DEF Work, Stopped, StartCycle, EndEarly, Prepare, Launch, LaunchFails, Reap, Proceed,
         Terminate, KillLeader, GroupGone, TerminateGroup, AwaitGroup, GroupDeadline,
         ChildrenGone, TerminateChildren, AwaitChildren, ChildrenDeadline, Crash,
         RecordStep, FinishCycle
<1> QED BY <1>1, <1>2, <1>3, <1>4, <1>5, <1>6 DEF Next

LEMMA AloneStep ==
  ASSUME TypeOK, Tree, baseline = {}, ScanFindsRoot, Ended, Alone, Next
  PROVE  Ended' /\ Alone'
<1> DEFINE Quarters == {"idle", "step", "launch", "finish", "done"}
<1>1. CASE \E p \in Proc : Fork(p) \/ Detach(p) \/ Exit(p) \/ Wait(p)
  <2>1. PICK p \in Proc : Fork(p) \/ Detach(p) \/ Exit(p) \/ Wait(p) BY <1>1
  <2>2. Present = {} => Present' = {} BY <2>1, StageStep
  <2>3. pc' = pc /\ raising' = raising BY <2>1 DEF Fork, Detach, Exit, Wait, scan
  <2> QED BY <2>2, <2>3 DEF Ended, Alone
<1>2. CASE RequestStop
  <2>1. Present' = Present /\ pc' = pc /\ raising' = raising
    BY <1>2, QuietTable DEF RequestStop, Quiet, scan
  <2> QED BY <2>1 DEF Ended, Alone
<1>3. CASE Restart
  <2>1. \A p \in Proc : proc'[p].state = "none" BY <1>3 DEF Restart, NoProcess
  <2>2. Present' = {} BY <2>1 DEF Present
  <2> QED BY <2>2 DEF Ended, Alone
<1>4. CASE Stopped \/ StartCycle \/ EndEarly \/ Prepare \/ LaunchFails \/ FinishCycle
  <2>1. Present' = Present BY <1>4, QuietTable DEF Quiet
  <2>2. pc \in Quarters
    BY <1>4 DEF Stopped, StartCycle, EndEarly, Prepare, LaunchFails, FinishCycle
  <2> QED BY <2>1, <2>2 DEF Ended, Alone
<1>5. CASE RecordStep
  <2>1. Present' = Present BY <1>5, QuietTable DEF Quiet
  <2>2. pc = "record" /\ ~raising BY <1>5 DEF RecordStep
  <2> QED BY <2>1, <2>2 DEF Ended, Alone
<1>6. CASE ChildrenGone
  <2>1. Present' = Present BY <1>6, QuietTable DEF Quiet
  <2> QED BY <1>6, <2>1, NothingMissed DEF Ended, Alone
<1>7. CASE ChildrenDeadline
  <2>1. \/ pc' = "children"
        \/ pc' = "record" /\ raising'
    BY <1>7 DEF ChildrenDeadline, Proceed
  <2> QED BY <2>1 DEF Ended, Alone
<1>8. CASE \/ Launch \/ Reap \/ Terminate \/ KillLeader \/ List \/ GroupGone
           \/ \E p \in Proc : Read(p)
           \/ TerminateGroup \/ AwaitGroup \/ GroupDeadline \/ TerminateChildren
           \/ AwaitChildren \/ Crash
  <2>1. pc' \in {"poll", "term", "kill", "group", "groupStats", "children", "childStats",
                 "crashed"}
    BY <1>8
       DEF Launch, Reap, Proceed, Terminate, KillLeader, List, Read, GroupGone, TerminateGroup,
           AwaitGroup, GroupDeadline, TerminateChildren, AwaitChildren, Crash
  <2> QED BY <2>1 DEF Ended, Alone
<1> QED BY <1>1, <1>2, <1>3, <1>4, <1>5, <1>6, <1>7, <1>8 DEF Next, Work

LEMMA BaselineStep == ASSUME TypeOK, baseline = {}, Alone, Next PROVE baseline' = {}
<1>1. CASE Prepare
  <2>1. Present = {} /\ baseline' = Adopted BY <1>1 DEF Prepare, Alone
  <2> QED BY <2>1 DEF Adopted
<1>2. CASE Next /\ ~Prepare
  BY <1>2
     DEF Next, Work, Fork, Detach, Exit, Wait, Restart, RequestStop, Stopped, StartCycle,
         EndEarly, Launch, LaunchFails, Reap, Proceed, Terminate, KillLeader, List, Read,
         GroupGone, TerminateGroup, AwaitGroup, GroupDeadline, ChildrenGone,
         TerminateChildren, AwaitChildren, ChildrenDeadline, Crash, RecordStep,
         FinishCycle, cycle
<1> QED BY <1>1, <1>2

\* No action of the scheduler makes a zombie, and the leader it waits for stays the leader.
LEMMA LeaderZombie ==
  ASSUME TypeOK, Succession, Next, Waited', (proc[leader].state = "zombie")',
         ~\E p \in Proc : Exit(p)
  PROVE  Waited /\ proc[leader].state = "zombie" /\ leader' = leader
<1>1. CASE \E p \in Proc : Fork(p) \/ Detach(p) \/ Wait(p)
  <2>1. PICK p \in Proc : Fork(p) \/ Detach(p) \/ Wait(p) BY <1>1
  <2>2. Waited /\ leader' = leader /\ leader \in Proc
    BY <2>1 DEF Fork, Detach, Wait, Waited, cycle, Succession
  <2>3. CASE Fork(p)
    <3>1. PICK q \in FreeIds : proc' = [proc EXCEPT ![q] = [proc[p] EXCEPT !.parent = p]]
      BY <2>3 DEF Fork
    <3>2. [proc[p] EXCEPT !.parent = p].state = "live" BY <2>3 DEF Fork, TypeOK, Entry
    <3> QED BY <2>2, <3>1, <3>2 DEF TypeOK
  <2>4. CASE Detach(p)
    <3>1. proc' = [proc EXCEPT ![p] = [proc[p] EXCEPT !.group = p]] BY <2>4 DEF Detach
    <3>2. [proc[p] EXCEPT !.group = p].state = proc[p].state BY DEF TypeOK, Entry
    <3> QED BY <2>2, <3>1, <3>2 DEF TypeOK
  <2>5. CASE Wait(p) BY <2>2, <2>5 DEF Wait, TypeOK, NoProcess
  <2> QED BY <2>1, <2>2, <2>3, <2>4, <2>5
<1>2. CASE Launch
  <2>1. leader' \in Proc BY <1>2 DEF Launch, FreeIds
  <2>2. proc'[leader'].state = "live" BY <1>2, <2>1 DEF Launch, TypeOK
  <2> QED BY <2>2
<1>3. CASE Terminate \/ RequestStop
  BY <1>3 DEF Terminate, RequestStop, Waited, cycle
<1>4. CASE KillLeader
  <2>1. Waited /\ leader' = leader /\ leader \in Proc
    BY <1>4 DEF KillLeader, Waited, cycle, Succession
  <2>2. proc[leader].state # "zombie" BY <1>4 DEF KillLeader
  <2>3. [proc[leader] EXCEPT !.state = "doomed"].state = "doomed"
    BY <2>1 DEF TypeOK, Entry
  <2> QED BY <1>4, <2>1, <2>2, <2>3 DEF KillLeader, Doomed
<1>5. CASE Work /\ ~(Launch \/ Terminate \/ KillLeader)
  BY <1>5
     DEF Work, Stopped, StartCycle, EndEarly, Prepare, LaunchFails, Reap, Proceed, List, Read,
         GroupGone, TerminateGroup, AwaitGroup, GroupDeadline, ChildrenGone,
         TerminateChildren, AwaitChildren, ChildrenDeadline, Crash, RecordStep,
         FinishCycle, Waited
<1>6. CASE Restart BY <1>6 DEF Restart, Waited
<1> QED BY <1>1, <1>2, <1>3, <1>4, <1>5, <1>6 DEF Next

\* The four parts of Succession.
Led == Waited => leader \in Proc
Blocked == step # Blocking /\ blockingSucceeded => fresh
Harvest ==
  step = Blocking /\ pc \in {"group", "groupStats", "children", "childStats", "record"}
    => (code = 0 => fresh)
Verdict == step = Blocking /\ Waited /\ code = 0 /\ proc[leader].state = "zombie" => fresh
Gate == pc \in {"launch", "poll"} /\ step = Matching => (skip <=> ~blockingSucceeded)

LEMMA LedStep == ASSUME Led, Next PROVE Led'
<1>1. CASE Launch BY <1>1 DEF Launch, Led, FreeIds
<1>2. CASE Next /\ ~Launch
  BY <1>2
     DEF Next, Work, Fork, Detach, Exit, Wait, Restart, RequestStop, Stopped, StartCycle,
         EndEarly, Prepare, LaunchFails, Reap, Proceed, Terminate, KillLeader, List, Read,
         GroupGone, TerminateGroup, AwaitGroup, GroupDeadline, ChildrenGone,
         TerminateChildren, AwaitChildren, ChildrenDeadline, Crash, RecordStep,
         FinishCycle, cycle, Led, Waited
<1> QED BY <1>1, <1>2

LEMMA BlockedStep == ASSUME TypeOK, Blocked, Harvest, Next PROVE Blocked'
<1>1. CASE RecordStep BY <1>1 DEF RecordStep, Blocked, Harvest, Blocking
<1>2. CASE StartCycle BY <1>2 DEF StartCycle, Blocked, Blocking
<1>3. CASE \E p \in Proc : Exit(p)
  <2>1. PICK p \in Proc : Exit(p) BY <1>3
  <2>2. step' = step /\ blockingSucceeded' = blockingSucceeded BY <2>1 DEF Exit, cycle
  <2>3. fresh => fresh'
    <3>1. CASE Waited /\ p = leader BY <2>1, <3>1 DEF Exit
    <3>2. CASE ~(Waited /\ p = leader) BY <2>1, <3>2 DEF Exit
    <3> QED BY <3>1, <3>2
  <2> QED BY <2>2, <2>3 DEF Blocked, Blocking
<1>4. CASE Next /\ ~RecordStep /\ ~StartCycle /\ ~(\E p \in Proc : Exit(p))
  <2>1. step' = step /\ blockingSucceeded' = blockingSucceeded /\ fresh' = fresh
    BY <1>4
       DEF Next, Work, Fork, Detach, Wait, Restart, RequestStop, Stopped, EndEarly,
           Prepare, Launch, LaunchFails, Reap, Terminate, KillLeader, List, Read, GroupGone,
           TerminateGroup, AwaitGroup, GroupDeadline, ChildrenGone, TerminateChildren,
           AwaitChildren, ChildrenDeadline, Crash, FinishCycle, cycle, past
  <2> QED BY <2>1 DEF Blocked, Blocking
<1> QED BY <1>1, <1>2, <1>3, <1>4

LEMMA HarvestStep == ASSUME TypeOK, Harvest, Verdict, Next PROVE Harvest'
<1>1. CASE Reap BY <1>1 DEF Reap, Proceed, Harvest, Verdict, cycle, past, Blocking
<1>2. CASE LaunchFails BY <1>2 DEF LaunchFails, Harvest
<1>3. CASE \E p \in Proc : Exit(p)
  BY <1>3 DEF Exit, Harvest, Waited, cycle, Blocking
<1>4. CASE \/ RequestStop \/ List \/ (\E p \in Proc : Read(p))
           \/ GroupGone \/ TerminateGroup \/ AwaitGroup
           \/ GroupDeadline \/ ChildrenGone \/ TerminateChildren \/ AwaitChildren
           \/ ChildrenDeadline \/ \E p \in Proc : Fork(p) \/ Detach(p) \/ Wait(p)
  <2>1. step' = step /\ code' = code /\ fresh' = fresh
    BY <1>4
       DEF RequestStop, List, Read, GroupGone, TerminateGroup, AwaitGroup, GroupDeadline,
           ChildrenGone, TerminateChildren, AwaitChildren, ChildrenDeadline, Fork, Detach,
           Wait, cycle, past
  <2>2. \/ pc' = pc
        \/ pc \in {"group", "groupStats", "children", "childStats", "record"}
    BY <1>4
       DEF RequestStop, List, Read, GroupGone, TerminateGroup, AwaitGroup, GroupDeadline,
           ChildrenGone, TerminateChildren, AwaitChildren, ChildrenDeadline, Fork, Detach,
           Wait
  <2> QED BY <2>1, <2>2 DEF Harvest, Blocking
<1>5. CASE \/ Stopped \/ StartCycle \/ EndEarly \/ Prepare \/ Launch \/ Terminate
           \/ KillLeader \/ Crash \/ RecordStep \/ FinishCycle \/ Restart
  <2>1. pc' \notin {"group", "groupStats", "children", "childStats", "record"}
    BY <1>5
       DEF Stopped, StartCycle, EndEarly, Prepare, Launch, Terminate, KillLeader, Crash,
           RecordStep, FinishCycle, Restart
  <2> QED BY <2>1 DEF Harvest
<1> QED BY <1>1, <1>2, <1>3, <1>4, <1>5 DEF Next, Work

LEMMA VerdictStep == ASSUME TypeOK, Succession, Verdict, Next PROVE Verdict'
<1> SUFFICES ASSUME step' = Blocking, Waited', code' = 0, (proc[leader].state = "zombie")'
             PROVE  fresh'
  BY DEF Verdict, Blocking
<1>1. CASE \E p \in Proc : Exit(p)
  <2>1. PICK p \in Proc : Exit(p) BY <1>1
  <2>2. step = Blocking /\ Waited /\ leader \in Proc /\ leader' = leader
    BY <2>1 DEF Exit, cycle, Waited, Blocking, Succession
  <2>3. CASE p = leader BY <2>1, <2>2, <2>3 DEF Exit
  <2>4. CASE p # leader
    <3>1. proc'[leader].state = proc[leader].state
      BY <2>1, <2>2, <2>4, EntryFacts DEF Exit, TypeOK
    <3>2. code' = code /\ fresh' = fresh BY <2>1, <2>4 DEF Exit
    <3> QED BY <2>2, <3>1, <3>2 DEF Verdict
  <2> QED BY <2>3, <2>4
<1>2. CASE ~\E p \in Proc : Exit(p)
  <2>1. Waited /\ proc[leader].state = "zombie" /\ leader' = leader BY <1>2, LeaderZombie
  <2>2. step' = step /\ code' = code /\ fresh' = fresh
    BY <1>2, <2>1
       DEF Next, Work, Fork, Detach, Wait, Restart, RequestStop, Stopped, StartCycle,
           EndEarly, Prepare, Launch, LaunchFails, Reap, Terminate, KillLeader, List, Read,
           GroupGone, TerminateGroup, AwaitGroup, GroupDeadline, ChildrenGone,
           TerminateChildren, AwaitChildren, ChildrenDeadline, Crash, RecordStep,
           FinishCycle, cycle, past, Waited
  <2> QED BY <2>1, <2>2 DEF Verdict
<1> QED BY <1>1, <1>2

LEMMA GateStep == ASSUME TypeOK, Gate, Next PROVE Gate'
<1>1. CASE Prepare BY <1>1 DEF Prepare, Gate, Matching, TypeOK
<1>2. CASE Next /\ ~Prepare /\ pc' \notin {"launch", "poll"} BY <1>2 DEF Gate
<1>3. CASE Next /\ ~Prepare /\ pc' \in {"launch", "poll"}
  <2>1. /\ pc \in {"launch", "poll"}
        /\ step' = step /\ skip' = skip /\ blockingSucceeded' = blockingSucceeded
    BY <1>3
       DEF Next, Work, Fork, Detach, Exit, Wait, Restart, RequestStop, Stopped,
           StartCycle, EndEarly, Launch, LaunchFails, Reap, Proceed, Terminate,
           KillLeader, List, Read, GroupGone, TerminateGroup, AwaitGroup, GroupDeadline,
           ChildrenGone, TerminateChildren, AwaitChildren, ChildrenDeadline, Crash,
           RecordStep, FinishCycle, cycle
  <2> QED BY <2>1 DEF Gate, Matching
<1> QED BY <1>1, <1>2, <1>3

LEMMA SuccessionStep == ASSUME TypeOK, Succession, Next PROVE Succession'
<1>1. Led /\ Blocked /\ Harvest /\ Verdict /\ Gate
  BY DEF Succession, Led, Blocked, Harvest, Verdict, Gate
<1>2. Led' /\ Blocked' /\ Harvest' /\ Verdict' /\ Gate'
  BY <1>1, LedStep, BlockedStep, HarvestStep, VerdictStep, GateStep
<1> QED BY <1>2 DEF Succession, Led, Blocked, Harvest, Verdict, Gate

\* What health remembers: only these steps touch it.
LEMMA RememberedStep ==
  ASSUME TypeOK, Remembered, HealthRemembers, Next
  PROVE  Remembered' /\ HealthRemembers'
<1> DEFINE Over == {"idle", "done", "crashed"}
<1>1. CASE StartCycle
  <2>1. /\ ~failed' /\ failing' = failing
        /\ health' = cycleHealth'
        /\ (cycleHealth' = "unhealthy") = (health = "unhealthy")
    BY <1>1 DEF StartCycle
  <2>2. health = "unhealthy" <=> failing BY <1>1 DEF StartCycle, HealthRemembers
  <2> QED BY <2>1, <2>2 DEF Remembered, HealthRemembers
<1>2. CASE Prepare
  <2>1. /\ failed' = failed /\ failing' = failing /\ cycleHealth' = cycleHealth
        /\ health' = IF failed THEN "unhealthy" ELSE cycleHealth
        /\ pc = "step"
    BY <1>2 DEF Prepare, past
  <2>2. /\ failed => failing
        /\ ~failed => (cycleHealth = "unhealthy" <=> failing)
    BY <2>1 DEF Remembered
  <2> QED BY <2>1, <2>2 DEF Remembered, HealthRemembers
<1>3. CASE RecordStep
  <2>1. /\ pc = "record" /\ cycleHealth' = cycleHealth
        /\ failed' = (failed \/ code # 0) /\ failing' = (failing \/ code # 0)
        /\ health' = IF code # 0 THEN "unhealthy" ELSE health
    BY <1>3 DEF RecordStep
  <2>2. /\ failed => failing
        /\ ~failed => (cycleHealth = "unhealthy" <=> failing)
        /\ health = "unhealthy" <=> failing
    BY <2>1 DEF Remembered, HealthRemembers
  <2>3. CASE code = 0 BY <2>1, <2>2, <2>3 DEF Remembered, HealthRemembers, TypeOK
  <2>4. CASE code # 0 BY <2>1, <2>2, <2>4 DEF Remembered, HealthRemembers
  <2> QED BY <2>3, <2>4
<1>4. CASE FinishCycle
  <2>1. pc = "finish" /\ pc' = "idle" BY <1>4 DEF FinishCycle
  <2>2. /\ failed => failing
        /\ health = "unhealthy" <=> failing
    BY <2>1 DEF Remembered, HealthRemembers
  <2>3. CASE stop BY <1>4, <2>1, <2>2, <2>3 DEF FinishCycle, Remembered, HealthRemembers
  <2>4. CASE ~stop
    <3>1. /\ health' = IF failed THEN "unhealthy" ELSE "healthy"
          /\ failing' = (failing /\ failed)
      BY <1>4, <2>4 DEF FinishCycle
    <3>2. CASE failed BY <2>1, <2>2, <3>1, <3>2 DEF Remembered, HealthRemembers
    <3>3. CASE ~failed BY <2>1, <2>2, <3>1, <3>3 DEF Remembered, HealthRemembers
    <3> QED BY <3>2, <3>3
  <2> QED BY <2>3, <2>4
<1>5. CASE Stopped \/ Crash BY <1>5 DEF Stopped, Crash, Remembered, HealthRemembers
<1>6. CASE Restart
  <2>1. pc' = "idle" /\ health' = "running" /\ failing' = FALSE BY <1>6 DEF Restart
  <2> QED BY <2>1 DEF Remembered, HealthRemembers
<1>7. CASE Next /\ ~(StartCycle \/ Prepare \/ RecordStep \/ FinishCycle \/ Stopped \/ Crash
                     \/ Restart)
  <2>1. /\ health' = health /\ failing' = failing /\ failed' = failed
        /\ cycleHealth' = cycleHealth
        /\ \/ pc' = pc
           \/ pc \notin Over
    BY <1>7
       DEF Next, Work, Fork, Detach, Exit, Wait, RequestStop, EndEarly, Launch,
           LaunchFails, Reap, Proceed, Terminate, KillLeader, List, Read, GroupGone,
           TerminateGroup, AwaitGroup, GroupDeadline, ChildrenGone, TerminateChildren,
           AwaitChildren, ChildrenDeadline, Waited, cycle, past
  <2> QED BY <2>1 DEF Remembered, HealthRemembers
<1> QED BY <1>1, <1>2, <1>3, <1>4, <1>5, <1>6, <1>7

LEMMA InvInit == Init => IInv
<1> SUFFICES ASSUME Init PROVE IInv
  OBVIOUS
<1>1. TypeOK
  <2>1. NoProcess \in Entry BY DEF NoProcess, Entry
  <2>2. Flags BY DEF Init, Flags
  <2>3. Control BY SchedulerAssumption DEF Init, Control
  <2>4. proc \in [Proc -> Entry] BY <2>1 DEF Init
  <2> QED BY <2>2, <2>3, <2>4 DEF TypeOK, Flags, Control
<1>2. Present = {} BY DEF Init, Present, NoProcess
<1>3. Tree BY <1>2 DEF Tree
<1>4. ScanFindsRoot /\ Ended /\ Alone BY <1>2 DEF ScanFindsRoot, Ended, Alone
<1>5. Succession BY DEF Init, Succession, Waited, Blocking, Matching
<1>6. Remembered /\ HealthRemembers BY DEF Init, Remembered, HealthRemembers
<1> QED BY <1>1, <1>3, <1>4, <1>5, <1>6 DEF Init, IInv

LEMMA InvStep == IInv /\ [Next]_vars => IInv'
<1> SUFFICES ASSUME IInv, [Next]_vars PROVE IInv'
  OBVIOUS
<1> USE DEF IInv
<1>1. CASE Next
  <2>1. TypeOK' /\ Tree' /\ baseline' = {} BY <1>1, TypeStep, TreeStep, BaselineStep
  <2>2. ScanFindsRoot' BY <1>1, ScanStep
  <2>3. Ended' /\ Alone' BY <1>1, AloneStep
  <2>4. Succession' BY <1>1, SuccessionStep
  <2>5. Remembered' /\ HealthRemembers' BY <1>1, RememberedStep
  <2> QED BY <2>1, <2>2, <2>3, <2>4, <2>5
<1>2. CASE UNCHANGED vars
  BY <1>2
     DEF vars, cycle, scan, past, TypeOK, Tree, ScanFindsRoot, Ended, Alone, Succession,
         Remembered, HealthRemembers, Waited, Present, Adopted, Active
<1> QED BY <1>1, <1>2

LEMMA Invariance == Spec => []IInv
BY InvInit, InvStep, PTL DEF Spec

\* The state keeps its type, whatever the stage's processes do.
THEOREM TypeCorrect == Spec => []TypeOK
<1>1. IInv => TypeOK BY DEF IInv
<1> QED BY <1>1, Invariance, PTL

\* A stage of the scheduler never runs beside processes of an earlier one: between two
\* stages nothing is left of the first, not even a zombie
\* (run_pipeline_scheduler.py:301-304).
THEOREM StagesRunAlone == Spec => []Alone
<1>1. IInv => Alone BY DEF IInv
<1> QED BY <1>1, Invariance, PTL

\* Matching is let loose on candidates only after this cycle's blocking stage has
\* succeeded; otherwise it is told to skip them (run_pipeline_scheduler.py:209-217).
THEOREM CandidatesAreFresh == Spec => []FreshCandidates
<1>1. IInv => FreshCandidates
  BY DEF IInv, FreshCandidates, Succession, Blocking, Matching
<1> QED BY <1>1, Invariance, PTL

\* The service is reported unhealthy exactly while a stage has failed and no cycle has
\* succeeded since (matching_pipeline/README.md, run_pipeline_scheduler.py:150-171).
THEOREM HealthIsRemembered == Spec => []HealthRemembers
<1>1. IInv => HealthRemembers BY DEF IInv
<1> QED BY <1>1, Invariance, PTL

-----------------------------------------------------------------------------
(* The stage that scores metadata (MetadataScoring).  First the sums, folds *)
(* and readings of sequences that its operators are made of; then what they *)
(* say of datings, rarities and weighted means; then what each thread may   *)
(* rely on while the others load, rebuild and read the same indexes.        *)

-----------------------------------------------------------------------------
(* Induction, in the form of sets.                                          *)

\* The strict-subset relation has a least member below every finite set.
LEMMA SmallestSet ==
    ASSUME NEW S, IsFiniteSet(S), NEW T \in SUBSET (SUBSET S), T # {}
    PROVE  \E d \in T : \A e \in T : ~(e \subseteq d /\ e # d)
<1>1. T \subseteq FiniteSubsetsOf(S) BY FS_Subset DEF FiniteSubsetsOf
<1>2. PICK d \in T : \A e \in T : ~(<<e, d>> \in StrictSubsetOrdering(S))
  <2>1. IsWellFoundedOn(StrictSubsetOrdering(S), FiniteSubsetsOf(S))
    BY FS_StrictSubsetOrderingWellFounded
  <2> QED BY <1>1, <2>1, WFMin
<1>3. ASSUME NEW e \in T, e \subseteq d, e # d PROVE FALSE
  <2>1. <<e, d>> \in StrictSubsetOrdering(S) BY <1>3 DEF StrictSubsetOrdering
  <2> QED BY <2>1, <1>2
<1> QED BY <1>3

\* A family of subsets that has every set whose parts with one member less it
\* has, and the empty one, has them all.
LEMMA SubsetInduction ==
    ASSUME NEW S, IsFiniteSet(S), NEW T \in SUBSET (SUBSET S), {} \in T,
           \A t \in SUBSET S : (t # {} /\ \A x \in t : t \ {x} \in T) => t \in T
    PROVE  T = SUBSET S
<1> DEFINE R == (SUBSET S) \ T
<1> SUFFICES ASSUME R # {} PROVE FALSE OBVIOUS
<1>1. R \in SUBSET (SUBSET S) OBVIOUS
<1> HIDE DEF R
<1>2. PICK d \in R : \A e \in R : ~(e \subseteq d /\ e # d) BY <1>1, SmallestSet
<1> USE DEF R
<1>3. d \in SUBSET S /\ d \notin T /\ d # {} OBVIOUS
<1>4. ASSUME NEW x \in d PROVE d \ {x} \in T
  <2>1. d \ {x} \in SUBSET S /\ d \ {x} \subseteq d /\ d \ {x} # d BY <1>3
  <2>2. d \ {x} \notin R
    <3> HIDE DEF R
    <3> QED BY <2>1, <1>2
  <2> QED BY <2>1, <2>2
<1> QED BY <1>3, <1>4

LEMMA LeastMember ==
    ASSUME NEW T \in SUBSET Nat, T # {}
    PROVE  \E d \in T : \A e \in T : d <= e
<1> DEFINE Less == OpToRel(<, Nat)
<1>1. IsWellFoundedOn(Less, Nat) BY NatLessThanWellFounded
<1>2. PICK d \in T : \A e \in T : ~(<<e, d>> \in Less)
  <2> HIDE DEF Less
  <2> QED BY <1>1, WFMin
<1>3. ASSUME NEW e \in T PROVE d <= e
  <2>1. e \in Nat /\ d \in Nat OBVIOUS
  <2>2. e < d => <<e, d>> \in Less BY <2>1 DEF OpToRel
  <2>3. ~(e < d) BY <2>2, <1>2
  <2> QED BY <2>1, <2>3
<1> QED BY <1>3

\* Induction over 0..n: a set that holds 0 and goes on to the next is all of it.
LEMMA PrefixInduction ==
    ASSUME NEW n \in Nat, NEW T \in SUBSET (0..n), 0 \in T,
           \A k \in 0..(n - 1) : k \in T => k + 1 \in T
    PROVE  T = 0..n
<1> DEFINE R == (0..n) \ T
<1> SUFFICES ASSUME R # {} PROVE FALSE OBVIOUS
<1>1. R \in SUBSET Nat OBVIOUS
<1> HIDE DEF R
<1>2. PICK d \in R : \A e \in R : d <= e BY <1>1, LeastMember
<1> USE DEF R
<1>3. d \in 0..n /\ d \notin T /\ d # 0 OBVIOUS
<1>4. d - 1 \in 0..(n - 1) BY <1>3
<1>5. d - 1 \notin R
  <2> HIDE DEF R
  <2> QED BY <1>2, <1>3
<1>6. d - 1 \in T BY <1>4, <1>5
<1>7. (d - 1) + 1 \in T BY <1>4, <1>6
<1> QED BY <1>3, <1>7

-----------------------------------------------------------------------------
(* Finite sets of numbers, and sums.                                        *)

LEMMA GreatestMember ==
    ASSUME NEW S \in SUBSET Int, IsFiniteSet(S), S # {}
    PROVE  Greatest(S) \in S /\ \A y \in S : Greatest(S) >= y
<1> DEFINE T == {t \in SUBSET S : t # {} => \E x \in t : \A y \in t : x >= y}
<1>1. T \in SUBSET (SUBSET S) /\ {} \in T OBVIOUS
<1>2. ASSUME NEW t \in SUBSET S, t # {}, \A x \in t : t \ {x} \in T PROVE t \in T
  <2>0. PICK z \in t : t \ {z} \in T BY <1>2
  <2>1. CASE t \ {z} = {}
    <3>1. \A y \in t : z >= y BY <2>1
    <3> QED BY <3>1
  <2>2. CASE t \ {z} # {}
    <3>1. PICK x \in t \ {z} : \A y \in t \ {z} : x >= y BY <2>0, <2>2
    <3>2. x \in Int /\ z \in Int /\ x \in t /\ \A y \in t : y \in Int OBVIOUS
    <3>3. CASE x >= z
      <4>1. \A y \in t : x >= y BY <3>1, <3>3
      <4> QED BY <4>1, <3>2
    <3>4. CASE ~(x >= z)
      <4>1. \A y \in t : z >= y BY <3>1, <3>2, <3>4
      <4> QED BY <4>1
    <3> QED BY <3>3, <3>4
  <2> QED BY <2>1, <2>2
<1> HIDE DEF T
<1>3. T = SUBSET S BY <1>1, <1>2, SubsetInduction
<1>4. \E x \in S : \A y \in S : x >= y BY <1>3 DEF T
<1> QED BY <1>4 DEF Greatest

LEMMA LeastOfFinite ==
    ASSUME NEW S \in SUBSET Int, IsFiniteSet(S), S # {}
    PROVE  Least(S) \in S /\ \A y \in S : Least(S) <= y
<1> DEFINE T == {t \in SUBSET S : t # {} => \E x \in t : \A y \in t : x <= y}
<1>1. T \in SUBSET (SUBSET S) /\ {} \in T OBVIOUS
<1>2. ASSUME NEW t \in SUBSET S, t # {}, \A x \in t : t \ {x} \in T PROVE t \in T
  <2>0. PICK z \in t : t \ {z} \in T BY <1>2
  <2>1. CASE t \ {z} = {}
    <3>1. \A y \in t : z <= y BY <2>1
    <3> QED BY <3>1
  <2>2. CASE t \ {z} # {}
    <3>1. PICK x \in t \ {z} : \A y \in t \ {z} : x <= y BY <2>0, <2>2
    <3>2. x \in Int /\ z \in Int /\ x \in t /\ \A y \in t : y \in Int OBVIOUS
    <3>3. CASE x <= z
      <4>1. \A y \in t : x <= y BY <3>1, <3>3
      <4> QED BY <4>1, <3>2
    <3>4. CASE ~(x <= z)
      <4>1. \A y \in t : z <= y BY <3>1, <3>2, <3>4
      <4> QED BY <4>1
    <3> QED BY <3>3, <3>4
  <2> QED BY <2>1, <2>2
<1> HIDE DEF T
<1>3. T = SUBSET S BY <1>1, <1>2, SubsetInduction
<1>4. \E x \in S : \A y \in S : x <= y BY <1>3 DEF T
<1> QED BY <1>4 DEF Least

\* The values of a function on a finite set.
Values(f, A) == {f[x] : x \in A}

LEMMA ValuesFinite ==
    ASSUME NEW A, IsFiniteSet(A), NEW B, NEW f \in [A -> B]
    PROVE  IsFiniteSet(Values(f, A))
<1> DEFINE T == Values(f, A)
<1>1. f \in Surjection(A, T) BY DEF Surjection, Values
<1> HIDE DEF T
<1>2. IsFiniteSet(T) BY <1>1, FS_Surjection
<1> QED BY <1>2 DEF T

\* What SumFunction has added up over each part of the domain of f.
Next1(t) == CHOOSE x \in t : TRUE
SumRun(f, S, h) ==
    /\ h \in [SUBSET S -> Int] /\ h[{}] = 0
    /\ \A t \in SUBSET S : t # {} => h[t] = f[Next1(t)] + h[t \ {Next1(t)}]

LEMMA SumRuns ==
    ASSUME NEW S, IsFiniteSet(S), NEW f \in [S -> Int]
    PROVE  \E h : SumRun(f, S, h)
<1> DEFINE N == Cardinality(S)
           Ok(h, t) == h[t] = IF t = {} THEN 0 ELSE f[Next1(t)] + h[t \ {Next1(t)}]
           Goes(n) == \E h \in [SUBSET S -> Int] :
                          \A t \in SUBSET S : Cardinality(t) <= n => Ok(h, t)
           T == {n \in 0..N : Goes(n)}
<1>0. N \in Nat BY FS_CardinalityType
<1>a. ASSUME NEW t \in SUBSET S
      PROVE  IsFiniteSet(t) /\ Cardinality(t) \in Nat /\ Cardinality(t) <= N
  BY FS_Subset, FS_CardinalityType
<1>b. ASSUME NEW t \in SUBSET S, t # {}
      PROVE  /\ Next1(t) \in t /\ t \ {Next1(t)} \in SUBSET S
             /\ Cardinality(t \ {Next1(t)}) = Cardinality(t) - 1
  <2>1. Next1(t) \in t BY <1>b DEF Next1
  <2> QED BY <2>1, <1>a, FS_RemoveElement
<1> HIDE DEF N
<1>1. Goes(0)
  <2> DEFINE h0 == [t \in SUBSET S |-> 0]
  <2>1. h0 \in [SUBSET S -> Int] OBVIOUS
  <2>2. ASSUME NEW t \in SUBSET S, Cardinality(t) <= 0 PROVE t = {}
    <3>1. Cardinality(t) = 0 BY <2>2, <1>a
    <3> QED BY <3>1, <1>a, FS_EmptySet
  <2>3. \A t \in SUBSET S : h0[t] = 0 OBVIOUS
  <2> HIDE DEF h0
  <2>4. \A t \in SUBSET S : Cardinality(t) <= 0 => Ok(h0, t) BY <2>2, <2>3
  <2> QED BY <2>1, <2>4
<1>2. ASSUME NEW n \in 0..(N - 1), Goes(n) PROVE Goes(n + 1)
  <2>1. PICK h \in [SUBSET S -> Int] : \A t \in SUBSET S : Cardinality(t) <= n => Ok(h, t)
    BY <1>2
  <2> DEFINE H == [t \in SUBSET S |-> IF t = {} THEN 0 ELSE f[Next1(t)] + h[t \ {Next1(t)}]]
  <2>2. H \in [SUBSET S -> Int]
    <3>1. ASSUME NEW t \in SUBSET S, t # {} PROVE f[Next1(t)] + h[t \ {Next1(t)}] \in Int
      <4>1. Next1(t) \in S /\ t \ {Next1(t)} \in SUBSET S BY <3>1, <1>b
      <4>2. f[Next1(t)] \in Int /\ h[t \ {Next1(t)}] \in Int BY <4>1
      <4> QED BY <4>2
    <3> QED BY <3>1
  <2>3. \A t \in SUBSET S : Cardinality(t) <= n => H[t] = h[t] BY <2>1
  <2>4. ASSUME NEW t \in SUBSET S, Cardinality(t) <= n + 1 PROVE Ok(H, t)
    <3>1. CASE t = {} BY <3>1
    <3>2. CASE t # {}
      <4>1. t \ {Next1(t)} \in SUBSET S /\ Cardinality(t \ {Next1(t)}) <= n
        BY <3>2, <1>b, <2>4, <1>a
      <4>2. H[t \ {Next1(t)}] = h[t \ {Next1(t)}] BY <4>1, <2>3
      <4>3. H[t] = f[Next1(t)] + h[t \ {Next1(t)}] BY <3>2
      <4> HIDE DEF H
      <4> QED BY <4>2, <4>3, <3>2
    <3> QED BY <3>1, <3>2
  <2> HIDE DEF H, Ok
  <2> QED BY <2>2, <2>4
<1> HIDE DEF Goes
<1>3. T \in SUBSET (0..N) /\ 0 \in T BY <1>0, <1>1
<1>4. \A n \in 0..(N - 1) : n \in T => n + 1 \in T BY <1>0, <1>2
<1> HIDE DEF T
<1>5. T = 0..N BY <1>0, <1>3, <1>4, PrefixInduction
<1> USE DEF T
<1>6. Goes(N) BY <1>5, <1>0
<1>7. PICK h \in [SUBSET S -> Int] : \A t \in SUBSET S : Cardinality(t) <= N => Ok(h, t)
  BY <1>6 DEF Goes
<1>8. \A t \in SUBSET S : Ok(h, t) BY <1>7, <1>a
<1> QED BY <1>8 DEF SumRun

LEMMA SumIsRun ==
    ASSUME NEW S, IsFiniteSet(S), NEW f \in [S -> Int]
    PROVE  \E h : SumRun(f, S, h) /\ SumFunction(f) = h[S]
<1> DEFINE Solves(h) == h = [t \in SUBSET S |->
                               IF t = {} THEN 0 ELSE f[Next1(t)] + h[t \ {Next1(t)}]]
           H == CHOOSE h : Solves(h)
<1>1. PICK g : SumRun(f, S, g)
  BY SumRuns
<1>2. Solves(g) BY <1>1 DEF SumRun
<1>3. Solves(H)
  <2> HIDE DEF Solves
  <2> QED BY <1>2
<1>4. SumFunction(f) = H[S]
  BY DEF SumFunction, SumFunctionOnSet, FoldFunctionOnSet, MapThenFoldSet, Next1
<1>5. \A t \in SUBSET S : H[t] = IF t = {} THEN 0 ELSE f[Next1(t)] + H[t \ {Next1(t)}]
  <2>1. Solves(H) => \A t \in SUBSET S :
            H[t] = IF t = {} THEN 0 ELSE f[Next1(t)] + H[t \ {Next1(t)}]
    <3> HIDE DEF H
    <3> QED OBVIOUS
  <2> HIDE DEF Solves, H
  <2> QED BY <2>1, <1>3
<1>6. DOMAIN H = SUBSET S
  <2>1. Solves(H) => DOMAIN H = SUBSET S
    <3> HIDE DEF H
    <3> QED OBVIOUS
  <2> HIDE DEF Solves, H
  <2> QED BY <2>1, <1>3
<1>6a. H = [t \in SUBSET S |-> H[t]]
  <2>1. Solves(H) => H = [t \in SUBSET S |-> H[t]]
    <3> HIDE DEF H
    <3> QED OBVIOUS
  <2> HIDE DEF Solves, H
  <2> QED BY <2>1, <1>3
<1> HIDE DEF H, Solves
<1> DEFINE T == {t \in SUBSET S : H[t] = g[t]}
<1>7. T \in SUBSET (SUBSET S) /\ {} \in T BY <1>5, <1>1 DEF SumRun
<1>8. ASSUME NEW t \in SUBSET S, t # {}, \A x \in t : t \ {x} \in T PROVE t \in T
  <2>1. Next1(t) \in t BY <1>8 DEF Next1
  <2>2. t \ {Next1(t)} \in T BY <2>1, <1>8
  <2>3. H[t] = f[Next1(t)] + H[t \ {Next1(t)}] BY <1>8, <1>5
  <2>4. g[t] = f[Next1(t)] + g[t \ {Next1(t)}] BY <1>8, <1>1 DEF SumRun
  <2> QED BY <2>2, <2>3, <2>4
<1> HIDE DEF T
<1>9. T = SUBSET S BY <1>7, <1>8, SubsetInduction
<1>10. H[S] = g[S] BY <1>9 DEF T
<1> QED BY <1>1, <1>4, <1>10
LEMMA SumType ==
    ASSUME NEW S, IsFiniteSet(S), NEW f \in [S -> Int]
    PROVE  SumFunction(f) \in Int
<1>1. PICK h : SumRun(f, S, h) /\ SumFunction(f) = h[S] BY SumIsRun
<1> QED BY <1>1 DEF SumRun

\* A sum is no less than a sum of terms that are no greater.
LEMMA SumLe ==
    ASSUME NEW S, IsFiniteSet(S), NEW f \in [S -> Int], NEW g \in [S -> Int],
           \A x \in S : f[x] <= g[x]
    PROVE  SumFunction(f) <= SumFunction(g)
<1>1. PICK h : SumRun(f, S, h) /\ SumFunction(f) = h[S] BY SumIsRun
<1>2. PICK k : SumRun(g, S, k) /\ SumFunction(g) = k[S] BY SumIsRun
<1> DEFINE T == {t \in SUBSET S : h[t] <= k[t]}
<1>3. T \in SUBSET (SUBSET S) /\ {} \in T BY <1>1, <1>2 DEF SumRun
<1>4. ASSUME NEW t \in SUBSET S, t # {}, \A x \in t : t \ {x} \in T PROVE t \in T
  <2>1. Next1(t) \in t BY <1>4 DEF Next1
  <2>2. t \ {Next1(t)} \in T /\ t \ {Next1(t)} \in SUBSET S /\ Next1(t) \in S BY <2>1, <1>4
  <2>3. h[t] = f[Next1(t)] + h[t \ {Next1(t)}] BY <1>4, <1>1 DEF SumRun
  <2>4. k[t] = g[Next1(t)] + k[t \ {Next1(t)}] BY <1>4, <1>2 DEF SumRun
  <2>5. /\ f[Next1(t)] \in Int /\ g[Next1(t)] \in Int /\ f[Next1(t)] <= g[Next1(t)]
        /\ h[t \ {Next1(t)}] \in Int /\ k[t \ {Next1(t)}] \in Int
        /\ h[t \ {Next1(t)}] <= k[t \ {Next1(t)}]
    BY <2>2, <1>1, <1>2 DEF SumRun
  <2>6. h[t] <= k[t] BY <2>3, <2>4, <2>5
  <2> QED BY <2>6
<1> HIDE DEF T
<1>5. T = SUBSET S BY <1>3, <1>4, SubsetInduction
<1>6. h[S] <= k[S] BY <1>5 DEF T
<1> QED BY <1>1, <1>2, <1>6

\* Terms that are all positive have a positive sum.
LEMMA SumPositive ==
    ASSUME NEW S, IsFiniteSet(S), S # {}, NEW f \in [S -> Int], \A x \in S : f[x] > 0
    PROVE  SumFunction(f) > 0
<1>1. PICK h : SumRun(f, S, h) /\ SumFunction(f) = h[S] BY SumIsRun
<1> DEFINE T == {t \in SUBSET S : h[t] >= 0 /\ (t # {} => h[t] > 0)}
<1>3. T \in SUBSET (SUBSET S) /\ {} \in T BY <1>1 DEF SumRun
<1>4. ASSUME NEW t \in SUBSET S, t # {}, \A x \in t : t \ {x} \in T PROVE t \in T
  <2>1. Next1(t) \in t BY <1>4 DEF Next1
  <2>2. t \ {Next1(t)} \in T /\ t \ {Next1(t)} \in SUBSET S /\ Next1(t) \in S BY <2>1, <1>4
  <2>3. h[t] = f[Next1(t)] + h[t \ {Next1(t)}] BY <1>4, <1>1 DEF SumRun
  <2>5. /\ f[Next1(t)] \in Int /\ f[Next1(t)] > 0
        /\ h[t \ {Next1(t)}] \in Int /\ h[t \ {Next1(t)}] >= 0
    BY <2>2, <1>1 DEF SumRun
  <2>6. h[t] > 0 /\ h[t] >= 0 BY <2>3, <2>5
  <2> QED BY <2>6
<1> HIDE DEF T
<1>5. T = SUBSET S BY <1>3, <1>4, SubsetInduction
<1>6. h[S] > 0 BY <1>5 DEF T
<1> QED BY <1>1, <1>6

LEMMA SumNotNegative ==
    ASSUME NEW S, IsFiniteSet(S), NEW f \in [S -> Nat]
    PROVE  SumFunction(f) >= 0
<1>1. f \in [S -> Int] OBVIOUS
<1>2. PICK h : SumRun(f, S, h) /\ SumFunction(f) = h[S] BY <1>1, SumIsRun
<1> DEFINE T == {t \in SUBSET S : h[t] >= 0}
<1>3. T \in SUBSET (SUBSET S) /\ {} \in T BY <1>2 DEF SumRun
<1>4. ASSUME NEW t \in SUBSET S, t # {}, \A x \in t : t \ {x} \in T PROVE t \in T
  <2>1. Next1(t) \in t BY <1>4 DEF Next1
  <2>2. t \ {Next1(t)} \in T /\ t \ {Next1(t)} \in SUBSET S /\ Next1(t) \in S BY <2>1, <1>4
  <2>3. h[t] = f[Next1(t)] + h[t \ {Next1(t)}] BY <1>4, <1>2 DEF SumRun
  <2>5. f[Next1(t)] \in Nat /\ h[t \ {Next1(t)}] \in Int /\ h[t \ {Next1(t)}] >= 0
    BY <2>2, <1>2 DEF SumRun
  <2>6. h[t] >= 0 BY <2>3, <2>5
  <2> QED BY <2>6
<1> HIDE DEF T
<1>5. T = SUBSET S BY <1>3, <1>4, SubsetInduction
<1>6. h[S] >= 0 BY <1>5 DEF T
<1> QED BY <1>2, <1>6

\* The sum of what the terms of f are above c times those of g.
LEMMA SumAbove ==
    ASSUME NEW S, IsFiniteSet(S), NEW f \in [S -> Int], NEW g \in [S -> Int], NEW c \in Int,
           NEW d \in [S -> Int], \A x \in S : d[x] = f[x] - c * g[x]
    PROVE  SumFunction(d) = SumFunction(f) - c * SumFunction(g)
<1>1. PICK h : SumRun(f, S, h) /\ SumFunction(f) = h[S] BY SumIsRun
<1>2. PICK k : SumRun(g, S, k) /\ SumFunction(g) = k[S] BY SumIsRun
<1>3. PICK m : SumRun(d, S, m) /\ SumFunction(d) = m[S] BY SumIsRun
<1> DEFINE T == {t \in SUBSET S : m[t] = h[t] - c * k[t]}
<1>4. T \in SUBSET (SUBSET S) /\ {} \in T
  <2>1. m[{}] = 0 /\ h[{}] = 0 /\ k[{}] = 0 BY <1>1, <1>2, <1>3 DEF SumRun
  <2> QED BY <2>1
<1>5. ASSUME NEW t \in SUBSET S, t # {}, \A x \in t : t \ {x} \in T PROVE t \in T
  <2> DEFINE x == Next1(t)
             u == t \ {x}
  <2>1. x \in t BY <1>5 DEF Next1
  <2>2. u \in T /\ u \in SUBSET S /\ x \in S BY <2>1, <1>5
  <2>3. h[t] = f[x] + h[u] BY <1>5, <1>1 DEF SumRun
  <2>4. k[t] = g[x] + k[u] BY <1>5, <1>2 DEF SumRun
  <2>5. m[t] = d[x] + m[u] BY <1>5, <1>3 DEF SumRun
  <2>6. d[x] = f[x] - c * g[x] /\ m[u] = h[u] - c * k[u] BY <2>2
  <2>7. f[x] \in Int /\ g[x] \in Int /\ h[u] \in Int /\ k[u] \in Int
    BY <2>2, <1>1, <1>2 DEF SumRun
  <2>8. \A p, q \in Int : c * (p + q) = c * p + c * q OBVIOUS
  <2> HIDE DEF x, u
  <2>9. c * k[t] = c * g[x] + c * k[u] BY <2>4, <2>7, <2>8
  <2>10. m[t] = h[t] - c * k[t] BY <2>3, <2>5, <2>6, <2>7, <2>9
  <2> QED BY <2>10
<1> HIDE DEF T
<1>6. T = SUBSET S BY <1>4, <1>5, SubsetInduction
<1>7. m[S] = h[S] - c * k[S] BY <1>6 DEF T
<1> QED BY <1>1, <1>2, <1>3, <1>7

\* A sum within what its terms are within.
LEMMA SumWithin ==
    ASSUME NEW S, IsFiniteSet(S), NEW f \in [S -> Int], NEW g \in [S -> Int], NEW c \in Nat,
           \A x \in S : 0 <= f[x] /\ f[x] <= c * g[x]
    PROVE  /\ SumFunction(f) \in Int /\ SumFunction(g) \in Int
           /\ 0 <= SumFunction(f) /\ SumFunction(f) <= c * SumFunction(g)
<1>1. PICK h : SumRun(f, S, h) /\ SumFunction(f) = h[S] BY SumIsRun
<1>2. PICK k : SumRun(g, S, k) /\ SumFunction(g) = k[S] BY SumIsRun
<1> DEFINE T == {t \in SUBSET S : 0 <= h[t] /\ h[t] <= c * k[t]}
<1>3. T \in SUBSET (SUBSET S) /\ {} \in T
  <2>1. h[{}] = 0 /\ k[{}] = 0 BY <1>1, <1>2 DEF SumRun
  <2> QED BY <2>1
<1>4. ASSUME NEW t \in SUBSET S, t # {}, \A x \in t : t \ {x} \in T PROVE t \in T
  <2> DEFINE x == Next1(t)
             u == t \ {x}
  <2>1. x \in t BY <1>4 DEF Next1
  <2>2. u \in T /\ u \in SUBSET S /\ x \in S BY <2>1, <1>4
  <2>3. h[t] = f[x] + h[u] BY <1>4, <1>1 DEF SumRun
  <2>4. k[t] = g[x] + k[u] BY <1>4, <1>2 DEF SumRun
  <2>5. 0 <= f[x] /\ f[x] <= c * g[x] /\ 0 <= h[u] /\ h[u] <= c * k[u] BY <2>2
  <2>6. f[x] \in Int /\ g[x] \in Int /\ h[u] \in Int /\ k[u] \in Int
    BY <2>2, <1>1, <1>2 DEF SumRun
  <2>7. \A p, q \in Int : c * (p + q) = c * p + c * q /\ c * p \in Int /\ c * q \in Int OBVIOUS
  <2> HIDE DEF x, u
  <2>8. c * k[t] = c * g[x] + c * k[u] /\ c * g[x] \in Int /\ c * k[u] \in Int
    BY <2>4, <2>6, <2>7
  <2>9. 0 <= h[t] /\ h[t] <= c * k[t] BY <2>3, <2>5, <2>6, <2>8
  <2> QED BY <2>9
<1> HIDE DEF T
<1>5. T = SUBSET S BY <1>3, <1>4, SubsetInduction
<1>6. 0 <= h[S] /\ h[S] <= c * k[S] BY <1>5 DEF T
<1> QED BY <1>1, <1>2, <1>6, SumType

\* A run of a sum may take any member first.
AnyFirst(f, S, h) == \A t \in SUBSET S : \A x \in t : h[t] = f[x] + h[t \ {x}]

LEMMA SumAny ==
    ASSUME NEW S, IsFiniteSet(S), NEW f \in [S -> Int], NEW h, SumRun(f, S, h)
    PROVE  AnyFirst(f, S, h)
<1> DEFINE T == {t \in SUBSET S : \A x \in t : h[t] = f[x] + h[t \ {x}]}
<1>1. T \in SUBSET (SUBSET S) /\ {} \in T OBVIOUS
<1>2. ASSUME NEW t \in SUBSET S, t # {}, \A x \in t : t \ {x} \in T PROVE t \in T
  <2>1. Next1(t) \in t BY <1>2 DEF Next1
  <2> SUFFICES ASSUME NEW x \in t PROVE h[t] = f[x] + h[t \ {x}] OBVIOUS
  <2> DEFINE y == Next1(t)
  <2>2. h[t] = f[y] + h[t \ {y}] BY <1>2 DEF SumRun
  <2>3. CASE x = y BY <2>2, <2>3
  <2>4. CASE x # y
    <3>1. x \in t \ {y} /\ y \in t \ {x} BY <2>1, <2>4
    <3>2. h[t \ {y}] = f[x] + h[(t \ {y}) \ {x}] BY <2>1, <3>1, <1>2
    <3>3. h[t \ {x}] = f[y] + h[(t \ {x}) \ {y}] BY <3>1, <1>2
    <3>4. (t \ {y}) \ {x} = (t \ {x}) \ {y} OBVIOUS
    <3> DEFINE r == (t \ {x}) \ {y}
    <3>5. r \in SUBSET S /\ x \in S /\ y \in S BY <2>1
    <3>6. f[x] \in Int /\ f[y] \in Int /\ h[r] \in Int BY <3>5 DEF SumRun
    <3> HIDE DEF r, y
    <3>7. h[t \ {y}] = f[x] + h[r] /\ h[t \ {x}] = f[y] + h[r] BY <3>2, <3>3, <3>4 DEF r
    <3> QED BY <2>2, <3>6, <3>7
  <2> QED BY <2>3, <2>4
<1> HIDE DEF T
<1>3. T = SUBSET S BY <1>1, <1>2, SubsetInduction
<1> QED BY <1>3 DEF T, AnyFirst

\* The sum of ones is the number of them.
LEMMA SumOnes ==
    ASSUME NEW S, IsFiniteSet(S)
    PROVE  SumFunction([x \in S |-> 1]) = Cardinality(S)
<1> DEFINE f == [x \in S |-> 1]
<1>0. f \in [S -> Int] /\ \A x \in S : f[x] = 1 OBVIOUS
<1> HIDE DEF f
<1>1. PICK h : SumRun(f, S, h) /\ SumFunction(f) = h[S] BY <1>0, SumIsRun
<1> DEFINE T == {t \in SUBSET S : h[t] = Cardinality(t)}
<1>3. T \in SUBSET (SUBSET S) /\ {} \in T BY <1>1, FS_EmptySet DEF SumRun
<1>4. ASSUME NEW t \in SUBSET S, t # {}, \A x \in t : t \ {x} \in T PROVE t \in T
  <2>1. Next1(t) \in t BY <1>4 DEF Next1
  <2>2. t \ {Next1(t)} \in T /\ Next1(t) \in S BY <2>1, <1>4
  <2>3. h[t] = f[Next1(t)] + h[t \ {Next1(t)}] BY <1>4, <1>1 DEF SumRun
  <2>4. IsFiniteSet(t) BY <1>4, FS_Subset
  <2>5. Cardinality(t) \in Nat /\ Cardinality(t \ {Next1(t)}) = Cardinality(t) - 1
    BY <2>1, <2>4, FS_RemoveElement, FS_CardinalityType
  <2>6. h[t] = Cardinality(t) BY <2>2, <2>3, <2>5, <1>0
  <2> QED BY <2>6
<1> HIDE DEF T
<1>5. T = SUBSET S BY <1>3, <1>4, SubsetInduction
<1>6. h[S] = Cardinality(S) BY <1>5 DEF T
<1> QED BY <1>1, <1>6 DEF f

\* A part of one, in hundredths.
Share == 0..Unit

LEMMA ShareFacts ==
    /\ Share \subseteq Nat /\ Share \subseteq Int /\ 0 \in Share /\ Unit \in Share
    /\ NaN \notin Share /\ None \notin Share
    /\ \A x \in Int : x \in Share <=> 0 <= x /\ x <= Unit
    /\ \A a, b \in Share : (a + b) \div 2 \in Share
BY NoneAssumption DEF Share, Unit, NaN

LEMMA QuotientShare ==
    ASSUME NEW n \in Nat \ {0}, NEW x \in Int, 0 <= x, x <= Unit * n
    PROVE  x \div n \in Share
<1>1. x \div n \in Int /\ x = n * (x \div n) + (x % n) /\ 0 <= x % n /\ x % n < n OBVIOUS
<1> DEFINE q == x \div n
           r == x % n
<1>2. q \in Int /\ x = n * q + r /\ r \in Int /\ 0 <= r /\ r < n BY <1>1
<1> HIDE DEF q, r
<1>3. 0 <= q
  <2>1. q < 0 => n * q <= -n BY <1>2
  <2> QED BY <1>2, <2>1
<1>4. q <= 100
  <2>1. q >= 101 => n * q >= n * 101 BY <1>2
  <2>2. x <= 100 * n BY DEF Unit
  <2> QED BY <1>2, <2>1, <2>2
<1>5. q \in 0..100 BY <1>2, <1>3, <1>4
<1> QED BY <1>5 DEF Share, Unit, q

\* Means.
LEMMA QuotientLe ==
    ASSUME NEW a \in Int, NEW b \in Int, NEW n \in Nat \ {0}, a <= b
    PROVE  a \div n \in Int /\ b \div n \in Int /\ a \div n <= b \div n
<1>1. a \div n \in Int /\ b \div n \in Int OBVIOUS
<1> QED BY <1>1

LEMMA MeanType ==
    ASSUME NEW s \in Seq(Int), s # <<>>
    PROVE  MeanOf(s) \in Int
<1>1. Len(s) \in Nat \ {0} /\ s \in [1..Len(s) -> Int] /\ IsFiniteSet(1..Len(s))
  BY FS_Interval
<1>2. SumFunction(s) \in Int BY <1>1, SumType
<1> QED BY <1>1, <1>2 DEF MeanOf

LEMMA MeanShare ==
    ASSUME NEW s \in Seq(Share), s # <<>>
    PROVE  MeanOf(s) \in Share
<1> DEFINE n == Len(s)
           D == 1..n
           g == [i \in D |-> 1]
<1>1. n \in Nat \ {0} /\ s \in [D -> Share] /\ IsFiniteSet(D) BY FS_Interval
<1>2. s \in [D -> Int] /\ \A i \in D : 0 <= s[i] /\ s[i] <= Unit
  BY <1>1, ShareFacts
<1>3. Cardinality(D) = n
  <2>1. 1 \in Int /\ n \in Int /\ ~(1 > n) /\ n - 1 + 1 = n BY <1>1
  <2>2. Cardinality(1..n) = IF 1 > n THEN 0 ELSE n - 1 + 1
    <3> HIDE DEF n
    <3> QED BY <2>1, FS_Interval
  <2> QED BY <2>1, <2>2
<1>4. g \in [D -> Int] /\ (\A i \in D : g[i] = 1) /\ SumFunction(g) = n
  BY <1>1, <1>3, SumOnes
<1>5. Unit \in Nat /\ Unit * 1 = Unit BY DEF Unit
<1>6. \A i \in D : 0 <= s[i] /\ s[i] <= Unit * g[i] BY <1>2, <1>4, <1>5
<1> HIDE DEF g, D
<1>7. /\ SumFunction(s) \in Int /\ 0 <= SumFunction(s)
      /\ SumFunction(s) <= Unit * SumFunction(g)
  BY <1>1, <1>2, <1>4, <1>5, <1>6, SumWithin
<1>8. MeanOf(s) = SumFunction(s) \div n BY DEF MeanOf, n
<1> HIDE DEF n
<1> QED BY <1>1, <1>4, <1>7, <1>8, QuotientShare

LEMMA MeanLe ==
    ASSUME NEW s \in Seq(Int), NEW r \in Seq(Int), s # <<>>, Len(r) = Len(s),
           \A i \in 1..Len(s) : s[i] <= r[i]
    PROVE  MeanOf(s) \in Int /\ MeanOf(r) \in Int /\ MeanOf(s) <= MeanOf(r)
<1> DEFINE n == Len(s)
<1>1. /\ n \in Nat \ {0} /\ s \in [1..n -> Int] /\ r \in [1..n -> Int]
      /\ IsFiniteSet(1..n) /\ Len(r) = n
  BY FS_Interval
<1>2. \A i \in 1..n : s[i] <= r[i] OBVIOUS
<1> HIDE DEF n
<1>3. SumFunction(s) \in Int /\ SumFunction(r) \in Int BY <1>1, SumType
<1>4. SumFunction(s) <= SumFunction(r) BY <1>1, <1>2, SumLe
<1>5. MeanOf(s) = SumFunction(s) \div n /\ MeanOf(r) = SumFunction(r) \div n
  BY <1>1 DEF MeanOf, n
<1> QED BY <1>1, <1>3, <1>4, <1>5, QuotientLe
-----------------------------------------------------------------------------
(* Readings of a sequence one member at a time.                             *)

\* F[k] is the value a fold over s has after k members.
FoldRun(V, base, G, s, F) ==
    /\ F \in [0..Len(s) -> V] /\ F[0] = base
    /\ \A k \in 1..Len(s) : F[k] = G[<<F[k - 1], s[k]>>]

\* The values a fold over a sequence passes through.
LEMMA FoldChain ==
    ASSUME NEW V, NEW X, NEW base \in V, NEW G \in [V \X X -> V], NEW s \in Seq(X)
    PROVE  \E F : FoldRun(V, base, G, s, F)
<1> DEFINE Goes(n) == \E F \in [0..n -> V] :
               F[0] = base /\ \A k \in 1..n : F[k] = G[<<F[k - 1], s[k]>>]
           T == {n \in 0..Len(s) : Goes(n)}
<1>0. Len(s) \in Nat /\ \A k \in 1..Len(s) : s[k] \in X OBVIOUS
<1>1. Goes(0)
  <2> DEFINE H == [k \in 0..0 |-> base]
  <2>1. H \in [0..0 -> V] /\ H[0] = base OBVIOUS
  <2>2. \A k \in 1..0 : FALSE OBVIOUS
  <2> HIDE DEF H
  <2> QED BY <2>1, <2>2
<1>2. ASSUME NEW n \in 0..(Len(s) - 1), Goes(n) PROVE Goes(n + 1)
  <2>1. PICK F \in [0..n -> V] : F[0] = base /\ \A k \in 1..n : F[k] = G[<<F[k - 1], s[k]>>]
    BY <1>2
  <2> DEFINE H == [k \in 0..(n + 1) |-> IF k = n + 1 THEN G[<<F[n], s[n + 1]>>] ELSE F[k]]
  <2>2. n + 1 \in 1..Len(s) /\ n \in Nat BY <1>0
  <2>3. F[n] \in V /\ s[n + 1] \in X BY <2>1, <2>2, <1>0
  <2>4. G[<<F[n], s[n + 1]>>] \in V BY <2>3
  <2>5. H \in [0..(n + 1) -> V] BY <2>1, <2>2, <2>4
  <2>6. H[0] = base BY <2>1, <2>2
  <2>7. ASSUME NEW k \in 1..(n + 1) PROVE H[k] = G[<<H[k - 1], s[k]>>]
    <3>1. CASE k = n + 1
      <4>1. n \in 0..(n + 1) /\ n # n + 1 /\ k - 1 = n BY <3>1, <2>2
      <4>2. H[n] = F[n] BY <4>1
      <4>3. H[k] = G[<<F[n], s[n + 1]>>] BY <3>1, <2>2
      <4> HIDE DEF H
      <4> QED BY <4>1, <4>2, <4>3, <3>1
    <3>2. CASE k \in 1..n
      <4>1. k - 1 \in 0..(n + 1) /\ k - 1 # n + 1 /\ k # n + 1 /\ k \in 0..(n + 1)
        BY <3>2, <2>2
      <4>2. H[k - 1] = F[k - 1] /\ H[k] = F[k] BY <4>1
      <4> HIDE DEF H
      <4> QED BY <4>2, <3>2, <2>1
    <3> QED BY <3>1, <3>2, <2>2
  <2> HIDE DEF H
  <2> QED BY <2>5, <2>6, <2>7
<1> HIDE DEF Goes
<1>3. T \in SUBSET (0..Len(s)) /\ 0 \in T BY <1>0, <1>1
<1>4. \A n \in 0..(Len(s) - 1) : n \in T => n + 1 \in T BY <1>0, <1>2
<1> HIDE DEF T
<1>5. T = 0..Len(s) BY <1>0, <1>3, <1>4, PrefixInduction
<1> USE DEF T
<1>6. Goes(Len(s)) BY <1>5, <1>0
<1> QED BY <1>6 DEF Goes, FoldRun
\* What Among keeps: members of both sets, no more than there are.
LEMMA AmongFacts ==
    ASSUME NEW X, NEW S, NEW s \in Seq(X)
    PROVE  Among(S, s) \in Seq(S \cap X) /\ Len(Among(S, s)) <= Len(s)
<1> DEFINE V == Seq(S \cap X)
           N == Len(s)
           G == [x \in V \X X |-> IF x[2] \in S THEN Append(x[1], x[2]) ELSE x[1]]
           Solves(h) == h = [k \in 0..N |->
                               IF k = 0 THEN <<>>
                               ELSE IF s[k] \in S THEN Append(h[k - 1], s[k]) ELSE h[k - 1]]
           H == CHOOSE h : Solves(h)
<1>0. N \in Nat /\ \A k \in 1..N : s[k] \in X OBVIOUS
<1>1. G \in [V \X X -> V] OBVIOUS
<1>2. <<>> \in V OBVIOUS
<1>3. \E h : Solves(h)
  <2>1. PICK F : FoldRun(V, <<>>, G, s, F)
    <3> HIDE DEF G, V
    <3> QED BY <1>1, <1>2, FoldChain
  <2>2. ASSUME NEW k \in 0..N, k # 0
        PROVE  F[k] = IF s[k] \in S THEN Append(F[k - 1], s[k]) ELSE F[k - 1]
    <3>1. k \in 1..N /\ k - 1 \in 0..N BY <2>2, <1>0
    <3>2. F[k] = G[<<F[k - 1], s[k]>>] /\ F[k - 1] \in V BY <2>1, <3>1 DEF FoldRun
    <3>3. <<F[k - 1], s[k]>> \in V \X X BY <3>1, <3>2, <1>0
    <3> QED BY <3>2, <3>3
  <2>3. F[0] = <<>> /\ F = [k \in 0..N |-> F[k]] BY <2>1 DEF FoldRun
  <2>4. Solves(F) BY <2>2, <2>3
  <2> HIDE DEF Solves
  <2> QED BY <2>4
<1>4. Solves(H)
  <2> HIDE DEF Solves
  <2> QED BY <1>3
<1>5. Among(S, s) = H[N] BY DEF Among
<1>6. \A k \in 0..N : H[k] = IF k = 0 THEN <<>>
                            ELSE IF s[k] \in S THEN Append(H[k - 1], s[k]) ELSE H[k - 1]
  <2>1. Solves(H) => \A k \in 0..N : H[k] = IF k = 0 THEN <<>>
                            ELSE IF s[k] \in S THEN Append(H[k - 1], s[k]) ELSE H[k - 1]
    <3> HIDE DEF H
    <3> QED OBVIOUS
  <2> HIDE DEF Solves, H
  <2> QED BY <2>1, <1>4
<1> HIDE DEF H, Solves, G
<1> DEFINE T == {k \in 0..N : H[k] \in V /\ Len(H[k]) <= k}
<1>7. T \in SUBSET (0..N) /\ 0 \in T
  <2>1. 0 \in 0..N BY <1>0
  <2>2. H[0] = <<>> BY <2>1, <1>6
  <2>3. Len(<<>>) <= 0 OBVIOUS
  <2> QED BY <2>1, <2>2, <2>3, <1>2
<1>8. ASSUME NEW k \in 0..(N - 1), k \in T PROVE k + 1 \in T
  <2>1. k + 1 \in 0..N /\ k + 1 # 0 /\ (k + 1) - 1 = k /\ s[k + 1] \in X BY <1>0
  <2>2. H[k + 1] = IF s[k + 1] \in S THEN Append(H[k], s[k + 1]) ELSE H[k] BY <2>1, <1>6
  <2>3. H[k] \in V /\ Len(H[k]) <= k BY <1>8
  <2>4. CASE s[k + 1] \in S
    <3>1. s[k + 1] \in S \cap X BY <2>1, <2>4
    <3>2. H[k + 1] = Append(H[k], s[k + 1]) BY <2>2, <2>4
    <3>3. H[k + 1] \in V /\ Len(H[k + 1]) = Len(H[k]) + 1 BY <3>1, <3>2, <2>3
    <3>4. Len(H[k]) \in Nat BY <2>3
    <3> QED BY <3>3, <3>4, <2>1, <2>3
  <2>5. CASE s[k + 1] \notin S
    <3>1. H[k + 1] = H[k] BY <2>2, <2>5
    <3>2. Len(H[k]) \in Nat BY <2>3
    <3> QED BY <3>1, <3>2, <2>1, <2>3
  <2> QED BY <2>4, <2>5
<1> HIDE DEF T
<1>9. T = 0..N BY <1>0, <1>7, <1>8, PrefixInduction
<1>10. N \in T BY <1>9, <1>0
<1> QED BY <1>5, <1>10 DEF T

-----------------------------------------------------------------------------
(* Datings: their types and their order.                                    *)

InOrder(iv) == iv \in Dated /\ ~Backwards(iv)

LEMMA IntervalOrder ==
    ASSUME NEW a \in Int, NEW b \in Int, a <= b
    PROVE  InOrder(Interval(a, b))
BY NoneAssumption DEF InOrder, Interval, Dated, Backwards, Bounds

LEMMA UndatedOrder == InOrder(Undated)
BY DEF InOrder, Undated, Interval, Dated, Backwards, Bounds

LEMMA ShortYear ==
    ASSUME NEW a \in Int, NEW b \in Nat
    PROVE  ExpandShortYear(a, b) \in Int /\ a <= ExpandShortYear(a, b)
<1> DEFINE q == a \div 100
<1>1. q \in Int /\ q * 100 <= a /\ a < q * 100 + 100 OBVIOUS
<1> HIDE DEF q
<1>2. ExpandShortYear(a, b) = LET c == q * 100 + b IN IF c < a THEN c + 100 ELSE c
  BY DEF ExpandShortYear, q
<1> QED BY <1>1, <1>2

ReadText(t) ==
    /\ RegexMatches(t) => t.y1 \in Nat
    /\ t.form \in {"interval", "short interval", "bracketed", "parenthesized"} => t.y2 \in Nat

LEMMA RangeOrder ==
    ASSUME NEW t, ReadText(t)
    PROVE  /\ ParsedRange(t) \in Dated
           /\ t.form # "interval" => InOrder(ParsedRange(t))
           /\ ~RegexMatches(t) => ParsedRange(t) = Undated
<1>1. CASE t.form = "interval"
  <2>1. ParsedRange(t) = Interval(t.y1, t.y2) BY <1>1 DEF ParsedRange
  <2>2. t.y1 \in Nat /\ t.y2 \in Nat BY <1>1 DEF ReadText, RegexMatches
  <2> QED BY <1>1, <2>1, <2>2 DEF Interval, Dated, RegexMatches
<1>2. CASE t.form = "short interval"
  <2>1. ParsedRange(t) = Interval(t.y1, ExpandShortYear(t.y1, t.y2)) BY <1>2 DEF ParsedRange
  <2>2. t.y1 \in Nat /\ t.y2 \in Nat BY <1>2 DEF ReadText, RegexMatches
  <2> DEFINE a == t.y1
             b == ExpandShortYear(t.y1, t.y2)
  <2>3. a \in Int /\ b \in Int /\ a <= b
    <3>1. \A p \in Int, q \in Nat : ExpandShortYear(p, q) \in Int /\ p <= ExpandShortYear(p, q)
      BY ShortYear
    <3>2. t.y1 \in Int BY <2>2
    <3> QED BY <3>1, <3>2, <2>2
  <2> HIDE DEF a, b
  <2>4. InOrder(Interval(a, b)) BY <2>3, IntervalOrder
  <2>5. InOrder(ParsedRange(t)) BY <2>4, <2>1 DEF a, b
  <2> QED BY <1>2, <2>5 DEF InOrder, RegexMatches
<1>3. CASE t.form \in {"year", "dated", "uncertain", "two digits"}
  <2>1. ParsedRange(t) = Interval(t.y1, t.y1) BY <1>3 DEF ParsedRange
  <2>2. t.y1 \in Nat BY <1>3 DEF ReadText, RegexMatches
  <2>3. InOrder(ParsedRange(t)) BY <2>1, <2>2, IntervalOrder
  <2> QED BY <1>3, <2>3 DEF InOrder, RegexMatches
<1>4. CASE t.form \in {"bracketed", "parenthesized"}
  <2>1. ParsedRange(t) = Interval(100 * t.y1 + t.y2, 100 * t.y1 + t.y2)
    BY <1>4 DEF ParsedRange
  <2>2. t.y1 \in Nat /\ t.y2 \in Nat BY <1>4 DEF ReadText, RegexMatches
  <2>3. InOrder(ParsedRange(t)) BY <2>1, <2>2, IntervalOrder
  <2> QED BY <1>4, <2>3 DEF InOrder, RegexMatches
<1>5. CASE t.form = "century"
  <2>1. ParsedRange(t) = Interval((t.y1 - 1) * 100, (t.y1 - 1) * 100 + 100)
    BY <1>5 DEF ParsedRange, CenturyStart
  <2>2. t.y1 \in Nat BY <1>5 DEF ReadText, RegexMatches
  <2>3. InOrder(ParsedRange(t)) BY <2>1, <2>2, IntervalOrder
  <2> QED BY <1>5, <2>3 DEF InOrder, RegexMatches
<1>6. CASE t.form = "about"
  <2>1. ParsedRange(t) = Interval(t.y1 - 5, t.y1 + 5) BY <1>6 DEF ParsedRange
  <2>2. t.y1 \in Nat BY <1>6 DEF ReadText, RegexMatches
  <2>3. InOrder(ParsedRange(t)) BY <2>1, <2>2, IntervalOrder
  <2> QED BY <1>6, <2>3 DEF InOrder, RegexMatches
<1>7. CASE t.form \notin {"interval", "short interval", "year", "dated", "uncertain",
                         "two digits", "bracketed", "parenthesized", "century", "about"}
  <2>1. ParsedRange(t) = Undated BY <1>7 DEF ParsedRange
  <2> QED BY <2>1, UndatedOrder DEF InOrder
<1> QED BY <1>1, <1>2, <1>3, <1>4, <1>5, <1>6, <1>7

LEMMA RegexOrder ==
    ASSUME NEW t, ReadText(t), NEW birth \in Int \cup {None}
    PROVE  /\ RegexDating(t, birth) \in Dated
           /\ Backwards(RegexDating(t, birth)) => t.form = "interval"
<1> DEFINE iv == ParsedRange(t)
           short == RegexMatches(t) /\ iv.start = iv.end /\ iv.start \in 0..99
<1>1. iv \in Dated /\ (t.form # "interval" => InOrder(iv)) BY RangeOrder
<1>2. CASE ~short
  <2>1. RegexDating(t, birth) = iv BY <1>2 DEF RegexDating
  <2> HIDE DEF iv
  <2> QED BY <2>1, <1>1 DEF InOrder
<1>3. CASE short /\ birth = None
  <2>1. RegexDating(t, birth) = Undated BY <1>3 DEF RegexDating
  <2> QED BY <2>1, UndatedOrder DEF InOrder
<1>4. CASE short /\ birth # None
  <2> DEFINE y == ExpandShortYear(birth, iv.start)
  <2>1. RegexDating(t, birth) = Interval(y, y) BY <1>4 DEF RegexDating
  <2>2. y \in Int
    <3> DEFINE s == iv.start
    <3>1. birth \in Int /\ s \in Nat BY <1>4
    <3> HIDE DEF s
    <3>2. ExpandShortYear(birth, s) \in Int BY <3>1, ShortYear
    <3> USE DEF s
    <3> QED BY <3>2
  <2>3. y <= y BY <2>2
  <2> HIDE DEF y
  <2>4. InOrder(Interval(y, y)) BY <2>2, <2>3, IntervalOrder
  <2> QED BY <2>1, <2>4 DEF InOrder
<1> QED BY <1>2, <1>3, <1>4
\* A mention of the years of which nothing is known to be odd.
ReadMention(m) == N1(m) \in Int \cup {None} /\ N2(m) \in Int \cup {None}

LEMMA CappedFacts == \A y \in Int : Capped(y) \in Int /\ Capped(y) <= y
BY DEF Capped, CurrentYear

LEMMA PartTypes ==
    /\ \A sub \in DOMAIN CenturyParts : CenturyParts[sub][1] \in Int /\ CenturyParts[sub][2] \in Int
    /\ \A sub \in DOMAIN DecadeParts : DecadeParts[sub][1] \in Int /\ DecadeParts[sub][2] \in Int
BY DEF CenturyParts, DecadeParts

LEMMA PartType ==
    ASSUME NEW parts \in {CenturyParts, DecadeParts}, NEW base \in Int, NEW sub
    PROVE  PartOf(parts, base, sub) \in Dated
<1>1. CASE sub \in DOMAIN parts
  <2>1. parts[sub][1] \in Int /\ parts[sub][2] \in Int BY <1>1, PartTypes
  <2>2. base + parts[sub][1] \in Int /\ Capped(base + parts[sub][2]) \in Int
    BY <2>1, CappedFacts
  <2> QED BY <1>1, <2>2 DEF PartOf, Interval, Dated
<1>2. CASE sub \notin DOMAIN parts
  BY <1>2, UndatedOrder DEF PartOf, InOrder
<1> QED BY <1>1, <1>2

LEMMA UndatedType == Undated \in Dated
BY DEF Undated, Interval, Dated

LEMMA DecadeType ==
    ASSUME NEW n \in Int \cup {None}, NEW sub
    PROVE  DecadeBounds(n, sub) \in Dated
<1>1. CASE n = None BY <1>1, UndatedType DEF DecadeBounds
<1>2. CASE n # None
  <2>1. n \in Int BY <1>2
  <2>2. PartOf(DecadeParts, n, sub) \in Dated BY <2>1, PartType
  <2> QED BY <1>2, <2>2 DEF DecadeBounds
<1> QED BY <1>1, <1>2

LEMMA CenturyType ==
    ASSUME NEW n \in Int \cup {None}, NEW sub
    PROVE  CenturyOrDecade(n, sub) \in Dated
<1>1. CASE n = None BY <1>1, UndatedType DEF CenturyOrDecade
<1>2. CASE n # None /\ n >= 100 BY <1>2, DecadeType DEF CenturyOrDecade
<1>3. CASE n # None /\ ~(n >= 100)
  <2>1. CenturyStart(n) \in Int BY <1>3 DEF CenturyStart
  <2>2. PartOf(CenturyParts, CenturyStart(n), sub) \in Dated BY <2>1, PartType
  <2> QED BY <1>3, <2>2 DEF CenturyOrDecade
<1> QED BY <1>1, <1>2, <1>3

LEMMA FragmentType ==
    ASSUME NEW digits \in Int \cup {None}, NEW birth \in Int \cup {None}
    PROVE  Fragment(digits, birth) \in Dated
<1>1. CASE digits = None \/ birth = None BY <1>1, UndatedType DEF Fragment
<1>2. CASE ~(digits = None \/ birth = None)
  <2> DEFINE d == IF digits < 0 THEN -digits ELSE digits
             modulus == IF d < 100 THEN 100 ELSE IF d < 1000 THEN 1000 ELSE 10000
             candidate == (birth \div modulus) * modulus + d
             year == IF candidate < birth THEN candidate + modulus ELSE candidate
  <2>1. digits \in Int /\ birth \in Int BY <1>2
  <2>2. d \in Int BY <2>1
  <2>3. modulus \in {100, 1000, 10000} OBVIOUS
  <2> HIDE DEF d, modulus
  <2>4. \A m \in {100, 1000, 10000} : (birth \div m) * m \in Int BY <2>1
  <2>5. candidate \in Int BY <2>2, <2>3, <2>4
  <2>6. modulus \in Int BY <2>3
  <2> HIDE DEF candidate
  <2>7. year \in Int BY <2>5, <2>6
  <2>8. Fragment(digits, birth) = Interval(year, year)
    BY <1>2 DEF Fragment, year, candidate, modulus, d
  <2> HIDE DEF year
  <2> QED BY <2>7, <2>8 DEF Interval, Dated
<1> QED BY <1>1, <1>2

LEMMA SpanType ==
    ASSUME NEW from \in Dated, NEW to \in Dated
    PROVE  Span(from, to) \in Dated
BY UndatedType DEF Span, Bounds, Interval, Dated

LEMMA MentionType ==
    ASSUME NEW m, ReadMention(m), NEW birth \in Int \cup {None}
    PROVE  MentionYears(m, birth) \in Dated
<1> DEFINE a == N1(m)
           b == N2(m)
           y == MentionYears(m, birth)
<1>1. a \in Int \cup {None} /\ b \in Int \cup {None} BY DEF ReadMention
<1>2. Slack(m) \in Int BY DEF Slack
<1>3. CASE m.kind = "year"
  <2>1. y = IF a = None THEN Undated
            ELSE IF a \in 100..CurrentYear THEN Interval(a - Slack(m), a + Slack(m)) ELSE Undated
    BY <1>3 DEF MentionYears
  <2> HIDE DEF a
  <2> QED BY <1>1, <1>2, <2>1, UndatedType DEF Interval, Dated
<1>4. CASE m.kind = "fragment"
  <2>1. y = Fragment(a, birth) BY <1>4 DEF MentionYears
  <2> HIDE DEF a
  <2> QED BY <2>1, <1>1, FragmentType
<1>5. CASE m.kind = "century"
  <2>1. y = CenturyOrDecade(a, Sub(m)) BY <1>5 DEF MentionYears
  <2> HIDE DEF a
  <2> QED BY <2>1, <1>1, CenturyType
<1>6. CASE m.kind = "century_span"
  <2>1. y = Span(CenturyOrDecade(a, Sub(m)), CenturyOrDecade(b, Sub2(m)))
    BY <1>6 DEF MentionYears
  <2> HIDE DEF a, b
  <2>2. CenturyOrDecade(a, Sub(m)) \in Dated /\ CenturyOrDecade(b, Sub2(m)) \in Dated
    BY <1>1, CenturyType
  <2> QED BY <2>1, <2>2, SpanType
<1>7. CASE m.kind = "decade"
  <2>1. y = DecadeBounds(a, Sub(m)) BY <1>7 DEF MentionYears
  <2> HIDE DEF a
  <2> QED BY <2>1, <1>1, DecadeType
<1>8. CASE m.kind = "decade_span"
  <2>1. y = Span(DecadeBounds(a, Sub(m)), DecadeBounds(b, Sub2(m))) BY <1>8 DEF MentionYears
  <2> HIDE DEF a, b
  <2>2. DecadeBounds(a, Sub(m)) \in Dated /\ DecadeBounds(b, Sub2(m)) \in Dated
    BY <1>1, DecadeType
  <2> QED BY <2>1, <2>2, SpanType
<1>9. CASE m.kind = "range"
  <2>1. y = IF None \in {a, b} THEN IF Slack(m) > 0 THEN Undated ELSE Interval(a, b)
            ELSE Interval(a - Slack(m), b + Slack(m))
    BY <1>9 DEF MentionYears
  <2> HIDE DEF a, b
  <2> QED BY <1>1, <1>2, <2>1, UndatedType DEF Interval, Dated
<1>10. CASE m.kind = "open_after"
  <2>1. y = Interval(a, None) BY <1>10 DEF MentionYears
  <2> HIDE DEF a
  <2> QED BY <2>1, <1>1 DEF Interval, Dated
<1>11. CASE m.kind = "open_before"
  <2>1. y = Interval(None, a) BY <1>11 DEF MentionYears
  <2> HIDE DEF a
  <2> QED BY <2>1, <1>1 DEF Interval, Dated
<1>12. CASE m.kind \notin {"year", "fragment", "century", "century_span", "decade",
                          "decade_span", "range", "open_after", "open_before"}
  <2>1. y = Undated BY <1>12 DEF MentionYears
  <2> QED BY <2>1, UndatedType
<1> QED
  BY <1>3, <1>4, <1>5, <1>6, <1>7, <1>8, <1>9, <1>10, <1>11, <1>12

LEMMA ResolvedOrder ==
    ASSUME NEW m, ReadMention(m), NEW birth \in Int \cup {None}
    PROVE  InOrder(ResolveMention(m, birth))
<1> DEFINE iv == MentionYears(m, birth)
<1>1. iv \in Dated BY MentionType
<1> HIDE DEF iv
<1>2. CASE Backwards(iv)
  BY <1>2, UndatedOrder DEF ResolveMention, iv
<1>3. CASE ~Backwards(iv)
  <2>1. ResolveMention(m, birth) = Truncated(m, iv) BY <1>3 DEF ResolveMention, iv
  <2>2. Truncated(m, iv) \in Dated BY <1>1 DEF Truncated, Dated
  <2>3. ~Backwards(Truncated(m, iv)) BY <1>1, <1>3 DEF Truncated, Backwards, Bounds, Dated
  <2> QED BY <2>1, <2>2, <2>3 DEF InOrder
<1> QED BY <1>2, <1>3

\* The hull of intervals in order is in order.
LEMMA HullOrder ==
    ASSUME NEW ivs, IsFiniteSet(ivs), \A iv \in ivs : InOrder(iv)
    PROVE  InOrder(CombineIntervals(ivs))
<1> DEFINE starts == {iv.start : iv \in ivs}
           ends == {iv.end : iv \in ivs}
           lo == IF None \in starts THEN None ELSE Least(starts)
           hi == IF None \in ends THEN None ELSE Greatest(ends)
<1>1. CASE ivs = {}
  BY <1>1, UndatedOrder DEF CombineIntervals
<1>2. CASE ivs # {}
  <2>0. CombineIntervals(ivs) = [start |-> lo, end |-> hi] BY <1>2 DEF CombineIntervals
  <2>1. PICK v \in ivs : TRUE BY <1>2
  <2>2. \A iv \in ivs : iv.start \in Int \cup {None} /\ iv.end \in Int \cup {None}
    BY DEF InOrder, Dated
  <2>3. IsFiniteSet(starts) /\ IsFiniteSet(ends)
    <3> DEFINE f == [iv \in ivs |-> iv.start]
               g == [iv \in ivs |-> iv.end]
    <3>1. f \in [ivs -> starts] /\ g \in [ivs -> ends] OBVIOUS
    <3>2. starts = Values(f, ivs) /\ ends = Values(g, ivs) BY DEF Values
    <3> HIDE DEF starts, ends, f, g
    <3> QED BY <3>1, <3>2, ValuesFinite
  <2>4. v.start \in starts /\ v.end \in ends /\ starts \subseteq Int \cup {None}
        /\ ends \subseteq Int \cup {None}
    BY <2>1, <2>2
  <2> HIDE DEF starts, ends
  <2>5. None \notin starts => lo \in Int /\ lo <= v.start
    <3> SUFFICES ASSUME None \notin starts PROVE lo \in Int /\ lo <= v.start OBVIOUS
    <3>1. starts \in SUBSET Int /\ starts # {} BY <2>4
    <3>2. Least(starts) \in starts /\ \A y \in starts : Least(starts) <= y
      BY <3>1, <2>3, LeastOfFinite
    <3> QED BY <3>1, <3>2, <2>4
  <2>6. None \notin ends => hi \in Int /\ v.end <= hi
    <3> SUFFICES ASSUME None \notin ends PROVE hi \in Int /\ v.end <= hi OBVIOUS
    <3>1. ends \in SUBSET Int /\ ends # {} BY <2>4
    <3>2. Greatest(ends) \in ends /\ \A y \in ends : Greatest(ends) >= y
      BY <3>1, <2>3, GreatestMember
    <3>3. Greatest(ends) >= v.end /\ v.end \in Int /\ Greatest(ends) \in Int
      BY <3>1, <3>2, <2>4
    <3> QED BY <3>3
  <2>7. lo \in Int \cup {None} /\ hi \in Int \cup {None} BY <2>5, <2>6
  <2>8. None \in {lo, hi} \/ lo <= hi
    <3> SUFFICES ASSUME lo # None, hi # None PROVE lo <= hi OBVIOUS
    <3>1. None \notin starts /\ None \notin ends OBVIOUS
    <3>2. lo \in Int /\ lo <= v.start /\ hi \in Int /\ v.end <= hi BY <3>1, <2>5, <2>6
    <3>3. v.start \in Int /\ v.end \in Int BY <3>1, <2>4
    <3>4. v.start <= v.end BY <3>3, NoneAssumption, <2>1 DEF InOrder, Backwards, Bounds
    <3> HIDE DEF lo, hi
    <3> QED BY <3>2, <3>3, <3>4
  <2> HIDE DEF lo, hi
  <2>9. [start |-> lo, end |-> hi] \in Dated BY <2>7 DEF Dated
  <2>10. ~Backwards([start |-> lo, end |-> hi]) BY <2>7, <2>8 DEF Backwards, Bounds
  <2> QED BY <2>0, <2>9, <2>10 DEF InOrder
<1> QED BY <1>1, <1>2

LEMMA DatingOrder ==
    ASSUME NEW mentions, IsFiniteSet(DOMAIN mentions),
           \A i \in DOMAIN mentions : ReadMention(mentions[i]), NEW birth \in Int \cup {None}
    PROVE  InOrder(ResolveDating(mentions, birth))
<1> DEFINE all == {ResolveMention(mentions[i], birth) : i \in DOMAIN mentions}
<1>1. IsFiniteSet(all)
  <2> DEFINE f == [i \in DOMAIN mentions |-> ResolveMention(mentions[i], birth)]
  <2>1. f \in [DOMAIN mentions -> all] OBVIOUS
  <2>2. all = Values(f, DOMAIN mentions) BY DEF Values
  <2> HIDE DEF all, f
  <2> QED BY <2>1, <2>2, ValuesFinite
<1>2. \A iv \in all : InOrder(iv) BY ResolvedOrder
<1> HIDE DEF all
<1>3. IsFiniteSet(all \ {Undated}) BY <1>1, FS_Subset
<1>4. InOrder(CombineIntervals(all \ {Undated})) BY <1>2, <1>3, HullOrder
<1> QED BY <1>4 DEF ResolveDating, all

LEMMA NothingRead == \A birth : ResolveDating(<<>>, birth) = Undated
<1>1. ASSUME NEW birth PROVE ResolveDating(<<>>, birth) = Undated
  <2>1. {ResolveMention(<<>>[i], birth) : i \in DOMAIN <<>>} \ {Undated} = {} OBVIOUS
  <2> QED BY <2>1 DEF ResolveDating, CombineIntervals
<1> QED BY <1>1
-----------------------------------------------------------------------------
(* The datings of a batch.                                                  *)

\* A lot is given what was read of its own text, or nothing.
LEMMA AnswerIsOwn ==
    ASSUME text \in Handoffs, NEW answers \in Answers, NEW l \in Unmatched
    PROVE  AnswerOf(l, answers) \in {<<>>, Reading[text[l].id]}
<1>1. PICK q \in Orders(Unmatched), poor \in {{}} \cup {{k} : k \in Unmatched} :
          answers = [i \in DOMAIN q |-> Answer(q[i], q[i] \notin poor)]
  BY DEF Answers
<1>2. IsFiniteSet(Unmatched) BY DatingAssumption, FS_Subset DEF Unmatched
<1>3. Cardinality(Unmatched) \in Nat BY <1>2, FS_CardinalityType
<1>4. PICK n \in 0..Cardinality(Unmatched) : q \in [1..n -> Unmatched] BY DEF Orders
<1>5. n \in Nat BY <1>3
<1> DEFINE X == {Answer(k, TRUE) : k \in Unmatched} \cup {Answer(k, FALSE) : k \in Unmatched}
           S == {a \in Range(answers) : a.dating = text[l].id}
           same == Among(S, answers)
           turn == 1 + Cardinality({m \in Unmatched : text[m].id = text[l].id /\ Before(m, l)})
<1>6. answers \in Seq(X)
  <2>0. ASSUME NEW i \in 1..n PROVE Answer(q[i], q[i] \notin poor) \in X
    <3>1. q[i] \in Unmatched BY <1>4
    <3>2. CASE q[i] \notin poor
      <4>1. Answer(q[i], q[i] \notin poor) = Answer(q[i], TRUE) BY <3>2 DEF Answer
      <4> QED BY <4>1, <3>1
    <3>3. CASE q[i] \in poor
      <4>1. Answer(q[i], q[i] \notin poor) = Answer(q[i], FALSE) BY <3>3 DEF Answer
      <4> QED BY <4>1, <3>1
    <3> QED BY <3>2, <3>3
  <2>1. answers \in [1..n -> X]
    <3> HIDE DEF X
    <3> QED BY <1>1, <1>4, <2>0
  <2> HIDE DEF X
  <2> QED BY <2>1, <1>5
<1>7. AnswerOf(l, answers) = IF turn \in DOMAIN same THEN same[turn].mentions ELSE <<>>
  BY DEF AnswerOf
<1>8. CASE turn \in DOMAIN same
  <2>1. same \in Seq(S \cap X)
    <3> HIDE DEF S, X
    <3> QED BY <1>6, AmongFacts
  <2>2. same[turn] \in S \cap X
    <3> HIDE DEF S, X, same, turn
    <3> QED BY <2>1, <1>8
  <2> HIDE DEF same, turn
  <2>3. PICK k \in Unmatched : same[turn] \in {Answer(k, TRUE), Answer(k, FALSE)} BY <2>2
  <2>4. same[turn].dating = text[l].id BY <2>2
  <2>5. same[turn].dating = text[k].id /\ same[turn].mentions \in {<<>>, Reading[text[k].id]}
    BY <2>3 DEF Answer
  <2> QED BY <2>4, <2>5, <1>7, <1>8
<1>9. CASE turn \notin DOMAIN same
  <2> HIDE DEF turn, same
  <2> QED BY <1>7, <1>9
<1> QED BY <1>8, <1>9

OwnDates ==
    \A l \in Lots :
        /\ span[l] \in {Undated, IF l \in Unmatched
                                 THEN ResolveDating(Reading[text[l].id], Birth[l])
                                 ELSE RegexDating(text[l], Birth[l])}
        /\ Backwards(span[l]) => text[l].form = "interval"

Consumed == \A l \in Lots : text[l] = None

DatesInv ==
    /\ run \in {"normalising", "asking", "off", "scoring", "failed", "done"}
    /\ DOMAIN span = Lots /\ \A l \in Lots : span[l] \in Dated
    /\ run \in {"normalising", "asking"} => text \in Handoffs
    /\ run = "asking" => \A l \in Lots : span[l] = RegexDating(text[l], Birth[l])
    /\ run = "off" => (text \in Handoffs /\ OwnDates) \/ Consumed
    /\ run \in {"scoring", "failed", "done"} => Consumed

LEMMA TextsRead ==
    ASSUME text \in Handoffs, NEW l \in Lots
    PROVE  /\ ReadText(text[l]) /\ Birth[l] \in Int \cup {None}
           /\ l \in Unmatched => text[l].id \in DOMAIN Reading
BY DatingAssumption DEF ReadText, Unmatched

LEMMA DatesInit == ScoringInit => DatesInv
<1> SUFFICES ASSUME ScoringInit PROVE DatesInv OBVIOUS
<1>1. run = "normalising" /\ text \in Handoffs /\ span = [l \in Lots |-> Undated]
  BY DEF ScoringInit
<1> QED BY <1>1, UndatedType DEF DatesInv

LEMMA DatesFrame ==
    ASSUME DatesInv, UNCHANGED <<span, text>>,
           run' \in {"normalising", "asking", "off", "scoring", "failed", "done"},
           run' \in {"normalising", "asking"} => run' = run,
           run' \in {"scoring", "failed", "done"} => run \in {"scoring", "failed", "done"},
           run' = "off" => run \in {"off", "scoring", "failed", "done"}
    PROVE  DatesInv'
<1>1. Unmatched' = Unmatched /\ (OwnDates <=> OwnDates') /\ (Consumed <=> Consumed')
  BY DEF Unmatched, OwnDates, Consumed
<1> QED BY <1>1 DEF DatesInv

LEMMA DatesRegex ==
    ASSUME DatesInv, NormalizeWithRegex
    PROVE  DatesInv'
<1>1. text \in Handoffs /\ text' = text /\ run' = "asking"
      /\ span' = [l \in Lots |-> RegexDating(text[l], Birth[l])]
  BY DEF DatesInv, NormalizeWithRegex
<1>2. \A l \in Lots : RegexDating(text[l], Birth[l]) \in Dated BY <1>1, TextsRead, RegexOrder
<1> QED BY <1>1, <1>2 DEF DatesInv

LEMMA DatesModel ==
    ASSUME DatesInv, NormalizeWithModel
    PROVE  DatesInv'
<1>1. text \in Handoffs /\ text' = text /\ run' = "off"
      /\ \A l \in Lots : span[l] = RegexDating(text[l], Birth[l])
  BY DEF DatesInv, NormalizeWithModel
<1>2. PICK answers \in Answers :
        span' = [l \in Lots |-> IF l \in Unmatched
                                THEN ResolveDating(AnswerOf(l, answers), Birth[l])
                                ELSE span[l]]
  BY DEF NormalizeWithModel
<1>3. Unmatched' = Unmatched BY <1>1 DEF Unmatched
<1>4. ASSUME NEW l \in Lots
      PROVE  /\ span'[l] \in Dated
             /\ span'[l] \in {Undated, IF l \in Unmatched
                                       THEN ResolveDating(Reading[text[l].id], Birth[l])
                                       ELSE RegexDating(text[l], Birth[l])}
             /\ Backwards(span'[l]) => text[l].form = "interval"
  <2>1. CASE l \in Unmatched
    <3> DEFINE m == AnswerOf(l, answers)
               r == Reading[text[l].id]
    <3>1. span'[l] = ResolveDating(m, Birth[l]) BY <1>2, <2>1
    <3>2. m \in {<<>>, r} BY <1>1, <2>1, AnswerIsOwn
    <3>3. text[l].id \in DOMAIN Reading /\ Birth[l] \in Int \cup {None}
      BY <1>1, <2>1, TextsRead
    <3>4. IsFiniteSet(DOMAIN r) /\ \A i \in DOMAIN r : ReadMention(r[i])
      BY <3>3, DatingAssumption DEF ReadMention
    <3>5. InOrder(ResolveDating(r, Birth[l])) BY <3>3, <3>4, DatingOrder
    <3> HIDE DEF m, r
    <3>6. span'[l] \in {Undated, ResolveDating(r, Birth[l])} BY <3>1, <3>2, NothingRead
    <3>7. InOrder(span'[l]) BY <3>5, <3>6, UndatedOrder
    <3> QED BY <3>6, <3>7, <2>1 DEF InOrder, r
  <2>2. CASE l \notin Unmatched
    <3>1. span'[l] = RegexDating(text[l], Birth[l]) BY <1>1, <1>2, <2>2
    <3>2. ReadText(text[l]) /\ Birth[l] \in Int \cup {None} BY <1>1, TextsRead
    <3>3. RegexDating(text[l], Birth[l]) \in Dated
          /\ (Backwards(RegexDating(text[l], Birth[l])) => text[l].form = "interval")
      BY <3>2, RegexOrder
    <3> QED BY <3>1, <3>3, <2>2
  <2> QED BY <2>1, <2>2
<1>5. OwnDates' BY <1>1, <1>3, <1>4 DEF OwnDates
<1>6. DOMAIN span' = Lots BY <1>2
<1> QED BY <1>1, <1>4, <1>5, <1>6 DEF DatesInv

LEMMA StepsKeepHandoff ==
    ASSUME NEW w \in Workers, Step(w)
    PROVE  UNCHANGED <<span, text, run>>
BY DEF Step, Take, StartPair, LotReady, AskArtist, Unseen, Rebuild, Rebuilt, ArtistsJudged,
       LockArtists, LoadArtists, RaiseArtists, IndexArtists, FreeArtists, JudgeTitle,
       LockTitles, CountTitles, TotalTitles, FreeTitles, JudgeDating, QueryDatings, OpenFile, Dump,
       StageKept, handoff

LEMMA DatesNext ==
    ASSUME DatesInv, [ScoringNext]_scoringVars
    PROVE  DatesInv'
<1>0. run \in {"normalising", "asking", "off", "scoring", "failed", "done"} BY DEF DatesInv
<1>1. CASE NormalizeWithRegex BY <1>1, DatesRegex
<1>2. CASE NormalizeWithModel BY <1>2, DatesModel
<1>3. CASE StartRun
  <2>1. run' = "scoring" /\ text' = [l \in Lots |-> None] /\ span' = span
    BY <1>3 DEF StartRun
  <2> QED BY <2>1 DEF DatesInv, Consumed
<1>4. CASE Finish
  <2>1. run = "scoring" /\ run' \in {"done", "failed"} /\ UNCHANGED <<span, text>>
    BY <1>4 DEF Finish, handoff
  <2> QED BY <2>1, DatesFrame
<1>5. CASE ExitStage
  <2>1. run = "failed" /\ run' = "off" /\ UNCHANGED <<span, text>>
    BY <1>5 DEF ExitStage, Forget, handoff
  <2> QED BY <2>1, DatesFrame
<1>6. CASE Kill
  <2>1. run = "scoring" /\ run' = "off" /\ UNCHANGED <<span, text>>
    BY <1>6 DEF Kill, Forget, handoff
  <2> QED BY <2>1, DatesFrame
<1>7. CASE ChangeRows
  <2>1. UNCHANGED <<span, text, run>> BY <1>7 DEF ChangeRows, handoff, process
  <2> QED BY <1>0, <2>1, DatesFrame
<1>8. CASE \E w \in Workers : Step(w)
  <2>1. UNCHANGED <<span, text, run>> BY <1>8, StepsKeepHandoff
  <2> QED BY <1>0, <2>1, DatesFrame
<1>9. CASE UNCHANGED scoringVars
  <2>1. UNCHANGED <<span, text, run>> BY <1>9 DEF scoringVars
  <2> QED BY <1>0, <2>1, DatesFrame
<1> QED BY <1>1, <1>2, <1>3, <1>4, <1>5, <1>6, <1>7, <1>8, <1>9 DEF ScoringNext

LEMMA DatesStated == DatesInv => DatesAreTheirOwn
BY DEF DatesInv, DatesAreTheirOwn, OwnDates, Consumed

\* DatesAreTheirOwn: no answer of the language model, in whatever order and however
\* incomplete, gives a lot the years of another one's text, and only a text that is an
\* interval with the later year first leaves years in that order.
THEOREM ScoringDatesAreTheirOwn == ScoringSpec => []DatesAreTheirOwn
<1>1. ScoringInit => DatesInv BY DatesInit
<1>2. DatesInv /\ [ScoringNext]_scoringVars => DatesInv' BY DatesNext
<1>3. DatesInv => DatesAreTheirOwn BY DatesStated
<1> QED BY <1>1, <1>2, <1>3, PTL DEF ScoringSpec
-----------------------------------------------------------------------------
(* Rarities.                                                                *)

LEMMA CountRange ==
    ASSUME NEW c \in Catalogues, NEW S \in SUBSET (DOMAIN c)
    PROVE  IsFiniteSet(S) /\ Cardinality(S) \in 0..Len(c)
<1>1. c \in Seq(Range(c)) BY RowsAssumption DEF IsSeq
<1>2. Len(c) \in Nat /\ DOMAIN c = 1..Len(c) BY <1>1
<1>3. IsFiniteSet(1..Len(c)) /\ Cardinality(1..Len(c)) = Len(c)
  <2>1. 1 \in Int /\ Len(c) \in Int BY <1>2
  <2>2. Cardinality(1..Len(c)) = IF 1 > Len(c) THEN 0 ELSE Len(c) - 1 + 1
    BY <2>1, FS_Interval
  <2> QED BY <1>2, <2>1, <2>2, FS_Interval
<1>4. S \in SUBSET (1..Len(c)) BY <1>2
<1>5. IsFiniteSet(S) /\ Cardinality(S) <= Len(c) /\ Cardinality(S) \in Nat
  BY <1>3, <1>4, FS_Subset, FS_CardinalityType
<1> QED BY <1>2, <1>5

LEMMA RarityRange ==
    ASSUME NEW c \in Catalogues, NEW d \in Catalogues,
           NEW total \in 0..Len(c), NEW count \in 0..Len(d)
    PROVE  Rarity(total, count) \in 0..Unit
<1>1. CASE total <= 1 \/ count <= 1 BY <1>1 DEF Rarity, Unit
<1>2. CASE ~(total <= 1 \/ count <= 1)
  <2>1. total \in 2..Len(c) /\ count \in 2..Len(d) BY <1>2
  <2>2. LogShare(total, count) \in 0..Unit BY <2>1, LogAssumption
  <2> QED BY <1>2, <2>2 DEF Rarity
<1> QED BY <1>1, <1>2

\* What is counted less often is not less rare.
LEMMA RarityFalls ==
    ASSUME NEW c \in Catalogues, NEW d \in Catalogues, NEW total \in 0..Len(c),
           NEW count \in 0..Len(d), NEW fewer \in 0..Len(d), fewer <= count
    PROVE  Rarity(total, fewer) >= Rarity(total, count)
<1>0. Rarity(total, count) \in 0..Unit /\ Rarity(total, fewer) \in 0..Unit BY RarityRange
<1>1. CASE total <= 1 \/ fewer <= 1
  <2>1. Rarity(total, fewer) = Unit BY <1>1 DEF Rarity
  <2>2. \A x \in 0..Unit : Unit >= x BY DEF Unit
  <2> QED BY <1>0, <2>1, <2>2
<1>2. CASE ~(total <= 1 \/ fewer <= 1)
  <2>1. total \in 2..Len(c) /\ count \in 2..Len(d) /\ fewer \in 2..count BY <1>2
  <2>2. LogShare(total, fewer) >= LogShare(total, count) BY <2>1, LogAssumption
  <2>3. Rarity(total, fewer) = LogShare(total, fewer) BY <1>2 DEF Rarity
  <2>4. Rarity(total, count) = LogShare(total, count) BY <2>1, <1>2 DEF Rarity
  <2> QED BY <2>2, <2>3, <2>4
<1> QED BY <1>1, <1>2

\* The artists' index stands for one content of the table.
ArtistsWhole ==
    /\ artists.of \in Catalogues
    /\ artists.counts = ArtistCounts(artists.of)
    /\ artists.total = Cardinality(Documents(artists.of))

LEMMA CountOfName ==
    ASSUME NEW c, NEW m \in DOMAIN ArtistCounts(c)
    PROVE  ArtistCounts(c)[m] = Cardinality({i \in DOMAIN c : m.key \in Keys(c[i])})
BY DEF ArtistCounts

LEMMA NameRange ==
    ASSUME artists.of \in Catalogues, NEW n
    PROVE  NameRarity(n) \in 0..Unit
<1> DEFINE S == {i \in DOMAIN artists.of : n.key \in Keys(artists.of[i])}
           D == Documents(artists.of)
<1>1. S \in SUBSET (DOMAIN artists.of) /\ D \in SUBSET (DOMAIN artists.of) BY DEF Documents
<1>2. NameRarity(n) = Rarity(Cardinality(D), Cardinality(S)) BY DEF NameRarity
<1> HIDE DEF S, D
<1>3. Cardinality(S) \in 0..Len(artists.of) /\ Cardinality(D) \in 0..Len(artists.of)
  BY <1>1, CountRange
<1> QED BY <1>2, <1>3, RarityRange

\* A name that is found, under whichever spelling, is as rare as it is in the
\* rows the index was loaded from.
LEMMA NameIsExact ==
    ASSUME ArtistsWhole, artists.lookup \in {<<>>, LookupIndex(artists.counts)},
           NEW n, Spelling(n) # {}
    PROVE  CountedRarity(n) = NameRarity(n)
<1> DEFINE s == CHOOSE x \in Spelling(n) : TRUE
<1>1. s \in Spelling(n) OBVIOUS
<1> HIDE DEF s
<1>2. s \in DOMAIN artists.counts /\ s.key = n.key
  <2>1. CASE n \in DOMAIN artists.counts BY <1>1, <2>1 DEF Spelling
  <2>2. CASE n \notin DOMAIN artists.counts
    <3>1. n.key \in DOMAIN artists.lookup /\ s = artists.lookup[n.key]
      BY <1>1, <2>2 DEF Spelling
    <3>2. artists.lookup = LookupIndex(artists.counts) BY <3>1
    <3>3. n.key \in {m.key : m \in DOMAIN artists.counts}
          /\ s = CHOOSE m \in DOMAIN artists.counts : m.key = n.key
      BY <3>1, <3>2 DEF LookupIndex
    <3> QED BY <3>3
  <2> QED BY <2>1, <2>2
<1>3. artists.counts[s] = Cardinality({i \in DOMAIN artists.of : s.key \in Keys(artists.of[i])})
  BY <1>2, CountOfName DEF ArtistsWhole
<1>4. CountedRarity(n) = Rarity(artists.total, artists.counts[s]) BY DEF CountedRarity, s
<1>5. NameRarity(n) = Rarity(artists.total, artists.counts[s])
  BY <1>2, <1>3 DEF NameRarity, ArtistsWhole
<1> QED BY <1>4, <1>5

\* The titles are counted in one content of the table and numbered in another.
TitlesCounted ==
    /\ titles.of \in Catalogues
    /\ titles.counts = TitleCounts(titles.of)
TitlesWhole ==
    /\ TitlesCounted
    /\ titles.totalOf \in Catalogues
    /\ titles.total = Cardinality(Titled(titles.totalOf))

\* The rarest of the stored forms of a title is not more common than all of
\* them together.
LEMMA TitleIsRarer ==
    ASSUME TitlesWhole, NEW t
    PROVE  /\ TitleRarity(titles.counts, titles.total, t) \in 0..Unit
           /\ TrueTitleRarity(t) \in 0..Unit
           /\ TitleRarity(titles.counts, titles.total, t) >= TrueTitleRarity(t)
<1> DEFINE c == titles.of
           e == titles.totalOf
           T == Titled(e)
           A == Titled(c)
           Same == {i \in A : Spelled(c[i].title) = Spelled(t)}
           count(u) == Cardinality({i \in A : c[i].title = u})
           repeated == {u \in {c[i].title : i \in A} : count(u) > 1}
           forms(n) == {count(v) : v \in {u \in repeated : Spelled(u) = n}}
<1>0. c \in Catalogues /\ e \in Catalogues BY DEF TitlesWhole, TitlesCounted
<1>1. A \in SUBSET (DOMAIN c) /\ T \in SUBSET (DOMAIN e) BY DEF Titled
<1>2. Same \in SUBSET (DOMAIN c) /\ Same \subseteq A BY <1>1
<1>3. TrueTitleRarity(t) = Rarity(Cardinality(T), Cardinality(Same)) BY DEF TrueTitleRarity
<1>4. titles.counts = [n \in {Spelled(u) : u \in repeated} |-> Least(forms(n))]
  BY DEF TitlesWhole, TitlesCounted, TitleCounts
<1>5. titles.total = Cardinality(T) BY DEF TitlesWhole
<1>6. \A u : {i \in A : c[i].title = u} \in SUBSET (DOMAIN c) BY <1>1
<1>7. \A u : Spelled(u) = Spelled(t) => {i \in A : c[i].title = u} \subseteq Same OBVIOUS
<1> HIDE DEF c, e, T, A, Same
<1>8. Cardinality(T) \in 0..Len(e) /\ IsFiniteSet(Same) /\ Cardinality(Same) \in 0..Len(c)
  BY <1>0, <1>1, <1>2, CountRange
<1>9. TrueTitleRarity(t) \in 0..Unit BY <1>0, <1>3, <1>8, RarityRange
<1>10. CASE Spelled(t) \notin DOMAIN titles.counts
  <2>1. TitleRarity(titles.counts, titles.total, t) = Unit BY <1>10 DEF TitleRarity
  <2> QED BY <1>9, <2>1 DEF Unit
<1>11. CASE Spelled(t) \in DOMAIN titles.counts
  <2> DEFINE k == titles.counts[Spelled(t)]
             F == forms(Spelled(t))
  <2>1. TitleRarity(titles.counts, titles.total, t) = Rarity(Cardinality(T), k)
    BY <1>11, <1>5 DEF TitleRarity
  <2>2. k = Least(F) BY <1>4, <1>11
  <2>3. F # {}
    <3>1. Spelled(t) \in {Spelled(u) : u \in repeated} BY <1>4, <1>11
    <3> HIDE DEF repeated
    <3>2. PICK u \in repeated : Spelled(u) = Spelled(t) BY <3>1
    <3> HIDE DEF count
    <3>3. count(u) \in F BY <3>2
    <3> QED BY <3>3
  <2>4. ASSUME NEW x \in F PROVE x \in 0..Len(c) /\ x <= Cardinality(Same)
    <3>1. PICK u \in repeated : Spelled(u) = Spelled(t) /\ x = count(u) BY <2>4
    <3> DEFINE U == {i \in A : c[i].title = u}
    <3>2. U \in SUBSET (DOMAIN c) /\ U \subseteq Same /\ x = Cardinality(U)
      BY <3>1, <1>6, <1>7
    <3> HIDE DEF U
    <3>3. Cardinality(U) \in 0..Len(c) BY <1>0, <3>2, CountRange
    <3>4. Cardinality(U) <= Cardinality(Same) BY <1>8, <3>2, FS_Subset
    <3> QED BY <3>2, <3>3, <3>4
  <2> HIDE DEF F
  <2>5. F \in SUBSET Nat BY <2>4
  <2>6. \E x \in F : \A y \in F : x <= y BY <2>3, <2>5, LeastMember
  <2>7. k \in F BY <2>2, <2>6 DEF Least
  <2>8. k \in 0..Len(c) /\ k <= Cardinality(Same) BY <2>4, <2>7
  <2> HIDE DEF k
  <2>9. Rarity(Cardinality(T), k) \in 0..Unit BY <1>0, <1>8, <2>8, RarityRange
  <2>10. Rarity(Cardinality(T), k) >= Rarity(Cardinality(T), Cardinality(Same))
    BY <1>0, <1>8, <2>8, RarityFalls
  <2> QED BY <1>3, <1>9, <2>1, <2>9, <2>10
<1> QED BY <1>10, <1>11
-----------------------------------------------------------------------------
(* The weighted means.                                                      *)

LEMMA WeightFacts ==
    /\ Components = {"title", "artist", "dating", "dimensions", "material", "technique"}
    /\ IsFiniteSet(Components)
    /\ \A c \in Components : Weights[c] \in Nat \ {0}
<1>1. Components = {"title", "artist", "dating", "dimensions", "material", "technique"}
  BY DEF Components, Weights
<1>2. \A x : IsFiniteSet({x}) BY FS_Singleton
<1>3. \A A, B : IsFiniteSet(A) /\ IsFiniteSet(B) => IsFiniteSet(A \cup B) BY FS_Union
<1>4. Components = {"title"} \cup ({"artist"} \cup ({"dating"} \cup
                       ({"dimensions"} \cup ({"material"} \cup {"technique"}))))
  BY <1>1
<1>5. IsFiniteSet(Components)
  <2>1. IsFiniteSet({"material"} \cup {"technique"}) BY <1>2, <1>3
  <2>2. IsFiniteSet({"dimensions"} \cup ({"material"} \cup {"technique"})) BY <1>2, <1>3, <2>1
  <2>3. IsFiniteSet({"dating"} \cup ({"dimensions"} \cup ({"material"} \cup {"technique"})))
    BY <1>2, <1>3, <2>2
  <2>4. IsFiniteSet({"artist"} \cup ({"dating"} \cup
                       ({"dimensions"} \cup ({"material"} \cup {"technique"}))))
    BY <1>2, <1>3, <2>3
  <2> QED BY <1>2, <1>3, <1>4, <2>4
<1>6. \A c \in Components : Weights[c] \in Nat \ {0} BY DEF Components, Weights
<1> QED BY <1>1, <1>5, <1>6

\* The mean of what is known reaches the threshold when what is known agrees.
LEMMA FinalAgrees ==
    ASSUME NEW sims, \A c \in Components : sims[c] \in Int \cup {None}
    PROVE  FinalScore(sims) \in Int /\ (FinalScore(sims) >= Threshold <=> Agree(sims))
<1> DEFINE K == {c \in Components : sims[c] # None}
           f == [c \in K |-> Weights[c] * sims[c]]
           g == [c \in K |-> Weights[c]]
           d == [c \in K |-> Weights[c] * (sims[c] - Threshold)]
<1>1. IsFiniteSet(K) BY WeightFacts, FS_Subset
<1>2. CASE K = {}
  BY <1>2 DEF FinalScore, Agree, Threshold
<1>3. CASE K # {}
  <2>1. \A c \in K : Weights[c] \in Nat \ {0} /\ sims[c] \in Int BY WeightFacts
  <2>2. \A a, b \in Int : a * b \in Int /\ a * (b - Threshold) = a * b - Threshold * a
    BY DEF Threshold
  <2>3. f \in [K -> Int] /\ g \in [K -> Int]
    <3>1. \A c \in K : Weights[c] * sims[c] \in Int /\ Weights[c] \in Int BY <2>1, <2>2
    <3> HIDE DEF K
    <3> QED BY <3>1
  <2>4. \A c \in K : d[c] = f[c] - Threshold * g[c]
    <3>1. ASSUME NEW c \in K PROVE d[c] = f[c] - Threshold * g[c]
      <4>1. d[c] = Weights[c] * (sims[c] - Threshold) OBVIOUS
      <4>2. f[c] = Weights[c] * sims[c] /\ g[c] = Weights[c] OBVIOUS
      <4>3. Weights[c] \in Int /\ sims[c] \in Int BY <2>1
      <4> HIDE DEF d, f, g, K
      <4> QED BY <4>1, <4>2, <4>3, <2>2
    <3> QED BY <3>1
  <2>5. \A a, b \in Int : a - Threshold * b \in Int BY DEF Threshold
  <2>6. d \in [K -> Int]
    <3>1. DOMAIN d = K /\ d = [c \in K |-> d[c]] OBVIOUS
    <3>2. ASSUME NEW c \in K PROVE d[c] \in Int
      <4>1. f[c] \in Int /\ g[c] \in Int BY <2>3
      <4>2. d[c] = f[c] - Threshold * g[c] BY <2>4
      <4> HIDE DEF d, f, g
      <4> QED BY <4>1, <4>2, <2>5
    <3> HIDE DEF d
    <3> QED BY <3>1, <3>2
  <2>7. \A c \in K : g[c] > 0 BY <2>1
  <2>8. FinalScore(sims) = SumFunction(f) \div SumFunction(g) BY <1>3 DEF FinalScore
  <2>9. Agree(sims) <=> SumFunction(d) >= 0 BY <1>3 DEF Agree
  <2> HIDE DEF K, f, g, d
  <2>10. SumFunction(f) \in Int /\ SumFunction(g) \in Int BY <1>1, <2>3, SumType
  <2>11. SumFunction(g) > 0 BY <1>1, <1>3, <2>3, <2>7, SumPositive
  <2>12. SumFunction(d) = SumFunction(f) - Threshold * SumFunction(g)
    <3>1. Threshold \in Int BY DEF Threshold
    <3> QED BY <1>1, <2>3, <2>4, <2>6, <3>1, SumAbove
  <2> DEFINE a == SumFunction(f)
             b == SumFunction(g)
             q == a \div b
  <2>13. a \in Int /\ b \in Nat /\ b > 0 BY <2>10, <2>11
  <2> HIDE DEF a, b
  <2>14. q \in Int /\ b * q <= a /\ a < b * q + b BY <2>13
  <2> HIDE DEF q
  <2>15. q >= 70 => b * q >= b * 70 BY <2>13, <2>14
  <2>16. q < 70 => b * (q + 1) <= b * 70 BY <2>13, <2>14
  <2>17. b * (q + 1) = b * q + b /\ b * 70 = 70 * b /\ b * q \in Int BY <2>13, <2>14
  <2>18. q >= 70 <=> a - 70 * b >= 0 BY <2>13, <2>14, <2>15, <2>16, <2>17
  <2> QED BY <2>8, <2>9, <2>12, <2>14, <2>18 DEF Threshold, a, b, q
<1> QED BY <1>2, <1>3

\* A mean of what lies within 0..Unit lies within it.
LEMMA FinalShare ==
    ASSUME NEW sims, \A c \in Components : sims[c] \in Share \cup {None}
    PROVE  FinalScore(sims) \in Share
<1> DEFINE K == {c \in Components : sims[c] # None}
           f == [c \in K |-> Weights[c] * sims[c]]
           g == [c \in K |-> Weights[c]]
<1>1. IsFiniteSet(K) BY WeightFacts, FS_Subset
<1>2. CASE K = {} BY <1>2, ShareFacts DEF FinalScore
<1>3. CASE K # {}
  <2>1. \A c \in K : Weights[c] \in Nat \ {0} /\ sims[c] \in Int /\ 0 <= sims[c] /\ sims[c] <= Unit
    BY WeightFacts, ShareFacts
  <2>2. \A k \in Nat : \A a \in Int : /\ k * a \in Int
                                     /\ 0 <= a /\ a <= Unit => 0 <= k * a /\ k * a <= Unit * k
    BY DEF Unit
  <2>3. f \in [K -> Int] /\ g \in [K -> Int]
    <3>1. \A c \in K : Weights[c] * sims[c] \in Int /\ Weights[c] \in Int BY <2>1, <2>2
    <3> HIDE DEF K
    <3> QED BY <3>1
  <2>4. \A c \in K : 0 <= f[c] /\ f[c] <= Unit * g[c]
    <3>1. ASSUME NEW c \in K PROVE 0 <= f[c] /\ f[c] <= Unit * g[c]
      <4>1. f[c] = Weights[c] * sims[c] /\ g[c] = Weights[c] OBVIOUS
      <4>2. Weights[c] \in Nat /\ sims[c] \in Int /\ 0 <= sims[c] /\ sims[c] <= Unit BY <2>1
      <4> HIDE DEF f, g, K
      <4> QED BY <4>1, <4>2, <2>2
    <3> QED BY <3>1
  <2>5. \A c \in K : g[c] > 0 BY <2>1
  <2>6. FinalScore(sims) = SumFunction(f) \div SumFunction(g) BY <1>3 DEF FinalScore
  <2>7. Unit \in Nat BY DEF Unit
  <2> HIDE DEF K, f, g
  <2>8. /\ SumFunction(f) \in Int /\ SumFunction(g) \in Int /\ 0 <= SumFunction(f)
        /\ SumFunction(f) <= Unit * SumFunction(g)
    BY <1>1, <2>3, <2>4, <2>7, SumWithin
  <2>9. SumFunction(g) > 0 BY <1>1, <1>3, <2>3, <2>5, SumPositive
  <2>10. SumFunction(g) \in Nat \ {0} BY <2>8, <2>9
  <2> QED BY <2>6, <2>8, <2>10, QuotientShare
<1> QED BY <1>2, <1>3

LEMMA SumOfWeights ==
    LET g == [c \in Components |-> Weights[c]] IN SumFunction(g) = Unit
<1> DEFINE g == [c \in Components |-> Weights[c]]
           R1 == Components \ {"title"}
           R2 == R1 \ {"artist"}
           R3 == R2 \ {"dating"}
           R4 == R3 \ {"dimensions"}
           R5 == R4 \ {"material"}
           R6 == R5 \ {"technique"}
<1>1. g \in [Components -> Int] BY WeightFacts
<1>2. /\ g["title"] = 35 /\ g["artist"] = 25 /\ g["dating"] = 15
      /\ g["dimensions"] = 15 /\ g["material"] = 5 /\ g["technique"] = 5
  BY WeightFacts DEF Weights
<1>3. /\ "title" \in Components /\ "artist" \in R1 /\ "dating" \in R2
      /\ "dimensions" \in R3 /\ "material" \in R4 /\ "technique" \in R5 /\ R6 = {}
  BY WeightFacts
<1>4. /\ Components \in SUBSET Components /\ R1 \in SUBSET Components
      /\ R2 \in SUBSET Components /\ R3 \in SUBSET Components
      /\ R4 \in SUBSET Components /\ R5 \in SUBSET Components
  OBVIOUS
<1>4a. /\ R1 = Components \ {"title"} /\ R2 = R1 \ {"artist"} /\ R3 = R2 \ {"dating"}
       /\ R4 = R3 \ {"dimensions"} /\ R5 = R4 \ {"material"} /\ R6 = R5 \ {"technique"}
  OBVIOUS
<1>4b. IsFiniteSet(Components) BY WeightFacts
<1> HIDE DEF g, R1, R2, R3, R4, R5, R6
<1>5. PICK h : SumRun(g, Components, h) /\ SumFunction(g) = h[Components]
  BY <1>1, <1>4b, SumIsRun
<1>6. \A t \in SUBSET Components : \A x \in t : h[t] = g[x] + h[t \ {x}]
  <2>1. AnyFirst(g, Components, h) BY <1>1, <1>4b, <1>5, SumAny
  <2> QED BY <2>1 DEF AnyFirst
<1>7. h[Components] = 35 + h[R1] BY <1>2, <1>3, <1>4, <1>4a, <1>6
<1>8. h[R1] = 25 + h[R2] BY <1>2, <1>3, <1>4, <1>4a, <1>6
<1>9. h[R2] = 15 + h[R3] BY <1>2, <1>3, <1>4, <1>4a, <1>6
<1>10. h[R3] = 15 + h[R4] BY <1>2, <1>3, <1>4, <1>4a, <1>6
<1>11. h[R4] = 5 + h[R5] BY <1>2, <1>3, <1>4, <1>4a, <1>6
<1>12. h[R5] = 5 + h[R6] BY <1>2, <1>3, <1>4, <1>4a, <1>6
<1>13. h[R6] = 0 BY <1>3, <1>5 DEF SumRun
<1>14. h[Components] = 100 BY <1>7, <1>8, <1>9, <1>10, <1>11, <1>12, <1>13
<1> QED BY <1>5, <1>14 DEF g, Unit

LEMMA ConfidenceShare ==
    ASSUME NEW confs, \A c \in Components : confs[c] \in Share \cup {NaN}
    PROVE  IF \E c \in Components : confs[c] = NaN
           THEN ConfidenceScore(confs) = NaN ELSE ConfidenceScore(confs) \in Share
<1>1. CASE \E c \in Components : confs[c] = NaN BY <1>1 DEF ConfidenceScore
<1>2. CASE ~ \E c \in Components : confs[c] = NaN
  <2> DEFINE f == [c \in Components |-> Weights[c] * confs[c]]
             g == [c \in Components |-> Weights[c]]
  <2>1. ConfidenceScore(confs) = SumFunction(f) \div Unit BY <1>2 DEF ConfidenceScore
  <2>2. \A c \in Components : /\ Weights[c] \in Nat /\ confs[c] \in Int
                              /\ 0 <= confs[c] /\ confs[c] <= Unit
    BY <1>2, WeightFacts, ShareFacts
  <2>3. \A k \in Nat : \A a \in Int : /\ k * a \in Int
                                     /\ 0 <= a /\ a <= Unit => 0 <= k * a /\ k * a <= Unit * k
    BY DEF Unit
  <2>4. f \in [Components -> Int] /\ g \in [Components -> Int] BY <2>2, <2>3
  <2>5. \A c \in Components : 0 <= f[c] /\ f[c] <= Unit * g[c]
    <3>1. ASSUME NEW c \in Components PROVE 0 <= f[c] /\ f[c] <= Unit * g[c]
      <4>1. f[c] = Weights[c] * confs[c] /\ g[c] = Weights[c] OBVIOUS
      <4> HIDE DEF f, g
      <4> QED BY <4>1, <2>2, <2>3
    <3> QED BY <3>1
  <2>6. SumFunction(g) = Unit BY SumOfWeights
  <2>7. Unit \in Nat /\ Unit \in Nat \ {0} BY DEF Unit
  <2> HIDE DEF f, g
  <2>8. SumFunction(f) \in Int /\ 0 <= SumFunction(f) /\ SumFunction(f) <= Unit * SumFunction(g)
    BY <2>4, <2>5, <2>7, SumWithin, WeightFacts
  <2>9. SumFunction(f) \div Unit \in Share BY <2>6, <2>7, <2>8, QuotientShare
  <2> QED BY <1>2, <2>1, <2>9
<1> QED BY <1>1, <1>2

\* A confidence does not fall when none of its parts does.
LEMMA ConfidenceGrows ==
    ASSUME NEW less, NEW more,
           \A c \in Components : less[c] \in Int /\ more[c] \in Int /\
                                 (more[c] = NaN \/ less[c] <= more[c]),
           ConfidenceScore(less) >= ConfThreshold
    PROVE  \/ ConfidenceScore(more) = NaN
           \/ ConfidenceScore(more) \in Int /\ ConfidenceScore(more) >= ConfThreshold
<1>1. CASE \E c \in Components : more[c] = NaN BY <1>1 DEF ConfidenceScore
<1>2. CASE ~ \E c \in Components : more[c] = NaN
  <2> DEFINE f == [c \in Components |-> Weights[c] * less[c]]
             g == [c \in Components |-> Weights[c] * more[c]]
  <2>1. ConfidenceScore(more) = SumFunction(g) \div Unit BY <1>2 DEF ConfidenceScore
  <2>2. ConfidenceScore(less) = SumFunction(f) \div Unit
    BY DEF ConfidenceScore, NaN, ConfThreshold
  <2>3. \A c \in Components : Weights[c] \in Nat /\ less[c] \in Int /\ more[c] \in Int
                              /\ less[c] <= more[c]
    BY <1>2, WeightFacts
  <2>4. \A k \in Nat : \A a, b \in Int : /\ k * a \in Int /\ k * b \in Int
                                         /\ a <= b => k * a <= k * b
    OBVIOUS
  <2>5. f \in [Components -> Int] /\ g \in [Components -> Int] BY <2>3, <2>4
  <2>6. \A c \in Components : f[c] <= g[c] BY <2>3, <2>4
  <2> HIDE DEF f, g
  <2>7. SumFunction(f) \in Int /\ SumFunction(g) \in Int /\ SumFunction(f) <= SumFunction(g)
    BY <2>5, <2>6, WeightFacts, SumType, SumLe
  <2>8. SumFunction(f) \div Unit <= SumFunction(g) \div Unit
        /\ SumFunction(f) \div Unit \in Int /\ SumFunction(g) \div Unit \in Int
    BY <2>7, QuotientLe DEF Unit
  <2>9. SumFunction(f) \div Unit >= ConfThreshold BY <2>2
  <2> QED BY <2>1, <2>8, <2>9 DEF ConfThreshold
<1> QED BY <1>1, <1>2
-----------------------------------------------------------------------------
(* The similarities and confidences of two rows are numbers.                *)

Comparable(r) ==
    /\ r.span \in Dated
    /\ \E q \in AnyRows : /\ r.names = q.names /\ r.title = q.title
                          /\ r.materials = q.materials /\ r.techniques = q.techniques
                          /\ r.width = q.width /\ r.height = q.height

\* The names of a lost artwork and the one text of a lot's artist.
Attributed(r, q) ==
    /\ \E x \in LostRows : r.names = x.names
    /\ \E y \in Range(LotRows) : q.artist = y.artist

LEMMA LostComparable == \A r \in LostRows : Comparable(r)
BY RowsAssumption DEF Comparable, AnyRows

LEMMA LotComparable ==
    ASSUME NEW l \in Lots, span[l] \in Dated
    PROVE  Comparable(LotRow(l))
<1>1. LotRows[l] \in AnyRows BY RowsAssumption DEF AnyRows, Range
<1> QED BY <1>1 DEF Comparable, LotRow

LEMMA PositionsFinite ==
    ASSUME NEW s, IsSeq(s)
    PROVE  /\ Len(s) \in Nat /\ DOMAIN s = 1..Len(s) /\ IsFiniteSet(DOMAIN s)
           /\ s \in Seq(Range(s)) /\ (s # <<>> => Len(s) > 0)
<1>1. s \in Seq(Range(s)) BY DEF IsSeq
<1>2. Len(s) \in Nat /\ DOMAIN s = 1..Len(s) /\ (s # <<>> => Len(s) > 0) BY <1>1
<1>3. IsFiniteSet(1..Len(s)) BY <1>2, FS_Interval
<1> QED BY <1>1, <1>2, <1>3

LEMMA PairsFinite ==
    ASSUME NEW A, IsFiniteSet(A), NEW B, IsFiniteSet(B), NEW R, NEW f \in [A \X B -> R]
    PROVE  IsFiniteSet(Values(f, A \X B)) /\ Values(f, A \X B) \subseteq R
<1>1. IsFiniteSet(A \X B) BY FS_Product
<1>2. IsFiniteSet(Values(f, A \X B))
  <2> DEFINE C == A \X B
  <2>1. IsFiniteSet(C) /\ f \in [C -> R] BY <1>1
  <2> HIDE DEF C
  <2>2. IsFiniteSet(Values(f, C)) BY <2>1, ValuesFinite
  <2> QED BY <2>2 DEF C
<1> QED BY <1>2 DEF Values

LEMMA BestType ==
    ASSUME NEW S \in SUBSET (Share \cup {None}), IsFiniteSet(S)
    PROVE  BestOf(S) \in Share \cup {None}
<1>1. CASE S \ {None} = {} BY <1>1 DEF BestOf
<1>2. CASE S \ {None} # {}
  <2>1. S \ {None} \in SUBSET Int /\ IsFiniteSet(S \ {None}) BY FS_Subset, ShareFacts
  <2>2. Greatest(S \ {None}) \in S \ {None} BY <1>2, <2>1, GreatestMember
  <2> QED BY <1>2, <2>1, <2>2 DEF BestOf
<1> QED BY <1>1, <1>2

\* A path to the root is never empty, whatever the tree.
LEMMA PathLength ==
    ASSUME NEW tree, IsFiniteSet(DOMAIN tree), NEW name
    PROVE  Len(PathFrom(tree, name)) \in Nat \ {0}
<1> DEFINE U == {name} \cup {tree[x] : x \in DOMAIN tree}
           V == Seq(U) \ {<<>>}
           N == Cardinality(DOMAIN tree)
           End(p) == p[Len(p)]
           AtEnd(p) == \/ End(p) \notin DOMAIN tree
                       \/ tree[End(p)] = None
                       \/ Len(p) > 1 /\ End(p) = Unbekannt
                       \/ \E i \in 1..(Len(p) - 1) : p[i] = End(p)
           Go(p) == IF AtEnd(p) THEN p ELSE Append(p, tree[End(p)])
           s == [k \in 1..N |-> k]
           G == [x \in V \X (1..N) |-> Go(x[1])]
           Solves(h) == h = [k \in 0..N |->
                               IF k = 0 THEN <<name>>
                               ELSE IF AtEnd(h[k - 1]) THEN h[k - 1]
                               ELSE Append(h[k - 1], tree[End(h[k - 1])])]
           H == CHOOSE h : Solves(h)
<1>0. N \in Nat BY FS_CardinalityType
<1>1. <<name>> \in V
  <2>1. name \in U OBVIOUS
  <2> HIDE DEF U
  <2> QED BY <2>1
<1>2. ASSUME NEW p \in V PROVE Go(p) \in V
  <2>1. CASE AtEnd(p) BY <2>1
  <2>2. CASE ~AtEnd(p)
    <3>1. End(p) \in DOMAIN tree BY <2>2
    <3>2. tree[End(p)] \in U BY <3>1
    <3>3. Go(p) = Append(p, tree[End(p)]) BY <2>2
    <3> HIDE DEF U, Go, End, AtEnd
    <3>4. Append(p, tree[End(p)]) \in Seq(U) /\ Append(p, tree[End(p)]) # <<>> BY <3>2
    <3> QED BY <3>3, <3>4
  <2> QED BY <2>1, <2>2
<1>3. s \in Seq(1..N) /\ Len(s) = N /\ \A k \in 1..N : s[k] = k
  <2>1. s \in [1..N -> 1..N] OBVIOUS
  <2> QED BY <2>1, <1>0
<1> HIDE DEF N, s, V
<1>4. G \in [V \X (1..N) -> V]
  <2> HIDE DEF Go
  <2> QED BY <1>2
<1>5. \E h : Solves(h)
  <2>1. PICK F : FoldRun(V, <<name>>, G, s, F)
    <3> HIDE DEF G
    <3> QED BY <1>1, <1>3, <1>4, FoldChain
  <2>2. F \in [0..N -> V] /\ F[0] = <<name>> BY <2>1, <1>3 DEF FoldRun
  <2>3. ASSUME NEW k \in 0..N, k # 0
        PROVE  F[k] = IF AtEnd(F[k - 1]) THEN F[k - 1] ELSE Append(F[k - 1], tree[End(F[k - 1])])
    <3>1. k \in 1..N /\ k - 1 \in 0..N BY <2>3, <1>0
    <3>2. F[k] = G[<<F[k - 1], k>>] /\ F[k - 1] \in V BY <2>1, <2>2, <3>1, <1>3 DEF FoldRun
    <3>3. <<F[k - 1], k>> \in V \X (1..N) BY <3>1, <3>2
    <3>4. F[k] = Go(F[k - 1])
      <4> HIDE DEF Go
      <4> QED BY <3>2, <3>3
    <3> QED BY <3>4
  <2>4. F = [k \in 0..N |-> F[k]] BY <2>2
  <2> HIDE DEF AtEnd, End
  <2>5. Solves(F) BY <2>2, <2>3, <2>4
  <2> HIDE DEF Solves
  <2> QED BY <2>5
<1>6. Solves(H)
  <2> HIDE DEF Solves
  <2> QED BY <1>5
<1>7. PathFrom(tree, name) = H[N] BY DEF PathFrom, N
<1>8. \A k \in 0..N : H[k] = IF k = 0 THEN <<name>> ELSE Go(H[k - 1])
  <2>1. Solves(H) => \A k \in 0..N : H[k] = IF k = 0 THEN <<name>> ELSE Go(H[k - 1])
    <3> HIDE DEF H, AtEnd, End
    <3> QED OBVIOUS
  <2> HIDE DEF Solves, H, Go
  <2> QED BY <2>1, <1>6
<1> HIDE DEF H, Solves, G, Go, AtEnd, End
<1> DEFINE T == {k \in 0..N : H[k] \in V}
<1>9. T \in SUBSET (0..N) /\ 0 \in T BY <1>0, <1>1, <1>8
<1>10. ASSUME NEW k \in 0..(N - 1), k \in T PROVE k + 1 \in T
  <2>1. k + 1 \in 0..N /\ k + 1 # 0 /\ (k + 1) - 1 = k BY <1>0
  <2>2. H[k + 1] = Go(H[k]) BY <2>1, <1>8
  <2>3. H[k] \in V BY <1>10
  <2> QED BY <2>1, <2>2, <2>3, <1>2
<1> HIDE DEF T
<1>11. T = 0..N BY <1>0, <1>9, <1>10, PrefixInduction
<1>12. N \in T BY <1>0, <1>11
<1>13. H[N] \in V BY <1>12 DEF T
<1>14. \A p \in V : Len(p) \in Nat \ {0}
  <2> HIDE DEF U
  <2> QED BY DEF V
<1> QED BY <1>7, <1>13, <1>14

LEMMA RootPathLength ==
    ASSUME NEW tree, IsFiniteSet(DOMAIN tree), NEW name
    PROVE  Len(PathToRoot(tree, name)) \in Nat \ {0}
<1>1. Len(<<Unbekannt>>) = 1 OBVIOUS
<1> QED BY <1>1, PathLength DEF PathToRoot

LEMMA PlacesType ==
    ASSUME NEW tree, IsFiniteSet(DOMAIN tree), NEW a, NEW b
    PROVE  PlacesAlike(tree, a, b) \in Share \cup {None}
<1> DEFINE p == PathToRoot(tree, a)
           q == PathToRoot(tree, b)
           Node(path, i) == path[Len(path) - i + 1]
           lengths == 1..Least({Len(p), Len(q)})
           S == {n \in lengths : \A i \in 1..n : Node(p, i) = Node(q, i)}
           shared == Cardinality(S)
           common == IF shared > 1 THEN shared - 1 ELSE 0
           total == (Len(p) - 1) + (Len(q) - 1) - common
<1>1. CASE Unbekannt \in {a, b} BY <1>1 DEF PlacesAlike
<1>2. CASE Unbekannt \notin {a, b} /\ a = b BY <1>2, ShareFacts DEF PlacesAlike
<1>3. CASE Unbekannt \notin {a, b} /\ a # b
  <2>1. PlacesAlike(tree, a, b) = IF total <= 0 THEN Unit ELSE (Unit * common) \div total
    BY <1>3 DEF PlacesAlike
  <2> DEFINE L == {Len(p), Len(q)}
             m == Least(L)
  <2>2. Len(p) \in Nat \ {0} /\ Len(q) \in Nat \ {0} BY RootPathLength
  <2>3. m \in Nat /\ m <= Len(p) /\ m <= Len(q)
    <3>1. L \in SUBSET Nat /\ L # {} BY <2>2
    <3>2. Len(p) \in L /\ Len(q) \in L OBVIOUS
    <3> HIDE DEF L
    <3>3. \E d \in L : \A e \in L : d <= e BY <3>1, LeastMember
    <3>4. Least(L) \in L /\ \A e \in L : Least(L) <= e BY <3>3 DEF Least
    <3> QED BY <3>1, <3>2, <3>4
  <2>4. lengths = 1..m OBVIOUS
  <2> HIDE DEF m, lengths
  <2>5. IsFiniteSet(lengths) /\ Cardinality(lengths) = m
    <3>1. 1 \in Int /\ m \in Int BY <2>3
    <3>2. Cardinality(1..m) = IF 1 > m THEN 0 ELSE m - 1 + 1 BY <3>1, FS_Interval
    <3> QED BY <2>3, <2>4, <3>1, <3>2, FS_Interval
  <2>6. IsFiniteSet(S) /\ Cardinality(S) <= Cardinality(lengths)
    <3>1. S \subseteq lengths OBVIOUS
    <3> HIDE DEF S
    <3> QED BY <3>1, <2>5, FS_Subset
  <2> HIDE DEF S
  <2>7. shared \in Nat /\ shared <= m BY <2>5, <2>6, FS_CardinalityType
  <2> HIDE DEF shared
  <2>8. common \in Nat /\ common + 1 <= Len(p) /\ common + 1 <= Len(q)
    BY <2>2, <2>3, <2>7
  <2> HIDE DEF common, p, q
  <2>9. total \in Int /\ common <= total BY <2>2, <2>8
  <2> HIDE DEF total
  <2>10. CASE total <= 0 BY <2>1, <2>10, ShareFacts
  <2>11. CASE ~(total <= 0)
    <3> DEFINE x == Unit * common
    <3>1. total \in Nat \ {0} BY <2>9, <2>11
    <3>2. x \in Int /\ 0 <= x /\ x <= Unit * total BY <2>8, <2>9 DEF Unit
    <3> HIDE DEF x
    <3>3. x \div total \in Share BY <3>1, <3>2, QuotientShare
    <3> QED BY <2>1, <2>11, <3>3 DEF x
  <2> QED BY <2>10, <2>11
<1> QED BY <1>1, <1>2, <1>3

LEMMA BestPlaceType ==
    ASSUME NEW tree, IsFiniteSet(DOMAIN tree), NEW xs, IsSeq(xs), NEW ys, IsSeq(ys)
    PROVE  BestAlike(tree, xs, ys) \in Share \cup {None}
<1> DEFINE A == DOMAIN xs
           B == DOMAIN ys
           f == [x \in A \X B |-> PlacesAlike(tree, xs[x[1]], ys[x[2]])]
           S == {PlacesAlike(tree, xs[i], ys[j]) : i \in A, j \in B}
<1>1. IsFiniteSet(A) /\ IsFiniteSet(B) BY PositionsFinite
<1>2. f \in [A \X B -> Share \cup {None}] BY PlacesType
<1>3. S = Values(f, A \X B)
  <2>1. ASSUME NEW y \in S PROVE y \in Values(f, A \X B)
    <3>1. PICK i \in A, j \in B : y = PlacesAlike(tree, xs[i], ys[j]) OBVIOUS
    <3>2. <<i, j>> \in A \X B /\ f[<<i, j>>] = y BY <3>1
    <3> HIDE DEF f, A, B
    <3> QED BY <3>2 DEF Values
  <2>2. ASSUME NEW y \in Values(f, A \X B) PROVE y \in S
    <3>1. PICK x \in A \X B : y = f[x]
      <4> HIDE DEF f, A, B
      <4> QED BY DEF Values
    <3>2. x[1] \in A /\ x[2] \in B OBVIOUS
    <3>3. y = PlacesAlike(tree, xs[x[1]], ys[x[2]]) BY <3>1
    <3> HIDE DEF f, A, B
    <3> QED BY <3>2, <3>3
  <2> HIDE DEF S
  <2> QED BY <2>1, <2>2
<1>4. BestAlike(tree, xs, ys) = BestOf(S) BY DEF BestAlike
<1> HIDE DEF A, B, f, S
<1>5. IsFiniteSet(S) /\ S \in SUBSET (Share \cup {None}) BY <1>1, <1>2, <1>3, PairsFinite
<1> QED BY <1>4, <1>5, BestType

LEMMA ArtistsType ==
    ASSUME NEW r, NEW q, Attributed(r, q)
    PROVE  BestOf({ArtistAlike(r.names[i], q.artist) : i \in DOMAIN r.names}) \in Share \cup {None}
<1> DEFINE xs == r.names
           b == q.artist
           A == DOMAIN xs
           f == [i \in A |-> ArtistAlike(xs[i], b)]
           S == {ArtistAlike(xs[i], b) : i \in A}
<1>0. PICK r0 \in LostRows, q0 \in Range(LotRows) : xs = r0.names /\ b = q0.artist
  BY DEF Attributed
<1>1. IsFiniteSet(A)
  <2>1. IsSeq(xs) BY <1>0, RowsAssumption DEF AnyRows
  <2> QED BY <2>1, PositionsFinite
<1>2. ASSUME NEW i \in A PROVE ArtistAlike(xs[i], b) \in Share \cup {None}
  <2>1. xs[i] \in UNION {Range(x.names) : x \in LostRows} BY <1>0 DEF Range
  <2>2. b # None => b \in {x.artist : x \in Range(LotRows)} \ {None} BY <1>0
  <2>3. b # None => NameAlike(xs[i].key, b.key) \in 0..Unit BY <2>1, <2>2, AlikeAssumption
  <2> HIDE DEF xs, b
  <2> QED BY <2>3, ShareFacts DEF ArtistAlike, Share
<1>3. f \in [A -> Share \cup {None}] BY <1>2
<1>4. S = Values(f, A) BY DEF Values
<1> HIDE DEF A, f, S
<1>5. IsFiniteSet(S) BY <1>1, <1>3, <1>4, ValuesFinite
<1>6. S \in SUBSET (Share \cup {None}) BY <1>3, <1>4 DEF Values
<1>7. BestOf(S) \in Share \cup {None} BY <1>5, <1>6, BestType
<1> QED BY <1>7 DEF S, A

LEMMA TitlesType ==
    ASSUME NEW r, Comparable(r), NEW q, Comparable(q)
    PROVE  TitleAlike(r.title, q.title) \in Share \cup {None}
<1> DEFINE a == r.title
           b == q.title
<1>0. a \in {x.title : x \in AnyRows} /\ b \in {x.title : x \in AnyRows} BY DEF Comparable
<1> HIDE DEF a, b
<1>1. CASE None \in {a, b} BY <1>1 DEF TitleAlike, a, b
<1>2. CASE None \notin {a, b}
  <2> DEFINE pair == Stripped(a, b)
  <2>1. a \in {x.title : x \in AnyRows} \ {None} /\ b \in {x.title : x \in AnyRows} \ {None}
    BY <1>0, <1>2
  <2>2. TitleEdits(pair[1], pair[2]) \in 0..Unit BY <2>1, AlikeAssumption
  <2> HIDE DEF pair
  <2>3. EditAlike(a, b) = IF pair[1] = pair[2] THEN Unit ELSE TitleEdits(pair[1], pair[2])
    BY DEF EditAlike, pair
  <2>4. EditAlike(a, b) \in Share BY <2>2, <2>3, ShareFacts DEF Share
  <2>5. Spelled(a) \in DOMAIN CommonTitles => CommonTitles[Spelled(a)] \in Share
    BY AlikeAssumption DEF Share
  <2>6. TitleAlike(a, b) = IF Spelled(a) # Spelled(b) THEN EditAlike(a, b)
                           ELSE IF Spelled(a) \in DOMAIN CommonTitles
                                THEN CommonTitles[Spelled(a)] ELSE Unit
    BY <1>2 DEF TitleAlike
  <2> QED BY <2>4, <2>5, <2>6, ShareFacts DEF a, b
<1> QED BY <1>1, <1>2

LEMMA SimilarityTypes ==
    ASSUME NEW r, Comparable(r), NEW q, Comparable(q), Attributed(r, q), NEW c \in Components
    PROVE  Similarities(r, q)[c] \in Share \cup {None}
<1>1. PICK r0 \in AnyRows, q0 \in AnyRows :
         /\ r.materials = r0.materials /\ r.techniques = r0.techniques
         /\ q.materials = q0.materials /\ q.techniques = q0.techniques
  BY DEF Comparable
<1>2. /\ IsSeq(r.materials) /\ IsSeq(r.techniques)
      /\ IsSeq(q.materials) /\ IsSeq(q.techniques)
  BY <1>1, RowsAssumption
<1>3. IsFiniteSet(DOMAIN Parent["material"]) /\ IsFiniteSet(DOMAIN Parent["technique"])
  BY RowsAssumption
<1>4. CASE c = "title" BY <1>4, TitlesType DEF Similarities
<1>5. CASE c = "artist" BY <1>5, ArtistsType DEF Similarities
<1>6. CASE c = "dating"
  <2>1. DatingAlike(r.span, q.span) \in {None, Unit, 0} BY DEF DatingAlike
  <2>2. Similarities(r, q)[c] = DatingAlike(r.span, q.span) BY <1>6 DEF Similarities
  <2> QED BY <2>1, <2>2, ShareFacts
<1>7. CASE c = "dimensions"
  <2>1. SizesAlike(r, q) \in {None, 0, 50, 100} BY DEF SizesAlike, Unit
  <2>2. 50 \in Share /\ 100 \in Share BY DEF Share, Unit
  <2>3. Similarities(r, q)[c] = SizesAlike(r, q) BY <1>7 DEF Similarities
  <2> QED BY <2>1, <2>2, <2>3, ShareFacts
<1>8. CASE c = "material"
  <2>1. BestAlike(Parent["material"], r.materials, q.materials) \in Share \cup {None}
    BY <1>2, <1>3, BestPlaceType
  <2> QED BY <1>8, <2>1 DEF Similarities
<1>9. CASE c = "technique"
  <2>1. BestAlike(Parent["technique"], r.techniques, q.techniques) \in Share \cup {None}
    BY <1>2, <1>3, BestPlaceType
  <2> QED BY <1>9, <2>1 DEF Similarities
<1> QED BY <1>4, <1>5, <1>6, <1>7, <1>8, <1>9, WeightFacts

LEMMA HeightType ==
    ASSUME NEW tree, IsFiniteSet(DOMAIN tree)
    PROVE  Height(tree) \in Nat /\ \A n \in DOMAIN tree : Depth(tree, n) <= Height(tree)
<1> DEFINE f == [n \in DOMAIN tree |-> Depth(tree, n)]
           S == {Depth(tree, n) : n \in DOMAIN tree}
<1>1. \A n : Depth(tree, n) \in Nat
  <2>1. ASSUME NEW n PROVE Depth(tree, n) \in Nat
    <3>1. Len(PathToRoot(tree, n)) \in Nat \ {0} BY RootPathLength
    <3> QED BY <3>1 DEF Depth
  <2> QED BY <2>1
<1>2. CASE DOMAIN tree = {} BY <1>2 DEF Height
<1>3. CASE DOMAIN tree # {}
  <2>1. f \in [DOMAIN tree -> Nat] BY <1>1
  <2>2. S = Values(f, DOMAIN tree) BY DEF Values
  <2>3. S # {} /\ S \subseteq Nat BY <1>1, <1>3
  <2> HIDE DEF f
  <2>4. IsFiniteSet(S)
    <3> HIDE DEF S
    <3> QED BY <2>1, <2>2, ValuesFinite
  <2>5. Height(tree) = Greatest(S) BY <1>3 DEF Height
  <2> HIDE DEF S
  <2>6. S \in SUBSET Int BY <2>3
  <2>7. Greatest(S) \in S /\ \A y \in S : Greatest(S) >= y
    BY <2>3, <2>4, <2>6, GreatestMember
  <2>8. \A n \in DOMAIN tree : Depth(tree, n) \in S BY DEF S
  <2>9. ASSUME NEW n \in DOMAIN tree PROVE Depth(tree, n) <= Height(tree)
    <3>1. Depth(tree, n) \in S BY <2>8
    <3> QED BY <2>3, <2>5, <2>7, <3>1
  <2> QED BY <2>3, <2>5, <2>7, <2>9
<1> QED BY <1>2, <1>3

LEMMA DepthRatioType ==
    ASSUME NEW tree, IsFiniteSet(DOMAIN tree), NEW name
    PROVE  DepthRatio(tree, name) \in Share
<1>1. CASE name = Unbekannt \/ Height(tree) = 0 BY <1>1, ShareFacts DEF DepthRatio
<1>2. CASE ~(name = Unbekannt \/ Height(tree) = 0)
  <2> DEFINE x == Unit * Depth(tree, name)
             h == Height(tree)
  <2>1. Len(PathToRoot(tree, name)) \in Nat \ {0} BY RootPathLength
  <2>2. Depth(tree, name) \in Nat BY <2>1 DEF Depth
  <2>3. h \in Nat \ {0} BY <1>2, HeightType
  <2>4. Depth(tree, name) <= h
    <3>1. CASE name \in DOMAIN tree BY <3>1, HeightType
    <3>2. CASE name \notin DOMAIN tree
      <4>1. Len(PathToRoot(tree, name)) = 1 BY <3>2 DEF PathToRoot
      <4> QED BY <4>1, <2>3 DEF Depth
    <3> QED BY <3>1, <3>2
  <2>5. x \in Int /\ 0 <= x /\ x <= Unit * h BY <2>2, <2>3, <2>4 DEF Unit
  <2>6. DepthRatio(tree, name) = x \div h BY <1>2 DEF DepthRatio
  <2> HIDE DEF x, h
  <2> QED BY <2>3, <2>5, <2>6, QuotientShare
<1> QED BY <1>1, <1>2

LEMMA FieldType ==
    ASSUME NEW tree, IsFiniteSet(DOMAIN tree), NEW names, IsSeq(names), ~NothingKnown(names)
    PROVE  FieldConfidence(tree, names) \in Share
<1> DEFINE s == [i \in DOMAIN names |-> DepthRatio(tree, names[i])]
<1>1. Len(names) \in Nat /\ DOMAIN names = 1..Len(names) BY PositionsFinite
<1>2. Len(names) # 0
  <2>1. PICK i \in DOMAIN names : TRUE BY DEF NothingKnown
  <2> QED BY <2>1, <1>1
<1>3. s \in [1..Len(names) -> Share] BY <1>1, DepthRatioType
<1> HIDE DEF s
<1>4. s \in Seq(Share) /\ s # <<>> BY <1>1, <1>2, <1>3
<1>5. MeanOf(s) \in Share BY <1>4, MeanShare
<1> QED BY <1>5 DEF FieldConfidence, s

LEMMA PlaceConfidenceType ==
    ASSUME NEW tree, IsFiniteSet(DOMAIN tree), NEW xs, IsSeq(xs), NEW ys, IsSeq(ys)
    PROVE  PlaceConfidence(tree, xs, ys) \in Share
<1>1. CASE NothingKnown(xs) \/ NothingKnown(ys) BY <1>1, ShareFacts DEF PlaceConfidence
<1>2. CASE ~(NothingKnown(xs) \/ NothingKnown(ys))
  <2>1. FieldConfidence(tree, xs) \in Share /\ FieldConfidence(tree, ys) \in Share
    BY <1>2, FieldType
  <2> QED BY <1>2, <2>1, ShareFacts DEF PlaceConfidence
<1> QED BY <1>1, <1>2

\* What an artwork's own columns give.
LEMMA OwnConfidences ==
    ASSUME NEW r, Comparable(r), NEW q, Comparable(q)
    PROVE  /\ MeanConfidence(SizeConfidence(r), SizeConfidence(q)) \in Share
           /\ PlaceConfidence(Parent["material"], r.materials, q.materials) \in Share
           /\ PlaceConfidence(Parent["technique"], r.techniques, q.techniques) \in Share
<1>1. PICK r0 \in AnyRows, q0 \in AnyRows :
         /\ r.materials = r0.materials /\ r.techniques = r0.techniques
         /\ q.materials = q0.materials /\ q.techniques = q0.techniques
         /\ r.width = r0.width /\ r.height = r0.height
         /\ q.width = q0.width /\ q.height = q0.height
  BY DEF Comparable
<1>2. /\ IsSeq(r.materials) /\ IsSeq(r.techniques)
      /\ IsSeq(q.materials) /\ IsSeq(q.techniques)
  BY <1>1, RowsAssumption
<1>3. IsFiniteSet(DOMAIN Parent["material"]) /\ IsFiniteSet(DOMAIN Parent["technique"])
  BY RowsAssumption
<1>4. SizeConfidence(r) \in Share /\ SizeConfidence(q) \in Share
  BY <1>1, AlikeAssumption, ShareFacts DEF SizeConfidence, Sized, Share
<1>5. MeanConfidence(SizeConfidence(r), SizeConfidence(q)) \in Share
  BY <1>4, ShareFacts DEF MeanConfidence
<1>6. PlaceConfidence(Parent["material"], r.materials, q.materials) \in Share
  BY <1>2, <1>3, PlaceConfidenceType
<1>7. PlaceConfidence(Parent["technique"], r.techniques, q.techniques) \in Share
  BY <1>2, <1>3, PlaceConfidenceType
<1> QED BY <1>5, <1>6, <1>7

\* The intervals that the rarity of a year is counted over, when there are any.
Spans == {DatedSpans(c) : c \in Catalogues} \ {<<>>}
ClosedIntervals == {iv \in Dated : Closed(iv)}

LEMMA SpansFacts ==
    ASSUME NEW s \in Spans
    PROVE  \E c \in Catalogues : s \in Seq(ClosedIntervals) /\ Len(s) \in 1..Len(c)
<1>1. PICK c \in Catalogues : s = DatedSpans(c) BY DEF Spans
<1>2. s # <<>> BY DEF Spans
<1>3. IsSeq(c) BY RowsAssumption
<1>4. Len(c) \in Nat /\ DOMAIN c = 1..Len(c) BY <1>3, PositionsFinite
<1> DEFINE all == [i \in DOMAIN c |-> c[i].span]
           S == {iv \in Range(all) : Closed(iv)}
<1>5. \A i \in DOMAIN c : c[i].span \in Dated
  <2>1. \A i \in DOMAIN c : c[i] \in LostRows BY DEF LostRows, Range
  <2> QED BY <2>1, RowsAssumption
<1>6. all \in [1..Len(c) -> Dated] BY <1>4, <1>5
<1>7. all \in Seq(Dated) /\ Len(all) = Len(c)
  <2> HIDE DEF all
  <2> QED BY <1>4, <1>6
<1>8. s = Among(S, all) BY <1>1 DEF DatedSpans
<1>9. S \cap Dated \subseteq ClosedIntervals BY DEF ClosedIntervals
<1> HIDE DEF S, all
<1>10. s \in Seq(S \cap Dated) /\ Len(s) <= Len(all) BY <1>7, <1>8, AmongFacts
<1>11. s \in Seq(ClosedIntervals) BY <1>9, <1>10
<1>12. Len(s) \in Nat /\ Len(s) # 0 BY <1>2, <1>11
<1> QED BY <1>4, <1>7, <1>10, <1>11, <1>12

LEMMA TwoNumbers ==
    ASSUME NEW a \in Int, NEW b \in Int
    PROVE  /\ Greatest({a, b}) \in Int /\ Greatest({a, b}) >= a
           /\ Least({a, b}) \in Int /\ Least({a, b}) <= a
<1> DEFINE S == {a, b}
<1>1. S \in SUBSET Int /\ S # {} /\ a \in S OBVIOUS
<1>2. IsFiniteSet(S)
  <2>1. IsFiniteSet({a}) /\ IsFiniteSet({b}) BY FS_Singleton
  <2>2. IsFiniteSet({a} \cup {b}) BY <2>1, FS_Union
  <2>3. S = {a} \cup {b} OBVIOUS
  <2> QED BY <2>2, <2>3
<1> HIDE DEF S
<1>3. Greatest(S) \in S /\ \A y \in S : Greatest(S) >= y BY <1>1, <1>2, GreatestMember
<1>4. Least(S) \in S /\ \A y \in S : Least(S) <= y BY <1>1, <1>2, LeastOfFinite
<1>5. Greatest(S) \in Int /\ Greatest(S) >= a /\ Least(S) \in Int /\ Least(S) <= a
  BY <1>1, <1>3, <1>4
<1> QED BY <1>5 DEF S

LEMMA YearRarityType ==
    ASSUME NEW s \in Spans, NEW year \in Int
    PROVE  YearRarity(s, year) \in Share
<1>1. PICK c \in Catalogues : s \in Seq(ClosedIntervals) /\ Len(s) \in 1..Len(c)
  BY SpansFacts
<1> DEFINE C == {i \in DOMAIN s : s[i].start <= year /\ year < Until(s, s[i])}
<1>2. C \subseteq 1..Len(s) /\ Len(s) \in Nat BY <1>1
<1>3. IsSeq(c) BY RowsAssumption
<1>4. DOMAIN c = 1..Len(c) /\ Len(c) \in Nat BY <1>3, PositionsFinite
<1>5. C \in SUBSET (DOMAIN c) BY <1>1, <1>2, <1>4
<1>6. YearRarity(s, year) = Rarity(Len(s), Cardinality(C)) BY DEF YearRarity
<1> HIDE DEF C
<1>7. Cardinality(C) \in 0..Len(c) BY <1>5, CountRange
<1>8. Len(s) \in 0..Len(c) BY <1>1, <1>4
<1>9. Rarity(Len(s), Cardinality(C)) \in 0..Unit BY <1>7, <1>8, RarityRange
<1> QED BY <1>6, <1>9 DEF Share

LEMMA DatingRarityType ==
    ASSUME NEW s \in Spans, NEW iv \in ClosedIntervals
    PROVE  DatingRarity(s, iv) \in Share \cup {NaN}
<1>1. PICK c \in Catalogues : s \in Seq(ClosedIntervals) /\ Len(s) \in 1..Len(c)
  BY SpansFacts
<1>2. \A v \in ClosedIntervals : v.start \in Int /\ v.end \in Int
  BY DEF ClosedIntervals, Dated, Closed, Bounds
<1>3. Len(s) \in Nat /\ DOMAIN s = 1..Len(s) /\ 1 \in DOMAIN s BY <1>1
<1> DEFINE f == [i \in DOMAIN s |-> s[i].start]
           g == [i \in DOMAIN s |-> s[i].end]
           S == {s[i].start : i \in DOMAIN s}
           E == {s[i].end : i \in DOMAIN s}
           lo == Greatest({iv.start, Least(S)})
           hi == Least({iv.end, Greatest(E)})
<1>4. \A i \in DOMAIN s : s[i] \in ClosedIntervals BY <1>1, <1>3
<1>5. f \in [DOMAIN s -> Int] /\ g \in [DOMAIN s -> Int] BY <1>2, <1>4
<1>6. S = Values(f, DOMAIN s) /\ E = Values(g, DOMAIN s) BY DEF Values
<1>7. S \in SUBSET Int /\ E \in SUBSET Int /\ S # {} /\ E # {} BY <1>2, <1>3, <1>4
<1>8. IsFiniteSet(DOMAIN s) BY <1>3, FS_Interval
<1> HIDE DEF f, g
<1>9. IsFiniteSet(S) /\ IsFiniteSet(E)
  <2> HIDE DEF S, E
  <2> QED BY <1>5, <1>6, <1>8, ValuesFinite
<1> HIDE DEF S, E
<1>10. Least(S) \in Int /\ Greatest(E) \in Int
  BY <1>7, <1>9, LeastOfFinite, GreatestMember
<1>11. lo \in Int /\ hi \in Int /\ lo >= iv.start /\ hi <= iv.end
  BY <1>2, <1>10, TwoNumbers
<1> DEFINE y == [x \in lo..hi |-> YearRarity(s, x)]
           n == iv.end - iv.start + 1
<1>12. DatingRarity(s, iv) = IF lo > hi THEN Unit
                             ELSE IF Len(s) = 1 THEN NaN ELSE SumFunction(y) \div n
  BY DEF DatingRarity, S, E, FirstYear, LastYear
<1> HIDE DEF lo, hi
<1>13. CASE lo > hi BY <1>12, <1>13, ShareFacts
<1>14. CASE ~(lo > hi) /\ Len(s) = 1 BY <1>12, <1>14
<1>15. CASE ~(lo > hi) /\ Len(s) # 1
  <2> DEFINE D == lo..hi
             ones == [x \in D |-> 1]
             z == SumFunction(y)
  <2>1. IsFiniteSet(D) /\ Cardinality(D) \in Nat /\ Cardinality(D) <= n
    <3>1. IsFiniteSet(lo..hi) /\ Cardinality(lo..hi) = hi - lo + 1
      BY <1>11, <1>15, FS_Interval
    <3>2. iv.start \in Int /\ iv.end \in Int BY <1>2
    <3>3. hi - lo + 1 \in Nat /\ hi - lo + 1 <= iv.end - iv.start + 1
      BY <1>11, <1>15, <3>2
    <3> QED BY <3>1, <3>3
  <2>2. \A x \in D : y[x] \in Share
    <3>1. ASSUME NEW x \in D PROVE YearRarity(s, x) \in Share
      <4>1. x \in Int BY <1>11
      <4> QED BY <4>1, YearRarityType
    <3> QED BY <3>1
  <2>3. y \in [D -> Int]
    <3>1. y = [x \in D |-> y[x]] OBVIOUS
    <3> HIDE DEF y, D
    <3> QED BY <2>2, <3>1, ShareFacts
  <2>4. ones \in [D -> Int] /\ (\A x \in D : ones[x] = 1) /\ SumFunction(ones) = Cardinality(D)
    <3> HIDE DEF D
    <3> QED BY <2>1, SumOnes
  <2>5. Unit \in Nat /\ Unit * 1 = Unit BY DEF Unit
  <2> HIDE DEF ones, D, y
  <2>6. \A x \in D : 0 <= y[x] /\ y[x] <= Unit * ones[x]
    <3>1. \A x \in D : y[x] \in Int /\ 0 <= y[x] /\ y[x] <= Unit BY <2>2, ShareFacts
    <3> QED BY <2>4, <2>5, <3>1
  <2>7. z \in Int /\ 0 <= z /\ z <= Unit * Cardinality(D)
    BY <2>1, <2>3, <2>4, <2>5, <2>6, SumWithin
  <2>8. n \in Nat \ {0} BY <1>2, <1>11, <1>15
  <2> HIDE DEF n, z
  <2>9. z <= Unit * n
    <3> DEFINE k == Cardinality(D)
    <3>1. k \in Nat /\ k <= n /\ z <= Unit * k BY <2>1, <2>7
    <3> HIDE DEF k
    <3> QED BY <2>7, <2>8, <3>1 DEF Unit
  <2>10. z \div n \in Share BY <2>7, <2>8, <2>9, QuotientShare
  <2> QED BY <1>12, <1>15, <2>10 DEF z
<1> QED BY <1>13, <1>14, <1>15

LEMMA DatingConfidenceType ==
    ASSUME NEW a \in Share \cup {NaN}, NEW b \in Share \cup {NaN}
    PROVE  MeanConfidence(a, b) \in Share \cup {NaN}
BY ShareFacts DEF MeanConfidence

\* A pair without names and titles is worth nothing.
LEMMA NamelessJudged ==
    ASSUME NEW r, NEW q, Nameless(r, q), NEW t, NEW a, NEW d
    PROVE  ~PairScore(r, q, t, a, d).valid /\ ~Deserving(r, q)
BY DEF PairScore, Deserving

LEMMA InRangeFacts ==
    /\ \A s \in Share \cup {None} : InRange(s)
    /\ ~InRange(NaN)
<1>1. \A s \in Share : s # NaN /\ 0 <= s /\ s <= Unit BY ShareFacts
<1>2. NaN # None
  <2>1. NaN \in Int BY DEF NaN
  <2> QED BY <2>1, NoneAssumption
<1> QED BY <1>1, <1>2 DEF InRange

LEMMA PairFits ==
    ASSUME NEW r, Comparable(r), NEW q, Comparable(q), Attributed(r, q), ~Nameless(r, q),
           NEW t \in Share, NEW a \in Share, NEW d \in Share \cup {NaN}
    PROVE  FitsTable(PairScore(r, q, t, a, d))
<1> DEFINE s == PairScore(r, q, t, a, d)
           sims == Similarities(r, q)
           confs == Confidences(r, q, t, a, d)
           x == MeanConfidence(SizeConfidence(r), SizeConfidence(q))
           y == PlaceConfidence(Parent["material"], r.materials, q.materials)
           z == PlaceConfidence(Parent["technique"], r.techniques, q.techniques)
           final == FinalScore(sims)
           conf == ConfidenceScore(confs)
<1>1. s = [sims |-> sims, confs |-> confs, final |-> final, confidence |-> conf,
           valid |-> ~Worthless(final, conf)]
  BY DEF PairScore
<1>2. confs = [title |-> t, artist |-> a, dating |-> d,
               dimensions |-> x, material |-> y, technique |-> z]
  BY DEF Confidences
<1>3. x \in Share /\ y \in Share /\ z \in Share BY OwnConfidences
<1>4. final \in Share
  <2>1. \A c \in Components : sims[c] \in Share \cup {None} BY SimilarityTypes
  <2> HIDE DEF sims
  <2> QED BY <2>1, FinalShare
<1>5. \A c \in Components : sims[c] \in Share \cup {None} BY SimilarityTypes
<1> HIDE DEF x, y, z, sims
<1>6. /\ confs.title = t /\ confs.artist = a /\ confs.dating = d
      /\ confs.dimensions = x /\ confs.material = y /\ confs.technique = z
  <2> HIDE DEF confs
  <2> QED BY <1>2
<1> HIDE DEF confs
<1>7. ASSUME NEW c \in Components
      PROVE  /\ confs[c] \in Share \cup {NaN}
             /\ confs[c] = NaN => c = "dating"
  <2>1. CASE c = "dating" BY <2>1, <1>6
  <2>2. CASE c # "dating"
    <3>1. confs[c] \in {t, a, x, y, z} BY <2>2, <1>6, WeightFacts
    <3>2. confs[c] \in Share BY <3>1, <1>3
    <3> QED BY <3>2, ShareFacts
  <2> QED BY <2>1, <2>2
<1>8. (\E c \in Components : confs[c] = NaN) <=> confs.dating = NaN
  <2>1. "dating" \in Components BY WeightFacts
  <2> QED BY <1>7, <2>1
<1>9. IF confs.dating = NaN THEN conf = NaN ELSE conf \in Share
  BY <1>7, <1>8, ConfidenceShare
<1>10. /\ s.final = final /\ s.sims = sims /\ s.confs = confs /\ s.confidence = conf
  <2> HIDE DEF s, final, conf
  <2> QED BY <1>1
<1> HIDE DEF s, final, conf
<1>11. FitsTable(s) BY <1>4, <1>5, <1>9, <1>10, InRangeFacts DEF FitsTable
<1> QED BY <1>11 DEF s

LEMMA NamelessFits ==
    ASSUME NEW r, NEW q, Nameless(r, q), NEW t, NEW a, NEW d
    PROVE  FitsTable(PairScore(r, q, t, a, d))
<1> DEFINE s == PairScore(r, q, t, a, d)
<1>1. s = [sims |-> [c \in Components |-> 0], confs |-> [c \in Components |-> 0],
           final |-> 0, confidence |-> 0, valid |-> FALSE]
  BY DEF PairScore
<1> HIDE DEF s
<1>2. /\ s.final = 0 /\ s.confidence = 0 /\ \A c \in Components : s.sims[c] = 0
      /\ s.confs = [c \in Components |-> 0]
  BY <1>1
<1>3. s.confs.dating = 0 /\ 0 # NaN
  <2>1. "dating" \in Components BY WeightFacts
  <2> QED BY <1>2, <2>1 DEF NaN
<1>4. InRange(0) BY InRangeFacts, ShareFacts
<1>5. FitsTable(s) BY <1>2, <1>3, <1>4 DEF FitsTable
<1> QED BY <1>5 DEF s

\* A pair is kept for what it deserves: a score that is kept says so, and what
\* agrees and is rare enough without its dating is rare enough with it.
LEMMA PairJudged ==
    ASSUME NEW r, Comparable(r), NEW q, Comparable(q), Attributed(r, q), ~Nameless(r, q),
           TitlesRarity(r, q) \in Int, ArtistRarity(r, q) \in Int,
           NEW t \in Int, t >= TitlesRarity(r, q),
           NEW a \in Int, a >= ArtistRarity(r, q),
           NEW d \in Share \cup {NaN}
    PROVE  LET s == PairScore(r, q, t, a, d)
           IN  /\ s.confs.artist = a /\ s.confs.title = t
               /\ s.valid => Agree(s.sims) /\ s.confidence \notin 0..(ConfThreshold - 1)
               /\ Deserving(r, q) => s.valid
<1> DEFINE s == PairScore(r, q, t, a, d)
           sims == Similarities(r, q)
           confs == Confidences(r, q, t, a, d)
           less == Confidences(r, q, TitlesRarity(r, q), ArtistRarity(r, q), 0)
           x == MeanConfidence(SizeConfidence(r), SizeConfidence(q))
           y == PlaceConfidence(Parent["material"], r.materials, q.materials)
           z == PlaceConfidence(Parent["technique"], r.techniques, q.techniques)
           final == FinalScore(sims)
           conf == ConfidenceScore(confs)
<1>1. s = [sims |-> sims, confs |-> confs, final |-> final, confidence |-> conf,
           valid |-> ~Worthless(final, conf)]
  BY DEF PairScore
<1>2. confs = [title |-> t, artist |-> a, dating |-> d,
               dimensions |-> x, material |-> y, technique |-> z]
  BY DEF Confidences
<1>3. less = [title |-> TitlesRarity(r, q), artist |-> ArtistRarity(r, q), dating |-> 0,
              dimensions |-> x, material |-> y, technique |-> z]
  BY DEF Confidences
<1>4. x \in Int /\ y \in Int /\ z \in Int
  <2>1. x \in Share /\ y \in Share /\ z \in Share BY OwnConfidences
  <2> HIDE DEF x, y, z
  <2> QED BY <2>1, ShareFacts
<1>5. final \in Int /\ (final >= Threshold <=> Agree(sims))
  <2>1. \A c \in Components : sims[c] \in Int \cup {None} BY SimilarityTypes, ShareFacts
  <2> HIDE DEF sims
  <2> QED BY <2>1, FinalAgrees
<1>6. s.valid <=> final >= Threshold /\ (conf = NaN \/ ~(conf < ConfThreshold))
  <2> HIDE DEF sims, confs, final, conf
  <2>1. s.valid = ~Worthless(final, conf) BY <1>1
  <2>2. final < Threshold <=> ~(final >= Threshold) BY <1>5 DEF Threshold
  <2> QED BY <2>1, <2>2 DEF Worthless
<1>7. s.valid => Agree(s.sims) /\ s.confidence \notin 0..(ConfThreshold - 1)
  <2>1. s.sims = sims /\ s.confidence = conf
    <3> HIDE DEF sims, confs, final, conf
    <3> QED BY <1>1
  <2> HIDE DEF sims, confs, final, conf, s
  <2>2. \A k \in 0..(ConfThreshold - 1) : k # NaN /\ k < ConfThreshold
    BY DEF ConfThreshold, NaN
  <2> QED BY <1>5, <1>6, <2>1, <2>2
<1>8. ASSUME Deserving(r, q) PROVE s.valid
  <2>1. Agree(sims) /\ ConfidenceScore(less) >= ConfThreshold BY <1>8 DEF Deserving
  <2>2. ASSUME NEW c \in Components
        PROVE  less[c] \in Int /\ confs[c] \in Int /\ (confs[c] = NaN \/ less[c] <= confs[c])
    <3>1. CASE c = "title" BY <3>1, <1>2, <1>3
    <3>2. CASE c = "artist" BY <3>2, <1>2, <1>3
    <3>3. CASE c = "dating"
      <4>1. d \in Int /\ (d = NaN \/ 0 <= d)
        <5>1. NaN \in Int BY DEF NaN
        <5> QED BY <5>1, ShareFacts
      <4> QED BY <3>3, <4>1, <1>2, <1>3
    <3>4. CASE c = "dimensions"
      <4>1. less[c] = x /\ confs[c] = x BY <3>4, <1>2, <1>3
      <4> HIDE DEF x, less, confs
      <4> QED BY <4>1, <1>4
    <3>5. CASE c = "material"
      <4>1. less[c] = y /\ confs[c] = y BY <3>5, <1>2, <1>3
      <4> HIDE DEF y, less, confs
      <4> QED BY <4>1, <1>4
    <3>6. CASE c = "technique"
      <4>1. less[c] = z /\ confs[c] = z BY <3>6, <1>2, <1>3
      <4> HIDE DEF z, less, confs
      <4> QED BY <4>1, <1>4
    <3> QED BY <3>1, <3>2, <3>3, <3>4, <3>5, <3>6, WeightFacts
  <2> HIDE DEF less, confs, sims
  <2>3. conf = NaN \/ (conf \in Int /\ conf >= ConfThreshold)
    BY <2>1, <2>2, ConfidenceGrows
  <2>4. conf = NaN \/ ~(conf < ConfThreshold) BY <2>3 DEF ConfThreshold
  <2> QED BY <2>1, <2>4, <1>5, <1>6
<1>9. s.confs.artist = a /\ s.confs.title = t
  <2>1. s.confs = confs
    <3> HIDE DEF sims, confs, final, conf
    <3> QED BY <1>1
  <2> QED BY <2>1, <1>2
<1> QED BY <1>7, <1>8, <1>9
-----------------------------------------------------------------------------
(* The invariant of the threads.                                            *)

BothNamed(r, q) == KnownNames(r.names) # <<>> /\ KnownNames(q.names) # <<>>
BothTitled(r, q) == r.title # None /\ q.title # None

\* A score that was kept for a lot and a row was kept for a reason, does not
\* understate how rare their artists and titles are, and fits the table.
RightScore(l, i, s) ==
    /\ <<l, i>> \in ImagePairs \/ (Agree(s.sims) /\ s.confidence \notin 0..(ConfThreshold - 1))
    /\ ~Nameless(read[i], LotRow(l)) =>
          /\ s.confs.artist >= ArtistRarity(read[i], LotRow(l))
          /\ s.confs.title >= TitlesRarity(read[i], LotRow(l))
    /\ FitsTable(s)

\* The indexes that a pair has been judged by are loaded, and stay as they are.
Settled(l, i) ==
    ~Nameless(read[i], LotRow(l)) =>
        /\ BothNamed(read[i], LotRow(l)) => artists.loaded
        /\ BothTitled(read[i], LotRow(l)) => titles.loaded

Wanted(l, i) == <<l, i>> \in ImagePairs \/ Deserving(read[i], LotRow(l))

\* What has been found for a lot in the rows before n.
FoundOK(l, F, n) ==
    /\ IsSeq(F)
    /\ \A j \in DOMAIN F : F[j].row \in 1..(n - 1) /\ RightScore(l, F[j].row, F[j].score)
    /\ \A i \in 1..(n - 1) : /\ i \in DOMAIN read /\ Settled(l, i)
                             /\ Wanted(l, i) => \E j \in DOMAIN F : F[j].row = i

AtRow(l, i, F) == l \in Lots /\ i \in Nat \ {0} /\ FoundOK(l, F, i)
OnPair(l, i) == i \in DOMAIN read /\ ~Nameless(read[i], LotRow(l))

\* The names of a pair, the first of which have been judged.
NamesOf(l, i) == KnownNames(read[i].names) \o KnownNames(LotRow(l).names)
Asked(l, i, ask, judged) ==
    /\ BothNamed(read[i], LotRow(l))
    /\ IsSeq(ask) /\ judged \in Seq(Share)
    /\ Len(judged) + Len(ask) = Len(NamesOf(l, i))
    /\ \A k \in 1..Len(ask) : ask[k] = NamesOf(l, i)[Len(judged) + k]
    /\ \A k \in 1..Len(judged) : judged[k] >= NameRarity(NamesOf(l, i)[k])
    /\ judged # <<>> => artists.loaded

ArtistDone(l, i, a) ==
    /\ a \in Share /\ ArtistRarity(read[i], LotRow(l)) \in Int
    /\ a >= ArtistRarity(read[i], LotRow(l))
    /\ BothNamed(read[i], LotRow(l)) => artists.loaded
TitleDone(l, i, t) ==
    /\ t \in Share /\ TitlesRarity(read[i], LotRow(l)) \in Int
    /\ t >= TitlesRarity(read[i], LotRow(l))
    /\ BothTitled(read[i], LotRow(l)) => titles.loaded

AskingPcs == {"unseen", "rebuild", "rebuilt"}
NamePcs == AskingPcs \cup {"artist", "await artists", "load artists", "raise artists",
                           "index artists", "free artists"}
TitlePcs == {"title", "await titles", "load titles", "total titles", "free titles"}
DatingPcs == {"dating", "query datings", "open file", "dump"}

WorkOK(r) ==
    /\ r = [pc |-> r.pc, lot |-> r.lot, row |-> r.row, ask |-> r.ask,
            rarities |-> r.rarities, artist |-> r.artist, title |-> r.title, found |-> r.found]
    /\ r.pc \in {"idle", "pair"} \cup NamePcs \cup TitlePcs \cup DatingPcs
    /\ r.pc = "idle" => r.found = <<>>
    /\ r.pc # "idle" => AtRow(r.lot, r.row, r.found)
    /\ r.pc = "pair" => r.rarities = <<>> /\ r.artist = 0
    /\ r.pc \in NamePcs \cup TitlePcs \cup DatingPcs => OnPair(r.lot, r.row)
    /\ r.pc \in NamePcs => Asked(r.lot, r.row, r.ask, r.rarities)
    /\ r.pc \in AskingPcs => r.ask # <<>>
    /\ r.pc \in TitlePcs \cup DatingPcs => ArtistDone(r.lot, r.row, r.artist)
    /\ r.pc \notin DatingPcs => r.title = 0
    /\ r.pc \in DatingPcs => TitleDone(r.lot, r.row, r.title)

\* What a thread that is at p may rely on, whatever the others do.
Holds(w, p) ==
    /\ p \in {"load artists", "raise artists", "index artists", "free artists"} =>
          artists.lock = w
    /\ p \in {"load artists", "raise artists"} => ~artists.loaded
    /\ p = "raise artists" => ArtistsWhole
    /\ p \in AskingPcs \cup {"index artists", "free artists"} => artists.loaded
    /\ p \in {"load titles", "total titles", "free titles"} => titles.lock = w /\ ~titles.loaded
    /\ p = "total titles" => TitlesCounted
    /\ p = "free titles" => TitlesWhole
    /\ p \in {"open file", "dump"} => dating \in Spans

ArtistsInv ==
    /\ artists = [counts |-> artists.counts, total |-> artists.total,
                  loaded |-> artists.loaded, lookup |-> artists.lookup,
                  current |-> artists.current, lock |-> artists.lock, of |-> artists.of]
    /\ artists.loaded => ArtistsWhole
    /\ artists.lookup \in {<<>>, LookupIndex(artists.counts)}
    /\ ~artists.loaded => artists.lookup = <<>>
TitlesInv ==
    /\ titles = [counts |-> titles.counts, total |-> titles.total, loaded |-> titles.loaded,
                 lock |-> titles.lock, of |-> titles.of, totalOf |-> titles.totalOf]
    /\ titles.loaded => TitlesWhole

NothingRuns ==
    /\ artists = NoArtists /\ titles = NoTitles /\ dating = None
    /\ worker = [w \in Workers |-> Idle] /\ scores = Unscored

ScoresOK ==
    /\ DOMAIN scores = Lots
    /\ \A l \in Lots : scores[l] # None => FoundOK(l, scores[l], Len(read) + 1)

ThreadsOK ==
    /\ DOMAIN worker = Workers
    /\ \A w \in Workers : WorkOK(worker[w]) /\ Holds(w, worker[w].pc)

ScoringInv ==
    /\ rows \in Catalogues /\ waiting \subseteq Lots
    /\ run \in {"scoring", "failed", "done"} => read \in Catalogues
    /\ run \in {"normalising", "asking", "off"} => NothingRuns
    /\ dating = None \/ dating \in Spans
    /\ file # NoFile /\ file # Torn => file \in Spans
    /\ ArtistsInv /\ TitlesInv /\ ScoresOK /\ ThreadsOK
-----------------------------------------------------------------------------
(* What a step of one thread leaves of what the others know.                *)

IndexesKept ==
    /\ artists.loaded => artists'.loaded /\ artists'.of = artists.of
    /\ titles.loaded => /\ titles'.loaded /\ titles'.of = titles.of
                        /\ titles'.totalOf = titles.totalOf

LEMMA SeqIsSeq ==
    ASSUME NEW S, NEW s \in Seq(S)
    PROVE  IsSeq(s)
<1>1. Len(s) \in Nat /\ DOMAIN s = 1..Len(s) /\ s = [i \in 1..Len(s) |-> s[i]] OBVIOUS
<1>2. \A i \in 1..Len(s) : s[i] \in Range(s) BY <1>1 DEF Range
<1>3. s \in [1..Len(s) -> Range(s)] BY <1>1, <1>2
<1> QED BY <1>1, <1>3 DEF IsSeq

LEMMA AppendFacts ==
    ASSUME NEW s, IsSeq(s), NEW x
    PROVE  /\ IsSeq(Append(s, x)) /\ DOMAIN Append(s, x) = 1..(Len(s) + 1)
           /\ Len(Append(s, x)) = Len(s) + 1
           /\ \A i \in 1..Len(s) : Append(s, x)[i] = s[i]
           /\ Append(s, x)[Len(s) + 1] = x
<1> DEFINE S == Range(s) \cup {x}
<1>1. s \in Seq(S) /\ x \in S BY DEF IsSeq
<1> HIDE DEF S
<1>2. Append(s, x) \in Seq(S) BY <1>1
<1>3. IsSeq(Append(s, x)) BY <1>2, SeqIsSeq
<1> QED BY <1>1, <1>3

LEMMA LotFrame ==
    ASSUME UNCHANGED span, NEW l
    PROVE  LotRow(l)' = LotRow(l)
BY DEF LotRow

LEMMA ArtistFrame ==
    ASSUME UNCHANGED <<read, span>>, IndexesKept, NEW l, NEW i,
           BothNamed(read[i], LotRow(l)) => artists.loaded
    PROVE  ArtistRarity(read[i], LotRow(l))' = ArtistRarity(read[i], LotRow(l))
<1>1. LotRow(l)' = LotRow(l) /\ read'[i] = read[i] BY LotFrame
<1>2. CASE BothNamed(read[i], LotRow(l))
  <2>1. artists'.of = artists.of BY <1>2 DEF IndexesKept
  <2>2. \A n : NameRarity(n)' = NameRarity(n) BY <2>1 DEF NameRarity
  <2>3. \A names : MeanRarity(names)' = MeanRarity(names) BY <2>2 DEF MeanRarity
  <2> QED BY <1>1, <2>3 DEF ArtistRarity
<1>3. CASE ~BothNamed(read[i], LotRow(l))
  BY <1>1, <1>3 DEF ArtistRarity, BothNamed
<1> QED BY <1>2, <1>3

LEMMA TitleFrame ==
    ASSUME UNCHANGED <<read, span>>, IndexesKept, NEW l, NEW i,
           BothTitled(read[i], LotRow(l)) => titles.loaded
    PROVE  TitlesRarity(read[i], LotRow(l))' = TitlesRarity(read[i], LotRow(l))
<1>1. LotRow(l)' = LotRow(l) /\ read'[i] = read[i] BY LotFrame
<1>2. CASE BothTitled(read[i], LotRow(l))
  <2>1. titles'.of = titles.of /\ titles'.totalOf = titles.totalOf BY <1>2 DEF IndexesKept
  <2>2. \A t : TrueTitleRarity(t)' = TrueTitleRarity(t) BY <2>1 DEF TrueTitleRarity
  <2> QED BY <1>1, <2>2 DEF TitlesRarity
<1>3. CASE ~BothTitled(read[i], LotRow(l))
  BY <1>1, <1>3 DEF TitlesRarity,
        BothTitled
<1> QED BY <1>2, <1>3

LEMMA SettledFrame ==
    ASSUME UNCHANGED <<read, span>>, IndexesKept, NEW l, NEW i, Settled(l, i)
    PROVE  /\ Settled(l, i)'
           /\ Wanted(l, i)' <=> Wanted(l, i)
           /\ \A s : RightScore(l, i, s) => RightScore(l, i, s)'
<1>1. LotRow(l)' = LotRow(l) /\ read'[i] = read[i] BY LotFrame
<1>2. CASE Nameless(read[i], LotRow(l))
  BY <1>1, <1>2 DEF Settled, Wanted, Deserving, RightScore
<1>3. CASE ~Nameless(read[i], LotRow(l))
  <2>1. /\ BothNamed(read[i], LotRow(l)) => artists.loaded
        /\ BothTitled(read[i], LotRow(l)) => titles.loaded
    BY <1>3 DEF Settled
  <2>2. /\ ArtistRarity(read[i], LotRow(l))' = ArtistRarity(read[i], LotRow(l))
        /\ TitlesRarity(read[i], LotRow(l))' = TitlesRarity(read[i], LotRow(l))
    BY <2>1, ArtistFrame, TitleFrame
  <2>3. Settled(l, i)' BY <1>1, <2>1 DEF Settled, BothNamed, BothTitled, IndexesKept
  <2>4. Wanted(l, i)' <=> Wanted(l, i) BY <1>1, <2>2 DEF Wanted, Deserving
  <2>5. \A s : RightScore(l, i, s) => RightScore(l, i, s)' BY <1>1, <2>2 DEF RightScore
  <2> QED BY <2>3, <2>4, <2>5
<1> QED BY <1>2, <1>3

LEMMA FoundFrame ==
    ASSUME UNCHANGED <<read, span>>, IndexesKept, NEW l, NEW F, NEW n, FoundOK(l, F, n)
    PROVE  FoundOK(l, F, n)'
<1>1. \A i \in 1..(n - 1) : /\ Settled(l, i)' /\ (Wanted(l, i)' <=> Wanted(l, i))
                            /\ \A s : RightScore(l, i, s) => RightScore(l, i, s)'
  BY SettledFrame DEF FoundOK
<1> QED BY <1>1 DEF FoundOK

LEMMA AskedFrame ==
    ASSUME UNCHANGED <<read, span>>, IndexesKept, NEW l, NEW i, NEW ask, NEW judged,
           Asked(l, i, ask, judged)
    PROVE  Asked(l, i, ask, judged)'
<1>1. LotRow(l)' = LotRow(l) /\ read'[i] = read[i] BY LotFrame
<1>2. NamesOf(l, i)' = NamesOf(l, i) BY <1>1 DEF NamesOf
<1>3. BothNamed(read[i], LotRow(l))' BY <1>1 DEF Asked, BothNamed
<1>4. ASSUME NEW k \in 1..Len(judged)
      PROVE  judged[k] >= NameRarity(NamesOf(l, i)[k])'
  <2>1. judged # <<>> BY DEF Asked
  <2>2. artists'.of = artists.of BY <2>1 DEF Asked, IndexesKept
  <2>3. \A n : NameRarity(n)' = NameRarity(n) BY <2>2 DEF NameRarity
  <2>4. judged[k] >= NameRarity(NamesOf(l, i)[k]) BY DEF Asked
  <2> QED BY <1>2, <2>3, <2>4
<1>5. judged # <<>> => artists'.loaded BY DEF Asked, IndexesKept
<1> QED BY <1>2, <1>3, <1>4, <1>5 DEF Asked

LEMMA DoneFrame ==
    ASSUME UNCHANGED <<read, span>>, IndexesKept, NEW l, NEW i
    PROVE  /\ \A a : ArtistDone(l, i, a) => ArtistDone(l, i, a)'
           /\ \A t : TitleDone(l, i, t) => TitleDone(l, i, t)'
<1>1. LotRow(l)' = LotRow(l) /\ read'[i] = read[i] BY LotFrame
<1>2. ASSUME NEW a, ArtistDone(l, i, a) PROVE ArtistDone(l, i, a)'
  <2>1. ArtistRarity(read[i], LotRow(l))' = ArtistRarity(read[i], LotRow(l))
    BY <1>2, ArtistFrame DEF ArtistDone
  <2> QED BY <1>1, <1>2, <2>1 DEF ArtistDone, BothNamed, IndexesKept
<1>3. ASSUME NEW t, TitleDone(l, i, t) PROVE TitleDone(l, i, t)'
  <2>1. TitlesRarity(read[i], LotRow(l))' = TitlesRarity(read[i], LotRow(l))
    BY <1>3, TitleFrame DEF TitleDone
  <2> QED BY <1>1, <1>3, <2>1 DEF TitleDone, BothTitled, IndexesKept
<1> QED BY <1>2, <1>3

LEMMA RowFrame ==
    ASSUME UNCHANGED <<read, span>>, IndexesKept, NEW l, NEW i
    PROVE  /\ OnPair(l, i) => OnPair(l, i)'
           /\ \A F : AtRow(l, i, F) => AtRow(l, i, F)'
<1>1. LotRow(l)' = LotRow(l) /\ read'[i] = read[i] BY LotFrame
<1>2. OnPair(l, i) => OnPair(l, i)' BY <1>1 DEF OnPair, Nameless
<1>3. \A F : AtRow(l, i, F) => AtRow(l, i, F)' BY FoundFrame DEF AtRow
<1> QED BY <1>2, <1>3

LEMMA WorkFrame ==
    ASSUME UNCHANGED <<read, span>>, IndexesKept, NEW r, WorkOK(r)
    PROVE  WorkOK(r)'
BY RowFrame, AskedFrame, DoneFrame DEF WorkOK

\* What a step of another thread may do to the indexes.
Undisturbed(v) ==
    /\ artists.lock = v => /\ artists'.lock = v /\ artists'.loaded = artists.loaded
                           /\ artists.loaded \/ artists' = artists
    /\ titles.lock = v => titles' = titles

LEMMA HoldsFrame ==
    ASSUME NEW v, NEW p, Holds(v, p), IndexesKept, Undisturbed(v),
           dating \in Spans => dating' \in Spans
    PROVE  Holds(v, p)'
<1>1. artists' = artists => (ArtistsWhole => ArtistsWhole') BY DEF ArtistsWhole
<1>2. titles' = titles => (TitlesWhole => TitlesWhole') /\ (TitlesCounted => TitlesCounted')
  BY DEF TitlesWhole, TitlesCounted
<1>3. Spans' = Spans BY DEF Spans
<1> QED BY <1>1, <1>2, <1>3 DEF Holds, IndexesKept, Undisturbed

LEMMA IndexesIdle == UNCHANGED indexes => IndexesKept /\ \A v : Undisturbed(v)
BY DEF indexes, IndexesKept, Undisturbed

LEMMA ScoresFrame ==
    ASSUME UNCHANGED <<read, span, scores>>, IndexesKept, ScoresOK
    PROVE  ScoresOK'
BY FoundFrame DEF ScoresOK

LEMMA ArtistsInvFrame ==
    ASSUME UNCHANGED artists, ArtistsInv
    PROVE  ArtistsInv'
BY DEF ArtistsInv, ArtistsWhole

LEMMA TitlesInvFrame ==
    ASSUME UNCHANGED titles, TitlesInv
    PROVE  TitlesInv'
BY DEF TitlesInv, TitlesWhole, TitlesCounted

LEMMA PairComparable ==
    ASSUME read \in Catalogues, DatesInv, NEW l \in Lots, NEW i \in DOMAIN read
    PROVE  /\ Comparable(read[i]) /\ Comparable(LotRow(l))
           /\ Attributed(read[i], LotRow(l))
<1>1. read[i] \in LostRows BY DEF LostRows, Range
<1>2. span[l] \in Dated BY DEF DatesInv
<1>3. LotRow(l).artist = LotRows[l].artist /\ LotRows[l] \in Range(LotRows)
  BY RowsAssumption DEF LotRow, Range
<1>4. Attributed(read[i], LotRow(l)) BY <1>1, <1>3 DEF Attributed
<1> QED BY <1>1, <1>2, <1>4, LostComparable, LotComparable

LEMMA NamesSeq ==
    ASSUME NEW r, Comparable(r)
    PROVE  IsSeq(KnownNames(r.names))
<1>1. PICK q \in AnyRows : r.names = q.names BY DEF Comparable
<1> DEFINE S == {n \in Range(r.names) : n.key \notin UnknownKeys}
<1>2. r.names \in Seq(Range(r.names)) BY <1>1, RowsAssumption DEF IsSeq
<1>3. Among(S, r.names) \in Seq(S \cap Range(r.names))
  <2> HIDE DEF S
  <2> QED BY <1>2, AmongFacts
<1>4. KnownNames(r.names) = Among(S, r.names) BY DEF KnownNames
<1> HIDE DEF S
<1> QED BY <1>3, <1>4, SeqIsSeq

\* One thread has gone on, and the others find what they know.
Others(w) == \A v \in Workers \ {w} : worker'[v] = worker[v] /\ Undisturbed(v)

LEMMA StepKeeps ==
    ASSUME ScoringInv, run = "scoring", NEW w \in Workers,
           UNCHANGED <<rows, run, read, span>>, waiting' \subseteq waiting, ScoresOK',
           IndexesKept, Others(w),
           DOMAIN worker' = Workers, WorkOK(worker[w])', Holds(w, worker[w].pc)',
           dating' = None \/ dating' \in Spans, dating \in Spans => dating' \in Spans,
           file' # NoFile /\ file' # Torn => file' \in Spans,
           ArtistsInv', TitlesInv'
    PROVE  ScoringInv'
<1>2. ASSUME NEW v \in Workers PROVE WorkOK(worker[v])' /\ Holds(v, worker[v].pc)'
  <2>1. CASE v = w BY <2>1
  <2>2. CASE v # w
    <3>1. worker'[v] = worker[v] /\ Undisturbed(v) BY <2>2 DEF Others
    <3>2. WorkOK(worker[v]) /\ Holds(v, worker[v].pc) BY DEF ScoringInv, ThreadsOK
    <3>3. WorkOK(worker[v])' BY <3>1, <3>2, WorkFrame
    <3>4. Holds(v, worker[v].pc)' BY <3>1, <3>2, HoldsFrame
    <3> QED BY <3>3, <3>4
  <2> QED BY <2>1, <2>2
<1>3. ThreadsOK' BY <1>2 DEF ThreadsOK
<1>4. Spans' = Spans BY DEF Spans
<1> QED BY <1>3, <1>4 DEF ScoringInv

\* A thread that only goes on, to something it does with the same pair.
LEMMA GotoFacts ==
    ASSUME NEW w \in Workers, DOMAIN worker = Workers, NEW p, Goto(w, p), WorkOK(worker[w])
    PROVE  /\ DOMAIN worker' = Workers
           /\ \A v \in Workers \ {w} : worker'[v] = worker[v]
           /\ worker'[w] = [pc |-> p, lot |-> worker[w].lot, row |-> worker[w].row,
                            ask |-> worker[w].ask, rarities |-> worker[w].rarities,
                            artist |-> worker[w].artist, title |-> worker[w].title,
                            found |-> worker[w].found]
BY DEF Goto, WorkOK

SamePhase(p, q) == \/ p \in NamePcs /\ q \in NamePcs
                   \/ p \in TitlePcs /\ q \in TitlePcs
                   \/ p \in DatingPcs /\ q \in DatingPcs

LEMMA PcFacts ==
    /\ "idle" \notin NamePcs \cup TitlePcs \cup DatingPcs
    /\ "pair" \notin NamePcs \cup TitlePcs \cup DatingPcs
    /\ NamePcs \cap TitlePcs = {} /\ NamePcs \cap DatingPcs = {} /\ TitlePcs \cap DatingPcs = {}
    /\ AskingPcs \subseteq NamePcs
BY DEF NamePcs, TitlePcs, DatingPcs, AskingPcs

LEMMA GotoWithin ==
    ASSUME NEW w \in Workers, DOMAIN worker = Workers, NEW p, Goto(w, p), WorkOK(worker[w]),
           UNCHANGED <<read, span>>, IndexesKept, SamePhase(worker[w].pc, p),
           p \in AskingPcs => worker[w].ask # <<>>
    PROVE  WorkOK(worker[w])' /\ worker'[w].pc = p
<1> DEFINE r == worker[w]
           s == worker'[w]
<1>0. s = [pc |-> p, lot |-> r.lot, row |-> r.row, ask |-> r.ask, rarities |-> r.rarities,
           artist |-> r.artist, title |-> r.title, found |-> r.found]
  BY GotoFacts
<1>1. /\ s = [pc |-> p, lot |-> s.lot, row |-> s.row, ask |-> s.ask,
              rarities |-> s.rarities, artist |-> s.artist, title |-> s.title,
              found |-> s.found]
      /\ s.pc = p /\ s.lot = r.lot /\ s.row = r.row /\ s.ask = r.ask
      /\ s.rarities = r.rarities /\ s.artist = r.artist /\ s.title = r.title
      /\ s.found = r.found
  <2> HIDE DEF s, r
  <2> QED BY <1>0
<1>2. \A l, i, F : AtRow(l, i, F) => AtRow(l, i, F)' BY RowFrame
<1>3. \A l, i : OnPair(l, i) => OnPair(l, i)' BY RowFrame
<1>4. \A l, i, a, j : Asked(l, i, a, j) => Asked(l, i, a, j)' BY AskedFrame
<1>5. \A l, i, a : ArtistDone(l, i, a) => ArtistDone(l, i, a)' BY DoneFrame
<1>6. \A l, i, t : TitleDone(l, i, t) => TitleDone(l, i, t)' BY DoneFrame
<1>7. r.pc # "idle" /\ p # "idle" /\ p # "pair" BY PcFacts DEF SamePhase
<1>8. AtRow(r.lot, r.row, r.found)' /\ OnPair(r.lot, r.row)'
  <2>1. AtRow(r.lot, r.row, r.found) /\ OnPair(r.lot, r.row) BY <1>7 DEF WorkOK, SamePhase
  <2> QED BY <2>1, <1>1, <1>2, <1>3
<1> QED BY <1>1, <1>2, <1>3, <1>4, <1>5, <1>6, <1>7, PcFacts DEF WorkOK, SamePhase

LEMMA TailFacts ==
    ASSUME NEW s, IsSeq(s), s # <<>>
    PROVE  /\ IsSeq(Tail(s)) /\ Len(s) \in Nat /\ Len(s) > 0 /\ Len(Tail(s)) = Len(s) - 1
           /\ Head(s) = s[1] /\ \A i \in 1..Len(Tail(s)) : Tail(s)[i] = s[i + 1]
<1>1. s \in Seq(Range(s)) BY DEF IsSeq
<1>2. Tail(s) \in Seq(Range(s)) BY <1>1
<1>3. IsSeq(Tail(s)) BY <1>2, SeqIsSeq
<1> QED BY <1>1, <1>2, <1>3

\* One more of the names has been judged.
LEMMA AskedOne ==
    ASSUME NEW l, NEW i, NEW ask, NEW judged, Asked(l, i, ask, judged), ask # <<>>,
           artists.loaded, NEW rarity \in Share, rarity >= NameRarity(Head(ask))
    PROVE  Asked(l, i, Tail(ask), Append(judged, rarity))
<1> DEFINE both == NamesOf(l, i)
           more == Append(judged, rarity)
<1>1. judged \in Seq(Share) /\ more \in Seq(Share) /\ Len(more) = Len(judged) + 1
      /\ Len(judged) \in Nat /\ (\A k \in 1..Len(judged) : more[k] = judged[k])
      /\ more[Len(judged) + 1] = rarity
  BY DEF Asked
<1>2. IsSeq(ask) /\ Len(judged) + Len(ask) = Len(both)
      /\ (\A k \in 1..Len(ask) : ask[k] = both[Len(judged) + k])
      /\ (\A k \in 1..Len(judged) : judged[k] >= NameRarity(both[k]))
  BY DEF Asked
<1>3. /\ IsSeq(Tail(ask)) /\ Len(ask) \in Nat /\ Len(ask) > 0 /\ Len(Tail(ask)) = Len(ask) - 1
      /\ Head(ask) = ask[1] /\ \A k \in 1..Len(Tail(ask)) : Tail(ask)[k] = ask[k + 1]
  BY <1>2, TailFacts
<1> HIDE DEF both, more
<1>4. Len(more) + Len(Tail(ask)) = Len(both) BY <1>1, <1>2, <1>3
<1>5. ASSUME NEW k \in 1..Len(Tail(ask)) PROVE Tail(ask)[k] = both[Len(more) + k]
  <2>1. k + 1 \in 1..Len(ask) /\ Len(judged) + (k + 1) = Len(more) + k BY <1>1, <1>3
  <2> QED BY <1>2, <1>3, <2>1
<1>6. ASSUME NEW k \in 1..Len(more) PROVE more[k] >= NameRarity(both[k])
  <2>1. CASE k \in 1..Len(judged) BY <2>1, <1>1, <1>2
  <2>2. CASE k = Len(judged) + 1
    <3>1. ask[1] = both[k] BY <1>2, <1>3, <2>2
    <3> QED BY <3>1, <1>1, <1>3, <2>2
  <2> QED BY <2>1, <2>2, <1>1
<1>7. Asked(l, i, Tail(ask), more)
  BY <1>1, <1>3, <1>4, <1>5, <1>6 DEF Asked, both
<1> QED BY <1>7 DEF more

LEMMA FoundWithin ==
    ASSUME NEW w \in Workers, DOMAIN worker = Workers, WorkOK(worker[w]),
           worker[w].pc \in NamePcs, worker[w].ask # <<>>,
           UNCHANGED <<read, span>>, IndexesKept, artists.loaded,
           NEW rarity \in Share, rarity >= NameRarity(Head(worker[w].ask)), Found(w, rarity)
    PROVE  /\ WorkOK(worker[w])' /\ worker'[w].pc = "artist"
           /\ DOMAIN worker' = Workers
           /\ \A v \in Workers \ {w} : worker'[v] = worker[v]
<1> DEFINE r == worker[w]
           s == worker'[w]
<1>0. s = [pc |-> "artist", lot |-> r.lot, row |-> r.row, ask |-> Tail(r.ask),
           rarities |-> Append(r.rarities, rarity),
           artist |-> r.artist, title |-> r.title, found |-> r.found]
  BY DEF Found, WorkOK
<1>1. /\ s = [pc |-> s.pc, lot |-> s.lot, row |-> s.row, ask |-> s.ask,
              rarities |-> s.rarities, artist |-> s.artist, title |-> s.title,
              found |-> s.found]
      /\ s.pc = "artist" /\ s.lot = r.lot /\ s.row = r.row /\ s.ask = Tail(r.ask)
      /\ s.rarities = Append(r.rarities, rarity) /\ s.title = r.title /\ s.found = r.found
  <2> HIDE DEF s, r
  <2> QED BY <1>0
<1>2. r.pc # "idle" /\ r.pc \notin DatingPcs BY PcFacts
<1>3. AtRow(r.lot, r.row, r.found) /\ OnPair(r.lot, r.row) /\ r.title = 0
      /\ Asked(r.lot, r.row, r.ask, r.rarities)
  BY <1>2 DEF WorkOK
<1>4. Asked(r.lot, r.row, Tail(r.ask), Append(r.rarities, rarity))
  <2> HIDE DEF r
  <2>1. r.ask # <<>> /\ rarity >= NameRarity(Head(r.ask)) BY DEF r
  <2> QED BY <1>3, <2>1, AskedOne
<1>5. \A l, i, F : AtRow(l, i, F) => AtRow(l, i, F)' BY RowFrame
<1>6. \A l, i : OnPair(l, i) => OnPair(l, i)' BY RowFrame
<1>7. \A l, i, a, j : Asked(l, i, a, j) => Asked(l, i, a, j)' BY AskedFrame
<1>8. AtRow(r.lot, r.row, r.found)' /\ OnPair(r.lot, r.row)'
      /\ Asked(r.lot, r.row, r.ask, r.rarities)'
  BY <1>1, <1>3, <1>4, <1>5, <1>6, <1>7
<1>9. "artist" \notin {"idle", "pair"} \cup AskingPcs \cup TitlePcs \cup DatingPcs
      /\ "artist" \in NamePcs
  BY DEF NamePcs, AskingPcs, TitlePcs, DatingPcs
<1>10. WorkOK(r)' BY <1>1, <1>3, <1>8, <1>9 DEF WorkOK
<1>11. DOMAIN worker' = Workers /\ \A v \in Workers \ {w} : worker'[v] = worker[v]
  BY DEF Found
<1> QED BY <1>1, <1>10, <1>11

LEMMA StepFacts ==
    ASSUME ScoringInv, NEW w \in Workers, NEW p, At(w, p), StageKept
    PROVE  /\ run = "scoring" /\ UNCHANGED <<rows, run, read, span, waiting>> /\ read \in Catalogues
           /\ WorkOK(worker[w]) /\ worker[w].pc = p /\ Holds(w, p) /\ DOMAIN worker = Workers
           /\ ArtistsInv /\ TitlesInv /\ (dating = None \/ dating \in Spans)
           /\ (file # NoFile /\ file # Torn => file \in Spans)
           /\ Spans' = Spans
BY DEF ScoringInv, ThreadsOK, At, StageKept, handoff, Spans

\* A step that leaves everything but its thread as it was.
LEMMA QuietStep ==
    ASSUME ScoringInv, NEW w \in Workers, NEW p, At(w, p), StageKept,
           UNCHANGED <<file, indexes, scores>>,
           DOMAIN worker' = Workers, \A v \in Workers \ {w} : worker'[v] = worker[v],
           WorkOK(worker[w])', Holds(w, worker[w].pc)'
    PROVE  ScoringInv'
<1>1. /\ run = "scoring" /\ UNCHANGED <<rows, run, read, span, waiting>> /\ ArtistsInv /\ TitlesInv
      /\ (dating = None \/ dating \in Spans)
      /\ (file # NoFile /\ file # Torn => file \in Spans) /\ Spans' = Spans
  BY StepFacts
<1>2. IndexesKept /\ \A v : Undisturbed(v) BY IndexesIdle
<1>3. Others(w) BY <1>2 DEF Others
<1>4. ArtistsInv' /\ TitlesInv' /\ UNCHANGED <<file, dating, scores>>
  BY <1>1, ArtistsInvFrame, TitlesInvFrame DEF indexes
<1>5. ScoresOK' BY <1>1, <1>2, ScoresFrame DEF ScoringInv
<1> QED BY <1>1, <1>2, <1>3, <1>4, <1>5, StepKeeps

LEMMA AskKeeps ==
    ASSUME ScoringInv, NEW w \in Workers, AskArtist(w)
    PROVE  ScoringInv'
<1> DEFINE name == Head(worker[w].ask)
<1>1. At(w, "artist") /\ worker[w].ask # <<>> /\ StageKept /\ UNCHANGED <<file, indexes, scores>>
  BY DEF AskArtist
<1>2. /\ run = "scoring" /\ UNCHANGED <<rows, run, read, span>>
      /\ WorkOK(worker[w]) /\ worker[w].pc = "artist" /\ DOMAIN worker = Workers
      /\ ArtistsInv
  BY <1>1, StepFacts
<1>3. IndexesKept BY <1>1, IndexesIdle
<1>4. artists' = artists /\ artists'.loaded = artists.loaded BY <1>1 DEF indexes
<1>5. CASE ~artists.loaded
  <2>1. Goto(w, "await artists") BY <1>5 DEF AskArtist
  <2>2. SamePhase(worker[w].pc, "await artists") /\ "await artists" \notin AskingPcs
    BY <1>2 DEF SamePhase, NamePcs, AskingPcs
  <2>3. WorkOK(worker[w])' /\ worker'[w].pc = "await artists"
    BY <1>2, <1>3, <2>1, <2>2, GotoWithin
  <2>4. Holds(w, worker[w].pc)' BY <2>3 DEF Holds, AskingPcs
  <2>5. DOMAIN worker' = Workers /\ \A v \in Workers \ {w} : worker'[v] = worker[v]
    BY <1>2, <2>1, GotoFacts
  <2> QED BY <1>1, <2>3, <2>4, <2>5, QuietStep
<1>6. CASE artists.loaded /\ Spelling(name) # {}
  <2>1. Found(w, CountedRarity(name)) BY <1>6 DEF AskArtist
  <2>2. ArtistsWhole /\ artists.lookup \in {<<>>, LookupIndex(artists.counts)}
    BY <1>2, <1>6 DEF ArtistsInv
  <2>3. CountedRarity(name) = NameRarity(name)
    <3> HIDE DEF name
    <3> QED BY <1>6, <2>2, NameIsExact
  <2>4. artists.of \in Catalogues BY <2>2 DEF ArtistsWhole
  <2>5. NameRarity(name) \in 0..Unit
    <3> HIDE DEF name
    <3> QED BY <2>4, NameRange
  <2>6. CountedRarity(name) \in Share /\ CountedRarity(name) >= NameRarity(name)
    BY <2>3, <2>5 DEF Share, Unit
  <2>7. worker[w].pc \in NamePcs BY <1>2 DEF NamePcs
  <2>8. /\ WorkOK(worker[w])' /\ worker'[w].pc = "artist" /\ DOMAIN worker' = Workers
        /\ \A v \in Workers \ {w} : worker'[v] = worker[v]
    BY <1>1, <1>2, <1>3, <1>6, <2>1, <2>6, <2>7, FoundWithin
  <2>9. Holds(w, worker[w].pc)' BY <2>8 DEF Holds, AskingPcs
  <2> QED BY <1>1, <2>8, <2>9, QuietStep
<1>7. CASE artists.loaded /\ Spelling(name) = {}
  <2>1. Goto(w, "unseen") BY <1>7 DEF AskArtist
  <2>2. SamePhase(worker[w].pc, "unseen") BY <1>2 DEF SamePhase, NamePcs, AskingPcs
  <2>3. WorkOK(worker[w])' /\ worker'[w].pc = "unseen"
    BY <1>1, <1>2, <1>3, <2>1, <2>2, GotoWithin
  <2>4. Holds(w, worker[w].pc)' BY <2>3, <1>4, <1>7 DEF Holds, AskingPcs
  <2>5. DOMAIN worker' = Workers /\ \A v \in Workers \ {w} : worker'[v] = worker[v]
    BY <1>2, <2>1, GotoFacts
  <2> QED BY <1>1, <2>3, <2>4, <2>5, QuietStep
<1> QED BY <1>5, <1>6, <1>7

\* How rare a name that has been found, or is in no row, counts.
LEMMA JudgedName ==
    ASSUME ArtistsInv, artists.loaded, NEW n
    PROVE  /\ Spelling(n) # {} => CountedRarity(n) \in Share /\ CountedRarity(n) >= NameRarity(n)
           /\ Unit \in Share /\ Unit >= NameRarity(n)
<1>1. ArtistsWhole /\ artists.lookup \in {<<>>, LookupIndex(artists.counts)} BY DEF ArtistsInv
<1>2. artists.of \in Catalogues BY <1>1 DEF ArtistsWhole
<1>3. NameRarity(n) \in 0..Unit BY <1>2, NameRange
<1>4. Spelling(n) # {} => CountedRarity(n) = NameRarity(n) BY <1>1, NameIsExact
<1> QED BY <1>3, <1>4 DEF Share, Unit

LEMMA UnseenKeeps ==
    ASSUME ScoringInv, NEW w \in Workers, Unseen(w)
    PROVE  ScoringInv'
<1>1. At(w, "unseen") /\ StageKept /\ UNCHANGED <<file, indexes, scores>> BY DEF Unseen
<1>2. /\ run = "scoring" /\ UNCHANGED <<rows, run, read, span>>
      /\ WorkOK(worker[w]) /\ worker[w].pc = "unseen" /\ DOMAIN worker = Workers
      /\ ArtistsInv /\ Holds(w, "unseen")
  BY <1>1, StepFacts
<1>3. IndexesKept BY <1>1, IndexesIdle
<1>4. artists' = artists /\ artists.loaded BY <1>1, <1>2 DEF indexes, Holds, AskingPcs
<1>5. worker[w].ask # <<>> BY <1>2 DEF WorkOK, AskingPcs
<1>6. CASE artists.counts # <<>> /\ ~artists.current
  <2>1. Goto(w, "rebuild") BY <1>6 DEF Unseen
  <2>2. SamePhase(worker[w].pc, "rebuild") BY <1>2 DEF SamePhase, NamePcs, AskingPcs
  <2>3. WorkOK(worker[w])' /\ worker'[w].pc = "rebuild"
    BY <1>2, <1>3, <1>5, <2>1, <2>2, GotoWithin
  <2>4. Holds(w, worker[w].pc)' BY <2>3, <1>4 DEF Holds, AskingPcs
  <2>5. DOMAIN worker' = Workers /\ \A v \in Workers \ {w} : worker'[v] = worker[v]
    BY <1>2, <2>1, GotoFacts
  <2> QED BY <1>1, <2>3, <2>4, <2>5, QuietStep
<1>7. CASE ~(artists.counts # <<>> /\ ~artists.current)
  <2>1. Found(w, Unit) BY <1>7 DEF Unseen
  <2>2. Unit \in Share /\ Unit >= NameRarity(Head(worker[w].ask)) BY <1>2, <1>4, JudgedName
  <2>3. worker[w].pc \in NamePcs BY <1>2 DEF NamePcs, AskingPcs
  <2>4. /\ WorkOK(worker[w])' /\ worker'[w].pc = "artist" /\ DOMAIN worker' = Workers
        /\ \A v \in Workers \ {w} : worker'[v] = worker[v]
    BY <1>2, <1>3, <1>4, <1>5, <2>1, <2>2, <2>3, FoundWithin
  <2>5. Holds(w, worker[w].pc)' BY <2>4 DEF Holds, AskingPcs
  <2> QED BY <1>1, <2>4, <2>5, QuietStep
<1> QED BY <1>6, <1>7

\* A step that changes the index of the artists: of one that is loaded, at
\* most the lookup index; of one that is not, what the lock allows.
LEMMA ArtistStep ==
    ASSUME ScoringInv, NEW w \in Workers, NEW p, At(w, p), StageKept,
           UNCHANGED <<file, titles, dating, scores>>,
           DOMAIN worker' = Workers, \A v \in Workers \ {w} : worker'[v] = worker[v],
           artists.loaded => artists'.loaded /\ artists'.of = artists.of,
           \/ artists.lock \in {None, w}
           \/ artists.loaded /\ artists'.lock = artists.lock,
           ArtistsInv', WorkOK(worker[w])', Holds(w, worker[w].pc)'
    PROVE  ScoringInv'
<1>1. /\ run = "scoring" /\ UNCHANGED <<rows, run, read, span, waiting>> /\ TitlesInv
      /\ (dating = None \/ dating \in Spans)
      /\ (file # NoFile /\ file # Torn => file \in Spans) /\ Spans' = Spans
  BY StepFacts
<1>2. IndexesKept BY DEF IndexesKept
<1>3. ASSUME NEW v \in Workers \ {w} PROVE Undisturbed(v)
  <2>1. v # None /\ v # w BY ScoringAssumption
  <2>2. artists.lock = v => artists.loaded /\ artists'.lock = artists.lock BY <2>1
  <2>3. artists.loaded => artists'.loaded OBVIOUS
  <2> QED BY <2>2, <2>3 DEF Undisturbed
<1>4. Others(w) BY <1>3 DEF Others
<1>5. TitlesInv' BY <1>1, TitlesInvFrame
<1>6. ScoresOK' BY <1>1, <1>2, ScoresFrame DEF ScoringInv
<1> QED BY <1>1, <1>2, <1>4, <1>5, <1>6, StepKeeps

LEMMA RebuildKeeps ==
    ASSUME ScoringInv, NEW w \in Workers, Rebuild(w)
    PROVE  ScoringInv'
<1>1. /\ At(w, "rebuild") /\ StageKept /\ UNCHANGED <<file, titles, dating, scores>>
      /\ Goto(w, "rebuilt") /\ artists' = [artists EXCEPT !.lookup = LookupIndex(artists.counts)]
  BY DEF Rebuild
<1>2. /\ UNCHANGED <<rows, run, read, span>>
      /\ WorkOK(worker[w]) /\ worker[w].pc = "rebuild" /\ DOMAIN worker = Workers
      /\ ArtistsInv /\ Holds(w, "rebuild")
  BY <1>1, StepFacts
<1>3. artists.loaded /\ worker[w].ask # <<>> BY <1>2 DEF Holds, WorkOK, AskingPcs
<1>4. /\ artists'.loaded = artists.loaded /\ artists'.of = artists.of
      /\ artists'.lock = artists.lock /\ artists'.counts = artists.counts
      /\ artists'.total = artists.total /\ artists'.lookup = LookupIndex(artists.counts)
      /\ artists' = [counts |-> artists'.counts, total |-> artists'.total,
                     loaded |-> artists'.loaded, lookup |-> artists'.lookup,
                     current |-> artists'.current, lock |-> artists'.lock, of |-> artists'.of]
  BY <1>1, <1>2 DEF ArtistsInv
<1>5. ArtistsInv' BY <1>2, <1>3, <1>4 DEF ArtistsInv, ArtistsWhole
<1>6. IndexesKept BY <1>1, <1>4 DEF IndexesKept
<1>7. SamePhase(worker[w].pc, "rebuilt") BY <1>2 DEF SamePhase, NamePcs, AskingPcs
<1>8. WorkOK(worker[w])' /\ worker'[w].pc = "rebuilt"
  BY <1>1, <1>2, <1>3, <1>6, <1>7, GotoWithin
<1>9. Holds(w, worker[w].pc)' BY <1>3, <1>4, <1>8 DEF Holds, AskingPcs
<1>10. DOMAIN worker' = Workers /\ \A v \in Workers \ {w} : worker'[v] = worker[v]
  BY <1>1, <1>2, GotoFacts
<1> QED BY <1>1, <1>3, <1>4, <1>5, <1>8, <1>9, <1>10, ArtistStep

LEMMA RebuiltKeeps ==
    ASSUME ScoringInv, NEW w \in Workers, Rebuilt(w)
    PROVE  ScoringInv'
<1> DEFINE name == Head(worker[w].ask)
           rarity == IF Spelling(name) # {} THEN CountedRarity(name) ELSE Unit
<1>1. /\ At(w, "rebuilt") /\ StageKept /\ UNCHANGED <<file, titles, dating, scores>>
      /\ Found(w, rarity) /\ artists' = [artists EXCEPT !.current = TRUE]
  BY DEF Rebuilt
<1>2. /\ UNCHANGED <<rows, run, read, span>>
      /\ WorkOK(worker[w]) /\ worker[w].pc = "rebuilt" /\ DOMAIN worker = Workers
      /\ ArtistsInv /\ Holds(w, "rebuilt")
  BY <1>1, StepFacts
<1>3. artists.loaded /\ worker[w].ask # <<>> BY <1>2 DEF Holds, WorkOK, AskingPcs
<1>4. /\ artists'.loaded = artists.loaded /\ artists'.of = artists.of
      /\ artists'.lock = artists.lock /\ artists'.counts = artists.counts
      /\ artists'.total = artists.total /\ artists'.lookup = artists.lookup
      /\ artists' = [counts |-> artists'.counts, total |-> artists'.total,
                     loaded |-> artists'.loaded, lookup |-> artists'.lookup,
                     current |-> artists'.current, lock |-> artists'.lock, of |-> artists'.of]
  BY <1>1, <1>2 DEF ArtistsInv
<1>5. ArtistsInv' BY <1>2, <1>3, <1>4 DEF ArtistsInv, ArtistsWhole
<1>6. IndexesKept BY <1>1, <1>4 DEF IndexesKept
<1>7. rarity \in Share /\ rarity >= NameRarity(name)
  <2> HIDE DEF name
  <2> QED BY <1>2, <1>3, JudgedName
<1>8. worker[w].pc \in NamePcs BY <1>2 DEF NamePcs, AskingPcs
<1>9. /\ WorkOK(worker[w])' /\ worker'[w].pc = "artist" /\ DOMAIN worker' = Workers
      /\ \A v \in Workers \ {w} : worker'[v] = worker[v]
  <2> HIDE DEF rarity
  <2> QED BY <1>1, <1>2, <1>3, <1>6, <1>7, <1>8, FoundWithin
<1>10. Holds(w, worker[w].pc)' BY <1>9 DEF Holds, AskingPcs
<1> QED BY <1>1, <1>3, <1>4, <1>5, <1>9, <1>10, ArtistStep

LEMMA LockArtistsKeeps ==
    ASSUME ScoringInv, NEW w \in Workers, LockArtists(w)
    PROVE  ScoringInv'
<1>1. /\ At(w, "await artists") /\ artists.lock = None /\ StageKept
      /\ UNCHANGED <<file, titles, dating, scores>>
  BY DEF LockArtists
<1>2. /\ UNCHANGED <<rows, run, read, span>>
      /\ WorkOK(worker[w]) /\ worker[w].pc = "await artists" /\ DOMAIN worker = Workers
      /\ ArtistsInv
  BY <1>1, StepFacts
<1>3. CASE artists.loaded
  <2>1. Goto(w, "artist") /\ UNCHANGED indexes BY <1>1, <1>3 DEF LockArtists, indexes
  <2>2. IndexesKept BY <2>1, IndexesIdle
  <2>3. SamePhase(worker[w].pc, "artist") /\ "artist" \notin AskingPcs
    BY <1>2 DEF SamePhase, NamePcs, AskingPcs
  <2>4. WorkOK(worker[w])' /\ worker'[w].pc = "artist"
    BY <1>2, <2>1, <2>2, <2>3, GotoWithin
  <2>5. Holds(w, worker[w].pc)' BY <2>4 DEF Holds, AskingPcs
  <2>6. DOMAIN worker' = Workers /\ \A v \in Workers \ {w} : worker'[v] = worker[v]
    BY <1>2, <2>1, GotoFacts
  <2> QED BY <1>1, <2>1, <2>4, <2>5, <2>6, QuietStep
<1>4. CASE ~artists.loaded
  <2>1. Goto(w, "load artists") /\ artists' = [artists EXCEPT !.lock = w]
    BY <1>4 DEF LockArtists
  <2>2. /\ artists'.loaded = artists.loaded /\ artists'.of = artists.of
        /\ artists'.lock = w /\ artists'.counts = artists.counts
        /\ artists'.total = artists.total /\ artists'.lookup = artists.lookup
        /\ artists' = [counts |-> artists'.counts, total |-> artists'.total,
                       loaded |-> artists'.loaded, lookup |-> artists'.lookup,
                       current |-> artists'.current, lock |-> artists'.lock,
                       of |-> artists'.of]
    BY <1>2, <2>1 DEF ArtistsInv
  <2>3. ArtistsInv' BY <1>2, <1>4, <2>2 DEF ArtistsInv, ArtistsWhole
  <2>4. IndexesKept BY <1>1, <2>2 DEF IndexesKept
  <2>5. SamePhase(worker[w].pc, "load artists") /\ "load artists" \notin AskingPcs
    BY <1>2 DEF SamePhase, NamePcs, AskingPcs
  <2>6. WorkOK(worker[w])' /\ worker'[w].pc = "load artists"
    BY <1>2, <2>1, <2>4, <2>5, GotoWithin
  <2>7. Holds(w, worker[w].pc)' BY <1>4, <2>2, <2>6 DEF Holds, AskingPcs
  <2>8. DOMAIN worker' = Workers /\ \A v \in Workers \ {w} : worker'[v] = worker[v]
    BY <1>2, <2>1, GotoFacts
  <2> QED BY <1>1, <1>4, <2>3, <2>6, <2>7, <2>8, ArtistStep
<1> QED BY <1>3, <1>4

LEMMA LoadArtistsKeeps ==
    ASSUME ScoringInv, NEW w \in Workers, LoadArtists(w)
    PROVE  ScoringInv'
<1>1. /\ At(w, "load artists") /\ StageKept /\ UNCHANGED <<file, titles, dating, scores>>
      /\ Goto(w, "raise artists")
      /\ artists' = [artists EXCEPT !.counts = ArtistCounts(rows), !.of = rows,
                                    !.total = Cardinality(Documents(rows))]
  BY DEF LoadArtists
<1>2. /\ UNCHANGED <<rows, run, read, span>>
      /\ WorkOK(worker[w]) /\ worker[w].pc = "load artists" /\ DOMAIN worker = Workers
      /\ ArtistsInv /\ Holds(w, "load artists")
  BY <1>1, StepFacts
<1>3. ~artists.loaded /\ artists.lock = w BY <1>2 DEF Holds
<1>4. /\ artists'.loaded = artists.loaded /\ artists'.of = rows
      /\ artists'.lock = artists.lock /\ artists'.counts = ArtistCounts(rows)
      /\ artists'.total = Cardinality(Documents(rows)) /\ artists'.lookup = artists.lookup
      /\ artists' = [counts |-> artists'.counts, total |-> artists'.total,
                     loaded |-> artists'.loaded, lookup |-> artists'.lookup,
                     current |-> artists'.current, lock |-> artists'.lock, of |-> artists'.of]
  BY <1>1, <1>2 DEF ArtistsInv
<1>5. rows \in Catalogues BY DEF ScoringInv
<1>6. ArtistsWhole' BY <1>4, <1>5 DEF ArtistsWhole
<1>7. artists'.lookup = <<>> BY <1>2, <1>3, <1>4 DEF ArtistsInv
<1>8. ArtistsInv' BY <1>3, <1>4, <1>6, <1>7 DEF ArtistsInv
<1>9. IndexesKept BY <1>1, <1>3 DEF IndexesKept
<1>10. SamePhase(worker[w].pc, "raise artists") /\ "raise artists" \notin AskingPcs
  BY <1>2 DEF SamePhase, NamePcs, AskingPcs
<1>11. WorkOK(worker[w])' /\ worker'[w].pc = "raise artists"
  BY <1>1, <1>2, <1>9, <1>10, GotoWithin
<1>12. Holds(w, worker[w].pc)' BY <1>3, <1>4, <1>6, <1>11 DEF Holds, AskingPcs
<1>13. DOMAIN worker' = Workers /\ \A v \in Workers \ {w} : worker'[v] = worker[v]
  BY <1>1, <1>2, GotoFacts
<1> QED BY <1>1, <1>3, <1>8, <1>11, <1>12, <1>13, ArtistStep

LEMMA RaiseArtistsKeeps ==
    ASSUME ScoringInv, NEW w \in Workers, RaiseArtists(w)
    PROVE  ScoringInv'
<1>1. /\ At(w, "raise artists") /\ StageKept /\ UNCHANGED <<file, titles, dating, scores>>
      /\ Goto(w, "index artists") /\ artists' = [artists EXCEPT !.loaded = TRUE]
  BY DEF RaiseArtists
<1>2. /\ UNCHANGED <<rows, run, read, span>>
      /\ WorkOK(worker[w]) /\ worker[w].pc = "raise artists" /\ DOMAIN worker = Workers
      /\ ArtistsInv /\ Holds(w, "raise artists")
  BY <1>1, StepFacts
<1>3. ~artists.loaded /\ artists.lock = w /\ ArtistsWhole BY <1>2 DEF Holds
<1>4. /\ artists'.loaded = TRUE /\ artists'.of = artists.of
      /\ artists'.lock = artists.lock /\ artists'.counts = artists.counts
      /\ artists'.total = artists.total /\ artists'.lookup = artists.lookup
      /\ artists' = [counts |-> artists'.counts, total |-> artists'.total,
                     loaded |-> artists'.loaded, lookup |-> artists'.lookup,
                     current |-> artists'.current, lock |-> artists'.lock, of |-> artists'.of]
  BY <1>1, <1>2 DEF ArtistsInv
<1>5. ArtistsInv' BY <1>2, <1>3, <1>4 DEF ArtistsInv, ArtistsWhole
<1>6. IndexesKept BY <1>1, <1>3 DEF IndexesKept
<1>7. SamePhase(worker[w].pc, "index artists") /\ "index artists" \notin AskingPcs
  BY <1>2 DEF SamePhase, NamePcs, AskingPcs
<1>8. WorkOK(worker[w])' /\ worker'[w].pc = "index artists"
  BY <1>1, <1>2, <1>6, <1>7, GotoWithin
<1>9. Holds(w, worker[w].pc)' BY <1>3, <1>4, <1>8 DEF Holds, AskingPcs
<1>10. DOMAIN worker' = Workers /\ \A v \in Workers \ {w} : worker'[v] = worker[v]
  BY <1>1, <1>2, GotoFacts
<1> QED BY <1>1, <1>3, <1>5, <1>8, <1>9, <1>10, ArtistStep

LEMMA IndexArtistsKeeps ==
    ASSUME ScoringInv, NEW w \in Workers, IndexArtists(w)
    PROVE  ScoringInv'
<1>1. /\ At(w, "index artists") /\ StageKept /\ UNCHANGED <<file, titles, dating, scores>>
      /\ Goto(w, "free artists")
      /\ artists' = [artists EXCEPT !.lookup = LookupIndex(artists.counts)]
  BY DEF IndexArtists
<1>2. /\ UNCHANGED <<rows, run, read, span>>
      /\ WorkOK(worker[w]) /\ worker[w].pc = "index artists" /\ DOMAIN worker = Workers
      /\ ArtistsInv /\ Holds(w, "index artists")
  BY <1>1, StepFacts
<1>3. artists.loaded /\ artists.lock = w BY <1>2 DEF Holds
<1>4. /\ artists'.loaded = artists.loaded /\ artists'.of = artists.of
      /\ artists'.lock = artists.lock /\ artists'.counts = artists.counts
      /\ artists'.total = artists.total /\ artists'.lookup = LookupIndex(artists.counts)
      /\ artists' = [counts |-> artists'.counts, total |-> artists'.total,
                     loaded |-> artists'.loaded, lookup |-> artists'.lookup,
                     current |-> artists'.current, lock |-> artists'.lock, of |-> artists'.of]
  BY <1>1, <1>2 DEF ArtistsInv
<1>5. ArtistsInv' BY <1>2, <1>3, <1>4 DEF ArtistsInv, ArtistsWhole
<1>6. IndexesKept BY <1>1, <1>4 DEF IndexesKept
<1>7. SamePhase(worker[w].pc, "free artists") /\ "free artists" \notin AskingPcs
  BY <1>2 DEF SamePhase, NamePcs, AskingPcs
<1>8. WorkOK(worker[w])' /\ worker'[w].pc = "free artists"
  BY <1>1, <1>2, <1>6, <1>7, GotoWithin
<1>9. Holds(w, worker[w].pc)' BY <1>3, <1>4, <1>8 DEF Holds, AskingPcs
<1>10. DOMAIN worker' = Workers /\ \A v \in Workers \ {w} : worker'[v] = worker[v]
  BY <1>1, <1>2, GotoFacts
<1> QED BY <1>1, <1>3, <1>4, <1>5, <1>8, <1>9, <1>10, ArtistStep

LEMMA FreeArtistsKeeps ==
    ASSUME ScoringInv, NEW w \in Workers, FreeArtists(w)
    PROVE  ScoringInv'
<1>1. /\ At(w, "free artists") /\ StageKept /\ UNCHANGED <<file, titles, dating, scores>>
      /\ Goto(w, "artist")
      /\ artists' = [artists EXCEPT !.current = TRUE, !.lock = None]
  BY DEF FreeArtists
<1>2. /\ UNCHANGED <<rows, run, read, span>>
      /\ WorkOK(worker[w]) /\ worker[w].pc = "free artists" /\ DOMAIN worker = Workers
      /\ ArtistsInv /\ Holds(w, "free artists")
  BY <1>1, StepFacts
<1>3. artists.loaded /\ artists.lock = w BY <1>2 DEF Holds
<1>4. /\ artists'.loaded = artists.loaded /\ artists'.of = artists.of
      /\ artists'.counts = artists.counts
      /\ artists'.total = artists.total /\ artists'.lookup = artists.lookup
      /\ artists' = [counts |-> artists'.counts, total |-> artists'.total,
                     loaded |-> artists'.loaded, lookup |-> artists'.lookup,
                     current |-> artists'.current, lock |-> artists'.lock, of |-> artists'.of]
  BY <1>1, <1>2 DEF ArtistsInv
<1>5. ArtistsInv' BY <1>2, <1>3, <1>4 DEF ArtistsInv, ArtistsWhole
<1>6. IndexesKept BY <1>1, <1>4 DEF IndexesKept
<1>7. SamePhase(worker[w].pc, "artist") /\ "artist" \notin AskingPcs
  BY <1>2 DEF SamePhase, NamePcs, AskingPcs
<1>8. WorkOK(worker[w])' /\ worker'[w].pc = "artist"
  BY <1>1, <1>2, <1>6, <1>7, GotoWithin
<1>9. Holds(w, worker[w].pc)' BY <1>8 DEF Holds, AskingPcs
<1>10. DOMAIN worker' = Workers /\ \A v \in Workers \ {w} : worker'[v] = worker[v]
  BY <1>1, <1>2, GotoFacts
<1> QED BY <1>1, <1>3, <1>4, <1>5, <1>8, <1>9, <1>10, ArtistStep

\* A step that changes the index of the titles.
LEMMA TitleStep ==
    ASSUME ScoringInv, NEW w \in Workers, NEW p, At(w, p), StageKept,
           UNCHANGED <<file, artists, dating, scores>>,
           DOMAIN worker' = Workers, \A v \in Workers \ {w} : worker'[v] = worker[v],
           ~titles.loaded, titles.lock \in {None, w},
           TitlesInv', WorkOK(worker[w])', Holds(w, worker[w].pc)'
    PROVE  ScoringInv'
<1>1. /\ run = "scoring" /\ UNCHANGED <<rows, run, read, span, waiting>> /\ ArtistsInv
      /\ (dating = None \/ dating \in Spans)
      /\ (file # NoFile /\ file # Torn => file \in Spans) /\ Spans' = Spans
  BY StepFacts
<1>2. IndexesKept BY DEF IndexesKept
<1>3. ASSUME NEW v \in Workers \ {w} PROVE Undisturbed(v)
  <2>1. v # None /\ v # w BY ScoringAssumption
  <2>2. titles.lock # v BY <2>1
  <2> QED BY <2>2 DEF Undisturbed
<1>4. Others(w) BY <1>3 DEF Others
<1>5. ArtistsInv' BY <1>1, ArtistsInvFrame
<1>6. ScoresOK' BY <1>1, <1>2, ScoresFrame DEF ScoringInv
<1> QED BY <1>1, <1>2, <1>4, <1>5, <1>6, StepKeeps

LEMMA LockTitlesKeeps ==
    ASSUME ScoringInv, NEW w \in Workers, LockTitles(w)
    PROVE  ScoringInv'
<1>1. /\ At(w, "await titles") /\ titles.lock = None /\ StageKept
      /\ UNCHANGED <<file, artists, dating, scores>>
  BY DEF LockTitles
<1>2. /\ UNCHANGED <<rows, run, read, span>>
      /\ WorkOK(worker[w]) /\ worker[w].pc = "await titles" /\ DOMAIN worker = Workers
      /\ TitlesInv
  BY <1>1, StepFacts
<1>3. CASE titles.loaded
  <2>1. Goto(w, "title") /\ UNCHANGED indexes BY <1>1, <1>3 DEF LockTitles, indexes
  <2>2. IndexesKept BY <2>1, IndexesIdle
  <2>3. SamePhase(worker[w].pc, "title") /\ "title" \notin AskingPcs
    BY <1>2 DEF SamePhase, TitlePcs, AskingPcs
  <2>4. WorkOK(worker[w])' /\ worker'[w].pc = "title"
    BY <1>2, <2>1, <2>2, <2>3, GotoWithin
  <2>5. Holds(w, worker[w].pc)' BY <2>4 DEF Holds, AskingPcs
  <2>6. DOMAIN worker' = Workers /\ \A v \in Workers \ {w} : worker'[v] = worker[v]
    BY <1>2, <2>1, GotoFacts
  <2> QED BY <1>1, <2>1, <2>4, <2>5, <2>6, QuietStep
<1>4. CASE ~titles.loaded
  <2>1. Goto(w, "load titles") /\ titles' = [titles EXCEPT !.lock = w]
    BY <1>4 DEF LockTitles
  <2>2. /\ titles'.loaded = titles.loaded /\ titles'.lock = w
        /\ titles' = [counts |-> titles'.counts, total |-> titles'.total,
                      loaded |-> titles'.loaded, lock |-> titles'.lock, of |-> titles'.of,
                      totalOf |-> titles'.totalOf]
    BY <1>2, <2>1 DEF TitlesInv
  <2>3. TitlesInv' BY <1>4, <2>2 DEF TitlesInv
  <2>4. IndexesKept BY <1>1, <1>4 DEF IndexesKept
  <2>5. SamePhase(worker[w].pc, "load titles") /\ "load titles" \notin AskingPcs
    BY <1>2 DEF SamePhase, TitlePcs, AskingPcs
  <2>6. WorkOK(worker[w])' /\ worker'[w].pc = "load titles"
    BY <1>2, <2>1, <2>4, <2>5, GotoWithin
  <2>7. Holds(w, worker[w].pc)' BY <1>4, <2>2, <2>6 DEF Holds, AskingPcs
  <2>8. DOMAIN worker' = Workers /\ \A v \in Workers \ {w} : worker'[v] = worker[v]
    BY <1>2, <2>1, GotoFacts
  <2> QED BY <1>1, <1>4, <2>3, <2>6, <2>7, <2>8, TitleStep
<1> QED BY <1>3, <1>4

LEMMA CountTitlesKeeps ==
    ASSUME ScoringInv, NEW w \in Workers, CountTitles(w)
    PROVE  ScoringInv'
<1>1. /\ At(w, "load titles") /\ StageKept /\ UNCHANGED <<file, artists, dating, scores>>
      /\ Goto(w, "total titles")
      /\ titles' = [titles EXCEPT !.counts = TitleCounts(rows), !.of = rows]
  BY DEF CountTitles
<1>2. /\ UNCHANGED <<rows, run, read, span>>
      /\ WorkOK(worker[w]) /\ worker[w].pc = "load titles" /\ DOMAIN worker = Workers
      /\ TitlesInv /\ Holds(w, "load titles")
  BY <1>1, StepFacts
<1>3. ~titles.loaded /\ titles.lock = w BY <1>2 DEF Holds
<1>4. /\ titles'.loaded = titles.loaded /\ titles'.lock = titles.lock
      /\ titles'.of = rows /\ titles'.counts = TitleCounts(rows)
      /\ titles' = [counts |-> titles'.counts, total |-> titles'.total,
                    loaded |-> titles'.loaded, lock |-> titles'.lock, of |-> titles'.of,
                    totalOf |-> titles'.totalOf]
  BY <1>1, <1>2 DEF TitlesInv
<1>5. rows \in Catalogues BY DEF ScoringInv
<1>6. TitlesCounted' BY <1>4, <1>5 DEF TitlesCounted
<1>7. TitlesInv' BY <1>3, <1>4 DEF TitlesInv
<1>8. IndexesKept BY <1>1, <1>3 DEF IndexesKept
<1>9. SamePhase(worker[w].pc, "total titles") /\ "total titles" \notin AskingPcs
  BY <1>2 DEF SamePhase, TitlePcs, AskingPcs
<1>10. WorkOK(worker[w])' /\ worker'[w].pc = "total titles"
  BY <1>1, <1>2, <1>8, <1>9, GotoWithin
<1>11. Holds(w, worker[w].pc)' BY <1>3, <1>4, <1>6, <1>10 DEF Holds, AskingPcs
<1>12. DOMAIN worker' = Workers /\ \A v \in Workers \ {w} : worker'[v] = worker[v]
  BY <1>1, <1>2, GotoFacts
<1> QED BY <1>1, <1>3, <1>7, <1>10, <1>11, <1>12, TitleStep

LEMMA TotalTitlesKeeps ==
    ASSUME ScoringInv, NEW w \in Workers, TotalTitles(w)
    PROVE  ScoringInv'
<1>1. /\ At(w, "total titles") /\ StageKept /\ UNCHANGED <<file, artists, dating, scores>>
      /\ Goto(w, "free titles")
      /\ titles' = [titles EXCEPT !.total = Cardinality(Titled(rows)), !.totalOf = rows]
  BY DEF TotalTitles
<1>2. /\ UNCHANGED <<rows, run, read, span>>
      /\ WorkOK(worker[w]) /\ worker[w].pc = "total titles" /\ DOMAIN worker = Workers
      /\ TitlesInv /\ Holds(w, "total titles")
  BY <1>1, StepFacts
<1>3. ~titles.loaded /\ titles.lock = w BY <1>2 DEF Holds
<1>4. /\ titles'.loaded = titles.loaded /\ titles'.lock = titles.lock
      /\ titles'.of = titles.of /\ titles'.counts = titles.counts
      /\ titles'.totalOf = rows /\ titles'.total = Cardinality(Titled(rows))
      /\ titles' = [counts |-> titles'.counts, total |-> titles'.total,
                    loaded |-> titles'.loaded, lock |-> titles'.lock, of |-> titles'.of,
                    totalOf |-> titles'.totalOf]
  BY <1>1, <1>2 DEF TitlesInv
<1>5. rows \in Catalogues BY DEF ScoringInv
<1>6. TitlesWhole' BY <1>2, <1>4, <1>5 DEF Holds, TitlesWhole, TitlesCounted
<1>7. TitlesInv' BY <1>3, <1>4 DEF TitlesInv
<1>8. IndexesKept BY <1>1, <1>3 DEF IndexesKept
<1>9. SamePhase(worker[w].pc, "free titles") /\ "free titles" \notin AskingPcs
  BY <1>2 DEF SamePhase, TitlePcs, AskingPcs
<1>10. WorkOK(worker[w])' /\ worker'[w].pc = "free titles"
  BY <1>1, <1>2, <1>8, <1>9, GotoWithin
<1>11. Holds(w, worker[w].pc)' BY <1>3, <1>4, <1>6, <1>10 DEF Holds, AskingPcs
<1>12. DOMAIN worker' = Workers /\ \A v \in Workers \ {w} : worker'[v] = worker[v]
  BY <1>1, <1>2, GotoFacts
<1> QED BY <1>1, <1>3, <1>7, <1>10, <1>11, <1>12, TitleStep

LEMMA FreeTitlesKeeps ==
    ASSUME ScoringInv, NEW w \in Workers, FreeTitles(w)
    PROVE  ScoringInv'
<1>1. /\ At(w, "free titles") /\ StageKept /\ UNCHANGED <<file, artists, dating, scores>>
      /\ Goto(w, "title")
      /\ titles' = [titles EXCEPT !.loaded = TRUE, !.lock = None]
  BY DEF FreeTitles
<1>2. /\ UNCHANGED <<rows, run, read, span>>
      /\ WorkOK(worker[w]) /\ worker[w].pc = "free titles" /\ DOMAIN worker = Workers
      /\ TitlesInv /\ Holds(w, "free titles")
  BY <1>1, StepFacts
<1>3. ~titles.loaded /\ titles.lock = w /\ TitlesWhole BY <1>2 DEF Holds
<1>4. /\ titles'.loaded = TRUE /\ titles'.of = titles.of /\ titles'.totalOf = titles.totalOf
      /\ titles'.counts = titles.counts /\ titles'.total = titles.total
      /\ titles' = [counts |-> titles'.counts, total |-> titles'.total,
                    loaded |-> titles'.loaded, lock |-> titles'.lock, of |-> titles'.of,
                    totalOf |-> titles'.totalOf]
  BY <1>1, <1>2 DEF TitlesInv
<1>5. TitlesInv' BY <1>3, <1>4 DEF TitlesInv, TitlesWhole, TitlesCounted
<1>6. IndexesKept BY <1>1, <1>3 DEF IndexesKept
<1>7. SamePhase(worker[w].pc, "title") /\ "title" \notin AskingPcs
  BY <1>2 DEF SamePhase, TitlePcs, AskingPcs
<1>8. WorkOK(worker[w])' /\ worker'[w].pc = "title"
  BY <1>1, <1>2, <1>6, <1>7, GotoWithin
<1>9. Holds(w, worker[w].pc)' BY <1>8 DEF Holds, AskingPcs
<1>10. DOMAIN worker' = Workers /\ \A v \in Workers \ {w} : worker'[v] = worker[v]
  BY <1>1, <1>2, GotoFacts
<1> QED BY <1>1, <1>3, <1>5, <1>8, <1>9, <1>10, TitleStep

LEMMA SlicePart ==
    ASSUME NEW s \in Seq(Share), NEW m \in Nat, NEW n \in Nat, m + n <= Len(s)
    PROVE  /\ SubSeq(s, m + 1, m + n) \in Seq(Share) /\ Len(SubSeq(s, m + 1, m + n)) = n
           /\ \A k \in 1..n : SubSeq(s, m + 1, m + n)[k] = s[m + k]
OBVIOUS

\* When every name has been judged the mean is not below what it should be.
LEMMA JudgedArtists ==
    ASSUME NEW l, NEW i, NEW judged, Asked(l, i, <<>>, judged), ArtistsInv,
           Comparable(read[i]), Comparable(LotRow(l)),
           NEW n, n = Len(KnownNames(read[i].names))
    PROVE  ArtistDone(l, i, (MeanOf(SubSeq(judged, 1, n))
                             + MeanOf(SubSeq(judged, n + 1, Len(judged)))) \div 2)
<1> DEFINE a == KnownNames(read[i].names)
           b == KnownNames(LotRow(l).names)
           m == Len(b)
           x == SubSeq(judged, 1, n)
           y == SubSeq(judged, n + 1, Len(judged))
           ra == [k \in DOMAIN a |-> NameRarity(a[k])]
           rb == [k \in DOMAIN b |-> NameRarity(b[k])]
<1>1. IsSeq(a) /\ IsSeq(b) BY NamesSeq
<1>2. a # <<>> /\ b # <<>> BY DEF Asked, BothNamed
<1>3. n \in Nat \ {0} /\ m \in Nat \ {0} /\ DOMAIN a = 1..n /\ DOMAIN b = 1..m
  BY <1>1, <1>2, PositionsFinite
<1>4. Len(NamesOf(l, i)) = n + m /\ (\A k \in 1..n : NamesOf(l, i)[k] = a[k])
      /\ (\A k \in 1..m : NamesOf(l, i)[n + k] = b[k])
  <2>1. NamesOf(l, i) = a \o b BY DEF NamesOf
  <2>2. a \in Seq(Range(a) \cup Range(b)) /\ b \in Seq(Range(a) \cup Range(b))
    BY <1>1 DEF IsSeq
  <2> DEFINE S == Range(a) \cup Range(b)
  <2>3. a \in Seq(S) /\ b \in Seq(S) /\ Len(a) = n /\ Len(b) = m BY <2>2
  <2> HIDE DEF S, a, b
  <2>4. /\ Len(a \o b) = Len(a) + Len(b)
        /\ \A k \in 1..(Len(a) + Len(b)) : (a \o b)[k] = IF k <= Len(a) THEN a[k] ELSE b[k - Len(a)]
    BY <2>3, ConcatProperties
  <2>5. ASSUME NEW k \in 1..n PROVE (a \o b)[k] = a[k]
    <3>1. k \in 1..(Len(a) + Len(b)) /\ k <= Len(a) BY <2>3, <1>3
    <3> QED BY <3>1, <2>4
  <2>6. ASSUME NEW k \in 1..Len(b) PROVE (a \o b)[n + k] = b[k]
    <3>1. n + k \in 1..(Len(a) + Len(b)) /\ ~(n + k <= Len(a)) /\ (n + k) - Len(a) = k
      BY <2>3, <1>3
    <3> QED BY <3>1, <2>4
  <2> QED BY <2>1, <2>3, <2>4, <2>5, <2>6
<1>5. judged \in Seq(Share) /\ Len(judged) = n + m BY <1>3, <1>4 DEF Asked
<1>6. artists.loaded
  <2>1. judged # <<>> BY <1>3, <1>5
  <2> QED BY <2>1 DEF Asked
<1>7. \A k : NameRarity(k) \in Int
  <2>1. artists.of \in Catalogues BY <1>6 DEF ArtistsInv, ArtistsWhole
  <2>2. \A k : NameRarity(k) \in 0..Unit BY <2>1, NameRange
  <2>3. \A z \in 0..Unit : z \in Int BY DEF Unit
  <2> QED BY <2>2, <2>3
<1>8. \A k \in 1..(n + m) : judged[k] >= NameRarity(NamesOf(l, i)[k])
  BY <1>5 DEF Asked
<1>8a. (\A k \in Share : k \in Int) /\ \A z \in Seq(Share) : z \in Seq(Int)
  <2>1. Share \subseteq Int BY ShareFacts
  <2>2. ASSUME NEW z \in Seq(Share) PROVE z \in Seq(Int)
    <3>1. Len(z) \in Nat /\ z \in [1..Len(z) -> Share] OBVIOUS
    <3>2. z \in [1..Len(z) -> Int] BY <2>1, <3>1
    <3> QED BY <3>1, <3>2
  <2> QED BY <2>1, <2>2
<1> HIDE DEF a, b, m
<1>9. x \in Seq(Share) /\ Len(x) = n /\ (\A k \in 1..n : x[k] = judged[k])
  <2>1. 0 + n <= Len(judged) BY <1>3, <1>5
  <2>2. /\ SubSeq(judged, 0 + 1, 0 + n) \in Seq(Share) /\ Len(SubSeq(judged, 0 + 1, 0 + n)) = n
        /\ \A k \in 1..n : SubSeq(judged, 0 + 1, 0 + n)[k] = judged[0 + k]
    BY <1>3, <1>5, <2>1, SlicePart
  <2>3. 0 + 1 = 1 /\ 0 + n = n /\ \A k \in 1..n : 0 + k = k BY <1>3
  <2> QED BY <2>2, <2>3
<1>10. y \in Seq(Share) /\ Len(y) = m /\ (\A k \in 1..m : y[k] = judged[n + k])
  BY <1>3, <1>5, SlicePart
<1>11. ra \in Seq(Int) /\ Len(ra) = n /\ ra # <<>> /\ \A k \in 1..n : ra[k] = NameRarity(a[k])
  <2>1. ra = [k \in 1..n |-> NameRarity(a[k])] BY <1>3
  <2>2. ra \in [1..n -> Int] BY <1>7, <2>1
  <2> QED BY <1>3, <2>1, <2>2
<1>12. rb \in Seq(Int) /\ Len(rb) = m /\ rb # <<>> /\ \A k \in 1..m : rb[k] = NameRarity(b[k])
  <2>1. rb = [k \in 1..m |-> NameRarity(b[k])] BY <1>3
  <2>2. rb \in [1..m -> Int] BY <1>7, <2>1
  <2> QED BY <1>3, <2>1, <2>2
<1> HIDE DEF x, y, ra, rb
<1>13. \A k \in 1..n : ra[k] <= x[k]
  <2>1. ASSUME NEW k \in 1..n PROVE ra[k] <= x[k]
    <3>1. k \in 1..(n + m) BY <1>3
    <3>2. judged[k] >= NameRarity(a[k]) BY <3>1, <1>4, <1>8
    <3>3. judged[k] \in Int /\ NameRarity(a[k]) \in Int BY <3>1, <1>5, <1>7, <1>8a
    <3> QED BY <3>2, <3>3, <1>9, <1>11
  <2> QED BY <2>1
<1>14. \A k \in 1..m : rb[k] <= y[k]
  <2>1. ASSUME NEW k \in 1..m PROVE rb[k] <= y[k]
    <3>1. n + k \in 1..(n + m) BY <1>3
    <3>2. judged[n + k] >= NameRarity(b[k]) BY <3>1, <1>4, <1>8
    <3>3. judged[n + k] \in Int /\ NameRarity(b[k]) \in Int BY <3>1, <1>5, <1>7, <1>8a
    <3> QED BY <3>2, <3>3, <1>10, <1>12
  <2> QED BY <2>1
<1>15. MeanOf(ra) \in Int /\ MeanOf(x) \in Int /\ MeanOf(ra) <= MeanOf(x)
  BY <1>8a, <1>9, <1>11, <1>13, MeanLe
<1>16. MeanOf(rb) \in Int /\ MeanOf(y) \in Int /\ MeanOf(rb) <= MeanOf(y)
  BY <1>8a, <1>10, <1>12, <1>14, MeanLe
<1>17. ArtistRarity(read[i], LotRow(l)) = (MeanOf(ra) + MeanOf(rb)) \div 2
  <2>1. MeanRarity(a) = MeanOf(ra) /\ MeanRarity(b) = MeanOf(rb) BY DEF MeanRarity, ra, rb
  <2> QED BY <2>1, <1>2 DEF ArtistRarity, a, b
<1> DEFINE s == MeanOf(ra) + MeanOf(rb)
           t == MeanOf(x) + MeanOf(y)
<1>18. s \in Int /\ t \in Int /\ s <= t BY <1>15, <1>16
<1>18a. t \div 2 \in Share
  <2>1. x # <<>> /\ y # <<>> BY <1>3, <1>9, <1>10
  <2>2. MeanOf(x) \in Share /\ MeanOf(y) \in Share BY <1>9, <1>10, <2>1, MeanShare
  <2> QED BY <2>2, ShareFacts
<1> HIDE DEF s, t
<1>19. s \div 2 \in Int /\ t \div 2 \in Int /\ s \div 2 <= t \div 2 BY <1>18, QuotientLe
<1>20. ArtistDone(l, i, t \div 2)
  <2>1. ArtistRarity(read[i], LotRow(l)) = s \div 2 BY <1>17 DEF s
  <2> QED BY <2>1, <1>6, <1>18a, <1>19 DEF ArtistDone
<1> QED BY <1>20 DEF t, x, y

LEMMA ArtistsJudgedKeeps ==
    ASSUME DatesInv, ScoringInv, NEW w \in Workers, ArtistsJudged(w)
    PROVE  ScoringInv'
<1> DEFINE r == worker[w]
           s == worker'[w]
           n == Len(KnownNames(Lost(w).names))
           mean == (MeanOf(SubSeq(r.rarities, 1, n))
                    + MeanOf(SubSeq(r.rarities, n + 1, Len(r.rarities)))) \div 2
<1>1. At(w, "artist") /\ r.ask = <<>> /\ StageKept /\ UNCHANGED <<file, indexes, scores>>
  BY DEF ArtistsJudged
<1>2. /\ run = "scoring" /\ UNCHANGED <<rows, run, read, span>> /\ read \in Catalogues
      /\ WorkOK(r) /\ r.pc = "artist" /\ DOMAIN worker = Workers /\ ArtistsInv
  BY <1>1, StepFacts
<1>3. IndexesKept BY <1>1, IndexesIdle
<1>4. worker' = [worker EXCEPT ![w].pc = "title", ![w].rarities = <<>>, ![w].artist = mean]
  BY DEF ArtistsJudged
<1>5. "artist" \in NamePcs /\ "artist" \notin {"idle"} \cup DatingPcs
      /\ "title" \in TitlePcs
      /\ "title" \notin {"idle", "pair"} \cup NamePcs \cup AskingPcs \cup DatingPcs
  BY DEF NamePcs, AskingPcs, TitlePcs, DatingPcs
<1>6. AtRow(r.lot, r.row, r.found) /\ OnPair(r.lot, r.row) /\ r.title = 0
      /\ Asked(r.lot, r.row, <<>>, r.rarities)
  BY <1>1, <1>2, <1>5 DEF WorkOK
<1>7. ArtistDone(r.lot, r.row, mean)
  <2>1. r.lot \in Lots /\ r.row \in DOMAIN read BY <1>6 DEF AtRow, OnPair
  <2>2. Comparable(read[r.row]) /\ Comparable(LotRow(r.lot)) BY <1>2, <2>1, PairComparable
  <2>3. n = Len(KnownNames(read[r.row].names)) BY DEF Lost
  <2> HIDE DEF r, n
  <2>4. ArtistDone(r.lot, r.row, mean) BY <1>2, <1>6, <2>2, <2>3, JudgedArtists
  <2> QED BY <2>4
<1>8. s = [pc |-> "title", lot |-> r.lot, row |-> r.row, ask |-> r.ask, rarities |-> <<>>,
           artist |-> mean, title |-> r.title, found |-> r.found]
  <2> HIDE DEF mean
  <2> QED BY <1>2, <1>4 DEF WorkOK
<1> HIDE DEF mean
<1>9. /\ s = [pc |-> s.pc, lot |-> s.lot, row |-> s.row, ask |-> s.ask,
              rarities |-> s.rarities, artist |-> s.artist, title |-> s.title,
              found |-> s.found]
      /\ s.pc = "title" /\ s.lot = r.lot /\ s.row = r.row
      /\ s.artist = mean /\ s.title = r.title /\ s.found = r.found
  <2> HIDE DEF s, r
  <2> QED BY <1>8
<1>10. \A l, i, F : AtRow(l, i, F) => AtRow(l, i, F)' BY <1>2, <1>3, RowFrame
<1>11. \A l, i : OnPair(l, i) => OnPair(l, i)' BY <1>2, <1>3, RowFrame
<1>12. \A l, i, a : ArtistDone(l, i, a) => ArtistDone(l, i, a)' BY <1>2, <1>3, DoneFrame
<1>13. AtRow(r.lot, r.row, r.found)' /\ OnPair(r.lot, r.row)'
       /\ ArtistDone(r.lot, r.row, r.artist)'
  BY <1>6, <1>7, <1>9, <1>10, <1>11, <1>12
<1>14. WorkOK(r)' BY <1>5, <1>6, <1>9, <1>13 DEF WorkOK
<1>15. DOMAIN worker' = Workers /\ \A v \in Workers \ {w} : worker'[v] = worker[v]
  <2> HIDE DEF mean
  <2> QED BY <1>2, <1>4
<1>16. Holds(w, worker[w].pc)' BY <1>9 DEF Holds, AskingPcs
<1> QED BY <1>1, <1>14, <1>15, <1>16, QuietStep

LEMMA JudgeTitleKeeps ==
    ASSUME DatesInv, ScoringInv, NEW w \in Workers, JudgeTitle(w)
    PROVE  ScoringInv'
<1> DEFINE r == worker[w]
           s == worker'[w]
           a == Lost(w).title
           b == Lot(w).title
           Rare(t) == TitleRarity(titles.counts, titles.total, t)
           mean == (Rare(a) + Rare(b)) \div 2
<1>1. At(w, "title") /\ StageKept /\ UNCHANGED <<file, indexes, scores>> BY DEF JudgeTitle
<1>2. /\ run = "scoring" /\ UNCHANGED <<rows, run, read, span>> /\ read \in Catalogues
      /\ WorkOK(r) /\ r.pc = "title" /\ DOMAIN worker = Workers /\ TitlesInv
  BY <1>1, StepFacts
<1>3. IndexesKept BY <1>1, IndexesIdle
<1>4. a = read[r.row].title /\ b = LotRow(r.lot).title BY DEF Lost, Lot
<1>5. "title" \in TitlePcs /\ "title" \notin {"idle"} \cup DatingPcs
      /\ "dating" \in DatingPcs
      /\ "dating" \notin {"idle", "pair"} \cup NamePcs \cup AskingPcs \cup TitlePcs
  BY DEF NamePcs, AskingPcs, TitlePcs, DatingPcs
<1>6. AtRow(r.lot, r.row, r.found) /\ OnPair(r.lot, r.row) /\ r.title = 0
      /\ ArtistDone(r.lot, r.row, r.artist)
  BY <1>2, <1>5 DEF WorkOK
<1>7. \A l, i, F : AtRow(l, i, F) => AtRow(l, i, F)' BY <1>2, <1>3, RowFrame
<1>8. \A l, i : OnPair(l, i) => OnPair(l, i)' BY <1>2, <1>3, RowFrame
<1>9. \A l, i, x : ArtistDone(l, i, x) => ArtistDone(l, i, x)' BY <1>2, <1>3, DoneFrame
<1>10. \A l, i, x : TitleDone(l, i, x) => TitleDone(l, i, x)' BY <1>2, <1>3, DoneFrame
<1>11. ASSUME NEW x, TitleDone(r.lot, r.row, x),
              s = [pc |-> "dating", lot |-> r.lot, row |-> r.row, ask |-> r.ask,
                   rarities |-> r.rarities, artist |-> r.artist, title |-> x,
                   found |-> r.found],
              DOMAIN worker' = Workers, \A v \in Workers \ {w} : worker'[v] = worker[v]
       PROVE  ScoringInv'
  <2>1. /\ s = [pc |-> s.pc, lot |-> s.lot, row |-> s.row, ask |-> s.ask,
                rarities |-> s.rarities, artist |-> s.artist, title |-> s.title,
                found |-> s.found]
        /\ s.pc = "dating" /\ s.lot = r.lot /\ s.row = r.row
        /\ s.artist = r.artist /\ s.title = x /\ s.found = r.found
    <3> HIDE DEF s, r
    <3> QED BY <1>11
  <2>2. AtRow(r.lot, r.row, r.found)' /\ OnPair(r.lot, r.row)'
        /\ ArtistDone(r.lot, r.row, r.artist)' /\ TitleDone(r.lot, r.row, r.title)'
    BY <1>6, <1>7, <1>8, <1>9, <1>10, <1>11, <2>1
  <2>3. WorkOK(r)' BY <1>5, <2>1, <2>2 DEF WorkOK
  <2>4. Holds(w, worker[w].pc)' BY <2>1 DEF Holds, AskingPcs
  <2> QED BY <1>1, <1>11, <2>3, <2>4, QuietStep
<1>12. CASE None \in {a, b}
  <2>1. Goto(w, "dating") BY <1>12 DEF JudgeTitle
  <2>2. TitleDone(r.lot, r.row, 0) BY <1>4, <1>12, ShareFacts DEF TitleDone, TitlesRarity,
        BothTitled
  <2>3. /\ DOMAIN worker' = Workers /\ \A v \in Workers \ {w} : worker'[v] = worker[v]
        /\ s = [pc |-> "dating", lot |-> r.lot, row |-> r.row, ask |-> r.ask,
                rarities |-> r.rarities, artist |-> r.artist, title |-> r.title,
                found |-> r.found]
    BY <1>2, <2>1, GotoFacts
  <2> QED BY <1>6, <1>11, <2>2, <2>3
<1>13. CASE None \notin {a, b} /\ ~titles.loaded
  <2>1. Goto(w, "await titles") BY <1>13 DEF JudgeTitle
  <2>2. SamePhase(r.pc, "await titles") /\ "await titles" \notin AskingPcs
    BY <1>2 DEF SamePhase, TitlePcs, AskingPcs
  <2>3. WorkOK(worker[w])' /\ worker'[w].pc = "await titles"
    BY <1>2, <1>3, <2>1, <2>2, GotoWithin
  <2>4. Holds(w, worker[w].pc)' BY <2>3 DEF Holds, AskingPcs
  <2>5. DOMAIN worker' = Workers /\ \A v \in Workers \ {w} : worker'[v] = worker[v]
    BY <1>2, <2>1, GotoFacts
  <2> QED BY <1>1, <2>3, <2>4, <2>5, QuietStep
<1>14. CASE None \notin {a, b} /\ titles.loaded
  <2>1. worker' = [worker EXCEPT ![w].pc = "dating", ![w].title = mean]
    BY <1>14 DEF JudgeTitle
  <2>2. TitlesWhole BY <1>2, <1>14 DEF TitlesInv
  <2>3. ASSUME NEW t
        PROVE  Rare(t) \in Int /\ TrueTitleRarity(t) \in Int /\ Rare(t) >= TrueTitleRarity(t)
    <3>1. \A z \in 0..Unit : z \in Int BY DEF Unit
    <3>2. Rare(t) \in 0..Unit /\ TrueTitleRarity(t) \in 0..Unit /\ Rare(t) >= TrueTitleRarity(t)
      BY <2>2, TitleIsRarer
    <3> QED BY <3>1, <3>2
  <2>3a. Rare(a) \in Share /\ Rare(b) \in Share
    <3> HIDE DEF a, b
    <3> QED BY <2>2, TitleIsRarer DEF Share
  <2> DEFINE x == TrueTitleRarity(a) + TrueTitleRarity(b)
             y == Rare(a) + Rare(b)
  <2>3b. y \div 2 \in Share
    <3> HIDE DEF Rare, a, b
    <3> QED BY <2>3a, ShareFacts
  <2>4. x \in Int /\ y \in Int /\ x <= y
    <3>1. Rare(a) \in Int /\ TrueTitleRarity(a) \in Int /\ Rare(a) >= TrueTitleRarity(a)
      BY <2>3
    <3>2. Rare(b) \in Int /\ TrueTitleRarity(b) \in Int /\ Rare(b) >= TrueTitleRarity(b)
      BY <2>3
    <3> HIDE DEF Rare, a, b
    <3> QED BY <3>1, <3>2
  <2>5. TitlesRarity(read[r.row], LotRow(r.lot)) = x \div 2
    BY <1>4, <1>14 DEF TitlesRarity
  <2> HIDE DEF x, y
  <2>6. x \div 2 \in Int /\ y \div 2 \in Int /\ x \div 2 <= y \div 2 BY <2>4, QuotientLe
  <2>7. TitleDone(r.lot, r.row, y \div 2) BY <1>14, <2>3b, <2>5, <2>6 DEF TitleDone
  <2>8. mean = y \div 2 BY DEF y
  <2> HIDE DEF mean
  <2>9. /\ DOMAIN worker' = Workers /\ \A v \in Workers \ {w} : worker'[v] = worker[v]
        /\ s = [pc |-> "dating", lot |-> r.lot, row |-> r.row, ask |-> r.ask,
                rarities |-> r.rarities, artist |-> r.artist, title |-> mean,
                found |-> r.found]
    BY <1>2, <2>1 DEF WorkOK
  <2> QED BY <1>11, <2>7, <2>8, <2>9
<1> QED BY <1>12, <1>13, <1>14

\* One more row has been scored.
LEMMA FoundNext ==
    ASSUME NEW l, NEW F, NEW n \in Nat \ {0}, n \in DOMAIN read, FoundOK(l, F, n), Settled(l, n),
           NEW s, NEW kept \in BOOLEAN, kept => RightScore(l, n, s), Wanted(l, n) => kept
    PROVE  FoundOK(l, IF kept THEN Append(F, [row |-> n, score |-> s]) ELSE F, n + 1)
<1> DEFINE x == [row |-> n, score |-> s]
           G == IF kept THEN Append(F, x) ELSE F
<1>1. IsSeq(F) BY DEF FoundOK
<1>2. Len(F) \in Nat /\ DOMAIN F = 1..Len(F) BY <1>1, PositionsFinite
<1>3. IsSeq(G) BY <1>1, AppendFacts
<1>4. ASSUME NEW j \in DOMAIN G
      PROVE  G[j].row \in 1..n /\ RightScore(l, G[j].row, G[j].score)
  <2>1. CASE j \in 1..Len(F)
    <3>1. G[j] = F[j] BY <1>1, <2>1, AppendFacts
    <3>2. F[j].row \in 1..(n - 1) /\ RightScore(l, F[j].row, F[j].score)
      BY <1>2, <2>1 DEF FoundOK
    <3> HIDE DEF G
    <3> QED BY <3>1, <3>2
  <2>2. CASE j \notin 1..Len(F)
    <3>1. kept BY <1>2, <2>2
    <3>2. DOMAIN G = 1..(Len(F) + 1) BY <1>1, <3>1, AppendFacts
    <3>3. j = Len(F) + 1 BY <1>2, <2>2, <3>2
    <3>4. G[j] = x BY <1>1, <3>1, <3>3, AppendFacts
    <3>5. G[j].row = n /\ G[j].score = s
      <4> HIDE DEF G
      <4> QED BY <3>4
    <3> HIDE DEF G
    <3> QED BY <3>1, <3>5
  <2> QED BY <2>1, <2>2
<1>5. ASSUME NEW i \in 1..n
      PROVE  /\ i \in DOMAIN read /\ Settled(l, i)
             /\ Wanted(l, i) => \E j \in DOMAIN G : G[j].row = i
  <2>1. CASE i = n
    <3>1. ASSUME kept PROVE \E j \in DOMAIN G : G[j].row = i
      <4>1. Len(F) + 1 \in DOMAIN G /\ G[Len(F) + 1] = x BY <1>1, <1>2, <3>1, AppendFacts
      <4> HIDE DEF G
      <4> QED BY <4>1, <2>1
    <3> QED BY <2>1, <3>1
  <2>2. CASE i # n
    <3>1. i \in 1..(n - 1) BY <2>2
    <3>2. i \in DOMAIN read /\ Settled(l, i) BY <3>1 DEF FoundOK
    <3>3. ASSUME Wanted(l, i) PROVE \E j \in DOMAIN G : G[j].row = i
      <4>1. PICK j \in DOMAIN F : F[j].row = i BY <3>1, <3>3 DEF FoundOK
      <4>2. j \in DOMAIN G /\ G[j] = F[j] BY <1>1, <1>2, AppendFacts
      <4> HIDE DEF G
      <4> QED BY <4>1, <4>2
    <3> QED BY <3>2, <3>3
  <2> QED BY <2>1, <2>2
<1> HIDE DEF G
<1>6. (n + 1) - 1 = n OBVIOUS
<1>7. FoundOK(l, G, n + 1) BY <1>3, <1>4, <1>5, <1>6 DEF FoundOK
<1> QED BY <1>7 DEF G, x

\* A thread goes on to the next row with what it has found in this one.
LEMMA NextRowFacts ==
    ASSUME NEW w \in Workers, DOMAIN worker = Workers, WorkOK(worker[w]),
           UNCHANGED <<read, span>>, IndexesKept,
           AtRow(worker[w].lot, worker[w].row, worker[w].found),
           worker[w].row \in DOMAIN read, Settled(worker[w].lot, worker[w].row),
           NEW s, s.valid \in BOOLEAN, worker' = NextRow(w, s),
           KeptPair(w, s) => RightScore(worker[w].lot, worker[w].row, s),
           Wanted(worker[w].lot, worker[w].row) => KeptPair(w, s)
    PROVE  /\ WorkOK(worker[w])' /\ worker'[w].pc = "pair" /\ DOMAIN worker' = Workers
           /\ \A v \in Workers \ {w} : worker'[v] = worker[v]
<1> DEFINE r == worker[w]
           t == worker'[w]
           kept == KeptPair(w, s)
           F == IF kept THEN Append(r.found, [row |-> r.row, score |-> s]) ELSE r.found
<1>1. kept \in BOOLEAN BY DEF KeptPair
<1>2. r.lot \in Lots /\ r.row \in Nat \ {0} /\ FoundOK(r.lot, r.found, r.row) BY DEF AtRow
<1>3. FoundOK(r.lot, F, r.row + 1)
  <2> DEFINE l == r.lot
             n == r.row
             H == r.found
  <2>1. n \in DOMAIN read /\ Settled(l, n) /\ (kept => RightScore(l, n, s))
        /\ (Wanted(l, n) => kept) /\ FoundOK(l, H, n) /\ n \in Nat \ {0}
    BY <1>2
  <2> HIDE DEF l, n, H, kept
  <2>2. FoundOK(l, IF kept THEN Append(H, [row |-> n, score |-> s]) ELSE H, n + 1)
    BY <1>1, <2>1, FoundNext
  <2> QED BY <2>2 DEF l, n, H
<1>4. /\ DOMAIN worker' = Workers /\ \A v \in Workers \ {w} : worker'[v] = worker[v]
      /\ t = [pc |-> "pair", lot |-> r.lot, row |-> r.row + 1, ask |-> <<>>,
              rarities |-> <<>>, artist |-> 0, title |-> 0, found |-> F]
  <2>1. worker' = [worker EXCEPT ![w] = [Idle EXCEPT !.pc = "pair", !.lot = r.lot,
                                              !.row = r.row + 1, !.found = F]]
    BY DEF NextRow
  <2> HIDE DEF F, r
  <2> QED BY <2>1 DEF Idle
<1> HIDE DEF F, kept
<1>5. /\ t = [pc |-> t.pc, lot |-> t.lot, row |-> t.row, ask |-> t.ask,
              rarities |-> t.rarities, artist |-> t.artist, title |-> t.title,
              found |-> t.found]
      /\ t.pc = "pair" /\ t.lot = r.lot /\ t.row = r.row + 1 /\ t.rarities = <<>>
      /\ t.artist = 0 /\ t.title = 0 /\ t.found = F
  <2> HIDE DEF t, r
  <2> QED BY <1>4
<1>6. AtRow(r.lot, r.row + 1, F)
  <2>1. r.row + 1 \in Nat \ {0} BY <1>2
  <2> QED BY <1>2, <1>3, <2>1 DEF AtRow
<1>7. \A l, i, G : AtRow(l, i, G) => AtRow(l, i, G)' BY RowFrame
<1>8. AtRow(r.lot, r.row, r.found)' BY <1>5, <1>6, <1>7
<1>9. "pair" \notin {"idle"} \cup NamePcs \cup AskingPcs \cup TitlePcs \cup DatingPcs
  BY DEF NamePcs, AskingPcs, TitlePcs, DatingPcs
<1>10. WorkOK(r)' BY <1>5, <1>8, <1>9 DEF WorkOK
<1> QED BY <1>4, <1>5, <1>10

LEMMA PairHolds == \A w : Holds(w, "pair") /\ Holds(w, "idle")
BY DEF Holds, AskingPcs

LEMMA StartPairKeeps ==
    ASSUME DatesInv, ScoringInv, NEW w \in Workers, StartPair(w)
    PROVE  ScoringInv'
<1> DEFINE r == worker[w]
           t == worker'[w]
           a == KnownNames(Lost(w).names)
           b == KnownNames(Lot(w).names)
           s == PairScore(Lost(w), Lot(w), 0, 0, 0)
<1>1. At(w, "pair") /\ r.row \in DOMAIN read /\ StageKept /\ UNCHANGED <<file, indexes, scores>>
  BY DEF StartPair
<1>2. /\ run = "scoring" /\ UNCHANGED <<rows, run, read, span>> /\ read \in Catalogues
      /\ WorkOK(r) /\ r.pc = "pair" /\ DOMAIN worker = Workers
  BY <1>1, StepFacts
<1>3. IndexesKept BY <1>1, IndexesIdle
<1>4. Lost(w) = read[r.row] /\ Lot(w) = LotRow(r.lot) BY DEF Lost, Lot
<1>5. "pair" \notin {"idle"} \cup NamePcs \cup AskingPcs \cup TitlePcs \cup DatingPcs
  BY DEF NamePcs, AskingPcs, TitlePcs, DatingPcs
<1>6. AtRow(r.lot, r.row, r.found) /\ r.rarities = <<>> /\ r.artist = 0 /\ r.title = 0
  BY <1>2, <1>5 DEF WorkOK
<1>7. \A l, i, F : AtRow(l, i, F) => AtRow(l, i, F)' BY <1>2, <1>3, RowFrame
<1>8. \A l, i : OnPair(l, i) => OnPair(l, i)' BY <1>2, <1>3, RowFrame
<1>9. CASE Nameless(Lost(w), Lot(w))
  <2>1. worker' = NextRow(w, s) BY <1>9 DEF StartPair
  <2>2. ~s.valid /\ ~Deserving(read[r.row], LotRow(r.lot)) /\ s.valid \in BOOLEAN
    <3>1. ~s.valid /\ ~Deserving(Lost(w), Lot(w)) BY <1>9, NamelessJudged
    <3>2. s.valid \in BOOLEAN BY <1>9 DEF PairScore
    <3> HIDE DEF s
    <3> QED BY <1>4, <3>1, <3>2
  <2>3. Settled(r.lot, r.row) BY <1>4, <1>9 DEF Settled
  <2>4. KeptPair(w, s) => RightScore(r.lot, r.row, s)
    <3>1. FitsTable(s) BY <1>9, NamelessFits
    <3> HIDE DEF s
    <3> QED BY <1>4, <1>9, <2>2, <3>1 DEF KeptPair, RightScore
  <2>5. Wanted(r.lot, r.row) => KeptPair(w, s) BY <2>2 DEF Wanted, KeptPair
  <2> HIDE DEF s
  <2>6. /\ WorkOK(worker[w])' /\ worker'[w].pc = "pair" /\ DOMAIN worker' = Workers
        /\ \A v \in Workers \ {w} : worker'[v] = worker[v]
    BY <1>1, <1>2, <1>3, <1>6, <2>1, <2>2, <2>3, <2>4, <2>5, NextRowFacts
  <2>7. Holds(w, worker[w].pc)' BY <2>6 DEF Holds, AskingPcs
  <2> QED BY <1>1, <2>6, <2>7, QuietStep
<1>10. CASE ~Nameless(Lost(w), Lot(w))
  <2>1. OnPair(r.lot, r.row) BY <1>1, <1>4, <1>10 DEF OnPair
  <2>2. CASE <<>> \in {a, b}
    <3>1. Goto(w, "title") BY <1>10, <2>2 DEF StartPair
    <3>2. /\ DOMAIN worker' = Workers /\ \A v \in Workers \ {w} : worker'[v] = worker[v]
          /\ t = [pc |-> "title", lot |-> r.lot, row |-> r.row, ask |-> r.ask,
                  rarities |-> r.rarities, artist |-> r.artist, title |-> r.title,
                  found |-> r.found]
      BY <1>2, <3>1, GotoFacts
    <3>3. /\ t = [pc |-> t.pc, lot |-> t.lot, row |-> t.row, ask |-> t.ask,
                  rarities |-> t.rarities, artist |-> t.artist, title |-> t.title,
                  found |-> t.found]
          /\ t.pc = "title" /\ t.lot = r.lot /\ t.row = r.row
          /\ t.artist = r.artist /\ t.title = r.title /\ t.found = r.found
      <4> HIDE DEF t, r
      <4> QED BY <3>2
    <3>4. ArtistDone(r.lot, r.row, 0)
      BY <1>4, <2>2, ShareFacts DEF ArtistDone, ArtistRarity, BothNamed
    <3>5. \A l, i, x : ArtistDone(l, i, x) => ArtistDone(l, i, x)' BY <1>2, <1>3, DoneFrame
    <3>6. AtRow(r.lot, r.row, r.found)' /\ OnPair(r.lot, r.row)'
          /\ ArtistDone(r.lot, r.row, r.artist)'
      BY <1>6, <1>7, <1>8, <2>1, <3>3, <3>4, <3>5
    <3>7. "title" \notin {"idle", "pair"} \cup NamePcs \cup AskingPcs \cup DatingPcs
          /\ "title" \in TitlePcs
      BY DEF NamePcs, AskingPcs, TitlePcs, DatingPcs
    <3>8. WorkOK(r)' BY <1>6, <3>3, <3>6, <3>7 DEF WorkOK
    <3>9. Holds(w, worker[w].pc)' BY <3>3 DEF Holds, AskingPcs
    <3> QED BY <1>1, <3>2, <3>8, <3>9, QuietStep
  <2>3. CASE <<>> \notin {a, b}
    <3>1. worker' = [worker EXCEPT ![w].pc = "artist", ![w].ask = a \o b]
      BY <1>10, <2>3 DEF StartPair
    <3>2. /\ DOMAIN worker' = Workers /\ \A v \in Workers \ {w} : worker'[v] = worker[v]
          /\ t = [pc |-> "artist", lot |-> r.lot, row |-> r.row, ask |-> a \o b,
                  rarities |-> r.rarities, artist |-> r.artist, title |-> r.title,
                  found |-> r.found]
      <4> HIDE DEF a, b
      <4> QED BY <1>2, <3>1 DEF WorkOK
    <3>3. /\ t = [pc |-> t.pc, lot |-> t.lot, row |-> t.row, ask |-> t.ask,
                  rarities |-> t.rarities, artist |-> t.artist, title |-> t.title,
                  found |-> t.found]
          /\ t.pc = "artist" /\ t.lot = r.lot /\ t.row = r.row /\ t.ask = a \o b
          /\ t.rarities = r.rarities /\ t.title = r.title /\ t.found = r.found
      <4> HIDE DEF t, r, a, b
      <4> QED BY <3>2
    <3>4. Asked(r.lot, r.row, a \o b, <<>>)
      <4>1. r.lot \in Lots BY <1>6 DEF AtRow
      <4>2. Comparable(read[r.row]) /\ Comparable(LotRow(r.lot))
        BY <1>1, <1>2, <4>1, PairComparable
      <4>3. IsSeq(a) /\ IsSeq(b) BY <1>4, <4>2, NamesSeq
      <4>4. a \o b = NamesOf(r.lot, r.row) BY <1>4 DEF NamesOf
      <4>5. BothNamed(read[r.row], LotRow(r.lot)) BY <1>4, <2>3 DEF BothNamed
      <4> DEFINE S == Range(a) \cup Range(b)
                 c == a \o b
      <4>6. a \in Seq(S) /\ b \in Seq(S) BY <4>3 DEF IsSeq
      <4> HIDE DEF S, a, b
      <4>7. c \in Seq(S) BY <4>6
      <4> HIDE DEF c
      <4>8. IsSeq(c) /\ Len(c) \in Nat BY <4>7, SeqIsSeq
      <4>9. c = NamesOf(r.lot, r.row) BY <4>4 DEF c
      <4>10. Len(<<>>) = 0 /\ <<>> \in Seq(Share) OBVIOUS
      <4>11. \A k \in 1..Len(c) : 0 + k = k BY <4>8
      <4>12. Asked(r.lot, r.row, c, <<>>) BY <4>5, <4>8, <4>9, <4>10, <4>11 DEF Asked
      <4> QED BY <4>12 DEF c
    <3>5. \A l, i, x, j : Asked(l, i, x, j) => Asked(l, i, x, j)' BY <1>2, <1>3, AskedFrame
    <3> HIDE DEF a, b
    <3>6. AtRow(r.lot, r.row, r.found)' /\ OnPair(r.lot, r.row)'
          /\ Asked(r.lot, r.row, r.ask, r.rarities)'
      BY <1>6, <1>7, <1>8, <2>1, <3>3, <3>4, <3>5
    <3>7. "artist" \notin {"idle", "pair"} \cup TitlePcs \cup AskingPcs \cup DatingPcs
          /\ "artist" \in NamePcs
      BY DEF NamePcs, AskingPcs, TitlePcs, DatingPcs
    <3>8. WorkOK(r)' BY <1>6, <3>3, <3>6, <3>7 DEF WorkOK
    <3>9. Holds(w, worker[w].pc)' BY <3>3 DEF Holds, AskingPcs
    <3> QED BY <1>1, <3>2, <3>8, <3>9, QuietStep
  <2> QED BY <2>2, <2>3
<1> QED BY <1>9, <1>10

LEMMA NothingFound == IsSeq(<<>>)
<1>1. <<>> \in Seq({}) OBVIOUS
<1> QED BY <1>1, SeqIsSeq

LEMMA TakeKeeps ==
    ASSUME ScoringInv, NEW w \in Workers, Take(w)
    PROVE  ScoringInv'
<1> DEFINE t == worker'[w]
<1>1. PICK l \in waiting :
        worker' = [worker EXCEPT ![w] = [Idle EXCEPT !.pc = "pair", !.lot = l, !.row = 1]]
  BY DEF Take
<1>2. /\ run = "scoring" /\ UNCHANGED <<rows, file, run, read, indexes, scores, span>>
      /\ waiting \subseteq Lots /\ waiting' \subseteq waiting
  BY DEF Take, handoff, ScoringInv
<1>3. /\ DOMAIN worker = Workers /\ ArtistsInv /\ TitlesInv /\ ScoresOK
      /\ (dating = None \/ dating \in Spans) /\ Spans' = Spans
      /\ (file # NoFile /\ file # Torn => file \in Spans)
  BY DEF ScoringInv, ThreadsOK, Spans
<1>4. IndexesKept /\ \A v : Undisturbed(v) BY <1>2, IndexesIdle
<1>5. /\ t = [pc |-> "pair", lot |-> l, row |-> 1, ask |-> <<>>, rarities |-> <<>>,
              artist |-> 0, title |-> 0, found |-> <<>>]
      /\ DOMAIN worker' = Workers /\ \A v \in Workers \ {w} : worker'[v] = worker[v]
  BY <1>1, <1>3 DEF Idle
<1>6. /\ t = [pc |-> t.pc, lot |-> t.lot, row |-> t.row, ask |-> t.ask,
              rarities |-> t.rarities, artist |-> t.artist, title |-> t.title,
              found |-> t.found]
      /\ t.pc = "pair" /\ t.lot = l /\ t.row = 1 /\ t.rarities = <<>>
      /\ t.artist = 0 /\ t.title = 0 /\ t.found = <<>>
  <2> HIDE DEF t
  <2> QED BY <1>5
<1>7. AtRow(l, 1, <<>>)
  <2>1. FoundOK(l, <<>>, 1) BY NothingFound DEF FoundOK
  <2> QED BY <1>2, <2>1 DEF AtRow
<1>8. \A k, i, F : AtRow(k, i, F) => AtRow(k, i, F)' BY <1>2, <1>4, RowFrame
<1>9. AtRow(worker[w].lot, worker[w].row, worker[w].found)' BY <1>6, <1>7, <1>8
<1>10. "pair" \notin {"idle"} \cup NamePcs \cup AskingPcs \cup TitlePcs \cup DatingPcs
  BY DEF NamePcs, AskingPcs, TitlePcs, DatingPcs
<1>11. WorkOK(worker[w])' BY <1>6, <1>9, <1>10 DEF WorkOK
<1>12. Holds(w, worker[w].pc)' BY <1>6 DEF Holds, AskingPcs
<1>13. Others(w) BY <1>4, <1>5 DEF Others
<1>14. ArtistsInv' /\ TitlesInv' /\ UNCHANGED <<file, dating>>
  BY <1>2, <1>3, ArtistsInvFrame, TitlesInvFrame DEF indexes
<1>15. ScoresOK' BY <1>2, <1>3, <1>4, ScoresFrame
<1> QED BY <1>2, <1>3, <1>4, <1>5, <1>11, <1>12, <1>13, <1>14, <1>15, StepKeeps

\* A thread that is done with its lot, or whose lot has raised.
LEMMA IdleFacts ==
    ASSUME NEW w \in Workers, DOMAIN worker = Workers, worker' = [worker EXCEPT ![w] = Idle]
    PROVE  /\ WorkOK(worker[w])' /\ worker'[w].pc = "idle" /\ DOMAIN worker' = Workers
           /\ \A v \in Workers \ {w} : worker'[v] = worker[v]
<1>1. /\ worker'[w] = Idle /\ DOMAIN worker' = Workers
      /\ \A v \in Workers \ {w} : worker'[v] = worker[v]
  OBVIOUS
<1>2. "idle" \notin {"pair"} \cup NamePcs \cup AskingPcs \cup TitlePcs \cup DatingPcs
  BY DEF NamePcs, AskingPcs, TitlePcs, DatingPcs
<1>3. WorkOK(worker[w])' BY <1>1, <1>2 DEF WorkOK, Idle
<1> QED BY <1>1, <1>3 DEF Idle

LEMMA LotReadyKeeps ==
    ASSUME ScoringInv, NEW w \in Workers, LotReady(w)
    PROVE  ScoringInv'
<1> DEFINE r == worker[w]
<1>1. /\ At(w, "pair") /\ r.row \notin DOMAIN read /\ StageKept /\ UNCHANGED <<file, indexes>>
      /\ worker' = [worker EXCEPT ![w] = Idle]
      /\ scores' = [scores EXCEPT ![r.lot] = r.found]
  BY DEF LotReady
<1>2. /\ run = "scoring" /\ UNCHANGED <<rows, run, read, span, waiting>> /\ read \in Catalogues
      /\ WorkOK(r) /\ r.pc = "pair" /\ DOMAIN worker = Workers
      /\ ArtistsInv /\ TitlesInv /\ (dating = None \/ dating \in Spans)
      /\ (file # NoFile /\ file # Torn => file \in Spans) /\ Spans' = Spans
  BY <1>1, StepFacts
<1>3. IndexesKept /\ \A v : Undisturbed(v) BY <1>1, IndexesIdle
<1>4. /\ WorkOK(worker[w])' /\ worker'[w].pc = "idle" /\ DOMAIN worker' = Workers
      /\ \A v \in Workers \ {w} : worker'[v] = worker[v]
  BY <1>1, <1>2, IdleFacts
<1>5. Holds(w, worker[w].pc)' BY <1>4 DEF Holds, AskingPcs
<1>6. Others(w) BY <1>3, <1>4 DEF Others
<1>7. ArtistsInv' /\ TitlesInv' /\ UNCHANGED <<file, dating>>
  BY <1>1, <1>2, ArtistsInvFrame, TitlesInvFrame DEF indexes
<1>8. r.lot \in Lots /\ r.row \in Nat \ {0} /\ FoundOK(r.lot, r.found, r.row)
  BY <1>2 DEF WorkOK, AtRow
<1>9. r.row = Len(read) + 1
  <2>1. IsSeq(read) BY <1>2, RowsAssumption
  <2>2. Len(read) \in Nat /\ DOMAIN read = 1..Len(read) BY <2>1, PositionsFinite
  <2>3. \A i \in 1..(r.row - 1) : i \in DOMAIN read BY <1>8 DEF FoundOK
  <2> DEFINE n == r.row
  <2>4. n \in Nat \ {0} /\ n \notin 1..Len(read) /\ \A i \in 1..(n - 1) : i \in 1..Len(read)
    BY <1>1, <1>8, <2>2, <2>3
  <2> HIDE DEF n
  <2>5. n > Len(read) BY <2>2, <2>4
  <2>6. n - 1 \in 1..(n - 1) \/ n = 1 BY <2>4
  <2>7. n = Len(read) + 1 BY <2>2, <2>4, <2>5, <2>6
  <2> QED BY <2>7 DEF n
<1>10. FoundOK(r.lot, r.found, Len(read) + 1) BY <1>8, <1>9
<1>11. ASSUME NEW l \in Lots, scores'[l] # None
       PROVE  FoundOK(l, scores[l], Len(read) + 1)'
  <2>1. DOMAIN scores = Lots /\ (scores[l] # None => FoundOK(l, scores[l], Len(read) + 1))
    BY DEF ScoringInv, ScoresOK
  <2>2. \A k, F, n : FoundOK(k, F, n) => FoundOK(k, F, n)' BY <1>2, <1>3, FoundFrame
  <2>3. CASE l = r.lot
    <3>1. scores'[l] = r.found BY <1>1, <2>1, <2>3
    <3> QED BY <1>2, <1>10, <2>2, <2>3, <3>1
  <2>4. CASE l # r.lot
    <3>1. scores'[l] = scores[l] BY <1>1, <2>1, <2>4
    <3> QED BY <1>2, <1>11, <2>1, <2>2, <3>1
  <2> QED BY <2>3, <2>4
<1>12. DOMAIN scores' = Lots BY <1>1 DEF ScoringInv, ScoresOK
<1>13. ScoresOK' BY <1>11, <1>12 DEF ScoresOK
<1> QED BY <1>2, <1>3, <1>4, <1>5, <1>6, <1>7, <1>13, StepKeeps

\* A step that leaves the indexes under locks as they are.
LEMMA DatingStep ==
    ASSUME ScoringInv, NEW w \in Workers, NEW p, At(w, p), StageKept,
           UNCHANGED <<artists, titles, scores>>,
           DOMAIN worker' = Workers, \A v \in Workers \ {w} : worker'[v] = worker[v],
           dating' = dating \/ dating' \in Spans, file' \in {file, Torn} \/ file' \in Spans,
           WorkOK(worker[w])', Holds(w, worker[w].pc)'
    PROVE  ScoringInv'
<1>1. /\ run = "scoring" /\ UNCHANGED <<rows, run, read, span, waiting>>
      /\ ArtistsInv /\ TitlesInv /\ (dating = None \/ dating \in Spans)
      /\ (file # NoFile /\ file # Torn => file \in Spans) /\ Spans' = Spans
  BY StepFacts
<1>2. IndexesKept /\ Others(w) BY DEF IndexesKept, Others, Undisturbed
<1>3. ArtistsInv' /\ TitlesInv' BY <1>1, ArtistsInvFrame, TitlesInvFrame
<1>4. ScoresOK' BY <1>1, <1>2, ScoresFrame DEF ScoringInv
<1>5. /\ dating' = None \/ dating' \in Spans
      /\ dating \in Spans => dating' \in Spans
      /\ file' # NoFile /\ file' # Torn => file' \in Spans
  BY <1>1
<1> QED BY <1>1, <1>2, <1>3, <1>4, <1>5, StepKeeps

\* The score of a pair whose names, titles and datings have been judged.
LEMMA ComposeFacts ==
    ASSUME DatesInv, ScoringInv, NEW w \in Workers, At(w, "dating"), StageKept,
           UNCHANGED <<artists, titles>>, NEW d \in Share \cup {NaN}, Compose(w, d)
    PROVE  /\ WorkOK(worker[w])' /\ worker'[w].pc = "pair" /\ DOMAIN worker' = Workers
           /\ \A v \in Workers \ {w} : worker'[v] = worker[v]
<1> DEFINE r == worker[w]
           x == read[r.row]
           y == LotRow(r.lot)
           s == PairScore(x, y, r.title, r.artist, d)
<1>1. /\ UNCHANGED <<read, span>> /\ read \in Catalogues
      /\ WorkOK(r) /\ r.pc = "dating" /\ DOMAIN worker = Workers
  BY StepFacts
<1>2. IndexesKept BY DEF IndexesKept
<1>3. "dating" \in DatingPcs /\ "dating" # "idle" BY DEF DatingPcs
<1>4. /\ AtRow(r.lot, r.row, r.found) /\ OnPair(r.lot, r.row)
      /\ ArtistDone(r.lot, r.row, r.artist) /\ TitleDone(r.lot, r.row, r.title)
  BY <1>1, <1>3 DEF WorkOK
<1>5. r.lot \in Lots /\ r.row \in DOMAIN read /\ ~Nameless(x, y)
  BY <1>4 DEF AtRow, OnPair
<1>6. Comparable(x) /\ Comparable(y) /\ Attributed(x, y) BY <1>1, <1>5, PairComparable
<1>7. /\ r.artist \in Share /\ ArtistRarity(x, y) \in Int /\ r.artist >= ArtistRarity(x, y)
      /\ BothNamed(x, y) => artists.loaded
  BY <1>4 DEF ArtistDone
<1>8. /\ r.title \in Share /\ TitlesRarity(x, y) \in Int /\ r.title >= TitlesRarity(x, y)
      /\ BothTitled(x, y) => titles.loaded
  BY <1>4 DEF TitleDone
<1>9. worker' = NextRow(w, s) BY DEF Compose, Lost, Lot
<1>10. /\ s.confs.artist = r.artist /\ s.confs.title = r.title
       /\ s.valid => Agree(s.sims) /\ s.confidence \notin 0..(ConfThreshold - 1)
       /\ Deserving(x, y) => s.valid
  <2> HIDE DEF x, y, r
  <2>1. r.artist \in Int /\ r.title \in Int BY <1>7, <1>8, ShareFacts
  <2> QED BY <1>5, <1>6, <1>7, <1>8, <2>1, PairJudged
<1>10a. FitsTable(s)
  <2> HIDE DEF x, y, r
  <2> QED BY <1>5, <1>6, <1>7, <1>8, PairFits
<1>11. s.valid \in BOOLEAN
  <2> HIDE DEF x, y, r
  <2> QED BY <1>5 DEF PairScore
<1> HIDE DEF s
<1>12. Settled(r.lot, r.row) BY <1>7, <1>8 DEF Settled
<1>13. KeptPair(w, s) => RightScore(r.lot, r.row, s)
  BY <1>7, <1>8, <1>10, <1>10a DEF KeptPair, RightScore
<1>14. Wanted(r.lot, r.row) => KeptPair(w, s) BY <1>10 DEF Wanted, KeptPair
<1> QED BY <1>1, <1>2, <1>4, <1>5, <1>9, <1>11, <1>12, <1>13, <1>14, NextRowFacts

LEMMA JudgeDatingKeeps ==
    ASSUME DatesInv, ScoringInv, NEW w \in Workers, JudgeDating(w)
    PROVE  ScoringInv'
<1> DEFINE a == Lost(w).span
           b == Lot(w).span
           d == MeanConfidence(DatingRarity(dating, a), DatingRarity(dating, b))
<1>1. At(w, "dating") /\ StageKept /\ UNCHANGED <<file, artists, titles, scores>>
  BY DEF JudgeDating
<1>2. /\ run = "scoring" /\ UNCHANGED <<rows, run, read, span>> /\ read \in Catalogues
      /\ WorkOK(worker[w]) /\ worker[w].pc = "dating" /\ DOMAIN worker = Workers
      /\ Holds(w, "dating") /\ (dating = None \/ dating \in Spans)
      /\ (file # NoFile /\ file # Torn => file \in Spans)
  BY <1>1, StepFacts
<1>3. IndexesKept BY <1>1 DEF IndexesKept
<1>4. ASSUME NEW e \in Share \cup {NaN}, Compose(w, e), UNCHANGED dating PROVE ScoringInv'
  <2>1. /\ WorkOK(worker[w])' /\ worker'[w].pc = "pair" /\ DOMAIN worker' = Workers
        /\ \A v \in Workers \ {w} : worker'[v] = worker[v]
    BY <1>1, <1>4, ComposeFacts
  <2>2. Holds(w, worker[w].pc)' BY <2>1 DEF Holds, AskingPcs
  <2> QED BY <1>1, <1>4, <2>1, <2>2, DatingStep
<1>5. CASE ~Closed(a) \/ ~Closed(b)
  <2>1. Compose(w, 0) /\ UNCHANGED dating BY <1>5 DEF JudgeDating
  <2> QED BY <1>4, <2>1, ShareFacts
<1>6. CASE Closed(a) /\ Closed(b) /\ dating # None
  <2>1. Compose(w, d) /\ UNCHANGED dating BY <1>6 DEF JudgeDating
  <2>2. dating \in Spans BY <1>2, <1>6
  <2>3. a \in ClosedIntervals /\ b \in ClosedIntervals
    <3>1. worker[w].lot \in Lots /\ worker[w].row \in DOMAIN read
      <4>1. "dating" \in DatingPcs /\ "dating" # "idle" BY DEF DatingPcs
      <4> QED BY <1>2, <4>1 DEF WorkOK, AtRow, OnPair
    <3>2. Comparable(Lost(w)) /\ Comparable(Lot(w))
      BY <1>2, <3>1, PairComparable DEF Lost, Lot
    <3> QED BY <1>6, <3>2 DEF Comparable, ClosedIntervals
  <2>4. d \in Share \cup {NaN}
    <3>1. DatingRarity(dating, a) \in Share \cup {NaN}
                /\ DatingRarity(dating, b) \in Share \cup {NaN}
      <4> HIDE DEF a, b
      <4> QED BY <2>2, <2>3, DatingRarityType
    <3> HIDE DEF a, b
    <3> QED BY <3>1, DatingConfidenceType
  <2> HIDE DEF d
  <2> QED BY <1>4, <2>1, <2>4
<1>7. CASE Closed(a) /\ Closed(b) /\ dating = None /\ file = NoFile
  <2>1. Goto(w, "query datings") /\ UNCHANGED dating BY <1>7 DEF JudgeDating
  <2>2. SamePhase(worker[w].pc, "query datings") /\ "query datings" \notin AskingPcs
    BY <1>2 DEF SamePhase, DatingPcs, AskingPcs
  <2>3. WorkOK(worker[w])' /\ worker'[w].pc = "query datings"
    BY <1>2, <1>3, <2>1, <2>2, GotoWithin
  <2>4. Holds(w, worker[w].pc)' BY <2>3 DEF Holds, AskingPcs
  <2>5. DOMAIN worker' = Workers /\ \A v \in Workers \ {w} : worker'[v] = worker[v]
    BY <1>2, <2>1, GotoFacts
  <2> QED BY <1>1, <2>1, <2>3, <2>4, <2>5, DatingStep
<1>8. CASE Closed(a) /\ Closed(b) /\ dating = None /\ file # NoFile /\ file = Torn
  <2>1. Raise(w) /\ UNCHANGED dating BY <1>8 DEF JudgeDating
  <2>2. /\ WorkOK(worker[w])' /\ worker'[w].pc = "idle" /\ DOMAIN worker' = Workers
        /\ \A v \in Workers \ {w} : worker'[v] = worker[v]
    BY <1>2, <2>1, IdleFacts DEF Raise
  <2>3. Holds(w, worker[w].pc)' BY <2>2 DEF Holds, AskingPcs
  <2> QED BY <1>1, <2>1, <2>2, <2>3, DatingStep
<1>9. CASE Closed(a) /\ Closed(b) /\ dating = None /\ file # NoFile /\ file # Torn
  <2>1. dating' = file /\ UNCHANGED worker BY <1>9 DEF JudgeDating
  <2>2. file \in Spans BY <1>2, <1>9
  <2>3. WorkOK(worker[w])' BY <1>2, <1>3, <2>1, WorkFrame
  <2>4. Holds(w, worker[w].pc)' BY <1>2, <2>1 DEF Holds, AskingPcs
  <2> QED BY <1>1, <1>2, <2>1, <2>2, <2>3, <2>4, DatingStep
<1> QED BY <1>5, <1>6, <1>7, <1>8, <1>9

LEMMA QueryKeeps ==
    ASSUME ScoringInv, NEW w \in Workers, QueryDatings(w)
    PROVE  ScoringInv'
<1>1. At(w, "query datings") /\ StageKept /\ UNCHANGED <<file, artists, titles, scores>>
  BY DEF QueryDatings
<1>2. /\ UNCHANGED <<rows, run, read, span>>
      /\ WorkOK(worker[w]) /\ worker[w].pc = "query datings" /\ DOMAIN worker = Workers
  BY <1>1, StepFacts
<1>3. IndexesKept BY <1>1 DEF IndexesKept
<1>4. CASE \/ DatedSpans(rows) = <<>>
           \/ LastYear(DatedSpans(rows)) + 1 < FirstYear(DatedSpans(rows))
  <2>1. Raise(w) /\ UNCHANGED dating BY <1>4 DEF QueryDatings
  <2>2. /\ WorkOK(worker[w])' /\ worker'[w].pc = "idle" /\ DOMAIN worker' = Workers
        /\ \A v \in Workers \ {w} : worker'[v] = worker[v]
    BY <1>2, <2>1, IdleFacts DEF Raise
  <2>3. Holds(w, worker[w].pc)' BY <2>2 DEF Holds, AskingPcs
  <2> QED BY <1>1, <2>1, <2>2, <2>3, DatingStep
<1>5. CASE ~(\/ DatedSpans(rows) = <<>>
             \/ LastYear(DatedSpans(rows)) + 1 < FirstYear(DatedSpans(rows)))
  <2>1. Goto(w, "open file") /\ dating' = DatedSpans(rows) BY <1>5 DEF QueryDatings
  <2>2. dating' \in Spans
    <3>1. rows \in Catalogues BY DEF ScoringInv
    <3> QED BY <1>5, <2>1, <3>1 DEF Spans
  <2>3. SamePhase(worker[w].pc, "open file") /\ "open file" \notin AskingPcs
    BY <1>2 DEF SamePhase, DatingPcs, AskingPcs
  <2>4. WorkOK(worker[w])' /\ worker'[w].pc = "open file"
    BY <1>2, <1>3, <2>1, <2>3, GotoWithin
  <2>5. Spans' = Spans BY DEF Spans
  <2>6. Holds(w, worker[w].pc)' BY <2>2, <2>4, <2>5 DEF Holds, AskingPcs
  <2>7. DOMAIN worker' = Workers /\ \A v \in Workers \ {w} : worker'[v] = worker[v]
    BY <1>2, <2>1, GotoFacts
  <2> QED BY <1>1, <2>2, <2>4, <2>6, <2>7, DatingStep
<1> QED BY <1>4, <1>5

LEMMA OpenKeeps ==
    ASSUME ScoringInv, NEW w \in Workers, OpenFile(w)
    PROVE  ScoringInv'
<1>1. /\ At(w, "open file") /\ StageKept /\ UNCHANGED <<artists, titles, dating, scores>>
      /\ file' = Torn /\ Goto(w, "dump")
  BY DEF OpenFile, indexes
<1>2. /\ UNCHANGED <<rows, run, read, span>> /\ Holds(w, "open file") /\ Spans' = Spans
      /\ WorkOK(worker[w]) /\ worker[w].pc = "open file" /\ DOMAIN worker = Workers
  BY <1>1, StepFacts
<1>3. IndexesKept BY <1>1 DEF IndexesKept
<1>4. SamePhase(worker[w].pc, "dump") /\ "dump" \notin AskingPcs
  BY <1>2 DEF SamePhase, DatingPcs, AskingPcs
<1>5. WorkOK(worker[w])' /\ worker'[w].pc = "dump" BY <1>1, <1>2, <1>3, <1>4, GotoWithin
<1>6. Holds(w, worker[w].pc)' BY <1>1, <1>2, <1>5 DEF Holds, AskingPcs
<1>7. DOMAIN worker' = Workers /\ \A v \in Workers \ {w} : worker'[v] = worker[v]
  BY <1>1, <1>2, GotoFacts
<1> QED BY <1>1, <1>5, <1>6, <1>7, DatingStep

LEMMA DumpKeeps ==
    ASSUME ScoringInv, NEW w \in Workers, Dump(w)
    PROVE  ScoringInv'
<1>1. /\ At(w, "dump") /\ StageKept /\ UNCHANGED <<artists, titles, dating, scores>>
      /\ file' = dating /\ Goto(w, "dating")
  BY DEF Dump, indexes
<1>2. /\ UNCHANGED <<rows, run, read, span>> /\ Holds(w, "dump") /\ Spans' = Spans
      /\ WorkOK(worker[w]) /\ worker[w].pc = "dump" /\ DOMAIN worker = Workers
  BY <1>1, StepFacts
<1>3. IndexesKept BY <1>1 DEF IndexesKept
<1>4. SamePhase(worker[w].pc, "dating") /\ "dating" \notin AskingPcs
  BY <1>2 DEF SamePhase, DatingPcs, AskingPcs
<1>5. WorkOK(worker[w])' /\ worker'[w].pc = "dating" BY <1>1, <1>2, <1>3, <1>4, GotoWithin
<1>6. Holds(w, worker[w].pc)' BY <1>5 DEF Holds, AskingPcs
<1>7. dating \in Spans BY <1>2 DEF Holds
<1>8. DOMAIN worker' = Workers /\ \A v \in Workers \ {w} : worker'[v] = worker[v]
  BY <1>1, <1>2, GotoFacts
<1> QED BY <1>1, <1>5, <1>6, <1>7, <1>8, DatingStep
-----------------------------------------------------------------------------
(* The steps of the stage.                                                  *)

LEMMA QuietFine ==
    ASSUME NothingRuns
    PROVE  ArtistsInv /\ TitlesInv /\ ScoresOK /\ ThreadsOK
<1>1. artists = NoArtists /\ titles = NoTitles BY DEF NothingRuns
<1>2. ArtistsInv
  <2>1. /\ artists = [counts |-> artists.counts, total |-> artists.total,
                      loaded |-> artists.loaded, lookup |-> artists.lookup,
                      current |-> artists.current, lock |-> artists.lock, of |-> artists.of]
        /\ artists.loaded = FALSE /\ artists.lookup = <<>>
    BY <1>1 DEF NoArtists
  <2> QED BY <2>1 DEF ArtistsInv
<1>3. TitlesInv BY <1>1 DEF TitlesInv, NoTitles
<1>4. ScoresOK BY DEF NothingRuns, Unscored, ScoresOK
<1>5. "idle" \notin {"pair"} \cup NamePcs \cup AskingPcs \cup TitlePcs \cup DatingPcs
  BY DEF NamePcs, AskingPcs, TitlePcs, DatingPcs
<1>6. WorkOK(Idle) BY <1>5 DEF WorkOK, Idle
<1>7. \A w \in Workers : worker[w] = Idle BY DEF NothingRuns
<1>8. \A w \in Workers : worker[w].pc = "idle" BY <1>7 DEF Idle
<1>9. DOMAIN worker = Workers BY DEF NothingRuns
<1>10. ThreadsOK BY <1>6, <1>7, <1>8, <1>9, PairHolds DEF ThreadsOK
<1> QED BY <1>2, <1>3, <1>4, <1>10

LEMMA QuietFrame ==
    ASSUME NothingRuns, UNCHANGED <<indexes, worker, scores>>
    PROVE  NothingRuns'
BY DEF NothingRuns, indexes

\* A step that leaves the threads, the indexes and what they have read.
LEMMA AllKept ==
    ASSUME ScoringInv, UNCHANGED <<read, span, indexes, worker, scores>>
    PROVE  /\ ArtistsInv' /\ TitlesInv' /\ ScoresOK' /\ ThreadsOK'
           /\ dating' = None \/ dating' \in Spans
<1>1. IndexesKept /\ \A v : Undisturbed(v) BY IndexesIdle
<1>2. /\ ArtistsInv /\ TitlesInv /\ ScoresOK /\ ThreadsOK /\ (dating = None \/ dating \in Spans)
      /\ dating' = dating
  BY DEF ScoringInv, indexes
<1>3. ArtistsInv' /\ TitlesInv' BY <1>2, ArtistsInvFrame, TitlesInvFrame DEF indexes
<1>4. ScoresOK' BY <1>1, <1>2, ScoresFrame
<1>5. ASSUME NEW v \in Workers PROVE WorkOK(worker[v])' /\ Holds(v, worker[v].pc)'
  <2>1. WorkOK(worker[v]) /\ Holds(v, worker[v].pc) BY <1>2 DEF ThreadsOK
  <2>2. WorkOK(worker[v])' BY <1>1, <2>1, WorkFrame
  <2>3. Holds(v, worker[v].pc)' BY <1>1, <1>2, <2>1, HoldsFrame
  <2> QED BY <2>2, <2>3
<1>6. ThreadsOK' BY <1>2, <1>5 DEF ThreadsOK
<1> QED BY <1>2, <1>3, <1>4, <1>6

LEMMA ForgetQuiet == Forget => NothingRuns' /\ run' = "off" /\ waiting' = {}
BY DEF Forget, NothingRuns, Unscored, NoArtists, NoTitles, Idle

LEMMA ScoringStart == ScoringInit => ScoringInv
<1> SUFFICES ASSUME ScoringInit PROVE ScoringInv OBVIOUS
<1>1. NothingRuns BY DEF ScoringInit, NothingRuns
<1>2. ArtistsInv /\ TitlesInv /\ ScoresOK /\ ThreadsOK BY <1>1, QuietFine
<1>3. /\ rows \in Catalogues /\ waiting = {} /\ run = "normalising" /\ file = NoFile
      /\ dating = None
  BY DEF ScoringInit
<1> QED BY <1>1, <1>2, <1>3 DEF ScoringInv

LEMMA ScoringSteps ==
    ASSUME DatesInv, ScoringInv, NEW w \in Workers, Step(w)
    PROVE  ScoringInv'
BY TakeKeeps, StartPairKeeps, LotReadyKeeps, AskKeeps, UnseenKeeps, RebuildKeeps, RebuiltKeeps,
   ArtistsJudgedKeeps, LockArtistsKeeps, LoadArtistsKeeps, RaiseArtistsKeeps,
   IndexArtistsKeeps, FreeArtistsKeeps, JudgeTitleKeeps, LockTitlesKeeps, CountTitlesKeeps,
   TotalTitlesKeeps, FreeTitlesKeeps, JudgeDatingKeeps, QueryKeeps, OpenKeeps, DumpKeeps
   DEF Step

LEMMA ScoringKeeps ==
    ASSUME DatesInv, ScoringInv, [ScoringNext]_scoringVars
    PROVE  ScoringInv'
<1>0. /\ rows \in Catalogues /\ waiting \subseteq Lots /\ Spans' = Spans
      /\ (file # NoFile /\ file # Torn => file \in Spans)
      /\ (run \in {"scoring", "failed", "done"} => read \in Catalogues)
      /\ (run \in {"normalising", "asking", "off"} => NothingRuns)
      /\ (dating = None \/ dating \in Spans)
  BY DEF ScoringInv, Spans
<1>1. CASE NormalizeWithRegex \/ NormalizeWithModel
  <2>1. /\ run \in {"normalising", "asking"} /\ run' \in {"asking", "off"}
        /\ UNCHANGED <<rows, file, read, indexes, worker, waiting, scores>>
    BY <1>1 DEF NormalizeWithRegex, NormalizeWithModel
  <2>2. NothingRuns' BY <1>0, <2>1, QuietFrame
  <2>3. (ArtistsInv /\ TitlesInv /\ ScoresOK /\ ThreadsOK)' BY <2>2, QuietFine, PTL
  <2>4. dating' = None BY <2>2 DEF NothingRuns
  <2> QED BY <1>0, <2>1, <2>2, <2>3, <2>4 DEF ScoringInv
<1>2. CASE StartRun
  <2>1. /\ run = "off" /\ run' = "scoring" /\ read' = rows /\ waiting' = Lots
        /\ UNCHANGED <<rows, file, indexes, worker, scores>>
    BY <1>2 DEF StartRun
  <2>2. NothingRuns' BY <1>0, <2>1, QuietFrame
  <2>3. (ArtistsInv /\ TitlesInv /\ ScoresOK /\ ThreadsOK)' BY <2>2, QuietFine, PTL
  <2>4. dating' = None BY <2>2 DEF NothingRuns
  <2> QED BY <1>0, <2>1, <2>2, <2>3, <2>4 DEF ScoringInv
<1>3. CASE Finish
  <2>1. /\ run = "scoring" /\ run' \in {"done", "failed"}
        /\ UNCHANGED <<rows, file, read, span, indexes, worker, waiting, scores>>
    BY <1>3 DEF Finish, handoff
  <2>2. /\ ArtistsInv' /\ TitlesInv' /\ ScoresOK' /\ ThreadsOK'
        /\ dating' = None \/ dating' \in Spans
    BY <2>1, AllKept
  <2> QED BY <1>0, <2>1, <2>2 DEF ScoringInv
<1>4. CASE ExitStage \/ Kill
  <2>1. NothingRuns' /\ run' = "off" /\ waiting' = {} /\ UNCHANGED <<rows, file>>
    BY <1>4, ForgetQuiet DEF ExitStage, Kill
  <2>2. (ArtistsInv /\ TitlesInv /\ ScoresOK /\ ThreadsOK)' BY <2>1, QuietFine, PTL
  <2>3. dating' = None BY <2>1 DEF NothingRuns
  <2> QED BY <1>0, <2>1, <2>2, <2>3 DEF ScoringInv
<1>5. CASE ChangeRows
  <2>1. /\ run \in {"off", "scoring"} /\ rows' \in Catalogues
        /\ UNCHANGED <<run, file, read, span, indexes, worker, waiting, scores>>
    BY <1>5 DEF ChangeRows, handoff, process, indexes
  <2>2. /\ ArtistsInv' /\ TitlesInv' /\ ScoresOK' /\ ThreadsOK'
        /\ dating' = None \/ dating' \in Spans
    BY <2>1, AllKept
  <2>3. NothingRuns => NothingRuns' BY <2>1, QuietFrame
  <2> QED BY <1>0, <2>1, <2>2, <2>3 DEF ScoringInv
<1>6. CASE \E w \in Workers : Step(w)
  BY <1>6, ScoringSteps
<1>7. CASE UNCHANGED scoringVars
  <2>1. UNCHANGED <<run, rows, file, read, span, indexes, worker, waiting, scores>>
    BY <1>7 DEF scoringVars, indexes
  <2>2. /\ ArtistsInv' /\ TitlesInv' /\ ScoresOK' /\ ThreadsOK'
        /\ dating' = None \/ dating' \in Spans
    BY <2>1, AllKept
  <2>3. NothingRuns => NothingRuns' BY <2>1, QuietFrame
  <2> QED BY <1>0, <2>1, <2>2, <2>3 DEF ScoringInv
<1> QED BY <1>1, <1>2, <1>3, <1>4, <1>5, <1>6, <1>7 DEF ScoringNext

\* What has been kept, for lots that are through and for those in work.
LEMMA ScoresAreRight ==
    ASSUME ScoringInv, NEW l \in Lots, NEW f \in ScoresOf(l)
    PROVE  RightScore(l, f.row, f.score)
<1> DEFINE ready == IF scores[l] = None THEN {} ELSE {scores[l][i] : i \in DOMAIN scores[l]}
<1>1. CASE f \in ready
  <2>1. scores[l] # None BY <1>1
  <2>2. PICK i \in DOMAIN scores[l] : f = scores[l][i] BY <1>1
  <2>3. FoundOK(l, scores[l], Len(read) + 1) BY <2>1 DEF ScoringInv, ScoresOK
  <2> QED BY <2>2, <2>3 DEF FoundOK
<1>2. CASE f \notin ready
  <2>1. PICK w \in {v \in Workers : worker[v].lot = l} :
              f \in {worker[w].found[i] : i \in DOMAIN worker[w].found}
    BY <1>2 DEF ScoresOf
  <2>2. PICK i \in DOMAIN worker[w].found : f = worker[w].found[i] BY <2>1
  <2>3. WorkOK(worker[w]) BY <2>1 DEF ScoringInv, ThreadsOK
  <2>4. worker[w].found # <<>> BY <2>2
  <2>5. FoundOK(l, worker[w].found, worker[w].row) BY <2>1, <2>3, <2>4 DEF WorkOK, AtRow
  <2> QED BY <2>2, <2>5 DEF FoundOK
<1> QED BY <1>1, <1>2

LEMMA RarityStated == ScoringInv => RarityNeverUnderstated
BY ScoresAreRight DEF RarityNeverUnderstated, RightScore

LEMMA KeptStated == DatesInv /\ ScoringInv => KeptIsDeserved
<1> SUFFICES ASSUME DatesInv, ScoringInv, NEW l \in Lots
             PROVE  /\ \A f \in ScoresOf(l) :
                          /\ FitsTable(f.score)
                          /\ \/ <<l, f.row>> \in ImagePairs
                             \/ /\ Agree(f.score.sims)
                                /\ f.score.confidence \notin 0..(ConfThreshold - 1)
                    /\ scores[l] # None =>
                          \A i \in DOMAIN read :
                              (<<l, i>> \in ImagePairs \/ Deserving(read[i], LotRow(l))) =>
                                  \E f \in ScoresOf(l) : f.row = i
  BY DEF KeptIsDeserved
<1>1. \A f \in ScoresOf(l) : /\ FitsTable(f.score)
                             /\ \/ <<l, f.row>> \in ImagePairs
                                \/ /\ Agree(f.score.sims)
                                   /\ f.score.confidence \notin 0..(ConfThreshold - 1)
  BY ScoresAreRight DEF RightScore
<1>2. ASSUME scores[l] # None, NEW i \in DOMAIN read, Wanted(l, i)
      PROVE  \E f \in ScoresOf(l) : f.row = i
  <2>1. FoundOK(l, scores[l], Len(read) + 1) BY <1>2 DEF ScoringInv, ScoresOK
  <2>2. read \in Catalogues
    <3>1. ~NothingRuns BY <1>2 DEF NothingRuns, Unscored
    <3> QED BY <3>1 DEF ScoringInv, DatesInv
  <2>3. IsSeq(read) BY <2>2, RowsAssumption
  <2>4. Len(read) \in Nat /\ DOMAIN read = 1..Len(read) BY <2>3, PositionsFinite
  <2>5. i \in 1..((Len(read) + 1) - 1) BY <2>4
  <2>6. PICK j \in DOMAIN scores[l] : scores[l][j].row = i BY <1>2, <2>1, <2>5 DEF FoundOK
  <2>7. scores[l][j] \in ScoresOf(l) BY <1>2 DEF ScoresOf
  <2> QED BY <2>6, <2>7
<1> QED BY <1>1, <1>2 DEF Wanted

\* RarityNeverUnderstated: however threads load, rebuild and share the indexes of
\* artists and titles, no pair that was kept rates its names as more common than they
\* are among the rows the index was loaded from, nor its titles as more common than
\* their count in the rows of the first query is among the titled rows of the second.
THEOREM ScoringRarityNeverUnderstated == ScoringSpec => []RarityNeverUnderstated
<1>1. ScoringInit => DatesInv /\ ScoringInv BY DatesInit, ScoringStart
<1>2. DatesInv /\ ScoringInv /\ [ScoringNext]_scoringVars => (DatesInv /\ ScoringInv)'
  BY DatesNext, ScoringKeeps
<1>3. ScoringInv => RarityNeverUnderstated BY RarityStated
<1> QED BY <1>1, <1>2, <1>3, PTL DEF ScoringSpec

\* KeptIsDeserved: a pair is kept only if what is known of both sides agrees and its
\* confidence is no number below the threshold, or to complete an image match; the
\* table takes its numbers, but for a confidence that is none because its dating's is;
\* and a lot that is ready has every pair that deserves to be kept.
THEOREM ScoringKeptIsDeserved == ScoringSpec => []KeptIsDeserved
<1>1. ScoringInit => DatesInv /\ ScoringInv BY DatesInit, ScoringStart
<1>2. DatesInv /\ ScoringInv /\ [ScoringNext]_scoringVars => (DatesInv /\ ScoringInv)'
  BY DatesNext, ScoringKeeps
<1>3. DatesInv /\ ScoringInv => KeptIsDeserved BY KeptStated
<1> QED BY <1>1, <1>2, <1>3, PTL DEF ScoringSpec
=============================================================================
