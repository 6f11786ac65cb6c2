---------------------------- MODULE AtomicCleanup ---------------------------
(***************************************************************************)
(* What the deletion of unmatched auction images promises: a deletion is   *)
(* one step that marks a file's rows cleaned and takes its bytes away, and  *)
(* nothing but a deletion, a writer or a hand at the store changes what the *)
(* live rows can count on.  ImageCleanup implements it with a quarantine.  *)
(***************************************************************************)
EXTENDS Integers, FiniteSets

CONSTANTS Row, Target, TargetOf, MaxVersion

VARIABLES
  rowState,   \* "unborn", "live" or "cleaned"
  use,        \* "candidate", "protected" or "idle"
  kept,       \* the versions of a target's bytes that are not given up
  written,    \* how many versions were written
  lost        \* versions removed by hand

vars == <<rowState, use, kept, written, lost>>

Live(t) == {r \in Row : rowState[r] = "live" /\ TargetOf[r] = t}

Init ==
  /\ rowState \in [Row -> {"unborn", "live"}]
  /\ use \in [Row -> {"candidate", "protected", "idle"}]
  /\ written \in [Target -> {0, 1}]
  /\ kept = [t \in Target |-> IF written[t] = 0 THEN {} ELSE {1}]
  /\ lost = [t \in Target |-> {}]

\* Whole groups of aliases are deleted, never a protected one.  Their bytes are
\* given up, except what was written after the deletion looked.
Delete ==
  /\ \E R \in (SUBSET Row) \ {{}} :
       LET T == {TargetOf[r] : r \in R} IN
       /\ \A t \in T : Live(t) \subseteq R
       /\ \A r \in R : rowState[r] = "live" /\ use[r] # "protected"
       /\ rowState' = [r \in Row |-> IF r \in R THEN "cleaned" ELSE rowState[r]]
       /\ \E newer \in [T -> SUBSET (1..MaxVersion)] :
            /\ \A t \in T : newer[t] \subseteq kept[t]
            /\ kept' = [t \in Target |-> IF t \in T THEN newer[t] ELSE kept[t]]
  /\ UNCHANGED <<use, written, lost>>

\* New bytes arrive, in place of the file at the path or beside none.
Write(t) ==
  /\ written[t] < MaxVersion
  /\ written' = [written EXCEPT ![t] = @ + 1]
  /\ \E old \in kept[t] \cup {0} :
       kept' = [kept EXCEPT ![t] = (@ \ {old}) \cup {written'[t]}]
  /\ UNCHANGED <<rowState, use, lost>>

Remove(t) ==
  /\ \E v \in kept[t] : /\ kept' = [kept EXCEPT ![t] = @ \ {v}]
                        /\ lost' = [lost EXCEPT ![t] = @ \cup {v}]
  /\ UNCHANGED <<rowState, use, written>>

Record(r) ==
  /\ rowState[r] \in {"unborn", "live"}
  /\ rowState' = [rowState EXCEPT ![r] = "live"]
  /\ use' = [use EXCEPT ![r] = "protected"]
  /\ UNCHANGED <<kept, written, lost>>

ChangeUse(r) ==
  /\ rowState[r] = "live"
  /\ \E u \in {"candidate", "protected", "idle"} : use' = [use EXCEPT ![r] = u]
  /\ UNCHANGED <<rowState, kept, written, lost>>

Next ==
  \/ Delete
  \/ \E t \in Target : Write(t) \/ Remove(t)
  \/ \E r \in Row : Record(r) \/ ChangeUse(r)

Spec == Init /\ [][Next]_vars
=============================================================================
