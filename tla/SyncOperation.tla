--------------------------- MODULE SyncOperation ---------------------------
(***************************************************************************)
(* What one synchronization promises its caller (telemetry/delivery.py      *)
(* 61-115): it ends once, with one outcome; success means that the receiver *)
(* has applied the operation, or one that supersedes it; any other outcome  *)
(* says nothing of that.                                                    *)
(***************************************************************************)
VARIABLES outcome,   \* running, ok, transient, terminal or deadline
          applied    \* the receiver has applied the operation, or a later one

Init == outcome = "running" /\ applied = FALSE

Apply == ~applied /\ applied' = TRUE /\ UNCHANGED outcome

Finish == /\ outcome = "running"
          /\ outcome' \in {"ok", "transient", "terminal", "deadline"}
          /\ applied' \in {applied, TRUE}
          /\ outcome' = "ok" => applied'

Next == Apply \/ Finish

Spec == Init /\ [][Next]_<<outcome, applied>> /\ WF_<<outcome, applied>>(Finish)
=============================================================================
