--------------------------- MODULE DailyAttempt ---------------------------
(***************************************************************************)
(* What the ledger telemetry_daily_attempt promises (telemetry/database.py  *)
(* 229-345): a date is claimed once and for ever, at most one operation is  *)
(* delivered under its claim, and a row that says "sent" is the row of a    *)
(* date whose operation was delivered.                                      *)
(***************************************************************************)
CONSTANT Dates

VARIABLES rows,       \* date -> none, started, sent or failed
          delivered   \* dates whose daily operation the receiver has

Init == /\ rows = [d \in Dates |-> "none"]
        /\ delivered = {}

Claim(d) == /\ rows[d] = "none"
            /\ rows' = [rows EXCEPT ![d] = "started"]
            /\ UNCHANGED delivered

Deliver(d) == /\ rows[d] = "started" /\ d \notin delivered
              /\ delivered' = delivered \cup {d}
              /\ UNCHANGED rows

Close(d, status) == /\ rows[d] = "started"
                    /\ status = "sent" => d \in delivered
                    /\ rows' = [rows EXCEPT ![d] = status]
                    /\ UNCHANGED delivered

Next == \E d \in Dates : \/ Claim(d) \/ Deliver(d)
                         \/ \E s \in {"sent", "failed"} : Close(d, s)

Spec == Init /\ [][Next]_<<rows, delivered>>
=============================================================================
