------------------------ MODULE MCTelemetryDelivery ------------------------
(* TelemetryDelivery for TLC. *)
EXTENDS TelemetryDelivery
=============================================================================
