------------------------- MODULE MCTelemetryWriter -------------------------
(***************************************************************************)
(* Small instances of TelemetryWriter for TLC.                             *)
(***************************************************************************)
EXTENDS TelemetryWriter

(* Every sensor is a tenant of its own.                                    *)
OwnTenant == [s \in Sensors |-> s]
=============================================================================
