-------------------------- MODULE MCMeasurementRun ---------------------------
(* Small instances of MeasurementRun for TLC.                                 *)
EXTENDS MeasurementRun

MCRequests ==
    {[command |-> "internal_resistance_start", value |-> 1],
     [command |-> "measurement_start", value |-> 257],
     [command |-> "measurement_stop", value |-> 0],
     [command |-> "measurement_start", value |-> 0]}

=============================================================================
