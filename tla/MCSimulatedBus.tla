--------------------------- MODULE MCSimulatedBus ----------------------------
(* Small instance of SimulatedBus for TLC.                                    *)
EXTENDS SimulatedBus

MCCurrents == {-75}
MCAcks == {[command |-> 16, seq |-> 255, result |-> 1, reason |-> 7]}

MCStartStop ==
    {[command |-> "internal_resistance_start", value |-> 1],
     [command |-> "measurement_stop", value |-> 0]}

=============================================================================
