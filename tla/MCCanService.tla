---------------------------- MODULE MCCanService -----------------------------
(* Small instances of CanService for TLC.                                     *)
EXTENDS CanService

CONSTANTS f1

(* One payload of each simple kind is enough to see it arrive.                *)
MCFaultFrames ==
    {[name |-> "fault", payload |-> f1], [name |-> "heartbeat_echo"]}

MCRequests ==
    {[command |-> "internal_resistance_start", value |-> 1],
     [command |-> "internal_resistance_start", value |-> 9],
     [command |-> "measurement_start", value |-> 257],
     [command |-> "measurement_stop", value |-> 0]}

=============================================================================
