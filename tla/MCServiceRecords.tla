-------------------------- MODULE MCServiceRecords ---------------------------
(* Small instance of ServiceRecords for TLC: values at the edges of what the  *)
(* code compares with (30 and 50 mV of delta, 3 and 5 mOhm, the warning       *)
(* limits, currents of zero, very small and of either direction).             *)
EXTENDS ServiceRecords

Packet(name, first, values) == [name |-> name, first |-> first, values |-> values]

Pack(current) ==
    [name |-> "pack_measurement",
     payload |-> [voltage_dv |-> 3600, current_ca |-> current, power_w |-> 4442,
                  measurement_valid |-> TRUE]]

MCFrames ==
    {Packet("cell_voltages", 0, v) :
        v \in {<<3700, 3731, 0>>, <<3700, 3750, 3700>>, <<0, 0, 0>>}}
    \cup {Packet("cell_voltages", 3, v) : v \in {<<3649, 3760, 0>>, <<0, 0, 0>>}}
    \cup {Packet("cell_resistances", 0, r) : r \in {<<200, 305, 655>>, <<0, 31, 0>>}}
    \cup {Pack(i) : i \in {0, 7, -1000}}
    \cup {[name |-> "fault", payload |-> [fault_code |-> c]] : c \in {0, 2}}
    \cup {[name |-> "system_status", payload |-> [fault_state |-> s]] : s \in {0, 1}}

NoRequest == [x \in RequestFields |-> None]

MCRequests ==
    {NoRequest,
     [NoRequest EXCEPT !["cell_count"] = 2, !["module_no"] = 0],
     [NoRequest EXCEPT !["module_count"] = 4, !["warn_low"] = 3700],
     [NoRequest EXCEPT !["module_count"] = 2, !["cell_count"] = 5],
     [NoRequest EXCEPT !["module_no"] = 2, !["target"] = 3700,
                       !["charge_current"] = 500]}

=============================================================================
