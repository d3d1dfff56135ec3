---------------------------- MODULE GatewayStatus ----------------------------
(* The GatewayStatus model (linux-gateway/app/models.py) and how              *)
(* CanService._apply_decoded_frame folds a decoded frame into it.             *)
(*                                                                            *)
(* Fields that one kind of frame always sets together are one field here: the *)
(* payload of that frame. uptime_s is left out. A cell value is a reading in  *)
(* mV or in 0.01 mOhm; 0 is what a padded packet carries for an absent cell.  *)
(* Cells are numbered from 1 (the code counts from 0), so the first cell of a *)
(* packet is at first + 1.                                                    *)
EXTENDS Naturals, Sequences, FiniteSetsExt

CONSTANTS
    None,       \* Python's None
    MaxAge      \* rx_timeout_s in polls of the timeout loop; ages stop growing
                \* one above it

ASSUME NoneIsNoNumber == None \notin Nat
ASSUME MaxAgeNat == MaxAge \in Nat

(* last_can_rx_ms is kept as the time since then: None, or 0..MaxAge + 1.     *)
InitialStatus ==
    [connected |-> FALSE, can_error |-> FALSE, age |-> None,
     system |-> None, pack |-> None, fault |-> None, ack |-> None,
     cell_voltages_mv |-> <<>>, cell_resistances |-> <<>>,
     resistance_measurement_running |-> FALSE,
     min_cell_mv |-> None, max_cell_mv |-> None, cell_delta_mv |-> None,
     max_cell_resistance |-> None]

(* Extend `table` with None up to the packet's last cell, then store values.  *)
Store(table, first, values) ==
    [i \in 1 .. Max({Len(table), first + Len(values)}) |->
        IF i - first \in DOMAIN values THEN values[i - first]
        ELSE IF i \in DOMAIN table THEN table[i] ELSE None]

Readings(table) ==
    {table[i] : i \in {j \in DOMAIN table : table[j] # None /\ table[j] > 0}}

(* Mutant: the summary of the packet, not of the table.                       *)
SummarizePacket(st, f) ==
    LET valid == Readings(f.values)
        stored == [st EXCEPT !.cell_voltages_mv =
                                Store(st.cell_voltages_mv, f.first, f.values)]
    IN  IF valid = {} THEN stored
        ELSE [stored EXCEPT !.min_cell_mv = Min(valid),
                            !.max_cell_mv = Max(valid),
                            !.cell_delta_mv = Max(valid) - Min(valid)]

ApplyCellVoltages(st, f) ==
    LET table == Store(st.cell_voltages_mv, f.first, f.values)
        valid == Readings(table)
        stored == [st EXCEPT !.cell_voltages_mv = table]
    IN  IF valid = {} THEN stored
        ELSE [stored EXCEPT !.min_cell_mv = Min(valid),
                            !.max_cell_mv = Max(valid),
                            !.cell_delta_mv = Max(valid) - Min(valid)]

ApplyCellResistances(st, f) ==
    LET table == Store(st.cell_resistances, f.first, f.values)
        valid == Readings(table)
        stored == [st EXCEPT !.cell_resistances = table]
    IN  IF ~st.resistance_measurement_running THEN st
        ELSE IF valid = {} THEN stored
        ELSE [stored EXCEPT !.max_cell_resistance = Max(valid)]

(* Any decodable frame proves the controller alive, whatever it carries.      *)
Apply(status, f) ==
    LET st == [status EXCEPT !.connected = TRUE, !.age = 0] IN
    CASE f.name = "cell_voltages"    -> ApplyCellVoltages(st, f)
      [] f.name = "cell_resistances" -> ApplyCellResistances(st, f)
      [] f.name = "fault"            -> [st EXCEPT !.fault = f.payload]
      [] f.name = "command_ack"      -> [st EXCEPT !.ack = f.payload]
      [] f.name = "system_status"    -> [st EXCEPT !.system = f.payload]
      [] f.name = "pack_measurement" -> [st EXCEPT !.pack = f.payload]

(* decode_frame returns None for the other arbitration ids.                   *)
Decodable(f) ==
    f.name \in {"system_status", "pack_measurement", "cell_voltages", "fault",
                "cell_resistances", "command_ack"}

(* Time passes.                                                               *)
Older(st) == [st EXCEPT !.age = IF @ = None \/ @ > MaxAge THEN @ ELSE @ + 1]

Silent(st) == st.age # None /\ st.age > MaxAge

=============================================================================
