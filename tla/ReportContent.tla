---------------------------- MODULE ReportContent ----------------------------
(* linux-gateway/app/reporting/service.py: the report made of the status as   *)
(* it stands, and its CSV export. Units are those of the status, names and    *)
(* texts of the report form are left out.                                     *)
EXTENDS GatewayStatus

(* The fields of the status that the report reads.                            *)
FaultGiven(st) == st.fault # None
FaultState(st) == st.system # None /\ st.system.fault_state # 0
MeasurementValid(st) == st.pack # None /\ st.pack.measurement_valid
PackField(st, field) == IF st.pack = None THEN None ELSE st.pack[field]

(* Mutant: a fault code of 0 is no fault.                                     *)
FaultsNonZero(st) ==
    IF FaultState(st) \/ (FaultGiven(st) /\ st.fault.fault_code # 0)
    THEN <<st.fault>> ELSE <<>>

(* _faults_from_status: one line, if a fault frame was ever received or the   *)
(* controller says that it is in a fault state.                               *)
Faults(st) == IF FaultGiven(st) \/ FaultState(st) THEN <<st.fault>> ELSE <<>>

(* _warnings_from_status                                                      *)
Warnings(st) ==
    {w \in {"no connection", "not valid", "delta above 50"} :
        \/ w = "no connection" /\ ~st.connected
        \/ w = "not valid" /\ ~MeasurementValid(st)
        \/ w = "delta above 50" /\ st.cell_delta_mv # None
                                /\ st.cell_delta_mv > 50}

(* _result_from_status                                                        *)
Result(st) ==
    CASE Faults(st) # <<>> -> "FAIL"
      [] Faults(st) = <<>> /\ Warnings(st) # {} -> "WARNING"
      [] Faults(st) = <<>> /\ Warnings(st) = {} ->
             IF st.connected /\ MeasurementValid(st) THEN "OK" ELSE "UNKNOWN"

(* build_report_from_status without the identity: nothing is measured, start  *)
(* and end are the same reading.                                              *)
Report(st) ==
    [summary |->
        [pack_voltage_start |-> PackField(st, "voltage_dv"),
         pack_voltage_end |-> PackField(st, "voltage_dv"),
         min_cell |-> st.min_cell_mv, max_cell |-> st.max_cell_mv,
         delta_cell |-> st.cell_delta_mv,
         current |-> PackField(st, "current_ca"), result |-> Result(st)],
     quick_test |->
        [cell_voltage_rest |-> st.cell_voltages_mv,
         cell_resistance |-> st.cell_resistances,
         max_cell_resistance |-> st.max_cell_resistance,
         warnings |-> Warnings(st), faults |-> Faults(st)],
     cell_count |-> Len(st.cell_voltages_mv)]

(* Mutant: lines are counted from 1, values from 0.                           *)
CsvCellsShifted(report) ==
    LET r == report.quick_test.cell_resistance IN
    [i \in DOMAIN report.quick_test.cell_voltage_rest |->
        [cell_index |-> i, rest |-> report.quick_test.cell_voltage_rest[i],
         resistance |-> IF i + 1 \in DOMAIN r THEN r[i + 1] ELSE None]]

(* export_report_csv: the lines of the cells. There is one for each voltage;  *)
(* load voltages and drops are never filled in.                               *)
CsvCells(report) ==
    LET r == report.quick_test.cell_resistance IN
    [i \in DOMAIN report.quick_test.cell_voltage_rest |->
        [cell_index |-> i, rest |-> report.quick_test.cell_voltage_rest[i],
         resistance |-> IF i \in DOMAIN r THEN r[i] ELSE None]]

=============================================================================
