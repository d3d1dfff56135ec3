--------------------------- MODULE ServiceProcesses --------------------------
(* linux-gateway/app/service_processes.py: the measurement record that a      *)
(* service process makes of the status at the moment a button is pressed.     *)
(*                                                                            *)
(* Units are those of the wire, as whole numbers: mV, 0.01 mOhm, 0.01 A,      *)
(* 0.1 V, W; a derived resistance is in 0.001 mOhm, the third decimal the     *)
(* code keeps. Labels are short names for the Hungarian ones. Times, energies *)
(* and the texts of summary and notes are left out.                           *)
EXTENDS GatewayStatus, Integers

(* Currents, and voltages computed back from them, may be negative.           *)
ASSUME NoneIsNoInteger == None \notin Int

(* A request: the fields of ServiceProcessStartRequest that the record        *)
(* depends on, None if they are not given.                                    *)
RequestFields ==
    {"process_key", "measurement_stage", "cell_count", "module_no",
     "module_count", "warn_low", "warn_high", "target", "charge_current"}

-----------------------------------------------------------------------------
(* Helpers                                                                    *)

Given(x) == x # None
Positive(x) == Given(x) /\ x > 0
AbsOf(x) == IF x < 0 THEN -x ELSE x

(* _list_get, _trim_cells                                                     *)
At(values, i) == IF i \in DOMAIN values THEN values[i] ELSE None

(* Mutant: the last cells are kept, not the first.                            *)
TrimFront(values, count) ==
    IF Positive(count) /\ count < Len(values)
    THEN SubSeq(values, Len(values) - count + 1, Len(values)) ELSE values

Trim(values, count) ==
    IF Positive(count) /\ count < Len(values)
    THEN SubSeq(values, 1, count) ELSE values

(* round(): the nearest whole number of n / d. Halfway, which one it is       *)
(* depends on how the binary fraction came out, so both are possible.         *)
Roundings(n, d) ==
    {q \in {n \div d, n \div d + 1} : 2 * AbsOf(n - q * d) <= d}

(* _min_value, _max_value, _index_of: 0 is no reading.                        *)
MinOf(values) == IF Readings(values) = {} THEN None ELSE Min(Readings(values))
MaxOf(values) == IF Readings(values) = {} THEN None ELSE Max(Readings(values))
DeltaOf(values) ==
    IF Readings(values) = {} THEN None
    ELSE Max(Readings(values)) - Min(Readings(values))
IndexOf(values, x) ==
    IF x = None THEN None ELSE Min({i \in DOMAIN values : values[i] = x})

(* What the last pack frame said.                                             *)
Current(st) == IF Given(st.pack) THEN st.pack.current_ca ELSE None
PackVoltage(st) == IF Given(st.pack) THEN st.pack.voltage_dv ELSE None

-----------------------------------------------------------------------------
(* Modules                                                                    *)

(* Mutant: cells per module rounded down.                                     *)
ModuleNoFloor(i, cells, modules) ==
    IF ~Given(modules) \/ modules <= 1 \/ cells <= 0 THEN 1
    ELSE LET per == Max({1, cells \div modules}) IN (i - 1) \div per + 1

(* _module_no of cell i (counted from 1): cells are dealt out evenly, the     *)
(* quotient rounded up.                                                       *)
ModuleNo(i, cells, modules) ==
    IF ~Given(modules) \/ modules <= 1 \/ cells <= 0 THEN 1
    ELSE LET per == (cells + modules - 1) \div modules
             m == (i - 1) \div per + 1
         IN  IF m < modules THEN m ELSE modules

RowModule(req, i, cells) ==
    IF Positive(req.module_no) THEN req.module_no
    ELSE ModuleNo(i, cells, req.module_count)

(* Discharge and charge are of a module, or with 0 of the whole pack.         *)
PackModule(req) == IF Positive(req.module_no) THEN req.module_no ELSE 0

-----------------------------------------------------------------------------
(* Rest measurement                                                           *)

CellStatus(v, low, high) ==
    CASE v = None                             -> "no data"
      [] v # None /\ Given(low) /\ v < low    -> "low"
      [] v # None /\ ~(Given(low) /\ v < low)
             /\ Given(high) /\ v > high       -> "high"
      [] OTHER                                -> "ok"

Longer(a, b) == IF Len(a) < Len(b) THEN Len(b) ELSE Len(a)

BuildCells(v, r, req) ==
    LET n == Longer(v, r) IN
    [i \in 1 .. n |->
        [module_no |-> RowModule(req, i, n), cell_no |-> i,
         voltage |-> At(v, i), internal_resistance |-> At(r, i),
         status |-> CellStatus(At(v, i), req.warn_low, req.warn_high)]]

-----------------------------------------------------------------------------
(* Resistance measurement                                                     *)

(* 0.01 mOhm times 0.01 A in a mV, and a mV per 0.01 A in 0.001 mOhm.         *)
PerMillivolt == 10000
PerCentiampere == 100000

(* Mutant: the sign of the current is kept.                                   *)
LoadVoltagesSigned(rest, r, current) ==
    IF ~Given(rest) \/ ~Given(r) \/ ~Given(current) \/ current = 0 THEN {None}
    ELSE {rest - drop : drop \in Roundings(r * current, PerMillivolt)}

(* _derive_load_voltage: the voltage under load is not measured but computed  *)
(* back from the resistance, and kept to the mV.                              *)
LoadVoltages(rest, r, current) ==
    IF ~Given(rest) \/ ~Given(r) \/ ~Given(current) \/ current = 0 THEN {None}
    ELSE {rest - drop : drop \in Roundings(r * AbsOf(current), PerMillivolt)}

ResistanceStatus(r) ==
    IF r <= 3000 THEN "ok" ELSE IF r <= 5000 THEN "watch" ELSE "high"

NotMeasured(note) == [status |-> "not measured", resistance |-> None, note |-> note]

(* _resistance_row: the resistance is computed once more, from the voltages.  *)
ResistanceRows(rest, load, current) ==
    IF ~Given(rest) THEN {NotMeasured("no rest voltage")}
    ELSE IF ~Given(load) THEN {NotMeasured("no load voltage")}
    ELSE IF load > rest THEN {NotMeasured("load above rest")}
    ELSE {[status |-> ResistanceStatus(r), resistance |-> r, note |-> ""] :
             r \in Roundings((rest - load) * PerCentiampere, current)}

RowsOfCell(rest, r, current) ==
    UNION {ResistanceRows(rest, load, IF Given(current) THEN AbsOf(current) ELSE None) :
               load \in LoadVoltages(rest, r, current)}

(* The possible rows of each cell.                                            *)
BuildResistances(v, r, st, req) ==
    LET n == Longer(v, r) IN
    [i \in 1 .. n |->
        [module_no |-> RowModule(req, i, n), cell_no |-> i,
         rows |-> RowsOfCell(At(v, i), At(r, i), Current(st))]]

-----------------------------------------------------------------------------
(* Discharge, charge and balancing                                            *)

(* The row both have in common: nothing is waited for, so the values at the   *)
(* start are those at the end.                                                *)
PackRow(v, st, req) ==
    [module_no |-> PackModule(req), voltage |-> PackVoltage(st),
     min |-> MinOf(v), max |-> MaxOf(v), delta |-> DeltaOf(v),
     min_cell_no |-> IndexOf(v, MinOf(v)), max_cell_no |-> IndexOf(v, MaxOf(v))]

Cutoff(cell, st, reached) ==
    IF ~Given(cell) \/ ~Given(PackVoltage(st)) THEN "incomplete"
    ELSE IF reached THEN "reached" ELSE "interrupted"

BuildDischarge(v, st, req) ==
    LET below == Given(MinOf(v)) /\ Given(req.target) /\ MinOf(v) <= req.target IN
    [row |-> PackRow(v, st, req),
     current |-> IF Given(Current(st)) THEN AbsOf(Current(st)) ELSE None,
     cutoff |-> Cutoff(MinOf(v), st, below),
     status |-> IF ~Given(MinOf(v)) THEN "not measured"
                ELSE IF below THEN "below target" ELSE "ok"]

(* The current is the requested one when none is measured.                    *)
ChargeCurrent(st, req) ==
    IF Given(Current(st)) /\ Current(st) # 0 THEN AbsOf(Current(st))
    ELSE IF Positive(req.charge_current) THEN req.charge_current ELSE None

BuildCharge(v, st, req) ==
    LET full == Given(MaxOf(v)) /\ Given(req.target) /\ MaxOf(v) >= req.target IN
    [row |-> PackRow(v, st, req), current |-> ChargeCurrent(st, req),
     cutoff |-> Cutoff(MaxOf(v), st, full),
     status |-> IF ~Given(MaxOf(v)) THEN "not measured"
                ELSE IF full THEN "ok" ELSE "in progress"]

(* Mutant: the lowest cell is the target.                                     *)
BalanceTargetLowest(v, req) ==
    IF Given(req.target) THEN req.target ELSE MinOf(v)

BalanceTarget(v, req) ==
    IF Given(req.target) THEN req.target ELSE MaxOf(v)

(* _balance_row: cells are only ever charged up to the target, and 5 mV below *)
(* it count as reached.                                                       *)
BalanceRow(start, target) ==
    IF ~Given(start) \/ ~Given(target)
    THEN [status |-> "not measured", end |-> None, change |-> None]
    ELSE LET end == IF start < target THEN target ELSE start IN
         [status |-> IF end >= target - 5 THEN "ok" ELSE "not reached",
          end |-> end, change |-> end - start]

BuildBalance(v, req) ==
    [i \in DOMAIN v |->
        [module_no |-> RowModule(req, i, Len(v)), cell_no |-> i,
         row |-> BalanceRow(v[i], BalanceTarget(v, req))]]

-----------------------------------------------------------------------------
(* build_measurement_payload                                                  *)

(* _recommendation_text: a fault code of 0 is no fault.                       *)
Recommendation(st) ==
    IF Given(st.fault) /\ st.fault.fault_code # 0 THEN "fault"
    ELSE IF Given(st.cell_delta_mv) /\ st.cell_delta_mv > 30 THEN "balance"
    ELSE "none"

Voltages(st, req) == Trim(st.cell_voltages_mv, req.cell_count)
Resistances(st, req) == Trim(st.cell_resistances, req.cell_count)

(* The part of the record that all test types have. The weakest module is     *)
(* always "1".                                                                *)
Payload(st, req) ==
    LET v == Voltages(st, req)
        cells == BuildCells(v, Resistances(st, req), req)
    IN  [cells |-> cells,
         cell_count |-> IF cells = <<>> THEN req.cell_count ELSE Len(cells),
         min |-> MinOf(v), max |-> MaxOf(v), delta |-> DeltaOf(v),
         weakest_module |-> IF Given(MinOf(v)) THEN 1 ELSE None,
         weakest_cell |-> IndexOf(v, MinOf(v)),
         module_no |-> req.module_no,
         recommendation |-> Recommendation(st)]

=============================================================================
