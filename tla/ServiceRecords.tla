--------------------------- MODULE ServiceRecords ----------------------------
(* The status as frames come in, and the records and reports that could be    *)
(* made of it at any moment: start_service_process and create_report of       *)
(* main.py read the live status, in one piece as nothing is awaited between   *)
(* its fields. The properties are about every request of Requests at every    *)
(* moment, so no record needs to be kept.                                     *)
EXTENDS ServiceProcesses, ReportContent

CONSTANTS
    Frames,     \* decoded frames the bus may bring
    Requests    \* what the buttons may ask for

(* What decode_frame returns.                                                 *)
ASSUME FramesDecoded ==
    \A f \in Frames :
        /\ Decodable(f)
        /\ f.name \in {"cell_voltages", "cell_resistances"} =>
               f.first \in Nat /\ f.values \in Seq(Nat)
        /\ f.name = "pack_measurement" =>
               f.payload # None /\ f.payload.current_ca \in Int
        /\ f.name = "fault" => f.payload # None

(* What ServiceProcessStartRequest lets through: numbers or nothing.          *)
ASSUME RequestsTyped ==
    \A q \in Requests :
        /\ q.cell_count \in Int \cup {None}
        /\ q.module_no \in Int \cup {None}
        /\ q.module_count \in Int \cup {None}
        /\ q.target \in Int \cup {None}

VARIABLE status     \* can_service.status

Init == status = InitialStatus

(* _rx_loop applies a frame.                                                  *)
Receive(f) == status' = Apply(status, f)

(* The bus is silent; the timeout loop notices.                               *)
Silence == status' = Older(status)
TimedOut ==
    /\ status.connected /\ Silent(status)
    /\ status' = [status EXCEPT !.connected = FALSE]

(* A start or stop of the resistance measurement was sent.                    *)
Measure(on) == status' = [status EXCEPT !.resistance_measurement_running = on]

Next ==
    \/ \E f \in Frames : Receive(f)
    \/ Silence \/ TimedOut
    \/ \E on \in BOOLEAN : Measure(on)

Spec == Init /\ [][Next]_status

-----------------------------------------------------------------------------
(* Properties                                                                 *)

(* The resistance is stored as measured, turned into a load voltage that is   *)
(* kept to the mV, and computed back from it. What a row states is as far     *)
(* from the measured value as half a mV is at that current, and no farther;   *)
(* and a row has a verdict exactly if there was a current and both readings.  *)
RowWithinResolution(rest, r, current) ==
    \A row \in RowsOfCell(rest, r, current) :
        IF Given(rest) /\ Given(r) /\ Given(current) /\ current # 0
        THEN LET off == row.resistance - 10 * r IN
             /\ row.resistance # None
             /\ 2 * off * AbsOf(current) <= PerCentiampere + AbsOf(current)
             /\ -2 * off * AbsOf(current) <= PerCentiampere + AbsOf(current)
        ELSE row.status = "not measured"

ResistanceWithinResolution ==
    \A i \in DOMAIN status.cell_voltages_mv \cup DOMAIN status.cell_resistances :
        RowWithinResolution(At(status.cell_voltages_mv, i),
                            At(status.cell_resistances, i), Current(status))

(* A record speaks of the pack's own cells: cell number i holds what was read *)
(* on cell i, whatever the number of cells asked for, and the weakest cell is *)
(* the first with the lowest reading of those in the record.                  *)
CellsOfThePack ==
    \A req \in Requests :
        LET p == Payload(status, req)
            v == Voltages(status, req)
        IN  /\ \A i \in DOMAIN p.cells :
                   /\ p.cells[i].voltage \in {None, At(status.cell_voltages_mv, i)}
                   /\ p.cells[i].internal_resistance
                          \in {None, At(status.cell_resistances, i)}
            /\ Readings(v) # {} =>
                   /\ At(status.cell_voltages_mv, p.weakest_cell) = p.min
                   /\ \A i \in DOMAIN v :
                          v[i] # None /\ v[i] > 0 =>
                              v[i] >= p.min /\ (v[i] = p.min => p.weakest_cell <= i)

(* The record and the report of one moment tell the same story: the report    *)
(* takes the summary kept in the status, the record computes its own from the *)
(* table. They differ only if all cells now read 0, when the kept summary is  *)
(* that of an earlier table, or if fewer cells were asked for.                *)
RecordAgreesWithReport ==
    LET report == Report(status)
        csv == CsvCells(report)
    IN  \A req \in {q \in Requests : ~Given(q.cell_count)} :
            LET p == Payload(status, req) IN
            /\ p.min # None => /\ p.min = report.summary.min_cell
                               /\ p.max = report.summary.max_cell
                               /\ p.delta = report.summary.delta_cell
            /\ \A i \in DOMAIN csv :
                   /\ csv[i].rest = p.cells[i].voltage
                   /\ csv[i].resistance = p.cells[i].internal_resistance

(* A pack is dealt out to its modules in order: no number above the number of *)
(* modules, none left out in between, and all as large as the first one but   *)
(* the last, which may be smaller.                                            *)
ModulesInOrder ==
    \A req \in {q \in Requests : ~Positive(q.module_no)} :
        LET c == Payload(status, req).cells
            modules == IF Positive(req.module_count) THEN req.module_count ELSE 1
            size == [m \in 1 .. modules |->
                        Cardinality({i \in DOMAIN c : c[i].module_no = m})]
        IN  c # <<>> =>
            /\ c[1].module_no = 1
            /\ \A i \in 2 .. Len(c) :
                   c[i].module_no - c[i - 1].module_no \in {0, 1}
            /\ c[Len(c)].module_no <= modules
            /\ \A m \in 1 .. c[Len(c)].module_no :
                   IF m < c[Len(c)].module_no THEN size[m] = size[1]
                   ELSE size[m] <= size[1]

(* With no target given, balancing ends with every cell that was read at one  *)
(* voltage, that of the highest cell of the record, and no cell is discharged *)
(* on the way; discharging and charging read the same moment, so a stop they  *)
(* call reached is one the table shows.                                       *)
BalancedToHighest ==
    \A req \in Requests :
        LET v == Voltages(status, req)
            rows == BuildBalance(v, req)
            ends == {rows[i].row.end : i \in DOMAIN rows} \ {None}
        IN  /\ ~Given(req.target) => ends \subseteq {MaxOf(v)}
            /\ \A i \in DOMAIN rows :
                   rows[i].row.end # None => rows[i].row.end >= v[i]
            /\ BuildDischarge(v, status, req).cutoff = "reached" =>
                   \E i \in DOMAIN v :
                       v[i] # None /\ v[i] > 0 /\ v[i] <= req.target
            /\ BuildCharge(v, status, req).cutoff = "reached" =>
                   \E i \in DOMAIN v : v[i] # None /\ v[i] >= req.target

(* A fault is never forgotten: once the controller has sent a fault frame,    *)
(* every later report says FAIL, the frame that takes the fault back with     *)
(* code 0 and a controller back to normal included, until the gateway is      *)
(* started again.                                                             *)
FaultStaysInReports ==
    [][FaultGiven(status) => Result(status') = "FAIL"]_status

=============================================================================
