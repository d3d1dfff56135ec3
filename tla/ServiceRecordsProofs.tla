------------------------ MODULE ServiceRecordsProofs -------------------------
(* Whatever the frames: how far a stored resistance can be from the measured. *)
EXTENDS ServiceRecords, FrameProofs, TLAPS

(* round() is off by half at the most.                                        *)
LEMMA RoundingIsClose ==
    ASSUME NEW n \in Int, NEW d \in Nat, d > 0, NEW q \in Roundings(n, d)
    PROVE  /\ q \in Int
           /\ 2 * (n - q * d) <= d
           /\ 2 * (q * d - n) <= d
<1>1. n \div d \in Int
  BY SMT
<1>2. q \in Int
  BY <1>1 DEF Roundings
<1>3. q * d \in Int
  BY <1>2, SMT
<1>4. 2 * AbsOf(n - q * d) <= d
  BY DEF Roundings
<1>. QED
  BY <1>2, <1>3, <1>4, SMT DEF AbsOf

(* A drop of voltage is not negative.                                         *)
LEMMA RoundingOfNat ==
    ASSUME NEW n \in Nat, NEW d \in Nat, d > 0, NEW q \in Roundings(n, d)
    PROVE  q \in Nat
<1>1. n \div d \in Nat
  BY SMT
<1>. QED
  BY <1>1 DEF Roundings

LEMMA Scales == PerMillivolt \in Nat /\ PerMillivolt > 0 /\ PerCentiampere \in Nat
  BY SMT DEF PerMillivolt, PerCentiampere

(* The two roundings one after the other, on the products that occur.         *)
LEMMA TwoRoundings ==
    ASSUME NEW I \in Int, NEW rI \in Int, NEW sI \in Int, NEW drop \in Int,
           2 * (rI - drop * PerMillivolt) <= PerMillivolt, 2 * (drop * PerMillivolt - rI) <= PerMillivolt,
           2 * (drop * PerCentiampere - sI) <= I, 2 * (sI - drop * PerCentiampere) <= I
    PROVE  /\ 2 * (sI - 10 * rI) <= PerCentiampere + I
           /\ -2 * (sI - 10 * rI) <= PerCentiampere + I
  BY SMT DEF PerMillivolt, PerCentiampere

LEMMA Products ==
    ASSUME NEW s \in Int, NEW r \in Int, NEW I \in Int
    PROVE  /\ 2 * (s - 10 * r) * I = 2 * (s * I - 10 * (r * I))
           /\ -2 * (s - 10 * r) * I = -2 * (s * I - 10 * (r * I))
  BY SMT

LEMMA AbsOfInt ==
    ASSUME NEW x \in Int
    PROVE  /\ AbsOf(x) \in Nat
           /\ x # 0 => AbsOf(x) > 0
           /\ x > 0 => AbsOf(x) = x
  BY SMT DEF AbsOf

LEMMA NatProduct ==
    ASSUME NEW a \in Nat, NEW b \in Nat
    PROVE  a * b \in Nat
  BY SMT

(* The row of a cell with both readings and a current.                        *)
LEMMA MeasuredRow ==
    ASSUME NEW rest \in Nat, NEW r \in Nat, NEW current \in Int, current # 0,
           rest # None, r # None, current # None,
           NEW row \in RowsOfCell(rest, r, current)
    PROVE  /\ row.resistance # None
           /\ 2 * (row.resistance - 10 * r) * AbsOf(current)
                  <= PerCentiampere + AbsOf(current)
           /\ -2 * (row.resistance - 10 * r) * AbsOf(current)
                  <= PerCentiampere + AbsOf(current)
<1>. DEFINE I == AbsOf(current)
<1>1. I \in Nat /\ I > 0
  BY AbsOfInt
<1>. HIDE DEF I
<1>2. PICK load \in LoadVoltages(rest, r, current) :
          row \in ResistanceRows(rest, load, I)
  BY DEF RowsOfCell, Given, I
<1>3. PICK drop \in Roundings(r * I, PerMillivolt) : load = rest - drop
  BY <1>2 DEF LoadVoltages, Given, I
<1>4. r * I \in Nat
  BY <1>1, NatProduct
<1>5. drop \in Nat
  BY <1>3, <1>4, Scales, RoundingOfNat
<1>6. /\ 2 * (r * I - drop * PerMillivolt) <= PerMillivolt
      /\ 2 * (drop * PerMillivolt - r * I) <= PerMillivolt
  BY <1>3, <1>4, Scales, RoundingIsClose
<1>7. load \in Int /\ ~(load > rest) /\ rest - load = drop
  BY <1>3, <1>5, SMT
<1>8. load # None
  BY <1>7, NoneIsNoInteger
<1>9. row.resistance \in Roundings(drop * PerCentiampere, I)
  <2>. DEFINE Measured ==
           {[status |-> ResistanceStatus(s), resistance |-> s, note |-> ""] :
               s \in Roundings((rest - load) * PerCentiampere, I)}
  <2>1. ResistanceRows(rest, load, I) = Measured
    BY <1>7, <1>8, Zenon DEF ResistanceRows, Given
  <2>2. row \in Measured
    BY <1>2, <2>1, Zenon
  <2>3. PICK s \in Roundings((rest - load) * PerCentiampere, I) :
           row = [status |-> ResistanceStatus(s), resistance |-> s, note |-> ""]
    BY <2>2, Zenon
  <2>4. row.resistance = s
    BY <2>3, Zenon
  <2>5. s \in Roundings(drop * PerCentiampere, I)
    BY <1>7, <2>3, Zenon
  <2>. QED
    BY <2>4, <2>5
<1>10. drop * PerCentiampere \in Int
  BY <1>5, Scales, SMT
<1>11. /\ row.resistance \in Int
       /\ 2 * (drop * PerCentiampere - row.resistance * I) <= I
       /\ 2 * (row.resistance * I - drop * PerCentiampere) <= I
  BY <1>1, <1>9, <1>10, RoundingIsClose
<1>12. row.resistance * I \in Int
  BY <1>1, <1>11, SMT
<1>13. /\ 2 * (row.resistance * I - 10 * (r * I)) <= PerCentiampere + I
       /\ -2 * (row.resistance * I - 10 * (r * I)) <= PerCentiampere + I
  BY <1>1, <1>4, <1>5, <1>6, <1>11, <1>12, TwoRoundings
<1>14. /\ 2 * (row.resistance - 10 * r) * I <= PerCentiampere + I
       /\ -2 * (row.resistance - 10 * r) * I <= PerCentiampere + I
  BY <1>1, <1>11, <1>13, Products
<1>. QED
  BY <1>11, <1>14, NoneIsNoInteger DEF I

(* The row of a cell without a reading, or of a pack without a current.       *)
LEMMA UnmeasuredRow ==
    ASSUME NEW rest \in Nat \cup {None}, NEW r \in Nat \cup {None},
           NEW current \in Int \cup {None},
           rest = None \/ r = None \/ current = None \/ current = 0,
           NEW row \in RowsOfCell(rest, r, current)
    PROVE  row.status = "not measured"
<1>1. LoadVoltages(rest, r, current) = {None}
  BY DEF LoadVoltages, Given
<1>2. PICK I : row \in ResistanceRows(rest, None, I)
  BY <1>1 DEF RowsOfCell
<1>3. \A note : NotMeasured(note).status = "not measured"
  BY DEF NotMeasured
<1>4. \E note : row = NotMeasured(note)
  BY <1>2, Zenon DEF ResistanceRows, Given
<1>. QED
  BY <1>3, <1>4

(* For any readings and any current.                                          *)
LEMMA CellWithinResolution ==
    ASSUME NEW rest \in Nat \cup {None}, NEW r \in Nat \cup {None},
           NEW current \in Int \cup {None}
    PROVE  RowWithinResolution(rest, r, current)
<1>1. CASE rest # None /\ r # None /\ current # None /\ current # 0
  <2>1. rest \in Nat /\ r \in Nat /\ current \in Int
    BY <1>1
  <2>2. \A row \in RowsOfCell(rest, r, current) :
            /\ row.resistance # None
            /\ 2 * (row.resistance - 10 * r) * AbsOf(current)
                   <= PerCentiampere + AbsOf(current)
            /\ -2 * (row.resistance - 10 * r) * AbsOf(current)
                   <= PerCentiampere + AbsOf(current)
    BY <1>1, <2>1, MeasuredRow, Zenon
  <2>. QED
    BY <1>1, <2>2, Zenon DEF RowWithinResolution, Given
<1>2. CASE rest = None \/ r = None \/ current = None \/ current = 0
  <2>1. \A row \in RowsOfCell(rest, r, current) : row.status = "not measured"
    BY <1>2, UnmeasuredRow, Zenon
  <2>. QED
    BY <1>2, <2>1, Zenon DEF RowWithinResolution, Given
<1>. QED
  BY <1>1, <1>2

-----------------------------------------------------------------------------
(* The status keeps the shape the record builders need.                       *)
PackCurrent(st) == st.pack = None \/ st.pack.current_ca \in Int

DeltaRead(st) == st.cell_delta_mv \in Reading

StatusInv == Shaped(status) /\ Summarized(status) /\ PackCurrent(status)
                 /\ DeltaRead(status)

LEMMA InitStatus == Init => StatusInv
  BY InitialShape DEF Init, StatusInv, PackCurrent, DeltaRead, InitialStatus, Reading

LEMMA ReceiveKeeps ==
    ASSUME StatusInv, NEW f \in Frames, Receive(f)
    PROVE  StatusInv' /\ (FaultGiven(status) => FaultGiven(status'))
<1>1. /\ Decodable(f) /\ Decoded(f) /\ CurrentDecoded(f)
      /\ f.name = "fault" => f.payload # None
  BY FramesDecoded DEF Decoded, CurrentDecoded
<1>. DEFINE t == Apply(status, f)
<1>2. /\ Shaped(t) /\ Summarized(t)
      /\ t.fault = (IF f.name = "fault" THEN f.payload ELSE status.fault)
      /\ t.pack = (IF f.name = "pack_measurement" THEN f.payload ELSE status.pack)
      /\ t.cell_delta_mv = status.cell_delta_mv \/ t.cell_delta_mv \in Nat
  BY <1>1, FrameApplied DEF StatusInv
<1>. HIDE DEF t
<1>3. PackCurrent(t)
  BY <1>1, <1>2 DEF PackCurrent, StatusInv, CurrentDecoded
<1>4. FaultGiven(status) => FaultGiven(t)
  BY <1>1, <1>2 DEF FaultGiven
<1>5. DeltaRead(t)
  BY <1>2 DEF DeltaRead, StatusInv, Reading
<1>. QED
  BY <1>2, <1>3, <1>4, <1>5 DEF Receive, StatusInv, t

LEMMA StepKeepsStatus ==
    ASSUME StatusInv, [Next]_status
    PROVE  StatusInv' /\ (FaultGiven(status) => FaultGiven(status'))
<1>1. ASSUME NEW f \in Frames, Receive(f)
      PROVE  StatusInv' /\ (FaultGiven(status) => FaultGiven(status'))
  BY <1>1, ReceiveKeeps
<1>2. CASE Silence
  BY <1>2 DEF Silence, Older, StatusInv, Shaped, Summarized, PackCurrent, DeltaRead,
              Fields, FaultGiven
<1>3. CASE TimedOut
  BY <1>3 DEF TimedOut, StatusInv, Shaped, Summarized, PackCurrent, DeltaRead,
              Fields, FaultGiven
<1>4. ASSUME NEW on \in BOOLEAN, Measure(on)
      PROVE  StatusInv' /\ (FaultGiven(status) => FaultGiven(status'))
  BY <1>4 DEF Measure, StatusInv, Shaped, Summarized, PackCurrent, DeltaRead,
              Fields, FaultGiven
<1>5. CASE UNCHANGED status
  BY <1>5 DEF StatusInv, Shaped, Summarized, PackCurrent, DeltaRead, FaultGiven
<1>. QED
  BY <1>1, <1>2, <1>3, <1>4, <1>5 DEF Next

(* The status is well formed for every set of frames decode_frame can return. *)
THEOREM StatusShaped == Spec => []StatusInv
<1>1. Init => StatusInv
  BY InitStatus
<1>2. StatusInv /\ [Next]_status => StatusInv'
  BY StepKeepsStatus
<1>. QED
  BY <1>1, <1>2, PTL DEF Spec

(* A stored resistance is never farther from the measured one than half a mV  *)
(* is at the current of the moment, whatever the readings and the current.    *)
THEOREM ResolutionHolds == Spec => []ResistanceWithinResolution
<1>1. StatusInv => ResistanceWithinResolution
  <2>. SUFFICES ASSUME StatusInv,
                       NEW i \in DOMAIN status.cell_voltages_mv
                                    \cup DOMAIN status.cell_resistances
                PROVE  RowWithinResolution(At(status.cell_voltages_mv, i),
                           At(status.cell_resistances, i), Current(status))
    BY DEF ResistanceWithinResolution
  <2>1. At(status.cell_voltages_mv, i) \in Nat \cup {None}
    BY DEF StatusInv, Shaped, At, Reading
  <2>2. At(status.cell_resistances, i) \in Nat \cup {None}
    BY DEF StatusInv, Shaped, At, Reading
  <2>3. Current(status) \in Int \cup {None}
    BY DEF StatusInv, PackCurrent, Current, Given
  <2>. QED
    BY <2>1, <2>2, <2>3, CellWithinResolution
<1>. QED
  BY <1>1, StatusShaped, PTL

(* Without a number of cells asked for, the record is of the whole table.     *)
LEMMA WholeTable ==
    ASSUME NEW req, ~Given(req.cell_count)
    PROVE  /\ Voltages(status, req) = status.cell_voltages_mv
           /\ Resistances(status, req) = status.cell_resistances
  BY DEF Voltages, Resistances, Trim, Positive

LEMMA RowOfCell ==
    ASSUME StatusInv, NEW req, ~Given(req.cell_count),
           NEW i \in DOMAIN CsvCells(Report(status))
    PROVE  LET line == CsvCells(Report(status))[i]
               cell == Payload(status, req).cells[i]
           IN  line.rest = cell.voltage /\ line.resistance = cell.internal_resistance
<1>. DEFINE v == status.cell_voltages_mv
            r == status.cell_resistances
<1>1. v \in Seq(Reading) /\ r \in Seq(Reading)
  BY DEF StatusInv, Shaped
<1>2. i \in DOMAIN v /\ CsvCells(Report(status))[i] =
          [cell_index |-> i, rest |-> v[i],
           resistance |-> IF i \in DOMAIN r THEN r[i] ELSE None]
  BY DEF CsvCells, Report
<1>3. Payload(status, req).cells = BuildCells(v, r, req)
  BY WholeTable DEF Payload
<1>. HIDE DEF v, r
<1>4. i \in 1 .. Longer(v, r)
  BY <1>1, <1>2 DEF Longer
<1>5. /\ BuildCells(v, r, req)[i].voltage = At(v, i)
      /\ BuildCells(v, r, req)[i].internal_resistance = At(r, i)
  BY <1>4 DEF BuildCells
<1>. QED
  BY <1>2, <1>3, <1>5 DEF At

(* Record, report and CSV never contradict each other: the summary kept in    *)
(* the status is that of the table whenever the table has one.                *)
THEOREM RecordsAgree == Spec => []RecordAgreesWithReport
<1>1. StatusInv => RecordAgreesWithReport
  <2>. SUFFICES ASSUME StatusInv, NEW req \in Requests, ~Given(req.cell_count)
                PROVE  LET report == Report(status)
                           csv == CsvCells(report)
                           p == Payload(status, req)
                       IN  /\ p.min # None =>
                                  /\ p.min = report.summary.min_cell
                                  /\ p.max = report.summary.max_cell
                                  /\ p.delta = report.summary.delta_cell
                           /\ \A i \in DOMAIN csv :
                                  /\ csv[i].rest = p.cells[i].voltage
                                  /\ csv[i].resistance = p.cells[i].internal_resistance
    BY Zenon DEF RecordAgreesWithReport
  <2>. DEFINE v == status.cell_voltages_mv
              p == Payload(status, req)
              summary == Report(status).summary
  <2>1. p.min = MinOf(v) /\ p.max = MaxOf(v) /\ p.delta = DeltaOf(v)
    BY WholeTable DEF Payload
  <2>2. /\ summary.min_cell = status.min_cell_mv
        /\ summary.max_cell = status.max_cell_mv
        /\ summary.delta_cell = status.cell_delta_mv
    BY DEF Report
  <2>3. MinOf(v) # None => Readings(v) # {}
    BY DEF MinOf
  <2>4. Readings(v) # {} =>
            /\ status.min_cell_mv = MinOf(v) /\ status.max_cell_mv = MaxOf(v)
            /\ status.cell_delta_mv = DeltaOf(v)
    BY DEF StatusInv, Summarized, MinOf, MaxOf, DeltaOf
  <2>5. \A i \in DOMAIN CsvCells(Report(status)) :
            /\ CsvCells(Report(status))[i].rest = p.cells[i].voltage
            /\ CsvCells(Report(status))[i].resistance = p.cells[i].internal_resistance
    BY RowOfCell
  <2>. HIDE DEF p, summary, v
  <2>. QED
    BY <2>1, <2>2, <2>3, <2>4, <2>5 DEF p, summary
<1>. QED
  BY <1>1, StatusShaped, PTL

LEMMA GivenFaultFails ==
    ASSUME NEW st, FaultGiven(st)
    PROVE  Result(st) = "FAIL"
<1>1. Faults(st) = <<st.fault>>
  BY DEF Faults
<1>2. Faults(st) # <<>>
  BY <1>1
<1>. QED
  BY <1>2 DEF Result

(* Once a fault was received, all reports fail.                               *)
THEOREM FaultsStay == Spec => FaultStaysInReports
<1>1. StatusInv /\ [Next]_status
          => [FaultGiven(status) => Result(status') = "FAIL"]_status
  BY StepKeepsStatus, GivenFaultFails
<1>. QED
  BY <1>1, StatusShaped, PTL DEF Spec, FaultStaysInReports

-----------------------------------------------------------------------------
(* What a record takes from the tables.                                       *)
LEMMA TrimKeepsCells ==
    ASSUME NEW table \in Seq(Reading), NEW count \in Int \cup {None}
    PROVE  /\ Trim(table, count) \in Seq(Reading)
           /\ \A i \in DOMAIN Trim(table, count) :
                  i \in DOMAIN table /\ Trim(table, count)[i] = table[i]
<1>1. CASE Positive(count) /\ count < Len(table)
  <2>1. count \in 1 .. Len(table)
    BY <1>1 DEF Positive, Given
  <2>2. Trim(table, count) = SubSeq(table, 1, count)
    BY <1>1 DEF Trim
  <2>. QED BY <2>1, <2>2
<1>2. CASE ~(Positive(count) /\ count < Len(table))
  BY <1>2 DEF Trim
<1>. QED BY <1>1, <1>2

LEMMA TablesTrimmed ==
    ASSUME StatusInv, NEW req \in Requests
    PROVE  /\ Voltages(status, req) \in Seq(Reading)
           /\ Resistances(status, req) \in Seq(Reading)
           /\ \A i : At(Voltages(status, req), i)
                         \in {None, At(status.cell_voltages_mv, i)}
           /\ \A i : At(Resistances(status, req), i)
                         \in {None, At(status.cell_resistances, i)}
           /\ \A i \in DOMAIN Voltages(status, req) :
                  At(status.cell_voltages_mv, i) = Voltages(status, req)[i]
<1>1. /\ status.cell_voltages_mv \in Seq(Reading)
      /\ status.cell_resistances \in Seq(Reading)
      /\ req.cell_count \in Int \cup {None}
  BY RequestsTyped DEF StatusInv, Shaped
<1>. QED
  BY <1>1, TrimKeepsCells DEF Voltages, Resistances, At

LEMMA ReadingOfCell ==
    ASSUME NEW v, NEW x
    PROVE  x \in Readings(v) <=>
               \E i \in DOMAIN v : v[i] = x /\ v[i] # None /\ v[i] > 0
  BY DEF Readings

(* _index_of finds the first cell with a reading of the table.                *)
LEMMA IndexFound ==
    ASSUME NEW v \in Seq(Reading), NEW x \in Readings(v)
    PROVE  /\ IndexOf(v, x) \in DOMAIN v /\ v[IndexOf(v, x)] = x
           /\ \A i \in DOMAIN v : v[i] = x => IndexOf(v, x) <= i
<1>. DEFINE I == {i \in DOMAIN v : v[i] = x}
<1>1. Len(v) \in Nat /\ DOMAIN v = 1 .. Len(v)
  BY SMT
<1>2. IsFiniteSet(1 .. Len(v))
  BY <1>1, FS_Interval
<1>3. I \in SUBSET Int /\ IsFiniteSet(I)
  BY <1>1, <1>2, FS_Subset
<1>4. I # {} /\ x # None
  BY ReadingOfCell
<1>5. IndexOf(v, x) = Min(I)
  BY <1>4 DEF IndexOf
<1>6. \A i \in DOMAIN v : v[i] = x => i \in I
  OBVIOUS
<1>7. \A i \in I : i \in DOMAIN v /\ v[i] = x
  OBVIOUS
<1>. HIDE DEF I
<1>8. Min(I) \in I /\ \A i \in I : Min(I) <= i
  BY <1>3, <1>4, FiniteMin
<1>. QED BY <1>5, <1>6, <1>7, <1>8

(* Every value in a record is that of the cell under whose number it stands,  *)
(* and the weakest cell is the first of the lowest, for all tables and all    *)
(* numbers of cells asked for.                                                *)
THEOREM RecordsOfThePack == Spec => []CellsOfThePack
<1>1. StatusInv => CellsOfThePack
  <2>. SUFFICES ASSUME StatusInv, NEW req \in Requests
                PROVE  LET p == Payload(status, req)
                           v == Voltages(status, req)
                       IN  /\ \A i \in DOMAIN p.cells :
                                  /\ p.cells[i].voltage
                                         \in {None, At(status.cell_voltages_mv, i)}
                                  /\ p.cells[i].internal_resistance
                                         \in {None, At(status.cell_resistances, i)}
                           /\ Readings(v) # {} =>
                                  /\ At(status.cell_voltages_mv, p.weakest_cell) = p.min
                                  /\ \A i \in DOMAIN v :
                                         v[i] # None /\ v[i] > 0 =>
                                             v[i] >= p.min
                                             /\ (v[i] = p.min => p.weakest_cell <= i)
    BY Zenon DEF CellsOfThePack
  <2>. DEFINE p == Payload(status, req)
              v == Voltages(status, req)
              r == Resistances(status, req)
  <2>1. /\ p.cells = BuildCells(v, r, req) /\ p.min = MinOf(v)
        /\ p.weakest_cell = IndexOf(v, MinOf(v))
    BY DEF Payload
  <2>2. /\ v \in Seq(Reading)
        /\ \A i : At(v, i) \in {None, At(status.cell_voltages_mv, i)}
        /\ \A i : At(r, i) \in {None, At(status.cell_resistances, i)}
        /\ \A i \in DOMAIN v : At(status.cell_voltages_mv, i) = v[i]
    BY TablesTrimmed
  <2>. HIDE DEF p, v, r
  <2>3. ASSUME NEW i \in DOMAIN p.cells
        PROVE  /\ p.cells[i].voltage = At(v, i)
               /\ p.cells[i].internal_resistance = At(r, i)
    BY <2>1 DEF BuildCells
  <2>4. ASSUME Readings(v) # {}
        PROVE  /\ At(status.cell_voltages_mv, p.weakest_cell) = p.min
               /\ \A i \in DOMAIN v :
                      v[i] # None /\ v[i] > 0 =>
                          v[i] >= p.min /\ (v[i] = p.min => p.weakest_cell <= i)
    <3>1. p.min = Min(Readings(v))
      BY <2>1, <2>4 DEF MinOf
    <3>2. /\ p.min \in Readings(v) /\ p.min \in Nat
          /\ \A x \in Readings(v) : x \in Nat /\ p.min <= x
      BY <2>2, <2>4, <3>1, ExtremeReadings, ReadingsFinite
    <3>3. /\ p.weakest_cell \in DOMAIN v /\ v[p.weakest_cell] = p.min
          /\ \A i \in DOMAIN v : v[i] = p.min => p.weakest_cell <= i
      <4>1. p.weakest_cell = IndexOf(v, p.min)
        BY <2>1
      <4>. QED BY <2>2, <3>2, <4>1, IndexFound
    <3>4. \A i \in DOMAIN v : v[i] # None /\ v[i] > 0 => v[i] \in Readings(v)
      BY ReadingOfCell
    <3>. QED BY <2>2, <3>2, <3>3, <3>4
  <2>. QED BY <2>2, <2>3, <2>4 DEF p, v
<1>. QED
  BY <1>1, StatusShaped, PTL

-----------------------------------------------------------------------------
(* Balancing, discharge and charge                                            *)

(* A balanced row ends at the target or where it began, whichever is higher.  *)
LEMMA RowEnds ==
    ASSUME NEW start \in Reading, NEW target \in Int \cup {None},
           BalanceRow(start, target).end # None
    PROVE  /\ start \in Nat /\ start # None /\ target \in Int
           /\ BalanceRow(start, target).end = IF start < target THEN target ELSE start
           /\ BalanceRow(start, target).end >= start
<1>. DEFINE e == IF start < target THEN target ELSE start
            verdict == IF e >= target - 5 THEN "ok" ELSE "not reached"
<1>1. Given(start) /\ Given(target)
  <2>1. ~(Given(start) /\ Given(target)) =>
            BalanceRow(start, target).end = None
    BY Zenon DEF BalanceRow
  <2>. QED BY <2>1
<1>2. start \in Nat /\ start # None /\ target \in Int
  BY <1>1 DEF Given, Reading
<1>3. BalanceRow(start, target) = [status |-> verdict, end |-> e, change |-> e - start]
  BY <1>1 DEF BalanceRow
<1>. HIDE DEF verdict
<1>4. BalanceRow(start, target).end = e
  BY <1>3
<1>5. e >= start
  BY <1>2
<1>. QED BY <1>2, <1>4, <1>5

LEMMA MaxOfTable ==
    ASSUME NEW v \in Seq(Reading)
    PROVE  /\ MaxOf(v) \in Reading /\ MinOf(v) \in Reading
           /\ MaxOf(v) # None =>
                  /\ MaxOf(v) \in Readings(v) /\ MaxOf(v) \in Nat /\ MaxOf(v) > 0
                  /\ \A i \in DOMAIN v : v[i] # None => v[i] <= MaxOf(v)
           /\ MinOf(v) # None => MinOf(v) \in Readings(v)
<1>1. CASE Readings(v) = {}
  BY <1>1 DEF MaxOf, MinOf, Reading
<1>2. CASE Readings(v) # {}
  <2>. DEFINE hi == Max(Readings(v))
              lo == Min(Readings(v))
  <2>1. MaxOf(v) = hi /\ MinOf(v) = lo
    BY <1>2 DEF MaxOf, MinOf
  <2>2. /\ hi \in Readings(v) /\ hi \in Nat /\ hi > 0
        /\ lo \in Readings(v) /\ lo \in Nat
        /\ \A x \in Readings(v) : x <= hi
    BY <1>2, ExtremeReadings
  <2>. HIDE DEF hi, lo
  <2>3. ASSUME NEW i \in DOMAIN v, v[i] # None PROVE v[i] <= hi
    <3>1. v[i] \in Nat
      BY <2>3 DEF Reading
    <3>2. v[i] > 0 => v[i] \in Readings(v)
      BY <2>3, ReadingOfCell
    <3>. QED BY <2>2, <3>1, <3>2
  <2>. QED BY <2>1, <2>2, <2>3 DEF Reading
<1>. QED BY <1>1, <1>2

(* Whatever the table: balancing without a target ends at its highest cell,   *)
(* no cell is discharged, and a stop that is said to be reached is one that a *)
(* cell of the table shows.                                                   *)
THEOREM BalancedUpwards == Spec => []BalancedToHighest
<1>1. StatusInv => BalancedToHighest
  <2>. SUFFICES ASSUME StatusInv, NEW req \in Requests
                PROVE  LET v == Voltages(status, req)
                           rows == BuildBalance(v, req)
                           ends == {rows[i].row.end : i \in DOMAIN rows} \ {None}
                       IN  /\ ~Given(req.target) => ends \subseteq {MaxOf(v)}
                           /\ \A i \in DOMAIN rows :
                                  rows[i].row.end # None => rows[i].row.end >= v[i]
                           /\ BuildDischarge(v, status, req).cutoff = "reached" =>
                                  \E i \in DOMAIN v :
                                      v[i] # None /\ v[i] > 0 /\ v[i] <= req.target
                           /\ BuildCharge(v, status, req).cutoff = "reached" =>
                                  \E i \in DOMAIN v :
                                      v[i] # None /\ v[i] >= req.target
    BY Zenon DEF BalancedToHighest
  <2>. DEFINE v == Voltages(status, req)
              rows == BuildBalance(v, req)
              target == BalanceTarget(v, req)
  <2>1. v \in Seq(Reading) /\ req.target \in Int \cup {None}
    BY TablesTrimmed, RequestsTyped
  <2>. HIDE DEF v
  <2>2. target \in Int \cup {None} /\ (~Given(req.target) => target = MaxOf(v))
    BY <2>1, MaxOfTable DEF BalanceTarget, Reading
  <2>. HIDE DEF target
  <2>3. DOMAIN rows = DOMAIN v
        /\ \A i \in DOMAIN v : rows[i].row = BalanceRow(v[i], target)
    BY DEF BuildBalance, target
  <2>. HIDE DEF rows
  <2>4. ASSUME NEW i \in DOMAIN rows, rows[i].row.end # None
        PROVE  /\ v[i] \in Nat /\ v[i] # None /\ target \in Int
               /\ rows[i].row.end = IF v[i] < target THEN target ELSE v[i]
               /\ rows[i].row.end >= v[i]
    <3>1. v[i] \in Reading /\ BalanceRow(v[i], target).end # None
      BY <2>1, <2>3, <2>4
    <3>. QED BY <2>2, <2>3, <3>1, RowEnds
  <2>5. ASSUME ~Given(req.target), NEW i \in DOMAIN rows, rows[i].row.end # None
        PROVE  rows[i].row.end = MaxOf(v)
    <3>1. target = MaxOf(v) /\ target # None
      BY <2>2, <2>4, <2>5, NoneIsNoInteger
    <3>2. v[i] <= target
      BY <2>1, <2>3, <2>4, <2>5, <3>1, MaxOfTable
    <3>. QED BY <2>4, <2>5, <3>1, <3>2
  <2>6. ASSUME BuildDischarge(v, status, req).cutoff = "reached"
        PROVE  \E i \in DOMAIN v : v[i] # None /\ v[i] > 0 /\ v[i] <= req.target
    <3>1. MinOf(v) # None /\ MinOf(v) <= req.target
      BY <2>6 DEF BuildDischarge, Cutoff, Given
    <3>2. MinOf(v) \in Readings(v)
      BY <2>1, <3>1, MaxOfTable
    <3>. QED BY <3>1, <3>2, ReadingOfCell
  <2>7. ASSUME BuildCharge(v, status, req).cutoff = "reached"
        PROVE  \E i \in DOMAIN v : v[i] # None /\ v[i] >= req.target
    <3>1. MaxOf(v) # None /\ MaxOf(v) >= req.target
      BY <2>7 DEF BuildCharge, Cutoff, Given
    <3>2. MaxOf(v) \in Readings(v)
      BY <2>1, <3>1, MaxOfTable
    <3>. QED BY <3>1, <3>2, ReadingOfCell
  <2>. QED BY <2>4, <2>5, <2>6, <2>7 DEF v, rows
<1>. QED
  BY <1>1, StatusShaped, PTL

-----------------------------------------------------------------------------
(* Modules                                                                    *)

LEMMA Quotient ==
    ASSUME NEW a \in Nat, NEW d \in Nat, d > 0
    PROVE  /\ a \div d \in Nat
           /\ (a \div d) * d <= a /\ a < (a \div d) * d + d
  BY SMT

LEMMA ProductGrows ==
    ASSUME NEW p \in Nat, NEW q \in Nat, NEW d \in Nat, p < q
    PROVE  p * d + d <= q * d
  BY SMT

LEMMA QuotientIs ==
    ASSUME NEW a \in Nat, NEW d \in Nat, d > 0, NEW q \in Nat
    PROVE  a \div d = q <=> q * d <= a /\ a < q * d + d
<1>. DEFINE p == a \div d
<1>1. p \in Nat /\ p * d <= a /\ a < p * d + d
  BY Quotient
<1>. HIDE DEF p
<1>2. p < q => p * d + d <= q * d
  BY <1>1, ProductGrows
<1>3. q < p => q * d + d <= p * d
  BY <1>1, ProductGrows
<1>4. p * d \in Nat /\ q * d \in Nat
  BY <1>1, NatProduct
<1>. DEFINE pd == p * d
            qd == q * d
<1>. HIDE DEF pd, qd
<1>5. /\ pd \in Nat /\ qd \in Nat /\ pd <= a /\ a < pd + d
      /\ p < q => pd + d <= qd
      /\ q < p => qd + d <= pd
      /\ p = q => pd = qd
  BY <1>1, <1>2, <1>3, <1>4 DEF pd, qd
<1>6. p = q <=> qd <= a /\ a < qd + d
  BY <1>1, <1>5
<1>. QED BY <1>6 DEF p, qd

(* Where one module ends the next begins at the earliest.                     *)
LEMMA BlocksApart ==
    ASSUME NEW p \in Nat, p > 0, NEW q \in Nat, NEW d \in Nat
    PROVE  /\ p < q => (p - 1) * d + d <= (q - 1) * d
           /\ p + 1 < q => (p - 1) * d + d + d <= (q - 1) * d
<1>1. p < q => (p - 1) * d + d <= (q - 1) * d
  <2>1. p - 1 \in Nat /\ (p < q => q - 1 \in Nat /\ p - 1 < q - 1)
    OBVIOUS
  <2>. QED BY <2>1, ProductGrows
<1>2. p + 1 < q => p * d + d <= (q - 1) * d
  <2>1. p + 1 < q => q - 1 \in Nat /\ p < q - 1
    OBVIOUS
  <2>. QED BY <2>1, ProductGrows
<1>3. (p - 1) * d + d = p * d
  BY SMT
<1>. QED BY <1>1, <1>2, <1>3

SizeOf(c, m) == Cardinality({i \in DOMAIN c : c[i].module_no = m})

(* Cells dealt out `per` to a module: where the modules begin and how large   *)
(* they are.                                                                  *)
LEMMA Blocks ==
    ASSUME NEW n \in Nat, n > 0, NEW per \in Nat, per > 0,
           NEW c, DOMAIN c = 1 .. n,
           \A i \in 1 .. n : c[i].module_no = (i - 1) \div per + 1
    PROVE  LET last == c[n].module_no
           IN  /\ c[1].module_no = 1 /\ last \in Nat /\ last > 0
               /\ \A i \in 2 .. n :
                      c[i].module_no - c[i - 1].module_no \in {0, 1}
               /\ \A m \in 1 .. last :
                      /\ SizeOf(c, m) \in Nat /\ SizeOf(c, m) <= per
                      /\ m < last => SizeOf(c, m) = per
<1>. DEFINE last == c[n].module_no
<1>1. ASSUME NEW i \in 1 .. n, NEW m \in Nat, m > 0
      PROVE  /\ (m - 1) * per \in Nat
             /\ c[i].module_no = m <=>
                    (m - 1) * per <= i - 1 /\ i - 1 < (m - 1) * per + per
  <2>1. i - 1 \in Nat /\ m - 1 \in Nat
    BY <1>1
  <2>2. (i - 1) \div per = m - 1 <=>
            (m - 1) * per <= i - 1 /\ i - 1 < (m - 1) * per + per
    BY <2>1, QuotientIs
  <2>3. (i - 1) \div per \in Nat
    BY <2>1, Quotient
  <2>4. (m - 1) * per \in Nat
    BY <2>1, NatProduct
  <2>. DEFINE x == (i - 1) \div per
  <2>5. c[i].module_no = x + 1 /\ x \in Nat
    BY <2>3
  <2>6. c[i].module_no = m <=> x = m - 1
    <3>. HIDE DEF x
    <3>. QED BY <1>1, <2>5
  <2>. QED BY <2>2, <2>4, <2>6
<1>2. \A i \in 1 .. n : c[i].module_no \in Nat /\ c[i].module_no > 0
  <2>. SUFFICES ASSUME NEW i \in 1 .. n
                PROVE  c[i].module_no \in Nat /\ c[i].module_no > 0
    OBVIOUS
  <2>. DEFINE x == (i - 1) \div per
  <2>1. x \in Nat
    <3>1. i - 1 \in Nat
      OBVIOUS
    <3>. QED BY <3>1, Quotient
  <2>2. c[i].module_no = x + 1
    OBVIOUS
  <2>. HIDE DEF x
  <2>. QED BY <2>1, <2>2
<1>3. c[1].module_no = 1
  <2>1. 0 \div per = 0
    BY SMT
  <2>. QED BY <2>1
<1>4. last \in Nat /\ last > 0
  BY <1>2
<1>5. ASSUME NEW i \in 2 .. n
      PROVE  c[i].module_no - c[i - 1].module_no \in {0, 1}
  <2>. DEFINE a == c[i - 1].module_no
              b == c[i].module_no
              ad == (a - 1) * per
              bd == (b - 1) * per
  <2>1. i \in 1 .. n /\ i - 1 \in 1 .. n
    BY <1>5
  <2>2. a \in Nat /\ a > 0 /\ b \in Nat /\ b > 0
    BY <1>2, <2>1
  <2>3. /\ ad \in Nat /\ ad <= i - 2 /\ i - 2 < ad + per
        /\ bd \in Nat /\ bd <= i - 1 /\ i - 1 < bd + per
    <3>1. ad \in Nat /\ ad <= (i - 1) - 1 /\ (i - 1) - 1 < ad + per
      BY <1>1, <2>1, <2>2
    <3>2. bd \in Nat /\ bd <= i - 1 /\ i - 1 < bd + per
      BY <1>1, <2>1, <2>2
    <3>. HIDE DEF ad, bd
    <3>. QED BY <3>1, <3>2
  <2>4. b < a => bd + per <= ad
    <3>. HIDE DEF a, b
    <3>. QED BY <2>2, BlocksApart
  <2>5. a + 1 < b => ad + per + per <= bd
    <3>. HIDE DEF a, b
    <3>. QED BY <2>2, BlocksApart
  <2>. HIDE DEF ad, bd, a, b
  <2>6. ~(b < a) /\ ~(a + 1 < b)
    BY <2>3, <2>4, <2>5
  <2>7. b - a \in {0, 1}
    BY <2>2, <2>6
  <2>. QED BY <2>7 DEF a, b
<1>6. ASSUME NEW m \in 1 .. last
      PROVE  /\ SizeOf(c, m) \in Nat /\ SizeOf(c, m) <= per
             /\ m < last => SizeOf(c, m) = per
  <2>. DEFINE lo == (m - 1) * per
              hi == IF lo + per <= n THEN lo + per ELSE n
              ld == (last - 1) * per
  <2>1. m \in Nat /\ m > 0 /\ m <= last /\ n \in 1 .. n
    BY <1>4
  <2>2. lo \in Nat /\ ld \in Nat /\ ld <= n - 1
    BY <1>1, <1>4, <2>1
  <2>3. \A i \in 1 .. n : c[i].module_no = m <=> lo <= i - 1 /\ i - 1 < lo + per
    BY <1>1, <2>1
  <2>. HIDE DEF last
  <2>4. m < last => lo + per <= ld
    BY <1>4, <2>1, BlocksApart
  <2>5. m = last => lo = ld
    OBVIOUS
  <2>. HIDE DEF lo, ld
  <2>6. lo < n /\ hi \in Nat /\ lo < hi /\ hi <= lo + per /\ hi <= n
    <3>1. lo <= ld
      BY <1>4, <2>1, <2>2, <2>4, <2>5
    <3>. QED BY <2>2, <3>1
  <2>7. m < last => hi = lo + per
    BY <2>2, <2>4
  <2>8. {i \in DOMAIN c : c[i].module_no = m} = lo + 1 .. hi
    <3>1. \A i \in 1 .. n : i \in lo + 1 .. hi <=> lo <= i - 1 /\ i - 1 < lo + per
      BY <2>2
    <3>2. \A i \in lo + 1 .. hi : i \in 1 .. n
      BY <2>2, <2>6
    <3>. HIDE DEF hi
    <3>. QED BY <2>3, <3>1, <3>2
  <2>. HIDE DEF hi
  <2>9. SizeOf(c, m) = hi - (lo + 1) + 1
    <3>1. lo + 1 \in Int /\ hi \in Int /\ ~(lo + 1 > hi)
      BY <2>2, <2>6
    <3>. QED BY <2>8, <3>1, FS_Interval DEF SizeOf
  <2>. QED BY <2>2, <2>6, <2>7, <2>9
<1>. QED BY <1>3, <1>4, <1>5, <1>6

(* _module_no deals out a number of cells that is the same for all modules.   *)
LEMMA DealtEvenly ==
    ASSUME NEW n \in Nat, n > 0, NEW k \in Int \cup {None}
    PROVE  \E per \in Nat :
               /\ per > 0
               /\ \A i \in 1 .. n : ModuleNo(i, n, k) = (i - 1) \div per + 1
               /\ (n - 1) \div per + 1 <= (IF Positive(k) THEN k ELSE 1)
<1>1. CASE ~Given(k) \/ k <= 1
  <2>1. \A i \in 1 .. n : (i - 1) \div n = 0
    <3>1. 0 * n = 0
      BY SMT
    <3>. QED BY <3>1, QuotientIs
  <2>2. \A i \in 1 .. n : ModuleNo(i, n, k) = (i - 1) \div n + 1
    BY <1>1, <2>1 DEF ModuleNo
  <2>3. (n - 1) \div n + 1 <= (IF Positive(k) THEN k ELSE 1)
    BY <1>1, <2>1 DEF Positive, Given
  <2>. QED BY <2>2, <2>3
<1>2. CASE Given(k) /\ ~(k <= 1)
  <2>. DEFINE per == (n + k - 1) \div k
  <2>1. k \in Nat /\ k > 1 /\ n + k - 1 \in Nat /\ n - 1 \in Nat
    BY <1>2 DEF Given
  <2>2. per \in Nat /\ per * k <= n + k - 1 /\ n + k - 1 < per * k + k
    BY <2>1, Quotient
  <2>. HIDE DEF per
  <2>3. per > 0
    <3>1. per = 0 => per * k = 0
      BY <2>1, SMT
    <3>. QED BY <2>1, <2>2, <3>1
  <2>4. n <= per * k /\ per * k \in Nat
    <3>1. per * k \in Nat
      BY <2>1, <2>2, NatProduct
    <3>. DEFINE pk == per * k
    <3>. HIDE DEF pk
    <3>2. pk \in Nat /\ n + k - 1 < pk + k
      BY <2>2, <3>1 DEF pk
    <3>3. n <= pk
      BY <2>1, <3>2
    <3>. QED BY <3>1, <3>3 DEF pk
  <2>5. ASSUME NEW i \in 1 .. n
        PROVE  (i - 1) \div per \in Nat /\ (i - 1) \div per < k
    <3>. DEFINE q == (i - 1) \div per
    <3>1. q \in Nat /\ q * per <= i - 1
      BY <2>2, <2>3, Quotient
    <3>. HIDE DEF q
    <3>2. ~(k <= q)
      <4>1. k < q => k * per + per <= q * per
        BY <2>1, <2>2, <3>1, ProductGrows
      <4>2. k * per = per * k
        BY <2>1, <2>2, SMT
      <4>. DEFINE qp == q * per
                  kp == per * k
      <4>3. /\ qp \in Nat /\ kp \in Nat /\ n <= kp /\ qp <= i - 1
            /\ k < q => kp + per <= qp
            /\ k = q => kp = qp
        BY <2>2, <2>4, <3>1, <4>1, <4>2, NatProduct
      <4>. HIDE DEF qp, kp
      <4>. QED BY <2>1, <2>2, <3>1, <4>3
    <3>. QED BY <2>1, <3>1, <3>2 DEF q
  <2>6. ASSUME NEW i \in 1 .. n
        PROVE  ModuleNo(i, n, k) = (i - 1) \div per + 1
    <3>. DEFINE q == (i - 1) \div per
    <3>1. q \in Nat /\ q < k
      BY <2>5
    <3>2. ModuleNo(i, n, k) = IF q + 1 < k THEN q + 1 ELSE k
      BY <1>2 DEF ModuleNo, per
    <3>. HIDE DEF q
    <3>3. ModuleNo(i, n, k) = q + 1
      BY <2>1, <3>1, <3>2
    <3>. QED BY <3>3 DEF q
  <2>7. (n - 1) \div per + 1 <= (IF Positive(k) THEN k ELSE 1)
    <3>1. n \in 1 .. n
      OBVIOUS
    <3>2. (n - 1) \div per \in Nat /\ (n - 1) \div per < k
      BY <2>5, <3>1
    <3>. QED BY <1>2, <2>1, <3>2 DEF Positive
  <2>. QED BY <2>2, <2>3, <2>6, <2>7
<1>. QED BY <1>1, <1>2

(* For any number of cells and modules the cells are dealt out in order, no   *)
(* module but the last is smaller than the first, and none is numbered above  *)
(* the number of modules.                                                     *)
THEOREM DealtInOrder == Spec => []ModulesInOrder
<1>1. StatusInv => ModulesInOrder
  <2>. SUFFICES ASSUME StatusInv, NEW req \in Requests, ~Positive(req.module_no),
                       Payload(status, req).cells # <<>>
                PROVE  LET c == Payload(status, req).cells
                           modules == IF Positive(req.module_count)
                                      THEN req.module_count ELSE 1
                           size == [m \in 1 .. modules |->
                                       Cardinality({i \in DOMAIN c :
                                                        c[i].module_no = m})]
                       IN  /\ c[1].module_no = 1
                           /\ \A i \in 2 .. Len(c) :
                                  c[i].module_no - c[i - 1].module_no \in {0, 1}
                           /\ c[Len(c)].module_no <= modules
                           /\ \A m \in 1 .. c[Len(c)].module_no :
                                  IF m < c[Len(c)].module_no
                                  THEN size[m] = size[1] ELSE size[m] <= size[1]
    BY Zenon DEF ModulesInOrder
  <2>. DEFINE v == Voltages(status, req)
              r == Resistances(status, req)
              c == Payload(status, req).cells
              n == Longer(v, r)
              k == req.module_count
              modules == IF Positive(k) THEN k ELSE 1
              last == c[n].module_no
              size == [m \in 1 .. modules |-> SizeOf(c, m)]
  <2>1. v \in Seq(Reading) /\ r \in Seq(Reading) /\ k \in Int \cup {None}
    BY TablesTrimmed, RequestsTyped
  <2>2. c = BuildCells(v, r, req)
    BY DEF Payload
  <2>3. c # <<>>
    OBVIOUS
  <2>. HIDE DEF v, r, c, k
  <2>4. n \in Nat
    BY <2>1 DEF Longer
  <2>5. DOMAIN c = 1 .. n /\ \A i \in 1 .. n : c[i].module_no = ModuleNo(i, n, k)
    BY <2>2 DEF BuildCells, RowModule, k
  <2>6. n > 0 /\ Len(c) = n
    <3>. DEFINE row(i) == [module_no |-> RowModule(req, i, n), cell_no |-> i,
                           voltage |-> At(v, i), internal_resistance |-> At(r, i),
                           status |-> CellStatus(At(v, i), req.warn_low, req.warn_high)]
    <3>1. c = [i \in 1 .. n |-> row(i)]
      BY <2>2 DEF BuildCells
    <3>. HIDE DEF row, n
    <3>2. Len(c) = n
      BY <2>4, <3>1
    <3>3. n = 0 => c = <<>>
      BY <3>1
    <3>. QED BY <2>3, <2>4, <3>2, <3>3
  <2>. HIDE DEF n
  <2>7. PICK per \in Nat :
            /\ per > 0
            /\ \A i \in 1 .. n : ModuleNo(i, n, k) = (i - 1) \div per + 1
            /\ (n - 1) \div per + 1 <= modules
    BY <2>1, <2>4, <2>6, DealtEvenly
  <2>8. \A i \in 1 .. n : c[i].module_no = (i - 1) \div per + 1
    BY <2>5, <2>7
  <2>. HIDE DEF modules
  <2>9. /\ c[1].module_no = 1 /\ last \in Nat /\ last > 0
        /\ \A i \in 2 .. n : c[i].module_no - c[i - 1].module_no \in {0, 1}
        /\ \A m \in 1 .. last :
               /\ SizeOf(c, m) \in Nat /\ SizeOf(c, m) <= per
               /\ m < last => SizeOf(c, m) = per
    <3>1. DOMAIN c = 1 .. n /\ n > 0 /\ per > 0
      BY <2>5, <2>6, <2>7
    <3>. QED BY <2>4, <2>8, <3>1, Blocks
  <2>10. last <= modules
    <3>1. n \in 1 .. n
      BY <2>4, <2>6
    <3>. QED BY <2>7, <2>8, <3>1
  <2>11. modules \in Nat
    BY <2>1 DEF Positive, Given, modules
  <2>. HIDE DEF last
  <2>12. \A m \in 1 .. last : size[m] = SizeOf(c, m)
    BY <2>9, <2>10, <2>11
  <2>. HIDE DEF size
  <2>13. \A m \in 1 .. last : IF m < last THEN size[m] = size[1] ELSE size[m] <= size[1]
    <3>. SUFFICES ASSUME NEW m \in 1 .. last
                  PROVE  IF m < last THEN size[m] = size[1] ELSE size[m] <= size[1]
      OBVIOUS
    <3>1. 1 \in 1 .. last
      BY <2>9
    <3>2. /\ size[1] \in Nat /\ size[m] \in Nat /\ size[m] <= per
          /\ m < last => size[m] = per
          /\ 1 < last => size[1] = per
      <4>1. \A x \in 1 .. last :
                /\ size[x] \in Nat /\ size[x] <= per
                /\ x < last => size[x] = per
        BY <2>9, <2>12
      <4>. QED BY <3>1, <4>1
    <3>3. ~(m < last) => (m = last /\ (last = 1 => m = 1))
      BY <2>9
    <3>4. m = 1 => size[m] = size[1]
      OBVIOUS
    <3>. QED BY <2>9, <3>2, <3>3, <3>4
  <2>. QED BY <2>6, <2>9, <2>10, <2>13 DEF c, k, last, modules, SizeOf, size
<1>. QED
  BY <1>1, StatusShaped, PTL

=============================================================================
