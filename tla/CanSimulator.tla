---------------------------- MODULE CanSimulator -----------------------------
(* tools/can-simulator/send_status.py: the messages a simulated controller    *)
(* puts on the bus, cycle by cycle.                                           *)
EXTENDS CanProtocol, SequencesExt

(* Readings of cell number i, counted from 0, in cycle `counter`.             *)
SimulatedVoltage(counter, i) ==
    3700 + (counter % 8) + (i \div 18) * 3 + (i % 18) - 9

SimulatedResistance(counter, i) ==
    180 + (counter % 5) + (i \div 18) * 8 + (i % 18) * 3

BuildSystemStatus(counter) ==
    [id   |-> SystemStatusId,
     data |-> <<2, 0, counter % 4, 0, 0, 0>> \o WordBytes(counter)]

BuildPackMeasurement(counter) ==
    [id   |-> PackMeasurementId,
     data |-> WordBytes(3600 + (counter % 20)) \o WordBytes(1234)
                  \o WordBytes(4442) \o <<1, 0>>]

BuildFault(counter) ==
    [id |-> FaultId, data |-> <<1, 2, 1, 1, 0, 0>> \o WordBytes(counter)]

(* Three cells per packet; those beyond cell_count read 0.                    *)
CellPacket(base, packet, v) ==
    [id   |-> base + packet,
     data |-> <<LowByte(packet), LowByte(3 * packet),
                LowByte(v[1]), LowByte(Shifted(v[1])),
                LowByte(v[2]), LowByte(Shifted(v[2])),
                LowByte(v[3]), LowByte(Shifted(v[3]))>>]

BuildCellVoltages(counter, packet, cellCount) ==
    CellPacket(CellVoltageBase, packet,
        [k \in 1 .. 3 |-> LET i == 3 * packet + k - 1 IN
            IF i >= cellCount THEN 0 ELSE SimulatedVoltage(counter, i)])

BuildCellResistances(counter, packet, cellCount) ==
    CellPacket(CellResistanceBase, packet,
        [k \in 1 .. 3 |-> LET i == 3 * packet + k - 1 IN
            IF i >= cellCount THEN 0 ELSE SimulatedResistance(counter, i)])

(* --cells is kept within what the ids can tell apart; the number of packets  *)
(* follows from it unless --cell-packets gives another.                       *)
MaxCells == 48
CellCount(cells) == IF cells < 1 THEN 1 ELSE IF cells > MaxCells THEN MaxCells ELSE cells
CellPackets(cellCount) == (cellCount + 2) \div 3

(* What main() sends in one cycle, in this order.                             *)
Cycle(counter, cells, faultEvery) ==
    LET cellCount == CellCount(cells) IN
    <<BuildSystemStatus(counter), BuildPackMeasurement(counter)>>
        \o FlattenSeq([p \in 1 .. CellPackets(cellCount) |->
                <<BuildCellVoltages(counter, p - 1, cellCount),
                  BuildCellResistances(counter, p - 1, cellCount)>>])
        \o (IF faultEvery > 0 /\ counter > 0 /\ counter % faultEvery = 0
            THEN <<BuildFault(counter)>> ELSE <<>>)

=============================================================================
