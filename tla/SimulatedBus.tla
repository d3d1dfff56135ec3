---------------------------- MODULE SimulatedBus -----------------------------
(* CanService on a bus with the simulator, byte by byte: what the service     *)
(* receives is what the codec makes of the messages the simulator built.      *)
(* Messages of all cycles arrive in any order, repeated or not at all, so the *)
(* simulator may be restarted, and the interface's queue overflow.            *)
(*                                                                            *)
(* A second sender stands for the main controller where the simulator never   *)
(* varies: a current that flows into the pack, an acknowledgement, an id the  *)
(* documents assign and the gateway does not know.                            *)
EXTENDS CanService, CanSimulator

CONSTANTS
    Cells,      \* --cells
    Counters,   \* the cycles of the simulator
    Currents,   \* currents the controller measures, in 0.01 A
    Acks        \* what it acknowledges: [command, seq, result, reason]

ASSUME CountersNat == Counters \subseteq Nat /\ Cells \in Nat
ASSUME CurrentsFit == Currents \subseteq Int16
ASSUME AcksFit ==
    \A a \in Acks : a.command \in Byte /\ a.seq \in Byte /\ a.result \in Byte
                    /\ a.reason \in Byte

PackMessage(current) ==
    [id   |-> PackMeasurementId,
     data |-> WordBytes(3600) \o WordBytes(current) \o WordBytes(4442) \o <<1, 0>>]

RelayStatusMessage == [id |-> 304, data |-> <<1>>]      \* 0x130

SimulatorMessages ==
    UNION {ToSet(Cycle(c, Cells, 2)) : c \in Counters}

ControllerMessages ==
    {PackMessage(i) : i \in Currents}
        \cup {EncodeCommandAck(a.command, a.seq, a.result, a.reason) : a \in Acks}
        \cup {RelayStatusMessage}

(* The frames of CanService: only cell packets and what the controller sends, *)
(* as the other frames of the simulator do not differ in what matters here.   *)
IsCellMessage(m) == m.id # SystemStatusId /\ m.id # PackMeasurementId

SimulatedFrames ==
    {DecodeFrame(m.id, m.data) :
        m \in {n \in SimulatorMessages : IsCellMessage(n)} \cup ControllerMessages}

-----------------------------------------------------------------------------
(* The service from start on, with a callback that returns; stop(), the       *)
(* timeout and a stuck callback are CanService's own matter.                  *)
BusNext ==
    \/ Start \/ Heartbeat \/ Api
    \/ RxReceive \/ RxIgnore \/ RxApply("returned")
    \/ BusTransmits \/ \E f \in Frames : BusDelivers(f)

BusSpec == Init /\ [][BusNext]_vars

-----------------------------------------------------------------------------
(* Properties                                                                 *)

CellShows(sent(_, _), i, value) ==
    IF i > CellCount(Cells) THEN value \in {0, None}
    ELSE value = None \/ \E c \in Counters : value = sent(c, i - 1)

(* Whatever is on show for a cell was measured on that very cell: through two *)
(* layouts in bytes, a packet index and a table that grows packet by packet,  *)
(* no reading moves to another cell, and none is made up.                     *)
ReadingsOfTheirCells ==
    /\ \A i \in DOMAIN status.cell_voltages_mv :
           CellShows(SimulatedVoltage, i, status.cell_voltages_mv[i])
    /\ \A i \in DOMAIN status.cell_resistances :
           CellShows(SimulatedResistance, i, status.cell_resistances[i])

(* The current on show is the one measured, charging or discharging, and the  *)
(* acknowledgement on show one that was given.                                *)
ShownAsMeasured ==
    /\ status.pack # None => status.pack.current_ca \in Currents
    /\ status.ack # None =>
           \E a \in Acks : status.ack = [command_id |-> a.command,
               command_seq |-> a.seq, result_code |-> a.result,
               reject_reason |-> a.reason]

=============================================================================
