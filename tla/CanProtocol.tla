----------------------------- MODULE CanProtocol -----------------------------
(* linux-gateway/app/can_protocol.py: how frames are laid out in bytes and    *)
(* what the gateway makes of them.                                            *)
(*                                                                            *)
(* A message is [id, data]; data[1] is Byte0 of the documents. Values keep    *)
(* the unit of the wire (0.1 V, 0.01 A, mV, 0.01 mOhm): the code divides by a *)
(* power of ten, which loses nothing. Decoded frames are what GatewayStatus   *)
(* applies; the packet index of a cell packet is left out, as nothing reads   *)
(* it.                                                                        *)
EXTENDS Integers, Sequences

Byte == 0 .. 255
Message == [id : Nat, data : Seq(Byte)]

-----------------------------------------------------------------------------
(* CanId, CommandId, CommandResult                                            *)

SystemStatusId == 256        \* 0x100
CellVoltageBase == 272       \* 0x110
PackMeasurementId == 288     \* 0x120
FaultId == 384               \* 0x180
CellResistanceBase == 400    \* 0x190
CommandFrameId == 512        \* 0x200
HeartbeatId == 608           \* 0x260
CommandAckId == 624          \* 0x270

CommandId ==
    [ping |-> 1, get_status |-> 2, clear_fault |-> 3, measurement_start |-> 16,
     measurement_stop |-> 17, relay_all_off |-> 32, supply_output_off |-> 48,
     balancer_all_off |-> 64, emergency_stop |-> 240]

CommandResult ==
    [ok |-> 0, rejected |-> 1, busy |-> 2, invalid_state |-> 3,
     invalid_parameter |-> 4, fault_active |-> 5]

-----------------------------------------------------------------------------
(* Bytes and words, least significant byte first                              *)

(* n & 0xFF and n >> 8, of a negative n in two's complement as in Python.     *)
LowByte(n) == n % 256
Shifted(n) == n \div 256

WordBytes(n) == <<LowByte(n), LowByte(Shifted(n))>>

Word(data, i) == data[i] + 256 * data[i + 1]

(* Mutant: a negative current is a very large one.                            *)
Unsigned(w) == w

Int16 == -32768 .. 32767

Signed(w) == IF w >= 32768 THEN w - 65536 ELSE w

(* Short data are padded with zeros.                                          *)
Padded(data) == [i \in 1 .. 8 |-> IF i \in DOMAIN data THEN data[i] ELSE 0]

-----------------------------------------------------------------------------
(* decode_frame                                                               *)

DecodeSystemStatus(d) ==
    [name |-> "system_status",
     payload |-> [system_state |-> d[1], fault_state |-> d[2],
                  relay_flags |-> d[3], supply_flags |-> d[4],
                  balancer_flags |-> d[5], active_profile |-> d[6],
                  uptime_s |-> Word(d, 7)]]

DecodePackMeasurement(d) ==
    [name |-> "pack_measurement",
     payload |-> [voltage_dv |-> Word(d, 1), current_ca |-> Signed(Word(d, 3)),
                  power_w |-> Word(d, 5), measurement_valid |-> d[7] # 0]]

(* Mutant: the index of the packet instead of that of its first cell.         *)
DecodeByPacket(name, d) ==
    [name |-> name, first |-> d[1],
     values |-> <<Word(d, 3), Word(d, 5), Word(d, 7)>>]

DecodeCells(name, d) ==
    [name |-> name, first |-> d[2],
     values |-> <<Word(d, 3), Word(d, 5), Word(d, 7)>>]

DecodeFault(d) ==
    [name |-> "fault",
     payload |-> [fault_code |-> d[1], fault_detail |-> d[2], source |-> d[3],
                  severity |-> d[4], related_index |-> d[5],
                  uptime_s |-> Word(d, 7)]]

DecodeCommandAck(d) ==
    [name |-> "command_ack",
     payload |-> [command_id |-> d[1], command_seq |-> d[2],
                  result_code |-> d[3], reject_reason |-> d[4]]]

(* Any other id is no frame of the gateway's, and decoded as Python's None.   *)
NoFrame == [name |-> "none"]

DecodeFrame(id, data) ==
    LET d == Padded(data) IN
    CASE id = SystemStatusId    -> DecodeSystemStatus(d)
      [] id = PackMeasurementId -> DecodePackMeasurement(d)
      [] id \in CellVoltageBase .. PackMeasurementId - 1 ->
             DecodeCells("cell_voltages", d)
      [] id = FaultId           -> DecodeFault(d)
      [] id \in CellResistanceBase .. CommandFrameId - 1 ->
             DecodeCells("cell_resistances", d)
      [] id = CommandAckId      -> DecodeCommandAck(d)
      [] OTHER                  -> NoFrame

-----------------------------------------------------------------------------
(* Encoders                                                                   *)

EncodeHeartbeat(sequence, flags) ==
    [id   |-> HeartbeatId,
     data |-> <<LowByte(sequence), LowByte(flags), 0, 0, 0, 0, 0, 0>>]

EncodeCommand(command, sequence, parameter, flags) ==
    [id   |-> CommandFrameId,
     data |-> <<LowByte(command), LowByte(sequence),
                LowByte(parameter), LowByte(Shifted(parameter)),
                LowByte(Shifted(Shifted(parameter))),
                LowByte(Shifted(Shifted(Shifted(parameter)))),
                LowByte(flags), 0>>]

EncodeMeasurementStartParameter(type, level) ==
    LowByte(type) + 256 * LowByte(level)

EncodeCommandAck(command, sequence, result, reason) ==
    [id   |-> CommandAckId,
     data |-> <<LowByte(command), LowByte(sequence), LowByte(result),
                LowByte(reason), 0, 0, 0, 0>>]

=============================================================================
