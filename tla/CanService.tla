------------------------------ MODULE CanService -----------------------------
(* linux-gateway/app/can_service.py, with the /api/command endpoint of        *)
(* main.py: one asyncio loop that runs the rx, heartbeat and timeout tasks,   *)
(* the request handlers and stop(). A step is what runs between two           *)
(* suspension points of one of them.                                          *)
(*                                                                            *)
(* The status callback is a parameter: awaiting it (the parameter o below)    *)
(* returns without a pause, suspends the task, or raises. Gateway.tla puts    *)
(* broadcast_status of StatusHub.tla in its place.                            *)
EXTENDS GatewayStatus

CONSTANTS
    Frames,     \* frames the main controller may put on the bus
    Requests,   \* command requests: [command, value]
    LoadLevels, \* the values LoadLevel accepts
    SeqModulus, \* _next_sequence counts modulo 256
    RxCap,      \* frames the kernel's receive queue holds
    TxCap       \* frames the kernel's transmit queue holds

ASSUME SeqModulusPos == SeqModulus \in Nat \ {0}
ASSUME CapsNat == RxCap \in Nat /\ TxCap \in Nat
ASSUME FramesDecoded ==
    \A f \in Frames : f.name \in {"cell_voltages", "cell_resistances"} =>
        f.first \in Nat /\ f.values \in Seq(Nat)

VARIABLES
    bus,        \* self.bus: "none" or "open"
    running,    \* self._running
    sequence,   \* self._sequence
    status,     \* self.status
    rx,         \* where _rx_loop is
    rxMsg,      \* the frame its thread returned, <<>> if none
    heartbeat,  \* where _heartbeat_loop is
    timeout,    \* where _timeout_loop is
    stop,       \* where stop() is
    canRx,      \* frames received by the interface, not yet by the rx thread
    canTx       \* frames handed to the interface, not yet on the bus

vars == <<bus, running, sequence, status, rx, rxMsg, heartbeat, timeout, stop,
          canRx, canTx>>

Init ==
    /\ bus = "none"
    /\ running = FALSE
    /\ sequence = 0
    /\ status = InitialStatus
    /\ rx = "off" /\ rxMsg = <<>>
    /\ heartbeat = "off"
    /\ timeout = "off"
    /\ stop = "no"
    /\ canRx = <<>> /\ canTx = <<>>

Outcomes == {"returned", "suspended", "raised"}

(* Where a task is after awaiting _notify_status. Nothing catches an          *)
(* exception of the callback, so it ends the task.                            *)
After(o, loop) == CASE o = "returned"  -> loop
                    [] o = "suspended" -> "notify"
                    [] o = "raised"    -> "dead"

-----------------------------------------------------------------------------
(* start() and stop()                                                         *)

(* can.Bus may fail to open; the tasks are created anyway. With no bus the rx *)
(* loop only sleeps, and nothing opens the bus later.                         *)
Start ==
    /\ stop = "no" /\ ~running
    /\ \E opened \in BOOLEAN :
           /\ bus' = IF opened THEN "open" ELSE "none"
           /\ status' = [status EXCEPT !.can_error = ~opened]
           /\ rx' = IF opened THEN "recv" ELSE "idle"
    /\ running' = TRUE
    /\ heartbeat' = "sleep"
    /\ timeout' = "sleep"
    /\ UNCHANGED <<sequence, rxMsg, stop, canRx, canTx>>

(* stop() until it awaits gather: every task that has not ended is cancelled, *)
(* and a cancelled task does nothing more of its loop.                        *)
StopBegin ==
    /\ running
    /\ running' = FALSE
    /\ stop' = "gather"
    /\ UNCHANGED <<bus, sequence, status, rx, rxMsg, heartbeat, timeout, canRx,
                   canTx>>

(* Cancelling the rx task does not end the executor thread it awaits: the     *)
(* thread stays in bus.recv, "lingering", and stop() does not wait for it.    *)
CancelRx ==
    /\ stop = "gather" /\ rx \notin {"dead", "lingering", "cancelled"}
    /\ rx' = (IF rx = "recv" THEN "lingering" ELSE "cancelled") /\ rxMsg' = <<>>
    /\ UNCHANGED <<bus, running, sequence, status, heartbeat, timeout, stop,
                   canRx, canTx>>

(* Mutant: the frame is decoded and applied in the thread as well.            *)
ThreadApplies ==
    /\ rx = "lingering" /\ canRx # <<>>
    /\ rx' = "cancelled"
    /\ canRx' = Tail(canRx)
    /\ status' = IF Decodable(Head(canRx)) THEN Apply(status, Head(canRx))
                                           ELSE status
    /\ UNCHANGED <<bus, running, sequence, rxMsg, heartbeat, timeout, stop, canTx>>

(* bus.recv returns in that thread: with a frame, with None after its 0.1 s,  *)
(* or with an error once the bus is shut down under it. Nobody reads it.      *)
ThreadReturns ==
    /\ rx = "lingering"
    /\ rx' = "cancelled"
    /\ \/ canRx' = canRx
       \/ canRx # <<>> /\ canRx' = Tail(canRx)
    /\ UNCHANGED <<bus, running, sequence, status, rxMsg, heartbeat, timeout,
                   stop, canTx>>

CancelHeartbeat ==
    /\ stop = "gather" /\ heartbeat # "cancelled"
    /\ heartbeat' = "cancelled"
    /\ UNCHANGED <<bus, running, sequence, status, rx, rxMsg, timeout, stop,
                   canRx, canTx>>

(* Mutant: a task suspended in the callback is not cancelled.                 *)
CancelSleepingTimeout ==
    /\ stop = "gather" /\ timeout = "sleep"
    /\ timeout' = "cancelled"
    /\ UNCHANGED <<bus, running, sequence, status, rx, rxMsg, heartbeat, stop,
                   canRx, canTx>>

CancelTimeout ==
    /\ stop = "gather" /\ timeout \notin {"dead", "cancelled"}
    /\ timeout' = "cancelled"
    /\ UNCHANGED <<bus, running, sequence, status, rx, rxMsg, heartbeat, stop,
                   canRx, canTx>>

TasksEnded ==
    /\ rx \in {"dead", "lingering", "cancelled"}
    /\ heartbeat = "cancelled"
    /\ timeout \in {"dead", "cancelled"}

(* Mutant: the bus is shut down without waiting for the tasks.                *)
StopWithoutGather ==
    /\ stop = "gather"
    /\ stop' = "done"
    /\ bus' = "none"
    /\ canRx' = <<>>
    /\ UNCHANGED <<running, sequence, status, rx, rxMsg, heartbeat, timeout,
                   canTx>>

(* gather has collected every task; then the bus is shut down.                *)
StopEnd ==
    /\ stop = "gather" /\ TasksEnded
    /\ stop' = "done"
    /\ bus' = "none"
    /\ canRx' = <<>>
    /\ UNCHANGED <<running, sequence, status, rx, rxMsg, heartbeat, timeout,
                   canTx>>

-----------------------------------------------------------------------------
(* Sending                                                                    *)

(* Mutant: the counter is not masked.                                         *)
UnmaskedSequence == sequence + 1

NextSequence == (sequence + 1) % SeqModulus

(* bus.send(m) succeeds or raises CanError; a full queue always raises.       *)
Send(m) == Len(canTx) < TxCap /\ canTx' = Append(canTx, m)
SendFails == UNCHANGED canTx

(* One turn of _heartbeat_loop. CanError is swallowed; the number is used up  *)
(* either way.                                                                *)
Heartbeat ==
    /\ running /\ heartbeat = "sleep" /\ bus = "open"
    /\ sequence' = NextSequence
    /\ \/ Send([kind |-> "heartbeat", seq |-> sequence'])
       \/ SendFails
    /\ UNCHANGED <<bus, running, status, rx, rxMsg, heartbeat, timeout, stop,
                   canRx>>

(* The parameter of MEASUREMENT_START that asks for the quick internal        *)
(* resistance test: type 1 in the first byte, the load level in the second.   *)
QuickTest(level) == 1 + 256 * level

(* command_map and the parameter. The value of any other command is passed on *)
(* as it is (None as 0), so measurement_start with the value of a quick test  *)
(* makes the same frame as internal_resistance_start.                         *)
Parameter(r) == IF r.command = "internal_resistance_start"
                THEN QuickTest(r.value) ELSE r.value

CommandFrame(r, seq) ==
    [kind |-> "command", seq |-> seq,
     id   |-> IF r.command = "internal_resistance_start"
              THEN "measurement_start" ELSE r.command,
     parameter |-> Parameter(r)]

(* POST /api/command, once the command is known and its load level valid      *)
(* (otherwise 400, before a sequence number is used). Without a bus it is     *)
(* 503. The flag follows a successful send, not an acknowledgement.           *)
CommandSent(r) ==
    /\ bus = "open"
    /\ r.command = "internal_resistance_start" => r.value \in LoadLevels
    /\ sequence' = NextSequence
    /\ Send(CommandFrame(r, sequence'))
    /\ status' =
         [status EXCEPT !.resistance_measurement_running =
             CASE r.command = "internal_resistance_start" -> TRUE
               [] r.command = "measurement_stop"          -> FALSE
               [] OTHER                                   -> @]
    /\ UNCHANGED <<bus, running, rx, rxMsg, heartbeat, timeout, stop, canRx>>

(* Mutant: the flag is set before the send, whatever becomes of it.           *)
CommandFailsLate(r) ==
    /\ bus = "open"
    /\ r.command = "internal_resistance_start" => r.value \in LoadLevels
    /\ sequence' = NextSequence
    /\ SendFails
    /\ status' =
         [status EXCEPT !.resistance_measurement_running =
             CASE r.command = "internal_resistance_start" -> TRUE
               [] r.command = "measurement_stop"          -> FALSE
               [] OTHER                                   -> @]
    /\ UNCHANGED <<bus, running, rx, rxMsg, heartbeat, timeout, stop, canRx>>

(* CanError leaves the endpoint as a server error.                            *)
CommandFails(r) ==
    /\ bus = "open"
    /\ r.command = "internal_resistance_start" => r.value \in LoadLevels
    /\ sequence' = NextSequence
    /\ SendFails
    /\ UNCHANGED <<bus, running, status, rx, rxMsg, heartbeat, timeout, stop,
                   canRx>>

-----------------------------------------------------------------------------
(* _rx_loop                                                                   *)

(* Mutant: the newest queued frame first.                                     *)
RxReceiveNewest ==
    /\ running /\ rx = "recv" /\ canRx # <<>>
    /\ rx' = "got"
    /\ rxMsg' = <<canRx[Len(canRx)]>>
    /\ canRx' = SubSeq(canRx, 1, Len(canRx) - 1)
    /\ UNCHANGED <<bus, running, sequence, status, heartbeat, timeout, stop,
                   canTx>>

(* The thread in bus.recv takes the oldest frame; the loop sees it when the   *)
(* task runs again.                                                           *)
RxReceive ==
    /\ running /\ rx = "recv" /\ canRx # <<>>
    /\ rx' = "got"
    /\ rxMsg' = <<Head(canRx)>>
    /\ canRx' = Tail(canRx)
    /\ UNCHANGED <<bus, running, sequence, status, heartbeat, timeout, stop,
                   canTx>>

(* recv raises CanOperationError (the interface went down): the loop has no   *)
(* handler and the task ends.                                                 *)
RxError ==
    /\ running /\ rx = "recv"
    /\ rx' = "dead"
    /\ UNCHANGED <<bus, running, sequence, status, rxMsg, heartbeat, timeout,
                   stop, canRx, canTx>>

RxIgnore ==
    /\ running /\ rx = "got" /\ ~Decodable(rxMsg[1])
    /\ rx' = "recv" /\ rxMsg' = <<>>
    /\ UNCHANGED <<bus, running, sequence, status, heartbeat, timeout, stop,
                   canRx, canTx>>

RxApply(o) ==
    /\ running /\ rx = "got" /\ Decodable(rxMsg[1])
    /\ status' = Apply(status, rxMsg[1])
    /\ rx' = After(o, "recv") /\ rxMsg' = <<>>
    /\ UNCHANGED <<bus, running, sequence, heartbeat, timeout, stop, canRx,
                   canTx>>

(* The suspended callback goes on.                                            *)
RxNotified(o) ==
    /\ running /\ rx = "notify"
    /\ rx' = After(o, "recv")
    /\ UNCHANGED <<bus, running, sequence, status, rxMsg, heartbeat, timeout,
                   stop, canRx, canTx>>

-----------------------------------------------------------------------------
(* _timeout_loop                                                              *)

(* Mutant: silence is looked for between two frames of the rx loop, which may *)
(* have died.                                                                 *)
TimeoutFiresInRxLoop(o) ==
    /\ running /\ timeout = "sleep" /\ rx = "recv"
    /\ status.connected /\ Silent(status)
    /\ status' = [status EXCEPT !.connected = FALSE]
    /\ timeout' = After(o, "sleep")
    /\ UNCHANGED <<bus, running, sequence, rx, rxMsg, heartbeat, stop, canRx,
                   canTx>>

(* One turn of the loop, when it finds the controller silent.                 *)
TimeoutFires(o) ==
    /\ running /\ timeout = "sleep"
    /\ status.connected /\ Silent(status)
    /\ status' = [status EXCEPT !.connected = FALSE]
    /\ timeout' = After(o, "sleep")
    /\ UNCHANGED <<bus, running, sequence, rx, rxMsg, heartbeat, stop, canRx,
                   canTx>>

TimeoutNotified(o) ==
    /\ running /\ timeout = "notify"
    /\ timeout' = After(o, "sleep")
    /\ UNCHANGED <<bus, running, sequence, status, rx, rxMsg, heartbeat, stop,
                   canRx, canTx>>

-----------------------------------------------------------------------------
(* Time, and the CAN bus.                                                     *)

Tick ==
    /\ status' = Older(status)
    /\ UNCHANGED <<bus, running, sequence, rx, rxMsg, heartbeat, timeout, stop,
                   canRx, canTx>>

(* The controller's frame reaches the interface; a full queue drops it, which *)
(* changes nothing.                                                           *)
BusDelivers(f) ==
    /\ bus = "open" /\ Len(canRx) < RxCap
    /\ canRx' = Append(canRx, f)
    /\ UNCHANGED <<bus, running, sequence, status, rx, rxMsg, heartbeat, timeout,
                   stop, canTx>>

BusTransmits ==
    /\ canTx # <<>>
    /\ canTx' = Tail(canTx)
    /\ UNCHANGED <<bus, running, sequence, status, rx, rxMsg, heartbeat, timeout,
                   stop, canRx>>

-----------------------------------------------------------------------------
(* Specification                                                              *)

Stopping == CancelRx \/ CancelHeartbeat \/ CancelTimeout \/ StopEnd
RxTask == RxReceive \/ RxIgnore \/ \E o \in Outcomes : RxApply(o)
TimeoutTask == \E o \in Outcomes : TimeoutFires(o)
Callback == \E o \in Outcomes : RxNotified(o) \/ TimeoutNotified(o)
Api == \E r \in Requests : CommandSent(r) \/ CommandFails(r)
Environment == Tick \/ BusTransmits \/ \E f \in Frames : BusDelivers(f)

Next == Start \/ StopBegin \/ Stopping \/ ThreadReturns \/ Heartbeat \/ Api \/ RxTask \/ RxError
            \/ TimeoutTask \/ Callback \/ Environment

(* The event loop runs every task that is ready. The callback may stay        *)
(* suspended for ever, and nothing obliges the bus or the clients.            *)
Fairness == WF_vars(RxTask) /\ WF_vars(TimeoutTask) /\ WF_vars(Stopping)
                /\ WF_vars(Heartbeat)

Spec == Init /\ [][Next]_vars /\ Fairness

-----------------------------------------------------------------------------
(* Properties                                                                 *)

Cell == Nat \cup {None}
Ids == {r.command : r \in Requests} \cup {"measurement_start"}
TxFrames ==
    [kind : {"heartbeat"}, seq : 0 .. SeqModulus - 1]
        \cup [kind : {"command"}, seq : 0 .. SeqModulus - 1, id : Ids,
              parameter : {Parameter(r) : r \in Requests}]

StatusOK ==
    /\ status.connected \in BOOLEAN
    /\ status.age \in 0 .. MaxAge + 1 \cup {None}
    /\ status.resistance_measurement_running \in BOOLEAN
    /\ status.cell_voltages_mv \in Seq(Cell)
    /\ status.cell_resistances \in Seq(Cell)

TypeOK ==
    /\ bus \in {"none", "open"}
    /\ running \in BOOLEAN
    /\ sequence \in 0 .. SeqModulus - 1
    /\ StatusOK
    /\ rx \in {"off", "idle", "recv", "got", "notify", "dead", "lingering",
               "cancelled"}
    /\ rxMsg \in Seq(Frames) /\ (rx = "got" <=> Len(rxMsg) = 1)
                             /\ (rx # "got" <=> rxMsg = <<>>)
    /\ heartbeat \in {"off", "sleep", "cancelled"}
    /\ timeout \in {"off", "sleep", "notify", "dead", "cancelled"}
    /\ stop \in {"no", "gather", "done"}
    /\ canRx \in Seq(Frames) /\ Len(canRx) <= RxCap
    /\ canTx \in Seq(TxFrames) /\ Len(canTx) <= TxCap

(* The bus is shut down last of all: while a task of the service is anywhere  *)
(* in a turn of its loop that uses the bus, the bus is there, although tasks  *)
(* die on their own, start without a bus, or hang in the callback. (The       *)
(* thread a cancelled rx task leaves in recv is no task: the bus does go away *)
(* under it, see StoppedStatusStays.)                                         *)
BusOutlivesTasks ==
    /\ rx \in {"recv", "got", "notify"} => bus = "open"
    /\ stop = "done" => TasksEnded /\ bus = "none"

Received(st) == <<st.connected, st.system, st.pack, st.fault, st.ack,
                  st.cell_voltages_mv, st.cell_resistances>>

(* From stop() on nothing received reaches the status any more: neither the   *)
(* frame the rx task has in hand, nor one the thread left behind in recv      *)
(* still takes from the interface, before or after the bus is shut down.      *)
StoppedStatusStays ==
    [][stop # "no" => Received(status') = Received(status)]_vars

(* The measurement flag moves only together with a frame that really went to  *)
(* the interface: a failed send leaves it, and so does every received frame.  *)
FlagFollowsSend ==
    [][status'.resistance_measurement_running
           # status.resistance_measurement_running
       => /\ Len(canTx') = Len(canTx) + 1
          /\ canTx'[Len(canTx')].id =
                 IF status'.resistance_measurement_running
                 THEN "measurement_start" ELSE "measurement_stop"]_vars

(* The cell summary on show is the summary of the cells on show, as long as   *)
(* one of them is valid, in whatever order and however often packets came.    *)
SummaryMatchesCells ==
    LET valid == Readings(status.cell_voltages_mv) IN
    valid # {} =>
        /\ status.min_cell_mv = Min(valid)
        /\ status.max_cell_mv = Max(valid)
        /\ status.cell_delta_mv = status.max_cell_mv - status.min_cell_mv

(* stop() gets to its end from wherever the tasks are, a task suspended in a  *)
(* callback that never comes back included.                                   *)
StopCompletes == stop = "gather" ~> stop = "done"

=============================================================================
