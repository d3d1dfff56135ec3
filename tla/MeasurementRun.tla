--------------------------- MODULE MeasurementRun ----------------------------
(* An internal resistance measurement from the operator's button to the       *)
(* controller and back: CanService with the main controller at the other end  *)
(* of its CAN interface. The controller's firmware is not in the repository;  *)
(* it is modelled from what the gateway sends it and expects of it            *)
(* (docs/protocols/can-gateway-protocol.md), with every choice it has left    *)
(* open: it may refuse any command (REJECTED, BUSY, INVALID_STATE and the     *)
(* rest). The status callback always returns here, and the timeout loop,      *)
(* which only moves `connected`, is left out.                                 *)
EXTENDS CanService

CONSTANTS
    MaxRuns,      \* bound: measurements the controller begins
    MaxRestarts   \* bound: restarts of the gateway process

ASSUME BoundsNat == MaxRuns \in Nat /\ MaxRestarts \in Nat

VARIABLES
    mode,       \* whether the controller runs a resistance test: "test", or
                \* "idle" (any other measurement only refuses starts)
    run,        \* the number of the latest resistance test it began
    excused,    \* history: why that test need not be on show, if it is not:
                \* the gateway restarted under it, it was begun by a raw
                \* measurement_start, or the controller refused to stop it
    restarts    \* history: restarts so far

controllerVars == <<mode, run, excused, restarts>>
allVars == <<vars, controllerVars>>

RunInit == Init /\ mode = "idle" /\ run = 0 /\ excused = FALSE /\ restarts = 0

-----------------------------------------------------------------------------
(* The main controller                                                        *)

(* Its frame reaches the gateway's interface, or is lost: the queue is full   *)
(* or the gateway has no socket open.                                         *)
Emit(f) ==
    IF bus = "open" /\ Len(canRx) < RxCap
    THEN canRx' = Append(canRx, f) ELSE canRx' = canRx

Ack(m, result) ==
    Emit([name |-> "command_ack",
          payload |-> [id |-> m.id, seq |-> m.seq, result |-> result]])

(* A frame that asks for the quick test, whoever made it.                     *)
StartsTest(m) ==
    /\ m.kind = "command" /\ m.id = "measurement_start"
    /\ m.parameter \in {QuickTest(l) : l \in LoadLevels}

TestStartQueued(queue) == \E i \in DOMAIN queue : StartsTest(queue[i])

Shown == status.resistance_measurement_running

(* An excuse, old or new, lasts until no test runs and none is on its way.    *)
ExcuseLasts(new) ==
    excused' = ((excused \/ new) /\ (mode' = "test" \/ TestStartQueued(canTx')))

(* Everything of the gateway but its two queues stays.                        *)
ServiceUnchanged ==
    UNCHANGED <<bus, running, sequence, status, rx, rxMsg, heartbeat, timeout,
                stop>>

TakesHeartbeat ==
    /\ canTx # <<>> /\ Head(canTx).kind = "heartbeat"
    /\ canTx' = Tail(canTx)
    /\ ServiceUnchanged
    /\ UNCHANGED <<canRx, controllerVars>>

(* The start of a test is accepted only in idle, and even then may be refused. *)
TakesStart ==
    /\ canTx # <<>>
    /\ LET m == Head(canTx) IN
       /\ StartsTest(m)
       /\ canTx' = Tail(canTx)
       /\ \/ /\ mode = "idle" /\ run < MaxRuns
             /\ mode' = "test"
             /\ run' = run + 1
             /\ Ack(m, "ok")
          \/ /\ Ack(m, "rejected")
             /\ UNCHANGED <<mode, run>>
    /\ ExcuseLasts(FALSE)
    /\ ServiceUnchanged
    /\ UNCHANGED restarts

(* MEASUREMENT_STOP is obeyed, or refused and whatever runs goes on.          *)
TakesStop ==
    /\ canTx # <<>>
    /\ LET m == Head(canTx) IN
       /\ m.kind = "command" /\ m.id = "measurement_stop"
       /\ canTx' = Tail(canTx)
       /\ \/ Ack(m, "ok") /\ mode' = "idle" /\ ExcuseLasts(FALSE)
          \/ /\ Ack(m, "rejected") /\ mode' = mode
             /\ ExcuseLasts(mode = "test" /\ ~Shown)
    /\ ServiceUnchanged
    /\ UNCHANGED <<run, restarts>>

(* Any other command starts no test. What an emergency_stop or an all-off     *)
(* ends, and whether and when, is among the Ends.                             *)
TakesOther ==
    /\ canTx # <<>>
    /\ LET m == Head(canTx) IN
       /\ m.kind = "command" /\ m.id # "measurement_stop" /\ ~StartsTest(m)
       /\ canTx' = Tail(canTx)
       /\ \E result \in {"ok", "rejected"} : Ack(m, result)
    /\ UNCHANGED mode
    /\ ExcuseLasts(FALSE)
    /\ ServiceUnchanged
    /\ UNCHANGED <<run, restarts>>

(* A reading of the running test; its value is the number of the test.        *)
Reports ==
    /\ mode = "test"
    /\ Emit([name |-> "cell_resistances", first |-> 0, values |-> <<run>>])
    /\ ServiceUnchanged
    /\ UNCHANGED <<canTx, controllerVars>>

(* The measurement is over, or a fault, the heartbeat watchdog, an emergency  *)
(* stop or outputs switched off ended it.                                     *)
Ends ==
    /\ mode = "test"
    /\ mode' = "idle"
    /\ UNCHANGED <<vars, run, restarts>>
    /\ ExcuseLasts(FALSE)

(* The gateway process ends at any point, by shutdown or crash, and is        *)
(* started again. Its memory and socket are gone; the controller does not     *)
(* notice, and frames already handed to the interface still go out.           *)
Restart ==
    /\ running /\ restarts < MaxRestarts
    /\ restarts' = restarts + 1
    /\ bus' = "none" /\ running' = FALSE /\ sequence' = 0
    /\ status' = InitialStatus
    /\ rx' = "off" /\ rxMsg' = <<>>
    /\ heartbeat' = "off" /\ timeout' = "off" /\ stop' = "no"
    /\ canRx' = <<>>
    /\ excused' = (mode = "test" \/ TestStartQueued(canTx))
    /\ UNCHANGED <<canTx, mode, run>>

-----------------------------------------------------------------------------
Controller == TakesHeartbeat \/ TakesStart \/ TakesStop \/ TakesOther

(* A request, and what it means for the history: internal_resistance_start    *)
(* puts the test on show, whatever was hidden before; a raw measurement_start *)
(* may begin one that is not.                                                 *)
Unannounced(r) ==
    r.command = "measurement_start" /\ StartsTest(CommandFrame(r, 0)) /\ ~Shown

Command(r) ==
    /\ \/ /\ CommandSent(r)
          /\ excused' = (/\ excused \/ Unannounced(r)
                         /\ r.command # "internal_resistance_start")
       \/ CommandFails(r) /\ UNCHANGED excused
    /\ UNCHANGED <<mode, run, restarts>>

Service ==
    \/ /\ Start \/ Heartbeat \/ RxReceive \/ RxApply("returned")
       /\ UNCHANGED controllerVars
    \/ \E r \in Requests : Command(r)

RunNext == Service \/ Controller \/ Reports \/ Ends \/ Restart

(* The bus arbitrates what is queued, and the controller reads its bus.       *)
RunSpec == RunInit /\ [][RunNext]_allVars /\ WF_allVars(Controller)

-----------------------------------------------------------------------------
(* Properties                                                                 *)

CommandsInFlight == {i \in DOMAIN canTx : canTx[i].kind = "command"}

(* Whenever the controller loads the cells for a resistance test and no       *)
(* command is on its way, the gateway shows the test running: failed sends,   *)
(* refused or repeated starts, and stops before, between and behind them      *)
(* never hide a running test. Three things do, and nothing else: a restart of *)
(* the gateway under the test, a test begun by a raw measurement_start, and a *)
(* stop the controller refused. A later internal_resistance_start shows it.   *)
TestIsShown ==
    mode = "test" /\ CommandsInFlight = {} => Shown \/ excused

(* Once the gateway shows the test stopped, the controller stops it, or has   *)
(* one of those three reasons to go on.                                       *)
StoppedMeansStopping ==
    (mode = "test" /\ running /\ ~Shown /\ ~excused)
        ~> (mode # "test" \/ Shown \/ excused \/ ~running)

(* A reading of an earlier test may still be taken in after a new start, from *)
(* frames queued before it, but it never replaces one of a later test.        *)
NewestTestWins ==
    [][\A i \in DOMAIN status.cell_resistances \cap
                DOMAIN status'.cell_resistances :
           status'.cell_resistances[i] >= status.cell_resistances[i]]_allVars

=============================================================================
