------------------------------ MODULE EventLoop ------------------------------
(* The gateway's one event loop and what its handlers do to it. A handler of  *)
(* an ERPNext endpoint is `async` but calls urlopen, which blocks the loop    *)
(* until the answer or an error; the heartbeat of can_service.py runs on the  *)
(* same loop, and so does the handler that sends an emergency stop.           *)
(*                                                                            *)
(* An iteration of the loop (asyncio, external) takes the requests that have  *)
(* arrived and then the timers that are due, and runs them all before the     *)
(* next one. Time is in ticks; it passes only while a request is awaited or   *)
(* the loop has nothing to do. How long a request takes is left open: the     *)
(* timeout_s of urlopen limits each wait for the socket, and a request may    *)
(* wait for an address, for each address it tries, and for every part of the  *)
(* answer.                                                                    *)
EXTENDS Integers, FiniteSets

CONSTANTS
    Clients,        \* connections that use ERPNext endpoints, one request each
    Operator,       \* the connection that sends the emergency stop
    Period,         \* the sleep between two heartbeats
    MaxRequests,    \* requests of a handler: 2 for a status, 1 and one per job
                    \* for a list
    Watchdog        \* the controller's heartbeat timeout

ASSUME OperatorIsNoClient == Operator \notin Clients
ASSUME TimesNat ==
    Period \in Nat \ {0} /\ MaxRequests \in Nat /\ Watchdog \in Nat

VARIABLES
    sinceBeat,      \* ticks since the last heartbeat, up to Watchdog + 1
    timer,          \* ticks until the heartbeat's sleep ends
    heartbeat,      \* "asleep", or "ready": taken into this iteration
    waiting,        \* connections with a request that has arrived
    batch,          \* those of this iteration
    call,           \* the blocking handler: connection and requests left; Idle
                    \* if none runs
    answer,         \* the latest emergency stop: "sent" or "failed", "none"
                    \* until it has been tried
    beforeBeat,     \* history, per connection: its handlers that ended while
                    \* the heartbeat was due
    beforeStop      \* history, likewise while an emergency stop was waiting

histories == <<beforeBeat, beforeStop>>
loopVars == <<sinceBeat, timer, heartbeat, waiting, batch, call, answer, histories>>

Idle == [client |-> Operator, left |-> 0]
Blocked == call.left > 0
NoneBefore == [c \in Clients |-> 0]

LoopInit ==
    /\ sinceBeat = 0 /\ timer = Period /\ heartbeat = "asleep"
    /\ waiting = {} /\ batch = {} /\ call = Idle /\ answer = "none"
    /\ beforeBeat = NoneBefore /\ beforeStop = NoneBefore

(* A request arrives, at any time.                                            *)
Arrive(c) ==
    /\ c \notin waiting \cup batch
    /\ waiting' = waiting \cup {c}
    /\ answer' = IF c = Operator THEN "none" ELSE answer
    /\ UNCHANGED <<sinceBeat, timer, heartbeat, batch, call, histories>>

(* Mutant: the timers are looked at only if no request has arrived.           *)
PollRequestsFirst ==
    /\ ~Blocked /\ batch = {} /\ heartbeat = "asleep"
    /\ waiting # {} \/ timer = 0
    /\ batch' = waiting /\ waiting' = {}
    /\ heartbeat' = IF timer = 0 /\ waiting = {} THEN "ready" ELSE "asleep"
    /\ UNCHANGED <<sinceBeat, timer, call, answer, histories>>

(* Mutant: an iteration leaves some of the requests for later.                *)
PollSome ==
    /\ ~Blocked /\ batch = {} /\ heartbeat = "asleep"
    /\ waiting # {} \/ timer = 0
    /\ batch' \in SUBSET waiting /\ waiting' = waiting \ batch'
    /\ heartbeat' = IF timer = 0 THEN "ready" ELSE "asleep"
    /\ UNCHANGED <<sinceBeat, timer, call, answer, histories>>

(* The next iteration.                                                        *)
Poll ==
    /\ ~Blocked /\ batch = {} /\ heartbeat = "asleep"
    /\ waiting # {} \/ timer = 0
    /\ batch' = waiting /\ waiting' = {}
    /\ heartbeat' = IF timer = 0 THEN "ready" ELSE "asleep"
    /\ UNCHANGED <<sinceBeat, timer, call, answer, histories>>

(* A handler starts, and its first request blocks.                            *)
Begin(c, n) ==
    /\ ~Blocked /\ c \in batch \cap Clients
    /\ call' = [client |-> c, left |-> n]
    /\ UNCHANGED <<sinceBeat, timer, heartbeat, waiting, batch, answer, histories>>

(* The request is over, and the handler makes another: the next job's details *)
(* are asked for even if the last job's could not be had.                     *)
NextRequest ==
    /\ call.left > 1
    /\ call' = [call EXCEPT !.left = @ - 1]
    /\ UNCHANGED <<sinceBeat, timer, heartbeat, waiting, batch, answer, histories>>

(* A handler of c has ended.                                                  *)
Ended(c) ==
    /\ batch' = batch \ {c}
    /\ beforeBeat' = IF timer = 0 THEN [beforeBeat EXCEPT ![c] = @ + 1]
                                  ELSE beforeBeat
    /\ beforeStop' = IF Operator \in waiting \cup batch
                     THEN [beforeStop EXCEPT ![c] = @ + 1] ELSE beforeStop
    /\ UNCHANGED <<sinceBeat, timer, heartbeat, waiting, answer>>

(* The last answer has come, or an error ends the handler.                    *)
HandlerDone == Blocked /\ call' = Idle /\ Ended(call.client)

(* Handlers that ask ERPNext for nothing do not block.                        *)
NoRequest(c) ==
    ~Blocked /\ c \in batch \cap Clients /\ Ended(c) /\ UNCHANGED call

(* The stop goes to the CAN interface; or it fails, without a bus (503) or    *)
(* with a CanError of its full queue (500), and nothing tries it again.       *)
SendStop ==
    /\ ~Blocked /\ Operator \in batch
    /\ batch' = batch \ {Operator}
    /\ answer' \in {"sent", "failed"}
    /\ beforeStop' = NoneBefore
    /\ UNCHANGED <<sinceBeat, timer, heartbeat, waiting, call, beforeBeat>>

(* _heartbeat_loop: send, then sleep(0.5).                                    *)
SendHeartbeat ==
    /\ heartbeat = "ready" /\ batch = {}
    /\ sinceBeat' = 0 /\ timer' = Period /\ heartbeat' = "asleep"
    /\ beforeBeat' = NoneBefore
    /\ UNCHANGED <<waiting, batch, call, answer, beforeStop>>

Tick ==
    /\ Blocked \/ (batch = {} /\ waiting = {} /\ heartbeat = "asleep" /\ timer > 0)
    /\ sinceBeat' = IF sinceBeat > Watchdog THEN sinceBeat ELSE sinceBeat + 1
    /\ timer' = IF timer > 0 THEN timer - 1 ELSE 0
    /\ UNCHANGED <<heartbeat, waiting, batch, call, answer, histories>>

LoopNext ==
    \/ \E c \in Clients \cup {Operator} : Arrive(c)
    \/ Poll
    \/ \E c \in Clients, n \in 1 .. MaxRequests : Begin(c, n)
    \/ NextRequest \/ HandlerDone
    \/ \E c \in Clients : NoRequest(c)
    \/ SendStop \/ SendHeartbeat \/ Tick

LoopSpec == LoopInit /\ [][LoopNext]_loopVars

-----------------------------------------------------------------------------
(* Properties                                                                 *)

TypeOK ==
    /\ sinceBeat \in 0 .. Watchdog + 1 /\ timer \in 0 .. Period
    /\ heartbeat \in {"asleep", "ready"}
    /\ waiting \subseteq Clients \cup {Operator}
    /\ batch \subseteq Clients \cup {Operator}
    /\ call \in [client : Clients \cup {Operator}, left : 0 .. MaxRequests]
    /\ Blocked => call.client \in batch \cap Clients
    /\ answer \in {"none", "sent", "failed"}
    /\ beforeBeat \in [Clients -> Nat] /\ beforeStop \in [Clients -> Nat]

(* However many requests come, and however long ERPNext takes over each, a    *)
(* heartbeat that is due waits for at most two handlers of any connection:    *)
(* one that ran or was to run when the sleep ended, and one that had arrived  *)
(* by the next iteration. How long these take is ERPNext's affair.            *)
GapBounded == \A c \in Clients : beforeBeat[c] <= 2

(* So does an emergency stop that has arrived.                                *)
StopBounded == \A c \in Clients : beforeStop[c] <= 2

(* "Ha a Linux gateway nem küld heartbeat-et időben, a fő vezérlő tiltson     *)
(* minden veszélyes funkciót": as long as the gateway is up it sends its      *)
(* heartbeat in time.                                                         *)
HeartbeatInTime == sinceBeat <= Watchdog

=============================================================================
