------------------------------- MODULE Gateway -------------------------------
(* The gateway process: CanService with broadcast_status as its status        *)
(* callback (on_startup in main.py registers it). The rx and timeout tasks of *)
(* CanService are the broadcasters of StatusHub: a task awaits the callback   *)
(* exactly as long as its broadcast_status call lasts, and ends when that     *)
(* call raises. Both component modules share this module's variables.         *)
EXTENDS Naturals, Sequences, FiniteSets

CONSTANTS
    None, MaxAge, Frames, Requests, LoadLevels, SeqModulus, RxCap, TxCap,
    Sockets, NoSocket, MaxPublished

(* What StatusHub assumes of its constants.                                   *)
ASSUME BrowsersFinite ==
    IsFiniteSet(Sockets) /\ NoSocket \notin Sockets /\ MaxPublished \in Nat

VARIABLES
    bus, running, sequence, status, rx, rxMsg, heartbeat, timeout, stop, canRx,
    canTx,
    published, websockets, handler, link, seen, cast, gap

canVars == <<bus, running, sequence, status, rx, rxMsg, heartbeat, timeout,
             stop, canRx, canTx>>
hubVars == <<published, websockets, handler, link, seen, cast, gap>>
vars == <<canVars, hubVars>>

Broadcasters == {"rx", "timeout"}

Can == INSTANCE CanService
Hub == INSTANCE StatusHub

Init == Can!Init /\ Hub!Init

(* A frame is applied and announced: up to the first suspension of the        *)
(* broadcast in one go, so nothing comes between the change and its first     *)
(* sends.                                                                     *)
RxFrame ==
    \/ Can!RxApply("returned") /\ Hub!StartReturns("rx")
    \/ Can!RxApply("suspended") /\ Hub!StartSuspends("rx")

SilenceAnnounced ==
    \/ Can!TimeoutFires("returned") /\ Hub!StartReturns("timeout")
    \/ Can!TimeoutFires("suspended") /\ Hub!StartSuspends("timeout")

(* The suspended broadcast of one of the two tasks goes on.                   *)
Resumed(b, outcome) ==
    IF b = "rx" THEN Can!RxNotified(outcome) ELSE Can!TimeoutNotified(outcome)

Resume(b) ==
    \/ Resumed(b, "returned") /\ Hub!ResumeReturns(b)
    \/ Resumed(b, "suspended") /\ Hub!ResumeSuspends(b)
    \/ Resumed(b, "raised") /\ Hub!ResumeRaises(b)

(* Mutant: the call outlives its cancelled task.                              *)
CancelTaskOnly(b) ==
    /\ IF b = "rx" THEN Can!CancelRx ELSE Can!CancelTimeout
    /\ UNCHANGED hubVars

(* Mutant: a task suspended in broadcast_status is not cancelled.             *)
CancelOutsideCall(b) ==
    /\ ~cast[b].on
    /\ IF b = "rx" THEN Can!CancelRx ELSE Can!CancelTimeout
    /\ UNCHANGED hubVars

(* Cancelling a task that is inside broadcast_status ends that call too.      *)
Cancel(b) ==
    /\ IF b = "rx" THEN Can!CancelRx ELSE Can!CancelTimeout
    /\ IF cast[b].on THEN Hub!CancelBroadcast(b) ELSE UNCHANGED hubVars

(* Bound: a frame is announced once and may be followed by one announced      *)
(* silence, so what is on its way leaves room for every announcement and      *)
(* MaxPublished never stops the loops themselves.                             *)
Room == published + 2 * (Len(canRx) + Len(rxMsg)) + 3 <= MaxPublished

(* Everything else concerns one component only. uvicorn serves no connection  *)
(* before startup is complete.                                                *)
CanOnly ==
    /\ \/ Can!Start \/ Can!StopBegin \/ Can!CancelHeartbeat \/ Can!StopEnd
       \/ Can!Heartbeat \/ Can!Api \/ Can!RxReceive \/ Can!RxIgnore
       \/ Can!ThreadReturns \/ Can!Tick \/ Can!BusTransmits
       \/ Room /\ \E f \in Frames : Can!BusDelivers(f)
    /\ UNCHANGED hubVars

RxDies == Can!RxError /\ UNCHANGED hubVars

HubOnly ==
    /\ \E s \in Sockets :
           \/ running /\ Hub!Connect(s)
           \/ Hub!HandlerLeaves(s)
           \/ Hub!HandlerFails(s)
           \/ Hub!Connection(s)
    /\ UNCHANGED canVars

Working == RxFrame \/ SilenceAnnounced
               \/ (\E b \in Broadcasters : Resume(b) \/ Cancel(b))
               \/ CanOnly \/ HubOnly

Next == Working \/ RxDies

(* The loop runs what is ready. Nothing obliges a browser to read, a          *)
(* connection that stalls to drain or end, or a handler to return.            *)
Fairness ==
    /\ WF_vars(RxFrame)
    /\ WF_vars(Can!RxReceive /\ UNCHANGED hubVars)
    /\ WF_vars(Can!RxIgnore /\ UNCHANGED hubVars)
    /\ WF_vars(SilenceAnnounced)
    /\ \A b \in Broadcasters : WF_vars(Resume(b)) /\ WF_vars(Cancel(b))
    /\ WF_vars((Can!CancelHeartbeat \/ Can!StopEnd) /\ UNCHANGED hubVars)

Spec == Init /\ [][Next]_vars /\ Fairness

(* The CAN interface itself never fails, and every connection that stalls     *)
(* drains or ends after all: what goes wrong even then is not their doing.    *)
WorkingSpec ==
    /\ Init /\ [][Working]_vars /\ Fairness
    /\ \A s \in Sockets :
           WF_vars(/\ link[s] = "congested"
                   /\ Hub!Drain(s) \/ Hub!Close(s)
                   /\ UNCHANGED canVars)

-----------------------------------------------------------------------------
(* Properties                                                                 *)

(* A task waits in the callback exactly while its broadcast_status call is    *)
(* suspended on a browser; no call is left behind by a task that returned,    *)
(* died or was cancelled, and an ended service holds none.                    *)
CallBelongsToTask ==
    /\ cast["rx"].on <=> rx = "notify"
    /\ cast["timeout"].on <=> timeout = "notify"

(* The hypothesis of the next two: no connection stays congested for ever.    *)
(* The code does not see to it, it waits in send_json as long as it takes.    *)
StallsEnd == \A s \in Sockets : []<>(link[s] # "congested")

(* A browser that is behind is brought up to date, or leaves, or a broadcast  *)
(* was lost: a stalled browser delays the others, but when its stall ends     *)
(* nobody has been starved, however often both loops broadcast.               *)
BehindCatchesUp ==
    StallsEnd =>
        \A s \in Sockets :
            (handler[s] = "receive" /\ seen[s] < published)
                ~> (seen[s] = published \/ link[s] = "closed" \/ gap)

(* A controller that has gone silent does not stay "connected": also when the *)
(* timeout task is still suspended in the broadcast of an earlier silence     *)
(* when the next one begins, when the rx task has died, or hangs in a         *)
(* broadcast of its own. Only the death of the timeout task prevents it.      *)
SilenceNoticed ==
    StallsEnd =>
        ((running /\ status.connected /\ Can!Silent(status))
            ~> (\/ ~running \/ timeout = "dead"
                \/ ~status.connected \/ ~Can!Silent(status)))

(* Shutting down completes although a browser may have stalled a broadcast.   *)
ShutdownCompletes == stop = "gather" ~> stop = "done"

(* "Web UI értesítése Linux gatewayen keresztül": a fault frame that reached  *)
(* the gateway's interface ends up in the status the browsers are sent.       *)
FaultReachesStatus ==
    \A f \in Frames : f.name = "fault" =>
        ((running /\ \E i \in DOMAIN canRx : canRx[i] = f)
            ~> (~running \/ status.fault = f.payload))

=============================================================================
