---------------------------- MODULE GatewayProofs ----------------------------
(* The composition is one of its components: what the gateway does to its     *)
(* browsers is what StatusHub allows, what it does to its CAN bus is what     *)
(* CanService allows, and the two agree on which task is broadcasting.        *)
EXTENDS Gateway, TLAPS

(* The status stream with the theorems about it.                              *)
Stream == INSTANCE StatusHubProofs

LEMMA Tasks == "rx" \in Broadcasters /\ "timeout" \in Broadcasters
BY DEF Broadcasters

LEMMA CanVars == UNCHANGED canVars <=> UNCHANGED Can!vars
BY DEF canVars, Can!vars

-----------------------------------------------------------------------------
(* Each step of the gateway is one of the stream, or leaves it alone.         *)
LEMMA StreamStep == [Next]_vars => [Hub!Next]_hubVars
<1> SUFFICES ASSUME [Next]_vars PROVE [Hub!Next]_hubVars
  OBVIOUS
<1>1. CASE RxFrame
  BY <1>1, Tasks DEF RxFrame, Hub!Next, Hub!Start
<1>2. CASE SilenceAnnounced
  BY <1>2, Tasks DEF SilenceAnnounced, Hub!Next, Hub!Start
<1>3. ASSUME NEW b \in Broadcasters, Resume(b) PROVE Hub!Next
  BY <1>3 DEF Resume, Hub!Next, Hub!Resume
<1>4. ASSUME NEW b \in Broadcasters, Cancel(b) PROVE [Hub!Next]_hubVars
  BY <1>4 DEF Cancel, Hub!Next
<1>5. CASE CanOnly \/ RxDies
  BY <1>5 DEF CanOnly, RxDies
<1>6. CASE HubOnly
  BY <1>6 DEF HubOnly, Hub!Next
<1>7. CASE UNCHANGED vars
  BY <1>7 DEF vars
<1> QED BY <1>1, <1>2, <1>3, <1>4, <1>5, <1>6, <1>7 DEF Next, Working

(* main.py's on_startup puts broadcast_status in the CAN service's hands; the *)
(* stream stays what StatusHub says, so that all that is proved of any        *)
(* broadcasting tasks (nobody dropped, nobody left behind, nothing shown out  *)
(* of order) holds of these two, however they die or are cancelled.           *)
THEOREM StreamRefined == Spec => Hub!Spec
<1>1. Init => Hub!Init
  BY DEF Init
<1>2. [Next]_vars => [Hub!Next]_(Hub!vars)
  BY StreamStep DEF hubVars, Hub!vars
<1> QED BY <1>1, <1>2, PTL DEF Spec, Hub!Spec

(* Each step of the gateway is one of the CAN service, or leaves it alone.    *)
LEMMA ServiceStep == [Next]_vars => [Can!Next]_(Can!vars)
<1> SUFFICES ASSUME [Next]_vars PROVE [Can!Next]_(Can!vars)
  OBVIOUS
<1>1. CASE RxFrame
  <2>1. \E o \in Can!Outcomes : Can!RxApply(o)
    BY <1>1 DEF RxFrame, Can!Outcomes
  <2> QED BY <2>1 DEF Can!Next, Can!RxTask
<1>2. CASE SilenceAnnounced
  <2>1. \E o \in Can!Outcomes : Can!TimeoutFires(o)
    BY <1>2 DEF SilenceAnnounced, Can!Outcomes
  <2> QED BY <2>1 DEF Can!Next, Can!TimeoutTask
<1>3. ASSUME NEW b \in Broadcasters, Resume(b) PROVE Can!Next
  <2>1. \E o \in Can!Outcomes : Can!RxNotified(o) \/ Can!TimeoutNotified(o)
    BY <1>3 DEF Resume, Resumed, Can!Outcomes
  <2> QED BY <2>1 DEF Can!Next, Can!Callback
<1>4. ASSUME NEW b \in Broadcasters, Cancel(b) PROVE Can!Next
  BY <1>4 DEF Cancel, Can!Next, Can!Stopping
<1>5. CASE CanOnly
  BY <1>5 DEF CanOnly, Can!Next, Can!Stopping, Can!RxTask, Can!Environment
<1>6. CASE RxDies
  BY <1>6 DEF RxDies, Can!Next
<1>7. CASE HubOnly \/ UNCHANGED vars
  BY <1>7, CanVars DEF HubOnly, vars
<1> QED BY <1>1, <1>2, <1>3, <1>4, <1>5, <1>6, <1>7 DEF Next, Working

(* The CAN service stays what CanService says, its callback being one that    *)
(* may return, suspend for as long as it likes, or raise.                     *)
THEOREM ServiceRefined == Spec => Can!Init /\ [][Can!Next]_(Can!vars)
<1>1. Init => Can!Init
  BY DEF Init
<1> QED BY <1>1, ServiceStep, PTL DEF Spec

-----------------------------------------------------------------------------
(* What is proved of the status stream holds of the gateway. The stream the   *)
(* gateway is made of and the one the theorems are about are two instances of *)
(* the same module, and equal operation by operation.                         *)
LEMMA SameSizes == \A S : Hub!Cardinality(S) = Stream!Cardinality(S)
BY Zenon DEF Hub!Cardinality, Stream!Cardinality

LEMMA SameCasts ==
    ASSUME NEW b \in Broadcasters
    PROVE  /\ Hub!Start(b) => Stream!Start(b)
           /\ Hub!Resume(b) => Stream!Resume(b)
           /\ Hub!CancelBroadcast(b) => Stream!CancelBroadcast(b)
<1>1. Hub!Idle = Stream!Idle /\ Hub!NewCast = Stream!NewCast
  BY SameSizes, Zenon DEF Hub!Idle, Stream!Idle, Hub!NewCast, Stream!NewCast
<1>2. Hub!Resumed(b) = Stream!Resumed(b)
  BY DEF Hub!Resumed, Stream!Resumed
<1>3. \A S : Hub!Closed(S) = Stream!Closed(S)
  BY DEF Hub!Closed, Stream!Closed
<1>4. \A S, now : Hub!Write(S, now) = Stream!Write(S, now)
  BY <1>3 DEF Hub!Write, Stream!Write
<1>5. \A S : Hub!Discarded(S) = Stream!Discarded(S)
  BY DEF Hub!Discarded, Stream!Discarded
<1>6. \A c, now, g : Hub!RunInto(b, c, now, g) => Stream!RunInto(b, c, now, g)
  BY <1>3, <1>4, Zenon DEF Hub!RunInto, Stream!RunInto
<1>7. \A c, now, g : Hub!RunOut(b, c, now, g) => Stream!RunOut(b, c, now, g)
  BY <1>1, <1>3, <1>4, <1>5, Zenon DEF Hub!RunOut, Stream!RunOut
<1>8. Hub!Announce(b) => Stream!Announce(b)
  BY DEF Hub!Announce, Stream!Announce
<1>9. Hub!Start(b) => Stream!Start(b)
  BY <1>1, <1>6, <1>7, <1>8, Zenon
     DEF Hub!Start, Stream!Start, Hub!StartSuspends, Stream!StartSuspends,
         Hub!StartReturns, Stream!StartReturns
<1>10. Hub!Resume(b) => Stream!Resume(b)
  BY <1>1, <1>2, <1>6, <1>7, SameSizes, Zenon
     DEF Hub!Resume, Stream!Resume, Hub!ResumeSuspends, Stream!ResumeSuspends,
         Hub!ResumeReturns, Stream!ResumeReturns, Hub!ResumeRaises,
         Stream!ResumeRaises, Hub!Woken, Stream!Woken, Hub!SameSize,
         Stream!SameSize
<1>11. Hub!CancelBroadcast(b) => Stream!CancelBroadcast(b)
  BY <1>1, Zenon DEF Hub!CancelBroadcast, Stream!CancelBroadcast
<1>. QED BY <1>9, <1>10, <1>11

LEMMA SameBrowsers ==
    ASSUME NEW s \in Sockets
    PROVE  /\ Hub!Connect(s) => Stream!Connect(s)
           /\ Hub!HandlerLeaves(s) => Stream!HandlerLeaves(s)
           /\ Hub!HandlerFails(s) => Stream!HandlerFails(s)
           /\ Hub!Connection(s) => Stream!Connection(s)
<1>1. Hub!Connect(s) => Stream!Connect(s)
  BY Zenon DEF Hub!Connect, Stream!Connect
<1>2. Hub!HandlerLeaves(s) => Stream!HandlerLeaves(s)
  BY Zenon DEF Hub!HandlerLeaves, Stream!HandlerLeaves, Hub!Discarded,
               Stream!Discarded
<1>4. Hub!HandlerFails(s) => Stream!HandlerFails(s)
  BY Zenon DEF Hub!HandlerFails, Stream!HandlerFails
<1>3. Hub!Connection(s) => Stream!Connection(s)
  BY Zenon DEF Hub!Connection, Stream!Connection, Hub!Congest, Stream!Congest,
               Hub!Drain, Stream!Drain, Hub!Close, Stream!Close,
               Hub!Wake, Stream!Wake
<1>. QED BY <1>1, <1>2, <1>3, <1>4

LEMMA SameStream == Hub!Spec => Stream!Spec
<1>1. Hub!Init => Stream!Init
  BY DEF Hub!Init, Stream!Init, Hub!Idle, Stream!Idle
<1>2. Hub!Next => Stream!Next
  BY SameCasts, SameBrowsers, Zenon DEF Hub!Next, Stream!Next
<1>3. Hub!vars = Stream!vars
  BY DEF Hub!vars, Stream!vars
<1>4. [Hub!Next]_(Hub!vars) => [Stream!Next]_(Stream!vars)
  BY <1>2 DEF Hub!vars, Stream!vars
<1>. QED BY <1>1, <1>4, PTL DEF Hub!Spec, Stream!Spec

LEMMA StreamAssumed ==
    /\ Stream!IsFiniteSet(Sockets)
    /\ NoSocket \notin Sockets
    /\ MaxPublished \in Nat
BY BrowsersFinite, Zenon DEF IsFiniteSet, Stream!IsFiniteSet

(* However the rx and timeout tasks of the CAN service take turns in          *)
(* broadcast_status, suspend, die or are cancelled: once both are between     *)
(* broadcasts, a live browser shows the latest status, or a broadcast was     *)
(* lost and none has started since. For any number of browsers and frames.    *)
THEOREM LatestIsShown == Spec => []Hub!Fresh
<1>1. Stream!Fresh => Hub!Fresh
  BY DEF Hub!Fresh, Stream!Fresh, Hub!Quiet, Stream!Quiet
<1>2. Stream!Spec => []Stream!Fresh
  BY StreamAssumed, Stream!LatestStatusDelivered, PTL
<1>. QED BY <1>1, <1>2, StreamRefined, SameStream, PTL

(* No browser is ever sent an older status than the one it shows, although    *)
(* two tasks of the service send to it.                                       *)
THEOREM ShownForward == Spec => Hub!SentInOrder
<1>1. [\A s \in Sockets : seen'[s] >= seen[s]]_(Stream!vars)
          => [\A s \in Sockets : seen'[s] >= seen[s]]_(Hub!vars)
  BY DEF Hub!vars, Stream!vars
<1>2. Stream!Spec => Stream!SentInOrder
  BY StreamAssumed, Stream!NeverBackwards, PTL
<1>. QED
  BY <1>1, <1>2, StreamRefined, SameStream, PTL
     DEF Hub!SentInOrder, Stream!SentInOrder

(* A browser whose handler waits and whose connection is not closed stays     *)
(* registered, whichever task of the service found another one dead.          *)
THEOREM NoBrowserDropped == Spec => []Hub!LiveRegistered
<1>1. Stream!LiveRegistered => Hub!LiveRegistered
  BY DEF Hub!LiveRegistered, Stream!LiveRegistered
<1>2. Stream!Spec => []Stream!LiveRegistered
  BY StreamAssumed, Stream!NobodyDropped, PTL
<1>. QED BY <1>1, <1>2, StreamRefined, SameStream, PTL

(* However its handler ended, a socket whose connection is closed outlasts no *)
(* broadcast of either task that was not lost.                                *)
THEOREM UnreachableGo == Spec => []Hub!UnreachableDropped
<1>1. Stream!UnreachableDropped => Hub!UnreachableDropped
  BY DEF Hub!UnreachableDropped, Stream!UnreachableDropped, Hub!Quiet, Stream!Quiet
<1>2. Stream!Spec => []Stream!UnreachableDropped
  BY StreamAssumed, Stream!UnreachableLeave, PTL
<1>. QED BY <1>1, <1>2, StreamRefined, SameStream, PTL

-----------------------------------------------------------------------------
(* Calls and tasks                                                            *)

(* A record of a call for either task; only whether it is on matters here.    *)
Calls ==
    /\ cast = [b \in Broadcasters |-> cast[b]]
    /\ \A b \in Broadcasters : "on" \in DOMAIN cast[b]

(* Before it is started the service has no tasks.                             *)
NoTasksYet == ~running /\ stop = "no" => rx = "off" /\ timeout = "off"

CallInv == Calls /\ NoTasksYet /\ CallBelongsToTask

(* After the step, the call of b is on or not, the other one as before.       *)
LeavesCall(b, on) ==
    /\ Calls'
    /\ cast'[b].on = on
    /\ \A x \in Broadcasters \ {b} : cast'[x].on = cast[x].on

LEMMA RunIntoLeaves ==
    ASSUME Calls, NEW b \in Broadcasters, NEW c, NEW now, NEW g,
           "on" \in DOMAIN c, c.on = TRUE, Hub!RunInto(b, c, now, g)
    PROVE  LeavesCall(b, TRUE)
<1>1. PICK w \in c.ahead : \E S \in SUBSET (c.ahead \ {w}) :
        cast' = [cast EXCEPT ![b] =
                    [c EXCEPT !.ahead = @ \ (S \cup {w}), !.at = w,
                              !.wait = "blocked", !.dead = @ \cup Hub!Closed(S)]]
  BY DEF Hub!RunInto
<1>2. PICK S \in SUBSET (c.ahead \ {w}) :
        cast' = [cast EXCEPT ![b] =
                    [c EXCEPT !.ahead = @ \ (S \cup {w}), !.at = w,
                              !.wait = "blocked", !.dead = @ \cup Hub!Closed(S)]]
  BY <1>1
<1> DEFINE d == [c EXCEPT !.ahead = @ \ (S \cup {w}), !.at = w,
                          !.wait = "blocked", !.dead = @ \cup Hub!Closed(S)]
<1>3. "on" \in DOMAIN d /\ d.on = TRUE
  OBVIOUS
<1>4. cast' = [cast EXCEPT ![b] = d]
  BY <1>2
<1> HIDE DEF d
<1> QED BY <1>3, <1>4 DEF Calls, LeavesCall

LEMMA EndLeaves ==
    ASSUME Calls, NEW b \in Broadcasters, NEW D,
           cast' = [Hub!Discarded(D) EXCEPT ![b] = Hub!Idle]
    PROVE  LeavesCall(b, FALSE)
<1>1. "on" \in DOMAIN Hub!Idle /\ Hub!Idle.on = FALSE
  BY DEF Hub!Idle
<1>2. \A x \in Broadcasters :
        /\ "on" \in DOMAIN [cast[x] EXCEPT !.ahead = @ \ D]
        /\ [cast[x] EXCEPT !.ahead = @ \ D].on = cast[x].on
  BY DEF Calls
<1>3. cast' = [x \in Broadcasters |->
                 IF x = b THEN Hub!Idle ELSE [cast[x] EXCEPT !.ahead = @ \ D]]
  BY DEF Hub!Discarded
<1> QED BY <1>1, <1>2, <1>3 DEF Calls, LeavesCall

LEMMA DropLeaves ==
    ASSUME Calls, NEW b \in Broadcasters, cast' = [cast EXCEPT ![b] = Hub!Idle]
    PROVE  LeavesCall(b, FALSE)
  BY DEF Hub!Idle, Calls, LeavesCall

LEMMA StreamLeaves ==
    ASSUME Calls, NEW b \in Broadcasters
    PROVE  /\ Hub!StartReturns(b) => LeavesCall(b, FALSE)
           /\ Hub!StartSuspends(b) => LeavesCall(b, TRUE)
           /\ Hub!ResumeReturns(b) => LeavesCall(b, FALSE)
           /\ Hub!ResumeSuspends(b) => LeavesCall(b, TRUE)
           /\ Hub!ResumeRaises(b) => LeavesCall(b, FALSE)
           /\ Hub!CancelBroadcast(b) => LeavesCall(b, FALSE)
<1>1. "on" \in DOMAIN Hub!NewCast /\ Hub!NewCast.on = TRUE
  BY DEF Hub!NewCast, Hub!Idle
<1>2. "on" \in DOMAIN Hub!Resumed(b) /\ Hub!Resumed(b).on = cast[b].on
  BY DEF Hub!Resumed, Calls
<1>3. Hub!StartReturns(b) => LeavesCall(b, FALSE)
  BY EndLeaves DEF Hub!StartReturns, Hub!RunOut
<1>4. Hub!StartSuspends(b) => LeavesCall(b, TRUE)
  BY <1>1, RunIntoLeaves DEF Hub!StartSuspends
<1>5. Hub!ResumeReturns(b) => LeavesCall(b, FALSE)
  BY EndLeaves DEF Hub!ResumeReturns, Hub!RunOut
<1>6. Hub!ResumeSuspends(b) => LeavesCall(b, TRUE)
  BY <1>2, RunIntoLeaves DEF Hub!ResumeSuspends, Hub!Woken
<1>7. Hub!ResumeRaises(b) \/ Hub!CancelBroadcast(b) => LeavesCall(b, FALSE)
  BY DropLeaves DEF Hub!ResumeRaises, Hub!CancelBroadcast
<1> QED BY <1>3, <1>4, <1>5, <1>6, <1>7

(* Browsers come, go and stall without ending or beginning a call.            *)
LEMMA BrowsersLeave ==
    ASSUME Calls, HubOnly
    PROVE  Calls' /\ \A x \in Broadcasters : cast'[x].on = cast[x].on
<1>1. PICK s \in Sockets :
        \/ Hub!Connect(s) \/ Hub!HandlerLeaves(s) \/ Hub!HandlerFails(s)
        \/ Hub!Connection(s)
  BY DEF HubOnly
<1>2. CASE Hub!Connect(s)
  BY <1>2 DEF Hub!Connect, Calls
<1>3. CASE Hub!HandlerLeaves(s)
  BY <1>3 DEF Hub!HandlerLeaves, Hub!Discarded, Calls
<1>5. CASE Hub!HandlerFails(s)
  BY <1>5 DEF Hub!HandlerFails, Calls
<1>4. CASE Hub!Connection(s)
  BY <1>4 DEF Hub!Connection, Hub!Congest, Hub!Drain, Hub!Close, Hub!Wake, Calls
<1> QED BY <1>1, <1>2, <1>3, <1>4, <1>5

-----------------------------------------------------------------------------
LEMMA CallsBegin == Init => CallInv
  BY DEF Init, Can!Init, Hub!Init, Hub!Idle, CallInv, Calls, NoTasksYet,
         CallBelongsToTask, Broadcasters

LEMMA FrameKeeps == CallInv /\ (RxFrame \/ SilenceAnnounced) => CallInv'
<1> SUFFICES ASSUME CallInv, RxFrame \/ SilenceAnnounced PROVE CallInv'
  OBVIOUS
<1>1. CASE RxFrame
  <2>1. NoTasksYet' /\ timeout' = timeout
    BY <1>1 DEF RxFrame, Can!RxApply, NoTasksYet
  <2>2. \/ rx' = "recv" /\ LeavesCall("rx", FALSE)
        \/ rx' = "notify" /\ LeavesCall("rx", TRUE)
    BY <1>1, Tasks, StreamLeaves
       DEF RxFrame, Can!RxApply, Can!After, CallInv
  <2> QED BY <2>1, <2>2, Tasks
          DEF CallInv, CallBelongsToTask, LeavesCall
<1>2. CASE SilenceAnnounced
  <2>1. NoTasksYet' /\ rx' = rx
    BY <1>2 DEF SilenceAnnounced, Can!TimeoutFires, NoTasksYet
  <2>2. \/ timeout' = "sleep" /\ LeavesCall("timeout", FALSE)
        \/ timeout' = "notify" /\ LeavesCall("timeout", TRUE)
    BY <1>2, Tasks, StreamLeaves
       DEF SilenceAnnounced, Can!TimeoutFires, Can!After, CallInv
  <2> QED BY <2>1, <2>2, Tasks
          DEF CallInv, CallBelongsToTask, LeavesCall
<1> QED BY <1>1, <1>2

LEMMA ResumeKeeps ==
    ASSUME CallInv, NEW b \in Broadcasters, Resume(b)
    PROVE  CallInv'
<1>1. CASE b = "rx"
  <2>1. NoTasksYet' /\ timeout' = timeout
    BY <1>1 DEF Resume, Resumed, Can!RxNotified, NoTasksYet
  <2>2. \/ rx' \in {"recv", "dead"} /\ LeavesCall("rx", FALSE)
        \/ rx' = "notify" /\ LeavesCall("rx", TRUE)
    BY <1>1, StreamLeaves
       DEF Resume, Resumed, Can!RxNotified, Can!After, CallInv
  <2> QED BY <2>1, <2>2, Tasks
          DEF CallInv, CallBelongsToTask, LeavesCall
<1>2. CASE b = "timeout"
  <2>1. NoTasksYet' /\ rx' = rx
    BY <1>2 DEF Resume, Resumed, Can!TimeoutNotified, NoTasksYet
  <2>2. \/ timeout' \in {"sleep", "dead"} /\ LeavesCall("timeout", FALSE)
        \/ timeout' = "notify" /\ LeavesCall("timeout", TRUE)
    BY <1>2, StreamLeaves
       DEF Resume, Resumed, Can!TimeoutNotified, Can!After, CallInv
  <2> QED BY <2>1, <2>2, Tasks
          DEF CallInv, CallBelongsToTask, LeavesCall
<1> QED BY <1>1, <1>2 DEF Broadcasters

LEMMA CancelKeeps ==
    ASSUME CallInv, NEW b \in Broadcasters, Cancel(b)
    PROVE  CallInv'
<1>1. LeavesCall(b, FALSE)
  <2>1. CASE cast[b].on
    BY <2>1, StreamLeaves DEF Cancel, CallInv
  <2>2. CASE ~cast[b].on
    BY <2>2, Tasks DEF Cancel, hubVars, CallInv, Calls, CallBelongsToTask,
                       LeavesCall, Broadcasters
  <2> QED BY <2>1, <2>2
<1>2. CASE b = "rx"
  <2>1. NoTasksYet' /\ timeout' = timeout /\ rx' # "notify"
    BY <1>2 DEF Cancel, Can!CancelRx, NoTasksYet
  <2> QED BY <1>1, <1>2, <2>1, Tasks
          DEF CallInv, CallBelongsToTask, LeavesCall
<1>3. CASE b = "timeout"
  <2>1. NoTasksYet' /\ rx' = rx /\ timeout' = "cancelled"
    BY <1>3 DEF Cancel, Can!CancelTimeout, NoTasksYet
  <2> QED BY <1>1, <1>3, <2>1, Tasks
          DEF CallInv, CallBelongsToTask, LeavesCall
<1> QED BY <1>2, <1>3 DEF Broadcasters

LEMMA ServiceKeeps == CallInv /\ (CanOnly \/ RxDies) => CallInv'
<1> SUFFICES ASSUME CallInv, CanOnly \/ RxDies PROVE CallInv'
  OBVIOUS
<1>1. cast' = cast
  BY DEF CanOnly, RxDies, hubVars
<1>2. CASE Can!Start
  BY <1>1, <1>2 DEF Can!Start, CallInv, Calls, NoTasksYet, CallBelongsToTask
<1>3. CASE Can!RxReceive \/ Can!RxIgnore \/ Can!ThreadReturns \/ RxDies
  BY <1>1, <1>3 DEF Can!RxReceive, Can!RxIgnore, Can!ThreadReturns, RxDies,
                    Can!RxError, CallInv, Calls, NoTasksYet, CallBelongsToTask
<1>4. CASE Can!StopBegin \/ Can!CancelHeartbeat \/ Can!StopEnd
  BY <1>1, <1>4 DEF Can!StopBegin, Can!CancelHeartbeat, Can!StopEnd, CallInv,
                    Calls, NoTasksYet, CallBelongsToTask
<1>5. CASE UNCHANGED <<running, stop, rx, timeout>>
  BY <1>1, <1>5 DEF CallInv, Calls, NoTasksYet, CallBelongsToTask
<1>6. CASE \/ Can!Heartbeat \/ Can!Api \/ Can!Tick \/ Can!BusTransmits
           \/ \E f \in Frames : Can!BusDelivers(f)
  BY <1>5, <1>6 DEF Can!Heartbeat, Can!Api, Can!CommandSent, Can!CommandFails,
                    Can!Tick, Can!BusTransmits, Can!BusDelivers
<1> QED BY <1>2, <1>3, <1>4, <1>6 DEF CanOnly

(* A task of the CAN service waits in the callback exactly while its          *)
(* broadcast_status call is suspended, for any browsers and frames: no call   *)
(* outlives its task, and none is lost by it.                                 *)
THEOREM CallsBelong == Spec => []CallBelongsToTask
<1>1. CallInv /\ [Next]_vars => CallInv'
  <2> SUFFICES ASSUME CallInv, [Next]_vars PROVE CallInv'
    OBVIOUS
  <2>1. CASE HubOnly
    BY <2>1, BrowsersLeave, Tasks
       DEF HubOnly, canVars, CallInv, NoTasksYet, CallBelongsToTask
  <2>2. CASE UNCHANGED vars
    BY <2>2 DEF vars, canVars, hubVars, CallInv, Calls, NoTasksYet,
                CallBelongsToTask
  <2> QED BY <2>1, <2>2, FrameKeeps, ResumeKeeps, CancelKeeps, ServiceKeeps
          DEF Next, Working
<1>2. CallInv => CallBelongsToTask
  BY DEF CallInv
<1> QED BY <1>1, <1>2, CallsBegin, PTL DEF Spec

=============================================================================
