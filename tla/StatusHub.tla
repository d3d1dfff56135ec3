------------------------------ MODULE StatusHub ------------------------------
(* The live status stream of linux-gateway/app/main.py: the module-level set  *)
(* `websockets`, the /ws/status handler and broadcast_status.                 *)
(*                                                                            *)
(* Everything runs on one asyncio loop, so a step of this module is what runs *)
(* between two suspension points. broadcast_status iterates over the set      *)
(* itself and suspends inside the loop whenever a browser reads too slowly;   *)
(* meanwhile handlers add and discard sockets and another task may start a    *)
(* broadcast of its own. CPython compares the size of the set with the size   *)
(* it had when the iterator was made each time the loop asks for an element,  *)
(* and raises RuntimeError when they differ.                                  *)
EXTENDS Naturals, FiniteSets

CONSTANTS
    Sockets,       \* WebSocket objects: one for each connection ever opened
    Broadcasters,  \* the tasks that call broadcast_status
    NoSocket,      \* stands for "no socket"
    MaxPublished   \* bound: how many status changes are announced

ASSUME SocketsFinite == IsFiniteSet(Sockets)
ASSUME NoSocketIsNone == NoSocket \notin Sockets
ASSUME MaxPublishedNat == MaxPublished \in Nat

VARIABLES
    published,   \* announced changes so far: the version model_dump() reads
    websockets,  \* the set of registered sockets
    handler,     \* where the /ws/status coroutine of each socket is
    link,        \* each connection as its send sees it
    seen,        \* the version last written to each socket
    cast,        \* the broadcast_status call of each task
    gap          \* history: a broadcast may have left somebody out since the
                 \* latest one started

vars == <<published, websockets, handler, link, seen, cast, gap>>

(* `size` is the iterator's copy of the set's size, `ahead` the members it    *)
(* has still to reach, `at` the socket whose send is suspended, `wait` what   *)
(* became of that send, `dead` the list of the same name. `joined` is         *)
(* history: some socket registered during the iteration.                      *)
Cast == [on     : BOOLEAN,
         size   : Nat,
         ahead  : SUBSET Sockets,
         at     : Sockets \cup {NoSocket},
         wait   : {"none", "blocked", "sent", "failed"},
         dead   : SUBSET Sockets,
         joined : BOOLEAN]

Idle == [on |-> FALSE, size |-> 0, ahead |-> {}, at |-> NoSocket,
         wait |-> "none", dead |-> {}, joined |-> FALSE]

(* `for websocket in websockets` evaluated: a fresh iterator.                 *)
NewCast == [Idle EXCEPT !.on = TRUE, !.size = Cardinality(websockets),
                        !.ahead = websockets]

TypeOK ==
    /\ published \in Nat
    /\ websockets \in SUBSET Sockets
    /\ handler \in [Sockets -> {"none", "receive", "done"}]
    /\ link \in [Sockets -> {"open", "congested", "closed"}]
    /\ seen \in [Sockets -> Nat]
    /\ cast \in [Broadcasters -> Cast]
    /\ gap \in BOOLEAN

Init ==
    /\ published = 0
    /\ websockets = {}
    /\ handler = [s \in Sockets |-> "none"]
    /\ link = [s \in Sockets |-> "open"]
    /\ seen = [s \in Sockets |-> 0]
    /\ cast = [b \in Broadcasters |-> Idle]
    /\ gap = FALSE

-----------------------------------------------------------------------------
(* broadcast_status                                                           *)

Closed(S) == {s \in S : link[s] = "closed"}

(* What the sends to the sockets of S leave: each writes the status as it is  *)
(* at that moment, and the ones to a closed connection raise.                 *)
Write(S, now) ==
    [s \in Sockets |-> IF s \in S \ Closed(S) THEN now ELSE seen[s]]

(* websockets.discard(s) for s \in D. An iterator of another task no longer   *)
(* reaches them.                                                              *)
Discarded(D) == [b \in Broadcasters |-> [cast[b] EXCEPT !.ahead = @ \ D]]

(* The loop of call c runs until a send suspends: the sockets of S are passed *)
(* without a pause, then comes w, whose write buffer is full. The set's order *)
(* is arbitrary.                                                              *)
RunInto(b, c, now, g) ==
    \E w \in c.ahead : \E S \in SUBSET (c.ahead \ {w}) :
        /\ link[w] = "congested"
        /\ \A s \in S : link[s] # "congested"
        /\ seen' = Write(S \cup {w}, now)
        /\ cast' = [cast EXCEPT ![b] =
                       [c EXCEPT !.ahead = @ \ (S \cup {w}), !.at = w,
                                 !.wait = "blocked", !.dead = @ \cup Closed(S)]]
        /\ gap' = g
        /\ UNCHANGED <<websockets, handler, link>>

(* Mutant: only the sockets that failed after the last pause are discarded.   *)
RunOutForgetsDead(b, c, now, g) ==
    LET gone == Closed(c.ahead) IN
    /\ \A s \in c.ahead : link[s] # "congested"
    /\ seen' = Write(c.ahead, now)
    /\ websockets' = websockets \ gone
    /\ cast' = [Discarded(gone) EXCEPT ![b] = Idle]
    /\ gap' = (g \/ c.joined)
    /\ UNCHANGED <<handler, link>>

(* The loop of call c runs to its end and the dead sockets are discarded.     *)
RunOut(b, c, now, g) ==
    LET gone == c.dead \cup Closed(c.ahead) IN
    /\ \A s \in c.ahead : link[s] # "congested"
    /\ seen' = Write(c.ahead, now)
    /\ websockets' = websockets \ gone
    /\ cast' = [Discarded(gone) EXCEPT ![b] = Idle]
    /\ gap' = (g \/ c.joined)
    /\ UNCHANGED <<handler, link>>

(* _notify_status awaits broadcast_status(status): the call, up to its first  *)
(* suspension or to its return.                                               *)
Announce(b) ==
    /\ ~cast[b].on
    /\ published < MaxPublished
    /\ published' = published + 1

StartSuspends(b) == Announce(b) /\ RunInto(b, NewCast, published', FALSE)

StartReturns(b) == Announce(b) /\ RunOut(b, NewCast, published', FALSE)

(* The call of b after its suspended send: an exception of the send is        *)
(* caught and the socket goes to the dead list.                               *)
Woken(b) == cast[b].on /\ cast[b].wait \in {"sent", "failed"}

(* Mutant: the socket is put on the dead list after the loop moved on.        *)
ResumedForgetsSocket(b) ==
    [cast[b] EXCEPT !.at = NoSocket, !.wait = "none", !.dead = @ \cup {NoSocket}]

(* Mutant: a slow send counts as a failed one.                                *)
ResumedDropsSlow(b) ==
    [cast[b] EXCEPT !.at = NoSocket, !.wait = "none",
                    !.dead = @ \cup {cast[b].at}]

Resumed(b) ==
    [cast[b] EXCEPT !.at = NoSocket, !.wait = "none",
                    !.dead = IF cast[b].wait = "failed" THEN @ \cup {cast[b].at}
                                                        ELSE @]

SameSize(b) == Cardinality(websockets) = cast[b].size

ResumeSuspends(b) ==
    /\ Woken(b) /\ SameSize(b)
    /\ RunInto(b, Resumed(b), published, gap)
    /\ UNCHANGED published

(* Mutant: model_dump() is called once, before the loop, so a resumed call    *)
(* still sends the status as it was.                                          *)
ResumeReturnsSnapshot(b) ==
    /\ Woken(b) /\ SameSize(b)
    /\ RunOut(b, Resumed(b), published - 1, gap)
    /\ UNCHANGED published

ResumeReturns(b) ==
    /\ Woken(b) /\ SameSize(b)
    /\ RunOut(b, Resumed(b), published, gap)
    /\ UNCHANGED published

(* RuntimeError: Set changed size during iteration. It leaves                 *)
(* broadcast_status, and the dead sockets are not discarded.                  *)
ResumeRaises(b) ==
    /\ Woken(b) /\ ~SameSize(b)
    /\ cast' = [cast EXCEPT ![b] = Idle]
    /\ gap' = TRUE
    /\ UNCHANGED <<published, websockets, handler, link, seen>>

(* The task is cancelled while its send is suspended: CancelledError is not   *)
(* an Exception, so the except clause does not catch it.                      *)
CancelBroadcast(b) ==
    /\ cast[b].on
    /\ cast' = [cast EXCEPT ![b] = Idle]
    /\ gap' = TRUE
    /\ UNCHANGED <<published, websockets, handler, link, seen>>

-----------------------------------------------------------------------------
(* websocket_status                                                           *)

(* Mutant: the handler does not send the status when a browser connects.      *)
ConnectSilently(s) ==
    /\ handler[s] = "none"
    /\ handler' = [handler EXCEPT ![s] = "receive"]
    /\ websockets' = websockets \cup {s}
    /\ cast' = [b \in Broadcasters |-> [cast[b] EXCEPT !.joined = cast[b].on]]
    /\ UNCHANGED <<published, link, seen, gap>>

(* A browser connects: accept, add, and the first send_json, which fits the   *)
(* empty write buffer and so does not suspend. Adding may make CPython        *)
(* rebuild the table, after which a running iterator has any members ahead.   *)
Connect(s) ==
    /\ handler[s] = "none"
    /\ handler' = [handler EXCEPT ![s] = "receive"]
    /\ websockets' = websockets \cup {s}
    /\ seen' = [seen EXCEPT ![s] = published]
    /\ \E a \in [{b \in Broadcasters : cast[b].on} -> SUBSET websockets'] :
           cast' = [b \in Broadcasters |->
                       IF cast[b].on
                       THEN [cast[b] EXCEPT !.ahead = a[b], !.joined = TRUE]
                       ELSE cast[b]]
    /\ UNCHANGED <<published, link, gap>>

(* receive_text raises WebSocketDisconnect and the handler discards.          *)
HandlerLeaves(s) ==
    /\ handler[s] = "receive"
    /\ link[s] = "closed"
    /\ handler' = [handler EXCEPT ![s] = "done"]
    /\ websockets' = websockets \ {s}
    /\ cast' = Discarded({s})
    /\ UNCHANGED <<published, link, seen, gap>>

(* Any other end of the handler: receive_text raises KeyError for a binary    *)
(* message, or the handler is cancelled. Only WebSocketDisconnect is caught,  *)
(* so the socket stays in the set; uvicorn closes the connection later on.    *)
HandlerFails(s) ==
    /\ handler[s] = "receive"
    /\ handler' = [handler EXCEPT ![s] = "done"]
    /\ UNCHANGED <<published, websockets, link, seen, cast, gap>>

-----------------------------------------------------------------------------
(* The connections (uvicorn, TCP and the browser).                            *)

(* The browser stops reading and the write buffer fills.                      *)
Congest(s) ==
    /\ handler[s] # "none"
    /\ link[s] = "open"
    /\ link' = [link EXCEPT ![s] = "congested"]
    /\ UNCHANGED <<published, websockets, handler, seen, cast, gap>>

(* Mutant: a send is not woken when its connection ends.                      *)
WakeOnDrainOnly(s, how) ==
    cast' = [b \in Broadcasters |->
                IF cast[b].at = s /\ cast[b].wait = "blocked" /\ how = "sent"
                THEN [cast[b] EXCEPT !.wait = how] ELSE cast[b]]

(* A send suspended on s is completed; a later congestion of s does not       *)
(* suspend it again.                                                          *)
Wake(s, how) ==
    cast' = [b \in Broadcasters |->
                IF cast[b].at = s /\ cast[b].wait = "blocked"
                THEN [cast[b] EXCEPT !.wait = how] ELSE cast[b]]

Drain(s) ==
    /\ link[s] = "congested"
    /\ link' = [link EXCEPT ![s] = "open"]
    /\ Wake(s, "sent")
    /\ UNCHANGED <<published, websockets, handler, seen, gap>>

(* The connection ends: the browser leaves, the ping of uvicorn expires, or   *)
(* uvicorn closes it because its handler failed.                              *)
Close(s) ==
    /\ handler[s] # "none"
    /\ link[s] # "closed"
    /\ link' = [link EXCEPT ![s] = "closed"]
    /\ Wake(s, "failed")
    /\ UNCHANGED <<published, websockets, handler, seen, gap>>

-----------------------------------------------------------------------------
(* Specification                                                              *)

Start(b) == StartSuspends(b) \/ StartReturns(b)
Resume(b) == ResumeSuspends(b) \/ ResumeReturns(b) \/ ResumeRaises(b)
Connection(s) == Congest(s) \/ Drain(s) \/ Close(s)

Next ==
    \/ \E b \in Broadcasters : Start(b) \/ Resume(b) \/ CancelBroadcast(b)
    \/ \E s \in Sockets : Connect(s) \/ HandlerLeaves(s) \/ HandlerFails(s)
                             \/ Connection(s)

Spec == Init /\ [][Next]_vars

-----------------------------------------------------------------------------
(* Properties                                                                 *)

(* Nobody who is still there is dropped: while its handler waits in           *)
(* receive_text and the connection is not closed, a socket is registered,     *)
(* whatever broadcast_status put on its dead list.                            *)
LiveRegistered ==
    \A s \in Sockets :
        handler[s] = "receive" /\ link[s] # "closed" => s \in websockets

Quiet == \A b \in Broadcasters : ~cast[b].on

(* Once no broadcast_status call is in progress every live browser has been   *)
(* sent the latest announced status, unless a call ended in an exception or   *)
(* skipped somebody after sockets joined (and left) during its iteration, and *)
(* no broadcast has started since.                                            *)
Fresh ==
    Quiet /\ ~gap =>
        \A s \in Sockets :
            handler[s] = "receive" /\ link[s] # "closed" => seen[s] = published

(* A handler may fail and leave its socket in `websockets` for ever; what     *)
(* takes it out is the next broadcast. So unless a broadcast was lost, a      *)
(* registered socket whose connection is closed has missed no announcement    *)
(* yet: a call that ended normally left no unreachable socket behind, also    *)
(* when the connection ended while that or another call was suspended.        *)
UnreachableDropped ==
    Quiet /\ ~gap =>
        \A s \in websockets : link[s] = "closed" => seen[s] = published

(* What a browser is sent never goes back to an older status, although two    *)
(* tasks broadcast and each may be suspended in the middle of the loop.       *)
SentInOrder == [][\A s \in Sockets : seen'[s] >= seen[s]]_vars

=============================================================================
