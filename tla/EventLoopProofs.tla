--------------------------- MODULE EventLoopProofs ---------------------------
(* How many handlers can hold up a heartbeat or an emergency stop, for any    *)
(* connections and any times; that this is so while job statuses are written; *)
(* and what these writes do to one another.                                   *)
EXTENDS JobStatus, TLAPS

-----------------------------------------------------------------------------
(* The inductive invariant. What is due and not yet taken into an iteration   *)
(* has seen the end of one handler of a connection, and of none that is still *)
(* to run in this iteration; what has been taken, of one more.                *)
Once(c) == IF c \in batch THEN 0 ELSE 1

HeartbeatBound ==
    /\ heartbeat = "ready" => timer = 0
    /\ \A c \in Clients :
         /\ timer > 0 => beforeBeat[c] = 0
         /\ heartbeat = "asleep" => beforeBeat[c] <= Once(c)
         /\ heartbeat = "ready" => beforeBeat[c] <= Once(c) + 1

StopBound ==
    \A c \in Clients :
        /\ Operator \in waiting => beforeStop[c] <= Once(c)
        /\ Operator \in batch => beforeStop[c] <= Once(c) + 1
        /\ Operator \notin waiting \cup batch => beforeStop[c] = 0

Disjoint == waiting \cap batch = {}

IInv == TypeOK /\ Disjoint /\ HeartbeatBound /\ StopBound

-----------------------------------------------------------------------------
LEMMA TypeStep ==
    ASSUME TypeOK, Disjoint, [LoopNext]_loopVars
    PROVE  TypeOK' /\ Disjoint'
<1> USE DEF TypeOK, Disjoint, Blocked, histories
<1>1. ASSUME NEW c \in Clients \cup {Operator}, Arrive(c) PROVE TypeOK' /\ Disjoint'
  BY <1>1 DEF Arrive
<1>2. ASSUME Poll PROVE TypeOK' /\ Disjoint'
  BY <1>2 DEF Poll
<1>3. ASSUME NEW c \in Clients, NEW n \in 1 .. MaxRequests, Begin(c, n)
      PROVE  TypeOK' /\ Disjoint'
  BY <1>3, TimesNat DEF Begin
<1>4. ASSUME NextRequest PROVE TypeOK' /\ Disjoint'
  <2>1. /\ call.left \in 0 .. MaxRequests /\ call.left > 1
        /\ call.client \in batch \cap Clients
    BY <1>4, TimesNat DEF NextRequest
  <2>2. call' = [client |-> call.client, left |-> call.left - 1]
    BY <1>4 DEF NextRequest
  <2>3. call.left - 1 \in 0 .. MaxRequests
    BY <2>1, TimesNat
  <2> QED BY <1>4, <2>1, <2>2, <2>3 DEF NextRequest
(* The end of a handler, whichever kind.                                      *)
<1>E. ASSUME NEW c \in batch \cap Clients, Ended(c)
      PROVE  /\ beforeBeat' \in [Clients -> Nat] /\ beforeStop' \in [Clients -> Nat]
             /\ batch' = batch \ {c}
             /\ UNCHANGED <<sinceBeat, timer, heartbeat, waiting, answer>>
  <2>1. beforeBeat[c] + 1 \in Nat /\ beforeStop[c] + 1 \in Nat
    OBVIOUS
  <2> QED BY <1>E, <2>1 DEF Ended
<1>5. ASSUME HandlerDone PROVE TypeOK' /\ Disjoint'
  <2>1. call.client \in batch \cap Clients /\ Ended(call.client) /\ call' = Idle
    BY <1>5 DEF HandlerDone
  <2>2. Idle.left = 0 /\ Idle \in [client : Clients \cup {Operator}, left : 0 .. MaxRequests]
    BY TimesNat DEF Idle
  <2> QED BY <1>E, <2>1, <2>2
<1>6. ASSUME NEW c \in Clients, NoRequest(c) PROVE TypeOK' /\ Disjoint'
  <2>1. c \in batch \cap Clients /\ Ended(c) /\ call' = call /\ ~(call.left > 0)
    BY <1>6 DEF NoRequest
  <2> QED BY <1>E, <2>1
<1>7. ASSUME SendStop PROVE TypeOK' /\ Disjoint'
  BY <1>7 DEF SendStop, NoneBefore
<1>8. ASSUME SendHeartbeat PROVE TypeOK' /\ Disjoint'
  BY <1>8, TimesNat DEF SendHeartbeat, NoneBefore
<1>9. ASSUME Tick PROVE TypeOK' /\ Disjoint'
  <2>1. sinceBeat' \in 0 .. Watchdog + 1 /\ timer' \in 0 .. Period
    BY <1>9, TimesNat DEF Tick
  <2> QED BY <1>9, <2>1 DEF Tick
<1>10. ASSUME UNCHANGED loopVars PROVE TypeOK' /\ Disjoint'
  BY <1>10 DEF loopVars
<1> QED BY <1>1, <1>2, <1>3, <1>4, <1>5, <1>6, <1>7, <1>8, <1>9, <1>10
        DEF LoopNext

(* A handler that ends leaves the iteration and counts once for its           *)
(* connection, and for no other.                                              *)
LEMMA EndCounts ==
    ASSUME IInv, NEW c \in batch \cap Clients, Ended(c)
    PROVE  HeartbeatBound' /\ StopBound'
<1>1. /\ beforeBeat \in [Clients -> Nat] /\ beforeStop \in [Clients -> Nat]
      /\ timer \in Nat /\ heartbeat \in {"asleep", "ready"} /\ c # Operator
  BY TimesNat, OperatorIsNoClient DEF IInv, TypeOK
<1>2. batch' = batch \ {c} /\ UNCHANGED <<timer, heartbeat, waiting>>
  BY DEF Ended
<1>3. /\ Once(c) = 0 /\ Once(c)' = 1
      /\ \A d \in Clients \ {c} : Once(d)' = Once(d)
      /\ \A d \in Clients : Once(d) \in {0, 1}
  BY <1>2 DEF Once
<1>4. HeartbeatBound'
  <2>1. CASE timer = 0
    <3>1. beforeBeat' = [beforeBeat EXCEPT ![c] = @ + 1]
      BY <2>1 DEF Ended
    <3> QED BY <1>1, <1>2, <1>3, <2>1, <3>1 DEF IInv, HeartbeatBound
  <2>2. CASE timer # 0
    <3>1. beforeBeat' = beforeBeat
      BY <2>2 DEF Ended
    <3> QED BY <1>1, <1>2, <1>3, <2>2, <3>1 DEF IInv, HeartbeatBound
  <2> QED BY <2>1, <2>2
<1>5. StopBound'
  <2>1. Operator \in waiting' \cup batch' <=> Operator \in waiting \cup batch
    BY <1>1, <1>2
  <2>2. CASE Operator \in waiting \cup batch
    <3>1. beforeStop' = [beforeStop EXCEPT ![c] = @ + 1]
      BY <2>2 DEF Ended
    <3> QED BY <1>1, <1>2, <1>3, <2>1, <2>2, <3>1 DEF IInv, StopBound
  <2>3. CASE Operator \notin waiting \cup batch
    <3>1. beforeStop' = beforeStop
      BY <2>3 DEF Ended
    <3> QED BY <1>1, <1>2, <2>1, <2>3, <3>1 DEF IInv, StopBound
  <2> QED BY <2>2, <2>3
<1> QED BY <1>4, <1>5

(* Every step keeps the two bounds.                                           *)
LEMMA BoundStep ==
    ASSUME IInv, [LoopNext]_loopVars
    PROVE  HeartbeatBound' /\ StopBound'
<1>0. /\ beforeBeat \in [Clients -> Nat] /\ beforeStop \in [Clients -> Nat]
      /\ timer \in Nat /\ heartbeat \in {"asleep", "ready"}
      /\ \A c \in Clients : Once(c) \in {0, 1} /\ c # Operator
  BY TimesNat, OperatorIsNoClient DEF IInv, TypeOK, Once
<1>S. ASSUME UNCHANGED <<waiting, batch, timer, heartbeat, histories>>
      PROVE  HeartbeatBound' /\ StopBound'
  BY <1>S DEF IInv, HeartbeatBound, StopBound, Once, histories
<1>1. ASSUME NEW c \in Clients \cup {Operator}, Arrive(c)
      PROVE  HeartbeatBound' /\ StopBound'
  <2>1. /\ UNCHANGED <<batch, timer, heartbeat, beforeBeat, beforeStop>>
        /\ waiting' = waiting \cup {c} /\ c \notin batch
    BY <1>1 DEF Arrive, histories
  <2>2. HeartbeatBound'
    BY <2>1 DEF IInv, HeartbeatBound, Once
  <2>3. StopBound'
    BY <1>0, <2>1 DEF IInv, StopBound, Once
  <2> QED BY <2>2, <2>3
<1>2. ASSUME Poll PROVE HeartbeatBound' /\ StopBound'
  <2>1. /\ batch = {} /\ heartbeat = "asleep" /\ batch' = waiting /\ waiting' = {}
        /\ UNCHANGED <<timer, beforeBeat, beforeStop>>
        /\ heartbeat' = IF timer = 0 THEN "ready" ELSE "asleep"
    BY <1>2 DEF Poll, histories
  <2>2. \A c \in Clients : Once(c) = 1 /\ Once(c)' \in {0, 1}
    BY <2>1 DEF Once
  <2>3. HeartbeatBound'
    BY <1>0, <2>1, <2>2 DEF IInv, HeartbeatBound
  <2>4. StopBound'
    BY <1>0, <2>1, <2>2 DEF IInv, StopBound
  <2> QED BY <2>3, <2>4
<1>3. ASSUME NEW c \in Clients, NEW n \in 1 .. MaxRequests, Begin(c, n)
      PROVE  HeartbeatBound' /\ StopBound'
  BY <1>3, <1>S DEF Begin
<1>4. ASSUME NextRequest PROVE HeartbeatBound' /\ StopBound'
  BY <1>4, <1>S DEF NextRequest
<1>5. ASSUME HandlerDone PROVE HeartbeatBound' /\ StopBound'
  <2>1. call.client \in batch \cap Clients /\ Ended(call.client)
    BY <1>5 DEF HandlerDone, IInv, TypeOK
  <2> QED BY <2>1, EndCounts
<1>6. ASSUME NEW c \in Clients, NoRequest(c)
      PROVE  HeartbeatBound' /\ StopBound'
  <2>1. c \in batch \cap Clients /\ Ended(c)
    BY <1>6 DEF NoRequest
  <2> QED BY <2>1, EndCounts
<1>7. ASSUME SendStop PROVE HeartbeatBound' /\ StopBound'
  <2>1. /\ Operator \in batch /\ batch' = batch \ {Operator} /\ waiting' = waiting
        /\ UNCHANGED <<timer, heartbeat, beforeBeat>> /\ beforeStop' = NoneBefore
    BY <1>7 DEF SendStop
  <2>2. Operator \notin waiting' \cup batch'
    BY <2>1 DEF IInv, Disjoint
  <2>3. \A c \in Clients : Once(c)' = Once(c)
    BY <1>0, <2>1 DEF Once
  <2>4. HeartbeatBound'
    BY <2>1, <2>3 DEF IInv, HeartbeatBound
  <2>5. StopBound'
    BY <2>1, <2>2 DEF StopBound, NoneBefore
  <2> QED BY <2>4, <2>5
<1>8. ASSUME SendHeartbeat PROVE HeartbeatBound' /\ StopBound'
  <2>1. /\ heartbeat' = "asleep" /\ beforeBeat' = NoneBefore
        /\ UNCHANGED <<waiting, batch, beforeStop>>
    BY <1>8 DEF SendHeartbeat
  <2>2. \A c \in Clients : Once(c)' = Once(c)
    BY <2>1 DEF Once
  <2>3. HeartbeatBound'
    BY <1>0, <2>1, <2>2 DEF HeartbeatBound, NoneBefore
  <2>4. StopBound'
    BY <2>1, <2>2 DEF IInv, StopBound
  <2> QED BY <2>3, <2>4
<1>9. ASSUME Tick PROVE HeartbeatBound' /\ StopBound'
  <2>1. /\ UNCHANGED <<heartbeat, waiting, batch, beforeBeat, beforeStop>>
        /\ timer' = IF timer > 0 THEN timer - 1 ELSE 0
    BY <1>9 DEF Tick, histories
  <2>2. timer' \in Nat /\ (timer' > 0 => timer > 0) /\ (timer = 0 => timer' = 0)
    BY <1>0, <2>1
  <2>3. \A c \in Clients : Once(c)' = Once(c)
    BY <2>1 DEF Once
  <2>4. HeartbeatBound'
    BY <2>1, <2>2, <2>3 DEF IInv, HeartbeatBound
  <2>5. StopBound'
    BY <2>1, <2>3 DEF IInv, StopBound
  <2> QED BY <2>4, <2>5
<1>10. ASSUME UNCHANGED loopVars PROVE HeartbeatBound' /\ StopBound'
  BY <1>10, <1>S DEF loopVars
<1> QED BY <1>1, <1>2, <1>3, <1>4, <1>5, <1>6, <1>7, <1>8, <1>9, <1>10
        DEF LoopNext

-----------------------------------------------------------------------------
(* The count is inductive: it holds at the start and every step of the loop   *)
(* keeps it, whatever time passes meanwhile.                                  *)
THEOREM Invariance == LoopSpec => []IInv
<1>1. LoopInit => IInv
  <2>1. LoopInit => TypeOK /\ Disjoint
    BY TimesNat DEF LoopInit, TypeOK, Disjoint, Idle, Blocked, NoneBefore
  <2> QED BY <2>1, TimesNat
          DEF LoopInit, IInv, HeartbeatBound, StopBound, Once, NoneBefore
<1>2. IInv /\ [LoopNext]_loopVars => IInv'
  BY TypeStep, BoundStep DEF IInv
<1> QED BY <1>1, <1>2, PTL DEF LoopSpec

(* The clock, the heartbeat, the requests and the handler keep their types,   *)
(* whatever the times: in particular the blocking handler is always one of    *)
(* this iteration's, and the heartbeat's sleep is never over twice.           *)
THEOREM TypeCorrect == LoopSpec => []TypeOK
BY Invariance, PTL DEF IInv

(* However many connections there are, however many requests each makes and   *)
(* however long they take, the heartbeat of _heartbeat_loop, once due, waits  *)
(* for no more than two handlers of any of them.                              *)
THEOREM HeartbeatGap == LoopSpec => []GapBounded
<1>1. IInv => GapBounded
  <2> SUFFICES ASSUME IInv, NEW c \in Clients PROVE beforeBeat[c] <= 2
    BY DEF GapBounded
  <2>1. /\ beforeBeat[c] \in Nat /\ Once(c) \in {0, 1}
        /\ heartbeat \in {"asleep", "ready"}
    BY DEF IInv, TypeOK, Once
  <2> QED BY <2>1 DEF IInv, HeartbeatBound
<1> QED BY <1>1, Invariance, PTL

(* An emergency stop that has reached the gateway waits for no more than two  *)
(* handlers of any connection before it is sent or fails.                     *)
THEOREM StopWaits == LoopSpec => []StopBounded
<1>1. IInv => StopBounded
  <2> SUFFICES ASSUME IInv, NEW c \in Clients PROVE beforeStop[c] <= 2
    BY DEF StopBounded
  <2>1. beforeStop[c] \in Nat /\ Once(c) \in {0, 1}
    BY DEF IInv, TypeOK, Once
  <2> QED BY <2>1 DEF IInv, StopBound
<1> QED BY <1>1, Invariance, PTL

-----------------------------------------------------------------------------
(* JobStatus                                                                  *)

(* Every step of an update, and of ERPNext and its users, is one of the loop  *)
(* or takes none of its time.                                                 *)
LEMMA StepOfLoop == [Next]_allVars => [LoopNext]_loopVars
<1> SUFFICES ASSUME [Next]_allVars PROVE [LoopNext]_loopVars
  OBVIOUS
<1>1. ASSUME NEW c \in Clients, NEW type \in Types, Ask(c, type)
      PROVE  LoopNext
  BY <1>1 DEF Ask, LoopNext
<1>2. ASSUME NEW c \in Clients \cup {Operator}, OtherArrives(c) PROVE LoopNext
  BY <1>2 DEF OtherArrives, LoopNext
<1>3. ASSUME Served PROVE LoopNext
  <2>1. 2 \in 1 .. MaxRequests
    BY StatusTakesTwo, TimesNat
  <2> QED BY <1>3, <2>1 DEF Served, OtherServed, BeginUpdate, LoopNext
<1>4. ASSUME Answered PROVE LoopNext
  BY <1>4 DEF Answered, ReadAnswered, UpdateEnds, OtherAnswered, LoopNext
<1>5. ASSUME NEW w \in wire, Process(w) \/ Lose(w) PROVE UNCHANGED loopVars
  BY <1>5 DEF Process, Lose
<1>6. ASSUME NEW t \in Types, Edit(t) PROVE UNCHANGED loopVars
  BY <1>6 DEF Edit
<1>7. ASSUME Iterate \/ TimePasses PROVE LoopNext
  BY <1>7 DEF Iterate, TimePasses, LoopNext
<1>8. ASSUME UNCHANGED allVars PROVE UNCHANGED loopVars
  BY <1>8 DEF allVars
<1> QED BY <1>1, <1>2, <1>3, <1>4, <1>5, <1>6, <1>7, <1>8 DEF Next

(* The gateway that writes statuses is a gateway whose loop is EventLoop's:   *)
(* whatever is proved of the loop holds of it.                                *)
THEOREM RunsOnTheLoop == Spec => LoopSpec
<1>1. Init => LoopInit
  BY DEF Init
<1> QED BY <1>1, StepOfLoop, PTL DEF Spec, LoopSpec

(* While statuses are written, with their reads, lost and late writes, a due  *)
(* heartbeat and an emergency stop wait for two handlers of a connection at   *)
(* most.                                                                      *)
THEOREM Timely == Spec => [](TypeOK /\ GapBounded /\ StopBounded)
BY RunsOnTheLoop, TypeCorrect, HeartbeatGap, StopWaits, PTL

-----------------------------------------------------------------------------
(* A write on its way sets the flag of its own type, and no other.            *)
WritesOwnFlag ==
    /\ \A c \in Clients : asked[c] \in Types \cup {None}
    /\ DOMAIN asked = Clients
    /\ update \in Update \cup {None}
    /\ \A w \in wire : w.live => update # None
    /\ \A w \in wire :
         /\ DOMAIN w = {"live", "type", "flags"}
         /\ w.type \in Types /\ DOMAIN w.flags = {w.type} /\ w.flags[w.type] = TRUE

FlagsInv ==
    /\ FlagsAsMeant /\ WritesOwnFlag
    /\ job \in [Types -> BOOLEAN]

(* No update takes back what another, or a user of ERPNext, has done to the   *)
(* other flag: for any number of connections, with writes that are processed  *)
(* long after _request gave them up.                                          *)
THEOREM FlagsKept == Spec => []FlagsAsMeant
<1>1. Init => FlagsInv
  BY DEF Init, FlagsInv, FlagsAsMeant, WritesOwnFlag
<1>2. FlagsInv /\ [Next]_allVars => FlagsInv'
  <2> SUFFICES ASSUME FlagsInv, [Next]_allVars PROVE FlagsInv'
    OBVIOUS
  <2> USE NoneIsNone DEF FlagsInv, FlagsAsMeant, WritesOwnFlag, Update
  <2>1. ASSUME NEW c \in Clients, NEW type \in Types, Ask(c, type)
        PROVE  FlagsInv'
    BY <2>1 DEF Ask
  <2>2. ASSUME NEW c \in Clients \cup {Operator}, OtherArrives(c)
        PROVE  FlagsInv'
    BY <2>2 DEF OtherArrives, jobVars
  <2>3. ASSUME NEW c \in Clients, BeginUpdate(c) PROVE FlagsInv'
    BY <2>3 DEF BeginUpdate
  <2>4. ASSUME OtherServed \/ OtherAnswered \/ Iterate \/ TimePasses
        PROVE  FlagsInv'
    BY <2>4 DEF OtherServed, OtherAnswered, Iterate, TimePasses, jobVars
  <2>5. ASSUME ReadAnswered PROVE FlagsInv'
    <3> DEFINE w == [live |-> TRUE, type |-> update.type,
                     flags |-> Payload(update.type, job)]
    <3>1. /\ DOMAIN w = {"live", "type", "flags"}
          /\ w.type \in Types /\ DOMAIN w.flags = {w.type}
          /\ w.flags[w.type] = TRUE
      BY <2>5 DEF ReadAnswered, Payload
    <3>2. wire' = wire \cup {w} /\ UNCHANGED <<job, asked, meant>>
          /\ update # None
          /\ update' \in Update
      BY <2>5 DEF ReadAnswered
    <3> HIDE DEF w
    <3> QED BY <3>1, <3>2
  <2>6. ASSUME UpdateEnds PROVE FlagsInv'
    <3>1. /\ update' = None /\ wire' = {[w EXCEPT !.live = FALSE] : w \in wire}
          /\ asked' = [asked EXCEPT ![call.client] = None]
          /\ UNCHANGED <<job, meant>>
      BY <2>6 DEF UpdateEnds
    <3>2. ASSUME NEW w \in wire'
          PROVE  /\ DOMAIN w = {"live", "type", "flags"} /\ w.live = FALSE
                 /\ w.type \in Types /\ DOMAIN w.flags = {w.type}
                 /\ w.flags[w.type] = TRUE
      BY <3>1
    <3> QED BY <3>1, <3>2
  <2>7. ASSUME NEW w \in wire, Process(w) PROVE FlagsInv'
    <3>1. /\ job' = [t \in Types |-> IF t \in DOMAIN w.flags THEN w.flags[t]
                                    ELSE job[t]]
          /\ meant' = [meant EXCEPT ![w.type] = TRUE]
          /\ wire' \subseteq wire /\ asked' = asked
          /\ update' = IF w.live THEN [update EXCEPT !.at = "written"] ELSE update
      BY <2>7 DEF Process
    <3>2. w.type \in Types /\ DOMAIN w.flags = {w.type} /\ w.flags[w.type] = TRUE
      OBVIOUS
    <3>3. job' = [t \in Types |-> IF t = w.type THEN TRUE ELSE job[t]]
      BY <3>1, <3>2
    <3>4. job' = meant' /\ job' \in [Types -> BOOLEAN]
      BY <3>1, <3>2, <3>3
    <3>5. update' \in Update \cup {None} /\ (update # None => update' # None)
      BY <3>1
    <3> QED BY <3>1, <3>4, <3>5
  <2>8. ASSUME NEW w \in wire, Lose(w) PROVE FlagsInv'
    BY <2>8 DEF Lose
  <2>9. ASSUME NEW t \in Types, Edit(t) PROVE FlagsInv'
    BY <2>9 DEF Edit
  <2>10. ASSUME UNCHANGED allVars PROVE FlagsInv'
    BY <2>10 DEF allVars, jobVars
  <2> QED BY <2>1, <2>2, <2>3, <2>4, <2>5, <2>6, <2>7, <2>8, <2>9, <2>10
          DEF Next, Served, Answered
<1> QED BY <1>1, <1>2, PTL DEF Spec, FlagsInv

=============================================================================
