-------------------------- MODULE CanServiceProofs ---------------------------
(* For any frames, requests, queues and callback: the types of the service's  *)
(* variables, the life of the bus, the measurement flag, the cell summary and *)
(* what a stopped service still receives; and with a controller at the other  *)
(* end: what is shown of its tests.                                           *)
EXTENDS MeasurementRun, SimulatedBus, FrameProofs, SequenceTheorems, TLAPS

-----------------------------------------------------------------------------
(* The inductive invariant. A running service is not being stopped, so that   *)
(* nothing but stop() ends a task that uses the bus, and stop() takes the bus *)
(* only when gather has collected all tasks.                                  *)
Life ==
    /\ running => stop = "no"
    /\ ~running /\ stop = "no" => rx = "off"
    /\ BusOutlivesTasks

StatusInv == StatusOK /\ Shaped(status) /\ Summarized(status)

RxTypes ==
    /\ rx \in {"off", "idle", "recv", "got", "notify", "dead", "lingering",
               "cancelled"}
    /\ rx = "got" => \E f \in Frames : rxMsg = <<f>>
    /\ rx # "got" => rxMsg = <<>>

QueueTypes ==
    /\ canRx \in Seq(Frames) /\ Len(canRx) <= RxCap
    /\ canTx \in Seq(TxFrames) /\ Len(canTx) <= TxCap

Types ==
    /\ bus \in {"none", "open"} /\ running \in BOOLEAN
    /\ sequence \in 0 .. SeqModulus - 1
    /\ heartbeat \in {"off", "sleep", "cancelled"}
    /\ timeout \in {"off", "sleep", "notify", "dead", "cancelled"}
    /\ stop \in {"no", "gather", "done"}

IInv == Types /\ RxTypes /\ QueueTypes /\ StatusInv /\ Life

LEMMA TypeOKFromParts == IInv => TypeOK
<1> SUFFICES ASSUME IInv PROVE TypeOK
  OBVIOUS
<1>1. rxMsg \in Seq(Frames) /\ (rx = "got" <=> Len(rxMsg) = 1)
      /\ (rx # "got" <=> rxMsg = <<>>)
  <2>1. CASE rx = "got"
    <3>1. PICK f \in Frames : rxMsg = <<f>>
      BY <2>1 DEF IInv, RxTypes
    <3> QED BY <2>1, <3>1
  <2>2. CASE rx # "got"
    BY <2>2 DEF IInv, RxTypes
  <2> QED BY <2>1, <2>2
<1> QED BY <1>1 DEF TypeOK, IInv, Types, RxTypes, QueueTypes, StatusInv

-----------------------------------------------------------------------------
(* The status under what the service does to it besides applying frames.      *)

LEMMA ConnectedSet ==
    ASSUME StatusInv, NEW on \in BOOLEAN,
           status' = [status EXCEPT !.connected = on]
    PROVE  /\ StatusInv'
           /\ status'.resistance_measurement_running
                  = status.resistance_measurement_running
  BY DEF StatusInv, StatusOK, Shaped, Summarized, Fields

LEMMA CanErrorSet ==
    ASSUME StatusInv, NEW on, status' = [status EXCEPT !.can_error = on]
    PROVE  /\ StatusInv'
           /\ status'.resistance_measurement_running
                  = status.resistance_measurement_running
  BY DEF StatusInv, StatusOK, Shaped, Summarized, Fields

LEMMA FlagSet ==
    ASSUME StatusInv, NEW on \in BOOLEAN,
           status' = [status EXCEPT !.resistance_measurement_running = on]
    PROVE  StatusInv' /\ status'.resistance_measurement_running = on
  BY DEF StatusInv, StatusOK, Shaped, Summarized, Fields

LEMMA AgeSet ==
    ASSUME StatusInv, status' = Older(status)
    PROVE  /\ StatusInv'
           /\ status'.resistance_measurement_running
                  = status.resistance_measurement_running
<1> DEFINE age == IF status.age = None \/ status.age > MaxAge THEN status.age
                  ELSE status.age + 1
<1>1. age \in 0 .. MaxAge + 1 \cup {None}
  BY MaxAgeNat DEF StatusInv, StatusOK
<1>2. status' = [status EXCEPT !.age = age]
  BY DEF Older
<1> HIDE DEF age
<1> QED BY <1>1, <1>2 DEF StatusInv, StatusOK, Shaped, Summarized, Fields

LEMMA FrameSet ==
    ASSUME StatusInv, NEW f \in Frames, Decodable(f), status' = Apply(status, f)
    PROVE  /\ StatusInv'
           /\ status'.resistance_measurement_running
                  = status.resistance_measurement_running
<1>1. Decoded(f)
  BY FramesDecoded DEF Decoded
<1> DEFINE t == Apply(status, f)
<1>2. /\ Shaped(t) /\ Summarized(t) /\ t.connected = TRUE /\ t.age = 0
      /\ t.resistance_measurement_running = status.resistance_measurement_running
  BY <1>1, FrameApplied DEF StatusInv
<1>3. status.resistance_measurement_running \in BOOLEAN
  BY DEF StatusInv, StatusOK
<1>4. 0 \in 0 .. MaxAge + 1
  BY MaxAgeNat
<1> HIDE DEF t
<1>5. status' = t
  BY DEF t
<1> QED BY <1>2, <1>3, <1>4, <1>5 DEF StatusInv, StatusOK, Shaped, Reading, Cell

-----------------------------------------------------------------------------
(* What the queues hold.                                                      *)
LEMMA SequenceNext ==
    ASSUME Types, sequence' = NextSequence
    PROVE  sequence' \in 0 .. SeqModulus - 1
<1>1. sequence + 1 \in Nat /\ SeqModulus \in Nat /\ SeqModulus > 0
  BY SeqModulusPos DEF Types
<1>2. \A n \in Nat, m \in Nat : m > 0 => n % m \in 0 .. m - 1
  BY SMT
<1> QED BY <1>1, <1>2 DEF NextSequence

LEMMA Taken ==
    ASSUME NEW S, NEW q \in Seq(S), q # <<>>
    PROVE  /\ Head(q) \in S /\ Tail(q) \in Seq(S) /\ Len(Tail(q)) = Len(q) - 1
           /\ Len(q) \in Nat
  BY HeadTailProperties, LenProperties

LEMMA Put ==
    ASSUME NEW S, NEW q \in Seq(S), NEW x \in S, NEW cap \in Nat, Len(q) < cap
    PROVE  /\ Append(q, x) \in Seq(S)
           /\ Len(Append(q, x)) = Len(q) + 1 /\ Len(Append(q, x)) <= cap
           /\ Append(q, x)[Len(Append(q, x))] = x
  BY AppendProperties, LenProperties

LEMMA SendKeeps ==
    ASSUME QueueTypes, NEW m \in TxFrames, Send(m), UNCHANGED canRx
    PROVE  QueueTypes'
  BY Put, CapsNat DEF QueueTypes, Send

-----------------------------------------------------------------------------
(* The steps.                                                                 *)
LEMMA StartStep == ASSUME IInv, Start PROVE IInv'
<1>1. StatusInv'
  <2>1. PICK opened \in BOOLEAN : status' = [status EXCEPT !.can_error = ~opened]
    BY DEF Start
  <2> QED BY <2>1, CanErrorSet DEF IInv
<1>2. QueueTypes'
  BY DEF Start, IInv, QueueTypes
<1>3. RxTypes' /\ Types'
  BY DEF Start, IInv, RxTypes, Types, Life
<1>4. Life'
  BY DEF Start, IInv, Life, BusOutlivesTasks
<1> QED BY <1>1, <1>2, <1>3, <1>4 DEF IInv

LEMMA StopStep == ASSUME IInv, StopBegin \/ Stopping PROVE IInv'
<1>1. StatusInv'
  BY DEF StopBegin, Stopping, CancelRx, CancelHeartbeat, CancelTimeout, StopEnd,
         IInv, StatusInv, StatusOK, Shaped, Summarized
<1>2. QueueTypes'
  <2>1. <<>> \in Seq(Frames) /\ Len(<<>>) <= RxCap
    BY CapsNat
  <2> QED BY <2>1 DEF StopBegin, Stopping, CancelRx, CancelHeartbeat,
                      CancelTimeout, StopEnd, IInv, QueueTypes
<1>3. RxTypes' /\ Types'
  BY DEF StopBegin, Stopping, CancelRx, CancelHeartbeat, CancelTimeout, StopEnd,
         IInv, RxTypes, Types
<1>4. Life'
  <2>1. CASE StopBegin
    BY <2>1 DEF StopBegin, IInv, Life, BusOutlivesTasks
  <2>2. CASE CancelRx \/ CancelHeartbeat \/ CancelTimeout
    BY <2>2 DEF CancelRx, CancelHeartbeat, CancelTimeout, IInv, Types, Life,
                BusOutlivesTasks
  <2>3. CASE StopEnd
    BY <2>3 DEF StopEnd, IInv, Types, Life, BusOutlivesTasks, TasksEnded
  <2> QED BY <2>1, <2>2, <2>3 DEF Stopping
<1> QED BY <1>1, <1>2, <1>3, <1>4 DEF IInv

LEMMA HeartbeatStep == ASSUME IInv, Heartbeat PROVE IInv'
<1>1. sequence' \in 0 .. SeqModulus - 1
  BY SequenceNext DEF Heartbeat, IInv
<1>2. [kind |-> "heartbeat", seq |-> sequence'] \in TxFrames
  BY <1>1 DEF TxFrames
<1>3. QueueTypes'
  <2>1. CASE Send([kind |-> "heartbeat", seq |-> sequence'])
    BY <1>2, <2>1, SendKeeps DEF Heartbeat, IInv
  <2>2. CASE SendFails
    BY <2>2 DEF Heartbeat, IInv, SendFails, QueueTypes
  <2> QED BY <2>1, <2>2 DEF Heartbeat
<1>4. StatusInv'
  BY DEF Heartbeat, IInv, StatusInv, StatusOK, Shaped, Summarized
<1> QED BY <1>1, <1>3, <1>4
           DEF Heartbeat, IInv, Types, RxTypes, Life, BusOutlivesTasks, TasksEnded

(* A command's frame and what becomes of the flag.                            *)
LEMMA CommandSentStep ==
    ASSUME IInv, NEW r \in Requests, CommandSent(r)
    PROVE  /\ IInv'
           /\ status'.resistance_measurement_running
                  # status.resistance_measurement_running
              => /\ Len(canTx') = Len(canTx) + 1
                 /\ canTx'[Len(canTx')].id =
                        IF status'.resistance_measurement_running
                        THEN "measurement_start" ELSE "measurement_stop"
<1>1. sequence' \in 0 .. SeqModulus - 1
  BY SequenceNext DEF CommandSent, IInv
<1> DEFINE m == CommandFrame(r, sequence')
           on == CASE r.command = "internal_resistance_start" -> TRUE
                   [] r.command = "measurement_stop" -> FALSE
                   [] OTHER -> status.resistance_measurement_running
<1>2. m \in TxFrames
  <2>1. r.command \in Ids /\ "measurement_start" \in Ids
    BY DEF Ids
  <2> QED BY <1>1, <2>1 DEF CommandFrame, TxFrames
<1>3. m.id = IF r.command = "internal_resistance_start"
             THEN "measurement_start" ELSE r.command
  BY DEF CommandFrame
<1> HIDE DEF m
<1>4. Send(m)
  BY DEF CommandSent, m
<1>5. QueueTypes'
  BY <1>2, <1>4, SendKeeps DEF CommandSent, IInv
<1>6. Len(canTx') = Len(canTx) + 1 /\ canTx'[Len(canTx')] = m
  BY <1>2, <1>4, Put, CapsNat DEF Send, IInv, QueueTypes
<1>7. on \in BOOLEAN
  BY DEF IInv, StatusInv, StatusOK
<1>8. status' = [status EXCEPT !.resistance_measurement_running = on]
  BY DEF CommandSent
<1>9. /\ on # status.resistance_measurement_running =>
             r.command \in {"internal_resistance_start", "measurement_stop"}
      /\ r.command = "internal_resistance_start" => on = TRUE
      /\ r.command = "measurement_stop" => on = FALSE
  OBVIOUS
<1> HIDE DEF on
<1>10. StatusInv' /\ status'.resistance_measurement_running = on
  BY <1>7, <1>8, FlagSet DEF IInv
<1>11. IInv'
  BY <1>1, <1>5, <1>10
     DEF CommandSent, IInv, Types, RxTypes, Life, BusOutlivesTasks, TasksEnded
<1> QED BY <1>3, <1>6, <1>9, <1>10, <1>11

LEMMA CommandFailsStep ==
    ASSUME IInv, NEW r \in Requests, CommandFails(r) PROVE IInv'
<1>1. sequence' \in 0 .. SeqModulus - 1
  BY SequenceNext DEF CommandFails, IInv
<1>2. StatusInv'
  BY DEF CommandFails, IInv, StatusInv, StatusOK, Shaped, Summarized
<1> QED BY <1>1, <1>2
           DEF CommandFails, SendFails, IInv, Types, RxTypes, QueueTypes, Life,
               BusOutlivesTasks, TasksEnded

LEMMA RxStep ==
    ASSUME IInv, RxReceive \/ RxError \/ RxIgnore \/ \E o \in Outcomes : RxNotified(o)
    PROVE  IInv'
<1>1. StatusInv'
  BY DEF RxReceive, RxError, RxIgnore, RxNotified, IInv, StatusInv, StatusOK,
         Shaped, Summarized
<1>2. QueueTypes' /\ RxTypes'
  <2>1. CASE RxReceive
    <3>1. /\ Head(canRx) \in Frames /\ Tail(canRx) \in Seq(Frames)
          /\ Len(Tail(canRx)) = Len(canRx) - 1 /\ Len(canRx) \in Nat
      BY <2>1, Taken DEF RxReceive, IInv, QueueTypes
    <3>2. QueueTypes'
      BY <2>1, <3>1, CapsNat DEF RxReceive, IInv, QueueTypes
    <3> QED BY <2>1, <3>1, <3>2 DEF RxReceive, RxTypes
  <2>2. CASE RxError \/ RxIgnore
    BY <2>2 DEF RxError, RxIgnore, IInv, QueueTypes, RxTypes
  <2>3. ASSUME NEW o \in Outcomes, RxNotified(o) PROVE QueueTypes' /\ RxTypes'
    BY <2>3 DEF RxNotified, After, Outcomes, IInv, QueueTypes, RxTypes
  <2> QED BY <2>1, <2>2, <2>3
<1>3. Types' /\ Life'
  BY DEF RxReceive, RxError, RxIgnore, RxNotified, After, Outcomes, IInv, Types,
         RxTypes, Life, BusOutlivesTasks, TasksEnded
<1> QED BY <1>1, <1>2, <1>3 DEF IInv

LEMMA RxApplyStep ==
    ASSUME IInv, NEW o \in Outcomes, RxApply(o)
    PROVE  /\ IInv'
           /\ status'.resistance_measurement_running
                  = status.resistance_measurement_running
<1>1. PICK f \in Frames : rxMsg = <<f>>
  BY DEF RxApply, IInv, RxTypes
<1>2. Decodable(f) /\ status' = Apply(status, f)
  BY <1>1 DEF RxApply
<1>3. /\ StatusInv'
      /\ status'.resistance_measurement_running
             = status.resistance_measurement_running
  BY <1>2, FrameSet DEF IInv
<1> QED BY <1>3 DEF RxApply, After, Outcomes, IInv, Types, RxTypes, QueueTypes,
                    Life, BusOutlivesTasks, TasksEnded

LEMMA TimeoutStep ==
    ASSUME IInv, NEW o \in Outcomes, TimeoutFires(o) \/ TimeoutNotified(o)
    PROVE  /\ IInv'
           /\ status'.resistance_measurement_running
                  = status.resistance_measurement_running
<1>1. /\ StatusInv'
      /\ status'.resistance_measurement_running
             = status.resistance_measurement_running
  <2>1. CASE TimeoutFires(o)
    BY <2>1, ConnectedSet DEF TimeoutFires, IInv
  <2>2. CASE TimeoutNotified(o)
    BY <2>2 DEF TimeoutNotified, IInv, StatusInv, StatusOK, Shaped, Summarized
  <2> QED BY <2>1, <2>2
<1> QED BY <1>1 DEF TimeoutFires, TimeoutNotified, After, Outcomes, IInv, Types,
                    RxTypes, QueueTypes, Life, BusOutlivesTasks, TasksEnded

LEMMA EnvironmentStep ==
    ASSUME IInv, Environment
    PROVE  /\ IInv'
           /\ status'.resistance_measurement_running
                  = status.resistance_measurement_running
<1>1. /\ StatusInv'
      /\ status'.resistance_measurement_running
             = status.resistance_measurement_running
  <2>1. CASE Tick
    BY <2>1, AgeSet DEF Tick, IInv
  <2>2. CASE ~Tick
    BY <2>2 DEF Environment, BusTransmits, BusDelivers, IInv, StatusInv, StatusOK,
                Shaped, Summarized
  <2> QED BY <2>1, <2>2
<1>2. QueueTypes'
  <2>1. CASE Tick
    BY <2>1 DEF Tick, IInv, QueueTypes
  <2>2. CASE BusTransmits
    BY <2>2, Taken, CapsNat DEF BusTransmits, IInv, QueueTypes
  <2>3. ASSUME NEW f \in Frames, BusDelivers(f) PROVE QueueTypes'
    BY <2>3, Put, CapsNat DEF BusDelivers, IInv, QueueTypes
  <2> QED BY <2>1, <2>2, <2>3 DEF Environment
<1> QED BY <1>1, <1>2 DEF Environment, Tick, BusTransmits, BusDelivers, IInv,
                          Types, RxTypes, Life, BusOutlivesTasks, TasksEnded

(* The thread a cancelled rx task left in recv comes back.                    *)
LEMMA ThreadStep == ASSUME IInv, ThreadReturns PROVE IInv'
<1>1. StatusInv'
  BY DEF ThreadReturns, IInv, StatusInv, StatusOK, Shaped, Summarized
<1>2. QueueTypes'
  <2>1. CASE canRx' = canRx
    BY <2>1 DEF ThreadReturns, IInv, QueueTypes
  <2>2. CASE canRx # <<>> /\ canRx' = Tail(canRx)
    BY <2>2, Taken, CapsNat DEF ThreadReturns, IInv, QueueTypes
  <2> QED BY <2>1, <2>2 DEF ThreadReturns
<1> QED BY <1>1, <1>2 DEF ThreadReturns, IInv, Types, RxTypes, Life,
                          BusOutlivesTasks, TasksEnded

-----------------------------------------------------------------------------
FlagStep ==
    status'.resistance_measurement_running # status.resistance_measurement_running
       => /\ Len(canTx') = Len(canTx) + 1
          /\ canTx'[Len(canTx')].id =
                 IF status'.resistance_measurement_running
                 THEN "measurement_start" ELSE "measurement_stop"

LEMMA Step == ASSUME IInv, [Next]_vars PROVE IInv' /\ FlagStep
<1>1. CASE Start
  <2>1. status'.resistance_measurement_running
            = status.resistance_measurement_running
    BY <1>1, CanErrorSet DEF Start, IInv
  <2> QED BY <1>1, <2>1, StartStep DEF FlagStep
<1>2. CASE StopBegin \/ Stopping
  <2>1. UNCHANGED status
    BY <1>2 DEF StopBegin, Stopping, CancelRx, CancelHeartbeat, CancelTimeout, StopEnd
  <2> QED BY <1>2, <2>1, StopStep DEF FlagStep
<1>3. CASE Heartbeat
  BY <1>3, HeartbeatStep DEF Heartbeat, FlagStep
<1>4. ASSUME NEW r \in Requests, CommandSent(r) PROVE IInv' /\ FlagStep
  BY <1>4, CommandSentStep DEF FlagStep
<1>5. ASSUME NEW r \in Requests, CommandFails(r) PROVE IInv' /\ FlagStep
  BY <1>5, CommandFailsStep DEF CommandFails, FlagStep
<1>6. CASE RxReceive \/ RxError \/ RxIgnore \/ \E o \in Outcomes : RxNotified(o)
  <2>1. UNCHANGED status
    BY <1>6 DEF RxReceive, RxError, RxIgnore, RxNotified
  <2> QED BY <1>6, <2>1, RxStep DEF FlagStep
<1>7. ASSUME NEW o \in Outcomes, RxApply(o) PROVE IInv' /\ FlagStep
  BY <1>7, RxApplyStep DEF FlagStep
<1>8. ASSUME NEW o \in Outcomes, TimeoutFires(o) \/ TimeoutNotified(o)
      PROVE  IInv' /\ FlagStep
  BY <1>8, TimeoutStep DEF FlagStep
<1>9. CASE Environment
  BY <1>9, EnvironmentStep DEF FlagStep
<1>11. CASE ThreadReturns
  BY <1>11, ThreadStep DEF ThreadReturns, FlagStep
<1>10. CASE UNCHANGED vars
  <2>1. StatusInv' /\ FlagStep
    BY <1>10 DEF vars, FlagStep, IInv, StatusInv, StatusOK, Shaped, Summarized
  <2>2. QueueTypes' /\ RxTypes'
    BY <1>10 DEF vars, IInv, QueueTypes, RxTypes
  <2>3. Types' /\ Life'
    BY <1>10 DEF vars, IInv, Types, Life, BusOutlivesTasks, TasksEnded
  <2> QED BY <2>1, <2>2, <2>3 DEF IInv
<1> QED BY <1>1, <1>2, <1>3, <1>4, <1>5, <1>6, <1>7, <1>8, <1>9, <1>10,
           <1>11 DEF Next, Api, RxTask, TimeoutTask, Callback

LEMMA InitInv == Init => IInv
<1> SUFFICES ASSUME Init PROVE IInv
  OBVIOUS
<1>1. StatusInv
  BY InitialShape, MaxAgeNat
     DEF Init, StatusInv, StatusOK, InitialStatus, Shaped, Reading, Cell
<1>2. QueueTypes
  BY CapsNat DEF Init, QueueTypes
<1>3. 0 \in 0 .. SeqModulus - 1
  BY SeqModulusPos
<1> QED BY <1>1, <1>2, <1>3
           DEF Init, IInv, Types, RxTypes, Life, BusOutlivesTasks, TasksEnded

(* The inductive invariant holds throughout.                                  *)
THEOREM Invariance == Spec => []IInv
<1>1. IInv /\ [Next]_vars => IInv'
  BY Step
<1> QED BY InitInv, <1>1, PTL DEF Spec

(* The service's variables keep their types, whatever fails or is sent.       *)
THEOREM TypeCorrect == Spec => []TypeOK
BY Invariance, TypeOKFromParts, PTL

(* stop() of can_service.py takes the bus away after every task, whatever its *)
(* callback does and whichever tasks have died before. The thread a cancelled *)
(* rx task leaves in recv is not a task, and may lose the bus.                *)
THEOREM BusLast == Spec => []BusOutlivesTasks
<1>1. IInv => BusOutlivesTasks
  BY DEF IInv, Life
<1> QED BY <1>1, Invariance, PTL

(* Whatever that thread, a suspended callback or a frame in hand still does,  *)
(* from stop() on nothing received changes the status.                        *)
THEOREM StoppedStays == Spec => StoppedStatusStays
<1> DEFINE Stays == stop # "no" => Received(status') = Received(status)
<1>1. ASSUME IInv, [Next]_vars PROVE Stays
  <2> SUFFICES ASSUME stop # "no" PROVE Received(status') = Received(status)
    OBVIOUS
  <2>1. ~running
    BY <1>1 DEF IInv, Life
  <2>2. status = [x \in Fields |-> status[x]]
    BY <1>1 DEF IInv, StatusInv, Shaped
  <2>3. \/ UNCHANGED status
        \/ \E on : status' = [status EXCEPT !.resistance_measurement_running = on]
        \/ \E n : status' = [status EXCEPT !.age = n]
    <3>1. CASE Tick
      BY <3>1 DEF Tick, Older
    <3>2. CASE Api
      BY <3>2 DEF Api, CommandSent, CommandFails
    <3>3. CASE UNCHANGED vars
      BY <3>3 DEF vars
    <3>4. CASE \/ Stopping \/ ThreadReturns \/ BusTransmits
               \/ \E f \in Frames : BusDelivers(f)
      BY <3>4 DEF Stopping, CancelRx, CancelHeartbeat, CancelTimeout, StopEnd,
                  ThreadReturns, BusTransmits, BusDelivers
    <3> QED BY <1>1, <2>1, <3>1, <3>2, <3>3, <3>4
            DEF Next, Start, StopBegin, Heartbeat, RxTask, RxReceive, RxIgnore,
                RxApply, RxError, TimeoutTask, TimeoutFires, Callback, RxNotified,
                TimeoutNotified, Environment
  <2> QED BY <2>2, <2>3 DEF Received, Fields
<1>2. IInv /\ [Next]_vars => [Stays]_vars
  BY <1>1
<1> QED BY <1>2, Invariance, PTL DEF Spec, StoppedStatusStays

(* The summary on show is that of the table of cells, in whatever order       *)
(* packets of however many cells came (_apply_cell_voltages).                 *)
THEOREM SummaryKept == Spec => []SummaryMatchesCells
<1>1. IInv => SummaryMatchesCells
  BY DEF IInv, StatusInv, Summarized, SummaryMatchesCells
<1> QED BY <1>1, Invariance, PTL

(* The measurement flag moves only with a command frame that went out.        *)
THEOREM FlagWithFrame == Spec => FlagFollowsSend
<1>1. IInv /\ [Next]_vars => [FlagStep]_vars
  BY Step
<1> QED BY <1>1, Invariance, PTL DEF Spec, FlagFollowsSend, FlagStep

-----------------------------------------------------------------------------
(* MeasurementRun: a running test is shown.                                   *)

StopFrame(m) == m.kind = "command" /\ m.id = "measurement_stop"

NoStops(q) == \A j \in DOMAIN q : ~StopFrame(q[j])

(* The start of a test is queued, and no stop behind it.                      *)
TestAhead(q) ==
    \E i \in DOMAIN q :
        StartsTest(q[i]) /\ \A j \in DOMAIN q : j > i => ~StopFrame(q[j])

(* A test may be running once everything queued is through and nothing but a  *)
(* start is refused.                                                          *)
MayRun == (mode = "test" /\ NoStops(canTx)) \/ TestAhead(canTx)

ShownAhead == MayRun => Shown \/ excused

(* What the controller of this module puts on the bus.                        *)
RunAcks == [id : Ids, seq : 0 .. SeqModulus - 1, result : {"ok", "rejected"}]
ReadingOf(n) == [name |-> "cell_resistances", first |-> 0, values |-> <<n>>]
AckOf(a) == [name |-> "command_ack", payload |-> a]
RunFrames == {ReadingOf(n) : n \in Nat} \cup {AckOf(a) : a \in RunAcks}

RunTypes ==
    /\ sequence \in 0 .. SeqModulus - 1
    /\ canTx \in Seq(TxFrames) /\ canRx \in Seq(RunFrames)
    /\ rx = "got" => \E f \in RunFrames : rxMsg = <<f>>
    /\ run \in Nat /\ excused \in BOOLEAN

Shape == Shaped(status) /\ Summarized(status) /\ Shown \in BOOLEAN

RunInv == RunTypes /\ Shape /\ ShownAhead

LEMMA FramePut ==
    ASSUME NEW q \in Seq(TxFrames), NEW m \in TxFrames
    PROVE  /\ Append(q, m) \in Seq(TxFrames)
           /\ NoStops(Append(q, m)) => NoStops(q) /\ ~StopFrame(m)
           /\ TestAhead(Append(q, m))
                  => StartsTest(m) \/ (TestAhead(q) /\ ~StopFrame(m))
<1> DEFINE a == Append(q, m)
           n == Len(q)
<1>1. /\ a \in Seq(TxFrames) /\ n \in Nat /\ Len(a) = n + 1
      /\ \A i \in 1 .. n : a[i] = q[i]
      /\ a[n + 1] = m
      /\ DOMAIN a = 1 .. n + 1 /\ DOMAIN q = 1 .. n
  BY AppendProperties, LenProperties
<1> HIDE DEF a, n
<1>2. NoStops(a) => NoStops(q) /\ ~StopFrame(m)
  BY <1>1 DEF NoStops
<1>3. ASSUME TestAhead(a), ~StartsTest(m) PROVE TestAhead(q) /\ ~StopFrame(m)
  <2>1. PICK i \in DOMAIN a :
          StartsTest(a[i]) /\ \A j \in DOMAIN a : j > i => ~StopFrame(a[j])
    BY <1>3 DEF TestAhead
  <2>2. i \in 1 .. n
    BY <1>1, <1>3, <2>1
  <2>3. ~StopFrame(m)
    BY <1>1, <2>1, <2>2
  <2>4. StartsTest(q[i]) /\ \A j \in DOMAIN q : j > i => ~StopFrame(q[j])
    BY <1>1, <2>1, <2>2
  <2> QED BY <1>1, <2>2, <2>3, <2>4 DEF TestAhead
<1> QED BY <1>1, <1>2, <1>3 DEF a

LEMMA FrameTaken ==
    ASSUME NEW q \in Seq(TxFrames), q # <<>>
    PROVE  /\ Head(q) \in TxFrames /\ Tail(q) \in Seq(TxFrames)
           /\ NoStops(Tail(q)) /\ ~StopFrame(Head(q)) => NoStops(q)
           /\ NoStops(Tail(q)) /\ StartsTest(Head(q)) => TestAhead(q)
           /\ TestAhead(Tail(q)) => TestAhead(q)
<1> DEFINE t == Tail(q)
           n == Len(q)
<1>1. /\ Head(q) \in TxFrames /\ t \in Seq(TxFrames) /\ n \in Nat /\ n >= 1
      /\ Len(t) = n - 1 /\ \A i \in 1 .. n - 1 : t[i] = q[i + 1]
      /\ DOMAIN t = 1 .. n - 1 /\ DOMAIN q = 1 .. n /\ Head(q) = q[1]
  BY HeadTailProperties, LenProperties, EmptySeq
<1> HIDE DEF t, n
<1>2. ASSUME NEW j \in 2 .. n PROVE j - 1 \in DOMAIN t /\ t[j - 1] = q[j]
  BY <1>1, <1>2
<1>3. NoStops(t) => \A j \in 2 .. n : ~StopFrame(q[j])
  BY <1>2 DEF NoStops
<1>4. NoStops(t) /\ ~StopFrame(Head(q)) => NoStops(q)
  BY <1>1, <1>3 DEF NoStops
<1>5. NoStops(t) /\ StartsTest(Head(q)) => TestAhead(q)
  BY <1>1, <1>3 DEF TestAhead
<1>6. ASSUME TestAhead(t) PROVE TestAhead(q)
  <2>1. PICK i \in DOMAIN t :
          StartsTest(t[i]) /\ \A j \in DOMAIN t : j > i => ~StopFrame(t[j])
    BY <1>6 DEF TestAhead
  <2>2. i + 1 \in DOMAIN q /\ StartsTest(q[i + 1])
    BY <1>1, <2>1
  <2>3. ASSUME NEW j \in DOMAIN q, j > i + 1 PROVE ~StopFrame(q[j])
    <3>1. j \in 2 .. n /\ j - 1 > i
      BY <1>1, <2>1, <2>3
    <3> QED BY <1>2, <2>1, <3>1
  <2> QED BY <2>2, <2>3 DEF TestAhead
<1> QED BY <1>1, <1>4, <1>5, <1>6 DEF t

(* A frame of the controller reaches the interface or does not.               *)
LEMMA Emitted ==
    ASSUME RunTypes, NEW f \in RunFrames, Emit(f)
    PROVE  canRx' \in Seq(RunFrames)
<1>1. Append(canRx, f) \in Seq(RunFrames)
  BY AppendProperties DEF RunTypes
<1> QED BY <1>1 DEF Emit, RunTypes

-----------------------------------------------------------------------------
(* An excuse is kept as long as a test may run.                               *)
LEMMA ExcuseKept ==
    ASSUME RunTypes, NEW new \in BOOLEAN, ExcuseLasts(new)
    PROVE  excused' \in BOOLEAN /\ (MayRun' => (excused' <=> excused \/ new))
<1>1. TestAhead(canTx') => TestStartQueued(canTx')
  BY DEF TestAhead, TestStartQueued
<1>2. MayRun' => mode' = "test" \/ TestStartQueued(canTx')
  BY <1>1 DEF MayRun
<1> QED BY <1>2 DEF ExcuseLasts, RunTypes

LEMMA CommandRuns ==
    ASSUME RunInv, NEW r \in Requests, Command(r)
    PROVE  RunInv'
<1>1. UNCHANGED <<mode, run>> /\ sequence' \in 0 .. SeqModulus - 1
  <2>1. UNCHANGED <<mode, run>> /\ sequence' = NextSequence
    BY DEF Command, CommandSent, CommandFails
  <2> QED BY <2>1, SeqModulusPos DEF NextSequence, RunInv, RunTypes
<1>2. CASE CommandFails(r) /\ UNCHANGED excused
  BY <1>1, <1>2
     DEF CommandFails, SendFails, RunInv, RunTypes, Shape, Shown, ShownAhead,
         MayRun
<1>3. ASSUME CommandSent(r),
             excused' = (/\ excused \/ Unannounced(r)
                         /\ r.command # "internal_resistance_start")
      PROVE  RunInv'
  <2> DEFINE m == CommandFrame(r, sequence')
             on == CASE r.command = "internal_resistance_start" -> TRUE
                     [] r.command = "measurement_stop"          -> FALSE
                     [] OTHER                                   -> Shown
  <2>1. m \in TxFrames /\ canTx' = Append(canTx, m)
    BY <1>1, <1>3 DEF CommandSent, Send, CommandFrame, TxFrames, Ids
  <2>2. on \in BOOLEAN
    BY DEF RunInv, Shape
  <2>3. status' = [status EXCEPT !.resistance_measurement_running = on]
    BY <1>3 DEF CommandSent, Shown
  <2>4. StartsTest(m) /\ r.command # "internal_resistance_start"
            => on = Shown /\ (Shown \/ Unannounced(r))
    BY DEF StartsTest, CommandFrame, Unannounced
  <2>5. /\ r.command = "internal_resistance_start" => on = TRUE
        /\ ~StopFrame(m) => on = TRUE \/ on = Shown
    BY DEF StopFrame, CommandFrame
  <2> HIDE DEF m, on
  <2>6. Shape' /\ Shown' = on
    BY <2>2, <2>3 DEF RunInv, Shape, Shown, Shaped, Summarized, Fields
  <2>7. /\ canTx' \in Seq(TxFrames)
        /\ MayRun' => StartsTest(m) \/ (MayRun /\ ~StopFrame(m))
    BY <1>1, <2>1, FramePut DEF RunInv, RunTypes, MayRun
  <2>8. excused \in BOOLEAN /\ excused' \in BOOLEAN
    BY <1>3 DEF RunInv, RunTypes
  <2>9. ShownAhead'
    BY <1>3, <2>2, <2>4, <2>5, <2>6, <2>7, <2>8 DEF RunInv, Shape, ShownAhead
  <2> QED BY <1>1, <1>3, <2>6, <2>7, <2>8, <2>9 DEF CommandSent, RunInv, RunTypes
<1> QED BY <1>2, <1>3 DEF Command

LEMMA ServiceRuns ==
    ASSUME RunInv, Service
    PROVE  RunInv'
<1>1. SUFFICES ASSUME Start \/ Heartbeat \/ RxReceive \/ RxApply("returned"),
                      UNCHANGED <<mode, run, excused>>
               PROVE  RunInv'
  BY CommandRuns DEF Service, controllerVars
<1>2. CASE Start
  <2>1. PICK opened \in BOOLEAN : status' = [status EXCEPT !.can_error = ~opened]
    BY <1>2 DEF Start
  <2>2. Shape' /\ Shown' = Shown
    BY <2>1 DEF RunInv, Shape, Shown, Shaped, Summarized, Fields
  <2> QED BY <1>1, <1>2, <2>2
          DEF Start, RunInv, RunTypes, ShownAhead, MayRun
<1>3. CASE Heartbeat
  <2>1. sequence' \in 0 .. SeqModulus - 1
    BY <1>3, SeqModulusPos DEF Heartbeat, NextSequence, RunInv, RunTypes
  <2> DEFINE m == [kind |-> "heartbeat", seq |-> sequence']
  <2>2. m \in TxFrames /\ ~StartsTest(m)
    BY <2>1 DEF TxFrames, StartsTest
  <2>3. canTx' = canTx \/ canTx' = Append(canTx, m)
    BY <1>3 DEF Heartbeat, Send, SendFails
  <2> HIDE DEF m
  <2>4. canTx' \in Seq(TxFrames) /\ (MayRun' => MayRun)
    BY <1>1, <2>2, <2>3, FramePut DEF RunInv, RunTypes, MayRun
  <2> QED BY <1>1, <1>3, <2>1, <2>4
          DEF Heartbeat, RunInv, RunTypes, Shape, Shown, ShownAhead
<1>6. CASE RxReceive
  <2>1. /\ Head(canRx) \in RunFrames /\ Tail(canRx) \in Seq(RunFrames)
    BY <1>6, HeadTailProperties DEF RxReceive, RunInv, RunTypes
  <2> QED BY <1>1, <1>6, <2>1
          DEF RxReceive, RunInv, RunTypes, Shape, Shown, ShownAhead, MayRun
<1>7. CASE RxApply("returned")
  <2>1. PICK f \in RunFrames : rxMsg = <<f>>
    BY <1>7 DEF RxApply, RunInv, RunTypes
  <2>2. Decodable(f) /\ status' = Apply(status, f)
    BY <1>7, <2>1 DEF RxApply
  <2>5. ASSUME f \in {ReadingOf(n) : n \in Nat} PROVE Decoded(f)
    <3>1. PICK n \in Nat : f = ReadingOf(n)
      BY <2>5
    <3>2. f.first = 0 /\ f.values = <<n>> /\ <<n>> \in Seq(Nat)
      BY <3>1 DEF ReadingOf
    <3> QED BY <3>2 DEF Decoded
  <2>6. ASSUME f \in {AckOf(a) : a \in RunAcks} PROVE Decoded(f)
    BY <2>6 DEF AckOf, Decoded
  <2>3. Shape' /\ Shown' = Shown
    BY <2>2, <2>5, <2>6, FrameApplied DEF RunInv, Shape, Shown, RunFrames
  <2>4. rx' = "recv"
    BY <1>7 DEF RxApply, After
  <2> QED BY <1>1, <1>7, <2>3, <2>4
          DEF RxApply, RunInv, RunTypes, ShownAhead, MayRun
<1> QED BY <1>1, <1>2, <1>3, <1>6, <1>7

LEMMA ControllerRuns ==
    ASSUME RunInv, Controller
    PROVE  RunInv'
<1> DEFINE m == Head(canTx)
<1>1. canTx # <<>> /\ canTx' = Tail(canTx)
  BY DEF Controller, TakesHeartbeat, TakesStart, TakesStop, TakesOther
<1>2. /\ m \in TxFrames /\ canTx' \in Seq(TxFrames)
      /\ NoStops(canTx') /\ ~StopFrame(m) => NoStops(canTx)
      /\ NoStops(canTx') /\ StartsTest(m) => TestAhead(canTx)
      /\ TestAhead(canTx') => TestAhead(canTx)
  BY <1>1, FrameTaken DEF RunInv, RunTypes
<1>3. UNCHANGED <<sequence, status, rx, rxMsg>>
  BY DEF Controller, TakesHeartbeat, TakesStart, TakesStop, TakesOther, ServiceUnchanged
<1>4. m.kind = "command" => [id |-> m.id, seq |-> m.seq, result |-> "ok"] \in RunAcks
                         /\ [id |-> m.id, seq |-> m.seq, result |-> "rejected"] \in RunAcks
  BY <1>2 DEF TxFrames, RunAcks
<1> HIDE DEF m
<1>6. CASE TakesHeartbeat
  <2>1. ~StopFrame(m) /\ UNCHANGED <<canRx, mode, run, excused>>
    BY <1>6 DEF TakesHeartbeat, StopFrame, controllerVars, m
  <2>2. MayRun' => MayRun
    BY <1>2, <2>1 DEF MayRun
  <2> QED BY <1>2, <1>3, <2>1, <2>2
          DEF RunInv, RunTypes, Shape, Shown, ShownAhead
<1>5. ASSUME m.kind = "command", Ack(m, "ok") \/ Ack(m, "rejected")
      PROVE  canRx' \in Seq(RunFrames)
  BY <1>4, <1>5, Emitted DEF Ack, RunInv, RunFrames, AckOf
<1>7. CASE TakesStart \/ TakesOther
  <2>1. /\ ~StopFrame(m) /\ m.kind = "command"
        /\ Ack(m, "ok") \/ Ack(m, "rejected")
        /\ ExcuseLasts(FALSE)
    BY <1>7 DEF TakesStart, TakesOther, StartsTest, StopFrame, m
  <2>2. run' \in Nat /\ (mode' = "test" => mode = "test" \/ StartsTest(m))
    <3>1. CASE TakesStart
      <4>1. StartsTest(m) /\ (run' = run + 1 \/ run' = run)
        BY <3>1 DEF TakesStart, m
      <4> QED BY <4>1 DEF RunInv, RunTypes
    <3>2. CASE TakesOther
      BY <3>2 DEF TakesOther, RunInv, RunTypes
    <3> QED BY <1>7, <3>1, <3>2
  <2>3. MayRun' => MayRun
    BY <1>2, <2>1, <2>2 DEF MayRun
  <2>4. excused' \in BOOLEAN /\ (MayRun' => excused' = excused)
    BY <2>1, ExcuseKept DEF RunInv, RunTypes
  <2> QED BY <1>2, <1>3, <1>5, <2>1, <2>2, <2>3, <2>4
          DEF RunInv, RunTypes, Shape, Shown, ShownAhead
<1>8. CASE TakesStop
  <2>1. m.kind = "command" /\ run' = run /\ (Ack(m, "ok") \/ Ack(m, "rejected"))
    BY <1>8 DEF TakesStop, m
  <2>2. CASE mode' = "idle" /\ ExcuseLasts(FALSE)
    <3>1. MayRun' => MayRun
      BY <1>2, <2>2 DEF MayRun
    <3>2. excused' \in BOOLEAN /\ (MayRun' => excused' = excused)
      BY <2>2, ExcuseKept DEF RunInv, RunTypes
    <3> QED BY <1>2, <1>3, <1>5, <2>1, <3>1, <3>2
            DEF RunInv, RunTypes, Shape, Shown, ShownAhead
  <2>3. CASE mode' = mode /\ ExcuseLasts(mode = "test" /\ ~Shown)
    <3>1. MayRun' => MayRun \/ mode = "test"
      BY <1>2, <2>3 DEF MayRun
    <3> DEFINE new == mode = "test" /\ ~Shown
    <3>2. excused' \in BOOLEAN /\ (MayRun' => (excused' <=> excused \/ new))
      BY <2>3, ExcuseKept DEF RunInv
    <3> QED BY <1>2, <1>3, <1>5, <2>1, <3>1, <3>2
            DEF RunInv, RunTypes, Shape, Shown, ShownAhead
  <2> QED BY <1>8, <2>2, <2>3 DEF TakesStop
<1> QED BY <1>6, <1>7, <1>8 DEF Controller

LEMMA TestRuns ==
    ASSUME RunInv, Reports \/ Ends \/ Restart
    PROVE  RunInv'
<1>1. TestAhead(canTx) => TestStartQueued(canTx)
  BY DEF TestAhead, TestStartQueued
<1>2. CASE Reports
  <2>1. canRx' \in Seq(RunFrames)
    BY <1>2, Emitted DEF Reports, RunInv, RunTypes, RunFrames, ReadingOf
  <2> QED BY <1>2, <2>1
          DEF Reports, ServiceUnchanged, controllerVars, RunInv, RunTypes, Shape,
              Shown, ShownAhead, MayRun
<1>3. CASE Ends
  <2>1. MayRun' => MayRun
    BY <1>3 DEF Ends, vars, MayRun
  <2>2. excused' \in BOOLEAN /\ (MayRun' => excused' = excused)
    BY <1>3, ExcuseKept DEF Ends, RunInv, RunTypes
  <2> QED BY <1>3, <2>1, <2>2
          DEF Ends, vars, RunInv, RunTypes, Shape, Shown, ShownAhead
<1>4. CASE Restart
  <2>1. Shape'
    BY <1>4, InitialShape DEF Restart, Shape, Shown, InitialStatus
  <2>2. MayRun' => excused'
    BY <1>1, <1>4 DEF Restart, MayRun
  <2>3. RunTypes'
    BY <1>4, SeqModulusPos DEF Restart, RunInv, RunTypes, TestStartQueued
  <2> QED BY <2>1, <2>2, <2>3 DEF RunInv, ShownAhead
<1> QED BY <1>2, <1>3, <1>4

LEMMA RunBegins == RunInit => RunInv
<1> SUFFICES ASSUME RunInit PROVE RunInv
  OBVIOUS
<1> DEFINE N == SeqModulus
<1>4. 0 \in 0 .. N - 1
  <2>1. N \in Nat /\ N # 0
    BY SeqModulusPos
  <2> HIDE DEF N
  <2> QED BY <2>1
<1>5. canTx = <<>> /\ canRx = <<>> /\ sequence = 0 /\ rx = "off"
      /\ run = 0 /\ excused = FALSE
  BY DEF RunInit, Init
<1>6. <<>> \in Seq(TxFrames) /\ <<>> \in Seq(RunFrames)
  OBVIOUS
<1>1. RunTypes
  BY <1>4, <1>5, <1>6 DEF RunTypes
<1>2. Shape
  BY InitialShape DEF RunInit, Init, Shape, Shown, InitialStatus
<1>3. ShownAhead
  BY DEF RunInit, Init, ShownAhead, MayRun, TestAhead
<1> QED BY <1>1, <1>2, <1>3 DEF RunInv

LEMMA RunStep == RunInv /\ [RunNext]_allVars => RunInv'
<1>1. ASSUME RunInv, UNCHANGED allVars PROVE RunInv'
  BY <1>1 DEF allVars, vars, controllerVars, RunInv, RunTypes, Shape, Shown,
              ShownAhead, MayRun
<1> QED BY <1>1, ServiceRuns, ControllerRuns, TestRuns DEF RunNext

(* No sequence of commands, failed sends, refused starts and endings hides a  *)
(* test that loads the cells, but for the three reasons of the history: a     *)
(* restart of the gateway under it, a raw measurement_start that began it,    *)
(* and a stop the controller refused. The flag follows the last command that  *)
(* was really sent (main.py, /api/command), raw measurement_start excepted.   *)
THEOREM TestShown == RunSpec => []TestIsShown
<1>1. RunInv => TestIsShown
  BY DEF RunInv, ShownAhead, MayRun, NoStops, StopFrame, TestIsShown,
         CommandsInFlight, Shown
<1> QED BY <1>1, RunBegins, RunStep, PTL DEF RunSpec

-----------------------------------------------------------------------------
(* MeasurementRun: readings of the tests arrive in the order of the tests.    *)

IsReading(f) == f.name = "cell_resistances"

InOrder(q) ==
    \A i \in DOMAIN q : IsReading(q[i]) =>
        \A j \in DOMAIN q : i < j /\ IsReading(q[j]) => q[i].values[1] <= q[j].values[1]

UpTo(q, n) == \A i \in DOMAIN q : IsReading(q[i]) => q[i].values[1] <= n
From(q, n) == \A i \in DOMAIN q : IsReading(q[i]) => q[i].values[1] >= n

(* The frame the rx task holds.                                               *)
Held == IF rx = "got" THEN rxMsg ELSE <<>>

(* From the table over the frame held and the queue to the controller, no     *)
(* reading is of an earlier test than those before it.                        *)
Order ==
    /\ UpTo(canRx, run) /\ UpTo(Held, run)
    /\ InOrder(canRx)
    /\ \A i \in DOMAIN Held : IsReading(Held[i]) => From(canRx, Held[i].values[1])
    /\ \/ status.cell_resistances = <<>>
       \/ \E k \in 0 .. run : /\ status.cell_resistances = <<k>>
                              /\ From(Held, k) /\ From(canRx, k)

OrderInv == RunInv /\ Order

LEMMA ReadingFrames ==
    \A f \in RunFrames : IsReading(f) =>
        f.values[1] \in Nat /\ f.first = 0 /\ f.values = <<f.values[1]>>
<1> TAKE f \in RunFrames
<1>1. ASSUME NEW n \in Nat, f = ReadingOf(n)
      PROVE  f.values[1] \in Nat /\ f.first = 0 /\ f.values = <<f.values[1]>>
  BY <1>1 DEF ReadingOf
<1>2. ASSUME NEW a, f = AckOf(a) PROVE ~IsReading(f)
  BY <1>2 DEF AckOf, IsReading
<1> QED BY <1>1, <1>2 DEF RunFrames

LEMMA ReadingPut ==
    ASSUME NEW q \in Seq(RunFrames), NEW f \in RunFrames, NEW n \in Nat
    PROVE  /\ UpTo(q, n) /\ (IsReading(f) => f.values[1] <= n) => UpTo(Append(q, f), n)
           /\ From(q, n) /\ (IsReading(f) => f.values[1] >= n) => From(Append(q, f), n)
           /\ InOrder(q) /\ (IsReading(f) => UpTo(q, f.values[1]))
                  => InOrder(Append(q, f))
<1> DEFINE a == Append(q, f)
           l == Len(q)
<1>1. /\ l \in Nat /\ DOMAIN q = 1 .. l /\ DOMAIN a = 1 .. l + 1
      /\ \A i \in 1 .. l : a[i] = q[i]
      /\ a[l + 1] = f
  BY AppendProperties, LenProperties
<1> HIDE DEF a, l
<1>2. \A i \in 1 .. l + 1 : i \in 1 .. l \/ i = l + 1
  BY <1>1
<1>3. UpTo(q, n) /\ (IsReading(f) => f.values[1] <= n) => UpTo(a, n)
  BY <1>1, <1>2 DEF UpTo
<1>4. From(q, n) /\ (IsReading(f) => f.values[1] >= n) => From(a, n)
  BY <1>1, <1>2 DEF From
<1>5. ASSUME InOrder(q), IsReading(f) => UpTo(q, f.values[1])
      PROVE  InOrder(a)
  <2>1. SUFFICES ASSUME NEW i \in 1 .. l + 1, IsReading(a[i]),
                        NEW j \in 1 .. l + 1, i < j, IsReading(a[j])
                 PROVE  a[i].values[1] <= a[j].values[1]
    BY <1>1 DEF InOrder
  <2>2. i \in 1 .. l
    BY <1>1, <2>1
  <2>3. CASE j \in 1 .. l
    BY <1>1, <1>5, <2>1, <2>2, <2>3 DEF InOrder
  <2>4. CASE j = l + 1
    BY <1>1, <1>5, <2>1, <2>2, <2>4 DEF UpTo
  <2> QED BY <1>2, <2>3, <2>4
<1> QED BY <1>3, <1>4, <1>5 DEF a

LEMMA ReadingTaken ==
    ASSUME NEW q \in Seq(RunFrames), q # <<>>, NEW n \in Nat
    PROVE  /\ Head(q) \in RunFrames
           /\ UpTo(q, n) => UpTo(Tail(q), n) /\ UpTo(<<Head(q)>>, n)
           /\ From(q, n) => From(Tail(q), n) /\ From(<<Head(q)>>, n)
           /\ InOrder(q) => /\ InOrder(Tail(q))
                            /\ IsReading(Head(q)) => From(Tail(q), Head(q).values[1])
<1> DEFINE t == Tail(q)
           h == Head(q)
           l == Len(q)
<1>1. /\ h \in RunFrames /\ h = q[1] /\ l \in Nat /\ l >= 1
      /\ DOMAIN q = 1 .. l /\ DOMAIN t = 1 .. l - 1
      /\ \A i \in 1 .. l - 1 : t[i] = q[i + 1]
  BY HeadTailProperties, LenProperties, EmptySeq
<1> HIDE DEF t, h, l
<1>2. \A i \in 1 .. l - 1 : i + 1 \in 1 .. l /\ 1 < i + 1
  BY <1>1
<1>3. 1 \in 1 .. l /\ \A i \in DOMAIN <<h>> : <<h>>[i] = h
  BY <1>1
<1>4. UpTo(q, n) => UpTo(t, n) /\ UpTo(<<h>>, n)
  BY <1>1, <1>2, <1>3 DEF UpTo
<1>5. From(q, n) => From(t, n) /\ From(<<h>>, n)
  BY <1>1, <1>2, <1>3 DEF From
<1>6. ASSUME InOrder(q) PROVE InOrder(t)
  <2>1. SUFFICES ASSUME NEW i \in 1 .. l - 1, IsReading(t[i]),
                        NEW j \in 1 .. l - 1, i < j, IsReading(t[j])
                 PROVE  t[i].values[1] <= t[j].values[1]
    BY <1>1 DEF InOrder
  <2>2. i + 1 \in 1 .. l /\ j + 1 \in 1 .. l /\ i + 1 < j + 1
    BY <1>1, <2>1
  <2>3. t[i] = q[i + 1] /\ t[j] = q[j + 1]
    BY <1>1
  <2> QED BY <1>1, <1>6, <2>1, <2>2, <2>3 DEF InOrder
<1>7. ASSUME InOrder(q), IsReading(h) PROVE From(t, h.values[1])
  <2>1. SUFFICES ASSUME NEW i \in 1 .. l - 1, IsReading(t[i])
                 PROVE  t[i].values[1] >= h.values[1]
    BY <1>1 DEF From
  <2>2. h.values[1] <= t[i].values[1]
    BY <1>1, <1>2, <1>3, <1>7, <2>1 DEF InOrder
  <2>3. h.values[1] \in Nat /\ t[i].values[1] \in Nat
    <3>1. t[i] \in RunFrames
      BY <1>1, <1>2, <2>1, ElementOfSeq
    <3> QED BY <1>1, <1>7, <2>1, <3>1, ReadingFrames
  <2> QED BY <2>2, <2>3
<1> QED BY <1>1, <1>4, <1>5, <1>6, <1>7 DEF t, h

-----------------------------------------------------------------------------
(* A frame of the controller: a reading is of the latest test.                *)
LEMMA EmittedInOrder ==
    ASSUME OrderInv, UNCHANGED <<status, rx, rxMsg>>, run' \in Nat, run <= run',
           canRx' = canRx \/ \E f \in RunFrames :
               canRx' = Append(canRx, f) /\ (IsReading(f) => f.values[1] = run)
    PROVE  Order'
<1>1. canRx \in Seq(RunFrames) /\ run \in Nat
  BY DEF OrderInv, RunInv, RunTypes
<1>2. \A f \in RunFrames : IsReading(f) => f.values[1] \in Nat
  BY ReadingFrames
<1>3. Held' = Held
  BY DEF Held
<1>4. \A i \in DOMAIN Held : Held[i] \in RunFrames
  BY DEF Held, OrderInv, RunInv, RunTypes
<1>5. \A i \in DOMAIN canRx : canRx[i] \in RunFrames
  BY <1>1, ElementOfSeq
<1>6. UpTo(Held, run')
  BY <1>1, <1>2, <1>4 DEF OrderInv, Order, UpTo
<1>7. UpTo(canRx, run')
  BY <1>1, <1>2, <1>5 DEF OrderInv, Order, UpTo
<1>8. \A k \in 0 .. run : k \in 0 .. run' /\ k \in Nat /\ run >= k
  BY <1>1
<1>9. CASE canRx' = canRx
  BY <1>3, <1>6, <1>7, <1>8, <1>9 DEF OrderInv, Order
<1>10. ASSUME NEW f \in RunFrames, canRx' = Append(canRx, f),
              IsReading(f) => f.values[1] = run
       PROVE  Order'
  <2>1. UpTo(canRx', run')
    BY <1>1, <1>7, <1>10, ReadingPut
  <2>2. InOrder(canRx')
    BY <1>1, <1>10, ReadingPut DEF OrderInv, Order
  <2>3. ASSUME NEW i \in DOMAIN Held, IsReading(Held[i])
        PROVE  From(canRx', Held[i].values[1])
    <3>1. Held[i].values[1] \in Nat /\ Held[i].values[1] <= run
      BY <1>2, <1>4, <2>3 DEF OrderInv, Order, UpTo
    <3>2. From(canRx, Held[i].values[1])
      BY <2>3 DEF OrderInv, Order
    <3>3. IsReading(f) => f.values[1] >= Held[i].values[1]
      BY <1>1, <1>10, <3>1
    <3> QED BY <1>1, <1>10, <3>1, <3>2, <3>3, ReadingPut
  <2>4. ASSUME NEW k \in 0 .. run, From(canRx, k) PROVE From(canRx', k)
    BY <1>1, <1>8, <1>10, <2>4, ReadingPut
  <2> QED BY <1>3, <1>6, <1>8, <2>1, <2>2, <2>3, <2>4 DEF OrderInv, Order
<1> QED BY <1>9, <1>10

LEMMA OneCell ==
    ASSUME NEW n \in Nat, NEW table,
           table = <<>> \/ \E k : table = <<k>>
    PROVE  Store(table, 0, <<n>>) = <<n>>
<1>1. Max({Len(table), 0 + Len(<<n>>)}) = 1
  <2>1. Len(table) \in {0, 1} /\ 0 + Len(<<n>>) = 1
    OBVIOUS
  <2>2. ASSUME NEW l \in {0, 1} PROVE Max({l, 1}) = 1
    <3>1. \E x \in {l, 1} : \A y \in {l, 1} : x >= y
      BY SMT
    <3> QED BY <3>1 DEF Max
  <2> QED BY <2>1, <2>2
<1>2. \A i \in 1 .. 1 : i - 0 \in DOMAIN <<n>> /\ <<n>>[i - 0] = n
  OBVIOUS
<1>3. Store(table, 0, <<n>>) = [i \in 1 .. 1 |-> n]
  BY <1>1, <1>2 DEF Store
<1> QED BY <1>3

(* The table takes the reading held, or keeps what it has.                    *)
LEMMA AppliedInOrder ==
    ASSUME OrderInv, RxApply("returned"), run' = run
    PROVE  /\ Order'
           /\ \A i \in DOMAIN status.cell_resistances \cap
                       DOMAIN status'.cell_resistances :
                  status'.cell_resistances[i] >= status.cell_resistances[i]
<1>1. PICK f \in RunFrames : rxMsg = <<f>>
  BY DEF RxApply, OrderInv, RunInv, RunTypes
<1>2. Decodable(f) /\ status' = Apply(status, f) /\ rx = "got" /\ rx' = "recv"
  BY <1>1 DEF RxApply, After
<1>3. canRx' = canRx /\ run' = run /\ run \in Nat
  BY DEF RxApply, OrderInv, RunInv, RunTypes
<1>4. /\ Held' = <<>> /\ DOMAIN Held = {1} /\ Held[1] = f
  BY <1>1, <1>2 DEF Held
<1>5. Decoded(f)
  <2>1. f.name # "cell_voltages"
    <3>1. \A n, a : ReadingOf(n).name # "cell_voltages" /\ AckOf(a).name # "cell_voltages"
      BY DEF ReadingOf, AckOf
    <3> QED BY <3>1 DEF RunFrames
  <2>2. ASSUME f.name = "cell_resistances" PROVE f.first \in Nat /\ f.values \in Seq(Nat)
    <3>1. f.values[1] \in Nat /\ f.first = 0 /\ f.values = <<f.values[1]>>
      BY <2>2, ReadingFrames DEF IsReading
    <3> DEFINE n == f.values[1]
    <3>2. n \in Nat /\ f.values = <<n>> /\ f.first = 0
      BY <3>1
    <3> HIDE DEF n
    <3> QED BY <3>2
  <2> QED BY <2>1, <2>2 DEF Decoded
<1> DEFINE table == status.cell_resistances
           new == status'.cell_resistances
<1>6. \/ new = table
      \/ IsReading(f) /\ new = Store(table, f.first, f.values)
  BY <1>2, <1>5, FrameApplied DEF OrderInv, RunInv, Shape, IsReading
<1>7. UpTo(Held', run') /\ \A k : From(Held', k)
  BY <1>4 DEF UpTo, From
<1>8. CASE new = table
  <2>1. Order'
    BY <1>3, <1>4, <1>7, <1>8 DEF OrderInv, Order
  <2>2. \A i \in DOMAIN table : table[i] \in Nat
    BY <1>3 DEF OrderInv, Order
  <2> QED BY <1>8, <2>1, <2>2
<1>9. CASE IsReading(f) /\ new = Store(table, f.first, f.values)
  <2> DEFINE n == f.values[1]
  <2>1. n \in Nat /\ f.first = 0 /\ f.values = <<n>>
    BY <1>9, ReadingFrames
  <2>2. new = <<n>>
    BY <1>9, <2>1, OneCell DEF OrderInv, Order
  <2>3. n <= run /\ From(canRx, n)
    BY <1>4, <1>9 DEF OrderInv, Order, UpTo
  <2>4. ASSUME NEW k \in 0 .. run, table = <<k>>, From(Held, k) PROVE n >= k
    BY <1>4, <1>9, <2>4 DEF From
  <2> HIDE DEF n
  <2>5. n \in 0 .. run
    BY <1>3, <2>1, <2>3
  <2>6. Order'
    BY <1>3, <1>4, <1>7, <2>2, <2>3, <2>5 DEF OrderInv, Order
  <2>7. ASSUME NEW i \in DOMAIN table \cap DOMAIN new PROVE new[i] >= table[i]
    <3>1. PICK k \in 0 .. run : table = <<k>> /\ From(Held, k)
      BY DEF OrderInv, Order
    <3> HIDE DEF table, new
    <3>2. i = 1
      BY <3>1
    <3> QED BY <2>2, <2>4, <3>1, <3>2
  <2> QED BY <2>6, <2>7
<1> QED BY <1>6, <1>8, <1>9

LEMMA TableKept ==
    ASSUME Order, run \in Nat, status'.cell_resistances = status.cell_resistances
    PROVE  \A i \in DOMAIN status.cell_resistances \cap
                    DOMAIN status'.cell_resistances :
               status'.cell_resistances[i] >= status.cell_resistances[i]
<1>1. \A i \in DOMAIN status.cell_resistances : status.cell_resistances[i] \in Nat
  BY DEF Order
<1> QED BY <1>1

Newer ==
    \A i \in DOMAIN status.cell_resistances \cap DOMAIN status'.cell_resistances :
        status'.cell_resistances[i] >= status.cell_resistances[i]

LEMMA ServiceInOrder ==
    ASSUME OrderInv, Service
    PROVE  Order' /\ Newer
<1>1. run \in Nat /\ run' = run /\ canRx \in Seq(RunFrames)
  BY DEF Service, Command, controllerVars, OrderInv, RunInv, RunTypes
<1>2. status = [x \in Fields |-> status[x]]
  BY DEF OrderInv, RunInv, Shape, Shaped
<1>3. CASE Start \/ Heartbeat \/ \E r \in Requests : Command(r)
  <2>1. /\ canRx' = canRx /\ rxMsg' = rxMsg
        /\ rx' = rx \/ (rx' \in {"recv", "idle"})
    BY <1>3 DEF Start, Heartbeat, Command, CommandSent, CommandFails
  <2>2. status'.cell_resistances = status.cell_resistances
    <3>1. \/ UNCHANGED status
          \/ \E on : status' = [status EXCEPT !.can_error = on]
          \/ \E on : status' = [status EXCEPT !.resistance_measurement_running = on]
      BY <1>3 DEF Start, Heartbeat, Command, CommandSent, CommandFails
    <3> QED BY <1>2, <3>1 DEF Fields
  <2>3. Held' = Held \/ Held' = <<>>
    BY <2>1 DEF Held
  <2>4. UpTo(<<>>, run) /\ \A k : From(<<>>, k)
    BY DEF UpTo, From
  <2>5. Order'
    BY <1>1, <2>1, <2>2, <2>3, <2>4 DEF OrderInv, Order
  <2> QED BY <1>1, <2>2, <2>5, TableKept DEF OrderInv, Newer
<1>4. CASE RxReceive
  <2>1. /\ canRx # <<>> /\ canRx' = Tail(canRx) /\ status' = status
        /\ Held' = <<Head(canRx)>> /\ Held = <<>>
    BY <1>4 DEF RxReceive, Held
  <2>2. UpTo(canRx', run) /\ UpTo(Held', run)
    BY <1>1, <2>1, ReadingTaken DEF OrderInv, Order
  <2>3. InOrder(canRx') /\ (IsReading(Head(canRx)) => From(canRx', Head(canRx).values[1]))
    BY <1>1, <2>1, ReadingTaken DEF OrderInv, Order
  <2>4. \A i \in DOMAIN Held' : Held'[i] = Head(canRx)
    BY <2>1
  <2>5. ASSUME NEW k \in 0 .. run, From(canRx, k) PROVE From(canRx', k) /\ From(Held', k)
    BY <1>1, <2>1, <2>5, ReadingTaken
  <2>6. Order'
    BY <1>1, <2>1, <2>2, <2>3, <2>4, <2>5 DEF OrderInv, Order
  <2> QED BY <1>1, <2>1, <2>6, TableKept DEF OrderInv, Newer
<1>5. CASE RxApply("returned")
  BY <1>1, <1>5, AppliedInOrder DEF Newer
<1> QED BY <1>3, <1>4, <1>5 DEF Service

LEMMA RunInOrder ==
    ASSUME OrderInv, [RunNext]_allVars
    PROVE  OrderInv' /\ Newer
<1>1. RunInv'
  BY RunStep DEF OrderInv
<1>2. run \in Nat /\ run' \in Nat
  BY <1>1 DEF OrderInv, RunInv, RunTypes
<1>3. CASE Service
  BY <1>1, <1>3, ServiceInOrder DEF OrderInv
<1>4. CASE TakesHeartbeat \/ TakesStart \/ TakesStop \/ TakesOther
  <2>1. UNCHANGED <<status, rx, rxMsg>>
    BY <1>4 DEF TakesHeartbeat, TakesStart, TakesStop, TakesOther,
           ServiceUnchanged
  <2>2. run <= run'
    <3>1. run' = run \/ run' = run + 1
      BY <1>4 DEF TakesHeartbeat, TakesStart, TakesStop, TakesOther, controllerVars
    <3> QED BY <1>2, <3>1
  <2> DEFINE m == Head(canTx)
             ack(result) == [id |-> m.id, seq |-> m.seq, result |-> result]
  <2>3. \/ canRx' = canRx
        \/ /\ m.kind = "command"
           /\ canRx' = Append(canRx, AckOf(ack("ok")))
              \/ canRx' = Append(canRx, AckOf(ack("rejected")))
    BY <1>4 DEF TakesHeartbeat, TakesStart, TakesStop, TakesOther, StartsTest,
                  Ack, Emit, AckOf
  <2>4. m.kind = "command" =>
            AckOf(ack("ok")) \in RunFrames /\ AckOf(ack("rejected")) \in RunFrames
    <3>1. m \in TxFrames
      <4>1. canTx # <<>> /\ canTx \in Seq(TxFrames)
        BY <1>4 DEF TakesHeartbeat, TakesStart, TakesStop, TakesOther,
               OrderInv, RunInv, RunTypes
      <4> QED BY <4>1, HeadTailProperties
    <3>2. m.kind = "command" => ack("ok") \in RunAcks /\ ack("rejected") \in RunAcks
      BY <3>1 DEF TxFrames, RunAcks
    <3> HIDE DEF ack
    <3> QED BY <3>2 DEF RunFrames
  <2>5. \A a : ~IsReading(AckOf(a))
    BY DEF IsReading, AckOf
  <2> HIDE DEF m, ack
  <2>6. Order'
    BY <1>2, <2>1, <2>2, <2>3, <2>4, <2>5, EmittedInOrder
  <2> QED BY <1>1, <1>2, <2>1, <2>6, TableKept DEF OrderInv, Newer
<1>5. CASE Reports
  <2>1. UNCHANGED <<status, rx, rxMsg, run>>
    BY <1>5 DEF Reports, ServiceUnchanged, controllerVars
  <2>2. canRx' = canRx \/ canRx' = Append(canRx, ReadingOf(run))
    BY <1>5 DEF Reports, Emit, ReadingOf
  <2>3. ReadingOf(run) \in RunFrames /\ ReadingOf(run).values[1] = run
    BY <1>2 DEF RunFrames, ReadingOf
  <2>4. Order'
    BY <1>2, <2>1, <2>2, <2>3, EmittedInOrder
  <2> QED BY <1>1, <1>2, <2>1, <2>4, TableKept DEF OrderInv, Newer
<1>6. CASE Ends \/ UNCHANGED allVars
  <2>1. UNCHANGED <<status, rx, rxMsg, run, canRx>>
    BY <1>6 DEF Ends, vars, allVars, controllerVars
  <2>2. Order'
    BY <2>1 DEF OrderInv, Order, Held
  <2> QED BY <1>1, <1>2, <2>1, <2>2, TableKept DEF OrderInv, Newer
<1>7. CASE Restart
  <2>1. status'.cell_resistances = <<>> /\ canRx' = <<>> /\ Held' = <<>>
    BY <1>7 DEF Restart, InitialStatus, Held
  <2> QED BY <1>1, <2>1 DEF OrderInv, Order, UpTo, InOrder, Newer
<1> QED BY <1>3, <1>4, <1>5, <1>6, <1>7 DEF RunNext, Controller

(* However commands, readings, restarts of the gateway and losses of its      *)
(* queue interleave, a reading of an earlier test never takes the place of    *)
(* one of a later test: the rx task folds frames in the order they came       *)
(* (_rx_loop of can_service.py).                                              *)
THEOREM NewestKept == RunSpec => NewestTestWins
<1>1. RunInit => OrderInv
  <2> SUFFICES ASSUME RunInit PROVE Order
    BY RunBegins DEF OrderInv
  <2>1. canRx = <<>> /\ Held = <<>> /\ status.cell_resistances = <<>>
    BY DEF RunInit, Init, InitialStatus, Held
  <2> QED BY <2>1 DEF Order, UpTo, InOrder
<1>2. OrderInv /\ [RunNext]_allVars => OrderInv'
  BY RunInOrder
<1>3. OrderInv /\ [RunNext]_allVars => [Newer]_allVars
  BY RunInOrder
<1> QED BY <1>1, <1>2, <1>3, PTL DEF RunSpec, NewestTestWins, Newer

-----------------------------------------------------------------------------
(* SimulatedBus: what is shown was measured.                                  *)

(* What may be shown for a cell, by its number from 1.                        *)
ShownVoltages ==
    [i \in Nat \ {0} |-> {v \in Reading : CellShows(SimulatedVoltage, i, v)}]
ShownResistances ==
    [i \in Nat \ {0} |-> {v \in Reading : CellShows(SimulatedResistance, i, v)}]

Fits(table, shown) == \A i \in DOMAIN table : table[i] \in shown[i]

FitsFrom(first, values, shown) ==
    /\ first \in Nat /\ values \in Seq(Nat)
    /\ \A k \in DOMAIN values : values[k] \in shown[first + k]

(* A frame that was sent, by kind.                                            *)
SentFrame(f) ==
    /\ f.name = "cell_voltages" => FitsFrom(f.first, f.values, ShownVoltages)
    /\ f.name = "cell_resistances" => FitsFrom(f.first, f.values, ShownResistances)
    /\ f.name = "pack_measurement" => f.payload.current_ca \in Currents
    /\ f.name = "command_ack" =>
           \E a \in Acks : f.payload = [command_id |-> a.command,
               command_seq |-> a.seq, result_code |-> a.result,
               reject_reason |-> a.reason]

(* A table grows by a packet, cell by cell: none moves, and a gap is None.    *)
LEMMA StoreFits ==
    ASSUME NEW shown, \A i \in Nat \ {0} : None \in shown[i],
           NEW table \in Seq(Reading), Fits(table, shown),
           NEW first, NEW values, FitsFrom(first, values, shown)
    PROVE  Fits(Store(table, first, values), shown)
<1> DEFINE n == Max({Len(table), first + Len(values)})
           cell(i) == IF i - first \in DOMAIN values THEN values[i - first]
                      ELSE IF i \in DOMAIN table THEN table[i] ELSE None
<1>1. n \in Nat
  <2>1. Len(table) \in Nat /\ first + Len(values) \in Nat
    BY DEF FitsFrom
  <2> QED BY <2>1, MaxOfTwo
<1>2. Store(table, first, values) = [i \in 1 .. n |-> cell(i)]
  BY DEF Store
<1>3. ASSUME NEW i \in 1 .. n PROVE cell(i) \in shown[i]
  <2>1. i \in Nat \ {0} /\ first \in Nat
    BY <1>1 DEF FitsFrom
  <2>2. CASE i - first \in DOMAIN values
    <3>1. first + (i - first) = i
      BY <2>1
    <3> QED BY <2>2, <3>1 DEF FitsFrom
  <2>3. CASE i - first \notin DOMAIN values
    BY <2>1, <2>3 DEF Fits
  <2> QED BY <2>2, <2>3
<1> HIDE DEF n, cell
<1> QED BY <1>2, <1>3 DEF Fits

(* The readings of a packet are admitted where its first index puts them.     *)
LEMMA PacketFits ==
    ASSUME NEW c \in Counters, NEW p \in 0 .. 15, NEW v \in [1 .. 3 -> Words],
           CellCount(Cells) \in 1 .. 48
    PROVE  /\ Carries(v, p, CellCount(Cells), VoltagesOf(c)) =>
                  FitsFrom(3 * p, <<v[1], v[2], v[3]>>, ShownVoltages)
           /\ Carries(v, p, CellCount(Cells), ResistancesOf(c)) =>
                  FitsFrom(3 * p, <<v[1], v[2], v[3]>>, ShownResistances)
<1> DEFINE n == CellCount(Cells)
           values == <<v[1], v[2], v[3]>>
<1>1. /\ values \in Seq(Nat) /\ DOMAIN values = 1 .. 3
      /\ \A k \in 1 .. 3 : values[k] = v[k] /\ v[k] \in Nat
  BY BytesNat
<1>2. 3 * p \in Nat
  OBVIOUS
<1> HIDE DEF values
<1>3. ASSUME NEW k \in 1 .. 3
      PROVE  /\ 3 * p + k \in Nat \ {0} /\ v[k] \in Reading
             /\ (3 * p + k - 1 >= n) <=> (3 * p + k > n)
             /\ ~(3 * p + k > n) => 3 * p + k - 1 \in 0 .. 47
  <2>1. v[k] \in Reading
    BY <1>1 DEF Reading
  <2>2. n \in 1 .. 48
    OBVIOUS
  <2> HIDE DEF n
  <2> QED BY <2>1, <2>2
<1>4. ASSUME Carries(v, p, n, VoltagesOf(c)), NEW k \in 1 .. 3
      PROVE  v[k] \in ShownVoltages[3 * p + k]
  <2>1. CASE 3 * p + k > n
    <3>1. v[k] = 0
      BY <1>3, <1>4, <2>1 DEF Carries
    <3> QED BY <1>3, <2>1, <3>1 DEF ShownVoltages, CellShows
  <2>2. CASE ~(3 * p + k > n)
    <3>1. v[k] = SimulatedVoltage(c, 3 * p + k - 1)
      BY <1>3, <1>4, <2>2 DEF Carries, VoltagesOf
    <3> QED BY <1>3, <2>2, <3>1 DEF ShownVoltages, CellShows
  <2> QED BY <2>1, <2>2
<1>5. ASSUME Carries(v, p, n, ResistancesOf(c)), NEW k \in 1 .. 3
      PROVE  v[k] \in ShownResistances[3 * p + k]
  <2>1. CASE 3 * p + k > n
    <3>1. v[k] = 0
      BY <1>3, <1>5, <2>1 DEF Carries
    <3> QED BY <1>3, <2>1, <3>1 DEF ShownResistances, CellShows
  <2>2. CASE ~(3 * p + k > n)
    <3>1. v[k] = SimulatedResistance(c, 3 * p + k - 1)
      BY <1>3, <1>5, <2>2 DEF Carries, ResistancesOf
    <3> QED BY <1>3, <2>2, <3>1 DEF ShownResistances, CellShows
  <2> QED BY <2>1, <2>2
<1> QED BY <1>1, <1>2, <1>4, <1>5 DEF FitsFrom, values

(* What the service receives from the simulator, and from the controller.     *)
LEMMA CellsSent ==
    ASSUME NEW m \in SimulatorMessages, IsCellMessage(m)
    PROVE  SentFrame(DecodeFrame(m.id, m.data))
<1> DEFINE f == DecodeFrame(m.id, m.data)
           n == CellCount(Cells)
<1>1. PICK c \in Counters : m \in ToSet(Cycle(c, Cells, 2))
  BY DEF SimulatorMessages
<1>2. c \in Nat /\ Cells \in Nat
  BY CountersNat
<1>3. n \in 1 .. 48 /\ m \in CellPacketsOf(c, n) \cup {BuildFault(c)}
  BY <1>1, <1>2, CycleMessages DEF IsCellMessage
<1> HIDE DEF n
<1>4. CASE m = BuildFault(c)
  <2>1. m.id = 384
    BY <1>4 DEF BuildFault, FaultId
  <2>2. f = DecodeFault(Padded(m.data))
    BY <2>1 DEF DecodeFrame, SystemStatusId, PackMeasurementId, CellVoltageBase,
                FaultId, CellResistanceBase, CommandFrameId, CommandAckId
  <2>3. f.name = "fault"
    BY <2>2 DEF DecodeFault
  <2> HIDE DEF f
  <2> QED BY <2>3 DEF SentFrame, f
<1>5. ASSUME NEW p \in 0 .. 15, m = BuildCellVoltages(c, p, n)
      PROVE  SentFrame(f)
  <2>1. PICK v \in [1 .. 3 -> Words] :
          m = CellPacket(CellVoltageBase, p, v) /\ Carries(v, p, n, VoltagesOf(c))
    BY <1>2, <1>3, <1>5, PacketsCarry
  <2>2. f = [name |-> "cell_voltages", first |-> 3 * p,
             values |-> <<v[1], v[2], v[3]>>]
    BY <2>1, CellPacketRoundTrip
  <2>3. FitsFrom(3 * p, <<v[1], v[2], v[3]>>, ShownVoltages)
    BY <1>3, <2>1, PacketFits DEF n
  <2> HIDE DEF f
  <2>4. /\ f.name = "cell_voltages" /\ f.first = 3 * p
        /\ f.values = <<v[1], v[2], v[3]>>
    BY <2>2
  <2> QED BY <2>3, <2>4 DEF SentFrame, f
<1>6. ASSUME NEW p \in 0 .. 15, m = BuildCellResistances(c, p, n)
      PROVE  SentFrame(f)
  <2>1. PICK v \in [1 .. 3 -> Words] :
          m = CellPacket(CellResistanceBase, p, v) /\ Carries(v, p, n, ResistancesOf(c))
    BY <1>2, <1>3, <1>6, PacketsCarry
  <2>2. f = [name |-> "cell_resistances", first |-> 3 * p,
             values |-> <<v[1], v[2], v[3]>>]
    BY <2>1, ResistancePacketRoundTrip
  <2>3. FitsFrom(3 * p, <<v[1], v[2], v[3]>>, ShownResistances)
    BY <1>3, <2>1, PacketFits DEF n
  <2> HIDE DEF f
  <2>4. /\ f.name = "cell_resistances" /\ f.first = 3 * p
        /\ f.values = <<v[1], v[2], v[3]>>
    BY <2>2
  <2> QED BY <2>3, <2>4 DEF SentFrame, f
<1> QED BY <1>3, <1>4, <1>5, <1>6 DEF CellPacketsOf

LEMMA ControllerSent ==
    ASSUME NEW m \in ControllerMessages
    PROVE  SentFrame(DecodeFrame(m.id, m.data))
<1> DEFINE f == DecodeFrame(m.id, m.data)
           d == Padded(m.data)
<1>1. ASSUME NEW i \in Currents, m = PackMessage(i) PROVE SentFrame(f)
  <2>1. m.id = 288
    BY <1>1 DEF PackMessage, PackMeasurementId
  <2>2. d[3] = LowByte(i) /\ d[4] = LowByte(Shifted(i))
    BY <1>1 DEF PackMessage, WordBytes, Padded
  <2>3. f = DecodePackMeasurement(d)
    <3>1. DecodeFrame(288, m.data) = DecodePackMeasurement(d)
      BY DEF DecodeFrame, SystemStatusId, PackMeasurementId, CellVoltageBase,
             FaultId, CellResistanceBase, CommandFrameId, CommandAckId
    <3> QED BY <2>1, <3>1
  <2>4. Signed(Word(d, 3)) = i
    <3>1. i \in Int16
      BY CurrentsFit
    <3> QED BY <2>2, <3>1, SignedRoundTrip DEF Word
  <2>5. f.name = "pack_measurement" /\ f.payload.current_ca = i
    BY <2>3, <2>4 DEF DecodePackMeasurement
  <2> HIDE DEF f
  <2> QED BY <2>5 DEF SentFrame, f
<1>2. ASSUME NEW a \in Acks,
             m = EncodeCommandAck(a.command, a.seq, a.result, a.reason)
      PROVE  SentFrame(f)
  <2>1. m.id = 624
    BY <1>2 DEF EncodeCommandAck, CommandAckId
  <2>2. /\ d[1] = LowByte(a.command) /\ d[2] = LowByte(a.seq)
        /\ d[3] = LowByte(a.result) /\ d[4] = LowByte(a.reason)
    BY <1>2 DEF EncodeCommandAck, Padded
  <2>3. \A b \in Byte : LowByte(b) = b
    BY SMT DEF Byte, LowByte
  <2>4. f = DecodeCommandAck(d)
    <3>1. DecodeFrame(624, m.data) = DecodeCommandAck(d)
      BY DEF DecodeFrame, SystemStatusId, PackMeasurementId, CellVoltageBase,
             FaultId, CellResistanceBase, CommandFrameId, CommandAckId
    <3> QED BY <2>1, <3>1
  <2> HIDE DEF d
  <2>5. /\ d[1] = a.command /\ d[2] = a.seq /\ d[3] = a.result
        /\ d[4] = a.reason
    BY <2>2, <2>3, AcksFit
  <2> HIDE DEF f
  <2>6. /\ f.name = "command_ack"
        /\ f.payload = [command_id |-> a.command, command_seq |-> a.seq,
                        result_code |-> a.result, reject_reason |-> a.reason]
    BY <2>4, <2>5 DEF DecodeCommandAck
  <2> QED BY <2>6 DEF SentFrame, f
<1>3. ASSUME m = RelayStatusMessage PROVE SentFrame(f)
  <2>1. m.id = 304
    BY <1>3 DEF RelayStatusMessage
  <2>2. f = NoFrame
    BY <2>1 DEF DecodeFrame, SystemStatusId, PackMeasurementId, CellVoltageBase,
                FaultId, CellResistanceBase, CommandFrameId, CommandAckId
  <2> QED BY <2>2 DEF NoFrame, SentFrame
<1> QED BY <1>1, <1>2, <1>3 DEF ControllerMessages

LEMMA SimulatedSent == \A f \in SimulatedFrames : SentFrame(f)
BY CellsSent, ControllerSent DEF SimulatedFrames

-----------------------------------------------------------------------------
MeasuredInv ==
    /\ Fits(status.cell_voltages_mv, ShownVoltages)
    /\ Fits(status.cell_resistances, ShownResistances)
    /\ ShownAsMeasured

BusInv == IInv /\ MeasuredInv

(* What is shown of the pack and its cells is not touched by anything but a   *)
(* frame.                                                                     *)
ShownFields == {"cell_voltages_mv", "cell_resistances", "pack", "ack"}

LEMMA MeasuredStays ==
    ASSUME MeasuredInv, \A x \in ShownFields : status'[x] = status[x]
    PROVE  MeasuredInv'
BY DEF MeasuredInv, ShownAsMeasured, Fits, ShownFields

LEMMA FrameMeasured ==
    ASSUME Frames \subseteq SimulatedFrames, BusInv, RxApply("returned")
    PROVE  MeasuredInv'
<1>1. PICK f \in Frames : rxMsg = <<f>>
  BY DEF RxApply, BusInv, IInv, RxTypes
<1>2. Decodable(f) /\ status' = Apply(status, f)
  BY <1>1 DEF RxApply
<1>3. SentFrame(f) /\ Decoded(f)
  BY SimulatedSent, FramesDecoded DEF Decoded
<1> DEFINE t == Apply(status, f)
<1>4. /\ t.ack = (IF f.name = "command_ack" THEN f.payload ELSE status.ack)
      /\ t.pack = (IF f.name = "pack_measurement" THEN f.payload ELSE status.pack)
      /\ t.cell_voltages_mv =
             (IF f.name = "cell_voltages"
              THEN Store(status.cell_voltages_mv, f.first, f.values)
              ELSE status.cell_voltages_mv)
      /\ \/ t.cell_resistances = status.cell_resistances
         \/ /\ f.name = "cell_resistances"
            /\ t.cell_resistances = Store(status.cell_resistances, f.first, f.values)
  BY <1>2, <1>3, FrameApplied DEF BusInv, IInv, StatusInv
<1> HIDE DEF t
<1>5. /\ status.cell_voltages_mv \in Seq(Reading)
      /\ status.cell_resistances \in Seq(Reading)
  BY DEF BusInv, IInv, StatusInv, Shaped
<1>6. \A i \in Nat \ {0} : None \in ShownVoltages[i] /\ None \in ShownResistances[i]
  BY DEF ShownVoltages, ShownResistances, CellShows, Reading
<1>7. Fits(t.cell_voltages_mv, ShownVoltages)
  BY <1>3, <1>4, <1>5, <1>6, StoreFits DEF BusInv, MeasuredInv, SentFrame
<1>8. Fits(t.cell_resistances, ShownResistances)
  BY <1>3, <1>4, <1>5, <1>6, StoreFits DEF BusInv, MeasuredInv, SentFrame
<1>9. /\ t.pack # None => t.pack.current_ca \in Currents
      /\ t.ack # None =>
             \E a \in Acks : t.ack = [command_id |-> a.command,
                 command_seq |-> a.seq, result_code |-> a.result,
                 reject_reason |-> a.reason]
  BY <1>3, <1>4 DEF BusInv, MeasuredInv, ShownAsMeasured, SentFrame
<1>10. status' = t
  BY <1>2 DEF t
<1> QED BY <1>7, <1>8, <1>9, <1>10 DEF MeasuredInv, ShownAsMeasured

LEMMA BusStep ==
    ASSUME Frames \subseteq SimulatedFrames, BusInv, [BusNext]_vars
    PROVE  BusInv'
<1>1. IInv'
  <2>1. [Next]_vars
    BY DEF BusNext, Next, Api, RxTask, Environment, Outcomes
  <2> QED BY <2>1, Step DEF BusInv
<1>2. status = [x \in Fields |-> status[x]]
  BY DEF BusInv, IInv, StatusInv, Shaped
<1>3. CASE Start
  <2>1. PICK on : status' = [status EXCEPT !.can_error = on]
    BY <1>3 DEF Start
  <2>2. \A x \in ShownFields : status'[x] = status[x]
    BY <1>2, <2>1 DEF ShownFields, Fields
  <2> QED BY <1>1, <2>2, MeasuredStays DEF BusInv
<1>4. CASE Api
  <2>1. UNCHANGED status \/ \E on :
            status' = [status EXCEPT !.resistance_measurement_running = on]
    BY <1>4 DEF Api, CommandSent, CommandFails
  <2>2. \A x \in ShownFields : status'[x] = status[x]
    BY <1>2, <2>1 DEF ShownFields, Fields
  <2> QED BY <1>1, <2>2, MeasuredStays DEF BusInv
<1>5. CASE RxApply("returned")
  BY <1>1, <1>5, FrameMeasured DEF BusInv
<1>6. CASE \/ Heartbeat \/ RxReceive \/ RxIgnore \/ BusTransmits \/ UNCHANGED vars
           \/ \E f \in Frames : BusDelivers(f)
  <2>1. UNCHANGED status
    BY <1>6 DEF Heartbeat, RxReceive, RxIgnore, BusTransmits, BusDelivers, vars
  <2> QED BY <1>1, <2>1, MeasuredStays DEF BusInv
<1> QED BY <1>3, <1>4, <1>5, <1>6 DEF BusNext

LEMMA BusBegins == Init => BusInv
<1> SUFFICES ASSUME Init PROVE MeasuredInv
  BY InitInv DEF BusInv
<1> QED BY DEF Init, InitialStatus, MeasuredInv, Fits, ShownAsMeasured

LEMMA BusInvariance ==
    ASSUME Frames \subseteq SimulatedFrames
    PROVE  BusSpec => []BusInv
<1>1. BusInv /\ [BusNext]_vars => BusInv'
  BY BusStep
<1> QED BY BusBegins, <1>1, PTL DEF BusSpec

(* When what arrives is what the simulator sends, bytes as it lays them out,  *)
(* in any order, with any losses and repetitions: whatever is shown for a     *)
(* cell was measured on that cell (_apply_cell_voltages and                   *)
(* _apply_cell_resistances of can_service.py).                                *)
THEOREM CellsKeepTheirReadings ==
    ASSUME Frames \subseteq SimulatedFrames
    PROVE  BusSpec => []ReadingsOfTheirCells
<1>1. BusInv => ReadingsOfTheirCells
  <2> SUFFICES ASSUME BusInv PROVE ReadingsOfTheirCells
    OBVIOUS
  <2>1. /\ status.cell_voltages_mv \in Seq(Reading)
        /\ status.cell_resistances \in Seq(Reading)
    BY DEF BusInv, IInv, StatusInv, Shaped
  <2>2. /\ \A i \in DOMAIN status.cell_voltages_mv : i \in Nat \ {0}
        /\ \A i \in DOMAIN status.cell_resistances : i \in Nat \ {0}
    BY <2>1
  <2> QED BY <2>2 DEF BusInv, MeasuredInv, Fits, ShownVoltages, ShownResistances,
                      ReadingsOfTheirCells
<1> QED BY <1>1, BusInvariance, PTL

(* A current is shown with its sign, and an acknowledgement as it was given.  *)
THEOREM MeasuredIsShown ==
    ASSUME Frames \subseteq SimulatedFrames
    PROVE  BusSpec => []ShownAsMeasured
<1>1. BusInv => ShownAsMeasured
  BY DEF BusInv, MeasuredInv
<1> QED BY <1>1, BusInvariance, PTL

=============================================================================
