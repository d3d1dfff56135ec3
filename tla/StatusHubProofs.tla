--------------------------- MODULE StatusHubProofs ---------------------------
(* Proofs about StatusHub for any sockets and any broadcasting tasks.         *)
EXTENDS StatusHub, FiniteSetTheorems, TLAPS

-----------------------------------------------------------------------------
(* The inductive invariant: the type, and what relates the set, the handlers, *)
(* the connections and the suspended calls.                                   *)

(* A suspended call is suspended on a socket; a call that is not running      *)
(* holds nothing.                                                             *)
CallShape ==
    \A b \in Broadcasters : cast[b].on => cast[b].at \in Sockets

(* Only closed connections are on a dead list or about to join it.            *)
DeadAreClosed ==
    \A b \in Broadcasters : \A s \in Sockets :
        s \in cast[b].dead \/ (cast[b].at = s /\ cast[b].wait = "failed")
            => link[s] = "closed"

SeenBounded == \A s \in Sockets : seen[s] <= published

(* Call b has still to reach s, has it on its dead list, or may miss it       *)
(* because a socket joined.                                                   *)
Pending(b, s) == /\ cast[b].on
                 /\ s \in cast[b].ahead \/ s \in cast[b].dead \/ cast[b].joined

(* Whatever registered socket has not been sent the latest status, reachable  *)
(* or not, is still the business of a running call, or a gap is on record.    *)
Covered ==
    \A s \in websockets :
        seen[s] = published \/ gap \/ \E b \in Broadcasters : Pending(b, s)

IInv == TypeOK /\ CallShape /\ DeadAreClosed /\ LiveRegistered
            /\ SeenBounded /\ Covered

-----------------------------------------------------------------------------
(* The size the iterator remembers is a number, whatever the sockets.         *)
LEMMA SizeIsNat == TypeOK => Cardinality(websockets) \in Nat
BY SocketsFinite, FS_Subset, FS_CardinalityType DEF TypeOK

(* A fresh call and a resumed call are calls, and hold only closed sockets as *)
(* dead.                                                                      *)
LEMMA NewCastOK ==
    ASSUME TypeOK
    PROVE  /\ NewCast \in Cast
           /\ NewCast.dead = {} /\ NewCast.ahead = websockets
           /\ NewCast.joined = FALSE /\ NewCast.on = TRUE
BY SizeIsNat DEF TypeOK, NewCast, Idle, Cast

LEMMA ResumedOK ==
    ASSUME IInv, NEW b \in Broadcasters, Woken(b)
    PROVE  /\ Resumed(b) \in Cast
           /\ \A s \in Resumed(b).dead : link[s] = "closed"
           /\ Resumed(b).ahead = cast[b].ahead
           /\ cast[b].dead \subseteq Resumed(b).dead
           /\ Resumed(b).joined = cast[b].joined
           /\ Resumed(b).on = TRUE
BY DEF IInv, TypeOK, CallShape, DeadAreClosed, Woken, Resumed, Cast

LEMMA IdleOK == Idle \in Cast /\ Idle.dead = {} /\ Idle.on = FALSE
                /\ Idle.wait = "none"
BY DEF Idle, Cast

-----------------------------------------------------------------------------
(* What the two stretches of the loop need: c is the call as the stretch      *)
(* begins, now the version it writes, g the record of gaps so far.            *)
Stretch(b, c, now, g) ==
    /\ c \in Cast /\ c.on = TRUE
    /\ \A s \in c.dead : link[s] = "closed"
    /\ now \in Nat /\ published <= now /\ published' = now
    /\ g \in BOOLEAN
    /\ \A s \in websockets :
           \/ seen[s] = now \/ g
           \/ s \in c.ahead \/ s \in c.dead \/ c.joined
           \/ \E x \in Broadcasters \ {b} : Pending(x, s)

LEMMA RunIntoStep ==
    ASSUME IInv, NEW b \in Broadcasters, NEW c, NEW now, NEW g,
           Stretch(b, c, now, g), RunInto(b, c, now, g)
    PROVE  IInv'
<1>. PICK w \in c.ahead : \E S \in SUBSET (c.ahead \ {w}) :
         /\ link[w] = "congested"
         /\ \A s \in S : link[s] # "congested"
         /\ seen' = Write(S \cup {w}, now)
         /\ cast' = [cast EXCEPT ![b] =
                       [c EXCEPT !.ahead = @ \ (S \cup {w}), !.at = w,
                                 !.wait = "blocked", !.dead = @ \cup Closed(S)]]
  BY DEF RunInto
<1>. PICK S \in SUBSET (c.ahead \ {w}) :
         /\ link[w] = "congested"
         /\ \A s \in S : link[s] # "congested"
         /\ seen' = Write(S \cup {w}, now)
         /\ cast' = [cast EXCEPT ![b] =
                       [c EXCEPT !.ahead = @ \ (S \cup {w}), !.at = w,
                                 !.wait = "blocked", !.dead = @ \cup Closed(S)]]
  OBVIOUS
<1>. DEFINE d == [c EXCEPT !.ahead = @ \ (S \cup {w}), !.at = w,
                           !.wait = "blocked", !.dead = @ \cup Closed(S)]
<1>1. /\ gap' = g
      /\ websockets' = websockets /\ handler' = handler /\ link' = link
  BY DEF RunInto
<1>2. /\ d \in Cast /\ d.at = w /\ w \in Sockets /\ d.on = TRUE
      /\ d.ahead = c.ahead \ (S \cup {w}) /\ d.joined = c.joined
      /\ d.wait = "blocked" /\ d.dead = c.dead \cup Closed(S)
  BY DEF Stretch, Cast, Closed
<1>3. cast' = [cast EXCEPT ![b] = d]
  OBVIOUS
<1>. HIDE DEF d
<1>4. \A x \in Broadcasters : cast'[x] = IF x = b THEN d ELSE cast[x]
  BY <1>3 DEF IInv, TypeOK
<1>5. \A s \in Sockets : seen'[s] = IF s \in S \cup {w} /\ link[s] # "closed"
                                     THEN now ELSE seen[s]
  BY DEF Write, Closed
<1>6. TypeOK'
  <2>1. seen' \in [Sockets -> Nat]
    BY DEF Write, IInv, TypeOK, Stretch
  <2>2. cast' \in [Broadcasters -> Cast]
    BY <1>2, <1>3 DEF IInv, TypeOK
  <2>3. gap' \in BOOLEAN
    BY <1>1 DEF Stretch
  <2>4. published' \in Nat
    BY DEF Stretch
  <2>. QED
    BY <2>1, <2>2, <2>3, <2>4, <1>1 DEF IInv, TypeOK
<1>7. CallShape'
  <2> SUFFICES ASSUME NEW x \in Broadcasters, cast'[x].on
               PROVE  cast'[x].at \in Sockets
    BY DEF CallShape
  <2>. QED
    BY <1>2, <1>4 DEF IInv, CallShape
<1>8. DeadAreClosed'
  <2> SUFFICES ASSUME NEW x \in Broadcasters, NEW s \in Sockets,
                      s \in cast'[x].dead
                          \/ (cast'[x].at = s /\ cast'[x].wait = "failed")
               PROVE  link[s] = "closed"
    BY <1>1 DEF DeadAreClosed
  <2>1. CASE x = b
    BY <2>1, <1>2, <1>4 DEF Stretch, Closed
  <2>2. CASE x # b
    BY <2>2, <1>4 DEF IInv, DeadAreClosed
  <2>. QED
    BY <2>1, <2>2
<1>9. LiveRegistered'
  BY <1>1 DEF IInv, LiveRegistered
<1>10. SeenBounded'
  <2> SUFFICES ASSUME NEW s \in Sockets
               PROVE  seen'[s] <= now
    BY DEF SeenBounded, Stretch
  <2>1. seen[s] \in Nat /\ seen[s] <= published /\ published \in Nat
    BY DEF IInv, TypeOK, SeenBounded
  <2>2. now \in Nat /\ published <= now
    BY DEF Stretch
  <2>3. seen'[s] = now \/ seen'[s] = seen[s]
    BY <1>5
  <2>. QED
    BY <2>1, <2>2, <2>3
<1>11. Covered'
  <2> SUFFICES ASSUME NEW s \in websockets
               PROVE  \/ seen'[s] = now
                      \/ g
                      \/ \E x \in Broadcasters : Pending(x, s)'
    BY <1>1 DEF Covered, Stretch
  <2>0. s \in Sockets
    BY DEF IInv, TypeOK
  <2>1. CASE s \in S \cup {w} /\ link[s] # "closed"
    BY <2>0, <2>1, <1>5
  <2>2. CASE s \in S \cup {w} /\ link[s] = "closed"
    <3>1. s \in S
      BY <2>2
    <3>2. s \in d.dead
      BY <2>0, <2>2, <3>1, <1>2 DEF Closed
    <3>3. Pending(b, s)'
      BY <3>2, <1>2, <1>4 DEF Pending
    <3>. QED
      BY <3>3
  <2>3. CASE (s \in c.ahead \/ s \in c.dead \/ c.joined) /\ s \notin S \cup {w}
    <3>1. s \in d.ahead \/ s \in d.dead \/ d.joined
      BY <2>3, <1>2
    <3>2. Pending(b, s)'
      BY <3>1, <1>2, <1>4 DEF Pending
    <3>. QED
      BY <3>2
  <2>4. CASE seen[s] = now \/ g
    BY <2>0, <2>4, <1>5
  <2>5. CASE \E x \in Broadcasters \ {b} : Pending(x, s)
    BY <2>5, <1>4 DEF Pending
  <2>. QED
    BY <2>1, <2>2, <2>3, <2>4, <2>5 DEF Stretch
<1>. QED
  BY <1>6, <1>7, <1>8, <1>9, <1>10, <1>11 DEF IInv

LEMMA RunOutStep ==
    ASSUME IInv, NEW b \in Broadcasters, NEW c, NEW now, NEW g,
           Stretch(b, c, now, g), RunOut(b, c, now, g)
    PROVE  IInv'
<1>. DEFINE gone == c.dead \cup Closed(c.ahead)
<1>1. /\ websockets' = websockets \ gone
      /\ handler' = handler /\ link' = link
      /\ gap' = (g \/ c.joined)
      /\ seen' = Write(c.ahead, now)
      /\ cast' = [Discarded(gone) EXCEPT ![b] = Idle]
      /\ \A s \in gone : link[s] = "closed"
  BY DEF RunOut, Stretch, Closed
<1>. HIDE DEF gone
<1>2. \A x \in Broadcasters \ {b} :
          /\ cast'[x] = [cast[x] EXCEPT !.ahead = @ \ gone]
          /\ cast'[x] \in Cast
          /\ cast'[x].on = cast[x].on /\ cast'[x].at = cast[x].at
          /\ cast'[x].wait = cast[x].wait /\ cast'[x].dead = cast[x].dead
          /\ cast'[x].joined = cast[x].joined
          /\ cast'[x].ahead = cast[x].ahead \ gone
  BY <1>1 DEF Discarded, IInv, TypeOK, Cast
<1>3. cast'[b] = Idle
  BY <1>1 DEF Discarded
<1>4. \A s \in Sockets : seen'[s] = IF s \in c.ahead /\ link[s] # "closed"
                                     THEN now ELSE seen[s]
  BY <1>1 DEF Write, Closed
<1>5. TypeOK'
  <2>1. seen' \in [Sockets -> Nat]
    BY <1>1 DEF Write, IInv, TypeOK, Stretch
  <2>2. cast' \in [Broadcasters -> Cast]
    BY <1>1, <1>2, <1>3, IdleOK DEF Discarded
  <2>. QED
    BY <2>1, <2>2, <1>1 DEF IInv, TypeOK, Stretch, Cast
<1>6. CallShape'
  BY <1>2, <1>3, IdleOK DEF IInv, CallShape
<1>7. DeadAreClosed'
  BY <1>1, <1>2, <1>3, IdleOK DEF IInv, DeadAreClosed
<1>8. LiveRegistered'
  BY <1>1 DEF IInv, LiveRegistered
<1>9. SeenBounded'
  <2> SUFFICES ASSUME NEW s \in Sockets
               PROVE  seen'[s] <= now
    BY DEF SeenBounded, Stretch
  <2>1. seen[s] \in Nat /\ seen[s] <= published /\ published \in Nat
    BY DEF IInv, TypeOK, SeenBounded
  <2>2. now \in Nat /\ published <= now
    BY DEF Stretch
  <2>3. seen'[s] = now \/ seen'[s] = seen[s]
    BY <1>4
  <2>. QED
    BY <2>1, <2>2, <2>3
<1>10. Covered'
  <2> SUFFICES ASSUME NEW s \in websockets, s \notin gone, ~g, ~c.joined
               PROVE  \/ seen'[s] = now
                      \/ \E x \in Broadcasters : Pending(x, s)'
    BY <1>1 DEF Covered, Stretch
  <2>0. s \in Sockets
    BY DEF IInv, TypeOK
  <2>1. s \notin c.dead /\ (s \in c.ahead => link[s] # "closed")
    BY <2>0 DEF gone, Closed
  <2>2. CASE s \in c.ahead \/ seen[s] = now
    BY <2>0, <2>1, <2>2, <1>4
  <2>3. CASE \E x \in Broadcasters \ {b} : Pending(x, s)
    BY <2>3, <1>2 DEF Pending
  <2>. QED
    BY <2>1, <2>2, <2>3 DEF Stretch
<1>. QED
  BY <1>5, <1>6, <1>7, <1>8, <1>9, <1>10 DEF IInv

-----------------------------------------------------------------------------
(* One lemma per kind of step.                                                *)

LEMMA StartStep ==
    ASSUME IInv, NEW b \in Broadcasters, Start(b)
    PROVE  IInv'
<1>0. Announce(b)
  BY DEF Start, StartSuspends, StartReturns
<1>1. /\ published' \in Nat /\ published <= published'
  BY <1>0 DEF Announce, IInv, TypeOK
<1>2. Stretch(b, NewCast, published', FALSE)
  BY <1>1, NewCastOK DEF Stretch, IInv
<1>3. CASE RunInto(b, NewCast, published', FALSE)
  BY <1>2, <1>3, RunIntoStep
<1>4. CASE RunOut(b, NewCast, published', FALSE)
  BY <1>2, <1>4, RunOutStep
<1>. QED
  BY <1>3, <1>4 DEF Start, StartSuspends, StartReturns

LEMMA DropStep ==
    ASSUME IInv, NEW b \in Broadcasters,
           ResumeRaises(b) \/ CancelBroadcast(b)
    PROVE  IInv'
<1>1. /\ cast' = [cast EXCEPT ![b] = Idle] /\ gap' = TRUE
      /\ UNCHANGED <<published, websockets, handler, link, seen>>
  BY DEF ResumeRaises, CancelBroadcast
<1>2. cast' \in [Broadcasters -> Cast]
  BY <1>1, IdleOK DEF IInv, TypeOK
<1>3. \A x \in Broadcasters : cast'[x] = IF x = b THEN Idle ELSE cast[x]
  BY <1>1 DEF IInv, TypeOK
<1>4. TypeOK'
  BY <1>1, <1>2 DEF IInv, TypeOK
<1>5. CallShape'
  BY <1>3, IdleOK DEF IInv, CallShape
<1>6. DeadAreClosed'
  BY <1>1, <1>3, IdleOK DEF IInv, DeadAreClosed
<1>7. LiveRegistered' /\ SeenBounded' /\ Covered'
  BY <1>1 DEF IInv, LiveRegistered, SeenBounded, Covered
<1>. QED
  BY <1>4, <1>5, <1>6, <1>7 DEF IInv

LEMMA ResumeStep ==
    ASSUME IInv, NEW b \in Broadcasters, Resume(b)
    PROVE  IInv'
<1>1. CASE ResumeRaises(b)
  BY <1>1, DropStep
<1>2. CASE ResumeSuspends(b) \/ ResumeReturns(b)
  <2>1. Woken(b) /\ published' = published /\ cast[b].on
    BY <1>2 DEF ResumeSuspends, ResumeReturns, Woken
  <2>2. published \in Nat /\ gap \in BOOLEAN /\ websockets \in SUBSET Sockets
    BY DEF IInv, TypeOK
  <2>3. ASSUME NEW s \in websockets, seen[s] # published, ~gap
        PROVE  \/ s \in cast[b].ahead \/ s \in cast[b].dead \/ cast[b].joined
               \/ \E x \in Broadcasters \ {b} : Pending(x, s)
    <3>1. PICK x \in Broadcasters : Pending(x, s)
      BY <2>3, <2>2 DEF IInv, Covered
    <3>2. CASE x = b
      BY <3>1, <3>2 DEF Pending
    <3>3. CASE x # b
      BY <3>1, <3>3
    <3>. QED
      BY <3>2, <3>3
  <2>4. Stretch(b, Resumed(b), published, gap)
    <3>1. /\ Resumed(b) \in Cast /\ Resumed(b).on = TRUE
          /\ \A s \in Resumed(b).dead : link[s] = "closed"
          /\ Resumed(b).ahead = cast[b].ahead
          /\ cast[b].dead \subseteq Resumed(b).dead
          /\ Resumed(b).joined = cast[b].joined
      BY <2>1, ResumedOK
    <3>2. published <= published
      BY <2>2
    <3>3. \A s \in websockets :
              \/ seen[s] = published \/ gap
              \/ s \in Resumed(b).ahead \/ s \in Resumed(b).dead
              \/ Resumed(b).joined
              \/ \E x \in Broadcasters \ {b} : Pending(x, s)
      BY <2>3, <3>1
    <3>. QED
      BY <2>1, <2>2, <3>1, <3>2, <3>3 DEF Stretch
  <2>5. CASE RunInto(b, Resumed(b), published, gap)
    BY <2>4, <2>5, RunIntoStep
  <2>6. CASE RunOut(b, Resumed(b), published, gap)
    BY <2>4, <2>6, RunOutStep
  <2>. QED
    BY <1>2, <2>5, <2>6 DEF ResumeSuspends, ResumeReturns
<1>. QED
  BY <1>1, <1>2 DEF Resume

LEMMA ConnectStep ==
    ASSUME IInv, NEW s \in Sockets, Connect(s)
    PROVE  IInv'
<1>1. /\ handler[s] = "none"
      /\ handler' = [handler EXCEPT ![s] = "receive"]
      /\ websockets' = websockets \cup {s}
      /\ seen' = [seen EXCEPT ![s] = published]
      /\ UNCHANGED <<published, link, gap>>
  BY DEF Connect
<1>2. PICK a \in [{b \in Broadcasters : cast[b].on} -> SUBSET websockets'] :
          cast' = [b \in Broadcasters |->
                      IF cast[b].on
                      THEN [cast[b] EXCEPT !.ahead = a[b], !.joined = TRUE]
                      ELSE cast[b]]
  BY DEF Connect
<1>3. websockets' \in SUBSET Sockets
  BY <1>1 DEF IInv, TypeOK
<1>4. \A b \in Broadcasters :
          /\ cast'[b] \in Cast
          /\ cast'[b].on = cast[b].on /\ cast'[b].at = cast[b].at
          /\ cast'[b].wait = cast[b].wait /\ cast'[b].dead = cast[b].dead
          /\ cast[b].on => cast'[b].joined
  <2> SUFFICES ASSUME NEW b \in Broadcasters
               PROVE  /\ cast'[b] \in Cast
                      /\ cast'[b].on = cast[b].on /\ cast'[b].at = cast[b].at
                      /\ cast'[b].wait = cast[b].wait
                      /\ cast'[b].dead = cast[b].dead
                      /\ cast[b].on => cast'[b].joined
    OBVIOUS
  <2>1. CASE cast[b].on
    <3>1. a[b] \in SUBSET Sockets
      BY <2>1, <1>3
    <3>2. cast'[b] = [cast[b] EXCEPT !.ahead = a[b], !.joined = TRUE]
      BY <2>1, <1>2
    <3>3. cast[b] \in Cast
      BY DEF IInv, TypeOK
    <3>4. cast'[b] \in Cast
      BY <3>1, <3>2, <3>3 DEF Cast
    <3>5. /\ cast'[b].on = cast[b].on /\ cast'[b].at = cast[b].at
          /\ cast'[b].wait = cast[b].wait /\ cast'[b].dead = cast[b].dead
      BY <3>2, <3>3 DEF Cast
    <3>6. cast'[b].joined = TRUE
      BY <3>2, <3>3 DEF Cast
    <3>. QED
      BY <3>4, <3>5, <3>6
  <2>2. CASE ~cast[b].on
    BY <2>2, <1>2 DEF IInv, TypeOK
  <2>. QED
    BY <2>1, <2>2
<1>5. TypeOK'
  <2>1. cast' \in [Broadcasters -> Cast]
    BY <1>2, <1>4
  <2>2. seen' \in [Sockets -> Nat]
    BY <1>1 DEF IInv, TypeOK
  <2>3. handler' \in [Sockets -> {"none", "receive", "done"}]
    BY <1>1 DEF IInv, TypeOK
  <2>. QED
    BY <1>1, <1>3, <2>1, <2>2, <2>3 DEF IInv, TypeOK
<1>6. CallShape' /\ DeadAreClosed'
  BY <1>1, <1>4 DEF IInv, CallShape, DeadAreClosed
<1>7. LiveRegistered'
  BY <1>1 DEF IInv, TypeOK, LiveRegistered
<1>8. SeenBounded'
  BY <1>1 DEF IInv, TypeOK, SeenBounded
<1>9. Covered'
  <2> SUFFICES ASSUME NEW t \in websockets', seen'[t] # published, ~gap
               PROVE  \E b \in Broadcasters : Pending(b, t)'
    BY <1>1 DEF Covered
  <2>1. t # s /\ t \in websockets /\ seen[t] # published
    BY <1>1, <1>3 DEF IInv, TypeOK
  <2>2. PICK b \in Broadcasters : cast[b].on
    BY <2>1 DEF IInv, Covered, Pending
  <2>. QED
    BY <2>2, <1>4 DEF Pending
<1>. QED
  BY <1>5, <1>6, <1>7, <1>8, <1>9 DEF IInv

LEMMA HandlerLeavesStep ==
    ASSUME IInv, NEW s \in Sockets, HandlerLeaves(s)
    PROVE  IInv'
<1>1. /\ handler[s] = "receive" /\ link[s] = "closed"
      /\ handler' = [handler EXCEPT ![s] = "done"]
      /\ websockets' = websockets \ {s}
      /\ cast' = Discarded({s})
      /\ UNCHANGED <<published, link, seen, gap>>
  BY DEF HandlerLeaves
<1>2. \A b \in Broadcasters :
          /\ cast'[b] \in Cast
          /\ cast'[b].on = cast[b].on /\ cast'[b].at = cast[b].at
          /\ cast'[b].wait = cast[b].wait /\ cast'[b].dead = cast[b].dead
          /\ cast'[b].joined = cast[b].joined
          /\ cast'[b].ahead = cast[b].ahead \ {s}
  BY <1>1 DEF Discarded, IInv, TypeOK, Cast
<1>3. TypeOK'
  <2>1. cast' \in [Broadcasters -> Cast]
    BY <1>1, <1>2 DEF Discarded
  <2>. QED
    BY <1>1, <2>1 DEF IInv, TypeOK
<1>4. CallShape' /\ DeadAreClosed'
  BY <1>1, <1>2 DEF IInv, CallShape, DeadAreClosed
<1>5. LiveRegistered'
  BY <1>1 DEF IInv, TypeOK, LiveRegistered
<1>6. SeenBounded'
  BY <1>1 DEF IInv, SeenBounded
<1>7. Covered'
  <2> SUFFICES ASSUME NEW t \in websockets, t # s, seen[t] # published, ~gap
               PROVE  \E b \in Broadcasters : Pending(b, t)'
    BY <1>1 DEF Covered
  <2>1. PICK b \in Broadcasters : Pending(b, t)
    BY DEF IInv, Covered
  <2>. QED
    BY <2>1, <1>2 DEF Pending
<1>. QED
  BY <1>3, <1>4, <1>5, <1>6, <1>7 DEF IInv

LEMMA HandlerFailsStep ==
    ASSUME IInv, NEW s \in Sockets, HandlerFails(s)
    PROVE  IInv'
<1>1. /\ handler' = [handler EXCEPT ![s] = "done"]
      /\ UNCHANGED <<published, websockets, link, seen, cast, gap>>
  BY DEF HandlerFails
<1>2. TypeOK'
  BY <1>1 DEF IInv, TypeOK
<1>3. LiveRegistered'
  BY <1>1 DEF IInv, TypeOK, LiveRegistered
<1>4. CallShape' /\ DeadAreClosed' /\ SeenBounded' /\ Covered'
  BY <1>1 DEF IInv, CallShape, DeadAreClosed, SeenBounded, Covered, Pending
<1>. QED
  BY <1>2, <1>3, <1>4 DEF IInv

LEMMA ConnectionStep ==
    ASSUME IInv, NEW s \in Sockets, Connection(s)
    PROVE  IInv'
<1>1. PICK l \in {"open", "congested", "closed"} :
          link' = [link EXCEPT ![s] = l]
  BY DEF Connection, Congest, Drain, Close
<1>2. /\ UNCHANGED <<published, websockets, handler, seen, gap>>
      /\ link[s] # "closed"
  BY DEF Connection, Congest, Drain, Close
<1>3. \/ cast' = cast
      \/ Wake(s, "sent") \/ (Wake(s, "failed") /\ link'[s] = "closed")
  BY DEF Connection, Congest, Drain, Close, IInv, TypeOK
<1>4. \A b \in Broadcasters :
          /\ cast'[b] \in Cast
          /\ cast'[b].on = cast[b].on /\ cast'[b].at = cast[b].at
          /\ cast'[b].dead = cast[b].dead /\ cast'[b].joined = cast[b].joined
          /\ cast'[b].ahead = cast[b].ahead
          /\ cast'[b].wait = "failed" =>
                 cast[b].wait = "failed" \/ (cast[b].at = s /\ link'[s] = "closed")
  BY <1>3 DEF Wake, IInv, TypeOK, Cast
<1>5. TypeOK'
  <2>1. cast' \in [Broadcasters -> Cast]
    BY <1>3, <1>4 DEF Wake, IInv, TypeOK
  <2>2. link' \in [Sockets -> {"open", "congested", "closed"}]
    BY <1>1 DEF IInv, TypeOK
  <2>. QED
    BY <1>2, <2>1, <2>2 DEF IInv, TypeOK
<1>6. \A t \in Sockets : /\ t # s => link'[t] = link[t]
                         /\ link[t] = "closed" => link'[t] = "closed"
  BY <1>1, <1>2 DEF IInv, TypeOK
<1>7. CallShape'
  BY <1>4 DEF IInv, CallShape
<1>8. DeadAreClosed'
  BY <1>4, <1>6 DEF IInv, DeadAreClosed
<1>9. LiveRegistered'
  BY <1>2, <1>6 DEF IInv, LiveRegistered
<1>10. SeenBounded'
  BY <1>2 DEF IInv, SeenBounded
<1>11. Covered'
  <2> SUFFICES ASSUME NEW t \in websockets, seen[t] # published, ~gap
               PROVE  \E b \in Broadcasters : Pending(b, t)'
    BY <1>2 DEF Covered
  <2>1. PICK b \in Broadcasters : Pending(b, t)
    BY DEF IInv, Covered
  <2>. QED
    BY <2>1, <1>4 DEF Pending
<1>. QED
  BY <1>5, <1>7, <1>8, <1>9, <1>10, <1>11 DEF IInv

-----------------------------------------------------------------------------
(* Theorems                                                                   *)

LEMMA InitIInv == Init => IInv
<1> SUFFICES ASSUME Init PROVE IInv
  OBVIOUS
<1>1. TypeOK
  BY IdleOK DEF Init, TypeOK
<1>. QED
  BY <1>1, IdleOK DEF Init, IInv, CallShape, DeadAreClosed, LiveRegistered,
                      SeenBounded, Covered

LEMMA NextIInv == IInv /\ [Next]_vars => IInv'
<1> SUFFICES ASSUME IInv, [Next]_vars PROVE IInv'
  OBVIOUS
<1>1. ASSUME NEW b \in Broadcasters, Start(b) PROVE IInv'
  BY <1>1, StartStep
<1>2. ASSUME NEW b \in Broadcasters, Resume(b) PROVE IInv'
  BY <1>2, ResumeStep
<1>3. ASSUME NEW b \in Broadcasters, CancelBroadcast(b) PROVE IInv'
  BY <1>3, DropStep
<1>4. ASSUME NEW s \in Sockets, Connect(s) PROVE IInv'
  BY <1>4, ConnectStep
<1>5. ASSUME NEW s \in Sockets, HandlerLeaves(s) PROVE IInv'
  BY <1>5, HandlerLeavesStep
<1>6. ASSUME NEW s \in Sockets, HandlerFails(s) PROVE IInv'
  BY <1>6, HandlerFailsStep
<1>7. ASSUME NEW s \in Sockets, Connection(s) PROVE IInv'
  BY <1>7, ConnectionStep
<1>8. CASE UNCHANGED vars
  BY <1>8 DEF vars, IInv, TypeOK, CallShape, DeadAreClosed, LiveRegistered,
              SeenBounded, Covered, Pending
<1>. QED
  BY <1>1, <1>2, <1>3, <1>4, <1>5, <1>6, <1>7, <1>8 DEF Next

(* The inductive invariant holds in every reachable state.                    *)
THEOREM Invariance == Spec => []IInv
BY InitIInv, NextIInv, PTL DEF Spec

(* Type correctness of the status stream.                                     *)
THEOREM TypeCorrect == Spec => []TypeOK
<1>1. IInv => TypeOK
  BY DEF IInv
<1>. QED
  BY <1>1, Invariance, PTL

(* No socket whose browser is still there is ever dropped from `websockets`.  *)
THEOREM NobodyDropped == Spec => []LiveRegistered
<1>1. IInv => LiveRegistered
  BY DEF IInv
<1>. QED
  BY <1>1, Invariance, PTL

(* Broadcasts that end without an exception and without a socket joining in   *)
(* the middle leave every live browser with the latest status.                *)
THEOREM LatestStatusDelivered == Spec => []Fresh
<1>1. IInv => Fresh
  BY DEF IInv, TypeOK, LiveRegistered, Covered, Pending, Fresh, Quiet
<1>. QED
  BY <1>1, Invariance, PTL

(* A socket left in `websockets` by a handler that failed is taken out by the *)
(* next broadcast that ends normally, also when its connection ends in the    *)
(* middle of one: a registered socket that is closed has missed nothing yet.  *)
THEOREM UnreachableLeave == Spec => []UnreachableDropped
<1>1. IInv => UnreachableDropped
  BY DEF IInv, Covered, Pending, UnreachableDropped, Quiet
<1>. QED
  BY <1>1, Invariance, PTL

(* What is written to one socket never goes back to an older status.          *)
THEOREM NeverBackwards == Spec => SentInOrder
<1>1. ASSUME IInv, IInv', [Next]_vars
      PROVE  [\A s \in Sockets : seen'[s] >= seen[s]]_vars
  <2> SUFFICES ASSUME Next, NEW s \in Sockets
               PROVE  seen'[s] >= seen[s]
    BY <1>1
  <2>1. seen[s] \in Nat /\ published \in Nat /\ seen[s] <= published
    BY <1>1 DEF IInv, TypeOK, SeenBounded
  <2>2. published' \in Nat /\ published <= published'
    <3>1. ASSUME NEW b \in Broadcasters, Start(b) PROVE published' = published + 1
      BY <3>1 DEF Start, StartSuspends, StartReturns, Announce
    <3>2. ASSUME NEW b \in Broadcasters, Resume(b) \/ CancelBroadcast(b)
          PROVE  published' = published
      BY <3>2 DEF Resume, ResumeSuspends, ResumeReturns, ResumeRaises,
                  CancelBroadcast
    <3>3. ASSUME NEW t \in Sockets,
                 Connect(t) \/ HandlerLeaves(t) \/ HandlerFails(t)
                     \/ Connection(t)
          PROVE  published' = published
      BY <3>3 DEF Connect, HandlerLeaves, HandlerFails, Connection, Congest,
                  Drain, Close
    <3>4. published' = published \/ published' = published + 1
      BY <3>1, <3>2, <3>3 DEF Next
    <3>. QED
      BY <3>4, <2>1
  <2>3. seen'[s] = seen[s] \/ seen'[s] = published \/ seen'[s] = published'
    <3>1. ASSUME NEW b \in Broadcasters, NEW c, NEW now, NEW g,
                 RunInto(b, c, now, g) \/ RunOut(b, c, now, g)
          PROVE  seen'[s] = seen[s] \/ seen'[s] = now
      BY <3>1 DEF RunInto, RunOut, Write
    <3>2. ASSUME NEW b \in Broadcasters, Start(b)
          PROVE  seen'[s] = seen[s] \/ seen'[s] = published'
      BY <3>1, <3>2 DEF Start, StartSuspends, StartReturns
    <3>3. ASSUME NEW b \in Broadcasters, Resume(b)
          PROVE  seen'[s] = seen[s] \/ seen'[s] = published
      BY <3>1, <3>3 DEF Resume, ResumeSuspends, ResumeReturns, ResumeRaises
    <3>4. ASSUME NEW t \in Sockets, Connect(t)
          PROVE  seen'[s] = seen[s] \/ seen'[s] = published
      BY <1>1, <3>4 DEF Connect, IInv, TypeOK
    <3>5. ASSUME NEW t \in Sockets,
                 HandlerLeaves(t) \/ HandlerFails(t) \/ Connection(t)
          PROVE  seen'[s] = seen[s]
      BY <3>5 DEF HandlerLeaves, HandlerFails, Connection, Congest, Drain, Close
    <3>6. ASSUME NEW b \in Broadcasters, CancelBroadcast(b)
          PROVE  seen'[s] = seen[s]
      BY <3>6 DEF CancelBroadcast
    <3>. QED
      BY <3>2, <3>3, <3>4, <3>5, <3>6 DEF Next
  <2>. QED
    BY <2>1, <2>2, <2>3
<1>. QED
  BY <1>1, Invariance, PTL DEF Spec, SentInOrder

=============================================================================
