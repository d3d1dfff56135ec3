------------------------------ MODULE JobStatus ------------------------------
(* "Mérés kész visszaírva": the page writes the status of a measurement to    *)
(* the ERPNext repair job (writeErpNextMeasurementStatus of main.py,          *)
(* update_measurement_status of erpnext_client.py). The handlers run on the   *)
(* event loop of EventLoop, whose time they take.                             *)
(*                                                                            *)
(* The gateway reads the job and then writes the fields it changes, in two    *)
(* requests. A write may be lost, or be processed although its answer never   *)
(* came, then possibly late; ERPNext's users edit the same job.               *)
EXTENDS EventLoop

CONSTANTS
    None

Types == {"pre", "post"}
Update == [type : Types, at : {"read", "write", "written"}]
ASSUME NoneIsNone == None \notin Types \cup Update
ASSUME StatusTakesTwo == MaxRequests >= 2

VARIABLES
    job,        \* pre_measurement_done and post_measurement_done in ERPNext
    asked,      \* per connection: the type to be written, None if not asked
    update,     \* the handler of an update: its type, and the request it waits
                \* for, "read" or "write", or "written" once ERPNext has done it
    wire,       \* writes on their way to ERPNext; `live` while a handler waits
    meant       \* history: the value each flag was last set to on purpose

jobVars == <<job, asked, update, wire, meant>>
allVars == <<loopVars, jobVars>>

Init ==
    /\ LoopInit
    /\ job = [t \in Types |-> FALSE] /\ meant = job
    /\ asked = [c \in Clients |-> None] /\ update = None
    /\ wire = {}

-----------------------------------------------------------------------------
(* The update                                                                 *)

(* The button: the page asks, and waits for the answer.                       *)
Ask(c, type) ==
    /\ Arrive(c)
    /\ asked' = [asked EXCEPT ![c] = type]
    /\ UNCHANGED <<job, update, wire, meant>>

BeginUpdate(c) ==
    /\ asked[c] # None
    /\ Begin(c, 2)
    /\ update' = [type |-> asked[c], at |-> "read"]
    /\ UNCHANGED <<job, asked, wire, meant>>

(* Mutant: both flags are written, as they are known.                         *)
PayloadWhole(type, read) == [t \in Types |-> t = type \/ read[t]]

(* _measurement_status_payload: of the two flags only the one that is done.   *)
Payload(type, read) == [t \in {type} |-> TRUE]

(* get_repair_job has its answer, the write is sent.                          *)
ReadAnswered ==
    /\ update # None /\ update.at = "read"
    /\ NextRequest
    /\ update' = [update EXCEPT !.at = "write"]
    /\ wire' = wire \cup {[live |-> TRUE, type |-> update.type,
                           flags |-> Payload(update.type, job)]}
    /\ UNCHANGED <<job, asked, meant>>

(* ERPNext processes a write, or it is lost.                                  *)
Process(w) ==
    /\ wire' = wire \ {w}
    /\ update' = IF w.live THEN [update EXCEPT !.at = "written"] ELSE update
    /\ job' = [t \in Types |-> IF t \in DOMAIN w.flags THEN w.flags[t] ELSE job[t]]
    /\ meant' = [meant EXCEPT ![w.type] = TRUE]
    /\ UNCHANGED <<loopVars, asked>>

Lose(w) ==
    /\ wire' = wire \ {w}
    /\ UNCHANGED <<loopVars, job, asked, update, meant>>

(* Mutant: the handler waits for the answer of a write, however long.         *)
UpdateEndsAnswered ==
    /\ update # None /\ update.at = "written"
    /\ HandlerDone
    /\ update' = None
    /\ asked' = [asked EXCEPT ![call.client] = None]
    /\ wire' = {[w EXCEPT !.live = FALSE] : w \in wire}
    /\ UNCHANGED <<job, meant>>

(* The write is answered, or either request fails or is given up: then the    *)
(* write may be done, under way or lost.                                      *)
UpdateEnds ==
    /\ update # None
    /\ HandlerDone
    /\ update' = None
    /\ asked' = [asked EXCEPT ![call.client] = None]
    /\ wire' = {[w EXCEPT !.live = FALSE] : w \in wire}
    /\ UNCHANGED <<job, meant>>

(* A user of ERPNext ticks or clears a flag.                                  *)
Edit(t) ==
    /\ job' = [job EXCEPT ![t] = ~@]
    /\ meant' = [meant EXCEPT ![t] = ~job[t]]
    /\ UNCHANGED <<loopVars, asked, update, wire>>

-----------------------------------------------------------------------------
(* Everything else on the loop: other ERPNext endpoints, with as many         *)
(* requests as they make, and the emergency stop.                             *)
NoUpdate(c) == IF c \in Clients THEN asked[c] = None ELSE TRUE

OtherArrives(c) == NoUpdate(c) /\ Arrive(c) /\ UNCHANGED jobVars

OtherServed ==
    /\ \/ SendStop
       \/ \E c \in Clients, n \in 1 .. MaxRequests : NoUpdate(c) /\ Begin(c, n)
       \/ \E c \in Clients : NoUpdate(c) /\ NoRequest(c)
    /\ UNCHANGED jobVars

OtherAnswered ==
    /\ update = None
    /\ NextRequest \/ HandlerDone
    /\ UNCHANGED jobVars

Iterate == (Poll \/ SendHeartbeat) /\ UNCHANGED jobVars
TimePasses == Tick /\ UNCHANGED jobVars

Served ==
    \/ OtherServed
    \/ \E c \in Clients : BeginUpdate(c)

Answered == ReadAnswered \/ UpdateEnds \/ OtherAnswered

Next ==
    \/ \E c \in Clients, type \in Types : Ask(c, type)
    \/ \E c \in Clients \cup {Operator} : OtherArrives(c)
    \/ Served \/ Answered
    \/ \E w \in wire : Process(w) \/ Lose(w)
    \/ \E t \in Types : Edit(t)
    \/ Iterate \/ TimePasses

(* The loop goes round, and every request ends: a wait for the socket does    *)
(* after timeout_s, and ERPNext is assumed not to answer piecemeal for ever.  *)
Fairness ==
    WF_allVars(Iterate) /\ WF_allVars(Served) /\ WF_allVars(Answered)

Spec == Init /\ [][Next]_allVars /\ Fairness

-----------------------------------------------------------------------------
(* Properties                                                                 *)

(* A flag of the job is what it was last set to on purpose, by an update of   *)
(* that flag or by a user of ERPNext: although an update writes after it has  *)
(* read, and possibly long after the gateway gave it up, it never takes back  *)
(* what others have done to the other flag meanwhile.                         *)
FlagsAsMeant == job = meant

(* An emergency stop that has arrived is tried in the end, and the operator   *)
(* told whether it went out, whatever comes between and however ERPNext       *)
(* treats the requests before it.                                             *)
StopIsAnswered ==
    Operator \in waiting ~> Operator \notin waiting \cup batch /\ answer # "none"

=============================================================================
