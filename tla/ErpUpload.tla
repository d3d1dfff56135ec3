------------------------------ MODULE ErpUpload ------------------------------
(* The upload of a measurement: start_service_process in main.py, the file    *)
(* name of LocalMeasurementStore, ErpNextClient.create_battery_measurement,   *)
(* and ERPNext behind its HTTP interface.                                     *)
(*                                                                            *)
(* urlopen blocks the event loop, so one upload runs at a time; but a request *)
(* the client gave up on is still processed by ERPNext, later or never, and   *)
(* ERPNext has users of its own.                                              *)
EXTENDS Naturals

CONSTANTS
    Calls,     \* the uploads, in the order of the numbers that name them
    Requests,  \* what may be asked: [job, module, kind, name, overwrite, auto];
               \* `kind` is the process key, which fixes test type and stage
    Foreign,   \* a measurement that came by another way
    None,      \* Python's None
    MaxNow     \* bound: seconds the clock counts

ASSUME CallsNat == Calls \subseteq Nat
ASSUME NoneIsNoCall == None \notin Calls \cup {Foreign}
ASSUME FlagsBoolean == \A r \in Requests : r.overwrite \in BOOLEAN /\ r.auto \in BOOLEAN
ASSUME MaxNowNat == MaxNow \in Nat

VARIABLES
    now,      \* the second of the gateway's clock
    call,     \* where each upload is in the handler
    server,   \* what ERPNext has done with the storing request of each upload
    records,  \* ERPNext's Battery Measurement records by name
    files     \* the local store: file names written, with the last writer

vars == <<now, call, server, records, files>>

-----------------------------------------------------------------------------
(* Mutant: the test type is not part of the name.                             *)
NameWithoutKind(r) ==
    IF r.name # None THEN r.name
    ELSE <<r.job, IF r.module > 0 THEN r.module ELSE 1, "any">>

(* _resolve_measurement_identity: a given name, or the slot of the job, the   *)
(* module and the kind of measurement. A module number that is missing (here  *)
(* 0, too) counts as 1.                                                       *)
NameOf(r) ==
    IF r.name # None THEN r.name
    ELSE <<r.job, IF r.module > 0 THEN r.module ELSE 1, r.kind>>

(* The file a measurement is saved to; its api_measurement_id has the second. *)
FileOf(c) ==
    <<call[c].req.job, call[c].req.module, call[c].req.kind, call[c].at>>

Names == {NameOf(r) : r \in {q \in Requests : q.job # None}}

(* What is stored under a name: the measurement whose fields it has, the      *)
(* module it says it measured, and whose rows are in which child table.       *)
Record(c) ==
    [by |-> c, module |-> call[c].req.module,
     rows |-> [k \in {call[c].req.kind} |-> c]]

NoRecord == [by |-> None, module |-> 0, rows |-> [k \in {} |-> None]]

NewCall == [phase |-> "unused", req |-> None, at |-> 0, method |-> None]

Init ==
    /\ now = 0
    /\ call = [c \in Calls |-> NewCall]
    /\ server = [c \in Calls |-> "none"]
    /\ records = [n \in Names |-> NoRecord]
    /\ files = [f \in {} |-> None]

Taken(n) == records[n].by # None

-----------------------------------------------------------------------------
(* start_service_process                                                      *)

Waiting == {c \in Calls : call[c].phase \in {"lookup", "sent"}}

Save(f, c) == files' = [g \in DOMAIN files \cup {f} |->
                           IF g = f THEN c ELSE files[g]]

(* Mutant: the measurement is saved here only when it is not uploaded.        *)
BeginWithoutSave(c, r) ==
    /\ call[c] = NewCall /\ Waiting = {}
    /\ \A d \in Calls : d < c => call[d] # NewCall
    /\ call' = [call EXCEPT ![c] =
                   [phase |-> IF r.auto /\ r.job # None THEN "lookup" ELSE "local",
                    req |-> r, at |-> now, method |-> None]]
    /\ IF r.auto /\ r.job # None THEN UNCHANGED files
       ELSE Save(<<r.job, r.module, r.kind, now>>, c)
    /\ UNCHANGED <<now, server, records>>

(* Mutant: the time is rounded up to a second.                                *)
BeginRoundsUp(c, r) ==
    /\ call[c] = NewCall /\ Waiting = {}
    /\ \A d \in Calls : d < c => call[d] # NewCall
    /\ call' = [call EXCEPT ![c] =
                   [phase |-> IF r.auto /\ r.job # None THEN "lookup" ELSE "local",
                    req |-> r, at |-> now + 1, method |-> None]]
    /\ Save(<<r.job, r.module, r.kind, now + 1>>, c)
    /\ UNCHANGED <<now, server, records>>

(* The payload is built and saved, whatever becomes of the upload. Without a  *)
(* repair job, or when not asked to, nothing is uploaded.                     *)
Begin(c, r) ==
    /\ call[c] = NewCall /\ Waiting = {}
    /\ \A d \in Calls : d < c => call[d] # NewCall
    /\ call' = [call EXCEPT ![c] =
                   [phase |-> IF r.auto /\ r.job # None THEN "lookup" ELSE "local",
                    req |-> r, at |-> now, method |-> None]]
    /\ Save(<<r.job, r.module, r.kind, now>>, c)
    /\ UNCHANGED <<now, server, records>>

-----------------------------------------------------------------------------
(* create_battery_measurement                                                 *)

(* GET found a record and the caller did not ask to overwrite: 409.           *)
Refuse(c) ==
    /\ call[c].phase = "lookup"
    /\ Taken(NameOf(call[c].req)) /\ ~call[c].req.overwrite
    /\ call' = [call EXCEPT ![c].phase = "refused"]
    /\ UNCHANGED <<now, server, records, files>>

(* Mutant: the flag decides nothing.                                          *)
SendUnasked(c) ==
    /\ call[c].phase = "lookup"
    /\ call' = [call EXCEPT ![c].phase = "sent",
                            ![c].method = IF Taken(NameOf(call[c].req))
                                          THEN "PUT" ELSE "POST"]
    /\ server' = [server EXCEPT ![c] = "queued"]
    /\ UNCHANGED <<now, records, files>>

(* GET answered 404 or a record that is to be overwritten: the storing        *)
(* request is sent.                                                           *)
Send(c) ==
    /\ call[c].phase = "lookup"
    /\ ~Taken(NameOf(call[c].req)) \/ call[c].req.overwrite
    /\ call' = [call EXCEPT ![c].phase = "sent",
                            ![c].method = IF Taken(NameOf(call[c].req))
                                          THEN "PUT" ELSE "POST"]
    /\ server' = [server EXCEPT ![c] = "queued"]
    /\ UNCHANGED <<now, records, files>>

Succeed(c) ==
    /\ call[c].phase = "sent" /\ server[c] = "done"
    /\ call' = [call EXCEPT ![c].phase = "stored"]
    /\ UNCHANGED <<now, server, records, files>>

(* ErpNextError for any other reason, or an exception nothing catches: not    *)
(* reachable, not permitted, timed out, the connection or the answer lost or  *)
(* unreadable, the request rejected.                                          *)
GiveUp(c) ==
    /\ call[c].phase \in {"lookup", "sent"}
    /\ call' = [call EXCEPT ![c].phase = "failed"]
    /\ UNCHANGED <<now, server, records, files>>

-----------------------------------------------------------------------------
(* ERPNext                                                                    *)

(* POST creates a record under a free name. PUT changes the fields and child  *)
(* tables it is sent and leaves the others.                                   *)
Process(c) ==
    LET n   == NameOf(call[c].req)
        old == records[n].rows
        new == Record(c)
    IN
    /\ server[c] = "queued"
    /\ \/ /\ call[c].method = "POST" /\ ~Taken(n)
          /\ server' = [server EXCEPT ![c] = "done"]
          /\ records' = [records EXCEPT ![n] = new]
       \/ /\ call[c].method = "PUT" /\ Taken(n)
          /\ server' = [server EXCEPT ![c] = "done"]
          /\ records' = [records EXCEPT ![n] =
                 [new EXCEPT !.rows =
                     [k \in DOMAIN old \cup DOMAIN new.rows |->
                         IF k \in DOMAIN new.rows THEN new.rows[k] ELSE old[k]]]]
       \/ /\ call[c].method = "POST" <=> Taken(n)
          /\ server' = [server EXCEPT ![c] = "rejected"]
          /\ UNCHANGED records
    /\ UNCHANGED <<now, call, files>>

(* A user of ERPNext adds or deletes a record.                                *)
Edit(n) ==
    /\ records' = [records EXCEPT ![n] =
                      IF Taken(n) THEN NoRecord
                      ELSE [NoRecord EXCEPT !.by = Foreign]]
    /\ UNCHANGED <<now, call, server, files>>

Tick ==
    /\ now < MaxNow
    /\ now' = now + 1
    /\ UNCHANGED <<call, server, records, files>>

-----------------------------------------------------------------------------
Upload(c) == Refuse(c) \/ Send(c) \/ Succeed(c) \/ GiveUp(c)

Next ==
    \/ \E c \in Calls : (\E r \in Requests : Begin(c, r)) \/ Upload(c) \/ Process(c)
    \/ \E n \in Names : Edit(n)
    \/ Tick

Spec == Init /\ [][Next]_vars

-----------------------------------------------------------------------------
(* Properties                                                                 *)

Phases == {"unused", "local", "lookup", "sent", "stored", "refused", "failed"}

TypeOK ==
    /\ now \in 0 .. MaxNow
    /\ call \in [Calls -> [phase : Phases, req : Requests \cup {None},
                           at : 0 .. MaxNow, method : {None, "POST", "PUT"}]]
    /\ server \in [Calls -> {"none", "queued", "done", "rejected"}]
    /\ DOMAIN records = Names
    /\ \A n \in Names : records[n].by \in Calls \cup {Foreign, None}

(* How an upload looks to the registry.                                      *)
Holder == [n \in Names |-> records[n].by]

Uploading(c) == call[c].phase \notin {"unused", "local"}

UploadOf(c) ==
    [state  |-> IF ~Uploading(c) THEN "unused"
                ELSE IF call[c].phase \in {"lookup", "sent"} THEN "open"
                ELSE call[c].phase,
     name   |-> IF Uploading(c) THEN NameOf(call[c].req) ELSE None,
     mode   |-> IF Uploading(c) /\ call[c].req.overwrite THEN "overwrite"
                ELSE "create",
     effect |-> IF server[c] = "done" THEN "done" ELSE "none"]

Registry == INSTANCE MeasurementRegistry WITH
    holder <- Holder, upload <- [c \in Calls |-> UploadOf(c)]

(* Uploading implements the registry: a name changes hands only through an    *)
(* upload that found it free or was asked to overwrite, once per upload, and  *)
(* what the caller is told is what was done, although requests outlive their  *)
(* callers and ERPNext changes between the look-up and the store.             *)
RegistrySpec == Registry!Spec

(* A record with a slot name holds the rows of one measurement: an overwrite, *)
(* which leaves the child tables it does not send, never mixes two.           *)
WholeRecords ==
    \A n \in Names :
        (/\ Taken(n)
         /\ \A c \in Calls : server[c] = "done" /\ NameOf(call[c].req) = n
                => call[c].req.name = None)
        => \A k \in DOMAIN records[n].rows : records[n].rows[k] = records[n].by

(* Whatever ERPNext does, a measurement is in the local store; only one with  *)
(* the same file name, of the same second, may have replaced it.              *)
NothingLost ==
    \A c \in Calls : call[c].phase # "unused" =>
        \E d \in Calls :
            /\ d >= c /\ call[d].phase # "unused" /\ FileOf(d) = FileOf(c)
            /\ FileOf(c) \in DOMAIN files /\ files[FileOf(c)] = d

=============================================================================
