--------------------------- MODULE ErpUploadProofs ---------------------------
(* Proofs about ErpUpload for any number of uploads, any requests and any     *)
(* length of time: it implements MeasurementRegistry.                         *)
EXTENDS ErpUpload, TLAPS

-----------------------------------------------------------------------------
(* The inductive invariant.                                                   *)

(* A storing request exists only for an upload that got past the look-up, and *)
(* a PUT only for one that was asked to overwrite.                            *)
RequestsHaveCallers ==
    \A c \in Calls :
        /\ server[c] # "none" =>
               /\ call[c].phase \in {"sent", "stored", "failed"}
               /\ call[c].method \in {"POST", "PUT"}
               /\ call[c].method = "PUT" => call[c].req.overwrite
        /\ call[c].phase = "stored" => server[c] = "done"

(* An upload has a request, with a job, and so a name.                        *)
UploadsHaveNames ==
    \A c \in Calls :
        Uploading(c) => call[c].req \in Requests /\ NameOf(call[c].req) \in Names

IInv == TypeOK /\ RequestsHaveCallers /\ UploadsHaveNames

LEMMA InitIInv == Init => IInv
<1> SUFFICES ASSUME Init PROVE IInv
  OBVIOUS
<1>1. TypeOK
  BY MaxNowNat DEF Init, TypeOK, NewCall, Phases, NoRecord
<1>2. RequestsHaveCallers /\ UploadsHaveNames
  BY DEF Init, RequestsHaveCallers, UploadsHaveNames, NewCall, Uploading
<1>3. QED
  BY <1>1, <1>2 DEF IInv

(* A new upload of a request with a job is asked for under a name of Names.   *)
LEMMA BeginIInv ==
    ASSUME IInv, NEW c \in Calls, NEW r \in Requests, Begin(c, r)
    PROVE  IInv'
<1>1. TypeOK'
  BY DEF IInv, TypeOK, Begin, Phases
<1>2. RequestsHaveCallers'
  BY DEF IInv, TypeOK, RequestsHaveCallers, Begin, NewCall
<1>3. UploadsHaveNames'
  <2>1. call'[c].phase # "local" => call'[c].req \in Requests /\ NameOf(call'[c].req) \in Names
    BY DEF IInv, TypeOK, Begin, Names
  <2>2. \A d \in Calls \ {c} : call'[d] = call[d]
    BY DEF IInv, TypeOK, Begin
  <2>3. QED
    BY <2>1, <2>2 DEF IInv, UploadsHaveNames, Uploading
<1>4. QED
  BY <1>1, <1>2, <1>3 DEF IInv

(* The steps of an upload that is under way.                                  *)
LEMMA UploadIInv ==
    ASSUME IInv, NEW c \in Calls, Upload(c)
    PROVE  IInv'
<1>1. TypeOK'
  BY DEF IInv, TypeOK, Upload, Refuse, Send, Succeed, GiveUp, Phases
<1>2. RequestsHaveCallers'
  BY FlagsBoolean DEF IInv, TypeOK, RequestsHaveCallers, UploadsHaveNames, Uploading, Upload,
         Refuse, Send, Succeed, GiveUp, Taken
<1>3. UploadsHaveNames'
  <2>1. \A d \in Calls : call'[d].req = call[d].req /\ (Uploading(d)' => Uploading(d))
    BY DEF IInv, TypeOK, Upload, Refuse, Send, Succeed, GiveUp, Uploading
  <2>2. QED
    BY <2>1 DEF IInv, UploadsHaveNames
<1>4. QED
  BY <1>1, <1>2, <1>3 DEF IInv

(* ERPNext processes a storing request.                                       *)
LEMMA ProcessIInv ==
    ASSUME IInv, NEW c \in Calls, Process(c)
    PROVE  IInv'
<1>1. server[c] = "queued" /\ UNCHANGED <<now, call, files>>
  BY DEF Process
<1>2. \E a \in {"done", "rejected"} : server' = [server EXCEPT ![c] = a]
  BY DEF Process
<1>3. DOMAIN records' = Names
        /\ \A n \in Names : records'[n].by = records[n].by \/ records'[n].by = c
  BY DEF IInv, TypeOK, Process, Record
<1>4. TypeOK'
  BY <1>1, <1>2, <1>3 DEF IInv, TypeOK
<1>5. RequestsHaveCallers'
  BY <1>1, <1>2 DEF IInv, TypeOK, RequestsHaveCallers
<1>6. UploadsHaveNames'
  BY <1>1 DEF IInv, UploadsHaveNames, Uploading
<1>7. QED
  BY <1>4, <1>5, <1>6 DEF IInv

(* What happens elsewhere.                                                    *)
LEMMA EnvironmentIInv ==
    ASSUME IInv, (\E n \in Names : Edit(n)) \/ Tick \/ UNCHANGED vars
    PROVE  IInv'
<1>1. UNCHANGED <<call, server>>
  BY DEF Edit, Tick, vars
<1>2. now' \in 0 .. MaxNow
  BY MaxNowNat DEF IInv, TypeOK, Edit, Tick, vars
<1>3. DOMAIN records' = Names
        /\ \A n \in Names : records'[n].by \in Calls \cup {Foreign, None}
  BY DEF IInv, TypeOK, Edit, Tick, vars, NoRecord
<1>4. QED
  BY <1>1, <1>2, <1>3
  DEF IInv, TypeOK, RequestsHaveCallers, UploadsHaveNames, Uploading

LEMMA NextIInv == IInv /\ [Next]_vars => IInv'
BY BeginIInv, UploadIInv, ProcessIInv, EnvironmentIInv DEF Next

(* Every reachable state satisfies the inductive invariant: a storing request *)
(* at ERPNext belongs to an upload past its look-up, and a PUT to one that    *)
(* was asked to overwrite.                                                    *)
THEOREM Invariance == Spec => []IInv
BY InitIInv, NextIInv, PTL DEF Spec

(* The type invariant.                                                        *)
THEOREM TypeCorrect == Spec => []TypeOK
<1>1. IInv => TypeOK
  BY DEF IInv
<1>2. QED
  BY Invariance, <1>1, PTL

-----------------------------------------------------------------------------
(* Refinement: every step of an upload is a step of the registry or none.     *)

Mapped == [c \in Calls |-> UploadOf(c)]

LEMMA InitRefines == Init => Registry!Init
BY DEF Init, Registry!Init, Registry!Unused, Holder, UploadOf, Uploading,
       NewCall, NoRecord

(* A step that leaves call and server of an upload leaves its image.          *)
LEMMA SameImage ==
    ASSUME NEW c \in Calls, call'[c] = call[c], server'[c] = server[c]
    PROVE  UploadOf(c)' = UploadOf(c)
BY DEF UploadOf, Uploading

LEMMA BeginRefines ==
    ASSUME IInv, NEW c \in Calls, NEW r \in Requests, Begin(c, r)
    PROVE  [Registry!Next]_<<Holder, Mapped>>
<1>1. Holder' = Holder
  BY DEF Begin, Holder
<1>2. \A d \in Calls \ {c} : UploadOf(d)' = UploadOf(d)
  BY SameImage DEF IInv, TypeOK, Begin
<1>3. server[c] = "none" /\ server' = server
  BY DEF IInv, RequestsHaveCallers, Begin, NewCall
<1>4. ~Uploading(c) /\ UploadOf(c) = Registry!Unused
  BY <1>3 DEF Begin, NewCall, Uploading, UploadOf, Registry!Unused
<1>5. CASE call'[c].phase = "local"
  <2>1. UploadOf(c)' = UploadOf(c)
    BY <1>3, <1>4, <1>5 DEF UploadOf, Uploading, Registry!Unused
  <2>2. QED
    BY <1>1, <1>2, <2>1 DEF Mapped
<1>6. CASE call'[c].phase = "lookup"
  <2>1. NameOf(r) \in Names /\ r.overwrite \in BOOLEAN /\ call'[c].req = r
    BY <1>6, FlagsBoolean DEF IInv, TypeOK, Begin, Names
  <2>2. PICK m \in {"create", "overwrite"} :
            m = "overwrite" <=> r.overwrite
    OBVIOUS
  <2>3. UploadOf(c)' = [state |-> "open", name |-> NameOf(r), mode |-> m,
                        effect |-> "none"]
    BY <1>3, <1>6, <2>1, <2>2 DEF UploadOf, Uploading
  <2>4. Mapped' = [Mapped EXCEPT ![c] =
            [Registry!Unused EXCEPT !.state = "open", !.name = NameOf(r),
                                    !.mode = m]]
    BY <1>2, <2>3 DEF Mapped, Registry!Unused
  <2>5. Registry!Ask(c, NameOf(r), m)
    BY <1>1, <1>4, <2>4 DEF Registry!Ask, Registry!Unused, Mapped
  <2>6. QED
    BY <2>1, <2>5 DEF Registry!Next
<1>7. QED
  BY <1>5, <1>6 DEF IInv, TypeOK, Begin

(* An answer moves the upload from "open" to that answer; sending is silent.  *)
LEMMA UploadRefines ==
    ASSUME IInv, NEW c \in Calls, Upload(c)
    PROVE  [Registry!Next]_<<Holder, Mapped>>
<1>1. Holder' = Holder
  BY DEF Upload, Refuse, Send, Succeed, GiveUp, Holder
<1>2. \A d \in Calls \ {c} : UploadOf(d)' = UploadOf(d)
  BY SameImage DEF IInv, TypeOK, Upload, Refuse, Send, Succeed, GiveUp
<1>3. /\ call[c].phase \in {"lookup", "sent"} /\ Uploading(c)
      /\ call'[c].req = call[c].req
  BY DEF IInv, TypeOK, Upload, Refuse, Send, Succeed, GiveUp, Uploading
<1>4. UploadOf(c).state = "open"
  BY <1>3 DEF UploadOf
<1>5. CASE Refuse(c)
  <2>1. call'[c].phase = "refused" /\ server' = server
    BY <1>5 DEF IInv, TypeOK, Refuse
  <2>2. UploadOf(c)' = [UploadOf(c) EXCEPT !.state = "refused"]
    BY <1>3, <2>1 DEF UploadOf, Uploading
  <2>3. UploadOf(c).effect = "none" /\ UploadOf(c).mode = "create"
    BY <1>5 DEF IInv, RequestsHaveCallers, Refuse, UploadOf
  <2>4. Holder[UploadOf(c).name] # None
    BY <1>3, <1>5 DEF IInv, UploadsHaveNames, Refuse, Taken, Holder, UploadOf
  <2>5. Registry!AnswerRefused(c)
    BY <1>1, <1>2, <1>4, <2>2, <2>3, <2>4 DEF Registry!AnswerRefused
  <2>6. QED
    BY <2>5 DEF Registry!Next
<1>6. CASE Send(c)
  <2>1. call'[c].phase = "sent" /\ server[c] = "none" /\ server'[c] = "queued"
    BY <1>6 DEF IInv, TypeOK, RequestsHaveCallers, Send
  <2>2. UploadOf(c)' = UploadOf(c)
    BY <1>3, <2>1 DEF UploadOf, Uploading
  <2>3. QED
    BY <1>1, <1>2, <2>2 DEF Mapped
<1>7. CASE Succeed(c)
  <2>1. call'[c].phase = "stored" /\ server' = server /\ server[c] = "done"
    BY <1>7 DEF IInv, TypeOK, Succeed
  <2>2. UploadOf(c)' = [UploadOf(c) EXCEPT !.state = "stored"]
        /\ UploadOf(c).effect = "done"
    BY <1>3, <2>1 DEF UploadOf, Uploading
  <2>3. Registry!AnswerStored(c)
    BY <1>1, <1>2, <1>4, <2>2 DEF Registry!AnswerStored
  <2>4. QED
    BY <2>3 DEF Registry!Next
<1>8. CASE GiveUp(c)
  <2>1. call'[c].phase = "failed" /\ server' = server
    BY <1>8 DEF IInv, TypeOK, GiveUp
  <2>2. UploadOf(c)' = [UploadOf(c) EXCEPT !.state = "failed"]
    BY <1>3, <2>1 DEF UploadOf, Uploading
  <2>3. Registry!AnswerFailed(c)
    BY <1>1, <1>2, <1>4, <2>2 DEF Registry!AnswerFailed
  <2>4. QED
    BY <2>3 DEF Registry!Next
<1>9. QED
  BY <1>5, <1>6, <1>7, <1>8 DEF Upload

(* ERPNext stores at most once for an upload, and only where the registry     *)
(* allows it: this is where the upload takes effect.                          *)
LEMMA ProcessRefines ==
    ASSUME IInv, NEW c \in Calls, Process(c)
    PROVE  [Registry!Next]_<<Holder, Mapped>>
<1> DEFINE n == NameOf(call[c].req)
<1>1. /\ server[c] = "queued" /\ call' = call
      /\ call[c].phase \in {"sent", "failed"}
      /\ call[c].method \in {"POST", "PUT"}
      /\ call[c].method = "PUT" => call[c].req.overwrite
  BY DEF IInv, RequestsHaveCallers, Process
<1>2. Uploading(c) /\ n \in Names
  BY <1>1 DEF IInv, UploadsHaveNames, Uploading
<1>3. \A d \in Calls \ {c} : UploadOf(d)' = UploadOf(d)
  BY <1>1, SameImage DEF IInv, TypeOK, Process
<1>4. /\ UploadOf(c).state \in {"open", "failed"} /\ UploadOf(c).effect = "none"
      /\ UploadOf(c).name = n
  BY <1>1, <1>2 DEF UploadOf, Uploading
<1>5. CASE server'[c] = "rejected"
  <2>1. records' = records
    BY <1>5 DEF IInv, TypeOK, Process
  <2>2. UploadOf(c)' = UploadOf(c)
    BY <1>1, <1>5 DEF UploadOf, Uploading
  <2>3. QED
    BY <1>3, <2>1, <2>2 DEF Mapped, Holder
<1>6. CASE server'[c] = "done"
  <2>1. UploadOf(c)' = [UploadOf(c) EXCEPT !.effect = "done"]
    BY <1>1, <1>6 DEF UploadOf, Uploading
  <2>2. ~Taken(n) \/ call[c].method = "PUT"
    BY <1>6 DEF IInv, TypeOK, Process
  <2>3. Holder[n] = None \/ UploadOf(c).mode = "overwrite"
    BY <1>1, <1>2, <2>2 DEF Taken, Holder, UploadOf
  <2>4. records'[n].by = c /\ \A m \in Names \ {n} : records'[m] = records[m]
    BY <1>2, <1>6 DEF IInv, TypeOK, Process, Record
  <2>5. Holder' = [Holder EXCEPT ![n] = c]
    BY <1>2, <2>4 DEF Holder
  <2>6. Registry!Take(c)
    BY <1>3, <1>4, <2>1, <2>3, <2>5 DEF Registry!Take
  <2>7. QED
    BY <2>6 DEF Registry!Next
<1>7. QED
  BY <1>5, <1>6 DEF IInv, TypeOK, Process

LEMMA EnvironmentRefines ==
    ASSUME IInv, (\E n \in Names : Edit(n)) \/ Tick \/ UNCHANGED vars
    PROVE  [Registry!Next]_<<Holder, Mapped>>
<1>1. Mapped' = Mapped
  BY SameImage DEF Edit, Tick, vars, Mapped
<1>2. ASSUME NEW n \in Names, Edit(n) PROVE Registry!Edit(n)
  <2>1. /\ \A m \in Names \ {n} : records'[m] = records[m]
        /\ records'[n].by = IF records[n].by = None THEN Foreign ELSE None
    BY <1>2 DEF IInv, TypeOK, Edit, Taken, NoRecord
  <2>2. QED
    BY <1>1, <2>1 DEF Registry!Edit, Holder, Mapped
<1>3. Tick \/ UNCHANGED vars => Holder' = Holder
  BY DEF Tick, vars, Holder
<1>4. QED
  BY <1>1, <1>2, <1>3 DEF Registry!Next

LEMMA NextRefines == IInv /\ [Next]_vars => [Registry!Next]_<<Holder, Mapped>>
BY BeginRefines, UploadRefines, ProcessRefines, EnvironmentRefines DEF Next

(* Uploads implement the registry: for any number of uploads under way or     *)
(* given up, a name changes hands only as the registry allows, and no caller  *)
(* is told more than was done.                                                *)
THEOREM Refinement == Spec => RegistrySpec
<1>1. IInv /\ [Next]_vars => [Registry!Next]_(Registry!registryVars)
  BY NextRefines DEF Registry!registryVars, Mapped
<1>2. QED
  BY <1>1, InitRefines, Invariance, PTL DEF Spec, RegistrySpec, Registry!Spec

-----------------------------------------------------------------------------
(* The local store.                                                           *)

(* Uploads begin in the order of their numbers, so that the last writer of a  *)
(* file is not older than the uploads that wrote it before.                   *)
BegunInOrder ==
    \A c, d \in Calls : d < c /\ call[c].phase # "unused" => call[d].phase # "unused"

UnusedIsNew == \A c \in Calls : call[c].phase = "unused" => call[c] = NewCall

StoreInv == TypeOK /\ BegunInOrder /\ UnusedIsNew /\ NothingLost

LEMMA StoreInit == Init => StoreInv
<1>1. Init => TypeOK
  BY InitIInv DEF IInv
<1>2. Init => BegunInOrder /\ UnusedIsNew /\ NothingLost
  BY DEF Init, NewCall, BegunInOrder, UnusedIsNew, NothingLost
<1>3. QED
  BY <1>1, <1>2 DEF StoreInv

(* A new measurement is written; what is replaced is of the same name and     *)
(* came before.                                                               *)
LEMMA BeginStores ==
    ASSUME StoreInv, TypeOK', NEW c \in Calls, NEW r \in Requests, Begin(c, r)
    PROVE  StoreInv'
<1> DEFINE f == <<r.job, r.module, r.kind, now>>
<1>1. /\ call[c] = NewCall /\ call[c].phase = "unused"
      /\ \A d \in Calls : d < c => call[d].phase # "unused"
  BY DEF Begin, StoreInv, UnusedIsNew, NewCall
<1>2. /\ \A d \in Calls \ {c} : call'[d] = call[d]
      /\ call'[c].phase # "unused" /\ call'[c].req = r /\ call'[c].at = now
  BY DEF Begin, StoreInv, TypeOK
<1>3. FileOf(c)' = f /\ \A d \in Calls \ {c} : FileOf(d)' = FileOf(d)
  BY <1>2 DEF FileOf
<1>4. files' = [g \in DOMAIN files \cup {f} |-> IF g = f THEN c ELSE files[g]]
  BY DEF Begin, Save
<1> HIDE DEF f
<1>5. \A d \in Calls : call[d].phase # "unused" => d # c /\ d <= c
  <2> SUFFICES ASSUME NEW d \in Calls, call[d].phase # "unused"
               PROVE  d # c /\ d <= c
    OBVIOUS
  <2>1. d \in Nat /\ c \in Nat
    BY CallsNat
  <2>2. ~(c < d)
    BY <1>1, <2>1 DEF StoreInv, BegunInOrder
  <2>3. QED
    BY <1>1, <2>1, <2>2
<1>6. NothingLost'
  <2> SUFFICES ASSUME NEW e \in Calls, call'[e].phase # "unused"
               PROVE  \E d \in Calls :
                        /\ d >= e /\ call'[d].phase # "unused"
                        /\ FileOf(d)' = FileOf(e)'
                        /\ FileOf(e)' \in DOMAIN files'
                        /\ files'[FileOf(e)'] = d
    BY DEF NothingLost
  <2>1. CASE FileOf(e)' = f
    <3>1. e <= c /\ c >= e
      <4>1. e \in Nat /\ c \in Nat
        BY CallsNat
      <4>2. CASE e = c
        BY <4>1, <4>2
      <4>3. CASE e # c
        BY <1>2, <1>5, <4>1, <4>3
      <4>4. QED
        BY <4>2, <4>3
    <3>2. QED
      BY <1>2, <1>3, <1>4, <2>1, <3>1
  <2>2. CASE FileOf(e)' # f
    <3>1. e # c /\ FileOf(e)' = FileOf(e) /\ call[e].phase # "unused"
      BY <1>2, <1>3, <2>2
    <3>2. PICK d \in Calls :
            /\ d >= e /\ call[d].phase # "unused" /\ FileOf(d) = FileOf(e)
            /\ FileOf(e) \in DOMAIN files /\ files[FileOf(e)] = d
      BY <3>1 DEF StoreInv, NothingLost
    <3>3. d # c
      BY <1>1, <3>2
    <3>4. QED
      BY <1>2, <1>3, <1>4, <2>2, <3>1, <3>2, <3>3
  <2>3. QED
    BY <2>1, <2>2
<1>7. BegunInOrder'
  <2> SUFFICES ASSUME NEW e \in Calls, NEW d \in Calls, d < e,
                      call'[e].phase # "unused"
               PROVE  call'[d].phase # "unused"
    BY DEF BegunInOrder
  <2>1. QED
    BY <1>1, <1>2 DEF StoreInv, BegunInOrder
<1>8. UnusedIsNew'
  BY <1>2 DEF StoreInv, UnusedIsNew
<1>9. QED
  BY <1>6, <1>7, <1>8 DEF StoreInv

(* Nothing else touches the store, or what an upload was asked for.           *)
LEMMA OthersStore ==
    ASSUME StoreInv, TypeOK',
           (\E c \in Calls : Upload(c) \/ Process(c))
               \/ (\E n \in Names : Edit(n)) \/ Tick \/ UNCHANGED vars
    PROVE  StoreInv'
<1>1. files' = files
  BY DEF Upload, Refuse, Send, Succeed, GiveUp, Process, Edit, Tick, vars
<1>2. \A d \in Calls :
        /\ call'[d].req = call[d].req /\ call'[d].at = call[d].at
        /\ call'[d].phase = "unused" <=> call[d].phase = "unused"
        /\ call[d].phase = "unused" => call'[d] = call[d]
  <2>1. CASE UNCHANGED call
    BY <2>1
  <2>2. CASE \E c \in Calls : Upload(c)
    BY <2>2 DEF Upload, Refuse, Send, Succeed, GiveUp, StoreInv, TypeOK
  <2>3. QED
    BY <2>1, <2>2 DEF Process, Edit, Tick, vars
<1>3. \A d \in Calls : FileOf(d)' = FileOf(d)
  BY <1>2 DEF FileOf
<1>4. NothingLost'
  BY <1>1, <1>2, <1>3 DEF StoreInv, NothingLost
<1>5. BegunInOrder' /\ UnusedIsNew'
  BY <1>2 DEF StoreInv, BegunInOrder, UnusedIsNew
<1>6. QED
  BY <1>4, <1>5 DEF StoreInv

(* No measurement is missing from the local store, whatever becomes of its    *)
(* upload: only one of the same job, module, kind and second may stand in its *)
(* place (LocalMeasurementStore.save before create_battery_measurement).      *)
THEOREM Stored == Spec => []NothingLost
<1>1. StoreInv /\ TypeOK' /\ [Next]_vars => StoreInv'
  BY BeginStores, OthersStore DEF Next
<1>2. StoreInv => NothingLost
  BY DEF StoreInv
<1>3. QED
  BY <1>1, <1>2, StoreInit, TypeCorrect, PTL DEF Spec

-----------------------------------------------------------------------------
(* What is in a record.                                                       *)

(* Done(c, n): the request of c was stored under n; its name was not given.   *)
Done(c, n) == server[c] = "done" /\ NameOf(call[c].req) = n

BySlot(n) == \A c \in Calls : Done(c, n) => call[c].req.name = None

(* The rows of a slot's record are those of its holder, in tables of a kind   *)
(* that some upload into this slot had.                                       *)
Whole(n) ==
    \A k \in DOMAIN records[n].rows :
        /\ records[n].rows[k] = records[n].by
        /\ \E c \in Calls : Done(c, n) /\ call[c].req.kind = k

RecordInv == IInv /\ \A n \in Names : BySlot(n) => Whole(n)

(* A slot's name tells the kind of measurement.                               *)
LEMMA SlotHasOneKind ==
    ASSUME NEW q, NEW r, q.name = None, r.name = None, NameOf(q) = NameOf(r)
    PROVE  q.kind = r.kind
BY DEF NameOf

LEMMA RecordInit == Init => RecordInv
<1>1. Init => \A n \in Names : Whole(n)
  BY DEF Init, NoRecord, Whole
<1>2. QED
  BY <1>1, InitIInv DEF RecordInv

(* What was done stays done, and under the same name.                         *)
LEMMA DoneStays ==
    ASSUME IInv, [Next]_vars, NEW c \in Calls, server[c] = "done"
    PROVE  server'[c] = "done" /\ call'[c].req = call[c].req
<1>1. call[c].phase # "unused"
  BY DEF IInv, RequestsHaveCallers
<1>2. ASSUME NEW d \in Calls, NEW r \in Requests, Begin(d, r)
      PROVE  server'[c] = "done" /\ call'[c].req = call[c].req
  BY <1>1, <1>2 DEF Begin, NewCall, IInv, TypeOK
<1>3. ASSUME NEW d \in Calls, Upload(d)
      PROVE  server'[c] = "done" /\ call'[c].req = call[c].req
  <2>1. call[d].phase = "lookup" => d # c
    BY DEF IInv, RequestsHaveCallers
  <2>2. QED
    BY <1>3, <2>1 DEF Upload, Refuse, Send, Succeed, GiveUp, IInv, TypeOK
<1>4. ASSUME NEW d \in Calls, Process(d)
      PROVE  server'[c] = "done" /\ call'[c].req = call[c].req
  BY <1>4 DEF Process, IInv, TypeOK
<1>5. QED
  BY <1>2, <1>3, <1>4 DEF Next, Edit, Tick, vars

(* As long as nothing is stored a record stays whole.                         *)
LEMMA RecordKept ==
    ASSUME RecordInv, [Next]_vars, NEW n \in Names, BySlot(n)',
           records'[n] = records[n]
    PROVE  Whole(n)'
<1>1. \A c \in Calls : Done(c, n) => Done(c, n)' /\ call'[c].req = call[c].req
  BY DoneStays DEF RecordInv, Done
<1>2. BySlot(n)
  BY <1>1 DEF BySlot
<1>3. Whole(n)
  BY <1>2 DEF RecordInv
<1>4. QED
  BY <1>1, <1>3 DEF Whole

LEMMA ProcessWhole ==
    ASSUME RecordInv, NEW c \in Calls, Process(c), NEW n \in Names, BySlot(n)'
    PROVE  Whole(n)'
<1> DEFINE m == NameOf(call[c].req)
           old == records[m].rows
           new == Record(c)
<1>1. [Next]_vars
  BY DEF Next
<1>2. CASE records'[n] = records[n]
  BY <1>1, <1>2, RecordKept
<1>3. CASE records'[n] # records[n]
  <2>1. /\ n = m
        /\ server' = [server EXCEPT ![c] = "done"] /\ call' = call
        /\ \/ records'[n] = new
           \/ records'[n] = [new EXCEPT !.rows =
                 [k \in DOMAIN old \cup DOMAIN new.rows |->
                     IF k \in DOMAIN new.rows THEN new.rows[k] ELSE old[k]]]
    BY <1>3 DEF Process, RecordInv, IInv, TypeOK
  <2>2. Done(c, n)' /\ call'[c].req = call[c].req
    BY <2>1 DEF Done, RecordInv, IInv, TypeOK
  <2>3. call[c].req.name = None
    BY <2>2 DEF BySlot
  <2>4. /\ new.by = c /\ DOMAIN new.rows = {call[c].req.kind}
        /\ \A k \in DOMAIN new.rows : new.rows[k] = c
    BY DEF Record
  <2>5. \A k \in DOMAIN old : k = call[c].req.kind
    <3>1. \A d \in Calls : Done(d, n) => Done(d, n)' /\ call'[d].req = call[d].req
      BY <1>1, DoneStays DEF RecordInv, Done
    <3>2. BySlot(n)
      BY <3>1 DEF BySlot
    <3>3. Whole(n)
      BY <3>2 DEF RecordInv
    <3>4. QED
      BY <2>1, <2>3, <3>2, <3>3, SlotHasOneKind DEF Whole, BySlot, Done
  <2>6. records'[n].by = c /\ DOMAIN records'[n].rows = {call[c].req.kind}
        /\ \A k \in DOMAIN records'[n].rows : records'[n].rows[k] = c
    <3> DEFINE rows == [k \in DOMAIN old \cup DOMAIN new.rows |->
                           IF k \in DOMAIN new.rows THEN new.rows[k] ELSE old[k]]
               both == [new EXCEPT !.rows = rows]
    <3>1. both.by = c /\ both.rows = rows
      BY DEF Record
    <3>2. DOMAIN rows = {call[c].req.kind} /\ \A k \in DOMAIN rows : rows[k] = c
      BY <2>4, <2>5
    <3>3. records'[n] = new \/ records'[n] = both
      BY <2>1
    <3> HIDE DEF rows, new, both
    <3>4. QED
      BY <2>4, <3>1, <3>2, <3>3
  <2>7. QED
    BY <2>2, <2>6 DEF Whole
<1>4. QED
  BY <1>2, <1>3

LEMMA EditWhole ==
    ASSUME RecordInv, NEW e \in Names, Edit(e), NEW n \in Names, BySlot(n)'
    PROVE  Whole(n)'
<1>1. CASE n = e
  <2>1. \A x : DOMAIN [NoRecord EXCEPT !.by = x].rows = {} /\ DOMAIN NoRecord.rows = {}
    BY DEF NoRecord
  <2>2. DOMAIN records'[n].rows = {}
    BY <1>1, <2>1 DEF Edit, RecordInv, IInv, TypeOK
  <2>3. QED
    BY <2>2 DEF Whole
<1>2. CASE n # e
  <2>1. records'[n] = records[n] /\ [Next]_vars
    BY <1>2 DEF Edit, Next, RecordInv, IInv, TypeOK
  <2>2. QED
    BY <2>1, RecordKept
<1>3. QED
  BY <1>1, <1>2

(* A record with a slot name holds one measurement, however often the slot is *)
(* overwritten: what the PUT leaves in place, it leaves empty                 *)
(* (_resolve_measurement_identity puts the kind into the name).               *)
THEOREM RecordsWhole == Spec => []WholeRecords
<1>1. RecordInv /\ [Next]_vars => RecordInv'
  <2> SUFFICES ASSUME RecordInv, [Next]_vars PROVE RecordInv'
    OBVIOUS
  <2>1. IInv'
    BY NextIInv DEF RecordInv
  <2>2. ASSUME NEW n \in Names, BySlot(n)' PROVE Whole(n)'
    <3>1. CASE \E c \in Calls : Process(c)
      BY <2>2, <3>1, ProcessWhole
    <3>2. CASE \E e \in Names : Edit(e)
      BY <2>2, <3>2, EditWhole
    <3>3. CASE records' = records
      BY <2>2, <3>3, RecordKept
    <3>4. QED
      BY <3>1, <3>2, <3>3
      DEF Next, Begin, Upload, Refuse, Send, Succeed, GiveUp, Tick, vars
  <2>3. QED
    BY <2>1, <2>2 DEF RecordInv
<1>2. RecordInv => WholeRecords
  BY DEF RecordInv, WholeRecords, BySlot, Whole, Done
<1>3. QED
  BY <1>1, <1>2, RecordInit, PTL DEF Spec

=============================================================================
