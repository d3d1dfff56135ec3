-------------------------- MODULE MeasurementRegistry ------------------------
(* What uploading a measurement to ERPNext promises: the Battery Measurement  *)
(* records form a registry with one measurement under each name, an upload    *)
(* takes effect at most once, on a free name or, if it was asked to           *)
(* overwrite, on a taken one, and its answer never claims more than happened. *)
(* After the answer "failed" the effect may still come. ErpUpload.tla is      *)
(* shown to implement this.                                                   *)
CONSTANTS
    Names,     \* names of Battery Measurement records
    Calls,     \* uploads, each with a measurement of its own
    Foreign,   \* stands for a measurement that came by another way
    None       \* stands for "no record"

VARIABLES
    holder,    \* the upload whose measurement each name holds, or Foreign
    upload     \* the state of each upload

registryVars == <<holder, upload>>

Unused == [state |-> "unused", name |-> None, mode |-> "create",
           effect |-> "none"]

Init ==
    /\ holder = [n \in Names |-> None]
    /\ upload = [c \in Calls |-> Unused]

Ask(c, n, m) ==
    /\ upload[c].state = "unused"
    /\ upload' = [upload EXCEPT ![c] =
                     [Unused EXCEPT !.state = "open", !.name = n, !.mode = m]]
    /\ UNCHANGED holder

(* The effect.                                                                *)
Take(c) ==
    /\ upload[c].state \in {"open", "failed"}
    /\ upload[c].effect = "none"
    /\ holder[upload[c].name] = None \/ upload[c].mode = "overwrite"
    /\ holder' = [holder EXCEPT ![upload[c].name] = c]
    /\ upload' = [upload EXCEPT ![c].effect = "done"]

AnswerStored(c) ==
    /\ upload[c].state = "open" /\ upload[c].effect = "done"
    /\ upload' = [upload EXCEPT ![c].state = "stored"]
    /\ UNCHANGED holder

(* Refused because the name is taken, and then nothing was or will be done.   *)
AnswerRefused(c) ==
    /\ upload[c].state = "open" /\ upload[c].effect = "none"
    /\ upload[c].mode = "create"
    /\ holder[upload[c].name] # None
    /\ upload' = [upload EXCEPT ![c].state = "refused"]
    /\ UNCHANGED holder

AnswerFailed(c) ==
    /\ upload[c].state = "open"
    /\ upload' = [upload EXCEPT ![c].state = "failed"]
    /\ UNCHANGED holder

(* Somebody adds or deletes a record in ERPNext itself.                       *)
Edit(n) ==
    /\ holder' = [holder EXCEPT ![n] = IF @ = None THEN Foreign ELSE None]
    /\ UNCHANGED upload

Next ==
    \/ \E c \in Calls :
          \/ \E n \in Names, m \in {"create", "overwrite"} : Ask(c, n, m)
          \/ Take(c) \/ AnswerStored(c) \/ AnswerRefused(c) \/ AnswerFailed(c)
    \/ \E n \in Names : Edit(n)

Spec == Init /\ [][Next]_registryVars

=============================================================================
