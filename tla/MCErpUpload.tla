---------------------------- MODULE MCErpUpload ------------------------------
(* Small instances of ErpUpload for TLC.                                      *)
EXTENDS ErpUpload

Ask(module, kind, overwrite) ==
    [job |-> "J", module |-> module, kind |-> kind, name |-> None,
     overwrite |-> overwrite, auto |-> TRUE]

(* Two kinds of measurement of module 1; a caller that names the record       *)
(* itself, so the two kinds meet under one name; and one only kept locally.   *)
MCRequests ==
    {Ask(1, "rest", FALSE), Ask(1, "rest", TRUE), Ask(1, "resistance", FALSE),
     [Ask(1, "resistance", TRUE) EXCEPT !.name = <<"J", 1, "rest">>],
     [Ask(1, "rest", FALSE) EXCEPT !.job = None]}

=============================================================================
