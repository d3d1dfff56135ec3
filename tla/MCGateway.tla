------------------------------ MODULE MCGateway ------------------------------
(* Small instances of Gateway for TLC.                                        *)
EXTENDS Gateway, TLC

CONSTANTS f1, f2

(* A frame nobody needs to see, and the one that has to arrive.               *)
MCFrames == {[name |-> "system_status", payload |-> f1]}
MCFaultFrames == MCFrames \cup {[name |-> "fault", payload |-> f2]}

Symmetry == Permutations(Sockets)

=============================================================================
