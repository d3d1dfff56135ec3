---------------------------- MODULE MCStatusHub ------------------------------
(* Small instances of StatusHub for TLC.                                      *)
EXTENDS StatusHub, TLC

Symmetry == Permutations(Sockets)

=============================================================================
