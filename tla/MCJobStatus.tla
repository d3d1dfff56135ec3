----------------------------- MODULE MCJobStatus -----------------------------
(* Small instance of JobStatus for TLC.                                       *)
EXTENDS JobStatus

=============================================================================
