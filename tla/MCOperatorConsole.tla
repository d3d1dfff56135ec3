------------------------- MODULE MCOperatorConsole ---------------------------
(* Small instances of OperatorConsole for TLC.                                *)
EXTENDS OperatorConsole, TLC

CONSTANTS j1, j2, l1, l2

(* Requests for the list differ in nothing but their answer.                  *)
LoadsAlike == Permutations(Loads)

MCJobs == {j1, j2}

(* Two open jobs, and none left.                                              *)
MCJobLists == {<<j1, j2>>, <<>>}
MCTwoJobs == {<<j1, j2>>}

(* One job knows its single module, the other leaves the count to the         *)
(* operator.                                                                  *)
MCModuleCount == [j \in MCJobs |-> IF j = j1 THEN 1 ELSE 0]
MCOneModule == [j \in MCJobs |-> 1]

(* A record of the first job's module 1, of a cell or a resistance            *)
(* measurement.                                                               *)
MCEdits == {<<j1, 1, 1, 1>>, <<j1, 1, 2, 1>>}

=============================================================================
