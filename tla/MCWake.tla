-------------------------------- MODULE MCWake --------------------------------
(* A small instance of Wake for TLC: the times at which two jobs are due.     *)
EXTENDS Wake

CONSTANTS j1, j2

Apart  == [j \in {j1, j2} |-> IF j = j1 THEN {1, 3} ELSE {2}]
Shared == [j \in {j1, j2} |-> {1}]

=============================================================================
