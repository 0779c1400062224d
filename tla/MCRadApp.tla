------------------------------ MODULE MCRadApp ------------------------------
(* Instances of RadApp for TLC: readings on both sides of the two limits, a *)
(* sensor command and one other function code, and bus calls that may fail. *)
EXTENDS RadApp

MCLevels   == {100, 101, 150, 151}
MCFcnCodes == {1, 2}
AnyStatus  == {TRUE, FALSE}

=============================================================================
