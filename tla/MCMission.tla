------------------------------ MODULE MCMission ------------------------------
(* Instances of Mission: readings on both sides of the limit.               *)
EXTENDS Mission

MCLevels   == {150, 151}
MCFcnCodes == {2}
BusWorks   == {TRUE}
BusFails   == {TRUE, FALSE}

=============================================================================
