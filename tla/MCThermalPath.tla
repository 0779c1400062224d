---------------------------- MODULE MCThermalPath ----------------------------
(* Instances of ThermalPath: session values on both sides of the sensor's   *)
(* range, and a suite value above the limit.                                *)
EXTENDS ThermalPath, TLC

SomeInputs      == {-41, 101}
SomeSuiteLevels == {101}
\* the suite's, the sensor's default, and what the clamp makes of SomeInputs
SomeLevels      == SomeSuiteLevels \union {20, -40, 85}

SessionSymmetry == Permutations(Sessions)

=============================================================================
