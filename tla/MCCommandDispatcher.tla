------------------------- MODULE MCCommandDispatcher -------------------------
(* Instances of CommandDispatcher: commands of the ground station's         *)
(* buttons.  A small modulus lets the counter wrap.                         *)
EXTENDS CommandDispatcher, TLC

(* Sessions run the same code and no property tells them apart.             *)
SessionSymmetry == Permutations(Sessions)

(* One command for each MID: the counter does not depend on the code.       *)
OnePerMid == {[mid |-> SOLAR_ARRAY_APP, fc |-> SOLAR_ARRAY_OPEN],
              [mid |-> TO_LAB_CMD, fc |-> TO_LAB_OUTPUT_ENABLE]}

=============================================================================
