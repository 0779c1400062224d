------------------------- MODULE MCTelemetryProcessor -------------------------
(* Instances of TelemetryProcessor: every branch of process() occurs.       *)
EXTENDS TelemetryProcessor, TLC

Packet(type, health, text) == [type |-> type, health |-> health, text |-> text]

SomeKinds == {Packet("radiation", 0, "none"), Packet("radiation", 2, "none"),
              Packet("thermal", 2, "none"), Packet("evs", 0, "close"),
              Packet("unknown", 0, "none")}

(* Sessions run the same code and no property tells them apart.             *)
SessionSymmetry == Permutations(Sessions)

=============================================================================
