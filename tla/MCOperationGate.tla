--------------------------- MODULE MCOperationGate ---------------------------
(* Instances of OperationGate for TLC.                                     *)
EXTENDS OperationGate
=============================================================================
