--------------------------- MODULE MCThermalGate ---------------------------
(* Small instances of ThermalGate for TLC.                                 *)
EXTENDS ThermalGate

\* The node nobody is watching.
Workers == Hosts \ {1}
=============================================================================
