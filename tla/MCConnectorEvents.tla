------------------------- MODULE MCConnectorEvents --------------------------
(* Small instances of ConnectorEvents for TLC.                              *)
EXTENDS ConnectorEvents, TLC

Symmetry == Permutations(Workers) \cup Permutations(Events)
============================================================================
