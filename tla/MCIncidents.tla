---------------------------- MODULE MCIncidents ----------------------------
(* Two interchangeable windows.                                            *)
EXTENDS Incidents, TLC

WindowSymmetry == Permutations(Windows)
=============================================================================
