------------------------------- MODULE MCSessions -------------------------------
(* Two goroutines open sessions again and again, for one of two requests   *)
(* or for none, under every configuration.                                 *)
EXTENDS Sessions, TLC

Symmetry == Permutations(RequestIDs) \cup Permutations(Openers)
================================================================================
