------------------------------ MODULE MCHttpClient ------------------------------
(* Two goroutines send requests of every kind again and again on one       *)
(* session.                                                                *)
EXTENDS HttpClient, TLC

Symmetry == Permutations(Callers)
================================================================================
