------------------------------- MODULE MCShareData -------------------------------
(* GiB stands for 4 bytes and int64 for 6 bits: a share of 1 to 3 GiB, and *)
(* capacities below, at and above it, one off a whole GiB, and one whose   *)
(* rounding overflows.                                                     *)
EXTENDS ShareData

MCFaultErrors == { OtherError, ModelsError(<<"invalid_route">>) }
MCCapacities  == { 1, 4, 9, 30 }
================================================================================
