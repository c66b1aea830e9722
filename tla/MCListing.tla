------------------------------- MODULE MCListing -------------------------------
(* Five ids and pages of one or two: up to five pages, with the limits     *)
(* below, at and above the largest one passed on.                          *)
EXTENDS Listing

MCFaultErrors == { OtherError, ModelsError(<<"invalid_route">>) }
MCLimits      == { -1, 0, 1, 3 }
================================================================================
