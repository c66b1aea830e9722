--------------------------- MODULE MCShareLifecycle ---------------------------
(* Two sessions, one contended name, two share ids; a request that does    *)
(* not reach the service fails as a connection error, as an internal error *)
(* (retried) or as a gateway error (listed as not worth a retry).          *)
EXTENDS ShareLifecycle

MCFaultErrors ==
    { OtherError, ModelsError(<<"internal_error">>), ModelsError(<<"invalid_route">>) }
================================================================================
