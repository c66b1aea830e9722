----------------------------- MODULE MCRetryEngine -----------------------------
(* Two goroutines, one loop each; errors of every class the loops tell     *)
(* apart: none, not a *models.Error, a listed code in either position      *)
(* behind an unlisted one, a code listed as false, no listed code.         *)
EXTENDS RetryEngine

MCErrors ==
    { NoError, OtherError,
      ModelsError(<<"unlisted", "shares_not_found">>),
      ModelsError(<<"internal_error", "shares_not_found">>) }
================================================================================
