---------------------------- MODULE FileShareClient ----------------------------
(***************************************************************************)
(* The HTTP clients of the file service (common/vpcclient/client and       *)
(* common/vpcclient/vpcfilevolume): what one request may come back with.   *)
(***************************************************************************)
EXTENDS FileShareBackend

(* Request.Invoke: an answer that is not 2xx comes back as *models.Error   *)
(* with the codes of its body.  A fault before the service acts (no token, *)
(* no connection, an error of a gateway) comes back as one of FaultErrors; *)
(* a fault after it acted (the answer is lost or cannot be decoded) as an  *)
(* error that is not a *models.Error.                                      *)
Invoke(outcomes) ==
    outcomes \cup
    (IF faults < MaxFaults
     THEN {Outcome(o.shares, o.targets, OtherError, None, TRUE) : o \in outcomes}
          \cup {Outcome(shares, targets, e, None, TRUE) : e \in FaultErrors}
     ELSE {})

CreateFileShare(n, v)       == Invoke(ServiceCreateShare(n, v))
GetFileShare(x)             == Invoke(ServiceGetShare(x))
DeleteFileShare(x)          == Invoke(ServiceDeleteShare(x))
CreateFileShareTarget(x, v) == Invoke(ServiceCreateTarget(x, v))
ListFileShareTargets(x)     == Invoke(ServiceListTargets(x))
GetFileShareTarget(x, t)    == Invoke(ServiceGetTarget(x, t))

(* Of all errors DeleteFileShareTarget returns only an answer 404, of the  *)
(* service or of a gateway, and that as a models.Error by value: no        *)
(* *models.Error for its callers.                                          *)
NotFoundOnly(e) ==
    IF e \in {ModelsError(<<"shares_target_not_found">>), ModelsError(<<"invalid_route">>)}
    THEN OtherError
    ELSE NoError

DeleteFileShareTarget(x, t) ==
    {[o EXCEPT !.err = NotFoundOnly(o.err)] : o \in Invoke(ServiceDeleteTarget(x, t))}
================================================================================
