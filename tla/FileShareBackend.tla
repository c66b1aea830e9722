---------------------------- MODULE FileShareBackend ----------------------------
(***************************************************************************)
(* The VPC file service (RIaaS).  It is not part of the repository: its    *)
(* behaviour is what the provider's error codes, status constants and      *)
(* comments say of it.                                                     *)
(*                                                                         *)
(* A request is answered by one of a set of outcomes.  An outcome holds    *)
(* the state of the service afterwards, the error and the value of the     *)
(* answer, and whether a fault came in between (see FileShareClient).      *)
(***************************************************************************)
EXTENDS RetryPolicy, FiniteSets

CONSTANTS
    ShareIDs, TargetIDs,   \* identifiers the service can still give out
    Names,                 \* share names
    VPCs,
    None,                  \* no name, no VPC, no value
    DuplicateTarget,       \* code for a second target of a share in one VPC
    FaultErrors,           \* errors of a request the service did not act on
    MaxFaults              \* bound: faults in one behaviour

ASSUME BackendAssumption ==
    /\ None \notin ShareIDs \cup TargetIDs \cup Names \cup VPCs
    /\ \A e \in FaultErrors : IsErr(e)
    /\ MaxFaults \in Nat

VARIABLES
    shares,    \* status and name of every share id
    targets,   \* status, share and VPC of every target id
    faults     \* faults so far

backendVars == <<shares, targets, faults>>

Statuses == {"unused", "pending", "stable", "deleting", "gone"}

BackendTypeOK ==
    /\ shares  \in [ShareIDs -> [status : Statuses, name : Names \cup {None}]]
    /\ targets \in [TargetIDs -> [status : Statuses,
                                  share  : ShareIDs \cup {None},
                                  vpc    : VPCs \cup {None}]]
    /\ faults  \in 0 .. MaxFaults

BackendInit ==
    /\ shares  = [x \in ShareIDs |-> [status |-> "unused", name |-> None]]
    /\ targets = [t \in TargetIDs |-> [status |-> "unused", share |-> None, vpc |-> None]]
    /\ faults  = 0

Live(r) == r.status \in {"pending", "stable", "deleting"}

Accepted(r) == r.status \in {"deleting", "gone"}

TargetsOf(x) == {t \in TargetIDs : Live(targets[t]) /\ targets[t].share = x}

--------------------------------------------------------------------------------
(* Outcomes of one request.                                                *)

Outcome(sh, tg, e, v, f) ==
    [shares |-> sh, targets |-> tg, err |-> e, val |-> v, fault |-> f]

Done(sh, tg, v) == Outcome(sh, tg, NoError, v, FALSE)
Value(v)        == Done(shares, targets, v)
Refused(code)   == Outcome(shares, targets, ModelsError(<<code>>), None, FALSE)

(* The service moves to the state of the outcome.                           *)
Deliver(o) ==
    /\ shares'  = o.shares
    /\ targets' = o.targets
    /\ faults'  = IF o.fault THEN faults + 1 ELSE faults

(* Identifiers not given out yet; the shares with a new one named n; the   *)
(* targets with a new one of share x in VPC v.                             *)
FreeShares  == {x \in ShareIDs : shares[x].status = "unused"}
FreeTargets == {t \in TargetIDs : targets[t].status = "unused"}

Born(x, n) == [shares EXCEPT ![x] = [status |-> "pending", name |-> n]]

WithTarget(t, x, v) == [targets EXCEPT ![t] = [status |-> "pending", share |-> x, vpc |-> v]]

(* POST /shares; the template may carry one target (v # None).  An         *)
(* exhausted quota is a code the provider does not list.                   *)
ServiceCreateShare(n, v) ==
    IF \E x \in ShareIDs : Live(shares[x]) /\ shares[x].name = n
    THEN {Refused("shares_name_duplicate")}
    ELSE IF FreeShares = {} \/ (v # None /\ FreeTargets = {}) THEN {Refused("over_quota")}
    ELSE IF v = None THEN {Done(Born(x, n), targets, x) : x \in FreeShares}
    ELSE {Done(Born(x, n), WithTarget(t, x, v), x) : x \in FreeShares, t \in FreeTargets}

(* GET /shares/{id}: the status and the targets of the share.              *)
ServiceGetShare(x) ==
    IF Live(shares[x])
    THEN {Value([status |-> shares[x].status, targets |-> TargetsOf(x)])}
    ELSE {Refused("shares_not_found")}

(* DELETE /shares/{id}: accepted now, done later.  A share with targets is *)
(* refused with a code the provider does not list.                         *)
ServiceDeleteShare(x) ==
    IF ~Live(shares[x]) THEN {Refused("shares_not_found")}
    ELSE IF shares[x].status \in {"pending", "deleting"} THEN {Refused("shares_status_pending")}
    ELSE IF TargetsOf(x) # {} THEN {Refused("share_in_use")}
    ELSE {Done([shares EXCEPT ![x].status = "deleting"], targets, None)}

(* POST /shares/{id}/mount_targets                                         *)
ServiceCreateTarget(x, v) ==
    IF ~Live(shares[x]) THEN {Refused("shares_not_found")}
    ELSE IF shares[x].status # "stable" THEN {Refused("shares_status_pending")}
    ELSE IF \E t \in TargetsOf(x) : targets[t].vpc = v THEN {Refused(DuplicateTarget)}
    ELSE IF FreeTargets = {} THEN {Refused("over_quota")}
    ELSE {Done(shares, WithTarget(t, x, v), t) : t \in FreeTargets}

(* GET /shares/{id}/mount_targets and /shares/{id}/mount_targets/{id}      *)
ServiceListTargets(x) ==
    IF Live(shares[x]) THEN {Value(TargetsOf(x))} ELSE {Refused("shares_not_found")}

ServiceGetTarget(x, t) ==
    IF ~Live(shares[x]) THEN {Refused("shares_not_found")}
    ELSE IF t \notin TargetsOf(x) THEN {Refused("shares_target_not_found")}
    ELSE {Value(t)}

(* DELETE /shares/{id}/mount_targets/{id}                                  *)
ServiceDeleteTarget(x, t) ==
    IF t \notin TargetsOf(x)
    THEN {Refused("shares_target_not_found")}
    ELSE {Done(shares, [targets EXCEPT ![t].status = "deleting"], None)}

--------------------------------------------------------------------------------
(* Work the service finishes on its own, at any later time.                *)

ShareSettles(x) ==
    /\ \/ /\ shares[x].status = "pending"
          /\ shares' = [shares EXCEPT ![x].status = "stable"]
       \/ /\ shares[x].status = "deleting"
          /\ shares' = [shares EXCEPT ![x].status = "gone"]
    /\ UNCHANGED <<targets, faults>>

TargetSettles(t) ==
    /\ \/ /\ targets[t].status = "pending"
          /\ targets' = [targets EXCEPT ![t].status = "stable"]
       \/ /\ targets[t].status = "deleting"
          /\ targets' = [targets EXCEPT ![t].status = "gone"]
    /\ UNCHANGED <<shares, faults>>

BackendStep ==
    \/ \E x \in ShareIDs : ShareSettles(x)
    \/ \E t \in TargetIDs : TargetSettles(t)
================================================================================
