------------------------------ MODULE RetryPolicy ------------------------------
(***************************************************************************)
(* What the provider retries and how often (file/provider/util.go).        *)
(*                                                                         *)
(* An error is abstracted to what the retry loops look at: its dynamic     *)
(* type and, for a *models.Error, the codes of its items in order.         *)
(*                                                                         *)
(*   kind = "nil"     no error                                             *)
(*   kind = "models"  *models.Error decoded from a non-2xx answer          *)
(*   kind = "other"   anything else: a connection or decoding error, or a  *)
(*                    util.Message made by the provider itself             *)
(***************************************************************************)
EXTENDS Integers, Sequences

CONSTANTS
    maxRetryAttempt,   \* configured attempts of retry and of FlexyRetry
    minRetryAttempt    \* attempts of retryWithMinRetries

ASSUME AttemptAssumption ==
    /\ maxRetryAttempt \in Nat \ {0}
    /\ minRetryAttempt \in Nat \ {0}

--------------------------------------------------------------------------------
(* skipErrorCodes, as the set of codes mapped to true and to false.        *)
SkipTrue ==
    { "shares_profile_iops_not_allowed", "shares_profile_capacity_invalid",
      "shares_profile_capacity_iops_invalid", "shares_encryption_key_crn_invalid",
      "shares_zone_not_found", "shares_bad_request",
      "shares_resource_group_bad_request", "shares_vpc_not_found",
      "shares_not_found", "shares_target_not_found", "shares_target_one_per_vpc",
      "bad_field", "shares_name_duplicate", "shares_subnet_zone_mismatch",
      "targets_primary_ip_id_required", "targets_subnet_and_primary_ip_missing",
      "targets_primary_ip_not_related_to_subnet",
      "shares_target_vpc_and_network_interface", "shares_security_group_id_invalid",
      "targets_primary_ip_address_already_in_use", "reserved_ip_not_found",
      "shares_subnet_not_found", "targets_subnet_all_addresses_taken",
      "InvalidArgument", "shares_snapshot_not_found",
      "share_snapshot_rate_too_high", "share_snapshot_name_duplicate",
      "share_snapshots_quota_limit_exceeded", "invalid_route",
      "shares_bad_field_for_rfs_profile", "shares_profile_bandwidth_not_allowed",
      "shares_bandwidth_invalid", "shares_not_implemented" }

SkipFalse == { "shares_status_pending", "internal_error", "service_error" }

Listed == SkipTrue \cup SkipFalse

skipErrorCodes == [c \in Listed |-> c \in SkipTrue]

--------------------------------------------------------------------------------
NoError         == [kind |-> "nil", codes |-> <<>>]
OtherError      == [kind |-> "other", codes |-> <<>>]
ModelsError(cs) == [kind |-> "models", codes |-> cs]

IsErr(err) == err.kind # "nil"

(* The first listed code of the error decides; no listed code: retry.      *)
skipRetry(err) ==
    \E k \in DOMAIN err.codes :
        /\ err.codes[k] \in Listed
        /\ skipErrorCodes[err.codes[k]]
        /\ \A j \in 1 .. (k - 1) : err.codes[j] \notin Listed

skipRetryForObviousErrors(err) == err.kind = "models" /\ skipRetry(err)

--------------------------------------------------------------------------------
(* The four loops.  retry and retryWithMinRetries look at the error        *)
(* themselves; the two Flexy loops are told by their callback to stop.     *)
Engines == { "retry", "retryWithMinRetries", "FlexyRetry", "FlexyRetryWithConstGap" }

Flexy == { "FlexyRetry", "FlexyRetryWithConstGap" }

Limit(engine) ==
    CASE engine = "retryWithMinRetries"    -> minRetryAttempt
      [] engine = "FlexyRetryWithConstGap" -> 4 * maxRetryAttempt
      [] OTHER                             -> maxRetryAttempt

(* Mutant: retry goes on after a success.                                  *)
StopsOnSkipOnly(engine, err, stop) ==
    IF engine \in Flexy THEN stop ELSE skipRetryForObviousErrors(err)

(* The loop is left after the callback returned err (and stop, which only  *)
(* the Flexy loops have).                                                  *)
Stops(engine, err, stop) ==
    IF engine \in Flexy
    THEN stop
    ELSE ~IsErr(err) \/ skipRetryForObviousErrors(err)

(* The loop returns after this attempt: it was told to, or it was the last *)
(* one.  What it returns is the last error, NoError included.              *)
LoopEnds(engine, i, err, stop) ==
    Stops(engine, err, stop) \/ ~(i + 1 < Limit(engine))

(* "other" errors leave the gap of retry alone (the continue before the    *)
(* update), FlexyRetry updates it whatever the callback returned, and the  *)
(* first attempt (i = 0) never does.                                       *)
GrowsGap(engine, i, err) ==
    /\ i >= 1
    /\ \/ engine = "FlexyRetry"
       \/ engine \in {"retry", "retryWithMinRetries"} /\ err.kind = "models"
================================================================================
