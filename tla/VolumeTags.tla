------------------------------- MODULE VolumeTags -------------------------------
(***************************************************************************)
(* UpdateVolume of a VPCSession (file/provider/update_volume.go): several  *)
(* goroutines add user tags to one share.  Each attempt reads the tags     *)
(* with their etag, merges, and writes the result back if the etag still   *)
(* matches; retryWithMinRetries drives the attempts.                       *)
(*                                                                         *)
(* The share is the service's: its etag changes with every change of it.   *)
(***************************************************************************)
EXTENDS RetryPolicy

CONSTANTS
    Sessions,      \* goroutines that call UpdateVolume, once each
    Tags,          \* user tags; none is empty or contains a comma
    SubTag,        \* <<t, u>>: t occurs in u, upper and lower case alike
    Requests,      \* the sets of tags asked for
    FaultErrors,   \* errors of a request the service did not act on
    MaxFaults,     \* bound: faults in one behaviour
    MaxEdits       \* bound: changes of the share by others

ASSUME TagAssumption ==
    /\ SubTag \subseteq Tags \X Tags
    /\ \A t \in Tags : <<t, t>> \in SubTag
    /\ Requests \subseteq SUBSET Tags
    /\ \A e \in FaultErrors : IsErr(e)
    /\ MaxFaults \in Nat /\ MaxEdits \in Nat

VARIABLES
    status, userTags, etag,     \* the share
    edits, faults,              \* changes by others and faults so far
    pc, i, want, seen, match,   \* per goroutine: where it is, attempts before
                                \* this one, the request's tags, the tags and
                                \* the etag it read
    res,                        \* what UpdateVolume returned
    start, since, hit           \* history: etag and edits when it began, and
                                \* whether a fault reached it

shareVars == <<status, userTags, etag, edits>>
callVars  == <<want, start, since>>
tagVars   == <<status, userTags, etag, edits, faults, pc, i, want, seen, match, res,
               start, since, hit>>

Statuses == {"pending", "stable", "gone"}

Init ==
    /\ status \in {"pending", "stable"}
    /\ userTags \in SUBSET Tags
    /\ etag = 0 /\ edits = 0 /\ faults = 0
    /\ pc = [s \in Sessions |-> "idle"]
    /\ i = [s \in Sessions |-> 0]
    /\ want = [s \in Sessions |-> {}]
    /\ seen = [s \in Sessions |-> {}]
    /\ match = [s \in Sessions |-> 0]
    /\ res = [s \in Sessions |-> "none"]
    /\ start = [s \in Sessions |-> 0]
    /\ since = [s \in Sessions |-> 0]
    /\ hit = [s \in Sessions |-> FALSE]

--------------------------------------------------------------------------------
(* ifTagsEqual: every requested tag occurs in the existing tags, joined    *)
(* into one string.                                                        *)
Covered(t, T) == \E u \in T : <<t, u>> \in SubTag

(* Mutant: one known tag is enough.                                        *)
ifAnyTagEqual(existing, new) == \E t \in new : Covered(t, existing)

ifTagsEqual(existing, new) == \A t \in new : Covered(t, existing)

(* Mutants: one attempt too few; attempts are counted the wrong way.       *)
AttemptFailsEarly(s, err) ==
    IF LoopEnds("retryWithMinRetries", i[s] + 1, err, FALSE)
    THEN /\ pc' = [pc EXCEPT ![s] = "done"]
         /\ res' = [res EXCEPT ![s] = "FailedToUpdateVolume"]
         /\ UNCHANGED i
    ELSE /\ pc' = [pc EXCEPT ![s] = "get"]
         /\ i' = [i EXCEPT ![s] = @ + 1]
         /\ UNCHANGED res

AttemptCountedDown(s, err) ==
    /\ pc' = [pc EXCEPT ![s] = "get"]
    /\ i' = [i EXCEPT ![s] = @ - 1]
    /\ UNCHANGED res

(* The callback returned err: the loop tries again or gives up.            *)
AttemptFails(s, err) ==
    IF LoopEnds("retryWithMinRetries", i[s], err, FALSE)
    THEN /\ pc' = [pc EXCEPT ![s] = "done"]
         /\ res' = [res EXCEPT ![s] = "FailedToUpdateVolume"]
         /\ UNCHANGED i
    ELSE /\ pc' = [pc EXCEPT ![s] = "get"]
         /\ i' = [i EXCEPT ![s] = @ + 1]
         /\ UNCHANGED res

Succeeds(s) ==
    /\ pc' = [pc EXCEPT ![s] = "done"]
    /\ res' = [res EXCEPT ![s] = "ok"]
    /\ UNCHANGED i

NoFault == UNCHANGED <<faults, hit>>

Fault(s) ==
    /\ faults < MaxFaults
    /\ faults' = faults + 1
    /\ hit' = [hit EXCEPT ![s] = TRUE]

--------------------------------------------------------------------------------
UpdateVolume(s, T) ==
    /\ pc[s] = "idle"
    /\ pc' = [pc EXCEPT ![s] = "get"]
    /\ want' = [want EXCEPT ![s] = T]
    /\ start' = [start EXCEPT ![s] = etag]
    /\ since' = [since EXCEPT ![s] = edits]
    /\ UNCHANGED <<shareVars, faults, i, seen, match, res, hit>>

(* GET /shares/{id} and what the callback does with the answer.  A status  *)
(* other than stable makes a util.Message, which is not a *models.Error.   *)
GetFileShareEtag(s) ==
    /\ pc[s] = "get"
    /\ \/ \E e \in FaultErrors :
             Fault(s) /\ AttemptFails(s, e) /\ UNCHANGED <<seen, match>>
       \/ /\ status = "gone"
          /\ AttemptFails(s, ModelsError(<<"shares_not_found">>))
          /\ NoFault /\ UNCHANGED <<seen, match>>
       \/ /\ status = "pending"
          /\ AttemptFails(s, OtherError)
          /\ NoFault /\ UNCHANGED <<seen, match>>
       \/ /\ status = "stable"
          /\ ifTagsEqual(userTags, want[s])
          /\ Succeeds(s)
          /\ NoFault /\ UNCHANGED <<seen, match>>
       \/ /\ status = "stable"
          /\ ~ifTagsEqual(userTags, want[s])
          /\ pc' = [pc EXCEPT ![s] = "patch"]
          /\ seen' = [seen EXCEPT ![s] = userTags]
          /\ match' = [match EXCEPT ![s] = etag]
          /\ NoFault /\ UNCHANGED <<i, res>>
    /\ UNCHANGED <<shareVars, callVars>>

(* PATCH /shares/{id} with If-Match.                                       *)
Write(s) ==
    /\ userTags' = seen[s] \cup want[s]
    /\ etag' = etag + 1
    /\ UNCHANGED <<status, edits>>

(* Mutant: the etag is not sent.                                           *)
PatchAnyEtag(s) ==
    /\ pc[s] = "patch"
    /\ status # "gone"
    /\ Write(s) /\ Succeeds(s) /\ NoFault
    /\ UNCHANGED <<callVars, seen, match>>

UpdateFileShareWithEtag(s) ==
    /\ pc[s] = "patch"
    /\ \/ \E e \in FaultErrors :
             Fault(s) /\ AttemptFails(s, e) /\ UNCHANGED shareVars
       \/ /\ status = "gone"
          /\ AttemptFails(s, ModelsError(<<"shares_not_found">>))
          /\ NoFault /\ UNCHANGED shareVars
       \/ /\ status # "gone" /\ match[s] # etag
          /\ AttemptFails(s, ModelsError(<<"precondition_failed">>))
          /\ NoFault /\ UNCHANGED shareVars
       \/ /\ status # "gone" /\ match[s] = etag
          /\ Write(s)
          /\ \/ Succeeds(s) /\ NoFault
             \/ AttemptFails(s, OtherError) /\ Fault(s)
    /\ UNCHANGED <<callVars, seen, match>>

--------------------------------------------------------------------------------
(* Somebody else edits the tags, or the share changes its status.          *)
Elsewhere ==
    /\ edits < MaxEdits
    /\ edits' = edits + 1
    /\ etag' = etag + 1
    /\ \/ status # "gone" /\ userTags' \in SUBSET Tags /\ UNCHANGED status
       \/ status # "gone" /\ status' \in Statuses \ {status} /\ UNCHANGED userTags
    /\ UNCHANGED <<faults, pc, i, want, seen, match, res, start, since, hit>>

Step(s) == GetFileShareEtag(s) \/ UpdateFileShareWithEtag(s)

Next ==
    \/ \E s \in Sessions : Step(s) \/ \E T \in Requests : UpdateVolume(s, T)
    \/ Elsewhere

Spec == Init /\ [][Next]_tagVars

--------------------------------------------------------------------------------
TypeOK ==
    /\ status \in Statuses
    /\ userTags \in SUBSET Tags
    /\ etag \in Nat /\ edits \in 0 .. MaxEdits /\ faults \in 0 .. MaxFaults
    /\ pc \in [Sessions -> {"idle", "get", "patch", "done"}]
    /\ i \in [Sessions -> 0 .. (minRetryAttempt - 1)]
    /\ want \in [Sessions -> SUBSET Tags]
    /\ seen \in [Sessions -> SUBSET Tags]
    /\ match \in [Sessions -> Nat]
    /\ res \in [Sessions -> {"none", "ok", "FailedToUpdateVolume"}]
    /\ start \in [Sessions -> Nat]
    /\ since \in [Sessions -> 0 .. MaxEdits]
    /\ hit \in [Sessions -> BOOLEAN]

(* UpdateVolume adds the tags of its request to those on the share at that *)
(* moment and never undoes what another goroutine added or another client  *)
(* edited: read, merge and conditional write behave as one atomic step.    *)
TS == INSTANCE TagSet WITH tags <- userTags

NoLostTags == TS!Spec

(* A successful UpdateVolume leaves every requested tag, or a tag that     *)
(* contains it, on the share until somebody else edits the share: also     *)
(* when its own write succeeded and the answer was lost.                   *)
UpdatedTagsCovered ==
    \A s \in Sessions :
        res[s] = "ok" /\ since[s] = edits => \A t \in want[s] : Covered(t, userTags)

(* On a stable share that nobody else touches, and without faults,         *)
(* UpdateVolume fails only if other updates overtook each of its attempts. *)
RefusedOnlyWhenOvertaken ==
    \A s \in Sessions :
        /\ res[s] = "FailedToUpdateVolume"
        /\ ~hit[s] /\ since[s] = edits /\ status = "stable"
        => etag >= start[s] + minRetryAttempt
================================================================================
