---------------------------- MODULE VolumeTagsProofs ----------------------------
(***************************************************************************)
(* Theorems about VolumeTags, for any number of goroutines, any tags,      *)
(* requests and containment of tags, and any limit of attempts, and about  *)
(* the handlers of PVWatcher that use it, for any number of events.        *)
(***************************************************************************)
EXTENDS PVWatcher, TLAPS

Refused == ModelsError(<<"precondition_failed">>)

(* An etag matches only if the tags are still those that were read with    *)
(* it, and no goroutine holds an etag of the future.                       *)
ReadInv ==
    \A s \in Sessions :
        /\ match[s] <= etag
        /\ pc[s] = "patch" /\ match[s] = etag => seen[s] = userTags

(* A goroutine in the middle of UpdateVolume carries one of the requests.  *)
WantInv == \A s \in Sessions : pc[s] # "idle" => want[s] \in Requests

(* Edits are counted upwards, a call begins with its first attempt, and a  *)
(* result belongs to a call that ended.                                    *)
CallInv ==
    \A s \in Sessions :
        /\ since[s] <= edits
        /\ pc[s] = "idle" => i[s] = 0
        /\ res[s] # "none" <=> pc[s] = "done"

(* On a quiet share a goroutine that failed i attempts was overtaken by at *)
(* least i writes before the etag it holds.                                *)
Quiet(s) == ~hit[s] /\ since[s] = edits /\ status = "stable"

OvertakenInv ==
    \A s \in Sessions : Quiet(s) =>
        /\ pc[s] = "get" => etag >= start[s] + i[s]
        /\ pc[s] = "patch" => match[s] >= start[s] + i[s]
        /\ res[s] = "FailedToUpdateVolume" => etag >= start[s] + minRetryAttempt

TagInv == TypeOK /\ ReadInv /\ WantInv /\ CallInv /\ UpdatedTagsCovered /\ OvertakenInv

(* A handler calls UpdateVolume after its IKS update and with the tags of  *)
(* its event; a panic needs a PV without ClaimRef or half a session, and   *)
(* that needs a fault.                                                     *)
HandlerInv ==
    \A s \in Sessions :
        /\ hpc[s] \in {"idle", "start", "iks"} => pc[s] = "idle"
        /\ hpc[s] = "tags" => pc[s] \in {"get", "patch"}
        /\ hpc[s] = "tags" \/ res[s] # "none" => want[s] = ev[s].new.tags
        /\ JustBound(ev[s]) => ev[s].new.claimed
        /\ half[s] => hit[s]
        /\ hpc[s] = "recovered" => half[s] \/ ~ev[s].new.claimed

(* The events recorded on the PV tell what UpdateVolume returned, and with *)
(* the dual provider a bound PV got that far.                              *)
NoteInv ==
    \A s \in Sessions :
        /\ "Success" \in notes[s] => res[s] = "ok"
        /\ hpc[s] = "done" /\ JustBound(ev[s]) /\ setup.dual /\ ~hit[s]
              => \/ res[s] = "ok"
                 \/ res[s] = "FailedToUpdateVolume" /\ "Warning" \in notes[s]

(* Only an event with a change gets as far as IKS, its tags are one of the *)
(* requests, and the handlers that had ended before it stay ended.         *)
EventInv ==
    /\ pv.tags \in Requests
    /\ \A s \in Sessions :
          /\ hpc[s] = "idle" => ~Changed(ev[s])
          /\ hpc[s] # "idle" => ev[s].new.tags \in Requests
          /\ hpc[s] \in {"iks", "tags"} => Changed(ev[s])
          /\ \A u \in before[s] : Ended(u)

(* From its own update on, a handler that met no fault finds at IKS what   *)
(* some event said whose handler had not ended before its own event.       *)
IksInv ==
    \A s \in Sessions :
        /\ hpc[s] \in {"tags", "done"} /\ Changed(ev[s])
        /\ setup.dual /\ setup.valid /\ ~hit[s]
        => \E u \in Sessions :
              /\ Changed(ev[u]) /\ u \notin before[s]
              /\ iks = Record(ev[u].new)

WatchInv == TagInv /\ WatchTypeOK /\ HandlerInv /\ NoteInv /\ EventInv /\ IksInv

--------------------------------------------------------------------------------
(* The loop of UpdateVolume ends at an error that is not worth a retry and *)
(* at the last attempt; a write refused for its etag is worth a retry.     *)
LEMMA LoopOfUpdate ==
    ASSUME NEW n \in Nat, NEW err, IsErr(err)
    PROVE  LoopEnds("retryWithMinRetries", n, err, FALSE)
               <=> (skipRetryForObviousErrors(err) \/ ~(n + 1 < minRetryAttempt))
  BY DEF LoopEnds, Stops, Flexy, Limit

LEMMA RefusedIsRetried == IsErr(Refused) /\ ~skipRetryForObviousErrors(Refused)
<1>1. Refused.codes = <<"precondition_failed">> /\ Refused.kind = "models"
  BY DEF Refused, ModelsError
<1>2. "precondition_failed" \notin Listed
  BY DEF Listed, SkipTrue, SkipFalse
<1>3. \A k \in DOMAIN Refused.codes : Refused.codes[k] = "precondition_failed"
  BY <1>1
<1> QED
  BY <1>1, <1>2, <1>3 DEF IsErr, skipRetryForObviousErrors, skipRetry

(* What a failed attempt does to the goroutine.                            *)
LEMMA FailedAttempt ==
    ASSUME TypeOK, NEW s \in Sessions, NEW err, IsErr(err), AttemptFails(s, err)
    PROVE  \/ /\ pc' = [pc EXCEPT ![s] = "done"]
              /\ res' = [res EXCEPT ![s] = "FailedToUpdateVolume"]
              /\ i' = i
              /\ skipRetryForObviousErrors(err) \/ ~(i[s] + 1 < minRetryAttempt)
           \/ /\ pc' = [pc EXCEPT ![s] = "get"]
              /\ i' = [i EXCEPT ![s] = @ + 1]
              /\ res' = res
              /\ i[s] + 1 < minRetryAttempt
<1>1. i[s] \in Nat
  BY AttemptAssumption DEF TypeOK
<1>2. LoopEnds("retryWithMinRetries", i[s], err, FALSE)
          <=> (skipRetryForObviousErrors(err) \/ ~(i[s] + 1 < minRetryAttempt))
  BY <1>1, LoopOfUpdate
<1> QED
  BY <1>2 DEF AttemptFails

(* The errors that end an attempt are errors.                              *)
LEMMA AttemptErrors ==
    /\ IsErr(OtherError)
    /\ IsErr(ModelsError(<<"shares_not_found">>))
    /\ IsErr(ModelsError(<<"precondition_failed">>))
    /\ \A e \in FaultErrors : IsErr(e)
  BY TagAssumption DEF IsErr, OtherError, ModelsError

(* TypeOK after a failed attempt.                                          *)
LEMMA FailedAttemptTypes ==
    ASSUME TypeOK, NEW s \in Sessions, NEW err, IsErr(err), AttemptFails(s, err)
    PROVE  /\ pc' \in [Sessions -> {"idle", "get", "patch", "done"}]
           /\ i' \in [Sessions -> 0 .. (minRetryAttempt - 1)]
           /\ res' \in [Sessions -> {"none", "ok", "FailedToUpdateVolume"}]
<1>1. i[s] \in 0 .. (minRetryAttempt - 1) /\ minRetryAttempt \in Nat
  BY AttemptAssumption DEF TypeOK
<1>2. i[s] + 1 < minRetryAttempt => i[s] + 1 \in 0 .. (minRetryAttempt - 1)
  BY <1>1
<1> QED
  BY <1>2, FailedAttempt DEF TypeOK

LEMMA FaultTypes ==
    ASSUME TypeOK, NEW s \in Sessions, Fault(s) \/ NoFault
    PROVE  faults' \in 0 .. MaxFaults /\ hit' \in [Sessions -> BOOLEAN]
<1>1. faults' \in 0 .. MaxFaults
  BY TagAssumption DEF TypeOK, Fault, NoFault
<1>2. hit' = hit \/ hit' = [hit EXCEPT ![s] = TRUE]
  BY DEF Fault, NoFault
<1>3. hit \in [Sessions -> BOOLEAN]
  BY DEF TypeOK
<1>4. hit' \in [Sessions -> BOOLEAN]
  BY <1>2, <1>3, Zenon
<1> QED
  BY <1>1, <1>4

LEMMA InitTagInv == Init => TagInv
<1> SUFFICES ASSUME Init PROVE TagInv
  OBVIOUS
<1>1. TypeOK
  BY TagAssumption, AttemptAssumption DEF Init, TypeOK, Statuses
<1>2. ReadInv /\ WantInv /\ CallInv
  BY DEF Init, ReadInv, WantInv, CallInv
<1>3. UpdatedTagsCovered /\ OvertakenInv
  BY AttemptAssumption DEF Init, UpdatedTagsCovered, OvertakenInv
<1> QED
  BY <1>1, <1>2, <1>3 DEF TagInv

LEMMA TypeStep == TypeOK /\ [Next]_tagVars => TypeOK'
<1> SUFFICES ASSUME TypeOK, [Next]_tagVars PROVE TypeOK'
  OBVIOUS
<1> USE TagAssumption, AttemptAssumption
<1>1. ASSUME NEW s \in Sessions, NEW T \in Requests, UpdateVolume(s, T) PROVE TypeOK'
  BY <1>1 DEF UpdateVolume, TypeOK, shareVars
<1>2. ASSUME NEW s \in Sessions, GetFileShareEtag(s) PROVE TypeOK'
  <2>1. Fault(s) \/ NoFault
    BY <1>2 DEF GetFileShareEtag
  <2>2. \/ \E err : IsErr(err) /\ AttemptFails(s, err) /\ UNCHANGED <<seen, match>>
        \/ Succeeds(s) /\ UNCHANGED <<seen, match>>
        \/ /\ pc' = [pc EXCEPT ![s] = "patch"]
           /\ seen' = [seen EXCEPT ![s] = userTags]
           /\ match' = [match EXCEPT ![s] = etag]
           /\ UNCHANGED <<i, res>>
    BY <1>2, AttemptErrors DEF GetFileShareEtag
  <2>3. /\ pc' \in [Sessions -> {"idle", "get", "patch", "done"}]
        /\ i' \in [Sessions -> 0 .. (minRetryAttempt - 1)]
        /\ res' \in [Sessions -> {"none", "ok", "FailedToUpdateVolume"}]
        /\ seen' \in [Sessions -> SUBSET Tags]
        /\ match' \in [Sessions -> Nat]
    BY <2>2, FailedAttemptTypes DEF TypeOK, Succeeds
  <2> QED
    BY <1>2, <2>1, <2>3, FaultTypes DEF GetFileShareEtag, TypeOK, shareVars, callVars
<1>3. ASSUME NEW s \in Sessions, UpdateFileShareWithEtag(s) PROVE TypeOK'
  <2>1. Fault(s) \/ NoFault
    BY <1>3 DEF UpdateFileShareWithEtag
  <2>2. \/ \E err : IsErr(err) /\ AttemptFails(s, err)
        \/ Succeeds(s)
    BY <1>3, AttemptErrors DEF UpdateFileShareWithEtag
  <2>3. /\ pc' \in [Sessions -> {"idle", "get", "patch", "done"}]
        /\ i' \in [Sessions -> 0 .. (minRetryAttempt - 1)]
        /\ res' \in [Sessions -> {"none", "ok", "FailedToUpdateVolume"}]
    BY <2>2, FailedAttemptTypes DEF TypeOK, Succeeds
  <2>4. Write(s) \/ UNCHANGED shareVars
    BY <1>3 DEF UpdateFileShareWithEtag
  <2>5. /\ status' \in Statuses /\ userTags' \in SUBSET Tags
        /\ etag' \in Nat /\ edits' \in 0 .. MaxEdits
    BY <2>4 DEF Write, shareVars, TypeOK
  <2> QED
    BY <1>3, <2>1, <2>3, <2>5, FaultTypes DEF UpdateFileShareWithEtag, TypeOK, callVars
<1>4. ASSUME Elsewhere PROVE TypeOK'
  BY <1>4 DEF Elsewhere, TypeOK
<1>5. ASSUME UNCHANGED tagVars PROVE TypeOK'
  BY <1>5 DEF tagVars, TypeOK
<1> QED
  BY <1>1, <1>2, <1>3, <1>4, <1>5 DEF Next, Step

--------------------------------------------------------------------------------
(* The five things a step of UpdateVolume can come to.                     *)
Reads(s) ==
    /\ pc[s] = "get" /\ status = "stable"
    /\ pc' = [pc EXCEPT ![s] = "patch"]
    /\ seen' = [seen EXCEPT ![s] = userTags]
    /\ match' = [match EXCEPT ![s] = etag]
    /\ UNCHANGED <<shareVars, i, res, faults, hit>>

Skips(s) ==
    /\ pc[s] = "get" /\ ifTagsEqual(userTags, want[s])
    /\ Succeeds(s)
    /\ UNCHANGED <<shareVars, seen, match, faults, hit>>

Writes(s) ==
    /\ pc[s] = "patch" /\ match[s] = etag
    /\ Write(s) /\ Succeeds(s)
    /\ UNCHANGED <<seen, match, faults, hit>>

Ends(s, err) == skipRetryForObviousErrors(err) \/ ~(i[s] + 1 < minRetryAttempt)

Retries(s, err) ==
    \/ /\ pc' = [pc EXCEPT ![s] = "done"]
       /\ res' = [res EXCEPT ![s] = "FailedToUpdateVolume"]
       /\ i' = i /\ Ends(s, err)
    \/ /\ pc' = [pc EXCEPT ![s] = "get"]
       /\ i' = [i EXCEPT ![s] = @ + 1]
       /\ res' = res

LosesAnswer(s) ==
    /\ pc[s] = "patch" /\ match[s] = etag
    /\ Write(s) /\ Retries(s, OtherError)
    /\ hit' = [hit EXCEPT ![s] = TRUE]
    /\ UNCHANGED <<seen, match>>

Fails(s) ==
    /\ pc[s] \in {"get", "patch"}
    /\ UNCHANGED <<shareVars, seen, match>>
    /\ \/ /\ hit' = [hit EXCEPT ![s] = TRUE]
          /\ \E err : Retries(s, err)
       \/ /\ hit' = hit /\ status # "stable"
          /\ \E err : Retries(s, err)
       \/ /\ hit' = hit /\ pc[s] = "patch" /\ match[s] # etag
          /\ Retries(s, Refused)

LEMMA StepCases ==
    ASSUME TypeOK, NEW s \in Sessions, Step(s)
    PROVE  /\ Reads(s) \/ Skips(s) \/ Writes(s) \/ LosesAnswer(s) \/ Fails(s)
           /\ UNCHANGED callVars
<1>1. ASSUME NEW err, IsErr(err), AttemptFails(s, err) PROVE Retries(s, err)
  BY <1>1, FailedAttempt DEF Retries, Ends
<1>2. CASE GetFileShareEtag(s)
  BY <1>1, <1>2, AttemptErrors
     DEF GetFileShareEtag, Reads, Skips, Fails, NoFault, Fault, shareVars
<1>3. CASE UpdateFileShareWithEtag(s)
  BY <1>1, <1>3, AttemptErrors
     DEF UpdateFileShareWithEtag, Writes, LosesAnswer, Fails, NoFault, Fault, shareVars, Refused
<1> QED
  BY <1>2, <1>3 DEF Step

--------------------------------------------------------------------------------
(* Preservation of the parts of TagInv by a step of a goroutine.           *)
LEMMA ReadStep ==
    ASSUME TypeOK, ReadInv, NEW s \in Sessions, Step(s)
    PROVE  ReadInv'
<1>1. CASE Reads(s)
  BY <1>1 DEF Reads, ReadInv, TypeOK, shareVars
<1>2. CASE Skips(s)
  BY <1>2 DEF Skips, Succeeds, ReadInv, TypeOK, shareVars
<1>3. CASE Write(s) /\ UNCHANGED <<seen, match>>
  BY <1>3 DEF Write, ReadInv, TypeOK
<1>4. CASE Fails(s)
  BY <1>4 DEF Fails, Retries, ReadInv, TypeOK, shareVars
<1> QED
  BY <1>1, <1>2, <1>3, <1>4, StepCases DEF Writes, LosesAnswer

LEMMA WantStep ==
    ASSUME TypeOK, WantInv, NEW s \in Sessions, Step(s)
    PROVE  WantInv'
<1>1. pc[s] # "idle" /\ (\A u \in Sessions \ {s} : pc'[u] = pc[u])
  BY StepCases DEF Reads, Skips, Writes, LosesAnswer, Fails, Retries, Succeeds, TypeOK
<1> QED
  BY <1>1, StepCases DEF WantInv, callVars

LEMMA CallStep ==
    ASSUME TypeOK, CallInv, NEW s \in Sessions, Step(s)
    PROVE  CallInv'
<1>1. edits' = edits
  BY StepCases DEF Reads, Skips, Writes, LosesAnswer, Fails, Write, shareVars
<1>2. \A u \in Sessions : (res'[u] # "none" <=> pc'[u] = "done")
                          /\ (pc'[u] = "idle" => i'[u] = 0)
  BY StepCases
     DEF Reads, Skips, Writes, LosesAnswer, Fails, Retries, Succeeds, TypeOK, CallInv
<1> QED
  BY <1>1, <1>2, StepCases DEF CallInv, callVars

(* Tags that cover a request still do when tags are added.                 *)
LEMMA CoverStep ==
    ASSUME TypeOK, ReadInv, CallInv, UpdatedTagsCovered, NEW s \in Sessions, Step(s)
    PROVE  UpdatedTagsCovered'
<1>1. edits' = edits /\ since' = since /\ want' = want
  BY StepCases DEF Reads, Skips, Writes, LosesAnswer, Fails, Write, shareVars, callVars
<1>2. userTags' = userTags \/ userTags' = userTags \cup want[s]
  BY StepCases DEF Reads, Skips, Writes, LosesAnswer, Fails, Write, shareVars, ReadInv
<1>3. \A t : Covered(t, userTags) => Covered(t, userTags')
  BY <1>2 DEF Covered
<1>4. \A u \in Sessions \ {s} : res'[u] = res[u]
  BY StepCases DEF Reads, Skips, Writes, LosesAnswer, Fails, Retries, Succeeds, TypeOK
<1>5. ASSUME res'[s] = "ok" PROVE \A t \in want[s] : Covered(t, userTags')
  <2>1. CASE Skips(s)
    BY <2>1, <1>3 DEF Skips, ifTagsEqual
  <2>2. CASE Writes(s)
    <3>1. want[s] \subseteq userTags' /\ want[s] \subseteq Tags
      BY <2>2 DEF Writes, Write, TypeOK
    <3> QED
      BY <3>1, TagAssumption DEF Covered
  <2>3. CASE Reads(s) \/ LosesAnswer(s) \/ Fails(s)
    <3>1. res'[s] # "ok"
      BY <2>3 DEF Reads, LosesAnswer, Fails, Retries, TypeOK, CallInv
    <3> QED
      BY <3>1, <1>5
  <2> QED
    BY <2>1, <2>2, <2>3, StepCases
<1> QED
  BY <1>1, <1>3, <1>4, <1>5 DEF UpdatedTagsCovered

(* A refused write means that somebody wrote since the etag was read.      *)
LEMMA OvertakenStep ==
    ASSUME TypeOK, ReadInv, CallInv, OvertakenInv, NEW s \in Sessions, Step(s)
    PROVE  OvertakenInv'
<1> USE AttemptAssumption
<1>1. /\ UNCHANGED <<edits, status, since, start>>
      /\ etag' \in Nat /\ etag' >= etag
  BY StepCases DEF Reads, Skips, Writes, LosesAnswer, Fails, Write, shareVars, callVars, TypeOK
<1>2. ASSUME NEW u \in Sessions \ {s}
      PROVE  /\ pc'[u] = pc[u] /\ i'[u] = i[u] /\ res'[u] = res[u]
             /\ match'[u] = match[u] /\ hit'[u] = hit[u]
  BY StepCases
     DEF Reads, Skips, Writes, LosesAnswer, Fails, Retries, Succeeds, TypeOK
<1>3. ASSUME Quiet(s)'
      PROVE  /\ pc'[s] = "get" => etag' >= start[s] + i'[s]
             /\ pc'[s] = "patch" => match'[s] >= start[s] + i'[s]
             /\ res'[s] = "FailedToUpdateVolume" => etag' >= start[s] + minRetryAttempt
  <2>1. status = "stable" /\ since[s] = edits /\ ~hit'[s]
    BY <1>1, <1>3 DEF Quiet
  <2>2. CASE Reads(s)
    BY <1>1, <2>1, <2>2 DEF Reads, OvertakenInv, Quiet, TypeOK, CallInv, shareVars
  <2>3. CASE Skips(s) \/ Writes(s)
    BY <2>3 DEF Skips, Writes, Succeeds, TypeOK
  <2>4. CASE LosesAnswer(s)
    BY <2>1, <2>4 DEF LosesAnswer, TypeOK
  <2>5. CASE Fails(s)
    <3>1. hit' = hit /\ pc[s] = "patch" /\ match[s] # etag /\ Retries(s, Refused)
      BY <2>1, <2>5 DEF Fails, TypeOK
    <3>2. match[s] >= start[s] + i[s] /\ match[s] < etag
      BY <2>1, <3>1 DEF OvertakenInv, Quiet, ReadInv, TypeOK
    <3>3. etag' >= start[s] + i[s] + 1
      BY <1>1, <3>2 DEF TypeOK
    <3>4. Ends(s, Refused) => i[s] + 1 >= minRetryAttempt
      BY RefusedIsRetried DEF Ends, TypeOK
    <3> QED
      BY <3>1, <3>3, <3>4 DEF Retries, TypeOK, CallInv
  <2> QED
    BY <2>2, <2>3, <2>4, <2>5, StepCases
<1> QED
  BY <1>1, <1>2, <1>3 DEF OvertakenInv, Quiet, TypeOK

--------------------------------------------------------------------------------
LEMMA TagInvStep == TagInv /\ [Next]_tagVars => TagInv'
<1> SUFFICES ASSUME TagInv, [Next]_tagVars PROVE TagInv'
  OBVIOUS
<1> USE AttemptAssumption DEF TagInv
<1>1. TypeOK'
  BY TypeStep
<1>2. ASSUME NEW s \in Sessions, NEW T \in Requests, UpdateVolume(s, T) PROVE TagInv'
  <2>1. pc[s] = "idle" /\ res[s] = "none"
    BY <1>2 DEF UpdateVolume, CallInv
  <2>2. ReadInv' /\ WantInv' /\ CallInv'
    BY <1>2, <2>1 DEF UpdateVolume, ReadInv, WantInv, CallInv, TypeOK, shareVars
  <2>3. UpdatedTagsCovered'
    BY <1>2, <2>1 DEF UpdateVolume, UpdatedTagsCovered, TypeOK, shareVars
  <2>4. i[s] = 0
    BY <2>1 DEF CallInv
  <2>5. OvertakenInv'
    BY <1>2, <2>1, <2>4 DEF UpdateVolume, OvertakenInv, Quiet, TypeOK, shareVars
  <2> QED
    BY <1>1, <2>2, <2>3, <2>5
<1>3. ASSUME NEW s \in Sessions, Step(s) PROVE TagInv'
  BY <1>1, <1>3, ReadStep, WantStep, CallStep, CoverStep, OvertakenStep
<1>4. ASSUME Elsewhere PROVE TagInv'
  <2>1. \A s \in Sessions : since'[s] # edits'
    BY <1>4 DEF Elsewhere, CallInv, TypeOK
  <2>2. ReadInv' /\ WantInv' /\ CallInv'
    BY <1>4 DEF Elsewhere, ReadInv, WantInv, CallInv, TypeOK
  <2>3. UpdatedTagsCovered' /\ OvertakenInv'
    BY <2>1 DEF UpdatedTagsCovered, OvertakenInv, Quiet
  <2> QED
    BY <1>1, <2>2, <2>3
<1>5. ASSUME UNCHANGED tagVars PROVE TagInv'
  <2>1. ReadInv' /\ WantInv' /\ CallInv'
    BY <1>5 DEF tagVars, ReadInv, WantInv, CallInv
  <2>2. UpdatedTagsCovered' /\ OvertakenInv'
    BY <1>5 DEF tagVars, UpdatedTagsCovered, Covered, OvertakenInv, Quiet
  <2> QED
    BY <1>1, <2>1, <2>2
<1> QED
  BY <1>2, <1>3, <1>4, <1>5 DEF Next

(* The inductive invariant of the concurrent updates.                      *)
THEOREM TagInvariant == Spec => []TagInv
<1>1. Init => TagInv
  BY InitTagInv
<1>2. TagInv /\ [Next]_tagVars => TagInv'
  BY TagInvStep
<1> QED
  BY <1>1, <1>2, PTL DEF Spec

(* Types are an invariant of the concurrent UpdateVolume calls.            *)
THEOREM TagTypeCorrect == Spec => []TypeOK
<1>1. TagInv => TypeOK
  BY DEF TagInv
<1> QED
  BY <1>1, TagInvariant, PTL

(* UpdateVolume, a successful call leaves the requested tags covered.      *)
THEOREM CoverCorrect == Spec => []UpdatedTagsCovered
<1>1. TagInv => UpdatedTagsCovered
  BY DEF TagInv
<1> QED
  BY <1>1, TagInvariant, PTL

(* UpdateVolume, on a quiet share only overtaken calls fail.               *)
THEOREM OvertakenCorrect == Spec => []RefusedOnlyWhenOvertaken
<1>1. TagInv => RefusedOnlyWhenOvertaken
  BY DEF TagInv, OvertakenInv, RefusedOnlyWhenOvertaken, Quiet
<1> QED
  BY <1>1, TagInvariant, PTL

(* UpdateVolume's read, merge and conditional write is an atomic addition  *)
(* to the set of tags: VolumeTags implements TagSet.                       *)
THEOREM TagsImplemented == Spec => NoLostTags
<1>1. Init => TS!Init
  BY DEF Init, TS!Init
<1>2. TagInv /\ [Next]_tagVars => [TS!Next]_(TS!tagSetVars)
  <2> SUFFICES ASSUME TagInv, [Next]_tagVars
               PROVE  TS!Next \/ UNCHANGED TS!tagSetVars
    OBVIOUS
  <2> USE DEF TagInv
  <2>1. ASSUME NEW s \in Sessions, NEW T \in Requests, UpdateVolume(s, T)
        PROVE  UNCHANGED TS!tagSetVars
    BY <2>1 DEF UpdateVolume, shareVars, TS!tagSetVars
  <2>2. ASSUME NEW s \in Sessions, Step(s)
        PROVE  TS!Next \/ UNCHANGED TS!tagSetVars
    <3>1. CASE UNCHANGED shareVars
      BY <3>1 DEF shareVars, TS!tagSetVars
    <3>2. CASE pc[s] = "patch" /\ match[s] = etag /\ Write(s)
      <4>1. userTags' = userTags \cup want[s] /\ edits' = edits
        BY <3>2 DEF Write, ReadInv
      <4>2. want[s] \in Requests
        BY <3>2 DEF WantInv
      <4> QED
        BY <4>1, <4>2 DEF TS!Next, TS!AddTags
    <3> QED
      BY <2>2, <3>1, <3>2, StepCases DEF Reads, Skips, Writes, LosesAnswer, Fails
  <2>3. ASSUME Elsewhere PROVE TS!Next
    BY <2>3 DEF Elsewhere, TypeOK, TS!Next, TS!EditByOthers
  <2>4. ASSUME UNCHANGED tagVars PROVE UNCHANGED TS!tagSetVars
    BY <2>4 DEF tagVars, TS!tagSetVars
  <2> QED
    BY <2>1, <2>2, <2>3, <2>4 DEF Next
<1> QED
  BY <1>1, <1>2, TagInvariant, PTL DEF Spec, NoLostTags, TS!Spec
--------------------------------------------------------------------------------
(* The watcher.  What a step of a handler does to the calls of             *)
(* UpdateVolume: nothing, a fault outside of them, or the beginning of one *)
(* with or without a fault.                                                *)
CallsRest(s) ==
    /\ UNCHANGED <<shareVars, callVars, pc, i, seen, match, res>>
    /\ Fault(s) \/ NoFault

Begins(s, T) ==
    /\ pc' = [pc EXCEPT ![s] = "get"]
    /\ want' = [want EXCEPT ![s] = T]
    /\ start' = [start EXCEPT ![s] = etag]
    /\ since' = [since EXCEPT ![s] = edits]
    /\ UNCHANGED <<shareVars, i, seen, match, res>>
    /\ Fault(s) \/ NoFault

(* A fault only makes a goroutine be hit.                                  *)
LEMMA FaultHits ==
    ASSUME TypeOK, NEW s \in Sessions, Fault(s) \/ NoFault
    PROVE  /\ \A u \in Sessions : hit[u] => hit'[u]
           /\ \A u \in Sessions \ {s} : hit'[u] = hit[u]
           /\ faults' = 0 => NoFault /\ faults = 0
<1>1. hit' = hit \/ hit' = [hit EXCEPT ![s] = TRUE]
  BY DEF Fault, NoFault
<1>2. \A u \in Sessions : hit[u] => hit'[u]
  BY <1>1 DEF TypeOK
<1>3. \A u \in Sessions \ {s} : hit'[u] = hit[u]
  BY <1>1 DEF TypeOK
<1>4. faults' = 0 => NoFault /\ faults = 0
  BY DEF Fault, NoFault, TypeOK
<1> QED
  BY <1>2, <1>3, <1>4

LEMMA RestInv ==
    ASSUME TagInv, NEW s \in Sessions, CallsRest(s)
    PROVE  TagInv'
<1> USE DEF TagInv
<1>1. \A u \in Sessions : hit[u] => hit'[u]
  BY FaultHits DEF CallsRest
<1>2. TypeOK'
  BY FaultTypes DEF CallsRest, TypeOK, shareVars, callVars
<1>3. ReadInv' /\ WantInv' /\ CallInv'
  BY DEF CallsRest, shareVars, callVars, ReadInv, WantInv, CallInv
<1>4. UpdatedTagsCovered'
  BY DEF CallsRest, shareVars, callVars, UpdatedTagsCovered, Covered
<1>5. OvertakenInv'
  BY <1>1 DEF CallsRest, shareVars, callVars, OvertakenInv, Quiet
<1> QED
  BY <1>2, <1>3, <1>4, <1>5

LEMMA BeginsInv ==
    ASSUME TagInv, NEW s \in Sessions, NEW T \in Requests, pc[s] = "idle", Begins(s, T)
    PROVE  TagInv'
<1> USE DEF TagInv
<1>1. /\ \A u \in Sessions : hit[u] => hit'[u]
      /\ \A u \in Sessions \ {s} : hit'[u] = hit[u]
  BY FaultHits DEF Begins
<1>2. res[s] = "none" /\ i[s] = 0
  BY DEF CallInv
<1>3. TypeOK'
  BY FaultTypes, TagAssumption DEF Begins, TypeOK, shareVars
<1>4. ReadInv' /\ WantInv' /\ CallInv'
  BY <1>2 DEF Begins, ReadInv, WantInv, CallInv, TypeOK, shareVars
<1>5. UpdatedTagsCovered'
  BY <1>2 DEF Begins, UpdatedTagsCovered, TypeOK, shareVars
<1>6. OvertakenInv'
  BY <1>1, <1>2 DEF Begins, OvertakenInv, Quiet, TypeOK, shareVars
<1> QED
  BY <1>3, <1>4, <1>5, <1>6

(* The IKS loop ends with the first success, and counts below its limit.   *)
LEMMA IksLoop ==
    ASSUME WatchTypeOK, NEW s \in Sessions, NEW err, IksAttempt(s, err)
    PROVE  \/ IksReturns(s, err)
           \/ IksAgain(s) /\ IsErr(err) /\ tries[s] + 1 < maxRetryAttempt
  BY DEF IksAttempt, LoopEnds, Stops, Flexy, Limit

(* What a request of the IKS loop, or its refusal by the validation, comes *)
(* to.                                                                     *)
IksGoesOn(s) ==
    /\ Fault(s) /\ IksAgain(s) /\ tries[s] + 1 < maxRetryAttempt
    /\ UNCHANGED <<shareVars, i, seen, match, res, setup, pv, ev, half, before>>
    /\ iks' = Record(ev[s].new) \/ iks' = iks

IksEnds(s) ==
    /\ \E err : IksReturns(s, err)
    /\ UNCHANGED <<shareVars, i, seen, match, res, setup, pv, ev, half, before>>
    /\ Fault(s) \/ NoFault
    /\ iks' = Record(ev[s].new) \/ iks' = iks
    /\ setup.valid => Fault(s) \/ iks' = Record(ev[s].new)

IksStep(s) == IksUpdateVolume(s) \/ validateVolumeRequest(s)

LEMMA IksCases ==
    ASSUME WatchTypeOK, NEW s \in Sessions, IksStep(s)
    PROVE  hpc[s] = "iks" /\ (IksGoesOn(s) \/ IksEnds(s))
<1>1. ~IsErr(NoError)
  BY DEF IsErr, NoError
<1>2. CASE IksUpdateVolume(s)
  BY <1>1, <1>2, IksLoop DEF IksUpdateVolume, IksGoesOn, IksEnds
<1>3. CASE validateVolumeRequest(s)
  BY <1>3 DEF validateVolumeRequest, IksEnds
<1> QED
  BY <1>2, <1>3 DEF IksStep

(* A volume that has just been bound carries the tags of its PV.           *)
LEMMA BoundTags ==
    ASSUME NEW e, JustBound(e)
    PROVE  getVolumeFromPV(e.new).tags = e.new.tags
  BY DEF JustBound, getVolumeFromPV

LEMMA IksCallCases ==
    ASSUME WatchTypeOK, EventInv, NEW s \in Sessions, IksStep(s)
    PROVE  CallsRest(s) \/ \E T \in Requests : Begins(s, T)
<1>1. CASE IksGoesOn(s)
  BY <1>1 DEF IksGoesOn, IksAgain, CallsRest, callVars
<1>2. CASE IksEnds(s) /\ ~JustBound(ev[s])
  BY <1>2 DEF IksEnds, IksReturns, CallsRest, callVars
<1>3. CASE IksEnds(s) /\ JustBound(ev[s])
  <2>1. getVolumeFromPV(ev[s].new).tags = ev[s].new.tags
    BY <1>3, BoundTags
  <2>2. ev[s].new.tags \in Requests
    BY IksCases DEF EventInv
  <2>3. Begins(s, ev[s].new.tags)
    BY <1>3, <2>1 DEF IksEnds, IksReturns, Begins
  <2> QED
    BY <2>2, <2>3
<1> QED
  BY <1>1, <1>2, <1>3, IksCases

LEMMA WatchTagStep ==
    ASSUME TagInv, WatchTypeOK, HandlerInv, EventInv, [WatchNext]_allVars
    PROVE  TagInv'
<1>1. CASE UNCHANGED tagVars
  BY <1>1, TagInvStep
<1>2. ASSUME NEW s \in Sessions, GetProviderSession(s) PROVE TagInv'
  BY <1>2, RestInv DEF GetProviderSession, CallsRest
<1>3. ASSUME NEW s \in Sessions, IksStep(s) PROVE TagInv'
  <2>1. pc[s] = "idle"
    BY <1>3, IksCases DEF HandlerInv
  <2> QED
    BY <1>3, <2>1, IksCallCases, RestInv, BeginsInv
<1>4. ASSUME NEW s \in Sessions, UpdateTags(s) PROVE TagInv'
  BY <1>4, TagInvStep DEF UpdateTags, Next
<1>5. CASE Elsewhere
  BY <1>5, TagInvStep DEF Next
<1> QED
  BY <1>1, <1>2, <1>3, <1>4, <1>5
     DEF WatchNext, HandlerStep, IksStep, Event, SkipEvent, IksPanics, allVars

(* What an update event can make of the PV.                                *)
LEMMA UpdatedPV ==
    ASSUME pv \in PVs, pv.tags \in Requests, NEW p \in PVUpdates
    PROVE  /\ p \in PVs /\ p.tags \in Requests
           /\ pv.phase # p.phase /\ p.phase = "Bound" => p.claimed
<1>0. Requests \subseteq SUBSET Tags
  BY TagAssumption
<1>1. CASE p = pv
  BY <1>1
<1>2. CASE \E h \in {"Available", "Released"} : p = [pv EXCEPT !.phase = h]
  BY <1>2 DEF PVs
<1>3. CASE \E T \in Requests : p = [pv EXCEPT !.phase = "Bound", !.claimed = TRUE, !.tags = T]
  BY <1>0, <1>3 DEF PVs
<1>4. CASE \E c \in 1 .. MaxCapacity : p = [pv EXCEPT !.capacity = c]
  BY <1>4, WatcherAssumption DEF PVs
<1> QED
  BY <1>1, <1>2, <1>3, <1>4 DEF PVUpdates

LEMMA RecordType ==
    ASSUME NEW p \in PVs
    PROVE  Record(p) \in Records
<1>1. p.capacity \in 0 .. MaxCapacity /\ 0 \in 0 .. MaxCapacity /\ p.tags \in SUBSET Tags
  BY WatcherAssumption DEF PVs
<1>2. CASE p.phase = "Released"
  BY <1>1, <1>2 DEF Record, NewUpdatePVC, getVolumeFromPV, Records
<1>3. CASE p.phase # "Released"
  BY <1>1, <1>3 DEF Record, NewUpdatePVC, getVolumeFromPV, Records
<1> QED
  BY <1>2, <1>3

LEMMA EventFacts ==
    ASSUME WatchTypeOK, EventInv, NEW s \in Sessions, Event(s)
    PROVE  /\ ev'[s].old = pv /\ ev'[s].new = pv'
           /\ JustBound(ev'[s]) => ev'[s].new.claimed
           /\ \A u \in Sessions \ {s} :
                 ev'[u] = ev[u] /\ hpc'[u] = hpc[u] /\ before'[u] = before[u]
           /\ hpc'[s] = "start" /\ hpc[s] = "idle"
           /\ pv' \in PVs /\ pv'.tags \in Requests
           /\ before'[s] = {u \in Sessions : Ended(u)}
<1>1. ev'[s] = [old |-> pv, new |-> pv']
  BY DEF Event, WatchTypeOK
<1>2. /\ pv' \in PVs /\ pv'.tags \in Requests
      /\ pv.phase # pv'.phase /\ pv'.phase = "Bound" => pv'.claimed
  BY UpdatedPV DEF Event, EventInv, WatchTypeOK
<1>3. JustBound(ev'[s]) => ev'[s].new.claimed
  BY <1>1, <1>2 DEF JustBound
<1>4. \A u \in Sessions \ {s} :
          ev'[u] = ev[u] /\ hpc'[u] = hpc[u] /\ before'[u] = before[u]
  BY DEF Event, WatchTypeOK
<1>5. before'[s] = {u \in Sessions : Ended(u)}
  BY DEF Event, WatchTypeOK
<1> QED
  BY <1>1, <1>2, <1>3, <1>4, <1>5 DEF Event, WatchTypeOK

LEMMA WatchTypeStep ==
    ASSUME TagInv', WatchTypeOK, HandlerInv, EventInv, [WatchNext]_allVars
    PROVE  WatchTypeOK'
<1>0. TypeOK'
  BY DEF TagInv
<1> USE <1>0, AttemptAssumption, WatcherAssumption
<1>1. ASSUME NEW s \in Sessions, Event(s) PROVE WatchTypeOK'
  <2>1. pv' \in PVs
    BY <1>1, EventFacts
  <2>2. [old |-> pv, new |-> pv'] \in [old : PVs, new : PVs]
    BY <2>1 DEF WatchTypeOK
  <2>3. ev' \in [Sessions -> [old : PVs, new : PVs]]
    BY <1>1, <2>2, Zenon DEF Event, WatchTypeOK
  <2>4. before' \in [Sessions -> SUBSET Sessions]
    BY <1>1 DEF Event, WatchTypeOK
  <2>5. hpc' \in [Sessions -> {"idle", "start", "iks", "tags", "done", "recovered"}]
    BY <1>1 DEF Event, WatchTypeOK
  <2>6. UNCHANGED <<setup, iks, tries, half, notes>>
    BY <1>1 DEF Event
  <2> QED
    BY <2>1, <2>3, <2>4, <2>5, <2>6 DEF WatchTypeOK
<1>2. ASSUME NEW s \in Sessions, SkipEvent(s) \/ IksPanics(s) PROVE WatchTypeOK'
  BY <1>2 DEF SkipEvent, IksPanics, WatchTypeOK
<1>3. ASSUME NEW s \in Sessions, GetProviderSession(s) PROVE WatchTypeOK'
  <2>1. PICK d \in DualSessions \cup PlainSessions :
            /\ hpc' = [hpc EXCEPT ![s] = IF d.open /\ setup.dual THEN AfterOpen(s) ELSE "done"]
            /\ half' = [half EXCEPT ![s] = setup.dual /\ d.open /\ ~d.iks]
    BY <1>3, Zenon DEF GetProviderSession
  <2>2. hpc' \in [Sessions -> {"idle", "start", "iks", "tags", "done", "recovered"}]
    BY <2>1 DEF WatchTypeOK, AfterOpen
  <2>3. half' \in [Sessions -> BOOLEAN]
    <3> DEFINE b == setup.dual /\ d.open /\ ~d.iks
    <3>1. b \in BOOLEAN /\ half' = [half EXCEPT ![s] = b]
      BY <2>1
    <3> HIDE DEF b
    <3> QED
      BY <3>1 DEF WatchTypeOK
  <2> QED
    BY <1>3, <2>2, <2>3 DEF GetProviderSession, WatchTypeOK
<1>4. ASSUME NEW s \in Sessions, IksStep(s) PROVE WatchTypeOK'
  <2>1. ev[s].new \in PVs
    BY DEF WatchTypeOK
  <2>2. iks' \in Records
    <3>1. iks' = Record(ev[s].new) \/ iks' = iks
      BY <1>4, IksCases DEF IksGoesOn, IksEnds
    <3> QED
      BY <2>1, <3>1, RecordType DEF WatchTypeOK
  <2>3. CASE IksGoesOn(s)
    BY <2>2, <2>3 DEF IksGoesOn, IksAgain, WatchTypeOK
  <2>4. CASE IksEnds(s)
    <3>1. PICK err : IksReturns(s, err)
      BY <2>4 DEF IksEnds
    <3>2. notes' \in [Sessions -> SUBSET {"Success", "Warning"}]
      BY <3>1 DEF IksReturns, WatchTypeOK
    <3>3. hpc' \in [Sessions -> {"idle", "start", "iks", "tags", "done", "recovered"}]
      BY <3>1 DEF IksReturns, WatchTypeOK
    <3> QED
      BY <2>2, <2>4, <3>1, <3>2, <3>3 DEF IksEnds, IksReturns, WatchTypeOK
  <2> QED
    BY <1>4, <2>3, <2>4, IksCases
<1>5. ASSUME NEW s \in Sessions, UpdateTags(s) PROVE WatchTypeOK'
  <2>1. TagNote(s) \subseteq {"Success", "Warning"}
    BY DEF TagNote
  <2>2. notes' \in [Sessions -> SUBSET {"Success", "Warning"}]
    BY <1>5, <2>1 DEF UpdateTags, WatchTypeOK
  <2>3. hpc' \in [Sessions -> {"idle", "start", "iks", "tags", "done", "recovered"}]
    BY <1>5 DEF UpdateTags, WatchTypeOK
  <2> QED
    BY <1>5, <2>2, <2>3 DEF UpdateTags, WatchTypeOK
<1>6. ASSUME UNCHANGED watchVars PROVE WatchTypeOK'
  BY <1>6 DEF watchVars, WatchTypeOK
<1> QED
  BY <1>1, <1>2, <1>3, <1>4, <1>5, <1>6 DEF WatchNext, HandlerStep, IksStep, allVars

(* A step of a handler leaves the other handlers alone.                    *)
LEMMA OthersKeep ==
    ASSUME TagInv, WatchTypeOK, NEW s \in Sessions, HandlerStep(s)
    PROVE  /\ UNCHANGED <<setup, pv, ev, before>>
           /\ \A u \in Sessions \ {s} :
                 /\ hpc'[u] = hpc[u] /\ pc'[u] = pc[u] /\ res'[u] = res[u]
                 /\ notes'[u] = notes[u] /\ half'[u] = half[u] /\ hit'[u] = hit[u]
                 /\ want'[u] = want[u]
<1> USE DEF WatchTypeOK, TypeOK, TagInv
<1>1. CASE SkipEvent(s) \/ IksPanics(s)
  BY <1>1 DEF SkipEvent, IksPanics, tagVars
<1>2. CASE GetProviderSession(s)
  <2>1. Fault(s) \/ NoFault
    BY <1>2 DEF GetProviderSession
  <2> QED
    BY <1>2, <2>1, FaultHits DEF GetProviderSession, callVars
<1>3. CASE IksStep(s)
  <2>1. Fault(s) \/ NoFault
    BY <1>3, IksCases DEF IksGoesOn, IksEnds
  <2> QED
    BY <1>3, <2>1, FaultHits, IksCases DEF IksGoesOn, IksEnds, IksAgain, IksReturns
<1>4. CASE UpdateTags(s)
  BY <1>4, StepCases
     DEF UpdateTags, Reads, Skips, Writes, LosesAnswer, Fails, Retries, Succeeds, callVars
<1> QED
  BY <1>1, <1>2, <1>3, <1>4 DEF HandlerStep, IksStep

(* Where a handler's step takes it.                                        *)
LEMMA OpensSession ==
    ASSUME WatchTypeOK, NEW s \in Sessions, GetProviderSession(s)
    PROVE  /\ hpc[s] = "start" /\ Changed(ev[s])
           /\ \/ hpc'[s] = "iks"
              \/ hpc'[s] = "recovered" /\ ~ev[s].new.claimed
              \/ hpc'[s] = "done" /\ (Fault(s) \/ ~setup.dual)
           /\ half'[s] => Fault(s)
           /\ UNCHANGED <<pc, res, want, notes, iks>>
<1>1. PICK d \in IF setup.dual THEN DualSessions ELSE PlainSessions :
          /\ IF d.fault THEN Fault(s) ELSE NoFault
          /\ hpc' = [hpc EXCEPT ![s] = IF d.open /\ setup.dual THEN AfterOpen(s) ELSE "done"]
          /\ half' = [half EXCEPT ![s] = setup.dual /\ d.open /\ ~d.iks]
  BY DEF GetProviderSession
<1>2. ASSUME NEW v \in VpcSessions, ~v.client PROVE v.fault
  BY <1>2 DEF VpcSessions
<1>3. setup.dual => (~d.open => d.fault) /\ (d.open /\ ~d.iks => d.fault)
  <2> SUFFICES ASSUME setup.dual PROVE (~d.open => d.fault) /\ (d.open /\ ~d.iks => d.fault)
    OBVIOUS
  <2>1. PICK v \in VpcSessions, k \in VpcSessions :
            d = [open |-> v.client, iks |-> k.client, fault |-> v.fault \/ k.fault]
    BY DEF DualSessions
  <2>2. d.open = v.client /\ d.iks = k.client /\ d.fault = (v.fault \/ k.fault)
    BY <2>1, Zenon
  <2> QED
    BY <1>2, <2>2, Zenon
<1>4. half'[s] = (setup.dual /\ d.open /\ ~d.iks)
  BY <1>1 DEF WatchTypeOK
<1>5. hpc'[s] = IF d.open /\ setup.dual THEN AfterOpen(s) ELSE "done"
  BY <1>1 DEF WatchTypeOK
<1> QED
  BY <1>1, <1>3, <1>4, <1>5 DEF GetProviderSession, AfterOpen, callVars

LEMMA EndsIks ==
    ASSUME TypeOK, WatchTypeOK, NEW s \in Sessions, IksEnds(s)
    PROVE  /\ hpc'[s] = IF JustBound(ev[s]) THEN "tags" ELSE "done"
           /\ JustBound(ev[s]) => pc'[s] = "get" /\ want'[s] = ev[s].new.tags
           /\ ~JustBound(ev[s]) => pc'[s] = pc[s]
           /\ UNCHANGED <<res, half>>
           /\ "Success" \in notes'[s] => "Success" \in notes[s]
<1>1. PICK err : IksReturns(s, err)
  BY DEF IksEnds
<1> QED
  BY <1>1, BoundTags DEF IksEnds, IksReturns, WatchTypeOK, TypeOK

LEMMA TagsEnd ==
    ASSUME TagInv, WatchTypeOK, HandlerInv, NEW s \in Sessions, UpdateTags(s)
    PROVE  /\ res[s] = "none" /\ pc[s] # "idle"
           /\ \/ pc'[s] \in {"get", "patch"} /\ res'[s] = "none"
              \/ pc'[s] = "done" /\ res'[s] \in {"ok", "FailedToUpdateVolume"}
           /\ hpc'[s] = IF pc'[s] = "done" THEN "done" ELSE "tags"
           /\ want' = want
<1>1. pc[s] \in {"get", "patch"}
  BY DEF UpdateTags, HandlerInv
<1>2. res[s] = "none"
  BY <1>1 DEF TagInv, CallInv
<1> QED
  BY <1>1, <1>2, StepCases
     DEF TagInv, TypeOK, WatchTypeOK, UpdateTags, Reads, Skips, Writes, LosesAnswer, Fails,
         Retries, Succeeds, callVars

LEMMA HandlerStepInv ==
    ASSUME TagInv, WatchTypeOK, HandlerInv, NEW s \in Sessions, HandlerStep(s)
    PROVE  HandlerInv'
<1> SUFFICES /\ hpc'[s] \in {"idle", "start", "iks"} => pc'[s] = "idle"
             /\ hpc'[s] = "tags" => pc'[s] \in {"get", "patch"}
             /\ hpc'[s] = "tags" \/ res'[s] # "none" => want'[s] = ev[s].new.tags
             /\ half'[s] => hit'[s]
             /\ hpc'[s] = "recovered" => half'[s] \/ ~ev[s].new.claimed
  BY OthersKeep DEF HandlerInv
<1>0. Fault(s) => hit'[s]
  BY DEF Fault, TagInv, TypeOK
<1>1. CASE SkipEvent(s) \/ IksPanics(s)
  BY <1>1 DEF SkipEvent, IksPanics, tagVars, WatchTypeOK, HandlerInv
<1>2. CASE GetProviderSession(s)
  BY <1>0, <1>2, OpensSession DEF HandlerInv
<1>3. CASE IksStep(s)
  <2>0. /\ hpc[s] = "iks" /\ half' = half /\ res' = res /\ res[s] = "none"
        /\ hit[s] => hit'[s]
    <3>1. hpc[s] = "iks" /\ half' = half /\ res' = res /\ (Fault(s) \/ NoFault)
      BY <1>3, IksCases DEF IksGoesOn, IksEnds
    <3> QED
      BY <3>1, FaultHits DEF HandlerInv, TagInv, CallInv
  <2>1. CASE IksGoesOn(s)
    BY <2>0, <2>1 DEF IksGoesOn, IksAgain, HandlerInv
  <2>2. CASE IksEnds(s)
    BY <2>0, <2>2, EndsIks DEF WatchTypeOK, HandlerInv
  <2> QED
    BY <1>3, <2>1, <2>2, IksCases
<1>4. CASE UpdateTags(s)
  <2>1. half' = half
    BY <1>4 DEF UpdateTags
  <2>2. hit[s] => hit'[s]
    <3>1. hit' = hit \/ hit' = [hit EXCEPT ![s] = TRUE]
      BY <1>4, StepCases
         DEF UpdateTags, Reads, Skips, Writes, LosesAnswer, Fails, TagInv
    <3> QED
      BY <3>1 DEF TagInv, TypeOK
  <2> QED
    <3>1. hpc[s] = "tags" /\ want'[s] = ev[s].new.tags
      BY <1>4, TagsEnd DEF UpdateTags, HandlerInv
    <3> QED
      BY <1>4, <2>1, <2>2, <3>1, TagsEnd DEF HandlerInv
<1> QED
  BY <1>1, <1>2, <1>3, <1>4 DEF HandlerStep, IksStep

LEMMA NoteStepInv ==
    ASSUME TagInv, WatchTypeOK, HandlerInv, NoteInv, NEW s \in Sessions, HandlerStep(s)
    PROVE  NoteInv'
<1> SUFFICES /\ "Success" \in notes'[s] => res'[s] = "ok"
             /\ hpc'[s] = "done" /\ JustBound(ev[s]) /\ setup.dual /\ ~hit'[s]
                   => \/ res'[s] = "ok"
                      \/ res'[s] = "FailedToUpdateVolume" /\ "Warning" \in notes'[s]
  BY OthersKeep DEF NoteInv
<1>0. Fault(s) => hit'[s]
  BY DEF Fault, TagInv, TypeOK
<1>1. CASE SkipEvent(s) \/ IksPanics(s)
  BY <1>1 DEF SkipEvent, IksPanics, tagVars, WatchTypeOK, NoteInv, Changed, JustBound
<1>2. CASE GetProviderSession(s)
  BY <1>0, <1>2, OpensSession DEF NoteInv
<1>3. CASE IksStep(s)
  <2>1. CASE IksGoesOn(s)
    BY <1>3, <2>1, IksCases DEF IksGoesOn, IksAgain, NoteInv
  <2>2. CASE IksEnds(s)
    BY <2>2, EndsIks DEF NoteInv, TagInv
  <2> QED
    BY <1>3, <2>1, <2>2, IksCases
<1>4. CASE UpdateTags(s)
  <2>1. notes'[s] = notes[s] \cup TagNote(s) /\ "Success" \notin notes[s]
    BY <1>4, TagsEnd DEF UpdateTags, WatchTypeOK, NoteInv
  <2>2. CASE res'[s] = "none"
    BY <1>4, <2>1, <2>2, TagsEnd DEF TagNote
  <2>3. CASE res'[s] = "ok"
    BY <2>3
  <2>4. CASE res'[s] = "FailedToUpdateVolume"
    BY <1>4, <2>1, <2>4, TagsEnd DEF TagNote
  <2> QED
    BY <1>4, <2>2, <2>3, <2>4, TagsEnd
<1> QED
  BY <1>1, <1>2, <1>3, <1>4 DEF HandlerStep, IksStep

LEMMA EventStepInv ==
    ASSUME TagInv, WatchTypeOK, HandlerInv, EventInv, NEW s \in Sessions, HandlerStep(s)
    PROVE  EventInv'
<1> SUFFICES /\ hpc'[s] # "idle" /\ hpc[s] # "idle"
             /\ hpc'[s] \in {"iks", "tags"} => Changed(ev[s])
             /\ ~Ended(s)
  <2>1. \A x \in Sessions : \A u \in before[x] : u \in Sessions /\ Ended(u)
    BY DEF EventInv, WatchTypeOK
  <2>2. ~Ended(s) => \A x \in Sessions : \A u \in before'[x] : Ended(u)'
    BY <2>1, OthersKeep DEF Ended
  <2> QED
    BY <2>2, OthersKeep DEF EventInv
<1> USE DEF Ended
<1>1. CASE SkipEvent(s) \/ IksPanics(s)
  BY <1>1 DEF SkipEvent, IksPanics, WatchTypeOK
<1>2. CASE GetProviderSession(s)
  BY <1>2, OpensSession
<1>3. CASE IksStep(s)
  <2>1. hpc[s] = "iks"
    BY <1>3, IksCases
  <2>2. CASE IksGoesOn(s)
    BY <2>1, <2>2 DEF IksGoesOn, IksAgain, EventInv
  <2>3. CASE IksEnds(s)
    BY <2>1, <2>3, EndsIks DEF EventInv, TagInv
  <2> QED
    BY <1>3, <2>2, <2>3, IksCases
<1>4. CASE UpdateTags(s)
  BY <1>4, TagsEnd DEF UpdateTags, EventInv
<1> QED
  BY <1>1, <1>2, <1>3, <1>4 DEF HandlerStep, IksStep

(* The handler that writes to IKS is running, so it had not ended before   *)
(* any event.                                                              *)
LEMMA IksStepInv ==
    ASSUME TagInv, WatchTypeOK, HandlerInv, EventInv, IksInv, NEW s \in Sessions, HandlerStep(s)
    PROVE  IksInv'
<1> SUFFICES ASSUME NEW x \in Sessions, hpc'[x] \in {"tags", "done"}, Changed(ev'[x]),
                    setup'.dual, setup'.valid, ~hit'[x]
             PROVE  \E u \in Sessions : /\ Changed(ev'[u]) /\ u \notin before'[x]
                                        /\ iks' = Record(ev'[u].new)
  BY DEF IksInv
<1>1. /\ UNCHANGED <<setup, ev, before>>
      /\ \A u \in Sessions \ {s} : hpc'[u] = hpc[u] /\ hit'[u] = hit[u]
  BY OthersKeep
<1>2. ASSUME iks' = iks, hpc[x] \in {"tags", "done"}, ~hit[x]
      PROVE  \E u \in Sessions : /\ Changed(ev'[u]) /\ u \notin before'[x]
                                 /\ iks' = Record(ev'[u].new)
  BY <1>1, <1>2 DEF IksInv
<1>3. Fault(s) => hit'[s]
  BY DEF Fault, TagInv, TypeOK
<1>4. CASE SkipEvent(s) \/ IksPanics(s)
  BY <1>1, <1>2, <1>4 DEF SkipEvent, IksPanics, tagVars, WatchTypeOK
<1>5. CASE GetProviderSession(s)
  BY <1>1, <1>2, <1>3, <1>5, OpensSession
<1>6. CASE IksStep(s)
  <2>1. hpc[s] = "iks" /\ Changed(ev[s]) /\ s \notin before[x]
    BY <1>6, IksCases DEF EventInv, Ended
  <2>2. CASE iks' = Record(ev[s].new)
    BY <1>1, <2>1, <2>2
  <2>3. CASE iks' = iks /\ x # s
    BY <1>1, <1>2, <2>3
  <2>4. CASE x = s /\ IksGoesOn(s)
    BY <2>1, <2>4 DEF IksGoesOn, IksAgain
  <2>5. CASE x = s /\ IksEnds(s)
    BY <1>1, <1>3, <2>2, <2>5 DEF IksEnds
  <2> QED
    BY <1>6, <2>2, <2>3, <2>4, <2>5, IksCases DEF IksGoesOn, IksEnds
<1>7. CASE UpdateTags(s)
  <2>1. hpc[s] = "tags" /\ iks' = iks
    BY <1>7 DEF UpdateTags
  <2>2. hit[s] => hit'[s]
    <3>1. hit' = hit \/ hit' = [hit EXCEPT ![s] = TRUE]
      BY <1>7, StepCases
         DEF UpdateTags, Reads, Skips, Writes, LosesAnswer, Fails, TagInv
    <3> QED
      BY <3>1 DEF TagInv, TypeOK
  <2> QED
    BY <1>1, <1>2, <2>1, <2>2
<1> QED
  BY <1>4, <1>5, <1>6, <1>7 DEF HandlerStep, IksStep

(* A new event: its handler has done nothing yet.                          *)
LEMMA EventKeeps ==
    ASSUME TagInv, WatchTypeOK, HandlerInv, NoteInv, EventInv, IksInv,
           NEW s \in Sessions, Event(s)
    PROVE  HandlerInv' /\ NoteInv' /\ EventInv' /\ IksInv'
<1>1. UNCHANGED <<setup, pc, res, want, hit, iks, half, notes>>
  BY DEF Event, tagVars, callVars
<1>2. \A u \in Sessions \ {s} :
          ev'[u] = ev[u] /\ hpc'[u] = hpc[u] /\ before'[u] = before[u]
  BY EventFacts
<1>3. /\ hpc'[s] = "start" /\ hpc[s] = "idle" /\ ~Changed(ev[s])
      /\ res[s] = "none" /\ pc[s] = "idle"
  BY EventFacts DEF HandlerInv, TagInv, CallInv, EventInv
<1>4. HandlerInv'
  <2>1. JustBound(ev'[s]) => ev'[s].new.claimed
    BY EventFacts
  <2> QED
    BY <1>1, <1>2, <1>3, <2>1 DEF HandlerInv
<1>5. NoteInv'
  BY <1>1, <1>2, <1>3 DEF NoteInv
<1>6. EventInv'
  <2>1. pv'.tags \in Requests /\ ev'[s].new.tags \in Requests
    BY EventFacts
  <2>2. \A x \in Sessions : \A u \in before'[x] : Ended(u)'
    <3>1. \A x \in Sessions : \A u \in before'[x] : u \in Sessions /\ Ended(u)
      BY <1>2, EventFacts DEF EventInv, WatchTypeOK
    <3> QED
      BY <1>2, <1>3, <3>1 DEF Ended
  <2> QED
    BY <1>2, <1>3, <2>1, <2>2 DEF EventInv
<1>7. IksInv'
  BY <1>1, <1>2, <1>3 DEF IksInv
<1> QED
  BY <1>4, <1>5, <1>6, <1>7

LEMMA InitWatchInv == WatchInit => WatchInv
<1> SUFFICES ASSUME WatchInit PROVE WatchInv
  OBVIOUS
<1>1. TagInv
  BY InitTagInv DEF WatchInit
<1>2. NoPV \in PVs /\ pv \in PVs /\ pv.tags \in Requests
  BY WatcherAssumption, TagAssumption DEF WatchInit, NoPV, PVs
<1>3. NoEvent \in [old : PVs, new : PVs] /\ ~Changed(NoEvent)
  BY <1>2 DEF NoEvent, Changed
<1>4. WatchTypeOK
  <2>1. iks \in Records
    BY WatcherAssumption DEF WatchInit, Records
  <2>2. ev \in [Sessions -> [old : PVs, new : PVs]]
    BY <1>3 DEF WatchInit
  <2>3. tries \in [Sessions -> 0 .. (maxRetryAttempt - 1)]
    BY AttemptAssumption DEF WatchInit
  <2>4. /\ hpc \in [Sessions -> {"idle", "start", "iks", "tags", "done", "recovered"}]
        /\ half \in [Sessions -> BOOLEAN] /\ before \in [Sessions -> SUBSET Sessions]
        /\ setup \in [dual : BOOLEAN, valid : BOOLEAN]
        /\ notes \in [Sessions -> SUBSET {"Success", "Warning"}]
    BY DEF WatchInit
  <2> QED
    BY <1>1, <1>2, <2>1, <2>2, <2>3, <2>4 DEF WatchTypeOK, TagInv
<1>5. HandlerInv
  BY <1>3 DEF WatchInit, Init, HandlerInv, JustBound, Changed
<1>6. NoteInv
  BY DEF WatchInit, NoteInv
<1>7. EventInv
  BY <1>2, <1>3 DEF WatchInit, EventInv
<1>8. IksInv
  BY DEF WatchInit, IksInv
<1> QED
  BY <1>1, <1>4, <1>5, <1>6, <1>7, <1>8 DEF WatchInv

LEMMA WatchInvStep == WatchInv /\ [WatchNext]_allVars => WatchInv'
<1> SUFFICES ASSUME WatchInv, [WatchNext]_allVars PROVE WatchInv'
  OBVIOUS
<1> USE DEF WatchInv
<1>1. TagInv'
  BY WatchTagStep
<1>2. WatchTypeOK'
  BY <1>1, WatchTypeStep
<1>3. ASSUME NEW s \in Sessions, Event(s)
      PROVE  HandlerInv' /\ NoteInv' /\ EventInv' /\ IksInv'
  BY <1>3, EventKeeps
<1>4. ASSUME NEW s \in Sessions, HandlerStep(s)
      PROVE  HandlerInv' /\ NoteInv' /\ EventInv' /\ IksInv'
  BY <1>4, HandlerStepInv, NoteStepInv, EventStepInv, IksStepInv
<1>5. ASSUME UNCHANGED <<watchVars, pc, res, want, hit>>
      PROVE  HandlerInv' /\ NoteInv' /\ EventInv' /\ IksInv'
  <2>1. HandlerInv' /\ NoteInv'
    BY <1>5 DEF watchVars, HandlerInv, NoteInv
  <2>2. EventInv'
    BY <1>5 DEF watchVars, EventInv, Ended
  <2>3. IksInv'
    BY <1>5 DEF watchVars, IksInv
  <2> QED
    BY <2>1, <2>2, <2>3
<1> QED
  BY <1>1, <1>2, <1>3, <1>4, <1>5 DEF WatchNext, Elsewhere, allVars, tagVars

(* The inductive invariant of the handlers of the PV watcher.              *)
THEOREM WatchInvariant == WatchSpec => []WatchInv
<1>1. WatchInit => WatchInv
  BY InitWatchInv
<1>2. WatchInv /\ [WatchNext]_allVars => WatchInv'
  BY WatchInvStep
<1> QED
  BY <1>1, <1>2, PTL DEF WatchSpec

(* Types are an invariant of the watcher.                                  *)
THEOREM WatchTypeCorrect == WatchSpec => []WatchTypeOK
<1>1. WatchInv => WatchTypeOK
  BY DEF WatchInv
<1> QED
  BY <1>1, WatchInvariant, PTL

(* updateVolume of the watcher, with the dual provider: a PV that got      *)
(* bound while none of its handler's requests failed has the tags made     *)
(* from it, or the tag update gave up and an event on the PV says so.      *)
THEOREM BoundTheorem == WatchSpec => []BoundVolumeIsTagged
<1>1. WatchInv => BoundVolumeIsTagged
  <2> SUFFICES ASSUME WatchInv, NEW s \in Sessions, Ended(s), JustBound(ev[s]), setup.dual,
                      ~hit[s], since[s] = edits,
                      ~(res[s] = "FailedToUpdateVolume" /\ "Warning" \in notes[s])
               PROVE  \A t \in ev[s].new.tags : Covered(t, userTags)
    BY DEF BoundVolumeIsTagged
  <2> USE DEF WatchInv, TagInv
  <2>1. hpc[s] = "done"
    BY DEF Ended, HandlerInv
  <2>2. res[s] = "ok"
    BY <2>1 DEF NoteInv
  <2>3. want[s] = ev[s].new.tags
    BY <2>2 DEF HandlerInv
  <2> QED
    BY <2>2, <2>3 DEF UpdatedTagsCovered
<1> QED
  BY <1>1, WatchInvariant, PTL

(* The Success event of the watcher is recorded only with the tags made    *)
(* from the PV on the share.                                               *)
THEOREM SuccessTheorem == WatchSpec => []SuccessEventIsTrue
<1>1. WatchInv => SuccessEventIsTrue
  BY DEF WatchInv, TagInv, NoteInv, HandlerInv, UpdatedTagsCovered, SuccessEventIsTrue
<1> QED
  BY <1>1, WatchInvariant, PTL

(* After a handler that met no fault, IKS never again has what was said by *)
(* an event whose handler had ended before.                                *)
THEOREM IksTheorem == WatchSpec => []IksFollowsTheVolume
<1>1. WatchInv => IksFollowsTheVolume
  BY DEF WatchInv, IksInv, IksFollowsTheVolume
<1> QED
  BY <1>1, WatchInvariant, PTL
================================================================================
