-------------------------------- MODULE PVWatcher --------------------------------
(***************************************************************************)
(* The PV watcher (pkg/watcher/pv_watcher.go).  Every update event of the  *)
(* informer starts a goroutine that opens a session and, if it is a dual   *)
(* one, sends the metadata of the volume to IKS                            *)
(* (iks/provider/update_volume.go) and, when the volume has just been      *)
(* bound, adds the tags of the volume to the share (UpdateVolume of        *)
(* VolumeTags).                                                            *)
(*                                                                         *)
(* One PV of this driver: the informer's filter drops all others.          *)
(***************************************************************************)
EXTENDS VolumeTags

CONSTANTS
    MaxCapacity,      \* bound: sizes the PV takes
    IksFaultErrors    \* errors of an IKS request that was not acted on

ASSUME WatcherAssumption ==
    /\ MaxCapacity \in Nat \ {0}
    /\ \A e \in IksFaultErrors : IsErr(e)

VARIABLES
    setup,     \* the driver: whether its provider is the dual one, and whether
               \* its volumes pass validateVolumeRequest (never changes)
    pv,        \* the PV: phase, whether it has a ClaimRef, capacity (or iops)
               \* and the tags made from it
    iks,       \* what IKS knows: status ("none" at first), capacity and tags
    hpc,       \* where each handler is
    ev,        \* its event: the PV before and after
    tries,     \* attempts before this one of its IKS loop
    half,      \* its session has no IKS client
    notes,     \* Kubernetes events it recorded on the PV
    before     \* history: the handlers that had ended when its event came

watchVars == <<setup, pv, iks, hpc, ev, tries, half, notes, before>>
allVars   == <<tagVars, watchVars>>

NoPV    == [phase |-> "Pending", claimed |-> FALSE, capacity |-> 0, tags |-> {}]
NoEvent == [old |-> NoPV, new |-> NoPV]

WatchInit ==
    /\ Init
    /\ setup \in [dual : BOOLEAN, valid : BOOLEAN]
    /\ pv \in [phase : {"Pending"}, claimed : BOOLEAN, capacity : {1}, tags : Requests]
    /\ iks = [status |-> "none", capacity |-> 0, tags |-> {}]
    /\ hpc = [s \in Sessions |-> "idle"]
    /\ ev = [s \in Sessions |-> NoEvent]
    /\ tries = [s \in Sessions |-> 0]
    /\ half = [s \in Sessions |-> FALSE]
    /\ notes = [s \in Sessions |-> {}]
    /\ before = [s \in Sessions |-> {}]

Ended(s) == hpc[s] \in {"done", "recovered"}

(* Kubernetes: a provisioned PV has its ClaimRef from the start, a static  *)
(* one gets it, and the tags that name the claim, when it is bound.  An    *)
(* update may also touch nothing the watcher looks at.                     *)
PVUpdates ==
    {pv}
    \cup {[pv EXCEPT !.phase = p] : p \in IF pv.phase = "Pending" THEN {"Available"} ELSE {}}
    \cup {[pv EXCEPT !.phase = "Bound", !.claimed = TRUE, !.tags = T] :
             T \in IF pv.phase \in {"Pending", "Available"}
                  THEN {R \in Requests : pv.claimed => R = pv.tags}
                  ELSE {}}
    \cup {[pv EXCEPT !.phase = p] : p \in IF pv.phase = "Bound" THEN {"Released"} ELSE {}}
    \cup {[pv EXCEPT !.capacity = c] :
             c \in IF pv.phase = "Bound" THEN {k \in 1 .. MaxCapacity : k > pv.capacity} ELSE {}}

(* The informer calls updateVolume, which starts goroutine s.              *)
Event(s) ==
    /\ hpc[s] = "idle"
    /\ pv' \in PVUpdates
    /\ ev' = [ev EXCEPT ![s] = [old |-> pv, new |-> pv']]
    /\ hpc' = [hpc EXCEPT ![s] = "start"]
    /\ before' = [before EXCEPT ![s] = {u \in Sessions : Ended(u)}]
    /\ UNCHANGED <<tagVars, setup, iks, tries, half, notes>>

--------------------------------------------------------------------------------
Changed(e) == e.old.phase # e.new.phase \/ e.old.capacity # e.new.capacity

JustBound(e) == e.old.phase # e.new.phase /\ e.new.phase = "Bound"

(* getVolumeFromPV: a released volume carries its status only (no size, no *)
(* tags), and NewUpdatePVC sends 0 where there is no size.                 *)
getVolumeFromPV(p) ==
    IF p.phase = "Released"
    THEN [status |-> "deleted", capacity |-> <<>>, tags |-> {}]
    ELSE [status |-> "created", capacity |-> <<p.capacity>>, tags |-> p.tags]

NewUpdatePVC(v) ==
    [v EXCEPT !.capacity = IF v.capacity = <<>> THEN 0 ELSE Head(v.capacity)]

Record(p) == NewUpdatePVC(getVolumeFromPV(p))

(* No change: return.                                                      *)
SkipEvent(s) ==
    /\ hpc[s] = "start" /\ ~Changed(ev[s])
    /\ hpc' = [hpc EXCEPT ![s] = "done"]
    /\ UNCHANGED <<tagVars, setup, pv, iks, ev, tries, half, notes, before>>

(* OpenSession of the VPC provider: a session with a client, or none       *)
(* because of a fault (no token, no client).                               *)
VpcSessions == {[client |-> TRUE, fault |-> FALSE], [client |-> FALSE, fault |-> TRUE]}

(* OpenSession of the IKS provider opens two: without the first there is   *)
(* no session; without the second there is one without IKS client.         *)
DualSessions ==
    {[open |-> v.client, iks |-> k.client, fault |-> v.fault \/ k.fault] :
        v \in VpcSessions, k \in VpcSessions}

PlainSessions == {[open |-> v.client, iks |-> FALSE, fault |-> v.fault] : v \in VpcSessions}

(* getTags dereferences the ClaimRef of the PV; the deferred function      *)
(* recovers the panic.                                                     *)
AfterOpen(s) == IF ev[s].new.claimed THEN "iks" ELSE "recovered"

(* GetProviderSession.  Without a session nothing is updated, and neither  *)
(* with one of the plain VPC provider, which is no IksVpcSession: the      *)
(* handler returns with an entry in the log only.                          *)
GetProviderSession(s) ==
    /\ hpc[s] = "start" /\ Changed(ev[s])
    /\ \E d \in IF setup.dual THEN DualSessions ELSE PlainSessions :
          /\ IF d.fault THEN Fault(s) ELSE NoFault
          /\ hpc' = [hpc EXCEPT ![s] = IF d.open /\ setup.dual THEN AfterOpen(s) ELSE "done"]
          /\ half' = [half EXCEPT ![s] = setup.dual /\ d.open /\ ~d.iks]
    /\ UNCHANGED <<shareVars, callVars, pc, i, seen, match, res,
                   setup, pv, iks, ev, tries, notes, before>>

--------------------------------------------------------------------------------
(* IksVpcSession.UpdateVolume: one request of its FlexyRetry loop.         *)
IksError(code) == [kind |-> "iks", codes |-> <<code>>]

SkipRetryForIKS(err) == err.kind = "iks" /\ skipRetry(err)

(* Mutant: attempts are counted the wrong way.                             *)
IksAgainDown(s) ==
    /\ tries' = [tries EXCEPT ![s] = @ - 1]
    /\ UNCHANGED <<hpc, notes, pc, want, start, since>>

(* The loop goes on ...                                                    *)
IksAgain(s) ==
    /\ tries' = [tries EXCEPT ![s] = @ + 1]
    /\ UNCHANGED <<hpc, notes, pc, want, start, since>>

(* Mutant: only a PV that was never available gets its tags.               *)
IksReturnsFromPending(s, err) ==
    /\ notes' = [notes EXCEPT ![s] = IF IsErr(err) THEN @ \cup {"Warning"} ELSE @]
    /\ IF JustBound(ev[s]) /\ ev[s].old.phase = "Pending"
       THEN /\ hpc' = [hpc EXCEPT ![s] = "tags"]
            /\ pc' = [pc EXCEPT ![s] = "get"]
            /\ want' = [want EXCEPT ![s] = getVolumeFromPV(ev[s].new).tags]
            /\ start' = [start EXCEPT ![s] = etag]
            /\ since' = [since EXCEPT ![s] = edits]
       ELSE /\ hpc' = [hpc EXCEPT ![s] = "done"]
            /\ UNCHANGED <<pc, want, start, since>>
    /\ UNCHANGED tries

(* ... or returns: a failure is recorded on the PV, and either way the     *)
(* tags are next if the volume has just been bound.                        *)
IksReturns(s, err) ==
    /\ notes' = [notes EXCEPT ![s] = IF IsErr(err) THEN @ \cup {"Warning"} ELSE @]
    /\ IF JustBound(ev[s])
       THEN /\ hpc' = [hpc EXCEPT ![s] = "tags"]
            /\ pc' = [pc EXCEPT ![s] = "get"]
            /\ want' = [want EXCEPT ![s] = getVolumeFromPV(ev[s].new).tags]
            /\ start' = [start EXCEPT ![s] = etag]
            /\ since' = [since EXCEPT ![s] = edits]
       ELSE /\ hpc' = [hpc EXCEPT ![s] = "done"]
            /\ UNCHANGED <<pc, want, start, since>>
    /\ UNCHANGED tries

IksAttempt(s, err) ==
    IF LoopEnds("FlexyRetry", tries[s], err, ~IsErr(err) \/ SkipRetryForIKS(err))
    THEN IksReturns(s, err)
    ELSE IksAgain(s)

(* validateVolumeRequest comes first: without a provider or volume type in *)
(* the configuration the update fails before any request, whatever the     *)
(* session.                                                                *)
validateVolumeRequest(s) ==
    /\ hpc[s] = "iks" /\ ~setup.valid
    /\ NoFault /\ IksReturns(s, OtherError)
    /\ UNCHANGED <<shareVars, i, seen, match, res, setup, pv, iks, ev, half, before>>

(* Mutant: no deferred recover.                                            *)
IksPanicsUnrecovered(s) == hpc[s] = "iks" /\ setup.valid /\ half[s] /\ UNCHANGED allVars

(* A session without IKS client has no Apiclient to call: the goroutine    *)
(* panics and recovers, and the tags are never reached.                    *)
IksPanics(s) ==
    /\ hpc[s] = "iks" /\ setup.valid /\ half[s]
    /\ hpc' = [hpc EXCEPT ![s] = "recovered"]
    /\ UNCHANGED <<tagVars, setup, pv, iks, ev, tries, half, notes, before>>

(* Mutant: the PV before the update is sent.                               *)
IksUpdateOld(s) ==
    /\ hpc[s] = "iks" /\ setup.valid /\ ~half[s]
    /\ iks' = Record(ev[s].old) /\ NoFault /\ IksAttempt(s, NoError)
    /\ UNCHANGED <<shareVars, i, seen, match, res, setup, pv, ev, half, before>>

IksUpdateVolume(s) ==
    /\ hpc[s] = "iks" /\ setup.valid /\ ~half[s]
    /\ \/ iks' = Record(ev[s].new) /\ NoFault /\ IksAttempt(s, NoError)
       \/ iks' = Record(ev[s].new) /\ Fault(s) /\ IksAttempt(s, OtherError)
       \/ \E e \in IksFaultErrors : UNCHANGED iks /\ Fault(s) /\ IksAttempt(s, e)
    /\ UNCHANGED <<shareVars, i, seen, match, res, setup, pv, ev, half, before>>

--------------------------------------------------------------------------------
(* VPCSession.UpdateVolume, and the event recorded on the PV at its end.   *)
(* Mutant: the error is not looked at.                                     *)
TagNoteAlways(s) == IF res'[s] = "none" THEN {} ELSE {"Success"}

TagNote(s) ==
    CASE res'[s] = "ok"   -> {"Success"}
      [] res'[s] = "none" -> {}
      [] OTHER            -> {"Warning"}

UpdateTags(s) ==
    /\ hpc[s] = "tags"
    /\ Step(s)
    /\ hpc' = [hpc EXCEPT ![s] = IF pc'[s] = "done" THEN "done" ELSE @]
    /\ notes' = [notes EXCEPT ![s] = @ \cup TagNote(s)]
    /\ UNCHANGED <<setup, pv, iks, ev, tries, half, before>>

HandlerStep(s) ==
    \/ SkipEvent(s)
    \/ GetProviderSession(s)
    \/ validateVolumeRequest(s)
    \/ IksPanics(s)
    \/ IksUpdateVolume(s)
    \/ UpdateTags(s)

WatchNext ==
    \/ \E s \in Sessions : Event(s) \/ HandlerStep(s)
    \/ Elsewhere /\ UNCHANGED watchVars

WatchSpec == WatchInit /\ [][WatchNext]_allVars

(* A goroutine that was started keeps running; no event has to come.       *)
FairWatchSpec == WatchSpec /\ \A s \in Sessions : WF_allVars(HandlerStep(s))

--------------------------------------------------------------------------------
PVs == [phase    : {"Pending", "Available", "Bound", "Released"},
        claimed  : BOOLEAN,
        capacity : 0 .. MaxCapacity,
        tags     : SUBSET Tags]

Records == [status   : {"none", "created", "deleted"},
            capacity : 0 .. MaxCapacity,
            tags     : SUBSET Tags]

WatchTypeOK ==
    /\ TypeOK
    /\ setup \in [dual : BOOLEAN, valid : BOOLEAN]
    /\ pv \in PVs
    /\ iks \in Records
    /\ hpc \in [Sessions -> {"idle", "start", "iks", "tags", "done", "recovered"}]
    /\ ev \in [Sessions -> [old : PVs, new : PVs]]
    /\ tries \in [Sessions -> 0 .. (maxRetryAttempt - 1)]
    /\ half \in [Sessions -> BOOLEAN]
    /\ notes \in [Sessions -> SUBSET {"Success", "Warning"}]
    /\ before \in [Sessions -> SUBSET Sessions]

(* With the dual provider, a PV that got bound while none of its handler's *)
(* requests failed is tagged: the handler ended with the tags made from    *)
(* this PV on the share, or its tag update gave up and an event on the PV  *)
(* says so.  With the plain VPC provider this is not promised:             *)
(* updateVolume logs "Failed to get the IKS-VPC session" and returns       *)
(* (pkg/watcher/pv_watcher.go:207), and a bound PV has neither tags nor    *)
(* event.                                                                  *)
BoundVolumeIsTagged ==
    \A s \in Sessions :
        /\ Ended(s) /\ JustBound(ev[s])
        /\ setup.dual /\ ~hit[s] /\ since[s] = edits
        => \/ res[s] = "FailedToUpdateVolume" /\ "Warning" \in notes[s]
           \/ \A t \in ev[s].new.tags : Covered(t, userTags)

(* "Success" is recorded on a PV only if the share carries the tags made   *)
(* from that PV, even when requests failed on the way.                     *)
SuccessEventIsTrue ==
    \A s \in Sessions :
        "Success" \in notes[s] /\ since[s] = edits
            => \A t \in ev[s].new.tags : Covered(t, userTags)

(* updateVolume handles each event in a goroutine of its own, so the       *)
(* update of an older event may reach IKS last.  It goes no further than   *)
(* that: after a handler that met no fault, IKS has what this event or one *)
(* handled at the same time or later said of the volume, never again what  *)
(* was said by an event whose handler had ended before.                    *)
IksFollowsTheVolume ==
    \A s \in Sessions :
        /\ hpc[s] = "done" /\ Changed(ev[s])
        /\ setup.dual /\ setup.valid /\ ~hit[s]
        => \E u \in Sessions :
              /\ Changed(ev[u]) /\ u \notin before[s]
              /\ iks = Record(ev[u].new)

(* Every handler of an event ends, whatever fails or panics and however    *)
(* the updates of IKS and of the tags are overtaken.                       *)
HandlerEnds == \A s \in Sessions : (hpc[s] = "start") ~> Ended(s)

(* iks/provider/provider.go: "Empty session to avoid Nil references." and  *)
(* "continue with VPC session alone": a handler whose session has no IKS   *)
(* client does not die of it.                                              *)
EmptySessionIsSafe ==
    \A s \in Sessions : half[s] /\ ev[s].new.claimed => hpc[s] # "recovered"
================================================================================
