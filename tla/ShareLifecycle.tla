----------------------------- MODULE ShareLifecycle -----------------------------
(***************************************************************************)
(* CreateVolume and DeleteVolume of a VPCSession                           *)
(* (file/provider/create_volume.go, delete_volume.go, get_volume.go,       *)
(* wait_for_valid_volume_state.go), run by several sessions at once.       *)
(*                                                                         *)
(* Each phase of an operation is one retry loop; each step is one request  *)
(* of that loop together with what the loop does with the answer.          *)
(***************************************************************************)
EXTENDS FileShareClient

CONSTANTS
    Sessions,   \* goroutines calling volume operations
    MaxOps      \* bound: operations one session runs

ASSUME OpsAssumption == MaxOps \in Nat

VARIABLE vol    \* the state of each session's operation

volVars == <<backendVars, vol>>

(* op: the operation; pc: the loop it is in; i: attempts before this one;  *)
(* name, vpc, id: its arguments and the share it works on; res: what it    *)
(* returned.  History: hit, a fault reached this operation; made, the      *)
(* shares its requests created; ops, the operations begun.                 *)
IdleOp == [op |-> None, pc |-> "idle", i |-> 0, name |-> None, vpc |-> None, id |-> None,
           res |-> None, hit |-> FALSE, made |-> {}, ops |-> 0]

VolInit == vol = [s \in Sessions |-> IdleOp]

Results == {"ok", "InvalidRequest", "InvalidVolumeID", "FailedToPlaceOrder",
            "VolumeNotInValidState", "StorageFindFailedWithVolumeId",
            "VolumeAccessPointExist", "FailedToDeleteVolume"}

ASSUME NoResultAssumption == None \notin Results

Finish(r, result) == [r EXCEPT !.pc = "done", !.res = result, !.i = 0]
Goto(r, loop)     == [r EXCEPT !.pc = loop, !.i = 0]

(* Mutants: the attempt is not counted, or counted the wrong way.          *)
AgainUncounted(r) == r
AgainDown(r)      == [r EXCEPT !.i = @ - 1]

Again(r) == [r EXCEPT !.i = @ + 1]

(* What the loop of record r does after an attempt with (err, stop):       *)
(* onFailure when it returns an error, onSuccess when it returns nil.      *)
AfterAttempt(r, engine, err, stop, onSuccess, onFailure) ==
    IF ~LoopEnds(engine, r.i, err, stop) THEN Again(r)
    ELSE IF IsErr(err) THEN onFailure
    ELSE onSuccess

Begin(s, o, n, v, x, loop) ==
    [IdleOp EXCEPT !.op = o, !.name = n, !.vpc = v, !.id = x, !.pc = loop,
                   !.ops = vol[s].ops + 1]

CanBegin(s) == vol[s].pc \in {"idle", "done"} /\ vol[s].ops < MaxOps

--------------------------------------------------------------------------------
(* CreateVolume.  v is the VPC of the access point the request asks for,   *)
(* or None.  A request that fails validation makes no call.                *)
CreateVolume(s, n, v, valid) ==
    /\ CanBegin(s)
    /\ LET r == Begin(s, "CreateVolume", n, v, None, "create")
       IN  vol' = [vol EXCEPT ![s] = IF valid THEN r ELSE Finish(r, "InvalidRequest")]
    /\ UNCHANGED backendVars

(* Mutant: a duplicate name is taken for the share it asked for.           *)
CreateOrAdopt(s) ==
    /\ vol[s].pc = "create"
    /\ \E o \in CreateFileShare(vol[s].name, vol[s].vpc) :
          /\ Deliver(o)
          /\ \E x \in ShareIDs :
                /\ o.val = x \/ (IsErr(o.err) /\ shares[x].name = vol[s].name)
                /\ vol' = [vol EXCEPT ![s] = Goto([@ EXCEPT !.id = x], "waitValid")]

CreateShareAttempt(s) ==
    /\ vol[s].pc = "create"
    /\ \E o \in CreateFileShare(vol[s].name, vol[s].vpc) :
          /\ Deliver(o)
          /\ LET born == {x \in ShareIDs : shares[x].status = "unused"
                                           /\ o.shares[x].status # "unused"}
                 r    == [vol[s] EXCEPT !.hit = @ \/ o.fault, !.made = @ \cup born]
             IN  vol' = [vol EXCEPT ![s] =
                    AfterAttempt(r, "retry", o.err, FALSE,
                                 Goto([r EXCEPT !.id = o.val], "waitValid"),
                                 Finish(r, "FailedToPlaceOrder"))]

(* Mutant: whatever state is read, the wait is over.                       *)
WaitForAnyState(s) ==
    /\ vol[s].pc = "waitValid"
    /\ \E o \in GetFileShare(vol[s].id) :
          /\ Deliver(o)
          /\ vol' = [vol EXCEPT ![s] =
                AfterAttempt(@, "retry", o.err, FALSE,
                             Finish(@, "ok"), Finish(@, "VolumeNotInValidState"))]

(* A share that is not stable yet is turned into a util.Message, which     *)
(* retry does not look into.                                               *)
WaitForValidVolumeState(s) ==
    /\ vol[s].pc = "waitValid"
    /\ \E o \in GetFileShare(vol[s].id) :
          /\ Deliver(o)
          /\ LET r == [vol[s] EXCEPT !.hit = @ \/ o.fault]
                 e == IF ~IsErr(o.err) /\ o.val.status # "stable" THEN OtherError ELSE o.err
             IN  vol' = [vol EXCEPT ![s] =
                    AfterAttempt(r, "retry", e, FALSE,
                                 Finish(r, "ok"),
                                 Finish(r, "VolumeNotInValidState"))]

--------------------------------------------------------------------------------
(* DeleteVolume.                                                           *)
DeleteVolume(s, x, wellFormed) ==
    /\ CanBegin(s)
    /\ shares[x].status # "unused"
    /\ LET r == Begin(s, "DeleteVolume", None, None, x, "get")
       IN  vol' = [vol EXCEPT ![s] = IF wellFormed THEN r ELSE Finish(r, "InvalidVolumeID")]
    /\ UNCHANGED backendVars

(* A share with access points is not deleted.                              *)
AfterGetVolume(r, share) ==
    IF share.targets # {} THEN Finish(r, "VolumeAccessPointExist") ELSE Goto(r, "delete")

(* The loop of GetVolume, which DeleteVolume calls first.                  *)
GetVolume(s) ==
    /\ vol[s].pc = "get"
    /\ \E o \in GetFileShare(vol[s].id) :
          /\ Deliver(o)
          /\ LET r == [vol[s] EXCEPT !.hit = @ \/ o.fault]
             IN  vol' = [vol EXCEPT ![s] =
                    AfterAttempt(r, "retry", o.err, FALSE,
                                 AfterGetVolume(r, o.val),
                                 Finish(r, "StorageFindFailedWithVolumeId"))]

(* Mutant: the error of the DELETE loop is not checked.                    *)
DeleteShareUnchecked(s) ==
    /\ vol[s].pc = "delete"
    /\ \E o \in DeleteFileShare(vol[s].id) :
          /\ Deliver(o)
          /\ vol' = [vol EXCEPT ![s] =
                AfterAttempt(@, "retry", o.err, FALSE,
                             Goto(@, "waitGone"), Goto(@, "waitGone"))]

DeleteShareAttempt(s) ==
    /\ vol[s].pc = "delete"
    /\ \E o \in DeleteFileShare(vol[s].id) :
          /\ Deliver(o)
          /\ LET r == [vol[s] EXCEPT !.hit = @ \/ o.fault]
             IN  vol' = [vol EXCEPT ![s] =
                    AfterAttempt(r, "retry", o.err, FALSE,
                                 Goto(r, "waitGone"),
                                 Finish(r, "FailedToDeleteVolume"))]

(* The callback always returns a nil error; it stops on an error whose     *)
(* code says skip.  The type assertion to *models.Error panics on others.  *)
WaitForVolumeDeletion(s) ==
    /\ vol[s].pc = "waitGone"
    /\ \E o \in GetFileShare(vol[s].id) :
          /\ Deliver(o)
          /\ LET r    == [vol[s] EXCEPT !.hit = @ \/ o.fault]
                 skip == IsErr(o.err) /\ skipRetry(o.err)
             IN  vol' = [vol EXCEPT ![s] =
                    IF o.err.kind = "other"
                    THEN [r EXCEPT !.pc = "panicked"]
                    ELSE AfterAttempt(r, "FlexyRetry", NoError, skip,
                                      Finish(r, "ok"),
                                      Finish(r, "FailedToDeleteVolume"))]

--------------------------------------------------------------------------------
VolStep(s) ==
    \/ CreateShareAttempt(s)
    \/ WaitForValidVolumeState(s)
    \/ GetVolume(s)
    \/ DeleteShareAttempt(s)
    \/ WaitForVolumeDeletion(s)

VolCall(s) ==
    \/ \E n \in Names, v \in VPCs \cup {None}, valid \in BOOLEAN : CreateVolume(s, n, v, valid)
    \/ \E x \in ShareIDs, wellFormed \in BOOLEAN : DeleteVolume(s, x, wellFormed)

Init == BackendInit /\ VolInit

Next ==
    \/ \E s \in Sessions : VolStep(s) \/ VolCall(s)
    \/ BackendStep /\ UNCHANGED vol

Spec == Init /\ [][Next]_volVars

(* A session that has begun an operation keeps running; the service may    *)
(* take as long as it likes.                                               *)
FairSpec == Spec /\ \A s \in Sessions : WF_volVars(VolStep(s))

--------------------------------------------------------------------------------
Loops == {"create", "waitValid", "get", "delete", "waitGone"}

VolTypeOK ==
    vol \in [Sessions ->
        [op   : {None, "CreateVolume", "DeleteVolume"},
         pc   : Loops \cup {"idle", "done", "panicked"},
         i    : Nat,
         name : Names \cup {None},
         vpc  : VPCs \cup {None},
         id   : ShareIDs \cup {None},
         res  : Results \cup {None},
         hit  : BOOLEAN,
         made : SUBSET ShareIDs,
         ops  : 0 .. MaxOps]]

TypeOK == BackendTypeOK /\ VolTypeOK

Succeeded(s, o) == vol[s].op = o /\ vol[s].pc = "done" /\ vol[s].res = "ok"

(* CreateVolume answers with a share of the requested name that has really *)
(* been stable, whatever requests failed, were repeated or lost on the way *)
(* and whoever else has deleted it since.                                  *)
CreatedShareIsUsable ==
    \A s \in Sessions : Succeeded(s, "CreateVolume") =>
        /\ shares[vol[s].id].name = vol[s].name
        /\ shares[vol[s].id].status \notin {"unused", "pending"}

(* A share is handed to one caller only: two sessions that create under    *)
(* the same name never both report the same share as theirs.               *)
NoSharedOwnership ==
    \A s1, s2 \in Sessions :
        s1 # s2 /\ Succeeded(s1, "CreateVolume") /\ Succeeded(s2, "CreateVolume")
            => vol[s1].id # vol[s2].id

(* A CreateVolume that failed to place its order left a share behind only  *)
(* if a request of it met a fault (an answer was lost).                    *)
LeakNeedsFault ==
    \A s \in Sessions :
        vol[s].res = "FailedToPlaceOrder" /\ vol[s].made # {} => vol[s].hit

(* DeleteVolume reports success only after the service has accepted the    *)
(* deletion, also when the wait ran into its attempt limit.                *)
DeletedShareIsDoomed ==
    \A s \in Sessions : Succeeded(s, "DeleteVolume") => Accepted(shares[vol[s].id])

(* Every volume operation ends: no loop waits for the service for ever.    *)
VolumeOpEnds ==
    \A s \in Sessions : (vol[s].pc \in Loops) ~> (vol[s].pc \in {"done", "panicked"})

(* delete_volume.go: "Keep retry, until GetVolume returns volume not       *)
(* found": an error of another kind does not end the wait.                 *)
DeletionWaitSurvives == \A s \in Sessions : vol[s].pc # "panicked"
================================================================================
