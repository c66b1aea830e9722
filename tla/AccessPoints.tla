------------------------------ MODULE AccessPoints ------------------------------
(***************************************************************************)
(* Access points (file share targets) of a VPCSession: create and delete   *)
(* them, wait until they are there or gone.                                *)
(*                                                                         *)
(* A request names its access point by id, by VPC or by subnet.  Every     *)
(* operation looks it up with GetVolumeAccessPoint, a FlexyRetry loop of   *)
(* its own inside the loop of the operation: i counts the outer loop's     *)
(* attempts, j the lookup's.                                               *)
(*                                                                         *)
(* Other sessions create and delete volumes meanwhile (ShareLifecycle), so *)
(* a share may get its first access point with its creation, and may be    *)
(* deleted between two requests about its access points.                   *)
(***************************************************************************)
EXTENDS ShareLifecycle

CONSTANTS
    ApSessions,   \* goroutines calling access point operations
    MaxApOps      \* bound: operations one of them runs

ASSUME ApOpsAssumption == MaxApOps \in Nat

VARIABLE ap     \* the state of each session's operation

apVars == <<volVars, ap>>

Operations == {"CreateVolumeAccessPoint", "DeleteVolumeAccessPoint",
               "WaitForCreateVolumeAccessPoint", "WaitForDeleteVolumeAccessPoint"}

(* tid and vpc: what the request names the access point by (vpc is None    *)
(* when VPCID is empty); home: the VPC a new target lands in; cur: the     *)
(* target found or created.  History: hit, a fault reached the operation;  *)
(* at, the targets the request named when it began; ready, the share was   *)
(* stable then; ops, the operations begun.                                 *)
IdleAp == [op |-> None, pc |-> "idle", i |-> 0, j |-> 0, share |-> None, tid |-> None,
           vpc |-> None, home |-> None, cur |-> None, res |-> None, hit |-> FALSE,
           at |-> {}, ready |-> FALSE, ops |-> 0]

(* Shares and access points made by others before: live shares have        *)
(* different names, and a share has at most one access point in a VPC.     *)
ShareExists ==
    /\ shares \in [ShareIDs -> [status : {"unused"}, name : {None}]
                               \cup [status : {"pending", "stable"}, name : Names]]
    /\ \A x, y \in ShareIDs :
          x # y /\ Live(shares[x]) /\ Live(shares[y]) => shares[x].name # shares[y].name

TargetsExist ==
    /\ targets \in [TargetIDs ->
          [status : {"unused"}, share : {None}, vpc : {None}]
          \cup [status : {"pending", "stable", "deleting"}, share : ShareIDs, vpc : VPCs]]
    /\ \A t \in TargetIDs : Live(targets[t]) => Live(shares[targets[t].share])
    /\ \A t, u \in TargetIDs :
          t # u /\ Live(targets[t]) /\ Live(targets[u]) /\ targets[t].share = targets[u].share
              => targets[t].vpc # targets[u].vpc

ApInit ==
    /\ ShareExists
    /\ TargetsExist
    /\ faults = 0
    /\ VolInit
    /\ ap = [s \in ApSessions |-> IdleAp]

Conclude(r, result) == [r EXCEPT !.pc = "done", !.res = result, !.i = 0, !.j = 0]
Find(r)           == [r EXCEPT !.pc = "find", !.j = 0]

(* Mutants: the attempt is not counted, or counted the wrong way.          *)
FindUncounted(r) == Find(r)
FindDown(r)      == Find([r EXCEPT !.i = @ - 1])

AgainOuter(r) == Find([r EXCEPT !.i = @ + 1])

--------------------------------------------------------------------------------
(* The access points a request names.                                      *)
Named(x, t, v) == {u \in TargetsOf(x) : IF t # None THEN u = t ELSE targets[u].vpc = v}

MayBegin(s) == ap[s].pc \in {"idle", "done"} /\ ap[s].ops < MaxApOps

(* validateVolumeAccessPointRequest refuses a request without a share id,  *)
(* or without any of access point id, VPC and subnet ...                   *)
RefuseRequest(s, o) ==
    /\ MayBegin(s)
    /\ ap' = [ap EXCEPT ![s] =
                 Conclude([IdleAp EXCEPT !.op = o, !.ops = ap[s].ops + 1],
                        "ErrorRequiredFieldMissing")]
    /\ UNCHANGED backendVars

(* ... and lets the others through.                                        *)
BeginOp(s, o, x, t, v, h) ==
    /\ MayBegin(s)
    /\ shares[x].status # "unused"
    /\ ap' = [ap EXCEPT ![s] =
                 Find([IdleAp EXCEPT !.op = o, !.share = x, !.tid = t, !.vpc = v, !.home = h,
                                     !.at = Named(x, t, v),
                                     !.ready = shares[x].status = "stable",
                                     !.ops = ap[s].ops + 1])]
    /\ UNCHANGED backendVars

(* A request names an access point of the share x by id, which the lookup  *)
(* prefers to the VPC, or by VPC, or by subnet only (both None): then      *)
(* VPCID is empty and the lookup matches no access point.                  *)
HowNamed(x, t, v) == t # None => v = None /\ targets[t].share = x

(* Create in the VPC h: in vpc mode or in security group mode with VPCID,  *)
(* in security group mode by subnet only, or with an access point id.      *)
CreateVolumeAccessPoint(s, x, t, v, h) ==
    /\ HowNamed(x, t, v)
    /\ v \in {h, None}
    /\ BeginOp(s, "CreateVolumeAccessPoint", x, t, v, h)

(* The other operations.                                                   *)
OnAccessPoint(s, o, x, t, v) ==
    /\ o \in Operations \ {"CreateVolumeAccessPoint"}
    /\ HowNamed(x, t, v)
    /\ BeginOp(s, o, x, t, v, v)

--------------------------------------------------------------------------------
(* GetVolumeAccessPoint: one request of the lookup.                        *)
Lookup(r) ==
    IF r.tid # None THEN GetFileShareTarget(r.share, r.tid) ELSE ListFileShareTargets(r.share)

(* Mutants: the VPC is not compared; only stable access points count.      *)
MatchesAnyVPC(r, o) ==
    IF IsErr(o.err) THEN {}
    ELSE IF r.tid # None THEN {o.val}
    ELSE o.val

MatchesStable(r, o) ==
    IF IsErr(o.err) THEN {}
    ELSE IF r.tid # None THEN {o.val}
    ELSE {t \in o.val : targets[t].vpc = r.vpc /\ targets[t].status = "stable"}

(* The access points in the answer that the request names.                 *)
Matches(r, o) ==
    IF IsErr(o.err) THEN {}
    ELSE IF r.tid # None THEN {o.val}
    ELSE {t \in o.val : targets[t].vpc = r.vpc}

(* What each operation does with the access point t it found, in the       *)
(* status it was read with...                                              *)
CreateFound(r, t) == Conclude([r EXCEPT !.cur = t], "ok")

DeleteFound(r, t) ==
    IF targets[t].status = "deleting"
    THEN Conclude([r EXCEPT !.cur = t], "ok")
    ELSE [r EXCEPT !.pc = "remove", !.cur = t, !.j = 0]

(* Mutant: the status is not checked again after the wait has timed out.   *)
WaitCreateUnchecked(r, t) ==
    IF ~LoopEnds("FlexyRetryWithConstGap", r.i, NoError, targets[t].status = "stable")
    THEN AgainOuter(r)
    ELSE Conclude([r EXCEPT !.cur = t], "ok")

WaitCreateFound(r, t) ==
    LET stable == targets[t].status = "stable"
    IN  IF ~LoopEnds("FlexyRetryWithConstGap", r.i, NoError, stable) THEN AgainOuter(r)
        ELSE IF stable THEN Conclude([r EXCEPT !.cur = t], "ok")
        ELSE Conclude([r EXCEPT !.cur = t], "CreateVolumeAccessPointTimedOut")

WaitDeleteFound(r, t) ==
    IF ~LoopEnds("FlexyRetryWithConstGap", r.i, NoError, FALSE)
    THEN AgainOuter(r)
    ELSE Conclude(r, "DeleteVolumeAccessPointTimedOut")

Found(r, t) ==
    CASE r.op = "CreateVolumeAccessPoint"        -> CreateFound(r, t)
      [] r.op = "DeleteVolumeAccessPoint"        -> DeleteFound(r, t)
      [] r.op = "WaitForCreateVolumeAccessPoint" -> WaitCreateFound(r, t)
      [] r.op = "WaitForDeleteVolumeAccessPoint" -> WaitDeleteFound(r, t)

(* ... and with a lookup that returned an error: AccessPointWithAPIDFind-  *)
(* Failed by id, AccessPointWithVPCIDFindFailed by VPC, whether the list   *)
(* did not contain it or the service could not be asked.                   *)
CreateNotFound(r)     == [r EXCEPT !.pc = "post", !.j = 0]
DeleteNotFound(r)     == Conclude(r, "ok")
WaitCreateNotFound(r) == Conclude(r, "CreateVolumeAccessPointTimedOut")
WaitDeleteNotFound(r) ==
    Conclude(r, IF r.tid # None THEN "ok" ELSE "DeleteVolumeAccessPointTimedOut")

NotFound(r) ==
    CASE r.op = "CreateVolumeAccessPoint"        -> CreateNotFound(r)
      [] r.op = "DeleteVolumeAccessPoint"        -> DeleteNotFound(r)
      [] r.op = "WaitForCreateVolumeAccessPoint" -> WaitCreateNotFound(r)
      [] r.op = "WaitForDeleteVolumeAccessPoint" -> WaitDeleteNotFound(r)

GetVolumeAccessPoint(s) ==
    /\ ap[s].pc = "find"
    /\ \E o \in Lookup(ap[s]) :
          /\ Deliver(o)
          /\ LET r    == [ap[s] EXCEPT !.hit = @ \/ o.fault]
                 stop == ~IsErr(o.err) \/ skipRetryForObviousErrors(o.err)
             IN  \/ /\ ~LoopEnds("FlexyRetry", r.j, o.err, stop)
                    /\ ap' = [ap EXCEPT ![s] = [r EXCEPT !.j = @ + 1]]
                 \/ /\ LoopEnds("FlexyRetry", r.j, o.err, stop)
                    /\ Matches(r, o) = {}
                    /\ ap' = [ap EXCEPT ![s] = NotFound(r)]
                 \/ /\ LoopEnds("FlexyRetry", r.j, o.err, stop)
                    /\ \E t \in Matches(r, o) : ap' = [ap EXCEPT ![s] = Found(r, t)]

--------------------------------------------------------------------------------
(* Mutant: any error ends the loop.                                        *)
CreateTargetOnce(s) ==
    /\ ap[s].pc = "post"
    /\ \E o \in CreateFileShareTarget(ap[s].share, ap[s].home) :
          /\ Deliver(o)
          /\ ap' = [ap EXCEPT ![s] =
                IF IsErr(o.err)
                THEN Conclude([@ EXCEPT !.hit = @ \/ o.fault], "CreateVolumeAccessPointFailed")
                ELSE Conclude([@ EXCEPT !.cur = o.val], "ok")]

(* The POST of CreateVolumeAccessPoint.  An error sends the loop back to   *)
(* the lookup unless its code says skip.                                   *)
CreateTargetAttempt(s) ==
    /\ ap[s].pc = "post"
    /\ \E o \in CreateFileShareTarget(ap[s].share, ap[s].home) :
          /\ Deliver(o)
          /\ LET r    == [ap[s] EXCEPT !.hit = @ \/ o.fault]
                 stop == ~IsErr(o.err) \/ skipRetryForObviousErrors(o.err)
             IN  ap' = [ap EXCEPT ![s] =
                    IF ~LoopEnds("FlexyRetry", r.i, o.err, stop) THEN AgainOuter(r)
                    ELSE IF IsErr(o.err) THEN Conclude(r, "CreateVolumeAccessPointFailed")
                    ELSE Conclude([r EXCEPT !.cur = o.val], "ok")]

(* The DELETE of DeleteVolumeAccessPoint.                                  *)
DeleteTargetAttempt(s) ==
    /\ ap[s].pc = "remove"
    /\ \E o \in DeleteFileShareTarget(ap[s].share, ap[s].cur) :
          /\ Deliver(o)
          /\ LET r == [ap[s] EXCEPT !.hit = @ \/ o.fault]
             IN  ap' = [ap EXCEPT ![s] =
                    IF ~LoopEnds("FlexyRetry", r.i, o.err, ~IsErr(o.err)) THEN AgainOuter(r)
                    ELSE IF IsErr(o.err) THEN Conclude(r, "DeleteVolumeAccessPointFailed")
                    ELSE Conclude(r, "ok")]

--------------------------------------------------------------------------------
ApStep(s) ==
    \/ GetVolumeAccessPoint(s)
    \/ CreateTargetAttempt(s)
    \/ DeleteTargetAttempt(s)

ApCall(s) ==
    \/ \E o \in Operations : RefuseRequest(s, o)
    \/ \E x \in ShareIDs, t \in TargetIDs \cup {None}, v \in VPCs \cup {None} :
           \/ \E h \in VPCs : CreateVolumeAccessPoint(s, x, t, v, h)
           \/ \E o \in Operations : OnAccessPoint(s, o, x, t, v)

ApNext ==
    \/ \E s \in ApSessions : (ApStep(s) \/ ApCall(s)) /\ UNCHANGED vol
    \/ \E s \in Sessions : (VolStep(s) \/ VolCall(s)) /\ UNCHANGED ap
    \/ BackendStep /\ UNCHANGED <<vol, ap>>

ApSpec == ApInit /\ [][ApNext]_apVars

--------------------------------------------------------------------------------
ApResults == {"ok", "ErrorRequiredFieldMissing", "CreateVolumeAccessPointFailed",
            "DeleteVolumeAccessPointFailed", "CreateVolumeAccessPointTimedOut",
            "DeleteVolumeAccessPointTimedOut"}

Running == {"find", "post", "remove"}

ApOpsOK ==
    ap \in [ApSessions ->
        [op    : Operations \cup {None},
         pc    : Running \cup {"idle", "done"},
         i     : Nat,
         j     : Nat,
         share : ShareIDs \cup {None},
         tid   : TargetIDs \cup {None},
         vpc   : VPCs \cup {None},
         home  : VPCs \cup {None},
         cur   : TargetIDs \cup {None},
         res   : ApResults \cup {None},
         hit   : BOOLEAN,
         at    : SUBSET TargetIDs,
         ready : BOOLEAN,
         ops   : 0 .. MaxApOps]]

ApTypeOK == TypeOK /\ ApOpsOK

Ended(s, o, result) == ap[s].op = o /\ ap[s].pc = "done" /\ ap[s].res = result

(* CreateVolumeAccessPoint answers with a target of the requested share in *)
(* the requested VPC, also when the target was made by another session or  *)
(* by a request of its own whose answer was lost; or, when the request has *)
(* an access point id, with the access point of that id.                   *)
CreatedTargetIsTheOneAskedFor ==
    \A s \in ApSessions : Ended(s, "CreateVolumeAccessPoint", "ok") =>
        /\ ap[s].cur # None
        /\ targets[ap[s].cur].status # "unused"
        /\ targets[ap[s].cur].share = ap[s].share
        /\ ap[s].cur = ap[s].tid \/ targets[ap[s].cur].vpc = ap[s].home

NothingDeleted ==
    /\ \A x \in ShareIDs : ~Accepted(shares[x])
    /\ \A t \in TargetIDs : ~Accepted(targets[t])

(* Creating an access point is idempotent: on a stable share, without      *)
(* faults and deletions, a session that loses the race to another creator  *)
(* finds that creator's target and does not fail.                          *)
LosingCreatorAdopts ==
    NothingDeleted =>
        \A s \in ApSessions :
            /\ Ended(s, "CreateVolumeAccessPoint", "CreateVolumeAccessPointFailed")
            /\ ap[s].ready /\ ~ap[s].hit /\ ap[s].vpc # None
            => ~ \E t \in TargetsOf(ap[s].share) : targets[t].vpc = ap[s].vpc

(* Without faults DeleteVolumeAccessPoint reports success only when the    *)
(* target the request named at its start has been deleted or its deletion  *)
(* has been accepted, by this session or by a concurrent one.              *)
DeletedTargetIsDoomed ==
    \A s \in ApSessions :
        Ended(s, "DeleteVolumeAccessPoint", "ok") /\ ~ap[s].hit
            => \A t \in ap[s].at : Accepted(targets[t])

(* WaitForCreateVolumeAccessPoint succeeds only on a target that has been  *)
(* stable, and WaitForDeleteVolumeAccessPoint, unless a fault hit it, only *)
(* when the target it was asked about is gone.                             *)
WaitsTellTheTruth ==
    \A s \in ApSessions :
        /\ Ended(s, "WaitForCreateVolumeAccessPoint", "ok")
               => targets[ap[s].cur].status \notin {"unused", "pending"}
        /\ Ended(s, "WaitForDeleteVolumeAccessPoint", "ok") /\ ~ap[s].hit
               => targets[ap[s].tid].status = "gone"

(* q is a later state of an operation than r: the outer loop has begun     *)
(* another attempt, or the same attempt is past its lookup or past one     *)
(* more request of it.                                                     *)
Later(r, q) ==
    \/ q.pc = "done"
    \/ q.i > r.i
    \/ q.i = r.i /\ r.pc = "find" /\ (q.pc # "find" \/ q.j > r.j)

(* Every access point operation ends, whatever the service answers and     *)
(* however long it takes to settle: each of its requests brings it further *)
(* in its two nested loops, and both are bounded.                          *)
EveryRequestBringsItFurther ==
    [][\A s \in ApSessions : ap[s].pc \in Running /\ ap'[s] # ap[s] =>
          /\ Later(ap[s], ap'[s])
          /\ ap'[s].i < Limit("FlexyRetryWithConstGap")
          /\ ap'[s].j < Limit("FlexyRetry")]_apVars

(* delete_volume_access_point.go: "Retry in case of all errors": success   *)
(* by way of a DELETE request means that the service accepted one.         *)
DeleteRetriesAllErrors ==
    \A s \in ApSessions :
        Ended(s, "DeleteVolumeAccessPoint", "ok") /\ ap[s].cur # None
            => Accepted(targets[ap[s].cur])
================================================================================
