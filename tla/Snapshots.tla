------------------------------- MODULE Snapshots -------------------------------
(***************************************************************************)
(* CreateSnapshot, DeleteSnapshot, GetSnapshot and GetSnapshotByName of a  *)
(* VPCSession (file/provider/create_snapshot.go, delete_snapshot.go,       *)
(* get_snapshot.go) and the requests they make.                            *)
(***************************************************************************)
EXTENDS ShareDataService

CONSTANTS
    Snappers,     \* goroutines calling snapshot operations
    MaxSnapOps    \* bound: operations one goroutine runs

(* A snapshot as the provider returns it.                                  *)
LibSnap == [id : SnapIDs, size : Nat, ready : BOOLEAN]

ASSUME SnapshotAssumption ==
    /\ MaxSnapOps \in Nat
    /\ None \notin SentSnap \cup LibSnap

VARIABLE sop    \* each goroutine's operation

(* snap: the snapshot returned; History: made, the snapshots its requests  *)
(* created; hit, a fault reached it; atStart, the snapshots that existed   *)
(* when it began; ops, the operations begun.                               *)
IdleSnap == [op |-> "none", pc |-> "idle", i |-> 0, id |-> None, name |-> None,
             snap |-> None, res |-> "none", made |-> {}, hit |-> FALSE,
             atStart |-> {}, ops |-> 0]

SnapInit == sop = [s \in Snappers |-> IdleSnap]

GiBToBytes(n) == n * GiB

(* FromProviderToLibSnapshot; the nil snapshot stays nil.                  *)
FromProviderToLibSnapshot(v) ==
    IF v = None THEN None
    ELSE [id |-> v.id, size |-> GiBToBytes(v.snap.min), ready |-> v.snap.status = "stable"]

CreateSnapshotRequest(n)     == UNION {Invoke(a) : a \in ServiceSnapshot(n)}
GetSnapshotRequest(x)        == Invoke(ServiceGetSnapshot(x))
DeleteSnapshotRequest(x)     == Invoke(ServiceDeleteSnapshot(x))

(* The client asks for a list of one with that name and takes its head;    *)
(* an empty list is neither a snapshot nor an error.                       *)
GetSnapshotByNameRequest(n) ==
    UNION { IF IsErr(a.err) THEN {a}
            ELSE IF a.val = {} THEN {[a EXCEPT !.val = None]}
            ELSE {[a EXCEPT !.val = v] : v \in a.val} : a \in Invoke(ServiceFindSnapshots(n)) }

--------------------------------------------------------------------------------
(* A call: a request without the volume, the snapshot or the name is       *)
(* refused before anything is sent.                                        *)
BeginSnap(s, o, x, n, complete, loop) ==
    /\ sop[s].pc \in {"idle", "done"} /\ sop[s].ops < MaxSnapOps
    /\ LET r == [IdleSnap EXCEPT !.op = o, !.id = x, !.name = n, !.ops = sop[s].ops + 1,
                                 !.atStart = {y \in SnapIDs : SnapLive(y)}]
       IN  sop' = [sop EXCEPT ![s] = IF complete THEN Enter(r, loop)
                                     ELSE Fail(r, "ErrorRequiredFieldMissing")]
    /\ UNCHANGED serviceVars

CreateSnapshot(s, n, complete)    == BeginSnap(s, "CreateSnapshot", None, n, complete, "create")
GetSnapshot(s, x, complete)       == BeginSnap(s, "GetSnapshot", x, None, complete, "get")
GetSnapshotByName(s, n, complete) == BeginSnap(s, "GetSnapshotByName", None, n, complete, "getByName")
DeleteSnapshot(s, x, complete)    == BeginSnap(s, "DeleteSnapshot", x, None, complete, "delete")

Hit(r, a) == [r EXCEPT !.hit = @ \/ a.fault]

CreateSnapshotAttempt(s) ==
    /\ sop[s].pc = "create"
    /\ \E a \in CreateSnapshotRequest(sop[s].name) :
          /\ Deliver(a)
          /\ LET born == {x \in SnapIDs : snaps[x].status = "unused" /\ a.snaps[x].status # "unused"}
                 r    == [Hit(sop[s], a) EXCEPT !.made = @ \cup born]
             IN  sop' = [sop EXCEPT ![s] =
                    Attempted(r, "retry", a.err, FALSE,
                              Return([r EXCEPT !.snap = FromProviderToLibSnapshot(a.val)], "ok"),
                              Fail(r, "SnapshotCreationFailed"))]

GetSnapshotAttempt(s) ==
    /\ sop[s].pc = "get"
    /\ \E a \in GetSnapshotRequest(sop[s].id) :
          /\ Deliver(a)
          /\ LET r == Hit(sop[s], a)
             IN  sop' = [sop EXCEPT ![s] =
                    Attempted(r, "retry", a.err, FALSE,
                              Return([r EXCEPT !.snap = FromProviderToLibSnapshot(a.val)], "ok"),
                              Fail(r, "FailedToFindSnapshot"))]

(* Mutant: a failed request counts as a name that was not found.           *)
FoundOrNothing(s) ==
    /\ sop[s].pc = "getByName"
    /\ \E a \in GetSnapshotByNameRequest(sop[s].name) :
          /\ Deliver(a)
          /\ sop' = [sop EXCEPT ![s] =
                Return([@ EXCEPT !.snap = FromProviderToLibSnapshot(a.val)], "ok")]

GetSnapshotByNameAttempt(s) ==
    /\ sop[s].pc = "getByName"
    /\ \E a \in GetSnapshotByNameRequest(sop[s].name) :
          /\ Deliver(a)
          /\ LET r == Hit(sop[s], a)
             IN  sop' = [sop EXCEPT ![s] =
                    Attempted(r, "retry", a.err, FALSE,
                              Return([r EXCEPT !.snap = FromProviderToLibSnapshot(a.val)], "ok"),
                              Fail(r, "StorageFindFailedWithSnapshotName"))]

(* Mutant: any answer of the service counts as not found.                  *)
AnyAnswerIsGone(err) == err.kind = "models"

(* A snapshot or share that does not exist any more counts as deleted:     *)
(* only the first code of a *models.Error is looked at.                    *)
AlreadyGone(err) ==
    /\ err.kind = "models" /\ Len(err.codes) > 0
    /\ err.codes[1] \in {"shares_snapshot_not_found", "shares_not_found"}

DeleteSnapshotAttempt(s) ==
    /\ sop[s].pc = "delete"
    /\ \E a \in DeleteSnapshotRequest(sop[s].id) :
          /\ Deliver(a)
          /\ LET r == Hit(sop[s], a)
             IN  sop' = [sop EXCEPT ![s] =
                    Attempted(r, "retry", a.err, FALSE,
                              Enter(r, "waitGone"),
                              IF AlreadyGone(a.err) THEN Return(r, "ok")
                              ELSE Fail(r, "FailedToDeleteSnapshot"))]

(* The callback never returns an error, and the type assertion in it       *)
(* panics on an error that is not a *models.Error.                         *)
WaitForSnapshotDeletion(s) ==
    /\ sop[s].pc = "waitGone"
    /\ \E a \in GetSnapshotRequest(sop[s].id) :
          /\ Deliver(a)
          /\ LET r == Hit(sop[s], a)
             IN  sop' = [sop EXCEPT ![s] =
                    IF a.err.kind = "other"
                    THEN [r EXCEPT !.pc = "panicked"]
                    ELSE Attempted(r, "FlexyRetry", NoError, IsErr(a.err) /\ skipRetry(a.err),
                                   Return(r, "ok"), Fail(r, "FailedToDeleteSnapshot"))]

SnapStep(s) ==
    \/ CreateSnapshotAttempt(s)
    \/ GetSnapshotAttempt(s)
    \/ GetSnapshotByNameAttempt(s)
    \/ DeleteSnapshotAttempt(s)
    \/ WaitForSnapshotDeletion(s)

SnapCall(s) ==
    \/ \E n \in SnapNames, c \in BOOLEAN : CreateSnapshot(s, n, c) \/ GetSnapshotByName(s, n, c)
    \/ \E x \in SnapIDs, c \in BOOLEAN :
          snaps[x].status # "unused" /\ (GetSnapshot(s, x, c) \/ DeleteSnapshot(s, x, c))

--------------------------------------------------------------------------------
SnapLoops == {"create", "get", "getByName", "delete", "waitGone"}

SnapOk(s, o) == sop[s].op = o /\ sop[s].res = "ok"

(* DeleteSnapshot reports success only when the service has accepted the   *)
(* deletion or had nothing to delete: repeated DELETEs, a wait that runs   *)
(* out or is cut short by a listed error, and a share deleted meanwhile    *)
(* never leave a snapshot that would stay.                                 *)
DeletedSnapshotIsDoomed ==
    \A s \in Snappers : SnapOk(s, "DeleteSnapshot") => SnapDead(sop[s].id)

(* What a snapshot operation returns is so: a snapshot called ready to use *)
(* was captured, its size is that of the share when it was taken, a lookup *)
(* by name returns a snapshot of that name, and it returns nothing only if *)
(* no such snapshot existed all through the call.                          *)
SnapshotAnswersAreTrue ==
    \A s \in Snappers : sop[s].res = "ok" =>
        LET r == sop[s]
        IN  /\ r.snap # None =>
                  /\ r.snap.ready => snaps[r.snap.id].status \notin {"unused", "pending"}
                  /\ r.snap.size = GiBToBytes(snaps[r.snap.id].min)
                  /\ r.name # None => snaps[r.snap.id].name = r.name
            /\ r.op = "GetSnapshotByName" /\ r.snap = None =>
                  \A x \in r.atStart : snaps[x].name = r.name => ~SnapLive(x)

(* A CreateSnapshot that succeeded left no other living snapshot behind,   *)
(* however often its POST was repeated; one that failed left one only if a *)
(* request of it met a fault.                                              *)
NoStraySnapshot ==
    \A s \in Snappers :
        LET r     == sop[s]
            stray == {x \in r.made : ~SnapDead(x)}
        IN  r.op = "CreateSnapshot" /\ r.pc = "done" =>
                IF r.res = "ok" THEN stray \subseteq {r.snap.id} ELSE stray # {} => r.hit
================================================================================
