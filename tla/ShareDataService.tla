---------------------------- MODULE ShareDataService ----------------------------
(***************************************************************************)
(* The file service as far as the size and the snapshots of one share go.  *)
(* It is not part of the repository: a resize and a snapshot are accepted  *)
(* first and done later, and a share may be deleted by another client.     *)
(* Requests have outcomes as in FileShareBackend.                          *)
(***************************************************************************)
EXTENDS RetryLoop

CONSTANTS
    SnapIDs, SnapNames,   \* snapshots the service can still make, and names
    MaxSize,              \* bound: GiB a share can have
    InitialSize,
    GiB,                  \* bytes of a GiB
    None,
    FaultErrors,          \* errors of a request the service did not act on
    MaxFaults             \* bound: faults in one behaviour

ASSUME DataServiceAssumption ==
    /\ InitialSize \in Nat \ {0} /\ MaxSize \in Nat /\ InitialSize <= MaxSize
    /\ GiB \in Nat \ {0}
    /\ None \notin SnapIDs \cup SnapNames
    /\ \A e \in FaultErrors : IsErr(e)
    /\ MaxFaults \in Nat

(* Only the service itself says that a share or snapshot does not exist.   *)
ASSUME FaultAssumption ==
    \A e \in FaultErrors :
        e.kind = "models" /\ Len(e.codes) > 0
            => e.codes[1] \notin {"shares_not_found", "shares_snapshot_not_found"}

VARIABLES
    share,    \* status, size and the size it is being resized to (in GiB)
    snaps,    \* status, name and minimum size of every snapshot id
    faults

serviceVars == <<share, snaps, faults>>

SnapStatuses == {"unused", "pending", "stable", "deleting", "gone"}

(* A snapshot as the service keeps it, and as it answers with it.          *)
Snap     == [status : SnapStatuses, name : SnapNames \cup {None}, min : Nat]
SentSnap == [id : SnapIDs, snap : Snap]

ServiceInit ==
    /\ share  = [status |-> "stable", size |-> InitialSize, next |-> InitialSize]
    /\ snaps  = [x \in SnapIDs |-> [status |-> "unused", name |-> None, min |-> 0]]
    /\ faults = 0

ShareLive   == share.status # "gone"
SnapLive(x) == snaps[x].status \in {"pending", "stable", "deleting"}
SnapDead(x) == snaps[x].status \in {"deleting", "gone"}

--------------------------------------------------------------------------------
Answer(sh, sn, e, v, f) == [share |-> sh, snaps |-> sn, err |-> e, val |-> v, fault |-> f]
Accept(sh, sn, v)       == Answer(sh, sn, NoError, v, FALSE)
Refuse(code)            == Answer(share, snaps, ModelsError(<<code>>), None, FALSE)

(* Request.Invoke (see FileShareClient): the answer, or a fault before or  *)
(* after the service acted.                                                *)
Invoke(a) ==
    {a} \cup
    (IF faults < MaxFaults
     THEN {Answer(a.share, a.snaps, OtherError, None, TRUE)}
          \cup {Answer(share, snaps, e, None, TRUE) : e \in FaultErrors}
     ELSE {})

Deliver(a) ==
    /\ share'  = a.share
    /\ snaps'  = a.snaps
    /\ faults' = IF a.fault THEN faults + 1 ELSE faults

(* GET /shares/{id} *)
ServiceGet ==
    IF ShareLive THEN Accept(share, snaps, share) ELSE Refuse("shares_not_found")

(* PATCH /shares/{id} with a size: a share can only grow.                  *)
ServiceResize(n) ==
    IF ~ShareLive THEN Refuse("shares_not_found")
    ELSE IF share.status # "stable" THEN Refuse("shares_status_pending")
    ELSE IF n \notin share.size .. MaxSize THEN Refuse("shares_profile_capacity_invalid")
    ELSE LET sh == [share EXCEPT !.status = "updating", !.next = n]
         IN  Accept(sh, snaps, sh)

FreeSnaps == {x \in SnapIDs : snaps[x].status = "unused"}

NewSnap(n) == [status |-> "pending", name |-> n, min |-> share.size]

(* POST /shares/{id}/snapshots *)
ServiceSnapshot(n) ==
    IF ~ShareLive THEN {Refuse("shares_not_found")}
    ELSE IF share.status # "stable" THEN {Refuse("shares_status_pending")}
    ELSE IF \E x \in SnapIDs : SnapLive(x) /\ snaps[x].name = n
         THEN {Refuse("share_snapshot_name_duplicate")}
    ELSE IF FreeSnaps = {} THEN {Refuse("share_snapshots_quota_limit_exceeded")}
    ELSE {Accept(share, [snaps EXCEPT ![x] = NewSnap(n)],
                 [id |-> x, snap |-> NewSnap(n)]) : x \in FreeSnaps}

(* GET /shares/{id}/snapshots/{id} and ?name= *)
ServiceGetSnapshot(x) ==
    IF ~ShareLive THEN Refuse("shares_not_found")
    ELSE IF ~SnapLive(x) THEN Refuse("shares_snapshot_not_found")
    ELSE Accept(share, snaps, [id |-> x, snap |-> snaps[x]])

ServiceFindSnapshots(n) ==
    IF ShareLive
    THEN Accept(share, snaps, {[id |-> x, snap |-> snaps[x]] :
                               x \in {y \in SnapIDs : SnapLive(y) /\ snaps[y].name = n}})
    ELSE Refuse("shares_not_found")

(* DELETE /shares/{id}/snapshots/{id} *)
ServiceDeleteSnapshot(x) ==
    IF ~ShareLive THEN Refuse("shares_not_found")
    ELSE IF ~SnapLive(x) THEN Refuse("shares_snapshot_not_found")
    ELSE IF snaps[x].status # "stable" THEN Refuse("shares_status_pending")
    ELSE Accept(share, [snaps EXCEPT ![x].status = "deleting"], None)

--------------------------------------------------------------------------------
(* What the service does on its own, and other clients.                    *)

ShareSettles ==
    /\ \/ /\ share.status = "updating"
          /\ share' = [share EXCEPT !.status = "stable", !.size = share.next]
          /\ UNCHANGED snaps
       \/ /\ share.status = "deleting"
          /\ share' = [share EXCEPT !.status = "gone"]
          /\ snaps' = [x \in SnapIDs |->
                          [snaps[x] EXCEPT !.status = IF SnapLive(x) THEN "gone" ELSE @]]
    /\ UNCHANGED faults

SnapshotSettles(x) ==
    /\ \/ /\ snaps[x].status = "pending"
          /\ snaps' = [snaps EXCEPT ![x].status = "stable"]
       \/ /\ snaps[x].status = "deleting"
          /\ snaps' = [snaps EXCEPT ![x].status = "gone"]
    /\ UNCHANGED <<share, faults>>

DeletedElsewhere ==
    /\ share.status = "stable"
    /\ share' = [share EXCEPT !.status = "deleting"]
    /\ UNCHANGED <<snaps, faults>>

ResizedElsewhere ==
    /\ share.status = "stable"
    /\ \E n \in share.size .. MaxSize : share' = [share EXCEPT !.status = "updating", !.next = n]
    /\ UNCHANGED <<snaps, faults>>

ServiceStep ==
    \/ ShareSettles
    \/ \E x \in SnapIDs : SnapshotSettles(x)
    \/ DeletedElsewhere
    \/ ResizedElsewhere
================================================================================
