------------------------------ MODULE PagedService ------------------------------
(***************************************************************************)
(* A collection the cloud service lists page by page: shares, snapshots,   *)
(* subnets or security groups.  It is not part of the repository.  Ids are *)
(* numbers in the order of the listing; the link to the next page names    *)
(* the id that page starts with, and a listing that starts with an id that *)
(* is not there, or a limit out of range ("supports values <= maxLimit",   *)
(* file/provider/list_volumes.go:48), is refused.  Other clients add and   *)
(* remove items between two pages.                                         *)
(***************************************************************************)
EXTENDS RetryLoop, FiniteSetsExt

CONSTANTS
    LastID,         \* ids are 1 .. LastID
    DefaultPage,    \* items on a page when no limit is asked for
    maxLimit,       \* the largest limit the service supports
    FaultErrors,    \* errors of a request the service did not answer
    MaxFaults,      \* bound: faults and malformed links in one behaviour
    MaxChanges      \* bound: items added and removed by others

ASSUME PagedAssumption ==
    /\ LastID \in Nat /\ DefaultPage \in Nat \ {0} /\ maxLimit \in Nat \ {0}
    /\ \A e \in FaultErrors : IsErr(e)
    /\ MaxFaults \in Nat /\ MaxChanges \in Nat

VARIABLES
    items,      \* state of every id
    changes,
    faults

pagedVars == <<items, changes, faults>>

IDs == 1 .. LastID

There == {x \in IDs : items[x] = "there"}

(* Any number of the faults allowed may still be to come.                  *)
PagedInit ==
    /\ items \in [IDs -> {"unused", "there"}]
    /\ changes = 0
    /\ faults \in 0 .. MaxFaults

--------------------------------------------------------------------------------
(* Links to the next page: none, the id it starts with, or one that cannot *)
(* be parsed or has no start.                                              *)
NoLink   == 0
BadLink  == -1

Reply(e, page, link, f) == [err |-> e, page |-> page, link |-> link, fault |-> f]

StartInvalid == ModelsError(<<"start_not_valid">>)
LimitInvalid == ModelsError(<<"bad_field">>)

(* The answer to a request with this limit (0: none given), start (0: from *)
(* the beginning) and filter.                                              *)
ServicePage(limit, start, filter) ==
    LET size == IF limit > 0 THEN limit ELSE DefaultPage
        from == {x \in There \cap filter : x >= start}
        page == {x \in from : Cardinality({y \in from : y <= x}) <= size}
    IN  IF limit \notin 0 .. maxLimit
        THEN Reply(LimitInvalid, {}, NoLink, FALSE)
        ELSE IF start # NoLink /\ start \notin There
        THEN Reply(StartInvalid, {}, NoLink, FALSE)
        ELSE Reply(NoError, page, IF from = page THEN NoLink ELSE Min(from \ page), FALSE)

(* Request.Invoke: the answer, a failure, or an answer whose link is not   *)
(* what the clients expect.                                                *)
InvokePage(a) ==
    {a} \cup
    (IF faults < MaxFaults
     THEN {Reply(e, {}, NoLink, TRUE) : e \in FaultErrors}
          \cup (IF a.link = NoLink THEN {} ELSE {[a EXCEPT !.link = BadLink, !.fault = TRUE]})
     ELSE {})

Receive(a) ==
    /\ faults' = IF a.fault THEN faults + 1 ELSE faults
    /\ UNCHANGED <<items, changes>>

(* Other clients.                                                          *)
OthersAdd(x) ==
    /\ items[x] = "unused"
    /\ items' = [items EXCEPT ![x] = "there"]

OthersRemove(x) ==
    /\ items[x] = "there"
    /\ items' = [items EXCEPT ![x] = "removed"]

OthersChange ==
    /\ changes < MaxChanges
    /\ changes' = changes + 1
    /\ \E x \in IDs : OthersAdd(x) \/ OthersRemove(x)
    /\ UNCHANGED faults
================================================================================
