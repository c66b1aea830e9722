-------------------------------- MODULE Listing --------------------------------
(***************************************************************************)
(* The reading operations of a VPCSession: ListVolumes, ListSnapshots,     *)
(* GetVolumeByName, GetVolumeProfileByName and the lookups of a subnet and *)
(* of a security group, which follow the pages themselves                  *)
(* (file/provider/list_volumes.go, list_snapshots.go, get_volume.go,       *)
(* get_volume_profile.go, get_subnet.go, get_security_group.go).           *)
(***************************************************************************)
EXTENDS PagedService

CONSTANTS
    Readers,     \* goroutines
    Matching,    \* the ids a lookup or a filter by name accepts
    Limits,      \* limits callers of the lists pass
    pageSize,    \* the limit the lookups use
    None

ASSUME ListingAssumption ==
    /\ Matching \subseteq IDs /\ Limits \subseteq Int
    /\ pageSize \in 1 .. maxLimit
    /\ None \notin Int

VARIABLE read    \* each goroutine's operation

listVars == <<pagedVars, read>>

(* limit, start: what the next request asks for; next: the token returned; *)
(* found: the item a lookup returned.  History: got, the items listed so   *)
(* far; twice, an item was listed again; atStart, the items there when the *)
(* operation began; bad, a malformed link was met.                         *)
IdleRead == [op |-> "none", pc |-> "idle", i |-> 0, limit |-> 0, start |-> NoLink,
             next |-> NoLink, found |-> None, res |-> "none", got |-> {},
             twice |-> FALSE, atStart |-> {}, bad |-> FALSE]

ListInit == read = [s \in Readers |-> IdleRead]

Lists   == {"ListVolumes", "ListSnapshots"}
Lookups == {"GetSubnet", "GetSecurityGroup"}

(* The codes the operations end with.                                      *)
InvalidLimit == [ListVolumes |-> "InvalidListVolumesLimit",
                 ListSnapshots |-> "InvalidListSnapshotLimit"]
ListFailed   == [ListVolumes |-> "ListVolumesFailed", ListSnapshots |-> "ListSnapshotsFailed",
                 GetSubnet |-> "SubnetsListFailed",
                 GetSecurityGroup |-> "SecurityGroupsListFailed"]
StartMissing == [ListVolumes |-> "StartVolumeIDNotFound",
                 ListSnapshots |-> "StartSnapshotIDNotFound"]
FindFailed   == [GetSubnet |-> "SubnetFindFailed", GetSecurityGroup |-> "SecurityGroupFindFailed"]

(* The clients leave a limit of 0 and an empty start out of the request.   *)
ListFileShares(limit, start)     == InvokePage(ServicePage(limit, start, IDs))
ListSnapshotsPage(limit, start)  == InvokePage(ServicePage(limit, start, IDs))
ListSubnets(start)               == InvokePage(ServicePage(pageSize, start, IDs))
ListSecurityGroups(start)        == InvokePage(ServicePage(pageSize, start, IDs))
GetFileShareByName               == InvokePage(ServicePage(1, NoLink, Matching))

RequestPage(r) ==
    CASE r.op = "ListVolumes"      -> ListFileShares(r.limit, r.start)
      [] r.op = "ListSnapshots"    -> ListSnapshotsPage(r.limit, r.start)
      [] r.op = "GetSubnet"        -> ListSubnets(r.start)
      [] r.op = "GetSecurityGroup" -> ListSecurityGroups(r.start)

BeginRead(s, r) ==
    /\ read[s].pc = "idle"
    /\ read' = [read EXCEPT ![s] = [r EXCEPT !.atStart = There]]
    /\ UNCHANGED pagedVars

--------------------------------------------------------------------------------
(* ListVolumes and ListSnapshots: one page per call.                       *)
CheckedLimit(r, limit) ==
    IF limit < 0 THEN Fail(r, InvalidLimit[r.op])
    ELSE Enter([r EXCEPT !.limit = IF limit > maxLimit THEN maxLimit ELSE limit], "list")

List(s, o, limit) == BeginRead(s, CheckedLimit([IdleRead EXCEPT !.op = o], limit))

(* Mutant: the token is the last item of the page.                         *)
LastOfPage(a) == IF a.link = NoLink THEN NoLink ELSE Max(a.page)

(* The token cut out of the link; a link without start= gives the empty    *)
(* token, as if this were the last page.                                   *)
NextToken(a) == IF a.link = BadLink THEN NoLink ELSE a.link

ListedPage(r, a) ==
    Return([r EXCEPT !.next = NextToken(a), !.got = @ \cup a.page,
                     !.twice = @ \/ (r.got \cap a.page # {}),
                     !.bad = @ \/ a.link = BadLink], "ok")

ListAttempt(s) ==
    /\ read[s].pc = "list"
    /\ \E a \in RequestPage(read[s]) :
          /\ Receive(a)
          /\ LET r == read[s]
             IN  read' = [read EXCEPT ![s] =
                    Attempted(r, "retry", a.err, FALSE,
                              ListedPage(r, a),
                              Fail(r, IF a.err = StartInvalid THEN StartMissing[r.op]
                                      ELSE ListFailed[r.op]))]

(* The caller asks for the next page with the token it was given.          *)
FollowToken(s) ==
    /\ read[s].op \in Lists /\ read[s].res = "ok" /\ read[s].next # NoLink
    /\ read' = [read EXCEPT ![s] =
          Enter([@ EXCEPT !.start = read[s].next, !.next = NoLink, !.res = "none"], "list")]
    /\ UNCHANGED pagedVars

--------------------------------------------------------------------------------
(* The lookups: page after page until an item matches, with no retry and   *)
(* no bound of their own.                                                  *)
Lookup(s, o) == BeginRead(s, Enter([IdleRead EXCEPT !.op = o], "pages"))

(* Mutant: only the first page is looked at.                               *)
FirstPageOnly(r, a) ==
    IF a.page \cap Matching # {}
    THEN Return([r EXCEPT !.found = Min(a.page \cap Matching)], "ok")
    ELSE Fail(r, FindFailed[r.op])

ScanPage(r, a) ==
    IF a.page \cap Matching # {} THEN Return([r EXCEPT !.found = Min(a.page \cap Matching)], "ok")
    ELSE IF a.link = NoLink THEN Fail(r, FindFailed[r.op])
    ELSE IF a.link = BadLink THEN Fail([r EXCEPT !.bad = TRUE], FindFailed[r.op])
    ELSE [r EXCEPT !.start = a.link]

(* Mutant: the start of the next page is not taken over.                   *)
SamePage(s) ==
    /\ read[s].pc = "pages"
    /\ \E a \in RequestPage(read[s]) :
          /\ Receive(a)
          /\ read' = [read EXCEPT ![s] =
                IF IsErr(a.err) THEN Fail(@, ListFailed[@.op])
                ELSE [ScanPage(@, a) EXCEPT !.start = NoLink]]

LookupPage(s) ==
    /\ read[s].pc = "pages"
    /\ \E a \in RequestPage(read[s]) :
          /\ Receive(a)
          /\ read' = [read EXCEPT ![s] =
                IF IsErr(a.err) THEN Fail(@, ListFailed[@.op]) ELSE ScanPage(@, a)]

--------------------------------------------------------------------------------
(* Lookups by name with one request.  No share of that name is neither a   *)
(* volume nor an error.                                                    *)
GetVolumeByName(s, named) ==
    LET r == [IdleRead EXCEPT !.op = "GetVolumeByName"]
    IN  BeginRead(s, IF named THEN Enter(r, "byName") ELSE Fail(r, "InvalidVolumeName"))

GetVolumeByNameAttempt(s) ==
    /\ read[s].pc = "byName"
    /\ \E a \in GetFileShareByName :
          /\ Receive(a)
          /\ read' = [read EXCEPT ![s] =
                Attempted(@, "retry", a.err, FALSE,
                          Return([@ EXCEPT !.found = IF a.page = {} THEN None ELSE Min(a.page)], "ok"),
                          Fail(@, "StorageFindFailedWithVolumeName"))]

GetShareProfile == InvokePage(ServicePage(1, NoLink, Matching))

(* GetVolumeProfileByName makes a single request, is not retried and       *)
(* returns the error of the client as it is.                               *)
GetVolumeProfileByName(s) ==
    /\ read[s].pc = "idle"
    /\ \E a \in GetShareProfile :
          /\ Receive(a)
          /\ LET r == [IdleRead EXCEPT !.op = "GetVolumeProfileByName", !.atStart = There]
             IN  read' = [read EXCEPT ![s] =
                    IF IsErr(a.err) \/ a.page = {} THEN Return(r, "backend")
                    ELSE Return([r EXCEPT !.found = Min(a.page)], "ok")]

--------------------------------------------------------------------------------
ReadStep(s) ==
    \/ ListAttempt(s)
    \/ FollowToken(s)
    \/ LookupPage(s)
    \/ GetVolumeByNameAttempt(s)

ReadCall(s) ==
    \/ \E o \in Lists, n \in Limits : List(s, o, n)
    \/ \E o \in Lookups : Lookup(s, o)
    \/ \E named \in BOOLEAN : GetVolumeByName(s, named)
    \/ GetVolumeProfileByName(s)

Init == PagedInit /\ ListInit

Next ==
    \/ \E s \in Readers : ReadStep(s) \/ ReadCall(s)
    \/ OthersChange /\ UNCHANGED read

Spec == Init /\ [][Next]_listVars

(* A goroutine keeps running, and a caller follows the tokens it is given. *)
FairSpec == Spec /\ \A s \in Readers : WF_listVars(ReadStep(s))

--------------------------------------------------------------------------------
(* Items the operation of s had all through: there when it began and still *)
(* there now.                                                              *)
Throughout(s) == read[s].atStart \cap There

(* A listing followed to its last token has every item that was there all  *)
(* the time, once, whatever limit was asked for and whatever was added and *)
(* removed between the pages; only a link without start= cuts it short.    *)
(* And no limit makes it fail: ListVolumesFailed and ListSnapshotsFailed   *)
(* need a fault.                                                           *)
ListingIsComplete ==
    \A s \in Readers : read[s].op \in Lists =>
        /\ ~read[s].twice
        /\ read[s].res = "ok" /\ read[s].next = NoLink /\ ~read[s].bad =>
              Throughout(s) \subseteq read[s].got
        /\ read[s].res \in {"ListVolumesFailed", "ListSnapshotsFailed"} => faults > 0

(* A lookup returns an item that matches and existed, and one that says    *)
(* that there is none has looked at every item that was there all the      *)
(* time: a page that fails is reported as such.  A next link that cannot   *)
(* be parsed or has no start is not: the lookups of subnets and security   *)
(* groups then report "not found" as well (get_subnet.go:82 and 90,        *)
(* get_security_group.go:81 and 89), and all that is known is that the     *)
(* pages before the one with that link had no match.                       *)
LookupIsTrue ==
    \A s \in Readers :
        LET r == read[s]
            Read == {x \in Throughout(s) : r.bad => x < r.start}
        IN  /\ r.found # None => r.found \in Matching /\ items[r.found] # "unused"
            /\ r.res \in {"SubnetFindFailed", "SecurityGroupFindFailed"} =>
                  Read \cap Matching = {}
            /\ r.op = "GetVolumeByName" /\ r.res = "ok" /\ r.found = None =>
                  Throughout(s) \cap Matching = {}

(* The loops over pages have no bound: they end because each link leads    *)
(* past the page it came with, also while others change the collection.    *)
ReadingEnds ==
    \A s \in Readers : (read[s].pc \in {"list", "pages", "byName"})
                           ~> (read[s].pc = "done" /\ read[s].next = NoLink)
================================================================================
