------------------------------ MODULE ListingProofs ------------------------------
(***************************************************************************)
(* What the listings and lookups promise, proved for collections, pages    *)
(* and limits of any size, any number of readers and any changes by        *)
(* others.                                                                 *)
(*                                                                         *)
(* A page is an initial part of what is left, and its link names the first *)
(* item that is not on it (PageFacts).  So at every moment the items below *)
(* the start of the next page have been seen, and those seen are below it. *)
(***************************************************************************)
EXTENDS Listing, FiniteSetTheorems, TLAPS

(* A non-empty set of ids has a least one.                                 *)
LEMMA MinOfIDs ==
    ASSUME NEW S, S \subseteq IDs, S # {}
    PROVE  Min(S) \in S /\ \A y \in S : Min(S) <= y
<1> DEFINE Less == {ss \in Nat \X Nat : ss[1] < ss[2]}
<1>1. IsWellFoundedOn(Less, Nat)
  BY NatLessThanWellFounded, Zenon DEF OpToRel
<1>2. S \subseteq Nat /\ Less \in SUBSET (Nat \X Nat)
  BY PagedAssumption DEF IDs
<1>3. \A x, y \in Nat : x < y => <<x, y>> \in Less
  OBVIOUS
<1> HIDE DEF Less
<1>4. \E x \in S : \A y \in S : ~(<<y, x>> \in Less)
  BY <1>1, <1>2, WFMin
<1>5. \E x \in S : \A y \in S : x <= y
  <2>1. PICK x \in S : \A y \in S : ~(<<y, x>> \in Less)
    BY <1>4
  <2>2. ASSUME NEW y \in S PROVE x <= y
    <3>1. x \in Nat /\ y \in Nat /\ ~(y < x)
      BY <1>2, <1>3, <2>1
    <3> QED
      BY <3>1
  <2> QED
    BY <2>2
<1> QED
  BY <1>5 DEF Min

(* The page of size items that begins what is left of the collection.      *)
PageOf(from, size) == {x \in from : Cardinality({y \in from : y <= x}) <= size}

(* The page has every item below one of its own, and it is empty only if   *)
(* nothing is left.                                                        *)
LEMMA PageIsInitial ==
    ASSUME NEW from, from \subseteq IDs, NEW size \in Nat \ {0}
    PROVE  /\ \A x \in PageOf(from, size), y \in from : y <= x => y \in PageOf(from, size)
           /\ PageOf(from, size) = {} => from = {}
<1> DEFINE upTo(x) == {y \in from : y <= x}
<1>1. from \subseteq Nat /\ IsFiniteSet(from)
  <2>1. IsFiniteSet(1 .. LastID)
    BY PagedAssumption, FS_Interval
  <2>2. IsFiniteSet(from)
    BY <2>1, FS_Subset, Zenon DEF IDs
  <2> QED
    BY <2>2, PagedAssumption DEF IDs
<1>2. \A x \in from : IsFiniteSet(upTo(x)) /\ Cardinality(upTo(x)) \in Nat
  BY <1>1, FS_Subset, FS_CardinalityType
<1>3. ASSUME NEW x \in PageOf(from, size), NEW y \in from, y <= x
      PROVE  y \in PageOf(from, size)
  <2>1. x \in from /\ Cardinality(upTo(x)) <= size
    BY DEF PageOf
  <2>2. ASSUME NEW z \in upTo(y) PROVE z \in upTo(x)
    <3>1. z \in from /\ z <= y /\ x \in Nat /\ y \in Nat /\ z \in Nat
      BY <1>1, <2>1
    <3> QED
      BY <1>3, <3>1
  <2>3. upTo(y) \in SUBSET upTo(x)
    BY <2>2
  <2>4. Cardinality(upTo(y)) <= Cardinality(upTo(x))
    BY <1>2, <2>1, <2>3, FS_Subset
  <2>5. Cardinality(upTo(y)) <= size
    BY <1>2, <2>1, <2>4
  <2> QED
    BY <2>5 DEF PageOf
<1>4. ASSUME from # {} PROVE PageOf(from, size) # {}
  <2>1. Min(from) \in from /\ \A y \in from : Min(from) <= y
    BY <1>4, MinOfIDs
  <2>2. upTo(Min(from)) = {Min(from)}
    <3> DEFINE least == Min(from)
    <3> HIDE DEF least
    <3>1. least \in from /\ \A y \in from : least <= y
      BY <2>1 DEF least
    <3>2. \A y \in from : y <= least <=> y = least
      BY <1>1, <3>1
    <3>3. upTo(least) = {least}
      BY <3>1, <3>2
    <3> QED
      BY <3>3 DEF least
  <2>3. Cardinality(upTo(Min(from))) = 1
    BY <2>2, FS_Singleton
  <2> QED
    BY <2>1, <2>3 DEF PageOf
<1> QED
  BY <1>3, <1>4

(* The answer to a list request that is not refused, in a state of the     *)
(* service: the page begins the items from start on that pass the filter,  *)
(* and the link names the first of them that is not on it.                 *)
Served(a, start, filter) ==
    /\ a.page \subseteq There \cap filter
    /\ \A x \in a.page : x >= start
    /\ a.link = NoLink => \A x \in There \cap filter : x >= start => x \in a.page
    /\ a.link \notin {NoLink, BadLink} =>
          /\ a.link \in IDs /\ a.link > start
          /\ \A x \in a.page : x < a.link
          /\ \A x \in There \cap filter : x >= start /\ x < a.link => x \in a.page
    /\ a.page = {} => \A x \in There \cap filter : x < start

LEMMA ServiceServes ==
    ASSUME NEW limit \in Int, NEW start \in 0 .. LastID, NEW filter,
           NEW a, a = ServicePage(limit, start, filter), ~IsErr(a.err)
    PROVE  Served(a, start, filter)
<1> DEFINE size == IF limit > 0 THEN limit ELSE DefaultPage
           from == {x \in There \cap filter : x >= start}
           page == PageOf(from, size)
<1>1. a = Reply(NoError, page, IF from = page THEN NoLink ELSE Min(from \ page), FALSE)
  BY DEF ServicePage, PageOf, Reply, StartInvalid, LimitInvalid, ModelsError, IsErr
<1>2. a.page = page /\ a.link = IF from = page THEN NoLink ELSE Min(from \ page)
  BY <1>1 DEF Reply
<1>3. from \subseteq IDs /\ page \subseteq from /\ size \in Nat \ {0}
  BY PagedAssumption DEF There, PageOf
<1>4. /\ \A x \in page, y \in from : y <= x => y \in page
      /\ page = {} => from = {}
  BY <1>3, PageIsInitial
<1> HIDE DEF page, size
<1>5. ASSUME from # page
      PROVE  /\ a.link \in from \ page
             /\ \A y \in from \ page : a.link <= y
  BY <1>2, <1>3, <1>5, MinOfIDs
<1>6. IDs \subseteq Nat /\ 0 \notin IDs
  BY PagedAssumption DEF IDs
<1>7. CASE from = page
  <2>1. a.link = NoLink
    BY <1>2, <1>7
  <2> QED
    BY <1>2, <1>3, <1>6, <1>7, <2>1 DEF Served, There
<1>8. CASE from # page
  <2>1. a.link \in IDs /\ a.link # NoLink
    BY <1>3, <1>5, <1>6, <1>8 DEF NoLink
  <2>2. ASSUME NEW x \in page PROVE x < a.link
    <3>1. x \in Nat /\ a.link \in Nat /\ ~(a.link <= x)
      BY <1>3, <1>4, <1>5, <1>6, <1>8
    <3> QED
      BY <3>1
  <2>3. ASSUME NEW x \in from, x < a.link PROVE x \in page
    <3>1. x \in Nat /\ a.link \in Nat
      BY <1>3, <1>6, <2>1
    <3> QED
      BY <1>5, <1>8, <2>3, <3>1
  <2>4. page # {}
    BY <1>4, <1>8
  <2>5. a.link > start
    <3>1. PICK x \in page : TRUE
      BY <2>4
    <3>2. x \in from /\ x < a.link
      BY <1>3, <2>2
    <3>3. x \in Nat /\ a.link \in Nat /\ x >= start
      BY <1>3, <1>6, <2>1, <3>2
    <3>4. start \in Nat
      BY PagedAssumption
    <3> QED
      BY <3>2, <3>3, <3>4
  <2> QED
    BY <1>2, <1>3, <1>6, <2>1, <2>2, <2>3, <2>4, <2>5 DEF Served, There
<1> QED
  BY <1>7, <1>8

(* What any answer without an error says, malformed links included.        *)
LEMMA InvokeServes ==
    ASSUME NEW limit \in Int, NEW start \in 0 .. LastID, NEW filter,
           NEW a \in InvokePage(ServicePage(limit, start, filter)), ~IsErr(a.err)
    PROVE  Served(a, start, filter)
<1> DEFINE b == ServicePage(limit, start, filter)
<1>1. PICK e, page, link, f : b = Reply(e, page, link, f)
  BY Zenon DEF ServicePage
<1>2. b = ServicePage(limit, start, filter)
  OBVIOUS
<1> HIDE DEF b
<1>3. CASE a = b
  BY <1>2, <1>3, ServiceServes
<1>4. CASE a = [b EXCEPT !.link = BadLink, !.fault = TRUE]
  <2>1. a.err = b.err /\ a.page = b.page /\ a.link = BadLink
    BY <1>1, <1>4 DEF Reply
  <2>2. Served(b, start, filter)
    BY <1>2, <2>1, ServiceServes
  <2> QED
    BY <2>1, <2>2 DEF Served, BadLink, NoLink
<1>5. ASSUME NEW d \in FaultErrors, a = Reply(d, {}, NoLink, TRUE) PROVE FALSE
  BY <1>5, PagedAssumption DEF Reply
<1> QED
  BY <1>2, <1>3, <1>4, <1>5 DEF InvokePage

--------------------------------------------------------------------------------
Codes == MessagesEn \cup {"", "ok", "none", "backend"}

Reading ==
    [op : Lists \cup Lookups \cup {"none", "GetVolumeByName", "GetVolumeProfileByName"},
     pc : {"idle", "list", "pages", "byName", "done"}, i : Nat, limit : 0 .. maxLimit,
     start : 0 .. LastID, next : 0 .. LastID, found : IDs \cup {None}, res : Codes,
     got : SUBSET IDs, twice : BOOLEAN, atStart : SUBSET IDs, bad : BOOLEAN]

(* The items of it that were there since the operation r began.            *)
Since(r, it) == {x \in r.atStart : it[x] = "there"}

NoneMatches(r, it) == \A x \in Since(r, it) : x \notin Matching

(* Exactly the items below n have been listed.                             *)
ListedBelow(r, it, n) ==
    /\ \A x \in r.got : x < n
    /\ \A x \in Since(r, it) : x < n => x \in r.got

(* A listing is complete below the start of the page it asks for, and      *)
(* below the token it has returned.                                        *)
ListOK(r, it) ==
    /\ r.pc = "list" => r.op \in Lists /\ r.res = "none"
    /\ r.op \in Lists => ~r.twice /\ r.found = None
    /\ r.pc = "list" /\ r.start = NoLink => r.got = {}
    /\ r.pc = "list" /\ r.start # NoLink => ListedBelow(r, it, r.start)
    /\ r.op \in Lists /\ r.res = "ok" =>
          /\ r.next # NoLink => ListedBelow(r, it, r.next) /\ r.start < r.next
          /\ r.next = NoLink /\ ~r.bad => \A x \in Since(r, it) : x \in r.got

(* A lookup has found no match below the start of the page it asks for.    *)
LookupOK(r, it) ==
    /\ r.pc = "pages" =>
          /\ r.op \in Lookups /\ r.res = "none" /\ r.found = None
          /\ \A x \in Since(r, it) : x < r.start => x \notin Matching
    /\ r.pc = "byName" => r.op = "GetVolumeByName" /\ r.res = "none" /\ r.found = None
    /\ r.found # None => r.found \in Matching /\ it[r.found] # "unused"
    /\ r.res \in {"SubnetFindFailed", "SecurityGroupFindFailed"} =>
          \A x \in Since(r, it) : (r.bad => x < r.start) => x \notin Matching
    /\ r.op = "GetVolumeByName" /\ r.res = "ok" /\ r.found = None => NoneMatches(r, it)

ReadOK(r, it) ==
    /\ r \in Reading
    /\ \A x \in r.atStart : it[x] # "unused"
    /\ ListOK(r, it) /\ LookupOK(r, it)

ReadInv ==
    /\ items \in [IDs -> {"unused", "there", "removed"}]
    /\ read \in [Readers -> Reading]
    /\ \A s \in Readers : ReadOK(read[s], items)

LEMMA IDsAreNumbers ==
    /\ \A x \in IDs : x \in Nat /\ x > 0 /\ x \in 0 .. LastID
    /\ 0 \in 0 .. LastID /\ \A n \in 0 .. LastID : n \in Nat
BY PagedAssumption DEF IDs

LEMMA NoneIsNoID == None \notin IDs
BY ListingAssumption, PagedAssumption DEF IDs

(* What fails returns a code of its own, never success.                    *)
LEMMA FailedCode ==
    ASSUME NEW code PROVE GetUserError(code) \in Codes /\ GetUserError(code) \notin {"ok", "none"}
<1>1. "ok" \notin MessagesEn /\ "none" \notin MessagesEn
  BY DEF MessagesEn, VolumeMessages, InvalidVolumeMessages, AccessPointMessages, ListingMessages,
         SnapshotMessages
<1> QED
  BY <1>1 DEF GetUserError, Codes

LEMMA CodeNames == {"ok", "none", "backend"} \subseteq Codes
BY DEF Codes

--------------------------------------------------------------------------------
(* What the updates of an operation leave alone.                           *)
Kept(q, r) ==
    /\ q \in Reading /\ q.op = r.op /\ q.atStart = r.atStart /\ q.limit = r.limit

LEMMA ReadRepeats ==
    ASSUME NEW r \in Reading, NEW q, q = Repeat(r)
    PROVE  /\ Kept(q, r) /\ q.pc = r.pc /\ q.start = r.start /\ q.next = r.next
           /\ q.found = r.found /\ q.res = r.res /\ q.got = r.got /\ q.twice = r.twice /\ q.bad = r.bad
BY DEF Repeat, Reading, Kept

LEMMA ReadReturns ==
    ASSUME NEW r \in Reading, NEW res \in Codes, NEW q, q = Return(r, res)
    PROVE  /\ Kept(q, r) /\ q.pc = "done" /\ q.res = res /\ q.start = r.start /\ q.next = r.next
           /\ q.found = r.found /\ q.got = r.got /\ q.twice = r.twice /\ q.bad = r.bad
BY DEF Return, Reading, Kept

LEMMA ReadFails ==
    ASSUME NEW r \in Reading, NEW code, NEW q, q = Fail(r, code)
    PROVE  /\ Kept(q, r) /\ q.pc = "done" /\ q.res = GetUserError(code)
           /\ q.start = r.start /\ q.next = r.next
           /\ q.found = r.found /\ q.got = r.got /\ q.twice = r.twice /\ q.bad = r.bad
BY FailedCode, ReadReturns DEF Fail

LEMMA ReadEnters ==
    ASSUME NEW r \in Reading, NEW l \in {"list", "pages", "byName"}, NEW q, q = Enter(r, l)
    PROVE  /\ Kept(q, r) /\ q.pc = l /\ q.res = r.res /\ q.start = r.start /\ q.next = r.next
           /\ q.found = r.found /\ q.got = r.got /\ q.twice = r.twice /\ q.bad = r.bad
BY DEF Enter, Reading, Kept

(* An operation that has not begun.                                        *)
Fresh(r) ==
    /\ r \in Reading /\ r.start = NoLink /\ r.next = NoLink /\ r.found = None /\ r.got = {}
    /\ r.twice = FALSE /\ r.bad = FALSE

LEMMA IdleIsFresh == Fresh(IdleRead) /\ IdleRead.pc = "idle" /\ IdleRead.op = "none" /\ IdleRead.res = "none"
BY CodeNames, IDsAreNumbers, PagedAssumption DEF Fresh, IdleRead, Reading, NoLink

(* The read operations of the others know what they knew.                  *)
LEMMA ReadOwn ==
    ASSUME ReadInv, NEW s \in Readers, NEW q, read' = [read EXCEPT ![s] = q], items' = items,
           ReadOK(q, items)
    PROVE  ReadInv'
<1>1. q \in Reading
  BY DEF ReadOK
<1>2. read' \in [Readers -> Reading]
  BY <1>1 DEF ReadInv
<1>3. \A u \in Readers : ReadOK(read'[u], items')
  BY DEF ReadInv
<1> QED
  BY <1>2, <1>3 DEF ReadInv

(* What has not begun to list or to look up claims little.                 *)
LEMMA FreshOK ==
    ASSUME ReadInv, NEW r, Fresh(r), r.res # "ok", NEW q, q = [r EXCEPT !.atStart = There],
           r.res \notin {"SubnetFindFailed", "SecurityGroupFindFailed"},
           r.pc = "list" => r.op \in Lists /\ r.res = "none",
           r.pc = "pages" => r.op \in Lookups /\ r.res = "none",
           r.pc = "byName" => r.op = "GetVolumeByName" /\ r.res = "none"
    PROVE  ReadOK(q, items)
<1>1. There \subseteq IDs /\ \A x \in There : items[x] # "unused"
  BY DEF There
<1>2. /\ q \in Reading /\ q.atStart = There /\ q.op = r.op /\ q.pc = r.pc /\ q.res = r.res
      /\ q.start = NoLink /\ q.next = NoLink /\ q.found = None /\ q.got = {} /\ q.twice = FALSE
  BY <1>1 DEF Fresh, Reading
<1>3. ListOK(q, items)
  BY <1>2 DEF ListOK
<1>4. LookupOK(q, items)
  <2>1. \A x \in IDs : ~(x < NoLink)
    BY IDsAreNumbers DEF NoLink
  <2>2. Since(q, items) \subseteq IDs
    BY <1>1, <1>2 DEF Since
  <2> QED
    BY <1>2, <2>1, <2>2 DEF LookupOK
<1> QED
  BY <1>1, <1>2, <1>3, <1>4 DEF ReadOK

--------------------------------------------------------------------------------
(* The answers without an error to a request of the operation r.           *)
LEMMA PageServed ==
    ASSUME NEW r \in Reading, r.op \in Lists \cup Lookups, NEW a \in RequestPage(r), ~IsErr(a.err)
    PROVE  Served(a, r.start, IDs)
<1>1. \E n \in Int : RequestPage(r) = InvokePage(ServicePage(n, r.start, IDs))
  BY ListingAssumption, PagedAssumption
     DEF RequestPage, ListFileShares, ListSnapshotsPage, ListSubnets, ListSecurityGroups, Reading,
         Lists, Lookups
<1>2. r.start \in 0 .. LastID
  BY DEF Reading
<1> QED
  BY <1>1, <1>2, InvokeServes

LEMMA NamedServed ==
    ASSUME NEW a \in InvokePage(ServicePage(1, NoLink, Matching)), ~IsErr(a.err)
    PROVE  /\ a.page = {} => \A x \in There : x \notin Matching
           /\ a.page # {} => Min(a.page) \in There \cap Matching
<1>1. Served(a, NoLink, Matching)
  BY InvokeServes, IDsAreNumbers DEF NoLink
<1>2. There \subseteq IDs
  BY DEF There
<1>3. ASSUME a.page = {}, NEW x \in There, x \in Matching PROVE FALSE
  <2>1. x < NoLink /\ x \in Nat
    BY <1>1, <1>2, <1>3, IDsAreNumbers DEF Served
  <2> QED
    BY <2>1 DEF NoLink
<1>4. ASSUME a.page # {} PROVE Min(a.page) \in There \cap Matching
  BY <1>1, <1>2, <1>4, MinOfIDs DEF Served
<1> QED
  BY <1>3, <1>4

(* What is there since the beginning of an operation is there.             *)
LEMMA SinceThere ==
    ASSUME NEW r \in Reading PROVE Since(r, items) \subseteq There /\ There \subseteq IDs
BY DEF Since, There, Reading

(* An operation that goes on as it was, or fails with a code that claims   *)
(* nothing.                                                                *)
LEMMA RepeatOK ==
    ASSUME NEW r, ReadOK(r, items), NEW q, q = Repeat(r)
    PROVE  ReadOK(q, items)
<1>1. r \in Reading
  BY DEF ReadOK
<1>2. /\ Kept(q, r) /\ q.pc = r.pc /\ q.start = r.start /\ q.next = r.next
      /\ q.found = r.found /\ q.res = r.res /\ q.got = r.got /\ q.twice = r.twice /\ q.bad = r.bad
  BY <1>1, ReadRepeats
<1>3. Since(q, items) = Since(r, items)
  BY <1>2 DEF Since, Kept
<1> QED
  BY <1>2, <1>3 DEF ReadOK, ListOK, LookupOK, ListedBelow, NoneMatches, Kept

LEMMA FailOK ==
    ASSUME NEW r, ReadOK(r, items), NEW code, NEW q, q = Fail(r, code),
           GetUserError(code) \notin {"SubnetFindFailed", "SecurityGroupFindFailed"}
    PROVE  ReadOK(q, items)
<1>1. r \in Reading
  BY DEF ReadOK
<1>2. /\ Kept(q, r) /\ q.pc = "done" /\ q.res = GetUserError(code) /\ q.found = r.found /\ q.twice = r.twice
  BY <1>1, ReadFails
<1>3. q.res # "ok"
  BY <1>2, FailedCode
<1> QED
  BY <1>2, <1>3 DEF ReadOK, ListOK, LookupOK, Kept

LEMMA OtherFailures ==
    ASSUME NEW o \in Lists \cup Lookups
    PROVE  /\ GetUserError(ListFailed[o]) \notin {"SubnetFindFailed", "SecurityGroupFindFailed"}
           /\ o \in Lists =>
                 /\ GetUserError(StartMissing[o]) \notin {"SubnetFindFailed", "SecurityGroupFindFailed"}
                 /\ GetUserError(InvalidLimit[o]) \notin {"SubnetFindFailed", "SecurityGroupFindFailed"}
BY DEF GetUserError, ListFailed, StartMissing, InvalidLimit, Lists, Lookups

--------------------------------------------------------------------------------
(* The lists.                                                              *)
LEMMA ListedPageOK ==
    ASSUME NEW r, ReadOK(r, items), r.pc = "list", NEW a \in RequestPage(r), ~IsErr(a.err),
           NEW q, q = ListedPage(r, a)
    PROVE  ReadOK(q, items)
<1>1. /\ r \in Reading /\ r.op \in Lists /\ ~r.twice /\ r.found = None
      /\ r.got \subseteq IDs /\ r.start \in 0 .. LastID
  BY DEF ReadOK, ListOK, Reading
<1>2. Served(a, r.start, IDs)
  BY <1>1, PageServed
<1>3. /\ Since(r, items) \subseteq There /\ There \subseteq IDs /\ a.page \subseteq IDs
      /\ a.link \in IDs \cup {NoLink, BadLink}
  BY <1>1, <1>2, SinceThere DEF Served
<1>4. r.got \cap a.page = {}
  <2>1. CASE r.start = NoLink
    BY <2>1 DEF ReadOK, ListOK
  <2>2. CASE r.start # NoLink
    <3>1. ASSUME NEW x \in r.got, x \in a.page PROVE FALSE
      <4>1. x < r.start /\ x \in Nat /\ r.start \in Nat
        BY <1>1, <2>2, <3>1, IDsAreNumbers DEF ReadOK, ListOK, ListedBelow
      <4>2. x >= r.start
        BY <1>2, <3>1 DEF Served
      <4> QED
        BY <4>1, <4>2
    <3> QED
      BY <3>1
  <2> QED
    BY <2>1, <2>2
<1>5. NextToken(a) \in 0 .. LastID
  BY <1>3, IDsAreNumbers DEF NextToken, NoLink
<1>6. /\ q \in Reading /\ q.op = r.op /\ q.pc = "done" /\ q.res = "ok" /\ q.next = NextToken(a)
      /\ q.found = r.found /\ q.got = r.got \cup a.page /\ q.atStart = r.atStart
      /\ q.start = r.start /\ ~q.twice /\ (a.link = BadLink => q.bad)
  <2> DEFINE c == [r EXCEPT !.next = NextToken(a), !.got = r.got \cup a.page,
                            !.twice = r.twice \/ (r.got \cap a.page # {}),
                            !.bad = r.bad \/ a.link = BadLink]
  <2>1. q = Return(c, "ok")
    BY <1>1 DEF ListedPage, Reading
  <2>2. c \in Reading
    BY <1>1, <1>3, <1>5 DEF Reading
  <2>3. /\ c.op = r.op /\ c.next = NextToken(a) /\ c.found = r.found /\ c.got = r.got \cup a.page
        /\ c.atStart = r.atStart /\ c.start = r.start
    BY <1>1 DEF Reading
  <2>4. ~c.twice
    BY <1>1, <1>4 DEF Reading
  <2>5. a.link = BadLink => c.bad
    BY <1>1 DEF Reading
  <2> HIDE DEF c
  <2> QED
    BY <2>1, <2>2, <2>3, <2>4, <2>5, CodeNames, ReadReturns DEF Kept
<1>7. Since(q, items) = Since(r, items)
  BY <1>6 DEF Since
<1>8. ASSUME NEW x \in Since(r, items), x < r.start PROVE x \in r.got
  <2>1. r.start # NoLink
    BY <1>3, <1>8, IDsAreNumbers DEF NoLink
  <2> QED
    BY <1>8, <2>1 DEF ReadOK, ListOK, ListedBelow
<1>9. ASSUME NEW x \in Since(r, items), x >= r.start PROVE x \in There \cap IDs
  BY <1>3
<1>10. r.start \in Nat /\ \A x \in Since(r, items) : x \in Nat
  BY <1>1, <1>3, IDsAreNumbers
<1>11. ASSUME q.next # NoLink PROVE ListedBelow(q, items, q.next) /\ q.start < q.next
  <2>1. a.link \notin {NoLink, BadLink} /\ q.next = a.link /\ a.link \in Nat
    BY <1>3, <1>6, <1>11, IDsAreNumbers DEF NextToken
  <2>2. ASSUME NEW x \in r.got PROVE x < a.link
    <3>1. r.start # NoLink /\ x \in Nat
      BY <1>1, IDsAreNumbers DEF ReadOK, ListOK
    <3>2. x < r.start
      BY <3>1 DEF ReadOK, ListOK, ListedBelow
    <3>3. a.link > r.start
      BY <1>2, <2>1 DEF Served
    <3> QED
      BY <1>10, <2>1, <3>1, <3>2, <3>3
  <2>3. \A x \in a.page : x < a.link
    BY <1>2, <2>1 DEF Served
  <2>4. ASSUME NEW x \in Since(r, items), x < a.link PROVE x \in q.got
    BY <1>2, <1>6, <1>8, <1>9, <1>10, <2>1, <2>4 DEF Served
  <2>5. q.start < q.next
    BY <1>2, <1>6, <1>10, <2>1 DEF Served
  <2> QED
    BY <1>6, <1>7, <2>1, <2>2, <2>3, <2>4, <2>5 DEF ListedBelow
<1>12. ASSUME q.next = NoLink, ~q.bad, NEW x \in Since(r, items) PROVE x \in q.got
  <2>1. a.link = NoLink
    BY <1>3, <1>6, <1>12 DEF NextToken
  <2> QED
    BY <1>2, <1>6, <1>8, <1>9, <1>10, <2>1 DEF Served
<1>13. ListOK(q, items)
  BY <1>1, <1>6, <1>7, <1>11, <1>12 DEF ListOK
<1>14. LookupOK(q, items)
  BY <1>1, <1>6 DEF LookupOK, Lists
<1> QED
  BY <1>6, <1>13, <1>14 DEF ReadOK

LEMMA ListAttemptStep ==
    ASSUME ReadInv, NEW s \in Readers, ListAttempt(s)
    PROVE  ReadInv'
<1> DEFINE r == read[s]
<1>1. ReadOK(r, items) /\ r.pc = "list" /\ r.op \in Lists
  BY DEF ReadInv, ListAttempt, ReadOK, ListOK
<1>2. PICK a \in RequestPage(r) :
         /\ Receive(a)
         /\ read' = [read EXCEPT ![s] =
               Attempted(r, "retry", a.err, FALSE, ListedPage(r, a),
                         Fail(r, IF a.err = StartInvalid THEN StartMissing[r.op]
                                 ELSE ListFailed[r.op]))]
  BY DEF ListAttempt
<1> DEFINE q == Attempted(r, "retry", a.err, FALSE, ListedPage(r, a),
                          Fail(r, IF a.err = StartInvalid THEN StartMissing[r.op]
                                  ELSE ListFailed[r.op]))
<1>3. \/ q = Repeat(r)
      \/ \E code \in {StartMissing[r.op], ListFailed[r.op]} : q = Fail(r, code)
      \/ ~IsErr(a.err) /\ q = ListedPage(r, a)
  BY DEF Attempted
<1> HIDE DEF q
<1>4. ReadOK(q, items)
  BY <1>1, <1>3, RepeatOK, FailOK, OtherFailures, ListedPageOK
<1> QED
  BY <1>2, <1>4, ReadOwn DEF Receive, q

LEMMA FollowTokenStep ==
    ASSUME ReadInv, NEW s \in Readers, FollowToken(s)
    PROVE  ReadInv'
<1> DEFINE r == read[s]
           c == [r EXCEPT !.start = r.next, !.next = NoLink, !.res = "none"]
           q == Enter(c, "list")
<1>1. ReadOK(r, items) /\ r \in Reading /\ r.op \in Lists /\ r.res = "ok" /\ r.next # NoLink
  BY DEF ReadInv, FollowToken, ReadOK
<1>2. read' = [read EXCEPT ![s] = q] /\ items' = items
  BY DEF FollowToken, ReadInv, pagedVars
<1>3. /\ c \in Reading /\ c.op = r.op /\ c.start = r.next /\ c.next = NoLink /\ c.res = "none"
      /\ c.got = r.got /\ c.atStart = r.atStart /\ c.found = r.found /\ c.twice = r.twice
  BY <1>1, IDsAreNumbers, CodeNames DEF Reading, NoLink
<1> HIDE DEF c
<1>4. /\ q \in Reading /\ q.op = r.op /\ q.start = r.next /\ q.next = NoLink /\ q.res = "none"
      /\ q.got = r.got /\ q.atStart = r.atStart /\ q.found = r.found /\ q.twice = r.twice
      /\ q.pc = "list"
  BY <1>3, ReadEnters DEF Kept
<1> HIDE DEF q
<1>5. Since(q, items) = Since(r, items)
  BY <1>4 DEF Since
<1>6. ListedBelow(q, items, q.start)
  BY <1>1, <1>4, <1>5 DEF ReadOK, ListOK, ListedBelow
<1>7. r.found = None
  BY <1>1 DEF ReadOK, ListOK
<1>8. ReadOK(q, items)
  BY <1>1, <1>4, <1>6, <1>7 DEF ReadOK, ListOK, LookupOK, Lists
<1> QED
  BY <1>2, <1>8, ReadOwn

--------------------------------------------------------------------------------
(* The lookups.                                                            *)
LEMMA FoundOK ==
    ASSUME NEW r, ReadOK(r, items), NEW x \in There \cap Matching, NEW q,
           q = Return([r EXCEPT !.found = x], "ok"), r.op \notin Lists
    PROVE  ReadOK(q, items)
<1> DEFINE c == [r EXCEPT !.found = x]
<1>1. r \in Reading /\ x \in IDs /\ items[x] = "there"
  BY DEF ReadOK, There
<1>2. c \in Reading /\ c.op = r.op /\ c.atStart = r.atStart /\ c.found = x
  BY <1>1 DEF Reading
<1>3. q = Return(c, "ok")
  OBVIOUS
<1> HIDE DEF c
<1>4. /\ q \in Reading /\ q.op = r.op /\ q.atStart = r.atStart /\ q.found = x
      /\ q.pc = "done" /\ q.res = "ok"
  BY <1>2, <1>3, CodeNames, ReadReturns DEF Kept
<1>5. x # None
  BY <1>1, NoneIsNoID
<1> QED
  BY <1>1, <1>4, <1>5 DEF ReadOK, ListOK, LookupOK

LEMMA ScanPageOK ==
    ASSUME NEW r, ReadOK(r, items), r.pc = "pages", NEW a \in RequestPage(r), ~IsErr(a.err),
           NEW q, q = ScanPage(r, a)
    PROVE  ReadOK(q, items)
<1>1. /\ r \in Reading /\ r.op \in Lookups /\ r.op \notin Lists /\ r.found = None /\ r.res = "none"
      /\ r.start \in 0 .. LastID
  BY DEF ReadOK, LookupOK, Reading, Lookups, Lists
<1>2. Served(a, r.start, IDs)
  BY <1>1, PageServed
<1>3. /\ Since(r, items) \subseteq There /\ There \subseteq IDs /\ a.page \subseteq There
      /\ a.link \in IDs \cup {NoLink, BadLink}
  BY <1>1, <1>2, SinceThere DEF Served
<1>4. r.start \in Nat /\ \A x \in Since(r, items) : x \in Nat
  BY <1>1, <1>3, IDsAreNumbers
<1>5. CASE a.page \cap Matching # {}
  <2>1. Min(a.page \cap Matching) \in There \cap Matching
    BY <1>3, <1>5, MinOfIDs
  <2>2. q = Return([r EXCEPT !.found = Min(a.page \cap Matching)], "ok")
    BY <1>5 DEF ScanPage
  <2> QED
    BY <1>1, <2>1, <2>2, FoundOK
<1>6. CASE a.page \cap Matching = {} /\ a.link = NoLink
  <2>1. q = Fail(r, FindFailed[r.op])
    BY <1>6 DEF ScanPage
  <2>2. ASSUME NEW x \in Since(r, items), x \in Matching PROVE FALSE
    <3>1. ~(x < r.start)
      BY <2>2 DEF ReadOK, LookupOK
    <3>2. x \in a.page
      BY <1>2, <1>3, <1>4, <1>6, <3>1 DEF Served
    <3> QED
      BY <1>6, <2>2, <3>2
  <2>3. /\ q \in Reading /\ q.op = r.op /\ q.atStart = r.atStart /\ q.pc = "done"
        /\ q.found = None /\ q.res # "ok"
    BY <1>1, <2>1, ReadFails, FailedCode DEF Kept
  <2>4. NoneMatches(q, items)
    BY <2>2, <2>3 DEF NoneMatches, Since
  <2> QED
    BY <1>1, <2>3, <2>4 DEF ReadOK, ListOK, LookupOK, NoneMatches
<1>7. CASE a.page \cap Matching = {} /\ a.link = BadLink
  <2> DEFINE c == [r EXCEPT !.bad = TRUE]
  <2>1. q = Fail(c, FindFailed[r.op])
    BY <1>7 DEF ScanPage, NoLink, BadLink
  <2>2. c \in Reading /\ c.op = r.op /\ c.atStart = r.atStart /\ c.found = None
    BY <1>1 DEF Reading
  <2>3. c.bad /\ c.start = r.start
    BY <1>1 DEF Reading
  <2> HIDE DEF c
  <2>4. /\ q \in Reading /\ q.op = r.op /\ q.atStart = r.atStart /\ q.pc = "done"
        /\ q.found = None /\ q.res # "ok" /\ q.bad /\ q.start = r.start
    BY <2>1, <2>2, <2>3, ReadFails, FailedCode DEF Kept
  <2>5. \A x \in Since(q, items) : x < q.start => x \notin Matching
    BY <2>4 DEF ReadOK, LookupOK, Since
  <2> QED
    BY <1>1, <2>4, <2>5 DEF ReadOK, ListOK, LookupOK
<1>8. CASE a.page \cap Matching = {} /\ a.link \notin {NoLink, BadLink}
  <2>1. q = [r EXCEPT !.start = a.link]
    BY <1>8 DEF ScanPage
  <2>2. a.link \in 0 .. LastID /\ a.link \in Nat
    BY <1>3, <1>8, IDsAreNumbers
  <2>3. /\ q \in Reading /\ q.op = r.op /\ q.atStart = r.atStart /\ q.pc = "pages"
        /\ q.found = None /\ q.res = "none" /\ q.start = a.link
    BY <1>1, <2>1, <2>2 DEF Reading
  <2>4. ASSUME NEW x \in Since(r, items), x < a.link, x \in Matching PROVE FALSE
    <3>1. ~(x < r.start)
      BY <2>4 DEF ReadOK, LookupOK
    <3>2. x \in a.page
      BY <1>2, <1>3, <1>4, <1>8, <2>4, <3>1 DEF Served
    <3> QED
      BY <1>8, <2>4, <3>2
  <2>5. Since(q, items) = Since(r, items)
    BY <2>3 DEF Since
  <2> QED
    BY <1>1, <2>3, <2>4, <2>5 DEF ReadOK, ListOK, LookupOK
<1> QED
  BY <1>3, <1>5, <1>6, <1>7, <1>8

LEMMA LookupPageStep ==
    ASSUME ReadInv, NEW s \in Readers, LookupPage(s)
    PROVE  ReadInv'
<1> DEFINE r == read[s]
<1>1. ReadOK(r, items) /\ r.pc = "pages" /\ r.op \in Lookups
  BY DEF ReadInv, LookupPage, ReadOK, LookupOK
<1>2. PICK a \in RequestPage(r) :
         /\ Receive(a)
         /\ read' = [read EXCEPT ![s] = IF IsErr(a.err) THEN Fail(r, ListFailed[r.op]) ELSE ScanPage(r, a)]
  BY DEF LookupPage, ReadInv
<1> DEFINE q == IF IsErr(a.err) THEN Fail(r, ListFailed[r.op]) ELSE ScanPage(r, a)
<1>3. (q = Fail(r, ListFailed[r.op])) \/ (~IsErr(a.err) /\ q = ScanPage(r, a))
  OBVIOUS
<1> HIDE DEF q
<1>4. ReadOK(q, items)
  BY <1>1, <1>3, FailOK, OtherFailures, ScanPageOK
<1> QED
  BY <1>2, <1>4, ReadOwn DEF Receive, q

LEMMA GetVolumeByNameStep ==
    ASSUME ReadInv, NEW s \in Readers, GetVolumeByNameAttempt(s)
    PROVE  ReadInv'
<1> DEFINE r == read[s]
           found(a) == Return([r EXCEPT !.found = IF a.page = {} THEN None ELSE Min(a.page)], "ok")
           failed   == Fail(r, "StorageFindFailedWithVolumeName")
<1>1. /\ ReadOK(r, items) /\ r \in Reading /\ r.pc = "byName" /\ r.op = "GetVolumeByName"
      /\ r.op \notin Lists /\ r.found = None
  BY DEF ReadInv, GetVolumeByNameAttempt, ReadOK, LookupOK, Lists
<1>2. PICK a \in GetFileShareByName :
         Receive(a) /\ read' = [read EXCEPT ![s] = Attempted(r, "retry", a.err, FALSE, found(a), failed)]
  BY DEF GetVolumeByNameAttempt, ReadInv
<1> DEFINE q == Attempted(r, "retry", a.err, FALSE, found(a), failed)
<1>3. q = Repeat(r) \/ q = failed \/ (~IsErr(a.err) /\ q = found(a))
  BY DEF Attempted
<1> HIDE DEF q
<1>4. ASSUME q = Repeat(r) PROVE ReadOK(q, items)
  BY <1>1, <1>4, RepeatOK
<1>5. ASSUME q = failed PROVE ReadOK(q, items)
  <2>1. GetUserError("StorageFindFailedWithVolumeName") \notin {"SubnetFindFailed", "SecurityGroupFindFailed"}
    BY DEF GetUserError
  <2> QED
    BY <1>1, <1>5, <2>1, FailOK
<1>6. ASSUME ~IsErr(a.err), q = found(a) PROVE ReadOK(q, items)
  <2>1. /\ a.page = {} => \A x \in There : x \notin Matching
        /\ a.page # {} => Min(a.page) \in There \cap Matching
    BY <1>6, NamedServed DEF GetFileShareByName
  <2>2. CASE a.page # {}
    BY <1>1, <1>6, <2>1, <2>2, FoundOK
  <2>3. CASE a.page = {}
    <3>1. [r EXCEPT !.found = None] = r
      BY <1>1 DEF Reading
    <3>2. q = Return(r, "ok")
      BY <1>6, <2>3, <3>1
    <3>3. /\ q \in Reading /\ q.op = r.op /\ q.atStart = r.atStart /\ q.pc = "done"
          /\ q.found = None /\ q.res = "ok"
      BY <1>1, <3>2, CodeNames, ReadReturns DEF Kept
    <3>4. NoneMatches(q, items)
      BY <1>1, <2>1, <2>3, <3>3, SinceThere DEF NoneMatches, Since
    <3> QED
      BY <1>1, <3>3, <3>4 DEF ReadOK, ListOK, LookupOK
  <2> QED
    BY <2>2, <2>3
<1>7. ReadOK(q, items)
  BY <1>3, <1>4, <1>5, <1>6
<1> QED
  BY <1>2, <1>7, ReadOwn DEF Receive, q

--------------------------------------------------------------------------------
(* The calls.                                                              *)
LEMMA BeginStep ==
    ASSUME ReadInv, NEW s \in Readers, NEW r, BeginRead(s, r), Fresh(r), r.res # "ok",
           r.res \notin {"SubnetFindFailed", "SecurityGroupFindFailed"},
           r.pc = "list" => r.op \in Lists /\ r.res = "none",
           r.pc = "pages" => r.op \in Lookups /\ r.res = "none",
           r.pc = "byName" => r.op = "GetVolumeByName" /\ r.res = "none"
    PROVE  ReadInv'
<1> DEFINE q == [r EXCEPT !.atStart = There]
<1>1. ReadOK(q, items)
  BY FreshOK
<1> QED
  BY <1>1, ReadOwn DEF BeginRead, pagedVars

LEMMA FreshEnters ==
    ASSUME NEW r, Fresh(r), NEW l \in {"list", "pages", "byName"}, NEW q, q = Enter(r, l)
    PROVE  Fresh(q) /\ q.pc = l /\ q.op = r.op /\ q.res = r.res
BY ReadEnters DEF Fresh, Kept

LEMMA FreshFails ==
    ASSUME NEW r, Fresh(r), NEW code, NEW q, q = Fail(r, code)
    PROVE  Fresh(q) /\ q.pc = "done" /\ q.op = r.op /\ q.res = GetUserError(code) /\ q.res # "ok"
BY ReadFails, FailedCode DEF Fresh, Kept

Begun(o) == [IdleRead EXCEPT !.op = o]

LEMMA BegunIsFresh ==
    ASSUME NEW o \in Lists \cup Lookups \cup {"GetVolumeByName", "GetVolumeProfileByName"}
    PROVE  Fresh(Begun(o)) /\ Begun(o).op = o /\ Begun(o).pc = "idle" /\ Begun(o).res = "none"
BY IdleIsFresh DEF Fresh, Begun, Reading

LEMMA ListStep ==
    ASSUME ReadInv, NEW s \in Readers, NEW o \in Lists, NEW limit \in Limits, List(s, o, limit)
    PROVE  ReadInv'
<1> DEFINE b == Begun(o)
           q == CheckedLimit(b, limit)
<1>1. Fresh(b) /\ b.op = o /\ b.res = "none" /\ BeginRead(s, q) /\ limit \in Int
  BY BegunIsFresh, ListingAssumption DEF List, Begun
<1> HIDE DEF b
<1>2. CASE limit < 0
  <2>1. q = Fail(b, InvalidLimit[o])
    BY <1>1, <1>2 DEF CheckedLimit
  <2>2. Fresh(q) /\ q.pc = "done" /\ q.res # "ok" /\ q.res = GetUserError(InvalidLimit[o])
    BY <1>1, <2>1, FreshFails
  <2> HIDE DEF q
  <2> QED
    BY <1>1, <2>2, OtherFailures, BeginStep
<1>3. CASE ~(limit < 0)
  <2> DEFINE n == IF limit > maxLimit THEN maxLimit ELSE limit
             c == [b EXCEPT !.limit = n]
  <2>1. q = Enter(c, "list") /\ n \in 0 .. maxLimit
    BY <1>1, <1>3, PagedAssumption DEF CheckedLimit
  <2> HIDE DEF n
  <2>2. Fresh(c) /\ c.op = o /\ c.res = "none"
    BY <1>1, <2>1 DEF Fresh, Reading
  <2> HIDE DEF c
  <2>3. Fresh(q) /\ q.pc = "list" /\ q.op = o /\ q.res = "none"
    BY <2>1, <2>2, FreshEnters
  <2> HIDE DEF q
  <2> QED
    BY <1>1, <2>3, BeginStep
<1> QED
  BY <1>2, <1>3

LEMMA LookupStep ==
    ASSUME ReadInv, NEW s \in Readers, NEW o \in Lookups, Lookup(s, o)
    PROVE  ReadInv'
<1> DEFINE q == Enter(Begun(o), "pages")
<1>1. Fresh(q) /\ q.pc = "pages" /\ q.op = o /\ q.res = "none"
  BY BegunIsFresh, FreshEnters
<1>2. BeginRead(s, q)
  BY DEF Lookup, Begun
<1> HIDE DEF q
<1> QED
  BY <1>1, <1>2, BeginStep

LEMMA NamedStep ==
    ASSUME ReadInv, NEW s \in Readers, NEW named \in BOOLEAN, GetVolumeByName(s, named)
    PROVE  ReadInv'
<1> DEFINE b == Begun("GetVolumeByName")
           q == IF named THEN Enter(b, "byName") ELSE Fail(b, "InvalidVolumeName")
<1>1. Fresh(b) /\ b.op = "GetVolumeByName" /\ b.res = "none" /\ BeginRead(s, q)
  BY BegunIsFresh DEF GetVolumeByName, Begun
<1> HIDE DEF b
<1>2. CASE named
  <2>1. Fresh(q) /\ q.pc = "byName" /\ q.op = "GetVolumeByName" /\ q.res = "none"
    BY <1>1, <1>2, FreshEnters
  <2> HIDE DEF q
  <2> QED
    BY <1>1, <2>1, BeginStep
<1>3. CASE ~named
  <2>1. Fresh(q) /\ q.pc = "done" /\ q.res # "ok" /\ q.res = GetUserError("InvalidVolumeName")
    BY <1>1, <1>3, FreshFails
  <2>2. GetUserError("InvalidVolumeName") \notin {"SubnetFindFailed", "SecurityGroupFindFailed"}
    BY DEF GetUserError
  <2> HIDE DEF q
  <2> QED
    BY <1>1, <2>1, <2>2, BeginStep
<1> QED
  BY <1>2, <1>3

LEMMA ProfileStep ==
    ASSUME ReadInv, NEW s \in Readers, GetVolumeProfileByName(s)
    PROVE  ReadInv'
<1> DEFINE b == Begun("GetVolumeProfileByName")
           r == [b EXCEPT !.atStart = There]
<1>1. Fresh(b) /\ b.op = "GetVolumeProfileByName" /\ b.res = "none" /\ b.pc = "idle"
  BY BegunIsFresh
<1>2. PICK a \in GetShareProfile :
         /\ Receive(a)
         /\ read' = [read EXCEPT ![s] =
               IF IsErr(a.err) \/ a.page = {} THEN Return(r, "backend")
               ELSE Return([r EXCEPT !.found = Min(a.page)], "ok")]
  BY DEF GetVolumeProfileByName, Begun
<1> HIDE DEF b
<1>3. ReadOK(r, items)
  BY <1>1, FreshOK
<1>4. r \in Reading /\ r.op = "GetVolumeProfileByName" /\ r.op \notin Lists /\ r.found = None
  BY <1>1, <1>3 DEF ReadOK, Fresh, Reading, Lists
<1> HIDE DEF r
<1>5. CASE IsErr(a.err) \/ a.page = {}
  <2> DEFINE q == Return(r, "backend")
  <2>1. q \in Reading /\ q.op = r.op /\ q.atStart = r.atStart /\ q.pc = "done" /\ q.found = None
        /\ q.res = "backend"
    BY <1>4, CodeNames, ReadReturns DEF Kept
  <2>2. read' = [read EXCEPT ![s] = q]
    BY <1>2, <1>5
  <2> HIDE DEF q
  <2>3. ReadOK(q, items)
    BY <1>3, <1>4, <2>1 DEF ReadOK, ListOK, LookupOK
  <2> QED
    BY <1>2, <2>2, <2>3, ReadOwn DEF Receive
<1>6. CASE ~IsErr(a.err) /\ a.page # {}
  <2> DEFINE q == Return([r EXCEPT !.found = Min(a.page)], "ok")
  <2>1. Min(a.page) \in There \cap Matching
    BY <1>6, NamedServed DEF GetShareProfile
  <2>2. ReadOK(q, items)
    BY <1>3, <1>4, <2>1, FoundOK
  <2>3. read' = [read EXCEPT ![s] = q]
    BY <1>2, <1>6
  <2> QED
    BY <1>2, <2>2, <2>3, ReadOwn DEF Receive
<1> QED
  BY <1>5, <1>6

(* Others add items that were never there, and remove items for good.      *)
LEMMA OthersStep ==
    ASSUME ReadInv, OthersChange, read' = read
    PROVE  ReadInv'
<1>1. /\ items' \in [IDs -> {"unused", "there", "removed"}]
      /\ \A x \in IDs : items[x] # "unused" => items'[x] # "unused"
      /\ \A x \in IDs : items'[x] = "there" => items[x] \in {"there", "unused"}
  BY DEF ReadInv, OthersChange, OthersAdd, OthersRemove
<1>2. ASSUME NEW r, ReadOK(r, items) PROVE ReadOK(r, items')
  <2>1. r \in Reading /\ r.atStart \subseteq IDs /\ \A x \in r.atStart : items[x] # "unused"
    BY <1>2 DEF ReadOK, Reading
  <2>2. Since(r, items') \subseteq Since(r, items)
    BY <1>1, <2>1 DEF Since
  <2>3. \A n : ListedBelow(r, items, n) => ListedBelow(r, items', n)
    BY <2>2 DEF ListedBelow
  <2>4. ListOK(r, items')
    BY <1>2, <2>2, <2>3 DEF ReadOK, ListOK
  <2>5. NoneMatches(r, items) => NoneMatches(r, items')
    BY <2>2 DEF NoneMatches
  <2>6. ASSUME r.found # None PROVE items'[r.found] # "unused"
    <3>1. r.found \in IDs
      BY <2>1, <2>6, Zenon DEF Reading
    <3>2. items[r.found] # "unused"
      BY <1>2, <2>6 DEF ReadOK, LookupOK
    <3> QED
      BY <1>1, <3>1, <3>2, Zenon
  <2>7. LookupOK(r, items')
    BY <1>2, <2>2, <2>5, <2>6 DEF ReadOK, LookupOK
  <2>8. \A x \in r.atStart : items'[x] # "unused"
    <3>1. \A x \in r.atStart : x \in IDs
      BY <2>1
    <3> QED
      BY <1>1, <2>1, <3>1, Zenon
  <2> QED
    BY <2>1, <2>4, <2>7, <2>8 DEF ReadOK
<1> QED
  BY <1>1, <1>2 DEF ReadInv

LEMMA ReadInitOK == Init => ReadInv
<1> SUFFICES ASSUME Init PROVE ReadInv
  OBVIOUS
<1>1. items \in [IDs -> {"unused", "there", "removed"}]
  BY DEF Init, PagedInit
<1>2. IdleRead \in Reading /\ IdleRead.atStart = {}
  BY IdleIsFresh DEF Fresh, IdleRead
<1>3. ReadOK(IdleRead, items)
  BY <1>2, IdleIsFresh DEF Fresh, ReadOK, ListOK, LookupOK, Lists
<1> QED
  BY <1>1, <1>2, <1>3 DEF ReadInv, Init, ListInit

LEMMA ReadNext == ReadInv /\ [Next]_listVars => ReadInv'
<1> SUFFICES ASSUME ReadInv, [Next]_listVars PROVE ReadInv'
  OBVIOUS
<1>1. ASSUME NEW s \in Readers, ReadStep(s) PROVE ReadInv'
  BY <1>1, ListAttemptStep, FollowTokenStep, LookupPageStep, GetVolumeByNameStep DEF ReadStep
<1>2. ASSUME NEW s \in Readers, ReadCall(s) PROVE ReadInv'
  BY <1>2, ListStep, LookupStep, NamedStep, ProfileStep DEF ReadCall
<1>3. ASSUME OthersChange, UNCHANGED read PROVE ReadInv'
  BY <1>3, OthersStep
<1>4. ASSUME UNCHANGED listVars PROVE ReadInv'
  BY <1>4 DEF listVars, pagedVars, ReadInv
<1> QED
  BY <1>1, <1>2, <1>3, <1>4 DEF Next

(* The inductive invariant of the listings and lookups: what has been seen *)
(* is what lies below the start of the next page.                          *)
THEOREM ReadInvariant == Spec => []ReadInv
BY ReadInitOK, ReadNext, PTL DEF Spec

--------------------------------------------------------------------------------
(* A list that fails met a fault.                                          *)
ListFailures == {"ListVolumesFailed", "ListSnapshotsFailed"}

FailInv ==
    /\ faults \in Nat
    /\ \A s \in Readers : read[s].res \in ListFailures => faults > 0

LEMMA FailureCodes ==
    /\ {"ok", "none", "backend"} \cap ListFailures = {}
    /\ \A o \in Lists :
          /\ GetUserError(StartMissing[o]) \notin ListFailures
          /\ GetUserError(InvalidLimit[o]) \notin ListFailures
    /\ \A o \in Lookups :
          /\ GetUserError(ListFailed[o]) \notin ListFailures
          /\ GetUserError(FindFailed[o]) \notin ListFailures
    /\ GetUserError("StorageFindFailedWithVolumeName") \notin ListFailures
    /\ GetUserError("InvalidVolumeName") \notin ListFailures
BY DEF ListFailures, GetUserError, StartMissing, InvalidLimit, ListFailed, FindFailed, Lists, Lookups

(* The service refuses a start only: the limits of the lists are in range. *)
LEMMA ListErrors ==
    ASSUME NEW r \in Reading, r.op \in Lists, NEW a \in RequestPage(r), IsErr(a.err),
           a.err # StartInvalid
    PROVE  a.fault = TRUE
<1> DEFINE b == ServicePage(r.limit, r.start, IDs)
<1>1. r.limit \in 0 .. maxLimit /\ a \in InvokePage(b)
  BY DEF Reading, RequestPage, ListFileShares, ListSnapshotsPage, Lists
<1>2. \/ b = Reply(StartInvalid, {}, NoLink, FALSE)
      \/ \E page, link : b = Reply(NoError, page, link, FALSE)
  BY <1>1, Zenon DEF ServicePage
<1> HIDE DEF b
<1>3. ~IsErr(b.err) \/ b.err = StartInvalid
  BY <1>2 DEF Reply, IsErr, NoError
<1>4. CASE a = b
  BY <1>3, <1>4
<1>5. CASE a = [b EXCEPT !.link = BadLink, !.fault = TRUE]
  BY <1>2, <1>5 DEF Reply
<1>6. CASE \E e \in FaultErrors : a = Reply(e, {}, NoLink, TRUE)
  BY <1>6 DEF Reply
<1> QED
  BY <1>1, <1>4, <1>5, <1>6 DEF InvokePage

(* A step of a reader after which its operation is q.                      *)
LEMMA FailOwn ==
    ASSUME ReadInv, FailInv, NEW s \in Readers, NEW q, read' = [read EXCEPT ![s] = q],
           faults' \in Nat, faults' >= faults,
           q.res \in ListFailures => q.res = read[s].res \/ faults' > 0
    PROVE  FailInv'
BY DEF ReadInv, FailInv

LEMMA Received ==
    ASSUME FailInv, NEW a, Receive(a)
    PROVE  faults' \in Nat /\ faults' >= faults /\ (a.fault = TRUE => faults' > 0)
BY DEF FailInv, Receive

LEMMA FailNext == ReadInv /\ FailInv /\ [Next]_listVars => FailInv'
<1> SUFFICES ASSUME ReadInv, FailInv, [Next]_listVars PROVE FailInv'
  OBVIOUS
<1>1. ASSUME NEW s \in Readers PROVE ReadOK(read[s], items) /\ read[s] \in Reading
  BY DEF ReadInv, ReadOK
<1>2. ASSUME NEW s \in Readers, ListAttempt(s) PROVE FailInv'
  <2> DEFINE r == read[s]
  <2>1. r.op \in Lists /\ r \in Reading
    BY <1>1, <1>2 DEF ListAttempt, ReadOK, ListOK
  <2>2. PICK a \in RequestPage(r) :
           /\ Receive(a)
           /\ read' = [read EXCEPT ![s] =
                 Attempted(r, "retry", a.err, FALSE, ListedPage(r, a),
                           Fail(r, IF a.err = StartInvalid THEN StartMissing[r.op]
                                   ELSE ListFailed[r.op]))]
    BY <1>2 DEF ListAttempt
  <2> DEFINE q == Attempted(r, "retry", a.err, FALSE, ListedPage(r, a),
                            Fail(r, IF a.err = StartInvalid THEN StartMissing[r.op]
                                    ELSE ListFailed[r.op]))
  <2>3. \/ q = Repeat(r)
        \/ q = ListedPage(r, a)
        \/ q = Fail(r, StartMissing[r.op])
        \/ IsErr(a.err) /\ a.err # StartInvalid
    BY DEF Attempted
  <2>4. read' = [read EXCEPT ![s] = q]
    BY <2>2
  <2> HIDE DEF q
  <2>5. q.res \in ListFailures => q.res = r.res \/ faults' > 0
    <3>1. CASE q = Repeat(r)
      BY <2>1, <3>1, ReadRepeats
    <3>2. CASE q = ListedPage(r, a)
      BY <2>1, <3>2, FailureCodes DEF ListedPage, Return, Reading
    <3>3. CASE q = Fail(r, StartMissing[r.op])
      BY <2>1, <3>3, ReadFails, FailureCodes
    <3>4. CASE IsErr(a.err) /\ a.err # StartInvalid
      BY <2>1, <2>2, <3>4, ListErrors, Received
    <3> QED
      BY <2>3, <3>1, <3>2, <3>3, <3>4
  <2> QED
    BY <2>2, <2>4, <2>5, Received, FailOwn
<1>3. ASSUME NEW s \in Readers, FollowToken(s) PROVE FailInv'
  <2> DEFINE r == read[s]
             q == Enter([r EXCEPT !.start = r.next, !.next = NoLink, !.res = "none"], "list")
  <2>1. read' = [read EXCEPT ![s] = q] /\ q.res = "none" /\ faults' = faults
    BY <1>1, <1>3 DEF FollowToken, Enter, ReadInv, Reading, pagedVars
  <2> HIDE DEF q
  <2> QED
    BY <2>1, FailureCodes, FailOwn DEF FailInv
<1>4. ASSUME NEW s \in Readers, LookupPage(s) PROVE FailInv'
  <2> DEFINE r == read[s]
  <2>1. r.op \in Lookups /\ r \in Reading /\ r.res = "none"
    BY <1>1, <1>4 DEF LookupPage, ReadOK, LookupOK
  <2>2. PICK a \in RequestPage(r) :
           /\ Receive(a)
           /\ read' = [read EXCEPT ![s] = IF IsErr(a.err) THEN Fail(r, ListFailed[r.op]) ELSE ScanPage(r, a)]
    BY <1>4 DEF LookupPage, ReadInv
  <2> DEFINE q == IF IsErr(a.err) THEN Fail(r, ListFailed[r.op]) ELSE ScanPage(r, a)
  <2>3. q.res \notin ListFailures
    <3>1. CASE IsErr(a.err)
      BY <2>1, <3>1, ReadFails, FailureCodes
    <3>2. CASE ~IsErr(a.err)
      <4>1. q = ScanPage(r, a)
        BY <3>2
      <4> HIDE DEF q
      <4>2. q.res \in {"ok", "none", GetUserError(FindFailed[r.op])}
        BY <2>1, <4>1 DEF ScanPage, Fail, Return, Reading
      <4> QED
        BY <2>1, <4>2, FailureCodes
    <3> QED
      BY <3>1, <3>2
  <2>4. read' = [read EXCEPT ![s] = q]
    BY <2>2
  <2> HIDE DEF q
  <2> QED
    BY <2>2, <2>3, <2>4, Received, FailOwn
<1>5. ASSUME NEW s \in Readers, GetVolumeByNameAttempt(s) PROVE FailInv'
  <2> DEFINE r == read[s]
  <2>1. PICK a, q : /\ Receive(a)
                    /\ read' = [read EXCEPT ![s] = q]
                    /\ \/ q = Repeat(r)
                       \/ q = Fail(r, "StorageFindFailedWithVolumeName")
                       \/ \E v : q = Return([r EXCEPT !.found = v], "ok")
    BY <1>1, <1>5 DEF GetVolumeByNameAttempt, Attempted, ReadInv
  <2>2. q.res \in ListFailures => q.res = r.res
    <3>1. CASE q = Repeat(r)
      BY <1>1, <3>1, ReadRepeats
    <3>2. CASE q = Fail(r, "StorageFindFailedWithVolumeName")
      BY <1>1, <3>2, ReadFails, FailureCodes
    <3>3. CASE \E v : q = Return([r EXCEPT !.found = v], "ok")
      BY <1>1, <3>3, FailureCodes DEF Return, Reading
    <3> QED
      BY <2>1, <3>1, <3>2, <3>3
  <2> QED
    BY <2>1, <2>2, Received, FailOwn
<1>6. ASSUME NEW s \in Readers, NEW r \in Reading, BeginRead(s, r), r.res \notin ListFailures
      PROVE  FailInv'
  <2>1. [r EXCEPT !.atStart = There].res = r.res /\ faults' = faults
    BY <1>6 DEF BeginRead, Reading, pagedVars
  <2> QED
    BY <1>6, <2>1, FailOwn DEF BeginRead, FailInv
<1>7. ASSUME NEW s \in Readers, NEW o \in Lists, NEW limit \in Limits, List(s, o, limit) PROVE FailInv'
  <2> DEFINE q == CheckedLimit(Begun(o), limit)
  <2>1. Fresh(Begun(o)) /\ Begun(o).op = o /\ Begun(o).res = "none"
    BY BegunIsFresh
  <2>2. q \in Reading /\ q.res \notin ListFailures
    <3>1. CASE limit < 0
      <4>1. q = Fail(Begun(o), InvalidLimit[o])
        BY <2>1, <3>1 DEF CheckedLimit
      <4>2. Fresh(q) /\ q.res = GetUserError(InvalidLimit[o])
        BY <2>1, <4>1, FreshFails
      <4> HIDE DEF q
      <4> QED
        BY <4>2, FailureCodes DEF Fresh
    <3>2. CASE ~(limit < 0)
      <4> DEFINE n == IF limit > maxLimit THEN maxLimit ELSE limit
                 c == [Begun(o) EXCEPT !.limit = n]
      <4>1. q = Enter(c, "list") /\ n \in 0 .. maxLimit
        BY <3>2, ListingAssumption, PagedAssumption DEF CheckedLimit
      <4> HIDE DEF n
      <4>2. c \in Reading /\ c.res = "none"
        BY <2>1, <4>1 DEF Fresh, Reading
      <4> HIDE DEF c
      <4>3. Kept(q, c) /\ q.res = "none"
        BY <4>1, <4>2, ReadEnters
      <4> HIDE DEF q
      <4> QED
        BY <4>3, FailureCodes DEF Kept
    <3> QED
      BY <3>1, <3>2
  <2>3. BeginRead(s, q)
    BY <1>7 DEF List, Begun
  <2> HIDE DEF q
  <2> QED
    BY <1>6, <2>2, <2>3
<1>8. ASSUME NEW s \in Readers, NEW o \in Lookups, Lookup(s, o) PROVE FailInv'
  <2> DEFINE q == Enter(Begun(o), "pages")
  <2>1. Fresh(q) /\ q.res = "none"
    BY BegunIsFresh, FreshEnters
  <2>2. BeginRead(s, q)
    BY <1>8 DEF Lookup, Begun
  <2> HIDE DEF q
  <2> QED
    BY <1>6, <2>1, <2>2, FailureCodes DEF Fresh
<1>9. ASSUME NEW s \in Readers, NEW named \in BOOLEAN, GetVolumeByName(s, named) PROVE FailInv'
  <2> DEFINE b == Begun("GetVolumeByName")
             q == IF named THEN Enter(b, "byName") ELSE Fail(b, "InvalidVolumeName")
  <2>1. Fresh(b) /\ b.res = "none" /\ BeginRead(s, q)
    BY <1>9, BegunIsFresh DEF GetVolumeByName, Begun
  <2> HIDE DEF b
  <2>2. Fresh(q) /\ q.res \in {"none", GetUserError("InvalidVolumeName")}
    BY <2>1, FreshEnters, FreshFails
  <2> HIDE DEF q
  <2> QED
    BY <1>6, <2>1, <2>2, FailureCodes DEF Fresh
<1>10. ASSUME NEW s \in Readers, GetVolumeProfileByName(s) PROVE FailInv'
  <2> DEFINE r == [IdleRead EXCEPT !.op = "GetVolumeProfileByName", !.atStart = There]
  <2>1. PICK a, q : /\ Receive(a)
                    /\ read' = [read EXCEPT ![s] = q]
                    /\ \/ q = Return(r, "backend")
                       \/ \E v : q = Return([r EXCEPT !.found = v], "ok")
    BY <1>10 DEF GetVolumeProfileByName
  <2>2. q.res \in {"backend", "ok"}
    BY <2>1 DEF Return, IdleRead
  <2> QED
    BY <2>1, <2>2, FailureCodes, Received, FailOwn
<1>11. ASSUME faults' = faults, read' = read PROVE FailInv'
  BY <1>11 DEF FailInv
<1>12. ASSUME NEW s \in Readers, ReadCall(s) PROVE FailInv'
  BY <1>7, <1>8, <1>9, <1>10, <1>12 DEF ReadCall
<1> QED
  BY <1>2, <1>3, <1>4, <1>5, <1>11, <1>12 DEF Next, ReadStep, OthersChange, listVars, pagedVars

(* A list fails with the code of a failed request only after a fault,      *)
(* whatever the limit (ListVolumes, ListSnapshots).                        *)
THEOREM FailInvariant == Spec => []FailInv
<1>1. Init => FailInv
  BY PagedAssumption, FailureCodes
     DEF Init, PagedInit, ListInit, IdleRead, FailInv
<1> QED
  BY <1>1, FailNext, ReadInvariant, PTL DEF Spec

(* A listing that is followed to its last token returns every item that    *)
(* was there all the time, and none twice, and fails only because of a     *)
(* fault (ListVolumes, ListSnapshots).                                     *)
THEOREM CompleteTheorem == Spec => []ListingIsComplete
<1>1. ASSUME ReadInv, FailInv PROVE ListingIsComplete
  <2> SUFFICES ASSUME NEW s \in Readers, read[s].op \in Lists
               PROVE  /\ ~read[s].twice
                      /\ read[s].res = "ok" /\ read[s].next = NoLink /\ ~read[s].bad =>
                            Throughout(s) \subseteq read[s].got
    BY <1>1 DEF ListingIsComplete, FailInv, ListFailures
  <2>1. ReadOK(read[s], items)
    BY <1>1 DEF ReadInv
  <2> QED
    BY <2>1 DEF ReadOK, ListOK, Throughout, Since, There
<1> QED
  BY <1>1, ReadInvariant, FailInvariant, PTL

(* A lookup returns an item that matches, and one that says that there is  *)
(* none has looked at every item that was there all the time, or at those  *)
(* before a malformed link (subnets, security groups, names).              *)
THEOREM LookupTheorem == Spec => []LookupIsTrue
<1>1. ASSUME ReadInv PROVE LookupIsTrue
  <2> SUFFICES ASSUME NEW s \in Readers
               PROVE  /\ read[s].found # None =>
                            read[s].found \in Matching /\ items[read[s].found] # "unused"
                      /\ read[s].res \in {"SubnetFindFailed", "SecurityGroupFindFailed"} =>
                            {x \in Throughout(s) : read[s].bad => x < read[s].start} \cap Matching = {}
                      /\ read[s].op = "GetVolumeByName" /\ read[s].res = "ok" /\ read[s].found = None =>
                            Throughout(s) \cap Matching = {}
    BY DEF LookupIsTrue
  <2>1. ReadOK(read[s], items)
    BY <1>1 DEF ReadInv
  <2>2. NoneMatches(read[s], items) => Throughout(s) \cap Matching = {}
    BY DEF NoneMatches, Throughout, Since, There
  <2>3. Throughout(s) \subseteq Since(read[s], items)
    BY DEF Throughout, Since, There
  <2> QED
    BY <2>1, <2>2, <2>3 DEF ReadOK, LookupOK
<1> QED
  BY <1>1, ReadInvariant, PTL

--------------------------------------------------------------------------------
(* Each page a lookup asks for, and each token a caller follows, begins    *)
(* after the one before, and a retry asks for the same page again.  No     *)
(* start lies beyond LastID, so the loops over pages, which have no bound  *)
(* of their own, ask for finitely many of them.                            *)
PagesLeadFurther ==
    [][\A s \in Readers : read[s].pc # "idle" /\ read'[s].start # read[s].start =>
          read[s].start < read'[s].start /\ read'[s].start <= LastID]_listVars

Further(r, q) == q.start # r.start => r.start < q.start /\ q.start <= LastID

LEMMA ScanLeadsFurther ==
    ASSUME NEW r, ReadOK(r, items), r.pc = "pages", NEW a \in RequestPage(r), ~IsErr(a.err)
    PROVE  Further(r, ScanPage(r, a))
<1>1. r \in Reading /\ r.op \in Lookups
  BY DEF ReadOK, LookupOK
<1>2. Served(a, r.start, IDs)
  BY <1>1, PageServed
<1>3. CASE a.page \cap Matching # {}
  BY <1>1, <1>3 DEF ScanPage, Return, Reading, Further
<1>4. CASE a.page \cap Matching = {} /\ a.link \in {NoLink, BadLink}
  BY <1>1, <1>4 DEF ScanPage, Fail, Return, Reading, Further
<1>5. CASE a.page \cap Matching = {} /\ a.link \notin {NoLink, BadLink}
  <2>1. a.link \in 0 .. LastID /\ r.start \in Nat /\ a.link > r.start
    BY <1>1, <1>2, <1>5, IDsAreNumbers DEF Served, Reading
  <2>2. ScanPage(r, a).start = a.link
    BY <1>1, <1>5 DEF ScanPage, Reading
  <2> QED
    BY <2>1, <2>2, PagedAssumption DEF Further
<1> QED
  BY <1>3, <1>4, <1>5

(* A step of a reader after which its operation is q.                      *)
LEMMA FurtherOwn ==
    ASSUME ReadInv, NEW s \in Readers, NEW q, read' = [read EXCEPT ![s] = q],
           read[s].pc # "idle" => Further(read[s], q)
    PROVE  \A u \in Readers : read[u].pc # "idle" => Further(read[u], read'[u])
BY DEF ReadInv, Further

(* The page loops of the lookups and the callers that follow the tokens of *)
(* ListVolumes and ListSnapshots move on through the collection.           *)
THEOREM FurtherTheorem == Spec => PagesLeadFurther
<1> DEFINE OneStep == \A s \in Readers : read[s].pc # "idle" => Further(read[s], read'[s])
<1>1. ASSUME ReadInv, [Next]_listVars PROVE OneStep
  <2>1. ASSUME NEW s \in Readers PROVE ReadOK(read[s], items) /\ read[s] \in Reading
    BY <1>1 DEF ReadInv, ReadOK
  <2>2. ASSUME NEW s \in Readers, ListAttempt(s) PROVE OneStep
    <3> DEFINE r == read[s]
    <3>1. \E q : /\ read' = [read EXCEPT ![s] = q]
                 /\ \/ q = Repeat(r)
                    \/ \E code : q = Fail(r, code)
                    \/ \E a : q = ListedPage(r, a)
      BY <2>2, Zenon DEF ListAttempt, Attempted
    <3>2. PICK q : /\ read' = [read EXCEPT ![s] = q]
                   /\ \/ q = Repeat(r)
                      \/ \E code : q = Fail(r, code)
                      \/ \E a : q = ListedPage(r, a)
      BY <3>1
    <3>3. q.start = r.start
      BY <2>1, <3>2 DEF Repeat, Fail, ListedPage, Return, Reading
    <3> QED
      BY <1>1, <3>2, <3>3, FurtherOwn DEF Further
  <2>3. ASSUME NEW s \in Readers, FollowToken(s) PROVE OneStep
    <3> DEFINE r == read[s]
               q == Enter([r EXCEPT !.start = r.next, !.next = NoLink, !.res = "none"], "list")
    <3>1. read' = [read EXCEPT ![s] = q] /\ q.start = r.next
      BY <1>1, <2>1, <2>3 DEF FollowToken, Enter, ReadInv, Reading
    <3>2. r.start < r.next /\ r.next <= LastID
      <4>1. r.next \in 0 .. LastID
        BY <2>1 DEF Reading
      <4> QED
        BY <2>1, <2>3, <4>1, PagedAssumption DEF FollowToken, ReadOK, ListOK
    <3> HIDE DEF q
    <3> QED
      BY <1>1, <3>1, <3>2, FurtherOwn DEF Further
  <2>4. ASSUME NEW s \in Readers, LookupPage(s) PROVE OneStep
    <3> DEFINE r == read[s]
    <3>1. PICK a \in RequestPage(r) :
             read' = [read EXCEPT ![s] = IF IsErr(a.err) THEN Fail(r, ListFailed[r.op]) ELSE ScanPage(r, a)]
      BY <1>1, <2>4 DEF LookupPage, ReadInv
    <3> DEFINE q == IF IsErr(a.err) THEN Fail(r, ListFailed[r.op]) ELSE ScanPage(r, a)
    <3>2. CASE IsErr(a.err)
      <4>1. q.start = r.start
        BY <2>1, <3>2, ReadFails
      <4> QED
        BY <1>1, <3>1, <4>1, FurtherOwn DEF Further
    <3>3. CASE ~IsErr(a.err)
      <4>1. Further(r, q)
        BY <2>1, <2>4, <3>3, ScanLeadsFurther DEF LookupPage
      <4> QED
        BY <1>1, <3>1, <4>1, FurtherOwn
    <3> QED
      BY <3>2, <3>3
  <2>5. ASSUME NEW s \in Readers, GetVolumeByNameAttempt(s) PROVE OneStep
    <3> DEFINE r == read[s]
    <3>1. PICK q : /\ read' = [read EXCEPT ![s] = q]
                   /\ \/ q = Repeat(r)
                      \/ \E code : q = Fail(r, code)
                      \/ \E v : q = Return([r EXCEPT !.found = v], "ok")
      BY <1>1, <2>5 DEF GetVolumeByNameAttempt, Attempted, ReadInv
    <3>2. q.start = r.start
      BY <2>1, <3>1 DEF Repeat, Fail, Return, Reading
    <3> QED
      BY <1>1, <3>1, <3>2, FurtherOwn DEF Further
  <2>6. ASSUME NEW s \in Readers, ReadCall(s) PROVE OneStep
    <3>1. read[s].pc = "idle" /\ \E q : read' = [read EXCEPT ![s] = q]
      BY <2>6 DEF ReadCall, List, Lookup, GetVolumeByName, GetVolumeProfileByName, BeginRead
    <3> QED
      BY <1>1, <3>1, FurtherOwn
  <2>7. ASSUME UNCHANGED read PROVE OneStep
    BY <2>7 DEF Further
  <2> QED
    BY <1>1, <2>2, <2>3, <2>4, <2>5, <2>6, <2>7 DEF Next, ReadStep, listVars
<1>2. ReadInv /\ [Next]_listVars =>
        [\A s \in Readers : read[s].pc # "idle" /\ read'[s].start # read[s].start =>
            read[s].start < read'[s].start /\ read'[s].start <= LastID]_listVars
  BY <1>1 DEF Further
<1> QED
  BY <1>2, ReadInvariant, PTL DEF Spec, PagesLeadFurther
================================================================================
