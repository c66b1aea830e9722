----------------------------- MODULE ShareDataProofs -----------------------------
(***************************************************************************)
(* What ExpandVolume and the snapshot operations promise, proved for any   *)
(* number of goroutines and snapshots, all sizes, capacities and limits.   *)
(*                                                                         *)
(* The share only grows and a snapshot only moves onward, from unused to   *)
(* gone.  So what a goroutine has learned stays true while others act      *)
(* (ExpandKeeps, SnapKeeps), and a step is proved by looking at its own    *)
(* goroutine (ExpandOwn, SnapOwn).                                         *)
(***************************************************************************)
EXTENDS ShareData, TLAPS

Shares == [status : {"stable", "updating", "deleting", "gone"},
           size : 1 .. MaxSize, next : 1 .. MaxSize]

(* The size the share has, or is about to have.                            *)
Coming(sh) == IF sh.status = "updating" THEN sh.next ELSE sh.size

Gone(sn) == \A x \in SnapIDs : sn[x].status \in {"unused", "gone"}

(* A state of the service: a resize makes the share larger, and a share    *)
(* takes its snapshots with it.                                            *)
StateOK(sh, sn) ==
    /\ sh \in Shares /\ sn \in [SnapIDs -> Snap]
    /\ sh.status = "updating" => sh.size <= sh.next
    /\ sh.status = "gone" => Gone(sn)

SnapOnward(a, b) ==
    /\ b.status = "unused"   => a.status = "unused"
    /\ b.status = "pending"  => a.status \in {"unused", "pending"}
    /\ b.status = "stable"   => a.status \in {"pending", "stable"}
    /\ b.status = "deleting" => a.status \in {"stable", "deleting"}
    /\ b.status = "gone"     => a.status # "unused"
    /\ a.status = "gone"     => b.status = "gone"
    /\ a.status # "unused"   => b.name = a.name /\ b.min = a.min

(* The service moves from (share, snaps) to (sh, sn).                      *)
Onward(sh, sn) ==
    /\ StateOK(sh, sn)
    /\ share.size <= sh.size /\ Coming(share) <= Coming(sh)
    /\ \A x \in SnapIDs : SnapOnward(snaps[x], sn[x])

--------------------------------------------------------------------------------
Codes == MessagesEn \cup {"", "ok", "none"}

Expand == [pc : ExpandLoops \cup {"idle", "done"}, i : Nat, asked : Capacities \cup {0},
           ret : Int, res : Codes]

(* A goroutine waits for a size that is on its way, and reports one that   *)
(* is there.                                                               *)
ExpandOK(r, sh) ==
    /\ r \in Expand
    /\ r.pc \in ExpandLoops => r.asked \in Capacities
    /\ r.pc = "waitValid" => r.asked <= Coming(sh) * GiB
    /\ r.pc # "done" => r.res = "none"
    /\ r.res = "ok" => r.asked <= r.ret /\ r.ret <= sh.size * GiB

SnapOp == [op : {"none", "CreateSnapshot", "GetSnapshot", "GetSnapshotByName", "DeleteSnapshot"},
           pc : SnapLoops \cup {"idle", "done", "panicked"}, i : Nat,
           id : SnapIDs \cup {None}, name : SnapNames \cup {None},
           snap : LibSnap \cup {None}, res : Codes, made : SUBSET SnapIDs, hit : BOOLEAN,
           atStart : SUBSET SnapIDs, ops : Nat]

Dead(sn, x) == sn[x].status \in {"deleting", "gone"}

(* Which operation is in which loop, and on what.                          *)
LoopOK(r, sn) ==
    /\ r \in SnapOp
    /\ r.pc = "create" => r.op = "CreateSnapshot" /\ r.name \in SnapNames
    /\ r.pc = "get" => r.op = "GetSnapshot" /\ r.id \in SnapIDs /\ r.name = None
    /\ r.pc = "getByName" => r.op = "GetSnapshotByName" /\ r.name \in SnapNames
    /\ r.pc \in {"delete", "waitGone"} =>
          r.op = "DeleteSnapshot" /\ r.id \in SnapIDs /\ r.snap = None
    /\ r.pc # "done" => r.res = "none"
    /\ r.id # None => sn[r.id].status # "unused"
    /\ \A x \in r.atStart : sn[x].status # "unused"

(* A CreateSnapshot that no fault has hit makes no snapshot before the one *)
(* it returns; all it makes bear its name.                                 *)
MadeOK(r, sn) ==
    /\ \A x \in r.made : sn[x].status # "unused" /\ sn[x].name = r.name
    /\ r.pc = "create" => r.made = {} \/ r.hit
    /\ r.op = "CreateSnapshot" /\ r.pc = "done" /\ r.res # "ok" => r.made = {} \/ r.hit
    /\ r.op = "CreateSnapshot" /\ r.res = "ok" =>
          /\ r.snap # None
          /\ \A x \in r.made : x = r.snap.id \/ Dead(sn, x)

(* A deletion that is waited for or reported was accepted.                 *)
DeadOK(r, sn) ==
    r.pc = "waitGone" \/ (r.op = "DeleteSnapshot" /\ r.res = "ok") =>
        r.id \in SnapIDs /\ Dead(sn, r.id)

(* What is returned is so.                                                 *)
TrueOK(r, sn) ==
    r.res = "ok" =>
        /\ r.snap # None =>
              /\ sn[r.snap.id].status # "unused"
              /\ r.snap.ready => sn[r.snap.id].status # "pending"
              /\ r.snap.size = GiBToBytes(sn[r.snap.id].min)
              /\ r.name # None => sn[r.snap.id].name = r.name
        /\ r.op = "GetSnapshotByName" /\ r.snap = None =>
              \A x \in r.atStart : sn[x].name = r.name => sn[x].status = "gone"

SnapOK(r, sn) == LoopOK(r, sn) /\ MadeOK(r, sn) /\ DeadOK(r, sn) /\ TrueOK(r, sn)

DataInv ==
    /\ StateOK(share, snaps)
    /\ exp \in [Expanders -> Expand] /\ \A s \in Expanders : ExpandOK(exp[s], share)
    /\ sop \in [Snappers -> SnapOp]  /\ \A s \in Snappers : SnapOK(sop[s], snaps)
--------------------------------------------------------------------------------
(* The service.                                                            *)

LEMMA DataInit == Init => DataInv
<1> SUFFICES ASSUME Init PROVE DataInv
  OBVIOUS
<1> USE DEF Init
<1>1. StateOK(share, snaps)
  BY DataServiceAssumption DEF ServiceInit, StateOK, Shares, Snap, SnapStatuses
<1>2. ExpandOK(IdleExpand, share)
  BY DEF IdleExpand, ExpandOK, Expand, Codes, ExpandLoops
<1>3. SnapOK(IdleSnap, snaps)
  BY DEF IdleSnap, SnapOK, LoopOK, MadeOK, DeadOK, TrueOK, SnapOp, Codes, SnapLoops
<1> QED
  BY <1>1, <1>2, <1>3 DEF DataInv, ExpandInit, SnapInit, ExpandOK, SnapOK, LoopOK

LEMMA StillOnward == ASSUME StateOK(share, snaps) PROVE Onward(share, snaps)
BY DEF StateOK, Onward, SnapOnward, Shares, Snap, Coming

(* An answer of the service, before any fault.                             *)
Sound(a) ==
    /\ Onward(a.share, a.snaps)
    /\ a.fault = FALSE

(* A request that failed and changed nothing.                              *)
Denied(a) == a.share = share /\ a.snaps = snaps /\ IsErr(a.err) /\ a.val = None /\ a.fault = FALSE

LEMMA RefuseIsDenied == ASSUME NEW code PROVE Denied(Refuse(code))
BY DEF Denied, Refuse, Answer, ModelsError, IsErr

(* What comes back of an answer: the answer, or an error and a fault.      *)
LEMMA InvokeCases ==
    ASSUME NEW b, NEW a \in Invoke(b)
    PROVE  \/ a = b
           \/ /\ IsErr(a.err) /\ a.fault = TRUE /\ a.val = None
              /\ \/ a.share = b.share /\ a.snaps = b.snaps /\ a.err = OtherError
                 \/ a.share = share /\ a.snaps = snaps /\ a.err \in FaultErrors
BY DataServiceAssumption DEF Invoke, Answer, OtherError, IsErr

LEMMA InvokeSound ==
    ASSUME StateOK(share, snaps), NEW b, Onward(b.share, b.snaps), b.fault = FALSE, NEW a \in Invoke(b)
    PROVE  Onward(a.share, a.snaps) /\ a.fault \in BOOLEAN
BY InvokeCases, StillOnward

LEMMA DeliverOnward ==
    ASSUME NEW a, Onward(a.share, a.snaps), Deliver(a)
    PROVE  Onward(share', snaps')
BY DEF Deliver

(* What the service and its other clients do on their own.                 *)
LEMMA ServiceStepOnward ==
    ASSUME StateOK(share, snaps), ServiceStep
    PROVE  Onward(share', snaps')
<1>1. CASE ShareSettles
  <2>1. CASE share.status = "updating"
    <3>1. share' = [share EXCEPT !.status = "stable", !.size = share.next] /\ snaps' = snaps
      BY <1>1, <2>1 DEF ShareSettles
    <3>s. share \in Shares /\ share.size <= share.next
      BY <2>1 DEF StateOK
    <3>2. /\ share' \in Shares /\ share'.status = "stable" /\ share'.size = share.next
      BY <3>1, <3>s DEF Shares
    <3>3. share.size <= share'.size /\ Coming(share) <= Coming(share')
      BY <2>1, <3>2, <3>s DEF Shares, Coming
    <3> QED
      BY <3>1, <3>2, <3>3, StillOnward DEF StateOK, Onward
  <2>2. CASE share.status = "deleting"
    <3>1. share' = [share EXCEPT !.status = "gone"]
      BY <1>1, <2>2 DEF ShareSettles
    <3>2. snaps' = [x \in SnapIDs |-> [snaps[x] EXCEPT !.status = IF SnapLive(x) THEN "gone" ELSE @]]
      BY <1>1, <2>2 DEF ShareSettles
    <3>3. ASSUME NEW x \in SnapIDs
          PROVE  /\ snaps'[x] \in Snap /\ snaps'[x].status \in {"unused", "gone"}
                 /\ SnapOnward(snaps[x], snaps'[x])
      <4>1. snaps[x] \in Snap
        BY DEF StateOK
      <4>2. snaps'[x] = [snaps[x] EXCEPT !.status = IF SnapLive(x) THEN "gone" ELSE @]
        BY <3>2
      <4> QED
        BY <4>1, <4>2 DEF Snap, SnapStatuses, SnapLive, SnapOnward
    <3>4. snaps' \in [SnapIDs -> Snap] /\ Gone(snaps')
      BY <3>2, <3>3 DEF Gone
    <3>5. share' \in Shares /\ share'.status = "gone" /\ share'.size = share.size
      BY <3>1 DEF StateOK, Shares
    <3>6. Coming(share) <= Coming(share')
      BY <2>2, <3>5 DEF Coming, StateOK, Shares
    <3> QED
      BY <3>3, <3>4, <3>5, <3>6 DEF StateOK, Onward, Shares
  <2> QED
    BY <1>1, <2>1, <2>2 DEF ShareSettles
<1>2. ASSUME NEW x \in SnapIDs, SnapshotSettles(x) PROVE Onward(share', snaps')
  <2>1. share' = share /\ snaps[x] \in Snap /\ share.status # "gone"
    BY <1>2 DEF SnapshotSettles, StateOK, Gone
  <2>2. /\ snaps' \in [SnapIDs -> Snap]
        /\ \A y \in SnapIDs : SnapOnward(snaps[y], snaps'[y])
    BY <1>2, <2>1 DEF SnapshotSettles, StateOK, Snap, SnapStatuses, SnapOnward
  <2>3. Coming(share) <= Coming(share)
    BY DEF Coming, StateOK, Shares
  <2> QED
    BY <2>1, <2>2, <2>3 DEF Onward, StateOK, Shares
<1>3. CASE DeletedElsewhere
  BY <1>3 DEF DeletedElsewhere, StateOK, Onward, SnapOnward, Shares, Snap, Coming
<1>4. CASE ResizedElsewhere
  <2>1. PICK n \in share.size .. MaxSize : share' = [share EXCEPT !.status = "updating", !.next = n]
    BY <1>4 DEF ResizedElsewhere
  <2>2. snaps' = snaps /\ share.status = "stable"
    BY <1>4 DEF ResizedElsewhere
  <2>s. share \in Shares /\ n \in 1 .. MaxSize /\ share.size <= n
    BY DataServiceAssumption DEF StateOK, Shares
  <2>3. /\ share' \in Shares /\ share'.status = "updating"
        /\ share'.size = share.size /\ share'.next = n
    BY <2>1, <2>s DEF Shares
  <2>4. share.size <= share'.size /\ share'.size <= share'.next /\ Coming(share) <= Coming(share')
    BY <2>2, <2>s, <2>3 DEF Shares, Coming
  <2> QED
    BY <2>2, <2>3, <2>4, StillOnward DEF StateOK, Onward
<1> QED
  BY <1>1, <1>2, <1>3, <1>4 DEF ServiceStep

--------------------------------------------------------------------------------
(* What a goroutine has learned stays true.                                *)

LEMMA Larger ==
    ASSUME NEW m \in Nat, NEW n \in Nat, m <= n
    PROVE  /\ m * GiB \in Nat /\ n * GiB \in Nat
           /\ m * GiB <= n * GiB /\ m <= m * GiB
BY DataServiceAssumption

LEMMA CapacityFacts ==
    ASSUME NEW c \in Capacities
    PROVE  c \in Int /\ c <= MaxInt64
BY ExpansionAssumption, Zenon

LEMMA ExpandKeeps ==
    ASSUME StateOK(share, snaps), NEW sh, NEW sn, Onward(sh, sn), NEW r, ExpandOK(r, share)
    PROVE  ExpandOK(r, sh)
<1>1. /\ share.size \in Nat /\ sh.size \in Nat /\ share.size <= sh.size
      /\ Coming(share) \in Nat /\ Coming(sh) \in Nat /\ Coming(share) <= Coming(sh)
  BY DataServiceAssumption DEF StateOK, Onward, Shares, Coming
<1>2. share.size * GiB <= sh.size * GiB /\ Coming(share) * GiB <= Coming(sh) * GiB
  BY <1>1, Larger
<1>3. /\ share.size * GiB \in Nat /\ sh.size * GiB \in Nat
      /\ Coming(share) * GiB \in Nat /\ Coming(sh) * GiB \in Nat
  BY <1>1, Larger
<1>4. r.asked \in Int /\ r.ret \in Int
  <2>1. r \in Expand
    BY DEF ExpandOK
  <2>2. r.asked \in Capacities \cup {0} /\ r.ret \in Int
    BY <2>1 DEF Expand
  <2> QED
    BY <2>2, CapacityFacts
<1> DEFINE a == share.size * GiB
           b == sh.size * GiB
           c == Coming(share) * GiB
           d == Coming(sh) * GiB
<1>5. a \in Nat /\ b \in Nat /\ c \in Nat /\ d \in Nat /\ a <= b /\ c <= d
  BY <1>2, <1>3
<1>6. /\ r \in Expand /\ (r.pc \in ExpandLoops => r.asked \in Capacities)
      /\ r.pc # "done" => r.res = "none"
      /\ r.pc = "waitValid" => r.asked <= c
      /\ r.res = "ok" => r.asked <= r.ret /\ r.ret <= a
  BY DEF ExpandOK
<1>7. ExpandOK(r, sh) <=> /\ r \in Expand /\ (r.pc \in ExpandLoops => r.asked \in Capacities)
                          /\ r.pc # "done" => r.res = "none"
                          /\ r.pc = "waitValid" => r.asked <= d
                          /\ r.res = "ok" => r.asked <= r.ret /\ r.ret <= b
  BY DEF ExpandOK
<1> HIDE DEF a, b, c, d
<1> QED
  BY <1>4, <1>5, <1>6, <1>7

LEMMA SnapKeeps ==
    ASSUME StateOK(share, snaps), NEW sh, NEW sn, Onward(sh, sn), NEW r, SnapOK(r, snaps)
    PROVE  SnapOK(r, sn)
<1>1. /\ r \in SnapOp /\ r.made \subseteq SnapIDs /\ r.atStart \subseteq SnapIDs
      /\ r.id # None => r.id \in SnapIDs
      /\ r.snap # None => r.snap.id \in SnapIDs
  BY DEF SnapOK, LoopOK, SnapOp, LibSnap
<1>2. ASSUME NEW x \in SnapIDs
      PROVE  /\ snaps[x] \in Snap /\ sn[x] \in Snap
             /\ snaps[x].status # "unused" => /\ sn[x].status # "unused"
                                              /\ sn[x].name = snaps[x].name /\ sn[x].min = snaps[x].min
             /\ snaps[x].status \notin {"unused", "pending"} => sn[x].status # "pending"
             /\ snaps[x].status = "gone" => sn[x].status = "gone"
             /\ Dead(snaps, x) => Dead(sn, x)
  BY DEF StateOK, Onward, SnapOnward, Dead, Snap, SnapStatuses
<1>3. LoopOK(r, sn)
  BY <1>1, <1>2 DEF SnapOK, LoopOK
<1>4. MadeOK(r, sn)
  BY <1>1, <1>2 DEF SnapOK, MadeOK
<1>5. DeadOK(r, sn)
  BY <1>1, <1>2 DEF SnapOK, DeadOK
<1>6. TrueOK(r, sn)
  BY <1>1, <1>2 DEF SnapOK, TrueOK, LoopOK
<1> QED
  BY <1>3, <1>4, <1>5, <1>6 DEF SnapOK

(* So a step is looked at in its own goroutine.                            *)
LEMMA Others ==
    ASSUME DataInv, Onward(share', snaps')
    PROVE  /\ StateOK(share', snaps')
           /\ \A s \in Expanders : ExpandOK(exp[s], share')
           /\ \A s \in Snappers : SnapOK(sop[s], snaps')
<1>1. StateOK(share', snaps')
  BY DEF Onward
<1>2. ASSUME NEW s \in Expanders PROVE ExpandOK(exp[s], share')
  BY ExpandKeeps DEF DataInv
<1>3. ASSUME NEW s \in Snappers PROVE SnapOK(sop[s], snaps')
  BY SnapKeeps DEF DataInv
<1> QED
  BY <1>1, <1>2, <1>3

LEMMA ExpandOwn ==
    ASSUME DataInv, Onward(share', snaps'), NEW s \in Expanders, NEW q, ExpandOK(q, share'),
           exp' = [exp EXCEPT ![s] = q], sop' = sop
    PROVE  DataInv'
<1>1. q \in Expand
  BY DEF ExpandOK
<1> QED
  BY <1>1, Others DEF DataInv

LEMMA SnapOwn ==
    ASSUME DataInv, Onward(share', snaps'), NEW s \in Snappers, NEW q, SnapOK(q, snaps'),
           sop' = [sop EXCEPT ![s] = q], exp' = exp
    PROVE  DataInv'
<1>1. q \in SnapOp
  BY DEF SnapOK, LoopOK
<1> QED
  BY <1>1, Others DEF DataInv

--------------------------------------------------------------------------------
(* One pass of a loop.                                                     *)

LEMMA FailedCode == ASSUME NEW code PROVE GetUserError(code) \in Codes /\ GetUserError(code) \notin {"ok", "none"}
BY DEF GetUserError, Codes, MessagesEn, VolumeMessages, InvalidVolumeMessages, AccessPointMessages,
       ListingMessages, SnapshotMessages

--------------------------------------------------------------------------------
(* ExpandVolume.                                                           *)

LEMMA Division ==
    ASSUME NEW n \in Nat, NEW d \in Nat \ {0}
    PROVE  n \div d \in Nat /\ n < (n \div d + 1) * d
OBVIOUS

LEMMA GiBFits == GiB \in Nat \ {0} /\ MaxInt64 \in Nat /\ MaxSize \in Nat /\ GiB <= MaxInt64
<1>1. GiB \in Nat \ {0} /\ MaxSize \in Nat /\ 1 <= MaxSize
  BY DataServiceAssumption
<1>2. MaxInt64 \in Nat /\ GiB * MaxSize <= MaxInt64
  BY ExpansionAssumption, Zenon
<1>3. GiB <= GiB * MaxSize
  BY <1>1
<1> QED
  BY <1>1, <1>2, <1>3

(* A size the service accepts is as large as the capacity it was rounded   *)
(* up from: a capacity whose rounding overflows gives none.                *)
LEMMA RoundedUp ==
    ASSUME NEW c \in Capacities, NEW lo \in Nat \ {0}, NEW n, n = roundUpSize(c, GiB), n \in lo .. MaxSize
    PROVE  c <= n * GiB
<1> DEFINE w == Wrap64(c + GiB - 1)
<1>1. c \in Int /\ c <= MaxInt64
  BY CapacityFacts
<1>2. w \in Int /\ (w = c + GiB - 1 \/ w < 0)
  BY <1>1, GiBFits DEF Wrap64
<1>3. n = IF w >= 0 THEN w \div GiB ELSE -((-w) \div GiB)
  BY DEF roundUpSize
<1>4. n \in Nat \ {0}
  BY GiBFits
<1> HIDE DEF w
<1>5. CASE w >= 0
  <2>1. n = w \div GiB /\ w \in Nat /\ w = c + GiB - 1
    BY <1>2, <1>3, <1>5
  <2>2. w < (n + 1) * GiB
    BY <2>1, Division, GiBFits
  <2>3. (n + 1) * GiB = n * GiB + GiB /\ n * GiB \in Nat
    BY <1>4, GiBFits
  <2> QED
    BY <1>1, <2>1, <2>2, <2>3, GiBFits
<1>6. CASE w < 0
  <2>1. (-w) \in Nat /\ n = -((-w) \div GiB)
    BY <1>2, <1>3, <1>6
  <2>2. (-w) \div GiB \in Nat
    BY <2>1, Division, GiBFits
  <2> QED
    BY <1>4, <2>1, <2>2
<1> QED
  BY <1>2, <1>5, <1>6

LEMMA CodeNames == "ok" \in Codes /\ "none" \in Codes
BY DEF Codes

(* What the updates of an operation leave alone.                           *)
LEMMA ExpandRepeats ==
    ASSUME NEW r \in Expand, NEW q, q = Repeat(r)
    PROVE  q \in Expand /\ q.pc = r.pc /\ q.asked = r.asked /\ q.res = r.res
BY DEF Repeat, Expand

LEMMA ExpandEnters ==
    ASSUME NEW r \in Expand, NEW l \in ExpandLoops, NEW q, q = Enter(r, l)
    PROVE  q \in Expand /\ q.pc = l /\ q.asked = r.asked /\ q.res = r.res
BY DEF Enter, Expand

LEMMA ExpandReturns ==
    ASSUME NEW r \in Expand, NEW v \in Int, NEW res \in Codes, NEW q, q = Return([r EXCEPT !.ret = v], res)
    PROVE  q \in Expand /\ q.pc = "done" /\ q.asked = r.asked /\ q.ret = v /\ q.res = res
BY DEF Return, Expand

LEMMA ExpandFailed ==
    ASSUME NEW r \in Expand, NEW code, NEW q, q = Fail([r EXCEPT !.ret = -1], code)
    PROVE  q \in Expand /\ q.pc = "done" /\ q.res # "ok"
<1> DEFINE res == GetUserError(code)
<1>1. res \in Codes /\ res # "ok"
  BY FailedCode
<1>2. q = Return([r EXCEPT !.ret = -1], res)
  BY DEF Fail
<1>3. -1 \in Int
  OBVIOUS
<1> HIDE DEF res
<1> QED
  BY <1>1, <1>2, <1>3, ExpandReturns

(* An operation that goes on, or fails, is in order.                       *)
LEMMA ExpandGoesOn ==
    ASSUME NEW sh, NEW q \in Expand, q.pc \in {"get", "expand"}, q.asked \in Capacities, q.res = "none"
    PROVE  ExpandOK(q, sh)
BY DEF ExpandOK

LEMMA ExpandFails ==
    ASSUME NEW sh, NEW q \in Expand, q.pc = "done", q.res # "ok"
    PROVE  ExpandOK(q, sh)
BY DEF ExpandOK, ExpandLoops

LEMMA ExpandVolumeStep ==
    ASSUME DataInv, NEW s \in Expanders, NEW c \in Capacities, NEW w \in BOOLEAN,
           ExpandVolume(s, c, w), sop' = sop
    PROVE  DataInv'
<1> DEFINE r == [IdleExpand EXCEPT !.asked = c]
<1>1. r \in Expand /\ r.asked = c /\ r.res = "none"
  BY CodeNames DEF IdleExpand, Expand
<1>2. Onward(share', snaps')
  BY StillOnward DEF ExpandVolume, serviceVars, DataInv
<1>3. PICK q : /\ exp' = [exp EXCEPT ![s] = q]
               /\ q = Enter(r, "get") \/ q = Fail([r EXCEPT !.ret = -1], "InvalidVolumeID")
  BY DEF ExpandVolume
<1> HIDE DEF r
<1>4. ExpandOK(q, share')
  <2>1. CASE q = Enter(r, "get")
    <3>1. "get" \in ExpandLoops
      BY DEF ExpandLoops
    <3> QED
      BY <1>1, <2>1, <3>1, ExpandEnters, ExpandGoesOn
  <2>2. CASE q = Fail([r EXCEPT !.ret = -1], "InvalidVolumeID")
    BY <1>1, <2>2, ExpandFailed, ExpandFails
  <2> QED
    BY <1>3, <2>1, <2>2
<1> QED
  BY <1>2, <1>3, <1>4, ExpandOwn

(* GET of the share: what it answers is the share as it is.                *)
LEMMA GetShareAnswer ==
    ASSUME StateOK(share, snaps), NEW a \in GetFileShare
    PROVE  /\ a.share = share /\ a.snaps = snaps
           /\ ~IsErr(a.err) => a.val = share
<1> DEFINE b == ServiceGet
<1>1. Denied(b) \/ b = Accept(share, snaps, share)
  BY RefuseIsDenied DEF ServiceGet
<1>2. a \in Invoke(b)
  BY DEF GetFileShare
<1> HIDE DEF b
<1>3. b.share = share /\ b.snaps = snaps /\ (~IsErr(b.err) => b.val = share)
  BY <1>1 DEF Denied, Accept, Answer
<1> QED
  BY <1>2, <1>3, InvokeCases

LEMMA GetVolumeToExpandStep ==
    ASSUME DataInv, NEW s \in Expanders, GetVolumeToExpand(s), sop' = sop
    PROVE  DataInv'
<1> DEFINE r == exp[s]
<1>1. PICK a \in GetFileShare :
         /\ Deliver(a)
         /\ exp' = [exp EXCEPT ![s] = Attempted(r, "retry", a.err, FALSE, CheckCapacity(r, a.val.size),
                                                Fail([r EXCEPT !.ret = -1], "StorageFindFailedWithVolumeId"))]
  BY DEF GetVolumeToExpand
<1>2. a.share = share /\ a.snaps = snaps /\ (~IsErr(a.err) => a.val = share)
  BY GetShareAnswer DEF DataInv
<1>3. share' = share /\ Onward(share', snaps')
  BY <1>1, <1>2, StillOnward DEF Deliver, DataInv
<1>4. r \in Expand /\ r.pc = "get" /\ r.asked \in Capacities /\ r.res = "none"
  BY DEF DataInv, ExpandOK, GetVolumeToExpand, ExpandLoops
<1> DEFINE q == Attempted(r, "retry", a.err, FALSE, CheckCapacity(r, a.val.size),
                         Fail([r EXCEPT !.ret = -1], "StorageFindFailedWithVolumeId"))
<1>q. exp' = [exp EXCEPT ![s] = q]
  BY <1>1
<1>5. \/ q = Repeat(r)
      \/ q = Fail([r EXCEPT !.ret = -1], "StorageFindFailedWithVolumeId")
      \/ ~IsErr(a.err) /\ q = CheckCapacity(r, a.val.size)
  BY DEF Attempted, LoopEnds, Stops, Flexy
<1> HIDE DEF q
<1> HIDE DEF r
<1>6. ExpandOK(q, share)
  <2>1. CASE q = Repeat(r)
    BY <1>4, <2>1, ExpandRepeats, ExpandGoesOn
  <2>2. CASE q = Fail([r EXCEPT !.ret = -1], "StorageFindFailedWithVolumeId")
    BY <1>4, <2>2, ExpandFailed, ExpandFails
  <2>3. CASE ~IsErr(a.err) /\ q = CheckCapacity(r, a.val.size)
    <3>1. share.size \in Nat /\ q = CheckCapacity(r, share.size)
      BY <1>2, <2>3, DataServiceAssumption DEF DataInv, StateOK, Shares
    <3>2. CASE share.size >= r.asked
      <4>1. q = Return([r EXCEPT !.ret = share.size], "ok")
        BY <3>1, <3>2 DEF CheckCapacity
      <4>2. q \in Expand /\ q.pc = "done" /\ q.asked = r.asked /\ q.ret = share.size /\ q.res = "ok"
        BY <1>4, <3>1, <4>1, CodeNames, ExpandReturns
      <4>3. share.size <= share.size * GiB
        BY <3>1, Larger
      <4>4. r.asked <= share.size
        BY <1>4, <3>1, <3>2, CapacityFacts
      <4> QED
        BY <4>2, <4>3, <4>4 DEF ExpandOK, ExpandLoops
    <3>3. CASE ~(share.size >= r.asked)
      <4>1. q = Enter(r, "expand")
        BY <3>1, <3>3 DEF CheckCapacity
      <4>2. "expand" \in ExpandLoops
        BY DEF ExpandLoops
      <4> QED
        BY <1>4, <4>1, <4>2, ExpandEnters, ExpandGoesOn
    <3> QED
      BY <3>2, <3>3
  <2> QED
    BY <1>5, <2>1, <2>2, <2>3
<1> QED
  BY <1>3, <1>q, <1>6, ExpandOwn

(* PATCH of the size: once it is answered with success, enough is coming.  *)
LEMMA PatchAnswer ==
    ASSUME StateOK(share, snaps), NEW c \in Capacities, NEW a \in PatchShareSize(roundUpSize(c, GiB))
    PROVE  /\ Onward(a.share, a.snaps)
           /\ ~IsErr(a.err) => c <= Coming(a.share) * GiB
<1> DEFINE n  == roundUpSize(c, GiB)
           b  == ServiceResize(n)
           sh == [share EXCEPT !.status = "updating", !.next = n]
<1>1. \/ Denied(b)
      \/ b = Accept(sh, snaps, sh) /\ n \in share.size .. MaxSize /\ share.status = "stable"
  BY RefuseIsDenied DEF ServiceResize
<1>s. share \in Shares /\ share.size \in Nat \ {0}
  BY DataServiceAssumption DEF StateOK, Shares
<1>2. ASSUME b = Accept(sh, snaps, sh), n \in share.size .. MaxSize, share.status = "stable"
      PROVE  Onward(sh, snaps) /\ c <= Coming(sh) * GiB
  <2>1. c <= n * GiB
    BY <1>2, <1>s, RoundedUp
  <2>r. n \in 1 .. MaxSize /\ share.size <= n
    BY <1>2, <1>s, DataServiceAssumption
  <2> HIDE DEF n
  <2>2. sh \in Shares /\ sh.status = "updating" /\ sh.size = share.size /\ sh.next = n
    BY <1>s, <2>r DEF Shares
  <2> HIDE DEF sh
  <2>3. Coming(sh) = n /\ Coming(share) = share.size
    BY <1>2, <2>2 DEF Coming
  <2>4. share.size <= sh.size /\ Coming(share) <= Coming(sh) /\ sh.size <= sh.next
    BY <1>s, <2>r, <2>2, <2>3
  <2>5. Onward(sh, snaps)
    BY <2>2, <2>4, StillOnward DEF StateOK, Onward
  <2> QED
    BY <2>1, <2>3, <2>5
<1> HIDE DEF n, sh, b
<1>3. /\ Onward(b.share, b.snaps) /\ b.fault = FALSE
      /\ ~IsErr(b.err) => c <= Coming(b.share) * GiB
  <2>1. CASE Denied(b)
    BY <2>1, StillOnward DEF Denied
  <2>2. CASE b = Accept(sh, snaps, sh) /\ n \in share.size .. MaxSize /\ share.status = "stable"
    <3>1. Onward(sh, snaps) /\ c <= Coming(sh) * GiB
      BY <1>2, <2>2
    <3>2. b.share = sh /\ b.snaps = snaps /\ b.fault = FALSE
      BY <2>2 DEF Accept, Answer
    <3> QED
      BY <3>1, <3>2
  <2> QED
    BY <1>1, <2>1, <2>2
<1>4. a \in Invoke(b)
  BY DEF PatchShareSize, b, n
<1> QED
  BY <1>3, <1>4, InvokeCases, InvokeSound

LEMMA ExpandAttemptStep ==
    ASSUME DataInv, NEW s \in Expanders, ExpandAttempt(s), sop' = sop
    PROVE  DataInv'
<1> DEFINE r == exp[s]
<1>1. PICK a \in PatchShareSize(roundUpSize(r.asked, GiB)) :
         /\ Deliver(a)
         /\ exp' = [exp EXCEPT ![s] = Attempted(r, "retry", a.err, FALSE, Enter(r, "waitValid"),
                                                Fail([r EXCEPT !.ret = -1], "FailedToExpandVolume"))]
  BY DEF ExpandAttempt
<1>2. r \in Expand /\ r.pc = "expand" /\ r.asked \in Capacities /\ r.res = "none"
  BY DEF DataInv, ExpandOK, ExpandAttempt, ExpandLoops
<1> DEFINE q == Attempted(r, "retry", a.err, FALSE, Enter(r, "waitValid"),
                         Fail([r EXCEPT !.ret = -1], "FailedToExpandVolume"))
<1>q. exp' = [exp EXCEPT ![s] = q]
  BY <1>1
<1>5. \/ q = Repeat(r)
      \/ q = Fail([r EXCEPT !.ret = -1], "FailedToExpandVolume")
      \/ ~IsErr(a.err) /\ q = Enter(r, "waitValid")
  BY DEF Attempted, LoopEnds, Stops, Flexy
<1> HIDE DEF q
<1> HIDE DEF r
<1>3. Onward(a.share, a.snaps) /\ (~IsErr(a.err) => r.asked <= Coming(a.share) * GiB)
  BY <1>1, <1>2, PatchAnswer DEF DataInv
<1>4. share' = a.share /\ Onward(share', snaps')
  BY <1>1, <1>3 DEF Deliver
<1>6. ExpandOK(q, share')
  <2>1. CASE q = Repeat(r)
    BY <1>2, <2>1, ExpandRepeats, ExpandGoesOn
  <2>2. CASE q = Fail([r EXCEPT !.ret = -1], "FailedToExpandVolume")
    BY <1>2, <2>2, ExpandFailed, ExpandFails
  <2>3. CASE ~IsErr(a.err) /\ q = Enter(r, "waitValid")
    <3>w. "waitValid" \in ExpandLoops
      BY DEF ExpandLoops
    <3>1. q \in Expand /\ q.pc = "waitValid" /\ q.asked = r.asked /\ q.res = "none"
      BY <1>2, <2>3, <3>w, ExpandEnters
    <3> QED
      BY <1>2, <1>3, <1>4, <2>3, <3>1 DEF ExpandOK
  <2> QED
    BY <1>5, <2>1, <2>2, <2>3
<1> QED
  BY <1>4, <1>q, <1>6, ExpandOwn

(* A share that is stable has the size that was coming.                    *)
LEMMA WaitForExpandedShareStep ==
    ASSUME DataInv, NEW s \in Expanders, WaitForExpandedShare(s), sop' = sop
    PROVE  DataInv'
<1> DEFINE r == exp[s]
           Err(a) == IF ~IsErr(a.err) /\ a.val.status # "stable" THEN OtherError ELSE a.err
<1>1. PICK a \in GetFileShare :
         /\ Deliver(a)
         /\ exp' = [exp EXCEPT ![s] = Attempted(r, "retry", Err(a), FALSE,
                                                Return([r EXCEPT !.ret = r.asked], "ok"),
                                                Fail([r EXCEPT !.ret = -1], "VolumeNotInValidState"))]
  BY DEF WaitForExpandedShare
<1>2. a.share = share /\ a.snaps = snaps /\ (~IsErr(a.err) => a.val = share)
  BY GetShareAnswer DEF DataInv
<1>3. share' = share /\ Onward(share', snaps')
  BY <1>1, <1>2, StillOnward DEF Deliver, DataInv
<1>4. r \in Expand /\ r.pc = "waitValid" /\ r.asked \in Capacities /\ r.res = "none"
  BY DEF DataInv, ExpandOK, WaitForExpandedShare, ExpandLoops
<1>c. r.asked <= Coming(share) * GiB
  BY <1>4 DEF DataInv, ExpandOK
<1> DEFINE q == Attempted(r, "retry", Err(a), FALSE, Return([r EXCEPT !.ret = r.asked], "ok"),
                         Fail([r EXCEPT !.ret = -1], "VolumeNotInValidState"))
<1>q. exp' = [exp EXCEPT ![s] = q]
  BY <1>1
<1>5. \/ q = Repeat(r)
      \/ q = Fail([r EXCEPT !.ret = -1], "VolumeNotInValidState")
      \/ ~IsErr(Err(a)) /\ q = Return([r EXCEPT !.ret = r.asked], "ok")
  BY DEF Attempted, LoopEnds, Stops, Flexy
<1> HIDE DEF q
<1>e. ~IsErr(Err(a)) => share.status = "stable"
  BY <1>2 DEF IsErr, OtherError
<1> HIDE DEF r, Err
<1>6. ExpandOK(q, share)
  <2>1. CASE q = Repeat(r)
    <3>1. q \in Expand /\ q.pc = "waitValid" /\ q.asked = r.asked /\ q.res = "none"
      BY <1>4, <2>1, ExpandRepeats
    <3> QED
      BY <1>4, <1>c, <3>1 DEF ExpandOK
  <2>2. CASE q = Fail([r EXCEPT !.ret = -1], "VolumeNotInValidState")
    BY <1>4, <2>2, ExpandFailed, ExpandFails
  <2>3. CASE ~IsErr(Err(a)) /\ q = Return([r EXCEPT !.ret = r.asked], "ok")
    <3>1. r.asked \in Int
      BY <1>4, CapacityFacts
    <3>2. q \in Expand /\ q.pc = "done" /\ q.asked = r.asked /\ q.ret = r.asked /\ q.res = "ok"
      BY <1>4, <2>3, <3>1, CodeNames, ExpandReturns
    <3>3. Coming(share) = share.size
      BY <1>e, <2>3 DEF Coming
    <3>4. r.asked <= r.asked
      BY <3>1
    <3> QED
      BY <1>c, <3>2, <3>3, <3>4 DEF ExpandOK, ExpandLoops
  <2> QED
    BY <1>5, <2>1, <2>2, <2>3
<1> QED
  BY <1>3, <1>q, <1>6, ExpandOwn

--------------------------------------------------------------------------------
(* Snapshots: the updates of an operation.                                 *)

(* The fields a loop leaves alone.                                         *)
Kept(q, r) ==
    /\ q.op = r.op /\ q.id = r.id /\ q.name = r.name /\ q.made = r.made /\ q.hit = r.hit
    /\ q.atStart = r.atStart

LEMMA SnapRepeats ==
    ASSUME NEW sn, NEW r, SnapOK(r, sn), NEW q, q = Repeat(r)
    PROVE  SnapOK(q, sn)
<1>1. r \in SnapOp
  BY DEF SnapOK, LoopOK
<1>2. q \in SnapOp /\ Kept(q, r) /\ q.pc = r.pc /\ q.snap = r.snap /\ q.res = r.res
  BY <1>1 DEF Repeat, SnapOp, Kept
<1> QED
  BY <1>2 DEF SnapOK, LoopOK, MadeOK, DeadOK, TrueOK, Kept

LEMMA SnapReturns ==
    ASSUME NEW r \in SnapOp, NEW v \in LibSnap \cup {None}, NEW res \in Codes, NEW q,
           q = Return([r EXCEPT !.snap = v], res)
    PROVE  q \in SnapOp /\ Kept(q, r) /\ q.pc = "done" /\ q.snap = v /\ q.res = res
BY DEF Return, SnapOp, Kept

LEMMA SnapReturnsAsIs ==
    ASSUME NEW r \in SnapOp, NEW res \in Codes, NEW q, q = Return(r, res)
    PROVE  q \in SnapOp /\ Kept(q, r) /\ q.pc = "done" /\ q.snap = r.snap /\ q.res = res
BY DEF Return, SnapOp, Kept

LEMMA SnapEnters ==
    ASSUME NEW r \in SnapOp, NEW l \in SnapLoops, NEW q, q = Enter(r, l)
    PROVE  q \in SnapOp /\ Kept(q, r) /\ q.pc = l /\ q.snap = r.snap /\ q.res = r.res
BY DEF Enter, SnapOp, Kept

(* A failed operation: nothing is claimed, but a CreateSnapshot has made   *)
(* nothing unless a fault hit it.                                          *)
LEMMA SnapFails ==
    ASSUME NEW sn, NEW r, SnapOK(r, sn), r.op = "CreateSnapshot" => r.made = {} \/ r.hit,
           NEW code, NEW q, q = Fail(r, code)
    PROVE  SnapOK(q, sn)
<1> DEFINE res == GetUserError(code)
<1>1. res \in Codes /\ res # "ok"
  BY FailedCode
<1>2. q = Return(r, res)
  BY DEF Fail
<1>3. r \in SnapOp
  BY DEF SnapOK, LoopOK
<1> HIDE DEF res
<1>4. q \in SnapOp /\ Kept(q, r) /\ q.pc = "done" /\ q.snap = r.snap /\ q.res = res
  BY <1>1, <1>2, <1>3, SnapReturnsAsIs
<1> QED
  BY <1>1, <1>4 DEF SnapOK, LoopOK, MadeOK, DeadOK, TrueOK, Kept

LEMMA SnapHit ==
    ASSUME NEW sn, NEW r, SnapOK(r, sn), NEW a, a.fault \in BOOLEAN, NEW q, q = Hit(r, a)
    PROVE  /\ SnapOK(q, sn)
           /\ q.op = r.op /\ q.id = r.id /\ q.name = r.name /\ q.made = r.made /\ q.atStart = r.atStart
           /\ q.pc = r.pc /\ q.snap = r.snap /\ q.res = r.res
           /\ r.hit => q.hit
           /\ a.fault => q.hit
<1>1. r \in SnapOp
  BY DEF SnapOK, LoopOK
<1>2. (r.hit \/ a.fault) \in BOOLEAN
  BY <1>1 DEF SnapOp
<1>3. /\ q \in SnapOp /\ q.op = r.op /\ q.id = r.id /\ q.name = r.name /\ q.made = r.made
      /\ q.atStart = r.atStart /\ q.pc = r.pc /\ q.snap = r.snap /\ q.res = r.res
      /\ q.hit = (r.hit \/ a.fault)
  BY <1>1, <1>2 DEF Hit, SnapOp
<1>4. (r.hit => q.hit) /\ (a.fault => q.hit)
  BY <1>3
<1> QED
  BY <1>3, <1>4 DEF SnapOK, LoopOK, MadeOK, DeadOK, TrueOK

(* The snapshot of the answer as the provider returns it.                  *)
LEMMA LibSnapIs ==
    ASSUME NEW v \in SentSnap, NEW w, w = FromProviderToLibSnapshot(v)
    PROVE  /\ w \in LibSnap /\ w # None /\ w.id = v.id /\ w.size = GiBToBytes(v.snap.min)
           /\ w.ready => v.snap.status = "stable"
<1>1. v # None /\ v.id \in SnapIDs /\ v.snap.min \in Nat
  BY SnapshotAssumption DEF SentSnap, Snap
<1> DEFINE f == (v.snap.status = "stable")
<1>2. w = [id |-> v.id, size |-> GiBToBytes(v.snap.min), ready |-> f]
  BY <1>1 DEF FromProviderToLibSnapshot
<1>f. f \in BOOLEAN
  OBVIOUS
<1>3. GiBToBytes(v.snap.min) \in Nat
  BY <1>1, DataServiceAssumption DEF GiBToBytes
<1> HIDE DEF f
<1>4. w \in LibSnap
  BY <1>1, <1>2, <1>3, <1>f DEF LibSnap
<1>5. w.id = v.id /\ w.size = GiBToBytes(v.snap.min) /\ w.ready = f
  BY <1>2
<1>6. w.ready => v.snap.status = "stable"
  BY <1>5 DEF f
<1> QED
  BY <1>4, <1>5, <1>6, SnapshotAssumption

--------------------------------------------------------------------------------
(* Snapshots: the answers of the service.                                  *)

LEMMA CreateAnswer ==
    ASSUME StateOK(share, snaps), NEW n \in SnapNames, NEW a \in CreateSnapshotRequest(n)
    PROVE  /\ Onward(a.share, a.snaps) /\ a.fault \in BOOLEAN
           /\ \A x \in SnapIDs : snaps[x].status = "unused" /\ a.snaps[x].status # "unused" =>
                 a.snaps[x].name = n /\ (IsErr(a.err) => a.fault)
           /\ ~IsErr(a.err) =>
                 \E x \in SnapIDs :
                    /\ a.snaps[x] = NewSnap(n) /\ a.val = [id |-> x, snap |-> NewSnap(n)]
                    /\ \A y \in SnapIDs : y # x => a.snaps[y] = snaps[y]
                    /\ \A y \in SnapIDs : snaps[y].name = n => ~SnapLive(y)
<1>1. PICK b \in ServiceSnapshot(n) : a \in Invoke(b)
  BY DEF CreateSnapshotRequest
<1> DEFINE New(x) == [snaps EXCEPT ![x] = NewSnap(n)]
<1>2. \/ Denied(b)
      \/ /\ share.status = "stable" /\ \A y \in SnapIDs : snaps[y].name = n => ~SnapLive(y)
         /\ \E x \in FreeSnaps : b = Accept(share, New(x), [id |-> x, snap |-> NewSnap(n)])
  BY <1>1, RefuseIsDenied DEF ServiceSnapshot
<1>3. CASE Denied(b)
  <2>1. b.share = share /\ b.snaps = snaps /\ IsErr(b.err) /\ b.fault = FALSE
    BY <1>3 DEF Denied
  <2>2. a.share = share /\ a.snaps = snaps /\ IsErr(a.err) /\ a.fault \in BOOLEAN
    BY <1>1, <2>1, InvokeCases
  <2> QED
    BY <2>2, StillOnward
<1>4. ASSUME NEW x \in FreeSnaps, b = Accept(share, New(x), [id |-> x, snap |-> NewSnap(n)]),
             share.status = "stable", \A y \in SnapIDs : snaps[y].name = n => ~SnapLive(y)
      PROVE  /\ Onward(a.share, a.snaps) /\ a.fault \in BOOLEAN
             /\ \A y \in SnapIDs : snaps[y].status = "unused" /\ a.snaps[y].status # "unused" =>
                   a.snaps[y].name = n /\ (IsErr(a.err) => a.fault)
             /\ ~IsErr(a.err) => /\ a.snaps[x] = NewSnap(n) /\ a.val = [id |-> x, snap |-> NewSnap(n)]
                                 /\ \A y \in SnapIDs : y # x => a.snaps[y] = snaps[y]
  <2>1. x \in SnapIDs /\ snaps[x].status = "unused" /\ snaps \in [SnapIDs -> Snap]
    BY DEF FreeSnaps, StateOK
  <2>2. /\ NewSnap(n) \in Snap /\ NewSnap(n).status = "pending" /\ NewSnap(n).name = n
    BY DataServiceAssumption DEF NewSnap, Snap, SnapStatuses, StateOK, Shares
  <2> DEFINE sn == New(x)
             v  == [id |-> x, snap |-> NewSnap(n)]
  <2>3. /\ sn \in [SnapIDs -> Snap] /\ sn[x] = NewSnap(n)
        /\ \A y \in SnapIDs : y # x => sn[y] = snaps[y]
    BY <2>1, <2>2
  <2>4. b.share = share /\ b.snaps = sn /\ b.val = v /\ b.fault = FALSE /\ ~IsErr(b.err)
    BY <1>4 DEF Accept, Answer, NoError, IsErr
  <2> HIDE DEF sn, v
  <2>5. \A y \in SnapIDs : SnapOnward(snaps[y], sn[y])
    <3>1. ASSUME NEW y \in SnapIDs PROVE SnapOnward(snaps[y], sn[y])
      <4>1. CASE y = x
        BY <2>1, <2>2, <2>3, <4>1 DEF SnapOnward
      <4>2. CASE y # x
        BY <2>3, <4>2, StillOnward DEF Onward
      <4> QED
        BY <4>1, <4>2
    <3> QED
      BY <3>1
  <2>6. Onward(share, sn)
    BY <1>4, <2>3, <2>5, StillOnward DEF Onward, StateOK
  <2>7. Onward(a.share, a.snaps) /\ a.fault \in BOOLEAN
    BY <1>1, <2>4, <2>6, InvokeSound
  <2>8. a = b \/ (IsErr(a.err) /\ a.fault = TRUE /\ (a.snaps = sn \/ a.snaps = snaps))
    BY <1>1, <2>4, InvokeCases
  <2>9. a.snaps = sn \/ a.snaps = snaps
    BY <2>4, <2>8
  <2>10. IsErr(a.err) => a.fault
    BY <2>4, <2>8
  <2>11. ASSUME NEW y \in SnapIDs, snaps[y].status = "unused", a.snaps[y].status # "unused"
         PROVE  a.snaps[y].name = n
    <3>1. a.snaps = sn /\ y = x
      BY <2>9, <2>11, <2>3
    <3> QED
      BY <3>1, <2>3, <2>2
  <2>12. ~IsErr(a.err) => a.snaps = sn /\ a.val = v
    BY <2>4, <2>8
  <2> QED
    BY <2>3, <2>7, <2>10, <2>11, <2>12 DEF v
<1>5. CASE ~Denied(b)
  <2>1. PICK x \in FreeSnaps : b = Accept(share, New(x), [id |-> x, snap |-> NewSnap(n)])
    BY <1>2, <1>5
  <2>2. x \in SnapIDs
    BY DEF FreeSnaps
  <2> HIDE DEF New
  <2> QED
    BY <1>2, <1>4, <1>5, <2>1, <2>2
<1> QED
  BY <1>3, <1>5

LEMMA GetAnswer ==
    ASSUME StateOK(share, snaps), NEW x \in SnapIDs, NEW a \in GetSnapshotRequest(x)
    PROVE  /\ a.share = share /\ a.snaps = snaps /\ a.fault \in BOOLEAN
           /\ ~IsErr(a.err) => SnapLive(x) /\ a.val = [id |-> x, snap |-> snaps[x]]
<1> DEFINE b == ServiceGetSnapshot(x)
           v == [id |-> x, snap |-> snaps[x]]
<1>1. Denied(b) \/ (SnapLive(x) /\ b = Accept(share, snaps, v))
  BY RefuseIsDenied DEF ServiceGetSnapshot
<1>2. a \in Invoke(b)
  BY DEF GetSnapshotRequest
<1> HIDE DEF b, v
<1>3. /\ b.share = share /\ b.snaps = snaps /\ b.fault = FALSE
      /\ ~IsErr(b.err) => SnapLive(x) /\ b.val = v
  BY <1>1 DEF Denied, Accept, Answer
<1>4. \/ a = b
      \/ IsErr(a.err) /\ a.fault = TRUE /\ a.share = share /\ a.snaps = snaps
  BY <1>2, <1>3, InvokeCases
<1> QED
  BY <1>3, <1>4 DEF v

LEMMA FindAnswer ==
    ASSUME StateOK(share, snaps), NEW n \in SnapNames, NEW a \in GetSnapshotByNameRequest(n)
    PROVE  /\ a.share = share /\ a.snaps = snaps /\ a.fault \in BOOLEAN
           /\ ~IsErr(a.err) =>
                 \/ a.val = None /\ \A y \in SnapIDs : snaps[y].name = n => ~SnapLive(y)
                 \/ \E x \in SnapIDs : snaps[x].name = n /\ SnapLive(x)
                                       /\ a.val = [id |-> x, snap |-> snaps[x]]
<1> DEFINE S == {[id |-> x, snap |-> snaps[x]] : x \in {y \in SnapIDs : SnapLive(y) /\ snaps[y].name = n}}
           b == ServiceFindSnapshots(n)
<1>1. PICK c \in Invoke(b) :
         a \in IF IsErr(c.err) THEN {c}
               ELSE IF c.val = {} THEN {[c EXCEPT !.val = None]}
               ELSE {[c EXCEPT !.val = v] : v \in c.val}
  BY DEF GetSnapshotByNameRequest
<1>2. Denied(b) \/ b = Accept(share, snaps, S)
  BY RefuseIsDenied DEF ServiceFindSnapshots
<1>e. S = {} => \A y \in SnapIDs : snaps[y].name = n => ~SnapLive(y)
  OBVIOUS
<1>m. ASSUME NEW v \in S
      PROVE  \E x \in SnapIDs : snaps[x].name = n /\ SnapLive(x) /\ v = [id |-> x, snap |-> snaps[x]]
  OBVIOUS
<1> HIDE DEF S, b
<1>3. /\ b.share = share /\ b.snaps = snaps /\ b.fault = FALSE
      /\ ~IsErr(b.err) => b = Accept(share, snaps, S)
  BY <1>2 DEF Denied, Accept, Answer
<1>4. CASE IsErr(c.err)
  <2>1. a = c
    BY <1>1, <1>4
  <2>2. c = b \/ (c.fault = TRUE /\ c.share = share /\ c.snaps = snaps)
    BY <1>3, InvokeCases
  <2> QED
    BY <1>3, <1>4, <2>1, <2>2
<1>5. CASE ~IsErr(c.err)
  <2>1. c = b
    BY <1>5, InvokeCases
  <2>2. c = [share |-> share, snaps |-> snaps, err |-> NoError, val |-> S, fault |-> FALSE]
    BY <1>3, <1>5, <2>1 DEF Accept, Answer
  <2>3. CASE S = {}
    <3>1. a = [c EXCEPT !.val = None]
      BY <1>1, <1>5, <2>2, <2>3
    <3> QED
      BY <1>e, <2>2, <2>3, <3>1
  <2>4. CASE S # {}
    <3>1. PICK v \in S : a = [c EXCEPT !.val = v]
      BY <1>1, <1>5, <2>2, <2>4
    <3>2. a.share = share /\ a.snaps = snaps /\ a.fault = FALSE /\ a.val = v
      BY <2>2, <3>1
    <3> QED
      BY <1>m, <3>2
  <2> QED
    BY <2>3, <2>4
<1> QED
  BY <1>4, <1>5

(* DELETE: success, and the refusal that counts as one, mean that the      *)
(* snapshot will not stay.                                                 *)
LEMMA DeleteAnswer ==
    ASSUME StateOK(share, snaps), NEW x \in SnapIDs, snaps[x].status # "unused",
           NEW a \in DeleteSnapshotRequest(x)
    PROVE  /\ Onward(a.share, a.snaps) /\ a.fault \in BOOLEAN
           /\ ~IsErr(a.err) \/ AlreadyGone(a.err) => Dead(a.snaps, x)
<1> DEFINE b  == ServiceDeleteSnapshot(x)
           sn == [snaps EXCEPT ![x].status = "deleting"]
<1>1. a \in Invoke(b)
  BY DEF DeleteSnapshotRequest
<1>2. snaps[x] \in Snap
  BY DEF StateOK
<1>3. /\ Onward(b.share, b.snaps) /\ b.fault = FALSE
      /\ ~IsErr(b.err) \/ AlreadyGone(b.err) => Dead(b.snaps, x)
  <2>1. ASSUME NEW code, b = Refuse(code)
        PROVE  /\ Denied(b)
               /\ AlreadyGone(b.err) => code \in {"shares_snapshot_not_found", "shares_not_found"}
    BY <2>1, RefuseIsDenied DEF Refuse, Answer, ModelsError, AlreadyGone
  <2>2. CASE ~ShareLive
    <3>1. Dead(snaps, x)
      BY <2>2 DEF ShareLive, StateOK, Gone, Dead
    <3>2. Denied(b)
      BY <2>1, <2>2 DEF ServiceDeleteSnapshot
    <3> QED
      BY <3>1, <3>2, StillOnward DEF Denied
  <2>3. CASE ShareLive /\ ~SnapLive(x)
    <3>1. Dead(snaps, x)
      BY <1>2, <2>3 DEF SnapLive, Snap, SnapStatuses, Dead
    <3>2. Denied(b)
      BY <2>1, <2>3 DEF ServiceDeleteSnapshot
    <3> QED
      BY <3>1, <3>2, StillOnward DEF Denied
  <2>4. CASE ShareLive /\ SnapLive(x) /\ snaps[x].status # "stable"
    <3>1. b = Refuse("shares_status_pending")
      BY <2>4 DEF ServiceDeleteSnapshot
    <3>2. Denied(b) /\ ~AlreadyGone(b.err)
      BY <2>1, <3>1
    <3> QED
      BY <3>2, StillOnward DEF Denied
  <2>5. CASE ShareLive /\ SnapLive(x) /\ snaps[x].status = "stable"
    <3>1. b = Accept(share, sn, None)
      BY <2>5 DEF ServiceDeleteSnapshot
    <3>2. /\ sn \in [SnapIDs -> Snap] /\ sn[x].status = "deleting"
          /\ \A y \in SnapIDs : SnapOnward(snaps[y], sn[y])
      BY <2>5 DEF StateOK, Snap, SnapStatuses, SnapOnward
    <3> HIDE DEF sn
    <3>3. Onward(share, sn)
      BY <2>5, <3>2, StillOnward DEF Onward, StateOK, ShareLive
    <3>4. b.share = share /\ b.snaps = sn /\ b.fault = FALSE
      BY <3>1 DEF Accept, Answer
    <3>5. Dead(sn, x)
      BY <3>2 DEF Dead
    <3> QED
      BY <3>3, <3>4, <3>5
  <2> QED
    BY <2>2, <2>3, <2>4, <2>5
<1> HIDE DEF b, sn
<1>4. Onward(a.share, a.snaps) /\ a.fault \in BOOLEAN
  BY <1>1, <1>3, InvokeSound
<1>5. a = b \/ (IsErr(a.err) /\ ~AlreadyGone(a.err))
  <2>1. ~AlreadyGone(OtherError)
    BY DEF AlreadyGone, OtherError
  <2>2. ASSUME NEW e \in FaultErrors PROVE ~AlreadyGone(e)
    BY FaultAssumption DEF AlreadyGone
  <2> QED
    BY <1>1, <2>1, <2>2, InvokeCases
<1> QED
  BY <1>3, <1>4, <1>5

--------------------------------------------------------------------------------
(* Snapshots: the steps of an operation.                                   *)

(* A call begins an operation, or refuses it.                              *)
LEMMA BeginSnapStep ==
    ASSUME DataInv, NEW s \in Snappers, NEW o, NEW x, NEW n, NEW c \in BOOLEAN, NEW loop,
           BeginSnap(s, o, x, n, c, loop), exp' = exp,
           \/ o = "CreateSnapshot" /\ x = None /\ n \in SnapNames /\ loop = "create"
           \/ o = "GetSnapshotByName" /\ x = None /\ n \in SnapNames /\ loop = "getByName"
           \/ /\ x \in SnapIDs /\ snaps[x].status # "unused" /\ n = None
              /\ (o = "GetSnapshot" /\ loop = "get") \/ (o = "DeleteSnapshot" /\ loop = "delete")
    PROVE  DataInv'
<1> DEFINE live == {y \in SnapIDs : SnapLive(y)}
           r    == [IdleSnap EXCEPT !.op = o, !.id = x, !.name = n, !.ops = sop[s].ops + 1, !.atStart = live]
           q    == IF c THEN Enter(r, loop) ELSE Fail(r, "ErrorRequiredFieldMissing")
<1>1. Onward(share', snaps') /\ snaps' = snaps
  BY StillOnward DEF BeginSnap, serviceVars, DataInv
<1>2. sop' = [sop EXCEPT ![s] = q]
  BY DEF BeginSnap
<1>3. sop[s].ops + 1 \in Nat
  BY DEF DataInv, SnapOp
<1>4. live \subseteq SnapIDs /\ \A y \in live : snaps[y].status # "unused"
  BY DEF SnapLive
<1>5. None \notin SnapIDs
  BY DataServiceAssumption
<1> HIDE DEF live
<1>6. /\ r \in SnapOp /\ r.op = o /\ r.id = x /\ r.name = n /\ r.atStart = live /\ r.pc = "idle"
      /\ r.snap = None /\ r.made = {} /\ r.res = "none"
  BY <1>3, <1>4, CodeNames DEF IdleSnap, SnapOp
<1>e. c => q = Enter(r, loop)
  OBVIOUS
<1>f. ~c => q = Fail(r, "ErrorRequiredFieldMissing")
  OBVIOUS
<1> HIDE DEF r, q
<1>7. SnapOK(r, snaps)
  BY <1>4, <1>6 DEF SnapOK, LoopOK, MadeOK, DeadOK, TrueOK
<1>8. CASE c
  <2>1. loop \in SnapLoops /\ loop # "waitGone"
    BY DEF SnapLoops
  <2>2. q \in SnapOp /\ Kept(q, r) /\ q.pc = loop /\ q.snap = None /\ q.res = "none"
    BY <1>6, <1>8, <1>e, <2>1, SnapEnters
  <2>3. LoopOK(q, snaps)
    BY <1>4, <1>5, <1>6, <2>2 DEF LoopOK, Kept
  <2>4. MadeOK(q, snaps) /\ DeadOK(q, snaps) /\ TrueOK(q, snaps)
    BY <1>6, <2>1, <2>2 DEF MadeOK, DeadOK, TrueOK, Kept
  <2>5. SnapOK(q, snaps')
    BY <1>1, <2>3, <2>4 DEF SnapOK
  <2> QED
    BY <1>1, <1>2, <2>5, SnapOwn
<1>9. CASE ~c
  <2>1. SnapOK(q, snaps')
    BY <1>1, <1>6, <1>7, <1>9, <1>f, SnapFails
  <2> QED
    BY <1>1, <1>2, <2>1, SnapOwn
<1> QED
  BY <1>8, <1>9

LEMMA CreateSnapshotStep ==
    ASSUME DataInv, NEW s \in Snappers, CreateSnapshotAttempt(s), exp' = exp
    PROVE  DataInv'
<1> DEFINE o == sop[s]
           Bo(a) == {x \in SnapIDs : snaps[x].status = "unused" /\ a.snaps[x].status # "unused"}
           R(a)  == [Hit(o, a) EXCEPT !.made = @ \cup Bo(a)]
           D(a)  == Return([R(a) EXCEPT !.snap = FromProviderToLibSnapshot(a.val)], "ok")
           F(a)  == Fail(R(a), "SnapshotCreationFailed")
           Q(a)  == Attempted(R(a), "retry", a.err, FALSE, D(a), F(a))
<1>1. PICK a \in CreateSnapshotRequest(o.name) : Deliver(a) /\ sop' = [sop EXCEPT ![s] = Q(a)]
  BY DEF CreateSnapshotAttempt
<1>2. /\ o \in SnapOp /\ o.op = "CreateSnapshot" /\ o.name \in SnapNames /\ o.pc = "create"
      /\ o.res = "none" /\ (o.made = {} \/ o.hit) /\ SnapOK(o, snaps)
  BY DEF DataInv, SnapOK, LoopOK, MadeOK, CreateSnapshotAttempt
<1>3. /\ Onward(a.share, a.snaps) /\ a.fault \in BOOLEAN
      /\ \A x \in Bo(a) : a.snaps[x].name = o.name /\ (IsErr(a.err) => a.fault)
      /\ ~IsErr(a.err) =>
            \E x \in SnapIDs :
               /\ a.snaps[x] = NewSnap(o.name) /\ a.val = [id |-> x, snap |-> NewSnap(o.name)]
               /\ \A y \in SnapIDs : y # x => a.snaps[y] = snaps[y]
               /\ \A y \in SnapIDs : snaps[y].name = o.name => ~SnapLive(y)
  BY <1>1, <1>2, CreateAnswer DEF DataInv
<1>4. snaps' = a.snaps /\ Onward(share', snaps')
  BY <1>1, <1>3 DEF Deliver
<1>5. SnapOK(o, snaps')
  BY <1>2, <1>4, SnapKeeps DEF DataInv
<1> DEFINE h == Hit(o, a)
           B == Bo(a)
           r == R(a)
           q == Q(a)
<1>6. r = [h EXCEPT !.made = @ \cup B]
  OBVIOUS
<1>7. \/ IsErr(a.err) /\ q = Repeat(r)
      \/ IsErr(a.err) /\ q = Fail(r, "SnapshotCreationFailed")
      \/ ~IsErr(a.err) /\ q = Return([r EXCEPT !.snap = FromProviderToLibSnapshot(a.val)], "ok")
  BY DEF Attempted, LoopEnds, Stops, Flexy
<1>b. B \subseteq SnapIDs /\ \A x \in B : snaps[x].status = "unused" /\ snaps'[x].status # "unused"
  BY <1>4
<1>q. sop' = [sop EXCEPT ![s] = q]
  BY <1>1
<1>h. h = Hit(o, a)
  OBVIOUS
<1>bb. \A x \in B : snaps'[x].name = o.name /\ (IsErr(a.err) => a.fault)
  BY <1>3, <1>4
<1> HIDE DEF o, h, B, r, q, Bo, R, D, F, Q
<1>8. /\ SnapOK(h, snaps') /\ h.op = o.op /\ h.name = o.name /\ h.made = o.made /\ h.pc = o.pc
      /\ h.res = o.res /\ (o.hit => h.hit) /\ (a.fault => h.hit) /\ h.id = o.id
      /\ h.snap = o.snap /\ h.atStart = o.atStart
  BY <1>h, <1>3, <1>5, SnapHit
<1>9. h \in SnapOp
  BY <1>8 DEF SnapOK, LoopOK
<1>10. /\ r \in SnapOp /\ r.op = h.op /\ r.name = h.name /\ r.made = h.made \cup B /\ r.pc = h.pc
       /\ r.res = h.res /\ r.hit = h.hit /\ r.id = h.id /\ r.snap = h.snap /\ r.atStart = h.atStart
  BY <1>6, <1>9, <1>b DEF SnapOp
<1>11. \A x \in r.made : snaps'[x].status # "unused" /\ snaps'[x].name = r.name
  BY <1>8, <1>10, <1>b, <1>bb DEF SnapOK, MadeOK
<1>12. CASE IsErr(a.err)
  <2>1. r.made = {} \/ r.hit
    <3>1. B # {} => a.fault
      BY <1>12, <1>bb
    <3>2. o.made = {} /\ B = {} => r.made = {}
      BY <1>8, <1>10
    <3> QED
      BY <1>2, <1>8, <1>10, <3>1, <3>2
  <2>2. SnapOK(r, snaps')
    <3>1. LoopOK(r, snaps')
      BY <1>8, <1>10 DEF SnapOK, LoopOK
    <3>2. MadeOK(r, snaps')
      BY <1>2, <1>8, <1>10, <1>11, <2>1 DEF MadeOK
    <3>3. DeadOK(r, snaps') /\ TrueOK(r, snaps')
      BY <1>2, <1>8, <1>10 DEF DeadOK, TrueOK
    <3> QED
      BY <3>1, <3>2, <3>3 DEF SnapOK
  <2>3. SnapOK(q, snaps')
    BY <1>7, <1>12, <2>1, <2>2, SnapRepeats, SnapFails
  <2> QED
    BY <1>4, <1>q, <2>3, SnapOwn
<1>13. CASE ~IsErr(a.err)
  <2>1. PICK x \in SnapIDs :
           /\ snaps'[x] = NewSnap(o.name) /\ a.val = [id |-> x, snap |-> NewSnap(o.name)]
           /\ \A y \in SnapIDs : y # x => snaps'[y] = snaps[y]
           /\ \A y \in SnapIDs : snaps[y].name = o.name => ~SnapLive(y)
    BY <1>3, <1>4, <1>13
  <2> DEFINE v == a.val
             w == FromProviderToLibSnapshot(v)
  <2>2. v \in SentSnap /\ v.id = x /\ v.snap = snaps'[x] /\ snaps'[x].status = "pending"
    <3>1. snaps'[x] \in Snap
      BY <1>4 DEF Onward, StateOK
    <3> QED
      BY <2>1, <3>1 DEF SentSnap, NewSnap
  <2>w. w = FromProviderToLibSnapshot(v)
    OBVIOUS
  <2>q. q = Return([r EXCEPT !.snap = w], "ok")
    BY <1>7, <1>13
  <2> HIDE DEF v, w
  <2>3. /\ w \in LibSnap /\ w # None /\ w.id = x /\ w.size = GiBToBytes(snaps'[x].min)
        /\ ~w.ready
    BY <2>2, <2>w, LibSnapIs
  <2>4. q \in SnapOp /\ Kept(q, r) /\ q.pc = "done" /\ q.snap = w /\ q.res = "ok"
    BY <1>10, <2>3, <2>q, CodeNames, SnapReturns
  <2>5. LoopOK(q, snaps')
    BY <1>8, <1>10, <2>4 DEF SnapOK, LoopOK, Kept
  <2>6. ASSUME NEW y \in r.made, y # x PROVE Dead(snaps', y)
    <3>1. y \in SnapIDs
      BY <1>10 DEF SnapOp
    <3>2. snaps'[y] = snaps[y] /\ snaps[y].status # "unused" /\ snaps[y].name = o.name
      BY <1>8, <1>10, <1>11, <2>1, <2>6, <3>1
    <3>3. ~SnapLive(y) /\ snaps[y] \in Snap
      BY <2>1, <3>1, <3>2 DEF DataInv, StateOK
    <3> QED
      BY <3>2, <3>3 DEF SnapLive, Snap, SnapStatuses, Dead
  <2>7. MadeOK(q, snaps')
    BY <1>11, <2>3, <2>4, <2>6 DEF MadeOK, Kept
  <2>8. DeadOK(q, snaps')
    BY <1>2, <1>8, <1>10, <2>4 DEF DeadOK, Kept
  <2>9. snaps'[x].name = q.name
    BY <1>8, <1>10, <2>1, <2>4 DEF NewSnap, Kept
  <2>10. TrueOK(q, snaps')
    BY <1>2, <1>8, <1>10, <2>2, <2>3, <2>4, <2>9 DEF TrueOK, Kept
  <2>11. SnapOK(q, snaps')
    BY <2>5, <2>7, <2>8, <2>10 DEF SnapOK
  <2> QED
    BY <1>4, <1>q, <2>11, SnapOwn
<1> QED
  BY <1>12, <1>13

(* A GET that answers with snapshot x, or by name with none.               *)
LEMMA AnswerReturned ==
    ASSUME StateOK(share, snaps), NEW r, SnapOK(r, snaps), r.pc \in {"get", "getByName"},
           NEW v, NEW q, q = Return([r EXCEPT !.snap = FromProviderToLibSnapshot(v)], "ok"),
           \/ \E x \in SnapIDs : /\ SnapLive(x) /\ v = [id |-> x, snap |-> snaps[x]]
                                 /\ r.name # None => snaps[x].name = r.name
           \/ v = None /\ \A y \in SnapIDs : snaps[y].name = r.name => ~SnapLive(y)
    PROVE  SnapOK(q, snaps)
<1> DEFINE w == FromProviderToLibSnapshot(v)
<1>1. /\ r \in SnapOp /\ r.op \in {"GetSnapshot", "GetSnapshotByName"} /\ r.atStart \subseteq SnapIDs
      /\ \A y \in r.atStart : snaps[y].status # "unused"
  BY DEF SnapOK, LoopOK, SnapOp
<1>w. w = FromProviderToLibSnapshot(v)
  OBVIOUS
<1>q. q = Return([r EXCEPT !.snap = w], "ok")
  OBVIOUS
<1> HIDE DEF w
<1>2. CASE v = None
  <2>1. w = None
    BY <1>w, <1>2 DEF FromProviderToLibSnapshot
  <2>2. q \in SnapOp /\ Kept(q, r) /\ q.pc = "done" /\ q.snap = None /\ q.res = "ok"
    BY <1>1, <1>q, <2>1, CodeNames, SnapReturns
  <2>3. ASSUME NEW y \in r.atStart, snaps[y].name = r.name PROVE snaps[y].status = "gone"
    <3>1. y \in SnapIDs /\ snaps[y] \in Snap /\ snaps[y].status # "unused"
      BY <1>1 DEF StateOK
    <3>2. \A x \in SnapIDs : [id |-> x, snap |-> snaps[x]] # None
      BY SnapshotAssumption DEF SentSnap, StateOK
    <3>3. ~SnapLive(y)
      BY <1>2, <2>3, <3>1, <3>2
    <3>4. snaps[y].status # "deleting"
      BY <3>3 DEF SnapLive
    <3> QED
      BY <3>1, <3>3 DEF SnapLive, Snap, SnapStatuses
  <2>4. LoopOK(q, snaps)
    BY <1>1, <2>2 DEF SnapOK, LoopOK, Kept
  <2>5. MadeOK(q, snaps) /\ DeadOK(q, snaps)
    BY <1>1, <2>2 DEF SnapOK, MadeOK, DeadOK, Kept
  <2>6. TrueOK(q, snaps)
    BY <2>2, <2>3 DEF TrueOK, Kept
  <2> QED
    BY <2>4, <2>5, <2>6 DEF SnapOK
<1>3. CASE v # None
  <2>1. PICK x \in SnapIDs : /\ SnapLive(x) /\ v = [id |-> x, snap |-> snaps[x]]
                             /\ r.name # None => snaps[x].name = r.name
    BY <1>3
  <2>2. v \in SentSnap /\ v.id = x /\ v.snap = snaps[x]
    BY <2>1 DEF SentSnap, StateOK
  <2>3. /\ w \in LibSnap /\ w # None /\ w.id = x /\ w.size = GiBToBytes(snaps[x].min)
        /\ w.ready => snaps[x].status = "stable"
    BY <1>w, <2>2, LibSnapIs
  <2>4. q \in SnapOp /\ Kept(q, r) /\ q.pc = "done" /\ q.snap = w /\ q.res = "ok"
    BY <1>1, <1>q, <2>3, CodeNames, SnapReturns
  <2>5. LoopOK(q, snaps)
    BY <1>1, <2>4 DEF SnapOK, LoopOK, Kept
  <2>6. MadeOK(q, snaps) /\ DeadOK(q, snaps)
    BY <1>1, <2>4 DEF SnapOK, MadeOK, DeadOK, Kept
  <2>7. snaps[x].status # "unused"
    BY <2>1 DEF SnapLive
  <2>8. TrueOK(q, snaps)
    BY <2>1, <2>3, <2>4, <2>7 DEF TrueOK, Kept
  <2> QED
    BY <2>5, <2>6, <2>8 DEF SnapOK
<1> QED
  BY <1>2, <1>3

LEMMA GetSnapshotStep ==
    ASSUME DataInv, NEW s \in Snappers, GetSnapshotAttempt(s), exp' = exp
    PROVE  DataInv'
<1> DEFINE o == sop[s]
           R(a) == Hit(o, a)
           D(a) == Return([R(a) EXCEPT !.snap = FromProviderToLibSnapshot(a.val)], "ok")
           Q(a) == Attempted(R(a), "retry", a.err, FALSE, D(a), Fail(R(a), "FailedToFindSnapshot"))
<1>1. PICK a \in GetSnapshotRequest(o.id) : Deliver(a) /\ sop' = [sop EXCEPT ![s] = Q(a)]
  BY DEF GetSnapshotAttempt
<1>2. /\ o.op = "GetSnapshot" /\ o.id \in SnapIDs /\ o.name = None /\ o.pc = "get" /\ SnapOK(o, snaps)
  BY DEF DataInv, SnapOK, LoopOK, GetSnapshotAttempt
<1>3. /\ a.share = share /\ a.snaps = snaps /\ a.fault \in BOOLEAN
      /\ ~IsErr(a.err) => SnapLive(o.id) /\ a.val = [id |-> o.id, snap |-> snaps[o.id]]
  BY <1>1, <1>2, GetAnswer DEF DataInv
<1>4. share' = share /\ snaps' = snaps /\ Onward(share', snaps')
  BY <1>1, <1>3, StillOnward DEF Deliver, DataInv
<1> DEFINE r == R(a)
           q == Q(a)
<1>5. \/ q = Repeat(r)
      \/ q = Fail(r, "FailedToFindSnapshot")
      \/ ~IsErr(a.err) /\ q = Return([r EXCEPT !.snap = FromProviderToLibSnapshot(a.val)], "ok")
  BY DEF Attempted, LoopEnds, Stops, Flexy
<1>r. r = Hit(o, a) /\ sop' = [sop EXCEPT ![s] = q]
  BY <1>1
<1> HIDE DEF o, r, q, R, D, Q
<1>6. SnapOK(r, snaps) /\ r.op = o.op /\ r.name = o.name /\ r.pc = o.pc
  BY <1>r, <1>2, <1>3, SnapHit
<1>7. SnapOK(q, snaps)
  <2>1. CASE q = Repeat(r)
    BY <1>6, <2>1, SnapRepeats
  <2>2. CASE q = Fail(r, "FailedToFindSnapshot")
    BY <1>2, <1>6, <2>2, SnapFails
  <2>3. CASE ~IsErr(a.err) /\ q = Return([r EXCEPT !.snap = FromProviderToLibSnapshot(a.val)], "ok")
    BY <1>2, <1>3, <1>6, <2>3, AnswerReturned DEF DataInv
  <2> QED
    BY <1>5, <2>1, <2>2, <2>3
<1> QED
  BY <1>4, <1>r, <1>7, SnapOwn

LEMMA GetSnapshotByNameStep ==
    ASSUME DataInv, NEW s \in Snappers, GetSnapshotByNameAttempt(s), exp' = exp
    PROVE  DataInv'
<1> DEFINE o == sop[s]
           R(a) == Hit(o, a)
           D(a) == Return([R(a) EXCEPT !.snap = FromProviderToLibSnapshot(a.val)], "ok")
           Q(a) == Attempted(R(a), "retry", a.err, FALSE, D(a), Fail(R(a), "StorageFindFailedWithSnapshotName"))
<1>1. PICK a \in GetSnapshotByNameRequest(o.name) : Deliver(a) /\ sop' = [sop EXCEPT ![s] = Q(a)]
  BY DEF GetSnapshotByNameAttempt
<1>2. o.op = "GetSnapshotByName" /\ o.name \in SnapNames /\ o.pc = "getByName" /\ SnapOK(o, snaps)
  BY DEF DataInv, SnapOK, LoopOK, GetSnapshotByNameAttempt
<1>3. /\ a.share = share /\ a.snaps = snaps /\ a.fault \in BOOLEAN
      /\ ~IsErr(a.err) =>
            \/ a.val = None /\ \A y \in SnapIDs : snaps[y].name = o.name => ~SnapLive(y)
            \/ \E x \in SnapIDs : snaps[x].name = o.name /\ SnapLive(x)
                                  /\ a.val = [id |-> x, snap |-> snaps[x]]
  BY <1>1, <1>2, FindAnswer DEF DataInv
<1>4. share' = share /\ snaps' = snaps /\ Onward(share', snaps')
  BY <1>1, <1>3, StillOnward DEF Deliver, DataInv
<1> DEFINE r == R(a)
           q == Q(a)
<1>5. \/ q = Repeat(r)
      \/ q = Fail(r, "StorageFindFailedWithSnapshotName")
      \/ ~IsErr(a.err) /\ q = Return([r EXCEPT !.snap = FromProviderToLibSnapshot(a.val)], "ok")
  BY DEF Attempted, LoopEnds, Stops, Flexy
<1>r. r = Hit(o, a) /\ sop' = [sop EXCEPT ![s] = q]
  BY <1>1
<1> HIDE DEF o, r, q, R, D, Q
<1>6. SnapOK(r, snaps) /\ r.op = o.op /\ r.name = o.name /\ r.pc = o.pc
  BY <1>r, <1>2, <1>3, SnapHit
<1>7. SnapOK(q, snaps)
  <2>1. CASE q = Repeat(r)
    BY <1>6, <2>1, SnapRepeats
  <2>2. CASE q = Fail(r, "StorageFindFailedWithSnapshotName")
    BY <1>2, <1>6, <2>2, SnapFails
  <2>3. CASE ~IsErr(a.err) /\ q = Return([r EXCEPT !.snap = FromProviderToLibSnapshot(a.val)], "ok")
    <3>1. StateOK(share, snaps) /\ r.pc \in {"get", "getByName"} /\ r.name = o.name
      BY <1>2, <1>6 DEF DataInv
    <3> DEFINE v == a.val
    <3>3. q = Return([r EXCEPT !.snap = FromProviderToLibSnapshot(v)], "ok")
      BY <2>3
    <3>4. \/ \E x \in SnapIDs : /\ SnapLive(x) /\ v = [id |-> x, snap |-> snaps[x]]
                                /\ r.name # None => snaps[x].name = r.name
          \/ v = None /\ \A y \in SnapIDs : snaps[y].name = r.name => ~SnapLive(y)
      BY <1>3, <2>3, <3>1
    <3> HIDE DEF v
    <3> QED
      BY <1>6, <3>1, <3>3, <3>4, AnswerReturned
  <2> QED
    BY <1>5, <2>1, <2>2, <2>3
<1> QED
  BY <1>4, <1>r, <1>7, SnapOwn

(* A deletion that the service has accepted, or has nothing to do for.     *)
LEMMA DeadOnward ==
    ASSUME NEW sn, NEW r, SnapOK(r, sn), r.pc \in {"delete", "waitGone"}, Dead(sn, r.id),
           NEW q \in SnapOp, Kept(q, r), q.snap = r.snap,
           \/ q.pc = "done" /\ q.res = "ok"
           \/ q.pc \in {"waitGone", "panicked"} /\ q.res = r.res
    PROVE  SnapOK(q, sn)
<1>1. r.op = "DeleteSnapshot" /\ r.id \in SnapIDs /\ r.snap = None /\ r.res = "none"
  BY DEF SnapOK, LoopOK
<1>2. LoopOK(q, sn)
  BY <1>1 DEF SnapOK, LoopOK, Kept
<1>3. MadeOK(q, sn)
  BY <1>1 DEF SnapOK, MadeOK, Kept
<1>4. DeadOK(q, sn)
  BY <1>1 DEF DeadOK, Kept
<1>5. TrueOK(q, sn)
  BY <1>1 DEF TrueOK, Kept
<1> QED
  BY <1>2, <1>3, <1>4, <1>5 DEF SnapOK

LEMMA DeleteSnapshotStep ==
    ASSUME DataInv, NEW s \in Snappers, DeleteSnapshotAttempt(s), exp' = exp
    PROVE  DataInv'
<1> DEFINE o == sop[s]
           R(a) == Hit(o, a)
           F(a) == IF AlreadyGone(a.err) THEN Return(R(a), "ok") ELSE Fail(R(a), "FailedToDeleteSnapshot")
           Q(a) == Attempted(R(a), "retry", a.err, FALSE, Enter(R(a), "waitGone"), F(a))
<1>1. PICK a \in DeleteSnapshotRequest(o.id) : Deliver(a) /\ sop' = [sop EXCEPT ![s] = Q(a)]
  BY DEF DeleteSnapshotAttempt
<1>2. /\ o.op = "DeleteSnapshot" /\ o.id \in SnapIDs /\ o.pc = "delete" /\ SnapOK(o, snaps)
      /\ snaps[o.id].status # "unused"
  BY DataServiceAssumption DEF DataInv, SnapOK, LoopOK, DeleteSnapshotAttempt
<1>3. /\ Onward(a.share, a.snaps) /\ a.fault \in BOOLEAN
      /\ ~IsErr(a.err) \/ AlreadyGone(a.err) => Dead(a.snaps, o.id)
  BY <1>1, <1>2, DeleteAnswer DEF DataInv
<1>4. snaps' = a.snaps /\ Onward(share', snaps')
  BY <1>1, <1>3 DEF Deliver
<1>5. SnapOK(o, snaps')
  BY <1>2, <1>4, SnapKeeps DEF DataInv
<1> DEFINE r == R(a)
           q == Q(a)
<1>6. \/ q = Repeat(r)
      \/ q = Fail(r, "FailedToDeleteSnapshot")
      \/ AlreadyGone(a.err) /\ q = Return(r, "ok")
      \/ ~IsErr(a.err) /\ q = Enter(r, "waitGone")
  BY DEF Attempted, LoopEnds, Stops, Flexy
<1>r. r = Hit(o, a) /\ sop' = [sop EXCEPT ![s] = q]
  BY <1>1
<1> HIDE DEF o, r, q, R, F, Q
<1>7. SnapOK(r, snaps') /\ r.op = o.op /\ r.id = o.id /\ r.pc = o.pc
  BY <1>r, <1>3, <1>5, SnapHit
<1>8. r \in SnapOp
  BY <1>7 DEF SnapOK, LoopOK
<1>9. SnapOK(q, snaps')
  <2>1. CASE q = Repeat(r)
    BY <1>7, <2>1, SnapRepeats
  <2>2. CASE q = Fail(r, "FailedToDeleteSnapshot")
    BY <1>2, <1>7, <2>2, SnapFails
  <2>3. CASE AlreadyGone(a.err) /\ q = Return(r, "ok")
    <3>1. q \in SnapOp /\ Kept(q, r) /\ q.pc = "done" /\ q.snap = r.snap /\ q.res = "ok"
      BY <1>8, <2>3, CodeNames, SnapReturnsAsIs
    <3> QED
      BY <1>2, <1>3, <1>4, <1>7, <2>3, <3>1, DeadOnward
  <2>4. CASE ~IsErr(a.err) /\ q = Enter(r, "waitGone")
    <3>1. "waitGone" \in SnapLoops
      BY DEF SnapLoops
    <3>2. q \in SnapOp /\ Kept(q, r) /\ q.pc = "waitGone" /\ q.snap = r.snap /\ q.res = r.res
      BY <1>8, <2>4, <3>1, SnapEnters
    <3> QED
      BY <1>2, <1>3, <1>4, <1>7, <2>4, <3>2, DeadOnward
  <2> QED
    BY <1>6, <2>1, <2>2, <2>3, <2>4
<1> QED
  BY <1>4, <1>r, <1>9, SnapOwn

LEMMA WaitForSnapshotDeletionStep ==
    ASSUME DataInv, NEW s \in Snappers, WaitForSnapshotDeletion(s), exp' = exp
    PROVE  DataInv'
<1> DEFINE o == sop[s]
           R(a) == Hit(o, a)
           Q(a) == IF a.err.kind = "other"
                   THEN [R(a) EXCEPT !.pc = "panicked"]
                   ELSE Attempted(R(a), "FlexyRetry", NoError, IsErr(a.err) /\ skipRetry(a.err),
                                  Return(R(a), "ok"), Fail(R(a), "FailedToDeleteSnapshot"))
<1>1. PICK a \in GetSnapshotRequest(o.id) : Deliver(a) /\ sop' = [sop EXCEPT ![s] = Q(a)]
  BY DEF WaitForSnapshotDeletion
<1>2. o.id \in SnapIDs /\ o.pc = "waitGone" /\ SnapOK(o, snaps) /\ Dead(snaps, o.id)
  BY DEF DataInv, SnapOK, LoopOK, DeadOK, WaitForSnapshotDeletion
<1>3. a.share = share /\ a.snaps = snaps /\ a.fault \in BOOLEAN
  BY <1>1, <1>2, GetAnswer DEF DataInv
<1>4. share' = share /\ snaps' = snaps /\ Onward(share', snaps')
  BY <1>1, <1>3, StillOnward DEF Deliver, DataInv
<1> DEFINE r == R(a)
           q == Q(a)
<1>5. q = Repeat(r) \/ q = Return(r, "ok") \/ q = [r EXCEPT !.pc = "panicked"]
  BY DEF Attempted, NoError, IsErr
<1>r. r = Hit(o, a) /\ sop' = [sop EXCEPT ![s] = q]
  BY <1>1
<1> HIDE DEF o, r, q, R, Q
<1>6. SnapOK(r, snaps) /\ r.id = o.id /\ r.pc = o.pc
  BY <1>r, <1>2, <1>3, SnapHit
<1>7. r \in SnapOp
  BY <1>6 DEF SnapOK, LoopOK
<1>8. SnapOK(q, snaps)
  <2>1. CASE q = Repeat(r)
    BY <1>6, <2>1, SnapRepeats
  <2>2. CASE q = Return(r, "ok")
    <3>1. q \in SnapOp /\ Kept(q, r) /\ q.pc = "done" /\ q.snap = r.snap /\ q.res = "ok"
      BY <1>7, <2>2, CodeNames, SnapReturnsAsIs
    <3> QED
      BY <1>2, <1>6, <3>1, DeadOnward
  <2>3. CASE q = [r EXCEPT !.pc = "panicked"]
    <3>1. q \in SnapOp /\ Kept(q, r) /\ q.pc = "panicked" /\ q.snap = r.snap /\ q.res = r.res
      BY <1>7, <2>3 DEF SnapOp, Kept
    <3> QED
      BY <1>2, <1>6, <3>1, DeadOnward
  <2> QED
    BY <1>5, <2>1, <2>2, <2>3
<1> QED
  BY <1>4, <1>r, <1>8, SnapOwn

--------------------------------------------------------------------------------
LEMMA SnapCallStep ==
    ASSUME DataInv, NEW s \in Snappers, SnapCall(s), exp' = exp
    PROVE  DataInv'
<1>1. ASSUME NEW n \in SnapNames, NEW c \in BOOLEAN, CreateSnapshot(s, n, c) PROVE DataInv'
  BY <1>1, BeginSnapStep DEF CreateSnapshot
<1>2. ASSUME NEW n \in SnapNames, NEW c \in BOOLEAN, GetSnapshotByName(s, n, c) PROVE DataInv'
  BY <1>2, BeginSnapStep DEF GetSnapshotByName
<1>3. ASSUME NEW x \in SnapIDs, NEW c \in BOOLEAN, snaps[x].status # "unused", GetSnapshot(s, x, c)
      PROVE  DataInv'
  BY <1>3, BeginSnapStep DEF GetSnapshot
<1>4. ASSUME NEW x \in SnapIDs, NEW c \in BOOLEAN, snaps[x].status # "unused", DeleteSnapshot(s, x, c)
      PROVE  DataInv'
  BY <1>4, BeginSnapStep DEF DeleteSnapshot
<1> QED
  BY <1>1, <1>2, <1>3, <1>4 DEF SnapCall

LEMMA DataStep == DataInv /\ [Next]_dataVars => DataInv'
<1> SUFFICES ASSUME DataInv, [Next]_dataVars PROVE DataInv'
  OBVIOUS
<1>1. ASSUME NEW s \in Expanders, ExpandStep(s), UNCHANGED sop PROVE DataInv'
  BY <1>1, GetVolumeToExpandStep, ExpandAttemptStep, WaitForExpandedShareStep DEF ExpandStep
<1>2. ASSUME NEW s \in Expanders, ExpandCall(s), UNCHANGED sop PROVE DataInv'
  BY <1>2, ExpandVolumeStep DEF ExpandCall
<1>3. ASSUME NEW s \in Snappers, SnapStep(s), UNCHANGED exp PROVE DataInv'
  BY <1>3, CreateSnapshotStep, GetSnapshotStep, GetSnapshotByNameStep, DeleteSnapshotStep,
     WaitForSnapshotDeletionStep DEF SnapStep
<1>4. ASSUME NEW s \in Snappers, SnapCall(s), UNCHANGED exp PROVE DataInv'
  BY <1>4, SnapCallStep
<1>5. ASSUME ServiceStep, UNCHANGED <<exp, sop>> PROVE DataInv'
  BY <1>5, ServiceStepOnward, Others DEF DataInv
<1>6. ASSUME UNCHANGED dataVars PROVE DataInv'
  <2>1. share' = share /\ snaps' = snaps /\ exp' = exp /\ sop' = sop
    BY <1>6 DEF dataVars, serviceVars
  <2> QED
    BY <2>1 DEF DataInv
<1> QED
  BY <1>1, <1>2, <1>3, <1>4, <1>5, <1>6 DEF Next

(* The inductive invariant of expansions and snapshots of one share.       *)
THEOREM DataInvariant == Spec => []DataInv
<1> QED
  BY DataInit, DataStep, PTL DEF Spec

(* When ExpandVolume succeeds the share has the capacity asked for, for    *)
(* every capacity and every width of the integers its size fits in.        *)
THEOREM LargeEnoughTheorem == Spec => []ExpandedShareIsLargeEnough
<1>1. DataInv => ExpandedShareIsLargeEnough
  BY DEF DataInv, ExpandOK, ExpandedShareIsLargeEnough
<1> QED
  BY <1>1, DataInvariant, PTL

(* DeleteSnapshot reports success only for a snapshot that will not stay.  *)
THEOREM SnapshotDoomedTheorem == Spec => []DeletedSnapshotIsDoomed
<1>1. DataInv => DeletedSnapshotIsDoomed
  BY DEF DataInv, SnapOK, DeadOK, DeletedSnapshotIsDoomed, SnapOk, SnapDead, Dead
<1> QED
  BY <1>1, DataInvariant, PTL

(* What CreateSnapshot, GetSnapshot and GetSnapshotByName return is so.    *)
THEOREM AnswersTheorem == Spec => []SnapshotAnswersAreTrue
<1>1. ASSUME DataInv PROVE SnapshotAnswersAreTrue
  BY <1>1 DEF DataInv, SnapOK, TrueOK, SnapshotAnswersAreTrue, SnapLive
<1> QED
  BY <1>1, DataInvariant, PTL

(* CreateSnapshot leaves no other living snapshot behind, and none at all  *)
(* when it fails, unless one of its requests met a fault.                  *)
THEOREM StrayTheorem == Spec => []NoStraySnapshot
<1>1. ASSUME DataInv PROVE NoStraySnapshot
  <2>1. SUFFICES ASSUME NEW s \in Snappers, sop[s].op = "CreateSnapshot", sop[s].pc = "done"
                 PROVE  LET stray == {x \in sop[s].made : ~SnapDead(x)}
                        IN  IF sop[s].res = "ok" THEN stray \subseteq {sop[s].snap.id}
                            ELSE stray # {} => sop[s].hit
    BY DEF NoStraySnapshot
  <2>2. MadeOK(sop[s], snaps)
    BY <1>1 DEF DataInv, SnapOK
  <2> QED
    BY <2>1, <2>2 DEF MadeOK, SnapDead, Dead
<1> QED
  BY <1>1, DataInvariant, PTL
================================================================================
