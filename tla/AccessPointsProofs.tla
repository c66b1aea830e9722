--------------------------- MODULE AccessPointsProofs ---------------------------
(***************************************************************************)
(* What the access point operations promise, proved for every number of    *)
(* sessions, shares, targets, VPCs, attempts and faults, while other       *)
(* sessions create and delete the volumes.                                 *)
(*                                                                         *)
(* The inductive invariant is that of the volume operations (VolInv) and,  *)
(* for the access points, a condition on the service (a share has at most  *)
(* one live target in a VPC, and a share with a live target is not being   *)
(* deleted) and one on the operation r of a session, given the shares sh   *)
(* and the targets tg.  What r knows of its targets stays true while       *)
(* targets move onward (ApKeeps), so that a step is proved by looking at   *)
(* its own session alone (ApOwn).                                          *)
(***************************************************************************)
EXTENDS AccessPoints, ShareLifecycleProofs

ApOperation ==
    [op    : Operations \cup {None},
     pc    : Running \cup {"idle", "done"},
     i     : Nat,
     j     : Nat,
     share : ShareIDs \cup {None},
     tid   : TargetIDs \cup {None},
     vpc   : VPCs \cup {None},
     home  : VPCs \cup {None},
     cur   : TargetIDs \cup {None},
     res   : ApResults \cup {None},
     hit   : BOOLEAN,
     at    : SUBSET TargetIDs,
     ready : BOOLEAN,
     ops   : 0 .. MaxApOps]

ServiceOK(sh, tg) ==
    /\ \A t \in TargetIDs : Live(tg[t]) => sh[tg[t].share].status \in {"pending", "stable"}
    /\ \A t \in TargetIDs : /\ tg[t].status = "unused" => tg[t].share = None
                            /\ tg[t].status # "unused" => tg[t].share \in ShareIDs /\ tg[t].vpc \in VPCs
    /\ \A t, u \in TargetIDs :
          t # u /\ Live(tg[t]) /\ Live(tg[u]) /\ tg[t].share = tg[u].share => tg[t].vpc # tg[u].vpc

(* u is, or was, a target that the request of r names.                     *)
IsNamed(r, tg, u) ==
    /\ tg[u].status # "unused" /\ tg[u].share = r.share
    /\ IF r.tid # None THEN u = r.tid ELSE tg[u].vpc = r.vpc

RunsOK(r, sh, tg) ==
    /\ r.i < 4 * maxRetryAttempt /\ r.j < maxRetryAttempt
    /\ r.pc \in Running => r.op \in Operations /\ r.share \in ShareIDs
    /\ r.pc \in Running /\ r.tid # None => IsNamed(r, tg, r.tid)
    /\ r.op = "CreateVolumeAccessPoint" /\ r.pc \in Running =>
          r.home \in VPCs /\ r.vpc \in {r.home, None} /\ (r.tid # None => r.vpc = None)
    /\ r.pc = "post" => r.op = "CreateVolumeAccessPoint"
    /\ r.pc = "remove" => /\ r.op = "DeleteVolumeAccessPoint"
                          /\ r.cur \in TargetIDs /\ IsNamed(r, tg, r.cur)
    /\ r.ready => r.share \in ShareIDs /\ sh[r.share].status \notin {"unused", "pending"}
    /\ \A u \in r.at : IsNamed(r, tg, u)

Did(r, o) == r.op = o /\ r.pc = "done" /\ r.res = "ok"

EndsOK(r, tg) ==
    /\ Did(r, "CreateVolumeAccessPoint") =>
          /\ r.cur \in TargetIDs /\ tg[r.cur].status # "unused"
          /\ tg[r.cur].share = r.share /\ (r.cur = r.tid \/ tg[r.cur].vpc = r.home)
    /\ Did(r, "DeleteVolumeAccessPoint") /\ ~r.hit => \A u \in r.at : Accepted(tg[u])
    /\ Did(r, "WaitForCreateVolumeAccessPoint") =>
          r.cur \in TargetIDs /\ tg[r.cur].status \notin {"unused", "pending"}
    /\ Did(r, "WaitForDeleteVolumeAccessPoint") /\ ~r.hit =>
          r.tid \in TargetIDs /\ tg[r.tid].status = "gone"

ApOK(r, sh, tg) == r \in ApOperation /\ RunsOK(r, sh, tg) /\ EndsOK(r, tg)

ApInv ==
    /\ BackendTypeOK
    /\ ServiceOK(shares, targets)
    /\ ap \in [ApSessions -> ApOperation]
    /\ \A s \in ApSessions : ApOK(ap[s], shares, targets)

(* A creator that no fault has hit and that tries again on a stable share  *)
(* finds the target that was in its way, or there is no target left to     *)
(* create and none in its way.                                             *)
Holds(tg, x, v) == \E t \in TargetIDs : Live(tg[t]) /\ tg[t].share = x /\ tg[t].vpc = v
NoneFree(tg)    == \A t \in TargetIDs : tg[t].status # "unused"

RacesOK(r, tg) ==
    r.op = "CreateVolumeAccessPoint" /\ r.ready /\ ~r.hit /\ r.vpc # None =>
        /\ r.pc = "find" /\ r.i > 0 => Holds(tg, r.share, r.vpc) \/ NoneFree(tg)
        /\ \/ r.pc = "post" /\ r.i > 0
           \/ r.pc = "done" /\ r.res = "CreateVolumeAccessPointFailed"
           => ~Holds(tg, r.share, r.vpc) /\ NoneFree(tg)

RaceInv == NothingDeleted => \A s \in ApSessions : RacesOK(ap[s], targets)

--------------------------------------------------------------------------------
(* The service.                                                            *)
NothingBorn(tg) == \A u \in TargetIDs : targets[u].status = "unused" => tg[u] = targets[u]

LEMMA ServiceStays ==
    ASSUME BackendTypeOK, ServiceOK(shares, targets), NEW sh, NEW tg, TargetsOnward(tg), NothingBorn(tg),
           \A t \in TargetIDs : Live(tg[t]) => sh[tg[t].share].status \in {"pending", "stable"}
    PROVE  ServiceOK(sh, tg)
<1>1. ASSUME NEW t \in TargetIDs, tg[t].status # "unused"
      PROVE  /\ targets[t].status # "unused"
             /\ tg[t].share = targets[t].share /\ tg[t].vpc = targets[t].vpc
             /\ Live(tg[t]) => Live(targets[t])
  BY <1>1 DEF TargetsOnward, NothingBorn, Onward, Live
<1>2. ASSUME NEW t \in TargetIDs, tg[t].status = "unused" PROVE tg[t].share = None
  BY <1>2 DEF TargetsOnward, NothingBorn, Onward, ServiceOK
<1>3. \A t \in TargetIDs : Live(tg[t]) => tg[t].status # "unused"
  BY DEF Live
<1> QED
  BY <1>1, <1>2, <1>3 DEF ServiceOK

LEMMA ServiceBorn ==
    ASSUME BackendTypeOK, ServiceOK(shares, targets), NEW x \in ShareIDs, NEW v \in VPCs, NEW t,
           TargetBorn(t, x, v)
    PROVE  ServiceOK(shares, WithTarget(t, x, v))
<1> DEFINE tg == WithTarget(t, x, v)
<1>1. /\ t \in TargetIDs /\ tg[t].status = "pending" /\ tg[t].share = x /\ tg[t].vpc = v
      /\ shares[x].status = "stable"
  BY DEF BackendTypeOK, WithTarget, TargetBorn
<1>2. \A u \in TargetIDs : u # t => tg[u] = targets[u]
  BY DEF BackendTypeOK, WithTarget
<1>3. \A u \in TargetIDs : Live(targets[u]) /\ targets[u].share = x => targets[u].vpc # v
  BY DEF TargetBorn, TargetsOf
<1> HIDE DEF tg
<1>4. ServiceOK(shares, tg)
  BY <1>1, <1>2, <1>3, BackendAssumption DEF ServiceOK
<1> QED
  BY <1>4 DEF tg

LEMMA ServiceSettles ==
    ASSUME BackendTypeOK, ServiceOK(shares, targets), BackendStep
    PROVE  ServiceOK(shares', targets')
<1>1. TargetsOnward(targets')
  BY BackendStepOnward DEF BackendOnward
<1>2. ASSUME NEW x \in ShareIDs, ShareSettles(x) PROVE ServiceOK(shares', targets')
  <2>1. targets' = targets /\ NothingBorn(targets')
    BY <1>2 DEF ShareSettles, NothingBorn
  <2>2. ASSUME NEW t \in TargetIDs, Live(targets[t])
        PROVE  shares'[targets[t].share].status \in {"pending", "stable"}
    <3>1. targets[t].share \in ShareIDs /\ shares[targets[t].share].status \in {"pending", "stable"}
      BY <2>2 DEF ServiceOK, Live
    <3> QED
      BY <1>2, <3>1 DEF ShareSettles, BackendTypeOK
  <2> QED
    BY <1>1, <2>1, <2>2, ServiceStays
<1>3. ASSUME NEW t \in TargetIDs, TargetSettles(t) PROVE ServiceOK(shares', targets')
  <2>1. shares' = shares /\ NothingBorn(targets')
    BY <1>3 DEF TargetSettles, NothingBorn, BackendTypeOK
  <2>2. ASSUME NEW u \in TargetIDs, Live(targets'[u])
        PROVE  Live(targets[u]) /\ targets'[u].share = targets[u].share
    BY <1>1, <2>1, <2>2 DEF TargetsOnward, Onward, NothingBorn, Live
  <2> QED
    BY <1>1, <2>1, <2>2, ServiceStays DEF ServiceOK
<1> QED
  BY <1>2, <1>3 DEF BackendStep

(* A volume is created, with a target of its own or without ...            *)
LEMMA ServiceFirst ==
    ASSUME BackendTypeOK, ServiceOK(shares, targets), NEW n \in Names, NEW v, NEW x \in ShareIDs,
           shares[x].status = "unused", NEW tg, FirstTarget(tg, x, v)
    PROVE  ServiceOK(Born(x, n), tg)
<1> DEFINE sh == Born(x, n)
<1>1. sh[x].status = "pending" /\ \A y \in ShareIDs : y # x => sh[y] = shares[y]
  BY DEF Born, BackendTypeOK
<1>2. \A t \in TargetIDs : Live(targets[t]) => targets[t].share # x /\ targets[t].share \in ShareIDs
  BY DEF ServiceOK, Live
<1> HIDE DEF sh
<1>3. CASE tg = targets
  <2>1. \A t \in TargetIDs : Live(tg[t]) => sh[tg[t].share].status \in {"pending", "stable"}
    BY <1>1, <1>2, <1>3 DEF ServiceOK
  <2> QED
    BY <1>3, <2>1 DEF ServiceOK, sh
<1>4. ASSUME NEW t \in TargetIDs, targets[t].status = "unused", v \in VPCs, tg = WithTarget(t, x, v)
      PROVE  ServiceOK(sh, tg)
  <2>1. tg[t].status = "pending" /\ tg[t].share = x /\ tg[t].vpc = v
    BY <1>4 DEF BackendTypeOK, WithTarget
  <2>2. \A u \in TargetIDs : u # t => tg[u] = targets[u]
    BY <1>4 DEF BackendTypeOK, WithTarget
  <2>3. \A u \in TargetIDs : Live(tg[u]) => sh[tg[u].share].status \in {"pending", "stable"}
    BY <1>1, <1>2, <2>1, <2>2 DEF ServiceOK
  <2> QED
    BY <1>2, <1>4, <2>1, <2>2, <2>3, BackendAssumption DEF ServiceOK
<1> QED
  BY <1>3, <1>4 DEF FirstTarget, sh

(* ... or retired, which leaves no target behind.                          *)
LEMMA ServiceRetires ==
    ASSUME BackendTypeOK, ServiceOK(shares, targets), NEW x \in ShareIDs, NEW sh, Retired(sh, x)
    PROVE  ServiceOK(sh, targets)
<1>1. CASE TargetsOf(x) = {} /\ sh = [shares EXCEPT ![x].status = "deleting"]
  <2>1. \A t \in TargetIDs : Live(targets[t]) => targets[t].share # x /\ targets[t].share \in ShareIDs
    BY <1>1 DEF ServiceOK, Live, TargetsOf
  <2>2. \A y \in ShareIDs : y # x => sh[y] = shares[y]
    BY <1>1 DEF BackendTypeOK
  <2> QED
    BY <2>1, <2>2 DEF ServiceOK
<1> QED
  BY <1>1 DEF Retired

(* So the volume operations leave the service in order for the access      *)
(* point operations.                                                       *)
LEMMA VolService ==
    ASSUME VolInv, ServiceOK(shares, targets), NEW s \in Sessions, VolStep(s) \/ VolCall(s)
    PROVE  BackendTypeOK' /\ BackendOnward /\ ServiceOK(shares', targets')
<1>1. BackendTypeOK /\ SessionOK(vol[s], shares) /\ vol[s] \in Operation
  BY DEF VolInv, SessionOK
<1>2. CASE VolCall(s)
  <2>1. UNCHANGED backendVars
    BY <1>2 DEF VolCall, CreateVolume, DeleteVolume
  <2> QED
    BY <1>1, <2>1, StillOnward DEF backendVars, BackendTypeOK, BackendOnward
<1>3. CASE CreateShareAttempt(s)
  <2>1. PICK o \in CreateFileShare(vol[s].name, vol[s].vpc) : Deliver(o)
    BY <1>3 DEF CreateShareAttempt
  <2>2. vol[s].name \in Names /\ vol[s].vpc \in VPCs \cup {None}
    BY <1>1, <1>3 DEF CreateShareAttempt, SessionOK, CreateOK, Operation
  <2>3. /\ Sound(o)
        /\ \/ o.shares = shares /\ o.targets = targets
           \/ \E x \in ShareIDs : /\ shares[x].status = "unused" /\ o.shares = Born(x, vol[s].name)
                                 /\ FirstTarget(o.targets, x, vol[s].vpc)
    BY <1>1, <2>1, <2>2, CreateShareOutcome
  <2>4. ServiceOK(o.shares, o.targets)
    BY <1>1, <2>2, <2>3, ServiceFirst
  <2> QED
    BY <1>1, <2>1, <2>3, <2>4, DeliverSound DEF Deliver
<1>4. CASE DeleteShareAttempt(s)
  <2>1. PICK o \in DeleteFileShare(vol[s].id) : Deliver(o)
    BY <1>4 DEF DeleteShareAttempt
  <2>2. vol[s].id \in ShareIDs
    BY <1>1, <1>4 DEF DeleteShareAttempt, SessionOK, DeleteOK
  <2>3. Sound(o) /\ o.targets = targets /\ Retired(o.shares, vol[s].id)
    BY <1>1, <2>1, <2>2, DeleteShareOutcome
  <2>4. ServiceOK(o.shares, o.targets)
    BY <1>1, <2>2, <2>3, ServiceRetires
  <2> QED
    BY <1>1, <2>1, <2>3, <2>4, DeliverSound DEF Deliver
<1>5. CASE WaitForValidVolumeState(s) \/ GetVolume(s) \/ WaitForVolumeDeletion(s)
  <2>1. PICK o \in GetFileShare(vol[s].id) : Deliver(o)
    BY <1>5 DEF WaitForValidVolumeState, GetVolume, WaitForVolumeDeletion
  <2>2. vol[s].id \in ShareIDs
    BY <1>1, <1>5 DEF WaitForValidVolumeState, GetVolume, WaitForVolumeDeletion,
                      SessionOK, CreateOK, DeleteOK, Operation
  <2>3. Sound(o) /\ o.shares = shares /\ o.targets = targets
    BY <1>1, <2>1, <2>2, GetShareOutcome
  <2> QED
    BY <1>1, <2>1, <2>3, DeliverSound DEF Deliver
<1> QED
  BY <1>2, <1>3, <1>4, <1>5 DEF VolStep

LEMMA ApInitOK == ApInit => ApInv
<1> SUFFICES ASSUME ApInit PROVE ApInv
  OBVIOUS
<1>1. BackendTypeOK
  BY BackendAssumption DEF ApInit, ShareExists, TargetsExist, BackendTypeOK, Statuses
<1>2. ServiceOK(shares, targets)
  <2>1. \A x \in ShareIDs : Live(shares[x]) => shares[x].status \in {"pending", "stable"}
    BY DEF ApInit, ShareExists, Live
  <2>2. \A t \in TargetIDs :
           /\ targets[t].status = "unused" => targets[t].share = None
           /\ targets[t].status # "unused" => targets[t].share \in ShareIDs /\ targets[t].vpc \in VPCs
    BY DEF ApInit, TargetsExist
  <2>3. \A t \in TargetIDs : Live(targets[t]) => Live(shares[targets[t].share])
    BY DEF ApInit, TargetsExist
  <2>4. \A t \in TargetIDs : Live(targets[t]) => shares[targets[t].share].status \in {"pending", "stable"}
    BY <2>1, <2>2, <2>3 DEF Live
  <2> QED
    BY <2>2, <2>4 DEF ApInit, TargetsExist, ServiceOK
<1>3. IdleAp \in ApOperation
  BY ApOpsAssumption DEF IdleAp, ApOperation
<1>4. ApOK(IdleAp, shares, targets)
  BY <1>3, AttemptAssumption DEF IdleAp, ApOK, RunsOK, EndsOK, Did, Running
<1> QED
  BY <1>1, <1>2, <1>3, <1>4 DEF ApInit, ApInv

--------------------------------------------------------------------------------
(* What an operation knows of its share and targets stays true.            *)
LEMMA ApKeeps ==
    ASSUME BackendTypeOK, BackendOnward, ServiceOK(shares', targets'), NEW r,
           ApOK(r, shares, targets)
    PROVE  ApOK(r, shares', targets')
<1>1. /\ r \in ApOperation /\ r.at \subseteq TargetIDs
      /\ r.tid # None => r.tid \in TargetIDs
  BY DEF ApOK, ApOperation
<1>2. ASSUME NEW u \in TargetIDs, IsNamed(r, targets, u) PROVE IsNamed(r, targets', u)
  BY <1>2 DEF IsNamed, BackendOnward, TargetsOnward, Onward
<1>3. r.ready => r.share \in ShareIDs /\ shares'[r.share].status \notin {"unused", "pending"}
  BY DEF ApOK, RunsOK, BackendOnward, SharesOnward, Onward
<1>4. RunsOK(r, shares', targets')
  BY <1>1, <1>2, <1>3 DEF ApOK, RunsOK
<1>5. EndsOK(r, targets')
  BY <1>1 DEF ApOK, EndsOK, Accepted, BackendOnward, TargetsOnward, Onward, Target, Statuses
<1> QED
  BY <1>1, <1>4, <1>5 DEF ApOK

(* So a step need only be looked at in its own session.                    *)
LEMMA ApOwn ==
    ASSUME ApInv, NEW s \in ApSessions, NEW q, ap' = [ap EXCEPT ![s] = q],
           BackendTypeOK', BackendOnward, ServiceOK(shares', targets'),
           ApOK(q, shares', targets')
    PROVE  ApInv'
<1>1. q \in ApOperation
  BY DEF ApOK
<1>2. ap' \in [ApSessions -> ApOperation]
  BY <1>1 DEF ApInv
<1>3. ASSUME NEW u \in ApSessions PROVE ApOK(ap'[u], shares', targets')
  BY ApKeeps DEF ApInv
<1> QED
  BY <1>2, <1>3 DEF ApInv

(* Of two targets a request names, at most one is live; the other is gone. *)
LEMMA OneNamed ==
    ASSUME BackendTypeOK, ServiceOK(shares, targets), NEW r \in ApOperation, NEW t \in TargetIDs,
           NEW u \in TargetIDs, IsNamed(r, targets, t), IsNamed(r, targets, u), Live(targets[t]), u # t
    PROVE  Accepted(targets[u])
BY DEF IsNamed, ServiceOK, Live, Accepted, BackendTypeOK, Statuses

LEMMA NotLiveIsGone ==
    ASSUME BackendTypeOK, NEW r, NEW u \in TargetIDs, IsNamed(r, targets, u), ~Live(targets[u])
    PROVE  targets[u].status = "gone" /\ Accepted(targets[u])
BY DEF IsNamed, Live, Accepted, BackendTypeOK, Statuses

--------------------------------------------------------------------------------
(* What the updates of an operation leave alone.                           *)
Same(q, r) ==
    /\ q \in ApOperation /\ q.op = r.op /\ q.share = r.share /\ q.tid = r.tid /\ q.vpc = r.vpc
    /\ q.home = r.home /\ q.at = r.at /\ (q.ready => r.ready) /\ (r.hit => q.hit)

LEMMA SameSame == ASSUME NEW p, NEW q, NEW r, Same(p, q), Same(q, r) PROVE Same(p, r)
BY DEF Same

LEMMA HitAp ==
    ASSUME NEW r \in ApOperation, NEW o, o.fault \in BOOLEAN, NEW q, q = [r EXCEPT !.hit = @ \/ o.fault]
    PROVE  /\ Same(q, r) /\ (o.fault => q.hit)
           /\ q.pc = r.pc /\ q.i = r.i /\ q.j = r.j /\ q.cur = r.cur /\ q.res = r.res
<1>1. (r.hit \/ o.fault) \in BOOLEAN
  BY DEF ApOperation
<1>2. /\ q \in ApOperation /\ q.op = r.op /\ q.share = r.share /\ q.tid = r.tid /\ q.vpc = r.vpc
      /\ q.home = r.home /\ q.at = r.at
      /\ q.pc = r.pc /\ q.i = r.i /\ q.j = r.j /\ q.cur = r.cur /\ q.res = r.res
  BY <1>1 DEF ApOperation
<1>3. (r.hit \/ o.fault) => q.hit
  BY DEF ApOperation
<1>4. q.ready = r.ready
  BY Zenon DEF ApOperation
<1> QED
  BY <1>2, <1>3, <1>4 DEF Same

LEMMA CurAp ==
    ASSUME NEW r \in ApOperation, NEW t \in TargetIDs, NEW q, q = [r EXCEPT !.cur = t]
    PROVE  Same(q, r) /\ q.cur = t /\ q.i = r.i
BY DEF ApOperation, Same

LEMMA ConcludeAp ==
    ASSUME NEW r \in ApOperation, NEW result \in ApResults, NEW q, q = Conclude(r, result)
    PROVE  Same(q, r) /\ q.pc = "done" /\ q.res = result /\ q.i = 0 /\ q.j = 0 /\ q.cur = r.cur
BY DEF ApOperation, Same, Conclude

LEMMA FindAp ==
    ASSUME NEW r \in ApOperation, NEW q, q = Find(r)
    PROVE  Same(q, r) /\ q.pc = "find" /\ q.i = r.i /\ q.j = 0
BY DEF Find, ApOperation, Same, Running

Removing(r, t) == [r EXCEPT !.pc = "remove", !.cur = t, !.j = 0]

LEMMA RemoveAp ==
    ASSUME NEW r \in ApOperation, NEW t \in TargetIDs, NEW q, q = Removing(r, t)
    PROVE  Same(q, r) /\ q.pc = "remove" /\ q.cur = t /\ q.i = r.i /\ q.j = 0
BY DEF ApOperation, Same, Running, Removing

LEMMA PostAp ==
    ASSUME NEW r \in ApOperation, NEW q, q = [r EXCEPT !.pc = "post", !.j = 0]
    PROVE  Same(q, r) /\ q.pc = "post" /\ q.i = r.i /\ q.j = 0
BY DEF ApOperation, Same, Running

LEMMA RepeatAp ==
    ASSUME NEW r \in ApOperation, NEW q, q = [r EXCEPT !.j = @ + 1]
    PROVE  Same(q, r) /\ q.pc = r.pc /\ q.i = r.i /\ q.j = r.j + 1
BY DEF ApOperation, Same

LEMMA AgainAp ==
    ASSUME NEW r \in ApOperation, NEW q, q = AgainOuter(r)
    PROVE  Same(q, r) /\ q.pc = "find" /\ q.i = r.i + 1 /\ q.j = 0
<1> DEFINE c == [r EXCEPT !.i = @ + 1]
<1>1. q = Find(c)
  BY DEF AgainOuter
<1>2. c = [r EXCEPT !.i = @ + 1]
  OBVIOUS
<1> HIDE DEF c
<1>3. Same(c, r) /\ c.i = r.i + 1
  BY <1>2 DEF ApOperation, Same
<1>4. c \in ApOperation
  BY <1>3 DEF Same
<1>5. Same(q, c) /\ q.pc = "find" /\ q.i = c.i /\ q.j = 0
  BY <1>1, <1>4, FindAp
<1> QED
  BY <1>3, <1>5, SameSame

--------------------------------------------------------------------------------
(* What a step makes of the operation r of its session: it ends, its outer *)
(* loop tries again, or what the lookup found or did not find.             *)
Ends(q, r, result) == Same(q, r) /\ q.pc = "done" /\ q.res = result /\ q.i = 0 /\ q.j = 0

Tries(q, r, n) == Same(q, r) /\ q.pc = "find" /\ q.i = r.i + 1 /\ q.j = 0 /\ q.i < n

Repeats(q, r) == Same(q, r) /\ q.pc = "find" /\ q.i = r.i /\ q.j = r.j + 1 /\ q.j < maxRetryAttempt

Finds(q, r, t) ==
    /\ t \in TargetIDs /\ Live(targets[t]) /\ IsNamed(r, targets, t)
    /\ \/ r.op = "CreateVolumeAccessPoint" /\ Ends(q, r, "ok") /\ q.cur = t
       \/ /\ r.op = "DeleteVolumeAccessPoint"
          /\ \/ targets[t].status = "deleting" /\ Ends(q, r, "ok")
             \/ Same(q, r) /\ q.pc = "remove" /\ q.cur = t /\ q.i = r.i /\ q.j = 0
       \/ /\ r.op = "WaitForCreateVolumeAccessPoint"
          /\ \/ Tries(q, r, 4 * maxRetryAttempt)
             \/ targets[t].status = "stable" /\ Ends(q, r, "ok") /\ q.cur = t
             \/ Ends(q, r, "CreateVolumeAccessPointTimedOut")
       \/ /\ r.op = "WaitForDeleteVolumeAccessPoint"
          /\ \/ Tries(q, r, 4 * maxRetryAttempt)
             \/ Ends(q, r, "DeleteVolumeAccessPointTimedOut")

FindsNone(q, r) ==
    /\ q.hit \/ \A u \in TargetIDs : IsNamed(r, targets, u) => ~Live(targets[u])
    /\ \/ /\ r.op = "CreateVolumeAccessPoint"
          /\ Same(q, r) /\ q.pc = "post" /\ q.i = r.i /\ q.j = 0
       \/ r.op = "DeleteVolumeAccessPoint" /\ Ends(q, r, "ok")
       \/ r.op = "WaitForCreateVolumeAccessPoint" /\ Ends(q, r, "CreateVolumeAccessPointTimedOut")
       \/ /\ r.op = "WaitForDeleteVolumeAccessPoint"
          /\ \/ r.tid # None /\ Ends(q, r, "ok")
             \/ Ends(q, r, "DeleteVolumeAccessPointTimedOut")

(* The lookup changes nothing; without a fault it sees every live target   *)
(* that the request names, and no other.                                   *)
LEMMA LookupOutcome ==
    ASSUME ApInv, NEW r, ApOK(r, shares, targets), r.pc = "find", NEW o \in Lookup(r),
           NEW k, k.tid = r.tid, k.vpc = r.vpc
    PROVE  /\ Sound(o) /\ o.shares = shares /\ o.targets = targets
           /\ \A t \in Matches(k, o) : t \in TargetIDs /\ Live(targets[t]) /\ IsNamed(r, targets, t)
           /\ Matches(k, o) = {} /\ ~o.fault =>
                 \A u \in TargetIDs : IsNamed(r, targets, u) => ~Live(targets[u])
<1>1. r.share \in ShareIDs /\ (r.tid # None => r.tid \in TargetIDs)
  BY DEF ApOK, RunsOK, Running, ApOperation
<1>s. ~Live(shares[r.share]) => TargetsOf(r.share) = {}
  BY DEF ApInv, ServiceOK, TargetsOf, Live
<1>2. \A t \in TargetIDs : Live(targets[t]) => targets[t].status # "unused"
  BY DEF Live
<1>3. CASE r.tid # None
  <2>1. o \in GetFileShareTarget(r.share, r.tid)
    BY <1>3 DEF Lookup
  <2>2. /\ Sound(o) /\ o.shares = shares /\ o.targets = targets
        /\ ~IsErr(o.err) => r.tid \in TargetsOf(r.share) /\ o.val = r.tid
        /\ IsErr(o.err) /\ ~o.fault => r.tid \notin TargetsOf(r.share)
    BY <1>1, <1>3, <1>s, <2>1, GetTargetOutcome DEF ApInv
  <2>3. Matches(k, o) = IF IsErr(o.err) THEN {} ELSE {o.val}
    BY <1>3 DEF Matches
  <2> QED
    BY <1>1, <1>2, <1>3, <2>2, <2>3 DEF IsNamed, TargetsOf
<1>4. CASE r.tid = None
  <2>1. o \in ListFileShareTargets(r.share)
    BY <1>4 DEF Lookup
  <2>2. /\ Sound(o) /\ o.shares = shares /\ o.targets = targets
        /\ ~IsErr(o.err) => o.val = TargetsOf(r.share)
        /\ IsErr(o.err) /\ ~o.fault => TargetsOf(r.share) = {}
    BY <1>1, <1>s, <2>1, ListTargetsOutcome DEF ApInv
  <2>3. Matches(k, o) = IF IsErr(o.err) THEN {} ELSE {t \in o.val : targets[t].vpc = r.vpc}
    BY <1>4 DEF Matches
  <2> QED
    BY <1>1, <1>2, <1>4, <2>2, <2>3 DEF IsNamed, TargetsOf
<1> QED
  BY <1>3, <1>4

(* What an operation does with the target t it found.                      *)
LEMMA FoundResult ==
    ASSUME NEW r \in ApOperation, NEW k, Same(k, r), k.i = r.i, NEW t \in TargetIDs, Live(targets[t]),
           IsNamed(r, targets, t), r.op \in Operations, NEW q, q = Found(k, t)
    PROVE  Finds(q, r, t)
<1>1. k \in ApOperation /\ k.op = r.op /\ r.i \in Nat
  BY DEF Same, ApOperation
<1> DEFINE c == [k EXCEPT !.cur = t]
<1>2. c = [k EXCEPT !.cur = t]
  OBVIOUS
<1>3. q = CASE k.op = "CreateVolumeAccessPoint"        -> Conclude(c, "ok")
            [] k.op = "DeleteVolumeAccessPoint"        ->
                  (IF targets[t].status = "deleting" THEN Conclude(c, "ok")
                   ELSE Removing(k, t))
            [] k.op = "WaitForCreateVolumeAccessPoint" -> WaitCreateFound(k, t)
            [] k.op = "WaitForDeleteVolumeAccessPoint" -> WaitDeleteFound(k, t)
  BY DEF Found, CreateFound, DeleteFound, Removing
<1>4. WaitCreateFound(k, t) =
         IF ~LoopEnds("FlexyRetryWithConstGap", k.i, NoError, targets[t].status = "stable") THEN AgainOuter(k)
         ELSE IF targets[t].status = "stable" THEN Conclude(c, "ok")
         ELSE Conclude(c, "CreateVolumeAccessPointTimedOut")
  BY DEF WaitCreateFound
<1> HIDE DEF c
<1>5. Same(c, k) /\ c.cur = t /\ c \in ApOperation /\ Same(c, r)
  BY <1>1, <1>2, CurAp, SameSame DEF Same
<1>6. ASSUME NEW result \in ApResults, NEW p, p = Conclude(c, result) PROVE Ends(p, r, result) /\ p.cur = t
  BY <1>5, <1>6, ConcludeAp, SameSame DEF Ends
<1>7. ASSUME NEW result \in ApResults, NEW p, p = Conclude(k, result) PROVE Ends(p, r, result)
  BY <1>1, <1>7, ConcludeAp, SameSame DEF Ends
<1>8. ASSUME NEW stop \in BOOLEAN, ~LoopEnds("FlexyRetryWithConstGap", k.i, NoError, stop),
             NEW p, p = AgainOuter(k)
      PROVE  Tries(p, r, 4 * maxRetryAttempt)
  <2>1. k.i + 1 < 4 * maxRetryAttempt
    BY <1>8 DEF LoopEnds, Limit
  <2> QED
    BY <1>1, <1>8, <2>1, AgainAp, SameSame DEF Tries
<1>9. CASE k.op = "CreateVolumeAccessPoint"
  BY <1>1, <1>3, <1>6, <1>9 DEF Finds, ApResults
<1>10. CASE k.op = "DeleteVolumeAccessPoint"
  <2>1. CASE targets[t].status = "deleting"
    BY <1>1, <1>3, <1>6, <1>10, <2>1 DEF Finds, ApResults
  <2>2. CASE targets[t].status # "deleting"
    <3>1. q = Removing(k, t)
      BY <1>3, <1>10, <2>2
    <3>2. Same(q, k) /\ q.pc = "remove" /\ q.cur = t /\ q.i = k.i /\ q.j = 0
      BY <1>1, <3>1, RemoveAp
    <3> QED
      BY <1>1, <1>10, <3>2, SameSame DEF Finds
  <2> QED
    BY <2>1, <2>2
<1>11. CASE k.op = "WaitForCreateVolumeAccessPoint"
  <2>1. q = WaitCreateFound(k, t)
    BY <1>3, <1>11
  <2>2. CASE ~LoopEnds("FlexyRetryWithConstGap", k.i, NoError, targets[t].status = "stable")
    BY <1>1, <1>4, <1>8, <1>11, <2>1, <2>2 DEF Finds
  <2>3. CASE targets[t].status = "stable" /\ q = Conclude(c, "ok")
    BY <1>1, <1>6, <1>11, <2>3 DEF Finds, ApResults
  <2>4. CASE q = Conclude(c, "CreateVolumeAccessPointTimedOut")
    BY <1>1, <1>6, <1>11, <2>4 DEF Finds, ApResults
  <2> QED
    BY <1>4, <2>1, <2>2, <2>3, <2>4
<1>12. CASE k.op = "WaitForDeleteVolumeAccessPoint"
  <2>1. q = WaitDeleteFound(k, t)
    BY <1>3, <1>12
  <2>2. CASE ~LoopEnds("FlexyRetryWithConstGap", k.i, NoError, FALSE)
    BY <1>1, <1>8, <1>12, <2>1, <2>2 DEF Finds, WaitDeleteFound
  <2>3. CASE LoopEnds("FlexyRetryWithConstGap", k.i, NoError, FALSE)
    BY <1>1, <1>7, <1>12, <2>1, <2>3 DEF Finds, WaitDeleteFound, ApResults
  <2> QED
    BY <2>2, <2>3
<1> QED
  BY <1>1, <1>9, <1>10, <1>11, <1>12 DEF Operations

(* What an operation does when its lookup returned an error.               *)
LEMMA NotFoundResult ==
    ASSUME NEW r \in ApOperation, NEW k, Same(k, r), k.i = r.i, r.op \in Operations,
           k.hit \/ \A u \in TargetIDs : IsNamed(r, targets, u) => ~Live(targets[u]),
           NEW q, q = NotFound(k)
    PROVE  FindsNone(q, r)
<1>1. k \in ApOperation /\ k.op = r.op /\ k.tid = r.tid
  BY DEF Same
<1>2. ASSUME Same(q, k)
      PROVE  q.hit \/ \A u \in TargetIDs : IsNamed(r, targets, u) => ~Live(targets[u])
  BY <1>2 DEF Same
<1>3. ASSUME NEW result \in ApResults, q = Conclude(k, result) PROVE Ends(q, r, result) /\ Same(q, k)
  BY <1>1, <1>3, ConcludeAp, SameSame DEF Ends
<1>4. CASE k.op = "CreateVolumeAccessPoint"
  <2>1. q = [k EXCEPT !.pc = "post", !.j = 0]
    BY <1>4 DEF NotFound, CreateNotFound
  <2>2. Same(q, k) /\ q.pc = "post" /\ q.i = k.i /\ q.j = 0
    BY <1>1, <2>1, PostAp
  <2> QED
    BY <1>1, <1>2, <1>4, <2>2, SameSame DEF FindsNone
<1>5. CASE k.op = "DeleteVolumeAccessPoint"
  <2>1. q = Conclude(k, "ok")
    BY <1>5 DEF NotFound, DeleteNotFound
  <2> QED
    BY <1>1, <1>2, <1>3, <1>5, <2>1 DEF FindsNone, ApResults
<1>6. CASE k.op = "WaitForCreateVolumeAccessPoint"
  <2>1. q = Conclude(k, "CreateVolumeAccessPointTimedOut")
    BY <1>6 DEF NotFound, WaitCreateNotFound
  <2> QED
    BY <1>1, <1>2, <1>3, <1>6, <2>1 DEF FindsNone, ApResults
<1>7. CASE k.op = "WaitForDeleteVolumeAccessPoint"
  <2>1. q = Conclude(k, IF k.tid # None THEN "ok" ELSE "DeleteVolumeAccessPointTimedOut")
    BY <1>7 DEF NotFound, WaitDeleteNotFound
  <2>2. CASE k.tid # None
    BY <1>1, <1>2, <1>3, <1>7, <2>1, <2>2 DEF FindsNone, ApResults
  <2>3. CASE k.tid = None
    BY <1>1, <1>2, <1>3, <1>7, <2>1, <2>3 DEF FindsNone, ApResults
  <2> QED
    BY <2>2, <2>3
<1> QED
  BY <1>1, <1>4, <1>5, <1>6, <1>7 DEF Operations

(* One request of the lookup.                                              *)
LEMMA FindResult ==
    ASSUME ApInv, NEW s \in ApSessions, GetVolumeAccessPoint(s)
    PROVE  /\ BackendTypeOK' /\ shares' = shares /\ targets' = targets /\ ap[s].pc = "find"
           /\ \E q : /\ ap' = [ap EXCEPT ![s] = q]
                     /\ \/ Repeats(q, ap[s])
                        \/ FindsNone(q, ap[s])
                        \/ \E t : Finds(q, ap[s], t)
<1> DEFINE r       == ap[s]
           k(o)    == [r EXCEPT !.hit = @ \/ o.fault]
           stop(o) == ~IsErr(o.err) \/ skipRetryForObviousErrors(o.err)
           ends(o) == LoopEnds("FlexyRetry", k(o).j, o.err, stop(o))
<1>1. PICK o \in Lookup(r) :
         /\ Deliver(o)
         /\ \/ ~ends(o) /\ ap' = [ap EXCEPT ![s] = [k(o) EXCEPT !.j = @ + 1]]
            \/ Matches(k(o), o) = {} /\ ap' = [ap EXCEPT ![s] = NotFound(k(o))]
            \/ \E t \in Matches(k(o), o) : ap' = [ap EXCEPT ![s] = Found(k(o), t)]
  BY DEF GetVolumeAccessPoint
<1>2. /\ ApOK(r, shares, targets) /\ r \in ApOperation /\ r.pc = "find" /\ r.op \in Operations
  BY DEF GetVolumeAccessPoint, ApInv, ApOK, RunsOK, Running
<1>3. k(o) = [r EXCEPT !.hit = @ \/ o.fault]
  OBVIOUS
<1>4. ~ends(o) => k(o).j + 1 < maxRetryAttempt
  BY DEF LoopEnds, Limit
<1>5. o.fault \in BOOLEAN
  <2>1. r.tid = r.tid /\ r.vpc = r.vpc
    OBVIOUS
  <2> HIDE DEF r
  <2> QED
    BY <1>1, <1>2, LookupOutcome DEF Sound
<1> HIDE DEF k, ends, stop, r
<1>6. /\ Same(k(o), r) /\ (o.fault => k(o).hit) /\ k(o).pc = "find" /\ k(o).i = r.i /\ k(o).j = r.j
      /\ k(o).tid = r.tid /\ k(o).vpc = r.vpc /\ k(o) \in ApOperation
  <2>1. Same(k(o), r) /\ (o.fault => k(o).hit) /\ k(o).pc = r.pc /\ k(o).i = r.i /\ k(o).j = r.j
    BY <1>2, <1>3, <1>5, HitAp
  <2> QED
    BY <1>2, <2>1 DEF Same
<1>7. /\ Sound(o) /\ o.shares = shares /\ o.targets = targets
      /\ \A t \in Matches(k(o), o) : t \in TargetIDs /\ Live(targets[t]) /\ IsNamed(r, targets, t)
      /\ Matches(k(o), o) = {} /\ ~o.fault =>
            \A u \in TargetIDs : IsNamed(r, targets, u) => ~Live(targets[u])
  BY <1>1, <1>2, <1>6, LookupOutcome
<1>8. BackendTypeOK' /\ shares' = shares /\ targets' = targets
  BY <1>1, <1>7, DeliverSound DEF ApInv, Deliver
<1>9. ASSUME NEW q, q = [k(o) EXCEPT !.j = @ + 1], ~ends(o) PROVE Repeats(q, r)
  BY <1>4, <1>6, <1>9, RepeatAp, SameSame DEF Repeats
<1>10. ASSUME NEW q, q = NotFound(k(o)), Matches(k(o), o) = {} PROVE FindsNone(q, r)
  <2>1. k(o).hit \/ \A u \in TargetIDs : IsNamed(r, targets, u) => ~Live(targets[u])
    BY <1>6, <1>7, <1>10
  <2> QED
    BY <1>2, <1>6, <1>10, <2>1, NotFoundResult
<1>11. ASSUME NEW t \in Matches(k(o), o), NEW q, q = Found(k(o), t) PROVE Finds(q, r, t)
  BY <1>2, <1>6, <1>7, <1>11, FoundResult
<1>12. \E q : /\ ap' = [ap EXCEPT ![s] = q]
              /\ Repeats(q, r) \/ FindsNone(q, r) \/ \E t : Finds(q, r, t)
  BY <1>1, <1>9, <1>10, <1>11
<1> QED
  BY <1>2, <1>8, <1>12 DEF r

--------------------------------------------------------------------------------
(* The POST that creates a target.  A refusal on a stable share says that  *)
(* there is a target already, or that there is none and none can be made;  *)
(* when a second attempt is left, the first of the two is not final.       *)
Refusal(q, r) ==
    \/ q.hit
    \/ shares[r.share].status = "stable" =>
          /\ targets' = targets
          /\ Holds(targets, r.share, r.home) \/ NoneFree(targets)

FinalRefusal(q, r) ==
    \/ q.hit
    \/ /\ shares[r.share].status = "stable"
       /\ maxRetryAttempt >= 2 /\ DuplicateTarget \notin SkipTrue
       => targets' = targets /\ (Holds(targets, r.share, r.home) => r.i > 0)

TargetMade(t, r) == TargetBorn(t, r.share, r.home) /\ targets' = WithTarget(t, r.share, r.home)

LEMMA SkipsListedOnly == ASSUME NEW code, code \notin SkipTrue PROVE ~skipRetry(ModelsError(<<code>>))
<1> DEFINE e == ModelsError(<<code>>)
<1>1. DOMAIN e.codes = {1} /\ e.codes[1] = code
  BY DEF ModelsError
<1> HIDE DEF e
<1>2. ~skipRetry(e)
  BY <1>1 DEF skipRetry, skipErrorCodes, Listed
<1> QED
  BY <1>2 DEF e

LEMMA PostResult ==
    ASSUME ApInv, NEW s \in ApSessions, CreateTargetAttempt(s)
    PROVE  /\ BackendTypeOK' /\ BackendOnward /\ shares' = shares /\ ap[s].pc = "post"
           /\ targets' = targets \/ \E t : TargetMade(t, ap[s])
           /\ \E q : /\ ap' = [ap EXCEPT ![s] = q]
                     /\ \/ Tries(q, ap[s], maxRetryAttempt) /\ Refusal(q, ap[s])
                        \/ /\ Ends(q, ap[s], "CreateVolumeAccessPointFailed")
                           /\ Refusal(q, ap[s]) /\ FinalRefusal(q, ap[s])
                        \/ /\ Ends(q, ap[s], "ok")
                           /\ \E t : TargetMade(t, ap[s]) /\ q.cur = t
<1> DEFINE r       == ap[s]
           k(o)    == [r EXCEPT !.hit = @ \/ o.fault]
           c(o)    == [k(o) EXCEPT !.cur = o.val]
           stop(o) == ~IsErr(o.err) \/ skipRetryForObviousErrors(o.err)
           ends(o) == LoopEnds("FlexyRetry", k(o).i, o.err, stop(o))
           n(o)    == IF ~ends(o) THEN AgainOuter(k(o))
                      ELSE IF IsErr(o.err) THEN Conclude(k(o), "CreateVolumeAccessPointFailed")
                      ELSE Conclude(c(o), "ok")
<1>1. PICK o \in CreateFileShareTarget(r.share, r.home) : Deliver(o) /\ ap' = [ap EXCEPT ![s] = n(o)]
  BY DEF CreateTargetAttempt
<1>2. /\ ApOK(r, shares, targets) /\ r \in ApOperation /\ r.pc = "post"
      /\ r.share \in ShareIDs /\ r.home \in VPCs /\ r.i \in Nat
  BY DEF CreateTargetAttempt, ApInv, ApOK, RunsOK, Running, ApOperation
<1>3. k(o) = [r EXCEPT !.hit = @ \/ o.fault] /\ c(o) = [k(o) EXCEPT !.cur = o.val]
  OBVIOUS
<1>4. ends(o) <=> stop(o) \/ ~(k(o).i + 1 < maxRetryAttempt)
  BY DEF LoopEnds, Stops, Flexy, Limit
<1>5. \/ n(o) = AgainOuter(k(o)) /\ ~ends(o)
      \/ n(o) = Conclude(k(o), "CreateVolumeAccessPointFailed") /\ ends(o) /\ IsErr(o.err)
      \/ n(o) = Conclude(c(o), "ok") /\ ~IsErr(o.err)
  OBVIOUS
<1>6. IsErr(o.err) /\ stop(o) => skipRetry(o.err)
  BY DEF skipRetryForObviousErrors
<1>7. ~IsErr(o.err) => stop(o)
  OBVIOUS
<1> DEFINE q == n(o)
<1> HIDE DEF q, n, ends, stop, c, k, r
<1>8. /\ Sound(o) /\ o.shares = shares
      /\ \/ o.targets = targets /\ IsErr(o.err)
         \/ \E t : /\ TargetBorn(t, r.share, r.home) /\ o.targets = WithTarget(t, r.share, r.home)
                   /\ o.val = t \/ IsErr(o.err)
      /\ \/ o.fault
         \/ o.err = NoError
         \/ \E code : /\ o.err = ModelsError(<<code>>) /\ o.targets = targets
                      /\ WhyRefused(code, r.share, r.home)
  BY <1>2, CreateTargetOutcome DEF ApInv
<1>9. BackendTypeOK' /\ BackendOnward /\ shares' = shares /\ targets' = o.targets
  BY <1>1, <1>8, DeliverSound DEF ApInv, Deliver
<1>10. targets' = targets \/ \E t : TargetMade(t, r)
  BY <1>8, <1>9 DEF TargetMade
<1>11. Same(k(o), r) /\ (o.fault => k(o).hit) /\ k(o).i = r.i /\ k(o) \in ApOperation
  <2>1. Same(k(o), r) /\ (o.fault => k(o).hit) /\ k(o).i = r.i
    BY <1>2, <1>3, <1>8, HitAp DEF Sound
  <2> QED
    BY <2>1 DEF Same
<1>12. ASSUME Same(q, k(o)), IsErr(o.err) PROVE Refusal(q, r)
  <2>1. CASE o.fault
    BY <1>11, <1>12, <2>1 DEF Refusal, Same
  <2>2. CASE ~o.fault
    <3>1. o.err # NoError
      BY <1>12 DEF NoError, IsErr
    <3>2. PICK code : o.targets = targets /\ WhyRefused(code, r.share, r.home)
      BY <1>8, <2>2, <3>1
    <3> QED
      BY <3>2, <1>9 DEF Refusal, WhyRefused, Holds, NoneFree, TargetsOf, FreeTargets
  <2> QED
    BY <2>1, <2>2
<1>13. ASSUME Same(q, k(o)), IsErr(o.err), ends(o) PROVE FinalRefusal(q, r)
  <2>1. CASE o.fault
    BY <1>11, <1>13, <2>1 DEF FinalRefusal, Same
  <2>2. CASE ~o.fault
    <3>1. o.err # NoError
      BY <1>13 DEF NoError, IsErr
    <3>2. PICK code : /\ o.err = ModelsError(<<code>>) /\ o.targets = targets
                      /\ WhyRefused(code, r.share, r.home)
      BY <1>8, <2>2, <3>1
    <3>3. /\ shares[r.share].status = "stable" /\ Holds(targets, r.share, r.home) => code = DuplicateTarget
      BY <3>2 DEF WhyRefused, Holds, TargetsOf
    <3>4. code = DuplicateTarget /\ DuplicateTarget \notin SkipTrue /\ maxRetryAttempt >= 2 => r.i > 0
      <4>1. code \notin SkipTrue => ~skipRetry(o.err)
        BY <3>2, SkipsListedOnly
      <4>2. code \notin SkipTrue => ~(r.i + 1 < maxRetryAttempt)
        BY <4>1, <1>4, <1>6, <1>11, <1>13
      <4> QED
        BY <4>2, <1>2, AttemptAssumption
    <3> QED
      BY <3>2, <3>3, <3>4, <1>9 DEF FinalRefusal
  <2> QED
    BY <2>1, <2>2
<1>14. CASE q = AgainOuter(k(o)) /\ ~ends(o)
  <2>1. Same(q, k(o)) /\ q.pc = "find" /\ q.i = k(o).i + 1 /\ q.j = 0
    BY <1>11, <1>14, AgainAp
  <2>2. Tries(q, r, maxRetryAttempt)
    BY <1>4, <1>11, <1>14, <2>1, SameSame DEF Tries
  <2>3. IsErr(o.err)
    BY <1>4, <1>7, <1>14
  <2> QED
    BY <1>1, <1>2, <1>9, <1>10, <1>12, <2>1, <2>2, <2>3 DEF q, r
<1>15. CASE q = Conclude(k(o), "CreateVolumeAccessPointFailed") /\ ends(o) /\ IsErr(o.err)
  <2>1. Ends(q, k(o), "CreateVolumeAccessPointFailed")
    BY <1>11, <1>15, ConcludeAp DEF Ends, ApResults
  <2>2. Same(q, k(o)) /\ Ends(q, r, "CreateVolumeAccessPointFailed")
    BY <1>11, <2>1, SameSame DEF Ends
  <2> QED
    BY <1>1, <1>2, <1>9, <1>10, <1>12, <1>13, <1>15, <2>2 DEF q, r
<1>16. CASE q = Conclude(c(o), "ok") /\ ~IsErr(o.err)
  <2>1. PICK t : TargetMade(t, r) /\ o.val = t /\ t \in TargetIDs
    BY <1>8, <1>9, <1>16 DEF TargetMade, TargetBorn
  <2>2. Same(c(o), k(o)) /\ c(o).cur = t /\ c(o) \in ApOperation
    <3>1. c(o) = [k(o) EXCEPT !.cur = t]
      BY <1>3, <2>1
    <3>2. Same(c(o), k(o)) /\ c(o).cur = t
      BY <1>11, <2>1, <3>1, CurAp
    <3> QED
      BY <3>2 DEF Same
  <2>3. Ends(q, c(o), "ok") /\ q.cur = t
    BY <1>16, <2>2, ConcludeAp DEF Ends, ApResults
  <2>4. Ends(q, r, "ok")
    BY <1>11, <2>2, <2>3, SameSame DEF Ends
  <2> QED
    BY <1>1, <1>2, <1>9, <1>10, <2>1, <2>3, <2>4 DEF q, r
<1> QED
  BY <1>5, <1>14, <1>15, <1>16 DEF q

(* The DELETE of the target found.                                         *)
LEMMA RemoveResult ==
    ASSUME ApInv, NEW s \in ApSessions, DeleteTargetAttempt(s)
    PROVE  /\ BackendTypeOK' /\ BackendOnward /\ shares' = shares /\ NothingBorn(targets')
           /\ ap[s].pc = "remove"
           /\ \E q : /\ ap' = [ap EXCEPT ![s] = q]
                     /\ \/ Tries(q, ap[s], maxRetryAttempt)
                        \/ Ends(q, ap[s], "DeleteVolumeAccessPointFailed")
                        \/ /\ Ends(q, ap[s], "ok")
                           /\ q.hit \/ (Live(targets[ap[s].cur]) /\ Accepted(targets'[ap[s].cur]))
<1> DEFINE r       == ap[s]
           k(o)    == [r EXCEPT !.hit = @ \/ o.fault]
           ends(o) == LoopEnds("FlexyRetry", k(o).i, o.err, ~IsErr(o.err))
           n(o)    == IF ~ends(o) THEN AgainOuter(k(o))
                      ELSE IF IsErr(o.err) THEN Conclude(k(o), "DeleteVolumeAccessPointFailed")
                      ELSE Conclude(k(o), "ok")
<1>1. PICK o \in DeleteFileShareTarget(r.share, r.cur) : Deliver(o) /\ ap' = [ap EXCEPT ![s] = n(o)]
  BY DEF DeleteTargetAttempt
<1>2. /\ ApOK(r, shares, targets) /\ r \in ApOperation /\ r.pc = "remove"
      /\ r.share \in ShareIDs /\ r.cur \in TargetIDs
  BY DEF DeleteTargetAttempt, ApInv, ApOK, RunsOK, Running
<1>3. k(o) = [r EXCEPT !.hit = @ \/ o.fault]
  OBVIOUS
<1>4. ~ends(o) => k(o).i + 1 < maxRetryAttempt
  BY DEF LoopEnds, Limit
<1>5. \/ n(o) = AgainOuter(k(o)) /\ ~ends(o)
      \/ n(o) = Conclude(k(o), "DeleteVolumeAccessPointFailed")
      \/ n(o) = Conclude(k(o), "ok") /\ ~IsErr(o.err)
  OBVIOUS
<1> DEFINE q == n(o)
<1> HIDE DEF q, n, ends, k, r
<1>6. /\ Sound(o) /\ o.shares = shares
      /\ \A u \in TargetIDs : targets[u].status = "unused" => o.targets[u] = targets[u]
      /\ ~o.fault /\ ~IsErr(o.err) => r.cur \in TargetsOf(r.share) /\ Accepted(o.targets[r.cur])
  BY <1>2, DeleteTargetOutcome DEF ApInv
<1>7. BackendTypeOK' /\ BackendOnward /\ shares' = shares /\ targets' = o.targets /\ NothingBorn(targets')
  BY <1>1, <1>6, DeliverSound DEF ApInv, Deliver, NothingBorn
<1>8. Same(k(o), r) /\ (o.fault => k(o).hit) /\ k(o).i = r.i /\ k(o) \in ApOperation
  <2>1. Same(k(o), r) /\ (o.fault => k(o).hit) /\ k(o).i = r.i
    BY <1>2, <1>3, <1>6, HitAp DEF Sound
  <2> QED
    BY <2>1 DEF Same
<1>9. CASE q = AgainOuter(k(o)) /\ ~ends(o)
  <2>1. Same(q, k(o)) /\ q.pc = "find" /\ q.i = k(o).i + 1 /\ q.j = 0
    BY <1>8, <1>9, AgainAp
  <2>2. Tries(q, r, maxRetryAttempt)
    BY <1>4, <1>8, <1>9, <2>1, SameSame DEF Tries
  <2> QED
    BY <1>1, <1>2, <1>7, <2>2 DEF q, r
<1>10. CASE q = Conclude(k(o), "DeleteVolumeAccessPointFailed")
  <2>1. Ends(q, k(o), "DeleteVolumeAccessPointFailed")
    BY <1>8, <1>10, ConcludeAp DEF Ends, ApResults
  <2>2. Ends(q, r, "DeleteVolumeAccessPointFailed")
    BY <1>8, <2>1, SameSame DEF Ends
  <2> QED
    BY <1>1, <1>2, <1>7, <2>2 DEF q, r
<1>11. CASE q = Conclude(k(o), "ok") /\ ~IsErr(o.err)
  <2>1. Ends(q, k(o), "ok")
    BY <1>8, <1>11, ConcludeAp DEF Ends, ApResults
  <2>2. Ends(q, r, "ok") /\ (k(o).hit => q.hit)
    BY <1>8, <2>1, SameSame DEF Ends, Same
  <2>3. q.hit \/ (Live(targets[r.cur]) /\ Accepted(targets'[r.cur]))
    <3>1. r.cur \in TargetsOf(r.share) => Live(targets[r.cur])
      BY DEF TargetsOf
    <3>2. ~o.fault => Live(targets[r.cur]) /\ Accepted(targets'[r.cur])
      BY <3>1, <1>6, <1>7, <1>11
    <3>3. o.fault => q.hit
      BY <1>8, <2>2
    <3> QED
      BY <3>2, <3>3, Zenon
  <2> QED
    BY <1>1, <1>2, <1>7, <2>2, <2>3 DEF q, r
<1> QED
  BY <1>5, <1>9, <1>10, <1>11 DEF q

--------------------------------------------------------------------------------
(* What the steps make of an operation keeps its condition.                *)
LEMMA SameNamed ==
    ASSUME NEW q, NEW r, Same(q, r), NEW tg, NEW u, IsNamed(r, tg, u)
    PROVE  IsNamed(q, tg, u)
BY DEF Same, IsNamed

LEMMA RunsOn ==
    ASSUME NEW r, NEW sh, NEW tg, ApOK(r, sh, tg), NEW q, Same(q, r), r.pc \in Running,
           q.pc = "find" \/ (q.pc = "post" /\ r.op = "CreateVolumeAccessPoint"),
           q.i < 4 * maxRetryAttempt, q.j < maxRetryAttempt
    PROVE  ApOK(q, sh, tg)
<1>1. q \in ApOperation /\ q.op = r.op /\ q.share = r.share /\ q.tid = r.tid /\ q.vpc = r.vpc
  BY DEF Same
<1>2. q.home = r.home /\ q.at = r.at /\ (q.ready => r.ready)
  BY DEF Same
<1>3. \A u : IsNamed(r, tg, u) => IsNamed(q, tg, u)
  BY SameNamed
<1>4. RunsOK(q, sh, tg)
  BY <1>1, <1>2, <1>3 DEF ApOK, RunsOK, Running
<1>5. EndsOK(q, tg)
  BY DEF EndsOK, Did
<1> QED
  BY <1>1, <1>4, <1>5 DEF ApOK

LEMMA EndsWell ==
    ASSUME NEW r, NEW sh, NEW tg, ApOK(r, sh, tg), NEW q, NEW result, Ends(q, r, result),
           EndsOK(q, tg)
    PROVE  ApOK(q, sh, tg)
<1>1. /\ q \in ApOperation /\ q.op = r.op /\ q.share = r.share /\ q.at = r.at /\ (q.ready => r.ready)
      /\ q.pc = "done" /\ q.i = 0 /\ q.j = 0 /\ Same(q, r)
  BY DEF Same, Ends
<1>2. \A u : IsNamed(r, tg, u) => IsNamed(q, tg, u)
  BY <1>1, SameNamed
<1>3. RunsOK(q, sh, tg)
  BY <1>1, <1>2, AttemptAssumption DEF ApOK, RunsOK, Running
<1> QED
  BY <1>1, <1>3 DEF ApOK

LEMMA FindStep ==
    ASSUME ApInv, NEW s \in ApSessions, GetVolumeAccessPoint(s)
    PROVE  ApInv'
<1> DEFINE r == ap[s]
<1>1. /\ BackendTypeOK' /\ shares' = shares /\ targets' = targets /\ r.pc = "find"
      /\ \E q : /\ ap' = [ap EXCEPT ![s] = q]
                /\ Repeats(q, r) \/ FindsNone(q, r) \/ \E t : Finds(q, r, t)
  BY FindResult
<1>2. /\ ApOK(r, shares, targets) /\ r \in ApOperation /\ r.at \subseteq TargetIDs
      /\ r.i < 4 * maxRetryAttempt /\ r.i \in Nat /\ r.j \in Nat
      /\ (r.tid # None => r.tid \in TargetIDs) /\ r.share \in ShareIDs
      /\ (r.tid # None => IsNamed(r, targets, r.tid))
      /\ \A u \in r.at : IsNamed(r, targets, u)
  BY <1>1 DEF ApInv, ApOK, ApOperation, RunsOK, Running
<1>3. r.op = "CreateVolumeAccessPoint" => r.vpc \in {r.home, None}
  BY <1>1, <1>2 DEF ApOK, RunsOK, Running
<1>4. PICK q : /\ ap' = [ap EXCEPT ![s] = q]
               /\ Repeats(q, r) \/ FindsNone(q, r) \/ \E t : Finds(q, r, t)
  BY <1>1
<1>5. r.pc \in Running /\ maxRetryAttempt \in Nat \ {0}
  BY <1>1, AttemptAssumption DEF Running
<1> HIDE DEF r
<1>6. ASSUME Same(q, r) PROVE /\ q.op = r.op /\ q.at = r.at /\ q.tid = r.tid /\ q.share = r.share
                              /\ q.home = r.home /\ (r.hit => q.hit)
  BY <1>6 DEF Same
<1>7. ASSUME Repeats(q, r) PROVE ApOK(q, shares, targets)
  BY <1>2, <1>5, <1>7, RunsOn DEF Repeats
<1>8. ASSUME FindsNone(q, r) PROVE ApOK(q, shares, targets)
  <2>1. CASE Ends(q, r, "ok") /\ r.op = "DeleteVolumeAccessPoint"
    <3>1. q.hit \/ \A u \in r.at : Accepted(targets[u])
      BY <1>2, <1>8, NotLiveIsGone DEF FindsNone, ApInv
    <3>2. EndsOK(q, targets)
      BY <1>6, <2>1, <3>1 DEF EndsOK, Did, Ends
    <3> QED
      BY <1>2, <2>1, <3>2, EndsWell
  <2>2. CASE Ends(q, r, "ok") /\ r.op = "WaitForDeleteVolumeAccessPoint" /\ r.tid # None
    <3>1. q.hit \/ targets[r.tid].status = "gone"
      BY <1>2, <1>8, <2>2, NotLiveIsGone DEF FindsNone, ApInv
    <3>2. EndsOK(q, targets)
      BY <1>2, <1>6, <2>2, <3>1 DEF EndsOK, Did, Ends
    <3> QED
      BY <1>2, <2>2, <3>2, EndsWell
  <2>3. ASSUME NEW result, result # "ok", Ends(q, r, result) PROVE ApOK(q, shares, targets)
    <3>1. EndsOK(q, targets)
      BY <2>3 DEF EndsOK, Did, Ends
    <3> QED
      BY <1>2, <2>3, <3>1, EndsWell
  <2>4. CASE r.op = "CreateVolumeAccessPoint" /\ Same(q, r) /\ q.pc = "post" /\ q.i = r.i /\ q.j = 0
    BY <1>2, <1>5, <2>4, RunsOn
  <2> QED
    BY <1>8, <2>1, <2>2, <2>3, <2>4 DEF FindsNone
<1>9. ASSUME NEW t, Finds(q, r, t) PROVE ApOK(q, shares, targets)
  <2>1. t \in TargetIDs /\ Live(targets[t]) /\ IsNamed(r, targets, t) /\ targets[t].vpc \in VPCs
    BY <1>9 DEF Finds, IsNamed, ApInv, ServiceOK
  <2>2. CASE r.op = "CreateVolumeAccessPoint" /\ Ends(q, r, "ok") /\ q.cur = t
    <3>1. /\ targets[t].share = r.share /\ targets[t].status # "unused"
          /\ t = r.tid \/ targets[t].vpc = r.home
      BY <1>3, <2>1, <2>2, BackendAssumption DEF IsNamed
    <3>2. EndsOK(q, targets)
      BY <1>6, <2>1, <2>2, <3>1 DEF EndsOK, Did, Ends
    <3> QED
      BY <1>2, <2>2, <3>2, EndsWell
  <2>3. CASE r.op = "DeleteVolumeAccessPoint" /\ targets[t].status = "deleting" /\ Ends(q, r, "ok")
    <3>1. \A u \in r.at : Accepted(targets[u])
      BY <1>2, <2>1, <2>3, OneNamed DEF Accepted, ApInv
    <3>2. EndsOK(q, targets)
      BY <1>6, <2>3, <3>1 DEF EndsOK, Did, Ends
    <3> QED
      BY <1>2, <2>3, <3>2, EndsWell
  <2>4. CASE /\ r.op = "DeleteVolumeAccessPoint"
             /\ Same(q, r) /\ q.pc = "remove" /\ q.cur = t /\ q.i = r.i /\ q.j = 0
    <3>1. \A u : IsNamed(r, targets, u) => IsNamed(q, targets, u)
      BY <2>4, SameNamed
    <3>2. q \in ApOperation /\ (q.ready => r.ready)
      BY <2>4 DEF Same
    <3>3. RunsOK(q, shares, targets)
      BY <1>2, <1>5, <1>6, <2>1, <2>4, <3>1, <3>2 DEF ApOK, RunsOK, Running
    <3> QED
      BY <2>4, <3>2, <3>3 DEF ApOK, EndsOK, Did
  <2>5. CASE /\ r.op = "WaitForCreateVolumeAccessPoint" /\ targets[t].status = "stable"
             /\ Ends(q, r, "ok") /\ q.cur = t
    <3>1. EndsOK(q, targets)
      BY <1>6, <2>1, <2>5 DEF EndsOK, Did, Ends
    <3> QED
      BY <1>2, <2>5, <3>1, EndsWell
  <2>6. ASSUME NEW result, result # "ok", Ends(q, r, result) PROVE ApOK(q, shares, targets)
    <3>1. EndsOK(q, targets)
      BY <2>6 DEF EndsOK, Did, Ends
    <3> QED
      BY <1>2, <2>6, <3>1, EndsWell
  <2>7. CASE Tries(q, r, 4 * maxRetryAttempt)
    BY <1>2, <1>5, <2>7, RunsOn DEF Tries
  <2> QED
    BY <1>9, <2>2, <2>3, <2>4, <2>5, <2>6, <2>7 DEF Finds
<1>10. ApOK(q, shares', targets')
  BY <1>1, <1>4, <1>7, <1>8, <1>9
<1>11. ServiceOK(shares', targets') /\ BackendOnward
  BY <1>1, StillOnward DEF ApInv, BackendOnward
<1> QED
  BY <1>1, <1>4, <1>10, <1>11, ApOwn

(* The POST: the target that is born is the one the operation returns.     *)
LEMMA PostStep ==
    ASSUME ApInv, NEW s \in ApSessions, CreateTargetAttempt(s)
    PROVE  ApInv'
<1> DEFINE r == ap[s]
<1>1. /\ BackendTypeOK' /\ BackendOnward /\ shares' = shares /\ r.pc = "post"
      /\ targets' = targets \/ \E t : TargetMade(t, r)
      /\ \E q : /\ ap' = [ap EXCEPT ![s] = q]
                /\ \/ Tries(q, r, maxRetryAttempt)
                   \/ Ends(q, r, "CreateVolumeAccessPointFailed")
                   \/ Ends(q, r, "ok") /\ \E t : TargetMade(t, r) /\ q.cur = t
  BY PostResult
<1>2. /\ ApOK(r, shares, targets) /\ r.share \in ShareIDs /\ r.home \in VPCs
      /\ r.op = "CreateVolumeAccessPoint" /\ r.i \in Nat /\ r.pc \in Running
  BY <1>1 DEF ApInv, ApOK, RunsOK, Running, ApOperation
<1> HIDE DEF r
<1>3. ServiceOK(shares', targets')
  BY <1>1, <1>2, ServiceBorn DEF ApInv, TargetMade
<1>4. ApOK(r, shares', targets')
  BY <1>1, <1>2, <1>3, ApKeeps DEF ApInv
<1>5. PICK q : /\ ap' = [ap EXCEPT ![s] = q]
               /\ \/ Tries(q, r, maxRetryAttempt)
                  \/ Ends(q, r, "CreateVolumeAccessPointFailed")
                  \/ Ends(q, r, "ok") /\ \E t : TargetMade(t, r) /\ q.cur = t
  BY <1>1
<1>6. ASSUME Tries(q, r, maxRetryAttempt) PROVE ApOK(q, shares', targets')
  <2>1. Same(q, r) /\ q.pc = "find" /\ q.i < 4 * maxRetryAttempt /\ q.j < maxRetryAttempt
    BY <1>2, <1>6, AttemptAssumption DEF Tries
  <2> QED
    BY <1>2, <1>4, <2>1, RunsOn
<1>7. ASSUME Ends(q, r, "CreateVolumeAccessPointFailed") PROVE ApOK(q, shares', targets')
  <2>1. EndsOK(q, targets')
    BY <1>7 DEF EndsOK, Did, Ends
  <2> QED
    BY <1>4, <1>7, <2>1, EndsWell
<1>8. ASSUME NEW t, Ends(q, r, "ok"), TargetMade(t, r), q.cur = t PROVE ApOK(q, shares', targets')
  <2>1. /\ t \in TargetIDs /\ targets'[t].status # "unused"
        /\ targets'[t].share = r.share /\ targets'[t].vpc = r.home
    BY <1>8 DEF TargetMade, TargetBorn, WithTarget, ApInv, BackendTypeOK
  <2>2. q.op = "CreateVolumeAccessPoint" /\ q.share = r.share /\ q.home = r.home
    BY <1>2, <1>8 DEF Ends, Same
  <2>3. EndsOK(q, targets')
    BY <1>8, <2>1, <2>2 DEF EndsOK, Did
  <2> QED
    BY <1>4, <1>8, <2>3, EndsWell
<1>9. ApOK(q, shares', targets')
  BY <1>5, <1>6, <1>7, <1>8
<1> QED
  BY <1>1, <1>3, <1>5, <1>9, ApOwn

(* The DELETE: when it succeeds without a fault, the target it was sent    *)
(* for is the only live one the request names, and its deletion accepted.  *)
LEMMA RemoveStep ==
    ASSUME ApInv, NEW s \in ApSessions, DeleteTargetAttempt(s)
    PROVE  ApInv'
<1> DEFINE r == ap[s]
<1>1. /\ BackendTypeOK' /\ BackendOnward /\ shares' = shares /\ NothingBorn(targets')
      /\ r.pc = "remove"
      /\ \E q : /\ ap' = [ap EXCEPT ![s] = q]
                /\ \/ Tries(q, r, maxRetryAttempt)
                   \/ Ends(q, r, "DeleteVolumeAccessPointFailed")
                   \/ /\ Ends(q, r, "ok")
                      /\ q.hit \/ (Live(targets[r.cur]) /\ Accepted(targets'[r.cur]))
  BY RemoveResult
<1>2. /\ ApOK(r, shares, targets) /\ r.op = "DeleteVolumeAccessPoint" /\ r.i \in Nat
      /\ r.pc \in Running /\ r \in ApOperation /\ r.at \subseteq TargetIDs
      /\ r.cur \in TargetIDs /\ IsNamed(r, targets, r.cur) /\ \A u \in r.at : IsNamed(r, targets, u)
  BY <1>1 DEF ApInv, ApOK, RunsOK, Running, ApOperation
<1> HIDE DEF r
<1>3. ServiceOK(shares', targets')
  <2>1. ASSUME NEW u \in TargetIDs, Live(targets'[u])
        PROVE  Live(targets[u]) /\ targets'[u].share = targets[u].share
    BY <1>1, <2>1 DEF BackendOnward, TargetsOnward, Onward, NothingBorn, Live
  <2>2. \A u \in TargetIDs : Live(targets'[u]) => shares'[targets'[u].share].status \in {"pending", "stable"}
    BY <1>1, <2>1 DEF ApInv, ServiceOK
  <2> QED
    BY <1>1, <2>2, ServiceStays DEF ApInv, BackendOnward
<1>4. ApOK(r, shares', targets')
  BY <1>1, <1>2, <1>3, ApKeeps DEF ApInv
<1>5. PICK q : /\ ap' = [ap EXCEPT ![s] = q]
               /\ \/ Tries(q, r, maxRetryAttempt)
                  \/ Ends(q, r, "DeleteVolumeAccessPointFailed")
                  \/ /\ Ends(q, r, "ok")
                     /\ q.hit \/ (Live(targets[r.cur]) /\ Accepted(targets'[r.cur]))
  BY <1>1
<1>6. ASSUME Tries(q, r, maxRetryAttempt) PROVE ApOK(q, shares', targets')
  <2>1. Same(q, r) /\ q.pc = "find" /\ q.i < 4 * maxRetryAttempt /\ q.j < maxRetryAttempt
    BY <1>2, <1>6, AttemptAssumption DEF Tries
  <2> QED
    BY <1>2, <1>4, <2>1, RunsOn
<1>7. ASSUME Ends(q, r, "DeleteVolumeAccessPointFailed") PROVE ApOK(q, shares', targets')
  <2>1. EndsOK(q, targets')
    BY <1>7 DEF EndsOK, Did, Ends
  <2> QED
    BY <1>4, <1>7, <2>1, EndsWell
<1>8. ASSUME Ends(q, r, "ok"), q.hit \/ (Live(targets[r.cur]) /\ Accepted(targets'[r.cur]))
      PROVE  ApOK(q, shares', targets')
  <2>1. ASSUME NEW u \in r.at, Live(targets[r.cur]), Accepted(targets'[r.cur])
        PROVE  Accepted(targets'[u])
    <3>1. CASE u = r.cur
      BY <2>1, <3>1
    <3>2. CASE u # r.cur
      <4>1. u \in TargetIDs /\ Accepted(targets[u])
        BY <1>2, <2>1, <3>2, OneNamed DEF ApInv
      <4> QED
        BY <1>1, <4>1 DEF BackendOnward, TargetsOnward, Target, Statuses, Onward, Accepted
    <3> QED
      BY <3>1, <3>2
  <2>2. q.op = r.op /\ q.at = r.at
    BY <1>8 DEF Ends, Same
  <2>3. EndsOK(q, targets')
    BY <1>2, <1>8, <2>1, <2>2 DEF EndsOK, Did
  <2> QED
    BY <1>4, <1>8, <2>3, EndsWell
<1>9. ApOK(q, shares', targets')
  BY <1>5, <1>6, <1>7, <1>8
<1> QED
  BY <1>1, <1>3, <1>5, <1>9, ApOwn

--------------------------------------------------------------------------------
(* A call begins an operation, or refuses it.                              *)
LEMMA ApOpsCounted ==
    ASSUME ApInv, NEW s \in ApSessions, MayBegin(s)
    PROVE  ap[s].ops + 1 \in 0 .. MaxApOps
BY ApOpsAssumption DEF ApInv, MayBegin, ApOperation

LEMMA RefuseStep ==
    ASSUME ApInv, NEW s \in ApSessions, NEW o \in Operations, RefuseRequest(s, o)
    PROVE  ApInv' /\ \E q : ap' = [ap EXCEPT ![s] = q] /\ q.pc = "done" /\ q.res = "ErrorRequiredFieldMissing"
<1> DEFINE k == [IdleAp EXCEPT !.op = o, !.ops = ap[s].ops + 1]
           q == Conclude(k, "ErrorRequiredFieldMissing")
<1>1. ap' = [ap EXCEPT ![s] = q] /\ MayBegin(s) /\ UNCHANGED backendVars
  BY DEF RefuseRequest
<1>2. k = [IdleAp EXCEPT !.op = o, !.ops = ap[s].ops + 1] /\ q = Conclude(k, "ErrorRequiredFieldMissing")
  OBVIOUS
<1> HIDE DEF k, q
<1>3. k \in ApOperation /\ k.at = {} /\ k.ready = FALSE
  BY <1>1, <1>2, ApOpsCounted DEF IdleAp, ApOperation
<1>4. Ends(q, k, "ErrorRequiredFieldMissing")
  BY <1>2, <1>3, ConcludeAp DEF Ends, ApResults
<1>5. /\ q \in ApOperation /\ q.pc = "done" /\ q.res = "ErrorRequiredFieldMissing" /\ q.i = 0 /\ q.j = 0
      /\ q.at = {} /\ ~q.ready
  BY <1>3, <1>4 DEF Ends, Same
<1>6. ApOK(q, shares', targets')
  BY <1>5, AttemptAssumption DEF ApOK, RunsOK, EndsOK, Did, Running
<1>7. BackendTypeOK' /\ BackendOnward /\ ServiceOK(shares', targets')
  BY <1>1, StillOnward DEF ApInv, backendVars, BackendTypeOK, BackendOnward
<1> QED
  BY <1>1, <1>5, <1>6, <1>7, ApOwn

LEMMA BeginStep ==
    ASSUME ApInv, NEW s \in ApSessions, NEW o \in Operations, NEW x \in ShareIDs,
           NEW t \in TargetIDs \cup {None}, NEW v \in VPCs \cup {None}, NEW h \in VPCs \cup {None},
           BeginOp(s, o, x, t, v, h),
           t # None => targets[t].share = x,
           o = "CreateVolumeAccessPoint" => h \in VPCs /\ v \in {h, None} /\ (t # None => v = None)
    PROVE  ApInv' /\ \E q : ap' = [ap EXCEPT ![s] = q] /\ q.pc = "find" /\ q.i = 0
<1> DEFINE k == [IdleAp EXCEPT !.op = o, !.share = x, !.tid = t, !.vpc = v, !.home = h,
                               !.at = Named(x, t, v), !.ready = shares[x].status = "stable",
                               !.ops = ap[s].ops + 1]
           q == Find(k)
<1>1. ap' = [ap EXCEPT ![s] = q] /\ MayBegin(s) /\ UNCHANGED backendVars
  BY DEF BeginOp
<1>2. Named(x, t, v) \in SUBSET TargetIDs /\ (shares[x].status = "stable") \in BOOLEAN
  BY DEF Named, TargetsOf
<1>3. /\ k \in ApOperation /\ k.op = o /\ k.share = x /\ k.tid = t /\ k.vpc = v /\ k.home = h
      /\ k.at = Named(x, t, v) /\ k.i = 0 /\ (k.ready => shares[x].status = "stable")
  <2> DEFINE b == shares[x].status = "stable"
             c == ap[s].ops + 1
  <2>1. b \in BOOLEAN /\ (b => shares[x].status = "stable") /\ c \in 0 .. MaxApOps
    BY <1>1, ApOpsCounted
  <2>2. k = [IdleAp EXCEPT !.op = o, !.share = x, !.tid = t, !.vpc = v, !.home = h,
                           !.at = Named(x, t, v), !.ready = b, !.ops = c]
    OBVIOUS
  <2> HIDE DEF k, b, c
  <2>3. /\ k \in ApOperation /\ k.op = o /\ k.share = x /\ k.tid = t /\ k.vpc = v /\ k.home = h
        /\ k.at = Named(x, t, v) /\ k.i = 0 /\ k.ready = b
    BY <1>2, <2>1, <2>2 DEF IdleAp, ApOperation
  <2> QED
    BY <2>1, <2>3
<1>4. q = Find(k)
  OBVIOUS
<1> HIDE DEF k, q
<1>5. Same(q, k) /\ q.pc = "find" /\ q.i = 0 /\ q.j = 0
  BY <1>3, <1>4, FindAp
<1>6. /\ q \in ApOperation /\ q.op = o /\ q.share = x /\ q.tid = t /\ q.vpc = v /\ q.home = h
      /\ q.at = Named(x, t, v) /\ (q.ready => shares[x].status = "stable")
  BY <1>3, <1>5 DEF Same
<1>7. \A u \in q.at : IsNamed(q, targets, u)
  BY <1>6 DEF Named, TargetsOf, IsNamed, Live
<1>8. q.tid # None => IsNamed(q, targets, q.tid)
  BY <1>6, BackendAssumption DEF IsNamed, ApInv, ServiceOK
<1>9. ApOK(q, shares, targets)
  BY <1>5, <1>6, <1>7, <1>8, AttemptAssumption DEF ApOK, RunsOK, EndsOK, Did, Running
<1>10. /\ BackendTypeOK' /\ BackendOnward /\ ServiceOK(shares', targets')
       /\ ApOK(q, shares', targets')
  BY <1>1, <1>9, StillOnward DEF ApInv, backendVars, BackendTypeOK, BackendOnward
<1> QED
  BY <1>1, <1>5, <1>10, ApOwn

(* Every call of a session.                                                *)
LEMMA CallStep ==
    ASSUME ApInv, NEW s \in ApSessions, ApCall(s)
    PROVE  /\ ApInv' /\ ap[s].pc \notin Running /\ UNCHANGED backendVars
           /\ \E q : /\ ap' = [ap EXCEPT ![s] = q]
                     /\ \/ q.pc = "done" /\ q.res = "ErrorRequiredFieldMissing"
                        \/ q.pc = "find" /\ q.i = 0
<1>1. ASSUME NEW o \in Operations, RefuseRequest(s, o)
      PROVE  MayBegin(s) /\ UNCHANGED backendVars
  BY <1>1 DEF RefuseRequest
<1>2. ASSUME NEW x \in ShareIDs, NEW t \in TargetIDs \cup {None}, NEW v \in VPCs \cup {None},
             NEW h \in VPCs, CreateVolumeAccessPoint(s, x, t, v, h)
      PROVE  /\ ApInv' /\ MayBegin(s) /\ UNCHANGED backendVars
             /\ \E q : ap' = [ap EXCEPT ![s] = q] /\ q.pc = "find" /\ q.i = 0
  <2>1. /\ BeginOp(s, "CreateVolumeAccessPoint", x, t, v, h) /\ v \in {h, None}
        /\ t # None => v = None /\ targets[t].share = x
    BY <1>2 DEF CreateVolumeAccessPoint, HowNamed
  <2>2. "CreateVolumeAccessPoint" \in Operations
    BY DEF Operations
  <2>3. MayBegin(s) /\ UNCHANGED backendVars
    BY <2>1 DEF BeginOp
  <2> QED
    BY <2>1, <2>2, <2>3, BeginStep
<1>3. ASSUME NEW o \in Operations, NEW x \in ShareIDs, NEW t \in TargetIDs \cup {None},
             NEW v \in VPCs \cup {None}, OnAccessPoint(s, o, x, t, v)
      PROVE  /\ ApInv' /\ MayBegin(s) /\ UNCHANGED backendVars
             /\ \E q : ap' = [ap EXCEPT ![s] = q] /\ q.pc = "find" /\ q.i = 0
  <2>1. /\ BeginOp(s, o, x, t, v, v) /\ o # "CreateVolumeAccessPoint"
        /\ t # None => targets[t].share = x
    BY <1>3 DEF OnAccessPoint, HowNamed
  <2>2. MayBegin(s) /\ UNCHANGED backendVars
    BY <2>1 DEF BeginOp
  <2> QED
    BY <2>1, <2>2, BeginStep
<1>4. MayBegin(s) => ap[s].pc \notin Running
  BY DEF MayBegin, Running
<1> QED
  BY <1>1, <1>2, <1>3, <1>4, RefuseStep DEF ApCall

(* Every step keeps both invariants: the access point operations have the  *)
(* service move onward, which is all the volume operations need (VolOthers *)
(* in ShareLifecycleProofs), and the volume operations leave the service   *)
(* in order, which is all the access point operations need (ApKeeps).      *)
SharedInv == VolInv /\ ApInv

LEMMA ApInitShared == ApInit => SharedInv
<1> SUFFICES ASSUME ApInit PROVE SharedInv
  OBVIOUS
<1>1. ApInv
  BY ApInitOK
<1> QED
  BY <1>1, VolInitOK DEF ApInit, ApInv, SharedInv

LEMMA ApOthers ==
    ASSUME ApInv, UNCHANGED ap, BackendTypeOK', BackendOnward, ServiceOK(shares', targets')
    PROVE  ApInv'
BY ApKeeps DEF ApInv

(* What the steps of an access point operation do to the service.          *)
LEMMA ApOnward ==
    ASSUME ApInv, NEW s \in ApSessions, ApStep(s) \/ ApCall(s)
    PROVE  ApInv' /\ BackendTypeOK' /\ BackendOnward
<1>1. CASE GetVolumeAccessPoint(s)
  BY <1>1, FindStep, FindResult, StillOnward DEF ApInv, BackendOnward
<1>2. CASE CreateTargetAttempt(s)
  BY <1>2, PostStep, PostResult
<1>3. CASE DeleteTargetAttempt(s)
  BY <1>3, RemoveStep, RemoveResult
<1>4. CASE ApCall(s)
  <2>1. ApInv' /\ UNCHANGED backendVars
    BY <1>4, CallStep
  <2> QED
    BY <2>1, StillOnward DEF ApInv, backendVars, BackendOnward
<1> QED
  BY <1>1, <1>2, <1>3, <1>4 DEF ApStep

LEMMA ApNextOK == SharedInv /\ [ApNext]_apVars => SharedInv'
<1> SUFFICES ASSUME SharedInv, [ApNext]_apVars PROVE SharedInv'
  OBVIOUS
<1>1. ASSUME NEW s \in ApSessions, ApStep(s) \/ ApCall(s), UNCHANGED vol PROVE SharedInv'
  BY <1>1, ApOnward, VolOthers DEF SharedInv
<1>2. ASSUME NEW s \in Sessions, VolStep(s) \/ VolCall(s), UNCHANGED ap PROVE SharedInv'
  <2>1. VolInv'
    BY <1>2, VolOwn DEF SharedInv
  <2>2. BackendTypeOK' /\ BackendOnward /\ ServiceOK(shares', targets')
    BY <1>2, VolService DEF SharedInv, ApInv
  <2> QED
    BY <1>2, <2>1, <2>2, ApOthers DEF SharedInv
<1>3. CASE BackendStep /\ UNCHANGED <<vol, ap>>
  <2>1. BackendTypeOK' /\ BackendOnward /\ ServiceOK(shares', targets')
    BY <1>3, BackendStepOnward, ServiceSettles DEF SharedInv, ApInv
  <2> QED
    BY <1>3, <2>1, ApOthers, VolOthers DEF SharedInv
<1>4. CASE UNCHANGED apVars
  BY <1>4 DEF apVars, volVars, backendVars, SharedInv, VolInv, ApInv, BackendTypeOK
<1> QED
  BY <1>1, <1>2, <1>3, <1>4 DEF ApNext

(* The inductive invariant holds in every behaviour of access point and    *)
(* volume operations side by side.                                         *)
THEOREM ApInvariant == ApSpec => []SharedInv
BY ApInitShared, ApNextOK, PTL DEF ApSpec

(* Types are an invariant of the access point operations.                  *)
THEOREM ApTypeTheorem == ApSpec => []ApTypeOK
<1>1. SharedInv => ApTypeOK
  BY VolPromises DEF SharedInv, ApInv, ApTypeOK, ApOpsOK, ApOperation
<1> QED
  BY <1>1, ApInvariant, PTL

(* What CreateVolume and DeleteVolume promise holds as well while other    *)
(* sessions create, delete and wait for access points of the same shares,  *)
(* and starting from shares that are already there.                        *)
THEOREM SharedVolumesTheorem ==
    ApSpec => [](CreatedShareIsUsable /\ NoSharedOwnership /\ LeakNeedsFault /\ DeletedShareIsDoomed)
<1>1. SharedInv => CreatedShareIsUsable /\ NoSharedOwnership /\ LeakNeedsFault /\ DeletedShareIsDoomed
  BY VolPromises DEF SharedInv
<1> QED
  BY <1>1, ApInvariant, PTL

(* CreateVolumeAccessPoint answers with a target of the requested share in *)
(* the requested VPC, whoever made it and whatever answers were lost, or   *)
(* with the access point whose id the request gives.                       *)
THEOREM AskedForTheorem == ApSpec => []CreatedTargetIsTheOneAskedFor
<1>1. SharedInv => CreatedTargetIsTheOneAskedFor
  BY BackendAssumption DEF SharedInv, ApInv, CreatedTargetIsTheOneAskedFor, Ended, ApOK, EndsOK, Did
<1> QED
  BY <1>1, ApInvariant, PTL

(* A DeleteVolumeAccessPoint that no fault has hit reports success only    *)
(* for targets whose deletion the service has accepted.                    *)
THEOREM TargetDoomedTheorem == ApSpec => []DeletedTargetIsDoomed
<1>1. SharedInv => DeletedTargetIsDoomed
  BY DEF SharedInv, ApInv, DeletedTargetIsDoomed, Ended, ApOK, EndsOK, Did
<1> QED
  BY <1>1, ApInvariant, PTL

(* A successful wait for creation has seen the target stable, one for      *)
(* deletion, unless a fault hit it, has seen it gone.                      *)
THEOREM WaitsTheorem == ApSpec => []WaitsTellTheTruth
<1>1. SharedInv => WaitsTellTheTruth
  BY DEF SharedInv, ApInv, WaitsTellTheTruth, Ended, ApOK, EndsOK, Did
<1> QED
  BY <1>1, ApInvariant, PTL

--------------------------------------------------------------------------------
(* A request brings its operation further.                                 *)
LEMMA StepIsLater ==
    ASSUME ApInv, NEW s \in ApSessions, ApStep(s)
    PROVE  \E q : ap' = [ap EXCEPT ![s] = q] /\ Later(ap[s], q)
<1>1. ap[s].i \in Nat /\ ap[s].j \in Nat
  BY DEF ApInv, ApOperation
<1>2. CASE GetVolumeAccessPoint(s)
  <2>1. PICK q : /\ ap' = [ap EXCEPT ![s] = q]
                 /\ \/ Repeats(q, ap[s])
                    \/ FindsNone(q, ap[s])
                    \/ \E t : Finds(q, ap[s], t)
    BY <1>2, FindResult
  <2>2. ap[s].pc = "find"
    BY <1>2, FindResult
  <2>3. \/ q.pc = "done" \/ q.i = ap[s].i + 1
        \/ q.i = ap[s].i /\ (q.pc # "find" \/ q.j = ap[s].j + 1)
    BY <2>1 DEF Repeats, FindsNone, Finds, Ends, Tries
  <2>4. Later(ap[s], q)
    BY <1>1, <2>2, <2>3 DEF Later
  <2> QED
    BY <2>1, <2>4
<1>3. CASE CreateTargetAttempt(s)
  <2>1. PICK q : /\ ap' = [ap EXCEPT ![s] = q]
                 /\ \/ Tries(q, ap[s], maxRetryAttempt)
                    \/ \E result : Ends(q, ap[s], result)
    BY <1>3, PostResult
  <2>2. Later(ap[s], q)
    BY <1>1, <2>1 DEF Later, Ends, Tries
  <2> QED
    BY <2>1, <2>2
<1>4. CASE DeleteTargetAttempt(s)
  <2>1. PICK q : /\ ap' = [ap EXCEPT ![s] = q]
                 /\ \/ Tries(q, ap[s], maxRetryAttempt)
                    \/ \E result : Ends(q, ap[s], result)
    BY <1>4, RemoveResult
  <2>2. Later(ap[s], q)
    BY <1>1, <2>1 DEF Later, Ends, Tries
  <2> QED
    BY <2>1, <2>2
<1> QED
  BY <1>2, <1>3, <1>4 DEF ApStep

(* Every request of an access point operation brings it further in its     *)
(* nested loops, and both loops stay within their bounds.                  *)
THEOREM FurtherTheorem == ApSpec => EveryRequestBringsItFurther
<1>1. ASSUME SharedInv, SharedInv', [ApNext]_apVars
      PROVE  [\A s \in ApSessions : ap[s].pc \in Running /\ ap'[s] # ap[s] =>
                 /\ Later(ap[s], ap'[s])
                 /\ ap'[s].i < Limit("FlexyRetryWithConstGap")
                 /\ ap'[s].j < Limit("FlexyRetry")]_apVars
  <2> SUFFICES ASSUME ApNext, NEW s \in ApSessions, ap[s].pc \in Running, ap'[s] # ap[s]
               PROVE  /\ Later(ap[s], ap'[s])
                      /\ ap'[s].i < Limit("FlexyRetryWithConstGap")
                      /\ ap'[s].j < Limit("FlexyRetry")
    BY <1>1
  <2>1. ap'[s].i < 4 * maxRetryAttempt /\ ap'[s].j < maxRetryAttempt
    BY <1>1 DEF SharedInv, ApInv, ApOK, RunsOK
  <2>2. Limit("FlexyRetryWithConstGap") = 4 * maxRetryAttempt /\ Limit("FlexyRetry") = maxRetryAttempt
    BY DEF Limit
  <2>3. ASSUME NEW u \in ApSessions, ApStep(u) PROVE Later(ap[s], ap'[s])
    <3>1. PICK q : ap' = [ap EXCEPT ![u] = q] /\ Later(ap[u], q)
      BY <1>1, <2>3, StepIsLater DEF SharedInv
    <3>2. u = s /\ ap'[s] = q
      BY <1>1, <3>1 DEF SharedInv, ApInv
    <3> QED
      BY <3>1, <3>2
  <2>4. ASSUME NEW u \in ApSessions, ApCall(u) PROVE FALSE
    <3>1. ap[u].pc \notin Running /\ \E q : ap' = [ap EXCEPT ![u] = q]
      BY <1>1, <2>4, CallStep DEF SharedInv
    <3> QED
      BY <1>1, <3>1 DEF SharedInv, ApInv
  <2> QED
    BY <2>1, <2>2, <2>3, <2>4 DEF ApNext
<1> QED
  BY <1>1, ApInvariant, PTL DEF ApSpec, EveryRequestBringsItFurther

--------------------------------------------------------------------------------
(* Creators that race.  While nothing is deleted, a target that holds its  *)
(* place keeps it, and where none is free none is born.                    *)
LEMMA UndeletedBefore == ASSUME BackendOnward, NothingDeleted' PROVE NothingDeleted
<1>1. \A x \in ShareIDs : ~Accepted(shares[x])
  BY DEF NothingDeleted, BackendOnward, SharesOnward, Share, Statuses, Onward, Accepted
<1>2. \A t \in TargetIDs : ~Accepted(targets[t])
  BY DEF NothingDeleted, BackendOnward, TargetsOnward, Target, Statuses, Onward, Accepted
<1> QED
  BY <1>1, <1>2 DEF NothingDeleted

LEMMA RacesKeep ==
    ASSUME BackendTypeOK, BackendOnward, NothingDeleted', NEW r, RacesOK(r, targets)
    PROVE  RacesOK(r, targets')
<1>1. ASSUME NEW t \in TargetIDs, targets[t].status # "unused"
      PROVE  /\ targets'[t].status # "unused"
             /\ targets'[t].share = targets[t].share /\ targets'[t].vpc = targets[t].vpc
             /\ Live(targets[t]) /\ Live(targets'[t])
  BY <1>1 DEF NothingDeleted, BackendTypeOK, BackendOnward, TargetsOnward, Target, Statuses, Onward, Accepted, Live
<1>2. NoneFree(targets) => NoneFree(targets')
  BY <1>1 DEF NoneFree
<1>3. ASSUME NEW x, NEW v, Holds(targets, x, v) PROVE Holds(targets', x, v)
  BY <1>1, <1>3 DEF Holds, Live
<1>4. ASSUME NEW x, NEW v, NoneFree(targets), ~Holds(targets, x, v) PROVE ~Holds(targets', x, v)
  BY <1>1, <1>4 DEF Holds, NoneFree
<1> QED
  BY <1>2, <1>3, <1>4 DEF RacesOK

(* A step that has the service move onward and its own session do well.    *)
LEMMA RaceStep ==
    ASSUME ApInv, RaceInv, BackendOnward, NEW s \in ApSessions, NEW q, ap' = [ap EXCEPT ![s] = q],
           NothingDeleted /\ NothingDeleted' /\ RacesOK(ap[s], targets) => RacesOK(q, targets')
    PROVE  RaceInv'
<1> SUFFICES ASSUME NothingDeleted', NEW u \in ApSessions PROVE RacesOK(ap'[u], targets')
  BY DEF RaceInv
<1>1. NothingDeleted /\ \A w \in ApSessions : RacesOK(ap[w], targets)
  BY UndeletedBefore DEF RaceInv
<1>2. CASE u = s
  <2>1. ap'[u] = q
    BY <1>2 DEF ApInv
  <2> QED
    BY <1>1, <1>2, <2>1
<1>3. CASE u # s
  <2>1. ap'[u] = ap[u]
    BY <1>3 DEF ApInv
  <2> QED
    BY <1>1, <2>1, RacesKeep DEF ApInv
<1> QED
  BY <1>2, <1>3

LEMMA FindRaces ==
    ASSUME ApInv, RaceInv, NEW s \in ApSessions, GetVolumeAccessPoint(s)
    PROVE  RaceInv'
<1> DEFINE r == ap[s]
<1>1. PICK q : /\ ap' = [ap EXCEPT ![s] = q]
               /\ Repeats(q, r) \/ FindsNone(q, r) \/ \E t : Finds(q, r, t)
  BY FindResult
<1>2. shares' = shares /\ targets' = targets /\ r.pc = "find"
  BY FindResult
<1>3. BackendOnward
  BY <1>2, StillOnward DEF ApInv, BackendOnward
<1>4. r.i \in Nat /\ (r.op = "CreateVolumeAccessPoint" /\ r.vpc # None => r.tid = None)
  BY <1>2 DEF ApInv, ApOK, RunsOK, ApOperation, Running
<1> HIDE DEF r
<1>5. ASSUME RacesOK(r, targets) PROVE RacesOK(q, targets)
  <2> SUFFICES ASSUME q.op = "CreateVolumeAccessPoint", q.ready, ~q.hit, q.vpc # None
               PROVE  /\ q.pc = "find" /\ q.i > 0 => Holds(targets, q.share, q.vpc) \/ NoneFree(targets)
                      /\ \/ q.pc = "post" /\ q.i > 0
                         \/ q.pc = "done" /\ q.res = "CreateVolumeAccessPointFailed"
                         => ~Holds(targets, q.share, q.vpc) /\ NoneFree(targets)
    BY DEF RacesOK
  <2>1. Same(q, r)
    BY <1>1 DEF Repeats, FindsNone, Finds, Ends, Tries
  <2>2. /\ r.op = "CreateVolumeAccessPoint" /\ r.ready /\ ~r.hit /\ r.vpc # None
        /\ q.share = r.share /\ q.vpc = r.vpc
    BY <2>1 DEF Same
  <2>3. r.i > 0 => Holds(targets, r.share, r.vpc) \/ NoneFree(targets)
    BY <1>2, <1>5, <2>2 DEF RacesOK
  <2>4. CASE Repeats(q, r)
    BY <2>2, <2>3, <2>4 DEF Repeats
  <2>5. CASE FindsNone(q, r)
    <3>1. q.pc = "post" /\ q.i = r.i
      BY <2>2, <2>5 DEF FindsNone
    <3>2. \A u \in TargetIDs : IsNamed(r, targets, u) => ~Live(targets[u])
      BY <2>5 DEF FindsNone
    <3>3. ~Holds(targets, r.share, r.vpc)
      BY <1>4, <2>2, <3>2 DEF Holds, IsNamed, Live
    <3> QED
      BY <2>2, <2>3, <3>1, <3>3
  <2>6. CASE \E t : Finds(q, r, t)
    BY <2>2, <2>6 DEF Finds, Ends
  <2> QED
    BY <1>1, <2>4, <2>5, <2>6
<1> QED
  BY <1>1, <1>2, <1>3, <1>5, RaceStep DEF r

(* A refusal is final only when the target in the way has been looked for. *)
LEMMA PostRaces ==
    ASSUME maxRetryAttempt >= 2, DuplicateTarget \notin SkipTrue,
           ApInv, RaceInv, NEW s \in ApSessions, CreateTargetAttempt(s)
    PROVE  RaceInv'
<1> DEFINE r == ap[s]
<1>1. PICK q : /\ ap' = [ap EXCEPT ![s] = q]
               /\ \/ Tries(q, r, maxRetryAttempt) /\ Refusal(q, r)
                  \/ /\ Ends(q, r, "CreateVolumeAccessPointFailed")
                     /\ Refusal(q, r) /\ FinalRefusal(q, r)
                  \/ Ends(q, r, "ok")
  BY PostResult
<1>2. BackendOnward /\ r.pc = "post"
  BY PostResult
<1>r. /\ r.ready => r.share \in ShareIDs /\ shares[r.share].status \notin {"unused", "pending"}
      /\ r.vpc \in {r.home, None}
  BY <1>2 DEF ApInv, ApOK, RunsOK, Running
<1> HIDE DEF r
<1>4. ASSUME NothingDeleted, RacesOK(r, targets) PROVE RacesOK(q, targets')
  <2>r. r.ready => shares[r.share].status = "stable"
    BY <1>4, <1>r DEF NothingDeleted, Accepted, ApInv, BackendTypeOK, Statuses
  <2> SUFFICES ASSUME q.op = "CreateVolumeAccessPoint", q.ready, ~q.hit, q.vpc # None
               PROVE  /\ q.pc = "find" /\ q.i > 0 => Holds(targets', q.share, q.vpc) \/ NoneFree(targets')
                      /\ \/ q.pc = "post" /\ q.i > 0
                         \/ q.pc = "done" /\ q.res = "CreateVolumeAccessPointFailed"
                         => ~Holds(targets', q.share, q.vpc) /\ NoneFree(targets')
    BY DEF RacesOK
  <2>1. Same(q, r)
    BY <1>1 DEF Ends, Tries
  <2>2. /\ r.op = "CreateVolumeAccessPoint" /\ r.ready /\ ~r.hit /\ r.vpc # None
        /\ q.share = r.share /\ q.vpc = r.vpc /\ r.vpc = r.home
    BY <1>r, <2>1 DEF Same
  <2>3. r.i > 0 => ~Holds(targets, r.share, r.vpc)
    BY <1>2, <1>4, <2>2 DEF RacesOK
  <2>4. CASE Tries(q, r, maxRetryAttempt) /\ Refusal(q, r)
    <3>1. targets' = targets /\ (Holds(targets, r.share, r.home) \/ NoneFree(targets))
      BY <2>r, <2>2, <2>4 DEF Refusal
    <3> QED
      BY <2>2, <2>4, <3>1 DEF Tries
  <2>5. CASE /\ Ends(q, r, "CreateVolumeAccessPointFailed")
             /\ Refusal(q, r) /\ FinalRefusal(q, r)
    <3>1. targets' = targets /\ (Holds(targets, r.share, r.home) \/ NoneFree(targets))
      BY <2>r, <2>2, <2>5 DEF Refusal
    <3>2. Holds(targets, r.share, r.home) => r.i > 0
      BY <2>r, <2>2, <2>5 DEF FinalRefusal
    <3> QED
      BY <2>2, <2>3, <2>5, <3>1, <3>2 DEF Ends
  <2>6. CASE Ends(q, r, "ok")
    BY <2>6 DEF Ends
  <2> QED
    BY <1>1, <2>4, <2>5, <2>6
<1> QED
  BY <1>1, <1>2, <1>4, RaceStep DEF r

LEMMA RaceNext ==
    ASSUME maxRetryAttempt >= 2, DuplicateTarget \notin SkipTrue, SharedInv, RaceInv, [ApNext]_apVars
    PROVE  RaceInv'
<1>1. ASSUME NEW s \in ApSessions, DeleteTargetAttempt(s) PROVE RaceInv'
  <2>1. PICK q : /\ ap' = [ap EXCEPT ![s] = q]
                 /\ \/ Tries(q, ap[s], maxRetryAttempt)
                    \/ \E result : Ends(q, ap[s], result)
    BY <1>1, RemoveResult DEF SharedInv
  <2>2. BackendOnward /\ ap[s].pc = "remove"
    BY <1>1, RemoveResult DEF SharedInv
  <2>3. ap[s].op = "DeleteVolumeAccessPoint"
    BY <2>2 DEF SharedInv, ApInv, ApOK, RunsOK
  <2>4. q.op = "DeleteVolumeAccessPoint"
    BY <2>1, <2>3 DEF Ends, Tries, Same
  <2>5. RacesOK(q, targets')
    BY <2>4 DEF RacesOK
  <2> QED
    BY <2>1, <2>2, <2>5, RaceStep DEF SharedInv
<1>2. ASSUME NEW s \in ApSessions, ApCall(s) PROVE RaceInv'
  <2>1. PICK q : /\ ap' = [ap EXCEPT ![s] = q]
                 /\ \/ q.pc = "done" /\ q.res = "ErrorRequiredFieldMissing"
                    \/ q.pc = "find" /\ q.i = 0
    BY <1>2, CallStep DEF SharedInv
  <2>2. BackendOnward
    <3>1. UNCHANGED backendVars
      BY <1>2, CallStep DEF SharedInv
    <3> QED
      BY <3>1, StillOnward DEF backendVars, SharedInv, ApInv, BackendOnward
  <2>3. RacesOK(q, targets')
    BY <2>1 DEF RacesOK
  <2> QED
    BY <2>1, <2>2, <2>3, RaceStep DEF SharedInv
<1>3. ASSUME BackendOnward, UNCHANGED ap PROVE RaceInv'
  <2> SUFFICES ASSUME NothingDeleted', NEW u \in ApSessions PROVE RacesOK(ap'[u], targets')
    BY DEF RaceInv
  <2>1. RacesOK(ap[u], targets)
    BY <1>3, UndeletedBefore DEF RaceInv
  <2> QED
    BY <1>3, <2>1, RacesKeep DEF SharedInv, ApInv
<1>4. ASSUME NEW s \in Sessions, VolStep(s) \/ VolCall(s), UNCHANGED ap PROVE RaceInv'
  BY <1>3, <1>4, VolService DEF SharedInv, ApInv
<1>5. CASE BackendStep /\ UNCHANGED <<vol, ap>>
  BY <1>3, <1>5, BackendStepOnward DEF SharedInv, ApInv
<1>6. CASE UNCHANGED apVars
  BY <1>6 DEF apVars, volVars, backendVars, RaceInv, NothingDeleted
<1> QED
  BY <1>1, <1>2, <1>4, <1>5, <1>6, FindRaces, PostRaces DEF SharedInv, ApNext, ApStep

(* A creator that loses the race for a target on a stable share adopts the *)
(* winner's: given a second attempt, and a code for a duplicate target     *)
(* that the provider does not list as hopeless, CreateVolumeAccessPoint    *)
(* fails without faults and deletions only where there is no such target.  *)
THEOREM AdoptsTheorem ==
    ASSUME maxRetryAttempt >= 2, DuplicateTarget \notin SkipTrue
    PROVE  ApSpec => []LosingCreatorAdopts
<1>1. ApInit => RaceInv
  BY DEF ApInit, IdleAp, RaceInv, RacesOK
<1>2. SharedInv /\ RaceInv /\ [ApNext]_apVars => RaceInv'
  BY RaceNext
<1>3. RaceInv => LosingCreatorAdopts
  BY DEF RaceInv, RacesOK, LosingCreatorAdopts, NothingDeleted, Ended, Holds, TargetsOf
<1> QED
  BY <1>1, <1>2, <1>3, ApInvariant, PTL DEF ApSpec
================================================================================
