-------------------------- MODULE ShareLifecycleProofs --------------------------
(***************************************************************************)
(* What CreateVolume and DeleteVolume promise, proved for every number of  *)
(* sessions, shares, names, attempts and faults.                           *)
(*                                                                         *)
(* The inductive invariant is a condition on the operation r of one        *)
(* session and the shares sh of the service, and one on two sessions: the  *)
(* shares they made are different ones.  The condition on r survives every *)
(* step of the service and of the other sessions because shares only move  *)
(* onward (SessionKeeps), so that a step is proved by looking at its own   *)
(* session alone (SessionStep).                                            *)
(*                                                                         *)
(* The first part says what a request of the HTTP clients may come back    *)
(* with and what it may do to the shares and targets of the service: they  *)
(* only move onward, from unused to gone, and keep their name, share and   *)
(* VPC.  The proofs about the access points rest on it too.                *)
(***************************************************************************)
EXTENDS ShareLifecycle, TLAPS

Share  == [status : Statuses, name : Names \cup {None}]
Target == [status : Statuses, share : ShareIDs \cup {None}, vpc : VPCs \cup {None}]

Onward(a, b) ==
    /\ b = "unused"   => a = "unused"
    /\ b = "pending"  => a \in {"unused", "pending"}
    /\ b = "stable"   => a \in {"pending", "stable"}
    /\ b = "deleting" => a \in {"pending", "stable", "deleting"}
    /\ b = "gone"     => a \in {"deleting", "gone"}

SharesOnward(sh) ==
    /\ sh \in [ShareIDs -> Share]
    /\ \A x \in ShareIDs :
          /\ Onward(shares[x].status, sh[x].status)
          /\ shares[x].status # "unused" => sh[x].name = shares[x].name

TargetsOnward(tg) ==
    /\ tg \in [TargetIDs -> Target]
    /\ \A t \in TargetIDs :
          /\ Onward(targets[t].status, tg[t].status)
          /\ targets[t].status # "unused" =>
                tg[t].share = targets[t].share /\ tg[t].vpc = targets[t].vpc

(* A step of the service: nothing moves back.                              *)
BackendOnward == SharesOnward(shares') /\ TargetsOnward(targets')

(* What every outcome of a request is.                                     *)
Sound(o) ==
    /\ SharesOnward(o.shares) /\ TargetsOnward(o.targets)
    /\ o.fault \in BOOLEAN
    /\ o.fault => faults < MaxFaults

(* The answer of a request that changed nothing and failed.                *)
Denied(o) ==
    o.shares = shares /\ o.targets = targets /\ IsErr(o.err) /\ o.val = None /\ o.fault = FALSE

--------------------------------------------------------------------------------
(* A state of the service in which nothing moved.                          *)
LEMMA StillOnward ==
    ASSUME BackendTypeOK
    PROVE  SharesOnward(shares) /\ TargetsOnward(targets)
BY DEF BackendTypeOK, SharesOnward, TargetsOnward, Share, Target, Onward, Statuses

(* A refusal is an error with a code and changes nothing.                  *)
LEMMA RefusedIsDenied == ASSUME NEW code PROVE Denied(Refused(code))
BY DEF Denied, Refused, Outcome, ModelsError, IsErr

LEMMA DeniedIsSound ==
    ASSUME BackendTypeOK, NEW o, Denied(o)
    PROVE  Sound(o)
BY StillOnward DEF Denied, Sound

(* A fault comes back as an error without a value, from a request the      *)
(* service acted on or not.                                                *)
LEMMA InvokeCases ==
    ASSUME NEW O, NEW o \in Invoke(O)
    PROVE  \/ o \in O
           \/ /\ faults < MaxFaults /\ o.fault = TRUE /\ IsErr(o.err) /\ o.val = None
              /\ \/ o.shares = shares /\ o.targets = targets
                 \/ \E p \in O : o.shares = p.shares /\ o.targets = p.targets
BY BackendAssumption DEF Invoke, Outcome, OtherError, IsErr

(* So a request is sound when its outcomes without a fault are.            *)
LEMMA InvokeSound ==
    ASSUME BackendTypeOK, NEW O, \A p \in O : Sound(p), NEW o \in Invoke(O)
    PROVE  Sound(o)
<1>1. CASE o \in O
  BY <1>1
<1>2. CASE o \notin O
  <2>1. faults < MaxFaults /\ o.fault = TRUE
    BY <1>2, InvokeCases
  <2>2. \/ o.shares = shares /\ o.targets = targets
        \/ \E p \in O : o.shares = p.shares /\ o.targets = p.targets
    BY <1>2, InvokeCases
  <2>3. SharesOnward(o.shares) /\ TargetsOnward(o.targets)
    BY <2>2, StillOnward DEF Sound
  <2> QED
    BY <2>1, <2>3 DEF Sound
<1> QED
  BY <1>1, <1>2

(* The service moves to a sound outcome.                                   *)
LEMMA DeliverSound ==
    ASSUME BackendTypeOK, NEW o, Sound(o), Deliver(o)
    PROVE  BackendTypeOK' /\ BackendOnward
<1>1. faults' \in 0 .. MaxFaults
  BY BackendAssumption DEF BackendTypeOK, Sound, Deliver
<1> QED
  BY <1>1 DEF BackendTypeOK, BackendOnward, Sound, Deliver, SharesOnward, TargetsOnward, Share, Target

(* The work the service finishes on its own moves onward too.              *)
LEMMA BackendStepOnward ==
    ASSUME BackendTypeOK, BackendStep
    PROVE  BackendTypeOK' /\ BackendOnward
<1>1. ASSUME NEW x \in ShareIDs, ShareSettles(x) PROVE BackendTypeOK' /\ BackendOnward
  BY <1>1, StillOnward, SMTT(30) DEF ShareSettles, BackendTypeOK, BackendOnward, SharesOnward, TargetsOnward,
                           Share, Target, Onward, Statuses
<1>2. ASSUME NEW t \in TargetIDs, TargetSettles(t) PROVE BackendTypeOK' /\ BackendOnward
  BY <1>2, StillOnward, SMTT(30) DEF TargetSettles, BackendTypeOK, BackendOnward, SharesOnward, TargetsOnward,
                           Share, Target, Onward, Statuses
<1> QED
  BY <1>1, <1>2 DEF BackendStep

--------------------------------------------------------------------------------
(* GET /shares/{id} changes nothing; its answer is the state of the share. *)
LEMMA GetShareOutcome ==
    ASSUME BackendTypeOK, NEW x \in ShareIDs, NEW o \in GetFileShare(x)
    PROVE  /\ Sound(o)
           /\ o.shares = shares /\ o.targets = targets
           /\ ~IsErr(o.err) => Live(shares[x]) /\ o.val.status = shares[x].status
           /\ o.fault => IsErr(o.err)
<1> DEFINE V == [status |-> shares[x].status, targets |-> TargetsOf(x)]
<1>1. ASSUME NEW p \in ServiceGetShare(x)
      PROVE  Denied(p) \/ (p = Value(V) /\ Live(shares[x]))
  BY RefusedIsDenied DEF ServiceGetShare
<1>v. V.status = shares[x].status
  OBVIOUS
<1> HIDE DEF V
<1>2. ASSUME NEW p \in ServiceGetShare(x)
      PROVE  /\ p.shares = shares /\ p.targets = targets /\ p.fault = FALSE
             /\ ~IsErr(p.err) => Live(shares[x]) /\ p.val.status = shares[x].status
  <2>1. CASE Denied(p)
    BY <2>1 DEF Denied
  <2>2. CASE p = Value(V) /\ Live(shares[x])
    <3>1. p.shares = shares /\ p.targets = targets /\ p.fault = FALSE /\ p.val = V
      BY <2>2 DEF Value, Done, Outcome
    <3> QED
      BY <3>1, <2>2, <1>v
  <2> QED
    BY <1>1, <2>1, <2>2
<1>3. o \in Invoke(ServiceGetShare(x))
  BY DEF GetFileShare
<1>4. CASE o \in ServiceGetShare(x)
  BY <1>2, <1>4, StillOnward DEF Sound
<1>5. CASE o \notin ServiceGetShare(x)
  <2>1. faults < MaxFaults /\ o.fault = TRUE /\ IsErr(o.err)
    BY <1>3, <1>5, InvokeCases
  <2>2. \/ o.shares = shares /\ o.targets = targets
        \/ \E p \in ServiceGetShare(x) : o.shares = p.shares /\ o.targets = p.targets
    BY <1>3, <1>5, InvokeCases
  <2>3. o.shares = shares /\ o.targets = targets
    BY <1>2, <2>2
  <2> QED
    BY <2>1, <2>3, StillOnward DEF Sound
<1> QED
  BY <1>4, <1>5

(* POST /shares: without a fault a share is born and answered, with a      *)
(* target of its own or without, or nothing happens.                       *)
FirstTarget(tg, x, v) ==
    \/ tg = targets
    \/ /\ v \in VPCs
       /\ \E t \in TargetIDs : targets[t].status = "unused" /\ tg = WithTarget(t, x, v)

LEMMA CreateShareService ==
    ASSUME BackendTypeOK, NEW n \in Names, NEW v \in VPCs \cup {None},
           NEW p \in ServiceCreateShare(n, v)
    PROVE  \/ Denied(p)
           \/ /\ Sound(p) /\ p.fault = FALSE /\ p.err = NoError
              /\ p.val \in ShareIDs /\ shares[p.val].status = "unused" /\ p.shares = Born(p.val, n)
              /\ FirstTarget(p.targets, p.val, v)
<1>1. ASSUME NEW x \in ShareIDs, shares[x].status = "unused"
      PROVE  SharesOnward(Born(x, n))
  BY <1>1 DEF BackendTypeOK, SharesOnward, Born, Share, Onward, Statuses
<1>2. ASSUME NEW x \in ShareIDs, NEW t \in TargetIDs, targets[t].status = "unused", v \in VPCs
      PROVE  TargetsOnward(WithTarget(t, x, v))
  BY <1>2 DEF BackendTypeOK, TargetsOnward, WithTarget, Target, Onward, Statuses
<1>3. \/ \E code : p = Refused(code)
      \/ \E x \in ShareIDs : shares[x].status = "unused" /\ p = Done(Born(x, n), targets, x)
      \/ \E x \in ShareIDs, t \in TargetIDs :
            /\ shares[x].status = "unused" /\ targets[t].status = "unused" /\ v \in VPCs
            /\ p = Done(Born(x, n), WithTarget(t, x, v), x)
  <2> DEFINE one == {Done(Born(x, n), targets, x) : x \in FreeShares}
             two == {Done(Born(x, n), WithTarget(t, x, v), x) : x \in FreeShares, t \in FreeTargets}
  <2>1. \/ p = Refused("shares_name_duplicate") \/ p = Refused("over_quota")
        \/ p \in one
        \/ p \in two /\ v # None
    BY DEF ServiceCreateShare
  <2>2. CASE p \in one
    BY <2>2 DEF FreeShares
  <2>3. CASE p \in two /\ v # None
    BY <2>3 DEF FreeShares, FreeTargets
  <2> HIDE DEF one, two
  <2> QED
    BY <2>1, <2>2, <2>3
<1>4. ASSUME NEW x \in ShareIDs, NEW tg, shares[x].status = "unused", p = Done(Born(x, n), tg, x),
             TargetsOnward(tg), FirstTarget(tg, x, v)
      PROVE  /\ Sound(p) /\ p.fault = FALSE /\ p.err = NoError
             /\ p.val \in ShareIDs /\ shares[p.val].status = "unused" /\ p.shares = Born(p.val, n)
             /\ FirstTarget(p.targets, p.val, v)
  <2>1. SharesOnward(Born(x, n))
    BY <1>1, <1>4
  <2>2. p.shares = Born(x, n) /\ p.targets = tg /\ p.fault = FALSE /\ p.err = NoError /\ p.val = x
    BY <1>4 DEF Done, Outcome
  <2> QED
    BY <2>1, <2>2, <1>4 DEF Sound
<1>5. ASSUME NEW x \in ShareIDs PROVE FirstTarget(targets, x, v)
  BY DEF FirstTarget
<1>6. ASSUME NEW x \in ShareIDs, NEW t \in TargetIDs, targets[t].status = "unused", v \in VPCs
      PROVE  FirstTarget(WithTarget(t, x, v), x, v)
  BY <1>6 DEF FirstTarget
<1> QED
  BY <1>2, <1>3, <1>4, <1>5, <1>6, StillOnward, RefusedIsDenied

LEMMA CreateShareOutcome ==
    ASSUME BackendTypeOK, NEW n \in Names, NEW v \in VPCs \cup {None}, NEW o \in CreateFileShare(n, v)
    PROVE  /\ Sound(o)
           /\ \/ o.shares = shares /\ o.targets = targets /\ IsErr(o.err)
              \/ \E x \in ShareIDs :
                    /\ shares[x].status = "unused" /\ o.shares = Born(x, n)
                    /\ FirstTarget(o.targets, x, v)
                    /\ \/ o.val = x /\ o.err = NoError
                       \/ o.fault /\ IsErr(o.err)
<1>1. o \in Invoke(ServiceCreateShare(n, v))
  BY DEF CreateFileShare
<1>2. Sound(o)
  BY <1>1, CreateShareService, DeniedIsSound, InvokeSound
<1>3. CASE o \in ServiceCreateShare(n, v)
  <2>1. CASE Denied(o)
    BY <1>2, <2>1 DEF Denied
  <2>2. CASE ~Denied(o)
    BY <1>2, <1>3, <2>2, CreateShareService
  <2> QED
    BY <2>1, <2>2
<1>4. CASE o \notin ServiceCreateShare(n, v)
  <2>1. o.fault = TRUE /\ IsErr(o.err)
    BY <1>1, <1>4, InvokeCases
  <2>2. \/ o.shares = shares /\ o.targets = targets
        \/ \E p \in ServiceCreateShare(n, v) : o.shares = p.shares /\ o.targets = p.targets
    BY <1>1, <1>4, InvokeCases
  <2>3. \/ o.shares = shares /\ o.targets = targets
        \/ \E x \in ShareIDs : /\ shares[x].status = "unused" /\ o.shares = Born(x, n)
                              /\ FirstTarget(o.targets, x, v)
    BY <2>2, CreateShareService DEF Denied
  <2> QED
    BY <1>2, <2>1, <2>3
<1> QED
  BY <1>3, <1>4

(* DELETE /shares/{id}: an answer without an error means that the service  *)
(* has accepted the deletion; it takes a share without live targets only.  *)
Retired(sh, x) ==
    \/ sh = shares
    \/ TargetsOf(x) = {} /\ sh = [shares EXCEPT ![x].status = "deleting"]

LEMMA DeleteShareOutcome ==
    ASSUME BackendTypeOK, NEW x \in ShareIDs, NEW o \in DeleteFileShare(x)
    PROVE  /\ Sound(o) /\ (~IsErr(o.err) => Accepted(o.shares[x]))
           /\ o.targets = targets /\ Retired(o.shares, x)
<1> DEFINE sh == [shares EXCEPT ![x].status = "deleting"]
<1>1. ASSUME NEW p \in ServiceDeleteShare(x)
      PROVE  \/ Denied(p)
             \/ p = Done(sh, targets, None) /\ shares[x].status = "stable" /\ TargetsOf(x) = {}
  <2>1. ~(~Live(shares[x])) /\ shares[x].status \notin {"pending", "deleting"} => shares[x].status = "stable"
    BY DEF Live
  <2> QED
    BY <2>1, RefusedIsDenied DEF ServiceDeleteShare
<1>2. shares[x].status = "stable" => SharesOnward(sh) /\ Accepted(sh[x])
  BY DEF BackendTypeOK, SharesOnward, Share, Onward, Statuses, Accepted
<1>r. Retired(shares, x) /\ (TargetsOf(x) = {} => Retired(sh, x))
  BY DEF Retired
<1> HIDE DEF sh
<1>3. ASSUME NEW p \in ServiceDeleteShare(x)
      PROVE  /\ Sound(p) /\ (~IsErr(p.err) => Accepted(p.shares[x]))
             /\ p.targets = targets /\ Retired(p.shares, x)
  <2>1. CASE Denied(p)
    BY <2>1, <1>r, DeniedIsSound DEF Denied
  <2>2. CASE p = Done(sh, targets, None) /\ shares[x].status = "stable" /\ TargetsOf(x) = {}
    <3>1. p.shares = sh /\ p.targets = targets /\ p.fault = FALSE
      BY <2>2 DEF Done, Outcome
    <3> QED
      BY <3>1, <2>2, <1>2, <1>r, StillOnward DEF Sound
  <2> QED
    BY <2>1, <2>2, <1>1
<1>4. o \in Invoke(ServiceDeleteShare(x))
  BY DEF DeleteFileShare
<1>5. Sound(o)
  BY <1>3, <1>4, InvokeSound
<1>6. CASE o \in ServiceDeleteShare(x)
  BY <1>3, <1>6
<1>7. CASE o \notin ServiceDeleteShare(x)
  <2>1. IsErr(o.err)
    BY <1>4, <1>7, InvokeCases
  <2>2. \/ o.shares = shares /\ o.targets = targets
        \/ \E p \in ServiceDeleteShare(x) : o.shares = p.shares /\ o.targets = p.targets
    BY <1>4, <1>7, InvokeCases
  <2>3. o.targets = targets /\ Retired(o.shares, x)
    BY <2>2, <1>3, <1>r
  <2> QED
    BY <1>5, <2>1, <2>3
<1> QED
  BY <1>6, <1>7

--------------------------------------------------------------------------------
(* GET and list of targets change nothing; an error without a fault says   *)
(* that the share or the target is not there.                              *)
LEMMA GetTargetOutcome ==
    ASSUME BackendTypeOK, NEW x \in ShareIDs, NEW t \in TargetIDs, NEW o \in GetFileShareTarget(x, t)
    PROVE  /\ Sound(o) /\ o.shares = shares /\ o.targets = targets
           /\ ~IsErr(o.err) => t \in TargetsOf(x) /\ o.val = t
           /\ IsErr(o.err) /\ ~o.fault => ~Live(shares[x]) \/ t \notin TargetsOf(x)
<1>1. ASSUME NEW p \in ServiceGetTarget(x, t)
      PROVE  \/ Denied(p) /\ (~Live(shares[x]) \/ t \notin TargetsOf(x))
             \/ p = Value(t) /\ t \in TargetsOf(x)
  BY RefusedIsDenied DEF ServiceGetTarget
<1>2. ASSUME NEW p \in ServiceGetTarget(x, t)
      PROVE  /\ p.shares = shares /\ p.targets = targets /\ p.fault = FALSE
             /\ ~IsErr(p.err) => t \in TargetsOf(x) /\ p.val = t
             /\ IsErr(p.err) => ~Live(shares[x]) \/ t \notin TargetsOf(x)
  <2>1. CASE Denied(p) /\ (~Live(shares[x]) \/ t \notin TargetsOf(x))
    BY <2>1 DEF Denied
  <2>2. CASE p = Value(t) /\ t \in TargetsOf(x)
    BY <2>2 DEF Value, Done, Outcome, NoError, IsErr
  <2> QED
    BY <1>1, <2>1, <2>2
<1>3. o \in Invoke(ServiceGetTarget(x, t))
  BY DEF GetFileShareTarget
<1>4. CASE o \in ServiceGetTarget(x, t)
  BY <1>2, <1>4, StillOnward DEF Sound
<1>5. CASE o \notin ServiceGetTarget(x, t)
  <2>1. faults < MaxFaults /\ o.fault = TRUE /\ IsErr(o.err)
    BY <1>3, <1>5, InvokeCases
  <2>2. \/ o.shares = shares /\ o.targets = targets
        \/ \E p \in ServiceGetTarget(x, t) : o.shares = p.shares /\ o.targets = p.targets
    BY <1>3, <1>5, InvokeCases
  <2>3. o.shares = shares /\ o.targets = targets
    BY <1>2, <2>2
  <2> QED
    BY <2>1, <2>3, StillOnward DEF Sound
<1> QED
  BY <1>4, <1>5

LEMMA ListTargetsOutcome ==
    ASSUME BackendTypeOK, NEW x \in ShareIDs, NEW o \in ListFileShareTargets(x)
    PROVE  /\ Sound(o) /\ o.shares = shares /\ o.targets = targets
           /\ ~IsErr(o.err) => o.val = TargetsOf(x)
           /\ IsErr(o.err) /\ ~o.fault => ~Live(shares[x])
<1>1. ASSUME NEW p \in ServiceListTargets(x)
      PROVE  (Denied(p) /\ ~Live(shares[x])) \/ p = Value(TargetsOf(x))
  BY RefusedIsDenied DEF ServiceListTargets
<1>2. ASSUME NEW p \in ServiceListTargets(x)
      PROVE  /\ p.shares = shares /\ p.targets = targets /\ p.fault = FALSE
             /\ ~IsErr(p.err) => p.val = TargetsOf(x)
             /\ IsErr(p.err) => ~Live(shares[x])
  <2>1. CASE Denied(p) /\ ~Live(shares[x])
    BY <2>1 DEF Denied
  <2>2. CASE p = Value(TargetsOf(x))
    BY <2>2 DEF Value, Done, Outcome, NoError, IsErr
  <2> QED
    BY <1>1, <2>1, <2>2
<1>3. o \in Invoke(ServiceListTargets(x))
  BY DEF ListFileShareTargets
<1>4. CASE o \in ServiceListTargets(x)
  BY <1>2, <1>4, StillOnward DEF Sound
<1>5. CASE o \notin ServiceListTargets(x)
  <2>1. faults < MaxFaults /\ o.fault = TRUE /\ IsErr(o.err)
    BY <1>3, <1>5, InvokeCases
  <2>2. \/ o.shares = shares /\ o.targets = targets
        \/ \E p \in ServiceListTargets(x) : o.shares = p.shares /\ o.targets = p.targets
    BY <1>3, <1>5, InvokeCases
  <2>3. o.shares = shares /\ o.targets = targets
    BY <1>2, <2>2
  <2> QED
    BY <2>1, <2>3, StillOnward DEF Sound
<1> QED
  BY <1>4, <1>5

(* POST of a target: one is born, of a stable share that has none in the   *)
(* VPC, or nothing happens.                                                *)
TargetBorn(t, x, v) ==
    /\ t \in TargetIDs /\ targets[t].status = "unused" /\ shares[x].status = "stable"
    /\ ~\E u \in TargetsOf(x) : targets[u].vpc = v

(* Why a POST for a stable share was refused.                              *)
WhyRefused(code, x, v) ==
    shares[x].status = "stable" =>
        \/ code = DuplicateTarget /\ \E u \in TargetsOf(x) : targets[u].vpc = v
        \/ code = "over_quota" /\ FreeTargets = {} /\ ~\E u \in TargetsOf(x) : targets[u].vpc = v

LEMMA CreateTargetOutcome ==
    ASSUME BackendTypeOK, NEW x \in ShareIDs, NEW v \in VPCs, NEW o \in CreateFileShareTarget(x, v)
    PROVE  /\ Sound(o) /\ o.shares = shares
           /\ \/ o.targets = targets /\ IsErr(o.err)
              \/ \E t : /\ TargetBorn(t, x, v) /\ o.targets = WithTarget(t, x, v)
                        /\ o.val = t \/ IsErr(o.err)
           /\ \/ o.fault
              \/ o.err = NoError
              \/ \E code : o.err = ModelsError(<<code>>) /\ o.targets = targets /\ WhyRefused(code, x, v)
<1>1. ASSUME NEW p \in ServiceCreateTarget(x, v)
      PROVE  \/ \E code : p = Refused(code) /\ WhyRefused(code, x, v)
             \/ \E t : p = Done(shares, WithTarget(t, x, v), t) /\ TargetBorn(t, x, v)
  <2> DEFINE dup == \E u \in TargetsOf(x) : targets[u].vpc = v
             all == {Done(shares, WithTarget(t, x, v), t) : t \in FreeTargets}
  <2>1. \/ p = Refused("shares_not_found") /\ shares[x].status # "stable"
        \/ p = Refused("shares_status_pending") /\ shares[x].status # "stable"
        \/ p = Refused(DuplicateTarget) /\ dup
        \/ p = Refused("over_quota") /\ FreeTargets = {} /\ ~dup
        \/ p \in all /\ ~dup /\ shares[x].status = "stable"
    <3> HIDE DEF dup, all
    <3> QED
      BY DEF ServiceCreateTarget, Live, dup, all
  <2>2. CASE p \in all /\ ~dup /\ shares[x].status = "stable"
    BY <2>2 DEF FreeTargets, TargetBorn
  <2> HIDE DEF all
  <2> QED
    BY <2>1, <2>2 DEF WhyRefused
<1>2. ASSUME NEW t, TargetBorn(t, x, v) PROVE TargetsOnward(WithTarget(t, x, v))
  BY <1>2 DEF TargetBorn, BackendTypeOK, TargetsOnward, WithTarget, Target, Onward, Statuses
<1>3. ASSUME NEW p \in ServiceCreateTarget(x, v)
      PROVE  /\ Sound(p) /\ p.shares = shares /\ p.fault = FALSE
             /\ \/ /\ p.targets = targets /\ IsErr(p.err)
                   /\ \E code : p.err = ModelsError(<<code>>) /\ WhyRefused(code, x, v)
                \/ /\ p.err = NoError
                   /\ \E t : /\ TargetBorn(t, x, v) /\ p.targets = WithTarget(t, x, v) /\ p.val = t
  <2>1. ASSUME NEW code, p = Refused(code), WhyRefused(code, x, v)
        PROVE  /\ Sound(p) /\ p.shares = shares /\ p.fault = FALSE /\ p.targets = targets /\ IsErr(p.err)
               /\ p.err = ModelsError(<<code>>)
    <3>1. Denied(p) /\ p.err = ModelsError(<<code>>)
      BY <2>1, RefusedIsDenied DEF Refused, Outcome
    <3> QED
      BY <3>1, DeniedIsSound DEF Denied
  <2>2. ASSUME NEW t, p = Done(shares, WithTarget(t, x, v), t), TargetBorn(t, x, v)
        PROVE  /\ Sound(p) /\ p.shares = shares /\ p.fault = FALSE /\ p.err = NoError
               /\ p.targets = WithTarget(t, x, v) /\ p.val = t
    <3>1. /\ p.shares = shares /\ p.targets = WithTarget(t, x, v) /\ p.fault = FALSE
          /\ p.err = NoError /\ p.val = t
      BY <2>2 DEF Done, Outcome
    <3> QED
      BY <3>1, <1>2, <2>2, StillOnward DEF Sound
  <2> QED
    BY <1>1, <2>1, <2>2
<1>4. o \in Invoke(ServiceCreateTarget(x, v))
  BY DEF CreateFileShareTarget
<1>5. Sound(o)
  BY <1>3, <1>4, InvokeSound
<1>6. CASE o \in ServiceCreateTarget(x, v)
  BY <1>3, <1>6
<1>7. CASE o \notin ServiceCreateTarget(x, v)
  <2>1. o.fault = TRUE /\ IsErr(o.err)
    BY <1>4, <1>7, InvokeCases
  <2>2. \/ o.shares = shares /\ o.targets = targets
        \/ \E p \in ServiceCreateTarget(x, v) : o.shares = p.shares /\ o.targets = p.targets
    BY <1>4, <1>7, InvokeCases
  <2>3. /\ o.shares = shares
        /\ \/ o.targets = targets
           \/ \E t : TargetBorn(t, x, v) /\ o.targets = WithTarget(t, x, v)
    BY <1>3, <2>2
  <2> QED
    BY <1>5, <2>1, <2>3
<1> QED
  BY <1>6, <1>7

(* DELETE of a target: without a fault, no error means that the service    *)
(* has accepted it and an error that the target is not there.              *)
LEMMA DeleteTargetOutcome ==
    ASSUME BackendTypeOK, NEW x \in ShareIDs, NEW t \in TargetIDs,
           NEW o \in DeleteFileShareTarget(x, t)
    PROVE  /\ Sound(o) /\ o.shares = shares
           /\ \A u \in TargetIDs : targets[u].status = "unused" => o.targets[u] = targets[u]
           /\ ~o.fault /\ ~IsErr(o.err) => t \in TargetsOf(x) /\ Accepted(o.targets[t])
<1> DEFINE tg == [targets EXCEPT ![t].status = "deleting"]
<1>1. t \in TargetsOf(x) => /\ TargetsOnward(tg) /\ Accepted(tg[t])
                            /\ \A u \in TargetIDs : targets[u].status = "unused" => tg[u] = targets[u]
  BY DEF BackendTypeOK, TargetsOnward, Target, Onward, Statuses, Accepted, TargetsOf, Live
<1>2. ASSUME NEW p \in ServiceDeleteTarget(x, t)
      PROVE  \/ p = Refused("shares_target_not_found")
             \/ p = Done(shares, tg, None) /\ t \in TargetsOf(x)
  BY DEF ServiceDeleteTarget
<1> HIDE DEF tg
<1>3. ASSUME NEW p \in ServiceDeleteTarget(x, t)
      PROVE  /\ Sound(p) /\ p.shares = shares
             /\ \A u \in TargetIDs : targets[u].status = "unused" => p.targets[u] = targets[u]
             /\ \/ p.err = ModelsError(<<"shares_target_not_found">>)
                \/ t \in TargetsOf(x) /\ Accepted(p.targets[t])
  <2>1. CASE p = Refused("shares_target_not_found")
    <3>1. Denied(p) /\ p.err = ModelsError(<<"shares_target_not_found">>)
      BY <2>1, RefusedIsDenied DEF Refused, Outcome
    <3> QED
      BY <3>1, DeniedIsSound DEF Denied
  <2>2. CASE p = Done(shares, tg, None) /\ t \in TargetsOf(x)
    <3>1. p.shares = shares /\ p.targets = tg /\ p.fault = FALSE
      BY <2>2 DEF Done, Outcome
    <3> QED
      BY <3>1, <2>2, <1>1, StillOnward DEF Sound
  <2> QED
    BY <1>2, <2>1, <2>2
<1>4. PICK p \in Invoke(ServiceDeleteTarget(x, t)) : o = [p EXCEPT !.err = NotFoundOnly(p.err)]
  BY DEF DeleteFileShareTarget
<1>5. /\ Sound(p) /\ p.shares = shares
      /\ \A u \in TargetIDs : targets[u].status = "unused" => p.targets[u] = targets[u]
      /\ \/ p.fault \/ p.err = ModelsError(<<"shares_target_not_found">>)
         \/ t \in TargetsOf(x) /\ Accepted(p.targets[t])
  <2>1. Sound(p)
    BY <1>3, InvokeSound
  <2>2. CASE p \in ServiceDeleteTarget(x, t)
    BY <1>3, <2>1, <2>2
  <2>3. CASE p \notin ServiceDeleteTarget(x, t)
    <3>1. p.fault = TRUE
      BY <2>3, InvokeCases
    <3>2. \/ p.shares = shares /\ p.targets = targets
          \/ \E w \in ServiceDeleteTarget(x, t) : p.shares = w.shares /\ p.targets = w.targets
      BY <2>3, InvokeCases
    <3>3. p.shares = shares /\ \A u \in TargetIDs : targets[u].status = "unused" => p.targets[u] = targets[u]
      BY <1>3, <3>2
    <3> QED
      BY <2>1, <3>1, <3>3
  <2> QED
    BY <2>2, <2>3
<1>6. \E a, b, e, w, f : p = Outcome(a, b, e, w, f)
  BY DEF Invoke, ServiceDeleteTarget, Refused, Done
<1>7. /\ o.shares = p.shares /\ o.targets = p.targets /\ o.fault = p.fault
      /\ o.err = NotFoundOnly(p.err)
  BY <1>4, <1>6 DEF Outcome
<1>8. ~IsErr(o.err) => p.err # ModelsError(<<"shares_target_not_found">>)
  BY <1>7 DEF NotFoundOnly, OtherError, IsErr
<1> QED
  BY <1>5, <1>7, <1>8 DEF Sound

--------------------------------------------------------------------------------
(* The volume operations.                                                  *)
Operation ==
    [op   : {None, "CreateVolume", "DeleteVolume"},
     pc   : Loops \cup {"idle", "done", "panicked"},
     i    : Nat,
     name : Names \cup {None},
     vpc  : VPCs \cup {None},
     id   : ShareIDs \cup {None},
     res  : Results \cup {None},
     hit  : BOOLEAN,
     made : SUBSET ShareIDs,
     ops  : 0 .. MaxOps]

Created(r) == r.pc = "done" /\ r.res = "ok" /\ r.op = "CreateVolume"
Deleted(r) == r.pc = "done" /\ r.res = "ok" /\ r.op = "DeleteVolume"

(* A CreateVolume that no fault has hit makes no share before the one it   *)
(* goes on with, and waits for the share it made itself.                   *)
CreateOK(r, sh) ==
    /\ \A x \in r.made : sh[x].status # "unused"
    /\ r.pc = "create" => /\ r.op = "CreateVolume" /\ r.name \in Names
                          /\ r.made = {} \/ r.hit
    /\ r.pc = "waitValid" => r.op = "CreateVolume"
    /\ r.pc = "waitValid" \/ Created(r) => r.id \in r.made /\ sh[r.id].name = r.name
    /\ Created(r) => sh[r.id].status # "pending"
    /\ r.res = "FailedToPlaceOrder" => r.made = {} \/ r.hit
    /\ r.pc # "done" => r.res = None

(* A DeleteVolume waits for the end of a deletion the service accepted.    *)
DeleteOK(r, sh) ==
    /\ r.pc \in {"get", "delete", "waitGone"} => r.op = "DeleteVolume" /\ r.id \in ShareIDs
    /\ r.pc = "waitGone" \/ Deleted(r) => r.id \in ShareIDs /\ Accepted(sh[r.id])

SessionOK(r, sh) == r \in Operation /\ CreateOK(r, sh) /\ DeleteOK(r, sh)

VolInv ==
    /\ BackendTypeOK
    /\ vol \in [Sessions -> Operation]
    /\ \A s \in Sessions : SessionOK(vol[s], shares)
    /\ \A s1, s2 \in Sessions : s1 # s2 => vol[s1].made \cap vol[s2].made = {}

--------------------------------------------------------------------------------
LEMMA VolInitOK == ASSUME BackendTypeOK, VolInit PROVE VolInv
<1>2. IdleOp \in Operation
  BY OpsAssumption DEF IdleOp, Operation
<1>3. SessionOK(IdleOp, shares)
  BY <1>2 DEF IdleOp, SessionOK, CreateOK, DeleteOK, Created, Deleted
<1> QED
  BY <1>2, <1>3 DEF VolInit, VolInv, IdleOp

(* What a session knows of its share stays true while shares move onward.  *)
LEMMA SessionKeeps ==
    ASSUME BackendTypeOK, BackendOnward, NEW r, SessionOK(r, shares)
    PROVE  SessionOK(r, shares')
<1>1. r \in Operation /\ r.made \subseteq ShareIDs
  BY DEF SessionOK, Operation
<1>2. CreateOK(r, shares')
  BY <1>1 DEF SessionOK, CreateOK, BackendOnward, SharesOnward, Onward
<1>3. DeleteOK(r, shares')
  BY <1>1 DEF SessionOK, DeleteOK, Accepted, BackendOnward, SharesOnward, Onward, Share, Statuses
<1> QED
  BY <1>1, <1>2, <1>3 DEF SessionOK

(* So a step need only be looked at in its own session, which adds to its  *)
(* shares at most one that was not in use.                                 *)
LEMMA SessionStep ==
    ASSUME VolInv, NEW s \in Sessions, NEW q, vol' = [vol EXCEPT ![s] = q],
           BackendTypeOK', BackendOnward, SessionOK(q, shares'),
           \A x \in q.made : x \in vol[s].made \/ shares[x].status = "unused"
    PROVE  VolInv'
<1>1. q \in Operation /\ q.made \subseteq ShareIDs
  BY DEF SessionOK, Operation
<1>2. vol' \in [Sessions -> Operation]
  BY <1>1 DEF VolInv
<1>3. ASSUME NEW u \in Sessions PROVE SessionOK(vol'[u], shares')
  BY SessionKeeps DEF VolInv
<1>4. ASSUME NEW u \in Sessions, u # s PROVE vol'[u].made \cap q.made = {}
  <2>1. vol'[u] = vol[u] /\ \A x \in vol[u].made : shares[x].status # "unused"
    BY <1>4 DEF VolInv, SessionOK, CreateOK
  <2> QED
    BY <2>1, <1>4 DEF VolInv
<1>5. vol'[s] = q
  BY DEF VolInv
<1>6. ASSUME NEW s1 \in Sessions, NEW s2 \in Sessions, s1 # s2
      PROVE  vol'[s1].made \cap vol'[s2].made = {}
  <2>1. CASE s1 # s /\ s2 # s
    BY <1>6, <2>1 DEF VolInv
  <2> QED
    BY <1>4, <1>5, <1>6, <2>1
<1> QED
  BY <1>2, <1>3, <1>6 DEF VolInv

--------------------------------------------------------------------------------
(* What the updates of an operation leave alone.                           *)
LEMMA FinishOp ==
    ASSUME NEW r \in Operation, NEW result \in Results, NEW q, q = Finish(r, result)
    PROVE  /\ q \in Operation /\ q.pc = "done" /\ q.res = result
           /\ q.op = r.op /\ q.name = r.name /\ q.id = r.id /\ q.hit = r.hit /\ q.made = r.made
BY DEF Finish, Operation

LEMMA GotoOp ==
    ASSUME NEW r \in Operation, NEW loop \in Loops, NEW q, q = Goto(r, loop)
    PROVE  /\ q \in Operation /\ q.pc = loop /\ q.res = r.res
           /\ q.op = r.op /\ q.name = r.name /\ q.id = r.id /\ q.hit = r.hit /\ q.made = r.made
BY DEF Goto, Operation

LEMMA AgainOp ==
    ASSUME NEW r \in Operation, NEW q, q = Again(r)
    PROVE  /\ q \in Operation /\ q.pc = r.pc /\ q.res = r.res
           /\ q.op = r.op /\ q.name = r.name /\ q.id = r.id /\ q.hit = r.hit /\ q.made = r.made
BY DEF Again, Operation

LEMMA HitOp ==
    ASSUME NEW r \in Operation, NEW o, o.fault \in BOOLEAN, NEW q, q = [r EXCEPT !.hit = @ \/ o.fault]
    PROVE  /\ q \in Operation /\ q.pc = r.pc /\ q.res = r.res
           /\ q.op = r.op /\ q.name = r.name /\ q.id = r.id /\ q.made = r.made
<1>1. (r.hit \/ o.fault) \in BOOLEAN
  BY DEF Operation
<1> QED
  BY <1>1 DEF Operation

(* A session that may begin has an operation left.                         *)
LEMMA OpsCounted ==
    ASSUME VolInv, NEW s \in Sessions, CanBegin(s)
    PROVE  vol[s].ops + 1 \in 0 .. MaxOps
BY OpsAssumption DEF VolInv, CanBegin, Operation

--------------------------------------------------------------------------------
(* A call begins an operation, or refuses it.                              *)
LEMMA CreateVolumeStep ==
    ASSUME VolInv, NEW s \in Sessions, NEW n \in Names, NEW v \in VPCs \cup {None},
           NEW valid \in BOOLEAN, CreateVolume(s, n, v, valid)
    PROVE  VolInv'
<1> DEFINE r == Begin(s, "CreateVolume", n, v, None, "create")
           q == IF valid THEN r ELSE Finish(r, "InvalidRequest")
<1>1. vol' = [vol EXCEPT ![s] = q] /\ CanBegin(s) /\ UNCHANGED backendVars
  BY DEF CreateVolume
<1>2. r = Begin(s, "CreateVolume", n, v, None, "create")
  OBVIOUS
<1> HIDE DEF r
<1>3. /\ r \in Operation /\ r.pc = "create" /\ r.op = "CreateVolume" /\ r.name = n
      /\ r.res = None /\ r.made = {}
  BY <1>1, <1>2, OpsCounted DEF Begin, IdleOp, Operation, Loops
<1>4. /\ q \in Operation /\ q.made = {}
      /\ \/ q.pc = "create" /\ q.op = "CreateVolume" /\ q.name = n /\ q.res = None
         \/ q.pc = "done" /\ q.res = "InvalidRequest"
  BY <1>3, FinishOp DEF Results
<1> HIDE DEF q
<1>5. SessionOK(q, shares')
  BY <1>4 DEF SessionOK, CreateOK, DeleteOK, Created, Deleted
<1>6. BackendTypeOK' /\ BackendOnward
  BY <1>1, StillOnward DEF VolInv, backendVars, BackendTypeOK, BackendOnward
<1> QED
  BY <1>1, <1>4, <1>5, <1>6, SessionStep

LEMMA DeleteVolumeStep ==
    ASSUME VolInv, NEW s \in Sessions, NEW x \in ShareIDs, NEW wellFormed \in BOOLEAN,
           DeleteVolume(s, x, wellFormed)
    PROVE  VolInv'
<1> DEFINE r == Begin(s, "DeleteVolume", None, None, x, "get")
           q == IF wellFormed THEN r ELSE Finish(r, "InvalidVolumeID")
<1>1. vol' = [vol EXCEPT ![s] = q] /\ CanBegin(s) /\ UNCHANGED backendVars
  BY DEF DeleteVolume
<1>2. r = Begin(s, "DeleteVolume", None, None, x, "get")
  OBVIOUS
<1> HIDE DEF r
<1>3. /\ r \in Operation /\ r.pc = "get" /\ r.op = "DeleteVolume" /\ r.id = x
      /\ r.res = None /\ r.made = {}
  BY <1>1, <1>2, OpsCounted DEF Begin, IdleOp, Operation, Loops
<1>4. /\ q \in Operation /\ q.made = {}
      /\ \/ q.pc = "get" /\ q.op = "DeleteVolume" /\ q.id = x /\ q.res = None
         \/ q.pc = "done" /\ q.res = "InvalidVolumeID"
  BY <1>3, FinishOp DEF Results
<1> HIDE DEF q
<1>5. SessionOK(q, shares')
  BY <1>4 DEF SessionOK, CreateOK, DeleteOK, Created, Deleted
<1>6. BackendTypeOK' /\ BackendOnward
  BY <1>1, StillOnward DEF VolInv, backendVars, BackendTypeOK, BackendOnward
<1> QED
  BY <1>1, <1>4, <1>5, <1>6, SessionStep

(* The POST of CreateVolume.  Without a fault the share that is born is    *)
(* the one the session goes on with; an error that is not a fault made no  *)
(* share.                                                                  *)
LEMMA CreateShareStep ==
    ASSUME VolInv, NEW s \in Sessions, CreateShareAttempt(s)
    PROVE  VolInv'
<1> DEFINE old     == vol[s]
           born(o) == {x \in ShareIDs : shares[x].status = "unused" /\ o.shares[x].status # "unused"}
           r(o)    == [old EXCEPT !.hit = @ \/ o.fault, !.made = @ \cup born(o)]
           i(o)    == [r(o) EXCEPT !.id = o.val]
           yes(o)  == Goto(i(o), "waitValid")
           no(o)   == Finish(r(o), "FailedToPlaceOrder")
           q(o)    == AfterAttempt(r(o), "retry", o.err, FALSE, yes(o), no(o))
<1>1. PICK o \in CreateFileShare(old.name, old.vpc) : Deliver(o) /\ vol' = [vol EXCEPT ![s] = q(o)]
  BY DEF CreateShareAttempt
<1>2. /\ SessionOK(old, shares) /\ old \in Operation /\ old.pc = "create" /\ old.op = "CreateVolume"
      /\ old.name \in Names /\ old.res = None /\ (old.made = {} \/ old.hit)
  BY DEF CreateShareAttempt, VolInv, SessionOK, CreateOK
<1>3. old.vpc \in VPCs \cup {None}
  BY <1>2 DEF Operation
<1> HIDE DEF old
<1>4. /\ Sound(o)
      /\ \/ o.shares = shares /\ IsErr(o.err)
         \/ \E x \in ShareIDs :
               /\ shares[x].status = "unused" /\ o.shares = Born(x, old.name)
               /\ \/ o.val = x /\ o.err = NoError
                  \/ o.fault /\ IsErr(o.err)
  BY <1>1, <1>2, <1>3, CreateShareOutcome DEF VolInv
<1>5. BackendTypeOK' /\ BackendOnward /\ shares' = o.shares
  BY <1>1, <1>4, DeliverSound DEF VolInv, Deliver
<1>6. /\ r(o) \in Operation /\ r(o).pc = "create" /\ r(o).op = "CreateVolume" /\ r(o).name = old.name
      /\ r(o).res = None /\ r(o).hit = (old.hit \/ o.fault) /\ r(o).made = old.made \cup born(o)
  <2>1. (old.hit \/ o.fault) \in BOOLEAN /\ (old.made \cup born(o)) \in SUBSET ShareIDs
    BY <1>2 DEF Operation
  <2> DEFINE R == r(o)
  <2>2. R = [old EXCEPT !.hit = old.hit \/ o.fault, !.made = old.made \cup born(o)]
    OBVIOUS
  <2> HIDE DEF R, born
  <2>3. /\ R \in Operation /\ R.pc = "create" /\ R.op = "CreateVolume" /\ R.name = old.name
        /\ R.res = None /\ R.made = old.made \cup born(o)
    BY <1>2, <2>1, <2>2 DEF Operation
  <2>4. R.hit = (old.hit \/ o.fault)
    BY <1>2, <2>1, <2>2, Zenon DEF Operation
  <2> QED
    BY <2>3, <2>4 DEF R
<1>7. \A x \in r(o).made : x \in old.made \/ shares[x].status = "unused"
  BY <1>6
<1>8. \A x \in r(o).made : shares'[x].status # "unused"
  <2>1. \A x \in old.made : shares'[x].status # "unused"
    BY <1>2, <1>5, SessionKeeps DEF VolInv, SessionOK, CreateOK
  <2> QED
    BY <2>1, <1>5, <1>6
<1>9. IsErr(o.err) => r(o).made = {} \/ r(o).hit
  <2>1. CASE o.shares = shares
    <3>1. born(o) = {}
      BY <2>1
    <3> QED
      BY <3>1, <1>2, <1>6
  <2>2. CASE o.fault
    BY <2>2, <1>6
  <2>3. CASE ~IsErr(o.err)
    BY <2>3
  <2> QED
    BY <1>4, <2>1, <2>2, <2>3 DEF NoError, IsErr
<1>10. ~IsErr(o.err) => /\ i(o) \in Operation /\ i(o).op = "CreateVolume" /\ i(o).name = old.name
                        /\ i(o).res = None /\ i(o).made = r(o).made
                        /\ i(o).id \in i(o).made /\ shares'[i(o).id].name = old.name
  <2> SUFFICES ASSUME ~IsErr(o.err)
               PROVE  /\ i(o) \in Operation /\ i(o).op = "CreateVolume" /\ i(o).name = old.name
                      /\ i(o).res = None /\ i(o).made = r(o).made
                      /\ i(o).id \in i(o).made /\ shares'[i(o).id].name = old.name
    OBVIOUS
  <2>1. PICK x \in ShareIDs : shares[x].status = "unused" /\ o.shares = Born(x, old.name) /\ o.val = x
    BY <1>4
  <2>2. o.shares[x].status # "unused" /\ o.shares[x].name = old.name
    BY <2>1 DEF VolInv, BackendTypeOK, Born
  <2>3. x \in r(o).made
    BY <2>1, <2>2, <1>6
  <2> DEFINE R == r(o)
             I == i(o)
  <2>4. I = [R EXCEPT !.id = x] /\ R \in Operation /\ R.op = "CreateVolume" /\ R.name = old.name /\ R.res = None
    BY <2>1, <1>6
  <2> HIDE DEF R, I
  <2>5. I \in Operation /\ I.op = R.op /\ I.name = R.name /\ I.res = R.res /\ I.made = R.made /\ I.id = x
    BY <2>4 DEF Operation
  <2> QED
    BY <2>2, <2>3, <2>4, <2>5, <1>5 DEF R, I
<1> DEFINE Q == q(o)
<1>d. Q = AfterAttempt(r(o), "retry", o.err, FALSE, yes(o), no(o))
  OBVIOUS
<1>y. yes(o) = Goto(i(o), "waitValid") /\ no(o) = Finish(r(o), "FailedToPlaceOrder")
  OBVIOUS
<1> HIDE DEF r, i, yes, no, q, Q
<1>11. \/ Q = Again(r(o)) /\ IsErr(o.err)
       \/ Q = no(o) /\ IsErr(o.err)
       \/ Q = yes(o) /\ ~IsErr(o.err)
  BY <1>d DEF AfterAttempt, LoopEnds, Stops, Flexy
<1>12. SessionOK(Q, shares') /\ Q.made = r(o).made
  <2>1. CASE Q = Again(r(o)) /\ IsErr(o.err)
    BY <2>1, <1>2, <1>6, <1>8, <1>9, AgainOp
       DEF SessionOK, CreateOK, DeleteOK, Created, Deleted, Results
  <2>2. CASE Q = no(o) /\ IsErr(o.err)
    BY <2>2, <1>y, <1>6, <1>8, <1>9, FinishOp
       DEF SessionOK, CreateOK, DeleteOK, Created, Deleted, Results
  <2>3. CASE Q = yes(o) /\ ~IsErr(o.err)
    BY <2>3, <1>y, <1>6, <1>8, <1>10, GotoOp, NoResultAssumption
       DEF SessionOK, CreateOK, DeleteOK, Created, Deleted, Results, Loops
  <2> QED
    BY <1>11, <2>1, <2>2, <2>3
<1> QED
  BY <1>1, <1>5, <1>7, <1>12, SessionStep DEF Q, old

(* A wait for a share that ends well has read the share as stable.         *)
LEMMA WaitForValidStep ==
    ASSUME VolInv, NEW s \in Sessions, WaitForValidVolumeState(s)
    PROVE  VolInv'
<1> DEFINE old  == vol[s]
           r(o) == [old EXCEPT !.hit = @ \/ o.fault]
           e(o) == IF ~IsErr(o.err) /\ o.val.status # "stable" THEN OtherError ELSE o.err
           q(o) == AfterAttempt(r(o), "retry", e(o), FALSE, Finish(r(o), "ok"),
                                Finish(r(o), "VolumeNotInValidState"))
<1>1. PICK o \in GetFileShare(old.id) : Deliver(o) /\ vol' = [vol EXCEPT ![s] = q(o)]
  BY DEF WaitForValidVolumeState
<1>2. /\ SessionOK(old, shares) /\ old \in Operation /\ old.pc = "waitValid" /\ old.op = "CreateVolume"
      /\ old.id \in ShareIDs /\ old.res = None
  BY DEF WaitForValidVolumeState, VolInv, SessionOK, CreateOK, DeleteOK, Operation
<1>3. SessionOK(old, shares') /\ BackendTypeOK' /\ BackendOnward /\ o.fault \in BOOLEAN
      /\ (~IsErr(o.err) => shares'[old.id].status = o.val.status)
  <2>1. Sound(o) /\ o.shares = shares
        /\ (~IsErr(o.err) => o.val.status = shares[old.id].status)
    BY <1>1, <1>2, GetShareOutcome DEF VolInv
  <2>2. BackendTypeOK' /\ BackendOnward /\ shares' = o.shares
    BY <1>1, <2>1, DeliverSound DEF VolInv, Deliver
  <2>3. SessionOK(old, shares')
    BY <1>2, <2>2, SessionKeeps DEF VolInv
  <2> QED
    BY <2>1, <2>2, <2>3 DEF Sound
<1>4. r(o) = [old EXCEPT !.hit = @ \/ o.fault]
  OBVIOUS
<1> HIDE DEF r, old
<1>5. /\ r(o) \in Operation /\ r(o).pc = "waitValid" /\ r(o).op = "CreateVolume" /\ r(o).res = None
      /\ r(o).id = old.id /\ r(o).name = old.name /\ r(o).made = old.made
  BY <1>2, <1>3, <1>4, HitOp
<1> DEFINE Q == q(o)
<1>6. \/ Q = Again(r(o))
      \/ Q = Finish(r(o), "VolumeNotInValidState")
      \/ Q = Finish(r(o), "ok") /\ shares'[old.id].status = "stable"
  BY <1>3 DEF AfterAttempt, OtherError, IsErr, LoopEnds, Stops, Flexy
<1> HIDE DEF q, Q
<1>7. SessionOK(Q, shares') /\ Q.made = old.made
  <2>1. old.id \in old.made /\ shares'[old.id].name = old.name
    BY <1>2, <1>3 DEF SessionOK, CreateOK
  <2>2. CASE Q = Again(r(o))
    BY <2>1, <2>2, <1>3, <1>5, AgainOp, NoResultAssumption
       DEF SessionOK, CreateOK, DeleteOK, Created, Deleted, Results
  <2>3. CASE Q = Finish(r(o), "VolumeNotInValidState")
    BY <2>3, <1>3, <1>5, FinishOp DEF SessionOK, CreateOK, DeleteOK, Created, Deleted, Results
  <2>4. CASE Q = Finish(r(o), "ok") /\ shares'[old.id].status = "stable"
    BY <2>1, <2>4, <1>3, <1>5, FinishOp DEF SessionOK, CreateOK, DeleteOK, Created, Deleted, Results
  <2> QED
    BY <1>6, <2>2, <2>3, <2>4
<1> QED
  BY <1>1, <1>3, <1>7, SessionStep DEF Q, old

(* GetVolume before the deletion changes nothing.                          *)
LEMMA GetVolumeStep ==
    ASSUME VolInv, NEW s \in Sessions, GetVolume(s)
    PROVE  VolInv'
<1> DEFINE old  == vol[s]
           r(o) == [old EXCEPT !.hit = @ \/ o.fault]
           q(o) == AfterAttempt(r(o), "retry", o.err, FALSE, AfterGetVolume(r(o), o.val),
                                Finish(r(o), "StorageFindFailedWithVolumeId"))
<1>1. PICK o \in GetFileShare(old.id) : Deliver(o) /\ vol' = [vol EXCEPT ![s] = q(o)]
  BY DEF GetVolume
<1>2. /\ SessionOK(old, shares) /\ old \in Operation /\ old.pc = "get" /\ old.op = "DeleteVolume"
      /\ old.id \in ShareIDs /\ old.res = None
  BY DEF GetVolume, VolInv, SessionOK, CreateOK, DeleteOK, Operation
<1>3. SessionOK(old, shares') /\ BackendTypeOK' /\ BackendOnward /\ o.fault \in BOOLEAN
  <2>1. Sound(o)
    BY <1>1, <1>2, GetShareOutcome DEF VolInv
  <2>2. BackendTypeOK' /\ BackendOnward /\ shares' = o.shares
    BY <1>1, <2>1, DeliverSound DEF VolInv, Deliver
  <2>3. SessionOK(old, shares')
    BY <1>2, <2>2, SessionKeeps DEF VolInv
  <2> QED
    BY <2>1, <2>2, <2>3 DEF Sound
<1>4. r(o) = [old EXCEPT !.hit = @ \/ o.fault]
  OBVIOUS
<1> HIDE DEF r, old
<1>5. /\ r(o) \in Operation /\ r(o).pc = "get" /\ r(o).op = "DeleteVolume" /\ r(o).res = None
      /\ r(o).id = old.id /\ r(o).name = old.name /\ r(o).made = old.made
  BY <1>2, <1>3, <1>4, HitOp
<1> DEFINE Q == q(o)
<1>6. \/ Q = Again(r(o))
      \/ Q = Finish(r(o), "StorageFindFailedWithVolumeId") \/ Q = Finish(r(o), "VolumeAccessPointExist")
      \/ Q = Goto(r(o), "delete")
  BY DEF AfterAttempt, AfterGetVolume
<1> HIDE DEF q, Q
<1>7. SessionOK(Q, shares') /\ Q.made = old.made
  <2>1. CASE Q = Again(r(o))
    BY <2>1, <1>2, <1>3, <1>5, AgainOp, NoResultAssumption
       DEF SessionOK, CreateOK, DeleteOK, Created, Deleted, Results
  <2>2. CASE Q = Finish(r(o), "StorageFindFailedWithVolumeId") \/ Q = Finish(r(o), "VolumeAccessPointExist")
    <3>1. Q \in Operation /\ Q.pc = "done" /\ Q.res \notin {"ok", "FailedToPlaceOrder"} /\ Q.made = old.made
      BY <2>2, <1>5, FinishOp DEF Results
    <3> QED
      BY <3>1, <1>3 DEF SessionOK, CreateOK, DeleteOK, Created, Deleted
  <2>3. CASE Q = Goto(r(o), "delete")
    BY <2>3, <1>2, <1>3, <1>5, GotoOp, NoResultAssumption
       DEF SessionOK, CreateOK, DeleteOK, Created, Deleted, Results, Loops
  <2> QED
    BY <1>6, <2>1, <2>2, <2>3
<1> QED
  BY <1>1, <1>3, <1>7, SessionStep DEF Q, old

(* The DELETE without an error: the service has accepted it.               *)
LEMMA DeleteShareStep ==
    ASSUME VolInv, NEW s \in Sessions, DeleteShareAttempt(s)
    PROVE  VolInv'
<1> DEFINE old  == vol[s]
           r(o) == [old EXCEPT !.hit = @ \/ o.fault]
           q(o) == AfterAttempt(r(o), "retry", o.err, FALSE, Goto(r(o), "waitGone"),
                                Finish(r(o), "FailedToDeleteVolume"))
<1>1. PICK o \in DeleteFileShare(old.id) : Deliver(o) /\ vol' = [vol EXCEPT ![s] = q(o)]
  BY DEF DeleteShareAttempt
<1>2. /\ SessionOK(old, shares) /\ old \in Operation /\ old.pc = "delete" /\ old.op = "DeleteVolume"
      /\ old.id \in ShareIDs /\ old.res = None
  BY DEF DeleteShareAttempt, VolInv, SessionOK, CreateOK, DeleteOK, Operation
<1>3. SessionOK(old, shares') /\ BackendTypeOK' /\ BackendOnward /\ o.fault \in BOOLEAN
      /\ (~IsErr(o.err) => Accepted(shares'[old.id]))
  <2>1. Sound(o) /\ (~IsErr(o.err) => Accepted(o.shares[old.id]))
    BY <1>1, <1>2, DeleteShareOutcome DEF VolInv
  <2>2. BackendTypeOK' /\ BackendOnward /\ shares' = o.shares
    BY <1>1, <2>1, DeliverSound DEF VolInv, Deliver
  <2>3. SessionOK(old, shares')
    BY <1>2, <2>2, SessionKeeps DEF VolInv
  <2> QED
    BY <2>1, <2>2, <2>3 DEF Sound
<1>4. r(o) = [old EXCEPT !.hit = @ \/ o.fault]
  OBVIOUS
<1> HIDE DEF r, old
<1>5. /\ r(o) \in Operation /\ r(o).pc = "delete" /\ r(o).op = "DeleteVolume" /\ r(o).res = None
      /\ r(o).id = old.id /\ r(o).name = old.name /\ r(o).made = old.made
  BY <1>2, <1>3, <1>4, HitOp
<1> DEFINE Q == q(o)
<1>6. \/ Q = Again(r(o))
      \/ Q = Finish(r(o), "FailedToDeleteVolume")
      \/ Q = Goto(r(o), "waitGone") /\ Accepted(shares'[old.id])
  BY <1>3 DEF AfterAttempt
<1> HIDE DEF q, Q
<1>7. SessionOK(Q, shares') /\ Q.made = old.made
  <2>1. CASE Q = Again(r(o))
    BY <2>1, <1>2, <1>3, <1>5, AgainOp, NoResultAssumption
       DEF SessionOK, CreateOK, DeleteOK, Created, Deleted, Results
  <2>2. CASE Q = Finish(r(o), "FailedToDeleteVolume")
    BY <2>2, <1>3, <1>5, FinishOp DEF SessionOK, CreateOK, DeleteOK, Created, Deleted, Results
  <2>3. CASE Q = Goto(r(o), "waitGone") /\ Accepted(shares'[old.id])
    BY <2>3, <1>2, <1>3, <1>5, GotoOp, NoResultAssumption
       DEF SessionOK, CreateOK, DeleteOK, Created, Deleted, Results, Loops
  <2> QED
    BY <1>6, <2>1, <2>2, <2>3
<1> QED
  BY <1>1, <1>3, <1>7, SessionStep DEF Q, old

(* However the wait for the end of a deletion goes, it was accepted.       *)
LEMMA WaitGoneStep ==
    ASSUME VolInv, NEW s \in Sessions, WaitForVolumeDeletion(s)
    PROVE  VolInv'
<1> DEFINE old  == vol[s]
           r(o) == [old EXCEPT !.hit = @ \/ o.fault]
           q(o) == IF o.err.kind = "other" THEN [r(o) EXCEPT !.pc = "panicked"]
                   ELSE AfterAttempt(r(o), "FlexyRetry", NoError, IsErr(o.err) /\ skipRetry(o.err),
                                     Finish(r(o), "ok"), Finish(r(o), "FailedToDeleteVolume"))
<1>1. PICK o \in GetFileShare(old.id) : Deliver(o) /\ vol' = [vol EXCEPT ![s] = q(o)]
  BY DEF WaitForVolumeDeletion
<1>2. /\ SessionOK(old, shares) /\ old \in Operation /\ old.pc = "waitGone" /\ old.op = "DeleteVolume"
      /\ old.id \in ShareIDs /\ old.res = None
  BY DEF WaitForVolumeDeletion, VolInv, SessionOK, CreateOK, DeleteOK, Operation
<1>3. SessionOK(old, shares') /\ BackendTypeOK' /\ BackendOnward /\ o.fault \in BOOLEAN
  <2>1. Sound(o)
    BY <1>1, <1>2, GetShareOutcome DEF VolInv
  <2>2. BackendTypeOK' /\ BackendOnward /\ shares' = o.shares
    BY <1>1, <2>1, DeliverSound DEF VolInv, Deliver
  <2>3. SessionOK(old, shares')
    BY <1>2, <2>2, SessionKeeps DEF VolInv
  <2> QED
    BY <2>1, <2>2, <2>3 DEF Sound
<1>4. r(o) = [old EXCEPT !.hit = @ \/ o.fault]
  OBVIOUS
<1> HIDE DEF r, old
<1>5. /\ r(o) \in Operation /\ r(o).pc = "waitGone" /\ r(o).op = "DeleteVolume" /\ r(o).res = None
      /\ r(o).id = old.id /\ r(o).name = old.name /\ r(o).made = old.made
  BY <1>2, <1>3, <1>4, HitOp
<1> DEFINE Q == q(o)
<1>6. \/ Q = Again(r(o))
      \/ Q = Finish(r(o), "ok")
      \/ Q = [r(o) EXCEPT !.pc = "panicked"]
  BY DEF AfterAttempt, NoError, IsErr
<1> HIDE DEF q, Q
<1>7. SessionOK(Q, shares') /\ Q.made = old.made
  <2>1. Accepted(shares'[old.id])
    BY <1>2, <1>3 DEF SessionOK, DeleteOK
  <2>2. CASE Q = Again(r(o))
    BY <2>1, <2>2, <1>2, <1>3, <1>5, AgainOp, NoResultAssumption
       DEF SessionOK, CreateOK, DeleteOK, Created, Deleted, Results
  <2>3. CASE Q = Finish(r(o), "ok")
    BY <2>1, <2>3, <1>2, <1>3, <1>5, FinishOp DEF SessionOK, CreateOK, DeleteOK, Created, Deleted, Results
  <2>4. CASE Q = [r(o) EXCEPT !.pc = "panicked"]
    <3>1. Q \in Operation /\ Q.pc = "panicked" /\ Q.res = None /\ Q.made = old.made
      BY <2>4, <1>5 DEF Operation
    <3> QED
      BY <3>1, <1>3, NoResultAssumption DEF SessionOK, CreateOK, DeleteOK, Created, Deleted, Results
  <2> QED
    BY <1>6, <2>2, <2>3, <2>4
<1> QED
  BY <1>1, <1>3, <1>7, SessionStep DEF Q, old

--------------------------------------------------------------------------------
(* The steps of the volume operations keep the invariant, and so does      *)
(* whatever else has the service move onward.                              *)
LEMMA VolOwn ==
    ASSUME VolInv, NEW s \in Sessions, VolStep(s) \/ VolCall(s)
    PROVE  VolInv'
<1>1. CASE VolStep(s)
  BY <1>1, CreateShareStep, WaitForValidStep, GetVolumeStep, DeleteShareStep, WaitGoneStep DEF VolStep
<1>2. CASE VolCall(s)
  BY <1>2, CreateVolumeStep, DeleteVolumeStep DEF VolCall
<1> QED
  BY <1>1, <1>2

LEMMA VolOthers ==
    ASSUME VolInv, UNCHANGED vol, BackendTypeOK', BackendOnward
    PROVE  VolInv'
BY SessionKeeps DEF VolInv

LEMMA VolNext == VolInv /\ [Next]_volVars => VolInv'
<1> SUFFICES ASSUME VolInv, [Next]_volVars PROVE VolInv'
  OBVIOUS
<1>1. CASE BackendStep /\ UNCHANGED vol
  BY <1>1, BackendStepOnward, VolOthers DEF VolInv
<1>2. CASE UNCHANGED volVars
  BY <1>2 DEF volVars, backendVars, VolInv, BackendTypeOK
<1> QED
  BY <1>1, <1>2, VolOwn DEF Next

(* The inductive invariant holds in every behaviour of CreateVolume and    *)
(* DeleteVolume calls.                                                     *)
THEOREM VolInvariant == Spec => []VolInv
<1>1. Init => VolInv
  <2>1. BackendInit => BackendTypeOK
    BY BackendAssumption DEF BackendInit, BackendTypeOK, Statuses
  <2> QED
    BY <2>1, VolInitOK DEF Init
<1> QED
  BY <1>1, VolNext, PTL DEF Spec

(* What the invariant says of the calls that have ended.                   *)
LEMMA VolPromises ==
    ASSUME VolInv
    PROVE  /\ TypeOK
           /\ CreatedShareIsUsable /\ NoSharedOwnership /\ LeakNeedsFault /\ DeletedShareIsDoomed
<1>1. TypeOK
  BY DEF VolInv, TypeOK, VolTypeOK, Operation
<1>2. CreatedShareIsUsable
  BY DEF VolInv, CreatedShareIsUsable, Succeeded, SessionOK, CreateOK, Created
<1>3. NoSharedOwnership
  BY DEF VolInv, NoSharedOwnership, Succeeded, SessionOK, CreateOK, Created
<1>4. LeakNeedsFault
  BY DEF VolInv, LeakNeedsFault, SessionOK, CreateOK
<1>5. DeletedShareIsDoomed
  BY DEF VolInv, DeletedShareIsDoomed, Succeeded, SessionOK, DeleteOK, Deleted
<1> QED
  BY <1>1, <1>2, <1>3, <1>4, <1>5

(* Types are an invariant of the volume operations.                        *)
THEOREM VolTypeTheorem == Spec => []TypeOK
BY VolInvariant, VolPromises, PTL

(* CreateVolume answers with a share of the requested name that has been   *)
(* stable, for any number of concurrent sessions, faults and attempts.     *)
THEOREM UsableTheorem == Spec => []CreatedShareIsUsable
BY VolInvariant, VolPromises, PTL

(* No two sessions report the same share as the one they created.          *)
THEOREM OwnershipTheorem == Spec => []NoSharedOwnership
BY VolInvariant, VolPromises, PTL

(* A CreateVolume that failed to place its order leaves a share behind     *)
(* only when one of its requests met a fault.                              *)
THEOREM LeakTheorem == Spec => []LeakNeedsFault
BY VolInvariant, VolPromises, PTL

(* DeleteVolume reports success only for a deletion that the service has   *)
(* accepted.                                                               *)
THEOREM DoomedTheorem == Spec => []DeletedShareIsDoomed
BY VolInvariant, VolPromises, PTL
================================================================================
