------------------------------- MODULE Expansion -------------------------------
(***************************************************************************)
(* ExpandVolume of a VPCSession (file/provider/expand_volume.go) and the   *)
(* requests it makes.  Sizes of the service are in GiB, the requested      *)
(* capacity is in bytes; int64 arithmetic wraps.                           *)
(***************************************************************************)
EXTENDS ShareDataService

CONSTANTS
    Expanders,    \* goroutines calling ExpandVolume
    Capacities,   \* capacities they ask for, in bytes
    MaxInt64      \* the largest int64

ASSUME ExpansionAssumption ==
    /\ MaxInt64 \in Nat
    /\ Capacities \subseteq Int /\ \A c \in Capacities : c <= MaxInt64
    /\ GiB * MaxSize <= MaxInt64

VARIABLE exp    \* each goroutine's operation: capacity asked for and returned

IdleExpand == [pc |-> "idle", i |-> 0, asked |-> 0, ret |-> 0, res |-> "none"]

ExpandInit == exp = [s \in Expanders |-> IdleExpand]

Wrap64(n) == IF n > MaxInt64 THEN n - 2 * (MaxInt64 + 1) ELSE n

(* Mutant: the remainder is cut off.                                       *)
RoundDown(bytes, unit) == bytes \div unit

(* Go's division truncates towards zero.                                   *)
roundUpSize(bytes, unit) ==
    LET n == Wrap64(bytes + unit - 1)
    IN  IF n >= 0 THEN n \div unit ELSE -((-n) \div unit)

GetFileShare == Invoke(ServiceGet)
PatchShareSize(n) == Invoke(ServiceResize(n))

--------------------------------------------------------------------------------
ExpandVolume(s, capacity, wellFormed) ==
    /\ exp[s].pc = "idle"
    /\ LET r == [IdleExpand EXCEPT !.asked = capacity]
       IN  exp' = [exp EXCEPT ![s] = IF wellFormed THEN Enter(r, "get")
                                     ELSE Fail([r EXCEPT !.ret = -1], "InvalidVolumeID")]
    /\ UNCHANGED serviceVars

(* The capacity read, a number of GiB, is compared with the bytes asked    *)
(* for and returned in their place.                                        *)
CheckCapacity(r, size) ==
    IF size >= r.asked THEN Return([r EXCEPT !.ret = size], "ok") ELSE Enter(r, "expand")

GetVolumeToExpand(s) ==
    /\ exp[s].pc = "get"
    /\ \E a \in GetFileShare :
          /\ Deliver(a)
          /\ exp' = [exp EXCEPT ![s] =
                Attempted(@, "retry", a.err, FALSE,
                          CheckCapacity(@, a.val.size),
                          Fail([@ EXCEPT !.ret = -1], "StorageFindFailedWithVolumeId"))]

(* Mutant: the size is taken as reached once the request is accepted.      *)
ExpandWithoutWait(s) ==
    /\ exp[s].pc = "expand"
    /\ \E a \in PatchShareSize(roundUpSize(exp[s].asked, GiB)) :
          /\ Deliver(a)
          /\ exp' = [exp EXCEPT ![s] =
                Attempted(@, "retry", a.err, FALSE,
                          Return([@ EXCEPT !.ret = exp[s].asked], "ok"),
                          Fail([@ EXCEPT !.ret = -1], "FailedToExpandVolume"))]

ExpandAttempt(s) ==
    /\ exp[s].pc = "expand"
    /\ \E a \in PatchShareSize(roundUpSize(exp[s].asked, GiB)) :
          /\ Deliver(a)
          /\ exp' = [exp EXCEPT ![s] =
                Attempted(@, "retry", a.err, FALSE,
                          Enter(@, "waitValid"),
                          Fail([@ EXCEPT !.ret = -1], "FailedToExpandVolume"))]

(* WaitForValidVolumeState: a share that is not stable is an error retry   *)
(* does not look into.                                                     *)
WaitForExpandedShare(s) ==
    /\ exp[s].pc = "waitValid"
    /\ \E a \in GetFileShare :
          /\ Deliver(a)
          /\ LET err == IF ~IsErr(a.err) /\ a.val.status # "stable" THEN OtherError ELSE a.err
             IN  exp' = [exp EXCEPT ![s] =
                    Attempted(@, "retry", err, FALSE,
                              Return([@ EXCEPT !.ret = exp[s].asked], "ok"),
                              Fail([@ EXCEPT !.ret = -1], "VolumeNotInValidState"))]

ExpandStep(s) ==
    \/ GetVolumeToExpand(s)
    \/ ExpandAttempt(s)
    \/ WaitForExpandedShare(s)

ExpandCall(s) == \E c \in Capacities, w \in BOOLEAN : ExpandVolume(s, c, w)

--------------------------------------------------------------------------------
ExpandLoops == {"get", "expand", "waitValid"}

(* When ExpandVolume succeeds the share really has the capacity asked for, *)
(* not only the promise of it, and the capacity returned lies between the  *)
(* two, although the early return mixes GiB with bytes, requests are       *)
(* repeated and lost, and other callers resize the same share.             *)
ExpandedShareIsLargeEnough ==
    \A s \in Expanders : exp[s].res = "ok" =>
        /\ exp[s].asked <= exp[s].ret
        /\ exp[s].ret <= share.size * GiB
================================================================================
