------------------------------ MODULE RetryEngine ------------------------------
(***************************************************************************)
(* The retry loops of file/provider/util.go, run by several goroutines.    *)
(*                                                                         *)
(* retry and FlexyRetry keep their back-off in the package variable        *)
(* retryGap, which every session of the process reads and writes without a *)
(* lock and nothing ever resets.  The update                               *)
(*                                                                         *)
(*     retryGap = 2 * retryGap                                             *)
(*     if retryGap > maxRetryGap { retryGap = maxRetryGap }                *)
(*                                                                         *)
(* is a data race.  It is modelled as the load, the store, the comparison  *)
(* (against the register that was just stored or against a fresh load: the *)
(* compiler may use either) and the second store.                          *)
(***************************************************************************)
EXTENDS RetryPolicy

CONSTANTS
    Goroutines,      \* the goroutines that run a provider operation
    retryGap0,       \* value retryGap is declared with (10 seconds)
    maxRetryGap,     \* configured ceiling of the gap
    ConstantRetryGap,\* gap of FlexyRetryWithConstGap
    Errors,          \* errors a callback may return
    MaxCalls         \* bound: loops one goroutine runs

ASSUME GapAssumption ==
    /\ retryGap0 \in Nat \ {0}
    /\ maxRetryGap \in Nat \ {0}
    /\ ConstantRetryGap \in Nat \ {0}

ASSUME ErrorsAssumption ==
    \A e \in Errors :
        /\ e.kind \in {"nil", "other", "models"}
        /\ e.kind # "models" => e.codes = <<>>

ASSUME CallsAssumption == MaxCalls \in Nat

VARIABLES
    retryGap,   \* the package variable
    pc,         \* where each goroutine is in its loop
    engine,     \* the loop it runs
    i,          \* loop variable
    err,        \* last error of the callback
    stop,       \* last stopRetry of the callback
    localGap,   \* the retryGap that retryWithMinRetries declares for itself
    reg,        \* register: retryGap as loaded, then as stored
    tries,      \* history: callbacks made in this loop (Counted)
    slept,      \* history: last sleep in this loop
    calls       \* history: loops started

vars == <<retryGap, pc, engine, i, err, stop, localGap, reg, tries, slept, calls>>

InLoop == {"head", "call", "load", "store", "compare", "cap"}

Init ==
    /\ retryGap = retryGap0
    /\ pc       = [g \in Goroutines |-> "idle"]
    /\ engine   = [g \in Goroutines |-> "retry"]
    /\ i        = [g \in Goroutines |-> 0]
    /\ err      = [g \in Goroutines |-> NoError]
    /\ stop     = [g \in Goroutines |-> FALSE]
    /\ localGap = [g \in Goroutines |-> retryGap0]
    /\ reg      = [g \in Goroutines |-> 0]
    /\ tries    = [g \in Goroutines |-> 0]
    /\ slept    = [g \in Goroutines |-> 0]
    /\ calls    = [g \in Goroutines |-> 0]

(* A session calls one of the four loops.                                  *)
Begin(g, e) ==
    /\ pc[g] = "idle"
    /\ calls[g] < MaxCalls
    /\ pc'       = [pc EXCEPT ![g] = "head"]
    /\ engine'   = [engine EXCEPT ![g] = e]
    /\ i'        = [i EXCEPT ![g] = 0]
    /\ err'      = [err EXCEPT ![g] = NoError]
    /\ stop'     = [stop EXCEPT ![g] = FALSE]
    /\ localGap' = [localGap EXCEPT ![g] = retryGap0]
    /\ tries'    = [tries EXCEPT ![g] = 0]
    /\ slept'    = [slept EXCEPT ![g] = 0]
    /\ calls'    = [calls EXCEPT ![g] = @ + 1]
    /\ UNCHANGED <<retryGap, reg>>

--------------------------------------------------------------------------------
(* for i := 0; i < limit; i++                                              *)

Gap(g) ==
    CASE engine[g] = "retryWithMinRetries"    -> localGap[g]
      [] engine[g] = "FlexyRetryWithConstGap" -> ConstantRetryGap
      [] OTHER                                -> retryGap

Enter(g) ==
    /\ pc[g] = "head"
    /\ i[g] < Limit(engine[g])
    /\ i[g] = 0
    /\ pc' = [pc EXCEPT ![g] = "call"]
    /\ UNCHANGED <<retryGap, engine, i, err, stop, localGap, reg, tries, slept, calls>>

(* Mutant: the loop condition is i <= limit.                               *)
SleepPastLimit(g) ==
    /\ pc[g] = "head"
    /\ i[g] <= Limit(engine[g])
    /\ i[g] > 0
    /\ slept' = [slept EXCEPT ![g] = Gap(g)]
    /\ pc'    = [pc EXCEPT ![g] = "call"]
    /\ UNCHANGED <<retryGap, engine, i, err, stop, localGap, reg, tries, calls>>

Sleep(g) ==
    /\ pc[g] = "head"
    /\ i[g] < Limit(engine[g])
    /\ i[g] > 0
    /\ slept' = [slept EXCEPT ![g] = Gap(g)]
    /\ pc'    = [pc EXCEPT ![g] = "call"]
    /\ UNCHANGED <<retryGap, engine, i, err, stop, localGap, reg, tries, calls>>

Exhaust(g) ==
    /\ pc[g] = "head"
    /\ ~(i[g] < Limit(engine[g]))
    /\ pc' = [pc EXCEPT ![g] = "done"]
    /\ UNCHANGED <<retryGap, engine, i, err, stop, localGap, reg, tries, slept, calls>>

(* Mutants: the loop variable runs the wrong way; an attempt is not        *)
(* counted.                                                                *)
NextIterationUncounted(g) ==
    /\ pc' = [pc EXCEPT ![g] = "head"]
    /\ UNCHANGED i

NextIterationDown(g) ==
    /\ i'  = [i EXCEPT ![g] = @ - 1]
    /\ pc' = [pc EXCEPT ![g] = "head"]

NextIteration(g) ==
    /\ i'  = [i EXCEPT ![g] = @ + 1]
    /\ pc' = [pc EXCEPT ![g] = "head"]

(* Bound: callbacks are counted up to the first one too many.              *)
Counted(g) == IF tries[g] > Limit(engine[g]) THEN tries[g] ELSE tries[g] + 1

(* The callback returns (e, s); only the Flexy loops look at s.            *)
Call(g, e, s) ==
    /\ pc[g] = "call"
    /\ s => engine[g] \in Flexy
    /\ err'   = [err EXCEPT ![g] = e]
    /\ stop'  = [stop EXCEPT ![g] = s]
    /\ tries' = [tries EXCEPT ![g] = Counted(g)]
    /\ \/ /\ Stops(engine[g], e, s)
          /\ pc' = [pc EXCEPT ![g] = "done"]
          /\ UNCHANGED <<i, localGap>>
       \/ /\ ~Stops(engine[g], e, s)
          /\ ~GrowsGap(engine[g], i[g], e)
          /\ NextIteration(g)
          /\ UNCHANGED localGap
       \/ /\ ~Stops(engine[g], e, s)
          /\ GrowsGap(engine[g], i[g], e)
          /\ engine[g] # "retryWithMinRetries"
          /\ pc' = [pc EXCEPT ![g] = "load"]
          /\ UNCHANGED <<i, localGap>>
       \/ /\ ~Stops(engine[g], e, s)
          /\ GrowsGap(engine[g], i[g], e)
          /\ engine[g] = "retryWithMinRetries"
          /\ localGap' = [localGap EXCEPT ![g] =
                              IF 2 * @ > maxRetryGap THEN maxRetryGap ELSE 2 * @]
          /\ NextIteration(g)
    /\ UNCHANGED <<retryGap, engine, reg, slept, calls>>

--------------------------------------------------------------------------------
(* The unsynchronised update of the package variable.                      *)

LoadGap(g) ==
    /\ pc[g] = "load"
    /\ reg' = [reg EXCEPT ![g] = retryGap]
    /\ pc'  = [pc EXCEPT ![g] = "store"]
    /\ UNCHANGED <<retryGap, engine, i, err, stop, localGap, tries, slept, calls>>

(* Mutant: the gap is halved instead of doubled.                           *)
StoreHalf(g) ==
    /\ pc[g] = "store"
    /\ retryGap' = reg[g] \div 2
    /\ reg' = [reg EXCEPT ![g] = @ \div 2]
    /\ pc'  = [pc EXCEPT ![g] = "compare"]
    /\ UNCHANGED <<engine, i, err, stop, localGap, tries, slept, calls>>

StoreDouble(g) ==
    /\ pc[g] = "store"
    /\ retryGap' = 2 * reg[g]
    /\ reg' = [reg EXCEPT ![g] = 2 * @]
    /\ pc'  = [pc EXCEPT ![g] = "compare"]
    /\ UNCHANGED <<engine, i, err, stop, localGap, tries, slept, calls>>

CompareGap(g) ==
    /\ pc[g] = "compare"
    /\ \E seen \in {retryGap, reg[g]} :
          \/ /\ seen > maxRetryGap
             /\ pc' = [pc EXCEPT ![g] = "cap"]
             /\ UNCHANGED i
          \/ /\ ~(seen > maxRetryGap)
             /\ NextIteration(g)
    /\ UNCHANGED <<retryGap, engine, err, stop, localGap, reg, tries, slept, calls>>

(* Mutant: the cap is compared but never stored.                           *)
CapForgotten(g) ==
    /\ pc[g] = "cap"
    /\ NextIteration(g)
    /\ UNCHANGED <<retryGap, engine, err, stop, localGap, reg, tries, slept, calls>>

CapGap(g) ==
    /\ pc[g] = "cap"
    /\ retryGap' = maxRetryGap
    /\ NextIteration(g)
    /\ UNCHANGED <<engine, err, stop, localGap, reg, tries, slept, calls>>

(* The loop returns err to the operation that called it.                   *)
Return(g) ==
    /\ pc[g] = "done"
    /\ pc' = [pc EXCEPT ![g] = "idle"]
    /\ UNCHANGED <<retryGap, engine, i, err, stop, localGap, reg, tries, slept, calls>>

--------------------------------------------------------------------------------
Step(g) ==
    \/ Enter(g)
    \/ Sleep(g)
    \/ Exhaust(g)
    \/ \E e \in Errors, s \in BOOLEAN : Call(g, e, s)
    \/ LoadGap(g)
    \/ StoreDouble(g)
    \/ CompareGap(g)
    \/ CapGap(g)
    \/ Return(g)

Next == \E g \in Goroutines : Step(g) \/ \E e \in Engines : Begin(g, e)

Spec == Init /\ [][Next]_vars

(* A goroutine that is inside a loop keeps running: sleeps end, HTTP calls *)
(* return, and the Go scheduler runs it again.  Nothing forces a new call. *)
Fairness == \A g \in Goroutines : WF_vars(Step(g))

FairSpec == Spec /\ Fairness

--------------------------------------------------------------------------------
Kinds == {"nil", "other", "models"}

TypeOK ==
    /\ retryGap \in Nat
    /\ pc       \in [Goroutines -> InLoop \cup {"idle", "done"}]
    /\ engine   \in [Goroutines -> Engines]
    /\ i        \in [Goroutines -> Nat]
    /\ err      \in [Goroutines -> Errors \cup {NoError}]
    /\ stop     \in [Goroutines -> BOOLEAN]
    /\ localGap \in [Goroutines -> Nat]
    /\ reg      \in [Goroutines -> Nat]
    /\ tries    \in [Goroutines -> Nat]
    /\ slept    \in [Goroutines -> Nat]
    /\ calls    \in [Goroutines -> Nat]

(* A loop never calls back more often than its limit, and it gives up on   *)
(* an answer it would retry only when the whole budget is spent: neither   *)
(* the bound nor the early exits of the four loops lose an attempt.        *)
AttemptBudget ==
    \A g \in Goroutines :
        /\ tries[g] <= Limit(engine[g])
        /\ pc[g] = "done" /\ ~Stops(engine[g], err[g], stop[g])
              => tries[g] = Limit(engine[g])

Ceiling == IF retryGap0 > maxRetryGap THEN retryGap0 ELSE maxRetryGap
Floor   == IF retryGap0 < maxRetryGap THEN retryGap0 ELSE maxRetryGap

Updating(g) == pc[g] \in {"compare", "cap"}

(* However the racing updates interleave, the shared gap is above the      *)
(* ceiling only while some goroutine is still between its doubling and its *)
(* cap: an overshoot is never left behind for later sessions.              *)
GapSettles == retryGap > Ceiling => \E g \in Goroutines : Updating(g)

(* No interleaving of the updates (a lost update, a late store of the cap) *)
(* makes a loop retry without a pause or with one shorter than both the    *)
(* initial gap and the configured maximum.                                 *)
NoBusyRetry ==
    \A g \in Goroutines :
        engine[g] # "FlexyRetryWithConstGap" /\ tries[g] > 1 => slept[g] >= Floor

(* Every call of a retry loop returns.                                     *)
LoopTerminates ==
    \A g \in Goroutines : (pc[g] = "head") ~> (pc[g] = "done")
================================================================================
