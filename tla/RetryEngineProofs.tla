--------------------------- MODULE RetryEngineProofs ---------------------------
(***************************************************************************)
(* Proofs about RetryEngine for any number of goroutines, any attempt      *)
(* limits, any gaps and any set of errors.                                 *)
(***************************************************************************)
EXTENDS RetryEngine, TLAPS

(* Every loop makes at least one attempt (Limit over the four loops).      *)
LEMMA LimitPositive ==
    ASSUME NEW e \in Engines
    PROVE  Limit(e) \in Nat /\ Limit(e) >= 1
  BY AttemptAssumption DEF Limit, Engines

(* Ceiling and Floor are positive gaps on both sides of the two configured *)
(* ones.                                                                   *)
LEMMA GapBounds ==
    /\ Floor \in Nat /\ Ceiling \in Nat
    /\ 1 <= Floor
    /\ Floor <= retryGap0 /\ Floor <= maxRetryGap
    /\ retryGap0 <= Ceiling /\ maxRetryGap <= Ceiling
  BY GapAssumption DEF Floor, Ceiling

(* Types are kept by every step of the loops in util.go.                   *)
THEOREM TypeCorrect == Spec => []TypeOK
<1>1. Init => TypeOK
  BY GapAssumption DEF Init, TypeOK, InLoop, Engines
<1>2. TypeOK /\ [Next]_vars => TypeOK'
  <2> SUFFICES ASSUME TypeOK, [Next]_vars
               PROVE  TypeOK'
    OBVIOUS
  <2> USE GapAssumption DEF TypeOK, InLoop
  <2>1. ASSUME NEW g \in Goroutines, NEW e \in Engines, Begin(g, e)
        PROVE  TypeOK'
    BY <2>1 DEF Begin
  <2>2. ASSUME NEW g \in Goroutines, Enter(g)
        PROVE  TypeOK'
    BY <2>2 DEF Enter
  <2>3. ASSUME NEW g \in Goroutines, Sleep(g)
        PROVE  TypeOK'
    <3>1. Gap(g) \in Nat
      BY DEF Gap
    <3>2. QED
      BY <2>3, <3>1 DEF Sleep
  <2>4. ASSUME NEW g \in Goroutines, Exhaust(g)
        PROVE  TypeOK'
    BY <2>4 DEF Exhaust
  <2>5. ASSUME NEW g \in Goroutines, NEW e \in Errors, NEW s \in BOOLEAN, Call(g, e, s)
        PROVE  TypeOK'
    <3>1. pc' \in [Goroutines -> InLoop \cup {"idle", "done"}]
      BY <2>5 DEF Call, NextIteration
    <3>2. i' \in [Goroutines -> Nat] /\ localGap' \in [Goroutines -> Nat]
      BY <2>5 DEF Call, NextIteration
    <3>3. /\ err' \in [Goroutines -> Errors \cup {NoError}]
          /\ tries' \in [Goroutines -> Nat]
      BY <2>5 DEF Call, Counted
    <3>4. stop' \in [Goroutines -> BOOLEAN]
      BY <2>5, Zenon DEF Call
    <3>5. QED
      BY <2>5, <3>1, <3>2, <3>3, <3>4 DEF Call
  <2>6. ASSUME NEW g \in Goroutines, LoadGap(g)
        PROVE  TypeOK'
    BY <2>6 DEF LoadGap
  <2>7. ASSUME NEW g \in Goroutines, StoreDouble(g)
        PROVE  TypeOK'
    BY <2>7 DEF StoreDouble
  <2>8. ASSUME NEW g \in Goroutines, CompareGap(g)
        PROVE  TypeOK'
    BY <2>8 DEF CompareGap, NextIteration
  <2>9. ASSUME NEW g \in Goroutines, CapGap(g)
        PROVE  TypeOK'
    BY <2>9 DEF CapGap, NextIteration
  <2>10. ASSUME NEW g \in Goroutines, Return(g)
         PROVE  TypeOK'
    BY <2>10 DEF Return
  <2>11. CASE UNCHANGED vars
    BY <2>11 DEF vars
  <2>12. QED
    BY <2>1, <2>2, <2>3, <2>4, <2>5, <2>6, <2>7, <2>8, <2>9, <2>10, <2>11 DEF Next, Step
<1>3. QED
  BY <1>1, <1>2, PTL DEF Spec

--------------------------------------------------------------------------------
(* The attempts made so far, at each point of the loop.  AttemptBudget     *)
(* speaks of the end only; this is what leads there.                       *)
Spent(g) ==
    /\ pc[g] = "head" =>
          /\ tries[g] = i[g]
          /\ i[g] <= Limit(engine[g])
          /\ i[g] > 0 => ~Stops(engine[g], err[g], stop[g])
    /\ pc[g] = "call" =>
          /\ tries[g] = i[g]
          /\ i[g] < Limit(engine[g])
    /\ pc[g] \in {"load", "store", "compare", "cap"} =>
          /\ tries[g] = i[g] + 1
          /\ i[g] < Limit(engine[g])
          /\ ~Stops(engine[g], err[g], stop[g])
    /\ pc[g] \in {"done", "idle"} => tries[g] <= Limit(engine[g])
    /\ pc[g] = "done" =>
          Stops(engine[g], err[g], stop[g]) \/ tries[g] = Limit(engine[g])

LoopInv == \A g \in Goroutines : Spent(g)

(* The bookkeeping of i in the for loops of util.go.                       *)
THEOREM LoopInvariant == Spec => []LoopInv
<1>1. Init => LoopInv
  BY LimitPositive DEF Init, LoopInv, Spent, Engines
<1>2. TypeOK /\ LoopInv /\ [Next]_vars => LoopInv'
  <2> SUFFICES ASSUME TypeOK, LoopInv, [Next]_vars,
                      NEW h \in Goroutines
               PROVE  Spent(h)'
    BY DEF LoopInv
  <2>0. Spent(h)
    BY DEF LoopInv
  <2>a. Limit(engine[h]) \in Nat /\ Limit(engine[h]) >= 1
    BY LimitPositive DEF TypeOK
  <2> USE <2>0, <2>a DEF TypeOK, Spent
  <2>1. ASSUME NEW g \in Goroutines, NEW e \in Engines, Begin(g, e)
        PROVE  Spent(h)'
    <3>1. Limit(e) \in Nat /\ Limit(e) >= 1
      BY LimitPositive
    <3>2. QED
      BY <2>1, <3>1 DEF Begin
  <2>2. ASSUME NEW g \in Goroutines, Enter(g)
        PROVE  Spent(h)'
    BY <2>2 DEF Enter
  <2>3. ASSUME NEW g \in Goroutines, Sleep(g)
        PROVE  Spent(h)'
    BY <2>3 DEF Sleep
  <2>4. ASSUME NEW g \in Goroutines, Exhaust(g)
        PROVE  Spent(h)'
    BY <2>4 DEF Exhaust
  <2>5. ASSUME NEW g \in Goroutines, NEW e \in Errors, NEW s \in BOOLEAN, Call(g, e, s)
        PROVE  Spent(h)'
    <3>1. Counted(h) = tries[h] + 1 \/ h # g
      BY <2>5 DEF Call, Counted
    <3>2. QED
      BY <2>5, <3>1 DEF Call, NextIteration
  <2>6. ASSUME NEW g \in Goroutines, LoadGap(g)
        PROVE  Spent(h)'
    BY <2>6 DEF LoadGap
  <2>7. ASSUME NEW g \in Goroutines, StoreDouble(g)
        PROVE  Spent(h)'
    BY <2>7 DEF StoreDouble
  <2>8. ASSUME NEW g \in Goroutines, CompareGap(g)
        PROVE  Spent(h)'
    BY <2>8 DEF CompareGap, NextIteration
  <2>9. ASSUME NEW g \in Goroutines, CapGap(g)
        PROVE  Spent(h)'
    BY <2>9 DEF CapGap, NextIteration
  <2>10. ASSUME NEW g \in Goroutines, Return(g)
         PROVE  Spent(h)'
    BY <2>10 DEF Return
  <2>11. CASE UNCHANGED vars
    BY <2>11 DEF vars
  <2>12. QED
    BY <2>1, <2>2, <2>3, <2>4, <2>5, <2>6, <2>7, <2>8, <2>9, <2>10, <2>11 DEF Next, Step
<1>3. QED
  BY <1>1, <1>2, TypeCorrect, PTL DEF Spec

(* No loop exceeds its limit or gives up early (retry, FlexyRetry,         *)
(* retryWithMinRetries and FlexyRetryWithConstGap of util.go).             *)
THEOREM AttemptsCorrect == Spec => []AttemptBudget
<1>1. TypeOK /\ LoopInv => AttemptBudget
  <2> SUFFICES ASSUME TypeOK, LoopInv, NEW g \in Goroutines
               PROVE  /\ tries[g] <= Limit(engine[g])
                      /\ pc[g] = "done" /\ ~Stops(engine[g], err[g], stop[g])
                            => tries[g] = Limit(engine[g])
    BY DEF AttemptBudget
  <2>1. Limit(engine[g]) \in Nat
    BY LimitPositive DEF TypeOK
  <2>2. QED
    BY <2>1 DEF TypeOK, InLoop, LoopInv, Spent
<1>2. QED
  BY <1>1, TypeCorrect, LoopInvariant, PTL

--------------------------------------------------------------------------------
(* An overshoot belongs to a goroutine that will undo it: it is about to   *)
(* store the cap, or it stored the very value and has still to compare it. *)
Undoes(g) == pc[g] = "cap" \/ (pc[g] = "compare" /\ reg[g] = retryGap)

GapInv == retryGap > Ceiling => \E g \in Goroutines : Undoes(g)

(* The shared gap exceeds its ceiling only while an update is under way.   *)
THEOREM GapCorrect == Spec => []GapSettles
<1> USE GapBounds, GapAssumption
<1>1. Init => GapInv
  BY DEF Init, GapInv
<1>2. TypeOK /\ GapInv /\ [Next]_vars => GapInv'
  <2> SUFFICES ASSUME TypeOK, GapInv, [Next]_vars, (retryGap > Ceiling)'
               PROVE  \E h \in Goroutines : Undoes(h)'
    BY DEF GapInv
  <2>0. Ceiling' = Ceiling
    BY DEF Ceiling
  <2> USE <2>0 DEF TypeOK, Undoes
  <2>1. ASSUME NEW g \in Goroutines, StoreDouble(g)
        PROVE  Undoes(g)'
    BY <2>1 DEF StoreDouble
  <2>2. ASSUME NEW g \in Goroutines, CapGap(g)
        PROVE  FALSE
    BY <2>2 DEF CapGap
  <2>3. ASSUME retryGap' = retryGap
        PROVE  \E h \in Goroutines : Undoes(h)
    BY <2>3 DEF GapInv
  <2>4. ASSUME NEW g \in Goroutines, CompareGap(g)
        PROVE  \E h \in Goroutines : Undoes(h)'
    <3>1. retryGap' = retryGap /\ reg' = reg
      BY <2>4 DEF CompareGap
    <3>2. PICK h \in Goroutines : Undoes(h)
      BY <2>3, <3>1
    <3>3. CASE h = g
      <4>1. reg[g] = retryGap /\ retryGap > maxRetryGap
        BY <2>4, <3>1, <3>2, <3>3 DEF CompareGap
      <4>2. pc'[g] = "cap"
        BY <2>4, <4>1 DEF CompareGap
      <4>3. QED
        BY <4>2
    <3>4. CASE h # g
      <4>1. pc'[h] = pc[h]
        BY <2>4, <3>4 DEF CompareGap, NextIteration
      <4>2. QED
        BY <3>1, <3>2, <4>1
    <3>5. QED
      BY <3>3, <3>4
  <2>5. ASSUME NEW g \in Goroutines,
               \/ \E e \in Engines : Begin(g, e)
               \/ Enter(g) \/ Sleep(g) \/ Exhaust(g) \/ LoadGap(g) \/ Return(g)
               \/ \E e \in Errors, s \in BOOLEAN : Call(g, e, s)
        PROVE  \E h \in Goroutines : Undoes(h)'
    <3>1. retryGap' = retryGap
      BY <2>5 DEF Begin, Enter, Sleep, Exhaust, LoadGap, Return, Call
    <3>2. PICK h \in Goroutines : Undoes(h)
      BY <2>3, <3>1
    <3>3. pc[g] \notin {"compare", "cap"}
      BY <2>5 DEF Begin, Enter, Sleep, Exhaust, LoadGap, Return, Call
    <3>4. pc'[h] = pc[h] /\ reg'[h] = reg[h]
      BY <2>5, <3>2, <3>3 DEF Begin, Enter, Sleep, Exhaust, LoadGap, Return, Call, NextIteration
    <3>5. QED
      BY <3>1, <3>2, <3>4
  <2>6. CASE UNCHANGED vars
    BY <2>3, <2>6 DEF vars
  <2>7. QED
    BY <2>1, <2>2, <2>4, <2>5, <2>6 DEF Next, Step
<1>3. GapInv => GapSettles
  BY DEF GapInv, GapSettles, Undoes, Updating
<1>4. QED
  BY <1>1, <1>2, <1>3, TypeCorrect, PTL DEF Spec

--------------------------------------------------------------------------------
(* Every gap a loop can read or is about to write is at least Floor, and a *)
(* loop past its first attempt has slept one of them.                      *)
Paused(g) ==
    /\ localGap[g] >= Floor
    /\ pc[g] \in {"store", "compare"} => reg[g] >= Floor
    /\ engine[g] # "FlexyRetryWithConstGap" =>
          /\ pc[g] = "call" /\ i[g] > 0 => slept[g] >= Floor
          /\ tries[g] > 1 => slept[g] >= Floor

PauseInv == retryGap >= Floor /\ \A g \in Goroutines : Paused(g)

(* No loop retries without a pause of at least Floor.                      *)
THEOREM PauseCorrect == Spec => []NoBusyRetry
<1> USE GapBounds, GapAssumption
<1>1. Init => PauseInv
  BY DEF Init, PauseInv, Paused
<1>2. TypeOK /\ LoopInv /\ PauseInv /\ [Next]_vars => PauseInv'
  <2> SUFFICES ASSUME TypeOK, LoopInv, PauseInv, [Next]_vars
               PROVE  PauseInv'
    OBVIOUS
  <2>0. Floor' = Floor
    BY DEF Floor
  <2>1. (retryGap >= Floor)'
    <3>1. ASSUME NEW g \in Goroutines, StoreDouble(g)
          PROVE  retryGap' >= Floor
      BY <3>1 DEF StoreDouble, PauseInv, Paused, TypeOK
    <3>2. ASSUME NEW g \in Goroutines, CapGap(g)
          PROVE  retryGap' >= Floor
      BY <3>2 DEF CapGap
    <3>3. ASSUME ~ \E g \in Goroutines : StoreDouble(g) \/ CapGap(g)
          PROVE  retryGap' = retryGap
      BY <3>3 DEF Next, Step, vars, Begin, Enter, Sleep, Exhaust, LoadGap, Return, Call,
                  CompareGap
    <3>4. QED
      BY <2>0, <3>1, <3>2, <3>3 DEF PauseInv
  <2>2. ASSUME NEW h \in Goroutines
        PROVE  Paused(h)'
    <3>0. /\ Paused(h)
          /\ retryGap >= Floor
          /\ pc[h] = "call" => tries[h] = i[h]
      BY DEF PauseInv, LoopInv, Spent
    <3> USE <2>0, <3>0 DEF TypeOK, Paused
    <3>1. ASSUME NEW g \in Goroutines, NEW e \in Engines, Begin(g, e)
          PROVE  Paused(h)'
      BY <3>1 DEF Begin
    <3>2. ASSUME NEW g \in Goroutines, Enter(g)
          PROVE  Paused(h)'
      BY <3>2 DEF Enter
    <3>3. ASSUME NEW g \in Goroutines, Sleep(g)
          PROVE  Paused(h)'
      <4>1. Paused(g) /\ engine[g] # "FlexyRetryWithConstGap" => Gap(g) >= Floor
        BY DEF Gap
      <4>2. CASE g = h
        BY <3>3, <4>1, <4>2 DEF Sleep
      <4>3. CASE g # h
        BY <3>3, <4>3 DEF Sleep
      <4>4. QED
        BY <4>2, <4>3
    <3>4. ASSUME NEW g \in Goroutines, Exhaust(g)
          PROVE  Paused(h)'
      BY <3>4 DEF Exhaust
    <3>5. ASSUME NEW g \in Goroutines, NEW e \in Errors, NEW s \in BOOLEAN, Call(g, e, s)
          PROVE  Paused(h)'
      <4>1. tries'[h] \in Nat /\ tries'[h] <= tries[h] + 1
        <5>1. Counted(g) \in Nat /\ Counted(g) <= tries[g] + 1
          BY DEF Counted
        <5>2. QED
          BY <3>5, <5>1 DEF Call
      <4>2. QED
        BY <3>5, <4>1 DEF Call, NextIteration
    <3>6. ASSUME NEW g \in Goroutines, LoadGap(g)
          PROVE  Paused(h)'
      BY <3>6 DEF LoadGap
    <3>7. ASSUME NEW g \in Goroutines, StoreDouble(g)
          PROVE  Paused(h)'
      BY <3>7 DEF StoreDouble
    <3>8. ASSUME NEW g \in Goroutines, CompareGap(g)
          PROVE  Paused(h)'
      BY <3>8 DEF CompareGap, NextIteration
    <3>9. ASSUME NEW g \in Goroutines, CapGap(g)
          PROVE  Paused(h)'
      BY <3>9 DEF CapGap, NextIteration
    <3>10. ASSUME NEW g \in Goroutines, Return(g)
           PROVE  Paused(h)'
      BY <3>10 DEF Return
    <3>11. CASE UNCHANGED vars
      BY <3>11 DEF vars
    <3>12. QED
      BY <3>1, <3>2, <3>3, <3>4, <3>5, <3>6, <3>7, <3>8, <3>9, <3>10, <3>11 DEF Next, Step
  <2>3. QED
    BY <2>1, <2>2 DEF PauseInv
<1>3. PauseInv => NoBusyRetry
  BY DEF PauseInv, Paused, NoBusyRetry
<1>4. QED
  BY <1>1, <1>2, <1>3, TypeCorrect, LoopInvariant, PTL DEF Spec
================================================================================
