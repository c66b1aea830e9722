------------------------------- MODULE RetryLoop -------------------------------
(***************************************************************************)
(* A retry loop inside an operation.  The operation is a record whose      *)
(* field i counts the attempts made before the current one; pc names the   *)
(* loop it is in.  Each step of the operation is one attempt.              *)
(***************************************************************************)
EXTENDS RetryPolicy, Messages

Enter(r, loop) == [r EXCEPT !.pc = loop, !.i = 0]

(* The operation returns: res is "ok" or the code of its error.            *)
Return(r, res) == [r EXCEPT !.pc = "done", !.i = 0, !.res = res]

Fail(r, code) == Return(r, GetUserError(code))

(* Mutant: an attempt is not counted.                                      *)
RepeatUncounted(r) == r

Repeat(r) == [r EXCEPT !.i = @ + 1]

(* What the loop does after an attempt returned (err, stop): it goes on,   *)
(* or it returns err and the operation continues as onFailure or onSuccess.*)
Attempted(r, engine, err, stop, onSuccess, onFailure) ==
    IF ~LoopEnds(engine, r.i, err, stop) THEN Repeat(r)
    ELSE IF IsErr(err) THEN onFailure
    ELSE onSuccess
================================================================================
