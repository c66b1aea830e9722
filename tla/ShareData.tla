------------------------------- MODULE ShareData -------------------------------
(***************************************************************************)
(* Expansion and snapshots of one share, by goroutines that share nothing  *)
(* but the service: a resize makes the share refuse snapshots for a while, *)
(* a snapshot records the size the share had, and the share may go away.   *)
(***************************************************************************)
EXTENDS Expansion, Snapshots

dataVars == <<serviceVars, exp, sop>>

Init == ServiceInit /\ ExpandInit /\ SnapInit

Next ==
    \/ \E s \in Expanders : (ExpandStep(s) \/ ExpandCall(s)) /\ UNCHANGED sop
    \/ \E s \in Snappers : (SnapStep(s) \/ SnapCall(s)) /\ UNCHANGED exp
    \/ ServiceStep /\ UNCHANGED <<exp, sop>>

Spec == Init /\ [][Next]_dataVars

(* A goroutine in an operation keeps running; the service owes nothing.    *)
FairSpec ==
    /\ Spec
    /\ \A s \in Expanders : WF_dataVars(ExpandStep(s) /\ UNCHANGED sop)
    /\ \A s \in Snappers  : WF_dataVars(SnapStep(s) /\ UNCHANGED exp)

(* Every expansion and every snapshot operation ends, even if the resize   *)
(* or the deletion it waits for never does.                                *)
DataOpEnds ==
    /\ \A s \in Expanders : (exp[s].pc \in ExpandLoops) ~> (exp[s].pc = "done")
    /\ \A s \in Snappers  : (sop[s].pc \in SnapLoops) ~> (sop[s].pc \in {"done", "panicked"})
================================================================================
