----------------------------- MODULE MCAccessPoints -----------------------------
(* Two sessions for access points and one for volumes, one share, two      *)
(* VPCs, two target ids.  Access point sessions, targets and VPCs are      *)
(* interchangeable.                                                        *)
EXTENDS AccessPoints, TLC

MCFaultErrors ==
    { OtherError, ModelsError(<<"internal_error">>), ModelsError(<<"invalid_route">>) }

Symmetry ==
    Permutations(ApSessions) \cup Permutations(TargetIDs) \cup Permutations(VPCs)

(* Bound: any two of the three sessions run their operation; all three run *)
(* when the one for volumes deletes the share, no fault happens, and the   *)
(* others work on one target id and in one VPC.                            *)
FewAtOnce ==
    \/ Cardinality({s \in ApSessions : ap[s].ops > 0} \cup {s \in Sessions : vol[s].ops > 0}) <= 2
    \/ /\ faults = 0
       /\ \A s \in Sessions : vol[s].op = "DeleteVolume"
       /\ Cardinality({t \in TargetIDs : targets[t].status # "unused"}) <= 1
       /\ Cardinality({ap[s].home : s \in ApSessions} \ {None}) <= 1

(* Bound: one session waits.  A wait changes nothing in the service, so    *)
(* that a second one makes no difference to the first.                     *)
OneWaits ==
    Cardinality({s \in ApSessions : ap[s].op \in {"WaitForCreateVolumeAccessPoint",
                                                  "WaitForDeleteVolumeAccessPoint"}}) <= 1

MCNext == ApNext /\ FewAtOnce' /\ OneWaits'

MCSpec == ApInit /\ [][MCNext]_apVars
================================================================================
