--------------------------------- MODULE TagSet ---------------------------------
(***************************************************************************)
(* What UpdateVolume promises about the user tags of a share: each update  *)
(* adds the tags of one request at once and takes none away.  Only other   *)
(* clients of the service may do anything else.                            *)
(***************************************************************************)
EXTENDS Integers

CONSTANTS
    Tags,
    Requests    \* the sets of tags that are asked for

VARIABLES
    tags,       \* the tags of the share
    edits       \* changes made by other clients

tagSetVars == <<tags, edits>>

Init == tags \in SUBSET Tags /\ edits = 0

AddTags(T) == tags' = tags \cup T /\ UNCHANGED edits

EditByOthers == tags' \in SUBSET Tags /\ edits' = edits + 1

Next == EditByOthers \/ \E T \in Requests : AddTags(T)

Spec == Init /\ [][Next]_tagSetVars
================================================================================
