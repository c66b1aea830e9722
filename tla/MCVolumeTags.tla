------------------------------ MODULE MCVolumeTags ------------------------------
(* The tag "pv" occurs in both of the others.                              *)
EXTENDS VolumeTags, TLC

MCTags        == {"pv", "pv:a", "pv:b"}
MCSubTag      == {<<t, t>> : t \in MCTags} \cup {<<"pv", "pv:a">>, <<"pv", "pv:b">>}
MCRequests    == {{"pv"}, {"pv:a"}, {"pv", "pv:b"}}
MCFaultErrors == {OtherError, ModelsError(<<"invalid_route">>)}

Symmetry == Permutations(Sessions)
================================================================================
