------------------------------ MODULE MCPVWatcher ------------------------------
(* The PV's own tag and one of the user, neither part of the other.         *)
EXTENDS PVWatcher

MCTags           == {"pv:a", "user"}
MCSubTag         == {<<t, t>> : t \in MCTags}
MCRequests       == {MCTags, {"pv:a"}}
MCFaultErrors    == {OtherError, ModelsError(<<"invalid_route">>)}
MCIksFaultErrors == {OtherError, IksError("invalid_route"), IksError("internal_error")}
================================================================================
