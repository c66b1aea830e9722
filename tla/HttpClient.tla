------------------------------- MODULE HttpClient -------------------------------
(***************************************************************************)
(* The REST client under all requests to the file service: one client per  *)
(* session, shared by goroutines that each build a request from it and     *)
(* invoke it (common/vpcclient/client/client.go, request.go,               *)
(* authentication.go, params.go, payload/response_consumer.go).            *)
(*                                                                         *)
(* The value a caller puts into a request is the caller itself.  The       *)
(* service, the network between and the HTTP transport are external.       *)
(***************************************************************************)
EXTENDS MultipartBody, Sequences

CONSTANTS
    Tokens,         \* tokens a session may be logged in with
    Version,        \* the API version every request sends
    NoToken,        \* the empty token of a client that is not logged in
    NoError,
    None

ASSUME NoErrorAssumption ==
    NoError \notin {"ErrAuthenticationRequired", "encoding", "request", "transport",
                    "models.Error", "decoding"}

VARIABLES
    client,     \* the session's client: its token and default query values
    req,        \* each caller's request
    seen        \* what the service made of it, and the request it saw

httpVars == <<bodyVars, client, req, seen>>

Bodies    == {"none", "json", "unencodable", "file"}
QueryKeys == {"version", "start"}

NoRequest == [pc |-> "idle", body |-> None, path |-> None, query |-> None, handler |-> None,
              auth |-> None, success |-> FALSE, err |-> None]
Unseen    == [did |-> "nothing", path |-> None, query |-> None, auth |-> None]

(* client.New, with the default query values of riaas.New.                 *)
NewClient == [token |-> NoToken, query |-> [k \in QueryKeys |-> IF k = "version" THEN <<Version>> ELSE <<>>]]

Init ==
    /\ client = NewClient
    /\ req = [g \in Callers |-> NoRequest]
    /\ seen = [g \in Callers |-> Unseen]
    /\ MultipartInit

SetReq(g, r) == req' = [req EXCEPT ![g] = r]
Return(g, e) == SetReq(g, [req[g] EXCEPT !.pc = "done", !.err = e])

--------------------------------------------------------------------------------
(* Login: WithAuthToken gives the client a new authentication handler.     *)
(* The session is logged in before it is handed out.                       *)
WithAuthToken(t) ==
    /\ \A g \in Callers : req[g].pc \in {"idle", "done"}
    /\ client.token = NoToken
    /\ client' = [client EXCEPT !.token = t]
    /\ UNCHANGED <<req, seen, bodyVars>>

(* NewRequest copies the client's values and keeps its handler.  (Bound:   *)
(* a caller has one copier; while that is at work it sends nothing more.)  *)
NewRequest(g, b, s) ==
    /\ req[g].pc \in {"idle", "done"}
    /\ copier[g].pc \in {"none", "ended"}
    /\ SetReq(g, [NoRequest EXCEPT !.pc = "path", !.body = b, !.success = s,
                                   !.query = client.query, !.handler = client.token])
    /\ seen' = [seen EXCEPT ![g] = Unseen]
    /\ copier' = [copier EXCEPT ![g] = NoCopier]
    /\ pipe' = [pipe EXCEPT ![g] = NewPipe]
    /\ UNCHANGED client

PathParameter(g) ==
    /\ req[g].pc = "path"
    /\ SetReq(g, [req[g] EXCEPT !.pc = "query", !.path = g])
    /\ UNCHANGED <<client, seen, bodyVars>>

(* Mutant: the request's query values are the client's own map.            *)
AddSharedQueryValue(g) ==
    /\ req[g].pc = "query"
    /\ LET q == [client.query EXCEPT !["start"] = IF Len(@) < 2 THEN Append(@, g) ELSE @]
       IN  /\ SetReq(g, [req[g] EXCEPT !.pc = "before", !.query = q])
           /\ client' = [client EXCEPT !.query = q]
    /\ UNCHANGED <<seen, bodyVars>>

AddQueryValue(g) ==
    /\ req[g].pc = "query"
    /\ SetReq(g, [req[g] EXCEPT !.pc = "before", !.query["start"] = Append(@, g)])
    /\ UNCHANGED <<client, seen, bodyVars>>

--------------------------------------------------------------------------------
(* Invoke: first authenticationHandler.Before.                             *)
Before(g) ==
    /\ req[g].pc = "before"
    /\ \/ /\ req[g].handler = NoToken
          /\ Return(g, "ErrAuthenticationRequired")
       \/ /\ req[g].handler # NoToken
          /\ SetReq(g, [req[g] EXCEPT !.pc = "body", !.auth = req[g].handler])
    /\ UNCHANGED <<client, seen, bodyVars>>

(* The body: encoded at once, or written by a copier from now on.          *)
Body(g) ==
    /\ req[g].pc = "body"
    /\ \/ /\ req[g].body = "unencodable"
          /\ Return(g, "encoding")
          /\ UNCHANGED bodyVars
       \/ /\ req[g].body \in {"none", "json"}
          /\ SetReq(g, [req[g] EXCEPT !.pc = "request"])
          /\ UNCHANGED bodyVars
       \/ /\ req[g].body = "file"
          /\ SetReq(g, [req[g] EXCEPT !.pc = "request"])
          /\ StartCopier(g)
    /\ UNCHANGED <<client, seen>>

(* http.NewRequest: when it fails nobody closes the pipe, and the copier   *)
(* waits for a reader for ever.                                            *)
HTTPRequest(g) ==
    /\ req[g].pc = "request"
    /\ \/ /\ SetReq(g, [req[g] EXCEPT !.pc = "do"])
          /\ pipe' = [pipe EXCEPT ![g].reader = "reading"]
       \/ Return(g, "request") /\ UNCHANGED pipe
    /\ UNCHANGED <<client, seen, copier>>

--------------------------------------------------------------------------------
(* The HTTP transport and the service.                                     *)
CloseReader(g) == pipe' = [pipe EXCEPT ![g].reader = "closed"]

(* No connection, a timeout, a lost answer, a body that ends in an error:  *)
(* Do returns an error, whatever the service has done by then.             *)
DoFails(g) ==
    /\ req[g].pc = "do"
    /\ Return(g, "transport")
    /\ CloseReader(g)
    /\ UNCHANGED <<client, seen, copier>>

(* The service acts on a request it received to the end of its body.       *)
WasSent(g) == req[g].body = "file" => pipe[g].writer = "eof"

Receive(g, did) ==
    /\ req[g].pc = "do"
    /\ seen[g].did = "nothing"
    /\ pipe[g].writer # "error"
    /\ seen' = [seen EXCEPT ![g] = [did |-> did, path |-> req[g].path,
                                    query |-> req[g].query, auth |-> req[g].auth]]
    /\ UNCHANGED <<client, req, bodyVars>>

Act(g)    == WasSent(g) /\ Receive(g, "acted")
Refuse(g) == Receive(g, "refused")    \* perhaps before all of the body came

(* Statuses the service answers with; a gateway may answer for it, without *)
(* a body that is JSON.                                                    *)
Answers(did) ==
    (IF did = "acted" THEN {200, 204} ELSE {300, 404}) \X BOOLEAN \cup {<<504, FALSE>>}

(* Mutant: the result of decoding an error is assigned to another err.     *)
InvokeShadowed(status, decodes, success) ==
    IF status = 204 THEN NoError
    ELSE IF status \in 200..299 THEN (IF success /\ ~decodes THEN "decoding" ELSE NoError)
    ELSE IF decodes THEN "models.Error" ELSE NoError

(* The end of Invoke: which consumer the answer goes to and what becomes   *)
(* of it.  All callers set the error consumer.                             *)
Invoke(status, decodes, success) ==
    IF status = 204 THEN NoError
    ELSE IF status \in 200..299 THEN (IF success /\ ~decodes THEN "decoding" ELSE NoError)
    ELSE IF decodes THEN "models.Error" ELSE "decoding"

Answer(g) ==
    /\ req[g].pc = "do"
    /\ seen[g].did # "nothing"
    /\ \E a \in Answers(seen[g].did) : Return(g, Invoke(a[1], a[2], req[g].success))
    /\ CloseReader(g)
    /\ UNCHANGED <<client, seen, copier>>

--------------------------------------------------------------------------------
RequestStep(g) ==
    \/ \E b \in Bodies, s \in BOOLEAN : NewRequest(g, b, s)
    \/ PathParameter(g)
    \/ AddQueryValue(g)
    \/ Before(g)
    \/ Body(g)
    \/ HTTPRequest(g)
    \/ DoFails(g)
    \/ Act(g)
    \/ Refuse(g)
    \/ Answer(g)

(* A panic of a copier ends the process.                                   *)
Alive == \A g \in Callers : copier[g].pc # "panicked"

Next ==
    /\ Alive
    /\ \/ \E t \in Tokens : WithAuthToken(t)
       \/ \E g \in Callers : RequestStep(g)
       \/ \E g \in Callers : CopierStep(g) /\ UNCHANGED <<client, req, seen>>

Spec == Init /\ [][Next]_httpVars

--------------------------------------------------------------------------------
(* What a caller may conclude from the error of Invoke: without one the    *)
(* service acted; a *models.Error means that it refused; the errors of     *)
(* building a request that it never saw it.  Only the errors of the        *)
(* transport and of decoding leave open what the service did.  This is     *)
(* what FileShareClient assumes of every request.                          *)
ErrorTellsWhatHappened ==
    \A g \in Callers : req[g].pc = "done" =>
        CASE req[g].err = NoError                     -> seen[g].did = "acted"
          [] req[g].err = "models.Error"              -> seen[g].did = "refused"
          [] req[g].err \in {"transport", "decoding"} -> TRUE
          [] OTHER                                    -> seen[g].did = "nothing"

(* The service sees of each request the values its own caller put into it, *)
(* the session's defaults and the session's token, whatever the other      *)
(* goroutines on the same client do meanwhile, and never a request without *)
(* a token.                                                                *)
RequestsDoNotMix ==
    \A g \in Callers : seen[g].did # "nothing" =>
        /\ seen[g].path = g
        /\ seen[g].query = [k \in QueryKeys |-> IF k = "version" THEN <<Version>> ELSE <<g>>]
        /\ seen[g].auth \in Tokens

(* The service never acts on part of a file: when it does, the header, all *)
(* of the contents and the closing boundary were read from the pipe, even  *)
(* if the contents could fail to be read at any chunk.                     *)
UploadIsWhole ==
    \A g \in Callers : req[g].body = "file" /\ seen[g].did = "acted" =>
        pipe[g].read = {Header, Trailer} \cup 1..copier[g].size
================================================================================
