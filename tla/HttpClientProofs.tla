--------------------------- MODULE HttpClientProofs ---------------------------
(***************************************************************************)
(* What HttpClient promises, proved for every set of callers and tokens    *)
(* and every number of chunks of a file.                                   *)
(*                                                                         *)
(* A step changes what one caller g has: its request r, what the service   *)
(* saw of it s, its copier c and its pipe p.  The inductive invariant is   *)
(* a condition on these four, so that a step is proved by looking at g     *)
(* alone (CallerStep); the client it shares with the others only ever      *)
(* gets a token.                                                           *)
(***************************************************************************)
EXTENDS HttpClient, TLAPS

(* The query values of a request before and after its caller's own.        *)
SessionQuery == [k \in QueryKeys |-> IF k = "version" THEN <<Version>> ELSE <<>>]
OwnQuery(g)  == [k \in QueryKeys |-> IF k = "version" THEN <<Version>> ELSE <<g>>]
Queries      == {None, SessionQuery} \cup {OwnQuery(g) : g \in Callers}

BuildErrors == {"ErrAuthenticationRequired", "encoding", "request"}
SentErrors  == {NoError, "models.Error", "transport", "decoding"}

Request ==
    [pc : {"idle", "path", "query", "before", "body", "request", "do", "done"},
     body : Bodies \cup {None}, path : Callers \cup {None}, query : Queries,
     handler : Tokens \cup {NoToken, None}, auth : Tokens \cup {None}, success : BOOLEAN,
     err : BuildErrors \cup SentErrors \cup {None}]

Sight ==
    [did : {"nothing", "acted", "refused"}, path : Callers \cup {None}, query : Queries,
     auth : Tokens \cup {None}]

Copier ==
    [pc : {"none", "header", "copy", "trailer", "eof", "ended", "panicked"}, size : Nat, left : Nat]

Pipe == [reader : {"idle", "reading", "closed"}, writer : {"open", "eof", "error"}, read : SUBSET Nat]

(* What a request carries at each step of its way to the service.          *)
Carries(g, r) ==
    /\ r.pc \in {"path", "query"} => r.query = SessionQuery
    /\ r.pc \in {"path", "query", "before"} => r.handler \in Tokens \cup {NoToken}
    /\ r.pc \in {"query", "before", "body", "request", "do"} => r.path = g
    /\ r.pc \in {"before", "body", "request", "do"} => r.query = OwnQuery(g)
    /\ r.pc \in {"body", "request", "do"} => r.auth \in Tokens

(* What the service saw of it.                                             *)
Saw(g, r, s) ==
    /\ r.pc \notin {"do", "done"} => s.did = "nothing"
    /\ s.did # "nothing" => s.path = g /\ s.query = OwnQuery(g) /\ s.auth \in Tokens

Tells(r, s) ==
    r.pc = "done" =>
        /\ r.err \in BuildErrors => s.did = "nothing"
        /\ r.err = NoError => s.did = "acted"
        /\ r.err = "models.Error" => s.did = "refused"
        /\ r.err \in BuildErrors \cup SentErrors

(* How much of the body was read, by the copier's step.  A pipe that ended *)
(* without an error and whose reader did not give up was read to the end.  *)
WholeBody(c) == {Header, Trailer} \cup 1..c.size

CopiedSoFar(c, p) ==
    /\ c.left <= c.size
    /\ c.pc = "header" => p.writer = "open" /\ p.read = {} /\ c.left = c.size
    /\ c.pc = "copy" => p.writer = "open" /\ p.read = {Header} \cup (c.left + 1)..c.size
    /\ c.pc = "trailer" => \/ p.writer = "error"
                           \/ p.writer = "open" /\ p.read = {Header} \cup 1..c.size
    /\ c.pc = "eof" => \/ p.writer = "error"
                       \/ p.writer = "open" /\ (p.reader = "closed" \/ p.read = WholeBody(c))
    /\ p.writer = "eof" => c.pc = "ended" /\ (p.reader = "closed" \/ p.read = WholeBody(c))

(* The reader gives up only when the request is over, and the service acts *)
(* on an upload only after the end of its body.                            *)
Uploaded(r, s, c, p) ==
    /\ p.reader = "closed" => r.pc = "done"
    /\ r.body = "file" /\ s.did = "acted" => c.pc = "ended" /\ p.read = WholeBody(c)

CallerOK(g, r, s, c, p) ==
    /\ r \in Request /\ s \in Sight /\ c \in Copier /\ p \in Pipe
    /\ Carries(g, r) /\ Saw(g, r, s) /\ Tells(r, s)
    /\ CopiedSoFar(c, p) /\ Uploaded(r, s, c, p)

ClientOK ==
    /\ client \in [token : Tokens \cup {NoToken}, query : {SessionQuery}]

HttpInv ==
    /\ ClientOK
    /\ req \in [Callers -> Request] /\ seen \in [Callers -> Sight]
    /\ copier \in [Callers -> Copier] /\ pipe \in [Callers -> Pipe]
    /\ \A g \in Callers : CallerOK(g, req[g], seen[g], copier[g], pipe[g])

--------------------------------------------------------------------------------
(* Initially no request has been made.                                     *)
LEMMA HttpInit == Init => HttpInv
<1> SUFFICES ASSUME Init PROVE HttpInv
  OBVIOUS
<1>1. ClientOK
  BY DEF Init, ClientOK, NewClient, SessionQuery
<1>2. NoRequest \in Request /\ Unseen \in Sight /\ NoCopier \in Copier /\ NewPipe \in Pipe
  BY DEF NoRequest, Unseen, NoCopier, NewPipe, Request, Sight, Copier, Pipe, Queries
<1>3. ASSUME NEW g \in Callers PROVE CallerOK(g, NoRequest, Unseen, NoCopier, NewPipe)
  BY <1>2 DEF CallerOK, Carries, Saw, Tells, CopiedSoFar, Uploaded, NoRequest, Unseen, NoCopier, NewPipe
<1> QED
  BY <1>1, <1>2, <1>3 DEF Init, MultipartInit, HttpInv

(* A step that leaves the other callers and the client alone.              *)
Touches(g) ==
    /\ req' = [req EXCEPT ![g] = req'[g]] /\ seen' = [seen EXCEPT ![g] = seen'[g]]
    /\ copier' = [copier EXCEPT ![g] = copier'[g]] /\ pipe' = [pipe EXCEPT ![g] = pipe'[g]]
    /\ UNCHANGED client

(* Such a step need only be looked at where its caller is.                 *)
LEMMA CallerStep ==
    ASSUME HttpInv, NEW g \in Callers, Touches(g),
           CallerOK(g, req'[g], seen'[g], copier'[g], pipe'[g])
    PROVE  HttpInv'
<1>1. req'[g] \in Request /\ seen'[g] \in Sight /\ copier'[g] \in Copier /\ pipe'[g] \in Pipe
  BY DEF CallerOK
<1>2. ClientOK'
  BY DEF HttpInv, ClientOK, Touches
<1>3. /\ req' \in [Callers -> Request] /\ seen' \in [Callers -> Sight]
      /\ copier' \in [Callers -> Copier] /\ pipe' \in [Callers -> Pipe]
  BY <1>1 DEF HttpInv, Touches
<1>4. ASSUME NEW h \in Callers PROVE CallerOK(h, req'[h], seen'[h], copier'[h], pipe'[h])
  <2>1. CASE h = g
    BY <2>1
  <2>2. CASE h # g
    BY <2>2 DEF HttpInv, Touches
  <2> QED
    BY <2>1, <2>2
<1> QED
  BY <1>2, <1>3, <1>4 DEF HttpInv

--------------------------------------------------------------------------------
(* A login changes nothing but the client's token.                         *)
LEMMA WithAuthTokenStep ==
    ASSUME HttpInv, NEW t \in Tokens, WithAuthToken(t)
    PROVE  HttpInv'
<1>1. ClientOK'
  BY DEF HttpInv, ClientOK, WithAuthToken
<1> QED
  BY <1>1 DEF HttpInv, WithAuthToken, bodyVars

(* NewRequest copies the values of the client.                             *)
LEMMA NewRequestStep ==
    ASSUME HttpInv, NEW g \in Callers, NEW b \in Bodies, NEW s \in BOOLEAN, NewRequest(g, b, s)
    PROVE  HttpInv'
<1>1. /\ Touches(g)
      /\ req'[g] = [NoRequest EXCEPT !.pc = "path", !.body = b, !.success = s,
                                     !.query = client.query, !.handler = client.token]
      /\ seen'[g] = Unseen /\ copier'[g] = NoCopier /\ pipe'[g] = NewPipe
  BY DEF HttpInv, NewRequest, SetReq, Touches
<1>2. client.query = SessionQuery /\ client.token \in Tokens \cup {NoToken}
  BY DEF HttpInv, ClientOK
<1>3. req'[g] = [pc |-> "path", body |-> b, path |-> None, query |-> SessionQuery,
                 handler |-> client.token, auth |-> None, success |-> s, err |-> None]
  BY <1>1, <1>2 DEF NoRequest
<1>4. req'[g] \in Request /\ Unseen \in Sight /\ NoCopier \in Copier /\ NewPipe \in Pipe
  BY <1>2, <1>3 DEF Unseen, NoCopier, NewPipe, Request, Sight, Copier, Pipe, Queries
<1>5. CallerOK(g, req'[g], Unseen, NoCopier, NewPipe)
  BY <1>2, <1>3, <1>4 DEF CallerOK, Carries, Saw, Tells, CopiedSoFar, Uploaded, Unseen, NoCopier, NewPipe
<1> QED
  BY <1>1, <1>5, CallerStep

(* The caller's own path parameter.                                        *)
LEMMA PathParameterStep ==
    ASSUME HttpInv, NEW g \in Callers, PathParameter(g)
    PROVE  HttpInv'
<1>1. /\ Touches(g)
      /\ req'[g] = [req[g] EXCEPT !.pc = "query", !.path = g]
      /\ seen'[g] = seen[g] /\ copier'[g] = copier[g] /\ pipe'[g] = pipe[g]
  BY DEF HttpInv, PathParameter, SetReq, bodyVars, Touches
<1>2. CallerOK(g, req[g], seen[g], copier[g], pipe[g]) /\ req[g].pc = "path"
  BY DEF HttpInv, PathParameter
<1>3. req'[g] \in Request
  BY <1>1, <1>2 DEF CallerOK, Request
<1>4. CallerOK(g, req'[g], seen'[g], copier'[g], pipe'[g])
  BY <1>1, <1>2, <1>3 DEF CallerOK, Carries, Saw, Tells, Uploaded, Request
<1> QED
  BY <1>1, <1>4, CallerStep

(* The caller's own query value, added to its copy of the defaults.        *)
LEMMA AddQueryValueStep ==
    ASSUME HttpInv, NEW g \in Callers, AddQueryValue(g)
    PROVE  HttpInv'
<1>1. /\ Touches(g)
      /\ req'[g] = [req[g] EXCEPT !.pc = "before", !.query["start"] = Append(@, g)]
      /\ seen'[g] = seen[g] /\ copier'[g] = copier[g] /\ pipe'[g] = pipe[g]
  BY DEF HttpInv, AddQueryValue, SetReq, bodyVars, Touches
<1>2. CallerOK(g, req[g], seen[g], copier[g], pipe[g]) /\ req[g].pc = "query"
  BY DEF HttpInv, AddQueryValue
<1>3. [req[g].query EXCEPT !["start"] = Append(@, g)] = OwnQuery(g)
  <2>1. req[g].query = SessionQuery
    BY <1>2 DEF CallerOK, Carries
  <2>2. Append(<<>>, g) = <<g>>
    OBVIOUS
  <2> QED
    BY <2>1, <2>2 DEF SessionQuery, OwnQuery, QueryKeys
<1>4. req'[g] = [req[g] EXCEPT !.pc = "before", !.query = OwnQuery(g)]
  BY <1>1, <1>2, <1>3 DEF CallerOK, Request
<1>5. req'[g] \in Request
  <2>1. OwnQuery(g) \in Queries
    BY DEF Queries
  <2> QED
    BY <1>2, <1>4, <2>1 DEF CallerOK, Request
<1>6. CallerOK(g, req'[g], seen'[g], copier'[g], pipe'[g])
  BY <1>1, <1>2, <1>4, <1>5 DEF CallerOK, Carries, Saw, Tells, Uploaded, Request
<1> QED
  BY <1>1, <1>6, CallerStep

(* Without a token the request ends here.                                  *)
LEMMA BeforeStep ==
    ASSUME HttpInv, NEW g \in Callers, Before(g)
    PROVE  HttpInv'
<1>1. /\ Touches(g)
      /\ \/ req'[g] = [req[g] EXCEPT !.pc = "done", !.err = "ErrAuthenticationRequired"]
         \/ /\ req[g].handler # NoToken
            /\ req'[g] = [req[g] EXCEPT !.pc = "body", !.auth = req[g].handler]
      /\ seen'[g] = seen[g] /\ copier'[g] = copier[g] /\ pipe'[g] = pipe[g]
  BY DEF HttpInv, Before, SetReq, Return, bodyVars, Touches
<1>2. CallerOK(g, req[g], seen[g], copier[g], pipe[g]) /\ req[g].pc = "before"
  BY DEF HttpInv, Before
<1>3. req'[g] \in Request
  BY <1>1, <1>2 DEF CallerOK, Carries, Request, BuildErrors
<1>4. CallerOK(g, req'[g], seen'[g], copier'[g], pipe'[g])
  BY <1>1, <1>2, <1>3, NoErrorAssumption
     DEF CallerOK, Carries, Saw, Tells, Uploaded, Request, BuildErrors
<1> QED
  BY <1>1, <1>4, CallerStep

(* The body is encoded, or a copier for it started with a new pipe.        *)
LEMMA BodyStep ==
    ASSUME HttpInv, NEW g \in Callers, Body(g)
    PROVE  HttpInv'
<1>1. CallerOK(g, req[g], seen[g], copier[g], pipe[g]) /\ req[g].pc = "body"
  BY DEF HttpInv, Body
<1>2. CASE UNCHANGED bodyVars
  <2>1. /\ Touches(g)
        /\ \/ req'[g] = [req[g] EXCEPT !.pc = "done", !.err = "encoding"]
           \/ req'[g] = [req[g] EXCEPT !.pc = "request"]
        /\ seen'[g] = seen[g] /\ copier'[g] = copier[g] /\ pipe'[g] = pipe[g]
    BY <1>2 DEF HttpInv, Body, SetReq, Return, bodyVars, Touches
  <2>2. req'[g] \in Request
    BY <1>1, <2>1 DEF CallerOK, Request, BuildErrors
  <2>3. CallerOK(g, req'[g], seen'[g], copier'[g], pipe'[g])
    BY <1>1, <2>1, <2>2, NoErrorAssumption
       DEF CallerOK, Carries, Saw, Tells, Uploaded, Request, BuildErrors
  <2> QED
    BY <2>1, <2>3, CallerStep
<1>3. CASE SetReq(g, [req[g] EXCEPT !.pc = "request"]) /\ StartCopier(g)
  <2>1. PICK n \in {0, Chunks} :
            copier' = [copier EXCEPT ![g] = [pc |-> "header", size |-> n, left |-> n]]
    BY <1>3 DEF StartCopier
  <2>2. /\ Touches(g)
        /\ req'[g] = [req[g] EXCEPT !.pc = "request"]
        /\ copier'[g] = [pc |-> "header", size |-> n, left |-> n]
        /\ seen'[g] = seen[g] /\ pipe'[g] = NewPipe
    BY <1>3, <2>1 DEF HttpInv, Body, SetReq, StartCopier, Touches
  <2>3. req'[g] \in Request /\ copier'[g] \in Copier /\ pipe'[g] \in Pipe
    BY <1>1, <2>2, ChunksAssumption DEF CallerOK, Request, Copier, Pipe, NewPipe
  <2>4. CallerOK(g, req'[g], seen'[g], copier'[g], pipe'[g])
    BY <1>1, <2>2, <2>3
       DEF CallerOK, Carries, Saw, Tells, CopiedSoFar, Uploaded, Request, NewPipe, Copier
  <2> QED
    BY <2>2, <2>4, CallerStep
<1> QED
  BY <1>2, <1>3 DEF Body

(* The transport begins to read, unless the request cannot be made.        *)
LEMMA HTTPRequestStep ==
    ASSUME HttpInv, NEW g \in Callers, HTTPRequest(g)
    PROVE  HttpInv'
<1>1. CallerOK(g, req[g], seen[g], copier[g], pipe[g]) /\ req[g].pc = "request"
  BY DEF HttpInv, HTTPRequest
<1>2. /\ Touches(g)
      /\ \/ /\ req'[g] = [req[g] EXCEPT !.pc = "do"]
            /\ pipe'[g] = [pipe[g] EXCEPT !.reader = "reading"]
         \/ req'[g] = [req[g] EXCEPT !.pc = "done", !.err = "request"] /\ pipe'[g] = pipe[g]
      /\ seen'[g] = seen[g] /\ copier'[g] = copier[g]
  BY DEF HttpInv, HTTPRequest, SetReq, Return, Touches
<1>3. req'[g] \in Request /\ pipe'[g] \in Pipe
  BY <1>1, <1>2 DEF CallerOK, Request, Pipe, BuildErrors
<1>4. Carries(g, req'[g]) /\ Saw(g, req'[g], seen'[g]) /\ Tells(req'[g], seen'[g])
  BY <1>1, <1>2, NoErrorAssumption DEF CallerOK, Carries, Saw, Tells, Request, BuildErrors
<1>5. CopiedSoFar(copier'[g], pipe'[g]) /\ Uploaded(req'[g], seen'[g], copier'[g], pipe'[g])
  <2>1. pipe'[g].writer = pipe[g].writer /\ pipe'[g].read = pipe[g].read /\ pipe'[g].reader # "closed"
    BY <1>1, <1>2 DEF CallerOK, Uploaded, Pipe
  <2>2. pipe[g].reader # "closed" /\ req'[g].body = req[g].body
    BY <1>1, <1>2 DEF CallerOK, Uploaded, Request
  <2> QED
    BY <1>1, <1>2, <2>1, <2>2 DEF CallerOK, CopiedSoFar, Uploaded
<1> QED
  BY <1>1, <1>2, <1>3, <1>4, <1>5, CallerStep DEF CallerOK

(* The end of a request that was on its way, with error e.                 *)
LEMMA DoReturns ==
    ASSUME HttpInv, NEW g \in Callers, NEW e \in SentErrors, Return(g, e), CloseReader(g),
           UNCHANGED <<client, seen, copier>>, req[g].pc = "do",
           e = NoError => seen[g].did = "acted", e = "models.Error" => seen[g].did = "refused"
    PROVE  HttpInv'
<1>1. /\ Touches(g)
      /\ req'[g] = [req[g] EXCEPT !.pc = "done", !.err = e]
      /\ pipe'[g] = [pipe[g] EXCEPT !.reader = "closed"]
      /\ seen'[g] = seen[g] /\ copier'[g] = copier[g]
  BY DEF HttpInv, SetReq, Return, CloseReader, Touches
<1>2. CallerOK(g, req[g], seen[g], copier[g], pipe[g]) /\ e \notin BuildErrors
  BY NoErrorAssumption DEF HttpInv, SentErrors, BuildErrors
<1>3. req'[g] \in Request /\ pipe'[g] \in Pipe
  BY <1>1, <1>2 DEF CallerOK, Request, Pipe
<1>4. CallerOK(g, req'[g], seen'[g], copier'[g], pipe'[g])
  BY <1>1, <1>2, <1>3 DEF CallerOK, Carries, Saw, Tells, CopiedSoFar, Uploaded, Request, Pipe
<1> QED
  BY <1>1, <1>4, CallerStep

(* A failure of the transport leaves open what the service did.            *)
LEMMA DoFailsStep ==
    ASSUME HttpInv, NEW g \in Callers, DoFails(g)
    PROVE  HttpInv'
<1>1. "transport" \in SentErrors /\ "transport" # NoError
  BY NoErrorAssumption DEF SentErrors
<1> QED
  BY <1>1, DoReturns DEF DoFails

(* What the end of Invoke makes of the answers to a request.               *)
LEMMA InvokeTells ==
    ASSUME NEW did \in {"acted", "refused"}, NEW a \in Answers(did), NEW success \in BOOLEAN
    PROVE  /\ Invoke(a[1], a[2], success) \in SentErrors
           /\ Invoke(a[1], a[2], success) = NoError => did = "acted"
           /\ Invoke(a[1], a[2], success) = "models.Error" => did = "refused"
<1>1. \/ did = "acted" /\ a[1] \in {200, 204}
      \/ did = "refused" /\ a[1] \in {300, 404}
      \/ a[1] = 504 /\ ~a[2]
  <2>1. CASE a = <<504, FALSE>>
    <3>1. a[1] = 504
      BY <2>1
    <3>2. ~a[2]
      BY <2>1, Zenon
    <3> QED
      BY <3>1, <3>2
  <2>2. CASE a \in (IF did = "acted" THEN {200, 204} ELSE {300, 404}) \X BOOLEAN
    <3>1. a[1] \in (IF did = "acted" THEN {200, 204} ELSE {300, 404})
      BY <2>2
    <3> QED
      BY <3>1
  <2> QED
    BY <2>1, <2>2 DEF Answers
<1> QED
  BY <1>1, NoErrorAssumption DEF Invoke, SentErrors

(* The answer fits what the service did.                                   *)
LEMMA AnswerStep ==
    ASSUME HttpInv, NEW g \in Callers, Answer(g)
    PROVE  HttpInv'
<1>1. PICK a \in Answers(seen[g].did) : Return(g, Invoke(a[1], a[2], req[g].success))
  BY DEF Answer
<1>2. seen[g].did \in {"acted", "refused"} /\ req[g].success \in BOOLEAN
  BY DEF HttpInv, Answer, Sight, Request
<1> QED
  BY <1>1, <1>2, InvokeTells, DoReturns DEF Answer

(* The service sees what the request carries.                              *)
LEMMA ReceiveStep ==
    ASSUME HttpInv, NEW g \in Callers, NEW did \in {"acted", "refused"}, Receive(g, did),
           did = "acted" => WasSent(g)
    PROVE  HttpInv'
<1>1. /\ Touches(g)
      /\ seen'[g] = [did |-> did, path |-> req[g].path, query |-> req[g].query, auth |-> req[g].auth]
      /\ req'[g] = req[g] /\ copier'[g] = copier[g] /\ pipe'[g] = pipe[g]
  BY DEF HttpInv, Receive, bodyVars, Touches
<1>2. CallerOK(g, req[g], seen[g], copier[g], pipe[g]) /\ req[g].pc = "do"
  BY DEF HttpInv, Receive
<1>3. seen'[g] \in Sight
  BY <1>1, <1>2 DEF CallerOK, Request, Sight
<1>4. CallerOK(g, req'[g], seen'[g], copier'[g], pipe'[g])
  BY <1>1, <1>2, <1>3 DEF CallerOK, Carries, Saw, Tells, CopiedSoFar, Uploaded, WasSent
<1> QED
  BY <1>1, <1>4, CallerStep

--------------------------------------------------------------------------------
(* The copier's steps.                                                     *)
LEMMA CreateFormFileStep ==
    ASSUME HttpInv, NEW g \in Callers, CreateFormFile(g), UNCHANGED <<client, req, seen>>
    PROVE  HttpInv'
<1>1. CallerOK(g, req[g], seen[g], copier[g], pipe[g]) /\ copier[g].pc = "header"
  BY DEF HttpInv, CreateFormFile
<1>2. /\ Touches(g)
      /\ \/ /\ pipe'[g] = [pipe[g] EXCEPT !.read = @ \cup {Header}]
            /\ copier'[g] = [copier[g] EXCEPT !.pc = "copy"]
         \/ /\ pipe'[g] = [pipe[g] EXCEPT !.writer = "error"]
            /\ \E x \in {"ended", "panicked"} : copier'[g] = [copier[g] EXCEPT !.pc = x]
      /\ req'[g] = req[g] /\ seen'[g] = seen[g]
  BY <1>1 DEF HttpInv, CreateFormFile, IsRead, CopierTo, CloseWriter, CallerOK, CopiedSoFar, Touches
<1>3. copier'[g] \in Copier /\ pipe'[g] \in Pipe
  BY <1>1, <1>2 DEF CallerOK, Copier, Pipe, Header
<1>4. CopiedSoFar(copier'[g], pipe'[g]) /\ Uploaded(req[g], seen[g], copier'[g], pipe'[g])
  BY <1>1, <1>2 DEF CallerOK, CopiedSoFar, Uploaded, Copier, Pipe
<1> QED
  BY <1>1, <1>2, <1>3, <1>4, CallerStep DEF CallerOK

LEMMA CopyStep ==
    ASSUME HttpInv, NEW g \in Callers, Copy(g), UNCHANGED <<client, req, seen>>
    PROVE  HttpInv'
<1>1. CallerOK(g, req[g], seen[g], copier[g], pipe[g]) /\ copier[g].pc = "copy"
  BY DEF HttpInv, Copy
<1>2. /\ Touches(g)
      /\ \/ /\ copier[g].left > 0
            /\ pipe'[g] = [pipe[g] EXCEPT !.read = @ \cup {copier[g].left}]
            /\ copier'[g] = [copier[g] EXCEPT !.left = @ - 1]
         \/ /\ copier[g].left = 0
            /\ copier'[g] = [copier[g] EXCEPT !.pc = "trailer"]
            /\ pipe'[g] = pipe[g]
         \/ /\ copier'[g] = [copier[g] EXCEPT !.pc = "trailer"]
            /\ pipe'[g] = [pipe[g] EXCEPT !.writer = "error"]
      /\ req'[g] = req[g] /\ seen'[g] = seen[g]
  BY <1>1 DEF HttpInv, Copy, IsRead, CopierTo, CloseWriter, CallerOK, CopiedSoFar, Touches
<1>3. copier'[g] \in Copier /\ pipe'[g] \in Pipe
  BY <1>1, <1>2 DEF CallerOK, Copier, Pipe, Header
<1>4. CopiedSoFar(copier'[g], pipe'[g]) /\ Uploaded(req[g], seen[g], copier'[g], pipe'[g])
  BY <1>1, <1>2 DEF CallerOK, CopiedSoFar, Uploaded, Copier, Pipe, Header
<1> QED
  BY <1>1, <1>2, <1>3, <1>4, CallerStep DEF CallerOK

LEMMA CloseStep ==
    ASSUME HttpInv, NEW g \in Callers, Close(g) \/ ClosePipe(g), UNCHANGED <<client, req, seen>>
    PROVE  HttpInv'
<1>1. CallerOK(g, req[g], seen[g], copier[g], pipe[g])
  BY DEF HttpInv
<1>2. CASE Close(g)
  <2>1. /\ Touches(g)
        /\ copier[g].pc = "trailer"
        /\ \/ pipe'[g] = [pipe[g] EXCEPT !.read = @ \cup {Trailer}] /\ pipe[g].writer = "open"
           \/ pipe'[g] = pipe[g] /\ (pipe[g].writer # "open" \/ pipe[g].reader = "closed")
        /\ copier'[g] = [copier[g] EXCEPT !.pc = "eof"]
        /\ req'[g] = req[g] /\ seen'[g] = seen[g]
    BY <1>1, <1>2 DEF HttpInv, Close, IsRead, CopierTo, Touches
  <2>2. copier'[g] \in Copier /\ pipe'[g] \in Pipe
    BY <1>1, <2>1, ChunksAssumption DEF CallerOK, Copier, Pipe, Trailer
  <2>3. CopiedSoFar(copier'[g], pipe'[g]) /\ Uploaded(req[g], seen[g], copier'[g], pipe'[g])
    BY <1>1, <2>1 DEF CallerOK, CopiedSoFar, Uploaded, Copier, Pipe, WholeBody
  <2> QED
    BY <1>1, <2>1, <2>2, <2>3, CallerStep DEF CallerOK
<1>3. CASE ClosePipe(g)
  <2>1. /\ Touches(g)
        /\ copier[g].pc = "eof"
        /\ pipe'[g] = [pipe[g] EXCEPT !.writer = IF @ = "open" THEN "eof" ELSE @]
        /\ copier'[g] = [copier[g] EXCEPT !.pc = "ended"]
        /\ req'[g] = req[g] /\ seen'[g] = seen[g]
    BY <1>1, <1>3 DEF HttpInv, ClosePipe, CloseWriter, CopierTo, Touches
  <2>2. copier'[g] \in Copier /\ pipe'[g] \in Pipe
    BY <1>1, <2>1 DEF CallerOK, Copier, Pipe
  <2>3. CopiedSoFar(copier'[g], pipe'[g]) /\ Uploaded(req[g], seen[g], copier'[g], pipe'[g])
    BY <1>1, <2>1 DEF CallerOK, CopiedSoFar, Uploaded, Copier, Pipe, WholeBody
  <2> QED
    BY <1>1, <2>1, <2>2, <2>3, CallerStep DEF CallerOK
<1> QED
  BY <1>2, <1>3

--------------------------------------------------------------------------------
(* The invariant is inductive: every step is one of the above.             *)
LEMMA HttpStep == HttpInv /\ [Next]_httpVars => HttpInv'
<1> SUFFICES ASSUME HttpInv, [Next]_httpVars PROVE HttpInv'
  OBVIOUS
<1>1. ASSUME NEW t \in Tokens, WithAuthToken(t) PROVE HttpInv'
  BY <1>1, WithAuthTokenStep
<1>2. ASSUME NEW g \in Callers, RequestStep(g) PROVE HttpInv'
  <2>1. ASSUME Act(g) \/ Refuse(g) PROVE HttpInv'
    BY <2>1, ReceiveStep DEF Act, Refuse
  <2> QED
    BY <1>2, <2>1, NewRequestStep, PathParameterStep, AddQueryValueStep, BeforeStep, BodyStep,
       HTTPRequestStep, DoFailsStep, AnswerStep DEF RequestStep
<1>3. ASSUME NEW g \in Callers, CopierStep(g), UNCHANGED <<client, req, seen>> PROVE HttpInv'
  BY <1>3, CreateFormFileStep, CopyStep, CloseStep DEF CopierStep
<1>4. CASE UNCHANGED httpVars
  BY <1>4 DEF httpVars, bodyVars, HttpInv, ClientOK
<1> QED
  BY <1>1, <1>2, <1>3, <1>4 DEF Next

(* HttpInv holds of every request, copier and pipe in every reachable      *)
(* state of the client.                                                    *)
THEOREM HttpInvariant == Spec => []HttpInv
<1> QED
  BY HttpInit, HttpStep, PTL DEF Spec

(* The service sees of a request its own caller's values, the session's    *)
(* defaults and token, whatever other goroutines do on the shared client.  *)
THEOREM RequestsDoNotMixTheorem == Spec => []RequestsDoNotMix
<1>1. HttpInv => RequestsDoNotMix
  BY DEF HttpInv, CallerOK, Saw, RequestsDoNotMix, OwnQuery
<1> QED
  BY <1>1, HttpInvariant, PTL

(* What Invoke's error says of what the service did is true.               *)
THEOREM ErrorTellsTheorem == Spec => []ErrorTellsWhatHappened
<1>1. HttpInv => ErrorTellsWhatHappened
  BY NoErrorAssumption DEF HttpInv, CallerOK, Tells, ErrorTellsWhatHappened, BuildErrors, SentErrors
<1> QED
  BY <1>1, HttpInvariant, PTL

(* The service acts on a file only when all of its parts were read, for    *)
(* files of every number of chunks.                                        *)
THEOREM UploadIsWholeTheorem == Spec => []UploadIsWhole
<1>1. HttpInv => UploadIsWhole
  BY DEF HttpInv, CallerOK, Uploaded, WholeBody, UploadIsWhole
<1> QED
  BY <1>1, HttpInvariant, PTL
================================================================================
