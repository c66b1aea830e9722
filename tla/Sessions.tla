-------------------------------- MODULE Sessions --------------------------------
(***************************************************************************)
(* Opening sessions, by several goroutines at once: GetProviderSession and *)
(* OpenSession of the plain and of the dual provider                       *)
(* (pkg/ibmcloudprovider/volume_provider.go, file/utils/init_provider.go,  *)
(* file/provider/provider.go, iks/provider/provider.go,                    *)
(* common/vpcclient/riaas/riaas.go).                                       *)
(*                                                                         *)
(* A provider is shared by all goroutines and not locked: the client       *)
(* provider and the request id are written to it and read back from it.    *)
(***************************************************************************)
EXTENDS Providers

CONSTANTS
    Openers,    \* goroutines
    EmptyHalf,  \* stands for the IKS half of a session that has only an error
    NilHalf     \* and for one that is a nil pointer

(* A client of a half of a session; nil is none.                           *)
Clients ==
    [url : {None, G2EndpointURL, IKSPrivateURL}, client : {None, "Default", "IKS"}, token : Openers,
     ctx : [ptr : RequestIDs \cup {None}, len : RequestIDs \cup {None}]]

ASSUME NilAssumption ==
    None \notin Clients \cup {EmptyHalf, NilHalf, "vpc", "dual", "Default", "IKS", "ok", "ErrorUnclassified"}

VARIABLE open       \* each goroutine's call

sessionVars == <<providerVars, open>>

(* req: the request id in the context, or None; on: the provider it works  *)
(* on; cred: the token it was given; copy: the client under construction;  *)
(* vpc, iks: the two halves of the session.  History: crossed, another     *)
(* goroutine wrote the same provider's request id while this one needed it.*)
IdleOpen == [pc |-> "idle", req |-> None, on |-> None, cred |-> None, copy |-> None,
             vpc |-> None, iks |-> None, res |-> None, crossed |-> FALSE]

SessionsInit == open = [g \in Openers |-> IdleOpen]

Set(g, r) == open' = [open EXCEPT ![g] = r]

(* Mutant: both halves are opened on one provider.                         *)
OneProviderForBoth(kind, half) == IF kind = "vpc" THEN "vpc" ELSE "dualVpc"

(* The provider that opens each half of a session.                         *)
ProviderOf(kind, half) ==
    IF kind = "vpc" THEN "vpc"
    ELSE IF half = "vpc" THEN "dualVpc"
    ELSE "dualIks"

OnIks(r) == r.vpc # None

--------------------------------------------------------------------------------
(* GetProviderSession: Registry.Get, then GenerateContextCredentials,      *)
(* which knows the two names; the dual provider gets its tokens itself.    *)
GetProviderSession(g, q) ==
    /\ boot.pc = "ready"
    /\ open[g].pc \in {"idle", "done"}
    /\ LET kind == IF boot.name = None THEN None ELSE registry[boot.name]
           r    == [IdleOpen EXCEPT !.req = q]
       IN  Set(g, IF kind = None
                  THEN [r EXCEPT !.pc = "done", !.res = "ErrorUnclassified"]
                  ELSE [r EXCEPT !.pc = "token", !.on = ProviderOf(kind, "vpc")])
    /\ UNCHANGED providerVars

(* What becomes of a session whose half could not be opened: without the   *)
(* VPC half there is none, without the IKS half there is one all the same. *)
HalfFails(r, code, half) ==
    IF OnIks(r) THEN [r EXCEPT !.pc = "done", !.res = "ok", !.iks = half]
    ELSE [r EXCEPT !.pc = "done", !.res = code]

TokenErrors == {"EndpointNotReachable", "Timeout", "other"}

(* The code of a failed token request: the dual provider renames two of    *)
(* them, under codes the catalogue of messages does not list.              *)
TokenErrorCode(r, e) ==
    IF r.on = "dualVpc" /\ e # "other" THEN GetUserError(e) ELSE e

(* ForIAMAccessToken: a token for this call, an empty one or an error.     *)
ForIAMAccessToken(g) ==
    /\ open[g].pc = "token"
    /\ \/ \E t \in {g, ""} : Set(g, [open[g] EXCEPT !.pc = "check", !.cred = t])
       \/ \E e \in TokenErrors :
             Set(g, HalfFails(open[g], TokenErrorCode(open[g], e), EmptyHalf))
    /\ UNCHANGED providerVars

(* OpenSession of a VPC provider: no session without a credential; the     *)
(* default client provider unless there is one already.                    *)
OpenSession(g) ==
    /\ open[g].pc = "check"
    /\ \/ /\ open[g].cred = ""
          /\ Set(g, HalfFails(open[g], "ErrorInsufficientAuthentication", NilHalf))
          /\ UNCHANGED prov
       \/ /\ open[g].cred # ""
          /\ Set(g, [open[g] EXCEPT !.pc = IF open[g].req = None THEN "readPtr" ELSE "writePtr"])
          /\ prov' = [prov EXCEPT ![open[g].on].client = IF @ = None THEN "Default" ELSE @]
    /\ UNCHANGED <<conf, boot, registry>>

(* The request id of the context is written to the shared configuration,   *)
(* word by word.                                                           *)
Window == {"writeLen", "readPtr", "readLen"}

Meets(g, h) == h # g /\ open[h].on = open[g].on /\ open[h].pc \in Window

Crossed(g, r) ==
    [h \in Openers |->
        CASE h = g       -> r
          [] Meets(g, h) -> [open[h] EXCEPT !.crossed = TRUE]
          [] OTHER       -> open[h]]

(* Mutant: an id that is already there is kept.                            *)
WriteOnce(g) ==
    /\ open[g].pc = "writePtr"
    /\ open' = Crossed(g, [open[g] EXCEPT !.pc = "writeLen"])
    /\ prov' = [prov EXCEPT ![open[g].on].ctx.ptr = IF @ = None THEN open[g].req ELSE @]
    /\ UNCHANGED <<conf, boot, registry>>

WritePtr(g) ==
    /\ open[g].pc = "writePtr"
    /\ open' = Crossed(g, [open[g] EXCEPT !.pc = "writeLen"])
    /\ prov' = [prov EXCEPT ![open[g].on].ctx.ptr = open[g].req]
    /\ UNCHANGED <<conf, boot, registry>>

WriteLen(g) ==
    /\ open[g].pc = "writeLen"
    /\ open' = Crossed(g, [open[g] EXCEPT !.pc = "readPtr"])
    /\ prov' = [prov EXCEPT ![open[g].on].ctx.len = open[g].req]
    /\ UNCHANGED <<conf, boot, registry>>

(* ClientProvider.New(APIConfig): the configuration is copied.  A goroutine*)
(* without a request id of its own reads what is there.                    *)
ReadPtr(g) ==
    /\ open[g].pc = "readPtr"
    /\ LET p == prov[open[g].on]
       IN  Set(g, [open[g] EXCEPT !.pc = "readLen",
                      !.copy = [url |-> p.url, client |-> p.client, ptr |-> p.ctx.ptr]])
    /\ UNCHANGED providerVars

(* The client is made and logged in with the token of this call.           *)
Client(r, p) ==
    [url |-> r.copy.url, client |-> r.copy.client, token |-> r.cred,
     ctx |-> [ptr |-> r.copy.ptr, len |-> p.ctx.len]]

(* The VPC half of the dual session is followed by the IKS half, for which *)
(* the client provider of IKS is set first; otherwise the session is done. *)
Login(g) ==
    /\ open[g].pc = "readLen"
    /\ LET c == Client(open[g], prov[open[g].on])
           r == [open[g] EXCEPT !.copy = None]
       IN  IF OnIks(r) THEN Set(g, [r EXCEPT !.pc = "done", !.res = "ok", !.iks = c])
           ELSE IF r.on = "vpc" THEN Set(g, [r EXCEPT !.pc = "done", !.res = "ok", !.vpc = c])
           ELSE Set(g, [r EXCEPT !.pc = "setIks", !.vpc = c])
    /\ UNCHANGED providerVars

SetIksClient(g) ==
    /\ open[g].pc = "setIks"
    /\ LET p == ProviderOf("dual", "iks")
       IN  /\ Set(g, [open[g] EXCEPT !.pc = "token", !.on = p, !.cred = None])
           /\ prov' = [prov EXCEPT ![p].client = "IKS"]
    /\ UNCHANGED <<conf, boot, registry>>

--------------------------------------------------------------------------------
OpenStep(g) ==
    \/ ForIAMAccessToken(g)
    \/ OpenSession(g)
    \/ WritePtr(g)
    \/ WriteLen(g)
    \/ ReadPtr(g)
    \/ Login(g)
    \/ SetIksClient(g)

Init == ProvidersInit /\ SessionsInit

Next ==
    \/ BootStep /\ UNCHANGED open
    \/ \E g \in Openers, q \in RequestIDs \cup {None} : GetProviderSession(g, q)
    \/ \E g \in Openers : OpenStep(g)

Spec == Init /\ [][Next]_sessionVars

--------------------------------------------------------------------------------
(* A session has both its halves right, however calls interleave: the VPC  *)
(* half talks to the VPC service with the file share client, the IKS half  *)
(* of a dual session to IKS with the IKS client, each with a token issued  *)
(* for this very call.  Only the IKS half may be missing.                  *)
SessionIsWhole ==
    \A g \in Openers : open[g].res = "ok" =>
        LET v == open[g].vpc
            k == open[g].iks
        IN  /\ v # None /\ v.url = G2EndpointURL /\ v.client = "Default" /\ v.token = g
            /\ (k = None) = (boot.name = VPCVolumeType)
            /\ k \notin {None, EmptyHalf, NilHalf} =>
                  k.url = IKSPrivateURL /\ k.client = "IKS" /\ k.token = g

(* Both halves of a session opened for a request send that request's id,   *)
(* whatever ids, whole or torn, earlier calls left in the shared           *)
(* configuration, unless another goroutine wrote the same configuration    *)
(* while this one was between its write and its copy.  (A session opened   *)
(* without a request sends whatever is there.)                             *)
OwnRequestID ==
    \A g \in Openers : open[g].req # None /\ ~open[g].crossed =>
        \A c \in {open[g].vpc, open[g].iks} \ {None, EmptyHalf, NilHalf} :
            c.ctx = StringOf(open[g].req)

(* A start-up that succeeds leaves a provider under the name it chose and  *)
(* of the kind that name stands for: no later call fails for want of it.   *)
ReadyProviderIsRegistered ==
    /\ boot.pc = "ready" => boot.name # None /\ registry[boot.name] =
           (IF boot.name = VPCVolumeType THEN "vpc" ELSE "dual")
    /\ \A g \in Openers : open[g].res # "ErrorUnclassified"
================================================================================
