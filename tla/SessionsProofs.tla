---------------------------- MODULE SessionsProofs ----------------------------
(***************************************************************************)
(* What Providers and Sessions promise, proved for any number of           *)
(* goroutines and request ids and for every configuration.                 *)
(*                                                                         *)
(* The inductive invariant has three parts: what the start-up has made so  *)
(* far (StartOK), how far the call of each goroutine is (OpenerOK), and    *)
(* what a call that nobody crossed finds in the shared configuration       *)
(* (IdOK).  The last two speak of one goroutine and of the provider it     *)
(* works on, which the others write too.                                   *)
(***************************************************************************)
EXTENDS Sessions, TLAPS

IDs       == RequestIDs \cup {None}
BootSteps == {"config", "cluster", "vpc", "dual", "name", "ready", "failed", "panicked"}
Provider  == [url : {None, G2EndpointURL, IKSPrivateURL}, client : {None, "Default", "IKS"},
              ctx : [ptr : IDs, len : IDs]]
Copies    == [url : {None, G2EndpointURL, IKSPrivateURL}, client : {None, "Default", "IKS"}, ptr : IDs]
Codes     == TokenErrors \cup {"", "ErrorInsufficientAuthentication", "ok", None}

Opening ==
    [pc : {"idle", "token", "check", "writePtr", "writeLen", "readPtr", "readLen", "setIks", "done"},
     req : IDs, on : Objects \cup {None}, cred : Openers \cup {"", None}, copy : Copies \cup {None},
     vpc : Clients \cup {None}, iks : Clients \cup {None, EmptyHalf, NilHalf}, res : Codes,
     crossed : BOOLEAN]

(* The base URL and the client provider each provider ends up with.        *)
UrlOf(p)    == IF p = "dualIks" THEN IKSPrivateURL ELSE G2EndpointURL
ClientOf(p) == IF p = "dualIks" THEN "IKS" ELSE "Default"

Plain == boot.name = VPCVolumeType

StartOK ==
    /\ conf \in [vpc : BOOLEAN, iks : {"nil", "off", "on"}, env : BOOLEAN]
    /\ boot \in [pc : BootSteps, name : {None, VPCVolumeType, IKSFileProviderName}]
    /\ registry \in [{VPCVolumeType, IKSFileProviderName} -> Kinds]
    /\ prov \in [Objects -> Provider]
    /\ boot.pc \in {"dual", "name", "ready"} /\ conf.vpc =>
          registry[VPCVolumeType] = "vpc" /\ prov["vpc"].url = G2EndpointURL
    /\ boot.pc \in {"name", "ready"} /\ conf.iks = "on" =>
          /\ registry[IKSFileProviderName] = "dual"
          /\ prov["dualVpc"].url = G2EndpointURL /\ prov["dualIks"].url = IKSPrivateURL
    /\ boot.pc = "name" => conf.vpc \/ conf.iks = "on"
    /\ boot.pc = "ready" => \/ boot.name = IKSFileProviderName /\ conf.iks = "on"
                            \/ boot.name = VPCVolumeType /\ conf.vpc
    /\ \A p \in Objects : prov[p].client \in {None, ClientOf(p)}

(* The provider that opens the half of the session that is missing.        *)
NextOn(r) == IF Plain THEN "vpc" ELSE IF r.vpc = None THEN "dualVpc" ELSE "dualIks"

Connecting == {"writePtr", "writeLen", "readPtr", "readLen"}

RightHalf(g, c, p) == c.url = UrlOf(p) /\ c.client = ClientOf(p) /\ c.token = g

OpenerOK(g, r, P) ==
    /\ r \in Opening
    /\ boot.pc # "ready" => r.pc = "idle"
    /\ r.pc = "idle" => r.vpc = None
    /\ r.pc \in Connecting \cup {"token", "check"} => r.on = NextOn(r)
    /\ r.pc \in Connecting => r.cred = g /\ P[r.on].client = ClientOf(r.on)
    /\ r.pc = "check" => r.cred \in {g, ""}
    /\ r.on = "dualIks" /\ r.pc # "idle" => P["dualIks"].client = "IKS"
    /\ r.pc = "readLen" => /\ r.copy \in Copies
                           /\ r.copy.url = UrlOf(r.on) /\ r.copy.client = ClientOf(r.on)
    /\ r.pc # "done" => r.iks = None /\ r.res = None /\ (Plain => r.vpc = None)
    /\ r.pc = "setIks" => r.vpc # None /\ ~Plain
    /\ r.vpc # None => RightHalf(g, r.vpc, "dualVpc")
    /\ r.res = "ok" => r.vpc # None /\ (r.iks = None <=> Plain)
    /\ r.iks \notin {None, EmptyHalf, NilHalf} => RightHalf(g, r.iks, "dualIks")

(* Between its write and its copy a call finds its own request id, unless  *)
(* somebody crossed it.                                                    *)
IdOK(r, P) ==
    r.req # None /\ ~r.crossed =>
        /\ r.pc = "writeLen" => P[r.on].ctx.ptr = r.req
        /\ r.pc = "readPtr"  => P[r.on].ctx.ptr = r.req /\ P[r.on].ctx.len = r.req
        /\ r.pc = "readLen"  => r.copy.ptr = r.req /\ P[r.on].ctx.len = r.req
        /\ r.vpc # None => r.vpc.ctx = StringOf(r.req)
        /\ r.iks \notin {None, EmptyHalf, NilHalf} => r.iks.ctx = StringOf(r.req)

SessInv ==
    /\ StartOK
    /\ open \in [Openers -> Opening]
    /\ \A g \in Openers : OpenerOK(g, open[g], prov) /\ IdOK(open[g], prov)
--------------------------------------------------------------------------------
(* Initially nothing is made and nobody calls.                            *)
LEMMA StartInit == ProvidersInit => StartOK
<1> SUFFICES ASSUME ProvidersInit PROVE StartOK
  OBVIOUS
<1>1. NotMade \in Provider /\ NotMade.client = None
  BY DEF NotMade, Provider, StringOf, IDs
<1>2. boot.pc = "config" /\ boot \in [pc : BootSteps, name : {None, VPCVolumeType, IKSFileProviderName}]
  BY DEF ProvidersInit, BootSteps
<1>3. registry \in [{VPCVolumeType, IKSFileProviderName} -> Kinds]
  BY DEF ProvidersInit, Kinds
<1>4. prov \in [Objects -> Provider] /\ \A p \in Objects : prov[p].client = None
  BY <1>1 DEF ProvidersInit
<1> QED
  BY <1>2, <1>3, <1>4 DEF StartOK, ProvidersInit

LEMMA SessInit == Init => SessInv
<1> SUFFICES ASSUME Init PROVE SessInv
  OBVIOUS
<1>1. StartOK
  BY StartInit DEF Init
<1>2. boot.pc = "config"
  BY DEF Init, ProvidersInit
<1>3. IdleOpen \in Opening
  BY DEF IdleOpen, Opening, IDs, Codes
<1>4. ASSUME NEW g \in Openers PROVE OpenerOK(g, IdleOpen, prov) /\ IdOK(IdleOpen, prov)
  BY <1>2, <1>3, NilAssumption DEF OpenerOK, IdOK, IdleOpen, Connecting
<1> QED
  BY <1>1, <1>3, <1>4 DEF Init, SessionsInit, SessInv

--------------------------------------------------------------------------------
(* The start-up.                                                           *)
LEMMA NewProviderOK ==
    /\ NewProvider \in Provider /\ NewProvider.url = G2EndpointURL /\ NewProvider.client = None
    /\ [NewProvider EXCEPT !.url = IKSPrivateURL] \in Provider
    /\ [NewProvider EXCEPT !.url = IKSPrivateURL].url = IKSPrivateURL
    /\ [NewProvider EXCEPT !.url = IKSPrivateURL].client = None
  BY DEF NewProvider, Provider, StringOf, IDs

LEMMA BootStepStartOK ==
    ASSUME StartOK, BootStep
    PROVE  StartOK'
<1> USE NamesAssumption, NilAssumption
<1>1. ASSUME BootFails \/ ReadConfig \/ GetClusterInfo PROVE StartOK'
  BY <1>1 DEF BootFails, ReadConfig, GetClusterInfo, BootTo, StartOK, BootSteps
<1>2. ASSUME InitVpcProvider PROVE StartOK'
  BY <1>2, NewProviderOK DEF InitVpcProvider, BootTo, Register, StartOK, BootSteps, Kinds, Objects
<1>3. ASSUME InitDualProvider PROVE StartOK'
  <2>1. CASE conf.iks = "on"
    <3>1. /\ prov'["vpc"] = prov["vpc"] /\ prov'["dualVpc"] = NewProvider
          /\ prov'["dualIks"] = [NewProvider EXCEPT !.url = IKSPrivateURL]
          /\ prov' \in [Objects -> Provider]
      BY <1>3, <2>1, NewProviderOK DEF InitDualProvider, NewDualProvider, StartOK, Objects
    <3>2. \A p \in Objects : prov'[p].client \in {None, ClientOf(p)}
      BY <3>1, NewProviderOK DEF StartOK, Objects
    <3>3. /\ registry' = [registry EXCEPT ![IKSFileProviderName] = "dual"] /\ UNCHANGED conf
          /\ boot' = [boot EXCEPT !.pc = "name"] /\ boot.pc = "dual"
      BY <1>3, <2>1 DEF InitDualProvider, BootTo, Register
    <3> QED
      BY <2>1, <3>1, <3>2, <3>3, NewProviderOK DEF StartOK, BootSteps, Kinds
  <2>2. CASE conf.iks # "on"
    BY <1>3, <2>2 DEF InitDualProvider, BootTo, StartOK, BootSteps
  <2> QED
    BY <2>1, <2>2
<1>4. ASSUME ChooseProvider PROVE StartOK'
  BY <1>4 DEF ChooseProvider, StartOK, BootSteps
<1> QED
  BY <1>1, <1>2, <1>3, <1>4 DEF BootStep

LEMMA BootStepOK ==
    ASSUME SessInv, BootStep, UNCHANGED open
    PROVE  SessInv'
<1>1. StartOK'
  BY BootStepStartOK DEF SessInv
<1>2. boot.pc # "ready"
  BY DEF BootStep, BootFails, ReadConfig, GetClusterInfo, InitVpcProvider, InitDualProvider, ChooseProvider
<1>3. ASSUME NEW g \in Openers PROVE (OpenerOK(g, open[g], prov) /\ IdOK(open[g], prov))'
  BY <1>2, NilAssumption DEF SessInv, OpenerOK, IdOK, Connecting
<1> QED
  BY <1>1, <1>3 DEF SessInv
--------------------------------------------------------------------------------
(* What a step of one goroutine may do to the providers the others use ... *)
ProvKept ==
    /\ prov' \in [Objects -> Provider]
    /\ \A q \in Objects :
          /\ prov'[q].url = prov[q].url
          /\ prov'[q].client \in {None, ClientOf(q)}
          /\ prov[q].client # None => prov'[q].client = prov[q].client

(* ... and to the calls of the others: who needs the request id that is    *)
(* being written is marked.                                                *)
Kept(h) ==
    /\ open'[h] = open[h] \/ open'[h] = [open[h] EXCEPT !.crossed = TRUE]
    /\ open[h].pc \in Window =>
          \/ open'[h] = [open[h] EXCEPT !.crossed = TRUE]
          \/ prov'[open[h].on].ctx = prov[open[h].on].ctx

(* Such a step keeps what holds of another goroutine's call.               *)
LEMMA OthersKeep ==
    ASSUME SessInv, UNCHANGED boot, NEW h \in Openers, ProvKept, Kept(h)
    PROVE  OpenerOK(h, open'[h], prov') /\ IdOK(open'[h], prov')
<1>1. open[h] \in Opening /\ OpenerOK(h, open[h], prov) /\ IdOK(open[h], prov)
  BY DEF SessInv
<1>2. /\ open'[h] \in Opening
      /\ open'[h].pc = open[h].pc /\ open'[h].req = open[h].req /\ open'[h].on = open[h].on
      /\ open'[h].cred = open[h].cred /\ open'[h].copy = open[h].copy /\ open'[h].vpc = open[h].vpc
      /\ open'[h].iks = open[h].iks /\ open'[h].res = open[h].res
      /\ open'[h].crossed = open[h].crossed \/ open'[h].crossed = TRUE
  BY <1>1 DEF Kept, Opening
<1>3. \A q \in Objects : prov[q].client = ClientOf(q) => prov'[q].client = ClientOf(q)
  BY NilAssumption DEF ProvKept, ClientOf
<1>4. open[h].pc \in Connecting => open[h].on \in Objects
  BY <1>1 DEF OpenerOK, NextOn, Objects
<1>5. OpenerOK(h, open'[h], prov')
  <2>1. open[h].on = "dualIks" /\ open[h].pc # "idle" => prov'["dualIks"].client = "IKS"
    BY <1>1, <1>3 DEF OpenerOK, ClientOf, Objects
  <2> QED
    BY <1>1, <1>2, <1>3, <1>4, <2>1 DEF OpenerOK, NextOn
<1>6. IdOK(open'[h], prov')
  <2>1. ~open'[h].crossed => ~open[h].crossed
    BY <1>2
  <2>2. ~open'[h].crossed /\ open[h].pc \in Window => prov'[open[h].on].ctx = prov[open[h].on].ctx
    <3>1. ~open'[h].crossed => open'[h] # [open[h] EXCEPT !.crossed = TRUE]
      BY <1>1 DEF Opening
    <3> QED
      BY <3>1 DEF Kept
  <2> QED
    BY <1>1, <1>2, <2>1, <2>2 DEF IdOK, Window
<1> QED
  BY <1>5, <1>6

(* So it need only be looked at where its own goroutine is.                *)
LEMMA OpenerStep ==
    ASSUME SessInv, NEW g \in Openers, UNCHANGED <<conf, boot, registry>>, ProvKept,
           open' \in [Openers -> Opening], \A h \in Openers : h # g => Kept(h),
           OpenerOK(g, open'[g], prov'), IdOK(open'[g], prov')
    PROVE  SessInv'
<1>1. StartOK'
  BY DEF SessInv, StartOK, ProvKept, Objects
<1>2. ASSUME NEW h \in Openers PROVE OpenerOK(h, open'[h], prov') /\ IdOK(open'[h], prov')
  BY OthersKeep
<1>3. ASSUME NEW h \in Openers PROVE OpenerOK(h, open[h], prov)' /\ IdOK(open[h], prov)'
  <2>1. IdOK(open[h], prov)'
    BY <1>2 DEF IdOK
  <2>2. OpenerOK(h, open[h], prov)'
    BY <1>2 DEF OpenerOK, NextOn, Plain
  <2> QED
    BY <2>1, <2>2
<1> QED
  BY <1>1, <1>3 DEF SessInv

(* A step that changes only the call of g, and no provider.                *)
LEMMA OwnStep ==
    ASSUME SessInv, NEW g \in Openers, UNCHANGED providerVars, open' = [open EXCEPT ![g] = open'[g]],
           OpenerOK(g, open'[g], prov), IdOK(open'[g], prov)
    PROVE  SessInv'
<1>1. ProvKept
  BY DEF SessInv, StartOK, ProvKept, providerVars
<1>2. open' \in [Openers -> Opening] /\ \A h \in Openers : h # g => Kept(h)
  BY DEF SessInv, OpenerOK, Kept, providerVars
<1> QED
  BY <1>1, <1>2, OpenerStep DEF providerVars
--------------------------------------------------------------------------------
(* The provider a start-up that succeeded left is there and of the kind    *)
(* its name stands for.                                                    *)
LEMMA ReadyIsRegistered ==
    ASSUME SessInv, boot.pc = "ready"
    PROVE  /\ boot.name # None
           /\ boot.name = VPCVolumeType \/ boot.name = IKSFileProviderName
           /\ registry[boot.name] = IF Plain THEN "vpc" ELSE "dual"
           /\ prov[IF Plain THEN "vpc" ELSE "dualVpc"].url = G2EndpointURL
           /\ ~Plain => prov["dualIks"].url = IKSPrivateURL
  BY NamesAssumption DEF SessInv, StartOK, Plain

(* A call starts on the provider of the VPC half.                          *)
LEMMA GetProviderSessionStep ==
    ASSUME SessInv, NEW g \in Openers, NEW q \in IDs, GetProviderSession(g, q)
    PROVE  SessInv'
<1>1. boot.pc = "ready"
  BY DEF GetProviderSession
<1> DEFINE kind == registry[boot.name]
<1>2. boot.name # None /\ kind # None /\ kind = (IF Plain THEN "vpc" ELSE "dual")
  BY <1>1, ReadyIsRegistered, NilAssumption
<1>3. ProviderOf(kind, "vpc") = IF Plain THEN "vpc" ELSE "dualVpc"
  BY <1>2 DEF ProviderOf
<1>4. /\ open' = [open EXCEPT ![g] = open'[g]] /\ UNCHANGED providerVars
      /\ open'[g] = [[IdleOpen EXCEPT !.req = q] EXCEPT !.pc = "token", !.on = ProviderOf(kind, "vpc")]
  BY <1>2 DEF GetProviderSession, Set, SessInv
<1>5. open'[g] = [pc |-> "token", req |-> q, on |-> IF Plain THEN "vpc" ELSE "dualVpc", cred |-> None,
                  copy |-> None, vpc |-> None, iks |-> None, res |-> None, crossed |-> FALSE]
  BY <1>3, <1>4 DEF IdleOpen
<1>6. open'[g] \in Opening
  BY <1>5 DEF Opening, Objects, Codes
<1>7. OpenerOK(g, open'[g], prov) /\ IdOK(open'[g], prov)
  BY <1>1, <1>5, <1>6, NilAssumption DEF OpenerOK, IdOK, Connecting, NextOn
<1> QED
  BY <1>4, <1>7, OwnStep

(* A half that could not be opened.                                        *)
LEMMA HalfFailsStep ==
    ASSUME SessInv, NEW g \in Openers, NEW code \in Codes \ {"ok"}, NEW half \in {EmptyHalf, NilHalf},
           open[g].pc \in {"token", "check"}, UNCHANGED providerVars,
           Set(g, HalfFails(open[g], code, half))
    PROVE  SessInv'
<1>1. OpenerOK(g, open[g], prov) /\ IdOK(open[g], prov) /\ boot.pc = "ready"
  BY DEF SessInv, OpenerOK
<1>2. /\ open' = [open EXCEPT ![g] = open'[g]]
      /\ \/ /\ open[g].vpc # None
            /\ open'[g] = [open[g] EXCEPT !.pc = "done", !.res = "ok", !.iks = half]
         \/ /\ open[g].vpc = None
            /\ open'[g] = [open[g] EXCEPT !.pc = "done", !.res = code]
  BY DEF SessInv, Set, HalfFails, OnIks
<1> DEFINE x == IF open[g].vpc # None THEN half ELSE open[g].iks
           y == IF open[g].vpc # None THEN "ok" ELSE code
<1>3. /\ open'[g] \in Opening
      /\ open'[g].pc = "done" /\ open'[g].iks = x /\ open'[g].res = y
      /\ open'[g].req = open[g].req /\ open'[g].on = open[g].on /\ open'[g].vpc = open[g].vpc
      /\ open'[g].crossed = open[g].crossed
  <2>1. open[g] \in Opening /\ "ok" \in Codes /\ code \in Codes
    BY <1>1 DEF OpenerOK, Codes
  <2>2. CASE open[g].vpc # None
    <3>1. open'[g] = [open[g] EXCEPT !.pc = "done", !.res = "ok", !.iks = half] /\ x = half /\ y = "ok"
      BY <1>2, <2>2
    <3> HIDE DEF x, y
    <3> QED
      BY <2>1, <3>1, Zenon DEF Opening
  <2>3. CASE open[g].vpc = None
    <3>1. open'[g] = [open[g] EXCEPT !.pc = "done", !.res = code] /\ x = open[g].iks /\ y = code
      BY <1>2, <2>3
    <3> HIDE DEF x, y
    <3> QED
      BY <2>1, <3>1, Zenon DEF Opening
  <2> QED
    BY <2>2, <2>3
<1>4. OpenerOK(g, open'[g], prov)
  <2>1. open[g].iks = None /\ (Plain => open[g].vpc = None) /\ half # None
        /\ (open[g].on = "dualIks" => prov["dualIks"].client = "IKS")
        /\ (open[g].vpc # None => RightHalf(g, open[g].vpc, "dualVpc"))
    BY <1>1, NilAssumption DEF OpenerOK
  <2> QED
    BY <1>1, <1>3, <2>1 DEF OpenerOK, Connecting
<1>5. IdOK(open'[g], prov)
  <2>1. open[g].iks = None
    BY <1>1 DEF OpenerOK
  <2> QED
    BY <1>1, <1>3, <2>1 DEF IdOK
<1> HIDE DEF x, y
<1> QED
  BY <1>2, <1>4, <1>5, OwnStep

(* A token for the call, or a half that cannot be opened.                  *)
LEMMA ForIAMAccessTokenStep ==
    ASSUME SessInv, NEW g \in Openers, ForIAMAccessToken(g)
    PROVE  SessInv'
<1>1. CASE \E t \in {g, ""} : Set(g, [open[g] EXCEPT !.pc = "check", !.cred = t])
  <2>1. PICK t \in {g, ""} : Set(g, [open[g] EXCEPT !.pc = "check", !.cred = t])
    BY <1>1
  <2>2. OpenerOK(g, open[g], prov) /\ IdOK(open[g], prov) /\ open[g].pc = "token"
    BY DEF SessInv, ForIAMAccessToken
  <2>3. /\ open' = [open EXCEPT ![g] = open'[g]] /\ UNCHANGED providerVars
        /\ open'[g] = [open[g] EXCEPT !.pc = "check", !.cred = t]
    BY <2>1 DEF SessInv, Set, ForIAMAccessToken
  <2>4. /\ open'[g] \in Opening
        /\ open'[g].pc = "check" /\ open'[g].cred = t /\ open'[g].req = open[g].req
        /\ open'[g].on = open[g].on /\ open'[g].vpc = open[g].vpc /\ open'[g].iks = open[g].iks
        /\ open'[g].res = open[g].res /\ open'[g].crossed = open[g].crossed
    <3>1. open[g] \in Opening
      BY <2>2 DEF OpenerOK
    <3>2. t \in Openers \cup {"", None} /\ open'[g] = [open[g] EXCEPT !.pc = "check", !.cred = t]
      BY <2>1, <2>3
    <3> QED
      BY <3>1, <3>2, Zenon DEF Opening
  <2>5. OpenerOK(g, open'[g], prov)
    BY <2>2, <2>4 DEF OpenerOK, Connecting, NextOn
  <2>6. IdOK(open'[g], prov)
    BY <2>2, <2>4 DEF IdOK
  <2> QED
    BY <2>3, <2>5, <2>6, OwnStep
<1>2. ASSUME NEW e \in TokenErrors,
             Set(g, HalfFails(open[g], TokenErrorCode(open[g], e), EmptyHalf))
      PROVE  SessInv'
  <2>1. TokenErrorCode(open[g], e) \in Codes \ {"ok"}
    BY NilAssumption DEF TokenErrorCode, GetUserError, TokenErrors, Codes
  <2> QED
    BY <1>2, <2>1, HalfFailsStep DEF ForIAMAccessToken
<1> QED
  BY <1>1, <1>2 DEF ForIAMAccessToken

(* The default client provider, unless there is one: IKS has its own.      *)
LEMMA OpenSessionStep ==
    ASSUME SessInv, NEW g \in Openers, OpenSession(g)
    PROVE  SessInv'
<1>1. CASE open[g].cred = "" /\ UNCHANGED prov
  <2>1. "ErrorInsufficientAuthentication" \in Codes \ {"ok"}
    BY DEF Codes
  <2> QED
    BY <1>1, <2>1, HalfFailsStep DEF OpenSession, providerVars
<1>2. CASE open[g].cred # ""
  <2> DEFINE o == open[g].on
             c == IF prov[o].client = None THEN "Default" ELSE prov[o].client
             x == IF open[g].req = None THEN "readPtr" ELSE "writePtr"
  <2>1. OpenerOK(g, open[g], prov) /\ IdOK(open[g], prov) /\ open[g].pc = "check"
    BY DEF SessInv, OpenSession
  <2>2. o \in Objects /\ open[g].cred = g /\ prov \in [Objects -> Provider]
    BY <1>2, <2>1 DEF SessInv, StartOK, OpenerOK, NextOn, Objects
  <2>3. c = ClientOf(o) /\ (prov[o].client # None => prov[o].client = c)
    <3>1. prov[o].client \in {None, ClientOf(o)} /\ (o = "dualIks" => prov[o].client = "IKS")
      BY <2>1, <2>2 DEF SessInv, StartOK, OpenerOK
    <3> QED
      BY <3>1, NilAssumption DEF ClientOf
  <2>4. /\ open' = [open EXCEPT ![g] = open'[g]] /\ UNCHANGED <<conf, boot, registry>>
        /\ open'[g] = [open[g] EXCEPT !.pc = x]
        /\ prov' = [prov EXCEPT ![o].client = c]
    BY <1>2, <2>2 DEF SessInv, Set, OpenSession
  <2>5. /\ prov' = [prov EXCEPT ![o] = prov'[o]]
        /\ prov'[o] = [prov[o] EXCEPT !.client = c]
    BY <2>2, <2>4
  <2>6. ProvKept /\ \A q \in Objects : prov'[q].ctx = prov[q].ctx
    <3>1. prov'[o] \in Provider /\ prov'[o].url = prov[o].url /\ prov'[o].ctx = prov[o].ctx
          /\ prov'[o].client = c
      BY <2>2, <2>3, <2>5 DEF Provider, ClientOf
    <3>2. \A q \in Objects : q # o => prov'[q] = prov[q]
      BY <2>2, <2>5
    <3> QED
      <4>1. \A q \in Objects : prov[q] \in Provider /\ prov[q].client \in {None, ClientOf(q)}
        BY DEF SessInv, StartOK
      <4>2. prov' \in [Objects -> Provider]
        BY <2>2, <2>5, <3>1
      <4> QED
        BY <2>3, <3>1, <3>2, <4>1, <4>2 DEF ProvKept
  <2>7. open' \in [Openers -> Opening] /\ \A h \in Openers : h # g => Kept(h)
    <3>1. open'[g] \in Opening
      BY <2>1, <2>4 DEF OpenerOK, Opening
    <3>2. ASSUME NEW h \in Openers, h # g PROVE Kept(h)
      <4>1. open'[h] = open[h] /\ (open[h].pc \in Window => open[h].on \in Objects)
        BY <2>4, <3>2 DEF SessInv, OpenerOK, Window, Connecting, NextOn, Objects
      <4> QED
        BY <4>1, <2>6 DEF Kept
    <3> QED
      BY <2>4, <3>1, <3>2 DEF SessInv
  <2>8. prov'[o].client = ClientOf(o)
    BY <2>2, <2>3, <2>5 DEF Provider
  <2>9. /\ open'[g] \in Opening /\ open'[g].pc = x /\ open'[g].cred = open[g].cred
        /\ open'[g].req = open[g].req /\ open'[g].on = open[g].on /\ open'[g].vpc = open[g].vpc
        /\ open'[g].iks = open[g].iks /\ open'[g].res = open[g].res
        /\ open'[g].crossed = open[g].crossed
    <3>1. open[g] \in Opening /\ open'[g] = [open[g] EXCEPT !.pc = x]
      BY <2>1, <2>4 DEF OpenerOK
    <3>2. open'[g] \in Opening
      BY <2>7
    <3> HIDE DEF x
    <3> QED
      BY <3>1, <3>2, Zenon DEF Opening
  <2>10. OpenerOK(g, open'[g], prov')
    BY <2>1, <2>2, <2>8, <2>9 DEF OpenerOK, Connecting, NextOn, ClientOf
  <2>11. IdOK(open'[g], prov')
    <3>1. x \in {"readPtr", "writePtr"} /\ (open[g].req # None => x = "writePtr")
      OBVIOUS
    <3>2. open[g].vpc = open'[g].vpc /\ open[g].iks = None
      BY <2>1, <2>9 DEF OpenerOK
    <3> HIDE DEF x
    <3> QED
      BY <2>1, <2>9, <3>1, <3>2 DEF IdOK
  <2> HIDE DEF o, c, x
  <2> QED
    BY <2>4, <2>6, <2>7, <2>10, <2>11, OpenerStep
<1> QED
  BY <1>1, <1>2 DEF OpenSession

(* One word of the shared request id is written.                           *)
LEMMA SharedWrite ==
    ASSUME NEW P \in [Objects -> Provider], NEW Q, NEW o \in Objects, NEW q \in IDs
    PROVE  /\ Q = [P EXCEPT ![o].ctx.ptr = q] =>
                 /\ Q \in [Objects -> Provider] /\ \A p \in Objects : p # o => Q[p] = P[p]
                 /\ Q[o] \in Provider /\ Q[o].url = P[o].url /\ Q[o].client = P[o].client
                 /\ Q[o].ctx.ptr = q /\ Q[o].ctx.len = P[o].ctx.len
           /\ Q = [P EXCEPT ![o].ctx.len = q] =>
                 /\ Q \in [Objects -> Provider] /\ \A p \in Objects : p # o => Q[p] = P[p]
                 /\ Q[o] \in Provider /\ Q[o].url = P[o].url /\ Q[o].client = P[o].client
                 /\ Q[o].ctx.len = q /\ Q[o].ctx.ptr = P[o].ctx.ptr
<1>1. ASSUME Q = [P EXCEPT ![o].ctx.ptr = q]
      PROVE  /\ Q \in [Objects -> Provider] /\ \A p \in Objects : p # o => Q[p] = P[p]
             /\ Q[o] \in Provider /\ Q[o].url = P[o].url /\ Q[o].client = P[o].client
             /\ Q[o].ctx.ptr = q /\ Q[o].ctx.len = P[o].ctx.len
  <2>1. Q[o] = [P[o] EXCEPT !.ctx.ptr = q] /\ Q = [P EXCEPT ![o] = Q[o]]
    BY <1>1
  <2>2. Q[o].ctx = [P[o].ctx EXCEPT !.ptr = q] /\ Q[o].url = P[o].url /\ Q[o].client = P[o].client
        /\ Q[o] = [P[o] EXCEPT !.ctx = Q[o].ctx]
    BY <2>1 DEF Provider
  <2>3. Q[o].ctx \in [ptr : IDs, len : IDs] /\ Q[o].ctx.ptr = q /\ Q[o].ctx.len = P[o].ctx.len
    BY <2>2 DEF Provider
  <2>4. Q[o] \in Provider
    BY <2>2, <2>3 DEF Provider
  <2> QED
    BY <2>1, <2>2, <2>3, <2>4
<1>2. ASSUME Q = [P EXCEPT ![o].ctx.len = q]
      PROVE  /\ Q \in [Objects -> Provider] /\ \A p \in Objects : p # o => Q[p] = P[p]
             /\ Q[o] \in Provider /\ Q[o].url = P[o].url /\ Q[o].client = P[o].client
             /\ Q[o].ctx.len = q /\ Q[o].ctx.ptr = P[o].ctx.ptr
  <2>1. Q[o] = [P[o] EXCEPT !.ctx.len = q] /\ Q = [P EXCEPT ![o] = Q[o]]
    BY <1>2
  <2>2. Q[o].ctx = [P[o].ctx EXCEPT !.len = q] /\ Q[o].url = P[o].url /\ Q[o].client = P[o].client
        /\ Q[o] = [P[o] EXCEPT !.ctx = Q[o].ctx]
    BY <2>1 DEF Provider
  <2>3. Q[o].ctx \in [ptr : IDs, len : IDs] /\ Q[o].ctx.len = q /\ Q[o].ctx.ptr = P[o].ctx.ptr
    BY <2>2 DEF Provider
  <2>4. Q[o] \in Provider
    BY <2>2, <2>3 DEF Provider
  <2> QED
    BY <2>1, <2>2, <2>3, <2>4
<1> QED
  BY <1>1, <1>2

(* The first word of the request id: whoever is in the window is marked.   *)
LEMMA WritePtrStep ==
    ASSUME SessInv, NEW g \in Openers, WritePtr(g)
    PROVE  SessInv'
<1> DEFINE o == open[g].on
           q == open[g].req
<1>1. OpenerOK(g, open[g], prov) /\ IdOK(open[g], prov) /\ open[g].pc = "writePtr"
  BY DEF SessInv, WritePtr
<1>2. o \in Objects /\ q \in IDs /\ prov \in [Objects -> Provider] /\ prov[o].client = ClientOf(o)
  BY <1>1 DEF SessInv, StartOK, OpenerOK, Connecting, NextOn, Objects, Opening
<1>3. /\ UNCHANGED <<conf, boot, registry>>
      /\ prov' = [prov EXCEPT ![o].ctx.ptr = q]
      /\ open'[g] = [open[g] EXCEPT !.pc = "writeLen"]
      /\ \A h \in Openers : h # g =>
            open'[h] = IF Meets(g, h) THEN [open[h] EXCEPT !.crossed = TRUE] ELSE open[h]
      /\ open' = [h \in Openers |-> open'[h]]
  <2>1. \A h \in Openers : ~(h = g /\ Meets(g, h))
    BY DEF Meets
  <2> QED
    BY <2>1 DEF WritePtr, Crossed
<1>4. /\ \A p \in Objects : p # o => prov'[p] = prov[p]
      /\ prov'[o] \in Provider /\ prov'[o].url = prov[o].url /\ prov'[o].client = prov[o].client
      /\ prov'[o].ctx.ptr = q /\ prov'[o].ctx.len = prov[o].ctx.len
      /\ prov' \in [Objects -> Provider]
  BY <1>2, <1>3, SharedWrite
<1>5. ProvKept
  BY <1>4 DEF ProvKept, SessInv, StartOK
<1>6. open'[g] \in Opening
  BY <1>1, <1>3 DEF OpenerOK, Opening
<1>7. ASSUME NEW h \in Openers, h # g PROVE Kept(h) /\ open'[h] \in Opening
  <2>1. open[h] \in Opening /\ (open[h].pc \in Window => open[h].on \in Objects)
    BY DEF SessInv, OpenerOK, Window, Connecting, NextOn, Objects
  <2>2. open'[h] \in Opening
    <3>1. [open[h] EXCEPT !.crossed = TRUE] \in Opening
      BY <2>1 DEF Opening
    <3> QED
      BY <1>3, <1>7, <2>1, <3>1, Zenon
  <2>3. CASE Meets(g, h)
    <3>1. open'[h] = [open[h] EXCEPT !.crossed = TRUE]
      BY <1>3, <1>7, <2>3
    <3> QED
      BY <2>2, <3>1, Zenon DEF Kept
  <2>4. CASE ~Meets(g, h)
    BY <1>3, <1>4, <1>7, <2>1, <2>4 DEF Kept, Meets
  <2> QED
    BY <2>2, <2>3, <2>4
<1>8. open' \in [Openers -> Opening]
  BY <1>3, <1>6, <1>7
<1>9. OpenerOK(g, open'[g], prov')
  <2>1. prov'[o].client = ClientOf(o) /\ (o = "dualIks" => prov'["dualIks"].client = "IKS")
    BY <1>2, <1>4 DEF ClientOf
  <2> QED
    BY <1>1, <1>3, <1>6, <2>1 DEF OpenerOK, Opening, Connecting, NextOn
<1>10. IdOK(open'[g], prov')
  BY <1>1, <1>3, <1>4 DEF OpenerOK, IdOK, Opening
<1> HIDE DEF o, q
<1> QED
  BY <1>3, <1>5, <1>7, <1>8, <1>9, <1>10, OpenerStep

(* The second word: now the whole id is there.                             *)
LEMMA WriteLenStep ==
    ASSUME SessInv, NEW g \in Openers, WriteLen(g)
    PROVE  SessInv'
<1> DEFINE o == open[g].on
           q == open[g].req
<1>1. OpenerOK(g, open[g], prov) /\ IdOK(open[g], prov) /\ open[g].pc = "writeLen"
  BY DEF SessInv, WriteLen
<1>2. o \in Objects /\ q \in IDs /\ prov \in [Objects -> Provider] /\ prov[o].client = ClientOf(o)
  BY <1>1 DEF SessInv, StartOK, OpenerOK, Connecting, NextOn, Objects, Opening
<1>3. /\ UNCHANGED <<conf, boot, registry>>
      /\ prov' = [prov EXCEPT ![o].ctx.len = q]
      /\ open'[g] = [open[g] EXCEPT !.pc = "readPtr"]
      /\ \A h \in Openers : h # g =>
            open'[h] = IF Meets(g, h) THEN [open[h] EXCEPT !.crossed = TRUE] ELSE open[h]
      /\ open' = [h \in Openers |-> open'[h]]
  <2>1. \A h \in Openers : ~(h = g /\ Meets(g, h))
    BY DEF Meets
  <2> QED
    BY <2>1 DEF WriteLen, Crossed
<1>4. /\ \A p \in Objects : p # o => prov'[p] = prov[p]
      /\ prov'[o] \in Provider /\ prov'[o].url = prov[o].url /\ prov'[o].client = prov[o].client
      /\ prov'[o].ctx.len = q /\ prov'[o].ctx.ptr = prov[o].ctx.ptr
      /\ prov' \in [Objects -> Provider]
  BY <1>2, <1>3, SharedWrite
<1>5. ProvKept
  BY <1>4 DEF ProvKept, SessInv, StartOK
<1>6. open'[g] \in Opening
  BY <1>1, <1>3 DEF OpenerOK, Opening
<1>7. ASSUME NEW h \in Openers, h # g PROVE Kept(h) /\ open'[h] \in Opening
  <2>1. open[h] \in Opening /\ (open[h].pc \in Window => open[h].on \in Objects)
    BY DEF SessInv, OpenerOK, Window, Connecting, NextOn, Objects
  <2>2. open'[h] \in Opening
    <3>1. [open[h] EXCEPT !.crossed = TRUE] \in Opening
      BY <2>1 DEF Opening
    <3> QED
      BY <1>3, <1>7, <2>1, <3>1, Zenon
  <2>3. CASE Meets(g, h)
    <3>1. open'[h] = [open[h] EXCEPT !.crossed = TRUE]
      BY <1>3, <1>7, <2>3
    <3> QED
      BY <2>2, <3>1, Zenon DEF Kept
  <2>4. CASE ~Meets(g, h)
    BY <1>3, <1>4, <1>7, <2>1, <2>4 DEF Kept, Meets
  <2> QED
    BY <2>2, <2>3, <2>4
<1>8. open' \in [Openers -> Opening]
  BY <1>3, <1>6, <1>7
<1>9. OpenerOK(g, open'[g], prov')
  <2>1. prov'[o].client = ClientOf(o) /\ (o = "dualIks" => prov'["dualIks"].client = "IKS")
    BY <1>2, <1>4 DEF ClientOf
  <2> QED
    BY <1>1, <1>3, <1>6, <2>1 DEF OpenerOK, Opening, Connecting, NextOn
<1>10. IdOK(open'[g], prov')
  BY <1>1, <1>3, <1>4 DEF OpenerOK, IdOK, Opening
<1> HIDE DEF o, q
<1> QED
  BY <1>3, <1>5, <1>7, <1>8, <1>9, <1>10, OpenerStep

(* The configuration is copied with the first word of the id.              *)
LEMMA ReadPtrStep ==
    ASSUME SessInv, NEW g \in Openers, ReadPtr(g)
    PROVE  SessInv'
<1> DEFINE o == open[g].on
<1>1. OpenerOK(g, open[g], prov) /\ IdOK(open[g], prov) /\ open[g].pc = "readPtr" /\ boot.pc = "ready"
  BY DEF SessInv, ReadPtr, OpenerOK
<1>2. /\ o \in Objects /\ prov[o] \in Provider /\ prov[o].client = ClientOf(o)
      /\ prov[o].url = UrlOf(o)
  <2>1. o = NextOn(open[g]) /\ prov[o].client = ClientOf(o)
    BY <1>1 DEF OpenerOK, Connecting
  <2>2. o \in Objects
    BY <2>1 DEF NextOn, Objects
  <2>3. prov[o] \in Provider
    BY <2>2 DEF SessInv, StartOK
  <2>4. prov[o].url = UrlOf(o)
    BY <1>1, <2>1, ReadyIsRegistered DEF NextOn, UrlOf
  <2> QED
    BY <2>1, <2>2, <2>3, <2>4
<1> DEFINE c == [url |-> prov[o].url, client |-> prov[o].client, ptr |-> prov[o].ctx.ptr]
<1>3. /\ open' = [open EXCEPT ![g] = open'[g]] /\ UNCHANGED providerVars
      /\ open'[g] = [open[g] EXCEPT !.pc = "readLen", !.copy = c]
  BY DEF SessInv, Set, ReadPtr
<1>4. c \in Copies /\ c.url = UrlOf(o) /\ c.client = ClientOf(o) /\ c.ptr = prov[o].ctx.ptr
  BY <1>2 DEF Copies, Provider
<1> HIDE DEF c
<1>5. open'[g] \in Opening
  BY <1>1, <1>3, <1>4 DEF OpenerOK, Opening
<1>6. /\ open'[g].pc = "readLen" /\ open'[g].copy = c /\ open'[g].cred = open[g].cred
      /\ open'[g].req = open[g].req /\ open'[g].on = o /\ open'[g].vpc = open[g].vpc
      /\ open'[g].iks = open[g].iks /\ open'[g].res = open[g].res
      /\ open'[g].crossed = open[g].crossed
  <2>1. open[g] \in Opening
    BY <1>1 DEF OpenerOK
  <2> QED
    BY <1>3, <2>1, Zenon DEF Opening
<1>7. OpenerOK(g, open'[g], prov)
  BY <1>1, <1>4, <1>5, <1>6 DEF OpenerOK, Connecting, NextOn
<1>8. IdOK(open'[g], prov)
  BY <1>1, <1>4, <1>6 DEF IdOK
<1> QED
  BY <1>3, <1>7, <1>8, OwnStep

(* The half is made; the VPC half of a dual session is not the last.       *)
LEMMA LoginStep ==
    ASSUME SessInv, NEW g \in Openers, Login(g)
    PROVE  SessInv'
<1> DEFINE o == open[g].on
           c == Client(open[g], prov[o])
<1>1. OpenerOK(g, open[g], prov) /\ IdOK(open[g], prov) /\ open[g].pc = "readLen" /\ boot.pc = "ready"
  BY DEF SessInv, Login, OpenerOK
<1>2. o = NextOn(open[g]) /\ o \in Objects /\ prov[o] \in Provider
  BY <1>1 DEF SessInv, StartOK, OpenerOK, Connecting, NextOn, Objects
<1>3. /\ c \in Clients /\ c # None /\ RightHalf(g, c, o)
      /\ c.ctx = [ptr |-> open[g].copy.ptr, len |-> prov[o].ctx.len]
  <2>1. open[g].copy \in Copies /\ open[g].cred = g
        /\ open[g].copy.url = UrlOf(o) /\ open[g].copy.client = ClientOf(o)
    BY <1>1 DEF OpenerOK, Connecting
  <2> QED
    BY <1>2, <2>1, NilAssumption DEF Client, Clients, Copies, Provider, RightHalf, IDs
<1>4. open[g].req # None /\ ~open[g].crossed => c.ctx = StringOf(open[g].req)
  BY <1>1, <1>3 DEF IdOK, StringOf
<1>5. /\ open' = [open EXCEPT ![g] = open'[g]] /\ UNCHANGED providerVars
      /\ \/ /\ open[g].vpc # None
            /\ open'[g] = [open[g] EXCEPT !.copy = None, !.pc = "done", !.res = "ok", !.iks = c]
         \/ /\ open[g].vpc = None /\ o = "vpc"
            /\ open'[g] = [open[g] EXCEPT !.copy = None, !.pc = "done", !.res = "ok", !.vpc = c]
         \/ /\ open[g].vpc = None /\ o # "vpc"
            /\ open'[g] = [open[g] EXCEPT !.copy = None, !.pc = "setIks", !.vpc = c]
  <2>1. [open[g] EXCEPT !.copy = None].vpc = open[g].vpc /\ [open[g] EXCEPT !.copy = None].on = o
    BY <1>1 DEF OpenerOK, Opening
  <2> QED
    BY <2>1 DEF SessInv, Set, Login, OnIks
<1> HIDE DEF c
<1>6. open'[g] \in Opening
  <2>1. open[g] \in Opening /\ "ok" \in Codes
    BY <1>1 DEF OpenerOK, Codes
  <2>2. CASE open'[g] = [open[g] EXCEPT !.copy = None, !.pc = "done", !.res = "ok", !.iks = c]
    BY <1>3, <2>1, <2>2, Zenon DEF Opening
  <2>3. CASE open'[g] = [open[g] EXCEPT !.copy = None, !.pc = "done", !.res = "ok", !.vpc = c]
    BY <1>3, <2>1, <2>3, Zenon DEF Opening
  <2>4. CASE open'[g] = [open[g] EXCEPT !.copy = None, !.pc = "setIks", !.vpc = c]
    BY <1>3, <2>1, <2>4, Zenon DEF Opening
  <2> QED
    BY <1>5, <2>2, <2>3, <2>4, Zenon
<1>7. OpenerOK(g, open'[g], prov)
  <2>1. CASE open[g].vpc # None
    <3>1. o = "dualIks" /\ ~Plain
      BY <1>1, <1>2, <2>1 DEF OpenerOK, NextOn
    <3> QED
      BY <1>1, <1>3, <1>5, <1>6, <2>1, <3>1, ZenonT(60) DEF OpenerOK, Opening, Connecting
  <2>2. CASE open[g].vpc = None
    <3>1. o = (IF Plain THEN "vpc" ELSE "dualVpc") /\ RightHalf(g, c, "dualVpc")
      BY <1>2, <1>3, <2>2 DEF NextOn, RightHalf, UrlOf, ClientOf
    <3>2. CASE Plain
      <4>1. open'[g] = [open[g] EXCEPT !.copy = None, !.pc = "done", !.res = "ok", !.vpc = c]
        BY <1>5, <2>2, <3>1, <3>2
      <4> QED
        BY <1>1, <1>3, <1>6, <3>1, <3>2, <4>1 DEF OpenerOK, Opening, Connecting
    <3>3. CASE ~Plain
      <4>1. open'[g] = [open[g] EXCEPT !.copy = None, !.pc = "setIks", !.vpc = c]
        BY <1>5, <2>2, <3>1, <3>3
      <4> QED
        BY <1>1, <1>3, <1>6, <3>1, <3>3, <4>1, NilAssumption DEF OpenerOK, Opening, Connecting
    <3> QED
      BY <3>2, <3>3
  <2> QED
    BY <2>1, <2>2
<1>8. IdOK(open'[g], prov)
  <2>1. /\ open'[g].pc \in {"done", "setIks"}
        /\ open'[g].req = open[g].req /\ open'[g].crossed = open[g].crossed
        /\ \/ open'[g].vpc = open[g].vpc /\ open'[g].iks = c
           \/ open'[g].vpc = c /\ open'[g].iks = open[g].iks
    <3>1. open[g] \in Opening
      BY <1>1 DEF OpenerOK
    <3> QED
      BY <1>5, <3>1 DEF Opening
  <2> QED
    BY <1>1, <1>4, <2>1 DEF IdOK
<1> QED
  BY <1>5, <1>7, <1>8, OwnStep

(* The client provider of IKS is set before anyone opens on it.            *)
LEMMA SetIksClientStep ==
    ASSUME SessInv, NEW g \in Openers, SetIksClient(g)
    PROVE  SessInv'
<1> DEFINE p == "dualIks"
<1>1. OpenerOK(g, open[g], prov) /\ IdOK(open[g], prov) /\ open[g].pc = "setIks"
  BY DEF SessInv, SetIksClient
<1>2. prov \in [Objects -> Provider] /\ p \in Objects
  BY DEF SessInv, StartOK, Objects
<1>3. /\ open' = [open EXCEPT ![g] = open'[g]] /\ UNCHANGED <<conf, boot, registry>>
      /\ open'[g] = [open[g] EXCEPT !.pc = "token", !.on = p, !.cred = None]
      /\ prov' = [prov EXCEPT ![p].client = "IKS"]
  BY DEF SessInv, Set, SetIksClient, ProviderOf
<1>4. /\ prov'[p] \in Provider /\ prov'[p].url = prov[p].url /\ prov'[p].ctx = prov[p].ctx
      /\ prov'[p].client = ClientOf(p) /\ \A q \in Objects : q # p => prov'[q] = prov[q]
      /\ prov' \in [Objects -> Provider]
  BY <1>2, <1>3 DEF Provider, ClientOf
<1>5. ProvKept /\ \A q \in Objects : prov'[q].ctx = prov[q].ctx
  BY <1>2, <1>4 DEF ProvKept, SessInv, StartOK
<1>6. open'[g] \in Opening
  BY <1>1, <1>3 DEF OpenerOK, Opening, Objects
<1>7. ASSUME NEW h \in Openers, h # g PROVE Kept(h)
  <2>1. open'[h] = open[h] /\ (open[h].pc \in Window => open[h].on \in Objects)
    BY <1>3, <1>7 DEF SessInv, OpenerOK, Window, Connecting, NextOn, Objects
  <2> QED
    BY <2>1, <1>5 DEF Kept
<1>8. open' \in [Openers -> Opening]
  BY <1>3, <1>6 DEF SessInv
<1>9. OpenerOK(g, open'[g], prov') /\ IdOK(open'[g], prov')
  <2>1. /\ open'[g].pc = "token" /\ open'[g].on = p /\ open'[g].req = open[g].req
        /\ open'[g].vpc = open[g].vpc /\ open'[g].iks = open[g].iks
        /\ open'[g].res = open[g].res /\ open'[g].crossed = open[g].crossed
    <3>1. open[g] \in Opening
      BY <1>1 DEF OpenerOK
    <3> QED
      BY <1>3, <3>1 DEF Opening
  <2>2. OpenerOK(g, open'[g], prov')
    BY <1>1, <1>4, <1>6, <2>1 DEF OpenerOK, Connecting, NextOn, ClientOf
  <2>3. IdOK(open'[g], prov')
    BY <1>1, <2>1 DEF IdOK
  <2> QED
    BY <2>2, <2>3
<1> HIDE DEF p
<1> QED
  BY <1>3, <1>5, <1>7, <1>8, <1>9, OpenerStep

--------------------------------------------------------------------------------
(* The invariant is inductive.                                             *)
LEMMA SessStep == SessInv /\ [Next]_sessionVars => SessInv'
<1> SUFFICES ASSUME SessInv, [Next]_sessionVars PROVE SessInv'
  OBVIOUS
<1>1. ASSUME NEW g \in Openers, OpenStep(g) PROVE SessInv'
  BY <1>1, ForIAMAccessTokenStep, OpenSessionStep, WritePtrStep, WriteLenStep, ReadPtrStep,
     LoginStep, SetIksClientStep DEF OpenStep
<1>2. CASE UNCHANGED sessionVars
  <2>1. UNCHANGED <<conf, boot, registry, prov, open>>
    BY <1>2 DEF sessionVars, providerVars
  <2>2. StartOK' /\ Plain' = Plain
    BY <2>1 DEF SessInv, StartOK, Plain
  <2>3. ASSUME NEW g \in Openers PROVE OpenerOK(g, open[g], prov)' /\ IdOK(open[g], prov)'
    <3>1. OpenerOK(g, open[g], prov) /\ IdOK(open[g], prov)
      BY DEF SessInv
    <3>2. IdOK(open[g], prov)'
      BY <2>1, <3>1 DEF IdOK
    <3>3. OpenerOK(g, open[g], prov)'
      BY <2>1, <2>2, <3>1 DEF OpenerOK, NextOn
    <3> QED
      BY <3>2, <3>3
  <2> QED
    BY <2>1, <2>2, <2>3 DEF SessInv
<1> QED
  BY <1>1, <1>2, BootStepOK, GetProviderSessionStep DEF Next, IDs

(* In every reachable state the start-up has made what its step says, and  *)
(* every call has the providers, halves and request id its step says.      *)
THEOREM SessInvariant == Spec => []SessInv
  BY SessInit, SessStep, PTL DEF Spec

(* A start-up that succeeds leaves a provider under the name it chose and  *)
(* of its kind, and GetProviderSession never fails for want of it.         *)
THEOREM ReadyTheorem == Spec => []ReadyProviderIsRegistered
<1>1. SessInv => ReadyProviderIsRegistered
  <2> SUFFICES ASSUME SessInv PROVE ReadyProviderIsRegistered
    OBVIOUS
  <2>1. \A g \in Openers : open[g].res # "ErrorUnclassified"
    BY NilAssumption DEF SessInv, Opening, Codes, TokenErrors
  <2> QED
    BY <2>1, ReadyIsRegistered DEF ReadyProviderIsRegistered, Plain
<1> QED
  BY <1>1, SessInvariant, PTL

(* A session has its halves right however calls interleave: each talks to  *)
(* its service with its client provider and a token of its own call.       *)
THEOREM WholeTheorem == Spec => []SessionIsWhole
<1>1. SessInv => SessionIsWhole
  BY DEF SessInv, OpenerOK, RightHalf, UrlOf, ClientOf, Plain, SessionIsWhole
<1> QED
  BY <1>1, SessInvariant, PTL

(* A session sends the id of the request it was opened for, unless another *)
(* goroutine wrote the shared configuration between its write and its copy.*)
THEOREM OwnIDTheorem == Spec => []OwnRequestID
<1>1. SessInv => OwnRequestID
  BY DEF SessInv, IdOK, OwnRequestID
<1> QED
  BY <1>1, SessInvariant, PTL
================================================================================
