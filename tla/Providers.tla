------------------------------- MODULE Providers -------------------------------
(***************************************************************************)
(* Start-up of the storage provider: configuration, the providers made     *)
(* from it and the registry they are found in                              *)
(* (pkg/ibmcloudprovider/volume_provider.go, file/utils/init_provider.go,  *)
(* common/registry/registry.go, file/provider/provider.go and              *)
(* iks/provider/provider.go).                                              *)
(*                                                                         *)
(* The plain provider is "vpc"; the dual one holds two providers of its    *)
(* own, "dualVpc" and "dualIks".  Of a provider's API configuration the    *)
(* base URL and the request id are kept.                                   *)
(***************************************************************************)
EXTENDS Messages

CONSTANTS
    RequestIDs,             \* ids of the requests sessions are opened for
    None,
    VPCVolumeType,          \* name the plain provider is registered under
    IKSFileProviderName,    \* and the dual one
    G2EndpointURL,          \* base URL of the VPC service
    IKSPrivateURL           \* and of IKS

ASSUME NamesAssumption ==
    /\ VPCVolumeType # IKSFileProviderName
    /\ G2EndpointURL # IKSPrivateURL
    /\ None \notin RequestIDs \cup {VPCVolumeType, IKSFileProviderName}

VARIABLES
    conf,        \* what the configuration and the environment say
    boot,        \* how far the start-up is, and the provider it chose
    registry,    \* the provider registered under each name
    prov         \* the providers

providerVars == <<conf, boot, registry, prov>>

Objects == {"vpc", "dualVpc", "dualIks"}
Kinds   == {None, "vpc", "dual"}

(* A Go string is two words, where its bytes are and how many: a racing    *)
(* reader may see one word of one request id and one of another.           *)
StringOf(id) == [ptr |-> id, len |-> id]

NotMade == [url |-> None, client |-> None, ctx |-> StringOf(None)]

ProvidersInit ==
    /\ conf \in [vpc : BOOLEAN, iks : {"nil", "off", "on"}, env : BOOLEAN]
    /\ boot = [pc |-> "config", name |-> None]
    /\ registry = [n \in {VPCVolumeType, IKSFileProviderName} |-> None]
    /\ prov = [p \in Objects |-> NotMade]

(* vpcprovider.NewProvider: no client provider yet and no request id.      *)
NewProvider == [url |-> G2EndpointURL, client |-> None, ctx |-> StringOf(None)]

(* iksprovider.NewProvider makes two of them and redirects the second.     *)
NewDualProvider ==
    [prov EXCEPT !["dualVpc"] = NewProvider,
                 !["dualIks"] = [NewProvider EXCEPT !.url = IKSPrivateURL]]

(* Mutant: the dual provider is registered under the plain one's name.     *)
RegisterPlainName(name, kind) == registry' = [registry EXCEPT ![VPCVolumeType] = kind]

Register(name, kind) == registry' = [registry EXCEPT ![name] = kind]

BootTo(step) == boot' = [boot EXCEPT !.pc = step]

--------------------------------------------------------------------------------
(* NewIBMCloudStorageProvider.  Each step may fail, which ends the         *)
(* start-up.                                                               *)
BootFails ==
    /\ boot.pc \in {"config", "cluster", "vpc", "dual"}
    /\ boot.pc = "vpc" => conf.vpc
    /\ boot.pc = "dual" => conf.iks = "on"
    /\ BootTo("failed")
    /\ UNCHANGED <<conf, registry, prov>>

ReadConfig ==
    /\ boot.pc = "config"
    /\ BootTo(IF conf.iks = "on" \/ conf.env THEN "cluster" ELSE "vpc")
    /\ UNCHANGED <<conf, registry, prov>>

GetClusterInfo ==
    /\ boot.pc = "cluster"
    /\ BootTo("vpc")
    /\ UNCHANGED <<conf, registry, prov>>

(* InitProviders, the VPC part.                                            *)
InitVpcProvider ==
    /\ boot.pc = "vpc"
    /\ BootTo("dual")
    /\ \/ /\ conf.vpc
          /\ prov' = [prov EXCEPT !["vpc"] = NewProvider]
          /\ Register(VPCVolumeType, "vpc")
       \/ /\ ~conf.vpc
          /\ UNCHANGED <<registry, prov>>
    /\ UNCHANGED conf

(* InitProviders, the IKS part; no provider at all is an error.            *)
InitDualProvider ==
    /\ boot.pc = "dual"
    /\ \/ /\ conf.iks = "on"
          /\ prov' = NewDualProvider
          /\ Register(IKSFileProviderName, "dual")
          /\ BootTo("name")
       \/ /\ conf.iks # "on"
          /\ BootTo(IF conf.vpc THEN "name" ELSE "failed")
          /\ UNCHANGED <<registry, prov>>
    /\ UNCHANGED conf

(* The name is chosen from the same switches, read without the check for a *)
(* missing IKS section that the lines before have.                         *)
ChooseProvider ==
    /\ boot.pc = "name"
    /\ boot' = IF conf.iks = "nil" THEN [boot EXCEPT !.pc = "panicked"]
               ELSE IF conf.iks = "on" THEN [pc |-> "ready", name |-> IKSFileProviderName]
               ELSE IF conf.vpc THEN [pc |-> "ready", name |-> VPCVolumeType]
               ELSE [pc |-> "ready", name |-> None]
    /\ UNCHANGED <<conf, registry, prov>>

BootStep ==
    \/ BootFails
    \/ ReadConfig
    \/ GetClusterInfo
    \/ InitVpcProvider
    \/ InitDualProvider
    \/ ChooseProvider
================================================================================
