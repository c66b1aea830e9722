------------------------------- MODULE Messages -------------------------------
(***************************************************************************)
(* The catalogue of user messages (common/messages).  A message is         *)
(* abstracted to its code: the key under which it is looked up and the     *)
(* Code it carries are the same for every entry.  GetUserError does not    *)
(* check that the code is listed: an unlisted one gives a message with     *)
(* neither code nor text.                                                  *)
(***************************************************************************)

VolumeMessages ==
    { "ErrorRequiredFieldMissing", "FailedToPlaceOrder", "FailedToDeleteVolume",
      "FailedToExpandVolume", "FailedToUpdateVolume", "StorageFindFailedWithVolumeId",
      "StorageFindFailedWithVolumeName" }

InvalidVolumeMessages ==
    { "InvalidVolumeID", "InvalidVolumeName", "VolumeCapacityInvalid", "EmptyResourceGroup",
      "EmptyResourceGroupIDandName", "VolumeNotInValidState" }

AccessPointMessages ==
    { "AccessPointWithAPIDFindFailed", "AccessPointWithVPCIDFindFailed",
      "CreateVolumeAccessPointFailed", "CreateVolumeAccessPointTimedOut",
      "DeleteVolumeAccessPointFailed", "DeleteVolumeAccessPointTimedOut",
      "VolumeAccessPointExist" }

ListingMessages ==
    { "SubnetsListFailed", "SubnetFindFailed", "SecurityGroupsListFailed",
      "SecurityGroupFindFailed", "ListVolumesFailed", "InvalidListVolumesLimit",
      "StartVolumeIDNotFound" }

SnapshotMessages ==
    { "SnapshotCreationFailed", "ListSnapshotsFailed", "InvalidListSnapshotLimit",
      "StartSnapshotIDNotFound", "FailedToDeleteSnapshot", "FailedToFindSnapshot",
      "StorageFindFailedWithSnapshotName" }

MessagesEn ==
    VolumeMessages \cup InvalidVolumeMessages \cup AccessPointMessages
    \cup ListingMessages \cup SnapshotMessages

(* The code of the error an operation returns; "" for an unlisted code.    *)
GetUserError(code) == IF code \in MessagesEn THEN code ELSE ""
================================================================================
