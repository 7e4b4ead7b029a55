----------------------------- MODULE CSIRequests -----------------------------
(***************************************************************************)
(* What a CSI request carries besides the volume and the paths: the storage *)
(* class's parameters, the capabilities, a capacity range.  The validators  *)
(* of csi/internal/service/validate.go, what CreateVolume makes of the      *)
(* request, and the answers of the calls that only read.                    *)
(*                                                                         *)
(* A request that does not validate is answered InvalidArgument before any  *)
(* RPC: it changes nothing.                                                 *)
(***************************************************************************)
EXTENDS VolumeApi, Integers, Sequences

Absent == "absent"       \* a field that is not set, or is the empty string

(* Mounted, or as a block device, or as neither; by one node or by several. *)
Capability == [type   : {"mount", "block", Absent},
               access : {"SINGLE_NODE_WRITER", "MULTI_NODE_MULTI_WRITER", "UNKNOWN", Absent}]

Mounting == [type |-> "mount", access |-> "SINGLE_NODE_WRITER"]
Blocking == [type |-> "block", access |-> "SINGLE_NODE_WRITER"]

(* What every request about a volume of the class repeats: its capabilities,
   the "transport" and "parent_dataset_id" parameters and the range of its
   capacity, whose zeros are absent bounds. *)
Class == [caps      : Seq(Capability),
          transport : STRING,
          dataset   : STRING,
          required  : Int,
          limit     : Int]

-----------------------------------------------------------------------------
(* The validators. *)

validateVolumeCapability(c) ==
  /\ c.access = "SINGLE_NODE_WRITER"
  /\ c.type \in {"mount", "block"}

validateVolumeCapabilities(caps) ==
  caps # <<>> /\ \A i \in DOMAIN caps : validateVolumeCapability(caps[i])

validateCapacityRange(required, limit) ==
  required >= 0 /\ limit >= 0 /\ (limit > 0 => limit >= required)

(* Ids and paths must not be empty. *)
validateVolumeID(id) == id # Absent
validateNodeID(id)   == id # NoHost
validateTargetPath(path)        == path # NoPath
validateStagingTargetPath(path) == path # NoPath

(* Parameters.Transport: no parameter means iSCSI. *)
TransportNames == {Absent, "iscsi", "nvmeof", "nvmeof_tcp"}

ParsedTransport(name) == IF name \in {"nvmeof", "nvmeof_tcp"} THEN "NVMEOF_TCP" ELSE "ISCSI"

validateCreateVolumeRequest(id, class) ==
  /\ validateVolumeID(id)
  /\ validateVolumeCapabilities(class.caps)
  /\ validateCapacityRange(class.required, class.limit)
  /\ class.dataset # Absent
  /\ class.transport \in TransportNames

validateDeleteVolumeRequest(id) == validateVolumeID(id)

validateControllerPublishVolumeRequest(id, node, cap) ==
  validateVolumeID(id) /\ validateNodeID(node) /\ validateVolumeCapability(cap)

(* No node means: from whichever node it is. *)
validateControllerUnpublishVolumeRequest(id, node) == validateVolumeID(id)

validateNodeStageVolumeRequest(id, staging, cap) ==
  /\ validateVolumeID(id)
  /\ validateStagingTargetPath(staging)
  /\ validateVolumeCapability(cap)

validateNodeUnstageVolumeRequest(id, staging) ==
  validateVolumeID(id) /\ validateStagingTargetPath(staging)

validateNodePublishVolumeRequest(id, path, cap) ==
  validateVolumeID(id) /\ validateTargetPath(path) /\ validateVolumeCapability(cap)

validateNodeUnpublishVolumeRequest(id, path) ==
  validateVolumeID(id) /\ validateTargetPath(path)

-----------------------------------------------------------------------------
(* What CreateVolume makes of a class. *)

(* Mutant: the first capability decides. *)
FirstMode(caps) == IF Head(caps).type = "block" THEN "BLOCK" ELSE "FILESYSTEM"

(* One block capability is enough. *)
ModeOf(caps) ==
  IF \E i \in DOMAIN caps : caps[i].type = "block" THEN "BLOCK" ELSE "FILESYSTEM"

(* The volume it asks the service for. *)
CreatedBy(class) ==
  [NilVolume EXCEPT !.mode = ModeOf(class.caps),
                    !.transport = ParsedTransport(class.transport)]

-----------------------------------------------------------------------------
(* What the plugin can do besides the calls every plugin answers.  It offers
   neither GET_VOLUME nor LIST_VOLUMES_PUBLISHED_NODES. *)
ControllerGetCapabilities ==
  {"CREATE_DELETE_VOLUME", "PUBLISH_UNPUBLISH_VOLUME", "LIST_VOLUMES", "GET_CAPACITY",
   "EXPAND_VOLUME", "MODIFY_VOLUME"}
NodeGetCapabilities == {"STAGE_UNSTAGE_VOLUME", "GET_VOLUME_STATS", "EXPAND_VOLUME"}

(* The calls that read, each by what it finds in the volume it fetches. *)

(* ValidateVolumeCapabilities: every capability fits the mode. *)
Confirmed(v, caps) ==
  \A i \in DOMAIN caps :
    /\ caps[i].type = "block" => v.mode = "BLOCK"
    /\ caps[i].type = "mount" => v.mode = "FILESYSTEM"

(* ControllerGetVolume and ListVolumes: the volume's client, whatever its status. *)
PublishedNodes(v) == {v.clientHost} \ {NoHost}

(* StatsVolume: a staged volume, both of whose hosts are named.  A filesystem
   is measured at its staging path, a block volume by its zvol. *)
StatsVolume(v) ==
  /\ IsStaged(v)
  /\ v.serverHost # NoHost /\ v.clientHost # NoHost
  /\ v.mode = "FILESYSTEM" => v.stagingPath # NoPath

(* NodeGetVolumeStats: NotFound unless mounted at that path. *)
HasStats(v, path) == path \in v.targetPaths /\ StatsVolume(v)
=============================================================================
