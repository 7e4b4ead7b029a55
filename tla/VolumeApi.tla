------------------------------ MODULE VolumeApi ------------------------------
(***************************************************************************)
(* The messages of zfsilo.v1.VolumeService that the CSI plugin and the      *)
(* service exchange about a volume, the rules a request must meet before a  *)
(* handler sees it, and the conversion between the volume resource and a    *)
(* row.                                                                    *)
(*                                                                         *)
(* A message has the fields of its struct that tell volumes, hosts and      *)
(* paths apart; "rpc" is the procedure it is posted to.  A string that is   *)
(* not set is the empty one: the getters do not tell them apart.            *)
(***************************************************************************)
EXTENDS VolumeRow

CONSTANT VolumeId       \* the id of the volume, of the form the rules ask for

(* The enums; the zero value of each says that it is not set. *)
Volume_Mode      == Modes \cup {"UNSPECIFIED"}
Volume_Status    == Status
Volume_Transport == Transports \cup {"UNSPECIFIED"}

(* The volume resource.  Of the transport it has the type alone. *)
VolumeMessage ==
  [id          : {VolumeId},
   mode        : Volume_Mode,
   status      : Volume_Status,
   transport   : Volume_Transport,
   serverHost  : Servers \cup {NoHost},
   clientHost  : Clients \cup {NoHost},
   stagingPath : StagingPaths \cup {NoPath},
   targetPaths : SUBSET MountPaths,
   pathsNil    : BOOLEAN]

(* FromDBToAPI *)
ToAPI(v) ==
  [id |-> VolumeId, mode |-> v.mode, status |-> v.status,
   transport |-> v.transport.type, serverHost |-> v.serverHost,
   clientHost |-> v.clientHost, stagingPath |-> v.stagingPath,
   targetPaths |-> v.targetPaths, pathsNil |-> v.pathsNil]

(* FromAPIToDB *)
FromAPI(m) ==
  [status |-> m.status, mode |-> m.mode, serverHost |-> m.serverHost,
   clientHost |-> m.clientHost, transport |-> [NoTransport EXCEPT !.type = m.transport],
   stagingPath |-> m.stagingPath, targetPaths |-> m.targetPaths,
   pathsNil |-> m.pathsNil]

(* A nil *Volume, whose getters return the zero values. *)
NilVolume == ToAPI(NoVolume)

-----------------------------------------------------------------------------
(* The requests. *)

About(rpc) == [rpc : {rpc}, id : {VolumeId}]

GetVolumeRequest        == About("get")
CreateVolumeRequest     == [rpc : {"create"}, volume : VolumeMessage]
DeleteVolumeRequest     == About("delete")
PublishVolumeRequest    ==
  [rpc : {"publish"}, id : {VolumeId}, transport : Volume_Transport,
   serverHost : Servers \cup {NoHost}]
UnpublishVolumeRequest  == About("unpublish")
ConnectVolumeRequest    ==
  [rpc : {"connect"}, id : {VolumeId}, clientHost : Clients \cup {NoHost}]
DisconnectVolumeRequest == About("disconnect")
StageVolumeRequest      ==
  [rpc : {"stage"}, id : {VolumeId}, stagingPath : StagingPaths \cup {NoPath}]
UnstageVolumeRequest    == About("unstage")
MountVolumeRequest      ==
  [rpc : {"mount"}, id : {VolumeId}, mountPath : MountPaths \cup {NoPath}]
UnmountVolumeRequest    ==
  [rpc : {"unmount"}, id : {VolumeId}, mountPath : MountPaths \cup {NoPath}]

(* What the client has a procedure for. *)
Request ==
  UNION {GetVolumeRequest, CreateVolumeRequest, DeleteVolumeRequest,
         PublishVolumeRequest, UnpublishVolumeRequest,
         ConnectVolumeRequest, DisconnectVolumeRequest,
         StageVolumeRequest, UnstageVolumeRequest,
         MountVolumeRequest, UnmountVolumeRequest}

Rpcs == {m.rpc : m \in Request}

(* What the validate interceptor lets through.  A server host may be missing. *)
Valid(m) ==
  /\ m.rpc = "create" => m.volume.mode # "UNSPECIFIED"
  /\ m.rpc = "connect" => m.clientHost # NoHost
  /\ m.rpc = "stage" => m.stagingPath # NoPath
  /\ m.rpc \in {"mount", "unmount"} => m.mountPath # NoPath
=============================================================================
