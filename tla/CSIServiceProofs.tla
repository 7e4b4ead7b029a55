--------------------------- MODULE CSIServiceProofs ---------------------------
(***************************************************************************)
(* Proofs about CSIService, for any nodes, paths and storage classes and    *)
(* any number of faults: the type invariant, and that what the orchestrator *)
(* was told is there is there, what it was told is gone is gone, and the    *)
(* calls that read agree with it.                                           *)
(***************************************************************************)
EXTENDS CSIService, TLAPS

(* The RPCs of a handler, and what its request names. *)
RpcsOf(method) ==
  CASE method = "CreateVolume"              -> {"create", "get"}
    [] method = "DeleteVolume"              -> {"delete"}
    [] method = "ControllerPublishVolume"   -> {"get", "publish", "connect"}
    [] method = "ControllerUnpublishVolume" -> {"get", "disconnect", "unpublish"}
    [] method = "NodeStageVolume"           -> {"get", "connect", "stage"}
    [] method = "NodeUnstageVolume"         -> {"get", "unstage", "disconnect"}
    [] method = "NodePublishVolume"         -> {"mount"}
    [] method = "NodeUnpublishVolume"       -> {"unmount"}

OnCourse(c) ==
  /\ c \in Call
  /\ c.rpc # "none" =>
       /\ c.rpc \in RpcsOf(c.method)
       /\ c.method \notin {"CreateVolume", "DeleteVolume"} => c.node \in Clients
       /\ c.method = "NodeStageVolume" => c.staging \in StagingPaths
       /\ c.method \in {"NodePublishVolume", "NodeUnpublishVolume"} => c.path \in MountPaths
       /\ c.rpc \in {"publish", "connect", "disconnect", "unpublish", "stage", "unstage"}
            => Exists(c.seen)

(* What the orchestrator has been told about what the call is about. *)
Awaited(c, t) ==
  CASE c.method \in {"CreateVolume", "DeleteVolume"} -> t.volume
    [] c.method \in {"ControllerPublishVolume", "ControllerUnpublishVolume"} -> t.attach[c.node]
    [] c.method \in {"NodeStageVolume", "NodeUnstageVolume"} -> t.stage[c.node]
    [] c.method \in {"NodePublishVolume", "NodeUnpublishVolume"} -> t.mount[c.node][c.path]

(* The order in which it asks: on one node at a time, and nothing on a node
   before it has been told of what that rests on. *)
InOrder(t) ==
  /\ \A n, m \in Clients : t.attach[n] # "no" /\ t.attach[m] # "no" => n = m
  /\ \A n \in Clients :
       /\ t.attach[n] # "no" => t.volume = "yes"
       /\ t.stage[n] # "no" => t.attach[n] = "yes"
       /\ \A p \in MountPaths : t.mount[n][p] # "no" => t.stage[n] = "yes"

(* The row suits its status, and the class it was created by. *)
Suits(r) ==
  /\ IsPublished(r) => r.serverHost # NoHost
  /\ IsConnected(r) => r.clientHost # NoHost
  /\ IsStaged(r) => r.stagingPath # NoPath
  /\ IsMounted(r) <=> r.targetPaths # {}
  /\ r.pathsNil => r.targetPaths = {}

(* The row is what was told, where something was told. *)
Fits(r, t) ==
  /\ t.volume = "yes" => Exists(r)
  /\ IsConnected(r) => t.attach[r.clientHost] # "no"
  /\ IsStaged(r) => t.stage[r.clientHost] # "no"
  /\ \A p \in r.targetPaths : t.mount[r.clientHost][p] # "no"
  /\ \A n \in Clients :
       /\ t.attach[n] = "yes" => IsPublished(r)
       /\ t.stage[n] = "yes" => IsStaged(r)
       /\ \A p \in MountPaths : t.mount[n][p] = "yes" => p \in r.targetPaths

Typed ==
  /\ row \in Volume
  /\ OnCourse(call)
  /\ told \in Beliefs
  /\ class \in Classes
  /\ faults \in 0..MaxFaults

CSIInv ==
  /\ Typed
  /\ call.rpc # "none" => Awaited(call, told) = "unsure"
  /\ InOrder(told)
  /\ Suits(row)
  /\ Exists(row) => row.mode = ModeOf(class.caps)
  /\ Fits(row, told)

-----------------------------------------------------------------------------
(* A row's columns. *)
LEMMA StatusType ==
  {UNSPECIFIED, INITIAL, PUBLISHED, CONNECTED, STAGED, MOUNTED} \subseteq Status
BY DEF Status, UNSPECIFIED, INITIAL, PUBLISHED, CONNECTED, STAGED, MOUNTED

LEMMA Rungs ==
  ASSUME NEW r, r.status \in Status
  PROVE  /\ IsPublished(r) => Exists(r)
         /\ IsConnected(r) => IsPublished(r)
         /\ IsStaged(r) => IsConnected(r)
         /\ IsMounted(r) => IsStaged(r)
         /\ r.status = UNSPECIFIED => ~Exists(r)
         /\ r.status = INITIAL => Exists(r) /\ ~IsPublished(r)
         /\ r.status = PUBLISHED => IsPublished(r) /\ ~IsConnected(r)
         /\ r.status = CONNECTED => IsConnected(r) /\ ~IsStaged(r)
         /\ r.status = STAGED => IsStaged(r) /\ ~IsMounted(r)
         /\ r.status = MOUNTED => IsMounted(r)
BY DEF Status, Exists, IsPublished, IsConnected, IsStaged, IsMounted, UNSPECIFIED, INITIAL,
       PUBLISHED, CONNECTED, STAGED, MOUNTED

LEMMA NoVolumeType ==
  /\ NoVolume \in Volume /\ NilVolume \in VolumeMessage
  /\ ~Exists(NoVolume) /\ NoVolume.targetPaths = {} /\ NoVolume.clientHost = NoHost
BY StatusType DEF NoVolume, NewVolume, NoOutputs, NilVolume, ToAPI, Volume,
   VolumeMessage, Modes, Transport, NoTransport, Exists, Volume_Mode, Volume_Status, Volume_Transport

LEMMA ToAPIType ==
  ASSUME NEW r \in Volume
  PROVE  /\ ToAPI(r) \in VolumeMessage
         /\ ToAPI(r).status = r.status /\ ToAPI(r).clientHost = r.clientHost
         /\ ToAPI(r).stagingPath = r.stagingPath
BY DEF ToAPI, Volume, VolumeMessage, Transport, Volume_Mode, Volume_Status, Volume_Transport

(* What Updates leaves: the row the handler has made, with the columns that it
   skips as they were. *)
LEMMA UpdatesFields ==
  ASSUME NEW r \in Volume, NEW v \in Volume, Exists(r), NEW u, u = Updates(r, v)
  PROVE  /\ u \in Volume
         /\ u.status = v.status /\ u.mode = v.mode
         /\ u.serverHost = IF v.serverHost = NoHost THEN r.serverHost ELSE v.serverHost
         /\ u.clientHost = IF v.clientHost = NoHost THEN r.clientHost ELSE v.clientHost
         /\ u.stagingPath = IF v.stagingPath = NoPath THEN r.stagingPath ELSE v.stagingPath
         /\ u.targetPaths = IF v.pathsNil THEN r.targetPaths ELSE v.targetPaths
         /\ u.pathsNil = (v.pathsNil /\ r.pathsNil)
         /\ v.pathsNil = r.pathsNil => u.pathsNil = r.pathsNil
         /\ ~v.pathsNil => ~u.pathsNil
BY DEF Updates, Kept, Volume

(* A message carries what the call names. *)
LEMMA MessageType ==
  ASSUME Typed, call.rpc # "none"
  PROVE  /\ Message(call) \in Request /\ Valid(Message(call))
         /\ Message(call).rpc = call.rpc
<1> DEFINE c == call
           m == Message(c)
<1>1. /\ c \in Call /\ c.rpc \in RpcsOf(c.method) /\ c.method \in Methods
      /\ c.method \notin {"CreateVolume", "DeleteVolume"} => c.node \in Clients
      /\ c.method = "NodeStageVolume" => c.staging \in StagingPaths
      /\ c.method \in {"NodePublishVolume", "NodeUnpublishVolume"} => c.path \in MountPaths
  BY DEF Typed, OnCourse, Call
<1>2. c.rpc \in {"create", "get", "delete", "publish", "connect", "disconnect", "unpublish",
                 "stage", "unstage", "mount", "unmount"}
  BY <1>1 DEF RpcsOf, Methods
<1> HIDE DEF c
<1>3. CASE c.rpc = "create"
  <2>1. m = [rpc |-> "create", volume |-> CreatedBy(class)]
    BY <1>3 DEF Message
  <2>2. /\ CreatedBy(class) \in VolumeMessage
        /\ CreatedBy(class).mode # "UNSPECIFIED"
    BY NoVolumeType, StorageHostAssumption DEF CreatedBy, ModeOf, ParsedTransport, VolumeMessage,
       Volume_Mode, Volume_Transport, Modes
  <2>3. m \in CreateVolumeRequest
    BY <2>1, <2>2 DEF CreateVolumeRequest
  <2> QED
    BY <1>3, <2>1, <2>2, <2>3 DEF Request, Valid, c
<1>4. CASE c.rpc = "publish"
  <2>1. m = [rpc |-> "publish", id |-> VolumeId, serverHost |-> StorageHost,
             transport |-> c.seen.transport]
    BY <1>4 DEF Message
  <2>2. c.seen.transport \in Volume_Transport
    BY <1>1 DEF Call, VolumeMessage
  <2>3. m \in PublishVolumeRequest
    BY <2>1, <2>2, StorageHostAssumption DEF PublishVolumeRequest
  <2> QED
    BY <1>4, <2>1, <2>3 DEF Request, Valid, c
<1>5. CASE c.rpc = "connect"
  <2>1. m = [rpc |-> "connect", id |-> VolumeId, clientHost |-> c.node]
    BY <1>5 DEF Message
  <2>2. c.node \in Clients
    BY <1>1, <1>5 DEF RpcsOf, Methods
  <2>3. m \in ConnectVolumeRequest
    BY <2>1, <2>2 DEF ConnectVolumeRequest
  <2> QED
    BY <1>5, <2>1, <2>2, <2>3, HostsAssumption DEF Request, Valid, c
<1>6. CASE c.rpc = "stage"
  <2>1. m = [rpc |-> "stage", id |-> VolumeId, stagingPath |-> c.staging]
    BY <1>6 DEF Message
  <2>2. c.staging \in StagingPaths
    BY <1>1, <1>6 DEF RpcsOf, Methods
  <2>3. m \in StageVolumeRequest
    BY <2>1, <2>2 DEF StageVolumeRequest
  <2> QED
    BY <1>6, <2>1, <2>2, <2>3, PathsAssumption DEF Request, Valid, c
<1>7. CASE c.rpc \in {"mount", "unmount"}
  <2>1. m = [rpc |-> c.rpc, id |-> VolumeId, mountPath |-> c.path]
    BY <1>7 DEF Message
  <2>2. c.path \in MountPaths
    BY <1>1, <1>7 DEF RpcsOf, Methods
  <2>3. m \in MountVolumeRequest \/ m \in UnmountVolumeRequest
    BY <1>7, <2>1, <2>2 DEF MountVolumeRequest, UnmountVolumeRequest
  <2> QED
    BY <1>7, <2>1, <2>2, <2>3, PathsAssumption DEF Request, Valid, c
<1>8. CASE c.rpc \in {"get", "delete", "unpublish", "disconnect", "unstage"}
  <2>1. m = [rpc |-> c.rpc, id |-> VolumeId]
    BY <1>8 DEF Message
  <2>2. m \in About(c.rpc)
    BY <2>1 DEF About
  <2> QED
    BY <1>8, <2>1, <2>2 DEF Request, Valid, c, GetVolumeRequest, DeleteVolumeRequest,
       UnpublishVolumeRequest, DisconnectVolumeRequest, UnstageVolumeRequest
<1> QED
  BY <1>2, <1>3, <1>4, <1>5, <1>6, <1>7, <1>8 DEF c

(* The replies, in the order of a handler's tests. *)
LEMMA Replies ==
  ASSUME NEW m, NEW r, Valid(m), m.rpc # "create"
  PROVE  /\ ~Exists(r) => Reply(m, r) = "notFound" /\ RowAfter(m, r) = r
         /\ Exists(r) /\ Refused(m, r) => Reply(m, r) = "invalid" /\ RowAfter(m, r) = r
         /\ Exists(r) /\ ~Refused(m, r) /\ Settled(m, r)
               => Reply(m, r) = "ok" /\ RowAfter(m, r) = r
         /\ Exists(r) /\ ~Refused(m, r) /\ ~Settled(m, r) /\ CommandFails(m, r)
               => Reply(m, r) = "internal" /\ RowAfter(m, r) = r
         /\ Exists(r) /\ ~Refused(m, r) /\ ~Settled(m, r) /\ ~CommandFails(m, r)
               => Reply(m, r) = "ok" /\ RowAfter(m, r) = Written(m, r)
<1>1. ~Exists(r) => Reply(m, r) = "notFound"
  BY DEF Reply
<1>2. Exists(r) /\ Refused(m, r) => Reply(m, r) = "invalid"
  BY DEF Reply
<1>3. Exists(r) /\ ~Refused(m, r) /\ Settled(m, r) => Reply(m, r) = "ok"
  BY DEF Reply
<1>4. Exists(r) /\ ~Refused(m, r) /\ ~Settled(m, r) /\ CommandFails(m, r)
         => Reply(m, r) = "internal"
  BY DEF Reply
<1>5. Exists(r) /\ ~Refused(m, r) /\ ~Settled(m, r) /\ ~CommandFails(m, r)
         => Reply(m, r) = "ok"
  BY DEF Reply
<1>6. RowAfter(m, r) = IF Reply(m, r) # "ok" \/ Settled(m, r) THEN r ELSE Written(m, r)
  BY DEF RowAfter
<1> QED
  BY <1>1, <1>2, <1>3, <1>4, <1>5, <1>6

-----------------------------------------------------------------------------
(* What each RPC of a call leaves of a row that suits its status, and what an
   answer says of it. *)

LEMMA GetRpc ==
  ASSUME Typed, call.rpc = "get"
  PROVE  /\ RowAfter(Message(call), row) = row
         /\ Reply(Message(call), row) = IF Exists(row) THEN "ok" ELSE "notFound"
<1>1. Message(call).rpc = "get" /\ Valid(Message(call))
  BY MessageType
<1>2. ~Refused(Message(call), row) /\ Settled(Message(call), row)
  BY <1>1 DEF Refused, Settled
<1> QED
  BY <1>1, <1>2, Replies

LEMMA CreateRpc ==
  ASSUME Typed, call.rpc = "create",
         NEW u, u = RowAfter(Message(call), row),
         NEW reply, reply = Reply(Message(call), row)
  PROVE  \/ /\ Exists(row) /\ u = row /\ reply = "exists"
         \/ /\ ~Exists(row) /\ reply = "ok"
            /\ u \in Volume /\ u.status = INITIAL /\ u.targetPaths = {} /\ u.clientHost = NoHost
            /\ u.mode = ModeOf(class.caps)
<1>1. Message(call) = [rpc |-> "create", volume |-> CreatedBy(class)] /\ Valid(Message(call))
  BY MessageType DEF Message
<1>2. reply = IF Exists(row) THEN "exists" ELSE "ok"
  <2> DEFINE m == Message(call)
  <2>1. m.rpc = "create" /\ Valid(m) /\ reply = Reply(m, row)
    BY <1>1
  <2> HIDE DEF m
  <2> QED
    BY <2>1 DEF Reply
<1>3. CASE Exists(row)
  BY <1>2, <1>3 DEF RowAfter
<1>4. CASE ~Exists(row)
  <2>1. u = [FromAPI(CreatedBy(class)) EXCEPT !.status = INITIAL]
    BY <1>1, <1>2, <1>4 DEF RowAfter, Settled, Written
  <2>2. CreatedBy(class) \in VolumeMessage /\ CreatedBy(class).mode = ModeOf(class.caps)
        /\ CreatedBy(class).targetPaths = {} /\ CreatedBy(class).clientHost = NoHost
    BY NoVolumeType, StorageHostAssumption, StatusType DEF CreatedBy, ModeOf, ParsedTransport,
       VolumeMessage, Volume_Mode, Volume_Transport, Modes, NilVolume, ToAPI, NoVolume,
       NewVolume, NoOutputs
  <2>3. ModeOf(class.caps) \in Modes
    BY DEF ModeOf, Modes
  <2> HIDE DEF CreatedBy
  <2>4. u \in Volume /\ u.status = INITIAL /\ u.targetPaths = {} /\ u.clientHost = NoHost
        /\ u.mode = ModeOf(class.caps)
    BY <2>1, <2>2, <2>3, StatusType DEF FromAPI, VolumeMessage, Volume, Transport, NoTransport,
       Volume_Transport
  <2> QED
    BY <1>2, <1>4, <2>4
<1> QED
  BY <1>3, <1>4

LEMMA DeleteRpc ==
  ASSUME Typed, call.rpc = "delete",
         NEW u, u = RowAfter(Message(call), row)
  PROVE  u = row \/ (~IsPublished(row) /\ u = NoVolume)
<1>1. Message(call).rpc = "delete" /\ Valid(Message(call))
  BY MessageType
<1>2. /\ Refused(Message(call), row) <=> IsPublished(row)
      /\ Written(Message(call), row) = NoVolume
  BY <1>1 DEF Refused, Written
<1> QED
  BY <1>1, <1>2, Replies

LEMMA PublishRpc ==
  ASSUME Typed, call.rpc = "publish",
         NEW u, u = RowAfter(Message(call), row),
         NEW reply, reply = Reply(Message(call), row)
  PROVE  /\ \/ u = row
            \/ /\ Exists(row) /\ ~IsPublished(row)
               /\ u \in Volume /\ u.status = PUBLISHED /\ u.serverHost = StorageHost
               /\ u.clientHost = row.clientHost /\ u.stagingPath = row.stagingPath
               /\ u.targetPaths = row.targetPaths /\ u.pathsNil = row.pathsNil
               /\ u.mode = row.mode
         /\ reply = "ok" => IsPublished(u)
<1> DEFINE m == Message(call)
           v == ToPublished(row, m.serverHost, Asked(m.transport))
<1>1. /\ m.rpc = "publish" /\ Valid(m) /\ m.serverHost = StorageHost
      /\ m.transport = call.seen.transport
  BY MessageType DEF Message
<1>2. row \in Volume /\ m.transport \in Volume_Transport
  BY <1>1 DEF Typed, OnCourse, Call, VolumeMessage
<1>3. ~Refused(m, row) /\ Settled(m, row) = IsPublished(row) /\ ~CommandFails(m, row)
      /\ Written(m, row) = Updates(row, v)
  BY <1>1 DEF Refused, Settled, CommandFails, Written
<1>4. /\ v \in Volume /\ v.status = PUBLISHED /\ v.serverHost = StorageHost
      /\ v.clientHost = row.clientHost /\ v.stagingPath = row.stagingPath
      /\ v.targetPaths = row.targetPaths /\ v.pathsNil = row.pathsNil /\ v.mode = row.mode
  BY <1>1, <1>2, StatusType, StorageHostAssumption DEF ToPublished, Asked, Volume, Transport,
     Volume_Transport
<1> HIDE DEF m, v
<1>5. CASE Exists(row) /\ ~IsPublished(row)
  <2>1. u = Updates(row, v)
    BY <1>1, <1>3, <1>5, Replies DEF m
  <2>2. /\ u \in Volume /\ u.status = PUBLISHED /\ u.serverHost = StorageHost
        /\ u.clientHost = row.clientHost /\ u.stagingPath = row.stagingPath
        /\ u.targetPaths = row.targetPaths /\ u.pathsNil = row.pathsNil
        /\ u.mode = row.mode
    BY <1>2, <1>4, <1>5, <2>1, UpdatesFields, HostsAssumption, StorageHostAssumption
  <2> QED
    BY <1>5, <2>2, Rungs DEF Volume
<1>6. CASE ~(Exists(row) /\ ~IsPublished(row))
  BY <1>1, <1>3, <1>6, Replies DEF m
<1> QED
  BY <1>5, <1>6

LEMMA UnpublishRpc ==
  ASSUME Typed, call.rpc = "unpublish",
         NEW u, u = RowAfter(Message(call), row),
         NEW reply, reply = Reply(Message(call), row)
  PROVE  /\ \/ u = row
            \/ /\ IsPublished(row) /\ ~IsConnected(row)
               /\ u \in Volume /\ u.status = INITIAL
               /\ u.clientHost = row.clientHost
               /\ u.targetPaths = row.targetPaths /\ u.pathsNil = row.pathsNil
               /\ u.mode = row.mode
         /\ reply = "ok" => ~IsPublished(u)
<1> DEFINE m == Message(call)
           v == ToUnpublished(row)
<1>1. m.rpc = "unpublish" /\ Valid(m)
  BY MessageType
<1>2. row \in Volume
  BY DEF Typed
<1>3. Refused(m, row) = IsConnected(row) /\ Settled(m, row) = ~IsPublished(row)
      /\ ~CommandFails(m, row) /\ Written(m, row) = Updates(row, v)
  BY <1>1 DEF Refused, Settled, CommandFails, Written
<1>4. /\ v \in Volume /\ v.status = INITIAL
      /\ v.clientHost = row.clientHost
      /\ v.targetPaths = row.targetPaths /\ v.pathsNil = row.pathsNil /\ v.mode = row.mode
  BY <1>2, StatusType DEF ToUnpublished, Volume, Transport, NoTransport
<1> HIDE DEF m, v
<1>5. CASE IsPublished(row) /\ ~IsConnected(row)
  <2>1. Exists(row) /\ u = Updates(row, v)
    BY <1>1, <1>2, <1>3, <1>5, Replies, Rungs DEF m, Volume
  <2>2. /\ u \in Volume /\ u.status = INITIAL
        /\ u.clientHost = row.clientHost
        /\ u.targetPaths = row.targetPaths /\ u.pathsNil = row.pathsNil
        /\ u.mode = row.mode
    BY <1>2, <1>4, <2>1, UpdatesFields
  <2> QED
    BY <1>5, <2>2, Rungs DEF Volume
<1>6. CASE ~(IsPublished(row) /\ ~IsConnected(row))
  BY <1>1, <1>2, <1>3, <1>6, Replies, Rungs DEF m, Volume
<1> QED
  BY <1>5, <1>6

LEMMA ConnectRpc ==
  ASSUME Typed, call.rpc = "connect",
         NEW u, u = RowAfter(Message(call), row),
         NEW reply, reply = Reply(Message(call), row)
  PROVE  /\ \/ u = row
            \/ /\ IsPublished(row) /\ ~IsConnected(row)
               /\ u \in Volume /\ u.status = CONNECTED /\ u.serverHost = row.serverHost
               /\ u.clientHost = call.node
               /\ u.targetPaths = row.targetPaths /\ u.pathsNil = row.pathsNil
               /\ u.mode = row.mode
         /\ call.node \in Clients
         /\ reply = "ok" => IsConnected(u)
<1> DEFINE m == Message(call)
           v == ToConnected(row, m.clientHost)
<1>1. m.rpc = "connect" /\ Valid(m) /\ m.clientHost = call.node
  BY MessageType DEF Message
<1>2. row \in Volume /\ call.node \in Clients
  BY DEF Typed, OnCourse, RpcsOf, Call, Methods
<1>3. Refused(m, row) = ~IsPublished(row) /\ Settled(m, row) = IsConnected(row)
      /\ ~CommandFails(m, row) /\ Written(m, row) = Updates(row, v)
  BY <1>1 DEF Refused, Settled, CommandFails, Written
<1>4. /\ v \in Volume /\ v.status = CONNECTED /\ v.serverHost = row.serverHost
      /\ v.clientHost = call.node
      /\ v.targetPaths = row.targetPaths /\ v.pathsNil = row.pathsNil /\ v.mode = row.mode
  BY <1>1, <1>2, StatusType DEF ToConnected, Volume, Transport
<1> HIDE DEF m, v
<1>5. CASE IsPublished(row) /\ ~IsConnected(row)
  <2>1. Exists(row) /\ u = Updates(row, v)
    BY <1>1, <1>2, <1>3, <1>5, Replies, Rungs DEF m, Volume
  <2>2. /\ u \in Volume /\ u.status = CONNECTED /\ u.serverHost = row.serverHost
        /\ u.clientHost = call.node
        /\ u.targetPaths = row.targetPaths /\ u.pathsNil = row.pathsNil
        /\ u.mode = row.mode
    BY <1>2, <1>4, <2>1, UpdatesFields, HostsAssumption
  <2> QED
    BY <1>2, <1>5, <2>2, Rungs DEF Volume
<1>6. CASE ~(IsPublished(row) /\ ~IsConnected(row))
  BY <1>1, <1>2, <1>3, <1>6, Replies, Rungs DEF m, Volume
<1> QED
  BY <1>5, <1>6

LEMMA DisconnectRpc ==
  ASSUME Typed, call.rpc = "disconnect",
         NEW u, u = RowAfter(Message(call), row),
         NEW reply, reply = Reply(Message(call), row)
  PROVE  /\ \/ u = row
            \/ /\ IsConnected(row) /\ ~IsMounted(row)
               /\ u \in Volume /\ u.status = PUBLISHED /\ u.serverHost = row.serverHost
               /\ u.clientHost = row.clientHost
               /\ u.targetPaths = row.targetPaths /\ u.pathsNil = row.pathsNil
               /\ u.mode = row.mode
         /\ reply = "ok" => ~IsConnected(u)
<1> DEFINE m == Message(call)
           v == ToDisconnected(row)
<1>1. m.rpc = "disconnect" /\ Valid(m)
  BY MessageType
<1>2. row \in Volume
  BY DEF Typed
<1>3. Refused(m, row) = (~IsPublished(row) \/ IsMounted(row))
      /\ Settled(m, row) = ~IsConnected(row)
      /\ ~CommandFails(m, row) /\ Written(m, row) = Updates(row, v)
  BY <1>1 DEF Refused, Settled, CommandFails, Written
<1>4. /\ v \in Volume /\ v.status = PUBLISHED /\ v.serverHost = row.serverHost
      /\ v.clientHost = NoHost
      /\ v.targetPaths = row.targetPaths /\ v.pathsNil = row.pathsNil /\ v.mode = row.mode
  BY <1>2, StatusType DEF ToDisconnected, Volume, Transport
<1> HIDE DEF m, v
<1>5. CASE IsConnected(row) /\ ~IsMounted(row)
  <2>1. Exists(row) /\ u = Updates(row, v)
    BY <1>1, <1>2, <1>3, <1>5, Replies, Rungs DEF m, Volume
  <2>2. /\ u \in Volume /\ u.status = PUBLISHED /\ u.serverHost = row.serverHost
        /\ u.clientHost = row.clientHost
        /\ u.targetPaths = row.targetPaths /\ u.pathsNil = row.pathsNil
        /\ u.mode = row.mode
    BY <1>2, <1>4, <2>1, UpdatesFields
  <2> QED
    BY <1>5, <2>2, Rungs DEF Volume
<1>6. CASE ~(IsConnected(row) /\ ~IsMounted(row))
  BY <1>1, <1>2, <1>3, <1>6, Replies, Rungs DEF m, Volume
<1> QED
  BY <1>5, <1>6

LEMMA StageRpc ==
  ASSUME Typed, call.rpc = "stage",
         NEW u, u = RowAfter(Message(call), row),
         NEW reply, reply = Reply(Message(call), row)
  PROVE  /\ \/ u = row
            \/ /\ IsConnected(row) /\ ~IsStaged(row)
               /\ u \in Volume /\ u.status = STAGED /\ u.serverHost = row.serverHost
               /\ u.clientHost = row.clientHost /\ u.stagingPath \in StagingPaths
               /\ u.targetPaths = row.targetPaths /\ u.pathsNil = row.pathsNil
               /\ u.mode = row.mode
         /\ reply = "ok" => IsStaged(u)
<1> DEFINE m == Message(call)
           v == ToStaged(row, m.stagingPath)
<1>1. m.rpc = "stage" /\ Valid(m) /\ m.stagingPath = call.staging
  BY MessageType DEF Message
<1>2. row \in Volume /\ call.staging \in StagingPaths
  BY DEF Typed, OnCourse, RpcsOf, Call, Methods
<1>3. /\ ~IsConnected(row) => Refused(m, row)
      /\ IsConnected(row) /\ ~IsStaged(row) => ~Refused(m, row)
      /\ Settled(m, row) <=> IsStaged(row)
      /\ Written(m, row) = Updates(row, v)
  BY <1>1 DEF Refused, Settled, Written, IsConnected, IsStaged
<1>4. /\ v \in Volume /\ v.status = STAGED /\ v.serverHost = row.serverHost
      /\ v.clientHost = row.clientHost /\ v.stagingPath = call.staging
      /\ v.targetPaths = row.targetPaths /\ v.pathsNil = row.pathsNil /\ v.mode = row.mode
  BY <1>1, <1>2, StatusType DEF ToStaged, Volume, Transport
<1> HIDE DEF m, v
<1>5. CASE IsConnected(row) /\ ~IsStaged(row) /\ ~CommandFails(m, row)
  <2>1. Exists(row) /\ u = Updates(row, v)
    BY <1>1, <1>2, <1>3, <1>5, Replies, Rungs DEF m, Volume
  <2>2. /\ u \in Volume /\ u.status = STAGED /\ u.serverHost = row.serverHost
        /\ u.clientHost = row.clientHost /\ u.stagingPath = call.staging
        /\ u.targetPaths = row.targetPaths /\ u.pathsNil = row.pathsNil
        /\ u.mode = row.mode
    BY <1>2, <1>4, <2>1, UpdatesFields, PathsAssumption
  <2> QED
    BY <1>2, <1>5, <2>2, Rungs DEF Volume
<1>6. CASE ~(IsConnected(row) /\ ~IsStaged(row) /\ ~CommandFails(m, row))
  BY <1>1, <1>2, <1>3, <1>6, Replies, Rungs DEF m, Volume
<1> QED
  BY <1>5, <1>6

LEMMA UnstageRpc ==
  ASSUME Typed, call.rpc = "unstage",
         NEW u, u = RowAfter(Message(call), row),
         NEW reply, reply = Reply(Message(call), row)
  PROVE  /\ \/ u = row
            \/ /\ IsStaged(row) /\ ~IsMounted(row)
               /\ u \in Volume /\ u.status = CONNECTED /\ u.serverHost = row.serverHost
               /\ u.clientHost = row.clientHost
               /\ u.targetPaths = row.targetPaths /\ u.pathsNil = row.pathsNil
               /\ u.mode = row.mode
         /\ reply = "ok" => ~IsStaged(u)
<1> DEFINE m == Message(call)
           v == ToUnstaged(row)
<1>1. m.rpc = "unstage" /\ Valid(m)
  BY MessageType
<1>2. row \in Volume
  BY DEF Typed
<1>3. Refused(m, row) = IsMounted(row) /\ Settled(m, row) = ~IsStaged(row)
      /\ ~CommandFails(m, row) /\ Written(m, row) = Updates(row, v)
  BY <1>1 DEF Refused, Settled, CommandFails, Written
<1>4. /\ v \in Volume /\ v.status = CONNECTED /\ v.serverHost = row.serverHost
      /\ v.clientHost = row.clientHost
      /\ v.targetPaths = row.targetPaths /\ v.pathsNil = row.pathsNil /\ v.mode = row.mode
  BY <1>2, StatusType DEF ToUnstaged, Volume, Transport
<1> HIDE DEF m, v
<1>5. CASE IsStaged(row) /\ ~IsMounted(row)
  <2>1. Exists(row) /\ u = Updates(row, v)
    BY <1>1, <1>2, <1>3, <1>5, Replies, Rungs DEF m, Volume
  <2>2. /\ u \in Volume /\ u.status = CONNECTED /\ u.serverHost = row.serverHost
        /\ u.clientHost = row.clientHost
        /\ u.targetPaths = row.targetPaths /\ u.pathsNil = row.pathsNil
        /\ u.mode = row.mode
    BY <1>2, <1>4, <2>1, UpdatesFields
  <2> QED
    BY <1>5, <2>2, Rungs DEF Volume
<1>6. CASE ~(IsStaged(row) /\ ~IsMounted(row))
  BY <1>1, <1>2, <1>3, <1>6, Replies, Rungs DEF m, Volume
<1> QED
  BY <1>5, <1>6

LEMMA MountRpc ==
  ASSUME Typed, call.rpc = "mount",
         NEW u, u = RowAfter(Message(call), row),
         NEW reply, reply = Reply(Message(call), row)
  PROVE  /\ \/ u = row
            \/ /\ IsStaged(row)
               /\ u \in Volume /\ u.status = MOUNTED /\ u.serverHost = row.serverHost
               /\ u.clientHost = row.clientHost /\ u.stagingPath = row.stagingPath
               /\ u.targetPaths = row.targetPaths \cup {call.path} /\ ~u.pathsNil
               /\ u.mode = row.mode
         /\ reply = "ok" => call.path \in u.targetPaths
<1> DEFINE m == Message(call)
           v == ToMounted(row, m.mountPath)
<1>1. m.rpc = "mount" /\ Valid(m) /\ m.mountPath = call.path
  BY MessageType DEF Message
<1>2. row \in Volume /\ call.path \in MountPaths
  BY DEF Typed, OnCourse, RpcsOf, Call, Methods
<1>3. /\ Refused(m, row) <=> ~IsStaged(row)
      /\ Settled(m, row) <=> call.path \in row.targetPaths
      /\ ~CommandFails(m, row) /\ Written(m, row) = Updates(row, v)
  BY <1>1 DEF Refused, Settled, CommandFails, Written
<1>4. /\ v \in Volume /\ v.status = MOUNTED /\ v.serverHost = row.serverHost
      /\ v.clientHost = row.clientHost /\ v.stagingPath = row.stagingPath
      /\ v.targetPaths = row.targetPaths \cup {call.path} /\ ~v.pathsNil /\ v.mode = row.mode
  BY <1>1, <1>2, StatusType DEF ToMounted, Volume, Transport
<1> HIDE DEF m, v
<1>5. CASE IsStaged(row) /\ call.path \notin row.targetPaths
  <2>1. Exists(row) /\ u = Updates(row, v)
    BY <1>1, <1>2, <1>3, <1>5, Replies, Rungs DEF m, Volume
  <2>2. /\ u \in Volume /\ u.status = MOUNTED /\ u.serverHost = row.serverHost
        /\ u.clientHost = row.clientHost /\ u.stagingPath = row.stagingPath
        /\ u.targetPaths = row.targetPaths \cup {call.path} /\ ~u.pathsNil
        /\ u.mode = row.mode
    BY <1>2, <1>4, <2>1, UpdatesFields
  <2> QED
    BY <1>5, <2>2
<1>6. CASE ~(IsStaged(row) /\ call.path \notin row.targetPaths)
  BY <1>1, <1>2, <1>3, <1>6, Replies, Rungs DEF m, Volume
<1> QED
  BY <1>5, <1>6

LEMMA UnmountRpc ==
  ASSUME Typed, Suits(row), call.rpc = "unmount",
         NEW u, u = RowAfter(Message(call), row),
         NEW reply, reply = Reply(Message(call), row)
  PROVE  /\ \/ u = row
            \/ /\ IsMounted(row)
               /\ u \in Volume /\ u.serverHost = row.serverHost
               /\ u.status = IF row.targetPaths \subseteq {call.path} THEN STAGED ELSE MOUNTED
               /\ u.clientHost = row.clientHost /\ u.stagingPath = row.stagingPath
               /\ u.targetPaths = row.targetPaths \ {call.path} /\ ~u.pathsNil
               /\ u.mode = row.mode
         /\ reply \in {"ok", "notFound"} /\ call.path \notin u.targetPaths
<1> DEFINE m == Message(call)
           v == ToUnmounted(row, m.mountPath)
<1>1. m.rpc = "unmount" /\ Valid(m) /\ m.mountPath = call.path
  BY MessageType DEF Message
<1>2. row \in Volume /\ call.path \in MountPaths
  BY DEF Typed, OnCourse, RpcsOf, Call, Methods
<1>3. ~Refused(m, row) /\ Settled(m, row) = (call.path \notin row.targetPaths)
      /\ ~CommandFails(m, row) /\ Written(m, row) = Updates(row, v)
  BY <1>1 DEF Refused, Settled, CommandFails, Written
<1>4. /\ v \in Volume /\ v.serverHost = row.serverHost
      /\ v.status = IF row.targetPaths \subseteq {call.path} THEN STAGED ELSE row.status
      /\ v.clientHost = row.clientHost /\ v.stagingPath = row.stagingPath
      /\ v.targetPaths = row.targetPaths \ {call.path} /\ v.pathsNil = row.pathsNil
      /\ v.mode = row.mode
  BY <1>1, <1>2, StatusType DEF ToUnmounted, Volume, Transport
<1> HIDE DEF m, v
<1>5. CASE call.path \in row.targetPaths
  <2>1. /\ IsMounted(row) /\ ~row.pathsNil
    BY <1>5 DEF Suits
  <2>2. row.status = MOUNTED
    BY <1>2, <2>1 DEF IsMounted, Volume, Status, UNSPECIFIED, MOUNTED
  <2>3. Exists(row) /\ u = Updates(row, v)
    BY <1>1, <1>2, <1>3, <1>5, <2>1, Replies, Rungs DEF m, Volume
  <2>4. /\ u \in Volume /\ u.serverHost = row.serverHost
        /\ u.status = IF row.targetPaths \subseteq {call.path} THEN STAGED ELSE MOUNTED
        /\ u.clientHost = row.clientHost /\ u.stagingPath = row.stagingPath
        /\ u.targetPaths = row.targetPaths \ {call.path} /\ ~u.pathsNil
        /\ u.mode = row.mode
    BY <1>2, <1>4, <2>1, <2>2, <2>3, UpdatesFields
  <2>5. reply = "ok"
    BY <1>1, <1>3, <1>5, <2>3, Replies DEF m
  <2> QED
    BY <2>1, <2>4, <2>5
<1>6. CASE call.path \notin row.targetPaths
  BY <1>1, <1>3, <1>6, Replies DEF m
<1> QED
  BY <1>5, <1>6

-----------------------------------------------------------------------------
(* What has been told while a call is in flight, and where the volume is. *)

LEMMA MethodOf ==
  ASSUME Typed, call.rpc # "none"
  PROVE  /\ call.method \in Methods /\ call.rpc \in RpcsOf(call.method)
         /\ call.rpc = "create" => call.method = "CreateVolume"
         /\ call.rpc = "delete" => call.method = "DeleteVolume"
         /\ call.rpc = "publish" => call.method = "ControllerPublishVolume"
         /\ call.rpc = "unpublish" => call.method = "ControllerUnpublishVolume"
         /\ call.rpc = "connect" => call.method \in {"ControllerPublishVolume", "NodeStageVolume"}
         /\ call.rpc = "disconnect"
              => call.method \in {"ControllerUnpublishVolume", "NodeUnstageVolume"}
         /\ call.rpc = "stage" => call.method = "NodeStageVolume"
         /\ call.rpc = "unstage" => call.method = "NodeUnstageVolume"
         /\ call.rpc = "mount" => call.method = "NodePublishVolume"
         /\ call.rpc = "unmount" => call.method = "NodeUnpublishVolume"
         /\ call.rpc \in {"create", "get", "delete", "publish", "connect", "disconnect",
                          "unpublish", "stage", "unstage", "mount", "unmount"}
         /\ call.method \notin {"CreateVolume", "DeleteVolume"} => call.node \in Clients
         /\ call.method \in {"NodePublishVolume", "NodeUnpublishVolume"} => call.path \in MountPaths
<1>1. call.method \in Methods /\ call.rpc \in RpcsOf(call.method)
  BY DEF Typed, OnCourse, Call
<1>2. /\ call.method \notin {"CreateVolume", "DeleteVolume"} => call.node \in Clients
      /\ call.method \in {"NodePublishVolume", "NodeUnpublishVolume"} => call.path \in MountPaths
  BY DEF Typed, OnCourse
<1> QED
  BY <1>1, <1>2 DEF RpcsOf, Methods

LEMMA AboutVolume ==
  ASSUME CSIInv, call.rpc # "none", call.method \in {"CreateVolume", "DeleteVolume"}
  PROVE  /\ told.volume = "unsure" /\ ~IsConnected(row)
         /\ \A n \in Clients :
              /\ told.attach[n] = "no" /\ told.stage[n] = "no"
              /\ \A p \in MountPaths : told.mount[n][p] = "no"
<1>1. told.volume = "unsure"
  BY DEF CSIInv, Awaited
<1>2. \A n \in Clients :
         /\ told.attach[n] = "no" /\ told.stage[n] = "no"
         /\ \A p \in MountPaths : told.mount[n][p] = "no"
  BY <1>1 DEF CSIInv, InOrder
<1>3. IsConnected(row) => row.clientHost \in Clients /\ told.attach[row.clientHost] # "no"
  BY DEF CSIInv, Typed, Suits, Fits, Volume
<1> QED
  BY <1>1, <1>2, <1>3

LEMMA AboutAttach ==
  ASSUME CSIInv, call.rpc # "none",
         call.method \in {"ControllerPublishVolume", "ControllerUnpublishVolume"}
  PROVE  /\ call.node \in Clients /\ told.attach[call.node] = "unsure" /\ told.volume = "yes"
         /\ \A n \in Clients :
              /\ n # call.node => told.attach[n] = "no"
              /\ told.stage[n] = "no"
              /\ \A p \in MountPaths : told.mount[n][p] = "no"
         /\ IsConnected(row) => row.clientHost = call.node
<1>1. call.node \in Clients /\ told.attach[call.node] = "unsure"
  BY MethodOf DEF CSIInv, Awaited
<1>2. /\ told.volume = "yes"
      /\ \A n \in Clients : n # call.node => told.attach[n] = "no"
  BY <1>1 DEF CSIInv, InOrder
<1>3. \A n \in Clients :
         told.stage[n] = "no" /\ \A p \in MountPaths : told.mount[n][p] = "no"
  BY <1>1, <1>2 DEF CSIInv, InOrder
<1>4. IsConnected(row) => row.clientHost \in Clients /\ told.attach[row.clientHost] # "no"
  BY DEF CSIInv, Typed, Suits, Fits, Volume
<1> QED
  BY <1>1, <1>2, <1>3, <1>4

LEMMA AboutStage ==
  ASSUME CSIInv, call.rpc # "none", call.method \in {"NodeStageVolume", "NodeUnstageVolume"}
  PROVE  /\ call.node \in Clients /\ told.stage[call.node] = "unsure"
         /\ told.attach[call.node] = "yes" /\ told.volume = "yes"
         /\ \A n \in Clients :
              /\ n # call.node => told.attach[n] = "no" /\ told.stage[n] = "no"
              /\ \A p \in MountPaths : told.mount[n][p] = "no"
         /\ IsPublished(row)
         /\ IsConnected(row) => row.clientHost = call.node
<1>1. call.node \in Clients /\ told.stage[call.node] = "unsure"
  BY MethodOf DEF CSIInv, Awaited
<1>2. told.attach[call.node] = "yes" /\ told.volume = "yes"
  BY <1>1 DEF CSIInv, InOrder
<1>3. \A n \in Clients :
         n # call.node => told.attach[n] = "no" /\ told.stage[n] = "no"
  BY <1>1, <1>2 DEF CSIInv, InOrder
<1>4. \A n \in Clients : \A p \in MountPaths : told.mount[n][p] = "no"
  BY <1>1, <1>3 DEF CSIInv, InOrder
<1>5. IsConnected(row) => row.clientHost \in Clients /\ told.attach[row.clientHost] # "no"
  BY DEF CSIInv, Typed, Suits, Fits, Volume
<1>6. IsPublished(row)
  BY <1>1, <1>2 DEF CSIInv, Fits
<1> QED
  BY <1>1, <1>2, <1>3, <1>4, <1>5, <1>6

LEMMA AboutMount ==
  ASSUME CSIInv, call.rpc # "none", call.method \in {"NodePublishVolume", "NodeUnpublishVolume"}
  PROVE  /\ call.node \in Clients /\ call.path \in MountPaths
         /\ told.mount[call.node][call.path] = "unsure"
         /\ told.stage[call.node] = "yes" /\ told.attach[call.node] = "yes"
         /\ told.volume = "yes"
         /\ \A n \in Clients : n # call.node =>
              /\ told.attach[n] = "no" /\ told.stage[n] = "no"
              /\ \A p \in MountPaths : told.mount[n][p] = "no"
         /\ IsStaged(row) /\ IsConnected(row) /\ row.clientHost = call.node
<1>1. /\ call.node \in Clients /\ call.path \in MountPaths
      /\ told.mount[call.node][call.path] = "unsure"
  BY MethodOf DEF CSIInv, Awaited
<1>2. /\ told.stage[call.node] = "yes" /\ told.attach[call.node] = "yes"
      /\ told.volume = "yes"
  BY <1>1 DEF CSIInv, InOrder
<1>3. \A n \in Clients : n # call.node =>
         /\ told.attach[n] = "no" /\ told.stage[n] = "no"
         /\ \A p \in MountPaths : told.mount[n][p] = "no"
  BY <1>1, <1>2 DEF CSIInv, InOrder
<1>4. IsConnected(row) => row.clientHost \in Clients /\ told.attach[row.clientHost] # "no"
  BY DEF CSIInv, Typed, Suits, Fits, Volume
<1>5. IsStaged(row)
  BY <1>1, <1>2 DEF CSIInv, Fits
<1>6. IsConnected(row)
  BY <1>5, Rungs DEF CSIInv, Typed, Volume
<1> QED
  BY <1>1, <1>2, <1>3, <1>4, <1>5, <1>6

-----------------------------------------------------------------------------
(* An RPC, answered or not, leaves a row that suits its status and fits what
   has been told: what the call is about is unsure meanwhile. *)
LEMMA RowKept ==
  ASSUME CSIInv, call.rpc # "none",
         NEW u, u = RowAfter(Message(call), row)
  PROVE  /\ u \in Volume /\ Suits(u)
         /\ Exists(u) => u.mode = ModeOf(class.caps)
         /\ Fits(u, told)
<1>1. Typed /\ Suits(row) /\ row \in Volume /\ Fits(row, told)
      /\ (Exists(row) => row.mode = ModeOf(class.caps))
  BY DEF CSIInv, Typed
<1>2. SUFFICES ASSUME u # row
               PROVE  /\ u \in Volume /\ Suits(u)
                      /\ Exists(u) => u.mode = ModeOf(class.caps)
                      /\ Fits(u, told)
  BY <1>1
<1>3. row.status \in Status /\ (u \in Volume => u.status \in Status)
  BY <1>1 DEF Volume
<1>4. IsConnected(row) => row.clientHost \in Clients
  BY <1>1 DEF Suits, Volume
<1>5. CASE call.rpc = "create"
  <2>1. /\ u \in Volume /\ u.status = INITIAL /\ u.targetPaths = {}
        /\ u.mode = ModeOf(class.caps)
    BY <1>1, <1>2, <1>5, CreateRpc
  <2>2. /\ told.volume = "unsure"
        /\ \A n \in Clients :
             /\ told.attach[n] = "no" /\ told.stage[n] = "no"
             /\ \A p \in MountPaths : told.mount[n][p] = "no"
    BY <1>1, <1>5, AboutVolume, MethodOf
  <2>3. ~IsPublished(u) /\ ~IsConnected(u) /\ ~IsStaged(u) /\ ~IsMounted(u)
    BY <1>3, <2>1, Rungs
  <2> QED
    BY <2>1, <2>2, <2>3 DEF Suits, Fits
<1>6. CASE call.rpc = "delete"
  <2>1. u = NoVolume
    BY <1>1, <1>2, <1>6, DeleteRpc
  <2>2. /\ told.volume = "unsure"
        /\ \A n \in Clients :
             /\ told.attach[n] = "no" /\ told.stage[n] = "no"
             /\ \A p \in MountPaths : told.mount[n][p] = "no"
    BY <1>1, <1>6, AboutVolume, MethodOf
  <2>3. u \in Volume /\ u.targetPaths = {} /\ ~Exists(u)
    BY <2>1, NoVolumeType
  <2>4. ~IsPublished(u) /\ ~IsConnected(u) /\ ~IsStaged(u) /\ ~IsMounted(u)
    BY <1>3, <2>3, Rungs
  <2> QED
    BY <2>2, <2>3, <2>4 DEF Suits, Fits
<1>7. CASE call.rpc = "publish"
  <2>1. /\ Exists(row) /\ ~IsPublished(row)
        /\ u \in Volume /\ u.status = PUBLISHED /\ u.serverHost = StorageHost
        /\ u.targetPaths = row.targetPaths /\ u.pathsNil = row.pathsNil
        /\ u.mode = row.mode
    BY <1>1, <1>2, <1>7, PublishRpc
  <2>2. ~IsMounted(row) /\ ~IsStaged(row)
    BY <1>3, <2>1, Rungs
  <2>3. Exists(u) /\ IsPublished(u) /\ ~IsConnected(u) /\ ~IsStaged(u) /\ ~IsMounted(u)
    BY <1>3, <2>1, Rungs
  <2>4. row.targetPaths = {}
    BY <1>1, <2>2 DEF Suits
  <2> QED
    BY <1>1, <2>1, <2>2, <2>3, <2>4, StorageHostAssumption, HostsAssumption DEF Suits, Fits
<1>8. CASE call.rpc = "unpublish"
  <2>1. /\ IsPublished(row) /\ ~IsConnected(row)
        /\ u \in Volume /\ u.status = INITIAL
        /\ u.targetPaths = row.targetPaths /\ u.pathsNil = row.pathsNil
        /\ u.mode = row.mode
    BY <1>1, <1>2, <1>8, UnpublishRpc
  <2>2. ~IsMounted(row) /\ ~IsStaged(row) /\ Exists(row)
    BY <1>3, <2>1, Rungs
  <2>3. Exists(u) /\ ~IsPublished(u) /\ ~IsConnected(u) /\ ~IsStaged(u) /\ ~IsMounted(u)
    BY <1>3, <2>1, Rungs
  <2>4. row.targetPaths = {}
    BY <1>1, <2>2 DEF Suits
  <2>5. \A n \in Clients : told.attach[n] # "yes"
    BY <1>8, AboutAttach, MethodOf, <1>1
  <2> QED
    BY <1>1, <2>1, <2>2, <2>3, <2>4, <2>5 DEF Suits, Fits
<1>9. CASE call.rpc = "connect"
  <2>1. /\ IsPublished(row) /\ ~IsConnected(row)
        /\ u \in Volume /\ u.status = CONNECTED /\ u.serverHost = row.serverHost
        /\ u.clientHost = call.node /\ call.node \in Clients
        /\ u.targetPaths = row.targetPaths /\ u.pathsNil = row.pathsNil
        /\ u.mode = row.mode
    BY <1>1, <1>2, <1>9, ConnectRpc
  <2>2. ~IsMounted(row) /\ ~IsStaged(row) /\ Exists(row)
    BY <1>3, <2>1, Rungs
  <2>3. Exists(u) /\ IsPublished(u) /\ IsConnected(u) /\ ~IsStaged(u) /\ ~IsMounted(u)
    BY <1>3, <2>1, Rungs
  <2>4. row.targetPaths = {}
    BY <1>1, <2>2 DEF Suits
  <2>5. told.attach[call.node] # "no"
    BY <1>1, <1>9, AboutAttach, AboutStage, MethodOf
  <2> QED
    BY <1>1, <2>1, <2>2, <2>3, <2>4, <2>5, HostsAssumption DEF Suits, Fits
<1>10. CASE call.rpc = "disconnect"
  <2>1. /\ IsConnected(row) /\ ~IsMounted(row)
        /\ u \in Volume /\ u.status = PUBLISHED /\ u.serverHost = row.serverHost
        /\ u.targetPaths = row.targetPaths /\ u.pathsNil = row.pathsNil
        /\ u.mode = row.mode
    BY <1>1, <1>2, <1>10, DisconnectRpc
  <2>2. Exists(row) /\ IsPublished(row)
    BY <1>3, <2>1, Rungs
  <2>3. Exists(u) /\ IsPublished(u) /\ ~IsConnected(u) /\ ~IsStaged(u) /\ ~IsMounted(u)
    BY <1>3, <2>1, Rungs
  <2>4. row.targetPaths = {}
    BY <1>1, <2>1 DEF Suits
  <2>5. \A n \in Clients : told.stage[n] # "yes"
    BY <1>1, <1>10, AboutAttach, AboutStage, MethodOf
  <2> QED
    BY <1>1, <2>1, <2>2, <2>3, <2>4, <2>5 DEF Suits, Fits
<1>11. CASE call.rpc = "stage"
  <2>1. /\ IsConnected(row) /\ ~IsStaged(row)
        /\ u \in Volume /\ u.status = STAGED /\ u.serverHost = row.serverHost
        /\ u.clientHost = row.clientHost /\ u.stagingPath \in StagingPaths
        /\ u.targetPaths = row.targetPaths /\ u.pathsNil = row.pathsNil
        /\ u.mode = row.mode
    BY <1>1, <1>2, <1>11, StageRpc
  <2>2. Exists(row) /\ IsPublished(row) /\ ~IsMounted(row)
    BY <1>3, <2>1, Rungs
  <2>3. Exists(u) /\ IsPublished(u) /\ IsConnected(u) /\ IsStaged(u) /\ ~IsMounted(u)
    BY <1>3, <2>1, Rungs
  <2>4. row.targetPaths = {}
    BY <1>1, <2>2 DEF Suits
  <2>5. row.clientHost = call.node /\ told.stage[call.node] # "no"
    BY <1>1, <1>11, <2>1, AboutStage, MethodOf
  <2>6. u.stagingPath # NoPath
    BY <2>1, PathsAssumption
  <2> QED
    BY <1>1, <2>1, <2>2, <2>3, <2>4, <2>5, <2>6 DEF Suits, Fits
<1>12. CASE call.rpc = "unstage"
  <2>1. /\ IsStaged(row) /\ ~IsMounted(row)
        /\ u \in Volume /\ u.status = CONNECTED /\ u.serverHost = row.serverHost
        /\ u.clientHost = row.clientHost
        /\ u.targetPaths = row.targetPaths /\ u.pathsNil = row.pathsNil
        /\ u.mode = row.mode
    BY <1>1, <1>2, <1>12, UnstageRpc
  <2>2. Exists(row) /\ IsPublished(row) /\ IsConnected(row)
    BY <1>3, <2>1, Rungs
  <2>3. Exists(u) /\ IsPublished(u) /\ IsConnected(u) /\ ~IsStaged(u) /\ ~IsMounted(u)
    BY <1>3, <2>1, Rungs
  <2>4. row.targetPaths = {}
    BY <1>1, <2>1 DEF Suits
  <2>5. \A n \in Clients : told.stage[n] # "yes"
    BY <1>1, <1>12, AboutStage, MethodOf
  <2> QED
    BY <1>1, <2>1, <2>2, <2>3, <2>4, <2>5 DEF Suits, Fits
<1>13. CASE call.rpc = "mount"
  <2>1. /\ IsStaged(row)
        /\ u \in Volume /\ u.status = MOUNTED /\ u.serverHost = row.serverHost
        /\ u.clientHost = row.clientHost /\ u.stagingPath = row.stagingPath
        /\ u.targetPaths = row.targetPaths \cup {call.path} /\ ~u.pathsNil
        /\ u.mode = row.mode
    BY <1>1, <1>2, <1>13, MountRpc
  <2>2. Exists(row) /\ IsPublished(row) /\ IsConnected(row)
    BY <1>3, <2>1, Rungs
  <2>3. Exists(u) /\ IsPublished(u) /\ IsConnected(u) /\ IsStaged(u) /\ IsMounted(u)
    BY <1>3, <2>1, Rungs
  <2>4. row.clientHost = call.node /\ told.mount[call.node][call.path] # "no"
    BY <1>1, <1>13, AboutMount, MethodOf
  <2> QED
    BY <1>1, <2>1, <2>2, <2>3, <2>4 DEF Suits, Fits
<1>14. CASE call.rpc = "unmount"
  <2>1. /\ IsMounted(row)
        /\ u \in Volume /\ u.serverHost = row.serverHost
        /\ u.status = IF row.targetPaths \subseteq {call.path} THEN STAGED ELSE MOUNTED
        /\ u.clientHost = row.clientHost /\ u.stagingPath = row.stagingPath
        /\ u.targetPaths = row.targetPaths \ {call.path} /\ ~u.pathsNil
        /\ u.mode = row.mode
    BY <1>1, <1>2, <1>14, UnmountRpc
  <2>2. Exists(row) /\ IsPublished(row) /\ IsConnected(row) /\ IsStaged(row)
    BY <1>3, <2>1, Rungs
  <2>3. /\ Exists(u) /\ IsPublished(u) /\ IsConnected(u) /\ IsStaged(u)
        /\ IsMounted(u) <=> ~(row.targetPaths \subseteq {call.path})
    BY <1>3, <2>1, Rungs
  <2>4. u.targetPaths = {} <=> row.targetPaths \subseteq {call.path}
    BY <2>1
  <2>5. /\ call.node \in Clients /\ told.mount[call.node][call.path] = "unsure"
        /\ \A n \in Clients : n # call.node =>
             \A p \in MountPaths : told.mount[n][p] = "no"
    BY <1>1, <1>14, AboutMount, MethodOf
  <2>6. Suits(u)
    BY <1>1, <2>1, <2>2, <2>3, <2>4 DEF Suits
  <2>7. \A n \in Clients : \A p \in MountPaths :
          told.mount[n][p] = "yes" => p \in u.targetPaths
    BY <1>1, <2>1, <2>5 DEF Fits
  <2>8. Fits(u, told)
    BY <1>1, <2>1, <2>2, <2>3, <2>7 DEF Fits
  <2> QED
    BY <1>1, <2>1, <2>2, <2>6, <2>8
<1>15. CASE call.rpc = "get"
  BY <1>1, <1>2, <1>15, GetRpc
<1> QED
  BY <1>1, <1>5, <1>6, <1>7, <1>8, <1>9, <1>10, <1>11, <1>12, <1>13, <1>14, <1>15, MethodOf

-----------------------------------------------------------------------------
(* An answer "ok" is true of the row. *)

LEMMA CreateTells ==
  ASSUME CSIInv, call.rpc # "none", call.method = "CreateVolume",
         NEW u, u = RowAfter(Message(call), row),
         NEW reply, reply = Reply(Message(call), row),
         Then(call, reply, ToAPI(u)) = "ok"
  PROVE  Exists(u)
<1>1. Typed
  BY DEF CSIInv
<1>2. call.rpc \in {"create", "get"}
  BY <1>1, MethodOf DEF RpcsOf
<1>3. reply = "ok"
  BY DEF Then, CreateVolume, OkOrError
<1>4. CASE call.rpc = "create"
  <2>1. ~Exists(row) /\ u \in Volume /\ u.status = INITIAL
    BY <1>1, <1>3, <1>4, CreateRpc
  <2> QED
    BY <2>1, Rungs DEF Volume
<1>5. CASE call.rpc = "get"
  BY <1>1, <1>3, <1>5, GetRpc
<1> QED
  BY <1>2, <1>4, <1>5

LEMMA ControllerPublishTells ==
  ASSUME CSIInv, call.rpc # "none", call.method = "ControllerPublishVolume",
         NEW u, u = RowAfter(Message(call), row),
         NEW reply, reply = Reply(Message(call), row),
         Then(call, reply, ToAPI(u)) = "ok"
  PROVE  IsPublished(u)
<1>1. Typed
  BY DEF CSIInv
<1>2. call.rpc \in {"get", "publish", "connect"}
  BY <1>1, MethodOf DEF RpcsOf
<1>3. reply = "ok" /\ call.rpc = "connect"
  BY <1>2 DEF Then, ControllerPublishVolume
<1>4. IsConnected(u)
  BY <1>1, <1>3, ConnectRpc
<1>5. u \in Volume
  BY RowKept
<1> QED
  BY <1>4, <1>5, Rungs DEF Volume

LEMMA ControllerUnpublishTells ==
  ASSUME CSIInv, call.rpc # "none", call.method = "ControllerUnpublishVolume",
         NEW u, u = RowAfter(Message(call), row),
         NEW reply, reply = Reply(Message(call), row),
         Then(call, reply, ToAPI(u)) = "ok"
  PROVE  ~IsConnected(u)
<1>1. Typed /\ Suits(row) /\ row \in Volume
  BY DEF CSIInv, Typed
<1>2. call.rpc \in {"get", "disconnect", "unpublish"}
  BY <1>1, MethodOf DEF RpcsOf
<1>3. Then(call, reply, ToAPI(u)) = ControllerUnpublishVolume(call, reply, ToAPI(u))
  BY DEF Then
<1>4. CASE call.rpc = "get"
  <2>1. /\ u = row /\ (reply = "notFound" => ~Exists(row))
        /\ ToAPI(u).status = row.status /\ ToAPI(u).clientHost = row.clientHost
    BY <1>1, <1>4, GetRpc, ToAPIType
  <2>2. /\ IsConnected(ToAPI(u)) <=> IsConnected(row)
        /\ IsPublished(ToAPI(u)) <=> IsPublished(row)
    BY <2>1 DEF IsConnected, IsPublished
  <2>3. \/ ~Exists(row)
        \/ row.clientHost \notin {NoHost, call.node}
        \/ ~IsConnected(row)
    BY <1>3, <1>4, <2>1, <2>2 DEF ControllerUnpublishVolume
  <2>4. IsConnected(row) => Exists(row) /\ row.clientHost \in {call.node}
    BY <1>1, <1>4, Rungs, AboutAttach DEF Volume
  <2> QED
    BY <2>1, <2>3, <2>4
<1>5. CASE call.rpc = "disconnect"
  BY <1>3, <1>5 DEF ControllerUnpublishVolume
<1>6. CASE call.rpc = "unpublish"
  <2>1. reply = "ok"
    BY <1>3, <1>6 DEF ControllerUnpublishVolume, OkOrError
  <2>2. ~IsPublished(u) /\ u \in Volume
    BY <1>1, <1>6, <2>1, UnpublishRpc
  <2> QED
    BY <2>2, Rungs DEF Volume
<1> QED
  BY <1>2, <1>4, <1>5, <1>6

LEMMA NodeStageTells ==
  ASSUME CSIInv, call.rpc # "none", call.method = "NodeStageVolume",
         NEW u, u = RowAfter(Message(call), row),
         NEW reply, reply = Reply(Message(call), row),
         Then(call, reply, ToAPI(u)) = "ok"
  PROVE  IsStaged(u)
<1>1. Typed /\ row \in Volume
  BY DEF CSIInv, Typed
<1>2. call.rpc \in {"get", "connect", "stage"}
  BY <1>1, MethodOf DEF RpcsOf
<1>3. NodeStageVolume(call, reply, ToAPI(u)) = "ok"
  BY DEF Then
<1>4. reply = "ok"
  BY <1>3 DEF NodeStageVolume
<1>5. CASE call.rpc = "get"
  <2>1. u = row /\ ToAPI(u).status = row.status
    BY <1>1, <1>5, GetRpc, ToAPIType
  <2>2. IsStaged(ToAPI(u))
    BY <1>3, <1>4, <1>5 DEF NodeStageVolume
  <2> QED
    BY <2>1, <2>2 DEF IsStaged
<1>6. CASE call.rpc = "connect"
  BY <1>3, <1>4, <1>6 DEF NodeStageVolume
<1>7. CASE call.rpc = "stage"
  BY <1>1, <1>4, <1>7, StageRpc
<1> QED
  BY <1>2, <1>5, <1>6, <1>7

LEMMA NodeUnstageTells ==
  ASSUME CSIInv, call.rpc # "none", call.method = "NodeUnstageVolume",
         NEW u, u = RowAfter(Message(call), row),
         NEW reply, reply = Reply(Message(call), row),
         Then(call, reply, ToAPI(u)) = "ok"
  PROVE  ~IsStaged(u)
<1>1. Typed /\ row \in Volume
  BY DEF CSIInv, Typed
<1>2. call.rpc \in {"get", "unstage", "disconnect"}
  BY <1>1, MethodOf DEF RpcsOf
<1>3. NodeUnstageVolume(call, reply, ToAPI(u)) = "ok"
  BY DEF Then
<1>4. CASE call.rpc = "get"
  <2>1. /\ u = row /\ (reply = "notFound" => ~Exists(row)) /\ ToAPI(u).status = row.status
    BY <1>1, <1>4, GetRpc, ToAPIType
  <2>2. reply = "notFound" \/ ~IsStaged(ToAPI(u))
    BY <1>3, <1>4 DEF NodeUnstageVolume
  <2>3. IsStaged(row) => Exists(row)
    BY <1>1, Rungs DEF Volume
  <2> QED
    BY <2>1, <2>2, <2>3 DEF IsStaged
<1>5. CASE call.rpc = "unstage"
  <2>1. reply = "ok"
    BY <1>3, <1>5 DEF NodeUnstageVolume, OkOrError
  <2> QED
    BY <1>1, <1>5, <2>1, UnstageRpc
<1>6. CASE call.rpc = "disconnect"
  <2>1. reply = "ok"
    BY <1>3, <1>6 DEF NodeUnstageVolume, OkOrError
  <2>2. ~IsConnected(u) /\ u \in Volume
    BY <1>1, <1>6, <2>1, DisconnectRpc, RowKept
  <2> QED
    BY <2>2, Rungs DEF Volume
<1> QED
  BY <1>2, <1>4, <1>5, <1>6

LEMMA NodePublishTells ==
  ASSUME CSIInv, call.rpc # "none", call.method = "NodePublishVolume",
         NEW u, u = RowAfter(Message(call), row),
         NEW reply, reply = Reply(Message(call), row),
         Then(call, reply, ToAPI(u)) = "ok"
  PROVE  call.path \in u.targetPaths
<1>1. Typed
  BY DEF CSIInv
<1>2. call.rpc = "mount" /\ reply = "ok"
  BY <1>1, MethodOf DEF RpcsOf, Then, OkOrError
<1> QED
  BY <1>1, <1>2, MountRpc

LEMMA NodeUnpublishTells ==
  ASSUME CSIInv, call.rpc # "none", call.method = "NodeUnpublishVolume",
         NEW u, u = RowAfter(Message(call), row)
  PROVE  call.path \notin u.targetPaths
<1>1. Typed /\ Suits(row)
  BY DEF CSIInv
<1>2. call.rpc = "unmount"
  BY <1>1, MethodOf DEF RpcsOf
<1> QED
  BY <1>1, <1>2, UnmountRpc

(* So what the orchestrator has been told then fits the row, and was told in
   order. *)
LEMMA AnswerTold ==
  ASSUME CSIInv, call.rpc # "none",
         NEW u, u = RowAfter(Message(call), row),
         Then(call, Reply(Message(call), row), ToAPI(u)) = "ok",
         NEW t, t = Heard(call, Verdict(call))
  PROVE  t \in Beliefs /\ InOrder(t) /\ Fits(u, t)
<1> DEFINE reply == Reply(Message(call), row)
<1>1. told \in Beliefs /\ InOrder(told) /\ Typed /\ call.method \in Methods
  BY MethodOf DEF CSIInv, Typed
<1>2. u \in Volume /\ Suits(u) /\ Fits(u, told) /\ u.status \in Status
  BY RowKept DEF Volume
<1>3. IsConnected(u) => u.clientHost \in Clients /\ told.attach[u.clientHost] # "no"
  BY <1>2 DEF Suits, Fits, Volume
<1>4. /\ IsStaged(u) => IsConnected(u)
      /\ u.targetPaths # {} => IsStaged(u)
  BY <1>2, Rungs DEF Suits
<1> HIDE DEF reply
<1>5. CASE call.method = "CreateVolume"
  <2>1. t = [told EXCEPT !.volume = "yes"]
    BY <1>5 DEF Heard, Verdict
  <2>2. /\ t \in Beliefs /\ t.volume = "yes" /\ t.attach = told.attach
        /\ t.stage = told.stage /\ t.mount = told.mount
    BY <1>1, <2>1 DEF Beliefs, Belief
  <2>3. Exists(u)
    BY <1>5, CreateTells
  <2>4. Fits(u, t)
    BY <1>2, <2>2, <2>3 DEF Fits
  <2>5. InOrder(t)
    BY <1>1, <2>2 DEF InOrder
  <2> QED
    BY <2>2, <2>4, <2>5
<1>6. CASE call.method = "DeleteVolume"
  <2>1. t = [told EXCEPT !.volume = "no"]
    BY <1>6 DEF Heard, Verdict
  <2>2. /\ t \in Beliefs /\ t.volume = "no" /\ t.attach = told.attach
        /\ t.stage = told.stage /\ t.mount = told.mount
    BY <1>1, <2>1 DEF Beliefs, Belief
  <2>3. \A n \in Clients :
           /\ told.attach[n] = "no" /\ told.stage[n] = "no"
           /\ \A p \in MountPaths : told.mount[n][p] = "no"
    BY <1>6, AboutVolume
  <2>4. Fits(u, t)
    BY <1>2, <2>2 DEF Fits
  <2>5. InOrder(t)
    BY <2>2, <2>3 DEF InOrder
  <2> QED
    BY <2>2, <2>4, <2>5
<1>7. CASE call.method \in {"ControllerPublishVolume", "ControllerUnpublishVolume"}
  <2> DEFINE b == Verdict(call)
  <2>1. t = [told EXCEPT !.attach[call.node] = b] /\ b \in Belief
    BY <1>7 DEF Heard, Verdict, Belief
  <2>2. /\ call.node \in Clients /\ told.attach[call.node] = "unsure" /\ told.volume = "yes"
        /\ \A n \in Clients :
             /\ n # call.node => told.attach[n] = "no"
             /\ told.stage[n] = "no"
             /\ \A p \in MountPaths : told.mount[n][p] = "no"
    BY <1>7, AboutAttach
  <2> HIDE DEF b
  <2>3. /\ t \in Beliefs /\ t.volume = told.volume /\ t.stage = told.stage /\ t.mount = told.mount
        /\ t.attach = [told.attach EXCEPT ![call.node] = b]
    <3> DEFINE f == [told.attach EXCEPT ![call.node] = b]
    <3>1. t = [told EXCEPT !.attach = f]
      BY <2>1
    <3>2. f \in [Clients -> Belief]
      BY <1>1, <2>1 DEF Beliefs
    <3> HIDE DEF f
    <3>3. /\ t \in Beliefs /\ t.volume = told.volume /\ t.stage = told.stage
          /\ t.mount = told.mount /\ t.attach = f
      BY <1>1, <3>1, <3>2 DEF Beliefs
    <3> QED
      BY <3>3 DEF f
  <2>4. t.attach[call.node] = b /\ \A n \in Clients : n # call.node => t.attach[n] = told.attach[n]
    BY <1>1, <2>2, <2>3 DEF Beliefs
  <2>5. InOrder(t)
    BY <1>1, <2>2, <2>3, <2>4 DEF InOrder
  <2>6. b = "yes" => IsPublished(u)
    BY <1>7, ControllerPublishTells DEF b, Verdict
  <2>7. b = "no" => ~IsConnected(u)
    BY <1>7, ControllerUnpublishTells DEF b, Verdict
  <2>8. b \in {"yes", "no"}
    BY DEF b, Verdict
  <2>9. IsConnected(u) => t.attach[u.clientHost] # "no"
    BY <1>3, <2>2, <2>4, <2>7, <2>8
  <2>10. Fits(u, t)
    BY <1>2, <2>2, <2>3, <2>4, <2>6, <2>9 DEF Fits
  <2> QED
    BY <2>3, <2>5, <2>10
<1>8. CASE call.method \in {"NodeStageVolume", "NodeUnstageVolume"}
  <2> DEFINE b == Verdict(call)
  <2>1. t = [told EXCEPT !.stage[call.node] = b] /\ b \in Belief
    BY <1>8 DEF Heard, Verdict, Belief
  <2>2. /\ call.node \in Clients /\ told.stage[call.node] = "unsure"
        /\ told.attach[call.node] = "yes" /\ told.volume = "yes"
        /\ \A n \in Clients :
             /\ n # call.node => told.attach[n] = "no" /\ told.stage[n] = "no"
             /\ \A p \in MountPaths : told.mount[n][p] = "no"
    BY <1>8, AboutStage
  <2> HIDE DEF b
  <2>3. /\ t \in Beliefs /\ t.volume = told.volume /\ t.attach = told.attach /\ t.mount = told.mount
        /\ t.stage = [told.stage EXCEPT ![call.node] = b]
    <3> DEFINE f == [told.stage EXCEPT ![call.node] = b]
    <3>1. t = [told EXCEPT !.stage = f]
      BY <2>1
    <3>2. f \in [Clients -> Belief]
      BY <1>1, <2>1 DEF Beliefs
    <3> HIDE DEF f
    <3>3. /\ t \in Beliefs /\ t.volume = told.volume /\ t.attach = told.attach
          /\ t.mount = told.mount /\ t.stage = f
      BY <1>1, <3>1, <3>2 DEF Beliefs
    <3> QED
      BY <3>3 DEF f
  <2>4. t.stage[call.node] = b /\ \A n \in Clients : n # call.node => t.stage[n] = told.stage[n]
    BY <1>1, <2>2, <2>3 DEF Beliefs
  <2>5. InOrder(t)
    BY <1>1, <2>2, <2>3, <2>4 DEF InOrder
  <2>6. b = "yes" => IsStaged(u)
    BY <1>8, NodeStageTells DEF b, Verdict
  <2>7. b = "no" => ~IsStaged(u)
    BY <1>8, NodeUnstageTells DEF b, Verdict
  <2>8. b \in {"yes", "no"}
    BY DEF b, Verdict
  <2>9. IsStaged(u) => t.stage[u.clientHost] # "no"
    BY <1>3, <1>4, <2>2, <2>4, <2>7, <2>8
  <2>10. Fits(u, t)
    BY <1>2, <2>2, <2>3, <2>4, <2>6, <2>9 DEF Fits
  <2> QED
    BY <2>3, <2>5, <2>10
<1>9. CASE call.method \in {"NodePublishVolume", "NodeUnpublishVolume"}
  <2> DEFINE b == Verdict(call)
  <2>1. t = [told EXCEPT !.mount[call.node][call.path] = b] /\ b \in Belief
    BY <1>9 DEF Heard, Verdict, Belief
  <2>2. /\ call.node \in Clients /\ call.path \in MountPaths
        /\ told.mount[call.node][call.path] = "unsure"
        /\ told.stage[call.node] = "yes" /\ told.attach[call.node] = "yes"
        /\ told.volume = "yes"
        /\ \A n \in Clients : n # call.node =>
             /\ told.attach[n] = "no" /\ told.stage[n] = "no"
             /\ \A p \in MountPaths : told.mount[n][p] = "no"
    BY <1>9, AboutMount
  <2> HIDE DEF b
  <2>3. t.volume = told.volume /\ t.attach = told.attach /\ t.stage = told.stage
        /\ t.mount = [told.mount EXCEPT ![call.node] =
                        [told.mount[call.node] EXCEPT ![call.path] = b]]
        /\ t = [told EXCEPT !.mount = t.mount]
    BY <1>1, <2>1, <2>2 DEF Beliefs
  <2>4. /\ t.mount[call.node] = [told.mount[call.node] EXCEPT ![call.path] = b]
        /\ \A n \in Clients : n # call.node => t.mount[n] = told.mount[n]
    BY <1>1, <2>2, <2>3 DEF Beliefs
  <2>5. /\ t.mount[call.node][call.path] = b
        /\ \A p \in MountPaths : p # call.path => t.mount[call.node][p] = told.mount[call.node][p]
    BY <1>1, <2>2, <2>4 DEF Beliefs
  <2>6. /\ t \in Beliefs
        /\ InOrder(t)
    <3>1. told.mount[call.node] \in [MountPaths -> Belief] /\ told.mount \in [Clients -> [MountPaths -> Belief]]
      BY <1>1, <2>2 DEF Beliefs
    <3>2. t.mount \in [Clients -> [MountPaths -> Belief]]
      BY <2>1, <2>2, <2>3, <3>1
    <3>3. t \in Beliefs
      BY <1>1, <2>3, <3>2 DEF Beliefs
    <3>4. InOrder(t)
      BY <1>1, <2>2, <2>3, <2>4 DEF InOrder
    <3> QED
      BY <3>3, <3>4
  <2>7. b = "yes" => call.path \in u.targetPaths
    BY <1>9, NodePublishTells DEF b, Verdict
  <2>8. b = "no" => call.path \notin u.targetPaths
    BY <1>9, NodeUnpublishTells DEF b, Verdict
  <2>9. b \in {"yes", "no"} /\ u.targetPaths \subseteq MountPaths
    BY <1>2 DEF b, Verdict, Volume
  <2>10. /\ \A p \in u.targetPaths : told.mount[u.clientHost][p] # "no"
         /\ \A n \in Clients : \A p \in MountPaths :
               told.mount[n][p] = "yes" => p \in u.targetPaths
    BY <1>2 DEF Fits
  <2>11. ASSUME NEW p \in u.targetPaths
         PROVE  t.mount[u.clientHost][p] # "no"
    <3>1. u.clientHost \in Clients /\ p \in MountPaths /\ told.mount[u.clientHost][p] # "no"
      BY <1>3, <1>4, <2>9, <2>10, <2>11
    <3>2. CASE u.clientHost = call.node /\ p = call.path
      BY <2>5, <2>8, <2>9, <2>11, <3>2
    <3>3. CASE u.clientHost = call.node /\ p # call.path
      BY <2>5, <3>1, <3>3
    <3>4. CASE u.clientHost # call.node
      BY <2>4, <3>1, <3>4
    <3> QED
      BY <3>2, <3>3, <3>4
  <2>12. ASSUME NEW n \in Clients, NEW p \in MountPaths, t.mount[n][p] = "yes"
         PROVE  p \in u.targetPaths
    <3>1. CASE n = call.node /\ p = call.path
      BY <2>5, <2>7, <2>12, <3>1
    <3>2. CASE n = call.node /\ p # call.path
      BY <2>5, <2>10, <2>12, <3>2
    <3>3. CASE n # call.node
      BY <2>4, <2>10, <2>12, <3>3
    <3> QED
      BY <3>1, <3>2, <3>3
  <2>13. Fits(u, t)
    BY <1>2, <2>3, <2>11, <2>12 DEF Fits
  <2> QED
    BY <2>3, <2>6, <2>13
<1> QED
  BY <1>1, <1>5, <1>6, <1>7, <1>8, <1>9 DEF Methods

-----------------------------------------------------------------------------
(* The steps. *)

(* The names of the RPCs. *)
LEMMA RpcNames ==
  {"create", "get", "delete", "unpublish", "disconnect", "unstage", "publish", "connect",
   "stage", "mount", "unmount"} \subseteq Rpcs
<1>1. ASSUME NEW name \in {"get", "delete", "unpublish", "disconnect", "unstage"}
      PROVE  name \in Rpcs
  <2> DEFINE m == [rpc |-> name, id |-> VolumeId]
  <2>1. m \in Request /\ m.rpc = name
    BY DEF Request, About, GetVolumeRequest, DeleteVolumeRequest,
       UnpublishVolumeRequest, DisconnectVolumeRequest, UnstageVolumeRequest
  <2> QED
    BY <2>1 DEF Rpcs
<1>2. "create" \in Rpcs
  <2> DEFINE m == [rpc |-> "create", volume |-> NilVolume]
  <2>1. m \in CreateVolumeRequest /\ m.rpc = "create"
    BY NoVolumeType DEF CreateVolumeRequest
  <2> QED
    BY <2>1 DEF Rpcs, Request
<1>3. "publish" \in Rpcs
  <2> DEFINE m == [rpc |-> "publish", id |-> VolumeId, serverHost |-> StorageHost,
                   transport |-> "ISCSI"]
  <2>1. m \in PublishVolumeRequest /\ m.rpc = "publish"
    BY StorageHostAssumption DEF PublishVolumeRequest, Volume_Transport
  <2> QED
    BY <2>1 DEF Rpcs, Request
<1>4. "connect" \in Rpcs
  <2> DEFINE m == [rpc |-> "connect", id |-> VolumeId, clientHost |-> NoHost]
  <2>1. m \in ConnectVolumeRequest /\ m.rpc = "connect"
    BY DEF ConnectVolumeRequest
  <2> QED
    BY <2>1 DEF Rpcs, Request
<1>5. "stage" \in Rpcs
  <2> DEFINE m == [rpc |-> "stage", id |-> VolumeId, stagingPath |-> NoPath]
  <2>1. m \in StageVolumeRequest /\ m.rpc = "stage"
    BY DEF StageVolumeRequest
  <2> QED
    BY <2>1 DEF Rpcs, Request
<1>6. "mount" \in Rpcs /\ "unmount" \in Rpcs
  <2> DEFINE m == [rpc |-> "mount", id |-> VolumeId, mountPath |-> NoPath]
             w == [rpc |-> "unmount", id |-> VolumeId, mountPath |-> NoPath]
  <2>1. m \in MountVolumeRequest /\ m.rpc = "mount"
    BY DEF MountVolumeRequest
  <2>2. w \in UnmountVolumeRequest /\ w.rpc = "unmount"
    BY DEF UnmountVolumeRequest
  <2> QED
    BY <2>1, <2>2 DEF Rpcs, Request
<1> QED
  BY <1>1, <1>2, <1>3, <1>4, <1>5, <1>6

(* A handler that goes on does so in its own order, and holds the volume it
   has fetched. *)
LEMMA NextRpc ==
  ASSUME CSIInv, call.rpc # "none",
         NEW u, u = RowAfter(Message(call), row),
         NEW next, next = Then(call, Reply(Message(call), row), ToAPI(u)),
         next \notin {"ok", "error"},
         NEW seen, seen = IF call.rpc = "get" THEN ToAPI(row) ELSE call.seen
  PROVE  /\ next \in RpcsOf(call.method) /\ next \in Rpcs
         /\ seen \in VolumeMessage
         /\ next \in {"publish", "connect", "disconnect", "unpublish", "stage", "unstage"}
              => Exists(seen)
<1> DEFINE reply == Reply(Message(call), row)
           r == ToAPI(u)
<1>1. Typed /\ row \in Volume /\ OnCourse(call) /\ call \in Call
  BY DEF CSIInv, Typed, OnCourse
<1>2. seen \in VolumeMessage
  BY <1>1, ToAPIType DEF Call
<1>3. call.rpc = "get" => /\ reply = IF Exists(row) THEN "ok" ELSE "notFound"
                          /\ (Exists(row) => Exists(seen))
  BY <1>1, GetRpc, ToAPIType DEF Exists
<1>4. call.rpc \in {"publish", "connect", "disconnect", "unpublish", "stage", "unstage"}
        => Exists(seen)
  BY <1>1 DEF OnCourse
<1> HIDE DEF reply, r
<1>5. CASE call.method \in {"CreateVolume", "DeleteVolume", "NodePublishVolume", "NodeUnpublishVolume"}
  <2>1. next = "get" /\ call.method = "CreateVolume"
    BY <1>5 DEF Then, CreateVolume, DeleteVolume, NodeUnpublishVolume, OkOrError
  <2> QED
    BY <1>2, <2>1, RpcNames DEF RpcsOf
<1>6. CASE call.method = "ControllerPublishVolume"
  <2>1. next = ControllerPublishVolume(call, reply, r)
    BY <1>6 DEF Then, reply, r
  <2>2. /\ reply = "ok"
        /\ \/ call.rpc = "get" /\ next = "publish"
           \/ call.rpc = "publish" /\ next = "connect"
    BY <2>1 DEF ControllerPublishVolume
  <2> QED
    BY <1>2, <1>3, <1>4, <1>6, <2>2, RpcNames DEF RpcsOf
<1>7. CASE call.method = "ControllerUnpublishVolume"
  <2>1. next = ControllerUnpublishVolume(call, reply, r)
    BY <1>7 DEF Then, reply, r
  <2>2. \/ call.rpc = "get" /\ reply # "notFound" /\ next \in {"disconnect", "unpublish"}
        \/ call.rpc = "disconnect" /\ next = "unpublish"
    BY <2>1 DEF ControllerUnpublishVolume, OkOrError
  <2> QED
    <3>1. next \in {"disconnect", "unpublish"} /\ Exists(seen)
      BY <1>3, <1>4, <2>2
    <3> QED
      BY <1>2, <1>7, <3>1, RpcNames DEF RpcsOf
<1>8. CASE call.method = "NodeStageVolume"
  <2>1. next = NodeStageVolume(call, reply, r)
    BY <1>8 DEF Then, reply, r
  <2>2. /\ reply = "ok"
        /\ \/ call.rpc = "get" /\ next \in {"connect", "stage"}
           \/ call.rpc = "connect" /\ next = "stage"
    BY <2>1 DEF NodeStageVolume
  <2> QED
    BY <1>2, <1>3, <1>4, <1>8, <2>2, RpcNames DEF RpcsOf
<1>9. CASE call.method = "NodeUnstageVolume"
  <2>1. next = NodeUnstageVolume(call, reply, r)
    BY <1>9 DEF Then, reply, r
  <2>2. \/ call.rpc = "get" /\ reply # "notFound" /\ next \in {"unstage", "disconnect"}
        \/ call.rpc = "unstage" /\ next = "disconnect"
    BY <2>1 DEF NodeUnstageVolume, OkOrError
  <2> QED
    <3>1. next \in {"unstage", "disconnect"} /\ Exists(seen)
      BY <1>3, <1>4, <2>2
    <3> QED
      BY <1>2, <1>9, <3>1, RpcNames DEF RpcsOf
<1> QED
  BY <1>1, <1>5, <1>6, <1>7, <1>8, <1>9, MethodOf DEF Methods

LEMMA IdleType ==
  OnCourse(Idle) /\ Idle.rpc = "none"
BY NoVolumeType DEF OnCourse, Idle, Call, Methods

LEMMA AnsweredKeeps ==
  ASSUME CSIInv, RpcAnswered
  PROVE  CSIInv'
<1> DEFINE u == RowAfter(Message(call), row)
           next == Then(call, Reply(Message(call), row), ToAPI(u))
           seen == IF call.rpc = "get" THEN ToAPI(row) ELSE call.seen
<1>1. /\ call.rpc # "none" /\ row' = u /\ class' = class /\ faults' = faults
      /\ call' = IF next \in {"ok", "error"} THEN Idle
                 ELSE [call EXCEPT !.rpc = next, !.seen = seen]
      /\ told' = IF next = "ok" THEN Heard(call, Verdict(call)) ELSE told
  BY DEF RpcAnswered
<1>2. /\ u \in Volume /\ Suits(u) /\ Fits(u, told)
      /\ Exists(u) => u.mode = ModeOf(class.caps)
  BY <1>1, RowKept
<1>3. /\ told \in Beliefs /\ InOrder(told) /\ OnCourse(call) /\ call \in Call
      /\ class \in Classes /\ faults \in 0..MaxFaults /\ Awaited(call, told) = "unsure"
      /\ call.method \in Methods
  BY <1>1 DEF CSIInv, Typed, OnCourse, Call
<1>4. told' \in Beliefs /\ InOrder(told') /\ Fits(u, told')
  <2>1. CASE next = "ok"
    BY <1>1, <2>1, AnswerTold
  <2>2. CASE next # "ok"
    BY <1>1, <1>2, <1>3, <2>2
  <2> QED
    BY <2>1, <2>2
<1>5. OnCourse(call') /\ (call'.rpc # "none" => Awaited(call', told') = "unsure")
  <2>1. CASE next \in {"ok", "error"}
    BY <1>1, <2>1, IdleType
  <2>2. CASE next \notin {"ok", "error"}
    <3>1. /\ next \in RpcsOf(call.method) /\ next \in Rpcs
          /\ seen \in VolumeMessage
          /\ next \in {"publish", "connect", "disconnect", "unpublish", "stage", "unstage"}
               => Exists(seen)
      BY <1>1, <2>2, NextRpc
    <3> HIDE DEF next, seen
    <3>2. call' = [call EXCEPT !.rpc = next, !.seen = seen] /\ told' = told
      BY <1>1, <2>2
    <3>3. /\ call' \in Call /\ call'.rpc = next /\ call'.seen = seen
          /\ call'.method = call.method /\ call'.node = call.node
          /\ call'.staging = call.staging /\ call'.path = call.path
      BY <1>3, <3>1, <3>2 DEF Call
    <3>4. OnCourse(call')
      BY <1>1, <1>3, <3>1, <3>3 DEF OnCourse
    <3>5. Awaited(call', told') = Awaited(call, told)
      BY <1>3, <3>2, <3>3 DEF Awaited, Methods
    <3> QED
      BY <1>3, <3>4, <3>5
  <2> QED
    BY <2>1, <2>2
<1> HIDE DEF u, next, seen
<1>6. Typed'
  BY <1>1, <1>2, <1>3, <1>4, <1>5 DEF Typed
<1> QED
  BY <1>1, <1>2, <1>4, <1>5, <1>6 DEF CSIInv

LEMMA FailsKeeps ==
  ASSUME CSIInv, RpcFails
  PROVE  CSIInv'
<1>1. /\ call' = Idle /\ row' = row /\ told' = told /\ class' = class
      /\ faults' = faults + 1 /\ faults < MaxFaults
  BY DEF RpcFails
<1>2. faults' \in 0..MaxFaults
  BY <1>1, FaultsAssumption DEF CSIInv, Typed
<1> QED
  BY <1>1, <1>2, IdleType DEF CSIInv, Typed

LEMMA LostKeeps ==
  ASSUME CSIInv, AnswerLost
  PROVE  CSIInv'
<1>1. /\ call.rpc # "none" /\ row' = RowAfter(Message(call), row)
      /\ call' = Idle /\ told' = told /\ class' = class
      /\ faults' = faults + 1 /\ faults < MaxFaults
  BY DEF AnswerLost
<1>2. faults' \in 0..MaxFaults
  BY <1>1, FaultsAssumption DEF CSIInv, Typed
<1>3. /\ row' \in Volume /\ Suits(row') /\ Fits(row', told)
      /\ Exists(row') => row'.mode = ModeOf(class.caps)
  BY <1>1, RowKept
<1> QED
  BY <1>1, <1>2, <1>3, IdleType DEF CSIInv, Typed

(* What a request makes unsure. *)
LEMMA UnsureVolume ==
  ASSUME CSIInv, \A n \in Clients : told.attach[n] = "no",
         NEW t, t = [told EXCEPT !.volume = "unsure"]
  PROVE  t \in Beliefs /\ InOrder(t) /\ Fits(row, t) /\ t.volume = "unsure"
<1>1. told \in Beliefs /\ InOrder(told) /\ Fits(row, told)
  BY DEF CSIInv, Typed
<1>2. /\ t \in Beliefs /\ t.volume = "unsure" /\ t.attach = told.attach
      /\ t.stage = told.stage /\ t.mount = told.mount
  BY <1>1 DEF Beliefs, Belief
<1>3. InOrder(t)
  BY <1>1, <1>2 DEF InOrder
<1>4. Fits(row, t)
  BY <1>1, <1>2 DEF Fits
<1> QED
  BY <1>2, <1>3, <1>4

LEMMA UnsureAttach ==
  ASSUME CSIInv, NEW n \in Clients, told.volume = "yes", told.stage[n] = "no",
         \A m \in Clients \ {n} : told.attach[m] = "no",
         NEW t, t = [told EXCEPT !.attach[n] = "unsure"]
  PROVE  t \in Beliefs /\ InOrder(t) /\ Fits(row, t) /\ t.attach[n] = "unsure"
<1> DEFINE f == [told.attach EXCEPT ![n] = "unsure"]
<1>1. told \in Beliefs /\ InOrder(told) /\ Fits(row, told)
  BY DEF CSIInv, Typed
<1>2. /\ f \in [Clients -> Belief] /\ f[n] = "unsure"
      /\ \A m \in Clients : m # n => f[m] = told.attach[m]
  BY <1>1 DEF Beliefs, Belief
<1>3. t = [told EXCEPT !.attach = f]
  OBVIOUS
<1> HIDE DEF f
<1>4. /\ t \in Beliefs /\ t.volume = "yes" /\ t.attach = f
      /\ t.stage = told.stage /\ t.mount = told.mount
  BY <1>1, <1>2, <1>3 DEF Beliefs
<1>5. InOrder(t)
  BY <1>1, <1>2, <1>4 DEF InOrder
<1>6. IsConnected(row) => row.clientHost \in Clients
  BY DEF CSIInv, Typed, Suits, Volume
<1>7. Fits(row, t)
  BY <1>1, <1>2, <1>4, <1>6 DEF Fits
<1> QED
  BY <1>2, <1>4, <1>5, <1>7

LEMMA UnsureStage ==
  ASSUME CSIInv, NEW n \in Clients, told.attach[n] = "yes",
         \A p \in MountPaths : told.mount[n][p] = "no",
         NEW t, t = [told EXCEPT !.stage[n] = "unsure"]
  PROVE  t \in Beliefs /\ InOrder(t) /\ Fits(row, t) /\ t.stage[n] = "unsure"
<1> DEFINE f == [told.stage EXCEPT ![n] = "unsure"]
<1>1. told \in Beliefs /\ InOrder(told) /\ Fits(row, told)
  BY DEF CSIInv, Typed
<1>2. /\ f \in [Clients -> Belief] /\ f[n] = "unsure"
      /\ \A m \in Clients : m # n => f[m] = told.stage[m]
  BY <1>1 DEF Beliefs, Belief
<1>3. t = [told EXCEPT !.stage = f]
  OBVIOUS
<1> HIDE DEF f
<1>4. /\ t \in Beliefs /\ t.volume = told.volume /\ t.attach = told.attach
      /\ t.stage = f /\ t.mount = told.mount
  BY <1>1, <1>2, <1>3 DEF Beliefs
<1>5. InOrder(t)
  BY <1>1, <1>2, <1>4 DEF InOrder
<1>6. IsStaged(row) => row.clientHost \in Clients
  BY Rungs DEF CSIInv, Typed, Suits, Volume
<1>7. Fits(row, t)
  BY <1>1, <1>2, <1>4, <1>6 DEF Fits
<1> QED
  BY <1>2, <1>4, <1>5, <1>7

LEMMA UnsureMount ==
  ASSUME CSIInv, NEW n \in Clients, NEW p \in MountPaths, told.stage[n] = "yes",
         NEW t, t = [told EXCEPT !.mount[n][p] = "unsure"]
  PROVE  t \in Beliefs /\ InOrder(t) /\ Fits(row, t) /\ t.mount[n][p] = "unsure"
<1> DEFINE g == [told.mount[n] EXCEPT ![p] = "unsure"]
           f == [told.mount EXCEPT ![n] = g]
<1>1. told \in Beliefs /\ InOrder(told) /\ Fits(row, told)
  BY DEF CSIInv, Typed
<1>2. told.mount \in [Clients -> [MountPaths -> Belief]] /\ told.mount[n] \in [MountPaths -> Belief]
  BY <1>1 DEF Beliefs
<1>3. /\ g \in [MountPaths -> Belief] /\ g[p] = "unsure"
      /\ \A q \in MountPaths : q # p => g[q] = told.mount[n][q]
  BY <1>2 DEF Belief
<1>4. t = [told EXCEPT !.mount = f]
  OBVIOUS
<1> HIDE DEF g
<1>5. /\ f \in [Clients -> [MountPaths -> Belief]] /\ f[n] = g
      /\ \A m \in Clients : m # n => f[m] = told.mount[m]
  BY <1>2, <1>3
<1> HIDE DEF f
<1>6. /\ t \in Beliefs /\ t.volume = told.volume /\ t.attach = told.attach
      /\ t.stage = told.stage /\ t.mount = f
  BY <1>1, <1>4, <1>5 DEF Beliefs
<1>7. \A m \in Clients : \A q \in MountPaths :
         t.mount[m][q] = told.mount[m][q] \/ (m = n /\ q = p /\ t.mount[m][q] = "unsure")
  BY <1>3, <1>5, <1>6
<1>8. InOrder(t)
  BY <1>1, <1>6, <1>7 DEF InOrder
<1>9. /\ \A q \in row.targetPaths : q \in MountPaths /\ row.clientHost \in Clients
      /\ \A q \in row.targetPaths : told.mount[row.clientHost][q] # "no"
      /\ \A m \in Clients : \A q \in MountPaths : told.mount[m][q] = "yes" => q \in row.targetPaths
  <2>1. /\ \A q \in row.targetPaths : told.mount[row.clientHost][q] # "no"
        /\ \A m \in Clients : \A q \in MountPaths : told.mount[m][q] = "yes" => q \in row.targetPaths
    BY <1>1 DEF Fits
  <2>2. row.targetPaths # {} => row.clientHost \in Clients
    BY Rungs DEF CSIInv, Typed, Suits, Volume
  <2>3. row.targetPaths \subseteq MountPaths
    BY DEF CSIInv, Typed, Volume
  <2> QED
    BY <2>1, <2>2, <2>3
<1>10. \A q \in row.targetPaths : t.mount[row.clientHost][q] # "no"
  BY <1>7, <1>9
<1>11. \A m \in Clients : \A q \in MountPaths : t.mount[m][q] = "yes" => q \in row.targetPaths
  BY <1>7, <1>9
<1>12. Fits(row, t)
  BY <1>1, <1>6, <1>10, <1>11 DEF Fits
<1> QED
  BY <1>3, <1>5, <1>6, <1>8, <1>12

(* A request that is turned down leaves everything as it was. *)
LEMMA AskKeeps ==
  ASSUME CSIInv,
         NEW valid, NEW method, NEW rpc, NEW node, NEW staging, NEW path,
         NEW c, c = [method |-> method, rpc |-> rpc, node |-> node, staging |-> staging,
                     path |-> path, seen |-> NilVolume],
         Ask(valid, method, rpc, node, staging, path),
         OnCourse(c), Heard(c, "unsure") \in Beliefs, InOrder(Heard(c, "unsure")),
         Fits(row, Heard(c, "unsure")), Awaited(c, Heard(c, "unsure")) = "unsure"
  PROVE  CSIInv'
<1> DEFINE t == Heard(c, "unsure")
<1>1. /\ call' = (IF valid THEN c ELSE call) /\ told' = (IF valid THEN t ELSE told)
      /\ row' = row /\ class' = class /\ faults' = faults
  BY DEF Ask
<1> HIDE DEF t
<1>2. CASE valid
  BY <1>1, <1>2 DEF CSIInv, Typed, t
<1>3. CASE ~valid
  BY <1>1, <1>3 DEF CSIInv, Typed
<1> QED
  BY <1>2, <1>3

LEMMA NewCall ==
  ASSUME NEW method \in Methods, NEW rpc \in RpcsOf(method), rpc # "none", rpc \in Rpcs,
         rpc \in {"create", "delete", "get", "mount", "unmount"},
         NEW node \in Clients \cup {NoHost},
         NEW staging \in StagingPaths \cup {NoPath}, NEW path \in MountPaths \cup {NoPath},
         method \notin {"CreateVolume", "DeleteVolume"} => node \in Clients,
         method = "NodeStageVolume" => staging \in StagingPaths,
         method \in {"NodePublishVolume", "NodeUnpublishVolume"} => path \in MountPaths,
         NEW c, c = [method |-> method, rpc |-> rpc, node |-> node, staging |-> staging,
                     path |-> path, seen |-> NilVolume]
  PROVE  OnCourse(c)
<1>1. c \in Call
  BY NoVolumeType DEF Call
<1> QED
  BY <1>1 DEF OnCourse

LEMMA AskCreateKeeps ==
  ASSUME CSIInv, AskCreate
  PROVE  CSIInv'
<1> DEFINE c == [method |-> "CreateVolume", rpc |-> "create", node |-> NoHost, staging |-> NoPath,
                 path |-> NoPath, seen |-> NilVolume]
           t == Heard(c, "unsure")
<1>1. Ask(validateCreateVolumeRequest(VolumeId, class),
          "CreateVolume", "create", NoHost, NoPath, NoPath)
  BY DEF AskCreate
<1>2. t = [told EXCEPT !.volume = "unsure"]
  BY DEF Heard
<1>3. \A n \in Clients : told.attach[n] = "no"
  BY DEF AskCreate, CSIInv, InOrder
<1>4. OnCourse(c)
  BY NewCall, RpcNames DEF Methods, RpcsOf
<1>5. t \in Beliefs /\ InOrder(t) /\ Fits(row, t) /\ t.volume = "unsure"
  BY <1>2, <1>3, UnsureVolume
<1>6. Awaited(c, t) = "unsure"
  BY <1>5 DEF Awaited
<1> QED
  BY <1>1, <1>4, <1>5, <1>6, AskKeeps

LEMMA AskDeleteKeeps ==
  ASSUME CSIInv, AskDelete
  PROVE  CSIInv'
<1> DEFINE c == [method |-> "DeleteVolume", rpc |-> "delete", node |-> NoHost, staging |-> NoPath,
                 path |-> NoPath, seen |-> NilVolume]
           t == Heard(c, "unsure")
<1>1. Ask(validateDeleteVolumeRequest(VolumeId),
          "DeleteVolume", "delete", NoHost, NoPath, NoPath)
  BY DEF AskDelete
<1>2. t = [told EXCEPT !.volume = "unsure"]
  BY DEF Heard
<1>3. \A n \in Clients : told.attach[n] = "no"
  BY DEF AskDelete
<1>4. OnCourse(c)
  BY NewCall, RpcNames DEF Methods, RpcsOf
<1>5. t \in Beliefs /\ InOrder(t) /\ Fits(row, t) /\ t.volume = "unsure"
  BY <1>2, <1>3, UnsureVolume
<1>6. Awaited(c, t) = "unsure"
  BY <1>5 DEF Awaited
<1> QED
  BY <1>1, <1>4, <1>5, <1>6, AskKeeps

LEMMA AskControllerPublishKeeps ==
  ASSUME CSIInv, NEW n \in Clients, AskControllerPublish(n)
  PROVE  CSIInv'
<1> DEFINE c == [method |-> "ControllerPublishVolume", rpc |-> "get", node |-> n, staging |-> NoPath,
                 path |-> NoPath, seen |-> NilVolume]
           t == Heard(c, "unsure")
<1>1. Ask(validateControllerPublishVolumeRequest(VolumeId, n, Cap),
          "ControllerPublishVolume", "get", n, NoPath, NoPath)
  BY DEF AskControllerPublish
<1>2. t = [told EXCEPT !.attach[n] = "unsure"]
  BY DEF Heard
<1>3. /\ told.volume = "yes" /\ told.stage[n] = "no"
      /\ \A m \in Clients \ {n} : told.attach[m] = "no"
  BY DEF AskControllerPublish, CSIInv, InOrder
<1>4. OnCourse(c)
  BY NewCall, RpcNames DEF Methods, RpcsOf
<1>5. t \in Beliefs /\ InOrder(t) /\ Fits(row, t) /\ t.attach[n] = "unsure"
  BY <1>2, <1>3, UnsureAttach
<1>6. Awaited(c, t) = "unsure"
  BY <1>5 DEF Awaited
<1> QED
  BY <1>1, <1>4, <1>5, <1>6, AskKeeps

LEMMA AskControllerUnpublishKeeps ==
  ASSUME CSIInv, NEW n \in Clients, AskControllerUnpublish(n)
  PROVE  CSIInv'
<1> DEFINE c == [method |-> "ControllerUnpublishVolume", rpc |-> "get", node |-> n, staging |-> NoPath,
                 path |-> NoPath, seen |-> NilVolume]
           t == Heard(c, "unsure")
<1>1. Ask(validateControllerUnpublishVolumeRequest(VolumeId, n),
          "ControllerUnpublishVolume", "get", n, NoPath, NoPath)
  BY DEF AskControllerUnpublish
<1>2. t = [told EXCEPT !.attach[n] = "unsure"]
  BY DEF Heard
<1>3. /\ told.volume = "yes" /\ told.stage[n] = "no"
      /\ \A m \in Clients \ {n} : told.attach[m] = "no"
  BY DEF AskControllerUnpublish, CSIInv, InOrder
<1>4. OnCourse(c)
  BY NewCall, RpcNames DEF Methods, RpcsOf
<1>5. t \in Beliefs /\ InOrder(t) /\ Fits(row, t) /\ t.attach[n] = "unsure"
  BY <1>2, <1>3, UnsureAttach
<1>6. Awaited(c, t) = "unsure"
  BY <1>5 DEF Awaited
<1> QED
  BY <1>1, <1>4, <1>5, <1>6, AskKeeps

LEMMA AskNodeStageKeeps ==
  ASSUME CSIInv, NEW n \in Clients, NEW g \in StagingPaths, AskNodeStage(n, g)
  PROVE  CSIInv'
<1> DEFINE c == [method |-> "NodeStageVolume", rpc |-> "get", node |-> n, staging |-> g,
                 path |-> NoPath, seen |-> NilVolume]
           t == Heard(c, "unsure")
<1>1. Ask(validateNodeStageVolumeRequest(VolumeId, g, Cap),
          "NodeStageVolume", "get", n, g, NoPath)
  BY DEF AskNodeStage
<1>2. t = [told EXCEPT !.stage[n] = "unsure"]
  BY DEF Heard
<1>3. told.attach[n] = "yes" /\ \A p \in MountPaths : told.mount[n][p] = "no"
  BY DEF AskNodeStage, CSIInv, InOrder
<1>4. OnCourse(c)
  BY NewCall, RpcNames DEF Methods, RpcsOf
<1>5. t \in Beliefs /\ InOrder(t) /\ Fits(row, t) /\ t.stage[n] = "unsure"
  BY <1>2, <1>3, UnsureStage
<1>6. Awaited(c, t) = "unsure"
  BY <1>5 DEF Awaited
<1> QED
  BY <1>1, <1>4, <1>5, <1>6, AskKeeps

LEMMA AskNodeUnstageKeeps ==
  ASSUME CSIInv, NEW n \in Clients, NEW g \in StagingPaths, AskNodeUnstage(n, g)
  PROVE  CSIInv'
<1> DEFINE c == [method |-> "NodeUnstageVolume", rpc |-> "get", node |-> n, staging |-> NoPath,
                 path |-> NoPath, seen |-> NilVolume]
           t == Heard(c, "unsure")
<1>1. Ask(validateNodeUnstageVolumeRequest(VolumeId, g),
          "NodeUnstageVolume", "get", n, NoPath, NoPath)
  BY DEF AskNodeUnstage
<1>2. t = [told EXCEPT !.stage[n] = "unsure"]
  BY DEF Heard
<1>3. told.attach[n] = "yes" /\ \A p \in MountPaths : told.mount[n][p] = "no"
  BY DEF AskNodeUnstage, CSIInv, InOrder
<1>4. OnCourse(c)
  BY NewCall, RpcNames DEF Methods, RpcsOf
<1>5. t \in Beliefs /\ InOrder(t) /\ Fits(row, t) /\ t.stage[n] = "unsure"
  BY <1>2, <1>3, UnsureStage
<1>6. Awaited(c, t) = "unsure"
  BY <1>5 DEF Awaited
<1> QED
  BY <1>1, <1>4, <1>5, <1>6, AskKeeps

LEMMA AskNodePublishKeeps ==
  ASSUME CSIInv, NEW n \in Clients, NEW p \in MountPaths, AskNodePublish(n, p)
  PROVE  CSIInv'
<1> DEFINE c == [method |-> "NodePublishVolume", rpc |-> "mount", node |-> n, staging |-> NoPath,
                 path |-> p, seen |-> NilVolume]
           t == Heard(c, "unsure")
<1>1. Ask(validateNodePublishVolumeRequest(VolumeId, p, Cap),
          "NodePublishVolume", "mount", n, NoPath, p)
  BY DEF AskNodePublish
<1>2. t = [told EXCEPT !.mount[n][p] = "unsure"]
  BY DEF Heard
<1>3. told.stage[n] = "yes"
  BY DEF AskNodePublish
<1>4. OnCourse(c)
  BY NewCall, RpcNames DEF Methods, RpcsOf
<1>5. t \in Beliefs /\ InOrder(t) /\ Fits(row, t) /\ t.mount[n][p] = "unsure"
  BY <1>2, <1>3, UnsureMount
<1>6. Awaited(c, t) = "unsure"
  BY <1>5 DEF Awaited
<1> QED
  BY <1>1, <1>4, <1>5, <1>6, AskKeeps

LEMMA AskNodeUnpublishKeeps ==
  ASSUME CSIInv, NEW n \in Clients, NEW p \in MountPaths, AskNodeUnpublish(n, p)
  PROVE  CSIInv'
<1> DEFINE c == [method |-> "NodeUnpublishVolume", rpc |-> "unmount", node |-> n, staging |-> NoPath,
                 path |-> p, seen |-> NilVolume]
           t == Heard(c, "unsure")
<1>1. Ask(validateNodeUnpublishVolumeRequest(VolumeId, p),
          "NodeUnpublishVolume", "unmount", n, NoPath, p)
  BY DEF AskNodeUnpublish
<1>2. t = [told EXCEPT !.mount[n][p] = "unsure"]
  BY DEF Heard
<1>3. told.stage[n] = "yes"
  BY DEF AskNodeUnpublish, CSIInv, InOrder
<1>4. OnCourse(c)
  BY NewCall, RpcNames DEF Methods, RpcsOf
<1>5. t \in Beliefs /\ InOrder(t) /\ Fits(row, t) /\ t.mount[n][p] = "unsure"
  BY <1>2, <1>3, UnsureMount
<1>6. Awaited(c, t) = "unsure"
  BY <1>5 DEF Awaited
<1> QED
  BY <1>1, <1>4, <1>5, <1>6, AskKeeps

-----------------------------------------------------------------------------
(* The invariant, and what follows from it. *)

LEMMA InitInv == Init => CSIInv
<1> SUFFICES ASSUME Init
             PROVE  CSIInv
  OBVIOUS
<1>1. row = NoVolume /\ call = Idle /\ class \in Classes /\ faults = 0
  BY DEF Init
<1>2. /\ told.volume = "no"
      /\ \A n \in Clients :
           /\ told.attach[n] = "no" /\ told.stage[n] = "no"
           /\ \A p \in MountPaths : told.mount[n][p] = "no"
      /\ told \in Beliefs
  BY DEF Init, Beliefs, Belief
<1>3. Typed
  BY <1>1, <1>2, NoVolumeType, IdleType, FaultsAssumption DEF Typed
<1>4. ~IsPublished(row) /\ ~IsConnected(row) /\ ~IsStaged(row) /\ ~IsMounted(row)
  BY <1>1, NoVolumeType, Rungs DEF Volume
<1>5. Suits(row)
  BY <1>1, <1>4, NoVolumeType DEF Suits
<1>6. InOrder(told) /\ Fits(row, told)
  BY <1>1, <1>2, <1>4, NoVolumeType DEF InOrder, Fits
<1> QED
  BY <1>1, <1>3, <1>5, <1>6, NoVolumeType, IdleType DEF CSIInv

LEMMA NextKeeps == CSIInv /\ [Next]_vars => CSIInv'
<1> SUFFICES ASSUME CSIInv, [Next]_vars
             PROVE  CSIInv'
  OBVIOUS
<1>1. CASE AskAny
  BY <1>1, AskCreateKeeps, AskDeleteKeeps, AskControllerPublishKeeps,
     AskControllerUnpublishKeeps, AskNodeStageKeeps, AskNodeUnstageKeeps,
     AskNodePublishKeeps, AskNodeUnpublishKeeps DEF AskAny
<1>2. CASE RpcAnswered
  BY <1>2, AnsweredKeeps
<1>3. CASE RpcFails
  BY <1>3, FailsKeeps
<1>4. CASE AnswerLost
  BY <1>4, LostKeeps
<1>5. CASE UNCHANGED vars
  BY <1>5 DEF CSIInv, Typed, vars
<1> QED
  BY <1>1, <1>2, <1>3, <1>4, <1>5 DEF Next

(* The inductive invariant: what is asked for is unsure until it is answered,
   the orchestrator asks in order, and the row fits what it has been told. *)
THEOREM ToldInOrder == Spec => []CSIInv
BY InitInv, NextKeeps, PTL DEF Spec

(* The variables have their types; every request a handler sends is one of the
   API's and passes its rules; and a handler never dereferences a volume that
   it has not fetched (the handlers of csi/internal/service/service.go). *)
THEOREM RequestsPass == Spec => []TypeOK
<1>1. CSIInv => TypeOK
  BY MessageType DEF CSIInv, Typed, TypeOK, OnCourse
<1> QED
  BY <1>1, ToldInOrder, PTL

(* What the orchestrator was told is there is there: attached, staged and
   mounted where it was told, for any number of nodes, paths and faults. *)
THEOREM ToldThere == Spec => []ToldIsThere
<1>1. ASSUME CSIInv
      PROVE  ToldIsThere
  <2>1. /\ Fits(row, told) /\ InOrder(told) /\ Suits(row)
        /\ row \in Volume /\ row.status \in Status
    BY <1>1 DEF CSIInv, Typed, Volume
  <2>2. IsConnected(row) => row.clientHost \in Clients /\ told.attach[row.clientHost] # "no"
    BY <2>1 DEF Fits, Suits, Volume
  <2>3. ASSUME NEW n \in Clients, told.attach[n] # "no", IsConnected(row)
        PROVE  row.clientHost = n
    BY <2>1, <2>2, <2>3 DEF InOrder
  <2>4. IsStaged(row) => IsConnected(row)
    BY <2>1, Rungs
  <2>5. ASSUME NEW n \in Clients
        PROVE  /\ told.attach[n] = "yes" => /\ IsPublished(row)
                                            /\ IsConnected(row) => row.clientHost = n
               /\ told.stage[n] = "yes" => IsStaged(row) /\ row.clientHost = n
               /\ \A p \in MountPaths :
                     told.mount[n][p] = "yes" => IsMounted(row) /\ p \in row.targetPaths
    <3>1. told.attach[n] = "yes" => /\ IsPublished(row)
                                    /\ IsConnected(row) => row.clientHost = n
      BY <2>1, <2>3 DEF Fits
    <3>2. told.stage[n] = "yes" => IsStaged(row) /\ row.clientHost = n
      <4>1. told.stage[n] = "yes" => IsStaged(row) /\ told.attach[n] # "no"
        BY <2>1 DEF Fits, InOrder
      <4> QED
        BY <2>3, <2>4, <4>1
    <3>3. \A p \in MountPaths :
            told.mount[n][p] = "yes" => IsMounted(row) /\ p \in row.targetPaths
      BY <2>1 DEF Fits, Suits
    <3> QED
      BY <3>1, <3>2, <3>3
  <2> QED
    BY <2>5 DEF ToldIsThere
<1> QED
  BY <1>1, ToldInOrder, PTL

(* What it was told is gone is gone: the node is not the one the volume is
   connected to, staged or mounted on (the answers that
   ControllerUnpublishVolume and NodeUnstageVolume give early). *)
THEOREM ToldGone == Spec => []ToldIsGone
<1>1. ASSUME CSIInv
      PROVE  ToldIsGone
  BY <1>1 DEF CSIInv, Fits, ToldIsGone
<1> QED
  BY <1>1, ToldInOrder, PTL

(* The calls that only read agree with what the orchestrator was told
   (ValidateVolumeCapabilities, ControllerGetVolume, NodeGetVolumeStats), for
   every storage class, whatever the order of its capabilities. *)
THEOREM ReadersAgree == Spec => []ReadsAgree
<1>1. ASSUME CSIInv, ToldIsThere
      PROVE  ReadsAgree
  <2> DEFINE blocks == {i \in DOMAIN class.caps : class.caps[i].type = "block"}
             fit    == IF blocks = {} THEN DOMAIN class.caps ELSE blocks
             caps   == [i \in fit |-> class.caps[i]]
  <2>1. /\ Fits(row, told) /\ InOrder(told) /\ Suits(row)
        /\ row \in Volume /\ row.status \in Status
        /\ Exists(row) => row.mode = ModeOf(class.caps)
    BY <1>1 DEF CSIInv, Typed, Volume
  <2>2. told.volume = "yes" => Confirmed(row, caps)
    <3>1. ASSUME told.volume = "yes", NEW i \in fit
          PROVE  /\ class.caps[i].type = "block" => row.mode = "BLOCK"
                 /\ class.caps[i].type = "mount" => row.mode = "FILESYSTEM"
      <4>1. row.mode = ModeOf(class.caps) /\ i \in DOMAIN class.caps
        BY <2>1, <3>1 DEF Fits
      <4>2. CASE blocks = {}
        BY <4>1, <4>2 DEF ModeOf
      <4>3. CASE blocks # {}
        <5>1. class.caps[i].type = "block"
          BY <3>1, <4>3
        <5> QED
          BY <4>1, <5>1 DEF ModeOf
      <4> QED
        BY <4>2, <4>3
    <3>2. DOMAIN caps = fit /\ \A i \in fit : caps[i] = class.caps[i]
      OBVIOUS
    <3> HIDE DEF fit, caps
    <3> QED
      BY <3>1, <3>2 DEF Confirmed
  <2>3. ASSUME NEW n \in Clients, told.attach[n] = "yes", IsConnected(row)
        PROVE  PublishedNodes(row) = {n}
    <3>1. row.clientHost = n
      BY <1>1, <2>3 DEF ToldIsThere
    <3> QED
      BY <3>1, HostsAssumption DEF PublishedNodes
  <2>4. ASSUME NEW n \in Clients, NEW p \in MountPaths, told.mount[n][p] = "yes"
        PROVE  HasStats(row, p)
    <3>1. IsMounted(row) /\ p \in row.targetPaths
      BY <1>1, <2>4 DEF ToldIsThere
    <3>2. IsStaged(row) /\ IsConnected(row) /\ IsPublished(row)
      BY <2>1, <3>1, Rungs
    <3> QED
      BY <2>1, <3>1, <3>2 DEF Suits, HasStats, StatsVolume
  <2> HIDE DEF fit, caps
  <2> QED
    BY <2>2, <2>3, <2>4 DEF ReadsAgree, fit, caps
<1> QED
  BY <1>1, ToldInOrder, ToldThere, PTL
=============================================================================
