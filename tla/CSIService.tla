----------------------------- MODULE CSIService -----------------------------
(***************************************************************************)
(* The CSI plugin: a client of the VolumeService that turns each CSI call  *)
(* into a few RPCs, decided on the volume it fetched first.                *)
(*                                                                         *)
(* The service is taken at its interface: an RPC is one step that answers  *)
(* at once, refuses, or writes the row (VolumeLifecycle says that a call   *)
(* of VolumeService is such a step when calls do not overlap).  The        *)
(* orchestrator is the environment.  It keeps to the CSI specification: a  *)
(* call at a time per volume, in the order of the volume's life cycle, and *)
(* whatever it has no answer for it repeats or tears down.                 *)
(***************************************************************************)
EXTENDS CSIRequests

CONSTANTS
  StorageHost,    \* "storage_host" of the storage class
  Classes,        \* the storage classes a volume may be asked for with
  MaxFaults       \* bound on RPCs that fail and on answers that are lost

ASSUME StorageHostAssumption ==
  StorageHost \in Servers /\ Transports = {"ISCSI", "NVMEOF_TCP"}
ASSUME ClassesAssumption == VolumeId # Absent /\ \A k \in Classes : k.caps \in Seq(Capability)
ASSUME FaultsAssumption == MaxFaults \in Nat

VARIABLES
  row,            \* the row, as in VolumeService
  call,           \* the CSI call in flight
  told,           \* what the orchestrator has been told
  class,          \* the storage class, with the capabilities asked for
  faults          \* faults so far

vars == <<row, call, told, class, faults>>

Methods == {"CreateVolume", "DeleteVolume", "ControllerPublishVolume",
            "ControllerUnpublishVolume", "NodeStageVolume", "NodeUnstageVolume",
            "NodePublishVolume", "NodeUnpublishVolume"}

(* rpc is the RPC the handler sends next; seen is the volume that GetVolume
   returned, a nil pointer until it has. *)
Call == [method : Methods, rpc : Rpcs \cup {"none"}, node : Clients \cup {NoHost},
         staging : StagingPaths \cup {NoPath}, path : MountPaths \cup {NoPath},
         seen : VolumeMessage]

Idle == [method |-> "CreateVolume", rpc |-> "none", node |-> NoHost,
         staging |-> NoPath, path |-> NoPath, seen |-> NilVolume]

(* Told that it is not, that it is, or not told: a call was made and has not
   been answered. *)
Belief == {"no", "unsure", "yes"}

Beliefs == [volume : Belief,
            attach : [Clients -> Belief],
            stage  : [Clients -> Belief],
            mount  : [Clients -> [MountPaths -> Belief]]]

Init ==
  /\ row = NoVolume
  /\ call = Idle
  /\ told = [volume |-> "no",
             attach |-> [n \in Clients |-> "no"],
             stage  |-> [n \in Clients |-> "no"],
             mount  |-> [n \in Clients |-> [p \in MountPaths |-> "no"]]]
  /\ class \in Classes
  /\ faults = 0

-----------------------------------------------------------------------------
(* An RPC: the request a handler sends, and what the service makes of it.     *)

(* Ids, nodes and paths as the CSI call names them.  The transport is that of
   the volume it fetched; the server is in the volume's context. *)
Message(c) ==
  CASE c.rpc = "create"  -> [rpc |-> c.rpc, volume |-> CreatedBy(class)]
    [] c.rpc = "publish" -> [rpc |-> c.rpc, id |-> VolumeId, serverHost |-> StorageHost,
                             transport |-> c.seen.transport]
    [] c.rpc = "connect" -> [rpc |-> c.rpc, id |-> VolumeId, clientHost |-> c.node]
    [] c.rpc = "stage"   -> [rpc |-> c.rpc, id |-> VolumeId, stagingPath |-> c.staging]
    [] c.rpc \in {"mount", "unmount"} ->
         [rpc |-> c.rpc, id |-> VolumeId, mountPath |-> c.path]
    [] OTHER             -> [rpc |-> c.rpc, id |-> VolumeId]

(* The guards that answer InvalidArgument. *)
Refused(m, r) ==
  CASE m.rpc = "delete"     -> IsPublished(r)
    [] m.rpc = "unpublish"  -> IsConnected(r)
    [] m.rpc = "connect"    -> ~IsPublished(r)
    [] m.rpc = "disconnect" -> ~IsPublished(r) \/ IsMounted(r)
    [] m.rpc = "stage"      -> \/ ~IsConnected(r)
                               \/ IsStaged(r) /\ r.stagingPath # m.stagingPath
    [] m.rpc = "unstage"    -> IsMounted(r)
    [] m.rpc = "mount"      -> ~IsStaged(r)
    [] OTHER                -> FALSE

(* A volume that is where the RPC would bring it is left alone. *)
Settled(m, r) ==
  CASE m.rpc = "get"        -> TRUE
    [] m.rpc = "publish"    -> IsPublished(r)
    [] m.rpc = "unpublish"  -> ~IsPublished(r)
    [] m.rpc = "connect"    -> IsConnected(r)
    [] m.rpc = "disconnect" -> ~IsConnected(r)
    [] m.rpc = "stage"      -> IsStaged(r)
    [] m.rpc = "unstage"    -> ~IsStaged(r)
    [] m.rpc = "mount"      -> m.mountPath \in r.targetPaths
    [] m.rpc = "unmount"    -> m.mountPath \notin r.targetPaths
    [] OTHER                -> FALSE

(* A command that can only fail: a device cannot be mounted over the directory
   made for it. *)
CommandFails(m, r) == m.rpc = "stage" /\ r.mode = "BLOCK"

Reply(m, r) ==
  IF ~Valid(m)                                 THEN "invalid"
  ELSE IF m.rpc = "create"                     THEN IF Exists(r) THEN "exists" ELSE "ok"
  ELSE IF ~Exists(r)                           THEN "notFound"
  ELSE IF Refused(m, r)                        THEN "invalid"
  ELSE IF ~Settled(m, r) /\ CommandFails(m, r) THEN "internal"
  ELSE "ok"

(* PublishVolume takes no transport for iSCSI. *)
Asked(type) == IF type = "UNSPECIFIED" THEN "ISCSI" ELSE type

(* What an RPC that is neither refused nor settled writes. *)
Written(m, r) ==
  CASE m.rpc = "create"     -> [FromAPI(m.volume) EXCEPT !.status = INITIAL]
    [] m.rpc = "delete"     -> NoVolume
    [] m.rpc = "publish"    -> Updates(r, ToPublished(r, m.serverHost, Asked(m.transport)))
    [] m.rpc = "unpublish"  -> Updates(r, ToUnpublished(r))
    [] m.rpc = "connect"    -> Updates(r, ToConnected(r, m.clientHost))
    [] m.rpc = "disconnect" -> Updates(r, ToDisconnected(r))
    [] m.rpc = "stage"      -> Updates(r, ToStaged(r, m.stagingPath))
    [] m.rpc = "unstage"    -> Updates(r, ToUnstaged(r))
    [] m.rpc = "mount"      -> Updates(r, ToMounted(r, m.mountPath))
    [] m.rpc = "unmount"    -> Updates(r, ToUnmounted(r, m.mountPath))

RowAfter(m, r) ==
  IF Reply(m, r) # "ok" \/ Settled(m, r) THEN r ELSE Written(m, r)

-----------------------------------------------------------------------------
(* The handlers: what follows the reply to the RPC, r being the volume in    *)
(* the response.  "ok" and "error" answer the CSI call.                      *)

OkOrError(reply) == IF reply = "ok" THEN "ok" ELSE "error"

(* The orchestrator repeats a request unchanged, so the volume that exists has
   the capacity and the dataset it asks for. *)
CreateVolume(c, reply) ==
  IF c.rpc = "create" /\ reply = "exists" THEN "get" ELSE OkOrError(reply)

(* isErrorID: every InvalidArgument passes for a malformed id, "invalid" having
   an "id" in it. *)
isErrorID(reply) == reply = "invalid"

DeleteVolume(reply) ==
  IF reply = "notFound" \/ isErrorID(reply) THEN "ok" ELSE OkOrError(reply)

ControllerPublishVolume(c, reply, r) ==
  IF reply # "ok"               THEN "error"
  ELSE IF c.rpc = "get"         THEN "publish"
  ELSE IF c.rpc = "publish"     THEN "connect"
  ELSE IF r.clientHost \in {NoHost, c.node} THEN "ok" ELSE "error"

(* Mutants: the node test is inverted; a connected volume is not disconnected. *)
UnpublishElsewhere(c, reply, r) ==
  CASE c.rpc = "get" ->
         IF reply = "notFound" \/ r.clientHost = c.node THEN "ok"
         ELSE IF IsConnected(r) THEN "disconnect"
         ELSE IF IsPublished(r) THEN "unpublish"
         ELSE "ok"
    [] c.rpc = "disconnect" -> IF reply = "ok" THEN "unpublish" ELSE "error"
    [] OTHER                -> OkOrError(reply)
UnpublishConnected(c, reply, r) ==
  CASE c.rpc = "get" ->
         IF reply = "notFound" \/ r.clientHost \notin {NoHost, c.node} THEN "ok"
         ELSE IF IsStaged(r) THEN "disconnect"
         ELSE IF IsPublished(r) THEN "unpublish"
         ELSE "ok"
    [] c.rpc = "disconnect" -> IF reply = "ok" THEN "unpublish" ELSE "error"
    [] OTHER                -> OkOrError(reply)

(* client_host is compared whatever the status. *)
ControllerUnpublishVolume(c, reply, r) ==
  CASE c.rpc = "get" ->
         IF reply = "notFound" \/ r.clientHost \notin {NoHost, c.node} THEN "ok"
         ELSE IF IsConnected(r) THEN "disconnect"
         ELSE IF IsPublished(r) THEN "unpublish"
         ELSE "ok"
    [] c.rpc = "disconnect" -> IF reply = "ok" THEN "unpublish" ELSE "error"
    [] OTHER                -> OkOrError(reply)

IsHere(c, v) == IsConnected(v) /\ v.clientHost = c.node

(* Mutant: a connected volume passes for a staged one. *)
NodeStageConnected(c, reply, r) ==
  IF reply # "ok"          THEN "error"
  ELSE IF c.rpc = "get"    THEN
         IF ~IsConnected(r) THEN "connect"
         ELSE IF r.stagingPath = c.staging THEN "ok" ELSE "stage"
  ELSE IF c.rpc = "connect" THEN "stage"
  ELSE "ok"

NodeStageVolume(c, reply, r) ==
  IF reply # "ok"          THEN "error"
  ELSE IF c.rpc = "get"    THEN
         IF IsStaged(r) THEN IF r.stagingPath = c.staging THEN "ok" ELSE "error"
         ELSE IF IsHere(c, r) THEN "stage" ELSE "connect"
  ELSE IF c.rpc = "connect" THEN "stage"
  ELSE "ok"

(* Whose staging path it is, is not asked; whose connection, is. *)
NodeUnstageVolume(c, reply, r) ==
  CASE c.rpc = "get" ->
         IF reply = "notFound"   THEN "ok"
         ELSE IF IsStaged(r)     THEN "unstage"
         ELSE IF IsHere(c, r)    THEN "disconnect"
         ELSE "ok"
    [] c.rpc = "unstage" -> IF reply = "ok" /\ IsHere(c, c.seen) THEN "disconnect"
                            ELSE OkOrError(reply)
    [] OTHER -> OkOrError(reply)

NodeUnpublishVolume(reply) ==
  IF reply = "notFound" \/ isErrorID(reply) THEN "ok" ELSE OkOrError(reply)

Then(c, reply, r) ==
  CASE c.method = "CreateVolume"              -> CreateVolume(c, reply)
    [] c.method = "DeleteVolume"              -> DeleteVolume(reply)
    [] c.method = "ControllerPublishVolume"   -> ControllerPublishVolume(c, reply, r)
    [] c.method = "ControllerUnpublishVolume" -> ControllerUnpublishVolume(c, reply, r)
    [] c.method = "NodeStageVolume"           -> NodeStageVolume(c, reply, r)
    [] c.method = "NodeUnstageVolume"         -> NodeUnstageVolume(c, reply, r)
    [] c.method = "NodePublishVolume"         -> OkOrError(reply)
    [] c.method = "NodeUnpublishVolume"       -> NodeUnpublishVolume(reply)

-----------------------------------------------------------------------------
(* The orchestrator.  While its call is in flight it knows nothing of what it *)
(* has asked for.                                                            *)

(* The belief that a call is about. *)
Heard(c, b) ==
  CASE c.method \in {"CreateVolume", "DeleteVolume"} -> [told EXCEPT !.volume = b]
    [] c.method \in {"ControllerPublishVolume", "ControllerUnpublishVolume"} ->
         [told EXCEPT !.attach[c.node] = b]
    [] c.method \in {"NodeStageVolume", "NodeUnstageVolume"} ->
         [told EXCEPT !.stage[c.node] = b]
    [] c.method \in {"NodePublishVolume", "NodeUnpublishVolume"} ->
         [told EXCEPT !.mount[c.node][c.path] = b]

Verdict(c) ==
  IF c.method \in {"CreateVolume", "ControllerPublishVolume", "NodeStageVolume",
                   "NodePublishVolume"} THEN "yes" ELSE "no"

(* An orchestrator asks for what the plugin offers. *)
Offered(method) ==
  CASE method \in {"CreateVolume", "DeleteVolume"} ->
         "CREATE_DELETE_VOLUME" \in ControllerGetCapabilities
    [] method \in {"ControllerPublishVolume", "ControllerUnpublishVolume"} ->
         "PUBLISH_UNPUBLISH_VOLUME" \in ControllerGetCapabilities
    [] method \in {"NodeStageVolume", "NodeUnstageVolume"} ->
         "STAGE_UNSTAGE_VOLUME" \in NodeGetCapabilities
    [] OTHER -> TRUE

(* A request that does not validate is answered at once, and nobody has learnt
   anything about the volume. *)
Ask(valid, method, rpc, node, staging, path) ==
  LET c == [method |-> method, rpc |-> rpc, node |-> node, staging |-> staging,
            path |-> path, seen |-> NilVolume]
  IN  /\ call.rpc = "none"
      /\ Offered(method)
      /\ call' = IF valid THEN c ELSE call
      /\ told' = IF valid THEN Heard(c, "unsure") ELSE told
      /\ UNCHANGED <<row, class, faults>>

(* A request names the volume and one of the capabilities of its class. *)
Cap == class.caps[1]

AskCreate ==
  /\ told.volume # "yes"
  /\ Ask(validateCreateVolumeRequest(VolumeId, class),
         "CreateVolume", "create", NoHost, NoPath, NoPath)

AskDelete ==
  /\ told.volume # "no"
  /\ \A n \in Clients : told.attach[n] = "no"
  /\ Ask(validateDeleteVolumeRequest(VolumeId),
         "DeleteVolume", "delete", NoHost, NoPath, NoPath)

(* A single writer: nowhere else, as far as it has been told. *)
AskControllerPublish(n) ==
  /\ told.volume = "yes"
  /\ told.attach[n] # "yes"
  /\ \A m \in Clients \ {n} : told.attach[m] = "no"
  /\ Ask(validateControllerPublishVolumeRequest(VolumeId, n, Cap),
         "ControllerPublishVolume", "get", n, NoPath, NoPath)

AskControllerUnpublish(n) ==
  /\ told.attach[n] # "no"
  /\ told.stage[n] = "no"
  /\ Ask(validateControllerUnpublishVolumeRequest(VolumeId, n),
         "ControllerUnpublishVolume", "get", n, NoPath, NoPath)

AskNodeStage(n, g) ==
  /\ told.attach[n] = "yes"
  /\ told.stage[n] # "yes"
  /\ Ask(validateNodeStageVolumeRequest(VolumeId, g, Cap),
         "NodeStageVolume", "get", n, g, NoPath)

(* Mutant: the handler does not fetch the volume. *)
AskNodeUnstageUnseen(n, g) ==
  /\ told.stage[n] # "no"
  /\ \A p \in MountPaths : told.mount[n][p] = "no"
  /\ Ask(validateNodeUnstageVolumeRequest(VolumeId, g),
         "NodeUnstageVolume", "unstage", n, NoPath, NoPath)

AskNodeUnstage(n, g) ==
  /\ told.stage[n] # "no"
  /\ \A p \in MountPaths : told.mount[n][p] = "no"
  /\ Ask(validateNodeUnstageVolumeRequest(VolumeId, g),
         "NodeUnstageVolume", "get", n, NoPath, NoPath)

AskNodePublish(n, p) ==
  /\ told.stage[n] = "yes"
  /\ told.mount[n][p] # "yes"
  /\ Ask(validateNodePublishVolumeRequest(VolumeId, p, Cap),
         "NodePublishVolume", "mount", n, NoPath, p)

AskNodeUnpublish(n, p) ==
  /\ told.mount[n][p] # "no"
  /\ Ask(validateNodeUnpublishVolumeRequest(VolumeId, p),
         "NodeUnpublishVolume", "unmount", n, NoPath, p)

-----------------------------------------------------------------------------
(* The RPCs.                                                                 *)

(* The handler takes the reply and goes on, or answers the orchestrator. *)
RpcAnswered ==
  LET m     == Message(call)
      reply == Reply(m, row)
      next  == Then(call, reply, ToAPI(RowAfter(m, row)))
  IN  /\ call.rpc # "none"
      /\ row' = RowAfter(m, row)
      /\ call' = IF next \in {"ok", "error"} THEN Idle
                 ELSE [call EXCEPT !.rpc = next,
                                   !.seen = IF call.rpc = "get" THEN ToAPI(row) ELSE @]
      /\ told' = IF next = "ok" THEN Heard(call, Verdict(call)) ELSE told
      /\ UNCHANGED <<class, faults>>

(* A command failed on a host, the lock was not to be had, the plugin or the
   service was not there: the transaction is rolled back and the call fails. *)
RpcFails ==
  /\ faults < MaxFaults
  /\ call.rpc # "none"
  /\ call' = Idle
  /\ faults' = faults + 1
  /\ UNCHANGED <<row, told, class>>

(* The RPC was served, but the plugin restarts or its caller has given up. *)
AnswerLost ==
  /\ faults < MaxFaults
  /\ call.rpc # "none"
  /\ row' = RowAfter(Message(call), row)
  /\ call' = Idle
  /\ faults' = faults + 1
  /\ UNCHANGED <<told, class>>

-----------------------------------------------------------------------------
AskAny ==
  \/ AskCreate
  \/ AskDelete
  \/ \E n \in Clients :
       \/ AskControllerPublish(n)
       \/ AskControllerUnpublish(n)
       \/ \E g \in StagingPaths : AskNodeStage(n, g) \/ AskNodeUnstage(n, g)
       \/ \E p \in MountPaths : AskNodePublish(n, p) \/ AskNodeUnpublish(n, p)

Next == AskAny \/ RpcAnswered \/ RpcFails \/ AnswerLost

Spec == Init /\ [][Next]_vars

(* What an orchestrator does about a call it has no answer for. *)
RetryVolume == told.volume = "unsure" /\ (AskCreate \/ AskDelete)

RetryAttach(n) ==
  told.attach[n] = "unsure" /\ (AskControllerPublish(n) \/ AskControllerUnpublish(n))

RetryStage(n) ==
  /\ told.stage[n] = "unsure"
  /\ \E g \in StagingPaths : AskNodeStage(n, g) \/ AskNodeUnstage(n, g)

RetryMount(n, p) ==
  told.mount[n][p] = "unsure" /\ (AskNodePublish(n, p) \/ AskNodeUnpublish(n, p))

(* The handlers run on.  The orchestrator repeats each call on its own clock,
   so that none is for ever passed over for the others. *)
FairSpec ==
  /\ Spec
  /\ WF_vars(RpcAnswered)
  /\ SF_vars(RetryVolume)
  /\ \A n \in Clients :
        /\ SF_vars(RetryAttach(n))
        /\ SF_vars(RetryStage(n))
        /\ \A p \in MountPaths : SF_vars(RetryMount(n, p))

-----------------------------------------------------------------------------
(* Properties.                                                               *)

(* The variables have their types, every request a handler sends is one of the
   API's messages and passes its rules, and a handler that follows its
   GetVolume holds the volume it returned (vol is dereferenced without a
   test). *)
TypeOK ==
  /\ row \in Volume
  /\ call \in Call
  /\ told \in Beliefs
  /\ class \in Classes
  /\ faults \in 0..MaxFaults
  /\ call.rpc # "none" => Message(call) \in Request /\ Valid(Message(call))
  /\ call.rpc \in {"publish", "connect", "disconnect", "unpublish", "stage", "unstage"}
       => Exists(call.seen)

(* What the orchestrator was told is there is there: attached to that node if
   it is connected at all, staged and mounted on that node - whatever failed,
   was repeated or was torn down half-way before (the Node and Controller
   calls that answer OK without an RPC of their own). *)
ToldIsThere ==
  \A n \in Clients :
    /\ told.attach[n] = "yes" => /\ IsPublished(row)
                                 /\ IsConnected(row) => row.clientHost = n
    /\ told.stage[n] = "yes" => IsStaged(row) /\ row.clientHost = n
    /\ \A p \in MountPaths :
          told.mount[n][p] = "yes" => IsMounted(row) /\ p \in row.targetPaths

(* What the orchestrator was told is gone is gone: a node it takes for detached
   is not the one the volume is connected to, nor staged or mounted on
   (ControllerUnpublishVolume and NodeUnstageVolume answer OK early). *)
ToldIsGone ==
  \A n \in Clients : row.clientHost = n =>
    /\ told.attach[n] = "no" => ~IsConnected(row)
    /\ told.stage[n] = "no" => ~IsStaged(row)
    /\ \A p \in MountPaths : told.mount[n][p] = "no" => p \notin row.targetPaths

(* Every call can be repeated until it is answered: an RPC sequence that was
   cut off anywhere can be taken up again from the status it left.  Staging a
   BLOCK volume never succeeds. *)
Resolved ==
  /\ told.volume = "unsure" ~> told.volume # "unsure"
  /\ \A n \in Clients :
       /\ told.attach[n] = "unsure" ~> told.attach[n] # "unsure"
       /\ told.stage[n] = "unsure" ~> told.stage[n] # "unsure" \/ row.mode = "BLOCK"
       /\ \A p \in MountPaths :
            told.mount[n][p] = "unsure" ~> told.mount[n][p] # "unsure"

(* The calls that read agree with what the orchestrator was told: a volume it
   was told of confirms the block capabilities it was asked for with, or the
   mount ones if there were no others; a node it was told is attached is the one
   reported if any is connected; and there are stats of every path it was told
   is mounted (ValidateVolumeCapabilities, ControllerGetVolume,
   NodeGetVolumeStats). *)
ReadsAgree ==
  LET blocks == {i \in DOMAIN class.caps : class.caps[i].type = "block"}
      fit    == IF blocks = {} THEN DOMAIN class.caps ELSE blocks
  IN  /\ told.volume = "yes" => Confirmed(row, [i \in fit |-> class.caps[i]])
      /\ \A n \in Clients :
           /\ told.attach[n] = "yes" /\ IsConnected(row) => PublishedNodes(row) = {n}
           /\ \A p \in MountPaths : told.mount[n][p] = "yes" => HasStats(row, p)

(* "isErrorID returns true if the error is an InvalidArgument error specifically
   related to a malformed ID": a volume that CSI has reported deleted does not
   exist. *)
DeletedIsGone == told.volume = "no" => ~Exists(row)

=============================================================================
