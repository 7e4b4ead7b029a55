------------------------------ MODULE VolumeRow ------------------------------
(***************************************************************************)
(* One row of the volumes table and what the service does to it: the       *)
(* status ladder, the predicates on it, and gorm's Updates, which writes   *)
(* the non-zero fields of a struct and leaves the other columns alone.     *)
(*                                                                         *)
(* Pure definitions, shared by every module that reads or writes a row.    *)
(***************************************************************************)
EXTENDS Naturals

CONSTANTS
  Servers,        \* hosts with the server role (they own the zpool)
  Clients,        \* hosts with the client role (they log in and mount)
  Transports,     \* the transports a volume may be published on
  StagingPaths,   \* staging paths a request may name
  MountPaths,     \* target paths a request may name
  NoHost,         \* the empty host name
  NoPath          \* the empty path

ASSUME HostsAssumption ==
  /\ NoHost \notin Servers \cup Clients
  /\ Servers \cap Clients = {}
ASSUME PathsAssumption ==
  /\ NoPath \notin StagingPaths \cup MountPaths
  /\ StagingPaths \cap MountPaths = {}
ASSUME TransportsAssumption == Transports \subseteq {"ISCSI", "NVMEOF_TCP"}

-----------------------------------------------------------------------------
(* database.VolumeStatus: the rungs of the ladder.  UNSPECIFIED is the zero
   value; no stored row carries it, so it also stands for "no such row". *)
UNSPECIFIED == 0
INITIAL     == 1
PUBLISHED   == 2
CONNECTED   == 3
STAGED      == 4
MOUNTED     == 5
Status      == UNSPECIFIED .. MOUNTED

Modes == {"BLOCK", "FILESYSTEM"}

(* database.VolumeTransport.  "target" is the server whose target id, address
   and password the transport struct carries, NoHost when that struct is a nil
   pointer; "initiator" is the client whose id and password it carries. *)
Transport ==
  [type      : Transports \cup {"UNSPECIFIED"},
   target    : Servers \cup {NoHost},
   initiator : Clients \cup {NoHost}]

NoTransport == [type |-> "UNSPECIFIED", target |-> NoHost, initiator |-> NoHost]

(* The columns of database.Volume the lifecycle reads or writes.  TargetPaths
   is a set (its order is never used) with the one bit of the Go slice that
   gorm tells apart: nil, as opposed to empty. *)
Volume ==
  [status      : Status,
   mode        : Modes,
   serverHost  : Servers \cup {NoHost},
   clientHost  : Clients \cup {NoHost},
   transport   : Transport,
   stagingPath : StagingPaths \cup {NoPath},
   targetPaths : SUBSET MountPaths,
   pathsNil    : BOOLEAN]

(* The columns that later handlers own.  The API calls them read-only; nothing
   keeps a request to create a volume from setting them. *)
Outputs ==
  [serverHost  : Servers \cup {NoHost},
   clientHost  : Clients \cup {NoHost},
   stagingPath : StagingPaths \cup {NoPath},
   targetPaths : SUBSET MountPaths]

NoOutputs == [serverHost |-> NoHost, clientHost |-> NoHost,
              stagingPath |-> NoPath, targetPaths |-> {}]

(* What CreateVolume stores: INITIAL, the transport asked for (its type alone),
   and the other columns as the request carries them; a list that is empty is
   not sent. *)
NewVolume(mode, type, out) ==
  [status |-> INITIAL, mode |-> mode, serverHost |-> out.serverHost,
   clientHost |-> out.clientHost, transport |-> [NoTransport EXCEPT !.type = type],
   stagingPath |-> out.stagingPath,
   targetPaths |-> out.targetPaths, pathsNil |-> out.targetPaths = {}]

NoVolume == [NewVolume("BLOCK", "UNSPECIFIED", NoOutputs) EXCEPT !.status = UNSPECIFIED]

Exists(row)      == row.status # UNSPECIFIED
IsPublished(row) == row.status >= PUBLISHED
IsConnected(row) == row.status >= CONNECTED
IsStaged(row)    == row.status >= STAGED
IsMounted(row)   == row.status >= MOUNTED

(* gorm's Updates(ctx, v): a zero field of v is skipped, so an empty host or
   path never clears the column, a nil slice never empties the list.  Status
   and Transport are never zero.  A row that is gone matches no WHERE clause:
   nothing is written and no error is returned. *)
Kept(new, zero, old) == IF new = zero THEN old ELSE new

Updates(row, v) ==
  IF ~Exists(row) THEN row
  ELSE [status      |-> v.status,
        mode        |-> v.mode,
        serverHost  |-> Kept(v.serverHost, NoHost, row.serverHost),
        clientHost  |-> Kept(v.clientHost, NoHost, row.clientHost),
        transport   |-> v.transport,
        stagingPath |-> Kept(v.stagingPath, NoPath, row.stagingPath),
        targetPaths |-> IF v.pathsNil THEN row.targetPaths ELSE v.targetPaths,
        pathsNil    |-> v.pathsNil /\ row.pathsNil]

-----------------------------------------------------------------------------
(* What each handler stores in the volume it has read, before Updates. *)

ToPublished(v, server, type) ==
  [v EXCEPT !.status = PUBLISHED, !.serverHost = server,
            !.transport = [type |-> type, target |-> server, initiator |-> NoHost]]

ToUnpublished(v) ==
  [v EXCEPT !.status = INITIAL, !.serverHost = NoHost, !.transport = NoTransport]

ToConnected(v, client) ==
  [v EXCEPT !.status = CONNECTED, !.clientHost = client,
            !.transport.initiator = client]

(* Mutant: the initiator's identity outlives its connection. *)
ToDisconnectedKept(v) == [v EXCEPT !.status = PUBLISHED, !.clientHost = NoHost]

ToDisconnected(v) ==
  [v EXCEPT !.status = PUBLISHED, !.clientHost = NoHost,
            !.transport.initiator = NoHost]

ToStaged(v, path) == [v EXCEPT !.status = STAGED, !.stagingPath = path]

ToUnstaged(v) == [v EXCEPT !.status = CONNECTED, !.stagingPath = NoPath]

(* Mutant: a rung up, instead of to the top. *)
ToMountedOneUp(v, path) ==
  [v EXCEPT !.status = @ + 1, !.targetPaths = @ \cup {path}, !.pathsNil = FALSE]

ToMounted(v, path) ==
  [v EXCEPT !.status = MOUNTED, !.targetPaths = @ \cup {path}, !.pathsNil = FALSE]

(* Mutant: the list is tested before the path is taken out of it. *)
ToUnmountedLate(v, path) ==
  [v EXCEPT !.targetPaths = @ \ {path},
            !.status = IF v.targetPaths = {} THEN STAGED ELSE @]

(* The status falls back to STAGED with the last path; it is not read first. *)
ToUnmounted(v, path) ==
  [v EXCEPT !.targetPaths = @ \ {path},
            !.status = IF v.targetPaths \subseteq {path} THEN STAGED ELSE @]

(* UpdateVolume converts the row to the API type and back.  The API type
   carries the transport's type only: the details do not survive. *)
ToUpdated(v) ==
  [v EXCEPT !.transport = [type |-> v.transport.type,
                           target |-> NoHost, initiator |-> NoHost]]

=============================================================================
