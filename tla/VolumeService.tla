---------------------------- MODULE VolumeService ----------------------------
(***************************************************************************)
(* The VolumeService of the storage control plane, for one volume.         *)
(*                                                                         *)
(* Every handler reads the row, checks the status, changes its copy, and   *)
(* then runs a transaction: Updates first (which takes SQLite's write      *)
(* lock), the shell commands on the hosts next, the commit last.  The read *)
(* is outside the transaction, so the copy may be stale when it is         *)
(* written.  UpdateVolume uses no transaction, DeleteVolume takes the lock *)
(* only after its command.                                                 *)
(*                                                                         *)
(* A call that the guards answer at once, with success or with an error,   *)
(* changes nothing: it is a stuttering step and has no action.             *)
(***************************************************************************)
EXTENDS HostCommands

CONSTANTS
  Calls,          \* slots for requests in flight: one slot serializes them
  NoCall,         \* nobody holds the write lock
  Requests,       \* the operations the environment asks for
  CreateModes,    \* the modes it creates volumes in
  CreateOutputs,  \* what it says of the columns that are not its own
  MaxFaults,      \* bound on lost commands, lost answers and crashes
  MaxDepth        \* bound on the stack of mounts at which a request is accepted

ASSUME CallsAssumption == NoCall \notin Calls
ASSUME RequestsAssumption == CreateModes \subseteq Modes
ASSUME OutputsAssumption ==
  /\ CreateOutputs \subseteq Outputs
  /\ \A out \in CreateOutputs : IsFiniteSet(out.targetPaths)
ASSUME BoundsAssumption == MaxFaults \in Nat /\ MaxDepth \in Nat \ {0}

VARIABLES
  row,            \* the committed row, NoVolume when there is none
  lock,           \* the call whose transaction holds SQLite's write lock
  call,           \* the request each slot is serving
  world,          \* the hosts
  faults          \* faults so far

vars == <<row, lock, call, world, faults>>

Ops == {"Delete", "Publish", "Unpublish", "Connect", "Disconnect", "Stage",
        "Unstage", "Mount", "Unmount", "Update"}

(* pc is the next thing the handler does: write the row, run the command it
   names, commit, or delete the row.  "ready" is FALSE when the handler fails
   before its first command: a host that is not registered, a transport whose
   details are a nil pointer, a staging path that is empty. *)
Steps == Commands \cup {"idle", "write", "commit", "delete"}

Call ==
  [op : Ops \cup {"none"}, pc : Steps, v : Volume, at : Place, ready : BOOLEAN]

Idle ==
  [op |-> "none", pc |-> "idle", v |-> NoVolume, at |-> NoPlace, ready |-> FALSE]

TypeOK ==
  /\ row \in Volume
  /\ lock \in Calls \cup {NoCall}
  /\ call \in [Calls -> Call]
  /\ world \in World
  /\ faults \in Nat

Init ==
  /\ row = NoVolume
  /\ lock = NoCall
  /\ call = [c \in Calls |-> Idle]
  /\ world = FreshWorld
  /\ faults = 0

-----------------------------------------------------------------------------
(* The requests.  Each action is the part of a handler that runs on the row  *)
(* it has just read.                                                         *)

Accept(c, op, pc, v, at, ready) ==
  /\ op \in Requests
  /\ call[c].pc = "idle"
  /\ Exists(row)
  /\ call' = [call EXCEPT ![c] = [op |-> op, pc |-> pc, v |-> v, at |-> at,
                                  ready |-> ready]]
  /\ UNCHANGED <<row, lock, world, faults>>

AnyTransport == Transports \cup {"UNSPECIFIED"}

(* The primary key refuses a second row; the insert needs the write lock. *)
CreateVolume(mode, type, out) ==
  /\ ~Exists(row)
  /\ lock = NoCall
  /\ row' = NewVolume(mode, type, out)
  /\ UNCHANGED <<lock, call, world, faults>>

(* Mutant: the zvol is destroyed while the volume is published only. *)
DeleteVolumeRowOnly(c) ==
  /\ ~IsPublished(row)
  /\ Accept(c, "Delete", IF IsPublished(row) THEN "zfsDestroy" ELSE "delete",
            row, PlaceOf(row, NoPath), TRUE)

(* The column server_host is never cleared: the last server is destroyed on. *)
DeleteVolume(c) ==
  /\ ~IsPublished(row)
  /\ Accept(c, "Delete",
            IF row.serverHost = NoHost THEN "delete" ELSE "zfsDestroy",
            row, PlaceOf(row, NoPath), TRUE)

PublishVolume(c, server, type) ==
  /\ ~IsPublished(row)
  /\ LET v == ToPublished(row, server, type)
     IN  Accept(c, "Publish", "write", v, PlaceOf(v, NoPath), server # NoHost)

UnpublishVolume(c) ==
  /\ IsPublished(row)
  /\ ~IsConnected(row)
  /\ Accept(c, "Unpublish", "write", ToUnpublished(row), PlaceOf(row, NoPath),
            row.serverHost # NoHost /\ row.transport.type # "UNSPECIFIED")

ConnectVolume(c, client) ==
  /\ IsPublished(row)
  /\ ~IsConnected(row)
  /\ LET v == ToConnected(row, client)
     IN  Accept(c, "Connect", "write", v, PlaceOf(v, NoPath),
                NoHost \notin {row.serverHost, client, row.transport.target})

(* Mutant: a mounted volume passes too. *)
DisconnectMounted(c) ==
  /\ IsConnected(row)
  /\ Accept(c, "Disconnect", "write", ToDisconnected(row), PlaceOf(row, NoPath),
            NoHost \notin {row.serverHost, row.clientHost, row.transport.target})

(* A staged volume passes: only IsMounted is refused. *)
DisconnectVolume(c) ==
  /\ IsConnected(row)
  /\ ~IsMounted(row)
  /\ Accept(c, "Disconnect", "write", ToDisconnected(row), PlaceOf(row, NoPath),
            NoHost \notin {row.serverHost, row.clientHost, row.transport.target})

StageVolume(c, path) ==
  /\ IsConnected(row)
  /\ ~IsStaged(row)
  /\ row.clientHost \in Clients =>
        Len(world.mount[row.clientHost][path]) < MaxDepth
  /\ LET v == ToStaged(row, path)
     IN  Accept(c, "Stage", "write", v, PlaceOf(v, NoPath),
                row.clientHost # NoHost /\ row.transport.target # NoHost)

UnstageVolume(c) ==
  /\ IsStaged(row)
  /\ ~IsMounted(row)
  /\ Accept(c, "Unstage", "write", ToUnstaged(row), PlaceOf(row, NoPath),
            row.clientHost # NoHost /\ row.stagingPath # NoPath)

MountVolume(c, path) ==
  /\ IsStaged(row)
  /\ path \notin row.targetPaths
  /\ row.clientHost \in Clients =>
        Len(world.mount[row.clientHost][path]) < MaxDepth
  /\ LET v == ToMounted(row, path)
     IN  Accept(c, "Mount", "write", v, PlaceOf(v, path),
                row.clientHost # NoHost /\ row.stagingPath # NoPath)

(* The list of paths is consulted, the status is not. *)
UnmountVolume(c, path) ==
  /\ path \in row.targetPaths
  /\ LET v == ToUnmounted(row, path)
     IN  Accept(c, "Unmount", "write", v, PlaceOf(v, path), row.clientHost # NoHost)

UpdateVolume(c) ==
  LET v == ToUpdated(row)
  IN  Accept(c, "Update", "write", v, PlaceOf(v, NoPath), TRUE)

-----------------------------------------------------------------------------
(* What follows the read.                                                    *)

(* Mutant: the initiator is not logged out before it loses its rights. *)
FirstNoLogout(op) ==
  CASE op = "Publish"    -> "zfsList"
    [] op = "Unpublish"  -> "unpublish"
    [] op = "Connect"    -> "authorize"
    [] op = "Disconnect" -> "unauthorize"
    [] op = "Stage"      -> "waitDevice"
    [] op = "Unstage"    -> "umountStaging"
    [] op = "Mount"      -> "bind"
    [] op = "Unmount"    -> "umountTarget"
    [] OTHER             -> "idle"

First(op) ==
  CASE op = "Publish"    -> "zfsList"
    [] op = "Unpublish"  -> "unpublish"
    [] op = "Connect"    -> "authorize"
    [] op = "Disconnect" -> "logout"
    [] op = "Stage"      -> "waitDevice"
    [] op = "Unstage"    -> "umountStaging"
    [] op = "Mount"      -> "bind"
    [] op = "Unmount"    -> "umountTarget"
    [] OTHER             -> "idle"

(* UpdateVolume tells the server when there is one and the client when the
   volume is connected. *)
RescanOrAnswer(v) ==
  IF IsConnected(v) /\ v.clientHost # NoHost THEN "rescan" ELSE "idle"

FirstOfUpdate(v) == IF v.serverHost # NoHost THEN "zfsSet" ELSE RescanOrAnswer(v)

(* The step after a command that succeeded in world w. *)
After(cmd, v, w, at) ==
  CASE cmd = "zfsList"    -> IF w.zvol[at.server] = "absent" THEN "zfsCreate" ELSE "publish"
    [] cmd = "zfsCreate"  -> "publish"
    [] cmd = "authorize"  -> "login"
    [] cmd = "logout"     -> "unauthorize"
    [] cmd = "waitDevice" -> IF at.mode = "FILESYSTEM" THEN "blkid" ELSE "mount"
    [] cmd = "blkid"      -> IF w.zvol[at.server] = "ext4" THEN "mount" ELSE "mkfs"
    [] cmd = "mkfs"       -> "mount"
    [] cmd = "zfsDestroy" -> "delete"
    [] cmd = "zfsSet"     -> RescanOrAnswer(v)
    [] cmd = "rescan"     -> IF at.mode = "FILESYSTEM" THEN "resize" ELSE "idle"
    [] cmd = "resize"     -> "idle"
    [] OTHER              -> "commit"

Released(c) == IF lock = c THEN NoCall ELSE lock

Goto(c, pc) ==
  call' = [call EXCEPT ![c] = IF pc = "idle" THEN Idle ELSE [@ EXCEPT !.pc = pc]]

(* Rollback: the row stays as it was committed, the lock is free again. *)
Fail(c) ==
  /\ Goto(c, "idle")
  /\ lock' = Released(c)
  /\ UNCHANGED row

(* Mutant: the transaction writes nothing before its commands. *)
BeginUnlocked(c) ==
  /\ call[c].pc = "write"
  /\ call[c].op # "Update"
  /\ call[c].ready
  /\ Goto(c, First(call[c].op))
  /\ UNCHANGED <<row, lock, world, faults>>

(* Updates is the first statement that writes: it takes the write lock, which
   lasts until the commit.  Nobody can write the row meanwhile, so the row is
   changed at the commit here. *)
Begin(c) ==
  /\ call[c].pc = "write"
  /\ call[c].op # "Update"
  /\ call[c].ready
  /\ lock = NoCall
  /\ lock' = c
  /\ Goto(c, First(call[c].op))
  /\ UNCHANGED <<row, world, faults>>

(* UpdateVolume commits at once. *)
WriteUpdate(c) ==
  /\ call[c].pc = "write"
  /\ call[c].op = "Update"
  /\ lock = NoCall
  /\ row' = Updates(row, call[c].v)
  /\ Goto(c, FirstOfUpdate(call[c].v))
  /\ UNCHANGED <<lock, world, faults>>

(* No such host, or a nil transport: an error or a panic, both roll back. *)
NotReady(c) ==
  /\ call[c].pc = "write"
  /\ ~call[c].ready
  /\ Fail(c)
  /\ UNCHANGED <<world, faults>>

(* SQLite's busy timeout: "database is locked". *)
LockTimeout(c) ==
  /\ call[c].pc \in {"write", "delete"}
  /\ lock # NoCall
  /\ Fail(c)
  /\ UNCHANGED <<world, faults>>

RunCommand(c) ==
  /\ call[c].pc \in Commands
  /\ Succeeds(call[c].pc, world, call[c].at)
  /\ world' = Effect(call[c].pc, world, call[c].at)
  /\ Goto(c, After(call[c].pc, call[c].v, world, call[c].at))
  /\ UNCHANGED <<row, lock, faults>>

(* Mutant: the wait for a device has no end. *)
CommandHangs(c) ==
  /\ call[c].pc \in Commands \ {"waitDevice"}
  /\ ~Succeeds(call[c].pc, world, call[c].at)
  /\ Fail(c)
  /\ UNCHANGED <<world, faults>>

CommandFails(c) ==
  /\ call[c].pc \in Commands
  /\ ~Succeeds(call[c].pc, world, call[c].at)
  /\ Fail(c)
  /\ UNCHANGED <<world, faults>>

(* The command ran, the connection dropped before its exit status came back. *)
LoseAnswer(c) ==
  /\ faults < MaxFaults
  /\ call[c].pc \in Commands
  /\ Succeeds(call[c].pc, world, call[c].at)
  /\ world' = Effect(call[c].pc, world, call[c].at)
  /\ faults' = faults + 1
  /\ Fail(c)

(* The host was not reached, or the commit (the delete) was refused. *)
LoseCommand(c) ==
  /\ faults < MaxFaults
  /\ call[c].pc \in Commands \cup {"commit", "delete"}
  /\ faults' = faults + 1
  /\ Fail(c)
  /\ UNCHANGED world

Commit(c) ==
  /\ call[c].pc = "commit"
  /\ row' = Updates(row, call[c].v)
  /\ lock' = Released(c)
  /\ Goto(c, "idle")
  /\ UNCHANGED <<world, faults>>

DeleteRow(c) ==
  /\ call[c].pc = "delete"
  /\ lock = NoCall
  /\ row' = NoVolume
  /\ Goto(c, "idle")
  /\ UNCHANGED <<lock, world, faults>>

(* The control plane stops and starts again: open transactions are rolled
   back, the hosts keep what the commands did. *)
Crash ==
  /\ faults < MaxFaults
  /\ \E c \in Calls : call[c].pc # "idle"
  /\ call' = [c \in Calls |-> Idle]
  /\ lock' = NoCall
  /\ faults' = faults + 1
  /\ UNCHANGED <<row, world>>

-----------------------------------------------------------------------------
Request(c) ==
  \/ DeleteVolume(c)
  \/ \E s \in Servers \cup {NoHost}, t \in Transports : PublishVolume(c, s, t)
  \/ UnpublishVolume(c)
  \/ \E h \in Clients \cup {NoHost} : ConnectVolume(c, h)
  \/ DisconnectVolume(c)
  \/ \E p \in StagingPaths : StageVolume(c, p)
  \/ UnstageVolume(c)
  \/ \E p \in MountPaths : MountVolume(c, p)
  \/ \E p \in MountPaths : UnmountVolume(c, p)
  \/ UpdateVolume(c)

(* The steps the program takes by itself once it has accepted a call. *)
Progress(c) ==
  \/ Begin(c)
  \/ WriteUpdate(c)
  \/ NotReady(c)
  \/ LockTimeout(c)
  \/ RunCommand(c)
  \/ CommandFails(c)
  \/ Commit(c)
  \/ DeleteRow(c)

Fault(c) == LoseAnswer(c) \/ LoseCommand(c)

Next ==
  \/ \E m \in CreateModes, t \in AnyTransport, out \in CreateOutputs :
       CreateVolume(m, t, out)
  \/ \E c \in Calls : Request(c) \/ Progress(c) \/ Fault(c)
  \/ Crash

Spec == Init /\ [][Next]_vars

FairSpec == Spec /\ \A c \in Calls : WF_vars(Progress(c))

-----------------------------------------------------------------------------
(* Properties.                                                               *)

Quiet == \A c \in Calls : call[c].pc = "idle"

(* No volume is formatted twice: mkfs never runs over a filesystem, however
   calls overlap, fail or are cut off by a crash (StageVolume's blkid and
   mkfs are a check and an act, kept together by the write lock only). *)
NoOverwrite == ~world.overwritten

(* A status is never committed without the column its teardown needs:
   whatever overlaps, a connected volume names its client and a mounted one
   has a target path (DisconnectVolume, UnstageVolume and UnmountVolume look
   their hosts and paths up in those columns). *)
TeardownColumns ==
  /\ IsConnected(row) => row.clientHost # NoHost
  /\ IsMounted(row) => row.targetPaths # {}

(* The details of the transport are those of the binding, or none at all (an
   UpdateVolume dropped them): StageVolume and DisconnectVolume never use the
   identity of an earlier target or of an initiator that has disconnected. *)
TransportDetails ==
  /\ row.transport.target \in {NoHost, IF IsPublished(row) THEN row.serverHost ELSE NoHost}
  /\ row.transport.initiator \in {NoHost, IF IsConnected(row) THEN row.clientHost ELSE NoHost}

(* When calls do not overlap the whole row is consistent with its status,
   though Updates never clears a column (StageVolume and its neighbours use
   the columns of the rungs below without checking them). *)
RowShape ==
  /\ TeardownColumns
  /\ TransportDetails
  /\ IsPublished(row) => /\ row.serverHost # NoHost
                         /\ row.transport.type \in Transports
  /\ IsStaged(row) => row.stagingPath # NoPath
  /\ row.targetPaths # {} => IsMounted(row)

(* SINGLE_NODE_WRITER: no client has the volume's device mounted but the one the
   row names, so there is one writer and teardown reaches it.  With one call at a
   time this survives lost commands, lost answers and crashes, although each of
   them leaves sessions and mounts behind. *)
WriterIsClient ==
  \A c \in Writers(world) : IsConnected(row) /\ row.clientHost = c

(* As long as nothing has failed, a row at rest tells the state of the hosts:
   exported iff published, authorized and logged in iff connected, the device
   on the staging path iff staged, and on every target path; and no zvol once
   there is no row ("Destroy ZFS volume if it was created"). *)
RowMatchesHosts ==
  Quiet /\ faults = 0 =>
    /\ ~Exists(row) => \A s \in Servers : world.zvol[s] = "absent"
    /\ world.target = IF IsPublished(row)
                      THEN {<<row.serverHost, row.transport.type>>} ELSE {}
    /\ world.acl = world.target \X (IF IsConnected(row) THEN {row.clientHost} ELSE {})
    /\ {s.client : s \in world.session}
          = IF IsConnected(row) THEN {row.clientHost} ELSE {}
    /\ \A c \in Clients, p \in StagingPaths :
          ShownAt(world, c, p).kind = "device"
             <=> IsStaged(row) /\ row.clientHost = c /\ row.stagingPath = p
    /\ \A c \in Clients, p \in row.targetPaths :
          c = row.clientHost => ShownAt(world, c, p).kind = "device"

(* UpdateVolume ignores the read-only fields: it leaves the transport alone. *)
UpdateKeepsTransport ==
  [][\A c \in Calls :
        call[c].op = "Update" /\ call[c].pc = "write" /\ Exists(row)
           => row'.transport = row.transport]_row

(* Every accepted call is answered, though it may wait for a lock that other
   calls take again and again. *)
Answered == \A c \in Calls : call[c].pc # "idle" ~> call[c].pc = "idle"

(* The row, seen through its status: a column a rung below the volume's own
   binds is the value that was bound, any other column is stale and hidden. *)
Lifecycle ==
  INSTANCE VolumeLifecycle WITH
    status  <- row.status,
    server  <- IF IsPublished(row) THEN row.serverHost ELSE NoHost,
    client  <- IF IsConnected(row) THEN row.clientHost ELSE NoHost,
    staging <- IF IsStaged(row) THEN row.stagingPath ELSE NoPath,
    paths   <- row.targetPaths

(* One rung per call: with calls one at a time every commit is a step of the
   ladder, and no failure, lost answer or crash moves the row. *)
ImplementsLifecycle == Lifecycle!Spec

=============================================================================
