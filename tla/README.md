# A verification of zfsilo's volume control plane

zfsilo exports zvols of a ZFS server over iSCSI or NVMe/TCP and drives them, by
shell commands over SSH, from the creation of the zvol to the bind mount in a
container. The control plane keeps one row per volume, and one per host, in SQLite;
a CSI plugin translates Kubernetes' calls into calls of the control plane.

The difficulty is that one request changes a row *and* several machines, that the
row is read before the transaction that writes it, that a command may have run
although its answer was lost, and that a retry meets whatever was left behind. The
modules here model that: the row, the hosts, the handlers step by step, the
syncer that repairs hosts, the sizes, the configfs that volumes share, the hosts
table and its start, the CSI plugin above, and the two processes around them.

- [The system](#the-system)
- [The modules and the code](#the-modules-and-the-code)
- [The runs](#the-runs)
- [Fairness](#fairness)
- [Proofs](#proofs)
- [Where code and documents part](#where-code-and-documents-part)
- [What is assumed of the world outside](#what-is-assumed-of-the-world-outside)
- [What is not modelled](#what-is-not-modelled)
- [Plan](#plan)

## The system

| Component | State | Operations | Talks to |
|---|---|---|---|
| **VolumeService** `app/internal/service/service_volume.go` | none of its own: the row, the hosts | Create, Update, Delete, Publish, Unpublish, Connect, Disconnect, Stage, Unstage, Mount, Unmount, Sync; Get, List, Stats | database, host commands, syncer |
| **Volume row** `app/internal/database/volume.go`, gorm | status, mode, size, options, server and client host, transport (type, target, initiator), staging path, target paths | insert, `Updates`, delete | SQLite |
| **Host commands** `app/internal/command/{zfs,iscsi,nvmeof,fs,mount,literal}` | zvols, targets, access lists, sessions, devices, mounts on the hosts | one shell command per method | executors |
| **Executors** `lib/command/command.go` | an SSH client and the lock around it | Startup, Shutdown, Exec | hosts |
| **VolumeSyncer** `app/internal/service/sync.go` | none of its own | SyncVolume(s): zfs, publish, connect, stage, mount | database (reads), host commands |
| **CSI plugin** `csi/internal/service` | none (the answer to a call follows from the row) | identity, controller and node services | VolumeService by RPC |
| **HostService** `app/internal/service/service_host.go` | host rows | Create, Update, Delete, Get, List | database |
| **Startup** `app/main_app.go` | host rows | SyncHosts: upsert and prune the configured hosts | database |
| **At-rest crypto** `app/internal/database/{crypto,host}.go`, hooks in `volume.go` | key | encrypt before a save, decrypt after a save or a find | row structs |
| **Processes and wiring** `app/main.go`, `csi/main.go`, both `wire.go`, interceptors | which servers and clients are up | start, signal, drain, give up | each other, by RPC |
| **API definition** `api/src/zfsilo/v1/zfsilo.proto` and what is generated from it | none | messages, rules, procedures | plugin, services |
| **Pagination, names** `app/internal/service/lib.go` | page token | parse, format | ListVolumes, ListHosts |
| **Converters** | none | row to resource and back | services |
| **Capacity** `app/internal/service/service.go` | none | one zpool query | host commands |
| **Library packages** | none | pure helpers | - |

How a handler of VolumeService runs (all but two of them):

1. read the row, *outside* any transaction;
2. answer at once, with success if the volume is where it should be, with an error
   if its status does not allow the call;
3. change the copy; open a transaction; `Updates(copy)`. This is the first
   statement that writes and takes SQLite's only write lock (another call waits for
   the busy timeout and then fails);
4. run shell commands, in the transaction;
5. commit; any error on the way rolls the row back, never the hosts.

DeleteVolume destroys the zvol first and takes the lock only for the row.
UpdateVolume writes the row in no transaction and runs its commands after it.
Sync takes no lock at all.

What is hard, and what should hold in spite of it:

| Behaviour | Where | What should hold |
|---|---|---|
| the status is checked on a row that may have changed when it is written | every handler | a committed status has the columns its teardown needs; one writer |
| `Updates` skips zero fields: host and path columns are never cleared | `service_volume.go:657`, `:873` | a later handler never acts on a column of an earlier binding |
| blkid, then mkfs | `service_volume.go:1049` | no volume is formatted twice |
| commands ran, the transaction rolled back | every handler | the row still tells the truth about writers; a retry is possible |
| the answer is lost, the plane restarts, SSH drops | `command.go:236` | the same |
| waiting for the lock | every handler | every call is answered |
| a sync in the middle of a call | `sync.go:36` | a sync repairs what its row says and undoes nothing it did |
| a host restarts | `sync.go` | a sync brings everything back |
| a CSI call is several RPCs, repeated from anywhere | `csi/.../service.go` | what the orchestrator was told is true; every repeated call is answered |
| a size is in the row, on the zvol, in the client's kernel and in the filesystem | `service_volume.go:341`, `csi/.../service.go:575` | no zvol shrinks, and the row never promises less than there is, unless a client asks UpdateVolume for less |
| all subsystems of a server share a client's directory in configfs | `nvmeof.go:222` | detaching one volume takes no right of another, and can be done at all |
| a start is a transaction per host, cut anywhere, begun again with another file | `main_app.go:39` | a finished start has applied its file; volumes name hosts that exist, but for a host whose count failed (`main_app.go:112`) |
| columns that the API calls read-only come with a create | `service_volume.go:255` | a committed status has the columns its teardown needs; one writer |
| hooks encrypt and decrypt around statements, twice around an update | `volume.go:110` | no secret rests as it was chosen |
| neither `ssh.Dial` nor `session.Run` knows a deadline; a lost connection is tried again | `command.go:206` | no command is started twice; both processes stop; a call hangs for its own host only |
| the plugin's stop hooks take its clients away before its server | `csi/.../wire.go:77` | no handler meets a client that is not there before the signal |

`PROJECT.json` lists these and the others as "hazards", each at its line with the
properties that watch it.

## The modules and the code

```
 AtRest               secrets: a value and its layers of encryption, the hooks
   ^
 HostRegistry         hosts table, start, HostService, volumes' host columns, paging
   ^-- MCHostRegistry, HostRegistryProofs

 VolumeRow            the row, gorm's Updates, what each handler stores
   ^    ^   ^
   |    |   +--- VolumeLifecycle        abstract: the ladder the API promises
   |    +------- VolumeApi              messages, rules, conversions
   |               ^-- CSIRequests      validators, what CreateVolume makes, reads
   |                     ^-- CSIService the plugin, over the service's interface
   |                           ^-- MCCSIService, CSIServiceProofs
 HostCommands         what the shell commands do to the hosts
   ^
 VolumeService        the handlers, calls in flight, the write lock, faults
   ^    ^   ^-- MCVolumeService
   |    +------ VolumeServiceProofs     calls that overlap
   |               ^-- VolumeSerialProofs   calls one at a time, the refinement
 VolumeSyncer         + syncs and restarts of hosts
   ^-- MCVolumeSyncer, VolumeSyncerProofs   (with VolumeSerialProofs)

 VolumeExpansion      size and options in their four places
   ^-- MCVolumeExpansion, VolumeExpansionProofs
 NvmeHosts            several NVMe volumes on one configfs
   ^-- MCNvmeHosts, NvmeHostsProofs
 Processes            plugin, control plane, executors, signals
   ^-- MCProcesses, ProcessesProofs
```

VolumeRow to VolumeSyncer follow **one volume**. Rows of different volumes meet only
in the write lock, in the server's access to the zpool and, with NVMe, in the
directory of a host: the first is modelled by the calls that wait for it, the last is
NvmeHosts. The modules at the bottom each take one dimension that the others leave
out (how large, how many volumes, which process) and keep of the handlers what that
dimension touches, in the same order of read, lock, write, commands, commit.

**VolumeRow** has no state. `Volume` is the record of the columns that the lifecycle
reads or writes. `Updates(row, v)` is gorm's: `Kept` leaves a column whose new value
is the zero value; status and the transport struct are always written; a nil slice is
skipped and an empty one is stored, hence `pathsNil`. `NewVolume` stores the columns that
belong to later handlers (`Outputs`) as the request to create has them: the API's schema calls
them read-only, which is an annotation that nothing enforces. The `To...` operators are what
each handler puts in its copy. In the transport only *whose* identity it carries is
kept: `target` is a server, `initiator` a client, `NoHost` a nil pointer.

**HostCommands** has no state either: `World` is a record, `Succeeds(cmd, w, at)` the
exit status of a command and `Effect` what it leaves. `Place` is what the command's
template names. Mounts are stacks. Closing the last session makes every mount of its
device `Dead`; binding a staging path on which nothing is mounted yields a `PlainDir`.

**VolumeService** has `row`, `lock` (which call's transaction holds the write lock),
`call` (what each slot is at), `world` and `faults`. A slot is a request in flight:
one slot means that calls come one at a time, two that they overlap. Each handler is
two things: a request action (`PublishVolume(c, server, type)` and so on: the read,
the guards, the changed copy), and the steps that `First` and `After` string together,
the same for every handler:

| Action | Code |
|---|---|
| `Begin` | the transaction opens and `Updates` takes the lock |
| `WriteUpdate` | UpdateVolume's write outside a transaction |
| `NotReady` | a host that is not registered; a nil transport detail (a panic, which gorm turns into a rollback and the HTTP server recovers): both roll back |
| `RunCommand`, `CommandFails` | the next shell command |
| `Commit`, `DeleteRow` | the transaction's end; DeleteVolume's row |
| `LockTimeout` | "database is locked" |
| `LoseAnswer`, `LoseCommand`, `Crash` | the connection drops after the command or before it; the commit is refused; the control plane restarts |

`CreateOutputs` bounds what creates say of the columns of later handlers.
A request that is answered at step 2 changes nothing and has no action. While a
transaction holds the lock nobody reads what it wrote, so `row` is changed at the
commit.

**VolumeLifecycle** is the promise: a ladder of six rungs, one per call, and names
that are bound exactly as long as the volume stands on their rung or above. Its state
is obtained from the row by hiding the columns that are stale (`Lifecycle ==
INSTANCE VolumeLifecycle WITH ...` in VolumeService). The one step that skips a rung
is the code's: `DisconnectVolume` accepts a staged volume.

**VolumeSyncer** adds `sync` and `restarts`. A sync reads the row once, makes its list
of looks (`Sync(v)`: the five passes in their order, and within `syncMount` the
mounting of every listed path before the unmounting), takes them one by one, repairs
what differs and holds no lock. `calm` records that nobody else touched the hosts
meanwhile. Hosts restart here: a client loses its mounts and perhaps its sessions, a
server some of its exports. `LocalServers` are the servers that the control plane runs
on itself: their connection is LOCAL and has no address, and the sync of a volume that has a
client dereferences nil there (`Panics`), after the passes for the zvol and the target and
before its first look at the connection.

**VolumeApi** is what the plugin and the service say to each other about a volume: the
resource, the requests the plugin sends (each with the procedure it is posted to),
`Valid`, the protovalidate rules that the interceptor applies before a handler runs,
and the converters. `ToAPI` keeps of the transport its type alone, and `FromAPI` has
nothing to fill the rest with; UpdateVolume goes both ways.

**CSIRequests** has the validators of `validate.go`, what CreateVolume makes of a
storage class (`mode`, transport, parent dataset, capacity), and the calls that only
read, as operators of a row: which capabilities are confirmed, which node is reported
as published, whether there are stats.

**CSIService** takes VolumeService at its interface: an RPC is one step that is
refused, finds the volume settled, or writes the row. Each CSI handler is an operator
from the reply to what follows (`ControllerUnpublishVolume(c, reply, r)`): another RPC
with its message, "ok" or "error". `seen` is the volume that GetVolume returned and
that the handler decides on; TypeOK says that a handler which dereferences it has one,
and that every message sent is valid. `told` is the orchestrator's knowledge: "yes",
"no", or "unsure" while a call has no answer. The orchestrator obeys the CSI
specification (a call at a time per volume, in the order of the life cycle, detaching
before it attaches elsewhere) and may repeat a call or start its opposite whenever it is
unsure. `RpcFails` is an RPC that rolled back, `AnswerLost` one that was served although
nobody heard. A class that does not validate is answered before any RPC.

**AtRest** reduces a secret to the value somebody chose and the number of times it is
encrypted. `Created`, `Found`, `UpdatedBy`, `SourceColumn` and `SourceJSON` are what each kind
of gorm statement leaves, counting the hooks gorm calls for it: a key has a column of its own,
which is not written when it is empty, and a password lies in the JSON of the connection, which is
written as a whole. `SourceReports` and `JSONReports` say whether one of the hooks that follow
fails.

**HostRegistry** has the hosts table with the order of its index, of the volumes table
the two columns that name hosts and one secret, the write lock, the requests in flight
and the start. A start is `Start`, then a transaction per configured host (`SyncHost`),
one read of the hosts that are marked as configured (`ListDoomed`), and for each that the
file no longer names a count (`CountDoomed`) and a delete (`DeleteDoomed`). A count that fails
reads as 0, so that its host is deleted whoever refers to it (`MiscountDoomed`); `SyncFails`, of
the transactions, and `Crash` cut the start anywhere, `Stop` ends a process that serves, and the next
start may bring another file.
A host is local or remote (`HostSettings`); the converter of CreateHost and UpdateHost
dereferences nil for a local one, and nothing is written (`Converts`). `by_config` and the host
columns of a volume are stored as a request to create has them. `astray` holds the hosts that a
column may name although they are not there: one that was not there when a create named it, one that
was deleted after a failed count; either until it is created again. DeleteHost counts when it
is accepted and deletes in a transaction that begins later, as the code does. Volumes
climb and descend three rungs, with the host columns that each handler stores. A client
pages through the hosts (`ListHosts`, `ListAgain`), by offset and a limit clamped as in
`service_host.go`.

**VolumeExpansion** has the size of one volume in the row, on the zvol, in the client's
kernel (`device`) and in the filesystem, and one mutable ZFS option. UpdateVolume is a
write and then a chain of commands that depends on the rung it read ("volsize",
"option", "rescan", "resize"), each of which may be lost. It is asked by the plugin's
ControllerExpandVolume, which compares the size with the row's, by ControllerModifyVolume, and by
any other client (`UpdateVolume`), which may name any fields and any size: less than the row's, 0,
a negative one. `asked` records what such a client has asked for: "less", by which the
zvol shrinks (and `resize2fs` may refuse, `MayRefuse`), or "refused", a size that `zfs set` does
not take when the row has been written already. The other
handlers appear by the size and the options that they read and write back. An update
leaves the transport without details (`details`), so that the later handlers that need
them fail.

**NvmeHosts** has several volumes of one server: the subsystems, the directory per
client, the links between them, and the clients' sessions. A volume's caller publishes,
connects, disconnects and unpublishes it, changes its mind, and repeats a disconnect until it
is answered; a sync looks at target, link and session and repairs what it misses,
without the lock. `rmdir` of a linked directory fails, a second link is refused.

**Processes** has the plugin with its phases (`WireCSIService` before `WireServer`; the
stop hooks in the order of their numbers), the control plane with its own, and per CSI
call the RPC and its executor: dial, session, the second try on a new connection, the
command. A host is up, drops connections, or hangs. An RPC opens its transaction and
runs one command; what handlers decide is in the other modules. A process that is gone
takes its calls along, an RPC whose plugin is gone runs on. `Receive` is the answer as
the handler hears it; without clients the next RPC is a panic, which the gRPC server
does not recover. `alive` is whether the connection of an executor's client holds; connections
are not counted, since a reconnection dials the new one before it closes the old one, which
has ended by then, and nothing else closes any.

## The runs

`NoHost`, `NoPath`, `NoCall` and the like are model values, as are hosts, paths and
slots. Times are those of two workers.

| Run | Instance | States | Shows |
|---|---|---|---|
| `serial` | 1 server, 2 clients, both transports, 1 staging path, 2 target paths, 1 slot, 2 faults, all requests, creates that name any hosts and staging path; symmetry of the clients | 806,000, 1 min | as long as nothing failed, row and hosts agree, and no zvol outlives its row; whatever failed, the row has the shape of its status and the transport's details are those of the present binding; no client has the device mounted but the one the row names; every commit is a step of VolumeLifecycle |
| `overlap` | 1 server, 1 client, 2 slots, no fault, no Unpublish, Unstage or Delete, creates that name anything | 139,000, 1 min | overlapping calls never format twice, never commit a status without the column its teardown reads, and every accepted call is answered |
| `sync` | NVMe, a remote server and a local one, 2 clients, a sync or a call at a time, 1 fault, 1 restart | 672,000, 2.5 min | an undisturbed sync that succeeds leaves the hosts as its row wants; it never binds a bare directory; no sync, restart or loss adds a second writer; when nothing is lost it does succeed, whatever the restart undid, but for a volume with a client on the local server |
| `csi` | 2 nodes, 8 storage classes (3 valid ones that differ, 5 wrong ones), 2 target paths, 3 faults | 4,600, 50 s | what the orchestrator was told is there is there, what it was told is gone is gone from that node, the reading calls agree with both, and every call it repeats is answered in the end |
| `hosts` | 1 server, 1 client, 1 volume, 5 files, 1 slot, 1 fault, any number of stops | 486,000, 2 min | no volume names a host that is gone, but those astray; no secret rests as it was chosen, a finished start has applied its file, a paged list misses no host, and a start without secrets ends |
| `expansion` | sizes up to 2 and a negative one, 1 option, 1 slot, 2 faults | 1,811,000, 2 min | no zvol shrinks and the row covers what there is, whatever is lost, until a client asks for less; row and hosts agree as long as nothing is lost and no size refused; an online expansion is as large as NodeExpandVolume says |
| `nvme` | 2 volumes, 2 clients, 1 fault, 4 turns | 198,000, 30 s | a connected client keeps its link and its keys whatever is done to its other volumes; no stray rights as long as nothing is lost; not every detachment fails for ever |
| `processes` | 2 calls, 1 fault, 1 signal, 2 arrivals | 136,000, 1 min | no command is started twice; OK means that every command ran; the plugin panics only when told to stop; both processes stop; a call hangs for its own host only |
| `update`, `csi_delete`, `hosts_restart`, `nvme_disconnect` | as small as shows it | seconds | counterexamples, [below](#where-code-and-documents-part) |

Why the bounds are enough to be worth something:

- *Two clients* are what a second writer, and a stale `client_host`, need; *two target
  paths* what separates "the last path" from "a path". One server suffices for
  everything but a zvol left behind (below).
- *Two faults* allow a lost answer followed by a crash of its retry, or two different half-done
  calls; *one* in `sync` is followed by the restart of a host; *three* in `csi` allow a failed
  attempt on one node, a failed teardown, and a lost answer on the other.
- *Two slots*: the hazards are pairs of calls, one of which waits for the lock that the
  other holds. `overlap` leaves the teardown calls out to keep liveness checkable;
  `TeardownColumns` and `NoOverwrite` are proved for all of them and for any number of
  slots and faults.
- `MaxDepth` bounds the stack of mounts on one path *when a request is accepted*: a
  retry of a bind whose answer was lost stacks a second mount on the first, and with
  depth 2 both are there.
- `sync` is run over NVMe only. `sync.go:295` logs in at the server's management
  address and the service at its data endpoint; iscsiadm names a session by portal,
  and then a look that is lost makes a sync open a second session that DisconnectVolume
  does not close.
- *The five files* of `hosts` are the empty one and those that
  name a server, or a server and a client, local or remote, with and without keys: what a start can do
  to a host (create, adopt, refuse, count, delete, keep because it is referenced) happens
  with these, and with the stops and the one fault between the starts. Page sizes 0, 1 and 3 are the
  default, a page that is just full and one beyond the maximum.
- *Sizes up to 2* have a size to grow to and to shrink from, and 0, which is valid when a volume is
  created, not written by an update, and refused by `zfs set`; all negative sizes behave alike.
- *What creates name.* `serial` takes all hosts and staging paths a create may name, `sync` the
  hosts, neither of them target paths. A create that names a client and a target path makes a row
  that UnmountVolume, which asks for the path alone, raises from INITIAL to STAGED: then `RowShape` and what follows from
  it are false of a row that nobody has published. No document says what such a create should
  do, and `overlap` has it. *The local server* of `sync` is there for the sync's panic.
- *Two NVMe volumes* are the least that share a directory; *four turns* let the caller of
  each attach, detach and change its mind once more, or a sync come in between.
- In `processes`, two calls are what one needs to wait for the other's lock; a CSI call
  has one or two RPCs, and the one signal goes to either process.

Each property of a passing run comes with a mutant of the code it is about
(`PROJECT.json`, "mutants") that violates it under the same configuration.

Deadlock is checked in every run but `nvme`, `nvme_disconnect` and `processes`, in which
the callers' turns and arrivals are bounded and run out; what must not stop there is
stated by their liveness properties.

## Fairness

- *VolumeService*: `WF_vars(Progress(c))` per slot. A handler that has been accepted runs
  on: each of its commands ends (every one is a short-lived tool or, as WaitForDevice, a
  loop with an end; this is an assumption about the hosts, since `RemoteExecutor.Exec`
  ignores the deadline of its context), its wait for the lock ends by SQLite's busy
  timeout, its commit returns. Requests, faults
  and crashes have no fairness. Strong fairness is not needed, although the lock is taken
  again and again by others, because a waiting call either gets it or times out: that is
  what `Answered` says.
- *VolumeSyncer*: the same, and for `SyncProgress(c)`.
- *CSIService*: weak fairness of `RpcAnswered` (a handler goes on to its next RPC or its
  answer) and strong fairness of the repetition of each call that the orchestrator is
  unsure about, since it repeats each one on its own clock (the external provisioner and
  attacher, the kubelet) but makes one call at a time, so that a repetition is enabled
  only now and then. The repetition may be the call or its opposite: the orchestrator
  may give up.
- *HostRegistry*: weak fairness of `Start` for some file (a supervisor starts a process that
  has ended), of the start's next step, and of a request's. `BootsWithoutSecrets` waits for the
  bounded faults to be spent; `Restarts` is violated although every start is fair.
- *NvmeHosts*: weak fairness of a handler's and a sync's steps; strong fairness of
  `StartDisconnect(v)`, the repetition by the attacher. The lock that it waits for is taken and
  released by other volumes' calls, so that weak fairness would promise nothing.
- *Processes*: weak fairness of what a stopping process does next (`term.Wait` ends by its
  minute, which is enabled from the signal on), and of a call's step. A step of a call on a
  host that hangs is not enabled, so nothing is assumed of such a host; signals, arrivals and
  changes of mood have no fairness.

## Proofs

Eight modules, each about all values of the constants, with the assumptions of the modules on
them and nothing else unless it is named. Five hypotheses are named: `OneCall` (requests, and
syncs, come one at a time: the bound of one slot, which the runs `serial`, `sync`, `expansion`
and `hosts` have too; with overlapping calls the properties are false, as the [next
section](#where-code-and-documents-part) says), `OneServer` (without it a zvol is left behind,
there too), `LateRequests` (requests wait for the end of the start, `EarlyRequests = FALSE` in
`hosts`), `NvmeOnly` (no volume is on iSCSI, as in `sync`: [The runs](#the-runs) says why) and
`PathlessCreates` (no create names target paths, as in `serial` and `sync`, for the reason given
there). Each is a statement about constants, and bounds neither hosts, volumes, paths nor
faults.

| Theorem | Hypothesis | Says |
|---|---|---|
| `VolumeServiceProofs!TypeAndCourse` | | `TypeOK`, and `Course`: every call in flight is at a step of its own handler; one past its write is `ready`, names its hosts, and holds the lock exactly if its operation has a transaction |
| `VolumeServiceProofs!FormattedOnce` | | `NoOverwrite`: mkfs never runs over a filesystem |
| `VolumeServiceProofs!TeardownPossible` | | `TeardownColumns`: a committed connected volume names its client, a mounted one has a path |
| `VolumeSerialProofs!RowsSuitStatus` | `OneCall`, `PathlessCreates` | `RowShape`, whatever fails |
| `VolumeSerialProofs!ServiceClimbsLadder` | `OneCall`, `PathlessCreates` | `ImplementsLifecycle`: the refinement of VolumeLifecycle |
| `VolumeSerialProofs!OneWriter` | `OneCall`, `PathlessCreates` | `WriterIsClient`, whatever fails |
| `VolumeSerialProofs!HostsFollowRow` | `OneCall`, `PathlessCreates`, `OneServer` | `RowMatchesHosts` |
| `VolumeSerialProofs!HostsOfRow` | `OneCall`, `PathlessCreates` | the same of all but the zvols, for any number of servers |
| `VolumeSyncerProofs!SyncsTyped` | | `SyncTypeOK`, whatever calls, syncs and restarts overlap |
| `VolumeSyncerProofs!SyncsKeepOneWriter` | `OneCall`, `PathlessCreates`, `NvmeOnly` | `WriterIsClient`, with syncs and restarts of hosts |
| `VolumeSyncerProofs!SyncsBind`, `SyncsSettle` | `OneCall`, `PathlessCreates`, `NvmeOnly` | `SyncBindsVolume`; `SyncSettles` |
| `CSIServiceProofs!ToldInOrder`, `RequestsPass`, `ToldThere`, `ToldGone`, `ReadersAgree` | | the inductive invariant; `TypeOK`; `ToldIsThere`; `ToldIsGone`; `ReadsAgree` |
| `NvmeHostsProofs!NvmeTyped`, `RightsStay`, `StraysInvariant`, `NoRightsLeft` | | `TypeOK`; `RightsKept`: a session of a connected volume keeps its link and its keys; an inductive invariant; `NoStrayRights` |
| `ProcessesProofs!ProcessesTyped`, `CommandsRunOnce`, `AnswersAreEarned`, `PanicsOnlyStopping` | | `TypeOK`; `AtMostOnce`; `OkMeansRan`; `CrashesOnlyStopping` |
| `HostRegistryProofs!SecretsStaySecret`, `TableInvariant`, `RegistryTyped`, `PagesComplete` | | `NeverPlain`; an inductive invariant; `TypeOK`; `ListComplete`; for overlapping and early requests too |
| `HostRegistryProofs!TableFollowsFile` | `LateRequests` | the action property `ConfigApplied`, for overlapping requests too |
| `HostRegistryProofs!RefsInvariant`, `RefsStayLive` | `LateRequests`, `OneCall` | an inductive invariant; `RefsLive`, which excepts the hosts that are astray |
| `VolumeExpansionProofs!SizesTyped`, `RowAlwaysCovers`, `ZvolNeverShrinks` | `OneCall` | `TypeOK`; `RowCovers` and the action property `NeverShrinks`, until a client asks UpdateVolume for less than the row says |
| `VolumeExpansionProofs!FollowInvariant`, `HostsFollowSize`, `NodeSizeReal` | `OneCall` | an inductive invariant; `HostsFollow`, unless a size was refused; `NodeSizeIsReal`, unless one was refused or less was asked for |

Every inductive invariant was checked by TLC on the instance of its run before it was
proved.

**VolumeServiceProofs.** *Why Course is needed.* `TypeOK` is not inductive: a command's effect
indexes the world by `at.server` or `at.client`, which are typed with `NoHost`. `Course` says
that a call that has reached the command has passed the look-up of its host (`ready => Named`),
and the effect is again a `World`. The proof goes from what a handler stores (`StoredType`,
`UpdatesType`) and what each wrapper's commands do (`ZfsEffectType` ... `EffectType`) to one
lemma per kind of step (`RequestStep`, `ProgressStep`).

*FormattedOnce* adds `StillBlank`: a call at "mkfs" looks at a zvol that is still blank
or whose device has gone. It is preserved because (`OneFormatter`) two calls that are
inside a transaction are the same call, by `Course`, and because no command but mkfs
formats.

*TeardownPossible* is not inductive either: the row is written from a copy that may be stale, or
from a request to create. `SoundCopies` says that every copy waiting to be written is such that
writing it over *any* sound row yields a sound row. This works because `Updates` never clears a
column: the copy of a connected volume either carries the client or leaves the one that is
there.

**VolumeSerialProofs.** *Rows.* `SerialInv` says that the copy in the hands of a call, and the
place its commands go to, are what its handler makes of the row *as it is committed now*
(`Made`, `Fresh`), unless the call is an update that has written already. That is what serial
calls buy: with two, the row moves on under a copy. A row that has just been created has,
whatever hosts and staging path the request named, no rung that reads them. It goes together
with `Shape`, the columns that suit each status; neither is inductive alone, because what a
commit leaves is gorm's `Updates` of the old row by the copy, which keeps the columns that the
copy has empty. The refinement maps the row to VolumeLifecycle's state and follows: a commit of
a fresh copy is the rung of its operation, everything else leaves the row.

*OneWriter.* `WritersInv` says that the only client with a live device is the row's, that
every session goes through the data endpoint, and that a disconnection which has logged out
leaves no live device on any client; the mounts are stacks that outlive their
device, so it is the sessions that decide. Faults, crashes and lost answers leave all
three.

*Hosts.* `HostsInv` says, step by step of every handler, which row the hosts are like: the
committed one, the one that is coming, or, between authorize and login and between logout
and unauthorize, one for the target's access list and the other for sessions and mounts
(`HostsAt`). At rest the two are the same row. `ZvolInv` adds, for one server, that a zvol
needs a row that has named its server.

**VolumeSyncerProofs.** The looks of a sync are a sequence, and its passes are concatenated:
`Pass(s, W)` says that `s` holds the looks `W` in the order of the passes, and `SyncPasses`
that `Sync(v)` is the pass of `Wanted(v)`, every look that the guards of the passes let
through. What the proofs need of a list of looks is its set and its order; `SetToSeq`, the
order of a row's paths, is a choice. `SyncTyped` adds to the types that each look still to
come is wanted, and that a repair is about the first of them, so that it names what the row
has (`RepairKnows`).

*SyncsKeepOneWriter.* The invariant of *OneWriter* is not enough: on a row that is not
connected a sync unmounts the staging path it finds mounted, and what it then shows must
not be a device. `OneLayer` says that on a staging path a device never lies under another
mount: `mount` refuses a device on top of itself, there is no other device, and a bind
mount goes to a target path.

*SyncsSettle.* `Behind` says what an undisturbed sync has behind it: each wanted look that is
not to come `Holds`. It is kept because no repair takes away what another look found
(`RepairKeeps`, command by command: that a logout leaves no device to a mount uses
`WritersInv`, that unpublish clears the access list uses that a row that is not published is not
connected) and because a repair does what its look asked for (`RepairDoes`), for which publish
needs the zvol and authorize the target, and these are behind it by the order of
the passes (`RepairReady`). `SyncBindsVolume` is the same argument for a bind and the staging
path: it is false when syncMount comes before syncStage. The state the hosts are found in
is any that calls, faults and restarts lead to.

**CSIServiceProofs.** The orchestrator's beliefs are ordered (`InOrder`: one node at a time,
nothing on a node before it was told of what that rests on), and what the call under way is
about is "unsure" (`Awaited`) from its first RPC to its answer, so that a lost answer or a
restart of the plugin needs no argument of its own. `Fits` relates the row to the beliefs in
both directions: what was told is there is in the row, and what is in the row was at least
not told gone. `Suits` and the mode of the class are what the validators and the row's
handlers need of each other, for `RequestsPass`: that every request a handler builds from
its volume passes the API's rules.

**NvmeHostsProofs.** `RightsKept` relates sessions to links, and Unauthorize removes a link
before it fails or succeeds to remove the directory. `NvmeInv` adds three things. `LinksHaveEntries`:
a linked directory is there, because creation makes the directory first and configfs
refuses to remove one that is linked. `Course`: what the step of a call says about its
volume, in particular that a call at "unauthorize" belongs to a volume whose client has no
session any more, since "disconnect" came before. `SessionsListed`: a session of the client that
the row names is on the list, unless a call is past the point where it is taken off. A sync
only adds links. One lemma per kind of step (start, host command, commit, loss) keeps the
four.

`NoStrayRights` is about what a call leaves. `StraysInv` names the client that a volume may
have on its list at every step (`Entitled`: the row's, or the copy's where the commands
have run and the commit has not) and says, as long as nothing was lost, that links and
sessions are only its. That Unauthorize may fail at the shared directory is no exception:
the link is gone by then, and the row still names the client.

**ProcessesProofs.** `ExecCourse` ties the executor's step to its counter (a command has not
been started before "running"), `CallCourse` ties what a call has run to the RPCs it has been
answered, through a handler, an RPC that is under way and one whose control plane is gone, and
`PluginCourse` says that a plugin that serves and has not been told to stop has its clients.

**HostRegistryProofs.** The statement of the start does write a plain secret. The lemma
`PlainReported` says that whenever it would, one of the hooks that gorm calls after it
reports an error, by which the transaction is rolled back; everything else that is
written has passed through `Encrypt`. The invariant needs in addition that a request's
copy is a row, whatever it has been through (`CallsTyped`), and that a start's work is about
hosts of its file (`StartsFromFile`). No assumption is made on how
requests overlap, on when they are sent, or on the files.

*Paging.* `TableInv` says that the index lists every host once, and that what the paging
client has still to see lies behind its offset (`Ahead`): an insertion, at the front, moves
everything back, and a deletion is what `ListComplete` excepts. A page that is not full
ends at the end of the index.

*The start.* `StartInv` says that nobody is served until the start has ended, and how far
the steps so far have brought the table (`SyncedSoFar`): each step is a transaction of its own,
and a crash between two leaves a table from which the next start begins again.

*RefsLive.* DeleteHost and the start count the volumes that refer to a host in one transaction
and delete it in another, and a handler of volumes writes a host that it has looked up before.
`RefsInv` says what each of them is sure of in between (`Sure`). It is the pair of hypotheses
that makes it hold: an overlapping PublishVolume refers to the host between the count and the
delete. The exceptions are named by what brings them about: a host joins `astray` when a create
names it and it is not there, and when a count of it fails while a volume refers to it; it
leaves when it is created. `RefsInv` keeps every doomed host either unreferenced or astray up to
its delete.

**VolumeExpansionProofs.** `NeverShrinks` is an action property whose reason is in an earlier
state. `SizeHeld` follows the size that a call holds, whatever is asked for: from the write on
copy and row agree, but for a 0, which gorm does not write. `SizeGrows` adds, as long as nobody has
asked for less, that a request asks for no less than the row has and that a copy still to be
written does not lower it. `Covered` says that nothing is larger than the zvol, nor the zvol
than the row; it survives a command that is lost, after which they differ, and an update that
repeats the row's size. With two calls `SizeHeld` is not true (below),
hence the assumption `OneCall`, which is the run's bound of one slot.
`FollowInv` says what an update has already brought about at each of its commands (`Under`): from
the write of the row on, the hosts are on their way to it and `Settled` does not hold.
It needs that a handler of the lifecycle between its command and its commit has settled the
hosts for the row it *will* commit. `Grown` follows the filesystem after an online expansion.

Only model-checked is everything under fairness (`Answered`, `SyncSucceeds`, `Resolved`,
`BootsWithoutSecrets`, `SomeDisconnect`, `Terminates`, `CallsEnd`), which is out of the
prover's reach, as is ENABLED. No module declares a RECURSIVE operator, and nothing here
needs induction over data.

## Where code and documents part

Each is a run that TLC finds violated; PROJECT.json's "findings" quote the sentence.

| Run, property | What happens |
|---|---|
| `update`, `UpdateKeepsTransport` | UpdateVolume converts the row to the API type and back. The API type carries the transport's type only, so ids, addresses and passwords of a published volume are overwritten with nothing; the next Connect, Disconnect or Stage dereferences nil. |
| `csi_delete`, `DeletedIsGone` | `isErrorID` looks for "id" in the text of the error, and connect's text of the code is "invalid_argument": every refusal passes for a malformed id. DeleteVolume answers OK for a volume that is still published, which ControllerUnpublishVolume leaves behind after a lost answer because it compares a `client_host` that was never cleared. |
| `hosts_restart`, `Restarts` | A configured host that is there is updated with `Model(&existing).Updates(host)`: the hooks encrypt `existing`, the statement writes the file's key as it is, gorm copies it into `existing`, and AfterSave cannot decrypt it. The transaction rolls back and the process exits, at every start after the first, as long as the file gives a host a key. |
| `nvme_disconnect`, `Disconnects` | Unauthorize removes the directory of the client, which the client's other volumes still link: `rmdir` fails, DisconnectVolume rolls back, and so does each repetition, while the session is closed and the link gone. It fails for ever even when the second volume is disconnected too, which takes the directory away. |

Behaviour the models have that no document speaks against, or that lies outside the runs'
bounds:

*Calls that overlap.* Two ConnectVolume calls both pass the status check on the row they read,
both clients are authorized and logged in, and both may end up with the filesystem mounted; a
sync that read its row before a disconnect logs the old client in again. A ModifyVolume that
overlaps an expansion writes the smaller size back, and `zfs set` shrinks the zvol; nobody has
asked for less. A PublishVolume between DeleteHost's count and its delete, or during a start,
leaves a volume that names a host that is gone.

*Lost answers.* An NVMe connect whose answer was lost can never be repeated, since the link is
there already and `ln` refuses. An unauthorize whose answer was lost makes every retry fail
at `rmdir`, until a SyncVolume authorizes again. A bind whose answer was lost is stacked
by its retry, and one unmount leaves the other. After a `zfs set` that failed,
ControllerExpandVolume answers OK by the row alone.

*Columns that stay.* A volume that was published on one server, unpublished and published on
another leaves the first zvol behind when it is deleted. UnpublishVolume resets the transport, so
that the second ControllerPublishVolume exports an NVMe volume over iSCSI. PublishedNodes goes by
`client_host`, which a detachment does not clear. A key that is removed from the configuration
file stays in the table. Each later update of a host or a volume adds a layer of encryption, of which
a find takes off one: a secret that was updated is read back encrypted.

*Block volumes and capabilities.* In block mode the staging path is made a directory, over
which a device file cannot be bound: staging never succeeds. A class with both mount
and block capabilities makes a BLOCK volume, whose mount capability
ValidateVolumeCapabilities then does not confirm. The plugin serves ControllerGetVolume but
advertises neither GET_VOLUME nor LIST_VOLUMES_PUBLISHED_NODES.

*What requests may say.* UpdateVolume takes any size: less than the row's is set on the zvol
under its filesystem, and a negative one is stored before `zfs set` refuses it; only the CSI plugin
compares. CreateVolume stores `server_host`, `client_host`, `staging_path` and `target_paths`,
which the API calls read-only, so that a row may name a host that is not there, and UnmountVolume may
raise an INITIAL row to STAGED. CreateHost and UpdateHost panic for a local connection.

*The start and the sync.* The error of the count of a host's volumes is dropped: a host that left
the file is deleted although volumes refer to it when that count fails. The sync of a connected
volume panics when its server has a local connection, which the configuration and the
executors' factory support.

*Hosts.* A staging path whose session was closed under it stays dead, and `mountpoint -q` takes it
for mounted, in the service and in a sync. MountVolume after a restart of the client binds the
node's own directory. A filesystem that exists is not grown when it is staged again after an
offline expansion. Executors' connections are never shut down; `RemoteExecutor` ignores the
deadline of its context where `LocalExecutor` obeys it. A host that is deleted between two
pages of a list makes the next page skip one.

## What is assumed of the world outside

The hosts, SQLite, gorm, the process environment and the orchestrator are modelled from how
the code uses them:

- gorm `Updates` as above; updating a deleted row affects none and is no error;
- hooks: a create calls BeforeSave and AfterSave once; `Updates(v)` on the row itself calls
  BeforeSave and BeforeUpdate, then AfterSave and AfterUpdate, so each secret is processed twice
  either way; `Model(&existing).Updates(host)` calls them on `existing`, while the
  statement writes the non-zero fields of `host` and assigns them to `existing`; a find calls
  AfterFind once. An error of an After hook rolls the transaction back;
- SQLite: one writer; a transaction takes the write lock with its first writing
  statement, and another waits for the busy timeout and fails; reads see the last
  commit. The look-up of a host uses another connection and is not kept out by the lock. A
  panic rolls a transaction back, as does the end of the process;
- a command whose answer was lost has finished before the next one begins;
- targetcli and nvmetcli read a script from a pipe and exit 0 whatever happens in it; a
  publish of a zvol that is not there exports nothing. A target without a backing device
  counts as not exported;
- configfs refuses to remove a host's directory that a subsystem links, and a second link of
  the same name; nvme connects only a host that is linked. In NvmeHosts a command line runs to
  its end before another begins on that host, and a volume has one caller;
- iscsiadm refuses a second login at the same portal and a logout without a session;
  nvme refuses the first and accepts the second, and disconnects by subsystem whatever the
  address. Both kinds of target listen on every address of the server;
- an exported zvol is busy for `zfs destroy`; `zfs set volsize` accepts a smaller size, and
  sizes are multiples of the block size (it refuses others); mkfs.ext4 -F overwrites;
  resize2fs needs the filesystem; umount of what is not mounted fails; a device is not mounted
  twice on one path;
- a client that restarts loses its mounts, its sessions may come back; a server that
  restarts may lose exports; zvols survive;
- graterm runs hooks of a lower order first, abandons one that is over its minute, and
  `term.Wait` gives up after a minute; grpc-go does not recover a handler's panic, net/http does;
- the validate interceptor applies the rules of `zfsilo.proto` before the handler.

## What is not modelled

- Capacity and the stats of a volume's use: queries whose numbers decide nothing. Get is the
  read that every handler begins with.
- Names, addresses, endpoints: data that the properties do not tell apart. A page token is an
  offset and a limit; its encoding, and the filter and the field mask of a request, are
  left out.
- UpdateVolume inside CSIService: after the `update` finding every Connect and Disconnect of an
  updated volume fails until it is unpublished, and a run with both would show nothing else.
  VolumeExpansion has it, with that consequence. The overlap of CSI calls for one volume, which the
  CSI specification forbids, is left out too; NodeStage and ControllerPublish of two nodes
  are ordered by the orchestrator.
- `LocalExecutor`, which runs a process under its context, and `RemoteExecutor.Shutdown`, which
  nothing calls.
- The cipher: a secret is its layers. A host's connection is local or remote; one without a type,
  which no executor is built for, is left out.
- How many connections to a host are open: an executor belongs to one request, and nothing closes
  its last connection.
- In VolumeService, names of hosts that are not registered, which fail the look-up like no name at
  all (`NoHost`). HostRegistry has them.
- Generated marshalling and descriptors (`*.pb.go`, openapi, gnostic): of the generated code only
  the messages, enums, rules and procedures that handlers use are in VolumeApi, so most of
  its lines stand for nothing here.
- Logging, health and reflection services, CLI flags, and the library packages (`try` is used by
  tests only; `tagged`, `structutil`, `stringutil`, `genericutil` and `selfcert` are pure helpers).

## Plan

Done: VolumeRow, HostCommands, VolumeService, VolumeLifecycle, VolumeSyncer, VolumeApi,
CSIRequests, CSIService, AtRest, HostRegistry, VolumeExpansion, NvmeHosts, Processes, and the
proofs above. What is left is to prove more:

1. That `NoOverwrite` survives a sync exactly if no sync formats next to a stage (the syncer
   formats too, without the lock: to be model-checked first).
2. What of the syncer's properties is left over iSCSI, where a session is named by its portal.

The list of runs is full as it is meant to be: a run is replaced by a stronger one rather than
added where both ask the same question.
