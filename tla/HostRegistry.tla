---------------------------- MODULE HostRegistry ----------------------------
(***************************************************************************)
(* The hosts table: the HostService, the start of the control plane, which *)
(* makes the table follow the configuration file, and the two columns of   *)
(* the volumes table that name hosts.                                      *)
(*                                                                         *)
(* A start is a sequence of transactions that a crash may cut anywhere: one*)
(* per configured host, then one read of the hosts a configuration has     *)
(* brought in, then a count and a delete for each that it no longer names. *)
(* DeleteHost too counts first and deletes in a transaction of its own.    *)
(***************************************************************************)
EXTENDS AtRest, Sequences, SequencesExt, FiniteSets

CONSTANTS
  Servers,        \* host ids with the server role
  Clients,        \* host ids with the client role
  NoHost,         \* the empty host name
  Volumes,        \* volume ids
  Calls,          \* slots for requests in flight: one slot serializes them
  NoCall,         \* nobody holds the write lock
  Configs,        \* configuration files: the settings of the hosts they name
  Settings,       \* per host, the settings that requests carry
  EarlyRequests,  \* requests are sent before the start has finished
  PageSizes,      \* page sizes a client asks for
  DefaultPageSize, MaxPageSize,
  MaxFaults       \* bound on failed transactions and crashes

HostIds == Servers \cup Clients

ASSUME HostsAssumption == NoHost \notin HostIds /\ Servers \cap Clients = {}
ASSUME CallsAssumption == NoCall \notin Calls

(* A storage key, and a connection: local, or remote with a password. *)
HostSettings == [key : Keys \cup {NoKey}, local : BOOLEAN, password : Keys \cup {NoKey}]

ASSUME ConfigsAssumption ==
  \A conf \in Configs : DOMAIN conf \subseteq HostIds
                        /\ \A h \in DOMAIN conf : conf[h] \in HostSettings
ASSUME SettingsAssumption == Settings \in [HostIds -> SUBSET HostSettings]
ASSUME PagesAssumption ==
  /\ PageSizes \subseteq Nat
  /\ MaxPageSize \in Nat /\ DefaultPageSize \in 1 .. MaxPageSize
ASSUME BoundsAssumption == MaxFaults \in Nat /\ EarlyRequests \in BOOLEAN

VARIABLES
  hosts,          \* the hosts table, keyed by id
  order,          \* its ids, newest first
  volumes,        \* the volumes table, as far as it names hosts
  lock,           \* the call whose transaction holds SQLite's write lock
  call,           \* the request each slot is serving
  boot,           \* the start of the process
  listing,        \* the one client that pages through the hosts
  astray,         \* hosts that a column may name though they are not there
  faults          \* faults so far

tables == <<hosts, order, volumes, astray>>
vars == <<hosts, order, volumes, lock, call, boot, listing, astray, faults>>

(* database.Host: Key, and of Connection its type and a remote one's password. *)
Host == [byConfig : BOOLEAN, key : Secret, local : BOOLEAN, password : Secret]

(* rung: 0 no such volume, 1 INITIAL, 2 PUBLISHED, 3 CONNECTED or more. *)
VolumeRow ==
  [rung : 0 .. 3, server : Servers \cup {NoHost}, client : Clients \cup {NoHost},
   password : Secret]

NoRow == [rung |-> 0, server |-> NoHost, client |-> NoHost, password |-> Empty]

Ops == {"UpdateHost", "DeleteHost", "PublishVolume", "UnpublishVolume",
        "ConnectVolume", "DisconnectVolume", "DeleteVolume"}

(* copy, v: the rows the handler has read and changed, secrets decrypted. *)
Call == [op : Ops \cup {"none"}, pc : {"idle", "write", "commit"},
         host : HostIds \cup {NoHost}, copy : Host,
         volume : Volumes \cup {"none"}, v : VolumeRow]

Idle == [op |-> "none", pc |-> "idle", host |-> NoHost,
         copy |-> [byConfig |-> FALSE, key |-> Empty, local |-> FALSE,
                   password |-> Empty],
         volume |-> "none", v |-> NoRow]

(* The file and what is left to do of it; nothing while the process is not
   starting. *)
Boot == [pc : {"down", "exited", "sync", "prune", "delete", "serving"},
         conf : Configs \cup {<< >>}, todo : SUBSET HostIds, doomed : HostIds \cup {NoHost}]

NotBooting(pc) == [pc |-> pc, conf |-> << >>, todo |-> {}, doomed |-> NoHost]

(* seen: the hosts on the pages so far; due: the hosts that were there on the
   first page and still are; shrunk: a host has been deleted since. *)
Listing == [open : BOOLEAN, done : BOOLEAN, offset : Nat, limit : Nat,
            seen : SUBSET HostIds, due : SUBSET HostIds, shrunk : BOOLEAN]

NoListing == [open |-> FALSE, done |-> FALSE, offset |-> 0, limit |-> 0,
              seen |-> {}, due |-> {}, shrunk |-> FALSE]

Present == DOMAIN hosts

TypeOK ==
  /\ Present \subseteq HostIds
  /\ \A h \in Present : hosts[h] \in Host
  /\ ToSet(order) = Present /\ Len(order) = Cardinality(Present)
  /\ volumes \in [Volumes -> VolumeRow]
  /\ lock \in Calls \cup {NoCall}
  /\ call \in [Calls -> Call]
  /\ boot \in Boot
  /\ listing \in Listing
  /\ astray \subseteq HostIds
  /\ faults \in 0 .. MaxFaults

Init ==
  /\ hosts = << >>
  /\ order = << >>
  /\ volumes = [v \in Volumes |-> NoRow]
  /\ lock = NoCall
  /\ call = [c \in Calls |-> Idle]
  /\ boot = NotBooting("down")
  /\ listing = NoListing
  /\ astray = {}
  /\ faults = 0

-----------------------------------------------------------------------------
(* The table.                                                                *)

Without(f, h) == [x \in DOMAIN f \ {h} |-> f[x]]

(* A row with these settings, through the hooks of a create. *)
NewHost(byConfig, s) ==
  [byConfig |-> byConfig, key |-> Created(Plain(s.key)),
   local |-> s.local, password |-> Created(Plain(s.password))]

(* A host that is there again is not astray any more. *)
InsertRow(h, row) ==
  /\ hosts' = [x \in Present \cup {h} |-> IF x = h THEN row ELSE hosts[x]]
  /\ order' = <<h>> \o order
  /\ astray' = astray \ {h}
  /\ UNCHANGED <<volumes, listing>>

(* Mutant: a deleted row stays in the index that pages are read from. *)
RemoveUnordered(h) ==
  /\ hosts' = Without(hosts, h)
  /\ listing' = IF h \in Present /\ listing.open
                THEN [listing EXCEPT !.due = @ \ {h}, !.shrunk = TRUE] ELSE listing
  /\ UNCHANGED <<order, volumes, astray>>

Position(h) == CHOOSE i \in 1 .. Len(order) : order[i] = h

(* A delete by primary key; none is there to delete the second time. *)
RemoveRow(h) ==
  /\ hosts' = Without(hosts, h)
  /\ order' = IF h \in Present THEN RemoveAt(order, Position(h)) ELSE order
  /\ listing' = IF h \in Present /\ listing.open
                THEN [listing EXCEPT !.due = @ \ {h}, !.shrunk = TRUE] ELSE listing
  /\ UNCHANGED <<volumes, astray>>

WriteRow(h, row) ==
  /\ hosts' = IF h \in Present THEN [hosts EXCEPT ![h] = row] ELSE hosts
  /\ UNCHANGED <<order, volumes, listing, astray>>

(* Mutant: only the servers of volumes are counted. *)
ReferencedAsServer(h) == \E v \in Volumes : volumes[v].server = h

(* The count of "server_host = ? OR client_host = ?": a column that a released
   volume kept counts too. *)
Referenced(h) == \E v \in Volumes : h \in {volumes[v].server, volumes[v].client}

-----------------------------------------------------------------------------
(* The start.                                                                *)

(* The HTTP server is wired, and serves, before the hosts are synchronized. *)
Serving ==
  \/ boot.pc = "serving"
  \/ EarlyRequests /\ boot.pc \in {"sync", "prune", "delete"}

Start(conf) ==
  /\ boot.pc \in {"down", "exited"}
  /\ boot' = [pc |-> "sync", conf |-> conf, todo |-> DOMAIN conf, doomed |-> NoHost]
  /\ UNCHANGED <<tables, lock, call, listing, faults>>

(* Open transactions are rolled back, a delete that was to come too. *)
Down(pc) ==
  /\ boot' = NotBooting(pc)
  /\ call' = [c \in Calls |-> Idle]
  /\ lock' = NoCall
  /\ listing' = NoListing
  /\ astray' = astray \ Present
  /\ UNCHANGED <<hosts, order, volumes>>

(* A failed Sync: os.Exit(1). *)
Exit == Down("exited")

(* Mutant: a host that is there already is not marked. *)
AdoptedUnmarked(row, s) ==
  [row EXCEPT !.key = SourceColumn(s.key, @), !.local = s.local,
              !.password = SourceJSON(s.password)]

(* What Updates(host) makes of the existing row: ByConfig is TRUE and so is
   written, like the connection; the key only when the file has one. *)
Adopted(row, s) ==
  [byConfig |-> TRUE, key |-> SourceColumn(s.key, row.key),
   local |-> s.local, password |-> SourceJSON(s.password)]

AdoptionReports(row, s) ==
  SourceReports(Found(row.key), s.key) \/ JSONReports(s.password)

(* The transaction of one configured host: create it or update what is there,
   unless the hooks of the update report an error. *)
SyncHost(h) ==
  /\ boot.pc = "sync"
  /\ h \in boot.todo
  /\ lock = NoCall
  /\ IF h \notin Present
     THEN /\ InsertRow(h, NewHost(TRUE, boot.conf[h]))
          /\ boot' = [boot EXCEPT !.todo = @ \ {h}]
          /\ UNCHANGED <<call, lock>>
     ELSE IF AdoptionReports(hosts[h], boot.conf[h])
     THEN Exit
     ELSE /\ WriteRow(h, Adopted(hosts[h], boot.conf[h]))
          /\ boot' = [boot EXCEPT !.todo = @ \ {h}]
          /\ UNCHANGED <<call, lock>>
  /\ UNCHANGED faults

(* The hosts that configurations brought in are read once; those the file still
   names are skipped. *)
ListDoomed ==
  /\ boot.pc = "sync"
  /\ boot.todo = {}
  /\ boot' = [boot EXCEPT
                !.pc = "prune",
                !.todo = {h \in Present : hosts[h].byConfig} \ DOMAIN boot.conf]
  /\ UNCHANGED <<tables, lock, call, listing, faults>>

CountDoomed(h) ==
  /\ boot.pc = "prune"
  /\ h \in boot.todo
  /\ boot' = IF Referenced(h)
             THEN [boot EXCEPT !.todo = @ \ {h}]
             ELSE [boot EXCEPT !.pc = "delete", !.todo = @ \ {h}, !.doomed = h]
  /\ UNCHANGED <<tables, lock, call, listing, faults>>

(* The error of the count is not looked at, and the count stays 0. *)
MiscountDoomed(h) ==
  /\ boot.pc = "prune"
  /\ h \in boot.todo
  /\ faults < MaxFaults
  /\ faults' = faults + 1
  /\ boot' = [boot EXCEPT !.pc = "delete", !.todo = @ \ {h}, !.doomed = h]
  /\ astray' = IF Referenced(h) THEN astray \cup {h} ELSE astray
  /\ UNCHANGED <<hosts, order, volumes, lock, call, listing>>

DeleteDoomed ==
  /\ boot.pc = "delete"
  /\ lock = NoCall
  /\ RemoveRow(boot.doomed)
  /\ boot' = [boot EXCEPT !.pc = "prune", !.doomed = NoHost]
  /\ UNCHANGED <<lock, call, faults>>

Synced ==
  /\ boot.pc = "prune"
  /\ boot.todo = {}
  /\ boot' = NotBooting("serving")
  /\ UNCHANGED <<tables, lock, call, listing, faults>>

(* A transaction of the start that fails, or the read of the marked hosts: the
   database is locked, or broken. *)
SyncFails ==
  /\ boot.pc \in {"sync", "delete"}
  /\ \/ lock # NoCall /\ UNCHANGED faults
     \/ faults < MaxFaults /\ faults' = faults + 1
  /\ Exit

(* The process is told to stop: it serves no more, and gives up on the requests
   that have not ended within its minute. *)
Stop ==
  /\ boot.pc = "serving"
  /\ Down("down")
  /\ UNCHANGED faults

Crash ==
  /\ boot.pc \notin {"down", "exited"}
  /\ faults < MaxFaults
  /\ faults' = faults + 1
  /\ Down("down")

-----------------------------------------------------------------------------
(* The requests.                                                             *)

Accept(c, op, h, vol, v) ==
  /\ Serving
  /\ call[c].pc = "idle"
  /\ call' = [call EXCEPT ![c] =
                 [Idle EXCEPT !.op = op, !.pc = "write", !.host = h,
                              !.volume = vol, !.v = v]]
  /\ UNCHANGED <<tables, lock, boot, listing, faults>>

Done(c) == call' = [call EXCEPT ![c] = Idle]

(* The converter takes no local connection: it panics, and nothing is written. *)
Converts(local) == ~local

(* A request of one statement, in a slot of its own.  A second host under the id
   is refused by the primary key; by_config is as the request has it. *)
CreateHost(c, h, byConfig, s) ==
  /\ Serving
  /\ call[c].pc = "idle"
  /\ Converts(s.local)
  /\ h \notin Present
  /\ lock = NoCall
  /\ InsertRow(h, NewHost(byConfig, s))
  /\ UNCHANGED <<lock, call, boot, faults>>

(* AfterFind on the row a handler reads. *)
ReadHost(h) == [hosts[h] EXCEPT !.key = Found(@), !.password = Found(@)]

(* A field that the request names is replaced in the copy; the others stay what
   was read. *)
applyHostUpdate(host, named, s) ==
  [host EXCEPT !.key      = IF "key" \in named THEN Plain(s.key) ELSE @,
               !.local    = IF "connection" \in named THEN s.local ELSE @,
               !.password = IF "connection" \in named THEN Plain(s.password) ELSE @]

UpdateHost(c, h, named, s) ==
  /\ Serving
  /\ call[c].pc = "idle"
  /\ h \in Present
  /\ LET copy == applyHostUpdate(ReadHost(h), named, s)
     IN  /\ Converts(copy.local)
         /\ call' = [call EXCEPT ![c] =
              [Idle EXCEPT !.op = "UpdateHost", !.pc = "write", !.host = h, !.copy = copy]]
  /\ UNCHANGED <<tables, lock, boot, listing, faults>>

(* One statement, in a transaction gorm opens for it.  A by_config that is FALSE
   and a key that is empty are not written, the connection always is. *)
WriteHost(c) ==
  /\ call[c].pc = "write"
  /\ call[c].op = "UpdateHost"
  /\ lock = NoCall
  /\ LET h == call[c].host
         v == call[c].copy
     IN  IF h \in Present
         THEN WriteRow(h, [byConfig |-> v.byConfig \/ hosts[h].byConfig,
                           key |-> UpdatedBy(v.key, hosts[h].key),
                           local |-> v.local, password |-> BeforeUpdate(v.password)])
         ELSE UNCHANGED <<tables, listing>>
  /\ Done(c)
  /\ UNCHANGED <<lock, boot, faults>>

(* The read and the count, outside the transaction that deletes. *)
DeleteHost(c, h) ==
  /\ h \in Present
  /\ ~Referenced(h)
  /\ Accept(c, "DeleteHost", h, "none", NoRow)

DeleteHostRow(c) ==
  /\ call[c].pc = "write"
  /\ call[c].op = "DeleteHost"
  /\ lock = NoCall
  /\ RemoveRow(call[c].host)
  /\ Done(c)
  /\ UNCHANGED <<lock, boot, faults>>

(* The host columns are stored as the request has them: read_only in the API's
   schema is an annotation that nothing enforces. *)
CreateVolume(c, vol, server, client) ==
  /\ Serving
  /\ call[c].pc = "idle"
  /\ volumes[vol].rung = 0
  /\ lock = NoCall
  /\ volumes' = [volumes EXCEPT ![vol] =
                   [NoRow EXCEPT !.rung = 1, !.server = server, !.client = client]]
  /\ astray' = astray \cup ({server, client} \ (Present \cup {NoHost}))
  /\ UNCHANGED <<hosts, order, lock, call, boot, listing, faults>>

(* AfterFind on the row a handler reads. *)
Read(vol) == [volumes[vol] EXCEPT !.password = Found(@)]

PublishVolume(c, vol, h) ==
  /\ volumes[vol].rung = 1
  /\ Accept(c, "PublishVolume", h, vol,
            [Read(vol) EXCEPT !.rung = 2, !.server = h, !.password = Empty])

UnpublishVolume(c, vol) ==
  /\ volumes[vol].rung = 2
  /\ Accept(c, "UnpublishVolume", volumes[vol].server, vol,
            [Read(vol) EXCEPT !.rung = 1, !.server = NoHost, !.password = Empty])

ConnectVolume(c, vol, h) ==
  /\ volumes[vol].rung = 2
  /\ Accept(c, "ConnectVolume", h, vol,
            [Read(vol) EXCEPT !.rung = 3, !.client = h])

DisconnectVolume(c, vol) ==
  /\ volumes[vol].rung = 3
  /\ Accept(c, "DisconnectVolume", volumes[vol].client, vol,
            [Read(vol) EXCEPT !.rung = 2, !.client = NoHost])

DeleteVolume(c, vol) ==
  /\ volumes[vol].rung = 1
  /\ Accept(c, "DeleteVolume", volumes[vol].server, vol, Read(vol))

(* The hosts whose executors a handler asks for by name, on a connection that
   sees what is committed. *)
HostsOf(c) ==
  LET r == call[c]
  IN  CASE r.op = "ConnectVolume"    -> {volumes[r.volume].server, r.host}
        [] r.op = "DisconnectVolume" -> {volumes[r.volume].server, r.host}
        [] r.op = "DeleteVolume"     -> {r.host} \ {NoHost}
        [] OTHER                     -> {r.host}

(* getServerConnection: the key of the server becomes the target's password. *)
Bound(c) ==
  IF call[c].op = "PublishVolume"
  THEN [call[c].v EXCEPT !.password = Found(hosts[call[c].host].key)]
  ELSE call[c].v

VolumeOps == Ops \ {"UpdateHost", "DeleteHost"}

(* Look-ups and the first statement of the transaction.  DeleteVolume opens
   its transaction only after its command, so it takes the lock to commit. *)
Begin(c) ==
  /\ call[c].pc = "write"
  /\ call[c].op \in VolumeOps
  /\ lock = NoCall
  /\ HostsOf(c) \subseteq Present
  /\ call' = [call EXCEPT ![c].pc = "commit", ![c].v = Bound(c)]
  /\ lock' = IF call[c].op = "DeleteVolume" THEN lock ELSE c
  /\ UNCHANGED <<tables, boot, listing, faults>>

(* "host %s not found", or the database is locked. *)
Refused(c) ==
  /\ call[c].pc = "write"
  /\ \/ lock # NoCall
     \/ call[c].op \in VolumeOps /\ ~(HostsOf(c) \subseteq Present)
  /\ Done(c)
  /\ UNCHANGED <<tables, lock, boot, listing, faults>>

(* Updates of a volume: empty names clear no column.  The transport, and with
   it the password, is always written. *)
Kept(new, old) == IF new = NoHost THEN old ELSE new

VolumeUpdates(row, v) ==
  [rung |-> v.rung, server |-> Kept(v.server, row.server),
   client |-> Kept(v.client, row.client), password |-> BeforeUpdate(v.password)]

Commit(c) ==
  /\ call[c].pc = "commit"
  /\ LET vol == call[c].volume
     IN  IF call[c].op = "DeleteVolume"
         THEN /\ lock = NoCall
              /\ volumes' = [volumes EXCEPT ![vol] = NoRow]
              /\ UNCHANGED lock
         ELSE /\ volumes' = IF volumes[vol].rung = 0 THEN volumes
                            ELSE [volumes EXCEPT ![vol] = VolumeUpdates(@, call[c].v)]
              /\ lock' = NoCall
  /\ Done(c)
  /\ UNCHANGED <<hosts, order, boot, listing, astray, faults>>

(* A command on a host failed, or the commit. *)
Rollback(c) ==
  /\ call[c].pc = "commit"
  /\ faults < MaxFaults
  /\ faults' = faults + 1
  /\ lock' = IF lock = c THEN NoCall ELSE lock
  /\ Done(c)
  /\ UNCHANGED <<tables, boot, listing>>

-----------------------------------------------------------------------------
(* Paging.                                                                   *)

Least(a, b) == IF a <= b THEN a ELSE b

PageLimit(size) == IF size = 0 THEN DefaultPageSize ELSE Least(size, MaxPageSize)

(* ORDER BY create_time DESC OFFSET offset LIMIT limit. *)
Page(offset, limit) ==
  SubSeq(order, offset + 1, Least(offset + limit, Len(order)))

(* Mutant: a page that is just full is the last. *)
HasNextPast(page, limit) == Len(page) > limit

(* A page that is full may have a page after it. *)
HasNext(page, limit) == Len(page) = limit

(* The first request names a page size, the others carry the token that came
   with the page before: its offset and its limit. *)
ListHosts(size) ==
  /\ Serving
  /\ ~listing.done
  /\ LET limit == IF listing.open THEN listing.limit ELSE PageLimit(size)
         page  == Page(listing.offset, limit)
     IN  listing' = [listing EXCEPT
                       !.open   = TRUE,
                       !.done   = ~HasNext(page, limit),
                       !.limit  = limit,
                       !.offset = @ + Len(page),
                       !.seen   = @ \cup ToSet(page),
                       !.due    = IF listing.open THEN @ ELSE Present]
  /\ UNCHANGED <<tables, lock, call, boot, faults>>

(* The client starts over. *)
ListAgain ==
  /\ listing.done
  /\ listing' = NoListing
  /\ UNCHANGED <<tables, lock, call, boot, faults>>

-----------------------------------------------------------------------------
BootStep ==
  \/ \E h \in HostIds : SyncHost(h) \/ CountDoomed(h)
  \/ ListDoomed \/ DeleteDoomed \/ Synced

Request(c) ==
  \/ \E h \in HostIds :
        \/ \E s \in Settings[h] :
              \/ \E named \in SUBSET {"key", "connection"} : UpdateHost(c, h, named, s)
              \/ \E byConfig \in BOOLEAN : CreateHost(c, h, byConfig, s)
        \/ DeleteHost(c, h)
  \/ \E vol \in Volumes :
        \/ \E h \in Servers : PublishVolume(c, vol, h)
        \/ \E h \in Clients : ConnectVolume(c, vol, h)
        \/ \E server \in Servers \cup {NoHost}, client \in Clients \cup {NoHost} :
              CreateVolume(c, vol, server, client)
        \/ UnpublishVolume(c, vol)
        \/ DisconnectVolume(c, vol)
        \/ DeleteVolume(c, vol)

Progress(c) ==
  WriteHost(c) \/ DeleteHostRow(c) \/ Begin(c) \/ Refused(c) \/ Commit(c)

Next ==
  \/ \E conf \in Configs : Start(conf)
  \/ BootStep
  \/ \E h \in HostIds : MiscountDoomed(h)
  \/ SyncFails
  \/ Stop
  \/ Crash
  \/ \E c \in Calls : Request(c) \/ Progress(c) \/ Rollback(c)
  \/ \E size \in PageSizes : ListHosts(size)
  \/ ListAgain

Spec == Init /\ [][Next]_vars

FairSpec ==
  /\ Spec
  /\ WF_vars(\E conf \in Configs : Start(conf))
  /\ WF_vars(BootStep)
  /\ \A c \in Calls : WF_vars(Progress(c))

-----------------------------------------------------------------------------
(* Properties.                                                               *)

(* A column of the volumes table names a host that exists, though nothing clears
   those columns when a volume is released and no foreign key guards them:
   UnpublishVolume, DisconnectVolume and DeleteVolume find their host.  The two
   exceptions are in "astray": a host that was not there when a CreateVolume named
   it, and one that a start deleted, or is about to, after its count had failed;
   either until it is created again.  It rests on the counts of DeleteHost and of
   the start, and holds as long as neither overlaps with a request. *)
RefsLive ==
  \A v \in Volumes :
    {volumes[v].server, volumes[v].client} \subseteq Present \cup {NoHost} \cup astray

(* No committed row holds a secret as it was chosen, and so every read can
   decrypt what it finds.  The start's Updates does write the secrets of the
   file as they are: what keeps them out of the table is that the hooks which
   follow the statement fail on them and the transaction is rolled back. *)
NeverPlain ==
  /\ \A h \in Present : Readable(hosts[h].key) /\ Readable(hosts[h].password)
  /\ \A v \in Volumes : Readable(volumes[v].password)

(* A start that ends, after whatever crashes and other files, leaves the table
   as the file says: every configured host is there and marked, and a marked
   host that the file does not name is one a volume still refers to. *)
ConfigApplied ==
  [][boot.pc # "serving" /\ boot'.pc = "serving" =>
       /\ \A h \in DOMAIN boot.conf : h \in Present /\ hosts[h].byConfig
       /\ \A h \in Present \ DOMAIN boot.conf :
             hosts[h].byConfig => Referenced(h)]_vars

(* A client that pages to the end has seen every host that was there all the
   time, whatever is created meanwhile, unless a host was deleted (a page is an
   offset, so a deletion makes the next page skip a host). *)
ListComplete ==
  listing.done /\ ~listing.shrunk => listing.due \subseteq listing.seen

(* Once nothing fails any more, a start with a file that holds no secrets ends,
   whatever hosts and secrets the table holds: the count and the delete of
   every doomed host come to an end, and no hook refuses a row. *)
BootsWithoutSecrets ==
  (/\ boot.pc = "sync" /\ faults = MaxFaults
   /\ \A h \in DOMAIN boot.conf : boot.conf[h].key = NoKey /\ boot.conf[h].password = NoKey)
     ~> boot.pc = "serving"

(* The hosts of the table are maintained by the file: a control plane that is
   started again and again gets to serve. *)
Restarts == []<>(boot.pc = "serving")

=============================================================================
