-------------------------- MODULE HostRegistryProofs --------------------------
(***************************************************************************)
(* Proofs about HostRegistry, for any hosts, volumes, configurations and   *)
(* page sizes, and any number of crashes. Whatever calls overlap: no       *)
(* secret rests in the database as it was chosen, the variables have their *)
(* types, and a client that pages to the end has seen every host that      *)
(* stayed. When requests wait for the start, the table follows its file;   *)
(* when they also come one at a time, every host that a volume names is    *)
(* there, but for those that are astray.                                   *)
(***************************************************************************)
EXTENDS HostRegistry, FiniteSetTheorems, SequenceTheorems, TLAPS

Sealed(row) == Readable(row.key) /\ Readable(row.password)

HostsSafe ==
  /\ Present \subseteq HostIds
  /\ \A h \in Present : hosts[h] \in Host /\ Sealed(hosts[h])

VolumesSafe ==
  /\ volumes \in [Volumes -> VolumeRow]
  /\ \A vol \in Volumes : Readable(volumes[vol].password)

(* The copies in the handlers' hands are rows, whatever they have been through. *)
CallsTyped == call \in [Calls -> Call]

(* The start goes through the hosts of its file. *)
StartsFromFile ==
  /\ boot \in Boot
  /\ boot.pc = "sync" => boot.conf \in Configs /\ boot.todo \subseteq DOMAIN boot.conf

SecretsInv == HostsSafe /\ VolumesSafe /\ CallsTyped /\ StartsFromFile

-----------------------------------------------------------------------------
(* Secrets and the hooks. *)

LEMMA PlainSecret ==
  ASSUME NEW k \in Keys \cup {NoKey}
  PROVE  Plain(k) \in Secret
BY LayersAssumption DEF Plain, Secret

LEMMA EncryptSecret ==
  ASSUME NEW s \in Secret
  PROVE  Encrypt(s) \in Secret /\ Readable(Encrypt(s))
BY LayersAssumption DEF Encrypt, encryptString, Secret, Readable, Decrypts

LEMMA DecryptSecret ==
  ASSUME NEW s \in Secret, Readable(s)
  PROVE  Decrypt(s) \in Secret
BY LayersAssumption DEF Decrypt, decryptString, Secret, Readable, Decrypts

LEMMA EmptySecret == Empty \in Secret /\ Readable(Empty)
BY LayersAssumption DEF Empty, Plain, Secret, Readable

(* Updates of a row that a handler has read: readable, or what was there. *)
LEMMA UpdatedSecret ==
  ASSUME NEW s \in Secret, NEW column \in Secret, Readable(column)
  PROVE  /\ BeforeUpdate(s) \in Secret /\ Readable(BeforeUpdate(s))
         /\ UpdatedBy(s, column) \in Secret /\ Readable(UpdatedBy(s, column))
BY EncryptSecret DEF BeforeUpdate, UpdatedBy

(* The start's Updates puts the secrets of the file into the statement, and the
   hooks that follow report them. *)
LEMMA PlainReported ==
  ASSUME NEW s, NEW k
  PROVE  /\ ~SourceReports(s, k) => k = NoKey
         /\ ~JSONReports(k) => k = NoKey
BY DEF SourceReports, JSONReports, SourceJSON, HooksReport, AfterUpdateReports, Plain, Readable,
   Decrypts

-----------------------------------------------------------------------------
(* The tables. *)

LEMMA Inserted ==
  ASSUME HostsSafe, NEW h \in HostIds, NEW r \in Host, Sealed(r), InsertRow(h, r)
  PROVE  HostsSafe'
BY DEF HostsSafe, InsertRow, Present

LEMMA Removed ==
  ASSUME HostsSafe, NEW h, RemoveRow(h)
  PROVE  HostsSafe'
BY DEF HostsSafe, RemoveRow, Without, Present

LEMMA Written ==
  ASSUME HostsSafe, NEW h, NEW r \in Host, Sealed(r), WriteRow(h, r)
  PROVE  HostsSafe'
BY DEF HostsSafe, WriteRow, Present

(* A host made of the secrets that somebody chose. *)
LEMMA CreatedHost ==
  ASSUME NEW s \in HostSettings, NEW byConfig \in BOOLEAN
  PROVE  NewHost(byConfig, s) \in Host /\ Sealed(NewHost(byConfig, s))
<1>1. ASSUME NEW k \in Keys \cup {NoKey}
      PROVE  Created(Plain(k)) \in Secret /\ Readable(Created(Plain(k)))
  BY PlainSecret, EncryptSecret DEF Created
<1> DEFINE key == Created(Plain(s.key))
           password == Created(Plain(s.password))
<1>2. /\ key \in Secret /\ Readable(key) /\ password \in Secret /\ Readable(password)
      /\ s.local \in BOOLEAN
  BY <1>1 DEF HostSettings
<1>3. NewHost(byConfig, s) = [byConfig |-> byConfig, key |-> key, local |-> s.local,
                              password |-> password]
  BY DEF NewHost
<1> HIDE DEF key, password
<1>4. QED
  BY <1>2, <1>3 DEF Host, Sealed

-----------------------------------------------------------------------------
(* The calls. *)

LEMMA IdleTyped == Idle \in Call /\ NoRow \in VolumeRow
BY EmptySecret DEF Idle, NoRow, Call, VolumeRow, Host

LEMMA ReadTyped ==
  ASSUME VolumesSafe, NEW vol \in Volumes
  PROVE  Read(vol) \in VolumeRow
<1>1. volumes[vol] \in VolumeRow /\ volumes[vol].password \in Secret
  BY DEF VolumesSafe, VolumeRow
<1>2. Found(volumes[vol].password) \in Secret
  BY <1>1, DecryptSecret DEF VolumesSafe, Found
<1>3. QED
  BY <1>1, <1>2 DEF Read, VolumeRow

LEMMA Accepted ==
  ASSUME CallsTyped, NEW c \in Calls, NEW op \in Ops, NEW h \in HostIds \cup {NoHost},
         NEW vol \in Volumes \cup {"none"}, NEW v \in VolumeRow, Accept(c, op, h, vol, v)
  PROVE  CallsTyped'
<1> DEFINE k == [Idle EXCEPT !.op = op, !.pc = "write", !.host = h, !.volume = vol, !.v = v]
<1>1. k \in Call
  BY IdleTyped DEF Call
<1>2. call' = [call EXCEPT ![c] = k]
  BY DEF Accept
<1> HIDE DEF k
<1>3. QED
  BY <1>1, <1>2 DEF CallsTyped

LEMMA Ended ==
  ASSUME CallsTyped, NEW c, Done(c)
  PROVE  CallsTyped'
BY IdleTyped DEF CallsTyped, Done

(* A request that a handler has in hand for a while: all but the two that are
   one statement. *)
Handed(c) ==
  \/ \E h \in HostIds :
        \/ DeleteHost(c, h)
        \/ \E s \in Settings[h], named \in SUBSET {"key", "connection"} :
              UpdateHost(c, h, named, s)
  \/ \E vol \in Volumes :
        \/ \E h \in Servers : PublishVolume(c, vol, h)
        \/ \E h \in Clients : ConnectVolume(c, vol, h)
        \/ UnpublishVolume(c, vol) \/ DisconnectVolume(c, vol) \/ DeleteVolume(c, vol)

LEMMA RequestCases ==
  ASSUME NEW c, Request(c)
  PROVE  \/ Handed(c)
         \/ \E h \in HostIds, byConfig \in BOOLEAN : \E s \in Settings[h] :
               CreateHost(c, h, byConfig, s)
         \/ \E vol \in Volumes, server \in Servers \cup {NoHost}, client \in Clients \cup {NoHost} :
               CreateVolume(c, vol, server, client)
BY DEF Request, Handed

LEMMA HandedLeaves ==
  ASSUME NEW c, Handed(c)
  PROVE  UNCHANGED <<tables, lock, boot, listing, faults>> /\ Serving /\ call[c].pc = "idle"
BY DEF Handed, Accept, UpdateHost, DeleteHost, PublishVolume, UnpublishVolume, ConnectVolume,
   DisconnectVolume, DeleteVolume

(* What is asked of the volumes. *)
LEMMA VolumeRequest ==
  ASSUME SecretsInv, NEW c \in Calls, NEW vol \in Volumes,
         \/ \E h \in Servers : PublishVolume(c, vol, h)
         \/ \E h \in Clients : ConnectVolume(c, vol, h)
         \/ UnpublishVolume(c, vol) \/ DisconnectVolume(c, vol) \/ DeleteVolume(c, vol)
  PROVE  CallsTyped'
<1>1. /\ CallsTyped /\ Read(vol) \in VolumeRow /\ Empty \in Secret
      /\ volumes[vol].server \in Servers \cup {NoHost}
      /\ volumes[vol].client \in Clients \cup {NoHost}
  BY ReadTyped, EmptySecret DEF SecretsInv, VolumesSafe, VolumeRow
<1>2. ASSUME NEW h \in Servers, PublishVolume(c, vol, h)
      PROVE  CallsTyped'
  <2> DEFINE rung == 2
             v == [Read(vol) EXCEPT !.rung = rung, !.server = h, !.password = Empty]
  <2>1. rung \in 0 .. 3
    OBVIOUS
  <2> HIDE DEF rung
  <2>2. v \in VolumeRow
    BY <1>1, <2>1 DEF VolumeRow
  <2> HIDE DEF v
  <2>3. QED
    BY <1>1, <1>2, <2>2, Accepted DEF PublishVolume, HostIds, Ops, v, rung
<1>3. ASSUME NEW h \in Clients, ConnectVolume(c, vol, h)
      PROVE  CallsTyped'
  <2> DEFINE rung == 3
             v == [Read(vol) EXCEPT !.rung = rung, !.client = h]
  <2>1. rung \in 0 .. 3
    OBVIOUS
  <2> HIDE DEF rung
  <2>2. v \in VolumeRow
    BY <1>1, <2>1 DEF VolumeRow
  <2> HIDE DEF v
  <2>3. QED
    BY <1>1, <1>3, <2>2, Accepted DEF ConnectVolume, HostIds, Ops, v, rung
<1>4. CASE UnpublishVolume(c, vol)
  <2> DEFINE rung == 1
             v == [Read(vol) EXCEPT !.rung = rung, !.server = NoHost, !.password = Empty]
  <2>1. rung \in 0 .. 3
    OBVIOUS
  <2> HIDE DEF rung
  <2>2. v \in VolumeRow
    BY <1>1, <2>1 DEF VolumeRow
  <2> HIDE DEF v
  <2>3. QED
    BY <1>1, <1>4, <2>2, Accepted DEF UnpublishVolume, HostIds, Ops, v, rung
<1>5. CASE DisconnectVolume(c, vol)
  <2> DEFINE rung == 2
             v == [Read(vol) EXCEPT !.rung = rung, !.client = NoHost]
  <2>1. rung \in 0 .. 3
    OBVIOUS
  <2> HIDE DEF rung
  <2>2. v \in VolumeRow
    BY <1>1, <2>1 DEF VolumeRow
  <2> HIDE DEF v
  <2>3. QED
    BY <1>1, <1>5, <2>2, Accepted DEF DisconnectVolume, HostIds, Ops, v, rung
<1>6. CASE DeleteVolume(c, vol)
  BY <1>1, <1>6, Accepted DEF DeleteVolume, HostIds, Ops
<1>7. QED
  BY <1>2, <1>3, <1>4, <1>5, <1>6

(* A request to a host, which may bring new secrets. *)
LEMMA HostRequest ==
  ASSUME SecretsInv, NEW c \in Calls, NEW h \in HostIds,
         \/ DeleteHost(c, h)
         \/ \E s \in Settings[h], named \in SUBSET {"key", "connection"} :
               UpdateHost(c, h, named, s)
  PROVE  CallsTyped'
<1>1. CASE DeleteHost(c, h)
  BY <1>1, Accepted, IdleTyped DEF DeleteHost, SecretsInv, Ops
<1>2. ASSUME NEW s \in Settings[h], NEW named, UpdateHost(c, h, named, s)
      PROVE  CallsTyped'
  <2> DEFINE read == ReadHost(h)
             copy == applyHostUpdate(read, named, s)
             new == [Idle EXCEPT !.op = "UpdateHost", !.pc = "write", !.host = h, !.copy = copy]
  <2>1. /\ hosts[h] \in Host /\ hosts[h].key \in Secret /\ Readable(hosts[h].key)
        /\ hosts[h].password \in Secret /\ Readable(hosts[h].password)
    BY <1>2 DEF UpdateHost, SecretsInv, HostsSafe, Host, Sealed
  <2>2. s \in HostSettings
    BY SettingsAssumption
  <2>3. s.key \in Keys \cup {NoKey} /\ s.password \in Keys \cup {NoKey} /\ s.local \in BOOLEAN
    BY <2>2 DEF HostSettings
  <2>4. /\ Found(hosts[h].key) \in Secret /\ Found(hosts[h].password) \in Secret
        /\ Plain(s.key) \in Secret /\ Plain(s.password) \in Secret
    BY <2>1, <2>3, DecryptSecret, PlainSecret DEF Found
  <2>5. read \in Host
    BY <2>1, <2>4 DEF ReadHost, Host
  <2> HIDE DEF read
  <2>6. copy \in Host
    BY <2>3, <2>4, <2>5 DEF applyHostUpdate, Host
  <2>7. call' = [call EXCEPT ![c] = new]
    BY <1>2 DEF UpdateHost, read
  <2> HIDE DEF copy
  <2>8. new \in Call
    BY <2>6, IdleTyped DEF Call, Ops
  <2> HIDE DEF new
  <2>9. QED
    BY <2>7, <2>8 DEF SecretsInv, CallsTyped
<1>3. QED
  BY <1>1, <1>2

(* The transaction of a handler begins: a publish takes the key of its server. *)
LEMMA BeginTyped ==
  ASSUME SecretsInv, NEW c \in Calls, Begin(c)
  PROVE  CallsTyped'
<1>1. call \in [Calls -> Call] /\ call[c] \in Call /\ call[c].v \in VolumeRow
  BY DEF SecretsInv, CallsTyped, Call
<1>2. Bound(c) \in VolumeRow
  <2>1. CASE call[c].op = "PublishVolume"
    <3> DEFINE h == call[c].host
               password == Found(hosts[h].key)
    <3>1. h \in Present
      BY <2>1 DEF Begin, HostsOf
    <3>2. password \in Secret
      BY <3>1, DecryptSecret DEF SecretsInv, HostsSafe, Sealed, Host, Found
    <3>3. Bound(c) = [call[c].v EXCEPT !.password = password]
      BY <2>1 DEF Bound
    <3> HIDE DEF password
    <3>4. QED
      BY <1>1, <3>2, <3>3 DEF VolumeRow
  <2>2. CASE call[c].op # "PublishVolume"
    BY <1>1, <2>2 DEF Bound
  <2>3. QED
    BY <2>1, <2>2
<1> DEFINE v == Bound(c)
           k == [call[c] EXCEPT !.pc = "commit", !.v = v]
<1>3. call' = [call EXCEPT ![c] = k]
  BY <1>1 DEF Begin
<1> HIDE DEF v
<1>4. k \in Call
  BY <1>1, <1>2 DEF Call, v
<1> HIDE DEF k
<1>5. QED
  BY <1>1, <1>3, <1>4 DEF CallsTyped

-----------------------------------------------------------------------------
(* The writes of the handlers. *)

LEMMA HandlerWrites ==
  ASSUME SecretsInv, NEW c \in Calls, WriteHost(c) \/ DeleteHostRow(c) \/ Commit(c)
  PROVE  HostsSafe' /\ VolumesSafe' /\ CallsTyped'
<1>1. HostsSafe /\ VolumesSafe /\ CallsTyped /\ call[c] \in Call
  BY DEF SecretsInv, CallsTyped
<1>2. CallsTyped'
  BY <1>1, Ended DEF WriteHost, DeleteHostRow, Commit
<1>3. CASE DeleteHostRow(c)
  <2>1. HostsSafe'
    BY <1>1, <1>3, Removed DEF DeleteHostRow
  <2>2. VolumesSafe'
    BY <1>1, <1>3 DEF DeleteHostRow, RemoveRow, VolumesSafe
  <2>3. QED
    BY <1>2, <2>1, <2>2
<1>4. CASE WriteHost(c)
  <2> DEFINE h == call[c].host
             v == call[c].copy
             key == UpdatedBy(v.key, hosts[h].key)
             password == BeforeUpdate(v.password)
             r == [byConfig |-> v.byConfig \/ hosts[h].byConfig, key |-> key,
                   local |-> v.local, password |-> password]
  <2>1. VolumesSafe'
    BY <1>1, <1>4 DEF WriteHost, WriteRow, tables, VolumesSafe
  <2>2. CASE h \in Present
    <3>1. /\ v \in Host /\ v.key \in Secret /\ v.password \in Secret /\ v.local \in BOOLEAN
          /\ hosts[h].key \in Secret /\ Readable(hosts[h].key)
      BY <1>1, <2>2 DEF Call, Host, HostsSafe, Sealed
    <3>2. key \in Secret /\ Readable(key) /\ password \in Secret /\ Readable(password)
      BY <3>1, UpdatedSecret
    <3>3. WriteRow(h, r)
      BY <1>4, <2>2 DEF WriteHost
    <3> HIDE DEF key, password
    <3>4. r \in Host /\ Sealed(r)
      BY <3>1, <3>2 DEF Host, Sealed
    <3> HIDE DEF r
    <3>5. QED
      BY <1>1, <1>2, <2>1, <3>3, <3>4, Written
  <2>3. CASE h \notin Present
    BY <1>1, <1>2, <1>4, <2>1, <2>3 DEF WriteHost, tables, HostsSafe, Present
  <2>4. QED
    BY <2>2, <2>3
<1>5. CASE Commit(c)
  <2>1. HostsSafe'
    BY <1>1, <1>5 DEF Commit, HostsSafe, Present
  <2> DEFINE vol == call[c].volume
             r == VolumeUpdates(volumes[vol], call[c].v)
  <2>2. /\ call[c].v \in VolumeRow /\ call[c].v.password \in Secret
        /\ volumes \in [Volumes -> VolumeRow]
    BY <1>1 DEF Call, VolumeRow, VolumesSafe
  <2>3. vol \in Volumes => r \in VolumeRow /\ Readable(r.password)
    <3> SUFFICES ASSUME vol \in Volumes
                 PROVE  r \in VolumeRow /\ Readable(r.password)
      OBVIOUS
    <3> DEFINE password == BeforeUpdate(call[c].v.password)
               server == Kept(call[c].v.server, volumes[vol].server)
               client == Kept(call[c].v.client, volumes[vol].client)
    <3>1. password \in Secret /\ Readable(password)
      BY <2>2, EncryptSecret DEF BeforeUpdate
    <3>2. server \in Servers \cup {NoHost} /\ client \in Clients \cup {NoHost}
      BY <2>2 DEF Kept, VolumeRow
    <3>3. r = [rung |-> call[c].v.rung, server |-> server, client |-> client,
               password |-> password]
      BY DEF VolumeUpdates
    <3> HIDE DEF password, server, client, r
    <3>4. QED
      BY <2>2, <3>1, <3>2, <3>3 DEF VolumeRow
  <2>4. NoRow \in VolumeRow /\ Readable(NoRow.password)
    BY IdleTyped, EmptySecret DEF NoRow
  <2>5. \/ volumes' = [volumes EXCEPT ![vol] = NoRow]
        \/ volumes' = volumes
        \/ volumes' = [volumes EXCEPT ![vol] = r]
    BY <1>5 DEF Commit
  <2> HIDE DEF r
  <2>6. VolumesSafe'
    BY <1>1, <2>2, <2>3, <2>4, <2>5 DEF VolumesSafe
  <2>7. QED
    BY <1>2, <2>1, <2>6
<1>6. QED
  BY <1>3, <1>4, <1>5

-----------------------------------------------------------------------------
(* The start. *)

LEMMA ExitStep ==
  ASSUME Exit
  PROVE  CallsTyped' /\ StartsFromFile'
BY IdleTyped DEF Exit, Down, CallsTyped, StartsFromFile, NotBooting, Boot

(* The transaction of one host of the file. *)
LEMMA SyncStep ==
  ASSUME SecretsInv, NEW h \in HostIds, SyncHost(h)
  PROVE  SecretsInv'
<1>1. HostsSafe /\ VolumesSafe /\ CallsTyped /\ StartsFromFile
  BY DEF SecretsInv
<1>2. boot.conf[h] \in HostSettings
  BY <1>1, ConfigsAssumption DEF StartsFromFile, SyncHost
<1>3. VolumesSafe'
  BY <1>1 DEF SyncHost, InsertRow, WriteRow, Exit, Down, VolumesSafe
<1>4. ASSUME boot' = [boot EXCEPT !.todo = @ \ {h}], UNCHANGED call
      PROVE  StartsFromFile' /\ CallsTyped'
  <2>1. boot.pc = "sync" /\ boot.conf \in Configs /\ boot.todo \subseteq DOMAIN boot.conf
    BY <1>1 DEF StartsFromFile, SyncHost
  <2>2. /\ boot' \in Boot /\ boot'.conf = boot.conf /\ boot'.todo \subseteq boot.todo
    BY <1>1, <1>4 DEF StartsFromFile, Boot
  <2>3. QED
    BY <1>1, <1>4, <2>1, <2>2 DEF StartsFromFile, CallsTyped
<1>5. CASE h \notin Present
  <2> DEFINE r == NewHost(TRUE, boot.conf[h])
  <2>1. r \in Host /\ Sealed(r)
    BY <1>2, CreatedHost
  <2>2. /\ InsertRow(h, r)
        /\ boot' = [boot EXCEPT !.todo = @ \ {h}] /\ UNCHANGED call
    BY <1>5 DEF SyncHost
  <2> HIDE DEF r
  <2>3. HostsSafe'
    BY <1>1, <2>1, <2>2, Inserted
  <2>4. QED
    BY <1>3, <1>4, <2>2, <2>3 DEF SecretsInv
<1>6. CASE h \in Present /\ AdoptionReports(hosts[h], boot.conf[h])
  <2>1. Exit /\ UNCHANGED hosts
    BY <1>6 DEF SyncHost, Exit, Down
  <2>2. HostsSafe'
    BY <1>1, <2>1 DEF HostsSafe, Present
  <2>3. QED
    BY <1>3, <2>1, <2>2, ExitStep DEF SecretsInv
<1>7. CASE h \in Present /\ ~AdoptionReports(hosts[h], boot.conf[h])
  <2> DEFINE r == Adopted(hosts[h], boot.conf[h])
             key == hosts[h].key
             password == SourceJSON(boot.conf[h].password)
  <2>1. boot.conf[h].key = NoKey /\ boot.conf[h].password = NoKey
    BY <1>7, PlainReported DEF AdoptionReports
  <2>2. /\ WriteRow(h, r)
        /\ boot' = [boot EXCEPT !.todo = @ \ {h}] /\ UNCHANGED call
    BY <1>7 DEF SyncHost
  <2>3. key \in Secret /\ Readable(key)
    BY <1>1, <1>7 DEF HostsSafe, Host, Sealed
  <2>4. password \in Secret /\ Readable(password)
    BY <2>1, PlainSecret DEF SourceJSON, Plain, Readable
  <2>5. r = [byConfig |-> TRUE, key |-> key, local |-> boot.conf[h].local, password |-> password]
    BY <2>1 DEF Adopted, SourceColumn
  <2>6. boot.conf[h].local \in BOOLEAN
    BY <1>2 DEF HostSettings
  <2> HIDE DEF key, password, r
  <2>7. r \in Host /\ Sealed(r)
    BY <2>3, <2>4, <2>5, <2>6 DEF Host, Sealed
  <2>8. HostsSafe'
    BY <1>1, <2>2, <2>7, Written
  <2>9. QED
    BY <1>3, <1>4, <2>2, <2>8 DEF SecretsInv
<1>8. QED
  BY <1>5, <1>6, <1>7

(* The other steps of the start. *)
LEMMA StartStep ==
  ASSUME SecretsInv,
         \/ \E conf \in Configs : Start(conf)
         \/ ListDoomed \/ (\E h \in HostIds : CountDoomed(h) \/ MiscountDoomed(h))
         \/ DeleteDoomed \/ Synced \/ SyncFails \/ Stop \/ Crash
  PROVE  SecretsInv'
<1>1. HostsSafe /\ VolumesSafe /\ CallsTyped /\ StartsFromFile
  BY DEF SecretsInv
<1>2. HostsSafe'
  BY <1>1, Removed
     DEF Start, ListDoomed, CountDoomed, MiscountDoomed, DeleteDoomed, Synced, SyncFails, Exit,
         Stop, Crash, Down, tables, HostsSafe, Present
<1>3. VolumesSafe'
  BY <1>1 DEF Start, ListDoomed, CountDoomed, MiscountDoomed, DeleteDoomed, RemoveRow, Synced,
     SyncFails, Exit, Stop, Crash, Down, tables, VolumesSafe
<1>4. CallsTyped'
  BY <1>1, IdleTyped, ExitStep
     DEF Start, ListDoomed, CountDoomed, MiscountDoomed, DeleteDoomed, Synced, SyncFails, Exit,
         Stop, Crash, Down, CallsTyped
<1>5. StartsFromFile'
  <2>1. CASE \E conf \in Configs : Start(conf)
    BY <2>1, ConfigsAssumption DEF Start, StartsFromFile, Boot
  <2>2. CASE Synced \/ Stop \/ Crash
    BY <2>2 DEF Synced, Stop, Crash, Down, NotBooting, StartsFromFile, Boot
  <2>3. CASE SyncFails
    BY <2>3, ExitStep DEF SyncFails
  <2>4. CASE ListDoomed
    <3>1. {h \in Present : hosts[h].byConfig} \ DOMAIN boot.conf \subseteq HostIds
      BY <1>1 DEF HostsSafe
    <3>2. boot' \in Boot /\ boot'.pc = "prune"
      BY <1>1, <2>4, <3>1 DEF ListDoomed, StartsFromFile, Boot
    <3>3. QED
      BY <3>2 DEF StartsFromFile
  <2>5. CASE (\E h \in HostIds : CountDoomed(h) \/ MiscountDoomed(h)) \/ DeleteDoomed
    <3>1. boot \in Boot /\ boot.pc # "sync"
      BY <1>1, <2>5 DEF CountDoomed, MiscountDoomed, DeleteDoomed, StartsFromFile
    <3>2. ASSUME NEW h \in HostIds, CountDoomed(h) \/ MiscountDoomed(h)
          PROVE  boot' \in Boot /\ boot'.pc # "sync"
      <4>1. CASE boot' = [boot EXCEPT !.todo = @ \ {h}]
        BY <3>1, <4>1 DEF Boot
      <4>2. CASE boot' = [boot EXCEPT !.pc = "delete", !.todo = @ \ {h}, !.doomed = h]
        BY <3>1, <4>2 DEF Boot
      <4>3. QED
        BY <3>2, <4>1, <4>2 DEF CountDoomed, MiscountDoomed
    <3>3. ASSUME DeleteDoomed
          PROVE  boot' \in Boot /\ boot'.pc # "sync"
      <4>1. boot' = [boot EXCEPT !.pc = "prune", !.doomed = NoHost]
        BY <3>3 DEF DeleteDoomed
      <4>2. QED
        BY <3>1, <4>1 DEF Boot
    <3>4. boot' \in Boot /\ boot'.pc # "sync"
      BY <2>5, <3>2, <3>3
    <3>5. QED
      BY <3>4 DEF StartsFromFile
  <2>6. QED
    BY <2>1, <2>2, <2>3, <2>4, <2>5
<1>6. QED
  BY <1>2, <1>3, <1>4, <1>5 DEF SecretsInv

-----------------------------------------------------------------------------
(* No secret ever rests in the database as it was chosen, in whatever order hosts
   are configured, changed and published by, whichever files the control plane is
   started with, and wherever it crashes (the hooks of database.Host and
   database.Volume, SyncHosts). *)
THEOREM SecretsInvariant == Spec => []SecretsInv
<1>1. Init => SecretsInv
  <2> SUFFICES ASSUME Init
               PROVE  SecretsInv
    OBVIOUS
  <2>1. HostsSafe
    BY DEF Init, HostsSafe, Present
  <2>2. VolumesSafe
    BY IdleTyped, EmptySecret DEF Init, VolumesSafe, NoRow
  <2>3. CallsTyped /\ StartsFromFile
    BY IdleTyped DEF Init, CallsTyped, StartsFromFile, NotBooting, Boot
  <2>4. QED
    BY <2>1, <2>2, <2>3 DEF SecretsInv
<1>2. SecretsInv /\ [Next]_vars => SecretsInv'
  <2> SUFFICES ASSUME SecretsInv, [Next]_vars
               PROVE  SecretsInv'
    OBVIOUS
  <2>0. HostsSafe /\ VolumesSafe /\ CallsTyped /\ StartsFromFile
    BY DEF SecretsInv
  <2>1. ASSUME UNCHANGED <<hosts, volumes, boot>>, CallsTyped'
        PROVE  SecretsInv'
    BY <2>0, <2>1 DEF SecretsInv, HostsSafe, VolumesSafe, StartsFromFile, Present
  <2>2. CASE UNCHANGED vars
    BY <2>0, <2>1, <2>2 DEF vars, CallsTyped
  <2>3. ASSUME NEW h \in HostIds, SyncHost(h)
        PROVE  SecretsInv'
    BY <2>3, SyncStep
  <2>4. CASE \/ \E conf \in Configs : Start(conf)
             \/ ListDoomed \/ (\E h \in HostIds : CountDoomed(h) \/ MiscountDoomed(h))
             \/ DeleteDoomed \/ Synced \/ SyncFails \/ Stop \/ Crash
    BY <2>4, StartStep
  <2>5. ASSUME NEW c \in Calls, NEW h \in HostIds, NEW byConfig \in BOOLEAN,
               NEW s \in Settings[h], CreateHost(c, h, byConfig, s)
        PROVE  SecretsInv'
    <3> DEFINE r == NewHost(byConfig, s)
    <3>1. s \in HostSettings
      BY SettingsAssumption
    <3>2. r \in Host /\ Sealed(r) /\ InsertRow(h, r)
      BY <2>5, <3>1, CreatedHost DEF CreateHost
    <3> HIDE DEF r
    <3>3. HostsSafe'
      BY <2>0, <3>2, Inserted
    <3>4. QED
      BY <2>0, <2>5, <3>3
         DEF CreateHost, InsertRow, SecretsInv, VolumesSafe, CallsTyped, StartsFromFile
  <2>6. ASSUME NEW c \in Calls, NEW vol \in Volumes, NEW server \in Servers \cup {NoHost},
               NEW client \in Clients \cup {NoHost}, CreateVolume(c, vol, server, client)
        PROVE  SecretsInv'
    <3> DEFINE rung == 1
               r == [NoRow EXCEPT !.rung = rung, !.server = server, !.client = client]
    <3>1. rung \in 0 .. 3
      OBVIOUS
    <3> HIDE DEF rung
    <3>2. r \in VolumeRow /\ Readable(r.password)
      BY <3>1, IdleTyped, EmptySecret DEF NoRow, VolumeRow
    <3>3. volumes' = [volumes EXCEPT ![vol] = r] /\ UNCHANGED <<hosts, boot, call>>
      BY <2>6 DEF CreateVolume, rung
    <3> HIDE DEF r
    <3>4. VolumesSafe'
      BY <2>0, <3>2, <3>3 DEF VolumesSafe
    <3>5. QED
      BY <2>0, <3>3, <3>4 DEF SecretsInv, HostsSafe, CallsTyped, StartsFromFile, Present
  <2>7. ASSUME NEW c \in Calls, Handed(c)
        PROVE  SecretsInv'
    <3>1. CallsTyped'
      BY <2>7, HostRequest, VolumeRequest DEF Handed
    <3>2. UNCHANGED <<hosts, volumes, boot>>
      BY <2>7, HandedLeaves DEF tables
    <3>3. QED
      BY <2>1, <3>1, <3>2
  <2>8. ASSUME NEW c \in Calls, WriteHost(c) \/ DeleteHostRow(c) \/ Commit(c)
        PROVE  SecretsInv'
    <3>1. UNCHANGED boot
      BY <2>8 DEF WriteHost, DeleteHostRow, Commit
    <3>2. HostsSafe' /\ VolumesSafe' /\ CallsTyped'
      BY <2>8, HandlerWrites
    <3>3. QED
      BY <2>0, <3>1, <3>2 DEF SecretsInv, StartsFromFile
  <2>9. ASSUME NEW c \in Calls, Begin(c)
        PROVE  SecretsInv'
    BY <2>1, <2>9, BeginTyped DEF Begin, tables
  <2>10. ASSUME NEW c \in Calls, Refused(c) \/ Rollback(c)
         PROVE  SecretsInv'
    BY <2>0, <2>1, <2>10, Ended DEF Refused, Rollback, tables
  <2>11. CASE (\E size \in PageSizes : ListHosts(size)) \/ ListAgain
    BY <2>0, <2>1, <2>11 DEF ListHosts, ListAgain, tables, CallsTyped
  <2>12. QED
    BY <2>2, <2>3, <2>4, <2>5, <2>6, <2>7, <2>8, <2>9, <2>10, <2>11, RequestCases
       DEF Next, BootStep, Progress
<1>3. QED
  BY <1>1, <1>2, PTL DEF Spec

(* No committed row holds a secret as it was chosen. *)
THEOREM SecretsStaySecret == Spec => []NeverPlain
<1>1. SecretsInv => NeverPlain
  BY DEF SecretsInv, HostsSafe, Sealed, VolumesSafe, NeverPlain
<1>2. QED
  BY <1>1, SecretsInvariant, PTL

-----------------------------------------------------------------------------
(* The table and its index: each host once, in any order. *)

OrderInv ==
  /\ order \in Seq(HostIds)
  /\ \A h \in Present : \E i \in 1 .. Len(order) : order[i] = h
  /\ \A i \in 1 .. Len(order) : order[i] \in Present
  /\ \A i, j \in 1 .. Len(order) : order[i] = order[j] => i = j
  /\ IsFiniteSet(Present) /\ Len(order) = Cardinality(Present)

(* What the client that pages has still to come is behind its offset, and is
   there until a page that is not full. *)
Ahead(d) ==
  ~listing.done /\ \E i \in 1 .. Len(order) : i > listing.offset /\ order[i] = d

PagesInv ==
  /\ listing \in Listing
  /\ ~listing.open => listing = NoListing
  /\ listing.open /\ ~listing.shrunk =>
       \A d \in listing.due : d \in listing.seen \/ Ahead(d)

TableInv == SecretsInv /\ OrderInv /\ PagesInv

LEMMA RowRemoved ==
  ASSUME NEW S, NEW s \in Seq(S), NEW i \in 1 .. Len(s)
  PROVE  /\ RemoveAt(s, i) \in Seq(S)
         /\ Len(RemoveAt(s, i)) = Len(s) - 1
         /\ \A j \in 1 .. Len(s) - 1 : RemoveAt(s, i)[j] = IF j < i THEN s[j] ELSE s[j + 1]
<1> DEFINE a == SubSeq(s, 1, i - 1)
           b == SubSeq(s, i + 1, Len(s))
<1>1. a \in Seq(S) /\ Len(a) = i - 1 /\ \A j \in 1 .. i - 1 : a[j] = s[j]
  OBVIOUS
<1>2. b \in Seq(S) /\ Len(b) = Len(s) - i /\ \A j \in 1 .. Len(s) - i : b[j] = s[i + j]
  OBVIOUS
<1>3. RemoveAt(s, i) = a \o b
  BY DEF RemoveAt
<1> HIDE DEF a, b
<1>4. /\ a \o b \in Seq(S) /\ Len(a \o b) = Len(a) + Len(b)
      /\ \A j \in 1 .. Len(a) + Len(b) : (a \o b)[j] = IF j <= Len(a) THEN a[j] ELSE b[j - Len(a)]
  BY <1>1, <1>2, ConcatProperties
<1> DEFINE ab == a \o b
<1> HIDE DEF ab
<1>5. ab \in Seq(S) /\ Len(ab) = Len(s) - 1
  BY <1>1, <1>2, <1>4 DEF ab
<1>6. ASSUME NEW j \in 1 .. Len(s) - 1
      PROVE  ab[j] = IF j < i THEN s[j] ELSE s[j + 1]
  <2>1. ab[j] = IF j <= i - 1 THEN a[j] ELSE b[j - (i - 1)]
    BY <1>1, <1>2, <1>4 DEF ab
  <2>2. CASE j < i
    BY <1>1, <2>1, <2>2
  <2>3. CASE j >= i
    <3>1. j - (i - 1) \in 1 .. Len(s) - i /\ ~(j <= i - 1) /\ i + (j - (i - 1)) = j + 1
      BY <2>3
    <3> QED
      BY <1>2, <2>1, <2>3, <3>1
  <2> QED
    BY <2>2, <2>3
<1> QED
  BY <1>3, <1>5, <1>6 DEF ab

LEMMA InsertOrdered ==
  ASSUME OrderInv, NEW h \in HostIds \ Present, NEW r, InsertRow(h, r)
  PROVE  /\ OrderInv'
         /\ Len(order') = Len(order) + 1
         /\ \A i \in 1 .. Len(order) : order'[i + 1] = order[i]
         /\ UNCHANGED listing
<1>1. Present' = Present \cup {h} /\ order' = <<h>> \o order /\ UNCHANGED listing
  BY DEF InsertRow, Present
<1>2. order \in Seq(HostIds) /\ <<h>> \in Seq(HostIds) /\ Len(<<h>>) = 1 /\ <<h>>[1] = h
  BY DEF OrderInv
<1>3. /\ order' \in Seq(HostIds) /\ Len(order') = 1 + Len(order)
      /\ \A i \in 1 .. 1 + Len(order) : order'[i] = IF i <= 1 THEN h ELSE order[i - 1]
  BY <1>1, <1>2, ConcatProperties
<1>4. Len(order') = Len(order) + 1 /\ order'[1] = h
  BY <1>2, <1>3
<1>5. \A i \in 1 .. Len(order) : order'[i + 1] = order[i]
  BY <1>2, <1>3
<1>6. \A i \in 2 .. Len(order') : order'[i] = order[i - 1] /\ i - 1 \in 1 .. Len(order)
  BY <1>2, <1>3
<1>7. \A i \in 1 .. Len(order') : order'[i] \in Present'
  BY <1>1, <1>2, <1>3, <1>6 DEF OrderInv
<1>8. \A g \in Present' : \E i \in 1 .. Len(order') : order'[i] = g
  <2> SUFFICES ASSUME NEW g \in Present'
               PROVE  \E i \in 1 .. Len(order') : order'[i] = g
    OBVIOUS
  <2>1. CASE g = h
    BY <1>2, <1>4, <2>1
  <2>2. CASE g # h
    <3>1. PICK i \in 1 .. Len(order) : order[i] = g
      BY <1>1, <2>2 DEF OrderInv
    <3>2. i + 1 \in 1 .. Len(order') /\ order'[i + 1] = g
      BY <1>2, <1>4, <1>5, <3>1
    <3> QED
      BY <3>2
  <2> QED
    BY <2>1, <2>2
<1>9. ASSUME NEW i \in 1 .. Len(order'), NEW j \in 1 .. Len(order'), order'[i] = order'[j]
      PROVE  i = j
  <2>1. \A n \in 2 .. Len(order') : order'[n] \in Present /\ order'[n] # h
    BY <1>6 DEF OrderInv
  <2>2. CASE i = 1 \/ j = 1
    BY <1>2, <1>3, <1>4, <1>9, <2>1, <2>2
  <2>3. CASE i # 1 /\ j # 1
    <3>1. i \in 2 .. Len(order') /\ j \in 2 .. Len(order')
      BY <1>2, <1>3, <2>3
    <3>2. order[i - 1] = order[j - 1] /\ i - 1 \in 1 .. Len(order) /\ j - 1 \in 1 .. Len(order)
      BY <1>6, <1>9, <3>1
    <3>3. i - 1 = j - 1
      BY <3>2 DEF OrderInv
    <3> QED
      BY <1>3, <3>3
  <2> QED
    BY <2>2, <2>3
<1>10. IsFiniteSet(Present') /\ Cardinality(Present') = Cardinality(Present) + 1
  BY <1>1, FS_AddElement DEF OrderInv
<1>11. OrderInv'
  BY <1>3, <1>4, <1>7, <1>8, <1>9, <1>10 DEF OrderInv
<1> QED
  BY <1>1, <1>4, <1>5, <1>11

LEMMA RemoveOrdered ==
  ASSUME OrderInv, NEW h, RemoveRow(h)
  PROVE  OrderInv' /\ Present' = Present \ {h}
<1>1. Present' = Present \ {h}
  BY DEF RemoveRow, Without, Present
<1>2. CASE h \notin Present
  <2>1. Present' = Present /\ order' = order
    BY <1>1, <1>2 DEF RemoveRow
  <2> QED
    BY <1>1, <2>1 DEF OrderInv
<1>3. CASE h \in Present
  <2> DEFINE p == Position(h)
  <2>1. p \in 1 .. Len(order) /\ order[p] = h
    BY <1>3 DEF OrderInv, Position
  <2>2. order' = RemoveAt(order, p)
    BY <1>3 DEF RemoveRow
  <2> HIDE DEF p
  <2>3. order \in Seq(HostIds)
    BY DEF OrderInv
  <2>4. /\ order' \in Seq(HostIds) /\ Len(order') = Len(order) - 1
        /\ \A j \in 1 .. Len(order) - 1 : order'[j] = IF j < p THEN order[j] ELSE order[j + 1]
    BY <2>1, <2>2, <2>3, RowRemoved
  <2> DEFINE at(j) == IF j < p THEN j ELSE j + 1
  <2>5. \A j \in 1 .. Len(order') : /\ at(j) \in 1 .. Len(order) /\ at(j) # p
                                    /\ order'[j] = order[at(j)]
    BY <2>1, <2>3, <2>4
  <2>6. \A i, j \in 1 .. Len(order') : at(i) = at(j) => i = j
    BY <2>1, <2>3, <2>4
  <2>7. \A g \in 1 .. Len(order) : g # p => \E j \in 1 .. Len(order') : at(j) = g
    <3> SUFFICES ASSUME NEW g \in 1 .. Len(order), g # p
                 PROVE  \E j \in 1 .. Len(order') : at(j) = g
      OBVIOUS
    <3> DEFINE j == IF g < p THEN g ELSE g - 1
    <3>1. j \in 1 .. Len(order') /\ at(j) = g
      BY <2>1, <2>3, <2>4
    <3> QED
      BY <3>1
  <2> HIDE DEF at
  <2>8. \A j \in 1 .. Len(order') : order'[j] \in Present'
    BY <1>1, <2>1, <2>5 DEF OrderInv
  <2>9. \A i, j \in 1 .. Len(order') : order'[i] = order'[j] => i = j
    BY <2>5, <2>6 DEF OrderInv
  <2>10. ASSUME NEW g \in Present'
         PROVE  \E j \in 1 .. Len(order') : order'[j] = g
    <3>1. PICK i \in 1 .. Len(order) : order[i] = g
      BY <1>1, <2>10 DEF OrderInv
    <3>2. i # p
      BY <1>1, <2>1, <2>10, <3>1
    <3>3. PICK j \in 1 .. Len(order') : at(j) = i
      BY <2>7, <3>2
    <3> QED
      BY <2>5, <3>1, <3>3
  <2>11. IsFiniteSet(Present') /\ Cardinality(Present') = Cardinality(Present) - 1
    BY <1>1, <1>3, FS_RemoveElement DEF OrderInv
  <2>12. Len(order') = Cardinality(Present')
    BY <2>4, <2>11 DEF OrderInv
  <2>13. order' \in Seq(HostIds)
    BY <2>4
  <2>14. \A g \in Present' : \E j \in 1 .. Len(order') : order'[j] = g
    BY <2>10
  <2>15. OrderInv'
    BY <2>8, <2>9, <2>11, <2>12, <2>13, <2>14 DEF OrderInv
  <2> QED
    BY <1>1, <2>15
<1> QED
  BY <1>1, <1>2, <1>3

-----------------------------------------------------------------------------
(* Paging. *)

LEMMA LimitTyped ==
  ASSUME NEW size \in PageSizes
  PROVE  PageLimit(size) \in Nat
BY PagesAssumption DEF PageLimit, Least

(* A page is what the table has from the offset on, the limit at most. *)
LEMMA PageRows ==
  ASSUME OrderInv, NEW offset \in Nat, NEW limit \in Nat
  PROVE  LET page == Page(offset, limit)
         IN  /\ Len(page) \in Nat
             /\ ToSet(page) \subseteq Present
             /\ \A i \in 1 .. Len(order) :
                  i > offset => \/ order[i] \in ToSet(page)
                                \/ i > offset + Len(page) /\ Len(page) = limit
<1> DEFINE last == Least(offset + limit, Len(order))
           page == Page(offset, limit)
<1>1. order \in Seq(HostIds) /\ Len(order) \in Nat
  BY DEF OrderInv
<1>2. /\ last \in Nat /\ last <= Len(order) /\ last <= offset + limit
      /\ last = Len(order) \/ last = offset + limit
  BY <1>1 DEF Least
<1>3. page = SubSeq(order, offset + 1, last)
  BY DEF Page
<1> HIDE DEF last, page
<1>4. CASE offset + 1 > last
  <2>1. page = << >> /\ Len(page) = 0
    BY <1>1, <1>2, <1>3, <1>4
  <2>2. ToSet(page) = {}
    BY <2>1 DEF ToSet
  <2>3. ASSUME NEW i \in 1 .. Len(order), i > offset
        PROVE  i > offset + Len(page) /\ Len(page) = limit
    BY <1>1, <1>2, <1>4, <2>1, <2>3
  <2> QED
    BY <2>1, <2>2, <2>3 DEF page
<1>5. CASE offset + 1 <= last
  <2>1. /\ Len(page) = last - offset /\ DOMAIN page = 1 .. last - offset
        /\ \A j \in 1 .. last - offset : page[j] = order[offset + j]
    <3>1. \A j \in offset + 1 .. last : order[j] \in HostIds
      BY <1>1, <1>2
    <3>2. /\ page \in Seq(HostIds)
          /\ Len(page) = last - (offset + 1) + 1
          /\ \A j \in 1 .. last - (offset + 1) + 1 : page[j] = order[offset + 1 + j - 1]
      BY <1>1, <1>2, <1>3, <1>5, <3>1, SubSeqProperties
    <3>3. \A j \in 1 .. last - offset : offset + 1 + j - 1 = offset + j
      BY <1>2
    <3> QED
      BY <1>2, <3>2, <3>3
  <2>2. ToSet(page) \subseteq Present
    <3> SUFFICES ASSUME NEW j \in 1 .. last - offset
                 PROVE  page[j] \in Present
      BY <2>1 DEF ToSet
    <3>1. offset + j \in 1 .. Len(order)
      BY <1>1, <1>2
    <3> QED
      BY <2>1, <3>1 DEF OrderInv
  <2>3. ASSUME NEW i \in 1 .. Len(order), i > offset
        PROVE  \/ order[i] \in ToSet(page)
               \/ i > offset + Len(page) /\ Len(page) = limit
    <3>1. CASE i <= last
      <4>1. i - offset \in 1 .. last - offset /\ offset + (i - offset) = i
        BY <1>2, <2>3, <3>1
      <4>2. page[i - offset] = order[i] /\ i - offset \in DOMAIN page
        BY <2>1, <4>1
      <4> QED
        BY <4>2 DEF ToSet
    <3>2. CASE i > last
      BY <1>1, <1>2, <2>1, <3>2
    <3> QED
      BY <1>1, <1>2, <3>1, <3>2
  <2> QED
    BY <1>1, <1>2, <2>1, <2>2, <2>3 DEF page
<1> QED
  BY <1>2, <1>4, <1>5

LEMMA NoListingTyped == NoListing \in Listing /\ ~NoListing.open /\ NoListing.due = {}
BY DEF NoListing, Listing

LEMMA PagesListed ==
  ASSUME SecretsInv, OrderInv, PagesInv, NEW size \in PageSizes, ListHosts(size)
  PROVE  OrderInv' /\ PagesInv'
<1> DEFINE limit == IF listing.open THEN listing.limit ELSE PageLimit(size)
           page == Page(listing.offset, limit)
           done == ~HasNext(page, limit)
           offset == listing.offset + Len(page)
           seen == listing.seen \cup ToSet(page)
           due == IF listing.open THEN listing.due ELSE Present
           new == [listing EXCEPT !.open = TRUE, !.done = done, !.limit = limit,
                                  !.offset = offset, !.seen = seen, !.due = due]
<1>1. listing' = new /\ ~listing.done /\ UNCHANGED <<hosts, order>>
  BY DEF ListHosts, tables
<1>2. /\ listing \in Listing /\ Present \subseteq HostIds
      /\ listing.offset \in Nat /\ listing.limit \in Nat
      /\ listing.seen \subseteq HostIds /\ listing.due \subseteq HostIds
      /\ listing.shrunk \in BOOLEAN /\ listing.open \in BOOLEAN
  BY DEF PagesInv, Listing, SecretsInv, HostsSafe
<1>3. limit \in Nat
  BY <1>2, LimitTyped
<1> HIDE DEF limit
<1>4. /\ Len(page) \in Nat /\ ToSet(page) \subseteq Present
      /\ \A i \in 1 .. Len(order) :
           i > listing.offset => \/ order[i] \in ToSet(page)
                                 \/ i > listing.offset + Len(page) /\ Len(page) = limit
  BY <1>2, <1>3, PageRows
<1>5. done <=> Len(page) # limit
  BY DEF HasNext
<1>6. done \in BOOLEAN
  BY <1>5 DEF HasNext
<1> HIDE DEF page, done
<1>7. offset \in Nat /\ seen \subseteq HostIds /\ due \subseteq HostIds
  BY <1>2, <1>4
<1>8. \A d \in due : listing.shrunk \/ d \in listing.seen
                       \/ \E i \in 1 .. Len(order) : i > listing.offset /\ order[i] = d
  <2>1. CASE listing.open
    BY <2>1 DEF PagesInv, Ahead
  <2>2. CASE ~listing.open
    <3>1. listing.offset = 0
      BY <2>2 DEF PagesInv, NoListing
    <3> QED
      BY <2>2, <3>1 DEF OrderInv
  <2> QED
    BY <2>1, <2>2
<1>9. \A d \in due : \/ listing.shrunk \/ d \in seen
                     \/ ~done /\ \E i \in 1 .. Len(order) : i > offset /\ order[i] = d
  BY <1>4, <1>5, <1>8
<1> HIDE DEF offset, seen, due
<1>10. /\ new \in Listing /\ new.open /\ (new.done <=> done) /\ new.offset = offset
       /\ new.seen = seen /\ new.due = due /\ new.shrunk = listing.shrunk
  BY <1>2, <1>3, <1>6, <1>7 DEF Listing
<1> HIDE DEF new
<1>11. PagesInv'
  BY <1>1, <1>9, <1>10 DEF PagesInv, Ahead
<1>12. OrderInv'
  BY <1>1 DEF OrderInv, Present
<1> QED
  BY <1>11, <1>12

LEMMA PagesInserted ==
  ASSUME OrderInv, PagesInv, NEW h \in HostIds \ Present, NEW r, InsertRow(h, r)
  PROVE  OrderInv' /\ PagesInv'
<1>1. /\ OrderInv' /\ Len(order') = Len(order) + 1
      /\ \A i \in 1 .. Len(order) : order'[i + 1] = order[i]
      /\ UNCHANGED listing
  BY InsertOrdered
<1>2. Len(order) \in Nat /\ listing.offset \in Nat
  BY DEF OrderInv, PagesInv, Listing
<1>3. ASSUME NEW d, Ahead(d)
      PROVE  Ahead(d)'
  <2>1. PICK i \in 1 .. Len(order) : i > listing.offset /\ order[i] = d
    BY <1>3 DEF Ahead
  <2>2. i + 1 \in 1 .. Len(order') /\ i + 1 > listing.offset /\ order'[i + 1] = d
    BY <1>1, <1>2, <2>1
  <2> QED
    BY <1>1, <1>3, <2>2 DEF Ahead
<1> QED
  BY <1>1, <1>3 DEF PagesInv

LEMMA PagesRemoved ==
  ASSUME OrderInv, PagesInv, NEW h, RemoveRow(h)
  PROVE  OrderInv' /\ PagesInv'
<1>1. OrderInv'
  BY RemoveOrdered
<1>2. CASE h \in Present /\ listing.open
  <2> DEFINE due == listing.due \ {h}
  <2>1. listing' = [listing EXCEPT !.due = due, !.shrunk = TRUE]
    BY <1>2 DEF RemoveRow
  <2>2. listing \in Listing /\ due \subseteq HostIds
    BY DEF PagesInv, Listing
  <2> HIDE DEF due
  <2>3. listing' \in Listing /\ listing'.open /\ listing'.shrunk
    BY <1>2, <2>1, <2>2 DEF Listing
  <2> QED
    BY <1>1, <2>3 DEF PagesInv
<1>3. CASE h \notin Present
  <2>1. order' = order /\ listing' = listing
    BY <1>3 DEF RemoveRow
  <2> QED
    BY <1>1, <2>1 DEF PagesInv, Ahead
<1>4. CASE ~listing.open
  <2>1. listing' = listing
    BY <1>4 DEF RemoveRow
  <2> QED
    BY <1>1, <1>4, <2>1 DEF PagesInv
<1> QED
  BY <1>2, <1>3, <1>4

(* What a step does to the table and to the client that pages. *)
LEMMA TableSteps ==
  ASSUME SecretsInv, [Next]_vars
  PROVE  \/ UNCHANGED <<order, listing>> /\ Present' = Present
         \/ \E h \in HostIds \ Present : \E r : InsertRow(h, r)
         \/ \E h : RemoveRow(h)
         \/ UNCHANGED <<hosts, order>> /\ listing' = NoListing
         \/ \E size \in PageSizes : ListHosts(size)
<1>1. CASE UNCHANGED vars
  BY <1>1 DEF vars, Present
<1>2. ASSUME NEW h \in HostIds, SyncHost(h)
      PROVE  \/ UNCHANGED <<order, listing>> /\ Present' = Present
             \/ \E g \in HostIds \ Present : \E r : InsertRow(g, r)
             \/ UNCHANGED <<hosts, order>> /\ listing' = NoListing
  <2>1. CASE h \notin Present
    BY <1>2, <2>1 DEF SyncHost
  <2>2. CASE h \in Present
    BY <1>2, <2>2 DEF SyncHost, Exit, Down, WriteRow, Present
  <2> QED
    BY <2>1, <2>2
<1>3. CASE SyncFails \/ Stop \/ Crash \/ ListAgain
  BY <1>3 DEF SyncFails, Exit, Stop, Crash, Down, ListAgain, tables
<1>4. CASE DeleteDoomed \/ \E c \in Calls : DeleteHostRow(c)
  BY <1>4 DEF DeleteDoomed, DeleteHostRow
<1>5. ASSUME NEW c, NEW h \in HostIds, NEW byConfig, NEW s, CreateHost(c, h, byConfig, s)
      PROVE  \E g \in HostIds \ Present : \E r : InsertRow(g, r)
  BY <1>5 DEF CreateHost
<1>6. ASSUME NEW c \in Calls, WriteHost(c)
      PROVE  UNCHANGED <<order, listing>> /\ Present' = Present
  BY <1>6 DEF WriteHost, WriteRow, tables, Present
<1>7. ASSUME NEW c \in Calls, Handed(c)
      PROVE  UNCHANGED <<order, listing>> /\ Present' = Present
  BY <1>7, HandedLeaves DEF tables, Present
<1>8. ASSUME NEW c \in Calls, Begin(c) \/ Refused(c) \/ Commit(c) \/ Rollback(c)
      PROVE  UNCHANGED <<order, listing>> /\ Present' = Present
  BY <1>8 DEF Begin, Refused, Commit, Rollback, tables, Present
<1>9. CASE \/ \E conf \in Configs : Start(conf)
           \/ ListDoomed \/ (\E h \in HostIds : CountDoomed(h) \/ MiscountDoomed(h)) \/ Synced
           \/ \E c, vol, server, client : CreateVolume(c, vol, server, client)
  BY <1>9 DEF Start, ListDoomed, CountDoomed, MiscountDoomed, Synced, CreateVolume, tables, Present
<1> QED
  BY <1>1, <1>2, <1>3, <1>4, <1>5, <1>6, <1>7, <1>8, <1>9, RequestCases DEF Next, BootStep, Progress

LEMMA TableStep ==
  ASSUME TableInv, SecretsInv', [Next]_vars
  PROVE  TableInv'
<1>1. SecretsInv /\ OrderInv /\ PagesInv
  BY DEF TableInv
<1>2. CASE UNCHANGED <<order, listing>> /\ Present' = Present
  BY <1>1, <1>2 DEF TableInv, OrderInv, PagesInv, Ahead
<1>3. CASE UNCHANGED <<hosts, order>> /\ listing' = NoListing
  BY <1>1, <1>3, NoListingTyped DEF TableInv, OrderInv, PagesInv, Present
<1> QED
  BY <1>1, <1>2, <1>3, TableSteps, PagesInserted, PagesRemoved, PagesListed DEF TableInv

(* Each host of the table is on its index once, and what a client that pages has
   not seen yet is behind its offset, as long as no host is deleted: a host that is
   created pushes the others further back (HostService.ListHosts). *)
THEOREM TableInvariant == Spec => []TableInv
<1>1. Init /\ SecretsInv => TableInv
  <2> SUFFICES ASSUME Init, SecretsInv
               PROVE  TableInv
    OBVIOUS
  <2>1. order = << >> /\ Len(order) = 0 /\ Present = {} /\ listing = NoListing
    BY DEF Init, Present
  <2>2. IsFiniteSet(Present) /\ Cardinality(Present) = 0
    BY <2>1, FS_EmptySet
  <2>3. order \in Seq(HostIds)
    BY <2>1
  <2>4. OrderInv
    BY <2>1, <2>2, <2>3 DEF OrderInv
  <2> QED
    BY <2>1, <2>4, NoListingTyped DEF TableInv, PagesInv
<1>2. TableInv /\ SecretsInv' /\ [Next]_vars => TableInv'
  BY TableStep
<1> QED
  BY <1>1, <1>2, SecretsInvariant, PTL DEF Spec

(* A client that pages to the end has seen every host that was there all the
   time, unless one was deleted, whatever is created meanwhile
   (HostService.ListHosts). *)
THEOREM PagesComplete == Spec => []ListComplete
<1>1. TableInv => ListComplete
  BY NoListingTyped DEF TableInv, PagesInv, Ahead, ListComplete, NoListing
<1> QED
  BY <1>1, TableInvariant, PTL

(* The variables have their types, and the index has the hosts of the table, each
   once, however requests, starts and crashes come (HostService, SyncHosts). *)
THEOREM RegistryTyped == Spec => []TypeOK
<1> DEFINE Locks == /\ lock \in Calls \cup {NoCall} /\ faults \in 0 .. MaxFaults
                    /\ astray \subseteq HostIds
<1>1. Init => Locks
  BY BoundsAssumption DEF Init
<1>2. Locks /\ [Next]_vars => Locks'
  <2> SUFFICES ASSUME Locks, [Next]_vars
               PROVE  Locks'
    OBVIOUS
  <2>1. MaxFaults \in Nat /\ faults \in Nat
    BY BoundsAssumption
  <2>2. CASE UNCHANGED vars
    BY <2>2 DEF vars
  <2>3. ASSUME NEW h \in HostIds, SyncHost(h)
        PROVE  Locks'
    BY <2>3 DEF SyncHost, Exit, Down, InsertRow, WriteRow
  <2>4. CASE SyncFails \/ Stop \/ Crash
    BY <2>1, <2>4 DEF SyncFails, Exit, Stop, Crash, Down
  <2>5. CASE \/ \E conf \in Configs : Start(conf)
             \/ ListDoomed \/ (\E h \in HostIds : CountDoomed(h)) \/ DeleteDoomed \/ Synced
             \/ \E c, byConfig, s : \E h \in HostIds : CreateHost(c, h, byConfig, s)
    BY <2>5 DEF Start, ListDoomed, CountDoomed, DeleteDoomed, RemoveRow, Synced, CreateHost,
       InsertRow, tables
  <2>6. ASSUME NEW h \in HostIds, MiscountDoomed(h)
        PROVE  Locks'
    BY <2>1, <2>6 DEF MiscountDoomed
  <2>7. ASSUME NEW c, NEW vol, NEW server \in Servers \cup {NoHost},
               NEW client \in Clients \cup {NoHost}, CreateVolume(c, vol, server, client)
        PROVE  Locks'
    BY <2>7 DEF CreateVolume, HostIds
  <2>8. ASSUME NEW c \in Calls, Handed(c)
        PROVE  Locks'
    BY <2>8, HandedLeaves DEF tables
  <2>9. ASSUME NEW c \in Calls, Progress(c) \/ Rollback(c)
        PROVE  Locks'
    BY <2>1, <2>9 DEF Progress, WriteHost, WriteRow, DeleteHostRow, RemoveRow, Begin, Refused,
       Commit, Rollback, tables
  <2>10. CASE (\E size \in PageSizes : ListHosts(size)) \/ ListAgain
    BY <2>10 DEF ListHosts, ListAgain, tables
  <2> QED
    BY <2>2, <2>3, <2>4, <2>5, <2>6, <2>7, <2>8, <2>9, <2>10, RequestCases DEF Next, BootStep
<1>3. TableInv /\ Locks => TypeOK
  <2> SUFFICES ASSUME TableInv, Locks
               PROVE  TypeOK
    OBVIOUS
  <2>1. ToSet(order) = Present /\ Len(order) = Cardinality(Present)
    BY DEF TableInv, OrderInv, ToSet
  <2> QED
    BY <2>1 DEF TypeOK, TableInv, SecretsInv, HostsSafe, VolumesSafe, CallsTyped, StartsFromFile,
       PagesInv
<1> HIDE DEF Locks
<1> QED
  BY <1>1, <1>2, <1>3, TableInvariant, PTL DEF Spec

-----------------------------------------------------------------------------
(* The start, when no request is served before it has ended. *)

LateRequests == ~EarlyRequests

IdleUnlessServing == boot.pc # "serving" => \A c \in Calls : call[c].pc = "idle"

Marked(h) == h \in Present /\ hosts[h].byConfig

(* How far the start has brought the table: the hosts of the file that are not
   to do are there and marked; a marked host that the file does not name is one
   that a volume refers to, or on the list, or about to be deleted. *)
SyncedSoFar ==
  /\ boot.pc = "sync" => \A h \in DOMAIN boot.conf \ boot.todo : Marked(h)
  /\ boot.pc \in {"prune", "delete"} =>
       /\ \A h \in DOMAIN boot.conf : Marked(h) /\ h \notin boot.todo
       /\ \A h \in Present \ DOMAIN boot.conf :
            hosts[h].byConfig => \/ Referenced(h) \/ h \in boot.todo
                                 \/ boot.pc = "delete" /\ h = boot.doomed
       /\ boot.pc = "delete" => boot.doomed \notin DOMAIN boot.conf

StartInv == SecretsInv /\ IdleUnlessServing /\ SyncedSoFar

LEMMA AllIdle == Idle.pc = "idle"
BY DEF Idle

LEMMA SyncHostBoot ==
  ASSUME boot \in Boot, NEW h, SyncHost(h)
  PROVE  boot'.pc \in {"sync", "exited"}
<1>1. boot.pc = "sync"
  BY DEF SyncHost
<1>2. boot' = NotBooting("exited") \/ boot' = [boot EXCEPT !.todo = @ \ {h}]
  BY DEF SyncHost, Exit, Down
<1> QED
  BY <1>1, <1>2 DEF NotBooting, Boot

LEMMA ServedLeavesBoot ==
  ASSUME NEW c, Request(c) \/ Progress(c) \/ Rollback(c)
  PROVE  UNCHANGED boot
<1>1. CASE Request(c)
  BY <1>1, RequestCases, HandedLeaves DEF CreateHost, CreateVolume
<1>2. CASE Progress(c) \/ Rollback(c)
  BY <1>2 DEF Progress, WriteHost, DeleteHostRow, Begin, Refused, Commit, Rollback
<1> QED
  BY <1>1, <1>2

(* While the control plane starts, only the start changes anything. *)
LEMMA NothingServed ==
  ASSUME StartInv, LateRequests, boot.pc # "serving",
         \E c \in Calls : Request(c) \/ Progress(c) \/ Rollback(c)
  PROVE  FALSE
<1>1. ~Serving /\ \A c \in Calls : call[c].pc = "idle"
  BY DEF StartInv, IdleUnlessServing, Serving, LateRequests
<1>2. ASSUME NEW c \in Calls, Request(c)
      PROVE  FALSE
  BY <1>1, <1>2, RequestCases, HandedLeaves DEF CreateHost, CreateVolume
<1>3. ASSUME NEW c \in Calls, Progress(c) \/ Rollback(c)
      PROVE  FALSE
  BY <1>1, <1>3 DEF Progress, Rollback, WriteHost, DeleteHostRow, Begin, Refused, Commit
<1> QED
  BY <1>2, <1>3

LEMMA StartSyncHost ==
  ASSUME StartInv, NEW h \in HostIds, SyncHost(h)
  PROVE  IdleUnlessServing' /\ SyncedSoFar'
<1>1. /\ boot \in Boot /\ boot.pc = "sync" /\ \A c \in Calls : call[c].pc = "idle"
      /\ \A g \in DOMAIN boot.conf \ boot.todo : Marked(g)
  BY DEF StartInv, SecretsInv, StartsFromFile, IdleUnlessServing, SyncedSoFar, SyncHost
<1>2. CASE Exit
  <2>1. boot'.pc = "exited"
    BY <1>2 DEF Exit, Down, NotBooting
  <2>2. \A c \in Calls : call'[c].pc = "idle"
    BY <1>2, AllIdle DEF Exit, Down
  <2> QED
    BY <2>1, <2>2 DEF IdleUnlessServing, SyncedSoFar
<1>3. ASSUME NEW r, r.byConfig, boot' = [boot EXCEPT !.todo = @ \ {h}], UNCHANGED call,
             Present' = Present \cup {h}, hosts'[h] = r,
             \A g \in Present \ {h} : hosts'[g] = hosts[g]
      PROVE  IdleUnlessServing' /\ SyncedSoFar'
  <2>1. boot'.pc = "sync" /\ boot'.conf = boot.conf /\ boot'.todo = boot.todo \ {h}
    BY <1>1, <1>3 DEF Boot
  <2>3. ASSUME NEW g \in DOMAIN boot.conf \ (boot.todo \ {h})
        PROVE  Marked(g)'
    <3>1. CASE g = h
      BY <1>3, <3>1 DEF Marked
    <3>2. CASE g # h
      BY <1>1, <1>3, <3>2 DEF Marked
    <3> QED
      BY <3>1, <3>2
  <2>4. SyncedSoFar'
    BY <2>1, <2>3 DEF SyncedSoFar
  <2>5. IdleUnlessServing'
    BY <1>1, <1>3 DEF IdleUnlessServing
  <2> QED
    BY <2>4, <2>5
<1>4. CASE h \notin Present
  <2> DEFINE r == NewHost(TRUE, boot.conf[h])
  <2>1. /\ r.byConfig /\ boot' = [boot EXCEPT !.todo = @ \ {h}] /\ UNCHANGED call
        /\ hosts' = [g \in Present \cup {h} |-> IF g = h THEN r ELSE hosts[g]]
    BY <1>4 DEF SyncHost, InsertRow, NewHost
  <2> HIDE DEF r
  <2>2. /\ Present' = Present \cup {h} /\ hosts'[h] = r
        /\ \A g \in Present \ {h} : hosts'[g] = hosts[g]
    BY <2>1 DEF Present
  <2> QED
    BY <1>3, <2>1, <2>2
<1>5. CASE h \in Present /\ ~AdoptionReports(hosts[h], boot.conf[h])
  <2> DEFINE r == Adopted(hosts[h], boot.conf[h])
  <2>1. /\ boot' = [boot EXCEPT !.todo = @ \ {h}] /\ UNCHANGED call
        /\ hosts' = [hosts EXCEPT ![h] = r]
    BY <1>5 DEF SyncHost, WriteRow
  <2>2. r.byConfig
    BY DEF Adopted
  <2> HIDE DEF r
  <2>3. /\ Present' = Present \cup {h} /\ hosts'[h] = r
        /\ \A g \in Present \ {h} : hosts'[g] = hosts[g]
    BY <1>5, <2>1 DEF Present
  <2> QED
    BY <1>3, <2>1, <2>2, <2>3
<1> QED
  BY <1>2, <1>4, <1>5 DEF SyncHost

LEMMA StartPrunes ==
  ASSUME StartInv,
         (\E h \in HostIds : CountDoomed(h) \/ MiscountDoomed(h)) \/ ListDoomed \/ DeleteDoomed
  PROVE  IdleUnlessServing' /\ SyncedSoFar'
<1>1. boot \in Boot /\ SyncedSoFar
  BY DEF StartInv, SecretsInv, StartsFromFile
<1>2. IdleUnlessServing'
  <2>1. boot.pc # "serving" /\ UNCHANGED call
    BY DEF CountDoomed, MiscountDoomed, ListDoomed, DeleteDoomed
  <2> QED
    BY <2>1 DEF StartInv, IdleUnlessServing
<1>3. CASE ListDoomed
  <2> DEFINE todo == {h \in Present : hosts[h].byConfig} \ DOMAIN boot.conf
  <2>1. /\ boot.pc = "sync" /\ boot.todo = {} /\ boot' = [boot EXCEPT !.pc = "prune", !.todo = todo]
        /\ UNCHANGED hosts
    BY <1>3 DEF ListDoomed, tables
  <2>2. /\ \A h \in todo : h \notin DOMAIN boot.conf
        /\ \A h \in Present \ DOMAIN boot.conf : hosts[h].byConfig => h \in todo
    OBVIOUS
  <2> HIDE DEF todo
  <2>3. boot'.pc = "prune" /\ boot'.conf = boot.conf /\ boot'.todo = todo
    BY <1>1, <2>1 DEF Boot
  <2> QED
    BY <1>1, <1>2, <2>1, <2>2, <2>3 DEF SyncedSoFar, Marked, Present
<1>4. ASSUME NEW h \in HostIds, CountDoomed(h) \/ MiscountDoomed(h)
      PROVE  SyncedSoFar'
  <2>1. boot.pc = "prune" /\ h \in boot.todo /\ UNCHANGED <<hosts, volumes>>
    BY <1>4 DEF CountDoomed, MiscountDoomed, tables
  <2>2. \A g : Referenced(g)' <=> Referenced(g)
    BY <2>1 DEF Referenced
  <2>3. CASE CountDoomed(h) /\ Referenced(h)
    <3>1. boot'.pc = "prune" /\ boot'.conf = boot.conf /\ boot'.todo = boot.todo \ {h}
      BY <1>1, <1>4, <2>1, <2>3 DEF CountDoomed, Boot
    <3> QED
      BY <1>1, <2>1, <2>2, <2>3, <3>1 DEF SyncedSoFar, Marked, Present
  <2>4. CASE ~(CountDoomed(h) /\ Referenced(h))
    <3>1. /\ boot'.pc = "delete" /\ boot'.conf = boot.conf /\ boot'.todo = boot.todo \ {h}
          /\ boot'.doomed = h
      BY <1>1, <1>4, <2>1, <2>4 DEF CountDoomed, MiscountDoomed, Boot
    <3> QED
      BY <1>1, <2>1, <2>2, <3>1 DEF SyncedSoFar, Marked, Present
  <2> QED
    BY <2>3, <2>4
<1>5. CASE DeleteDoomed
  <2>1. /\ boot.pc = "delete" /\ boot' = [boot EXCEPT !.pc = "prune", !.doomed = NoHost]
        /\ hosts' = Without(hosts, boot.doomed) /\ UNCHANGED volumes
    BY <1>5 DEF DeleteDoomed, RemoveRow
  <2>2. boot'.pc = "prune" /\ boot'.conf = boot.conf /\ boot'.todo = boot.todo
    BY <1>1, <2>1 DEF Boot
  <2>3. /\ Present' = Present \ {boot.doomed}
        /\ \A g \in Present \ {boot.doomed} : hosts'[g] = hosts[g]
    BY <2>1 DEF Without, Present
  <2>4. \A g : Referenced(g)' <=> Referenced(g)
    BY <2>1 DEF Referenced
  <2>5. boot.doomed \notin DOMAIN boot.conf
    BY <1>1, <2>1 DEF SyncedSoFar
  <2>6. \A g \in DOMAIN boot.conf : Marked(g)' /\ g \notin boot.todo
    BY <1>1, <2>1, <2>3, <2>5 DEF SyncedSoFar, Marked
  <2>7. \A g \in Present' \ DOMAIN boot.conf :
          hosts'[g].byConfig => Referenced(g)' \/ g \in boot.todo
    BY <1>1, <2>1, <2>3, <2>4 DEF SyncedSoFar
  <2>8. boot'.pc # "sync" /\ boot'.pc # "delete"
    BY <2>2
  <2>9. \A g \in DOMAIN boot'.conf : Marked(g)' /\ g \notin boot'.todo
    BY <2>2, <2>6
  <2>10. \A g \in Present' \ DOMAIN boot'.conf :
           hosts'[g].byConfig => \/ Referenced(g)' \/ g \in boot'.todo
                                 \/ boot'.pc = "delete" /\ g = boot'.doomed
    BY <2>2, <2>7
  <2> QED
    BY <1>2, <2>8, <2>9, <2>10 DEF SyncedSoFar
<1> QED
  BY <1>2, <1>3, <1>4, <1>5

LEMMA StartSteps ==
  ASSUME StartInv, SecretsInv', LateRequests, [Next]_vars
  PROVE  StartInv'
<1>1. IdleUnlessServing /\ SyncedSoFar
  BY DEF StartInv
<1> SUFFICES IdleUnlessServing' /\ SyncedSoFar'
  BY DEF StartInv
<1>2. CASE boot.pc # "serving" /\ UNCHANGED <<hosts, volumes, boot, call>>
  BY <1>1, <1>2 DEF IdleUnlessServing, SyncedSoFar, Marked, Present, Referenced
<1>3. CASE boot'.pc \in {"down", "exited", "serving"}
           /\ (boot'.pc # "serving" => \A c \in Calls : call'[c].pc = "idle")
  BY <1>3 DEF IdleUnlessServing, SyncedSoFar
<1>4. CASE \E conf \in Configs : Start(conf)
  <2>1. PICK conf \in Configs : Start(conf)
    BY <1>4
  <2>2. /\ boot.pc # "serving" /\ UNCHANGED call
        /\ boot'.pc = "sync" /\ boot'.conf = conf /\ boot'.todo = DOMAIN conf
    BY <2>1 DEF Start
  <2> QED
    BY <1>1, <2>2 DEF IdleUnlessServing, SyncedSoFar
<1>5. CASE \/ \E h \in HostIds : SyncHost(h) \/ CountDoomed(h) \/ MiscountDoomed(h)
           \/ ListDoomed \/ DeleteDoomed
  BY <1>5, StartSyncHost, StartPrunes
<1>6. CASE Synced
  BY <1>3, <1>6 DEF Synced, NotBooting
<1>7. CASE SyncFails \/ Stop \/ Crash
  <2>1. boot'.pc \in {"down", "exited"} /\ \A c \in Calls : call'[c].pc = "idle"
    BY <1>7, AllIdle DEF SyncFails, Exit, Stop, Crash, Down, NotBooting
  <2> QED
    BY <1>3, <2>1
<1>8. CASE (\E size \in PageSizes : ListHosts(size)) \/ ListAgain \/ UNCHANGED vars
  <2>1. UNCHANGED <<hosts, volumes, boot, call>>
    BY <1>8 DEF ListHosts, ListAgain, vars, tables
  <2> QED
    BY <1>1, <2>1 DEF IdleUnlessServing, SyncedSoFar, Marked, Present, Referenced
<1>9. CASE \E c \in Calls : Request(c) \/ Progress(c) \/ Rollback(c)
  <2>1. boot.pc = "serving"
    BY <1>9, NothingServed
  <2>2. UNCHANGED boot
    BY <1>9, ServedLeavesBoot
  <2> QED
    BY <1>3, <2>1, <2>2
<1> QED
  BY <1>4, <1>5, <1>6, <1>7, <1>8, <1>9 DEF Next, BootStep

(* While the control plane starts, no call is at work, and the table is as far as
   the steps of the start have brought it (SyncHosts, when the server listens only
   after it). *)
THEOREM StartInvariant == LateRequests /\ Spec => []StartInv
<1> SUFFICES ASSUME LateRequests
             PROVE  Spec => []StartInv
  OBVIOUS
<1>1. Init /\ SecretsInv => StartInv
  BY AllIdle DEF Init, StartInv, IdleUnlessServing, SyncedSoFar, NotBooting
<1>2. StartInv /\ SecretsInv' /\ [Next]_vars => StartInv'
  BY StartSteps
<1> QED
  BY <1>1, <1>2, SecretsInvariant, PTL DEF Spec

(* A start that ends leaves the table as its file says, after whatever crashes,
   other files and requests, any number of them at a time, when requests wait
   for it (SyncHosts). *)
THEOREM TableFollowsFile == LateRequests /\ Spec => ConfigApplied
<1> SUFFICES ASSUME LateRequests
             PROVE  Spec => ConfigApplied
  OBVIOUS
<1>1. StartInv /\ [Next]_vars =>
        [boot.pc # "serving" /\ boot'.pc = "serving" =>
           /\ \A h \in DOMAIN boot.conf : h \in Present /\ hosts[h].byConfig
           /\ \A h \in Present \ DOMAIN boot.conf :
                 hosts[h].byConfig => Referenced(h)]_vars
  <2> SUFFICES ASSUME StartInv, [Next]_vars, boot.pc # "serving", boot'.pc = "serving"
               PROVE  /\ \A h \in DOMAIN boot.conf : h \in Present /\ hosts[h].byConfig
                      /\ \A h \in Present \ DOMAIN boot.conf :
                            hosts[h].byConfig => Referenced(h)
    OBVIOUS
  <2>1. boot \in Boot
    BY DEF StartInv, SecretsInv, StartsFromFile
  <2>2. ASSUME NEW h \in HostIds, SyncHost(h) \/ CountDoomed(h) \/ MiscountDoomed(h)
        PROVE  FALSE
    <3>1. CASE SyncHost(h)
      BY <2>1, <3>1, SyncHostBoot
    <3>2. CASE CountDoomed(h) \/ MiscountDoomed(h)
      BY <2>1, <3>2 DEF CountDoomed, MiscountDoomed, Boot
    <3> QED
      BY <2>2, <3>1, <3>2
  <2>3. CASE ListDoomed \/ DeleteDoomed
    BY <2>1, <2>3 DEF ListDoomed, DeleteDoomed, Boot
  <2>4. CASE SyncFails \/ Stop \/ Crash \/ \E conf \in Configs : Start(conf)
    BY <2>4 DEF SyncFails, Exit, Stop, Crash, Down, Start, NotBooting
  <2>5. CASE (\E size \in PageSizes : ListHosts(size)) \/ ListAgain \/ UNCHANGED vars
    BY <2>5 DEF ListHosts, ListAgain, vars
  <2>6. CASE Synced
    BY <2>6 DEF Synced, StartInv, SyncedSoFar, Marked
  <2> QED
    BY <2>2, <2>3, <2>4, <2>5, <2>6, NothingServed DEF Next, BootStep
<1> QED
  BY <1>1, StartInvariant, PTL DEF Spec, ConfigApplied

-----------------------------------------------------------------------------
(* The columns that name hosts, when requests come one at a time. *)

OneCall == \A c, d \in Calls : c = d

Names(v) == {v.server, v.client}

(* What a column may hold: a host of the table, none, or one that is astray. *)
Known == Present \cup {NoHost} \cup astray

(* A host that goes: no column names it, unless its count failed. *)
MayGo(h) == h \in HostIds /\ (~Referenced(h) \/ h \in astray)

(* What a handler in hand is sure of: the host it deletes is not referred to,
   and a row that it writes names what a column may hold, or the host it has yet
   to look up. *)
Sure(r) ==
  /\ r.pc = "write" /\ r.op = "DeleteHost" => MayGo(r.host)
  /\ r.pc = "write" /\ r.op \in VolumeOps => Names(r.v) \subseteq Known \cup {r.host}
  /\ r.pc = "commit" => Names(r.v) \subseteq Known

RefsInv ==
  /\ StartInv
  /\ RefsLive
  /\ \A c \in Calls : Sure(call[c])
  /\ boot.pc = "delete" => MayGo(boot.doomed)

LEMMA RefsFacts ==
  ASSUME RefsInv
  PROVE  /\ boot \in Boot /\ call \in [Calls -> Call] /\ volumes \in [Volumes -> VolumeRow]
         /\ Present \subseteq HostIds /\ NoHost \notin HostIds
         /\ boot.pc # "serving" => \A c \in Calls : call[c].pc = "idle"
         /\ \A vol \in Volumes : Names(volumes[vol]) \subseteq Known
BY HostsAssumption DEF RefsInv, StartInv, SecretsInv, HostsSafe, VolumesSafe, CallsTyped,
   StartsFromFile, IdleUnlessServing, RefsLive, Names, Known

LEMMA SureIdle ==
  ASSUME \A c \in Calls : call'[c].pc = "idle"
  PROVE  \A c \in Calls : Sure(call[c])'
BY DEF Sure

LEMMA LiveKept ==
  ASSUME RefsInv, Known \subseteq Known',
         \A vol \in Volumes : Names(volumes'[vol]) \subseteq Names(volumes[vol]) \cup Known'
  PROVE  RefsLive'
BY RefsFacts DEF RefsLive, Names, Known

(* A host that no column names can go, and so can one that is astray. *)
LEMMA LiveRemoved ==
  ASSUME RefsInv, NEW h, MayGo(h), RemoveRow(h)
  PROVE  RefsLive'
<1>1. Present' = Present \ {h} /\ UNCHANGED <<volumes, astray>>
  BY DEF RemoveRow, Without, Present
<1> QED
  BY <1>1 DEF RefsInv, RefsLive, Referenced, MayGo

LEMMA KnownMore ==
  ASSUME \/ \E h, r : InsertRow(h, r)
         \/ \E h, r : WriteRow(h, r)
         \/ \E pc : Down(pc)
         \/ UNCHANGED <<hosts, astray>>
  PROVE  Known \subseteq Known'
BY DEF InsertRow, WriteRow, Down, Known, Present

LEMMA LastDone ==
  ASSUME RefsInv, OneCall, NEW c \in Calls, Done(c)
  PROVE  \A d \in Calls : call'[d].pc = "idle"
BY RefsFacts, AllIdle DEF OneCall, Done

LEMMA RefsBoot ==
  ASSUME RefsInv, \/ \E conf \in Configs : Start(conf)
                  \/ BootStep \/ SyncFails \/ Stop \/ Crash
                  \/ \E h \in HostIds : MiscountDoomed(h)
  PROVE  /\ RefsLive' /\ \A c \in Calls : Sure(call[c])'
         /\ boot'.pc = "delete" => MayGo(boot.doomed)'
<1>1. boot \in Boot
  BY RefsFacts
<1>2. \A c \in Calls : call'[c].pc = "idle"
  <2>1. boot.pc # "serving" => \A c \in Calls : call[c].pc = "idle"
    BY RefsFacts
  <2> QED
    BY <2>1, AllIdle DEF Start, BootStep, SyncHost, CountDoomed, MiscountDoomed, ListDoomed,
       DeleteDoomed, Synced, SyncFails, Stop, Crash, Exit, Down
<1>3. \A c \in Calls : Sure(call[c])'
  BY <1>2, SureIdle
<1>4. ASSUME UNCHANGED volumes, Known \subseteq Known'
      PROVE  RefsLive'
  BY <1>4, LiveKept
<1>5. CASE \/ \E conf \in Configs : Start(conf)
           \/ ListDoomed \/ Synced \/ SyncFails \/ Stop \/ Crash
  <2>1. UNCHANGED volumes /\ Known \subseteq Known'
    BY <1>5, KnownMore DEF Start, ListDoomed, Synced, SyncFails, Exit, Stop, Crash, Down, tables
  <2>2. boot'.pc # "delete"
    <3>1. CASE ListDoomed
      BY <1>1, <3>1 DEF ListDoomed, Boot
    <3>2. CASE \E conf \in Configs : Start(conf)
      BY <3>2 DEF Start
    <3>3. CASE Synced \/ SyncFails \/ Stop \/ Crash
      BY <3>3 DEF Synced, SyncFails, Stop, Crash, Exit, Down, NotBooting
    <3> QED
      BY <1>5, <3>1, <3>2, <3>3
  <2> QED
    BY <1>3, <1>4, <2>1, <2>2
<1>6. ASSUME NEW h \in HostIds, SyncHost(h)
      PROVE  RefsLive' /\ boot'.pc # "delete"
  <2>1. boot'.pc # "delete"
    BY <1>1, <1>6, SyncHostBoot
  <2>2. UNCHANGED volumes /\ Known \subseteq Known'
    BY <1>6, KnownMore DEF SyncHost, InsertRow, WriteRow, Exit, Down
  <2> QED
    BY <1>4, <2>1, <2>2
<1>7. ASSUME NEW h \in HostIds, CountDoomed(h) \/ MiscountDoomed(h)
      PROVE  RefsLive' /\ (boot'.pc = "delete" => MayGo(boot.doomed)')
  <2>1. /\ UNCHANGED <<hosts, volumes>> /\ boot.pc = "prune"
        /\ astray \subseteq astray' /\ (Referenced(h) /\ MiscountDoomed(h) => h \in astray')
    BY <1>7 DEF CountDoomed, MiscountDoomed, tables
  <2>2. RefsLive'
    BY <1>4, <2>1 DEF Known, Present
  <2>3. CASE CountDoomed(h) /\ Referenced(h)
    <3>1. boot'.pc = "prune"
      BY <1>1, <2>1, <2>3 DEF CountDoomed, Boot
    <3> QED
      BY <2>2, <3>1
  <2>4. CASE ~(CountDoomed(h) /\ Referenced(h))
    <3>1. boot'.doomed = h
      BY <1>1, <1>7, <2>4 DEF CountDoomed, MiscountDoomed, Boot
    <3> QED
      BY <1>7, <2>1, <2>2, <2>4, <3>1 DEF MayGo, Referenced
  <2> QED
    BY <2>3, <2>4
<1>8. CASE DeleteDoomed
  <2>1. RemoveRow(boot.doomed) /\ boot.pc = "delete"
    BY <1>8 DEF DeleteDoomed
  <2>2. boot'.pc # "delete"
    BY <1>1, <1>8 DEF DeleteDoomed, Boot
  <2>3. MayGo(boot.doomed)
    BY <2>1 DEF RefsInv
  <2> QED
    BY <1>3, <2>1, <2>2, <2>3, LiveRemoved
<1> QED
  BY <1>3, <1>5, <1>6, <1>7, <1>8 DEF BootStep

(* A host or a volume is created, while no handler is at work. *)
LEMMA RefsCreate ==
  ASSUME RefsInv, OneCall, NEW c \in Calls,
         \/ \E h \in HostIds, byConfig \in BOOLEAN : \E s \in Settings[h] :
               CreateHost(c, h, byConfig, s)
         \/ \E vol \in Volumes, server \in Servers \cup {NoHost}, client \in Clients \cup {NoHost} :
               CreateVolume(c, vol, server, client)
  PROVE  RefsLive' /\ \A d \in Calls : Sure(call[d])'
<1>1. UNCHANGED call /\ call[c].pc = "idle"
  BY DEF CreateHost, CreateVolume
<1>2. \A d \in Calls : Sure(call[d])'
  BY <1>1, SureIdle DEF OneCall
<1>3. ASSUME NEW h, NEW byConfig, NEW s, CreateHost(c, h, byConfig, s)
      PROVE  RefsLive'
  <2>1. UNCHANGED volumes /\ Known \subseteq Known'
    BY <1>3, KnownMore DEF CreateHost, InsertRow
  <2> QED
    BY <2>1, LiveKept
<1>4. ASSUME NEW vol \in Volumes, NEW server, NEW client, CreateVolume(c, vol, server, client)
      PROVE  RefsLive'
  <2> DEFINE r == [NoRow EXCEPT !.rung = 1, !.server = server, !.client = client]
  <2>1. /\ volumes' = [volumes EXCEPT ![vol] = r] /\ UNCHANGED hosts
        /\ astray' = astray \cup ({server, client} \ (Present \cup {NoHost}))
    BY <1>4 DEF CreateVolume
  <2>2. Names(r) = {server, client}
    BY DEF Names, NoRow
  <2> HIDE DEF r
  <2>3. Known \subseteq Known' /\ Names(r) \subseteq Known'
    BY <2>1, <2>2 DEF Known, Present
  <2> QED
    BY <2>1, <2>3, RefsFacts, LiveKept
<1> QED
  BY <1>2, <1>3, <1>4

(* What a request puts into the hands of its handler. *)
LEMMA RefsRequest ==
  ASSUME RefsInv, OneCall, NEW c \in Calls, Handed(c)
  PROVE  RefsLive' /\ \A d \in Calls : Sure(call[d])'
<1>1. UNCHANGED <<hosts, volumes, astray>>
  BY HandedLeaves DEF tables
<1>2. RefsLive'
  BY <1>1 DEF RefsInv, RefsLive, Present
<1>3. \A d \in Calls : d = c
  BY DEF OneCall
<1>4. ASSUME NEW h \in HostIds, NEW named, NEW s, UpdateHost(c, h, named, s)
      PROVE  Sure(call[c])'
  <2>1. call'[c].pc = "write" /\ call'[c].op = "UpdateHost"
    BY <1>4, RefsFacts DEF UpdateHost, Idle
  <2> QED
    BY <2>1 DEF Sure, VolumeOps
<1>5. ASSUME NEW h \in HostIds, DeleteHost(c, h)
      PROVE  Sure(call[c])'
  <2>1. call'[c].pc = "write" /\ call'[c].op = "DeleteHost" /\ call'[c].host = h
    BY <1>5, RefsFacts DEF DeleteHost, Accept, Idle
  <2>2. ~Referenced(h)
    BY <1>5 DEF DeleteHost
  <2> QED
    BY <1>1, <2>1, <2>2 DEF Sure, MayGo, VolumeOps, Referenced
<1>6. ASSUME NEW op, NEW h, NEW vol \in Volumes, NEW v, Accept(c, op, h, vol, v), op # "DeleteHost",
             Names(v) \subseteq Names(volumes[vol]) \cup {NoHost, h}
      PROVE  Sure(call[c])'
  <2>1. call'[c].pc = "write" /\ call'[c].op = op /\ call'[c].host = h /\ call'[c].v = v
    BY <1>6, RefsFacts DEF Accept, Idle
  <2>2. Names(v) \subseteq Known' \cup {h}
    BY <1>1, <1>6, RefsFacts DEF Known, Present
  <2> QED
    BY <1>6, <2>1, <2>2 DEF Sure
<1>7. ASSUME NEW vol \in Volumes
      PROVE  /\ Read(vol) \in [rung : 0 .. 3, server : Servers \cup {NoHost},
                               client : Clients \cup {NoHost}, password : {Read(vol).password}]
             /\ Read(vol).server = volumes[vol].server
             /\ Read(vol).client = volumes[vol].client
  BY RefsFacts DEF Read, VolumeRow
<1>8. ASSUME NEW vol \in Volumes, NEW h, PublishVolume(c, vol, h) \/ ConnectVolume(c, vol, h)
      PROVE  Sure(call[c])'
  <2>1. CASE PublishVolume(c, vol, h)
    <3> DEFINE v == [Read(vol) EXCEPT !.rung = 2, !.server = h, !.password = Empty]
    <3>1. v.server = h /\ v.client = volumes[vol].client
      BY <1>7
    <3>2. Accept(c, "PublishVolume", h, vol, v)
      BY <2>1 DEF PublishVolume
    <3> HIDE DEF v
    <3>3. Names(v) \subseteq Names(volumes[vol]) \cup {NoHost, h}
      BY <3>1 DEF Names
    <3> QED
      BY <1>6, <3>2, <3>3
  <2>2. CASE ConnectVolume(c, vol, h)
    <3> DEFINE v == [Read(vol) EXCEPT !.rung = 3, !.client = h]
    <3>1. v.client = h /\ v.server = volumes[vol].server
      BY <1>7
    <3>2. Accept(c, "ConnectVolume", h, vol, v)
      BY <2>2 DEF ConnectVolume
    <3> HIDE DEF v
    <3>3. Names(v) \subseteq Names(volumes[vol]) \cup {NoHost, h}
      BY <3>1 DEF Names
    <3> QED
      BY <1>6, <3>2, <3>3
  <2> QED
    BY <1>8, <2>1, <2>2
<1>9. ASSUME NEW vol \in Volumes,
             UnpublishVolume(c, vol) \/ DisconnectVolume(c, vol) \/ DeleteVolume(c, vol)
      PROVE  Sure(call[c])'
  <2>1. CASE UnpublishVolume(c, vol)
    <3> DEFINE v == [Read(vol) EXCEPT !.rung = 1, !.server = NoHost, !.password = Empty]
               h == volumes[vol].server
    <3>1. v.server = NoHost /\ v.client = volumes[vol].client
      BY <1>7
    <3>2. Accept(c, "UnpublishVolume", h, vol, v)
      BY <2>1 DEF UnpublishVolume
    <3> HIDE DEF v, h
    <3>3. Names(v) \subseteq Names(volumes[vol]) \cup {NoHost, h}
      BY <3>1 DEF Names
    <3> QED
      BY <1>6, <3>2, <3>3
  <2>2. CASE DisconnectVolume(c, vol)
    <3> DEFINE v == [Read(vol) EXCEPT !.rung = 2, !.client = NoHost]
               h == volumes[vol].client
    <3>1. v.client = NoHost /\ v.server = volumes[vol].server
      BY <1>7
    <3>2. Accept(c, "DisconnectVolume", h, vol, v)
      BY <2>2 DEF DisconnectVolume
    <3> HIDE DEF v, h
    <3>3. Names(v) \subseteq Names(volumes[vol]) \cup {NoHost, h}
      BY <3>1 DEF Names
    <3> QED
      BY <1>6, <3>2, <3>3
  <2>3. CASE DeleteVolume(c, vol)
    <3> DEFINE v == Read(vol)
               h == volumes[vol].server
    <3>1. v.client = volumes[vol].client /\ v.server = volumes[vol].server
      BY <1>7
    <3>2. Accept(c, "DeleteVolume", h, vol, v)
      BY <2>3 DEF DeleteVolume
    <3> HIDE DEF v, h
    <3>3. Names(v) \subseteq Names(volumes[vol]) \cup {NoHost, h}
      BY <3>1 DEF Names
    <3> QED
      BY <1>6, <3>2, <3>3
  <2> QED
    BY <1>9, <2>1, <2>2, <2>3
<1>10. Sure(call[c])'
  BY <1>4, <1>5, <1>8, <1>9 DEF Handed
<1> QED
  BY <1>2, <1>3, <1>10

(* What the handler in hand does. *)
LEMMA RefsProgress ==
  ASSUME RefsInv, OneCall, NEW c \in Calls, Progress(c) \/ Rollback(c)
  PROVE  RefsLive' /\ \A d \in Calls : Sure(call[d])'
<1>1. /\ call \in [Calls -> Call] /\ volumes \in [Volumes -> VolumeRow]
      /\ Sure(call[c]) /\ RefsLive
  BY RefsFacts DEF RefsInv
<1>2. ASSUME Done(c)
      PROVE  \A d \in Calls : Sure(call[d])'
  BY <1>2, LastDone, SureIdle
<1>3. CASE WriteHost(c) \/ Refused(c) \/ Rollback(c)
  <2>1. UNCHANGED <<volumes, astray>> /\ Done(c)
    BY <1>3 DEF WriteHost, WriteRow, Refused, Rollback, tables
  <2>2. Present' = Present
    BY <1>3 DEF WriteHost, WriteRow, Refused, Rollback, tables, Present
  <2> QED
    BY <1>1, <1>2, <2>1, <2>2 DEF RefsLive
<1>4. CASE DeleteHostRow(c)
  <2>1. RemoveRow(call[c].host) /\ Done(c) /\ call[c].pc = "write" /\ call[c].op = "DeleteHost"
    BY <1>4 DEF DeleteHostRow
  <2>2. MayGo(call[c].host)
    BY <1>1, <2>1 DEF Sure
  <2> QED
    BY <1>2, <2>1, <2>2, LiveRemoved
<1>5. CASE Begin(c)
  <2>1. UNCHANGED <<hosts, volumes, astray>> /\ call[c].pc = "write" /\ call[c].op \in VolumeOps
        /\ HostsOf(c) \subseteq Present
    BY <1>5 DEF Begin, tables
  <2>2. call[c].host \in Present \cup {NoHost}
    BY <2>1 DEF HostsOf
  <2>3. Names(call[c].v) \subseteq Known
    BY <1>1, <2>1, <2>2 DEF Sure, Known
  <2>4. Names(Bound(c)) = Names(call[c].v)
    BY <1>1 DEF Bound, Names, Call, VolumeRow
  <2>5. call'[c].pc = "commit" /\ call'[c].v = Bound(c)
    BY <1>1, <1>5 DEF Begin, Call
  <2>6. Sure(call[c])'
    BY <2>1, <2>3, <2>4, <2>5 DEF Sure, Known, Present
  <2>7. \A d \in Calls : d = c
    BY DEF OneCall
  <2> QED
    BY <1>1, <2>1, <2>6, <2>7 DEF RefsLive, Present
<1>6. CASE Commit(c)
  <2>1. UNCHANGED <<hosts, astray>> /\ Done(c) /\ call[c].pc = "commit"
    BY <1>6 DEF Commit
  <2>2. Names(call[c].v) \subseteq Known
    BY <1>1, <2>1 DEF Sure
  <2> DEFINE r == call[c].v
             vol == call[c].volume
             w == IF call[c].op = "DeleteVolume" THEN NoRow ELSE VolumeUpdates(volumes[vol], r)
  <2>3. volumes' = volumes \/ volumes' = [volumes EXCEPT ![vol] = w]
    BY <1>6 DEF Commit
  <2>4. ASSUME vol \in Volumes
        PROVE  Names(w) \subseteq Known
    BY <1>1, <2>2, <2>4 DEF RefsLive, Names, Known, VolumeUpdates, Kept, NoRow
  <2> HIDE DEF w, r, vol
  <2>5. \A x \in Volumes : Names(volumes'[x]) \subseteq Known
    BY <1>1, <2>3, <2>4 DEF RefsLive, Names, Known
  <2> QED
    BY <1>2, <2>1, <2>5 DEF RefsLive, Names, Known, Present
<1> QED
  BY <1>3, <1>4, <1>5, <1>6 DEF Progress

LEMMA RefsSteps ==
  ASSUME RefsInv, StartInv', OneCall, LateRequests, [Next]_vars
  PROVE  RefsInv'
<1>1. CASE \/ \E conf \in Configs : Start(conf)
           \/ BootStep \/ SyncFails \/ Stop \/ Crash \/ \E h \in HostIds : MiscountDoomed(h)
  BY <1>1, RefsBoot DEF RefsInv
<1>2. ASSUME UNCHANGED boot, boot.pc = "serving",
             RefsLive', \A c \in Calls : Sure(call[c])'
      PROVE  RefsInv'
  BY <1>2 DEF RefsInv
<1>3. CASE \E c \in Calls : Request(c) \/ Progress(c) \/ Rollback(c)
  <2>1. boot.pc = "serving"
    BY <1>3, NothingServed DEF RefsInv
  <2>2. UNCHANGED boot
    BY <1>3, ServedLeavesBoot
  <2> QED
    BY <1>2, <1>3, <2>1, <2>2, RequestCases, RefsCreate, RefsRequest, RefsProgress
<1>4. CASE (\E size \in PageSizes : ListHosts(size)) \/ ListAgain \/ UNCHANGED vars
  <2>1. UNCHANGED <<hosts, volumes, boot, call, astray>>
    BY <1>4 DEF ListHosts, ListAgain, vars, tables
  <2> QED
    BY <2>1 DEF RefsInv, RefsLive, Sure, MayGo, Known, Referenced, Present
<1> QED
  BY <1>1, <1>3, <1>4 DEF Next

(* What DeleteHost, the start and the handlers of volumes rely on between their
   reads and their writes, when requests come one at a time and wait for the
   start (DeleteHost, SyncHosts). *)
THEOREM RefsInvariant == OneCall /\ LateRequests /\ Spec => []RefsInv
<1> SUFFICES ASSUME OneCall, LateRequests
             PROVE  Spec => []RefsInv
  OBVIOUS
<1>1. Init /\ StartInv => RefsInv
  BY AllIdle DEF Init, RefsInv, RefsLive, Sure, NoRow, NotBooting
<1>2. RefsInv /\ StartInv' /\ [Next]_vars => RefsInv'
  BY RefsSteps
<1>3. Spec => []StartInv
  BY StartInvariant
<1> QED
  BY <1>1, <1>2, <1>3, PTL DEF Spec

(* When requests come one at a time and wait for the start, every host that a
   volume's row names is in the table, whatever crashes and files, though no column is cleared on release and no foreign key guards one
   (UnpublishVolume, DisconnectVolume and DeleteVolume find their host); but for
   a host that a CreateVolume named while it was not there, and one that a start
   deleted after its count had failed. *)
THEOREM RefsStayLive == OneCall /\ LateRequests /\ Spec => []RefsLive
<1> SUFFICES ASSUME OneCall, LateRequests
             PROVE  Spec => []RefsLive
  OBVIOUS
<1>1. RefsInv => RefsLive
  BY DEF RefsInv
<1>2. Spec => []RefsInv
  BY RefsInvariant
<1> QED
  BY <1>1, <1>2, PTL

================================================================================
