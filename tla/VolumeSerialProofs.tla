-------------------------- MODULE VolumeSerialProofs --------------------------
(***************************************************************************)
(* Proofs about VolumeService when its calls come one at a time and no      *)
(* create names target paths, for any hosts and paths and any number of     *)
(* faults: the row keeps the shape of its status, every commit is a step of *)
(* VolumeLifecycle, the only client that has the device mounted is the one  *)
(* the row names, and as long as nothing has failed the hosts are as the    *)
(* row says.                                                                *)
(***************************************************************************)
EXTENDS VolumeServiceProofs

(* Requests come one at a time. *)
OneCall == \A c, d \in Calls : c = d

(* No request to create a volume names target paths, which are not its to name:
   UnmountVolume, which asks only whether the path is listed, would make such a
   row STAGED (service_volume.go CreateVolume, UnmountVolume). *)
PathlessCreates == \A out \in CreateOutputs : out.targetPaths = {}

(* RowShape, of any row, and what it needs to be kept by gorm's Updates: a nil
   slice hides no path. *)
Shape(r) ==
  /\ r.transport.target \in {NoHost, IF IsPublished(r) THEN r.serverHost ELSE NoHost}
  /\ r.transport.initiator \in {NoHost, IF IsConnected(r) THEN r.clientHost ELSE NoHost}
  /\ IsPublished(r) => r.serverHost # NoHost /\ r.transport.type \in Transports
  /\ IsConnected(r) => r.clientHost # NoHost
  /\ IsStaged(r) => r.stagingPath # NoPath
  /\ IsMounted(r) <=> r.targetPaths # {}
  /\ r.pathsNil => r.targetPaths = {}

(* The copy k.v and the place k.at are what the handler of k.op makes of r. *)
Made(k, r) ==
  /\ Exists(r)
  /\ k.op = "Delete" => ~IsPublished(r) /\ k.at = PlaceOf(r, NoPath)
  /\ k.op = "Publish" =>
        /\ ~IsPublished(r)
        /\ \E s \in Servers \cup {NoHost}, t \in Transports :
              k.v = ToPublished(r, s, t) /\ (k.ready => s # NoHost)
        /\ k.at = PlaceOf(k.v, NoPath)
  /\ k.op = "Unpublish" =>
        /\ IsPublished(r) /\ ~IsConnected(r)
        /\ k.v = ToUnpublished(r) /\ k.at = PlaceOf(r, NoPath)
  /\ k.op = "Connect" =>
        /\ IsPublished(r) /\ ~IsConnected(r)
        /\ \E h \in Clients \cup {NoHost} :
              k.v = ToConnected(r, h) /\ (k.ready => h # NoHost)
        /\ k.at = PlaceOf(k.v, NoPath)
  /\ k.op = "Disconnect" =>
        /\ IsConnected(r) /\ ~IsMounted(r)
        /\ k.v = ToDisconnected(r) /\ k.at = PlaceOf(r, NoPath)
  /\ k.op = "Stage" =>
        /\ IsConnected(r) /\ ~IsStaged(r)
        /\ \E p \in StagingPaths : k.v = ToStaged(r, p)
        /\ k.at = PlaceOf(k.v, NoPath)
  /\ k.op = "Unstage" =>
        /\ IsStaged(r) /\ ~IsMounted(r)
        /\ k.v = ToUnstaged(r) /\ k.at = PlaceOf(r, NoPath)
  /\ k.op = "Mount" =>
        /\ IsStaged(r)
        /\ \E p \in MountPaths \ r.targetPaths :
              k.v = ToMounted(r, p) /\ k.at = PlaceOf(k.v, p)
  /\ k.op = "Unmount" =>
        \E p \in r.targetPaths : k.v = ToUnmounted(r, p) /\ k.at = PlaceOf(k.v, p)
  /\ k.op = "Update" => k.v = ToUpdated(r) /\ k.at = PlaceOf(k.v, NoPath)

(* A call has read the row as it is committed now, unless it is an update that
   has written it already. *)
Fresh(c) ==
  LET k == call[c]
  IN  k.pc # "idle" /\ (k.op = "Update" => k.pc = "write") => k.op \in Ops /\ Made(k, row)

SerialInv == Shape(row) /\ \A c \in Calls : Fresh(c)

-----------------------------------------------------------------------------
LEMMA ShapeIsRowShape == Shape(row) => RowShape
BY DEF Shape, RowShape, TeardownColumns, TransportDetails, IsConnected, IsMounted

LEMMA NoVolumeShape ==
  /\ Shape(NoVolume)
  /\ \A m \in Modes, t \in AnyTransport, out \in Outputs :
        out.targetPaths = {} => Shape(NewVolume(m, t, out))
BY DEF Shape, NoVolume, NewVolume, Outputs, NoOutputs, NoTransport, IsPublished, IsConnected, IsStaged, IsMounted,
       UNSPECIFIED, INITIAL, PUBLISHED, CONNECTED, STAGED, MOUNTED

(* What a commit leaves: the row that the handler has made, with the columns
   that Updates skips as they were. *)
LEMMA UpdatesFields ==
  ASSUME NEW r \in Volume, NEW v \in Volume, Exists(r), NEW u, u = Updates(r, v)
  PROVE  /\ u.status = v.status /\ u.transport = v.transport
         /\ u.serverHost = IF v.serverHost = NoHost THEN r.serverHost ELSE v.serverHost
         /\ u.clientHost = IF v.clientHost = NoHost THEN r.clientHost ELSE v.clientHost
         /\ u.stagingPath = IF v.stagingPath = NoPath THEN r.stagingPath ELSE v.stagingPath
         /\ u.targetPaths = IF v.pathsNil THEN r.targetPaths ELSE v.targetPaths
         /\ u.pathsNil = (v.pathsNil /\ r.pathsNil)
         /\ u.mode = v.mode
         /\ v.pathsNil = r.pathsNil => u.pathsNil = r.pathsNil
         /\ ~v.pathsNil => ~u.pathsNil
BY DEF Updates, Kept, Volume

(* The rung that a handler finds the row on. *)
LEMMA Rungs ==
  ASSUME NEW r \in Volume
  PROVE  /\ Exists(r) /\ ~IsPublished(r) => r.status = INITIAL
         /\ ~Exists(r) => r.status = UNSPECIFIED
         /\ IsPublished(r) /\ ~IsConnected(r) => r.status = PUBLISHED
         /\ IsConnected(r) /\ ~IsStaged(r) => r.status = CONNECTED
         /\ IsStaged(r) /\ ~IsMounted(r) => r.status = STAGED
         /\ IsMounted(r) => r.status = MOUNTED
BY DEF Volume, Status, Exists, IsPublished, IsConnected, IsStaged, IsMounted,
       UNSPECIFIED, INITIAL, PUBLISHED, CONNECTED, STAGED, MOUNTED

-----------------------------------------------------------------------------
(* What each commit leaves of a row that suits its status, and that it is a
   step of the ladder that keeps the shape.  Of the columns that Updates skips,
   only hidden ones are stale. *)

LEMMA PublishFields ==
  ASSUME NEW r \in Volume, Shape(r), Exists(r), ~IsPublished(r),
         NEW s \in Servers, NEW t \in Transports,
         NEW u, u = Updates(r, ToPublished(r, s, t))
  PROVE  /\ r.status = INITIAL /\ u.status = PUBLISHED /\ u.serverHost = s
         /\ u.clientHost = r.clientHost /\ u.stagingPath = r.stagingPath
         /\ u.targetPaths = r.targetPaths /\ u.pathsNil = r.pathsNil
         /\ u.mode = r.mode /\ u.transport.type = t /\ u.transport.target = s
         /\ u.transport.initiator = NoHost
<1> DEFINE v == ToPublished(r, s, t)
<1>1. v \in Volume /\ u = Updates(r, v)
  BY StoredType DEF Volume
<1>2. /\ s # NoHost /\ v.status = PUBLISHED /\ v.serverHost = s
      /\ v.clientHost = r.clientHost /\ v.stagingPath = r.stagingPath
      /\ v.targetPaths = r.targetPaths /\ v.pathsNil = r.pathsNil /\ v.mode = r.mode
      /\ v.transport.type = t /\ v.transport.target = s
      /\ v.transport.initiator = NoHost
  BY HostsAssumption, PathsAssumption DEF ToPublished, Volume, Transport, NoTransport
<1> HIDE DEF v
<1>3. r.status = INITIAL
  BY Rungs DEF Volume, Shape
<1> QED
  BY <1>1, <1>2, <1>3, UpdatesFields

LEMMA PublishCommits ==
  ASSUME row \in Volume, Shape(row), Exists(row), ~IsPublished(row),
         NEW s \in Servers, NEW t \in Transports,
         row' = Updates(row, ToPublished(row, s, t))
  PROVE  Shape(row') /\ Lifecycle!Publish(s)
<1>1. /\ row.status = INITIAL /\ row'.status = PUBLISHED /\ row'.serverHost = s
      /\ row'.clientHost = row.clientHost /\ row'.stagingPath = row.stagingPath
      /\ row'.targetPaths = row.targetPaths /\ row'.pathsNil = row.pathsNil
      /\ row'.mode = row.mode /\ row'.transport.type = t
      /\ row'.transport.target = s /\ row'.transport.initiator = NoHost
  BY PublishFields
<1>2. Shape(row')
  BY <1>1, HostsAssumption, PathsAssumption DEF Shape, IsPublished, IsConnected, IsStaged, IsMounted,
     INITIAL, PUBLISHED, CONNECTED, STAGED, MOUNTED
<1>3. Lifecycle!Publish(s)
  BY <1>1, HostsAssumption, PathsAssumption DEF Lifecycle!Publish, Lifecycle!Climb, Lifecycle!INITIAL,
     Lifecycle!PUBLISHED, Lifecycle!CONNECTED, Lifecycle!STAGED, Lifecycle!MOUNTED,
     Shape, IsPublished, IsConnected, IsStaged, IsMounted,
     INITIAL, PUBLISHED, CONNECTED, STAGED, MOUNTED
<1> QED
  BY <1>2, <1>3

LEMMA UnpublishFields ==
  ASSUME NEW r \in Volume, Shape(r), Exists(r), IsPublished(r), ~IsConnected(r),
         NEW u, u = Updates(r, ToUnpublished(r))
  PROVE  /\ r.status = PUBLISHED /\ u.status = INITIAL
         /\ u.serverHost = r.serverHost /\ u.clientHost = r.clientHost
         /\ u.stagingPath = r.stagingPath /\ u.targetPaths = r.targetPaths
         /\ u.pathsNil = r.pathsNil /\ u.mode = r.mode
         /\ u.transport.type = "UNSPECIFIED" /\ u.transport.target = NoHost
         /\ u.transport.initiator = NoHost
<1> DEFINE v == ToUnpublished(r)
<1>1. v \in Volume /\ u = Updates(r, v)
  BY StoredType DEF Volume
<1>2. /\ v.status = INITIAL /\ v.serverHost = NoHost /\ v.clientHost = r.clientHost
      /\ v.stagingPath = r.stagingPath /\ v.targetPaths = r.targetPaths
      /\ v.pathsNil = r.pathsNil /\ v.mode = r.mode
      /\ v.transport.type = "UNSPECIFIED" /\ v.transport.target = NoHost
      /\ v.transport.initiator = NoHost
  BY HostsAssumption, PathsAssumption DEF ToUnpublished, Volume, Transport, NoTransport
<1> HIDE DEF v
<1>3. r.status = PUBLISHED
  BY Rungs DEF Volume, Shape
<1> QED
  BY <1>1, <1>2, <1>3, UpdatesFields

LEMMA UnpublishCommits ==
  ASSUME row \in Volume, Shape(row), Exists(row), IsPublished(row), ~IsConnected(row),
         row' = Updates(row, ToUnpublished(row))
  PROVE  Shape(row') /\ Lifecycle!Unpublish
<1>1. /\ row.status = PUBLISHED /\ row'.status = INITIAL
      /\ row'.serverHost = row.serverHost /\ row'.clientHost = row.clientHost
      /\ row'.stagingPath = row.stagingPath /\ row'.targetPaths = row.targetPaths
      /\ row'.pathsNil = row.pathsNil /\ row'.mode = row.mode
      /\ row'.transport.type = "UNSPECIFIED" /\ row'.transport.target = NoHost
      /\ row'.transport.initiator = NoHost
  BY UnpublishFields
<1>2. Shape(row')
  BY <1>1, HostsAssumption, PathsAssumption DEF Shape, IsPublished, IsConnected, IsStaged, IsMounted,
     INITIAL, PUBLISHED, CONNECTED, STAGED, MOUNTED
<1>3. Lifecycle!Unpublish
  BY <1>1, HostsAssumption, PathsAssumption DEF Lifecycle!Unpublish, Lifecycle!Climb, Lifecycle!INITIAL,
     Lifecycle!PUBLISHED, Lifecycle!CONNECTED, Lifecycle!STAGED, Lifecycle!MOUNTED,
     Shape, IsPublished, IsConnected, IsStaged, IsMounted,
     INITIAL, PUBLISHED, CONNECTED, STAGED, MOUNTED
<1> QED
  BY <1>2, <1>3

LEMMA ConnectFields ==
  ASSUME NEW r \in Volume, Shape(r), Exists(r), IsPublished(r), ~IsConnected(r),
         NEW h \in Clients,
         NEW u, u = Updates(r, ToConnected(r, h))
  PROVE  /\ r.status = PUBLISHED /\ u.status = CONNECTED
         /\ u.serverHost = r.serverHost /\ u.clientHost = h
         /\ u.stagingPath = r.stagingPath /\ u.targetPaths = r.targetPaths
         /\ u.pathsNil = r.pathsNil /\ u.mode = r.mode
         /\ u.transport.type = r.transport.type
         /\ u.transport.target = r.transport.target /\ u.transport.initiator = h
<1> DEFINE v == ToConnected(r, h)
<1>1. v \in Volume /\ u = Updates(r, v)
  BY StoredType DEF Volume
<1>2. /\ h # NoHost /\ v.status = CONNECTED /\ v.serverHost = r.serverHost
      /\ v.clientHost = h /\ v.stagingPath = r.stagingPath
      /\ v.targetPaths = r.targetPaths /\ v.pathsNil = r.pathsNil /\ v.mode = r.mode
      /\ v.transport.type = r.transport.type
      /\ v.transport.target = r.transport.target /\ v.transport.initiator = h
  BY HostsAssumption, PathsAssumption DEF ToConnected, Volume, Transport, NoTransport
<1> HIDE DEF v
<1>3. r.status = PUBLISHED
  BY Rungs DEF Volume, Shape
<1> QED
  BY <1>1, <1>2, <1>3, UpdatesFields

LEMMA ConnectCommits ==
  ASSUME row \in Volume, Shape(row), Exists(row), IsPublished(row), ~IsConnected(row),
         NEW h \in Clients,
         row' = Updates(row, ToConnected(row, h))
  PROVE  Shape(row') /\ Lifecycle!Connect(h)
<1>1. /\ row.status = PUBLISHED /\ row'.status = CONNECTED
      /\ row'.serverHost = row.serverHost /\ row'.clientHost = h
      /\ row'.stagingPath = row.stagingPath /\ row'.targetPaths = row.targetPaths
      /\ row'.pathsNil = row.pathsNil /\ row'.mode = row.mode
      /\ row'.transport.type = row.transport.type
      /\ row'.transport.target = row.transport.target
      /\ row'.transport.initiator = h
  BY ConnectFields
<1>2. Shape(row')
  BY <1>1, HostsAssumption, PathsAssumption DEF Shape, IsPublished, IsConnected, IsStaged, IsMounted,
     INITIAL, PUBLISHED, CONNECTED, STAGED, MOUNTED
<1>3. Lifecycle!Connect(h)
  BY <1>1, HostsAssumption, PathsAssumption DEF Lifecycle!Connect, Lifecycle!Climb, Lifecycle!INITIAL,
     Lifecycle!PUBLISHED, Lifecycle!CONNECTED, Lifecycle!STAGED, Lifecycle!MOUNTED,
     Shape, IsPublished, IsConnected, IsStaged, IsMounted,
     INITIAL, PUBLISHED, CONNECTED, STAGED, MOUNTED
<1> QED
  BY <1>2, <1>3

LEMMA DisconnectFields ==
  ASSUME NEW r \in Volume, Shape(r), Exists(r), IsConnected(r), ~IsMounted(r),
         NEW u, u = Updates(r, ToDisconnected(r))
  PROVE  /\ r.status \in {CONNECTED, STAGED} /\ u.status = PUBLISHED
         /\ u.serverHost = r.serverHost /\ u.clientHost = r.clientHost
         /\ u.stagingPath = r.stagingPath /\ u.targetPaths = r.targetPaths
         /\ u.pathsNil = r.pathsNil /\ u.mode = r.mode
         /\ u.transport.type = r.transport.type
         /\ u.transport.target = r.transport.target
         /\ u.transport.initiator = NoHost
<1> DEFINE v == ToDisconnected(r)
<1>1. v \in Volume /\ u = Updates(r, v)
  BY StoredType DEF Volume
<1>2. /\ v.status = PUBLISHED /\ v.serverHost = r.serverHost
      /\ v.clientHost = NoHost /\ v.stagingPath = r.stagingPath
      /\ v.targetPaths = r.targetPaths /\ v.pathsNil = r.pathsNil /\ v.mode = r.mode
      /\ v.transport.type = r.transport.type
      /\ v.transport.target = r.transport.target /\ v.transport.initiator = NoHost
  BY HostsAssumption, PathsAssumption DEF ToDisconnected, Volume, Transport, NoTransport
<1> HIDE DEF v
<1>3. r.status \in {CONNECTED, STAGED}
  BY Rungs DEF Volume, Shape
<1> QED
  BY <1>1, <1>2, <1>3, UpdatesFields

LEMMA DisconnectCommits ==
  ASSUME row \in Volume, Shape(row), Exists(row), IsConnected(row), ~IsMounted(row),
         row' = Updates(row, ToDisconnected(row))
  PROVE  Shape(row') /\ Lifecycle!Disconnect
<1>1. /\ row.status \in {CONNECTED, STAGED} /\ row'.status = PUBLISHED
      /\ row'.serverHost = row.serverHost /\ row'.clientHost = row.clientHost
      /\ row'.stagingPath = row.stagingPath /\ row'.targetPaths = row.targetPaths
      /\ row'.pathsNil = row.pathsNil /\ row'.mode = row.mode
      /\ row'.transport.type = row.transport.type
      /\ row'.transport.target = row.transport.target
      /\ row'.transport.initiator = NoHost
  BY DisconnectFields
<1>2. Shape(row')
  BY <1>1, HostsAssumption, PathsAssumption DEF Shape, IsPublished, IsConnected, IsStaged, IsMounted,
     INITIAL, PUBLISHED, CONNECTED, STAGED, MOUNTED
<1>3. Lifecycle!Disconnect
  BY <1>1, HostsAssumption, PathsAssumption DEF Lifecycle!Disconnect, Lifecycle!Climb, Lifecycle!INITIAL,
     Lifecycle!PUBLISHED, Lifecycle!CONNECTED, Lifecycle!STAGED, Lifecycle!MOUNTED,
     Shape, IsPublished, IsConnected, IsStaged, IsMounted,
     INITIAL, PUBLISHED, CONNECTED, STAGED, MOUNTED
<1> QED
  BY <1>2, <1>3

LEMMA StageFields ==
  ASSUME NEW r \in Volume, Shape(r), Exists(r), IsConnected(r), ~IsStaged(r),
         NEW p \in StagingPaths,
         NEW u, u = Updates(r, ToStaged(r, p))
  PROVE  /\ r.status = CONNECTED /\ u.status = STAGED /\ u.serverHost = r.serverHost
         /\ u.clientHost = r.clientHost /\ u.stagingPath = p
         /\ u.targetPaths = r.targetPaths /\ u.pathsNil = r.pathsNil
         /\ u.mode = r.mode /\ u.transport = r.transport
<1> DEFINE v == ToStaged(r, p)
<1>1. v \in Volume /\ u = Updates(r, v)
  BY StoredType DEF Volume
<1>2. /\ p # NoPath /\ v.status = STAGED /\ v.serverHost = r.serverHost
      /\ v.clientHost = r.clientHost /\ v.stagingPath = p
      /\ v.targetPaths = r.targetPaths /\ v.pathsNil = r.pathsNil /\ v.mode = r.mode
      /\ v.transport = r.transport
  BY HostsAssumption, PathsAssumption DEF ToStaged, Volume, Transport, NoTransport
<1> HIDE DEF v
<1>3. r.status = CONNECTED
  BY Rungs DEF Volume, Shape
<1> QED
  BY <1>1, <1>2, <1>3, UpdatesFields

LEMMA StageCommits ==
  ASSUME row \in Volume, Shape(row), Exists(row), IsConnected(row), ~IsStaged(row),
         NEW p \in StagingPaths,
         row' = Updates(row, ToStaged(row, p))
  PROVE  Shape(row') /\ Lifecycle!Stage(p)
<1>1. /\ row.status = CONNECTED /\ row'.status = STAGED
      /\ row'.serverHost = row.serverHost /\ row'.clientHost = row.clientHost
      /\ row'.stagingPath = p /\ row'.targetPaths = row.targetPaths
      /\ row'.pathsNil = row.pathsNil /\ row'.mode = row.mode
      /\ row'.transport = row.transport
  BY StageFields
<1>2. Shape(row')
  BY <1>1, HostsAssumption, PathsAssumption DEF Shape, IsPublished, IsConnected, IsStaged, IsMounted,
     INITIAL, PUBLISHED, CONNECTED, STAGED, MOUNTED
<1>3. Lifecycle!Stage(p)
  BY <1>1, HostsAssumption, PathsAssumption DEF Lifecycle!Stage, Lifecycle!Climb, Lifecycle!INITIAL,
     Lifecycle!PUBLISHED, Lifecycle!CONNECTED, Lifecycle!STAGED, Lifecycle!MOUNTED,
     Shape, IsPublished, IsConnected, IsStaged, IsMounted,
     INITIAL, PUBLISHED, CONNECTED, STAGED, MOUNTED
<1> QED
  BY <1>2, <1>3

LEMMA UnstageFields ==
  ASSUME NEW r \in Volume, Shape(r), Exists(r), IsStaged(r), ~IsMounted(r),
         NEW u, u = Updates(r, ToUnstaged(r))
  PROVE  /\ r.status = STAGED /\ u.status = CONNECTED /\ u.serverHost = r.serverHost
         /\ u.clientHost = r.clientHost /\ u.stagingPath = r.stagingPath
         /\ u.targetPaths = r.targetPaths /\ u.pathsNil = r.pathsNil
         /\ u.mode = r.mode /\ u.transport = r.transport
<1> DEFINE v == ToUnstaged(r)
<1>1. v \in Volume /\ u = Updates(r, v)
  BY StoredType DEF Volume
<1>2. /\ v.status = CONNECTED /\ v.serverHost = r.serverHost
      /\ v.clientHost = r.clientHost /\ v.stagingPath = NoPath
      /\ v.targetPaths = r.targetPaths /\ v.pathsNil = r.pathsNil /\ v.mode = r.mode
      /\ v.transport = r.transport
  BY HostsAssumption, PathsAssumption DEF ToUnstaged, Volume, Transport, NoTransport
<1> HIDE DEF v
<1>3. r.status = STAGED
  BY Rungs DEF Volume, Shape
<1> QED
  BY <1>1, <1>2, <1>3, UpdatesFields

LEMMA UnstageCommits ==
  ASSUME row \in Volume, Shape(row), Exists(row), IsStaged(row), ~IsMounted(row),
         row' = Updates(row, ToUnstaged(row))
  PROVE  Shape(row') /\ Lifecycle!Unstage
<1>1. /\ row.status = STAGED /\ row'.status = CONNECTED
      /\ row'.serverHost = row.serverHost /\ row'.clientHost = row.clientHost
      /\ row'.stagingPath = row.stagingPath /\ row'.targetPaths = row.targetPaths
      /\ row'.pathsNil = row.pathsNil /\ row'.mode = row.mode
      /\ row'.transport = row.transport
  BY UnstageFields
<1>2. Shape(row')
  BY <1>1, HostsAssumption, PathsAssumption DEF Shape, IsPublished, IsConnected, IsStaged, IsMounted,
     INITIAL, PUBLISHED, CONNECTED, STAGED, MOUNTED
<1>3. Lifecycle!Unstage
  BY <1>1, HostsAssumption, PathsAssumption DEF Lifecycle!Unstage, Lifecycle!Climb, Lifecycle!INITIAL,
     Lifecycle!PUBLISHED, Lifecycle!CONNECTED, Lifecycle!STAGED, Lifecycle!MOUNTED,
     Shape, IsPublished, IsConnected, IsStaged, IsMounted,
     INITIAL, PUBLISHED, CONNECTED, STAGED, MOUNTED
<1> QED
  BY <1>2, <1>3

LEMMA MountFields ==
  ASSUME NEW r \in Volume, Shape(r), Exists(r), IsStaged(r),
         NEW p \in MountPaths \ r.targetPaths,
         NEW u, u = Updates(r, ToMounted(r, p))
  PROVE  /\ r.status \in {STAGED, MOUNTED} /\ u.status = MOUNTED
         /\ u.serverHost = r.serverHost /\ u.clientHost = r.clientHost
         /\ u.stagingPath = r.stagingPath /\ u.targetPaths = r.targetPaths \cup {p}
         /\ ~u.pathsNil /\ u.mode = r.mode /\ u.transport = r.transport
<1> DEFINE v == ToMounted(r, p)
<1>1. v \in Volume /\ u = Updates(r, v)
  BY StoredType DEF Volume
<1>2. /\ v.status = MOUNTED /\ v.serverHost = r.serverHost
      /\ v.clientHost = r.clientHost /\ v.stagingPath = r.stagingPath
      /\ v.targetPaths = r.targetPaths \cup {p} /\ ~v.pathsNil /\ v.mode = r.mode
      /\ v.transport = r.transport
  BY HostsAssumption, PathsAssumption DEF ToMounted, Volume, Transport, NoTransport
<1> HIDE DEF v
<1>3. r.status \in {STAGED, MOUNTED}
  BY Rungs DEF Volume, Shape
<1> QED
  BY <1>1, <1>2, <1>3, UpdatesFields

LEMMA MountCommits ==
  ASSUME row \in Volume, Shape(row), Exists(row), IsStaged(row),
         NEW p \in MountPaths \ row.targetPaths,
         row' = Updates(row, ToMounted(row, p))
  PROVE  Shape(row') /\ Lifecycle!Mount(p)
<1>1. /\ row.status \in {STAGED, MOUNTED} /\ row'.status = MOUNTED
      /\ row'.serverHost = row.serverHost /\ row'.clientHost = row.clientHost
      /\ row'.stagingPath = row.stagingPath
      /\ row'.targetPaths = row.targetPaths \cup {p} /\ ~row'.pathsNil
      /\ row'.mode = row.mode /\ row'.transport = row.transport
  BY MountFields
<1>2. Shape(row')
  BY <1>1, HostsAssumption, PathsAssumption DEF Shape, IsPublished, IsConnected, IsStaged, IsMounted,
     INITIAL, PUBLISHED, CONNECTED, STAGED, MOUNTED
<1>3. Lifecycle!Mount(p)
  BY <1>1, HostsAssumption, PathsAssumption DEF Lifecycle!Mount, Lifecycle!Climb, Lifecycle!INITIAL,
     Lifecycle!PUBLISHED, Lifecycle!CONNECTED, Lifecycle!STAGED, Lifecycle!MOUNTED,
     Shape, IsPublished, IsConnected, IsStaged, IsMounted,
     INITIAL, PUBLISHED, CONNECTED, STAGED, MOUNTED
<1> QED
  BY <1>2, <1>3

LEMMA UnmountFields ==
  ASSUME NEW r \in Volume, Shape(r), Exists(r),
         NEW p \in r.targetPaths,
         NEW u, u = Updates(r, ToUnmounted(r, p))
  PROVE  /\ r.status = MOUNTED /\ ~r.pathsNil
         /\ u.status = (IF r.targetPaths \subseteq {p} THEN STAGED ELSE MOUNTED)
         /\ u.serverHost = r.serverHost /\ u.clientHost = r.clientHost
         /\ u.stagingPath = r.stagingPath /\ u.targetPaths = r.targetPaths \ {p}
         /\ u.pathsNil = r.pathsNil /\ u.mode = r.mode /\ u.transport = r.transport
<1> DEFINE v == ToUnmounted(r, p)
<1>1. v \in Volume /\ u = Updates(r, v)
  BY StoredType DEF Volume
<1>2. /\ v.status = (IF r.targetPaths \subseteq {p} THEN STAGED ELSE r.status)
      /\ v.serverHost = r.serverHost /\ v.clientHost = r.clientHost
      /\ v.stagingPath = r.stagingPath /\ v.targetPaths = r.targetPaths \ {p}
      /\ v.pathsNil = r.pathsNil /\ v.mode = r.mode /\ v.transport = r.transport
  BY HostsAssumption, PathsAssumption DEF ToUnmounted, Volume, Transport, NoTransport
<1> HIDE DEF v
<1>3. r.status = MOUNTED /\ ~r.pathsNil
  BY Rungs DEF Volume, Shape
<1> QED
  BY <1>1, <1>2, <1>3, UpdatesFields

LEMMA UnmountCommits ==
  ASSUME row \in Volume, Shape(row), Exists(row),
         NEW p \in row.targetPaths,
         row' = Updates(row, ToUnmounted(row, p))
  PROVE  Shape(row') /\ Lifecycle!Unmount(p)
<1>1. /\ row.status = MOUNTED /\ ~row.pathsNil
      /\ row'.status = (IF row.targetPaths \subseteq {p} THEN STAGED ELSE MOUNTED)
      /\ row'.serverHost = row.serverHost /\ row'.clientHost = row.clientHost
      /\ row'.stagingPath = row.stagingPath
      /\ row'.targetPaths = row.targetPaths \ {p} /\ row'.pathsNil = row.pathsNil
      /\ row'.mode = row.mode /\ row'.transport = row.transport
  BY UnmountFields
<1>2. Shape(row')
  BY <1>1, HostsAssumption, PathsAssumption DEF Shape, IsPublished, IsConnected, IsStaged, IsMounted,
     INITIAL, PUBLISHED, CONNECTED, STAGED, MOUNTED
<1>3. Lifecycle!Unmount(p)
  BY <1>1, HostsAssumption, PathsAssumption DEF Lifecycle!Unmount, Lifecycle!Climb, Lifecycle!INITIAL,
     Lifecycle!PUBLISHED, Lifecycle!CONNECTED, Lifecycle!STAGED, Lifecycle!MOUNTED,
     Shape, IsPublished, IsConnected, IsStaged, IsMounted,
     INITIAL, PUBLISHED, CONNECTED, STAGED, MOUNTED
<1> QED
  BY <1>2, <1>3

LEMMA UpdateFields ==
  ASSUME NEW r \in Volume, Shape(r), Exists(r),
         NEW u, u = Updates(r, ToUpdated(r))
  PROVE  /\ r.status \in Status /\ u.status = r.status
         /\ u.serverHost = r.serverHost /\ u.clientHost = r.clientHost
         /\ u.stagingPath = r.stagingPath /\ u.targetPaths = r.targetPaths
         /\ u.pathsNil = r.pathsNil /\ u.mode = r.mode
         /\ u.transport.type = r.transport.type /\ u.transport.target = NoHost
         /\ u.transport.initiator = NoHost
<1> DEFINE v == ToUpdated(r)
<1>1. v \in Volume /\ u = Updates(r, v)
  BY StoredType DEF Volume
<1>2. /\ v.status = r.status /\ v.serverHost = r.serverHost
      /\ v.clientHost = r.clientHost /\ v.stagingPath = r.stagingPath
      /\ v.targetPaths = r.targetPaths /\ v.pathsNil = r.pathsNil /\ v.mode = r.mode
      /\ v.transport.type = r.transport.type /\ v.transport.target = NoHost
      /\ v.transport.initiator = NoHost
  BY HostsAssumption, PathsAssumption DEF ToUpdated, Volume, Transport, NoTransport
<1> HIDE DEF v
<1>3. r.status \in Status
  BY Rungs DEF Volume, Shape
<1> QED
  BY <1>1, <1>2, <1>3, UpdatesFields

LEMMA UpdateCommits ==
  ASSUME row \in Volume, Shape(row), Exists(row),
         row' = Updates(row, ToUpdated(row))
  PROVE  Shape(row') /\ UNCHANGED Lifecycle!vars
<1>1. /\ row.status \in Status /\ row'.status = row.status
      /\ row'.serverHost = row.serverHost /\ row'.clientHost = row.clientHost
      /\ row'.stagingPath = row.stagingPath /\ row'.targetPaths = row.targetPaths
      /\ row'.pathsNil = row.pathsNil /\ row'.mode = row.mode
      /\ row'.transport.type = row.transport.type /\ row'.transport.target = NoHost
      /\ row'.transport.initiator = NoHost
  BY UpdateFields
<1>2. Shape(row')
  BY <1>1, HostsAssumption, PathsAssumption DEF Shape, IsPublished, IsConnected, IsStaged, IsMounted,
     INITIAL, PUBLISHED, CONNECTED, STAGED, MOUNTED
<1>3. UNCHANGED Lifecycle!vars
  BY <1>1, HostsAssumption, PathsAssumption DEF Lifecycle!vars,
     Shape, IsPublished, IsConnected, IsStaged, IsMounted,
     INITIAL, PUBLISHED, CONNECTED, STAGED, MOUNTED
<1> QED
  BY <1>2, <1>3

(* Whatever a fresh call commits is a rung of the ladder. *)
LEMMA MadeCommits ==
  ASSUME TypeOK, Shape(row), NEW k, k.op \in LockedOps, k.ready, Made(k, row),
         row' = Updates(row, k.v)
  PROVE  Shape(row') /\ Lifecycle!Next
<1>1. row \in Volume /\ Exists(row)
  BY DEF TypeOK, Made
<1>2. row.targetPaths \subseteq MountPaths
  BY <1>1 DEF Volume
<1>3. CASE k.op = "Publish"
  <2>1. PICK s \in Servers, t \in Transports : k.v = ToPublished(row, s, t)
    BY <1>3 DEF Made
  <2> QED
    BY <1>1, <1>3, <2>1, PublishCommits DEF Made, Lifecycle!Next
<1>4. CASE k.op = "Unpublish"
  BY <1>1, <1>4, UnpublishCommits DEF Made, Lifecycle!Next
<1>5. CASE k.op = "Connect"
  <2>1. PICK h \in Clients : k.v = ToConnected(row, h)
    BY <1>5 DEF Made
  <2> QED
    BY <1>1, <1>5, <2>1, ConnectCommits DEF Made, Lifecycle!Next
<1>6. CASE k.op = "Disconnect"
  BY <1>1, <1>6, DisconnectCommits DEF Made, Lifecycle!Next
<1>7. CASE k.op = "Stage"
  <2>1. PICK p \in StagingPaths : k.v = ToStaged(row, p)
    BY <1>7 DEF Made
  <2> QED
    BY <1>1, <1>7, <2>1, StageCommits DEF Made, Lifecycle!Next
<1>8. CASE k.op = "Unstage"
  BY <1>1, <1>8, UnstageCommits DEF Made, Lifecycle!Next
<1>9. CASE k.op = "Mount"
  <2>1. PICK p \in MountPaths \ row.targetPaths : k.v = ToMounted(row, p)
    BY <1>9 DEF Made
  <2> QED
    BY <1>1, <1>9, <2>1, MountCommits DEF Made, Lifecycle!Next
<1>10. CASE k.op = "Unmount"
  <2>1. PICK p \in row.targetPaths : k.v = ToUnmounted(row, p)
    BY <1>10 DEF Made
  <2> QED
    BY <1>1, <1>2, <1>10, <2>1, UnmountCommits DEF Made, Lifecycle!Next
<1> QED
  BY <1>3, <1>4, <1>5, <1>6, <1>7, <1>8, <1>9, <1>10 DEF LockedOps

LEMMA CreateOrDelete ==
  ASSUME row \in Volume, Shape(row),
         \/ /\ ~Exists(row)
            /\ \E m \in Modes, t \in AnyTransport, out \in Outputs :
                  out.targetPaths = {} /\ row' = NewVolume(m, t, out)
         \/ Exists(row) /\ ~IsPublished(row) /\ row' = NoVolume
  PROVE  Shape(row') /\ Lifecycle!Next
<1>1. CASE /\ ~Exists(row)
           /\ \E m \in Modes, t \in AnyTransport, out \in Outputs :
                 out.targetPaths = {} /\ row' = NewVolume(m, t, out)
  <2>1. Shape(row')
    BY <1>1, NoVolumeShape
  <2>2. /\ row.status = UNSPECIFIED /\ row'.status = INITIAL
        /\ row'.targetPaths = {}
    BY <1>1, Rungs DEF NewVolume
  <2>3. Lifecycle!Create
    BY <2>2 DEF Lifecycle!Create, Lifecycle!Climb, Lifecycle!UNSPECIFIED,
     Lifecycle!INITIAL, Shape, Exists, IsPublished, IsConnected, IsStaged, IsMounted,
     UNSPECIFIED, INITIAL, PUBLISHED, CONNECTED, STAGED, MOUNTED
  <2> QED
    BY <2>1, <2>3 DEF Lifecycle!Next
<1>2. CASE Exists(row) /\ ~IsPublished(row) /\ row' = NoVolume
  <2>1. Shape(row')
    BY <1>2, NoVolumeShape
  <2>2. /\ row.status = INITIAL /\ row'.status = UNSPECIFIED
        /\ row'.targetPaths = {}
    BY <1>2, Rungs DEF NoVolume, NewVolume, NoOutputs
  <2>3. Lifecycle!Delete
    BY <2>2 DEF Lifecycle!Delete, Lifecycle!Climb, Lifecycle!UNSPECIFIED,
     Lifecycle!INITIAL, Shape, Exists, IsPublished, IsConnected, IsStaged, IsMounted,
     UNSPECIFIED, INITIAL, PUBLISHED, CONNECTED, STAGED, MOUNTED
  <2> QED
    BY <2>1, <2>3 DEF Lifecycle!Next
<1> QED
  BY <1>1, <1>2

(* A handler makes its copy of the row it has read. *)
LEMMA AcceptFresh ==
  ASSUME TypeOK, SerialInv,
         NEW c \in Calls, NEW op \in Ops, NEW pc, NEW v, NEW at, NEW ready,
         Accept(c, op, pc, v, at, ready),
         Made([op |-> op, pc |-> pc, v |-> v, at |-> at, ready |-> ready], row)
  PROVE  SerialInv'
<1> DEFINE k == [op |-> op, pc |-> pc, v |-> v, at |-> at, ready |-> ready]
<1>1. /\ call' = [call EXCEPT ![c] = k] /\ row' = row
      /\ k.op = op /\ Made(k, row)
  BY DEF Accept
<1> HIDE DEF k
<1>2. call'[c] = k /\ \A d \in Calls \ {c} : call'[d] = call[d]
  BY <1>1 DEF TypeOK
<1>3. Fresh(c)'
  BY <1>1, <1>2 DEF Fresh
<1>4. \A d \in Calls \ {c} : Fresh(d)'
  BY <1>1, <1>2 DEF Fresh, SerialInv
<1> QED
  BY <1>1, <1>3, <1>4 DEF SerialInv

LEMMA RequestFresh ==
  ASSUME TypeOK, SerialInv, NEW c \in Calls, Request(c)
  PROVE  SerialInv'
<1> USE DEF Ops
<1>1. Exists(row)
  BY DEF Request, DeleteVolume, PublishVolume, UnpublishVolume, ConnectVolume,
     DisconnectVolume, StageVolume, UnstageVolume, MountVolume, UnmountVolume,
     UpdateVolume, Accept
<1>2. CASE DeleteVolume(c)
  <2>1. PICK pc : Accept(c, "Delete", pc, row, PlaceOf(row, NoPath), TRUE)
    BY <1>2 DEF DeleteVolume
  <2> QED
    BY <1>1, <1>2, <2>1, AcceptFresh DEF DeleteVolume, Made
<1>3. ASSUME NEW s \in Servers \cup {NoHost}, NEW t \in Transports, PublishVolume(c, s, t)
      PROVE  SerialInv'
  BY <1>1, <1>3, AcceptFresh DEF PublishVolume, Made
<1>4. CASE UnpublishVolume(c)
  BY <1>1, <1>4, AcceptFresh DEF UnpublishVolume, Made
<1>5. ASSUME NEW h \in Clients \cup {NoHost}, ConnectVolume(c, h)
      PROVE  SerialInv'
  BY <1>1, <1>5, AcceptFresh DEF ConnectVolume, Made
<1>6. CASE DisconnectVolume(c)
  BY <1>1, <1>6, AcceptFresh DEF DisconnectVolume, Made
<1>7. ASSUME NEW p \in StagingPaths, StageVolume(c, p)
      PROVE  SerialInv'
  BY <1>1, <1>7, AcceptFresh DEF StageVolume, Made
<1>8. CASE UnstageVolume(c)
  BY <1>1, <1>8, AcceptFresh DEF UnstageVolume, Made
<1>9. ASSUME NEW p \in MountPaths, MountVolume(c, p)
      PROVE  SerialInv'
  BY <1>1, <1>9, AcceptFresh DEF MountVolume, Made
<1>10. ASSUME NEW p \in MountPaths, UnmountVolume(c, p)
       PROVE  SerialInv'
  BY <1>1, <1>10, AcceptFresh DEF UnmountVolume, Made
<1>11. CASE UpdateVolume(c)
  BY <1>1, <1>11, AcceptFresh DEF UpdateVolume, Made
<1> QED
  BY <1>2, <1>3, <1>4, <1>5, <1>6, <1>7, <1>8, <1>9, <1>10, <1>11 DEF Request

(* A step of a call that leaves the row alone leaves the others' copies fresh,
   and its own if it does not go back to the write. *)
LEMMA GotoFresh ==
  ASSUME TypeOK, SerialInv, NEW c \in Calls, NEW pc \in Steps \ {"write"}, Goto(c, pc),
         row' = row, call[c].pc # "idle", call[c].op = "Update" => call[c].pc # "idle"
  PROVE  SerialInv'
<1>1. /\ \A d \in Calls \ {c} : call'[d] = call[d]
      /\ pc = "idle" => call'[c] = Idle
      /\ pc # "idle" => /\ call'[c].op = call[c].op /\ call'[c].v = call[c].v
                       /\ call'[c].at = call[c].at /\ call'[c].ready = call[c].ready
                       /\ call'[c].pc = pc
  BY GotoStep
<1>2. Fresh(c)'
  BY <1>1 DEF Fresh, SerialInv, Idle, Made
<1>3. \A d \in Calls \ {c} : Fresh(d)'
  BY <1>1 DEF Fresh, SerialInv
<1> QED
  BY <1>2, <1>3 DEF SerialInv

(* One that writes the row is the only call, and it is done with its copy. *)
LEMMA WriteFresh ==
  ASSUME OneCall, TypeOK, NEW c \in Calls, NEW pc \in Steps \ {"write"}, Goto(c, pc),
         pc # "idle" => call[c].op = "Update", Shape(row')
  PROVE  SerialInv'
<1>1. /\ pc = "idle" => call'[c] = Idle
      /\ pc # "idle" => call'[c].op = call[c].op /\ call'[c].pc = pc
  BY GotoStep
<1>2. Fresh(c)'
  BY <1>1 DEF Fresh, Idle
<1>3. \A d \in Calls : Fresh(d)'
  BY <1>2 DEF OneCall
<1> QED
  BY <1>3 DEF SerialInv

LEMMA StepsTaken ==
  ASSUME NEW cmd, NEW v, NEW w, NEW at, NEW op
  PROVE  /\ After(cmd, v, w, at) # "write"
         /\ First(op) \in Steps \ {"write"}
         /\ FirstOfUpdate(v) \in Steps \ {"write"}
BY DEF After, First, FirstOfUpdate, RescanOrAnswer, Steps, Commands, ZfsCommands,
   TargetCommands, SessionCommands, FsCommands, MountCommands

LEMMA SerialStep ==
  ASSUME OneCall, PathlessCreates, TypeOK, Course, SerialInv, [Next]_vars
  PROVE  SerialInv' /\ [Lifecycle!Next]_(Lifecycle!vars)
<1>1. row' = row => UNCHANGED Lifecycle!vars
  BY DEF Lifecycle!vars
<1>2. row \in Volume /\ Shape(row)
  BY DEF TypeOK, SerialInv
<1>3. ASSUME NEW m \in CreateModes, NEW t \in AnyTransport,
             NEW out \in CreateOutputs, CreateVolume(m, t, out)
      PROVE  SerialInv' /\ Lifecycle!Next
  <2>1. Shape(row') /\ Lifecycle!Next
    BY <1>2, <1>3, CreateOrDelete, RequestsAssumption, OutputsAssumption
       DEF CreateVolume, PathlessCreates
  <2>2. \A c \in Calls : Fresh(c)'
    BY <1>3 DEF CreateVolume, SerialInv, Fresh, Made
  <2> QED
    BY <2>1, <2>2 DEF SerialInv
<1>4. ASSUME NEW c \in Calls, Request(c)
      PROVE  SerialInv' /\ row' = row
  <2>1. row' = row
    BY <1>4 DEF Request, DeleteVolume, PublishVolume, UnpublishVolume, ConnectVolume,
       DisconnectVolume, StageVolume, UnstageVolume, MountVolume, UnmountVolume,
       UpdateVolume, Accept
  <2> QED
    BY <1>4, <2>1, RequestFresh
<1>5. ASSUME NEW c \in Calls, Begin(c)
      PROVE  SerialInv' /\ row' = row
  BY <1>5, GotoFresh, StepsTaken DEF Begin
<1>6. ASSUME NEW c \in Calls, WriteUpdate(c)
      PROVE  SerialInv' /\ UNCHANGED Lifecycle!vars
  <2>1. Made(call[c], row) /\ call[c].v = ToUpdated(row)
    BY <1>6 DEF WriteUpdate, SerialInv, Fresh, Made
  <2>2. Shape(row') /\ UNCHANGED Lifecycle!vars
    BY <1>2, <1>6, <2>1, UpdateCommits DEF WriteUpdate, Made
  <2> QED
    BY <1>6, <2>2, WriteFresh, StepsTaken DEF WriteUpdate
<1>7. ASSUME NEW c \in Calls,
             \/ NotReady(c) \/ LockTimeout(c) \/ CommandFails(c)
             \/ LoseCommand(c) \/ LoseAnswer(c)
      PROVE  SerialInv' /\ row' = row
  <2>1. /\ Goto(c, "idle") /\ row' = row
        /\ call[c].pc \in {"write", "delete", "commit"} \cup Commands
    BY <1>7 DEF NotReady, LockTimeout, CommandFails, LoseCommand, LoseAnswer, Fail
  <2>2. call[c].pc # "idle"
    BY <2>1 DEF Commands, ZfsCommands, TargetCommands, SessionCommands, FsCommands,
       MountCommands
  <2> QED
    BY <2>1, <2>2, GotoFresh DEF Steps
<1>8. ASSUME NEW c \in Calls, RunCommand(c)
      PROVE  SerialInv' /\ row' = row
  <2>1. /\ call[c].pc \in Commands /\ call[c].pc # "idle" /\ row' = row
        /\ Goto(c, After(call[c].pc, call[c].v, world, call[c].at))
    BY <1>8 DEF RunCommand, Commands, ZfsCommands, TargetCommands, SessionCommands,
       FsCommands, MountCommands
  <2>2. After(call[c].pc, call[c].v, world, call[c].at) \in Steps \ {"write"}
    BY <2>1, AfterStep, StepsTaken
  <2> QED
    BY <2>1, <2>2, GotoFresh
<1>9. ASSUME NEW c \in Calls, Commit(c)
      PROVE  SerialInv' /\ Lifecycle!Next
  <2>1. call[c].op \in LockedOps /\ call[c].ready
    BY <1>9 DEF Commit, Course, OnCourse, Accepted, Locked
  <2>2. Made(call[c], row)
    BY <1>9, <2>1 DEF Commit, SerialInv, Fresh, LockedOps
  <2>3. Shape(row') /\ Lifecycle!Next
    BY <1>2, <1>9, <2>1, <2>2, MadeCommits DEF Commit
  <2> QED
    BY <1>9, <2>3, WriteFresh DEF Commit, Steps
<1>10. ASSUME NEW c \in Calls, DeleteRow(c)
       PROVE  SerialInv' /\ Lifecycle!Next
  <2>1. call[c].op = "Delete"
    BY <1>10 DEF DeleteRow, Course, OnCourse, Accepted, Locked, LockedOps, InTransaction
  <2>2. Exists(row) /\ ~IsPublished(row)
    BY <1>10, <2>1 DEF DeleteRow, SerialInv, Fresh, Made
  <2>3. Shape(row') /\ Lifecycle!Next
    BY <1>2, <1>10, <2>2, CreateOrDelete DEF DeleteRow
  <2> QED
    BY <1>10, <2>3, WriteFresh DEF DeleteRow, Steps
<1>11. CASE Crash
  <2>1. \A c \in Calls : call'[c].pc = "idle"
    BY <1>11 DEF Crash, Idle
  <2>2. \A c \in Calls : Fresh(c)'
    BY <2>1 DEF Fresh
  <2>3. row' = row
    BY <1>11 DEF Crash
  <2>4. SerialInv'
    BY <1>2, <2>2, <2>3 DEF SerialInv
  <2> QED
    BY <1>1, <2>3, <2>4
<1>12. CASE UNCHANGED vars
  <2>1. \A c \in Calls : Fresh(c)'
    BY <1>12 DEF vars, SerialInv, Fresh
  <2>2. row' = row
    BY <1>12 DEF vars
  <2>3. SerialInv'
    BY <1>2, <2>1, <2>2 DEF SerialInv
  <2> QED
    BY <1>1, <2>2, <2>3
<1> QED
  BY <1>1, <1>3, <1>4, <1>5, <1>6, <1>7, <1>8, <1>9, <1>10, <1>11, <1>12
     DEF Next, Progress, Fault, Crash, vars

LEMMA SerialInit == Init => SerialInv /\ Lifecycle!Init
<1> SUFFICES ASSUME Init PROVE SerialInv /\ Lifecycle!Init
  OBVIOUS
<1>1. Shape(row)
  BY NoVolumeShape DEF Init
<1>2. \A c \in Calls : Fresh(c)
  BY DEF Init, Fresh, Idle
<1>3. Lifecycle!Init
  BY DEF Init, Lifecycle!Init, Lifecycle!UNSPECIFIED, NoVolume, NewVolume, NoOutputs, IsPublished,
     IsConnected, IsStaged, UNSPECIFIED, PUBLISHED, CONNECTED, STAGED
<1> QED
  BY <1>1, <1>2, <1>3 DEF SerialInv

(* When calls come one at a time, and no create names target paths, the columns of
   the row always suit its status, whatever fails: a published row names a server and a transport, a connected
   one a client, a staged one a path, and only a mounted one has target paths
   (Updates never clears a column, and the handlers of service_volume.go check
   the status alone). *)
THEOREM RowsSuitStatus == OneCall /\ PathlessCreates /\ Spec => []RowShape
<1> SUFFICES ASSUME OneCall, PathlessCreates PROVE Spec => []RowShape
  OBVIOUS
<1>1. TypeOK /\ Course /\ SerialInv /\ [Next]_vars => SerialInv'
  BY SerialStep
<1>2. SerialInv => RowShape
  BY ShapeIsRowShape DEF SerialInv
<1> QED
  BY <1>1, <1>2, SerialInit, TypeAndCourse, PTL DEF Spec

(* When calls come one at a time, and no create names target paths, VolumeService
   implements VolumeLifecycle: every commit of a handler is one rung of the ladder, and a failed command, a lost
   answer or a crash moves nothing. *)
THEOREM ServiceClimbsLadder == OneCall /\ PathlessCreates /\ Spec => ImplementsLifecycle
<1> SUFFICES ASSUME OneCall, PathlessCreates PROVE Spec => ImplementsLifecycle
  OBVIOUS
<1>1. TypeOK /\ Course /\ SerialInv /\ [Next]_vars
        => SerialInv' /\ [Lifecycle!Next]_(Lifecycle!vars)
  BY SerialStep
<1> QED
  BY <1>1, SerialInit, TypeAndCourse, PTL DEF Spec, ImplementsLifecycle, Lifecycle!Spec

-----------------------------------------------------------------------------
(* One writer.  With one call at a time every device that is mounted anywhere
   is the one the committed row names, whatever has failed before. *)

OnlyDevice(w, h, b) ==
  \A c \in Clients, p \in Paths : \A i \in DOMAIN w.mount[c][p] :
     w.mount[c][p][i].kind = "device" => c = h /\ w.mount[c][p][i] = b

NoDevice(w) ==
  \A c \in Clients, p \in Paths : \A i \in DOMAIN w.mount[c][p] :
     w.mount[c][p][i].kind # "device"

DeviceOf(r) == Device(r.serverHost, r.transport.type)

RowsDevice(r, w) ==
  IF IsConnected(r) THEN OnlyDevice(w, r.clientHost, DeviceOf(r)) ELSE NoDevice(w)

(* The service's logins all go through the data endpoint, so that its logouts
   find every session, also where a session is named by its portal. *)
DataPortals(w) == \A s \in w.session : s.type = "ISCSI" => s.portal = "data"

WritersInv ==
  /\ DataPortals(world)
  /\ RowsDevice(row, world)
  /\ \A c \in Calls : call[c].op = "Disconnect" /\ call[c].pc \in {"unauthorize", "commit"}
        => NoDevice(world)

(* The commands that leave the mounts, and those that leave the sessions. *)
LEMMA StillMounts ==
  ASSUME NEW w \in World, NEW at \in Place, NEW cmd \in Commands
  PROVE  /\ cmd \notin MountCommands \cup {"logout"} => Effect(cmd, w, at).mount = w.mount
         /\ cmd \notin {"login", "logout"} => Effect(cmd, w, at).session = w.session
<1>1. CASE cmd \in ZfsCommands
  BY <1>1, Wrapper DEF ZfsEffect, ZfsCommands, World
<1>2. CASE cmd \in TargetCommands
  <2>1. PICK x, y : \/ TargetEffect(cmd, w, at) = w
                    \/ TargetEffect(cmd, w, at) = [w EXCEPT !.target = x, !.acl = y]
                    \/ TargetEffect(cmd, w, at) = [w EXCEPT !.target = x]
                    \/ TargetEffect(cmd, w, at) = [w EXCEPT !.acl = y]
    <3>1. CASE cmd = "publish"
      BY <3>1 DEF TargetEffect
    <3>2. CASE cmd = "unpublish"
      BY <3>2 DEF TargetEffect
    <3>3. CASE cmd = "authorize"
      BY <3>3 DEF TargetEffect
    <3>4. CASE cmd = "unauthorize"
      BY <3>4 DEF TargetEffect
    <3> QED
      BY <1>2, <3>1, <3>2, <3>3, <3>4 DEF TargetCommands
  <2>2. /\ TargetEffect(cmd, w, at).mount = w.mount
        /\ TargetEffect(cmd, w, at).session = w.session
    BY <2>1 DEF World
  <2> QED
    BY <1>2, <2>2, Wrapper
<1>3. CASE cmd \in SessionCommands
  BY <1>3, Wrapper DEF SessionEffect, SessionCommands, World
<1>4. CASE cmd \in FsCommands
  <2>1. PICK x, y : \/ FsEffect(cmd, w, at) = w
                    \/ FsEffect(cmd, w, at) = [w EXCEPT !.zvol = x, !.overwritten = y]
    BY DEF FsEffect
  <2>2. /\ FsEffect(cmd, w, at).mount = w.mount
        /\ FsEffect(cmd, w, at).session = w.session
    BY <2>1 DEF World
  <2> QED
    BY <1>4, <2>2, Wrapper
<1>5. CASE cmd \in MountCommands
  <2>1. \A c, p, b : /\ Push(w, c, p, b).session = w.session
                     /\ Pop(w, c, p).session = w.session
    BY DEF Push, Pop, World
  <2> QED
    BY <1>5, <2>1, Wrapper DEF MountEffect, MountCommands
<1> QED
  BY <1>1, <1>2, <1>3, <1>4, <1>5 DEF Commands

LEMMA PopMounts ==
  ASSUME NEW w \in World, NEW c \in Clients, NEW p \in Paths
  PROVE  /\ Pop(w, c, p).mount[c][p] = Tail(w.mount[c][p])
         /\ \A d \in Clients, q \in Paths :
               d # c \/ q # p => Pop(w, c, p).mount[d][q] = w.mount[d][q]
BY DEF Pop, World

LEMMA PushDevice ==
  ASSUME NEW w \in World, NEW c \in Clients, NEW p \in Paths, NEW e \in Backing,
         NEW h, NEW b, OnlyDevice(w, h, b), e.kind = "device" => c = h /\ e = b
  PROVE  OnlyDevice(Push(w, c, p, e), h, b)
<1> DEFINE m == Push(w, c, p, e).mount
<1> SUFFICES ASSUME NEW d \in Clients, NEW q \in Paths, NEW i \in DOMAIN m[d][q],
                    m[d][q][i].kind = "device"
             PROVE  d = h /\ m[d][q][i] = b
  BY DEF OnlyDevice
<1>1. w.mount[c][p] \in Seq(Backing)
  BY DEF World
<1>2. /\ m[c][p] = <<e>> \o w.mount[c][p]
      /\ d # c \/ q # p => m[d][q] = w.mount[d][q]
  <2>1. m[c][p] = <<e>> \o w.mount[c][p]
    BY DEF Push, World
  <2>2. d # c \/ q # p => m[d][q] = w.mount[d][q]
    BY DEF Push, World
  <2> QED
    BY <2>1, <2>2
<1> HIDE DEF m
<1>3. CASE d = c /\ q = p
  <2>1. i \in 1..(Len(w.mount[c][p]) + 1)
    BY <1>1, <1>2, <1>3
  <2>2. CASE i = 1
    <3>1. m[d][q][i] = e
      BY <1>1, <1>2, <1>3, <2>2
    <3> QED
      BY <1>3, <3>1
  <2>3. CASE i # 1
    <3>1. /\ i - 1 \in DOMAIN w.mount[c][p]
          /\ m[d][q][i] = w.mount[c][p][i - 1]
      BY <1>1, <1>2, <1>3, <2>1, <2>3
    <3> QED
      BY <1>3, <3>1 DEF OnlyDevice
  <2> QED
    BY <2>2, <2>3
<1>4. CASE d # c \/ q # p
  BY <1>2, <1>4 DEF OnlyDevice
<1> QED
  BY <1>3, <1>4

LEMMA PopDevice ==
  ASSUME NEW w \in World, NEW c \in Clients, NEW p \in Paths, w.mount[c][p] # <<>>,
         NEW h, NEW b, OnlyDevice(w, h, b)
  PROVE  OnlyDevice(Pop(w, c, p), h, b)
<1> DEFINE m == Pop(w, c, p).mount
<1> SUFFICES ASSUME NEW d \in Clients, NEW q \in Paths, NEW i \in DOMAIN m[d][q],
                    m[d][q][i].kind = "device"
             PROVE  d = h /\ m[d][q][i] = b
  BY DEF OnlyDevice
<1>1. w.mount[c][p] \in Seq(Backing)
  BY DEF World
<1>2. /\ m[c][p] = Tail(w.mount[c][p])
      /\ d # c \/ q # p => m[d][q] = w.mount[d][q]
  BY PopMounts
<1> HIDE DEF m
<1>3. CASE d = c /\ q = p
  <2>1. \A s \in Seq(Backing) : \A j \in DOMAIN Tail(s) :
           s # <<>> => j + 1 \in DOMAIN s /\ Tail(s)[j] = s[j + 1]
    OBVIOUS
  <2>2. /\ i + 1 \in DOMAIN w.mount[c][p]
        /\ m[d][q][i] = w.mount[c][p][i + 1]
    BY <1>1, <1>2, <1>3, <2>1
  <2> QED
    BY <1>3, <2>2 DEF OnlyDevice
<1>4. CASE d # c \/ q # p
  BY <1>2, <1>4 DEF OnlyDevice
<1> QED
  BY <1>3, <1>4

(* A logout closes every session with the target, so that the client's mounts
   of its device are dead. *)
LEMMA LogoutMounts ==
  ASSUME NEW w \in World, NEW at \in Place, DataPortals(w),
         at.type = "ISCSI" => at.portal = "data"
  PROVE  /\ CloseSessions(w, at).session = w.session \ SessionsAt(w, at)
         /\ CloseSessions(w, at).target = w.target
         /\ CloseSessions(w, at).acl = w.acl
         /\ \A d \in Clients, q \in Paths :
               CloseSessions(w, at).mount[d][q]
                 = IF d = at.client
                   THEN [i \in DOMAIN w.mount[d][q] |->
                           IF w.mount[d][q][i] = Device(at.server, at.type)
                           THEN Dead ELSE w.mount[d][q][i]]
                   ELSE w.mount[d][q]
<1> DEFINE left == [w EXCEPT !.session = w.session \ SessionsAt(w, at)]
           b == Device(at.server, at.type)
           Shut(s) == [i \in DOMAIN s |->
                         IF s[i] = b /\ ~LoggedIn(left, at) THEN Dead ELSE s[i]]
           m == [w.mount EXCEPT ![at.client] = [p \in Paths |-> Shut(w.mount[at.client][p])]]
<1>1. /\ left.session = w.session \ SessionsAt(w, at)
      /\ left.target = w.target /\ left.acl = w.acl
      /\ left.mount = w.mount /\ left \in World
  BY DEF World
<1>2. ~LoggedIn(left, at)
  BY <1>1 DEF LoggedIn, SessionsAt, DataPortals
<1>3. CloseSessions(w, at) = [left EXCEPT !.mount = m]
  BY <1>1 DEF CloseSessions
<1>4. w.mount \in [Clients -> [Paths -> Seq(Backing)]]
  BY DEF World
<1>5. ASSUME NEW d \in Clients, NEW q \in Paths
      PROVE  m[d][q] = IF d = at.client THEN Shut(w.mount[d][q]) ELSE w.mount[d][q]
  BY <1>4
<1>6. \A s : Shut(s) = [i \in DOMAIN s |-> IF s[i] = b THEN Dead ELSE s[i]]
  BY <1>2
<1> HIDE DEF left, m, Shut, b
<1>7. /\ CloseSessions(w, at).mount = m
      /\ CloseSessions(w, at).session = left.session
      /\ CloseSessions(w, at).target = left.target
      /\ CloseSessions(w, at).acl = left.acl
  BY <1>1, <1>3 DEF World
<1>8. ASSUME NEW d \in Clients, NEW q \in Paths
      PROVE  CloseSessions(w, at).mount[d][q]
                 = IF d = at.client
                   THEN [i \in DOMAIN w.mount[d][q] |->
                           IF w.mount[d][q][i] = b THEN Dead ELSE w.mount[d][q][i]]
                   ELSE w.mount[d][q]
  BY <1>5, <1>6, <1>7
<1> QED
  BY <1>1, <1>7, <1>8 DEF b

LEMMA LogoutDevice ==
  ASSUME NEW w \in World, NEW at \in Place, DataPortals(w),
         at.type = "ISCSI" => at.portal = "data",
         OnlyDevice(w, at.client, Device(at.server, at.type))
  PROVE  NoDevice(CloseSessions(w, at)) /\ DataPortals(CloseSessions(w, at))
<1> DEFINE b == Device(at.server, at.type)
           x == CloseSessions(w, at)
<1>1. /\ x.session = w.session \ SessionsAt(w, at)
      /\ \A d \in Clients, q \in Paths :
            x.mount[d][q] = IF d = at.client
                            THEN [i \in DOMAIN w.mount[d][q] |->
                                    IF w.mount[d][q][i] = b THEN Dead ELSE w.mount[d][q][i]]
                            ELSE w.mount[d][q]
  BY LogoutMounts
<1> HIDE DEF x, b
<1>2. ASSUME NEW d \in Clients, NEW q \in Paths, NEW i \in DOMAIN x.mount[d][q]
      PROVE  x.mount[d][q][i].kind # "device"
  <2>1. CASE d = at.client
    <3>0. x.mount[d][q] = [j \in DOMAIN w.mount[d][q] |->
                             IF w.mount[d][q][j] = b THEN Dead ELSE w.mount[d][q][j]]
      BY <1>1, <2>1
    <3>1. /\ i \in DOMAIN w.mount[d][q]
          /\ x.mount[d][q][i] = IF w.mount[d][q][i] = b THEN Dead ELSE w.mount[d][q][i]
      BY <1>2, <3>0
    <3>2. w.mount[d][q][i].kind = "device" => w.mount[d][q][i] = b
      BY <3>1 DEF OnlyDevice, b
    <3> QED
      BY <3>1, <3>2 DEF Dead
  <2>2. CASE d # at.client
    BY <1>1, <1>2, <2>2 DEF OnlyDevice
  <2> QED
    BY <2>1, <2>2
<1> QED
  BY <1>1, <1>2 DEF NoDevice, DataPortals, x

(* Where a fresh call runs its commands: at the data endpoint, and above the
   rung of Connect on the hosts that the row names. *)
LEMMA MadePlace ==
  ASSUME NEW r \in Volume, Shape(r), NEW k, k.op \in Ops, Made(k, r)
  PROVE  /\ k.at.portal = "data"
         /\ k.op \in {"Disconnect", "Stage", "Unstage", "Mount", "Unmount"}
               => /\ IsConnected(r)
                  /\ k.at.client = r.clientHost /\ k.at.server = r.serverHost
                  /\ k.at.type = r.transport.type
<1>1. k.at.portal = "data"
  <2>1. \A v, p : PlaceOf(v, p).portal = "data"
    BY DEF PlaceOf
  <2>2. \E v, p : k.at = PlaceOf(v, p)
    BY DEF Made, Ops
  <2> QED
    BY <2>1, <2>2
<1>2. ASSUME k.op \in {"Disconnect", "Stage", "Unstage", "Mount", "Unmount"}
      PROVE  IsConnected(r)
  BY <1>2 DEF Made, Shape, IsConnected, IsStaged, IsMounted, CONNECTED, STAGED, MOUNTED, Volume, Status, UNSPECIFIED
<1>3. CASE k.op \in {"Disconnect", "Unstage"}
  BY <1>1, <1>2, <1>3 DEF Made, PlaceOf
<1>4. CASE k.op = "Stage"
  <2>1. PICK p \in StagingPaths : k.at = PlaceOf(ToStaged(r, p), NoPath)
    BY <1>4 DEF Made
  <2> QED
    BY <1>1, <1>2, <1>4, <2>1 DEF PlaceOf, ToStaged, Volume
<1>5. CASE k.op = "Mount"
  <2>1. PICK p \in MountPaths : k.at = PlaceOf(ToMounted(r, p), p)
    BY <1>5 DEF Made
  <2> QED
    BY <1>1, <1>2, <1>5, <2>1 DEF PlaceOf, ToMounted, Volume
<1>6. CASE k.op = "Unmount"
  <2>1. PICK p \in r.targetPaths : k.at = PlaceOf(ToUnmounted(r, p), p)
    BY <1>6 DEF Made
  <2> QED
    BY <1>1, <1>2, <1>6, <2>1 DEF PlaceOf, ToUnmounted, Volume
<1> QED
  BY <1>1, <1>3, <1>4, <1>5, <1>6

LEMMA CommandWriters ==
  ASSUME TypeOK, Course, SerialInv, WritersInv,
         NEW c \in Calls, call[c].pc \in Commands,
         Succeeds(call[c].pc, world, call[c].at),
         NEW w, w = Effect(call[c].pc, world, call[c].at)
  PROVE  /\ DataPortals(w)
         /\ RowsDevice(row, w)
         /\ call[c].op = "Disconnect" /\ call[c].pc \in {"logout", "unauthorize"}
               => NoDevice(w)
<1> DEFINE k == call[c]
<1>1. /\ k \in Call /\ world \in World /\ row \in Volume
      /\ k.at \in Place
  BY DEF TypeOK, Call
<1>2. \/ k.op = "Update" /\ k.pc \in {"zfsSet", "rescan", "resize"}
      \/ k.op = "Delete" /\ k.pc = "zfsDestroy"
      \/ k.op \in LockedOps /\ k.pc \in InTransaction(k.op) /\ Named(k.op, k.at)
  BY CommandCourse DEF Locked
<1>3. k.pc # "idle" /\ (k.op # "Update" => k.op \in Ops /\ Made(k, row))
  BY DEF SerialInv, Fresh, Commands, ZfsCommands, TargetCommands, SessionCommands,
     FsCommands, MountCommands
<1>4. k.op # "Update" =>
        /\ k.at.portal = "data"
        /\ k.op \in {"Disconnect", "Stage", "Unstage", "Mount", "Unmount"}
              => /\ IsConnected(row)
                 /\ k.at.client = row.clientHost /\ k.at.server = row.serverHost
                 /\ k.at.type = row.transport.type
  BY <1>1, <1>3, MadePlace DEF SerialInv
<1>5. /\ k.pc \in Commands /\ Succeeds(k.pc, world, k.at)
      /\ w = Effect(k.pc, world, k.at)
  OBVIOUS
<1>6. k.op = "Disconnect" /\ k.pc = "unauthorize" => NoDevice(world)
  BY DEF WritersInv
<1> HIDE DEF k
<1>7. k.pc \notin MountCommands \cup {"logout"} => w.mount = world.mount
  BY <1>1, <1>5, StillMounts
<1>8. k.pc \notin {"login", "logout"} => w.session = world.session
  BY <1>1, <1>5, StillMounts
<1>9. CASE k.pc = "logout"
  <2>1. k.op = "Disconnect"
    BY <1>2, <1>9 DEF LockedOps, InTransaction
  <2>2. OnlyDevice(world, k.at.client, Device(k.at.server, k.at.type))
    BY <1>4, <2>1 DEF WritersInv, RowsDevice, DeviceOf
  <2>3. w = CloseSessions(world, k.at)
    BY <1>5, <1>9, Wrapper DEF SessionCommands, SessionEffect
  <2>4. NoDevice(w) /\ DataPortals(w)
    BY <1>1, <1>4, <2>1, <2>2, <2>3, LogoutDevice DEF WritersInv
  <2> QED
    BY <2>4 DEF RowsDevice, OnlyDevice, NoDevice
<1>10. CASE k.pc = "login"
  <2>1. k.op = "Connect"
    BY <1>2, <1>10 DEF LockedOps, InTransaction
  <2>2. w.session = world.session \cup
          {[client |-> k.at.client, server |-> k.at.server,
            type |-> k.at.type, portal |-> k.at.portal]}
    BY <1>1, <1>5, <1>10, Wrapper DEF SessionCommands, SessionEffect, World
  <2>3. w.mount = world.mount
    BY <1>7, <1>10 DEF MountCommands
  <2>4. DataPortals(w)
    BY <1>4, <2>1, <2>2 DEF WritersInv, DataPortals
  <2>5. RowsDevice(row, w)
    BY <2>3 DEF WritersInv, RowsDevice, OnlyDevice, NoDevice
  <2> QED
    BY <2>1, <2>4, <2>5 DEF k
<1>11. CASE k.pc \in MountCommands
  <2>1. /\ k.op \in {"Stage", "Unstage", "Mount", "Unmount"}
        /\ k.pc = "bind" => k.op = "Mount" /\ k.at.staging \in StagingPaths
        /\ k.pc = "umountStaging" => k.op = "Unstage" /\ k.at.staging \in StagingPaths
        /\ k.pc = "mount" => k.op = "Stage"
        /\ k.pc = "umountTarget" => k.op = "Unmount"
    BY <1>2, <1>11 DEF LockedOps, InTransaction, MountCommands, Named
  <2>2. /\ MountSucceeds(k.pc, world, k.at)
        /\ w = MountEffect(k.pc, world, k.at)
    BY <1>5, <1>11, Wrapper
  <2>3. IsConnected(row) /\ OnlyDevice(world, row.clientHost, DeviceOf(row))
    BY <1>4, <2>1 DEF WritersInv, RowsDevice
  <2>4. k.at.client = row.clientHost /\ Device(k.at.server, k.at.type) = DeviceOf(row)
    BY <1>4, <2>1 DEF DeviceOf
  <2>5. row.clientHost \in Clients
    BY <1>1, <2>3 DEF SerialInv, Shape, Volume
  <2>6. OnlyDevice(w, row.clientHost, DeviceOf(row))
    <3>1. CASE k.pc = "mount"
      <4>1. k.at.staging \in StagingPaths
        <5>1. Made(k, row)
          BY <1>3, <2>1, <3>1
        <5>2. PICK p \in StagingPaths : k.v = ToStaged(row, p) /\ k.at = PlaceOf(k.v, NoPath)
          BY <2>1, <3>1, <5>1 DEF Made
        <5> QED
          BY <1>1, <5>2 DEF PlaceOf, ToStaged, Volume
      <4>2. w = Push(world, row.clientHost, k.at.staging, DeviceOf(row))
        BY <2>2, <2>4, <3>1 DEF MountEffect
      <4>3. DeviceOf(row) \in Backing
        BY <1>1 DEF DeviceOf, Device, Backing, Volume, Transport
      <4> QED
        BY <1>1, <2>3, <2>5, <4>1, <4>2, <4>3, PushDevice DEF Paths
    <3>2. CASE k.pc = "bind"
      <4> DEFINE e == ShownAt(world, row.clientHost, k.at.staging)
                 s == world.mount[row.clientHost][k.at.staging]
      <4>1. k.at.staging \in Paths
        BY <2>1, <3>2 DEF Paths
      <4>2. s \in Seq(Backing)
        BY <1>1, <2>5, <4>1 DEF World
      <4>3. \A q \in Seq(Backing) : q # <<>> => 1 \in DOMAIN q /\ Head(q) = q[1] /\ Head(q) \in Backing
        OBVIOUS
      <4>4. e = PlainDir \/ (e \in Backing /\ 1 \in DOMAIN s /\ e = s[1])
        BY <4>2, <4>3 DEF ShownAt
      <4>5. PlainDir \in Backing /\ PlainDir.kind # "device"
        BY DEF PlainDir, Backing
      <4>6. e.kind = "device" => e = DeviceOf(row)
        BY <2>3, <2>5, <4>1, <4>4, <4>5 DEF OnlyDevice
      <4>7. k.at.path \in Paths
        <5>1. Made(k, row)
          BY <1>3, <2>1, <3>2
        <5>2. PICK p \in MountPaths : k.at = PlaceOf(k.v, p)
          BY <2>1, <3>2, <5>1 DEF Made
        <5> QED
          BY <5>2 DEF PlaceOf, Paths
      <4>8. w = Push(world, row.clientHost, k.at.path, e)
        BY <2>2, <2>4, <3>2 DEF MountEffect
      <4> HIDE DEF e, s
      <4> QED
        BY <1>1, <2>3, <2>5, <4>4, <4>5, <4>6, <4>7, <4>8, PushDevice
    <3>3. CASE k.pc = "umountStaging"
      <4>1. /\ k.at.staging \in Paths
            /\ world.mount[row.clientHost][k.at.staging] # <<>>
            /\ w = Pop(world, row.clientHost, k.at.staging)
        BY <2>1, <2>2, <2>4, <3>3 DEF MountSucceeds, MountEffect, Paths
      <4> QED
        BY <1>1, <2>3, <2>5, <4>1, PopDevice
    <3>4. CASE k.pc = "umountTarget"
      <4>1. k.at.path \in Paths
        <5>1. Made(k, row)
          BY <1>3, <2>1, <3>4
        <5>2. PICK p \in row.targetPaths : k.at = PlaceOf(k.v, p)
          BY <2>1, <3>4, <5>1 DEF Made
        <5> QED
          BY <1>1, <5>2 DEF PlaceOf, Paths, Volume
      <4>2. /\ world.mount[row.clientHost][k.at.path] # <<>>
            /\ w = Pop(world, row.clientHost, k.at.path)
        BY <2>2, <2>4, <3>4 DEF MountSucceeds, MountEffect
      <4> QED
        BY <1>1, <2>3, <2>5, <4>1, <4>2, PopDevice
    <3> QED
      BY <1>11, <3>1, <3>2, <3>3, <3>4 DEF MountCommands
  <2>7. w.session = world.session
    BY <1>8, <1>11 DEF MountCommands
  <2> QED
    BY <2>1, <2>3, <2>6, <2>7 DEF WritersInv, DataPortals, RowsDevice, k
<1>12. CASE k.pc \notin MountCommands \cup {"login", "logout"}
  <2>1. w.mount = world.mount /\ w.session = world.session
    BY <1>7, <1>8, <1>12
  <2> QED
    BY <1>6, <1>12, <2>1 DEF WritersInv, DataPortals, RowsDevice, OnlyDevice, NoDevice, k
<1> QED
  BY <1>9, <1>10, <1>11, <1>12 DEF k

(* A write of the row that keeps the rung of Connect and the device. *)
LEMMA SameDevice ==
  ASSUME WritersInv,
         \/ row' = row
         \/ /\ IsConnected(row') <=> IsConnected(row)
            /\ row'.clientHost = row.clientHost
            /\ DeviceOf(row') = DeviceOf(row)
  PROVE  RowsDevice(row', world)
<1>1. RowsDevice(row, world)
  BY DEF WritersInv
<1>2. CASE row' = row
  BY <1>1, <1>2
<1>3. CASE ~IsConnected(row)
  BY <1>1, <1>2, <1>3 DEF RowsDevice
<1>4. CASE IsConnected(row) /\ row' # row
  <2>1. IsConnected(row') /\ row'.clientHost = row.clientHost /\ DeviceOf(row') = DeviceOf(row)
    BY <1>4
  <2>2. OnlyDevice(world, row.clientHost, DeviceOf(row))
    BY <1>1, <1>4 DEF RowsDevice
  <2> QED
    BY <2>1, <2>2 DEF RowsDevice
<1> QED
  BY <1>2, <1>3, <1>4

LEMMA CommitWriters ==
  ASSUME TypeOK, SerialInv, WritersInv, NEW c \in Calls, call[c].pc = "commit",
         call[c].op \in LockedOps, call[c].ready, row' = Updates(row, call[c].v)
  PROVE  RowsDevice(row', world)
<1> DEFINE k == call[c]
<1>1. row \in Volume /\ Shape(row) /\ Made(k, row) /\ Exists(row) /\ row' = Updates(row, k.v)
  BY DEF TypeOK, SerialInv, Fresh, LockedOps, Made
<1> USE DEF IsPublished, IsConnected, IsStaged, IsMounted, INITIAL, PUBLISHED, CONNECTED,
            STAGED, MOUNTED
<1>2. ~IsConnected(row) => RowsDevice(row', world)
  BY DEF WritersInv, RowsDevice, OnlyDevice, NoDevice
<1>3. CASE k.op \in {"Publish", "Unpublish", "Connect"}
  BY <1>1, <1>2, <1>3 DEF Made, Volume, Status, UNSPECIFIED
<1>4. CASE k.op = "Disconnect"
  <2>1. row'.status = PUBLISHED
    BY <1>1, <1>4, DisconnectFields DEF Made
  <2> QED
    BY <1>4, <2>1 DEF WritersInv, RowsDevice
<1>5. CASE k.op = "Stage"
  <2>1. PICK p \in StagingPaths : k.v = ToStaged(row, p)
    BY <1>1, <1>5 DEF Made
  <2> QED
    BY <1>1, <1>5, <2>1, StageFields, SameDevice DEF Made, DeviceOf
<1>6. CASE k.op = "Unstage"
  BY <1>1, <1>6, UnstageFields, SameDevice DEF Made, DeviceOf
<1>7. CASE k.op = "Mount"
  <2>1. PICK p \in MountPaths \ row.targetPaths : k.v = ToMounted(row, p)
    BY <1>1, <1>7 DEF Made
  <2> QED
    BY <1>1, <1>7, <2>1, MountFields, SameDevice DEF Made, DeviceOf
<1>8. CASE k.op = "Unmount"
  <2>1. PICK p \in row.targetPaths : k.v = ToUnmounted(row, p)
    BY <1>1, <1>8 DEF Made
  <2> QED
    BY <1>1, <1>8, <2>1, UnmountFields, SameDevice DEF DeviceOf
<1> HIDE DEF k
<1> QED
  BY <1>3, <1>4, <1>5, <1>6, <1>7, <1>8 DEF LockedOps, k

(* The steps that leave the world alone and do not move a call into the end of
   a disconnection. *)
LEMMA WritersKept ==
  ASSUME WritersInv, UNCHANGED world, RowsDevice(row', world),
         \A c \in Calls : call'[c].op = "Disconnect" /\ call'[c].pc \in {"unauthorize", "commit"}
            => call'[c] = call[c]
  PROVE  WritersInv'
<1>1. DataPortals(world)' /\ RowsDevice(row, world)'
  BY DEF WritersInv, DataPortals, RowsDevice, OnlyDevice, NoDevice
<1>2. \A c \in Calls : call'[c].op = "Disconnect" /\ call'[c].pc \in {"unauthorize", "commit"}
        => NoDevice(world)'
  BY DEF WritersInv, NoDevice
<1> QED
  BY <1>1, <1>2 DEF WritersInv

LEMMA RequestAccepts ==
  ASSUME NEW c \in Calls, Request(c)
  PROVE  \E op, v, at, ready, pc :
            Accept(c, op, pc, v, at, ready) /\ pc \in {"write", "zfsDestroy", "delete"}
<1>1. CASE DeleteVolume(c)
  BY <1>1 DEF DeleteVolume
<1>2. CASE \E s \in Servers \cup {NoHost}, t \in Transports : PublishVolume(c, s, t)
  BY <1>2 DEF PublishVolume
<1>3. CASE UnpublishVolume(c)
  BY <1>3 DEF UnpublishVolume
<1>4. CASE \E h \in Clients \cup {NoHost} : ConnectVolume(c, h)
  BY <1>4 DEF ConnectVolume
<1>5. CASE DisconnectVolume(c)
  BY <1>5 DEF DisconnectVolume
<1>6. CASE \E p \in StagingPaths : StageVolume(c, p)
  BY <1>6 DEF StageVolume
<1>7. CASE UnstageVolume(c)
  BY <1>7 DEF UnstageVolume
<1>8. CASE \E p \in MountPaths : MountVolume(c, p)
  BY <1>8 DEF MountVolume
<1>9. CASE \E p \in MountPaths : UnmountVolume(c, p)
  BY <1>9 DEF UnmountVolume
<1>10. CASE UpdateVolume(c)
  BY <1>10 DEF UpdateVolume
<1> QED
  BY <1>1, <1>2, <1>3, <1>4, <1>5, <1>6, <1>7, <1>8, <1>9, <1>10 DEF Request

LEMMA WritersStep ==
  ASSUME OneCall, TypeOK, Course, SerialInv, WritersInv, [Next]_vars
  PROVE  WritersInv'
<1>1. row' = row => RowsDevice(row', world)
  BY DEF WritersInv
<1>2. ASSUME NEW m \in CreateModes, NEW t \in AnyTransport,
             NEW out \in CreateOutputs, CreateVolume(m, t, out)
      PROVE  WritersInv'
  <2>1. RowsDevice(row', world)
    BY <1>2 DEF CreateVolume, WritersInv, RowsDevice, Exists, IsConnected, NewVolume,
       UNSPECIFIED, INITIAL, CONNECTED, TypeOK, Volume, Status
  <2> QED
    BY <1>2, <2>1, WritersKept DEF CreateVolume
<1>3. ASSUME NEW c \in Calls, Request(c)
      PROVE  WritersInv'
  <2>1. PICK op, v, at, ready, pc :
           Accept(c, op, pc, v, at, ready) /\ pc \in {"write", "zfsDestroy", "delete"}
    BY <1>3, RequestAccepts
  <2>2. /\ UNCHANGED <<row, world>>
        /\ call'[c].pc = pc
        /\ \A d \in Calls \ {c} : call'[d] = call[d]
    BY <2>1 DEF Accept, TypeOK
  <2> QED
    BY <1>1, <2>1, <2>2, WritersKept
<1>4. ASSUME NEW c \in Calls, NEW pc \in Steps, Goto(c, pc), UNCHANGED world,
             RowsDevice(row', world),
             ~(call[c].op = "Disconnect" /\ pc \in {"unauthorize", "commit"})
      PROVE  WritersInv'
  <2>1. /\ \A d \in Calls \ {c} : call'[d] = call[d]
        /\ pc = "idle" => call'[c] = Idle
        /\ pc # "idle" => call'[c].op = call[c].op /\ call'[c].pc = pc
    BY <1>4, GotoStep
  <2> QED
    BY <1>4, <2>1, WritersKept DEF Idle
<1>5. ASSUME NEW c \in Calls, Begin(c)
      PROVE  WritersInv'
  <2>1. First(call[c].op) \in Steps /\ First("Disconnect") = "logout"
    BY StepsTaken DEF First
  <2> QED
    BY <1>1, <1>4, <1>5, <2>1 DEF Begin
<1>6. ASSUME NEW c \in Calls, WriteUpdate(c)
      PROVE  WritersInv'
  <2>1. /\ Made(call[c], row) /\ row' = Updates(row, ToUpdated(row))
        /\ row \in Volume /\ Shape(row) /\ Exists(row)
    BY <1>6 DEF WriteUpdate, SerialInv, Fresh, Made, TypeOK
  <2>2. RowsDevice(row', world)
    BY <2>1, UpdateFields, SameDevice DEF DeviceOf, IsConnected
  <2> QED
    BY <1>4, <1>6, <2>2, StepsTaken DEF WriteUpdate
<1>7. ASSUME NEW c \in Calls, NotReady(c) \/ LockTimeout(c) \/ CommandFails(c) \/ LoseCommand(c)
      PROVE  WritersInv'
  BY <1>1, <1>4, <1>7 DEF NotReady, LockTimeout, CommandFails, LoseCommand, Fail, Steps
<1>8. ASSUME NEW c \in Calls, LoseAnswer(c) \/ RunCommand(c)
      PROVE  WritersInv'
  <2>1. /\ call[c].pc \in Commands /\ Succeeds(call[c].pc, world, call[c].at)
        /\ world' = Effect(call[c].pc, world, call[c].at)
        /\ row' = row
    BY <1>8 DEF LoseAnswer, RunCommand, Fail
  <2>2. /\ DataPortals(world')
        /\ RowsDevice(row, world')
        /\ call[c].op = "Disconnect" /\ call[c].pc \in {"logout", "unauthorize"}
              => NoDevice(world')
    BY <2>1, CommandWriters
  <2>3. PICK pc \in {"idle", After(call[c].pc, call[c].v, world, call[c].at)} : Goto(c, pc)
    BY <1>8 DEF LoseAnswer, RunCommand, Fail
  <2>4. pc \in Steps
    BY <2>1, <2>3, AfterStep DEF Steps
  <2>5. /\ \A d \in Calls : d = c
        /\ pc = "idle" => call'[c] = Idle
        /\ pc # "idle" => call'[c].op = call[c].op /\ call'[c].pc = pc
    BY <2>3, <2>4, GotoStep DEF OneCall
  <2>6. call[c].op = "Disconnect" => call[c].pc \in {"logout", "unauthorize"}
    BY <2>1, CommandCourse DEF Locked, InTransaction, Commands, ZfsCommands, TargetCommands,
       SessionCommands, FsCommands, MountCommands
  <2>7. \A d \in Calls : call'[d].op = "Disconnect" /\ call'[d].pc \in {"unauthorize", "commit"}
           => NoDevice(world')
    BY <2>2, <2>5, <2>6 DEF Idle
  <2> QED
    BY <2>1, <2>2, <2>7 DEF WritersInv
<1>9. ASSUME NEW c \in Calls, Commit(c)
      PROVE  WritersInv'
  <2>1. call[c].op \in LockedOps /\ call[c].ready
    BY <1>9 DEF Commit, Course, OnCourse, Accepted, Locked
  <2>2. RowsDevice(row', world)
    BY <1>9, <2>1, CommitWriters DEF Commit
  <2> QED
    BY <1>4, <1>9, <2>2 DEF Commit, Steps
<1>10. ASSUME NEW c \in Calls, DeleteRow(c)
       PROVE  WritersInv'
  <2>1. call[c].op = "Delete"
    BY <1>10 DEF DeleteRow, Course, OnCourse, Accepted, Locked, LockedOps, InTransaction
  <2>2. ~IsPublished(row) /\ row \in Volume
    BY <1>10, <2>1 DEF DeleteRow, SerialInv, Fresh, Made, TypeOK
  <2>3. RowsDevice(row', world)
    BY <1>10, <2>2 DEF DeleteRow, WritersInv, RowsDevice, IsPublished, IsConnected, NoVolume,
       NewVolume, UNSPECIFIED, PUBLISHED, CONNECTED, Volume, Status, MOUNTED
  <2> QED
    BY <1>4, <1>10, <2>3 DEF DeleteRow, Steps
<1>11. CASE Crash
  <2>1. /\ \A c \in Calls : call'[c] = Idle
        /\ UNCHANGED <<row, world>>
    BY <1>11 DEF Crash
  <2> QED
    BY <1>1, <2>1, WritersKept DEF Idle
<1>12. CASE UNCHANGED vars
  <2>1. UNCHANGED <<row, world, call>>
    BY <1>12 DEF vars
  <2> QED
    BY <1>1, <2>1, WritersKept
<1> QED
  BY <1>2, <1>3, <1>5, <1>6, <1>7, <1>8, <1>9, <1>10, <1>11, <1>12
     DEF Next, Progress, Fault

LEMMA WritersInit == Init => WritersInv
<1> SUFFICES ASSUME Init PROVE WritersInv
  OBVIOUS
<1>1. DataPortals(world) /\ NoDevice(world)
  BY DEF Init, FreshWorld, DataPortals, NoDevice
<1>2. RowsDevice(row, world)
  BY <1>1 DEF Init, RowsDevice, NoVolume, NewVolume, NoOutputs, IsConnected, UNSPECIFIED, CONNECTED
<1> QED
  BY <1>1, <1>2 DEF WritersInv

(* SINGLE_NODE_WRITER: when calls come one at a time, and no create names target
   paths, no client has the device of a volume mounted but the one the committed row names - however many commands,
   answers and runs of the control plane were lost (ConnectVolume and
   DisconnectVolume of service_volume.go: DisconnectVolume passes a staged volume,
   and it is its logout that kills the device under the mount). *)
THEOREM OneWriter == OneCall /\ PathlessCreates /\ Spec => []WriterIsClient
<1> SUFFICES ASSUME OneCall, PathlessCreates PROVE Spec => []WriterIsClient
  OBVIOUS
<1>1. TypeOK /\ Course /\ SerialInv /\ WritersInv /\ [Next]_vars => SerialInv' /\ WritersInv'
  BY SerialStep, WritersStep
<1>2. WritersInv => WriterIsClient
  BY DEF WritersInv, RowsDevice, OnlyDevice, NoDevice, WriterIsClient, Writers
<1> QED
  BY <1>1, <1>2, WritersInit, SerialInit, TypeAndCourse, PTL DEF Spec

-----------------------------------------------------------------------------
(* The hosts, as long as nothing has failed.  Between two commands of a call
   they are between the committed row and the one that will be committed. *)

ExportsOf(r) == IF IsPublished(r) THEN {<<r.serverHost, r.transport.type>>} ELSE {}

ClientsOf(r) == IF IsConnected(r) THEN {r.clientHost} ELSE {}

SessionsOf(r) ==
  IF IsConnected(r)
  THEN {[client |-> r.clientHost, server |-> r.serverHost,
         type |-> r.transport.type, portal |-> "data"]}
  ELSE {}

AllDead(s) == \A i \in DOMAIN s : s[i].kind = "dead"

(* A staging path carries the device while the volume is staged there, over the
   dead devices of disconnections; a target path carries it or nothing. *)
StagingStack(r, c, p, s) ==
  IF IsStaged(r) /\ r.clientHost = c /\ r.stagingPath = p
  THEN s # <<>> /\ Head(s) = DeviceOf(r) /\ AllDead(Tail(s))
  ELSE AllDead(s)

TargetStack(r, c, p, s) ==
  s = IF r.clientHost = c /\ p \in r.targetPaths THEN <<DeviceOf(r)>> ELSE <<>>

MountsOf(r, w) ==
  \A c \in Clients : /\ \A p \in StagingPaths : StagingStack(r, c, p, w.mount[c][p])
                     /\ \A p \in MountPaths : TargetStack(r, c, p, w.mount[c][p])

(* The target and its access list are those of row a, the sessions and the
   mounts those of row s. *)
HostsAre(a, s, w) ==
  /\ w.target = ExportsOf(a)
  /\ w.acl = ExportsOf(a) \X ClientsOf(a)
  /\ w.session = SessionsOf(s)
  /\ MountsOf(s, w)

(* The row that the call will commit. *)
Coming(c) == Updates(row, call[c].v)

HostsAt(pc, r, u, w) ==
  CASE pc = "login"       -> HostsAre(u, r, w)
    [] pc = "unauthorize" -> HostsAre(r, u, w)
    [] pc = "commit"      -> HostsAre(u, u, w)
    [] OTHER              -> HostsAre(r, r, w)

HostsInv ==
  faults = 0 =>
    /\ Quiet => HostsAre(row, row, world)
    /\ \A c \in Calls :
          /\ HostsAt(call[c].pc, row, Coming(c), world)
          /\ call[c].pc = "publish" => world.zvol[call[c].at.server] # "absent"

(* With one server: a zvol needs a row, and a row that has named a server. *)
OneServer == \A s, t \in Servers : s = t

NoZvol(w) == \A s \in Servers : w.zvol[s] = "absent"

ZvolInv ==
  faults = 0 =>
    /\ Exists(row) \/ NoZvol(world)
    /\ row.serverHost # NoHost \/ NoZvol(world)
         \/ \E c \in Calls : call[c].op = "Publish" /\ call[c].pc \in {"publish", "commit"}
    /\ \A c \in Calls : call[c].pc = "zfsDestroy" => row.serverHost # NoHost
    /\ \A c \in Calls : call[c].op = "Delete" /\ call[c].pc = "delete" => NoZvol(world)

-----------------------------------------------------------------------------
LEMMA SameMounts ==
  ASSUME NEW r, NEW u, NEW w, NEW x, MountsOf(r, w), x.mount = w.mount,
         IsStaged(u) <=> IsStaged(r),
         IsStaged(r) \/ r.targetPaths # {}
            => u.clientHost = r.clientHost /\ DeviceOf(u) = DeviceOf(r),
         IsStaged(r) => u.stagingPath = r.stagingPath,
         u.targetPaths = r.targetPaths
  PROVE  MountsOf(u, x)
<1>1. ASSUME NEW c \in Clients, NEW p \in StagingPaths
      PROVE  StagingStack(u, c, p, x.mount[c][p])
  BY DEF MountsOf, StagingStack
<1>2. ASSUME NEW c \in Clients, NEW p \in MountPaths
      PROVE  TargetStack(u, c, p, x.mount[c][p])
  BY DEF MountsOf, TargetStack
<1> QED
  BY <1>1, <1>2 DEF MountsOf

(* Commands that leave the target, the sessions and the mounts alone. *)
LEMMA StillHosts ==
  ASSUME NEW w \in World, NEW at \in Place,
         NEW cmd \in ZfsCommands \cup FsCommands \cup {"rescan"}
  PROVE  /\ Effect(cmd, w, at).target = w.target
         /\ Effect(cmd, w, at).acl = w.acl
         /\ Effect(cmd, w, at).session = w.session
         /\ Effect(cmd, w, at).mount = w.mount
<1>1. CASE cmd \in ZfsCommands
  <2>1. PICK x : ZfsEffect(cmd, w, at) = w \/ ZfsEffect(cmd, w, at) = [w EXCEPT !.zvol = x]
    BY <1>1 DEF ZfsEffect
  <2> QED
    BY <1>1, <2>1, Wrapper DEF World
<1>2. CASE cmd \in FsCommands
  <2>1. PICK x, y : \/ FsEffect(cmd, w, at) = w
                    \/ FsEffect(cmd, w, at) = [w EXCEPT !.zvol = x, !.overwritten = y]
    BY DEF FsEffect
  <2>2. /\ FsEffect(cmd, w, at).target = w.target /\ FsEffect(cmd, w, at).acl = w.acl
        /\ FsEffect(cmd, w, at).session = w.session
        /\ FsEffect(cmd, w, at).mount = w.mount
    BY <2>1 DEF World
  <2> QED
    BY <1>2, <2>2, Wrapper
<1>3. CASE cmd = "rescan"
  BY <1>3, Wrapper DEF SessionCommands, SessionEffect
<1> QED
  BY <1>1, <1>2, <1>3

LEMMA StillThere ==
  ASSUME NEW a, NEW s, NEW w, NEW x, HostsAre(a, s, w), x.target = w.target,
         x.acl = w.acl, x.session = w.session, x.mount = w.mount
  PROVE  HostsAre(a, s, x)
BY DEF HostsAre, MountsOf

LEMMA TargetFields ==
  ASSUME NEW w \in World, NEW at \in Place,
         NEW cmd \in TargetCommands, NEW x, x = TargetEffect(cmd, w, at)
  PROVE  /\ x.session = w.session /\ x.mount = w.mount
         /\ cmd = "publish" /\ w.zvol[at.server] # "absent"
               => x.target = w.target \cup {Export(at)} /\ x.acl = w.acl
         /\ cmd = "unpublish"
               => x.target = w.target \ {Export(at)} /\ x.acl \subseteq w.acl
         /\ cmd = "authorize" /\ Export(at) \in w.target
               => x.target = w.target /\ x.acl = w.acl \cup {<<Export(at), at.client>>}
         /\ cmd = "unauthorize"
               => x.target = w.target /\ x.acl = w.acl \ {<<Export(at), at.client>>}
<1>1. CASE cmd = "publish"
  BY <1>1 DEF TargetEffect, World
<1>2. CASE cmd = "unpublish"
  <2> DEFINE left == {a \in w.acl : a[1] # Export(at)}
  <2>1. left \subseteq w.acl
    OBVIOUS
  <2>2. x = [w EXCEPT !.target = w.target \ {Export(at)}, !.acl = left]
    BY <1>2 DEF TargetEffect
  <2> HIDE DEF left
  <2> QED
    BY <1>2, <2>1, <2>2 DEF World
<1>3. CASE cmd = "authorize"
  <2>1. CASE Export(at) \notin w.target
    BY <1>3, <2>1 DEF TargetEffect
  <2>2. CASE Export(at) \in w.target
    <3> DEFINE more == w.acl \cup {<<Export(at), at.client>>}
    <3>1. x = [w EXCEPT !.acl = more]
      BY <1>3, <2>2 DEF TargetEffect
    <3> HIDE DEF more
    <3>2. /\ x.session = w.session /\ x.mount = w.mount
          /\ x.target = w.target /\ x.acl = more
      BY <3>1 DEF World
    <3> QED
      BY <1>3, <3>2 DEF more
  <2> QED
    BY <2>1, <2>2
<1>4. CASE cmd = "unauthorize"
  <2> DEFINE less == w.acl \ {<<Export(at), at.client>>}
  <2>1. x = [w EXCEPT !.acl = less]
    BY <1>4 DEF TargetEffect
  <2> HIDE DEF less
  <2>2. /\ x.session = w.session /\ x.mount = w.mount
        /\ x.target = w.target /\ x.acl = less
    BY <2>1 DEF World
  <2> QED
    BY <1>4, <2>2 DEF less
<1> QED
  BY <1>1, <1>2, <1>3, <1>4 DEF TargetCommands

(* Rows that say the same of the hosts. *)
LEMMA SameHosts ==
  ASSUME NEW r, NEW u, NEW w, HostsAre(r, r, w),
         IsPublished(u) <=> IsPublished(r), IsConnected(u) <=> IsConnected(r),
         IsStaged(u) <=> IsStaged(r),
         IsPublished(r) => /\ u.serverHost = r.serverHost
                           /\ u.transport.type = r.transport.type,
         IsConnected(r) => u.clientHost = r.clientHost,
         IsStaged(r) => u.stagingPath = r.stagingPath,
         u.targetPaths = r.targetPaths,
         IsConnected(r) => IsPublished(r),
         IsStaged(r) \/ r.targetPaths # {} => IsConnected(r)
  PROVE  HostsAre(u, u, w)
<1>1. /\ ExportsOf(u) = ExportsOf(r) /\ ClientsOf(u) = ClientsOf(r)
  BY DEF ExportsOf, ClientsOf
<1>2. IsStaged(r) \/ r.targetPaths # {}
         => u.clientHost = r.clientHost /\ DeviceOf(u) = DeviceOf(r)
  BY DEF DeviceOf
<1>3. MountsOf(u, w)
  BY <1>2, SameMounts DEF HostsAre
<1>4. SessionsOf(u) = SessionsOf(r)
  <2>1. CASE IsConnected(r) /\ IsPublished(r)
    BY <2>1 DEF SessionsOf
  <2>2. CASE ~IsConnected(r)
    BY <2>2 DEF SessionsOf
  <2>3. CASE IsConnected(r) /\ ~IsPublished(r)
    BY <2>3 DEF SessionsOf
  <2> QED
    BY <2>1, <2>2, <2>3
<1> QED
  BY <1>1, <1>3, <1>4 DEF HostsAre

(* What each command with an effect makes of the hosts of row r, on the way to
   row u, the one its call will commit. *)

LEMMA PublishedHosts ==
  ASSUME NEW w \in World, NEW r, NEW u, HostsAre(r, r, w), Shape(r),
         NEW at \in Place, at.server = u.serverHost, at.type = u.transport.type,
         w.zvol[at.server] # "absent",
         r.status = INITIAL, u.status = PUBLISHED, u.targetPaths = r.targetPaths
  PROVE  HostsAre(u, u, TargetEffect("publish", w, at))
<1> DEFINE x == TargetEffect("publish", w, at)
<1>1. /\ ~IsPublished(r) /\ ~IsConnected(r) /\ ~IsStaged(r) /\ r.targetPaths = {}
      /\ IsPublished(u) /\ ~IsConnected(u) /\ ~IsStaged(u)
  BY DEF Shape, IsPublished, IsConnected, IsStaged, IsMounted, INITIAL, PUBLISHED,
     CONNECTED, STAGED, MOUNTED
<1>2. /\ x.target = w.target \cup {Export(at)} /\ x.acl = w.acl
      /\ x.session = w.session /\ x.mount = w.mount
  BY TargetFields DEF TargetCommands
<1> HIDE DEF x
<1>3. MountsOf(u, x)
  BY <1>1, <1>2, SameMounts DEF HostsAre
<1>4. x.target = ExportsOf(u)
  BY <1>1, <1>2 DEF HostsAre, ExportsOf, Export
<1>5. x.acl = ExportsOf(u) \X ClientsOf(u) /\ x.session = SessionsOf(u)
  BY <1>1, <1>2 DEF HostsAre, ExportsOf, ClientsOf, SessionsOf
<1> QED
  BY <1>3, <1>4, <1>5 DEF HostsAre, x

LEMMA UnpublishedHosts ==
  ASSUME NEW w \in World, NEW r, NEW u, HostsAre(r, r, w), Shape(r),
         NEW at \in Place, at.server = r.serverHost, at.type = r.transport.type,
         r.status = PUBLISHED, u.status = INITIAL, u.targetPaths = r.targetPaths
  PROVE  HostsAre(u, u, TargetEffect("unpublish", w, at))
<1> DEFINE x == TargetEffect("unpublish", w, at)
<1>1. /\ IsPublished(r) /\ ~IsConnected(r) /\ ~IsStaged(r) /\ r.targetPaths = {}
      /\ ~IsPublished(u) /\ ~IsConnected(u) /\ ~IsStaged(u)
  BY DEF Shape, IsPublished, IsConnected, IsStaged, IsMounted, INITIAL, PUBLISHED,
     CONNECTED, STAGED, MOUNTED
<1>2. /\ x.target = w.target \ {Export(at)} /\ x.acl \subseteq w.acl
      /\ x.session = w.session /\ x.mount = w.mount
  BY TargetFields DEF TargetCommands
<1> HIDE DEF x
<1>3. MountsOf(u, x)
  BY <1>1, <1>2, SameMounts DEF HostsAre
<1>4. x.target = ExportsOf(u)
  BY <1>1, <1>2 DEF HostsAre, ExportsOf, Export
<1>5. x.acl = ExportsOf(u) \X ClientsOf(u) /\ x.session = SessionsOf(u)
  BY <1>1, <1>2 DEF HostsAre, ExportsOf, ClientsOf, SessionsOf
<1> QED
  BY <1>3, <1>4, <1>5 DEF HostsAre, x

LEMMA AuthorizedHosts ==
  ASSUME NEW w \in World, NEW r, NEW u, HostsAre(r, r, w),
         NEW at \in Place, at.server = r.serverHost, at.type = r.transport.type,
         at.client = u.clientHost,
         r.status = PUBLISHED, u.status = CONNECTED, u.serverHost = r.serverHost,
         u.transport.type = r.transport.type
  PROVE  HostsAre(u, r, TargetEffect("authorize", w, at))
<1> DEFINE x == TargetEffect("authorize", w, at)
<1>1. IsPublished(r) /\ ~IsConnected(r) /\ IsPublished(u) /\ IsConnected(u)
  BY DEF IsPublished, IsConnected, PUBLISHED, CONNECTED
<1>2. /\ ExportsOf(r) = {Export(at)} /\ ExportsOf(u) = {Export(at)}
      /\ ClientsOf(r) = {} /\ ClientsOf(u) = {at.client}
  BY <1>1 DEF ExportsOf, ClientsOf, Export
<1>3. /\ x.target = w.target /\ x.acl = w.acl \cup {<<Export(at), at.client>>}
      /\ x.session = w.session /\ x.mount = w.mount
  BY <1>2, TargetFields DEF TargetCommands, HostsAre
<1> HIDE DEF x
<1>4. w.acl = {}
  BY <1>2 DEF HostsAre
<1>5. x.acl = ExportsOf(u) \X ClientsOf(u)
  BY <1>2, <1>3, <1>4
<1> QED
  BY <1>2, <1>3, <1>5 DEF HostsAre, MountsOf, x

LEMMA LoggedInHosts ==
  ASSUME NEW w \in World, NEW r, NEW u, HostsAre(u, r, w), Shape(r),
         NEW at \in Place, at.server = r.serverHost, at.type = r.transport.type,
         at.client = u.clientHost, at.portal = "data",
         r.status = PUBLISHED, u.status = CONNECTED, u.serverHost = r.serverHost,
         u.transport.type = r.transport.type, u.targetPaths = r.targetPaths
  PROVE  HostsAre(u, u, SessionEffect("login", w, at))
<1> DEFINE x == SessionEffect("login", w, at)
           s == [client |-> at.client, server |-> at.server, type |-> at.type,
                 portal |-> at.portal]
<1>1. /\ ~IsConnected(r) /\ ~IsStaged(r) /\ r.targetPaths = {}
      /\ IsConnected(u) /\ ~IsStaged(u)
  BY DEF Shape, IsConnected, IsStaged, IsMounted, PUBLISHED, CONNECTED, STAGED, MOUNTED
<1>2. SessionsOf(r) = {} /\ SessionsOf(u) = {s}
  BY <1>1 DEF SessionsOf
<1>3. x = [w EXCEPT !.session = w.session \cup {s}]
  BY DEF SessionEffect
<1> HIDE DEF x, s
<1>4. /\ x.target = w.target /\ x.acl = w.acl /\ x.mount = w.mount
      /\ x.session = w.session \cup {s}
  BY <1>3 DEF World
<1>5. MountsOf(u, x)
  BY <1>1, <1>4, SameMounts DEF HostsAre
<1> QED
  BY <1>2, <1>4, <1>5 DEF HostsAre, x

LEMMA LoggedOutHosts ==
  ASSUME NEW w \in World, NEW r, NEW u, HostsAre(r, r, w), Shape(r), DataPortals(w),
         NEW at \in Place, at.server = r.serverHost, at.type = r.transport.type,
         at.client = r.clientHost, at.portal = "data",
         r.status \in {CONNECTED, STAGED}, u.status = PUBLISHED,
         u.targetPaths = r.targetPaths
  PROVE  HostsAre(r, u, SessionEffect("logout", w, at))
<1> DEFINE x == SessionEffect("logout", w, at)
           b == Device(at.server, at.type)
           Shut(s) == [i \in DOMAIN s |-> IF s[i] = b THEN Dead ELSE s[i]]
<1>1. /\ IsConnected(r) /\ ~IsMounted(r) /\ r.targetPaths = {}
      /\ ~IsConnected(u) /\ ~IsStaged(u)
  BY DEF Shape, IsConnected, IsStaged, IsMounted, PUBLISHED, CONNECTED, STAGED, MOUNTED
<1>2. /\ x.session = w.session \ SessionsAt(w, at)
      /\ x.target = w.target /\ x.acl = w.acl
      /\ \A d \in Clients, q \in Paths :
            x.mount[d][q] = IF d = at.client THEN Shut(w.mount[d][q]) ELSE w.mount[d][q]
  BY LogoutMounts DEF SessionEffect
<1>3. b = DeviceOf(r)
  BY DEF DeviceOf
<1>4. /\ \A d \in Clients, q \in Paths : w.mount[d][q] \in Seq(Backing)
      /\ StagingPaths \subseteq Paths /\ MountPaths \subseteq Paths
  BY DEF World, Paths
<1>5. Dead.kind = "dead" /\ b.kind = "device"
  BY DEF Dead, Device
<1> HIDE DEF x, b
<1>6. x.session = {}
  BY <1>1, <1>2 DEF HostsAre, SessionsOf, SessionsAt
<1>7. ASSUME NEW s \in Seq(Backing),
             \/ AllDead(s)
             \/ s # <<>> /\ Head(s) = b /\ AllDead(Tail(s))
      PROVE  AllDead(Shut(s))
  <2>1. \A i \in DOMAIN s : s[i] = b \/ s[i].kind = "dead"
    <3>1. CASE AllDead(s)
      BY <3>1 DEF AllDead
    <3>2. CASE s # <<>> /\ Head(s) = b /\ AllDead(Tail(s))
      <4>1. \A i \in DOMAIN s : i # 1 => i - 1 \in DOMAIN Tail(s) /\ Tail(s)[i - 1] = s[i]
        BY <3>2
      <4>2. s[1] = b
        BY <3>2
      <4> QED
        BY <3>2, <4>1, <4>2 DEF AllDead
    <3> QED
      BY <1>7, <3>1, <3>2
  <2> QED
    BY <1>5, <2>1 DEF AllDead
<1>8. ASSUME NEW d \in Clients, NEW q \in StagingPaths
      PROVE  AllDead(x.mount[d][q])
  <2>1. StagingStack(r, d, q, w.mount[d][q])
    BY DEF HostsAre, MountsOf
  <2>2. CASE d = at.client
    <3>1. x.mount[d][q] = Shut(w.mount[d][q])
      BY <1>2, <1>4, <2>2
    <3> HIDE DEF Shut
    <3> QED
      BY <1>3, <1>4, <1>7, <2>1, <3>1 DEF StagingStack
  <2>3. CASE d # at.client
    BY <1>2, <1>4, <2>1, <2>3 DEF StagingStack
  <2> QED
    BY <2>2, <2>3
<1>9. ASSUME NEW d \in Clients, NEW q \in MountPaths
      PROVE  x.mount[d][q] = <<>>
  <2>1. w.mount[d][q] = <<>>
    BY <1>1 DEF HostsAre, MountsOf, TargetStack
  <2>2. Shut(<<>>) = <<>>
    OBVIOUS
  <2> HIDE DEF Shut
  <2> QED
    BY <1>2, <1>4, <2>1, <2>2
<1>10. MountsOf(u, x)
  BY <1>1, <1>8, <1>9 DEF MountsOf, StagingStack, TargetStack
<1> QED
  BY <1>1, <1>2, <1>6, <1>10 DEF HostsAre, SessionsOf, x

LEMMA UnauthorizedHosts ==
  ASSUME NEW w \in World, NEW r, NEW u, HostsAre(r, u, w),
         NEW at \in Place, at.server = r.serverHost, at.type = r.transport.type,
         at.client = r.clientHost,
         r.status \in {CONNECTED, STAGED}, u.status = PUBLISHED,
         u.serverHost = r.serverHost, u.transport.type = r.transport.type
  PROVE  HostsAre(u, u, TargetEffect("unauthorize", w, at))
<1> DEFINE x == TargetEffect("unauthorize", w, at)
<1>1. IsPublished(r) /\ IsConnected(r) /\ IsPublished(u) /\ ~IsConnected(u)
  BY DEF IsPublished, IsConnected, PUBLISHED, CONNECTED, STAGED
<1>2. /\ ExportsOf(r) = {Export(at)} /\ ExportsOf(u) = {Export(at)}
      /\ ClientsOf(r) = {at.client} /\ ClientsOf(u) = {}
  BY <1>1 DEF ExportsOf, ClientsOf, Export
<1>3. /\ x.target = w.target /\ x.acl = w.acl \ {<<Export(at), at.client>>}
      /\ x.session = w.session /\ x.mount = w.mount
  BY TargetFields DEF TargetCommands
<1> HIDE DEF x
<1>4. w.acl = {<<Export(at), at.client>>}
  BY <1>2 DEF HostsAre
<1>5. x.acl = ExportsOf(u) \X ClientsOf(u)
  BY <1>2, <1>3, <1>4
<1> QED
  BY <1>2, <1>3, <1>5 DEF HostsAre, MountsOf, x

LEMMA StagedHosts ==
  ASSUME NEW w \in World, NEW r \in Volume, NEW u, HostsAre(r, r, w), Shape(r),
         NEW p \in StagingPaths, NEW b \in Backing, b = DeviceOf(r),
         r.status = CONNECTED, u.status = STAGED, u.stagingPath = p,
         u.clientHost = r.clientHost, u.serverHost = r.serverHost,
         u.transport.type = r.transport.type, u.targetPaths = r.targetPaths
  PROVE  HostsAre(u, u, Push(w, r.clientHost, p, b))
<1> DEFINE x == Push(w, r.clientHost, p, b)
<1>1. /\ IsPublished(r) /\ IsConnected(r) /\ ~IsStaged(r) /\ r.targetPaths = {}
      /\ IsPublished(u) /\ IsConnected(u) /\ IsStaged(u)
      /\ r.clientHost \in Clients
  BY DEF Shape, IsPublished, IsConnected, IsStaged, IsMounted, PUBLISHED, CONNECTED,
     STAGED, MOUNTED, Volume
<1>2. /\ x.mount[r.clientHost][p] = <<b>> \o w.mount[r.clientHost][p]
      /\ \A d \in Clients, q \in Paths :
            d # r.clientHost \/ q # p => x.mount[d][q] = w.mount[d][q]
  BY <1>1 DEF Push, World, Paths
<1>3. x.target = w.target /\ x.acl = w.acl /\ x.session = w.session
  BY DEF Push, World
<1>4. /\ StagingPaths \subseteq Paths /\ MountPaths \subseteq Paths
      /\ w.mount[r.clientHost][p] \in Seq(Backing)
  BY <1>1 DEF Paths, World
<1>5. DeviceOf(u) = b
  BY DEF DeviceOf
<1> HIDE DEF x
<1>6. ASSUME NEW d \in Clients, NEW q \in StagingPaths
      PROVE  StagingStack(u, d, q, x.mount[d][q])
  <2>1. AllDead(w.mount[d][q])
    BY <1>1 DEF HostsAre, MountsOf, StagingStack
  <2>2. CASE d = r.clientHost /\ q = p
    <3>1. \A s \in Seq(Backing) : /\ <<b>> \o s # <<>> /\ Head(<<b>> \o s) = b
                                  /\ Tail(<<b>> \o s) = s
      OBVIOUS
    <3>2. /\ x.mount[d][q] # <<>> /\ Head(x.mount[d][q]) = b
          /\ Tail(x.mount[d][q]) = w.mount[d][q]
      BY <1>2, <1>4, <2>2, <3>1
    <3> QED
      BY <1>1, <1>5, <2>1, <2>2, <3>2 DEF StagingStack
  <2>3. CASE d # r.clientHost \/ q # p
    BY <1>2, <1>4, <2>1, <2>3 DEF StagingStack
  <2> QED
    BY <2>2, <2>3
<1>7. ASSUME NEW d \in Clients, NEW q \in MountPaths
      PROVE  TargetStack(u, d, q, x.mount[d][q])
  <2>1. q # p
    BY PathsAssumption
  <2> QED
    BY <1>1, <1>2, <1>4, <2>1 DEF HostsAre, MountsOf, TargetStack
<1>8. MountsOf(u, x)
  BY <1>6, <1>7 DEF MountsOf
<1> QED
  BY <1>1, <1>3, <1>8 DEF HostsAre, ExportsOf, ClientsOf, SessionsOf, x

LEMMA UnstagedHosts ==
  ASSUME NEW w \in World, NEW r \in Volume, NEW u, HostsAre(r, r, w), Shape(r),
         r.status = STAGED, u.status = CONNECTED,
         u.clientHost = r.clientHost, u.serverHost = r.serverHost,
         u.transport.type = r.transport.type, u.targetPaths = r.targetPaths
  PROVE  HostsAre(u, u, Pop(w, r.clientHost, r.stagingPath))
<1> DEFINE x == Pop(w, r.clientHost, r.stagingPath)
<1>1. /\ IsPublished(r) /\ IsConnected(r) /\ IsStaged(r) /\ r.targetPaths = {}
      /\ IsPublished(u) /\ IsConnected(u) /\ ~IsStaged(u)
      /\ r.clientHost \in Clients /\ r.stagingPath \in StagingPaths
  BY DEF Shape, IsPublished, IsConnected, IsStaged, IsMounted, PUBLISHED, CONNECTED,
     STAGED, MOUNTED, Volume
<1>2. /\ x.mount[r.clientHost][r.stagingPath] = Tail(w.mount[r.clientHost][r.stagingPath])
      /\ \A d \in Clients, q \in Paths :
            d # r.clientHost \/ q # r.stagingPath => x.mount[d][q] = w.mount[d][q]
  BY <1>1, PopMounts DEF Paths
<1>3. x.target = w.target /\ x.acl = w.acl /\ x.session = w.session
  BY DEF Pop, World
<1>4. StagingPaths \subseteq Paths /\ MountPaths \subseteq Paths
  BY DEF Paths
<1> HIDE DEF x
<1>5. ASSUME NEW d \in Clients, NEW q \in StagingPaths
      PROVE  AllDead(x.mount[d][q])
  <2>1. StagingStack(r, d, q, w.mount[d][q])
    BY DEF HostsAre, MountsOf
  <2>2. CASE d = r.clientHost /\ q = r.stagingPath
    BY <1>1, <1>2, <2>1, <2>2 DEF StagingStack
  <2>3. CASE d # r.clientHost \/ q # r.stagingPath
    BY <1>2, <1>4, <2>1, <2>3 DEF StagingStack
  <2> QED
    BY <2>2, <2>3
<1>6. ASSUME NEW d \in Clients, NEW q \in MountPaths
      PROVE  TargetStack(u, d, q, x.mount[d][q])
  <2>1. q # r.stagingPath
    BY <1>1, PathsAssumption
  <2> QED
    BY <1>1, <1>2, <1>4, <2>1 DEF HostsAre, MountsOf, TargetStack
<1>7. MountsOf(u, x)
  BY <1>1, <1>5, <1>6 DEF MountsOf, StagingStack
<1> QED
  BY <1>1, <1>3, <1>7 DEF HostsAre, ExportsOf, ClientsOf, SessionsOf, x

LEMMA BoundHosts ==
  ASSUME NEW w \in World, NEW r \in Volume, NEW u, HostsAre(r, r, w), Shape(r),
         NEW p \in MountPaths \ r.targetPaths, NEW b \in Backing, b = DeviceOf(r),
         IsStaged(r), u.status = MOUNTED, u.targetPaths = r.targetPaths \cup {p},
         u.clientHost = r.clientHost, u.serverHost = r.serverHost,
         u.transport.type = r.transport.type, u.stagingPath = r.stagingPath
  PROVE  HostsAre(u, u, Push(w, r.clientHost, p, b))
<1> DEFINE x == Push(w, r.clientHost, p, b)
<1>1. /\ IsPublished(r) /\ IsConnected(r)
      /\ IsPublished(u) /\ IsConnected(u) /\ IsStaged(u)
      /\ r.clientHost \in Clients
  BY DEF Shape, IsPublished, IsConnected, IsStaged, IsMounted, PUBLISHED, CONNECTED,
     STAGED, MOUNTED, Volume, Status, UNSPECIFIED
<1>2. /\ x.mount[r.clientHost][p] = <<b>> \o w.mount[r.clientHost][p]
      /\ \A d \in Clients, q \in Paths :
            d # r.clientHost \/ q # p => x.mount[d][q] = w.mount[d][q]
  BY <1>1 DEF Push, World, Paths
<1>3. x.target = w.target /\ x.acl = w.acl /\ x.session = w.session
  BY DEF Push, World
<1>4. StagingPaths \subseteq Paths /\ MountPaths \subseteq Paths
  BY DEF Paths
<1>5. DeviceOf(u) = b
  BY DEF DeviceOf
<1> HIDE DEF x
<1>6. ASSUME NEW d \in Clients, NEW q \in StagingPaths
      PROVE  StagingStack(u, d, q, x.mount[d][q])
  <2>1. q # p
    BY PathsAssumption
  <2>2. x.mount[d][q] = w.mount[d][q]
    BY <1>2, <1>4, <2>1
  <2> QED
    BY <1>1, <1>5, <2>2 DEF HostsAre, MountsOf, StagingStack
<1>7. ASSUME NEW d \in Clients, NEW q \in MountPaths
      PROVE  TargetStack(u, d, q, x.mount[d][q])
  <2>1. TargetStack(r, d, q, w.mount[d][q])
    BY DEF HostsAre, MountsOf
  <2>2. CASE d = r.clientHost /\ q = p
    <3>1. w.mount[d][q] = <<>>
      BY <2>1, <2>2 DEF TargetStack
    <3>2. x.mount[d][q] = <<b>>
      BY <1>2, <2>2, <3>1
    <3> QED
      BY <1>5, <2>2, <3>2 DEF TargetStack
  <2>3. CASE d # r.clientHost \/ q # p
    <3>1. x.mount[d][q] = w.mount[d][q]
      BY <1>2, <1>4, <2>3
    <3> QED
      BY <1>5, <2>1, <2>3, <3>1 DEF TargetStack
  <2> QED
    BY <2>2, <2>3
<1>8. MountsOf(u, x)
  BY <1>6, <1>7 DEF MountsOf
<1> QED
  BY <1>1, <1>3, <1>8 DEF HostsAre, ExportsOf, ClientsOf, SessionsOf, x

LEMMA UnboundHosts ==
  ASSUME NEW w \in World, NEW r \in Volume, NEW u, HostsAre(r, r, w), Shape(r),
         NEW p \in r.targetPaths, IsMounted(r), IsStaged(u),
         u.targetPaths = r.targetPaths \ {p},
         u.clientHost = r.clientHost, u.serverHost = r.serverHost,
         u.transport.type = r.transport.type, u.stagingPath = r.stagingPath,
         u.status \in Status
  PROVE  HostsAre(u, u, Pop(w, r.clientHost, p))
<1> DEFINE x == Pop(w, r.clientHost, p)
<1>1. /\ IsPublished(r) /\ IsConnected(r) /\ IsStaged(r)
      /\ IsPublished(u) /\ IsConnected(u)
      /\ r.clientHost \in Clients /\ p \in MountPaths
  BY DEF Shape, IsPublished, IsConnected, IsStaged, IsMounted, PUBLISHED, CONNECTED,
     STAGED, MOUNTED, Volume, Status, UNSPECIFIED
<1>2. /\ x.mount[r.clientHost][p] = Tail(w.mount[r.clientHost][p])
      /\ \A d \in Clients, q \in Paths :
            d # r.clientHost \/ q # p => x.mount[d][q] = w.mount[d][q]
  BY <1>1, PopMounts DEF Paths
<1>3. x.target = w.target /\ x.acl = w.acl /\ x.session = w.session
  BY DEF Pop, World
<1>4. StagingPaths \subseteq Paths /\ MountPaths \subseteq Paths
  BY DEF Paths
<1>5. DeviceOf(u) = DeviceOf(r)
  BY DEF DeviceOf
<1> HIDE DEF x
<1>6. ASSUME NEW d \in Clients, NEW q \in StagingPaths
      PROVE  StagingStack(u, d, q, x.mount[d][q])
  <2>1. q # p
    BY <1>1, PathsAssumption
  <2>2. x.mount[d][q] = w.mount[d][q]
    BY <1>2, <1>4, <2>1
  <2> QED
    BY <1>1, <1>5, <2>2 DEF HostsAre, MountsOf, StagingStack
<1>7. ASSUME NEW d \in Clients, NEW q \in MountPaths
      PROVE  TargetStack(u, d, q, x.mount[d][q])
  <2>1. TargetStack(r, d, q, w.mount[d][q])
    BY DEF HostsAre, MountsOf
  <2>2. CASE d = r.clientHost /\ q = p
    <3>1. w.mount[d][q] = <<DeviceOf(r)>>
      BY <2>1, <2>2 DEF TargetStack
    <3>2. x.mount[d][q] = <<>>
      BY <1>2, <2>2, <3>1
    <3> QED
      BY <2>2, <3>2 DEF TargetStack
  <2>3. CASE d # r.clientHost \/ q # p
    <3>1. x.mount[d][q] = w.mount[d][q]
      BY <1>2, <1>4, <2>3
    <3> QED
      BY <1>5, <2>1, <2>3, <3>1 DEF TargetStack
  <2> QED
    BY <2>2, <2>3
<1>8. MountsOf(u, x)
  BY <1>6, <1>7 DEF MountsOf
<1> QED
  BY <1>1, <1>3, <1>8 DEF HostsAre, ExportsOf, ClientsOf, SessionsOf, x

-----------------------------------------------------------------------------
(* Where the commands of a call are run, and the row it will commit. *)
LEMMA Underway ==
  ASSUME TypeOK, Course, SerialInv, NEW c \in Calls, call[c].pc \in Commands,
         Succeeds(call[c].pc, world, call[c].at) \/ call[c].pc \in {"login", "unauthorize", "publish"}
  PROVE  \/ call[c].op = "Update" /\ call[c].pc \in {"zfsSet", "rescan", "resize"}
         \/ call[c].op = "Delete" /\ call[c].pc = "zfsDestroy" /\ Made(call[c], row)
         \/ /\ call[c].op \in LockedOps /\ call[c].pc \in InTransaction(call[c].op)
            /\ Named(call[c].op, call[c].at) /\ call[c].ready /\ Made(call[c], row)
<1>1. call[c].pc \notin {"idle", "write", "commit", "delete"}
  BY DEF Commands, ZfsCommands, TargetCommands, SessionCommands, FsCommands, MountCommands
<1>2. \/ call[c].op = "Update" /\ call[c].pc \in {"zfsSet", "rescan", "resize"}
      \/ call[c].op = "Delete" /\ call[c].pc = "zfsDestroy"
      \/ Locked(call[c].op, call[c].pc, call[c].at, call[c].ready)
  BY <1>1 DEF Course, OnCourse, Accepted
<1>3. call[c].op # "Update" => Made(call[c], row)
  BY <1>1 DEF SerialInv, Fresh
<1> QED
  BY <1>2, <1>3 DEF Locked, LockedOps

LEMMA CommandHosts ==
  ASSUME TypeOK, Course, SerialInv, WritersInv, HostsInv, faults = 0,
         NEW c \in Calls, call[c].pc \in Commands,
         Succeeds(call[c].pc, world, call[c].at),
         NEW w, w = Effect(call[c].pc, world, call[c].at),
         NEW n, n = After(call[c].pc, call[c].v, world, call[c].at)
  PROVE  /\ HostsAt(n, row, Coming(c), w)
         /\ n = "publish" => w.zvol[call[c].at.server] # "absent"
<1> DEFINE k == call[c]
           u == Coming(c)
<1>1. /\ world \in World /\ row \in Volume /\ k.at \in Place /\ Shape(row)
      /\ k.pc \in Commands /\ w = Effect(k.pc, world, k.at)
      /\ n = After(k.pc, k.v, world, k.at)
      /\ u = Updates(row, k.v)
  BY DEF TypeOK, Call, SerialInv, Coming
<1>2. \/ k.op = "Update" /\ k.pc \in {"zfsSet", "rescan", "resize"}
      \/ k.op = "Delete" /\ k.pc = "zfsDestroy"
      \/ /\ k.op \in LockedOps /\ k.pc \in InTransaction(k.op)
         /\ Named(k.op, k.at) /\ k.ready /\ Made(k, row)
  BY Underway
<1>3. /\ HostsAt(k.pc, row, u, world)
      /\ k.pc = "publish" => world.zvol[k.at.server] # "absent"
  BY DEF HostsInv
<1>4. DataPortals(world)
  BY DEF WritersInv
<1> SUFFICES HostsAt(n, row, u, w) /\ (n = "publish" => w.zvol[k.at.server] # "absent")
  OBVIOUS
<1> HIDE DEF k, u
<1>5. ASSUME k.op # "Update", k.op # "Delete"
      PROVE  /\ Made(k, row) /\ k.ready /\ Exists(row) /\ Named(k.op, k.at)
             /\ k.at.portal = "data"
             /\ k.op \in {"Disconnect", "Stage", "Unstage", "Mount", "Unmount"}
               => /\ IsConnected(row)
                  /\ k.at.client = row.clientHost /\ k.at.server = row.serverHost
                  /\ k.at.type = row.transport.type
  BY <1>1, <1>2, <1>5, MadePlace DEF Made, LockedOps, Ops
<1>6. CASE k.pc \in ZfsCommands \cup FsCommands \cup {"rescan"}
  <2>1. HostsAre(row, row, world)
    BY <1>3, <1>6 DEF HostsAt, ZfsCommands, FsCommands
  <2>2. HostsAre(row, row, w)
    BY <1>1, <1>6, <2>1, StillHosts, StillThere
  <2>3. /\ n \notin {"login", "unauthorize", "commit"}
        /\ n = "publish" => \/ k.pc = "zfsList" /\ world.zvol[k.at.server] # "absent"
                            \/ k.pc = "zfsCreate"
    BY <1>1, <1>6 DEF After, RescanOrAnswer, ZfsCommands, FsCommands
  <2>4. k.pc = "zfsList" => w = world
    BY <1>1, Wrapper DEF ZfsCommands, ZfsEffect
  <2>5. k.pc = "zfsCreate" => w.zvol[k.at.server] = "blank"
    <3>1. k.pc = "zfsCreate" => k.at.server \in Servers
      BY <1>2 DEF LockedOps, InTransaction, Named
    <3> QED
      BY <1>1, <3>1, Wrapper DEF ZfsCommands, ZfsEffect, World
  <2> QED
    BY <2>2, <2>3, <2>4, <2>5 DEF HostsAt
<1>7. CASE k.pc = "publish"
  <2>1. k.op = "Publish"
    BY <1>2, <1>7 DEF LockedOps, InTransaction
  <2>2. PICK s \in Servers, t \in Transports : k.v = ToPublished(row, s, t)
    BY <1>5, <2>1 DEF Made
  <2>3. /\ row.status = INITIAL /\ u.status = PUBLISHED /\ u.serverHost = s
        /\ u.transport.type = t /\ u.targetPaths = row.targetPaths
    BY <1>1, <1>5, <2>1, <2>2, PublishFields DEF Made
  <2>4. k.at.server = s /\ k.at.type = t
    <3>1. k.at = PlaceOf(ToPublished(row, s, t), NoPath)
      BY <1>5, <2>1, <2>2 DEF Made
    <3> QED
      BY <1>1, <3>1 DEF PlaceOf, ToPublished, Volume, Transport
  <2>5. w = TargetEffect("publish", world, k.at) /\ n = "commit"
    BY <1>1, <1>7, Wrapper DEF TargetCommands, After
  <2>6. HostsAre(row, row, world)
    BY <1>3, <1>7 DEF HostsAt
  <2> QED
    BY <1>1, <1>3, <1>7, <2>3, <2>4, <2>5, <2>6, PublishedHosts DEF HostsAt
<1>8. CASE k.pc = "unpublish"
  <2>1. k.op = "Unpublish"
    BY <1>2, <1>8 DEF LockedOps, InTransaction
  <2>2. /\ row.status = PUBLISHED /\ u.status = INITIAL /\ u.targetPaths = row.targetPaths
        /\ k.at.server = row.serverHost /\ k.at.type = row.transport.type
    BY <1>1, <1>5, <2>1, UnpublishFields DEF Made, PlaceOf
  <2>3. w = TargetEffect("unpublish", world, k.at) /\ n = "commit"
    BY <1>1, <1>8, Wrapper DEF TargetCommands, After
  <2>4. HostsAre(row, row, world)
    BY <1>3, <1>8 DEF HostsAt
  <2> QED
    BY <1>1, <2>2, <2>3, <2>4, UnpublishedHosts DEF HostsAt
<1>9. CASE k.pc \in {"authorize", "login"}
  <2>1. k.op = "Connect"
    BY <1>2, <1>9 DEF LockedOps, InTransaction
  <2>2. PICK h \in Clients : k.v = ToConnected(row, h)
    BY <1>5, <2>1 DEF Made
  <2>3. /\ row.status = PUBLISHED /\ u.status = CONNECTED /\ u.clientHost = h
        /\ u.serverHost = row.serverHost /\ u.transport.type = row.transport.type
        /\ u.targetPaths = row.targetPaths
    BY <1>1, <1>5, <2>1, <2>2, ConnectFields DEF Made
  <2>4. /\ k.at.server = row.serverHost /\ k.at.type = row.transport.type
        /\ k.at.client = h
    <3>1. k.at = PlaceOf(ToConnected(row, h), NoPath)
      BY <1>5, <2>1, <2>2 DEF Made
    <3> QED
      BY <1>1, <3>1 DEF PlaceOf, ToConnected, Volume, Transport
  <2>5. CASE k.pc = "authorize"
    <3>1. w = TargetEffect("authorize", world, k.at) /\ n = "login"
      BY <1>1, <2>5, Wrapper DEF TargetCommands, After
    <3>2. HostsAre(row, row, world)
      BY <1>3, <2>5 DEF HostsAt
    <3> QED
      BY <1>1, <2>3, <2>4, <3>1, <3>2, AuthorizedHosts DEF HostsAt
  <2>6. CASE k.pc = "login"
    <3>1. w = SessionEffect("login", world, k.at) /\ n = "commit"
      BY <1>1, <2>6, Wrapper DEF SessionCommands, After
    <3>2. HostsAre(u, row, world)
      BY <1>3, <2>6 DEF HostsAt
    <3> QED
      BY <1>1, <1>5, <2>1, <2>3, <2>4, <3>1, <3>2, LoggedInHosts DEF HostsAt
  <2> QED
    BY <1>9, <2>5, <2>6
<1>10. CASE k.pc \in {"logout", "unauthorize"}
  <2>1. k.op = "Disconnect"
    BY <1>2, <1>10 DEF LockedOps, InTransaction
  <2>2. /\ row.status \in {CONNECTED, STAGED} /\ u.status = PUBLISHED
        /\ u.serverHost = row.serverHost /\ u.transport.type = row.transport.type
        /\ u.targetPaths = row.targetPaths
    BY <1>1, <1>5, <2>1, DisconnectFields DEF Made
  <2>3. CASE k.pc = "logout"
    <3>1. w = SessionEffect("logout", world, k.at) /\ n = "unauthorize"
      BY <1>1, <2>3, Wrapper DEF SessionCommands, After
    <3>2. HostsAre(row, row, world)
      BY <1>3, <2>3 DEF HostsAt
    <3> QED
      BY <1>1, <1>4, <1>5, <2>1, <2>2, <3>1, <3>2, LoggedOutHosts DEF HostsAt
  <2>4. CASE k.pc = "unauthorize"
    <3>1. w = TargetEffect("unauthorize", world, k.at) /\ n = "commit"
      BY <1>1, <2>4, Wrapper DEF TargetCommands, After
    <3>2. HostsAre(row, u, world)
      BY <1>3, <2>4 DEF HostsAt
    <3> QED
      BY <1>1, <1>5, <2>1, <2>2, <3>1, <3>2, UnauthorizedHosts DEF HostsAt
  <2> QED
    BY <1>10, <2>3, <2>4
<1>11. CASE k.pc \in MountCommands
  <2>1. HostsAre(row, row, world) /\ n = "commit"
    BY <1>1, <1>3, <1>11 DEF HostsAt, MountCommands, After
  <2>2. w = MountEffect(k.pc, world, k.at)
    BY <1>1, <1>11, Wrapper
  <2>3. DeviceOf(row) \in Backing
    BY <1>1 DEF DeviceOf, Device, Backing, Volume, Transport
  <2>4. CASE k.pc = "mount"
    <3>1. k.op = "Stage"
      BY <1>2, <2>4 DEF LockedOps, InTransaction
    <3>2. PICK p \in StagingPaths : k.v = ToStaged(row, p) /\ k.at = PlaceOf(k.v, NoPath)
      BY <1>5, <3>1 DEF Made
    <3>3. /\ row.status = CONNECTED /\ u.status = STAGED /\ u.stagingPath = p
          /\ u.clientHost = row.clientHost /\ u.serverHost = row.serverHost
          /\ u.transport.type = row.transport.type /\ u.targetPaths = row.targetPaths
      BY <1>1, <1>5, <3>1, <3>2, StageFields DEF Made
    <3>4. k.at.staging = p
      BY <1>1, <3>2 DEF PlaceOf, ToStaged, Volume
    <3>5. w = Push(world, row.clientHost, p, DeviceOf(row))
      BY <1>5, <2>2, <2>4, <3>1, <3>4 DEF MountEffect, DeviceOf
    <3> QED
      BY <1>1, <2>1, <2>3, <3>3, <3>5, StagedHosts DEF HostsAt
  <2>5. CASE k.pc = "umountStaging"
    <3>1. k.op = "Unstage"
      BY <1>2, <2>5 DEF LockedOps, InTransaction
    <3>2. /\ row.status = STAGED /\ u.status = CONNECTED
          /\ u.clientHost = row.clientHost /\ u.serverHost = row.serverHost
          /\ u.transport.type = row.transport.type /\ u.targetPaths = row.targetPaths
          /\ k.at.staging = row.stagingPath
      BY <1>1, <1>5, <3>1, UnstageFields DEF Made, PlaceOf
    <3>3. w = Pop(world, row.clientHost, row.stagingPath)
      BY <1>5, <2>2, <2>5, <3>1, <3>2 DEF MountEffect
    <3> QED
      BY <1>1, <2>1, <3>2, <3>3, UnstagedHosts DEF HostsAt
  <2>6. CASE k.pc = "bind"
    <3>1. k.op = "Mount"
      BY <1>2, <2>6 DEF LockedOps, InTransaction
    <3>2. IsStaged(row)
      BY <1>5, <3>1 DEF Made
    <3>3. PICK p \in MountPaths \ row.targetPaths : k.v = ToMounted(row, p) /\ k.at = PlaceOf(k.v, p)
      BY <1>5, <3>1 DEF Made
    <3>4. /\ u.status = MOUNTED /\ u.targetPaths = row.targetPaths \cup {p}
          /\ u.clientHost = row.clientHost /\ u.serverHost = row.serverHost
          /\ u.transport.type = row.transport.type /\ u.stagingPath = row.stagingPath
      BY <1>1, <1>5, <3>2, <3>3, MountFields, <3>1
    <3>5. k.at.path = p /\ k.at.staging = row.stagingPath
      BY <1>1, <3>3 DEF PlaceOf, ToMounted, Volume
    <3>6. ShownAt(world, row.clientHost, row.stagingPath) = DeviceOf(row)
      <4>1. row.clientHost \in Clients /\ row.stagingPath \in StagingPaths
        BY <1>1, <1>5, <3>1, <3>2 DEF Shape, Volume
      <4>2. StagingStack(row, row.clientHost, row.stagingPath, world.mount[row.clientHost][row.stagingPath])
        BY <2>1, <4>1 DEF HostsAre, MountsOf
      <4> QED
        BY <3>2, <4>2 DEF StagingStack, ShownAt
    <3>7. w = Push(world, row.clientHost, p, DeviceOf(row))
      BY <1>5, <2>2, <2>6, <3>1, <3>5, <3>6 DEF MountEffect
    <3> QED
      BY <1>1, <2>1, <2>3, <3>2, <3>4, <3>7, BoundHosts DEF HostsAt
  <2>7. CASE k.pc = "umountTarget"
    <3>1. k.op = "Unmount"
      BY <1>2, <2>7 DEF LockedOps, InTransaction
    <3>2. PICK p \in row.targetPaths : k.v = ToUnmounted(row, p) /\ k.at = PlaceOf(k.v, p)
      BY <1>5, <3>1 DEF Made
    <3>3. /\ row.status = MOUNTED /\ u.status \in {STAGED, MOUNTED}
          /\ u.targetPaths = row.targetPaths \ {p}
          /\ u.clientHost = row.clientHost /\ u.serverHost = row.serverHost
          /\ u.transport.type = row.transport.type /\ u.stagingPath = row.stagingPath
      BY <1>1, <1>5, <3>1, <3>2, UnmountFields
    <3>4. k.at.path = p
      BY <3>2 DEF PlaceOf
    <3>5. w = Pop(world, row.clientHost, p)
      BY <1>5, <2>2, <2>7, <3>1, <3>4 DEF MountEffect
    <3>6. IsMounted(row) /\ IsStaged(u) /\ u.status \in Status
      BY <3>3, StatusType DEF IsMounted, IsStaged, STAGED, MOUNTED
    <3> QED
      BY <1>1, <2>1, <3>2, <3>3, <3>5, <3>6, UnboundHosts DEF HostsAt
  <2> QED
    BY <1>11, <2>4, <2>5, <2>6, <2>7 DEF MountCommands
<1> QED
  BY <1>1, <1>6, <1>7, <1>8, <1>9, <1>10, <1>11
     DEF Commands, TargetCommands, SessionCommands


(* A command that fails finds the hosts as the row says: between the two commands
   of a connection or of a disconnection the second one always succeeds. *)
LEMMA FailedHosts ==
  ASSUME TypeOK, Course, SerialInv, HostsInv, faults = 0,
         NEW c \in Calls, call[c].pc \in Commands,
         ~Succeeds(call[c].pc, world, call[c].at)
  PROVE  HostsAre(row, row, world) /\ call[c].pc # "publish"
<1> DEFINE k == call[c]
           u == Coming(c)
<1>1. /\ world \in World /\ row \in Volume /\ k.at \in Place /\ Shape(row)
      /\ k.pc \in Commands /\ ~Succeeds(k.pc, world, k.at)
      /\ u = Updates(row, k.v)
  BY DEF TypeOK, Call, SerialInv, Coming
<1>2. k.pc \in {"login", "unauthorize"}
        => /\ k.op \in LockedOps /\ k.pc \in InTransaction(k.op)
           /\ k.ready /\ Made(k, row)
  BY Underway
<1>3. HostsAt(k.pc, row, u, world)
  BY DEF HostsInv
<1>4. k.pc # "commit"
  BY <1>1 DEF Commands, ZfsCommands, TargetCommands, SessionCommands, FsCommands, MountCommands
<1>5. /\ k.pc = "login" => ~SessionSucceeds("login", world, k.at)
      /\ k.pc \in TargetCommands => ~TargetSucceeds(k.pc, world, k.at)
  <2>1. "login" \in SessionCommands
    BY DEF SessionCommands
  <2> QED
    BY <1>1, <2>1, Wrapper
<1> HIDE DEF k, u
<1>6. k.pc # "login"
  <2> SUFFICES ASSUME k.pc = "login" PROVE FALSE
    OBVIOUS
  <2>1. k.op = "Connect"
    BY <1>2 DEF LockedOps, InTransaction
  <2>2. PICK h \in Clients : k.v = ToConnected(row, h) /\ k.at = PlaceOf(ToConnected(row, h), NoPath)
    BY <1>2, <2>1 DEF Made
  <2>3. /\ row.status = PUBLISHED /\ u.status = CONNECTED /\ u.clientHost = h
        /\ u.serverHost = row.serverHost /\ u.transport.type = row.transport.type
    BY <1>1, <1>2, <2>1, <2>2, ConnectFields DEF Made
  <2>4. /\ k.at.server = row.serverHost /\ k.at.type = row.transport.type
        /\ k.at.client = h
    BY <1>1, <2>2 DEF PlaceOf, ToConnected, Volume, Transport
  <2>5. HostsAre(u, row, world)
    BY <1>3 DEF HostsAt
  <2>6. /\ ExportsOf(u) = {Export(k.at)} /\ ClientsOf(u) = {k.at.client}
        /\ SessionsOf(row) = {}
    BY <2>3, <2>4 DEF ExportsOf, ClientsOf, SessionsOf, Export, IsPublished, IsConnected,
       PUBLISHED, CONNECTED
  <2>7. /\ Export(k.at) \in world.target
        /\ <<Export(k.at), k.at.client>> \in world.acl
        /\ world.session = {}
    BY <2>5, <2>6 DEF HostsAre
  <2>8. LoginSucceeds(world, k.at)
    BY <2>7 DEF LoginSucceeds, SessionsAt
  <2> QED
    BY <1>5, <2>8 DEF SessionSucceeds, NVMeSessionSucceeds, ISCSISessionSucceeds
<1>7. k.pc # "unauthorize"
  <2> SUFFICES ASSUME k.pc = "unauthorize" PROVE FALSE
    OBVIOUS
  <2>1. k.op = "Disconnect"
    BY <1>2 DEF LockedOps, InTransaction
  <2>2. /\ IsConnected(row) /\ ~IsMounted(row) /\ k.at = PlaceOf(row, NoPath)
    BY <1>2, <2>1 DEF Made
  <2>3. /\ k.at.server = row.serverHost /\ k.at.type = row.transport.type
        /\ k.at.client = row.clientHost
    BY <2>2 DEF PlaceOf
  <2>4. HostsAre(row, u, world)
    BY <1>3 DEF HostsAt
  <2>5. ExportsOf(row) = {Export(k.at)} /\ ClientsOf(row) = {k.at.client}
    <3>1. row.status \in {CONNECTED, STAGED}
      BY <1>1, <1>2, <2>2, DisconnectFields DEF Made
    <3>2. IsPublished(row) /\ IsConnected(row)
      BY <3>1 DEF IsPublished, IsConnected, PUBLISHED, CONNECTED, STAGED
    <3> QED
      BY <2>3, <3>2 DEF ExportsOf, ClientsOf, Export
  <2>6. <<Export(k.at), k.at.client>> \in world.acl
    BY <2>4, <2>5 DEF HostsAre
  <2> QED
    BY <1>5, <2>6 DEF TargetCommands, TargetSucceeds, NVMeTargetSucceeds
<1>8. k.pc # "publish"
  BY <1>5 DEF TargetCommands, TargetSucceeds, NVMeTargetSucceeds
<1> QED
  BY <1>3, <1>4, <1>6, <1>7, <1>8 DEF HostsAt, k

(* No call is between two commands that change the hosts. *)
Settled(k) == k.pc \notin {"login", "unauthorize", "commit", "publish"}

LEMMA HostsRest ==
  ASSUME HostsAre(row, row, world)', \A c \in Calls : Settled(call'[c])
  PROVE  HostsInv'
BY DEF HostsInv, HostsAt, Settled

LEMMA RowsHosts ==
  ASSUME OneCall, HostsInv, faults = 0, \A c \in Calls : Settled(call[c])
  PROVE  HostsAre(row, row, world)
<1>1. CASE Quiet
  BY <1>1 DEF HostsInv
<1>2. CASE ~Quiet
  <2>1. PICK c \in Calls : call[c].pc # "idle"
    BY <1>2 DEF Quiet
  <2> QED
    BY <2>1 DEF HostsInv, HostsAt, Settled
<1> QED
  BY <1>1, <1>2

LEMMA HostsStep ==
  ASSUME OneCall, PathlessCreates, TypeOK, Course, SerialInv, WritersInv, HostsInv,
         [Next]_vars
  PROVE  HostsInv'
<1> SUFFICES ASSUME faults' = 0 PROVE HostsInv'
  BY DEF HostsInv
<1>1. faults = 0
  BY DEF TypeOK, Next, Request, Progress, Fault, CreateVolume, DeleteVolume, PublishVolume,
     UnpublishVolume, ConnectVolume, DisconnectVolume, StageVolume, UnstageVolume,
     MountVolume, UnmountVolume, UpdateVolume, Accept, Begin, WriteUpdate, NotReady,
     LockTimeout, RunCommand, CommandFails, Commit, DeleteRow, LoseAnswer, LoseCommand,
     Crash, vars
<1>2. row \in Volume /\ Shape(row)
  BY DEF TypeOK, SerialInv
<1>3. ASSUME NEW c \in Calls, NEW pc \in Steps, Goto(c, pc)
      PROVE  /\ \A d \in Calls : d = c
             /\ pc = "idle" => call'[c] = Idle
             /\ pc # "idle" => /\ call'[c].pc = pc /\ call'[c].v = call[c].v
                               /\ call'[c].at = call[c].at
  BY <1>3, GotoStep DEF OneCall
<1>4. ASSUME NEW c \in Calls, NEW pc \in Steps, Goto(c, pc), HostsAre(row, row, world)',
             pc \notin {"login", "unauthorize", "commit", "publish"}
      PROVE  HostsInv'
  BY <1>3, <1>4, HostsRest DEF Settled, Idle
<1>5. ASSUME NEW c \in Calls, Settled(call[c])
      PROVE  HostsAre(row, row, world)
  BY <1>1, <1>5, RowsHosts DEF OneCall
<1>6. HostsAre(row, row, world) /\ UNCHANGED <<row, world>> => HostsAre(row, row, world)'
  BY DEF HostsAre, MountsOf
<1>7. ASSUME NEW m \in CreateModes, NEW t \in AnyTransport,
             NEW out \in CreateOutputs, CreateVolume(m, t, out)
      PROVE  HostsInv'
  <2>1. ~Exists(row) /\ row' = NewVolume(m, t, out) /\ UNCHANGED <<call, world>>
    BY <1>7 DEF CreateVolume
  <2>2. \A c \in Calls : Settled(call[c])
    BY <2>1 DEF Settled, Course, OnCourse, Accepted, Locked, LockedOps, SerialInv, Fresh, Made
  <2>3. HostsAre(row, row, world)
    BY <1>1, <2>2, RowsHosts
  <2>4. HostsAre(row', row', world)
    BY <1>2, <1>7, <2>1, <2>3, SameHosts DEF PathlessCreates, Shape, NewVolume, Exists, IsPublished, IsConnected,
       IsStaged, IsMounted, UNSPECIFIED, INITIAL, PUBLISHED, CONNECTED, STAGED, MOUNTED
  <2>5. HostsAre(row, row, world)'
    BY <2>1, <2>4 DEF HostsAre, MountsOf
  <2> QED
    BY <2>1, <2>2, <2>5, HostsRest
<1>8. ASSUME NEW c \in Calls, Request(c)
      PROVE  HostsInv'
  <2>1. PICK op, v, at, ready, pc :
           Accept(c, op, pc, v, at, ready) /\ pc \in {"write", "zfsDestroy", "delete"}
    BY <1>8, RequestAccepts
  <2>2. call[c].pc = "idle" /\ UNCHANGED <<row, world>> /\ call'[c].pc = pc
    BY <2>1 DEF Accept, TypeOK
  <2>3. HostsAre(row, row, world)'
    BY <1>5, <1>6, <2>2 DEF Settled
  <2> QED
    BY <2>1, <2>2, <2>3, HostsRest DEF Settled, OneCall
<1>9. ASSUME NEW c \in Calls, Begin(c)
      PROVE  HostsInv'
  <2>1. First(call[c].op) \in Steps \ {"login", "unauthorize", "commit", "publish"}
    BY StepsTaken DEF First
  <2>2. HostsAre(row, row, world)'
    BY <1>5, <1>6, <1>9 DEF Begin, Settled
  <2> QED
    BY <1>4, <1>9, <2>1, <2>2 DEF Begin
<1>10. ASSUME NEW c \in Calls, WriteUpdate(c)
       PROVE  HostsInv'
  <2>1. /\ Made(call[c], row) /\ row' = Updates(row, ToUpdated(row)) /\ Exists(row)
        /\ UNCHANGED world
    BY <1>10 DEF WriteUpdate, SerialInv, Fresh, Made
  <2>2. HostsAre(row, row, world)
    BY <1>5, <1>10 DEF WriteUpdate, Settled
  <2>3. /\ row'.status = row.status /\ row'.serverHost = row.serverHost
        /\ row'.clientHost = row.clientHost /\ row'.stagingPath = row.stagingPath
        /\ row'.targetPaths = row.targetPaths
        /\ row'.transport.type = row.transport.type
    BY <1>2, <2>1, UpdateFields
  <2>4. HostsAre(row', row', world)
    <3>1. /\ IsPublished(row') <=> IsPublished(row)
          /\ IsConnected(row') <=> IsConnected(row)
          /\ IsStaged(row') <=> IsStaged(row)
      BY <2>3 DEF IsPublished, IsConnected, IsStaged
    <3>2. /\ IsConnected(row) => IsPublished(row)
          /\ IsStaged(row) \/ row.targetPaths # {} => IsConnected(row)
      BY <1>2 DEF Shape, IsPublished, IsConnected, IsStaged, IsMounted, PUBLISHED, CONNECTED,
         STAGED, MOUNTED, Volume, Status, UNSPECIFIED, INITIAL
    <3> QED
      BY <2>2, <2>3, <3>1, <3>2, SameHosts
  <2>5. HostsAre(row, row, world)'
    BY <2>1, <2>4 DEF HostsAre, MountsOf
  <2>6. FirstOfUpdate(call[c].v) \in Steps \ {"login", "unauthorize", "commit", "publish"}
    BY StepsTaken DEF FirstOfUpdate, RescanOrAnswer
  <2> QED
    BY <1>4, <1>10, <2>5, <2>6 DEF WriteUpdate
<1>11. ASSUME NEW c \in Calls, NotReady(c) \/ LockTimeout(c) \/ CommandFails(c)
       PROVE  HostsInv'
  <2>1. HostsAre(row, row, world)
    BY <1>1, <1>5, <1>11, FailedHosts DEF NotReady, LockTimeout, CommandFails, Settled
  <2>2. Goto(c, "idle") /\ UNCHANGED <<row, world>>
    BY <1>11 DEF NotReady, LockTimeout, CommandFails, Fail
  <2> QED
    BY <1>4, <1>6, <2>1, <2>2 DEF Steps
<1>12. ASSUME NEW c \in Calls, RunCommand(c)
       PROVE  HostsInv'
  <2> DEFINE n == After(call[c].pc, call[c].v, world, call[c].at)
  <2>1. /\ call[c].pc \in Commands /\ Succeeds(call[c].pc, world, call[c].at)
        /\ world' = Effect(call[c].pc, world, call[c].at)
        /\ row' = row /\ Goto(c, n)
    BY <1>12 DEF RunCommand
  <2>2. /\ HostsAt(n, row, Coming(c), world')
        /\ n = "publish" => world'.zvol[call[c].at.server] # "absent"
    BY <1>1, <2>1, CommandHosts
  <2>3. n \in Steps
    BY <2>1, AfterStep DEF Steps
  <2> HIDE DEF n
  <2>4. CASE Settled([pc |-> n])
    <3>1. HostsAre(row, row, world)'
      BY <2>1, <2>2, <2>4 DEF HostsAt, Settled, HostsAre, MountsOf
    <3> QED
      BY <1>4, <2>1, <2>3, <2>4, <3>1 DEF Settled
  <2>5. CASE ~Settled([pc |-> n])
    <3>1. /\ n # "idle" /\ call'[c].pc = n /\ call'[c].v = call[c].v
          /\ call'[c].at = call[c].at /\ \A d \in Calls : d = c
      BY <1>3, <2>1, <2>3, <2>5 DEF Settled
    <3>2. Coming(c)' = Coming(c)
      BY <2>1, <3>1 DEF Coming
    <3>3. HostsAt(call[c].pc, row, Coming(c), world)'
      BY <2>1, <2>2, <3>1, <3>2 DEF HostsAt, HostsAre, MountsOf
    <3>4. ~Quiet'
      BY <3>1 DEF Quiet
    <3> QED
      BY <2>2, <3>1, <3>3, <3>4 DEF HostsInv
  <2> QED
    BY <2>4, <2>5
<1>13. ASSUME NEW c \in Calls, Commit(c)
       PROVE  HostsInv'
  <2>1. HostsAre(Coming(c), Coming(c), world)
    BY <1>1, <1>13 DEF Commit, HostsInv, HostsAt
  <2>2. row' = Coming(c) /\ UNCHANGED world /\ Goto(c, "idle")
    BY <1>13 DEF Commit, Coming
  <2>3. HostsAre(row, row, world)'
    BY <2>1, <2>2 DEF HostsAre, MountsOf
  <2> QED
    BY <1>4, <2>2, <2>3 DEF Steps
<1>14. ASSUME NEW c \in Calls, DeleteRow(c)
       PROVE  HostsInv'
  <2>1. call[c].op = "Delete"
    BY <1>14 DEF DeleteRow, Course, OnCourse, Accepted, Locked, LockedOps, InTransaction
  <2>2. /\ row.status = INITIAL /\ row' = NoVolume /\ UNCHANGED world /\ Goto(c, "idle")
    BY <1>2, <1>14, <2>1, Rungs DEF DeleteRow, SerialInv, Fresh, Made
  <2>3. HostsAre(row, row, world)
    BY <1>5, <1>14 DEF DeleteRow, Settled
  <2>4. HostsAre(row', row', world)
    BY <1>2, <2>2, <2>3, SameHosts DEF Shape, NoVolume, NewVolume, NoOutputs, IsPublished, IsConnected,
       IsStaged, IsMounted, UNSPECIFIED, INITIAL, PUBLISHED, CONNECTED, STAGED, MOUNTED
  <2>5. HostsAre(row, row, world)'
    BY <2>2, <2>4 DEF HostsAre, MountsOf
  <2> QED
    BY <1>4, <2>2, <2>5 DEF Steps
<1>15. ASSUME NEW c \in Calls, Fault(c)
       PROVE  FALSE
  BY <1>1, <1>15 DEF Fault, LoseAnswer, LoseCommand
<1>16. ~Crash
  BY <1>1 DEF Crash
<1>17. CASE UNCHANGED vars
  <2>1. UNCHANGED <<row, world, call>>
    BY <1>17 DEF vars
  <2>2. \A c \in Calls : Coming(c)' = Coming(c)
    BY <2>1 DEF Coming
  <2>3. HostsAre(row, row, world) => HostsAre(row, row, world)'
    BY <1>6, <2>1
  <2>4. \A c \in Calls : HostsAt(call[c].pc, row, Coming(c), world)
                            => HostsAt(call[c].pc, row, Coming(c), world)'
    BY <2>1, <2>2 DEF HostsAt, HostsAre, MountsOf
  <2> QED
    BY <1>1, <2>1, <2>3, <2>4 DEF HostsInv, Quiet
<1> QED
  BY <1>7, <1>8, <1>9, <1>10, <1>11, <1>12, <1>13, <1>14, <1>15, <1>16, <1>17
     DEF Next, Progress

-----------------------------------------------------------------------------
(* The zvol, as long as nothing has failed, and with one server. *)
LEMMA CommandZvol ==
  ASSUME NEW w \in World, NEW at \in Place, NEW cmd \in Commands,
         NEW x, x = Effect(cmd, w, at)
  PROVE  /\ cmd \notin {"zfsCreate", "zfsDestroy", "mkfs"} => x.zvol = w.zvol
         /\ cmd = "zfsDestroy" /\ at.server \in Servers => x.zvol[at.server] = "absent"
<1>1. CASE cmd \in ZfsCommands
  BY <1>1, Wrapper DEF ZfsEffect, ZfsCommands, World
<1>2. CASE cmd \in TargetCommands
  <2>1. PICK y, z : \/ TargetEffect(cmd, w, at) = w
                    \/ TargetEffect(cmd, w, at) = [w EXCEPT !.target = y, !.acl = z]
                    \/ TargetEffect(cmd, w, at) = [w EXCEPT !.target = y]
                    \/ TargetEffect(cmd, w, at) = [w EXCEPT !.acl = z]
    <3>1. CASE cmd = "publish"
      BY <3>1 DEF TargetEffect
    <3>2. CASE cmd = "unpublish"
      BY <3>2 DEF TargetEffect
    <3>3. CASE cmd = "authorize"
      BY <3>3 DEF TargetEffect
    <3>4. CASE cmd = "unauthorize"
      BY <3>4 DEF TargetEffect
    <3> QED
      BY <1>2, <3>1, <3>2, <3>3, <3>4 DEF TargetCommands
  <2>2. TargetEffect(cmd, w, at).zvol = w.zvol
    BY <2>1 DEF World
  <2> QED
    BY <1>2, <2>2, Wrapper DEF TargetCommands
<1>3. CASE cmd \in SessionCommands
  <2>1. PICK s, m : \/ SessionEffect(cmd, w, at) = w
                    \/ SessionEffect(cmd, w, at) = [w EXCEPT !.session = s]
                    \/ SessionEffect(cmd, w, at)
                         = [[w EXCEPT !.session = s] EXCEPT !.mount = m]
    <3>1. CASE cmd = "login"
      BY <3>1 DEF SessionEffect
    <3>2. CASE cmd = "logout"
      BY <3>2 DEF SessionEffect, CloseSessions
    <3>3. CASE cmd = "rescan"
      BY <3>3 DEF SessionEffect
    <3> QED
      BY <1>3, <3>1, <3>2, <3>3 DEF SessionCommands
  <2>2. SessionEffect(cmd, w, at).zvol = w.zvol
    BY <2>1 DEF World
  <2> QED
    BY <1>3, <2>2, Wrapper DEF SessionCommands
<1>4. CASE cmd \in FsCommands
  <2>1. x = FsEffect(cmd, w, at) /\ cmd # "zfsDestroy"
    BY <1>4, Wrapper DEF FsCommands
  <2>2. cmd # "mkfs" => x = w
    BY <2>1 DEF FsEffect
  <2> QED
    BY <2>1, <2>2
<1>5. CASE cmd \in MountCommands
  <2>1. \A c, p, b : Push(w, c, p, b).zvol = w.zvol /\ Pop(w, c, p).zvol = w.zvol
    BY DEF Push, Pop, World
  <2> QED
    BY <1>5, <2>1, Wrapper DEF MountEffect, MountCommands
<1> QED
  BY <1>1, <1>2, <1>3, <1>4, <1>5 DEF Commands

(* A commit of a transaction leaves a row, and a server once there was one. *)
LEMMA CommitKeeps ==
  ASSUME NEW r \in Volume, Shape(r), NEW k, k.v \in Volume, k.op \in LockedOps, k.ready,
         Made(k, r), NEW u, u = Updates(r, k.v)
  PROVE  /\ Exists(u)
         /\ r.serverHost # NoHost \/ k.op = "Publish" => u.serverHost # NoHost
<1>1. Exists(r)
  BY DEF Made
<1>2. /\ u.status = k.v.status
      /\ u.serverHost = IF k.v.serverHost = NoHost THEN r.serverHost ELSE k.v.serverHost
  BY <1>1, UpdatesFields
<1>3. CASE k.op = "Publish"
  <2>1. PICK s \in Servers, t \in Transports : k.v = ToPublished(r, s, t)
    BY <1>3 DEF Made
  <2>2. u.status = PUBLISHED /\ u.serverHost = s
    BY <1>1, <1>3, <2>1, PublishFields DEF Made
  <2> QED
    BY <2>2, HostsAssumption DEF Exists, UNSPECIFIED, PUBLISHED
<1>4. CASE k.op = "Unpublish"
  BY <1>1, <1>2, <1>4, UnpublishFields DEF Made, Exists, UNSPECIFIED, INITIAL
<1>5. CASE k.op = "Connect"
  <2>1. PICK h \in Clients : k.v = ToConnected(r, h)
    BY <1>5 DEF Made
  <2>2. u.status = CONNECTED
    BY <1>1, <1>5, <2>1, ConnectFields DEF Made
  <2> QED
    BY <1>2, <1>5, <2>2 DEF Exists, UNSPECIFIED, CONNECTED
<1>6. CASE k.op = "Disconnect"
  BY <1>1, <1>2, <1>6, DisconnectFields DEF Made, Exists, UNSPECIFIED, PUBLISHED
<1>7. CASE k.op = "Stage"
  <2>1. PICK p \in StagingPaths : k.v = ToStaged(r, p)
    BY <1>7 DEF Made
  <2>2. u.status = STAGED
    BY <1>1, <1>7, <2>1, StageFields DEF Made
  <2> QED
    BY <1>2, <1>7, <2>2 DEF Exists, UNSPECIFIED, STAGED
<1>8. CASE k.op = "Unstage"
  BY <1>1, <1>2, <1>8, UnstageFields DEF Made, Exists, UNSPECIFIED, CONNECTED
<1>9. CASE k.op = "Mount"
  <2>1. PICK p \in MountPaths \ r.targetPaths : k.v = ToMounted(r, p)
    BY <1>9 DEF Made
  <2>2. u.status = MOUNTED
    BY <1>1, <1>9, <2>1, MountFields DEF Made
  <2> QED
    BY <1>2, <1>9, <2>2 DEF Exists, UNSPECIFIED, MOUNTED
<1>10. CASE k.op = "Unmount"
  <2>1. PICK p \in r.targetPaths : k.v = ToUnmounted(r, p)
    BY <1>10 DEF Made
  <2>2. u.status \in {STAGED, MOUNTED}
    BY <1>1, <1>10, <2>1, UnmountFields
  <2> QED
    BY <1>2, <1>10, <2>2 DEF Exists, UNSPECIFIED, STAGED, MOUNTED
<1> QED
  BY <1>3, <1>4, <1>5, <1>6, <1>7, <1>8, <1>9, <1>10 DEF LockedOps

LEMMA ZvolStep ==
  ASSUME OneCall, OneServer, TypeOK, Course, SerialInv, ZvolInv, [Next]_vars
  PROVE  ZvolInv'
<1> SUFFICES ASSUME faults' = 0 PROVE ZvolInv'
  BY DEF ZvolInv
<1>1. faults = 0
  BY DEF TypeOK, Next, Request, Progress, Fault, CreateVolume, DeleteVolume, PublishVolume,
     UnpublishVolume, ConnectVolume, DisconnectVolume, StageVolume, UnstageVolume,
     MountVolume, UnmountVolume, UpdateVolume, Accept, Begin, WriteUpdate, NotReady,
     LockTimeout, RunCommand, CommandFails, Commit, DeleteRow, LoseAnswer, LoseCommand,
     Crash, vars
<1>2. row \in Volume /\ Shape(row)
  BY DEF TypeOK, SerialInv
<1>3. ASSUME NEW c \in Calls, NEW pc \in Steps, Goto(c, pc)
      PROVE  /\ \A d \in Calls : d = c
             /\ pc = "idle" => call'[c] = Idle
             /\ pc # "idle" => call'[c].pc = pc /\ call'[c].op = call[c].op
  BY <1>3, GotoStep DEF OneCall
<1>4. UNCHANGED world => NoZvol(world') = NoZvol(world)
  OBVIOUS
(* A step to a place where nothing is promised, by a call that promised nothing. *)
<1>5. ASSUME NEW c \in Calls, NEW pc \in Steps, Goto(c, pc), UNCHANGED world,
             pc \notin {"zfsDestroy", "delete"},
             Exists(row) => Exists(row'),
             row.serverHost # NoHost => row'.serverHost # NoHost,
             ~(call[c].op = "Publish" /\ call[c].pc \in {"publish", "commit"})
      PROVE  ZvolInv'
  BY <1>1, <1>3, <1>4, <1>5 DEF ZvolInv, NoZvol, Idle
<1>6. ASSUME NEW m \in CreateModes, NEW t \in AnyTransport,
             NEW out \in CreateOutputs, CreateVolume(m, t, out)
      PROVE  ZvolInv'
  <2>1. ~Exists(row) /\ UNCHANGED <<call, world>>
    BY <1>6 DEF CreateVolume
  <2>2. NoZvol(world)'
    BY <1>1, <2>1 DEF ZvolInv, NoZvol
  <2>3. \A c \in Calls : call'[c].pc # "zfsDestroy"
    BY <2>1 DEF Course, OnCourse, Accepted, Locked, LockedOps, InTransaction, SerialInv,
       Fresh, Made
  <2> QED
    BY <2>2, <2>3 DEF ZvolInv
<1>7. ASSUME NEW c \in Calls, Request(c)
      PROVE  ZvolInv'
  <2>1. PICK op, v, at, ready, pc :
           Accept(c, op, pc, v, at, ready) /\ pc \in {"write", "zfsDestroy", "delete"}
    BY <1>7, RequestAccepts
  <2>2. /\ call[c].pc = "idle" /\ UNCHANGED <<row, world>>
        /\ call'[c].pc = pc /\ call'[c].op = op /\ \A d \in Calls : d = c
    BY <2>1 DEF Accept, TypeOK, OneCall
  <2>3. row.serverHost # NoHost \/ NoZvol(world)
    BY <1>1, <2>2 DEF ZvolInv
  <2>4. /\ pc = "zfsDestroy" => row.serverHost # NoHost
        /\ op = "Delete" /\ pc = "delete" => row.serverHost = NoHost
    <3>1. CASE DeleteVolume(c)
      <4>1. call'[c].pc = IF row.serverHost = NoHost THEN "delete" ELSE "zfsDestroy"
        BY <3>1 DEF DeleteVolume, Accept, TypeOK
      <4> QED
        BY <2>2, <4>1
    <3>2. CASE ~DeleteVolume(c)
      <4>1. call'[c].pc = "write"
        BY <1>7, <3>2 DEF Request, PublishVolume, UnpublishVolume, ConnectVolume,
           DisconnectVolume, StageVolume, UnstageVolume, MountVolume, UnmountVolume,
           UpdateVolume, Accept, TypeOK
      <4> QED
        BY <2>2, <4>1
    <3> QED
      BY <3>1, <3>2
  <2> QED
    BY <1>1, <2>2, <2>3, <2>4 DEF ZvolInv, NoZvol
<1>8. ASSUME NEW c \in Calls, Begin(c)
      PROVE  ZvolInv'
  <2>1. First(call[c].op) \in Steps \ {"zfsDestroy", "delete"}
    BY StepsTaken DEF First
  <2> QED
    BY <1>5, <1>8, <2>1 DEF Begin
<1>9. ASSUME NEW c \in Calls, WriteUpdate(c)
      PROVE  ZvolInv'
  <2>1. /\ row' = Updates(row, ToUpdated(row)) /\ Exists(row)
    BY <1>9 DEF WriteUpdate, SerialInv, Fresh, Made
  <2>2. row'.status = row.status /\ row'.serverHost = row.serverHost
    BY <1>2, <2>1, UpdateFields
  <2>3. FirstOfUpdate(call[c].v) \in Steps \ {"zfsDestroy", "delete"}
    BY StepsTaken DEF FirstOfUpdate, RescanOrAnswer
  <2> QED
    BY <1>5, <1>9, <2>2, <2>3 DEF WriteUpdate, Exists
<1>10. ASSUME NEW c \in Calls, NotReady(c) \/ LockTimeout(c) \/ CommandFails(c)
       PROVE  ZvolInv'
  <2>1. Goto(c, "idle") /\ UNCHANGED <<row, world>>
    BY <1>10 DEF NotReady, LockTimeout, CommandFails, Fail
  <2>2. call[c].pc \notin {"publish", "commit"}
    <3>1. CommandFails(c) => call[c].pc # "publish"
      BY Wrapper DEF CommandFails, TargetCommands, TargetSucceeds, NVMeTargetSucceeds
    <3>2. "commit" \notin Commands
      BY DEF Commands, ZfsCommands, TargetCommands, SessionCommands, FsCommands,
         MountCommands
    <3> QED
      BY <1>10, <3>1, <3>2 DEF NotReady, LockTimeout, CommandFails
  <2> QED
    BY <1>5, <2>1, <2>2 DEF Steps
<1>11. ASSUME NEW c \in Calls, RunCommand(c)
       PROVE  ZvolInv'
  <2> DEFINE n == After(call[c].pc, call[c].v, world, call[c].at)
  <2>1. /\ call[c].pc \in Commands /\ row' = row /\ Goto(c, n)
        /\ Succeeds(call[c].pc, world, call[c].at)
        /\ world' = Effect(call[c].pc, world, call[c].at)
    BY <1>11 DEF RunCommand
  <2>2. world \in World /\ call[c].at \in Place
    BY DEF TypeOK, Call
  <2>3. n \in Steps
    BY <2>1, AfterStep DEF Steps
  <2>4. /\ call[c].pc \in {"zfsList", "zfsCreate", "publish"} => n \in {"zfsCreate", "publish", "commit"}
        /\ call[c].pc = "zfsDestroy" => n = "delete"
        /\ call[c].pc # "zfsDestroy" => n \notin {"delete", "zfsDestroy"}
        /\ call[c].pc = "zfsCreate" => n = "publish"
        /\ call[c].pc = "publish" => n = "commit"
    BY <2>1 DEF After, RescanOrAnswer, Commands, ZfsCommands, TargetCommands,
       SessionCommands, FsCommands, MountCommands
  <2> HIDE DEF n
  <2>5. /\ \A d \in Calls : d = c
        /\ n = "idle" => call'[c] = Idle
        /\ n # "idle" => call'[c].pc = n /\ call'[c].op = call[c].op
    BY <1>3, <2>1, <2>3
  <2>6. /\ call[c].pc \in {"zfsCreate", "publish"} => call[c].op = "Publish"
        /\ call[c].pc = "zfsDestroy" => call[c].op = "Delete"
        /\ call[c].pc = "mkfs" => call[c].op = "Stage"
        /\ call[c].op = "Delete" => call[c].pc = "zfsDestroy"
        /\ call[c].op # "none" /\ call[c].pc \notin {"idle", "commit"}
    BY <2>1 DEF Course, OnCourse, Accepted, Locked, LockedOps, InTransaction, Commands,
       ZfsCommands, TargetCommands, SessionCommands, FsCommands, MountCommands
  <2>7. call[c].op # "Update" => Made(call[c], row)
    BY <2>6 DEF SerialInv, Fresh
  <2>8. CASE call[c].pc = "zfsCreate"
    <3>1. Exists(row)
      BY <2>6, <2>7, <2>8 DEF Made
    <3> QED
      BY <2>1, <2>4, <2>5, <2>6, <2>8, <3>1 DEF ZvolInv
  <2>9. CASE call[c].pc = "zfsDestroy"
    <3>1. call[c].at.server = row.serverHost /\ row.serverHost \in Servers
      BY <1>1, <1>2, <2>6, <2>7, <2>9 DEF Made, PlaceOf, ZvolInv, Volume
    <3>2. world'.zvol[call[c].at.server] = "absent"
      BY <2>1, <2>2, <2>9, <3>1, CommandZvol
    <3>3. NoZvol(world')
      BY <3>1, <3>2 DEF OneServer, NoZvol
    <3> QED
      BY <2>4, <2>5, <2>9, <3>3 DEF ZvolInv
  <2>10. CASE call[c].pc = "mkfs"
    <3>1. Exists(row) /\ IsConnected(row)
      BY <2>6, <2>7, <2>10 DEF Made
    <3>2. row.serverHost # NoHost
      BY <1>2, <3>1 DEF Shape, IsPublished, IsConnected, PUBLISHED, CONNECTED, STAGED,
         MOUNTED, Volume, Status, UNSPECIFIED, INITIAL
    <3> QED
      BY <2>1, <2>4, <2>5, <2>6, <2>10, <3>1, <3>2 DEF ZvolInv, Idle
  <2>11. CASE call[c].pc \notin {"zfsCreate", "zfsDestroy", "mkfs"}
    <3>1. world'.zvol = world.zvol
      BY <2>1, <2>2, <2>11, CommandZvol
    <3>2. NoZvol(world') <=> NoZvol(world)
      BY <3>1 DEF NoZvol
    <3>3. call[c].op = "Publish" /\ call[c].pc \in {"publish", "commit"}
             => call'[c].op = "Publish" /\ call'[c].pc = "commit"
      BY <2>4, <2>5, <2>6
    <3>4. /\ Exists(row) \/ NoZvol(world)
          /\ row.serverHost # NoHost \/ NoZvol(world)
                \/ (call[c].op = "Publish" /\ call[c].pc \in {"publish", "commit"})
      <4>1. /\ Exists(row) \/ NoZvol(world)
            /\ row.serverHost # NoHost \/ NoZvol(world)
                 \/ \E d \in Calls : call[d].op = "Publish" /\ call[d].pc \in {"publish", "commit"}
        BY <1>1 DEF ZvolInv
      <4>2. (\E d \in Calls : call[d].op = "Publish" /\ call[d].pc \in {"publish", "commit"})
               => call[c].op = "Publish" /\ call[c].pc \in {"publish", "commit"}
        BY <2>5
      <4> QED
        BY <4>1, <4>2
    <3>5. call'[c].pc \notin {"zfsDestroy", "delete"}
      BY <2>4, <2>5, <2>11 DEF Idle
    <3> QED
      BY <2>1, <2>5, <3>2, <3>3, <3>4, <3>5 DEF ZvolInv
  <2> QED
    BY <2>8, <2>9, <2>10, <2>11
<1>12. ASSUME NEW c \in Calls, Commit(c)
       PROVE  ZvolInv'
  <2>1. call[c].op \in LockedOps /\ call[c].ready
    BY <1>12 DEF Commit, Course, OnCourse, Accepted, Locked
  <2>2. Made(call[c], row) /\ call[c].v \in Volume
    BY <1>12, <2>1 DEF Commit, SerialInv, Fresh, LockedOps, TypeOK, Call
  <2>3. /\ Exists(row')
        /\ row.serverHost # NoHost \/ call[c].op = "Publish" => row'.serverHost # NoHost
    BY <1>2, <1>12, <2>1, <2>2, CommitKeeps DEF Commit
  <2>4. /\ \A d \in Calls : d = c
        /\ call'[c] = Idle /\ UNCHANGED world
    BY <1>3, <1>12 DEF Commit, Steps
  <2> QED
    BY <1>1, <2>3, <2>4 DEF ZvolInv, NoZvol, Idle
<1>13. ASSUME NEW c \in Calls, DeleteRow(c)
       PROVE  ZvolInv'
  <2>1. call[c].op = "Delete"
    BY <1>13 DEF DeleteRow, Course, OnCourse, Accepted, Locked, LockedOps, InTransaction
  <2>2. NoZvol(world)'
    BY <1>1, <1>13, <2>1 DEF DeleteRow, ZvolInv, NoZvol
  <2>3. /\ \A d \in Calls : d = c
        /\ call'[c] = Idle
    BY <1>3, <1>13 DEF DeleteRow, Steps
  <2> QED
    BY <2>2, <2>3 DEF ZvolInv, Idle
<1>14. ASSUME NEW c \in Calls, Fault(c)
       PROVE  FALSE
  BY <1>1, <1>14 DEF Fault, LoseAnswer, LoseCommand
<1>15. ~Crash
  BY <1>1 DEF Crash
<1>16. CASE UNCHANGED vars
  BY <1>1, <1>16 DEF vars, ZvolInv, NoZvol
<1> QED
  BY <1>6, <1>7, <1>8, <1>9, <1>10, <1>11, <1>12, <1>13, <1>14, <1>15, <1>16
     DEF Next, Progress

(* What the invariants say of a row at rest. *)
LEMMA HostsMatch ==
  ASSUME TypeOK, HostsInv, ZvolInv
  PROVE  RowMatchesHosts
<1> SUFFICES ASSUME Quiet, faults = 0
             PROVE  /\ ~Exists(row) => \A s \in Servers : world.zvol[s] = "absent"
                    /\ world.target = IF IsPublished(row)
                                      THEN {<<row.serverHost, row.transport.type>>} ELSE {}
                    /\ world.acl = world.target \X (IF IsConnected(row) THEN {row.clientHost} ELSE {})
                    /\ {s.client : s \in world.session}
                          = IF IsConnected(row) THEN {row.clientHost} ELSE {}
                    /\ \A c \in Clients, p \in StagingPaths :
                          ShownAt(world, c, p).kind = "device"
                             <=> IsStaged(row) /\ row.clientHost = c /\ row.stagingPath = p
                    /\ \A c \in Clients, p \in row.targetPaths :
                          c = row.clientHost => ShownAt(world, c, p).kind = "device"
  BY DEF RowMatchesHosts
<1>1. HostsAre(row, row, world)
  BY DEF HostsInv
<1>2. ~Exists(row) => \A s \in Servers : world.zvol[s] = "absent"
  BY DEF ZvolInv, NoZvol
<1>3. /\ world.target = IF IsPublished(row)
                        THEN {<<row.serverHost, row.transport.type>>} ELSE {}
      /\ world.acl = world.target \X (IF IsConnected(row) THEN {row.clientHost} ELSE {})
  BY <1>1 DEF HostsAre, ExportsOf, ClientsOf
<1>4. {s.client : s \in world.session} = IF IsConnected(row) THEN {row.clientHost} ELSE {}
  <2>1. world.session = SessionsOf(row)
    BY <1>1 DEF HostsAre
  <2>2. CASE IsConnected(row)
    <3> DEFINE x == [client |-> row.clientHost, server |-> row.serverHost,
                     type |-> row.transport.type, portal |-> "data"]
    <3>1. world.session = {x}
      BY <2>1, <2>2 DEF SessionsOf
    <3>2. x.client = row.clientHost
      OBVIOUS
    <3> HIDE DEF x
    <3> QED
      BY <2>2, <3>1, <3>2
  <2>3. CASE ~IsConnected(row)
    BY <2>1, <2>3 DEF SessionsOf
  <2> QED
    BY <2>2, <2>3
<1>5. ASSUME NEW c \in Clients, NEW p \in StagingPaths
      PROVE  ShownAt(world, c, p).kind = "device"
                <=> IsStaged(row) /\ row.clientHost = c /\ row.stagingPath = p
  <2>1. StagingStack(row, c, p, world.mount[c][p])
    BY <1>1 DEF HostsAre, MountsOf
  <2>2. world.mount[c][p] \in Seq(Backing)
    BY DEF TypeOK, World, Paths
  <2>3. CASE IsStaged(row) /\ row.clientHost = c /\ row.stagingPath = p
    BY <2>1, <2>3 DEF StagingStack, ShownAt, DeviceOf, Device
  <2>4. CASE ~(IsStaged(row) /\ row.clientHost = c /\ row.stagingPath = p)
    <3>1. AllDead(world.mount[c][p])
      BY <2>1, <2>4 DEF StagingStack
    <3>2. CASE world.mount[c][p] = <<>>
      BY <2>4, <3>2 DEF ShownAt, PlainDir
    <3>3. CASE world.mount[c][p] # <<>>
      <4>1. 1 \in DOMAIN world.mount[c][p] /\ Head(world.mount[c][p]) = world.mount[c][p][1]
        BY <2>2, <3>3
      <4> QED
        BY <2>4, <3>1, <3>3, <4>1 DEF ShownAt, AllDead
    <3> QED
      BY <3>2, <3>3
  <2> QED
    BY <2>3, <2>4
<1>6. ASSUME NEW c \in Clients, NEW p \in row.targetPaths, c = row.clientHost
      PROVE  ShownAt(world, c, p).kind = "device"
  <2>1. p \in MountPaths
    BY DEF TypeOK, Volume
  <2>2. world.mount[c][p] = <<DeviceOf(row)>>
    BY <1>1, <1>6, <2>1 DEF HostsAre, MountsOf, TargetStack
  <2>3. <<DeviceOf(row)>> # <<>> /\ Head(<<DeviceOf(row)>>) = DeviceOf(row)
    OBVIOUS
  <2> QED
    BY <2>2, <2>3 DEF ShownAt, DeviceOf, Device
<1> QED
  BY <1>2, <1>3, <1>4, <1>5, <1>6

LEMMA HostsInit == Init => HostsInv /\ ZvolInv
<1> SUFFICES ASSUME Init PROVE HostsInv /\ ZvolInv
  OBVIOUS
<1>1. NoZvol(world) /\ \A c \in Calls : call[c].pc = "idle"
  BY DEF Init, FreshWorld, NoZvol, Idle
<1>2. /\ ~IsPublished(row) /\ ~IsConnected(row) /\ ~IsStaged(row)
      /\ row.targetPaths = {}
  BY DEF Init, NoVolume, NewVolume, NoOutputs, IsPublished, IsConnected, IsStaged, UNSPECIFIED,
     PUBLISHED, CONNECTED, STAGED, MOUNTED
<1>3. /\ world.target = {} /\ world.acl = {} /\ world.session = {}
      /\ \A c \in Clients, p \in Paths : world.mount[c][p] = <<>>
  BY DEF Init, FreshWorld
<1>4. MountsOf(row, world)
  BY <1>2, <1>3 DEF MountsOf, StagingStack, TargetStack, AllDead, Paths
<1>5. HostsAre(row, row, world)
  BY <1>2, <1>3, <1>4 DEF HostsAre, ExportsOf, ClientsOf, SessionsOf
<1>6. HostsInv
  BY <1>1, <1>5 DEF HostsInv, HostsAt
<1> QED
  BY <1>1, <1>6 DEF ZvolInv

(* As long as nothing has failed, with calls one at a time, one server and no
   create that names target paths, a row at rest tells the state of the hosts: exported if and only if published, authorized
   and logged in on the client the row names if and only if connected, the device on
   the staging path if and only if staged and on every target path, and no zvol once
   there is no row (the handlers of service_volume.go from PublishVolume to
   UnmountVolume, and DeleteVolume's "Destroy ZFS volume if it was created"). *)
THEOREM HostsFollowRow ==
  OneCall /\ OneServer /\ PathlessCreates /\ Spec => []RowMatchesHosts
<1> SUFFICES ASSUME OneCall, OneServer, PathlessCreates PROVE Spec => []RowMatchesHosts
  OBVIOUS
<1>1. TypeOK /\ Course /\ SerialInv /\ WritersInv /\ HostsInv /\ ZvolInv /\ [Next]_vars
        => SerialInv' /\ WritersInv' /\ HostsInv' /\ ZvolInv'
  BY SerialStep, WritersStep, HostsStep, ZvolStep
<1>2. TypeOK /\ HostsInv /\ ZvolInv => RowMatchesHosts
  BY HostsMatch
<1> QED
  BY <1>1, <1>2, HostsInit, WritersInit, SerialInit, TypeAndCourse, PTL DEF Spec

(* With any number of servers, calls one at a time and no create that names target
   paths the same holds of all but the zvol, which a volume
   published on a second server leaves behind on the first: at rest, and as long as
   nothing has failed, the targets, the access lists, the sessions and every stack of
   mounts are the ones the committed row stands for (PublishVolume to UnmountVolume of
   service_volume.go). *)
THEOREM HostsOfRow ==
  OneCall /\ PathlessCreates /\ Spec => [](Quiet /\ faults = 0 => HostsAre(row, row, world))
<1> SUFFICES ASSUME OneCall, PathlessCreates
             PROVE  Spec => [](Quiet /\ faults = 0 => HostsAre(row, row, world))
  OBVIOUS
<1>1. TypeOK /\ Course /\ SerialInv /\ WritersInv /\ HostsInv /\ [Next]_vars
        => SerialInv' /\ WritersInv' /\ HostsInv'
  BY SerialStep, WritersStep, HostsStep
<1>2. HostsInv => (Quiet /\ faults = 0 => HostsAre(row, row, world))
  BY DEF HostsInv
<1> QED
  BY <1>1, <1>2, HostsInit, WritersInit, SerialInit, TypeAndCourse, PTL DEF Spec
=============================================================================
