------------------------- MODULE VolumeServiceProofs -------------------------
(***************************************************************************)
(* Proofs about VolumeService, for any sets of hosts, paths and calls and  *)
(* any number of faults: the type invariant, that no volume is formatted   *)
(* twice, and that no status is committed without the column its teardown  *)
(* needs.                                                                  *)
(***************************************************************************)
EXTENDS VolumeService, TLAPS

(* The steps an operation goes through after the write: those it takes inside
   its transaction, and the two operations that run commands outside one. *)
InTransaction(op) ==
  CASE op = "Publish"    -> {"zfsList", "zfsCreate", "publish", "commit"}
    [] op = "Unpublish"  -> {"unpublish", "commit"}
    [] op = "Connect"    -> {"authorize", "login", "commit"}
    [] op = "Disconnect" -> {"logout", "unauthorize", "commit"}
    [] op = "Stage"      -> {"waitDevice", "blkid", "mkfs", "mount", "commit"}
    [] op = "Unstage"    -> {"umountStaging", "commit"}
    [] op = "Mount"      -> {"bind", "commit"}
    [] op = "Unmount"    -> {"umountTarget", "commit"}
    [] OTHER             -> {}

LockedOps == {"Publish", "Unpublish", "Connect", "Disconnect", "Stage",
              "Unstage", "Mount", "Unmount"}

(* What a call must have found before it may run: the hosts and the staging
   path its commands name. *)
Named(op, at) ==
  /\ op \in {"Publish", "Unpublish", "Connect", "Disconnect"} => at.server \in Servers
  /\ op \in {"Connect", "Disconnect", "Unstage", "Mount", "Unmount"}
        => at.client \in Clients
  /\ op \in {"Unstage", "Mount"} => at.staging \in StagingPaths

(* Where a call can be: just accepted, or further on, and then it holds the
   lock unless it is one of the two operations without a transaction. *)
Accepted(op, pc, at, ready) ==
  \/ pc = "write" /\ op = "Update"
  \/ pc = "write" /\ op \in LockedOps /\ (ready => Named(op, at))
  \/ pc \in {"zfsDestroy", "delete"} /\ op = "Delete"

Locked(op, pc, at, ready) ==
  /\ op \in LockedOps
  /\ pc \in InTransaction(op)
  /\ ready
  /\ Named(op, at)

OnCourse(c) ==
  LET k == call[c]
  IN  \/ k.pc = "idle"
      \/ Accepted(k.op, k.pc, k.at, k.ready)
      \/ k.op = "Update" /\ k.pc \in {"zfsSet", "rescan", "resize"}
      \/ Locked(k.op, k.pc, k.at, k.ready) /\ lock = c

Course == \A c \in Calls : OnCourse(c)

-----------------------------------------------------------------------------
LEMMA StatusType ==
  {UNSPECIFIED, INITIAL, PUBLISHED, CONNECTED, STAGED, MOUNTED} \subseteq Status
BY DEF Status, UNSPECIFIED, INITIAL, PUBLISHED, CONNECTED, STAGED, MOUNTED

(* What a handler stores in the volume it has read is a volume. *)
LEMMA StoredType ==
  ASSUME NEW v \in Volume
  PROVE  /\ \A s \in Servers \cup {NoHost}, t \in Transports : ToPublished(v, s, t) \in Volume
         /\ ToUnpublished(v) \in Volume
         /\ \A h \in Clients \cup {NoHost} : ToConnected(v, h) \in Volume
         /\ ToDisconnected(v) \in Volume
         /\ \A p \in StagingPaths : ToStaged(v, p) \in Volume
         /\ ToUnstaged(v) \in Volume
         /\ \A p \in MountPaths : ToMounted(v, p) \in Volume
         /\ \A p \in MountPaths : ToUnmounted(v, p) \in Volume
         /\ ToUpdated(v) \in Volume
<1> USE StatusType DEF Volume, Transport
<1>1. \A s \in Servers \cup {NoHost}, t \in Transports : ToPublished(v, s, t) \in Volume
  BY DEF ToPublished
<1>2. ToUnpublished(v) \in Volume
  BY DEF ToUnpublished, NoTransport
<1>3. \A h \in Clients \cup {NoHost} : ToConnected(v, h) \in Volume
  BY DEF ToConnected
<1>4. ToDisconnected(v) \in Volume
  BY DEF ToDisconnected
<1>5. \A p \in StagingPaths : ToStaged(v, p) \in Volume
  BY DEF ToStaged
<1>6. ToUnstaged(v) \in Volume
  BY DEF ToUnstaged
<1>7. \A p \in MountPaths : ToMounted(v, p) \in Volume
  BY DEF ToMounted
<1>8. \A p \in MountPaths : ToUnmounted(v, p) \in Volume
  BY DEF ToUnmounted
<1>9. ToUpdated(v) \in Volume
  BY DEF ToUpdated
<1> QED
  BY <1>1, <1>2, <1>3, <1>4, <1>5, <1>6, <1>7, <1>8, <1>9

LEMMA NewVolumeType ==
  /\ \A m \in Modes, t \in AnyTransport, out \in Outputs : NewVolume(m, t, out) \in Volume
  /\ NoVolume \in Volume
BY StatusType DEF NewVolume, NoVolume, Outputs, NoOutputs, Volume, Modes, Transport,
   NoTransport, AnyTransport

LEMMA UpdatesType ==
  ASSUME NEW r \in Volume, NEW v \in Volume
  PROVE  Updates(r, v) \in Volume
BY DEF Updates, Kept, Volume

LEMMA PlaceType ==
  ASSUME NEW v \in Volume, NEW path \in MountPaths \cup {NoPath}
  PROVE  PlaceOf(v, path) \in Place
BY DEF PlaceOf, Place, Volume, Transport

LEMMA IdleType == Idle \in Call
<1>1. NoVolume \in Volume
  BY NewVolumeType
<1>2. NoPlace \in Place
  BY <1>1, PlaceType DEF NoPlace
<1> QED
  BY <1>1, <1>2 DEF Idle, Call, Steps

(* Each command belongs to one wrapper. *)
LEMMA Wrapper ==
  ASSUME NEW cmd, NEW w, NEW at
  PROVE  /\ cmd \in ZfsCommands => Effect(cmd, w, at) = ZfsEffect(cmd, w, at)
         /\ cmd \in TargetCommands =>
               /\ Effect(cmd, w, at) = TargetEffect(cmd, w, at)
               /\ Succeeds(cmd, w, at) = TargetSucceeds(cmd, w, at)
         /\ cmd \in SessionCommands =>
               /\ Effect(cmd, w, at) = SessionEffect(cmd, w, at)
               /\ Succeeds(cmd, w, at) = SessionSucceeds(cmd, w, at)
         /\ cmd \in FsCommands => Effect(cmd, w, at) = FsEffect(cmd, w, at)
         /\ cmd \in MountCommands =>
               /\ Effect(cmd, w, at) = MountEffect(cmd, w, at)
               /\ Succeeds(cmd, w, at) = MountSucceeds(cmd, w, at)
BY DEF Effect, Succeeds, ZfsCommands, TargetCommands, SessionCommands, FsCommands,
       MountCommands

(* A command that succeeds leaves a world behind, provided the hosts and the
   path it names are there. *)
LEMMA ZfsEffectType ==
  ASSUME NEW w \in World, NEW at \in Place, NEW cmd \in ZfsCommands
  PROVE  ZfsEffect(cmd, w, at) \in World
BY DEF ZfsEffect, World, ZfsCommands

LEMMA TargetEffectType ==
  ASSUME NEW w \in World, NEW at \in Place, NEW cmd \in TargetCommands,
         cmd = "publish" => at.server \in Servers,
         cmd = "authorize" => at.client \in Clients
  PROVE  TargetEffect(cmd, w, at) \in World
<1>1. CASE cmd = "publish"
  <2>1. Export(at) \in Exports
    BY <1>1 DEF Export, Exports, Place
  <2> QED
    BY <1>1, <2>1 DEF TargetEffect, World
<1>2. CASE cmd = "unpublish"
  BY <1>2 DEF TargetEffect, World
<1>3. CASE cmd = "authorize"
  <2>1. CASE Export(at) \notin w.target
    BY <1>3, <2>1 DEF TargetEffect
  <2>2. CASE Export(at) \in w.target
    <3> DEFINE entry == <<Export(at), at.client>>
    <3>1. Export(at) \in Exports
      BY <2>2 DEF World
    <3>2. entry \in Exports \X Clients
      BY <1>3, <3>1
    <3>3. TargetEffect(cmd, w, at) = [w EXCEPT !.acl = w.acl \cup {entry}]
      BY <1>3, <2>2 DEF TargetEffect
    <3> HIDE DEF entry
    <3>4. w.acl \cup {entry} \in SUBSET (Exports \X Clients)
      BY <3>2 DEF World
    <3>5. \A a \in SUBSET (Exports \X Clients) : [w EXCEPT !.acl = a] \in World
      BY DEF World
    <3> QED
      BY <3>3, <3>4, <3>5
  <2> QED
    BY <2>1, <2>2
<1>4. CASE cmd = "unauthorize"
  BY <1>4 DEF TargetEffect, World
<1> QED
  BY <1>1, <1>2, <1>3, <1>4 DEF TargetCommands

LEMMA SessionEffectType ==
  ASSUME NEW w \in World, NEW at \in Place, NEW cmd \in SessionCommands,
         SessionSucceeds(cmd, w, at)
  PROVE  SessionEffect(cmd, w, at) \in World
<1>1. CASE cmd = "login"
  <2> DEFINE s == [client |-> at.client, server |-> at.server,
                   type |-> at.type, portal |-> at.portal]
  <2>1. LoginSucceeds(w, at)
    BY <1>1 DEF SessionSucceeds, ISCSISessionSucceeds, NVMeSessionSucceeds
  <2>2. /\ Export(at) \in Exports
        /\ <<Export(at), at.client>> \in Exports \X Clients
    BY <2>1 DEF LoginSucceeds, World
  <2>3. at.server \in Servers
    BY <2>2 DEF Export, Exports
  <2>4. at.client \in Clients
    BY <2>2
  <2>5. s \in Sessions
    BY <2>3, <2>4 DEF Sessions, Place
  <2>6. SessionEffect(cmd, w, at) = [w EXCEPT !.session = w.session \cup {s}]
    BY <1>1 DEF SessionEffect
  <2> HIDE DEF s
  <2>7. w.session \cup {s} \in SUBSET Sessions
    BY <2>5 DEF World
  <2> QED
    BY <2>6, <2>7 DEF World
<1>2. CASE cmd = "logout"
  <2> DEFINE left == [w EXCEPT !.session = w.session \ SessionsAt(w, at)]
             Shut(s) == [i \in DOMAIN s |->
               IF s[i] = Device(at.server, at.type) /\ ~LoggedIn(left, at)
               THEN Dead ELSE s[i]]
             m == [w.mount EXCEPT ![at.client] = [p \in Paths |-> Shut(@[p])]]
  <2>1. \A s \in Seq(Backing) : Shut(s) \in Seq(Backing)
    <3> SUFFICES ASSUME NEW s \in Seq(Backing) PROVE Shut(s) \in Seq(Backing)
      OBVIOUS
    <3>1. DOMAIN s = 1..Len(s) /\ Len(s) \in Nat
      OBVIOUS
    <3>2. Dead \in Backing
      BY DEF Dead, Backing
    <3>3. \A i \in 1..Len(s) : s[i] \in Backing
      OBVIOUS
    <3> QED
      BY <3>1, <3>2, <3>3
  <2>2. left \in World /\ left.mount = w.mount
    BY DEF World
  <2>3. SessionEffect(cmd, w, at) = [left EXCEPT !.mount = m]
    BY <1>2, <2>2 DEF SessionEffect, CloseSessions
  <2> HIDE DEF Shut, left
  <2>4. w.mount \in [Clients -> [Paths -> Seq(Backing)]]
    BY DEF World
  <2>5. m \in [Clients -> [Paths -> Seq(Backing)]]
    BY <2>1, <2>4
  <2> HIDE DEF m
  <2> QED
    BY <2>2, <2>3, <2>5 DEF World
<1>3. CASE cmd = "rescan"
  BY <1>3 DEF SessionEffect
<1> QED
  BY <1>1, <1>2, <1>3 DEF SessionCommands

LEMMA FsEffectType ==
  ASSUME NEW w \in World, NEW at \in Place, NEW cmd \in FsCommands
  PROVE  FsEffect(cmd, w, at) \in World
BY DEF FsEffect, World

LEMMA MountEffectType ==
  ASSUME NEW w \in World, NEW at \in Place, NEW cmd \in MountCommands,
         MountSucceeds(cmd, w, at),
         cmd = "bind" => at.staging \in StagingPaths
  PROVE  MountEffect(cmd, w, at) \in World
<1> DEFINE Stacks == [Clients -> [Paths -> Seq(Backing)]]
<1>1. w.mount \in Stacks
  BY DEF World
<1>2. \A m \in Stacks : [w EXCEPT !.mount = m] \in World
  BY DEF World
<1>3. ASSUME NEW c, NEW p, NEW b \in Backing
      PROVE  Push(w, c, p, b) \in World
  <2>1. \A s \in Seq(Backing) : <<b>> \o s \in Seq(Backing)
    OBVIOUS
  <2>2. [w.mount EXCEPT ![c][p] = <<b>> \o @] \in Stacks
    BY <1>1, <2>1
  <2> QED
    BY <1>2, <2>2 DEF Push
<1>4. ASSUME NEW c, NEW p, w.mount[c][p] # <<>>
      PROVE  Pop(w, c, p) \in World
  <2>1. \A s \in Seq(Backing) : s # <<>> => Tail(s) \in Seq(Backing)
    OBVIOUS
  <2>2. [w.mount EXCEPT ![c][p] = Tail(@)] \in Stacks
    BY <1>1, <1>4, <2>1
  <2> QED
    BY <1>2, <2>2 DEF Pop
<1>5. CASE cmd = "mount"
  <2>1. Device(at.server, at.type) \in Backing
    BY DEF Device, Backing, Place
  <2> QED
    BY <1>3, <1>5, <2>1 DEF MountEffect
<1>6. CASE cmd \in {"umountStaging", "umountTarget"}
  BY <1>4, <1>6 DEF MountEffect, MountSucceeds
<1>7. CASE cmd = "bind"
  <2>1. MountEffect(cmd, w, at)
          = Push(w, at.client, at.path, ShownAt(w, at.client, at.staging))
    BY <1>7 DEF MountEffect
  <2>2. CASE at.client \in Clients
    <3>1. w.mount[at.client][at.staging] \in Seq(Backing)
      BY <1>1, <1>7, <2>2 DEF Paths
    <3>2. PlainDir \in Backing
      BY DEF PlainDir, Backing
    <3>3. \A q \in Seq(Backing) : q # <<>> => Head(q) \in Backing
      OBVIOUS
    <3>4. ShownAt(w, at.client, at.staging) \in Backing
      BY <3>1, <3>2, <3>3 DEF ShownAt
    <3> QED
      BY <1>3, <2>1, <3>4
  <2>3. CASE at.client \notin Clients
    BY <1>1, <1>2, <2>1, <2>3 DEF Push
  <2> QED
    BY <2>2, <2>3
<1> QED
  BY <1>5, <1>6, <1>7 DEF MountCommands

LEMMA EffectType ==
  ASSUME NEW w \in World, NEW at \in Place, NEW cmd \in Commands,
         Succeeds(cmd, w, at),
         cmd = "publish" => at.server \in Servers,
         cmd = "authorize" => at.client \in Clients,
         cmd = "bind" => at.staging \in StagingPaths
  PROVE  Effect(cmd, w, at) \in World
BY Wrapper, ZfsEffectType, TargetEffectType, SessionEffectType, FsEffectType,
   MountEffectType DEF Commands

-----------------------------------------------------------------------------
(* How the shapes of step the handlers are made of keep the type and the
   course of the calls. *)
LEMMA AcceptStep ==
  ASSUME TypeOK, Course,
         NEW c \in Calls, NEW op \in Ops, NEW pc \in Steps, NEW v \in Volume,
         NEW at \in Place, NEW ready \in BOOLEAN,
         Accept(c, op, pc, v, at, ready),
         Accepted(op, pc, at, ready)
  PROVE  TypeOK' /\ Course'
<1> DEFINE k == [op |-> op, pc |-> pc, v |-> v, at |-> at, ready |-> ready]
<1>1. k \in Call
  BY DEF Call
<1>2. call' = [call EXCEPT ![c] = k] /\ UNCHANGED <<row, lock, world, faults>>
  BY DEF Accept
<1>3. TypeOK'
  BY <1>1, <1>2 DEF TypeOK
<1>4. call'[c] = k /\ \A d \in Calls \ {c} : call'[d] = call[d]
  BY <1>2 DEF TypeOK
<1>5. OnCourse(c)'
  BY <1>4 DEF OnCourse
<1>6. \A d \in Calls \ {c} : OnCourse(d)'
  BY <1>2, <1>4 DEF OnCourse, Course
<1> QED
  BY <1>3, <1>5, <1>6 DEF Course

LEMMA GotoStep ==
  ASSUME TypeOK, NEW c \in Calls, NEW pc \in Steps, Goto(c, pc)
  PROVE  /\ call' \in [Calls -> Call]
         /\ \A d \in Calls \ {c} : call'[d] = call[d]
         /\ pc = "idle" => call'[c] = Idle
         /\ pc # "idle" => /\ call'[c].op = call[c].op
                          /\ call'[c].v = call[c].v
                          /\ call'[c].at = call[c].at
                          /\ call'[c].ready = call[c].ready
                          /\ call'[c].pc = pc
<1> DEFINE k == IF pc = "idle" THEN Idle ELSE [call[c] EXCEPT !.pc = pc]
<1>1. call[c] \in Call
  BY DEF TypeOK
<1>2. k \in Call
  BY <1>1, IdleType DEF Call
<1>3. call' = [call EXCEPT ![c] = k]
  BY DEF Goto
<1>4. call'[c] = k
  BY <1>3 DEF TypeOK
<1>5. pc # "idle" => k = [call[c] EXCEPT !.pc = pc]
  OBVIOUS
<1>6. pc # "idle" => /\ k.op = call[c].op
                     /\ k.v = call[c].v
                     /\ k.at = call[c].at
                     /\ k.ready = call[c].ready
                     /\ k.pc = pc
  BY <1>1, <1>5 DEF Call
<1> HIDE DEF k
<1>7. call' \in [Calls -> Call] /\ \A d \in Calls \ {c} : call'[d] = call[d]
  BY <1>2, <1>3 DEF TypeOK
<1>8. pc = "idle" => k = Idle
  BY DEF k
<1> QED
  BY <1>4, <1>6, <1>7, <1>8

(* The lock is only taken when it is free and only given back by its holder. *)
LEMMA CourseStep ==
  ASSUME Course, NEW c \in Calls,
         \A d \in Calls \ {c} : call'[d] = call[d],
         lock # lock' => lock \in {c, NoCall},
         OnCourse(c)'
  PROVE  Course'
<1>1. ASSUME NEW d \in Calls \ {c} PROVE OnCourse(d)'
  <2>1. lock = d => lock' = d
    BY <1>1, CallsAssumption
  <2> QED
    BY <1>1, <2>1 DEF OnCourse, Course
<1> QED
  BY <1>1 DEF Course

LEMMA FailStep ==
  ASSUME TypeOK, Course, NEW c \in Calls, Fail(c), world' \in World, faults' \in Nat
  PROVE  TypeOK' /\ Course'
<1>1. /\ call' \in [Calls -> Call]
      /\ \A d \in Calls \ {c} : call'[d] = call[d]
      /\ call'[c] = Idle
  BY GotoStep DEF Fail, Steps
<1>2. /\ lock' \in Calls \cup {NoCall}
      /\ lock # lock' => lock = c
      /\ row' = row
  BY DEF Fail, Released, TypeOK
<1>3. OnCourse(c)'
  BY <1>1 DEF OnCourse, Idle
<1>4. Course'
  BY <1>1, <1>2, <1>3, CourseStep
<1> QED
  BY <1>1, <1>2, <1>4 DEF TypeOK

LEMMA RequestStep ==
  ASSUME TypeOK, Course, NEW c \in Calls, Request(c)
  PROVE  TypeOK' /\ Course'
<1>1. row \in Volume /\ NoPath \in MountPaths \cup {NoPath}
  BY DEF TypeOK
<1>2. /\ row.serverHost \in Servers \cup {NoHost}
      /\ row.clientHost \in Clients \cup {NoHost}
      /\ row.stagingPath \in StagingPaths \cup {NoPath}
  BY <1>1 DEF Volume
<1>3. {"write", "zfsDestroy", "delete"} \subseteq Steps
  BY DEF Steps, Commands, ZfsCommands
<1>4. CASE DeleteVolume(c)
  <2>1. PICK pc \in {"zfsDestroy", "delete"} :
           Accept(c, "Delete", pc, row, PlaceOf(row, NoPath), TRUE)
    BY <1>4 DEF DeleteVolume
  <2>2. Accepted("Delete", pc, PlaceOf(row, NoPath), TRUE)
    BY DEF Accepted
  <2> QED
    BY <1>1, <1>3, <2>1, <2>2, PlaceType, AcceptStep DEF Ops
<1>5. ASSUME NEW s \in Servers \cup {NoHost}, NEW t \in Transports, PublishVolume(c, s, t)
      PROVE  TypeOK' /\ Course'
  <2> DEFINE v == ToPublished(row, s, t)
             at == PlaceOf(v, NoPath)
  <2>1. v \in Volume /\ at \in Place
    BY <1>1, StoredType, PlaceType
  <2>2. at.server = s
    BY <1>1 DEF PlaceOf, ToPublished, Volume
  <2>3. Accept(c, "Publish", "write", v, at, s # NoHost)
    BY <1>5 DEF PublishVolume
  <2> HIDE DEF v, at
  <2>4. Accepted("Publish", "write", at, s # NoHost)
    BY <2>2 DEF Accepted, LockedOps, Named
  <2> QED
    BY <1>3, <2>1, <2>3, <2>4, AcceptStep DEF Ops
<1>6. CASE UnpublishVolume(c)
  <2> DEFINE v == ToUnpublished(row)
             at == PlaceOf(row, NoPath)
             ready == row.serverHost # NoHost /\ row.transport.type # "UNSPECIFIED"
  <2>1. v \in Volume /\ at \in Place
    BY <1>1, StoredType, PlaceType
  <2>2. at.server = row.serverHost
    BY DEF PlaceOf
  <2>3. Accept(c, "Unpublish", "write", v, at, ready)
    BY <1>6 DEF UnpublishVolume
  <2>4. Accepted("Unpublish", "write", at, ready)
    BY <1>2, <2>2 DEF Accepted, LockedOps, Named
  <2>5. ready \in BOOLEAN
    OBVIOUS
  <2> HIDE DEF v, at, ready
  <2> QED
    BY <1>3, <2>1, <2>3, <2>4, <2>5, AcceptStep DEF Ops
<1>7. ASSUME NEW h \in Clients \cup {NoHost}, ConnectVolume(c, h)
      PROVE  TypeOK' /\ Course'
  <2> DEFINE v == ToConnected(row, h)
             at == PlaceOf(v, NoPath)
             ready == NoHost \notin {row.serverHost, h, row.transport.target}
  <2>1. v \in Volume /\ at \in Place
    BY <1>1, StoredType, PlaceType
  <2>2. at.server = row.serverHost /\ at.client = h
    BY <1>1 DEF PlaceOf, ToConnected, Volume
  <2>3. Accept(c, "Connect", "write", v, at, ready)
    BY <1>7 DEF ConnectVolume
  <2>4. Accepted("Connect", "write", at, ready)
    BY <1>2, <2>2 DEF Accepted, LockedOps, Named
  <2>5. ready \in BOOLEAN
    OBVIOUS
  <2> HIDE DEF v, at, ready
  <2> QED
    BY <1>3, <2>1, <2>3, <2>4, <2>5, AcceptStep DEF Ops
<1>8. CASE DisconnectVolume(c)
  <2> DEFINE v == ToDisconnected(row)
             at == PlaceOf(row, NoPath)
             ready == NoHost \notin {row.serverHost, row.clientHost, row.transport.target}
  <2>1. v \in Volume /\ at \in Place
    BY <1>1, StoredType, PlaceType
  <2>2. at.server = row.serverHost /\ at.client = row.clientHost
    BY DEF PlaceOf
  <2>3. Accept(c, "Disconnect", "write", v, at, ready)
    BY <1>8 DEF DisconnectVolume
  <2>4. Accepted("Disconnect", "write", at, ready)
    BY <1>2, <2>2 DEF Accepted, LockedOps, Named
  <2>5. ready \in BOOLEAN
    OBVIOUS
  <2> HIDE DEF v, at, ready
  <2> QED
    BY <1>3, <2>1, <2>3, <2>4, <2>5, AcceptStep DEF Ops
<1>9. ASSUME NEW p \in StagingPaths, StageVolume(c, p)
      PROVE  TypeOK' /\ Course'
  <2> DEFINE v == ToStaged(row, p)
             at == PlaceOf(v, NoPath)
             ready == row.clientHost # NoHost /\ row.transport.target # NoHost
  <2>1. v \in Volume /\ at \in Place
    BY <1>1, StoredType, PlaceType
  <2>2. Accept(c, "Stage", "write", v, at, ready)
    BY <1>9 DEF StageVolume
  <2>3. Accepted("Stage", "write", at, ready)
    BY DEF Accepted, LockedOps, Named
  <2>4. ready \in BOOLEAN
    OBVIOUS
  <2> HIDE DEF v, at, ready
  <2> QED
    BY <1>3, <2>1, <2>2, <2>3, <2>4, AcceptStep DEF Ops
<1>10. CASE UnstageVolume(c)
  <2> DEFINE v == ToUnstaged(row)
             at == PlaceOf(row, NoPath)
             ready == row.clientHost # NoHost /\ row.stagingPath # NoPath
  <2>1. v \in Volume /\ at \in Place
    BY <1>1, StoredType, PlaceType
  <2>2. at.client = row.clientHost /\ at.staging = row.stagingPath
    BY DEF PlaceOf
  <2>3. Accept(c, "Unstage", "write", v, at, ready)
    BY <1>10 DEF UnstageVolume
  <2>4. Accepted("Unstage", "write", at, ready)
    BY <1>2, <2>2 DEF Accepted, LockedOps, Named
  <2>5. ready \in BOOLEAN
    OBVIOUS
  <2> HIDE DEF v, at, ready
  <2> QED
    BY <1>3, <2>1, <2>3, <2>4, <2>5, AcceptStep DEF Ops
<1>11. ASSUME NEW p \in MountPaths, MountVolume(c, p)
       PROVE  TypeOK' /\ Course'
  <2> DEFINE v == ToMounted(row, p)
             at == PlaceOf(v, p)
             ready == row.clientHost # NoHost /\ row.stagingPath # NoPath
  <2>1. v \in Volume /\ at \in Place
    BY <1>1, StoredType, PlaceType
  <2>2. at.client = row.clientHost /\ at.staging = row.stagingPath
    BY <1>1 DEF PlaceOf, ToMounted, Volume
  <2>3. Accept(c, "Mount", "write", v, at, ready)
    BY <1>11 DEF MountVolume
  <2>4. Accepted("Mount", "write", at, ready)
    BY <1>2, <2>2 DEF Accepted, LockedOps, Named
  <2>5. ready \in BOOLEAN
    OBVIOUS
  <2> HIDE DEF v, at, ready
  <2> QED
    BY <1>3, <2>1, <2>3, <2>4, <2>5, AcceptStep DEF Ops
<1>12. ASSUME NEW p \in MountPaths, UnmountVolume(c, p)
       PROVE  TypeOK' /\ Course'
  <2> DEFINE v == ToUnmounted(row, p)
             at == PlaceOf(v, p)
             ready == row.clientHost # NoHost
  <2>1. v \in Volume /\ at \in Place
    BY <1>1, StoredType, PlaceType
  <2>2. at.client = row.clientHost
    BY <1>1 DEF PlaceOf, ToUnmounted, Volume
  <2>3. Accept(c, "Unmount", "write", v, at, ready)
    BY <1>12 DEF UnmountVolume
  <2>4. Accepted("Unmount", "write", at, ready)
    BY <1>2, <2>2 DEF Accepted, LockedOps, Named
  <2>5. ready \in BOOLEAN
    OBVIOUS
  <2> HIDE DEF v, at, ready
  <2> QED
    BY <1>3, <2>1, <2>3, <2>4, <2>5, AcceptStep DEF Ops
<1>13. CASE UpdateVolume(c)
  <2> DEFINE v == ToUpdated(row)
             at == PlaceOf(v, NoPath)
  <2>1. v \in Volume /\ at \in Place
    BY <1>1, StoredType, PlaceType
  <2>2. Accept(c, "Update", "write", v, at, TRUE)
    BY <1>13 DEF UpdateVolume
  <2> HIDE DEF v, at
  <2>3. Accepted("Update", "write", at, TRUE)
    BY DEF Accepted
  <2> QED
    BY <1>3, <2>1, <2>2, <2>3, AcceptStep DEF Ops
<1> QED
  BY <1>4, <1>5, <1>6, <1>7, <1>8, <1>9, <1>10, <1>11, <1>12, <1>13 DEF Request

(* Where a call goes from a command that succeeded. *)
LEMMA AfterStep ==
  ASSUME NEW op, NEW cmd \in Commands, NEW v, NEW w, NEW at
  PROVE  /\ After(cmd, v, w, at) \in Steps
         /\ op \in LockedOps /\ cmd \in InTransaction(op)
              => After(cmd, v, w, at) \in InTransaction(op)
         /\ cmd \in {"zfsSet", "rescan", "resize"}
              => After(cmd, v, w, at) \in {"rescan", "resize", "idle"}
         /\ cmd = "zfsDestroy" => After(cmd, v, w, at) = "delete"
<1> USE DEF After, RescanOrAnswer, Commands, ZfsCommands, TargetCommands,
            SessionCommands, FsCommands, MountCommands
<1>1. After(cmd, v, w, at) \in Steps
  BY DEF Steps
<1>2. op \in LockedOps /\ cmd \in InTransaction(op)
         => After(cmd, v, w, at) \in InTransaction(op)
  BY DEF LockedOps, InTransaction
<1>3. /\ cmd \in {"zfsSet", "rescan", "resize"}
            => After(cmd, v, w, at) \in {"rescan", "resize", "idle"}
      /\ cmd = "zfsDestroy" => After(cmd, v, w, at) = "delete"
  OBVIOUS
<1> QED
  BY <1>1, <1>2, <1>3

(* A command that is next is one of its operation's, and its world is typed. *)
LEMMA CommandCourse ==
  ASSUME TypeOK, Course, NEW c \in Calls, call[c].pc \in Commands,
         Succeeds(call[c].pc, world, call[c].at)
  PROVE  /\ Effect(call[c].pc, world, call[c].at) \in World
         /\ \/ call[c].op = "Update" /\ call[c].pc \in {"zfsSet", "rescan", "resize"}
            \/ call[c].op = "Delete" /\ call[c].pc = "zfsDestroy"
            \/ /\ Locked(call[c].op, call[c].pc, call[c].at, call[c].ready)
               /\ lock = c
<1> DEFINE k == call[c]
<1>1. k \in Call /\ world \in World
  BY DEF TypeOK
<1>2. k.at \in Place
  BY <1>1 DEF Call
<1>3. k.pc \notin {"idle", "write", "delete"}
  BY DEF Commands, ZfsCommands, TargetCommands, SessionCommands, FsCommands, MountCommands
<1>4. \/ k.op = "Update" /\ k.pc \in {"zfsSet", "rescan", "resize"}
      \/ k.op = "Delete" /\ k.pc = "zfsDestroy"
      \/ Locked(k.op, k.pc, k.at, k.ready) /\ lock = c
  BY <1>3 DEF Course, OnCourse, Accepted
<1>5. /\ k.pc = "publish" => k.at.server \in Servers
      /\ k.pc = "authorize" => k.at.client \in Clients
      /\ k.pc = "bind" => k.at.staging \in StagingPaths
  BY <1>4 DEF Locked, InTransaction, LockedOps, Named
<1> HIDE DEF k
<1>6. Effect(k.pc, world, k.at) \in World
  BY <1>1, <1>2, <1>5, EffectType DEF k
<1> QED
  BY <1>4, <1>6 DEF k

LEMMA ProgressStep ==
  ASSUME TypeOK, Course, NEW c \in Calls, Progress(c) \/ Fault(c)
  PROVE  TypeOK' /\ Course'
<1> DEFINE k == call[c]
<1>1. k \in Call /\ row \in Volume /\ world \in World /\ faults \in Nat
  BY DEF TypeOK
<1>2. k.v \in Volume /\ k.at \in Place
  BY <1>1 DEF Call
<1>3. CASE Begin(c)
  <2>1. /\ k.op \in LockedOps
        /\ k.ready
        /\ Named(k.op, k.at)
        /\ Goto(c, First(k.op))
        /\ lock = NoCall /\ lock' = c
        /\ UNCHANGED <<row, world, faults>>
    BY <1>3 DEF Begin, Course, OnCourse, Accepted, Locked, InTransaction
  <2>2. /\ First(k.op) \in Steps \ {"idle"}
        /\ First(k.op) \in InTransaction(k.op)
    BY <2>1 DEF First, LockedOps, InTransaction, Steps, Commands, ZfsCommands,
       TargetCommands, SessionCommands, FsCommands, MountCommands
  <2>3. /\ call' \in [Calls -> Call]
        /\ \A d \in Calls \ {c} : call'[d] = call[d]
        /\ call'[c].op = k.op /\ call'[c].at = k.at
        /\ call'[c].ready = k.ready /\ call'[c].pc = First(k.op)
    BY <2>1, <2>2, GotoStep
  <2>4. OnCourse(c)'
    BY <2>1, <2>2, <2>3 DEF OnCourse, Locked
  <2> QED
    BY <2>1, <2>3, <2>4, CourseStep DEF TypeOK
<1>4. CASE WriteUpdate(c)
  <2> DEFINE pc == FirstOfUpdate(k.v)
  <2>1. /\ k.op = "Update"
        /\ Goto(c, pc)
        /\ row' = Updates(row, k.v)
        /\ UNCHANGED <<lock, world, faults>>
    BY <1>4 DEF WriteUpdate
  <2>2. pc \in {"zfsSet", "rescan", "idle"}
    BY DEF FirstOfUpdate, RescanOrAnswer
  <2>3. pc \in Steps
    BY <2>2 DEF Steps, Commands, ZfsCommands, SessionCommands
  <2> HIDE DEF pc
  <2>4. /\ call' \in [Calls -> Call]
        /\ \A d \in Calls \ {c} : call'[d] = call[d]
        /\ pc = "idle" => call'[c] = Idle
        /\ pc # "idle" => call'[c].op = k.op /\ call'[c].pc = pc
    BY <2>1, <2>3, GotoStep
  <2>5. OnCourse(c)'
    BY <2>1, <2>2, <2>4 DEF OnCourse, Idle
  <2>6. row' \in Volume
    BY <1>1, <1>2, <2>1, UpdatesType
  <2> QED
    BY <2>1, <2>4, <2>5, <2>6, CourseStep DEF TypeOK
<1>5. CASE NotReady(c) \/ LockTimeout(c) \/ CommandFails(c)
  BY <1>1, <1>5, FailStep DEF NotReady, LockTimeout, CommandFails
<1>6. CASE RunCommand(c)
  <2> DEFINE pc == After(k.pc, k.v, world, k.at)
  <2>1. /\ k.pc \in Commands
        /\ Succeeds(k.pc, world, k.at)
        /\ world' = Effect(k.pc, world, k.at)
        /\ Goto(c, pc)
        /\ UNCHANGED <<row, lock, faults>>
    BY <1>6 DEF RunCommand
  <2>2. /\ world' \in World
        /\ \/ k.op = "Update" /\ k.pc \in {"zfsSet", "rescan", "resize"}
           \/ k.op = "Delete" /\ k.pc = "zfsDestroy"
           \/ Locked(k.op, k.pc, k.at, k.ready) /\ lock = c
    BY <2>1, CommandCourse
  <2>3. /\ pc \in Steps
        /\ k.op \in LockedOps /\ k.pc \in InTransaction(k.op) => pc \in InTransaction(k.op)
        /\ k.pc \in {"zfsSet", "rescan", "resize"} => pc \in {"rescan", "resize", "idle"}
        /\ k.pc = "zfsDestroy" => pc = "delete"
    BY <2>1, AfterStep
  <2> HIDE DEF pc
  <2>4. /\ call' \in [Calls -> Call]
        /\ \A d \in Calls \ {c} : call'[d] = call[d]
        /\ pc = "idle" => call'[c] = Idle
        /\ pc # "idle" => /\ call'[c].op = k.op /\ call'[c].at = k.at
                         /\ call'[c].ready = k.ready /\ call'[c].pc = pc
    BY <2>1, <2>3, GotoStep
  <2>5. OnCourse(c)'
    BY <2>1, <2>2, <2>3, <2>4 DEF OnCourse, Accepted, Locked, Idle
  <2> QED
    BY <2>1, <2>2, <2>4, <2>5, CourseStep DEF TypeOK
<1>7. CASE Commit(c)
  <2>1. /\ row' = Updates(row, k.v)
        /\ lock' = Released(c)
        /\ Goto(c, "idle")
        /\ UNCHANGED <<world, faults>>
    BY <1>7 DEF Commit
  <2>2. /\ call' \in [Calls -> Call]
        /\ \A d \in Calls \ {c} : call'[d] = call[d]
        /\ call'[c] = Idle
    BY <2>1, GotoStep DEF Steps
  <2>3. OnCourse(c)'
    BY <2>2 DEF OnCourse, Idle
  <2>4. lock' \in Calls \cup {NoCall} /\ (lock # lock' => lock = c)
    BY <2>1 DEF Released, TypeOK
  <2>5. row' \in Volume
    BY <1>1, <1>2, <2>1, UpdatesType
  <2>6. Course'
    BY <2>2, <2>3, <2>4, CourseStep
  <2> QED
    BY <2>1, <2>2, <2>4, <2>5, <2>6 DEF TypeOK
<1>8. CASE DeleteRow(c)
  <2>1. /\ row' = NoVolume
        /\ Goto(c, "idle")
        /\ UNCHANGED <<lock, world, faults>>
    BY <1>8 DEF DeleteRow
  <2>2. /\ call' \in [Calls -> Call]
        /\ \A d \in Calls \ {c} : call'[d] = call[d]
        /\ call'[c] = Idle
    BY <2>1, GotoStep DEF Steps
  <2>3. OnCourse(c)'
    BY <2>2 DEF OnCourse, Idle
  <2>4. Course'
    BY <2>1, <2>2, <2>3, CourseStep
  <2> QED
    BY <2>1, <2>2, <2>4, NewVolumeType DEF TypeOK
<1>9. CASE LoseAnswer(c)
  <2>1. /\ world' \in World
        /\ faults' \in Nat
        /\ Fail(c)
    BY <1>1, <1>9, CommandCourse DEF LoseAnswer
  <2> QED
    BY <2>1, FailStep
<1>10. CASE LoseCommand(c)
  <2>1. /\ world' \in World
        /\ faults' \in Nat
        /\ Fail(c)
    BY <1>1, <1>10 DEF LoseCommand
  <2> QED
    BY <2>1, FailStep
<1> QED
  BY <1>3, <1>4, <1>5, <1>6, <1>7, <1>8, <1>9, <1>10 DEF Progress, Fault

LEMMA TypeStep ==
  ASSUME TypeOK, Course, [Next]_vars
  PROVE  TypeOK' /\ Course'
<1>1. CASE \E m \in CreateModes, t \in AnyTransport, out \in CreateOutputs :
                 CreateVolume(m, t, out)
  <2>1. row' \in Volume
    BY <1>1, NewVolumeType, RequestsAssumption, OutputsAssumption DEF CreateVolume
  <2>2. UNCHANGED <<lock, call, world, faults>>
    BY <1>1 DEF CreateVolume
  <2> QED
    BY <2>1, <2>2 DEF TypeOK, Course, OnCourse
<1>2. ASSUME NEW c \in Calls, Request(c)
      PROVE  TypeOK' /\ Course'
  BY <1>2, RequestStep
<1>3. ASSUME NEW c \in Calls, Progress(c) \/ Fault(c)
      PROVE  TypeOK' /\ Course'
  BY <1>3, ProgressStep
<1>4. CASE Crash
  <2>1. TypeOK'
    BY <1>4, IdleType DEF Crash, TypeOK
  <2>2. \A c \in Calls : call'[c].pc = "idle"
    BY <1>4 DEF Crash, Idle
  <2> QED
    BY <2>1, <2>2 DEF Course, OnCourse
<1>5. CASE UNCHANGED vars
  BY <1>5 DEF vars, TypeOK, Course, OnCourse
<1> QED
  BY <1>1, <1>2, <1>3, <1>4, <1>5 DEF Next

LEMMA InitType == Init => TypeOK /\ Course
<1> SUFFICES ASSUME Init PROVE TypeOK /\ Course
  OBVIOUS
<1>1. FreshWorld \in World
  BY DEF FreshWorld, World
<1>2. Idle \in Call /\ NoVolume \in Volume
  BY IdleType, NewVolumeType
<1>3. TypeOK
  BY <1>1, <1>2 DEF Init, TypeOK
<1>4. \A c \in Calls : call[c].pc = "idle"
  BY DEF Init, Idle
<1> QED
  BY <1>3, <1>4 DEF Course, OnCourse

(* Every value of every variable has its type, and every call in a transaction
   holds the write lock and has the hosts its commands name (VolumeService's
   handlers look them up before their first command). *)
THEOREM TypeAndCourse == Spec => [](TypeOK /\ Course)
<1>1. TypeOK /\ Course /\ [Next]_vars => (TypeOK /\ Course)'
  BY TypeStep
<1> QED
  BY <1>1, InitType, PTL DEF Spec

-----------------------------------------------------------------------------
(* No volume is formatted twice. *)

(* The inductive part: what blkid found still holds when mkfs is next.  It does
   because only the holder of the lock can be about to run mkfs, and only mkfs
   makes a filesystem. *)
StillBlank(c) ==
  call[c].pc = "mkfs" /\ call[c].at.server \in Servers
     => world.zvol[call[c].at.server] # "ext4"

FormatOnce == NoOverwrite /\ \A c \in Calls : StillBlank(c)

LEMMA FormatEffect ==
  ASSUME NEW w \in World, NEW at \in Place, NEW cmd \in Commands, Succeeds(cmd, w, at)
  PROVE  LET e == Effect(cmd, w, at)
         IN  /\ cmd = "mkfs" => /\ at.server \in Servers
                                /\ e.overwritten
                                      = (w.overwritten \/ w.zvol[at.server] = "ext4")
             /\ cmd # "mkfs" => /\ e.overwritten = w.overwritten
                                /\ \A s \in Servers :
                                      e.zvol[s] = "ext4" => w.zvol[s] = "ext4"
             /\ cmd = "blkid" => e = w
<1>1. CASE cmd \in ZfsCommands
  <2>1. Effect(cmd, w, at) = ZfsEffect(cmd, w, at)
    BY <1>1, Wrapper
  <2> QED
    BY <1>1, <2>1 DEF ZfsEffect, ZfsCommands, World
<1>2. CASE cmd \in TargetCommands
  <2>1. Effect(cmd, w, at) = TargetEffect(cmd, w, at)
    BY <1>2, Wrapper
  <2> QED
    BY <1>2, <2>1 DEF TargetEffect, TargetCommands, World
<1>3. CASE cmd \in SessionCommands
  <2>1. Effect(cmd, w, at) = SessionEffect(cmd, w, at)
    BY <1>3, Wrapper
  <2> QED
    BY <1>3, <2>1 DEF SessionEffect, CloseSessions, SessionCommands, World
<1>4. CASE cmd \in FsCommands
  <2>1. Effect(cmd, w, at) = FsEffect(cmd, w, at)
    BY <1>4, Wrapper
  <2>2. DevicePresent(w, at)
    BY <1>4 DEF Succeeds, FsSucceeds, ZfsCommands, TargetCommands, SessionCommands,
       FsCommands, MountCommands
  <2>3. at.server \in Servers
    BY <2>2 DEF DevicePresent, Export, Exports, World
  <2> QED
    BY <1>4, <2>1, <2>3 DEF FsEffect, FsCommands, World
<1>5. CASE cmd \in MountCommands
  <2>1. Effect(cmd, w, at) = MountEffect(cmd, w, at)
    BY <1>5, Wrapper
  <2> QED
    BY <1>5, <2>1 DEF MountEffect, Push, Pop, MountCommands, World
<1> QED
  BY <1>1, <1>2, <1>3, <1>4, <1>5 DEF Commands

LEMMA OneFormatter ==
  ASSUME Course, NEW c \in Calls, NEW d \in Calls, call[d].pc = "mkfs",
         \/ call[c].pc = "mkfs"
         \/ lock = c
  PROVE  c = d
BY DEF Course, OnCourse, Accepted

(* The steps that leave the hosts alone, and do not lead to mkfs. *)
LEMMA FormatElsewhere ==
  ASSUME FormatOnce, NEW c \in Calls,
         world' = world,
         \A d \in Calls \ {c} : call'[d] = call[d],
         call'[c].pc # "mkfs"
  PROVE  FormatOnce'
BY DEF FormatOnce, NoOverwrite, StillBlank

LEMMA FormatRun ==
  ASSUME TypeOK, Course, FormatOnce, NEW c \in Calls,
         call[c].pc \in Commands,
         Succeeds(call[c].pc, world, call[c].at),
         world' = Effect(call[c].pc, world, call[c].at),
         \A d \in Calls \ {c} : call'[d] = call[d],
         call'[c].pc = "mkfs" => /\ call[c].pc = "blkid"
                                 /\ world.zvol[call[c].at.server] # "ext4"
                                 /\ call'[c].at = call[c].at
  PROVE  FormatOnce'
<1> DEFINE k == call[c]
<1>1. world \in World /\ k.at \in Place
  BY DEF TypeOK, Call
<1>2. /\ k.pc = "mkfs" => /\ k.at.server \in Servers
                           /\ world'.overwritten
                                 = (world.overwritten \/ world.zvol[k.at.server] = "ext4")
      /\ k.pc # "mkfs" => /\ world'.overwritten = world.overwritten
                           /\ \A s \in Servers :
                                 world'.zvol[s] = "ext4" => world.zvol[s] = "ext4"
      /\ k.pc = "blkid" => world' = world
  BY <1>1, FormatEffect
<1> HIDE DEF k
<1>3. NoOverwrite'
  BY <1>2 DEF FormatOnce, NoOverwrite, StillBlank, k
<1>4. ASSUME NEW d \in Calls \ {c} PROVE StillBlank(d)'
  <2>1. CASE call[d].pc = "mkfs"
    <3>1. k.pc # "mkfs"
      BY <2>1, <1>4, OneFormatter DEF k
    <3> QED
      BY <1>2, <1>4, <3>1 DEF FormatOnce, StillBlank
  <2>2. CASE call[d].pc # "mkfs"
    BY <1>4, <2>2 DEF StillBlank
  <2> QED
    BY <2>1, <2>2
<1>5. StillBlank(c)'
  BY <1>2 DEF StillBlank, k
<1> QED
  BY <1>3, <1>4, <1>5 DEF FormatOnce

(* mkfs never runs over a filesystem, for any number of hosts, overlapping
   calls, lost answers and crashes: StageVolume's blkid and mkfs cannot be
   separated by another call's mkfs. *)
THEOREM FormattedOnce == Spec => []NoOverwrite
<1>1. Init => FormatOnce
  BY DEF Init, FormatOnce, NoOverwrite, StillBlank, FreshWorld, Idle
<1>2. TypeOK /\ Course /\ FormatOnce /\ [Next]_vars => FormatOnce'
  <2> SUFFICES ASSUME TypeOK, Course, FormatOnce, [Next]_vars PROVE FormatOnce'
    OBVIOUS
  <2>1. CASE \E m \in CreateModes, t \in AnyTransport, out \in CreateOutputs :
                   CreateVolume(m, t, out)
    BY <2>1 DEF CreateVolume, FormatOnce, NoOverwrite, StillBlank
  <2>2. ASSUME NEW c \in Calls, Request(c) PROVE FormatOnce'
    <3>1. /\ world' = world
          /\ \A d \in Calls \ {c} : call'[d] = call[d]
          /\ call'[c].pc # "mkfs"
      BY <2>2 DEF Request, DeleteVolume, PublishVolume, UnpublishVolume, ConnectVolume,
         DisconnectVolume, StageVolume, UnstageVolume, MountVolume, UnmountVolume,
         UpdateVolume, Accept, TypeOK
    <3> QED
      BY <3>1, FormatElsewhere
  <2>3. ASSUME NEW c \in Calls, NEW pc \in Steps \ {"mkfs"}, Goto(c, pc), world' = world
        PROVE  FormatOnce'
    <3>1. /\ \A d \in Calls \ {c} : call'[d] = call[d]
          /\ call'[c].pc # "mkfs"
      BY <2>3, GotoStep DEF Idle
    <3> QED
      BY <2>3, <3>1, FormatElsewhere
  <2>4. ASSUME NEW c \in Calls, Begin(c) PROVE FormatOnce'
    <3>1. First(call[c].op) \in Steps \ {"mkfs"}
      BY DEF First, Steps, Commands, ZfsCommands, TargetCommands, SessionCommands,
         FsCommands, MountCommands
    <3> QED
      BY <2>3, <2>4, <3>1 DEF Begin
  <2>5. ASSUME NEW c \in Calls, WriteUpdate(c) PROVE FormatOnce'
    <3>1. FirstOfUpdate(call[c].v) \in Steps \ {"mkfs"}
      BY DEF FirstOfUpdate, RescanOrAnswer, Steps, Commands, ZfsCommands, SessionCommands
    <3> QED
      BY <2>3, <2>5, <3>1 DEF WriteUpdate
  <2>6. ASSUME NEW c \in Calls,
               \/ NotReady(c) \/ LockTimeout(c) \/ CommandFails(c)
               \/ LoseCommand(c) \/ Commit(c) \/ DeleteRow(c)
        PROVE  FormatOnce'
    <3>1. Goto(c, "idle") /\ world' = world
      BY <2>6 DEF NotReady, LockTimeout, CommandFails, LoseCommand, Commit, DeleteRow, Fail
    <3>2. "idle" \in Steps \ {"mkfs"}
      BY DEF Steps
    <3> QED
      BY <2>3, <3>1, <3>2
  <2>7. ASSUME NEW c \in Calls, RunCommand(c) PROVE FormatOnce'
    <3> DEFINE k == call[c]
               pc == After(k.pc, k.v, world, k.at)
    <3>1. /\ k.pc \in Commands
          /\ Succeeds(k.pc, world, k.at)
          /\ world' = Effect(k.pc, world, k.at)
          /\ Goto(c, pc)
      BY <2>7 DEF RunCommand
    <3>2. pc \in Steps
      BY <3>1, AfterStep
    <3>3. pc = "mkfs" => k.pc = "blkid" /\ world.zvol[k.at.server] # "ext4"
      BY <3>1 DEF After, RescanOrAnswer, Commands, ZfsCommands, TargetCommands,
         SessionCommands, FsCommands, MountCommands
    <3> HIDE DEF pc
    <3>4. /\ \A d \in Calls \ {c} : call'[d] = call[d]
          /\ pc # "idle" => call'[c].pc = pc /\ call'[c].at = k.at
          /\ pc = "idle" => call'[c] = Idle
      BY <3>1, <3>2, GotoStep
    <3>5. call'[c].pc = "mkfs" => pc = "mkfs" /\ call'[c].at = k.at
      BY <3>4 DEF Idle
    <3> QED
      BY <3>1, <3>3, <3>4, <3>5, FormatRun
  <2>8. ASSUME NEW c \in Calls, LoseAnswer(c) PROVE FormatOnce'
    <3>1. /\ \A d \in Calls \ {c} : call'[d] = call[d]
          /\ call'[c] = Idle
      BY <2>8, GotoStep DEF LoseAnswer, Fail, Steps
    <3> QED
      BY <2>8, <3>1, FormatRun DEF LoseAnswer, Idle
  <2>9. CASE Crash
    BY <2>9 DEF Crash, Idle, FormatOnce, NoOverwrite, StillBlank
  <2>10. CASE UNCHANGED vars
    BY <2>10 DEF vars, FormatOnce, NoOverwrite, StillBlank
  <2> QED
    BY <2>1, <2>2, <2>4, <2>5, <2>6, <2>7, <2>8, <2>9, <2>10 DEF Next, Progress, Fault
<1>3. FormatOnce => NoOverwrite
  BY DEF FormatOnce
<1> QED
  BY <1>1, <1>2, <1>3, TypeAndCourse, PTL DEF Spec

-----------------------------------------------------------------------------
(* No status is committed without the column its teardown needs. *)

(* A copy of the row is sound when its own status has its column, and when it
   would not hide a path behind a nil slice that Updates skips. *)
Sound(v) ==
  /\ IsConnected(v) => v.clientHost # NoHost
  /\ IsMounted(v) => v.targetPaths # {}
  /\ v.pathsNil => v.targetPaths = {}

(* The inductive part: the copies in flight, however stale, are sound, and so
   is whatever Updates makes of two sound ones. *)
SoundCopies ==
  /\ Sound(row)
  /\ \A c \in Calls :
        call[c].op = "Update" \/ (call[c].op \in LockedOps /\ call[c].ready)
           => Sound(call[c].v)

LEMMA UpdatesSound ==
  ASSUME NEW r \in Volume, NEW v \in Volume, Sound(r), Sound(v)
  PROVE  Sound(Updates(r, v))
<1>1. CASE ~Exists(r)
  BY <1>1 DEF Updates
<1>2. CASE Exists(r)
  <2> DEFINE u == Updates(r, v)
  <2>1. /\ u.status = v.status
        /\ u.clientHost = IF v.clientHost = NoHost THEN r.clientHost ELSE v.clientHost
        /\ u.targetPaths = IF v.pathsNil THEN r.targetPaths ELSE v.targetPaths
        /\ u.pathsNil = (v.pathsNil /\ r.pathsNil)
    BY <1>2 DEF Updates, Kept
  <2> HIDE DEF u
  <2>2. IsConnected(u) => u.clientHost # NoHost
    BY <2>1 DEF Sound, IsConnected
  <2>3. IsMounted(u) => u.targetPaths # {}
    BY <2>1 DEF Sound, IsMounted
  <2>4. u.pathsNil => u.targetPaths = {}
    BY <2>1 DEF Sound
  <2> QED
    BY <2>2, <2>3, <2>4 DEF Sound, u
<1> QED
  BY <1>1, <1>2

LEMMA StoredSound ==
  ASSUME NEW v \in Volume, Sound(v)
  PROVE  /\ \A s, t : Sound(ToPublished(v, s, t))
         /\ Sound(ToUnpublished(v))
         /\ \A h : h # NoHost => Sound(ToConnected(v, h))
         /\ Sound(ToDisconnected(v))
         /\ \A p : IsConnected(v) => Sound(ToStaged(v, p))
         /\ v.clientHost # NoHost => Sound(ToUnstaged(v))
         /\ \A p : v.clientHost # NoHost => Sound(ToMounted(v, p))
         /\ \A p : v.clientHost # NoHost => Sound(ToUnmounted(v, p))
         /\ Sound(ToUpdated(v))
<1> USE DEF Sound, IsConnected, IsMounted, Volume, Status, UNSPECIFIED, INITIAL,
            PUBLISHED, CONNECTED, STAGED, MOUNTED
<1>1. \A s, t : Sound(ToPublished(v, s, t))
  BY DEF ToPublished
<1>2. Sound(ToUnpublished(v))
  BY DEF ToUnpublished
<1>3. \A h : h # NoHost => Sound(ToConnected(v, h))
  BY DEF ToConnected
<1>4. Sound(ToDisconnected(v))
  BY DEF ToDisconnected
<1>5. \A p : IsConnected(v) => Sound(ToStaged(v, p))
  BY DEF ToStaged
<1>6. v.clientHost # NoHost => Sound(ToUnstaged(v))
  BY DEF ToUnstaged
<1>7. \A p : v.clientHost # NoHost => Sound(ToMounted(v, p))
  BY DEF ToMounted
<1>8. \A p : v.clientHost # NoHost => Sound(ToUnmounted(v, p))
  BY DEF ToUnmounted
<1>9. Sound(ToUpdated(v))
  BY DEF ToUpdated
<1> QED
  BY <1>1, <1>2, <1>3, <1>4, <1>5, <1>6, <1>7, <1>8, <1>9

(* A request stores a sound copy, if the handler finds the hosts it needs. *)
LEMMA RequestSound ==
  ASSUME TypeOK, SoundCopies, NEW c \in Calls, Request(c)
  PROVE  SoundCopies'
<1>1. row \in Volume /\ Sound(row)
  BY DEF TypeOK, SoundCopies
<1>2. ASSUME NEW op, NEW pc, NEW v, NEW at, NEW ready,
             Accept(c, op, pc, v, at, ready),
             op = "Update" \/ (op \in LockedOps /\ ready) => Sound(v)
      PROVE  SoundCopies'
  <2>1. /\ call' = [call EXCEPT ![c] = [op |-> op, pc |-> pc, v |-> v, at |-> at,
                                        ready |-> ready]]
        /\ row' = row
    BY <1>2 DEF Accept
  <2>2. /\ call'[c].op = op /\ call'[c].v = v /\ call'[c].ready = ready
        /\ \A d \in Calls \ {c} : call'[d] = call[d]
    BY <2>1 DEF TypeOK
  <2> QED
    BY <1>2, <2>1, <2>2 DEF SoundCopies
<1>3. CASE DeleteVolume(c)
  BY <1>2, <1>3 DEF DeleteVolume, LockedOps
<1>4. ASSUME NEW s, NEW t, PublishVolume(c, s, t) PROVE SoundCopies'
  BY <1>1, <1>2, <1>4, StoredSound DEF PublishVolume
<1>5. CASE UnpublishVolume(c)
  BY <1>1, <1>2, <1>5, StoredSound DEF UnpublishVolume
<1>6. ASSUME NEW h, ConnectVolume(c, h) PROVE SoundCopies'
  BY <1>1, <1>2, <1>6, StoredSound DEF ConnectVolume
<1>7. CASE DisconnectVolume(c)
  BY <1>1, <1>2, <1>7, StoredSound DEF DisconnectVolume
<1>8. ASSUME NEW p, StageVolume(c, p) PROVE SoundCopies'
  BY <1>1, <1>2, <1>8, StoredSound DEF StageVolume
<1>9. CASE UnstageVolume(c)
  BY <1>1, <1>2, <1>9, StoredSound DEF UnstageVolume
<1>10. ASSUME NEW p, MountVolume(c, p) PROVE SoundCopies'
  BY <1>1, <1>2, <1>10, StoredSound DEF MountVolume
<1>11. ASSUME NEW p, UnmountVolume(c, p) PROVE SoundCopies'
  BY <1>1, <1>2, <1>11, StoredSound DEF UnmountVolume
<1>12. CASE UpdateVolume(c)
  BY <1>1, <1>2, <1>12, StoredSound DEF UpdateVolume
<1> QED
  BY <1>3, <1>4, <1>5, <1>6, <1>7, <1>8, <1>9, <1>10, <1>11, <1>12 DEF Request

(* A committed row that is connected names its client and a mounted one has a
   target path, for any number of overlapping calls, whatever they read before
   they waited for the lock (DisconnectVolume, UnstageVolume and UnmountVolume
   depend on those columns). *)
THEOREM TeardownPossible == Spec => []TeardownColumns
<1>1. Init => SoundCopies
  BY DEF Init, SoundCopies, Sound, NoVolume, NewVolume, NoOutputs, Idle, IsConnected, IsMounted,
     UNSPECIFIED, INITIAL, CONNECTED, MOUNTED, LockedOps
<1>2. TypeOK /\ Course /\ SoundCopies /\ [Next]_vars => SoundCopies'
  <2> SUFFICES ASSUME TypeOK, Course, SoundCopies, [Next]_vars PROVE SoundCopies'
    OBVIOUS
  <2>1. ASSUME NEW m \in CreateModes, NEW t \in AnyTransport,
               NEW out \in CreateOutputs, CreateVolume(m, t, out)
       PROVE SoundCopies'
    <3>1. /\ NewVolume(m, t, out).status = INITIAL
          /\ NewVolume(m, t, out).targetPaths = out.targetPaths
          /\ NewVolume(m, t, out).pathsNil <=> out.targetPaths = {}
      BY DEF NewVolume
    <3>2. Sound(NewVolume(m, t, out))
      BY <3>1 DEF Sound, IsConnected, IsMounted, INITIAL, CONNECTED, MOUNTED
    <3> QED
      BY <2>1, <3>2 DEF CreateVolume, SoundCopies
  <2>2. ASSUME NEW c \in Calls, Request(c) PROVE SoundCopies'
    BY <2>2, RequestSound
  <2>3. ASSUME NEW c \in Calls, NEW pc \in Steps, Goto(c, pc), Sound(row')
        PROVE  SoundCopies'
    <3>1. /\ \A d \in Calls \ {c} : call'[d] = call[d]
          /\ pc = "idle" => call'[c] = Idle
          /\ pc # "idle" => /\ call'[c].op = call[c].op
                           /\ call'[c].v = call[c].v
                           /\ call'[c].ready = call[c].ready
      BY <2>3, GotoStep
    <3>2. CASE pc = "idle"
      BY <2>3, <3>1, <3>2 DEF SoundCopies, Idle, LockedOps
    <3>3. CASE pc # "idle"
      BY <2>3, <3>1, <3>3 DEF SoundCopies
    <3> QED
      BY <3>2, <3>3
  <2>4. ASSUME NEW c \in Calls, Begin(c) PROVE SoundCopies'
    <3>1. First(call[c].op) \in Steps
      BY DEF First, Steps, Commands, ZfsCommands, TargetCommands, SessionCommands,
         FsCommands, MountCommands
    <3> QED
      BY <2>3, <2>4, <3>1 DEF Begin, SoundCopies
  <2>5. ASSUME NEW c \in Calls, WriteUpdate(c) PROVE SoundCopies'
    <3>1. FirstOfUpdate(call[c].v) \in Steps
      BY DEF FirstOfUpdate, RescanOrAnswer, Steps, Commands, ZfsCommands, SessionCommands
    <3>2. Sound(Updates(row, call[c].v))
      BY <2>5, UpdatesSound DEF WriteUpdate, SoundCopies, TypeOK, Call
    <3> QED
      BY <2>3, <2>5, <3>1, <3>2 DEF WriteUpdate
  <2>6. ASSUME NEW c \in Calls,
               \/ NotReady(c) \/ LockTimeout(c) \/ CommandFails(c)
               \/ LoseCommand(c) \/ LoseAnswer(c)
        PROVE  SoundCopies'
    <3>1. Goto(c, "idle") /\ row' = row
      BY <2>6 DEF NotReady, LockTimeout, CommandFails, LoseCommand, LoseAnswer, Fail
    <3> QED
      BY <2>3, <3>1 DEF Steps, SoundCopies
  <2>7. ASSUME NEW c \in Calls, RunCommand(c) PROVE SoundCopies'
    <3>1. After(call[c].pc, call[c].v, world, call[c].at) \in Steps
      BY <2>7, AfterStep DEF RunCommand
    <3> QED
      BY <2>3, <2>7, <3>1 DEF RunCommand, SoundCopies
  <2>8. ASSUME NEW c \in Calls, Commit(c) PROVE SoundCopies'
    <3>1. call[c].op \in LockedOps /\ call[c].ready
      BY <2>8 DEF Commit, Course, OnCourse, Accepted, Locked
    <3>2. Sound(Updates(row, call[c].v))
      BY <3>1, UpdatesSound DEF SoundCopies, TypeOK, Call
    <3> QED
      BY <2>3, <2>8, <3>2 DEF Commit, Steps
  <2>9. ASSUME NEW c \in Calls, DeleteRow(c) PROVE SoundCopies'
    <3>1. Sound(NoVolume)
      BY DEF Sound, NoVolume, NewVolume, NoOutputs, IsConnected, IsMounted, UNSPECIFIED,
         CONNECTED, MOUNTED
    <3> QED
      BY <2>3, <2>9, <3>1 DEF DeleteRow, Steps
  <2>10. CASE Crash
    BY <2>10 DEF Crash, SoundCopies, Idle, LockedOps
  <2>11. CASE UNCHANGED vars
    BY <2>11 DEF vars, SoundCopies
  <2> QED
    BY <2>1, <2>2, <2>4, <2>5, <2>6, <2>7, <2>8, <2>9, <2>10, <2>11
       DEF Next, Progress, Fault
<1>3. SoundCopies => TeardownColumns
  BY DEF SoundCopies, Sound, TeardownColumns
<1> QED
  BY <1>1, <1>2, <1>3, TypeAndCourse, PTL DEF Spec

=============================================================================
