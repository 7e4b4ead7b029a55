---------------------------- MODULE HostCommands ----------------------------
(***************************************************************************)
(* The hosts as the control plane sees them: what the shell commands of    *)
(* app/internal/command do, for one volume, to the servers (zvol, exported *)
(* target, access list) and to the clients (sessions, mounts).             *)
(*                                                                         *)
(* A command is named by a string.  Succeeds says whether it exits with    *)
(* status 0 (or with one the wrapper accepts), Effect what it leaves       *)
(* behind.  A command that does not succeed leaves nothing behind.         *)
(***************************************************************************)
EXTENDS VolumeRow, Sequences, FiniteSets

(* Where a command runs and what it names: the parameters of its template. *)
Place ==
  [server  : Servers \cup {NoHost},
   client  : Clients \cup {NoHost},
   type    : Transports \cup {"UNSPECIFIED"},
   portal  : {"data", "management"},
   mode    : Modes,
   staging : StagingPaths \cup {NoPath},
   path    : MountPaths \cup {NoPath}]

(* The service always names the server's data endpoint as the portal. *)
PlaceOf(v, path) ==
  [server |-> v.serverHost, client |-> v.clientHost, type |-> v.transport.type,
   portal |-> "data", mode |-> v.mode, staging |-> v.stagingPath, path |-> path]

NoPlace == PlaceOf(NoVolume, NoPath)

-----------------------------------------------------------------------------
(* What a mount point shows: the device of a session, a device whose session
   has been closed under the mount, or a plain directory (the bind mount of a
   staging path on which nothing is mounted). *)
Backing == [kind   : {"device", "dead", "dir"},
            server : Servers \cup {NoHost},
            type   : Transports \cup {"UNSPECIFIED"}]

Device(server, type) == [kind |-> "device", server |-> server, type |-> type]
Dead     == [kind |-> "dead", server |-> NoHost, type |-> "UNSPECIFIED"]
PlainDir == [kind |-> "dir",  server |-> NoHost, type |-> "UNSPECIFIED"]

Paths == StagingPaths \cup MountPaths

Exports  == Servers \X (Transports \cup {"UNSPECIFIED"})
Sessions == [client : Clients, server : Servers,
             type : Transports \cup {"UNSPECIFIED"},
             portal : {"data", "management"}]

(* "overwritten" records that mkfs ran over a zvol that already carried a
   filesystem: it observes, nothing reads it. *)
World ==
  [zvol        : [Servers -> {"absent", "blank", "ext4"}],
   target      : SUBSET Exports,
   acl         : SUBSET (Exports \X Clients),
   session     : SUBSET Sessions,
   mount       : [Clients -> [Paths -> Seq(Backing)]],
   overwritten : BOOLEAN]

FreshWorld ==
  [zvol        |-> [s \in Servers |-> "absent"],
   target      |-> {},
   acl         |-> {},
   session     |-> {},
   mount       |-> [c \in Clients |-> [p \in Paths |-> <<>>]],
   overwritten |-> FALSE]

Export(at) == <<at.server, at.type>>

(* The sessions a command can mean.  iscsiadm names a session by target and
   portal; nvme names it by the subsystem alone. *)
SessionsAt(w, at) ==
  {s \in w.session : /\ s.client = at.client /\ s.server = at.server
                     /\ s.type = at.type
                     /\ at.type = "ISCSI" => s.portal = at.portal}

(* A session with the target, whichever portal it went through. *)
LoggedIn(w, at) ==
  \E s \in w.session :
    s.client = at.client /\ s.server = at.server /\ s.type = at.type

(* The client's block device is there when a session reaches an exported zvol;
   its path is found by a pattern that leaves the portal open. *)
DevicePresent(w, at) ==
  /\ LoggedIn(w, at)
  /\ Export(at) \in w.target
  /\ w.zvol[at.server] # "absent"

(* Mounts are stacks, the visible one first. *)
Push(w, client, path, b) ==
  [w EXCEPT !.mount[client][path] = <<b>> \o @]

Pop(w, client, path) == [w EXCEPT !.mount[client][path] = Tail(@)]

ShownAt(w, client, path) ==
  IF w.mount[client][path] = <<>> THEN PlainDir ELSE Head(w.mount[client][path])

(* Closing the last session kills the device under every mount that uses it. *)
CloseSessions(w, at) ==
  LET left == [w EXCEPT !.session = @ \ SessionsAt(w, at)]
  IN  [left EXCEPT
         !.mount[at.client] =
            [p \in Paths |->
               [i \in DOMAIN @[p] |->
                  IF @[p][i] = Device(at.server, at.type) /\ ~LoggedIn(left, at)
                  THEN Dead ELSE @[p][i]]]]

-----------------------------------------------------------------------------
(* zfs: create, destroy, list, set.  An exported zvol is held open: destroy
   finds "dataset is busy", five times over. *)
ZfsCommands == {"zfsList", "zfsCreate", "zfsDestroy", "zfsSet"}

ZfsSucceeds(cmd, w, at) ==
  CASE cmd = "zfsCreate"  -> w.zvol[at.server] = "absent"
    [] cmd = "zfsDestroy" -> \A t \in w.target : t[1] # at.server
    [] cmd = "zfsSet"     -> w.zvol[at.server] # "absent"
    [] OTHER              -> TRUE

ZfsEffect(cmd, w, at) ==
  CASE cmd = "zfsCreate"  -> [w EXCEPT !.zvol[at.server] = "blank"]
    [] cmd = "zfsDestroy" -> [w EXCEPT !.zvol[at.server] = "absent"]
    [] OTHER              -> w

(* The target and its access list.  targetcli and nvmetcli read their commands
   from a pipe and report none of their errors.  The NVMe access list is kept
   with plain mkdir, ln, rm and rmdir on configfs, which do: a link over a link
   is refused, and so is the removal of a host that is not there. *)
TargetCommands == {"publish", "unpublish", "authorize", "unauthorize"}

NVMeTargetSucceeds(cmd, w, at) ==
  LET listed == <<Export(at), at.client>> \in w.acl
  IN  CASE cmd = "authorize"   -> Export(at) \in w.target /\ ~listed
        [] cmd = "unauthorize" -> listed
        [] OTHER               -> TRUE

TargetSucceeds(cmd, w, at) ==
  at.type = "NVMEOF_TCP" => NVMeTargetSucceeds(cmd, w, at)

TargetEffect(cmd, w, at) ==
  CASE cmd = "publish"     -> IF w.zvol[at.server] = "absent" THEN w
                              ELSE [w EXCEPT !.target = @ \cup {Export(at)}]
    [] cmd = "unpublish"   -> [w EXCEPT !.target = @ \ {Export(at)},
                                        !.acl = {a \in @ : a[1] # Export(at)}]
    [] cmd = "authorize"   -> IF Export(at) \notin w.target THEN w
                              ELSE [w EXCEPT !.acl = @ \cup {<<Export(at), at.client>>}]
    [] cmd = "unauthorize" -> [w EXCEPT !.acl = @ \ {<<Export(at), at.client>>}]

(* The sessions.  A second login through the same portal is refused.  iscsiadm
   refuses a logout without a session; nvme disconnect does not mind. *)
SessionCommands == {"login", "logout", "rescan"}

LoginSucceeds(w, at) ==
  /\ \A s \in SessionsAt(w, at) : s.portal # at.portal
  /\ Export(at) \in w.target
  /\ <<Export(at), at.client>> \in w.acl

ISCSISessionSucceeds(cmd, w, at) ==
  IF cmd = "login" THEN LoginSucceeds(w, at) ELSE SessionsAt(w, at) # {}

NVMeSessionSucceeds(cmd, w, at) ==
  CASE cmd = "login"  -> LoginSucceeds(w, at)
    [] cmd = "rescan" -> SessionsAt(w, at) # {}
    [] OTHER          -> TRUE

SessionSucceeds(cmd, w, at) ==
  IF at.type = "NVMEOF_TCP" THEN NVMeSessionSucceeds(cmd, w, at)
                            ELSE ISCSISessionSucceeds(cmd, w, at)

SessionEffect(cmd, w, at) ==
  CASE cmd = "login"  ->
         [w EXCEPT !.session = @ \cup {[client |-> at.client, server |-> at.server,
                                        type |-> at.type, portal |-> at.portal]}]
    [] cmd = "logout" -> CloseSessions(w, at)
    [] OTHER          -> w

(* The device: ls until it is there (or the time is up), blkid, mkfs.ext4 -F,
   resize2fs. *)
FsCommands == {"waitDevice", "blkid", "mkfs", "resize"}

FsSucceeds(cmd, w, at) ==
  /\ DevicePresent(w, at)
  /\ cmd = "resize" => w.zvol[at.server] = "ext4"

FsEffect(cmd, w, at) ==
  IF cmd = "mkfs"
  THEN [w EXCEPT !.zvol[at.server] = "ext4",
                 !.overwritten = @ \/ w.zvol[at.server] = "ext4"]
  ELSE w

(* mount and umount.  The staging path was made by mkdir: a device file cannot
   be bound over a directory, and a device mounts once on one path. *)
MountCommands == {"mount", "umountStaging", "bind", "umountTarget"}

MountSucceeds(cmd, w, at) ==
  CASE cmd = "mount"         ->
         /\ at.mode = "FILESYSTEM"
         /\ DevicePresent(w, at)
         /\ w.zvol[at.server] = "ext4"
         /\ ShownAt(w, at.client, at.staging) # Device(at.server, at.type)
    [] cmd = "umountStaging" -> w.mount[at.client][at.staging] # <<>>
    [] cmd = "umountTarget"  -> w.mount[at.client][at.path] # <<>>
    [] OTHER                 -> TRUE

MountEffect(cmd, w, at) ==
  CASE cmd = "mount"         -> Push(w, at.client, at.staging, Device(at.server, at.type))
    [] cmd = "umountStaging" -> Pop(w, at.client, at.staging)
    [] cmd = "bind"          -> Push(w, at.client, at.path,
                                     ShownAt(w, at.client, at.staging))
    [] cmd = "umountTarget"  -> Pop(w, at.client, at.path)

-----------------------------------------------------------------------------
Commands ==
  ZfsCommands \cup TargetCommands \cup SessionCommands \cup FsCommands
    \cup MountCommands

(* The exit status, and what the command leaves behind. *)
Succeeds(cmd, w, at) ==
  CASE cmd \in ZfsCommands     -> ZfsSucceeds(cmd, w, at)
    [] cmd \in TargetCommands  -> TargetSucceeds(cmd, w, at)
    [] cmd \in SessionCommands -> SessionSucceeds(cmd, w, at)
    [] cmd \in FsCommands      -> FsSucceeds(cmd, w, at)
    [] cmd \in MountCommands   -> MountSucceeds(cmd, w, at)

Effect(cmd, w, at) ==
  CASE cmd \in ZfsCommands     -> ZfsEffect(cmd, w, at)
    [] cmd \in TargetCommands  -> TargetEffect(cmd, w, at)
    [] cmd \in SessionCommands -> SessionEffect(cmd, w, at)
    [] cmd \in FsCommands      -> FsEffect(cmd, w, at)
    [] cmd \in MountCommands   -> MountEffect(cmd, w, at)

(* A client writes to the volume through a mount of a device it is logged in
   to. *)
Writers(w) ==
  {c \in Clients : \E p \in Paths : \E i \in DOMAIN w.mount[c][p] :
                      w.mount[c][p][i].kind = "device"}

=============================================================================
