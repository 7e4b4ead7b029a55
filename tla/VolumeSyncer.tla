---------------------------- MODULE VolumeSyncer ----------------------------
(***************************************************************************)
(* The VolumeSyncer next to the VolumeService.  SyncVolume reads a row once *)
(* and then, pass by pass, looks at the hosts and repairs what differs: it  *)
(* holds no lock, and neither its looks nor its repairs read the row again. *)
(* It reaches the server at its management address, where the service uses  *)
(* the data endpoint.                                                       *)
(*                                                                         *)
(* The hosts may restart here: that is what a sync is for.                  *)
(***************************************************************************)
EXTENDS VolumeService, SequencesExt

CONSTANTS
  LocalServers,   \* the servers whose connection is LOCAL: it has no address
  MaxRestarts     \* bound on restarts of hosts

ASSUME LocalAssumption == LocalServers \subseteq Servers
ASSUME RestartsAssumption == MaxRestarts \in Nat

VARIABLES
  sync,           \* the sync each slot is running
  restarts        \* restarts of hosts so far

syncVars == <<vars, sync, restarts>>

(* A look: the resource, and whether it should be there. *)
Resources == {"zvol", "target", "acl", "session", "staging", "path"}
Look == [of : Resources, want : BOOLEAN, path : MountPaths \cup {NoPath}]

(* "calm" records that nothing but this sync has touched the hosts since it
   started and that none of its looks was lost: it observes, nothing reads it. *)
Syncing ==
  [pc : {"idle", "look", "done"} \cup Commands, v : Volume, todo : Seq(Look),
   calm : BOOLEAN]

AtRest == [pc |-> "idle", v |-> NoVolume, todo |-> <<>>, calm |-> TRUE]

Busy(c) == sync[c].pc # "idle"

(* The variables have their types, a slot runs a sync or a call of the service
   but not both, and a sync has a look to take or to repair until it is done
   (the loops of VolumeSyncer.Sync). *)
SyncTypeOK ==
  /\ sync \in [Calls -> Syncing]
  /\ restarts \in 0..MaxRestarts
  /\ \A c \in Calls : /\ Busy(c) => call[c].pc = "idle"
                       /\ (sync[c].todo = <<>>) = (sync[c].pc \in {"idle", "done"})

SyncInit == Init /\ sync = [c \in Calls |-> AtRest] /\ restarts = 0

-----------------------------------------------------------------------------
(* The passes, each the looks it takes at the hosts.                         *)

One(of, want) == <<[of |-> of, want |-> want, path |-> NoPath]>>

syncZFS(v) == IF v.serverHost = NoHost THEN <<>> ELSE One("zvol", TRUE)

syncPublish(v) ==
  IF v.serverHost = NoHost THEN <<>> ELSE One("target", IsPublished(v))

syncConnect(v) ==
  IF NoHost \in {v.serverHost, v.clientHost} THEN <<>>
  ELSE IF IsConnected(v) THEN One("acl", TRUE) \o One("session", TRUE)
  ELSE One("session", FALSE) \o One("acl", FALSE)

syncStage(v) ==
  IF NoHost \in {v.serverHost, v.clientHost} \/ v.stagingPath = NoPath THEN <<>>
  ELSE One("staging", IsStaged(v))

AtPaths(v, want) ==
  LET paths == SetToSeq(v.targetPaths)
  IN  [i \in DOMAIN paths |-> [of |-> "path", want |-> want, path |-> paths[i]]]

(* Every path listed is mounted first, and unmounted again when the status
   says so. *)
syncMount(v) ==
  IF v.clientHost = NoHost \/ v.stagingPath = NoPath THEN <<>>
  ELSE AtPaths(v, TRUE) \o (IF IsMounted(v) THEN <<>> ELSE AtPaths(v, FALSE))

(* Mutant: every rung is repaired upwards, whatever the status. *)
SyncUpwards(v) ==
  LET up == [v EXCEPT !.status = MOUNTED]
  IN  syncZFS(up) \o syncPublish(up) \o syncConnect(up) \o syncStage(up)
        \o syncMount(up)

(* Mutants: two passes change places. *)
SyncStageFirst(v) ==
  syncZFS(v) \o syncPublish(v) \o syncStage(v) \o syncConnect(v) \o syncMount(v)
SyncMountFirst(v) ==
  syncZFS(v) \o syncPublish(v) \o syncConnect(v) \o syncMount(v) \o syncStage(v)

Sync(v) ==
  syncZFS(v) \o syncPublish(v) \o syncConnect(v) \o syncStage(v) \o syncMount(v)

(* The service's place, seen through the management address. *)
SyncPlace(v, path) == [PlaceOf(v, path) EXCEPT !.portal = "management"]

Where(c) == SyncPlace(sync[c].v, Head(sync[c].todo).path)

(* zfs list; ls -d on configfs; iscsiadm -m session or nvme list-subsys, which
   do not ask for a portal; mountpoint -q, which does not ask for a device. *)
Found(of, w, at) ==
  CASE of = "zvol"    -> w.zvol[at.server] # "absent"
    [] of = "target"  -> Export(at) \in w.target
    [] of = "acl"     -> <<Export(at), at.client>> \in w.acl
    [] of = "session" -> LoggedIn(w, at)
    [] of = "staging" -> w.mount[at.client][at.staging] # <<>>
    [] of = "path"    -> w.mount[at.client][at.path] # <<>>

(* The command, or the first of the commands, that repairs. *)
Repair(look) ==
  CASE look.of = "zvol"    -> "zfsCreate"
    [] look.of = "target"  -> IF look.want THEN "publish" ELSE "unpublish"
    [] look.of = "acl"     -> IF look.want THEN "authorize" ELSE "unauthorize"
    [] look.of = "session" -> IF look.want THEN "login" ELSE "logout"
    [] look.of = "staging" -> IF look.want THEN "waitDevice" ELSE "umountStaging"
    [] look.of = "path"    -> IF look.want THEN "bind" ELSE "umountTarget"

-----------------------------------------------------------------------------
(* Slot c's sync goes on as s; the others lose their calm when the hosts
   change under them. *)
Becomes(c, s) ==
  \E touched \in {world' # world} :
    sync' = [d \in Calls |->
               IF d = c THEN s
               ELSE [sync[d] EXCEPT !.calm = @ /\ ~(touched /\ Busy(d))]]

Disturbed ==
  \E touched \in {world' # world} :
    sync' = [d \in Calls |->
               [sync[d] EXCEPT !.calm = @ /\ ~(touched /\ Busy(d))]]

(* Mutant: the list is tested before the look is taken off it. *)
AdvanceLate(c) ==
  LET todo == sync[c].todo
  IN  [sync[c] EXCEPT !.todo = Tail(todo),
                      !.pc = IF todo = <<>> THEN "done" ELSE "look"]

Advance(c) ==
  LET rest == Tail(sync[c].todo)
  IN  [sync[c] EXCEPT !.todo = rest, !.pc = IF rest = <<>> THEN "done" ELSE "look"]

(* The row is read here and never again. *)
SyncVolume(c) ==
  /\ call[c].pc = "idle"
  /\ ~Busy(c)
  /\ Exists(row)
  /\ Sync(row) # <<>>
  /\ sync' = [sync EXCEPT ![c] = [pc |-> "look", v |-> row, todo |-> Sync(row),
                                  calm |-> TRUE]]
  /\ UNCHANGED <<vars, restarts>>

(* syncConnect reads the server's Remote.Address before its first look, and
   panics where the connection is LOCAL; syncStage would, but comes later. *)
Panics(c) ==
  /\ Head(sync[c].todo).of \in {"acl", "session"}
  /\ sync[c].v.serverHost \in LocalServers

(* Without a transport type there is no command to repair with. *)
TakeLook(c) ==
  LET look == Head(sync[c].todo)
  IN  /\ sync[c].pc = "look"
      /\ UNCHANGED <<vars, restarts>>
      /\ Becomes(c, IF Panics(c) THEN AtRest
                    ELSE IF Found(look.of, world, Where(c)) = look.want THEN Advance(c)
                    ELSE IF /\ look.of \in {"target", "acl", "session"}
                            /\ sync[c].v.transport.type = "UNSPECIFIED"
                    THEN AtRest
                    ELSE [sync[c] EXCEPT !.pc = Repair(look)])

RunRepair(c) ==
  LET cmd == sync[c].pc
  IN  /\ cmd \in Commands
      /\ Succeeds(cmd, world, Where(c))
      /\ world' = Effect(cmd, world, Where(c))
      /\ Becomes(c, IF cmd \in FsCommands
                    THEN [sync[c] EXCEPT !.pc = After(cmd, @, world, Where(c))]
                    ELSE Advance(c))
      /\ UNCHANGED <<row, lock, call, faults, restarts>>

RepairFails(c) ==
  /\ sync[c].pc \in Commands
  /\ ~Succeeds(sync[c].pc, world, Where(c))
  /\ UNCHANGED <<vars, restarts>>
  /\ Becomes(c, AtRest)

SyncAnswer(c) ==
  /\ sync[c].pc = "done"
  /\ UNCHANGED <<vars, restarts>>
  /\ Becomes(c, AtRest)

(* A look that could not be taken reads as "not there"; zfs list alone tells
   an error from an answer. *)
LoseLook(c) ==
  LET look == Head(sync[c].todo)
  IN  /\ faults < MaxFaults
      /\ sync[c].pc = "look"
      /\ ~Panics(c)
      /\ faults' = faults + 1
      /\ UNCHANGED <<row, lock, call, world, restarts>>
      /\ Becomes(c, IF look.of = "zvol" THEN AtRest
                    ELSE IF ~look.want THEN [Advance(c) EXCEPT !.calm = FALSE]
                    ELSE [sync[c] EXCEPT !.pc = Repair(look), !.calm = FALSE])

(* The repair's answer is lost: it was done, or it was not. *)
LoseRepair(c) ==
  /\ faults < MaxFaults
  /\ sync[c].pc \in Commands
  /\ faults' = faults + 1
  /\ \/ UNCHANGED world
     \/ /\ Succeeds(sync[c].pc, world, Where(c))
        /\ world' = Effect(sync[c].pc, world, Where(c))
  /\ Becomes(c, AtRest)
  /\ UNCHANGED <<row, lock, call, restarts>>

-----------------------------------------------------------------------------
(* The hosts and the control plane.                                          *)

(* A client loses its mounts; iscsid may or may not log in again. *)
ClientRestarts(h) ==
  /\ restarts < MaxRestarts
  /\ restarts' = restarts + 1
  /\ \E back \in BOOLEAN :
        world' = [world EXCEPT
                    !.mount[h] = [p \in Paths |-> <<>>],
                    !.session = {s \in @ : s.client = h => back}]
  /\ Disturbed
  /\ UNCHANGED <<row, lock, call, faults>>

(* A server may lose what was not saved of its configfs. *)
ServerRestarts(s) ==
  /\ restarts < MaxRestarts
  /\ restarts' = restarts + 1
  /\ \E lost \in SUBSET {t \in world.target : t[1] = s} :
        world' = [world EXCEPT !.target = @ \ lost,
                               !.acl = {a \in @ : a[1] \notin lost}]
  /\ Disturbed
  /\ UNCHANGED <<row, lock, call, faults>>

CrashAll ==
  /\ faults < MaxFaults
  /\ \E c \in Calls : call[c].pc # "idle" \/ Busy(c)
  /\ call' = [c \in Calls |-> Idle]
  /\ lock' = NoCall
  /\ sync' = [c \in Calls |-> AtRest]
  /\ faults' = faults + 1
  /\ UNCHANGED <<row, world, restarts>>

(* A slot runs a call of the service or a sync, never both. *)
ServiceStep(c) ==
  /\ \/ Request(c) /\ ~Busy(c)
     \/ Progress(c)
     \/ Fault(c)
  /\ Disturbed
  /\ UNCHANGED restarts

SyncProgress(c) ==
  \/ TakeLook(c)
  \/ RunRepair(c)
  \/ RepairFails(c)
  \/ SyncAnswer(c)

SyncNext ==
  \/ /\ \E m \in CreateModes, t \in AnyTransport, out \in CreateOutputs :
          CreateVolume(m, t, out)
     /\ UNCHANGED <<sync, restarts>>
  \/ \E c \in Calls : \/ ServiceStep(c)
                      \/ SyncVolume(c)
                      \/ SyncProgress(c)
                      \/ LoseLook(c)
                      \/ LoseRepair(c)
  \/ \E h \in Clients : ClientRestarts(h)
  \/ \E s \in Servers : ServerRestarts(s)
  \/ CrashAll

SyncSpec == SyncInit /\ [][SyncNext]_syncVars

FairSyncSpec ==
  SyncSpec /\ \A c \in Calls : /\ WF_syncVars(Progress(c) /\ Disturbed /\ UNCHANGED restarts)
                               /\ WF_syncVars(SyncProgress(c))

-----------------------------------------------------------------------------
(* Properties.                                                               *)

(* What the hosts should look like, by the row's status alone. *)
Serves(w, v) ==
  LET at == PlaceOf(v, NoPath)
      known == NoHost \notin {v.serverHost, v.clientHost}
  IN  /\ v.serverHost # NoHost => w.zvol[v.serverHost] # "absent"
      /\ IsPublished(v) => Export(at) \in w.target
      /\ known /\ IsPublished(v) =>
            /\ LoggedIn(w, at) <=> IsConnected(v)
            /\ <<Export(at), at.client>> \in w.acl <=> IsConnected(v)
      /\ known /\ v.stagingPath # NoPath =>
            IF IsStaged(v)
            THEN \A p \in {v.stagingPath} \cup v.targetPaths :
                    w.mount[v.clientHost][p] # <<>>
            ELSE ShownAt(w, v.clientHost, v.stagingPath).kind # "device"

(* A sync that succeeds, and that nothing disturbed, leaves the hosts as its
   row wants them: no later pass undoes an earlier one (VolumeSyncer.Sync). *)
SyncSettles ==
  \A c \in Calls :
    sync[c].pc = "done" /\ sync[c].calm => Serves(world, sync[c].v)

(* A sync never binds the node's own directory to a target path: what it binds
   has been staged before, if need be by an earlier pass of the same sync. *)
SyncBindsVolume ==
  \A c \in Calls :
    sync[c].pc = "bind" /\ sync[c].calm =>
      world.mount[sync[c].v.clientHost][sync[c].v.stagingPath] # <<>>

(* syncConnect can name the portal of v's server, or has no client to connect. *)
Reachable(v) == v.serverHost \notin LocalServers \/ v.clientHost = NoHost

(* A sync of a volume that nobody else works on, and whose server has an
   address when there is a client to connect, succeeds, whatever restarts of
   its hosts have undone, as long as no command is lost. *)
SyncSucceeds ==
  \A c \in Calls :
    sync[c].pc = "look" /\ sync[c].calm /\ Reachable(sync[c].v) /\ faults = 0
      ~> sync[c].pc = "done" \/ ~sync[c].calm \/ faults > 0

=============================================================================
