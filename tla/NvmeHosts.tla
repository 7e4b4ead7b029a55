------------------------------ MODULE NvmeHosts ------------------------------
(***************************************************************************)
(* Several NVMe volumes of one server and the clients that use them.  A     *)
(* subsystem lists its hosts by links, and all subsystems share the         *)
(* directory of a client: the access lists of two volumes are not           *)
(* independent, as the per-volume commands of nvmeof.go take them to be.    *)
(*                                                                         *)
(* Each volume has one caller: its calls do not overlap (the module          *)
(* VolumeService is about calls that do), the calls of different volumes do. *)
(* A caller repeats a disconnect until it is answered OK.                    *)
(***************************************************************************)
EXTENDS Naturals, FiniteSets

CONSTANTS
  Volumes,        \* the volumes, all on one server and over NVMEOF_TCP
  Clients,        \* the hosts that connect to them
  NoVolume,       \* nobody holds the database's write lock
  MaxFaults,      \* bound on lost commands and lost answers
  MaxTurns        \* bound on the callers' changes of mind and on syncs

ASSUME NvmeAssumption ==
  MaxFaults \in Nat /\ MaxTurns \in Nat /\ NoVolume \notin Volumes

NoClient == "NoClient"
Rungs == {"INITIAL", "PUBLISHED", "CONNECTED"}

VARIABLES
  row,            \* the stored status and client of each volume
  hosts,          \* the server's configfs and the clients' sessions
  call,           \* what each volume's caller is running
  lock,           \* the volume whose call has the open transaction
  goal,           \* does the caller want the volume attached?
  faults, turns

nvmeVars == <<row, hosts, call, lock, goal, faults, turns>>

Row == [rung : Rungs, client : Clients \cup {NoClient}]

Links == Volumes \X Clients

Hosts == [subsystems : SUBSET Volumes, entries : SUBSET Clients,
          links : SUBSET Links, sessions : SUBSET Links]

Steps == {"idle", "publish", "unpublish", "authorize", "connect", "disconnect",
          "unauthorize", "lookTarget", "lookLink", "lookSession", "commit"}

(* "goes" is the kind of call, "next" the row it commits (a sync: has read). *)
Call == [step : Steps, goes : {"nowhere", "up", "down", "sync"}, next : Row]

Idle == [step |-> "idle", goes |-> "nowhere",
         next |-> [rung |-> "INITIAL", client |-> NoClient]]

(* The variables have their types, and an open transaction belongs to a call
   of the service: a sync opens none (service_volume.go, sync.go). *)
TypeOK ==
  /\ row \in [Volumes -> Row]
  /\ hosts \in Hosts
  /\ call \in [Volumes -> Call]
  /\ lock \in Volumes \cup {NoVolume}
  /\ goal \in [Volumes -> BOOLEAN]
  /\ faults \in 0..MaxFaults
  /\ turns \in 0..MaxTurns
  /\ \A v \in Volumes : (lock = v) = (call[v].goes \in {"up", "down"})

Init ==
  /\ row = [v \in Volumes |-> [rung |-> "INITIAL", client |-> NoClient]]
  /\ hosts = [subsystems |-> {}, entries |-> {}, links |-> {}, sessions |-> {}]
  /\ call = [v \in Volumes |-> Idle]
  /\ lock = NoVolume
  /\ goal = [v \in Volumes |-> TRUE]
  /\ faults = 0
  /\ turns = 0

-----------------------------------------------------------------------------
(* The commands: their exit status and what they leave, also when they fail. *)

Done(h) == [ok |-> TRUE, hosts |-> h]
Refused(h) == [ok |-> FALSE, hosts |-> h]

LinksOf(h, c) == {l \in h.links : l[2] = c}

(* nvmetcli reads its commands from a pipe and reports none of their errors. *)
PublishVolume(h, v) == Done([h EXCEPT !.subsystems = @ \cup {v}])

(* The links of a subsystem go with it, the hosts' directories stay. *)
UnpublishVolume(h, v) ==
  Done([h EXCEPT !.subsystems = @ \ {v}, !.links = {l \in @ : l[1] # v}])

(* mkdir -p && ln -sf && echo: the directory is made even when the link is
   refused, as a link over a link is. *)
Authorize(h, v, c) ==
  LET made == [h EXCEPT !.entries = @ \cup {c}]
  IN  IF v \in h.subsystems /\ <<v, c>> \notin h.links
      THEN Done([made EXCEPT !.links = @ \cup {<<v, c>>}])
      ELSE Refused(made)

(* Mutant: the host's directory goes, whoever links it. *)
UnauthorizeEverywhere(h, v, c) ==
  Done([h EXCEPT !.links = {l \in @ : l[2] # c}, !.entries = @ \ {c}])

(* Mutant: rmdir before rm. *)
UnauthorizeDirFirst(h, v, c) ==
  IF c \in h.entries /\ LinksOf(h, c) = {}
  THEN Done([h EXCEPT !.entries = @ \ {c}])
  ELSE Refused(h)

(* rm -f && rmdir: configfs keeps a directory that another subsystem links,
   and the link is gone all the same. *)
Unauthorize(h, v, c) ==
  LET unlinked == [h EXCEPT !.links = @ \ {<<v, c>>}]
  IN  IF c \in h.entries /\ LinksOf(unlinked, c) = {}
      THEN Done([unlinked EXCEPT !.entries = @ \ {c}])
      ELSE Refused(unlinked)

(* nvme connect: the subsystem must list the host, and a second connection is
   refused. *)
ConnectTarget(h, v, c) ==
  IF <<v, c>> \in h.links \ h.sessions
  THEN Done([h EXCEPT !.sessions = @ \cup {<<v, c>>}])
  ELSE Refused(h)

(* nvme disconnect does not mind that there is no session. *)
DisconnectTarget(h, v, c) == Done([h EXCEPT !.sessions = @ \ {<<v, c>>}])

Outcome(step, v, c) ==
  CASE step = "publish"     -> PublishVolume(hosts, v)
    [] step = "unpublish"   -> UnpublishVolume(hosts, v)
    [] step = "authorize"   -> Authorize(hosts, v, c)
    [] step = "connect"     -> ConnectTarget(hosts, v, c)
    [] step = "disconnect"  -> DisconnectTarget(hosts, v, c)
    [] step = "unauthorize" -> Unauthorize(hosts, v, c)

(* ls -d on the subsystem and on the link; nvme list-subsys. *)
Found(step, v, c) ==
  CASE step = "lookTarget"  -> v \in hosts.subsystems
    [] step = "lookLink"    -> <<v, c>> \in hosts.links
    [] step = "lookSession" -> <<v, c>> \in hosts.sessions

-----------------------------------------------------------------------------
(* The handlers of the service.  The row is read, checked and written in the
   transaction that then runs the commands.                                  *)

Open(v, first, goes, next) ==
  /\ call[v].step = "idle"
  /\ lock = NoVolume
  /\ lock' = v
  /\ call' = [call EXCEPT ![v] = [step |-> first, goes |-> goes, next |-> next]]
  /\ UNCHANGED <<row, hosts, goal, faults, turns>>

StartPublish(v) ==
  /\ goal[v]
  /\ row[v].rung = "INITIAL"
  /\ Open(v, "publish", "up", [row[v] EXCEPT !.rung = "PUBLISHED"])

StartConnect(v, c) ==
  /\ goal[v]
  /\ row[v].rung = "PUBLISHED"
  /\ Open(v, "authorize", "up", [rung |-> "CONNECTED", client |-> c])

(* Updates leaves out the emptied client: the row keeps it. *)
StartDisconnect(v) ==
  /\ ~goal[v]
  /\ row[v].rung = "CONNECTED"
  /\ Open(v, "disconnect", "down", [row[v] EXCEPT !.rung = "PUBLISHED"])

StartUnpublish(v) ==
  /\ ~goal[v]
  /\ row[v].rung = "PUBLISHED"
  /\ Open(v, "unpublish", "down", [row[v] EXCEPT !.rung = "INITIAL"])

(* Mutant: the session is closed and the client stays on the list. *)
AfterForgets(step, goes, next) ==
  IF step = "authorize" /\ goes # "sync" THEN "connect"
  ELSE IF step = "publish" /\ goes = "sync" /\ next.client # NoClient
  THEN IF next.rung = "CONNECTED" THEN "lookLink" ELSE "lookSession"
  ELSE "commit"

(* The command that follows a command. *)
AfterCommand(step, goes, next) ==
  CASE step = "authorize"                    -> IF goes = "sync" THEN "lookSession" ELSE "connect"
    [] step = "disconnect"                   -> IF goes = "sync" THEN "lookLink" ELSE "unauthorize"
    [] step = "publish" /\ goes = "sync" /\ next.client # NoClient
                                             -> IF next.rung = "CONNECTED" THEN "lookLink"
                                                ELSE "lookSession"
    [] OTHER                                 -> "commit"

-----------------------------------------------------------------------------
(* SyncVolume reads the row once, looks and repairs, and opens no transaction.
   A row at INITIAL names no transport: of such a volume nothing is found and
   nothing is repaired. *)

StartSync(v) ==
  /\ call[v].step = "idle"
  /\ row[v].rung # "INITIAL"
  /\ turns < MaxTurns
  /\ turns' = turns + 1
  /\ call' = [call EXCEPT ![v] = [step |-> "lookTarget", goes |-> "sync", next |-> row[v]]]
  /\ UNCHANGED <<row, hosts, lock, goal, faults>>

(* What the sync wants of what it looks for, and how it repairs. *)
Wanted(step, r) == step = "lookTarget" \/ r.rung = "CONNECTED"

Repair(step, r) ==
  CASE step = "lookTarget"  -> "publish"
    [] step = "lookLink"    -> IF Wanted(step, r) THEN "authorize" ELSE "unauthorize"
    [] step = "lookSession" -> IF Wanted(step, r) THEN "connect" ELSE "disconnect"

(* Connected: first the list, then the session; else the other way round. *)
AfterLook(step, r) ==
  CASE step = "lookTarget" -> AfterCommand("publish", "sync", r)
    [] step = "lookLink"   -> IF r.rung = "CONNECTED" THEN "lookSession" ELSE "commit"
    [] step = "lookSession" -> IF r.rung = "CONNECTED" THEN "commit" ELSE "lookLink"

Looks == {"lookTarget", "lookLink", "lookSession"}

(* A look that fails reads as "not there". *)
Seen(v, found) ==
  LET step == call[v].step
      r    == call[v].next
  IN  call' = [call EXCEPT ![v].step = IF found = Wanted(step, r) THEN AfterLook(step, r)
                                       ELSE Repair(step, r)]

TakeLook(v) ==
  /\ call[v].step \in Looks
  /\ Seen(v, Found(call[v].step, v, call[v].next.client))
  /\ UNCHANGED <<row, hosts, lock, goal, faults, turns>>

LoseLook(v) ==
  /\ call[v].step \in Looks
  /\ faults < MaxFaults
  /\ faults' = faults + 1
  /\ Seen(v, FALSE)
  /\ UNCHANGED <<row, hosts, lock, goal, turns>>

-----------------------------------------------------------------------------
(* The steps of a call. *)

Commands == {"publish", "unpublish", "authorize", "connect", "disconnect", "unauthorize"}

(* Mutant: the transaction of a finished call stays open. *)
ReleaseNothing(v) == UNCHANGED lock

Release(v) == lock' = IF lock = v THEN NoVolume ELSE lock

(* The transaction is rolled back; the commands that ran are not undone. *)
Fail(v) == call' = [call EXCEPT ![v] = Idle] /\ Release(v)

RunCommand(v) ==
  LET did == Outcome(call[v].step, v, call[v].next.client)
  IN  /\ call[v].step \in Commands
      /\ hosts' = did.hosts
      /\ IF did.ok
         THEN /\ call' = [call EXCEPT ![v].step = AfterCommand(@, call[v].goes, call[v].next)]
              /\ UNCHANGED lock
         ELSE Fail(v)
      /\ UNCHANGED <<row, goal, faults, turns>>

(* The command or its answer is lost. *)
LoseCommand(v) ==
  /\ call[v].step \in Commands
  /\ faults < MaxFaults
  /\ faults' = faults + 1
  /\ hosts' \in {hosts, Outcome(call[v].step, v, call[v].next.client).hosts}
  /\ Fail(v)
  /\ UNCHANGED <<row, goal, turns>>

(* A sync has nothing to write. *)
Commit(v) ==
  /\ call[v].step = "commit"
  /\ row' = IF call[v].goes = "sync" THEN row ELSE [row EXCEPT ![v] = call[v].next]
  /\ call' = [call EXCEPT ![v] = Idle]
  /\ Release(v)
  /\ UNCHANGED <<hosts, goal, faults, turns>>

ChangeMind(v) ==
  /\ turns < MaxTurns
  /\ turns' = turns + 1
  /\ goal' = [goal EXCEPT ![v] = ~@]
  /\ UNCHANGED <<row, hosts, call, lock, faults>>

Progress(v) == TakeLook(v) \/ RunCommand(v) \/ Commit(v)

Next ==
  \E v \in Volumes :
    \/ StartPublish(v)
    \/ \E c \in Clients : StartConnect(v, c)
    \/ StartDisconnect(v)
    \/ StartUnpublish(v)
    \/ StartSync(v)
    \/ Progress(v)
    \/ LoseLook(v)
    \/ LoseCommand(v)
    \/ ChangeMind(v)

Spec == Init /\ [][Next]_nvmeVars

(* A handler runs on, and the caller of a volume repeats its disconnect: other
   calls may hold the lock now and then, hence SF. *)
FairSpec ==
  Spec /\ \A v \in Volumes : WF_nvmeVars(Progress(v)) /\ SF_nvmeVars(StartDisconnect(v))

-----------------------------------------------------------------------------
(* Properties. *)

(* A client that is connected and has its session is on the access list of that
   volume, with its keys in place, whatever is done to its other volumes
   (NVMeOF.Unauthorize removes a directory that all volumes share). *)
RightsKept ==
  \A l \in hosts.sessions :
    row[l[1]] = [rung |-> "CONNECTED", client |-> l[2]] =>
      l \in hosts.links /\ l[2] \in hosts.entries

(* As long as no command is lost, a subsystem lists no client but the one its
   row is connected to, once its calls have ended (DisconnectVolume). *)
NoStrayRights ==
  faults = 0 =>
    \A l \in hosts.links :
      call[l[1]].step = "idle" => row[l[1]] = [rung |-> "CONNECTED", client |-> l[2]]

(* When the callers want every volume detached for good and no command is lost,
   they do not all fail for ever: some volume is disconnected
   (DisconnectVolume, repeated). *)
SomeDisconnect ==
  <>[](faults = 0 /\ \A v \in Volumes : ~goal[v])
    => []<>(\E v \in Volumes : row[v].rung # "CONNECTED")

(* A volume whose caller keeps disconnecting it, with no command lost, is
   disconnected in the end (DisconnectVolume, repeated). *)
Disconnects ==
  \A v \in Volumes :
    <>[](faults = 0 /\ ~goal[v]) => []<>(row[v].rung # "CONNECTED")
=============================================================================
