--------------------------- MODULE VolumeLifecycle ---------------------------
(***************************************************************************)
(* What the API promises of a volume: it climbs from INITIAL to MOUNTED    *)
(* and back, one rung per call, and the names a rung binds - the server,   *)
(* the client, the staging path - stay bound exactly as long as the volume *)
(* stands on that rung or above.                                           *)
(*                                                                         *)
(* The abstract specification that VolumeService implements when calls do  *)
(* not overlap, whatever commands fail and wherever it crashes.            *)
(***************************************************************************)
EXTENDS VolumeRow

VARIABLES
  status,         \* the rung
  server,         \* where the volume is published
  client,         \* where it is connected
  staging,        \* where it is staged
  paths           \* where it is mounted

vars == <<status, server, client, staging, paths>>

TypeOK ==
  /\ status \in Status
  /\ server \in Servers \cup {NoHost}
  /\ client \in Clients \cup {NoHost}
  /\ staging \in StagingPaths \cup {NoPath}
  /\ paths \in SUBSET MountPaths

Init ==
  /\ status = UNSPECIFIED
  /\ server = NoHost
  /\ client = NoHost
  /\ staging = NoPath
  /\ paths = {}

Climb(from, to) == status = from /\ status' = to

Create ==
  /\ Climb(UNSPECIFIED, INITIAL)
  /\ UNCHANGED <<server, client, staging, paths>>

Delete ==
  /\ Climb(INITIAL, UNSPECIFIED)
  /\ UNCHANGED <<server, client, staging, paths>>

Publish(s) ==
  /\ Climb(INITIAL, PUBLISHED)
  /\ server' = s
  /\ UNCHANGED <<client, staging, paths>>

Unpublish ==
  /\ Climb(PUBLISHED, INITIAL)
  /\ server' = NoHost
  /\ UNCHANGED <<client, staging, paths>>

Connect(c) ==
  /\ Climb(PUBLISHED, CONNECTED)
  /\ client' = c
  /\ UNCHANGED <<server, staging, paths>>

(* The one step down that may skip a rung: a staged volume disconnects. *)
Disconnect ==
  /\ Climb(CONNECTED, PUBLISHED) \/ Climb(STAGED, PUBLISHED)
  /\ client' = NoHost
  /\ staging' = NoPath
  /\ UNCHANGED <<server, paths>>

Stage(g) ==
  /\ Climb(CONNECTED, STAGED)
  /\ staging' = g
  /\ UNCHANGED <<server, client, paths>>

Unstage ==
  /\ Climb(STAGED, CONNECTED)
  /\ staging' = NoPath
  /\ UNCHANGED <<server, client, paths>>

Mount(p) ==
  /\ Climb(STAGED, MOUNTED) \/ Climb(MOUNTED, MOUNTED)
  /\ p \notin paths
  /\ paths' = paths \cup {p}
  /\ UNCHANGED <<server, client, staging>>

Unmount(p) ==
  /\ p \in paths
  /\ paths' = paths \ {p}
  /\ Climb(MOUNTED, IF paths' = {} THEN STAGED ELSE MOUNTED)
  /\ UNCHANGED <<server, client, staging>>

Next ==
  \/ Create
  \/ Delete
  \/ \E s \in Servers : Publish(s)
  \/ Unpublish
  \/ \E c \in Clients : Connect(c)
  \/ Disconnect
  \/ \E g \in StagingPaths : Stage(g)
  \/ Unstage
  \/ \E p \in MountPaths : Mount(p)
  \/ \E p \in MountPaths : Unmount(p)

Spec == Init /\ [][Next]_vars

=============================================================================
