--------------------------- MODULE NvmeHostsProofs ---------------------------
(***************************************************************************)
(* Proofs about NvmeHosts, for any sets of volumes and clients and any      *)
(* number of faults and syncs: the type invariant, that a client with a     *)
(* session keeps its rights whatever is done to its other volumes, and that *)
(* without a fault nobody keeps rights that no row gives.                   *)
(***************************************************************************)
EXTENDS NvmeHosts, TLAPS

(* The directory of a client is there while any subsystem links it: what two
   volumes have in common. *)
LinksHaveEntries == \A l \in hosts.links : l[2] \in hosts.entries

(* A connected row names a client. *)
NamesClient(r) == r.rung = "CONNECTED" => r.client \in Clients

(* Where a call of each kind can be, and what it knows of the row that it read:
   nobody else writes the row of its volume. *)
Upward(v, k) ==
  /\ k.goes = "up"
  /\ row[v].rung # "CONNECTED"
  /\ \/ k.step \in {"publish", "commit"} /\ k.next.rung = "PUBLISHED"
     \/ k.step = "authorize" /\ k.next.rung = "CONNECTED"
     \/ /\ k.step \in {"connect", "commit"} /\ k.next.rung = "CONNECTED"
        /\ <<v, k.next.client>> \in hosts.links

Downward(v, k) ==
  /\ k.goes = "down"
  /\ k.next.rung # "CONNECTED"
  /\ \/ k.step = "commit"
     \/ k.step = "unpublish" /\ row[v].rung = "PUBLISHED"
     \/ k.step = "disconnect" /\ row[v].rung = "CONNECTED" /\ k.next.client = row[v].client
     \/ /\ k.step = "unauthorize" /\ row[v].rung = "CONNECTED"
        /\ k.next.client = row[v].client
        /\ <<v, k.next.client>> \notin hosts.sessions

Syncing(v, k) ==
  /\ k.goes = "sync"
  /\ k.next = row[v]
  /\ \/ k.step \in {"lookTarget", "publish", "commit"}
     \/ k.step \in {"lookLink", "lookSession"} /\ k.next.client \in Clients
     \/ k.step \in {"authorize", "connect"} /\ k.next.rung = "CONNECTED"
     \/ /\ k.step \in {"disconnect", "unauthorize"} /\ k.next.rung # "CONNECTED"
        /\ k.next.client \in Clients

OnCourse(v) ==
  LET k == call[v]
  IN  \/ k.step = "idle" /\ k.goes = "nowhere"
      \/ NamesClient(k.next) /\ (Upward(v, k) \/ Downward(v, k) \/ Syncing(v, k))

Course == \A v \in Volumes : NamesClient(row[v]) /\ OnCourse(v)

(* A session of the volume's client goes with its link. *)
SessionsListed ==
  \A l \in hosts.sessions :
    row[l[1]] = [rung |-> "CONNECTED", client |-> l[2]] => l \in hosts.links

NvmeInv == TypeOK /\ LinksHaveEntries /\ Course /\ SessionsListed

-----------------------------------------------------------------------------
(* The commands, for a volume and a client. *)

LEMMA PublishHosts ==
  ASSUME NEW h \in Hosts, NEW v \in Volumes
  PROVE  /\ PublishVolume(h, v).hosts \in Hosts
         /\ PublishVolume(h, v).hosts.links = h.links
         /\ PublishVolume(h, v).hosts.entries = h.entries
         /\ PublishVolume(h, v).hosts.sessions = h.sessions
BY DEF PublishVolume, Done, Hosts

LEMMA UnpublishHosts ==
  ASSUME NEW h \in Hosts, NEW v \in Volumes
  PROVE  /\ UnpublishVolume(h, v).hosts \in Hosts
         /\ UnpublishVolume(h, v).hosts.links = {l \in h.links : l[1] # v}
         /\ UnpublishVolume(h, v).hosts.entries = h.entries
         /\ UnpublishVolume(h, v).hosts.sessions = h.sessions
<1>1. {l \in h.links : l[1] # v} \in SUBSET Links
  BY DEF Hosts
<1>2. QED
  BY <1>1 DEF UnpublishVolume, Done, Hosts

LEMMA AuthorizeHosts ==
  ASSUME NEW h \in Hosts, NEW v \in Volumes, NEW c \in Clients
  PROVE  /\ Authorize(h, v, c).hosts \in Hosts
         /\ \/ Authorize(h, v, c).hosts.links = h.links
            \/ Authorize(h, v, c).hosts.links = h.links \cup {<<v, c>>}
         /\ Authorize(h, v, c).hosts.entries = h.entries \cup {c}
         /\ Authorize(h, v, c).hosts.sessions = h.sessions
<1> DEFINE made == [h EXCEPT !.entries = @ \cup {c}]
           linked == [made EXCEPT !.links = @ \cup {<<v, c>>}]
<1>1. /\ made \in Hosts
      /\ made.links = h.links /\ made.sessions = h.sessions
      /\ made.entries = h.entries \cup {c}
  BY DEF Hosts
<1>2. h.links \cup {<<v, c>>} \in SUBSET Links
  BY DEF Hosts, Links
<1>3. /\ linked \in Hosts
      /\ linked.links = h.links \cup {<<v, c>>} /\ linked.sessions = h.sessions
      /\ linked.entries = h.entries \cup {c}
  BY <1>1, <1>2 DEF Hosts
<1>4. \/ Authorize(h, v, c) = Done(linked)
      \/ Authorize(h, v, c) = Refused(made)
  BY DEF Authorize
<1> HIDE DEF made, linked
<1>5. CASE Authorize(h, v, c) = Done(linked)
  BY <1>3, <1>5 DEF Done
<1>6. CASE Authorize(h, v, c) = Refused(made)
  BY <1>1, <1>6 DEF Refused
<1>7. QED
  BY <1>4, <1>5, <1>6

LEMMA AuthorizeLinks ==
  ASSUME NEW h \in Hosts, NEW v \in Volumes, NEW c \in Clients,
         Authorize(h, v, c).ok
  PROVE  <<v, c>> \in Authorize(h, v, c).hosts.links
BY DEF Authorize, Done, Refused, Hosts, Links

(* A directory goes only when nothing links it. *)
LEMMA UnauthorizeHosts ==
  ASSUME NEW h \in Hosts, NEW v \in Volumes, NEW c \in Clients
  PROVE  LET did == Unauthorize(h, v, c)
         IN  /\ did.hosts \in Hosts
             /\ did.hosts.links = h.links \ {<<v, c>>}
             /\ \/ did.hosts.entries = h.entries
                \/ /\ did.hosts.entries = h.entries \ {c}
                   /\ \A l \in did.hosts.links : l[2] # c
             /\ did.hosts.sessions = h.sessions
BY DEF Unauthorize, Done, Refused, Hosts, Links, LinksOf

(* A session needs a link. *)
LEMMA ConnectHosts ==
  ASSUME NEW h \in Hosts, NEW v \in Volumes, NEW c \in Clients
  PROVE  LET did == ConnectTarget(h, v, c)
         IN  /\ did.hosts \in Hosts
             /\ did.hosts.links = h.links
             /\ did.hosts.entries = h.entries
             /\ did.hosts.sessions \in {h.sessions, h.sessions \cup {<<v, c>>}}
             /\ did.hosts.sessions # h.sessions => <<v, c>> \in h.links
BY DEF ConnectTarget, Done, Refused, Hosts, Links

LEMMA DisconnectHosts ==
  ASSUME NEW h \in Hosts, NEW v \in Volumes, NEW c \in Clients
  PROVE  LET did == DisconnectTarget(h, v, c)
         IN  /\ did.hosts \in Hosts
             /\ did.hosts.links = h.links
             /\ did.hosts.entries = h.entries
             /\ did.hosts.sessions = h.sessions \ {<<v, c>>}
BY DEF DisconnectTarget, Done, Hosts, Links

(* The volumes other than v keep their links and get no session. *)
OthersKept(v, h) ==
  \A l \in Links : l[1] # v => /\ l \in hosts.links => l \in h.links
                               /\ l \in h.sessions => l \in hosts.sessions

(* What every command of a call on its course leaves of the hosts: well typed,
   with a directory for every link, every session of a connected client listed,
   and the links and sessions of the other volumes no fewer and no more than
   they were. *)
Preserved(v, h) ==
  /\ h \in Hosts
  /\ \A l \in h.links : l[2] \in h.entries
  /\ \A l \in h.sessions :
       row[l[1]] = [rung |-> "CONNECTED", client |-> l[2]] => l \in h.links
  /\ OthersKept(v, h)

LEMMA CommandPreserves ==
  ASSUME NvmeInv, NEW v \in Volumes, call[v].step \in Commands
  PROVE  Preserved(v, Outcome(call[v].step, v, call[v].next.client).hosts)
<1> DEFINE k == call[v]
           c == k.next.client
           h == Outcome(k.step, v, c).hosts
<1> SUFFICES Preserved(v, h)
  OBVIOUS
<1> HIDE DEF h
<1>1. /\ hosts \in Hosts /\ k \in Call /\ OnCourse(v)
      /\ LinksHaveEntries /\ SessionsListed
  BY DEF NvmeInv, TypeOK, Course
<1>2. k.step \in {"authorize", "connect", "disconnect", "unauthorize"} => c \in Clients
  BY <1>1 DEF OnCourse, Upward, Downward, Syncing, NamesClient, NvmeInv, Course
<1>3. CASE k.step = "publish"
  <2>1. h = PublishVolume(hosts, v).hosts
    BY <1>3 DEF Outcome, h
  <2>2. QED
    BY <2>1, <1>1, PublishHosts DEF Preserved, OthersKept, LinksHaveEntries, SessionsListed
<1>4. CASE k.step = "unpublish"
  <2>1. h = UnpublishVolume(hosts, v).hosts
    BY <1>4 DEF Outcome, h
  <2>2. row[v].rung # "CONNECTED"
    BY <1>1, <1>4 DEF OnCourse, Upward, Downward, Syncing
  <2>3. QED
    BY <2>1, <2>2, <1>1, UnpublishHosts
       DEF Preserved, OthersKept, LinksHaveEntries, SessionsListed, Links
<1>5. CASE k.step = "authorize"
  <2>1. h = Authorize(hosts, v, c).hosts
    BY <1>5 DEF Outcome, h
  <2>2. c \in Clients
    BY <1>2, <1>5
  <2>3. /\ h \in Hosts
        /\ h.links = hosts.links \/ h.links = hosts.links \cup {<<v, c>>}
        /\ h.entries = hosts.entries \cup {c}
        /\ h.sessions = hosts.sessions
    BY <2>1, <2>2, <1>1, AuthorizeHosts
  <2>4. QED
    BY <2>3, <1>1 DEF Preserved, OthersKept, LinksHaveEntries, SessionsListed, Links
<1>6. CASE k.step = "connect"
  <2>1. h = ConnectTarget(hosts, v, c).hosts
    BY <1>6 DEF Outcome, h
  <2>2. c \in Clients
    BY <1>2, <1>6
  <2>3. /\ h \in Hosts
        /\ h.links = hosts.links
        /\ h.entries = hosts.entries
        /\ h.sessions \in {hosts.sessions, hosts.sessions \cup {<<v, c>>}}
        /\ h.sessions # hosts.sessions => <<v, c>> \in hosts.links
    BY <2>1, <2>2, <1>1, ConnectHosts
  <2>4. QED
    BY <2>3, <1>1 DEF Preserved, OthersKept, LinksHaveEntries, SessionsListed, Links
<1>7. CASE k.step = "disconnect"
  <2>1. h = DisconnectTarget(hosts, v, c).hosts
    BY <1>7 DEF Outcome, h
  <2>2. c \in Clients
    BY <1>2, <1>7
  <2>3. /\ h \in Hosts
        /\ h.links = hosts.links
        /\ h.entries = hosts.entries
        /\ h.sessions = hosts.sessions \ {<<v, c>>}
    BY <2>1, <2>2, <1>1, DisconnectHosts
  <2>4. QED
    BY <2>3, <1>1 DEF Preserved, OthersKept, LinksHaveEntries, SessionsListed, Links
<1>8. CASE k.step = "unauthorize"
  <2>1. h = Unauthorize(hosts, v, c).hosts
    BY <1>8 DEF Outcome, h
  <2>2. c \in Clients
    BY <1>2, <1>8
  <2>3. row[v].rung # "CONNECTED" \/ <<v, c>> \notin hosts.sessions
    BY <1>1, <1>8 DEF OnCourse, Upward, Downward, Syncing
  <2>4. QED
    BY <2>1, <2>2, <2>3, <1>1, UnauthorizeHosts
       DEF Preserved, OthersKept, LinksHaveEntries, SessionsListed, Links, Hosts
<1>9. QED
  BY <1>3, <1>4, <1>5, <1>6, <1>7, <1>8 DEF Commands

-----------------------------------------------------------------------------
(* A step of one volume: its row and its call become r and k, and what it does
   to the hosts concerns the other volumes no more than Preserved says. *)

Holding(k) == k.goes \in {"up", "down"}

LEMMA StepOfOne ==
  ASSUME NvmeInv, NEW v \in Volumes, NEW r \in Row, NEW k \in Call,
         row' = [row EXCEPT ![v] = r], NamesClient(r),
         call' = [call EXCEPT ![v] = k], OnCourse(v)',
         hosts' \in Hosts, LinksHaveEntries', SessionsListed',
         OthersKept(v, hosts'),
         \/ lock' = lock /\ (Holding(k) <=> Holding(call[v]))
         \/ lock = NoVolume /\ lock' = v /\ Holding(k)
         \/ lock' = (IF lock = v THEN NoVolume ELSE lock) /\ ~Holding(k),
         goal' \in [Volumes -> BOOLEAN], faults' \in 0..MaxFaults, turns' \in 0..MaxTurns
  PROVE  NvmeInv'
<1>1. /\ row \in [Volumes -> Row] /\ call \in [Volumes -> Call]
      /\ lock \in Volumes \cup {NoVolume}
      /\ \A u \in Volumes : lock = u <=> Holding(call[u])
  BY DEF NvmeInv, TypeOK, Holding
<1>2. /\ row' \in [Volumes -> Row] /\ call' \in [Volumes -> Call]
      /\ row'[v] = r /\ call'[v] = k
      /\ \A u \in Volumes \ {v} : row'[u] = row[u] /\ call'[u] = call[u]
  BY <1>1
<1>3. /\ lock' \in Volumes \cup {NoVolume}
      /\ \A u \in Volumes : lock' = u <=> Holding(call'[u])
  <2>1. CASE lock' = lock /\ (Holding(k) <=> Holding(call[v]))
    BY <2>1, <1>1, <1>2
  <2>2. CASE lock = NoVolume /\ lock' = v /\ Holding(k)
    BY <2>2, <1>1, <1>2, NvmeAssumption
  <2>3. CASE lock' = (IF lock = v THEN NoVolume ELSE lock) /\ ~Holding(k)
    <3>1. CASE lock = v
      BY <2>3, <3>1, <1>1, <1>2, NvmeAssumption
    <3>2. CASE lock # v
      BY <2>3, <3>2, <1>1, <1>2
    <3>3. QED
      BY <3>1, <3>2
  <2>4. QED
    BY <2>1, <2>2, <2>3
<1>4. TypeOK'
  BY <1>2, <1>3 DEF TypeOK, Holding
<1>5. ASSUME NEW u \in Volumes
      PROVE  (NamesClient(row[u]) /\ OnCourse(u))'
  <2>1. CASE u = v
    BY <2>1, <1>2 DEF NamesClient
  <2>2. CASE u # v
    <3>1. call[u] \in Call /\ row[u] \in Row /\ OnCourse(u) /\ NamesClient(row[u])
      BY <1>1 DEF NvmeInv, Course
    <3>2. call'[u] = call[u] /\ row'[u] = row[u]
      BY <1>2, <2>2
    <3>3. /\ \A c \in Clients : /\ <<u, c>> \in hosts.links => <<u, c>> \in hosts'.links
                                /\ <<u, c>> \notin hosts.sessions
                                     => <<u, c>> \notin hosts'.sessions
      <4> SUFFICES ASSUME NEW c \in Clients, NEW l, l = <<u, c>>
                   PROVE  /\ l \in hosts.links => l \in hosts'.links
                          /\ l \notin hosts.sessions => l \notin hosts'.sessions
        OBVIOUS
      <4>1. l \in Links /\ l[1] # v
        BY <2>2 DEF Links
      <4>2. QED
        BY <4>1 DEF OthersKept
    <3>4. QED
      BY <3>1, <3>2, <3>3 DEF OnCourse, Upward, Downward, Syncing, NamesClient, Call, Row
  <2>3. QED
    BY <2>1, <2>2
<1>6. Course'
  BY <1>5 DEF Course
<1>7. QED
  BY <1>4, <1>6 DEF NvmeInv

(* ... and one that leaves rows and hosts alone. *)
LEMMA LocalStep ==
  ASSUME NvmeInv, NEW v \in Volumes, NEW k \in Call,
         UNCHANGED <<row, hosts, goal>>,
         call' = [call EXCEPT ![v] = k], OnCourse(v)',
         \/ lock' = lock /\ (Holding(k) <=> Holding(call[v]))
         \/ lock = NoVolume /\ lock' = v /\ Holding(k)
         \/ lock' = (IF lock = v THEN NoVolume ELSE lock) /\ ~Holding(k),
         faults' \in 0..MaxFaults, turns' \in 0..MaxTurns
  PROVE  NvmeInv'
<1>1. /\ row[v] \in Row /\ row' = [row EXCEPT ![v] = row[v]]
      /\ NamesClient(row[v])
      /\ goal' \in [Volumes -> BOOLEAN] /\ hosts' \in Hosts
  BY DEF NvmeInv, TypeOK, Course
<1>2. LinksHaveEntries' /\ SessionsListed'
  BY DEF NvmeInv, LinksHaveEntries, SessionsListed
<1>3. OthersKept(v, hosts')
  BY DEF OthersKept
<1>4. QED
  BY <1>1, <1>2, <1>3, StepOfOne

LEMMA IdleOnCourse ==
  ASSUME NvmeInv, NEW v \in Volumes, call' = [call EXCEPT ![v] = Idle]
  PROVE  Idle \in Call /\ ~Holding(Idle) /\ OnCourse(v)'
BY DEF NvmeInv, TypeOK, OnCourse, Idle, Call, Steps, Row, Rungs, Holding

(* A call that fails after a command has been at the hosts. *)
LEMMA FailStep ==
  ASSUME NvmeInv, NEW v \in Volumes, Preserved(v, hosts'),
         UNCHANGED <<row, goal>>, Fail(v),
         faults' \in 0..MaxFaults, turns' \in 0..MaxTurns
  PROVE  NvmeInv'
<1> DEFINE r == row[v]
<1>1. /\ r \in Row /\ row' = [row EXCEPT ![v] = r] /\ NamesClient(r)
      /\ goal' \in [Volumes -> BOOLEAN]
  BY DEF NvmeInv, TypeOK, Course
<1>2. /\ hosts' \in Hosts /\ LinksHaveEntries' /\ SessionsListed'
      /\ OthersKept(v, hosts')
  BY DEF Preserved, LinksHaveEntries, SessionsListed
<1>3. /\ call' = [call EXCEPT ![v] = Idle]
      /\ lock' = (IF lock = v THEN NoVolume ELSE lock)
  BY DEF Fail, Release
<1>4. Idle \in Call /\ ~Holding(Idle) /\ OnCourse(v)'
  BY <1>3, IdleOnCourse
<1> HIDE DEF r
<1> DEFINE k == Idle
<1> HIDE DEF k
<1>5. QED
  BY <1>1, <1>2, <1>3, <1>4, StepOfOne DEF k

(* A call opens its transaction, at the step its handler starts with. *)
LEMMA OpenStep ==
  ASSUME NvmeInv, NEW v \in Volumes,
         StartPublish(v) \/ (\E c \in Clients : StartConnect(v, c))
           \/ StartDisconnect(v) \/ StartUnpublish(v)
  PROVE  NvmeInv'
<1>1. /\ row[v] \in Row /\ call \in [Volumes -> Call] /\ NamesClient(row[v])
      /\ faults \in 0..MaxFaults /\ turns \in 0..MaxTurns
  BY DEF NvmeInv, TypeOK, Course
<1> SUFFICES ASSUME NEW first, NEW goes, NEW next, Open(v, first, goes, next),
                    next \in Row, NamesClient(next),
                    first \in Steps, goes \in {"up", "down"},
                    \/ /\ goes = "up" /\ row[v].rung # "CONNECTED"
                       /\ \/ first = "publish" /\ next.rung = "PUBLISHED"
                          \/ first = "authorize" /\ next.rung = "CONNECTED"
                    \/ /\ goes = "down" /\ next.rung # "CONNECTED"
                       /\ \/ first = "unpublish" /\ row[v].rung = "PUBLISHED"
                          \/ /\ first = "disconnect" /\ row[v].rung = "CONNECTED"
                             /\ next.client = row[v].client
             PROVE  NvmeInv'
  <2>1. CASE StartPublish(v)
    BY <2>1, <1>1 DEF StartPublish, Row, Rungs, Steps, NamesClient
  <2>2. CASE \E c \in Clients : StartConnect(v, c)
    BY <2>2, <1>1 DEF StartConnect, Row, Rungs, Steps, NamesClient
  <2>3. CASE StartDisconnect(v)
    BY <2>3, <1>1 DEF StartDisconnect, Row, Rungs, Steps, NamesClient
  <2>4. CASE StartUnpublish(v)
    BY <2>4, <1>1 DEF StartUnpublish, Row, Rungs, Steps, NamesClient
  <2>5. QED
    BY <2>1, <2>2, <2>3, <2>4
<1> DEFINE k == [step |-> first, goes |-> goes, next |-> next]
<1>2. k \in Call /\ Holding(k)
  BY DEF Call, Holding
<1>3. call' = [call EXCEPT ![v] = k] /\ lock = NoVolume /\ lock' = v
      /\ UNCHANGED <<row, hosts, goal, faults, turns>>
  BY DEF Open
<1>4. OnCourse(v)'
  BY <1>1, <1>3 DEF OnCourse, Upward, Downward
<1>5. QED
  BY <1>1, <1>2, <1>3, <1>4, LocalStep

LEMMA StartSyncStep ==
  ASSUME NvmeInv, NEW v \in Volumes, StartSync(v)
  PROVE  NvmeInv'
<1> DEFINE k == [step |-> "lookTarget", goes |-> "sync", next |-> row[v]]
<1>1. /\ row[v] \in Row /\ call \in [Volumes -> Call] /\ NamesClient(row[v])
      /\ call[v].step = "idle" /\ OnCourse(v) /\ turns \in 0..MaxTurns
      /\ faults \in 0..MaxFaults
  BY DEF NvmeInv, TypeOK, Course, StartSync
<1>2. k \in Call /\ ~Holding(k) /\ ~Holding(call[v])
  BY <1>1 DEF Call, Steps, Holding, OnCourse, Upward, Downward, Syncing
<1>3. /\ call' = [call EXCEPT ![v] = k] /\ turns' \in 0..MaxTurns
      /\ UNCHANGED <<row, hosts, goal, lock, faults>>
  BY <1>1, NvmeAssumption DEF StartSync
<1>4. OnCourse(v)'
  BY <1>1, <1>3 DEF OnCourse, Syncing
<1>5. QED
  BY <1>1, <1>2, <1>3, <1>4, LocalStep

(* A look, answered or not. *)
LEMMA LookStep ==
  ASSUME NvmeInv, NEW v \in Volumes, TakeLook(v) \/ LoseLook(v)
  PROVE  NvmeInv'
<1>1. PICK found : Seen(v, found)
  BY DEF TakeLook, LoseLook
<1> DEFINE old == call[v]
           k == [old EXCEPT !.step = IF found = Wanted(@, old.next) THEN AfterLook(@, old.next)
                                     ELSE Repair(@, old.next)]
<1>2. /\ row[v] \in Row /\ call \in [Volumes -> Call] /\ old \in Call
      /\ old.step \in Looks /\ OnCourse(v) /\ NamesClient(row[v])
      /\ faults \in 0..MaxFaults /\ turns \in 0..MaxTurns
  BY DEF NvmeInv, TypeOK, Course, TakeLook, LoseLook
<1>3. old.goes = "sync" /\ old.next = row[v]
  BY <1>2 DEF OnCourse, Upward, Downward, Syncing, Looks
<1>4. /\ call' = [call EXCEPT ![v] = k] /\ faults' \in 0..MaxFaults
      /\ UNCHANGED <<row, hosts, goal, lock, turns>>
  BY <1>1, <1>2, NvmeAssumption DEF TakeLook, LoseLook, Seen
<1>5. /\ k \in Call /\ k.goes = "sync" /\ k.next = old.next
      /\ \/ k.step \in {"publish", "commit"}
         \/ k.step \in {"lookLink", "lookSession"} /\ k.next.client \in Clients
         \/ k.step \in {"authorize", "connect"} /\ k.next.rung = "CONNECTED"
         \/ /\ k.step \in {"disconnect", "unauthorize"} /\ k.next.rung # "CONNECTED"
            /\ k.next.client \in Clients
  <2>1. old.step # "lookTarget" => old.next.client \in Clients
    BY <1>2, <1>3 DEF OnCourse, Upward, Downward, Syncing, Looks
  <2>2. CASE old.step = "lookTarget"
    BY <2>2, <1>2, <1>3 DEF Wanted, AfterLook, AfterCommand, Repair, NamesClient, Call, Steps, Row
  <2>3. CASE old.step = "lookLink"
    BY <2>1, <2>3, <1>2, <1>3 DEF Wanted, AfterLook, Repair, NamesClient, Call, Steps, Row
  <2>4. CASE old.step = "lookSession"
    BY <2>1, <2>4, <1>2, <1>3 DEF Wanted, AfterLook, Repair, NamesClient, Call, Steps, Row
  <2>5. QED
    BY <2>2, <2>3, <2>4, <1>2 DEF Looks
<1> HIDE DEF k
<1>6. OnCourse(v)'
  BY <1>2, <1>3, <1>4, <1>5 DEF OnCourse, Syncing
<1>7. QED
  BY <1>2, <1>3, <1>4, <1>5, <1>6, LocalStep DEF Holding

(* A command that is answered. *)
LEMMA CommandStep ==
  ASSUME NvmeInv, NEW v \in Volumes, RunCommand(v)
  PROVE  NvmeInv'
<1> DEFINE old == call[v]
           c == old.next.client
           did == Outcome(old.step, v, c)
           k == [old EXCEPT !.step = AfterCommand(@, old.goes, old.next)]
<1>1. /\ row \in [Volumes -> Row] /\ call \in [Volumes -> Call] /\ old \in Call
      /\ hosts \in Hosts /\ goal' \in [Volumes -> BOOLEAN]
      /\ old.step \in Commands /\ OnCourse(v) /\ NamesClient(row[v])
      /\ faults' \in 0..MaxFaults /\ turns' \in 0..MaxTurns
      /\ hosts' = did.hosts /\ UNCHANGED row
  BY DEF NvmeInv, TypeOK, Course, RunCommand
<1>2. Preserved(v, did.hosts)
  BY <1>1, CommandPreserves
<1>3. /\ hosts' \in Hosts /\ LinksHaveEntries' /\ SessionsListed'
      /\ OthersKept(v, hosts')
  BY <1>1, <1>2 DEF Preserved, LinksHaveEntries, SessionsListed
<1>4. row' = [row EXCEPT ![v] = row[v]] /\ row[v] \in Row
  BY <1>1
<1> HIDE DEF did
<1>5. CASE Fail(v)
  BY <1>1, <1>2, <1>5, FailStep DEF RunCommand
<1>6. CASE call' = [call EXCEPT ![v] = k] /\ did.ok /\ UNCHANGED lock
  <2>1. /\ k \in Call /\ k.goes = old.goes /\ k.next = old.next
        /\ k.step = AfterCommand(old.step, old.goes, old.next)
    BY <1>1 DEF AfterCommand, Call, Steps
  <2>2. old.step \in {"authorize", "connect", "disconnect", "unauthorize"} => c \in Clients
    BY <1>1 DEF OnCourse, Upward, Downward, Syncing, NamesClient
  <2>3. old.step = "authorize" => <<v, c>> \in hosts'.links
    BY <2>2, <1>1, <1>6, AuthorizeLinks DEF Outcome, did
  <2>4. old.step = "connect" => hosts'.links = hosts.links
    BY <2>2, <1>1, ConnectHosts DEF Outcome, did
  <2>5. old.step = "disconnect" => <<v, c>> \notin hosts'.sessions
    BY <2>2, <1>1, DisconnectHosts DEF Outcome, did
  <2>6. OnCourse(v)'
    <3>1. call'[v] = k /\ row'[v] = row[v]
      BY <1>1, <1>6
    <3> HIDE DEF k
    <3>2. NamesClient(k.next)
      BY <1>1, <2>1 DEF OnCourse, Commands
    <3>3. CASE Upward(v, old)
      <4>1. Upward(v, call[v])'
        BY <3>1, <3>3, <1>1, <2>1, <2>3, <2>4 DEF Upward, AfterCommand, Commands
      <4>2. QED
        BY <3>1, <3>2, <4>1 DEF OnCourse
    <3>4. CASE Downward(v, old)
      <4>1. Downward(v, call[v])'
        BY <3>1, <3>4, <1>1, <2>1, <2>5 DEF Downward, AfterCommand, Commands
      <4>2. QED
        BY <3>1, <3>2, <4>1 DEF OnCourse
    <3>5. CASE Syncing(v, old)
      <4>1. Syncing(v, call[v])'
        BY <3>1, <3>5, <1>1, <2>1 DEF Syncing, AfterCommand, Commands, NamesClient, Call, Row
      <4>2. QED
        BY <3>1, <3>2, <4>1 DEF OnCourse
    <3>6. QED
      BY <3>3, <3>4, <3>5, <1>1 DEF OnCourse, Commands
  <2> HIDE DEF k
  <2>7. QED
    BY <2>1, <2>6, <1>1, <1>3, <1>4, <1>6, StepOfOne DEF Holding
<1>7. IF did.ok THEN call' = [call EXCEPT ![v] = k] /\ UNCHANGED lock
      ELSE Fail(v)
  BY DEF RunCommand, did
<1> HIDE DEF k
<1>8. QED
  BY <1>5, <1>6, <1>7

(* A command that is lost, before or after it ran. *)
LEMMA LoseStep ==
  ASSUME NvmeInv, NEW v \in Volumes, LoseCommand(v)
  PROVE  NvmeInv'
<1> DEFINE h == Outcome(call[v].step, v, call[v].next.client).hosts
<1>1. /\ faults' \in 0..MaxFaults /\ turns' \in 0..MaxTurns
      /\ UNCHANGED <<row, goal>> /\ Fail(v)
      /\ hosts' = hosts \/ hosts' = h
  BY NvmeAssumption DEF NvmeInv, TypeOK, LoseCommand
<1>2. Preserved(v, h)
  BY CommandPreserves DEF LoseCommand
<1>3. Preserved(v, hosts)
  BY DEF NvmeInv, TypeOK, Preserved, OthersKept, LinksHaveEntries, SessionsListed
<1> HIDE DEF h
<1>4. QED
  BY <1>1, <1>2, <1>3, FailStep

(* A commit: a connected row has its client on the list. *)
LEMMA CommitStep ==
  ASSUME NvmeInv, NEW v \in Volumes, Commit(v)
  PROVE  NvmeInv'
<1> DEFINE old == call[v]
           r == IF old.goes = "sync" THEN row[v] ELSE old.next
<1>1. /\ row \in [Volumes -> Row] /\ call \in [Volumes -> Call] /\ old \in Call
      /\ hosts \in Hosts /\ goal' \in [Volumes -> BOOLEAN]
      /\ old.step = "commit" /\ OnCourse(v) /\ NamesClient(row[v])
      /\ faults' \in 0..MaxFaults /\ turns' \in 0..MaxTurns
      /\ LinksHaveEntries /\ SessionsListed /\ UNCHANGED hosts
      /\ call' = [call EXCEPT ![v] = Idle]
      /\ lock' = (IF lock = v THEN NoVolume ELSE lock)
  BY DEF NvmeInv, TypeOK, Course, Commit, Release
<1>2. r \in Row /\ NamesClient(r) /\ row' = [row EXCEPT ![v] = r]
  BY <1>1 DEF Commit, Call, OnCourse
<1>3. r.rung = "CONNECTED" => r = row[v] \/ <<v, r.client>> \in hosts.links
  BY <1>1 DEF OnCourse, Upward, Downward, Syncing
<1>4. SessionsListed'
  <2> SUFFICES ASSUME NEW l \in hosts.sessions,
                      row'[l[1]] = [rung |-> "CONNECTED", client |-> l[2]]
               PROVE  l \in hosts.links
    BY <1>1 DEF SessionsListed
  <2>1. l \in Links /\ l = <<l[1], l[2]>> /\ l[1] \in Volumes
    BY <1>1 DEF Hosts, Links
  <2>2. CASE row'[l[1]] = row[l[1]]
    BY <2>2, <1>1 DEF SessionsListed
  <2>3. CASE row'[l[1]] # row[l[1]]
    <3>1. l[1] = v /\ row'[v] = r /\ r # row[v]
      BY <2>1, <2>3, <1>1, <1>2
    <3>2. r.rung = "CONNECTED" /\ r.client = l[2]
      BY <3>1
    <3>3. QED
      BY <3>1, <3>2, <2>1, <1>3
  <2>4. QED
    BY <2>2, <2>3
<1>5. LinksHaveEntries' /\ hosts' \in Hosts
  BY <1>1 DEF LinksHaveEntries
<1>6. OthersKept(v, hosts')
  BY <1>1 DEF OthersKept
<1>7. Idle \in Call /\ ~Holding(Idle) /\ OnCourse(v)'
  BY <1>1, IdleOnCourse
<1> DEFINE k == Idle
<1> HIDE DEF r, k
<1>8. QED
  BY <1>1, <1>2, <1>4, <1>5, <1>6, <1>7, StepOfOne DEF k

LEMMA ChangeMindStep ==
  ASSUME NvmeInv, NEW v \in Volumes, ChangeMind(v)
  PROVE  NvmeInv'
<1>1. TypeOK'
  BY NvmeAssumption DEF NvmeInv, TypeOK, ChangeMind
<1>2. LinksHaveEntries' /\ SessionsListed' /\ Course'
  BY DEF NvmeInv, ChangeMind, LinksHaveEntries, SessionsListed, Course, OnCourse,
         Upward, Downward, Syncing
<1>3. QED
  BY <1>1, <1>2 DEF NvmeInv

-----------------------------------------------------------------------------
(* For any volumes and clients, any number of lost commands and of syncs, the
   invariant holds: transactions belong to calls of the service, a directory is
   there while a subsystem links it, and each call is on its course
   (service_volume.go, sync.go, nvmeof.go). *)
THEOREM NvmeInvariant == Spec => []NvmeInv
<1>1. Init => NvmeInv
  BY NvmeAssumption DEF Init, NvmeInv, TypeOK, Row, Rungs, Hosts, Links, Call, Steps, Idle,
     LinksHaveEntries, SessionsListed, Course, OnCourse, NamesClient
<1>2. NvmeInv /\ [Next]_nvmeVars => NvmeInv'
  <2> SUFFICES ASSUME NvmeInv, [Next]_nvmeVars
               PROVE  NvmeInv'
    OBVIOUS
  <2>1. CASE UNCHANGED nvmeVars
    BY <2>1 DEF nvmeVars, NvmeInv, TypeOK, LinksHaveEntries, SessionsListed, Course, OnCourse,
       Upward, Downward, Syncing
  <2>2. ASSUME NEW v \in Volumes,
               StartPublish(v) \/ (\E c \in Clients : StartConnect(v, c))
                 \/ StartDisconnect(v) \/ StartUnpublish(v)
        PROVE  NvmeInv'
    BY <2>2, OpenStep
  <2>3. ASSUME NEW v \in Volumes, StartSync(v)
        PROVE  NvmeInv'
    BY <2>3, StartSyncStep
  <2>4. ASSUME NEW v \in Volumes, TakeLook(v) \/ LoseLook(v)
        PROVE  NvmeInv'
    BY <2>4, LookStep
  <2>5. ASSUME NEW v \in Volumes, RunCommand(v)
        PROVE  NvmeInv'
    BY <2>5, CommandStep
  <2>6. ASSUME NEW v \in Volumes, LoseCommand(v)
        PROVE  NvmeInv'
    BY <2>6, LoseStep
  <2>7. ASSUME NEW v \in Volumes, Commit(v)
        PROVE  NvmeInv'
    BY <2>7, CommitStep
  <2>8. ASSUME NEW v \in Volumes, ChangeMind(v)
        PROVE  NvmeInv'
    BY <2>8, ChangeMindStep
  <2>9. QED
    BY <2>1, <2>2, <2>3, <2>4, <2>5, <2>6, <2>7, <2>8 DEF Next, Progress
<1>3. QED
  BY <1>1, <1>2, PTL DEF Spec

(* The variables have their types, and an open transaction belongs to a call of
   the service (service_volume.go). *)
THEOREM NvmeTyped == Spec => []TypeOK
<1>1. NvmeInv => TypeOK
  BY DEF NvmeInv
<1>2. QED
  BY <1>1, NvmeInvariant, PTL

(* A client with a session to a volume it is connected to stays on the volume's
   list, with its keys in place, however the calls for its other volumes go and
   whatever is lost (NVMeOF.Unauthorize). *)
THEOREM RightsStay == Spec => []RightsKept
<1>1. NvmeInv => RightsKept
  BY DEF NvmeInv, SessionsListed, LinksHaveEntries, RightsKept
<1>2. QED
  BY <1>1, NvmeInvariant, PTL

-----------------------------------------------------------------------------
(* No stray rights, as long as nothing is lost. *)

(* The clients that the volume may have on its list: the one that its row is
   connected to; of a call that has run its commands, the one of its copy. *)
Entitled(v) ==
  LET k == call[v]
      r == IF (Holding(k) /\ k.step = "commit") \/ (k.goes = "up" /\ k.step = "connect")
           THEN k.next ELSE row[v]
  IN  IF r.rung = "CONNECTED" THEN {r.client} ELSE {}

(* Nobody else is listed or has a session, and nobody at all has one when a call
   is about to open it. *)
Clean(v) ==
  \A c \in Clients :
    /\ <<v, c>> \in hosts.links => c \in Entitled(v)
    /\ <<v, c>> \in hosts.sessions =>
         c \in Entitled(v) /\ ~(call[v].goes = "up" /\ call[v].step = "connect")

StraysInv == NvmeInv /\ (faults = 0 => \A v \in Volumes : Clean(v))

(* What the commands answer. *)
LEMMA CommandAnswers ==
  ASSUME NEW h \in Hosts, NEW v \in Volumes, NEW c \in Clients
  PROVE  /\ PublishVolume(h, v).ok /\ UnpublishVolume(h, v).ok /\ DisconnectTarget(h, v, c).ok
         /\ ~Authorize(h, v, c).ok => Authorize(h, v, c).hosts.links = h.links
         /\ <<v, c>> \in h.links /\ <<v, c>> \notin h.sessions => ConnectTarget(h, v, c).ok
<1>1. /\ PublishVolume(h, v).ok /\ UnpublishVolume(h, v).ok /\ DisconnectTarget(h, v, c).ok
  BY DEF PublishVolume, UnpublishVolume, DisconnectTarget, Done
<1>2. ~Authorize(h, v, c).ok => Authorize(h, v, c).hosts.links = h.links
  BY DEF Authorize, Done, Refused, Hosts
<1>3. <<v, c>> \in h.links /\ <<v, c>> \notin h.sessions => ConnectTarget(h, v, c).ok
  BY DEF ConnectTarget, Done
<1> QED
  BY <1>1, <1>2, <1>3

(* A command adds no link and no session to another volume. *)
OthersFree(v, h) ==
  \A l \in Links : l[1] # v => /\ l \in h.links => l \in hosts.links
                               /\ l \in h.sessions => l \in hosts.sessions

(* What the command of a call does to the volume's links and sessions. *)
LEMMA CommandLinks ==
  ASSUME NvmeInv, NEW v \in Volumes, call[v].step \in Commands
  PROVE  LET k   == call[v]
             c   == k.next.client
             did == Outcome(k.step, v, c)
         IN  /\ OthersFree(v, did.hosts)
             /\ k.step \in {"publish", "unpublish", "disconnect"} => did.ok
             /\ k.step \in {"authorize", "connect", "disconnect", "unauthorize"} => c \in Clients
             /\ k.step = "publish" =>
                  did.hosts.links = hosts.links /\ did.hosts.sessions = hosts.sessions
             /\ k.step = "unpublish" =>
                  did.hosts.links = {l \in hosts.links : l[1] # v} /\ did.hosts.sessions = hosts.sessions
             /\ k.step = "authorize" =>
                  /\ did.hosts.links = hosts.links
                       \/ (did.ok /\ did.hosts.links = hosts.links \cup {<<v, c>>})
                  /\ did.hosts.sessions = hosts.sessions
             /\ k.step = "connect" =>
                  /\ did.hosts.links = hosts.links
                  /\ did.hosts.sessions \in {hosts.sessions, hosts.sessions \cup {<<v, c>>}}
                  /\ <<v, c>> \in hosts.links /\ <<v, c>> \notin hosts.sessions => did.ok
             /\ k.step = "disconnect" =>
                  did.hosts.links = hosts.links /\ did.hosts.sessions = hosts.sessions \ {<<v, c>>}
             /\ k.step = "unauthorize" =>
                  did.hosts.links = hosts.links \ {<<v, c>>} /\ did.hosts.sessions = hosts.sessions
<1> DEFINE k == call[v]
           c == k.next.client
           did == Outcome(k.step, v, c)
<1>1. hosts \in Hosts /\ OnCourse(v)
  BY DEF NvmeInv, TypeOK, Course
<1>2. k.step \in {"authorize", "connect", "disconnect", "unauthorize"} => c \in Clients
  BY <1>1 DEF OnCourse, Upward, Downward, Syncing, NamesClient, NvmeInv, Course
<1>3. CASE k.step = "publish"
  <2>1. did = PublishVolume(hosts, v)
    BY <1>3 DEF Outcome
  <2>2. did.ok
    BY <2>1 DEF PublishVolume, Done
  <2> HIDE DEF did
  <2> QED
    BY <2>1, <2>2, <1>1, <1>3, PublishHosts DEF OthersFree, did
<1>4. CASE k.step = "unpublish"
  <2>1. did = UnpublishVolume(hosts, v)
    BY <1>4 DEF Outcome
  <2>2. did.ok
    BY <2>1 DEF UnpublishVolume, Done
  <2> HIDE DEF did
  <2> QED
    BY <2>1, <2>2, <1>1, <1>4, UnpublishHosts DEF OthersFree, did
<1>5. CASE k.step = "authorize"
  <2>1. did = Authorize(hosts, v, c) /\ c \in Clients
    BY <1>2, <1>5 DEF Outcome
  <2> HIDE DEF did
  <2>2. /\ did.hosts.links = hosts.links \/ did.hosts.links = hosts.links \cup {<<v, c>>}
        /\ did.hosts.sessions = hosts.sessions
    BY <2>1, <1>1, AuthorizeHosts
  <2>3. ~did.ok => did.hosts.links = hosts.links
    BY <2>1, <1>1, CommandAnswers
  <2> QED
    BY <2>1, <2>2, <2>3, <1>5 DEF OthersFree, Links, did
<1>6. CASE k.step = "connect"
  <2>1. did = ConnectTarget(hosts, v, c) /\ c \in Clients
    BY <1>2, <1>6 DEF Outcome
  <2> HIDE DEF did
  <2>2. /\ did.hosts.links = hosts.links
        /\ did.hosts.sessions \in {hosts.sessions, hosts.sessions \cup {<<v, c>>}}
        /\ <<v, c>> \in hosts.links /\ <<v, c>> \notin hosts.sessions => did.ok
    BY <2>1, <1>1, ConnectHosts, CommandAnswers
  <2> QED
    BY <2>1, <2>2, <1>6 DEF OthersFree, Links, did
<1>7. CASE k.step = "disconnect"
  <2>1. did = DisconnectTarget(hosts, v, c) /\ c \in Clients
    BY <1>2, <1>7 DEF Outcome
  <2> HIDE DEF did
  <2>2. did.hosts.links = hosts.links /\ did.hosts.sessions = hosts.sessions \ {<<v, c>>}
    BY <2>1, <1>1, DisconnectHosts
  <2>3. did.ok
    BY <2>1, <1>1, CommandAnswers
  <2> QED
    BY <2>1, <2>2, <2>3, <1>7 DEF OthersFree, Links, did
<1>8. CASE k.step = "unauthorize"
  <2>1. did = Unauthorize(hosts, v, c) /\ c \in Clients
    BY <1>2, <1>8 DEF Outcome
  <2> HIDE DEF did
  <2>2. did.hosts.links = hosts.links \ {<<v, c>>} /\ did.hosts.sessions = hosts.sessions
    BY <2>1, <1>1, UnauthorizeHosts
  <2> QED
    BY <2>1, <2>2, <1>8 DEF OthersFree, Links, did
<1> QED
  BY <1>3, <1>4, <1>5, <1>6, <1>7, <1>8 DEF Commands

(* The other volumes stay clean through a step of v. *)
LEMMA OthersClean ==
  ASSUME StraysInv, faults = 0, NEW v \in Volumes, NEW u \in Volumes \ {v},
         row'[u] = row[u], call'[u] = call[u], OthersFree(v, hosts')
  PROVE  Clean(u)'
<1>1. Clean(u)
  BY DEF StraysInv
<1>2. Entitled(u)' = Entitled(u)
  BY DEF Entitled, Holding
<1> SUFFICES ASSUME NEW c \in Clients
             PROVE  /\ <<u, c>> \in hosts'.links => c \in Entitled(u)
                    /\ <<u, c>> \in hosts'.sessions =>
                         c \in Entitled(u) /\ ~(call[u].goes = "up" /\ call[u].step = "connect")
  BY <1>2 DEF Clean
<1> DEFINE l == <<u, c>>
<1>3. l \in Links /\ l[1] # v
  BY DEF Links
<1> HIDE DEF l
<1>4. (l \in hosts'.links => l \in hosts.links) /\ (l \in hosts'.sessions => l \in hosts.sessions)
  BY <1>3 DEF OthersFree
<1> QED
  BY <1>1, <1>4 DEF Clean, l

(* A step of v that leaves the hosts alone. *)
LEMMA CleanLocally ==
  ASSUME StraysInv, faults = 0, NEW v \in Volumes, UNCHANGED hosts,
         \A u \in Volumes \ {v} : row'[u] = row[u] /\ call'[u] = call[u],
         Entitled(v) \subseteq Entitled(v)',
         ~(call'[v].goes = "up" /\ call'[v].step = "connect")
  PROVE  \A u \in Volumes : Clean(u)'
<1>1. OthersFree(v, hosts')
  BY DEF OthersFree
<1>2. Clean(v)
  BY DEF StraysInv
<1>3. Clean(v)'
  BY <1>2 DEF Clean
<1>4. ASSUME NEW u \in Volumes
      PROVE  Clean(u)'
  BY <1>1, <1>3, OthersClean
<1> QED
  BY <1>4

(* The start of a call, a look, a commit. *)
LEMMA CleanCalls ==
  ASSUME StraysInv, faults = 0, NEW v \in Volumes,
         \/ StartPublish(v) \/ (\E c \in Clients : StartConnect(v, c))
         \/ StartDisconnect(v) \/ StartUnpublish(v) \/ StartSync(v)
         \/ TakeLook(v) \/ Commit(v)
  PROVE  \A u \in Volumes : Clean(u)'
<1>1. /\ row \in [Volumes -> Row] /\ call \in [Volumes -> Call] /\ call[v] \in Call
      /\ OnCourse(v)
  BY DEF StraysInv, NvmeInv, TypeOK, Course
<1>2. CASE TakeLook(v)
  <2>1. call[v].goes = "sync"
    BY <1>1, <1>2 DEF TakeLook, OnCourse, Upward, Downward, Syncing, Looks
  <2>2. PICK step : call' = [call EXCEPT ![v].step = step]
    BY <1>2 DEF TakeLook, Seen
  <2>3. UNCHANGED <<row, hosts>>
    BY <1>2 DEF TakeLook
  <2>4. call'[v].goes = "sync"
    BY <1>1, <2>1, <2>2 DEF Call
  <2>5. Entitled(v)' = Entitled(v)
    BY <2>1, <2>3, <2>4 DEF Entitled, Holding
  <2>6. \A u \in Volumes \ {v} : row'[u] = row[u] /\ call'[u] = call[u]
    BY <1>1, <2>2, <2>3
  <2> QED
    BY <2>3, <2>4, <2>5, <2>6, CleanLocally
<1>3. CASE Commit(v)
  <2>1. /\ call[v].step = "commit" /\ call' = [call EXCEPT ![v] = Idle] /\ UNCHANGED hosts
        /\ row' = IF call[v].goes = "sync" THEN row ELSE [row EXCEPT ![v] = call[v].next]
    BY <1>3 DEF Commit
  <2>2. call'[v].goes = "nowhere"
    BY <1>1, <2>1 DEF Idle
  <2>3. call[v].goes = "sync" \/ Holding(call[v])
    BY <1>1, <2>1 DEF OnCourse, Upward, Downward, Syncing, Holding
  <2>4. row'[v] = IF call[v].goes = "sync" THEN row[v] ELSE call[v].next
    BY <1>1, <2>1
  <2>5. Entitled(v)' = Entitled(v)
    BY <2>1, <2>2, <2>3, <2>4 DEF Entitled, Holding
  <2>6. \A u \in Volumes \ {v} : row'[u] = row[u] /\ call'[u] = call[u]
    BY <1>1, <2>1
  <2> QED
    BY <2>1, <2>2, <2>5, <2>6, CleanLocally
<1>4. CASE \/ StartPublish(v) \/ (\E c \in Clients : StartConnect(v, c))
           \/ StartDisconnect(v) \/ StartUnpublish(v) \/ StartSync(v)
  <2>1. PICK k : /\ call' = [call EXCEPT ![v] = k]
                 /\ k.step \notin {"connect", "commit"}
    BY <1>4 DEF StartPublish, StartConnect, StartDisconnect, StartUnpublish, StartSync, Open
  <2>2. call[v].step = "idle" /\ UNCHANGED <<row, hosts>>
    BY <1>4 DEF StartPublish, StartConnect, StartDisconnect, StartUnpublish, StartSync, Open
  <2>3. call'[v].step \notin {"connect", "commit"}
    BY <1>1, <2>1
  <2>4. Entitled(v)' = Entitled(v)
    BY <2>2, <2>3 DEF Entitled
  <2>5. \A u \in Volumes \ {v} : row'[u] = row[u] /\ call'[u] = call[u]
    BY <1>1, <2>1, <2>2
  <2> QED
    BY <2>2, <2>3, <2>4, <2>5, CleanLocally
<1> QED
  BY <1>2, <1>3, <1>4

(* A command: who is authorized is the one the call is to connect, a session is
   opened for nobody else, and when a call to detach commits nobody is left. *)
LEMMA CleanCommand ==
  ASSUME StraysInv, faults = 0, NEW v \in Volumes, RunCommand(v)
  PROVE  \A u \in Volumes : Clean(u)'
<1> DEFINE old == call[v]
           c == old.next.client
           did == Outcome(old.step, v, c)
           k == [old EXCEPT !.step = AfterCommand(@, old.goes, old.next)]
<1>1. /\ NvmeInv /\ row \in [Volumes -> Row] /\ call \in [Volumes -> Call] /\ old \in Call
      /\ old.step \in Commands /\ OnCourse(v) /\ Clean(v)
      /\ hosts' = did.hosts /\ UNCHANGED row
  BY DEF StraysInv, NvmeInv, TypeOK, Course, RunCommand
<1>2. /\ call' = [call EXCEPT ![v] = IF did.ok THEN k ELSE Idle]
  BY DEF RunCommand, Fail
<1>3. /\ k.goes = old.goes /\ k.next = old.next
      /\ k.step = AfterCommand(old.step, old.goes, old.next)
  BY <1>1 DEF Call
<1>4. /\ OthersFree(v, did.hosts)
      /\ old.step \in {"publish", "unpublish", "disconnect"} => did.ok
      /\ old.step \in {"authorize", "connect", "disconnect", "unauthorize"} => c \in Clients
      /\ old.step = "publish" =>
           did.hosts.links = hosts.links /\ did.hosts.sessions = hosts.sessions
      /\ old.step = "unpublish" =>
           did.hosts.links = {l \in hosts.links : l[1] # v} /\ did.hosts.sessions = hosts.sessions
      /\ old.step = "authorize" =>
           /\ did.hosts.links = hosts.links
                \/ (did.ok /\ did.hosts.links = hosts.links \cup {<<v, c>>})
           /\ did.hosts.sessions = hosts.sessions
      /\ old.step = "connect" =>
           /\ did.hosts.links = hosts.links
           /\ did.hosts.sessions \in {hosts.sessions, hosts.sessions \cup {<<v, c>>}}
           /\ <<v, c>> \in hosts.links /\ <<v, c>> \notin hosts.sessions => did.ok
      /\ old.step = "disconnect" =>
           did.hosts.links = hosts.links /\ did.hosts.sessions = hosts.sessions \ {<<v, c>>}
      /\ old.step = "unauthorize" =>
           did.hosts.links = hosts.links \ {<<v, c>>} /\ did.hosts.sessions = hosts.sessions
  BY <1>1, CommandLinks
<1> HIDE DEF did, k
<1>5. call'[v] = IF did.ok THEN k ELSE Idle
  BY <1>1, <1>2
<1>6. Idle.goes = "nowhere" /\ Idle.step = "idle"
  BY DEF Idle
<1>7. row'[v] = row[v]
  BY <1>1
<1>8. CASE old.goes = "sync"
  <2>1. Syncing(v, old)
    BY <1>1, <1>8 DEF OnCourse, Upward, Downward, Commands
  <2>2. Entitled(v) = IF row[v].rung = "CONNECTED" THEN {row[v].client} ELSE {}
    BY <1>8 DEF Entitled, Holding
  <2>3. call'[v].goes \in {"sync", "nowhere"}
    BY <1>3, <1>5, <1>6, <1>8
  <2>4. Entitled(v)' = Entitled(v)
    BY <1>7, <2>2, <2>3 DEF Entitled, Holding
  <2>5. old.step \in {"authorize", "connect"} => Entitled(v) = {c}
    BY <1>8, <2>1, <2>2 DEF Syncing
  <2>6. old.step # "unpublish"
    BY <2>1 DEF Syncing
  <2> SUFFICES ASSUME NEW b \in Clients
               PROVE  /\ <<v, b>> \in hosts'.links => b \in Entitled(v)
                      /\ <<v, b>> \in hosts'.sessions => b \in Entitled(v)
    <3>1. Clean(v)'
      BY <2>3, <2>4 DEF Clean
    <3>2. ASSUME NEW u \in Volumes \ {v}
          PROVE  Clean(u)'
      BY <1>1, <1>2, <1>4, OthersClean
    <3> QED
      BY <3>1, <3>2
  <2>7. (<<v, b>> \in hosts.links \/ <<v, b>> \in hosts.sessions) => b \in Entitled(v)
    BY <1>1 DEF Clean
  <2> QED
    BY <1>1, <1>4, <2>5, <2>6, <2>7 DEF Commands
<1>9. CASE old.goes = "up"
  <2>1. Upward(v, old)
    BY <1>1, <1>9 DEF OnCourse, Downward, Syncing, Commands
  <2>2. Clean(v)'
    <3>1. CASE old.step = "publish"
      <4>1. /\ call'[v].step = "commit" /\ call'[v].next = old.next
            /\ old.next.rung = "PUBLISHED" /\ call'[v].goes = "up"
        BY <1>3, <1>4, <1>5, <1>9, <2>1, <3>1 DEF AfterCommand, Upward
      <4>2. Entitled(v) = {}
        BY <2>1, <3>1 DEF Entitled, Upward
      <4> QED
        BY <1>1, <1>4, <3>1, <4>1, <4>2 DEF Clean
    <3>2. CASE old.step = "authorize"
      <4>1. Entitled(v) = {} /\ old.next.rung = "CONNECTED"
        BY <2>1, <3>2 DEF Entitled, Upward
      <4>2. \A b \in Clients : <<v, b>> \notin hosts.links /\ <<v, b>> \notin hosts'.sessions
        BY <1>1, <1>4, <3>2, <4>1 DEF Clean
      <4>3. CASE did.ok
        <5>1. call'[v].step = "connect" /\ call'[v].next = old.next /\ call'[v].goes = "up"
          BY <1>3, <1>5, <1>9, <3>2, <4>3 DEF AfterCommand
        <5>2. Entitled(v)' = {c}
          BY <4>1, <5>1 DEF Entitled
        <5>3. \A b \in Clients : <<v, b>> \in hosts'.links => b = c
          BY <1>1, <1>4, <3>2, <4>2
        <5> QED
          BY <4>2, <5>2, <5>3 DEF Clean
      <4>4. CASE ~did.ok
        BY <1>1, <1>4, <3>2, <4>2, <4>4 DEF Clean
      <4> QED
        BY <4>3, <4>4
    <3>3. CASE old.step = "connect"
      <4>1. Entitled(v) = {c} /\ old.next.rung = "CONNECTED" /\ <<v, c>> \in hosts.links
        BY <1>9, <2>1, <3>3 DEF Entitled, Upward
      <4>2. \A b \in Clients : /\ <<v, b>> \in hosts.links => b = c
                               /\ <<v, b>> \notin hosts.sessions
        BY <1>1, <1>9, <3>3, <4>1 DEF Clean
      <4>3. did.ok
        BY <1>4, <3>3, <4>1, <4>2
      <4>4. call'[v].step = "commit" /\ call'[v].next = old.next /\ call'[v].goes = "up"
        BY <1>3, <1>5, <1>9, <3>3, <4>3 DEF AfterCommand
      <4>5. Entitled(v)' = {c}
        BY <4>1, <4>4 DEF Entitled, Holding
      <4>6. \A b \in Clients : /\ <<v, b>> \in hosts'.links => b = c
                               /\ <<v, b>> \in hosts'.sessions => b = c
        BY <1>1, <1>4, <3>3, <4>2
      <4> QED
        BY <4>4, <4>5, <4>6 DEF Clean
    <3> QED
      BY <1>1, <2>1, <3>1, <3>2, <3>3 DEF Upward, Commands
  <2>3. ASSUME NEW u \in Volumes \ {v}
        PROVE  Clean(u)'
    BY <1>1, <1>2, <1>4, OthersClean
  <2> QED
    BY <2>2, <2>3
<1>10. CASE old.goes = "down"
  <2>1. Downward(v, old)
    BY <1>1, <1>10 DEF OnCourse, Upward, Syncing, Commands
  <2>2. Clean(v)'
    <3>1. CASE old.step = "unpublish"
      <4>1. Entitled(v) = {}
        BY <1>10, <2>1, <3>1 DEF Entitled, Downward
      <4>2. \A b \in Clients : <<v, b>> \notin hosts'.links /\ <<v, b>> \notin hosts'.sessions
        BY <1>1, <1>4, <3>1, <4>1 DEF Clean
      <4> QED
        BY <4>2 DEF Clean
    <3>2. CASE old.step = "disconnect"
      <4>1. Entitled(v) = {c} /\ row[v].rung = "CONNECTED" /\ row[v].client = c
        BY <1>10, <2>1, <3>2 DEF Entitled, Downward
      <4>2. call'[v].step = "unauthorize"
        BY <1>3, <1>4, <1>5, <1>10, <3>2 DEF AfterCommand
      <4>3. Entitled(v)' = {c}
        BY <1>7, <4>1, <4>2 DEF Entitled
      <4> QED
        BY <1>1, <1>4, <3>2, <4>1, <4>2, <4>3 DEF Clean
    <3>3. CASE old.step = "unauthorize"
      <4>1. /\ Entitled(v) = {c} /\ row[v].rung = "CONNECTED" /\ row[v].client = c
            /\ <<v, c>> \notin hosts.sessions
        BY <1>10, <2>1, <3>3 DEF Entitled, Downward
      <4>2. \A b \in Clients : <<v, b>> \notin hosts'.links /\ <<v, b>> \notin hosts'.sessions
        BY <1>1, <1>4, <3>3, <4>1 DEF Clean
      <4> QED
        BY <4>2 DEF Clean
    <3> QED
      BY <1>1, <2>1, <3>1, <3>2, <3>3 DEF Downward, Commands
  <2>3. ASSUME NEW u \in Volumes \ {v}
        PROVE  Clean(u)'
    BY <1>1, <1>2, <1>4, OthersClean
  <2> QED
    BY <2>2, <2>3
<1> QED
  BY <1>1, <1>8, <1>9, <1>10 DEF OnCourse, Upward, Downward, Syncing, Commands

(* As long as no command and no look is lost, only the client that a row is
   connected to is on the volume's list and has a session, but for what the call
   under way has already done (ConnectVolume, DisconnectVolume, SyncVolume). *)
THEOREM StraysInvariant == Spec => []StraysInv
<1>1. Init /\ NvmeInv => StraysInv
  BY DEF Init, StraysInv, Clean
<1>2. StraysInv /\ NvmeInv' /\ [Next]_nvmeVars => StraysInv'
  <2> SUFFICES ASSUME StraysInv, NvmeInv', [Next]_nvmeVars, faults' = 0
               PROVE  \A v \in Volumes : Clean(v)'
    BY DEF StraysInv
  <2>1. faults \in Nat
    BY NvmeAssumption DEF StraysInv, NvmeInv, TypeOK
  <2>2. CASE UNCHANGED nvmeVars
    BY <2>2 DEF nvmeVars, StraysInv, Clean, Entitled, Holding
  <2>3. ASSUME NEW v \in Volumes, LoseLook(v) \/ LoseCommand(v)
        PROVE  FALSE
    <3>1. faults' = faults + 1
      BY <2>3 DEF LoseLook, LoseCommand
    <3> QED
      BY <2>1, <3>1
  <2>4. ASSUME NEW v \in Volumes, RunCommand(v)
        PROVE  \A u \in Volumes : Clean(u)'
    BY <2>4, CleanCommand DEF RunCommand
  <2>5. ASSUME NEW v \in Volumes,
               \/ StartPublish(v) \/ (\E c \in Clients : StartConnect(v, c))
               \/ StartDisconnect(v) \/ StartUnpublish(v) \/ StartSync(v)
               \/ TakeLook(v) \/ Commit(v)
        PROVE  \A u \in Volumes : Clean(u)'
    <3>1. faults = 0
      BY <2>5 DEF StartPublish, StartConnect, StartDisconnect, StartUnpublish, StartSync, Open,
         TakeLook, Commit
    <3> QED
      BY <2>5, <3>1, CleanCalls
  <2>6. ASSUME NEW v \in Volumes, ChangeMind(v)
        PROVE  \A u \in Volumes : Clean(u)'
    BY <2>6 DEF ChangeMind, StraysInv, Clean, Entitled, Holding
  <2> QED
    BY <2>2, <2>3, <2>4, <2>5, <2>6 DEF Next, Progress
<1> QED
  BY <1>1, <1>2, NvmeInvariant, PTL DEF Spec

(* As long as no command is lost, a subsystem lists no client but the one its
   row is connected to, once its calls have ended, however the calls for the
   volumes that share the client go (NVMeOF.Authorize, NVMeOF.Unauthorize). *)
THEOREM NoRightsLeft == Spec => []NoStrayRights
<1>1. StraysInv => NoStrayRights
  <2> SUFFICES ASSUME StraysInv, faults = 0, NEW l \in hosts.links, call[l[1]].step = "idle"
               PROVE  row[l[1]] = [rung |-> "CONNECTED", client |-> l[2]]
    BY DEF NoStrayRights
  <2>1. l[1] \in Volumes /\ l[2] \in Clients /\ l = <<l[1], l[2]>> /\ row[l[1]] \in Row
    BY DEF StraysInv, NvmeInv, TypeOK, Hosts, Links
  <2>2. l[2] \in Entitled(l[1])
    BY <2>1 DEF StraysInv, Clean
  <2>3. row[l[1]].rung = "CONNECTED" /\ row[l[1]].client = l[2]
    BY <2>2 DEF Entitled
  <2> QED
    BY <2>1, <2>3 DEF Row
<1> QED
  BY <1>1, StraysInvariant, PTL

================================================================================
