------------------------ MODULE VolumeExpansionProofs ------------------------
(***************************************************************************)
(* Proofs about VolumeExpansion, for any sizes, options and handlers and   *)
(* any number of lost commands and crashes: with calls one at a time, the  *)
(* type invariant; that the row covers the zvol and that no zvol is made   *)
(* smaller, until a client asks for less; and, while nothing is lost and   *)
(* no size is refused, that the hosts are at rest as the row has them and  *)
(* that the size a node has been told of is really there.                  *)
(***************************************************************************)
EXTENDS VolumeExpansion, TLAPS

(* Requests come one at a time. *)
OneCall == \A c, d \in Calls : c = d

Updating == {"volsize", "option", "rescan", "resize"}
Handling == {"begin", "zfs", "login", "mkfs", "logout", "commit"}

(* What a call holds of the size: once the row is written the copy and the row
   agree, but for a copy that says 0, which gorm does not write. *)
SizeHeld(c) ==
  LET k == call[c]
  IN  k.pc # "idle" =>
        /\ row.rung # NONE
        /\ k.pc # "ask" => k.v.rung # NONE
        /\ k.pc \notin {"ask", "write"} =>
             \/ k.v.capacity = row.capacity
             \/ k.op = "Update" /\ k.v.capacity = 0 /\ k.pc \notin Handling
        /\ k.op # "Update" =>
             /\ k.pc = "ask" => "capacity" \notin k.named \/ k.capacity # 0
             /\ k.pc = "write" => k.v.capacity = row.capacity \/ k.v.capacity # 0

(* A request is for more than the row has, and a write that is to come does not
   lower it. *)
SizeGrows(c) ==
  LET k == call[c]
  IN  /\ k.pc = "ask" =>
           \/ "capacity" \notin k.named
           \/ k.capacity >= row.capacity
           \/ k.op = "Update" /\ k.capacity = 0
      /\ k.pc = "write" =>
           \/ k.v.capacity >= row.capacity
           \/ k.op = "Update" /\ k.v.capacity = 0

(* Nothing is larger than the zvol, nor the zvol than the row says. *)
Covered ==
  /\ fs <= zvol.size /\ device <= zvol.size
  /\ zvol.size <= row.capacity /\ told.size <= row.capacity
  /\ row.rung = NONE => row.capacity = 0

(* A device and a filesystem are those of a zvol. *)
Standing == device > 0 \/ fs > 0 => zvol.size > 0

SizeInv ==
  /\ TypeOK
  /\ Standing
  /\ \A c \in Calls : SizeHeld(c)
  /\ "less" \notin asked => Covered /\ \A c \in Calls : SizeGrows(c)

-----------------------------------------------------------------------------
(* The operators on rows. *)

LEMMA UpdatesRow ==
  ASSUME NEW old \in Row, NEW v \in Row
  PROVE  /\ Updates(old, v) \in Row
         /\ Updates(old, v).rung = IF old.rung = NONE THEN NONE ELSE v.rung
         /\ Updates(old, v).capacity =
              IF old.rung = NONE \/ v.capacity = 0 THEN old.capacity ELSE v.capacity
BY DEF Updates, Row

LEMMA AppliedRow ==
  ASSUME NEW v \in Row, NEW named \in SUBSET Fields, NEW capacity \in Capacities,
         NEW option \in Options \cup {NoOption}
  PROVE  \A w : w = Converted(applyVolumeUpdate(v, named, capacity, option)) =>
           /\ w \in Row /\ w.rung = v.rung
           /\ "capacity" \in named => w.capacity = capacity
           /\ "capacity" \notin named => w.capacity = v.capacity
BY DEF Converted, applyVolumeUpdate, Row

(* A handler finds the volume on a rung, and means to leave it on one. *)
LEMMA Rungs ==
  ASSUME NEW op \in AllHandlers
  PROVE  To(op) \in NONE .. STAGED /\ To(op) # NONE /\ NONE \notin From(op)
BY DEF To, From, AllHandlers, NONE, INITIAL, PUBLISHED, CONNECTED, STAGED

LEMMA IdleCall == Idle \in Call /\ Idle.pc = "idle" /\ NoRow \in Row
BY SizeAssumption DEF Idle, NoRow, Call, Row, Capacities, Steps, NONE, STAGED

-----------------------------------------------------------------------------
(* The steps of a call. *)

LEMMA GoneTo ==
  ASSUME TypeOK, NEW c \in Calls, NEW pc \in Steps, Goto(c, pc)
  PROVE  /\ call' \in [Calls -> Call]
         /\ call'[c].pc = pc
         /\ pc # "idle" => call'[c].v = call[c].v /\ call'[c].op = call[c].op
<1>1. call \in [Calls -> Call] /\ call[c] \in Call
  BY DEF TypeOK
<1>2. CASE pc = "idle"
  BY <1>1, <1>2, IdleCall DEF Goto
<1>3. CASE pc # "idle"
  <2> DEFINE k == [call[c] EXCEPT !.pc = pc]
  <2>1. k \in Call /\ k.pc = pc /\ k.v = call[c].v /\ k.op = call[c].op
    BY <1>1 DEF Call
  <2>2. call' = [call EXCEPT ![c] = k]
    BY <1>3 DEF Goto
  <2> HIDE DEF k
  <2>3. QED
    BY <1>1, <2>1, <2>2
<1>4. QED
  BY <1>2, <1>3

LEMMA Answered ==
  ASSUME TypeOK, NEW c \in Calls, NEW pc \in Steps, Answer(c, pc)
  PROVE  /\ told' \in Told
         /\ told'.size = told.size \/ (call[c].op = "Expand" /\ told'.size = call[c].v.capacity)
<1> DEFINE online == call[c].v.rung >= CONNECTED
           new == [size |-> call[c].v.capacity, online |-> online, node |-> 0]
           old == [told EXCEPT !.online = @ /\ online]
<1>1. told \in Told /\ call[c] \in Call /\ call[c].v \in Row /\ call[c].v.capacity \in Capacities
  BY DEF TypeOK, Call, Row
<1>2. online \in BOOLEAN /\ 0 \in Capacities
  BY SizeAssumption DEF Capacities
<1>3. told' = told \/ told' = old \/ (call[c].op = "Expand" /\ told' = new)
  BY DEF Answer
<1> HIDE DEF online
<1>4. new \in Told /\ new.size = call[c].v.capacity
  BY <1>1, <1>2 DEF Told
<1>5. old \in Told /\ old.size = told.size
  BY <1>1, <1>2 DEF Told
<1> HIDE DEF new, old
<1>6. told' = told \/ told' = old => told' \in Told /\ told'.size = told.size
  BY <1>1, <1>5
<1>7. told' = new => told' \in Told /\ told'.size = call[c].v.capacity
  BY <1>4
<1>8. QED
  BY <1>3, <1>6, <1>7

(* A call that has the row's size, or ends, does no harm to the row's. *)
LEMMA HostStep ==
  ASSUME SizeInv, OneCall, NEW c \in Calls, NEW pc \in Steps, Goto(c, pc),
         \/ pc = "idle"
         \/ /\ pc \notin {"ask", "write"} /\ call[c].pc \notin {"idle", "ask", "write"}
            /\ pc \in Handling => call[c].pc \in Handling,
         row' = row, asked' = asked, zvol' \in Zvol, device' \in Sizes, fs' \in Sizes,
         lock' \in Calls \cup {NoCall}, told' \in Told, faults' \in 0 .. MaxFaults,
         Standing',
         "less" \notin asked => /\ fs' <= zvol'.size /\ device' <= zvol'.size
                               /\ zvol'.size <= row.capacity /\ told'.size <= row.capacity
  PROVE  SizeInv'
<1>1. TypeOK /\ SizeHeld(c) /\ ("less" \notin asked => Covered)
  BY DEF SizeInv
<1>2. /\ call' \in [Calls -> Call] /\ call'[c].pc = pc
      /\ pc # "idle" => call'[c].v = call[c].v /\ call'[c].op = call[c].op
  BY <1>1, GoneTo
<1>3. TypeOK'
  BY <1>1, <1>2 DEF TypeOK
<1>4. "less" \notin asked => Covered'
  BY <1>1 DEF Covered
<1>5. SizeHeld(c)' /\ SizeGrows(c)'
  BY <1>1, <1>2 DEF SizeHeld, SizeGrows
<1>6. QED
  BY <1>3, <1>4, <1>5 DEF SizeInv, OneCall

(* A command grows the zvol to the row's size, or leaves it. *)
LEMMA CommandStep ==
  ASSUME SizeInv, OneCall, NEW c \in Calls,
         \/ SetVolsize(c) \/ SetOption(c) \/ RescanTarget(c) \/ Resize(c)
         \/ Begin(c) \/ EnsureZvol(c) \/ Login(c) \/ EnsureFilesystem(c) \/ Logout(c)
  PROVE  SizeInv' /\ (zvol'.size >= zvol.size \/ "less" \in asked)
<1>1. TypeOK /\ SizeHeld(c) /\ Standing /\ ("less" \notin asked => Covered)
  BY DEF SizeInv
<1> DEFINE k == call[c]
<1>2. /\ zvol \in Zvol /\ zvol.size \in Nat /\ row.capacity \in Int /\ told.size \in Int
      /\ device \in Sizes /\ fs \in Sizes /\ device \in Nat /\ fs \in Nat
      /\ lock \in Calls \cup {NoCall} /\ told \in Told /\ faults \in 0 .. MaxFaults
      /\ k \in Call /\ k.v \in Row /\ k.v.capacity \in Capacities /\ k.v.capacity \in Int
      /\ k.v.option \in Options \cup {NoOption}
      /\ \A size \in Sizes : size \in Nat
      /\ \A size \in Capacities : size > 0 => size \in Sizes
  BY <1>1, SizeAssumption DEF TypeOK, Zvol, Told, Row, Call, Sizes, Capacities
<1>3. "less" \notin asked =>
        /\ fs <= zvol.size /\ device <= zvol.size
        /\ zvol.size <= row.capacity /\ told.size <= row.capacity
  BY <1>1 DEF Covered
<1>4. /\ k.pc \in Handling => k.v.capacity = row.capacity
      /\ k.pc \in Updating => \/ k.v.capacity = row.capacity
                              \/ k.op = "Update" /\ k.v.capacity = 0
  BY <1>1 DEF SizeHeld, Updating, Handling
<1>5. {"idle", "rescan", "resize", "option", "commit", "volsize", "zfs", "login", "mkfs", "logout"} \subseteq Steps
  BY DEF Steps
<1>6. ASSUME NEW pc \in {"idle", "option", "rescan", "resize"}, k.pc \in Updating,
             Goto(c, pc), Answer(c, pc), UNCHANGED <<row, lock, asked, faults>>,
             zvol' \in Zvol, device' \in Sizes, fs' \in Sizes, Standing',
             "less" \notin asked =>
               fs' <= zvol'.size /\ device' <= zvol'.size /\ zvol'.size <= row.capacity
      PROVE  SizeInv'
  <2>1. pc \in Steps /\ pc \notin {"ask", "write"} /\ pc \notin Handling
        /\ k.pc \notin {"idle", "ask", "write"}
    BY <1>5, <1>6 DEF Updating, Handling
  <2>2. /\ told' \in Told
        /\ told'.size = told.size \/ (k.op = "Expand" /\ told'.size = k.v.capacity)
    BY <1>1, <1>6, <2>1, Answered
  <2>3. "less" \notin asked => told'.size <= row.capacity
    BY <1>2, <1>3, <1>4, <1>6, <2>2
  <2>4. QED
    BY <1>2, <1>6, <2>1, <2>2, <2>3, HostStep
<1>7. ASSUME NEW pc \in {"zfs", "login", "mkfs", "logout", "commit"}, k.pc \in Handling,
             Goto(c, pc), UNCHANGED <<row, told, asked, faults>>, lock' \in Calls \cup {NoCall},
             zvol' \in Zvol, device' \in Sizes, fs' \in Sizes, Standing',
             "less" \notin asked =>
               fs' <= zvol'.size /\ device' <= zvol'.size /\ zvol'.size <= row.capacity
      PROVE  SizeInv'
  <2>1. pc \in Steps /\ pc \notin {"ask", "write"} /\ k.pc \notin {"idle", "ask", "write"}
    BY <1>5, <1>7 DEF Handling
  <2>2. QED
    BY <1>2, <1>3, <1>7, <2>1, HostStep
<1>8. CASE SetVolsize(c)
  <2> DEFINE next == AfterVolsize(k.v)
  <2>1. next \in {"idle", "rescan", "option", "resize"}
    BY DEF AfterVolsize, AfterZvol
  <2>2. /\ k.pc = "volsize" /\ zvol' = [zvol EXCEPT !.size = k.v.capacity]
        /\ UNCHANGED <<row, device, fs, lock, asked, faults>>
        /\ Goto(c, next) /\ Answer(c, next) /\ k.v.capacity > 0
    BY <1>8 DEF SetVolsize, Succeeds
  <2> HIDE DEF next
  <2>3. zvol' \in Zvol /\ zvol'.size = k.v.capacity
    BY <1>2, <2>2 DEF Zvol
  <2>4. k.pc \in Updating /\ k.v.capacity = row.capacity /\ Standing'
    BY <1>4, <2>2, <2>3 DEF Updating, Standing
  <2>5. QED
    BY <1>2, <1>3, <1>6, <2>1, <2>2, <2>3, <2>4
<1>9. CASE SetOption(c)
  <2> DEFINE next == AfterZvol(k.v)
  <2>1. next \in {"idle", "option", "rescan", "resize"}
    BY DEF AfterZvol
  <2>2. /\ k.pc = "option" /\ zvol' = [zvol EXCEPT !.option = k.v.option]
        /\ UNCHANGED <<row, device, fs, lock, asked, faults>>
        /\ Goto(c, next) /\ Answer(c, next)
    BY <1>9 DEF SetOption
  <2> HIDE DEF next
  <2>3. zvol' \in Zvol /\ zvol'.size = zvol.size
    BY <1>2, <2>2 DEF Zvol
  <2>4. k.pc \in Updating /\ Standing'
    BY <1>1, <2>2, <2>3 DEF Updating, Standing
  <2>5. QED
    BY <1>2, <1>3, <1>6, <2>1, <2>2, <2>3, <2>4
<1>10. CASE RescanTarget(c)
  <2> DEFINE next == AfterRescan(k.v)
  <2>1. next \in {"idle", "option", "rescan", "resize"}
    BY DEF AfterRescan
  <2>2. /\ k.pc = "rescan" /\ device' = zvol.size
        /\ UNCHANGED <<row, zvol, fs, lock, asked, faults>>
        /\ Goto(c, next) /\ Answer(c, next)
    BY <1>10 DEF RescanTarget
  <2> HIDE DEF next
  <2>3. k.pc \in Updating /\ zvol.size \in Sizes /\ Standing'
    BY <1>1, <1>2, <2>2 DEF Updating, Standing, Zvol
  <2>4. QED
    BY <1>2, <1>3, <1>6, <2>1, <2>2, <2>3
<1>11. CASE Resize(c)
  <2>1. /\ k.pc = "resize" /\ fs' = device
        /\ UNCHANGED <<row, zvol, device, lock, asked, faults>>
        /\ Goto(c, "idle") /\ Answer(c, "idle")
    BY <1>11 DEF Resize
  <2>2. k.pc \in Updating /\ Standing'
    BY <1>1, <2>1 DEF Updating, Standing
  <2>3. QED
    BY <1>2, <1>3, <1>6, <2>1, <2>2
<1>12. CASE Begin(c)
  <2> DEFINE next == Command(k.op)
  <2>1. next \in {"zfs", "login", "mkfs", "logout", "commit"}
    BY DEF Command
  <2>2. /\ k.pc = "begin" /\ lock' = c /\ Goto(c, next)
        /\ UNCHANGED <<row, zvol, device, fs, told, asked, faults>>
    BY <1>12 DEF Begin, hosts
  <2> HIDE DEF next
  <2>3. k.pc \in Handling /\ Standing'
    BY <1>1, <2>2 DEF Handling, Standing
  <2>4. QED
    BY <1>2, <1>3, <1>7, <2>1, <2>2, <2>3
<1>13. CASE EnsureZvol(c)
  <2> DEFINE made == [size |-> k.v.capacity, option |-> k.v.option]
  <2>1. /\ k.pc = "zfs" /\ zvol' = IF zvol.size > 0 THEN zvol ELSE made
        /\ UNCHANGED <<row, device, fs, lock, told, asked, faults>>
        /\ Goto(c, "commit") /\ (zvol.size > 0 \/ k.v.capacity > 0)
    BY <1>13 DEF EnsureZvol, Succeeds
  <2>2. k.v.capacity > 0 => made \in Zvol /\ made.size = k.v.capacity
    BY <1>2 DEF Zvol
  <2> HIDE DEF made
  <2>3. k.pc \in Handling /\ k.v.capacity = row.capacity
    BY <1>4, <2>1 DEF Handling
  <2>4. /\ zvol' \in Zvol /\ zvol'.size \in Nat /\ zvol'.size > 0
        /\ zvol.size <= zvol'.size
        /\ "less" \notin asked => zvol'.size <= row.capacity
    BY <1>2, <1>3, <2>1, <2>2, <2>3
  <2>5. Standing' /\ ("less" \notin asked => fs' <= zvol'.size /\ device' <= zvol'.size)
    BY <1>2, <1>3, <2>1, <2>4 DEF Standing
  <2>6. QED
    BY <1>2, <1>7, <2>1, <2>3, <2>4, <2>5
<1>14. CASE Login(c) \/ Logout(c)
  <2>1. /\ k.pc \in {"login", "logout"} /\ device' \in {zvol.size, 0}
        /\ UNCHANGED <<row, zvol, fs, lock, told, asked, faults>>
        /\ Goto(c, "commit")
    BY <1>14 DEF Login, Logout
  <2>2. device' \in Sizes /\ device' <= zvol.size /\ k.pc \in Handling /\ Standing'
    BY <1>1, <1>2, <2>1, SizeAssumption DEF Zvol, Sizes, Handling, Standing
  <2>3. QED
    BY <1>2, <1>3, <1>7, <2>1, <2>2
<1>15. CASE EnsureFilesystem(c)
  <2>1. /\ k.pc = "mkfs" /\ fs' \in {fs, device}
        /\ UNCHANGED <<row, zvol, device, lock, told, asked, faults>>
        /\ Goto(c, "commit")
    BY <1>15 DEF EnsureFilesystem
  <2>2. k.pc \in Handling /\ Standing'
    BY <1>1, <2>1 DEF Handling, Standing
  <2>3. QED
    BY <1>2, <1>3, <1>7, <2>1, <2>2
<1>16. QED
  BY <1>8, <1>9, <1>10, <1>11, <1>12, <1>13, <1>14, <1>15

(* A call that ends without an answer, by an error, a lost command or a crash. *)
LEMMA EndStep ==
  ASSUME SizeInv, OneCall, (\E c \in Calls : Fail(c) \/ Lose(c)) \/ Crash
  PROVE  SizeInv' /\ zvol'.size >= zvol.size
<1>1. TypeOK /\ Standing /\ ("less" \notin asked => Covered)
  BY DEF SizeInv
<1>2. /\ UNCHANGED <<row, zvol, device, fs, told, asked>> /\ zvol.size \in Nat
      /\ faults' \in 0 .. MaxFaults /\ lock' \in Calls \cup {NoCall}
  BY <1>1, SizeAssumption, BoundAssumption
     DEF TypeOK, Zvol, Sizes, Fail, Lose, Crash, Released, hosts
<1>3. /\ call' \in [Calls -> Call]
      /\ \A d \in Calls : call'[d].pc = "idle"
  <2>1. ASSUME NEW c \in Calls, Goto(c, "idle")
        PROVE  /\ call' \in [Calls -> Call]
               /\ \A d \in Calls : call'[d].pc = "idle"
    BY <1>1, <2>1, GoneTo, "idle" \in Steps DEF OneCall, Steps
  <2>2. CASE Crash
    BY <2>2, IdleCall DEF Crash
  <2>3. QED
    BY <2>1, <2>2 DEF Fail, Lose
<1>4. TypeOK'
  BY <1>1, <1>2, <1>3 DEF TypeOK
<1>5. Standing' /\ ("less" \notin asked => Covered') /\ \A c \in Calls : SizeHeld(c)' /\ SizeGrows(c)'
  BY <1>1, <1>2, <1>3 DEF Standing, Covered, SizeHeld, SizeGrows
<1>6. QED
  BY <1>2, <1>4, <1>5 DEF SizeInv

(* A call becomes k, with what it holds of the size. *)
LEMMA CallStep ==
  ASSUME SizeInv, OneCall, NEW c \in Calls, NEW k \in Call,
         call' = [call EXCEPT ![c] = k], UNCHANGED <<row, hosts, lock, told, faults>>,
         asked \subseteq asked', asked' \subseteq Unusual,
         k.pc # "idle" => row.rung # NONE,
         k.pc \notin {"idle", "ask"} => k.v.rung # NONE,
         k.pc \notin {"idle", "ask", "write"} => k.v.capacity = row.capacity,
         k.op # "Update" =>
           /\ k.pc = "ask" => "capacity" \notin k.named \/ k.capacity # 0
           /\ k.pc = "write" => k.v.capacity = row.capacity \/ k.v.capacity # 0,
         "less" \notin asked' =>
           /\ k.pc = "ask" => \/ "capacity" \notin k.named
                              \/ k.capacity >= row.capacity
                              \/ k.op = "Update" /\ k.capacity = 0
           /\ k.pc = "write" => \/ k.v.capacity >= row.capacity
                                \/ k.op = "Update" /\ k.v.capacity = 0
  PROVE  SizeInv' /\ (zvol'.size >= zvol.size)
<1>1. /\ call' \in [Calls -> Call] /\ call'[c] = k /\ zvol.size \in Nat
      /\ UNCHANGED <<row, zvol, device, fs>>
  BY SizeAssumption DEF SizeInv, TypeOK, hosts, Zvol, Sizes
<1>2. TypeOK' /\ Standing' /\ ("less" \notin asked' => Covered')
  BY <1>1 DEF SizeInv, TypeOK, Standing, Covered
<1>3. SizeHeld(c)' /\ ("less" \notin asked' => SizeGrows(c)')
  BY <1>1 DEF SizeHeld, SizeGrows
<1>4. QED
  BY <1>1, <1>2, <1>3 DEF SizeInv, OneCall

(* What a client and the plugin ask for. *)
Requests(c) ==
  \/ \E required \in Sizes \ {0} : ControllerExpandVolume(c, required)
  \/ \E option \in Options \cup {NoOption} :
       \/ ControllerModifyVolume(c, option)
       \/ \E named \in SUBSET Fields, capacity \in Capacities :
            UpdateVolume(c, named, capacity, option)

(* The steps before a write. *)
LEMMA RequestStep ==
  ASSUME SizeInv, OneCall, NEW c \in Calls,
         Requests(c) \/ (\E op \in Handlers : Handle(c, op)) \/ ReadRow(c)
  PROVE  SizeInv' /\ zvol'.size >= zvol.size
<1>1. /\ row \in Row /\ row.capacity \in Int /\ row.capacity \in Capacities /\ call[c] \in Call
      /\ \A size \in Capacities : size \in Int
      /\ \A size \in Sizes : size \in Capacities
      /\ asked \subseteq Unusual
  BY SizeAssumption DEF SizeInv, TypeOK, Row, Sizes, Capacities
<1>2. ASSUME NEW op \in {"Expand", "Modify", "Update"}, NEW named \in SUBSET Fields,
             NEW capacity \in Capacities, NEW option \in Options \cup {NoOption},
             Ask(c, op, named, capacity, option),
             asked \subseteq asked', asked' \subseteq Unusual,
             op # "Update" => "capacity" \notin named \/ capacity # 0,
             "less" \notin asked' => \/ "capacity" \notin named
                                     \/ capacity >= row.capacity
                                     \/ op = "Update" /\ capacity = 0
      PROVE  SizeInv' /\ zvol'.size >= zvol.size
  <2> DEFINE k == [Idle EXCEPT !.op = op, !.pc = "ask", !.named = named, !.capacity = capacity,
                               !.option = option]
  <2>1. /\ k \in Call /\ k.pc = "ask" /\ k.capacity = capacity /\ k.named = named /\ k.op = op
    BY IdleCall DEF Call, Steps
  <2>2. /\ call' = [call EXCEPT ![c] = k] /\ UNCHANGED <<row, hosts, lock, told, faults>>
        /\ row.rung # NONE
    BY <1>2 DEF Ask
  <2> HIDE DEF k
  <2>3. QED
    BY <1>1, <1>2, <2>1, <2>2, CallStep
<1>3. ASSUME NEW required \in Sizes \ {0}, ControllerExpandVolume(c, required)
      PROVE  SizeInv' /\ zvol'.size >= zvol.size
  <2>1. /\ row.capacity < required /\ Ask(c, "Expand", {"capacity"}, required, NoOption)
        /\ asked' = asked
    BY <1>3 DEF ControllerExpandVolume
  <2>2. /\ required >= row.capacity /\ required # 0 /\ required \in Capacities
        /\ {"capacity"} \in SUBSET Fields /\ NoOption \in Options \cup {NoOption}
    BY <1>1, <2>1 DEF Fields
  <2>3. QED
    BY <1>1, <1>2, <2>1, <2>2
<1>4. ASSUME NEW option \in Options \cup {NoOption}, ControllerModifyVolume(c, option)
      PROVE  SizeInv' /\ zvol'.size >= zvol.size
  <2>1. Ask(c, "Modify", {"option"}, 0, option) /\ asked' = asked
    BY <1>4 DEF ControllerModifyVolume
  <2>2. 0 \in Capacities /\ {"option"} \in SUBSET Fields /\ "capacity" \notin {"option"}
    BY SizeAssumption DEF Capacities, Fields
  <2>3. QED
    BY <1>1, <1>2, <2>1, <2>2
<1>5. ASSUME NEW named \in SUBSET Fields, NEW capacity \in Capacities,
             NEW option \in Options \cup {NoOption}, UpdateVolume(c, named, capacity, option)
      PROVE  SizeInv' /\ zvol'.size >= zvol.size
  <2>1. /\ Ask(c, "Update", named, capacity, option)
        /\ asked \subseteq asked' /\ asked' \subseteq Unusual
    BY <1>1, <1>5 DEF UpdateVolume
  <2>2. "capacity" \in named /\ capacity # 0 /\ capacity < row.capacity => "less" \in asked'
    BY <1>5 DEF UpdateVolume, Unusual
  <2>3. "less" \notin asked' => \/ "capacity" \notin named
                                \/ capacity >= row.capacity
                                \/ "Update" = "Update" /\ capacity = 0
    <3>1. capacity \in Int /\ row.capacity \in Int
      BY <1>1
    <3> QED
      BY <2>2, <3>1
  <2>4. QED
    BY <1>2, <2>1, <2>3
<1>6. ASSUME NEW op \in Handlers, Handle(c, op)
      PROVE  SizeInv' /\ zvol'.size >= zvol.size
  <2> DEFINE rung == To(op)
             server == op # "Unpublish"
             details == CASE op = "Publish"   -> TRUE
                          [] op = "Unpublish" -> FALSE
                          [] OTHER            -> row.details
             w == [row EXCEPT !.rung = rung, !.server = server, !.details = details]
             k == [Idle EXCEPT !.op = op, !.pc = "begin", !.v = w]
  <2>1. /\ call' = [call EXCEPT ![c] = k] /\ UNCHANGED <<row, hosts, lock, told, faults>>
        /\ asked' = asked
    BY <1>6, Zenon DEF Handle
  <2>2. op \in AllHandlers /\ rung \in NONE .. STAGED /\ rung # NONE /\ row.rung # NONE
    BY <1>6, HandlersAssumption, Rungs DEF Handle
  <2>3. w \in Row /\ w.rung # NONE /\ w.capacity = row.capacity
    <3>1. server \in BOOLEAN /\ details \in BOOLEAN
      BY <1>1 DEF Row
    <3> HIDE DEF rung, server, details
    <3>2. QED
      BY <1>1, <2>2, <3>1 DEF Row
  <2> HIDE DEF w
  <2>4. k \in Call /\ k.pc = "begin" /\ k.v = w
    BY <2>2, <2>3, IdleCall DEF Call, Steps
  <2> HIDE DEF k
  <2>5. QED
    BY <1>1, <2>1, <2>2, <2>3, <2>4, CallStep
<1>7. CASE ReadRow(c)
  <2> DEFINE r == call[c]
             w == Converted(applyVolumeUpdate(row, r.named, r.capacity, r.option))
             k == [r EXCEPT !.pc = "write", !.v = w]
  <2>1. /\ r.named \in SUBSET Fields /\ r.capacity \in Capacities
        /\ r.option \in Options \cup {NoOption}
    BY <1>1 DEF Call
  <2>2. w = Converted(applyVolumeUpdate(row, r.named, r.capacity, r.option))
    OBVIOUS
  <2> HIDE DEF w
  <2>3. /\ w \in Row /\ w.rung = row.rung
        /\ "capacity" \in r.named => w.capacity = r.capacity
        /\ "capacity" \notin r.named => w.capacity = row.capacity
    BY <1>1, <2>1, <2>2, AppliedRow
  <2>4. /\ row.rung # NONE
        /\ r.op # "Update" => "capacity" \notin r.named \/ r.capacity # 0
        /\ "less" \notin asked => \/ "capacity" \notin r.named
                                  \/ r.capacity >= row.capacity
                                  \/ r.op = "Update" /\ r.capacity = 0
    BY <1>7 DEF ReadRow, SizeInv, SizeHeld, SizeGrows
  <2>5. /\ call' = [call EXCEPT ![c] = k] /\ UNCHANGED <<row, hosts, lock, told, faults>>
        /\ asked' = asked
    BY <1>7, <2>2 DEF ReadRow
  <2>6. k \in Call /\ k.pc = "write" /\ k.v = w /\ k.op = r.op
    BY <1>1, <2>3 DEF Call, Steps
  <2> HIDE DEF k
  <2>7. "less" \notin asked => \/ w.capacity >= row.capacity
                               \/ r.op = "Update" /\ w.capacity = 0
    BY <1>1, <2>3, <2>4
  <2>8. QED
    BY <1>1, <2>3, <2>4, <2>5, <2>6, <2>7, CallStep
<1>8. QED
  BY <1>3, <1>4, <1>5, <1>6, <1>7 DEF Requests

(* The write of an update, unless a client has asked for less, raises the row's
   size if it changes it; the write of another handler puts back what is there. *)
LEMMA WriteStep ==
  ASSUME SizeInv, OneCall, NEW c \in Calls, WriteRow(c) \/ Commit(c)
  PROVE  SizeInv' /\ zvol'.size >= zvol.size
<1> DEFINE k == call[c]
<1>1. /\ TypeOK /\ Standing /\ SizeHeld(c) /\ row \in Row /\ k \in Call /\ k.v \in Row
      /\ row.capacity \in Int /\ k.v.capacity \in Int /\ k.v.rung # NONE /\ row.rung # NONE
      /\ zvol.size \in Nat /\ told.size \in Int /\ device \in Nat /\ fs \in Nat
      /\ "less" \notin asked => Covered /\ SizeGrows(c)
  BY SizeAssumption
     DEF SizeInv, TypeOK, Call, Row, Zvol, Told, Sizes, Capacities, SizeHeld, WriteRow, Commit
<1>2. /\ row' = Updates(row, k.v) /\ row' \in Row /\ row'.rung # NONE
      /\ row'.capacity = IF k.v.capacity = 0 THEN row.capacity ELSE k.v.capacity
  BY <1>1, UpdatesRow DEF WriteRow, Commit
<1>3. k.pc = "commit" => k.v.capacity = row.capacity
  BY <1>1 DEF SizeHeld, Handling
<1>4. "less" \notin asked => k.v.capacity >= row.capacity \/ (k.op = "Update" /\ k.v.capacity = 0)
  BY <1>1, <1>3 DEF SizeGrows, WriteRow, Commit
<1>5. /\ UNCHANGED <<zvol, device, fs, asked, faults>> /\ lock' \in Calls \cup {NoCall}
      /\ \E pc \in {"idle"} \cup Updating :
            /\ Goto(c, pc)
            /\ (pc = "idle" /\ told' = told) \/ (Answer(c, pc) /\ k.pc = "write")
  <2>1. CASE WriteRow(c)
    BY <1>1, <2>1 DEF WriteRow, hosts, TypeOK, AfterZvol, Updating
  <2>2. CASE Commit(c)
    <3>1. /\ UNCHANGED <<zvol, device, fs, told, asked, faults>> /\ Goto(c, "idle")
          /\ lock' \in {lock, NoCall}
      BY <2>2 DEF Commit, hosts, Released
    <3>2. QED
      BY <1>1, <3>1 DEF TypeOK
  <2>3. QED
    BY <2>1, <2>2
<1>6. PICK pc \in {"idle"} \cup Updating :
        /\ Goto(c, pc)
        /\ (pc = "idle" /\ told' = told) \/ (Answer(c, pc) /\ k.pc = "write")
  BY <1>5
<1>7. pc \in Steps /\ pc \notin {"ask", "write"} /\ pc \notin Handling
  BY DEF Updating, Handling, Steps
<1>8. /\ told' \in Told
      /\ told'.size = told.size \/ (k.op = "Expand" /\ told'.size = k.v.capacity)
  BY <1>1, <1>6, <1>7, Answered DEF TypeOK
<1>9. /\ call' \in [Calls -> Call] /\ call'[c].pc = pc
      /\ pc # "idle" => call'[c].v = k.v /\ call'[c].op = k.op
  BY <1>1, <1>6, <1>7, GoneTo
<1>10. TypeOK' /\ Standing'
  BY <1>1, <1>2, <1>5, <1>8, <1>9 DEF TypeOK, Standing
<1>11. "less" \notin asked => row'.capacity >= row.capacity
  BY <1>1, <1>2, <1>4
<1>12. "less" \notin asked => Covered'
  <2> SUFFICES ASSUME "less" \notin asked
               PROVE  Covered'
    OBVIOUS
  <2>1. /\ fs <= zvol.size /\ device <= zvol.size /\ zvol.size <= row.capacity
        /\ told.size <= row.capacity
    BY <1>1 DEF Covered
  <2>2. row'.capacity \in Int
    BY <1>1, <1>2
  <2>3. told'.size <= row'.capacity
    BY <1>1, <1>2, <1>4, <1>8, <1>11, <2>1, <2>2
  <2>4. QED
    BY <1>1, <1>2, <1>5, <1>11, <2>1, <2>2, <2>3 DEF Covered
<1>13. SizeHeld(c)' /\ SizeGrows(c)'
  <2>1. pc # "idle" => \/ k.v.capacity = row'.capacity
                       \/ k.v.capacity = 0 /\ k.op = "Update"
    BY <1>1, <1>2, <1>6 DEF SizeHeld
  <2>2. QED
    BY <1>1, <1>2, <1>7, <1>9, <2>1 DEF SizeHeld, SizeGrows
<1>14. QED
  BY <1>1, <1>5, <1>10, <1>12, <1>13 DEF SizeInv, OneCall

(* The steps that are no call's. *)
LEMMA ClientStep ==
  ASSUME SizeInv,
         \/ \E mode \in {"BLOCK", "FILESYSTEM"}, size \in Sizes, server \in BOOLEAN :
               CreateVolume(mode, size, server)
         \/ \E required \in Sizes \ {0} : AlreadyLargeEnough(required)
         \/ NodeExpandVolume
  PROVE  SizeInv' /\ zvol'.size >= zvol.size
<1>1. /\ TypeOK /\ Standing /\ row \in Row /\ row.capacity \in Capacities
      /\ row.capacity \in Int /\ zvol.size \in Nat /\ told \in Told /\ told.size \in Int
      /\ "less" \notin asked => Covered
  BY SizeAssumption DEF SizeInv, TypeOK, Row, Zvol, Told, Sizes, Capacities
<1>2. ASSUME NEW mode \in {"BLOCK", "FILESYSTEM"}, NEW size \in Sizes, NEW server \in BOOLEAN,
             CreateVolume(mode, size, server)
      PROVE  SizeInv' /\ zvol'.size >= zvol.size
  <2> DEFINE r == [NoRow EXCEPT !.rung = INITIAL, !.mode = mode, !.capacity = size,
                                !.server = server]
  <2>1. /\ INITIAL \in NONE .. STAGED /\ INITIAL # NONE /\ size \in Capacities
        /\ size \in Nat
    BY SizeAssumption DEF INITIAL, NONE, STAGED, Sizes, Capacities
  <2>2. r \in Row /\ r.rung = INITIAL /\ r.capacity = size
    BY <2>1, IdleCall DEF Row
  <2>3. /\ row' = r /\ UNCHANGED <<zvol, device, fs, lock, call, told, asked, faults>>
        /\ row.rung = NONE
    BY <1>2 DEF CreateVolume, hosts
  <2> HIDE DEF r
  <2>4. TypeOK' /\ Standing'
    BY <1>1, <2>2, <2>3 DEF TypeOK, Standing
  <2>5. "less" \notin asked => Covered'
    <3> SUFFICES ASSUME "less" \notin asked
                 PROVE  Covered'
      OBVIOUS
    <3>1. /\ fs <= zvol.size /\ device <= zvol.size
          /\ zvol.size <= 0 /\ told.size <= 0
      BY <1>1, <2>3 DEF Covered
    <3> QED
      BY <1>1, <2>1, <2>2, <2>3, <3>1 DEF Covered
  <2>6. \A c \in Calls : SizeHeld(c)' /\ SizeGrows(c)'
    BY <2>3 DEF SizeInv, SizeHeld, SizeGrows
  <2>7. QED
    BY <1>1, <2>3, <2>4, <2>5, <2>6 DEF SizeInv
<1>3. ASSUME told' \in Told, told'.size \in {told.size, row.capacity},
             UNCHANGED <<row, hosts, lock, call, asked, faults>>
      PROVE  SizeInv' /\ zvol'.size >= zvol.size
  <2>1. UNCHANGED <<row, zvol, device, fs, lock, call, asked, faults>>
    BY <1>3 DEF hosts
  <2>2. TypeOK' /\ Standing' /\ ("less" \notin asked => Covered')
    BY <1>1, <1>3, <2>1 DEF TypeOK, Standing, Covered
  <2>3. \A c \in Calls : SizeHeld(c)' /\ ("less" \notin asked => SizeGrows(c)')
    BY <2>1 DEF SizeInv, SizeHeld, SizeGrows
  <2>4. QED
    BY <1>1, <2>1, <2>2, <2>3 DEF SizeInv
<1>4. ASSUME NEW required \in Sizes \ {0}, AlreadyLargeEnough(required)
      PROVE  SizeInv' /\ zvol'.size >= zvol.size
  <2>1. /\ told' = [size |-> row.capacity, online |-> FALSE, node |-> 0] /\ 0 \in Capacities
    BY <1>4, SizeAssumption DEF AlreadyLargeEnough, Capacities
  <2>2. told' \in Told /\ told'.size = row.capacity
    BY <1>1, <2>1 DEF Told
  <2>3. QED
    BY <1>3, <1>4, <2>2 DEF AlreadyLargeEnough
<1>5. CASE NodeExpandVolume
  <2>1. told' \in Told /\ told'.size = told.size
    BY <1>1, <1>5 DEF NodeExpandVolume, Told
  <2>2. QED
    BY <1>3, <1>5, <2>1 DEF NodeExpandVolume
<1>6. QED
  BY <1>2, <1>4, <1>5

-----------------------------------------------------------------------------
LEMMA SizeStep ==
  ASSUME SizeInv, OneCall, [Next]_vars
  PROVE  SizeInv' /\ (zvol'.size >= zvol.size \/ "less" \in asked)
<1>1. CASE UNCHANGED vars
  <2>1. zvol.size \in Nat
    BY SizeAssumption DEF SizeInv, TypeOK, Zvol, Sizes
  <2>2. SizeInv'
    BY <1>1 DEF vars, SizeInv, TypeOK, Standing, Covered, SizeHeld, SizeGrows
  <2>3. QED
    BY <1>1, <2>1, <2>2 DEF vars
<1>2. ASSUME NEW c \in Calls, Requests(c) \/ (\E op \in Handlers : Handle(c, op)) \/ ReadRow(c)
      PROVE  SizeInv' /\ zvol'.size >= zvol.size
  BY <1>2, RequestStep
<1>3. CASE Next
  <2>1. ASSUME NEW c \in Calls, Progress(c), ~ReadRow(c), ~Fail(c)
        PROVE  SizeInv' /\ (zvol'.size >= zvol.size \/ "less" \in asked)
    <3>1. CASE WriteRow(c) \/ Commit(c)
      BY <3>1, WriteStep
    <3>2. CASE \/ SetVolsize(c) \/ SetOption(c) \/ RescanTarget(c) \/ Resize(c)
               \/ Begin(c) \/ EnsureZvol(c) \/ Login(c) \/ EnsureFilesystem(c) \/ Logout(c)
      BY <3>2, CommandStep
    <3> QED
      BY <2>1, <3>1, <3>2 DEF Progress
  <2>2. CASE Crash \/ \E c \in Calls : Fail(c) \/ Lose(c)
    BY <2>2, EndStep
  <2>3. CASE \/ \E mode \in {"BLOCK", "FILESYSTEM"}, size \in Sizes, server \in BOOLEAN :
                  CreateVolume(mode, size, server)
             \/ \E required \in Sizes \ {0} : AlreadyLargeEnough(required)
             \/ NodeExpandVolume
    BY <2>3, ClientStep
  <2> QED
    BY <1>2, <1>3, <2>1, <2>2, <2>3 DEF Next, Requests
<1>4. QED
  BY <1>1, <1>3

(* With calls one at a time, until a client asks for less than the row says, the
   row covers the zvol and the zvol what is on it; and every call under way holds
   the size as it should, whatever is lost and however often the control plane
   crashes (UpdateVolume, ControllerExpandVolume). *)
THEOREM SizeInvariant == OneCall /\ Spec => []SizeInv
<1> SUFFICES ASSUME OneCall
             PROVE  Spec => []SizeInv
  OBVIOUS
<1>1. Init => SizeInv
  <2> SUFFICES ASSUME Init
               PROVE  SizeInv
    OBVIOUS
  <2>1. 0 \in Sizes /\ 0 \in Capacities /\ 0 \in 0 .. MaxFaults
    BY SizeAssumption, BoundAssumption DEF Sizes, Capacities
  <2>2. NoZvol \in Zvol /\ NoZvol.size = 0 /\ NoRow.capacity = 0 /\ told \in Told /\ told.size = 0
    BY <2>1 DEF Init, NoZvol, Zvol, NoRow, Told
  <2>3. TypeOK
    BY <2>1, <2>2, IdleCall DEF Init, TypeOK
  <2>4. Covered /\ Standing
    BY <2>2 DEF Init, Covered, Standing
  <2>5. \A c \in Calls : SizeHeld(c) /\ SizeGrows(c)
    BY IdleCall DEF Init, SizeHeld, SizeGrows
  <2>6. QED
    BY <2>3, <2>4, <2>5 DEF SizeInv
<1>2. SizeInv /\ [Next]_vars => SizeInv'
  BY SizeStep
<1>3. QED
  BY <1>1, <1>2, PTL DEF Spec

(* The variables have their types, when calls come one at a time. *)
THEOREM SizesTyped == OneCall /\ Spec => []TypeOK
<1>1. SizeInv => TypeOK
  BY DEF SizeInv
<1>2. QED
  BY <1>1, SizeInvariant, PTL

(* Whatever is lost, the row never promises less than there is, until a client asks
   UpdateVolume, which checks nothing, for less than the row says. *)
THEOREM RowAlwaysCovers == OneCall /\ Spec => []RowCovers
<1>1. SizeInv => RowCovers
  BY DEF SizeInv, Covered, RowCovers
<1>2. QED
  BY <1>1, SizeInvariant, PTL

(* A zvol is made smaller only when a client has asked UpdateVolume for less than
   the row says: neither the plugin's requests nor an update that is repeated, of
   options or of a size, after commands were lost, does it, when calls come one
   at a time. *)
THEOREM ZvolNeverShrinks == OneCall /\ Spec => NeverShrinks
<1> SUFFICES ASSUME OneCall
             PROVE  Spec => NeverShrinks
  OBVIOUS
<1>1. SizeInv /\ [Next]_vars => [zvol'.size >= zvol.size \/ "less" \in asked]_vars
  BY SizeStep
<1>2. Spec => []SizeInv
  BY SizeInvariant
<1>3. QED
  BY <1>1, <1>2, PTL DEF Spec, NeverShrinks

-----------------------------------------------------------------------------
(* The hosts follow the row, as long as nothing fails. *)

(* The hosts are as the row r has them. *)
Settled(r) ==
  /\ zvol.size > 0 => /\ r.server /\ zvol.size = r.capacity
                      /\ r.option \in {NoOption, zvol.option}
  /\ r.rung >= PUBLISHED => zvol.size > 0
  /\ r.rung >= CONNECTED => device = zvol.size

(* Between an update's write and its last command, and between a handler's
   command and its commit, they are not. *)
Resting == \A c \in Calls : call[c].pc \notin Updating \cup {"commit"}

(* What a call knows of the row it has read or written, and how far it has
   brought the hosts. *)
Under(c) ==
  LET k == call[c]
      v == k.v
  IN  /\ k.pc \in {"ask", "write"} \cup Updating => k.op \in {"Expand", "Modify", "Update"}
      /\ k.pc \in {"write"} \cup Updating => v.rung = row.rung /\ v.server = row.server /\ v.mode = row.mode
      /\ k.pc = "ask" => "capacity" \notin k.named \/ (k.capacity > 0 /\ k.op # "Modify")
      /\ k.pc = "write" => v.capacity = row.capacity \/ (v.capacity > 0 /\ k.op # "Modify")
      /\ k.pc \in Updating =>
           /\ v.option = row.option /\ v.capacity = row.capacity /\ row.server
           /\ row.rung >= PUBLISHED => zvol.size > 0
           /\ zvol.size > 0 => row.capacity > 0
           /\ row.rung >= CONNECTED => device > 0
           /\ k.pc # "volsize" => zvol.size > 0 /\ zvol.size = row.capacity
           /\ k.pc = "option" => v.option # NoOption
           /\ k.pc \in {"rescan", "resize"} =>
                row.rung >= CONNECTED /\ row.option \in {NoOption, zvol.option}
           /\ k.pc = "resize" => device = zvol.size /\ row.mode = "FILESYSTEM"
      /\ k.pc \in Handling =>
           /\ k.op \in AllHandlers /\ row.rung \in From(k.op)
           /\ v.rung = To(k.op) /\ v.option = row.option /\ v.mode = row.mode
           /\ v.server = (k.op # "Unpublish")
           /\ k.pc \notin {"begin", "commit"} => k.pc = Command(k.op)
           /\ k.pc = "commit" => Settled(Updates(row, v))

(* A filesystem that was grown online has the size of the row, but while the
   next change of size is under way. *)
Grown ==
  row.mode = "FILESYSTEM" /\ told.online =>
    /\ fs > 0
    /\ (\A c \in Calls : call[c].op # "Modify" => call[c].pc \notin Updating) => fs >= row.capacity

Follows ==
  /\ Resting => Settled(row)
  /\ \A c \in Calls : Under(c)
  /\ Grown
  /\ row.rung = NONE => ~told.online

(* Nothing was lost, and no client has named a size that zfs refuses. *)
Clean == faults = 0 /\ "refused" \notin asked

FollowInv ==
  /\ SizeInv
  /\ row.rung = NONE => ~row.server
  /\ "less" \notin asked => told.node <= row.capacity
  /\ Clean => Follows

LEMMA UpdatesFields ==
  ASSUME NEW old \in Row, NEW v \in Row, old.rung # NONE
  PROVE  /\ Updates(old, v).option = v.option /\ Updates(old, v).mode = v.mode
         /\ Updates(old, v).server <=> (v.server \/ old.server)
BY DEF Updates, Row

(* A call goes on as it was, or is over. *)
LEMMA GoneOn ==
  ASSUME TypeOK, NEW c \in Calls, NEW pc \in Steps, Goto(c, pc)
  PROVE  /\ pc = "idle" => call'[c] = Idle
         /\ pc # "idle" => call'[c] = [call[c] EXCEPT !.pc = pc]
         /\ pc # "idle" => /\ call'[c].pc = pc /\ call'[c].op = call[c].op
                           /\ call'[c].v = call[c].v
<1>1. call \in [Calls -> Call] /\ call[c] \in Call
  BY DEF TypeOK
<1> QED
  BY <1>1 DEF Goto, Call

LEMMA FollowTypes ==
  ASSUME FollowInv, NEW c \in Calls
  PROVE  /\ TypeOK /\ SizeHeld(c) /\ Standing /\ ("less" \notin asked => Covered /\ SizeGrows(c))
         /\ row \in Row /\ row.rung \in 0 .. 4 /\ row.capacity \in Int /\ row.server \in BOOLEAN
         /\ zvol \in Zvol /\ zvol.size \in Nat /\ device \in Nat /\ fs \in Nat
         /\ told \in Told /\ told.size \in Int /\ told.node \in Int
         /\ call[c] \in Call /\ call[c].v \in Row /\ call[c].v.rung \in 0 .. 4
         /\ call[c].v.capacity \in Int /\ faults \in Nat
         /\ "less" \notin asked => row.capacity >= 0
<1>1. /\ TypeOK /\ SizeHeld(c) /\ Standing /\ ("less" \notin asked => Covered /\ SizeGrows(c))
  BY DEF FollowInv, SizeInv
<1>2. /\ row \in Row /\ row.rung \in 0 .. 4 /\ row.capacity \in Int /\ row.server \in BOOLEAN
      /\ zvol \in Zvol /\ zvol.size \in Nat /\ device \in Nat /\ fs \in Nat
      /\ told \in Told /\ told.size \in Int /\ told.node \in Int /\ call[c] \in Call /\ faults \in Nat
  BY <1>1, SizeAssumption, BoundAssumption
     DEF TypeOK, Row, Zvol, Told, Sizes, Capacities, NONE, STAGED
<1>3. /\ call[c].v \in Row /\ call[c].v.rung \in 0 .. 4 /\ call[c].v.capacity \in Int
  BY <1>2, SizeAssumption DEF Call, Row, Capacities, NONE, STAGED
<1>4. "less" \notin asked => row.capacity >= 0
  BY <1>1, <1>2 DEF Covered
<1> QED
  BY <1>1, <1>2, <1>3, <1>4

(* A call that holds nothing that others could see: the hosts are as the row
   has them, before and after. *)
LEMMA FollowCall ==
  ASSUME FollowInv, OneCall, SizeInv', NEW c \in Calls,
         UNCHANGED <<row, zvol, device, fs, told, faults>>, asked \subseteq asked',
         call[c].pc \notin Updating \cup {"commit"},
         call'[c].pc \notin Updating \cup {"commit"},
         Clean' => Under(c)'
  PROVE  FollowInv'
<1>1. Resting
  BY DEF Resting, OneCall
<1>2. ASSUME Clean'
      PROVE  Follows'
  <2>1. Clean
    BY <1>2 DEF Clean
  <2>2. Settled(row) /\ Grown /\ (row.rung = NONE => ~told.online) /\ Under(c)'
    BY <1>1, <1>2, <2>1 DEF FollowInv, Follows
  <2>3. Settled(row)' /\ (row.rung = NONE => ~told.online)'
    BY <2>2 DEF Settled
  <2>4. Grown'
    BY <1>1, <2>2 DEF Grown, Resting
  <2>5. \A d \in Calls : Under(d)'
    BY <2>2 DEF OneCall
  <2> QED
    BY <2>3, <2>4, <2>5 DEF Follows
<1> QED
  BY <1>2 DEF FollowInv

LEMMA FollowAsk ==
  ASSUME FollowInv, OneCall, SizeInv', NEW c \in Calls, Requests(c)
  PROVE  FollowInv'
<1>1. ASSUME NEW op \in {"Expand", "Modify", "Update"}, NEW named, NEW capacity, NEW option,
             Ask(c, op, named, capacity, option), asked \subseteq asked',
             Clean' => "capacity" \notin named \/ (capacity > 0 /\ op # "Modify")
      PROVE  FollowInv'
  <2> DEFINE k == [Idle EXCEPT !.op = op, !.pc = "ask", !.named = named, !.capacity = capacity,
                               !.option = option]
  <2>1. k.op = op /\ k.pc = "ask" /\ k.capacity = capacity /\ k.named = named
    BY DEF Idle
  <2>2. /\ call[c].pc = "idle" /\ call' = [call EXCEPT ![c] = k]
        /\ UNCHANGED <<row, zvol, device, fs, told, faults>>
    BY <1>1 DEF Ask, hosts
  <2> HIDE DEF k
  <2>3. call'[c] = k
    BY <2>2, FollowTypes DEF TypeOK
  <2>4. Clean' => Under(c)'
    BY <1>1, <2>1, <2>3 DEF Under, Updating, Handling
  <2> QED
    BY <1>1, <2>1, <2>2, <2>3, <2>4, FollowCall DEF Updating
<1>2. ASSUME NEW required \in Sizes \ {0}, ControllerExpandVolume(c, required)
      PROVE  FollowInv'
  <2>1. Ask(c, "Expand", {"capacity"}, required, NoOption) /\ asked' = asked /\ required > 0
    BY <1>2, SizeAssumption DEF ControllerExpandVolume, Sizes
  <2> QED
    BY <1>1, <2>1
<1>3. ASSUME NEW option \in Options \cup {NoOption}, ControllerModifyVolume(c, option)
      PROVE  FollowInv'
  <2>1. Ask(c, "Modify", {"option"}, 0, option) /\ asked' = asked /\ "capacity" \notin {"option"}
    BY <1>3 DEF ControllerModifyVolume
  <2> QED
    BY <1>1, <2>1
<1>4. ASSUME NEW named \in SUBSET Fields, NEW capacity \in Capacities,
             NEW option \in Options \cup {NoOption}, UpdateVolume(c, named, capacity, option)
      PROVE  FollowInv'
  <2>1. Ask(c, "Update", named, capacity, option) /\ asked \subseteq asked'
    BY <1>4 DEF UpdateVolume
  <2>2. "capacity" \in named /\ capacity <= 0 => "refused" \in asked'
    BY <1>4 DEF UpdateVolume, Unusual
  <2>3. capacity \in Int
    BY SizeAssumption DEF Capacities
  <2>4. Clean' => "capacity" \notin named \/ capacity > 0
    BY <2>2, <2>3 DEF Clean
  <2> QED
    BY <1>1, <2>1, <2>4
<1> QED
  BY <1>2, <1>3, <1>4 DEF Requests

LEMMA FollowHandle ==
  ASSUME FollowInv, OneCall, SizeInv', NEW c \in Calls, NEW op \in Handlers, Handle(c, op)
  PROVE  FollowInv'
<1> DEFINE w == [row EXCEPT !.rung = To(op), !.server = (op # "Unpublish"),
                            !.details = CASE op = "Publish"   -> TRUE
                                          [] op = "Unpublish" -> FALSE
                                          [] OTHER            -> @]
           k == [Idle EXCEPT !.op = op, !.pc = "begin", !.v = w]
<1>1. /\ call[c].pc = "idle" /\ row.rung \in From(op) /\ call' = [call EXCEPT ![c] = k]
      /\ UNCHANGED <<row, zvol, device, fs, told, asked, faults>>
  BY DEF Handle, hosts
<1>2. op \in AllHandlers
  BY HandlersAssumption
<1>3. /\ w.rung = To(op) /\ w.option = row.option /\ w.mode = row.mode
      /\ w.server = (op # "Unpublish")
  BY FollowTypes DEF Row
<1> HIDE DEF w
<1>4. k.op = op /\ k.pc = "begin" /\ k.v = w
  BY DEF Idle
<1> HIDE DEF k
<1>5. call'[c] = k
  BY <1>1, FollowTypes DEF TypeOK
<1>6. Under(c)'
  BY <1>1, <1>2, <1>3, <1>4, <1>5 DEF Under, Updating, Handling
<1> QED
  BY <1>1, <1>4, <1>5, <1>6, FollowCall DEF Updating

LEMMA FollowRead ==
  ASSUME FollowInv, OneCall, SizeInv', NEW c \in Calls, ReadRow(c)
  PROVE  FollowInv'
<1> DEFINE r == call[c]
           w == Converted(applyVolumeUpdate(row, r.named, r.capacity, r.option))
           k == [r EXCEPT !.pc = "write", !.v = w]
<1>1. /\ r.pc = "ask" /\ call' = [call EXCEPT ![c] = k]
      /\ UNCHANGED <<row, zvol, device, fs, told, asked, faults>>
  BY DEF ReadRow, hosts
<1>2. call \in [Calls -> Call] /\ row \in Row /\ r \in Call
  BY FollowTypes DEF TypeOK
<1>3. /\ w.rung = row.rung /\ w.server = row.server /\ w.mode = row.mode
      /\ "capacity" \notin r.named => w.capacity = row.capacity
      /\ "capacity" \in r.named => w.capacity = r.capacity
  BY <1>2 DEF Converted, applyVolumeUpdate, Row
<1> HIDE DEF w
<1>4. k.op = r.op /\ k.pc = "write" /\ k.v = w
  BY <1>2 DEF Call
<1> HIDE DEF k
<1>5. call'[c] = k
  BY <1>1, <1>2
<1>6. Clean' => Under(c)'
  <2> SUFFICES ASSUME Clean'
               PROVE  Under(c)'
    OBVIOUS
  <2>1. Clean
    BY <1>1 DEF Clean
  <2>2. /\ r.op \in {"Expand", "Modify", "Update"}
        /\ "capacity" \notin r.named \/ (r.capacity > 0 /\ r.op # "Modify")
    BY <1>1, <2>1 DEF FollowInv, Follows, Under
  <2> QED
    BY <1>1, <1>3, <1>4, <1>5, <2>2 DEF Under, Updating, Handling
<1> QED
  BY <1>1, <1>4, <1>5, <1>6, FollowCall DEF Updating

(* What an answer says of the client. *)
LEMMA Online ==
  ASSUME TypeOK, NEW c \in Calls, NEW pc \in Steps, Answer(c, pc)
  PROVE  /\ told'.node \in {told.node, 0}
         /\ pc # "idle" \/ call[c].op \notin {"Expand", "Update"} => told' = told
         /\ pc = "idle" /\ call[c].op \in {"Expand", "Update"} =>
              (told'.online => call[c].v.rung >= CONNECTED)
<1> DEFINE online == call[c].v.rung >= CONNECTED
<1>1. told \in Told
  BY DEF TypeOK
<1>2. pc # "idle" \/ call[c].op \notin {"Expand", "Update"} => told' = told
  BY DEF Answer
<1>3. pc = "idle" /\ call[c].op = "Expand" => told'.node = 0 /\ told'.online = online
  BY DEF Answer
<1>4. pc = "idle" /\ call[c].op = "Update" =>
        told'.node = told.node /\ told'.online = (told.online /\ online)
  BY <1>1 DEF Answer, Told
<1> QED
  BY <1>2, <1>3, <1>4

(* The write of an update, and its commands. *)
LEMMA FollowWrite ==
  ASSUME FollowInv, OneCall, SizeInv', NEW c \in Calls, WriteRow(c)
  PROVE  FollowInv'
<1> DEFINE k == call[c]
           v == k.v
           next == IF v.server THEN "volsize" ELSE AfterZvol(v)
<1>1. /\ k.pc = "write" /\ row' = Updates(row, v) /\ Goto(c, next) /\ Answer(c, next)
      /\ UNCHANGED <<zvol, device, fs, lock, asked, faults>>
  BY DEF WriteRow, hosts
<1>2. row.rung # NONE /\ v.rung # NONE
  BY <1>1, FollowTypes DEF SizeHeld
<1>3. /\ row'.rung = v.rung
      /\ v.capacity = 0 => row'.capacity = row.capacity
      /\ v.capacity # 0 => row'.capacity = v.capacity
      /\ row'.option = v.option /\ row'.mode = v.mode
      /\ row'.server <=> (v.server \/ row.server)
  <2>1. row \in Row /\ v \in Row
    BY <1>2, FollowTypes
  <2>2. /\ Updates(row, v).rung = v.rung
        /\ Updates(row, v).capacity = IF v.capacity = 0 THEN row.capacity ELSE v.capacity
    BY <1>2, <2>1, UpdatesRow
  <2>3. /\ Updates(row, v).option = v.option /\ Updates(row, v).mode = v.mode
        /\ Updates(row, v).server <=> (v.server \/ row.server)
    BY <1>2, <2>1, UpdatesFields
  <2> QED
    BY <1>1, <2>2, <2>3
<1>4. Resting
  BY <1>1 DEF Resting, OneCall, Updating
<1>5. next \in Steps
  BY DEF AfterZvol, Steps
<1>6. /\ told'.node \in {told.node, 0}
      /\ next # "idle" \/ k.op \notin {"Expand", "Update"} => told' = told
      /\ next = "idle" /\ k.op \in {"Expand", "Update"} => (told'.online => v.rung >= CONNECTED)
  BY <1>1, <1>5, FollowTypes, Online
<1>7. "less" \notin asked' => told'.node <= row'.capacity
  <2> SUFFICES ASSUME "less" \notin asked
               PROVE  told'.node <= row'.capacity
    BY <1>1
  <2>1. told.node <= row.capacity /\ row.capacity >= 0
    BY FollowTypes DEF FollowInv
  <2>2. v.capacity >= row.capacity \/ v.capacity = 0
    BY <1>1, FollowTypes DEF SizeGrows
  <2>3. row'.capacity \in Int /\ row'.capacity >= row.capacity
    BY <1>3, <2>2, FollowTypes
  <2> QED
    BY <1>6, <2>1, <2>3, FollowTypes
<1>8. ASSUME Clean'
      PROVE  Follows'
  <2>1. /\ Settled(row) /\ Grown /\ Under(c)
    BY <1>1, <1>4, <1>8 DEF FollowInv, Follows, Clean
  <2>2. /\ k.op \in {"Expand", "Modify", "Update"} /\ v.rung = row.rung /\ v.server = row.server
        /\ v.mode = row.mode
        /\ v.capacity = row.capacity \/ (v.capacity > 0 /\ k.op # "Modify")
    BY <1>1, <2>1 DEF Under
  <2>3. row.mode = "FILESYSTEM" /\ told.online => fs > 0 /\ fs >= row.capacity
    BY <1>4, <2>1 DEF Grown, Resting
  <2>4. CASE v.server
    <3>1. next = "volsize"
      BY <2>4
    <3>2. call'[c].pc = "volsize" /\ call'[c].op = k.op /\ call'[c].v = v
      BY <1>1, <1>5, <3>1, FollowTypes, GoneOn
    <3>3. told' = told
      BY <1>6, <3>1
    <3>4. /\ v.capacity = row'.capacity
          /\ zvol.size > 0 => row'.capacity > 0
          /\ row'.rung >= PUBLISHED => zvol.size > 0
          /\ row'.rung >= CONNECTED => device > 0
      BY <1>3, <2>1, <2>2, FollowTypes DEF Settled, PUBLISHED, CONNECTED
    <3>5. Under(c)'
      BY <1>1, <1>3, <2>2, <2>4, <3>2, <3>4 DEF Under, Updating, Handling
    <3>6. ~Resting'
      BY <3>2 DEF Resting, Updating
    <3>7. k.op = "Modify" => row'.capacity = row.capacity
      BY <1>3, <2>2
    <3>8. Grown'
      <4>1. CASE k.op # "Modify"
        BY <1>1, <1>3, <2>2, <2>3, <3>2, <3>3, <4>1 DEF Grown, Updating
      <4>2. CASE k.op = "Modify"
        BY <1>1, <1>3, <2>2, <2>3, <3>2, <3>3, <3>7, <4>2 DEF Grown, Updating
      <4> QED
        BY <4>1, <4>2
    <3> QED
      BY <1>2, <1>3, <3>5, <3>6, <3>8 DEF Follows, OneCall
  <2>5. CASE ~v.server
    <3>1. ~(zvol.size > 0) /\ zvol.size = 0 /\ row.rung < PUBLISHED
      BY <2>1, <2>2, <2>5, FollowTypes DEF Settled, PUBLISHED
    <3>2. next = "idle" /\ ~(v.rung >= CONNECTED)
      BY <2>2, <2>5, <3>1, FollowTypes DEF AfterZvol, PUBLISHED, CONNECTED
    <3>3. call'[c] = Idle
      BY <1>1, <1>5, <3>2, FollowTypes, GoneOn
    <3>4. Under(c)'
      BY <3>3 DEF Under, Idle, Updating, Handling
    <3>5. Settled(row)'
      BY <1>1, <1>3, <2>2, <3>1, FollowTypes DEF Settled, PUBLISHED, CONNECTED
    <3>6. ~(row.mode = "FILESYSTEM" /\ told.online)
      BY <2>3, <3>1, FollowTypes DEF Standing
    <3>7. ~(row'.mode = "FILESYSTEM" /\ told'.online)
      BY <1>3, <1>6, <2>2, <3>2, <3>6
    <3>8. Grown'
      BY <3>7 DEF Grown
    <3> QED
      BY <1>2, <1>3, <3>4, <3>5, <3>8 DEF Follows, OneCall
  <2> QED
    BY <2>4, <2>5
<1> QED
  BY <1>2, <1>3, <1>7, <1>8 DEF FollowInv

(* A command of an update brings the call to pc, or ends it with an answer. *)
LEMMA FollowCommand ==
  ASSUME FollowInv, OneCall, SizeInv', NEW c \in Calls, NEW pc \in {"idle", "option", "rescan", "resize"},
         call[c].pc \in Updating, Goto(c, pc), Answer(c, pc),
         UNCHANGED <<row, asked, faults>>, fs' = fs,
         Clean => /\ pc = "idle" => /\ Settled(row)'
                                    /\ row.mode = "FILESYSTEM" => row.rung < CONNECTED
                  /\ pc # "idle" =>
                       /\ zvol'.size > 0 /\ zvol'.size = row.capacity
                       /\ row.rung >= CONNECTED => device' > 0
                       /\ pc = "option" => call[c].v.option # NoOption
                       /\ pc \in {"rescan", "resize"} =>
                            row.rung >= CONNECTED /\ row.option \in {NoOption, zvol'.option}
                       /\ pc = "resize" => device' = zvol'.size /\ row.mode = "FILESYSTEM"
  PROVE  FollowInv'
<1> DEFINE k == call[c]
<1>1. row.rung # NONE /\ pc \in Steps
  BY FollowTypes DEF SizeHeld, Updating, Steps
<1>2. /\ told'.node \in {told.node, 0}
      /\ pc # "idle" \/ k.op \notin {"Expand", "Update"} => told' = told
      /\ pc = "idle" /\ k.op \in {"Expand", "Update"} => (told'.online => k.v.rung >= CONNECTED)
  BY <1>1, FollowTypes, Online
<1>3. /\ pc = "idle" => call'[c] = Idle
      /\ pc # "idle" => call'[c].pc = pc /\ call'[c].op = k.op /\ call'[c].v = k.v
  BY <1>1, FollowTypes, GoneOn
<1>4. ASSUME Clean'
      PROVE  Follows'
  <2> Clean
    BY <1>4 DEF Clean
  <2>1. Under(c) /\ Grown
    BY DEF FollowInv, Follows
  <2>2. /\ k.op \in {"Expand", "Modify", "Update"} /\ k.v.rung = row.rung /\ k.v.server = row.server
        /\ k.v.mode = row.mode /\ k.v.option = row.option /\ row.server
        /\ k.v.capacity = row.capacity
    BY <2>1 DEF Under
  <2>3. CASE pc = "idle"
    <3>1. Under(c)'
      BY <1>3, <2>3 DEF Under, Idle, Updating, Handling
    <3>2. Settled(row)' /\ (row.mode = "FILESYSTEM" => row.rung < CONNECTED)
      BY <2>3
    <3>3. row.mode = "FILESYSTEM" /\ k.op # "Modify" => ~told'.online
      BY <1>2, <2>2, <2>3, <3>2, FollowTypes DEF CONNECTED
    <3>4. k.op = "Modify" => told' = told
      BY <1>2
    <3>5. k.op = "Modify" /\ row.mode = "FILESYSTEM" /\ told.online => fs > 0 /\ fs >= row.capacity
      BY <2>1 DEF Grown, OneCall
    <3>6. Grown'
      BY <3>3, <3>4, <3>5 DEF Grown
    <3> QED
      BY <1>1, <3>1, <3>2, <3>6 DEF Follows, OneCall
  <2>4. CASE pc # "idle"
    <3>1. /\ zvol'.size > 0 /\ zvol'.size = row.capacity
          /\ row.rung >= CONNECTED => device' > 0
          /\ pc = "option" => k.v.option # NoOption
          /\ pc \in {"rescan", "resize"} =>
               row.rung >= CONNECTED /\ row.option \in {NoOption, zvol'.option}
          /\ pc = "resize" => device' = zvol'.size /\ row.mode = "FILESYSTEM"
      BY <2>4
    <3>2. Under(c)'
      BY <1>3, <2>2, <2>4, <3>1 DEF Under, Updating, Handling
    <3>3. ~Resting'
      BY <1>3, <2>4 DEF Resting, Updating
    <3>4. told' = told
      BY <1>2, <2>4
    <3>5. row.mode = "FILESYSTEM" /\ told.online =>
            fs > 0 /\ (k.op = "Modify" => fs >= row.capacity)
      BY <2>1 DEF Grown, OneCall
    <3>6. call'[c].op = k.op /\ call'[c].pc \in Updating
      BY <1>3, <2>4 DEF Updating
    <3>7. Grown'
      BY <3>4, <3>5, <3>6 DEF Grown
    <3> QED
      BY <1>1, <3>2, <3>3, <3>4, <3>7 DEF Follows, OneCall
  <2> QED
    BY <2>3, <2>4
<1>5. "less" \notin asked' => told'.node <= row'.capacity
  BY <1>2, FollowTypes DEF FollowInv
<1> QED
  BY <1>1, <1>4, <1>5 DEF FollowInv

LEMMA FollowUpdating ==
  ASSUME FollowInv, OneCall, SizeInv', NEW c \in Calls,
         SetVolsize(c) \/ SetOption(c) \/ RescanTarget(c)
  PROVE  FollowInv'
<1> DEFINE k == call[c]
           v == k.v
<1>1. k.pc \in Updating
  BY DEF Updating, SetVolsize, SetOption, RescanTarget
<1>2. Clean =>
        /\ v.rung = row.rung /\ v.mode = row.mode /\ v.option = row.option /\ row.server
        /\ v.capacity = row.capacity
        /\ row.rung >= CONNECTED => device > 0
        /\ k.pc # "volsize" => zvol.size > 0 /\ zvol.size = row.capacity
        /\ k.pc = "option" => v.option # NoOption
        /\ k.pc \in {"rescan", "resize"} =>
             row.rung >= CONNECTED /\ row.option \in {NoOption, zvol.option}
  BY <1>1 DEF FollowInv, Follows, Under
<1>3. row.mode \in {"BLOCK", "FILESYSTEM"}
  BY FollowTypes DEF Row
<1>4. CASE SetVolsize(c)
  <2> DEFINE pc == AfterVolsize(v)
  <2>1. /\ zvol' = [zvol EXCEPT !.size = v.capacity] /\ Goto(c, pc) /\ Answer(c, pc)
        /\ UNCHANGED <<row, device, fs, lock, asked, faults>> /\ v.capacity > 0
    BY <1>4 DEF SetVolsize, Succeeds
  <2>2. /\ zvol'.size = v.capacity /\ zvol'.option = zvol.option
    BY <2>1, FollowTypes DEF Zvol
  <2>3. \/ pc = "option" /\ v.option # NoOption
        \/ pc = "idle" /\ v.option = NoOption /\ v.rung < CONNECTED
        \/ pc = "rescan" /\ v.option = NoOption /\ v.rung >= CONNECTED
    BY FollowTypes DEF AfterVolsize, AfterZvol, CONNECTED
  <2> HIDE DEF pc
  <2>4. Clean /\ pc = "idle" => Settled(row)' /\ row.rung < CONNECTED
    BY <1>2, <2>1, <2>2, <2>3, FollowTypes DEF Settled, CONNECTED
  <2>5. Clean /\ pc # "idle" =>
          /\ zvol'.size > 0 /\ zvol'.size = row.capacity
          /\ row.rung >= CONNECTED => device' > 0
          /\ pc = "option" => v.option # NoOption
          /\ pc = "rescan" => row.rung >= CONNECTED /\ row.option \in {NoOption, zvol'.option}
          /\ pc # "resize"
    BY <1>2, <2>1, <2>2, <2>3
  <2>6. pc \in {"idle", "option", "rescan", "resize"}
    BY <2>3
  <2> QED
    BY <1>1, <2>1, <2>4, <2>5, <2>6, FollowCommand
<1>5. CASE SetOption(c)
  <2> DEFINE pc == AfterZvol(v)
  <2>1. /\ k.pc = "option" /\ zvol' = [zvol EXCEPT !.option = v.option]
        /\ Goto(c, pc) /\ Answer(c, pc)
        /\ UNCHANGED <<row, device, fs, lock, asked, faults>>
    BY <1>5 DEF SetOption
  <2>2. zvol'.size = zvol.size /\ zvol'.option = v.option
    BY <2>1, FollowTypes DEF Zvol
  <2>3. \/ pc = "idle" /\ v.rung < CONNECTED
        \/ pc = "rescan" /\ v.rung >= CONNECTED
    BY FollowTypes DEF AfterZvol, CONNECTED
  <2> HIDE DEF pc
  <2>4. Clean /\ pc = "idle" => Settled(row)' /\ row.rung < CONNECTED
    BY <1>2, <2>1, <2>2, <2>3, FollowTypes DEF Settled, CONNECTED
  <2>5. Clean /\ pc # "idle" =>
          /\ zvol'.size > 0 /\ zvol'.size = row.capacity
          /\ row.rung >= CONNECTED => device' > 0
          /\ pc = "rescan" /\ row.rung >= CONNECTED /\ row.option \in {NoOption, zvol'.option}
    BY <1>2, <2>1, <2>2, <2>3
  <2>6. pc \in {"idle", "option", "rescan", "resize"}
    BY <2>3
  <2> QED
    BY <1>1, <2>1, <2>4, <2>5, <2>6, FollowCommand
<1>6. CASE RescanTarget(c)
  <2> DEFINE pc == AfterRescan(v)
  <2>1. /\ k.pc = "rescan" /\ device' = zvol.size
        /\ Goto(c, pc) /\ Answer(c, pc)
        /\ UNCHANGED <<row, zvol, fs, lock, asked, faults>>
    BY <1>6 DEF RescanTarget
  <2>2. \/ pc = "idle" /\ v.mode # "FILESYSTEM"
        \/ pc = "resize" /\ v.mode = "FILESYSTEM"
    BY DEF AfterRescan
  <2> HIDE DEF pc
  <2>3. Clean /\ pc = "idle" => Settled(row)' /\ row.mode # "FILESYSTEM"
    BY <1>2, <2>1, <2>2, FollowTypes DEF Settled, CONNECTED
  <2>4. Clean /\ pc # "idle" =>
          /\ zvol'.size > 0 /\ zvol'.size = row.capacity /\ device' > 0
          /\ pc = "resize" /\ row.rung >= CONNECTED /\ row.option \in {NoOption, zvol'.option}
          /\ device' = zvol'.size /\ row.mode = "FILESYSTEM"
    BY <1>2, <2>1, <2>2
  <2>5. pc \in {"idle", "option", "rescan", "resize"}
    BY <2>2
  <2> QED
    BY <1>1, <2>1, <2>3, <2>4, <2>5, FollowCommand
<1> QED
  BY <1>4, <1>5, <1>6

LEMMA FollowResize ==
  ASSUME FollowInv, OneCall, SizeInv', NEW c \in Calls, Resize(c)
  PROVE  FollowInv'
<1> DEFINE k == call[c]
<1>1. /\ k.pc = "resize" /\ fs' = device /\ Goto(c, "idle") /\ Answer(c, "idle")
      /\ UNCHANGED <<row, zvol, device, lock, asked, faults>>
  BY DEF Resize
<1>2. row.rung # NONE /\ "idle" \in Steps
  BY <1>1, FollowTypes DEF SizeHeld, Steps
<1>3. told'.node \in {told.node, 0}
  BY <1>1, <1>2, FollowTypes, Online
<1>4. call'[c] = Idle
  BY <1>1, FollowTypes, GoneOn DEF Steps
<1>5. ASSUME Clean'
      PROVE  Follows'
  <2>1. Under(c)
    BY <1>1, <1>5 DEF FollowInv, Follows, Clean
  <2>2. /\ row.server /\ zvol.size = row.capacity /\ zvol.size > 0 /\ device = zvol.size
        /\ row.rung >= CONNECTED /\ row.option \in {NoOption, zvol.option}
    BY <1>1, <2>1 DEF Under, Updating
  <2>3. Under(c)'
    BY <1>4 DEF Under, Idle, Updating, Handling
  <2>4. Settled(row)'
    BY <1>1, <1>2, <2>2 DEF Settled
  <2>5. Grown'
    BY <1>1, <1>2, <2>2, FollowTypes DEF Grown
  <2> QED
    BY <1>1, <1>2, <2>3, <2>4, <2>5 DEF Follows, OneCall
<1>6. "less" \notin asked' => told'.node <= row'.capacity
  BY <1>1, <1>3, FollowTypes DEF FollowInv
<1> QED
  BY <1>1, <1>2, <1>5, <1>6 DEF FollowInv

(* The other handlers: a command brings the hosts to where the row will be. *)
LEMMA Handled ==
  ASSUME FollowInv, Clean, NEW c \in Calls, call[c].pc \in Handling
  PROVE  LET u == Updates(row, call[c].v)
         IN  /\ u.rung = To(call[c].op) /\ u.capacity = row.capacity
             /\ u.option = row.option /\ u.mode = row.mode
             /\ u.server <=> (call[c].op # "Unpublish" \/ row.server)
<1> DEFINE v == call[c].v
<1>1. Under(c)
  BY DEF FollowInv, Follows
<1>2. /\ v.rung = To(call[c].op) /\ v.option = row.option /\ v.mode = row.mode
      /\ v.server = (call[c].op # "Unpublish")
  BY <1>1 DEF Under
<1>3. row.rung # NONE /\ v.capacity = row.capacity
  BY FollowTypes DEF SizeHeld, Handling
<1>4. row \in Row /\ v \in Row
  BY FollowTypes
<1>5. /\ Updates(row, v).rung = v.rung
      /\ Updates(row, v).capacity = IF v.capacity = 0 THEN row.capacity ELSE v.capacity
  BY <1>3, <1>4, UpdatesRow
<1>6. /\ Updates(row, v).option = v.option /\ Updates(row, v).mode = v.mode
      /\ Updates(row, v).server <=> (v.server \/ row.server)
  BY <1>3, <1>4, UpdatesFields
<1> QED
  BY <1>2, <1>3, <1>5, <1>6

LEMMA FollowHandler ==
  ASSUME FollowInv, OneCall, SizeInv', NEW c \in Calls, NEW pc \in Handling,
         call[c].pc \in Handling \ {"commit"}, Goto(c, pc), UNCHANGED <<row, told, faults>>,
         asked' = asked, fs' >= fs,
         pc # "commit" => pc = Command(call[c].op),
         Clean /\ pc = "commit" => Settled(Updates(row, call[c].v))',
         pc # "commit" => UNCHANGED <<zvol, device>>
  PROVE  FollowInv'
<1>1. pc \in Steps /\ pc # "idle" /\ pc \notin Updating
  BY DEF Handling, Steps, Updating
<1>2. call'[c].pc = pc /\ call'[c].op = call[c].op /\ call'[c].v = call[c].v
  BY <1>1, FollowTypes, GoneOn
<1>3. ASSUME Clean'
      PROVE  Follows'
  <2> Clean
    BY <1>3 DEF Clean
  <2>1. Under(c) /\ Grown /\ (row.rung = NONE => ~told.online)
    BY DEF FollowInv, Follows
  <2>2. Resting
    BY DEF Resting, OneCall, Updating, Handling
  <2>3. Settled(row)
    BY <2>2 DEF FollowInv, Follows
  <2>4. Resting' => Settled(row)'
    BY <1>2, <2>3 DEF Resting, Settled
  <2>5. Under(c)'
    <3>1. /\ call[c].op \in AllHandlers /\ row.rung \in From(call[c].op)
          /\ call[c].v.rung = To(call[c].op) /\ call[c].v.option = row.option
          /\ call[c].v.mode = row.mode /\ call[c].v.server = (call[c].op # "Unpublish")
      BY <2>1 DEF Under
    <3>2. pc = "commit" => Settled(Updates(row, call[c].v))'
      OBVIOUS
    <3>3. /\ call'[c].pc \notin {"ask", "write"} \cup Updating
          /\ call'[c].pc \in Handling
      BY <1>1, <1>2 DEF Handling
    <3> QED
      BY <1>2, <3>1, <3>2, <3>3 DEF Under
  <2>6. Grown'
    <3>1. row.mode = "FILESYSTEM" /\ told.online => fs > 0 /\ fs >= row.capacity
      BY <2>1, <2>2 DEF Grown, Resting
    <3>2. fs' \in Nat /\ fs \in Nat /\ row.capacity \in Int
      BY FollowTypes, SizeAssumption DEF SizeInv, TypeOK, Sizes
    <3> QED
      BY <3>1, <3>2 DEF Grown
  <2> QED
    BY <2>1, <2>4, <2>5, <2>6 DEF Follows, OneCall
<1> QED
  BY <1>3 DEF FollowInv

LEMMA FollowHost ==
  ASSUME FollowInv, OneCall, SizeInv', NEW c \in Calls,
         Begin(c) \/ EnsureZvol(c) \/ Login(c) \/ EnsureFilesystem(c) \/ Logout(c)
  PROVE  FollowInv'
<1> DEFINE k == call[c]
           u == Updates(row, k.v)
<1>1. /\ k.pc \in Handling \ {"commit"} /\ k.v.capacity = row.capacity
  BY FollowTypes DEF SizeHeld, Handling, Begin, EnsureZvol, Login, EnsureFilesystem, Logout
<1>2. ASSUME Clean
      PROVE  /\ k.op \in AllHandlers /\ row.rung \in From(k.op) /\ k.v.option = row.option
             /\ k.pc # "begin" => k.pc = Command(k.op)
             /\ Settled(row)
  <2>1. Resting
    BY <1>1 DEF Resting, OneCall, Updating, Handling
  <2> QED
    BY <1>1, <1>2, <2>1 DEF FollowInv, Follows, Under
<1>3. ASSUME Clean
      PROVE  /\ u.rung = To(k.op) /\ u.capacity = row.capacity /\ u.option = row.option
             /\ u.server <=> (k.op # "Unpublish" \/ row.server)
  BY <1>1, <1>3, Handled
<1>5. \A pc \in Steps \ {"idle"} : Goto(c, pc) => call'[c].v = k.v
  BY FollowTypes, GoneOn
<1> HIDE DEF u
<1>6. CASE Begin(c)
  <2> DEFINE pc == Command(k.op)
  <2>1. /\ k.pc = "begin" /\ Goto(c, pc) /\ UNCHANGED <<row, zvol, device, fs, told, asked, faults>>
    BY <1>6 DEF Begin, hosts
  <2>2. pc \in Handling /\ pc \in Steps \ {"idle"}
    BY DEF Command, Handling, Steps
  <2>3. ASSUME Clean, pc = "commit"
        PROVE  Settled(Updates(row, k.v))'
    <3>1. k.op \in {"Unstage", "Unpublish"}
      BY <1>2, <2>3 DEF Command, AllHandlers
    <3>2. row.rung \in {PUBLISHED, STAGED} /\ row.server /\ u.server
      <4>1. row.rung \in {PUBLISHED, STAGED}
        BY <1>2, <2>3, <3>1 DEF From
      <4>2. row.server
        BY <1>2, <2>3, <4>1 DEF Settled, PUBLISHED, STAGED
      <4> QED
        BY <1>3, <2>3, <4>1, <4>2
    <3>3. u.rung = IF k.op = "Unstage" THEN CONNECTED ELSE INITIAL
      BY <1>3, <2>3, <3>1 DEF To
    <3>4. k.op = "Unstage" => row.rung = STAGED
      BY <1>2, <2>3 DEF From
    <3>5. /\ zvol.size > 0 /\ zvol.size = u.capacity /\ u.option \in {NoOption, zvol.option}
          /\ u.rung >= CONNECTED => device = zvol.size
      BY <1>2, <1>3, <2>3, <3>2, <3>3, <3>4 DEF Settled, PUBLISHED, CONNECTED, INITIAL, STAGED
    <3>6. Settled(u)
      BY <3>2, <3>5 DEF Settled
    <3>7. call'[c].v = k.v
      BY <1>5, <2>1, <2>2
    <3>8. Updates(row, k.v)' = u
      BY <2>1, <3>7 DEF u, Updates
    <3> QED
      BY <2>1, <3>6, <3>8 DEF Settled
  <2>4. fs' >= fs
    BY <2>1, FollowTypes
  <2> HIDE DEF pc
  <2>5. pc = Command(k.op)
    BY DEF pc
  <2> QED
    BY <1>1, <2>1, <2>2, <2>3, <2>4, <2>5, FollowHandler
<1>7. CASE EnsureZvol(c) \/ Login(c) \/ EnsureFilesystem(c) \/ Logout(c)
  <2>1. Goto(c, "commit") /\ UNCHANGED <<row, told, asked, faults>> /\ k.pc # "begin"
    BY <1>7 DEF EnsureZvol, Login, EnsureFilesystem, Logout
  <2>2. "commit" \in Handling /\ "commit" \in Steps \ {"idle"}
    BY DEF Handling, Steps
  <2>3. fs' >= fs
    BY <1>7, FollowTypes DEF EnsureZvol, Login, EnsureFilesystem, Logout
  <2>4. ASSUME Clean
        PROVE  /\ zvol'.size > 0 /\ zvol'.size = u.capacity /\ u.option \in {NoOption, zvol'.option}
               /\ u.server
               /\ u.rung >= CONNECTED => device' = zvol'.size
    <3>1. /\ k.op \in AllHandlers /\ row.rung \in From(k.op) /\ k.pc = Command(k.op)
          /\ Settled(row)
      BY <1>2, <2>1, <2>4
    <3>2. /\ u.rung = To(k.op) /\ u.capacity = row.capacity /\ u.option = row.option
          /\ u.server <=> (k.op # "Unpublish" \/ row.server)
      BY <1>3, <2>4
    <3>3. CASE EnsureZvol(c)
      <4> DEFINE made == [size |-> k.v.capacity, option |-> k.v.option]
      <4>1. k.op = "Publish" /\ UNCHANGED device
        BY <3>1, <3>3 DEF EnsureZvol, Command, AllHandlers
      <4>2. u.rung = PUBLISHED /\ u.server
        BY <3>2, <4>1 DEF To
      <4>3. /\ zvol' = IF zvol.size > 0 THEN zvol ELSE made
            /\ k.pc = "zfs" /\ (zvol.size > 0 \/ k.v.capacity > 0)
        BY <3>3 DEF EnsureZvol, Succeeds
      <4>4. made.size = row.capacity /\ made.option = row.option
        BY <1>1, <1>2, <2>4
      <4> HIDE DEF made
      <4>5. zvol.size > 0 => zvol.size = row.capacity /\ row.option \in {NoOption, zvol.option}
        BY <3>1 DEF Settled
      <4> QED
        BY <1>1, <3>2, <4>2, <4>3, <4>4, <4>5 DEF PUBLISHED, CONNECTED
    <3>4. CASE Login(c)
      <4>1. k.op = "Connect" /\ UNCHANGED zvol /\ device' = zvol.size
        BY <3>1, <3>4 DEF Login, Command, AllHandlers
      <4>2. row.rung = PUBLISHED /\ u.server
        BY <3>1, <3>2, <4>1 DEF From
      <4> QED
        BY <3>1, <3>2, <4>1, <4>2 DEF Settled, PUBLISHED
    <3>5. CASE EnsureFilesystem(c)
      <4>1. k.op = "Stage" /\ UNCHANGED <<zvol, device>>
        BY <3>1, <3>5 DEF EnsureFilesystem, Command, AllHandlers
      <4>2. row.rung = CONNECTED /\ u.server
        BY <3>1, <3>2, <4>1 DEF From
      <4> QED
        BY <3>1, <3>2, <4>1, <4>2 DEF Settled, PUBLISHED, CONNECTED
    <3>6. CASE Logout(c)
      <4>1. k.op = "Disconnect" /\ UNCHANGED zvol
        BY <3>1, <3>6 DEF Logout, Command, AllHandlers
      <4>2. row.rung \in {CONNECTED, STAGED} /\ u.server /\ u.rung = PUBLISHED
        BY <3>1, <3>2, <4>1 DEF From, To
      <4> QED
        BY <3>1, <3>2, <4>1, <4>2 DEF Settled, PUBLISHED, CONNECTED, STAGED
    <3> QED
      BY <1>7, <3>3, <3>4, <3>5, <3>6
  <2>5. call'[c].v = k.v
    BY <1>5, <2>1, <2>2
  <2>6. Updates(row, k.v)' = u
    BY <2>1, <2>5 DEF u, Updates
  <2>7. Clean => Settled(Updates(row, k.v))'
    BY <2>4, <2>6 DEF Settled
  <2> QED
    BY <1>1, <2>1, <2>2, <2>3, <2>7, FollowHandler
<1> QED
  BY <1>6, <1>7

LEMMA FollowCommit ==
  ASSUME FollowInv, OneCall, SizeInv', NEW c \in Calls, Commit(c)
  PROVE  FollowInv'
<1> DEFINE k == call[c]
           u == Updates(row, k.v)
<1>1. /\ k.pc = "commit" /\ row' = u /\ Goto(c, "idle")
      /\ UNCHANGED <<zvol, device, fs, told, asked, faults>>
  BY DEF Commit, hosts
<1>2. row.rung # NONE /\ k.v.rung # NONE /\ k.v.capacity = row.capacity
  BY <1>1, FollowTypes DEF SizeHeld, Handling
<1>3. row'.rung # NONE /\ row'.capacity = row.capacity
  BY <1>1, <1>2, FollowTypes, UpdatesRow
<1>4. call'[c] = Idle
  BY <1>1, FollowTypes, GoneOn DEF Steps
<1>5. ASSUME Clean'
      PROVE  Follows'
  <2> Clean
    BY <1>1, <1>5 DEF Clean
  <2>1. Under(c) /\ Grown
    BY DEF FollowInv, Follows
  <2>2. Settled(u) /\ u.mode = row.mode
    BY <1>1, <2>1, Handled DEF Under, Handling
  <2> HIDE DEF u
  <2>3. Settled(row)'
    BY <1>1, <2>2 DEF Settled
  <2>4. Under(c)'
    BY <1>4 DEF Under, Idle, Updating, Handling
  <2>5. row.mode = "FILESYSTEM" /\ told.online => fs > 0 /\ fs >= row.capacity
    BY <1>1, <2>1 DEF Grown, OneCall, Updating
  <2>6. Grown'
    BY <1>1, <1>3, <2>2, <2>5 DEF Grown
  <2> QED
    BY <1>1, <1>3, <2>3, <2>4, <2>6 DEF Follows, OneCall
<1> QED
  BY <1>1, <1>2, <1>3, <1>5 DEF FollowInv

(* A call ends without an answer: while nothing is lost, only one that a command
   has not reached yet, a volsize of a volume that has no zvol, or a resize of one
   that has no filesystem or a larger one. *)
LEMMA FollowEnd ==
  ASSUME FollowInv, OneCall, SizeInv', (\E c \in Calls : Fail(c) \/ Lose(c)) \/ Crash
  PROVE  FollowInv'
<1>1. ASSUME NEW c \in Calls, Fail(c)
      PROVE  FollowInv'
  <2>1. Goto(c, "idle") /\ UNCHANGED <<row, zvol, device, fs, told, asked, faults>>
    BY <1>1 DEF Fail, hosts
  <2>2. call'[c] = Idle
    BY <2>1, FollowTypes, GoneOn DEF Steps
  <2>3. Under(c)'
    BY <2>2 DEF Under, Idle, Updating, Handling
  <2>4. call'[c].pc \notin Updating \cup {"commit"}
    BY <2>2 DEF Idle, Updating
  <2>5. CASE call[c].pc \in {"zfs", "mkfs", "begin", "write"}
    BY <2>1, <2>3, <2>4, <2>5, FollowCall DEF Updating
  <2>6. CASE call[c].pc \in Updating /\ (~Succeeds(c) \/ MayRefuse(c))
    <3>1. row.rung # NONE
      BY <2>6, FollowTypes DEF SizeHeld, Updating
    <3>2. ASSUME Clean'
          PROVE  Follows'
      <4> Clean
        BY <2>1, <3>2 DEF Clean
      <4>1. Under(c) /\ Grown
        BY DEF FollowInv, Follows
      <4>2. /\ row.server /\ call[c].v.capacity = row.capacity
            /\ row.rung >= PUBLISHED => zvol.size > 0
            /\ zvol.size > 0 => row.capacity > 0
            /\ row.rung >= CONNECTED => device > 0
            /\ call[c].pc # "volsize" => zvol.size > 0 /\ zvol.size = row.capacity
            /\ call[c].pc \in {"rescan", "resize"} =>
                 row.rung >= CONNECTED /\ row.option \in {NoOption, zvol.option}
            /\ call[c].pc = "resize" => device = zvol.size /\ row.mode = "FILESYSTEM"
        BY <2>6, <4>1 DEF Under
      <4>3. CASE call[c].pc = "volsize"
        <5>1. zvol.size = 0
          BY <2>6, <4>2, <4>3, FollowTypes DEF Succeeds, MayRefuse
        <5>2. ~(fs > 0) /\ row.rung < PUBLISHED
          BY <4>2, <5>1, FollowTypes DEF Standing, PUBLISHED
        <5>3. Settled(row)'
          BY <2>1, <5>1, <5>2, FollowTypes DEF Settled, PUBLISHED, CONNECTED
        <5>4. Grown'
          BY <2>1, <4>1, <5>2 DEF Grown
        <5> QED
          BY <2>1, <2>3, <3>1, <5>3, <5>4 DEF Follows, OneCall
      <4>4. CASE call[c].pc # "volsize"
        <5>1. call[c].pc = "resize" /\ (~(fs > 0) \/ device < fs)
          BY <2>6, <4>2, <4>4 DEF Succeeds, MayRefuse, Updating
        <5>2. Settled(row)'
          BY <2>1, <4>2, <4>4, <5>1 DEF Settled
        <5>3. fs > 0 => fs >= row.capacity
          BY <4>2, <4>4, <5>1, FollowTypes
        <5>4. Grown'
          BY <2>1, <4>1, <5>3 DEF Grown
        <5> QED
          BY <2>1, <2>3, <3>1, <5>2, <5>4 DEF Follows, OneCall
      <4> QED
        BY <4>3, <4>4
    <3> QED
      BY <2>1, <3>1, <3>2 DEF FollowInv
  <2> QED
    BY <1>1, <2>5, <2>6 DEF Fail, Succeeds, MayRefuse, Updating
<1>2. ASSUME Crash \/ \E c \in Calls : Lose(c)
      PROVE  FollowInv'
  <2>1. /\ UNCHANGED <<row, zvol, device, fs, told, asked>> /\ faults' = faults + 1
    BY <1>2 DEF Crash, Lose, hosts
  <2>2. faults \in Nat
    BY BoundAssumption DEF FollowInv, SizeInv, TypeOK
  <2> QED
    BY <2>1, <2>2 DEF FollowInv, Clean
<1> QED
  BY <1>1, <1>2

(* The steps that are no call's. *)
LEMMA FollowClient ==
  ASSUME FollowInv, OneCall, SizeInv',
         \/ \E mode \in {"BLOCK", "FILESYSTEM"}, size \in Sizes, server \in BOOLEAN :
               CreateVolume(mode, size, server)
         \/ \E required \in Sizes \ {0} : AlreadyLargeEnough(required)
         \/ NodeExpandVolume
  PROVE  FollowInv'
<1>1. ASSUME UNCHANGED <<row, zvol, device, fs, call, asked, faults>>,
             told'.node <= row.capacity, told'.online => told.online
      PROVE  FollowInv'
  <2>1. Clean' => Follows'
    BY <1>1 DEF FollowInv, Clean, Follows, Resting, Settled, Under, Grown
  <2> QED
    BY <1>1, <2>1 DEF FollowInv
<1>2. row.capacity \in Int /\ told \in Told /\ zvol.size \in Nat /\ told.node \in Int
  BY SizeAssumption DEF FollowInv, SizeInv, TypeOK, Row, Zvol, Told, Sizes, Capacities
<1>3. ASSUME NEW required \in Sizes \ {0}, AlreadyLargeEnough(required)
      PROVE  FollowInv'
  <2>1. /\ UNCHANGED <<row, zvol, device, fs, call, asked, faults>>
        /\ told'.node = 0 /\ ~told'.online /\ row.capacity >= required
    BY <1>3 DEF AlreadyLargeEnough, hosts
  <2>2. required > 0 /\ required \in Int
    BY SizeAssumption DEF Sizes
  <2> QED
    BY <1>1, <1>2, <2>1, <2>2
<1>4. CASE NodeExpandVolume
  <2>1. /\ UNCHANGED <<row, zvol, device, fs, call, asked, faults>>
        /\ told'.node = row.capacity /\ (told'.online <=> told.online)
    BY <1>2, <1>4 DEF NodeExpandVolume, hosts, Told
  <2> QED
    BY <1>1, <1>2, <2>1
<1>5. ASSUME NEW mode \in {"BLOCK", "FILESYSTEM"}, NEW size \in Sizes, NEW server \in BOOLEAN,
             CreateVolume(mode, size, server)
      PROVE  FollowInv'
  <2>1. /\ row.rung = NONE
        /\ row' = [NoRow EXCEPT !.rung = INITIAL, !.mode = mode, !.capacity = size,
                                !.server = server]
        /\ UNCHANGED <<zvol, device, fs, call, told, asked, faults>>
    BY <1>5 DEF CreateVolume, hosts
  <2>2. row'.rung = INITIAL /\ row'.capacity = size
    BY <2>1 DEF NoRow
  <2>3. size \in Nat
    BY SizeAssumption DEF Sizes
  <2>4. \A c \in Calls : call[c].pc = "idle"
    BY <2>1 DEF FollowInv, SizeInv, SizeHeld
  <2>5. ~row.server /\ ("less" \notin asked => told.node <= size)
    BY <1>2, <2>1, <2>3 DEF FollowInv, SizeInv, Covered
  <2>6. ASSUME Clean'
        PROVE  Follows'
    <3>1. Settled(row) /\ ~told.online
      BY <2>1, <2>4, <2>6 DEF FollowInv, Clean, Follows, Resting, Updating
    <3>2. Settled(row)'
      BY <2>1, <2>2, <2>5, <3>1 DEF Settled, INITIAL, PUBLISHED, CONNECTED
    <3>3. \A c \in Calls : Under(c)'
      BY <2>1, <2>4 DEF Under, Updating, Handling
    <3> QED
      BY <2>1, <3>1, <3>2, <3>3 DEF Follows, Grown
  <2> QED
    BY <2>1, <2>2, <2>5, <2>6 DEF FollowInv, INITIAL, NONE
<1> QED
  BY <1>3, <1>4, <1>5

LEMMA FollowStep ==
  ASSUME FollowInv, OneCall, SizeInv', [Next]_vars
  PROVE  FollowInv'
<1>1. CASE UNCHANGED vars
  BY <1>1 DEF vars, FollowInv, Clean, Follows, Resting, Settled, Under, Grown
<1>2. CASE Next
  <2>1. ASSUME NEW c \in Calls, Progress(c), ~Fail(c)
        PROVE  FollowInv'
    <3>1. CASE SetVolsize(c) \/ SetOption(c) \/ RescanTarget(c)
      BY <3>1, FollowUpdating
    <3>2. CASE Begin(c) \/ EnsureZvol(c) \/ Login(c) \/ EnsureFilesystem(c) \/ Logout(c)
      BY <3>2, FollowHost
    <3>3. CASE ReadRow(c) \/ WriteRow(c) \/ Resize(c) \/ Commit(c)
      BY <3>3, FollowRead, FollowWrite, FollowResize, FollowCommit
    <3> QED
      BY <2>1, <3>1, <3>2, <3>3 DEF Progress
  <2>2. CASE Crash \/ \E c \in Calls : Fail(c) \/ Lose(c)
    BY <2>2, FollowEnd
  <2>3. CASE \/ \E mode \in {"BLOCK", "FILESYSTEM"}, size \in Sizes, server \in BOOLEAN :
                  CreateVolume(mode, size, server)
             \/ \E required \in Sizes \ {0} : AlreadyLargeEnough(required)
             \/ NodeExpandVolume
    BY <2>3, FollowClient
  <2>4. CASE \E c \in Calls : Requests(c) \/ \E op \in Handlers : Handle(c, op)
    BY <2>4, FollowAsk, FollowHandle
  <2> QED
    BY <1>2, <2>1, <2>2, <2>3, <2>4 DEF Next, Requests
<1> QED
  BY <1>1, <1>2

(* With calls one at a time, no command lost and no size that zfs refuses, the hosts are as the row has
   them but between an update's write and its last command and between a
   handler's command and its commit, when they are on their way to what the call
   holds (UpdateVolume, PublishVolume to UnpublishVolume). *)
THEOREM FollowInvariant == OneCall /\ Spec => []FollowInv
<1> SUFFICES ASSUME OneCall
             PROVE  Spec => []FollowInv
  OBVIOUS
<1>1. Init /\ SizeInv => FollowInv
  <2> SUFFICES ASSUME Init, SizeInv
               PROVE  FollowInv
    OBVIOUS
  <2>1. /\ row.rung = NONE /\ ~row.server /\ row.capacity = 0 /\ zvol.size = 0
        /\ told.node = 0 /\ ~told.online
    BY DEF Init, NoRow, NoZvol
  <2>2. \A c \in Calls : call[c] = Idle
    BY DEF Init
  <2>3. Settled(row)
    BY <2>1 DEF Settled, NONE, PUBLISHED, CONNECTED
  <2>4. \A c \in Calls : Under(c)
    BY <2>2 DEF Under, Idle, Updating, Handling
  <2> QED
    BY <2>1, <2>3, <2>4 DEF FollowInv, Follows, Grown
<1>2. FollowInv /\ SizeInv' /\ [Next]_vars => FollowInv'
  BY FollowStep
<1>3. Spec => []SizeInv
  BY SizeInvariant
<1> QED
  BY <1>1, <1>2, <1>3, PTL DEF Spec

(* At rest, as long as no command is lost and no client names a size that zfs
   refuses, the zvol has the size and the option of the
   row, and the client sees that size once it is connected, whenever it
   connected (UpdateVolume and ConnectVolume, in any order). *)
THEOREM HostsFollowSize == OneCall /\ Spec => []HostsFollow
<1>1. FollowInv => HostsFollow
  <2> SUFFICES ASSUME FollowInv, Quiet, Clean
               PROVE  /\ zvol.size > 0 => /\ zvol.size = row.capacity
                                          /\ row.option \in {NoOption, zvol.option}
                      /\ row.rung >= PUBLISHED => zvol.size > 0
                      /\ row.rung >= CONNECTED => device = zvol.size
    BY DEF HostsFollow, Clean
  <2>1. Resting
    BY DEF Quiet, Resting, Updating
  <2> QED
    BY <2>1 DEF FollowInv, Follows, Settled
<1> QED
  BY <1>1, FollowInvariant, PTL

(* The size that NodeExpandVolume answers is the size of the filesystem, when the
   expansion was online, no command was lost and no client has named a smaller size
   or one that zfs refuses, though the handler only reads the row. *)
THEOREM NodeSizeReal == OneCall /\ Spec => []NodeSizeIsReal
<1>1. FollowInv => NodeSizeIsReal
  <2> SUFFICES ASSUME FollowInv, Quiet, faults = 0, asked = {}, row.mode = "FILESYSTEM", told.online
               PROVE  fs >= told.node
    BY DEF NodeSizeIsReal
  <2>1. fs >= row.capacity
    BY DEF FollowInv, Clean, Follows, Grown, Quiet, Updating
  <2>2. fs \in Nat /\ row.capacity \in Int /\ told.node \in Int /\ told.node <= row.capacity
    BY SizeAssumption DEF FollowInv, SizeInv, TypeOK, Row, Told, Sizes, Capacities
  <2> QED
    BY <2>1, <2>2
<1> QED
  BY <1>1, FollowInvariant, PTL

================================================================================
