--------------------------- MODULE VolumeExpansion ---------------------------
(***************************************************************************)
(* The size of a volume, which is kept in four places: the row, the zvol,  *)
(* the block device as the client's kernel sees it, and the filesystem on  *)
(* it; and its ZFS options, kept in the row and on the zvol.               *)
(*                                                                         *)
(* Everything goes through UpdateVolume, which writes the row first and    *)
(* then tells the hosts, with no transaction around it.  The CSI plugin    *)
(* reads the row before it asks for a size; any other client of the API    *)
(* may name whatever size it likes.  Every other handler writes back the   *)
(* size and the options that it read.  An update also drops the details of *)
(* the transport, without which no later handler gets through.             *)
(***************************************************************************)
EXTENDS Integers

CONSTANTS
  MaxSize,        \* the largest size
  Options,        \* the values of one mutable ZFS property
  NoOption,       \* the property is not in the list of options
  Calls,          \* slots for requests in flight: one slot serializes them
  NoCall,         \* nobody holds the write lock
  Handlers,       \* the other operations of the service that are asked for
  MaxFaults       \* bound on lost commands and crashes

ASSUME SizeAssumption == MaxSize \in Nat \ {0}
ASSUME OptionsAssumption == NoOption \notin Options
ASSUME CallsAssumption == NoCall \notin Calls
ASSUME BoundAssumption == MaxFaults \in Nat

VARIABLES
  row,            \* the committed row
  zvol,           \* the zvol on the server
  device,         \* the size of the client's block device, 0 when logged out
  fs,             \* the size of the filesystem, 0 before the first mkfs
  lock,           \* the call whose transaction holds SQLite's write lock
  call,           \* the request each slot is serving
  told,           \* what the orchestrator was last told
  asked,          \* what clients other than the plugin have asked for
  faults          \* faults so far

vars == <<row, zvol, device, fs, lock, call, told, asked, faults>>
hosts == <<zvol, device, fs>>

Sizes == 0 .. MaxSize

(* What a row and a request may say: -1 stands for every negative number. *)
Capacities == -1 .. MaxSize

(* The rungs below CONNECTED matter, and CONNECTED as opposed to STAGED, which
   stands for MOUNTED too. *)
NONE == 0
INITIAL == 1
PUBLISHED == 2
CONNECTED == 3
STAGED == 4

(* server: the column server_host is set, which nothing undoes.  details: the
   transport has more than its type. *)
Row == [rung : NONE .. STAGED, mode : {"BLOCK", "FILESYSTEM"}, capacity : Capacities,
        option : Options \cup {NoOption}, server : BOOLEAN, details : BOOLEAN]

NoRow == [rung |-> NONE, mode |-> "BLOCK", capacity |-> 0,
          option |-> NoOption, server |-> FALSE, details |-> FALSE]

Zvol == [size : Sizes, option : Options \cup {NoOption}]
NoZvol == [size |-> 0, option |-> NoOption]

AllHandlers == {"Publish", "Connect", "Stage", "Unstage", "Disconnect", "Unpublish"}
ASSUME HandlersAssumption == Handlers \subseteq AllHandlers

Steps == {"idle", "ask", "write", "volsize", "option", "rescan", "resize",
          "begin", "zfs", "login", "mkfs", "logout", "commit"}

Fields == {"capacity", "option"}

(* capacity, option: what an update asks for in the fields that it names.  v: the
   row the handler has read, and changed. *)
Call == [op : AllHandlers \cup {"Expand", "Modify", "Update", "none"}, pc : Steps,
         named : SUBSET Fields, capacity : Capacities, option : Options \cup {NoOption},
         v : Row]

Idle == [op |-> "none", pc |-> "idle", named |-> {}, capacity |-> 0, option |-> NoOption,
         v |-> NoRow]

(* size: the size that ControllerExpandVolume has answered; online: it had the
   volume expanded on a client, as has every other client's update since; node:
   what NodeExpandVolume has answered since. *)
Told == [size : Capacities, online : BOOLEAN, node : Capacities]

(* less: a size smaller than the row's; refused: one that zfs does not take. *)
Unusual == {"less", "refused"}

TypeOK ==
  /\ row \in Row
  /\ zvol \in Zvol
  /\ device \in Sizes /\ fs \in Sizes
  /\ lock \in Calls \cup {NoCall}
  /\ call \in [Calls -> Call]
  /\ told \in Told
  /\ asked \subseteq Unusual
  /\ faults \in 0 .. MaxFaults

Init ==
  /\ row = NoRow
  /\ zvol = NoZvol
  /\ device = 0 /\ fs = 0
  /\ lock = NoCall
  /\ call = [c \in Calls |-> Idle]
  /\ told = [size |-> 0, online |-> FALSE, node |-> 0]
  /\ asked = {}
  /\ faults = 0

Goto(c, pc) ==
  call' = IF pc = "idle" THEN [call EXCEPT ![c] = Idle] ELSE [call EXCEPT ![c].pc = pc]

Released(c) == IF lock = c THEN NoCall ELSE lock

-----------------------------------------------------------------------------
(* gorm's Updates: a capacity that is not zero; options, transport and rung
   always. *)
Updates(old, v) ==
  IF old.rung = NONE THEN old
  ELSE [v EXCEPT !.capacity = IF @ = 0 THEN old.capacity ELSE @,
                 !.server   = @ \/ old.server]

(* Mutant: the size that a request names is taken for an increase. *)
applyIncrease(v, named, capacity, option) ==
  [v EXCEPT !.capacity = IF "capacity" \in named THEN @ + capacity ELSE @,
            !.option   = IF "option" \in named THEN option ELSE @]

(* applyVolumeUpdate: the fields that the request names. *)
applyVolumeUpdate(v, named, capacity, option) ==
  [v EXCEPT !.capacity = IF "capacity" \in named THEN capacity ELSE @,
            !.option   = IF "option" \in named THEN option ELSE @]

(* A size of 0 is valid here, and so is a server_host that names a host. *)
CreateVolume(mode, size, server) ==
  /\ row.rung = NONE
  /\ lock = NoCall
  /\ row' = [NoRow EXCEPT !.rung = INITIAL, !.mode = mode, !.capacity = size,
                          !.server = server]
  /\ UNCHANGED <<hosts, lock, call, told, asked, faults>>

-----------------------------------------------------------------------------
(* The CSI plugin, and the other clients of UpdateVolume.                    *)

Ask(c, op, named, capacity, option) ==
  /\ row.rung # NONE
  /\ call[c].pc = "idle"
  /\ call' = [call EXCEPT ![c] = [Idle EXCEPT !.op = op, !.pc = "ask", !.named = named,
                                    !.capacity = capacity, !.option = option]]
  /\ UNCHANGED <<row, hosts, lock, told, faults>>

(* The update's fields come in a struct that nothing validates. *)
UpdateVolume(c, named, capacity, option) ==
  /\ "capacity" \notin named => capacity = 0
  /\ "option" \notin named => option = NoOption
  /\ Ask(c, "Update", named, capacity, option)
  /\ asked' = asked \cup
       {u \in Unusual : /\ "capacity" \in named
                        /\ u = "less"    => capacity # 0 /\ capacity < row.capacity
                        /\ u = "refused" => capacity <= 0}

(* Mutant: the plugin asks for the size without a look at the row. *)
ExpandBlindly(c, required) ==
  /\ Ask(c, "Expand", {"capacity"}, required, NoOption)
  /\ UNCHANGED asked

(* ControllerExpandVolume of a volume that is not large enough yet. *)
ControllerExpandVolume(c, required) ==
  /\ row.capacity < required
  /\ Ask(c, "Expand", {"capacity"}, required, NoOption)
  /\ UNCHANGED asked

(* ... and of one whose row says that it is: answered at once. *)
AlreadyLargeEnough(required) ==
  /\ row.rung # NONE
  /\ row.capacity >= required
  /\ told' = [size |-> row.capacity, online |-> FALSE, node |-> 0]
  /\ UNCHANGED <<row, hosts, lock, call, asked, faults>>

(* ControllerModifyVolume names the list of options. *)
ControllerModifyVolume(c, option) ==
  /\ Ask(c, "Modify", {"option"}, 0, option)
  /\ UNCHANGED asked

(* NodeExpandVolume, which the answer to ControllerExpandVolume asked for: it
   reports the size in the row and does nothing. *)
NodeExpandVolume ==
  /\ row.rung = STAGED
  /\ told.size > 0 /\ told.node = 0
  /\ told' = [told EXCEPT !.node = row.capacity]
  /\ UNCHANGED <<row, hosts, lock, call, asked, faults>>

-----------------------------------------------------------------------------
(* UpdateVolume.                                                             *)

(* To the API type and back. *)
Converted(v) == [v EXCEPT !.details = FALSE]

ReadRow(c) ==
  /\ call[c].pc = "ask"
  /\ call' = [call EXCEPT
       ![c].pc = "write",
       ![c].v = Converted(applyVolumeUpdate(row, call[c].named, call[c].capacity,
                                            call[c].option))]
  /\ UNCHANGED <<row, hosts, lock, told, asked, faults>>

(* The steps that tell the hosts: which are left is decided by the copy. *)
AfterZvol(v) ==
  CASE v.rung < CONNECTED -> "idle"
    [] OTHER              -> "rescan"

AfterVolsize(v) == IF v.option = NoOption THEN AfterZvol(v) ELSE "option"

(* Mutant: the filesystem is left as it is. *)
AfterRescanUngrown(v) == "idle"

AfterRescan(v) == IF v.mode = "FILESYSTEM" THEN "resize" ELSE "idle"

(* UpdateVolume answers OK: the plugin passes the size on. *)
Answer(c, pc) ==
  LET online == call[c].v.rung >= CONNECTED
  IN  told' = CASE pc = "idle" /\ call[c].op = "Expand" ->
                     [size |-> call[c].v.capacity, online |-> online, node |-> 0]
                [] pc = "idle" /\ call[c].op = "Update" ->
                     [told EXCEPT !.online = @ /\ online]
                [] OTHER -> told

WriteRow(c) ==
  /\ call[c].pc = "write"
  /\ lock = NoCall
  /\ row' = Updates(row, call[c].v)
  /\ LET v    == call[c].v
         next == IF v.server THEN "volsize" ELSE AfterZvol(v)
     IN  Goto(c, next) /\ Answer(c, next)
  /\ UNCHANGED <<hosts, lock, asked, faults>>

(* The commands: the one at pc succeeds in this state, or may. *)
Succeeds(c) ==
  CASE call[c].pc = "volsize" -> zvol.size > 0 /\ call[c].v.capacity > 0
    [] call[c].pc = "option"  -> zvol.size > 0
    [] call[c].pc = "rescan"  -> device > 0
    [] call[c].pc = "resize"  -> device > 0 /\ fs > 0
    [] call[c].pc = "zfs"     -> zvol.size > 0 \/ call[c].v.capacity > 0
    [] OTHER                  -> TRUE

(* resize2fs shrinks no filesystem that is mounted, or not checked. *)
MayRefuse(c) == call[c].pc = "resize" /\ device < fs

SetVolsize(c) ==
  /\ call[c].pc = "volsize"
  /\ Succeeds(c)
  /\ zvol' = [zvol EXCEPT !.size = call[c].v.capacity]
  /\ LET next == AfterVolsize(call[c].v) IN Goto(c, next) /\ Answer(c, next)
  /\ UNCHANGED <<row, device, fs, lock, asked, faults>>

SetOption(c) ==
  /\ call[c].pc = "option"
  /\ Succeeds(c)
  /\ zvol' = [zvol EXCEPT !.option = call[c].v.option]
  /\ LET next == AfterZvol(call[c].v) IN Goto(c, next) /\ Answer(c, next)
  /\ UNCHANGED <<row, device, fs, lock, asked, faults>>

(* Mutant: the client is told before the size has changed. *)
RescanNothing(c) ==
  /\ call[c].pc = "rescan"
  /\ Succeeds(c)
  /\ LET next == AfterRescan(call[c].v) IN Goto(c, next) /\ Answer(c, next)
  /\ UNCHANGED <<row, zvol, device, fs, lock, asked, faults>>

RescanTarget(c) ==
  /\ call[c].pc = "rescan"
  /\ Succeeds(c)
  /\ device' = zvol.size
  /\ LET next == AfterRescan(call[c].v) IN Goto(c, next) /\ Answer(c, next)
  /\ UNCHANGED <<row, zvol, fs, lock, asked, faults>>

Resize(c) ==
  /\ call[c].pc = "resize"
  /\ Succeeds(c)
  /\ fs' = device
  /\ Goto(c, "idle") /\ Answer(c, "idle")
  /\ UNCHANGED <<row, zvol, device, lock, asked, faults>>

-----------------------------------------------------------------------------
(* The other handlers, as far as they read, write or use a size: the read,   *)
(* the transaction's Updates (which takes the lock), one command, the commit *)
(* of the copy.                                                              *)

(* A staged volume may be disconnected; a mounted one not, which is left open. *)
From(op) ==
  CASE op = "Publish"    -> {INITIAL}
    [] op = "Connect"    -> {PUBLISHED}
    [] op = "Stage"      -> {CONNECTED}
    [] op = "Unstage"    -> {STAGED}
    [] op = "Disconnect" -> {CONNECTED, STAGED}
    [] op = "Unpublish"  -> {PUBLISHED}

To(op) ==
  CASE op = "Publish"    -> PUBLISHED
    [] op = "Connect"    -> CONNECTED
    [] op = "Stage"      -> STAGED
    [] op = "Unstage"    -> CONNECTED
    [] op = "Disconnect" -> PUBLISHED
    [] op = "Unpublish"  -> INITIAL

Command(op) ==
  CASE op = "Publish"    -> "zfs"
    [] op = "Connect"    -> "login"
    [] op = "Stage"      -> "mkfs"
    [] op = "Disconnect" -> "logout"
    [] OTHER             -> "commit"

Handle(c, op) ==
  /\ call[c].pc = "idle"
  /\ row.rung \in From(op)
  /\ call' = [call EXCEPT ![c] =
       [Idle EXCEPT !.op = op, !.pc = "begin",
                    !.v = [row EXCEPT !.rung = To(op),
                                      !.server = (op # "Unpublish"),
                                      !.details = CASE op = "Publish"   -> TRUE
                                                    [] op = "Unpublish" -> FALSE
                                                    [] OTHER            -> @]]]
  /\ UNCHANGED <<row, hosts, lock, told, asked, faults>>

(* Connect, Disconnect and Stage dereference the details. *)
Dereferences(c) ==
  call[c].op \in {"Connect", "Disconnect", "Stage"} /\ ~call[c].v.details

Begin(c) ==
  /\ call[c].pc = "begin"
  /\ ~Dereferences(c)
  /\ lock = NoCall
  /\ lock' = c
  /\ Goto(c, Command(call[c].op))
  /\ UNCHANGED <<row, hosts, told, asked, faults>>

(* zfs list, and zfs create when there is no zvol. *)
EnsureZvol(c) ==
  /\ call[c].pc = "zfs"
  /\ Succeeds(c)
  /\ zvol' = IF zvol.size > 0 THEN zvol
             ELSE [size |-> call[c].v.capacity, option |-> call[c].v.option]
  /\ Goto(c, "commit")
  /\ UNCHANGED <<row, device, fs, lock, told, asked, faults>>

Login(c) ==
  /\ call[c].pc = "login"
  /\ device' = zvol.size
  /\ Goto(c, "commit")
  /\ UNCHANGED <<row, zvol, fs, lock, told, asked, faults>>

(* blkid, and mkfs when there is no filesystem; a device is not resized. *)
EnsureFilesystem(c) ==
  /\ call[c].pc = "mkfs"
  /\ call[c].v.mode = "FILESYSTEM"
  /\ device > 0
  /\ fs' = IF fs > 0 THEN fs ELSE device
  /\ Goto(c, "commit")
  /\ UNCHANGED <<row, zvol, device, lock, told, asked, faults>>

Logout(c) ==
  /\ call[c].pc = "logout"
  /\ device' = 0
  /\ Goto(c, "commit")
  /\ UNCHANGED <<row, zvol, fs, lock, told, asked, faults>>

Commit(c) ==
  /\ call[c].pc = "commit"
  /\ row' = Updates(row, call[c].v)
  /\ lock' = Released(c)
  /\ Goto(c, "idle")
  /\ UNCHANGED <<hosts, told, asked, faults>>

-----------------------------------------------------------------------------
(* A command fails where it must, an update waits for the lock too long, or a
   command is lost: the call ends with an error, what is written stays. *)
Fail(c) ==
  /\ \/ ~Succeeds(c) \/ MayRefuse(c)
     \/ call[c].pc = "mkfs" /\ (call[c].v.mode = "BLOCK" \/ device = 0)
     \/ call[c].pc = "begin" /\ Dereferences(c)
     \/ call[c].pc \in {"write", "begin"} /\ lock # NoCall
  /\ Goto(c, "idle")
  /\ lock' = Released(c)
  /\ UNCHANGED <<row, hosts, told, asked, faults>>

Lose(c) ==
  /\ faults < MaxFaults
  /\ call[c].pc \in Steps \ {"idle", "write", "begin"}
  /\ faults' = faults + 1
  /\ Goto(c, "idle")
  /\ lock' = Released(c)
  /\ UNCHANGED <<row, hosts, told, asked>>

Crash ==
  /\ faults < MaxFaults
  /\ \E c \in Calls : call[c].pc # "idle"
  /\ faults' = faults + 1
  /\ call' = [c \in Calls |-> Idle]
  /\ lock' = NoCall
  /\ UNCHANGED <<row, hosts, told, asked>>

-----------------------------------------------------------------------------
Progress(c) ==
  \/ ReadRow(c) \/ WriteRow(c) \/ SetVolsize(c) \/ SetOption(c)
  \/ RescanTarget(c) \/ Resize(c)
  \/ Begin(c) \/ EnsureZvol(c) \/ Login(c) \/ EnsureFilesystem(c) \/ Logout(c)
  \/ Commit(c) \/ Fail(c)

Next ==
  \/ \E mode \in {"BLOCK", "FILESYSTEM"}, size \in Sizes, server \in BOOLEAN :
       CreateVolume(mode, size, server)
  \/ \E required \in Sizes \ {0} : AlreadyLargeEnough(required)
  \/ NodeExpandVolume
  \/ \E c \in Calls :
       \/ \E required \in Sizes \ {0} : ControllerExpandVolume(c, required)
       \/ \E option \in Options \cup {NoOption} :
            \/ ControllerModifyVolume(c, option)
            \/ \E named \in SUBSET Fields, capacity \in Capacities :
                 UpdateVolume(c, named, capacity, option)
       \/ \E op \in Handlers : Handle(c, op)
       \/ Progress(c)
       \/ Lose(c)
  \/ Crash

Spec == Init /\ [][Next]_vars

-----------------------------------------------------------------------------
(* Properties.                                                               *)

Quiet == \A c \in Calls : call[c].pc = "idle"

(* A zvol is never made smaller unless a client has asked UpdateVolume for less
   than the row says, though every update sets whatever size it has read, one
   that names nothing but options too: with calls one at a time this survives
   lost commands and crashes, after which the row and the zvol differ
   (UpdateVolume's write comes before its zfs set). *)
NeverShrinks == [][zvol'.size >= zvol.size \/ "less" \in asked]_vars

(* Nor does the row then ever promise less than there is, so that an update that
   repeats the row's size repairs what a fault has left behind. *)
RowCovers ==
  "less" \notin asked =>
    fs <= zvol.size /\ zvol.size <= row.capacity /\ told.size <= row.capacity

(* As long as nothing fails, a row at rest tells the state of the hosts: the
   zvol has the size it says and the option it names, and the client sees that
   size once it is connected, whenever it connected.  A size that zfs refuses
   is such a failure: the row, and the options, are written by then. *)
HostsFollow ==
  Quiet /\ faults = 0 /\ "refused" \notin asked =>
    /\ zvol.size > 0 => /\ zvol.size = row.capacity
                        /\ row.option \in {NoOption, zvol.option}
    /\ row.rung >= PUBLISHED => zvol.size > 0
    /\ row.rung >= CONNECTED => device = zvol.size

(* The size that NodeExpandVolume answers is the size of the filesystem, when the
   expansion was online, as the plugin declares it; the handler only reads the
   row and leaves the work to the UpdateVolume that ControllerExpandVolume has
   called, and no other client has named a smaller size since, or one that zfs
   refuses.  (Of an expansion offline it is not: a filesystem that exists is not
   grown when it is staged again.) *)
NodeSizeIsReal ==
  Quiet /\ faults = 0 /\ asked = {} /\ row.mode = "FILESYSTEM" /\ told.online =>
    fs >= told.node

=============================================================================
