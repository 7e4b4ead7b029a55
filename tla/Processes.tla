------------------------------ MODULE Processes ------------------------------
(***************************************************************************)
(* The two processes and the way a command takes through them: a CSI call   *)
(* arrives at the plugin, whose handler makes RPCs to the control plane,     *)
(* whose handlers run commands on hosts over ssh.  Both processes are told   *)
(* to stop by signals, hosts hang or drop their connections.                 *)
(*                                                                         *)
(* What the handlers decide is not here (VolumeService, CSIService): an RPC  *)
(* opens its transaction and runs one command.  Executors are not shared, so *)
(* the calls meet in the processes and at the database only.                 *)
(***************************************************************************)
EXTENDS Naturals, FiniteSets

CONSTANTS
  Calls,          \* CSI calls under way at a time, each about a host of its own
  NoCall,         \* nobody holds the database's write lock
  MaxFaults,      \* bound on dropped connections and changed moods
  MaxSignals,     \* bound on signals to the processes
  MaxArrivals     \* bound on CSI calls

ASSUME ProcessesAssumption ==
  /\ MaxFaults \in Nat /\ MaxSignals \in Nat /\ MaxArrivals \in Nat
  /\ NoCall \notin Calls

VARIABLES
  plugin,         \* where the plugin's process is
  clients,        \* has CSIService its clients of the control plane?
  told,           \* has the plugin been told to stop?
  plane,          \* where the control plane's process is
  call,           \* the CSI calls
  exec,           \* the RPC a call is waiting for, with its executor
  tx,             \* the call whose RPC holds the write lock
  mood,           \* how a host answers
  spent           \* what is used of the bounds

processVars == <<plugin, clients, told, plane, call, exec, tx, mood, spent>>

PluginPhases == {"off", "started", "serving", "signalled", "clientless", "draining", "crashed"}
PlanePhases  == {"off", "serving", "draining"}

(* A host that closes takes connections and drops them; one that hangs takes
   them and answers no more. *)
Moods == {"up", "closing", "hung"}

Call == [step : {"idle", "handler", "rpc", "answered", "failed"},
         todo : 0..2, rpcs : 0..2, ran : 0..2]

NoCSICall == [step |-> "idle", todo |-> 0, rpcs |-> 0, ran |-> 0]

(* "alive" is the executor's connection as the host sees it, "redials" counts its
   reconnections, "runs" the times it started its command. *)
Exec == [step : {"none", "admit", "begin", "dial", "session", "redial", "running", "answer"},
         alive : BOOLEAN, redials : 0..2, runs : 0..2, ok : BOOLEAN]

NoExec == [step |-> "none", alive |-> FALSE, redials |-> 0, runs |-> 0, ok |-> FALSE]

Spent == [faults : 0..MaxFaults, signals : 0..MaxSignals, arrivals : 0..MaxArrivals]

(* The variables have their types, and the write lock is held by an RPC that is
   at work in a control plane that is there. *)
TypeOK ==
  /\ plugin \in PluginPhases
  /\ clients \in BOOLEAN
  /\ told \in BOOLEAN
  /\ plane \in PlanePhases
  /\ call \in [Calls -> Call]
  /\ exec \in [Calls -> Exec]
  /\ tx \in Calls \cup {NoCall}
  /\ mood \in [Calls -> Moods]
  /\ spent \in Spent
  /\ plane = "off" => \A c \in Calls : exec[c] = NoExec
  /\ tx # NoCall => exec[tx].step \in {"dial", "session", "redial", "running"}

Init ==
  /\ plugin = "off" /\ clients = FALSE /\ told = FALSE
  /\ plane = "off"
  /\ call = [c \in Calls |-> NoCSICall]
  /\ exec = [c \in Calls |-> NoExec]
  /\ tx = NoCall
  /\ mood = [c \in Calls |-> "up"]
  /\ spent = [faults |-> 0, signals |-> 0, arrivals |-> 0]

Under(limit, what) == spent[what] < limit
Spend(what) == spent' = [spent EXCEPT ![what] = @ + 1]

-----------------------------------------------------------------------------
(* The plugin's process (csi/main.go, wire.go, CSIService.Start and Stop). *)

StartService ==
  /\ plugin \in {"off", "crashed"}
  /\ plugin' = "started"
  /\ clients' = TRUE
  /\ told' = FALSE
  /\ UNCHANGED <<plane, call, exec, tx, mood, spent>>

(* Mutant: the server is wired before the service it serves. *)
ListenEarly ==
  /\ plugin \in {"off", "started"}
  /\ plugin' = "serving"
  /\ UNCHANGED <<clients, told, plane, call, exec, tx, mood, spent>>

Listen ==
  /\ plugin = "started"
  /\ plugin' = "serving"
  /\ UNCHANGED <<clients, told, plane, call, exec, tx, mood, spent>>

SignalPlugin ==
  /\ plugin = "serving"
  /\ Under(MaxSignals, "signals")
  /\ Spend("signals")
  /\ plugin' = "signalled"
  /\ told' = TRUE
  /\ UNCHANGED <<clients, plane, call, exec, tx, mood>>

(* The hook of order 3 comes first: it takes the clients from under the
   handlers, while the server goes on to listen. *)
StopService ==
  /\ plugin = "signalled"
  /\ plugin' = "clientless"
  /\ clients' = FALSE
  /\ UNCHANGED <<told, plane, call, exec, tx, mood, spent>>

(* The hook of order 5: GracefulStop closes the listener and waits. *)
StopServer ==
  /\ plugin = "clientless"
  /\ plugin' = "draining"
  /\ UNCHANGED <<clients, told, plane, call, exec, tx, mood, spent>>

InPlugin(c) == call[c].step \in {"handler", "rpc"}

(* The process takes its calls with it; their RPCs run on in the control plane. *)
EndPlugin(phase) ==
  /\ plugin' = phase
  /\ clients' = FALSE
  /\ call' = [c \in Calls |-> IF InPlugin(c) THEN [call[c] EXCEPT !.step = "failed"]
                              ELSE call[c]]
  /\ UNCHANGED <<told, plane, exec, tx, mood>>

PluginDrained ==
  /\ plugin = "draining"
  /\ \A c \in Calls : ~InPlugin(c)
  /\ EndPlugin("off")
  /\ UNCHANGED spent

Stopping == {"signalled", "clientless", "draining"}

(* Mutant: no minute is ever up. *)
NeverUp == FALSE

(* term.Wait(ctx, time.Minute): at any time, as far as a model without clocks
   can say. *)
MinuteUp == TRUE

(* term.Wait gives up after a minute. *)
PluginTimeout ==
  /\ plugin \in Stopping
  /\ MinuteUp
  /\ EndPlugin("off")
  /\ UNCHANGED spent

-----------------------------------------------------------------------------
(* The control plane's process (app/main.go, wire.go). *)

StartPlane ==
  /\ plane = "off"
  /\ plane' = "serving"
  /\ UNCHANGED <<plugin, clients, told, call, exec, tx, mood, spent>>

(* http.Server.Shutdown: no more requests, those under way go on. *)
SignalPlane ==
  /\ plane = "serving"
  /\ Under(MaxSignals, "signals")
  /\ Spend("signals")
  /\ plane' = "draining"
  /\ UNCHANGED <<plugin, clients, told, call, exec, tx, mood>>

(* Mutant: the transactions outlive the process. *)
StillOpen == UNCHANGED tx

(* SQLite drops the transaction of a process that is gone. *)
RolledBack == tx' = NoCall

(* The RPCs end with the process. *)
EndPlane ==
  /\ plane' = "off"
  /\ exec' = [c \in Calls |-> NoExec]
  /\ call' = [c \in Calls |-> IF call[c].step = "rpc" THEN [call[c] EXCEPT !.step = "failed"]
                              ELSE call[c]]
  /\ RolledBack
  /\ UNCHANGED <<plugin, clients, told, mood, spent>>

PlaneDrained ==
  /\ plane = "draining"
  /\ \A c \in Calls : exec[c].step = "none"
  /\ EndPlane

PlaneTimeout == plane = "draining" /\ MinuteUp /\ EndPlane

-----------------------------------------------------------------------------
(* A CSI call in the plugin.                                                 *)

Arrive(c, n) ==
  /\ plugin \in {"serving", "signalled", "clientless"}
  /\ call[c].step = "idle"
  /\ exec[c].step = "none"
  /\ Under(MaxArrivals, "arrivals")
  /\ Spend("arrivals")
  /\ call' = [call EXCEPT ![c] = [step |-> "handler", todo |-> n, rpcs |-> n,
                                  ran |-> 0]]
  /\ UNCHANGED <<plugin, clients, told, plane, exec, tx, mood>>

SendRPC(c) ==
  /\ call[c].step = "handler"
  /\ clients
  /\ IF plane = "serving"
     THEN /\ call' = [call EXCEPT ![c].step = "rpc"]
          /\ exec' = [exec EXCEPT ![c] = [NoExec EXCEPT !.step = "admit"]]
     ELSE /\ call' = [call EXCEPT ![c].step = "failed"]
          /\ UNCHANGED exec
  /\ UNCHANGED <<plugin, clients, told, plane, tx, mood, spent>>

(* The handler calls through a nil client, and nothing recovers the panic. *)
Panic(c) ==
  /\ call[c].step = "handler"
  /\ ~clients
  /\ EndPlugin("crashed")
  /\ UNCHANGED spent

(* Mutant: the answer of an RPC is not looked at. *)
LastAnswered(c) == call[c].todo = 1

(* The handler answers OK when every one of its RPCs did. *)
AllGood(c) == call[c].todo = 1 /\ exec[c].ok

(* What the handler makes of an answer. *)
Heard(c) ==
  [call[c] EXCEPT !.ran  = @ + exec[c].runs,
                  !.todo = @ - 1,
                  !.step = IF AllGood(c) THEN "answered"
                           ELSE IF exec[c].ok THEN "handler" ELSE "failed"]

(* The answer reaches a handler that still waits, or nobody. *)
Receive(c) ==
  /\ exec[c].step = "answer"
  /\ exec' = [exec EXCEPT ![c] = NoExec]
  /\ call' = IF call[c].step = "rpc" THEN [call EXCEPT ![c] = Heard(c)] ELSE call
  /\ UNCHANGED <<plugin, clients, told, plane, tx, mood, spent>>

Leave(c) ==
  /\ call[c].step \in {"answered", "failed"}
  /\ exec[c].step = "none"
  /\ call' = [call EXCEPT ![c] = NoCSICall]
  /\ UNCHANGED <<plugin, clients, told, plane, exec, tx, mood, spent>>

-----------------------------------------------------------------------------
(* An RPC in the control plane, and its executor.                            *)

ExecBecomes(c, e) ==
  /\ exec' = [exec EXCEPT ![c] = e]
  /\ UNCHANGED <<plugin, clients, told, plane, call, mood, spent>>

(* Nothing shuts the executor down: its connection is left to the host. *)
Answer(c, ok) ==
  /\ ExecBecomes(c, [exec[c] EXCEPT !.step = "answer", !.ok = ok])
  /\ tx' = IF tx = c THEN NoCall ELSE tx

(* The interceptors: the token and the message are good, or they are not. *)
Admit(c) ==
  /\ exec[c].step = "admit"
  /\ \/ ExecBecomes(c, [exec[c] EXCEPT !.step = "begin"]) /\ UNCHANGED tx
     \/ Answer(c, FALSE)

(* The transaction, and an executor of its own (BuildExecutor). *)
Begin(c) ==
  /\ exec[c].step = "begin"
  /\ tx = NoCall
  /\ tx' = c
  /\ ExecBecomes(c, [exec[c] EXCEPT !.step = "dial"])

(* The write lock has been another's for too long. *)
Busy(c) ==
  /\ exec[c].step = "begin"
  /\ tx # NoCall
  /\ Answer(c, FALSE)

Answers(c) == mood[c] # "hung"

Connected(c) == exec[c].alive /\ mood[c] = "up"

(* Startup: the executor has no client yet. *)
Dial(c) ==
  /\ exec[c].step = "dial"
  /\ Answers(c)
  /\ \/ ExecBecomes(c, [exec[c] EXCEPT !.step = "session", !.alive = TRUE]) /\ UNCHANGED tx
     \/ Answer(c, FALSE)

(* Mutant: the tries are not counted. *)
TriesOnAndOn(c) == TRUE

TriesLeft(c) == exec[c].redials < 2

(* A third try is not made, whatever has become of the connection. *)
RetryFailed(c) ==
  /\ exec[c].step = "session"
  /\ ~TriesLeft(c)
  /\ Answer(c, FALSE)

(* A session is there and the command starts in it. *)
Started(e) == [e EXCEPT !.step = "running", !.runs = @ + 1]

(* NewSession: a session; io.EOF, by which ssh says that the connection had ended
   before; or any other error, after which Exec does not try again. *)
NewSession(c) ==
  /\ exec[c].step = "session"
  /\ Answers(c) /\ TriesLeft(c)
  /\ \/ Connected(c) /\ ExecBecomes(c, Started(exec[c])) /\ UNCHANGED tx
     \/ ~Connected(c) /\ ExecBecomes(c, [exec[c] EXCEPT !.step = "redial"]) /\ UNCHANGED tx
     \/ Answer(c, FALSE)

(* The new client is dialled first, then the old one is closed, whose connection
   has ended already, and replaced. *)
Replaced(e) ==
  [e EXCEPT !.step = "session", !.alive = TRUE, !.redials = IF @ = 2 THEN 2 ELSE @ + 1]

Redial(c) ==
  /\ exec[c].step = "redial"
  /\ Answers(c)
  /\ \/ ExecBecomes(c, Replaced(exec[c])) /\ UNCHANGED tx
     \/ Answer(c, FALSE)

(* The command ends, with either exit status. *)
Exits(c) ==
  /\ exec[c].step = "running"
  /\ Answers(c)
  /\ \E ok \in BOOLEAN : (ok => Connected(c)) /\ Answer(c, ok)

(* Mutant: a command whose connection is lost is run again. *)
RunAgain(c) ==
  ExecBecomes(c, [exec[c] EXCEPT !.step = "redial"]) /\ UNCHANGED tx

(* The connection is lost under the command: nobody knows what it did. *)
Unknown(c) == Answer(c, FALSE)

Lost(c) ==
  /\ exec[c].step = "running"
  /\ ~Connected(c) /\ Answers(c)
  /\ Unknown(c)

-----------------------------------------------------------------------------
(* The hosts. *)

(* The connection to a host is dropped; it may have another mood from now on. *)
MoodChanges(c, m) ==
  /\ Under(MaxFaults, "faults")
  /\ Spend("faults")
  /\ mood' = [mood EXCEPT ![c] = m]
  /\ exec' = [exec EXCEPT ![c].alive = FALSE]
  /\ UNCHANGED <<plugin, clients, told, plane, call, tx>>

PluginStops == StopService \/ StopServer \/ PluginDrained \/ PluginTimeout
PlaneStops  == PlaneDrained \/ PlaneTimeout

CallStep(c) ==
  \/ SendRPC(c) \/ Panic(c) \/ Receive(c)
  \/ Admit(c) \/ Begin(c) \/ Busy(c)
  \/ Dial(c) \/ RetryFailed(c) \/ NewSession(c) \/ Redial(c) \/ Exits(c) \/ Lost(c)

Next ==
  \/ StartService \/ Listen \/ SignalPlugin \/ PluginStops
  \/ StartPlane \/ SignalPlane \/ PlaneStops
  \/ \E c \in Calls : \/ \E n \in 1..2 : Arrive(c, n)
                      \/ CallStep(c)
                      \/ Leave(c)
  \/ \E c \in Calls, m \in Moods : MoodChanges(c, m)

Spec == Init /\ [][Next]_processVars

(* A process that is told to stop goes on stopping, and a call goes on as long
   as its host answers. *)
FairSpec ==
  /\ Spec
  /\ WF_processVars(PluginStops) /\ WF_processVars(PlaneStops)
  /\ \A c \in Calls : WF_processVars(CallStep(c))

-----------------------------------------------------------------------------
(* Properties. *)

(* An executor starts its command at most once, whatever becomes of the
   connection: a lost command may have done its work (RemoteExecutor.Exec). *)
AtMostOnce == \A c \in Calls : exec[c].runs <= 1

(* A CSI call that is answered OK has had every command of its RPCs run, once
   each, across whatever the two processes and the hosts went through. *)
OkMeansRan ==
  \A c \in Calls : call[c].step = "answered" => call[c].ran = call[c].rpcs

(* The plugin panics only while it is being stopped: until then no handler
   meets a client that is not there (WireCSIService before WireServer). *)
CrashesOnlyStopping == plugin = "crashed" => told

(* A process that is told to stop does, even when a host hangs under one of its
   calls (graterm's term.Wait). *)
Terminates ==
  /\ told ~> plugin \in {"off", "crashed"}
  /\ plane = "draining" ~> plane = "off"

(* A CSI call ends, even while another call's RPC hangs with the write lock; only
   a call whose own host hangs does not. *)
CallsEnd ==
  \A c \in Calls :
    InPlugin(c) ~> \/ ~InPlugin(c)
                   \/ mood[c] = "hung"
=============================================================================
