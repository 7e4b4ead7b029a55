--------------------------- MODULE ProcessesProofs ---------------------------
(***************************************************************************)
(* Proofs about Processes, for any set of calls and any number of signals,  *)
(* dropped connections and arrivals: what an executor did to a host is what *)
(* the CSI call that caused it is told, and the plugin panics only while it *)
(* is being stopped.                                                        *)
(***************************************************************************)
EXTENDS Processes, TLAPS

(* How far an executor has come, and whether it has started its command. *)
ExecCourse(e) ==
  \/ e.step \in {"none", "admit", "begin", "dial", "session", "redial"} /\ e.runs = 0
  \/ e.step = "running" /\ e.runs = 1
  \/ e.step = "answer" /\ e.runs <= 1 /\ (e.ok => e.runs = 1)

(* The RPCs that a handler has behind it have each run their command. *)
CallCourse(k) ==
  /\ k.step \in {"handler", "rpc"} => k.todo >= 1 /\ k.ran + k.todo = k.rpcs
  /\ k.step = "answered" => k.ran = k.rpcs

(* A handler at work has no RPC under way. *)
Courses ==
  \A c \in Calls : /\ ExecCourse(exec[c]) /\ CallCourse(call[c])
                   /\ call[c].step = "handler" => exec[c].step = "none"

(* A process that is not there has no call under way, and the clients go no
   sooner than the plugin is told to stop. *)
PluginCourse ==
  /\ plugin \in {"off", "started", "crashed"} => \A c \in Calls : ~InPlugin(c)
  /\ plugin \in {"started", "serving"} => clients
  /\ plugin \in {"signalled", "clientless", "draining", "crashed"} => told

ProcessesInv == TypeOK /\ Courses /\ PluginCourse

-----------------------------------------------------------------------------
(* The steps of one executor: exec[c] becomes e, and the lock is taken, kept or
   given back by c alone. *)
Working == {"dial", "session", "redial", "running"}

LEMMA ExecStep ==
  ASSUME ProcessesInv, NEW c \in Calls, NEW e \in Exec,
         exec[c].step # "none", ExecBecomes(c, e), ExecCourse(e),
         \/ tx' = tx /\ (exec[c].step \in Working => e.step \in Working)
         \/ tx' = (IF tx = c THEN NoCall ELSE tx)
         \/ tx = NoCall /\ tx' = c /\ e.step \in Working
  PROVE  ProcessesInv'
<1>1. /\ exec \in [Calls -> Exec] /\ exec' = [exec EXCEPT ![c] = e]
      /\ UNCHANGED <<plugin, clients, told, plane, call, mood, spent>>
      /\ plane # "off"
  BY DEF ProcessesInv, TypeOK, ExecBecomes, NoExec
<1>2. exec' \in [Calls -> Exec] /\ exec'[c] = e
      /\ \A d \in Calls \ {c} : exec'[d] = exec[d]
  BY <1>1
<1>3. tx' \in Calls \cup {NoCall} /\ (tx' # NoCall => exec'[tx'].step \in Working)
  BY <1>1, <1>2 DEF ProcessesInv, TypeOK, Working
<1>4. TypeOK'
  BY <1>1, <1>2, <1>3 DEF ProcessesInv, TypeOK, Working
<1>5. Courses'
  BY <1>1, <1>2 DEF ProcessesInv, Courses
<1>6. PluginCourse'
  BY <1>1 DEF ProcessesInv, PluginCourse, InPlugin
<1>7. QED
  BY <1>4, <1>5, <1>6 DEF ProcessesInv

(* A record in which "alive" alone changes. *)
LEMMA AliveChanged ==
  ASSUME NEW e \in Exec, NEW alive \in BOOLEAN
  PROVE  LET f == [e EXCEPT !.alive = alive]
         IN  /\ f \in Exec /\ f.step = e.step /\ f.runs = e.runs
             /\ f.ok <=> e.ok
BY DEF Exec

(* A start of the command. *)
LEMMA ExecRuns ==
  ASSUME NEW e \in Exec
  PROVE  LET f == [e EXCEPT !.step = "running", !.runs = 1]
         IN  f \in Exec /\ f.step = "running" /\ f.runs = 1
<1> DEFINE step == "running"
           one == 1
           f == [e EXCEPT !.step = step, !.runs = one]
<1>1. step \in {"session", "running"} /\ one \in 0..2
  OBVIOUS
<1> HIDE DEF step, one
<1>2. f \in Exec
  BY <1>1 DEF Exec
<1>3. f.step = step /\ f.runs = one
  BY DEF Exec
<1>4. QED
  BY <1>2, <1>3 DEF step, one

(* An answer gives the lock back. *)
LEMMA AnswerStep ==
  ASSUME ProcessesInv, NEW c \in Calls, NEW ok \in BOOLEAN, Answer(c, ok),
         exec[c].step # "none", ok => exec[c].step = "running"
  PROVE  ProcessesInv'
<1> DEFINE e == [exec[c] EXCEPT !.step = "answer", !.ok = ok]
<1>1. exec[c] \in Exec /\ ExecCourse(exec[c])
  BY DEF ProcessesInv, TypeOK, Courses
<1>2. e \in Exec /\ ExecCourse(e)
  <2>1. /\ e \in Exec
        /\ e.step = "answer" /\ e.runs = exec[c].runs
    BY <1>1 DEF Exec
  <2>2. e.ok => ok
    BY <1>1 DEF Exec
  <2>3. QED
    BY <1>1, <2>1, <2>2 DEF ExecCourse
<1>3. ExecBecomes(c, e) /\ tx' = (IF tx = c THEN NoCall ELSE tx)
  BY DEF Answer
<1> HIDE DEF e
<1>4. QED
  BY <1>2, <1>3, ExecStep

(* The steps of an RPC in the control plane. *)
LEMMA ControlStep ==
  ASSUME ProcessesInv, NEW c \in Calls,
         \/ Admit(c) \/ Begin(c) \/ Busy(c) \/ Dial(c) \/ RetryFailed(c)
         \/ NewSession(c) \/ Redial(c) \/ Exits(c) \/ Lost(c)
  PROVE  ProcessesInv'
<1>1. exec[c] \in Exec /\ ExecCourse(exec[c])
  BY DEF ProcessesInv, TypeOK, Courses
<1>2. CASE \E ok \in BOOLEAN : /\ Answer(c, ok) /\ exec[c].step # "none"
                               /\ ok => exec[c].step = "running"
  BY <1>2, AnswerStep
<1>3. CASE \E e \in Exec :
             /\ ExecBecomes(c, e) /\ ExecCourse(e) /\ exec[c].step # "none"
             /\ \/ tx' = tx /\ (exec[c].step \in Working => e.step \in Working)
                \/ tx = NoCall /\ tx' = c /\ e.step \in Working
  BY <1>3, ExecStep
<1>4. CASE Admit(c)
  <2> DEFINE e == [exec[c] EXCEPT !.step = "begin"]
  <2>1. e \in Exec /\ ExecCourse(e) /\ exec[c].step \notin Working
    BY <1>1, <1>4 DEF Admit, Exec, ExecCourse, Working
  <2>2. \/ ExecBecomes(c, e) /\ tx' = tx
        \/ Answer(c, FALSE)
    BY <1>4 DEF Admit
  <2> HIDE DEF e
  <2>3. QED
    BY <2>1, <2>2, <1>2, <1>3, <1>4 DEF Admit
<1>5. CASE Begin(c)
  <2> DEFINE e == [exec[c] EXCEPT !.step = "dial"]
  <2>1. e \in Exec /\ ExecCourse(e) /\ e.step \in Working
    BY <1>1, <1>5 DEF Begin, Exec, ExecCourse, Working
  <2>2. ExecBecomes(c, e) /\ tx = NoCall /\ tx' = c
    BY <1>5 DEF Begin
  <2> HIDE DEF e
  <2>3. QED
    BY <2>1, <2>2, <1>3, <1>5 DEF Begin
<1>6. CASE Busy(c) \/ RetryFailed(c) \/ Lost(c)
  <2>1. Answer(c, FALSE) /\ exec[c].step # "none"
    BY <1>6 DEF Busy, RetryFailed, Lost, Unknown
  <2>2. QED
    BY <2>1, <1>2
<1>7. CASE Dial(c)
  <2> DEFINE e == [exec[c] EXCEPT !.step = "session", !.alive = TRUE]
  <2>1. e \in Exec /\ ExecCourse(e) /\ e.step \in Working
    <3> DEFINE dialled == [exec[c] EXCEPT !.step = "session"]
    <3>1. dialled \in Exec /\ dialled.step = "session" /\ dialled.runs = exec[c].runs
      BY <1>1 DEF Exec
    <3>2. e = [dialled EXCEPT !.alive = TRUE]
      BY <1>1 DEF Exec
    <3> HIDE DEF dialled, e
    <3>3. e \in Exec /\ e.step = "session" /\ e.runs = exec[c].runs
      BY <3>1, <3>2, AliveChanged
    <3>4. QED
      BY <1>1, <1>7, <3>3 DEF Dial, ExecCourse, Working
  <2>2. \/ ExecBecomes(c, e) /\ tx' = tx
        \/ Answer(c, FALSE)
    BY <1>7 DEF Dial
  <2> HIDE DEF e
  <2>3. QED
    BY <2>1, <2>2, <1>2, <1>3, <1>7 DEF Dial
<1>8. CASE NewSession(c)
  <2>1. exec[c].step = "session" /\ exec[c].runs = 0
    BY <1>1, <1>8 DEF NewSession, ExecCourse
  <2>2. Started(exec[c]) \in Exec /\ ExecCourse(Started(exec[c]))
        /\ Started(exec[c]).step \in Working
    <3>1. Started(exec[c]) = [exec[c] EXCEPT !.step = "running", !.runs = 1]
      BY <1>1, <2>1 DEF Exec, Started
    <3>2. QED
      BY <1>1, <3>1, ExecRuns DEF ExecCourse, Working
  <2> DEFINE e == [exec[c] EXCEPT !.step = "redial"]
  <2>3. e \in Exec /\ ExecCourse(e) /\ e.step \in Working
    <3>1. e \in Exec /\ e.step = "redial" /\ e.runs = 0
      BY <1>1, <2>1 DEF Exec
    <3>2. QED
      BY <3>1 DEF ExecCourse, Working
  <2>4. \/ ExecBecomes(c, Started(exec[c])) /\ tx' = tx
        \/ ExecBecomes(c, e) /\ tx' = tx
        \/ Answer(c, FALSE)
    BY <1>8 DEF NewSession
  <2> HIDE DEF e
  <2>5. QED
    BY <2>1, <2>2, <2>3, <2>4, <1>2, <1>3
<1>9. CASE Redial(c)
  <2>1. Replaced(exec[c]) \in Exec /\ ExecCourse(Replaced(exec[c]))
        /\ Replaced(exec[c]).step \in Working
    <3>1. exec[c].step = "redial" /\ exec[c].runs = 0
      BY <1>1, <1>9 DEF Redial, ExecCourse
    <3> DEFINE d == IF exec[c].redials = 2 THEN 2 ELSE exec[c].redials + 1
               counted == [exec[c] EXCEPT !.step = "session", !.redials = d]
    <3>2. d \in 0..2
      BY <1>1 DEF Exec
    <3>3. Replaced(exec[c]) = [counted EXCEPT !.alive = TRUE]
      BY <1>1 DEF Exec, Replaced
    <3> HIDE DEF d
    <3>4. /\ counted \in Exec /\ counted.step = "session"
          /\ counted.runs = exec[c].runs
      BY <1>1, <3>2 DEF Exec
    <3> HIDE DEF counted
    <3>5. QED
      BY <3>1, <3>3, <3>4, AliveChanged DEF ExecCourse, Working
  <2>2. \/ ExecBecomes(c, Replaced(exec[c])) /\ tx' = tx
        \/ Answer(c, FALSE)
    BY <1>9 DEF Redial
  <2>3. QED
    BY <2>1, <2>2, <1>2, <1>3, <1>9 DEF Redial
<1>10. CASE Exits(c)
  BY <1>10, <1>2 DEF Exits
<1>11. QED
  BY <1>4, <1>5, <1>6, <1>7, <1>8, <1>9, <1>10

-----------------------------------------------------------------------------
(* The steps of the two processes. *)

LEMMA EndPluginStep ==
  ASSUME ProcessesInv, NEW phase \in {"off", "crashed"}, EndPlugin(phase),
         phase = "crashed" => told, spent' \in Spent
  PROVE  ProcessesInv'
<1>1. /\ call \in [Calls -> Call] /\ call' \in [Calls -> Call]
      /\ \A c \in Calls : /\ ~InPlugin(c)'
                          /\ CallCourse(call[c]) => CallCourse(call'[c])
  BY DEF ProcessesInv, TypeOK, EndPlugin, InPlugin, Call, CallCourse
<1>2. TypeOK'
  BY <1>1 DEF ProcessesInv, TypeOK, EndPlugin, PluginPhases
<1>3. Courses'
  BY <1>1 DEF ProcessesInv, Courses, EndPlugin, InPlugin
<1>4. PluginCourse'
  BY <1>1 DEF ProcessesInv, PluginCourse, EndPlugin
<1>5. QED
  BY <1>2, <1>3, <1>4 DEF ProcessesInv

LEMMA PluginStep ==
  ASSUME ProcessesInv,
         \/ StartService \/ Listen \/ SignalPlugin \/ StopService \/ StopServer
         \/ PluginDrained \/ PluginTimeout \/ (\E c \in Calls : Panic(c))
  PROVE  ProcessesInv'
<1>1. spent \in Spent /\ spent' \in Spent
  BY ProcessesAssumption
     DEF ProcessesInv, TypeOK, Spent, StartService, Listen, SignalPlugin, StopService,
         StopServer, PluginDrained, PluginTimeout, Panic, Under, Spend
<1>2. CASE StartService \/ Listen \/ SignalPlugin \/ StopService \/ StopServer
  <2>1. TypeOK'
    BY <1>1, <1>2 DEF ProcessesInv, TypeOK, PluginPhases, StartService, Listen,
       SignalPlugin, StopService, StopServer
  <2>2. Courses'
    BY <1>2 DEF ProcessesInv, Courses, StartService, Listen, SignalPlugin, StopService,
       StopServer
  <2>3. PluginCourse'
    BY <1>2 DEF ProcessesInv, PluginCourse, InPlugin, StartService, Listen, SignalPlugin,
       StopService, StopServer
  <2>4. QED
    BY <2>1, <2>2, <2>3 DEF ProcessesInv
<1>3. CASE PluginDrained \/ PluginTimeout
  BY <1>1, <1>3, EndPluginStep DEF PluginDrained, PluginTimeout
<1>4. CASE \E c \in Calls : Panic(c)
  <2>1. EndPlugin("crashed") /\ told
    BY <1>4 DEF Panic, ProcessesInv, PluginCourse, InPlugin, TypeOK, PluginPhases
  <2>2. QED
    BY <2>1, <1>1, EndPluginStep
<1>5. QED
  BY <1>2, <1>3, <1>4

LEMMA PlaneStep ==
  ASSUME ProcessesInv, StartPlane \/ SignalPlane \/ PlaneStops
  PROVE  ProcessesInv'
<1>1. CASE StartPlane \/ SignalPlane
  <2>1. TypeOK'
    BY <1>1, ProcessesAssumption DEF ProcessesInv, TypeOK, PlanePhases, Spent, Under, Spend,
       StartPlane, SignalPlane
  <2>2. Courses' /\ PluginCourse'
    BY <1>1 DEF ProcessesInv, Courses, PluginCourse, InPlugin, StartPlane, SignalPlane
  <2>3. QED
    BY <2>1, <2>2 DEF ProcessesInv
<1>2. CASE EndPlane
  <2>1. /\ call' \in [Calls -> Call]
        /\ \A c \in Calls : /\ InPlugin(c)' => InPlugin(c)
                            /\ CallCourse(call[c]) => CallCourse(call'[c])
    BY <1>2 DEF ProcessesInv, TypeOK, EndPlane, InPlugin, Call, CallCourse
  <2>2. /\ exec' \in [Calls -> Exec]
        /\ \A c \in Calls : exec'[c] = NoExec /\ ExecCourse(exec'[c])
    BY <1>2 DEF EndPlane, NoExec, Exec, ExecCourse
  <2>3. TypeOK'
    BY <1>2, <2>1, <2>2 DEF ProcessesInv, TypeOK, EndPlane, RolledBack, PlanePhases
  <2>4. Courses'
    BY <2>1, <2>2 DEF ProcessesInv, Courses, NoExec
  <2>5. PluginCourse'
    BY <1>2, <2>1 DEF ProcessesInv, PluginCourse, EndPlane
  <2>6. QED
    BY <2>3, <2>4, <2>5 DEF ProcessesInv
<1>3. QED
  BY <1>1, <1>2 DEF PlaneStops, PlaneDrained, PlaneTimeout

-----------------------------------------------------------------------------
(* The steps of a CSI call in the plugin, and of a host. *)

(* The call becomes k, which is in the plugin only if the plugin is there. *)
LEMMA CallBecomes ==
  ASSUME ProcessesInv, NEW c \in Calls, NEW k \in Call, NEW e \in Exec,
         call' = [call EXCEPT ![c] = k], CallCourse(k),
         exec' = [exec EXCEPT ![c] = e], ExecCourse(e),
         e = NoExec \/ plane # "off",
         tx = c => e.step \in Working,
         k.step = "handler" => e.step = "none",
         k.step \in {"handler", "rpc"} => plugin \notin {"off", "started", "crashed"},
         spent' \in Spent, UNCHANGED <<plugin, clients, told, plane, tx, mood>>
  PROVE  ProcessesInv'
<1>1. /\ call \in [Calls -> Call] /\ exec \in [Calls -> Exec]
      /\ call'[c] = k /\ exec'[c] = e
      /\ call' \in [Calls -> Call] /\ exec' \in [Calls -> Exec]
      /\ \A d \in Calls \ {c} : call'[d] = call[d] /\ exec'[d] = exec[d]
  BY DEF ProcessesInv, TypeOK
<1>2. TypeOK'
  BY <1>1 DEF ProcessesInv, TypeOK, Working
<1>3. Courses'
  BY <1>1 DEF ProcessesInv, Courses
<1>4. PluginCourse'
  BY <1>1 DEF ProcessesInv, PluginCourse, InPlugin
<1>5. QED
  BY <1>2, <1>3, <1>4 DEF ProcessesInv

LEMMA HandlerStep ==
  ASSUME ProcessesInv, NEW c \in Calls,
         (\E n \in 1..2 : Arrive(c, n)) \/ SendRPC(c) \/ Receive(c) \/ Leave(c)
  PROVE  ProcessesInv'
<1>1. /\ call[c] \in Call /\ exec[c] \in Exec /\ spent \in Spent
      /\ call \in [Calls -> Call] /\ exec \in [Calls -> Exec]
      /\ CallCourse(call[c]) /\ ExecCourse(exec[c])
      /\ tx = c => exec[c].step \in Working
      /\ call[c].step = "handler" => exec[c].step = "none"
      /\ plane = "off" => exec[c] = NoExec
      /\ InPlugin(c) => plugin \notin {"off", "started", "crashed"}
      /\ NoExec \in Exec /\ ExecCourse(NoExec)
  BY ProcessesAssumption
     DEF ProcessesInv, TypeOK, Courses, PluginCourse, Working, NoExec, Exec, ExecCourse
<1>2. ASSUME NEW n \in 1..2, Arrive(c, n)
      PROVE  ProcessesInv'
  <2> DEFINE k == [step |-> "handler", todo |-> n, rpcs |-> n, ran |-> 0]
  <2>1. k \in Call /\ CallCourse(k) /\ k.step = "handler"
    BY DEF Call, CallCourse
  <2>2. /\ call' = [call EXCEPT ![c] = k] /\ exec' = [exec EXCEPT ![c] = exec[c]]
        /\ plugin \in {"serving", "signalled", "clientless"} /\ exec[c].step = "none"
        /\ UNCHANGED <<plugin, clients, told, plane, tx, mood>>
    BY <1>1, <1>2 DEF Arrive
  <2>3. spent' \in Spent
    BY <1>1, <1>2, ProcessesAssumption DEF Arrive, Under, Spend, Spent
  <2> HIDE DEF k
  <2>4. QED
    BY <1>1, <2>1, <2>2, <2>3, CallBecomes
<1>3. CASE SendRPC(c)
  <2>1. call[c].step = "handler" /\ InPlugin(c) /\ tx # c
    BY <1>1, <1>3 DEF SendRPC, InPlugin, Working
  <2> DEFINE k(step) == [call[c] EXCEPT !.step = step]
             e == [NoExec EXCEPT !.step = "admit"]
  <2>2. /\ k("rpc") \in Call /\ CallCourse(k("rpc")) /\ k("rpc").step = "rpc"
        /\ k("failed") \in Call /\ CallCourse(k("failed")) /\ k("failed").step = "failed"
    BY <1>1, <2>1 DEF Call, CallCourse
  <2>3. e \in Exec /\ ExecCourse(e)
    <3>1. e \in Exec /\ e.step = "admit" /\ e.runs = 0
      BY <1>1 DEF NoExec, Exec
    <3>2. QED
      BY <3>1 DEF ExecCourse
  <2>4. UNCHANGED <<plugin, clients, told, plane, tx, mood, spent>>
    BY <1>3 DEF SendRPC
  <2>5. \/ /\ plane # "off"
           /\ call' = [call EXCEPT ![c] = k("rpc")] /\ exec' = [exec EXCEPT ![c] = e]
        \/ /\ call' = [call EXCEPT ![c] = k("failed")]
           /\ exec' = [exec EXCEPT ![c] = exec[c]]
    BY <1>1, <1>3 DEF SendRPC
  <2> HIDE DEF k, e
  <2>6. QED
    BY <1>1, <2>1, <2>2, <2>3, <2>4, <2>5, CallBecomes
<1>4. CASE Receive(c)
  <2>1. /\ exec' = [exec EXCEPT ![c] = NoExec]
        /\ UNCHANGED <<plugin, clients, told, plane, tx, mood, spent>>
        /\ exec[c].step = "answer" /\ tx # c
    BY <1>1, <1>4 DEF Receive, Working
  <2>2. /\ exec[c].runs \in 0..1 /\ (exec[c].ok => exec[c].runs = 1)
    BY <1>1, <2>1 DEF ExecCourse, Exec
  <2>3. CASE call[c].step # "rpc"
    <3>1. call' = [call EXCEPT ![c] = call[c]]
      BY <1>1, <1>4, <2>3 DEF Receive
    <3>2. QED
      BY <1>1, <2>1, <2>3, <3>1, CallBecomes DEF NoExec, InPlugin
  <2>4. CASE call[c].step = "rpc"
    <3>1. /\ call[c].todo \in 1..2 /\ call[c].ran \in 0..2 /\ call[c].rpcs \in 0..2
          /\ call[c].ran + call[c].todo = call[c].rpcs /\ InPlugin(c)
      BY <1>1, <2>4 DEF Call, CallCourse, InPlugin
    <3> DEFINE k == Heard(c)
    <3>2. call' = [call EXCEPT ![c] = k]
      BY <1>4, <2>4 DEF Receive
    <3>3. /\ k.ran = call[c].ran + exec[c].runs /\ k.todo = call[c].todo - 1
          /\ k.rpcs = call[c].rpcs
          /\ k.step = IF AllGood(c) THEN "answered"
                      ELSE IF exec[c].ok THEN "handler" ELSE "failed"
      BY <1>1 DEF Call, Heard
    <3>4. k \in Call
      <4> DEFINE ran == call[c].ran + exec[c].runs
                 todo == call[c].todo - 1
                 step == IF AllGood(c) THEN "answered"
                         ELSE IF exec[c].ok THEN "handler" ELSE "failed"
      <4>1. ran \in 0..2 /\ todo \in 0..2 /\ step \in {"answered", "handler", "failed"}
        BY <2>2, <3>1
      <4>2. k = [call[c] EXCEPT !.ran = ran, !.todo = todo, !.step = step]
        BY DEF Heard
      <4> HIDE DEF ran, todo, step, k
      <4>3. QED
        BY <1>1, <4>1, <4>2 DEF Call
    <3> HIDE DEF k
    <3>5. CallCourse(k) /\ k.step # "rpc"
      BY <2>2, <3>1, <3>3 DEF CallCourse, AllGood
    <3>6. QED
      BY <1>1, <2>1, <3>1, <3>2, <3>4, <3>5, CallBecomes DEF NoExec
  <2>5. QED
    BY <2>3, <2>4
<1>5. CASE Leave(c)
  <2>1. /\ call' = [call EXCEPT ![c] = NoCSICall] /\ exec' = [exec EXCEPT ![c] = exec[c]]
        /\ UNCHANGED <<plugin, clients, told, plane, tx, mood, spent>>
    BY <1>1, <1>5 DEF Leave
  <2>2. NoCSICall \in Call /\ CallCourse(NoCSICall) /\ NoCSICall.step = "idle"
    BY DEF NoCSICall, Call, CallCourse
  <2>3. exec[c] = NoExec \/ plane # "off"
    BY <1>1
  <2> DEFINE k == NoCSICall
  <2> HIDE DEF k
  <2>4. QED
    BY <1>1, <2>1, <2>2, <2>3, CallBecomes DEF k
<1>6. QED
  BY <1>2, <1>3, <1>4, <1>5

(* A dropped connection leaves the executor where it is. *)
LEMMA MoodStep ==
  ASSUME ProcessesInv, NEW c \in Calls, NEW m \in Moods, MoodChanges(c, m)
  PROVE  ProcessesInv'
<1> DEFINE e == [exec[c] EXCEPT !.alive = FALSE]
<1>1. /\ exec \in [Calls -> Exec] /\ exec[c] \in Exec /\ ExecCourse(exec[c])
      /\ exec' = [exec EXCEPT ![c] = e]
      /\ UNCHANGED <<plugin, clients, told, plane, call, tx>>
      /\ mood' \in [Calls -> Moods] /\ spent \in Spent
  BY DEF ProcessesInv, TypeOK, Courses, MoodChanges
<1>2. /\ e \in Exec /\ e.step = exec[c].step
      /\ e.runs = exec[c].runs /\ (e.ok <=> exec[c].ok)
  BY <1>1, AliveChanged
<1>3. exec[c] = NoExec => e = NoExec
  <2>1. NoExec \in Exec /\ NoExec.alive = FALSE
    BY DEF NoExec, Exec
  <2>2. \A x \in Exec : x.alive = FALSE => [x EXCEPT !.alive = FALSE] = x
    BY DEF Exec
  <2>3. QED
    BY <2>1, <2>2
<1>4. ExecCourse(e)
  BY <1>1, <1>2 DEF ExecCourse
<1>5. spent' \in Spent
  BY <1>1, ProcessesAssumption DEF MoodChanges, Under, Spend, Spent
<1> HIDE DEF e
<1>6. /\ exec' \in [Calls -> Exec] /\ exec'[c] = e
      /\ \A d \in Calls \ {c} : exec'[d] = exec[d]
  BY <1>1, <1>2
<1>7. TypeOK'
  BY <1>1, <1>2, <1>3, <1>5, <1>6 DEF ProcessesInv, TypeOK
<1>8. Courses' /\ PluginCourse'
  BY <1>1, <1>2, <1>4, <1>6 DEF ProcessesInv, Courses, PluginCourse, InPlugin
<1>9. QED
  BY <1>7, <1>8 DEF ProcessesInv

-----------------------------------------------------------------------------
(* For any calls and any number of signals, lost connections and arrivals, the
   invariant holds: each executor and each call is on its course, and a process
   that is told to stop or is gone has no handler without its clients but after
   the signal (RemoteExecutor.Exec, CSIService.Start and Stop). *)
THEOREM ProcessesInvariant == Spec => []ProcessesInv
<1>1. Init => ProcessesInv
  <2> SUFFICES ASSUME Init
               PROVE  ProcessesInv
    OBVIOUS
  <2>1. NoCSICall \in Call /\ CallCourse(NoCSICall) /\ NoCSICall.step = "idle"
    BY DEF NoCSICall, Call, CallCourse
  <2>2. NoExec \in Exec /\ ExecCourse(NoExec)
    BY DEF NoExec, Exec, ExecCourse
  <2>3. spent \in Spent
    BY ProcessesAssumption DEF Init, Spent
  <2>4. TypeOK
    BY <2>1, <2>2, <2>3 DEF Init, TypeOK, PluginPhases, PlanePhases, Moods
  <2>5. Courses /\ PluginCourse
    BY <2>1, <2>2 DEF Init, Courses, PluginCourse, InPlugin
  <2>6. QED
    BY <2>4, <2>5 DEF ProcessesInv
<1>2. ProcessesInv /\ [Next]_processVars => ProcessesInv'
  <2> SUFFICES ASSUME ProcessesInv, [Next]_processVars
               PROVE  ProcessesInv'
    OBVIOUS
  <2>1. CASE UNCHANGED processVars
    BY <2>1 DEF processVars, ProcessesInv, TypeOK, Courses, PluginCourse, InPlugin
  <2>2. CASE StartService \/ Listen \/ SignalPlugin \/ PluginStops
    BY <2>2, PluginStep DEF PluginStops
  <2>3. CASE StartPlane \/ SignalPlane \/ PlaneStops
    BY <2>3, PlaneStep
  <2>4. ASSUME NEW c \in Calls, NEW n \in 1..2, Arrive(c, n)
        PROVE  ProcessesInv'
    BY <2>4, HandlerStep
  <2>5. ASSUME NEW c \in Calls, CallStep(c)
        PROVE  ProcessesInv'
    BY <2>5, HandlerStep, ControlStep, PluginStep DEF CallStep
  <2>6. ASSUME NEW c \in Calls, Leave(c)
        PROVE  ProcessesInv'
    BY <2>6, HandlerStep
  <2>7. ASSUME NEW c \in Calls, NEW m \in Moods, MoodChanges(c, m)
        PROVE  ProcessesInv'
    BY <2>7, MoodStep
  <2>8. QED
    BY <2>1, <2>2, <2>3, <2>4, <2>5, <2>6, <2>7 DEF Next
<1>3. QED
  BY <1>1, <1>2, PTL DEF Spec

(* The variables have their types, and the write lock is held by an RPC that is
   at work in a control plane that is there. *)
THEOREM ProcessesTyped == Spec => []TypeOK
<1>1. ProcessesInv => TypeOK
  BY DEF ProcessesInv
<1>2. QED
  BY <1>1, ProcessesInvariant, PTL

(* However often its connection is lost and renewed, an executor starts its
   command at most once (RemoteExecutor.Exec). *)
THEOREM CommandsRunOnce == Spec => []AtMostOnce
<1>1. ProcessesInv => AtMostOnce
  BY DEF ProcessesInv, TypeOK, Courses, ExecCourse, Exec, AtMostOnce
<1>2. QED
  BY <1>1, ProcessesInvariant, PTL

(* A CSI call that is answered OK has had the command of each of its RPCs run,
   once, whatever became of the two processes and of the hosts. *)
THEOREM AnswersAreEarned == Spec => []OkMeansRan
<1>1. ProcessesInv => OkMeansRan
  BY DEF ProcessesInv, Courses, CallCourse, OkMeansRan
<1>2. QED
  BY <1>1, ProcessesInvariant, PTL

(* The plugin panics only after it is told to stop (WireCSIService before
   WireServer; the hooks' order takes the clients first). *)
THEOREM PanicsOnlyStopping == Spec => []CrashesOnlyStopping
<1>1. ProcessesInv => CrashesOnlyStopping
  BY DEF ProcessesInv, PluginCourse, CrashesOnlyStopping
<1>2. QED
  BY <1>1, ProcessesInvariant, PTL

================================================================================
