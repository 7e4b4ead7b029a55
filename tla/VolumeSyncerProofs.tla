-------------------------- MODULE VolumeSyncerProofs --------------------------
(***************************************************************************)
(* Proofs about VolumeSyncer, for any number of hosts, paths, faults and   *)
(* restarts. Whatever overlaps: the variables have their types and a sync  *)
(* has a look to take until it is done. With a sync or a call at a time,   *)
(* over NVMe, and no create that names target paths: nobody but the row's  *)
(* client has the device mounted, and an undisturbed sync leaves the hosts *)
(* as its row wants them.                                                  *)
(***************************************************************************)
EXTENDS VolumeSyncer, VolumeSerialProofs, FiniteSetTheorems, SequenceTheorems

-----------------------------------------------------------------------------
(* The looks of a sync.  They come in the order of the passes, and each has in
   its volume what it names: the guards of the passes. *)

Rank(of) ==
  CASE of = "zvol" -> 1 [] of = "target" -> 2 [] of \in {"acl", "session"} -> 3
    [] of = "staging" -> 4 [] of = "path" -> 5

InPasses(s) == \A i, j \in 1 .. Len(s) : i < j => Rank(s[i].of) <= Rank(s[j].of)

Placed(v, l) ==
  /\ l.of # "path" => v.serverHost # NoHost /\ l.path = NoPath
  /\ l.of \in {"acl", "session", "staging", "path"} => v.clientHost # NoHost
  /\ l.of \in {"staging", "path"} => v.stagingPath # NoPath
  /\ l.of = "path" => l.path \in v.targetPaths

(* The looks at a volume: what is wanted is in its status. *)
Wanted(v) ==
  {l \in Look : /\ Placed(v, l)
                /\ l.of = "zvol" => l.want
                /\ l.of = "target" => (l.want <=> IsPublished(v))
                /\ l.of \in {"acl", "session"} => (l.want <=> IsConnected(v))
                /\ l.of = "staging" => (l.want <=> IsStaged(v))
                /\ l.of = "path" => l.want \/ ~IsMounted(v)}

(* A pass: its looks, in order. *)
Pass(s, W) == s \in Seq(Look) /\ ToSet(s) = W /\ InPasses(s)

LEMMA EmptyPass == Pass(<<>>, {})
BY DEF Pass, ToSet, InPasses

LEMMA OnePass ==
  ASSUME NEW of \in Resources, NEW want \in BOOLEAN
  PROVE  Pass(One(of, want), {[of |-> of, want |-> want, path |-> NoPath]})
<1> DEFINE l == [of |-> of, want |-> want, path |-> NoPath]
<1>1. l \in Look
  BY DEF Look
<1> HIDE DEF l
<1>2. <<l>> \in Seq(Look) /\ ToSet(<<l>>) = {l} /\ InPasses(<<l>>)
  BY <1>1 DEF ToSet, InPasses
<1> QED
  BY <1>2 DEF One, Pass, l

LEMMA SetOfConcat ==
  ASSUME NEW S, NEW s \in Seq(S), NEW t \in Seq(S)
  PROVE  ToSet(s \o t) = ToSet(s) \cup ToSet(t)
<1> DEFINE u == s \o t
<1>1. /\ u \in Seq(S) /\ Len(u) = Len(s) + Len(t)
      /\ \A i \in 1 .. Len(s) + Len(t) : u[i] = IF i <= Len(s) THEN s[i] ELSE t[i - Len(s)]
  BY ConcatProperties
<1>2. /\ Len(s) \in Nat /\ Len(t) \in Nat /\ DOMAIN s = 1 .. Len(s) /\ DOMAIN t = 1 .. Len(t)
      /\ DOMAIN u = 1 .. Len(s) + Len(t)
  BY <1>1, LenProperties
<1> HIDE DEF u
<1>3. ASSUME NEW x \in ToSet(u)
      PROVE  x \in ToSet(s) \cup ToSet(t)
  <2>1. PICK i \in 1 .. Len(s) + Len(t) : x = u[i]
    BY <1>2, <1>3 DEF ToSet
  <2>2. i <= Len(s) => i \in DOMAIN s /\ x = s[i]
    BY <1>1, <1>2, <2>1
  <2>3. i > Len(s) => i - Len(s) \in DOMAIN t /\ x = t[i - Len(s)]
    BY <1>1, <1>2, <2>1
  <2> QED
    BY <1>2, <2>2, <2>3 DEF ToSet
<1>4. ASSUME NEW x \in ToSet(s)
      PROVE  x \in ToSet(u)
  <2>1. PICK i \in 1 .. Len(s) : x = s[i]
    BY <1>2, <1>4 DEF ToSet
  <2>2. i \in DOMAIN u /\ u[i] = x
    BY <1>1, <1>2, <2>1
  <2> QED
    BY <2>2 DEF ToSet
<1>5. ASSUME NEW x \in ToSet(t)
      PROVE  x \in ToSet(u)
  <2>1. PICK i \in 1 .. Len(t) : x = t[i]
    BY <1>2, <1>5 DEF ToSet
  <2>2. Len(s) + i \in DOMAIN u /\ u[Len(s) + i] = x
    BY <1>1, <1>2, <2>1
  <2> QED
    BY <2>2 DEF ToSet
<1> QED
  BY <1>3, <1>4, <1>5 DEF u

LEMMA TwoPasses ==
  ASSUME NEW s, NEW t, NEW V, NEW W, Pass(s, V), Pass(t, W),
         \A a \in V, b \in W : Rank(a.of) <= Rank(b.of)
  PROVE  Pass(s \o t, V \cup W)
<1>1. s \in Seq(Look) /\ t \in Seq(Look)
  BY DEF Pass
<1> DEFINE u == s \o t
<1>2. /\ u \in Seq(Look) /\ Len(u) = Len(s) + Len(t)
      /\ \A i \in 1 .. Len(s) + Len(t) : u[i] = IF i <= Len(s) THEN s[i] ELSE t[i - Len(s)]
  BY <1>1, ConcatProperties
<1>3. ToSet(u) = V \cup W
  BY <1>1, SetOfConcat DEF Pass
<1>4. /\ Len(s) \in Nat /\ Len(t) \in Nat
      /\ \A i \in 1 .. Len(s) : s[i] \in V
      /\ \A i \in 1 .. Len(t) : t[i] \in W
  BY <1>1, LenProperties DEF Pass, ToSet
<1> HIDE DEF u
<1>5. ASSUME NEW i \in 1 .. Len(u), NEW j \in 1 .. Len(u), i < j
      PROVE  Rank(u[i].of) <= Rank(u[j].of)
  <2>1. CASE j <= Len(s)
    <3>1. i \in 1 .. Len(s) /\ j \in 1 .. Len(s) /\ u[i] = s[i] /\ u[j] = s[j]
      BY <1>2, <1>4, <1>5, <2>1
    <3> QED
      BY <1>5, <3>1 DEF Pass, InPasses
  <2>2. CASE i > Len(s)
    <3>1. /\ i - Len(s) \in 1 .. Len(t) /\ j - Len(s) \in 1 .. Len(t)
          /\ i - Len(s) < j - Len(s)
          /\ u[i] = t[i - Len(s)] /\ u[j] = t[j - Len(s)]
      BY <1>2, <1>4, <1>5, <2>2
    <3> QED
      BY <3>1 DEF Pass, InPasses
  <2>3. CASE i <= Len(s) /\ j > Len(s)
    <3>1. i \in 1 .. Len(s) /\ j - Len(s) \in 1 .. Len(t) /\ u[i] = s[i] /\ u[j] = t[j - Len(s)]
      BY <1>2, <1>4, <1>5, <2>3
    <3>2. u[i] \in V /\ u[j] \in W
      BY <1>4, <3>1
    <3> QED
      BY <3>2
  <2>4. i \in Int /\ j \in Int
    BY <1>2, <1>4
  <2> QED
    BY <1>4, <2>1, <2>2, <2>3, <2>4
<1>6. InPasses(u)
  BY <1>5 DEF InPasses
<1> QED
  BY <1>2, <1>3, <1>6 DEF Pass, u

(* The list of paths, in any order: SetToSeq is a choice among the orders. *)
LEMMA ListOfSet ==
  ASSUME NEW S, IsFiniteSet(S)
  PROVE  SetToSeq(S) \in Seq(S) /\ ToSet(SetToSeq(S)) = S
<1> DEFINE n == Cardinality(S)
           f == SetToSeq(S)
<1>1. n \in Nat /\ ExistsBijection(1 .. n, S)
  BY FS_CardinalityType
<1>2. \E g \in [1 .. n -> S] : IsInjective(g)
  BY <1>1 DEF ExistsBijection, Bijection, Injection
<1>3. f \in [1 .. n -> S] /\ IsInjective(f)
  BY <1>2 DEF SetToSeq
<1> HIDE DEF f
<1>4. f \in Injection(1 .. n, S)
  BY <1>3 DEF Injection
<1>5. IsFiniteSet(1 .. n) /\ Cardinality(1 .. n) = n
  BY <1>1, FS_Interval
<1>6. f \in Surjection(1 .. n, S)
  BY <1>4, <1>5, FS_Injection
<1>7. f \in Seq(S)
  BY <1>1, <1>3
<1>8. ToSet(f) = S
  BY <1>3, <1>6 DEF Surjection, ToSet
<1> QED
  BY <1>7, <1>8 DEF f

LEMMA PathsPass ==
  ASSUME NEW v \in Volume, IsFiniteSet(v.targetPaths), NEW want \in BOOLEAN
  PROVE  Pass(AtPaths(v, want),
              {[of |-> "path", want |-> want, path |-> p] : p \in v.targetPaths})
<1> DEFINE s == SetToSeq(v.targetPaths)
           l(p) == [of |-> "path", want |-> want, path |-> p]
           a == AtPaths(v, want)
<1>1. s \in Seq(v.targetPaths) /\ ToSet(s) = v.targetPaths
  BY ListOfSet
<1>2. \A p \in v.targetPaths : l(p) \in Look
  BY DEF Look, Resources, Volume
<1>3. /\ Len(s) \in Nat /\ DOMAIN s = 1 .. Len(s)
      /\ \A i \in 1 .. Len(s) : s[i] \in v.targetPaths
  BY <1>1, LenProperties
<1>4. a = [i \in 1 .. Len(s) |-> l(s[i])]
  BY <1>3 DEF AtPaths
<1>5. v.targetPaths = {s[i] : i \in 1 .. Len(s)}
  BY <1>1, <1>3 DEF ToSet
<1> HIDE DEF s, a
<1>6. a \in [1 .. Len(s) -> Look] /\ DOMAIN a = 1 .. Len(s)
  BY <1>2, <1>3, <1>4
<1>7. a \in Seq(Look) /\ Len(a) = Len(s)
  BY <1>3, <1>6
<1>8. ToSet(a) = {l(p) : p \in v.targetPaths}
  BY <1>3, <1>4, <1>5, <1>6 DEF ToSet
<1>9. InPasses(a)
  <2>1. \A i \in 1 .. Len(a) : a[i].of = "path"
    BY <1>4, <1>7
  <2>2. Rank("path") = 5
    BY DEF Rank
  <2> QED
    BY <2>1, <2>2 DEF InPasses
<1> QED
  BY <1>7, <1>8, <1>9 DEF Pass, a

(* What Sync(v) looks at is all that is wanted of v. *)
LEMMA SyncPasses ==
  ASSUME NEW v \in Volume, IsFiniteSet(v.targetPaths)
  PROVE  Pass(Sync(v), Wanted(v))
<1> DEFINE known == NoHost \notin {v.serverHost, v.clientHost}
           L(of, want) == [of |-> of, want |-> want, path |-> NoPath]
           P(want) == {[of |-> "path", want |-> want, path |-> p] : p \in v.targetPaths}
           Z == IF v.serverHost = NoHost THEN {} ELSE {L("zvol", TRUE)}
           T == IF v.serverHost = NoHost THEN {} ELSE {L("target", IsPublished(v))}
           C == IF ~known THEN {} ELSE {L("acl", IsConnected(v)), L("session", IsConnected(v))}
           S == IF ~known \/ v.stagingPath = NoPath THEN {} ELSE {L("staging", IsStaged(v))}
           M == IF v.clientHost = NoHost \/ v.stagingPath = NoPath THEN {}
                ELSE P(TRUE) \cup (IF IsMounted(v) THEN {} ELSE P(FALSE))
<1>0. IsPublished(v) \in BOOLEAN /\ IsConnected(v) \in BOOLEAN /\ IsStaged(v) \in BOOLEAN
  BY DEF IsPublished, IsConnected, IsStaged
<1>1. Pass(syncZFS(v), Z)
  BY EmptyPass, OnePass DEF syncZFS, Resources
<1>2. Pass(syncPublish(v), T)
  BY <1>0, EmptyPass, OnePass DEF syncPublish, Resources
<1>3. Pass(syncConnect(v), C)
  <2>1. CASE ~known
    BY <2>1, EmptyPass DEF syncConnect
  <2>2. CASE known
    <3>1. \A want \in BOOLEAN : /\ Pass(One("acl", want), {L("acl", want)})
                                /\ Pass(One("session", want), {L("session", want)})
      BY OnePass DEF Resources
    <3>2. \A want \in BOOLEAN :
             /\ Pass(One("acl", want) \o One("session", want),
                     {L("acl", want)} \cup {L("session", want)})
             /\ Pass(One("session", want) \o One("acl", want),
                     {L("session", want)} \cup {L("acl", want)})
      <4> SUFFICES ASSUME NEW want \in BOOLEAN
                   PROVE  /\ Pass(One("acl", want) \o One("session", want),
                                  {L("acl", want)} \cup {L("session", want)})
                          /\ Pass(One("session", want) \o One("acl", want),
                                  {L("session", want)} \cup {L("acl", want)})
        OBVIOUS
      <4>1. \A x \in {L("acl", want), L("session", want)} : Rank(x.of) = 3
        BY DEF Rank
      <4>2. \A i, j \in {3} : i <= j
        OBVIOUS
      <4> HIDE DEF L
      <4> QED
        BY <3>1, <4>1, <4>2, TwoPasses
    <3>3. CASE IsConnected(v)
      <4>1. syncConnect(v) = One("acl", TRUE) \o One("session", TRUE)
        BY <2>2, <3>3 DEF syncConnect
      <4>2. C = {L("acl", TRUE)} \cup {L("session", TRUE)}
        BY <1>0, <2>2, <3>3
      <4> QED
        BY <3>2, <4>1, <4>2
    <3>4. CASE ~IsConnected(v)
      <4>1. syncConnect(v) = One("session", FALSE) \o One("acl", FALSE)
        BY <2>2, <3>4 DEF syncConnect
      <4>2. C = {L("session", FALSE)} \cup {L("acl", FALSE)}
        BY <1>0, <2>2, <3>4
      <4> QED
        BY <3>2, <4>1, <4>2
    <3> QED
      BY <3>3, <3>4
  <2> QED
    BY <2>1, <2>2
<1>4. Pass(syncStage(v), S)
  BY <1>0, EmptyPass, OnePass DEF syncStage, Resources
<1>5. Pass(syncMount(v), M)
  <2>1. \A want \in BOOLEAN : Pass(AtPaths(v, want), P(want))
    BY PathsPass
  <2>2. \A x \in P(TRUE), y \in P(FALSE) \cup {} : Rank(x.of) <= Rank(y.of)
    BY DEF Rank
  <2>3. Pass(AtPaths(v, TRUE) \o AtPaths(v, FALSE), P(TRUE) \cup P(FALSE))
    BY <2>1, <2>2, TwoPasses
  <2>4. Pass(AtPaths(v, TRUE) \o <<>>, P(TRUE) \cup {})
    BY <2>1, EmptyPass, TwoPasses
  <2> HIDE DEF P
  <2> QED
    BY <2>3, <2>4, EmptyPass DEF syncMount
<1>6. /\ \A x \in Z : Rank(x.of) = 1
      /\ \A x \in T : Rank(x.of) = 2
      /\ \A x \in C : Rank(x.of) = 3
      /\ \A x \in S : Rank(x.of) = 4
      /\ \A x \in M : Rank(x.of) = 5
  BY DEF Rank
<1>7. Z \cup T \cup C \cup S \cup M = Wanted(v)
  <2>1. ASSUME NEW x \in Z \cup T \cup C \cup S \cup M
        PROVE  x \in Wanted(v)
    <3>1. CASE x \in Z \cup T
      <4>1. v.serverHost # NoHost /\ x \in {L("zvol", TRUE), L("target", IsPublished(v))}
        BY <3>1
      <4>2. x = L("zvol", TRUE) => x \in Wanted(v)
        BY <4>1 DEF Wanted, Placed, Look, Resources
      <4>3. x = L("target", IsPublished(v)) => x \in Wanted(v)
        BY <1>0, <4>1 DEF Wanted, Placed, Look, Resources
      <4> QED
        BY <4>1, <4>2, <4>3
    <3>2. CASE x \in C
      BY <1>0, <3>2 DEF Wanted, Placed, Look, Resources
    <3>3. CASE x \in S
      BY <1>0, <3>3 DEF Wanted, Placed, Look, Resources
    <3>4. CASE x \in M
      <4>1. /\ v.clientHost # NoHost /\ v.stagingPath # NoPath
            /\ x \in P(TRUE) \/ (~IsMounted(v) /\ x \in P(FALSE))
        BY <3>4
      <4>2. PICK w \in BOOLEAN, p \in v.targetPaths :
               /\ x = [of |-> "path", want |-> w, path |-> p]
               /\ w \/ ~IsMounted(v)
        BY <4>1
      <4>3. x \in Look
        BY <4>2 DEF Look, Resources, Volume
      <4> QED
        BY <4>1, <4>2, <4>3 DEF Wanted, Placed
    <3> QED
      BY <2>1, <3>1, <3>2, <3>3, <3>4
  <2>2. ASSUME NEW x \in Wanted(v)
        PROVE  x \in Z \cup T \cup C \cup S \cup M
    <3>1. /\ x = [of |-> x.of, want |-> x.want, path |-> x.path]
          /\ x.of \in Resources /\ x.want \in BOOLEAN
      BY <2>2 DEF Wanted, Look
    <3>2. CASE x.of = "zvol"
      BY <2>2, <3>1, <3>2 DEF Wanted, Placed
    <3>3. CASE x.of = "target"
      BY <1>0, <2>2, <3>1, <3>3 DEF Wanted, Placed
    <3>4. CASE x.of \in {"acl", "session"}
      BY <1>0, <2>2, <3>1, <3>4 DEF Wanted, Placed
    <3>5. CASE x.of = "staging"
      BY <1>0, <2>2, <3>1, <3>5 DEF Wanted, Placed
    <3>6. CASE x.of = "path"
      BY <2>2, <3>1, <3>6 DEF Wanted, Placed
    <3> QED
      BY <3>1, <3>2, <3>3, <3>4, <3>5, <3>6 DEF Resources
  <2> QED
    BY <2>1, <2>2
<1> HIDE DEF Z, T, C, S, M
<1>8. \A i, j \in {1, 2, 3, 4, 5} : i <= j <=> ~(j < i)
  OBVIOUS
<1>9. Pass(syncZFS(v) \o syncPublish(v), Z \cup T)
  BY <1>1, <1>2, <1>6, TwoPasses
<1>10. Pass((syncZFS(v) \o syncPublish(v)) \o syncConnect(v), Z \cup T \cup C)
  BY <1>3, <1>6, <1>9, TwoPasses
<1>11. Pass(((syncZFS(v) \o syncPublish(v)) \o syncConnect(v)) \o syncStage(v), Z \cup T \cup C \cup S)
  BY <1>4, <1>6, <1>10, TwoPasses
<1>12. Pass(Sync(v), Z \cup T \cup C \cup S \cup M)
  <2>1. \A x \in Z \cup T \cup C \cup S, y \in M : Rank(x.of) <= Rank(y.of)
    BY <1>6
  <2> QED
    BY <1>5, <1>11, <2>1, TwoPasses DEF Sync
<1> QED
  BY <1>7, <1>12

-----------------------------------------------------------------------------
(* The types, and where a sync can be. *)

(* A list of paths grows by one mount at a time. *)
FinitePaths ==
  /\ IsFiniteSet(row.targetPaths)
  /\ \A c \in Calls : IsFiniteSet(call[c].v.targetPaths)

Repairs(l) ==
  IF l.of = "staging" /\ l.want THEN {"waitDevice", "blkid", "mkfs", "mount"}
  ELSE {Repair(l)}

(* A sync has looks to take until it is done, at what is wanted of its volume,
   and repairs only what the first of them is about. *)
OnPass(s) ==
  /\ \A i \in DOMAIN s.todo : s.todo[i] \in Wanted(s.v)
  /\ s.todo = <<>> <=> s.pc \in {"idle", "done"}
  /\ s.pc \in Commands => s.pc \in Repairs(Head(s.todo))

SyncCourse ==
  \A c \in Calls : OnPass(sync[c]) /\ (Busy(c) => call[c].pc = "idle")

SyncTyped ==
  /\ TypeOK /\ Course /\ FinitePaths
  /\ sync \in [Calls -> Syncing]
  /\ restarts \in 0 .. MaxRestarts
  /\ SyncCourse

LEMMA StoredFinite ==
  ASSUME NEW v \in Volume, IsFiniteSet(v.targetPaths)
  PROVE  /\ \A s, t : IsFiniteSet(ToPublished(v, s, t).targetPaths)
         /\ IsFiniteSet(ToUnpublished(v).targetPaths)
         /\ \A h : IsFiniteSet(ToConnected(v, h).targetPaths)
         /\ IsFiniteSet(ToDisconnected(v).targetPaths)
         /\ \A p : IsFiniteSet(ToStaged(v, p).targetPaths)
         /\ IsFiniteSet(ToUnstaged(v).targetPaths)
         /\ \A p : IsFiniteSet(ToMounted(v, p).targetPaths)
         /\ \A p : IsFiniteSet(ToUnmounted(v, p).targetPaths)
         /\ IsFiniteSet(ToUpdated(v).targetPaths)
<1>1. /\ \A s, t : ToPublished(v, s, t).targetPaths = v.targetPaths
      /\ ToUnpublished(v).targetPaths = v.targetPaths
      /\ \A h : ToConnected(v, h).targetPaths = v.targetPaths
      /\ ToDisconnected(v).targetPaths = v.targetPaths
      /\ \A p : ToStaged(v, p).targetPaths = v.targetPaths
      /\ ToUnstaged(v).targetPaths = v.targetPaths
      /\ ToUpdated(v).targetPaths = v.targetPaths
  BY DEF ToPublished, ToUnpublished, ToConnected, ToDisconnected, ToStaged, ToUnstaged,
     ToUpdated, Volume
<1>2. \A p : ToMounted(v, p).targetPaths = v.targetPaths \cup {p}
  BY DEF ToMounted, Volume
<1>3. \A p : ToUnmounted(v, p).targetPaths = v.targetPaths \ {p}
  BY DEF ToUnmounted, Volume
<1>4. \A p : IsFiniteSet(v.targetPaths \cup {p}) /\ IsFiniteSet(v.targetPaths \ {p})
  BY FS_AddElement, FS_RemoveElement
<1>5. ASSUME NEW p PROVE IsFiniteSet(ToMounted(v, p).targetPaths)
  <2> DEFINE grown == v.targetPaths \cup {p}
  <2>1. IsFiniteSet(grown) /\ ToMounted(v, p).targetPaths = grown
    BY <1>2, <1>4
  <2> HIDE DEF grown
  <2> QED
    BY <2>1
<1>6. \A p : IsFiniteSet(ToUnmounted(v, p).targetPaths)
  BY <1>3, <1>4
<1> QED
  BY <1>1, <1>5, <1>6

(* What a step of the service is to the other calls: it moves its own. *)
LEMMA RequestElsewhere ==
  ASSUME TypeOK, NEW c \in Calls, Request(c)
  PROVE  row' = row /\ \A d \in Calls \ {c} : call'[d] = call[d]
<1>1. PICK op, v, at, ready, pc : Accept(c, op, pc, v, at, ready)
  BY RequestAccepts
<1> QED
  BY <1>1 DEF Accept, TypeOK

LEMMA ProgressMoves ==
  ASSUME TypeOK, NEW c \in Calls, Progress(c) \/ Fault(c)
  PROVE  /\ call[c].pc # "idle"
         /\ \E pc \in Steps : Goto(c, pc)
         /\ row' \in {row, NoVolume, Updates(row, call[c].v)}
<1>1. CASE Begin(c)
  BY <1>1, StepsTaken DEF Begin
<1>2. CASE WriteUpdate(c)
  BY <1>2, StepsTaken DEF WriteUpdate
<1>3. CASE NotReady(c) \/ LockTimeout(c)
  BY <1>3 DEF NotReady, LockTimeout, Fail, Steps
<1>4. CASE CommandFails(c) \/ Fault(c)
  BY <1>4 DEF CommandFails, Fault, LoseAnswer, LoseCommand, Fail, Steps, Commands, ZfsCommands,
     TargetCommands, SessionCommands, FsCommands, MountCommands
<1>5. CASE RunCommand(c)
  <2>1. call[c].pc \in Commands /\ call[c].pc # "idle" /\ row' = row
    BY <1>5 DEF RunCommand, Commands, ZfsCommands, TargetCommands, SessionCommands, FsCommands,
       MountCommands
  <2> QED
    BY <1>5, <2>1, AfterStep DEF RunCommand
<1>6. CASE Commit(c) \/ DeleteRow(c)
  BY <1>6 DEF Commit, DeleteRow, Steps
<1> QED
  BY <1>1, <1>2, <1>3, <1>4, <1>5, <1>6 DEF Progress

LEMMA FiniteStep ==
  ASSUME TypeOK, FinitePaths, [Next]_vars
  PROVE  FinitePaths'
<1> USE FS_EmptySet
<1>0. IsFiniteSet(NoVolume.targetPaths) /\ IsFiniteSet(Idle.v.targetPaths)
  BY DEF NoVolume, NewVolume, NoOutputs, Idle
<1>1. ASSUME NEW m \in CreateModes, NEW t \in AnyTransport,
             NEW out \in CreateOutputs, CreateVolume(m, t, out)
      PROVE  FinitePaths'
  <2>1. IsFiniteSet(NewVolume(m, t, out).targetPaths)
    BY OutputsAssumption DEF NewVolume
  <2> QED
    BY <1>1, <2>1 DEF CreateVolume, FinitePaths
<1>2. ASSUME NEW c \in Calls, Request(c)
      PROVE  FinitePaths'
  <2>1. row \in Volume /\ IsFiniteSet(row.targetPaths)
    BY DEF TypeOK, FinitePaths
  <2>2. PICK op, v, at, ready, pc : Accept(c, op, pc, v, at, ready) /\ IsFiniteSet(v.targetPaths)
    <3>1. CASE DeleteVolume(c)
      BY <2>1, <3>1 DEF DeleteVolume
    <3>2. CASE \E s \in Servers \cup {NoHost}, t \in Transports : PublishVolume(c, s, t)
      BY <2>1, <3>2, StoredFinite DEF PublishVolume
    <3>3. CASE UnpublishVolume(c)
      BY <2>1, <3>3, StoredFinite DEF UnpublishVolume
    <3>4. CASE \E h \in Clients \cup {NoHost} : ConnectVolume(c, h)
      BY <2>1, <3>4, StoredFinite DEF ConnectVolume
    <3>5. CASE DisconnectVolume(c)
      BY <2>1, <3>5, StoredFinite DEF DisconnectVolume
    <3>6. CASE \E p \in StagingPaths : StageVolume(c, p)
      BY <2>1, <3>6, StoredFinite DEF StageVolume
    <3>7. CASE UnstageVolume(c)
      BY <2>1, <3>7, StoredFinite DEF UnstageVolume
    <3>8. CASE \E p \in MountPaths : MountVolume(c, p)
      BY <2>1, <3>8, StoredFinite DEF MountVolume
    <3>9. CASE \E p \in MountPaths : UnmountVolume(c, p)
      BY <2>1, <3>9, StoredFinite DEF UnmountVolume
    <3>10. CASE UpdateVolume(c)
      BY <2>1, <3>10, StoredFinite DEF UpdateVolume
    <3> QED
      BY <1>2, <3>1, <3>2, <3>3, <3>4, <3>5, <3>6, <3>7, <3>8, <3>9, <3>10 DEF Request
  <2>3. /\ row' = row /\ call'[c].v = v
        /\ \A d \in Calls \ {c} : call'[d] = call[d]
    BY <2>2 DEF Accept, TypeOK
  <2> QED
    BY <2>1, <2>2, <2>3 DEF FinitePaths
<1>3. ASSUME NEW c \in Calls, Progress(c) \/ Fault(c)
      PROVE  FinitePaths'
  <2>1. PICK pc \in Steps : Goto(c, pc)
    BY <1>3, ProgressMoves
  <2>2. /\ call'[c].v \in {Idle.v, call[c].v}
        /\ \A d \in Calls \ {c} : call'[d] = call[d]
    BY <2>1, GotoStep
  <2>3. IsFiniteSet(Updates(row, call[c].v).targetPaths)
    BY DEF Updates, FinitePaths
  <2>4. IsFiniteSet(row'.targetPaths)
    BY <1>0, <1>3, <2>3, ProgressMoves DEF FinitePaths
  <2>5. IsFiniteSet(call'[c].v.targetPaths)
    BY <1>0, <2>2 DEF FinitePaths
  <2> QED
    BY <2>2, <2>4, <2>5 DEF FinitePaths
<1>4. CASE Crash
  BY <1>0, <1>4 DEF Crash, FinitePaths
<1>5. CASE UNCHANGED vars
  BY <1>5 DEF vars, FinitePaths
<1> QED
  BY <1>1, <1>2, <1>3, <1>4, <1>5 DEF Next

(* How a step moves the sync of its own slot, and those of the others. *)
LEMMA BecomesStep ==
  ASSUME sync \in [Calls -> Syncing], NEW c \in Calls, NEW s \in Syncing, Becomes(c, s)
  PROVE  /\ sync' \in [Calls -> Syncing]
         /\ sync'[c] = s
         /\ \A d \in Calls \ {c} :
               /\ sync'[d].pc = sync[d].pc
               /\ sync'[d].v = sync[d].v
               /\ sync'[d].todo = sync[d].todo
<1>1. PICK touched \in BOOLEAN :
         sync' = [d \in Calls |->
                    IF d = c THEN s
                    ELSE [sync[d] EXCEPT !.calm = @ /\ ~(touched /\ Busy(d))]]
  BY DEF Becomes
<1>2. \A d \in Calls : sync[d] \in Syncing
  OBVIOUS
<1>3. ASSUME NEW d \in Calls, NEW b \in BOOLEAN
      PROVE  /\ [sync[d] EXCEPT !.calm = b] \in Syncing
             /\ [sync[d] EXCEPT !.calm = b].pc = sync[d].pc
             /\ [sync[d] EXCEPT !.calm = b].v = sync[d].v
             /\ [sync[d] EXCEPT !.calm = b].todo = sync[d].todo
  BY <1>2 DEF Syncing
<1>4. \A d \in Calls : (sync[d].calm /\ ~(touched /\ Busy(d))) \in BOOLEAN
  OBVIOUS
<1> QED
  BY <1>1, <1>3, <1>4

LEMMA DisturbedStep ==
  ASSUME sync \in [Calls -> Syncing], Disturbed
  PROVE  /\ sync' \in [Calls -> Syncing]
         /\ \A d \in Calls :
               /\ sync'[d].pc = sync[d].pc
               /\ sync'[d].v = sync[d].v
               /\ sync'[d].todo = sync[d].todo
               /\ sync'[d].calm => sync[d].calm /\ (Busy(d) => world' = world)
<1>1. PICK touched \in {world' # world} :
         sync' = [d \in Calls |->
                    [sync[d] EXCEPT !.calm = @ /\ ~(touched /\ Busy(d))]]
  BY DEF Disturbed
<1>2. \A d \in Calls : sync[d] \in Syncing
  OBVIOUS
<1>3. ASSUME NEW d \in Calls, NEW b \in BOOLEAN
      PROVE  /\ [sync[d] EXCEPT !.calm = b] \in Syncing
             /\ [sync[d] EXCEPT !.calm = b].pc = sync[d].pc
             /\ [sync[d] EXCEPT !.calm = b].v = sync[d].v
             /\ [sync[d] EXCEPT !.calm = b].todo = sync[d].todo
             /\ [sync[d] EXCEPT !.calm = b].calm <=> b
  BY <1>2 DEF Syncing
<1>4. \A d \in Calls : (sync[d].calm /\ ~(touched /\ Busy(d))) \in BOOLEAN
  OBVIOUS
<1>5. touched <=> world' # world
  BY <1>1
<1> QED
  BY <1>1, <1>3, <1>4, <1>5

LEMMA AtRestType == AtRest \in Syncing /\ OnPass(AtRest) /\ AtRest.pc = "idle"
<1>1. NoVolume \in Volume /\ <<>> \in Seq(Look) /\ DOMAIN <<>> = {}
  BY NewVolumeType
<1>2. AtRest \in Syncing
  BY <1>1 DEF AtRest, Syncing
<1>3. "idle" \notin Commands
  BY DEF Commands, ZfsCommands, TargetCommands, SessionCommands, FsCommands, MountCommands
<1> QED
  BY <1>1, <1>2, <1>3 DEF AtRest, OnPass

(* The first look, and those behind it. *)
LEMMA FirstLook ==
  ASSUME NEW s \in Syncing, OnPass(s), s.todo # <<>>
  PROVE  /\ Head(s.todo) \in Wanted(s.v) /\ Head(s.todo) \in Look
         /\ Tail(s.todo) \in Seq(Look)
         /\ ToSet(s.todo) = {Head(s.todo)} \cup ToSet(Tail(s.todo))
         /\ \A i \in DOMAIN Tail(s.todo) :
               i + 1 \in DOMAIN s.todo /\ Tail(s.todo)[i] = s.todo[i + 1]
         /\ SyncPlace(s.v, Head(s.todo).path) \in Place
<1> DEFINE t == s.todo
           r == Tail(t)
<1>1. t \in Seq(Look) /\ t # <<>> /\ s.v \in Volume
  BY DEF Syncing
<1>2. \A u \in Seq(Look) : u # <<>> =>
         /\ 1 \in DOMAIN u /\ Head(u) = u[1] /\ Head(u) \in Look
         /\ Tail(u) \in Seq(Look)
         /\ Len(Tail(u)) + 1 = Len(u)
         /\ \A i \in DOMAIN Tail(u) : i + 1 \in DOMAIN u /\ Tail(u)[i] = u[i + 1]
  OBVIOUS
<1>3. /\ 1 \in DOMAIN t /\ Head(t) = t[1] /\ Head(t) \in Look
      /\ r \in Seq(Look) /\ Len(r) + 1 = Len(t)
      /\ \A i \in DOMAIN r : i + 1 \in DOMAIN t /\ r[i] = t[i + 1]
  BY <1>1, <1>2
<1>4. DOMAIN t = 1 .. Len(t) /\ DOMAIN r = 1 .. Len(r) /\ Len(r) \in Nat
  BY <1>1, <1>3, LenProperties
<1>5. Head(t) \in Wanted(s.v)
  BY <1>3 DEF OnPass
<1> HIDE DEF t, r
<1>6. ToSet(t) = {Head(t)} \cup ToSet(r)
  <2>1. ASSUME NEW i \in DOMAIN t
        PROVE  t[i] \in {Head(t)} \cup ToSet(r)
    <3>1. CASE i = 1
      BY <1>3, <3>1
    <3>2. CASE i # 1
      <4>1. i - 1 \in DOMAIN r /\ r[i - 1] = t[(i - 1) + 1] /\ (i - 1) + 1 = i
        BY <1>3, <1>4, <2>1, <3>2
      <4> QED
        BY <4>1 DEF ToSet
    <3> QED
      BY <3>1, <3>2
  <2>2. {Head(t)} \cup ToSet(r) \subseteq ToSet(t)
    BY <1>3 DEF ToSet
  <2> QED
    BY <2>1, <2>2 DEF ToSet
<1>7. SyncPlace(s.v, Head(t).path) \in Place
  <2>1. Head(t).path \in MountPaths \cup {NoPath}
    BY <1>3 DEF Look
  <2>2. PlaceOf(s.v, Head(t).path) \in Place
    BY <1>1, <2>1, PlaceType
  <2> QED
    BY <2>2 DEF SyncPlace, Place
<1> QED
  BY <1>3, <1>5, <1>6, <1>7 DEF t, r

LEMMA AdvanceStep ==
  ASSUME sync \in [Calls -> Syncing], NEW c \in Calls, OnPass(sync[c]), sync[c].todo # <<>>
  PROVE  /\ Advance(c) \in Syncing /\ OnPass(Advance(c))
         /\ Advance(c).v = sync[c].v
         /\ Advance(c).todo = Tail(sync[c].todo)
         /\ Advance(c).pc \in {"look", "done"}
         /\ Advance(c).calm = sync[c].calm
<1> DEFINE s == sync[c]
           r == Tail(s.todo)
           a == Advance(c)
           q == IF r = <<>> THEN "done" ELSE "look"
<1>1. s \in Syncing /\ OnPass(s) /\ s.todo # <<>>
  OBVIOUS
<1>0. a = [s EXCEPT !.todo = r, !.pc = q]
  BY DEF Advance
<1> HIDE DEF s, r, a
<1>2. /\ a.v = s.v /\ a.todo = r /\ a.calm = s.calm /\ a.pc = q
      /\ a = [pc |-> a.pc, v |-> a.v, todo |-> a.todo, calm |-> a.calm]
  BY <1>0, <1>1 DEF Syncing
<1>3. /\ r \in Seq(Look)
      /\ \A i \in DOMAIN r : i + 1 \in DOMAIN s.todo /\ r[i] = s.todo[i + 1]
  BY <1>1, FirstLook DEF r
<1>4. a \in Syncing
  BY <1>1, <1>2, <1>3 DEF Syncing
<1>5. a.pc \notin Commands
  BY <1>2 DEF Commands, ZfsCommands, TargetCommands, SessionCommands, FsCommands, MountCommands
<1>6. OnPass(a)
  BY <1>1, <1>2, <1>3, <1>5 DEF OnPass
<1> QED
  BY <1>2, <1>4, <1>6 DEF a, r, s

(* A sync begins to repair. *)
LEMMA RepairStep ==
  ASSUME NEW s \in Syncing, OnPass(s), s.todo # <<>>, NEW b \in BOOLEAN,
         NEW cmd \in Repairs(Head(s.todo)),
         NEW r, r = [s EXCEPT !.pc = cmd, !.calm = b]
  PROVE  /\ r \in Syncing /\ OnPass(r) /\ r.pc = cmd /\ r.v = s.v /\ r.todo = s.todo
         /\ r.calm = b /\ r.pc \in Commands
<1>1. /\ r.pc = cmd /\ r.v = s.v /\ r.todo = s.todo /\ r.calm = b
      /\ r = [pc |-> r.pc, v |-> r.v, todo |-> r.todo, calm |-> r.calm]
  BY DEF Syncing
<1>2. Head(s.todo) \in Look
  BY FirstLook
<1>3. cmd \in Commands
  BY <1>2 DEF Repairs, Repair, Look, Resources, Commands, ZfsCommands, TargetCommands,
     SessionCommands, FsCommands, MountCommands
<1>4. {"idle", "done"} \cap Commands = {}
  BY DEF Commands, ZfsCommands, TargetCommands, SessionCommands, FsCommands, MountCommands
<1> QED
  BY <1>1, <1>3, <1>4 DEF Syncing, OnPass

(* What a repair names is in the volume, and the world it leaves is one. *)
LEMMA RepairType ==
  ASSUME NEW s \in Syncing, OnPass(s), s.pc \in Commands, NEW w \in World,
         Succeeds(s.pc, w, SyncPlace(s.v, Head(s.todo).path))
  PROVE  Effect(s.pc, w, SyncPlace(s.v, Head(s.todo).path)) \in World
<1> DEFINE l == Head(s.todo)
           at == SyncPlace(s.v, l.path)
<1>1. s.todo # <<>> /\ s.pc \in Repairs(l) /\ s.v \in Volume
  BY DEF OnPass, Syncing, Commands, ZfsCommands, TargetCommands, SessionCommands,
     FsCommands, MountCommands
<1>2. at \in Place /\ l \in Wanted(s.v) /\ l \in Look
  BY <1>1, FirstLook
<1>3. at.server = s.v.serverHost /\ at.client = s.v.clientHost /\ at.staging = s.v.stagingPath
  BY DEF SyncPlace, PlaceOf
<1>4. /\ s.pc = "publish" => l.of = "target"
      /\ s.pc = "authorize" => l.of = "acl"
      /\ s.pc = "bind" => l.of = "path"
  BY <1>1, <1>2 DEF Repairs, Repair, Look, Resources
<1>5. Placed(s.v, l)
  BY <1>2 DEF Wanted
<1>6. /\ s.pc = "publish" => at.server \in Servers
      /\ s.pc = "authorize" => at.client \in Clients
      /\ s.pc = "bind" => at.staging \in StagingPaths
  BY <1>1, <1>3, <1>4, <1>5 DEF Placed, Volume
<1> HIDE DEF at, l
<1> QED
  BY <1>2, <1>6, EffectType DEF at, l

(* A step of a sync: it moves this sync alone, to where a sync can be. *)
Moves(c, s) ==
  /\ Busy(c)
  /\ s \in Syncing /\ OnPass(s) /\ Becomes(c, s)
  /\ s.pc # "idle" => s.v = sync[c].v
  /\ UNCHANGED <<row, lock, call, restarts>>
  /\ world' \in World /\ faults' \in Nat

LEMMA SyncMoves ==
  ASSUME SyncTyped, NEW c \in Calls, SyncProgress(c) \/ LoseLook(c) \/ LoseRepair(c)
  PROVE  \E s : Moves(c, s)
<1> DEFINE s == sync[c]
           l == Head(s.todo)
<1>1. s \in Syncing /\ OnPass(s) /\ world \in World /\ faults \in Nat /\ faults + 1 \in Nat
  BY DEF SyncTyped, SyncCourse, TypeOK
<1>2. ~("idle" \in Commands) /\ ~("done" \in Commands) /\ ~("look" \in Commands)
  BY DEF Commands, ZfsCommands, TargetCommands, SessionCommands, FsCommands, MountCommands
<1>3. s.pc # "idle" <=> Busy(c)
  BY DEF Busy
<1>4. AtRest \in Syncing /\ OnPass(AtRest) /\ AtRest.pc = "idle"
  BY AtRestType
<1>5. s.todo = <<>> <=> s.pc \in {"idle", "done"}
  BY <1>1 DEF OnPass
<1>6. s.todo # <<>> => /\ Advance(c) \in Syncing /\ OnPass(Advance(c))
                       /\ Advance(c).v = s.v
                       /\ l \in Look
  BY <1>1, AdvanceStep, FirstLook DEF SyncTyped
<1>7. \A k \in Look : Repair(k) \in Repairs(k)
  <2> SUFFICES ASSUME NEW k \in Look PROVE Repair(k) \in Repairs(k)
    OBVIOUS
  <2>1. CASE k.of = "staging" /\ k.want
    BY <2>1 DEF Repairs, Repair
  <2>2. CASE ~(k.of = "staging" /\ k.want)
    BY <2>2 DEF Repairs
  <2> QED
    BY <2>1, <2>2
<1>8. s.pc \in Commands /\ Succeeds(s.pc, world, Where(c)) => Effect(s.pc, world, Where(c)) \in World
  BY <1>1, RepairType DEF Where
<1> HIDE DEF s
<1>9. CASE TakeLook(c)
  <2>1. /\ s.pc = "look" /\ UNCHANGED <<vars, restarts>>
        /\ \/ Becomes(c, Advance(c))
           \/ Becomes(c, AtRest)
           \/ Becomes(c, [s EXCEPT !.pc = Repair(l)])
    BY <1>9 DEF TakeLook, s
  <2>2. s.todo # <<>>
    BY <1>5, <2>1
  <2>3. /\ [s EXCEPT !.pc = Repair(l)] \in Syncing /\ OnPass([s EXCEPT !.pc = Repair(l)])
        /\ [s EXCEPT !.pc = Repair(l)].v = s.v
    <3> DEFINE r == [s EXCEPT !.pc = Repair(l)]
    <3>1. s.calm \in BOOLEAN /\ r = [s EXCEPT !.pc = Repair(l), !.calm = s.calm]
      BY <1>1 DEF Syncing
    <3>2. Repair(l) \in Repairs(l)
      BY <1>6, <1>7, <2>2
    <3> HIDE DEF r
    <3>3. r \in Syncing /\ OnPass(r)
      BY <1>1, <2>2, <3>1, <3>2, RepairStep
    <3>4. r.v = s.v
      BY <1>1 DEF r, Syncing
    <3> QED
      BY <3>3, <3>4 DEF r
  <2> QED
    BY <1>1, <1>3, <1>4, <1>6, <2>1, <2>2, <2>3 DEF Moves, vars, s
<1>10. CASE RunRepair(c)
  <2>1. /\ s.pc \in Commands /\ Succeeds(s.pc, world, Where(c))
        /\ world' = Effect(s.pc, world, Where(c))
        /\ UNCHANGED <<row, lock, call, faults, restarts>>
        /\ \/ s.pc \notin FsCommands /\ Becomes(c, Advance(c))
           \/ /\ s.pc \in FsCommands
              /\ Becomes(c, [s EXCEPT !.pc = After(s.pc, s.pc, world, Where(c))])
    BY <1>10 DEF RunRepair, s
  <2>2. s.todo # <<>>
    BY <1>2, <1>5, <2>1
  <2>3. s.pc \in FsCommands =>
           /\ [s EXCEPT !.pc = After(s.pc, s.pc, world, Where(c))] \in Syncing
           /\ OnPass([s EXCEPT !.pc = After(s.pc, s.pc, world, Where(c))])
           /\ [s EXCEPT !.pc = After(s.pc, s.pc, world, Where(c))].v = s.v
    <3> SUFFICES ASSUME s.pc \in FsCommands
                 PROVE  /\ [s EXCEPT !.pc = After(s.pc, s.pc, world, Where(c))] \in Syncing
                        /\ OnPass([s EXCEPT !.pc = After(s.pc, s.pc, world, Where(c))])
                        /\ [s EXCEPT !.pc = After(s.pc, s.pc, world, Where(c))].v = s.v
      OBVIOUS
    <3> DEFINE a == After(s.pc, s.pc, world, Where(c))
    <3>1. s.pc \in Repairs(l)
      BY <1>1, <2>1 DEF OnPass
    <3>2. /\ l.of = "staging" /\ l.want
          /\ s.pc \in {"waitDevice", "blkid", "mkfs"}
      BY <1>6, <2>2, <3>1 DEF Repairs, Repair, Look, Resources, FsCommands
    <3>3. a \in Repairs(l)
      BY <3>2 DEF After, Repairs
    <3> HIDE DEF a
    <3> DEFINE r == [s EXCEPT !.pc = a]
    <3>4. s.calm \in BOOLEAN /\ r = [s EXCEPT !.pc = a, !.calm = s.calm]
      BY <1>1 DEF Syncing
    <3> HIDE DEF r
    <3>5. r \in Syncing /\ OnPass(r)
      BY <1>1, <2>2, <3>3, <3>4, RepairStep
    <3>6. r.v = s.v
      BY <1>1 DEF r, Syncing
    <3> QED
      BY <3>5, <3>6 DEF r, a
  <2> QED
    BY <1>1, <1>2, <1>3, <1>6, <1>8, <2>1, <2>2, <2>3 DEF Moves, s
<1>11. CASE RepairFails(c) \/ SyncAnswer(c)
  <2>1. s.pc \in Commands \cup {"done"} /\ UNCHANGED <<vars, restarts>> /\ Becomes(c, AtRest)
    BY <1>11 DEF RepairFails, SyncAnswer, s
  <2> QED
    BY <1>1, <1>2, <1>3, <1>4, <2>1 DEF Moves, vars, s
<1>12. CASE LoseLook(c)
  <2>1. /\ s.pc = "look" /\ faults' = faults + 1
        /\ UNCHANGED <<row, lock, call, world, restarts>>
        /\ \/ Becomes(c, AtRest)
           \/ Becomes(c, [Advance(c) EXCEPT !.calm = FALSE])
           \/ Becomes(c, [s EXCEPT !.pc = Repair(l), !.calm = FALSE])
    BY <1>12 DEF LoseLook, s
  <2>2. s.todo # <<>>
    BY <1>5, <2>1
  <2>3. /\ [s EXCEPT !.pc = Repair(l), !.calm = FALSE] \in Syncing
        /\ OnPass([s EXCEPT !.pc = Repair(l), !.calm = FALSE])
    BY <1>1, <1>6, <1>7, <2>2, RepairStep
  <2>4. [s EXCEPT !.pc = Repair(l), !.calm = FALSE].v = s.v
    BY <1>1 DEF Syncing
  <2>5. \A a \in Syncing : OnPass(a) =>
           /\ [a EXCEPT !.calm = FALSE] \in Syncing /\ OnPass([a EXCEPT !.calm = FALSE])
           /\ [a EXCEPT !.calm = FALSE].v = a.v
    BY DEF Syncing, OnPass
  <2> QED
    BY <1>1, <1>3, <1>4, <1>6, <2>1, <2>2, <2>3, <2>4, <2>5 DEF Moves, s
<1>13. CASE LoseRepair(c)
  <2>1. /\ s.pc \in Commands /\ faults' = faults + 1
        /\ \/ world' = world
           \/ /\ Succeeds(s.pc, world, Where(c))
              /\ world' = Effect(s.pc, world, Where(c))
        /\ Becomes(c, AtRest)
        /\ UNCHANGED <<row, lock, call, restarts>>
    BY <1>13 DEF LoseRepair, s
  <2> QED
    BY <1>1, <1>2, <1>3, <1>4, <1>8, <2>1 DEF Moves
<1> QED
  BY <1>9, <1>10, <1>11, <1>12, <1>13 DEF SyncProgress

(* The restarts of the hosts. *)
LEMMA RestartType ==
  ASSUME world \in World,
         (\E h \in Clients : ClientRestarts(h)) \/ (\E s \in Servers : ServerRestarts(s))
  PROVE  /\ world' \in World
         /\ UNCHANGED <<row, lock, call, faults>>
         /\ restarts < MaxRestarts /\ restarts' = restarts + 1
         /\ Disturbed
<1>1. ASSUME NEW h \in Clients, ClientRestarts(h)
      PROVE  world' \in World
  <2>1. PICK back \in BOOLEAN :
           world' = [world EXCEPT !.mount[h] = [p \in Paths |-> <<>>],
                                  !.session = {s \in @ : s.client = h => back}]
    BY <1>1 DEF ClientRestarts
  <2>2. <<>> \in Seq(Backing)
    OBVIOUS
  <2>3. [p \in Paths |-> <<>>] \in [Paths -> Seq(Backing)]
    BY <2>2
  <2> QED
    BY <2>1, <2>3 DEF World
<1>2. ASSUME NEW s \in Servers, ServerRestarts(s)
      PROVE  world' \in World
  <2>1. PICK lost \in SUBSET {t \in world.target : t[1] = s} :
           world' = [world EXCEPT !.target = @ \ lost,
                                  !.acl = {a \in @ : a[1] \notin lost}]
    BY <1>2 DEF ServerRestarts
  <2> QED
    BY <2>1 DEF World
<1> QED
  BY <1>1, <1>2 DEF ClientRestarts, ServerRestarts

LEMMA SyncTypedStep ==
  ASSUME SyncTyped, [SyncNext]_syncVars
  PROVE  SyncTyped'
<1>1. /\ TypeOK /\ Course /\ FinitePaths /\ SyncCourse /\ sync \in [Calls -> Syncing]
      /\ restarts \in 0 .. MaxRestarts
  BY DEF SyncTyped
<1>2. ASSUME UNCHANGED <<sync, restarts>>, [Next]_vars,
             \A c \in Calls : call'[c] = call[c]
      PROVE  SyncTyped'
  <2>1. TypeOK' /\ Course' /\ FinitePaths'
    BY <1>1, <1>2, TypeStep, FiniteStep
  <2>2. SyncCourse'
    BY <1>1, <1>2 DEF SyncCourse, Busy
  <2> QED
    BY <1>1, <1>2, <2>1, <2>2 DEF SyncTyped
<1>3. CASE /\ \E m \in CreateModes, t \in AnyTransport, out \in CreateOutputs :
                    CreateVolume(m, t, out)
           /\ UNCHANGED <<sync, restarts>>
  BY <1>2, <1>3 DEF Next, CreateVolume
<1>4. ASSUME NEW c \in Calls, ServiceStep(c)
      PROVE  SyncTyped'
  <2>1. /\ (Request(c) /\ ~Busy(c)) \/ Progress(c) \/ Fault(c)
        /\ Disturbed /\ restarts' = restarts
    BY <1>4 DEF ServiceStep
  <2>2. TypeOK' /\ Course' /\ FinitePaths'
    BY <1>1, <2>1, TypeStep, FiniteStep DEF Next
  <2>3. \A d \in Calls \ {c} : call'[d] = call[d]
    <3>1. CASE Request(c)
      BY <1>1, <3>1, RequestElsewhere
    <3>2. CASE Progress(c) \/ Fault(c)
      <4>1. PICK pc \in Steps : Goto(c, pc)
        BY <1>1, <3>2, ProgressMoves
      <4> QED
        BY <1>1, <4>1, GotoStep
    <3> QED
      BY <2>1, <3>1, <3>2
  <2>4. ~Busy(c)
    BY <1>1, <2>1, ProgressMoves DEF SyncCourse
  <2>5. /\ sync' \in [Calls -> Syncing]
        /\ \A d \in Calls : /\ sync'[d].pc = sync[d].pc
                            /\ sync'[d].v = sync[d].v
                            /\ sync'[d].todo = sync[d].todo
    BY <1>1, <2>1, DisturbedStep
  <2>6. SyncCourse'
    BY <1>1, <2>3, <2>4, <2>5 DEF SyncCourse, Busy, OnPass
  <2> QED
    BY <1>1, <2>1, <2>2, <2>5, <2>6 DEF SyncTyped
<1>5. ASSUME NEW c \in Calls, SyncVolume(c)
      PROVE  SyncTyped'
  <2> DEFINE s == [pc |-> "look", v |-> row, todo |-> Sync(row), calm |-> TRUE]
  <2>1. /\ call[c].pc = "idle" /\ Sync(row) # <<>>
        /\ sync' = [sync EXCEPT ![c] = s]
        /\ UNCHANGED <<vars, restarts>>
    BY <1>5 DEF SyncVolume
  <2>2. row \in Volume /\ Pass(Sync(row), Wanted(row))
    BY <1>1, SyncPasses DEF TypeOK, FinitePaths
  <2>3. s \in Syncing
    BY <2>2 DEF Syncing, Pass
  <2>4. s.pc \notin Commands
    BY DEF Commands, ZfsCommands, TargetCommands, SessionCommands, FsCommands, MountCommands
  <2>5. OnPass(s)
    BY <2>1, <2>2, <2>4 DEF OnPass, Pass, ToSet
  <2> HIDE DEF s
  <2>6. /\ sync' \in [Calls -> Syncing] /\ sync'[c] = s
        /\ \A d \in Calls \ {c} : sync'[d] = sync[d]
    BY <1>1, <2>1, <2>3
  <2>7. SyncCourse'
    BY <1>1, <2>1, <2>5, <2>6 DEF SyncCourse, Busy, vars
  <2>8. TypeOK' /\ Course' /\ FinitePaths'
    BY <1>1, <2>1, TypeStep, FiniteStep
  <2> QED
    BY <1>1, <2>1, <2>6, <2>7, <2>8 DEF SyncTyped
<1>6. ASSUME NEW c \in Calls, SyncProgress(c) \/ LoseLook(c) \/ LoseRepair(c)
      PROVE  SyncTyped'
  <2>1. PICK s : Moves(c, s)
    BY <1>6, SyncMoves
  <2>2. /\ sync' \in [Calls -> Syncing] /\ sync'[c] = s
        /\ \A d \in Calls \ {c} : /\ sync'[d].pc = sync[d].pc
                                  /\ sync'[d].v = sync[d].v
                                  /\ sync'[d].todo = sync[d].todo
    BY <1>1, <2>1, BecomesStep DEF Moves
  <2>3. /\ UNCHANGED <<row, lock, call, restarts>>
        /\ world' \in World /\ faults' \in Nat /\ OnPass(s) /\ Busy(c)
    BY <2>1 DEF Moves
  <2>4. TypeOK' /\ Course' /\ FinitePaths'
    BY <1>1, <2>3 DEF TypeOK, Course, OnCourse, FinitePaths
  <2>5. SyncCourse'
    BY <1>1, <2>2, <2>3 DEF SyncCourse, Busy, OnPass
  <2> QED
    BY <1>1, <2>2, <2>3, <2>4, <2>5 DEF SyncTyped
<1>7. CASE (\E h \in Clients : ClientRestarts(h)) \/ (\E s \in Servers : ServerRestarts(s))
  <2>1. /\ world' \in World /\ UNCHANGED <<row, lock, call, faults>>
        /\ restarts < MaxRestarts /\ restarts' = restarts + 1 /\ Disturbed
    BY <1>1, <1>7, RestartType DEF TypeOK
  <2>2. /\ sync' \in [Calls -> Syncing]
        /\ \A d \in Calls : /\ sync'[d].pc = sync[d].pc
                            /\ sync'[d].v = sync[d].v
                            /\ sync'[d].todo = sync[d].todo
    BY <1>1, <2>1, DisturbedStep
  <2>3. TypeOK' /\ Course' /\ FinitePaths'
    BY <1>1, <2>1 DEF TypeOK, Course, OnCourse, FinitePaths
  <2>4. SyncCourse'
    BY <1>1, <2>1, <2>2 DEF SyncCourse, Busy, OnPass
  <2>5. restarts' \in 0 .. MaxRestarts
    BY <1>1, <2>1, RestartsAssumption
  <2> QED
    BY <2>2, <2>3, <2>4, <2>5 DEF SyncTyped
<1>8. CASE CrashAll
  <2>1. /\ call' = [c \in Calls |-> Idle] /\ lock' = NoCall
        /\ sync' = [c \in Calls |-> AtRest] /\ faults' = faults + 1
        /\ UNCHANGED <<row, world, restarts>>
    BY <1>8 DEF CrashAll
  <2>2. TypeOK'
    BY <1>1, <2>1, IdleType DEF TypeOK
  <2>3. \A c \in Calls : call'[c].pc = "idle"
    BY <2>1 DEF Idle
  <2>4. Course'
    BY <2>3 DEF Course, OnCourse
  <2>5. FinitePaths'
    <3>1. IsFiniteSet(Idle.v.targetPaths)
      BY FS_EmptySet DEF Idle, NoVolume, NewVolume, NoOutputs
    <3> QED
      BY <1>1, <2>1, <3>1 DEF FinitePaths
  <2>6. sync' \in [Calls -> Syncing] /\ SyncCourse'
    BY <2>1, <2>3, AtRestType DEF SyncCourse
  <2> QED
    BY <1>1, <2>1, <2>2, <2>4, <2>5, <2>6 DEF SyncTyped
<1>9. CASE UNCHANGED syncVars
  BY <1>2, <1>9 DEF syncVars, vars
<1> QED
  BY <1>3, <1>4, <1>5, <1>6, <1>7, <1>8, <1>9 DEF SyncNext

LEMMA SyncTypedInit == SyncInit => SyncTyped
<1> SUFFICES ASSUME SyncInit PROVE SyncTyped
  OBVIOUS
<1>1. Init /\ sync = [c \in Calls |-> AtRest] /\ restarts = 0
  BY DEF SyncInit
<1>2. TypeOK /\ Course
  BY <1>1, InitType
<1>3. FinitePaths
  BY <1>1, FS_EmptySet DEF Init, FinitePaths, Idle, NoVolume, NewVolume, NoOutputs
<1>4. sync \in [Calls -> Syncing] /\ SyncCourse
  BY <1>1, AtRestType DEF SyncCourse, Busy
<1> QED
  BY <1>1, <1>2, <1>3, <1>4, RestartsAssumption DEF SyncTyped

(* Whatever calls and syncs overlap, and whatever restarts under them: the
   variables have their types, a slot runs a sync or a call of the service but not
   both, and a sync has a look to take or to repair until it is done (the loops of
   VolumeSyncer.Sync). *)
THEOREM SyncsTyped == SyncSpec => []SyncTypeOK
<1>1. SyncTyped => SyncTypeOK
  BY DEF SyncTyped, SyncTypeOK, SyncCourse, OnPass
<1>2. SyncTyped /\ [SyncNext]_syncVars => SyncTyped'
  BY SyncTypedStep
<1> QED
  BY <1>1, <1>2, SyncTypedInit, PTL DEF SyncSpec

-----------------------------------------------------------------------------
(* A sync or a call at a time. *)

(* A sync works on the row as it is committed: no call comes between. *)
SyncFresh == \A c \in Calls : Busy(c) => sync[c].v = row /\ Exists(row)

SyncSerial == SyncFresh /\ SerialInv

LEMMA SyncSerialStep ==
  ASSUME OneCall, PathlessCreates, SyncTyped, SyncSerial, [SyncNext]_syncVars
  PROVE  SyncSerial'
<1>1. /\ TypeOK /\ Course /\ SyncCourse /\ sync \in [Calls -> Syncing]
      /\ SyncFresh /\ SerialInv
  BY DEF SyncTyped, SyncSerial
<1>2. ASSUME UNCHANGED <<row, call>>
      PROVE  SerialInv'
  BY <1>1, <1>2 DEF SerialInv, Fresh
<1>3. CASE /\ \E m \in CreateModes, t \in AnyTransport, out \in CreateOutputs :
                    CreateVolume(m, t, out)
           /\ UNCHANGED <<sync, restarts>>
  <2>1. SerialInv'
    BY <1>1, <1>3, SerialStep DEF Next
  <2>2. ~Exists(row) /\ sync' = sync
    BY <1>3 DEF CreateVolume
  <2> QED
    BY <1>1, <2>1, <2>2 DEF SyncSerial, SyncFresh, Busy
<1>4. ASSUME NEW c \in Calls, ServiceStep(c)
      PROVE  SyncSerial'
  <2>1. /\ (Request(c) /\ ~Busy(c)) \/ Progress(c) \/ Fault(c)
        /\ Disturbed
    BY <1>4 DEF ServiceStep
  <2>2. SerialInv'
    BY <1>1, <2>1, SerialStep DEF Next
  <2>3. ~Busy(c)
    BY <1>1, <2>1, ProgressMoves DEF SyncCourse
  <2>4. \A d \in Calls : sync'[d].pc = sync[d].pc /\ d = c
    BY <1>1, <2>1, DisturbedStep DEF OneCall
  <2> QED
    BY <2>2, <2>3, <2>4 DEF SyncSerial, SyncFresh, Busy
<1>5. ASSUME NEW c \in Calls, SyncVolume(c)
      PROVE  SyncSerial'
  <2>1. /\ Exists(row) /\ UNCHANGED vars
        /\ sync' = [sync EXCEPT ![c] = [pc |-> "look", v |-> row, todo |-> Sync(row),
                                        calm |-> TRUE]]
    BY <1>5 DEF SyncVolume
  <2>2. \A d \in Calls : sync'[d].v = row
    BY <1>1, <2>1 DEF OneCall
  <2> QED
    BY <1>2, <2>1, <2>2 DEF SyncSerial, SyncFresh, vars
<1>6. ASSUME NEW c \in Calls, SyncProgress(c) \/ LoseLook(c) \/ LoseRepair(c)
      PROVE  SyncSerial'
  <2>1. PICK s : Moves(c, s)
    BY <1>6, SyncMoves
  <2>2. /\ UNCHANGED <<row, call>> /\ Busy(c) /\ s.pc # "idle" => s.v = sync[c].v
        /\ \A d \in Calls : sync'[d] = s /\ d = c
    BY <1>1, <2>1, BecomesStep DEF Moves, OneCall
  <2> QED
    BY <1>1, <1>2, <2>1, <2>2 DEF SyncSerial, SyncFresh, Busy, Moves
<1>7. CASE (\E h \in Clients : ClientRestarts(h)) \/ (\E s \in Servers : ServerRestarts(s))
  <2>1. UNCHANGED <<row, call>> /\ Disturbed
    BY <1>1, <1>7, RestartType DEF TypeOK
  <2>2. \A d \in Calls : sync'[d].pc = sync[d].pc /\ sync'[d].v = sync[d].v
    BY <1>1, <2>1, DisturbedStep
  <2> QED
    BY <1>1, <1>2, <2>1, <2>2 DEF SyncSerial, SyncFresh, Busy
<1>8. CASE CrashAll
  <2>1. /\ \A c \in Calls : sync'[c] = AtRest /\ call'[c] = Idle
        /\ row' = row
    BY <1>8 DEF CrashAll
  <2>2. SerialInv'
    BY <1>1, <2>1 DEF SerialInv, Fresh, Idle
  <2> QED
    BY <2>1, <2>2 DEF SyncSerial, SyncFresh, Busy, AtRest
<1>9. CASE UNCHANGED syncVars
  BY <1>1, <1>2, <1>9 DEF syncVars, vars, SyncSerial, SyncFresh, Busy
<1> QED
  BY <1>3, <1>4, <1>5, <1>6, <1>7, <1>8, <1>9 DEF SyncNext

(* What a repair is about, in a row that suits its status. *)
LEMMA RepairKnows ==
  ASSUME NEW s \in Syncing, OnPass(s), s.pc \in Commands, Shape(s.v),
         NEW l, l = Head(s.todo), NEW at, at = SyncPlace(s.v, l.path)
  PROVE  /\ s.todo # <<>> /\ s.v \in Volume
         /\ l \in Wanted(s.v) /\ l \in Look /\ at \in Place
         /\ at.server = s.v.serverHost /\ at.client = s.v.clientHost
         /\ at.type = s.v.transport.type
         /\ at.staging = s.v.stagingPath /\ at.path = l.path
         /\ \/ s.pc = "zfsCreate" /\ l.of = "zvol" /\ l.want
            \/ s.pc = "publish" /\ l.of = "target" /\ l.want
            \/ s.pc = "unpublish" /\ l.of = "target" /\ ~l.want
            \/ s.pc = "authorize" /\ l.of = "acl" /\ l.want
            \/ s.pc = "unauthorize" /\ l.of = "acl" /\ ~l.want
            \/ s.pc = "login" /\ l.of = "session" /\ l.want
            \/ s.pc = "logout" /\ l.of = "session" /\ ~l.want
            \/ s.pc \in {"waitDevice", "blkid", "mkfs", "mount"} /\ l.of = "staging" /\ l.want
            \/ s.pc = "umountStaging" /\ l.of = "staging" /\ ~l.want
            \/ s.pc = "bind" /\ l.of = "path" /\ l.want
         /\ l.of = "zvol" => at.server \in Servers
         /\ l.of = "target" => at.server \in Servers /\ (l.want <=> IsPublished(s.v))
         /\ l.of \in {"acl", "session"} =>
               /\ at.server \in Servers /\ at.client \in Clients
               /\ l.want <=> IsConnected(s.v)
         /\ l.of = "staging" =>
               /\ at.client \in Clients /\ at.staging \in StagingPaths
               /\ l.want <=> IsStaged(s.v)
         /\ l.of = "path" =>
               /\ at.client \in Clients /\ at.staging \in StagingPaths
               /\ at.path \in MountPaths /\ l.want /\ IsMounted(s.v)
<1>1. s.todo # <<>> /\ s.pc \in Repairs(l) /\ s.v \in Volume
  BY DEF OnPass, Syncing, Commands, ZfsCommands, TargetCommands, SessionCommands,
     FsCommands, MountCommands
<1>2. at \in Place /\ l \in Wanted(s.v) /\ l \in Look
  BY <1>1, FirstLook
<1>3. /\ at.server = s.v.serverHost /\ at.client = s.v.clientHost
      /\ at.type = s.v.transport.type
      /\ at.staging = s.v.stagingPath /\ at.path = l.path
  BY DEF SyncPlace, PlaceOf
<1>4. Placed(s.v, l)
  BY <1>2 DEF Wanted
<1>5. /\ l.of = "zvol" => at.server \in Servers /\ l.want
      /\ l.of = "target" => at.server \in Servers /\ (l.want <=> IsPublished(s.v))
      /\ l.of \in {"acl", "session"} =>
            /\ at.server \in Servers /\ at.client \in Clients
            /\ l.want <=> IsConnected(s.v)
      /\ l.of = "staging" =>
            /\ at.client \in Clients /\ at.staging \in StagingPaths
            /\ l.want <=> IsStaged(s.v)
  BY <1>1, <1>2, <1>3, <1>4 DEF Placed, Wanted, Volume
<1>6. l.of = "path" =>
         /\ at.client \in Clients /\ at.staging \in StagingPaths
         /\ at.path \in MountPaths /\ l.want /\ IsMounted(s.v)
  BY <1>1, <1>2, <1>3, <1>4 DEF Placed, Wanted, Volume, Shape
<1>7. \/ s.pc = "zfsCreate" /\ l.of = "zvol" /\ l.want
      \/ s.pc = "publish" /\ l.of = "target" /\ l.want
      \/ s.pc = "unpublish" /\ l.of = "target" /\ ~l.want
      \/ s.pc = "authorize" /\ l.of = "acl" /\ l.want
      \/ s.pc = "unauthorize" /\ l.of = "acl" /\ ~l.want
      \/ s.pc = "login" /\ l.of = "session" /\ l.want
      \/ s.pc = "logout" /\ l.of = "session" /\ ~l.want
      \/ s.pc \in {"waitDevice", "blkid", "mkfs", "mount"} /\ l.of = "staging" /\ l.want
      \/ s.pc = "umountStaging" /\ l.of = "staging" /\ ~l.want
      \/ s.pc = "bind" /\ l.of = "path" /\ l.want
  <2>1. CASE l.of = "staging" /\ l.want
    BY <1>1, <2>1 DEF Repairs
  <2>2. CASE ~(l.of = "staging" /\ l.want)
    <3>1. s.pc = Repair(l)
      BY <1>1, <2>2 DEF Repairs
    <3>2. l.of \in Resources /\ l.want \in BOOLEAN
      BY <1>2 DEF Look
    <3> QED
      BY <1>5, <1>6, <2>2, <3>1, <3>2 DEF Repair, Resources
  <2> QED
    BY <2>1, <2>2
<1> QED
  BY <1>1, <1>2, <1>3, <1>5, <1>6, <1>7

-----------------------------------------------------------------------------
(* The devices that are mounted. *)

(* A sync finds a session whatever its portal: NVMe names it by the subsystem. *)
NvmeOnly == "ISCSI" \notin Transports

(* On a staging path a device is only ever shown, never hidden under a mount. *)
OneLayer(w) ==
  \A c \in Clients, p \in StagingPaths : \A i \in DOMAIN w.mount[c][p] :
     w.mount[c][p][i].kind = "device" => i = 1

LEMMA NvmePlaces ==
  ASSUME NvmeOnly
  PROVE  /\ \A w \in World : DataPortals(w)
         /\ \A at \in Place : at.type # "ISCSI"
<1>1. ASSUME NEW w \in World, NEW s \in w.session
      PROVE  s.type # "ISCSI"
  BY <1>1 DEF NvmeOnly, World, Sessions
<1> QED
  BY <1>1 DEF NvmeOnly, DataPortals, Place

LEMMA Shown ==
  ASSUME NEW w \in World, NEW c \in Clients, NEW p \in Paths
  PROVE  /\ ShownAt(w, c, p) \in Backing
         /\ w.mount[c][p] # <<>> => /\ 1 \in DOMAIN w.mount[c][p]
                                    /\ ShownAt(w, c, p) = w.mount[c][p][1]
         /\ w.mount[c][p] = <<>> => ShownAt(w, c, p).kind = "dir"
<1>1. w.mount[c][p] \in Seq(Backing)
  BY DEF World
<1>2. \A q \in Seq(Backing) : q # <<>> => 1 \in DOMAIN q /\ Head(q) = q[1] /\ Head(q) \in Backing
  OBVIOUS
<1>3. PlainDir \in Backing /\ PlainDir.kind = "dir"
  BY DEF PlainDir, Backing
<1> QED
  BY <1>1, <1>2, <1>3 DEF ShownAt

LEMMA PushMounts ==
  ASSUME NEW w \in World, NEW c \in Clients, NEW p \in Paths, NEW e \in Backing,
         NEW m, m = Push(w, c, p, e).mount
  PROVE  /\ m[c][p] # <<>> /\ Head(m[c][p]) = e
         /\ \A i \in DOMAIN m[c][p] :
               i # 1 => i - 1 \in DOMAIN w.mount[c][p] /\ m[c][p][i] = w.mount[c][p][i - 1]
         /\ \A d \in Clients, q \in Paths : d # c \/ q # p => m[d][q] = w.mount[d][q]
<1>1. w.mount[c][p] \in Seq(Backing)
  BY DEF World
<1>2. \A q \in Seq(Backing) : LET t == <<e>> \o q
                              IN  /\ t # <<>> /\ Head(t) = e
                                  /\ \A i \in DOMAIN t :
                                        i # 1 => i - 1 \in DOMAIN q /\ t[i] = q[i - 1]
  <2> SUFFICES ASSUME NEW q \in Seq(Backing)
               PROVE  LET t == <<e>> \o q
                      IN  /\ t # <<>> /\ Head(t) = e
                          /\ \A i \in DOMAIN t :
                                i # 1 => i - 1 \in DOMAIN q /\ t[i] = q[i - 1]
    OBVIOUS
  <2>1. /\ <<e>> \in Seq(Backing) /\ Len(<<e>>) = 1 /\ <<e>>[1] = e
        /\ Len(q) \in Nat /\ DOMAIN q = 1 .. Len(q)
    BY LenProperties
  <2>2. /\ (<<e>> \o q) \in Seq(Backing) /\ Len(<<e>> \o q) = 1 + Len(q)
        /\ \A i \in 1 .. 1 + Len(q) :
              (<<e>> \o q)[i] = IF i <= 1 THEN <<e>>[i] ELSE q[i - 1]
    BY <2>1, ConcatProperties
  <2> DEFINE t == <<e>> \o q
  <2>3. DOMAIN t = 1 .. 1 + Len(q)
    BY <2>2, LenProperties
  <2> HIDE DEF t
  <2>4. t \in Seq(Backing) /\ Len(t) = 1 + Len(q) /\ t[1] = e
    BY <2>1, <2>2 DEF t
  <2>5. t # <<>> /\ Head(t) = e
    BY <2>1, <2>4
  <2>6. ASSUME NEW i \in DOMAIN t, i # 1
        PROVE  i - 1 \in DOMAIN q /\ t[i] = q[i - 1]
    BY <2>1, <2>2, <2>3, <2>6 DEF t
  <2> QED
    BY <2>5, <2>6 DEF t
<1>3. m[c][p] = <<e>> \o w.mount[c][p]
  BY DEF Push, World
<1>4. \A d \in Clients, q \in Paths : d # c \/ q # p => m[d][q] = w.mount[d][q]
  BY DEF Push, World
<1> QED
  BY <1>1, <1>2, <1>3, <1>4

LEMMA LayerPush ==
  ASSUME NEW w \in World, NEW c \in Clients, NEW p \in Paths, NEW e \in Backing,
         OneLayer(w), p \in StagingPaths => ShownAt(w, c, p).kind # "device"
  PROVE  OneLayer(Push(w, c, p, e))
<1> DEFINE m == Push(w, c, p, e).mount
<1> SUFFICES ASSUME NEW d \in Clients, NEW q \in StagingPaths, NEW i \in DOMAIN m[d][q],
                    m[d][q][i].kind = "device", i # 1
             PROVE  FALSE
  BY DEF OneLayer
<1>1. q \in Paths
  BY DEF Paths
<1>2. CASE d = c /\ q = p
  <2>1. i - 1 \in DOMAIN w.mount[c][p] /\ m[c][p][i] = w.mount[c][p][i - 1]
    BY <1>2, PushMounts
  <2>2. i - 1 = 1
    BY <1>2, <2>1 DEF OneLayer
  <2>3. w.mount[c][p] # <<>>
    BY <2>1
  <2> QED
    BY <1>2, <2>1, <2>2, <2>3, Shown
<1>3. CASE d # c \/ q # p
  <2>1. m[d][q] = w.mount[d][q]
    BY <1>1, <1>3, PushMounts
  <2> QED
    BY <2>1 DEF OneLayer
<1> QED
  BY <1>2, <1>3

LEMMA LayerPop ==
  ASSUME NEW w \in World, NEW c \in Clients, NEW p \in Paths, OneLayer(w),
         w.mount[c][p] # <<>>
  PROVE  /\ OneLayer(Pop(w, c, p))
         /\ p \in StagingPaths => ShownAt(Pop(w, c, p), c, p).kind # "device"
<1> DEFINE m == Pop(w, c, p).mount
<1>1. /\ m[c][p] = Tail(w.mount[c][p])
      /\ \A d \in Clients, q \in Paths : d # c \/ q # p => m[d][q] = w.mount[d][q]
  BY PopMounts
<1>2. w.mount[c][p] \in Seq(Backing)
  BY DEF World
<1>3. \A s \in Seq(Backing) : s # <<>> =>
         /\ Tail(s) \in Seq(Backing)
         /\ \A j \in DOMAIN Tail(s) : j \in Nat \ {0} /\ j + 1 \in DOMAIN s /\ Tail(s)[j] = s[j + 1]
         /\ Tail(s) # <<>> => 1 \in DOMAIN Tail(s) /\ Head(Tail(s)) = Tail(s)[1]
  OBVIOUS
<1>4. p \in StagingPaths => \A j \in DOMAIN m[c][p] : m[c][p][j].kind # "device"
  <2> SUFFICES ASSUME p \in StagingPaths, NEW j \in DOMAIN m[c][p]
               PROVE  m[c][p][j].kind # "device"
    OBVIOUS
  <2>1. j \in Nat \ {0} /\ j + 1 \in DOMAIN w.mount[c][p] /\ m[c][p][j] = w.mount[c][p][j + 1]
    BY <1>1, <1>2, <1>3
  <2> QED
    BY <2>1 DEF OneLayer
<1>5. OneLayer(Pop(w, c, p))
  <2> SUFFICES ASSUME NEW d \in Clients, NEW q \in StagingPaths, NEW i \in DOMAIN m[d][q],
                      m[d][q][i].kind = "device"
               PROVE  i = 1
    BY DEF OneLayer
  <2>1. ~(d = c /\ q = p)
    BY <1>4
  <2>2. m[d][q] = w.mount[d][q]
    BY <1>1, <2>1 DEF Paths
  <2> QED
    BY <2>2 DEF OneLayer
<1>6. ASSUME p \in StagingPaths
      PROVE  ShownAt(Pop(w, c, p), c, p).kind # "device"
  <2>1. CASE m[c][p] = <<>>
    BY <2>1 DEF ShownAt, PlainDir
  <2>2. CASE m[c][p] # <<>>
    <3>1. 1 \in DOMAIN m[c][p] /\ Head(m[c][p]) = m[c][p][1]
      BY <1>1, <1>2, <1>3, <2>2
    <3>2. ShownAt(Pop(w, c, p), c, p) = m[c][p][1]
      BY <2>2, <3>1 DEF ShownAt
    <3> HIDE DEF m
    <3> QED
      BY <1>4, <1>6, <3>1, <3>2
  <2> QED
    BY <2>1, <2>2
<1> QED
  BY <1>5, <1>6

(* What every command keeps, wherever it runs: only a mount over a mounted device
   would hide one. *)
LEMMA LayerCommand ==
  ASSUME NEW w \in World, NEW at \in Place, NEW cmd \in Commands, Succeeds(cmd, w, at),
         DataPortals(w), at.type = "ISCSI" => at.portal = "data", OneLayer(w),
         cmd \in MountCommands => at.client \in Clients,
         cmd \in {"mount", "umountStaging", "bind"} => at.staging \in StagingPaths,
         cmd \in {"bind", "umountTarget"} => at.path \in MountPaths,
         cmd = "mount" => ShownAt(w, at.client, at.staging).kind # "device"
  PROVE  OneLayer(Effect(cmd, w, at))
<1> DEFINE x == Effect(cmd, w, at)
<1>1. CASE cmd \notin MountCommands \cup {"logout"}
  <2>1. x.mount = w.mount
    BY <1>1, StillMounts
  <2> QED
    BY <2>1 DEF OneLayer
<1>2. CASE cmd = "logout"
  <2>1. x = CloseSessions(w, at)
    BY <1>2, Wrapper DEF SessionCommands, SessionEffect
  <2>2. \A d \in Clients, q \in Paths :
           x.mount[d][q] = IF d = at.client
                           THEN [i \in DOMAIN w.mount[d][q] |->
                                   IF w.mount[d][q][i] = Device(at.server, at.type)
                                   THEN Dead ELSE w.mount[d][q][i]]
                           ELSE w.mount[d][q]
    BY <2>1, LogoutMounts
  <2> HIDE DEF x
  <2> SUFFICES ASSUME NEW d \in Clients, NEW q \in StagingPaths, NEW i \in DOMAIN x.mount[d][q],
                      x.mount[d][q][i].kind = "device"
               PROVE  i = 1
    BY DEF OneLayer, x
  <2>3. i \in DOMAIN w.mount[d][q] /\ w.mount[d][q][i].kind = "device"
    <3>1. q \in Paths
      BY DEF Paths
    <3>2. CASE d = at.client
      <4>1. x.mount[d][q] = [j \in DOMAIN w.mount[d][q] |->
                               IF w.mount[d][q][j] = Device(at.server, at.type)
                               THEN Dead ELSE w.mount[d][q][j]]
        BY <2>2, <3>1, <3>2
      <4>2. /\ i \in DOMAIN w.mount[d][q]
            /\ x.mount[d][q][i] \in {Dead, w.mount[d][q][i]}
        BY <4>1
      <4> QED
        BY <4>2 DEF Dead
    <3>3. CASE d # at.client
      BY <2>2, <3>1, <3>3
    <3> QED
      BY <3>2, <3>3
  <2> QED
    BY <2>3 DEF OneLayer
<1>3. CASE cmd \in MountCommands
  <2>1. /\ MountSucceeds(cmd, w, at) /\ x = MountEffect(cmd, w, at)
        /\ at.client \in Clients
    BY <1>3, Wrapper
  <2>2. CASE cmd = "mount"
    <3>1. x = Push(w, at.client, at.staging, Device(at.server, at.type))
      BY <2>1, <2>2 DEF MountEffect
    <3>2. Device(at.server, at.type) \in Backing /\ at.staging \in Paths
      BY <2>2 DEF Device, Backing, Place, Paths
    <3> QED
      BY <2>1, <2>2, <3>1, <3>2, LayerPush
  <2>3. CASE cmd = "bind"
    <3>1. x = Push(w, at.client, at.path, ShownAt(w, at.client, at.staging))
      BY <2>1, <2>3 DEF MountEffect
    <3>2. at.path \in Paths /\ at.path \notin StagingPaths /\ at.staging \in Paths
      BY <2>3, PathsAssumption DEF Paths
    <3>3. ShownAt(w, at.client, at.staging) \in Backing
      BY <2>1, <3>2, Shown
    <3> HIDE DEF x
    <3> QED
      BY <2>1, <3>1, <3>2, <3>3, LayerPush DEF x
  <2>4. CASE cmd = "umountStaging"
    <3>1. /\ w.mount[at.client][at.staging] # <<>> /\ at.staging \in Paths
          /\ x = Pop(w, at.client, at.staging)
      BY <2>1, <2>4 DEF MountSucceeds, MountEffect, Paths
    <3> QED
      BY <2>1, <3>1, LayerPop
  <2>5. CASE cmd = "umountTarget"
    <3>1. /\ w.mount[at.client][at.path] # <<>> /\ at.path \in Paths
          /\ x = Pop(w, at.client, at.path)
      BY <2>1, <2>5 DEF MountSucceeds, MountEffect, Paths
    <3> QED
      BY <2>1, <3>1, LayerPop
  <2> QED
    BY <1>3, <2>2, <2>3, <2>4, <2>5 DEF MountCommands
<1> QED
  BY <1>1, <1>2, <1>3

(* Where a call of the service mounts and unmounts: at its row's client, and a
   device over none. *)
LEMMA CallLayer ==
  ASSUME TypeOK, Course, SerialInv, WritersInv, NvmeOnly, OneLayer(world),
         NEW c \in Calls, call[c].pc \in Commands,
         Succeeds(call[c].pc, world, call[c].at)
  PROVE  OneLayer(Effect(call[c].pc, world, call[c].at))
<1> DEFINE k == call[c]
<1>1. /\ world \in World /\ row \in Volume /\ Shape(row) /\ k.at \in Place
      /\ k.pc \in Commands /\ Succeeds(k.pc, world, k.at)
  BY DEF TypeOK, Call, SerialInv
<1>2. \/ k.op = "Update" /\ k.pc \in {"zfsSet", "rescan", "resize"}
      \/ k.op = "Delete" /\ k.pc = "zfsDestroy"
      \/ k.op \in LockedOps /\ k.pc \in InTransaction(k.op)
  BY CommandCourse DEF Locked
<1>3. k.op # "Update" => k.op \in Ops /\ Made(k, row)
  BY DEF SerialInv, Fresh, Commands, ZfsCommands, TargetCommands, SessionCommands,
     FsCommands, MountCommands
<1> HIDE DEF k
<1>4. DataPortals(world) /\ k.at.type # "ISCSI"
  BY <1>1, NvmePlaces
<1>5. CASE k.pc \notin MountCommands
  <2>1. k.pc \notin {"mount", "umountStaging", "bind", "umountTarget"}
    BY <1>5 DEF MountCommands
  <2>2. OneLayer(Effect(k.pc, world, k.at))
    BY <1>1, <1>4, <1>5, <2>1, LayerCommand
  <2> QED
    BY <2>2 DEF k
<1>6. CASE k.pc \in MountCommands
  <2>1. /\ k.op \in {"Stage", "Unstage", "Mount", "Unmount"}
        /\ k.pc = "bind" => k.op = "Mount"
        /\ k.pc = "umountStaging" => k.op = "Unstage"
        /\ k.pc = "mount" => k.op = "Stage"
        /\ k.pc = "umountTarget" => k.op = "Unmount"
    BY <1>2, <1>6 DEF LockedOps, InTransaction, MountCommands
  <2>2. k.op \in Ops /\ Made(k, row)
    BY <1>3, <2>1
  <2>3. /\ IsConnected(row) /\ k.at.client = row.clientHost
        /\ Device(k.at.server, k.at.type) = DeviceOf(row)
    BY <1>1, <2>1, <2>2, MadePlace DEF DeviceOf
  <2>4. k.at.client \in Clients
    BY <1>1, <2>3 DEF Shape, Volume
  <2>5. k.pc \in {"bind", "umountTarget"} => k.at.path \in MountPaths
    <3>1. CASE k.pc = "bind"
      <4>1. PICK p \in MountPaths : k.at = PlaceOf(k.v, p)
        BY <2>1, <2>2, <3>1 DEF Made
      <4> QED
        BY <4>1 DEF PlaceOf
    <3>2. CASE k.pc = "umountTarget"
      <4>1. PICK p \in row.targetPaths : k.at = PlaceOf(k.v, p)
        BY <2>1, <2>2, <3>2 DEF Made
      <4> QED
        BY <1>1, <4>1 DEF PlaceOf, Volume
    <3> QED
      BY <3>1, <3>2
  <2>6. k.pc \in {"mount", "umountStaging", "bind"} => k.at.staging \in StagingPaths
    <3>1. CASE k.pc = "mount"
      <4>1. PICK p \in StagingPaths : k.at = PlaceOf(ToStaged(row, p), NoPath)
        BY <2>1, <2>2, <3>1 DEF Made
      <4> QED
        BY <1>1, <4>1 DEF PlaceOf, ToStaged, Volume
    <3>2. CASE k.pc = "umountStaging"
      <4>1. IsStaged(row) /\ k.at = PlaceOf(row, NoPath)
        BY <2>1, <2>2, <3>2 DEF Made
      <4> QED
        BY <1>1, <4>1 DEF PlaceOf, Shape, Volume
    <3>3. CASE k.pc = "bind"
      <4>1. PICK p \in MountPaths : IsStaged(row) /\ k.at = PlaceOf(ToMounted(row, p), p)
        BY <2>1, <2>2, <3>3 DEF Made
      <4> QED
        BY <1>1, <4>1 DEF PlaceOf, ToMounted, Shape, Volume
    <3> QED
      BY <3>1, <3>2, <3>3
  <2>7. k.pc = "mount" => ShownAt(world, k.at.client, k.at.staging).kind # "device"
    <3> SUFFICES ASSUME k.pc = "mount"
                 PROVE  ShownAt(world, k.at.client, k.at.staging).kind # "device"
      OBVIOUS
    <3>1. ShownAt(world, k.at.client, k.at.staging) # DeviceOf(row)
      BY <1>1, <1>6, <2>3, Wrapper DEF MountSucceeds
    <3>2. k.at.staging \in Paths
      BY <2>6 DEF Paths
    <3>3. OnlyDevice(world, row.clientHost, DeviceOf(row))
      BY <2>3 DEF WritersInv, RowsDevice
    <3> QED
      BY <1>1, <2>4, <3>1, <3>2, <3>3, Shown DEF OnlyDevice
  <2>8. OneLayer(Effect(k.pc, world, k.at))
    BY <1>1, <1>4, <2>4, <2>5, <2>6, <2>7, LayerCommand
  <2> QED
    BY <2>8 DEF k
<1> QED
  BY <1>5, <1>6

(* RowsDevice, as one statement: nobody has a device that is not the row's. *)
TheClient(r) == IF IsConnected(r) THEN r.clientHost ELSE NoHost

LEMMA RowsOnly ==
  ASSUME NEW r, NEW w
  PROVE  RowsDevice(r, w) <=> OnlyDevice(w, TheClient(r), DeviceOf(r))
BY HostsAssumption DEF RowsDevice, TheClient, OnlyDevice, NoDevice

(* A repair mounts the row's device on the row's client, if the row is staged,
   and a logout leaves no device on a client that should not have one. *)
LEMMA RepairDevice ==
  ASSUME NvmeOnly, NEW s \in Syncing, OnPass(s), s.pc \in Commands, Shape(s.v),
         NEW w \in World, RowsDevice(s.v, w), OneLayer(w),
         NEW at, at = SyncPlace(s.v, Head(s.todo).path), Succeeds(s.pc, w, at)
  PROVE  RowsDevice(s.v, Effect(s.pc, w, at)) /\ OneLayer(Effect(s.pc, w, at))
<1> DEFINE l == Head(s.todo)
           v == s.v
           x == Effect(s.pc, w, at)
           h == TheClient(v)
           b == DeviceOf(v)
<1>1. /\ v \in Volume /\ at \in Place
      /\ at.server = v.serverHost /\ at.client = v.clientHost
      /\ at.type = v.transport.type
      /\ at.staging = v.stagingPath /\ at.path = l.path
  BY RepairKnows
<1>2. /\ \/ s.pc = "zfsCreate" /\ l.of = "zvol" /\ l.want
         \/ s.pc = "publish" /\ l.of = "target" /\ l.want
         \/ s.pc = "unpublish" /\ l.of = "target" /\ ~l.want
         \/ s.pc = "authorize" /\ l.of = "acl" /\ l.want
         \/ s.pc = "unauthorize" /\ l.of = "acl" /\ ~l.want
         \/ s.pc = "login" /\ l.of = "session" /\ l.want
         \/ s.pc = "logout" /\ l.of = "session" /\ ~l.want
         \/ s.pc \in {"waitDevice", "blkid", "mkfs", "mount"} /\ l.of = "staging" /\ l.want
         \/ s.pc = "umountStaging" /\ l.of = "staging" /\ ~l.want
         \/ s.pc = "bind" /\ l.of = "path" /\ l.want
      /\ l.of = "session" => (l.want <=> IsConnected(v))
      /\ l.of = "staging" =>
            /\ at.client \in Clients /\ at.staging \in StagingPaths
            /\ l.want <=> IsStaged(v)
      /\ l.of = "path" =>
            /\ at.client \in Clients /\ at.staging \in StagingPaths
            /\ at.path \in MountPaths /\ IsMounted(v)
  BY RepairKnows
<1>3. DataPortals(w) /\ at.type # "ISCSI"
  BY <1>1, NvmePlaces
<1>4. OnlyDevice(w, h, b)
  BY RowsOnly
<1>5. b \in Backing
  BY <1>1 DEF DeviceOf, Device, Backing, Volume, Transport
<1>6. /\ IsStaged(v) => IsConnected(v)
      /\ IsMounted(v) => IsConnected(v)
  BY <1>1 DEF IsStaged, IsMounted, IsConnected, CONNECTED, STAGED, MOUNTED, Volume, Status,
     UNSPECIFIED
<1>7. s.pc \in {"mount", "bind"} => h = at.client /\ Device(at.server, at.type) = b
  BY <1>1, <1>2, <1>6 DEF TheClient, DeviceOf
<1>8. s.pc = "mount" => ShownAt(w, at.client, at.staging).kind # "device"
  <2> SUFFICES ASSUME s.pc = "mount"
               PROVE  ShownAt(w, at.client, at.staging).kind # "device"
    OBVIOUS
  <2>1. ShownAt(w, at.client, at.staging) # b
    BY <1>7, Wrapper DEF MountSucceeds, MountCommands
  <2>2. at.client \in Clients /\ at.staging \in Paths
    BY <1>2 DEF Paths
  <2> HIDE DEF h, b
  <2> QED
    BY <1>4, <2>1, <2>2, Shown DEF OnlyDevice
<1> HIDE DEF l, v, h, b
<1>9. OneLayer(x)
  <2>1. s.pc \in MountCommands => s.pc \in {"mount", "umountStaging", "bind"}
    BY <1>2 DEF MountCommands
  <2>2. s.pc \in {"mount", "umountStaging", "bind"} =>
           at.client \in Clients /\ at.staging \in StagingPaths
    BY <1>2
  <2>3. s.pc \in {"bind", "umountTarget"} => at.path \in MountPaths
    BY <1>2
  <2> QED
    BY <1>1, <1>3, <1>8, <2>1, <2>2, <2>3, LayerCommand
<1>10. OnlyDevice(x, h, b)
  <2>1. CASE s.pc \notin MountCommands \cup {"logout"}
    <3>1. x.mount = w.mount
      BY <1>1, <2>1, StillMounts
    <3> QED
      BY <1>4, <3>1 DEF OnlyDevice
  <2>2. CASE s.pc = "logout"
    <3>1. ~IsConnected(v)
      BY <1>2, <2>2
    <3>2. NoDevice(w)
      BY <3>1 DEF RowsDevice, v
    <3>3. x = CloseSessions(w, at)
      BY <2>2, Wrapper DEF SessionCommands, SessionEffect
    <3>4. OnlyDevice(w, at.client, Device(at.server, at.type))
      BY <3>2 DEF NoDevice, OnlyDevice
    <3>5. NoDevice(x)
      BY <1>1, <1>3, <3>3, <3>4, LogoutDevice
    <3> QED
      BY <3>5 DEF NoDevice, OnlyDevice
  <2>3. CASE s.pc = "mount"
    <3>1. x = Push(w, at.client, at.staging, b)
      BY <1>7, <2>3, Wrapper DEF MountCommands, MountEffect
    <3>2. at.client \in Clients /\ at.staging \in Paths
      BY <1>2, <2>3 DEF Paths
    <3> QED
      BY <1>4, <1>5, <1>7, <2>3, <3>1, <3>2, PushDevice
  <2>4. CASE s.pc = "umountStaging"
    <3>1. /\ x = Pop(w, at.client, at.staging)
          /\ w.mount[at.client][at.staging] # <<>>
      <4>1. /\ Succeeds(s.pc, w, at) <=> MountSucceeds(s.pc, w, at)
            /\ x = MountEffect(s.pc, w, at)
        BY <2>4, Wrapper DEF MountCommands
      <4>2. MountSucceeds(s.pc, w, at)
        BY <4>1
      <4> QED
        BY <2>4, <4>1, <4>2 DEF MountEffect, MountSucceeds
    <3>2. at.client \in Clients /\ at.staging \in Paths
      BY <1>2, <2>4 DEF Paths
    <3> QED
      BY <1>4, <3>1, <3>2, PopDevice
  <2>5. CASE s.pc = "bind"
    <3> DEFINE e == ShownAt(w, at.client, at.staging)
    <3>1. x = Push(w, at.client, at.path, e)
      BY <2>5, Wrapper DEF MountCommands, MountEffect
    <3>2. at.client \in Clients /\ at.staging \in Paths /\ at.path \in Paths
      BY <1>2, <2>5 DEF Paths
    <3>3. e \in Backing /\ (e.kind = "device" => e = b)
      BY <1>4, <3>2, Shown DEF OnlyDevice
    <3> HIDE DEF e
    <3> QED
      BY <1>4, <1>7, <2>5, <3>1, <3>2, <3>3, PushDevice
  <2> QED
    BY <1>2, <2>1, <2>2, <2>3, <2>4, <2>5 DEF MountCommands
<1> QED
  BY <1>9, <1>10, RowsOnly DEF v, h, b

SyncDevices == WritersInv /\ OneLayer(world)

(* The world a step of a sync leaves: as it was, or as the repair leaves it. *)
LEMMA SyncWorld ==
  ASSUME SyncTyped, SyncSerial, SyncDevices, NvmeOnly,
         NEW c \in Calls, SyncProgress(c) \/ LoseLook(c) \/ LoseRepair(c)
  PROVE  RowsDevice(row, world') /\ OneLayer(world')
<1> DEFINE s == sync[c]
           at == SyncPlace(s.v, Head(s.todo).path)
<1>1. \/ world' = world
      \/ /\ s.pc \in Commands /\ Succeeds(s.pc, world, at)
         /\ world' = Effect(s.pc, world, at)
  BY DEF SyncProgress, TakeLook, RunRepair, RepairFails, SyncAnswer, LoseLook, LoseRepair,
     vars, Where
<1>2. s \in Syncing /\ OnPass(s) /\ world \in World
  BY DEF SyncTyped, SyncCourse, TypeOK
<1>3. RowsDevice(row, world) /\ OneLayer(world) /\ Shape(row)
  BY DEF SyncDevices, WritersInv, SyncSerial, SerialInv
<1>4. s.pc \in Commands => s.v = row
  BY DEF SyncSerial, SyncFresh, Busy, Commands, ZfsCommands, TargetCommands, SessionCommands,
     FsCommands, MountCommands
<1> HIDE DEF s
<1>5. CASE world' = world
  BY <1>3, <1>5
<1>6. CASE /\ s.pc \in Commands /\ Succeeds(s.pc, world, at)
           /\ world' = Effect(s.pc, world, at)
  <2>1. RowsDevice(s.v, Effect(s.pc, world, at)) /\ OneLayer(Effect(s.pc, world, at))
    BY <1>2, <1>3, <1>4, <1>6, RepairDevice
  <2> QED
    BY <1>4, <1>6, <2>1
<1> QED
  BY <1>1, <1>5, <1>6

(* A restart unmounts. *)
LEMMA RestartMounts ==
  ASSUME world \in World,
         (\E h \in Clients : ClientRestarts(h)) \/ (\E s \in Servers : ServerRestarts(s))
  PROVE  \A d \in Clients, p \in Paths : world'.mount[d][p] \in {<<>>, world.mount[d][p]}
<1> SUFFICES ASSUME NEW d \in Clients, NEW p \in Paths
             PROVE  world'.mount[d][p] \in {<<>>, world.mount[d][p]}
  OBVIOUS
<1>1. ASSUME NEW h \in Clients, ClientRestarts(h)
      PROVE  world'.mount[d][p] \in {<<>>, world.mount[d][p]}
  <2>1. PICK x : world' = [world EXCEPT !.mount[h] = [q \in Paths |-> <<>>], !.session = x]
    BY <1>1 DEF ClientRestarts
  <2>2. world'.mount = [world.mount EXCEPT ![h] = [q \in Paths |-> <<>>]]
    BY <2>1 DEF World
  <2>3. world.mount \in [Clients -> [Paths -> Seq(Backing)]]
    BY DEF World
  <2> QED
    BY <2>2, <2>3
<1>2. ASSUME NEW s \in Servers, ServerRestarts(s)
      PROVE  world'.mount[d][p] \in {<<>>, world.mount[d][p]}
  <2>1. PICK x, y : world' = [world EXCEPT !.target = x, !.acl = y]
    BY <1>2 DEF ServerRestarts
  <2> QED
    BY <2>1 DEF World
<1> QED
  BY <1>1, <1>2

LEMMA RestartDevices ==
  ASSUME world \in World, RowsDevice(row, world), OneLayer(world),
         (\E h \in Clients : ClientRestarts(h)) \/ (\E s \in Servers : ServerRestarts(s))
  PROVE  RowsDevice(row, world') /\ OneLayer(world')
<1>1. \A d \in Clients, p \in Paths : world'.mount[d][p] \in {<<>>, world.mount[d][p]}
  BY RestartMounts
<1>2. DOMAIN <<>> = {}
  OBVIOUS
<1>3. OneLayer(world')
  BY <1>1, <1>2 DEF OneLayer, Paths
<1>4. OnlyDevice(world', TheClient(row), DeviceOf(row))
  <2>1. OnlyDevice(world, TheClient(row), DeviceOf(row))
    BY RowsOnly
  <2> QED
    BY <1>1, <1>2, <2>1 DEF OnlyDevice
<1> QED
  BY <1>3, <1>4, RowsOnly

LEMMA SyncDevicesStep ==
  ASSUME OneCall, NvmeOnly, SyncTyped, SyncSerial, SyncDevices, [SyncNext]_syncVars
  PROVE  SyncDevices'
<1>1. /\ TypeOK /\ Course /\ SyncCourse /\ sync \in [Calls -> Syncing]
      /\ SerialInv /\ WritersInv /\ OneLayer(world)
  BY DEF SyncTyped, SyncSerial, SyncDevices
<1>2. world' \in World
  BY SyncTypedStep DEF SyncTyped, TypeOK
<1>3. DataPortals(world')
  BY <1>2, NvmePlaces
<1>4. ASSUME row' = row, RowsDevice(row, world'), OneLayer(world'),
             \A c \in Calls : call'[c] = call[c] \/ call'[c].pc = "idle",
             \A c \in Calls : call'[c].pc = "idle" \/ (NoDevice(world) => NoDevice(world'))
      PROVE  SyncDevices'
  <2>1. \A c \in Calls : call'[c].op = "Disconnect" /\ call'[c].pc \in {"unauthorize", "commit"}
          => NoDevice(world')
    BY <1>1, <1>4 DEF WritersInv, NoDevice
  <2> QED
    BY <1>3, <1>4, <2>1 DEF SyncDevices, WritersInv
<1>5. CASE /\ \E m \in CreateModes, t \in AnyTransport, out \in CreateOutputs :
                    CreateVolume(m, t, out)
           /\ UNCHANGED <<sync, restarts>>
  <2>1. WritersInv'
    BY <1>1, <1>5, WritersStep DEF Next
  <2>2. world' = world
    BY <1>5 DEF CreateVolume
  <2> QED
    BY <1>1, <2>1, <2>2 DEF SyncDevices
<1>6. ASSUME NEW c \in Calls, ServiceStep(c)
      PROVE  SyncDevices'
  <2>1. Request(c) \/ Progress(c) \/ Fault(c)
    BY <1>6 DEF ServiceStep
  <2>2. WritersInv'
    BY <1>1, <2>1, WritersStep DEF Next
  <2>3. \/ world' = world
        \/ /\ call[c].pc \in Commands /\ Succeeds(call[c].pc, world, call[c].at)
           /\ world' = Effect(call[c].pc, world, call[c].at)
    <3>1. CASE Request(c)
      <4>1. PICK op, v, at, ready, pc : Accept(c, op, pc, v, at, ready)
        BY <3>1, RequestAccepts
      <4> QED
        BY <4>1 DEF Accept
    <3>2. CASE Progress(c) \/ Fault(c)
      BY <3>2 DEF Progress, Fault, Begin, WriteUpdate, NotReady, LockTimeout, RunCommand,
         CommandFails, Commit, DeleteRow, LoseAnswer, LoseCommand
    <3> QED
      BY <2>1, <3>1, <3>2
  <2>4. OneLayer(world')
    BY <1>1, <2>3, CallLayer
  <2> QED
    BY <2>2, <2>4 DEF SyncDevices
<1>7. ASSUME NEW c \in Calls, SyncVolume(c)
      PROVE  SyncDevices'
  <2>1. UNCHANGED vars
    BY <1>7 DEF SyncVolume
  <2>2. WritersInv' /\ world' = world
    BY <1>1, <2>1, WritersStep DEF vars
  <2> QED
    BY <1>1, <2>2 DEF SyncDevices
<1>8. ASSUME NEW c \in Calls, SyncProgress(c) \/ LoseLook(c) \/ LoseRepair(c)
      PROVE  SyncDevices'
  <2>1. PICK s : Moves(c, s)
    BY <1>8, SyncMoves
  <2>2. UNCHANGED <<row, call>> /\ \A d \in Calls : call[d].pc = "idle"
    BY <1>1, <2>1 DEF Moves, SyncCourse, OneCall
  <2>3. RowsDevice(row, world') /\ OneLayer(world')
    BY <1>8, SyncWorld
  <2> QED
    BY <1>4, <2>2, <2>3
<1>9. CASE (\E h \in Clients : ClientRestarts(h)) \/ (\E s \in Servers : ServerRestarts(s))
  <2>1. UNCHANGED <<row, call>>
    BY <1>1, <1>9, RestartType DEF TypeOK
  <2>2. RowsDevice(row, world') /\ OneLayer(world')
    BY <1>1, <1>9, RestartDevices DEF TypeOK, WritersInv
  <2>3. NoDevice(world) => NoDevice(world')
    <3>1. \A d \in Clients, p \in Paths : world'.mount[d][p] \in {<<>>, world.mount[d][p]}
      BY <1>1, <1>9, RestartMounts DEF TypeOK
    <3>2. DOMAIN <<>> = {}
      OBVIOUS
    <3> QED
      BY <3>1, <3>2 DEF NoDevice
  <2> QED
    BY <1>4, <2>1, <2>2, <2>3
<1>10. CASE CrashAll
  <2>1. UNCHANGED <<row, world>> /\ \A c \in Calls : call'[c].pc = "idle"
    BY <1>10 DEF CrashAll, Idle
  <2> QED
    BY <1>1, <1>4, <2>1 DEF WritersInv
<1>11. CASE UNCHANGED syncVars
  <2>1. UNCHANGED vars
    BY <1>11 DEF syncVars
  <2>2. WritersInv' /\ world' = world
    BY <1>1, <2>1, WritersStep DEF vars
  <2> QED
    BY <1>1, <2>2 DEF SyncDevices
<1> QED
  BY <1>5, <1>6, <1>7, <1>8, <1>9, <1>10, <1>11 DEF SyncNext

LEMMA SyncDevicesInit == SyncInit => SyncSerial /\ SyncDevices
<1> SUFFICES ASSUME SyncInit PROVE SyncSerial /\ SyncDevices
  OBVIOUS
<1>1. Init /\ \A c \in Calls : ~Busy(c)
  BY DEF SyncInit, Busy, AtRest
<1>2. SyncSerial
  BY <1>1, SerialInit DEF SyncSerial, SyncFresh
<1>3. OneLayer(world)
  BY <1>1 DEF Init, FreshWorld, OneLayer, Paths
<1> QED
  BY <1>1, <1>2, <1>3, WritersInit DEF SyncDevices

(* SINGLE_NODE_WRITER, with the syncs: over NVMe, with a sync or a call at a time
   and no create that names target paths, no client has the device mounted but the one the committed row names,
   whatever restarts and whatever a sync logs in, mounts and binds again
   (VolumeSyncer.syncConnect, syncStage and syncMount work from the row alone). *)
THEOREM SyncsKeepOneWriter ==
  OneCall /\ PathlessCreates /\ NvmeOnly /\ SyncSpec => []WriterIsClient
<1> SUFFICES ASSUME OneCall, PathlessCreates, NvmeOnly PROVE SyncSpec => []WriterIsClient
  OBVIOUS
<1>1. SyncTyped /\ SyncSerial /\ SyncDevices /\ [SyncNext]_syncVars
        => SyncTyped' /\ SyncSerial' /\ SyncDevices'
  BY SyncTypedStep, SyncSerialStep, SyncDevicesStep
<1>2. SyncDevices => WriterIsClient
  BY DEF SyncDevices, WritersInv, RowsDevice, OnlyDevice, NoDevice, WriterIsClient, Writers
<1> QED
  BY <1>1, <1>2, SyncTypedInit, SyncDevicesInit, PTL DEF SyncSpec

-----------------------------------------------------------------------------
(* What the looks find, and what the repairs leave for them to find. *)

(* The commands that leave the zvols, and those that leave the target. *)
LEMMA StillTargets ==
  ASSUME NEW w \in World, NEW at \in Place, NEW cmd \in Commands,
         NEW x, x = Effect(cmd, w, at)
  PROVE  /\ cmd \notin ZfsCommands \cup FsCommands => x.zvol = w.zvol
         /\ cmd \notin TargetCommands => x.target = w.target /\ x.acl = w.acl
<1>1. CASE cmd \in ZfsCommands \cup FsCommands
  BY <1>1, StillHosts DEF ZfsCommands, FsCommands
<1>2. CASE cmd \in TargetCommands
  <2>1. PICK y, z : \/ TargetEffect(cmd, w, at) = w
                    \/ TargetEffect(cmd, w, at) = [w EXCEPT !.target = y, !.acl = z]
                    \/ TargetEffect(cmd, w, at) = [w EXCEPT !.target = y]
                    \/ TargetEffect(cmd, w, at) = [w EXCEPT !.acl = z]
    <3>1. CASE cmd = "publish"
      BY <3>1 DEF TargetEffect
    <3>2. CASE cmd = "unpublish"
      BY <3>2 DEF TargetEffect
    <3>3. CASE cmd = "authorize"
      BY <3>3 DEF TargetEffect
    <3>4. CASE cmd = "unauthorize"
      BY <3>4 DEF TargetEffect
    <3> QED
      BY <1>2, <3>1, <3>2, <3>3, <3>4 DEF TargetCommands
  <2>2. TargetEffect(cmd, w, at).zvol = w.zvol
    BY <2>1 DEF World
  <2> QED
    BY <1>2, <2>2, Wrapper
<1>3. CASE cmd \in SessionCommands
  <2>1. PICK y, z : \/ SessionEffect(cmd, w, at) = w
                    \/ SessionEffect(cmd, w, at) = [w EXCEPT !.session = y]
                    \/ SessionEffect(cmd, w, at) = [[w EXCEPT !.session = y] EXCEPT !.mount = z]
    <3>1. CASE cmd = "login"
      BY <3>1 DEF SessionEffect
    <3>2. CASE cmd = "logout"
      <4>1. PICK y : y = w.session \ SessionsAt(w, at)
        OBVIOUS
      <4>2. PICK z : CloseSessions(w, at) = [[w EXCEPT !.session = y] EXCEPT !.mount = z]
        BY <4>1 DEF CloseSessions
      <4> QED
        BY <3>2, <4>2 DEF SessionEffect
    <3>3. CASE cmd = "rescan"
      BY <3>3 DEF SessionEffect
    <3> QED
      BY <1>3, <3>1, <3>2, <3>3 DEF SessionCommands
  <2>2. /\ SessionEffect(cmd, w, at).zvol = w.zvol
        /\ SessionEffect(cmd, w, at).target = w.target
        /\ SessionEffect(cmd, w, at).acl = w.acl
    BY <2>1 DEF World
  <2> QED
    BY <1>3, <2>2, Wrapper DEF SessionCommands, TargetCommands
<1>4. CASE cmd \in MountCommands
  <2>1. \A c, p, b : /\ Push(w, c, p, b).zvol = w.zvol
                     /\ Push(w, c, p, b).target = w.target
                     /\ Push(w, c, p, b).acl = w.acl
                     /\ Pop(w, c, p).zvol = w.zvol
                     /\ Pop(w, c, p).target = w.target
                     /\ Pop(w, c, p).acl = w.acl
    BY DEF Push, Pop, World
  <2> QED
    BY <1>4, <2>1, Wrapper DEF MountEffect, MountCommands
<1> QED
  BY <1>1, <1>2, <1>3, <1>4 DEF Commands

LEMMA ZvolStays ==
  ASSUME NEW w \in World, NEW at \in Place, NEW cmd \in Commands, NEW x, x = Effect(cmd, w, at)
  PROVE  /\ cmd # "zfsDestroy" =>
               \A s \in Servers : w.zvol[s] # "absent" => x.zvol[s] # "absent"
         /\ cmd = "zfsCreate" /\ at.server \in Servers => x.zvol[at.server] # "absent"
<1>1. CASE cmd \notin ZfsCommands \cup FsCommands
  BY <1>1, StillTargets DEF ZfsCommands
<1>2. CASE cmd \in ZfsCommands
  BY <1>2, Wrapper DEF ZfsEffect, ZfsCommands, World
<1>3. CASE cmd \in FsCommands
  <2>1. PICK y : \/ FsEffect(cmd, w, at) = w
                 \/ FsEffect(cmd, w, at)
                      = [w EXCEPT !.zvol = [w.zvol EXCEPT ![at.server] = "ext4"], !.overwritten = y]
    BY DEF FsEffect
  <2>2. FsEffect(cmd, w, at).zvol \in {w.zvol, [w.zvol EXCEPT ![at.server] = "ext4"]}
    BY <2>1 DEF World
  <2>3. w.zvol \in [Servers -> {"absent", "blank", "ext4"}]
    BY DEF World
  <2> QED
    BY <1>3, <2>2, <2>3, Wrapper DEF FsCommands, ZfsCommands
<1> QED
  BY <1>1, <1>2, <1>3

(* What a look has found, or its repair has left: the answer it wants.  A staging
   path that is not wanted only must not show the device. *)
Holds(l, v, w) ==
  IF l.of = "staging" /\ ~l.want
  THEN ShownAt(w, v.clientHost, v.stagingPath).kind # "device"
  ELSE Found(l.of, w, SyncPlace(v, l.path)) <=> l.want

Joined(v, w) ==
  \E s \in w.session :
     s.client = v.clientHost /\ s.server = v.serverHost /\ s.type = v.transport.type

LEMMA HoldsFields ==
  ASSUME NEW v \in Volume, NEW l \in Wanted(v), NEW w
  PROVE  /\ l.of = "zvol" => (Holds(l, v, w) <=> w.zvol[v.serverHost] # "absent")
         /\ l.of = "target" =>
               (Holds(l, v, w) <=> (<<v.serverHost, v.transport.type>> \in w.target <=> l.want))
         /\ l.of = "acl" =>
               (Holds(l, v, w)
                  <=> (<<<<v.serverHost, v.transport.type>>, v.clientHost>> \in w.acl <=> l.want))
         /\ l.of = "session" => (Holds(l, v, w) <=> (Joined(v, w) <=> l.want))
         /\ l.of = "staging" /\ l.want =>
               (Holds(l, v, w) <=> w.mount[v.clientHost][v.stagingPath] # <<>>)
         /\ l.of = "staging" /\ ~l.want =>
               (Holds(l, v, w) <=> ShownAt(w, v.clientHost, v.stagingPath).kind # "device")
         /\ l.of = "path" =>
               (Holds(l, v, w) <=> (w.mount[v.clientHost][l.path] # <<>> <=> l.want))
<1> DEFINE at == SyncPlace(v, l.path)
<1>1. /\ at.server = v.serverHost /\ at.client = v.clientHost /\ at.type = v.transport.type
      /\ at.staging = v.stagingPath /\ at.path = l.path
  BY DEF SyncPlace, PlaceOf
<1>2. l.want \in BOOLEAN /\ (l.of = "zvol" => l.want)
  BY DEF Wanted, Look
<1> HIDE DEF at
<1>3. l.of = "zvol" => (Holds(l, v, w) <=> w.zvol[v.serverHost] # "absent")
  BY <1>1, <1>2 DEF Holds, Found, at
<1>4. l.of = "target" =>
         (Holds(l, v, w) <=> (<<v.serverHost, v.transport.type>> \in w.target <=> l.want))
  BY <1>1, <1>2 DEF Holds, Found, Export, at
<1>5. l.of = "acl" =>
         (Holds(l, v, w)
            <=> (<<<<v.serverHost, v.transport.type>>, v.clientHost>> \in w.acl <=> l.want))
  BY <1>1, <1>2 DEF Holds, Found, Export, at
<1>6. l.of = "session" => (Holds(l, v, w) <=> (Joined(v, w) <=> l.want))
  BY <1>1, <1>2 DEF Holds, Found, LoggedIn, Joined, at
<1>7. l.of = "staging" /\ l.want =>
         (Holds(l, v, w) <=> w.mount[v.clientHost][v.stagingPath] # <<>>)
  BY <1>1, <1>2 DEF Holds, Found, at
<1>8. l.of = "staging" /\ ~l.want =>
         (Holds(l, v, w) <=> ShownAt(w, v.clientHost, v.stagingPath).kind # "device")
  BY DEF Holds
<1>9. l.of = "path" => (Holds(l, v, w) <=> (w.mount[v.clientHost][l.path] # <<>> <=> l.want))
  BY <1>1, <1>2 DEF Holds, Found, at
<1> QED
  BY <1>3, <1>4, <1>5, <1>6, <1>7, <1>8, <1>9

(* What one look depends on. *)
LEMMA HoldsStill ==
  ASSUME NEW v \in Volume, NEW l \in Wanted(v), NEW w, NEW x, Holds(l, v, w),
         l.of = "zvol" => (w.zvol[v.serverHost] # "absent" => x.zvol[v.serverHost] # "absent"),
         l.of = "target" => (<<v.serverHost, v.transport.type>> \in x.target
                               <=> <<v.serverHost, v.transport.type>> \in w.target),
         l.of = "acl" => (<<<<v.serverHost, v.transport.type>>, v.clientHost>> \in x.acl
                            <=> <<<<v.serverHost, v.transport.type>>, v.clientHost>> \in w.acl),
         l.of = "session" => (Joined(v, x) <=> Joined(v, w)),
         l.of = "staging" =>
            x.mount[v.clientHost][v.stagingPath] = w.mount[v.clientHost][v.stagingPath],
         l.of = "path" => x.mount[v.clientHost][l.path] = w.mount[v.clientHost][l.path]
  PROVE  Holds(l, v, x)
<1>0. l.of \in Resources /\ l.want \in BOOLEAN
  BY DEF Wanted, Look
<1>1. CASE l.of \in {"zvol", "target", "acl", "session", "path"}
  BY <1>1, HoldsFields
<1>2. CASE l.of = "staging"
  <2>1. ShownAt(x, v.clientHost, v.stagingPath) = ShownAt(w, v.clientHost, v.stagingPath)
    BY <1>2 DEF ShownAt
  <2> QED
    BY <1>2, <2>1, HoldsFields
<1> QED
  BY <1>0, <1>1, <1>2 DEF Resources

(* At each resource but the target paths there is one look. *)
LEMMA OneLook ==
  ASSUME NEW v \in Volume, NEW k \in Wanted(v), NEW l \in Wanted(v), k.of = l.of,
         k.of = "path" => k.path = l.path /\ IsMounted(v)
  PROVE  k = l
<1>1. /\ k = [of |-> k.of, want |-> k.want, path |-> k.path]
      /\ l = [of |-> l.of, want |-> l.want, path |-> l.path]
      /\ k.want \in BOOLEAN /\ l.want \in BOOLEAN /\ k.of \in Resources
  BY DEF Wanted, Look
<1>2. k.want <=> l.want
  BY <1>1 DEF Wanted, Resources
<1>3. k.path = l.path
  BY DEF Wanted, Placed
<1> QED
  BY <1>1, <1>2, <1>3

(* Where a look looks, in a row that suits its status. *)
LEMMA WantedPlaces ==
  ASSUME NEW v \in Volume, Shape(v), NEW k \in Wanted(v)
  PROVE  /\ k.of \in Resources /\ k.want \in BOOLEAN
         /\ k.of # "path" => v.serverHost \in Servers
         /\ k.of \in {"staging", "path"} =>
               v.clientHost \in Clients /\ v.stagingPath \in StagingPaths
         /\ k.of = "path" => k.path \in MountPaths /\ IsMounted(v) /\ k.want
<1>1. Placed(v, k) /\ k \in Look
  BY DEF Wanted
<1>2. k.of = "path" => IsMounted(v) /\ k.want
  BY <1>1 DEF Placed, Shape, Wanted, Look
<1> QED
  BY <1>1, <1>2 DEF Placed, Look, Volume

LEMMA LooksApart ==
  ASSUME NEW v \in Volume, Shape(v), NEW k \in Wanted(v), NEW l \in Wanted(v), k # l
  PROVE  k.of = l.of => k.of = "path" /\ k.path # l.path
BY WantedPlaces, OneLook

LEMMA SameLook ==
  ASSUME NEW v \in Volume, NEW k \in Wanted(v), NEW w, NEW x, Holds(k, v, w),
         k.of = "zvol" => (w.zvol[v.serverHost] # "absent" => x.zvol[v.serverHost] # "absent"),
         k.of = "target" => x.target = w.target,
         k.of = "acl" => x.acl = w.acl,
         k.of = "session" => (Joined(v, x) <=> Joined(v, w)),
         k.of = "staging" =>
            x.mount[v.clientHost][v.stagingPath] = w.mount[v.clientHost][v.stagingPath],
         k.of = "path" => x.mount[v.clientHost][k.path] = w.mount[v.clientHost][k.path]
  PROVE  Holds(k, v, x)
<1>1. /\ k.of = "target" => (<<v.serverHost, v.transport.type>> \in x.target
                               <=> <<v.serverHost, v.transport.type>> \in w.target)
      /\ k.of = "acl" => (<<<<v.serverHost, v.transport.type>>, v.clientHost>> \in x.acl
                            <=> <<<<v.serverHost, v.transport.type>>, v.clientHost>> \in w.acl)
  OBVIOUS
<1> QED
  BY <1>1, HoldsStill

(* A repair leaves what the other looks find: no pass undoes an earlier one. *)
LEMMA RepairKeeps ==
  ASSUME NvmeOnly, NEW s \in Syncing, OnPass(s), s.pc \in Commands, NEW v, v = s.v, Shape(v),
         NEW w \in World, RowsDevice(v, w),
         NEW l, l = Head(s.todo), NEW at, at = SyncPlace(v, l.path),
         Succeeds(s.pc, w, at), NEW x, x = Effect(s.pc, w, at),
         s.pc = "publish" => w.zvol[at.server] # "absent",
         s.pc = "authorize" => Export(at) \in w.target,
         NEW k \in Wanted(v), Holds(k, v, w), k # l \/ s.pc \in FsCommands
  PROVE  Holds(k, v, x)
<1> DEFINE cmd == s.pc
<1>1. /\ v \in Volume /\ l \in Wanted(v) /\ at \in Place /\ cmd \in Commands
      /\ at.server = v.serverHost /\ at.client = v.clientHost
      /\ at.type = v.transport.type
      /\ at.staging = v.stagingPath /\ at.path = l.path
  BY RepairKnows
<1>2. /\ \/ cmd = "zfsCreate" /\ l.of = "zvol" /\ l.want
         \/ cmd = "publish" /\ l.of = "target" /\ l.want
         \/ cmd = "unpublish" /\ l.of = "target" /\ ~l.want
         \/ cmd = "authorize" /\ l.of = "acl" /\ l.want
         \/ cmd = "unauthorize" /\ l.of = "acl" /\ ~l.want
         \/ cmd = "login" /\ l.of = "session" /\ l.want
         \/ cmd = "logout" /\ l.of = "session" /\ ~l.want
         \/ cmd \in {"waitDevice", "blkid", "mkfs", "mount"} /\ l.of = "staging" /\ l.want
         \/ cmd = "umountStaging" /\ l.of = "staging" /\ ~l.want
         \/ cmd = "bind" /\ l.of = "path" /\ l.want
      /\ l.of = "target" => (l.want <=> IsPublished(v))
      /\ l.of = "session" => (l.want <=> IsConnected(v))
      /\ l.of \in {"staging", "path"} => at.client \in Clients /\ at.staging \in StagingPaths
      /\ l.of = "path" => at.path \in MountPaths
  BY RepairKnows
<1>3. /\ k.of \in Resources /\ k.want \in BOOLEAN
      /\ k.of # "path" => v.serverHost \in Servers
      /\ k.of \in {"staging", "path"} =>
            v.clientHost \in Clients /\ v.stagingPath \in StagingPaths
      /\ k.of = "path" => k.path \in MountPaths /\ IsMounted(v) /\ k.want
  BY <1>1, WantedPlaces
<1>4. cmd \notin FsCommands => (k.of = l.of => k.of = "path" /\ k.path # l.path)
  BY <1>1, LooksApart
<1>5. /\ k.of = "acl" => (k.want <=> IsConnected(v))
      /\ k.of = "staging" => (k.want <=> IsStaged(v))
  BY DEF Wanted
<1>6. /\ IsStaged(v) => IsConnected(v)
      /\ IsMounted(v) => IsConnected(v)
      /\ IsConnected(v) => IsPublished(v)
  BY <1>1 DEF IsStaged, IsMounted, IsConnected, IsPublished, PUBLISHED, CONNECTED, STAGED,
     MOUNTED, Volume, Status, UNSPECIFIED
<1> HIDE DEF cmd
<1>7. k.of = "zvol" => (w.zvol[v.serverHost] # "absent" => x.zvol[v.serverHost] # "absent")
  <2>1. cmd # "zfsDestroy"
    BY <1>2
  <2> QED
    BY <1>1, <1>3, <2>1, ZvolStays DEF cmd
<1>8. /\ cmd \notin TargetCommands => x.target = w.target /\ x.acl = w.acl
      /\ cmd \notin {"login", "logout"} => (Joined(v, x) <=> Joined(v, w))
      /\ cmd \notin MountCommands \cup {"logout"} => x.mount = w.mount
  BY <1>1, StillTargets, StillMounts DEF Joined, cmd
<1>9. ASSUME k.of = "target" => x.target = w.target,
             k.of = "acl" => x.acl = w.acl,
             k.of = "session" => (Joined(v, x) <=> Joined(v, w)),
             k.of = "staging" =>
                x.mount[v.clientHost][v.stagingPath] = w.mount[v.clientHost][v.stagingPath],
             k.of = "path" => x.mount[v.clientHost][k.path] = w.mount[v.clientHost][k.path]
      PROVE  Holds(k, v, x)
  <2>1. v \in Volume
    BY <1>1
  <2>2. \A y : (/\ k.of = "zvol" =>
                      (w.zvol[v.serverHost] # "absent" => y.zvol[v.serverHost] # "absent")
                /\ k.of = "target" => y.target = w.target
                /\ k.of = "acl" => y.acl = w.acl
                /\ k.of = "session" => (Joined(v, y) <=> Joined(v, w))
                /\ k.of = "staging" =>
                      y.mount[v.clientHost][v.stagingPath] = w.mount[v.clientHost][v.stagingPath]
                /\ k.of = "path" => y.mount[v.clientHost][k.path] = w.mount[v.clientHost][k.path])
               => Holds(k, v, y)
    BY <2>1, SameLook
  <2> QED
    BY <1>7, <1>9, <2>2
<1>10. CASE cmd \in {"zfsCreate", "waitDevice", "blkid", "mkfs"}
  BY <1>8, <1>10, <1>9 DEF TargetCommands, MountCommands
<1>11. CASE cmd \in {"publish", "authorize", "unauthorize", "unpublish"}
  <2>1. x = TargetEffect(cmd, w, at)
    BY <1>11, Wrapper DEF TargetCommands, cmd
  <2>2. /\ cmd = "publish" => x.acl = w.acl
        /\ cmd = "unpublish" => x.acl \subseteq w.acl
        /\ cmd \in {"authorize", "unauthorize"} => x.target = w.target
    BY <1>1, <1>11, <2>1, TargetFields DEF TargetCommands, cmd
  <2>3. CASE cmd = "unpublish" /\ k.of = "acl"
    <3>1. ~k.want
      BY <1>2, <1>5, <1>6, <2>3
    <3> QED
      BY <1>1, <2>2, <2>3, <3>1, HoldsFields
  <2>4. CASE ~(cmd = "unpublish" /\ k.of = "acl")
    <3>1. k.of = "acl" => x.acl = w.acl
      BY <1>2, <1>4, <1>11, <2>2, <2>4 DEF FsCommands
    <3>2. k.of = "target" => x.target = w.target
      BY <1>2, <1>4, <1>11, <2>2, <2>4 DEF FsCommands
    <3>3. (Joined(v, x) <=> Joined(v, w)) /\ x.mount = w.mount
      BY <1>8, <1>11 DEF MountCommands
    <3> QED
      BY <1>9, <3>1, <3>2, <3>3
  <2> QED
    BY <2>3, <2>4
<1>12. CASE cmd = "login"
  <2>1. k.of # "session"
    BY <1>2, <1>4, <1>12 DEF FsCommands
  <2> QED
    BY <1>8, <1>12, <1>9, <2>1 DEF TargetCommands, MountCommands
<1>13. CASE cmd = "logout"
  <2>1. k.of # "session" /\ ~IsConnected(v) /\ k.of # "path"
    BY <1>2, <1>3, <1>4, <1>6, <1>13 DEF FsCommands
  <2>2. CASE k.of # "staging"
    BY <1>8, <1>13, <1>9, <2>1, <2>2 DEF TargetCommands
  <2>3. CASE k.of = "staging"
    <3>1. ~k.want
      BY <1>5, <1>6, <2>1, <2>3
    <3>2. x = CloseSessions(w, at)
      BY <1>13, Wrapper DEF SessionCommands, SessionEffect, cmd
    <3>3. NoDevice(w)
      BY <2>1 DEF RowsDevice
    <3>4. OnlyDevice(w, at.client, Device(at.server, at.type))
      BY <3>3 DEF NoDevice, OnlyDevice
    <3>5. NoDevice(x)
      BY <1>1, <3>2, <3>4, NvmePlaces, LogoutDevice
    <3>6. x \in World
      <4>1. Succeeds(s.pc, w, SyncPlace(s.v, Head(s.todo).path))
        OBVIOUS
      <4> QED
        BY <4>1, RepairType
    <3>7. v.clientHost \in Clients /\ v.stagingPath \in Paths
      BY <1>3, <2>3 DEF Paths
    <3>8. ShownAt(x, v.clientHost, v.stagingPath).kind # "device"
      BY <3>5, <3>6, <3>7, Shown DEF NoDevice
    <3> QED
      BY <1>1, <2>3, <3>1, <3>8, HoldsFields
  <2> QED
    BY <2>2, <2>3
<1>14. CASE cmd \in {"mount", "umountStaging"}
  <2>1. k.of # "staging"
    BY <1>2, <1>4, <1>14 DEF FsCommands
  <2>2. k.of = "path" => x.mount[v.clientHost][k.path] = w.mount[v.clientHost][k.path]
    <3> SUFFICES ASSUME k.of = "path"
                 PROVE  x.mount[v.clientHost][k.path] = w.mount[v.clientHost][k.path]
      OBVIOUS
    <3>1. /\ at.client \in Clients /\ at.staging \in Paths /\ k.path \in Paths
          /\ k.path # at.staging
      BY <1>2, <1>3, <1>14, PathsAssumption DEF Paths
    <3>2. Device(at.server, at.type) \in Backing
      BY <1>1 DEF Device, Backing, Place
    <3>3. CASE cmd = "mount"
      <4>1. x = Push(w, at.client, at.staging, Device(at.server, at.type))
        BY <3>3, Wrapper DEF MountCommands, MountEffect, cmd
      <4> QED
        BY <1>1, <3>1, <3>2, <4>1, PushMounts
    <3>4. CASE cmd = "umountStaging"
      <4>1. x = Pop(w, at.client, at.staging)
        BY <3>4, Wrapper DEF MountCommands, MountEffect, cmd
      <4> QED
        BY <1>1, <3>1, <4>1, PopMounts
    <3> QED
      BY <1>14, <3>3, <3>4
  <2> QED
    BY <1>8, <1>14, <1>9, <2>1, <2>2 DEF TargetCommands
<1>15. CASE cmd = "bind"
  <2>1. x = Push(w, at.client, at.path, ShownAt(w, at.client, at.staging))
    BY <1>15, Wrapper DEF MountCommands, MountEffect, cmd
  <2>2. /\ at.client \in Clients /\ at.path \in Paths /\ at.staging \in Paths
        /\ at.path \notin StagingPaths
    BY <1>2, <1>15, PathsAssumption DEF Paths
  <2>3. ShownAt(w, at.client, at.staging) \in Backing
    BY <2>2, Shown
  <2>4. \A q \in Paths : q # at.path => x.mount[at.client][q] = w.mount[at.client][q]
    BY <2>1, <2>2, <2>3, PushMounts
  <2>5. k.of = "path" => x.mount[v.clientHost][k.path] = w.mount[v.clientHost][k.path]
    <3>1. k.of = "path" => k.path \in Paths /\ k.path # at.path
      BY <1>1, <1>2, <1>3, <1>4, <1>15 DEF FsCommands, Paths
    <3> QED
      BY <1>1, <2>4, <3>1
  <2>6. k.of = "staging" =>
           x.mount[v.clientHost][v.stagingPath] = w.mount[v.clientHost][v.stagingPath]
    <3>1. k.of = "staging" => v.stagingPath \in Paths /\ v.stagingPath # at.path
      BY <1>3, <2>2 DEF Paths
    <3> QED
      BY <1>1, <2>4, <3>1
  <2> QED
    BY <1>8, <1>15, <1>9, <2>5, <2>6 DEF TargetCommands
<1> QED
  BY <1>2, <1>10, <1>11, <1>12, <1>13, <1>14, <1>15

(* A repair does what its look asked for: the last of its commands, if it takes
   several. *)
LEMMA RepairDoes ==
  ASSUME NvmeOnly, NEW s \in Syncing, OnPass(s), s.pc \in Commands, NEW v, v = s.v, Shape(v),
         NEW w \in World, OneLayer(w),
         NEW l, l = Head(s.todo), NEW at, at = SyncPlace(v, l.path),
         Succeeds(s.pc, w, at), NEW x, x = Effect(s.pc, w, at),
         s.pc = "publish" => w.zvol[at.server] # "absent",
         s.pc = "authorize" => Export(at) \in w.target,
         s.pc \notin FsCommands
  PROVE  Holds(l, v, x)
<1> DEFINE cmd == s.pc
<1>1. /\ v \in Volume /\ l \in Wanted(v) /\ at \in Place /\ cmd \in Commands
      /\ at.server = v.serverHost /\ at.client = v.clientHost
      /\ at.type = v.transport.type
      /\ at.staging = v.stagingPath /\ at.path = l.path
  BY RepairKnows
<1>2. /\ \/ cmd = "zfsCreate" /\ l.of = "zvol" /\ l.want
         \/ cmd = "publish" /\ l.of = "target" /\ l.want
         \/ cmd = "unpublish" /\ l.of = "target" /\ ~l.want
         \/ cmd = "authorize" /\ l.of = "acl" /\ l.want
         \/ cmd = "unauthorize" /\ l.of = "acl" /\ ~l.want
         \/ cmd = "login" /\ l.of = "session" /\ l.want
         \/ cmd = "logout" /\ l.of = "session" /\ ~l.want
         \/ cmd = "mount" /\ l.of = "staging" /\ l.want
         \/ cmd = "umountStaging" /\ l.of = "staging" /\ ~l.want
         \/ cmd = "bind" /\ l.of = "path" /\ l.want
      /\ l.of = "zvol" => at.server \in Servers
      /\ l.of \in {"staging", "path"} => at.client \in Clients /\ at.staging \in StagingPaths
      /\ l.of = "path" => at.path \in MountPaths
  BY RepairKnows DEF FsCommands
<1>3. Export(at) = <<v.serverHost, v.transport.type>>
  BY <1>1 DEF Export
<1>4. /\ l.of = "zvol" => (Holds(l, v, x) <=> x.zvol[v.serverHost] # "absent")
      /\ l.of = "staging" /\ l.want =>
            (Holds(l, v, x) <=> x.mount[v.clientHost][v.stagingPath] # <<>>)
      /\ l.of = "staging" /\ ~l.want =>
            (Holds(l, v, x) <=> ShownAt(x, v.clientHost, v.stagingPath).kind # "device")
      /\ l.of = "path" => (Holds(l, v, x) <=> (x.mount[v.clientHost][l.path] # <<>> <=> l.want))
  <2>1. v \in Volume /\ l \in Wanted(v)
    BY <1>1
  <2>2. \A y : l.of = "zvol" => (Holds(l, v, y) <=> y.zvol[v.serverHost] # "absent")
    BY <2>1, HoldsFields
  <2>3. \A y : l.of = "staging" /\ l.want =>
                 (Holds(l, v, y) <=> y.mount[v.clientHost][v.stagingPath] # <<>>)
    BY <2>1, HoldsFields
  <2>4. \A y : l.of = "path" =>
                 (Holds(l, v, y) <=> (y.mount[v.clientHost][l.path] # <<>> <=> l.want))
    BY <2>1, HoldsFields
  <2>5. \A y : l.of = "staging" /\ ~l.want =>
                 (Holds(l, v, y) <=> ShownAt(y, v.clientHost, v.stagingPath).kind # "device")
    BY <2>1, HoldsFields
  <2> QED
    BY <2>2, <2>3, <2>4, <2>5
<1> HIDE DEF cmd
<1>5. CASE cmd = "zfsCreate"
  <2>1. x.zvol[at.server] # "absent"
    BY <1>1, <1>2, <1>5, ZvolStays DEF cmd
  <2>2. x.zvol[v.serverHost] # "absent"
    BY <1>1, <2>1
  <2>3. l.of = "zvol"
    BY <1>2, <1>5
  <2> QED
    BY <1>4, <2>2, <2>3, Zenon
<1>6. CASE cmd \in {"publish", "unpublish", "authorize", "unauthorize"}
  <2>1. x = TargetEffect(cmd, w, at)
    BY <1>6, Wrapper DEF TargetCommands, cmd
  <2>2. /\ cmd = "publish" => x.target = w.target \cup {Export(at)}
        /\ cmd = "unpublish" => x.target = w.target \ {Export(at)}
        /\ cmd = "authorize" => x.acl = w.acl \cup {<<Export(at), at.client>>}
        /\ cmd = "unauthorize" => x.acl = w.acl \ {<<Export(at), at.client>>}
    BY <1>1, <1>6, <2>1, TargetFields DEF TargetCommands, cmd
  <2>3. CASE l.of = "target"
    <3>1. <<v.serverHost, v.transport.type>> \in x.target <=> l.want
      BY <1>2, <1>3, <1>6, <2>2, <2>3
    <3> QED
      BY <1>1, <2>3, <3>1, HoldsFields
  <2>4. CASE l.of = "acl"
    <3>1. <<<<v.serverHost, v.transport.type>>, v.clientHost>> \in x.acl <=> l.want
      BY <1>1, <1>2, <1>3, <1>6, <2>2, <2>4
    <3> QED
      BY <1>1, <2>4, <3>1, HoldsFields
  <2> QED
    BY <1>2, <1>6, <2>3, <2>4
<1>7. CASE cmd = "login"
  <2>1. x = SessionEffect(cmd, w, at)
    BY <1>7, Wrapper DEF SessionCommands, cmd
  <2> DEFINE e == [client |-> at.client, server |-> at.server, type |-> at.type,
                   portal |-> at.portal]
  <2>2. x.session = w.session \cup {e}
    BY <1>7, <2>1 DEF SessionEffect, World
  <2>3. e.client = at.client /\ e.server = at.server /\ e.type = at.type
    OBVIOUS
  <2> HIDE DEF e
  <2>4. Joined(v, x)
    BY <1>1, <2>2, <2>3 DEF Joined
  <2> QED
    BY <1>1, <1>2, <1>7, <2>4, HoldsFields
<1>8. CASE cmd = "logout"
  <2>1. x = CloseSessions(w, at)
    BY <1>8, Wrapper DEF SessionCommands, SessionEffect, cmd
  <2>2. DataPortals(w) /\ at.type # "ISCSI"
    BY <1>1, NvmePlaces
  <2>3. x.session = w.session \ SessionsAt(w, at)
    BY <1>1, <2>1, <2>2, LogoutMounts
  <2>4. ~Joined(v, x)
    BY <1>1, <2>2, <2>3 DEF Joined, SessionsAt
  <2> QED
    BY <1>1, <1>2, <1>8, <2>4, HoldsFields
<1>9. CASE cmd = "mount"
  <2>1. x = Push(w, at.client, at.staging, Device(at.server, at.type))
    BY <1>9, Wrapper DEF MountCommands, MountEffect, cmd
  <2>2. at.client \in Clients /\ at.staging \in Paths
    BY <1>2, <1>9 DEF Paths
  <2>3. Device(at.server, at.type) \in Backing
    BY <1>1 DEF Device, Backing, Place
  <2>4. x.mount[at.client][at.staging] # <<>>
    <3>1. \A c \in Clients, p \in Paths, f \in Backing : Push(w, c, p, f).mount[c][p] # <<>>
      BY PushMounts
    <3> QED
      BY <2>1, <2>2, <2>3, <3>1
  <2>5. x.mount[v.clientHost][v.stagingPath] # <<>>
    BY <1>1, <2>4
  <2>6. l.of = "staging" /\ l.want
    BY <1>2, <1>9
  <2> QED
    BY <1>4, <2>5, <2>6, Zenon
<1>10. CASE cmd = "umountStaging"
  <2>1. /\ x = Pop(w, at.client, at.staging)
        /\ w.mount[at.client][at.staging] # <<>>
    <3>1. /\ Succeeds(cmd, w, at) = MountSucceeds(cmd, w, at)
          /\ x = MountEffect(cmd, w, at)
      BY <1>10, Wrapper DEF MountCommands, cmd
    <3>2. MountSucceeds(cmd, w, at)
      BY <3>1 DEF cmd
    <3> QED
      BY <1>10, <3>1, <3>2 DEF MountEffect, MountSucceeds
  <2>2. at.client \in Clients /\ at.staging \in Paths /\ at.staging \in StagingPaths
    BY <1>2, <1>10 DEF Paths
  <2>3. ShownAt(x, at.client, at.staging).kind # "device"
    BY <2>1, <2>2, LayerPop
  <2>4. ShownAt(x, v.clientHost, v.stagingPath).kind # "device"
    BY <1>1, <2>3
  <2>5. l.of = "staging" /\ ~l.want
    BY <1>2, <1>10
  <2> QED
    BY <1>4, <2>4, <2>5, Zenon
<1>11. CASE cmd = "bind"
  <2>1. x = Push(w, at.client, at.path, ShownAt(w, at.client, at.staging))
    BY <1>11, Wrapper DEF MountCommands, MountEffect, cmd
  <2>2. at.client \in Clients /\ at.path \in Paths /\ at.staging \in Paths
    BY <1>2, <1>11 DEF Paths
  <2>3. ShownAt(w, at.client, at.staging) \in Backing
    BY <2>2, Shown
  <2>4. x.mount[at.client][at.path] # <<>>
    <3> DEFINE e == ShownAt(w, at.client, at.staging)
    <3>1. e \in Backing /\ x = Push(w, at.client, at.path, e)
      BY <2>1, <2>3
    <3> HIDE DEF e
    <3>2. \A c \in Clients, p \in Paths, f \in Backing : Push(w, c, p, f).mount[c][p] # <<>>
      BY PushMounts
    <3> QED
      BY <2>2, <3>1, <3>2
  <2>5. x.mount[v.clientHost][l.path] # <<>>
    BY <1>1, <2>4
  <2>6. l.of = "path" /\ l.want
    BY <1>2, <1>11
  <2> QED
    BY <1>4, <2>5, <2>6, Zenon
<1> QED
  BY <1>2, <1>5, <1>6, <1>7, <1>8, <1>9, <1>10, <1>11

-----------------------------------------------------------------------------
(* What an undisturbed sync has behind it. *)

(* The looks to come are in the order of the passes.  What is wanted and not to
   come holds already. *)
Behind(s, w) ==
  /\ InPasses(s.todo)
  /\ s.calm => \A l \in Wanted(s.v) : l \in ToSet(s.todo) \/ Holds(l, s.v, w)

SyncKept == \A c \in Calls : Busy(c) => Behind(sync[c], world)

LEMMA RankType == \A of \in Resources : Rank(of) \in Nat
BY DEF Rank, Resources

(* What comes before the first look, and so is not to come. *)
LEMMA KeptBefore ==
  ASSUME NEW s \in Syncing, OnPass(s), s.todo # <<>>, NEW w, Behind(s, w), s.calm,
         NEW k \in Wanted(s.v), Rank(k.of) < Rank(Head(s.todo).of)
  PROVE  Holds(k, s.v, w)
<1> DEFINE t == s.todo
<1>1. t \in Seq(Look) /\ Head(t) \in Look /\ k \in Look
  BY FirstLook DEF Syncing, Wanted
<1>2. Rank(Head(t).of) \in Nat /\ Rank(k.of) \in Nat
  BY <1>1, RankType DEF Look
<1>3. \A u \in Seq(Look) : u # <<>> => Head(u) = u[1] /\ 1 \in 1 .. Len(u)
  OBVIOUS
<1>4. Head(t) = t[1] /\ 1 \in 1 .. Len(t) /\ DOMAIN t = 1 .. Len(t) /\ Len(t) \in Nat
  BY <1>1, <1>3, LenProperties
<1>5. InPasses(t)
  BY DEF Behind
<1> HIDE DEF t
<1>6. k \notin ToSet(t)
  <2> SUFFICES ASSUME NEW i \in 1 .. Len(t), k = t[i]
               PROVE  FALSE
    BY <1>4 DEF ToSet
  <2>1. i # 1
    BY <1>2, <1>4 DEF t
  <2>2. Rank(t[1].of) <= Rank(t[i].of)
    BY <1>4, <1>5, <2>1 DEF InPasses
  <2> QED
    BY <1>2, <1>4, <2>2 DEF t
<1> QED
  BY <1>6 DEF Behind, t

LEMMA KeptNext ==
  ASSUME NEW s \in Syncing, OnPass(s), s.todo # <<>>, NEW w, Behind(s, w), NEW x,
         NEW r, r.v = s.v, r.todo = Tail(s.todo), r.calm => s.calm,
         s.calm => /\ Holds(Head(s.todo), s.v, x)
                   /\ \A k \in Wanted(s.v) : k # Head(s.todo) /\ Holds(k, s.v, w)
                                               => Holds(k, s.v, x)
  PROVE  Behind(r, x)
<1> DEFINE t == s.todo
           u == Tail(t)
<1>1. /\ t \in Seq(Look) /\ u \in Seq(Look)
      /\ ToSet(t) = {Head(t)} \cup ToSet(u)
      /\ \A i \in DOMAIN u : i + 1 \in DOMAIN t /\ u[i] = t[i + 1]
  BY FirstLook DEF Syncing
<1>2. /\ DOMAIN t = 1 .. Len(t) /\ DOMAIN u = 1 .. Len(u) /\ Len(t) \in Nat /\ Len(u) \in Nat
  BY <1>1, LenProperties
<1>3. InPasses(t) /\ r.todo = u
  BY DEF Behind
<1>4. \A l \in Wanted(s.v) : r.calm => l \in ToSet(u) \/ Holds(l, s.v, x)
  BY <1>1 DEF Behind
<1> HIDE DEF t, u
<1>5. InPasses(u)
  <2> SUFFICES ASSUME NEW i \in 1 .. Len(u), NEW j \in 1 .. Len(u), i < j
               PROVE  Rank(u[i].of) <= Rank(u[j].of)
    BY DEF InPasses
  <2>1. i + 1 \in 1 .. Len(t) /\ j + 1 \in 1 .. Len(t) /\ i + 1 < j + 1
    BY <1>1, <1>2
  <2>2. u[i] = t[i + 1] /\ u[j] = t[j + 1]
    BY <1>1, <1>2
  <2> QED
    BY <1>3, <2>1, <2>2 DEF InPasses
<1> QED
  BY <1>3, <1>4, <1>5 DEF Behind

LEMMA KeptStays ==
  ASSUME NEW s, NEW w, Behind(s, w), NEW x,
         NEW r, r.v = s.v, r.todo = s.todo, r.calm => s.calm,
         r.calm => \A k \in Wanted(s.v) : Holds(k, s.v, w) => Holds(k, s.v, x)
  PROVE  Behind(r, x)
BY DEF Behind

(* A look that found what it wants. *)
LEMMA FoundHolds ==
  ASSUME NEW v \in Volume, NEW l \in Wanted(v), NEW w,
         Found(l.of, w, SyncPlace(v, l.path)) = l.want
  PROVE  Holds(l, v, w)
<1>1. CASE ~(l.of = "staging" /\ ~l.want)
  BY <1>1 DEF Holds
<1>2. CASE l.of = "staging" /\ ~l.want
  <2>1. w.mount[v.clientHost][v.stagingPath] = <<>>
    BY <1>2 DEF Found, SyncPlace, PlaceOf
  <2>2. ShownAt(w, v.clientHost, v.stagingPath).kind = "dir"
    BY <2>1 DEF ShownAt, PlainDir
  <2> QED
    BY <1>2, <2>2 DEF Holds
<1> QED
  BY <1>1, <1>2

(* What a repair needs of the passes before it. *)
LEMMA RepairReady ==
  ASSUME NEW s \in Syncing, OnPass(s), s.pc \in Commands, Shape(s.v), NEW w, Behind(s, w), s.calm,
         NEW at, at = SyncPlace(s.v, Head(s.todo).path)
  PROVE  /\ s.pc = "publish" => w.zvol[at.server] # "absent"
         /\ s.pc = "authorize" => Export(at) \in w.target
<1> DEFINE l == Head(s.todo)
           v == s.v
           z == [of |-> "zvol", want |-> TRUE, path |-> NoPath]
           t == [of |-> "target", want |-> TRUE, path |-> NoPath]
<1>1. /\ s.todo # <<>> /\ v \in Volume /\ l \in Wanted(v)
      /\ at.server = v.serverHost /\ at.type = v.transport.type
      /\ s.pc = "publish" => l.of = "target" /\ at.server \in Servers
      /\ s.pc = "authorize" => l.of = "acl" /\ at.server \in Servers /\ IsConnected(v)
  BY RepairKnows
<1>2. v.serverHost # NoHost => z \in Wanted(v)
  BY DEF Wanted, Placed, Look, Resources
<1>3. v.serverHost # NoHost /\ IsConnected(v) => t \in Wanted(v)
  <2>1. IsConnected(v) => IsPublished(v)
    BY <1>1 DEF IsConnected, IsPublished, PUBLISHED, CONNECTED, Volume, Status, UNSPECIFIED,
       MOUNTED
  <2> QED
    BY <2>1 DEF Wanted, Placed, Look, Resources
<1>4. z.of = "zvol" /\ t.of = "target" /\ t.want
  OBVIOUS
<1> HIDE DEF z, t
<1>5. ASSUME s.pc = "publish"
      PROVE  w.zvol[at.server] # "absent"
  <2>1. z \in Wanted(v)
    BY <1>1, <1>2, <1>5, HostsAssumption
  <2>2. Holds(z, v, w)
    <3>1. Rank(z.of) < Rank(l.of)
      BY <1>1, <1>4, <1>5 DEF Rank
    <3> QED
      BY <1>1, <2>1, <3>1, KeptBefore
  <2> QED
    BY <1>1, <1>4, <2>1, <2>2, HoldsFields
<1>6. ASSUME s.pc = "authorize"
      PROVE  Export(at) \in w.target
  <2>1. t \in Wanted(v)
    BY <1>1, <1>3, <1>6, HostsAssumption
  <2>2. Holds(t, v, w)
    <3>1. Rank(t.of) < Rank(l.of)
      BY <1>1, <1>4, <1>6 DEF Rank
    <3> QED
      BY <1>1, <2>1, <3>1, KeptBefore
  <2>3. <<v.serverHost, v.transport.type>> \in w.target
    BY <1>1, <1>4, <2>1, <2>2, HoldsFields
  <2> QED
    BY <1>1, <2>3 DEF Export
<1> QED
  BY <1>5, <1>6

(* A step of a sync. *)
LEMMA KeptMove ==
  ASSUME NvmeOnly, SyncTyped, SyncSerial, SyncDevices, SyncKept,
         NEW c \in Calls, SyncProgress(c) \/ LoseLook(c) \/ LoseRepair(c)
  PROVE  sync'[c].pc = "idle" \/ Behind(sync'[c], world')
<1> DEFINE s == sync[c]
           l == Head(s.todo)
           at == SyncPlace(s.v, l.path)
           x == Effect(s.pc, world, at)
           r == sync'[c]
<1>1. s \in Syncing /\ OnPass(s) /\ world \in World /\ sync \in [Calls -> Syncing]
  BY DEF SyncTyped, SyncCourse, TypeOK
<1>2. Busy(c)
  BY SyncMoves DEF Moves
<1>3. s.v = row /\ Shape(s.v) /\ Behind(s, world) /\ RowsDevice(s.v, world) /\ OneLayer(world)
  BY <1>2 DEF SyncSerial, SyncFresh, SerialInv, SyncDevices, WritersInv, SyncKept
<1>4. s.todo = <<>> <=> s.pc \in {"idle", "done"}
  BY <1>1 DEF OnPass
<1>5. ~("idle" \in Commands) /\ ~("done" \in Commands)
  BY DEF Commands, ZfsCommands, TargetCommands, SessionCommands, FsCommands, MountCommands
<1>6. s.todo # <<>> => /\ Advance(c) \in Syncing
                       /\ Advance(c).v = s.v /\ Advance(c).todo = Tail(s.todo)
                       /\ Advance(c).calm = s.calm
  BY <1>1, AdvanceStep
<1>7. s.todo # <<>> => l \in Wanted(s.v) /\ s.v \in Volume
  BY <1>1, FirstLook DEF Syncing
<1>8. \A y \in Syncing : Becomes(c, y) => r = y
  BY <1>1, BecomesStep
<1>9. AtRest \in Syncing /\ AtRest.pc = "idle"
  BY AtRestType
<1>10. /\ \A p \in Commands : [s EXCEPT !.pc = p] \in Syncing
       /\ \A p : /\ [s EXCEPT !.pc = p].v = s.v
                 /\ [s EXCEPT !.pc = p].todo = s.todo
                 /\ [s EXCEPT !.pc = p].calm = s.calm
  BY <1>1 DEF Syncing
<1> HIDE DEF s, l, at, x, r
<1>11. CASE TakeLook(c)
  <2>1. s.pc = "look" /\ world' = world /\ s.todo # <<>>
    BY <1>4, <1>11 DEF TakeLook, s, vars
  <2>2. \/ Found(l.of, world, at) = l.want /\ Becomes(c, Advance(c))
        \/ Becomes(c, AtRest)
        \/ Becomes(c, [s EXCEPT !.pc = Repair(l)])
    BY <1>11 DEF TakeLook, Where, s, l, at
  <2>3. CASE Found(l.of, world, at) = l.want /\ Becomes(c, Advance(c))
    <3>1. r.v = s.v /\ r.todo = Tail(s.todo) /\ r.calm = s.calm
      BY <1>6, <1>8, <2>1, <2>3
    <3>2. Holds(l, s.v, world)
      BY <1>7, <2>1, <2>3, FoundHolds DEF at
    <3>3. Behind(r, world)
      BY <1>1, <1>3, <2>1, <3>1, <3>2, KeptNext DEF l
    <3> QED
      BY <2>1, <3>3 DEF r
  <2>4. CASE Becomes(c, AtRest)
    BY <1>8, <1>9, <2>4 DEF r
  <2>5. CASE Becomes(c, [s EXCEPT !.pc = Repair(l)])
    <3>1. Repair(l) \in Commands
      <4>1. l \in Look
        BY <1>7, <2>1 DEF Wanted
      <4> QED
        BY <4>1 DEF Repair, Look, Resources, Commands, ZfsCommands, TargetCommands,
           SessionCommands, FsCommands, MountCommands
    <3>2. r.v = s.v /\ r.todo = s.todo /\ r.calm = s.calm
      BY <1>8, <1>10, <2>5, <3>1
    <3>3. Behind(r, world)
      BY <1>3, <3>2, KeptStays
    <3> QED
      BY <2>1, <3>3 DEF r
  <2> QED
    BY <2>2, <2>3, <2>4, <2>5
<1>12. CASE RunRepair(c)
  <2>1. /\ s.pc \in Commands /\ Succeeds(s.pc, world, at) /\ world' = x
        /\ \/ s.pc \notin FsCommands /\ Becomes(c, Advance(c))
           \/ /\ s.pc \in FsCommands
              /\ Becomes(c, [s EXCEPT !.pc = After(s.pc, s.pc, world, at)])
    BY <1>12 DEF RunRepair, Where, s, l, at, x
  <2>2. s.todo # <<>>
    BY <1>4, <1>5, <2>1
  <2>3. s.calm => /\ s.pc = "publish" => world.zvol[at.server] # "absent"
                  /\ s.pc = "authorize" => Export(at) \in world.target
    BY <1>1, <1>3, <2>1, RepairReady DEF at, l
  <2>4. s.calm => \A k \in Wanted(s.v) :
                     Holds(k, s.v, world) /\ (k # l \/ s.pc \in FsCommands) => Holds(k, s.v, x)
    BY <1>1, <1>3, <2>1, <2>3, RepairKeeps DEF at, l, x
  <2>5. CASE s.pc \notin FsCommands /\ Becomes(c, Advance(c))
    <3>1. r.v = s.v /\ r.todo = Tail(s.todo) /\ r.calm = s.calm
      BY <1>6, <1>8, <2>2, <2>5
    <3>2. s.calm => Holds(l, s.v, x)
      BY <1>1, <1>3, <2>1, <2>3, <2>5, RepairDoes DEF at, l, x
    <3>3. Behind(r, x)
      BY <1>1, <1>3, <2>2, <2>4, <3>1, <3>2, KeptNext DEF l
    <3> QED
      BY <2>1, <3>3 DEF r
  <2>6. CASE /\ s.pc \in FsCommands
             /\ Becomes(c, [s EXCEPT !.pc = After(s.pc, s.pc, world, at)])
    <3>1. After(s.pc, s.pc, world, at) \in Commands
      <4>1. s.pc \in Repairs(l)
        BY <1>1, <2>1 DEF OnPass, l
      <4>2. s.pc # "resize"
        <5>1. l \in Look
          BY <1>7, <2>2 DEF Wanted
        <5> QED
          BY <4>1, <5>1 DEF Repairs, Repair, Look, Resources
      <4> QED
        BY <2>6, <4>2 DEF After, Commands, FsCommands, MountCommands
    <3>2. r.v = s.v /\ r.todo = s.todo /\ r.calm = s.calm
      BY <1>8, <1>10, <2>6, <3>1
    <3>3. Behind(r, x)
      BY <1>3, <2>4, <2>6, <3>2, KeptStays
    <3> QED
      BY <2>1, <3>3 DEF r
  <2> QED
    BY <2>1, <2>5, <2>6
<1>13. CASE RepairFails(c) \/ SyncAnswer(c) \/ LoseRepair(c)
  <2>1. Becomes(c, AtRest)
    BY <1>13 DEF RepairFails, SyncAnswer, LoseRepair
  <2> QED
    BY <1>8, <1>9, <2>1 DEF r
<1>14. CASE LoseLook(c)
  <2>1. s.pc = "look" /\ world' = world /\ s.todo # <<>>
    BY <1>4, <1>14 DEF LoseLook, s
  <2>2. \/ Becomes(c, AtRest)
        \/ Becomes(c, [Advance(c) EXCEPT !.calm = FALSE])
        \/ Becomes(c, [s EXCEPT !.pc = Repair(l), !.calm = FALSE])
    BY <1>14 DEF LoseLook, s, l
  <2>3. CASE Becomes(c, AtRest)
    BY <1>8, <1>9, <2>3 DEF r
  <2>4. CASE Becomes(c, [Advance(c) EXCEPT !.calm = FALSE])
    <3>1. /\ [Advance(c) EXCEPT !.calm = FALSE] \in Syncing
          /\ [Advance(c) EXCEPT !.calm = FALSE].v = s.v
          /\ [Advance(c) EXCEPT !.calm = FALSE].todo = Tail(s.todo)
          /\ ~[Advance(c) EXCEPT !.calm = FALSE].calm
      <4> DEFINE a == Advance(c)
      <4>1. a \in Syncing /\ a.v = s.v /\ a.todo = Tail(s.todo)
        BY <1>6, <2>1
      <4> HIDE DEF a
      <4>2. /\ [a EXCEPT !.calm = FALSE] \in Syncing /\ [a EXCEPT !.calm = FALSE].v = s.v
            /\ [a EXCEPT !.calm = FALSE].todo = Tail(s.todo)
            /\ ~[a EXCEPT !.calm = FALSE].calm
        BY <4>1 DEF Syncing
      <4> QED
        BY <4>2 DEF a
    <3>2. r.v = s.v /\ r.todo = Tail(s.todo) /\ ~r.calm
      BY <1>8, <2>4, <3>1
    <3> DEFINE u == [s EXCEPT !.calm = FALSE]
    <3>3. u \in Syncing /\ OnPass(u) /\ u.v = s.v /\ u.todo = s.todo /\ ~u.calm
      BY <1>1 DEF Syncing, OnPass
    <3> HIDE DEF u
    <3>4. Behind(u, world)
      BY <1>3, <3>3 DEF Behind
    <3>5. Behind(r, world)
      BY <2>1, <3>2, <3>3, <3>4, KeptNext
    <3> QED
      BY <2>1, <3>5 DEF r
  <2>5. CASE Becomes(c, [s EXCEPT !.pc = Repair(l), !.calm = FALSE])
    <3> DEFINE u == [s EXCEPT !.pc = Repair(l), !.calm = FALSE]
    <3>1. Repair(l) \in Commands
      <4>1. l \in Look
        BY <1>7, <2>1 DEF Wanted
      <4> QED
        BY <4>1 DEF Repair, Look, Resources, Commands, ZfsCommands, TargetCommands,
           SessionCommands, FsCommands, MountCommands
    <3>2. u \in Syncing /\ u.v = s.v /\ u.todo = s.todo /\ ~u.calm
      BY <1>1, <3>1 DEF Syncing
    <3>3. r = u
      BY <1>8, <2>5, <3>2
    <3> HIDE DEF u
    <3>4. Behind(r, world)
      BY <1>3, <3>2, <3>3 DEF Behind
    <3> QED
      BY <2>1, <3>4 DEF r
  <2> QED
    BY <2>2, <2>3, <2>4, <2>5
<1> QED
  BY <1>11, <1>12, <1>13, <1>14 DEF SyncProgress

LEMMA SyncKeptStep ==
  ASSUME OneCall, NvmeOnly, SyncTyped, SyncSerial, SyncDevices, SyncKept,
         [SyncNext]_syncVars
  PROVE  SyncKept'
<1>1. TypeOK /\ FinitePaths /\ sync \in [Calls -> Syncing]
  BY DEF SyncTyped
<1>2. ASSUME Disturbed
      PROVE  SyncKept'
  <2> SUFFICES ASSUME NEW d \in Calls, sync'[d].pc # "idle"
               PROVE  Behind(sync'[d], world')
    BY DEF SyncKept, Busy
  <2>1. /\ sync'[d].pc = sync[d].pc /\ sync'[d].v = sync[d].v /\ sync'[d].todo = sync[d].todo
        /\ sync'[d].calm => sync[d].calm /\ (Busy(d) => world' = world)
    BY <1>1, <1>2, DisturbedStep
  <2>2. Busy(d) /\ Behind(sync[d], world)
    BY <2>1 DEF SyncKept, Busy
  <2>3. sync'[d].calm => world' = world
    BY <2>1, <2>2
  <2>4. \A r : /\ r.v = sync[d].v /\ r.todo = sync[d].todo /\ (r.calm => sync[d].calm)
               /\ r.calm => world' = world
               => Behind(r, world')
    BY <2>2 DEF Behind
  <2> QED
    BY <2>1, <2>3, <2>4
<1>3. CASE /\ \E m \in CreateModes, t \in AnyTransport, out \in CreateOutputs :
                    CreateVolume(m, t, out)
           /\ UNCHANGED <<sync, restarts>>
  <2>1. world' = world /\ sync' = sync
    BY <1>3 DEF CreateVolume
  <2> QED
    BY <2>1 DEF SyncKept, Busy
<1>4. ASSUME NEW c \in Calls, ServiceStep(c)
      PROVE  SyncKept'
  BY <1>2, <1>4 DEF ServiceStep
<1>5. ASSUME NEW c \in Calls, SyncVolume(c)
      PROVE  SyncKept'
  <2> DEFINE s == [pc |-> "look", v |-> row, todo |-> Sync(row), calm |-> TRUE]
  <2>1. sync' = [sync EXCEPT ![c] = s]
    BY <1>5 DEF SyncVolume
  <2>2. s.v = row /\ s.todo = Sync(row)
    OBVIOUS
  <2>3. InPasses(s.todo) /\ ToSet(s.todo) = Wanted(row)
    BY <1>1, <2>2, SyncPasses DEF Pass, TypeOK, FinitePaths
  <2> HIDE DEF s
  <2>4. Behind(s, world')
    BY <2>2, <2>3 DEF Behind
  <2>5. \A d \in Calls : sync'[d] = s
    BY <1>1, <2>1 DEF OneCall
  <2> QED
    BY <2>4, <2>5 DEF SyncKept
<1>6. ASSUME NEW c \in Calls, SyncProgress(c) \/ LoseLook(c) \/ LoseRepair(c)
      PROVE  SyncKept'
  <2>1. sync'[c].pc = "idle" \/ Behind(sync'[c], world')
    BY <1>6, KeptMove
  <2> QED
    BY <2>1 DEF SyncKept, Busy, OneCall
<1>7. CASE (\E h \in Clients : ClientRestarts(h)) \/ (\E s \in Servers : ServerRestarts(s))
  BY <1>1, <1>2, <1>7, RestartType DEF TypeOK
<1>8. CASE CrashAll
  BY <1>8 DEF CrashAll, SyncKept, Busy, AtRest
<1>9. CASE UNCHANGED syncVars
  BY <1>9 DEF syncVars, vars, SyncKept, Busy
<1> QED
  BY <1>3, <1>4, <1>5, <1>6, <1>7, <1>8, <1>9 DEF SyncNext

(* What the properties of an undisturbed sync need. *)
SyncInv == SyncTyped /\ SyncSerial /\ SyncDevices /\ SyncKept

LEMMA SyncInvStep ==
  ASSUME OneCall, PathlessCreates, NvmeOnly, SyncInv, [SyncNext]_syncVars
  PROVE  SyncInv'
BY SyncTypedStep, SyncSerialStep, SyncDevicesStep, SyncKeptStep DEF SyncInv

LEMMA SyncInvInit == SyncInit => SyncInv
<1>1. SyncInit => SyncKept
  BY DEF SyncInit, SyncKept, Busy, AtRest
<1> QED
  BY <1>1, SyncTypedInit, SyncDevicesInit DEF SyncInv

LEMMA InvBinds == SyncInv => SyncBindsVolume
<1> SUFFICES ASSUME SyncInv, NEW c \in Calls, sync[c].pc = "bind", sync[c].calm
             PROVE  world.mount[sync[c].v.clientHost][sync[c].v.stagingPath] # <<>>
  BY DEF SyncBindsVolume
<1> DEFINE s == sync[c]
           v == s.v
           l == Head(s.todo)
           k == [of |-> "staging", want |-> TRUE, path |-> NoPath]
<1>1. s \in Syncing /\ OnPass(s) /\ s.pc = "bind" /\ s.calm
  BY DEF SyncInv, SyncTyped, SyncCourse
<1>2. Shape(v) /\ Behind(s, world)
  BY DEF SyncInv, SyncSerial, SyncFresh, SerialInv, SyncKept, Busy
<1>3. s.pc \in Commands
  BY <1>1 DEF Commands, MountCommands
<1> HIDE DEF s
<1>4. /\ s.todo # <<>> /\ v \in Volume /\ l \in Wanted(v) /\ l.of = "path" /\ IsMounted(v)
  BY <1>1, <1>2, <1>3, RepairKnows
<1>5. k \in Wanted(v)
  <2>1. IsStaged(v) /\ IsConnected(v) /\ IsPublished(v)
    BY <1>4 DEF IsStaged, IsMounted, IsConnected, IsPublished, PUBLISHED, CONNECTED, STAGED,
       MOUNTED, Volume, Status, UNSPECIFIED
  <2>2. v.serverHost # NoHost /\ v.clientHost # NoHost /\ v.stagingPath # NoPath
    BY <1>2, <2>1 DEF Shape
  <2> QED
    BY <2>1, <2>2 DEF Wanted, Placed, Look, Resources
<1>6. k.of = "staging" /\ k.want
  OBVIOUS
<1> HIDE DEF k, v, l
<1>7. Holds(k, v, world)
  <2>1. Rank(k.of) < Rank(l.of)
    BY <1>4, <1>6 DEF Rank
  <2> QED
    BY <1>1, <1>2, <1>4, <1>5, <2>1, KeptBefore DEF v, l
<1>8. world.mount[v.clientHost][v.stagingPath] # <<>>
  BY <1>4, <1>5, <1>6, <1>7, HoldsFields
<1> QED
  BY <1>8 DEF v, s

LEMMA InvSettles == SyncInv => SyncSettles
<1> SUFFICES ASSUME SyncInv, NEW c \in Calls, sync[c].pc = "done", sync[c].calm
             PROVE  Serves(world, sync[c].v)
  BY DEF SyncSettles
<1> DEFINE s == sync[c]
           v == s.v
           at == PlaceOf(v, NoPath)
           look(of, want) == [of |-> of, want |-> want, path |-> NoPath]
<1>1. s \in Syncing /\ OnPass(s) /\ s.pc = "done" /\ s.calm
  BY DEF SyncInv, SyncTyped, SyncCourse
<1>2. Shape(v) /\ Behind(s, world) /\ v \in Volume
  BY <1>1 DEF SyncInv, SyncSerial, SyncFresh, SerialInv, SyncKept, Busy, Syncing
<1>3. \A l \in Wanted(v) : Holds(l, v, world)
  <2>1. s.todo = <<>>
    BY <1>1 DEF OnPass
  <2>2. ToSet(s.todo) = {}
    BY <2>1, EmptyPass DEF Pass
  <2> QED
    BY <1>1, <1>2, <2>2 DEF Behind
<1>4. /\ at.server = v.serverHost /\ at.client = v.clientHost /\ at.type = v.transport.type
      /\ Export(at) = <<v.serverHost, v.transport.type>>
  BY DEF PlaceOf, Export
<1>5. /\ IsMounted(v) => IsStaged(v)
      /\ IsStaged(v) => IsConnected(v)
      /\ IsConnected(v) => IsPublished(v)
      /\ IsPublished(v) \in BOOLEAN /\ IsConnected(v) \in BOOLEAN /\ IsStaged(v) \in BOOLEAN
  BY <1>2 DEF IsStaged, IsMounted, IsConnected, IsPublished, PUBLISHED, CONNECTED, STAGED,
     MOUNTED, Volume, Status, UNSPECIFIED
<1>6. v.serverHost # NoHost =>
         /\ look("zvol", TRUE) \in Wanted(v)
         /\ look("target", IsPublished(v)) \in Wanted(v)
         /\ v.clientHost # NoHost =>
               /\ look("acl", IsConnected(v)) \in Wanted(v)
               /\ look("session", IsConnected(v)) \in Wanted(v)
               /\ v.stagingPath # NoPath => look("staging", IsStaged(v)) \in Wanted(v)
  BY <1>5 DEF Wanted, Placed, Look, Resources
<1>7. /\ IsPublished(v) => v.serverHost # NoHost
      /\ v.targetPaths # {} => IsMounted(v)
  BY <1>2 DEF Shape
<1>8. \A of, want : look(of, want).of = of /\ look(of, want).want = want
  OBVIOUS
<1> HIDE DEF s, v, at, look
<1>9. ASSUME v.serverHost # NoHost
      PROVE  world.zvol[v.serverHost] # "absent"
  <2> DEFINE k == look("zvol", TRUE)
  <2>1. k \in Wanted(v) /\ k.of = "zvol"
    BY <1>6, <1>8, <1>9
  <2> HIDE DEF k
  <2> QED
    BY <1>2, <1>3, <2>1, HoldsFields
<1>10. IsPublished(v) => Export(at) \in world.target
  <2> SUFFICES ASSUME IsPublished(v)
               PROVE  <<v.serverHost, v.transport.type>> \in world.target
    BY <1>4
  <2> DEFINE k == look("target", IsPublished(v))
  <2>1. k \in Wanted(v) /\ k.of = "target" /\ k.want
    BY <1>6, <1>7, <1>8
  <2> HIDE DEF k
  <2> QED
    BY <1>2, <1>3, <2>1, HoldsFields
<1>11. ASSUME v.serverHost # NoHost, v.clientHost # NoHost
       PROVE  /\ LoggedIn(world, at) <=> IsConnected(v)
              /\ <<Export(at), at.client>> \in world.acl <=> IsConnected(v)
  <2> DEFINE j == look("session", IsConnected(v))
             k == look("acl", IsConnected(v))
  <2>1. /\ j \in Wanted(v) /\ j.of = "session" /\ j.want = IsConnected(v)
        /\ k \in Wanted(v) /\ k.of = "acl" /\ k.want = IsConnected(v)
    BY <1>6, <1>8, <1>11
  <2> HIDE DEF j, k
  <2>2. Joined(v, world) <=> IsConnected(v)
    BY <1>2, <1>3, <2>1, HoldsFields
  <2>3. <<<<v.serverHost, v.transport.type>>, v.clientHost>> \in world.acl <=> IsConnected(v)
    BY <1>2, <1>3, <2>1, HoldsFields
  <2>4. LoggedIn(world, at) <=> Joined(v, world)
    BY <1>4 DEF LoggedIn, Joined
  <2> QED
    BY <1>4, <2>2, <2>3, <2>4
<1>12. ASSUME v.serverHost # NoHost, v.clientHost # NoHost, v.stagingPath # NoPath
       PROVE  IF IsStaged(v)
              THEN \A p \in {v.stagingPath} \cup v.targetPaths :
                      world.mount[v.clientHost][p] # <<>>
              ELSE ShownAt(world, v.clientHost, v.stagingPath).kind # "device"
  <2> DEFINE k == look("staging", IsStaged(v))
  <2>1. k \in Wanted(v) /\ k.of = "staging" /\ k.want = IsStaged(v)
    BY <1>6, <1>8, <1>12
  <2> HIDE DEF k
  <2>2. IsStaged(v) => world.mount[v.clientHost][v.stagingPath] # <<>>
    BY <1>2, <1>3, <2>1, HoldsFields
  <2>3. ~IsStaged(v) => ShownAt(world, v.clientHost, v.stagingPath).kind # "device"
    BY <1>2, <1>3, <2>1, HoldsFields
  <2>4. ASSUME NEW p \in v.targetPaths
        PROVE  world.mount[v.clientHost][p] # <<>>
    <3> DEFINE l == [of |-> "path", want |-> TRUE, path |-> p]
    <3>1. l.of = "path" /\ l.want /\ l.path = p
      OBVIOUS
    <3>2. l \in Look
      BY <1>2, <2>4 DEF Look, Resources, Volume
    <3> HIDE DEF l
    <3>3. l \in Wanted(v)
      BY <1>12, <2>4, <3>1, <3>2 DEF Wanted, Placed
    <3> QED
      BY <1>2, <1>3, <3>1, <3>3, HoldsFields
  <2> QED
    BY <2>2, <2>3, <2>4
<1>13. Serves(world, v)
  BY <1>5, <1>7, <1>9, <1>10, <1>11, <1>12 DEF Serves, at
<1> QED
  BY <1>13 DEF v, s

(* With a sync or a call at a time, over NVMe, and no create that names target
   paths: a sync that nothing disturbed binds to a target path what is mounted on the staging path, never the node's own
   directory, whatever its hosts have lost (VolumeSyncer.syncStage comes before
   syncMount). *)
THEOREM SyncsBind ==
  OneCall /\ PathlessCreates /\ NvmeOnly /\ SyncSpec => []SyncBindsVolume
<1> SUFFICES ASSUME OneCall, PathlessCreates, NvmeOnly PROVE SyncSpec => []SyncBindsVolume
  OBVIOUS
<1>1. SyncInv /\ [SyncNext]_syncVars => SyncInv'
  BY SyncInvStep
<1> QED
  BY <1>1, SyncInvInit, InvBinds, PTL DEF SyncSpec

(* With a sync or a call at a time, over NVMe, and no create that names target
   paths: a sync that succeeds, and that nothing disturbed, leaves the hosts as its row wants them; none of its repairs
   undoes an earlier one, from whatever the hosts had been left in
   (VolumeSyncer.Sync). *)
THEOREM SyncsSettle ==
  OneCall /\ PathlessCreates /\ NvmeOnly /\ SyncSpec => []SyncSettles
<1> SUFFICES ASSUME OneCall, PathlessCreates, NvmeOnly PROVE SyncSpec => []SyncSettles
  OBVIOUS
<1>1. SyncInv /\ [SyncNext]_syncVars => SyncInv'
  BY SyncInvStep
<1> QED
  BY <1>1, SyncInvInit, InvSettles, PTL DEF SyncSpec

===============================================================================
