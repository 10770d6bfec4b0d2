----------------------------- MODULE LoopProofs -----------------------------
(***************************************************************************)
(* Proofs about the loop: whom it jails, whom a stop may kill, and that    *)
(* ticks, stops and toggles come to an end.                                *)
(***************************************************************************)
EXTENDS DaemonStreak, LifecycleProofs

(***************************************************************************)
(* Nobody is jailed for the breaches of a PID's earlier owner              *)
(***************************************************************************)
BeforeScan == {"down", "create", "setCpu", "setMem", "loop"}
InTick     == {"apply", "add", "mark", "cleanup"}

\* The counters never run ahead of the history, and lag behind it by the one
\* breach of whoever the tick has still to look at; only PIDs that the cleanup
\* will reach may hold an older count.  What is left of the tree being jailed
\* ends in its root, whose breaches have reached the threshold.
StreakInv ==
    /\ over \in [Pid -> 0..violationThreshold]
    /\ main = "down" => over = [p \in Pid |-> 0]
    /\ main \in BeforeScan => \A p \in Pid : violations[p] <= over[p]
    /\ main \in InTick =>
         /\ todo \subseteq active
         /\ \A p \in active : violations[p] <= over[p]
         /\ \A p \in todo : violations[p] < over[p] \/ over[p] = violationThreshold
    /\ Jailing => EndsIn(queue, Culprit) /\ over[Culprit] = violationThreshold

\* A step that leaves what the invariant is about alone.
LEMMA StreakQuiet ==
    ASSUME StreakInv, UNCHANGED <<main, active, todo, queue, violations, over>>
    PROVE  StreakInv'
BY DEF StreakInv, Jailing, Culprit

\* A scan adds one breach to the history of whoever it finds over the limits.
LEMMA StreakScan ==
    ASSUME TypeOK, StreakInv, Scan, Observe
    PROVE  StreakInv'
<1>1. /\ main = "loop" /\ main' = "apply" /\ violations' = violations
      /\ active' \subseteq Pid /\ todo' \subseteq active'
  BY DEF Scan, Seen, Limitable, TypeOK
<1>2. over' = [p \in Pid |-> IF p \notin active' THEN 0
                             ELSE IF p \in todo' THEN UpTo(over[p] + 1) ELSE over[p]]
  BY <1>1 DEF Observe
<1>3. /\ violationThreshold \in Nat \ {0} /\ over \in [Pid -> 0..violationThreshold]
      /\ violations \in [Pid -> 0..violationThreshold]
      /\ \A p \in Pid : violations[p] <= over[p]
  BY <1>1, ConstantsAssumption DEF ConstantsAssumption, StreakInv, TypeOK, BeforeScan
<1>4. ASSUME NEW p \in Pid
      PROVE  /\ UpTo(over[p] + 1) \in 0..violationThreshold
             /\ violations[p] <= UpTo(over[p] + 1)
             /\ violations[p] < UpTo(over[p] + 1) \/ UpTo(over[p] + 1) = violationThreshold
  <2>1. over[p] \in 0..violationThreshold /\ violations[p] \in 0..violationThreshold
    BY <1>3
  <2> QED
    BY <1>3, <2>1 DEF UpTo
<1>5. over' \in [Pid -> 0..violationThreshold]
  BY <1>2, <1>3, <1>4
<1> QED
  BY <1>1, <1>2, <1>3, <1>4, <1>5 DEF StreakInv, BeforeScan, InTick, Jailing

\* One suspect: its counter takes the breach that the history has already.
LEMMA StreakApply ==
    ASSUME TypeOK, StreakInv, NEW p \in Pid, ApplyLimits(p), over' = over
    PROVE  StreakInv'
<1>1. /\ violationThreshold \in Nat \ {0} /\ over \in [Pid -> 0..violationThreshold]
      /\ violations \in [Pid -> 0..violationThreshold]
      /\ active \subseteq Pid /\ todo \subseteq active /\ p \in todo
      /\ \A q \in active : violations[q] <= over[q]
      /\ \A q \in todo : violations[q] < over[q] \/ over[q] = violationThreshold
  BY ConstantsAssumption DEF ConstantsAssumption, StreakInv, TypeOK, InTick, ApplyLimits
<1>2. /\ main = "apply" /\ main' \in {"apply", "add"} /\ active' = active /\ todo' = todo \ {p}
  BY DEF ApplyLimits
<1>3. /\ \A q \in Pid \ {p} : violations'[q] = violations[q]
      /\ violations'[p] <= over[p]
  BY <1>1 DEF ApplyLimits
<1>4. main' = "add" => queue' \in PostOrders(p) /\ over[p] = violationThreshold
  BY <1>1, <1>2 DEF ApplyLimits
<1>5. main' = "add" => EndsIn(queue', Culprit') /\ over[Culprit'] = violationThreshold
  <2> SUFFICES ASSUME main' = "add"
               PROVE  EndsIn(queue', Culprit') /\ over[Culprit'] = violationThreshold
    OBVIOUS
  <2>1. EndsIn(queue', p) /\ Culprit' = p
    BY <1>4, PostOrderType DEF EndsIn, Culprit, TypeOK
  <2> QED
    BY <1>4, <2>1
<1> QED
  BY <1>1, <1>2, <1>3, <1>5 DEF StreakInv, BeforeScan, InTick, Jailing

\* The rest of the tree still ends in the culprit.
LEMMA StreakMember ==
    ASSUME TypeOK, StreakInv, AddMember \/ MarkMember, over' = over
    PROVE  StreakInv'
<1>1. /\ main \in {"add", "mark"} /\ main' \in InTick
      /\ UNCHANGED <<active, todo, violations>>
      /\ \/ queue' = queue
         \/ queue' = Tail(queue) /\ (Tail(queue) = <<>> => main' = "apply")
  BY DEF AddMember, MarkMember, InTick
<1>2. EndsIn(queue, Culprit) /\ over[Culprit] = violationThreshold /\ queue \in Seq(Pid)
  BY <1>1 DEF StreakInv, Jailing, TypeOK
<1>3. main' \in {"add", "mark"} => EndsIn(queue', Culprit') /\ Culprit' = Culprit
  <2>1. CASE queue' = queue
    BY <1>2, <2>1 DEF Culprit
  <2>2. CASE queue' = Tail(queue) /\ (Tail(queue) = <<>> => main' = "apply")
    <3> SUFFICES ASSUME main' \in {"add", "mark"}
                 PROVE  EndsIn(queue', Culprit') /\ Culprit' = Culprit
      OBVIOUS
    <3>1. EndsIn(queue', Culprit)
      BY <1>2, <2>2, TailEndsIn
    <3>2. Culprit' = Culprit
      BY <3>1 DEF EndsIn, Culprit
    <3> QED
      BY <3>1, <3>2
  <2> QED
    BY <1>1, <2>1, <2>2
<1> QED
  BY <1>1, <1>2, <1>3 DEF StreakInv, BeforeScan, InTick, Jailing

\* The cleanup reaches every older count before the next scan.
LEMMA StreakCleanup ==
    ASSUME TypeOK, StreakInv, EndApply \/ EndTick \/ \E p \in Pid : CleanupInactive(p),
           over' = over
    PROVE  StreakInv'
<1>1. /\ violations \in [Pid -> 0..violationThreshold] /\ over \in [Pid -> 0..violationThreshold]
      /\ violationThreshold \in Nat
  BY ConstantsAssumption DEF ConstantsAssumption, StreakInv, TypeOK
<1>2. CASE EndApply
  BY <1>1, <1>2 DEF EndApply, tick, StreakInv, BeforeScan, InTick, Jailing
<1>3. CASE EndTick
  <2>1. \A p \in Pid : p \in active \/ ~(violations[p] > 0)
    BY <1>3 DEF EndTick, Inactive
  <2>2. \A p \in active : violations[p] <= over[p]
    BY <1>3 DEF EndTick, StreakInv, InTick
  <2>3. \A p \in Pid : violations[p] <= over[p]
    BY <1>1, <2>1, <2>2
  <2> QED
    BY <1>1, <1>3, <2>3 DEF EndTick, StreakInv, BeforeScan, InTick, Jailing
<1>4. ASSUME NEW p \in Pid, CleanupInactive(p) PROVE StreakInv'
  <2>1. /\ main = "cleanup" /\ main' = "cleanup" /\ UNCHANGED <<active, todo>>
        /\ \A q \in active : violations'[q] = violations[q] /\ q # p
    BY <1>1, <1>4 DEF CleanupInactive, Inactive, TypeOK
  <2> QED
    BY <1>1, <2>1 DEF StreakInv, BeforeScan, InTick, Jailing
<1> QED
  BY <1>2, <1>3, <1>4

\* The steps that are none of these keep what a tick works on, or leave it.
LEMMA OtherSteps ==
    ASSUME Next
    PROVE  \/ Scan \/ AddMember \/ MarkMember \/ EndApply \/ EndTick
           \/ \E p \in Pid : ApplyLimits(p) \/ CleanupInactive(p)
           \/ ProcessEnds
           \/ /\ main \in {"create", "setCpu", "setMem", "down"}
              /\ main' \in {"create", "setCpu", "setMem", "loop", "returned"}
              /\ violations' = violations
           \/ main' \in {"release", "unmark", "delete", "returned"}
           \/ UNCHANGED <<main, active, todo, queue, violations>>
BY DEF Next, Main, Configure, CreateGroup, SetLimit, BeginStop, Release, Unmark, EndRelease,
       DeleteGroup, WatchConfig, Toggler, Decide, ToggleCreate, ToggleSetCpu, ToggleSetMem,
       ToggleAdd, ToggleMove, ToggleMark, ToggleUnmark, ToggleCall, ToggleMarker,
       Outside, Exit, Fork, Edit, Request, Start, Signal, tick

LEMMA StreakStep ==
    ASSUME TypeOK, StreakInv, [Next /\ Observe]_<<vars, over>>
    PROVE  StreakInv'
<1>0. /\ violationThreshold \in Nat /\ over \in [Pid -> 0..violationThreshold]
  BY ConstantsAssumption DEF ConstantsAssumption, StreakInv
<1>1. CASE UNCHANGED <<vars, over>>
  BY <1>1, StreakQuiet DEF vars
<1>2. CASE Next /\ Observe
  <2>1. CASE Scan
    BY <1>2, <2>1, StreakScan
  <2>2. CASE ProcessEnds
    BY <1>0, <1>2, <2>2
       DEF ProcessEnds, Observe, StreakInv, BeforeScan, InTick, Jailing
  <2>3. CASE ~Scan /\ ~ProcessEnds
    <3>1. over' = over
      <4>1. ~(main = "loop" /\ main' = "apply")
        BY <1>2, <2>3, OtherSteps DEF AddMember, MarkMember, EndApply, EndTick, ApplyLimits,
           CleanupInactive
      <4>2. main' = "down" => main = "down" /\ main' = main
        BY <1>2, <2>3, OtherSteps DEF AddMember, MarkMember, EndApply, EndTick, ApplyLimits,
           CleanupInactive
      <4> QED
        BY <1>2, <4>1, <4>2 DEF Observe, StreakInv
    <3>2. CASE \E p \in Pid : ApplyLimits(p)
      BY <3>1, <3>2, StreakApply
    <3>3. CASE AddMember \/ MarkMember
      BY <3>1, <3>3, StreakMember
    <3>4. CASE EndApply \/ EndTick \/ \E p \in Pid : CleanupInactive(p)
      BY <3>1, <3>4, StreakCleanup
    <3>5. CASE UNCHANGED <<main, active, todo, queue, violations>>
      BY <3>1, <3>5, StreakQuiet
    <3>6. CASE main' \in {"release", "unmark", "delete", "returned"}
      BY <1>0, <3>1, <3>6 DEF StreakInv, BeforeScan, InTick, Jailing
    <3>7. CASE /\ main \in {"create", "setCpu", "setMem", "down"}
               /\ main' \in {"create", "setCpu", "setMem", "loop", "returned"}
               /\ violations' = violations
      BY <1>0, <3>1, <3>7 DEF StreakInv, BeforeScan, InTick, Jailing
    <3> QED
      BY <1>2, <2>3, <3>2, <3>3, <3>4, <3>5, <3>6, <3>7, OtherSteps
  <2> QED
    BY <2>1, <2>2, <2>3
<1> QED
  BY <1>1, <1>2

\* The loop jails a tree only for a PID that was over the limits in
\* violationThreshold ticks since it was last missing from a snapshot (daemon.go,
\* applyLimits and cleanupInactive), with any clients, failures and crashes.
THEOREM NobodyIsJailedEarly == StreakSpec => []NoEarlyJail
<1>1. StreakInit => TypeOK /\ StreakInv
  <2>1. StreakInit => TypeOK
    BY TypeInit DEF StreakInit
  <2>2. StreakInit => StreakInv
    BY ConstantsAssumption
       DEF ConstantsAssumption, StreakInit, Init, StreakInv, BeforeScan, InTick, Jailing
  <2> QED
    BY <2>1, <2>2
<1>2. TypeOK /\ StreakInv /\ [Next /\ Observe]_<<vars, over>> => TypeOK' /\ StreakInv'
  <2>1. TypeOK /\ [Next /\ Observe]_<<vars, over>> => TypeOK'
    BY TypeNext
  <2> QED
    BY <2>1, StreakStep
<1>3. StreakInv => NoEarlyJail
  BY ConstantsAssumption DEF ConstantsAssumption, StreakInv, NoEarlyJail
<1> QED
  BY <1>1, <1>2, <1>3, PTL DEF StreakSpec

(***************************************************************************)
(* Nobody with a low PID is a culprit                                      *)
(***************************************************************************)
\* The loop jails no tree for a process with a low PID at its root, however the
\* limits, the whitelist and the PIDs in use change (daemon.go, applyLimits).
LowPidsAreNoCulprits == Jailing => Culprit \notin IgnoredPids

\* Whoever the tick has still to look at has no low PID, nor has the root that what
\* is left of the tree in hand ends in.
SparedInv ==
    /\ main \in {"apply", "add", "mark"} => todo \cap IgnoredPids = {}
    /\ Jailing => EndsIn(queue, Culprit) /\ Culprit \notin IgnoredPids

LEMMA SparedNext == TypeOK /\ SparedInv /\ [Next]_vars => SparedInv'
<1> SUFFICES ASSUME TypeOK, SparedInv, [Next]_vars PROVE SparedInv'
  OBVIOUS
<1>1. CASE UNCHANGED <<main, active, todo, queue, violations>>
  BY <1>1 DEF SparedInv, Jailing, Culprit
<1>2. CASE Scan
  BY <1>2 DEF Scan, SparedInv, Jailing, Limitable
<1>3. ASSUME NEW p \in Pid, ApplyLimits(p) PROVE SparedInv'
  <2>1. main = "apply" /\ p \in todo /\ p \notin IgnoredPids /\ todo' = todo \ {p}
    BY <1>3 DEF ApplyLimits, SparedInv
  <2>2. CASE main' = "apply"
    BY <2>1, <2>2 DEF SparedInv, Jailing
  <2>3. CASE main' = "add" /\ queue' \in PostOrders(p)
    <3>1. queue' \in Seq(Pid) /\ EndsIn(queue', p)
      BY <2>3, PostOrderType DEF TypeOK, EndsIn
    <3>2. Culprit' = p
      BY <3>1 DEF EndsIn, Culprit
    <3>. QED BY <2>1, <2>3, <3>1, <3>2 DEF SparedInv, Jailing
  <2>. QED BY <1>3, <2>1, <2>2, <2>3 DEF ApplyLimits
<1>4. CASE AddMember \/ MarkMember
  <2>1. /\ main \in {"add", "mark"} /\ main' \in {"apply", "add", "mark"} /\ todo' = todo
        /\ \/ queue' = queue
           \/ queue' = Tail(queue) /\ (Tail(queue) = <<>> => main' = "apply")
    BY <1>4 DEF AddMember, MarkMember
  <2>2. EndsIn(queue, Culprit) /\ Culprit \notin IgnoredPids /\ queue \in Seq(Pid)
    BY <2>1 DEF SparedInv, Jailing, TypeOK
  <2>3. main' \in {"add", "mark"} => EndsIn(queue', Culprit)
    BY <2>1, <2>2, TailEndsIn
  <2>4. main' \in {"add", "mark"} => Culprit' = Culprit
    BY <2>3 DEF EndsIn, Culprit
  <2>. QED BY <2>1, <2>2, <2>3, <2>4 DEF SparedInv, Jailing
<1>5. CASE EndApply \/ EndTick \/ (\E p \in Pid : CleanupInactive(p)) \/ ProcessEnds
  BY <1>5 DEF EndApply, EndTick, CleanupInactive, ProcessEnds, SparedInv, Jailing
<1>6. CASE main' \in {"create", "setCpu", "setMem", "loop", "release", "unmark", "delete", "returned"}
  BY <1>6 DEF SparedInv, Jailing
<1>7. CASE UNCHANGED vars
  BY <1>1, <1>7 DEF vars
<1>. QED BY <1>1, <1>2, <1>3, <1>4, <1>5, <1>6, <1>7, OtherSteps

\* For any environment and any clients, whoever the loop jails a tree for has no
\* low PID; its descendants may have one.
THEOREM LowPidsAreSpared == Spec => []LowPidsAreNoCulprits
<1>1. Init => SparedInv
  BY DEF Init, SparedInv, Jailing
<1>2. SparedInv => LowPidsAreNoCulprits
  BY DEF SparedInv, LowPidsAreNoCulprits
<1>. QED BY <1>1, <1>2, SparedNext, TypeCorrect, PTL DEF Spec

(***************************************************************************)
(* Whom the deletion of the group may kill                                 *)
(***************************************************************************)
\* What a stop has released so far has no marker, or the failure is held.
ReleasedInv ==
    main \in Stopping /\ ~failed =>
      \A p \in jail : p \in todo \/ (main = "unmark" /\ p = Head(queue))

\* Removing the unit ends no process that has a marker, unless Run returns an
\* error: stop has moved out whoever was marked, or holds the error of the one it
\* could not move (daemon.go, stop; cgroups.go, deleteSystemdUnit).
StopSparesTheMarked ==
    [][main = "delete" /\ main' = "returned" =>
         \A p \in alive \ alive' : p \notin jail \/ failed']_vars

LEMMA ReleasedMain ==
    ASSUME TypeOK, ReleasedInv, Main PROVE ReleasedInv'
<1> USE DEF ReleasedInv, Stopping
<1>1. CASE Configure
  BY <1>1 DEF Configure, CreateGroup, SetLimit
<1>2. CASE BeginStop
  BY <1>2 DEF BeginStop
<1>3. CASE Scan \/ EndApply \/ EndTick
  BY <1>3 DEF Scan, EndApply, EndTick
<1>4. ASSUME NEW p \in Pid, ApplyLimits(p) \/ CleanupInactive(p) PROVE ReleasedInv'
  BY <1>4 DEF ApplyLimits, CleanupInactive
<1>5. CASE AddMember \/ MarkMember
  BY <1>5 DEF AddMember, MarkMember
<1>6. ASSUME NEW p \in Pid, Release(p) PROVE ReleasedInv'
  <2>1. main = "release" /\ jail' = jail /\ todo' = todo \ {p}
    BY <1>6 DEF Release
  <2>2. \/ main' = "unmark" /\ queue' = <<p>> /\ failed' = failed
        \/ failed' = TRUE
    BY <1>6 DEF Release
  <2>3. CASE main' = "unmark" /\ queue' = <<p>> /\ failed' = failed
    <3>1. Head(queue') = p
      BY <2>3
    <3> QED
      BY <2>1, <2>3, <3>1
  <2> QED
    BY <2>2, <2>3
<1>7. CASE Unmark
  BY <1>7 DEF Unmark
<1>8. CASE EndRelease
  BY <1>8 DEF EndRelease, tick
<1>9. CASE DeleteGroup
  BY <1>9 DEF DeleteGroup
<1> QED
  BY <1>1, <1>2, <1>3, <1>4, <1>5, <1>6, <1>7, <1>8, <1>9 DEF Main

LEMMA ReleasedOthers ==
    ASSUME ReleasedInv, Clients = {}, WatchConfig \/ Outside \/ UNCHANGED vars
    PROVE  ReleasedInv'
<1>1. \/ UNCHANGED <<main, jail, todo, queue, failed>>
      \/ main' \in {"create", "down"}
  BY DEF WatchConfig, Outside, Exit, Fork, Edit, Start, Signal, ProcessEnds, tick, vars
<1> QED
  BY <1>1 DEF ReleasedInv, Stopping

\* Whatever forks, fails or is missed by a scan, on either backend, a stop without
\* error kills nobody who is marked; a member whose marker a scan has cost it, or
\* that was forked in jail, it does kill.  A toggle may mark somebody after the stop
\* has listed the markers, so nobody may toggle.
THEOREM MarkedAreSpared ==
    ASSUME Clients = {} PROVE Spec => StopSparesTheMarked
<1>1. Init => ReleasedInv
  BY DEF Init, ReleasedInv, Stopping
<1>2. TypeOK /\ ReleasedInv /\ [Next]_vars => ReleasedInv'
  BY ReleasedMain, ReleasedOthers DEF Next
<1>3. TypeOK /\ LifeInv /\ ReleasedInv /\ [Next]_vars
        => [main = "delete" /\ main' = "returned" =>
              \A p \in alive \ alive' : p \notin jail \/ failed']_vars
  <2> SUFFICES ASSUME TypeOK, LifeInv, ReleasedInv, Next, main = "delete", main' = "returned",
                      NEW p \in jail
               PROVE  failed'
    OBVIOUS
  <2>1. failed
    BY DEF LifeInv, ReleasedInv, Stopping
  <2>2. DeleteGroup
    BY DEF Next, Main, Configure, CreateGroup, SetLimit, BeginStop, Scan, EndApply, EndTick,
       ApplyLimits, CleanupInactive, Release, AddMember, MarkMember, Unmark, EndRelease,
       WatchConfig, Outside, Exit, Fork, Edit, Start, Signal, ProcessEnds
  <2> QED
    BY <2>1, <2>2 DEF DeleteGroup
<1> QED
  BY <1>1, <1>2, <1>3, TypeCorrect, LifeInvariant, PTL DEF Spec, StopSparesTheMarked

(***************************************************************************)
(* No tick and no stop goes on for ever                                    *)
(***************************************************************************)
Within == main \notin {"down", "loop", "returned"}

LEMMA StagesInOrder ==
    ASSUME NEW pc \in MainPC
    PROVE  /\ StageOf(pc) \in Nat
           /\ pc \notin {"down", "loop", "returned"} => StageOf(pc) > 0
           /\ pc \in {"down", "loop", "returned"} => StageOf(pc) = 0
           /\ pc = "create" => StageOf(pc) = 7
           /\ pc = "setCpu" => StageOf(pc) = 6
           /\ pc = "setMem" => StageOf(pc) = 5
           /\ pc \in {"apply", "add", "mark"} => StageOf(pc) = 4
           /\ pc = "cleanup" => StageOf(pc) = 3
           /\ pc \in {"release", "unmark"} => StageOf(pc) = 2
           /\ pc = "delete" => StageOf(pc) = 1
BY DEF StageOf, MainPC, Enforcing, Stopping

\* The tree in hand gets shorter by its head, or its head has been added.
LEMMA TreeGetsShorter ==
    ASSUME TypeOK, queue # <<>>, main \in {"add", "mark", "unmark"}
    PROVE  /\ queue' = Tail(queue) /\ main' # "add" => LeftOfTree' < LeftOfTree
           /\ queue' = Tail(queue) /\ main \in {"add", "mark"} => LeftOfTree' < LeftOfTree
           /\ queue' = <<>> /\ main' # "add" => LeftOfTree' < LeftOfTree
           /\ queue' = queue /\ main = "add" /\ main' = "mark" => LeftOfTree' < LeftOfTree
<1>1. /\ Len(queue) \in Nat \ {0} /\ Len(Tail(queue)) = Len(queue) - 1
      /\ Len(<<>>) = 0
  BY DEF TypeOK
<1>. QED BY <1>1 DEF LeftOfTree

LEMMA RunGetsCloser ==
    ASSUME TypeOK, TypeOK', Within, Main
    PROVE  Closer
<1>0. main \in MainPC /\ main' \in MainPC
  BY DEF TypeOK
<1>1. CASE Configure
  <2>1. \/ main = "create" /\ main' \in {"setCpu", "returned"}
        \/ main = "setCpu" /\ main' \in {"setMem", "returned"}
        \/ main = "setMem" /\ main' \in {"loop", "returned"}
    BY <1>1 DEF Configure, CreateGroup, SetLimit
  <2>. QED BY <1>0, <2>1, StagesInOrder DEF Closer, Stage
<1>2. CASE BeginStop \/ Scan
  BY <1>2 DEF BeginStop, Scan, Within
<1>3. CASE EndApply \/ EndTick \/ EndRelease \/ DeleteGroup
  <2>1. \/ main = "apply" /\ main' = "cleanup"
        \/ main = "cleanup" /\ main' = "loop"
        \/ main = "release" /\ main' = "delete"
        \/ main = "delete" /\ main' = "returned"
    BY <1>3 DEF EndApply, EndTick, EndRelease, DeleteGroup
  <2>. QED BY <1>0, <2>1, StagesInOrder DEF Closer, Stage
<1>4. ASSUME NEW p \in Pid, ApplyLimits(p) \/ Release(p) PROVE Closer
  <2>1. \/ main = "apply" /\ main' \in {"apply", "add"}
        \/ main = "release" /\ main' \in {"release", "unmark"}
    BY <1>4 DEF ApplyLimits, Release
  <2>2. p \in todo /\ todo' = todo \ {p}
    BY <1>4 DEF ApplyLimits, Release
  <2>3. Stage' = Stage
    BY <1>0, <2>1, StagesInOrder DEF Stage
  <2>. QED BY <2>2, <2>3 DEF Closer
<1>5. CASE AddMember
  <2>1. /\ main = "add" /\ main' \in {"apply", "add", "mark"} /\ todo' = todo
        /\ queue' = Tail(queue) \/ (queue' = queue /\ main' = "mark")
    BY <1>5 DEF AddMember
  <2>2. LeftOfTree' < LeftOfTree
    BY <2>1, TreeGetsShorter DEF TypeOK
  <2>3. Stage' = Stage
    BY <1>0, <2>1, StagesInOrder DEF Stage
  <2>. QED BY <2>1, <2>2, <2>3 DEF Closer
<1>6. CASE MarkMember
  <2>1. /\ main = "mark" /\ main' \in {"apply", "add"} /\ todo' = todo
        /\ queue' = Tail(queue)
    BY <1>6 DEF MarkMember
  <2>2. LeftOfTree' < LeftOfTree
    BY <2>1, TreeGetsShorter DEF TypeOK
  <2>3. Stage' = Stage
    BY <1>0, <2>1, StagesInOrder DEF Stage
  <2>. QED BY <2>1, <2>2, <2>3 DEF Closer
<1>7. CASE Unmark
  <2>1. main = "unmark" /\ main' = "release" /\ todo' = todo /\ queue' = <<>>
    BY <1>7 DEF Unmark
  <2>2. LeftOfTree' < LeftOfTree
    BY <2>1, TreeGetsShorter DEF TypeOK
  <2>3. Stage' = Stage
    BY <1>0, <2>1, StagesInOrder DEF Stage
  <2>. QED BY <2>1, <2>2, <2>3 DEF Closer
<1>8. ASSUME NEW p \in Pid, CleanupInactive(p) PROVE Closer
  <2>1. /\ UNCHANGED <<main, active, todo, queue>> /\ p \in Inactive
        /\ violations' = [violations EXCEPT ![p] = 0]
    BY <1>8 DEF CleanupInactive
  <2>2. Inactive' \subseteq Inactive /\ p \notin Inactive'
    BY <2>1 DEF Inactive, TypeOK
  <2>3. Stage' = Stage
    BY <2>1 DEF Stage
  <2>. QED BY <2>1, <2>2, <2>3 DEF Closer
<1>. QED BY <1>1, <1>2, <1>3, <1>4, <1>5, <1>6, <1>7, <1>8 DEF Main

\* Nobody but Run moves Run, except that the process may end.
LEMMA OthersLeaveRunAlone ==
    ASSUME [Next]_vars, ~Main, Within
    PROVE  UNCHANGED <<main, active, todo, queue, violations>> \/ main' = "down"
<1>. USE DEF tick
<1>1. CASE WatchConfig
  BY <1>1 DEF WatchConfig
<1>2. ASSUME NEW c \in Clients, Toggler(c)
      PROVE  UNCHANGED <<main, active, todo, queue, violations>>
  BY <1>2 DEF Toggler, Decide, ToggleCreate, ToggleSetCpu, ToggleSetMem, ToggleAdd, ToggleMove,
              ToggleCall, ToggleMark, ToggleUnmark, ToggleMarker
<1>3. CASE Outside
  BY <1>3 DEF Outside, Exit, Fork, Edit, Request, Start, Signal, ProcessEnds, Within
<1>4. CASE UNCHANGED vars
  BY <1>4 DEF vars
<1>. QED BY <1>1, <1>2, <1>3, <1>4 DEF Next

\* Whatever fails, whoever comes and goes, whatever is toggled meanwhile: every
\* step of Run inside a tick or a stop brings that nearer to its end, for any
\* processes, any threshold and any clients.  The safety half of StopIsCarriedOut.
THEOREM RunGetsDone == Spec => TicksAndStopsEnd
<1>1. TypeOK /\ TypeOK' /\ [Next]_vars
        => [main \notin {"down", "loop", "returned"} =>
              Closer \/ (~Main /\ UNCHANGED <<main, active, todo, queue, violations>>)]_vars
  <2>. SUFFICES ASSUME TypeOK, TypeOK', [Next]_vars, Within
                PROVE  Closer \/ (~Main /\ UNCHANGED <<main, active, todo, queue, violations>>)
    BY DEF Within
  <2>1. CASE Main
    BY <2>1, RunGetsCloser
  <2>2. CASE ~Main /\ main' = "down"
    <3>1. Stage > 0 /\ Stage' = 0 /\ Stage \in Nat
      BY <2>2, StagesInOrder DEF TypeOK, Stage, Within
    <3>. QED BY <3>1 DEF Closer
  <2>. QED BY <2>1, <2>2, OthersLeaveRunAlone
<1>. QED BY <1>1, TypeCorrect, PTL DEF Spec, TicksAndStopsEnd

(***************************************************************************)
(* No toggle goes on for ever                                              *)
(***************************************************************************)
\* How far a toggle is from its answer, and what is left of its tree.
ToggleStage(pc) ==
    CASE pc = "decide" -> 5 [] pc = "create" -> 4 [] pc = "setCpu" -> 3 [] pc = "setMem" -> 2
      [] pc \in {"add", "mark", "move", "unmark"} -> 1
      [] OTHER -> 0

LeftToToggle(t) == 2 * Len(t.queue) + (IF t.pc \in {"add", "move"} THEN 1 ELSE 0)

\* The call t has come closer to its end as u.
Nearer(t, u) ==
    \/ ToggleStage(u.pc) < ToggleStage(t.pc)
    \/ ToggleStage(u.pc) = ToggleStage(t.pc) /\ LeftToToggle(u) < LeftToToggle(t)

\* Whatever happens, a toggle that has begun is left alone or comes closer to its
\* end: a failing call, the loop, a stop, another toggle of the same tree and the
\* processes that come and go take none of it back (daemon.go, ToggleProcessJail).
TogglesEnd ==
    [][\A c \in Clients : tog[c].pc \in Busy => tog'[c] = tog[c] \/ Nearer(tog[c], tog'[c])]_vars

LEMMA ToggleStages ==
    ASSUME NEW pc \in Busy \cup Resting
    PROVE  /\ ToggleStage(pc) \in Nat
           /\ pc \in Resting <=> ToggleStage(pc) = 0
           /\ pc = "decide" => ToggleStage(pc) = 5
           /\ pc = "create" => ToggleStage(pc) = 4
           /\ pc = "setCpu" => ToggleStage(pc) = 3
           /\ pc = "setMem" => ToggleStage(pc) = 2
           /\ pc \in {"add", "mark", "move", "unmark"} => ToggleStage(pc) = 1
BY DEF ToggleStage, Busy, Resting

LEMMA ToggleGetsNearer ==
    ASSUME TypeOK, NEW c \in Clients, Toggler(c)
    PROVE  Nearer(tog[c], tog'[c])
<1> DEFINE t == tog[c]
           u == tog'[c]
<1>0. /\ tog \in [Clients -> Toggle] /\ tog[c] \in Toggle /\ t.pc \in Busy \cup Resting
      /\ t.pc \in Busy => t.queue \in Seq(Pid) /\ t.queue # <<>>
  BY DEF TypeOK, Toggle
\* A call that fails, or is over.
<1>1. ASSUME t.pc \in Busy, u.pc \in Resting PROVE Nearer(t, u)
  <2>1. ToggleStage(u.pc) = 0 /\ ToggleStage(t.pc) \in Nat /\ ToggleStage(t.pc) # 0
    BY <1>1, ToggleStages DEF Busy, Resting
  <2>. QED BY <2>1 DEF Nearer
<1>2. CASE Decide(c)
  <2>1. t.pc = "decide" /\ u.pc \in {"move", "create"}
    BY <1>0, <1>2 DEF Decide, Toggle
  <2>2. ToggleStage(t.pc) = 5 /\ ToggleStage(u.pc) \in {1, 4}
    BY <2>1, ToggleStages DEF Busy
  <2>. QED BY <2>2 DEF Nearer
<1>3. CASE ToggleCreate(c) \/ ToggleSetCpu(c) \/ ToggleSetMem(c)
  <2>1. \/ t.pc = "create" /\ u.pc \in {"setCpu", "failed"}
        \/ t.pc = "setCpu" /\ u.pc \in {"setMem", "failed"}
        \/ t.pc = "setMem" /\ u.pc \in {"add", "failed"}
    <3>1. CASE ToggleCreate(c)
      BY <1>0, <3>1 DEF ToggleCreate, ToggleCall, Toggle
    <3>2. CASE ToggleSetCpu(c)
      BY <1>0, <3>2 DEF ToggleSetCpu, ToggleCall, Toggle
    <3>3. CASE ToggleSetMem(c)
      BY <1>0, <3>3 DEF ToggleSetMem, ToggleCall, Toggle
    <3>. QED BY <1>3, <3>1, <3>2, <3>3
  <2>2. CASE u.pc = "failed"
    BY <1>1, <2>1, <2>2 DEF Busy, Resting
  <2>3. CASE u.pc # "failed"
    <3>1. ToggleStage(u.pc) < ToggleStage(t.pc)
      BY <2>1, <2>3, ToggleStages DEF Busy
    <3>. QED BY <3>1 DEF Nearer
  <2>. QED BY <2>2, <2>3
<1>4. CASE ToggleAdd(c) \/ ToggleMove(c)
  <2>1. /\ t.pc \in {"add", "move"} /\ u.pc \in {"mark", "unmark", "failed"}
        /\ u.queue = t.queue
    <3>1. CASE ToggleAdd(c)
      BY <1>0, <3>1 DEF ToggleAdd, ToggleCall, Toggle
    <3>2. CASE ToggleMove(c)
      BY <1>0, <3>2 DEF ToggleMove, ToggleCall, Toggle
    <3>. QED BY <1>4, <3>1, <3>2
  <2>2. CASE u.pc = "failed"
    BY <1>1, <2>1, <2>2 DEF Busy, Resting
  <2>3. CASE u.pc # "failed"
    <3>1. ToggleStage(u.pc) = ToggleStage(t.pc)
      BY <2>1, <2>3, ToggleStages DEF Busy
    <3>2. LeftToToggle(u) < LeftToToggle(t)
      <4>1. Len(t.queue) \in Nat /\ Len(u.queue) = Len(t.queue)
        BY <1>0, <2>1 DEF Busy
      <4>2. LeftToToggle(u) = 2 * Len(u.queue) + 0
        BY <2>1, <2>3 DEF LeftToToggle
      <4>3. LeftToToggle(t) = 2 * Len(t.queue) + 1
        BY <2>1, <2>3 DEF LeftToToggle
      <4>. HIDE DEF t, u
      <4>. QED BY <4>1, <4>2, <4>3
    <3>. QED BY <3>1, <3>2 DEF Nearer
  <2>. QED BY <2>2, <2>3
<1>5. CASE ToggleMark(c) \/ ToggleUnmark(c)
  <2>1. /\ t.pc \in {"mark", "unmark"} /\ u.pc \in {"add", "move", "jailed", "released"}
        /\ u.queue = Tail(t.queue)
    BY <1>0, <1>5 DEF ToggleMark, ToggleUnmark, ToggleMarker, Toggle
  <2>2. CASE u.pc \in {"jailed", "released"}
    BY <1>1, <2>1, <2>2 DEF Busy, Resting
  <2>3. CASE u.pc \in {"add", "move"}
    <3>1. ToggleStage(u.pc) = ToggleStage(t.pc)
      BY <2>1, <2>3, ToggleStages DEF Busy
    <3>2. LeftToToggle(u) < LeftToToggle(t)
      <4>1. Len(t.queue) \in Nat \ {0} /\ Len(u.queue) = Len(t.queue) - 1
        BY <1>0, <2>1 DEF Busy
      <4>2. LeftToToggle(u) = 2 * Len(u.queue) + 1
        BY <2>1, <2>3 DEF LeftToToggle
      <4>3. LeftToToggle(t) = 2 * Len(t.queue) + 0
        BY <2>1, <2>3 DEF LeftToToggle
      <4>. HIDE DEF t, u
      <4>. QED BY <4>1, <4>2, <4>3
    <3>. QED BY <3>1, <3>2 DEF Nearer
  <2>. QED BY <2>1, <2>2, <2>3
<1>. QED BY <1>2, <1>3, <1>4, <1>5 DEF Toggler

\* For any number of clients and any trees, no toggle goes on for ever: each of
\* its own steps brings it closer to its answer, and nobody else's undoes one.
THEOREM TogglesGetDone == Spec => TogglesEnd
<1>1. ASSUME TypeOK, Next, NEW c \in Clients, tog[c].pc \in Busy
      PROVE  tog'[c] = tog[c] \/ Nearer(tog[c], tog'[c])
  <2>0. tog \in [Clients -> Toggle]
    BY <1>1 DEF TypeOK
  <2>1. ASSUME NEW d \in Clients, Toggler(d) PROVE tog'[c] = tog[c] \/ Nearer(tog[c], tog'[c])
    <3>1. CASE d = c
      BY <1>1, <2>1, <3>1, ToggleGetsNearer
    <3>2. CASE d # c
      BY <2>0, <2>1, <3>2
         DEF Toggler, Decide, ToggleCreate, ToggleSetCpu, ToggleSetMem, ToggleAdd, ToggleMove,
             ToggleCall, ToggleMark, ToggleUnmark, ToggleMarker
    <3>. QED BY <3>1, <3>2
  <2>2. ASSUME NEW d \in Clients, NEW p \in Pid, Request(d, p) PROVE tog'[c] = tog[c]
    <3>1. d # c
      BY <1>1, <2>2 DEF Request, Busy, Resting
    <3>. QED BY <2>0, <2>2, <3>1 DEF Request
  <2>3. CASE ProcessEnds
    <3>1. tog'[c].pc = "idle"
      BY <2>3 DEF ProcessEnds, IdleToggle
    <3>2. ToggleStage("idle") = 0 /\ ToggleStage(tog[c].pc) \in Nat /\ ToggleStage(tog[c].pc) # 0
      BY <1>1, ToggleStages DEF Busy, Resting
    <3>. QED BY <3>1, <3>2 DEF Nearer
  <2>4. CASE tog' = tog
    BY <2>4
  <2>. QED BY <1>1, <2>1, <2>2, <2>3, <2>4, ToggleChanges
<1>2. TypeOK /\ [Next]_vars
        => [\A c \in Clients : tog[c].pc \in Busy => tog'[c] = tog[c] \/ Nearer(tog[c], tog'[c])]_vars
  BY <1>1
<1>. QED BY <1>2, TypeCorrect, PTL DEF Spec, TogglesEnd
=============================================================================
