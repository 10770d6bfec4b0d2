--------------------------- MODULE LifecycleProofs ---------------------------
(***************************************************************************)
(* The daemon implements Lifecycle: every one of its steps is a step of    *)
(* the abstract daemon, or none.                                           *)
(***************************************************************************)
EXTENDS DaemonProofs

\* What the refinement needs besides TypeOK and LimitInv: errors are kept until
\* Run returns them, stop deletes when nobody is left to release, a process being
\* unmarked is not owed any more, a group that is not there has no members, and
\* nobody toggles a daemon that is down.
LifeInv ==
    /\ main \in {"down", "create", "setCpu", "setMem"} \cup Enforcing => ~failed
    /\ main = "delete" => todo = {}
    /\ main = "unmark" => Head(queue) \notin todo
    /\ ~group.exists => group.members = {}
    /\ main = "down" => \A c \in Clients : tog[c].pc \notin Busy

\* The members of a group that is made when it is missing.
LEMMA EnsuredGroup ==
    ASSUME group \in Group, ~group.exists => group.members = {}
    PROVE  /\ Ensured(group) \in Group /\ Ensured(group).exists
           /\ Ensured(group).members = group.members
           /\ Limited(Ensured(group)) = Limited(group)
BY DEF Ensured, NewGroup, AbsentGroup, Group, Limited

\* What each call may do to the group, its members and its limits.
LEMMA CallEffects ==
    ASSUME group \in Group, ~group.exists => group.members = {}, NEW faulty \in BOOLEAN
    PROVE  /\ \A o \in CreateProcessGroup(group, faulty) :
                /\ o.group.members = group.members /\ Limited(o.group) = Limited(group)
           /\ \A row \in Rows, val \in Quota : \A o \in SetGroupRow(group, row, val, faulty) :
                /\ o.group.members = group.members
                /\ Limited(group) => Limited(o.group)
                /\ ~o.ok => Limited(o.group) = Limited(group)
           /\ \A p \in Pid : \A o \in AddProcessToGroup(group, p, alive, faulty) :
                /\ Limited(o.group) = Limited(group)
                /\ o.group.members = IF o.ok THEN group.members \cup {p} ELSE group.members
           /\ \A p \in Pid : \A o \in MoveProcessToRootGroup(group, p, alive, faulty) :
                /\ Limited(o.group) = Limited(group) /\ o.group.exists = group.exists
                /\ o.group.members = IF o.ok THEN group.members \ {p} ELSE group.members
<1>0. /\ Ensured(group) \in Group /\ Ensured(group).exists
      /\ Ensured(group).members = group.members
      /\ Limited(Ensured(group)) = Limited(group)
  BY EnsuredGroup
<1>1. ASSUME NEW o \in CreateProcessGroup(group, faulty)
      PROVE  o.group.members = group.members /\ Limited(o.group) = Limited(group)
  <2>1. o.group \in {group, Ensured(group)}
    BY <1>1 DEF CreateProcessGroup, Returns
  <2> QED
    BY <1>0, <2>1
<1>2. ASSUME NEW row \in Rows, NEW val \in Quota, NEW o \in SetGroupRow(group, row, val, faulty)
      PROVE  /\ o.group.members = group.members
             /\ Limited(group) => Limited(o.group)
             /\ ~o.ok => Limited(o.group) = Limited(group)
  <2> DEFINE g == [Ensured(group) EXCEPT ![row] = val]
  <2>1. g.members = group.members /\ (Limited(group) => Limited(g))
    BY <1>0, NoLimitAssumption DEF Group, Rows, Limited
  <2>2. \/ o.group = g /\ o.ok
        \/ o.group \in {group, Ensured(group)} /\ ~o.ok
    BY <1>2 DEF SetGroupRow, Returns
  <2> HIDE DEF g
  <2> QED
    BY <1>0, <2>1, <2>2
<1>3. ASSUME NEW p \in Pid, NEW o \in AddProcessToGroup(group, p, alive, faulty)
      PROVE  /\ Limited(o.group) = Limited(group)
             /\ o.group.members = IF o.ok THEN group.members \cup {p} ELSE group.members
  <2> DEFINE g == [Ensured(group) EXCEPT !.members = @ \cup {p}]
  <2>1. g.members = group.members \cup {p} /\ Limited(g) = Limited(group)
    BY <1>0 DEF Group, Limited
  <2>2. o \in {Returns(TRUE, g), Returns(FALSE, group), Returns(FALSE, Ensured(group))}
    BY <1>3 DEF AddProcessToGroup
  <2> HIDE DEF g
  <2> QED
    BY <1>0, <2>1, <2>2 DEF Returns
<1>4. ASSUME NEW p \in Pid, NEW o \in MoveProcessToRootGroup(group, p, alive, faulty)
      PROVE  /\ Limited(o.group) = Limited(group) /\ o.group.exists = group.exists
             /\ o.group.members = IF o.ok THEN group.members \ {p} ELSE group.members
  <2> DEFINE g == [group EXCEPT !.members = @ \ {p}]
  <2>1. g.members = group.members \ {p} /\ Limited(g) = Limited(group) /\ g.exists = group.exists
    BY DEF Group, Limited
  <2>2. \/ o.group = g /\ o.ok
        \/ o.group = group /\ ~o.ok
    BY <1>4 DEF MoveProcessToRootGroup, Returns
  <2> HIDE DEF g
  <2> QED
    BY <2>1, <2>2
<1> QED
  BY <1>1, <1>2, <1>3, <1>4

\* A group that anything but the deletion has touched is there, or was not and
\* still has nobody in it.
LEMMA CallsExist ==
    ASSUME group \in Group, ~group.exists => group.members = {}, NEW faulty \in BOOLEAN
    PROVE  /\ \A o \in CreateProcessGroup(group, faulty) : ~o.group.exists => o.group.members = {}
           /\ \A row \in Rows, val \in Quota : \A o \in SetGroupRow(group, row, val, faulty) :
                ~o.group.exists => o.group.members = {}
           /\ \A p \in Pid : \A o \in AddProcessToGroup(group, p, alive, faulty) :
                ~o.group.exists => o.group.members = {}
           /\ \A p \in Pid : \A o \in MoveProcessToRootGroup(group, p, alive, faulty) :
                ~o.group.exists => o.group.members = {}
           /\ \A o \in DeleteProcessGroup(group, faulty) : ~o.group.exists => o.group.members = {}
<1>0. Ensured(group) \in Group /\ Ensured(group).exists
  BY EnsuredGroup
<1>1. \A o \in CreateProcessGroup(group, faulty) : ~o.group.exists => o.group.members = {}
  BY <1>0 DEF CreateProcessGroup, Returns
<1>2. ASSUME NEW row \in Rows, NEW val \in Quota, NEW o \in SetGroupRow(group, row, val, faulty)
      PROVE  ~o.group.exists => o.group.members = {}
  <2> DEFINE g == [Ensured(group) EXCEPT ![row] = val]
  <2>1. g.exists
    BY <1>0 DEF Group, Rows
  <2>2. o \in {Returns(TRUE, g), Returns(FALSE, group),
               Returns(FALSE, Ensured(group))}
    BY <1>2 DEF SetGroupRow
  <2> HIDE DEF g
  <2> QED
    BY <1>0, <2>1, <2>2 DEF Returns
<1>3. ASSUME NEW p \in Pid, NEW o \in AddProcessToGroup(group, p, alive, faulty)
      PROVE  ~o.group.exists => o.group.members = {}
  <2> DEFINE g == [Ensured(group) EXCEPT !.members = @ \cup {p}]
  <2>1. g.exists
    BY <1>0 DEF Group
  <2>2. o \in {Returns(TRUE, g),
               Returns(FALSE, group), Returns(FALSE, Ensured(group))}
    BY <1>3 DEF AddProcessToGroup
  <2> HIDE DEF g
  <2> QED
    BY <1>0, <2>1, <2>2 DEF Returns
<1>4. ASSUME NEW p \in Pid, NEW o \in MoveProcessToRootGroup(group, p, alive, faulty)
      PROVE  ~o.group.exists => o.group.members = {}
  BY <1>4, CallEffects
<1>5. \A o \in DeleteProcessGroup(group, faulty) : ~o.group.exists => o.group.members = {}
  BY DEF DeleteProcessGroup, RemoveDirectory, deleteSystemdUnit, Returns, AbsentGroup
<1> QED
  BY <1>1, <1>2, <1>3, <1>4, <1>5

\* What a step of a toggle does to the group and the markers: at most one
\* process comes, goes, is marked or is unmarked.
LEMMA TogglerEffects ==
    ASSUME TypeOK, LimitInv, LifeInv, NEW c \in Clients, Toggler(c)
    PROVE  /\ UNCHANGED <<main, todo, queue, failed>> /\ tog[c].pc \in Busy
           /\ \A d \in Clients \ {c} : tog'[d] = tog[d]
           /\ ~group'.exists => group'.members = {}
           /\ Limited(group) => Limited(group')
           /\ \/ jail' = jail /\ group'.members = group.members
              \/ \E p \in Pid : /\ jail' = jail /\ group'.members = group.members \cup {p}
                                /\ main # "returned" => Limited(group)
                                /\ Limited(group') = Limited(group)
              \/ \E p \in Pid : jail' = jail /\ group'.members = group.members \ {p}
              \/ \E p \in Pid : group' = group /\ jail' \in {jail \cup {p}, jail \ {p}}
<1>0. /\ group \in Group /\ Faulty \in BOOLEAN /\ tog \in [Clients -> Toggle]
      /\ tog[c].quota \in Quota
      /\ ~group.exists => group.members = {}
      /\ \A d \in Clients \ {c} : tog'[d] = tog[d]
      /\ tog[c].pc \in Busy
      /\ Head(tog[c].queue) \in Pid
      /\ "cpu" \in Rows /\ "mem" \in Rows
  <2>1. tog[c].pc \in Busy /\ tog[c] \in Toggle
    BY TogglerSteps DEF TypeOK, Toggler, Decide, ToggleCreate, ToggleSetCpu, ToggleSetMem,
       ToggleAdd, ToggleMark, ToggleMove, ToggleUnmark, ToggleCall, ToggleMarker, Busy
  <2>2. tog[c].queue \in Seq(Pid) /\ tog[c].queue # <<>> /\ tog[c].quota \in Quota
    BY <2>1 DEF TypeOK, Toggle
  <2>3. \A d \in Clients \ {c} : tog'[d] = tog[d]
    BY TogglerSteps
  <2> QED
    BY <2>1, <2>2, <2>3 DEF TypeOK, Faulty, LifeInv, Rows
<1>1. ASSUME NEW o, group' = o.group, o.group.members = group.members,
             Limited(group) => Limited(o.group),
             ~o.group.exists => o.group.members = {},
             UNCHANGED <<main, todo, queue, failed, jail>>
      PROVE  /\ UNCHANGED <<main, todo, queue, failed>>
             /\ ~group'.exists => group'.members = {}
             /\ Limited(group) => Limited(group')
             /\ jail' = jail /\ group'.members = group.members
  BY <1>0, <1>1
<1>2. CASE Decide(c)
  <2>1. UNCHANGED <<main, todo, queue, failed, jail, group>>
    BY <1>2 DEF Decide, tick
  <2> QED
    BY <1>0, <2>1
<1>3. CASE ToggleCreate(c)
  <2>1. PICK o \in CreateProcessGroup(group, Faulty) : group' = o.group
    BY <1>3 DEF ToggleCreate, ToggleCall
  <2>2. UNCHANGED <<main, todo, queue, failed, jail>>
    BY <1>3 DEF ToggleCreate, ToggleCall, tick
  <2> QED
    BY <1>0, <1>1, <2>1, <2>2, CallEffects, CallsExist
<1>4. CASE ToggleSetCpu(c)
  <2>1. PICK o \in SetGroupRow(group, "cpu", tog[c].quota, Faulty) : group' = o.group
    BY <1>4 DEF ToggleSetCpu, ToggleCall
  <2>2. UNCHANGED <<main, todo, queue, failed, jail>>
    BY <1>4 DEF ToggleSetCpu, ToggleCall, tick
  <2> QED
    BY <1>0, <1>1, <2>1, <2>2, CallEffects, CallsExist
<1>5. CASE ToggleSetMem(c)
  <2>1. PICK o \in SetGroupRow(group, "mem", tog[c].quota, Faulty) : group' = o.group
    BY <1>5 DEF ToggleSetMem, ToggleCall
  <2>2. UNCHANGED <<main, todo, queue, failed, jail>>
    BY <1>5 DEF ToggleSetMem, ToggleCall, tick
  <2> QED
    BY <1>0, <1>1, <2>1, <2>2, CallEffects, CallsExist
<1>6. CASE ToggleAdd(c)
  <2>1. PICK o \in AddProcessToGroup(group, Head(tog[c].queue), alive, Faulty) : group' = o.group
    BY <1>6 DEF ToggleAdd, ToggleCall
  <2>2. UNCHANGED <<main, todo, queue, failed, jail>> /\ tog[c].pc = "add"
    BY <1>6 DEF ToggleAdd, ToggleCall, tick
  <2>3. main # "returned" => Limited(group)
    BY <2>2 DEF LimitInv
  <2>4. /\ Limited(o.group) = Limited(group)
        /\ o.group.members = IF o.ok THEN group.members \cup {Head(tog[c].queue)} ELSE group.members
    BY <1>0, CallEffects
  <2>5. ~o.group.exists => o.group.members = {}
    BY <1>0, CallsExist
  <2> QED
    BY <1>0, <2>1, <2>2, <2>3, <2>4, <2>5
<1>7. CASE ToggleMove(c)
  <2>1. PICK o \in MoveProcessToRootGroup(group, Head(tog[c].queue), alive, Faulty) : group' = o.group
    BY <1>7 DEF ToggleMove, ToggleCall
  <2>2. UNCHANGED <<main, todo, queue, failed, jail>>
    BY <1>7 DEF ToggleMove, ToggleCall, tick
  <2>3. /\ Limited(o.group) = Limited(group)
        /\ o.group.members = IF o.ok THEN group.members \ {Head(tog[c].queue)} ELSE group.members
    BY <1>0, CallEffects
  <2>4. ~o.group.exists => o.group.members = {}
    BY <1>0, CallsExist
  <2> QED
    BY <1>0, <2>1, <2>2, <2>3, <2>4
<1>8. CASE ToggleMark(c) \/ ToggleUnmark(c)
  <2>1. /\ UNCHANGED <<main, todo, queue, failed, group>>
        /\ jail' \in {jail \cup {Head(tog[c].queue)}, jail \ {Head(tog[c].queue)}}
    BY <1>8 DEF ToggleMark, ToggleUnmark, ToggleMarker, tick
  <2> QED
    BY <1>0, <2>1
<1> QED
  BY <1>2, <1>3, <1>4, <1>5, <1>6, <1>7, <1>8 DEF Toggler

(***************************************************************************)
(* LifeInv is an invariant                                                 *)
(***************************************************************************)
LEMMA LifeMain == TypeOK /\ LifeInv /\ Main => LifeInv'
<1> SUFFICES ASSUME TypeOK, LifeInv, Main PROVE LifeInv'
  OBVIOUS
<1> USE DEF LifeInv, Enforcing
<1>0. group \in Group /\ alive \subseteq Pid /\ Faulty \in BOOLEAN /\ quota \in Quota
  BY DEF TypeOK, Faulty
<1>1. CASE CreateGroup
  BY <1>0, <1>1, CallsExist DEF CreateGroup, tick
<1>2. CASE SetLimit("cpu", "setCpu", "setMem") \/ SetLimit("mem", "setMem", "loop")
  BY <1>0, <1>2, CallsExist DEF SetLimit, tick, Rows
<1>3. CASE BeginStop \/ Scan \/ EndApply \/ EndTick \/ MarkMember \/ EndRelease
  BY <1>3 DEF BeginStop, Scan, EndApply, EndTick, MarkMember, EndRelease, tick
<1>4. ASSUME NEW p \in Pid, ApplyLimits(p) \/ CleanupInactive(p) PROVE LifeInv'
  BY <1>4 DEF ApplyLimits, CleanupInactive
<1>5. ASSUME NEW p \in Pid, Release(p) PROVE LifeInv'
  <2>1. /\ main = "release" /\ todo' = todo \ {p} /\ tog' = tog
        /\ main' = "release" \/ (main' = "unmark" /\ queue' = <<p>>)
    BY <1>5 DEF Release
  <2>2. ~group'.exists => group'.members = {}
    BY <1>0, <1>5, CallsExist DEF Release
  <2> QED
    BY <2>1, <2>2
<1>6. CASE AddMember
  <2>1. Head(queue) \in Pid
    BY <1>6 DEF AddMember, TypeOK
  <2>2. ~group'.exists => group'.members = {}
    BY <1>0, <1>6, <2>1, CallsExist DEF AddMember
  <2> QED
    BY <1>6, <2>2 DEF AddMember
<1>7. CASE Unmark
  BY <1>7 DEF Unmark
<1>8. CASE DeleteGroup
  BY <1>0, <1>8, CallsExist DEF DeleteGroup, tick
<1> QED
  BY <1>1, <1>2, <1>3, <1>4, <1>5, <1>6, <1>7, <1>8 DEF Main, Configure

LEMMA LifeOutside == TypeOK /\ LifeInv /\ (WatchConfig \/ Outside) => LifeInv'
<1> SUFFICES ASSUME TypeOK, LifeInv, WatchConfig \/ Outside PROVE LifeInv'
  OBVIOUS
<1> USE DEF LifeInv, Enforcing
<1>0. group \in Group /\ tog \in [Clients -> Toggle]
  BY DEF TypeOK
<1>1. CASE WatchConfig \/ Signal \/ \E f \in Files : Edit(f)
  BY <1>1 DEF WatchConfig, Signal, Edit, tick
<1>2. ASSUME NEW p \in Pid, Exit(p) PROVE LifeInv'
  BY <1>0, <1>2 DEF Exit, tick, Group
<1>3. ASSUME NEW p \in Pid, NEW q \in Pid, Fork(p, q) PROVE LifeInv'
  BY <1>0, <1>3 DEF Fork, tick, Group
<1>4. ASSUME NEW c \in Clients, NEW p \in Pid, Request(c, p) PROVE LifeInv'
  BY <1>4 DEF Request, tick
<1>5. CASE Start
  BY <1>5 DEF Start, tick
<1>6. CASE ProcessEnds
  BY <1>6 DEF ProcessEnds, IdleToggle, Busy
<1> QED
  BY <1>1, <1>2, <1>3, <1>4, <1>5, <1>6 DEF Outside

LEMMA LifeInvariant == Spec => []LifeInv
<1>1. Init => LifeInv
  BY DEF Init, LifeInv, AbsentGroup, IdleToggle, Busy
<1>2. TypeOK /\ LimitInv /\ LifeInv /\ [Next]_vars => LifeInv'
  <2>1. LifeInv /\ UNCHANGED vars => LifeInv'
    BY DEF vars, LifeInv
  <2>2. ASSUME TypeOK, LimitInv, LifeInv, NEW c \in Clients, Toggler(c) PROVE LifeInv'
    <3>1. /\ UNCHANGED <<main, todo, queue, failed>> /\ tog[c].pc \in Busy
          /\ ~group'.exists => group'.members = {}
      BY <2>2, TogglerEffects
    <3>2. main # "down"
      BY <2>2, <3>1 DEF LifeInv
    <3> QED
      BY <2>2, <3>1, <3>2 DEF LifeInv
  <2> QED
    BY <2>1, <2>2, LifeMain, LifeOutside DEF Next
<1> QED
  BY <1>1, <1>2, TypeCorrect, LimitInvariant, PTL DEF Spec

(***************************************************************************)
(* The refinement                                                          *)
(***************************************************************************)
\* Where the daemon is, as its surroundings see it, before and after a step.
LEMMA Phases ==
    /\ main = "down" => PhaseOf = "off"
    /\ main \in {"create", "setCpu", "setMem"} => PhaseOf = "starting"
    /\ main \in Enforcing => PhaseOf = "enforcing"
    /\ main \in Stopping => PhaseOf = "stopping"
    /\ main = "returned" => PhaseOf = "done"
    /\ main \in MainPC \ {"down"} => PhaseOf # "off"
    /\ main \in MainPC \ {"returned"} => PhaseOf # "done"
    /\ main' = "down" => PhaseOf' = "off"
    /\ main' \in {"create", "setCpu", "setMem"} => PhaseOf' = "starting"
    /\ main' \in Enforcing => PhaseOf' = "enforcing"
    /\ main' \in Stopping => PhaseOf' = "stopping"
    /\ main' = "returned" => PhaseOf' = "done"
    /\ main' = main => PhaseOf' = PhaseOf
BY DEF PhaseOf, Enforcing, Stopping, MainPC

Simulated == Abstract!LifecycleNext \/ UNCHANGED Abstract!lifecycle

\* The markers a stop still has to release.
Owed == IF main \in Stopping THEN todo ELSE {}

\* A step that its surroundings do not see.
LEMMA Unseen ==
    ASSUME PhaseOf' = PhaseOf, Limited(group)' = Limited(group),
           group'.members = group.members, jail' = jail, Owed' = Owed, failed' = failed
    PROVE  UNCHANGED Abstract!lifecycle
BY DEF Abstract!lifecycle, Owed

\* Starting: the first limits, and the way into the loop or out.
LEMMA StartRefines == TypeOK /\ LimitInv' /\ LifeInv /\ Configure => Simulated
<1> SUFFICES ASSUME TypeOK, LimitInv', LifeInv, Configure PROVE Simulated
  OBVIOUS
<1>0. /\ group \in Group /\ quota \in Quota /\ Faulty \in BOOLEAN
      /\ ~group.exists => group.members = {}
      /\ "cpu" \in Rows /\ "mem" \in Rows
  BY DEF TypeOK, LifeInv, Rows, Faulty
<1>1. /\ main \in {"create", "setCpu", "setMem"} /\ failed = FALSE
      /\ main' \in {"setCpu", "setMem", "loop", "returned"}
      /\ main = "setMem" \/ main' # "loop"
      /\ jail' = jail /\ failed' = (main' = "returned")
  BY DEF Configure, CreateGroup, SetLimit, LifeInv, TypeOK
<1>2. /\ group'.members = group.members
      /\ Limited(group) => Limited(group')
      /\ main' = "returned" => Limited(group') = Limited(group)
  <2>1. CASE CreateGroup
    BY <1>0, <2>1, CallEffects DEF CreateGroup
  <2>2. CASE SetLimit("cpu", "setCpu", "setMem")
    <3>1. PICK o \in SetGroupRow(group, "cpu", quota, Faulty) :
            group' = o.group /\ main' = IF o.ok THEN "setMem" ELSE "returned"
      BY <2>2 DEF SetLimit
    <3> QED
      BY <1>0, <3>1, CallEffects
  <2>3. CASE SetLimit("mem", "setMem", "loop")
    <3>1. PICK o \in SetGroupRow(group, "mem", quota, Faulty) :
            group' = o.group /\ main' = IF o.ok THEN "loop" ELSE "returned"
      BY <2>3 DEF SetLimit
    <3> QED
      BY <1>0, <3>1, CallEffects
  <2> QED
    BY <2>1, <2>2, <2>3 DEF Configure
<1>3. /\ PhaseOf = "starting" /\ Owed = {} /\ Owed' = {}
      /\ main' \in {"setCpu", "setMem"} => PhaseOf' = "starting"
      /\ main' = "loop" => PhaseOf' = "enforcing"
      /\ main' = "returned" => PhaseOf' = "done"
  BY <1>1, Phases DEF Owed, Stopping, Enforcing
<1>4. CASE main' \in {"setCpu", "setMem"} /\ ~Limited(group')
  <2>1. UNCHANGED Abstract!lifecycle
    <3>1. Limited(group)' = Limited(group)
      BY <1>2, <1>4 DEF Limited
    <3> QED
      BY <1>1, <1>2, <1>3, <1>4, <3>1, Unseen
  <2> QED
    BY <2>1 DEF Simulated
<1>5. CASE main' \in {"setCpu", "setMem"} /\ Limited(group')
  <2>1. Abstract!Limit
    BY <1>1, <1>2, <1>3, <1>5 DEF Abstract!Limit, Owed
  <2> QED
    BY <2>1 DEF Simulated, Abstract!LifecycleNext
<1>6. CASE main' = "loop"
  <2>1. Limited(group')
    BY <1>6 DEF LimitInv, Running, Enforcing
  <2>2. Abstract!Enforce
    BY <1>1, <1>2, <1>3, <1>6, <2>1 DEF Abstract!Enforce, Owed
  <2> QED
    BY <2>2 DEF Simulated, Abstract!LifecycleNext
<1>7. CASE main' = "returned"
  <2>1. Abstract!GiveUp
    BY <1>1, <1>2, <1>3, <1>7 DEF Abstract!GiveUp, Owed
  <2> QED
    BY <2>1 DEF Simulated, Abstract!LifecycleNext
<1> QED
  BY <1>1, <1>4, <1>5, <1>6, <1>7

\* The loop holds and marks who is over the limits, and forgets who is gone.
LEMMA LoopRefines ==
    ASSUME TypeOK, LimitInv, LifeInv,
           \/ BeginStop \/ Scan \/ EndApply \/ EndTick \/ AddMember \/ MarkMember
           \/ \E p \in Pid : ApplyLimits(p) \/ CleanupInactive(p)
    PROVE  Simulated
<1>0. /\ group \in Group /\ Faulty \in BOOLEAN
      /\ ~group.exists => group.members = {}
  BY DEF TypeOK, LifeInv, Faulty
<1>1. /\ main \in Enforcing /\ main' \in Enforcing \cup {"release"}
      /\ PhaseOf = "enforcing" /\ Owed = {}
      /\ main' \in Enforcing => PhaseOf' = "enforcing" /\ Owed' = {}
      /\ failed' = failed
  <2>1. main \in Enforcing /\ main' \in Enforcing \cup {"release"} /\ failed' = failed
    BY DEF BeginStop, Scan, EndApply, EndTick, AddMember, MarkMember, ApplyLimits,
           CleanupInactive, Enforcing, tick
  <2> QED
    BY <2>1, Phases DEF Owed, Enforcing, Stopping
<1>2. CASE BeginStop
  <2>1. main' = "release" /\ todo' = jail /\ UNCHANGED <<group, jail>>
    BY <1>2 DEF BeginStop
  <2>2. PhaseOf' = "stopping" /\ Owed' = jail
    BY <2>1, Phases DEF Owed, Stopping
  <2>3. Abstract!BeginStop
    BY <1>1, <2>1, <2>2 DEF Abstract!BeginStop, Owed
  <2> QED
    BY <2>3 DEF Simulated, Abstract!LifecycleNext
<1>3. CASE Scan \/ EndApply \/ EndTick \/ \E p \in Pid : ApplyLimits(p)
  <2>1. main' \in Enforcing /\ UNCHANGED <<group, jail>>
    BY <1>3 DEF Scan, EndApply, EndTick, ApplyLimits, Enforcing
  <2>2. UNCHANGED Abstract!lifecycle
    BY <1>1, <2>1, Unseen
  <2> QED
    BY <2>2 DEF Simulated
<1>4. CASE AddMember
  <2>1. Head(queue) \in Pid /\ Limited(group)
    BY <1>1, <1>4 DEF AddMember, TypeOK, LimitInv, Running
  <2>2. PICK o \in AddProcessToGroup(group, Head(queue), alive, Faulty) : group' = o.group
    BY <1>4 DEF AddMember
  <2>3. /\ Limited(o.group) = Limited(group)
        /\ o.group.members = IF o.ok THEN group.members \cup {Head(queue)} ELSE group.members
    BY <1>0, <2>1, CallEffects
  <2>4. main' \in Enforcing /\ jail' = jail
    BY <1>4 DEF AddMember, Enforcing
  <2>5. CASE o.ok
    <3>1. Abstract!Hold(Head(queue))
      BY <1>1, <2>1, <2>2, <2>3, <2>4, <2>5 DEF Abstract!Hold, Owed
    <3> QED
      BY <2>1, <3>1 DEF Simulated, Abstract!LifecycleNext
  <2>6. CASE ~o.ok
    <3>1. UNCHANGED Abstract!lifecycle
      BY <1>1, <2>2, <2>3, <2>4, <2>6, Unseen
    <3> QED
      BY <3>1 DEF Simulated
  <2> QED
    BY <2>5, <2>6
<1>5. CASE MarkMember
  <2>1. Head(queue) \in Pid
    BY <1>5 DEF MarkMember, TypeOK
  <2>2. main' \in Enforcing /\ jail' = jail \cup {Head(queue)} /\ group' = group
    BY <1>5 DEF MarkMember, Enforcing
  <2>3. Abstract!Mark(Head(queue))
    BY <1>1, <2>2 DEF Abstract!Mark, Owed
  <2> QED
    BY <2>1, <2>3 DEF Simulated, Abstract!LifecycleNext
<1>6. ASSUME NEW p \in Pid, CleanupInactive(p) PROVE Simulated
  <2>1. main' \in Enforcing /\ jail' = jail \ {p} /\ group' = group
    BY <1>6 DEF CleanupInactive, Enforcing
  <2>2. Abstract!Forget(p)
    BY <1>1, <2>1 DEF Abstract!Forget, Owed
  <2> QED
    BY <2>2 DEF Simulated, Abstract!LifecycleNext
<1> QED
  BY <1>2, <1>3, <1>4, <1>5, <1>6

\* A stop releases whom it owes it, or reports that it could not, and deletes last.
LEMMA StopRefines ==
    ASSUME TypeOK, LifeInv,
           \/ \E p \in Pid : Release(p)
           \/ Unmark \/ EndRelease \/ DeleteGroup
    PROVE  Simulated
<1>0. /\ group \in Group /\ Faulty \in BOOLEAN
      /\ ~group.exists => group.members = {}
  BY DEF TypeOK, LifeInv, Faulty
<1>1. /\ main \in Stopping /\ main' \in Stopping \cup {"returned"}
      /\ PhaseOf = "stopping" /\ Owed = todo
      /\ main' \in Stopping => PhaseOf' = "stopping" /\ Owed' = todo'
  <2>1. main \in Stopping /\ main' \in Stopping \cup {"returned"}
    BY DEF Release, Unmark, EndRelease, DeleteGroup, Stopping
  <2> QED
    BY <2>1, Phases DEF Owed
<1>2. ASSUME NEW p \in Pid, Release(p) PROVE Simulated
  <2>1. /\ p \in todo /\ todo' = todo \ {p} /\ main' \in Stopping /\ jail' = jail
    BY <1>2 DEF Release, Stopping
  <2>2. PICK o \in MoveProcessToRootGroup(group, p, alive, Faulty) :
          group' = o.group /\ IF o.ok THEN failed' = failed ELSE failed' = TRUE
    BY <1>2 DEF Release
  <2>3. /\ Limited(o.group) = Limited(group)
        /\ o.group.members = IF o.ok THEN group.members \ {p} ELSE group.members
    BY <1>0, CallEffects
  <2>4. Abstract!Release(p)
    BY <1>1, <2>1, <2>2, <2>3 DEF Abstract!Release, Owed
  <2> QED
    BY <2>4 DEF Simulated, Abstract!LifecycleNext
<1>3. CASE Unmark
  <2>1. Head(queue) \in Pid /\ Head(queue) \notin todo
    BY <1>3 DEF Unmark, TypeOK, LifeInv
  <2>2. /\ main' \in Stopping /\ jail' = jail \ {Head(queue)}
        /\ UNCHANGED <<group, todo, failed>>
    BY <1>3 DEF Unmark, Stopping
  <2>3. Abstract!Unmark(Head(queue))
    BY <1>1, <2>1, <2>2 DEF Abstract!Unmark, Owed
  <2> QED
    BY <2>1, <2>3 DEF Simulated, Abstract!LifecycleNext
<1>4. CASE EndRelease
  <2>1. main' \in Stopping /\ UNCHANGED <<group, jail, todo, failed>>
    BY <1>4 DEF EndRelease, Stopping, tick
  <2>2. UNCHANGED Abstract!lifecycle
    BY <1>1, <2>1, Unseen
  <2> QED
    BY <2>2 DEF Simulated
<1>5. CASE DeleteGroup
  <2>1. main = "delete" /\ main' = "returned" /\ jail' = jail /\ todo = {}
    BY <1>5 DEF DeleteGroup, LifeInv
  <2>2. PICK o \in DeleteProcessGroup(group, Faulty) :
          group' = o.group /\ failed' = (failed \/ ~o.ok)
    BY <1>5 DEF DeleteGroup
  <2>3. /\ \/ o.group = AbsentGroup /\ (Backend = "cgroup" => group.members = {})
           \/ o.group = group /\ (Backend = "cgroup" => ~o.ok)
    BY <2>2 DEF DeleteProcessGroup, RemoveDirectory, deleteSystemdUnit, Returns
  <2>4. Limited(AbsentGroup) = FALSE /\ AbsentGroup.members = {}
    BY DEF AbsentGroup, Limited
  <2>5. PhaseOf' = "done" /\ Owed' = {} /\ Owed = {}
    BY <1>1, <2>1, Phases DEF Owed, Stopping
  <2>6. failed' \in {failed, TRUE} /\ (~o.ok => failed' = TRUE)
    BY <2>2 DEF TypeOK
  <2>7. Abstract!Disband
    BY <1>1, <2>1, <2>2, <2>3, <2>4, <2>5, <2>6 DEF Abstract!Disband, Owed
  <2> QED
    BY <2>7 DEF Simulated, Abstract!LifecycleNext
<1> QED
  BY <1>2, <1>3, <1>4, <1>5

\* A toggle is a hand at work: it brings nobody in before the limits.
LEMMA HandRefines ==
    ASSUME TypeOK, LimitInv, LifeInv, NEW c \in Clients, Toggler(c)
    PROVE  Simulated
<1>1. /\ UNCHANGED <<main, todo, queue, failed>> /\ main # "down" /\ Clients # {}
      /\ main \in MainPC
  BY TogglerEffects DEF LifeInv, TypeOK
<1>2. /\ PhaseOf' = PhaseOf /\ PhaseOf # "off" /\ Owed' = Owed
      /\ PhaseOf # "done" => main # "returned"
  BY <1>1, Phases DEF Owed
<1>3. Limited(group') \in {Limited(group), TRUE}
  BY TogglerEffects DEF Limited
<1>4. \/ \E p \in Pid : Abstract!HandHold(p) \/ Abstract!HandRelease(p) \/ Abstract!HandMark(p)
      \/ jail' = jail /\ group'.members = group.members
  <2>1. ASSUME NEW p \in Pid, jail' = jail, group'.members = group.members \cup {p},
               main # "returned" => Limited(group)
        PROVE  Abstract!HandHold(p)
    BY <1>2, <2>1 DEF Abstract!HandHold
  <2>2. ASSUME NEW p \in Pid, jail' = jail, group'.members = group.members \ {p}
        PROVE  Abstract!HandRelease(p)
    BY <2>2 DEF Abstract!HandRelease
  <2>3. ASSUME NEW p \in Pid, group' = group, jail' \in {jail \cup {p}, jail \ {p}}
        PROVE  Abstract!HandMark(p)
    BY <2>3 DEF Abstract!HandMark
  <2> QED
    BY <2>1, <2>2, <2>3, TogglerEffects
<1>5. Abstract!Hand
  BY <1>1, <1>2, <1>3, <1>4 DEF Abstract!Hand, Owed
<1> QED
  BY <1>5 DEF Simulated, Abstract!LifecycleNext

\* What its surroundings do to the daemon, they do to the abstract one.
LEMMA OutsideRefines ==
    ASSUME TypeOK, LifeInv, WatchConfig \/ Outside
    PROVE  Simulated
<1>0. group \in Group /\ main \in MainPC
  BY DEF TypeOK
<1>1. CASE WatchConfig \/ Signal \/ (\E f \in Files : Edit(f))
           \/ \E c \in Clients, p \in Pid : Request(c, p)
  <2>1. UNCHANGED <<main, group, jail, todo, failed>>
    BY <1>1 DEF WatchConfig, Signal, Edit, Request, tick
  <2>2. PhaseOf' = PhaseOf /\ Owed' = Owed
    BY <2>1, Phases DEF Owed
  <2>3. UNCHANGED Abstract!lifecycle
    BY <2>1, <2>2, Unseen
  <2> QED
    BY <2>3 DEF Simulated
<1>2. ASSUME NEW p \in Pid, Exit(p) PROVE Simulated
  <2>1. /\ UNCHANGED <<main, jail, todo, failed>>
        /\ group'.members = group.members \ {p} /\ Limited(group') = Limited(group)
    BY <1>0, <1>2 DEF Exit, tick, Group, Limited
  <2>2. PhaseOf' = PhaseOf /\ Owed' = Owed
    BY <2>1, Phases DEF Owed
  <2>3. Abstract!Depart(p)
    BY <2>1, <2>2 DEF Abstract!Depart, Owed
  <2> QED
    BY <2>3 DEF Simulated, Abstract!LifecycleNext
<1>3. ASSUME NEW p \in Pid, NEW q \in Pid, Fork(p, q) PROVE Simulated
  <2>1. /\ UNCHANGED <<main, jail, todo, failed>> /\ Limited(group') = Limited(group)
        /\ \/ group'.members = group.members
           \/ group.members # {} /\ group'.members = group.members \cup {q}
    BY <1>0, <1>3 DEF Fork, tick, Group, Limited
  <2>2. PhaseOf' = PhaseOf /\ Owed' = Owed
    BY <2>1, Phases DEF Owed
  <2>3. UNCHANGED Abstract!lifecycle \/ Abstract!Breed(q)
    BY <2>1, <2>2, Unseen DEF Abstract!Breed, Owed
  <2> QED
    BY <2>3 DEF Simulated, Abstract!LifecycleNext
<1>4. CASE Start
  <2>1. main = "down" /\ main' = "create" /\ UNCHANGED <<group, jail, failed>>
    BY <1>4 DEF Start
  <2>2. PhaseOf = "off" /\ PhaseOf' = "starting" /\ Owed = {} /\ Owed' = {}
    BY <2>1, Phases DEF Owed, Stopping
  <2>3. Abstract!Launch
    BY <2>1, <2>2 DEF Abstract!Launch, Owed
  <2> QED
    BY <2>3 DEF Simulated, Abstract!LifecycleNext
<1>5. CASE ProcessEnds
  <2>1. main # "down" /\ main' = "down" /\ group' = group /\ jail' = {} /\ failed' = FALSE
    BY <1>5 DEF ProcessEnds
  <2>2. PhaseOf # "off" /\ PhaseOf' = "off" /\ Owed' = {}
    BY <1>0, <2>1, Phases DEF Owed, Stopping
  <2>3. Abstract!End
    BY <2>1, <2>2 DEF Abstract!End, Owed
  <2> QED
    BY <2>3 DEF Simulated, Abstract!LifecycleNext
<1> QED
  BY <1>1, <1>2, <1>3, <1>4, <1>5 DEF Outside

\* The daemon implements Lifecycle, for every set of processes, clients and
\* configurations, every backend and every environment: however its goroutines,
\* failing calls and crashes interleave, each step starts, limits, holds, marks,
\* releases or disbands as Lifecycle allows (daemon.go, Run, stop, putTreeInGroup,
\* configureGroup, ToggleProcessJail).
THEOREM DaemonIsALifecycle == Spec => KeepsItsPromises
<1>1. Init => Abstract!LifecycleInit
  <2>1. ASSUME Init PROVE main = "down" /\ group = AbsentGroup /\ jail = {} /\ failed = FALSE
    BY <2>1 DEF Init
  <2>2. Limited(AbsentGroup) = FALSE /\ AbsentGroup.members = {}
    BY DEF AbsentGroup, Limited
  <2> QED
    BY <2>1, <2>2, Phases DEF Abstract!LifecycleInit, Stopping
<1>2. TypeOK /\ LimitInv /\ LimitInv' /\ LifeInv /\ [Next]_vars => Simulated
  <2>1. ASSUME UNCHANGED vars PROVE Simulated
    <3>1. UNCHANGED <<main, group, jail, todo, failed>>
      BY <2>1 DEF vars
    <3>2. PhaseOf' = PhaseOf /\ Owed' = Owed
      BY <3>1, Phases DEF Owed
    <3> QED
      BY <3>1, <3>2, Unseen DEF Simulated
  <2> QED
    BY <2>1, StartRefines, LoopRefines, StopRefines, HandRefines, OutsideRefines DEF Next, Main
<1> QED
  BY <1>1, <1>2, TypeCorrect, LimitInvariant, LifeInvariant, PTL
     DEF Spec, Simulated, KeepsItsPromises, Abstract!LifecycleSpec
=============================================================================
