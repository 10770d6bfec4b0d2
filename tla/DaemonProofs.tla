---------------------------- MODULE DaemonProofs ----------------------------
(***************************************************************************)
(* What holds of the daemon for every set of processes, every number of    *)
(* clients, every threshold and every environment.                         *)
(***************************************************************************)
EXTENDS DaemonProperties, FiniteSetTheorems, SequenceTheorems, TLAPS

(***************************************************************************)
(* The data                                                                *)
(***************************************************************************)
\* A tree holds its root and nothing but processes (collector.go, walkTree).
LEMMA SubtreeType ==
    ASSUME NEW root \in Pid, alive \subseteq Pid
    PROVE  root \in Subtree(root) /\ Subtree(root) \subseteq Pid
BY DEF Subtree, TreeOf

\* The tree's traversal is a list of distinct processes that ends in its root.
LEMMA PostOrderType ==
    ASSUME NEW root \in Pid, alive \subseteq Pid, NEW s \in PostOrders(root)
    PROVE  /\ s \in Seq(Pid) /\ Len(s) \in Nat \ {0} /\ s # <<>>
           /\ s[Len(s)] = root
           /\ \A i, j \in 1..Len(s) : s[i] = s[j] => i = j
<1> DEFINE D == Subtree(root)
           n == Cardinality(D)
<1>1. root \in D /\ D \subseteq Pid
  BY SubtreeType
<1>2. IsFiniteSet(D)
  BY <1>1, FS_Subset, ConstantsAssumption DEF ConstantsAssumption
<1>3. n \in Nat /\ n # 0
  BY <1>1, <1>2, FS_CardinalityType, FS_EmptySet
<1>4. s \in [1..n -> D] /\ s[n] = root /\ \A i, j \in 1..n : s[i] = s[j] => i = j
  BY DEF PostOrders, Walks, Subtree
<1> HIDE DEF n, D
<1>5. s \in [1..n -> Pid]
  BY <1>1, <1>4
<1>6. s \in Seq(Pid) /\ Len(s) = n
  BY <1>3, <1>5
<1> QED
  BY <1>3, <1>4, <1>6

\* Every call of pkg/cgroups returns an outcome.
LEMMA CallTypes ==
    ASSUME group \in Group, alive \subseteq Pid, NEW faulty \in BOOLEAN
    PROVE  /\ CreateProcessGroup(group, faulty) \subseteq Outcome
           /\ \A row \in Rows, val \in Quota : SetGroupRow(group, row, val, faulty) \subseteq Outcome
           /\ \A p \in Pid : AddProcessToGroup(group, p, alive, faulty) \subseteq Outcome
           /\ \A p \in Pid : MoveProcessToRootGroup(group, p, alive, faulty) \subseteq Outcome
           /\ DeleteProcessGroup(group, faulty) \subseteq Outcome
<1>0. \A ok \in BOOLEAN, g \in Group : Returns(ok, g) \in Outcome
  BY DEF Outcome, Returns
<1>1. AbsentGroup \in Group /\ NewGroup \in Group /\ Ensured(group) \in Group
  BY DEF AbsentGroup, NewGroup, Group, Ensured
<1>2. CreateProcessGroup(group, faulty) \subseteq Outcome
  BY <1>0, <1>1 DEF CreateProcessGroup
<1>3. ASSUME NEW row \in Rows, NEW val \in Quota
      PROVE  SetGroupRow(group, row, val, faulty) \subseteq Outcome
  <2>1. [Ensured(group) EXCEPT ![row] = val] \in Group
    BY <1>1 DEF Group, Rows
  <2> QED
    BY <1>0, <1>1, <2>1 DEF SetGroupRow
<1>4. ASSUME NEW p \in Pid
      PROVE  /\ AddProcessToGroup(group, p, alive, faulty) \subseteq Outcome
             /\ MoveProcessToRootGroup(group, p, alive, faulty) \subseteq Outcome
  <2>1. /\ [Ensured(group) EXCEPT !.members = @ \cup {p}] \in Group
        /\ [group EXCEPT !.members = @ \ {p}] \in Group
    BY <1>1 DEF Group
  <2> QED
    BY <1>0, <1>1, <2>1 DEF AddProcessToGroup, MoveProcessToRootGroup
<1>5. DeleteProcessGroup(group, faulty) \subseteq Outcome
  <2>1. \A ok \in BOOLEAN :
          [ok |-> ok, group |-> AbsentGroup, killed |-> group.members] \in Outcome
    BY <1>1 DEF Outcome, Group
  <2>2. RemoveDirectory(group, faulty) \subseteq Outcome
    BY <1>0, <1>1 DEF RemoveDirectory
  <2>3. deleteSystemdUnit(group, faulty) \subseteq Outcome
    BY <1>0, <2>1 DEF deleteSystemdUnit
  <2> QED
    BY <2>2, <2>3 DEF DeleteProcessGroup
<1> QED
  BY <1>2, <1>3, <1>4, <1>5

\* A readable config.yaml is a configuration.
LEMMA ReadConfigType ==
    ASSUME file \in Content, file \notin Unreadable
    PROVE  ReadConfig(file) \in Config
BY ConstantsAssumption DEF ConstantsAssumption, ReadConfig, Content, Unreadable

(***************************************************************************)
(* Type correctness                                                        *)
(***************************************************************************)
LEMMA TypeInit == Init => TypeOK
<1> SUFFICES ASSUME Init PROVE TypeOK
  OBVIOUS
<1> USE ConstantsAssumption DEF ConstantsAssumption, Init
<1>1. group \in Group
  BY DEF AbsentGroup, Group
<1>2. quota \in Quota
  BY DEF Config
<1>3. tog \in [Clients -> Toggle]
  BY <1>2 DEF IdleToggle, Toggle, Resting
<1>4. \A c \in Clients : tog[c].pc \notin Busy
  BY DEF IdleToggle, Busy
<1>5. violations \in [Pid -> 0..violationThreshold]
  OBVIOUS
<1>6. file \in Content /\ cfg \in Config /\ ppid \in [Pid -> Pid \cup {NoPid}]
  OBVIOUS
<1>7. alive \subseteq Pid /\ jail \subseteq Pid /\ active \subseteq Pid /\ todo \subseteq Pid
  OBVIOUS
<1>8. watcher \in BOOLEAN /\ signalled \in BOOLEAN /\ failed \in BOOLEAN
  OBVIOUS
<1>9. queue \in Seq(Pid) /\ main = "down"
  OBVIOUS
<1> HIDE DEF Init
<1> QED
  BY <1>1, <1>2, <1>3, <1>4, <1>5, <1>6, <1>7, <1>8, <1>9 DEF TypeOK, MainPC

LEMMA TypeMain == TypeOK /\ Main => TypeOK'
<1> SUFFICES ASSUME TypeOK, Main PROVE TypeOK'
  OBVIOUS
<1> USE DEF TypeOK, kernel, tick
<1>0. Faulty \in BOOLEAN
  BY DEF Faulty
<1>1. CASE CreateGroup
  <2>1. \A o \in CreateProcessGroup(group, Faulty) : o \in Outcome
    BY <1>0, CallTypes
  <2> QED
    BY <1>1, <2>1 DEF CreateGroup, Outcome, MainPC, Config
<1>2. ASSUME NEW row \in Rows, NEW pc \in {"setCpu", "setMem"}, NEW next \in {"setMem", "loop"},
             SetLimit(row, pc, next)
      PROVE  TypeOK'
  <2>1. \A o \in SetGroupRow(group, row, quota, Faulty) : o \in Outcome
    BY <1>0, CallTypes
  <2> QED
    BY <1>2, <2>1 DEF SetLimit, Outcome, MainPC, Enforcing
<1>3. CASE BeginStop
  BY <1>3 DEF BeginStop, MainPC, Stopping
<1>4. CASE Scan
  BY <1>4 DEF Scan, MainPC, Enforcing, Limitable
<1>5. CASE EndApply
  BY <1>5 DEF EndApply, MainPC, Enforcing
<1>6. CASE EndTick
  BY <1>6 DEF EndTick, MainPC, Enforcing
<1>7. ASSUME NEW p \in Pid, ApplyLimits(p) PROVE TypeOK'
  <2>1. violations' \in [Pid -> 0..violationThreshold]
    <3>1. violationThreshold \in Nat \ {0}
      BY ConstantsAssumption DEF ConstantsAssumption
    <3>2. violations[p] \in 0..violationThreshold
      OBVIOUS
    <3>3. CASE violations' = violations
      BY <3>3
    <3>4. CASE violations[p] + 1 < violationThreshold
                 /\ violations' = [violations EXCEPT ![p] = @ + 1]
      BY <3>1, <3>2, <3>4
    <3>5. CASE violations' = [violations EXCEPT ![p] = violationThreshold]
      BY <3>1, <3>5
    <3> QED
      BY <1>7, <3>3, <3>4, <3>5 DEF ApplyLimits
  <2>2. queue' \in Seq(Pid) /\ (queue' # <<>> \/ main' = "apply")
    BY <1>7, PostOrderType DEF ApplyLimits
  <2>3. main' \in {"apply", "add"}
    BY <1>7 DEF ApplyLimits
  <2> QED
    BY <1>7, <2>1, <2>2, <2>3 DEF ApplyLimits, MainPC, Enforcing
<1>8. ASSUME NEW p \in Pid, CleanupInactive(p) PROVE TypeOK'
  BY <1>8, ConstantsAssumption DEF CleanupInactive, ConstantsAssumption, MainPC, Enforcing
<1>9. ASSUME NEW p \in Pid, Release(p) PROVE TypeOK'
  <2>1. \A o \in MoveProcessToRootGroup(group, p, alive, Faulty) : o \in Outcome
    BY <1>0, CallTypes
  <2>2. <<p>> \in Seq(Pid) /\ <<p>> # <<>>
    OBVIOUS
  <2> QED
    BY <1>9, <2>1, <2>2 DEF Release, Outcome, MainPC, Stopping
<1>10. CASE AddMember
  <2>1. main = "add" /\ queue # <<>> /\ Head(queue) \in Pid /\ Tail(queue) \in Seq(Pid)
    BY <1>10 DEF AddMember
  <2>2. \A o \in AddProcessToGroup(group, Head(queue), alive, Faulty) : o \in Outcome
    BY <1>0, <2>1, CallTypes
  <2> QED
    BY <1>10, <2>1, <2>2 DEF AddMember, Outcome, MainPC, Enforcing
<1>11. CASE MarkMember
  <2>1. main = "mark" /\ queue # <<>> /\ Head(queue) \in Pid /\ Tail(queue) \in Seq(Pid)
    BY <1>11 DEF MarkMember
  <2> QED
    BY <1>11, <2>1 DEF MarkMember, MainPC, Enforcing
<1>12. CASE Unmark
  BY <1>12 DEF Unmark, MainPC, Stopping
<1>13. CASE EndRelease
  BY <1>13 DEF EndRelease, MainPC, Stopping
<1>14. CASE DeleteGroup
  <2>1. \A o \in DeleteProcessGroup(group, Faulty) : o \in Outcome
    BY <1>0, CallTypes
  <2>2. ppid' \in [Pid -> Pid \cup {NoPid}]
    BY <1>14 DEF DeleteGroup, Orphaned, Reparented
  <2> QED
    BY <1>14, <2>1, <2>2 DEF DeleteGroup, Outcome, MainPC
<1> QED
  BY <1>1, <1>2, <1>3, <1>4, <1>5, <1>6, <1>7, <1>8, <1>9, <1>10, <1>11, <1>12, <1>13, <1>14
     DEF Main, Configure, Rows

LEMMA TypeToggler == ASSUME NEW c \in Clients PROVE TypeOK /\ Toggler(c) => TypeOK'
<1> SUFFICES ASSUME TypeOK, Toggler(c) PROVE TypeOK'
  OBVIOUS
<1> USE DEF TypeOK, kernel, tick
<1>0. Faulty \in BOOLEAN
  BY DEF Faulty
<1>1. tog[c] \in Toggle /\ cfg.quota \in Quota
  BY DEF Config
<1>2. tog[c].pc \in Busy => /\ tog[c].queue # <<>> /\ Head(tog[c].queue) \in Pid
                          /\ Tail(tog[c].queue) \in Seq(Pid)
  BY <1>1 DEF Toggle
<1>3. CASE Decide(c)
  BY <1>1, <1>2, <1>3 DEF Decide, Toggle, Busy
<1>4. ASSUME NEW pc \in Busy, NEW next \in Busy, NEW STATE outcomes, outcomes \in SUBSET Outcome,
             ToggleCall(c, pc, outcomes, next)
      PROVE  TypeOK'
  <2>1. PICK o \in outcomes :
          /\ group' = o.group
          /\ tog' = [tog EXCEPT ![c].pc = IF o.ok THEN next ELSE "failed",
                                ![c].quota = IF pc = "create" THEN cfg.quota ELSE @]
    BY <1>4 DEF ToggleCall
  <2>2. group' \in Group
    BY <1>4, <2>1 DEF Outcome
  <2>3. tog' \in [Clients -> Toggle]
    BY <1>1, <1>4, <2>1 DEF Toggle, Resting
  <2>4. \A d \in Clients : tog'[d].pc \in Busy => tog'[d].queue # <<>>
    BY <1>1, <1>2, <1>4, <2>1 DEF Toggle, ToggleCall, Busy
  <2> QED
    BY <1>4, <2>2, <2>3, <2>4 DEF ToggleCall
<1>5. CASE ToggleCreate(c)
  BY <1>0, <1>4, <1>5, CallTypes DEF ToggleCreate, Busy
<1>6. CASE ToggleSetCpu(c)
  <2>1. SetGroupRow(group, "cpu", tog[c].quota, Faulty) \subseteq Outcome
    BY <1>0, <1>1, CallTypes DEF Toggle, Rows
  <2> QED
    BY <1>4, <1>6, <2>1 DEF ToggleSetCpu, Busy
<1>7. CASE ToggleSetMem(c)
  <2>1. SetGroupRow(group, "mem", tog[c].quota, Faulty) \subseteq Outcome
    BY <1>0, <1>1, CallTypes DEF Toggle, Rows
  <2> QED
    BY <1>4, <1>7, <2>1 DEF ToggleSetMem, Busy
<1>8. CASE ToggleAdd(c)
  <2>1. tog[c].pc = "add" /\ AddProcessToGroup(group, Head(tog[c].queue), alive, Faulty) \subseteq Outcome
    BY <1>0, <1>2, <1>8, CallTypes DEF ToggleAdd, Busy
  <2> QED
    BY <1>4, <1>8, <2>1 DEF ToggleAdd, Busy
<1>9. CASE ToggleMove(c)
  <2>1. tog[c].pc = "move" /\ MoveProcessToRootGroup(group, Head(tog[c].queue), alive, Faulty) \subseteq Outcome
    BY <1>0, <1>2, <1>9, CallTypes DEF ToggleMove, Busy
  <2> QED
    BY <1>4, <1>9, <2>1 DEF ToggleMove, Busy
<1>10. ASSUME NEW pc \in Busy, NEW again \in Busy, NEW done \in Resting,
              NEW STATE marked, marked \in SUBSET Pid, ToggleMarker(c, pc, again, done, marked)
       PROVE  TypeOK'
  <2>1. tog' \in [Clients -> Toggle]
    BY <1>1, <1>2, <1>10 DEF ToggleMarker, Toggle
  <2>2. \A d \in Clients : tog'[d].pc \in Busy => tog'[d].queue # <<>>
    BY <1>1, <1>10 DEF ToggleMarker, Toggle, Busy, Resting
  <2> QED
    BY <1>10, <2>1, <2>2 DEF ToggleMarker
<1>11. CASE ToggleMark(c)
  <2>1. (jail \cup {Head(tog[c].queue)}) \in SUBSET Pid
    BY <1>2, <1>11 DEF ToggleMark, Busy
  <2>2. ToggleMarker(c, "mark", "add", "jailed", jail \cup {Head(tog[c].queue)})
    BY <1>11 DEF ToggleMark
  <2> HIDE DEF TypeOK
  <2> QED
    BY <1>10, <2>1, <2>2 DEF Busy, Resting
<1>12. CASE ToggleUnmark(c)
  <2>1. (jail \ {Head(tog[c].queue)}) \in SUBSET Pid
    OBVIOUS
  <2>2. ToggleMarker(c, "unmark", "move", "released", jail \ {Head(tog[c].queue)})
    BY <1>12 DEF ToggleUnmark
  <2> HIDE DEF TypeOK
  <2> QED
    BY <1>10, <2>1, <2>2 DEF Busy, Resting
<1> QED
  BY <1>3, <1>5, <1>6, <1>7, <1>8, <1>9, <1>11, <1>12 DEF Toggler

LEMMA TypeOutside == TypeOK /\ (WatchConfig \/ Outside) => TypeOK'
<1> SUFFICES ASSUME TypeOK, WatchConfig \/ Outside PROVE TypeOK'
  OBVIOUS
<1> USE DEF TypeOK, kernel, tick
<1>1. CASE WatchConfig
  BY <1>1, ReadConfigType DEF WatchConfig, Config
<1>2. ASSUME NEW p \in Pid, Exit(p) PROVE TypeOK'
  <2>1. group' \in Group
    BY <1>2 DEF Exit, Group
  <2>2. ppid' \in [Pid -> Pid \cup {NoPid}]
    BY <1>2 DEF Exit, Orphaned, Reparented
  <2> QED
    BY <1>2, <2>1, <2>2 DEF Exit
<1>3. ASSUME NEW p \in Pid, NEW child \in Pid, Fork(p, child) PROVE TypeOK'
  <2>1. group' \in Group
    BY <1>3 DEF Fork, Group
  <2> QED
    BY <1>3, <2>1 DEF Fork
<1>4. ASSUME NEW f \in Files, Edit(f) PROVE TypeOK'
  BY <1>4, ConstantsAssumption DEF Edit, ConstantsAssumption
<1>5. ASSUME NEW c \in Clients, NEW p \in Pid, Request(c, p) PROVE TypeOK'
  <2>1. DefaultConfig.quota \in Quota
    BY ConstantsAssumption DEF ConstantsAssumption, Config
  <2>2. \A q \in PostOrders(p) :
          LET t == [IdleToggle EXCEPT !.pc = "decide", !.target = p, !.queue = q]
          IN  t \in Toggle /\ t.queue # <<>>
    BY <2>1, PostOrderType DEF IdleToggle, Toggle, Busy
  <2>3. LET t == [IdleToggle EXCEPT !.pc = "failed", !.target = p]
        IN  t \in Toggle /\ t.pc \notin Busy
    <3>1. IdleToggle \in Toggle
      BY <2>1 DEF IdleToggle, Toggle, Resting
    <3> QED
      BY <3>1 DEF Toggle, Busy, Resting
  <2>4. PICK t \in Toggle : (t.pc \in Busy => t.queue # <<>>) /\ tog' = [tog EXCEPT ![c] = t]
    BY <1>5, <2>2, <2>3 DEF Request
  <2> QED
    BY <1>5, <2>4 DEF Request
<1>6. CASE Start
  <2>1. file' \in Content /\ file' \notin Unreadable
    BY <1>6, ConstantsAssumption DEF Start, Content, Unreadable, ConstantsAssumption
  <2>2. ReadConfig(file') \in Config
    BY <2>1, ConstantsAssumption DEF ConstantsAssumption, ReadConfig, Content, Unreadable
  <2> QED
    BY <1>6, <2>1, <2>2 DEF Start, MainPC
<1>7. CASE Signal
  BY <1>7 DEF Signal
<1>8. CASE ProcessEnds
  <2>1. DefaultConfig \in Config /\ DefaultConfig.quota \in Quota /\ violationThreshold \in Nat
    BY ConstantsAssumption DEF ConstantsAssumption, Config
  <2>2. IdleToggle \in Toggle /\ IdleToggle.pc \notin Busy
    BY <2>1 DEF IdleToggle, Toggle, Resting, Busy
  <2>3. tog' \in [Clients -> Toggle] /\ \A d \in Clients : tog'[d].pc \notin Busy
    BY <1>8, <2>2 DEF ProcessEnds
  <2>4. violations' \in [Pid -> 0..violationThreshold]
    BY <1>8, <2>1 DEF ProcessEnds
  <2>5. /\ cfg' \in Config /\ quota' \in Quota /\ main' = "down"
        /\ jail' \subseteq Pid /\ active' \subseteq Pid /\ todo' \subseteq Pid
        /\ queue' \in Seq(Pid)
        /\ alive' = alive /\ ppid' = ppid /\ group' = group /\ file' = file
    BY <1>8, <2>1 DEF ProcessEnds
  <2>6. watcher' \in BOOLEAN /\ signalled' \in BOOLEAN /\ failed' \in BOOLEAN
    BY <1>8 DEF ProcessEnds
  <2> QED
    BY <2>3, <2>4, <2>5, <2>6 DEF MainPC
<1> QED
  BY <1>1, <1>2, <1>3, <1>4, <1>5, <1>6, <1>7, <1>8 DEF Outside

LEMMA TypeNext == TypeOK /\ [Next]_vars => TypeOK'
<1>1. TypeOK /\ UNCHANGED vars => TypeOK'
  BY DEF TypeOK, vars
<1> QED
  BY <1>1, TypeMain, TypeToggler, TypeOutside DEF Next

\* Every variable stays in its set, and no step takes the head of an empty queue.
THEOREM TypeCorrect == Spec => []TypeOK
BY TypeInit, TypeNext, PTL DEF Spec

(***************************************************************************)
(* The group is limited while the loop enforces.                           *)
(*                                                                         *)
(* The property is not inductive: it needs to know how far each            *)
(* configureGroup has come.  Only a deletion undoes what they did, and     *)
(* the deletion is Run's last step.                                        *)
(***************************************************************************)
\* What the group g must have when a configureGroup is at pc.
Configured(pc, g) ==
    /\ pc \in {"setCpu", "setMem"} => g.exists
    /\ pc = "setMem" => g.cpu # NoLimit

LimitInv ==
    /\ Configured(main, group)
    /\ main \in Running => Limited(group)
    /\ main # "returned" =>
         \A c \in Clients : /\ Configured(tog[c].pc, group)
                            /\ tog[c].pc \in {"add", "mark"} => Limited(group)

\* h has every limit that g has.
KeepsLimits(g, h) ==
    g.exists => /\ h.exists
                /\ g.cpu # NoLimit => h.cpu # NoLimit
                /\ g.mem # NoLimit => h.mem # NoLimit

\* No call but the deletion takes a limit away, however it fails.
LEMMA CallsKeepLimits ==
    ASSUME group \in Group, NEW faulty \in BOOLEAN
    PROVE  /\ \A o \in CreateProcessGroup(group, faulty) : KeepsLimits(group, o.group)
           /\ \A row \in Rows, val \in Quota : \A o \in SetGroupRow(group, row, val, faulty) :
                KeepsLimits(group, o.group)
           /\ \A p \in Pid : \A o \in AddProcessToGroup(group, p, alive, faulty) :
                KeepsLimits(group, o.group)
           /\ \A p \in Pid : \A o \in MoveProcessToRootGroup(group, p, alive, faulty) :
                KeepsLimits(group, o.group)
<1>1. KeepsLimits(group, group) /\ KeepsLimits(group, Ensured(group))
  BY DEF Ensured, KeepsLimits
<1>2. \A o \in CreateProcessGroup(group, faulty) : KeepsLimits(group, o.group)
  BY <1>1 DEF CreateProcessGroup, Returns
<1>3. ASSUME NEW row \in Rows, NEW val \in Quota, NEW o \in SetGroupRow(group, row, val, faulty)
      PROVE  KeepsLimits(group, o.group)
  <2>1. KeepsLimits(group, [Ensured(group) EXCEPT ![row] = val])
    BY NoLimitAssumption DEF Ensured, Rows, KeepsLimits, Group
  <2>2. o.group \in {group, Ensured(group), [Ensured(group) EXCEPT ![row] = val]}
    BY <1>3 DEF SetGroupRow, Returns
  <2> QED
    BY <1>1, <2>1, <2>2
<1>4. ASSUME NEW p \in Pid, NEW o \in AddProcessToGroup(group, p, alive, faulty)
      PROVE  KeepsLimits(group, o.group)
  <2>1. KeepsLimits(group, [Ensured(group) EXCEPT !.members = @ \cup {p}])
    BY DEF Ensured, KeepsLimits, Group
  <2>2. o.group \in {group, Ensured(group), [Ensured(group) EXCEPT !.members = @ \cup {p}]}
    BY <1>4 DEF AddProcessToGroup, Returns
  <2> QED
    BY <1>1, <2>1, <2>2
<1>5. ASSUME NEW p \in Pid, NEW o \in MoveProcessToRootGroup(group, p, alive, faulty)
      PROVE  KeepsLimits(group, o.group)
  <2>1. KeepsLimits(group, [group EXCEPT !.members = @ \ {p}])
    BY DEF KeepsLimits, Group
  <2>2. o.group \in {group, [group EXCEPT !.members = @ \ {p}]}
    BY <1>5 DEF MoveProcessToRootGroup, Returns
  <2> QED
    BY <1>1, <2>1, <2>2
<1> QED
  BY <1>2, <1>3, <1>4, <1>5

\* What a row holds after it was set successfully.
LEMMA RowIsSet ==
    ASSUME group \in Group, NEW row \in Rows, NEW val \in Quota,
           NEW o \in SetGroupRow(group, row, val, Faulty), o.ok
    PROVE  o.group.exists /\ o.group[row] # NoLimit
<1>1. o.group = [Ensured(group) EXCEPT ![row] = val]
  BY DEF SetGroupRow, Returns
<1>2. Ensured(group) \in Group /\ Ensured(group).exists
  BY DEF Ensured, NewGroup, AbsentGroup, Group
<1> QED
  BY <1>1, <1>2, NoLimitAssumption DEF Group, Rows

LEMMA GroupIsMade ==
    ASSUME group \in Group, NEW o \in CreateProcessGroup(group, Faulty), o.ok
    PROVE  o.group.exists
BY DEF CreateProcessGroup, Returns, Ensured, NewGroup, AbsentGroup

\* A step that takes no limit away, brings nobody further in configureGroup,
\* and starts no loop, keeps the invariant.
LEMMA LimitStutter ==
    ASSUME LimitInv, KeepsLimits(group, group'), tog' = tog,
           main' = main \/ (main \in Running /\ main' \in Running)
    PROVE  LimitInv'
BY DEF LimitInv, KeepsLimits, Limited, Configured, Running, Enforcing, Stopping

LEMMA LimitMain == TypeOK /\ LimitInv /\ Main => LimitInv'
<1> SUFFICES ASSUME TypeOK, LimitInv, Main PROVE LimitInv'
  OBVIOUS
<1>0. group \in Group /\ alive \subseteq Pid /\ Faulty \in BOOLEAN /\ quota \in Quota
  BY DEF TypeOK, Faulty
<1>1. KeepsLimits(group, group)
  BY DEF KeepsLimits
<1>2. CASE CreateGroup
  <2>1. PICK o \in CreateProcessGroup(group, Faulty) :
          group' = o.group /\ main' = IF o.ok THEN "setCpu" ELSE "returned"
    BY <1>2 DEF CreateGroup
  <2>2. KeepsLimits(group, group') /\ (o.ok => group'.exists)
    BY <1>0, <2>1, CallsKeepLimits, GroupIsMade
  <2> QED
    BY <1>2, <2>1, <2>2
       DEF CreateGroup, LimitInv, KeepsLimits, Limited, Configured, Running, Enforcing, Stopping
<1>3. CASE SetLimit("cpu", "setCpu", "setMem")
  <2>1. PICK o \in SetGroupRow(group, "cpu", quota, Faulty) :
          group' = o.group /\ main' = IF o.ok THEN "setMem" ELSE "returned"
    BY <1>3 DEF SetLimit
  <2>2. KeepsLimits(group, group') /\ (o.ok => group'.exists /\ group'.cpu # NoLimit)
    BY <1>0, <2>1, CallsKeepLimits, RowIsSet DEF Rows
  <2> QED
    BY <1>3, <2>1, <2>2
       DEF SetLimit, LimitInv, KeepsLimits, Limited, Configured, Running, Enforcing, Stopping
<1>4. CASE SetLimit("mem", "setMem", "loop")
  <2>1. PICK o \in SetGroupRow(group, "mem", quota, Faulty) :
          group' = o.group /\ main' = IF o.ok THEN "loop" ELSE "returned"
    BY <1>4 DEF SetLimit
  <2>2. KeepsLimits(group, group') /\ (o.ok => group'.exists /\ group'.mem # NoLimit)
    BY <1>0, <2>1, CallsKeepLimits, RowIsSet DEF Rows
  <2> QED
    BY <1>4, <2>1, <2>2
       DEF SetLimit, LimitInv, KeepsLimits, Limited, Configured, Running, Enforcing, Stopping
<1>5. CASE BeginStop \/ Scan \/ EndApply \/ EndTick \/ MarkMember \/ Unmark \/ EndRelease
  BY <1>1, <1>5, LimitStutter
     DEF BeginStop, Scan, EndApply, EndTick, MarkMember, Unmark, EndRelease, Running, Enforcing, Stopping
<1>6. ASSUME NEW p \in Pid, ApplyLimits(p) \/ CleanupInactive(p) PROVE LimitInv'
  BY <1>1, <1>6, LimitStutter DEF ApplyLimits, CleanupInactive, Running, Enforcing
<1>7. ASSUME NEW p \in Pid, Release(p) PROVE LimitInv'
  <2>1. KeepsLimits(group, group')
    BY <1>0, <1>7, CallsKeepLimits DEF Release
  <2> QED
    BY <1>7, <2>1, LimitStutter DEF Release, Running, Stopping
<1>8. CASE AddMember
  <2>1. Head(queue) \in Pid
    BY <1>8 DEF AddMember, TypeOK
  <2>2. KeepsLimits(group, group')
    BY <1>0, <1>8, <2>1, CallsKeepLimits DEF AddMember
  <2> QED
    BY <1>8, <2>2, LimitStutter DEF AddMember, Running, Enforcing
<1>9. CASE DeleteGroup
  BY <1>9 DEF DeleteGroup, LimitInv, Configured, Running, Enforcing, Stopping
<1> QED
  BY <1>2, <1>3, <1>4, <1>5, <1>6, <1>7, <1>8, <1>9 DEF Main, Configure

LEMMA LimitToggler ==
    ASSUME NEW c \in Clients PROVE TypeOK /\ LimitInv /\ Toggler(c) => LimitInv'
<1> SUFFICES ASSUME TypeOK, LimitInv, Toggler(c) PROVE LimitInv'
  OBVIOUS
<1>0. /\ group \in Group /\ alive \subseteq Pid /\ Faulty \in BOOLEAN
      /\ tog \in [Clients -> Toggle] /\ tog[c] \in Toggle /\ tog[c].quota \in Quota
      /\ tog[c].pc \in Busy => Head(tog[c].queue) \in Pid
  BY DEF TypeOK, Faulty, Toggle
<1> DEFINE Reached(pc) == main # "returned" =>
             Configured(pc, group') /\ (pc \in {"add", "mark"} => Limited(group'))
\* Whatever c does: the others lose no limit, and c must have what its new pc needs.
<1>1. ASSUME KeepsLimits(group, group'), main' = main, NEW STATE t, t \in Toggle,
             tog' = [tog EXCEPT ![c] = t], Reached(t.pc)
      PROVE  LimitInv'
  BY <1>0, <1>1 DEF LimitInv, KeepsLimits, Limited, Configured
<1>2. ASSUME NEW STATE outcomes, NEW pc \in Busy, NEW next \in Busy,
             ToggleCall(c, pc, outcomes, next),
             \A o \in outcomes : /\ KeepsLimits(group, o.group)
                                 /\ o.ok /\ group' = o.group => Reached(next)
      PROVE  LimitInv'
  <2>1. PICK o \in outcomes :
          /\ group' = o.group
          /\ tog' = [tog EXCEPT ![c].pc = IF o.ok THEN next ELSE "failed",
                                ![c].quota = IF pc = "create" THEN cfg.quota ELSE @]
    BY <1>2 DEF ToggleCall
  <2>2. cfg.quota \in Quota
    BY DEF TypeOK, Config
  <2> DEFINE t == [tog[c] EXCEPT !.pc = IF o.ok THEN next ELSE "failed",
                                 !.quota = IF pc = "create" THEN cfg.quota ELSE @]
  <2>3. t \in Toggle /\ tog' = [tog EXCEPT ![c] = t] /\ t.pc = IF o.ok THEN next ELSE "failed"
    BY <1>0, <2>1, <2>2 DEF Toggle, Resting
  <2>4. Reached("failed")
    BY DEF Configured
  <2>5. main' = main /\ KeepsLimits(group, group')
    BY <1>2, <2>1 DEF ToggleCall
  <2>6. Reached(t.pc)
    BY <1>2, <2>1, <2>3, <2>4
  <2> HIDE DEF t
  <2> QED
    BY <1>1, <2>3, <2>5, <2>6
<1>3. CASE Decide(c)
  <2>1. PICK t \in Toggle : tog' = [tog EXCEPT ![c] = t] /\ t.pc \in {"move", "create"}
    <3>1. [tog[c] EXCEPT !.pc = IF tog[c].target \in jail THEN "move" ELSE "create"] \in Toggle
      BY <1>0 DEF Toggle, Busy
    <3> QED
      BY <1>0, <1>3, <3>1 DEF Decide, Toggle
  <2> QED
    BY <1>1, <1>3, <2>1 DEF Decide, KeepsLimits, Configured, LimitInv
<1>4. CASE ToggleCreate(c)
  <2>1. \A o \in CreateProcessGroup(group, Faulty) :
          KeepsLimits(group, o.group) /\ (o.ok => o.group.exists)
    BY <1>0, CallsKeepLimits, GroupIsMade
  <2> QED
    BY <1>2, <1>4, <2>1 DEF ToggleCreate, Busy, Configured
<1>5. CASE ToggleSetCpu(c)
  <2>1. \A o \in SetGroupRow(group, "cpu", tog[c].quota, Faulty) :
          KeepsLimits(group, o.group) /\ (o.ok => o.group.exists /\ o.group.cpu # NoLimit)
    BY <1>0, CallsKeepLimits, RowIsSet DEF Rows
  <2> QED
    BY <1>2, <1>5, <2>1 DEF ToggleSetCpu, Busy, Configured
<1>6. CASE ToggleSetMem(c)
  <2>1. \A o \in SetGroupRow(group, "mem", tog[c].quota, Faulty) :
          KeepsLimits(group, o.group) /\ (o.ok => o.group.exists /\ o.group.mem # NoLimit)
    BY <1>0, CallsKeepLimits, RowIsSet DEF Rows
  <2>2. main # "returned" => group.exists /\ group.cpu # NoLimit
    BY <1>6 DEF ToggleSetMem, ToggleCall, LimitInv, Configured
  <2> QED
    BY <1>2, <1>6, <2>1, <2>2 DEF ToggleSetMem, Busy, Configured, KeepsLimits, Limited
<1>7. CASE ToggleAdd(c)
  <2>1. tog[c].pc = "add" /\ Head(tog[c].queue) \in Pid
    BY <1>0, <1>7 DEF ToggleAdd, Busy
  <2>2. \A o \in AddProcessToGroup(group, Head(tog[c].queue), alive, Faulty) :
          KeepsLimits(group, o.group)
    BY <1>0, <2>1, CallsKeepLimits
  <2>3. main # "returned" => Limited(group)
    BY <2>1 DEF LimitInv
  <2> QED
    BY <1>2, <1>7, <2>2, <2>3 DEF ToggleAdd, Busy, Configured, KeepsLimits, Limited
<1>8. CASE ToggleMove(c)
  <2>1. tog[c].pc = "move" /\ Head(tog[c].queue) \in Pid
    BY <1>0, <1>8 DEF ToggleMove, Busy
  <2>2. \A o \in MoveProcessToRootGroup(group, Head(tog[c].queue), alive, Faulty) :
          KeepsLimits(group, o.group)
    BY <1>0, <2>1, CallsKeepLimits
  <2> QED
    BY <1>2, <1>8, <2>2 DEF ToggleMove, Busy, Configured
<1>9. CASE ToggleMark(c)
  <2>1. /\ main' = main /\ group' = group /\ tog[c].pc = "mark"
        /\ \A d \in Clients \ {c} : tog'[d] = tog[d]
        /\ tog'[c].pc \in {"add", "jailed"}
    BY <1>0, <1>9 DEF ToggleMark, ToggleMarker, Toggle
  <2> QED
    BY <2>1 DEF LimitInv, Configured, Limited
<1>10. CASE ToggleUnmark(c)
  <2>1. /\ main' = main /\ group' = group
        /\ \A d \in Clients \ {c} : tog'[d] = tog[d]
        /\ tog'[c].pc \in {"move", "released"}
    BY <1>0, <1>10 DEF ToggleUnmark, ToggleMarker, Toggle
  <2> QED
    BY <2>1 DEF LimitInv, Configured, Limited
<1> QED
  BY <1>3, <1>4, <1>5, <1>6, <1>7, <1>8, <1>9, <1>10 DEF Toggler

LEMMA LimitOutside == TypeOK /\ LimitInv /\ (WatchConfig \/ Outside) => LimitInv'
<1> SUFFICES ASSUME TypeOK, LimitInv, WatchConfig \/ Outside PROVE LimitInv'
  OBVIOUS
<1>0. group \in Group /\ tog \in [Clients -> Toggle] /\ KeepsLimits(group, group)
  BY DEF TypeOK, KeepsLimits
<1>1. CASE WatchConfig \/ Signal \/ \E f \in Files : Edit(f)
  BY <1>0, <1>1, LimitStutter DEF WatchConfig, Signal, Edit
<1>2. ASSUME NEW p \in Pid, Exit(p) PROVE LimitInv'
  <2>1. KeepsLimits(group, group')
    BY <1>0, <1>2 DEF Exit, KeepsLimits, Group
  <2> QED
    BY <1>2, <2>1, LimitStutter DEF Exit
<1>3. ASSUME NEW p \in Pid, NEW child \in Pid, Fork(p, child) PROVE LimitInv'
  <2>1. KeepsLimits(group, group')
    BY <1>0, <1>3 DEF Fork, KeepsLimits, Group
  <2> QED
    BY <1>3, <2>1, LimitStutter DEF Fork
<1>4. ASSUME NEW c \in Clients, NEW p \in Pid, Request(c, p) PROVE LimitInv'
  <2>1. /\ main' = main /\ group' = group
        /\ \A d \in Clients \ {c} : tog'[d] = tog[d]
        /\ tog'[c].pc \in {"decide", "failed"}
    BY <1>0, <1>4 DEF Request, IdleToggle
  <2> QED
    BY <2>1 DEF LimitInv, Configured, Limited
<1>5. CASE Start
  BY <1>5 DEF Start, LimitInv, Configured, Limited, Running, Enforcing, Stopping
<1>6. CASE ProcessEnds
  <2>1. main' = "down" /\ \A c \in Clients : tog'[c].pc = "idle"
    BY <1>6 DEF ProcessEnds, IdleToggle
  <2> QED
    BY <2>1 DEF LimitInv, Configured, Running, Enforcing, Stopping
<1> QED
  BY <1>1, <1>2, <1>3, <1>4, <1>5, <1>6 DEF Outside

LEMMA LimitInvariant == Spec => []LimitInv
<1>1. Init => LimitInv
  BY DEF Init, LimitInv, Configured, Running, Enforcing, Stopping, IdleToggle
<1>2. TypeOK /\ LimitInv /\ [Next]_vars => LimitInv'
  <2>1. TypeOK /\ LimitInv /\ UNCHANGED vars => LimitInv'
    BY DEF vars, LimitInv, Configured, Limited
  <2> QED
    BY <2>1, LimitMain, LimitToggler, LimitOutside DEF Next
<1> QED
  BY <1>1, <1>2, TypeCorrect, PTL DEF Spec

\* While the loop enforces or stops, and while any toggle jails before Run has
\* returned, the group exists with both limits set.
THEOREM EnforcedIsLimited == Spec => []EnforcedGroupIsLimited
<1>1. LimitInv => EnforcedGroupIsLimited
  BY DEF LimitInv, EnforcedGroupIsLimited
<1> QED
  BY <1>1, LimitInvariant, PTL

(***************************************************************************)
(* run: false is final.  The watcher ends with the read that set it.       *)
(***************************************************************************)
WatchInv == main # "down" /\ ~cfg.run => ~watcher

\* Only the watcher and the start of a daemon change the configuration.
LEMMA ConfigChanges ==
    Next => UNCHANGED <<cfg, watcher>> \/ WatchConfig \/ Start \/ ProcessEnds
BY DEF Next, Main, Configure, CreateGroup, SetLimit, BeginStop, Scan, EndApply, EndTick,
       ApplyLimits, CleanupInactive, Release, AddMember, MarkMember, Unmark, EndRelease,
       DeleteGroup, Toggler, Decide, ToggleCreate, ToggleSetCpu, ToggleSetMem, ToggleAdd,
       ToggleMove, ToggleCall, ToggleMark, ToggleUnmark, ToggleMarker,
       Outside, Exit, Fork, Edit, Request, Signal

\* Nothing but Start leaves "down".
LEMMA DownStaysDown == Next /\ main = "down" => main' = "down" \/ Start
BY DEF Next, Main, Configure, CreateGroup, SetLimit, BeginStop, Scan, EndApply, EndTick,
       ApplyLimits, CleanupInactive, Release, AddMember, MarkMember, Unmark, EndRelease,
       DeleteGroup, Toggler, Decide, ToggleCreate, ToggleSetCpu, ToggleSetMem, ToggleAdd,
       ToggleMove, ToggleCall, ToggleMark, ToggleUnmark, ToggleMarker, WatchConfig,
       Outside, Exit, Fork, Edit, Request, Signal, ProcessEnds

LEMMA WatchInvariant == Spec => []WatchInv
<1>1. Init => WatchInv
  BY DEF Init, WatchInv
<1>2. WatchInv /\ [Next]_vars => WatchInv'
  <2> SUFFICES ASSUME WatchInv, [Next]_vars PROVE WatchInv'
    OBVIOUS
  <2>1. CASE UNCHANGED vars
    BY <2>1 DEF vars, WatchInv
  <2>2. CASE Next /\ UNCHANGED <<cfg, watcher>>
    BY <2>2, DownStaysDown DEF WatchInv, Start
  <2>3. CASE WatchConfig
    BY <2>3 DEF WatchConfig, WatchInv
  <2>4. CASE Start
    BY <2>4 DEF Start, WatchInv
  <2>5. CASE ProcessEnds
    BY <2>5 DEF ProcessEnds, WatchInv
  <2> QED
    BY <2>1, <2>2, <2>3, <2>4, <2>5, ConfigChanges
<1> QED
  BY <1>1, <1>2, PTL DEF Spec

\* Once the daemon has read run: false it never takes a running configuration.
THEOREM OffStaysOff == Spec => OffIsFinal
<1>1. WatchInv /\ [Next]_vars => [main # "down" /\ main' # "down" /\ ~cfg.run => ~cfg'.run]_vars
  <2> SUFFICES ASSUME WatchInv, Next, main # "down", main' # "down", ~cfg.run PROVE ~cfg'.run
    OBVIOUS
  <2>1. CASE UNCHANGED <<cfg, watcher>>
    BY <2>1
  <2>2. CASE WatchConfig
    BY <2>2 DEF WatchConfig, WatchInv
  <2>3. CASE Start
    BY <2>3 DEF Start
  <2>4. CASE ProcessEnds
    BY <2>4 DEF ProcessEnds
  <2> QED
    BY <2>1, <2>2, <2>3, <2>4, ConfigChanges
<1> QED
  BY <1>1, WatchInvariant, PTL DEF Spec, OffIsFinal

(***************************************************************************)
(* A toggle flips its target's marker last: what is left of its queue      *)
(* always ends in the target, which occurs nowhere else in it.             *)
(***************************************************************************)
\* q is a list of distinct processes that ends in p.
EndsIn(q, p) ==
    /\ Len(q) \in Nat \ {0} /\ q[Len(q)] = p
    /\ \A i, j \in 1..Len(q) : q[i] = q[j] => i = j

QueueInv == \A c \in Clients : tog[c].pc \in Busy => EndsIn(tog[c].queue, tog[c].target)

\* The rest of such a list is such a list, unless it is empty.
LEMMA TailEndsIn ==
    ASSUME NEW q \in Seq(Pid), NEW p, EndsIn(q, p)
    PROVE  /\ Tail(q) # <<>> => EndsIn(Tail(q), p)
           /\ Head(q) = p => Tail(q) = <<>>
<1>1. /\ q # <<>> /\ Head(q) = q[1] /\ Tail(q) \in Seq(Pid)
      /\ Len(Tail(q)) = Len(q) - 1
      /\ \A i \in 1..(Len(q) - 1) : Tail(q)[i] = q[i + 1]
  BY DEF EndsIn
<1>2. ASSUME Tail(q) # <<>> PROVE EndsIn(Tail(q), p)
  <2>1. Len(Tail(q)) # 0
    BY <1>1, <1>2
  <2>2. Len(q) - 1 \in 1..(Len(q) - 1) /\ Tail(q)[Len(q) - 1] = q[Len(q)]
    BY <1>1, <2>1 DEF EndsIn
  <2>3. ASSUME NEW i \in 1..(Len(q) - 1), NEW j \in 1..(Len(q) - 1), Tail(q)[i] = Tail(q)[j]
        PROVE  i = j
    <3>1. q[i + 1] = q[j + 1] /\ i + 1 \in 1..Len(q) /\ j + 1 \in 1..Len(q)
      BY <1>1, <2>3 DEF EndsIn
    <3>2. i + 1 = j + 1
      BY <3>1 DEF EndsIn
    <3> QED
      BY <3>2
  <2> QED
    BY <1>1, <2>1, <2>2, <2>3 DEF EndsIn
<1>3. ASSUME Head(q) = p PROVE Tail(q) = <<>>
  <2>1. 1 = Len(q)
    BY <1>1, <1>3 DEF EndsIn
  <2>2. Len(Tail(q)) = 0
    BY <2>1, HeadTailProperties
  <2> QED
    BY <1>1, <2>2, EmptySeq
<1> QED
  BY <1>2, <1>3

\* Only the toggler itself, a new request and the end of the process touch tog.
LEMMA ToggleChanges ==
    ASSUME [Next]_vars
    PROVE  \/ tog' = tog
           \/ \E c \in Clients : Toggler(c) \/ \E p \in Pid : Request(c, p)
           \/ ProcessEnds
BY DEF Next, Main, Configure, CreateGroup, SetLimit, BeginStop, Scan, EndApply, EndTick,
       ApplyLimits, CleanupInactive, Release, AddMember, MarkMember, Unmark, EndRelease,
       DeleteGroup, WatchConfig, Outside, Exit, Fork, Edit, Start, Signal, vars

\* A step of a toggler leaves the other calls and its own target alone; it
\* either keeps its queue, or takes the head off it at the marker.
LEMMA TogglerSteps ==
    ASSUME TypeOK, NEW c \in Clients, Toggler(c)
    PROVE  /\ \A d \in Clients \ {c} : tog'[d] = tog[d]
           /\ tog'[c].target = tog[c].target
           /\ tog[c].pc \in Busy
           /\ \/ tog'[c].queue = tog[c].queue /\ (tog[c].pc \in {"mark", "unmark"} => FALSE)
              \/ /\ tog[c].pc \in {"mark", "unmark"}
                 /\ tog'[c].queue = Tail(tog[c].queue)
                 /\ tog'[c].pc \in IF Tail(tog[c].queue) = <<>>
                                   THEN {"jailed", "released"} ELSE {"add", "move"}
                 /\ jail' \in {jail \cup {Head(tog[c].queue)}, jail \ {Head(tog[c].queue)}}
<1>0. tog \in [Clients -> Toggle] /\ tog[c] \in Toggle
  BY DEF TypeOK
<1>1. CASE Decide(c)
  BY <1>0, <1>1 DEF Decide, Toggle, Busy
<1>2. CASE ToggleCreate(c)
  BY <1>0, <1>2 DEF ToggleCreate, ToggleCall, Toggle, Busy
<1>3. CASE ToggleSetCpu(c)
  BY <1>0, <1>3 DEF ToggleSetCpu, ToggleCall, Toggle, Busy
<1>4. CASE ToggleSetMem(c)
  BY <1>0, <1>4 DEF ToggleSetMem, ToggleCall, Toggle, Busy
<1>5. CASE ToggleAdd(c)
  BY <1>0, <1>5 DEF ToggleAdd, ToggleCall, Toggle, Busy
<1>6. CASE ToggleMove(c)
  BY <1>0, <1>6 DEF ToggleMove, ToggleCall, Toggle, Busy
<1>7. CASE ToggleMark(c)
  BY <1>0, <1>7 DEF ToggleMark, ToggleMarker, Toggle, Busy
<1>8. CASE ToggleUnmark(c)
  BY <1>0, <1>8 DEF ToggleUnmark, ToggleMarker, Toggle, Busy
<1> QED
  BY <1>1, <1>2, <1>3, <1>4, <1>5, <1>6, <1>7, <1>8 DEF Toggler

LEMMA QueueInvariant == Spec => []QueueInv
<1>1. Init => QueueInv
  BY DEF Init, QueueInv, IdleToggle, Busy
<1>2. TypeOK /\ QueueInv /\ [Next]_vars => QueueInv'
  <2> SUFFICES ASSUME TypeOK, QueueInv, [Next]_vars PROVE QueueInv'
    OBVIOUS
  <2>1. CASE tog' = tog
    BY <2>1 DEF QueueInv
  <2>2. ASSUME NEW c \in Clients, Toggler(c) PROVE QueueInv'
    <3>1. EndsIn(tog[c].queue, tog[c].target) /\ tog[c].queue \in Seq(Pid)
      BY <2>2, TogglerSteps DEF QueueInv, TypeOK, Toggle
    <3>2. tog'[c].pc \in Busy => EndsIn(tog'[c].queue, tog'[c].target)
      BY <2>2, <3>1, TogglerSteps, TailEndsIn DEF Busy
    <3> QED
      BY <2>2, <3>2, TogglerSteps DEF QueueInv
  <2>3. ASSUME NEW c \in Clients, NEW p \in Pid, Request(c, p) PROVE QueueInv'
    <3>1. \A d \in Clients \ {c} : tog'[d] = tog[d]
      BY <2>3 DEF Request, TypeOK
    <3>2. \A q \in PostOrders(p) : EndsIn(q, p)
      BY PostOrderType DEF EndsIn, TypeOK
    <3>3. tog'[c].pc \in Busy => EndsIn(tog'[c].queue, tog'[c].target)
      <4>1. CASE \E q \in PostOrders(p) :
              tog' = [tog EXCEPT ![c] = [IdleToggle EXCEPT !.pc = "decide", !.target = p, !.queue = q]]
        BY <3>2, <4>1 DEF TypeOK, IdleToggle
      <4>2. CASE tog' = [tog EXCEPT ![c] = [IdleToggle EXCEPT !.pc = "failed", !.target = p]]
        <5>1. tog'[c].pc = "failed"
          BY <4>2 DEF TypeOK, IdleToggle
        <5> QED
          BY <5>1 DEF Busy
      <4> QED
        BY <2>3, <4>1, <4>2 DEF Request
    <3> QED
      BY <3>1, <3>3 DEF QueueInv
  <2>4. CASE ProcessEnds
    BY <2>4 DEF ProcessEnds, QueueInv, IdleToggle, Busy
  <2> QED
    BY <2>1, <2>2, <2>3, <2>4, ToggleChanges
<1> QED
  BY <1>1, <1>2, TypeCorrect, PTL DEF Spec

\* A toggle flips the marker of the process it was asked for only in its last
\* step, so one that fails half-way can be tried again in the same direction.
THEOREM TargetLast == Spec => TargetFlipsLast
<1> DEFINE Flips(c) ==
      /\ tog[c].pc \in {"mark", "unmark"} /\ tog'[c] # tog[c] /\ main' # "down"
      /\ (tog[c].target \in jail) # (tog[c].target \in jail')
<1>1. ASSUME TypeOK, QueueInv, [Next]_vars, NEW c \in Clients, Flips(c)
      PROVE  tog'[c].pc \in {"jailed", "released"}
  <2>1. Toggler(c)
    <3>1. ~ProcessEnds
      BY <1>1 DEF ProcessEnds
    <3>2. ASSUME NEW d \in Clients, NEW p \in Pid, Request(d, p) PROVE FALSE
      BY <1>1, <3>2 DEF Request, Resting, TypeOK
    <3>3. ASSUME NEW d \in Clients, Toggler(d), d # c PROVE FALSE
      BY <1>1, <3>3, TogglerSteps
    <3> QED
      BY <1>1, <3>1, <3>2, <3>3, ToggleChanges
  <2>2. EndsIn(tog[c].queue, tog[c].target) /\ tog[c].queue \in Seq(Pid)
    BY <1>1 DEF QueueInv, TypeOK, Toggle, Busy
  <2>3. jail' \in {jail \cup {Head(tog[c].queue)}, jail \ {Head(tog[c].queue)}}
    BY <1>1, <2>1, TogglerSteps
  <2>4. Head(tog[c].queue) = tog[c].target
    BY <1>1, <2>3
  <2> QED
    BY <1>1, <2>1, <2>2, <2>4, TogglerSteps, TailEndsIn
<1>2. TypeOK /\ QueueInv /\ [Next]_vars =>
        [\A c \in Clients : Flips(c) => tog'[c].pc \in {"jailed", "released"}]_vars
  BY <1>1
<1> QED
  BY <1>2, TypeCorrect, QueueInvariant, PTL DEF Spec, TargetFlipsLast

(***************************************************************************)
(* A daemon that nobody toggles.  A toggle can make the group again after  *)
(* stop has deleted it, so the following two hold only without clients.    *)
(***************************************************************************)
\* Steps that neither touch the group nor reach the end of Run.
LEMMA QuietSteps ==
    ASSUME [Next]_vars, Clients = {}
    PROVE  \/ group' = group /\ (main' = "returned" => main = "returned" /\ failed' = failed)
           \/ Configure \/ AddMember \/ DeleteGroup
           \/ \E p \in Pid : Release(p) \/ Exit(p) \/ \E q \in Pid : Fork(p, q)
BY DEF Next, Main, BeginStop, Scan, EndApply, EndTick, ApplyLimits, CleanupInactive, MarkMember,
       Unmark, EndRelease, WatchConfig, Outside, Edit, Start, Signal, ProcessEnds, vars

\* When Run returns nil after a stop on plain cgroups, the group is gone and
\* holds nobody.
THEOREM CleanStop ==
    ASSUME Clients = {}, Backend = "cgroup" PROVE Spec => []CleanStopLeavesNoGroup
<1>1. Init => CleanStopLeavesNoGroup
  BY DEF Init, CleanStopLeavesNoGroup
<1>2. TypeOK /\ CleanStopLeavesNoGroup /\ [Next]_vars => CleanStopLeavesNoGroup'
  <2> SUFFICES ASSUME TypeOK, CleanStopLeavesNoGroup, [Next]_vars PROVE CleanStopLeavesNoGroup'
    OBVIOUS
  <2> USE DEF CleanStopLeavesNoGroup
  <2>0. group \in Group
    BY DEF TypeOK
  <2>1. CASE group' = group /\ (main' = "returned" => main = "returned" /\ failed' = failed)
    BY <2>1
  <2>2. CASE Configure
    BY <2>2 DEF Configure, CreateGroup, SetLimit
  <2>3. CASE AddMember
    BY <2>3 DEF AddMember
  <2>4. CASE DeleteGroup
    <3>1. \A o \in DeleteProcessGroup(group, Faulty) : o.ok => o.group = AbsentGroup
      BY DEF DeleteProcessGroup, RemoveDirectory, Returns
    <3>2. PICK o \in DeleteProcessGroup(group, Faulty) :
            group' = o.group /\ failed' = (failed \/ ~o.ok)
      BY <2>4 DEF DeleteGroup
    <3>3. CASE o.ok
      <4>1. ~group'.exists /\ group'.members = {}
        BY <3>1, <3>2, <3>3 DEF AbsentGroup
      <4> QED
        BY <4>1
    <3>4. CASE ~o.ok
      <4>1. failed'
        BY <3>2, <3>4
      <4> QED
        BY <4>1
    <3> QED
      BY <3>3, <3>4
  <2>5. ASSUME NEW p \in Pid, Release(p) PROVE CleanStopLeavesNoGroup'
    BY <2>5 DEF Release
  <2>6. ASSUME NEW p \in Pid, Exit(p) PROVE CleanStopLeavesNoGroup'
    BY <2>0, <2>6 DEF Exit, Group
  <2>7. ASSUME NEW p \in Pid, NEW q \in Pid, Fork(p, q) PROVE CleanStopLeavesNoGroup'
    BY <2>7 DEF Fork
  <2> QED
    BY <2>1, <2>2, <2>3, <2>4, <2>5, <2>6, <2>7, QuietSteps
<1> QED
  BY <1>1, <1>2, TypeCorrect, PTL DEF Spec

\* Whoever is in the group is limited, from the first start through stops,
\* crashes and restarts.
THEOREM LoneMembersLimited ==
    ASSUME Clients = {} PROVE Spec => []MembersAreLimited
<1>1. Init => MembersAreLimited
  BY DEF Init, MembersAreLimited, AbsentGroup
<1>2. TypeOK /\ LimitInv /\ MembersAreLimited /\ [Next]_vars => MembersAreLimited'
  <2> SUFFICES ASSUME TypeOK, LimitInv, MembersAreLimited, [Next]_vars PROVE MembersAreLimited'
    OBVIOUS
  <2> USE DEF MembersAreLimited
  <2>0. group \in Group /\ Faulty \in BOOLEAN /\ quota \in Quota /\ alive \subseteq Pid
    BY DEF TypeOK, Faulty
  \* A call that brings nobody in keeps the property with the limits.
  <2>1. ASSUME KeepsLimits(group, group'), group'.members \subseteq group.members
        PROVE  MembersAreLimited'
    BY <2>1 DEF KeepsLimits, Limited
  <2>2. CASE Configure
    <3>1. \/ \E o \in CreateProcessGroup(group, Faulty) : group' = o.group
          \/ \E row \in Rows : \E o \in SetGroupRow(group, row, quota, Faulty) : group' = o.group
      BY <2>2 DEF Configure, CreateGroup, SetLimit, Rows
    <3>2. KeepsLimits(group, group')
      BY <2>0, <3>1, CallsKeepLimits
    <3>3. Ensured(group).members \subseteq group.members
      BY DEF Ensured, NewGroup, AbsentGroup
    <3>4. \A row \in Rows : [Ensured(group) EXCEPT ![row] = quota].members = Ensured(group).members
      BY DEF Rows, Ensured, NewGroup, AbsentGroup, Group
    <3>5. \/ group' \in {group, Ensured(group)}
          \/ \E row \in Rows : group' = [Ensured(group) EXCEPT ![row] = quota]
      BY <3>1 DEF CreateProcessGroup, SetGroupRow, Returns
    <3>6. group'.members \subseteq group.members
      BY <3>3, <3>4, <3>5
    <3> QED
      BY <2>1, <3>2, <3>6
  <2>3. CASE AddMember
    <3>1. Head(queue) \in Pid /\ Limited(group)
      BY <2>3 DEF AddMember, TypeOK, LimitInv, Running, Enforcing
    <3>2. KeepsLimits(group, group')
      BY <2>0, <2>3, <3>1, CallsKeepLimits DEF AddMember
    <3> QED
      BY <3>1, <3>2 DEF KeepsLimits, Limited
  <2>4. CASE DeleteGroup
    <3>1. \A o \in DeleteProcessGroup(group, Faulty) : o.group \in {group, AbsentGroup}
      BY DEF DeleteProcessGroup, RemoveDirectory, deleteSystemdUnit, Returns
    <3> QED
      BY <2>4, <3>1 DEF DeleteGroup, AbsentGroup
  <2>5. ASSUME NEW p \in Pid, Release(p) PROVE MembersAreLimited'
    <3>1. KeepsLimits(group, group')
      BY <2>0, <2>5, CallsKeepLimits DEF Release
    <3>2. group'.members \subseteq group.members
      BY <2>0, <2>5 DEF Release, MoveProcessToRootGroup, Returns, Group
    <3> QED
      BY <2>1, <3>1, <3>2
  <2>6. ASSUME NEW p \in Pid, Exit(p) PROVE MembersAreLimited'
    BY <2>0, <2>6 DEF Exit, Group, Limited
  <2>7. ASSUME NEW p \in Pid, NEW q \in Pid, Fork(p, q) PROVE MembersAreLimited'
    BY <2>0, <2>7 DEF Fork, Group, Limited
  <2> QED
    BY <2>2, <2>3, <2>4, <2>5, <2>6, <2>7, QuietSteps DEF Limited
<1> QED
  BY <1>1, <1>2, TypeCorrect, LimitInvariant, PTL DEF Spec
=============================================================================
