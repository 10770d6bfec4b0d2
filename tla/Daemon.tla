------------------------------- MODULE Daemon -------------------------------
(***************************************************************************)
(* awesomerd: the enforcement loop, the config watcher and the manual      *)
(* toggles that arrive over the socket, run as concurrent actors over      *)
(* the kernel's process table and one resource group.                      *)
(*                                                                         *)
(* Every call into the kernel or systemd, every locked access to the       *)
(* shared jail table and every read of the configuration is a step of its  *)
(* own, so that everything the locks allow to happen in between does.      *)
(* What is measured (CPU%, memory%) is abstracted to the set of processes  *)
(* a scan finds over the limits; process names to the set of processes a   *)
(* configuration's whitelist names.                                        *)
(***************************************************************************)
EXTENDS Cgroups, ProcessTree

CONSTANTS
    NoPid,              \* the parent of a process that has none here (init)
    InitParent,         \* the parent of each process that runs at first, by Pid
    InitAlive,          \* the processes that run at first
    IgnoredPids,        \* the processes with a PID below ignoredPIDLimit
    Hogs,               \* processes over the limits in every scan that sees them
    Clients,            \* concurrent callers of ToggleProcessJail
    violationThreshold,
    Missing, Empty, Invalid,   \* a config.yaml that is absent, empty, no YAML
    Files,              \* the contents config.yaml may have
    DefaultConfig,      \* what an empty config.yaml means
    Environment         \* what the environment may do: a subset of Events

Events == {"exit", "fork", "edit", "signal", "crash",
           "callError", "scanError", "scanMiss", "treeError"}

\* A configuration, reduced to what changes the daemon's control: one quota
\* stands for the pair CPUQuota, RAMQuota read together.
Config == [run : BOOLEAN, quota : Quota, whitelist : SUBSET Pid]

Unreadable == {Missing, Invalid}
Content    == Config \cup Unreadable \cup {Empty}

ASSUME ConstantsAssumption ==
    /\ NoPid \notin Pid
    /\ IsFiniteSet(Pid)
    /\ InitAlive \subseteq Pid
    /\ InitParent \in [Pid -> Pid \cup {NoPid}]
    /\ IgnoredPids \subseteq Pid
    /\ Hogs \subseteq Pid
    /\ violationThreshold \in Nat \ {0}
    /\ Config \cap {Missing, Empty, Invalid} = {}
    /\ Empty \notin Unreadable
    /\ Files \subseteq Content
    /\ DefaultConfig \in Config
    /\ DefaultConfig.run
    /\ Environment \subseteq Events

VARIABLES
    alive, ppid,    \* the kernel's process table
    group,          \* the resource group processJail
    file,           \* the contents of config.yaml
    cfg,            \* d.cfg, guarded by d.mu
    jail,           \* api.jail, guarded by its own lock
    watcher,        \* whether realTimeReadConfig is still polling
    signalled,      \* whether the signal context is cancelled
    main,           \* where Run is
    active,         \* the PIDs of the tick's snapshot (activePIDs)
    todo,           \* suspects not looked at yet; in stop, markers not released yet
    queue,          \* members of the tree being jailed; in stop, the one released
    quota,          \* configureGroup's snapshot of the configuration
    violations,     \* violation counters, 0 for no entry
    failed,         \* Run's error, once it has one
    tog             \* for each client, its call of ToggleProcessJail

kernel == <<alive, ppid>>
tick   == <<active, todo, queue, violations>>
vars   == <<alive, ppid, group, file, cfg, jail, watcher, signalled, main,
            active, todo, queue, quota, violations, failed, tog>>

Enforcing == {"loop", "apply", "add", "mark", "cleanup"}
Stopping  == {"release", "unmark", "delete"}
MainPC    == {"down", "create", "setCpu", "setMem", "returned"} \cup Enforcing \cup Stopping

Busy    == {"decide", "create", "setCpu", "setMem", "add", "mark", "move", "unmark"}
Resting == {"idle", "jailed", "released", "failed"}

Toggle == [pc : Busy \cup Resting, target : Pid \cup {NoPid},
           queue : Seq(Pid), quota : Quota]

Faulty == "callError" \in Environment      \* may a call fail for its own reasons

(***************************************************************************)
(* The process table                                                       *)
(***************************************************************************)
Subtree(root) == TreeOf(root, alive, ppid)

\* Mutant: the root before its descendants.
PreOrders(root)  == WalksFromRoot(root, alive, ppid)
PostOrders(root) == Walks(root, alive, ppid)

Orphaned(K) == Reparented(ppid, K, NoPid)

Exit(p) ==
    /\ "exit" \in Environment
    /\ p \in alive
    /\ alive' = alive \ {p}
    /\ ppid' = Orphaned({p})
    /\ group' = [group EXCEPT !.members = @ \ {p}]
    /\ UNCHANGED <<file, cfg, jail, watcher, signalled, main, tick, quota, failed, tog>>

\* A child starts in its parent's group.  Its PID may be one that was used before.
Fork(parent, child) ==
    /\ "fork" \in Environment
    /\ parent \in alive /\ child \in Pid \ alive
    /\ alive' = alive \cup {child}
    /\ ppid' = [ppid EXCEPT ![child] = parent]
    /\ group' = IF parent \in group.members
                THEN [group EXCEPT !.members = @ \cup {child}] ELSE group
    /\ UNCHANGED <<file, cfg, jail, watcher, signalled, main, tick, quota, failed, tog>>

(***************************************************************************)
(* Configuration                                                           *)
(***************************************************************************)
\* An empty file means the defaults.
ReadConfig(f) == IF f = Empty THEN DefaultConfig ELSE f

Edit(f) ==
    /\ "edit" \in Environment
    /\ file' = f
    /\ UNCHANGED <<kernel, group, cfg, jail, watcher, signalled, main, tick, quota, failed, tog>>

\* Mutant: the watcher goes on after run: false.
WatchForever ==
    /\ watcher /\ ~signalled /\ main # "returned"
    /\ file \notin Unreadable
    /\ cfg' = ReadConfig(file)
    /\ UNCHANGED <<kernel, group, file, jail, watcher, signalled, main, tick, quota, failed, tog>>

\* One poll of realTimeReadConfig.  A file it cannot read changes nothing; one
\* that says run: false is its last.
WatchConfig ==
    /\ watcher /\ ~signalled /\ main # "returned"
    /\ file \notin Unreadable
    /\ cfg' = ReadConfig(file)
    /\ watcher' = cfg'.run
    /\ UNCHANGED <<kernel, group, file, jail, signalled, main, tick, quota, failed, tog>>

(***************************************************************************)
(* Life of the process                                                     *)
(***************************************************************************)
\* runApp: a missing file is created empty; an unreadable one, or one that
\* says run: false, keeps the daemon from starting.
Start ==
    /\ main = "down"
    /\ file # Invalid
    /\ file' = IF file = Missing THEN Empty ELSE file
    /\ cfg' = ReadConfig(file')
    /\ cfg'.run
    /\ watcher' = TRUE
    /\ main' = "create"
    /\ UNCHANGED <<kernel, group, jail, signalled, tick, quota, failed, tog>>

Signal ==
    /\ "signal" \in Environment
    /\ main # "down"
    /\ signalled' = TRUE
    /\ UNCHANGED <<kernel, group, file, cfg, jail, watcher, main, tick, quota, failed, tog>>

IdleToggle == [pc |-> "idle", target |-> NoPid, queue |-> <<>>, quota |-> DefaultConfig.quota]

\* The process ends when Run has returned, or at any point if it is killed.
\* Calls in flight die with it; what was in memory is
\* forgotten, and the group and its members stay.
ProcessEnds ==
    /\ main # "down"
    /\ main = "returned" \/ "crash" \in Environment
    /\ main' = "down"
    /\ cfg' = DefaultConfig /\ jail' = {} /\ watcher' = FALSE /\ signalled' = FALSE
    /\ active' = {} /\ todo' = {} /\ queue' = <<>>
    /\ quota' = DefaultConfig.quota
    /\ violations' = [p \in Pid |-> 0]
    /\ failed' = FALSE
    /\ tog' = [c \in Clients |-> IdleToggle]
    /\ UNCHANGED <<kernel, group, file>>

(***************************************************************************)
(* configureGroup, as Run calls it.  An error makes Run return it, without *)
(* stop.                                                                   *)
(***************************************************************************)
CreateGroup ==
    /\ main = "create"
    /\ \E o \in CreateProcessGroup(group, Faulty) :
         /\ group' = o.group
         /\ failed' = ~o.ok
         /\ main' = IF o.ok THEN "setCpu" ELSE "returned"
    /\ quota' = cfg.quota
    /\ UNCHANGED <<kernel, file, cfg, jail, watcher, signalled, tick, tog>>

SetLimit(row, pc, next) ==
    /\ main = pc
    /\ \E o \in SetGroupRow(group, row, quota, Faulty) :
         /\ group' = o.group
         /\ failed' = ~o.ok
         /\ main' = IF o.ok THEN next ELSE "returned"
    /\ UNCHANGED <<kernel, file, cfg, jail, watcher, signalled, tick, quota, tog>>

(***************************************************************************)
(* The loop                                                                *)
(***************************************************************************)
\* The context, or a configuration that says run: false, ends the loop; the
\* markers to release are the ones set at this moment.
BeginStop ==
    /\ main = "loop"
    /\ signalled \/ ~cfg.run
    /\ main' = "release"
    /\ todo' = jail
    /\ UNCHANGED <<kernel, group, file, cfg, jail, watcher, signalled,
                   active, queue, quota, violations, failed, tog>>

\* A process that runs may be missing from a scan that could not read it.
Seen(procs) == procs = alive \/ ("scanMiss" \in Environment /\ procs \subseteq alive)

\* The processes a tick may act on: seen, not a low PID, not whitelisted.
Limitable(procs) == procs \ (IgnoredPids \cup cfg.whitelist)

\* The snapshot of a tick and the comparison with the limits.  A failed scan
\* is logged and the tick goes on with an empty one.
Scan ==
    /\ main = "loop"
    /\ ~signalled /\ cfg.run
    /\ \/ \E procs \in SUBSET alive :
            /\ Seen(procs)
            /\ active' = procs
            /\ \E over \in SUBSET Limitable(procs) :
                 /\ Hogs \cap Limitable(procs) \subseteq over
                 /\ todo' = over
       \/ /\ "scanError" \in Environment
          /\ active' = {} /\ todo' = {}
    /\ main' = "apply"
    /\ UNCHANGED <<kernel, group, file, cfg, jail, watcher, signalled,
                   queue, quota, violations, failed, tog>>

\* One process over the limits.  One that is in jail is passed over; any other
\* is counted (up to the threshold: higher counts behave alike), and at the
\* threshold its tree is read.
ApplyLimits(p) ==
    /\ main = "apply"
    /\ p \in todo
    /\ todo' = todo \ {p}
    /\ \/ /\ p \in jail
          /\ UNCHANGED <<main, queue, violations>>
       \/ /\ p \notin jail
          /\ violations[p] + 1 < violationThreshold
          /\ violations' = [violations EXCEPT ![p] = @ + 1]
          /\ UNCHANGED <<main, queue>>
       \/ /\ p \notin jail
          /\ violations[p] + 1 >= violationThreshold
          /\ violations' = [violations EXCEPT ![p] = violationThreshold]
          /\ \/ main' = "add" /\ queue' \in PostOrders(p)
             \/ "treeError" \in Environment /\ UNCHANGED <<main, queue>>
    /\ UNCHANGED <<kernel, group, file, cfg, jail, watcher, signalled,
                   active, quota, failed, tog>>

\* putTreeInGroup: a member that cannot be added is skipped ...
AddMember ==
    /\ main = "add"
    /\ \E o \in AddProcessToGroup(group, Head(queue), alive, Faulty) :
         /\ group' = o.group
         /\ \/ o.ok /\ main' = "mark" /\ UNCHANGED queue
            \/ /\ ~o.ok
               /\ queue' = Tail(queue)
               /\ main' = IF Tail(queue) = <<>> THEN "apply" ELSE "add"
    /\ UNCHANGED <<kernel, file, cfg, jail, watcher, signalled,
                   active, todo, quota, violations, failed, tog>>

\* Mutant: after the last member the loop still wants to add.
MarkAndAddAgain ==
    /\ main = "mark"
    /\ jail' = jail \cup {Head(queue)}
    /\ queue' = Tail(queue)
    /\ main' = "add"
    /\ UNCHANGED <<kernel, group, file, cfg, watcher, signalled,
                   active, todo, quota, violations, failed, tog>>

\* Mutant: the root of the tree is marked in place of each member.
MarkCulprit ==
    /\ main = "mark"
    /\ jail' = jail \cup {queue[Len(queue)]}
    /\ queue' = Tail(queue)
    /\ main' = IF Tail(queue) = <<>> THEN "apply" ELSE "add"
    /\ UNCHANGED <<kernel, group, file, cfg, watcher, signalled,
                   active, todo, quota, violations, failed, tog>>

\* ... and one that was added is marked, in a step of its own.
MarkMember ==
    /\ main = "mark"
    /\ jail' = jail \cup {Head(queue)}
    /\ queue' = Tail(queue)
    /\ main' = IF Tail(queue) = <<>> THEN "apply" ELSE "add"
    /\ UNCHANGED <<kernel, group, file, cfg, watcher, signalled,
                   active, todo, quota, violations, failed, tog>>

EndApply ==
    /\ main = "apply" /\ todo = {}
    /\ main' = "cleanup"
    /\ UNCHANGED <<kernel, group, file, cfg, jail, watcher, signalled,
                   tick, quota, failed, tog>>

\* Mutants: every counter is dropped; no counter is.
Counted   == {p \in Pid : violations[p] > 0}
NoneStale == {}

\* cleanupInactive looks only at the PIDs that have a counter.
Inactive == {p \in Pid : violations[p] > 0 /\ p \notin active}

CleanupInactive(p) ==
    /\ main = "cleanup"
    /\ p \in Inactive
    /\ jail' = jail \ {p}
    /\ violations' = [violations EXCEPT ![p] = 0]
    /\ UNCHANGED <<kernel, group, file, cfg, watcher, signalled, main,
                   active, todo, queue, quota, failed, tog>>

EndTick ==
    /\ main = "cleanup" /\ Inactive = {}
    /\ main' = "loop"
    /\ active' = {}
    /\ UNCHANGED <<kernel, group, file, cfg, jail, watcher, signalled,
                   todo, queue, quota, violations, failed, tog>>

(***************************************************************************)
(* stop: a process that cannot be moved keeps its marker, the first error  *)
(* is kept, and the group is deleted in any case.                          *)
(***************************************************************************)
\* Mutant: a process that cannot be moved is tried again.
ReleaseOrRetry(p) ==
    /\ main = "release"
    /\ p \in todo
    /\ \E o \in MoveProcessToRootGroup(group, p, alive, Faulty) :
         /\ group' = o.group
         /\ \/ o.ok /\ main' = "unmark" /\ queue' = <<p>> /\ todo' = todo \ {p} /\ UNCHANGED failed
            \/ ~o.ok /\ failed' = TRUE /\ UNCHANGED <<main, queue, todo>>
    /\ UNCHANGED <<kernel, file, cfg, jail, watcher, signalled,
                   active, quota, violations, tog>>

Release(p) ==
    /\ main = "release"
    /\ p \in todo
    /\ todo' = todo \ {p}
    /\ \E o \in MoveProcessToRootGroup(group, p, alive, Faulty) :
         /\ group' = o.group
         /\ \/ o.ok /\ main' = "unmark" /\ queue' = <<p>> /\ UNCHANGED failed
            \/ ~o.ok /\ failed' = TRUE /\ UNCHANGED <<main, queue>>
    /\ UNCHANGED <<kernel, file, cfg, jail, watcher, signalled,
                   active, quota, violations, tog>>

Unmark ==
    /\ main = "unmark"
    /\ jail' = jail \ {Head(queue)}
    /\ queue' = <<>>
    /\ main' = "release"
    /\ UNCHANGED <<kernel, group, file, cfg, watcher, signalled,
                   active, todo, quota, violations, failed, tog>>

\* Mutant: the group is deleted while there are markers left to release.
EndReleaseEarly ==
    /\ main = "release"
    /\ main' = "delete"
    /\ UNCHANGED <<kernel, group, file, cfg, jail, watcher, signalled,
                   tick, quota, failed, tog>>

EndRelease ==
    /\ main = "release" /\ todo = {}
    /\ main' = "delete"
    /\ UNCHANGED <<kernel, group, file, cfg, jail, watcher, signalled,
                   tick, quota, failed, tog>>

\* Mutant: a group that cannot be deleted is not an error.
DeleteGroupQuietly ==
    /\ main = "delete"
    /\ \E o \in DeleteProcessGroup(group, Faulty) :
         /\ group' = o.group
         /\ alive' = alive \ o.killed
         /\ ppid' = Orphaned(o.killed)
    /\ main' = "returned"
    /\ UNCHANGED <<file, cfg, jail, watcher, signalled, tick, quota, failed, tog>>

DeleteGroup ==
    /\ main = "delete"
    /\ \E o \in DeleteProcessGroup(group, Faulty) :
         /\ group' = o.group
         /\ alive' = alive \ o.killed
         /\ ppid' = Orphaned(o.killed)
         /\ failed' = (failed \/ ~o.ok)
    /\ main' = "returned"
    /\ UNCHANGED <<file, cfg, jail, watcher, signalled, tick, quota, tog>>

(***************************************************************************)
(* ToggleProcessJail, served in a goroutine of its own for each call.      *)
(* The tree is read first, then the marker of its root, which decides the  *)
(* direction; the first error ends the call and leaves the rest undone.    *)
(***************************************************************************)
Request(c, p) ==
    /\ main # "down"
    /\ tog[c].pc \in Resting
    /\ \/ \E q \in PostOrders(p) :
            tog' = [tog EXCEPT ![c] = [IdleToggle EXCEPT !.pc = "decide", !.target = p, !.queue = q]]
       \/ /\ "treeError" \in Environment
          /\ tog' = [tog EXCEPT ![c] = [IdleToggle EXCEPT !.pc = "failed", !.target = p]]
    /\ UNCHANGED <<kernel, group, file, cfg, jail, watcher, signalled, main, tick, quota, failed>>

Decide(c) ==
    /\ tog[c].pc = "decide"
    /\ tog' = [tog EXCEPT ![c].pc = IF tog[c].target \in jail THEN "move" ELSE "create"]
    /\ UNCHANGED <<kernel, group, file, cfg, jail, watcher, signalled, main, tick, quota, failed>>

\* A call at pc over outcomes, going on to next or failing.
ToggleCall(c, pc, outcomes, next) ==
    /\ tog[c].pc = pc
    /\ \E o \in outcomes :
         /\ group' = o.group
         /\ tog' = [tog EXCEPT ![c].pc = IF o.ok THEN next ELSE "failed",
                               ![c].quota = IF pc = "create" THEN cfg.quota ELSE @]
    /\ UNCHANGED <<kernel, file, cfg, jail, watcher, signalled, main, tick, quota, failed>>

ToggleCreate(c) == ToggleCall(c, "create", CreateProcessGroup(group, Faulty), "setCpu")
ToggleSetCpu(c) == ToggleCall(c, "setCpu", SetGroupRow(group, "cpu", tog[c].quota, Faulty), "setMem")
ToggleSetMem(c) == ToggleCall(c, "setMem", SetGroupRow(group, "mem", tog[c].quota, Faulty), "add")
ToggleAdd(c)    == /\ tog[c].pc = "add"
                   /\ ToggleCall(c, "add", AddProcessToGroup(group, Head(tog[c].queue), alive, Faulty), "mark")
ToggleMove(c)   == /\ tog[c].pc = "move"
                   /\ ToggleCall(c, "move", MoveProcessToRootGroup(group, Head(tog[c].queue), alive, Faulty), "unmark")

\* The marker of the process just moved; after the last one the call is done.
ToggleMarker(c, pc, again, done, marked) ==
    /\ tog[c].pc = pc
    /\ jail' = marked
    /\ tog' = [tog EXCEPT ![c].queue = Tail(@),
                          ![c].pc = IF Tail(tog[c].queue) = <<>> THEN done ELSE again]
    /\ UNCHANGED <<kernel, group, file, cfg, watcher, signalled, main, tick, quota, failed>>

ToggleMark(c)   == tog[c].pc = "mark" /\
                   ToggleMarker(c, "mark", "add", "jailed", jail \cup {Head(tog[c].queue)})
ToggleUnmark(c) == tog[c].pc = "unmark" /\
                   ToggleMarker(c, "unmark", "move", "released", jail \ {Head(tog[c].queue)})

(***************************************************************************)
(* The specification                                                       *)
(***************************************************************************)
Init ==
    /\ alive = InitAlive
    /\ ppid = InitParent
    /\ group = AbsentGroup
    /\ file \in Files
    /\ main = "down"
    /\ cfg = DefaultConfig /\ jail = {} /\ watcher = FALSE /\ signalled = FALSE
    /\ active = {} /\ todo = {} /\ queue = <<>>
    /\ quota = DefaultConfig.quota
    /\ violations = [p \in Pid |-> 0]
    /\ failed = FALSE
    /\ tog = [c \in Clients |-> IdleToggle]

\* Mutant: the memory limit is forgotten.
ConfigureCpuOnly == CreateGroup \/ SetLimit("cpu", "setCpu", "loop")

Configure == CreateGroup \/ SetLimit("cpu", "setCpu", "setMem") \/ SetLimit("mem", "setMem", "loop")

Main ==
    \/ Configure
    \/ BeginStop \/ Scan \/ EndApply \/ EndTick
    \/ \E p \in Pid : ApplyLimits(p) \/ CleanupInactive(p) \/ Release(p)
    \/ AddMember \/ MarkMember
    \/ Unmark \/ EndRelease \/ DeleteGroup

Toggler(c) ==
    \/ Decide(c) \/ ToggleCreate(c) \/ ToggleSetCpu(c) \/ ToggleSetMem(c)
    \/ ToggleAdd(c) \/ ToggleMark(c) \/ ToggleMove(c) \/ ToggleUnmark(c)

Outside ==
    \/ \E p \in Pid : Exit(p)
    \/ \E p, q \in Pid : Fork(p, q)
    \/ \E f \in Files : Edit(f)
    \/ \E c \in Clients, p \in Pid : Request(c, p)
    \/ Start \/ Signal \/ ProcessEnds

Next == Main \/ WatchConfig \/ (\E c \in Clients : Toggler(c)) \/ Outside

Spec == Init /\ [][Next]_vars

\* The goroutines of a running daemon are scheduled; nothing is owed by the
\* kernel, the editor, the clients or whoever starts and stops the service.
Fairness ==
    /\ WF_vars(Main)
    /\ WF_vars(WatchConfig)
    /\ \A c \in Clients : WF_vars(Toggler(c))

FairSpec == Spec /\ Fairness
=============================================================================
