-------------------------- MODULE DaemonProperties --------------------------
(***************************************************************************)
(* What awesomerd promises, and what its documentation says it promises.   *)
(***************************************************************************)
EXTENDS Daemon

Running == Enforcing \cup Stopping      \* configureGroup has succeeded

(***************************************************************************)
(* Safety                                                                  *)
(***************************************************************************)
\* Every variable stays in its set; the queues are not empty where the code
\* takes their head.
TypeOK ==
    /\ alive \subseteq Pid
    /\ ppid \in [Pid -> Pid \cup {NoPid}]
    /\ group \in Group
    /\ file \in Content
    /\ cfg \in Config
    /\ jail \subseteq Pid
    /\ watcher \in BOOLEAN /\ signalled \in BOOLEAN /\ failed \in BOOLEAN
    /\ main \in MainPC
    /\ active \subseteq Pid /\ todo \subseteq Pid
    /\ queue \in Seq(Pid)
    /\ main \in {"add", "mark", "unmark"} => queue # <<>>
    /\ quota \in Quota
    /\ violations \in [Pid -> 0..violationThreshold]
    /\ tog \in [Clients -> Toggle]
    /\ \A c \in Clients : tog[c].pc \in Busy => tog[c].queue # <<>>

\* While the loop enforces or stops, and while any toggle jails before Run has
\* returned, the group is there with both limits set, whatever the other calls
\* of configureGroup and every failed call did meanwhile (daemon.go, Run and
\* ToggleProcessJail).
EnforcedGroupIsLimited ==
    /\ main \in Running => Limited(group)
    /\ main # "returned" =>
         \A c \in Clients : tog[c].pc \in {"add", "mark"} => Limited(group)

\* Once the daemon has read run: false it never takes a running configuration
\* again, so the loop cannot miss it (daemon.go, realTimeReadConfig).
OffIsFinal ==
    [][main # "down" /\ main' # "down" /\ ~cfg.run => ~cfg'.run]_vars

\* A toggle flips the marker of the process it was asked for only in its last
\* step.  One that fails half-way leaves that marker as it was, so trying
\* again goes on in the same direction (collector.go, walkTree's order;
\* daemon.go, ToggleProcessJail).
TargetFlipsLast ==
    [][\A c \in Clients :
         LET p == tog[c].target
         IN  /\ tog[c].pc \in {"mark", "unmark"} /\ tog'[c] # tog[c] /\ main' # "down"
             /\ (p \in jail) # (p \in jail')
             => tog'[c].pc \in {"jailed", "released"}]_vars

\* Between the kernel call and the marker that follows it.
InHandoff(p) == main \in {"mark", "unmark"} /\ queue # <<>> /\ p = Head(queue)

\* The marker says where a running process is, except in the daemon's own
\* hand-off: the table of info.API against the group's members.
MarkersAgree ==
    main # "down" => \A p \in alive : InHandoff(p) \/ (p \in jail <=> p \in group.members)

\* When Run returns nil after a stop, the group is gone and nobody is left in
\* it (daemon.go, stop, on plain cgroups).
CleanStopLeavesNoGroup ==
    main = "returned" /\ ~failed => ~group.exists /\ group.members = {}

\* Removing the unit ends no process: stop has taken every one out of it
\* before (daemon.go, stop; cgroups.go, deleteSystemdUnit).
StopKillsNothing == [][main = "delete" /\ main' = "returned" => alive' = alive]_vars

\* How far Run is from the head of its loop, or from its return.
StageOf(pc) ==
    CASE pc = "create" -> 7 [] pc = "setCpu" -> 6 [] pc = "setMem" -> 5
      [] pc \in {"apply", "add", "mark"} -> 4 [] pc = "cleanup" -> 3
      [] pc \in {"release", "unmark"} -> 2 [] pc = "delete" -> 1
      [] OTHER -> 0

Stage == StageOf(main)

LeftOfTree == 2 * Len(queue) + (IF main = "add" THEN 1 ELSE 0)

\* Within a stage, first by who is left to look at, then by what is left of the
\* tree in hand, then by the counters that are stale.
Closer ==
    \/ Stage' < Stage
    \/ /\ Stage' = Stage
       /\ \/ todo' \subseteq todo /\ todo' # todo
          \/ /\ todo' = todo
             /\ \/ LeftOfTree' < LeftOfTree
                \/ queue' = queue /\ Inactive' \subseteq Inactive /\ Inactive' # Inactive

\* Every step of Run inside a tick or a stop brings it closer to the end of
\* that, and what anybody else does takes none of it back: no tick and no stop
\* goes on for ever, however many calls fail and processes come (daemon.go,
\* applyLimits, putTreeInGroup, cleanupInactive and stop).
TicksAndStopsEnd ==
    [][main \notin {"down", "loop", "returned"} =>
         Closer \/ (~Main /\ UNCHANGED <<main, active, todo, queue, violations>>)]_vars

\* A member the loop brings into the group is not on the whitelist.
WhitelistedIsNeverJailed ==
    [][\A p \in group'.members \ group.members : main = "add" => p \notin cfg.whitelist]_vars

\* stop has returned every process to the root group when it deletes the group.
EveryoneReturnedBeforeDelete == main = "delete" => group.members = {}

\* Whoever is in the group is limited.
MembersAreLimited == group.members # {} => Limited(group)

\* When no jail operation is under way, the markers and the group agree.
MarkersAgreeAtRest ==
    (main = "loop" /\ \A c \in Clients : tog[c].pc \in Resting)
      => \A p \in alive : p \in jail <=> p \in group.members

(***************************************************************************)
(* Liveness, under FairSpec                                                *)
(***************************************************************************)
\* A signal, or run: false once read, ends Run, whatever the environment does
\* (daemon.go, Run).
StopIsCarriedOut ==
    (main \in Running /\ (signalled \/ ~cfg.run)) ~> main \in {"returned", "down"}

\* A process that is over the limits in every scan, has no low PID and is not
\* whitelisted ends up in jail, unless it or the daemon ends first.
HogIsJailed ==
    \A p \in Hogs \ IgnoredPids :
        (main \in Enforcing /\ p \in alive /\ p \notin cfg.whitelist)
          ~> (p \in jail \/ p \notin alive \/ main \notin Enforcing \/ p \in cfg.whitelist)

\* A quota that stays in the daemon's configuration reaches the group.
QuotaIsApplied ==
    \A q \in Quota :
        <>[](main \in Enforcing /\ cfg.quota = q) => <>[](group.cpu = q /\ group.mem = q)

(***************************************************************************)
(* The abstract daemon                                                     *)
(***************************************************************************)
PhaseOf == CASE main = "down" -> "off"
             [] main \in Enforcing -> "enforcing"
             [] main \in Stopping -> "stopping"
             [] main = "returned" -> "done"
             [] OTHER -> "starting"

Abstract == INSTANCE Lifecycle WITH
    ByHand  <- Clients # {},
    Careful <- Backend = "cgroup",
    phase   <- PhaseOf,
    limited <- Limited(group),
    held    <- group.members,
    marked  <- jail,
    owed    <- IF main \in Stopping THEN todo ELSE {},
    sorry   <- failed

\* The daemon keeps the promises of Lifecycle: enforcement only behind both
\* limits, a stop that tries to release whoever is marked before the group
\* goes, failures that are reported, and a group that no crash changes
\* (daemon.go, Run, stop and ToggleProcessJail, all of their steps).
KeepsItsPromises == Abstract!LifecycleSpec
=============================================================================
