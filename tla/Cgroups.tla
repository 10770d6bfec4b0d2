------------------------------ MODULE Cgroups ------------------------------
(***************************************************************************)
(* The resource group "processJail" as pkg/cgroups drives it.              *)
(*                                                                         *)
(* A group is a record: whether it exists, the two rows the program sets   *)
(* (NoLimit until it has set them) and the processes the kernel keeps in   *)
(* it.  Every function of the package becomes an operator that returns the *)
(* set of its possible outcomes: whether it reports success, the group it  *)
(* leaves, and the processes it killed.  `faulty' adds the outcomes of a   *)
(* call that fails for a reason of its own (permissions, a systemctl that  *)
(* exits non-zero).  A call that fails half-way shows both of its ends.    *)
(***************************************************************************)
EXTENDS Integers, FiniteSets

CONSTANTS Pid,      \* process identifiers
          Quota,    \* values the two rows may be given
          NoLimit,  \* a row nobody has set ("max")
          Backend   \* "cgroup" (mkdir/rmdir) or "systemd" (a transient unit)

ASSUME BackendAssumption == Backend \in {"cgroup", "systemd"}
ASSUME NoLimitAssumption == NoLimit \notin Quota

Rows == {"cpu", "mem"}                     \* cpu.max and memory.max

Group == [exists : BOOLEAN, cpu : Quota \cup {NoLimit},
          mem : Quota \cup {NoLimit}, members : SUBSET Pid]

AbsentGroup == [exists |-> FALSE, cpu |-> NoLimit, mem |-> NoLimit, members |-> {}]
NewGroup    == [AbsentGroup EXCEPT !.exists = TRUE]

Outcome == [ok : BOOLEAN, group : Group, killed : SUBSET Pid]

Returns(ok, g) == [ok |-> ok, group |-> g, killed |-> {}]

\* ensureGroupExists, and the "already there" branches of both backends.
Ensured(g) == IF g.exists THEN g ELSE NewGroup

\* os.Mkdir tolerating EEXIST, or systemd-run unless the unit is there.
CreateProcessGroup(g, faulty) ==
    {Returns(TRUE, Ensured(g))}
      \cup (IF faulty THEN {Returns(FALSE, g)} ELSE {})

\* Both backends create a missing group before they write the row.
SetGroupRow(g, row, val, faulty) ==
    {Returns(TRUE, [Ensured(g) EXCEPT ![row] = val])}
      \cup (IF faulty THEN {Returns(FALSE, g), Returns(FALSE, Ensured(g))} ELSE {})

\* Creates a missing group - without rows - and then writes cgroup.procs,
\* which the kernel refuses for a process that is gone.
AddProcessToGroup(g, pid, alive, faulty) ==
    (IF pid \in alive
       THEN {Returns(TRUE, [Ensured(g) EXCEPT !.members = @ \cup {pid}])}
       ELSE {Returns(FALSE, Ensured(g))})
      \cup (IF faulty THEN {Returns(FALSE, g), Returns(FALSE, Ensured(g))} ELSE {})

\* Writes the root cgroup.procs whether or not the process is in the group.
MoveProcessToRootGroup(g, pid, alive, faulty) ==
    (IF pid \in alive
       THEN {Returns(TRUE, [g EXCEPT !.members = @ \ {pid}])}
       ELSE {Returns(FALSE, g)})
      \cup (IF faulty THEN {Returns(FALSE, g)} ELSE {})

\* rmdir refuses a populated cgroup.
RemoveDirectory(g, faulty) ==
    (IF g.members = {} THEN {Returns(TRUE, AbsentGroup)} ELSE {Returns(FALSE, g)})
      \cup (IF faulty THEN {Returns(FALSE, g)} ELSE {})

\* systemctl stop kills whatever is still in the unit.  Its failures: `show'
\* fails, is read as "no such unit" and reported as success; `stop' fails;
\* `reset-failed' fails after the unit is gone.
deleteSystemdUnit(g, faulty) ==
    LET stopped(ok) == [ok |-> ok, group |-> AbsentGroup, killed |-> g.members]
    IN  IF ~g.exists
          THEN {Returns(TRUE, g)}
          ELSE {stopped(TRUE)}
                 \cup (IF faulty THEN {Returns(TRUE, g), Returns(FALSE, g), stopped(FALSE)}
                                 ELSE {})

DeleteProcessGroup(g, faulty) ==
    IF Backend = "cgroup" THEN RemoveDirectory(g, faulty) ELSE deleteSystemdUnit(g, faulty)

Limited(g) == g.exists /\ g.cpu # NoLimit /\ g.mem # NoLimit
=============================================================================
