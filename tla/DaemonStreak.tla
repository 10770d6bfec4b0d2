---------------------------- MODULE DaemonStreak ----------------------------
(***************************************************************************)
(* History of the scans, beside the daemon: for each PID, in how many      *)
(* ticks it was over the limits since it was last missing from a snapshot. *)
(* The history observes the daemon's steps and never holds one up.         *)
(***************************************************************************)
EXTENDS DaemonProperties

VARIABLE over

UpTo(n) == IF n > violationThreshold THEN violationThreshold ELSE n

\* What a tick's snapshot says of p, which the history counts up to the threshold.
Observe ==
    over' = IF main = "loop" /\ main' = "apply"
              THEN [p \in Pid |-> IF p \notin active' THEN 0
                                 ELSE IF p \in todo' THEN UpTo(over[p] + 1) ELSE over[p]]
              ELSE IF main' = "down" THEN [p \in Pid |-> 0] ELSE over

StreakInit == Init /\ over = [p \in Pid |-> 0]
StreakSpec == StreakInit /\ [][Next /\ Observe]_<<vars, over>>

FairStreakSpec == StreakSpec /\ Fairness

\* The process whose tree the loop is jailing: post-order puts it last.
Culprit == queue[Len(queue)]
Jailing == main \in {"add", "mark"}

\* The loop jails a tree only for a PID that has been over the limits in
\* violationThreshold ticks since it last was missing from a snapshot: a PID
\* that vanished does not hand its count on (daemon.go, applyLimits and
\* cleanupInactive).
NoEarlyJail == Jailing => over[Culprit] >= violationThreshold
=============================================================================
