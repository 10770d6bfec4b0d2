------------------------------ MODULE MCDaemon ------------------------------
(***************************************************************************)
(* Small instances of the daemon: up to four processes, one or two quotas, *)
(* at most two clients.  Process values are model values; a configuration  *)
(* file gives each instance its table of processes, its config.yaml        *)
(* contents and its environment.                                           *)
(***************************************************************************)
EXTENDS DaemonProperties

CONSTANTS r, a, b,      \* processes: a root and up to two others
          q1, q2        \* quotas

\* The table at first: r alone; r with child a; r with children a and b;
\* r with child a, and b apart.
Alone     == [p \in Pid |-> NoPid]
WithChild == [p \in Pid |-> IF p = a THEN r ELSE NoPid]
WithTwo   == [p \in Pid |-> IF p \in {a, b} THEN r ELSE NoPid]

OnlyR  == {r}
RandA  == {r, a}
RABs   == {r, a, b}

On(q, w) == [run |-> TRUE,  quota |-> q, whitelist |-> w]
Off(q)   == [run |-> FALSE, quota |-> q, whitelist |-> {}]
Default  == On(q1, {})

\* Contents of config.yaml.
OneFile     == {On(q1, {})}
AWhitelisted == {On(q1, {a})}
OnOrOff     == {On(q1, {}), Off(q1), Invalid}
TwoQuotas   == {On(q1, {}), On(q2, {})}
AbsentOrOff == {Empty, Off(q1), Missing}
EmptyOrOff  == {Empty, Off(q1)}

Exits       == {"exit", "signal", "edit"}
WideEnv     == {"exit", "fork", "edit", "crash", "callError", "scanError", "scanMiss", "treeError"}
LoneEnv     == WideEnv \cup {"signal"}
=============================================================================
