------------------------------- MODULE Table -------------------------------
(***************************************************************************)
(* How the process table reaches the screen: refresh commands of the TUI,  *)
(* each in a goroutine of its own, run Service.GetProcesses and send what  *)
(* they found to the event loop, which alone draws.                        *)
(*                                                                         *)
(* The rows of a table are a function of the sort mode, the snapshot of    *)
(* the processes and the markers, so that triple stands for them.  How old *)
(* a snapshot may be is the subject of module Collector; here it is read   *)
(* afresh.                                                                 *)
(***************************************************************************)
EXTENDS Naturals

CONSTANTS Refresh,       \* refresh commands that may be in flight at once
          Mode,          \* sort modes
          FirstMode,     \* "-p"
          Procs, Marks,  \* what /proc and the jail table may say
          NoRows         \* an empty table, and the cache before its first rows

ASSUME TableAssumption ==
    /\ FirstMode \in Mode
    /\ NoRows \notin [mode : Mode, procs : Procs, marks : Marks]

VARIABLES procs, marks,  \* the system
          mode,          \* s.sortProcMod, and the header the event loop has drawn
          last,          \* s.lastSortMod, s.lastStates, s.lastRows: under one lock
          cmd,           \* the refresh commands
          shown          \* the rows of m.table

system == <<procs, marks>>
vars   == <<procs, marks, mode, last, cmd, shown>>

Rows    == [mode : Mode, procs : Procs, marks : Marks]
Found   == [mode : Mode \cup {NoRows}, procs : Procs \cup {NoRows}, marks : Marks \cup {NoRows}]
PC      == {"idle", "snapshot", "mode", "marks", "compare", "store", "message"}
Command == [pc : PC, rows : Found, changed : BOOLEAN]

Idle    == [pc |-> "idle", changed |-> FALSE,
            rows |-> [mode |-> NoRows, procs |-> NoRows, marks |-> NoRows]]
Started == [Idle EXCEPT !.pc = "snapshot"]

\* The system moves on: a process starts, uses CPU, is marked ...
SystemChanges ==
    /\ procs' \in Procs /\ marks' \in Marks
    /\ UNCHANGED <<mode, last, cmd, shown>>

(***************************************************************************)
(* The event loop                                                          *)
(***************************************************************************)
\* A tick or a key that acts on a process starts a refresh.
StartRefresh(c) ==
    /\ cmd[c].pc = "idle"
    /\ cmd' = [cmd EXCEPT ![c] = Started]
    /\ UNCHANGED <<system, mode, last, shown>>

\* A sort key sets the mode and the header and starts a refresh.
SortKey(c, m) ==
    /\ cmd[c].pc = "idle"
    /\ mode' = m
    /\ cmd' = [cmd EXCEPT ![c] = Started]
    /\ UNCHANGED <<system, last, shown>>

\* dataMsg: the rows are drawn only if they changed.
Deliver(c) ==
    /\ cmd[c].pc = "message"
    /\ shown' = IF cmd[c].changed THEN cmd[c].rows ELSE shown
    /\ cmd' = [cmd EXCEPT ![c] = Idle]
    /\ UNCHANGED <<system, mode, last>>

(***************************************************************************)
(* GetProcesses                                                            *)
(***************************************************************************)
\* A failed snapshot is logged and sends no message.
Snapshot(c) ==
    /\ cmd[c].pc = "snapshot"
    /\ \/ cmd' = [cmd EXCEPT ![c].pc = "mode", ![c].rows.procs = procs]
       \/ cmd' = [cmd EXCEPT ![c] = Idle]
    /\ UNCHANGED <<system, mode, last, shown>>

\* Mutant: the markers are not asked for.
currentSortModeOnly(c) ==
    /\ cmd[c].pc = "mode"
    /\ cmd' = [cmd EXCEPT ![c].pc = "compare", ![c].rows.mode = mode]
    /\ UNCHANGED <<system, mode, last, shown>>

currentSortMode(c) ==
    /\ cmd[c].pc = "mode"
    /\ cmd' = [cmd EXCEPT ![c].pc = "marks", ![c].rows.mode = mode]
    /\ UNCHANGED <<system, mode, last, shown>>

InJail(c) ==
    /\ cmd[c].pc = "marks"
    /\ cmd' = [cmd EXCEPT ![c].pc = "compare", ![c].rows.marks = marks]
    /\ UNCHANGED <<system, mode, last, shown>>

\* Mutant: rows sorted anew from the same states count as the same rows.
cachedAnyOrder(c) ==
    /\ cmd[c].pc = "compare"
    /\ cmd' = [cmd EXCEPT ![c].pc =
                 IF last # NoRows /\ [cmd[c].rows EXCEPT !.mode = FirstMode]
                                       = [last EXCEPT !.mode = FirstMode]
                   THEN "message" ELSE "store"]
    /\ UNCHANGED <<system, mode, last, shown>>

\* Rows like the last ones are answered from the cache, unchanged.
cachedRows(c) ==
    /\ cmd[c].pc = "compare"
    /\ cmd' = [cmd EXCEPT ![c].pc = IF cmd[c].rows = last THEN "message" ELSE "store"]
    /\ UNCHANGED <<system, mode, last, shown>>

\* Mutant: new rows are stored and reported unchanged.
storeRowsQuietly(c) ==
    /\ cmd[c].pc = "store"
    /\ last' = cmd[c].rows
    /\ cmd' = [cmd EXCEPT ![c].pc = "message"]
    /\ UNCHANGED <<system, mode, shown>>

storeRows(c) ==
    /\ cmd[c].pc = "store"
    /\ last' = cmd[c].rows
    /\ cmd' = [cmd EXCEPT ![c].pc = "message", ![c].changed = TRUE]
    /\ UNCHANGED <<system, mode, shown>>

(***************************************************************************)
(* The specification                                                       *)
(***************************************************************************)
Init ==
    /\ procs \in Procs /\ marks \in Marks
    /\ mode = FirstMode
    /\ last = NoRows /\ shown = NoRows
    /\ cmd = [c \in Refresh |-> Idle]

Step(c) ==
    \/ Snapshot(c) \/ currentSortMode(c) \/ InJail(c)
    \/ cachedRows(c) \/ storeRows(c) \/ Deliver(c)

Next ==
    \/ SystemChanges
    \/ \E c \in Refresh : Step(c) \/ StartRefresh(c) \/ \E m \in Mode : SortKey(c, m)

Spec == Init /\ [][Next]_vars

\* A command that was started runs to its end, its message is handled, and
\* every tick re-arms the timer and starts a refresh.
Fairness ==
    /\ \A c \in Refresh : WF_vars(Step(c))
    /\ WF_vars(\E c \in Refresh : StartRefresh(c))

-----------------------------------------------------------------------------
\* Every variable stays in its set.
TypeOK ==
    /\ procs \in Procs /\ marks \in Marks /\ mode \in Mode
    /\ last \in Rows \cup {NoRows} /\ shown \in Rows \cup {NoRows}
    /\ cmd \in [Refresh -> Command]
=============================================================================
