---------------------------- MODULE TableHistory ----------------------------
(***************************************************************************)
(* Table with a memory of what was stored and what was drawn.              *)
(*                                                                         *)
(* Refreshes overlap: the tick re-arms itself before its refresh has run,  *)
(* and keys start more.  The event loop draws new rows in the order their  *)
(* messages come, not in the order they were stored, so the rows drawn     *)
(* last need not be the rows stored last, with which the next refresh      *)
(* compares.  That is the one way for the screen to fall behind.           *)
(***************************************************************************)
EXTENDS Table

VARIABLES
  due,     \* whose message, still on its way, carries the rows stored last
  behind   \* the rows stored last were drawn, and older ones over them

hvars == <<vars, due, behind>>

HistoryInit == Init /\ due = {} /\ behind = FALSE

Stores(c) == cmd[c].pc = "store" /\ cmd'[c].pc # "store"
Draws(c)  == cmd[c].changed /\ ~cmd'[c].changed

Remember ==
    IF \E c \in Refresh : Stores(c)
      THEN due' = {c \in Refresh : Stores(c)} /\ behind' = FALSE
    ELSE IF \E c \in Refresh : Draws(c)
      THEN /\ due' = {c \in due : ~Draws(c)}
           /\ behind' = (due = {} /\ shown' # last)
    ELSE UNCHANGED <<due, behind>>

HistorySpec == HistoryInit /\ [][Next /\ Remember]_hvars

FairSpec == HistorySpec /\ Fairness

-----------------------------------------------------------------------------
\* "Unchanged" is answered only for rows that are on the screen or on their way
\* to it, however many refreshes overlap, unless a message overtaken by a younger
\* one was drawn after it (service.go, cachedRows compares with the rows stored
\* last; update.go, dataMsg draws what comes).
UnchangedIsOnScreen ==
    [][\A c \in Refresh :
         cmd[c].pc = "compare" /\ cmd'[c].pc = "message"
           => \/ behind
              \/ cmd[c].rows = shown
              \/ \E d \in due : cmd[d].changed /\ cmd[c].rows = cmd[d].rows]_hvars

\* Once the system and the sort mode stay as they are, the table comes to show
\* them, unless every later snapshot fails, or it stays behind for good because
\* the refreshes before were drawn out of order (service.go, GetProcesses;
\* update.go, tickMsg and dataMsg).
TableCatchesUp ==
    \A p \in Procs, k \in Marks, m \in Mode :
        /\ <>[](procs = p /\ marks = k /\ mode = m)
        /\ []<>(\E c \in Refresh : cmd[c].pc = "mode")
        => <>[](shown = [mode |-> m, procs |-> p, marks |-> k]) \/ <>[]behind
=============================================================================
