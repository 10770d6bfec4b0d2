----------------------------- MODULE TableProofs -----------------------------
(***************************************************************************)
(* Proofs about Table, for any set of refresh commands, of sort modes and  *)
(* of things the system may say.                                           *)
(***************************************************************************)
EXTENDS TableHistory, TLAPS

(***************************************************************************)
(* Types                                                                   *)
(***************************************************************************)
\* What a command has found by the time it needs it.
FoundSoFar(c) ==
    /\ cmd[c].pc \in {"mode", "marks"} => cmd[c].rows.procs \in Procs
    /\ cmd[c].pc = "marks" => cmd[c].rows.mode \in Mode
    /\ cmd[c].pc \in {"compare", "store", "message"} => cmd[c].rows \in Rows

TypeInv == TypeOK /\ \A c \in Refresh : FoundSoFar(c)

\* One command has moved, to something that is typed.
LEMMA OneMoved ==
    ASSUME TypeInv, NEW c \in Refresh, NEW x \in Command,
           cmd' = [cmd EXCEPT ![c] = x], FoundSoFar(c)'
    PROVE  cmd' \in [Refresh -> Command] /\ \A d \in Refresh : FoundSoFar(d)'
<1>1. cmd' \in [Refresh -> Command] /\ \A d \in Refresh \ {c} : cmd'[d] = cmd[d]
  BY DEF TypeInv, TypeOK
<1>2. \A d \in Refresh \ {c} : FoundSoFar(d)'
  BY <1>1 DEF TypeInv, FoundSoFar
<1>. QED BY <1>1, <1>2

LEMMA IdleIsTyped == Idle \in Command /\ Started \in Command
BY DEF Idle, Started, Command, Found, PC

LEMMA TypeInit == Init => TypeInv
BY TableAssumption, IdleIsTyped DEF Init, TypeInv, TypeOK, FoundSoFar, Idle

LEMMA TypeNext == TypeInv /\ [Next]_vars => TypeInv'
<1>. SUFFICES ASSUME TypeInv, [Next]_vars PROVE TypeInv'
  OBVIOUS
<1>. USE DEF system
<1>a. TypeOK /\ \A c \in Refresh : FoundSoFar(c) /\ cmd[c] \in Command
  BY DEF TypeInv, TypeOK
<1>1. CASE SystemChanges
  BY <1>1 DEF SystemChanges, TypeInv, TypeOK, FoundSoFar
<1>2. ASSUME NEW c \in Refresh, StartRefresh(c) \/ \E m \in Mode : SortKey(c, m) PROVE TypeInv'
  <2>1. cmd' = [cmd EXCEPT ![c] = Started]
    BY <1>2 DEF StartRefresh, SortKey
  <2>2. cmd'[c].pc = "snapshot"
    BY <2>1 DEF TypeInv, TypeOK, Started, Idle
  <2>3. FoundSoFar(c)'
    BY <2>2 DEF FoundSoFar
  <2>4. cmd' \in [Refresh -> Command] /\ \A d \in Refresh : FoundSoFar(d)'
    BY <2>1, <2>3, IdleIsTyped, OneMoved
  <2>. QED BY <1>2, <2>4 DEF StartRefresh, SortKey, TypeInv, TypeOK
<1>3. ASSUME NEW c \in Refresh, Snapshot(c) PROVE TypeInv'
  <2>1. CASE cmd' = [cmd EXCEPT ![c] = Idle]
    <3>1. FoundSoFar(c)'
      BY <2>1 DEF TypeInv, TypeOK, FoundSoFar, Idle
    <3>2. cmd' \in [Refresh -> Command] /\ \A d \in Refresh : FoundSoFar(d)'
      BY <2>1, <3>1, IdleIsTyped, OneMoved
    <3>. QED BY <1>3, <3>2 DEF Snapshot, TypeInv, TypeOK
  <2>2. CASE cmd' = [cmd EXCEPT ![c].pc = "mode", ![c].rows.procs = procs]
    <3>. DEFINE x == [cmd[c] EXCEPT !.pc = "mode", !.rows.procs = procs]
    <3>1. cmd' = [cmd EXCEPT ![c] = x]
      BY <2>2, <1>a DEF TypeOK
    <3>2. x \in Command
      BY <1>a DEF TypeOK, Command, Found, PC
    <3>3. FoundSoFar(c)'
      BY <3>1, <3>2, <1>a DEF TypeOK, FoundSoFar, Command, Found
    <3>4. cmd' \in [Refresh -> Command] /\ \A d \in Refresh : FoundSoFar(d)'
      BY <3>1, <3>2, <3>3, OneMoved
    <3>. QED BY <1>3, <3>4 DEF Snapshot, TypeInv, TypeOK
  <2>. QED BY <1>3, <2>1, <2>2 DEF Snapshot
<1>4. ASSUME NEW c \in Refresh, currentSortMode(c) PROVE TypeInv'
  <2>. DEFINE x == [cmd[c] EXCEPT !.pc = "marks", !.rows.mode = mode]
  <2>1. cmd' = [cmd EXCEPT ![c] = x]
    BY <1>4, <1>a DEF currentSortMode, TypeOK
  <2>2. x \in Command
    BY <1>a DEF TypeOK, Command, Found, PC
  <2>3. FoundSoFar(c)'
    BY <1>4, <2>1, <2>2, <1>a DEF currentSortMode, TypeOK, FoundSoFar, Command, Found
  <2>4. cmd' \in [Refresh -> Command] /\ \A d \in Refresh : FoundSoFar(d)'
    BY <2>1, <2>2, <2>3, OneMoved
  <2>. QED BY <1>4, <2>4 DEF currentSortMode, TypeInv, TypeOK
<1>5. ASSUME NEW c \in Refresh, InJail(c) PROVE TypeInv'
  <2>. DEFINE x == [cmd[c] EXCEPT !.pc = "compare", !.rows.marks = marks]
  <2>1. cmd' = [cmd EXCEPT ![c] = x]
    BY <1>5, <1>a DEF InJail, TypeOK
  <2>2. x \in Command
    BY <1>a DEF TypeOK, Command, Found, PC
  <2>3. cmd[c].rows.procs \in Procs /\ cmd[c].rows.mode \in Mode /\ cmd[c].rows \in Found
    BY <1>5, <1>a DEF InJail, FoundSoFar, Command
  <2>4. x.rows \in Rows
    BY <2>3, <1>a DEF TypeOK, Rows, Found, Command
  <2>5. FoundSoFar(c)'
    BY <2>1, <2>2, <2>4, <1>a DEF TypeOK, FoundSoFar, Command
  <2>6. cmd' \in [Refresh -> Command] /\ \A d \in Refresh : FoundSoFar(d)'
    BY <2>1, <2>2, <2>5, OneMoved
  <2>. QED BY <1>5, <2>6 DEF InJail, TypeInv, TypeOK
<1>6. ASSUME NEW c \in Refresh, cachedRows(c) PROVE TypeInv'
  <2>. DEFINE x == [cmd[c] EXCEPT !.pc = IF cmd[c].rows = last THEN "message" ELSE "store"]
  <2>1. cmd' = [cmd EXCEPT ![c] = x]
    BY <1>6, <1>a DEF cachedRows, TypeOK
  <2>2. x \in Command
    BY <1>a DEF Command, PC
  <2>3. FoundSoFar(c)'
    BY <1>6, <2>1, <2>2, <1>a DEF cachedRows, TypeOK, FoundSoFar, Command
  <2>4. cmd' \in [Refresh -> Command] /\ \A d \in Refresh : FoundSoFar(d)'
    BY <2>1, <2>2, <2>3, OneMoved
  <2>. QED BY <1>6, <2>4 DEF cachedRows, TypeInv, TypeOK
<1>7. ASSUME NEW c \in Refresh, storeRows(c) PROVE TypeInv'
  <2>. DEFINE x == [cmd[c] EXCEPT !.pc = "message", !.changed = TRUE]
  <2>1. cmd' = [cmd EXCEPT ![c] = x]
    BY <1>7, <1>a DEF storeRows, TypeOK
  <2>2. x \in Command
    BY <1>a DEF Command, PC
  <2>3. last' \in Rows
    BY <1>7, <1>a DEF storeRows, FoundSoFar
  <2>4. FoundSoFar(c)'
    BY <1>7, <2>1, <2>2, <1>a DEF storeRows, TypeOK, FoundSoFar, Command
  <2>5. cmd' \in [Refresh -> Command] /\ \A d \in Refresh : FoundSoFar(d)'
    BY <2>1, <2>2, <2>4, OneMoved
  <2>. QED BY <1>7, <2>3, <2>5 DEF storeRows, TypeInv, TypeOK
<1>8. ASSUME NEW c \in Refresh, Deliver(c) PROVE TypeInv'
  <2>1. shown' \in Rows \cup {NoRows}
    BY <1>8, <1>a DEF Deliver, FoundSoFar, TypeOK
  <2>2. FoundSoFar(c)'
    BY <1>8 DEF Deliver, TypeInv, TypeOK, FoundSoFar, Idle
  <2>3. cmd' \in [Refresh -> Command] /\ \A d \in Refresh : FoundSoFar(d)'
    BY <1>8, <2>2, IdleIsTyped, OneMoved DEF Deliver
  <2>. QED BY <1>8, <2>1, <2>3 DEF Deliver, TypeInv, TypeOK
<1>9. CASE UNCHANGED vars
  BY <1>9 DEF vars, TypeInv, TypeOK, FoundSoFar
<1>. QED BY <1>1, <1>2, <1>3, <1>4, <1>5, <1>6, <1>7, <1>8, <1>9 DEF Next, Step

\* Type correctness: what is stored and what is drawn is a whole row set, put
\* together from a mode, a snapshot and markers (service.go, GetProcesses).
THEOREM TypeCorrect == Spec => []TypeOK
<1>1. TypeInv => TypeOK
  BY DEF TypeInv
<1>. QED BY <1>1, TypeInit, TypeNext, PTL DEF Spec

(***************************************************************************)
(* What the cache knows of the screen, however many refreshes overlap      *)
(***************************************************************************)
\* The screen shows the rows stored last, or a message with them is on its way,
\* unless older rows were drawn over them.
ScreenFollowsCache ==
    /\ due \subseteq Refresh
    /\ \A c \in Refresh : cmd[c].changed => cmd[c].pc = "message"
    /\ \A c \in due : cmd[c].changed /\ cmd[c].rows = last
    /\ due = {} /\ ~behind => shown = last

LEMMA ScreenInit == HistoryInit => ScreenFollowsCache
BY DEF HistoryInit, Init, Idle, ScreenFollowsCache

\* A step that neither stores nor draws leaves the memory as it is.
LEMMA NothingToRemember ==
    ASSUME Remember, \A c \in Refresh : ~Stores(c) /\ ~Draws(c)
    PROVE  UNCHANGED <<due, behind>>
BY DEF Remember

\* What a step of one command does to the screen, the cache and the others.
LEMMA ScreenStep ==
    ASSUME TypeInv, ScreenFollowsCache, Remember, NEW c \in Refresh,
           Step(c) \/ StartRefresh(c) \/ \E m \in Mode : SortKey(c, m)
    PROVE  ScreenFollowsCache'
<1>1. cmd \in [Refresh -> Command] /\ \A d \in Refresh \ {c} : cmd'[d] = cmd[d]
  BY DEF TypeInv, TypeOK, Step, StartRefresh, SortKey, Snapshot, currentSortMode, InJail,
         cachedRows, storeRows, Deliver
\* Nobody else stores or draws.
<1>2. \A d \in Refresh \ {c} : ~Stores(d) /\ ~Draws(d)
  BY <1>1 DEF Stores, Draws
\* A command that has not stored has nothing that is due, and goes on so.
<1>3. ASSUME cmd[c].pc # "message", cmd[c].pc # "store" \/ cmd'[c].pc = "store",
             ~cmd'[c].changed, UNCHANGED <<last, shown>>
      PROVE  ScreenFollowsCache'
  <2>1. ~cmd[c].changed /\ c \notin due
    BY <1>3 DEF ScreenFollowsCache
  <2>2. \A d \in Refresh : ~Stores(d) /\ ~Draws(d)
    BY <1>2, <1>3, <2>1 DEF Stores, Draws
  <2>3. UNCHANGED <<due, behind>>
    BY <2>2, NothingToRemember
  <2>. QED BY <1>1, <1>3, <2>1, <2>3 DEF ScreenFollowsCache
<1>4. CASE StartRefresh(c) \/ \E m \in Mode : SortKey(c, m)
  <2>1. cmd[c].pc = "idle" /\ ~cmd'[c].changed /\ UNCHANGED <<last, shown>>
    BY <1>1, <1>4 DEF StartRefresh, SortKey, Started, Idle
  <2>. QED BY <1>3, <2>1
<1>5. CASE Snapshot(c) \/ currentSortMode(c) \/ InJail(c) \/ cachedRows(c)
  <2>1. cmd[c].pc \in {"snapshot", "mode", "marks", "compare"} /\ UNCHANGED <<last, shown>>
    BY <1>5 DEF Snapshot, currentSortMode, InJail, cachedRows
  <2>2. ~cmd[c].changed
    BY <2>1 DEF ScreenFollowsCache
  <2>3. ~cmd'[c].changed
    BY <1>1, <1>5, <2>2 DEF Snapshot, currentSortMode, InJail, cachedRows, Idle, Command
  <2>. QED BY <1>3, <2>1, <2>3
\* What is stored now is due, and nothing else.
<1>6. CASE storeRows(c)
  <2>1. /\ cmd[c].pc = "store" /\ cmd'[c].changed /\ cmd'[c].pc = "message"
        /\ cmd'[c].rows = cmd[c].rows /\ last' = cmd[c].rows
    BY <1>1, <1>6 DEF storeRows, Command
  <2>2. Stores(c)
    BY <2>1 DEF Stores
  <2>3. due' = {c}
    BY <1>2, <2>2 DEF Remember
  <2>. QED BY <1>1, <2>1, <2>3 DEF ScreenFollowsCache
<1>7. CASE Deliver(c) /\ cmd[c].changed
  <2>1. /\ cmd[c].pc = "message" /\ cmd'[c].changed = FALSE /\ cmd'[c].pc = "idle"
        /\ shown' = cmd[c].rows /\ last' = last
    BY <1>1, <1>7 DEF Deliver, Idle
  <2>2. Draws(c) /\ ~Stores(c)
    BY <1>7, <2>1 DEF Draws, Stores
  <2>3. due' = {d \in due : ~Draws(d)} /\ behind' = (due = {} /\ shown' # last)
    BY <1>2, <2>2 DEF Remember
  <2>4. due' = due \ {c}
    BY <1>2, <2>2, <2>3 DEF ScreenFollowsCache
  <2>. QED BY <1>1, <2>1, <2>3, <2>4 DEF ScreenFollowsCache
<1>8. CASE Deliver(c) /\ ~cmd[c].changed
  <2>1. cmd[c].pc = "message" /\ cmd'[c].changed = FALSE /\ UNCHANGED <<last, shown>>
    BY <1>1, <1>8 DEF Deliver, Idle
  <2>2. c \notin due
    BY <1>8 DEF ScreenFollowsCache
  <2>3. UNCHANGED <<due, behind>>
    BY <1>2, <1>8, <2>1, NothingToRemember DEF Stores, Draws
  <2>. QED BY <1>1, <2>1, <2>2, <2>3 DEF ScreenFollowsCache
<1>. QED BY <1>4, <1>5, <1>6, <1>7, <1>8 DEF Step

LEMMA ScreenNext ==
    TypeInv /\ ScreenFollowsCache /\ [Next /\ Remember]_hvars => ScreenFollowsCache'
<1>. SUFFICES ASSUME TypeInv, ScreenFollowsCache, [Next /\ Remember]_hvars
              PROVE  ScreenFollowsCache'
  OBVIOUS
<1>1. CASE SystemChanges /\ Remember
  <2>1. UNCHANGED <<cmd, last, shown>>
    BY <1>1 DEF SystemChanges
  <2>2. UNCHANGED <<due, behind>>
    BY <1>1, <2>1, NothingToRemember DEF Stores, Draws
  <2>. QED BY <2>1, <2>2 DEF ScreenFollowsCache
<1>2. CASE UNCHANGED hvars
  BY <1>2 DEF hvars, vars, ScreenFollowsCache
<1>3. ASSUME Next, Remember, ~SystemChanges PROVE ScreenFollowsCache'
  BY <1>3, ScreenStep DEF Next
<1>. QED BY <1>1, <1>2, <1>3

\* The rows GetProcesses calls unchanged are on the screen or on their way to it,
\* for any number of overlapping refreshes, unless older rows were drawn over them.
THEOREM UnchangedStaysOnScreen == HistorySpec => UnchangedIsOnScreen
<1>1. ASSUME TypeInv, ScreenFollowsCache, Next, NEW c \in Refresh,
             cmd[c].pc = "compare", cmd'[c].pc = "message", ~behind
      PROVE  cmd[c].rows = shown \/ \E d \in due : cmd[d].changed /\ cmd[c].rows = cmd[d].rows
  <2>1. cachedRows(c)
    BY <1>1 DEF Next, SystemChanges, Step, StartRefresh, SortKey, Snapshot, currentSortMode,
       InJail, cachedRows, storeRows, Deliver, TypeInv, TypeOK, Command
  <2>2. cmd[c].rows = last
    BY <1>1, <2>1 DEF cachedRows, TypeInv, TypeOK
  <2>. QED BY <1>1, <2>2 DEF ScreenFollowsCache
<1>2. TypeInv /\ ScreenFollowsCache /\ [Next /\ Remember]_hvars
        => [\A c \in Refresh :
              cmd[c].pc = "compare" /\ cmd'[c].pc = "message"
                => \/ behind
                   \/ cmd[c].rows = shown
                   \/ \E d \in due : cmd[d].changed /\ cmd[c].rows = cmd[d].rows]_hvars
  BY <1>1
<1>3. TypeInv /\ [Next /\ Remember]_hvars => TypeInv'
  BY TypeNext DEF hvars
<1>4. HistoryInit => TypeInv
  BY TypeInit DEF HistoryInit
<1>. QED BY <1>2, <1>3, <1>4, ScreenInit, ScreenNext, PTL DEF HistorySpec, UnchangedIsOnScreen
=============================================================================
