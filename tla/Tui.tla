-------------------------------- MODULE Tui --------------------------------
(***************************************************************************)
(* The monitor's event loop: internal/service/tui with the process actions *)
(* of internal/service.  A step is one message, handled by Update and      *)
(* followed by View, except that a tree is killed process by process, with *)
(* the loop waiting.  Rows arrive from goroutines: how they come about is  *)
(* module Table, here a message carries any rows, however old.             *)
(***************************************************************************)
EXTENDS Layout, ProcessTree

CONSTANTS
    Pid,
    NoPid,          \* no process
    InitParent,     \* the parent of each process that runs at first, by Pid
    Sizes,          \* the sizes <<width, height>> a window may have
    PanelConfig     \* the widths config.yaml asks for: [table, info]

Modes   == {"affinity", "nofile"}
Signals == {"kill", "stop", "resume"}
Calls   == Modes \cup Signals \cup {"toggle"}

ASSUME TuiAssumption ==
    /\ NoPid \notin Pid
    /\ IsFiniteSet(Pid)
    /\ InitParent \in [Pid -> Pid \cup {NoPid}]
    /\ Sizes \subseteq Nat \X Nat
    /\ PanelConfig \in [table : Int, info : Int]

VARIABLES
    alive, ppid,    \* the kernel's process table
    rows, cursor,   \* the PIDs of the table's rows, and the selected one's index
    focusTable,
    input,          \* the form: its mode, its process, whether its text parses
    panel,          \* what the details show, and about which process
    walk,           \* KillProcessTree: its root, who is still to be signalled,
                    \* and who of the tree it read has not ended since
    did,            \* the last system call that succeeded on a process
    window, layout

kernel == <<alive, ppid>>
table  == <<rows, cursor>>
screen == <<window, layout>>
vars   == <<alive, ppid, rows, cursor, focusTable, input, panel, walk, did, window, layout>>

UI == mergeUIConfig(PanelConfig)

\* Any rows that some snapshot may have given.
Snapshots == UNION {{s \in [1..n -> Pid] : \A i, j \in 1..n : s[i] = s[j] => i = j} :
                      n \in 0..Cardinality(Pid)}

NoInput  == [mode |-> "none", pid |-> NoPid, parses |-> FALSE]
Help     == [about |-> "help", pid |-> NoPid]   \* any text about no process
NoWalk   == [root |-> NoPid, rest |-> <<>>, left |-> {}]
Nothing  == [call |-> "none", pid |-> NoPid]

Prompt(p) == [about |-> "prompt", pid |-> p]
Answer(p) == [about |-> "answer", pid |-> p]

InputType == [mode : Modes, pid : Pid, parses : BOOLEAN] \cup {NoInput}

-----------------------------------------------------------------------------
(* The program and its window *)

\* What a run of the program begins with.
Fresh ==
    [rows |-> <<>>, cursor |-> 0, focusTable |-> TRUE, input |-> NoInput, panel |-> Help,
     window |-> <<0, 0>>, layout |-> ensureRenderableLayout(NoLayout, UI)]

Init ==
    /\ alive = Pid /\ ppid = InitParent
    /\ rows = Fresh.rows /\ cursor = Fresh.cursor /\ focusTable = Fresh.focusTable
    /\ input = Fresh.input /\ panel = Fresh.panel
    /\ window = Fresh.window /\ layout = Fresh.layout
    /\ walk = NoWalk /\ did = Nothing

\* The loop takes the next message.
Free     == walk.rest = <<>>
Shortcut == Free /\ input.mode = "none"     \* a key is a shortcut
Typing   == Free /\ input.mode # "none"     \* a key is text

WindowSizeMsg(size) ==
    /\ Free
    /\ window' = size
    /\ layout' = resize(layout, size[1], size[2], UI)
    /\ UNCHANGED <<kernel, table, focusTable, input, panel, walk, did>>

\* Quit, and whoever starts it again.
Quit ==
    /\ Shortcut
    /\ rows' = Fresh.rows /\ cursor' = Fresh.cursor /\ focusTable' = Fresh.focusTable
    /\ panel' = Fresh.panel /\ window' = Fresh.window /\ layout' = Fresh.layout
    /\ UNCHANGED <<kernel, input, walk, did>>

-----------------------------------------------------------------------------
(* The table and the focus *)

\* The cursor is an index: it stays where it is, inside the new rows.
DataMsg(s) ==
    /\ Free
    /\ rows' = s
    /\ cursor' = minInt(cursor, Len(s) - 1)
    /\ UNCHANGED <<kernel, focusTable, input, panel, walk, did, screen>>

Move(by) ==
    /\ Shortcut /\ focusTable
    /\ cursor' = minInt(maxInt(cursor + by, 0), Len(rows) - 1)
    /\ UNCHANGED <<kernel, rows, focusTable, input, panel, walk, did, screen>>

\* Esc, and Tab.
Focus(onTable) ==
    /\ Shortcut
    /\ focusTable' = onTable
    /\ UNCHANGED <<kernel, table, input, panel, walk, did, screen>>

\* selectedPID.
Selected(p) == cursor \in 0..(Len(rows) - 1) /\ p = rows[cursor + 1]

\* Enter and h; what cannot be parsed is said in the details too.
ShowInfo(p) ==
    /\ Shortcut /\ Selected(p)
    /\ panel' = Answer(p)
    /\ focusTable' = FALSE
    /\ UNCHANGED <<kernel, table, input, walk, did, screen>>

-----------------------------------------------------------------------------
(* The forms *)

startInput(mode, p) ==
    /\ input' = [mode |-> mode, pid |-> p, parses |-> FALSE]
    /\ panel' = Prompt(p)
    /\ focusTable' = FALSE
    /\ UNCHANGED <<kernel, table, walk, did, screen>>

\* Mutant: a form is opened whether or not a process is selected.
StartInputAnyway(mode, p) ==
    /\ Shortcut
    /\ startInput(mode, IF Selected(p) THEN p ELSE NoPid)

StartInput(mode, p) ==
    /\ Shortcut /\ Selected(p)
    /\ startInput(mode, p)

\* Text added or taken away: it parses, or not.
Edit(parses) ==
    /\ Typing
    /\ input' = [input EXCEPT !.parses = parses]
    /\ panel' = Prompt(input.pid)
    /\ UNCHANGED <<kernel, table, focusTable, walk, did, screen>>

\* Mutant: a cancelled form leaves its prompt.
CancelQuietly ==
    /\ Typing
    /\ input' = NoInput
    /\ focusTable' = TRUE
    /\ UNCHANGED <<kernel, table, panel, walk, did, screen>>

Cancel ==
    /\ Typing
    /\ input' = NoInput
    /\ panel' = Help
    /\ focusTable' = TRUE
    /\ UNCHANGED <<kernel, table, walk, did, screen>>

submit(p) ==
    /\ \/ /\ input.parses /\ p \in alive
          /\ did' = [call |-> input.mode, pid |-> p]
          /\ input' = NoInput
          /\ panel' = Answer(p)
       \/ /\ panel' = Prompt(input.pid)
          /\ UNCHANGED <<input, did>>
    /\ UNCHANGED <<kernel, table, focusTable, walk, screen>>

\* Mutant: the setting goes to the row that is selected now.
SubmitSelected == \E p \in Pid : Typing /\ Selected(p) /\ submit(p)

\* A text that does not parse, a process that is gone and a call that is
\* refused leave the form open; the focus stays on the details in any case.
Submit ==
    /\ Typing
    /\ submit(input.pid)

-----------------------------------------------------------------------------
(* Actions on the selected process.  The details say that it was done,      *)
(* whether or not it was; only a toggle reports its error.                  *)

KillsNow(p) ==
    /\ alive' = alive \ {p}
    /\ ppid' = Reparented(ppid, {p}, NoPid)

SignalProcess(sig, p) ==
    /\ Shortcut /\ Selected(p)
    /\ \/ /\ p \in alive
          /\ did' = [call |-> sig, pid |-> p]
          /\ IF sig = "kill" THEN KillsNow(p) ELSE UNCHANGED kernel
       \/ UNCHANGED <<kernel, did>>
    /\ panel' = Answer(p)
    /\ UNCHANGED <<table, focusTable, input, walk, screen>>

ToggleProcessJail(p) ==
    /\ Shortcut /\ Selected(p)
    /\ did' \in {did, [call |-> "toggle", pid |-> p]}
    /\ panel' = Answer(p)
    /\ UNCHANGED <<kernel, table, focusTable, input, walk, screen>>

\* Mutant: the root of a tree before its descendants.
RootFirst(p)    == WalksFromRoot(p, alive, ppid)
ProcessOrder(p) == Walks(p, alive, ppid)

\* The tree is read once ...
KillProcessTree(p) ==
    /\ Shortcut /\ Selected(p)
    /\ \/ /\ \E order \in ProcessOrder(p) :
               walk' = [root |-> p, rest |-> order, left |-> TreeOf(p, alive, ppid) \cap alive]
          /\ UNCHANGED panel
       \/ /\ panel' = Answer(p)
          /\ UNCHANGED walk
    /\ UNCHANGED <<kernel, table, focusTable, input, did, screen>>

\* Mutant: a member that cannot be signalled is tried again.
KillMemberAgain ==
    /\ walk.rest # <<>>
    /\ \/ /\ Head(walk.rest) \in alive
          /\ KillsNow(Head(walk.rest))
          /\ did' = [call |-> "kill", pid |-> Head(walk.rest)]
          /\ walk' = [walk EXCEPT !.rest = Tail(@), !.left = @ \ {Head(walk.rest)}]
       \/ UNCHANGED <<kernel, did, walk>>
    /\ panel' = IF walk'.rest = <<>> THEN Answer(walk.root) ELSE panel
    /\ UNCHANGED <<table, focusTable, input, screen>>

\* ... and its members signalled one by one, in that order.  The first that is
\* gone, or that may not be signalled, ends the call.
KillMember ==
    /\ walk.rest # <<>>
    /\ \/ /\ Head(walk.rest) \in alive
          /\ KillsNow(Head(walk.rest))
          /\ did' = [call |-> "kill", pid |-> Head(walk.rest)]
          /\ walk' = [walk EXCEPT !.rest = Tail(@), !.left = @ \ {Head(walk.rest)}]
       \/ /\ walk' = [walk EXCEPT !.rest = <<>>]
          /\ UNCHANGED <<kernel, did>>
    /\ panel' = IF walk'.rest = <<>> THEN Answer(walk.root) ELSE panel
    /\ UNCHANGED <<table, focusTable, input, screen>>

-----------------------------------------------------------------------------
(* The system *)

Exit(p) ==
    /\ p \in alive
    /\ KillsNow(p)
    /\ walk' = [walk EXCEPT !.left = @ \ {p}]
    /\ UNCHANGED <<table, focusTable, input, panel, did, screen>>

\* A child, perhaps with a PID that was used before.
Fork(parent, child) ==
    /\ parent \in alive /\ child \notin alive
    /\ alive' = alive \cup {child}
    /\ ppid' = [ppid EXCEPT ![child] = parent]
    /\ UNCHANGED <<table, focusTable, input, panel, walk, did, screen>>

-----------------------------------------------------------------------------
Key ==
    \/ Quit \/ Cancel \/ Submit
    \/ \E onTable \in {TRUE, ~focusTable} : Focus(onTable)
    \/ \E parses \in BOOLEAN : Edit(parses)
    \/ \E by \in {-1, 1} : Move(by)
    \/ \E p \in Pid :
         \/ ShowInfo(p) \/ ToggleProcessJail(p) \/ KillProcessTree(p)
         \/ \E mode \in Modes : StartInput(mode, p)
         \/ \E sig \in Signals : SignalProcess(sig, p)

Next ==
    \/ Key \/ KillMember
    \/ \E s \in Snapshots : DataMsg(s)
    \/ \E size \in Sizes : WindowSizeMsg(size)
    \/ \E p \in Pid : Exit(p) \/ \E q \in Pid : Fork(p, q)

Spec == Init /\ [][Next]_vars

\* A handler that was entered goes on.
FairSpec == Spec /\ WF_vars(KillMember)

-----------------------------------------------------------------------------
\* Every variable stays in its set; an open form has a process, and a walk that
\* goes on a root it ends with.
TypeOK ==
    /\ alive \subseteq Pid /\ ppid \in [Pid -> Pid \cup {NoPid}]
    /\ rows \in Seq(Pid) /\ cursor \in -1..maxInt(Len(rows) - 1, 0)
    /\ focusTable \in BOOLEAN
    /\ input \in InputType
    /\ panel \in [about : {"prompt", "answer"}, pid : Pid] \cup {Help}
    /\ walk \in [root : Pid \cup {NoPid}, rest : Seq(Pid), left : SUBSET Pid]
    /\ walk.rest # <<>> => walk.root = walk.rest[Len(walk.rest)]
    /\ did \in [call : Calls, pid : Pid] \cup {Nothing}
    /\ window \in Nat \X Nat

\* The prompt is on the screen exactly as long as its form is open, with the
\* process the form is for, and the table has no focus meanwhile: no refresh, no
\* failed submission and no other key changes that (update.go, startInput,
\* renderInputPrompt, the submissions and Update).
PromptIsShown ==
    /\ panel.about = "prompt" <=> input.mode # "none"
    /\ input.mode # "none" => panel.pid = input.pid /\ ~focusTable /\ Free

\* What is typed into a form acts on no process but the one its prompt names,
\* and in no way but the one the form is for, wherever refreshes and the cursor
\* have gone since it was opened (update.go, submitAffinityInput,
\* submitNoFileInput and the guard of the shortcuts in Update).
FormsActOnWhoTheyName ==
    [][input.mode # "none" /\ did' # did
         => panel.about = "prompt" /\ did' = [call |-> input.mode, pid |-> panel.pid]]_vars

\* Killing a tree ends its root after everybody else who was found in it: a walk
\* that fails half-way leaves the root, under which the rest is found when it is
\* tried again (service.go, KillProcessTree; collector.go, walkTree).
RootGoesLast ==
    [][walk.rest # <<>> /\ walk'.rest # walk.rest /\ walk.root \in walk.left \ walk'.left
         => walk'.left = {}]_vars

\* The panels share the width and leave the two lines below, the table has its
\* minimum and the details theirs or the width asked for, with a line to show;
\* a window with room for the minima is used as it is (update.go, syncLayout and
\* resolvePanelWidths; view.go, ensureRenderableLayout).
PanelsFit ==
    /\ layout.table >= minTableW
    /\ layout.info >= minInt(minInfoW, UI.info)
    /\ layout.table + spacing + layout.info <= layout.width
    /\ layout.panelH + heightSpace <= layout.height
    /\ layout.bodyH >= 1
    /\ layout.bodyH + infoHeaderH + infoFooterH + vFrame <= layout.panelH
    /\ window[1] >= minWidth => layout.width = window[1]
    /\ window[2] >= minPanelHeight + heightSpace => layout.height = window[2]

\* The loop comes back from killing a tree, whoever ends or cannot be signalled
\* meanwhile (service.go, KillProcessTree).
LoopComesBack == walk.rest # <<>> ~> Free
=============================================================================
