------------------------------ MODULE TuiProofs ------------------------------
(***************************************************************************)
(* What holds of the monitor for every table of processes, every window    *)
(* and every pair of preferred widths.                                     *)
(***************************************************************************)
EXTENDS Tui, FiniteSetTheorems, SequenceTheorems, TLAPS

(***************************************************************************)
(* The panels                                                              *)
(***************************************************************************)
\* config.yaml's widths, once merged with the defaults.
LEMMA MergedWidths ==
    UI.table \in Int /\ UI.table >= 0 /\ UI.info \in Int /\ UI.info > 0
BY TuiAssumption DEF UI, mergeUIConfig, TuiAssumption

LayoutType ==
    [width : Int, height : Int, table : Int, info : Int, panelH : Int, bodyH : Int]

\* A layout whose panels fit into its own width and height.
Fits(l) ==
    /\ l.width \in Int /\ l.height \in Int /\ l.table \in Int /\ l.info \in Int
    /\ l.panelH \in Int /\ l.bodyH \in Int
    /\ l.width >= minWidth /\ l.height >= minPanelHeight + heightSpace
    /\ l.table >= minTableW
    /\ l.info >= minInt(minInfoW, UI.info)
    /\ l.table + spacing + l.info <= l.width
    /\ l.panelH >= minPanelHeight
    /\ l.panelH + heightSpace <= l.height
    /\ l.bodyH >= 1
    /\ l.bodyH + infoHeaderH + infoFooterH + vFrame <= l.panelH

\* The panels of p share the width w.
PanelsShare(p, w) ==
    /\ p.table \in Int /\ p.info \in Int
    /\ p.table >= minTableW
    /\ p.info >= minInt(minInfoW, UI.info)
    /\ p.table + spacing + p.info <= w

\* The two panels, before and after the details have given way, fit.
LEMMA PanelWidths ==
    ASSUME NEW w \in Int, w >= minWidth
    PROVE  PanelsShare(shrinkInfo(resolvePanelWidths(w, UI), w), w)
<1> USE MergedWidths DEF minWidth, minTableW, minInfoW, spacing, maxInt, minInt
<1> DEFINE q == resolvePanelWidths(w, UI)
<1>1. /\ q.table \in Int /\ q.info \in Int /\ q.table >= 0 /\ q.info >= 0
      /\ q.table + 1 + q.info <= w
      /\ q.info >= minInt(minInfoW, UI.info)
  <2>1. CASE UI.table > 0 /\ UI.table + UI.info <= w - 1
    <3>1. q = [table |-> UI.table, info |-> UI.info]
      BY <2>1 DEF resolvePanelWidths
    <3> QED
      BY <2>1, <3>1
  <2>2. CASE ~(UI.table > 0 /\ UI.table + UI.info <= w - 1)
    <3>1. q = [table |-> maxInt(w - 1 - UI.info, 0), info |-> minInt(UI.info, w - 1)]
      BY <2>2 DEF resolvePanelWidths
    <3> QED
      BY <3>1
  <2> QED
    BY <2>1, <2>2
<1> HIDE DEF q
<1>2. CASE q.table >= minTableW
  <2>1. shrinkInfo(q, w) = q
    BY <1>2 DEF shrinkInfo
  <2> QED
    BY <1>1, <1>2, <2>1 DEF PanelsShare, q
<1>3. CASE ~(q.table >= minTableW)
  <2> DEFINE info == q.info - minInt(minTableW - q.table, maxInt(q.info - minInfoW, 0))
             share == maxInt(w - info - spacing, 0)
  <2>1. shrinkInfo(q, w) = [table |-> share, info |-> info]
    BY <1>3 DEF shrinkInfo
  <2>2. info \in Int /\ info <= q.info /\ info >= minInt(minInfoW, UI.info)
    BY <1>1, <1>3
  <2>3. w - info - spacing >= minTableW
    BY <1>1, <1>3
  <2>4. share = w - info - spacing
    BY <2>2, <2>3
  <2> HIDE DEF info, share
  <2>5. shrinkInfo(q, w).table = share /\ shrinkInfo(q, w).info = info
    BY <2>1
  <2> QED
    BY <2>2, <2>3, <2>4, <2>5 DEF PanelsShare, q
<1> QED
  BY <1>2, <1>3

\* A layout made for a width and a height with room for the minima fits them.
LEMMA SyncFits ==
    ASSUME NEW l, l.width \in Int, l.height \in Int,
           l.width >= minWidth, l.height >= minPanelHeight + heightSpace
    PROVE  /\ Fits(syncLayout(l, UI))
           /\ syncLayout(l, UI).width = l.width /\ syncLayout(l, UI).height = l.height
<1> DEFINE p == shrinkInfo(resolvePanelWidths(l.width, UI), l.width)
           s == syncLayout(l, UI)
           h == maxInt(l.height - heightSpace, vFrame)
<1>1. /\ p.table \in Int /\ p.info \in Int /\ p.table >= minTableW
      /\ p.info >= minInt(minInfoW, UI.info) /\ p.table + spacing + p.info <= l.width
  BY PanelWidths DEF PanelsShare
<1>2. l.width > 0 /\ l.height > 0
  BY DEF minWidth, minTableW, minInfoW, spacing, minPanelHeight, infoHeaderH, infoFooterH, heightSpace
<1> HIDE DEF p
<1>3. s = [width |-> l.width, height |-> l.height, table |-> p.table, info |-> p.info,
           panelH |-> h, bodyH |-> maxInt(h - vFrame - infoHeaderH - infoFooterH, 1)]
  BY <1>2 DEF syncLayout, p
<1>4. h = l.height - heightSpace /\ h >= minPanelHeight /\ h \in Int
  BY DEF maxInt, minPanelHeight, infoHeaderH, infoFooterH, heightSpace, vFrame
<1> HIDE DEF s, h
<1>5. /\ s.bodyH \in Int /\ s.bodyH >= 1
      /\ s.bodyH + infoHeaderH + infoFooterH + vFrame <= s.panelH
  BY <1>3, <1>4 DEF maxInt, minPanelHeight, infoHeaderH, infoFooterH, vFrame
<1>6. /\ s.width = l.width /\ s.height = l.height /\ s.table = p.table /\ s.info = p.info
      /\ s.panelH = h
  BY <1>3
<1>7. s.panelH + heightSpace <= s.height
  BY <1>4, <1>6 DEF heightSpace
<1>8. Fits(s)
  BY <1>1, <1>4, <1>5, <1>6, <1>7 DEF Fits
<1> QED
  BY <1>6, <1>8 DEF s

\* Whatever it is made from, a layout is one.
LEMMA SyncType ==
    ASSUME NEW l \in LayoutType
    PROVE  /\ syncLayout(l, UI) \in LayoutType
           /\ syncLayout(l, UI).width = l.width /\ syncLayout(l, UI).height = l.height
<1> DEFINE q == resolvePanelWidths(l.width, UI)
           p == shrinkInfo(q, l.width)
<1>1. l.width \in Int /\ l.height \in Int
  BY DEF LayoutType
<1>2. q.table \in Int /\ q.info \in Int
  <2>1. \/ q = [table |-> UI.table, info |-> UI.info]
        \/ q = [table |-> maxInt(maxInt(l.width - spacing, 0) - UI.info, 0),
                info |-> minInt(UI.info, maxInt(l.width - spacing, 0))]
    BY MergedWidths DEF resolvePanelWidths
  <2> QED
    BY <1>1, <2>1, MergedWidths DEF maxInt, minInt, spacing
<1> HIDE DEF q
<1>3. p.table \in Int /\ p.info \in Int
  BY <1>1, <1>2 DEF shrinkInfo, maxInt, minInt, minTableW, minInfoW, spacing
<1> HIDE DEF p
<1> QED
  BY <1>1, <1>3 DEF syncLayout, LayoutType, p, q, maxInt, heightSpace, vFrame, infoHeaderH, infoFooterH

LEMMA EnsureType ==
    ASSUME NEW l \in LayoutType PROVE ensureRenderableLayout(l, UI) \in LayoutType
<1> DEFINE m(w, h) == [l EXCEPT !.width = w, !.height = h]
<1>1. \A w, h \in Int : m(w, h) \in LayoutType
  BY DEF LayoutType
<1>2. \A w, h \in Int : syncLayout(m(w, h), UI) \in LayoutType
  BY <1>1, SyncType
<1> HIDE DEF m
<1>3. \E w, h \in Int : ensureRenderableLayout(l, UI) \in {l, syncLayout(m(w, h), UI)}
  <2> DEFINE W == IF l.width < minWidth THEN maxInt(UI.table + UI.info + spacing, minWidth)
                                        ELSE l.width
             H == IF l.height < minPanelHeight + heightSpace THEN defaultHeight ELSE l.height
  <2>1. W \in Int /\ H \in Int
    BY MergedWidths DEF LayoutType, maxInt, minWidth, minTableW, minInfoW, spacing, defaultHeight
  <2>2. ensureRenderableLayout(l, UI) \in {l, syncLayout(m(W, H), UI)}
    BY DEF ensureRenderableLayout, m
  <2> HIDE DEF W, H
  <2> QED
    BY <2>1, <2>2
<1> QED
  BY <1>2, <1>3

\* Whatever it is given, ensureRenderableLayout returns a layout that fits, and
\* one that fits it returns as it is.
LEMMA EnsureFits ==
    ASSUME NEW l \in LayoutType,
           \/ Fits(l)
           \/ l.width < minWidth \/ l.height < minPanelHeight + heightSpace
    PROVE  /\ Fits(ensureRenderableLayout(l, UI))
           /\ l.width >= minWidth => ensureRenderableLayout(l, UI).width = l.width
           /\ l.height >= minPanelHeight + heightSpace =>
                ensureRenderableLayout(l, UI).height = l.height
<1> DEFINE width  == IF l.width < minWidth THEN maxInt(UI.table + UI.info + spacing, minWidth)
                                           ELSE l.width
           height == IF l.height < minPanelHeight + heightSpace THEN defaultHeight ELSE l.height
           m == [l EXCEPT !.width = width, !.height = height]
<1>1. CASE Fits(l)
  <2>1. l.table > 0 /\ ~(l.panelH < minPanelHeight) /\ ~(l.width < minWidth)
        /\ ~(l.height < minPanelHeight + heightSpace)
    BY <1>1 DEF Fits, minTableW, minWidth, minInfoW, spacing, minPanelHeight, infoHeaderH,
                infoFooterH, heightSpace
  <2>2. l.info > 0
    BY <1>1, MergedWidths DEF Fits, minInt, minInfoW
  <2>3. ensureRenderableLayout(l, UI) = l
    BY <1>1, <2>1, <2>2 DEF ensureRenderableLayout, Fits
  <2> QED
    BY <1>1, <2>3
<1>0. l.width \in Int /\ l.height \in Int
  BY DEF LayoutType
<1>2. CASE l.width < minWidth \/ l.height < minPanelHeight + heightSpace
  <2>1. /\ width \in Int /\ height \in Int
        /\ width >= minWidth /\ height >= minPanelHeight + heightSpace
        /\ <<width, height>> # <<l.width, l.height>>
    BY <1>0, <1>2, MergedWidths DEF minWidth, minTableW, minInfoW, spacing, minPanelHeight,
         infoHeaderH, infoFooterH, heightSpace, maxInt, defaultHeight
  <2>2. ensureRenderableLayout(l, UI) = syncLayout(m, UI)
    BY <2>1 DEF ensureRenderableLayout
  <2>3. m.width = width /\ m.height = height
    BY DEF LayoutType
  <2>4. /\ l.width >= minWidth => width = l.width
        /\ l.height >= minPanelHeight + heightSpace => height = l.height
    BY <1>0 DEF minWidth, minTableW, minInfoW, spacing, minPanelHeight, infoHeaderH, infoFooterH,
                heightSpace
  <2> HIDE DEF m, width, height
  <2> QED
    BY <2>1, <2>2, <2>3, <2>4, SyncFits
<1> QED
  BY <1>1, <1>2

\* A window of any size gets a layout that fits, and keeps a size with room.
LEMMA ResizeFits ==
    ASSUME Fits(layout), layout \in LayoutType, NEW w \in Nat, NEW h \in Nat
    PROVE  /\ Fits(resize(layout, w, h, UI)) /\ resize(layout, w, h, UI) \in LayoutType
           /\ w >= minWidth => resize(layout, w, h, UI).width = w
           /\ h >= minPanelHeight + heightSpace => resize(layout, w, h, UI).height = h
<1> DEFINE m == [layout EXCEPT !.width = w, !.height = h]
           s == syncLayout(m, UI)
<1>1. m \in LayoutType /\ m.width = w /\ m.height = h
  <2>1. w \in Int /\ h \in Int
    OBVIOUS
  <2> QED
    BY <2>1 DEF LayoutType
<1> HIDE DEF m
<1>2. s \in LayoutType /\ s.width = w /\ s.height = h
  BY <1>1, SyncType DEF LayoutType
<1>3. Fits(s) \/ w < minWidth \/ h < minPanelHeight + heightSpace
  BY <1>1, SyncFits DEF minPanelHeight, minWidth, infoHeaderH, infoFooterH, heightSpace,
     minTableW, minInfoW, spacing
<1> QED
  BY <1>2, <1>3, EnsureFits, EnsureType DEF resize, m

ScreenInv ==
    /\ layout \in LayoutType /\ Fits(layout) /\ window \in Nat \X Nat
    /\ window[1] >= minWidth => layout.width = window[1]
    /\ window[2] >= minPanelHeight + heightSpace => layout.height = window[2]

\* The first drawing, before the size of the window is known.
LEMMA FreshScreen ==
    ASSUME window = <<0, 0>>, layout = ensureRenderableLayout(NoLayout, UI) PROVE ScreenInv
<1>1. NoLayout \in LayoutType /\ NoLayout.width = 0 /\ NoLayout.height = 0
  BY DEF NoLayout, LayoutType
<1>2. 0 < minWidth /\ 0 < minPanelHeight + heightSpace
  BY DEF minWidth, minTableW, minInfoW, spacing, minPanelHeight, infoHeaderH, infoFooterH, heightSpace
<1>3. layout \in LayoutType /\ Fits(layout)
  BY <1>1, <1>2, EnsureFits, EnsureType
<1>4. ~(0 >= minWidth) /\ ~(0 >= minPanelHeight + heightSpace)
  BY DEF minWidth, minTableW, minInfoW, spacing, minPanelHeight, infoHeaderH, infoFooterH, heightSpace
<1> QED
  BY <1>3, <1>4 DEF ScreenInv

\* The panels fit, whatever config.yaml asks for and however the window changes.
THEOREM PanelsAlwaysFit == Spec => []PanelsFit
<1>1. Init => ScreenInv
  BY FreshScreen DEF Init, Fresh
<1>2. ScreenInv /\ [Next]_vars => ScreenInv'
  <2> SUFFICES ASSUME ScreenInv, [Next]_vars PROVE ScreenInv'
    OBVIOUS
  <2>1. CASE UNCHANGED <<window, layout>>
    BY <2>1 DEF ScreenInv, Fits
  <2>2. CASE Quit
    <3>1. window' = <<0, 0>> /\ layout' = ensureRenderableLayout(NoLayout, UI)
      BY <2>2 DEF Quit, Fresh
    <3>2. NoLayout \in LayoutType /\ NoLayout.width = 0 /\ NoLayout.height = 0
      BY DEF NoLayout, LayoutType
    <3>3. 0 < minWidth /\ 0 < minPanelHeight + heightSpace
      BY DEF minWidth, minTableW, minInfoW, spacing, minPanelHeight, infoHeaderH, infoFooterH,
             heightSpace
    <3>4. layout' \in LayoutType /\ Fits(layout')
      BY <3>1, <3>2, <3>3, EnsureFits, EnsureType
    <3>5. ~(0 >= minWidth) /\ ~(0 >= minPanelHeight + heightSpace)
      BY DEF minWidth, minTableW, minInfoW, spacing, minPanelHeight, infoHeaderH, infoFooterH,
             heightSpace
    <3> QED
      BY <3>1, <3>4, <3>5 DEF ScreenInv, Fits
  <2>3. ASSUME NEW size \in Sizes, WindowSizeMsg(size) PROVE ScreenInv'
    <3>1. size \in Nat \X Nat /\ size[1] \in Nat /\ size[2] \in Nat
      BY TuiAssumption DEF TuiAssumption
    <3>2. window' = size /\ layout' = resize(layout, size[1], size[2], UI)
      BY <2>3 DEF WindowSizeMsg
    <3>3. Fits(layout) /\ layout \in LayoutType
      BY DEF ScreenInv
    <3>4. /\ Fits(layout') /\ layout' \in LayoutType
          /\ size[1] >= minWidth => layout'.width = size[1]
          /\ size[2] >= minPanelHeight + heightSpace => layout'.height = size[2]
      BY <3>1, <3>2, <3>3, ResizeFits
    <3> QED
      BY <3>1, <3>2, <3>4 DEF ScreenInv, Fits
  <2> QED
    BY <2>1, <2>2, <2>3
       DEF Next, Key, Cancel, Submit, submit, Focus, Edit, Move, ShowInfo, ToggleProcessJail,
           KillProcessTree, StartInput, startInput, SignalProcess, KillMember, DataMsg, Exit, Fork,
           vars, screen
<1>3. ScreenInv => PanelsFit
  BY DEF ScreenInv, Fits, PanelsFit
<1> QED
  BY <1>1, <1>2, <1>3, PTL DEF Spec

(***************************************************************************)
(* Type correctness                                                        *)
(***************************************************************************)
\* A walk over a tree is a list of distinct processes that has everybody in it
\* and ends in the root.
LEMMA WalkType ==
    ASSUME NEW p \in Pid, alive \subseteq Pid, NEW w \in ProcessOrder(p)
    PROVE  /\ w \in Seq(Pid) /\ Len(w) \in Nat \ {0} /\ w # <<>>
           /\ w[Len(w)] = p
           /\ \A i, j \in 1..Len(w) : w[i] = w[j] => i = j
           /\ TreeOf(p, alive, ppid) \subseteq {w[i] : i \in 1..Len(w)}
<1> DEFINE D == TreeOf(p, alive, ppid)
           n == Cardinality(D)
<1>1. p \in D /\ D \subseteq Pid
  BY DEF TreeOf
<1>2. IsFiniteSet(D)
  BY <1>1, FS_Subset, TuiAssumption DEF TuiAssumption
<1>3. n \in Nat /\ n # 0
  BY <1>1, <1>2, FS_CardinalityType, FS_EmptySet
<1>4. /\ w \in [1..n -> D] /\ w[n] = p /\ \A i, j \in 1..n : w[i] = w[j] => i = j
      /\ \A i \in 1..n : {w[j] : j \in (i - Cardinality(TreeOf(w[i], alive, ppid)) + 1)..i}
                          = TreeOf(w[i], alive, ppid)
  BY DEF ProcessOrder, Walks
<1>5. {w[j] : j \in (n - n + 1)..n} = D
  BY <1>3, <1>4
<1> HIDE DEF n, D
<1>6. w \in [1..n -> Pid]
  BY <1>1, <1>4
<1>7. w \in Seq(Pid) /\ Len(w) = n
  BY <1>3, <1>6
<1>8. D \subseteq {w[i] : i \in 1..n}
  BY <1>3, <1>5
<1> QED
  BY <1>3, <1>4, <1>7, <1>8 DEF D

\* A snapshot is a list of processes.
LEMMA SnapshotType == ASSUME NEW s \in Snapshots PROVE s \in Seq(Pid) /\ Len(s) \in Nat
<1>1. PICK n \in 0..Cardinality(Pid) : s \in [1..n -> Pid]
  BY DEF Snapshots
<1>2. Cardinality(Pid) \in Nat
  BY FS_CardinalityType, TuiAssumption DEF TuiAssumption
<1>3. n \in Nat
  BY <1>1, <1>2
<1> QED
  BY <1>1, <1>3

LEMMA CursorStays ==
    ASSUME NEW n \in Nat, NEW c \in Int, c >= -1
    PROVE  /\ minInt(c, n - 1) \in -1..maxInt(n - 1, 0)
           /\ \A by \in {-1, 1} : minInt(maxInt(c + by, 0), n - 1) \in -1..maxInt(n - 1, 0)
BY DEF minInt, maxInt

LEMMA KilledType ==
    ASSUME TypeOK, NEW p, KillsNow(p)
    PROVE  alive' \subseteq Pid /\ ppid' \in [Pid -> Pid \cup {NoPid}]
BY DEF TypeOK, KillsNow, Reparented

\* Who is still to be signalled, after the head.
LEMMA RestType ==
    ASSUME NEW s \in Seq(Pid), s # <<>>
    PROVE  /\ Head(s) \in Pid /\ Tail(s) \in Seq(Pid)
           /\ Tail(s) # <<>> => Tail(s)[Len(Tail(s))] = s[Len(s)]
<1>1. /\ Len(s) \in Nat \ {0} /\ Tail(s) \in Seq(Pid) /\ Head(s) \in Pid
      /\ Len(Tail(s)) = Len(s) - 1
      /\ \A i \in 1..(Len(s) - 1) : Tail(s)[i] = s[i + 1]
  BY HeadTailProperties, EmptySeq
<1>2. ASSUME Tail(s) # <<>> PROVE Tail(s)[Len(Tail(s))] = s[Len(s)]
  <2>1. Len(Tail(s)) # 0
    BY <1>1, <1>2
  <2>2. Len(s) - 1 \in 1..(Len(s) - 1)
    BY <1>1, <2>1
  <2>3. Tail(s)[Len(s) - 1] = s[Len(s) - 1 + 1]
    BY <1>1, <2>2
  <2>4. Len(s) - 1 + 1 = Len(s) /\ Len(Tail(s)) = Len(s) - 1
    BY <1>1
  <2> QED
    BY <2>3, <2>4
<1> QED
  BY <1>1, <1>2

LEMMA TypeInit == Init => TypeOK
BY TuiAssumption
   DEF Init, Fresh, TypeOK, TuiAssumption, NoInput, InputType, Help, NoWalk, Nothing, maxInt

LEMMA TypeKey == TypeOK /\ Key => TypeOK'
<1> SUFFICES ASSUME TypeOK, Key PROVE TypeOK'
  OBVIOUS
<1> USE DEF TypeOK, kernel, table, screen
<1>0. Len(rows) \in Nat /\ cursor \in Int /\ cursor >= -1
  BY DEF maxInt
<1>1. CASE Quit
  BY <1>1 DEF Quit, Fresh, Help, maxInt
<1>2. CASE Cancel
  BY <1>2 DEF Cancel, InputType, Help
<1>3. CASE Submit
  <2>1. input \in [mode : Modes, pid : Pid, parses : BOOLEAN]
    BY <1>3 DEF Submit, Typing, InputType, NoInput
  <2>2. Prompt(input.pid) \in [about : {"prompt", "answer"}, pid : Pid]
        /\ Answer(input.pid) \in [about : {"prompt", "answer"}, pid : Pid]
        /\ [call |-> input.mode, pid |-> input.pid] \in [call : Calls, pid : Pid]
    BY <2>1 DEF Prompt, Answer, Calls
  <2>3. input' \in InputType /\ panel' \in {Prompt(input.pid), Answer(input.pid)}
        /\ did' \in {did, [call |-> input.mode, pid |-> input.pid]}
    BY <1>3 DEF Submit, submit, InputType
  <2>4. UNCHANGED <<alive, ppid, rows, cursor, focusTable, walk, window>>
    BY <1>3 DEF Submit, submit
  <2> QED
    BY <2>2, <2>3, <2>4
<1>4. ASSUME NEW onTable \in BOOLEAN, Focus(onTable) PROVE TypeOK'
  BY <1>4 DEF Focus
<1>5. ASSUME NEW parses \in BOOLEAN, Edit(parses) PROVE TypeOK'
  <2>1. input \in [mode : Modes, pid : Pid, parses : BOOLEAN]
    BY <1>5 DEF Edit, Typing, InputType, NoInput
  <2>2. input' \in InputType /\ Prompt(input.pid) \in [about : {"prompt", "answer"}, pid : Pid]
    BY <1>5, <2>1 DEF Edit, InputType, Prompt
  <2> QED
    BY <1>5, <2>2 DEF Edit
<1>6. ASSUME NEW by \in {-1, 1}, Move(by) PROVE TypeOK'
  <2>1. cursor' = minInt(maxInt(cursor + by, 0), Len(rows) - 1)
    BY <1>6 DEF Move
  <2>2. cursor' \in -1..maxInt(Len(rows) - 1, 0)
    BY <1>0, <2>1, CursorStays
  <2> QED
    BY <1>6, <2>2 DEF Move
<1>7. ASSUME NEW p \in Pid PROVE Answer(p) \in [about : {"prompt", "answer"}, pid : Pid]
  BY DEF Answer
<1>8. ASSUME NEW p \in Pid, ShowInfo(p) PROVE TypeOK'
  BY <1>7, <1>8 DEF ShowInfo
<1>9. ASSUME NEW p \in Pid, ToggleProcessJail(p) PROVE TypeOK'
  <2>1. [call |-> "toggle", pid |-> p] \in [call : Calls, pid : Pid]
    BY DEF Calls
  <2> QED
    BY <1>7, <1>9, <2>1 DEF ToggleProcessJail
<1>10. ASSUME NEW p \in Pid, KillProcessTree(p) PROVE TypeOK'
  <2>1. CASE UNCHANGED walk
    BY <1>7, <1>10, <2>1 DEF KillProcessTree
  <2>2. ASSUME NEW w \in ProcessOrder(p), UNCHANGED panel,
               walk' = [root |-> p, rest |-> w, left |-> TreeOf(p, alive, ppid) \cap alive]
        PROVE  TypeOK'
    <3>1. w \in Seq(Pid) /\ w[Len(w)] = p
      BY WalkType
    <3>2. TreeOf(p, alive, ppid) \cap alive \subseteq Pid
      OBVIOUS
    <3>3. walk' \in [root : Pid \cup {NoPid}, rest : Seq(Pid), left : SUBSET Pid]
          /\ walk'.root = walk'.rest[Len(walk'.rest)]
      BY <2>2, <3>1, <3>2
    <3> QED
      BY <1>10, <2>2, <3>3 DEF KillProcessTree
  <2> QED
    BY <1>10, <2>1, <2>2 DEF KillProcessTree
<1>11. ASSUME NEW p \in Pid, NEW mode \in Modes, StartInput(mode, p) PROVE TypeOK'
  <2>1. [mode |-> mode, pid |-> p, parses |-> FALSE] \in InputType
        /\ Prompt(p) \in [about : {"prompt", "answer"}, pid : Pid]
    BY DEF InputType, Prompt
  <2> QED
    BY <1>11, <2>1 DEF StartInput, startInput
<1>12. ASSUME NEW p \in Pid, NEW sig \in Signals, SignalProcess(sig, p) PROVE TypeOK'
  <2>1. [call |-> sig, pid |-> p] \in [call : Calls, pid : Pid]
    BY DEF Calls
  <2>2. alive' \subseteq Pid /\ ppid' \in [Pid -> Pid \cup {NoPid}]
    BY <1>12, KilledType DEF SignalProcess
  <2> QED
    BY <1>7, <1>12, <2>1, <2>2 DEF SignalProcess
<1> QED
  BY <1>1, <1>2, <1>3, <1>4, <1>5, <1>6, <1>8, <1>9, <1>10, <1>11, <1>12 DEF Key

LEMMA TypeOther ==
    ASSUME TypeOK,
           \/ KillMember
           \/ \E s \in Snapshots : DataMsg(s)
           \/ \E size \in Sizes : WindowSizeMsg(size)
           \/ \E p \in Pid : Exit(p) \/ \E q \in Pid : Fork(p, q)
    PROVE  TypeOK'
<1> USE DEF TypeOK, kernel, table, screen
<1>1. CASE KillMember
  <2>1. /\ walk.rest # <<>> /\ Head(walk.rest) \in Pid /\ Tail(walk.rest) \in Seq(Pid)
        /\ walk.root = walk.rest[Len(walk.rest)]
        /\ Tail(walk.rest) # <<>> => Tail(walk.rest)[Len(Tail(walk.rest))] = walk.root
    BY <1>1, RestType DEF KillMember
  <2>2. walk.root \in Pid
    <3>1. Len(walk.rest) \in 1..Len(walk.rest)
      BY <2>1, EmptySeq
    <3> QED
      BY <2>1, <3>1
  <2>3. alive' \subseteq Pid /\ ppid' \in [Pid -> Pid \cup {NoPid}]
    BY <1>1, KilledType DEF KillMember
  <2>4. did' \in [call : Calls, pid : Pid] \cup {Nothing}
    BY <1>1, <2>1 DEF KillMember, Calls, Signals
  <2>5. panel' \in [about : {"prompt", "answer"}, pid : Pid] \cup {Help}
    BY <1>1, <2>2 DEF KillMember, Answer
  <2>6. /\ walk' \in [root : Pid \cup {NoPid}, rest : Seq(Pid), left : SUBSET Pid]
        /\ walk'.rest # <<>> => walk'.root = walk'.rest[Len(walk'.rest)]
    <3>1. CASE walk' = [walk EXCEPT !.rest = <<>>]
      <4>1. walk' = [root |-> walk.root, rest |-> <<>>, left |-> walk.left] /\ <<>> \in Seq(Pid)
        BY <3>1
      <4>2. walk'.rest = <<>>
        BY <4>1
      <4> QED
        BY <4>1, <4>2
    <3>2. CASE walk' = [walk EXCEPT !.rest = Tail(@), !.left = @ \ {Head(walk.rest)}]
      <4>1. walk' = [root |-> walk.root, rest |-> Tail(walk.rest),
                     left |-> walk.left \ {Head(walk.rest)}]
        BY <3>2
      <4> QED
        BY <2>1, <4>1
    <3> QED
      BY <1>1, <3>1, <3>2 DEF KillMember
  <2> QED
    BY <1>1, <2>3, <2>4, <2>5, <2>6 DEF KillMember
<1>2. ASSUME NEW s \in Snapshots, DataMsg(s) PROVE TypeOK'
  <2>1. cursor \in Int /\ cursor >= -1
    BY DEF maxInt
  <2>2. cursor' \in -1..maxInt(Len(s) - 1, 0)
    BY <1>2, <2>1, SnapshotType, CursorStays DEF DataMsg
  <2> QED
    BY <1>2, <2>2, SnapshotType DEF DataMsg
<1>3. ASSUME NEW size \in Sizes, WindowSizeMsg(size) PROVE TypeOK'
  BY <1>3, TuiAssumption DEF WindowSizeMsg, TuiAssumption
<1>4. ASSUME NEW p \in Pid, Exit(p) PROVE TypeOK'
  BY <1>4, KilledType DEF Exit
<1>5. ASSUME NEW p \in Pid, NEW q \in Pid, Fork(p, q) PROVE TypeOK'
  BY <1>5 DEF Fork
<1> QED
  BY <1>1, <1>2, <1>3, <1>4, <1>5

\* Every variable stays in its set, an open form has a process, and a walk that
\* goes on ends in its root.
THEOREM TypeCorrect == Spec => []TypeOK
<1>1. TypeOK /\ [Next]_vars => TypeOK'
  <2>1. TypeOK /\ UNCHANGED vars => TypeOK'
    BY DEF TypeOK, vars
  <2> QED
    BY <2>1, TypeKey, TypeOther DEF Next
<1> QED
  BY <1>1, TypeInit, PTL DEF Spec

(***************************************************************************)
(* The forms                                                               *)
(***************************************************************************)
LEMMA PromptNext == TypeOK /\ PromptIsShown /\ [Next]_vars => PromptIsShown'
<1> SUFFICES ASSUME TypeOK, PromptIsShown, [Next]_vars PROVE PromptIsShown'
  OBVIOUS
<1> USE DEF PromptIsShown, Free, Shortcut, Typing
<1>1. CASE UNCHANGED <<input, panel, focusTable, walk>>
  BY <1>1
\* A key that is a shortcut finds the form closed, and only two open one.
<1>2. ASSUME input.mode = "none", input' = input, panel' = panel \/ panel'.about # "prompt"
      PROVE  PromptIsShown'
  BY <1>2
<1>3. \A p : Answer(p).about # "prompt" /\ Help.about # "prompt"
  BY DEF Answer, Help
<1>4. ASSUME Quit \/ \E onTable \in BOOLEAN : Focus(onTable) PROVE PromptIsShown'
  BY <1>2, <1>3, <1>4 DEF Quit, Focus, Fresh
<1>5. CASE Cancel
  BY <1>3, <1>5 DEF Cancel, NoInput
<1>6. CASE Submit
  <2>1. CASE input' = NoInput /\ panel' = Answer(input.pid)
    BY <1>3, <2>1 DEF NoInput
  <2>2. CASE input' = input /\ panel' = Prompt(input.pid)
    BY <1>6, <2>2 DEF Prompt, Submit, submit
  <2> QED
    BY <1>6, <2>1, <2>2 DEF Submit, submit
<1>7. ASSUME NEW parses \in BOOLEAN, Edit(parses) PROVE PromptIsShown'
  <2>1. input'.mode = input.mode /\ input'.pid = input.pid
    BY <1>7 DEF Edit, TypeOK, InputType, NoInput
  <2> QED
    BY <1>7, <2>1 DEF Edit, Prompt
<1>8. ASSUME NEW p \in Pid,
             \/ ShowInfo(p) \/ ToggleProcessJail(p) \/ KillProcessTree(p)
             \/ \E sig \in Signals : SignalProcess(sig, p)
      PROVE  PromptIsShown'
  BY <1>2, <1>3, <1>8 DEF ShowInfo, ToggleProcessJail, KillProcessTree, SignalProcess
<1>9. ASSUME NEW p \in Pid, NEW mode \in Modes, StartInput(mode, p) PROVE PromptIsShown'
  BY <1>9 DEF StartInput, startInput, Prompt, Modes
<1>10. CASE KillMember
  BY <1>2, <1>3, <1>10 DEF KillMember
<1>11. ASSUME NEW p \in Pid, Exit(p) PROVE PromptIsShown'
  BY <1>11 DEF Exit, TypeOK
<1> QED
  BY <1>1, <1>4, <1>5, <1>6, <1>7, <1>8, <1>9, <1>10, <1>11
     DEF Next, Key, vars, Move, DataMsg, WindowSizeMsg, Fork

\* The prompt is on the screen exactly as long as its form is open.
THEOREM PromptShown == Spec => []PromptIsShown
<1>1. Init => PromptIsShown
  BY DEF Init, Fresh, PromptIsShown, Help, NoInput
<1> QED
  BY <1>1, PromptNext, TypeCorrect, PTL DEF Spec

\* A form acts on the process its prompt names, and on no other.
THEOREM FormsFollow == Spec => FormsActOnWhoTheyName
<1>1. PromptIsShown /\ [Next]_vars =>
        [input.mode # "none" /\ did' # did
           => panel.about = "prompt" /\ did' = [call |-> input.mode, pid |-> panel.pid]]_vars
  <2> SUFFICES ASSUME PromptIsShown, Next, input.mode # "none", did' # did
               PROVE  panel.about = "prompt" /\ did' = [call |-> input.mode, pid |-> panel.pid]
    OBVIOUS
  <2>1. panel.about = "prompt" /\ panel.pid = input.pid /\ walk.rest = <<>>
    BY DEF PromptIsShown, Free
  <2>2. Submit
    BY <2>1 DEF Next, Key, Quit, Cancel, Focus, Edit, Move, ShowInfo, ToggleProcessJail, KillProcessTree,
          StartInput, SignalProcess, KillMember, DataMsg, WindowSizeMsg, Exit, Fork, Shortcut
  <2> QED
    BY <2>1, <2>2 DEF Submit, submit
<1> QED
  BY <1>1, PromptShown, PTL DEF Spec, FormsActOnWhoTheyName

(***************************************************************************)
(* Killing a tree: who is left of it is still to be signalled, and the     *)
(* root, which ends the list, is in it once.                               *)
(***************************************************************************)
\* s is a list of distinct processes that holds everybody of left.
Ahead(s, left) ==
    /\ \A i, j \in 1..Len(s) : s[i] = s[j] => i = j
    /\ left \subseteq {s[i] : i \in 1..Len(s)}

WalkInv == walk.rest # <<>> => Ahead(walk.rest, walk.left)

\* It stays so when the head is signalled; if the head is the last, nobody is left.
LEMMA AheadTail ==
    ASSUME NEW s \in Seq(Pid), s # <<>>, NEW left \in SUBSET Pid, Ahead(s, left)
    PROVE  /\ Ahead(Tail(s), left \ {Head(s)})
           /\ Head(s) = s[Len(s)] => left \ {Head(s)} = {}
<1>1. /\ Len(s) \in Nat \ {0} /\ Tail(s) \in Seq(Pid) /\ Head(s) = s[1]
      /\ Len(Tail(s)) = Len(s) - 1
      /\ \A i \in 1..(Len(s) - 1) : Tail(s)[i] = s[i + 1]
  BY HeadTailProperties, EmptySeq
<1>2. ASSUME NEW i \in 1..(Len(s) - 1), NEW j \in 1..(Len(s) - 1), Tail(s)[i] = Tail(s)[j]
      PROVE  i = j
  <2>1. s[i + 1] = s[j + 1] /\ i + 1 \in 1..Len(s) /\ j + 1 \in 1..Len(s)
    BY <1>1, <1>2
  <2>2. i + 1 = j + 1
    BY <2>1 DEF Ahead
  <2> QED
    BY <2>2
<1>3. ASSUME NEW p \in left \ {Head(s)} PROVE \E i \in 1..(Len(s) - 1) : p = Tail(s)[i]
  <2>1. PICK k \in 1..Len(s) : p = s[k]
    BY DEF Ahead
  <2>2. k # 1
    BY <1>1, <2>1
  <2>3. k - 1 \in 1..(Len(s) - 1) /\ k - 1 + 1 = k
    BY <1>1, <2>2
  <2>4. Tail(s)[k - 1] = s[k - 1 + 1]
    BY <1>1, <2>3
  <2> QED
    BY <2>1, <2>3, <2>4
<1>4. ASSUME Head(s) = s[Len(s)] PROVE left \ {Head(s)} = {}
  <2>1. 1 \in 1..Len(s) /\ Len(s) \in 1..Len(s) /\ s[1] = s[Len(s)]
    BY <1>1, <1>4
  <2>2. Len(s) = 1
    BY <2>1 DEF Ahead
  <2> QED
    BY <1>1, <2>2 DEF Ahead
<1>5. Ahead(Tail(s), left \ {Head(s)})
  BY <1>1, <1>2, <1>3 DEF Ahead
<1> QED
  BY <1>4, <1>5

\* What a step does to a walk that goes on.
LEMMA WalkSteps ==
    ASSUME [Next]_vars, walk' # walk
    PROVE  \/ KillMember
           \/ walk.rest = <<>> /\ \E p \in Pid : KillProcessTree(p)
           \/ \E p \in Pid : walk' = [walk EXCEPT !.left = @ \ {p}]
BY DEF Next, Key, Quit, Cancel, Submit, submit, Focus, Edit, Move, ShowInfo, ToggleProcessJail,
       KillProcessTree, Shortcut, Free, StartInput, startInput, SignalProcess, DataMsg,
       WindowSizeMsg, Exit, Fork, vars

LEMMA WalkNext == TypeOK /\ WalkInv /\ [Next]_vars => WalkInv'
<1> SUFFICES ASSUME TypeOK, WalkInv, [Next]_vars PROVE WalkInv'
  OBVIOUS
<1>0. walk \in [root : Pid \cup {NoPid}, rest : Seq(Pid), left : SUBSET Pid]
  BY DEF TypeOK
<1>1. CASE walk' = walk
  BY <1>1 DEF WalkInv
<1>2. CASE KillMember
  <2>1. CASE walk' = [walk EXCEPT !.rest = <<>>]
    <3>1. walk'.rest = <<>>
      BY <1>0, <2>1
    <3> QED
      BY <3>1 DEF WalkInv
  <2>2. CASE walk' = [walk EXCEPT !.rest = Tail(@), !.left = @ \ {Head(walk.rest)}]
    <3>1. walk'.rest = Tail(walk.rest) /\ walk'.left = walk.left \ {Head(walk.rest)}
      BY <1>0, <2>2
    <3>2. Ahead(walk.rest, walk.left) /\ walk.rest # <<>>
      BY <1>2 DEF KillMember, WalkInv
    <3> QED
      BY <1>0, <3>1, <3>2, AheadTail DEF WalkInv
  <2> QED
    BY <1>2, <2>1, <2>2 DEF KillMember
<1>3. ASSUME NEW p \in Pid, KillProcessTree(p), walk' # walk PROVE WalkInv'
  <2>1. PICK w \in ProcessOrder(p) :
          walk' = [root |-> p, rest |-> w, left |-> TreeOf(p, alive, ppid) \cap alive]
    BY <1>3 DEF KillProcessTree
  <2>2. /\ \A i, j \in 1..Len(w) : w[i] = w[j] => i = j
        /\ TreeOf(p, alive, ppid) \subseteq {w[i] : i \in 1..Len(w)}
    BY WalkType DEF TypeOK
  <2>3. walk'.rest = w /\ walk'.left \subseteq TreeOf(p, alive, ppid)
    BY <2>1
  <2> QED
    BY <2>2, <2>3 DEF WalkInv, Ahead
<1>4. ASSUME NEW p \in Pid, walk' = [walk EXCEPT !.left = @ \ {p}] PROVE WalkInv'
  <2>1. walk'.rest = walk.rest /\ walk'.left = walk.left \ {p}
    BY <1>0, <1>4
  <2> QED
    BY <2>1 DEF WalkInv, Ahead
<1> QED
  BY <1>1, <1>2, <1>3, <1>4, WalkSteps

\* Killing a tree ends its root after everybody else who was found in it.
THEOREM RootLast == Spec => RootGoesLast
<1>1. Init => WalkInv
  BY DEF Init, NoWalk, WalkInv
<1>2. TypeOK /\ WalkInv /\ [Next]_vars =>
        [walk.rest # <<>> /\ walk'.rest # walk.rest /\ walk.root \in walk.left \ walk'.left
           => walk'.left = {}]_vars
  <2> SUFFICES ASSUME TypeOK, WalkInv, [Next]_vars, walk.rest # <<>>, walk'.rest # walk.rest,
                      walk.root \in walk.left \ walk'.left
               PROVE  walk'.left = {}
    OBVIOUS
  <2>0. /\ walk \in [root : Pid \cup {NoPid}, rest : Seq(Pid), left : SUBSET Pid]
        /\ walk.root = walk.rest[Len(walk.rest)]
    BY DEF TypeOK
  <2>1. KillMember
    BY <2>0, WalkSteps
  <2>2. ~(walk' = [walk EXCEPT !.rest = <<>>])
    BY <2>0
  <2>3. walk' = [walk EXCEPT !.rest = Tail(@), !.left = @ \ {Head(walk.rest)}]
    BY <2>1, <2>2 DEF KillMember
  <2>4. walk'.left = walk.left \ {Head(walk.rest)}
    BY <2>0, <2>3
  <2>5. Head(walk.rest) = walk.rest[Len(walk.rest)]
    BY <2>0, <2>4
  <2> QED
    BY <2>0, <2>4, <2>5, AheadTail DEF WalkInv
<1> QED
  BY <1>1, <1>2, TypeCorrect, WalkNext, PTL DEF Spec, RootGoesLast

\* The list of those still to be signalled only gets shorter, and each step of the
\* handler makes it so, whether or not the process it comes to can be signalled.
WalksGetShorter ==
    [][walk.rest # <<>> =>
         /\ walk'.rest = walk.rest \/ Len(walk'.rest) < Len(walk.rest)
         /\ KillMember => walk'.rest # walk.rest]_vars

\* For every tree, whatever ends, starts or cannot be signalled meanwhile, killing
\* it is over after one step for each who was found in it (service.go,
\* KillProcessTree).
THEOREM WalkGetsDone == Spec => WalksGetShorter
<1>1. ASSUME TypeOK, [Next]_vars, walk.rest # <<>>
      PROVE  /\ walk'.rest = walk.rest \/ Len(walk'.rest) < Len(walk.rest)
             /\ KillMember => walk'.rest # walk.rest
  <2>0. walk \in [root : Pid \cup {NoPid}, rest : Seq(Pid), left : SUBSET Pid]
    BY <1>1 DEF TypeOK
  <2>1. /\ Len(walk.rest) \in Nat \ {0} /\ Len(<<>>) = 0
        /\ Len(Tail(walk.rest)) = Len(walk.rest) - 1
    BY <1>1, <2>0, HeadTailProperties, EmptySeq
  <2>2. ASSUME KillMember PROVE Len(walk'.rest) < Len(walk.rest)
    <3>1. walk'.rest \in {<<>>, Tail(walk.rest)}
      BY <2>0, <2>2 DEF KillMember
    <3>. QED BY <2>1, <3>1
  <2>3. ASSUME NEW p \in Pid, walk' = [walk EXCEPT !.left = @ \ {p}] PROVE walk'.rest = walk.rest
    BY <2>0, <2>3
  <2>. QED BY <1>1, <2>1, <2>2, <2>3, WalkSteps
<1>2. TypeOK /\ [Next]_vars
        => [walk.rest # <<>> =>
              /\ walk'.rest = walk.rest \/ Len(walk'.rest) < Len(walk.rest)
              /\ KillMember => walk'.rest # walk.rest]_vars
  BY <1>1
<1>. QED BY <1>2, TypeCorrect, PTL DEF Spec, WalksGetShorter
=============================================================================
