------------------------------- MODULE Layout -------------------------------
(***************************************************************************)
(* The widths and heights of the monitor's two panels, as pure operators:  *)
(* internal/service/tui, syncLayout and what View does to it.              *)
(***************************************************************************)
EXTENDS Integers

heightSpace   == 2
spacing       == 1
minTableW     == 44
minInfoW      == 32
infoHeaderH   == 1
infoFooterH   == 1
defaultHeight == 24

\* A rounded border.
vFrame == 2

minWidth       == minTableW + minInfoW + spacing
minPanelHeight == infoHeaderH + infoFooterH + 3

maxInt(a, b) == IF a > b THEN a ELSE b
minInt(a, b) == IF a < b THEN a ELSE b

\* The widths config.yaml asks for, defaults in place of what is not positive.
mergeUIConfig(ui) ==
    [table |-> IF ui.table <= 0 THEN 0 ELSE ui.table,
     info  |-> IF ui.info <= 0 THEN 72 ELSE ui.info]

resolvePanelWidths(totalWidth, ui) ==
    LET usable == maxInt(totalWidth - spacing, 0)
        table  == minInt(ui.table, usable)
        info   == minInt(ui.info, usable)
    IN  CASE ui.table > 0 /\ ui.info > 0 /\ ui.table + ui.info <= usable ->
               [table |-> ui.table, info |-> ui.info]
          [] ui.table > 0 /\ ui.info <= 0 ->
               [table |-> table, info |-> maxInt(usable - table, 0)]
          [] OTHER ->
               [table |-> maxInt(usable - ui.info, 0), info |-> info]

\* Mutant: the table keeps what the preferred widths leave it.
AsPreferred(panels, totalWidth) == panels

\* The details give way, down to their minimum, to a table that is too narrow.
shrinkInfo(panels, totalWidth) ==
    LET shrink == minInt(minTableW - panels.table, maxInt(panels.info - minInfoW, 0))
        info   == panels.info - shrink
    IN  IF panels.table >= minTableW THEN panels
        ELSE [table |-> maxInt(totalWidth - info - spacing, 0), info |-> info]

\* A layout: the size it was made for, the widths of the panels, their height
\* with and the height of the details without frame, header and footer.
NoLayout == [width |-> 0, height |-> 0, table |-> 0, info |-> 0, panelH |-> 0, bodyH |-> 0]

syncLayout(l, ui) ==
    LET panels == shrinkInfo(resolvePanelWidths(l.width, ui), l.width)
        panelH == maxInt(l.height - heightSpace, vFrame)
    IN  IF l.width <= 0 \/ l.height <= 0 THEN l
        ELSE [width |-> l.width, height |-> l.height,
              table |-> panels.table, info |-> panels.info, panelH |-> panelH,
              bodyH |-> maxInt(panelH - vFrame - infoHeaderH - infoFooterH, 1)]

\* What View does first.  Its two other reasons to lay out again, a table or
\* details without a visible line, ask for what syncLayout has done already.
ensureRenderableLayout(l, ui) ==
    LET width  == IF l.width < minWidth THEN maxInt(ui.table + ui.info + spacing, minWidth)
                                        ELSE l.width
        height == IF l.height < minPanelHeight + heightSpace THEN defaultHeight ELSE l.height
    IN  IF \/ l.table <= 0 \/ l.info <= 0 \/ l.panelH < minPanelHeight
           \/ <<width, height>> # <<l.width, l.height>>
        THEN syncLayout([l EXCEPT !.width = width, !.height = height], ui)
        ELSE l

\* The window has a size, and the program draws.
resize(l, width, height, ui) ==
    ensureRenderableLayout(syncLayout([l EXCEPT !.width = width, !.height = height], ui), ui)
=============================================================================
