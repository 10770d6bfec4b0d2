------------------------------- MODULE MCTui -------------------------------
(***************************************************************************)
(* The monitor with a root and its child, in windows that are smaller than *)
(* the minima, too narrow for the widths asked for, or wide enough.        *)
(***************************************************************************)
EXTENDS Tui

CONSTANTS r, a

WithChild == [p \in Pid |-> IF p = a THEN r ELSE NoPid]

SomeSizes == {<<60, 5>>, <<100, 7>>, <<200, 50>>}
BothWidths == [table |-> 60, info |-> 72]
=============================================================================
