--------------------------- MODULE MCTerminalLive ---------------------------
(***************************************************************************)
(* The instance of TerminalLive that TLC checks.                           *)
(***************************************************************************)
EXTENDS TerminalLive

CONSTANTS p1, p2

\* One pane, and another may be created; or two, of which one is in the group.
TwoStarts == {[live |-> {p1}, grouped |-> {}], [live |-> {p1, p2}, grouped |-> {p1}]}

=============================================================================
