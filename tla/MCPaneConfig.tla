---------------------------- MODULE MCPaneConfig ----------------------------
(***************************************************************************)
(* PaneConfig for TLC: a small default size, interchangeable panes, and    *)
(* interchangeable handlers.                                               *)
(***************************************************************************)
EXTENDS PaneConfig, TLC

SmallSize == Size(1, 1)

Symmetry == Permutations(Panes) \cup Permutations(Slots)

=============================================================================
