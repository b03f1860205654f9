--------------------------- MODULE MCTerminalTrace ---------------------------
(* Bounds of TerminalTrace for TLC. *)
EXTENDS TerminalTrace

CONSTANTS clean, dirty

\* git reports a clean worktree at first and a dirty one after any change:
\* two different dirty contents look the same.
DirtyBit == [n \in 0..MaxContent |-> IF n = 0 THEN clean ELSE dirty]
=============================================================================
