----------------------------- MODULE MCPartition -----------------------------
(* Four elements.  The generic sort takes more than one gap only for cells *)
(* of nine elements and more: it is evaluated for some of these as well.   *)
EXTENDS BacktrackPartition

ASSUME ShellSortsLongCells ==
  \A iv \in [1 .. 10 -> 0 .. 1] :
    SortedBy(ShellSort([k \in 1 .. 10 |-> k], iv), [k \in 1 .. 10 |-> k], iv)
=============================================================================
