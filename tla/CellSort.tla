------------------------------ MODULE CellSort ------------------------------
(***************************************************************************)
(* The three sorting routines of class Partition (bliss/partition.cc).     *)
(* Each puts the elements of a cell in the order of their invariant        *)
(* values, in place.  The order of equal elements matters to the search    *)
(* (it pairs the elements of cells by position), so the routines are       *)
(* translated swap by swap.  A cell is a sequence s of elements, iv maps   *)
(* elements to values; pointers into the cell are positions of s.          *)
(***************************************************************************)
EXTENDS Integers, Sequences, SequencesExt

Swapped(s, a, b) == [s EXCEPT ![a] = s[b], ![b] = s[a]]

-----------------------------------------------------------------------------
(* sort_and_split_cell1: the values are 0 and 1, and both occur.           *)

(* More ones than zeros: only the zeros in the part of the ones move.      *)
RECURSIVE MoveZeros(_, _, _, _)
MoveZeros(s, iv, ep0, ep1) ==
  IF ep1 > Len(s) THEN s
  ELSE IF iv[s[ep1]] = 0
       THEN MoveZeros(Swapped(s, ep0, ep1), iv, ep0 + 1, ep1)
       ELSE MoveZeros(s, iv, ep0, ep1 + 1)

(* Otherwise only the ones in the part of the zeros, which ends at end.    *)
RECURSIVE MoveOnes(_, _, _, _, _)
MoveOnes(s, iv, ep0, ep1, end) ==
  IF ep0 = end THEN s
  ELSE IF iv[s[ep0]] # 0
       THEN MoveOnes(Swapped(s, ep0, ep1), iv, ep0, ep1 + 1, end)
       ELSE MoveOnes(s, iv, ep0 + 1, ep1, end)

SortBinary(s, iv, ones) ==
  LET ep1 == Len(s) - ones + 1
  IN  IF ones > Len(s) \div 2 THEN MoveZeros(s, iv, 1, ep1)
      ELSE MoveOnes(s, iv, 1, ep1, ep1)

-----------------------------------------------------------------------------
(* sort_and_split_cell255: distribution counting.  The state of the sort   *)
(* is the cell, dcs_count and dcs_start.                                   *)

Counted(s, iv, max) ==
  [v \in 0 .. max |-> Len(SelectSeq(s, LAMBDA e : iv[e] = v))]

(* Variant: the starts are off by one value. *)
CumulateShifted(count, max) ==
  LET start[v \in 0 .. max] == IF v = 0 THEN 0 ELSE start[v - 1] + count[v]
  IN  start

(* dcs_cumulate_count: where the elements of each value will start.        *)
Cumulate(count, max) ==
  LET start[v \in 0 .. max] ==
        IF v = 0 THEN 0 ELSE start[v - 1] + count[v - 1]
  IN  start

(* The inner loop: send the element at ep to where its value goes next,    *)
(* until an element of value v arrives.                                    *)
RECURSIVE Place(_, _, _, _)
Place(d, iv, v, ep) ==
  LET w == iv[d.s[ep]]
  IN  IF w = v THEN d
      ELSE Place([s     |-> Swapped(d.s, ep, d.start[w] + 1),
                  start |-> [d.start EXCEPT ![w] = @ + 1],
                  count |-> [d.count EXCEPT ![w] = @ - 1]], iv, v, ep)

(* All that is left of value v, from where it starts now. *)
PlaceAll(d, iv, v) ==
  LET from == d.start[v]
      placed == FoldLeft(LAMBDA e, k : Place(e, iv, v, from + k), d,
                         [k \in 1 .. d.count[v] |-> k])
  IN  [placed EXCEPT !.count[v] = 0]

Distribute(s, iv, max) ==
  LET count == Counted(s, iv, max)
      d == [s |-> s, start |-> Cumulate(count, max), count |-> count]
  IN  FoldLeft(LAMBDA e, v : PlaceAll(e, iv, v - 1), d,
               [k \in 1 .. max + 1 |-> k])

SortCounting(s, iv, max) == Distribute(s, iv, max).s

-----------------------------------------------------------------------------
(* shellsort_cell.                                                         *)

(* The gaps 1, 4, 13, ...: the first one above len / 9. *)
RECURSIVE FirstGap(_, _)
FirstGap(len, h) == IF h <= len \div 9 THEN FirstGap(len, 3 * h + 1) ELSE h

(* The element at position j moves down in steps of h. *)
RECURSIVE Sink(_, _, _, _)
Sink(s, iv, h, j) ==
  IF j > h /\ iv[s[j - h]] > iv[s[j]]
  THEN Sink(Swapped(s, j, j - h), iv, h, j - h)
  ELSE s

InsertionPass(s, iv, h) ==
  FoldLeft(LAMBDA t, k : Sink(t, iv, h, h + k), s,
           [k \in 1 .. Len(s) - h |-> k])

RECURSIVE ShellPasses(_, _, _)
ShellPasses(s, iv, h) ==
  IF h = 0 THEN s ELSE ShellPasses(InsertionPass(s, iv, h), iv, h \div 3)

ShellSort(s, iv) == ShellPasses(s, iv, FirstGap(Len(s), 1))

-----------------------------------------------------------------------------
(* What all three promise: the same elements, in the order of the values.  *)
SortedBy(t, s, iv) ==
  /\ Len(t) = Len(s) /\ ToSet(t) = ToSet(s)
  /\ \A k \in 1 .. Len(t) - 1 : iv[t[k]] <= iv[t[k + 1]]
=============================================================================
