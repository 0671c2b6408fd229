----------------------------- MODULE Partition -----------------------------
(***************************************************************************)
(* class Partition (bliss/partition.cc, .hh): the backtrackable ordered    *)
(* partition of the search.                                                *)
(*                                                                         *)
(* A partition is a record.  A Cell pointer is the index `first' of the    *)
(* cell in elements, which no two cells share and which no operation       *)
(* changes: prev and next are then the neighbours of an interval, in_pos   *)
(* is the inverse of elements and the free list holds the N minus the      *)
(* number of cells other Cell records.  What the code must keep in step    *)
(* by hand stays: the map from elements to cells, the list of the          *)
(* nonsingleton cells, the count of the unit cells, the split levels, the  *)
(* refinement stack, the splitting queue and the levels of component       *)
(* recursion.  The operations are operators on such a record, so that the  *)
(* search (module Search) calls the same ones.                             *)
(***************************************************************************)
EXTENDS CellSort, FiniteSets, FiniteSetsExt

CONSTANTS N,            \* the number of elements
          CountLimit    \* 256 in the code: from here on shellsort is used

ASSUME PartitionAssumption == N \in Nat \ {0} /\ CountLimit \in Nat \ {0, 1}

Pos == 0 .. N - 1
Nil == -1

(* The elements of a set of numbers, in increasing order. *)
Ascending(S) ==
  [i \in 1 .. Cardinality(S) |->
     CHOOSE x \in S : Cardinality({y \in S : y < x}) = i - 1]

Live(p)       == DOMAIN p.cells
Length(p, c)  == p.cells[c].length
Members(p, c) == [k \in 1 .. Length(p, c) |-> p.elements[c + k - 1]]
CellSet(p, c) == {p.elements[i] : i \in c .. c + Length(p, c) - 1}
IsUnit(p, c)  == Length(p, c) = 1
IsDiscrete(p) == Cardinality(Live(p)) = N
NonUnits(p)   == {c \in Live(p) : ~IsUnit(p, c)}
Queued(p, c)  == c \in ToSet(p.queue)

(* init; component recursion is off: every cell is at level 0.             *)
InitPartition ==
  [elements |-> [i \in Pos |-> i],
   cell_of  |-> [e \in Pos |-> 0],
   cells    |-> [c \in {0} |-> [length |-> N, split_level |-> 0,
                                prev_ns |-> Nil, next_ns |-> Nil]],
   first_ns |-> IF N = 1 THEN Nil ELSE 0,
   discrete |-> IF N = 1 THEN 1 ELSE 0,
   stack    |-> <<>>,
   bt       |-> <<>>,
   queue    |-> <<>>,
   cr       |-> [enabled |-> FALSE, level |-> [c \in Pos |-> Nil],
                 max_level |-> 0, created |-> <<>>, splitted |-> <<>>,
                 bt |-> <<>>]]

-----------------------------------------------------------------------------
(* The splitting queue.                                                    *)

QueueAdd(p, c) ==
  [p EXCEPT !.queue = IF IsUnit(p, c) THEN <<c>> \o @ ELSE Append(@, c)]

QueuePop(p)   == [p EXCEPT !.queue = Tail(@)]
QueueClear(p) == [p EXCEPT !.queue = <<>>]

-----------------------------------------------------------------------------
(* Component recursion: the level of each cell, with a trail of the cells  *)
(* created since and one of the levels that were split.                    *)

CrInit(p) ==
  [p EXCEPT !.cr = [enabled |-> TRUE,
                    level |-> [c \in Pos |-> IF c \in Live(p) THEN 0 ELSE Nil],
                    max_level |-> 0,
                    created |-> Ascending(Live(p)),
                    splitted |-> <<>>, bt |-> <<>>]]

CrCreateTrailed(cr, new, old) ==
  IF ~cr.enabled THEN cr
  ELSE [cr EXCEPT !.level[new] = cr.level[old], !.created = Append(@, new)]

(* cr_split_level: the given cells, all of one level, get a new one. *)
CrSplitLevel(p, level, cells) ==
  LET top == p.cr.max_level + 1
  IN  [p EXCEPT !.cr.max_level = top,
                !.cr.splitted = Append(@, level),
                !.cr.level = [c \in Pos |-> IF c \in cells THEN top ELSE @[c]]]

(* Variant: levels are not joined again. *)
CrGotoKeepLevels(cr, k) ==
  LET info == cr.bt[k]
      gone == {cr.created[i] : i \in info.created + 1 .. Len(cr.created)}
  IN  [cr EXCEPT !.level = [c \in Pos |-> IF c \in gone THEN Nil ELSE @[c]],
                 !.max_level = info.splitted,
                 !.created = SubSeq(@, 1, info.created),
                 !.splitted = SubSeq(@, 1, info.splitted),
                 !.bt = SubSeq(@, 1, k - 1)]

(* cr_goto_backtrack_point: the cells created since lose their level, then *)
(* the levels made since are joined, last first, with those they left.     *)
CrGoto(cr, k) ==
  LET info == cr.bt[k]
      gone == {cr.created[i] : i \in info.created + 1 .. Len(cr.created)}
      join(d, level) ==
        [d EXCEPT !.level = [c \in Pos |-> IF @[c] = d.max_level THEN level
                                           ELSE @[c]],
                  !.max_level = @ - 1]
      detached ==
        [cr EXCEPT !.level = [c \in Pos |-> IF c \in gone THEN Nil ELSE @[c]],
                   !.created = SubSeq(@, 1, info.created),
                   !.splitted = SubSeq(@, 1, info.splitted),
                   !.bt = SubSeq(@, 1, k - 1)]
  IN  FoldLeft(join, detached,
        Reverse(SubSeq(cr.splitted, info.splitted + 1, Len(cr.splitted))))

-----------------------------------------------------------------------------
(* Splitting cells.                                                        *)

(* a and b become neighbours in the list of the nonsingleton cells; Nil    *)
(* before b makes b the first, and after a makes a the last.               *)
Linked(p, a, b) ==
  [p EXCEPT !.first_ns = IF a = Nil THEN b ELSE @,
            !.cells = [c \in DOMAIN @ |->
                        [@[c] EXCEPT !.next_ns = IF c = a THEN b ELSE @,
                                     !.prev_ns = IF c = b THEN a ELSE @]]]

(* Variant: a cell that became a unit cell stays in the list. *)
UnlinkedNot(p, c) == p

(* A cell leaves the list. *)
Unlinked(p, c) ==
  LET q == Linked(p, p.cells[c].prev_ns, p.cells[c].next_ns)
  IN  [q EXCEPT !.cells[c].prev_ns = Nil, !.cells[c].next_ns = Nil]

(* aux_split_in_two: the last elements of c, after the first k, become a   *)
(* cell of their own.                                                      *)
AuxSplitInTwo(p, c, k) ==
  LET new == c + k
      old == p.cells[c]
      allocated == [p EXCEPT
        !.cells = [d \in DOMAIN @ \cup {new} |->
          IF d = new THEN [length |-> old.length - k,
                           split_level |-> Len(p.stack) + 1,
                           prev_ns |-> Nil, next_ns |-> Nil]
          ELSE IF d = c THEN [old EXCEPT !.length = k] ELSE @[d]],
        !.stack = Append(@, [first |-> new, prev_ns |-> old.prev_ns,
                             next_ns |-> old.next_ns]),
        !.cr = CrCreateTrailed(@, new, c),
        !.discrete = @ + (IF k = old.length - 1 THEN 1 ELSE 0)
                       + (IF k = 1 THEN 1 ELSE 0)]
      inserted == IF k = old.length - 1 THEN allocated
                  ELSE Linked(Linked(allocated, c, new), new, old.next_ns)
  IN  IF k = 1 THEN Unlinked(inserted, c) ELSE inserted

(* individualize: the element changes places with the last of its cell and *)
(* becomes a unit cell.                                                    *)
Individualize(p, c, element) ==
  LET last == c + Length(p, c) - 1
      pos  == CHOOSE i \in Pos : p.elements[i] = element
      q    == AuxSplitInTwo([p EXCEPT !.elements = Swapped(@, pos, last)],
                            c, Length(p, c) - 1)
  IN  [q EXCEPT !.cell_of[element] = last]

(* The elements of cell c in the order s. *)
Reordered(p, c, s) ==
  [p EXCEPT !.elements = [i \in Pos |-> IF i - c + 1 \in DOMAIN s
                                        THEN s[i - c + 1] ELSE @[i]]]

(* Variant: nothing but unit cells is queued. *)
QueuePartsUnit(p, c, new, queued) ==
  IF IsUnit(p, new) THEN QueueAdd(p, new)
  ELSE IF IsUnit(p, c) /\ ~queued THEN QueueAdd(p, c) ELSE p

(* The cell c has been split in c and new: if it was queued new joins it,  *)
(* otherwise the smaller part is queued, and the larger one as well if it  *)
(* is a unit cell.                                                         *)
QueueParts(p, c, new, queued) ==
  LET small == IF Length(p, c) <= Length(p, new) THEN c ELSE new
      large == IF small = c THEN new ELSE c
  IN  IF queued THEN QueueAdd(p, new)
      ELSE IF IsUnit(p, large) THEN QueueAdd(QueueAdd(p, small), large)
      ELSE QueueAdd(p, small)

(* The last k elements of cell c become a cell, which owns them. *)
SplitTail(p, c, k) ==
  LET q   == AuxSplitInTwo(p, c, Length(p, c) - k)
      new == c + Length(q, c)
  IN  QueueParts([q EXCEPT !.cell_of = [e \in Pos |->
                    IF e \in CellSet(q, new) THEN new ELSE @[e]]],
                 c, new, Queued(p, c))

(* sort_and_split_cell1, for the values 0 and 1. *)
SplitBinary(p, c, iv, ones) ==
  SplitTail(Reordered(p, c, SortBinary(Members(p, c), iv, ones)), c, ones)

(* The first position of cell c whose value differs from that of the first *)
(* element, or the end of the cell.                                        *)
RunEnd(p, c, iv) ==
  Min({c + Length(p, c)} \cup
      {i \in c .. c + Length(p, c) - 1 :
         iv[p.elements[i]] # iv[p.elements[c]]})

(* Of the cells c and largest, the one that is queued and the one that is  *)
(* left out so far.                                                        *)
QueueSmaller(p, c, largest) ==
  IF Length(p, c) > Length(p, largest) THEN [p |-> QueueAdd(p, largest),
                                             largest |-> c]
  ELSE [p |-> QueueAdd(p, c), largest |-> largest]

(* split_cell: a sorted cell falls apart into one cell per value.  All of  *)
(* them are queued if the original was; otherwise one of the largest is    *)
(* left out, unless it is a unit cell.                                     *)
RECURSIVE SplitSorted(_, _, _, _, _)
SplitSorted(p, c, iv, queued, largest) ==
  LET next  == RunEnd(p, c, iv)
      done  == next = c + Length(p, c)
      owned == [p EXCEPT !.cell_of = [e \in Pos |->
                  IF \E i \in c .. next - 1 : p.elements[i] = e
                  THEN c ELSE @[e]]]
      split == AuxSplitInTwo(owned, c, next - c)
      both  == QueueSmaller(IF done THEN owned ELSE split, c, largest)
  IN  CASE done /\ (queued \/ largest = Nil) -> owned
        [] done /\ ~queued /\ largest # Nil ->
             IF IsUnit(both.p, both.largest)
             THEN QueueAdd(both.p, both.largest) ELSE both.p
        [] ~done /\ queued ->
             SplitSorted(QueueAdd(split, next), next, iv, TRUE, Nil)
        [] ~done /\ ~queued /\ largest = Nil ->
             SplitSorted(split, next, iv, FALSE, c)
        [] ~done /\ ~queued /\ largest # Nil ->
             SplitSorted(both.p, next, iv, FALSE, both.largest)

(* zplit_cell: split cell c by the values iv of its elements.              *)
ZplitCell(p, c, iv) ==
  LET s     == Members(p, c)
      max   == Max({iv[e] : e \in ToSet(s)})
      count == Len(SelectSeq(s, LAMBDA e : iv[e] = max))
      order == IF max < CountLimit THEN SortCounting(s, iv, max)
               ELSE ShellSort(s, iv)
  IN  CASE count = Len(s) -> p
        [] count < Len(s) /\ max = 1 -> SplitBinary(p, c, iv, count)
        [] count < Len(s) /\ max # 1 ->
             SplitSorted(Reordered(p, c, order), c, iv, Queued(p, c), Nil)

-----------------------------------------------------------------------------
(* Backtracking.                                                           *)

SetBacktrackPoint(p) ==
  [p EXCEPT !.bt = Append(@, Len(p.stack)),
            !.cr.bt = IF p.cr.enabled
                      THEN Append(@, [created |-> Len(p.cr.created),
                                      splitted |-> Len(p.cr.splitted)])
                      ELSE @]

(* The cell left of position first that was there when the refinement      *)
(* stack had dest entries, and the cells that have been split off it since.*)
Survivor(p, first, dest) ==
  Max({c \in Live(p) : c <= first /\ p.cells[c].split_level <= dest})

SplitOff(p, c, dest) ==
  {d \in Live(p) : \A x \in Live(p) :
     c < d /\ (c < x /\ x <= d => p.cells[x].split_level > dest)}

(* Variant: only the elements of the next cell are given back. *)
MergedNextOnly(p, c, dest) ==
  LET gone  == SplitOff(p, c, dest)
      units == Cardinality({d \in gone \cup {c} : IsUnit(p, d)})
  IN  [p EXCEPT
        !.cells = [d \in DOMAIN @ \ gone |->
          IF d = c THEN [@[d] EXCEPT !.length =
                           Max({x + Length(p, x) : x \in gone}) - c]
          ELSE @[d]],
        !.discrete = @ - units,
        !.cell_of = [e \in Pos |-> IF @[e] = Min(gone) THEN c ELSE @[e]]]

(* The survivor is as long again as it was at the backtrack point. *)
Merged(p, c, dest) ==
  LET gone  == SplitOff(p, c, dest)
      units == Cardinality({d \in gone \cup {c} : IsUnit(p, d)})
  IN  [p EXCEPT
        !.cells = [d \in DOMAIN @ \ gone |->
          IF d = c THEN [@[d] EXCEPT !.length =
                           Max({x + Length(p, x) : x \in gone}) - c]
          ELSE @[d]],
        !.discrete = @ - units,
        !.cell_of = [e \in Pos |-> IF @[e] \in gone THEN c ELSE @[e]]]

CellAt(p, i) == IF i = Nil THEN Nil ELSE p.cell_of[p.elements[i]]

(* One entry of the refinement stack is taken back: the cell it made, if   *)
(* it is still there, goes back into the one it came from, with whatever   *)
(* lies between; the list of the nonsingleton cells gets the neighbours    *)
(* the entry names.                                                        *)
Undo(p, e, dest) ==
  LET here == CellAt(p, e.first)
      c    == IF here = e.first THEN Survivor(p, e.first, dest) ELSE here
      q    == IF here = e.first THEN Merged(p, c, dest) ELSE p
  IN  Linked(Linked(q, CellAt(q, e.prev_ns), c), c, CellAt(q, e.next_ns))

(* goto_backtrack_point *)
GotoBacktrackPoint(p, k) ==
  LET dest == p.bt[k]
      q == [p EXCEPT !.bt = SubSeq(@, 1, k - 1),
                     !.stack = SubSeq(@, 1, dest),
                     !.cr = IF @.enabled THEN CrGoto(@, k) ELSE @]
  IN  FoldLeft(LAMBDA r, e : Undo(r, e, dest), q,
               Reverse(SubSeq(p.stack, dest + 1, Len(p.stack))))
=============================================================================
