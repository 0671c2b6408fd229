------------------------- MODULE BacktrackPartition -------------------------
(***************************************************************************)
(* A Partition under any sequence of the calls its owner may make: split a *)
(* cell by invariant values, individualize, take cells from the splitting  *)
(* queue, set a backtrack point, go back to any of them and, with          *)
(* component recursion, give cells a level of their own.  view is what the *)
(* owner sees of the partition and saved what each backtrack point should  *)
(* bring back; no step depends on them.                                    *)
(***************************************************************************)
EXTENDS Partition

CONSTANTS MaxValue,      \* bound: invariant values are 0 .. MaxValue
          MaxPoints,     \* bound on the backtrack points set at one time
          MaxCrLevel,    \* bound on the component recursion levels
          Recursions     \* with or without component recursion

VARIABLES p, view, saved
vars == <<p, view, saved>>

(* What the search sees of q: the cells in order, and their levels. *)
View(q) ==
  LET firsts == Ascending(Live(q))
  IN  [cells |-> [i \in DOMAIN firsts |-> CellSet(q, firsts[i])],
       level |-> [i \in DOMAIN firsts |->
                    IF q.cr.enabled THEN q.cr.level[firsts[i]] ELSE 0]]

Init ==
  /\ \E cr \in Recursions :
       p = IF cr THEN CrInit(InitPartition) ELSE InitPartition
  /\ view = View(p)
  /\ saved = <<>>

(* zplit_cell on a cell whose elements were given values; refinement does  *)
(* so for nonsingleton cells only.                                         *)
DoZplit ==
  /\ \E c \in NonUnits(p) : \E iv \in [CellSet(p, c) -> 0 .. MaxValue] :
       p' = ZplitCell(p, c, iv)
  /\ UNCHANGED saved

(* The search individualizes in a cell when the refinement is done, and    *)
(* queues the new cell, after the old one if that is a unit cell now.      *)
DoIndividualize ==
  /\ p.queue = <<>>
  /\ \E c \in NonUnits(p) : \E e \in CellSet(p, c) :
       LET q   == Individualize(p, c, e)
           new == q.cell_of[e]
       IN  p' = QueueAdd(IF IsUnit(q, c) THEN QueueAdd(q, c) ELSE q, new)
  /\ UNCHANGED saved

DoPop ==
  /\ p.queue # <<>>
  /\ p' = QueuePop(p)
  /\ UNCHANGED saved

(* splitting_queue_clear, when a refinement is abandoned. *)
DoClear ==
  /\ p.queue # <<>>
  /\ p' = QueueClear(p)
  /\ UNCHANGED saved

DoSetPoint ==
  /\ p.queue = <<>> /\ Len(p.bt) < MaxPoints
  /\ p' = SetBacktrackPoint(p)
  /\ saved' = Append(saved, view)

DoGoto ==
  /\ p.queue = <<>>
  /\ \E k \in DOMAIN p.bt :
       /\ p' = GotoBacktrackPoint(p, k)
       /\ saved' = SubSeq(saved, 1, k - 1)

DoCrSplitLevel ==
  /\ p.cr.enabled /\ p.queue = <<>> /\ p.cr.max_level < MaxCrLevel
  /\ \E level \in 0 .. p.cr.max_level :
       \E cells \in SUBSET {c \in NonUnits(p) : p.cr.level[c] = level} :
         p' = CrSplitLevel(p, level, cells)
  /\ UNCHANGED saved

Step == \/ DoZplit \/ DoIndividualize \/ DoPop \/ DoClear
        \/ DoSetPoint \/ DoGoto \/ DoCrSplitLevel

Next == Step /\ view' = View(p')

Spec == Init /\ [][Next]_vars

-----------------------------------------------------------------------------
(* Types; a cell is queued at most once, so the ring buffer of N places    *)
(* cannot overflow, and only cells that exist are queued; exactly these    *)
(* have a level, none above cr_max_level (cr_create_at_level's asserts).   *)
TypeOK ==
  /\ p.elements \in [Pos -> Pos] /\ p.cell_of \in [Pos -> Live(p)]
  /\ Live(p) \subseteq Pos /\ p.first_ns \in Pos \cup {Nil}
  /\ p.discrete \in 0 .. N
  /\ \A c \in Live(p) : p.cells[c].length \in 1 .. N
  /\ \A i \in DOMAIN p.bt : p.bt[i] \in 0 .. Len(p.stack)
  /\ Len(saved) = Len(p.bt)
  /\ ToSet(p.queue) \subseteq Live(p)
  /\ Len(p.queue) = Cardinality(ToSet(p.queue))
  /\ p.cr.enabled =>
       \A c \in Pos : IF c \in Live(p)
                      THEN p.cr.level[c] \in 0 .. p.cr.max_level
                      ELSE p.cr.level[c] = Nil

(* The cells are intervals that follow each other, and every element is    *)
(* mapped to the interval it stands in, after any mixture of splits and    *)
(* merges: get_cell may be trusted.                                        *)
CellsTile ==
  /\ {p.elements[i] : i \in Pos} = Pos
  /\ UNION {c .. c + Length(p, c) - 1 : c \in Live(p)} = Pos
  /\ \A c \in Live(p) : \A e \in CellSet(p, c) : p.cell_of[e] = c

(* The list of the nonsingleton cells holds exactly those, in the order of *)
(* the partition, in both directions, and discrete_cell_count counts the   *)
(* others: what the splitting heuristics and is_discrete's callers walk.   *)
NonsingletonList ==
  LET order == Ascending(NonUnits(p))
      at(i) == IF i \in DOMAIN order THEN order[i] ELSE Nil
  IN  /\ p.first_ns = at(1)
      /\ \A i \in DOMAIN order : /\ p.cells[order[i]].next_ns = at(i + 1)
                                 /\ p.cells[order[i]].prev_ns = at(i - 1)
      /\ \A c \in Live(p) : IsUnit(p, c) =>
           p.cells[c].next_ns = Nil /\ p.cells[c].prev_ns = Nil
      /\ p.discrete = Cardinality(Live(p)) - Len(order)

(* element_to_cell_map, the cells and the list of the nonsingleton cells   *)
(* say the same thing three times, and always agree.                       *)
CellsAgree == CellsTile /\ NonsingletonList

(* What refinement needs of a split (Hopcroft's condition): if the cell    *)
(* was queued all its parts are; if not, all but one are, the one left out *)
(* is no smaller than the others, and it is not a unit cell.               *)
EnoughQueued ==
  [][Len(p'.stack) > Len(p.stack) => \A c \in Live(p) :
       LET parts == {d \in Live(p)' : d \in c .. c + Length(p, c) - 1}
           out   == {d \in parts : ~Queued(p', d)}
       IN  IF Queued(p, c) THEN out = {}
           ELSE Cardinality(parts) > 1 =>
             /\ Cardinality(out) <= 1
             /\ \A d \in out, x \in parts :
                  Length(p', d) > 1 /\ Length(p', x) <= Length(p', d)]_vars

(* zplit_cell, whichever of its three routines sorts, turns a cell into    *)
(* one cell for each value, in the order of the values, and touches        *)
(* nothing else (checked for every cell and values that take each branch). *)
SplitsByValue ==
  p.queue = <<>> /\ saved = <<>> =>
    \A c \in NonUnits(p) : \A iv \in [CellSet(p, c) -> 0 .. CountLimit] :
      LET q     == ZplitCell(p, c, iv)
          of(v) == {e \in CellSet(p, c) : iv[e] = v}
          parts == {of(v) : v \in {iv[e] : e \in CellSet(p, c)}}
      IN  /\ {CellSet(q, d) : d \in Live(q)} =
               parts \cup {CellSet(p, d) : d \in Live(p) \ {c}}
          /\ \A i \in Pos : i \notin c .. c + Length(p, c) - 1 =>
               q.elements[i] = p.elements[i]
          /\ \A i, j \in c .. c + Length(p, c) - 1 :
               i <= j => iv[q.elements[i]] <= iv[q.elements[j]]

-----------------------------------------------------------------------------
(* The refinement mapping: the cells in order, as sets. *)
Ordered == INSTANCE OrderedPartition WITH
  Vertices <- Pos, cells <- view.cells, level <- view.level,
  points <- saved

(* The partition is only refined, and a backtrack point brings back the    *)
(* cells, their order and their levels as they were when it was set.       *)
Implements == Ordered!Spec
=============================================================================
