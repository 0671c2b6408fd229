----------------------------- MODULE SplitCell -----------------------------
(***************************************************************************)
(* Which cell the search of bliss splits next (bliss/graph.cc): the        *)
(* components of the nonuniformly joined cells, and the heuristics that    *)
(* choose a cell of the current component level.                           *)
(***************************************************************************)
EXTENDS Refinement

(* The edges from the first vertex of cell c to the cell d are not all or  *)
(* none of those there could be.                                           *)
NonUniform(g, q, c, d) ==
  Cardinality(Adjacent(g, q.elements[c]) \cap CellSet(q, d))
    \notin {0, Length(q, d)}

AtLevel(q, level) ==
  {c \in NonUnits(q) : q.cr.enabled => q.cr.level[c] = level}

NeighbourCells(g, q, c) == {d \in NonUnits(q) : NonUniform(g, q, c, d)}

(* sh_first, sh_first_smallest, sh_first_largest and their versions with   *)
(* the most nonuniformly joined neighbours: what makes a cell preferred,   *)
(* the most important first.                                               *)
Preference(g, q, sh, c) ==
  CASE sh = "f"   -> <<-c>>
    [] sh = "fs"  -> <<-Length(q, c), -c>>
    [] sh = "fl"  -> <<Length(q, c), -c>>
    [] sh = "fm"  -> <<Cardinality(NeighbourCells(g, q, c)), -c>>
    [] sh = "fsm" -> <<Cardinality(NeighbourCells(g, q, c)),
                       -Length(q, c), -c>>
    [] sh = "flm" -> <<Cardinality(NeighbourCells(g, q, c)),
                       Length(q, c), -c>>

Preferred(g, q, sh, cells) ==
  CHOOSE c \in cells : \A d \in cells :
    Compare(Preference(g, q, sh, c), Preference(g, q, sh, d)) >= 0

(* nucr_find_first_component: the cells joined nonuniformly, directly or   *)
(* not, with the first nonsingleton cell of the level.  The version for    *)
(* the root stays inside the level, the other one does not look at it.     *)
RECURSIVE Connected(_, _, _, _)
Grown(g, q, cells, within) ==
  cells \cup {d \in within \ cells : \E c \in cells : NonUniform(g, q, c, d)}
Connected(g, q, cells, within) ==
  IF Grown(g, q, cells, within) = cells THEN cells
  ELSE Connected(g, q, Grown(g, q, cells, within), within)

Component(g, q, level, within) ==
  IF AtLevel(q, level) = {} THEN {}
  ELSE Connected(g, q, {Min(AtLevel(q, level))}, within)

ElementsOf(q, cells) == Cardinality(UNION {CellSet(q, c) : c \in cells})
=============================================================================
