-------------------------- MODULE OrderedPartition --------------------------
(***************************************************************************)
(* What class Partition promises to the search (bliss/partition.hh): an    *)
(* ordered partition of the vertices that is only ever refined in place,   *)
(* and backtrack points that bring back exactly what was saved.            *)
(* cells is the sequence of the cells, level the component recursion level *)
(* of each (all 0 until component recursion is switched on) and points     *)
(* the stack of what the backtrack points saved.                           *)
(***************************************************************************)
EXTENDS Integers, Sequences, FiniteSets

CONSTANT Vertices

VARIABLES cells, level, points
vars == <<cells, level, points>>

Covers(c) ==
  /\ \A i \in DOMAIN c : c[i] # {}
  /\ UNION {c[i] : i \in DOMAIN c} = Vertices
  /\ \A i, j \in DOMAIN c : i # j => c[i] \cap c[j] = {}

(* The position in the ordered partition c of the first vertex of cell i.  *)
First(c, i) == Cardinality(UNION {c[j] : j \in 1 .. i - 1})

(* Every cell of d lies inside one of c, and the cells keep their places.  *)
Refines(d, c) ==
  /\ Covers(d)
  /\ \A i \in DOMAIN c :
       \E j \in DOMAIN d : d[j] \subseteq c[i] /\ First(d, j) = First(c, i)
  /\ \A j \in DOMAIN d : \E i \in DOMAIN c : d[j] \subseteq c[i]

Init == cells = <<Vertices>> /\ level = <<0>> /\ points = <<>>

(* One cell is split; its parts stay at its level.                         *)
Split ==
  /\ UNCHANGED points
  /\ Refines(cells', cells)
  /\ \A i \in DOMAIN cells, j \in DOMAIN cells' :
       cells'[j] \subseteq cells[i] => level'[j] = level[i]
  /\ DOMAIN level' = DOMAIN cells'

(* Some of the cells of one level move to a new one, the highest so far.   *)
SplitLevel ==
  /\ UNCHANGED <<cells, points>>
  /\ \E i \in DOMAIN cells, top \in 1 .. Cardinality(Vertices) :
       \E moved \in SUBSET {j \in DOMAIN cells : level[j] = level[i]} :
         /\ \A j \in DOMAIN level : level[j] < top
         /\ level' = [j \in DOMAIN cells |-> IF j \in moved THEN top
                                             ELSE level[j]]

Save ==
  /\ points' = Append(points, [cells |-> cells, level |-> level])
  /\ UNCHANGED <<cells, level>>

Restore ==
  \E k \in DOMAIN points :
    /\ points' = SubSeq(points, 1, k - 1)
    /\ cells' = points[k].cells
    /\ level' = points[k].level

Next == Save \/ Restore \/ Split \/ SplitLevel
Spec == Init /\ [][Next]_vars
=============================================================================
