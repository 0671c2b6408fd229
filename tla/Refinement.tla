----------------------------- MODULE Refinement -----------------------------
(***************************************************************************)
(* Refinement to an equitable partition (bliss/graph.cc, AbstractGraph and *)
(* Graph): the neighbours of every cell of the splitting queue are split   *)
(* by the number of edges they get from it, and a certificate of what      *)
(* happened is built and compared with those of the first and of the best  *)
(* path on the way.                                                        *)
(*                                                                         *)
(* A refinement is a record r with the partition p, the certificate built  *)
(* so far (a sequence of triples), the results of the comparisons, and     *)
(* what it reads: the graph and the certificates of the two paths with     *)
(* the ends of the parts to compare with.  compute_eqref_hash is never     *)
(* set, so eqref_hash is left out; the hash of failure recording (dev) is  *)
(* the sequence of what is hashed.                                         *)
(***************************************************************************)
EXTENDS Partition, BlissGraph

CERT_SPLIT == 0
CERT_EDGE  == 1

(* No longer equal to the first path and worse than the best one. *)
Worse(r) == r.compare /\ ~r.equal_to_first /\ r.cmp_to_best < 0

(* The triple t against the k-th of a path whose part ends at end. *)
CompareTriple(cert, end, k, t) ==
  IF k > end THEN 1 ELSE Compare(t, cert[k])

(* cert_add, cert_add_redundant: compare, and append unless it is worse.   *)
CertCompared(r, t, k, equal) ==
  [r EXCEPT !.equal_to_first = equal,
            !.cmp_to_best = IF @ # 0 THEN @
                            ELSE CompareTriple(r.best_cert, r.best_end, k, t),
            !.dev = IF r.equal_to_first /\ ~equal THEN Append(t, k) ELSE @]

CertAppended(r, t) ==
  IF Worse(r) THEN r ELSE [r EXCEPT !.cert = Append(@, t)]

CertAdd(r, t) ==
  LET k == Len(r.cert) + 1
  IN  CertAppended(
        IF ~r.compare THEN r
        ELSE CertCompared(r, t, k, /\ r.equal_to_first /\ k <= r.first_end
                                   /\ r.first_cert[k] = t), t)

(* The triples of ts one by one, until it is known to be worse. *)
CertAddAll(r, ts) ==
  FoldLeft(LAMBDA q, t : IF Worse(q) THEN q ELSE CertAdd(q, t), r, ts)

(* What failure recording hashes of a refinement that is given up: the     *)
(* cells that were still to be split.                                      *)
DeviationRest(r, was_equal, rest) ==
  [r EXCEPT !.dev = IF was_equal THEN FlattenSeq(rest) \o @ ELSE @]

-----------------------------------------------------------------------------
(* split_neighbourhood_of_cell                                             *)

(* How many edges every vertex of a nonsingleton cell gets from cell c. *)
EdgesFrom(r, c) ==
  [v \in Pos |->
     IF IsUnit(r.p, r.p.cell_of[v]) THEN 0
     ELSE Cardinality({u \in CellSet(r.p, c) : v \in Adjacent(r.graph, u)})]

PartsSince(q, p, c) ==
  Ascending({d \in Live(q) : d \in c .. c + Length(p, c) - 1})

MaxIval(p, c, iv) == Max({iv[v] : v \in CellSet(p, c)})
MaxIvalCount(p, c, iv) ==
  Cardinality({v \in CellSet(p, c) : iv[v] = MaxIval(p, c, iv)})

(* Variant: the first vertex of a part is certified, not its place. *)
SplitCertifiedVertex(r, q, c) ==
  LET parts == PartsSince(q, r.p, c)
  IN  IF ~r.in_search THEN [r EXCEPT !.p = q]
      ELSE CertAddAll([r EXCEPT !.p = q],
             [k \in DOMAIN parts |->
                <<CERT_SPLIT, q.elements[parts[k]], Length(q, parts[k])>>])

(* One triple for each part of cell c, after it was split in q. *)
SplitCertified(r, q, c) ==
  LET parts == PartsSince(q, r.p, c)
  IN  IF ~r.in_search THEN [r EXCEPT !.p = q]
      ELSE CertAddAll([r EXCEPT !.p = q],
             [k \in DOMAIN parts |->
                <<CERT_SPLIT, parts[k], Length(q, parts[k])>>])

(* The cells left in the heap and in the queue. *)
CellsLeft(q, heap, iv) ==
  [k \in DOMAIN heap |-> <<heap[k], Length(q, heap[k]),
                           MaxIval(q, heap[k], iv),
                           MaxIvalCount(q, heap[k], iv)>>]
  \o [k \in DOMAIN q.queue |-> <<q.queue[k], Length(q, q.queue[k])>>]

(* neighbour_heap is emptied from its least cell on.  If a cell makes the  *)
(* path worse the others are not split.                                    *)
RECURSIVE SplitNeighbours(_, _, _, _)
SplitNextNeighbour(r, heap, iv, was_equal) ==
  IF r.in_search /\ Worse(r)
  THEN DeviationRest(r, was_equal, CellsLeft(r.p, heap, iv))
  ELSE SplitNeighbours(r, heap, iv, was_equal)

SplitNeighbours(r, heap, iv, was_equal) ==
  IF heap = <<>> THEN r
  ELSE SplitNextNeighbour(
         SplitCertified(r, ZplitCell(r.p, Head(heap), iv), Head(heap)),
         Tail(heap), iv, was_equal)

SplitNeighbourhoodOfCell(r, c) ==
  LET iv == EdgesFrom(r, c)
  IN  SplitNeighbours(r,
        Ascending({r.p.cell_of[v] : v \in {w \in Pos : iv[w] > 0}}),
        iv, r.equal_to_first)

-----------------------------------------------------------------------------
(* split_neighbourhood_of_unit_cell: the neighbours of the vertex in cell  *)
(* u are swapped to the end of their cells, in the order of the list of    *)
(* its edges, and split off.                                               *)

SwapToEnd(p, count, v) ==
  LET c   == p.cell_of[v]
      pos == CHOOSE i \in Pos : p.elements[i] = v
  IN  [p EXCEPT !.elements =
         Swapped(@, pos, c + Length(p, c) - count[c] - 1)]

Gather(r, u) ==
  FoldLeft(LAMBDA d, v :
             LET c == r.p.cell_of[v]
             IN  IF IsUnit(r.p, c) THEN d
                 ELSE [p |-> SwapToEnd(d.p, d.count, v),
                       count |-> [d.count EXCEPT ![c] = @ + 1]],
           [p |-> r.p, count |-> [c \in Pos |-> 0]],
           r.graph.edges[r.p.elements[u]])

(* Variant: nothing is certified of the edges of a unit cell. *)
EdgesCertifiedNot(r, u, c) == r

(* One triple for each edge from u to a vertex of cell c. *)
EdgesCertified(r, u, c) ==
  IF ~r.in_search THEN r
  ELSE CertAddAll(r, [k \in 1 .. Length(r.p, c) |->
                        <<CERT_EDGE, u, c + k - 1>>])

SplitUnitNeighbour(r, u, c, k) ==
  IF IsUnit(r.p, c) \/ k = Length(r.p, c) THEN EdgesCertified(r, u, c)
  ELSE EdgesCertified([r EXCEPT !.p = SplitTail(@, c, k)], u,
                      c + Length(r.p, c) - k)

UnitCellsLeft(q, heap, count) ==
  [k \in DOMAIN heap |-> <<heap[k], Length(q, heap[k]), count[heap[k]]>>]

RECURSIVE SplitUnitNeighbours(_, _, _, _, _)
SplitNextUnitNeighbour(r, u, heap, count, was_equal) ==
  IF r.in_search /\ Worse(r)
  THEN DeviationRest(r, was_equal, UnitCellsLeft(r.p, heap, count))
  ELSE SplitUnitNeighbours(r, u, heap, count, was_equal)

SplitUnitNeighbours(r, u, heap, count, was_equal) ==
  IF heap = <<>> THEN r
  ELSE SplitNextUnitNeighbour(
         SplitUnitNeighbour(r, u, Head(heap), count[Head(heap)]),
         u, Tail(heap), count, was_equal)

SplitGathered(r, u, gathered) ==
  LET touched == {r.p.cell_of[v] : v \in Adjacent(r.graph, r.p.elements[u])}
  IN  SplitUnitNeighbours([r EXCEPT !.p = gathered.p], u,
        Ascending({c \in touched : r.in_search \/ ~IsUnit(r.p, c)}),
        gathered.count, r.equal_to_first)

SplitNeighbourhoodOfUnitCell(r, u) == SplitGathered(r, u, Gather(r, u))

-----------------------------------------------------------------------------
(* One round of do_refine_to_equitable: the first cell of the queue splits *)
(* its neighbours; the queue is cleared when the refinement is given up.   *)
SplitNeighbourhood(r, c) ==
  IF IsUnit(r.p, c) THEN SplitNeighbourhoodOfUnitCell(r, c)
  ELSE SplitNeighbourhoodOfCell(r, c)

GivenUp(r) ==
  IF r.in_search /\ Worse(r) THEN [r EXCEPT !.p = QueueClear(@)] ELSE r

RefineRound(r) ==
  GivenUp(SplitNeighbourhood([r EXCEPT !.p = QueuePop(@)], Head(r.p.queue)))

-----------------------------------------------------------------------------
(* make_initial_equitable_partition                                        *)

(* refine_according_to_invariant; the queue is cleared after it. *)
RefineBy(p, inv) ==
  QueueClear(FoldLeft(LAMBDA q, c : ZplitCell(q, c, inv), p,
                      Ascending(NonUnits(p))))

(* By colours, self-loops and degrees; then all cells are queued. *)
RefineByInvariants(p, g) ==
  RefineBy(RefineBy(RefineBy(p, VertexColorInvariant(g)),
                    SelfloopInvariant(g)), DegreeInvariant(g))

QueueAll(p, cells) == FoldLeft(QueueAdd, p, cells)

(* is_equitable: the vertices of a cell have as many edges to every cell.  *)
IsEquitable(g, p) ==
  \A c \in NonUnits(p), d \in Live(p) : \A v, w \in CellSet(p, c) :
    Cardinality(Adjacent(g, v) \cap CellSet(p, d)) =
    Cardinality(Adjacent(g, w) \cap CellSet(p, d))
=============================================================================
