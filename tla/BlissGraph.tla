----------------------------- MODULE BlissGraph -----------------------------
(***************************************************************************)
(* class Graph of bliss (bliss/graph.cc): a vertex-coloured undirected     *)
(* graph, as the adjacency list and the colour of every vertex.            *)
(* Vertices are numbered from 0.                                           *)
(***************************************************************************)
EXTENDS Integers, Sequences, FiniteSets, SequencesExt, TLC

VerticesOf(g)   == DOMAIN g.edges
Order(g)        == Cardinality(VerticesOf(g))
Degree(g, v)    == Len(g.edges[v])
Adjacent(g, v)  == ToSet(g.edges[v])

(* Graph(n) *)
NewGraph(n) == [edges |-> [v \in 0 .. n - 1 |-> <<>>],
                color |-> [v \in 0 .. n - 1 |-> 0]]

AddVertex(g, c) ==
  LET new == Order(g)
  IN  [edges |-> [v \in 0 .. new |-> IF v = new THEN <<>> ELSE g.edges[v]],
       color |-> [v \in 0 .. new |-> IF v = new THEN c ELSE g.color[v]]]

(* A self-loop puts the vertex twice in its own list. *)
AddEdge(g, v1, v2) ==
  LET half == [g EXCEPT !.edges[v1] = Append(@, v2)]
  IN  [half EXCEPT !.edges[v2] = Append(@, v1)]

ChangeColor(g, v, c) == [g EXCEPT !.color[v] = c]

FirstOccurrences(s) ==
  FoldLeft(LAMBDA t, e : IF \E k \in DOMAIN t : t[k] = e THEN t
                         ELSE Append(t, e), <<>>, s)

RemoveDuplicateEdges(g) ==
  [g EXCEPT !.edges = [v \in DOMAIN @ |-> FirstOccurrences(@[v])]]

SortEdges(g) == [g EXCEPT !.edges = [v \in DOMAIN @ |-> SortSeq(@[v], <)]]

(* permute: vertex v becomes perm[v]; the lists are sorted. *)
Permute(g, perm) ==
  LET source(w) == CHOOSE x \in VerticesOf(g) : perm[x] = w
      image(s) == [k \in DOMAIN s |-> perm[s[k]]]
  IN  [edges |-> [w \in VerticesOf(g) |->
                    SortSeq(image(g.edges[source(w)]), <)],
       color |-> [w \in VerticesOf(g) |-> g.color[source(w)]]]

(* cmp: number of vertices, colours, degrees and edges, in this order.     *)
Signature(g) ==
  LET h == SortEdges(RemoveDuplicateEdges(g))
      row(f) == [i \in 1 .. Order(h) |-> f[i - 1]]
      degrees == [v \in VerticesOf(h) |-> Degree(h, v)]
  IN  <<Order(h)>> \o row(h.color) \o row(degrees) \o FlattenSeq(row(h.edges))

Compare(s, t) ==
  LET differ == {k \in DOMAIN s \cap DOMAIN t : s[k] # t[k]}
      k == CHOOSE i \in differ : \A j \in differ : i <= j
  IN  IF differ = {} THEN 0 ELSE IF s[k] < t[k] THEN -1 ELSE 1

Cmp(g, h) == Compare(Signature(g), Signature(h))

(* get_hash, up to what it hashes: the vertices, their colours and every   *)
(* edge once, from its smaller end.                                        *)
HashInput(g) ==
  LET h == SortEdges(RemoveDuplicateEdges(g))
      row(f) == [i \in 1 .. Order(h) |-> f[i - 1]]
      up(v) == SelectSeq(h.edges[v], LAMBDA w : w >= v)
      pairs(v) == [k \in DOMAIN up(v) |-> <<v, up(v)[k]>>]
  IN  <<Order(h), row(h.color),
        FlattenSeq([i \in 1 .. Order(h) |-> pairs(i - 1)])>>

(* is_automorphism (both overloads): the neighbours of every vertex are    *)
(* mapped to those of its image.  Colours are not looked at.               *)
IsAutomorphism(g, perm) ==
  \A v \in VerticesOf(g) :
    {perm[w] : w \in Adjacent(g, v)} = Adjacent(g, perm[v])

-----------------------------------------------------------------------------
(* The invariants of the initial partition.                                *)

VertexColorInvariant(g) == g.color
DegreeInvariant(g)      == [v \in VerticesOf(g) |-> Degree(g, v)]
SelfloopInvariant(g)    ==
  [v \in VerticesOf(g) |-> IF v \in Adjacent(g, v) THEN 1 ELSE 0]

-----------------------------------------------------------------------------
(* References for the checks.                                              *)

PreservesColors(g, perm) == \A v \in VerticesOf(g) : g.color[perm[v]] = g.color[v]

(* The images of the first k vertices under an automorphism, as far as     *)
(* these vertices tell.                                                    *)
RECURSIVE PartialAut(_, _)
PartialAut(g, k) ==
  IF k = 0 THEN {<<>>}
  ELSE {f \in {Append(h, w) : h \in PartialAut(g, k - 1), w \in VerticesOf(g)} :
          /\ g.color[f[k]] = g.color[k - 1]
          /\ \A i \in 1 .. k :
               /\ i < k => f[i] # f[k]
               /\ (i - 1 \in Adjacent(g, k - 1)) = (f[i] \in Adjacent(g, f[k]))}

Aut(g) == {[v \in VerticesOf(g) |-> f[v + 1]] : f \in PartialAut(g, Order(g))}
=============================================================================
