------------------------------ MODULE MCSearch ------------------------------
(* Searches of graphs that take the search through every case of its loop: *)
(* three hubs with components inside components, two hubs whose components *)
(* only the edges between unit cells tell apart, a triangle and a square   *)
(* in several numberings, and graphs of two halves.  The vertices that are *)
(* not needed are told apart by their colours and degrees.                 *)
EXTENDS Search

Setting(canonical, prunes, fails, comprec, sh) ==
  [canonical |-> canonical, long_prune |-> prunes,
   failure_recording |-> fails, comprec |-> comprec, sh |-> sh]

(* The graph of these edges, added in increasing order. *)
GraphOf(edges, color) ==
  [edges |-> [v \in Pos |->
     Ascending({w \in Pos : <<v, w>> \in edges \/ <<w, v>> \in edges})],
   color |-> color]

(* A graph of vertices with these colours in front of vertices that differ *)
(* in their colour, 10 or 11, or in the number of their edges.             *)
Padded(edges, colors) ==
  LET pads == Len(colors) .. N - 1
  IN  GraphOf(edges \cup {e \in pads \X pads : /\ e[1] % 2 = 0 /\ e[2] % 2 = 1
                                             /\ e[1] < e[2]},
              [v \in Pos |-> IF v < Len(colors) THEN colors[v + 1]
                             ELSE 10 + (v % 2)])

(* Three hubs, each joined to six vertices of colour 1 and six of colour 2 *)
(* that form a hexagon or two triangles: equal to the best path in one     *)
(* component and not in the next.                                          *)
BlockColors ==
  <<2, 1, 0, 1, 2, 1, 1, 2, 2, 1, 1, 2, 1, 2, 2, 1, 2, 2, 2, 2, 2, 1, 1, 0,
    2, 1, 0, 2, 1, 2, 1, 1, 2, 1, 1, 2, 2, 1, 1>>
BlockEdges ==
  {<<0,13>>, <<0,16>>, <<0,23>>, <<1,5>>, <<1,23>>, <<1,38>>, <<2,8>>,
   <<2,9>>, <<2,10>>, <<2,11>>, <<2,12>>, <<2,18>>, <<2,19>>, <<2,21>>,
   <<2,24>>, <<2,30>>, <<2,36>>, <<2,37>>, <<3,15>>, <<3,22>>, <<3,26>>,
   <<4,14>>, <<4,26>>, <<4,29>>, <<5,23>>, <<5,31>>, <<6,23>>, <<6,25>>,
   <<6,31>>, <<7,20>>, <<7,26>>, <<7,29>>, <<8,11>>, <<8,18>>, <<9,10>>,
   <<9,21>>, <<10,12>>, <<11,19>>, <<12,37>>, <<13,16>>, <<13,23>>,
   <<14,17>>, <<14,26>>, <<15,22>>, <<15,26>>, <<16,23>>, <<17,20>>,
   <<17,26>>, <<18,24>>, <<19,36>>, <<20,26>>, <<21,30>>, <<22,26>>,
   <<23,25>>, <<23,27>>, <<23,31>>, <<23,32>>, <<23,35>>, <<23,38>>,
   <<24,36>>, <<25,38>>, <<26,28>>, <<26,29>>, <<26,33>>, <<26,34>>,
   <<27,32>>, <<27,35>>, <<28,33>>, <<28,34>>, <<30,37>>, <<32,35>>,
   <<33,34>>}
Blocks == Padded(BlockEdges, BlockColors)

(* Hub h is vertex h, its pairs are 2 + 6h .. 7 + 6h; vertices k and k + 3 *)
(* of these are a pair of one colour.                                      *)
Member(h, k) == 2 + 6 * h + k
Spokes(h)    == {<<h, Member(h, k)>> : k \in 0 .. 5}
Hexagon(h)   == {<<Member(h, k), Member(h, (k + 1) % 6)>> : k \in 0 .. 5}
Triangles(h) ==
  {<<Member(h, k), Member(h, (k + 1) % 3)>> : k \in 0 .. 2} \cup
  {<<Member(h, k + 3), Member(h, ((k + 1) % 3) + 3)>> : k \in 0 .. 2}
HubColors == <<0, 0, 1, 2, 3, 1, 2, 3, 1, 2, 3, 1, 2, 3>>

(* The number of the first 14 vertices multiplied by m modulo 15.          *)
Numbered(g, m) ==
  Permute(g, [v \in Pos |-> IF v > 13 THEN v
                            ELSE (((v + 1) * m) % 15) - 1])
Hubs ==
  {Numbered(Padded(Spokes(0) \cup Spokes(1) \cup a \cup b, HubColors), m) :
     a \in {Hexagon(0), Triangles(0)}, b \in {Hexagon(1), Triangles(1)},
     m \in {1, 7}}

(* A square and a triangle; the vertices of the triangle are 0, s and 6. *)
Shapes(s) ==
  LET rest == Ascending((1 .. 5) \ {s})
  IN  Padded({<<0, s>>, <<s, 6>>, <<0, 6>>, <<rest[1], rest[2]>>,
               <<rest[2], rest[4]>>, <<rest[4], rest[3]>>,
               <<rest[3], rest[1]>>}, <<0, 0, 0, 0, 0, 0, 0>>)

(* Two halves; edges added twice and from a vertex to itself; a graph its  *)
(* colours make discrete.                                                  *)
Added(colors, edges) ==
  FoldLeft(LAMBDA g, e : AddEdge(g, e[1], e[2]), Padded({}, colors), edges)
Halves ==
  {Added(<<0, 0, 0, 0, 0, 0>>, e) :
     e \in {<<<<0, 1>>, <<2, 3>>, <<1, 0>>, <<3, 2>>, <<4, 5>>>>,
            <<<<0, 0>>, <<3, 3>>, <<0, 1>>>>,
            <<<<0, 1>>, <<1, 2>>, <<3, 4>>, <<4, 5>>>>,
            <<<<0, 1>>, <<1, 2>>, <<2, 0>>, <<3, 4>>, <<4, 5>>>>}}
  \cup {Added(<<0, 0, 0, 1, 1, 1>>, <<<<0, 3>>, <<1, 4>>, <<2, 5>>>>),
        Added(<<4, 1, 0, 2, 3, 5>>, <<<<0, 1>>>>)}

MCGraphs == {Blocks} \cup Hubs \cup {Shapes(s) : s \in 1 .. 5} \cup Halves
MCOptions ==
  {Setting(TRUE, TRUE, TRUE, TRUE, "flm"), Setting(TRUE, FALSE, FALSE, TRUE, "f"),
   Setting(FALSE, TRUE, TRUE, TRUE, "flm")}
NoLimit == {10000}
=============================================================================
