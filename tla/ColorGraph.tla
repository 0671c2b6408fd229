----------------------------- MODULE ColorGraph -----------------------------
(***************************************************************************)
(* class Graph (Graph.cpp): the coloured graph of a formula.  Vertices     *)
(* 0 .. 2 * n - 1 are the literals, one more vertex is added for every     *)
(* clause.  A graph is the record of                                       *)
(*   bliss       the graph of bliss with its colours (vertex_to_color is a *)
(*               copy of them)                                             *)
(*   colorcount  how many vertices have each colour; colour c is counted   *)
(*               at position c + 1                                         *)
(*   used        used_lits, the literals that occur in a clause            *)
(***************************************************************************)
EXTENDS BLits, BlissGraph

LiteralColor == 0
ClauseColor == 1

(* Graph(conf): every literal is a neighbour of its negation.  The number  *)
(* of clauses is not known yet; 100 stands for it.                         *)
NewColorGraph(n) ==
  [bliss |-> FoldLeft(LAMBDA g, v : AddEdge(g, MkLit(v - 1, FALSE),
                                               MkLit(v - 1, TRUE)),
                      NewGraph(2 * n), [v \in 1 .. n |-> v]),
   colorcount |-> <<2 * n, 100>>,
   used |-> {}]

ColorOf(g, v) == g.bliss.color[v]
CountOf(g, c) == g.colorcount[c + 1]

(* Variant: a colour of two literals counts as unique. *)
SetUniqueColorOfThree(g, l) ==
  LET c == ColorOf(g, l)
  IN  IF CountOf(g, c) <= 2 THEN g
      ELSE [g EXCEPT !.bliss = ChangeColor(@, l, Len(g.colorcount)),
                     !.colorcount = Append([@ EXCEPT ![c + 1] = @ - 1], 1)]

(* setUniqueColor: the literal gets the next colour, unless it is the only *)
(* one of its colour.                                                      *)
SetUniqueColor(g, l) ==
  LET c == ColorOf(g, l)
  IN  IF CountOf(g, c) = 1 THEN g
      ELSE [g EXCEPT !.bliss = ChangeColor(@, l, Len(g.colorcount)),
                     !.colorcount = Append([@ EXCEPT ![c + 1] = @ - 1], 1)]

SetUniqueColors(g, lits) == FoldLeft(SetUniqueColor, g, lits)

(* add_clause: the literal of a unit clause is fixed; the vertex of the    *)
(* clause has an edge for every occurrence of a literal in it.             *)
AddClauseVertex(g, clause) ==
  LET colored == IF Len(clause) = 1 THEN SetUniqueColor(g, clause[1]) ELSE g
      v == Order(colored.bliss)
      vertex == AddVertex(colored.bliss, ClauseColor)
  IN  [colored EXCEPT
         !.bliss = FoldLeft(LAMBDA h, l : AddEdge(h, v, l), vertex, clause),
         !.used = @ \cup ToSet(clause)]

(* end_dynamic_cnf: the clauses are counted and every literal that occurs  *)
(* in none is fixed.                                                       *)
EndDynamic(g, n) ==
  LET unused(l) == l \notin g.used
      counted == [g EXCEPT !.colorcount[ClauseColor + 1] =
                              Order(g.bliss) - 2 * n]
  IN  SetUniqueColors(counted,
        SelectSeq([k \in 1 .. 2 * n |-> k - 1], unused))

-----------------------------------------------------------------------------
(* What bliss may report for the graph: the permutations of the vertices   *)
(* that keep the colours and the edges, built vertex by vertex.  Each is   *)
(* the sequence of the images of 0, 1, ...  (nbs are the neighbours of     *)
(* every vertex, as a set.)                                                *)
Fits(g, nbs, s, w) ==
  LET v == Len(s)
  IN  /\ g.color[w] = g.color[v]
      /\ Cardinality(nbs[w]) = Cardinality(nbs[v])
      /\ \A k \in DOMAIN s :
            s[k] # w /\ ((k - 1) \in nbs[v] <=> s[k] \in nbs[w])

AutomorphismsOf(g) ==
  LET grown(maps, nbs) ==
        UNION {{Append(s, w) : w \in {x \in VerticesOf(g) :
                                         Fits(g, nbs, s, x)}} : s \in maps}
      all(nbs) ==
        LET maps[k \in 0 .. Order(g)] ==
              IF k = 0 THEN {<<>>} ELSE grown(maps[k - 1], nbs)
        IN  maps[Order(g)]
  IN  UNION {all(nbs) : nbs \in {[v \in VerticesOf(g) |-> Adjacent(g, v)]}}

(* addBlissPermutation: only the images of the 2 * n literals are kept.    *)
LiteralPart(aut, n) == [l \in 0 .. 2 * n - 1 |-> aut[l + 1]]

LitSymmetries(g, n) == {LiteralPart(aut, n) : aut \in AutomorphismsOf(g.bliss)}
=============================================================================
