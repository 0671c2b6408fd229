------------------------------ MODULE MCCalls ------------------------------
(* Calls for a triangle and a square in any numbering, and for graphs of   *)
(* two colours on the first vertices; an exchange of neighbours numbers    *)
(* the graph of the second call.                                           *)
EXTENDS BlissCalls

GraphOf(edges, color) ==
  [edges |-> [v \in Pos |->
     Ascending({w \in Pos : <<v, w>> \in edges \/ <<w, v>> \in edges})],
   color |-> color]

Setting(canonical, prunes, fails, comprec, sh) ==
  [canonical |-> canonical, long_prune |-> prunes,
   failure_recording |-> fails, comprec |-> comprec, sh |-> sh]

OneColor == [v \in Pos |-> 0]

Round(s) == {{s[i], s[IF i = Len(s) THEN 1 ELSE i + 1]} : i \in DOMAIN s}
Pairs(s) == {e \in Pos \X Pos : {e[1], e[2]} \in s}
Triangles == {t \in SUBSET Pos : Cardinality(t) = 3 /\ 0 \in t}
Square(t) == LET r == Ascending(Pos \ t) IN Round(<<r[1], r[2], r[4], r[3]>>)
TrianglesAndSquares ==
  {GraphOf(Pairs(Round(Ascending(t)) \cup Square(t)), OneColor) :
     t \in Triangles}

(* The vertices from 4 on differ in colour. *)
Small ==
  {GraphOf(s, [v \in Pos |-> IF v < k THEN 1 ELSE IF v < 4 THEN 0 ELSE v]) :
     s \in SUBSET {e \in (0 .. 3) \X (0 .. 3) : e[1] < e[2]}, k \in {0, 2}}

MCGraphs == TrianglesAndSquares \cup Small
MCOptions == {Setting(TRUE, TRUE, TRUE, TRUE, "flm"),
              Setting(TRUE, FALSE, FALSE, FALSE, "fs"),
              Setting(FALSE, TRUE, FALSE, TRUE, "fm")}

(* More steps than any of these searches takes, and fewer. *)
EnoughSteps == 100
MCLimits == {2, 9, 17, 24, EnoughSteps}

MCPerms == {[v \in Pos |-> IF v = i THEN i + 1 ELSE IF v = i + 1 THEN i
                           ELSE v] : i \in 0 .. N - 2}

(* A search that is not limited goes through its whole tree and ends. *)
EndsByItself ==
  (pc = "start" /\ steps = EnoughSteps) ~> (pc = "done" /\ path = <<>>)
=============================================================================
