----------------------------- MODULE MCMatrices -----------------------------
(* Nine variables.  Subgroups of one column and four rows; of literals     *)
(* with mixed signs; of three by three interchangeable rows, with and      *)
(* without interchangeable columns; of two variables per row that can be   *)
(* swapped on their own; and of two involutions that overlap without       *)
(* forming rows of different literals.                                     *)
EXTENDS Matrices

Variable(v) == MkLit(v, FALSE)

(* The permutation with these cycles of literals and their negations. *)
Cycles(cs) == FromCycles(cs \cup {[k \in 1 .. Len(c) |-> Neg(c[k])] : c \in cs})

Swap(v, w) == Cycles({<<Variable(v), Variable(w)>>})

Group(gens) == Products(gens, 100)

WithGenerators(gens, seqs) ==
  {[symmetries |-> Group(gens), permutations |-> s] : s \in seqs}

(* Four variables that are interchangeable, by any three transpositions. *)
Transpositions == {Swap(v, w) : v, w \in 0 .. 3} \ {IdPerm}
Trees ==
  {s \in [1 .. 3 -> Transpositions] :
      /\ s[1] = Swap(0, 1)
      /\ Domain(s[1]) \cap Domain(s[2]) # {}
      /\ UNION {Domain(s[k]) : k \in 1 .. 3} = 0 .. 7}
OneColumn == WithGenerators(Transpositions, Trees)

(* Rows of literals of both signs. *)
Signs1 == Cycles({<<Variable(0), Variable(1) + 1>>, <<Variable(3), Variable(4)>>})
Signs2 == Cycles({<<Variable(0), Variable(2)>>, <<Variable(3) + 1, Variable(5)>>})
MixedSigns ==
  WithGenerators({Signs1, Signs2}, {<<Signs1, Signs2>>, <<Signs2, Signs1>>})

(* Three rows of three columns. *)
Place(r, c) == Variable(3 * r + c)
RowsSwapped(r, s) == Cycles({<<Place(r, c), Place(s, c)>> : c \in 0 .. 2})
ColumnsSwapped(c, d) == Cycles({<<Place(r, c), Place(r, d)>> : r \in 0 .. 2})
RowsOnly ==
  WithGenerators({RowsSwapped(0, 1), RowsSwapped(1, 2)},
    {<<RowsSwapped(0, 1), RowsSwapped(0, 2)>>})

(* The same, whose columns can be swapped as well. *)
Both == Product(RowsSwapped(0, 1), ColumnsSwapped(1, 2))
Grid ==
  WithGenerators(
    {RowsSwapped(0, 1), RowsSwapped(1, 2), ColumnsSwapped(0, 1),
     ColumnsSwapped(1, 2)},
    {<<RowsSwapped(0, 1), ColumnsSwapped(0, 1), RowsSwapped(0, 2),
       ColumnsSwapped(0, 2), Both>>,
     <<ColumnsSwapped(0, 1), Both, ColumnsSwapped(1, 2), RowsSwapped(1, 2)>>})

(* Three rows of two variables, which are swapped alone as well. *)
PairsSwapped(r, s) ==
  Cycles({<<Variable(2 * r), Variable(2 * s)>>,
          <<Variable(2 * r + 1), Variable(2 * s + 1)>>})
Inner(r) == Swap(2 * r, 2 * r + 1)
Wreath ==
  WithGenerators({PairsSwapped(0, 1), PairsSwapped(1, 2), Inner(0)},
    {<<PairsSwapped(0, 1), PairsSwapped(1, 2), Inner(0)>>,
     <<Inner(2), PairsSwapped(0, 2), PairsSwapped(1, 2), Inner(1)>>})

(* The literals that the second involution moves lie in one of its cycles. *)
Overlap1 == Cycles({<<Variable(0), Variable(1)>>, <<Variable(2), Variable(3)>>})
Overlap2 == Cycles({<<Variable(0), Variable(2)>>, <<Variable(4), Variable(5)>>})
Overlapping ==
  WithGenerators({Overlap1, Overlap2},
    {<<Overlap1, Overlap2>>, <<Overlap2, Overlap1>>})

(* Four rows of two variables.  No generator maps a row to the fourth one, *)
(* the stabilizer of the first two rows does.                              *)
Late1 == Cycles({<<Variable(0), Variable(1)>>, <<Variable(4), Variable(5)>>})
Late2 == Cycles({<<Variable(0), Variable(2)>>, <<Variable(4), Variable(6)>>})
Late3 == Cycles({<<Variable(2), Variable(3)>>, <<Variable(5), Variable(7)>>})
LateRow == WithGenerators({Late1, Late2, Late3}, {<<Late1, Late2, Late3>>})

(* Three rows of two variables; the columns can be permuted on their own.  *)
Independent ==
  WithGenerators({PairsSwapped(0, 1), PairsSwapped(0, 2), Swap(2, 4)},
    {<<PairsSwapped(0, 1), Swap(2, 4), PairsSwapped(0, 2)>>})

(* Two triples of interchangeable variables that can be exchanged.         *)
Exchange == Cycles({<<Variable(v), Variable(v + 3)>> : v \in 0 .. 2})
TwoTriples ==
  WithGenerators({Swap(0, 1), Swap(0, 2), Exchange},
    {<<Swap(0, 1), Exchange, Swap(0, 2)>>, <<Exchange, Swap(3, 4), Swap(4, 5)>>})

MCSubgroups == OneColumn \cup MixedSigns \cup RowsOnly \cup Grid \cup Wreath
                \cup Overlapping \cup LateRow \cup Independent \cup TwoTriples
=============================================================================
