----------------------------- MODULE Matrices -----------------------------
(***************************************************************************)
(* Group::addMatrices (Algebraic.cpp), run by BreakID::break_symm on a     *)
(* subgroup with more than one generator: the search for matrices of       *)
(* literals whose rows are interchangeable.                                *)
(*                                                                         *)
(* Two involutions that share half of their literals give three rows.      *)
(* Further rows are images of rows under the generators and under          *)
(* generators of the stabilizer of all rows but the last, which bliss is   *)
(* asked for again.  A finished matrix makes some generators redundant;    *)
(* its columns may form a second matrix; then the search starts again.     *)
(*                                                                         *)
(* The formula (class OnlCNF) is abstracted to the set of its symmetries,  *)
(* the graph (class Graph) to the literals that have a colour of their     *)
(* own.  bliss may report any generators of the group it is asked for.     *)
(***************************************************************************)
EXTENDS Perms

LOCAL INSTANCE SequencesExt

CONSTANTS
  Subgroups,   \* the subgroups: symmetries of the formula and generators
  MaxGens      \* bound on the number of generators bliss reports

ASSUME SubgroupsAssumption ==
  \A s \in Subgroups :
     /\ s.symmetries \subseteq LitPerms
     /\ \A p, q \in s.symmetries : Product(p, q) \in s.symmetries
     /\ s.permutations \in Seq(s.symmetries)
ASSUME MaxGensAssumption == MaxGens \in Nat

VARIABLES
  symmetries,    \* the symmetries of the subgroup's formula
  permutations,  \* Group::permutations, a vector
  matrices,      \* Group::matrices, a vector of finished matrices
  unique,        \* the literals that have a unique colour in the graph
  matrix,        \* the matrix under construction, a sequence of rows
  oldNbRows,
  symgens,       \* what bliss reported last
  pc,
  i, j           \* the indices of the running loop

vars == <<symmetries, permutations, matrices, unique, matrix, oldNbRows,
          symgens, pc, i, j>>

-----------------------------------------------------------------------------
(* class Matrix: rowco and colco keep the first place of a literal.        *)
InMatrix(m, l) == \E r \in 1 .. Len(m) : InSeq(l, m[r])

RowNb(m, l) ==
  CHOOSE r \in 1 .. Len(m) :
     InSeq(l, m[r]) /\ \A q \in 1 .. r - 1 : ~InSeq(l, m[q])

ColumnNb(m, l) ==
  CHOOSE c \in 1 .. Len(m[1]) :
     /\ m[RowNb(m, l)][c] = l
     /\ \A d \in 1 .. c - 1 : m[RowNb(m, l)][d] # l

(* Variant: the literals of the rows that p does not move stay where they are. *)
ProductOfMoved(m, p, r1, r2) ==
  LET swapped(l) ==
        IF ~InMatrix(m, l) THEN l
        ELSE CASE RowNb(m, l) = r1 -> m[r2][ColumnNb(m, l)]
               [] RowNb(m, l) = r2 -> m[r1][ColumnNb(m, l)]
               [] OTHER -> l
  IN  IF r1 = r2 THEN p
      ELSE [l \in Lits |-> IF p[l] = l THEN l ELSE swapped(p[l])]

(* getProductWithRowsWap: p, then the swap of rows r1 and r2. *)
ProductWithRowSwap(m, p, r1, r2) ==
  LET swapped(l) ==
        IF ~InMatrix(m, l) THEN l
        ELSE CASE RowNb(m, l) = r1 -> m[r2][ColumnNb(m, l)]
               [] RowNb(m, l) = r2 -> m[r1][ColumnNb(m, l)]
               [] OTHER -> l
  IN  IF r1 = r2 THEN p
      ELSE [l \in Lits |-> IF p[l] = l THEN RowSwap(m[r1], m[r2])[l]
                           ELSE swapped(p[l])]

(* testMembership: p is sifted through the stabilizer chain of the matrix, *)
(* the first column being its base.  What is left is the identity if and   *)
(* only if p is a product of row swaps.                                    *)
TestMembership(m, p) ==
  LET base(r) == m[r][1]
      basicOrbit(r) == {base(q) : q \in r .. Len(m)}
      turn(g, r) ==
        IF g.stop \/ g.left[base(r)] \notin basicOrbit(r)
        THEN [left |-> g.left, stop |-> TRUE]
        ELSE LET next == ProductWithRowSwap(m, g.left, r, RowNb(m, g.left[base(r)]))
             IN  [left |-> next, stop |-> next = IdPerm]
      sift[r \in 0 .. Len(m)] ==
        IF r = 0 THEN [left |-> p, stop |-> FALSE]
        ELSE CHOOSE next \in {turn(g, r) : g \in {sift[r - 1]}} : TRUE
  IN  sift[Len(m)].left

(* Variant: the swap is not tested. *)
NewRowsUntested(m, p, r) ==
  LET image == [c \in 1 .. Len(m[r]) |-> p[m[r][c]]]
  IN  IF \E c \in 1 .. Len(image) : InMatrix(m, image[c])
      THEN <<>> ELSE <<image>>

(* tryToAddNewRow: the image of row r under p becomes a row if it leaves   *)
(* the matrix and the swap is a symmetry of the formula.                   *)
NewRows(m, p, r) ==
  LET image == [c \in 1 .. Len(m[r]) |-> p[m[r][c]]]
  IN  IF (\E c \in 1 .. Len(image) : InMatrix(m, image[c]))
         \/ RowSwap(m[r], image) \notin symmetries
      THEN <<>> ELSE <<image>>

-----------------------------------------------------------------------------
IsInvolution(p) ==
  /\ p # IdPerm
  /\ \A l \in Domain(p) : CycleLength(p, l) = 2

(* formsMatrixWith: the other involution moves one literal of each cycle.  *)
FormsMatrixWith(p, q) ==
  /\ Cardinality(Domain(p)) = Cardinality(Domain(q))
  /\ IsInvolution(p) /\ IsInvolution(q)
  /\ \A l \in CycleReprs(p) : (q[l] = l) # (q[p[l]] = p[l])

Pairs ==
  {x \in (1 .. Len(permutations)) \X (1 .. Len(permutations)) :
      x[1] < x[2] /\ FormsMatrixWith(permutations[x[1]], permutations[x[2]])}

(* The loops of getInitialMatrix: by size, then by position. *)
Before(x, y) ==
  LET size(z) == Cardinality(Domain(permutations[z[1]]))
  IN  \/ size(x) < size(y)
      \/ size(x) = size(y) /\ (x[1] < y[1] \/ (x[1] = y[1] /\ x[2] <= y[2]))

FirstPair == CHOOSE x \in Pairs : \A y \in Pairs : Before(x, y)

(* Each literal is followed by its negation. *)
WithNegations(s) ==
  [k \in 1 .. 2 * Len(s) |->
     IF k % 2 = 1 THEN s[(k + 1) \div 2] ELSE Neg(s[k \div 2])]

(* getSharedLiterals, in the order the permutation stores its domain. *)
SharedLiterals(p, q) ==
  {WithNegations(s) : s \in SetToSeqs(PosDomain(q) \cap Domain(p))}

ImageOf(p, row) == [c \in 1 .. Len(row) |-> p[row[c]]]

Stabilizer == {p \in symmetries : \A l \in unique : p[l] = l}

(* What bliss may report for the coloured graph. *)
Reports ==
  {s \in UNION {[1 .. n -> Stabilizer \ {IdPerm}] : n \in 0 .. MaxGens} :
     Products(ToSet(s), Cardinality(Stabilizer)) = Stabilizer}

-----------------------------------------------------------------------------
(* break_symm and setSubTheory: the literals the subgroup does not move    *)
(* get colours of their own.                                               *)
Init ==
  /\ \E s \in Subgroups :
       /\ symmetries = s.symmetries
       /\ permutations = s.permutations
       /\ unique = Lits \ UNION {Domain(p) : p \in ToSet(s.permutations)}
  /\ matrices = <<>> /\ matrix = <<>> /\ oldNbRows = 0 /\ symgens = <<>>
  /\ pc = "initial" /\ i = 0 /\ j = 0

(* getInitialMatrix finds a pair of involutions. *)
InitialMatrix ==
  /\ pc = "initial" /\ Pairs # {}
  /\ LET p == permutations[FirstPair[1]]
         q == permutations[FirstPair[2]]
     IN  \E shared \in SharedLiterals(p, q) :
            matrix' = <<shared, ImageOf(p, shared), ImageOf(q, shared)>>
  /\ oldNbRows' = 0
  /\ pc' = "extend" /\ i' = 1 /\ j' = 1
  /\ UNCHANGED <<symmetries, permutations, matrices, unique, symgens>>

NoInitialMatrix ==
  /\ pc = "initial" /\ Pairs = {}
  /\ pc' = "done"
  /\ UNCHANGED <<symmetries, permutations, matrices, unique, matrix,
                 oldNbRows, symgens, i, j>>

(* Variant: a row is examined again after the last permutation. *)
ExtendStaying ==
  /\ pc = "extend" /\ i <= Len(matrix)
  /\ IF j <= Len(permutations)
     THEN matrix' = matrix \o NewRows(matrix, permutations[j], i) /\ j' = j + 1
     ELSE matrix' = matrix /\ j' = 1
  /\ UNCHANGED <<symmetries, permutations, matrices, unique, oldNbRows,
                 symgens, pc, i>>

(* maximallyExtend: one permutation is tried on row i; rows that are added *)
(* are examined in turn.                                                   *)
Extend ==
  /\ pc = "extend" /\ i <= Len(matrix)
  /\ IF j <= Len(permutations)
     THEN /\ matrix' = matrix \o NewRows(matrix, permutations[j], i)
          /\ j' = j + 1 /\ i' = i
     ELSE matrix' = matrix /\ j' = 1 /\ i' = i + 1
  /\ UNCHANGED <<symmetries, permutations, matrices, unique, oldNbRows,
                 symgens, pc>>

(* The while condition holds: all new rows but the last get unique         *)
(* colours and bliss runs on what is left.                                 *)
Colour ==
  /\ pc = "extend" /\ i > Len(matrix) /\ oldNbRows < Len(matrix)
  /\ unique' = unique \cup
        UNION {ToSet(matrix[r]) : r \in oldNbRows + 1 .. Len(matrix) - 1}
  /\ oldNbRows' = Len(matrix)
  /\ pc' = "bliss"
  /\ UNCHANGED <<symmetries, permutations, matrices, matrix, symgens, i, j>>

Bliss ==
  /\ pc = "bliss"
  /\ symgens' \in Reports
  /\ pc' = "stabilizer" /\ j' = 1
  /\ UNCHANGED <<symmetries, permutations, matrices, unique, matrix,
                 oldNbRows, i>>

(* A generator of the stabilizer is tried on the former last row and       *)
(* joins the group.                                                        *)
TryStabilizer ==
  /\ pc = "stabilizer" /\ j <= Len(symgens)
  /\ matrix' = matrix \o NewRows(matrix, symgens[j], oldNbRows)
  /\ permutations' = Append(permutations, symgens[j])
  /\ j' = j + 1
  /\ UNCHANGED <<symmetries, matrices, unique, oldNbRows, symgens, pc, i>>

EndStabilizer ==
  /\ pc = "stabilizer" /\ j > Len(symgens)
  /\ pc' = "extend" /\ i' = oldNbRows + 1 /\ j' = 1
  /\ UNCHANGED <<symmetries, permutations, matrices, unique, matrix,
                 oldNbRows, symgens>>

(* addMatrix(matrix), up to the loop of cleanPermutations. *)
AddMatrix ==
  /\ pc = "extend" /\ i > Len(matrix) /\ oldNbRows = Len(matrix)
  /\ matrices' = Append(matrices, matrix)
  /\ pc' = "clean" /\ i' = Len(permutations)
  /\ UNCHANGED <<symmetries, permutations, unique, matrix, oldNbRows, symgens,
                 j>>

Redundant(m, p) ==
  /\ Cardinality(Domain(p)) % Len(m[1]) = 0
  /\ TestMembership(m, p) = IdPerm

SwapErase(vec, k) ==
  [n \in 1 .. Len(vec) - 1 |-> IF n = k THEN vec[Len(vec)] ELSE vec[n]]

(* Variant: the loop leaves out the first permutation. *)
CleanButFirst ==
  /\ pc \in {"clean", "cleanColumns"} /\ i > 0
  /\ permutations' = IF i > 1 /\ Redundant(matrices[Len(matrices)], permutations[i])
                     THEN SwapErase(permutations, i) ELSE permutations
  /\ i' = i - 1
  /\ UNCHANGED <<symmetries, matrices, unique, matrix, oldNbRows, symgens, pc,
                 j>>

(* One turn of cleanPermutations, downwards. *)
Clean ==
  /\ pc \in {"clean", "cleanColumns"} /\ i > 0
  /\ permutations' = IF Redundant(matrices[Len(matrices)], permutations[i])
                     THEN SwapErase(permutations, i) ELSE permutations
  /\ i' = i - 1
  /\ UNCHANGED <<symmetries, matrices, unique, matrix, oldNbRows, symgens, pc,
                 j>>

(* checkColumnInterchangeability: the columns that start with a positive   *)
(* literal and can be swapped with the first of them.                      *)
Column(m, c) == WithNegations([r \in 1 .. Len(m) |-> m[r][c]])

(* Variant: the swap is not tested. *)
WithColumnUntested(m, columns, c) ==
  IF Sign(m[1][c]) THEN columns ELSE Append(columns, Column(m, c))

WithColumn(m, columns, c) ==
  IF Sign(m[1][c])
     \/ (columns # <<>> /\ RowSwap(columns[1], Column(m, c)) \notin symmetries)
  THEN columns ELSE Append(columns, Column(m, c))

ColumnMatrix(m) ==
  LET columns[c \in 0 .. Len(m[1])] ==
        IF c = 0 THEN <<>> ELSE WithColumn(m, columns[c - 1], c)
  IN  columns[Len(m[1])]

CheckColumns ==
  /\ pc = "clean" /\ i = 0
  /\ IF Len(ColumnMatrix(matrix)) > 2
     THEN matrices' = Append(matrices, ColumnMatrix(matrix))
          /\ pc' = "cleanColumns" /\ i' = Len(permutations)
     ELSE matrices' = matrices /\ pc' = "fixLast" /\ i' = 0
  /\ UNCHANGED <<symmetries, permutations, unique, matrix, oldNbRows, symgens,
                 j>>

(* The last row gets unique colours as well; the search starts again. *)
FixLastRow ==
  /\ pc = "fixLast" \/ (pc = "cleanColumns" /\ i = 0)
  /\ unique' = unique \cup ToSet(matrix[Len(matrix)])
  /\ pc' = "initial"
  /\ UNCHANGED <<symmetries, permutations, matrices, matrix, oldNbRows,
                 symgens, i, j>>

Next ==
  \/ InitialMatrix \/ NoInitialMatrix \/ Extend \/ Colour \/ Bliss
  \/ TryStabilizer \/ EndStabilizer \/ AddMatrix \/ Clean \/ CheckColumns
  \/ FixLastRow

(* A sequential program: whatever it can do next, it does. *)
Spec == Init /\ [][Next]_vars /\ WF_vars(Next)

Done == pc = "done"

-----------------------------------------------------------------------------
Swaps(m) == {RowSwap(m[r], m[r + 1]) : r \in 1 .. Len(m) - 1}

AllSwaps == UNION {Swaps(m) : m \in ToSet(matrices)}

(* While a matrix is built, the swaps of its consecutive rows are          *)
(* symmetries of the formula, although its first three rows are never      *)
(* tested and a new row is tested with a row that it will not stand next   *)
(* to (getInitialMatrix, tryToAddNewRow).                                  *)
ConstructionSound == Swaps(matrix) \subseteq symmetries

(* The swaps of consecutive rows of all finished matrices, which are       *)
(* broken, are symmetries of the formula, although a column is tested with *)
(* the first one only (checkColumnInterchangeability).                     *)
RowSwapsAreSymmetries == AllSwaps \subseteq symmetries

(* Removing the permutations that a matrix generates loses no symmetry:    *)
(* with the row swaps of all finished matrices the permutations generate   *)
(* whatever the subgroup generated at first.                               *)
NoSymmetryLost ==
  pc \in {"initial", "done"} =>
    \E s \in Subgroups :
      /\ s.symmetries = symmetries
      /\ ToSet(s.permutations) \subseteq
           Products(ToSet(permutations) \cup AllSwaps, Cardinality(symmetries))

(* After cleaning no permutation is left that the new matrix generates.    *)
CleanComplete ==
  (pc = "cleanColumns" /\ i = 0) \/ pc = "fixLast" =>
    ToSet(permutations) \cap
      Products(Swaps(matrices[Len(matrices)]), Cardinality(symmetries)) = {}

(* The search for matrices comes to an end, although every matrix adds the *)
(* generators of a stabilizer to the group it is searched in.              *)
Termination == <>Done

(* "matrix row interchangeability symmetries" (comment before              *)
(* Group::addMatrices): any two rows of a finished matrix can be swapped,  *)
(* which is what the statistic "row swaps detected" counts.                *)
RowsInterchangeable ==
  \A m \in ToSet(matrices) : \A q, r \in 1 .. Len(m) :
     RowSwap(m[q], m[r]) \in symmetries

(* "fix all lits but the last row" (comment in Group::addMatrices): when   *)
(* bliss runs, every row but the last is fixed.                            *)
AllButLastRowFixed ==
  pc = "bliss" =>
    \A r \in 1 .. Len(matrix) - 1 : ToSet(matrix[r]) \subseteq unique
=============================================================================
