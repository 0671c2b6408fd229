--------------------------- MODULE MatricesProofs ---------------------------
(***************************************************************************)
(* Group::addMatrices for every subgroup, whatever generators bliss        *)
(* reports:                                                                *)
(*   - the swaps of consecutive rows of the matrix under construction are  *)
(*     symmetries of the formula (ConstructionIsSound);                    *)
(*   - as long as the involutions a matrix begins with fit together both   *)
(*     ways round, which formsMatrixWith tests one way, so are those of    *)
(*     all finished matrices (RowSwapsSound), and any two rows of one can  *)
(*     be swapped (RowsAreInterchangeable);                                *)
(*   - under the same condition cleanPermutations removes permutations     *)
(*     that the swaps of consecutive rows generate (NothingLost), and all  *)
(*     of them (CleanedCompletely); what it hands to break_symm is of the  *)
(*     kind that GroupBreaking assumes (MatricesHandedOver).               *)
(*                                                                         *)
(* Every test the code makes is about two rows that will not be broken     *)
(* against each other.  What carries it over is Conjugate: if a row can be *)
(* swapped with two others, these can be swapped, provided no two of the   *)
(* three have a common literal.                                            *)
(*                                                                         *)
(* testMembership multiplies a permutation by a row swap in every turn     *)
(* (ProductWithSwap), and any row swap is a product of swaps of            *)
(* consecutive rows (SwapsGenerate): what ends as the identity is          *)
(* generated (SiftGenerates).  What is generated takes whole rows to whole *)
(* rows (ProductsMoveRows), so that the first column shows which swap      *)
(* brings back the next row (SiftComplete).                                *)
(***************************************************************************)
EXTENDS Matrices, AssignmentsProofs

LOCAL INSTANCE SequencesExt

(* The orders in which a finite set may be listed hold each element once. *)
LEMMA ListingFacts ==
  ASSUME NEW S, IsFiniteSet(S), NEW s \in SetToSeqs(S)
  PROVE  /\ s \in Seq(S) /\ ToSet(s) = S
         /\ \A m, k \in 1 .. Len(s) : m # k => s[m] # s[k]
<1> DEFINE n == Cardinality(S)
<1>1. n \in Nat
  BY FS_CardinalityType
<1>2. s \in [1 .. n -> S] /\ \A m, k \in 1 .. n : m # k => s[m] # s[k]
  BY DEF SetToSeqs
<1>3. s \in Seq(S) /\ Len(s) = n /\ DOMAIN s = 1 .. n
  BY <1>1, <1>2
<1> HIDE DEF n
<1>4. Distinct(s, n, S)
  BY <1>2 DEF Distinct
<1>5. \A x \in S : \E k \in 1 .. n : s[k] = x
  BY <1>4, DistinctOnto DEF n
<1>6. QED
  BY <1>2, <1>3, <1>5 DEF ToSet

(* A row: literals, none of them twice. *)
IsRow(a) ==
  a \in Seq(Lits) /\ \A h, k \in 1 .. Len(a) : a[h] = a[k] => h = k

(* Two rows of the same length without a common literal. *)
Apart(a, b) ==
  Len(a) = Len(b) /\ \A h \in 1 .. Len(a), k \in 1 .. Len(b) : a[h] # b[k]

(* A literal is found at its only place. *)
LEMMA PlaceFacts ==
  ASSUME NEW a, IsRow(a), NEW k \in 1 .. Len(a)
  PROVE  (CHOOSE h \in 1 .. Len(a) : a[h] = a[k]) = k
<1>1. \A h \in 1 .. Len(a) : a[h] = a[k] => h = k
  BY DEF IsRow
<1> DEFINE P(h) == a[h] = a[k]
<1>2. \E h \in 1 .. Len(a) : P(h)
  OBVIOUS
<1>3. PICK e : e = CHOOSE h \in 1 .. Len(a) : P(h)
  OBVIOUS
<1>4. e \in 1 .. Len(a) /\ P(e)
  BY <1>2, <1>3, Zenon
<1>5. e = k
  BY <1>1, <1>4
<1>6. QED
  BY <1>3, <1>5

(* The swap of two rows exchanges what stands at the same place. *)
LEMMA SwapFacts ==
  ASSUME NEW a, NEW b, IsRow(a), IsRow(b), Apart(a, b)
  PROVE  /\ RowSwap(a, b) \in [Lits -> Lits]
         /\ \A k \in 1 .. Len(a) : /\ a[k] \in Lits /\ b[k] \in Lits
                                   /\ RowSwap(a, b)[a[k]] = b[k]
                                   /\ RowSwap(a, b)[b[k]] = a[k]
         /\ \A l \in Lits : ~InSeq(l, a) /\ ~InSeq(l, b) => RowSwap(a, b)[l] = l
<1>1. /\ a \in Seq(Lits) /\ b \in Seq(Lits) /\ Len(a) = Len(b) /\ Len(a) \in Nat
      /\ \A k \in 1 .. Len(a) : a[k] \in Lits /\ b[k] \in Lits
  BY DEF IsRow, Apart
<1> DEFINE s == RowSwap(a, b)
<1>2. \A l \in Lits :
        s[l] = IF InSeq(l, a) THEN b[CHOOSE k \in 1 .. Len(a) : a[k] = l]
               ELSE IF InSeq(l, b) THEN a[CHOOSE k \in 1 .. Len(b) : b[k] = l]
               ELSE l
  BY DEF RowSwap
<1>3. DOMAIN s = Lits /\ s = [l \in Lits |-> s[l]]
  BY DEF RowSwap
<1> HIDE DEF s
<1>4. ASSUME NEW k \in 1 .. Len(a) PROVE s[a[k]] = b[k]
  <2>1. InSeq(a[k], a)
    BY DEF InSeq
  <2>2. (CHOOSE h \in 1 .. Len(a) : a[h] = a[k]) = k
    BY PlaceFacts
  <2>3. QED
    BY <1>1, <1>2, <2>1, <2>2
<1>5. ASSUME NEW k \in 1 .. Len(a) PROVE s[b[k]] = a[k]
  <2>1. InSeq(b[k], b) /\ ~InSeq(b[k], a)
    BY <1>1 DEF InSeq, Apart
  <2>2. (CHOOSE h \in 1 .. Len(b) : b[h] = b[k]) = k
    BY <1>1, PlaceFacts
  <2>3. QED
    BY <1>1, <1>2, <2>1, <2>2
<1>6. \A l \in Lits : ~InSeq(l, a) /\ ~InSeq(l, b) => s[l] = l
  BY <1>2
<1>7. \A l \in Lits : s[l] \in Lits
  <2>1. SUFFICES ASSUME NEW l \in Lits PROVE s[l] \in Lits
    OBVIOUS
  <2>2. CASE InSeq(l, a)
    BY <1>1, <1>4, <2>2 DEF InSeq
  <2>3. CASE InSeq(l, b)
    BY <1>1, <1>5, <2>3 DEF InSeq
  <2>4. QED
    BY <1>6, <2>2, <2>3
<1>8. QED
  BY <1>1, <1>3, <1>4, <1>5, <1>6, <1>7 DEF s

(* A swap is determined by what it exchanges. *)
LEMMA SwapUnique ==
  ASSUME NEW a, NEW b, IsRow(a), IsRow(b), Apart(a, b), NEW f \in [Lits -> Lits],
         \A k \in 1 .. Len(a) : f[a[k]] = b[k] /\ f[b[k]] = a[k],
         \A l \in Lits : ~InSeq(l, a) /\ ~InSeq(l, b) => f[l] = l
  PROVE  RowSwap(a, b) = f
<1> DEFINE s == RowSwap(a, b)
<1>1. /\ s \in [Lits -> Lits]
      /\ \A k \in 1 .. Len(a) : s[a[k]] = b[k] /\ s[b[k]] = a[k]
      /\ \A l \in Lits : ~InSeq(l, a) /\ ~InSeq(l, b) => s[l] = l
  BY SwapFacts
<1> HIDE DEF s
<1>2. Len(a) = Len(b)
  BY DEF Apart
<1>3. ASSUME NEW l \in Lits PROVE s[l] = f[l]
  <2>1. CASE InSeq(l, a)
    BY <1>1, <2>1 DEF InSeq
  <2>2. CASE InSeq(l, b)
    BY <1>1, <1>2, <2>2 DEF InSeq
  <2>3. QED
    BY <1>1, <2>1, <2>2
<1>4. s = f
  BY <1>1, <1>3
<1>5. QED
  BY <1>4 DEF s

(* Products take a literal on from where the first factor leaves it. *)
LEMMA ProductFacts ==
  ASSUME NEW p \in [Lits -> Lits], NEW q \in [Lits -> Lits]
  PROVE  /\ Product(p, q) \in [Lits -> Lits]
         /\ \A l \in Lits : Product(p, q)[l] = q[p[l]]
BY DEF Product

(* Two swaps with a make the swap of the other two. *)
LEMMA Conjugate ==
  ASSUME NEW a, NEW b, NEW c, IsRow(a), IsRow(b), IsRow(c),
         Apart(a, b), Apart(a, c), Apart(b, c)
  PROVE  RowSwap(b, c) =
           Product(Product(RowSwap(a, b), RowSwap(a, c)), RowSwap(a, b))
<1>1. PICK s : s = RowSwap(a, b)
  OBVIOUS
<1>2. PICK t : t = RowSwap(a, c)
  OBVIOUS
<1>3. /\ s \in [Lits -> Lits]
      /\ \A k \in 1 .. Len(a) : s[a[k]] = b[k] /\ s[b[k]] = a[k]
      /\ \A l \in Lits : ~InSeq(l, a) /\ ~InSeq(l, b) => s[l] = l
  BY <1>1, SwapFacts
<1>4. /\ t \in [Lits -> Lits]
      /\ \A k \in 1 .. Len(a) : t[a[k]] = c[k] /\ t[c[k]] = a[k]
      /\ \A l \in Lits : ~InSeq(l, a) /\ ~InSeq(l, c) => t[l] = l
  BY <1>2, SwapFacts
<1>5. /\ Len(a) = Len(b) /\ Len(a) = Len(c)
      /\ \A k \in 1 .. Len(a) : a[k] \in Lits /\ b[k] \in Lits /\ c[k] \in Lits
  BY DEF IsRow, Apart
<1>6. \A k \in 1 .. Len(a) : /\ ~InSeq(b[k], a) /\ ~InSeq(b[k], c)
                             /\ ~InSeq(c[k], a) /\ ~InSeq(c[k], b)
                             /\ ~InSeq(a[k], b) /\ ~InSeq(a[k], c)
  BY <1>5 DEF Apart, InSeq
<1>7. \A k \in 1 .. Len(a) : s[c[k]] = c[k] /\ t[b[k]] = b[k]
  BY <1>3, <1>4, <1>5, <1>6
<1>8. PICK f \in [Lits -> Lits] : /\ f = Product(Product(s, t), s)
                                  /\ \A l \in Lits : f[l] = s[t[s[l]]]
  BY <1>3, <1>4, ProductFacts
<1>9. \A k \in 1 .. Len(b) : f[b[k]] = c[k] /\ f[c[k]] = b[k]
  BY <1>3, <1>4, <1>5, <1>7, <1>8
<1>10. ASSUME NEW l \in Lits, ~InSeq(l, b), ~InSeq(l, c) PROVE f[l] = l
  <2>1. CASE InSeq(l, a)
    <3>1. PICK k \in 1 .. Len(a) : l = a[k]
      BY <2>1 DEF InSeq
    <3>2. QED
      BY <1>3, <1>5, <1>7, <1>8, <3>1
  <2>2. CASE ~InSeq(l, a)
    BY <1>3, <1>4, <1>8, <1>10, <2>2
  <2>3. QED
    BY <2>1, <2>2
<1>11. RowSwap(b, c) = f
  BY <1>9, <1>10, SwapUnique
<1>12. QED
  BY <1>1, <1>2, <1>8, <1>11

-----------------------------------------------------------------------------
(* What isInvolution looks for: images of images are where they began.     *)
LEMMA InvolutionFacts ==
  ASSUME NEW p \in LitPerms, IsInvolution(p)
  PROVE  /\ \A l \in Lits : p[p[l]] = l
         /\ \A l \in Domain(p) : l \in Lits /\ p[l] \in Domain(p)
         /\ \A l \in Domain(p) : l \in CycleReprs(p) \/ p[l] \in CycleReprs(p)
<1>1. p \in [Lits -> Lits] /\ \A x, y \in Lits : p[x] = p[y] => x = y
  BY DEF LitPerms
<1>2. \A l \in Domain(p) : l \in Lits /\ p[l] # l
  BY <1>1 DEF Domain
<1>3. ASSUME NEW l \in Domain(p)
      PROVE  /\ p[p[l]] = l
             /\ DOMAIN GetCycle(p, l) = 1 .. 2
             /\ GetCycle(p, l)[1] = l /\ GetCycle(p, l)[2] = p[l]
  <2>1. CycleLength(p, l) = 2
    BY DEF IsInvolution
  <2>2. PICK w : w = Walk(p, l)
    OBVIOUS
  <2>3. w[0] = l /\ w[0 + 1] = p[w[0]] /\ w[1 + 1] = p[w[1]]
    BY <1>2, <2>2, WalkFacts, SMTT(30) DEF Chain
  <2>4. w[2] = l
    BY <1>2, <2>1, <2>2, CycleCloses
  <2>5. GetCycle(p, l) = [k \in 1 .. 2 |-> w[k - 1]]
    BY <2>1, <2>2 DEF GetCycle
  <2>6. QED
    BY <2>3, <2>4, <2>5
<1>4. \A l \in Domain(p) : p[l] \in Domain(p)
  BY <1>1, <1>2 DEF Domain
<1>5. \A l \in Lits : p[p[l]] = l
  BY <1>1, <1>3 DEF Domain
<1>6. ASSUME NEW l \in Domain(p), l <= p[l] PROVE l \in CycleReprs(p)
  <2>1. CycleLength(p, l) = 2
    BY DEF IsInvolution
  <2>2. l \in Nat
    BY <1>2, LitFacts
  <2>3. \A k \in 1 .. 2 : k = 1 \/ k = 2
    OBVIOUS
  <2>4. \A k \in 1 .. 2 : l <= GetCycle(p, l)[k]
    BY <1>3, <1>6, <2>2, <2>3
  <2>5. QED
    BY <2>1, <2>4 DEF CycleReprs
<1>7. ASSUME NEW l \in Domain(p) PROVE l <= p[l] \/ p[l] <= p[p[l]]
  <2>1. l \in Nat /\ p[l] \in Nat
    BY <1>1, <1>2, LitFacts
  <2>2. QED
    BY <1>3, <2>1
<1>8. QED
  BY <1>2, <1>4, <1>5, <1>6, <1>7

-----------------------------------------------------------------------------
(* The loops of getInitialMatrix find a pair when there is one.            *)
LEMMA FirstPairFound ==
  ASSUME permutations \in Seq(LitPerms), Pairs # {}
  PROVE  FirstPair \in Pairs
<1> DEFINE size(z) == Cardinality(Domain(permutations[z[1]]))
<1>1. \A z \in Pairs : z[1] \in Nat /\ z[2] \in Nat /\ z[1] \in 1 .. Len(permutations)
  BY DEF Pairs
<1>2. \A z \in Pairs : size(z) \in Nat
  <2>1. \A z \in Pairs : permutations[z[1]] \in LitPerms
    BY <1>1
  <2>2. QED
    BY <2>1, DomainFinite
<1>3. \A x, y : Before(x, y) <=>
        \/ size(x) < size(y)
        \/ size(x) = size(y) /\ (x[1] < y[1] \/ (x[1] = y[1] /\ x[2] <= y[2]))
  BY DEF Before
<1> HIDE DEF size
<1> DEFINE T1 == {n \in Nat : \E z \in Pairs : size(z) = n}
<1>4. PICK n1 \in T1 : \A n \in T1 : n1 <= n
  <2>1. T1 # {}
    BY <1>2
  <2>2. QED
    BY <2>1, LeastElement
<1> DEFINE T2 == {n \in Nat : \E z \in Pairs : size(z) = n1 /\ z[1] = n}
<1>5. PICK n2 \in T2 : \A n \in T2 : n2 <= n
  <2>1. T2 # {}
    BY <1>1, <1>4
  <2>2. QED
    BY <2>1, LeastElement
<1> DEFINE T3 == {n \in Nat : \E z \in Pairs : size(z) = n1 /\ z[1] = n2 /\ z[2] = n}
<1>6. PICK n3 \in T3 : \A n \in T3 : n3 <= n
  <2>1. T3 # {}
    BY <1>1, <1>5
  <2>2. QED
    BY <2>1, LeastElement
<1>7. PICK x \in Pairs : size(x) = n1 /\ x[1] = n2 /\ x[2] = n3
  BY <1>6
<1>8. ASSUME NEW y \in Pairs PROVE Before(x, y)
  <2>1. /\ n1 <= size(y)
        /\ size(y) = n1 => n2 <= y[1]
        /\ size(y) = n1 /\ y[1] = n2 => n3 <= y[2]
    BY <1>1, <1>2, <1>4, <1>5, <1>6
  <2>2. n1 \in Nat /\ n2 \in Nat /\ n3 \in Nat /\ y[1] \in Nat /\ y[2] \in Nat
        /\ size(y) \in Nat
    BY <1>1, <1>2
  <2>3. QED
    BY <1>3, <1>7, <2>1, <2>2
<1>9. \E z \in Pairs : \A y \in Pairs : Before(z, y)
  BY <1>7, <1>8
<1>10. QED
  BY <1>9, Zenon DEF FirstPair

-----------------------------------------------------------------------------
(* The negations of the literals of a row are in the row.                  *)
NegClosedRow(a) == \A k \in 1 .. Len(a) : InSeq(Neg(a[k]), a)

(* The same places hold opposite literals.                                 *)
Alike(a, b) ==
  /\ Len(a) = Len(b)
  /\ \A h, k \in 1 .. Len(a) : a[h] = Neg(a[k]) <=> b[h] = Neg(b[k])

(* A matrix whose consecutive rows can be swapped by members of syms.      *)
IsMatrix(m, syms) ==
  /\ m \in Seq(Seq(Lits))
  /\ \A r \in 1 .. Len(m) : IsRow(m[r]) /\ NegClosedRow(m[r]) /\ Alike(m[1], m[r])
  /\ \A r \in 1 .. Len(m) - 1 :
        Apart(m[r], m[r + 1]) /\ RowSwap(m[r], m[r + 1]) \in syms

(* No two rows have a common literal. *)
RowsApart(m) == \A q, r \in 1 .. Len(m) : q # r => Apart(m[q], m[r])

(* What the symmetries of a formula are.                                   *)
IsGroup(syms) ==
  syms \subseteq LitPerms /\ \A p, q \in syms : Product(p, q) \in syms

(* Negation on the literals of the formula.                                *)
LEMMA NegLits ==
  \A l \in Lits : Neg(l) \in Lits /\ Neg(Neg(l)) = l /\ Neg(l) # l
                  /\ (Sign(Neg(l)) <=> ~Sign(l))
BY LitFacts, NegFacts

(* The image of a row under a permutation is a row like it.                *)
LEMMA ImageRow ==
  ASSUME NEW a, IsRow(a), NegClosedRow(a), NEW p \in LitPerms
  PROVE  /\ IsRow(ImageOf(p, a)) /\ NegClosedRow(ImageOf(p, a))
         /\ Alike(a, ImageOf(p, a)) /\ Len(ImageOf(p, a)) = Len(a)
         /\ \A k \in 1 .. Len(a) : ImageOf(p, a)[k] = p[a[k]]
<1>1. PICK b : b = ImageOf(p, a)
  OBVIOUS
<1>2. a \in Seq(Lits) /\ Len(a) \in Nat /\ \A k \in 1 .. Len(a) : a[k] \in Lits
  BY DEF IsRow
<1>3. /\ p \in [Lits -> Lits]
      /\ \A x, y \in Lits : p[x] = p[y] => x = y
      /\ \A l \in Lits : p[Neg(l)] = Neg(p[l])
  BY DEF LitPerms
<1>4. b = [k \in 1 .. Len(a) |-> p[a[k]]]
  BY <1>1 DEF ImageOf
<1>5. b \in Seq(Lits) /\ Len(b) = Len(a) /\ \A k \in 1 .. Len(a) : b[k] = p[a[k]]
  BY <1>2, <1>3, <1>4
<1>6. IsRow(b)
  BY <1>2, <1>3, <1>5 DEF IsRow
<1>7. NegClosedRow(b)
  <2>1. ASSUME NEW k \in 1 .. Len(b) PROVE InSeq(Neg(b[k]), b)
    <3>1. PICK h \in 1 .. Len(a) : a[h] = Neg(a[k])
      BY <1>5 DEF NegClosedRow, InSeq
    <3>2. b[h] = Neg(b[k])
      BY <1>2, <1>3, <1>5, <3>1
    <3>3. QED
      BY <1>5, <3>2 DEF InSeq
  <2>2. QED
    BY <2>1 DEF NegClosedRow
<1>8. Alike(a, b)
  <2>1. ASSUME NEW h \in 1 .. Len(a), NEW k \in 1 .. Len(a)
        PROVE  a[h] = Neg(a[k]) <=> b[h] = Neg(b[k])
    <3>1. Neg(b[k]) = p[Neg(a[k])] /\ Neg(a[k]) \in Lits
      BY <1>2, <1>3, <1>5, NegLits
    <3>2. QED
      BY <1>2, <1>3, <1>5, <3>1
  <2>2. QED
    BY <1>5, <2>1 DEF Alike
<1>9. QED
  BY <1>1, <1>5, <1>6, <1>7, <1>8

(* One more element at the end of a sequence. *)
LEMMA OneMore ==
  ASSUME NEW S, NEW m \in Seq(S), NEW b \in S
  PROVE  /\ m \o <<b>> \in Seq(S) /\ Len(m \o <<b>>) = Len(m) + 1
         /\ (m \o <<b>>)[Len(m) + 1] = b
         /\ \A q \in 1 .. Len(m) : (m \o <<b>>)[q] = m[q]
<1>1. Len(m) \in Nat /\ <<b>> \in Seq(S) /\ Len(<<b>>) = 1 /\ <<b>>[1] = b
  OBVIOUS
<1>2. QED
  BY <1>1

(* The same for Append.                                                    *)
LEMMA OneAppended ==
  ASSUME NEW S, NEW m \in Seq(S), NEW b \in S
  PROVE  /\ Append(m, b) \in Seq(S) /\ Len(Append(m, b)) = Len(m) + 1
         /\ Append(m, b)[Len(m) + 1] = b
         /\ \A q \in 1 .. Len(m) : Append(m, b)[q] = m[q]
OBVIOUS

(* Rows that are like a third one are like each other. *)
LEMMA AlikeTransitive ==
  ASSUME NEW a, NEW b, NEW c, Alike(a, b), Alike(b, c)
  PROVE  Alike(a, c) /\ Len(a) = Len(c)
BY DEF Alike

(* A row joins a matrix below the last row, with which it can be swapped   *)
(* because it can be swapped with some row.                                *)
LEMMA AddRow ==
  ASSUME IsGroup(symmetries), NEW m, IsMatrix(m, symmetries),
         NEW r \in 1 .. Len(m), NEW p \in LitPerms
  PROVE  /\ IsMatrix(m \o NewRows(m, p, r), symmetries)
         /\ RowsApart(m) => RowsApart(m \o NewRows(m, p, r))
         /\ Len(m \o NewRows(m, p, r)) >= Len(m)
<1>1. /\ m \in Seq(Seq(Lits)) /\ Len(m) \in Nat
      /\ \A q \in 1 .. Len(m) : IsRow(m[q]) /\ NegClosedRow(m[q]) /\ Alike(m[1], m[q])
      /\ \A q \in 1 .. Len(m) - 1 :
            Apart(m[q], m[q + 1]) /\ RowSwap(m[q], m[q + 1]) \in symmetries
  BY DEF IsMatrix
<1>2. PICK b : b = ImageOf(p, m[r])
  OBVIOUS
<1>3. /\ IsRow(b) /\ NegClosedRow(b) /\ Alike(m[r], b) /\ Len(b) = Len(m[r])
  BY <1>1, <1>2, ImageRow
<1>4. NewRows(m, p, r) =
        IF (\E c \in 1 .. Len(b) : InMatrix(m, b[c])) \/ RowSwap(m[r], b) \notin symmetries
        THEN <<>> ELSE <<b>>
  BY <1>2 DEF NewRows, ImageOf
<1>5. CASE NewRows(m, p, r) = <<>>
  <2>1. m \o <<>> = m /\ Len(m) >= Len(m)
    BY <1>1
  <2>2. QED
    BY <1>5, <2>1
<1>6. CASE NewRows(m, p, r) # <<>>
  <2>1. /\ NewRows(m, p, r) = <<b>> /\ RowSwap(m[r], b) \in symmetries
        /\ \A c \in 1 .. Len(b) : ~InMatrix(m, b[c])
    BY <1>4, <1>6
  <2>2. /\ Alike(m[1], b)
        /\ \A q \in 1 .. Len(m) : Len(m[q]) = Len(b)
    <3>1. Alike(m[1], b)
      BY <1>1, <1>3, AlikeTransitive
    <3>2. Len(m[1]) = Len(b) /\ \A q \in 1 .. Len(m) : Len(m[1]) = Len(m[q])
      BY <1>1, <3>1 DEF Alike
    <3>3. QED
      BY <3>1, <3>2
  <2>3. \A q \in 1 .. Len(m) : Apart(m[q], b)
    BY <2>1, <2>2 DEF Apart, InMatrix, InSeq
  <2> DEFINE A == {n \in Nat : r + n <= Len(m) => RowSwap(m[r + n], b) \in symmetries}
  <2>4. 0 \in A
    BY <1>1, <2>1
  <2>5. ASSUME NEW n \in Nat, n \in A PROVE n + 1 \in A
    <3>1. SUFFICES ASSUME r + (n + 1) <= Len(m)
                   PROVE  RowSwap(m[r + (n + 1)], b) \in symmetries
      OBVIOUS
    <3>2. PICK q \in 1 .. Len(m) - 1 : q = r + n /\ q + 1 = r + (n + 1)
      BY <1>1, <3>1
    <3>3. q \in 1 .. Len(m) /\ q + 1 \in 1 .. Len(m) /\ q <= Len(m)
      BY <1>1, <3>2
    <3>4. PICK s : s = RowSwap(m[q], m[q + 1])
      OBVIOUS
    <3>5. PICK t : t = RowSwap(m[q], b)
      OBVIOUS
    <3>6. s \in symmetries /\ t \in symmetries
      BY <1>1, <2>5, <3>2, <3>3, <3>4, <3>5
    <3>7. RowSwap(m[q + 1], b) = Product(Product(s, t), s)
      BY <1>1, <1>3, <2>3, <3>3, <3>4, <3>5, Conjugate
    <3>8. Product(Product(s, t), s) \in symmetries
      BY <3>6 DEF IsGroup
    <3>9. QED
      BY <3>2, <3>7, <3>8
  <2> HIDE DEF A
  <2>6. Len(m) - r \in Nat /\ r + (Len(m) - r) = Len(m)
    BY <1>1
  <2>7. Len(m) - r \in A
    BY <2>4, <2>5, <2>6, SetInduction
  <2>8. RowSwap(m[Len(m)], b) \in symmetries
    BY <2>6, <2>7 DEF A
  <2>9. PICK w : /\ w = m \o NewRows(m, p, r) /\ w \in Seq(Seq(Lits))
                 /\ Len(w) = Len(m) + 1 /\ w[Len(m) + 1] = b
                 /\ \A q \in 1 .. Len(m) : w[q] = m[q]
    <3>1. b \in Seq(Lits)
      BY <1>3 DEF IsRow
    <3>2. /\ m \o <<b>> \in Seq(Seq(Lits)) /\ Len(m \o <<b>>) = Len(m) + 1
          /\ (m \o <<b>>)[Len(m) + 1] = b
          /\ \A q \in 1 .. Len(m) : (m \o <<b>>)[q] = m[q]
      <4>1. PICK S : S = Seq(Lits)
        OBVIOUS
      <4>2. m \in Seq(S) /\ b \in S
        BY <1>1, <3>1, <4>1
      <4>3. m \o <<b>> \in Seq(S)
        BY <4>2, OneMore
      <4>4. /\ Len(m \o <<b>>) = Len(m) + 1 /\ (m \o <<b>>)[Len(m) + 1] = b
            /\ \A q \in 1 .. Len(m) : (m \o <<b>>)[q] = m[q]
        BY <4>2, OneMore
      <4>5. QED
        BY <4>1, <4>3, <4>4, Zenon
    <3>3. QED
      BY <2>1, <3>2, Zenon
  <2>10. w[1] = m[1]
    BY <1>1, <2>9
  <2>11. \A q \in 1 .. Len(w) :
            IsRow(w[q]) /\ NegClosedRow(w[q]) /\ Alike(w[1], w[q])
    <3>1. \A q \in 1 .. Len(w) : q \in 1 .. Len(m) \/ q = Len(m) + 1
      <4>1. Len(m) \in Nat /\ Len(w) = Len(m) + 1
        BY <1>1, <2>9
      <4>2. QED
        BY <4>1
    <3>2. QED
      BY <1>1, <1>3, <2>2, <2>9, <2>10, <3>1, Zenon
  <2>12. \A q \in 1 .. Len(w) - 1 :
            Apart(w[q], w[q + 1]) /\ RowSwap(w[q], w[q + 1]) \in symmetries
    <3>1. \A q \in 1 .. Len(w) - 1 :
             /\ q \in 1 .. Len(m)
             /\ q = Len(m) \/ (q \in 1 .. Len(m) - 1 /\ q + 1 \in 1 .. Len(m))
      <4>1. Len(m) \in Nat /\ Len(w) = Len(m) + 1
        BY <1>1, <2>9
      <4>2. QED
        BY <4>1
    <3>2. QED
      BY <1>1, <2>3, <2>8, <2>9, <3>1
  <2>13. ASSUME RowsApart(m) PROVE RowsApart(w)
    <3>1. \A q \in 1 .. Len(w) : q \in 1 .. Len(m) \/ q = Len(m) + 1
      <4>1. Len(m) \in Nat /\ Len(w) = Len(m) + 1
        BY <1>1, <2>9
      <4>2. QED
        BY <4>1
    <3>2. \A q \in 1 .. Len(m) : Apart(b, m[q])
      BY <2>3 DEF Apart
    <3>3. SUFFICES ASSUME NEW q \in 1 .. Len(w), NEW n \in 1 .. Len(w), q # n
                   PROVE  Apart(w[q], w[n])
      BY DEF RowsApart
    <3>4. CASE q \in 1 .. Len(m) /\ n \in 1 .. Len(m)
      BY <2>9, <2>13, <3>3, <3>4 DEF RowsApart
    <3>5. CASE q \in 1 .. Len(m) /\ n = Len(m) + 1
      BY <2>3, <2>9, <3>5
    <3>6. CASE q = Len(m) + 1 /\ n \in 1 .. Len(m)
      BY <2>9, <3>2, <3>6
    <3>7. QED
      BY <3>1, <3>3, <3>4, <3>5, <3>6
  <2>14. IsMatrix(w, symmetries)
    BY <2>9, <2>11, <2>12 DEF IsMatrix
  <2>15. Len(w) >= Len(m)
    <3>1. Len(m) \in Nat /\ Len(w) = Len(m) + 1
      BY <1>1, <2>9
    <3>2. QED
      BY <3>1
  <2>16. QED
    BY <2>9, <2>13, <2>14, <2>15
<1>7. QED
  BY <1>5, <1>6

-----------------------------------------------------------------------------
(* A vector of literals, none with its negation, makes a row. *)
Independent(d) ==
  /\ d \in Seq(Lits)
  /\ \A h, k \in 1 .. Len(d) : d[h] # Neg(d[k]) /\ (d[h] = d[k] => h = k)

(* Each literal of such a vector is followed by its negation.              *)
LEMMA PairingFacts ==
  ASSUME NEW d, Independent(d)
  PROVE  /\ IsRow(WithNegations(d)) /\ NegClosedRow(WithNegations(d))
         /\ Len(WithNegations(d)) = 2 * Len(d)
         /\ \A k \in 1 .. Len(d) : /\ 2 * k - 1 \in 1 .. 2 * Len(d)
                                   /\ 2 * k \in 1 .. 2 * Len(d)
                                   /\ WithNegations(d)[2 * k - 1] = d[k]
                                   /\ WithNegations(d)[2 * k] = Neg(d[k])
         /\ \A n \in 1 .. 2 * Len(d) : \E k \in 1 .. Len(d) :
              \/ n = 2 * k - 1 /\ WithNegations(d)[n] = d[k]
              \/ n = 2 * k /\ WithNegations(d)[n] = Neg(d[k])
<1>1. PICK w : w = WithNegations(d)
  OBVIOUS
<1>2. /\ Len(d) \in Nat /\ \A k \in 1 .. Len(d) : d[k] \in Lits /\ Neg(d[k]) \in Lits
      /\ \A h, k \in 1 .. Len(d) : d[h] # Neg(d[k]) /\ (d[h] = d[k] => h = k)
  BY NegLits DEF Independent
<1>3. PICK N \in Nat : N = Len(d)
  BY <1>2
<1>4. w = [k \in 1 .. 2 * N |-> IF k % 2 = 1 THEN d[(k + 1) \div 2] ELSE Neg(d[k \div 2])]
  BY <1>1, <1>3 DEF WithNegations
<1>5. \A k \in 1 .. N : /\ 2 * k - 1 \in 1 .. 2 * N /\ 2 * k \in 1 .. 2 * N
                        /\ (2 * k - 1) % 2 = 1 /\ ((2 * k - 1) + 1) \div 2 = k
                        /\ (2 * k) % 2 # 1 /\ (2 * k) \div 2 = k
  BY SMT
<1>6. \A n \in 1 .. 2 * N : \E k \in 1 .. N : n = 2 * k - 1 \/ n = 2 * k
  <2>1. SUFFICES ASSUME NEW n \in 1 .. 2 * N
                 PROVE  \E k \in 1 .. N : n = 2 * k - 1 \/ n = 2 * k
    OBVIOUS
  <2>2. (n + 1) \div 2 \in 1 .. N
    BY SMT
  <2>3. n = 2 * ((n + 1) \div 2) - 1 \/ n = 2 * ((n + 1) \div 2)
    BY SMT
  <2>4. QED
    BY <2>2, <2>3
<1>7. \A k \in 1 .. N : w[2 * k - 1] = d[k] /\ w[2 * k] = Neg(d[k])
  BY <1>4, <1>5
<1>8. \A n \in 1 .. 2 * N : \E k \in 1 .. N :
         \/ n = 2 * k - 1 /\ w[n] = d[k]
         \/ n = 2 * k /\ w[n] = Neg(d[k])
  BY <1>6, <1>7
<1>9. w \in Seq(Lits) /\ Len(w) = 2 * N
  <2>1. \A n \in 1 .. 2 * N : w[n] \in Lits
    BY <1>2, <1>3, <1>8
  <2>2. w = [n \in 1 .. 2 * N |-> w[n]] /\ 2 * N \in Nat
    BY <1>4
  <2>3. QED
    BY <2>1, <2>2
<1>10. ASSUME NEW m \in 1 .. 2 * N, NEW n \in 1 .. 2 * N, w[m] = w[n] PROVE m = n
  <2>1. PICK h \in 1 .. N : \/ m = 2 * h - 1 /\ w[m] = d[h]
                            \/ m = 2 * h /\ w[m] = Neg(d[h])
    BY <1>8
  <2>2. PICK k \in 1 .. N : \/ n = 2 * k - 1 /\ w[n] = d[k]
                            \/ n = 2 * k /\ w[n] = Neg(d[k])
    BY <1>8
  <2>3. d[h] \in Lits /\ d[k] \in Lits /\ (Neg(d[h]) = Neg(d[k]) => d[h] = d[k])
    BY <1>2, <1>3, NegLits
  <2>4. QED
    BY <1>2, <1>3, <1>10, <2>1, <2>2, <2>3
<1>11. IsRow(w)
  BY <1>9, <1>10 DEF IsRow
<1>12. NegClosedRow(w)
  <2>1. ASSUME NEW n \in 1 .. 2 * N PROVE \E m \in 1 .. 2 * N : w[m] = Neg(w[n])
    <3>1. PICK k \in 1 .. N : w[n] = d[k] \/ w[n] = Neg(d[k])
      BY <1>8
    <3>2. Neg(Neg(d[k])) = d[k]
      BY <1>2, <1>3, NegLits
    <3>3. QED
      BY <1>5, <1>7, <3>1, <3>2
  <2>2. QED
    BY <1>9, <2>1 DEF NegClosedRow, InSeq
<1>13. QED
  BY <1>1, <1>3, <1>5, <1>7, <1>8, <1>9, <1>11, <1>12

(* getSharedLiterals makes a row of what both permutations move. *)
LEMMA SharedFacts ==
  ASSUME NEW p \in LitPerms, NEW q \in LitPerms, NEW s \in SharedLiterals(p, q)
  PROVE  /\ IsRow(s) /\ NegClosedRow(s)
         /\ \A k \in 1 .. Len(s) : s[k] \in Lits /\ p[s[k]] # s[k] /\ q[s[k]] # s[k]
         /\ \A l \in Lits : p[l] # l /\ q[l] # l => InSeq(l, s)
<1>1. PICK D : D = PosDomain(q) \cap Domain(p)
  OBVIOUS
<1>2. PICK d : d \in SetToSeqs(D) /\ s = WithNegations(d)
  BY <1>1 DEF SharedLiterals
<1>3. /\ p \in [Lits -> Lits] /\ q \in [Lits -> Lits]
      /\ \A l \in Lits : p[Neg(l)] = Neg(p[l]) /\ q[Neg(l)] = Neg(q[l])
  BY DEF LitPerms
<1>4. D = {l \in Lits : q[l] # l /\ p[l] # l /\ ~Sign(l)}
  BY <1>1, <1>3 DEF PosDomain, Domain
<1>5. IsFiniteSet(D)
  <2>1. IsFiniteSet(Lits)
    BY FS_Interval, NVarsAssumption DEF Lits
  <2>2. QED
    BY <1>4, <2>1, FS_Subset
<1>6. d \in Seq(D) /\ ToSet(d) = D /\ \A m, k \in 1 .. Len(d) : m # k => d[m] # d[k]
  BY <1>2, <1>5, ListingFacts
<1>7. Len(d) \in Nat /\ \A k \in 1 .. Len(d) : d[k] \in D
  BY <1>6
<1>8. Independent(d)
  <2>1. \A k \in 1 .. Len(d) : d[k] \in Lits /\ ~Sign(d[k]) /\ Sign(Neg(d[k]))
    BY <1>4, <1>7, NegLits
  <2>2. d \in Seq(Lits)
    BY <1>4, <1>6
  <2>3. QED
    BY <1>6, <2>1, <2>2 DEF Independent
<1>9. /\ IsRow(s) /\ NegClosedRow(s) /\ Len(s) = 2 * Len(d)
      /\ \A k \in 1 .. Len(d) : /\ 2 * k - 1 \in 1 .. 2 * Len(d)
                                /\ 2 * k \in 1 .. 2 * Len(d)
                                /\ s[2 * k - 1] = d[k] /\ s[2 * k] = Neg(d[k])
      /\ \A n \in 1 .. 2 * Len(d) : \E k \in 1 .. Len(d) : s[n] = d[k] \/ s[n] = Neg(d[k])
  BY <1>2, <1>8, PairingFacts
<1>10. ASSUME NEW l \in Lits
       PROVE  Neg(l) \in Lits /\ Neg(Neg(l)) = l /\ (Sign(Neg(l)) <=> ~Sign(l))
              /\ (p[Neg(l)] = Neg(l) <=> p[l] = l) /\ (q[Neg(l)] = Neg(l) <=> q[l] = l)
  <2>1. /\ Neg(l) \in Lits /\ Neg(Neg(l)) = l /\ (Sign(Neg(l)) <=> ~Sign(l))
        /\ p[l] \in Lits /\ q[l] \in Lits
    BY <1>3, NegLits
  <2>2. Neg(Neg(p[l])) = p[l] /\ Neg(Neg(q[l])) = q[l]
    BY <2>1, NegLits
  <2>3. p[Neg(l)] = Neg(p[l]) /\ q[Neg(l)] = Neg(q[l])
    BY <1>3
  <2>4. QED
    BY <2>1, <2>2, <2>3
<1>11. \A k \in 1 .. Len(s) : s[k] \in Lits /\ p[s[k]] # s[k] /\ q[s[k]] # s[k]
  <2>1. SUFFICES ASSUME NEW n \in 1 .. Len(s)
                 PROVE  s[n] \in Lits /\ p[s[n]] # s[n] /\ q[s[n]] # s[n]
    OBVIOUS
  <2>2. PICK k \in 1 .. Len(d) : s[n] = d[k] \/ s[n] = Neg(d[k])
    BY <1>9
  <2>3. d[k] \in Lits /\ p[d[k]] # d[k] /\ q[d[k]] # d[k]
    BY <1>4, <1>7
  <2>4. QED
    BY <1>10, <2>2, <2>3
<1>12. ASSUME NEW l \in Lits, p[l] # l, q[l] # l PROVE InSeq(l, s)
  <2>1. \A x \in D : \E k \in 1 .. Len(d) : d[k] = x
    BY <1>6 DEF ToSet
  <2>2. CASE ~Sign(l)
    <3>1. l \in D
      BY <1>4, <1>12, <2>2
    <3>2. PICK k \in 1 .. Len(d) : d[k] = l
      BY <2>1, <3>1
    <3>3. QED
      BY <1>9, <3>2 DEF InSeq
  <2>3. CASE Sign(l)
    <3>1. Neg(l) \in D /\ Neg(Neg(l)) = l
      BY <1>4, <1>10, <1>12, <2>3
    <3>2. PICK k \in 1 .. Len(d) : d[k] = Neg(l)
      BY <2>1, <3>1
    <3>3. QED
      BY <1>9, <3>1, <3>2 DEF InSeq
  <2>4. QED
    BY <2>2, <2>3
<1>13. QED
  BY <1>9, <1>11, <1>12

(* The three rows that two involutions give: they exchange the first two   *)
(* rows, and the last two when the other one comes before and after.       *)
LEMMA InitialRows ==
  ASSUME IsGroup(symmetries), NEW p \in symmetries, NEW q \in symmetries,
         FormsMatrixWith(p, q), NEW s \in SharedLiterals(p, q)
  PROVE  /\ IsMatrix(<<s, ImageOf(p, s), ImageOf(q, s)>>, symmetries)
         /\ FormsMatrixWith(q, p) => RowsApart(<<s, ImageOf(p, s), ImageOf(q, s)>>)
<1>1. p \in LitPerms /\ q \in LitPerms
  BY DEF IsGroup
<1>2. /\ p \in [Lits -> Lits] /\ q \in [Lits -> Lits]
  BY <1>1 DEF LitPerms
<1>3. /\ \A l \in Lits : p[p[l]] = l
      /\ \A l \in Lits : q[q[l]] = l
      /\ \A l \in Lits : p[l] # l => l \in CycleReprs(p) \/ p[l] \in CycleReprs(p)
  <2>1. IsInvolution(p) /\ IsInvolution(q)
    BY DEF FormsMatrixWith
  <2>2. \A l \in Lits : p[l] # l => l \in Domain(p)
    BY <1>2 DEF Domain
  <2>3. QED
    BY <1>1, <2>1, <2>2, InvolutionFacts
<1>4. \A l \in Lits : p[l] # l => ((q[l] = l) # (q[p[l]] = p[l]))
  <2>1. \A l \in CycleReprs(p) : (q[l] = l) # (q[p[l]] = p[l])
    BY DEF FormsMatrixWith
  <2>2. QED
    BY <1>3, <2>1
<1>5. PICK b : b = ImageOf(p, s)
  OBVIOUS
<1>6. PICK c : c = ImageOf(q, s)
  OBVIOUS
<1>7. /\ IsRow(s) /\ NegClosedRow(s)
      /\ \A k \in 1 .. Len(s) : s[k] \in Lits /\ p[s[k]] # s[k] /\ q[s[k]] # s[k]
      /\ \A l \in Lits : p[l] # l /\ q[l] # l => \E k \in 1 .. Len(s) : s[k] = l
  BY <1>1, SharedFacts DEF InSeq
<1>8. /\ IsRow(b) /\ NegClosedRow(b) /\ Alike(s, b) /\ Len(b) = Len(s)
      /\ \A k \in 1 .. Len(s) : b[k] = p[s[k]]
  BY <1>1, <1>5, <1>7, ImageRow
<1>9. /\ IsRow(c) /\ NegClosedRow(c) /\ Alike(s, c) /\ Len(c) = Len(s)
      /\ \A k \in 1 .. Len(s) : c[k] = q[s[k]]
  BY <1>1, <1>6, <1>7, ImageRow
<1>10. \A k \in 1 .. Len(s) : p[s[k]] \in Lits /\ q[s[k]] \in Lits /\ q[p[s[k]]] = p[s[k]]
  BY <1>2, <1>4, <1>7
<1>11. Apart(s, b)
  BY <1>7, <1>8, <1>10 DEF Apart
<1>12. Apart(b, c)
  <2>1. ASSUME NEW h \in 1 .. Len(s), NEW k \in 1 .. Len(s), p[s[h]] = q[s[k]]
        PROVE  FALSE
    <3>1. q[p[s[h]]] = s[k]
      BY <1>3, <1>7, <2>1
    <3>2. QED
      BY <1>7, <1>10, <2>1, <3>1
  <2>2. QED
    BY <1>8, <1>9, <2>1 DEF Apart
<1>13. RowSwap(s, b) = p
  <2>1. \A k \in 1 .. Len(s) : p[s[k]] = b[k] /\ p[b[k]] = s[k]
    BY <1>3, <1>7, <1>8
  <2>2. ASSUME NEW l \in Lits, ~InSeq(l, s), ~InSeq(l, b) PROVE p[l] = l
    <3>1. SUFFICES ASSUME p[l] # l PROVE FALSE
      OBVIOUS
    <3>2. q[l] = l
      BY <1>7, <2>2, <3>1 DEF InSeq
    <3>3. p[l] \in Lits /\ q[p[l]] # p[l] /\ p[p[l]] = l
      BY <1>2, <1>3, <1>4, <3>1, <3>2
    <3>4. PICK k \in 1 .. Len(s) : s[k] = p[l]
      BY <1>7, <3>1, <3>3
    <3>5. b[k] = l
      BY <1>8, <3>3, <3>4
    <3>6. QED
      BY <1>8, <2>2, <3>5 DEF InSeq
  <2>3. QED
    BY <1>2, <1>7, <1>8, <1>11, <2>1, <2>2, SwapUnique
<1>14. RowSwap(b, c) = Product(Product(q, p), q)
  <2>1. PICK f \in [Lits -> Lits] : /\ f = Product(Product(q, p), q)
                                    /\ \A l \in Lits : f[l] = q[p[q[l]]]
    BY <1>2, ProductFacts
  <2>2. ASSUME NEW k \in 1 .. Len(s) PROVE f[p[s[k]]] = q[s[k]] /\ f[q[s[k]]] = p[s[k]]
    <3>1. f[p[s[k]]] = q[s[k]]
      BY <1>3, <1>7, <1>10, <2>1
    <3>2. f[q[s[k]]] = p[s[k]]
      BY <1>3, <1>7, <1>10, <2>1
    <3>3. QED
      BY <3>1, <3>2
  <2>3. \A k \in 1 .. Len(b) : f[b[k]] = c[k] /\ f[c[k]] = b[k]
    BY <1>8, <1>9, <2>2
  <2>4. ASSUME NEW l \in Lits, ~InSeq(l, b), ~InSeq(l, c) PROVE f[l] = l
    <3>1. \A k \in 1 .. Len(s) : l # p[s[k]] /\ l # q[s[k]]
      BY <1>8, <1>9, <2>4 DEF InSeq
    <3>2. q[l] \in Lits /\ q[q[l]] = l
      BY <1>2, <1>3
    <3>3. p[q[l]] = q[l]
      <4>1. SUFFICES ASSUME p[q[l]] # q[l] PROVE FALSE
        OBVIOUS
      <4>2. q[q[l]] = q[l]
        <5>1. SUFFICES ASSUME q[q[l]] # q[l] PROVE FALSE
          OBVIOUS
        <5>2. PICK k \in 1 .. Len(s) : s[k] = q[l]
          BY <1>7, <3>2, <4>1, <5>1
        <5>3. q[s[k]] = l
          BY <3>2, <5>2
        <5>4. QED
          BY <3>1, <5>3
      <4>3. q[l] = l /\ p[l] # l /\ p[l] \in Lits /\ p[p[l]] = l
        BY <1>2, <1>3, <3>2, <4>1, <4>2
      <4>4. q[p[l]] # p[l] /\ p[p[l]] # p[l]
        BY <1>4, <4>3
      <4>5. PICK k \in 1 .. Len(s) : s[k] = p[l]
        BY <1>7, <4>3, <4>4
      <4>6. p[s[k]] = l
        BY <4>3, <4>5
      <4>7. QED
        BY <3>1, <4>6
    <3>4. QED
      BY <2>1, <3>2, <3>3
  <2>5. RowSwap(b, c) = f
    BY <1>8, <1>9, <1>12, <2>3, <2>4, SwapUnique
  <2>6. QED
    BY <2>1, <2>5
<1>15. p \in symmetries /\ Product(Product(q, p), q) \in symmetries
  BY DEF IsGroup
<1>16. PICK m : m = <<s, b, c>>
  OBVIOUS
<1>17. /\ m[1] = s /\ m[2] = b /\ m[3] = c /\ Len(m) = 3 /\ 3 \in Nat
       /\ m \in Seq(Seq(Lits))
  <2>1. s \in Seq(Lits) /\ b \in Seq(Lits) /\ c \in Seq(Lits)
    BY <1>7, <1>8, <1>9 DEF IsRow
  <2>2. PICK S : S = Seq(Lits)
    OBVIOUS
  <2>3. s \in S /\ b \in S /\ c \in S
    BY <2>1, <2>2
  <2>4. m \in Seq(S)
    BY <1>16, <2>3
  <2>5. QED
    BY <1>16, <2>2, <2>4
<1>18. Alike(s, s)
  BY DEF Alike
<1>19. \A r \in 1 .. Len(m) : r = 1 \/ r = 2 \/ r = 3
  BY <1>17
<1>20. \A r \in 1 .. Len(m) : IsRow(m[r]) /\ NegClosedRow(m[r]) /\ Alike(m[1], m[r])
  BY <1>7, <1>8, <1>9, <1>17, <1>18, <1>19
<1>21. \A r \in 1 .. Len(m) - 1 : r = 1 \/ r = 2
  BY <1>17
<1>22. /\ Apart(m[1], m[1 + 1]) /\ RowSwap(m[1], m[1 + 1]) \in symmetries
       /\ Apart(m[2], m[2 + 1]) /\ RowSwap(m[2], m[2 + 1]) \in symmetries
  <2>1. 1 + 1 = 2 /\ 2 + 1 = 3
    OBVIOUS
  <2>2. QED
    BY <1>11, <1>12, <1>13, <1>14, <1>15, <1>17, <2>1
<1>23. \A r \in 1 .. Len(m) - 1 :
         Apart(m[r], m[r + 1]) /\ RowSwap(m[r], m[r + 1]) \in symmetries
  BY <1>21, <1>22
<1>24. IsMatrix(m, symmetries)
  BY <1>17, <1>20, <1>23 DEF IsMatrix
<1>25. ASSUME FormsMatrixWith(q, p) PROVE RowsApart(m)
  <2>1. \A l \in Lits : q[l] # l => l \in CycleReprs(q) \/ q[l] \in CycleReprs(q)
    <3>1. \A l \in Lits : q[l] # l => l \in Domain(q)
      BY <1>2 DEF Domain
    <3>2. IsInvolution(q)
      BY DEF FormsMatrixWith
    <3>3. QED
      BY <1>1, <3>1, <3>2, InvolutionFacts
  <2>2. \A l \in CycleReprs(q) : (p[l] = l) # (p[q[l]] = q[l])
    BY <1>25 DEF FormsMatrixWith
  <2>3. \A l \in Lits : q[l] # l => ((p[l] = l) # (p[q[l]] = q[l]))
    BY <1>3, <2>1, <2>2
  <2>4. \A k \in 1 .. Len(s) : p[q[s[k]]] = q[s[k]]
    BY <1>7, <2>3
  <2>5. Apart(s, c)
    BY <1>7, <1>9, <2>4 DEF Apart
  <2>6. Apart(b, s) /\ Apart(c, s) /\ Apart(c, b)
    BY <1>11, <1>12, <2>5 DEF Apart
  <2>7. QED
    BY <1>11, <1>12, <1>17, <1>19, <2>5, <2>6 DEF RowsApart
<1>26. QED
  BY <1>5, <1>6, <1>16, <1>24, <1>25

-----------------------------------------------------------------------------
(* The indices of the loops stay in the vectors they run over, everything  *)
(* that joins the group is a symmetry, and the matrix under construction   *)
(* is one.                                                                 *)
Indices ==
  /\ oldNbRows \in Nat /\ i \in Nat /\ j \in Nat
  /\ pc \in {"extend", "stabilizer"} => j # 0
  /\ pc = "extend" => i # 0
  /\ pc \in {"bliss", "stabilizer"} => oldNbRows \in 1 .. Len(matrix)
  /\ pc \in {"clean", "cleanColumns"} => i \in 0 .. Len(permutations)
  /\ pc \notin {"initial", "done"} => Len(matrix) >= 3

SoundInv ==
  /\ IsGroup(symmetries)
  /\ permutations \in Seq(symmetries) /\ symgens \in Seq(symmetries)
  /\ IsMatrix(matrix, symmetries)
  /\ Indices

(* The matrix is empty when the search begins.                             *)
LEMMA InitSound == Init => SoundInv
<1> SUFFICES ASSUME Init PROVE SoundInv
  OBVIOUS
<1>1. PICK s \in Subgroups : symmetries = s.symmetries /\ permutations = s.permutations
  BY DEF Init
<1>2. IsGroup(symmetries) /\ permutations \in Seq(symmetries)
  BY <1>1, SubgroupsAssumption DEF IsGroup
<1>3. /\ matrix = <<>> /\ symgens = <<>> /\ pc = "initial" /\ i = 0 /\ j = 0
      /\ oldNbRows = 0
  BY DEF Init
<1>4. Len(matrix) = 0 /\ matrix \in Seq(Seq(Lits)) /\ symgens \in Seq(symmetries)
  BY <1>3
<1>5. IsMatrix(matrix, symmetries)
  BY <1>4 DEF IsMatrix
<1>6. Indices
  BY <1>3 DEF Indices
<1>7. QED
  BY <1>2, <1>4, <1>5, <1>6 DEF SoundInv

(* getInitialMatrix: the first three rows.                                 *)
LEMMA InitialMatrixSound == SoundInv /\ InitialMatrix => SoundInv'
<1> SUFFICES ASSUME SoundInv, InitialMatrix PROVE SoundInv'
  OBVIOUS
<1>1. IsGroup(symmetries) /\ permutations \in Seq(symmetries) /\ symmetries \subseteq LitPerms
  BY DEF SoundInv, IsGroup
<1>2. PICK x : x = FirstPair
  OBVIOUS
<1>3. PICK p : p = permutations[x[1]]
  OBVIOUS
<1>4. PICK q : q = permutations[x[2]]
  OBVIOUS
<1>5. PICK s \in SharedLiterals(p, q) : matrix' = <<s, ImageOf(p, s), ImageOf(q, s)>>
  BY <1>2, <1>3, <1>4 DEF InitialMatrix
<1>6. x \in Pairs
  <2>1. permutations \in Seq(LitPerms)
    BY <1>1
  <2>2. QED
    BY <1>2, <2>1, FirstPairFound DEF InitialMatrix
<1>7. p \in symmetries /\ q \in symmetries /\ FormsMatrixWith(p, q)
  <2>1. /\ x[1] \in 1 .. Len(permutations) /\ x[2] \in 1 .. Len(permutations)
        /\ FormsMatrixWith(permutations[x[1]], permutations[x[2]])
    BY <1>6 DEF Pairs
  <2>2. QED
    BY <1>1, <1>3, <1>4, <2>1
<1>8. IsMatrix(matrix', symmetries)
  BY <1>1, <1>5, <1>7, InitialRows
<1>9. /\ oldNbRows' = 0 /\ pc' = "extend" /\ i' = 1 /\ j' = 1
      /\ symmetries' = symmetries /\ permutations' = permutations
      /\ symgens' = symgens
  BY DEF InitialMatrix
<1>10. Len(matrix') = 3
  BY <1>5
<1>11. Indices'
  BY <1>9, <1>10 DEF Indices
<1>12. QED
  BY <1>8, <1>9, <1>11 DEF SoundInv, IsGroup, IsMatrix

(* No two involutions are left.                                            *)
LEMMA NoInitialMatrixSound == SoundInv /\ NoInitialMatrix => SoundInv'
BY DEF SoundInv, NoInitialMatrix, Indices, IsGroup, IsMatrix

(* maximallyExtend: one permutation is tried on one row.                   *)
LEMMA ExtendSound == SoundInv /\ Extend => SoundInv'
<1> SUFFICES ASSUME SoundInv, Extend PROVE SoundInv'
  OBVIOUS
<1>1. /\ IsGroup(symmetries) /\ permutations \in Seq(symmetries)
      /\ IsMatrix(matrix, symmetries) /\ Indices
      /\ symmetries \subseteq LitPerms
  BY DEF SoundInv, IsGroup
<1>2. /\ pc = "extend" /\ i <= Len(matrix) /\ pc' = "extend"
      /\ symmetries' = symmetries /\ permutations' = permutations
      /\ symgens' = symgens /\ oldNbRows' = oldNbRows
  BY DEF Extend
<1>3. Len(matrix) \in Nat /\ i \in 1 .. Len(matrix) /\ j \in Nat \ {0}
  BY <1>1, <1>2 DEF Indices, IsMatrix
<1>4. CASE j <= Len(permutations)
  <2>1. matrix' = matrix \o NewRows(matrix, permutations[j], i) /\ j' = j + 1 /\ i' = i
    BY <1>4 DEF Extend
  <2>2. permutations[j] \in symmetries
    BY <1>1, <1>3, <1>4
  <2>3. IsMatrix(matrix', symmetries) /\ Len(matrix') >= Len(matrix)
    BY <1>1, <1>3, <2>1, <2>2, AddRow
  <2>4. Len(matrix') \in Nat
    BY <2>3 DEF IsMatrix
  <2>5. Indices'
    BY <1>1, <1>2, <1>3, <2>1, <2>3, <2>4 DEF Indices
  <2>6. QED
    BY <1>2, <2>3, <2>5 DEF SoundInv, IsGroup, IsMatrix
<1>5. CASE ~(j <= Len(permutations))
  <2>1. matrix' = matrix /\ j' = 1 /\ i' = i + 1
    BY <1>5 DEF Extend
  <2>2. Indices'
    BY <1>1, <1>2, <1>3, <2>1 DEF Indices
  <2>3. QED
    BY <1>2, <2>1, <2>2 DEF SoundInv, IsGroup, IsMatrix
<1>6. QED
  BY <1>4, <1>5

(* The last row before bliss is called becomes the former last row.        *)
LEMMA ColourSound == SoundInv /\ Colour => SoundInv'
<1> SUFFICES ASSUME SoundInv, Colour PROVE SoundInv'
  OBVIOUS
<1>1. Len(matrix) \in Nat
  BY DEF SoundInv, IsMatrix
<1>2. Indices'
  BY <1>1 DEF SoundInv, Indices, Colour
<1>3. QED
  BY <1>2 DEF SoundInv, Colour, IsGroup, IsMatrix

(* Whatever bliss reports, it reports symmetries.                          *)
LEMMA BlissSound == SoundInv /\ Bliss => SoundInv'
<1> SUFFICES ASSUME SoundInv, Bliss PROVE SoundInv'
  OBVIOUS
<1>1. symgens' \in Seq(symmetries)
  <2>1. PICK n \in 0 .. MaxGens : symgens' \in [1 .. n -> Stabilizer \ {IdPerm}]
    BY DEF Bliss, Reports
  <2>2. n \in Nat
    BY MaxGensAssumption
  <2>3. Stabilizer \subseteq symmetries
    BY DEF Stabilizer
  <2>4. QED
    BY <2>1, <2>2, <2>3
<1>2. Indices'
  BY DEF SoundInv, Indices, Bliss
<1>3. QED
  BY <1>1, <1>2 DEF SoundInv, Bliss, IsGroup, IsMatrix

(* A generator is tried on the former last row, which still exists.        *)
LEMMA TryStabilizerSound == SoundInv /\ TryStabilizer => SoundInv'
<1> SUFFICES ASSUME SoundInv, TryStabilizer PROVE SoundInv'
  OBVIOUS
<1>1. /\ IsGroup(symmetries) /\ permutations \in Seq(symmetries)
      /\ symgens \in Seq(symmetries)
      /\ IsMatrix(matrix, symmetries) /\ Indices
      /\ symmetries \subseteq LitPerms
  BY DEF SoundInv, IsGroup
<1>2. /\ pc = "stabilizer" /\ j <= Len(symgens) /\ pc' = "stabilizer"
      /\ matrix' = matrix \o NewRows(matrix, symgens[j], oldNbRows)
      /\ permutations' = Append(permutations, symgens[j])
      /\ j' = j + 1 /\ i' = i
      /\ symmetries' = symmetries /\ symgens' = symgens /\ oldNbRows' = oldNbRows
  BY DEF TryStabilizer
<1>3. /\ Len(matrix) \in Nat /\ Len(symgens) \in Nat
      /\ oldNbRows \in 1 .. Len(matrix) /\ j \in 1 .. Len(symgens)
  BY <1>1, <1>2 DEF Indices, IsMatrix
<1>4. symgens[j] \in symmetries
  BY <1>1, <1>3
<1>5. permutations' \in Seq(symmetries)
  BY <1>1, <1>2, <1>4
<1>6. IsMatrix(matrix', symmetries) /\ Len(matrix') >= Len(matrix)
  BY <1>1, <1>2, <1>3, <1>4, AddRow
<1>7. Len(matrix') \in Nat
  BY <1>6 DEF IsMatrix
<1>8. Indices'
  BY <1>1, <1>2, <1>3, <1>6, <1>7 DEF Indices
<1>9. QED
  BY <1>1, <1>2, <1>5, <1>6, <1>8 DEF SoundInv, IsGroup, IsMatrix

(* The rows found since bliss was called are looked at next.               *)
LEMMA EndStabilizerSound == SoundInv /\ EndStabilizer => SoundInv'
<1> SUFFICES ASSUME SoundInv, EndStabilizer PROVE SoundInv'
  OBVIOUS
<1>1. Indices'
  BY DEF SoundInv, Indices, EndStabilizer
<1>2. QED
  BY <1>1 DEF SoundInv, EndStabilizer, IsGroup, IsMatrix

(* cleanPermutations starts at the last permutation.                       *)
LEMMA AddMatrixSound == SoundInv /\ AddMatrix => SoundInv'
<1> SUFFICES ASSUME SoundInv, AddMatrix PROVE SoundInv'
  OBVIOUS
<1>1. Len(permutations) \in Nat
  BY DEF SoundInv
<1>2. Indices'
  BY <1>1 DEF SoundInv, Indices, AddMatrix
<1>3. QED
  BY <1>2 DEF SoundInv, AddMatrix, IsGroup, IsMatrix

(* swapErase takes one element from the vector.                            *)
LEMMA SwapEraseFacts ==
  ASSUME NEW T, NEW vec \in Seq(T), NEW k \in 1 .. Len(vec)
  PROVE  SwapErase(vec, k) \in Seq(T) /\ Len(SwapErase(vec, k)) = Len(vec) - 1
<1>1. PICK N \in Nat \ {0} : N = Len(vec) /\ vec[N] \in T /\ \A n \in 1 .. N : vec[n] \in T
  OBVIOUS
<1>2. PICK w : w = [n \in 1 .. N - 1 |-> IF n = k THEN vec[N] ELSE vec[n]]
  OBVIOUS
<1>3. w = SwapErase(vec, k)
  BY <1>1, <1>2 DEF SwapErase
<1>4. N - 1 \in Nat /\ \A n \in 1 .. N - 1 : w[n] \in T
  BY <1>1, <1>2
<1>5. w \in Seq(T) /\ Len(w) = N - 1
  BY <1>2, <1>4
<1>6. QED
  BY <1>1, <1>3, <1>5

(* One turn of cleanPermutations; its index stays below the end.           *)
LEMMA CleanSound == SoundInv /\ Clean => SoundInv'
<1> SUFFICES ASSUME SoundInv, Clean PROVE SoundInv'
  OBVIOUS
<1>1. permutations \in Seq(symmetries) /\ Len(permutations) \in Nat
  BY DEF SoundInv
<1>2. i \in 1 .. Len(permutations)
  BY <1>1 DEF SoundInv, Indices, Clean
<1>3. /\ permutations' \in Seq(symmetries) /\ Len(permutations') \in Nat
      /\ Len(permutations') >= Len(permutations) - 1
  <2>1. permutations' = SwapErase(permutations, i) \/ permutations' = permutations
    BY DEF Clean
  <2>2. SwapErase(permutations, i) \in Seq(symmetries)
        /\ Len(SwapErase(permutations, i)) = Len(permutations) - 1
    BY <1>1, <1>2, SwapEraseFacts
  <2>3. CASE permutations' = SwapErase(permutations, i)
    <3>1. Len(permutations') = Len(permutations) - 1
      BY <2>2, <2>3
    <3>2. QED
      BY <1>1, <1>2, <2>2, <2>3, <3>1
  <2>4. CASE permutations' = permutations
    BY <1>1, <2>4
  <2>5. QED
    BY <2>1, <2>3, <2>4
<1>4. i' = i - 1 /\ i' \in 0 .. Len(permutations')
  <2>1. i' = i - 1
    BY DEF Clean
  <2>2. QED
    BY <1>1, <1>2, <1>3, <2>1
<1>5. Indices'
  BY <1>4 DEF SoundInv, Indices, Clean
<1>6. QED
  BY <1>3, <1>5 DEF SoundInv, Clean, IsGroup, IsMatrix

(* A matrix of columns leaves the matrix of rows as it is.                 *)
LEMMA CheckColumnsSound == SoundInv /\ CheckColumns => SoundInv'
<1> SUFFICES ASSUME SoundInv, CheckColumns PROVE SoundInv'
  OBVIOUS
<1>1. Len(permutations) \in Nat
  BY DEF SoundInv
<1>2. /\ pc = "clean"
      /\ \/ pc' = "cleanColumns" /\ i' = Len(permutations)
         \/ pc' = "fixLast" /\ i' = 0
      /\ symmetries' = symmetries /\ permutations' = permutations
      /\ symgens' = symgens /\ matrix' = matrix /\ oldNbRows' = oldNbRows /\ j' = j
  BY DEF CheckColumns
<1>3. Indices'
  BY <1>1, <1>2 DEF SoundInv, Indices
<1>4. QED
  BY <1>2, <1>3 DEF SoundInv, IsGroup, IsMatrix

(* The search starts again.                                                *)
LEMMA FixLastRowSound == SoundInv /\ FixLastRow => SoundInv'
<1> SUFFICES ASSUME SoundInv, FixLastRow PROVE SoundInv'
  OBVIOUS
<1>1. Indices'
  BY DEF SoundInv, Indices, FixLastRow
<1>2. QED
  BY <1>1 DEF SoundInv, FixLastRow, IsGroup, IsMatrix

(* The invariant is inductive.                                             *)
LEMMA NextSound == SoundInv /\ [Next]_vars => SoundInv'
<1>1. SoundInv /\ UNCHANGED vars => SoundInv'
  BY DEF SoundInv, Indices, vars, IsGroup, IsMatrix
<1>2. QED
  BY <1>1, InitialMatrixSound, NoInitialMatrixSound, ExtendSound, ColourSound,
     BlissSound, TryStabilizerSound, EndStabilizerSound, AddMatrixSound,
     CleanSound, CheckColumnsSound, FixLastRowSound DEF Next

(* While a matrix is built, its consecutive rows are interchangeable,      *)
(* although its first three rows are not tested against the formula and a  *)
(* new row is tested with the row it is an image of, not with the last one *)
(* (getInitialMatrix, tryToAddNewRow).                                     *)
THEOREM ConstructionIsSound == Spec => []ConstructionSound
<1>1. SoundInv => ConstructionSound
  BY DEF SoundInv, IsMatrix, ConstructionSound, Swaps
<1>2. QED
  BY InitSound, NextSound, <1>1, PTL DEF Spec

-----------------------------------------------------------------------------
(* A matrix with no literal in two rows, any two rows of which can be      *)
(* swapped because consecutive ones can.                                   *)
FullMatrix(m) ==
  /\ m \in Seq(Seq(Lits)) /\ Len(m) >= 2
  /\ \A r \in 1 .. Len(m) : IsRow(m[r])
  /\ RowsApart(m)
  /\ \A r \in 1 .. Len(m) - 1 : RowSwap(m[r], m[r + 1]) \in symmetries

(* Every row has a literal. *)
Filled(m) == \A r \in 1 .. Len(m) : Len(m[r]) >= 1

(* A matrix whose rows hold the negation of every literal they hold. *)
AllClosed(m) == \A r \in 1 .. Len(m) : NegClosedRow(m[r])

(* It does not matter in which order two rows are swapped.                 *)
LEMMA SwapSymmetric ==
  ASSUME NEW a, NEW b, IsRow(a), IsRow(b), Apart(a, b)
  PROVE  RowSwap(b, a) = RowSwap(a, b)
<1>1. PICK f : f = RowSwap(a, b)
  OBVIOUS
<1>2. /\ f \in [Lits -> Lits]
      /\ \A k \in 1 .. Len(a) : f[a[k]] = b[k] /\ f[b[k]] = a[k]
      /\ \A l \in Lits : ~InSeq(l, a) /\ ~InSeq(l, b) => f[l] = l
  BY <1>1, SwapFacts
<1>3. Apart(b, a) /\ Len(a) = Len(b)
  BY DEF Apart
<1>4. RowSwap(b, a) = f
  BY <1>2, <1>3, SwapUnique
<1>5. QED
  BY <1>1, <1>4

(* A row swapped with itself moves nothing, and neither does a swap that   *)
(* is carried out twice.                                                   *)
LEMMA SwapTwice ==
  ASSUME NEW a, NEW b, NEW c, IsRow(a), IsRow(b), IsRow(c), Apart(a, b)
  PROVE  RowSwap(c, c) = Product(RowSwap(a, b), RowSwap(a, b))
<1>1. PICK s : s = RowSwap(a, b)
  OBVIOUS
<1>2. /\ s \in [Lits -> Lits]
      /\ \A k \in 1 .. Len(a) : s[a[k]] = b[k] /\ s[b[k]] = a[k]
      /\ \A l \in Lits : ~InSeq(l, a) /\ ~InSeq(l, b) => s[l] = l
  BY <1>1, SwapFacts
<1>3. ASSUME NEW l \in Lits PROVE s[s[l]] = l
  <2>1. CASE InSeq(l, a)
    BY <1>2, <2>1 DEF InSeq
  <2>2. CASE InSeq(l, b)
    <3>1. Len(a) = Len(b)
      BY DEF Apart
    <3>2. QED
      BY <1>2, <2>2, <3>1 DEF InSeq
  <2>3. QED
    BY <1>2, <2>1, <2>2
<1>4. PICK t : t = RowSwap(c, c)
  OBVIOUS
<1>5. ASSUME NEW l \in Lits PROVE t[l] = l
  <2>1. t[l] = IF InSeq(l, c) THEN c[CHOOSE k \in 1 .. Len(c) : c[k] = l] ELSE l
    BY <1>4 DEF RowSwap
  <2>2. CASE InSeq(l, c)
    <3>1. PICK k \in 1 .. Len(c) : c[k] = l
      BY <2>2 DEF InSeq
    <3>2. (CHOOSE h \in 1 .. Len(c) : c[h] = c[k]) = k
      BY PlaceFacts
    <3>3. QED
      BY <2>1, <2>2, <3>1, <3>2
  <2>3. QED
    BY <2>1, <2>2
<1>6. t \in [Lits -> Lits]
  <2>1. DOMAIN t = Lits /\ t = [l \in Lits |-> t[l]]
    BY <1>4 DEF RowSwap
  <2>2. QED
    BY <1>5, <2>1
<1>7. PICK f \in [Lits -> Lits] : f = Product(s, s) /\ \A l \in Lits : f[l] = s[s[l]]
  BY <1>2, ProductFacts
<1>8. t = f
  BY <1>3, <1>5, <1>6, <1>7
<1>9. QED
  BY <1>1, <1>4, <1>7, <1>8

(* From consecutive rows to any two rows.                                  *)
LEMMA AnyTwoRows ==
  ASSUME IsGroup(symmetries), NEW m, FullMatrix(m)
  PROVE  \A q, r \in 1 .. Len(m) : RowSwap(m[q], m[r]) \in symmetries
<1>1. /\ Len(m) \in Nat /\ Len(m) >= 2
      /\ \A r \in 1 .. Len(m) : IsRow(m[r])
      /\ \A q, r \in 1 .. Len(m) : q # r => Apart(m[q], m[r])
      /\ \A r \in 1 .. Len(m) - 1 : RowSwap(m[r], m[r + 1]) \in symmetries
  BY DEF FullMatrix, RowsApart
<1>2. \A p, q \in symmetries : Product(p, q) \in symmetries
  BY DEF IsGroup
<1>3. ASSUME NEW q \in 1 .. Len(m)
      PROVE  \A r \in 1 .. Len(m) : q < r => RowSwap(m[q], m[r]) \in symmetries
  <2> DEFINE A == {n \in Nat : q + (n + 1) <= Len(m)
                                 => RowSwap(m[q], m[q + (n + 1)]) \in symmetries}
  <2>1. 0 \in A
    <3>1. q + (0 + 1) <= Len(m) => q \in 1 .. Len(m) - 1 /\ q + (0 + 1) = q + 1
      BY <1>1
    <3>2. QED
      BY <1>1, <3>1
  <2>2. ASSUME NEW n \in Nat, n \in A PROVE n + 1 \in A
    <3>1. SUFFICES ASSUME q + ((n + 1) + 1) <= Len(m)
                   PROVE  RowSwap(m[q], m[q + ((n + 1) + 1)]) \in symmetries
      OBVIOUS
    <3>2. PICK h \in 1 .. Len(m) - 1 : h = q + (n + 1)
      BY <1>1, <3>1
    <3>3. /\ h \in 1 .. Len(m) /\ h + 1 \in 1 .. Len(m) /\ h # q /\ h + 1 # q
          /\ h # h + 1 /\ h + 1 = q + ((n + 1) + 1) /\ q + (n + 1) <= Len(m)
      BY <1>1, <3>2
    <3>4. PICK s : s = RowSwap(m[h], m[q])
      OBVIOUS
    <3>5. PICK t : t = RowSwap(m[h], m[h + 1])
      OBVIOUS
    <3>6. t \in symmetries
      BY <1>1, <3>2, <3>5
    <3>7. s \in symmetries
      <4>1. RowSwap(m[q], m[h]) \in symmetries
        BY <2>2, <3>2, <3>3
      <4>2. s = RowSwap(m[q], m[h])
        BY <1>1, <3>3, <3>4, SwapSymmetric
      <4>3. QED
        BY <4>1, <4>2
    <3>8. RowSwap(m[q], m[h + 1]) = Product(Product(s, t), s)
      BY <1>1, <3>3, <3>4, <3>5, Conjugate
    <3>9. QED
      BY <1>2, <3>3, <3>6, <3>7, <3>8
  <2> HIDE DEF A
  <2>3. Nat \subseteq A
    BY <2>1, <2>2, SetInduction
  <2>4. ASSUME NEW r \in 1 .. Len(m), q < r PROVE RowSwap(m[q], m[r]) \in symmetries
    <3>1. r - q - 1 \in Nat /\ q + ((r - q - 1) + 1) = r /\ r <= Len(m)
      BY <1>1, <2>4
    <3>2. r - q - 1 \in A
      BY <2>3, <3>1
    <3>3. QED
      BY <3>1, <3>2 DEF A
  <2>5. QED
    BY <2>4
<1>4. ASSUME NEW q \in 1 .. Len(m), NEW r \in 1 .. Len(m)
      PROVE  RowSwap(m[q], m[r]) \in symmetries
  <2>1. CASE q < r
    BY <1>3, <2>1
  <2>2. CASE r < q
    <3>1. RowSwap(m[r], m[q]) \in symmetries
      BY <1>3, <2>2
    <3>2. RowSwap(m[q], m[r]) = RowSwap(m[r], m[q])
      BY <1>1, <2>2, SwapSymmetric
    <3>3. QED
      BY <3>1, <3>2
  <2>3. CASE q = r
    <3>1. 1 \in 1 .. Len(m) /\ 2 \in 1 .. Len(m) /\ 1 \in 1 .. Len(m) - 1 /\ 1 + 1 = 2
      BY <1>1
    <3>2. PICK s : s = RowSwap(m[1], m[2])
      OBVIOUS
    <3>3. s \in symmetries
      BY <1>1, <3>1, <3>2
    <3>4. RowSwap(m[q], m[q]) = Product(s, s)
      BY <1>1, <3>1, <3>2, SwapTwice
    <3>5. QED
      BY <1>2, <2>3, <3>3, <3>4
  <2>4. QED
    BY <2>1, <2>2, <2>3
<1>5. QED
  BY <1>4

-----------------------------------------------------------------------------
(* Where a literal or its negation can be in a matrix.                     *)
LEMMA EntryFacts ==
  ASSUME NEW m, IsMatrix(m, symmetries), RowsApart(m), Len(m) >= 1
  PROVE  \A q, r \in 1 .. Len(m), c, e \in 1 .. Len(m[1]) :
           /\ m[r][c] \in Lits
           /\ m[q][c] = m[r][e] => q = r /\ c = e
           /\ m[q][c] = Neg(m[r][e]) => q = r /\ m[1][c] = Neg(m[1][e])
<1>1. /\ Len(m) \in Nat /\ 1 \in 1 .. Len(m)
      /\ \A r \in 1 .. Len(m) : IsRow(m[r]) /\ NegClosedRow(m[r]) /\ Alike(m[1], m[r])
      /\ \A q, r \in 1 .. Len(m) : q # r => Apart(m[q], m[r])
  BY DEF IsMatrix, RowsApart
<1>2. \A r \in 1 .. Len(m) : Len(m[r]) = Len(m[1])
  BY <1>1 DEF Alike
<1>3. SUFFICES ASSUME NEW q \in 1 .. Len(m), NEW r \in 1 .. Len(m),
                      NEW c \in 1 .. Len(m[1]), NEW e \in 1 .. Len(m[1])
               PROVE  /\ m[r][c] \in Lits
                      /\ m[q][c] = m[r][e] => q = r /\ c = e
                      /\ m[q][c] = Neg(m[r][e]) => q = r /\ m[1][c] = Neg(m[1][e])
  BY Zenon
<1>4. m[r][c] \in Lits
  BY <1>1, <1>2 DEF IsRow
<1>5. q # r => \A x, y \in 1 .. Len(m[1]) : m[q][x] # m[r][y]
  BY <1>1, <1>2 DEF Apart
<1>6. q = r => (m[q][c] = m[r][e] => c = e)
  BY <1>1, <1>2 DEF IsRow
<1>7. PICK x \in 1 .. Len(m[1]) : m[r][x] = Neg(m[r][e])
  BY <1>1, <1>2 DEF NegClosedRow, InSeq
<1>8. q # r => m[q][c] # Neg(m[r][e])
  BY <1>5, <1>7
<1>9. m[r][c] = Neg(m[r][e]) => m[1][c] = Neg(m[1][e])
  BY <1>1, <1>2 DEF Alike
<1>10. QED
  BY <1>4, <1>5, <1>6, <1>8, <1>9

(* A column is a row of the second matrix.                                 *)
LEMMA ColumnFacts ==
  ASSUME NEW m, IsMatrix(m, symmetries), RowsApart(m), Len(m) >= 1,
         NEW c \in 1 .. Len(m[1])
  PROVE  /\ IsRow(Column(m, c)) /\ Len(Column(m, c)) = 2 * Len(m)
         /\ NegClosedRow(Column(m, c))
         /\ \A n \in 1 .. 2 * Len(m) : \E r \in 1 .. Len(m) :
              Column(m, c)[n] = m[r][c] \/ Column(m, c)[n] = Neg(m[r][c])
<1>1. PICK N \in Nat : N = Len(m)
  BY DEF IsMatrix
<1>2. PICK d : d = [r \in 1 .. N |-> m[r][c]]
  OBVIOUS
<1>3. Column(m, c) = WithNegations(d)
  BY <1>1, <1>2 DEF Column
<1>4. \A q, r \in 1 .. N : /\ m[r][c] \in Lits
                           /\ m[q][c] = m[r][c] => q = r
                           /\ m[q][c] # Neg(m[r][c])
  <2>1. \A r \in 1 .. N : m[r][c] \in Lits
    BY <1>1, EntryFacts
  <2>2. \A q, r \in 1 .. N : m[q][c] = m[r][c] => q = r
    BY <1>1, EntryFacts
  <2>3. \A q, r \in 1 .. N : m[q][c] = Neg(m[r][c]) => q = r
    BY <1>1, EntryFacts, SMTT(30)
  <2>4. \A r \in 1 .. N : m[r][c] # Neg(m[r][c])
    BY <2>1, NegLits
  <2>5. QED
    BY <2>1, <2>2, <2>3, <2>4
<1>5. d \in Seq(Lits) /\ Len(d) = N /\ \A r \in 1 .. N : d[r] = m[r][c]
  BY <1>2, <1>4
<1>6. Independent(d)
  BY <1>4, <1>5 DEF Independent
<1>7. /\ IsRow(WithNegations(d)) /\ Len(WithNegations(d)) = 2 * Len(d)
      /\ NegClosedRow(WithNegations(d))
      /\ \A n \in 1 .. 2 * Len(d) : \E k \in 1 .. Len(d) :
           WithNegations(d)[n] = d[k] \/ WithNegations(d)[n] = Neg(d[k])
  BY <1>6, PairingFacts
<1>8. QED
  BY <1>1, <1>3, <1>5, <1>7

(* Columns that start with different positive literals have none in common. *)
LEMMA ColumnsApart ==
  ASSUME NEW m, IsMatrix(m, symmetries), RowsApart(m), Len(m) >= 1,
         NEW c \in 1 .. Len(m[1]), NEW e \in 1 .. Len(m[1]), c # e,
         ~Sign(m[1][c]), ~Sign(m[1][e])
  PROVE  Apart(Column(m, c), Column(m, e))
<1>1. PICK N \in Nat : N = Len(m)
  BY SMTT(30) DEF IsMatrix
<1>2. PICK x : x = Column(m, c)
  OBVIOUS
<1>3. PICK y : y = Column(m, e)
  OBVIOUS
<1>4. /\ Len(x) = 2 * N /\ Len(y) = 2 * N
      /\ \A n \in 1 .. 2 * N : \E r \in 1 .. N : x[n] = m[r][c] \/ x[n] = Neg(m[r][c])
      /\ \A n \in 1 .. 2 * N : \E r \in 1 .. N : y[n] = m[r][e] \/ y[n] = Neg(m[r][e])
  BY <1>1, <1>2, <1>3, ColumnFacts
<1>5. \A r \in 1 .. N : m[r][c] \in Lits /\ m[r][e] \in Lits
  BY <1>1, EntryFacts
<1>6. \A q, r \in 1 .. N : m[q][c] # m[r][e]
  BY <1>1, EntryFacts, SMTT(30)
<1>7. \A q, r \in 1 .. N : m[q][c] # Neg(m[r][e])
  <2>1. SUFFICES ASSUME NEW q \in 1 .. N, NEW r \in 1 .. N, m[q][c] = Neg(m[r][e])
                 PROVE  FALSE
    OBVIOUS
  <2>2. m[1][c] = Neg(m[1][e])
    BY <1>1, <2>1, EntryFacts
  <2>3. m[1][e] \in Lits
    <3>1. 1 \in 1 .. N
      BY <1>1
    <3>2. QED
      BY <1>5, <3>1
  <2>4. QED
    BY <2>2, <2>3, NegLits
<1>8. ASSUME NEW n \in 1 .. 2 * N, NEW k \in 1 .. 2 * N, x[n] = y[k] PROVE FALSE
  <2>1. PICK q \in 1 .. N : x[n] = m[q][c] \/ x[n] = Neg(m[q][c])
    BY <1>4
  <2>2. PICK r \in 1 .. N : y[k] = m[r][e] \/ y[k] = Neg(m[r][e])
    BY <1>4
  <2>3. /\ Neg(Neg(m[q][c])) = m[q][c] /\ Neg(Neg(m[r][e])) = m[r][e]
    BY <1>5, NegLits
  <2>4. m[q][c] # m[r][e] /\ m[q][c] # Neg(m[r][e])
    BY <1>6, <1>7
  <2>5. QED
    BY <1>8, <2>1, <2>2, <2>3, <2>4
<1>9. Apart(x, y)
  BY <1>4, <1>8 DEF Apart
<1>10. QED
  BY <1>2, <1>3, <1>9

-----------------------------------------------------------------------------
(* The columns collected after k turns of the loop: different ones that    *)
(* start with a positive literal; consecutive ones can be swapped, because *)
(* each can be swapped with the first one.                                 *)
IsPositive(m, c) == c \in 1 .. Len(m[1]) /\ ~Sign(m[1][c])

Collected(m, k, y) ==
  /\ y \in Seq(Seq(Lits))
  /\ \E place \in [1 .. Len(y) -> 1 .. k] :
       /\ \A n \in 1 .. Len(y) : IsPositive(m, place[n]) /\ y[n] = Column(m, place[n])
       /\ \A n, h \in 1 .. Len(y) : n # h => place[n] # place[h]
  /\ \A n \in 1 .. Len(y) : n # 1 => RowSwap(y[1], y[n]) \in symmetries

(* What is collected makes a matrix, by way of the first column.           *)
LEMMA CollectedFull ==
  ASSUME IsGroup(symmetries), NEW m, IsMatrix(m, symmetries), RowsApart(m),
         Len(m) >= 1, NEW k \in Nat, NEW y, Collected(m, k, y), Len(y) >= 2
  PROVE  FullMatrix(y) /\ Filled(y) /\ AllClosed(y)
<1>1. /\ y \in Seq(Seq(Lits)) /\ Len(y) \in Nat
      /\ \A n \in 1 .. Len(y) : n # 1 => RowSwap(y[1], y[n]) \in symmetries
  BY DEF Collected
<1>2. PICK place \in [1 .. Len(y) -> 1 .. k] :
        /\ \A n \in 1 .. Len(y) : IsPositive(m, place[n]) /\ y[n] = Column(m, place[n])
        /\ \A n, h \in 1 .. Len(y) : n # h => place[n] # place[h]
  BY DEF Collected
<1>3. \A n \in 1 .. Len(y) : IsRow(y[n]) /\ Len(y[n]) >= 1 /\ NegClosedRow(y[n])
  <2>1. ASSUME NEW n \in 1 .. Len(y)
        PROVE  IsRow(y[n]) /\ Len(y[n]) >= 1 /\ NegClosedRow(y[n])
    <3>1. place[n] \in 1 .. Len(m[1]) /\ y[n] = Column(m, place[n])
      BY <1>2 DEF IsPositive
    <3>2. IsRow(y[n]) /\ Len(y[n]) = 2 * Len(m) /\ NegClosedRow(y[n])
      BY <3>1, ColumnFacts
    <3>3. 2 * Len(m) >= 1
      BY DEF IsMatrix
    <3>4. QED
      BY <3>2, <3>3
  <2>2. QED
    BY <2>1
<1>4. \A n, h \in 1 .. Len(y) : n # h => Apart(y[n], y[h])
  <2>1. ASSUME NEW n \in 1 .. Len(y), NEW h \in 1 .. Len(y), n # h
        PROVE  Apart(y[n], y[h])
    <3>1. PICK c \in 1 .. Len(m[1]) : c = place[n] /\ y[n] = Column(m, c) /\ ~Sign(m[1][c])
      BY <1>2 DEF IsPositive
    <3>2. PICK e \in 1 .. Len(m[1]) : e = place[h] /\ y[h] = Column(m, e) /\ ~Sign(m[1][e])
      BY <1>2 DEF IsPositive
    <3>3. c # e
      BY <1>2, <2>1, <3>1, <3>2
    <3>4. QED
      BY <3>1, <3>2, <3>3, ColumnsApart
  <2>2. QED
    BY <2>1
<1>5. ASSUME NEW n \in 1 .. Len(y) - 1 PROVE RowSwap(y[n], y[n + 1]) \in symmetries
  <2>1. 1 \in 1 .. Len(y) /\ n \in 1 .. Len(y) /\ n + 1 \in 1 .. Len(y) /\ n + 1 # 1
        /\ n # n + 1
    BY <1>1
  <2>2. PICK t : t = RowSwap(y[1], y[n + 1])
    OBVIOUS
  <2>3. t \in symmetries
    BY <1>1, <2>1, <2>2
  <2>4. CASE n = 1
    BY <2>2, <2>3, <2>4
  <2>5. CASE n # 1
    <3>1. PICK s : s = RowSwap(y[1], y[n])
      OBVIOUS
    <3>2. s \in symmetries
      BY <1>1, <2>1, <2>5, <3>1
    <3>3. RowSwap(y[n], y[n + 1]) = Product(Product(s, t), s)
      BY <1>3, <1>4, <2>1, <2>2, <2>5, <3>1, Conjugate
    <3>4. QED
      BY <2>3, <3>2, <3>3 DEF IsGroup
  <2>6. QED
    BY <2>4, <2>5
<1>6. QED
  BY <1>1, <1>3, <1>4, <1>5 DEF FullMatrix, RowsApart, Filled, AllClosed

(* One turn of the loop.                                                   *)
LEMMA CollectOne ==
  ASSUME NEW m, IsMatrix(m, symmetries), RowsApart(m), Len(m) >= 1,
         NEW k \in Nat, k + 1 \in 1 .. Len(m[1]), NEW y, Collected(m, k, y)
  PROVE  Collected(m, k + 1, WithColumn(m, y, k + 1))
<1>1. /\ y \in Seq(Seq(Lits)) /\ Len(y) \in Nat
      /\ \A n \in 1 .. Len(y) : n # 1 => RowSwap(y[1], y[n]) \in symmetries
  BY DEF Collected
<1>2. PICK place \in [1 .. Len(y) -> 1 .. k] :
        /\ \A n \in 1 .. Len(y) : IsPositive(m, place[n]) /\ y[n] = Column(m, place[n])
        /\ \A n, h \in 1 .. Len(y) : n # h => place[n] # place[h]
  BY DEF Collected
<1>3. PICK x : x = Column(m, k + 1)
  OBVIOUS
<1>4. CASE WithColumn(m, y, k + 1) = y
  <2>1. place \in [1 .. Len(y) -> 1 .. k + 1]
    BY <1>2
  <2>2. QED
    BY <1>1, <1>2, <1>4, <2>1 DEF Collected
<1>5. CASE WithColumn(m, y, k + 1) # y
  <2>1. /\ WithColumn(m, y, k + 1) = Append(y, x) /\ ~Sign(m[1][k + 1])
        /\ y # <<>> => RowSwap(y[1], x) \in symmetries
    BY <1>3, <1>5 DEF WithColumn
  <2>2. x \in Seq(Lits)
    BY <1>3, ColumnFacts DEF IsRow
  <2>3. PICK S : S = Seq(Lits)
    OBVIOUS
  <2>4. y \in Seq(S) /\ x \in S
    BY <1>1, <2>2, <2>3
  <2>5. PICK w : w = WithColumn(m, y, k + 1)
    OBVIOUS
  <2>6. /\ w \in Seq(S) /\ Len(w) = Len(y) + 1 /\ w[Len(y) + 1] = x
        /\ \A n \in 1 .. Len(y) : w[n] = y[n]
    <3>1. w = Append(y, x)
      BY <2>1, <2>5
    <3>2. QED
      BY <2>4, <3>1, OneAppended
  <2>7. PICK N \in Nat : N = Len(y) /\ Len(w) = N + 1
    BY <1>1, <2>6
  <2>8. PICK f : f = [n \in 1 .. N + 1 |-> IF n = N + 1 THEN k + 1 ELSE place[n]]
    OBVIOUS
  <2>9. \A n \in 1 .. N : n \in 1 .. N + 1 /\ n # N + 1 /\ f[n] = place[n]
                           /\ f[n] \in 1 .. k /\ f[n] # k + 1
    <3>1. \A n \in 1 .. N : n \in 1 .. N + 1 /\ n # N + 1
      OBVIOUS
    <3>2. \A n \in 1 .. N : f[n] = place[n]
      BY <2>8, <3>1
    <3>3. \A n \in 1 .. N : place[n] \in 1 .. k
      BY <1>2, <2>7
    <3>4. \A n \in 1 .. k : n # k + 1
      OBVIOUS
    <3>5. QED
      BY <3>1, <3>2, <3>3, <3>4
  <2>10. \A n \in 1 .. N + 1 : n \in 1 .. N \/ n = N + 1
    OBVIOUS
  <2>11. f[N + 1] = k + 1
    BY <2>8
  <2>12. f \in [1 .. N + 1 -> 1 .. k + 1]
    <3>1. \A n \in 1 .. N + 1 : f[n] \in 1 .. k + 1
      BY <2>9, <2>10, <2>11
    <3>2. QED
      BY <2>8, <3>1
  <2>13. \A n \in 1 .. N + 1 : IsPositive(m, f[n]) /\ w[n] = Column(m, f[n])
    <3>1. IsPositive(m, k + 1)
      BY <2>1 DEF IsPositive
    <3>2. QED
      BY <1>2, <1>3, <2>6, <2>7, <2>9, <2>10, <2>11, <3>1
  <2>14. \A n, h \in 1 .. N + 1 : n # h => f[n] # f[h]
    BY <1>2, <2>7, <2>9, <2>10, <2>11
  <2>15. \A n \in 1 .. N + 1 : n # 1 => RowSwap(w[1], w[n]) \in symmetries
    <3>1. SUFFICES ASSUME NEW n \in 1 .. N + 1, n # 1
                   PROVE  RowSwap(w[1], w[n]) \in symmetries
      OBVIOUS
    <3>2. 1 \in 1 .. N
      BY <3>1
    <3>3. w[1] = y[1] /\ y # <<>>
      BY <2>6, <2>7, <3>2
    <3>4. CASE n \in 1 .. N
      BY <1>1, <2>6, <2>7, <3>1, <3>3, <3>4
    <3>5. CASE n = N + 1
      BY <2>1, <2>6, <2>7, <3>3, <3>5
    <3>6. QED
      BY <2>10, <3>4, <3>5
  <2>16. w \in Seq(Seq(Lits))
    BY <2>3, <2>6
  <2>17. PICK h \in Nat : h = k + 1
    OBVIOUS
  <2>18. Collected(m, h, w)
    <3>1. Len(w) = N + 1 /\ f \in [1 .. Len(w) -> 1 .. h]
      BY <2>7, <2>12, <2>17
    <3>2. /\ \A n \in 1 .. Len(w) : IsPositive(m, f[n]) /\ w[n] = Column(m, f[n])
          /\ \A n, q \in 1 .. Len(w) : n # q => f[n] # f[q]
      BY <2>13, <2>14, <3>1
    <3>3. \A n \in 1 .. Len(w) : n # 1 => RowSwap(w[1], w[n]) \in symmetries
      BY <2>15, <3>1
    <3>4. QED
      BY <2>16, <3>1, <3>2, <3>3, Zenon DEF Collected
  <2>19. QED
    BY <2>5, <2>17, <2>18
<1>6. QED
  BY <1>4, <1>5

(* The loop collects columns that can be swapped.                          *)
LEMMA ColumnMatrixFull ==
  ASSUME IsGroup(symmetries), NEW m, IsMatrix(m, symmetries), RowsApart(m),
         Len(m) >= 1, Len(ColumnMatrix(m)) > 2
  PROVE  /\ FullMatrix(ColumnMatrix(m)) /\ Filled(ColumnMatrix(m))
         /\ AllClosed(ColumnMatrix(m))
<1>1. PICK N \in Nat : N = Len(m[1])
  <2>1. 1 \in 1 .. Len(m)
    BY DEF IsMatrix
  <2>2. QED
    BY <2>1 DEF IsMatrix, IsRow
<1>2. PICK S : S = Seq(Seq(Lits))
  OBVIOUS
<1>3. PICK G : G = [k \in 1 .. N |-> [y \in S |-> WithColumn(m, y, k)]]
  OBVIOUS
<1>4. \A k \in 1 .. N : Maps(G[k], S)
  <2>1. SUFFICES ASSUME NEW k \in 1 .. N, NEW y \in S PROVE WithColumn(m, y, k) \in S
    BY <1>3 DEF Maps
  <2>2. Column(m, k) \in Seq(Lits)
    BY <1>1, ColumnFacts DEF IsRow
  <2>3. PICK R : R = Seq(Lits)
    OBVIOUS
  <2>4. y \in Seq(R) /\ Column(m, k) \in R
    BY <1>2, <2>2, <2>3
  <2>5. Append(y, Column(m, k)) \in Seq(R)
    BY <2>4, OneAppended
  <2>6. WithColumn(m, y, k) = y \/ WithColumn(m, y, k) = Append(y, Column(m, k))
    BY DEF WithColumn
  <2>7. QED
    BY <1>2, <2>3, <2>5, <2>6
<1>5. PICK f : LoopRun(f, <<>>, G, N, S)
  <2>1. <<>> \in S
    BY <1>2
  <2>2. QED
    BY <1>4, <2>1, LoopRunExists
<1>6. f = [c \in 0 .. N |-> IF c = 0 THEN <<>> ELSE WithColumn(m, f[c - 1], c)]
  <2>1. /\ f \in [0 .. N -> S] /\ f[0] = <<>>
        /\ \A k \in 1 .. N : f[k] = G[k][f[k - 1]]
    BY <1>5 DEF LoopRun
  <2>2. \A k \in 1 .. N : k - 1 \in 0 .. N /\ f[k - 1] \in S
    BY <2>1
  <2>3. \A k \in 1 .. N : f[k] = WithColumn(m, f[k - 1], k)
    BY <1>3, <2>1, <2>2
  <2>4. \A c \in 0 .. N : f[c] = IF c = 0 THEN <<>> ELSE WithColumn(m, f[c - 1], c)
    <3>1. \A c \in 0 .. N : c = 0 \/ c \in 1 .. N
      OBVIOUS
    <3>2. \A c \in 1 .. N : c # 0
      OBVIOUS
    <3>3. QED
      BY <2>1, <2>3, <3>1, <3>2
  <2>5. DOMAIN f = 0 .. N /\ f = [c \in 0 .. N |-> f[c]]
    BY <2>1
  <2>6. QED
    BY <2>4, <2>5
<1>7. PICK e : /\ e = [c \in 0 .. N |-> IF c = 0 THEN <<>> ELSE WithColumn(m, e[c - 1], c)]
               /\ ColumnMatrix(m) = e[N]
  BY <1>1, <1>6, Zenon DEF ColumnMatrix
<1>8. \A c \in 0 .. N : e[c] = IF c = 0 THEN <<>> ELSE WithColumn(m, e[c - 1], c)
  BY <1>7, Zenon
<1> DEFINE A == {k \in Nat : k <= N => Collected(m, k, e[k])}
<1>9. 0 \in A
  <2>1. e[0] = <<>>
    BY <1>8
  <2>2. PICK y : y = e[0]
    OBVIOUS
  <2>3. y \in Seq(Seq(Lits)) /\ Len(y) = 0 /\ \A n : n \notin 1 .. Len(y)
    BY <2>1, <2>2
  <2>4. PICK place : place = [n \in 1 .. Len(y) |-> n]
    OBVIOUS
  <2>5. place \in [1 .. Len(y) -> 1 .. 0]
    BY <2>3, <2>4
  <2>6. Collected(m, 0, y)
    BY <2>3, <2>5 DEF Collected
  <2>7. QED
    BY <2>2, <2>6
<1>10. ASSUME NEW k \in Nat, k \in A PROVE k + 1 \in A
  <2>1. SUFFICES ASSUME k + 1 <= N PROVE Collected(m, k + 1, e[k + 1])
    OBVIOUS
  <2>2. /\ k <= N /\ k + 1 \in 1 .. N /\ k + 1 \in 0 .. N /\ k + 1 # 0
        /\ (k + 1) - 1 = k
    BY <2>1
  <2>3. Collected(m, k, e[k])
    BY <1>10, <2>2
  <2>4. e[k + 1] = WithColumn(m, e[k], k + 1)
    BY <1>8, <2>2
  <2>5. QED
    BY <1>1, <2>2, <2>3, <2>4, CollectOne
<1> HIDE DEF A
<1>11. Nat \subseteq A
  BY <1>9, <1>10, SetInduction
<1>12. Collected(m, N, e[N])
  BY <1>11 DEF A
<1>13. PICK y : y = ColumnMatrix(m) /\ Collected(m, N, y)
  BY <1>7, <1>12
<1>14. Len(y) >= 2
  <2>1. Len(y) \in Nat
    BY <1>13 DEF Collected
  <2>2. QED
    BY <1>13, <2>1
<1>15. QED
  BY <1>13, <1>14, CollectedFull

-----------------------------------------------------------------------------
(* What formsMatrixWith leaves out: the literals that both involutions     *)
(* move are spread over the cycles of the second one as well.              *)
InvolutionsFit ==
  pc = "initial" /\ Pairs # {} =>
    FormsMatrixWith(permutations[FirstPair[2]], permutations[FirstPair[1]])

FullInv ==
  /\ RowsApart(matrix)
  /\ matrices \in Seq(Seq(Seq(Lits)))
  /\ \A n \in 1 .. Len(matrices) : FullMatrix(matrices[n])

(* No matrix is finished at first.                                         *)
LEMMA InitFull == Init => FullInv
<1> SUFFICES ASSUME Init PROVE FullInv
  OBVIOUS
<1>1. matrix = <<>> /\ matrices = <<>>
  BY DEF Init
<1>2. Len(matrix) = 0 /\ Len(matrices) = 0 /\ matrices \in Seq(Seq(Seq(Lits)))
  BY <1>1
<1>3. QED
  BY <1>2 DEF FullInv, RowsApart

(* A step that leaves the finished matrices and the symmetries alone.      *)
LEMMA FullKept ==
  ASSUME FullInv, UNCHANGED <<symmetries, matrices>>, RowsApart(matrix)'
  PROVE  FullInv'
BY DEF FullInv, FullMatrix, RowsApart

(* Where the involutions fit, the first three rows are apart.              *)
LEMMA InitialMatrixFull ==
  SoundInv /\ FullInv /\ InvolutionsFit /\ InitialMatrix => FullInv'
<1> SUFFICES ASSUME SoundInv, FullInv, InvolutionsFit, InitialMatrix
             PROVE  FullInv'
  OBVIOUS
<1>1. IsGroup(symmetries) /\ permutations \in Seq(symmetries) /\ symmetries \subseteq LitPerms
  BY DEF SoundInv, IsGroup
<1>2. PICK x : x = FirstPair
  OBVIOUS
<1>3. PICK p : p = permutations[x[1]]
  OBVIOUS
<1>4. PICK q : q = permutations[x[2]]
  OBVIOUS
<1>5. PICK s \in SharedLiterals(p, q) : matrix' = <<s, ImageOf(p, s), ImageOf(q, s)>>
  BY <1>2, <1>3, <1>4 DEF InitialMatrix
<1>6. x \in Pairs
  <2>1. permutations \in Seq(LitPerms)
    BY <1>1
  <2>2. QED
    BY <1>2, <2>1, FirstPairFound DEF InitialMatrix
<1>7. p \in symmetries /\ q \in symmetries /\ FormsMatrixWith(p, q)
  <2>1. /\ x[1] \in 1 .. Len(permutations) /\ x[2] \in 1 .. Len(permutations)
        /\ FormsMatrixWith(permutations[x[1]], permutations[x[2]])
    BY <1>6 DEF Pairs
  <2>2. QED
    BY <1>1, <1>3, <1>4, <2>1
<1>8. FormsMatrixWith(q, p)
  BY <1>2, <1>3, <1>4 DEF InvolutionsFit, InitialMatrix
<1>9. RowsApart(matrix')
  BY <1>1, <1>5, <1>7, <1>8, InitialRows
<1>10. RowsApart(matrix)'
  BY <1>9 DEF RowsApart, Apart
<1>11. QED
  BY <1>10, FullKept DEF InitialMatrix

(* A row that maximallyExtend adds is apart from the others.               *)
LEMMA ExtendFull == SoundInv /\ FullInv /\ Extend => FullInv'
<1> SUFFICES ASSUME SoundInv, FullInv, Extend PROVE FullInv'
  OBVIOUS
<1>1. /\ IsGroup(symmetries) /\ permutations \in Seq(symmetries)
      /\ IsMatrix(matrix, symmetries) /\ Indices
      /\ symmetries \subseteq LitPerms /\ RowsApart(matrix)
  BY DEF SoundInv, IsGroup, FullInv
<1>2. Len(matrix) \in Nat /\ i \in 1 .. Len(matrix) /\ j \in Nat \ {0}
  BY <1>1 DEF Extend, Indices, IsMatrix
<1>3. CASE j <= Len(permutations)
  <2>1. matrix' = matrix \o NewRows(matrix, permutations[j], i)
    BY <1>3 DEF Extend
  <2>2. permutations[j] \in symmetries
    BY <1>1, <1>2, <1>3
  <2>3. RowsApart(matrix')
    BY <1>1, <1>2, <2>1, <2>2, AddRow
  <2>4. QED
    BY <2>3, FullKept DEF Extend, RowsApart, Apart
<1>4. CASE ~(j <= Len(permutations))
  <2>1. matrix' = matrix
    BY <1>4 DEF Extend
  <2>2. QED
    BY <1>1, <2>1, FullKept DEF Extend, RowsApart, Apart
<1>5. QED
  BY <1>3, <1>4

(* So is one that a generator of the stabilizer adds.                      *)
LEMMA TryStabilizerFull == SoundInv /\ FullInv /\ TryStabilizer => FullInv'
<1> SUFFICES ASSUME SoundInv, FullInv, TryStabilizer PROVE FullInv'
  OBVIOUS
<1>1. /\ IsGroup(symmetries) /\ symgens \in Seq(symmetries)
      /\ IsMatrix(matrix, symmetries) /\ Indices
      /\ symmetries \subseteq LitPerms /\ RowsApart(matrix)
  BY DEF SoundInv, IsGroup, FullInv
<1>2. /\ pc = "stabilizer" /\ j <= Len(symgens)
      /\ matrix' = matrix \o NewRows(matrix, symgens[j], oldNbRows)
  BY DEF TryStabilizer
<1>3. oldNbRows \in 1 .. Len(matrix) /\ j \in 1 .. Len(symgens)
  BY <1>1, <1>2 DEF Indices
<1>4. symgens[j] \in symmetries
  BY <1>1, <1>3
<1>5. RowsApart(matrix')
  BY <1>1, <1>2, <1>3, <1>4, AddRow
<1>6. QED
  BY <1>5, FullKept DEF TryStabilizer, RowsApart, Apart

(* A matrix that is finished.                                              *)
LEMMA FullAdded ==
  ASSUME FullInv, UNCHANGED <<symmetries, matrix>>, NEW y, FullMatrix(y),
         matrices' = Append(matrices, y)
  PROVE  FullInv'
<1>1. PICK S : S = Seq(Seq(Lits))
  OBVIOUS
<1>2. matrices \in Seq(S) /\ y \in S
  BY <1>1 DEF FullInv, FullMatrix
<1>3. PICK w : w = matrices'
  OBVIOUS
<1>4. /\ w \in Seq(S) /\ Len(w) = Len(matrices) + 1 /\ w[Len(matrices) + 1] = y
      /\ \A n \in 1 .. Len(matrices) : w[n] = matrices[n]
  BY <1>2, <1>3, OneAppended
<1>5. \A n \in 1 .. Len(w) : n \in 1 .. Len(matrices) \/ n = Len(matrices) + 1
  <2>1. Len(matrices) \in Nat /\ Len(w) = Len(matrices) + 1
    BY <1>2, <1>4
  <2>2. QED
    BY <2>1
<1>6. \A n \in 1 .. Len(w) : FullMatrix(w[n])
  BY <1>4, <1>5 DEF FullInv
<1>7. \A x : FullMatrix(x) => FullMatrix(x)'
  BY DEF FullMatrix, RowsApart, Apart, IsRow
<1>8. QED
  BY <1>1, <1>3, <1>4, <1>6, <1>7 DEF FullInv, RowsApart, Apart

(* addMatrix: the rows.                                                    *)
LEMMA AddMatrixFull == SoundInv /\ FullInv /\ AddMatrix => FullInv'
<1> SUFFICES ASSUME SoundInv, FullInv, AddMatrix PROVE FullInv'
  OBVIOUS
<1>1. IsMatrix(matrix, symmetries) /\ RowsApart(matrix) /\ Len(matrix) >= 3
  BY DEF SoundInv, Indices, FullInv, AddMatrix
<1>2. FullMatrix(matrix)
  BY <1>1 DEF IsMatrix, FullMatrix
<1>3. QED
  BY <1>2, FullAdded DEF AddMatrix

(* checkColumnInterchangeability: the columns, if there are enough.        *)
LEMMA CheckColumnsFull == SoundInv /\ FullInv /\ CheckColumns => FullInv'
<1> SUFFICES ASSUME SoundInv, FullInv, CheckColumns PROVE FullInv'
  OBVIOUS
<1>1. /\ IsGroup(symmetries) /\ IsMatrix(matrix, symmetries)
      /\ RowsApart(matrix) /\ Len(matrix) >= 1
  <2>1. Len(matrix) >= 3 /\ IsMatrix(matrix, symmetries)
    BY DEF SoundInv, Indices, CheckColumns
  <2>2. Len(matrix) >= 1
    BY <2>1 DEF IsMatrix
  <2>3. QED
    BY <2>1, <2>2 DEF SoundInv, FullInv
<1>2. CASE Len(ColumnMatrix(matrix)) > 2
  <2>1. FullMatrix(ColumnMatrix(matrix))
    BY <1>1, <1>2, ColumnMatrixFull
  <2>2. matrices' = Append(matrices, ColumnMatrix(matrix))
    BY <1>2 DEF CheckColumns
  <2>3. QED
    BY <2>1, <2>2, FullAdded DEF CheckColumns
<1>3. CASE ~(Len(ColumnMatrix(matrix)) > 2)
  BY <1>1, <1>3, FullKept DEF CheckColumns, RowsApart, Apart
<1>4. QED
  BY <1>2, <1>3

(* The invariant is inductive as long as the involutions fit.              *)
LEMMA NextFull ==
  SoundInv /\ FullInv /\ InvolutionsFit /\ [Next]_vars => FullInv'
<1> SUFFICES ASSUME SoundInv, FullInv, InvolutionsFit, [Next]_vars PROVE FullInv'
  OBVIOUS
<1>1. UNCHANGED <<symmetries, matrices, matrix>> => FullInv'
  BY FullKept DEF FullInv, RowsApart, Apart
<1>2. NoInitialMatrix \/ Colour \/ Bliss \/ EndStabilizer \/ Clean \/ FixLastRow
        \/ UNCHANGED vars => UNCHANGED <<symmetries, matrices, matrix>>
  BY DEF NoInitialMatrix, Colour, Bliss, EndStabilizer, Clean, FixLastRow, vars
<1>3. QED
  BY <1>1, <1>2, InitialMatrixFull, ExtendFull, TryStabilizerFull, AddMatrixFull,
     CheckColumnsFull DEF Next

(* All finished matrices are full.                                         *)
LEMMA FinishedFull ==
  ASSUME FullInv
  PROVE  \A m \in ToSet(matrices) : FullMatrix(m)
<1>1. PICK S : S = Seq(Seq(Lits))
  OBVIOUS
<1>2. matrices \in Seq(S)
  BY <1>1 DEF FullInv
<1>3. DOMAIN matrices = 1 .. Len(matrices)
  BY <1>2
<1>4. QED
  BY <1>3 DEF FullInv, ToSet

(* As long as the involutions that getInitialMatrix picks fit together     *)
(* both ways round, the swaps of consecutive rows of all finished          *)
(* matrices, which are broken, are symmetries: those of the matrices of    *)
(* columns too, although a column is compared with the first one only      *)
(* (checkColumnInterchangeability).                                        *)
THEOREM RowSwapsSound ==
  Spec /\ []InvolutionsFit => []RowSwapsAreSymmetries
<1>1. FullInv => RowSwapsAreSymmetries
  <2> SUFFICES ASSUME FullInv, NEW m \in ToSet(matrices) PROVE Swaps(m) \subseteq symmetries
    BY DEF RowSwapsAreSymmetries, AllSwaps
  <2>1. FullMatrix(m)
    BY FinishedFull
  <2>2. QED
    BY <2>1 DEF FullMatrix, Swaps
<1>2. QED
  BY InitSound, NextSound, InitFull, NextFull, <1>1, PTL DEF Spec

(* Then any two rows of a finished matrix can be swapped, as the comment   *)
(* before Group::addMatrices says: testing the second involution as well   *)
(* is all that formsMatrixWith lacks for that.                             *)
THEOREM RowsAreInterchangeable ==
  Spec /\ []InvolutionsFit => []RowsInterchangeable
<1>1. SoundInv /\ FullInv => RowsInterchangeable
  <2> SUFFICES ASSUME SoundInv, FullInv PROVE RowsInterchangeable
    OBVIOUS
  <2>1. IsGroup(symmetries)
    BY DEF SoundInv
  <2>2. \A m \in ToSet(matrices) : FullMatrix(m)
    BY FinishedFull
  <2>3. QED
    BY <2>1, <2>2, AnyTwoRows DEF RowsInterchangeable
<1>2. QED
  BY InitSound, NextSound, InitFull, NextFull, <1>1, PTL DEF Spec

-----------------------------------------------------------------------------
(* class Matrix finds a literal of a full matrix at its only place. *)
LEMMA FullPlaces ==
  ASSUME NEW m, FullMatrix(m)
  PROVE  \A r \in 1 .. Len(m) : \A c \in 1 .. Len(m[r]) :
           /\ m[r][c] \in Lits /\ InMatrix(m, m[r][c]) /\ RowNb(m, m[r][c]) = r
           /\ Len(m[r]) = Len(m[1]) /\ ColumnNb(m, m[r][c]) = c
<1>1. /\ Len(m) \in Nat /\ Len(m) >= 2
      /\ \A r \in 1 .. Len(m) : IsRow(m[r])
      /\ \A q, r \in 1 .. Len(m) : q # r => Apart(m[q], m[r])
  BY DEF FullMatrix, RowsApart
<1>2. SUFFICES ASSUME NEW r \in 1 .. Len(m), NEW c \in 1 .. Len(m[r])
               PROVE  /\ m[r][c] \in Lits /\ InMatrix(m, m[r][c])
                      /\ RowNb(m, m[r][c]) = r /\ Len(m[r]) = Len(m[1])
                      /\ ColumnNb(m, m[r][c]) = c
  BY Zenon
<1>3. m[r] \in Seq(Lits) /\ m[r][c] \in Lits
  BY <1>1 DEF IsRow
<1>4. InSeq(m[r][c], m[r])
  BY DEF InSeq
<1>5. \A q \in 1 .. Len(m) : InSeq(m[r][c], m[q]) => q = r
  BY <1>1 DEF InSeq, Apart
<1>6. RowNb(m, m[r][c]) = r
  <2> DEFINE R(x) == InSeq(m[r][c], m[x]) /\ \A q \in 1 .. x - 1 : ~InSeq(m[r][c], m[q])
  <2>1. \A q \in 1 .. r - 1 : q \in 1 .. Len(m) /\ q # r
    BY <1>1
  <2>2. R(r)
    BY <1>4, <1>5, <2>1
  <2>3. PICK x : x = CHOOSE y \in 1 .. Len(m) : R(y)
    OBVIOUS
  <2>4. x \in 1 .. Len(m) /\ R(x)
    BY <2>2, <2>3, Zenon
  <2>5. x = r
    BY <1>5, <2>4
  <2>6. QED
    BY <2>3, <2>5 DEF RowNb
<1>7. Len(m[r]) = Len(m[1])
  <2>1. 1 \in 1 .. Len(m)
    BY <1>1
  <2>2. QED
    BY <1>1, <2>1 DEF Apart
<1>8. ColumnNb(m, m[r][c]) = c
  <2> DEFINE C(x) == m[r][x] = m[r][c] /\ \A d \in 1 .. x - 1 : m[r][d] # m[r][c]
  <2>1. c \in Nat /\ Len(m[r]) \in Nat
    BY <1>3
  <2>2. \A d \in 1 .. c - 1 : d \in 1 .. Len(m[r]) /\ d # c
    BY <2>1
  <2>3. \A d \in 1 .. Len(m[r]) : m[r][d] = m[r][c] => d = c
    BY <1>1 DEF IsRow
  <2>4. C(c) /\ c \in 1 .. Len(m[1])
    BY <1>7, <2>2, <2>3
  <2>5. PICK x : x = CHOOSE y \in 1 .. Len(m[1]) : C(y)
    OBVIOUS
  <2>6. x \in 1 .. Len(m[1]) /\ C(x)
    BY <2>4, <2>5, Zenon
  <2>7. x = c
    BY <1>7, <2>3, <2>6
  <2>8. QED
    BY <1>6, <2>5, <2>7 DEF ColumnNb
<1>9. InMatrix(m, m[r][c])
  BY <1>4 DEF InMatrix
<1>10. QED
  BY <1>3, <1>6, <1>7, <1>8, <1>9

(* getProductWithRowsWap in one step: p, then the swap of the rows. *)
LEMMA ProductWithSwap ==
  ASSUME NEW m, FullMatrix(m), NEW p \in [Lits -> Lits],
         NEW q \in 1 .. Len(m), NEW r \in 1 .. Len(m), q # r
  PROVE  ProductWithRowSwap(m, p, q, r) = Product(p, RowSwap(m[q], m[r]))
<1>1. /\ IsRow(m[q]) /\ IsRow(m[r]) /\ Apart(m[q], m[r]) /\ Len(m[q]) = Len(m[r])
  BY DEF FullMatrix, RowsApart, Apart
<1>2. PICK s : s = RowSwap(m[q], m[r])
  OBVIOUS
<1>3. /\ s \in [Lits -> Lits]
      /\ \A k \in 1 .. Len(m[q]) : s[m[q][k]] = m[r][k] /\ s[m[r][k]] = m[q][k]
      /\ \A l \in Lits : ~InSeq(l, m[q]) /\ ~InSeq(l, m[r]) => s[l] = l
  BY <1>1, <1>2, SwapFacts
<1> DEFINE swapped(l) ==
        IF ~InMatrix(m, l) THEN l
        ELSE CASE RowNb(m, l) = q -> m[r][ColumnNb(m, l)]
               [] RowNb(m, l) = r -> m[q][ColumnNb(m, l)]
               [] OTHER -> l
<1>4. ASSUME NEW l \in Lits PROVE swapped(l) = s[l]
  <2>1. CASE InSeq(l, m[q])
    <3>1. PICK k \in 1 .. Len(m[q]) : l = m[q][k]
      BY <2>1 DEF InSeq
    <3>2. InMatrix(m, l) /\ RowNb(m, l) = q /\ ColumnNb(m, l) = k
      BY <3>1, FullPlaces
    <3>3. QED
      BY <1>3, <3>1, <3>2
  <2>2. CASE InSeq(l, m[r])
    <3>1. PICK k \in 1 .. Len(m[r]) : l = m[r][k]
      BY <2>2 DEF InSeq
    <3>2. InMatrix(m, l) /\ RowNb(m, l) = r /\ ColumnNb(m, l) = k
      BY <3>1, FullPlaces
    <3>3. QED
      BY <1>1, <1>3, <3>1, <3>2
  <2>3. CASE ~InSeq(l, m[q]) /\ ~InSeq(l, m[r])
    <3>1. InMatrix(m, l) => RowNb(m, l) # q /\ RowNb(m, l) # r
      <4>1. SUFFICES ASSUME InMatrix(m, l) PROVE RowNb(m, l) # q /\ RowNb(m, l) # r
        OBVIOUS
      <4>2. PICK x \in 1 .. Len(m) : \E k \in 1 .. Len(m[x]) : l = m[x][k]
        BY <4>1 DEF InMatrix, InSeq
      <4>3. RowNb(m, l) = x /\ InSeq(l, m[x])
        BY <4>2, FullPlaces DEF InSeq
      <4>4. QED
        BY <2>3, <4>3
    <3>2. QED
      BY <1>3, <2>3, <3>1
  <2>4. QED
    BY <2>1, <2>2, <2>3
<1>5. ProductWithRowSwap(m, p, q, r) =
        [l \in Lits |-> IF p[l] = l THEN s[l] ELSE swapped(p[l])]
  BY <1>2 DEF ProductWithRowSwap
<1> HIDE DEF swapped
<1>6. \A l \in Lits : p[l] \in Lits
  OBVIOUS
<1>7. [l \in Lits |-> IF p[l] = l THEN s[l] ELSE swapped(p[l])] = [l \in Lits |-> s[p[l]]]
  BY <1>4, <1>6
<1>8. QED
  BY <1>2, <1>5, <1>7 DEF Product

(* From consecutive rows to any two rows.                                  *)
LEMMA SwapsGenerate ==
  ASSUME NEW m, FullMatrix(m)
  PROVE  /\ Swaps(m) \in SUBSET [Lits -> Lits]
         /\ \A q, r \in 1 .. Len(m) : Generated(Swaps(m), RowSwap(m[q], m[r]))
<1>1. /\ Len(m) \in Nat /\ Len(m) >= 2
      /\ \A r \in 1 .. Len(m) : IsRow(m[r])
      /\ \A q, r \in 1 .. Len(m) : q # r => Apart(m[q], m[r])
  BY DEF FullMatrix, RowsApart
<1>2. PICK gens : gens = Swaps(m)
  OBVIOUS
<1>3. \A r \in 1 .. Len(m) - 1 : RowSwap(m[r], m[r + 1]) \in gens
  BY <1>2 DEF Swaps
<1>4. gens \in SUBSET [Lits -> Lits]
  <2>1. SUFFICES ASSUME NEW r \in 1 .. Len(m) - 1
                 PROVE  RowSwap(m[r], m[r + 1]) \in [Lits -> Lits]
    BY <1>2 DEF Swaps
  <2>2. r \in 1 .. Len(m) /\ r + 1 \in 1 .. Len(m) /\ r # r + 1
    BY <1>1
  <2>3. QED
    BY <1>1, <2>2, SwapFacts
<1>5. \A g \in gens : Generated(gens, g)
  BY <1>4, GeneratorsGenerated
<1>6. \A x, y : Generated(gens, x) /\ Generated(gens, y) => Generated(gens, Product(x, y))
  BY <1>4, ProductGenerated
<1>7. ASSUME NEW q \in 1 .. Len(m)
      PROVE  \A r \in 1 .. Len(m) : q < r => Generated(gens, RowSwap(m[q], m[r]))
  <2> DEFINE A == {n \in Nat : q + (n + 1) <= Len(m)
                                 => Generated(gens, RowSwap(m[q], m[q + (n + 1)]))}
  <2>1. 0 \in A
    <3>1. q + (0 + 1) <= Len(m) => q \in 1 .. Len(m) - 1 /\ q + (0 + 1) = q + 1
      BY <1>1
    <3>2. QED
      BY <1>3, <1>5, <3>1
  <2>2. ASSUME NEW n \in Nat, n \in A PROVE n + 1 \in A
    <3>1. SUFFICES ASSUME q + ((n + 1) + 1) <= Len(m)
                   PROVE  Generated(gens, RowSwap(m[q], m[q + ((n + 1) + 1)]))
      OBVIOUS
    <3>2. PICK h \in 1 .. Len(m) - 1 : h = q + (n + 1)
      BY <1>1, <3>1
    <3>3. /\ h \in 1 .. Len(m) /\ h + 1 \in 1 .. Len(m) /\ h # q /\ h + 1 # q
          /\ h # h + 1 /\ h + 1 = q + ((n + 1) + 1) /\ q + (n + 1) <= Len(m)
      BY <1>1, <3>2
    <3>4. PICK s : s = RowSwap(m[h], m[q])
      OBVIOUS
    <3>5. PICK t : t = RowSwap(m[h], m[h + 1])
      OBVIOUS
    <3>6. Generated(gens, t)
      BY <1>3, <1>5, <3>2, <3>5
    <3>7. Generated(gens, s)
      <4>1. Generated(gens, RowSwap(m[q], m[h]))
        BY <2>2, <3>2, <3>3
      <4>2. s = RowSwap(m[q], m[h])
        BY <1>1, <3>3, <3>4, SwapSymmetric
      <4>3. QED
        BY <4>1, <4>2
    <3>8. RowSwap(m[q], m[h + 1]) = Product(Product(s, t), s)
      BY <1>1, <3>3, <3>4, <3>5, Conjugate
    <3>9. QED
      BY <1>6, <3>3, <3>6, <3>7, <3>8
  <2> HIDE DEF A
  <2>3. Nat \subseteq A
    BY <2>1, <2>2, SetInduction
  <2>4. ASSUME NEW r \in 1 .. Len(m), q < r
        PROVE  Generated(gens, RowSwap(m[q], m[r]))
    <3>1. r - q - 1 \in Nat /\ q + ((r - q - 1) + 1) = r /\ r <= Len(m)
      BY <1>1, <2>4
    <3>2. r - q - 1 \in A
      BY <2>3, <3>1
    <3>3. QED
      BY <3>1, <3>2 DEF A
  <2>5. QED
    BY <2>4
<1>8. ASSUME NEW q \in 1 .. Len(m), NEW r \in 1 .. Len(m)
      PROVE  Generated(gens, RowSwap(m[q], m[r]))
  <2>1. CASE q < r
    BY <1>7, <2>1
  <2>2. CASE r < q
    <3>1. Generated(gens, RowSwap(m[r], m[q]))
      BY <1>7, <2>2
    <3>2. RowSwap(m[q], m[r]) = RowSwap(m[r], m[q])
      BY <1>1, <2>2, SwapSymmetric
    <3>3. QED
      BY <3>1, <3>2
  <2>3. CASE q = r
    <3>1. 1 \in 1 .. Len(m) /\ 2 \in 1 .. Len(m) /\ 1 \in 1 .. Len(m) - 1 /\ 1 + 1 = 2
      BY <1>1
    <3>2. PICK s : s = RowSwap(m[1], m[2])
      OBVIOUS
    <3>3. Generated(gens, s)
      BY <1>3, <1>5, <3>1, <3>2
    <3>4. RowSwap(m[q], m[q]) = Product(s, s)
      BY <1>1, <3>1, <3>2, SwapTwice
    <3>5. QED
      BY <1>6, <2>3, <3>3, <3>4
  <2>4. QED
    BY <2>1, <2>2, <2>3
<1>9. QED
  BY <1>2, <1>4, <1>8

(* A swap carried out twice moves nothing. *)
LEMMA SwapInvolution ==
  ASSUME NEW a, NEW b, IsRow(a), IsRow(b), Apart(a, b)
  PROVE  /\ RowSwap(a, b) \in [Lits -> Lits]
         /\ Product(RowSwap(a, b), RowSwap(a, b)) = IdPerm
<1>1. PICK s : s = RowSwap(a, b)
  OBVIOUS
<1>2. /\ s \in [Lits -> Lits]
      /\ \A k \in 1 .. Len(a) : s[a[k]] = b[k] /\ s[b[k]] = a[k]
      /\ \A l \in Lits : ~InSeq(l, a) /\ ~InSeq(l, b) => s[l] = l
  BY <1>1, SwapFacts
<1>3. Len(a) = Len(b)
  BY DEF Apart
<1>4. ASSUME NEW l \in Lits PROVE s[s[l]] = l
  <2>1. CASE InSeq(l, a)
    BY <1>2, <2>1 DEF InSeq
  <2>2. CASE InSeq(l, b)
    BY <1>2, <1>3, <2>2 DEF InSeq
  <2>3. QED
    BY <1>2, <2>1, <2>2
<1>5. Product(s, s) = IdPerm
  BY <1>4 DEF Product, IdPerm
<1>6. QED
  BY <1>1, <1>2, <1>5

(* One turn of testMembership. *)
Turn(m, g, r) ==
  IF g.stop \/ g.left[m[r][1]] \notin {m[q][1] : q \in r .. Len(m)}
  THEN [left |-> g.left, stop |-> TRUE]
  ELSE [left |-> ProductWithRowSwap(m, g.left, r, RowNb(m, g.left[m[r][1]])),
        stop |-> ProductWithRowSwap(m, g.left, r, RowNb(m, g.left[m[r][1]])) = IdPerm]

(* What testMembership keeps from turn to turn. *)
SiftStates == [left : [Lits -> Lits], stop : BOOLEAN]

(* Its run over all rows. *)
Sifted(m, p, s) ==
  /\ s \in [0 .. Len(m) -> SiftStates]
  /\ s[0] = [left |-> p, stop |-> FALSE]
  /\ \A r \in 1 .. Len(m) : s[r] = Turn(m, s[r - 1], r)

(* A turn does nothing more, or it multiplies by the swap that brings the  *)
(* first literal of the row back.                                          *)
LEMMA TurnFacts ==
  ASSUME NEW m, FullMatrix(m), Filled(m), NEW g \in SiftStates, NEW r \in 1 .. Len(m)
  PROVE  \/ /\ g.stop \/ g.left[m[r][1]] \notin {m[q][1] : q \in r .. Len(m)}
            /\ Turn(m, g, r) = [left |-> g.left, stop |-> TRUE]
         \/ /\ ~g.stop
            /\ \E x \in r .. Len(m) :
                 /\ x \in 1 .. Len(m) /\ g.left[m[r][1]] = m[x][1]
                 /\ \/ x = r /\ Turn(m, g, r) = [left |-> g.left, stop |-> g.left = IdPerm]
                    \/ /\ x # r
                       /\ Turn(m, g, r) =
                            [left |-> Product(g.left, RowSwap(m[r], m[x])),
                             stop |-> Product(g.left, RowSwap(m[r], m[x])) = IdPerm]
<1>1. /\ Len(m) \in Nat /\ r \in Nat /\ r >= 1
      /\ \A q \in 1 .. Len(m) : IsRow(m[q]) /\ Len(m[q]) \in Nat /\ Len(m[q]) >= 1
  BY DEF FullMatrix, Filled, IsRow
<1>2. g.left \in [Lits -> Lits] /\ g.stop \in BOOLEAN
  BY DEF SiftStates
<1>3. CASE g.stop \/ g.left[m[r][1]] \notin {m[q][1] : q \in r .. Len(m)}
  BY <1>3 DEF Turn
<1>4. CASE ~g.stop /\ g.left[m[r][1]] \in {m[q][1] : q \in r .. Len(m)}
  <2>1. PICK x \in r .. Len(m) : g.left[m[r][1]] = m[x][1]
    BY <1>4
  <2>2. x \in 1 .. Len(m) /\ 1 \in 1 .. Len(m[x])
    BY <1>1
  <2>3. RowNb(m, g.left[m[r][1]]) = x
    BY <2>1, <2>2, FullPlaces
  <2>4. PICK y : y = ProductWithRowSwap(m, g.left, r, x)
    OBVIOUS
  <2>5. Turn(m, g, r) = [left |-> y, stop |-> y = IdPerm]
    BY <1>4, <2>3, <2>4 DEF Turn
  <2>6. x = r => y = g.left
    BY <2>4 DEF ProductWithRowSwap
  <2>7. x # r => y = Product(g.left, RowSwap(m[r], m[x]))
    BY <1>2, <2>2, <2>4, ProductWithSwap
  <2>8. QED
    BY <1>4, <2>1, <2>2, <2>5, <2>6, <2>7
<1>5. QED
  BY <1>3, <1>4

(* The states stay what they are. *)
LEMMA TurnTyped ==
  ASSUME NEW m, FullMatrix(m), Filled(m), NEW g \in SiftStates, NEW r \in 1 .. Len(m)
  PROVE  Turn(m, g, r) \in SiftStates
<1>1. g.left \in [Lits -> Lits]
  BY DEF SiftStates
<1>2. ASSUME NEW x \in 1 .. Len(m), x # r
      PROVE  Product(g.left, RowSwap(m[r], m[x])) \in [Lits -> Lits]
  <2>1. RowSwap(m[r], m[x]) \in [Lits -> Lits]
    BY <1>2, SwapFacts DEF FullMatrix, RowsApart
  <2>2. QED
    BY <1>1, <2>1, ProductLaws
<1>3. \A y \in [Lits -> Lits], b \in BOOLEAN : [left |-> y, stop |-> b] \in SiftStates
  BY DEF SiftStates
<1>4. PICK h : h = Turn(m, g, r)
  OBVIOUS
<1>5. h \in SiftStates
  <2>1. CASE h = [left |-> g.left, stop |-> TRUE]
    BY <1>1, <1>3, <2>1
  <2>2. CASE h = [left |-> g.left, stop |-> g.left = IdPerm]
    <3>1. PICK b \in BOOLEAN : b = (g.left = IdPerm)
      OBVIOUS
    <3>2. h = [left |-> g.left, stop |-> b]
      BY <2>2, <3>1
    <3>3. QED
      BY <1>1, <1>3, <3>2
  <2>3. ASSUME NEW x \in 1 .. Len(m), x # r,
               h = [left |-> Product(g.left, RowSwap(m[r], m[x])),
                    stop |-> Product(g.left, RowSwap(m[r], m[x])) = IdPerm]
        PROVE  h \in SiftStates
    <3>1. PICK y \in [Lits -> Lits] : y = Product(g.left, RowSwap(m[r], m[x]))
      BY <1>2, <2>3
    <3>2. PICK b \in BOOLEAN : b = (y = IdPerm)
      OBVIOUS
    <3>3. h = [left |-> y, stop |-> b]
      BY <2>3, <3>1, <3>2
    <3>4. QED
      BY <1>3, <3>3
  <2>4. QED
    BY <1>4, <2>1, <2>2, <2>3, TurnFacts
<1>6. QED
  BY <1>4, <1>5

(* testMembership is such a run. *)
LEMMA SiftRuns ==
  ASSUME NEW m, FullMatrix(m), Filled(m), NEW p \in [Lits -> Lits]
  PROVE  \E s : Sifted(m, p, s) /\ TestMembership(m, p) = s[Len(m)].left
<1>1. PICK N \in Nat : N = Len(m)
  BY DEF FullMatrix
<1> DEFINE zero == [left |-> p, stop |-> FALSE]
           next(g, r) == ProductWithRowSwap(m, g.left, r, RowNb(m, g.left[m[r][1]]))
           turn(g, r) ==
             IF g.stop \/ g.left[m[r][1]] \notin {m[q][1] : q \in r .. Len(m)}
             THEN [left |-> g.left, stop |-> TRUE]
             ELSE [left |-> next(g, r), stop |-> next(g, r) = IdPerm]
           Taken(last, r) == CHOOSE x \in {turn(g, r) : g \in {last}} : TRUE
<1>2. \A g, r : Taken(g, r) = Turn(m, g, r)
  <2>1. SUFFICES ASSUME NEW g, NEW r PROVE Taken(g, r) = Turn(m, g, r)
    OBVIOUS
  <2>2. turn(g, r) = Turn(m, g, r)
    BY DEF Turn
  <2> HIDE DEF turn
  <2>3. PICK y : y = Turn(m, g, r) /\ Taken(g, r) = CHOOSE x \in {y} : TRUE
    BY <2>2
  <2>4. (CHOOSE x \in {y} : TRUE) \in {y}
    BY Zenon
  <2>5. QED
    BY <2>3, <2>4
<1>3. zero \in SiftStates
  BY DEF SiftStates
<1> HIDE DEF Taken, turn, next, zero
<1>4. PICK G : G = [k \in 1 .. N |-> [g \in SiftStates |-> Turn(m, g, k)]]
  OBVIOUS
<1>5. \A k \in 1 .. N : Maps(G[k], SiftStates)
  BY <1>1, <1>4, TurnTyped DEF Maps
<1>6. PICK f : LoopRun(f, zero, G, N, SiftStates)
  BY <1>3, <1>5, LoopRunExists
<1>7. /\ f \in [0 .. N -> SiftStates] /\ f[0] = zero
      /\ \A k \in 1 .. N : f[k] = Turn(m, f[k - 1], k)
  <2>1. /\ f \in [0 .. N -> SiftStates] /\ f[0] = zero
        /\ \A k \in 1 .. N : f[k] = G[k][f[k - 1]]
    BY <1>6 DEF LoopRun
  <2>2. \A k \in 1 .. N : k - 1 \in 0 .. N /\ f[k - 1] \in SiftStates
    BY <2>1
  <2>3. QED
    BY <1>4, <2>1, <2>2
<1>8. \A r \in 0 .. N : r = 0 \/ r \in 1 .. N
  OBVIOUS
<1>9. f = [r \in 0 .. N |-> IF r = 0 THEN zero ELSE Taken(f[r - 1], r)]
  <2>1. \A r \in 0 .. N : f[r] = IF r = 0 THEN zero ELSE Taken(f[r - 1], r)
    BY <1>2, <1>7, <1>8
  <2>2. f = [r \in 0 .. N |-> f[r]]
    BY <1>7
  <2>3. QED
    BY <2>1, <2>2
<1>10. PICK s : /\ s = [r \in 0 .. N |-> IF r = 0 THEN zero ELSE Taken(s[r - 1], r)]
                /\ TestMembership(m, p) = s[N].left
  <2>1. PICK s : s = CHOOSE w : w = [r \in 0 .. N |-> IF r = 0 THEN zero
                                                   ELSE Taken(w[r - 1], r)]
    OBVIOUS
  <2>2. s = [r \in 0 .. N |-> IF r = 0 THEN zero ELSE Taken(s[r - 1], r)]
    BY <1>9, <2>1, Zenon
  <2>3. TestMembership(m, p) = s[N].left
    BY <1>1, <2>1 DEF TestMembership, Taken, turn, next, zero
  <2>4. QED
    BY <2>2, <2>3
<1>11. s[0] = zero /\ \A r \in 1 .. N : s[r] = Turn(m, s[r - 1], r)
  <2>1. \A r \in 0 .. N : s[r] = IF r = 0 THEN zero ELSE Taken(s[r - 1], r)
    BY <1>10, Zenon
  <2>2. 0 \in 0 .. N /\ \A r \in 1 .. N : r \in 0 .. N /\ r # 0
    OBVIOUS
  <2>3. QED
    BY <1>2, <2>1, <2>2
<1>12. \A r \in 0 .. N : s[r] \in SiftStates
  <2> DEFINE A == {k \in Nat : k <= N => s[k] \in SiftStates}
  <2>1. 0 \in A
    BY <1>3, <1>11
  <2>2. ASSUME NEW k \in Nat, k \in A PROVE k + 1 \in A
    <3>1. k + 1 <= N => k <= N /\ k + 1 \in 1 .. N /\ (k + 1) - 1 = k
      OBVIOUS
    <3>2. QED
      BY <1>1, <1>11, <2>2, <3>1, TurnTyped
  <2> HIDE DEF A
  <2>3. Nat \subseteq A
    BY <2>1, <2>2, SetInduction
  <2>4. QED
    BY <2>3 DEF A
<1>13. s \in [0 .. N -> SiftStates]
  BY <1>10, <1>12
<1>14. QED
  BY <1>1, <1>10, <1>11, <1>13 DEF Sifted, zero

(* What is sifted away is a product of row swaps. *)
LEMMA SiftGenerates ==
  ASSUME NEW m, FullMatrix(m), Filled(m), NEW p \in [Lits -> Lits],
         TestMembership(m, p) = IdPerm
  PROVE  Generated(Swaps(m), p)
<1>1. PICK s : Sifted(m, p, s) /\ TestMembership(m, p) = s[Len(m)].left
  BY SiftRuns
<1>2. PICK N \in Nat : N = Len(m)
  BY DEF FullMatrix
<1>3. PICK gens \in SUBSET [Lits -> Lits] : gens = Swaps(m)
  BY SwapsGenerate
<1>4. /\ \A r \in 0 .. N : s[r] \in SiftStates
      /\ s[0] = [left |-> p, stop |-> FALSE]
      /\ \A r \in 1 .. N : s[r] = Turn(m, s[r - 1], r)
  BY <1>1, <1>2 DEF Sifted
<1> DEFINE A == {k \in Nat : k <= N => \E u \in [Lits -> Lits] :
                   Generated(gens, u) /\ p = Product(s[k].left, u)}
<1>5. 0 \in A
  <2>1. /\ Product(p, IdPerm) = p /\ IdPerm \in [Lits -> Lits]
        /\ Generated(gens, IdPerm)
    BY ProductLaws, GeneratorsGenerated
  <2>2. QED
    BY <1>4, <2>1
<1>6. ASSUME NEW k \in Nat, k \in A PROVE k + 1 \in A
  <2>1. SUFFICES ASSUME k + 1 <= N
                 PROVE  \E u \in [Lits -> Lits] :
                          Generated(gens, u) /\ p = Product(s[k + 1].left, u)
    OBVIOUS
  <2>2. k + 1 \in 1 .. N /\ (k + 1) - 1 = k /\ k \in 0 .. N /\ k <= N
    BY <2>1
  <2>3. PICK u \in [Lits -> Lits] : Generated(gens, u) /\ p = Product(s[k].left, u)
    BY <1>6, <2>2
  <2>4. PICK g \in SiftStates : g = s[k]
    BY <1>4, <2>2
  <2>5. g.left \in [Lits -> Lits] /\ p = Product(g.left, u)
    BY <2>3, <2>4 DEF SiftStates
  <2>6. PICK h : h = Turn(m, g, k + 1) /\ s[k + 1] = h
    BY <1>4, <2>2, <2>4
  <2>7. CASE h.left = g.left
    BY <2>3, <2>5, <2>6, <2>7
  <2>8. ASSUME NEW x \in 1 .. Len(m), x # k + 1,
               h.left = Product(g.left, RowSwap(m[k + 1], m[x]))
        PROVE  \E v \in [Lits -> Lits] : Generated(gens, v) /\ p = Product(h.left, v)
    <3>1. PICK t : t = RowSwap(m[k + 1], m[x])
      OBVIOUS
    <3>2. t \in [Lits -> Lits] /\ Product(t, t) = IdPerm
      BY <1>2, <2>2, <2>8, <3>1, SwapInvolution DEF FullMatrix, RowsApart
    <3>3. Generated(gens, t)
      BY <1>2, <1>3, <2>2, <3>1, SwapsGenerate
    <3>4. PICK v : v = Product(t, u)
      OBVIOUS
    <3>5. v \in [Lits -> Lits] /\ Generated(gens, v)
      BY <2>3, <3>2, <3>3, <3>4, ProductLaws, ProductGenerated
    <3>6. Product(Product(g.left, t), Product(t, u)) = p
      <4>1. Product(Product(g.left, t), Product(t, u))
              = Product(Product(Product(g.left, t), t), u)
        <5>1. Product(g.left, t) \in [Lits -> Lits]
          BY <2>5, <3>2, ProductLaws
        <5>2. QED
          BY <3>2, <5>1, ProductLaws
      <4>2. Product(Product(g.left, t), t) = g.left
        BY <2>5, <3>2, ProductLaws
      <4>3. QED
        BY <2>5, <4>1, <4>2
    <3>7. QED
      BY <2>8, <3>1, <3>4, <3>5, <3>6
  <2>9. h.left = g.left \/ \E x \in 1 .. Len(m) :
           x # k + 1 /\ h.left = Product(g.left, RowSwap(m[k + 1], m[x]))
    BY <1>2, <2>2, <2>6, TurnFacts
  <2>10. QED
    BY <2>6, <2>7, <2>8, <2>9
<1> HIDE DEF A
<1>7. N \in A
  BY <1>5, <1>6, SetInduction
<1>8. PICK u \in [Lits -> Lits] : Generated(gens, u) /\ p = Product(IdPerm, u)
  BY <1>1, <1>2, <1>7 DEF A
<1>9. QED
  BY <1>3, <1>8, ProductLaws

-----------------------------------------------------------------------------
(* cleanPermutations divides by the number of columns: no matrix, finished *)
(* or not, has a row without literals.                                     *)
FilledInv ==
  /\ Filled(matrix)
  /\ \A n \in 1 .. Len(matrices) : Filled(matrices[n])

(* Rows that join a matrix below others are as long as these. *)
LEMMA FilledGrown ==
  ASSUME NEW m, IsMatrix(m, symmetries), Filled(m), NEW S, NEW p, NEW r,
         Len(m) >= 1, IsMatrix(m \o NewRows(m, p, r), S)
  PROVE  Filled(m \o NewRows(m, p, r))
<1>1. m \in Seq(Seq(Lits)) /\ Len(m) \in Nat
  BY DEF IsMatrix
<1>2. PICK w : w = m \o NewRows(m, p, r)
  OBVIOUS
<1>3. w[1] = m[1]
  <2>1. NewRows(m, p, r) = <<>> \/ \E b : NewRows(m, p, r) = <<b>>
    BY DEF NewRows
  <2>2. CASE NewRows(m, p, r) = <<>>
    BY <1>1, <1>2, <2>2
  <2>3. ASSUME NEW b, NewRows(m, p, r) = <<b>> PROVE w[1] = m[1]
    BY <1>1, <1>2, <2>3
  <2>4. QED
    BY <2>1, <2>2, <2>3
<1>4. \A k \in 1 .. Len(w) : Len(w[1]) = Len(w[k])
  BY <1>2 DEF IsMatrix, Alike
<1>5. Len(m[1]) >= 1
  BY <1>1 DEF Filled
<1>6. QED
  BY <1>2, <1>3, <1>4, <1>5 DEF Filled

(* Two involutions that form a matrix move a literal both. *)
LEMMA FilledInitial ==
  SoundInv /\ FilledInv /\ InitialMatrix => FilledInv'
<1> SUFFICES ASSUME SoundInv, FilledInv, InitialMatrix PROVE FilledInv'
  OBVIOUS
<1>1. IsGroup(symmetries) /\ permutations \in Seq(symmetries) /\ symmetries \subseteq LitPerms
  BY DEF SoundInv, IsGroup
<1>2. PICK x : x = FirstPair
  OBVIOUS
<1>3. PICK p : p = permutations[x[1]]
  OBVIOUS
<1>4. PICK q : q = permutations[x[2]]
  OBVIOUS
<1>5. PICK s \in SharedLiterals(p, q) : matrix' = <<s, ImageOf(p, s), ImageOf(q, s)>>
  BY <1>2, <1>3, <1>4 DEF InitialMatrix
<1>6. x \in Pairs
  <2>1. permutations \in Seq(LitPerms)
    BY <1>1
  <2>2. QED
    BY <1>2, <2>1, FirstPairFound DEF InitialMatrix
<1>7. p \in LitPerms /\ q \in LitPerms /\ FormsMatrixWith(p, q)
  <2>1. /\ x[1] \in 1 .. Len(permutations) /\ x[2] \in 1 .. Len(permutations)
        /\ FormsMatrixWith(permutations[x[1]], permutations[x[2]])
    BY <1>6 DEF Pairs
  <2>2. QED
    BY <1>1, <1>3, <1>4, <2>1
<1>8. IsInvolution(p) /\ p \in [Lits -> Lits] /\ q \in [Lits -> Lits]
  BY <1>7 DEF FormsMatrixWith, LitPerms
<1>9. PICK l \in Lits : p[l] # l
  <2>1. p # IdPerm
    BY <1>8 DEF IsInvolution
  <2>2. QED
    BY <1>8, <2>1 DEF IdPerm
<1>10. \E y \in Lits : p[y] # y /\ q[y] # y
  <2>1. l \in Domain(p)
    BY <1>8, <1>9 DEF Domain
  <2>2. l \in CycleReprs(p) \/ p[l] \in CycleReprs(p)
    BY <1>7, <1>8, <2>1, InvolutionFacts
  <2>3. PICK r \in CycleReprs(p) : r = l \/ r = p[l]
    BY <2>2
  <2>4. (q[r] = r) # (q[p[r]] = p[r])
    BY <1>7 DEF FormsMatrixWith
  <2>5. p[p[r]] = r /\ r \in Lits /\ p[r] \in Lits /\ p[r] # r
    BY <1>7, <1>8, <2>3, InvolutionFacts DEF CycleReprs, Domain
  <2>6. QED
    BY <2>4, <2>5
<1>11. PICK y \in Lits : InSeq(y, s)
  BY <1>7, <1>10, SharedFacts
<1>12. s \in Seq(Lits)
  BY <1>7, SharedFacts DEF IsRow
<1>13. Len(s) >= 1
  BY <1>11, <1>12 DEF InSeq
<1>14. Len(ImageOf(p, s)) = Len(s) /\ Len(ImageOf(q, s)) = Len(s)
  BY <1>12 DEF ImageOf
<1>15. Filled(matrix')
  BY <1>5, <1>13, <1>14 DEF Filled
<1>16. matrices' = matrices
  BY DEF InitialMatrix
<1>17. QED
  BY <1>15, <1>16 DEF FilledInv, Filled

(* A finished matrix joins the others. *)
LEMMA FilledAdded ==
  ASSUME FullInv, FilledInv, UNCHANGED matrix, NEW y, FullMatrix(y), Filled(y),
         matrices' = Append(matrices, y)
  PROVE  FilledInv'
<1>1. PICK S : S = Seq(Seq(Lits))
  OBVIOUS
<1>2. matrices \in Seq(S) /\ y \in S
  BY <1>1 DEF FullInv, FullMatrix
<1>3. PICK w : w = matrices'
  OBVIOUS
<1>4. /\ w \in Seq(S) /\ Len(w) = Len(matrices) + 1 /\ w[Len(matrices) + 1] = y
      /\ \A n \in 1 .. Len(matrices) : w[n] = matrices[n]
  BY <1>2, <1>3, OneAppended
<1>5. \A n \in 1 .. Len(w) : n \in 1 .. Len(matrices) \/ n = Len(matrices) + 1
  <2>1. Len(matrices) \in Nat /\ Len(w) = Len(matrices) + 1
    BY <1>2, <1>4
  <2>2. QED
    BY <2>1
<1>6. \A n \in 1 .. Len(w) : Filled(w[n])
  BY <1>4, <1>5 DEF FilledInv
<1>7. QED
  BY <1>3, <1>6 DEF FilledInv, Filled

(* No row of a matrix is ever empty, by which cleanPermutations divides    *)
(* the size of a permutation.                                              *)
LEMMA NextFilled ==
  SoundInv /\ SoundInv' /\ FullInv /\ FilledInv /\ [Next]_vars => FilledInv'
<1> SUFFICES ASSUME SoundInv, SoundInv', FullInv, FilledInv, [Next]_vars
             PROVE  FilledInv'
  OBVIOUS
<1>1. UNCHANGED <<matrices, matrix>> => FilledInv'
  BY DEF FilledInv, Filled
<1>2. NoInitialMatrix \/ Colour \/ Bliss \/ EndStabilizer \/ Clean \/ FixLastRow
        \/ UNCHANGED vars => UNCHANGED <<matrices, matrix>>
  BY DEF NoInitialMatrix, Colour, Bliss, EndStabilizer, Clean, FixLastRow, vars
<1>3. ASSUME NEW p, NEW r, matrix' = matrix \o NewRows(matrix, p, r),
             matrices' = matrices, Len(matrix) >= 1
      PROVE  FilledInv'
  <2>1. IsMatrix(matrix, symmetries)
    BY DEF SoundInv
  <2>2. IsMatrix(matrix, symmetries)'
    BY DEF SoundInv
  <2>3. \E S : IsMatrix(matrix', S)
    BY <2>2 DEF IsMatrix, IsRow, NegClosedRow, Alike, Apart
  <2>4. PICK S : IsMatrix(matrix \o NewRows(matrix, p, r), S)
    BY <1>3, <2>3
  <2>5. Filled(matrix')
    BY <1>3, <2>1, <2>4, FilledGrown DEF FilledInv
  <2>6. QED
    BY <1>3, <2>5 DEF FilledInv, Filled
<1>4. CASE Extend
  <2>1. matrices' = matrices /\ pc = "extend"
    BY <1>4 DEF Extend
  <2>2. Len(matrix) >= 3 /\ Len(matrix) \in Nat
    BY <2>1 DEF SoundInv, Indices, IsMatrix
  <2>3. CASE j <= Len(permutations)
    <3>1. matrix' = matrix \o NewRows(matrix, permutations[j], i)
      BY <1>4, <2>3 DEF Extend
    <3>2. QED
      BY <1>3, <2>1, <2>2, <3>1
  <2>4. CASE ~(j <= Len(permutations))
    BY <1>1, <1>4, <2>4 DEF Extend
  <2>5. QED
    BY <2>3, <2>4
<1>5. CASE TryStabilizer
  <2>1. /\ matrices' = matrices /\ pc = "stabilizer"
        /\ matrix' = matrix \o NewRows(matrix, symgens[j], oldNbRows)
    BY <1>5 DEF TryStabilizer
  <2>2. Len(matrix) >= 3 /\ Len(matrix) \in Nat
    BY <2>1 DEF SoundInv, Indices, IsMatrix
  <2>3. QED
    BY <1>3, <2>1, <2>2
<1>6. CASE AddMatrix
  <2>1. IsMatrix(matrix, symmetries) /\ RowsApart(matrix) /\ Len(matrix) >= 3
    BY <1>6 DEF SoundInv, Indices, FullInv, AddMatrix
  <2>2. FullMatrix(matrix)
    BY <2>1 DEF IsMatrix, FullMatrix
  <2>3. Filled(matrix)
    BY DEF FilledInv
  <2>4. matrices' = Append(matrices, matrix) /\ matrix' = matrix
    BY <1>6 DEF AddMatrix
  <2>5. QED
    BY <2>2, <2>3, <2>4, FilledAdded
<1>7. CASE CheckColumns
  <2>1. Len(matrix) >= 3 /\ IsMatrix(matrix, symmetries) /\ IsGroup(symmetries)
        /\ RowsApart(matrix)
    BY <1>7 DEF SoundInv, Indices, CheckColumns, FullInv
  <2>2. Len(matrix) >= 1
    BY <2>1 DEF IsMatrix
  <2>3. CASE Len(ColumnMatrix(matrix)) > 2
    <3>1. FullMatrix(ColumnMatrix(matrix)) /\ Filled(ColumnMatrix(matrix))
      BY <2>1, <2>2, <2>3, ColumnMatrixFull
    <3>2. matrices' = Append(matrices, ColumnMatrix(matrix)) /\ matrix' = matrix
      BY <1>7, <2>3 DEF CheckColumns
    <3>3. QED
      BY <3>1, <3>2, FilledAdded
  <2>4. CASE ~(Len(ColumnMatrix(matrix)) > 2)
    BY <1>1, <1>7, <2>4 DEF CheckColumns
  <2>5. QED
    BY <2>3, <2>4
<1>8. QED
  BY <1>1, <1>2, <1>4, <1>5, <1>6, <1>7, FilledInitial DEF Next

(* There is no matrix at first.                                            *)
LEMMA InitFilled == Init => FilledInv
<1> SUFFICES ASSUME Init PROVE FilledInv
  OBVIOUS
<1>1. matrix = <<>> /\ matrices = <<>>
  BY DEF Init
<1>2. Len(matrix) = 0 /\ Len(matrices) = 0
  BY <1>1
<1>3. QED
  BY <1>2 DEF FilledInv, Filled

-----------------------------------------------------------------------------
(* What generates the group that is left: the permutations and the swaps   *)
(* of the rows of finished matrices.                                       *)
Generators == ToSet(permutations) \cup AllSwaps

(* They generate the permutations the subgroup had at first.               *)
KeepInv ==
  /\ pc \in {"clean", "cleanColumns", "fixLast"} => Len(matrices) >= 1
  /\ \E s \in Subgroups :
       /\ s.symmetries = symmetries
       /\ \A p \in ToSet(s.permutations) : Generated(Generators, p)

(* The generators are symmetries. *)
LEMMA GeneratorsSound ==
  ASSUME SoundInv, FullInv
  PROVE  /\ ToSet(permutations) \subseteq symmetries /\ AllSwaps \subseteq symmetries
         /\ Generators \subseteq symmetries /\ Generators \in SUBSET [Lits -> Lits]
<1>1. /\ permutations \in Seq(symmetries) /\ symmetries \subseteq LitPerms
  BY DEF SoundInv, IsGroup
<1>2. ToSet(permutations) \subseteq symmetries
  BY <1>1 DEF ToSet
<1>3. ASSUME NEW m \in ToSet(matrices) PROVE Swaps(m) \subseteq symmetries
  <2>1. FullMatrix(m)
    BY FinishedFull
  <2>2. QED
    BY <2>1 DEF FullMatrix, Swaps
<1>4. AllSwaps \subseteq symmetries
  BY <1>3 DEF AllSwaps
<1>5. Generators \subseteq symmetries
  BY <1>2, <1>4 DEF Generators
<1>6. symmetries \in SUBSET [Lits -> Lits]
  BY <1>1 DEF LitPerms
<1>7. QED
  BY <1>2, <1>4, <1>5, <1>6

(* The elements of a sequence are those of its places. *)
LEMMA ToSetPlaces ==
  ASSUME NEW S, NEW x \in Seq(S)
  PROVE  ToSet(x) = {x[n] : n \in 1 .. Len(x)}
BY DEF ToSet

(* A sequence with one more element has those it had. *)
LEMMA AppendedSet ==
  ASSUME NEW T, NEW x \in Seq(T), NEW y \in T
  PROVE  ToSet(x) \subseteq ToSet(Append(x, y)) /\ Len(Append(x, y)) >= 1
<1>1. PICK w : w = Append(x, y)
  OBVIOUS
<1>2. /\ w \in Seq(T) /\ Len(w) = Len(x) + 1 /\ Len(x) \in Nat
      /\ \A q \in 1 .. Len(x) : w[q] = x[q]
  BY <1>1, OneAppended
<1>3. \A q \in 1 .. Len(x) : q \in 1 .. Len(w)
  BY <1>2
<1>4. ToSet(x) \subseteq ToSet(w)
  BY <1>2, <1>3, ToSetPlaces
<1>5. QED
  BY <1>1, <1>2, <1>4

(* A step after which the old generators can be made from the new ones. *)
LEMMA KeptIfGenerated ==
  ASSUME SoundInv, FullInv, SoundInv', FullInv', KeepInv, UNCHANGED symmetries,
         \A g \in Generators : Generated(Generators', g),
         pc' \in {"clean", "cleanColumns", "fixLast"} => Len(matrices') >= 1
  PROVE  KeepInv'
<1>1. PICK s \in Subgroups :
         /\ s.symmetries = symmetries
         /\ \A p \in ToSet(s.permutations) : Generated(Generators, p)
  BY DEF KeepInv
<1>2. PICK G, H : G = Generators /\ H = Generators'
  OBVIOUS
<1>3. G \in SUBSET [Lits -> Lits] /\ H \in SUBSET [Lits -> Lits]
  <2>1. (SoundInv /\ FullInv => Generators \in SUBSET [Lits -> Lits])'
    BY GeneratorsSound, PTL
  <2>2. Generators' \in SUBSET [Lits -> Lits]
    BY <2>1
  <2>3. QED
    BY <1>2, <2>2, GeneratorsSound
<1>4. \A p \in ToSet(s.permutations) : Generated(H, p)
  BY <1>1, <1>2, <1>3, GeneratedTransitive
<1>5. \A p \in ToSet(s.permutations) : Generated(Generators', p)
  BY <1>2, <1>4
<1>6. QED
  BY <1>1, <1>5 DEF KeepInv, Generated, ClosedUnder

(* Where no permutation and no matrix is removed. *)
LEMMA KeptIfMore ==
  ASSUME SoundInv, FullInv, SoundInv', FullInv', KeepInv, UNCHANGED symmetries,
         ToSet(permutations) \subseteq ToSet(permutations'),
         ToSet(matrices) \subseteq ToSet(matrices'),
         pc' \in {"clean", "cleanColumns", "fixLast"} => Len(matrices') >= 1
  PROVE  KeepInv'
<1>1. AllSwaps \subseteq AllSwaps'
  BY DEF AllSwaps, Swaps
<1>2. Generators \subseteq Generators'
  BY <1>1 DEF Generators
<1>3. Generators' \in SUBSET [Lits -> Lits]
  <2>1. (SoundInv /\ FullInv => Generators \in SUBSET [Lits -> Lits])'
    BY GeneratorsSound, PTL
  <2>2. QED
    BY <2>1
<1>4. \A g \in Generators : Generated(Generators', g)
  BY <1>2, <1>3, GeneratorsGenerated
<1>5. QED
  BY <1>4, KeptIfGenerated

(* swapErase keeps all elements but the one it is called for. *)
LEMMA SwapEraseKeeps ==
  ASSUME NEW T, NEW vec \in Seq(T), NEW k \in 1 .. Len(vec)
  PROVE  /\ ToSet(vec) \subseteq ToSet(SwapErase(vec, k)) \cup {vec[k]}
         /\ \A n \in 1 .. Len(vec) - 1 :
              SwapErase(vec, k)[n] = IF n = k THEN vec[Len(vec)] ELSE vec[n]
<1>1. PICK N \in Nat \ {0} : N = Len(vec)
  OBVIOUS
<1>2. PICK w : w = SwapErase(vec, k)
  OBVIOUS
<1>3. w \in Seq(T) /\ Len(w) = N - 1
  BY <1>1, <1>2, SwapEraseFacts
<1>4. \A n \in 1 .. N - 1 : w[n] = IF n = k THEN vec[N] ELSE vec[n]
  BY <1>1, <1>2 DEF SwapErase
<1>5. ASSUME NEW x \in ToSet(vec), x # vec[k] PROVE x \in ToSet(w)
  <2>1. PICK n \in 1 .. N : x = vec[n]
    BY <1>1, ToSetPlaces
  <2>2. \E h \in 1 .. N - 1 : w[h] = x
    <3>1. CASE n = N
      <4>1. k \in 1 .. N - 1 /\ w[k] = vec[N]
        BY <1>1, <1>4, <1>5, <2>1, <3>1
      <4>2. QED
        BY <2>1, <3>1, <4>1
    <3>2. CASE n # N
      <4>1. n \in 1 .. N - 1 /\ n # k
        BY <1>5, <2>1, <3>2
      <4>2. QED
        BY <1>4, <2>1, <4>1
    <3>3. QED
      BY <3>1, <3>2
  <2>3. QED
    BY <1>3, <2>2, ToSetPlaces
<1>6. QED
  BY <1>1, <1>2, <1>4, <1>5

(* The matrix that cleanPermutations works for. *)
LEMMA LastMatrix ==
  ASSUME SoundInv, FullInv, FilledInv, Len(matrices) >= 1
  PROVE  /\ matrices[Len(matrices)] \in ToSet(matrices)
         /\ FullMatrix(matrices[Len(matrices)]) /\ Filled(matrices[Len(matrices)])
<1>1. PICK S : S = Seq(Seq(Lits))
  OBVIOUS
<1>2. matrices \in Seq(S)
  BY <1>1 DEF FullInv
<1>3. Len(matrices) \in 1 .. Len(matrices)
  BY <1>2
<1>4. matrices[Len(matrices)] \in ToSet(matrices)
  BY <1>2, <1>3, ToSetPlaces
<1>5. QED
  BY <1>3, <1>4 DEF FullInv, FilledInv

(* A permutation that is removed is a product of row swaps. *)
LEMMA CleanKeeps ==
  SoundInv /\ FullInv /\ FilledInv /\ SoundInv' /\ FullInv' /\ KeepInv /\ Clean
    => KeepInv'
<1> SUFFICES ASSUME SoundInv, FullInv, FilledInv, SoundInv', FullInv', KeepInv, Clean
             PROVE  KeepInv'
  OBVIOUS
<1>1. /\ symmetries' = symmetries /\ matrices' = matrices /\ pc' = pc
      /\ pc \in {"clean", "cleanColumns"} /\ i > 0
  BY DEF Clean
<1>2. permutations \in Seq(symmetries) /\ i \in 1 .. Len(permutations)
  BY <1>1 DEF SoundInv, Indices
<1>3. Len(matrices) >= 1
  BY <1>1 DEF KeepInv
<1>4. CASE permutations' = permutations
  BY <1>1, <1>3, <1>4, KeptIfMore
<1>5. CASE permutations' # permutations
  <2>1. PICK m : m = matrices[Len(matrices)]
    OBVIOUS
  <2>2. m \in ToSet(matrices) /\ FullMatrix(m) /\ Filled(m)
    BY <1>3, <2>1, LastMatrix
  <2>3. PICK p : p = permutations[i]
    OBVIOUS
  <2>4. p \in symmetries
    BY <1>2, <2>3
  <2>5. p \in [Lits -> Lits]
    BY <2>4 DEF SoundInv, IsGroup, LitPerms
  <2>6. TestMembership(m, p) = IdPerm /\ permutations' = SwapErase(permutations, i)
    BY <1>5, <2>1, <2>3 DEF Clean, Redundant
  <2>7. Generated(Swaps(m), p)
    BY <2>2, <2>5, <2>6, SiftGenerates
  <2>8. PICK H : H = Generators'
    OBVIOUS
  <2>9. H \in SUBSET [Lits -> Lits]
    <3>1. (SoundInv /\ FullInv => Generators \in SUBSET [Lits -> Lits])'
      BY GeneratorsSound, PTL
    <3>2. QED
      BY <2>8, <3>1
  <2>10. AllSwaps' = AllSwaps /\ Swaps(m) \subseteq AllSwaps
    BY <1>1, <2>2 DEF AllSwaps, Swaps
  <2>11. Swaps(m) \subseteq H
    BY <2>8, <2>10 DEF Generators
  <2>12. Swaps(m) \in SUBSET [Lits -> Lits]
    BY <2>2, SwapsGenerate
  <2>13. Generated(H, p)
    <3>1. \A g \in Swaps(m) : Generated(H, g)
      BY <2>9, <2>11, GeneratorsGenerated
    <3>2. QED
      BY <2>7, <2>9, <2>12, <3>1, GeneratedTransitive
  <2>14. ASSUME NEW g \in Generators PROVE Generated(H, g)
    <3>1. CASE g \in AllSwaps
      <4>1. g \in H
        BY <2>8, <2>10, <3>1 DEF Generators
      <4>2. QED
        BY <2>9, <4>1, GeneratorsGenerated
    <3>2. CASE g \in ToSet(permutations)
      <4>1. g \in ToSet(permutations') \/ g = p
        BY <1>2, <2>3, <2>6, <3>2, SwapEraseKeeps
      <4>2. CASE g = p
        BY <2>13, <4>2
      <4>3. CASE g \in ToSet(permutations')
        <5>1. g \in H
          BY <2>8, <4>3 DEF Generators
        <5>2. QED
          BY <2>9, <5>1, GeneratorsGenerated
      <4>4. QED
        BY <4>1, <4>2, <4>3
    <3>3. QED
      BY <3>1, <3>2 DEF Generators
  <2>15. QED
    BY <1>1, <1>3, <2>8, <2>14, KeptIfGenerated
<1>6. QED
  BY <1>4, <1>5

(* Every other action only adds. *)
LEMMA NextKeeps ==
  SoundInv /\ FullInv /\ FilledInv /\ SoundInv' /\ FullInv' /\ KeepInv /\ [Next]_vars
    => KeepInv'
<1> SUFFICES ASSUME SoundInv, FullInv, FilledInv, SoundInv', FullInv', KeepInv,
                    [Next]_vars
             PROVE  KeepInv'
  OBVIOUS
<1>1. PICK S : S = Seq(Seq(Lits))
  OBVIOUS
<1>2. /\ permutations \in Seq(symmetries) /\ symgens \in Seq(symmetries)
      /\ matrices \in Seq(S) /\ Len(matrices) \in Nat
  BY <1>1 DEF SoundInv, FullInv
<1>3. \A T : \A x \in Seq(T), y \in T :
         ToSet(x) \subseteq ToSet(Append(x, y)) /\ Len(Append(x, y)) >= 1
  BY AppendedSet
<1>4. CASE \/ InitialMatrix \/ NoInitialMatrix \/ Extend \/ Colour \/ Bliss
           \/ EndStabilizer \/ FixLastRow \/ UNCHANGED vars
  <2>1. UNCHANGED <<symmetries, permutations, matrices>>
    BY <1>4 DEF InitialMatrix, NoInitialMatrix, Extend, Colour, Bliss, EndStabilizer,
                FixLastRow, vars
  <2>2. pc' \in {"clean", "cleanColumns", "fixLast"} => pc' = pc
    BY <1>4 DEF InitialMatrix, NoInitialMatrix, Extend, Colour, Bliss, EndStabilizer,
                FixLastRow, vars
  <2>3. QED
    BY <2>1, <2>2, KeptIfMore DEF KeepInv
<1>5. CASE TryStabilizer
  <2>1. /\ UNCHANGED <<symmetries, matrices, pc>> /\ pc = "stabilizer"
        /\ permutations' = Append(permutations, symgens[j]) /\ j <= Len(symgens)
    BY <1>5 DEF TryStabilizer
  <2>2. j \in 1 .. Len(symgens)
    BY <1>2, <2>1 DEF SoundInv, Indices
  <2>3. symgens[j] \in symmetries
    BY <1>2, <2>2
  <2>4. ToSet(permutations) \subseteq ToSet(permutations')
    BY <1>2, <1>3, <2>1, <2>3
  <2>5. QED
    BY <2>1, <2>4, KeptIfMore
<1>6. ASSUME NEW y \in S, matrices' = Append(matrices, y),
             UNCHANGED <<symmetries, permutations>>
      PROVE  KeepInv'
  <2>1. ToSet(matrices) \subseteq ToSet(matrices') /\ Len(matrices') >= 1
    BY <1>2, <1>3, <1>6
  <2>2. QED
    BY <1>6, <2>1, KeptIfMore
<1>7. CASE AddMatrix
  <2>1. matrix \in S
    BY <1>1 DEF SoundInv, IsMatrix
  <2>2. QED
    BY <1>6, <1>7, <2>1 DEF AddMatrix
<1>8. CASE CheckColumns
  <2>1. CASE Len(ColumnMatrix(matrix)) > 2
    <3>1. Len(matrix) >= 3 /\ IsMatrix(matrix, symmetries) /\ IsGroup(symmetries)
          /\ RowsApart(matrix)
      BY <1>8 DEF SoundInv, Indices, CheckColumns, FullInv
    <3>2. Len(matrix) >= 1
      BY <3>1 DEF IsMatrix
    <3>3. ColumnMatrix(matrix) \in S
      BY <1>1, <2>1, <3>1, <3>2, ColumnMatrixFull DEF FullMatrix
    <3>4. QED
      BY <1>6, <1>8, <2>1, <3>3 DEF CheckColumns
  <2>2. CASE ~(Len(ColumnMatrix(matrix)) > 2)
    <3>1. UNCHANGED <<symmetries, permutations, matrices>> /\ pc = "clean"
      BY <1>8, <2>2 DEF CheckColumns
    <3>2. Len(matrices) >= 1
      BY <3>1 DEF KeepInv
    <3>3. QED
      BY <3>1, <3>2, KeptIfMore
  <2>3. QED
    BY <2>1, <2>2
<1>9. QED
  BY <1>4, <1>5, <1>7, <1>8, CleanKeeps DEF Next

(* At first the permutations are those of the subgroup.                    *)
LEMMA InitKeeps == Init => KeepInv
<1> SUFFICES ASSUME Init PROVE KeepInv
  OBVIOUS
<1>1. PICK s \in Subgroups : symmetries = s.symmetries /\ permutations = s.permutations
  BY DEF Init
<1>2. SoundInv /\ FullInv
  BY InitSound, InitFull
<1>3. ToSet(s.permutations) \subseteq Generators
  BY <1>1 DEF Generators
<1>4. \A p \in ToSet(s.permutations) : Generated(Generators, p)
  BY <1>2, <1>3, GeneratorsSound, GeneratorsGenerated
<1>5. pc = "initial"
  BY DEF Init
<1>6. QED
  BY <1>1, <1>4, <1>5 DEF KeepInv

(* cleanPermutations removes a permutation when testMembership sifts it    *)
(* down to the identity.  With the swaps of consecutive rows of all        *)
(* finished matrices, the permutations that are left still generate        *)
(* whatever the subgroup generated, as long as the involutions a matrix    *)
(* begins with fit together.                                               *)
THEOREM NothingLost ==
  Spec /\ []InvolutionsFit => []NoSymmetryLost
<1>1. SoundInv /\ FullInv /\ KeepInv => NoSymmetryLost
  <2> SUFFICES ASSUME SoundInv, FullInv, KeepInv PROVE NoSymmetryLost
    OBVIOUS
  <2>1. PICK s \in Subgroups :
           /\ s.symmetries = symmetries
           /\ \A p \in ToSet(s.permutations) : Generated(Generators, p)
    BY DEF KeepInv
  <2>2. /\ IsGroup(symmetries) /\ symmetries \subseteq LitPerms
        /\ symmetries \in SUBSET [Lits -> Lits]
    BY DEF SoundInv, IsGroup, LitPerms
  <2>3. PICK n : n = Cardinality(symmetries)
    OBVIOUS
  <2>4. IsFiniteSet(symmetries) /\ n \in Nat /\ n >= n
    BY <2>2, <2>3, LiteralMapsFinite, FS_Subset, FS_CardinalityType
  <2>5. PICK G : G = Generators /\ G = ToSet(permutations) \cup AllSwaps
    BY DEF Generators
  <2>6. G \subseteq symmetries
    BY <2>5, GeneratorsSound
  <2>7. ToSet(s.permutations) \subseteq Products(G, n)
    <3>1. CASE symmetries = {}
      <4>1. s.permutations \in Seq(symmetries)
        BY <2>1, SubgroupsAssumption
      <4>2. ToSet(s.permutations) \subseteq symmetries
        BY <4>1 DEF ToSet
      <4>3. QED
        BY <3>1, <4>2
    <3>2. CASE symmetries # {}
      <4>1. IdPerm \in symmetries
        BY <2>2, <3>2, IdInGroup DEF IsGroup
      <4>2. ClosedUnder(symmetries, G)
        BY <2>2, <2>6 DEF IsGroup, ClosedUnder
      <4>3. PICK W : W = Products(G, n)
        OBVIOUS
      <4>4. IdPerm \in W /\ W \subseteq symmetries /\ ClosedUnder(W, G)
        BY <2>3, <2>4, <4>1, <4>2, <4>3, ProductsClosed
      <4>5. W \in SUBSET [Lits -> Lits]
        BY <2>2, <4>4
      <4>6. \A p \in ToSet(s.permutations) : p \in W
        BY <2>1, <2>5, <4>4, <4>5 DEF Generated
      <4>7. QED
        BY <4>3, <4>6
    <3>3. QED
      BY <3>1, <3>2
  <2>8. QED
    BY <2>1, <2>3, <2>5, <2>7 DEF NoSymmetryLost
<1>2. QED
  BY InitSound, NextSound, InitFull, NextFull, InitFilled, NextFilled, InitKeeps,
     NextKeeps, <1>1, PTL DEF Spec

-----------------------------------------------------------------------------
(* p takes row r of the matrix to row f[r], literal by literal, and moves  *)
(* nothing else.                                                           *)
MovesRows(m, p, f) ==
  /\ p \in [Lits -> Lits]
  /\ f \in [1 .. Len(m) -> 1 .. Len(m)]
  /\ \A q, r \in 1 .. Len(m) : f[q] = f[r] => q = r
  /\ \A r \in 1 .. Len(m), k \in 1 .. Len(m[1]) : p[m[r][k]] = m[f[r]][k]
  /\ \A l \in Lits : ~InMatrix(m, l) => p[l] = l

(* f, then rows q and r exchanged. *)
Exchanged(m, f, q, r) ==
  [y \in 1 .. Len(m) |-> IF f[y] = q THEN r ELSE IF f[y] = r THEN q ELSE f[y]]

(* The identity leaves every row where it is, and nothing else does. *)
LEMMA RowsFixed ==
  ASSUME NEW m, FullMatrix(m)
  PROVE  /\ \E f : MovesRows(m, IdPerm, f) /\ \A r \in 1 .. Len(m) : f[r] = r
         /\ \A p, f : MovesRows(m, p, f) /\ (\A r \in 1 .. Len(m) : f[r] = r)
                        => p = IdPerm
<1>1. \A r \in 1 .. Len(m) : \A k \in 1 .. Len(m[r]) :
         m[r][k] \in Lits /\ Len(m[r]) = Len(m[1])
  BY FullPlaces
<1>2. \A r \in 1 .. Len(m) : Len(m[r]) = Len(m[1])
  <2>1. 1 \in 1 .. Len(m)
    BY DEF FullMatrix
  <2>2. QED
    BY <2>1 DEF FullMatrix, RowsApart, Apart
<1>3. \E f : MovesRows(m, IdPerm, f) /\ \A r \in 1 .. Len(m) : f[r] = r
  <2>1. PICK f : f = [r \in 1 .. Len(m) |-> r]
    OBVIOUS
  <2>2. PICK p : p = IdPerm /\ p \in [Lits -> Lits] /\ \A l \in Lits : p[l] = l
    <3>1. IdPerm \in [Lits -> Lits] /\ \A l \in Lits : IdPerm[l] = l
      BY DEF IdPerm
    <3>2. QED
      BY <3>1
  <2>3. \A r \in 1 .. Len(m), k \in 1 .. Len(m[1]) : m[r][k] \in Lits
    BY <1>1, <1>2
  <2>4. MovesRows(m, p, f)
    BY <2>1, <2>2, <2>3 DEF MovesRows
  <2>5. QED
    BY <2>1, <2>2, <2>4
<1>4. ASSUME NEW p, NEW f, MovesRows(m, p, f), \A r \in 1 .. Len(m) : f[r] = r
      PROVE  p = IdPerm
  <2>1. ASSUME NEW l \in Lits PROVE p[l] = l
    <3>1. CASE InMatrix(m, l)
      <4>1. PICK r \in 1 .. Len(m) : \E k \in 1 .. Len(m[r]) : m[r][k] = l
        BY <3>1 DEF InMatrix, InSeq
      <4>2. PICK k \in 1 .. Len(m[1]) : m[r][k] = l
        BY <1>2, <4>1
      <4>3. p[m[r][k]] = m[f[r]][k]
        BY <1>4 DEF MovesRows
      <4>4. QED
        BY <1>4, <4>2, <4>3
    <3>2. CASE ~InMatrix(m, l)
      BY <1>4, <3>2 DEF MovesRows
    <3>3. QED
      BY <3>1, <3>2
  <2>2. p \in [Lits -> Lits]
    BY <1>4 DEF MovesRows
  <2>3. QED
    BY <2>1, <2>2 DEF IdPerm
<1>5. QED
  BY <1>3, <1>4

(* A swap of two rows afterwards moves rows again. *)
LEMMA RowsExchanged ==
  ASSUME NEW m, FullMatrix(m), NEW p, NEW f, MovesRows(m, p, f),
         NEW q \in 1 .. Len(m), NEW r \in 1 .. Len(m), q # r
  PROVE  MovesRows(m, Product(p, RowSwap(m[q], m[r])), Exchanged(m, f, q, r))
<1>1. /\ IsRow(m[q]) /\ IsRow(m[r]) /\ Apart(m[q], m[r])
      /\ \A x \in 1 .. Len(m) : Len(m[x]) = Len(m[1])
  <2>1. 1 \in 1 .. Len(m)
    BY DEF FullMatrix
  <2>2. QED
    BY <2>1 DEF FullMatrix, RowsApart, Apart
<1>2. PICK s : s = RowSwap(m[q], m[r])
  OBVIOUS
<1>3. /\ s \in [Lits -> Lits]
      /\ \A k \in 1 .. Len(m[1]) : s[m[q][k]] = m[r][k] /\ s[m[r][k]] = m[q][k]
      /\ \A l \in Lits : ~InSeq(l, m[q]) /\ ~InSeq(l, m[r]) => s[l] = l
  BY <1>1, <1>2, SwapFacts
<1>4. PICK h : h = Exchanged(m, f, q, r)
  OBVIOUS
<1>5. /\ f \in [1 .. Len(m) -> 1 .. Len(m)]
      /\ \A x, y \in 1 .. Len(m) : f[x] = f[y] => x = y
      /\ p \in [Lits -> Lits]
      /\ \A x \in 1 .. Len(m), k \in 1 .. Len(m[1]) : p[m[x][k]] = m[f[x]][k]
      /\ \A l \in Lits : ~InMatrix(m, l) => p[l] = l
  BY DEF MovesRows
<1>6. \A y \in 1 .. Len(m) : h[y] = IF f[y] = q THEN r ELSE IF f[y] = r THEN q ELSE f[y]
  BY <1>4 DEF Exchanged
<1>7. h \in [1 .. Len(m) -> 1 .. Len(m)]
  BY <1>4, <1>5 DEF Exchanged
<1>8. \A x, y \in 1 .. Len(m) : h[x] = h[y] => x = y
  BY <1>5, <1>6
<1>9. \A x \in 1 .. Len(m), k \in 1 .. Len(m[1]) :
         m[x][k] \in Lits /\ RowNb(m, m[x][k]) = x
  BY <1>1, FullPlaces
<1>10. ASSUME NEW x \in 1 .. Len(m), NEW k \in 1 .. Len(m[1]), x # q, x # r
       PROVE  s[m[x][k]] = m[x][k]
  <2>1. ~InSeq(m[x][k], m[q]) /\ ~InSeq(m[x][k], m[r])
    BY <1>1, <1>9, <1>10 DEF InSeq
  <2>2. QED
    BY <1>3, <1>9, <2>1
<1>11. PICK t : t = Product(p, s)
  OBVIOUS
<1>12. t \in [Lits -> Lits] /\ \A l \in Lits : t[l] = s[p[l]]
  BY <1>3, <1>5, <1>11, ProductFacts
<1>13. ASSUME NEW x \in 1 .. Len(m), NEW k \in 1 .. Len(m[1])
       PROVE  t[m[x][k]] = m[h[x]][k]
  <2>1. t[m[x][k]] = s[m[f[x]][k]] /\ f[x] \in 1 .. Len(m)
    BY <1>5, <1>9, <1>12
  <2>2. CASE f[x] = q
    BY <1>3, <1>6, <2>1, <2>2
  <2>3. CASE f[x] = r
    BY <1>3, <1>6, <2>1, <2>3
  <2>4. CASE f[x] # q /\ f[x] # r
    BY <1>6, <1>10, <2>1, <2>4
  <2>5. QED
    BY <2>2, <2>3, <2>4
<1>14. ASSUME NEW l \in Lits, ~InMatrix(m, l) PROVE t[l] = l
  BY <1>3, <1>5, <1>12, <1>14 DEF InMatrix
<1>15. MovesRows(m, t, h)
  BY <1>7, <1>8, <1>12, <1>13, <1>14 DEF MovesRows
<1>16. QED
  BY <1>2, <1>4, <1>11, <1>15

(* The products of row swaps move rows. *)
LEMMA ProductsMoveRows ==
  ASSUME NEW m, FullMatrix(m), NEW n \in Nat, NEW p \in Products(Swaps(m), n)
  PROVE  \E f : MovesRows(m, p, f)
<1> DEFINE W == {x \in [Lits -> Lits] : \E f : MovesRows(m, x, f)}
<1>1. IdPerm \in W
  <2>1. IdPerm \in [Lits -> Lits]
    BY DEF IdPerm
  <2>2. QED
    BY <2>1, RowsFixed
<1>2. ASSUME NEW x \in W, NEW g \in Swaps(m) PROVE Product(x, g) \in W
  <2>1. PICK f : MovesRows(m, x, f)
    OBVIOUS
  <2>2. PICK r \in 1 .. Len(m) - 1 : g = RowSwap(m[r], m[r + 1])
    BY DEF Swaps
  <2>3. r \in 1 .. Len(m) /\ r + 1 \in 1 .. Len(m) /\ r # r + 1
    BY DEF FullMatrix
  <2>4. MovesRows(m, Product(x, g), Exchanged(m, f, r, r + 1))
    BY <2>1, <2>2, <2>3, RowsExchanged
  <2>5. Product(x, g) \in [Lits -> Lits]
    BY <2>4 DEF MovesRows
  <2>6. QED
    BY <2>4, <2>5
<1>3. ClosedUnder(W, Swaps(m))
  BY <1>2 DEF ClosedUnder
<1> HIDE DEF W
<1>4. p \in W
  BY <1>1, <1>3, ProductsLeast
<1>5. QED
  BY <1>4 DEF W

(* A multiple leaves no remainder. *)
LEMMA NoRemainder ==
  ASSUME NEW a \in Nat, NEW b \in Nat, b >= 1
  PROVE  (a * b) % b = 0
OBVIOUS

(* They move whole rows: as many literals as a multiple of the length.     *)
LEMMA RowsMovedWholly ==
  ASSUME NEW m, FullMatrix(m), Filled(m), NEW p, NEW f, MovesRows(m, p, f)
  PROVE  Cardinality(Domain(p)) % Len(m[1]) = 0
<1>1. PICK N \in Nat, L \in Nat : N = Len(m) /\ L = Len(m[1]) /\ L >= 1
  <2>1. 1 \in 1 .. Len(m) /\ Len(m) \in Nat
    BY DEF FullMatrix
  <2>2. Len(m[1]) \in Nat
    BY <2>1 DEF FullMatrix, IsRow
  <2>3. Len(m[1]) >= 1
    BY <2>1 DEF Filled
  <2>4. QED
    BY <2>1, <2>2, <2>3
<1>2. \A r \in 1 .. N : Len(m[r]) = L
  <2>1. 1 \in 1 .. Len(m)
    BY DEF FullMatrix
  <2>2. QED
    BY <1>1, <2>1 DEF FullMatrix, RowsApart, Apart
<1>3. \A r \in 1 .. N, k \in 1 .. L :
         m[r][k] \in Lits /\ RowNb(m, m[r][k]) = r /\ ColumnNb(m, m[r][k]) = k
  BY <1>1, <1>2, FullPlaces
<1>4. /\ f \in [1 .. N -> 1 .. N] /\ p \in [Lits -> Lits]
      /\ \A r \in 1 .. N, k \in 1 .. L : p[m[r][k]] = m[f[r]][k]
      /\ \A l \in Lits : ~InMatrix(m, l) => p[l] = l
  BY <1>1 DEF MovesRows
<1>5. PICK M : M = {r \in 1 .. N : f[r] # r}
  OBVIOUS
<1>6. PICK K : K = 1 .. L
  OBVIOUS
<1>7. IsFiniteSet(M) /\ IsFiniteSet(K) /\ Cardinality(K) = L
  <2>1. IsFiniteSet(1 .. N) /\ IsFiniteSet(1 .. L)
        /\ Cardinality(1 .. L) = IF 1 > L THEN 0 ELSE L - 1 + 1
    BY FS_Interval
  <2>2. IsFiniteSet(M)
    BY <1>5, <2>1, FS_Subset
  <2>3. QED
    BY <1>1, <1>6, <2>1, <2>2
<1>8. PICK D : D = Domain(p)
  OBVIOUS
<1>9. PICK e : e = [x \in M \X K |-> m[x[1]][x[2]]]
  OBVIOUS
<1>10. \A r \in M, k \in K : <<r, k>> \in M \X K /\ e[<<r, k>>] = m[r][k]
  BY <1>9
<1>11. \A r \in M, k \in K : m[r][k] \in D
  <2>1. ASSUME NEW r \in M, NEW k \in K PROVE m[r][k] \in D
    <3>1. r \in 1 .. N /\ f[r] \in 1 .. N /\ f[r] # r /\ k \in 1 .. L
      BY <1>4, <1>5, <1>6
    <3>2. m[f[r]][k] # m[r][k]
      BY <1>3, <3>1
    <3>3. p[m[r][k]] = m[f[r]][k] /\ m[r][k] \in Lits
      BY <1>3, <1>4, <3>1
    <3>4. QED
      BY <1>4, <1>8, <3>2, <3>3 DEF Domain
  <2>2. QED
    BY <2>1
<1>12. \A l \in D : \E r \in M, k \in K : m[r][k] = l
  <2>1. ASSUME NEW l \in D PROVE \E r \in M, k \in K : m[r][k] = l
    <3>1. l \in Lits /\ p[l] # l
      BY <1>4, <1>8 DEF Domain
    <3>2. InMatrix(m, l)
      BY <1>4, <3>1
    <3>3. PICK r \in 1 .. N : \E k \in 1 .. Len(m[r]) : m[r][k] = l
      BY <1>1, <3>2 DEF InMatrix, InSeq
    <3>4. PICK k \in 1 .. L : m[r][k] = l
      BY <1>2, <3>3
    <3>5. p[l] = m[f[r]][k]
      BY <1>4, <3>4
    <3>6. f[r] # r
      BY <3>1, <3>4, <3>5
    <3>7. QED
      BY <1>5, <1>6, <3>4, <3>6
  <2>2. QED
    BY <2>1
<1>13. Cardinality(D) = Cardinality(M \X K)
  <2>1. e \in [M \X K -> D]
    BY <1>9, <1>11
  <2>2. \A x, y \in M \X K : e[x] = e[y] => x = y
    <3>1. ASSUME NEW x \in M \X K, NEW y \in M \X K, e[x] = e[y] PROVE x = y
      <4>1. PICK r \in M, k \in K : x = <<r, k>>
        OBVIOUS
      <4>2. PICK q \in M, h \in K : y = <<q, h>>
        OBVIOUS
      <4>3. m[r][k] = m[q][h]
        BY <1>10, <3>1, <4>1, <4>2
      <4>4. r \in 1 .. N /\ q \in 1 .. N /\ k \in 1 .. L /\ h \in 1 .. L
        BY <1>5, <1>6
      <4>5. r = q /\ k = h
        BY <1>3, <4>3, <4>4
      <4>6. QED
        BY <4>1, <4>2, <4>5
    <3>2. QED
      BY <3>1
  <2>3. ASSUME NEW l \in D PROVE \E x \in M \X K : e[x] = l
    <3>1. PICK r \in M, k \in K : m[r][k] = l
      BY <1>12
    <3>2. <<r, k>> \in M \X K /\ e[<<r, k>>] = l
      BY <1>10, <3>1
    <3>3. QED
      BY <3>2
  <2>4. QED
    BY <1>7, <2>1, <2>2, <2>3, FS_Product, OneToOne
<1>14. Cardinality(D) = Cardinality(M) * L
  BY <1>7, <1>13, FS_Product
<1>15. Cardinality(M) \in Nat
  BY <1>7, FS_CardinalityType
<1>16. QED
  BY <1>1, <1>8, <1>14, <1>15, NoRemainder

(* testMembership puts the rows back one after the other. *)
LEMMA SiftComplete ==
  ASSUME NEW m, FullMatrix(m), Filled(m), NEW p, NEW e, MovesRows(m, p, e)
  PROVE  TestMembership(m, p) = IdPerm
<1>1. p \in [Lits -> Lits]
  BY DEF MovesRows
<1>2. PICK s : Sifted(m, p, s) /\ TestMembership(m, p) = s[Len(m)].left
  BY <1>1, SiftRuns
<1>3. PICK N \in Nat : N = Len(m)
  BY DEF FullMatrix
<1>4. /\ \A r \in 0 .. N : s[r] \in SiftStates
      /\ s[0] = [left |-> p, stop |-> FALSE]
      /\ \A r \in 1 .. N : s[r] = Turn(m, s[r - 1], r)
  BY <1>2, <1>3 DEF Sifted
<1> DEFINE Back(g, k) == /\ \E f : MovesRows(m, g.left, f) /\ \A r \in 1 .. k : f[r] = r
                         /\ g.stop => g.left = IdPerm
           A == {k \in Nat : k <= N => Back(s[k], k)}
<1>5. 0 \in A
  <2>1. s[0].left = p /\ s[0].stop = FALSE /\ \A r : r \notin 1 .. 0
    BY <1>4
  <2>2. QED
    BY <2>1
<1>6. ASSUME NEW k \in Nat, k \in A PROVE k + 1 \in A
  <2>1. SUFFICES ASSUME k + 1 <= N PROVE Back(s[k + 1], k + 1)
    OBVIOUS
  <2>2. k + 1 \in 1 .. N /\ (k + 1) - 1 = k /\ k \in 0 .. N /\ k <= N
    BY <2>1
  <2>3. PICK g \in SiftStates : g = s[k] /\ Back(g, k)
    BY <1>4, <1>6, <2>2
  <2>4. PICK f : MovesRows(m, g.left, f) /\ \A r \in 1 .. k : f[r] = r
    BY <2>3
  <2>5. PICK h : h = Turn(m, g, k + 1) /\ s[k + 1] = h
    BY <1>4, <2>2, <2>3
  <2>6. k + 1 \in 1 .. Len(m)
    BY <1>3, <2>2
  <2>7. CASE g.stop
    <3>1. g.left = IdPerm
      BY <2>3, <2>7
    <3>2. h = [left |-> g.left, stop |-> TRUE]
      BY <2>5, <2>7 DEF Turn
    <3>3. PICK c : MovesRows(m, IdPerm, c) /\ \A r \in 1 .. Len(m) : c[r] = r
      BY RowsFixed
    <3>4. \A r \in 1 .. k + 1 : r \in 1 .. Len(m)
      BY <1>3, <2>1
    <3>5. QED
      BY <2>5, <3>1, <3>2, <3>3, <3>4
  <2>8. CASE ~g.stop
    <3>1. PICK x : x = f[k + 1]
      OBVIOUS
    <3>2. /\ f \in [1 .. N -> 1 .. N] /\ x \in 1 .. N
          /\ \A q, r \in 1 .. N : f[q] = f[r] => q = r
          /\ \A r \in 1 .. N, c \in 1 .. Len(m[1]) : g.left[m[r][c]] = m[f[r]][c]
      BY <1>3, <2>2, <2>4, <3>1 DEF MovesRows
    <3>3. x >= k + 1
      <4>1. SUFFICES ASSUME x < k + 1 PROVE FALSE
        BY <2>2, <3>2
      <4>2. x \in 1 .. k
        BY <2>2, <3>2, <4>1
      <4>3. f[x] = x
        BY <2>4, <4>2
      <4>4. x = k + 1
        BY <2>2, <3>1, <3>2, <4>3
      <4>5. QED
        BY <4>1, <4>4
    <3>4. \A r \in 1 .. N : 1 \in 1 .. Len(m[r]) /\ 1 \in 1 .. Len(m[1])
      <4>1. \A r \in 1 .. N : Len(m[r]) \in Nat /\ Len(m[r]) >= 1
        BY <1>3 DEF FullMatrix, IsRow, Filled
      <4>2. 1 \in 1 .. N
        BY <1>3 DEF FullMatrix
      <4>3. QED
        BY <4>1, <4>2
    <3>5. g.left[m[k + 1][1]] = m[x][1]
      BY <2>2, <3>1, <3>2, <3>4
    <3>6. \A y \in 1 .. N : m[y][1] = m[x][1] => y = x
      <4>1. ASSUME NEW y \in 1 .. N, m[y][1] = m[x][1] PROVE y = x
        <5>1. RowNb(m, m[y][1]) = y
          BY <1>3, <3>4, FullPlaces
        <5>2. RowNb(m, m[x][1]) = x
          BY <1>3, <3>2, <3>4, FullPlaces
        <5>3. QED
          BY <4>1, <5>1, <5>2
      <4>2. QED
        BY <4>1
    <3>7. g.left[m[k + 1][1]] \in {m[q][1] : q \in k + 1 .. Len(m)}
      BY <1>3, <2>2, <3>2, <3>3, <3>5
    <3>8. \/ x = k + 1 /\ h = [left |-> g.left, stop |-> g.left = IdPerm]
          \/ /\ x # k + 1
             /\ h = [left |-> Product(g.left, RowSwap(m[k + 1], m[x])),
                     stop |-> Product(g.left, RowSwap(m[k + 1], m[x])) = IdPerm]
      BY <1>3, <2>5, <2>6, <2>8, <3>5, <3>6, <3>7, TurnFacts, SMTT(30)
    <3>9. CASE x = k + 1
      <4>1. h.left = g.left /\ (h.stop => h.left = IdPerm)
        <5>1. h = [left |-> g.left, stop |-> g.left = IdPerm]
          BY <3>8, <3>9
        <5>2. PICK y, b : y = g.left /\ b = (y = IdPerm)
          OBVIOUS
        <5>3. h.left = y /\ h.stop = b
          BY <5>1, <5>2
        <5>4. QED
          BY <5>2, <5>3
      <4>2. \A r \in 1 .. k + 1 : r \in 1 .. k \/ r = k + 1
        OBVIOUS
      <4>3. \A r \in 1 .. k + 1 : f[r] = r
        BY <2>4, <3>1, <3>9, <4>2
      <4>4. QED
        BY <2>4, <2>5, <4>1, <4>3
    <3>10. CASE x # k + 1
      <4>1. h.left = Product(g.left, RowSwap(m[k + 1], m[x])) /\ (h.stop => h.left = IdPerm)
        <5>1. h = [left |-> Product(g.left, RowSwap(m[k + 1], m[x])),
                   stop |-> Product(g.left, RowSwap(m[k + 1], m[x])) = IdPerm]
          BY <3>8, <3>10
        <5>2. PICK y, b : /\ y = Product(g.left, RowSwap(m[k + 1], m[x]))
                          /\ b = (y = IdPerm)
          OBVIOUS
        <5>3. h.left = y /\ h.stop = b
          BY <5>1, <5>2
        <5>4. QED
          BY <5>2, <5>3
      <4>2. PICK c : c = Exchanged(m, f, k + 1, x)
        OBVIOUS
      <4>3. MovesRows(m, h.left, c)
        <5>1. PICK z, w : z = k + 1 /\ w = g.left
          OBVIOUS
        <5>2. z \in 1 .. Len(m) /\ x \in 1 .. Len(m) /\ z # x
          BY <1>3, <2>6, <3>2, <3>10, <5>1
        <5>3. MovesRows(m, w, f)
          BY <2>4, <5>1
        <5>4. MovesRows(m, Product(w, RowSwap(m[z], m[x])), Exchanged(m, f, z, x))
          BY <5>2, <5>3, RowsExchanged
        <5>5. QED
          BY <4>1, <4>2, <5>1, <5>4
      <4>4. ASSUME NEW r \in 1 .. k + 1 PROVE c[r] = r
        <5>1. r \in 1 .. N /\ (r \in 1 .. k \/ r = k + 1)
          BY <2>1
        <5>2. c[r] = IF f[r] = k + 1 THEN x ELSE IF f[r] = x THEN k + 1 ELSE f[r]
          BY <1>3, <4>2, <5>1 DEF Exchanged
        <5>3. CASE r = k + 1
          BY <3>1, <3>10, <5>2, <5>3
        <5>4. CASE r \in 1 .. k
          <6>1. f[r] = r
            BY <2>4, <5>4
          <6>2. r # k + 1 /\ r # x
            BY <3>2, <3>3, <5>4
          <6>3. QED
            BY <5>2, <6>1, <6>2
        <5>5. QED
          BY <5>1, <5>3, <5>4
      <4>5. QED
        BY <2>5, <4>1, <4>3, <4>4
    <3>11. QED
      BY <3>9, <3>10
  <2>9. QED
    BY <2>7, <2>8
<1> HIDE DEF A
<1>7. N \in A
  BY <1>5, <1>6, SetInduction
<1>8. PICK f : MovesRows(m, s[N].left, f) /\ \A r \in 1 .. N : f[r] = r
  BY <1>7 DEF A
<1>9. QED
  BY <1>2, <1>3, <1>8, RowsFixed

(* So cleanPermutations recognises whatever the row swaps generate. *)
LEMMA GeneratedRedundant ==
  ASSUME NEW m, FullMatrix(m), Filled(m), NEW n \in Nat, NEW p \in Products(Swaps(m), n)
  PROVE  Redundant(m, p)
<1>1. PICK f : MovesRows(m, p, f)
  BY ProductsMoveRows
<1>2. QED
  BY <1>1, RowsMovedWholly, SiftComplete DEF Redundant

-----------------------------------------------------------------------------
(* The permutations that cleanPermutations has examined so far, and the    *)
(* ones that took the places of those it removed, are not redundant.       *)
CleanInv ==
  /\ pc \in {"clean", "cleanColumns"} =>
       \A k \in 1 .. Len(permutations) :
          k > i => ~Redundant(matrices[Len(matrices)], permutations[k])
  /\ pc = "fixLast" =>
       \A k \in 1 .. Len(permutations) :
          ~Redundant(matrices[Len(matrices)], permutations[k])

(* The last permutation, which takes the place of one that is removed, has *)
(* been examined before.                                                   *)
LEMMA CleanCleans == SoundInv /\ CleanInv /\ Clean => CleanInv'
<1> SUFFICES ASSUME SoundInv, CleanInv, Clean PROVE CleanInv'
  OBVIOUS
<1>1. /\ matrices' = matrices /\ pc' = pc /\ i' = i - 1
      /\ pc \in {"clean", "cleanColumns"} /\ i > 0
  BY DEF Clean
<1>2. permutations \in Seq(symmetries) /\ i \in 1 .. Len(permutations)
  BY <1>1 DEF SoundInv, Indices
<1>3. PICK M : M = matrices[Len(matrices)]
  OBVIOUS
<1>4. \A k \in 1 .. Len(permutations) : k > i => ~Redundant(M, permutations[k])
  BY <1>1, <1>3 DEF CleanInv
<1>5. \A k \in 1 .. Len(permutations') : k > i - 1 => ~Redundant(M, permutations'[k])
  <2>1. CASE Redundant(M, permutations[i])
    <3>1. PICK w : w = SwapErase(permutations, i)
      OBVIOUS
    <3>2. permutations' = w
      BY <1>3, <2>1, <3>1 DEF Clean
    <3>3. Len(w) = Len(permutations) - 1
      BY <1>2, <3>1, SwapEraseFacts
    <3>4. \A k \in 1 .. Len(permutations) - 1 :
             w[k] = IF k = i THEN permutations[Len(permutations)] ELSE permutations[k]
      BY <1>2, <3>1, SwapEraseKeeps
    <3>5. ASSUME NEW k \in 1 .. Len(w), k > i - 1 PROVE ~Redundant(M, w[k])
      <4>1. Len(permutations) \in Nat /\ k \in 1 .. Len(permutations) - 1
        BY <1>2, <3>3, <3>5
      <4>2. CASE k = i
        <5>1. w[k] = permutations[Len(permutations)]
          BY <3>4, <4>1, <4>2
        <5>2. Len(permutations) > i /\ Len(permutations) \in 1 .. Len(permutations)
          BY <1>2, <4>1, <4>2
        <5>3. QED
          BY <1>4, <5>1, <5>2
      <4>3. CASE k # i
        <5>1. w[k] = permutations[k]
          BY <3>4, <4>1, <4>3
        <5>2. k > i /\ k \in 1 .. Len(permutations)
          BY <1>2, <3>5, <4>1, <4>3
        <5>3. QED
          BY <1>4, <5>1, <5>2
      <4>4. QED
        BY <4>2, <4>3
    <3>6. QED
      BY <3>2, <3>5
  <2>2. CASE ~Redundant(M, permutations[i])
    <3>1. permutations' = permutations
      BY <1>3, <2>2 DEF Clean
    <3>2. ASSUME NEW k \in 1 .. Len(permutations), k > i - 1
          PROVE  ~Redundant(M, permutations[k])
      <4>1. k = i \/ k > i
        BY <1>2, <3>2
      <4>2. QED
        BY <1>4, <2>2, <4>1
    <3>3. QED
      BY <3>1, <3>2
  <2>3. QED
    BY <2>1, <2>2
<1>6. \A k \in 1 .. Len(permutations') :
         k > i' => ~Redundant(matrices'[Len(matrices')], permutations'[k])
  BY <1>1, <1>3, <1>5
<1>7. pc' # "fixLast"
  BY <1>1
<1>8. QED
  BY <1>6, <1>7 DEF CleanInv, Redundant

(* Cleaning starts with nothing examined and ends with everything.         *)
LEMMA NextCleans == SoundInv /\ CleanInv /\ [Next]_vars => CleanInv'
<1> SUFFICES ASSUME SoundInv, CleanInv, [Next]_vars PROVE CleanInv'
  OBVIOUS
<1>1. permutations \in Seq(symmetries) /\ Len(permutations) \in Nat
  BY DEF SoundInv
<1>2. CASE \/ InitialMatrix \/ NoInitialMatrix \/ Extend \/ Colour \/ Bliss
           \/ TryStabilizer \/ EndStabilizer \/ FixLastRow
  <2>1. pc' \notin {"clean", "cleanColumns", "fixLast"}
    BY <1>2 DEF InitialMatrix, NoInitialMatrix, Extend, Colour, Bliss, TryStabilizer,
                EndStabilizer, FixLastRow
  <2>2. QED
    BY <2>1 DEF CleanInv
<1>3. CASE UNCHANGED vars
  BY <1>3 DEF CleanInv, vars, Redundant
<1>4. ASSUME permutations' = permutations, i' = Len(permutations),
             pc' \in {"clean", "cleanColumns"}
      PROVE  CleanInv'
  <2>1. \A k \in 1 .. Len(permutations') : ~(k > i')
    BY <1>1, <1>4
  <2>2. QED
    BY <1>4, <2>1 DEF CleanInv
<1>5. CASE AddMatrix
  BY <1>4, <1>5 DEF AddMatrix
<1>6. CASE CheckColumns
  <2>1. CASE Len(ColumnMatrix(matrix)) > 2
    BY <1>4, <1>6, <2>1 DEF CheckColumns
  <2>2. CASE ~(Len(ColumnMatrix(matrix)) > 2)
    <3>1. /\ UNCHANGED <<permutations, matrices>> /\ pc' = "fixLast"
          /\ pc = "clean" /\ i = 0
      BY <1>6, <2>2 DEF CheckColumns
    <3>2. \A k \in 1 .. Len(permutations) :
             ~Redundant(matrices[Len(matrices)], permutations[k])
      BY <3>1 DEF CleanInv
    <3>3. QED
      BY <3>1, <3>2 DEF CleanInv, Redundant
  <2>3. QED
    BY <2>1, <2>2
<1>7. QED
  BY <1>2, <1>3, <1>5, <1>6, CleanCleans DEF Next

(* Nothing is cleaned at first.                                            *)
LEMMA InitCleans == Init => CleanInv
BY DEF Init, CleanInv

(* After the loop of cleanPermutations no permutation is left that the     *)
(* swaps of consecutive rows of the new matrix generate: the test of the   *)
(* number of moved literals and the sifting let none of them through, and  *)
(* swapErase lets none escape the loop.                                    *)
THEOREM CleanedCompletely ==
  Spec /\ []InvolutionsFit => []CleanComplete
<1>1. SoundInv /\ FullInv /\ FilledInv /\ KeepInv /\ CleanInv => CleanComplete
  <2> SUFFICES ASSUME SoundInv, FullInv, FilledInv, KeepInv, CleanInv,
                      (pc = "cleanColumns" /\ i = 0) \/ pc = "fixLast"
               PROVE  ToSet(permutations) \cap
                        Products(Swaps(matrices[Len(matrices)]), Cardinality(symmetries)) = {}
    BY DEF CleanComplete
  <2>1. Len(matrices) >= 1
    BY DEF KeepInv
  <2>2. PICK M : M = matrices[Len(matrices)]
    OBVIOUS
  <2>3. FullMatrix(M) /\ Filled(M)
    BY <2>1, <2>2, LastMatrix
  <2>4. \A k \in 1 .. Len(permutations) : ~Redundant(M, permutations[k])
    <3>1. \A k \in 1 .. Len(permutations) : k > 0
      OBVIOUS
    <3>2. QED
      BY <2>2, <3>1 DEF CleanInv
  <2>5. PICK n : n = Cardinality(symmetries)
    OBVIOUS
  <2>6. n \in Nat
    <3>1. symmetries \subseteq LitPerms /\ symmetries \in SUBSET [Lits -> Lits]
      BY DEF SoundInv, IsGroup, LitPerms
    <3>2. QED
      BY <2>5, <3>1, LiteralMapsFinite, FS_Subset, FS_CardinalityType
  <2>7. ASSUME NEW p \in ToSet(permutations), p \in Products(Swaps(M), n) PROVE FALSE
    <3>1. permutations \in Seq(symmetries)
      BY DEF SoundInv
    <3>2. PICK k \in 1 .. Len(permutations) : p = permutations[k]
      BY <3>1, ToSetPlaces
    <3>3. Redundant(M, p)
      BY <2>3, <2>6, <2>7, GeneratedRedundant
    <3>4. QED
      BY <2>4, <3>2, <3>3
  <2>8. QED
    BY <2>2, <2>5, <2>7
<1>2. QED
  BY InitSound, NextSound, InitFull, NextFull, InitFilled, NextFilled, InitKeeps,
     NextKeeps, InitCleans, NextCleans, <1>1, PTL DEF Spec

-----------------------------------------------------------------------------
(* What break_symm relies on when it breaks the matrices of a subgroup:    *)
(* the rows hold a literal together with its negation, and exchanging two  *)
(* of them commutes with negation.                                         *)
RowsHandedOver ==
  \A m \in ToSet(matrices) : AllClosed(m) /\ Swaps(m) \subseteq LitPerms

(* The first half, place by place. *)
ClosedInv == \A n \in 1 .. Len(matrices) : AllClosed(matrices[n])

(* One more matrix is finished. *)
LEMMA ClosedAdded ==
  ASSUME FullInv, ClosedInv, NEW y, FullMatrix(y), AllClosed(y),
         matrices' = Append(matrices, y)
  PROVE  ClosedInv'
<1>1. PICK S : S = Seq(Seq(Lits))
  OBVIOUS
<1>2. matrices \in Seq(S) /\ y \in S
  BY <1>1 DEF FullInv, FullMatrix
<1>3. PICK w : w = matrices'
  OBVIOUS
<1>4. /\ Len(w) = Len(matrices) + 1 /\ w[Len(matrices) + 1] = y
      /\ \A n \in 1 .. Len(matrices) : w[n] = matrices[n]
  BY <1>2, <1>3, OneAppended
<1>5. \A n \in 1 .. Len(w) : n \in 1 .. Len(matrices) \/ n = Len(matrices) + 1
  <2>1. Len(matrices) \in Nat
    BY <1>2
  <2>2. QED
    BY <1>4, <2>1
<1>6. \A n \in 1 .. Len(w) : AllClosed(w[n])
  BY <1>4, <1>5 DEF ClosedInv
<1>7. QED
  BY <1>3, <1>6 DEF ClosedInv, AllClosed, NegClosedRow

(* A row under construction holds the negations of its literals; in a      *)
(* column the negation follows the literal.                                *)
LEMMA NextClosed ==
  SoundInv /\ FullInv /\ ClosedInv /\ [Next]_vars => ClosedInv'
<1> SUFFICES ASSUME SoundInv, FullInv, ClosedInv, [Next]_vars PROVE ClosedInv'
  OBVIOUS
<1>1. UNCHANGED matrices => ClosedInv'
  BY DEF ClosedInv, AllClosed, NegClosedRow
<1>2. InitialMatrix \/ NoInitialMatrix \/ Extend \/ Colour \/ Bliss \/ TryStabilizer
        \/ EndStabilizer \/ Clean \/ FixLastRow \/ UNCHANGED vars
        => UNCHANGED matrices
  BY DEF InitialMatrix, NoInitialMatrix, Extend, Colour, Bliss, TryStabilizer,
         EndStabilizer, Clean, FixLastRow, vars
<1>3. CASE AddMatrix
  <2>1. IsMatrix(matrix, symmetries) /\ RowsApart(matrix) /\ Len(matrix) >= 3
    BY <1>3 DEF SoundInv, Indices, FullInv, AddMatrix
  <2>2. FullMatrix(matrix) /\ AllClosed(matrix)
    BY <2>1 DEF IsMatrix, FullMatrix, AllClosed
  <2>3. QED
    BY <1>3, <2>2, ClosedAdded DEF AddMatrix
<1>4. CASE CheckColumns
  <2>1. Len(matrix) >= 3 /\ IsMatrix(matrix, symmetries) /\ IsGroup(symmetries)
        /\ RowsApart(matrix)
    BY <1>4 DEF SoundInv, Indices, CheckColumns, FullInv
  <2>2. Len(matrix) >= 1
    BY <2>1 DEF IsMatrix
  <2>3. CASE Len(ColumnMatrix(matrix)) > 2
    <3>1. FullMatrix(ColumnMatrix(matrix)) /\ AllClosed(ColumnMatrix(matrix))
      BY <2>1, <2>2, <2>3, ColumnMatrixFull
    <3>2. matrices' = Append(matrices, ColumnMatrix(matrix))
      BY <1>4, <2>3 DEF CheckColumns
    <3>3. QED
      BY <3>1, <3>2, ClosedAdded
  <2>4. CASE ~(Len(ColumnMatrix(matrix)) > 2)
    BY <1>1, <1>4, <2>4 DEF CheckColumns
  <2>5. QED
    BY <2>3, <2>4
<1>5. QED
  BY <1>1, <1>2, <1>3, <1>4 DEF Next

(* There is no matrix at first. *)
LEMMA InitClosed == Init => ClosedInv
BY DEF Init, ClosedInv

(* addMatrices leaves behind matrices of the kind that break_symm assumes  *)
(* (GroupListsAssumption in GroupBreaking).                                *)
THEOREM MatricesHandedOver ==
  Spec /\ []InvolutionsFit => []RowsHandedOver
<1>1. SoundInv /\ FullInv /\ ClosedInv => RowsHandedOver
  <2> SUFFICES ASSUME SoundInv, FullInv, ClosedInv, NEW m \in ToSet(matrices)
               PROVE  AllClosed(m) /\ Swaps(m) \subseteq LitPerms
    BY DEF RowsHandedOver
  <2>1. FullMatrix(m)
    BY FinishedFull
  <2>2. symmetries \subseteq LitPerms
    BY DEF SoundInv, IsGroup
  <2>3. Swaps(m) \subseteq LitPerms
    BY <2>1, <2>2 DEF FullMatrix, Swaps
  <2>4. PICK S : S = Seq(Seq(Lits))
    OBVIOUS
  <2>5. matrices \in Seq(S)
    BY <2>4 DEF FullInv
  <2>6. PICK n \in 1 .. Len(matrices) : m = matrices[n]
    BY <2>5, ToSetPlaces
  <2>7. QED
    BY <2>3, <2>6 DEF ClosedInv
<1>2. QED
  BY InitSound, NextSound, InitFull, NextFull, InitClosed, NextClosed, <1>1, PTL DEF Spec
=============================================================================
