------------------------- MODULE AssignmentsProofs -------------------------
(***************************************************************************)
(* Facts that the proofs about the components share.                       *)
(*                                                                         *)
(* The first part is induction for the loops and closures of the model     *)
(* that are written as recursive functions.  The induction theorems of the *)
(* library take the property as an operator; here it is a set of numbers   *)
(* (SetInduction).  A recursive function is a CHOOSE: before its equation  *)
(* can be used, a function that satisfies it must be shown to exist        *)
(* (IteratesExist).                                                        *)
(*                                                                         *)
(* The second part is about literals, cycles and clauses.  The fact with   *)
(* content is LastOfCycleEqual: when an assignment gives all literals of a *)
(* cycle but one the value of their image, it does so for the last one     *)
(* too.  That is why addSym needs no constraint for the last literal of a  *)
(* cycle.                                                                  *)
(*                                                                         *)
(* The last part is about powers and products of permutations: the rounds  *)
(* in which Products multiplies the generators reach a set that is closed  *)
(* under them (ProductsClosed), the smallest one that holds the identity   *)
(* (ProductsLeast).                                                        *)
(***************************************************************************)
EXTENDS Assignments, FiniteSetTheorems, WellFoundedInduction,
        NaturalsInduction, TLAPS

(* Every nonempty set of natural numbers has a least element. *)
LEMMA LeastElement ==
  ASSUME NEW T, T \subseteq Nat, T # {}
  PROVE  \E x \in T : \A y \in T : x <= y
<1>1. PICK x \in T : \A y \in T : ~ (<<y, x>> \in OpToRel(<, Nat))
  BY NatLessThanWellFounded, WFMin, Zenon
<1>2. \A y \in T : ~(y < x)
  BY <1>1, Zenon DEF OpToRel
<1>3. x \in Nat /\ \A y \in T : y \in Nat
  OBVIOUS
<1>4. \A y \in T : x <= y
  BY <1>2, <1>3
<1>5. QED
  BY <1>4

(* A set that holds 0, and n + 1 with n, holds all natural numbers. *)
LEMMA SetInduction ==
  ASSUME NEW S, 0 \in S, \A n \in Nat : n \in S => n + 1 \in S
  PROVE  Nat \subseteq S
<1> DEFINE T == {n \in Nat : n \notin S}
<1> SUFFICES ASSUME T # {} PROVE FALSE
  OBVIOUS
<1>1. PICK x \in T : \A y \in T : x <= y
  BY LeastElement
<1>2. x # 0 /\ x - 1 \in Nat
  BY <1>1
<1>3. x - 1 \in S
  BY <1>1, <1>2
<1>4. QED
  BY <1>1, <1>2, <1>3

(* The sequence of the values x, G[1][x], G[2][G[1][x]], ... *)
Iterates(x, G) ==
  LET f[n \in Nat] == IF n = 0 THEN x ELSE G[n][f[n - 1]]
  IN  f

(* Every step takes members of S to members of S. *)
StepsIn(G, S) == G \in [Nat \ {0} -> [S -> S]]

(* The function exists and has the values that its definition says: it is  *)
(* put together from its restrictions to 0 .. m.                           *)
LEMMA IteratesExist ==
  ASSUME NEW S, NEW x, x \in S, NEW G, StepsIn(G, S)
  PROVE  /\ Iterates(x, G) \in [Nat -> S]
         /\ Iterates(x, G)[0] = x
         /\ \A n \in Nat : Iterates(x, G)[n + 1] = G[n + 1][Iterates(x, G)[n]]
<1> USE DEF StepsIn
<1> DEFINE Upto(f, m) == /\ f \in [0 .. m -> S]
                         /\ f[0] = x
                         /\ \A n \in 0 .. m - 1 : f[n + 1] = G[n + 1][f[n]]
           A == {m \in Nat : \E f \in [0 .. m -> S] : Upto(f, m)}
<1>1. Nat \subseteq A
  <2>1. 0 \in A
    <3>1. Upto([n \in 0 .. 0 |-> x], 0)
      OBVIOUS
    <3>2. QED
      BY <3>1
  <2>2. ASSUME NEW m \in Nat, m \in A PROVE m + 1 \in A
    <3>1. PICK f \in [0 .. m -> S] : Upto(f, m)
      BY <2>2
    <3> DEFINE h == [n \in 0 .. m + 1 |-> IF n = m + 1 THEN G[m + 1][f[m]] ELSE f[n]]
    <3>2. h \in [0 .. m + 1 -> S]
      OBVIOUS
    <3>3. h[0] = x
      BY <3>1
    <3>4. \A n \in 0 .. m : h[n + 1] = G[n + 1][h[n]]
      BY <3>1
    <3>5. Upto(h, m + 1)
      <4>1. 0 .. (m + 1) - 1 = 0 .. m
        OBVIOUS
      <4> HIDE DEF h
      <4>2. QED
        BY <3>2, <3>3, <3>4, <4>1
    <3> HIDE DEF Upto, h
    <3>6. QED
      BY <3>2, <3>5
  <2>3. QED
    BY <2>1, <2>2, SetInduction
<1>2. \A m \in Nat : \A f, h : Upto(f, m) /\ Upto(h, m) => f[m] = h[m]
  <2> DEFINE B == {m \in Nat : \A f, h : Upto(f, m) /\ Upto(h, m) => f[m] = h[m]}
  <2>1. 0 \in B
    OBVIOUS
  <2>2. ASSUME NEW m \in Nat, m \in B PROVE m + 1 \in B
    <3>1. SUFFICES ASSUME NEW f, NEW h, Upto(f, m + 1), Upto(h, m + 1)
                   PROVE  f[m + 1] = h[m + 1]
      OBVIOUS
    <3> DEFINE cut(e) == [n \in 0 .. m |-> e[n]]
    <3>2. Upto(cut(f), m) /\ Upto(cut(h), m)
      BY <3>1
    <3>3. cut(f)[m] = cut(h)[m]
      <4> HIDE DEF Upto, cut
      <4>1. QED
        BY <2>2, <3>2
    <3>4. f[m] = h[m]
      BY <3>3
    <3>5. QED
      BY <3>1, <3>4
  <2> HIDE DEF B
  <2>3. Nat \subseteq B
    BY <2>1, <2>2, SetInduction
  <2>4. QED
    BY <2>3 DEF B
<1>3. PICK F : F = [m \in Nat |-> CHOOSE f \in [0 .. m -> S] : Upto(f, m)]
  OBVIOUS
<1>4. \A m \in Nat : F[m] \in [0 .. m -> S] /\ Upto(F[m], m)
  BY <1>1, <1>3
<1> DEFINE f == [m \in Nat |-> F[m][m]]
<1>5. /\ f \in [Nat -> S]
      /\ f[0] = x
      /\ \A n \in Nat : f[n + 1] = G[n + 1][f[n]]
  <2>1. f \in [Nat -> S] /\ f[0] = x
    BY <1>4
  <2>2. ASSUME NEW n \in Nat PROVE f[n + 1] = G[n + 1][f[n]]
    <3>1. Upto(F[n + 1], n + 1) /\ Upto(F[n], n)
      BY <1>4
    <3> DEFINE c == [k \in 0 .. n |-> F[n + 1][k]]
    <3>2. Upto(c, n)
      BY <3>1
    <3>3. c[n] = F[n][n]
      <4> HIDE DEF Upto, c
      <4>1. QED
        BY <1>2, <3>1, <3>2
    <3>4. F[n + 1][n + 1] = G[n + 1][F[n][n]]
      BY <3>1, <3>3
    <3>5. QED
      BY <3>4
  <2>3. QED
    BY <2>1, <2>2
<1> HIDE DEF f
<1>6. f = [n \in Nat |-> IF n = 0 THEN x ELSE G[n][f[n - 1]]]
  <2>1. \A n \in Nat : n # 0 => n - 1 \in Nat /\ (n - 1) + 1 = n
    OBVIOUS
  <2>2. \A n \in Nat : f[n] = IF n = 0 THEN x ELSE G[n][f[n - 1]]
    BY <1>5, <2>1
  <2>3. QED
    BY <1>5, <2>2
<1>7. PICK g : g = Iterates(x, G)
  OBVIOUS
<1>8. g = [n \in Nat |-> IF n = 0 THEN x ELSE G[n][g[n - 1]]]
  BY <1>6, <1>7, Zenon DEF Iterates
<1>9. g[0] = x /\ \A n \in Nat : g[n + 1] = G[n + 1][g[n]]
  BY <1>8
<1>10. g \in [Nat -> S]
  <2> DEFINE C == {n \in Nat : g[n] \in S}
  <2>1. 0 \in C
    BY <1>9
  <2>2. ASSUME NEW n \in Nat, n \in C PROVE n + 1 \in C
    BY <1>9, <2>2
  <2> HIDE DEF C
  <2>3. Nat \subseteq C
    BY <2>1, <2>2, SetInduction
  <2>4. QED
    BY <1>8, <2>3 DEF C
<1>11. QED
  BY <1>7, <1>9, <1>10

-----------------------------------------------------------------------------
(* H takes members of S to members of S; f is the chain x, H[x], ...       *)
Maps(H, S) == H \in [S -> S]

Chain(f, x, H, S) ==
  f \in [Nat -> S] /\ f[0] = x /\ \A n \in Nat : f[n + 1] = H[f[n]]

(* H adds members of U to a set. *)
GrowsIn(H, U) == Maps(H, SUBSET U) /\ \A Y \in SUBSET U : Y \subseteq H[Y]

(* C is the least set that holds X and that H does not enlarge. *)
IsClosure(C, X, H, U) ==
  /\ C \in SUBSET U /\ X \subseteq C /\ H[C] = C
  /\ \A E \in SUBSET U :
       X \subseteq E /\ (\A Y \in SUBSET E : H[Y] \subseteq E) => C \subseteq E

(* Every member of S starts a chain. *)
LEMMA ChainExists ==
  ASSUME NEW S, NEW H, Maps(H, S), NEW x, x \in S
  PROVE  \E f : Chain(f, x, H, S)
<1>1. PICK G : StepsIn(G, S) /\ \A n \in Nat \ {0} : G[n] = H
  <2>1. PICK G : G = [n \in Nat \ {0} |-> H]
    OBVIOUS
  <2>2. StepsIn(G, S)
    BY <2>1 DEF StepsIn, Maps
  <2>3. QED
    BY <2>1, <2>2
<1>2. \A n \in Nat : G[n + 1] = H
  BY <1>1
<1> DEFINE f == Iterates(x, G)
<1>3. f \in [Nat -> S] /\ f[0] = x
  BY <1>1, IteratesExist
<1>4. \A n \in Nat : f[n + 1] = G[n + 1][f[n]]
  BY <1>1, IteratesExist
<1> HIDE DEF f
<1>5. Chain(f, x, H, S)
  BY <1>2, <1>3, <1>4 DEF Chain
<1>6. QED
  BY <1>5

(* A larger number is at least by one larger. *)
LEMMA NextNumber ==
  ASSUME NEW n \in Nat, NEW a \in Nat, NEW b \in Nat, n <= a, a <= b, b # a
  PROVE  n + 1 <= b
OBVIOUS

(* A set grown step by step within a finite one is complete after as many  *)
(* steps as that one has elements: every step adds one or is the last.     *)
LEMMA GrowthEnds ==
  ASSUME NEW U, IsFiniteSet(U), NEW H, GrowsIn(H, U),
         NEW X, NEW f, Chain(f, X, H, SUBSET U),
         NEW N \in Nat, Cardinality(U) <= N
  PROVE  H[f[N]] = f[N]
<1> DEFINE A == {n \in Nat : H[f[n]] = f[n] \/ n <= Cardinality(f[n])}
<1>1. \A Y \in SUBSET U : /\ IsFiniteSet(Y)
                          /\ Cardinality(Y) \in Nat
                          /\ Cardinality(Y) <= Cardinality(U)
                          /\ Cardinality(Y) = Cardinality(U) => Y = U
  BY FS_Subset, FS_CardinalityType
<1>2. \A n \in Nat : f[n] \in SUBSET U /\ f[n + 1] = H[f[n]]
  BY DEF Chain
<1>3. \A Y \in SUBSET U : Y \subseteq H[Y] /\ H[Y] \in SUBSET U
  BY DEF GrowsIn, Maps
<1>4. 0 \in A
  <2>1. Cardinality(f[0]) \in Nat
    BY <1>1, <1>2
  <2>2. QED
    BY <2>1
<1>5. ASSUME NEW n \in Nat, n \in A PROVE n + 1 \in A
  <2>1. CASE H[f[n]] = f[n]
    BY <1>2, <2>1
  <2>2. CASE H[f[n]] # f[n]
    <3>1. n <= Cardinality(f[n])
      BY <1>5, <2>2
    <3>2. f[n] \in SUBSET f[n + 1] /\ f[n] # f[n + 1] /\ IsFiniteSet(f[n + 1])
      BY <1>1, <1>2, <1>3, <2>2
    <3>3. /\ Cardinality(f[n]) <= Cardinality(f[n + 1])
          /\ Cardinality(f[n + 1]) = Cardinality(f[n]) => f[n + 1] = f[n]
      BY <3>2, FS_Subset
    <3>4. Cardinality(f[n]) \in Nat /\ Cardinality(f[n + 1]) \in Nat
      BY <1>1, <1>2
    <3>5. Cardinality(f[n + 1]) # Cardinality(f[n])
      BY <3>2, <3>3, Zenon
    <3>6. n + 1 <= Cardinality(f[n + 1])
      BY <3>1, <3>3, <3>4, <3>5, NextNumber, Zenon
    <3>7. QED
      BY <3>6
  <2>3. QED
    BY <2>1, <2>2
<1> HIDE DEF A
<1>6. N \in A
  BY <1>4, <1>5, SetInduction
<1>7. H[f[N]] = f[N] \/ N <= Cardinality(f[N])
  BY <1>6 DEF A
<1>8. f[N] \in SUBSET U /\ Cardinality(U) \in Nat
  BY <1>2, FS_CardinalityType
<1>9. N <= Cardinality(f[N]) => f[N] = U
  BY <1>1, <1>8
<1>10. U \subseteq H[U] /\ H[U] \in SUBSET U
  BY <1>3
<1>11. QED
  BY <1>7, <1>9, <1>10

(* What it is complete with is the closure of the first set. *)
LEMMA ClosureReached ==
  ASSUME NEW U, IsFiniteSet(U), NEW H, GrowsIn(H, U),
         NEW X, NEW f, Chain(f, X, H, SUBSET U),
         NEW N \in Nat, Cardinality(U) <= N
  PROVE  IsClosure(f[N], X, H, U)
<1>1. H[f[N]] = f[N]
  BY GrowthEnds
<1>2. /\ f[0] = X
      /\ \A n \in Nat : f[n] \in SUBSET U /\ f[n + 1] = H[f[n]]
  BY DEF Chain
<1>3. \A Y \in SUBSET U : Y \subseteq H[Y]
  BY DEF GrowsIn
<1>4. X \subseteq f[N]
  <2> DEFINE A == {n \in Nat : X \subseteq f[n]}
  <2>1. 0 \in A /\ \A n \in Nat : n \in A => n + 1 \in A
    BY <1>2, <1>3
  <2> HIDE DEF A
  <2>2. N \in A
    BY <2>1, SetInduction
  <2>3. QED
    BY <2>2 DEF A
<1>5. ASSUME NEW E \in SUBSET U, X \subseteq E,
             \A Y \in SUBSET E : H[Y] \subseteq E
      PROVE  f[N] \subseteq E
  <2> DEFINE A == {n \in Nat : f[n] \subseteq E}
  <2>1. 0 \in A /\ \A n \in Nat : n \in A => n + 1 \in A
    BY <1>2, <1>5
  <2> HIDE DEF A
  <2>2. N \in A
    BY <2>1, SetInduction
  <2>3. QED
    BY <2>2 DEF A
<1>6. QED
  BY <1>1, <1>2, <1>4, <1>5 DEF IsClosure

-----------------------------------------------------------------------------
(* f is a run of the loop whose turn k, up to n, takes y to G[k][y]. *)
LoopRun(f, x, G, n, S) ==
  f \in [0 .. n -> S] /\ f[0] = x /\ \A k \in 1 .. n : f[k] = G[k][f[k - 1]]

(* A loop over 1 .. n has a run from everywhere. *)
LEMMA LoopRunExists ==
  ASSUME NEW S, NEW x, x \in S, NEW n \in Nat,
         NEW G, \A k \in 1 .. n : Maps(G[k], S)
  PROVE  \E f : LoopRun(f, x, G, n, S)
<1>1. PICK E : /\ StepsIn(E, S) 
               /\ \A k \in 1 .. n : E[k] = G[k]
  <2>1. PICK E : E = [k \in Nat \ {0} |-> IF k <= n THEN G[k] ELSE [y \in S |-> y]]
    OBVIOUS
  <2>2. \A k \in Nat \ {0} : k <= n => k \in 1 .. n
    OBVIOUS
  <2>3. \A k \in Nat \ {0} : E[k] \in [S -> S]
    BY <2>1, <2>2 DEF Maps
  <2>4. StepsIn(E, S)
    BY <2>1, <2>3 DEF StepsIn
  <2>5. \A k \in 1 .. n : E[k] = G[k]
    BY <2>1
  <2>6. QED
    BY <2>4, <2>5
<1> DEFINE h == Iterates(x, E)
<1>2. h \in [Nat -> S] /\ h[0] = x
  BY <1>1, IteratesExist
<1>3. \A k \in Nat : h[k + 1] = E[k + 1][h[k]]
  BY <1>1, IteratesExist
<1> HIDE DEF h
<1>4. PICK f : f = [k \in 0 .. n |-> h[k]]
  OBVIOUS
<1>5. f \in [0 .. n -> S] /\ f[0] = x
  BY <1>2, <1>4
<1>6. ASSUME NEW k \in 1 .. n PROVE f[k] = G[k][f[k - 1]]
  <2>1. k - 1 \in Nat /\ k - 1 \in 0 .. n /\ k \in 0 .. n /\ (k - 1) + 1 = k
    OBVIOUS
  <2>2. h[k] = E[k][h[k - 1]]
    BY <1>3, <2>1
  <2>3. f[k] = h[k] /\ f[k - 1] = h[k - 1]
    BY <1>4, <2>1
  <2>4. QED
    BY <1>1, <2>2, <2>3
<1>7. QED
  BY <1>5, <1>6 DEF LoopRun

(* f lists n elements of S, no two of them equal. *)
Distinct(f, n, S) ==
  f \in [1 .. n -> S] /\ \A j, k \in 1 .. n : j # k => f[j] # f[k]

(* As many distinct elements as a finite set has are all of it. *)
LEMMA DistinctOnto ==
  ASSUME NEW S, IsFiniteSet(S), NEW f, Distinct(f, Cardinality(S), S)
  PROVE  \A x \in S : \E k \in 1 .. Cardinality(S) : f[k] = x
<1> DEFINE n == Cardinality(S)
<1>1. n \in Nat
  BY FS_CardinalityType
<1>2. IsFiniteSet(1 .. n) /\ Cardinality(1 .. n) = n
  BY <1>1, FS_Interval
<1> HIDE DEF n
<1>3. f \in Injection(1 .. n, S)
  BY DEF Distinct, Injection, IsInjective, n
<1>4. f \in Surjection(1 .. n, S)
  BY <1>2, <1>3, FS_Injection DEF n
<1>5. QED
  BY <1>4 DEF Surjection, n

-----------------------------------------------------------------------------
(* Negation is an involution that keeps the variable. *)
LEMMA NegFacts ==
  ASSUME NEW l \in Nat
  PROVE  /\ Neg(l) \in Nat /\ Neg(Neg(l)) = l /\ Neg(l) # l
         /\ VarOf(Neg(l)) = VarOf(l) /\ VarOf(l) \in Nat
         /\ Sign(Neg(l)) <=> ~Sign(l)
BY SMT DEF Neg, VarOf, Sign

(* Two literals of one variable are equal or opposite. *)
LEMMA SameVar ==
  ASSUME NEW l \in Nat, NEW m \in Nat, VarOf(l) = VarOf(m)
  PROVE  l = m \/ l = Neg(m)
BY SMT DEF VarOf, Neg

(* The literals and variables of the formula are closed under each other. *)
LEMMA LitFacts ==
  ASSUME NEW l \in Lits
  PROVE  l \in Nat /\ Neg(l) \in Lits /\ VarOf(l) \in Vars
BY NVarsAssumption, SMT DEF Lits, Vars, Neg, VarOf

(* A literal is true exactly when its negation is not. *)
LEMMA TrueNeg ==
  ASSUME NEW b, NEW l \in Nat
  PROVE  True(b, Neg(l)) <=> ~True(b, l)
BY NegFacts DEF True

(* Whether a literal is true depends on its variable only. *)
LEMMA TrueLocal ==
  ASSUME NEW a, NEW b, NEW l, VarOf(l) \in a <=> VarOf(l) \in b
  PROVE  True(a, l) <=> True(b, l)
BY DEF True

-----------------------------------------------------------------------------
(* A set of literals that no image leaves is not entered either: the       *)
(* permutation is injective and the set is finite.                         *)
LEMMA ClosedComplement ==
  ASSUME NEW p \in LitPerms, NEW C \in SUBSET Lits, \A x \in C : p[x] \in C
  PROVE  \A x \in Lits \ C : p[x] \in Lits \ C
<1> DEFINE f == [x \in C |-> p[x]]
<1>1. p \in [Lits -> Lits] /\ \A l, m \in Lits : p[l] = p[m] => l = m
  BY DEF LitPerms
<1>2. IsFiniteSet(C)
  <2>1. IsFiniteSet(Lits)
    BY FS_Interval, NVarsAssumption DEF Lits
  <2>2. QED
    BY <2>1, FS_Subset
<1>3. f \in Injection(C, C)
  BY <1>1 DEF Injection, IsInjective
<1>4. f \in Surjection(C, C)
  BY <1>2, <1>3, FS_Injection
<1>5. SUFFICES ASSUME NEW x \in Lits \ C, p[x] \in C PROVE FALSE
  BY <1>1
<1>6. PICK y \in C : f[y] = p[x]
  BY <1>4, <1>5 DEF Surjection
<1>7. QED
  BY <1>1, <1>5, <1>6

(* A cycle holds the literal it starts from and is not left. *)
LEMMA CycleFacts ==
  ASSUME NEW p \in LitPerms, NEW l \in Lits
  PROVE  /\ l \in Cycle(p, l) /\ Cycle(p, l) \subseteq Lits
         /\ \A x \in Cycle(p, l) : p[x] \in Cycle(p, l)
<1>1. p \in [Lits -> Lits]
  BY DEF LitPerms
<1>2. QED
  BY <1>1 DEF Cycle

(* A closed set that holds l holds the cycle of l. *)
LEMMA CycleLeast ==
  ASSUME NEW p, NEW l, NEW C \in SUBSET Lits, l \in C,
         \A x \in C : p[x] \in C
  PROVE  Cycle(p, l) \subseteq C
BY DEF Cycle

(* The cycle of a member lies in the cycle. *)
LEMMA CycleTransitive ==
  ASSUME NEW p \in LitPerms, NEW l \in Lits, NEW x \in Cycle(p, l)
  PROVE  Cycle(p, x) \subseteq Cycle(p, l)
BY CycleFacts, CycleLeast

(* Members of a cycle have each other in their cycles. *)
LEMMA CycleSymmetric ==
  ASSUME NEW p \in LitPerms, NEW l \in Lits, NEW x \in Cycle(p, l)
  PROVE  l \in Cycle(p, x)
<1>1. x \in Lits
  BY CycleFacts
<1> DEFINE D == Lits \ Cycle(p, x)
<1>2. /\ Cycle(p, x) \subseteq Lits /\ x \in Cycle(p, x)
      /\ \A y \in Cycle(p, x) : p[y] \in Cycle(p, x)
  BY <1>1, CycleFacts
<1>3. \A y \in D : p[y] \in D
  BY <1>2, ClosedComplement
<1>4. l \in D => Cycle(p, l) \subseteq D
  BY <1>3, CycleLeast
<1>5. QED
  BY <1>2, <1>4

(* The negations of a cycle are the cycle of the negation. *)
LEMMA CycleNeg ==
  ASSUME NEW p \in LitPerms, NEW l \in Lits, NEW x \in Cycle(p, l)
  PROVE  Neg(x) \in Cycle(p, Neg(l))
<1> DEFINE D == {y \in Lits : Neg(y) \in Cycle(p, Neg(l))}
<1>1. p \in [Lits -> Lits] /\ \A y \in Lits : p[Neg(y)] = Neg(p[y])
  BY DEF LitPerms
<1>2. Neg(l) \in Lits
  BY LitFacts
<1>3. /\ Neg(l) \in Cycle(p, Neg(l))
      /\ \A y \in Cycle(p, Neg(l)) : p[y] \in Cycle(p, Neg(l))
  BY <1>2, CycleFacts
<1>4. \A y \in D : p[y] \in D
  BY <1>1, <1>3
<1>5. l \in D
  BY <1>3
<1>6. QED
  BY <1>4, <1>5, CycleLeast

(* If every literal of a cycle but l has the value of its image, so has l. *)
LEMMA LastOfCycleEqual ==
  ASSUME NEW p \in LitPerms, NEW l \in Lits, NEW a,
         \A x \in Cycle(p, l) \ {l} : True(a, x) <=> True(a, p[x])
  PROVE  True(a, l) <=> True(a, p[l])
<1> DEFINE D == {x \in Cycle(p, l) : True(a, x) <=> True(a, p[l])}
<1>1. SUFFICES ASSUME ~(True(a, l) <=> True(a, p[l])) PROVE FALSE
  OBVIOUS
<1>2. /\ Cycle(p, l) \subseteq Lits /\ l \in Cycle(p, l)
      /\ \A x \in Cycle(p, l) : p[x] \in Cycle(p, l)
  BY CycleFacts
<1>3. p[l] \in D /\ l \notin D /\ D \in SUBSET Lits
  BY <1>1, <1>2
<1>4. \A x \in D : p[x] \in D
  BY <1>2, <1>3
<1>5. Cycle(p, p[l]) \subseteq D
  BY <1>3, <1>4, CycleLeast
<1>6. l \in Cycle(p, p[l])
  BY <1>2, CycleSymmetric
<1>7. QED
  BY <1>3, <1>5, <1>6

-----------------------------------------------------------------------------
(* What a clause of two, three or four literals says. *)
LEMMA Satisfies2 ==
  ASSUME NEW b, NEW w, NEW x
  PROVE  Satisfies(b, <<w, x>>) <=> True(b, w) \/ True(b, x)
BY 1 .. 2 = {1, 2} DEF Satisfies

(* The same for three literals. *)
LEMMA Satisfies3 ==
  ASSUME NEW b, NEW w, NEW x, NEW y
  PROVE  Satisfies(b, <<w, x, y>>) <=> True(b, w) \/ True(b, x) \/ True(b, y)
BY 1 .. 3 = {1, 2, 3} DEF Satisfies

(* The same for four literals. *)
LEMMA Satisfies4 ==
  ASSUME NEW b, NEW w, NEW x, NEW y, NEW z
  PROVE  Satisfies(b, <<w, x, y, z>>) <=>
           True(b, w) \/ True(b, x) \/ True(b, y) \/ True(b, z)
BY 1 .. 4 = {1, 2, 3, 4} DEF Satisfies

(* Assignments that agree on the variables below n satisfy the same        *)
(* clauses over them.                                                      *)
LEMMA SatisfiesLocal ==
  ASSUME NEW n \in Nat, NEW cls, NEW a, NEW b,
         \A c \in cls : \A k \in 1 .. Len(c) : c[k] \in 0 .. 2 * n - 1,
         \A v \in 0 .. n - 1 : v \in a <=> v \in b
  PROVE  SatisfiesAll(a, cls) <=> SatisfiesAll(b, cls)
<1>1. \A l \in 0 .. 2 * n - 1 : VarOf(l) \in 0 .. n - 1
  BY SMT DEF VarOf
<1>2. \A l \in 0 .. 2 * n - 1 : True(a, l) <=> True(b, l)
  BY <1>1, TrueLocal
<1>3. QED
  BY <1>2 DEF SatisfiesAll, Satisfies

(* One more position of the order: its literal implies its image if all    *)
(* earlier ones are equal to theirs.                                       *)
EqUpTo(a, p, order, n) ==
  \A k \in 1 .. n : True(a, order[k]) <=> True(a, p[order[k]])

(* One position more: either decided before, or it must not decrease. *)
LEMMA LexStep ==
  ASSUME NEW a, NEW p, NEW order, NEW n \in Nat
  PROVE  LexLeq(a, p, order, n + 1) <=>
           /\ LexLeq(a, p, order, n)
           /\ EqUpTo(a, p, order, n) =>
                (True(a, order[n + 1]) => True(a, p[order[n + 1]]))
<1>1. 1 .. n + 1 = (1 .. n) \cup {n + 1} /\ n + 1 - 1 = n
  OBVIOUS
<1>2. QED
  BY <1>1 DEF LexLeq, EqUpTo

(* Equality up to one position more. *)
LEMMA EqStep ==
  ASSUME NEW a, NEW p, NEW order, NEW n \in Nat
  PROVE  EqUpTo(a, p, order, n + 1) <=>
           /\ EqUpTo(a, p, order, n)
           /\ True(a, order[n + 1]) <=> True(a, p[order[n + 1]])
<1>1. 1 .. n + 1 = (1 .. n) \cup {n + 1}
  OBVIOUS
<1>2. QED
  BY <1>1 DEF EqUpTo

(* Once a position differs, later ones do not matter. *)
LEMMA LexDecided ==
  ASSUME NEW a, NEW p, NEW order, NEW n \in Nat, NEW m \in Nat, n <= m,
         ~EqUpTo(a, p, order, n)
  PROVE  LexLeq(a, p, order, m) <=> LexLeq(a, p, order, n)
<1>1. PICK k \in 1 .. n : ~(True(a, order[k]) <=> True(a, p[order[k]]))
  BY DEF EqUpTo
<1>2. \A j \in 1 .. m : j <= n \/ k \in 1 .. j - 1
  BY <1>1
<1>3. \A j \in 1 .. n : j \in 1 .. m
  OBVIOUS
<1>4. QED
  BY <1>1, <1>2, <1>3 DEF LexLeq
-----------------------------------------------------------------------------
(* Following images: the recursive definition has the values it says.      *)
LEMMA WalkFacts ==
  ASSUME NEW p \in LitPerms, NEW l \in Lits
  PROVE  Chain(Walk(p, l), l, p, Lits)
<1>1. p \in [Lits -> Lits]
  BY DEF LitPerms
<1>2. PICK f : Chain(f, l, p, Lits)
  BY <1>1, ChainExists DEF Maps
<1>3. \A n \in Nat : n # 0 => n - 1 \in Nat /\ (n - 1) + 1 = n
  OBVIOUS
<1>4. f = [n \in Nat |-> IF n = 0 THEN l ELSE p[f[n - 1]]]
  BY <1>2, <1>3 DEF Chain
<1>5. PICK w : /\ w = [n \in Nat |-> IF n = 0 THEN l ELSE p[w[n - 1]]]
               /\ Walk(p, l) = w
  BY <1>4, Zenon DEF Walk
<1>6. \A n \in Nat : w[n] = IF n = 0 THEN l ELSE p[w[n - 1]]
  BY <1>5, Zenon
<1>7. w[0] = l /\ \A n \in Nat : w[n + 1] = p[w[n]]
  <2>1. \A n \in Nat : n + 1 \in Nat /\ n + 1 # 0 /\ (n + 1) - 1 = n
    OBVIOUS
  <2>2. QED
    BY <1>6, <2>1
<1> DEFINE A == {n \in Nat : w[n] \in Lits}
<1>8. 0 \in A /\ \A n \in Nat : n \in A => n + 1 \in A
  BY <1>1, <1>7
<1> HIDE DEF A
<1>9. \A n \in Nat : w[n] \in Lits
  BY <1>8, SetInduction DEF A
<1>10. w \in [Nat -> Lits]
  BY <1>5, <1>9
<1>11. QED
  BY <1>5, <1>7, <1>10 DEF Chain

(* Equal literals on the way are as far apart as a return to the start.    *)
LEMMA WalkCancel ==
  ASSUME NEW p \in LitPerms, NEW l \in Lits, NEW a \in Nat, NEW b \in Nat,
         a <= b, Walk(p, l)[a] = Walk(p, l)[b]
  PROVE  Walk(p, l)[b - a] = l
<1>1. PICK w : w = Walk(p, l)
  OBVIOUS
<1>2. w \in [Nat -> Lits] /\ w[0] = l /\ \A n \in Nat : w[n + 1] = p[w[n]]
  BY <1>1, WalkFacts DEF Chain
<1>3. \A x, y \in Lits : p[x] = p[y] => x = y
  BY DEF LitPerms
<1> DEFINE Cancels(n) == \A m \in Nat : n <= m /\ w[n] = w[m] => w[m - n] = l
           A == {n \in Nat : Cancels(n)}
<1>4. 0 \in A
  BY <1>2
<1>5. ASSUME NEW n \in Nat, n \in A PROVE n + 1 \in A
  <2>1. SUFFICES ASSUME NEW m \in Nat, n + 1 <= m, w[n + 1] = w[m]
                 PROVE  w[m - (n + 1)] = l
    OBVIOUS
  <2>2. m - 1 \in Nat /\ (m - 1) + 1 = m /\ n <= m - 1
        /\ (m - 1) - n = m - (n + 1)
    BY <2>1
  <2>3. p[w[n]] = p[w[m - 1]] /\ w[n] \in Lits /\ w[m - 1] \in Lits
    BY <1>2, <2>1, <2>2
  <2>4. w[n] = w[m - 1]
    BY <1>3, <2>3
  <2>5. w[(m - 1) - n] = l
    BY <1>5, <2>2, <2>4
  <2>6. QED
    BY <2>2, <2>5
<1> HIDE DEF A
<1>6. a \in A
  BY <1>4, <1>5, SetInduction
<1>7. QED
  BY <1>1, <1>6 DEF A

(* Every literal comes back after at most as many steps as there are       *)
(* literals: the length of its cycle exists.                               *)
LEMMA CycleCloses ==
  ASSUME NEW p \in LitPerms, NEW l \in Lits
  PROVE  /\ CycleLength(p, l) \in 1 .. Cardinality(Lits)
         /\ Walk(p, l)[CycleLength(p, l)] = l
         /\ \A k \in 1 .. CycleLength(p, l) - 1 : Walk(p, l)[k] # l
<1>1. PICK w : w = Walk(p, l)
  OBVIOUS
<1>2. w \in [Nat -> Lits]
  BY <1>1, WalkFacts DEF Chain
<1>3. PICK N \in Nat : N = Cardinality(Lits) /\ IsFiniteSet(Lits)
  <2>1. IsFiniteSet(Lits)
    BY FS_Interval, NVarsAssumption DEF Lits
  <2>2. QED
    BY <2>1, FS_CardinalityType
<1>4. \E a, b \in 0 .. N : a # b /\ w[a] = w[b]
  <2>1. IsFiniteSet(0 .. N) /\ Cardinality(0 .. N) = N + 1
    BY FS_Interval
  <2>2. PICK v : v = [n \in 0 .. N |-> w[n]]
    OBVIOUS
  <2>3. v \in [0 .. N -> Lits]
    BY <1>2, <2>2
  <2>4. \E a, b \in 0 .. N : a # b /\ v[a] = v[b]
    BY <1>3, <2>1, <2>3, FS_PigeonHole
  <2>5. QED
    BY <2>2, <2>4
<1>5. PICK a \in 0 .. N, b \in 0 .. N : a < b /\ w[a] = w[b]
  BY <1>4
<1> DEFINE T == {n \in Nat : n \in 1 .. N /\ w[n] = l}
<1>6. b - a \in T
  BY <1>1, <1>5, WalkCancel
<1>7. PICK x \in T : \A y \in T : x <= y
  BY <1>6, LeastElement
<1>8. x \in 1 .. N /\ w[x] = l /\ \A k \in 1 .. x - 1 : w[k] # l
  BY <1>7
<1> DEFINE Returns(n) == w[n] = l /\ \A k \in 1 .. n - 1 : w[k] # l
<1>9. CycleLength(p, l) = CHOOSE n \in 1 .. N : Returns(n)
  BY <1>1, <1>3 DEF CycleLength
<1>10. PICK c : c = CHOOSE n \in 1 .. N : Returns(n)
  OBVIOUS
<1>11. c \in 1 .. N /\ Returns(c)
  BY <1>8, <1>10, Zenon
<1>12. QED
  BY <1>1, <1>3, <1>9, <1>10, <1>11

(* A permutation moves finitely many literals. *)
LEMMA DomainFinite ==
  ASSUME NEW p \in LitPerms
  PROVE  /\ Domain(p) \subseteq Lits /\ IsFiniteSet(Domain(p))
         /\ Cardinality(Domain(p)) \in Nat
<1>1. IsFiniteSet(Lits)
  BY FS_Interval, NVarsAssumption DEF Lits
<1>2. Domain(p) \subseteq Lits
  BY DEF Domain, LitPerms
<1>3. QED
  BY <1>1, <1>2, FS_Subset, FS_CardinalityType

-----------------------------------------------------------------------------
(* The orbit of a literal: it lies in every closed set that holds the      *)
(* literal, and is closed itself.                                          *)
LEMMA OrbitFacts ==
  ASSUME NEW gens \in SUBSET LitPerms, NEW l \in Lits
  PROVE  /\ l \in OrbitOf(gens, l) /\ OrbitOf(gens, l) \subseteq Lits
         /\ \A p \in gens, m \in OrbitOf(gens, l) : p[m] \in OrbitOf(gens, l)
         /\ \A E \in SUBSET Lits :
              l \in E /\ (\A p \in gens, m \in E : p[m] \in E)
                => OrbitOf(gens, l) \subseteq E
<1> DEFINE Grow(Y) == Y \cup Images(gens, Y)
<1>1. PICK H : H = [Y \in SUBSET Lits |-> Grow(Y)]
  BY Zenon
<1>2. \A Y \in SUBSET Lits : H[Y] = Grow(Y) /\ Grow(Y) \in SUBSET Lits
  BY <1>1 DEF LitPerms, Images
<1>3. GrowsIn(H, Lits)
  BY <1>1, <1>2 DEF GrowsIn, Maps
<1> HIDE DEF Grow
<1>4. PICK f : Chain(f, {l}, H, SUBSET Lits)
  <2>1. {l} \in SUBSET Lits
    OBVIOUS
  <2>2. QED
    BY <1>3, <2>1, ChainExists DEF GrowsIn
<1>5. \A n \in Nat : n # 0 => n - 1 \in Nat /\ (n - 1) + 1 = n
  OBVIOUS
<1>6. f = [n \in Nat |-> IF n = 0 THEN {l} ELSE Grow(f[n - 1])]
  <2>1. f \in [Nat -> SUBSET Lits]
    BY <1>4 DEF Chain
  <2>2. f[0] = {l} /\ \A n \in Nat : n # 0 => f[n] = Grow(f[n - 1])
    BY <1>2, <1>4, <1>5, <2>1 DEF Chain
  <2>3. QED
    BY <2>1, <2>2
<1>7. PICK r : /\ r = [n \in Nat |-> IF n = 0 THEN {l} ELSE Grow(r[n - 1])]
               /\ OrbitOf(gens, l) = r[Cardinality(Lits)]
  BY <1>6, Zenon DEF OrbitOf, Grow
<1>8. Chain(r, {l}, H, SUBSET Lits)
  <2>1. r[0] = {l} /\ \A n \in Nat : r[n + 1] = Grow(r[n])
    <3>1. \A n \in Nat : r[n] = IF n = 0 THEN {l} ELSE Grow(r[n - 1])
      BY <1>7, Zenon
    <3>2. \A n \in Nat : n + 1 \in Nat /\ n + 1 # 0 /\ (n + 1) - 1 = n
      OBVIOUS
    <3>3. QED
      BY <3>1, <3>2
  <2> DEFINE A == {n \in Nat : r[n] \in SUBSET Lits}
  <2>2. 0 \in A
    BY <2>1
  <2>3. ASSUME NEW n \in Nat, n \in A PROVE n + 1 \in A
    BY <1>2, <2>1, <2>3
  <2> HIDE DEF A
  <2>4. Nat \subseteq A
    BY <2>2, <2>3, SetInduction
  <2>5. \A n \in Nat : r[n] \in SUBSET Lits /\ H[r[n]] = Grow(r[n])
    BY <1>2, <2>4 DEF A
  <2>6. r \in [Nat -> SUBSET Lits]
    BY <1>7, <2>5
  <2>7. QED
    BY <2>1, <2>5, <2>6 DEF Chain
<1>9. IsFiniteSet(Lits) /\ Cardinality(Lits) \in Nat
      /\ Cardinality(Lits) <= Cardinality(Lits)
  BY FS_Interval, FS_CardinalityType, NVarsAssumption DEF Lits
<1> DEFINE O == OrbitOf(gens, l)
<1>10. IsClosure(O, {l}, H, Lits)
  <2>1. IsClosure(r[Cardinality(Lits)], {l}, H, Lits)
    BY <1>3, <1>8, <1>9, ClosureReached
  <2>2. QED
    BY <1>7, <2>1
<1> HIDE DEF O
<1>11. /\ O \in SUBSET Lits /\ l \in O /\ H[O] = O
       /\ \A E \in SUBSET Lits :
            l \in E /\ (\A Y \in SUBSET E : H[Y] \subseteq E) => O \subseteq E
  BY <1>10 DEF IsClosure
<1>12. \A p \in gens, m \in O : p[m] \in O
  BY <1>2, <1>11 DEF Grow, Images
<1>13. \A E \in SUBSET Lits : (\A p \in gens, m \in E : p[m] \in E) =>
          \A Y \in SUBSET E : H[Y] \subseteq E
  BY <1>2 DEF Grow, Images
<1>14. QED
  BY <1>11, <1>12, <1>13 DEF O

-----------------------------------------------------------------------------
(* The image of an assignment gives a literal the value that the           *)
(* assignment gives the image of the literal.                              *)
LEMMA ImageTrue ==
  ASSUME NEW p \in LitPerms, NEW a, NEW l \in Lits
  PROVE  True(Image(a, p), l) <=> True(a, p[l])
<1> DEFINE v == VarOf(l)
           x == MkLit(v, FALSE)
<1>1. /\ v \in Vars /\ x \in Lits /\ VarOf(x) = v /\ ~Sign(x)
      /\ l = x \/ l = Neg(x)
  BY NVarsAssumption, SMT DEF Vars, Lits, MkLit, VarOf, Sign, Neg
<1>2. p[x] \in Lits /\ p[Neg(x)] = Neg(p[x])
  BY <1>1 DEF LitPerms
<1>3. v \in Image(a, p) <=> True(a, p[x])
  BY <1>1 DEF Image
<1>4. True(Image(a, p), x) <=> True(a, p[x])
  BY <1>1, <1>3 DEF True
<1>5. True(Image(a, p), Neg(x)) <=> True(a, Neg(p[x]))
  BY <1>1, <1>2, <1>4, TrueNeg, LitFacts
<1> HIDE DEF x
<1>6. QED
  BY <1>1, <1>2, <1>4, <1>5

(* Assignments that make the same literals true are equal. *)
LEMMA AssignmentEqual ==
  ASSUME NEW a \in Assignments, NEW b \in Assignments,
         \A l \in Lits : True(a, l) <=> True(b, l)
  PROVE  a = b
<1>1. \A v \in Vars : /\ MkLit(v, FALSE) \in Lits /\ VarOf(MkLit(v, FALSE)) = v
                      /\ ~Sign(MkLit(v, FALSE))
  BY NVarsAssumption, SMT DEF Vars, Lits, MkLit, VarOf, Sign
<1>2. \A v \in Vars : v \in a <=> v \in b
  BY <1>1 DEF True
<1>3. QED
  BY <1>2 DEF Assignments

(* Every literal is an image. *)
LEMMA PermOnto ==
  ASSUME NEW p \in LitPerms, NEW l \in Lits
  PROVE  \E x \in Lits : p[x] = l
<1>1. p \in Injection(Lits, Lits)
  BY DEF LitPerms, Injection, IsInjective
<1>2. IsFiniteSet(Lits)
  BY FS_Interval, NVarsAssumption DEF Lits
<1>3. p \in Surjection(Lits, Lits)
  BY <1>1, <1>2, FS_Injection
<1>4. QED
  BY <1>3 DEF Surjection

(* Different assignments have different images. *)
LEMMA ImageInjective ==
  ASSUME NEW p \in LitPerms, NEW a \in Assignments, NEW b \in Assignments,
         Image(a, p) = Image(b, p)
  PROVE  a = b
<1>1. ASSUME NEW l \in Lits PROVE True(a, l) <=> True(b, l)
  <2>1. PICK x \in Lits : p[x] = l
    BY PermOnto
  <2>2. True(Image(a, p), x) <=> True(Image(b, p), x)
    OBVIOUS
  <2>3. QED
    BY <2>1, <2>2, ImageTrue
<1>2. QED
  BY <1>1, AssignmentEqual

(* There are finitely many assignments. *)
LEMMA AssignmentsFinite ==
  IsFiniteSet(Assignments) /\ Cardinality(Assignments) = 2 ^ NVars
<1>1. IsFiniteSet(Vars) /\ Cardinality(Vars) = NVars
  BY FS_Interval, NVarsAssumption DEF Vars
<1>2. QED
  BY <1>1, FS_SUBSET DEF Assignments

(* If the images of the members of a set of assignments lie in it, so do   *)
(* those of the others lie outside.                                        *)
LEMMA ClosedOutside ==
  ASSUME NEW p \in LitPerms, NEW C \in SUBSET Assignments,
         \A a \in C : Image(a, p) \in C
  PROVE  \A a \in Assignments \ C : Image(a, p) \in Assignments \ C
<1>1. PICK f : f = [a \in C |-> Image(a, p)]
  OBVIOUS
<1>2. f \in Injection(C, C)
  <2>1. f \in [C -> C] /\ \A a \in C : f[a] = Image(a, p)
    BY <1>1
  <2>2. \A a, b \in C : f[a] = f[b] => a = b
    BY <2>1, ImageInjective
  <2>3. QED
    BY <2>1, <2>2 DEF Injection, IsInjective
<1>3. IsFiniteSet(C)
  BY AssignmentsFinite, FS_Subset
<1>4. f \in Surjection(C, C)
  BY <1>2, <1>3, FS_Injection
<1>5. SUFFICES ASSUME NEW a \in Assignments \ C, Image(a, p) \in C PROVE FALSE
  BY DEF Image, Assignments
<1>6. PICK b \in C : f[b] = Image(a, p)
  BY <1>4, <1>5 DEF Surjection
<1>7. Image(b, p) = Image(a, p)
  BY <1>1, <1>6
<1>8. QED
  BY <1>5, <1>7, ImageInjective

(* The union of the orbits that a set of assignments meets holds the set   *)
(* and is closed.                                                          *)
LEMMA MeetingFacts ==
  ASSUME NEW gens \in SUBSET LitPerms, NEW S \in SUBSET Assignments
  PROVE  /\ S \subseteq OrbitsMeeting(gens, S)
         /\ OrbitsMeeting(gens, S) \subseteq Assignments
         /\ \A p \in gens, a \in OrbitsMeeting(gens, S) :
              Image(a, p) \in OrbitsMeeting(gens, S)
<1> DEFINE Grow(Y) == Y \cup ImagesUnder(gens, Y)
<1>1. PICK H : H = [Y \in SUBSET Assignments |-> Grow(Y)]
  BY Zenon
<1>2. \A Y \in SUBSET Assignments :
         H[Y] = Grow(Y) /\ Grow(Y) \in SUBSET Assignments
  <2>1. \A a, p : Image(a, p) \in Assignments
    BY DEF Image, Assignments
  <2>2. \A Y \in SUBSET Assignments : Grow(Y) \in SUBSET Assignments
    BY <2>1 DEF ImagesUnder
  <2>3. QED
    BY <1>1, <2>2
<1>3. GrowsIn(H, Assignments)
  BY <1>1, <1>2 DEF GrowsIn, Maps
<1> HIDE DEF Grow
<1>4. PICK f : Chain(f, S, H, SUBSET Assignments)
  BY <1>3, ChainExists DEF GrowsIn
<1>5. \A n \in Nat : n # 0 => n - 1 \in Nat /\ (n - 1) + 1 = n
  OBVIOUS
<1>6. f = [n \in Nat |-> IF n = 0 THEN S ELSE Grow(f[n - 1])]
  <2>1. f \in [Nat -> SUBSET Assignments]
    BY <1>4 DEF Chain
  <2>2. f[0] = S /\ \A n \in Nat : n # 0 => f[n] = Grow(f[n - 1])
    BY <1>2, <1>4, <1>5, <2>1 DEF Chain
  <2>3. QED
    BY <2>1, <2>2
<1>7. PICK r : /\ r = [n \in Nat |-> IF n = 0 THEN S ELSE Grow(r[n - 1])]
               /\ OrbitsMeeting(gens, S) = r[2 ^ NVars]
  BY <1>6, Zenon DEF OrbitsMeeting, Grow
<1>8. Chain(r, S, H, SUBSET Assignments)
  <2>1. r[0] = S /\ \A n \in Nat : r[n + 1] = Grow(r[n])
    <3>1. \A n \in Nat : r[n] = IF n = 0 THEN S ELSE Grow(r[n - 1])
      BY <1>7, Zenon
    <3>2. \A n \in Nat : n + 1 \in Nat /\ n + 1 # 0 /\ (n + 1) - 1 = n
      OBVIOUS
    <3>3. QED
      BY <3>1, <3>2
  <2> DEFINE A == {n \in Nat : r[n] \in SUBSET Assignments}
  <2>2. 0 \in A
    BY <2>1
  <2>3. ASSUME NEW n \in Nat, n \in A PROVE n + 1 \in A
    BY <1>2, <2>1, <2>3
  <2> HIDE DEF A
  <2>4. Nat \subseteq A
    BY <2>2, <2>3, SetInduction
  <2>5. \A n \in Nat : r[n] \in SUBSET Assignments /\ H[r[n]] = Grow(r[n])
    BY <1>2, <2>4 DEF A
  <2>6. r \in [Nat -> SUBSET Assignments]
    BY <1>7, <2>5
  <2>7. QED
    BY <2>1, <2>5, <2>6 DEF Chain
<1>9. /\ IsFiniteSet(Assignments) /\ Cardinality(Assignments) = 2 ^ NVars
      /\ Cardinality(Assignments) \in Nat
      /\ Cardinality(Assignments) <= Cardinality(Assignments)
  BY AssignmentsFinite, FS_CardinalityType
<1> DEFINE O == OrbitsMeeting(gens, S)
<1>10. IsClosure(O, S, H, Assignments)
  <2>1. IsClosure(r[Cardinality(Assignments)], S, H, Assignments)
    BY <1>3, <1>8, <1>9, ClosureReached
  <2>2. QED
    BY <1>7, <1>9, <2>1, Zenon
<1> HIDE DEF O
<1>11. O \in SUBSET Assignments /\ S \subseteq O /\ H[O] = O
  BY <1>10 DEF IsClosure
<1>12. \A p \in gens, a \in O : Image(a, p) \in O
  BY <1>2, <1>11 DEF Grow, ImagesUnder
<1>13. QED
  BY <1>11, <1>12 DEF O

-----------------------------------------------------------------------------
(* Powers and products of permutations.                                    *)

(* There are finitely many literals. *)
LEMMA LitsFinite ==
  IsFiniteSet(Lits) /\ Cardinality(Lits) \in Nat
<1>1. IsFiniteSet(Lits)
  BY FS_Interval, NVarsAssumption DEF Lits
<1>2. QED
  BY <1>1, FS_CardinalityType

(* A walk goes on where it stands. *)
LEMMA WalkAdd ==
  ASSUME NEW p \in LitPerms, NEW l \in Lits, NEW a \in Nat
  PROVE  /\ Walk(p, l)[a] \in Lits
         /\ \A b \in Nat : Walk(p, Walk(p, l)[a])[b] = Walk(p, l)[a + b]
<1>1. PICK w : w = Walk(p, l)
  OBVIOUS
<1>2. w \in [Nat -> Lits] /\ w[0] = l /\ \A n \in Nat : w[n + 1] = p[w[n]]
  BY <1>1, WalkFacts DEF Chain
<1>3. PICK m \in Lits : m = w[a]
  BY <1>2
<1>4. PICK v : v = Walk(p, m)
  OBVIOUS
<1>5. v \in [Nat -> Lits] /\ v[0] = m /\ \A n \in Nat : v[n + 1] = p[v[n]]
  BY <1>4, WalkFacts DEF Chain
<1> DEFINE A == {n \in Nat : v[n] = w[a + n]}
<1>6. 0 \in A
  BY <1>3, <1>5
<1>7. ASSUME NEW n \in Nat, n \in A PROVE n + 1 \in A
  <2>1. a + (n + 1) = (a + n) + 1 /\ a + n \in Nat
    OBVIOUS
  <2>2. QED
    BY <1>2, <1>5, <1>7, <2>1
<1> HIDE DEF A
<1>8. \A b \in Nat : v[b] = w[a + b]
  BY <1>6, <1>7, SetInduction DEF A
<1>9. QED
  BY <1>1, <1>3, <1>4, <1>8

(* A walk that returns after n steps returns after every multiple of n.    *)
LEMMA WalkReturns ==
  ASSUME NEW p \in LitPerms, NEW l \in Lits, NEW n \in Nat, Walk(p, l)[n] = l,
         NEW t \in Nat
  PROVE  Walk(p, l)[n * t] = l
<1> DEFINE A == {k \in Nat : Walk(p, l)[n * k] = l}
<1>1. 0 \in A
  <2>1. n * 0 = 0
    OBVIOUS
  <2>2. QED
    BY <2>1, WalkFacts DEF Chain
<1>2. ASSUME NEW k \in Nat, k \in A PROVE k + 1 \in A
  <2>1. n * (k + 1) = n * k + n /\ n * k \in Nat
    OBVIOUS
  <2>2. Walk(p, Walk(p, l)[n * k])[n] = Walk(p, l)[n * k + n]
    BY <2>1, WalkAdd
  <2>3. QED
    BY <1>2, <2>1, <2>2
<1> HIDE DEF A
<1>3. QED
  BY <1>1, <1>2, SetInduction DEF A

(* A walk repeats with the length of the cycle. *)
LEMMA WalkPeriod ==
  ASSUME NEW p \in LitPerms, NEW l \in Lits, NEW a \in Nat, NEW t \in Nat
  PROVE  Walk(p, l)[a + CycleLength(p, l) * t] = Walk(p, l)[a]
<1>1. PICK n \in Nat : n = CycleLength(p, l) /\ Walk(p, l)[n] = l
  BY CycleCloses, LitsFinite
<1>2. Walk(p, l)[n * t] = l
  BY <1>1, WalkReturns
<1>3. PICK x \in Nat : x = n * t
  OBVIOUS
<1>4. Walk(p, Walk(p, l)[x])[a] = Walk(p, l)[x + a]
  BY WalkAdd
<1>5. x + a = a + n * t
  BY <1>3
<1>6. QED
  BY <1>1, <1>2, <1>3, <1>4, <1>5

(* The n-th power of p, literal by literal. *)
Times(p, n) == [l \in Lits |-> Walk(p, l)[n]]

(* Each power is the one before times p. *)
LEMMA TimesFacts ==
  ASSUME NEW p \in LitPerms
  PROVE  /\ Times(p, 0) = IdPerm
         /\ \A n \in Nat : /\ Times(p, n) \in [Lits -> Lits]
                           /\ Times(p, n + 1) = Product(Times(p, n), p)
<1>1. \A l \in Lits : /\ Walk(p, l)[0] = l
                      /\ \A n \in Nat : /\ Walk(p, l)[n] \in Lits
                                        /\ Walk(p, l)[n + 1] = p[Walk(p, l)[n]]
  BY WalkFacts DEF Chain
<1>2. Times(p, 0) = IdPerm
  BY <1>1 DEF Times, IdPerm
<1>3. ASSUME NEW n \in Nat
      PROVE  /\ Times(p, n) \in [Lits -> Lits]
             /\ Times(p, n + 1) = Product(Times(p, n), p)
  BY <1>1 DEF Times, Product
<1>4. QED
  BY <1>2, <1>3

(* One round of Products: what is known, and what is new in it. *)
Fresh(gens, X, Y) == {Product(p, q) : p \in X, q \in gens} \ Y

(* The products that a round adds. *)
NewOf(gens, r) == Fresh(gens, r.new, r.all)

(* The sets after it. *)
Round(gens, r) == [all |-> r.all \cup NewOf(gens, r), new |-> NewOf(gens, r)]

(* The pairs of sets of elements of W. *)
Rounds(W) == [all : SUBSET W, new : SUBSET W]

(* The generators take W to itself. *)
ClosedUnder(W, gens) == \A x \in W, q \in gens : Product(x, q) \in W

(* The state after k rounds. *)
RoundsOf(gens, W, r) ==
  /\ r \in [Nat -> Rounds(W)]
  /\ r[0] = [all |-> {IdPerm}, new |-> {IdPerm}]
  /\ \A k \in Nat : r[k + 1] = Round(gens, r[k])

(* The recursive definition has the values it says. *)
LEMMA ProductsRounds ==
  ASSUME NEW gens, NEW W, IdPerm \in W, ClosedUnder(W, gens), NEW n \in Nat
  PROVE  \E r : RoundsOf(gens, W, r) /\ Products(gens, n) = r[n].all
<1> DEFINE zero == [all |-> {IdPerm}, new |-> {IdPerm}]
           Taken(last) ==
             CHOOSE next \in UNION {
               {[all |-> y.all \cup new, new |-> new] :
                  new \in {{Product(p, q) : p \in y.new, q \in gens} \ y.all}} :
               y \in {last}} : TRUE
<1>1. \A x : Taken(x) = Round(gens, x)
  <2>1. SUFFICES ASSUME NEW x PROVE Taken(x) = Round(gens, x)
    OBVIOUS
  <2>2. UNION {
               {[all |-> y.all \cup new, new |-> new] :
                  new \in {{Product(p, q) : p \in y.new, q \in gens} \ y.all}} :
               y \in {x}} = {Round(gens, x)}
    BY DEF Round, NewOf, Fresh
  <2>3. PICK y : y = Round(gens, x) /\ Taken(x) = CHOOSE next \in {y} : TRUE
    BY <2>2
  <2>4. (CHOOSE next \in {y} : TRUE) \in {y}
    BY Zenon
  <2>5. QED
    BY <2>3, <2>4
<1> HIDE DEF Taken
<1>2. zero \in Rounds(W) /\ \A x \in Rounds(W) : Round(gens, x) \in Rounds(W)
  BY DEF Rounds, Round, NewOf, Fresh, ClosedUnder
<1> HIDE DEF zero
<1>3. PICK H : H = [x \in Rounds(W) |-> Round(gens, x)]
  OBVIOUS
<1>4. \A x \in Rounds(W) : H[x] = Round(gens, x) /\ H[x] \in Rounds(W)
  BY <1>2, <1>3
<1>5. PICK f : Chain(f, zero, H, Rounds(W))
  BY <1>2, <1>3, <1>4, ChainExists DEF Maps
<1>6. f \in [Nat -> Rounds(W)] /\ f[0] = zero /\ \A k \in Nat : f[k + 1] = Round(gens, f[k])
  BY <1>4, <1>5 DEF Chain
<1>7. \A k \in Nat : k # 0 => k - 1 \in Nat /\ (k - 1) + 1 = k
  OBVIOUS
<1>8. f = [k \in Nat |-> IF k = 0 THEN zero ELSE Taken(f[k - 1])]
  <2>1. \A k \in Nat : f[k] = IF k = 0 THEN zero ELSE Taken(f[k - 1])
    BY <1>1, <1>6, <1>7
  <2>2. QED
    BY <1>6, <2>1
<1>9. PICK r : /\ r = [k \in Nat |-> IF k = 0 THEN zero ELSE Taken(r[k - 1])]
               /\ Products(gens, n) = r[n].all
  <2>1. PICK r : r = CHOOSE w : w = [k \in Nat |-> IF k = 0 THEN zero
                                                 ELSE Taken(w[k - 1])]
    OBVIOUS
  <2>2. r = [k \in Nat |-> IF k = 0 THEN zero ELSE Taken(r[k - 1])]
    BY <1>8, <2>1, Zenon
  <2>3. Products(gens, n) = r[n].all
    BY <2>1 DEF Products, Taken, zero
  <2>4. QED
    BY <2>2, <2>3
<1>10. r[0] = zero /\ \A k \in Nat : r[k + 1] = Round(gens, r[k])
  <2>1. \A k \in Nat : r[k] = IF k = 0 THEN zero ELSE Taken(r[k - 1])
    BY <1>9, Zenon
  <2>2. \A k \in Nat : k + 1 \in Nat /\ k + 1 # 0 /\ (k + 1) - 1 = k
    OBVIOUS
  <2>3. QED
    BY <1>1, <2>1, <2>2
<1>11. \A k \in Nat : r[k] \in Rounds(W)
  <2> DEFINE A == {k \in Nat : r[k] \in Rounds(W)}
  <2>1. 0 \in A /\ \A k \in Nat : k \in A => k + 1 \in A
    BY <1>2, <1>10
  <2> HIDE DEF A
  <2>2. QED
    BY <2>1, SetInduction DEF A
<1>12. r \in [Nat -> Rounds(W)]
  BY <1>9, <1>11
<1>13. QED
  BY <1>9, <1>10, <1>12 DEF RoundsOf, zero

(* After as many rounds as there are elements to be found, nothing is new: *)
(* the products are closed.                                                *)
LEMMA ProductsClosed ==
  ASSUME NEW gens, NEW W, IdPerm \in W, ClosedUnder(W, gens), IsFiniteSet(W),
         NEW n \in Nat, n >= Cardinality(W)
  PROVE  /\ IdPerm \in Products(gens, n) /\ Products(gens, n) \subseteq W
         /\ ClosedUnder(Products(gens, n), gens)
<1>1. PICK r : RoundsOf(gens, W, r) /\ Products(gens, n) = r[n].all
  BY ProductsRounds
<1>2. PICK a, b : a = [k \in Nat |-> r[k].all] /\ b = [k \in Nat |-> r[k].new]
  OBVIOUS
<1>3. \A k \in Nat : a[k] \subseteq W /\ b[k] \subseteq W
  BY <1>1, <1>2 DEF RoundsOf, Rounds
<1>4. a[0] = {IdPerm} /\ b[0] = {IdPerm}
  BY <1>1, <1>2 DEF RoundsOf
<1>5. \A k \in Nat : /\ b[k + 1] = Fresh(gens, b[k], a[k])
                     /\ a[k + 1] = a[k] \cup b[k + 1]
  <2>1. ASSUME NEW k \in Nat
        PROVE  /\ b[k + 1] = Fresh(gens, b[k], a[k])
               /\ a[k + 1] = a[k] \cup b[k + 1]
    <3>1. PICK x, y : x = r[k] /\ y = r[k + 1] /\ y = Round(gens, x)
      BY <1>1 DEF RoundsOf
    <3>2. \A i \in Nat : a[i] = r[i].all /\ b[i] = r[i].new
      BY <1>2
    <3>3. k \in Nat /\ k + 1 \in Nat
      OBVIOUS
    <3>4. a[k] = x.all /\ b[k] = x.new /\ a[k + 1] = y.all /\ b[k + 1] = y.new
      BY <3>1, <3>2, <3>3, Zenon
    <3>5. /\ y.new = Fresh(gens, x.new, x.all)
          /\ y.all = x.all \cup y.new
      BY <3>1 DEF Round, NewOf
    <3>6. QED
      BY <3>4, <3>5
  <2>2. QED
    BY <2>1, Zenon
<1>6. \A S \in SUBSET W : IsFiniteSet(S) /\ Cardinality(S) \in Nat
                          /\ Cardinality(S) <= Cardinality(W)
  BY FS_Subset, FS_CardinalityType
<1> DEFINE A == {k \in Nat :
             /\ IdPerm \in a[k] /\ b[k] \subseteq a[k]
             /\ \A x \in a[k] \ b[k], q \in gens : Product(x, q) \in a[k]
             /\ b[k] # {} => Cardinality(a[k]) >= k + 1}
<1>7. 0 \in A
  <2>1. Cardinality({IdPerm}) = 1
    BY FS_Singleton
  <2>2. QED
    BY <1>4, <2>1
<1>8. ASSUME NEW k \in Nat, k \in A PROVE k + 1 \in A
  <2>1. IdPerm \in a[k + 1] /\ b[k + 1] \subseteq a[k + 1]
    <3>1. a[k + 1] = a[k] \cup b[k + 1]
      BY <1>5 DEF Fresh
    <3>2. QED
      BY <1>8, <3>1
  <2>2. ASSUME NEW x \in a[k + 1] \ b[k + 1], NEW q \in gens
        PROVE  Product(x, q) \in a[k + 1]
    <3>1. x \in a[k]
      BY <1>5 DEF Fresh
    <3>2. CASE x \in b[k]
      <4>1. Product(x, q) \in a[k] \/ Product(x, q) \in b[k + 1]
        BY <1>5, <3>2 DEF Fresh
      <4>2. QED
        BY <1>5, <4>1
    <3>3. CASE x \notin b[k]
      <4>1. Product(x, q) \in a[k]
        BY <1>8, <3>1, <3>3
      <4>2. QED
        BY <1>5, <4>1
    <3>4. QED
      BY <3>2, <3>3
  <2>3. ASSUME b[k + 1] # {} PROVE Cardinality(a[k + 1]) >= (k + 1) + 1
    <3>1. b[k] # {}
      BY <1>5, <2>3 DEF Fresh
    <3>2. PICK S, T : S = a[k + 1] /\ T = a[k]
      OBVIOUS
    <3>3. T \subseteq S /\ T # S /\ S \subseteq W /\ T \subseteq W
      BY <1>3, <1>5, <2>3, <3>2 DEF Fresh
    <3>4. IsFiniteSet(S) /\ Cardinality(S) \in Nat /\ Cardinality(T) \in Nat
      BY <1>6, <3>3
    <3>5. Cardinality(T) <= Cardinality(S) /\ Cardinality(T) # Cardinality(S)
      BY <3>3, <3>4, FS_Subset
    <3>6. Cardinality(T) >= k + 1
      BY <1>8, <3>1, <3>2
    <3>7. Cardinality(S) >= (k + 1) + 1
      BY <3>4, <3>5, <3>6
    <3>8. QED
      BY <3>2, <3>7
  <2>4. QED
    BY <2>1, <2>2, <2>3
<1> HIDE DEF A
<1>9. n \in A
  BY <1>7, <1>8, SetInduction
<1>10. b[n] = {}
  <2>1. SUFFICES ASSUME b[n] # {} PROVE FALSE
    OBVIOUS
  <2>2. Cardinality(a[n]) >= n + 1
    BY <1>9, <2>1 DEF A
  <2>3. Cardinality(a[n]) \in Nat /\ Cardinality(a[n]) <= Cardinality(W)
    BY <1>3, <1>6
  <2>4. Cardinality(W) \in Nat
    BY FS_CardinalityType
  <2>5. QED
    BY <2>2, <2>3, <2>4
<1>11. Products(gens, n) = a[n]
  BY <1>1, <1>2
<1>12. QED
  BY <1>3, <1>9, <1>10, <1>11 DEF A, ClosedUnder

(* Sets whose elements correspond one to one are of the same size. *)
LEMMA OneToOne ==
  ASSUME NEW S, IsFiniteSet(S), NEW T, NEW e \in [S -> T],
         \A x, y \in S : e[x] = e[y] => x = y,
         \A y \in T : \E x \in S : e[x] = y
  PROVE  Cardinality(T) = Cardinality(S)
<1>1. e \in Bijection(S, T)
  BY DEF Bijection, Injection, IsInjective, Surjection
<1>2. ExistsBijection(S, T)
  BY <1>1, Zenon DEF ExistsBijection
<1>3. QED
  BY <1>2, FS_Bijection, Zenon

(* There are finitely many permutations of the literals. *)
LEMMA LiteralMapsFinite ==
  IsFiniteSet([Lits -> Lits])
<1>1. PICK S : S = SUBSET (Lits \X Lits)
  OBVIOUS
<1>2. IsFiniteSet(S)
  BY <1>1, LitsFinite, FS_Product, FS_SUBSET
<1> DEFINE Graph(p) == {<<l, p[l]>> : l \in Lits}
<1>3. PICK f : f = [p \in [Lits -> Lits] |-> Graph(p)]
  OBVIOUS
<1>4. f \in [[Lits -> Lits] -> S]
  BY <1>1, <1>3
<1>5. ASSUME NEW p \in [Lits -> Lits], NEW q \in [Lits -> Lits], f[p] = f[q]
      PROVE  p = q
  <2>1. Graph(p) = Graph(q)
    BY <1>3, <1>5
  <2>2. ASSUME NEW l \in Lits PROVE p[l] = q[l]
    <3>1. <<l, p[l]>> \in Graph(q)
      BY <2>1
    <3>2. PICK m \in Lits : <<l, p[l]>> = <<m, q[m]>>
      BY <3>1
    <3>3. QED
      BY <3>2
  <2>3. QED
    BY <2>2
<1>6. f \in Injection([Lits -> Lits], S)
  BY <1>4, <1>5 DEF Injection, IsInjective
<1>7. QED
  BY <1>2, <1>6, FS_Injection

(* The order of a permutation: some power of it moves nothing. *)
LEMMA OrderExists ==
  ASSUME NEW p \in LitPerms
  PROVE  \E N \in Nat : N >= 1 /\ Times(p, N) = IdPerm
<1> DEFINE A == {k \in Nat : \E N \in Nat :
                   N >= 1 /\ \A l \in Lits : l < k => Walk(p, l)[N] = l}
<1>1. Lits \subseteq Nat
  BY LitFacts
<1>2. 0 \in A
  <2>1. 1 \in Nat /\ 1 >= 1 /\ \A l \in Lits : ~(l < 0)
    BY <1>1
  <2>2. QED
    BY <2>1
<1>3. ASSUME NEW k \in Nat, k \in A PROVE k + 1 \in A
  <2>1. PICK N \in Nat : N >= 1 /\ \A l \in Lits : l < k => Walk(p, l)[N] = l
    BY <1>3
  <2>2. CASE k \notin Lits
    <3>1. \A l \in Lits : l < k + 1 => l < k
      BY <1>1, <2>2
    <3>2. QED
      BY <2>1, <3>1
  <2>3. CASE k \in Lits
    <3>1. PICK c \in Nat : c >= 1 /\ Walk(p, k)[c] = k
      <4>1. CycleLength(p, k) \in 1 .. Cardinality(Lits)
            /\ Walk(p, k)[CycleLength(p, k)] = k
        BY <2>3, CycleCloses
      <4>2. QED
        BY <4>1, LitsFinite
    <3>2. PICK M \in Nat : M = N * c /\ M = c * N /\ M >= 1
      <4>1. N * c \in Nat /\ N * c = c * N /\ N * c >= 1
        BY <2>1, <3>1
      <4>2. QED
        BY <4>1
    <3>3. ASSUME NEW l \in Lits, l < k + 1 PROVE Walk(p, l)[M] = l
      <4>1. CASE l = k
        BY <2>3, <3>1, <3>2, <4>1, WalkReturns
      <4>2. CASE l # k
        <5>1. l < k
          BY <1>1, <3>3, <4>2
        <5>2. Walk(p, l)[N] = l
          BY <2>1, <5>1
        <5>3. QED
          BY <3>1, <3>2, <5>2, WalkReturns
      <4>3. QED
        BY <4>1, <4>2
    <3>4. QED
      BY <3>2, <3>3
  <2>4. QED
    BY <2>2, <2>3
<1> HIDE DEF A
<1>4. PICK K \in Nat : \A l \in Lits : l < K
  <2>1. 2 * NVars \in Nat /\ \A l \in Lits : l < 2 * NVars
    BY NVarsAssumption DEF Lits
  <2>2. QED
    BY <2>1
<1>5. K \in A
  BY <1>2, <1>3, SetInduction
<1>6. PICK N \in Nat : N >= 1 /\ \A l \in Lits : Walk(p, l)[N] = l
  BY <1>4, <1>5 DEF A
<1>7. Times(p, N) = IdPerm
  BY <1>6 DEF Times, IdPerm
<1>8. QED
  BY <1>6, <1>7

(* So a set of permutations that holds all products of its members holds   *)
(* the identity, unless it is empty.                                       *)
LEMMA IdInGroup ==
  ASSUME NEW G \in SUBSET LitPerms, \A p, q \in G : Product(p, q) \in G,
         NEW p \in G
  PROVE  IdPerm \in G
<1>1. PICK N \in Nat : N >= 1 /\ Times(p, N) = IdPerm
  BY OrderExists
<1> DEFINE A == {k \in Nat : Times(p, k + 1) \in G}
<1>2. /\ Times(p, 0) = IdPerm
      /\ \A n \in Nat : Times(p, n + 1) = Product(Times(p, n), p)
  BY TimesFacts
<1>3. 0 \in A
  <2>1. Times(p, 0 + 1) = Product(IdPerm, p)
    BY <1>2
  <2>2. Product(IdPerm, p) = p
    BY DEF Product, IdPerm, LitPerms
  <2>3. QED
    BY <2>1, <2>2
<1>4. ASSUME NEW k \in Nat, k \in A PROVE k + 1 \in A
  BY <1>2, <1>4
<1> HIDE DEF A
<1>5. N - 1 \in Nat /\ (N - 1) + 1 = N
  BY <1>1
<1>6. N - 1 \in A
  BY <1>3, <1>4, <1>5, SetInduction
<1>7. QED
  BY <1>1, <1>5, <1>6 DEF A

-----------------------------------------------------------------------------
(* What the permutations of gens generate: every set that holds the        *)
(* identity and that they take to itself holds p.                          *)
Generated(gens, p) ==
  /\ p \in [Lits -> Lits]
  /\ \A W \in SUBSET [Lits -> Lits] :
        IdPerm \in W /\ ClosedUnder(W, gens) => p \in W

(* The products of gens are among them. *)
LEMMA ProductsLeast ==
  ASSUME NEW gens, NEW W, IdPerm \in W, ClosedUnder(W, gens), NEW n \in Nat
  PROVE  Products(gens, n) \subseteq W
<1>1. PICK r : RoundsOf(gens, W, r) /\ Products(gens, n) = r[n].all
  BY ProductsRounds
<1>2. r[n] \in Rounds(W)
  BY <1>1 DEF RoundsOf
<1>3. QED
  BY <1>1, <1>2 DEF Rounds

(* Products of maps of literals. *)
LEMMA ProductLaws ==
  ASSUME NEW p \in [Lits -> Lits], NEW q \in [Lits -> Lits], NEW r \in [Lits -> Lits]
  PROVE  /\ IdPerm \in [Lits -> Lits] /\ Product(p, q) \in [Lits -> Lits]
         /\ Product(p, IdPerm) = p /\ Product(IdPerm, p) = p
         /\ Product(p, Product(q, r)) = Product(Product(p, q), r)
BY DEF Product, IdPerm

(* The generators and the identity are generated. *)
LEMMA GeneratorsGenerated ==
  ASSUME NEW gens \in SUBSET [Lits -> Lits]
  PROVE  Generated(gens, IdPerm) /\ \A q \in gens : Generated(gens, q)
<1>1. Generated(gens, IdPerm)
  BY DEF Generated, IdPerm
<1>2. ASSUME NEW q \in gens PROVE Generated(gens, q)
  <2>1. q \in [Lits -> Lits] /\ Product(IdPerm, q) = q
    BY ProductLaws
  <2>2. QED
    BY <2>1 DEF Generated, ClosedUnder
<1>3. QED
  BY <1>1, <1>2

(* So is what is a product of two that are. *)
LEMMA ProductGenerated ==
  ASSUME NEW gens \in SUBSET [Lits -> Lits], NEW p, NEW q,
         Generated(gens, p), Generated(gens, q)
  PROVE  Generated(gens, Product(p, q))
<1>1. p \in [Lits -> Lits] /\ q \in [Lits -> Lits]
  BY DEF Generated
<1>2. ASSUME NEW W \in SUBSET [Lits -> Lits], IdPerm \in W, ClosedUnder(W, gens)
      PROVE  Product(p, q) \in W
  <2> DEFINE V == {y \in [Lits -> Lits] : Product(p, y) \in W}
  <2>1. p \in W
    BY <1>2 DEF Generated
  <2>2. IdPerm \in V
    BY <1>1, <2>1, ProductLaws
  <2>3. ASSUME NEW y \in V, NEW g \in gens PROVE Product(y, g) \in V
    <3>1. y \in [Lits -> Lits] /\ g \in [Lits -> Lits] /\ Product(p, y) \in W
      OBVIOUS
    <3>2. Product(y, g) \in [Lits -> Lits]
          /\ Product(p, Product(y, g)) = Product(Product(p, y), g)
      BY <1>1, <3>1, ProductLaws
    <3>3. Product(Product(p, y), g) \in W
      BY <1>2, <3>1 DEF ClosedUnder
    <3>4. QED
      BY <3>2, <3>3
  <2>4. ClosedUnder(V, gens) /\ V \in SUBSET [Lits -> Lits]
    BY <2>3 DEF ClosedUnder
  <2> HIDE DEF V
  <2>5. q \in V
    BY <2>2, <2>4 DEF Generated
  <2>6. QED
    BY <2>5 DEF V
<1>3. Product(p, q) \in [Lits -> Lits]
  BY <1>1, ProductLaws
<1>4. QED
  BY <1>2, <1>3 DEF Generated

(* What generates the generators generates what they generate. *)
LEMMA GeneratedTransitive ==
  ASSUME NEW gens \in SUBSET [Lits -> Lits], NEW others \in SUBSET [Lits -> Lits],
         \A g \in gens : Generated(others, g), NEW p, Generated(gens, p)
  PROVE  Generated(others, p)
<1> DEFINE W == {y \in [Lits -> Lits] : Generated(others, y)}
<1>1. IdPerm \in W
  BY GeneratorsGenerated, ProductLaws DEF IdPerm
<1>2. ASSUME NEW y \in W, NEW g \in gens PROVE Product(y, g) \in W
  <2>1. Generated(others, y) /\ Generated(others, g)
    OBVIOUS
  <2>2. Generated(others, Product(y, g))
    BY <2>1, ProductGenerated
  <2>3. QED
    BY <2>2 DEF Generated
<1>3. ClosedUnder(W, gens) /\ W \in SUBSET [Lits -> Lits]
  BY <1>2 DEF ClosedUnder
<1> HIDE DEF W
<1>4. p \in W
  BY <1>1, <1>3 DEF Generated
<1>5. QED
  BY <1>4 DEF W
=============================================================================
