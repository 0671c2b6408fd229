---------------------------- MODULE PrimeSplit ----------------------------
(***************************************************************************)
(* Permutation::addPrimeSplitToVector (Algebraic.cpp), called for every    *)
(* automorphism that bliss reports: the generator is replaced by several   *)
(* permutations of prime power order.                                      *)
(*                                                                         *)
(* Every cycle is cut, for each prime that divides its length, into cycles *)
(* of the largest power of that prime.  Then each prime gets one generator *)
(* that collects all its cycles, and, when the powers of the prime differ  *)
(* or exceed the first, generators whose cycles all have the same length.  *)
(***************************************************************************)
EXTENDS Perms

CONSTANT Pool           \* the automorphisms bliss may report

ASSUME PoolAssumption == Pool \subseteq LitPerms

VARIABLES
  perm,            \* the permutation that is split
  todo,            \* its cycles that are not cut yet, by their representative
  lengthToCycles,  \* the new cycles, by their length
  primeToPowers,   \* the exponents seen for each prime
  primes,          \* the primes whose generators are not built yet
  prime,           \* the prime at hand, 0 between primes
  smallestPow,     \* the counter of the loop for equal cycles
  newPerms         \* the result, a vector of permutations

vars == <<perm, todo, lengthToCycles, primeToPowers, primes, prime,
          smallestPow, newPerms>>

Lengths == 1 .. Cardinality(Lits)

SmallestOf(S) == CHOOSE x \in S : \A y \in S : x <= y
LargestOf(S) == CHOOSE x \in S : \A y \in S : x >= y

-----------------------------------------------------------------------------
(* The integer that pow(base, e) of the C library returns. *)
Pow(base, e) ==
  LET product[n \in Nat] == IF n = 0 THEN 1 ELSE base * product[n - 1]
  IN  product[e]

(* while (cycleSize % i == 0) { nbOcc++; cycleSize /= i } *)
NbOcc(size, i) ==
  CHOOSE e \in 0 .. size : size % Pow(i, e) = 0 /\ size % Pow(i, e + 1) # 0

(* cycleSize when the loop over i has dealt with 2 .. i. *)
CycleSize(n) ==
  LET left[i \in 1 .. n] ==
        IF i = 1 THEN n
        ELSE LET size == left[i - 1] IN size \div Pow(i, NbOcc(size, i))
  IN  left

(* Variant: the loop ends before i reaches cycleSize. *)
FactorsBelowSize(n) ==
  {<<i, NbOcc(CycleSize(n)[i - 1], i)>> : i \in {j \in 2 .. n :
      j < CycleSize(n)[j - 1] /\ CycleSize(n)[j - 1] % j = 0}}

(* The i the loop finds to divide what is left, each with its exponent. *)
Factors(n) ==
  {<<i, NbOcc(CycleSize(n)[i - 1], i)>> : i \in {j \in 2 .. n :
      j <= CycleSize(n)[j - 1] /\ CycleSize(n)[j - 1] % j = 0}}

(* Variant: consecutive elements are taken instead of every jump-th. *)
CutIntoBlocks(cycle, len) ==
  LET jump == Len(cycle) \div len
  IN  {[k \in 1 .. len |-> cycle[j * len + k]] : j \in 0 .. jump - 1}

(* The cycle cut into cycles of length len, each taking every              *)
(* (size / len)-th element.                                                *)
Cut(cycle, len) ==
  LET jump == Len(cycle) \div len
  IN  {[k \in 1 .. len |-> cycle[j + jump * (k - 1)]] : j \in 1 .. jump}

-----------------------------------------------------------------------------
Init ==
  /\ perm \in Pool
  /\ todo = CycleReprs(perm)
  /\ lengthToCycles = [n \in Lengths |-> {}]
  /\ primeToPowers = [q \in Lengths |-> {}]
  /\ primes = {}
  /\ prime = 0
  /\ smallestPow = 0
  /\ newPerms = <<>>

(* One turn of the loop over getCycleReprs(). *)
SplitCycle ==
  /\ todo # {}
  /\ LET l == SmallestOf(todo)
         cycle == GetCycle(perm, l)
         factors == Factors(Len(cycle))
     IN  /\ todo' = todo \ {l}
         /\ primeToPowers' = [q \in Lengths |->
               primeToPowers[q] \cup {f[2] : f \in {g \in factors : g[1] = q}}]
         /\ lengthToCycles' = [n \in Lengths |->
               lengthToCycles[n] \cup
                 UNION {Cut(cycle, n) :
                          f \in {g \in factors : Pow(g[1], g[2]) = n}}]
         /\ primes' = primes \cup {f[1] : f \in factors}
  /\ UNCHANGED <<perm, prime, smallestPow, newPerms>>

(* The generator of the next prime, in increasing order, with all the      *)
(* cycles that were cut for it.                                            *)
GenPerm ==
  /\ todo = {}
  /\ prime = 0
  /\ primes # {}
  /\ LET q == SmallestOf(primes)
         cycles == UNION {lengthToCycles[Pow(q, e)] : e \in primeToPowers[q]}
     IN  /\ prime' = q
         /\ primes' = primes \ {q}
         /\ smallestPow' = SmallestOf(primeToPowers[q])
         /\ newPerms' = Append(newPerms, FromCycles(cycles))
  /\ UNCHANGED <<perm, todo, lengthToCycles, primeToPowers>>

(* Variant: consecutive elements are taken instead of every jump-th. *)
EqualCycleGenOfBlocks ==
  /\ smallestPow >= 1
  /\ LET powers == primeToPowers[prime]
         cycles == UNION {lengthToCycles[Pow(prime, e)] : e \in powers}
         equal == UNION {CutIntoBlocks(c, Pow(prime, smallestPow)) : c \in cycles}
     IN  newPerms' = IF smallestPow = LargestOf(powers) THEN newPerms
                     ELSE Append(newPerms, FromCycles(equal))
  /\ smallestPow' = smallestPow - 1
  /\ prime' = IF smallestPow = 1 THEN 0 ELSE prime
  /\ UNCHANGED <<perm, todo, lengthToCycles, primeToPowers, primes>>

(* Variant: the loop runs down to power zero. *)
EqualCycleGenToZero ==
  /\ prime # 0
  /\ LET powers == primeToPowers[prime]
         cycles == UNION {lengthToCycles[Pow(prime, e)] : e \in powers}
         equal == UNION {Cut(c, Pow(prime, smallestPow)) : c \in cycles}
     IN  newPerms' = IF smallestPow = LargestOf(powers) THEN newPerms
                     ELSE Append(newPerms, FromCycles(equal))
  /\ smallestPow' = smallestPow - 1
  /\ prime' = IF smallestPow = 0 THEN 0 ELSE prime
  /\ UNCHANGED <<perm, todo, lengthToCycles, primeToPowers, primes>>

(* One turn of the while loop: a generator whose cycles all have length    *)
(* pow(prime, smallestPow), unless that generator is built already.        *)
EqualCycleGen ==
  /\ smallestPow >= 1
  /\ LET powers == primeToPowers[prime]
         cycles == UNION {lengthToCycles[Pow(prime, e)] : e \in powers}
         equal == UNION {Cut(c, Pow(prime, smallestPow)) : c \in cycles}
     IN  newPerms' = IF smallestPow = LargestOf(powers) THEN newPerms
                     ELSE Append(newPerms, FromCycles(equal))
  /\ smallestPow' = smallestPow - 1
  /\ prime' = IF smallestPow = 1 THEN 0 ELSE prime
  /\ UNCHANGED <<perm, todo, lengthToCycles, primeToPowers, primes>>

Next == SplitCycle \/ GenPerm \/ EqualCycleGen

Spec == Init /\ [][Next]_vars

Done == todo = {} /\ primes = {} /\ prime = 0

-----------------------------------------------------------------------------
Results == {newPerms[k] : k \in 1 .. Len(newPerms)}

(* Types of the state of addPrimeSplitToVector. *)
TypeOK ==
  /\ perm \in Pool
  /\ todo \subseteq Lits
  /\ \A n \in Lengths : \A c \in lengthToCycles[n] :
        c \in [1 .. n -> Lits]
  /\ \A q \in Lengths : primeToPowers[q] \subseteq 1 .. Cardinality(Lits)
  /\ primes \subseteq Lengths
  /\ prime \in Lengths \cup {0}
  /\ smallestPow \in Nat
  /\ \A p \in Results : p \in [Lits -> Lits]

(* Whatever bliss reports, every permutation of the split is again one of  *)
(* the literals that commutes with negation and moves something: cutting a *)
(* cycle and cutting its negation fit together although each is cut from a *)
(* starting point of its own.                                              *)
SplitCommutesWithNegation ==
  Results \subseteq LitPerms \ {IdPerm}

(* The split loses no symmetric pair of literals: its permutations         *)
(* together have the orbits of the permutation they replace.               *)
OrbitsKept == Done => OrbitPartition(Results) = OrbitPartition({perm})

(* When the nontrivial cycles of the permutation all have the same length, *)
(* the split generates exactly the group that the permutation generates:   *)
(* it "can forget about the original permutation".                         *)
EqualCycles ==
  \A l, m \in Domain(perm) : CycleLength(perm, l) = CycleLength(perm, m)

UniformSplitExact ==
  EqualCycles =>
    /\ Results \subseteq Powers(perm)
    /\ Done => Powers(perm) \subseteq Products(Results, Cardinality(Powers(perm)))

(* The split stays within the group of the permutation it replaces, so     *)
(* that a symmetry of the formula is replaced by symmetries of it.         *)
SplitWithinGroup == Results \subseteq Powers(perm)
=============================================================================
