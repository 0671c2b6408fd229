------------------------------- MODULE Perms -------------------------------
(***************************************************************************)
(* Permutations of literals as the algebra sees them: products, powers,    *)
(* cycles, orbits and generated groups.  The operations of the class       *)
(* Permutation are translated; the generated group and the orbits of an    *)
(* arbitrary set of generators are the reference the properties compare    *)
(* the code with.                                                          *)
(***************************************************************************)
EXTENDS BLits, Sequences

IdPerm == [l \in Lits |-> l]

(* p, then q. *)
Product(p, q) == [l \in Lits |-> q[p[l]]]

(* The images of l under p, p^2, p^3, ... *)
Walk(p, l) ==
  LET w[n \in Nat] == IF n = 0 THEN l ELSE p[w[n - 1]] IN w

CycleLength(p, l) ==
  CHOOSE n \in 1 .. Cardinality(Lits) :
     /\ Walk(p, l)[n] = l
     /\ \A k \in 1 .. n - 1 : Walk(p, l)[k] # l

(* Permutation::getCycle: start at l and follow the images back to l. *)
GetCycle(p, l) == [k \in 1 .. CycleLength(p, l) |-> Walk(p, l)[k - 1]]

(* The literals of the cycle of l: what cannot be left by following        *)
(* images, starting at l.                                                  *)
Cycle(p, l) ==
  {m \in Lits : \A C \in SUBSET Lits :
                   l \in C /\ (\A x \in C : p[x] \in C) => m \in C}

InSeq(x, s) == \E k \in 1 .. Len(s) : s[k] = x

(* Permutation::getCycleReprs, for a domain listed in increasing order as  *)
(* addBlissPermutation lists it: the smallest literal of every cycle.      *)
CycleReprs(p) ==
  {l \in Domain(p) : \A k \in 1 .. CycleLength(p, l) : l <= GetCycle(p, l)[k]}

(* The permutation with the cycles of cs: Permutation::addCycle on each of *)
(* them, starting from the permutation that moves nothing.                 *)
FromCycles(cs) ==
  [l \in Lits |->
     IF \E c \in cs : InSeq(l, c)
     THEN LET c == CHOOSE d \in cs : InSeq(l, d)
              k == CHOOSE j \in 1 .. Len(c) : c[j] = l
          IN  c[(k % Len(c)) + 1]
     ELSE l]

(* Permutation(row1, row2): the literals of the rows are exchanged. *)
RowSwap(row1, row2) ==
  [l \in Lits |->
     IF InSeq(l, row1) THEN row2[CHOOSE k \in 1 .. Len(row1) : row1[k] = l]
     ELSE IF InSeq(l, row2) THEN row1[CHOOSE k \in 1 .. Len(row2) : row2[k] = l]
     ELSE l]

-----------------------------------------------------------------------------
(* The powers of p: the group p generates. *)
Powers(p) ==
  LET pow[n \in Nat] == IF n = 0 THEN IdPerm ELSE Product(pow[n - 1], p)
      order == CHOOSE n \in 1 .. 2 ^ Cardinality(Lits) :
                  /\ pow[n] = IdPerm
                  /\ \A k \in 1 .. n - 1 : pow[k] # IdPerm
  IN  {pow[n] : n \in 0 .. order - 1}

Images(gens, S) == {p[m] : p \in gens, m \in S}

(* The orbit of l under the group that the permutations of gens generate:  *)
(* they have finite order, so their products reach every element of it.    *)
OrbitOf(gens, l) ==
  LET reach[n \in Nat] ==
        IF n = 0 THEN {l}
        ELSE LET last == reach[n - 1]
             IN  last \cup Images(gens, last)
  IN  reach[Cardinality(Lits)]

OrbitPartition(gens) == {OrbitOf(gens, l) : l \in Lits}

(* The group that gens generates, as the products of at most n of them.    *)
(* (A bound variable is evaluated once where a LET may be evaluated again  *)
(* at each use.)                                                           *)
Products(gens, n) ==
  LET grow(last) ==
        {[all |-> last.all \cup new, new |-> new] :
           new \in {{Product(p, q) : p \in last.new, q \in gens} \ last.all}}
      prod[k \in Nat] ==
        IF k = 0 THEN [all |-> {IdPerm}, new |-> {IdPerm}]
        ELSE CHOOSE next \in UNION {grow(last) : last \in {prod[k - 1]}} : TRUE
  IN  prod[n].all
=============================================================================
