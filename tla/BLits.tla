------------------------------- MODULE BLits -------------------------------
(***************************************************************************)
(* Literals (class BLit, breakid.hpp) and the permutations of literals     *)
(* that BreakID computes with (class Permutation, Algebraic.hpp).          *)
(*                                                                         *)
(* A BLit is one unsigned word: the variable shifted left by one, with the *)
(* sign in the low bit.  A Permutation stores the pairs literal -> image   *)
(* of the literals it moves; it is modelled as the total function that its *)
(* getImage computes, the identity on every other literal.                 *)
(***************************************************************************)
EXTENDS Integers, FiniteSets

CONSTANT NVars          \* Config::nVars, the variables of the CNF

ASSUME NVarsAssumption == NVars \in Nat

Vars == 0 .. NVars - 1
Lits == 0 .. 2 * NVars - 1

(* BLit(var, is_inverted): (var << 1) | sign. *)
MkLit(v, inverted) == 2 * v + (IF inverted THEN 1 ELSE 0)

(* operator~ flips the low bit, sign() reads it, var() drops it. *)
Neg(l) == IF l % 2 = 0 THEN l + 1 ELSE l - 1
Sign(l) == l % 2 = 1
VarOf(l) == l \div 2

-----------------------------------------------------------------------------
(* Permutation::domain and posDomain, as sets. *)
Domain(p) == {l \in DOMAIN p : p[l] # l}
PosDomain(p) == {l \in Domain(p) : ~Sign(l)}

(* The permutations of literals that commute with negation.  The edge      *)
(* between a literal and its negation that Graph::Graph adds for every     *)
(* variable makes every automorphism bliss reports one of them.            *)
LitPerms ==
  {p \in [Lits -> Lits] :
      /\ \A l, m \in Lits : p[l] = p[m] => l = m
      /\ \A l \in Lits : p[Neg(l)] = Neg(p[l])}
=============================================================================
