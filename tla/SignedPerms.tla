---------------------------- MODULE SignedPerms ----------------------------
(***************************************************************************)
(* The permutations of BLits!LitPerms in a form TLC can enumerate: a       *)
(* permutation of the variables and the set of variables it negates.       *)
(***************************************************************************)
EXTENDS BLits, TLC

(* Variable v goes to f[v], negated when v is in flip. *)
Signed(f, flip) ==
  [l \in Lits |-> MkLit(f[VarOf(l)], Sign(l) # (VarOf(l) \in flip))]

VarSwap(v, w) == [u \in Vars |-> IF u = v THEN w ELSE IF u = w THEN v ELSE u]

AllSigned == {Signed(f, flip) : f \in Permutations(Vars), flip \in SUBSET Vars}
=============================================================================
