---------------------------- MODULE MCSubgroups ----------------------------
(* Four variables and four generators out of six: swaps that overlap in a  *)
(* chain, so that a generator may have to wait for a later pass, a literal *)
(* swapped with its own negation, a swap of a literal with a negated one.  *)
EXTENDS Subgroups, SignedPerms

MCPool ==
  {Signed(VarSwap(v, v + 1), {}) : v \in 0 .. NVars - 2}
    \cup {Signed(VarSwap(v, v), {v}) : v \in {0, 3}}
    \cup {Signed(VarSwap(0, 2), {0, 2})}
=============================================================================
