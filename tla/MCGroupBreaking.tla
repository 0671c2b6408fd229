-------------------------- MODULE MCGroupBreaking --------------------------
(* Four variables.  One subgroup with two permutations, in which swaps, a  *)
(* rotation and literals mapped to their negation meet; one subgroup with  *)
(* a matrix of three rows and another permutation; two subgroups.          *)
EXTENDS GroupBreaking, SignedPerms

Swap(v, w) == Signed(VarSwap(v, w), {})
Flip(S) == Signed(VarSwap(0, 0), S)
Rotate3 == Signed([v \in Vars |-> IF v = 0 THEN 0 ELSE (v % 3) + 1], {})
FlipAndSwap == Signed(VarSwap(1, 2), {0})
RotateNegating ==
  Signed([v \in Vars |-> IF v < 2 THEN 1 - v ELSE v], {1})
DoubleSwap == Signed([v \in Vars |-> 3 - v], {})

MCSymmetries ==
  {Swap(0, 1), Swap(1, 2), Swap(2, 3), Flip({0, 1}), Flip({1, 2, 3}), Rotate3,
   FlipAndSwap, RotateNegating, DoubleSwap, Signed(VarSwap(0, 3), {0, 3})}

(* The permutations of one subgroup are linked by the literals they move.  *)
LinkedPairs ==
  {s \in [1 .. 2 -> MCSymmetries] : Domain(s[1]) \cap Domain(s[2]) # {}}

OneGroup(ps, ms) == <<[permutations |-> ps, matrices |-> ms]>>

Row(v) == <<MkLit(v, FALSE), MkLit(v, TRUE)>>
NegatedRow(v) == <<MkLit(v, TRUE), MkLit(v, FALSE)>>

MCGroupLists ==
  {OneGroup(s, <<>>) : s \in LinkedPairs}
    \cup {OneGroup(<<p>>, <<<<Row(0), Row(1), NegatedRow(2)>>>>) :
            p \in {Flip({0, 1}), DoubleSwap, Flip({1, 2, 3})}}
    \cup {OneGroup(<<Swap(0, 1)>>, <<>>) \o OneGroup(<<Swap(2, 3)>>, <<>>),
          OneGroup(<<Flip({0, 1})>>, <<>>) \o OneGroup(<<Swap(2, 3)>>, <<>>)}

Conf(binary, length) ==
  [useBinaryClauses |-> binary, useShatterTranslation |-> FALSE,
   useFullTranslation |-> FALSE, symBreakingFormLength |-> length]

MCConfigs == {Conf(TRUE, 50), Conf(FALSE, 1)}
=============================================================================
