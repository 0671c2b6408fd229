----------------------------- MODULE MCBreaker -----------------------------
(* One call for each of the 384 permutations of the literals of four       *)
(* variables.  The encoding treats all variables alike, so one order       *)
(* stands for all of them.                                                 *)
EXTENDS Breaker, SignedPerms

MCSymmetries == AllSigned
MCOrders == {[k \in 1 .. NVars |-> MkLit(k - 1, FALSE)]}

Conf(shatter, full, length) ==
  [useBinaryClauses |-> TRUE, useShatterTranslation |-> shatter,
   useFullTranslation |-> full, symBreakingFormLength |-> length]

MCConfigs == {Conf(FALSE, FALSE, 50), Conf(FALSE, TRUE, 1),
              Conf(TRUE, FALSE, 0)}
=============================================================================
