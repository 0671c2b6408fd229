---------------------------- MODULE MCPrimeSplit ----------------------------
(* All 3840 permutations of the literals of five variables: cycles of      *)
(* lengths 2, 3, 4, 5, 6, 8 and 10 and their combinations.                 *)
EXTENDS PrimeSplit, SignedPerms

MCPool == AllSigned
=============================================================================
