---------------------------- MODULE Assignments ----------------------------
(***************************************************************************)
(* What a symmetry breaking clause is about: assignments of the variables  *)
(* of the CNF, the action of a permutation of literals on them, and the    *)
(* lexicographic order that the clauses encode.  Nothing here is code: the *)
(* properties compare the clauses BreakID adds with these definitions.     *)
(***************************************************************************)
EXTENDS Perms

(* An assignment is the set of the variables it makes true.  It may also   *)
(* contain variables from NVars on, the ones the breaker introduces.       *)
Assignments == SUBSET Vars

True(a, l) == VarOf(l) \in a <=> ~Sign(l)

Satisfies(a, clause) == \E k \in 1 .. Len(clause) : True(a, clause[k])

SatisfiesAll(a, cls) == \A c \in cls : Satisfies(a, c)

(* The assignments of the original variables that can be extended to the   *)
(* n variables from NVars on so that all clauses hold.                     *)
Extensions(a, n) == {a \cup aux : aux \in SUBSET (NVars .. NVars + n - 1)}

Models(cls, n) ==
  {a \in Assignments : \E b \in Extensions(a, n) : SatisfiesAll(b, cls)}

(* The assignment that gives every variable the value of its image.        *)
Image(a, p) == {v \in Vars : True(a, p[MkLit(v, FALSE)])}

(* a comes no later than its image under p when the literals of the first  *)
(* n positions of the order are compared in turn, false before true.       *)
LexLeq(a, p, order, n) ==
  \A j \in 1 .. n :
     (\A k \in 1 .. j - 1 : True(a, order[k]) <=> True(a, p[order[k]]))
       => (True(a, order[j]) => True(a, p[order[j]]))

ImagesUnder(gens, S) == {Image(b, p) : b \in S, p \in gens}

(* The assignments that the permutations of gens make from those of S:     *)
(* the union of the orbits that S meets.                                   *)
OrbitsMeeting(gens, S) ==
  LET reach[n \in Nat] ==
        IF n = 0 THEN S
        ELSE LET last == reach[n - 1]
             IN  last \cup ImagesUnder(gens, last)
  IN  reach[2 ^ NVars]
=============================================================================
