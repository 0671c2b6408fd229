--------------------------- MODULE GroupBreaking ---------------------------
(***************************************************************************)
(* BreakID::break_symm once the matrices are detected: for one subgroup    *)
(* after the other, Group::addBreakingClausesTo (Algebraic.cpp) chooses an *)
(* order of the literals, adds binary clauses for the large orbits it      *)
(* meets on the way, and has the breaker encode every permutation and      *)
(* every swap of two consecutive matrix rows.                              *)
(*                                                                         *)
(* The order is chosen along a chain of stabilizers: a literal of a large  *)
(* orbit comes first, the permutations that move it are dropped, and the   *)
(* search goes on with the others.  The iteration orders of the unordered  *)
(* containers are left open.                                               *)
(***************************************************************************)
EXTENDS Breaker

LOCAL INSTANCE SequencesExt

CONSTANT GroupLists    \* the lists of subgroups break_symm may work on

(* A matrix is a sequence of rows, a row a sequence of literals. *)
GroupType == [permutations : Seq(Symmetries), matrices : Seq(Seq(Seq(Lits)))]

LitsIn(ms) ==
  UNION {UNION {ToSet(ms[m][r]) : r \in 1 .. Len(ms[m])} : m \in 1 .. Len(ms)}

(* The swaps of two consecutive rows, matrix by matrix. *)
RowSwaps(ms) ==
  FlattenSeq([m \in 1 .. Len(ms) |->
    [r \in 1 .. Len(ms[m]) - 1 |-> RowSwap(ms[m][r], ms[m][r + 1])]])

(* The literals that the permutations of a subgroup move, and those of its *)
(* matrices.                                                               *)
Support(group) ==
  (UNION {Domain(p) : p \in ToSet(group.permutations)}) \cup LitsIn(group.matrices)

(* What the steps before leave behind.  Subgroups are disjoint             *)
(* (constructSubGroups); the rows of a matrix hold a literal with its      *)
(* negation, and exchanging two of them is a symmetry (addMatrices).       *)
ASSUME GroupListsAssumption ==
  \A list \in GroupLists :
     /\ list \in Seq(GroupType)
     /\ \A k \in 1 .. Len(list) :
           /\ \A l \in LitsIn(list[k].matrices) : Neg(l) \in LitsIn(list[k].matrices)
           /\ ToSet(RowSwaps(list[k].matrices)) \subseteq LitPerms
     /\ \A k, m \in 1 .. Len(list) :
           k # m => Support(list[k]) \cap Support(list[m]) = {}

VARIABLES
  groups,        \* PrivateData::subgroups
  g,             \* the subgroup at work, 0 before the first
  phase,         \* the part of addBreakingClausesTo that runs
  perms,         \* the permutations that stabilize the order so far
  finalLit,      \* the literal chosen last and its orbit
  finalOrb,
  j,             \* the position of the running loop over a vector
  out_order,     \* the order under construction
  nbBinClauses   \* a statistic of the breaker

groupVars == <<groups, g, phase, perms, finalLit, finalOrb, j, out_order,
               nbBinClauses>>
allVars == <<vars, groupVars>>

Phases == {"idle", "pick", "eliminate", "rest", "perms", "rows"}

permutations == groups[g].permutations
matrices == groups[g].matrices

Moves(p, l) == p[l] # l                                       \* permutes

MatrixLits == LitsIn(matrices)

-----------------------------------------------------------------------------
(* getOrbits2: the orbits that contain a positive literal the permutations *)
(* move.                                                                   *)
Orbits(ps) ==
  {OrbitOf(ToSet(ps), l) : l \in UNION {PosDomain(p) : p \in ToSet(ps)}}

(* getPosLitOccurrenceCount: how many of the permutations move l. *)
Occurrence(ps, l) ==
  Cardinality({k \in 1 .. Len(ps) : l \in PosDomain(ps[k])})

(* The literals of the orbit that may be chosen. *)
Candidates(ps, orbit) ==
  {l \in orbit : l \notin MatrixLits /\ Occurrence(ps, l) > 0}

NoChoice(ps) == [lit |-> Undef, orb |-> {}, occurrence |-> Len(ps) + 1]

(* The loop body of addBinaryClausesTo: an orbit that is not smaller than  *)
(* the best one so far replaces it if one of its literals occurs less      *)
(* often.  Of several such literals the first met is taken.                *)
Replace(ps, best, orbit) ==
  LET better == {l \in Candidates(ps, orbit) :
                   Occurrence(ps, l) < best.occurrence}
  IN  IF Cardinality(orbit) < Cardinality(best.orb) \/ better = {} THEN {best}
      ELSE {[lit |-> l, orb |-> orbit, occurrence |-> Occurrence(ps, l)] :
              l \in {m \in better : \A n \in better :
                       Occurrence(ps, m) <= Occurrence(ps, n)}}

(* The loop over the orbits, met in the order of s. *)
Scan(ps, s) ==
  LET best[k \in 0 .. Len(s)] ==
        IF k = 0 THEN {NoChoice(ps)}
        ELSE UNION {Replace(ps, b, s[k]) : b \in best[k - 1]}
  IN  best[Len(s)]

(* An unordered set of orbits may be met in every order. *)
Picks(ps) == UNION {Scan(ps, s) : s \in SetToSeqs(Orbits(ps))}

-----------------------------------------------------------------------------
GroupInit ==
  /\ Init
  /\ groups \in GroupLists
  /\ g = 0 /\ phase = "idle"
  /\ perms = <<>> /\ finalLit = Undef /\ finalOrb = {} /\ j = 0
  /\ out_order = <<>>
  /\ nbBinClauses = 0

(* The next turn of the loop over the subgroups. *)
NextGroup ==
  /\ phase = "idle" /\ g < Len(groups)
  /\ g' = g + 1
  /\ out_order' = <<>>
  /\ perms' = IF conf.useBinaryClauses THEN groups[g + 1].permutations ELSE <<>>
  /\ phase' = IF conf.useBinaryClauses THEN "pick" ELSE "rest"
  /\ UNCHANGED <<vars, groups, finalLit, finalOrb, j, nbBinClauses>>

(* addBinaryClausesTo: a literal is found.  It implies every literal of    *)
(* its orbit.                                                              *)
PickLiteral ==
  /\ phase = "pick" /\ perms # <<>>
  /\ \E c \in Picks(perms) :
       /\ c.lit # Undef
       /\ clauses' = clauses \cup {<<Neg(c.lit), l>> : l \in c.orb \ {c.lit}}
       /\ nbBinClauses' = nbBinClauses + Cardinality(c.orb) - 1
       /\ out_order' = Append(out_order, c.lit)
       /\ finalLit' = c.lit /\ finalOrb' = c.orb
  /\ phase' = "eliminate" /\ j' = 1
  /\ UNCHANGED <<nbExtraVars, nbRegClauses, arguments, frame, pc, i,
                 allowedLits, encoded, groups, g, perms>>

(* addBinaryClausesTo: no orbit is left with a literal outside the         *)
(* matrices.                                                               *)
NoLiteralLeft ==
  /\ phase = "pick" /\ perms # <<>>
  /\ \E c \in Picks(perms) : c.lit = Undef
  /\ perms' = <<>>
  /\ UNCHANGED <<vars, groups, g, phase, finalLit, finalOrb, j, out_order,
                 nbBinClauses>>

EndBinary ==
  /\ phase = "pick" /\ perms = <<>>
  /\ phase' = "rest"
  /\ UNCHANGED <<vars, groups, g, perms, finalLit, finalOrb, j, out_order,
                 nbBinClauses>>

(* Variant: the permutation moved into the gap is not examined. *)
EliminateSkipping ==
  /\ phase = "eliminate" /\ j <= Len(perms)
  /\ IF Moves(perms[j], finalLit)
     THEN perms' = [k \in 1 .. Len(perms) - 1 |->
                      IF k = j THEN perms[Len(perms)] ELSE perms[k]]
     ELSE perms' = perms
  /\ j' = j + 1
  /\ UNCHANGED <<vars, groups, g, phase, finalLit, finalOrb, out_order,
                 nbBinClauses>>

(* Variant: the vector is not shrunk. *)
EliminateKeeping ==
  /\ phase = "eliminate" /\ j <= Len(perms)
  /\ IF Moves(perms[j], finalLit)
     THEN perms' = [perms EXCEPT ![j] = perms[Len(perms)]] /\ j' = j
     ELSE perms' = perms /\ j' = j + 1
  /\ UNCHANGED <<vars, groups, g, phase, finalLit, finalOrb, out_order,
                 nbBinClauses>>

(* eliminateNonStabilizers: a permutation that moves the literal gives its *)
(* place to the last one, which is examined next.                          *)
Eliminate ==
  /\ phase = "eliminate" /\ j <= Len(perms)
  /\ IF Moves(perms[j], finalLit)
     THEN /\ perms' = [k \in 1 .. Len(perms) - 1 |->
                         IF k = j THEN perms[Len(perms)] ELSE perms[k]]
          /\ j' = j
     ELSE perms' = perms /\ j' = j + 1
  /\ UNCHANGED <<vars, groups, g, phase, finalLit, finalOrb, out_order,
                 nbBinClauses>>

EndEliminate ==
  /\ phase = "eliminate" /\ j > Len(perms)
  /\ phase' = "pick"
  /\ UNCHANGED <<vars, groups, g, perms, finalLit, finalOrb, j, out_order,
                 nbBinClauses>>

(* Variant: the literals chosen already are not left out. *)
UnorderedAgain ==
  {l \in UNION {PosDomain(p) : p \in ToSet(permutations)} : l \notin MatrixLits}

(* The positive literals outside the matrices and not yet in the order. *)
Unordered ==
  {l \in UNION {PosDomain(p) : p \in ToSet(permutations)} :
     /\ l \notin MatrixLits
     /\ l \notin ToSet(out_order) /\ Neg(l) \notin ToSet(out_order)}

(* The literals of s in turn, each variable once. *)
EachVariableOnce(s) ==
  LET taken[n \in 0 .. Len(s)] ==
        IF n = 0 THEN <<>>
        ELSE IF s[n] \in ToSet(taken[n - 1]) \/ Neg(s[n]) \in ToSet(taken[n - 1])
        THEN taken[n - 1] ELSE Append(taken[n - 1], s[n])
  IN  taken[Len(s)]

(* The matrices, row by row. *)
MatrixOrder == EachVariableOnce(FlattenSeq(FlattenSeq(matrices)))

(* getOrderAndAddBinaryClausesTo: the remaining literals by increasing     *)
(* occurrence, equal ones in any order, then the literals of the matrices. *)
OrderRest ==
  /\ phase = "rest"
  /\ \E s \in SetToSeqs(Unordered) :
       /\ \A k \in 1 .. Len(s) - 1 :
             Occurrence(permutations, s[k]) <= Occurrence(permutations, s[k + 1])
       /\ out_order' = out_order \o s \o MatrixOrder
  /\ phase' = "perms" /\ j' = 1
  /\ UNCHANGED <<vars, groups, g, perms, finalLit, finalOrb, nbBinClauses>>

(* The loop over the permutations: the next one is encoded, with a limit. *)
BreakPermutation ==
  /\ phase = "perms" /\ pc = "idle" /\ j <= Len(permutations)
  /\ AddSym(permutations[j], out_order, TRUE)
  /\ j' = j + 1
  /\ UNCHANGED <<groups, g, phase, perms, finalLit, finalOrb, out_order,
                 nbBinClauses>>

EndPermutations ==
  /\ phase = "perms" /\ pc = "idle" /\ j > Len(permutations)
  /\ phase' = "rows" /\ j' = 1
  /\ UNCHANGED <<vars, groups, g, perms, finalLit, finalOrb, out_order,
                 nbBinClauses>>

(* The loop over the matrices: the next row swap is encoded, unlimited. *)
BreakRowSwap ==
  /\ phase = "rows" /\ pc = "idle" /\ j <= Len(RowSwaps(matrices))
  /\ AddSym(RowSwaps(matrices)[j], out_order, FALSE)
  /\ j' = j + 1
  /\ UNCHANGED <<groups, g, phase, perms, finalLit, finalOrb, out_order,
                 nbBinClauses>>

(* A step of the breaker on the symmetry at hand. *)
EncodeStep ==
  /\ Step
  /\ UNCHANGED <<groups, g, phase, perms, finalLit, finalOrb, j, out_order,
                 nbBinClauses>>

EndGroup ==
  /\ phase = "rows" /\ pc = "idle" /\ j > Len(RowSwaps(matrices))
  /\ phase' = "idle"
  /\ UNCHANGED <<vars, groups, g, perms, finalLit, finalOrb, j, out_order,
                 nbBinClauses>>

GroupNext ==
  \/ NextGroup \/ PickLiteral \/ NoLiteralLeft \/ EndBinary \/ Eliminate
  \/ EndEliminate \/ OrderRest \/ BreakPermutation \/ EndPermutations
  \/ BreakRowSwap \/ EncodeStep \/ EndGroup

(* A sequential program: whatever it can do next, it does. *)
GroupSpec == GroupInit /\ [][GroupNext]_allVars /\ WF_allVars(GroupNext)

Done == phase = "idle" /\ g = Len(groups)

-----------------------------------------------------------------------------
(* All symmetries of all subgroups. *)
Generators ==
  UNION {ToSet(groups[k].permutations) \cup ToSet(RowSwaps(groups[k].matrices)) :
           k \in 1 .. Len(groups)}

(* Whenever a subgroup is finished the clauses exclude no orbit: every     *)
(* assignment has a symmetric one that satisfies them all, so a formula    *)
(* with these symmetries that was satisfiable stays so.  The binary        *)
(* clauses of the stabilizer chain, the encodings of all permutations and  *)
(* row swaps and the clauses of all subgroups agree on a common survivor.  *)
EveryOrbitSurvives ==
  phase = "idle" =>
    OrbitsMeeting(Generators, Models(clauses, nbExtraVars)) = Assignments

(* "The order is a list of literals, such that for each literal l, neg(l)  *)
(* is not in the order": it has exactly one literal of every variable that *)
(* a permutation or a row swap of the subgroup moves.                      *)
OrderComplete ==
  phase \in {"perms", "rows"} =>
    /\ IsOrder(out_order)
    /\ \A p \in ToSet(permutations) \cup ToSet(RowSwaps(matrices)) :
          Covers(out_order, p)

(* While literals are chosen, the permutations that are left fix every     *)
(* literal chosen before: the next orbit is an orbit of a stabilizer.      *)
OnlyStabilizersLeft ==
  phase = "pick" =>
    \A m \in 1 .. Len(perms), k \in 1 .. Len(out_order) :
       ~Moves(perms[m], out_order[k])

(* The order is found and all symmetries are encoded at last: every choice *)
(* of a literal drops at least one permutation.                            *)
Termination == <>Done
=============================================================================
