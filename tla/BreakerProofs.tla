--------------------------- MODULE BreakerProofs ---------------------------
(***************************************************************************)
(* For every number of variables, every set of symmetries and orders, any  *)
(* number of calls and all three translations: the clauses of addSym allow *)
(* exactly the assignments that precede their images (EncodesLexLeader).   *)
(*                                                                         *)
(* Two facts carry the induction.  MarkInv says what the backward loop     *)
(* leaves behind: a moved literal is unmarked only if it is the last of    *)
(* its cycle in the order, so that skipping it is no loss                  *)
(* (SkippedIsEqual).  CompleteInv and SoundOn relate the chain of new      *)
(* variables to the part of the order walked so far: equality up to        *)
(* position i - 1 makes the chain hold in every model, and every allowed   *)
(* assignment has a model in which the chain holds only then.              *)
(***************************************************************************)
EXTENDS Breaker, AssignmentsProofs, SequenceTheorems

-----------------------------------------------------------------------------
EncodedRecord ==
  {r \in [perm : LitPerms, order : Seq(Lits), upto : Nat, firstVar : Nat] :
     r.upto <= Len(r.order)}

(* The assignment respects everything that is recorded in E. *)
AllLex(E, a) ==
  \A k \in 1 .. Len(E) : LexLeq(a, E[k].perm, E[k].order, E[k].upto)

(* The forward loop may still add constraints. *)
Going == pc = "constrain" /\ i <= Len(order)

(* What the next constraint is conditional on: the previous literal equals *)
(* its image or is larger, and so on down the chain of new variables.      *)
ChainHolds(b) ==
  /\ nrExtraConstrs >= 1 => (True(b, prevSym) => True(b, prevLit))
  /\ nrExtraConstrs >= 2 => True(b, prevTst)

(* The record of the running call and the arguments of the call agree. *)
LoopInv ==
  /\ IsFiniteSet(clauses) /\ current <= Cardinality(clauses)
  /\ encoded \in Seq(EncodedRecord)
  /\ Covers(order, perm)
  /\ pc # "idle" =>
       /\ Len(encoded) > 0
       /\ encoded[Len(encoded)].perm = perm
       /\ encoded[Len(encoded)].order = order
       /\ encoded[Len(encoded)].upto = IF pc = "mark" THEN 0 ELSE i - 1
  /\ pc = "mark" => i <= Len(order) /\ nrExtraConstrs = 0
  /\ pc = "constrain" => i >= 1
  /\ Going /\ nrExtraConstrs >= 1 => prevLit \in Lits /\ prevSym \in Lits
  /\ Going /\ nrExtraConstrs >= 2 =>
       prevTst \in 0 .. 2 * (NVars + nbExtraVars) - 1

(* The positions from m on are examined by the backward loop. *)
Examined(m) == pc = "constrain" \/ (pc = "mark" /\ m > i)

(* Position m has marked the other literals of its cycle. *)
HasMarked(m) == Examined(m) /\ OthersInCycle(perm, order[m]) \subseteq allowedLits

(* A marked literal was marked by some position; an examined position      *)
(* has marked its cycle or was marked from a position after it.            *)
MarkInv ==
  /\ pc # "idle" => \A x \in allowedLits : \E m \in 1 .. Len(order) :
       HasMarked(m) /\ x \in OthersInCycle(perm, order[m])
  /\ \A q \in 1 .. Len(order) : Examined(q) =>
       \E m \in q .. Len(order) :
          HasMarked(m) /\ (m = q \/ order[q] \in OthersInCycle(perm, order[m]))

(* Every model of the clauses precedes its images, and the chain holds in  *)
(* it as long as it equals its image.                                      *)
CompleteInv ==
  \A b \in SUBSET Nat : SatisfiesAll(b, clauses) =>
     /\ AllLex(encoded, b)
     /\ Going /\ EqUpTo(b, perm, order, i - 1) => ChainHolds(b)

(* Every assignment of S that precedes its images has an extension that is *)
(* a model, and in which the chain holds only if it equals its image.      *)
SoundOn(S) ==
  \A a \in S : AllLex(encoded, a) =>
     \E b \in Extensions(a, nbExtraVars) :
        /\ SatisfiesAll(b, clauses)
        /\ Going /\ ChainHolds(b) => EqUpTo(a, perm, order, i - 1)

(* Each constraint but the first of the call has a variable of its own.    *)
AuxInv ==
  /\ Len(encoded) > 0 =>
       nbExtraVars = encoded[Len(encoded)].firstVar
                       + (IF nrExtraConstrs = 0 THEN 0 ELSE nrExtraConstrs - 1)
  /\ limitExtraConstrs =>
       Len(encoded) > 0 /\ nrExtraConstrs <= conf.symBreakingFormLength + 1

(* The set S is there for the clauses that others add to the breaker: they  *)
(* narrow down which assignments have a model.                             *)
InvOn(S) == TypeOK /\ LoopInv /\ MarkInv /\ CompleteInv /\ SoundOn(S) /\ AuxInv

IInv == InvOn(Assignments)

-----------------------------------------------------------------------------
(* A literal in the cycle of y or of its negation is marked with it, if it *)
(* belongs to another variable.                                            *)
LEMMA InOthers ==
  ASSUME NEW p \in LitPerms, NEW y \in Lits, NEW l \in Lits,
         l \in Cycle(p, y) \/ Neg(l) \in Cycle(p, y), VarOf(l) # VarOf(y)
  PROVE  l \in OthersInCycle(p, y)
<1>1. l # y /\ Neg(l) # y /\ Neg(Neg(l)) = l
  BY LitFacts, NegFacts
<1>2. QED
  BY <1>1 DEF OthersInCycle

(* Conversely, a marked literal lies in the cycle of y or its negation.    *)
LEMMA OthersAround ==
  ASSUME NEW p \in LitPerms, NEW y \in Lits, NEW x \in OthersInCycle(p, y)
  PROVE  x \in Lits /\ (x \in Cycle(p, y) \/ Neg(x) \in Cycle(p, y))
<1>1. Cycle(p, y) \subseteq Lits
  BY CycleFacts
<1>2. \A z \in Cycle(p, y) : Neg(Neg(z)) = z /\ Neg(z) \in Lits
  BY <1>1, LitFacts, NegFacts
<1>3. QED
  BY <1>1, <1>2 DEF OthersInCycle

(* Literals of the formula in one cycle, up to negation, share it.         *)
LEMMA AroundTransitive ==
  ASSUME NEW p \in LitPerms, NEW y \in Lits, NEW x \in Lits,
         x \in Cycle(p, y) \/ Neg(x) \in Cycle(p, y),
         NEW l \in Cycle(p, x)
  PROVE  l \in Cycle(p, y) \/ Neg(l) \in Cycle(p, y)
<1>1. CASE x \in Cycle(p, y)
  BY <1>1, CycleTransitive
<1>2. CASE Neg(x) \in Cycle(p, y)
  BY <1>2, CycleTransitive, CycleNeg
<1>3. QED
  BY <1>1, <1>2

(* The heart of the backward loop: a literal without a constraint equals   *)
(* its image as soon as all earlier literals equal theirs.                 *)
LEMMA SkippedIsEqual ==
  ASSUME TypeOK, LoopInv, MarkInv, Going, ~Constrained(order[i]), NEW a,
         EqUpTo(a, perm, order, i - 1)
  PROVE  True(a, order[i]) <=> True(a, perm[order[i]])
<1> DEFINE l == order[i]
<1>1. /\ perm \in LitPerms /\ i \in 1 .. Len(order) /\ Len(order) \in Nat
      /\ \A k \in 1 .. Len(order) : order[k] \in Lits
      /\ \A j, k \in 1 .. Len(order) : j # k => VarOf(order[j]) # VarOf(order[k])
  BY DEF TypeOK, LoopInv, Going, IsOrder
<1>2. perm \in [Lits -> Lits] /\ \A x \in Lits : perm[Neg(x)] = Neg(perm[x])
  BY <1>1 DEF LitPerms
<1>3. CASE perm[l] = l
  BY <1>3
<1>4. CASE l \notin allowedLits
  <2>1. OthersInCycle(perm, l) \subseteq allowedLits
    BY <1>1, <1>4 DEF MarkInv, HasMarked, Examined, Going
  <2>2. SUFFICES ASSUME NEW x \in Cycle(perm, l) \ {l}, perm[x] # x
                 PROVE  True(a, x) <=> True(a, perm[x])
    BY <1>1, LastOfCycleEqual
  <2>3. x \in Lits /\ Neg(x) \in Lits
    BY <1>1, CycleFacts, LitFacts
  <2>4. x \in Domain(perm)
    BY <1>2, <2>2, <2>3 DEF Domain
  <2>5. PICK q \in 1 .. Len(order) : VarOf(order[q]) = VarOf(x)
    BY <2>4 DEF LoopInv, Covers
  <2>6. order[q] = x \/ order[q] = Neg(x)
    BY <1>1, <2>3, <2>5, SameVar, LitFacts
  <2>7. q # i
    <3>1. SUFFICES ASSUME q = i PROVE FALSE
      OBVIOUS
    <3>2. l = Neg(x)
      BY <2>2, <2>6, <3>1
    <3>3. l \in OthersInCycle(perm, l)
      BY <2>2, <3>2 DEF OthersInCycle
    <3>4. QED
      BY <1>4, <2>1, <3>3
  <2>8. l \in Cycle(perm, x) /\ Neg(l) \in Cycle(perm, Neg(x))
    BY <1>1, <2>2, <2>3, CycleSymmetric, CycleNeg
  <2>9. ~(q > i)
    <3>1. SUFFICES ASSUME q > i PROVE FALSE
      OBVIOUS
    <3>2. PICK m \in q .. Len(order) :
             /\ OthersInCycle(perm, order[m]) \subseteq allowedLits
             /\ m = q \/ order[q] \in OthersInCycle(perm, order[m])
      BY DEF MarkInv, HasMarked, Examined, Going
    <3> DEFINE y == order[m]
    <3>3. m \in 1 .. Len(order) /\ m # i /\ y \in Lits /\ VarOf(l) # VarOf(y)
      BY <1>1, <3>1, <3>2
    <3>4. Neg(Neg(x)) = x
      BY <2>3, LitFacts, NegFacts
    <3>5. x \in Cycle(perm, y) \/ Neg(x) \in Cycle(perm, y)
      <4>1. CASE m = q
        BY <1>1, <2>6, <3>3, <4>1, CycleFacts
      <4>2. CASE order[q] \in OthersInCycle(perm, y)
        BY <1>1, <2>6, <3>3, <3>4, <4>2, OthersAround
      <4>3. QED
        BY <3>2, <4>1, <4>2
    <3>6. l \in Cycle(perm, y) \/ Neg(l) \in Cycle(perm, y)
      BY <1>1, <2>3, <2>8, <3>3, <3>5, AroundTransitive
    <3>7. l \in OthersInCycle(perm, y)
      BY <1>1, <3>3, <3>6, InOthers
    <3>8. QED
      BY <1>4, <3>2, <3>7
  <2>10. q \in 1 .. i - 1
    BY <1>1, <2>7, <2>9
  <2>11. True(a, order[q]) <=> True(a, perm[order[q]])
    BY <2>10 DEF EqUpTo
  <2>12. (True(a, Neg(x)) <=> True(a, Neg(perm[x])))
           => (True(a, x) <=> True(a, perm[x]))
    BY <1>2, <2>3, TrueNeg, LitFacts
  <2>13. QED
    BY <1>2, <2>3, <2>6, <2>11, <2>12
<1>5. QED
  BY <1>3, <1>4 DEF Constrained

-----------------------------------------------------------------------------
(* What the clauses of one constraint say.  In every translation they make *)
(* the chain imply the new variable and the constraint.                    *)
LEMMA ClausesMean ==
  ASSUME NEW b, NEW l \in Lits, NEW sym \in Lits, NEW tst,
         nrExtraConstrs \in Nat,
         nrExtraConstrs >= 1 => tst \in Nat,
         nrExtraConstrs >= 1 => prevLit \in Lits,
         nrExtraConstrs >= 2 => prevTst \in Nat,
         SatisfiesAll(b, ConstraintClauses(l, sym, tst))
  PROVE  ChainHolds(b) => /\ nrExtraConstrs >= 1 => True(b, tst)
                          /\ True(b, l) => True(b, sym)
<1>1. /\ True(b, Neg(l)) <=> ~True(b, l)
      /\ nrExtraConstrs >= 1 => (True(b, Neg(tst)) <=> ~True(b, tst))
      /\ nrExtraConstrs >= 1 => (True(b, Neg(prevLit)) <=> ~True(b, prevLit))
      /\ nrExtraConstrs >= 2 => (True(b, Neg(prevTst)) <=> ~True(b, prevTst))
  BY TrueNeg, LitFacts
<1>2. CASE nrExtraConstrs = 0
  <2>1. Satisfies(b, <<Neg(l), sym>>)
    BY <1>2 DEF SatisfiesAll, ConstraintClauses, FirstClause
  <2>2. QED
    BY <1>1, <1>2, <2>1, Satisfies2, Satisfies3, Satisfies4
<1>3. CASE nrExtraConstrs = 1
  <2>1. CASE conf.useShatterTranslation
    <3>1. /\ Satisfies(b, <<Neg(prevLit), Neg(l), sym>>)
          /\ Satisfies(b, <<Neg(prevLit), tst>>)
          /\ Satisfies(b, <<prevSym, Neg(l), sym>>)
          /\ Satisfies(b, <<prevSym, tst>>)
      BY <1>3, <2>1 DEF SatisfiesAll, ConstraintClauses, SecondClausesShatter
    <3>2. QED
      BY <1>1, <1>3, <3>1, Satisfies2, Satisfies3, Satisfies4 DEF ChainHolds
  <2>2. CASE ~conf.useShatterTranslation
    <3>1. /\ Satisfies(b, <<prevSym, tst>>)
          /\ Satisfies(b, <<Neg(prevLit), tst>>)
          /\ Satisfies(b, <<Neg(tst), Neg(l), sym>>)
      BY <1>3, <2>2 DEF SatisfiesAll, ConstraintClauses, SecondClauses
    <3>2. QED
      BY <1>1, <1>3, <3>1, Satisfies2, Satisfies3, Satisfies4 DEF ChainHolds
  <2>3. QED
    BY <2>1, <2>2
<1>4. CASE nrExtraConstrs >= 2
  <2>1. CASE conf.useShatterTranslation
    <3>1. /\ Satisfies(b, <<Neg(prevTst), Neg(prevLit), Neg(l), sym>>)
          /\ Satisfies(b, <<Neg(prevTst), Neg(prevLit), tst>>)
          /\ Satisfies(b, <<Neg(prevTst), prevSym, Neg(l), sym>>)
          /\ Satisfies(b, <<Neg(prevTst), prevSym, tst>>)
      BY <1>4, <2>1 DEF SatisfiesAll, ConstraintClauses, LaterClausesShatter
    <3>2. QED
      BY <1>1, <1>4, <3>1, Satisfies2, Satisfies3, Satisfies4 DEF ChainHolds
  <2>2. CASE ~conf.useShatterTranslation
    <3>1. /\ Satisfies(b, <<prevSym, Neg(prevTst), tst>>)
          /\ Satisfies(b, <<Neg(prevLit), Neg(prevTst), tst>>)
          /\ Satisfies(b, <<Neg(tst), Neg(l), sym>>)
      BY <1>4, <2>2 DEF SatisfiesAll, ConstraintClauses, LaterClauses
    <3>2. QED
      BY <1>1, <1>4, <3>1, Satisfies2, Satisfies3, Satisfies4 DEF ChainHolds
  <2>3. QED
    BY <2>1, <2>2
<1>5. QED
  BY <1>2, <1>3, <1>4

(* And they say no more: an assignment that gives the new variable the     *)
(* truth value of the chain satisfies them if the chain implies the        *)
(* constraint.                                                             *)
LEMMA ClausesHold ==
  ASSUME NEW b, NEW l \in Lits, NEW sym \in Lits, NEW tst,
         nrExtraConstrs \in Nat,
         nrExtraConstrs >= 1 => tst \in Nat,
         nrExtraConstrs >= 1 => prevLit \in Lits /\ prevSym \in Lits,
         nrExtraConstrs >= 2 => prevTst \in Nat,
         nrExtraConstrs >= 1 => (True(b, tst) <=> ChainHolds(b)),
         ChainHolds(b) => (True(b, l) => True(b, sym))
  PROVE  SatisfiesAll(b, ConstraintClauses(l, sym, tst))
<1>1. /\ True(b, Neg(l)) <=> ~True(b, l)
      /\ nrExtraConstrs >= 1 => (True(b, Neg(tst)) <=> ~True(b, tst))
      /\ nrExtraConstrs >= 1 => /\ True(b, Neg(prevLit)) <=> ~True(b, prevLit)
                                /\ True(b, Neg(prevSym)) <=> ~True(b, prevSym)
      /\ nrExtraConstrs >= 2 => (True(b, Neg(prevTst)) <=> ~True(b, prevTst))
  BY TrueNeg, LitFacts
<1>2. CASE nrExtraConstrs = 0
  <2>1. Satisfies(b, <<Neg(l), sym>>)
    BY <1>1, <1>2, Satisfies2, Satisfies3, Satisfies4 DEF ChainHolds
  <2>2. QED
    BY <1>2, <2>1 DEF SatisfiesAll, ConstraintClauses, FirstClause
<1>3. CASE nrExtraConstrs = 1
  <2>1. /\ Satisfies(b, <<Neg(prevLit), Neg(l), sym>>)
        /\ Satisfies(b, <<Neg(prevLit), tst>>)
        /\ Satisfies(b, <<prevSym, Neg(l), sym>>)
        /\ Satisfies(b, <<prevSym, tst>>)
        /\ Satisfies(b, <<Neg(tst), Neg(l), sym>>)
        /\ Satisfies(b, <<Neg(tst), Neg(prevSym), prevLit>>)
    BY <1>1, <1>3, Satisfies2, Satisfies3, Satisfies4 DEF ChainHolds
  <2>2. QED
    BY <1>3, <2>1
       DEF SatisfiesAll, ConstraintClauses, SecondClauses, SecondClausesShatter
<1>4. CASE nrExtraConstrs >= 2
  <2>1. /\ Satisfies(b, <<Neg(prevTst), Neg(prevLit), Neg(l), sym>>)
        /\ Satisfies(b, <<Neg(prevTst), Neg(prevLit), tst>>)
        /\ Satisfies(b, <<Neg(prevTst), prevSym, Neg(l), sym>>)
        /\ Satisfies(b, <<Neg(prevTst), prevSym, tst>>)
    BY <1>1, <1>4, Satisfies2, Satisfies3, Satisfies4 DEF ChainHolds
  <2>2. /\ Satisfies(b, <<prevSym, Neg(prevTst), tst>>)
        /\ Satisfies(b, <<Neg(prevLit), Neg(prevTst), tst>>)
        /\ Satisfies(b, <<Neg(tst), Neg(l), sym>>)
        /\ Satisfies(b, <<Neg(tst), prevTst>>)
        /\ Satisfies(b, <<Neg(tst), Neg(prevSym), prevLit>>)
    BY <1>1, <1>4, Satisfies2, Satisfies3, Satisfies4 DEF ChainHolds
  <2>3. QED
    BY <1>4, <2>1, <2>2
       DEF SatisfiesAll, ConstraintClauses, LaterClauses, LaterClausesShatter
<1>5. QED
  BY <1>2, <1>3, <1>4

(* The sets of literals a constraint adds are finite. *)
LEMMA SmallSets ==
  ASSUME NEW w, NEW x, NEW y, NEW z
  PROVE  /\ IsFiniteSet({w}) /\ IsFiniteSet({w, x})
         /\ IsFiniteSet({w, x, y}) /\ IsFiniteSet({w, x, y, z})
<1>1. IsFiniteSet({w}) /\ IsFiniteSet({})
  BY FS_Singleton, FS_EmptySet
<1>2. IsFiniteSet({w} \cup {x})
  BY <1>1, FS_AddElement
<1>3. IsFiniteSet({w} \cup {x} \cup {y})
  BY <1>2, FS_AddElement
<1>4. IsFiniteSet({w} \cup {x} \cup {y} \cup {z})
  BY <1>3, FS_AddElement
<1>5. /\ {w, x} = {w} \cup {x} /\ {w, x, y} = {w} \cup {x} \cup {y}
      /\ {w, x, y, z} = {w} \cup {x} \cup {y} \cup {z}
  OBVIOUS
<1>6. QED
  BY <1>1, <1>2, <1>3, <1>4, <1>5

(* A constraint adds finitely many clauses. *)
LEMMA ClausesFinite ==
  ASSUME NEW l, NEW sym, NEW tst
  PROVE  IsFiniteSet(ConstraintClauses(l, sym, tst))
<1>1. IsFiniteSet({})
  BY FS_EmptySet
<1>2. IsFiniteSet(FirstClause(l, sym))
  BY SmallSets DEF FirstClause
<1>3. IsFiniteSet(SecondClauses(l, sym, tst))
  BY <1>1, SmallSets, FS_Union DEF SecondClauses
<1>4. IsFiniteSet(LaterClauses(l, sym, tst))
  BY <1>1, SmallSets, FS_Union DEF LaterClauses
<1>5. IsFiniteSet(SecondClausesShatter(l, sym, tst))
  BY SmallSets DEF SecondClausesShatter
<1>6. IsFiniteSet(LaterClausesShatter(l, sym, tst))
  BY SmallSets DEF LaterClausesShatter
<1>7. QED
  BY <1>2, <1>3, <1>4, <1>5, <1>6 DEF ConstraintClauses

(* The literals of the new clauses are those of the constraint, those of   *)
(* the previous one and their negations.                                   *)
LEMMA ClausesFrom ==
  ASSUME NEW R, \A m \in R : Neg(m) \in R,
         NEW l \in R, NEW sym \in R, NEW tst, nrExtraConstrs \in Nat,
         nrExtraConstrs >= 1 => prevLit \in R /\ prevSym \in R /\ tst \in R,
         nrExtraConstrs >= 2 => prevTst \in R
  PROVE  \A c \in ConstraintClauses(l, sym, tst) :
            \A k \in 1 .. Len(c) : c[k] \in R
<1> DEFINE Typed(c) == \A k \in 1 .. Len(c) : c[k] \in R
<1>1. \A m \in R : Neg(m) \in R
  OBVIOUS
<1>2. \A w, x \in R : Typed(<<w, x>>)
  BY 1 .. 2 = {1, 2}
<1>3. \A w, x, y \in R : Typed(<<w, x, y>>)
  BY 1 .. 3 = {1, 2, 3}
<1>4. \A w, x, y, z \in R : Typed(<<w, x, y, z>>)
  BY 1 .. 4 = {1, 2, 3, 4}
<1>5. l \in R /\ Neg(l) \in R /\ sym \in R
  BY <1>1
<1>6. nrExtraConstrs >= 1 =>
        /\ prevLit \in R /\ Neg(prevLit) \in R
        /\ prevSym \in R /\ Neg(prevSym) \in R
        /\ tst \in R /\ Neg(tst) \in R
  BY <1>1
<1>7. nrExtraConstrs >= 2 => prevTst \in R /\ Neg(prevTst) \in R
  BY <1>1
<1> HIDE DEF Typed
<1>8. CASE nrExtraConstrs = 0
  <2>1. \A c \in ConstraintClauses(l, sym, tst) : Typed(c)
    BY <1>2, <1>5, <1>8 DEF ConstraintClauses, FirstClause
  <2>2. QED
    BY <2>1 DEF Typed
<1>9. nrExtraConstrs >= 2 => nrExtraConstrs >= 1
  OBVIOUS
<1>10. CASE nrExtraConstrs = 1
  <2>1. /\ prevLit \in R /\ Neg(prevLit) \in R /\ prevSym \in R
        /\ Neg(prevSym) \in R /\ tst \in R /\ Neg(tst) \in R
    BY <1>6, <1>10
  <2>2. /\ Typed(<<prevSym, tst>>) /\ Typed(<<Neg(prevLit), tst>>)
        /\ Typed(<<Neg(tst), Neg(l), sym>>)
        /\ Typed(<<Neg(tst), Neg(prevSym), prevLit>>)
    BY <1>2, <1>3, <1>5, <2>1
  <2>3. /\ Typed(<<Neg(prevLit), Neg(l), sym>>) /\ Typed(<<prevSym, Neg(l), sym>>)
    BY <1>3, <1>5, <2>1
  <2>4. \A c \in SecondClauses(l, sym, tst) : Typed(c)
    BY <2>2 DEF SecondClauses
  <2>5. \A c \in SecondClausesShatter(l, sym, tst) : Typed(c)
    BY <2>2, <2>3 DEF SecondClausesShatter
  <2>6. \A c \in ConstraintClauses(l, sym, tst) : Typed(c)
    BY <1>10, <2>4, <2>5 DEF ConstraintClauses
  <2>7. QED
    BY <2>6 DEF Typed
<1>11. CASE nrExtraConstrs >= 2
  <2>1. /\ prevLit \in R /\ Neg(prevLit) \in R /\ prevSym \in R
        /\ Neg(prevSym) \in R /\ tst \in R /\ Neg(tst) \in R
        /\ prevTst \in R /\ Neg(prevTst) \in R
    BY <1>6, <1>7, <1>9, <1>11
  <2>2. /\ Typed(<<prevSym, Neg(prevTst), tst>>)
        /\ Typed(<<Neg(prevLit), Neg(prevTst), tst>>)
        /\ Typed(<<Neg(tst), Neg(l), sym>>)
        /\ Typed(<<Neg(tst), prevTst>>)
        /\ Typed(<<Neg(tst), Neg(prevSym), prevLit>>)
    BY <1>2, <1>3, <1>5, <2>1
  <2>3. /\ Typed(<<Neg(prevTst), Neg(prevLit), Neg(l), sym>>)
        /\ Typed(<<Neg(prevTst), Neg(prevLit), tst>>)
        /\ Typed(<<Neg(prevTst), prevSym, Neg(l), sym>>)
        /\ Typed(<<Neg(prevTst), prevSym, tst>>)
    BY <1>3, <1>4, <1>5, <2>1
  <2>4. \A c \in LaterClauses(l, sym, tst) : Typed(c)
    BY <2>2 DEF LaterClauses
  <2>5. \A c \in LaterClausesShatter(l, sym, tst) : Typed(c)
    BY <2>3 DEF LaterClausesShatter
  <2>6. ConstraintClauses(l, sym, tst) \in
          {LaterClauses(l, sym, tst), LaterClausesShatter(l, sym, tst)}
    BY <1>11 DEF ConstraintClauses
  <2>7. \A c \in ConstraintClauses(l, sym, tst) : Typed(c)
    BY <2>4, <2>5, <2>6
  <2>8. QED
    BY <2>7 DEF Typed
<1>12. QED
  BY <1>8, <1>10, <1>11

(* In particular they are literals of existing variables and of the new one. *)
LEMMA ClausesTyped ==
  ASSUME NEW n \in Nat, NEW l \in 0 .. 2 * n - 1, NEW sym \in 0 .. 2 * n - 1,
         NEW tst, nrExtraConstrs \in Nat,
         nrExtraConstrs >= 1 => /\ prevLit \in 0 .. 2 * n - 1
                                /\ prevSym \in 0 .. 2 * n - 1
                                /\ tst \in 0 .. 2 * n - 1,
         nrExtraConstrs >= 2 => prevTst \in 0 .. 2 * n - 1
  PROVE  \A c \in ConstraintClauses(l, sym, tst) :
            \A k \in 1 .. Len(c) : c[k] \in 0 .. 2 * n - 1
<1>1. \A m \in 0 .. 2 * n - 1 : Neg(m) \in 0 .. 2 * n - 1
  BY SMT DEF Neg
<1>2. QED
  BY <1>1, ClausesFrom

-----------------------------------------------------------------------------
(* The identity is a permutation of the literals and moves nothing. *)
LEMMA IdPermFacts == IdPerm \in LitPerms /\ Domain(IdPerm) = {}
<1>1. \A l \in Lits : Neg(l) \in Lits
  BY LitFacts
<1>2. QED
  BY <1>1 DEF IdPerm, LitPerms, Domain

(* The breaker starts empty: nothing is encoded and nothing is required. *)
LEMMA InitIInv == Init => IInv
<1> SUFFICES ASSUME Init PROVE IInv
  OBVIOUS
<1>1. IsFiniteSet(clauses) /\ Cardinality(clauses) = 0
  BY FS_EmptySet DEF Init
<1>2. order \in Seq(Lits) /\ Len(order) = 0 /\ Len(encoded) = 0
  BY DEF Init
<1>3. TypeOK
  <2>1. IsOrder(order)
    BY <1>2 DEF IsOrder
  <2>2. i \in 0 .. Len(order) + 1
    BY <1>2 DEF Init
  <2>3. QED
    BY <2>1, <2>2, IdPermFacts DEF Init, TypeOK
<1>4. LoopInv
  BY <1>1, <1>2, IdPermFacts DEF Init, LoopInv, Covers, Going
<1>5. MarkInv
  BY <1>2 DEF Init, MarkInv, Examined
<1>6. CompleteInv
  BY <1>2 DEF Init, CompleteInv, AllLex, Going
<1>7. SoundOn(Assignments)
  <2>1. SUFFICES ASSUME NEW a \in Assignments
                 PROVE  \E b \in Extensions(a, nbExtraVars) : SatisfiesAll(b, clauses)
    BY DEF Init, SoundOn, Going
  <2>2. a \cup {} \in Extensions(a, nbExtraVars)
    BY DEF Extensions
  <2>3. SatisfiesAll(a \cup {}, clauses)
    BY DEF Init, SatisfiesAll
  <2>4. QED
    BY <2>2, <2>3
<1>8. AuxInv
  BY <1>2 DEF Init, AuxInv
<1>9. QED
  BY <1>3, <1>4, <1>5, <1>6, <1>7, <1>8 DEF IInv, InvOn

-----------------------------------------------------------------------------
(* What the record of the calls says before a step of the forward loop.    *)
AllLexBut(E, a) ==
  \A k \in 1 .. Len(E) - 1 : LexLeq(a, E[k].perm, E[k].order, E[k].upto)

(* While a symmetry is encoded, what is required is the earlier ones and it. *)
LEMMA AllLexNow ==
  ASSUME LoopInv, pc = "constrain", NEW a
  PROVE  AllLex(encoded, a) <=>
           AllLexBut(encoded, a) /\ LexLeq(a, perm, order, i - 1)
<1>1. Len(encoded) \in Nat /\ Len(encoded) > 0
  BY DEF LoopInv
<1>2. 1 .. Len(encoded) = (1 .. Len(encoded) - 1) \cup {Len(encoded)}
  BY <1>1
<1>3. QED
  BY <1>1, <1>2 DEF AllLex, AllLexBut, LoopInv

(* And after the loop has walked n positions. *)
LEMMA EncodedFacts ==
  ASSUME TypeOK, LoopInv, pc # "idle", NEW n \in Nat, n <= Len(order)
  PROVE  /\ Encoded(n) \in Seq(EncodedRecord)
         /\ Len(Encoded(n)) = Len(encoded) /\ Len(encoded) > 0
         /\ Encoded(n)[Len(encoded)].perm = perm
         /\ Encoded(n)[Len(encoded)].order = order
         /\ Encoded(n)[Len(encoded)].upto = n
         /\ Encoded(n)[Len(encoded)].firstVar = encoded[Len(encoded)].firstVar
         /\ encoded[Len(encoded)].firstVar \in Nat
         /\ \A k \in 1 .. Len(encoded) - 1 : Encoded(n)[k] = encoded[k]
         /\ \A a : AllLex(Encoded(n), a) <=>
                    AllLexBut(encoded, a) /\ LexLeq(a, perm, order, n)
<1> DEFINE m == Len(encoded)
           r == [encoded[m] EXCEPT !.upto = n]
<1>1. encoded \in Seq(EncodedRecord) /\ m \in Nat /\ m > 0
      /\ encoded[m] \in EncodedRecord
  BY DEF LoopInv
<1>2. Encoded(n) = [encoded EXCEPT ![m] = r]
  BY DEF Encoded
<1>3. r \in EncodedRecord /\ encoded[m].firstVar \in Nat
  BY <1>1 DEF EncodedRecord, LoopInv
<1>4. r.perm = perm /\ r.order = order /\ r.upto = n
      /\ r.firstVar = encoded[m].firstVar
  BY <1>1 DEF LoopInv, EncodedRecord
<1> HIDE DEF r
<1>5. Encoded(n) \in Seq(EncodedRecord) /\ Len(Encoded(n)) = m
  BY <1>1, <1>2, <1>3
<1>6. Encoded(n)[m] = r /\ \A k \in 1 .. m - 1 : Encoded(n)[k] = encoded[k]
  BY <1>1, <1>2
<1>7. 1 .. m = (1 .. m - 1) \cup {m}
  BY <1>1
<1>8. \A a : AllLex(Encoded(n), a) <=>
               AllLexBut(encoded, a) /\ LexLeq(a, perm, order, n)
  BY <1>4, <1>5, <1>6, <1>7 DEF AllLex, AllLexBut
<1>9. QED
  BY <1>1, <1>3, <1>4, <1>5, <1>6, <1>8

-----------------------------------------------------------------------------
(* addSym: an empty prefix of the new symmetry requires nothing. *)
LEMMA AddSymStep ==
  ASSUME NEW S \in SUBSET Assignments, InvOn(S),
         NEW p \in LitPerms, NEW s, IsOrder(s), Covers(s, p),
         NEW limit \in BOOLEAN, AddSym(p, s, limit)
  PROVE  InvOn(S)'
<1> DEFINE rec == [perm |-> p, order |-> s, upto |-> 0, firstVar |-> nbExtraVars]
<1>1. /\ TypeOK /\ LoopInv /\ CompleteInv /\ SoundOn(S) /\ AuxInv
      /\ encoded \in Seq(EncodedRecord) /\ Len(encoded) \in Nat
  BY DEF InvOn, LoopInv
<1>2. p \in LitPerms /\ IsOrder(s) /\ Covers(s, p) /\ s \in Seq(Lits)
      /\ Len(s) \in Nat
  BY DEF IsOrder
<1>3. Cardinality(clauses) \in Nat
  BY <1>1, FS_CardinalityType DEF LoopInv
<1>4. TypeOK'
  <2>1. i' \in 0 .. Len(order') + 1
    BY <1>2 DEF AddSym
  <2>2. QED
    BY <1>1, <1>2, <1>3, <2>1 DEF AddSym, TypeOK, object
<1>5. rec \in EncodedRecord
  BY <1>1, <1>2 DEF EncodedRecord, TypeOK
<1>6. /\ encoded' \in Seq(EncodedRecord) /\ Len(encoded') = Len(encoded) + 1
      /\ encoded'[Len(encoded')] = rec
      /\ \A k \in 1 .. Len(encoded) : encoded'[k] = encoded[k]
  BY <1>1, <1>5 DEF AddSym
<1>7. LoopInv'
  BY <1>1, <1>2, <1>3, <1>6 DEF AddSym, LoopInv, Going, object
<1>8. MarkInv'
  BY <1>2 DEF AddSym, MarkInv, Examined
<1>9. \A a : AllLex(encoded', a) <=> AllLex(encoded, a)
  <2>1. \A a : LexLeq(a, rec.perm, rec.order, rec.upto)
    BY DEF LexLeq
  <2>2. 1 .. Len(encoded') = (1 .. Len(encoded)) \cup {Len(encoded')}
    BY <1>1, <1>6
  <2>3. QED
    BY <1>6, <2>1, <2>2 DEF AllLex
<1>10. ~Going'
  BY DEF AddSym, Going
<1>11. CompleteInv'
  BY <1>1, <1>9, <1>10 DEF AddSym, CompleteInv, object
<1>12. SoundOn(S)'
  BY <1>1, <1>9, <1>10 DEF AddSym, SoundOn, object
<1>13. AuxInv'
  BY <1>1, <1>6, ConfigsAssumption DEF AddSym, AuxInv, object, TypeOK
<1>14. QED
  BY <1>4, <1>7, <1>8, <1>11, <1>12, <1>13 DEF InvOn

(* One turn of the backward loop keeps the meaning of the marks. *)
LEMMA MarkStep ==
  ASSUME NEW S \in SUBSET Assignments, InvOn(S), Mark
  PROVE  InvOn(S)'
<1>1. /\ TypeOK /\ LoopInv /\ MarkInv /\ CompleteInv /\ SoundOn(S) /\ AuxInv
      /\ perm \in LitPerms /\ i \in 1 .. Len(order) /\ order[i] \in Lits
      /\ order \in Seq(Lits) /\ Len(order) \in Nat
  BY DEF InvOn, TypeOK, LoopInv, Mark, IsOrder
<1>2. /\ pc = "mark" /\ pc' = "mark" /\ i' = i - 1 /\ perm' = perm
      /\ order' = order /\ encoded' = encoded /\ clauses' = clauses
      /\ nbExtraVars' = nbExtraVars /\ nrExtraConstrs' = nrExtraConstrs
      /\ conf' = conf /\ limitExtraConstrs' = limitExtraConstrs
      /\ current' = current /\ nbRegClauses' = nbRegClauses
      /\ prevLit' = prevLit /\ prevSym' = prevSym /\ prevTst' = prevTst
  BY DEF Mark, object, arguments, frame
<1>3. OthersInCycle(perm, order[i]) \subseteq Lits
  BY <1>1, OthersAround
<1>4. allowedLits' \in {allowedLits, allowedLits \cup OthersInCycle(perm, order[i])}
  BY DEF Mark
<1>5. TypeOK'
  BY <1>1, <1>2, <1>3, <1>4 DEF TypeOK
<1>6. LoopInv'
  BY <1>1, <1>2 DEF LoopInv, Going
<1>7. MarkInv'
  <2>1. \A m \in 1 .. Len(order) : HasMarked(m) => HasMarked(m)'
    BY <1>1, <1>2, <1>4 DEF HasMarked, Examined
  <2>2. \A q \in 1 .. Len(order) : Examined(q)' => Examined(q) \/ q = i
    BY <1>1, <1>2 DEF Examined
  <2>3. CASE order[i] \in allowedLits
    <3>1. allowedLits' = allowedLits
      BY <2>3 DEF Mark
    <3>2. PICK m \in 1 .. Len(order) :
             HasMarked(m) /\ order[i] \in OthersInCycle(perm, order[m])
      BY <1>1, <1>2, <2>3 DEF MarkInv
    <3>3. m \in i .. Len(order)
      BY <1>1, <1>2, <3>2 DEF HasMarked, Examined
    <3>4. QED
      BY <1>1, <1>2, <2>1, <2>2, <3>1, <3>2, <3>3 DEF MarkInv
  <2>4. CASE order[i] \notin allowedLits
    <3>1. allowedLits' = allowedLits \cup OthersInCycle(perm, order[i])
      BY <2>4 DEF Mark
    <3>2. \A m \in 1 .. Len(order) : m = i => HasMarked(m)'
      BY <1>1, <1>2, <3>1 DEF HasMarked, Examined
    <3>3. i \in i .. Len(order)
      BY <1>1
    <3>4. \A x \in allowedLits' : \E m \in 1 .. Len(order) :
             HasMarked(m)' /\ x \in OthersInCycle(perm, order[m])
      BY <1>1, <1>2, <2>1, <3>1, <3>2 DEF MarkInv
    <3>5. \A q \in 1 .. Len(order) : Examined(q)' =>
            \E m \in q .. Len(order) :
               HasMarked(m)' /\ (m = q \/ order[q] \in OthersInCycle(perm, order[m]))
      <4>1. SUFFICES ASSUME NEW q \in 1 .. Len(order), Examined(q), q # i
                     PROVE  \E m \in q .. Len(order) : HasMarked(m)' /\
                              (m = q \/ order[q] \in OthersInCycle(perm, order[m]))
        BY <1>1, <2>2, <3>2, <3>3
      <4>2. PICK m \in q .. Len(order) :
               HasMarked(m) /\ (m = q \/ order[q] \in OthersInCycle(perm, order[m]))
        BY <1>1, <4>1 DEF MarkInv
      <4>3. m \in 1 .. Len(order)
        BY <4>2
      <4>4. QED
        BY <2>1, <4>2, <4>3
    <3>6. QED
      BY <1>2, <3>4, <3>5 DEF MarkInv
  <2>5. QED
    BY <2>3, <2>4
<1>8. CompleteInv' /\ SoundOn(S)'
  BY <1>1, <1>2 DEF CompleteInv, SoundOn, Going
<1>9. AuxInv'
  BY <1>1, <1>2 DEF AuxInv
<1>10. QED
  BY <1>5, <1>6, <1>7, <1>8, <1>9 DEF InvOn

(* The forward loop starts with an empty chain, which always holds. *)
LEMMA EndMarkStep ==
  ASSUME NEW S \in SUBSET Assignments, InvOn(S), EndMark
  PROVE  InvOn(S)'
<1>1. /\ TypeOK /\ LoopInv /\ MarkInv /\ CompleteInv /\ SoundOn(S) /\ AuxInv
      /\ order \in Seq(Lits) /\ Len(order) \in Nat
  BY DEF InvOn, TypeOK, IsOrder
<1>2. /\ pc = "mark" /\ i = 0 /\ pc' = "constrain" /\ i' = 1 /\ perm' = perm
      /\ order' = order /\ encoded' = encoded /\ clauses' = clauses
      /\ nbExtraVars' = nbExtraVars /\ nrExtraConstrs' = nrExtraConstrs
      /\ conf' = conf /\ limitExtraConstrs' = limitExtraConstrs
      /\ current' = current /\ nbRegClauses' = nbRegClauses
      /\ prevLit' = prevLit /\ prevSym' = prevSym /\ prevTst' = prevTst
      /\ allowedLits' = allowedLits
  BY DEF EndMark, object, arguments, frame
<1>3. nrExtraConstrs = 0
  BY <1>1, <1>2 DEF LoopInv
<1>4. TypeOK'
  BY <1>1, <1>2 DEF TypeOK
<1>5. LoopInv'
  BY <1>1, <1>2, <1>3 DEF LoopInv, Going
<1>6. MarkInv'
  <2>1. \A m \in 1 .. Len(order) : Examined(m) /\ Examined(m)'
    BY <1>1, <1>2 DEF Examined
  <2>2. \A m \in 1 .. Len(order) : HasMarked(m)' <=> HasMarked(m)
    BY <1>2, <2>1 DEF HasMarked
  <2>3. \A q \in 1 .. Len(order) : \A m \in q .. Len(order) : m \in 1 .. Len(order)
    BY <1>1
  <2>4. QED
    BY <1>1, <1>2, <2>1, <2>2, <2>3 DEF MarkInv
<1>7. CompleteInv'
  <2>1. \A b : ChainHolds(b)'
    BY <1>2, <1>3 DEF ChainHolds
  <2>2. QED
    BY <1>1, <1>2, <2>1 DEF CompleteInv
<1>8. SoundOn(S)'
  <2>1. \A a : EqUpTo(a, perm, order, 0)
    BY DEF EqUpTo
  <2>2. QED
    BY <1>1, <1>2, <2>1 DEF SoundOn
<1>9. AuxInv'
  BY <1>1, <1>2 DEF AuxInv
<1>10. QED
  BY <1>4, <1>5, <1>6, <1>7, <1>8, <1>9 DEF InvOn

-----------------------------------------------------------------------------
(* A literal without a constraint may be passed: it equals its image. *)
LEMMA SkipLitStep ==
  ASSUME NEW S \in SUBSET Assignments, InvOn(S), SkipLit
  PROVE  InvOn(S)'
<1>1. /\ TypeOK /\ LoopInv /\ MarkInv /\ CompleteInv /\ SoundOn(S) /\ AuxInv
      /\ i \in 1 .. Len(order) /\ i \in Nat /\ i - 1 \in Nat /\ (i - 1) + 1 = i
      /\ Len(order) \in Nat /\ Going /\ pc = "constrain"
  BY DEF InvOn, TypeOK, LoopInv, IsOrder, SkipLit, Running, Going
<1>2. /\ pc' = pc /\ i' = i + 1 /\ perm' = perm
      /\ order' = order /\ encoded' = Encoded(i) /\ clauses' = clauses
      /\ nbExtraVars' = nbExtraVars /\ nrExtraConstrs' = nrExtraConstrs
      /\ conf' = conf /\ limitExtraConstrs' = limitExtraConstrs
      /\ current' = current /\ nbRegClauses' = nbRegClauses
      /\ prevLit' = prevLit /\ prevSym' = prevSym /\ prevTst' = prevTst
      /\ allowedLits' = allowedLits
  BY DEF SkipLit, object, arguments, frame
<1>3. /\ Encoded(i) \in Seq(EncodedRecord)
      /\ Len(Encoded(i)) = Len(encoded) /\ Len(encoded) > 0
      /\ Encoded(i)[Len(encoded)].perm = perm
      /\ Encoded(i)[Len(encoded)].order = order
      /\ Encoded(i)[Len(encoded)].upto = i
      /\ Encoded(i)[Len(encoded)].firstVar = encoded[Len(encoded)].firstVar
      /\ \A a : AllLex(Encoded(i), a) <=>
                 AllLexBut(encoded, a) /\ LexLeq(a, perm, order, i)
  BY <1>1, EncodedFacts
<1>4. TypeOK'
  BY <1>1, <1>2 DEF TypeOK
<1>5. LoopInv'
  BY <1>1, <1>2, <1>3 DEF LoopInv, Going
<1>6. MarkInv'
  BY <1>1, <1>2 DEF MarkInv, HasMarked, Examined
<1>7. \A a : EqUpTo(a, perm, order, i) <=> EqUpTo(a, perm, order, i - 1)
  BY <1>1, EqStep, SkippedIsEqual DEF SkipLit
<1>8. ASSUME NEW a
      PROVE  LexLeq(a, perm, order, i) <=> LexLeq(a, perm, order, i - 1)
  <2>1. LexLeq(a, perm, order, (i - 1) + 1) <=>
          /\ LexLeq(a, perm, order, i - 1)
          /\ EqUpTo(a, perm, order, i - 1) =>
               (True(a, order[(i - 1) + 1]) => True(a, perm[order[(i - 1) + 1]]))
    BY <1>1, LexStep
  <2>2. EqUpTo(a, perm, order, i - 1) =>
          (True(a, order[i]) <=> True(a, perm[order[i]]))
    BY <1>1, SkippedIsEqual DEF SkipLit
  <2>3. QED
    BY <1>1, <2>1, <2>2
<1>9. \A a : AllLex(encoded', a) <=> AllLex(encoded, a)
  BY <1>1, <1>2, <1>3, <1>8, AllLexNow
<1>10. \A b : ChainHolds(b)' <=> ChainHolds(b)
  BY <1>2 DEF ChainHolds
<1>11. i' - 1 = i
  BY <1>1, <1>2
<1>12. CompleteInv'
  BY <1>1, <1>2, <1>7, <1>9, <1>10, <1>11 DEF CompleteInv
<1>13. SoundOn(S)'
  BY <1>1, <1>2, <1>7, <1>9, <1>10, <1>11 DEF SoundOn
<1>14. AuxInv'
  BY <1>1, <1>2, <1>3 DEF AuxInv
<1>15. QED
  BY <1>4, <1>5, <1>6, <1>12, <1>13, <1>14 DEF InvOn

(* The end of a call: whatever was left out follows or was cut by the limit. *)
LEMMA EndSymStep ==
  ASSUME NEW S \in SUBSET Assignments, InvOn(S), EndSym
  PROVE  InvOn(S)'
<1>1. /\ TypeOK /\ LoopInv /\ MarkInv /\ CompleteInv /\ SoundOn(S) /\ AuxInv
  BY DEF InvOn
<1>2. /\ pc' = "idle" /\ i' = i /\ perm' = perm
      /\ order' = order /\ encoded' = encoded /\ clauses' = clauses
      /\ nbExtraVars' = nbExtraVars /\ nrExtraConstrs' = nrExtraConstrs
      /\ conf' = conf /\ limitExtraConstrs' = limitExtraConstrs
      /\ current' = current
      /\ nbRegClauses' = nbRegClauses + (Cardinality(clauses) - current)
      /\ prevLit' = prevLit /\ prevSym' = prevSym /\ prevTst' = prevTst
      /\ allowedLits' = allowedLits
  BY DEF EndSym, arguments, frame
<1>3. nbRegClauses' \in Nat
  BY <1>1, <1>2, FS_CardinalityType DEF LoopInv, TypeOK
<1>4. TypeOK'
  BY <1>1, <1>2, <1>3 DEF TypeOK
<1>5. LoopInv'
  BY <1>1, <1>2 DEF LoopInv, Going
<1>6. MarkInv'
  BY <1>2 DEF MarkInv, Examined
<1>7. CompleteInv' /\ SoundOn(S)'
  BY <1>1, <1>2 DEF CompleteInv, SoundOn, Going
<1>8. AuxInv'
  BY <1>1, <1>2 DEF AuxInv
<1>9. QED
  BY <1>4, <1>5, <1>6, <1>7, <1>8 DEF InvOn

-----------------------------------------------------------------------------
(* A constraint turns the meaning up to here into that of one position more. *)
LEMMA ConstrainStep ==
  ASSUME NEW S \in SUBSET Assignments, InvOn(S), Constrain
  PROVE  InvOn(S)'
<1> DEFINE l == order[i]
           sym == perm[l]
           tst == IF nrExtraConstrs = 0 THEN Undef ELSE TseitinVar
           last == sym = Neg(l)
           N == NVars + nbExtraVars
           new == ConstraintClauses(l, sym, tst)
<1>1. /\ TypeOK /\ LoopInv /\ MarkInv /\ CompleteInv /\ SoundOn(S) /\ AuxInv
      /\ i \in 1 .. Len(order) /\ i \in Nat /\ i - 1 \in Nat /\ (i - 1) + 1 = i
      /\ Len(order) \in Nat /\ Going /\ pc = "constrain"
      /\ nrExtraConstrs \in Nat /\ nbExtraVars \in Nat /\ N \in Nat
  BY NVarsAssumption
     DEF InvOn, TypeOK, LoopInv, IsOrder, Constrain, Running, Going
<1>2. /\ perm \in LitPerms /\ perm \in [Lits -> Lits] /\ l \in Lits /\ sym \in Lits
  BY <1>1 DEF TypeOK, IsOrder, LitPerms
<1>3. /\ pc' = pc /\ perm' = perm /\ order' = order /\ clauses' = clauses \cup new
      /\ nbExtraVars' = IF nrExtraConstrs = 0 THEN nbExtraVars ELSE nbExtraVars + 1
      /\ nrExtraConstrs' = nrExtraConstrs + 1
      /\ conf' = conf /\ limitExtraConstrs' = limitExtraConstrs
      /\ current' = current /\ nbRegClauses' = nbRegClauses
      /\ prevLit' = IF last THEN prevLit ELSE l
      /\ prevSym' = IF last THEN prevSym ELSE sym
      /\ prevTst' = IF last THEN prevTst ELSE tst
      /\ i' = IF last THEN Len(order) + 1 ELSE i + 1
      /\ encoded' = Encoded(IF last THEN Len(order) ELSE i)
      /\ allowedLits' = allowedLits
  <2>1. TseitinVar # Undef
    BY <1>1, NVarsAssumption, SMT DEF TseitinVar, MkLit, Undef
  <2>2. QED
    BY <2>1 DEF Constrain, arguments
<1>4. /\ nrExtraConstrs >= 1 => /\ prevLit \in Lits /\ prevSym \in Lits
                                /\ tst = 2 * N /\ tst \in Nat
      /\ nrExtraConstrs >= 2 => prevTst \in 0 .. 2 * N - 1 /\ prevTst \in Nat
  BY <1>1, SMT DEF LoopInv, TseitinVar, MkLit
<1>5. l \in 0 .. 2 * N - 1 /\ sym \in 0 .. 2 * N - 1
      /\ \A m \in Lits : m \in 0 .. 2 * N - 1 /\ VarOf(m) \in 0 .. N - 1
  BY <1>1, <1>2, NVarsAssumption, SMT DEF Lits, VarOf
<1>6. N \notin Vars /\ N \in Nat /\ VarOf(2 * N) = N /\ ~Sign(2 * N)
  BY <1>1, NVarsAssumption, SMT DEF Vars, VarOf, Sign
<1>7. last <=> i' = Len(order) + 1 /\ last
  BY <1>3
<1> DEFINE e == IF last THEN Len(order) ELSE i
<1>8. e \in Nat /\ i' = e + 1 /\ i' - 1 = e /\ encoded' = Encoded(e)
      /\ i <= e /\ e <= Len(order)
  BY <1>1, <1>3
<1>9. /\ Encoded(e) \in Seq(EncodedRecord)
      /\ Len(Encoded(e)) = Len(encoded) /\ Len(encoded) > 0
      /\ Encoded(e)[Len(encoded)].perm = perm
      /\ Encoded(e)[Len(encoded)].order = order
      /\ Encoded(e)[Len(encoded)].upto = e
      /\ Encoded(e)[Len(encoded)].firstVar = encoded[Len(encoded)].firstVar
      /\ \A a : AllLex(Encoded(e), a) <=>
                 AllLexBut(encoded, a) /\ LexLeq(a, perm, order, e)
  BY <1>1, <1>8, EncodedFacts
<1>10. Going' => ~last /\ i' = i + 1
  BY <1>1, <1>3 DEF Going
<1> HIDE DEF N, new, l, sym, tst, last, e
<1>11. TypeOK'
  <2> DEFINE M == NVars + nbExtraVars'
  <2>1. M \in Nat /\ N <= M /\ (nrExtraConstrs >= 1 => M = N + 1)
    BY <1>1, <1>3, NVarsAssumption DEF N
  <2>2. \A k \in 0 .. 2 * N - 1 : k \in 0 .. 2 * M - 1
    BY <1>1, <2>1
  <2>3. nrExtraConstrs >= 1 => tst \in 0 .. 2 * M - 1
    BY <1>1, <1>4, <2>1
  <2> HIDE DEF M
  <2>4. \A c \in clauses : \A k \in 1 .. Len(c) : c[k] \in 0 .. 2 * M - 1
    BY <1>1, <2>2 DEF TypeOK, N
  <2>5. \A c \in new : \A k \in 1 .. Len(c) : c[k] \in 0 .. 2 * M - 1
    BY <1>1, <1>4, <1>5, <2>1, <2>2, <2>3, ClausesTyped DEF new
  <2>6. /\ prevLit' \in Lits \cup {Undef} /\ prevSym' \in Lits \cup {Undef}
        /\ prevTst' \in Nat \cup {Undef}
    <3>1. tst \in Nat \cup {Undef}
      BY <1>1, <1>4 DEF tst
    <3>2. QED
      BY <1>1, <1>2, <1>3, <3>1 DEF TypeOK
  <2>7. \A c \in clauses' : \A k \in 1 .. Len(c) :
            c[k] \in 0 .. 2 * (NVars + nbExtraVars') - 1
    BY <1>3, <2>4, <2>5 DEF M
  <2>8. nbExtraVars' \in Nat /\ nrExtraConstrs' \in Nat
        /\ i' \in 0 .. Len(order) + 1
    BY <1>1, <1>3, <1>8
  <2>9. QED
    BY <1>1, <1>3, <2>6, <2>7, <2>8 DEF TypeOK
<1>12. LoopInv'
  <2>1. IsFiniteSet(clauses')
    BY <1>1, <1>3, ClausesFinite, FS_Union DEF LoopInv, new
  <2>2. Cardinality(clauses) <= Cardinality(clauses') /\ Cardinality(clauses') \in Nat
        /\ Cardinality(clauses) \in Nat
    BY <1>1, <1>3, <2>1, FS_Subset, FS_CardinalityType DEF LoopInv
  <2>3. current' <= Cardinality(clauses')
    BY <1>1, <1>3, <2>2 DEF LoopInv, TypeOK
  <2>4. Going' => /\ prevLit' \in Lits /\ prevSym' \in Lits
                  /\ nrExtraConstrs' >= 2 =>
                       prevTst' \in 0 .. 2 * (NVars + nbExtraVars') - 1
    <3>1. SUFFICES ASSUME Going' PROVE prevLit' \in Lits /\ prevSym' \in Lits
             /\ (nrExtraConstrs' >= 2 =>
                   prevTst' \in 0 .. 2 * (NVars + nbExtraVars') - 1)
      OBVIOUS
    <3>2. prevLit' = l /\ prevSym' = sym /\ prevTst' = tst
      BY <1>3, <1>10, <3>1
    <3>3. ASSUME nrExtraConstrs' >= 2
          PROVE  tst = 2 * N /\ NVars + nbExtraVars' = N + 1
      BY <1>1, <1>3, <1>4, <3>3, NVarsAssumption DEF N
    <3>4. QED
      BY <1>1, <1>2, <3>2, <3>3
  <2>5. i' >= 1
    BY <1>8
  <2>6. QED
    BY <1>1, <1>3, <1>8, <1>9, <2>1, <2>3, <2>4, <2>5 DEF LoopInv
<1>13. MarkInv'
  BY <1>1, <1>3 DEF MarkInv, HasMarked, Examined
<1>14. AuxInv'
  <2>1. nbExtraVars' = encoded'[Len(encoded')].firstVar
                         + (IF nrExtraConstrs' = 0 THEN 0 ELSE nrExtraConstrs' - 1)
    <3> DEFINE fv == encoded[Len(encoded)].firstVar
               before == IF nrExtraConstrs = 0 THEN 0 ELSE nrExtraConstrs - 1
    <3>1. fv \in Nat
      BY <1>1, <1>8, EncodedFacts
    <3>2. encoded'[Len(encoded')].firstVar = fv
      BY <1>8, <1>9
    <3>3. nbExtraVars = fv + before
      BY <1>1, <1>9 DEF AuxInv
    <3> HIDE DEF fv
    <3>4. QED
      BY <1>1, <1>3, <3>1, <3>2, <3>3
  <2>2. limitExtraConstrs' => nrExtraConstrs' <= conf'.symBreakingFormLength + 1
    <3>1. conf.symBreakingFormLength \in Nat
      BY <1>1, ConfigsAssumption DEF TypeOK
    <3>2. QED
      BY <1>1, <1>3, <3>1 DEF Constrain, Running, LimitReached
  <2>3. QED
    BY <1>8, <1>9, <2>1, <2>2 DEF AuxInv
(* The meaning of the new clauses. *)
<1>15. ASSUME NEW a, SatisfiesAll(a, new), ChainHolds(a)
       PROVE  /\ nrExtraConstrs >= 1 => True(a, tst)
              /\ True(a, l) => True(a, sym)
  BY <1>1, <1>2, <1>4, <1>15, ClausesMean DEF new
<1>16. \A a : LexLeq(a, perm, order, i) <=>
                /\ LexLeq(a, perm, order, i - 1)
                /\ EqUpTo(a, perm, order, i - 1) => (True(a, l) => True(a, sym))
  <2>1. SUFFICES ASSUME NEW a
          PROVE  LexLeq(a, perm, order, i) <=>
                   /\ LexLeq(a, perm, order, i - 1)
                   /\ EqUpTo(a, perm, order, i - 1) => (True(a, l) => True(a, sym))
    OBVIOUS
  <2>2. LexLeq(a, perm, order, (i - 1) + 1) <=>
          /\ LexLeq(a, perm, order, i - 1)
          /\ EqUpTo(a, perm, order, i - 1) =>
               (True(a, order[(i - 1) + 1]) => True(a, perm[order[(i - 1) + 1]]))
    BY <1>1, LexStep
  <2>3. QED
    BY <1>1, <2>2 DEF l, sym
<1>17. \A a : EqUpTo(a, perm, order, i) <=>
                /\ EqUpTo(a, perm, order, i - 1)
                /\ True(a, l) <=> True(a, sym)
  <2>1. SUFFICES ASSUME NEW a
          PROVE  EqUpTo(a, perm, order, i) <=>
                   /\ EqUpTo(a, perm, order, i - 1)
                   /\ True(a, l) <=> True(a, sym)
    OBVIOUS
  <2>2. EqUpTo(a, perm, order, (i - 1) + 1) <=>
          /\ EqUpTo(a, perm, order, i - 1)
          /\ True(a, order[(i - 1) + 1]) <=> True(a, perm[order[(i - 1) + 1]])
    BY <1>1, EqStep
  <2>3. QED
    BY <1>1, <2>2 DEF l, sym
(* A literal mapped to its negation decides the comparison. *)
<1>18. \A a : LexLeq(a, perm, order, e) <=> LexLeq(a, perm, order, i)
  <2>1. CASE ~last
    BY <2>1 DEF e
  <2>2. CASE last
    <3>1. \A a : ~EqUpTo(a, perm, order, i)
      BY <1>2, <1>17, <2>2, TrueNeg, LitFacts DEF last
    <3>2. QED
      BY <1>1, <1>8, <3>1, LexDecided
  <2>3. QED
    BY <2>1, <2>2
<1>19. \A a : /\ AllLex(encoded, a) <=>
                   AllLexBut(encoded, a) /\ LexLeq(a, perm, order, i - 1)
              /\ AllLex(encoded', a) <=>
                   AllLexBut(encoded, a) /\ LexLeq(a, perm, order, i)
  BY <1>1, <1>8, <1>9, <1>18, AllLexNow
<1>20. CompleteInv'
  <2>1. SUFFICES ASSUME NEW b \in SUBSET Nat, SatisfiesAll(b, clauses')
                 PROVE  /\ AllLex(encoded', b)
                        /\ Going' /\ EqUpTo(b, perm, order, i) => ChainHolds(b)'
    BY <1>1, <1>3, <1>10 DEF CompleteInv
  <2>2. SatisfiesAll(b, clauses) /\ SatisfiesAll(b, new)
    BY <1>3, <2>1 DEF SatisfiesAll
  <2>3. AllLex(encoded, b) /\ (EqUpTo(b, perm, order, i - 1) => ChainHolds(b))
    BY <1>1, <2>2 DEF CompleteInv
  <2>4. EqUpTo(b, perm, order, i - 1) => /\ nrExtraConstrs >= 1 => True(b, tst)
                                         /\ True(b, l) => True(b, sym)
    BY <1>15, <2>2, <2>3
  <2>5. AllLex(encoded', b)
    BY <1>16, <1>19, <2>3, <2>4
  <2>6. ASSUME Going', EqUpTo(b, perm, order, i) PROVE ChainHolds(b)'
    <3>1. prevLit' = l /\ prevSym' = sym /\ prevTst' = tst
          /\ nrExtraConstrs' = nrExtraConstrs + 1
      BY <1>3, <1>10, <2>6
    <3>2. EqUpTo(b, perm, order, i - 1) /\ (True(b, l) <=> True(b, sym))
      BY <1>17, <2>6
    <3>3. nrExtraConstrs' >= 2 => nrExtraConstrs >= 1
      BY <1>1, <3>1
    <3>4. QED
      BY <2>4, <3>1, <3>2, <3>3 DEF ChainHolds
  <2>7. QED
    BY <2>5, <2>6
<1>21. SoundOn(S)'
  <2>1. SUFFICES ASSUME NEW a \in S, a \in Assignments, AllLex(encoded', a)
                 PROVE  \E b \in Extensions(a, nbExtraVars') :
                          /\ SatisfiesAll(b, clauses')
                          /\ Going' /\ ChainHolds(b)' => EqUpTo(a, perm, order, i)
    <3>1. Going' => i' - 1 = i
      BY <1>1, <1>10
    <3>2. \A a : Going' /\ EqUpTo(a, perm, order, i) =>
                 EqUpTo(a, perm', order', i' - 1)
      BY <1>3, <3>1
    <3>3. QED
      BY <3>2 DEF SoundOn
  <2>2. /\ AllLex(encoded, a)
        /\ EqUpTo(a, perm, order, i - 1) => (True(a, l) => True(a, sym))
    BY <1>16, <1>19, <2>1
  <2>3. PICK b \in Extensions(a, nbExtraVars) :
           /\ SatisfiesAll(b, clauses)
           /\ ChainHolds(b) => EqUpTo(a, perm, order, i - 1)
    BY <1>1, <2>1, <2>2 DEF SoundOn
  <2>4. PICK aux \in SUBSET (NVars .. NVars + nbExtraVars - 1) : b = a \cup aux
    BY DEF Extensions
  <2>5. PICK c : c = IF nrExtraConstrs >= 1 /\ ChainHolds(b)
                     THEN b \cup {N} ELSE b
    OBVIOUS
  <2>6. c \in Extensions(a, nbExtraVars')
    <3>1. c = a \cup (IF nrExtraConstrs >= 1 /\ ChainHolds(b)
                      THEN aux \cup {N} ELSE aux)
      BY <2>4, <2>5
    <3>2. (IF nrExtraConstrs >= 1 /\ ChainHolds(b) THEN aux \cup {N} ELSE aux)
            \in SUBSET (NVars .. NVars + nbExtraVars' - 1)
      BY <1>1, <1>3, <2>4, NVarsAssumption DEF N
    <3>3. QED
      BY <3>1, <3>2 DEF Extensions
  <2>7. \A v : v # N => (v \in b <=> v \in c)
    BY <2>5
  <2>8. \A v \in 0 .. N - 1 : v \in b <=> v \in c
    BY <1>1, <2>7
  <2>9. N \in c <=> nrExtraConstrs >= 1 /\ ChainHolds(b)
    <3>1. N \notin b
      BY <1>1, <1>6, <2>4, NVarsAssumption DEF N, Assignments
    <3>2. QED
      BY <2>5, <3>1
  <2>10. SatisfiesAll(c, clauses)
    <3>1. \A d \in clauses : \A k \in 1 .. Len(d) : d[k] \in 0 .. 2 * N - 1
      BY <1>1 DEF TypeOK, N
    <3>2. QED
      BY <1>1, <2>3, <2>8, <3>1, SatisfiesLocal
  <2>11. \A m : VarOf(m) # N => (True(c, m) <=> True(b, m))
    BY <2>7, TrueLocal
  <2>12. \A m \in 0 .. 2 * N - 1 : VarOf(m) # N
    BY <1>1, SMT DEF VarOf
  <2>13. \A m \in Lits : True(c, m) <=> True(a, m)
    <3>1. \A v \in Vars : v \in b <=> v \in a
      BY <2>4, NVarsAssumption DEF Vars
    <3>2. \A m \in Lits : True(b, m) <=> True(a, m)
      BY <3>1, TrueLocal, LitFacts
    <3>3. QED
      BY <1>5, <2>11, <2>12, <3>2
  <2>14. ChainHolds(c) <=> ChainHolds(b)
    <3>1. nrExtraConstrs >= 1 => /\ True(c, prevLit) <=> True(b, prevLit)
                                 /\ True(c, prevSym) <=> True(b, prevSym)
      BY <1>4, <1>5, <2>11, <2>12
    <3>2. nrExtraConstrs >= 2 => (True(c, prevTst) <=> True(b, prevTst))
      BY <1>4, <2>11, <2>12
    <3>3. nrExtraConstrs >= 2 => nrExtraConstrs >= 1
      BY <1>1
    <3>4. QED
      BY <3>1, <3>2, <3>3 DEF ChainHolds
  <2>15. nrExtraConstrs >= 1 => (True(c, tst) <=> ChainHolds(c))
    BY <1>4, <1>6, <2>9, <2>14 DEF True
  <2>16. ChainHolds(c) => (True(c, l) => True(c, sym))
    BY <1>2, <2>2, <2>3, <2>13, <2>14
  <2>17. SatisfiesAll(c, new)
    BY <1>1, <1>2, <1>4, <2>15, <2>16, ClausesHold DEF new
  <2>18. SatisfiesAll(c, clauses')
    BY <1>3, <2>10, <2>17 DEF SatisfiesAll
  <2>19. ASSUME Going', ChainHolds(c)' PROVE EqUpTo(a, perm, order, i)
    <3>1. prevLit' = l /\ prevSym' = sym /\ prevTst' = tst
          /\ nrExtraConstrs' = nrExtraConstrs + 1
      BY <1>3, <1>10, <2>19
    <3>2. nrExtraConstrs' >= 1 /\ (nrExtraConstrs >= 1 => nrExtraConstrs' >= 2)
      BY <1>1, <3>1
    <3>3. (True(c, sym) => True(c, l)) /\ (nrExtraConstrs >= 1 => True(c, tst))
      BY <2>19, <3>1, <3>2 DEF ChainHolds
    <3>4. ChainHolds(c)
      <4>1. CASE nrExtraConstrs >= 1
        BY <2>15, <3>3, <4>1
      <4>2. CASE ~(nrExtraConstrs >= 1)
        BY <1>1, <4>2 DEF ChainHolds
      <4>3. QED
        BY <4>1, <4>2
    <3>5. EqUpTo(a, perm, order, i - 1)
      BY <2>3, <2>14, <3>4
    <3>6. True(a, l) <=> True(a, sym)
      BY <1>2, <2>2, <2>13, <3>3, <3>5
    <3>7. QED
      BY <1>17, <3>5, <3>6
  <2>20. QED
    BY <2>6, <2>18, <2>19
<1>22. QED
  BY <1>11, <1>12, <1>13, <1>14, <1>20, <1>21 DEF InvOn

-----------------------------------------------------------------------------
(* Steps of others leave it alone. *)
LEMMA KeepInv ==
  ASSUME NEW S \in SUBSET Assignments, InvOn(S), UNCHANGED vars
  PROVE  InvOn(S)'
<1>1. UNCHANGED <<conf, clauses, nbExtraVars, nbRegClauses, pc, perm, order,
                  limitExtraConstrs, current, i, allowedLits, nrExtraConstrs,
                  prevLit, prevSym, prevTst, encoded>>
  BY DEF vars, object, arguments, frame
<1>2. TypeOK' /\ LoopInv' /\ AuxInv'
  BY <1>1 DEF InvOn, TypeOK, LoopInv, AuxInv, Going
<1>3. MarkInv'
  BY <1>1 DEF InvOn, MarkInv, HasMarked, Examined
<1>4. CompleteInv' /\ SoundOn(S)'
  BY <1>1 DEF InvOn, CompleteInv, SoundOn, Going, ChainHolds
<1>5. QED
  BY <1>2, <1>3, <1>4 DEF InvOn

(* Every step keeps the invariant. *)
LEMMA NextIInv == IInv /\ [Next]_vars => IInv'
<1>1. ASSUME IInv, UNCHANGED vars PROVE IInv'
  BY <1>1, KeepInv DEF IInv
<1>2. ASSUME IInv, NEW p \in Symmetries, NEW s \in Orders, NEW limit \in BOOLEAN,
             AddSym(p, s, limit)
      PROVE  IInv'
  <2>1. p \in LitPerms /\ IsOrder(s) /\ Covers(s, p)
    BY SymmetriesAssumption, OrdersAssumption
  <2>2. QED
    BY <1>2, <2>1, AddSymStep DEF IInv
<1>3. ASSUME IInv, Step PROVE IInv'
  BY <1>3, MarkStep, EndMarkStep, SkipLitStep, ConstrainStep, EndSymStep
     DEF Step, IInv
<1>4. QED
  BY <1>1, <1>2, <1>3 DEF Next

(* The fields of the breaker and the locals of addSym stay in their types; *)
(* in particular the number of clauses never falls below what it was when  *)
(* the running call started, which the statistic is computed from.         *)
THEOREM TypeCorrect == Spec => []TypeOK
<1>1. IInv => TypeOK
  BY DEF IInv, InvOn
<1>2. QED
  BY InitIInv, NextIInv, <1>1, PTL DEF Spec

(* After every step of addSym, whatever the symmetries, the orders and the *)
(* configuration, the clauses added so far allow exactly the assignments   *)
(* that precede their images in the positions walked so far.               *)
THEOREM LexLeaderEncoded == Spec => []EncodesLexLeader
<1>1. IInv => EncodesLexLeader
  <2> SUFFICES ASSUME IInv PROVE EncodesLexLeader
    OBVIOUS
  <2>1. /\ TypeOK /\ LoopInv /\ CompleteInv /\ SoundOn(Assignments)
        /\ encoded \in Seq(EncodedRecord)
    BY DEF IInv, InvOn, LoopInv
  <2>2. ASSUME NEW a \in Assignments, NEW b \in Extensions(a, nbExtraVars)
        PROVE  b \in SUBSET Nat /\ (AllLex(encoded, b) => AllLex(encoded, a))
    <3>1. PICK aux \in SUBSET (NVars .. NVars + nbExtraVars - 1) : b = a \cup aux
      BY DEF Extensions
    <3>2. b \in SUBSET Nat /\ \A v \in Vars : v \in b <=> v \in a
      BY <2>1, <3>1, NVarsAssumption DEF Assignments, Vars, TypeOK
    <3>3. \A m \in Lits : True(b, m) <=> True(a, m)
      BY <3>2, TrueLocal, LitFacts
    <3>4. ASSUME NEW k \in 1 .. Len(encoded)
          PROVE  /\ encoded[k].upto \in Nat
                 /\ \A j \in 1 .. encoded[k].upto :
                      /\ encoded[k].order[j] \in Lits
                      /\ encoded[k].perm[encoded[k].order[j]] \in Lits
      <4>1. encoded[k] \in EncodedRecord
        BY <2>1
      <4>2. /\ encoded[k].order \in Seq(Lits) /\ encoded[k].upto \in Nat
            /\ encoded[k].perm \in [Lits -> Lits]
            /\ encoded[k].upto <= Len(encoded[k].order)
        BY <4>1 DEF EncodedRecord, LitPerms
      <4>3. QED
        BY <4>2
    <3>5. \A k \in 1 .. Len(encoded) :
             LexLeq(b, encoded[k].perm, encoded[k].order, encoded[k].upto) =>
               LexLeq(a, encoded[k].perm, encoded[k].order, encoded[k].upto)
      BY <3>3, <3>4 DEF LexLeq
    <3>6. QED
      BY <3>2, <3>5 DEF AllLex
  <2>3. \A a \in Assignments : a \in Models(clauses, nbExtraVars) <=>
                                AllLex(encoded, a)
    BY <2>1, <2>2 DEF Models, CompleteInv, SoundOn
  <2>4. Models(clauses, nbExtraVars) = {a \in Assignments : AllLex(encoded, a)}
    BY <2>3 DEF Models
  <2>5. QED
    BY <2>4 DEF EncodesLexLeader, AllLex
<1>2. QED
  BY InitIInv, NextIInv, <1>1, PTL DEF Spec
(* A limited call introduces at most symBreakingFormLength variables: the  *)
(* first constraint has none, and the limit stops the call one constraint  *)
(* after it is reached.                                                    *)
THEOREM AuxiliariesBounded == Spec => []AuxiliariesWithinLimit
<1>1. IInv => AuxiliariesWithinLimit
  <2> SUFFICES ASSUME IInv, limitExtraConstrs
               PROVE  nbExtraVars - encoded[Len(encoded)].firstVar
                        <= conf.symBreakingFormLength
    BY DEF AuxiliariesWithinLimit
  <2>1. /\ nrExtraConstrs \in Nat /\ nbExtraVars \in Nat
        /\ conf.symBreakingFormLength \in Nat
    BY ConfigsAssumption DEF IInv, InvOn, TypeOK
  <2>2. /\ Len(encoded) > 0 /\ nrExtraConstrs <= conf.symBreakingFormLength + 1
        /\ nbExtraVars = encoded[Len(encoded)].firstVar
                           + (IF nrExtraConstrs = 0 THEN 0 ELSE nrExtraConstrs - 1)
    BY DEF IInv, InvOn, AuxInv
  <2>3. encoded[Len(encoded)] \in EncodedRecord
    BY <2>2 DEF IInv, InvOn, LoopInv
  <2>4. encoded[Len(encoded)].firstVar \in Nat
    BY <2>3 DEF EncodedRecord
  <2>5. QED
    BY <2>1, <2>2, <2>4
<1>2. QED
  BY InitIInv, NextIInv, <1>1, PTL DEF Spec

-----------------------------------------------------------------------------
(* With the full translation the new variables are determined by the       *)
(* assignment of the original ones.                                        *)
FullTranslation == conf.useFullTranslation /\ ~conf.useShatterTranslation

FunctionalInv ==
  FullTranslation =>
    \A a \in Assignments : \A b, c \in Extensions(a, nbExtraVars) :
       SatisfiesAll(b, clauses) /\ SatisfiesAll(c, clauses) => b = c

(* The clauses of the full translation also make the new variable imply    *)
(* the chain.                                                              *)
LEMMA FullClausesMean ==
  ASSUME NEW b, NEW l \in Lits, NEW sym \in Lits, NEW tst \in Nat,
         nrExtraConstrs \in Nat, nrExtraConstrs >= 1, FullTranslation,
         prevLit \in Lits, prevSym \in Lits,
         SatisfiesAll(b, ConstraintClauses(l, sym, tst)), True(b, tst)
  PROVE  ChainHolds(b)
<1>1. /\ True(b, Neg(tst)) <=> ~True(b, tst)
      /\ True(b, Neg(prevSym)) <=> ~True(b, prevSym)
  BY TrueNeg, LitFacts
<1>2. CASE nrExtraConstrs = 1
  <2>1. Satisfies(b, <<Neg(tst), Neg(prevSym), prevLit>>)
    BY <1>2 DEF SatisfiesAll, ConstraintClauses, SecondClauses, FullTranslation
  <2>2. QED
    BY <1>1, <1>2, <2>1, Satisfies3 DEF ChainHolds
<1>3. CASE nrExtraConstrs >= 2
  <2>1. /\ Satisfies(b, <<Neg(tst), prevTst>>)
        /\ Satisfies(b, <<Neg(tst), Neg(prevSym), prevLit>>)
    BY <1>3 DEF SatisfiesAll, ConstraintClauses, LaterClauses, FullTranslation
  <2>2. QED
    BY <1>1, <1>3, <2>1, Satisfies2, Satisfies3 DEF ChainHolds
<1>4. QED
  BY <1>2, <1>3

(* A constraint of the full translation fixes the new variable. *)
LEMMA FunctionalConstrain == IInv /\ FunctionalInv /\ Constrain => FunctionalInv'
<1> SUFFICES ASSUME IInv, FunctionalInv, Constrain, FullTranslation,
                    NEW a \in Assignments,
                    NEW b \in Extensions(a, nbExtraVars'),
                    NEW c \in Extensions(a, nbExtraVars'),
                    SatisfiesAll(b, clauses'), SatisfiesAll(c, clauses')
             PROVE  b = c
  BY DEF FunctionalInv, FullTranslation, Constrain, arguments
<1> DEFINE l == order[i]
           sym == perm[l]
           tst == IF nrExtraConstrs = 0 THEN Undef ELSE TseitinVar
           N == NVars + nbExtraVars
           new == ConstraintClauses(l, sym, tst)
<1>1. /\ TypeOK /\ LoopInv /\ Going /\ nrExtraConstrs \in Nat
      /\ nbExtraVars \in Nat /\ N \in Nat /\ l \in Lits /\ sym \in Lits
  BY NVarsAssumption
     DEF IInv, InvOn, TypeOK, LoopInv, IsOrder, LitPerms, Constrain, Running, Going
<1>2. /\ clauses' = clauses \cup new
      /\ nbExtraVars' = IF nrExtraConstrs = 0 THEN nbExtraVars ELSE nbExtraVars + 1
  <2>1. TseitinVar # Undef
    BY <1>1, NVarsAssumption, SMT DEF TseitinVar, MkLit, Undef
  <2>2. QED
    BY <2>1 DEF Constrain
<1>3. /\ nrExtraConstrs >= 1 => /\ prevLit \in Lits /\ prevSym \in Lits
                                /\ tst = 2 * N /\ tst \in Nat
      /\ nrExtraConstrs >= 2 => prevTst \in 0 .. 2 * N - 1 /\ prevTst \in Nat
  BY <1>1, SMT DEF LoopInv, TseitinVar, MkLit
<1>4. /\ VarOf(2 * N) = N /\ ~Sign(2 * N)
      /\ \A m \in 0 .. 2 * N - 1 : VarOf(m) \in 0 .. N - 1 /\ VarOf(m) # N
      /\ \A m \in Lits : m \in 0 .. 2 * N - 1
  BY <1>1, NVarsAssumption, SMT DEF VarOf, Sign, Lits
<1> HIDE DEF l, sym, tst, N, new
<1>5. /\ SatisfiesAll(b, clauses) /\ SatisfiesAll(b, new)
      /\ SatisfiesAll(c, clauses) /\ SatisfiesAll(c, new)
  BY <1>2 DEF SatisfiesAll
<1>6. CASE nrExtraConstrs = 0
  BY <1>2, <1>5, <1>6 DEF FunctionalInv
<1>7. CASE nrExtraConstrs >= 1
  (* Without the new variable they are extensions of before. *)
  <2>1. ASSUME NEW d \in {b, c}
        PROVE  /\ d \ {N} \in Extensions(a, nbExtraVars)
               /\ SatisfiesAll(d \ {N}, clauses)
               /\ ChainHolds(d \ {N}) <=> ChainHolds(d)
               /\ N \in d <=> ChainHolds(d)
    <3>1. d \in Extensions(a, nbExtraVars + 1) /\ SatisfiesAll(d, clauses)
          /\ SatisfiesAll(d, new)
      BY <1>1, <1>2, <1>5, <1>7
    <3>2. PICK aux \in SUBSET (NVars .. N) : d = a \cup aux
      <4>1. NVars + (nbExtraVars + 1) - 1 = N
        BY <1>1, NVarsAssumption DEF N
      <4>2. Extensions(a, nbExtraVars + 1) = {a \cup aux : aux \in SUBSET (NVars .. N)}
        BY <4>1 DEF Extensions
      <4>3. QED
        BY <3>1, <4>2
    <3>3. N \notin a
      BY <1>1, NVarsAssumption DEF Assignments, Vars, N
    <3>4. d \ {N} = a \cup (aux \ {N})
          /\ aux \ {N} \in SUBSET (NVars .. NVars + nbExtraVars - 1)
      BY <1>1, <3>2, <3>3, NVarsAssumption DEF N
    <3>5. d \ {N} \in Extensions(a, nbExtraVars)
      BY <3>4 DEF Extensions
    <3>6. SatisfiesAll(d \ {N}, clauses)
      <4>1. \A e \in clauses : \A k \in 1 .. Len(e) : e[k] \in 0 .. 2 * N - 1
        BY <1>1 DEF TypeOK, N
      <4>2. \A v \in 0 .. N - 1 : v \in d <=> v \in d \ {N}
        BY <1>1
      <4>3. QED
        BY <1>1, <3>1, <4>1, <4>2, SatisfiesLocal
    <3>7. \A m \in 0 .. 2 * N - 1 : True(d \ {N}, m) <=> True(d, m)
      BY <1>4, TrueLocal
    <3>8. ChainHolds(d \ {N}) <=> ChainHolds(d)
      <4>1. /\ True(d \ {N}, prevLit) <=> True(d, prevLit)
            /\ True(d \ {N}, prevSym) <=> True(d, prevSym)
            /\ nrExtraConstrs >= 2 => (True(d \ {N}, prevTst) <=> True(d, prevTst))
        BY <1>3, <1>4, <1>7, <3>7
      <4>2. QED
        BY <4>1 DEF ChainHolds
    <3>9. True(d, tst) => ChainHolds(d)
      BY <1>1, <1>3, <1>7, <3>1, FullClausesMean DEF new
    <3>10. ChainHolds(d) => True(d, tst)
      BY <1>1, <1>3, <1>7, <3>1, ClausesMean DEF new
    <3>11. True(d, tst) <=> N \in d
      BY <1>3, <1>4, <1>7 DEF True
    <3>12. QED
      BY <3>5, <3>6, <3>8, <3>9, <3>10, <3>11
  <2>2. b \ {N} = c \ {N}
    BY <2>1 DEF FunctionalInv
  <2>3. N \in b <=> N \in c
    BY <2>1, <2>2
  <2>4. QED
    BY <2>2, <2>3
<1>8. QED
  BY <1>1, <1>6, <1>7

(* Only a constraint adds variables; other steps leave the extensions alone. *)
LEMMA FunctionalStep == IInv /\ FunctionalInv /\ [Next]_vars => FunctionalInv'
<1>1. ASSUME FunctionalInv, UNCHANGED <<conf, clauses, nbExtraVars>>
      PROVE  FunctionalInv'
  BY <1>1 DEF FunctionalInv, FullTranslation
<1>2. ASSUME [Next]_vars, ~Constrain
      PROVE  UNCHANGED <<conf, clauses, nbExtraVars>>
  BY <1>2 DEF Next, Step, AddSym, Mark, EndMark, SkipLit, EndSym, vars, object,
              arguments
<1>3. QED
  BY <1>1, <1>2, FunctionalConstrain

(* With the full translation every assignment that is allowed has exactly  *)
(* one extension to the new variables, for any number of symmetries.       *)
THEOREM FullTranslationFunctional == Spec => []FullTranslationIsFunctional
<1>1. Init => FunctionalInv
  <2>1. ASSUME Init PROVE \A a : Extensions(a, nbExtraVars) = {a}
    <3>1. NVars .. NVars + nbExtraVars - 1 = {}
      BY <2>1, NVarsAssumption DEF Init
    <3>2. QED
      BY <3>1 DEF Extensions
  <2>2. QED
    BY <2>1 DEF FunctionalInv
<1>2. FunctionalInv => FullTranslationIsFunctional
  <2> SUFFICES ASSUME FunctionalInv, FullTranslation,
                      NEW a \in Models(clauses, nbExtraVars)
               PROVE  Cardinality({b \in Extensions(a, nbExtraVars) :
                                     SatisfiesAll(b, clauses)}) = 1
    BY DEF FullTranslationIsFunctional, FullTranslation
  <2>1. PICK b \in Extensions(a, nbExtraVars) : SatisfiesAll(b, clauses)
    BY DEF Models
  <2>2. a \in Assignments
    BY DEF Models
  <2>3. {d \in Extensions(a, nbExtraVars) : SatisfiesAll(d, clauses)} = {b}
    BY <2>1, <2>2 DEF FunctionalInv
  <2>4. QED
    BY <2>3, FS_Singleton
<1>3. QED
  BY InitIInv, NextIInv, FunctionalStep, <1>1, <1>2, PTL DEF Spec
=============================================================================
