------------------------------ MODULE Breaker ------------------------------
(***************************************************************************)
(* class Breaker (Breaking.cpp): the container of the symmetry breaking    *)
(* clauses and the encoding of one symmetry, addSym.                       *)
(*                                                                         *)
(* addSym walks twice over the order of the literals.  Backwards it marks  *)
(* which literals need a constraint: all but the last one of each cycle.   *)
(* Forwards it adds, for every marked literal the symmetry moves, the      *)
(* clauses for "the literal implies its image if all earlier ones equal    *)
(* theirs", the condition being carried by a chain of new variables.       *)
(***************************************************************************)
EXTENDS Assignments

CONSTANTS
  Symmetries,   \* the permutations addSym may be called with
  Orders,       \* the orders it may be called with, sequences of literals
  Configs,      \* the configurations, as in class Config
  MaxCalls      \* bound on the number of calls of addSym

ASSUME SymmetriesAssumption == Symmetries \subseteq LitPerms

(* An order holds at most one of a literal and its negation, and at most   *)
(* once (comment before Group::getOrderAndAddBinaryClausesTo).             *)
IsOrder(s) ==
  /\ s \in Seq(Lits)
  /\ \A j, k \in 1 .. Len(s) : j # k => VarOf(s[j]) # VarOf(s[k])

(* The order of a call holds a literal of every variable its symmetry      *)
(* moves, as getOrderAndAddBinaryClausesTo arranges.                       *)
Covers(s, p) == \A l \in Domain(p) : \E j \in 1 .. Len(s) : VarOf(s[j]) = VarOf(l)

ASSUME OrdersAssumption ==
  \A s \in Orders : IsOrder(s) /\ \A p \in Symmetries : Covers(s, p)
ASSUME ConfigsAssumption ==
  Configs \subseteq [useBinaryClauses      : BOOLEAN,
                     useShatterTranslation : BOOLEAN,
                     useFullTranslation    : BOOLEAN,
                     symBreakingFormLength : Nat]

VARIABLES
  conf,            \* the configuration, fixed before the breaker is made
  clauses,         \* Breaker::clauses, a set: equal vectors are kept once
  nbExtraVars,     \* the number of variables introduced
  nbRegClauses,    \* the statistic of addSym
  pc,              \* "idle", or the loop of addSym: "mark", "constrain"
  perm,            \* the arguments of the running call
  order,
  limitExtraConstrs,
  current,         \* the number of clauses when it started
  i,               \* the position of the running loop
  allowedLits,     \* the literals marked by the first loop
  nrExtraConstrs,  \* how many constraints the call has added
  prevLit, prevSym, prevTst,  \* the previous constraint
  encoded          \* history: the symmetries and how much of them is encoded

object == <<clauses, nbExtraVars, nbRegClauses>>
arguments == <<conf, perm, order, limitExtraConstrs, current>>
frame == <<nrExtraConstrs, prevLit, prevSym, prevTst>>
vars == <<object, arguments, frame, pc, i, allowedLits, encoded>>

Undef == -1                                 \* BLit_Undef

(* Variant: the counter is increased before it is read. *)
TseitinVarSkipping == MkLit(NVars + nbExtraVars + 1, FALSE)

(* getTseitinVar: the next variable after all that exist. *)
TseitinVar == MkLit(NVars + nbExtraVars, FALSE)

(* Variant: the limit is compared one constraint late. *)
LimitReachedLate ==
  limitExtraConstrs /\ nrExtraConstrs > conf.symBreakingFormLength + 1

(* The limit of the call is exceeded. *)
LimitReached ==
  limitExtraConstrs /\ nrExtraConstrs > conf.symBreakingFormLength

-----------------------------------------------------------------------------
(* The clauses that one constraint adds.  tst is the new variable; the     *)
(* first constraint has none.                                              *)

FirstClause(l, sym) == {<<Neg(l), sym>>}

(* (prevSym => prevLit) => tst,  tst => (l => sym); with the full          *)
(* translation also  tst => (prevSym => prevLit).                          *)
SecondClauses(l, sym, tst) ==
  {<<prevSym, tst>>, <<Neg(prevLit), tst>>, <<Neg(tst), Neg(l), sym>>}
    \cup IF conf.useFullTranslation
         THEN {<<Neg(tst), Neg(prevSym), prevLit>>} ELSE {}

(* Variant: tst => prevTst is missing. *)
LaterClausesOpen(l, sym, tst) ==
  {<<prevSym, Neg(prevTst), tst>>, <<Neg(prevLit), Neg(prevTst), tst>>,
   <<Neg(tst), Neg(l), sym>>}
    \cup IF conf.useFullTranslation
         THEN {<<Neg(tst), Neg(prevSym), prevLit>>} ELSE {}

(* (prevSym => prevLit) & prevTst => tst,  tst => (l => sym); with the     *)
(* full translation also  tst => prevTst,  tst => (prevSym => prevLit).    *)
LaterClauses(l, sym, tst) ==
  {<<prevSym, Neg(prevTst), tst>>, <<Neg(prevLit), Neg(prevTst), tst>>,
   <<Neg(tst), Neg(l), sym>>}
    \cup IF conf.useFullTranslation
         THEN {<<Neg(tst), prevTst>>, <<Neg(tst), Neg(prevSym), prevLit>>}
         ELSE {}

(* addShatter: the constraint is stated under each of the two ways in      *)
(* which the previous literal equals its image.                            *)
SecondClausesShatter(l, sym, tst) ==
  {<<Neg(prevLit), Neg(l), sym>>, <<Neg(prevLit), tst>>,
   <<prevSym, Neg(l), sym>>, <<prevSym, tst>>}

LaterClausesShatter(l, sym, tst) ==
  {<<Neg(prevTst), Neg(prevLit), Neg(l), sym>>,
   <<Neg(prevTst), Neg(prevLit), tst>>,
   <<Neg(prevTst), prevSym, Neg(l), sym>>, <<Neg(prevTst), prevSym, tst>>}

ConstraintClauses(l, sym, tst) ==
  IF nrExtraConstrs = 0 THEN FirstClause(l, sym)
  ELSE IF nrExtraConstrs = 1
  THEN IF conf.useShatterTranslation
       THEN SecondClausesShatter(l, sym, tst) ELSE SecondClauses(l, sym, tst)
  ELSE IF conf.useShatterTranslation
       THEN LaterClausesShatter(l, sym, tst) ELSE LaterClauses(l, sym, tst)

-----------------------------------------------------------------------------
Init ==
  /\ conf \in Configs
  /\ clauses = {} /\ nbExtraVars = 0 /\ nbRegClauses = 0
  /\ pc = "idle"
  /\ perm = IdPerm /\ order = <<>> /\ limitExtraConstrs = FALSE /\ current = 0
  /\ i = 0 /\ allowedLits = {}
  /\ nrExtraConstrs = 0 /\ prevLit = Undef /\ prevSym = Undef /\ prevTst = Undef
  /\ encoded = <<>>

(* Entering addSym and addBreakID or addShatter. *)
AddSym(p, s, limit) ==
  /\ pc = "idle"
  /\ perm' = p /\ order' = s /\ limitExtraConstrs' = limit
  /\ current' = Cardinality(clauses)
  /\ pc' = "mark"
  /\ i' = Len(s)
  /\ allowedLits' = {}
  /\ nrExtraConstrs' = 0
  /\ prevLit' = Undef /\ prevSym' = Undef /\ prevTst' = Undef
  /\ encoded' = Append(encoded, [perm |-> p, order |-> s, upto |-> 0,
                                 firstVar |-> nbExtraVars])
  /\ UNCHANGED <<conf, object>>

(* Variant: the negated cycle is not marked. *)
OthersInCycleLits(p, lit) == Cycle(p, lit) \ {lit}

(* The other literals of the cycle of lit, and their negations. *)
OthersInCycle(p, lit) ==
  LET others == Cycle(p, lit) \ {lit}
  IN  others \cup {Neg(l) : l \in others}

(* One turn of the backward loop.  A literal that is not marked when its   *)
(* turn comes is the last of its cycle in the order: it marks the others.  *)
Mark ==
  /\ pc = "mark" /\ i > 0
  /\ allowedLits' = IF order[i] \in allowedLits THEN allowedLits
                    ELSE allowedLits \cup OthersInCycle(perm, order[i])
  /\ i' = i - 1
  /\ UNCHANGED <<object, arguments, frame, pc, encoded>>

EndMark ==
  /\ pc = "mark" /\ i = 0
  /\ pc' = "constrain" /\ i' = 1
  /\ UNCHANGED <<object, arguments, frame, allowedLits, encoded>>

Running == pc = "constrain" /\ i <= Len(order) /\ ~LimitReached

Constrained(l) == perm[l] # l /\ l \in allowedLits

(* history: n positions of the running symmetry are encoded. *)
Encoded(n) == [encoded EXCEPT ![Len(encoded)].upto = n]

(* A literal that is fixed, or the last of its cycle: nothing to add. *)
SkipLit ==
  /\ Running
  /\ ~Constrained(order[i])
  /\ i' = i + 1
  /\ encoded' = Encoded(i)
  /\ UNCHANGED <<object, arguments, frame, pc, allowedLits>>

(* A constraint is added.  A literal mapped to its own negation ends the   *)
(* loop: no later literal can matter.                                      *)
Constrain ==
  /\ Running
  /\ Constrained(order[i])
  /\ LET l == order[i]
         sym == perm[l]
         tst == IF nrExtraConstrs = 0 THEN Undef ELSE TseitinVar
         last == sym = Neg(l)
     IN  /\ clauses' = clauses \cup ConstraintClauses(l, sym, tst)
         /\ nbExtraVars' = IF tst = Undef THEN nbExtraVars ELSE nbExtraVars + 1
         /\ nrExtraConstrs' = nrExtraConstrs + 1
         /\ prevLit' = IF last THEN prevLit ELSE l
         /\ prevSym' = IF last THEN prevSym ELSE sym
         /\ prevTst' = IF last THEN prevTst ELSE tst
         /\ i' = IF last THEN Len(order) + 1 ELSE i + 1
         /\ encoded' = Encoded(IF last THEN Len(order) ELSE i)
  /\ UNCHANGED <<arguments, nbRegClauses, pc, allowedLits>>

(* The end of addSym: the clauses that are new are counted. *)
EndSym ==
  /\ pc = "constrain"
  /\ i > Len(order) \/ LimitReached
  /\ nbRegClauses' = nbRegClauses + (Cardinality(clauses) - current)
  /\ pc' = "idle"
  /\ UNCHANGED <<clauses, nbExtraVars, arguments, frame, i, allowedLits,
                 encoded>>

Step == Mark \/ EndMark \/ SkipLit \/ Constrain \/ EndSym

Next ==
  \/ \E p \in Symmetries, s \in Orders, limit \in BOOLEAN :
        Len(encoded) < MaxCalls /\ AddSym(p, s, limit)
  \/ Step

Spec == Init /\ [][Next]_vars

-----------------------------------------------------------------------------
(* Types of the fields of Breaker and of the locals of addSym. *)
TypeOK ==
  /\ conf \in Configs
  /\ nbExtraVars \in Nat /\ nbRegClauses \in Nat /\ current \in Nat
  /\ \A c \in clauses :
        \A k \in 1 .. Len(c) : c[k] \in 0 .. 2 * (NVars + nbExtraVars) - 1
  /\ pc \in {"idle", "mark", "constrain"}
  /\ perm \in LitPerms
  /\ IsOrder(order)
  /\ limitExtraConstrs \in BOOLEAN
  /\ i \in 0 .. Len(order) + 1
  /\ allowedLits \subseteq Lits
  /\ nrExtraConstrs \in Nat
  /\ prevLit \in Lits \cup {Undef} /\ prevSym \in Lits \cup {Undef}
  /\ prevTst \in Nat \cup {Undef}

(* After every step of the encoding, the clauses allow exactly the         *)
(* assignments that come no later than their image in the part of the      *)
(* order walked so far, for every symmetry at once: skipping the last      *)
(* literal of each cycle loses nothing, stopping at a literal mapped to    *)
(* its negation neither, and the one-sided definitions of the new          *)
(* variables are enough.                                                   *)
EncodesLexLeader ==
  Models(clauses, nbExtraVars) =
    {a \in Assignments : \A k \in 1 .. Len(encoded) :
        LexLeq(a, encoded[k].perm, encoded[k].order, encoded[k].upto)}

(* With the full translation every assignment that is allowed has exactly  *)
(* one extension to the new variables: models are neither lost nor         *)
(* multiplied.                                                             *)
FullTranslationIsFunctional ==
  conf.useFullTranslation /\ ~conf.useShatterTranslation =>
    \A a \in Models(clauses, nbExtraVars) :
      Cardinality({b \in Extensions(a, nbExtraVars) :
                     SatisfiesAll(b, clauses)}) = 1

(* A limited call introduces at most symBreakingFormLength variables       *)
(* ("measured as the number of auxiliary variables", option -s), although  *)
(* what the code counts and compares is constraints.                       *)
AuxiliariesWithinLimit ==
  limitExtraConstrs =>
    nbExtraVars - encoded[Len(encoded)].firstVar <= conf.symBreakingFormLength
=============================================================================
