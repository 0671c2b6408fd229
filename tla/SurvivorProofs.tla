-------------------------- MODULE SurvivorProofs --------------------------
(***************************************************************************)
(* For every number of variables and every list of subgroups: whenever a   *)
(* subgroup is finished, every assignment has a symmetric one that         *)
(* satisfies all clauses added so far (EveryOrbitSurvives).                *)
(*                                                                         *)
(* It is shown for every set of assignments that the symmetries do not     *)
(* leave.  When a subgroup's turn comes, such a set has a member that      *)
(* survived the subgroups before; the members that differ from it in the   *)
(* literals of the subgroup only survived too, for what was added so far   *)
(* is not about those literals, and the symmetries of the subgroup do not  *)
(* leave this part of the set.  Its lexicographic leaders survive the      *)
(* subgroup, whatever order is found for its literals:                     *)
(*   - a binary clause says that the literal chosen next implies another   *)
(*     one of its orbit under symmetries that fix the literals before it,  *)
(*     and in a leader it does (OrbitImplied);                             *)
(*   - a leader precedes its images, which is all that addSym asks for     *)
(*     (LeaderPrecedes, LeaderRecorded).                                   *)
(* What addSym asks is BreakerProofs' invariant, for the assignments that  *)
(* satisfy the binary clauses: these clauses are over literals of the      *)
(* formula and leave the new variables alone.                              *)
(***************************************************************************)
EXTENDS GroupProofs
LOCAL INSTANCE SequencesExt

(* The symmetries of gens lead out of D nowhere. *)
Closed(D, gens) == \A a \in D, p \in gens : Image(a, p) \in D

(* a and b give the first n literals of the order the same values. *)
Agree(a, b, o, n) == \A k \in 1 .. n : True(a, o[k]) <=> True(b, o[k])

(* m is a lexicographic leader of D: no member of D is smaller in the      *)
(* first n literals of the order.                                          *)
Leader(m, D, o, n) ==
  \A d \in D : \A q \in 1 .. n :
     Agree(d, m, o, q - 1) /\ True(m, o[q]) => True(d, o[q])

(* Every nonempty set has a leader. *)
LEMMA LeaderExists ==
  ASSUME NEW D, D # {}, NEW o, NEW n \in Nat
  PROVE  \E m \in D : Leader(m, D, o, n)
<1> DEFINE A == {k \in Nat : \E m \in D : Leader(m, D, o, k)}
<1>1. 0 \in A
  <2>1. 1 .. 0 = {}
    OBVIOUS
  <2>2. QED
    BY <2>1 DEF Leader
<1>2. ASSUME NEW k \in Nat, k \in A PROVE k + 1 \in A
  <2>1. PICK m \in D : Leader(m, D, o, k)
    BY <1>2
  <2>2. \A q : q \in 1 .. k + 1 <=> (q \in 1 .. k \/ q = k + 1)
    OBVIOUS
  <2>3. (k + 1) - 1 = k
    OBVIOUS
  <2>4. CASE \E d \in D : Agree(d, m, o, k) /\ ~True(d, o[k + 1])
    <3>1. PICK d \in D : Agree(d, m, o, k) /\ ~True(d, o[k + 1])
      BY <2>4
    <3>2. \A q \in 1 .. k : True(d, o[q]) <=> True(m, o[q])
      BY <3>1 DEF Agree
    <3>3. ASSUME NEW e \in D, NEW q \in 1 .. k, Agree(e, d, o, q - 1), True(d, o[q])
          PROVE  True(e, o[q])
      <4>1. \A r \in 1 .. q - 1 : r \in 1 .. k
        OBVIOUS
      <4>2. Agree(e, m, o, q - 1)
        BY <3>2, <3>3, <4>1 DEF Agree
      <4>3. QED
        BY <2>1, <3>2, <3>3, <4>2 DEF Leader
    <3>4. Leader(d, D, o, k + 1)
      BY <2>2, <2>3, <3>1, <3>3 DEF Leader
    <3>5. QED
      BY <3>4
  <2>5. CASE ~\E d \in D : Agree(d, m, o, k) /\ ~True(d, o[k + 1])
    <3>1. Leader(m, D, o, k + 1)
      BY <2>1, <2>2, <2>3, <2>5 DEF Leader
    <3>2. QED
      BY <3>1
  <2>6. QED
    BY <2>4, <2>5
<1> HIDE DEF A
<1>3. n \in A
  BY <1>1, <1>2, SetInduction
<1>4. QED
  BY <1>3 DEF A

(* A leader for a longer order is one for its beginning. *)
LEMMA LeaderPrefix ==
  ASSUME NEW m, NEW D, NEW o \in Seq(Lits), NEW w \in Seq(Lits), Begins(o, w),
         Leader(m, D, w, Len(w))
  PROVE  Leader(m, D, o, Len(o))
<1>1. Len(o) \in Nat /\ Len(w) \in Nat
  OBVIOUS
<1>2. ASSUME NEW d \in D, NEW q \in 1 .. Len(o), Agree(d, m, o, q - 1), True(m, o[q])
      PROVE  True(d, o[q])
  <2>1. /\ q \in 1 .. Len(w) /\ w[q] = o[q]
        /\ \A k \in 1 .. q - 1 : k \in 1 .. Len(o)
    BY <1>1 DEF Begins
  <2>2. Agree(d, m, w, q - 1)
    BY <1>2, <2>1 DEF Agree, Begins
  <2>3. QED
    BY <1>2, <2>1, <2>2 DEF Leader
<1>3. QED
  BY <1>2 DEF Leader

(* A leader precedes its images. *)
LEMMA LeaderPrecedes ==
  ASSUME NEW p \in LitPerms, NEW m, NEW D, Image(m, p) \in D,
         NEW o \in Seq(Lits), NEW n \in 0 .. Len(o), Leader(m, D, o, Len(o))
  PROVE  LexLeq(m, p, o, n)
<1>1. Len(o) \in Nat /\ \A k \in 1 .. n : k \in 1 .. Len(o) /\ o[k] \in Lits
  OBVIOUS
<1>2. \A k \in 1 .. n : True(Image(m, p), o[k]) <=> True(m, p[o[k]])
  BY <1>1, ImageTrue
<1>3. ASSUME NEW q \in 1 .. n,
             \A k \in 1 .. q - 1 : True(m, o[k]) <=> True(m, p[o[k]]), True(m, o[q])
      PROVE  True(m, p[o[q]])
  <2>1. \A k \in 1 .. q - 1 : k \in 1 .. n
    OBVIOUS
  <2>2. Agree(Image(m, p), m, o, q - 1)
    BY <1>2, <1>3, <2>1 DEF Agree
  <2>3. QED
    BY <1>1, <1>2, <1>3, <2>2 DEF Leader
<1>4. QED
  BY <1>3 DEF LexLeq

(* The binary clauses: the literal c that follows the order o is chosen    *)
(* from an orbit of symmetries that fix the literals of o.  If it is true  *)
(* in a leader, then so is every literal of the orbit.  Otherwise some     *)
(* literal that the symmetries reach from c were false in an assignment    *)
(* that agrees with the leader on o; moved back to c it would make a       *)
(* smaller one.                                                            *)
LEMMA OrbitImplied ==
  ASSUME NEW gens \in SUBSET LitPerms, NEW D \in SUBSET Assignments, Closed(D, gens),
         NEW o \in Seq(Lits), \A p \in gens : \A k \in 1 .. Len(o) : p[o[k]] = o[k],
         NEW l \in Lits, NEW c \in OrbitOf(gens, l), NEW m \in D,
         Leader(m, D, Append(o, c), Len(o) + 1), True(m, c)
  PROVE  \A x \in OrbitOf(gens, l) : True(m, x)
<1>1. Len(o) \in Nat /\ \A k \in 1 .. Len(o) : o[k] \in Lits
  OBVIOUS
<1>2. c \in Lits /\ OrbitOf(gens, l) \subseteq Lits
  <2>1. OrbitOf(gens, l) \subseteq Lits
    BY OrbitFacts
  <2>2. QED
    BY <2>1
(* The literals that are true in all members of D that agree with m. *)
<1> DEFINE T == {x \in Lits : \A d \in D : Agree(d, m, o, Len(o)) => True(d, x)}
<1>3. \A p \in gens, x \in T : p[x] \in T
  <2>1. SUFFICES ASSUME NEW p \in gens, NEW x \in Lits, p[x] \notin T
                 PROVE  x \notin T
    <3>1. T \subseteq Lits
      OBVIOUS
    <3> HIDE DEF T
    <3>2. QED
      BY <2>1, <3>1
  <2>2. p \in LitPerms /\ p[x] \in Lits
    BY DEF LitPerms
  <2>3. PICK d \in D : Agree(d, m, o, Len(o)) /\ ~True(d, p[x])
    BY <2>1, <2>2
  <2>4. Image(d, p) \in D
    BY DEF Closed
  <2>5. ASSUME NEW k \in 1 .. Len(o) PROVE True(Image(d, p), o[k]) <=> True(d, o[k])
    <3>1. p[o[k]] = o[k]
      OBVIOUS
    <3>2. QED
      BY <1>1, <2>2, <3>1, ImageTrue
  <2>6. Agree(Image(d, p), m, o, Len(o))
    BY <2>3, <2>5 DEF Agree
  <2>7. ~True(Image(d, p), x)
    BY <2>2, <2>3, ImageTrue
  <2>8. QED
    BY <2>4, <2>6, <2>7
<1>4. c \in T
  <2>1. /\ Append(o, c)[Len(o) + 1] = c
        /\ \A k \in 1 .. Len(o) : Append(o, c)[k] = o[k]
    BY <1>2, AppendProperties
  <2>2. Len(o) + 1 \in 1 .. Len(o) + 1 /\ (Len(o) + 1) - 1 = Len(o)
    BY <1>1
  <2>3. ASSUME NEW d \in D, Agree(d, m, o, Len(o)) PROVE True(d, c)
    <3>1. Agree(d, m, Append(o, c), Len(o))
      BY <2>1, <2>3 DEF Agree
    <3>2. QED
      BY <2>1, <2>2, <3>1 DEF Leader
  <2>4. QED
    BY <1>2, <2>3
<1>5. T \in SUBSET Lits
  OBVIOUS
<1>6. \A x \in T : True(m, x)
  BY DEF Agree
<1> HIDE DEF T
<1>7. \A p \in gens, x \in Lits \ T : p[x] \in Lits \ T
  BY <1>3, <1>5, ClosedComplement
<1>8. \A E \in SUBSET Lits : l \in E /\ (\A p \in gens, x \in E : p[x] \in E)
                               => OrbitOf(gens, l) \subseteq E
  BY OrbitFacts
<1>9. l \in T
  <2>1. SUFFICES ASSUME l \in Lits \ T PROVE FALSE
    OBVIOUS
  <2>2. OrbitOf(gens, l) \subseteq Lits \ T
    BY <1>7, <1>8, <2>1
  <2>3. QED
    BY <1>4, <2>2
<1>10. OrbitOf(gens, l) \subseteq T
  BY <1>3, <1>5, <1>8, <1>9
<1>11. QED
  BY <1>6, <1>10

(* An orbit stays within a set of literals that the symmetries do not      *)
(* leave, if one of its literals lies there.                               *)
LEMMA OrbitWithin ==
  ASSUME NEW gens \in SUBSET LitPerms, NEW E \in SUBSET Lits,
         \A p \in gens, x \in E : p[x] \in E,
         NEW l \in Lits, NEW c \in OrbitOf(gens, l), c \in E
  PROVE  OrbitOf(gens, l) \subseteq E
<1>1. \A p \in gens, x \in Lits \ E : p[x] \in Lits \ E
  BY ClosedComplement
<1>2. \A F \in SUBSET Lits : l \in F /\ (\A p \in gens, x \in F : p[x] \in F)
                               => OrbitOf(gens, l) \subseteq F
  BY OrbitFacts
<1>3. l \in E
  <2>1. SUFFICES ASSUME l \in Lits \ E PROVE FALSE
    OBVIOUS
  <2>2. OrbitOf(gens, l) \subseteq Lits \ E
    BY <1>1, <1>2, <2>1
  <2>3. QED
    BY <2>2
<1>4. QED
  BY <1>2, <1>3

-----------------------------------------------------------------------------
(* The literals of the subgroups up to the one at work. *)
Used == UNION {Support(groups[k]) : k \in 1 .. g}

Local(x) == x \in Lits => x \in Used

(* The clauses without new variables. *)
OrigClauses == {c \in clauses : \A k \in 1 .. Len(c) : c[k] \in Lits}

OrigModels == {a \in Assignments : SatisfiesAll(a, OrigClauses)}

(* The breaker is called with the order and a generator of the subgroup. *)
CallInv ==
  /\ phase \in {"perms", "rows"} => j \in Nat \ {0}
  /\ pc # "idle" => /\ phase \in {"perms", "rows"} /\ order = out_order
                    /\ perm \in GeneratorsOf(groups[g])

(* The binary clauses narrow down the assignments that have a model. *)
BreakerInv == InvOn(OrigModels)

(* Nothing refers to a literal of a later subgroup. *)
LocalInv ==
  /\ \A k \in 1 .. Len(encoded) : \A q \in 1 .. Len(encoded[k].order) :
       /\ encoded[k].order[q] \in Used
       /\ encoded[k].perm[encoded[k].order[q]] \in Used
  /\ \A c \in clauses : \A k \in 1 .. Len(c) : Local(c[k])
  /\ pc # "idle" => Local(prevLit) /\ Local(prevSym) /\ Local(prevTst)

(* m respects what is encoded and the binary clauses. *)
Surviving(m) == AllLex(encoded, m) /\ SatisfiesAll(m, OrigClauses)

(* Every set that the symmetries do not leave holds a survivor; while a    *)
(* subgroup is at work, it has a part which its symmetries do not leave    *)
(* and whose leaders survive.                                              *)
LeaderInv ==
  \A C \in SUBSET Assignments : C # {} /\ Closed(C, Generators) =>
    /\ phase = "idle" => \E m \in C : Surviving(m)
    /\ phase # "idle" =>
         \E D \in SUBSET C :
           /\ D # {} /\ Closed(D, GeneratorsOf(groups[g]))
           /\ \A m \in D : Leader(m, D, out_order, Len(out_order)) => Surviving(m)

SurvivorInv ==
  StabilizerInv /\ OrderInv /\ CallInv /\ BreakerInv /\ LocalInv /\ LeaderInv

-----------------------------------------------------------------------------
(* The literals of a subgroup are not left by its generators. *)
LEMMA SupportFacts ==
  ASSUME NEW list \in GroupLists, NEW k \in 1 .. Len(list)
  PROVE  /\ Support(list[k]) \subseteq Lits
         /\ \A l \in Support(list[k]) : Neg(l) \in Support(list[k])
         /\ GeneratorsOf(list[k]) \subseteq LitPerms
         /\ \A p \in GeneratorsOf(list[k]) : Domain(p) \subseteq Support(list[k])
         /\ \A p \in GeneratorsOf(list[k]), l \in Support(list[k]) :
               p[l] \in Support(list[k])
<1> DEFINE group == list[k]
           M == LitsIn(group.matrices)
           P == ToSet(group.permutations)
           S == Support(group)
<1>1. /\ P \subseteq LitPerms /\ ToSet(RowSwaps(group.matrices)) \subseteq LitPerms
      /\ M \subseteq Lits /\ \A l \in M : Neg(l) \in M
      /\ \A p \in ToSet(RowSwaps(group.matrices)) : Domain(p) \subseteq M
  BY GroupFacts
<1>2. \A l : l \in S <=> l \in M \/ \E p \in P : l \in Domain(p)
  BY DEF Support
<1> HIDE DEF group, M, P, S
<1>3. S \subseteq Lits /\ \A l \in S : Neg(l) \in S
  BY <1>1, <1>2, DomainNeg
<1>4. \A p \in GeneratorsOf(group) : p \in LitPerms /\ Domain(p) \subseteq S
  BY <1>1, <1>2 DEF GeneratorsOf, P
<1>5. ASSUME NEW p \in GeneratorsOf(group), NEW l \in S PROVE p[l] \in S
  <2>1. CASE l \in Domain(p)
    BY <1>4, <2>1, DomainNeg
  <2>2. CASE l \notin Domain(p)
    <3>1. p[l] = l
      BY <1>3, <1>4, <2>2 DEF Domain, LitPerms
    <3>2. QED
      BY <3>1
  <2>3. QED
    BY <2>1, <2>2
<1>6. QED
  BY <1>3, <1>4, <1>5 DEF S, group

(* All generators are those of the subgroups. *)
LEMMA GeneratorsFacts ==
  ASSUME OrderInv
  PROVE  /\ Generators \subseteq LitPerms
         /\ \A p : p \in Generators <=>
                     \E k \in 1 .. Len(groups) : p \in GeneratorsOf(groups[k])
         /\ Used \subseteq Lits /\ \A l \in Used : Neg(l) \in Used
<1>1. groups \in GroupLists /\ g \in 0 .. Len(groups)
  BY DEF OrderInv
<1>2. groups \in Seq(GroupType)
  BY <1>1, GroupListsAssumption
<1>3. \A k \in 1 .. g : k \in 1 .. Len(groups)
  BY <1>1, <1>2
<1>4. \A p : p \in Generators <=>
               \E k \in 1 .. Len(groups) : p \in GeneratorsOf(groups[k])
  BY DEF Generators, GeneratorsOf
<1>5. \A l : l \in Used <=> \E k \in 1 .. g : l \in Support(groups[k])
  BY DEF Used
<1>6. \A k \in 1 .. Len(groups) : /\ GeneratorsOf(groups[k]) \subseteq LitPerms
                                  /\ Support(groups[k]) \subseteq Lits
                                  /\ \A l \in Support(groups[k]) :
                                        Neg(l) \in Support(groups[k])
  BY <1>1, SupportFacts
<1>7. QED
  BY <1>3, <1>4, <1>5, <1>6

-----------------------------------------------------------------------------
(* With fewer assignments there is less to show. *)
LEMMA Narrow ==
  ASSUME NEW S, NEW T, T \subseteq S, SoundOn(S)
  PROVE  SoundOn(T)
BY DEF SoundOn

(* The calls of the breaker: with a generator of the subgroup at work and  *)
(* the order found for it.                                                 *)
LEMMA Calls ==
  ASSUME OrderInv, CallInv, BreakPermutation \/ BreakRowSwap
  PROVE  \E p \in GeneratorsOf(groups[g]) : \E limit \in BOOLEAN :
            AddSym(p, out_order, limit)
<1>1. groups \in GroupLists /\ g \in 1 .. Len(groups) /\ j \in Nat \ {0}
  BY DEF BreakPermutation, BreakRowSwap, OrderInv, CallInv
<1>2. groups[g] \in GroupType
  BY <1>1, GroupFacts
<1>3. CASE BreakPermutation
  <2>1. permutations \in Seq(Symmetries)
    BY <1>2 DEF permutations, GroupType
  <2>2. j <= Len(permutations) /\ AddSym(permutations[j], out_order, TRUE)
    BY <1>3 DEF BreakPermutation
  <2>3. permutations[j] \in ToSet(permutations)
    BY <1>1, <2>1, <2>2, Elements
  <2>4. permutations[j] \in GeneratorsOf(groups[g])
    BY <2>3 DEF GeneratorsOf, permutations
  <2>5. QED
    BY <2>2, <2>4
<1>4. CASE BreakRowSwap
  <2>1. matrices \in Seq(Seq(Seq(Lits)))
    BY <1>2 DEF matrices, GroupType
  <2>2. PICK T : RowSwaps(matrices) \in Seq(T)
    BY <2>1, RowSwapsOfRows
  <2>3. j <= Len(RowSwaps(matrices))
        /\ AddSym(RowSwaps(matrices)[j], out_order, FALSE)
    BY <1>4 DEF BreakRowSwap
  <2>4. RowSwaps(matrices)[j] \in ToSet(RowSwaps(matrices))
    BY <1>1, <2>2, <2>3, Elements
  <2>5. RowSwaps(matrices)[j] \in GeneratorsOf(groups[g])
    BY <2>4 DEF GeneratorsOf, matrices
  <2>6. QED
    BY <2>3, <2>5
<1>5. QED
  BY <1>3, <1>4

(* A subgroup's permutations are handed to the breaker in turn. *)
LEMMA NextCall == OrderInv /\ CallInv /\ [GroupNext]_allVars => CallInv'
<1> SUFFICES ASSUME OrderInv, CallInv, [GroupNext]_allVars PROVE CallInv'
  OBVIOUS
<1>1. CASE NextGroup \/ PickLiteral \/ NoLiteralLeft \/ EndBinary \/ Eliminate
           \/ EndEliminate \/ OrderRest \/ EndPermutations \/ EndGroup
  <2>1. pc = "idle" /\ pc' = pc
    BY <1>1 DEF CallInv, NextGroup, PickLiteral, NoLiteralLeft, EndBinary, Eliminate,
                EndEliminate, OrderRest, EndPermutations, EndGroup, vars
  <2>2. phase' \in {"perms", "rows"} => j' = 1
    BY <1>1 DEF NextGroup, PickLiteral, NoLiteralLeft, EndBinary, Eliminate,
                EndEliminate, OrderRest, EndPermutations, EndGroup
  <2>3. QED
    BY <2>1, <2>2 DEF CallInv
<1>2. CASE BreakPermutation \/ BreakRowSwap
  <2>1. /\ phase \in {"perms", "rows"} /\ phase' = phase /\ j' = j + 1
        /\ groups' = groups /\ g' = g /\ out_order' = out_order
    BY <1>2 DEF BreakPermutation, BreakRowSwap
  <2>2. j' \in Nat \ {0}
    BY <2>1 DEF CallInv
  <2>3. PICK p \in GeneratorsOf(groups[g]) : \E limit \in BOOLEAN :
           AddSym(p, out_order, limit)
    BY <1>2, Calls
  <2>4. perm' = p /\ order' = out_order
    BY <2>3 DEF AddSym
  <2>5. QED
    BY <2>1, <2>2, <2>3, <2>4 DEF CallInv
<1>3. CASE EncodeStep
  <2>1. /\ UNCHANGED <<groups, g, phase, j, out_order, perm, order>>
        /\ pc # "idle"
    BY <1>3 DEF EncodeStep, Step, Mark, EndMark, SkipLit, Constrain, EndSym, Running,
                arguments
  <2>2. QED
    BY <2>1 DEF CallInv
<1>4. CASE UNCHANGED allVars
  <2>1. UNCHANGED <<groups, g, phase, j, out_order, pc, perm, order>>
    BY <1>4 DEF allVars, vars, groupVars, arguments
  <2>2. QED
    BY <2>1 DEF CallInv
<1>5. QED
  BY <1>1, <1>2, <1>3, <1>4 DEF GroupNext

-----------------------------------------------------------------------------
(* The new variables do not change the values of the literals. *)
LEMMA ExtensionTrue ==
  ASSUME NEW a \in Assignments, NEW n \in Nat, NEW b \in Extensions(a, n)
  PROVE  b \in SUBSET Nat /\ \A l \in Lits : True(b, l) <=> True(a, l)
<1>1. PICK aux \in SUBSET (NVars .. NVars + n - 1) : b = a \cup aux
  BY DEF Extensions
<1>2. b \in SUBSET Nat /\ \A v \in Vars : v \in b <=> v \in a
  BY <1>1, NVarsAssumption DEF Assignments, Vars
<1>3. QED
  BY <1>2, TrueLocal, LitFacts

(* A step of the breaker on a narrowed set of assignments. *)
LEMMA NarrowNext ==
  ASSUME NEW S \in SUBSET Assignments, InvOn(S)', clauses \subseteq clauses',
         S = OrigModels
  PROVE  BreakerInv'
<1>1. OrigModels' \subseteq S
  BY DEF OrigModels, OrigClauses, SatisfiesAll
<1>2. SoundOn(S)'
  BY DEF InvOn
<1>3. SoundOn(OrigModels)'
  BY <1>1, <1>2 DEF SoundOn
<1>4. QED
  BY <1>3 DEF BreakerInv, InvOn

(* The clauses of the breaker are only added to. *)
LEMMA BreakerStays ==
  ASSUME OrderInv, CallInv, BreakerInv,
         \/ UNCHANGED vars \/ EncodeStep \/ BreakPermutation \/ BreakRowSwap
  PROVE  BreakerInv'
<1>1. PICK S : S = OrigModels
  OBVIOUS
<1>2. S \in SUBSET Assignments
  BY <1>1 DEF OrigModels
<1>3. InvOn(S)
  BY <1>1 DEF BreakerInv
<1>4. CASE UNCHANGED vars
  <2>1. InvOn(S)' /\ clauses \subseteq clauses'
    BY <1>2, <1>3, <1>4, KeepInv DEF vars, object
  <2>2. QED
    BY <1>1, <1>2, <2>1, NarrowNext
<1>5. CASE EncodeStep
  <2>1. InvOn(S)'
    BY <1>2, <1>3, <1>5, MarkStep, EndMarkStep, SkipLitStep, ConstrainStep,
       EndSymStep DEF EncodeStep, Step
  <2>2. clauses \subseteq clauses'
    BY <1>5 DEF EncodeStep, Step, Mark, EndMark, SkipLit, Constrain, EndSym, object
  <2>3. QED
    BY <1>1, <1>2, <2>1, <2>2, NarrowNext
<1>6. CASE BreakPermutation \/ BreakRowSwap
  <2>1. PICK p \in GeneratorsOf(groups[g]), limit \in BOOLEAN :
           AddSym(p, out_order, limit)
    BY <1>6, Calls
  <2>2. groups \in GroupLists /\ g \in 1 .. Len(groups)
        /\ OrderOf(groups[g], out_order)
    BY <1>6 DEF OrderInv, BreakPermutation, BreakRowSwap
  <2>3. p \in LitPerms
    BY <2>2, SupportFacts
  <2>4. IsOrder(out_order) /\ Covers(out_order, p)
    BY <2>2 DEF OrderOf
  <2>5. PICK s : s = out_order
    OBVIOUS
  <2>6. InvOn(S)'
    BY <1>2, <1>3, <2>1, <2>3, <2>4, <2>5, AddSymStep
  <2>7. clauses \subseteq clauses'
    BY <2>1 DEF AddSym, object
  <2>8. QED
    BY <1>1, <1>2, <2>6, <2>7, NarrowNext
<1>7. QED
  BY <1>4, <1>5, <1>6

-----------------------------------------------------------------------------
(* The literal c is chosen from an orbit of symmetries of the subgroup     *)
(* that fix the order so far.                                              *)
Picked(gens, l, c) ==
  /\ gens \subseteq GeneratorsOf(groups[g]) /\ l \in Lits
  /\ c \in OrbitOf(gens, l)
  /\ OrbitOf(gens, l) \subseteq Support(groups[g])
  /\ \A p \in gens : \A k \in 1 .. Len(out_order) : p[out_order[k]] = out_order[k]
  /\ clauses' = clauses \cup {<<Neg(c), x>> : x \in OrbitOf(gens, l) \ {c}}
  /\ out_order' = Append(out_order, c)

(* The literal that is chosen lies in the support, and so does its orbit. *)
LEMMA PickedFacts ==
  ASSUME StabilizerInv, OrderInv, PickLiteral
  PROVE  \E gens, l, c : Picked(gens, l, c)
<1>1. /\ groups \in GroupLists /\ g \in 1 .. Len(groups) /\ phase = "pick"
      /\ \A k \in 1 .. Len(perms) : perms[k] \in ToSet(permutations)
  BY DEF OrderInv, PickLiteral, Choosing
<1>2. /\ GeneratorsOf(groups[g]) \subseteq LitPerms
      /\ Support(groups[g]) \subseteq Lits
      /\ \A p \in GeneratorsOf(groups[g]) : Domain(p) \subseteq Support(groups[g])
      /\ \A p \in GeneratorsOf(groups[g]), l \in Support(groups[g]) :
            p[l] \in Support(groups[g])
  BY <1>1, SupportFacts
<1>3. \A k \in 1 .. Len(perms) : perms[k] \in GeneratorsOf(groups[g])
  BY <1>1 DEF GeneratorsOf, permutations
<1>4. perms \in Seq(LitPerms)
  <2>1. Len(perms) \in Nat /\ perms = [k \in 1 .. Len(perms) |-> perms[k]]
    BY <1>1 DEF StabilizerInv, VectorInv, Choosing, IsVector
  <2>2. \A k \in 1 .. Len(perms) : perms[k] \in LitPerms
    BY <1>2, <1>3
  <2>3. perms \in [1 .. Len(perms) -> LitPerms]
    BY <2>1, <2>2
  <2>4. QED
    BY <2>1, <2>3
<1> DEFINE gens == ToSet(perms)
<1>5. /\ \A k \in 1 .. Len(perms) : perms[k] \in gens
      /\ \A p \in gens : \E k \in 1 .. Len(perms) : p = perms[k]
  BY <1>4, Elements
<1> HIDE DEF gens
<1>6. gens \subseteq GeneratorsOf(groups[g]) /\ gens \in SUBSET LitPerms
  BY <1>2, <1>3, <1>5
<1>7. PICK r \in Picks(perms) :
         /\ r.lit # Undef
         /\ clauses' = clauses \cup {<<Neg(r.lit), x>> : x \in r.orb \ {r.lit}}
         /\ out_order' = Append(out_order, r.lit)
  BY DEF PickLiteral
<1>8. PICK l \in Lits : r.orb = OrbitOf(gens, l)
  BY <1>4, <1>7, PickFacts DEF gens
<1>9. /\ r.lit \in r.orb
      /\ \E k \in 1 .. Len(perms) : r.lit \in PosDomain(perms[k])
  BY <1>4, <1>7, PickFacts
<1>10. PICK c : c = r.lit
  OBVIOUS
<1>11. c \in Support(groups[g])
  <2>1. PICK k \in 1 .. Len(perms) : c \in PosDomain(perms[k])
    BY <1>9, <1>10
  <2>2. c \in Domain(perms[k])
    BY <2>1 DEF PosDomain
  <2>3. QED
    BY <1>2, <1>3, <2>1, <2>2
<1>12. OrbitOf(gens, l) \subseteq Support(groups[g])
  <2>1. c \in OrbitOf(gens, l)
    BY <1>8, <1>9, <1>10
  <2>2. \A p \in gens, x \in Support(groups[g]) : p[x] \in Support(groups[g])
    BY <1>2, <1>6
  <2>3. PICK E \in SUBSET Lits : E = Support(groups[g])
    BY <1>2
  <2>4. \A p \in gens, x \in E : p[x] \in E
    BY <2>2, <2>3
  <2>5. OrbitOf(gens, l) \subseteq E
    BY <1>6, <1>11, <2>1, <2>3, <2>4, OrbitWithin
  <2>6. QED
    BY <2>3, <2>5
<1>13. \A p \in gens : \A k \in 1 .. Len(out_order) : p[out_order[k]] = out_order[k]
  BY <1>1, <1>5 DEF StabilizerInv, PickInv
<1>14. Picked(gens, l, c)
  BY <1>6, <1>7, <1>8, <1>9, <1>10, <1>12, <1>13 DEF Picked
<1>15. QED
  BY <1>14

(* The binary clauses are over literals of the formula. *)
LEMMA PickLiteralBreaker ==
  StabilizerInv /\ OrderInv /\ CallInv /\ BreakerInv /\ PickLiteral => BreakerInv'
<1> SUFFICES ASSUME StabilizerInv, OrderInv, CallInv, BreakerInv, PickLiteral
             PROVE  BreakerInv'
  OBVIOUS
<1>1. PICK gens, l, c : Picked(gens, l, c)
  BY PickedFacts
<1>2. groups \in GroupLists /\ g \in 1 .. Len(groups)
  BY DEF OrderInv, PickLiteral
<1> DEFINE O == OrbitOf(gens, l)
           new == {<<Neg(c), x>> : x \in O \ {c}}
<1>3. /\ clauses' = clauses \cup new /\ O \subseteq Lits /\ c \in Lits
      /\ Neg(c) \in Lits
  BY <1>1, <1>2, SupportFacts, LitFacts DEF Picked
<1>4. /\ UNCHANGED <<conf, nbExtraVars, nbRegClauses, pc, perm, order,
                     limitExtraConstrs, current, i, allowedLits, nrExtraConstrs,
                     prevLit, prevSym, prevTst, encoded>>
      /\ pc = "idle"
  BY DEF PickLiteral, arguments, frame, CallInv
<1> HIDE DEF O
<1>5. \A d \in new : \A k \in 1 .. Len(d) : d[k] \in Lits
  <2>1. SUFFICES ASSUME NEW x \in O, NEW k \in 1 .. Len(<<Neg(c), x>>)
                 PROVE  <<Neg(c), x>>[k] \in Lits
    OBVIOUS
  <2>2. k = 1 \/ k = 2
    OBVIOUS
  <2>3. QED
    BY <1>3, <2>2
<1>6. IsFiniteSet(new)
  <2>1. IsFiniteSet(Lits)
    BY FS_Interval, NVarsAssumption DEF Lits
  <2>2. IsFiniteSet({Neg(c)} \X Lits)
    BY <2>1, FS_Singleton, FS_Product
  <2>3. new \subseteq {Neg(c)} \X Lits
    BY <1>3
  <2>4. QED
    BY <2>2, <2>3, FS_Subset
<1> HIDE DEF new
<1>7. TypeOK /\ LoopInv /\ MarkInv /\ CompleteInv /\ AuxInv /\ SoundOn(OrigModels)
  BY DEF BreakerInv, InvOn
<1>8. TypeOK'
  <2>1. \A m \in Lits : m \in 0 .. 2 * (NVars + nbExtraVars) - 1
    BY <1>7, NVarsAssumption DEF TypeOK, Lits
  <2>2. \A d \in clauses' : \A k \in 1 .. Len(d) :
           d[k] \in 0 .. 2 * (NVars + nbExtraVars) - 1
    BY <1>3, <1>5, <1>7, <2>1 DEF TypeOK
  <2>3. QED
    BY <1>4, <1>7, <2>2 DEF TypeOK
<1>9. LoopInv'
  <2>1. IsFiniteSet(clauses') /\ Cardinality(clauses) <= Cardinality(clauses')
        /\ Cardinality(clauses) \in Nat /\ Cardinality(clauses') \in Nat
    <3>1. IsFiniteSet(clauses)
      BY <1>7 DEF LoopInv
    <3>2. IsFiniteSet(clauses')
      BY <1>3, <1>6, <3>1, FS_Union
    <3>3. clauses \subseteq clauses'
      BY <1>3
    <3>4. QED
      BY <3>1, <3>2, <3>3, FS_Subset, FS_CardinalityType
  <2>2. current' <= Cardinality(clauses')
    BY <1>4, <1>7, <2>1 DEF LoopInv, TypeOK
  <2>3. QED
    BY <1>4, <1>7, <2>1, <2>2 DEF LoopInv, Going
<1>10. MarkInv' /\ AuxInv'
  BY <1>4, <1>7 DEF MarkInv, HasMarked, Examined, AuxInv
<1>11. CompleteInv'
  BY <1>3, <1>4, <1>7 DEF CompleteInv, SatisfiesAll, Going
<1>12. SoundOn(OrigModels)'
  <2>1. SUFFICES ASSUME NEW a \in OrigModels', AllLex(encoded, a)
                 PROVE  \E b \in Extensions(a, nbExtraVars) :
                           SatisfiesAll(b, clauses')
    BY <1>4 DEF SoundOn, Going
  <2>2. a \in Assignments /\ SatisfiesAll(a, OrigClauses')
    BY DEF OrigModels
  <2>3. OrigClauses \subseteq OrigClauses' /\ new \subseteq OrigClauses'
    BY <1>3, <1>5 DEF OrigClauses
  <2>4. a \in OrigModels /\ SatisfiesAll(a, new)
    BY <2>2, <2>3 DEF OrigModels, SatisfiesAll
  <2>5. PICK b \in Extensions(a, nbExtraVars) : SatisfiesAll(b, clauses)
    BY <1>7, <2>1, <2>4 DEF SoundOn
  <2>6. \A m \in Lits : True(b, m) <=> True(a, m)
    BY <1>7, <2>2, <2>5, ExtensionTrue DEF TypeOK
  <2>7. SatisfiesAll(b, new)
    BY <1>5, <2>4, <2>6 DEF SatisfiesAll, Satisfies
  <2>8. QED
    BY <1>3, <2>5, <2>7 DEF SatisfiesAll
<1>13. QED
  BY <1>8, <1>9, <1>10, <1>11, <1>12 DEF BreakerInv, InvOn

(* Only the choice of a literal changes the clauses without addSym. *)
LEMMA NextBreaker ==
  StabilizerInv /\ OrderInv /\ CallInv /\ BreakerInv /\ [GroupNext]_allVars
    => BreakerInv'
<1> SUFFICES ASSUME StabilizerInv, OrderInv, CallInv, BreakerInv,
                    [GroupNext]_allVars
             PROVE  BreakerInv'
  OBVIOUS
<1>1. CASE PickLiteral
  BY <1>1, PickLiteralBreaker
<1>2. CASE EncodeStep \/ BreakPermutation \/ BreakRowSwap
  BY <1>2, BreakerStays
<1>3. CASE NextGroup \/ NoLiteralLeft \/ EndBinary \/ Eliminate \/ EndEliminate
           \/ OrderRest \/ EndPermutations \/ EndGroup \/ UNCHANGED allVars
  <2>1. UNCHANGED vars
    BY <1>3 DEF NextGroup, NoLiteralLeft, EndBinary, Eliminate, EndEliminate,
                OrderRest, EndPermutations, EndGroup, allVars
  <2>2. QED
    BY <2>1, BreakerStays
<1>4. QED
  BY <1>1, <1>2, <1>3 DEF GroupNext

-----------------------------------------------------------------------------
(* What belongs to the subgroup at work counts as used. *)
LEMMA UsedNow ==
  ASSUME OrderInv, g \in 1 .. Len(groups)
  PROVE  /\ Support(groups[g]) \subseteq Used
         /\ \A p \in GeneratorsOf(groups[g]), l \in Support(groups[g]) : p[l] \in Used
         /\ GeneratorsOf(groups[g]) \subseteq LitPerms
<1>1. groups \in GroupLists
  BY DEF OrderInv
<1>2. g \in 1 .. g
  OBVIOUS
<1>3. Support(groups[g]) \subseteq Used
  BY <1>2 DEF Used
<1>4. QED
  BY <1>1, <1>3, SupportFacts

(* Records and clauses stay local if their literals were. *)
LEMMA LocalStays ==
  ASSUME LocalInv, Used \subseteq Used', UNCHANGED <<encoded, clauses>>,
         \/ pc' = "idle"
         \/ pc # "idle" /\ UNCHANGED <<prevLit, prevSym, prevTst>>
  PROVE  LocalInv'
BY DEF LocalInv, Local

(* Where the loop of a call stands in the record of that call does not     *)
(* matter.                                                                 *)
LEMMA RecordsStay ==
  ASSUME LocalInv, TypeOK, LoopInv, pc # "idle", NEW n \in Nat, n <= Len(order),
         encoded' = Encoded(n), Used' = Used
  PROVE  \A k \in 1 .. Len(encoded') : \A q \in 1 .. Len(encoded'[k].order) :
            /\ encoded'[k].order[q] \in Used'
            /\ encoded'[k].perm[encoded'[k].order[q]] \in Used'
<1>1. /\ Len(encoded') = Len(encoded) /\ Len(encoded) > 0 /\ Len(encoded) \in Nat
      /\ encoded'[Len(encoded)].perm = perm /\ encoded'[Len(encoded)].order = order
      /\ \A k \in 1 .. Len(encoded) - 1 : encoded'[k] = encoded[k]
  BY EncodedFacts DEF LoopInv
<1>2. /\ encoded[Len(encoded)].perm = perm /\ encoded[Len(encoded)].order = order
  BY DEF LoopInv
<1>3. \A k \in 1 .. Len(encoded) :
         encoded'[k].perm = encoded[k].perm /\ encoded'[k].order = encoded[k].order
  <2>1. \A k \in 1 .. Len(encoded) : k \in 1 .. Len(encoded) - 1 \/ k = Len(encoded)
    BY <1>1
  <2>2. QED
    BY <1>1, <1>2, <2>1
<1>4. \A k \in 1 .. Len(encoded) : \A q \in 1 .. Len(encoded[k].order) :
         /\ encoded[k].order[q] \in Used
         /\ encoded[k].perm[encoded[k].order[q]] \in Used
  BY DEF LocalInv
<1>5. QED
  BY <1>1, <1>3, <1>4

(* A call starts with an order over the literals of the subgroup. *)
LEMMA AddSymLocal ==
  ASSUME OrderInv, CallInv, BreakerInv, LocalInv, BreakPermutation \/ BreakRowSwap
  PROVE  LocalInv'
<1>1. PICK p \in GeneratorsOf(groups[g]), limit \in BOOLEAN :
         AddSym(p, out_order, limit)
  BY Calls
<1>2. /\ groups \in GroupLists /\ g \in 1 .. Len(groups)
      /\ OrderOf(groups[g], out_order)
      /\ groups' = groups /\ g' = g
  BY DEF OrderInv, BreakPermutation, BreakRowSwap
<1>3. /\ out_order \in Seq(Lits) /\ Len(out_order) \in Nat
      /\ \A q \in 1 .. Len(out_order) : out_order[q] \in Support(groups[g])
  <2>1. out_order \in Seq(Lits) /\ ToSet(out_order) \subseteq Support(groups[g])
    BY <1>2 DEF OrderOf, IsOrder
  <2>2. QED
    BY <2>1, Elements
<1>4. /\ Support(groups[g]) \subseteq Used
      /\ \A l \in Support(groups[g]) : p[l] \in Used
      /\ p \in LitPerms
  BY <1>1, <1>2, UsedNow
<1>5. Used' = Used
  BY <1>2 DEF Used
<1>6. /\ encoded \in Seq(EncodedRecord) /\ nbExtraVars \in Nat
  BY DEF BreakerInv, InvOn, LoopInv, TypeOK
<1> DEFINE r == [perm |-> p, order |-> out_order, upto |-> 0,
                 firstVar |-> nbExtraVars]
<1>7. /\ encoded' = Append(encoded, r) /\ clauses' = clauses
      /\ prevLit' = Undef /\ prevSym' = Undef /\ prevTst' = Undef
  BY <1>1 DEF AddSym, object
<1>8. r \in EncodedRecord
  BY <1>3, <1>4, <1>6 DEF EncodedRecord
<1>9. /\ Len(encoded') = Len(encoded) + 1 /\ Len(encoded) \in Nat
      /\ \A k \in 1 .. Len(encoded) : encoded'[k] = encoded[k]
      /\ encoded'[Len(encoded) + 1] = r
  BY <1>6, <1>7, <1>8, AppendProperties
<1>10. ASSUME NEW k \in 1 .. Len(encoded'), NEW q \in 1 .. Len(encoded'[k].order)
       PROVE  /\ encoded'[k].order[q] \in Used'
              /\ encoded'[k].perm[encoded'[k].order[q]] \in Used'
  <2>1. CASE k \in 1 .. Len(encoded)
    BY <1>5, <1>9, <1>10, <2>1 DEF LocalInv
  <2>2. CASE k = Len(encoded) + 1
    <3>1. encoded'[k] = r
      BY <1>9, <2>2
    <3>2. encoded'[k].order = out_order /\ encoded'[k].perm = p
      BY <3>1
    <3>3. QED
      BY <1>3, <1>4, <1>5, <1>10, <3>2
  <2>3. QED
    BY <1>9, <2>1, <2>2
<1>11. Undef \notin Lits
  BY DEF Undef, Lits
<1> HIDE DEF r
<1>12. /\ Local(prevLit)' /\ Local(prevSym)' /\ Local(prevTst)'
  BY <1>7, <1>11 DEF Local
<1>13. \A c \in clauses' : \A k \in 1 .. Len(c) : Local(c[k])'
  BY <1>5, <1>7 DEF LocalInv, Local
<1>14. QED
  BY <1>10, <1>12, <1>13 DEF LocalInv

(* The clauses of a constraint connect literals of the subgroup with new   *)
(* variables.                                                              *)
LEMMA ConstrainLocal ==
  ASSUME OrderInv, CallInv, BreakerInv, LocalInv, Constrain,
         UNCHANGED <<groups, g>>
  PROVE  LocalInv'
<1> DEFINE l == order[i]
           sym == perm[l]
           tst == IF nrExtraConstrs = 0 THEN Undef ELSE TseitinVar
           last == sym = Neg(l)
           R == {x \in Nat : Local(x)}
<1>1. /\ TypeOK /\ LoopInv /\ Going /\ nrExtraConstrs \in Nat
      /\ nbExtraVars \in Nat /\ l \in Lits /\ sym \in Lits
      /\ i \in 1 .. Len(order) /\ Len(order) \in Nat /\ pc # "idle"
      /\ Len(encoded) > 0 /\ encoded[Len(encoded)].perm = perm
      /\ encoded[Len(encoded)].order = order /\ Len(encoded) \in Nat
  BY NVarsAssumption
     DEF BreakerInv, InvOn, TypeOK, LoopInv, IsOrder, LitPerms, Constrain,
         Running, Going
<1>2. /\ clauses' = clauses \cup ConstraintClauses(l, sym, tst)
      /\ prevLit' = IF last THEN prevLit ELSE l
      /\ prevSym' = IF last THEN prevSym ELSE sym
      /\ prevTst' = IF last THEN prevTst ELSE tst
      /\ encoded' = Encoded(IF last THEN Len(order) ELSE i)
  BY DEF Constrain
<1>3. Used' = Used
  BY DEF Used
<1>4. l \in Used /\ sym \in Used
  <2>1. Len(encoded) \in 1 .. Len(encoded)
    BY <1>1
  <2>2. QED
    BY <1>1, <2>1 DEF LocalInv
<1>5. \A k \in 1 .. Len(encoded') : \A q \in 1 .. Len(encoded'[k].order) :
            /\ encoded'[k].order[q] \in Used'
            /\ encoded'[k].perm[encoded'[k].order[q]] \in Used'
  <2>1. PICK n \in Nat : n <= Len(order) /\ encoded' = Encoded(n)
    BY <1>1, <1>2
  <2>2. QED
    BY <1>1, <1>3, <2>1, RecordsStay
<1>6. Local(prevLit) /\ Local(prevSym) /\ Local(prevTst)
  BY <1>1 DEF LocalInv
<1>7. tst \notin Lits /\ (nrExtraConstrs >= 1 => tst \in Nat)
  <2>1. TseitinVar = 2 * (NVars + nbExtraVars)
    BY <1>1, NVarsAssumption DEF TseitinVar, MkLit
  <2>2. QED
    BY <1>1, <2>1, NVarsAssumption DEF Undef, Lits
<1> HIDE DEF l, sym, tst, last
<1>8. Local(l) /\ Local(sym) /\ Local(tst)
  BY <1>4, <1>7 DEF Local
<1>9. \A x \in R : Neg(x) \in R
  <2>1. SUFFICES ASSUME NEW x \in Nat, Local(x), Neg(x) \in Lits
                 PROVE  Neg(x) \in Used
    BY NegFacts DEF Local
  <2>2. x \in Lits
    BY <2>1, LitFacts, NegFacts
  <2>3. QED
    BY <2>1, <2>2, GeneratorsFacts DEF Local
<1>10. /\ l \in R /\ sym \in R
       /\ nrExtraConstrs >= 1 => prevLit \in R /\ prevSym \in R /\ tst \in R
       /\ nrExtraConstrs >= 2 => prevTst \in R
  <2>1. l \in Nat /\ sym \in Nat
    BY <1>1, LitFacts
  <2>2. nrExtraConstrs >= 1 => prevLit \in Nat /\ prevSym \in Nat
    BY <1>1, LitFacts DEF LoopInv
  <2>3. nrExtraConstrs >= 2 => prevTst \in Nat
    BY <1>1 DEF LoopInv
  <2>4. QED
    BY <1>6, <1>7, <1>8, <2>1, <2>2, <2>3
<1> HIDE DEF R
<1>11. \A c \in ConstraintClauses(l, sym, tst) : \A k \in 1 .. Len(c) : c[k] \in R
  BY <1>1, <1>9, <1>10, ClausesFrom
<1>12. \A c \in clauses' : \A k \in 1 .. Len(c) : Local(c[k])
  BY <1>2, <1>11 DEF R, LocalInv
<1>13. /\ Local(prevLit)' /\ Local(prevSym)' /\ Local(prevTst)'
  BY <1>2, <1>3, <1>6, <1>8 DEF Local
<1>14. \A c \in clauses' : \A k \in 1 .. Len(c) : Local(c[k])'
  BY <1>3, <1>12 DEF Local
<1>15. QED
  BY <1>5, <1>13, <1>14 DEF LocalInv

(* The binary clauses are over an orbit of the subgroup. *)
LEMMA PickLiteralLocal ==
  ASSUME StabilizerInv, OrderInv, CallInv, LocalInv, PickLiteral
  PROVE  LocalInv'
<1>1. PICK gens, l, c : Picked(gens, l, c)
  BY PickedFacts
<1>2. /\ groups \in GroupLists /\ g \in 1 .. Len(groups)
      /\ UNCHANGED <<groups, g, encoded, pc>> /\ pc = "idle"
  BY DEF OrderInv, PickLiteral, CallInv
<1>3. Used' = Used
  BY <1>2 DEF Used
<1> DEFINE O == OrbitOf(gens, l)
<1>4. /\ clauses' = clauses \cup {<<Neg(c), x>> : x \in O \ {c}}
      /\ O \subseteq Used /\ c \in Used /\ Neg(c) \in Used
  <2>1. Support(groups[g]) \subseteq Used /\ \A x \in Used : Neg(x) \in Used
    BY <1>2, UsedNow, GeneratorsFacts
  <2>2. QED
    BY <1>1, <2>1 DEF Picked
<1> HIDE DEF O
<1>5. ASSUME NEW d \in clauses', NEW k \in 1 .. Len(d) PROVE Local(d[k])
  <2>1. CASE d \in clauses
    BY <1>5, <2>1 DEF LocalInv
  <2>2. CASE d \notin clauses
    <3>1. PICK x \in O : d = <<Neg(c), x>>
      BY <1>4, <1>5, <2>2
    <3>2. k = 1 \/ k = 2
      BY <1>5, <3>1
    <3>3. d[k] \in Used
      BY <1>4, <3>1, <3>2
    <3>4. QED
      BY <3>3 DEF Local
  <2>3. QED
    BY <2>1, <2>2
<1>6. \A d \in clauses' : \A k \in 1 .. Len(d) : Local(d[k])'
  BY <1>3, <1>5 DEF Local
<1>7. QED
  BY <1>2, <1>3, <1>6 DEF LocalInv

(* Every step stays within the literals of the subgroups begun. *)
LEMMA NextLocal ==
  StabilizerInv /\ OrderInv /\ CallInv /\ BreakerInv /\ LocalInv
    /\ [GroupNext]_allVars => LocalInv'
<1> SUFFICES ASSUME StabilizerInv, OrderInv, CallInv, BreakerInv, LocalInv,
                    [GroupNext]_allVars
             PROVE  LocalInv'
  OBVIOUS
<1>1. CASE NextGroup
  <2>1. /\ pc = "idle" /\ g \in Nat /\ groups' = groups /\ g' = g + 1
        /\ UNCHANGED <<encoded, clauses, pc>>
    BY <1>1 DEF NextGroup, vars, object, CallInv, StabilizerInv, GroupsInv
  <2>2. Used \subseteq Used'
    <3>1. \A k \in 1 .. g : k \in 1 .. g'
      BY <2>1
    <3>2. QED
      BY <2>1, <3>1 DEF Used
  <2>3. QED
    BY <2>1, <2>2, LocalStays
<1>2. CASE PickLiteral
  BY <1>2, PickLiteralLocal
<1>3. CASE BreakPermutation \/ BreakRowSwap
  BY <1>3, AddSymLocal
<1>4. CASE NoLiteralLeft \/ EndBinary \/ Eliminate \/ EndEliminate \/ OrderRest
           \/ EndPermutations \/ EndGroup \/ UNCHANGED allVars
  <2>1. UNCHANGED <<groups, g, encoded, clauses, pc, prevLit, prevSym, prevTst>>
    BY <1>4 DEF NoLiteralLeft, EndBinary, Eliminate, EndEliminate, OrderRest,
                EndPermutations, EndGroup, allVars, groupVars, vars, object, frame
  <2>2. Used' = Used
    BY <2>1 DEF Used
  <2>3. QED
    BY <2>1, <2>2, LocalStays
<1>5. CASE EncodeStep
  <2>1. UNCHANGED <<groups, g>>
    BY <1>5 DEF EncodeStep
  <2>2. Used' = Used
    BY <2>1 DEF Used
  <2>3. CASE Mark \/ EndMark \/ EndSym
    <3>1. UNCHANGED <<encoded, clauses, prevLit, prevSym, prevTst>> /\ pc # "idle"
      BY <2>3 DEF Mark, EndMark, EndSym, object, frame
    <3>2. QED
      BY <2>2, <3>1, LocalStays
  <2>4. CASE SkipLit
    <3>1. /\ UNCHANGED <<clauses, prevLit, prevSym, prevTst, pc>> /\ pc # "idle"
          /\ encoded' = Encoded(i)
      BY <2>4 DEF SkipLit, object, frame, Running
    <3>2. TypeOK /\ LoopInv
      BY DEF BreakerInv, InvOn
    <3>3. i \in Nat /\ i <= Len(order)
      BY <2>4, <3>2 DEF TypeOK, SkipLit, Running
    <3>4. \A k \in 1 .. Len(encoded') : \A q \in 1 .. Len(encoded'[k].order) :
            /\ encoded'[k].order[q] \in Used'
            /\ encoded'[k].perm[encoded'[k].order[q]] \in Used'
      BY <2>2, <3>1, <3>2, <3>3, RecordsStay
    <3>5. \A x : Local(x) => Local(x)'
      BY <2>2 DEF Local
    <3>6. QED
      BY <3>1, <3>4, <3>5 DEF LocalInv, Local
  <2>5. CASE Constrain
    BY <2>1, <2>5, ConstrainLocal
  <2>6. QED
    BY <1>5, <2>3, <2>4, <2>5 DEF EncodeStep, Step
<1>6. QED
  BY <1>1, <1>2, <1>3, <1>4, <1>5 DEF GroupNext

-----------------------------------------------------------------------------
(* The part of an invariant set that the subgroup at work narrows down. *)
Part(D, C) ==
  /\ D \in SUBSET C /\ D # {} /\ Closed(D, GeneratorsOf(groups[g]))
  /\ \A m \in D : Leader(m, D, out_order, Len(out_order)) => Surviving(m)

(* Within a subgroup the part need not change: the step makes the order    *)
(* longer, or asks no more of the leaders than they fulfil.                *)
LEMMA PartStays ==
  ASSUME LeaderInv, phase # "idle", phase' # "idle", UNCHANGED <<groups, g>>,
         \A D \in SUBSET Assignments : \A m \in D :
            Closed(D, GeneratorsOf(groups[g]))
              /\ Leader(m, D, out_order', Len(out_order'))
            => /\ Leader(m, D, out_order, Len(out_order))
               /\ Surviving(m) => Surviving(m)'
  PROVE  LeaderInv'
<1>1. Generators' = Generators
  BY DEF Generators
<1>2. SUFFICES ASSUME NEW C \in SUBSET Assignments, C # {}, Closed(C, Generators)
               PROVE  \E D : Part(D, C)'
  BY <1>1, <1>2 DEF LeaderInv, Part
<1>3. PICK D : Part(D, C)
  BY <1>2 DEF LeaderInv, Part
<1>4. D \in SUBSET C /\ D \in SUBSET Assignments /\ D # {}
      /\ Closed(D, GeneratorsOf(groups[g]))
  BY <1>2, <1>3 DEF Part
<1>5. ASSUME NEW m \in D, Leader(m, D, out_order', Len(out_order'))
      PROVE  Surviving(m)'
  <2>1. Leader(m, D, out_order, Len(out_order)) /\ (Surviving(m) => Surviving(m)')
    BY <1>4, <1>5
  <2>2. QED
    BY <1>3, <2>1 DEF Part
<1>6. groups'[g'] = groups[g]
  OBVIOUS
<1>7. Part(D, C)'
  BY <1>4, <1>5, <1>6 DEF Part
<1>8. QED
  BY <1>7

(* Nobody survives or dies when neither records nor clauses change. *)
LEMMA SurvivingStays ==
  ASSUME UNCHANGED <<encoded, clauses>>
  PROVE  \A m : Surviving(m)' <=> Surviving(m)
BY DEF Surviving, AllLex, OrigClauses

(* A survivor remains one when only unused literals change. *)
LEMMA SurvivingLocal ==
  ASSUME LocalInv, BreakerInv, OrderInv, NEW m, Surviving(m), NEW d,
         \A x \in Used : True(d, x) <=> True(m, x)
  PROVE  Surviving(d)
<1>1. encoded \in Seq(EncodedRecord) /\ Used \subseteq Lits
  BY GeneratorsFacts DEF BreakerInv, InvOn, LoopInv
<1>2. AllLex(encoded, d)
  <2>1. SUFFICES ASSUME NEW k \in 1 .. Len(encoded)
                 PROVE  LexLeq(d, encoded[k].perm, encoded[k].order, encoded[k].upto)
    BY DEF AllLex
  <2>2. LexLeq(m, encoded[k].perm, encoded[k].order, encoded[k].upto)
    BY DEF Surviving, AllLex
  <2>3. encoded[k] \in EncodedRecord
    BY <1>1
  <2>4. PICK p, o, n : /\ p = encoded[k].perm /\ o = encoded[k].order
                       /\ n = encoded[k].upto
    OBVIOUS
  <2>5. o \in Seq(Lits) /\ n \in Nat /\ n <= Len(o)
    BY <2>3, <2>4 DEF EncodedRecord
  <2>6. \A q \in 1 .. Len(o) : o[q] \in Used /\ p[o[q]] \in Used
    BY <2>4 DEF LocalInv
  <2>7. \A q \in 1 .. n : /\ True(d, o[q]) <=> True(m, o[q])
                          /\ True(d, p[o[q]]) <=> True(m, p[o[q]])
    BY <2>5, <2>6
  <2>8. \A q \in 1 .. n : \A k1 \in 1 .. q - 1 : k1 \in 1 .. n
    BY <2>5
  <2>9. LexLeq(m, p, o, n)
    BY <2>2, <2>4
  <2>10. LexLeq(d, p, o, n)
    BY <2>7, <2>8, <2>9 DEF LexLeq
  <2>11. QED
    BY <2>4, <2>10
<1>3. SatisfiesAll(d, OrigClauses)
  <2>1. SUFFICES ASSUME NEW c \in OrigClauses PROVE Satisfies(d, c)
    BY DEF SatisfiesAll
  <2>2. Satisfies(m, c)
    BY DEF Surviving, SatisfiesAll
  <2>3. \A k \in 1 .. Len(c) : c[k] \in Used
    BY DEF OrigClauses, LocalInv, Local
  <2>4. QED
    BY <2>2, <2>3 DEF Satisfies
<1>4. QED
  BY <1>2, <1>3 DEF Surviving

(* The next subgroup works on the members of C that differ from one        *)
(* survivor in the literals of the subgroup only.  They all survive so far.*)
LEMMA NextGroupLeader ==
  ASSUME OrderInv, BreakerInv, LocalInv, LeaderInv, NextGroup
  PROVE  LeaderInv'
<1>1. /\ groups \in GroupLists /\ g \in 0 .. Len(groups) /\ g < Len(groups)
      /\ groups' = groups /\ g' = g + 1 /\ phase = "idle" /\ phase' # "idle"
      /\ UNCHANGED <<encoded, clauses>> /\ out_order' = <<>>
  BY DEF OrderInv, NextGroup, vars, object
<1>2. groups \in Seq(GroupType)
  BY <1>1, GroupListsAssumption
<1>3. /\ g + 1 \in 1 .. Len(groups)
      /\ \A k \in 1 .. g : k \in 1 .. Len(groups) /\ k # g + 1
  BY <1>1, <1>2
<1> DEFINE h == groups[g + 1]
           U == Support(h)
<1>4. /\ U \subseteq Lits /\ GeneratorsOf(h) \subseteq LitPerms
      /\ \A p \in GeneratorsOf(h) : Domain(p) \subseteq U
  BY <1>1, <1>3, SupportFacts
<1>5. \A x \in Used : x \in Lits /\ x \notin U
  <2>1. \A k \in 1 .. g : Support(groups[k]) \cap U = {}
    BY <1>1, <1>3, GroupListsAssumption
  <2>2. QED
    BY <2>1, GeneratorsFacts DEF Used
<1>6. Generators' = Generators
  BY <1>1 DEF Generators
<1>7. \A p \in GeneratorsOf(h) : p \in Generators
  BY <1>3, GeneratorsFacts
<1>8. groups'[g'] = h
  BY <1>1
<1> HIDE DEF h, U
<1>9. SUFFICES ASSUME NEW C \in SUBSET Assignments, C # {}, Closed(C, Generators)
               PROVE  \E D : Part(D, C)'
  BY <1>1, <1>6, <1>9 DEF LeaderInv, Part
<1>10. PICK m \in C : Surviving(m)
  BY <1>1, <1>9 DEF LeaderInv
<1> DEFINE D == {d \in C : \A x \in Lits \ U : True(d, x) <=> True(m, x)}
<1>11. D \in SUBSET C /\ m \in D
  OBVIOUS
<1>12. ASSUME NEW d \in D, NEW p \in GeneratorsOf(h) PROVE Image(d, p) \in D
  <2>1. Image(d, p) \in C
    BY <1>7, <1>9 DEF Closed
  <2>2. ASSUME NEW x \in Lits \ U PROVE True(Image(d, p), x) <=> True(m, x)
    <3>1. p \in LitPerms /\ p \in [Lits -> Lits]
      BY <1>4 DEF LitPerms
    <3>2. p[x] = x
      BY <1>4, <3>1 DEF Domain
    <3>3. True(Image(d, p), x) <=> True(d, x)
      BY <3>1, <3>2, ImageTrue
    <3>4. QED
      BY <3>3
  <2>3. QED
    BY <2>1, <2>2
<1>13. ASSUME NEW d \in D PROVE Surviving(d)'
  <2>1. \A x \in Used : True(d, x) <=> True(m, x)
    BY <1>5
  <2>2. Surviving(d)
    BY <1>10, <2>1, SurvivingLocal
  <2>3. QED
    BY <1>1, <2>2, SurvivingStays
<1> HIDE DEF D
<1>14. PICK E : E = D
  OBVIOUS
<1>15. Part(E, C)'
  <2>1. Closed(E, GeneratorsOf(h))
    BY <1>12, <1>14 DEF Closed
  <2>2. E # {} /\ E \in SUBSET C
    BY <1>11, <1>14
  <2>3. \A d \in E : Surviving(d)'
    BY <1>13, <1>14
  <2>4. QED
    BY <1>8, <2>1, <2>2, <2>3 DEF Part
<1>16. QED
  BY <1>15

(* A leader makes the binary clauses of the chosen literal true. *)
LEMMA PickLiteralLeader ==
  ASSUME StabilizerInv, OrderInv, LeaderInv, PickLiteral
  PROVE  LeaderInv'
<1>1. PICK gens, l, c : Picked(gens, l, c)
  BY PickedFacts
<1>2. /\ groups \in GroupLists /\ g \in 1 .. Len(groups)
      /\ Prefix(groups[g], out_order)
      /\ UNCHANGED <<groups, g, encoded>> /\ phase # "idle" /\ phase' # "idle"
  BY DEF OrderInv, PickLiteral, Choosing
<1> DEFINE O == OrbitOf(gens, l)
<1>3. /\ gens \in SUBSET LitPerms /\ gens \subseteq GeneratorsOf(groups[g])
      /\ l \in Lits /\ c \in O /\ O \subseteq Lits /\ c \in Lits
      /\ \A p \in gens : \A k \in 1 .. Len(out_order) : p[out_order[k]] = out_order[k]
      /\ clauses' = clauses \cup {<<Neg(c), x>> : x \in O \ {c}}
      /\ out_order' = Append(out_order, c)
  BY <1>1, <1>2, SupportFacts DEF Picked
<1>4. PICK o \in Seq(Lits) : o = out_order
  BY <1>2 DEF Prefix, IsOrder
<1>5. /\ Append(o, c) \in Seq(Lits) /\ Len(Append(o, c)) = Len(o) + 1
      /\ Begins(o, Append(o, c))
  BY <1>3, AppendProperties DEF Begins
<1>6. ASSUME NEW D \in SUBSET Assignments, NEW m \in D,
             Closed(D, GeneratorsOf(groups[g])),
             Leader(m, D, out_order', Len(out_order'))
      PROVE  /\ Leader(m, D, out_order, Len(out_order))
             /\ Surviving(m) => Surviving(m)'
  <2>1. Leader(m, D, Append(o, c), Len(o) + 1)
    BY <1>3, <1>4, <1>5, <1>6
  <2>2. Leader(m, D, o, Len(o))
    BY <1>5, <2>1, LeaderPrefix
  <2>3. Closed(D, gens)
    BY <1>3, <1>6 DEF Closed
  <2>4. \A p \in gens : \A k \in 1 .. Len(o) : p[o[k]] = o[k]
    BY <1>3, <1>4
  <2>5. True(m, c) => \A x \in O : True(m, x)
    BY <1>3, <2>1, <2>3, <2>4, OrbitImplied
  <2> HIDE DEF O
  <2>6. \A x \in O : Satisfies(m, <<Neg(c), x>>)
    BY <1>3, <2>5, TrueNeg, LitFacts, Satisfies2
  <2>7. ASSUME Surviving(m) PROVE Surviving(m)'
    <3>1. \A d \in OrigClauses' : d \in OrigClauses \/ \E x \in O : d = <<Neg(c), x>>
      BY <1>3 DEF OrigClauses
    <3>2. SatisfiesAll(m, OrigClauses')
      BY <2>6, <2>7, <3>1 DEF Surviving, SatisfiesAll
    <3>3. AllLex(encoded', m)
      BY <1>2, <2>7 DEF Surviving
    <3>4. QED
      BY <3>2, <3>3 DEF Surviving
  <2>8. QED
    BY <1>4, <2>2, <2>7
<1>7. QED
  BY <1>2, <1>6, PartStays

(* The rest of the order is appended to what has been chosen. *)
LEMMA OrderRestLeader ==
  ASSUME OrderInv, LeaderInv, OrderRest
  PROVE  LeaderInv'
<1>1. /\ UNCHANGED <<groups, g, encoded, clauses>>
      /\ phase # "idle" /\ phase' # "idle"
      /\ Prefix(groups[g], out_order)
  BY DEF OrderInv, OrderRest, vars, object
<1>2. OrderOf(groups[g], out_order') /\ Begins(out_order, out_order')
  BY RestOrdered
<1>3. PICK o \in Seq(Lits), w \in Seq(Lits) : o = out_order /\ w = out_order'
  BY <1>1, <1>2 DEF Prefix, OrderOf, IsOrder
<1>4. \A D : \A m \in D : Leader(m, D, w, Len(w)) => Leader(m, D, o, Len(o))
  BY <1>2, <1>3, LeaderPrefix
<1>5. \A m : Surviving(m)' <=> Surviving(m)
  BY <1>1, SurvivingStays
<1>6. QED
  BY <1>1, <1>3, <1>4, <1>5, PartStays

(* A new record asks nothing yet. *)
LEMMA AddSymLeader ==
  ASSUME OrderInv, CallInv, BreakerInv, LeaderInv, BreakPermutation \/ BreakRowSwap
  PROVE  LeaderInv'
<1>1. PICK p \in GeneratorsOf(groups[g]), limit \in BOOLEAN :
         AddSym(p, out_order, limit)
  BY Calls
<1>2. /\ UNCHANGED <<groups, g, out_order>> /\ phase # "idle" /\ phase' # "idle"
      /\ groups \in GroupLists /\ g \in 1 .. Len(groups)
      /\ OrderOf(groups[g], out_order)
  BY DEF OrderInv, BreakPermutation, BreakRowSwap
<1> DEFINE r == [perm |-> p, order |-> out_order, upto |-> 0,
                 firstVar |-> nbExtraVars]
<1>3. encoded' = Append(encoded, r) /\ clauses' = clauses
  BY <1>1 DEF AddSym, object
<1>4. encoded \in Seq(EncodedRecord) /\ r \in EncodedRecord
  <2>1. encoded \in Seq(EncodedRecord) /\ nbExtraVars \in Nat
    BY DEF BreakerInv, InvOn, LoopInv, TypeOK
  <2>2. p \in LitPerms /\ out_order \in Seq(Lits)
    BY <1>1, <1>2, SupportFacts DEF OrderOf, IsOrder
  <2>3. QED
    BY <2>1, <2>2 DEF EncodedRecord
<1>5. r.upto = 0
  OBVIOUS
<1> HIDE DEF r
<1>6. /\ Len(encoded') = Len(encoded) + 1 /\ Len(encoded) \in Nat
      /\ \A k \in 1 .. Len(encoded) : encoded'[k] = encoded[k]
      /\ encoded'[Len(encoded) + 1] = r
  BY <1>3, <1>4, AppendProperties
<1>7. ASSUME NEW m, Surviving(m) PROVE Surviving(m)'
  <2>1. ASSUME NEW k \in 1 .. Len(encoded')
        PROVE  LexLeq(m, encoded'[k].perm, encoded'[k].order, encoded'[k].upto)
    <3>1. CASE k \in 1 .. Len(encoded)
      BY <1>6, <1>7, <3>1 DEF Surviving, AllLex
    <3>2. CASE k = Len(encoded) + 1
      <4>1. encoded'[k].upto = 0
        BY <1>5, <1>6, <3>2
      <4>2. 1 .. encoded'[k].upto = {}
        BY <4>1
      <4>3. QED
        BY <4>2 DEF LexLeq
    <3>3. QED
      BY <1>6, <2>1, <3>1, <3>2
  <2>2. AllLex(encoded', m)
    BY <2>1 DEF AllLex
  <2>3. SatisfiesAll(m, OrigClauses')
    BY <1>3, <1>7 DEF Surviving, OrigClauses
  <2>4. QED
    BY <2>2, <2>3 DEF Surviving
<1>8. QED
  BY <1>2, <1>7, PartStays

-----------------------------------------------------------------------------
(* The subgroup's symmetries do not lead out of the part, so a leader of   *)
(* it precedes all its images.                                             *)
LEMMA PartPrecedes ==
  ASSUME OrderInv, CallInv, pc # "idle",
         NEW D \in SUBSET Assignments, NEW m \in D,
         Closed(D, GeneratorsOf(groups[g])),
         Leader(m, D, out_order, Len(out_order)),
         NEW n \in 0 .. Len(order)
  PROVE  LexLeq(m, perm, order, n)
<1>1. /\ groups \in GroupLists /\ g \in 1 .. Len(groups)
      /\ OrderOf(groups[g], out_order)
      /\ order = out_order /\ perm \in GeneratorsOf(groups[g])
  BY DEF OrderInv, CallInv
<1>2. PICK p \in LitPerms : p = perm
  BY <1>1, SupportFacts
<1>3. PICK o \in Seq(Lits) : o = order
  BY <1>1 DEF OrderOf, IsOrder
<1>4. Image(m, p) \in D
  BY <1>1, <1>2 DEF Closed
<1>5. n \in 0 .. Len(o) /\ Leader(m, D, o, Len(o))
  BY <1>1, <1>3
<1>6. LexLeq(m, p, o, n)
  BY <1>4, <1>5, LeaderPrecedes
<1>7. QED
  BY <1>2, <1>3, <1>6

(* What is encoded up to position n, a leader fulfils. *)
LEMMA LeaderRecorded ==
  ASSUME OrderInv, CallInv, BreakerInv, pc = "constrain",
         NEW D \in SUBSET Assignments, NEW m \in D,
         Closed(D, GeneratorsOf(groups[g])),
         Leader(m, D, out_order, Len(out_order)), Surviving(m),
         NEW n \in 0 .. Len(order), encoded' = Encoded(n)
  PROVE  AllLex(encoded', m)
<1>1. TypeOK /\ LoopInv
  BY DEF BreakerInv, InvOn
<1>2. n \in Nat /\ n <= Len(order)
  BY <1>1 DEF TypeOK, IsOrder
<1>3. LexLeq(m, perm, order, n)
  BY PartPrecedes
<1>4. AllLexBut(encoded, m)
  BY <1>1, AllLexNow DEF Surviving
<1>5. AllLex(Encoded(n), m)
  BY <1>1, <1>2, <1>3, <1>4, EncodedFacts
<1>6. QED
  BY <1>5

(* A position without a constraint is one at which a leader precedes too. *)
LEMMA SkipLitLeader ==
  ASSUME OrderInv, CallInv, BreakerInv, LeaderInv, SkipLit,
         UNCHANGED <<groups, g, phase, out_order>>
  PROVE  LeaderInv'
<1>1. /\ pc = "constrain" /\ phase # "idle" /\ phase' # "idle"
      /\ clauses' = clauses /\ encoded' = Encoded(i) /\ i <= Len(order)
  BY DEF SkipLit, Running, object, CallInv
<1>2. i \in 0 .. Len(order)
  BY <1>1 DEF BreakerInv, InvOn, TypeOK, IsOrder
<1>3. PICK n \in 0 .. Len(order) : n = i
  BY <1>2
<1>4. ASSUME NEW D \in SUBSET Assignments, NEW m \in D,
             Closed(D, GeneratorsOf(groups[g])),
             Leader(m, D, out_order, Len(out_order)), Surviving(m)
      PROVE  Surviving(m)'
  <2>1. AllLex(encoded', m)
    BY <1>1, <1>3, <1>4, LeaderRecorded
  <2>2. SatisfiesAll(m, OrigClauses')
    BY <1>1, <1>4 DEF Surviving, OrigClauses
  <2>3. QED
    BY <2>1, <2>2 DEF Surviving
<1>5. QED
  BY <1>1, <1>4, PartStays

(* The clauses of a constraint are no stronger than the constraint: where  *)
(* a leader fulfils the constraint, the new variables can be chosen.       *)
LEMMA ConstrainLeader ==
  ASSUME OrderInv, CallInv, BreakerInv, LeaderInv, Constrain,
         UNCHANGED <<groups, g, phase, out_order>>
  PROVE  LeaderInv'
<1>1. /\ pc = "constrain" /\ phase # "idle" /\ phase' # "idle"
      /\ i <= Len(order)
      /\ \E last \in BOOLEAN : encoded' = Encoded(IF last THEN Len(order) ELSE i)
  BY DEF Constrain, Running, CallInv
<1>2. i \in 0 .. Len(order) /\ Len(order) \in 0 .. Len(order)
  BY <1>1 DEF BreakerInv, InvOn, TypeOK, IsOrder
<1>3. PICK n \in 0 .. Len(order) : encoded' = Encoded(n)
  BY <1>1, <1>2
<1>4. PICK S : S = OrigModels
  OBVIOUS
<1>5. S \in SUBSET Assignments /\ InvOn(S)
  BY <1>4 DEF OrigModels, BreakerInv
<1>6. InvOn(S)'
  BY <1>5, ConstrainStep
<1>7. SoundOn(S)' /\ nbExtraVars' \in Nat
  BY <1>6 DEF InvOn, TypeOK
<1>8. ASSUME NEW D \in SUBSET Assignments, NEW m \in D,
             Closed(D, GeneratorsOf(groups[g])),
             Leader(m, D, out_order, Len(out_order)), Surviving(m)
      PROVE  Surviving(m)'
  <2>1. AllLex(encoded', m)
    BY <1>1, <1>3, <1>8, LeaderRecorded
  <2>2. m \in S /\ m \in Assignments
    BY <1>4, <1>8 DEF Surviving, OrigModels
  <2>3. PICK b \in Extensions(m, nbExtraVars') : SatisfiesAll(b, clauses')
    BY <1>7, <2>1, <2>2 DEF SoundOn
  <2>4. \A l \in Lits : True(b, l) <=> True(m, l)
    BY <1>7, <2>2, <2>3, ExtensionTrue
  <2>5. SatisfiesAll(m, OrigClauses')
    BY <2>3, <2>4 DEF OrigClauses, SatisfiesAll, Satisfies
  <2>6. QED
    BY <2>1, <2>5 DEF Surviving
<1>9. QED
  BY <1>1, <1>8, PartStays

(* A finished subgroup leaves the leader of its part. *)
LEMMA EndGroupLeader ==
  ASSUME OrderInv, LeaderInv, EndGroup
  PROVE  LeaderInv'
<1>1. /\ UNCHANGED <<groups, encoded, clauses>> /\ phase # "idle" /\ phase' = "idle"
      /\ OrderOf(groups[g], out_order)
  BY DEF OrderInv, EndGroup, vars, object
<1>2. Generators' = Generators
  BY <1>1 DEF Generators
<1>3. ASSUME NEW C \in SUBSET Assignments, C # {}, Closed(C, Generators)
      PROVE  \E m \in C : Surviving(m)'
  <2>1. PICK D : Part(D, C)
    BY <1>1, <1>3 DEF LeaderInv, Part
  <2>2. D # {} /\ D \in SUBSET C
    BY <2>1 DEF Part
  <2>3. PICK o \in Seq(Lits) : o = out_order
    BY <1>1 DEF OrderOf, IsOrder
  <2>4. PICK m \in D : Leader(m, D, o, Len(o))
    <3>1. Len(o) \in Nat
      OBVIOUS
    <3>2. QED
      BY <2>2, <3>1, LeaderExists, Zenon
  <2>5. Surviving(m)
    BY <2>1, <2>3, <2>4 DEF Part
  <2>6. QED
    BY <1>1, <2>2, <2>5, SurvivingStays
<1>4. QED
  BY <1>1, <1>2, <1>3 DEF LeaderInv

(* Every step leaves a survivor in every set the symmetries do not leave. *)
LEMMA NextLeader ==
  StabilizerInv /\ OrderInv /\ CallInv /\ BreakerInv /\ LocalInv /\ LeaderInv
    /\ [GroupNext]_allVars => LeaderInv'
<1> SUFFICES ASSUME StabilizerInv, OrderInv, CallInv, BreakerInv, LocalInv,
                    LeaderInv, [GroupNext]_allVars
             PROVE  LeaderInv'
  OBVIOUS
<1>1. CASE NextGroup
  BY <1>1, NextGroupLeader
<1>2. CASE PickLiteral
  BY <1>2, PickLiteralLeader
<1>3. CASE OrderRest
  BY <1>3, OrderRestLeader
<1>4. CASE BreakPermutation \/ BreakRowSwap
  BY <1>4, AddSymLeader
<1>5. CASE EndGroup
  BY <1>5, EndGroupLeader
<1>6. CASE EncodeStep
  <2>1. UNCHANGED <<groups, g, phase, out_order>>
    BY <1>6 DEF EncodeStep
  <2>2. CASE SkipLit
    BY <2>1, <2>2, SkipLitLeader
  <2>3. CASE Constrain
    BY <2>1, <2>3, ConstrainLeader
  <2>4. CASE Mark \/ EndMark \/ EndSym
    <3>1. UNCHANGED <<encoded, clauses>> /\ phase # "idle"
      BY <2>4 DEF Mark, EndMark, EndSym, object, CallInv
    <3>2. QED
      BY <2>1, <3>1, SurvivingStays, PartStays
  <2>5. QED
    BY <1>6, <2>2, <2>3, <2>4 DEF EncodeStep, Step
<1>7. CASE NoLiteralLeft \/ EndBinary \/ Eliminate \/ EndEliminate
           \/ EndPermutations
  <2>1. /\ UNCHANGED <<groups, g, out_order, encoded, clauses>>
        /\ phase # "idle" /\ phase' # "idle"
    BY <1>7 DEF NoLiteralLeft, EndBinary, Eliminate, EndEliminate,
                EndPermutations, vars, object
  <2>2. QED
    BY <2>1, SurvivingStays, PartStays
<1>8. CASE UNCHANGED allVars
  <2>1. UNCHANGED <<groups, g, phase, out_order, encoded, clauses>>
    BY <1>8 DEF allVars, groupVars, vars, object
  <2>2. Generators' = Generators
    BY <2>1 DEF Generators
  <2>3. \A m : Surviving(m)' <=> Surviving(m)
    BY <2>1, SurvivingStays
  <2>4. QED
    BY <2>1, <2>2, <2>3 DEF LeaderInv
<1>9. QED
  BY <1>1, <1>2, <1>3, <1>4, <1>5, <1>6, <1>7, <1>8 DEF GroupNext

-----------------------------------------------------------------------------
(* Without clauses every assignment survives. *)
LEMMA InitSurvivor == GroupInit => SurvivorInv
<1> SUFFICES ASSUME GroupInit PROVE SurvivorInv
  OBVIOUS
<1>1. StabilizerInv /\ OrderInv
  BY InitStabilizer, InitOrder
<1>2. /\ Init /\ pc = "idle" /\ phase = "idle" /\ clauses = {} /\ encoded = <<>>
      /\ Len(encoded) = 0
  BY DEF GroupInit, Init
<1>3. CallInv
  BY <1>2 DEF CallInv
<1>4. BreakerInv
  <2>1. InvOn(Assignments)
    BY <1>2, InitIInv DEF IInv
  <2>2. SoundOn(OrigModels)
    BY <2>1, Narrow DEF InvOn, OrigModels
  <2>3. QED
    BY <2>1, <2>2 DEF BreakerInv, InvOn
<1>5. LocalInv
  BY <1>2 DEF LocalInv
<1>6. \A m : Surviving(m)
  BY <1>2 DEF Surviving, AllLex, OrigClauses, SatisfiesAll
<1>7. LeaderInv
  BY <1>2, <1>6 DEF LeaderInv
<1>8. QED
  BY <1>1, <1>3, <1>4, <1>5, <1>7 DEF SurvivorInv

(* The invariant is inductive. *)
LEMMA NextSurvivor == SurvivorInv /\ [GroupNext]_allVars => SurvivorInv'
BY NextStabilizer, NextOrder, NextCall, NextBreaker, NextLocal, NextLeader
   DEF SurvivorInv

(* Whenever a subgroup is finished, every assignment has a symmetric one   *)
(* that satisfies all clauses added so far: the binary clauses, and the    *)
(* encodings of all permutations and row swaps of all subgroups.           *)
THEOREM OrbitsSurvive == GroupSpec => []EveryOrbitSurvives
<1>1. SurvivorInv => EveryOrbitSurvives
  <2> SUFFICES ASSUME SurvivorInv, phase = "idle"
               PROVE  OrbitsMeeting(Generators, Models(clauses, nbExtraVars))
                        = Assignments
    BY DEF EveryOrbitSurvives
  <2>1. PICK gens, M : gens = Generators /\ M = Models(clauses, nbExtraVars)
    OBVIOUS
  <2>2. gens \in SUBSET LitPerms /\ M \in SUBSET Assignments
    BY <2>1, GeneratorsFacts DEF SurvivorInv, Models
  <2> DEFINE R == OrbitsMeeting(gens, M)
             C == Assignments \ R
  <2>3. /\ M \subseteq R /\ R \in SUBSET Assignments
        /\ \A p \in gens, a \in R : Image(a, p) \in R
    BY <2>2, MeetingFacts
  <2> HIDE DEF R
  <2>4. \A p \in gens : \A a \in C : Image(a, p) \in C
    BY <2>2, <2>3, ClosedOutside
  <2>5. SUFFICES ASSUME C # {} PROVE FALSE
    BY <2>1, <2>3 DEF R
  <2>6. C \in SUBSET Assignments /\ Closed(C, gens)
    BY <2>4 DEF Closed
  <2>7. PICK m \in C : Surviving(m)
    BY <2>1, <2>5, <2>6 DEF SurvivorInv, LeaderInv
  <2>8. m \in OrigModels /\ AllLex(encoded, m) /\ m \in Assignments
    BY <2>7 DEF Surviving, OrigModels
  <2>9. SoundOn(OrigModels)
    BY DEF SurvivorInv, BreakerInv, InvOn
  <2>10. \E b \in Extensions(m, nbExtraVars) : SatisfiesAll(b, clauses)
    BY <2>8, <2>9 DEF SoundOn
  <2>11. m \in M
    BY <2>1, <2>8, <2>10 DEF Models
  <2>12. QED
    BY <2>3, <2>7, <2>11
<1>2. QED
  BY InitSurvivor, NextSurvivor, <1>1, PTL DEF GroupSpec
=============================================================================
