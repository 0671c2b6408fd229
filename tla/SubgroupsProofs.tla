--------------------------- MODULE SubgroupsProofs ---------------------------
(***************************************************************************)
(* For every number of generators and of variables: the subgroups that     *)
(* Group::getDisjointGenerators returns have pairwise disjoint supports.   *)
(*                                                                         *)
(* The inductive invariant adds to SubgroupsDisjoint what makes it hold    *)
(* when a group is finished: the support is closed under negation (so that *)
(* looking up the positive literals is enough), and in a pass that has     *)
(* moved nothing every position already examined is disjoint from it.      *)
(*                                                                         *)
(* The second part shows that a run of the function is a run of            *)
(* Components, so that each subgroup is one connected component of the     *)
(* generators.  The invariant above says that a group is finished only     *)
(* when no generator outside meets it; what is added is that a group never *)
(* holds more than one component: a generator joins because it meets the   *)
(* support, and the support is made of the group's generators.             *)
(***************************************************************************)
EXTENDS Subgroups, SequenceTheorems, TLAPS

(* Every negation in the set, the shape of every support. *)
NegClosed(S) == \A l \in S : Neg(l) \in S

(* The loop state: no pass without a group, the pass counter within the    *)
(* vector, the size at its start never ahead of the size now.              *)
LoopInv ==
  /\ current # NoGroup => previoussize <= Len(current.perms)
  /\ i > 0 => current # NoGroup
  /\ NegClosed(current.support)
  /\ current.support \subseteq Lits

(* A pass that has moved nothing so far has left behind, above position i, *)
(* only generators that are disjoint from the group.                       *)
PassInv ==
  (current # NoGroup /\ Len(current.perms) = previoussize) =>
     \A k \in i + 1 .. Len(permutations) :
        Domain(perm[permutations[k]]) \cap current.support = {}

IInv == TypeOK /\ LoopInv /\ PassInv /\ SubgroupsDisjoint

-----------------------------------------------------------------------------
(* Negation is an involution on the literals that changes the sign. *)
LEMMA NegFacts ==
  \A l \in Lits : /\ Neg(l) \in Lits
                  /\ Neg(Neg(l)) = l
                  /\ Sign(Neg(l)) <=> ~Sign(l)
BY NVarsAssumption, SMT DEF Lits, Neg, Sign

(* A permutation that commutes with negation moves a literal and its       *)
(* negation together.                                                      *)
LEMMA DomainFacts ==
  ASSUME NEW p \in LitPerms
  PROVE  /\ Domain(p) \subseteq Lits
         /\ NegClosed(Domain(p))
<1>1. p \in [Lits -> Lits] /\ \A l \in Lits : p[Neg(l)] = Neg(p[l])
  BY DEF LitPerms
<1>2. Domain(p) \subseteq Lits
  BY <1>1 DEF Domain
<1>3. ASSUME NEW l \in Domain(p) PROVE Neg(l) \in Domain(p)
  <2>1. l \in Lits /\ p[l] # l
    BY <1>1, <1>3 DEF Domain
  <2>2. Neg(l) \in Lits /\ p[Neg(l)] = Neg(p[l])
    BY <2>1, <1>1, NegFacts
  <2>3. Neg(p[l]) # Neg(l)
    BY <2>1, <1>1, NegFacts
  <2>4. QED
    BY <2>2, <2>3, <1>1 DEF Domain
<1>4. QED
  BY <1>2, <1>3 DEF NegClosed

(* isDisjoint looks at the positive literals only; on a support closed     *)
(* under negation that decides the whole domain.                           *)
LEMMA PositiveSuffices ==
  ASSUME NEW p \in LitPerms, NEW S, NegClosed(S),
         S \cap PosDomain(p) = {}
  PROVE  S \cap Domain(p) = {}
<1>1. SUFFICES ASSUME NEW l \in S, l \in Domain(p) PROVE FALSE
  OBVIOUS
<1>2. l \in Lits /\ Neg(l) \in Domain(p) /\ Neg(l) \in S
  BY <1>1, DomainFacts DEF NegClosed
<1>3. Sign(l) \/ Sign(Neg(l))
  BY <1>1, <1>2 DEF PosDomain
<1>4. ~Sign(l) \/ ~Sign(Neg(l))
  BY <1>2, NegFacts
<1>5. l \in PosDomain(p) \/ Neg(l) \in PosDomain(p)
  BY <1>1, <1>2, <1>4 DEF PosDomain
<1>6. QED
  BY <1>1, <1>2, <1>5

(* pop_back: the elements that are left are where they were. *)
LEMMA SubSeqFacts ==
  ASSUME NEW T, NEW s \in Seq(T), Len(s) > 0
  PROVE  /\ SubSeq(s, 1, Len(s) - 1) \in Seq(T)
         /\ Len(SubSeq(s, 1, Len(s) - 1)) = Len(s) - 1
         /\ \A k \in 1 .. Len(s) - 1 : SubSeq(s, 1, Len(s) - 1)[k] = s[k]
<1> DEFINE m == Len(s) - 1
<1>1. m \in Nat /\ \A k \in 1 .. m : s[k] \in T
  OBVIOUS
<1>2. /\ SubSeq(s, 1, m) \in Seq(T)
      /\ Len(SubSeq(s, 1, m)) = IF 1 <= m THEN m - 1 + 1 ELSE 0
      /\ \A k \in 1 .. m - 1 + 1 : SubSeq(s, 1, m)[k] = s[1 + k - 1]
  BY <1>1, SubSeqProperties
<1>3. \A k \in 1 .. m : k \in 1 .. m - 1 + 1 /\ 1 + k - 1 = k
  BY <1>1
<1> HIDE DEF m
<1>4. Len(SubSeq(s, 1, m)) = m
  BY <1>1, <1>2
<1>5. \A k \in 1 .. m : SubSeq(s, 1, m)[k] = s[k]
  BY <1>2, <1>3
<1>6. QED
  BY <1>2, <1>4, <1>5 DEF m

(* swapErase keeps, below the erased position, what was there, and every   *)
(* element it keeps was in the vector.                                     *)
LEMMA SwapEraseFacts ==
  ASSUME NEW T, NEW s \in Seq(T), NEW k \in 1 .. Len(s)
  PROVE  /\ SwapErase(s, k) \in Seq(T)
         /\ Len(SwapErase(s, k)) = Len(s) - 1
         /\ \A j \in 1 .. Len(s) - 1 :
               SwapErase(s, k)[j] = IF j = k THEN s[Len(s)] ELSE s[j]
<1>1. Len(s) - 1 \in Nat
  OBVIOUS
<1>2. \A j \in 1 .. Len(s) - 1 : j \in 1 .. Len(s) /\ Len(s) \in 1 .. Len(s)
  OBVIOUS
<1>3. SwapErase(s, k) \in [1 .. Len(s) - 1 -> T]
  BY <1>2 DEF SwapErase
<1>4. QED
  BY <1>1, <1>3 DEF SwapErase

-----------------------------------------------------------------------------
(* The empty group moves nothing. *)
LEMMA NoGroupFacts ==
  /\ NoGroup \in Groups
  /\ NoGroup.perms = <<>>
  /\ NoGroup.support = {}
  /\ NegClosed(NoGroup.support)
<1>1. <<>> \in Seq(Gens) /\ {} \in SUBSET Lits
  OBVIOUS
<1>2. NoGroup.perms = <<>> /\ NoGroup.support = {}
  BY DEF NoGroup
<1>3. NoGroup \in Groups
  BY <1>1, Zenon DEF NoGroup, Groups
<1>4. QED
  BY <1>2, <1>3 DEF NegClosed

(* Before the first group is started nothing has been divided. *)
LEMMA InitIInv == Init => IInv
<1> SUFFICES ASSUME Init PROVE IInv
  OBVIOUS
<1>1. permutations \in Seq(Gens) /\ Len(permutations) \in Nat
  BY NbGensAssumption DEF Init, Gens
<1>2. TypeOK
  <2>1. perm \in [Gens -> LitPerms]
    BY PoolAssumption DEF Init
  <2>2. subgroups \in Seq(Groups)
    BY DEF Init
  <2>3. current \in Groups
    BY NoGroupFacts DEF Init
  <2>4. i \in 0 .. Len(permutations) /\ previoussize \in Nat
    <3>1. i = 0 /\ previoussize = 0
      BY DEF Init
    <3>2. QED
      BY <1>1, <3>1
  <2>5. QED
    BY <1>1, <2>1, <2>2, <2>3, <2>4 DEF TypeOK
<1>3. LoopInv /\ PassInv
  BY DEF Init, LoopInv, PassInv, NoGroup, NegClosed
<1>4. SubgroupsDisjoint
  BY DEF Init, SubgroupsDisjoint
<1>5. QED
  BY <1>2, <1>3, <1>4 DEF IInv

(* Group::add keeps the type of a group and its support closed under       *)
(* negation.                                                               *)
LEMMA AddFacts ==
  ASSUME TypeOK, NEW group \in Groups, NEW g \in Gens
  PROVE  /\ Add(group, g) \in Groups
         /\ Add(group, g) # NoGroup
         /\ Len(Add(group, g).perms) = Len(group.perms) + 1
         /\ Add(group, g).support = group.support \cup Domain(perm[g])
         /\ NegClosed(group.support) => NegClosed(Add(group, g).support)
<1>1. perm[g] \in LitPerms
  BY DEF TypeOK
<1>2. Domain(perm[g]) \subseteq Lits /\ NegClosed(Domain(perm[g]))
  BY <1>1, DomainFacts
<1>3. group.perms \in Seq(Gens) /\ group.support \subseteq Lits
  BY DEF Groups
<1>4. /\ Append(group.perms, g) \in Seq(Gens)
      /\ Len(Append(group.perms, g)) = Len(group.perms) + 1
      /\ Append(group.perms, g) # <<>>
  BY <1>3
<1>5. /\ Add(group, g).perms = Append(group.perms, g)
      /\ Add(group, g).support = group.support \cup Domain(perm[g])
  BY DEF Add
<1>6. Add(group, g) \in Groups
  BY <1>2, <1>3, <1>4 DEF Add, Groups
<1>7. Add(group, g) # NoGroup
  BY <1>4, <1>5 DEF NoGroup
<1>8. QED
  BY <1>2, <1>4, <1>5, <1>6, <1>7 DEF NegClosed

(* The remaining generators of the next state, in terms of positions. *)
LEMMA RemainingFacts ==
  ASSUME TypeOK
  PROVE  \A k \in 1 .. Len(permutations) :
            permutations[k] \in Remaining /\ permutations[k] \in Gens
BY DEF TypeOK, Remaining

-----------------------------------------------------------------------------
(* A group starts with the last generator, taken off the vector. *)
LEMMA StartGroupStep == IInv /\ StartGroup => IInv'
<1> SUFFICES ASSUME IInv, StartGroup PROVE IInv'
  OBVIOUS
<1> DEFINE n == Len(permutations)
           g == permutations[n]
<1>1. TypeOK /\ LoopInv /\ SubgroupsDisjoint
  BY DEF IInv
<1>2. permutations \in Seq(Gens) /\ n \in Nat /\ n > 0
  <2>1. permutations \in Seq(Gens) /\ permutations # <<>>
    BY <1>1 DEF StartGroup, TypeOK
  <2>2. QED
    BY <2>1, EmptySeq
<1>3. g \in Gens /\ g \in Remaining
  BY <1>1, <1>2, RemainingFacts
<1>4. NoGroup \in Groups /\ NegClosed(NoGroup.support)
      /\ NoGroup.perms = <<>> /\ NoGroup.support = {}
  BY NoGroupFacts
<1>5. /\ current' \in Groups /\ current' # NoGroup
      /\ Len(current'.perms) = 1
      /\ current'.support = Domain(perm[g])
      /\ NegClosed(current'.support)
  <2>1. current' = Add(NoGroup, g)
    BY DEF StartGroup
  <2>2. Len(NoGroup.perms) = 0
    BY <1>4
  <2>3. /\ Add(NoGroup, g) \in Groups /\ Add(NoGroup, g) # NoGroup
        /\ Len(Add(NoGroup, g).perms) = Len(NoGroup.perms) + 1
        /\ Add(NoGroup, g).support = NoGroup.support \cup Domain(perm[g])
        /\ NegClosed(Add(NoGroup, g).support)
    BY <1>1, <1>3, <1>4, AddFacts
  <2>4. Add(NoGroup, g).support = Domain(perm[g])
    BY <1>4, <2>3
  <2>5. QED
    BY <2>1, <2>2, <2>3, <2>4
<1>6. /\ permutations' \in Seq(Gens) /\ Len(permutations') = n - 1
      /\ \A k \in 1 .. n - 1 : permutations'[k] = permutations[k]
  <2>1. permutations' = SubSeq(permutations, 1, n - 1)
    BY DEF StartGroup
  <2>2. QED
    BY <1>2, <2>1, SubSeqFacts
<1>7. i = 0
  <2>1. i \in Nat /\ ~(i > 0)
    BY <1>1, <1>2 DEF LoopInv, StartGroup, TypeOK
  <2>2. QED
    BY <2>1
<1>8. TypeOK'
  BY <1>1, <1>2, <1>5, <1>6, <1>7 DEF TypeOK, StartGroup
<1>9. LoopInv'
  BY <1>5, <1>7 DEF LoopInv, StartGroup, Groups
<1>10. PassInv'
  <2>1. previoussize' = 0 /\ Len(current'.perms) # 0
    BY <1>5 DEF StartGroup
  <2>2. QED
    BY <2>1 DEF PassInv
<1>11. Remaining' \subseteq Remaining
  BY <1>2, <1>6 DEF Remaining
<1>12. SubgroupsDisjoint'
  BY <1>1, <1>3, <1>5, <1>11 DEF SubgroupsDisjoint, StartGroup
<1>13. QED
  BY <1>8, <1>9, <1>10, <1>12 DEF IInv

(* A pass starts only if the previous one made the group larger. *)
LEMMA BeginPassStep == IInv /\ BeginPass => IInv'
<1> SUFFICES ASSUME IInv, BeginPass PROVE IInv'
  OBVIOUS
<1>1. TypeOK /\ LoopInv /\ SubgroupsDisjoint
  BY DEF IInv
<1>2. permutations \in Seq(Gens) /\ Len(permutations) \in Nat
      /\ Len(current.perms) \in Nat
  BY <1>1 DEF TypeOK, Groups
<1>3. TypeOK'
  BY <1>1, <1>2 DEF TypeOK, BeginPass
<1>4. LoopInv'
  BY <1>1, <1>2 DEF LoopInv, BeginPass
<1>5. PassInv'
  BY <1>2 DEF PassInv, BeginPass
<1>6. SubgroupsDisjoint'
  BY <1>1 DEF SubgroupsDisjoint, BeginPass, Remaining
<1>7. QED
  BY <1>3, <1>4, <1>5, <1>6 DEF IInv

(* An overlapping generator joins; the last one takes its place. *)
LEMMA AbsorbStep == IInv /\ Absorb => IInv'
<1> SUFFICES ASSUME IInv, Absorb PROVE IInv'
  OBVIOUS
<1> DEFINE n == Len(permutations)
           g == permutations[i]
<1>1. TypeOK /\ LoopInv /\ SubgroupsDisjoint
  BY DEF IInv
<1>2. permutations \in Seq(Gens) /\ n \in Nat /\ i \in 1 .. n
  BY <1>1 DEF Absorb, TypeOK
<1>3. g \in Gens /\ g \in Remaining
  BY <1>1, <1>2, RemainingFacts
<1>4. current \in Groups /\ current # NoGroup /\ previoussize \in Nat
      /\ previoussize <= Len(current.perms) /\ Len(current.perms) \in Nat
  BY <1>1, <1>2 DEF LoopInv, TypeOK, Groups
<1>5. /\ current' \in Groups /\ current' # NoGroup
      /\ Len(current'.perms) = Len(current.perms) + 1
      /\ current'.support = current.support \cup Domain(perm[g])
      /\ NegClosed(current'.support)
  BY <1>1, <1>3, <1>4, AddFacts DEF Absorb, LoopInv
<1>6. /\ permutations' \in Seq(Gens) /\ Len(permutations') = n - 1
      /\ \A k \in 1 .. n - 1 :
            permutations'[k] = IF k = i THEN permutations[n] ELSE permutations[k]
  BY <1>2, SwapEraseFacts DEF Absorb
<1>7. i' = i - 1 /\ previoussize' = previoussize /\ perm' = perm
      /\ subgroups' = subgroups
  BY DEF Absorb
<1>8. TypeOK'
  BY <1>1, <1>2, <1>5, <1>6, <1>7 DEF TypeOK
<1>9. LoopInv'
  BY <1>4, <1>5, <1>7 DEF LoopInv, Groups
<1>10. PassInv'
  BY <1>4, <1>5, <1>7 DEF PassInv
<1>11. Remaining' \subseteq Remaining
  BY <1>2, <1>6 DEF Remaining
<1>12. SubgroupsDisjoint'
  BY <1>1, <1>3, <1>5, <1>7, <1>11 DEF SubgroupsDisjoint
<1>13. QED
  BY <1>8, <1>9, <1>10, <1>12 DEF IInv

(* A disjoint generator stays where it is. *)
LEMMA SkipStep == IInv /\ Skip => IInv'
<1> SUFFICES ASSUME IInv, Skip PROVE IInv'
  OBVIOUS
<1>1. TypeOK /\ LoopInv /\ PassInv /\ SubgroupsDisjoint
  BY DEF IInv
<1>2. permutations \in Seq(Gens) /\ i \in 1 .. Len(permutations)
      /\ Len(permutations) \in Nat
  BY <1>1 DEF Skip, TypeOK
<1>3. TypeOK'
  BY <1>1, <1>2 DEF TypeOK, Skip
<1>4. LoopInv'
  BY <1>1, <1>2 DEF LoopInv, Skip
<1>5. Domain(perm[permutations[i]]) \cap current.support = {}
  <2>1. perm[permutations[i]] \in LitPerms
    BY <1>1, <1>2, RemainingFacts DEF TypeOK
  <2>2. QED
    BY <1>1, <2>1, PositiveSuffices DEF LoopInv, Skip, IsDisjoint
<1>6. PassInv'
  <2>1. \A k \in i' + 1 .. Len(permutations) : k = i \/ k \in i + 1 .. Len(permutations)
    BY <1>2 DEF Skip
  <2>2. QED
    BY <1>1, <1>5, <2>1 DEF PassInv, Skip
<1>7. SubgroupsDisjoint'
  BY <1>1 DEF SubgroupsDisjoint, Skip, Remaining
<1>8. QED
  BY <1>3, <1>4, <1>6, <1>7 DEF IInv

(* A pass that absorbed nothing leaves only disjoint generators. *)
LEMMA FinishGroupStep == IInv /\ FinishGroup => IInv'
<1> SUFFICES ASSUME IInv, FinishGroup PROVE IInv'
  OBVIOUS
<1> DEFINE n == Len(subgroups)
<1>1. TypeOK /\ LoopInv /\ PassInv /\ SubgroupsDisjoint
  BY DEF IInv
<1>2. /\ subgroups \in Seq(Groups) /\ current \in Groups /\ n \in Nat
      /\ permutations \in Seq(Gens) /\ Len(permutations) \in Nat
  BY <1>1 DEF TypeOK
<1>3. NoGroup \in Groups /\ NoGroup.support = {} /\ NegClosed(NoGroup.support)
  BY NoGroupFacts
<1>4. /\ subgroups' \in Seq(Groups) /\ Len(subgroups') = n + 1
      /\ \A k \in 1 .. n + 1 :
            subgroups'[k] = IF k = n + 1 THEN current ELSE subgroups[k]
  BY <1>2 DEF FinishGroup
<1>5. TypeOK'
  BY <1>1, <1>3, <1>4 DEF TypeOK, FinishGroup
<1>6. LoopInv'
  BY <1>1, <1>3 DEF LoopInv, FinishGroup
<1>7. PassInv'
  BY DEF PassInv, FinishGroup
<1>8. \A g \in Remaining : current.support \cap Domain(perm[g]) = {}
  BY <1>1, <1>2 DEF PassInv, FinishGroup, Remaining
<1>9. \A a \in 1 .. n + 1 : a = n + 1 \/ a \in 1 .. n
  BY <1>2
<1>10. SubgroupsDisjoint'
  <2>1. \A a \in 1 .. n + 1 : \A g \in Remaining :
           subgroups'[a].support \cap Domain(perm[g]) = {}
    BY <1>1, <1>4, <1>8, <1>9 DEF SubgroupsDisjoint
  <2>2. \A a, b \in 1 .. n + 1 :
           a # b => subgroups'[a].support \cap subgroups'[b].support = {}
    BY <1>1, <1>2, <1>4, <1>9 DEF SubgroupsDisjoint
  <2>3. QED
    BY <1>3, <1>4, <2>1, <2>2 DEF SubgroupsDisjoint, FinishGroup, Remaining
<1>11. QED
  BY <1>5, <1>6, <1>7, <1>10 DEF IInv

-----------------------------------------------------------------------------
(* Every step keeps the invariant. *)
LEMMA NextIInv == IInv /\ [Next]_vars => IInv'
<1>1. IInv /\ UNCHANGED vars => IInv'
  BY DEF IInv, vars, TypeOK, LoopInv, PassInv, SubgroupsDisjoint, Remaining
<1>2. QED
  BY <1>1, StartGroupStep, BeginPassStep, AbsorbStep, SkipStep, FinishGroupStep
     DEF Next

(* The types of the loop's variables, for every number of generators. *)
THEOREM TypeCorrect == Spec => []TypeOK
<1>1. IInv => TypeOK
  BY DEF IInv
<1>2. QED
  BY InitIInv, NextIInv, <1>1, PTL DEF Spec

(* getDisjointGenerators, for every list of generators that commute with   *)
(* negation: the subgroups it returns move pairwise disjoint sets of       *)
(* literals, disjoint also from what is still to be placed.                *)
THEOREM DisjointSupports == Spec => []SubgroupsDisjoint
<1>1. IInv => SubgroupsDisjoint
  BY DEF IInv
<1>2. QED
  BY InitIInv, NextIInv, <1>1, PTL DEF Spec

-----------------------------------------------------------------------------
(* Connected components. *)

Moved(g) == Domain(perm[g])

Meet(g, h) == Moved(g) \cap Moved(h) # {}

OnePiece(C) ==
  \A D \in SUBSET C :
     D # {} /\ D # C => \E g \in D, h \in C \ D : Meet(g, h)

Piece == Members(current)

PieceInv ==
  /\ \A g \in Gens : Moved(g) # {}
  /\ Piece \subseteq Gens
  /\ current.support = UNION {Moved(g) : g \in Piece}
  /\ current # NoGroup => Piece # {}
  /\ OnePiece(Piece)

-----------------------------------------------------------------------------
(* A piece stays in one piece when a generator that meets one of its       *)
(* members is added.                                                       *)
LEMMA GrowPiece ==
  ASSUME NEW C, OnePiece(C), NEW g, NEW m \in C, Meet(g, m)
  PROVE  OnePiece(C \cup {g})
<1> SUFFICES ASSUME NEW D \in SUBSET (C \cup {g}), D # {}, D # C \cup {g}
             PROVE  \E a \in D, b \in (C \cup {g}) \ D : Meet(a, b)
  BY DEF OnePiece
<1>1. Meet(m, g)
  BY DEF Meet
<1>2. CASE D \cap C = {}
  <2>1. g \in D /\ m \in (C \cup {g}) \ D
    BY <1>2
  <2>2. QED
    BY <2>1
<1>3. CASE D \cap C = C
  <2>1. g \in (C \cup {g}) \ D /\ m \in D
    BY <1>3
  <2>2. QED
    BY <1>1, <2>1
<1>4. CASE D \cap C # {} /\ D \cap C # C
  <2>1. PICK a \in D \cap C, b \in C \ (D \cap C) : Meet(a, b)
    BY <1>4 DEF OnePiece
  <2>2. a \in D /\ b \in (C \cup {g}) \ D
    BY <2>1
  <2>3. QED
    BY <2>1, <2>2
<1>5. QED
  BY <1>2, <1>3, <1>4

(* A single generator is in one piece. *)
LEMMA Singleton == \A g : OnePiece({g})
BY DEF OnePiece

(* Group::add: one more member. *)
LEMMA AddMember ==
  ASSUME NEW group, group.perms \in Seq(Gens), NEW g \in Gens
  PROVE  Members(Add(group, g)) = Members(group) \cup {g}
<1> DEFINE s == group.perms
           t == Append(s, g)
<1>1. Add(group, g).perms = t
  BY DEF Add
<1>2. /\ Len(s) \in Nat /\ Len(t) = Len(s) + 1
      /\ \A k \in 1 .. Len(s) : t[k] = s[k]
      /\ t[Len(s) + 1] = g
  OBVIOUS
<1>3. Members(group) = {s[k] : k \in 1 .. Len(s)}
  BY DEF Members
<1>4. Members(Add(group, g)) = {t[k] : k \in 1 .. Len(t)}
  BY <1>1 DEF Members
<1> HIDE DEF s, t
<1>5. 1 .. Len(t) = (1 .. Len(s)) \cup {Len(s) + 1}
  BY <1>2
<1>6. QED
  BY <1>2, <1>3, <1>4, <1>5

(* The group the loop starts from has no members. *)
LEMMA NoMembers == Members(NoGroup) = {}
<1>1. Len(NoGroup.perms) = 0
  BY NoGroupFacts
<1>2. QED
  BY <1>1 DEF Members

-----------------------------------------------------------------------------
(* An empty group is in one piece. *)
LEMMA InitPiece == Init => PieceInv
<1> SUFFICES ASSUME Init PROVE PieceInv
  OBVIOUS
<1>1. current = NoGroup /\ perm \in [Gens -> {p \in Pool : Domain(p) # {}}]
  BY DEF Init
<1>2. \A g \in Gens : Moved(g) # {}
  BY <1>1 DEF Moved
<1>3. Piece = {} /\ current.support = {}
  BY <1>1, NoMembers, NoGroupFacts DEF Piece
<1>4. OnePiece({})
  BY DEF OnePiece
<1>5. QED
  BY <1>1, <1>2, <1>3, <1>4 DEF PieceInv

(* StartGroup and Absorb both add one of the remaining generators to the   *)
(* group, and what is left of the vector loses at most that one.           *)
LEMMA StartGroupMoves ==
  ASSUME IInv, StartGroup
  PROVE  \E g \in Gens :
            /\ Piece = {}
            /\ Piece' = {g}
            /\ current'.support = Moved(g)
            /\ Remaining = Remaining' \cup {g}
<1> DEFINE n == Len(permutations)
           g == permutations[n]
<1>1. TypeOK
  BY DEF IInv
<1>2. permutations \in Seq(Gens) /\ n \in Nat /\ n > 0
  <2>1. permutations \in Seq(Gens) /\ permutations # <<>>
    BY <1>1 DEF StartGroup, TypeOK
  <2>2. QED
    BY <2>1, EmptySeq
<1>3. g \in Gens
  BY <1>1, <1>2, RemainingFacts
<1>4. current = NoGroup /\ current' = Add(NoGroup, g)
  BY DEF StartGroup
<1>5. NoGroup.perms \in Seq(Gens) /\ NoGroup.support = {}
  BY NoGroupFacts DEF Groups
<1>6. Piece = {} /\ Piece' = {g}
  BY <1>3, <1>4, <1>5, NoMembers, AddMember DEF Piece
<1>7. current'.support = Moved(g)
  BY <1>4, <1>5 DEF Add, Moved
<1>8. /\ Len(permutations') = n - 1
      /\ \A k \in 1 .. n - 1 : permutations'[k] = permutations[k]
  <2>1. permutations' = SubSeq(permutations, 1, n - 1)
    BY DEF StartGroup
  <2>2. QED
    BY <1>2, <2>1, SubSeqFacts
<1>9. Remaining = Remaining' \cup {g}
  <2>1. 1 .. n = (1 .. n - 1) \cup {n}
    BY <1>2
  <2>2. QED
    BY <1>8, <2>1 DEF Remaining
<1>10. QED
  BY <1>3, <1>6, <1>7, <1>9

(* The same for a generator that is taken over in the inner loop. *)
LEMMA AbsorbMoves ==
  ASSUME IInv, Absorb
  PROVE  \E g \in Gens :
            /\ Moved(g) \cap current.support # {}
            /\ Piece' = Piece \cup {g}
            /\ current'.support = current.support \cup Moved(g)
            /\ current' # NoGroup
            /\ Remaining = Remaining' \cup {g}
<1> DEFINE n == Len(permutations)
           g == permutations[i]
<1>1. TypeOK
  BY DEF IInv
<1>2. permutations \in Seq(Gens) /\ n \in Nat /\ i \in 1 .. n
  BY <1>1 DEF Absorb, TypeOK
<1>3. g \in Gens /\ current \in Groups /\ current.perms \in Seq(Gens)
  BY <1>1, <1>2, RemainingFacts DEF TypeOK, Groups
<1>4. current' = Add(current, g)
  BY DEF Absorb
<1>5. Piece' = Piece \cup {g}
  BY <1>3, <1>4, AddMember DEF Piece
<1>6. current' # NoGroup /\ current'.support = current.support \cup Moved(g)
  BY <1>1, <1>3, <1>4, AddFacts DEF Moved
<1>7. Moved(g) \cap current.support # {}
  BY DEF Absorb, IsDisjoint, PosDomain, Moved
<1>8. /\ Len(permutations') = n - 1
      /\ \A k \in 1 .. n - 1 :
            permutations'[k] = IF k = i THEN permutations[n] ELSE permutations[k]
  BY <1>2, SwapEraseFacts DEF Absorb
<1>9. Remaining = Remaining' \cup {g}
  <2>1. \A k \in 1 .. n : k = i \/ (k \in 1 .. n - 1) \/ (k = n /\ i \in 1 .. n - 1)
    BY <1>2
  <2>2. \A k \in 1 .. n : permutations[k] \in Remaining' \cup {g}
    BY <1>8, <2>1 DEF Remaining
  <2>3. \A k \in 1 .. n - 1 : k \in 1 .. n /\ n \in 1 .. n
    BY <1>2
  <2>4. \A k \in 1 .. n - 1 : permutations'[k] \in Remaining
    BY <1>8, <2>3 DEF Remaining
  <2>5. QED
    BY <1>2, <1>8, <2>2, <2>4 DEF Remaining
<1>10. QED
  BY <1>3, <1>5, <1>6, <1>7, <1>9

-----------------------------------------------------------------------------
(* Every step keeps the group in one piece. *)
LEMMA NextPiece == IInv /\ PieceInv /\ [Next]_vars => PieceInv'
<1> SUFFICES ASSUME IInv, PieceInv, [Next]_vars PROVE PieceInv'
  OBVIOUS
<1>1. CASE StartGroup
  <2>1. PICK g \in Gens : Piece' = {g} /\ current'.support = Moved(g)
    BY <1>1, StartGroupMoves
  <2>2. perm' = perm
    BY <1>1 DEF StartGroup
  <2>3. OnePiece({g})'
    BY Singleton, <2>2 DEF OnePiece, Meet, Moved
  <2>4. (\A h \in Gens : Moved(h) # {})' /\ Moved(g)' = Moved(g)
    BY <2>2 DEF PieceInv, Moved
  <2>5. OnePiece(Piece)'
    BY <2>1, <2>3 DEF OnePiece, Meet, Moved
  <2>6. (current.support = UNION {Moved(h) : h \in Piece})'
    BY <2>1, <2>2 DEF Moved
  <2>7. Piece' \subseteq Gens /\ Piece' # {}
    BY <2>1
  <2>8. QED
    BY <2>4, <2>5, <2>6, <2>7 DEF PieceInv
<1>2. CASE Absorb
  <2>1. PICK g \in Gens :
          /\ Moved(g) \cap current.support # {}
          /\ Piece' = Piece \cup {g}
          /\ current'.support = current.support \cup Moved(g)
    BY <1>2, AbsorbMoves
  <2>2. perm' = perm
    BY <1>2 DEF Absorb
  <2>3. PICK m \in Piece : Meet(g, m)
    BY <2>1 DEF PieceInv, Meet
  <2>4. OnePiece(Piece \cup {g})
    BY <2>3, GrowPiece DEF PieceInv
  <2>5. OnePiece(Piece)'
    BY <2>1, <2>2, <2>4 DEF OnePiece, Meet, Moved
  <2>6. (\A h \in Gens : Moved(h) # {})'
    BY <2>2 DEF PieceInv, Moved
  <2>7. (current.support = UNION {Moved(h) : h \in Piece})'
    BY <2>1, <2>2 DEF PieceInv, Moved
  <2>8. Piece' \subseteq Gens /\ Piece' # {}
    BY <2>1 DEF PieceInv
  <2>9. QED
    BY <2>5, <2>6, <2>7, <2>8 DEF PieceInv
<1>3. CASE FinishGroup
  <2>1. current' = NoGroup /\ perm' = perm
    BY <1>3 DEF FinishGroup
  <2>2. Piece' = {} /\ current'.support = {}
    BY <2>1, NoMembers, NoGroupFacts DEF Piece, Members
  <2>3. OnePiece(Piece)'
    BY <2>2 DEF OnePiece
  <2>4. (\A h \in Gens : Moved(h) # {})'
    BY <2>1 DEF PieceInv, Moved
  <2>5. QED
    BY <2>1, <2>2, <2>3, <2>4 DEF PieceInv
<1>4. CASE BeginPass \/ Skip \/ UNCHANGED vars
  <2>1. current' = current /\ perm' = perm
    BY <1>4 DEF BeginPass, Skip, vars
  <2>2. Piece' = Piece
    BY <2>1 DEF Piece, Members
  <2>3. OnePiece(Piece)
    BY DEF PieceInv
  <2>4. OnePiece(Piece)'
    BY <2>1, <2>2, <2>3 DEF OnePiece, Meet, Moved
  <2>5. QED
    BY <2>1, <2>2, <2>4 DEF PieceInv, Moved
<1>5. QED
  BY <1>1, <1>2, <1>3, <1>4 DEF Next

-----------------------------------------------------------------------------
(* The names of Components, on generators. *)
LEMMA PartsLinked ==
  \A g, h \in Gens : Parts!Linked(g, h) <=> Meet(g, h)
BY DEF Parts!Linked, Meet, Moved

(* A set of generators is connected in Components when it is in one piece. *)
LEMMA PartsConnected ==
  ASSUME NEW C \in SUBSET Gens
  PROVE  Parts!Connected(C) <=> OnePiece(C)
<1>1. ASSUME NEW D \in SUBSET C
      PROVE  (\E g \in D, h \in C \ D : Parts!Linked(g, h))
               <=> (\E g \in D, h \in C \ D : Meet(g, h))
  BY <1>1, PartsLinked
<1>2. QED
  BY <1>1 DEF Parts!Connected, OnePiece

(* Nothing is divided yet. *)
LEMMA InitParts == Init => Parts!Init
<1> SUFFICES ASSUME Init PROVE Parts!Init
  OBVIOUS
<1> DEFINE moved == [g \in Gens |-> Domain(perm[g])]
<1>1. moved \in [Gens -> SUBSET Lits]
  <2>1. \A g \in Gens : perm[g] \in LitPerms
    BY PoolAssumption DEF Init
  <2>2. \A g \in Gens : Domain(perm[g]) \subseteq Lits
    BY <2>1, DomainFacts
  <2>3. QED
    BY <2>2
<1>2. Remaining \cup Members(current) = Gens
  <2>1. Members(current) = {}
    BY NoMembers DEF Init
  <2>2. /\ permutations = [k \in 1 .. NbGens |-> k]
        /\ Len(permutations) = NbGens
    BY NbGensAssumption DEF Init
  <2>3. Remaining = 1 .. NbGens
    BY <2>2 DEF Remaining
  <2>4. QED
    BY <2>1, <2>3 DEF Gens
<1>3. {Members(group) : group \in Finished} = {}
  BY DEF Init, Finished
<1>4. QED
  BY <1>1, <1>2, <1>3 DEF Parts!Init

(* Every step but the last of a group leaves the parts as they are: the    *)
(* generator goes from the vector to the group.                            *)
LEMMA StutterParts ==
  IInv /\ PieceInv /\ (StartGroup \/ BeginPass \/ Absorb \/ Skip \/ UNCHANGED vars)
    => UNCHANGED Parts!vars
<1> SUFFICES ASSUME IInv, PieceInv,
                    StartGroup \/ BeginPass \/ Absorb \/ Skip \/ UNCHANGED vars
             PROVE  UNCHANGED Parts!vars
  OBVIOUS
<1>1. perm' = perm /\ subgroups' = subgroups
  BY DEF StartGroup, BeginPass, Absorb, Skip, vars
<1>2. Remaining' \cup Piece' = Remaining \cup Piece
  <2>1. CASE StartGroup
    BY <2>1, StartGroupMoves
  <2>2. CASE Absorb
    BY <2>2, AbsorbMoves
  <2>3. CASE BeginPass \/ Skip \/ UNCHANGED vars
    <3>1. current' = current /\ permutations' = permutations
      BY <2>3 DEF BeginPass, Skip, vars
    <3>2. QED
      BY <3>1 DEF Remaining, Piece, Members
  <2>4. QED
    BY <2>1, <2>2, <2>3
<1>3. [g \in Gens |-> Domain(perm[g])]' = [g \in Gens |-> Domain(perm[g])]
  BY <1>1
<1>4. {Members(group) : group \in Finished}' = {Members(group) : group \in Finished}
  BY <1>1 DEF Finished, Members
<1>5. QED
  BY <1>2, <1>3, <1>4 DEF Parts!vars, Piece

(* When a group is finished, one connected component is split off. *)
LEMMA FinishSplitsOff == IInv /\ PieceInv /\ FinishGroup => Parts!Next
<1> SUFFICES ASSUME IInv, PieceInv, FinishGroup PROVE Parts!Next
  OBVIOUS
<1> DEFINE rest == Remaining \cup Members(current)
<1>1. TypeOK /\ PassInv
  BY DEF IInv
<1>2. Piece \subseteq Gens /\ Remaining \subseteq Gens
  BY <1>1, RemainingFacts DEF PieceInv, Remaining
<1>3. \A h \in Remaining : Moved(h) \cap current.support = {}
  <2>1. permutations \in Seq(Gens) /\ Len(permutations) \in Nat
    BY <1>1 DEF TypeOK
  <2>2. QED
    BY <1>1, <2>1 DEF PassInv, FinishGroup, Remaining, Moved
<1>4. \A g \in Piece, h \in Remaining : ~Meet(g, h)
  BY <1>3 DEF PieceInv, Meet
<1>5. Piece \cap Remaining = {}
  BY <1>2, <1>4 DEF PieceInv, Meet
<1>6. Piece # {}
  BY DEF PieceInv, FinishGroup
<1>7. Parts!Closed(Piece, rest)
  BY <1>2, <1>4, PartsLinked DEF Parts!Closed, Piece
<1>8. Parts!Connected(Piece)
  BY <1>2, PartsConnected DEF PieceInv
<1>9. Remaining' \cup Members(current)' = rest \ Piece
  <2>1. Remaining' = Remaining
    BY DEF FinishGroup, Remaining
  <2>2. Members(current)' = {}
    BY NoMembers DEF FinishGroup, Members
  <2>3. QED
    BY <1>5, <2>1, <2>2 DEF Piece
<1>10. {Members(group) : group \in Finished}' =
         {Members(group) : group \in Finished} \cup {Piece}
  <2>1. /\ subgroups \in Seq(Groups) /\ current \in Groups
        /\ subgroups' = Append(subgroups, current)
    BY <1>1 DEF TypeOK, FinishGroup
  <2>2. Finished' = Finished \cup {current}
    <3> DEFINE n == Len(subgroups)
    <3>1. /\ n \in Nat /\ Len(subgroups') = n + 1
          /\ \A k \in 1 .. n : subgroups'[k] = subgroups[k]
          /\ subgroups'[n + 1] = current
      BY <2>1
    <3>2. 1 .. n + 1 = (1 .. n) \cup {n + 1}
      BY <3>1
    <3>3. QED
      BY <3>1, <3>2 DEF Finished
  <2>3. QED
    BY <2>2 DEF Piece, Members
<1>11. [g \in Gens |-> Domain(perm[g])]' = [g \in Gens |-> Domain(perm[g])]
  BY DEF FinishGroup
<1>12. Parts!SplitOff(Piece)
  BY <1>6, <1>7, <1>8, <1>9, <1>10, <1>11 DEF Parts!SplitOff
<1>13. QED
  BY <1>12 DEF Parts!Next, Piece

(* getDisjointGenerators, for every list of generators: each subgroup it   *)
(* returns is one whole connected component of "moves a common literal",   *)
(* split off from the generators that are left.  (That it goes on until    *)
(* none is left is checked by TLC.)                                        *)
THEOREM SubgroupsAreComponents == Spec => Parts!SafeSpec
<1>1. IInv /\ PieceInv /\ [Next]_vars => [Parts!Next]_(Parts!vars)
  BY StutterParts, FinishSplitsOff DEF Next
<1>2. QED
  BY InitIInv, NextIInv, InitPiece, NextPiece, InitParts, <1>1, PTL
     DEF Spec, Parts!SafeSpec
=============================================================================
