----------------------------- MODULE Subgroups -----------------------------
(***************************************************************************)
(* Group::getDisjointGenerators (Algebraic.cpp), called once by            *)
(* BreakID::detect_subgroups: the generators of the symmetry group of the  *)
(* formula are distributed over subgroups with pairwise disjoint supports. *)
(*                                                                         *)
(* The function runs one fixpoint per subgroup.  It seeds a group with the *)
(* last generator, then scans the remaining vector downwards, moving every *)
(* generator that meets the support of the group into it; the vector is    *)
(* shrunk with swapErase while it is being scanned.  A pass that moved     *)
(* something is followed by another one.                                   *)
(*                                                                         *)
(* The top-level group holds no matrix when the function runs              *)
(* (BreakID::break_symm, which detects matrices, works on the subgroups),  *)
(* so the branch of the function for matrices is not reachable and is left *)
(* out.                                                                    *)
(***************************************************************************)
EXTENDS BLits, Sequences

CONSTANTS
  NbGens,        \* how many generators the top-level group holds
  Pool           \* the permutations the generators are drawn from

ASSUME NbGensAssumption == NbGens \in Nat
ASSUME PoolAssumption == Pool \subseteq LitPerms

(* The Permutation objects, named by the order bliss reported them in. *)
Gens == 1 .. NbGens

VARIABLES
  perm,          \* the permutation each object stands for
  permutations,  \* Group::permutations of the top-level group, a vector
  subgroups,     \* PrivateData::subgroups, a vector of groups
  current,       \* the subgroup being filled; NoGroup between subgroups
  previoussize,  \* its size when the running pass started
  i              \* the position the pass examines next, 0 when it is over

vars == <<perm, permutations, subgroups, current, previoussize, i>>

NoGroup == [perms |-> <<>>, support |-> {}]

(* Variant: the support is overwritten instead of extended. *)
AddOverwriting(group, g) ==
  [perms |-> Append(group.perms, g), support |-> Domain(perm[g])]

(* Group::add: append the generator, add its domain to the support. *)
Add(group, g) ==
  [perms   |-> Append(group.perms, g),
   support |-> group.support \cup Domain(perm[g])]

(* swapErase: the last element takes the place of the erased one. *)
SwapErase(vec, k) ==
  [j \in 1 .. Len(vec) - 1 |-> IF j = k THEN vec[Len(vec)] ELSE vec[j]]

(* isDisjoint(current->support, p->posDomain): only the positive literals  *)
(* of the generator are looked up.                                         *)
IsDisjoint(group, g) == group.support \cap PosDomain(perm[g]) = {}

Members(group) == {group.perms[k] : k \in 1 .. Len(group.perms)}
Remaining == {permutations[k] : k \in 1 .. Len(permutations)}
Finished == {subgroups[k] : k \in 1 .. Len(subgroups)}

-----------------------------------------------------------------------------
(* No generator is the identity: the prime split that builds the vector    *)
(* keeps no empty permutation.                                             *)
Init ==
  /\ perm \in [Gens -> {p \in Pool : Domain(p) # {}}]
  /\ permutations = [k \in 1 .. NbGens |-> k]
  /\ subgroups = <<>>
  /\ current = NoGroup
  /\ previoussize = 0
  /\ i = 0

(* current->add(permutations.back()); permutations.pop_back() *)
StartGroup ==
  /\ current = NoGroup
  /\ permutations # <<>>
  /\ current' = Add(NoGroup, permutations[Len(permutations)])
  /\ permutations' = SubSeq(permutations, 1, Len(permutations) - 1)
  /\ previoussize' = 0
  /\ UNCHANGED <<perm, subgroups, i>>

(* Variant: >= in the while condition. *)
BeginPassAlways ==
  /\ current # NoGroup
  /\ i = 0
  /\ Len(current.perms) >= previoussize
  /\ previoussize' = Len(current.perms)
  /\ i' = Len(permutations)
  /\ UNCHANGED <<perm, permutations, subgroups, current>>

(* The while condition holds: the last pass (or the seed) made it grow. *)
BeginPass ==
  /\ current # NoGroup
  /\ i = 0
  /\ Len(current.perms) > previoussize
  /\ previoussize' = Len(current.perms)
  /\ i' = Len(permutations)
  /\ UNCHANGED <<perm, permutations, subgroups, current>>

(* Variant: the index stays behind after an erase. *)
AbsorbStaying ==
  /\ i > 0
  /\ ~IsDisjoint(current, permutations[i])
  /\ current' = Add(current, permutations[i])
  /\ permutations' = SwapErase(permutations, i)
  /\ UNCHANGED <<perm, subgroups, previoussize, i>>

(* The generator at position i meets the support: it joins the group. *)
Absorb ==
  /\ i > 0
  /\ ~IsDisjoint(current, permutations[i])
  /\ current' = Add(current, permutations[i])
  /\ permutations' = SwapErase(permutations, i)
  /\ i' = i - 1
  /\ UNCHANGED <<perm, subgroups, previoussize>>

(* The generator at position i does not meet the support. *)
Skip ==
  /\ i > 0
  /\ IsDisjoint(current, permutations[i])
  /\ i' = i - 1
  /\ UNCHANGED <<perm, permutations, subgroups, current, previoussize>>

(* Variant: a pass that moved something is not followed by another. *)
FinishGroupAfterOnePass ==
  /\ current # NoGroup
  /\ i = 0
  /\ previoussize > 0
  /\ subgroups' = Append(subgroups, current)
  /\ current' = NoGroup
  /\ UNCHANGED <<perm, permutations, previoussize, i>>

(* A whole pass moved nothing: subgroups.push_back(current). *)
FinishGroup ==
  /\ current # NoGroup
  /\ i = 0
  /\ Len(current.perms) = previoussize
  /\ subgroups' = Append(subgroups, current)
  /\ current' = NoGroup
  /\ UNCHANGED <<perm, permutations, previoussize, i>>

Next == StartGroup \/ BeginPass \/ Absorb \/ Skip \/ FinishGroup

(* A sequential function: whatever it can do next, it does. *)
Spec == Init /\ [][Next]_vars /\ WF_vars(Next)

Done == permutations = <<>> /\ current = NoGroup

-----------------------------------------------------------------------------
Groups == [perms : Seq(Gens), support : SUBSET Lits]

(* Types of the state of getDisjointGenerators. *)
TypeOK ==
  /\ perm \in [Gens -> LitPerms]
  /\ permutations \in Seq(Gens)
  /\ subgroups \in Seq(Groups)
  /\ current \in Groups
  /\ previoussize \in Nat
  /\ i \in 0 .. Len(permutations)

(* The subgroups handed to break_symm move disjoint sets of literals, and  *)
(* no generator that is still to be placed moves a literal of one of them: *)
(* each subgroup may order and constrain its literals on its own.          *)
SubgroupsDisjoint ==
  /\ \A a, b \in 1 .. Len(subgroups) :
        a # b => subgroups[a].support \cap subgroups[b].support = {}
  /\ \A a \in 1 .. Len(subgroups) :
        /\ subgroups[a].support \cap current.support = {}
        /\ \A g \in Remaining :
              subgroups[a].support \cap Domain(perm[g]) = {}

(* getDisjointGenerators computes the connected components of "moves a     *)
(* common literal": every subgroup is one whole component.                 *)
Parts == INSTANCE Components WITH
           moved <- [g \in Gens |-> Domain(perm[g])],
           rest  <- Remaining \cup Members(current),
           parts <- {Members(group) : group \in Finished}

ComponentsSpec == Parts!Spec

(* The nested loops of getDisjointGenerators come to an end. *)
Termination == <>Done
=============================================================================
