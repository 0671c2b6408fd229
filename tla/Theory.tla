------------------------------- MODULE Theory -------------------------------
(***************************************************************************)
(* class OnlCNF (Theory.cpp): a formula and its coloured graph.  cls are   *)
(* the clauses in the order they were added (cl_sizes and cl_lits); a      *)
(* clause is a sequence of literals, which may repeat one.                 *)
(***************************************************************************)
EXTENDS ColorGraph

NewTheory(n) == [graph |-> NewColorGraph(n), cls |-> <<>>]

(* OnlCNF::add_clause *)
AddClauseTo(t, clause) ==
  [graph |-> AddClauseVertex(t.graph, clause), cls |-> Append(t.cls, clause)]

(* OnlCNF::end_dynamic_cnf *)
EndTheory(t, n) == [t EXCEPT !.graph = EndDynamic(@, n)]

(* Group::permutes, for a group with these generators. *)
SupportOf(gens) == UNION {Domain(p) : p \in gens}

(* set_old_group: what the group does not permute is fixed.  The group has *)
(* no matrix yet when break_symm calls setSubTheory.                       *)
SetOldGroup(t, n, support) ==
  LET outside(l) == l \notin support
  IN  [t EXCEPT !.graph = SetUniqueColors(@,
         SelectSeq([k \in 1 .. 2 * n |-> k - 1], outside))]

(* Variant: only the first literal of a clause is looked at. *)
SubTheoryByFirst(t, n, gens) ==
  LET moved(c) == c[1] \in SupportOf(gens)
      sub == FoldLeft(AddClauseTo, NewTheory(n), SelectSeq(t.cls, moved))
  IN  SetOldGroup(sub, n, SupportOf(gens))

(* setSubTheory: the clauses with a literal that the group permutes.  The  *)
(* graph of the new theory never hears of the end of its clauses.          *)
SubTheory(t, n, gens) ==
  LET moved(c) == ToSet(c) \cap SupportOf(gens) # {}
      sub == FoldLeft(AddClauseTo, NewTheory(n), SelectSeq(t.cls, moved))
  IN  SetOldGroup(sub, n, SupportOf(gens))

(* Permutation::getImage of a clause. *)
ClauseImage(p, c) == [k \in DOMAIN c |-> p[c[k]]]

(* Variant: the image of a clause is looked up as it comes. *)
IsSymmetryUnsorted(t, p) ==
  LET sorted == {SortSeq(c, <) : c \in ToSet(t.cls)}
  IN  \A c \in sorted : ClauseImage(p, c) \in sorted \cup {c}

(* isSymmetry: the image of every clause is a clause, up to the order of   *)
(* the literals.  A clause none of whose literals moves is skipped.  The   *)
(* clauses are sorted once, by the first call.                             *)
IsSymmetry(t, p) ==
  LET sorted == {SortSeq(c, <) : c \in ToSet(t.cls)}
  IN  \A c \in sorted : SortSeq(ClauseImage(p, c), <) \in sorted
=============================================================================
