----------------------------- MODULE Components -----------------------------
(***************************************************************************)
(* What the division into subgroups promises, without saying how it is     *)
(* computed: one connected component of the remaining generators after     *)
(* the other is split off, two generators being linked when they move a    *)
(* common literal.                                                         *)
(***************************************************************************)
CONSTANTS Gens, Lits

VARIABLES
  moved,   \* the literals each generator moves
  rest,    \* the generators not yet in a component
  parts    \* the components found so far, sets of generators

Linked(g, h) == moved[g] \cap moved[h] # {}

(* Nothing outside C, among the generators of S, is linked to it. *)
Closed(C, S) == \A g \in C, h \in S \ C : ~Linked(g, h)

(* C cannot be cut in two without cutting a link. *)
Connected(C) ==
  \A D \in SUBSET C :
     D # {} /\ D # C => \E g \in D, h \in C \ D : Linked(g, h)

Init ==
  /\ moved \in [Gens -> SUBSET Lits]
  /\ rest = Gens
  /\ parts = {}

SplitOff(C) ==
  /\ C # {}
  /\ Closed(C, rest)
  /\ Connected(C)
  /\ rest' = rest \ C
  /\ parts' = parts \cup {C}
  /\ UNCHANGED moved

Next == \E C \in SUBSET rest : SplitOff(C)

vars == <<moved, rest, parts>>

(* What happens, and that it goes on until no generator is left. *)
SafeSpec == Init /\ [][Next]_vars
Spec == SafeSpec /\ WF_vars(Next)
=============================================================================
