----------------------------- MODULE LongPrune -----------------------------
(***************************************************************************)
(* Long pruning (bliss/graph.cc): the last automorphisms found are kept in *)
(* a ring of slots, as the elements each fixes and the least element of    *)
(* every cycle.                                                            *)
(***************************************************************************)
EXTENDS Integers, Sequences, SequencesExt, FiniteSetsExt

CONSTANT MaxStored    \* long_prune_options_max_stored_auts, 100 in the code

ASSUME MaxStoredAssumption == MaxStored \in Nat \ {0}

(* long_prune_init *)
PruneInit == [fixed |-> [i \in 0 .. MaxStored - 1 |-> {}],
              mcrs |-> [i \in 0 .. MaxStored - 1 |-> {}],
              begin |-> 0, end |-> 0]

Slot(i) == i % MaxStored

(* long_prune_swap *)
PruneSwap(pr, i, j) ==
  [pr EXCEPT !.fixed[Slot(i)] = pr.fixed[Slot(j)],
             !.fixed[Slot(j)] = pr.fixed[Slot(i)],
             !.mcrs[Slot(i)] = pr.mcrs[Slot(j)],
             !.mcrs[Slot(j)] = pr.mcrs[Slot(i)]]

(* What aut leads to from the elements of S: the cycle of v from {v}. *)
RECURSIVE Cycle(_, _)
Cycle(aut, S) ==
  IF \A v \in S : aut[v] \in S THEN S
  ELSE Cycle(aut, S \cup {aut[v] : v \in S})

CycleMinima(aut) == {v \in DOMAIN aut : v = Min(Cycle(aut, {v}))}

(* long_prune_add_automorphism: the oldest one gives way when all slots    *)
(* are taken.                                                              *)
PruneAdd(pr, aut) ==
  [pr EXCEPT !.begin = IF pr.end - @ = MaxStored THEN @ + 1 ELSE @,
             !.end = @ + 1,
             !.fixed[Slot(pr.end)] = {v \in DOMAIN aut : aut[v] = v},
             !.mcrs[Slot(pr.end)] = CycleMinima(aut)]

(* The first of the automorphisms a node can still use. *)
FirstUsable(pr, node_begin) ==
  IF node_begin > pr.begin THEN node_begin ELSE pr.begin

(* Variant: all of them stay. *)
PruneFilterNone(pr, node_begin, element) ==
  [prune |-> pr, next |-> FirstUsable(pr, node_begin), begin |-> node_begin]

(* The stored automorphisms that move the element split at the parent are  *)
(* exchanged with the first usable ones and left out from now on.  (The    *)
(* result has the ring, the next slot to exchange with and the first slot  *)
(* of the node.)                                                           *)
PruneFilter(pr, node_begin, element) ==
  FoldLeft(LAMBDA d, i :
             IF element \in d.prune.fixed[Slot(i)] THEN d
             ELSE [prune |-> PruneSwap(d.prune, d.next, i),
                   next |-> d.next + 1, begin |-> d.next + 1],
           [prune |-> pr, next |-> FirstUsable(pr, node_begin),
            begin |-> node_begin],
           [k \in 1 .. pr.end - FirstUsable(pr, node_begin) |->
              FirstUsable(pr, node_begin) + k - 1])

Usable(pr, node_begin) == FirstUsable(pr, node_begin) .. pr.end - 1

(* What a usable automorphism maps below itself need not be split.         *)
Redundant(pr, node_begin, cell) ==
  {v \in cell : \E i \in Usable(pr, node_begin) : v \notin pr.mcrs[Slot(i)]}
=============================================================================
