----------------------------- MODULE BlissCalls -----------------------------
(***************************************************************************)
(* Calls of find_automorphisms and canonical_form one after another, the   *)
(* later ones for numberings of the same graph that permute made (or for   *)
(* the same graph again, on the same object): what the calls leave behind, *)
(* and that canonical forms may be compared.                               *)
(***************************************************************************)
EXTENDS Search

CONSTANTS Perms,      \* the numberings
          MaxCalls    \* the bound on the number of calls

VARIABLES forms,      \* the canonical forms, of searches that were not
                      \* ended by the limit
          calls

callVars == <<vars, forms, calls>>

CallsInit == Init /\ forms = {} /\ calls = 1

Searching ==
  /\ Next
  /\ forms' = IF pc' = "done" /\ opt.canonical /\ path' = <<>>
              THEN forms \cup {Permute(graph, best'.labeling)} ELSE forms
  /\ UNCHANGED calls

(* The state search starts from: all that the last one left is reset.      *)
Fresh(g) ==
  /\ graph' = g /\ steps' \in Limits
  /\ pc' = "start" /\ p' = InitPartition
  /\ path' = <<>> /\ cert' = <<>> /\ ref' = <<>>
  /\ first' = NoPath /\ best' = NoPath
  /\ first_orbits' = OrbitReset(Pos) /\ best_orbits' = OrbitReset(Pos)
  /\ prune' = PruneInit /\ failures' = <<>> /\ ceps' = <<>>
  /\ all_same' = N + 1 /\ group_size' = 1 /\ reported' = <<>>
  /\ UNCHANGED opt

CanCall == pc = "done" /\ calls < MaxCalls

(* On the same object. *)
CallAgain ==
  /\ CanCall /\ calls' = calls + 1
  /\ Fresh(graph)
  /\ UNCHANGED forms

(* On a permuted copy. *)
CallCopy ==
  /\ CanCall /\ calls' = calls + 1
  /\ \E perm \in Perms : Fresh(Permute(graph, perm))
  /\ UNCHANGED forms

CallsNext == Searching \/ CallAgain \/ CallCopy

CallsSpec == CallsInit /\ [][CallsNext]_callVars

(* The search is one thread, which runs on until it is done.               *)
CallsLiveSpec == CallsSpec /\ RunsOn

-----------------------------------------------------------------------------
(* Properties.                                                             *)

(* However its vertices are numbered a graph has one canonical form, for   *)
(* cmp and for what get_hash reads: what canonical forms are compared for. *)
OneCanonicalForm ==
  \A f, g \in forms : Cmp(f, g) = 0 /\ HashInput(f) = HashInput(g)

(* The labeling numbers the vertices, those of smaller colours first, also *)
(* when the best one was put together from two paths, and when the limit   *)
(* ended the search after its first leaf.                                  *)
LabelingRespectsColors ==
  pc = "done" /\ opt.canonical /\ (path = <<>> \/ ~OnFirst) =>
    \A v, w \in Pos :
      /\ v # w => best.labeling[v] # best.labeling[w]
      /\ graph.color[v] < graph.color[w] =>
           best.labeling[v] < best.labeling[w]
=============================================================================
