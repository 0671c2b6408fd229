------------------------------- MODULE Search -------------------------------
(***************************************************************************)
(* AbstractGraph::search (bliss/graph.cc): the backtracking search for the *)
(* automorphisms of a graph and, if asked, its canonical labeling.         *)
(*                                                                         *)
(* A round of the main loop is cut into steps: at its head (pc "loop") the *)
(* node on top of the search stack is dropped, or entered; entered         *)
(* ("choose") it is closed, or one of its elements is individualized; the  *)
(* refinement ("refine") takes one cell of the splitting queue at a time;  *)
(* then the child is bad, or dealt with ("child") by one of the actions    *)
(* that stand for the tail of the loop body.  Levels are counted from 1    *)
(* (search_stack.size()), and certificates in triples.                     *)
(***************************************************************************)
EXTENDS SplitCell, LongPrune, Orbit

CONSTANTS Graphs,       \* the graphs searched
          Options,      \* the settings they are searched with
          Limits        \* the values of max_num_steps

SPLIT_START == -1
SPLIT_END   == -2
NO    == "NO"
MAYBE == "MAYBE"
YES   == "YES"

VARIABLES
  graph, opt,
  pc,        \* "start", "loop", "choose", "refine", "child" or "done"
  steps,     \* max_num_steps
  p,         \* the partition
  path,      \* search_stack
  cert,      \* certificate_current_path
  ref,       \* the results of the comparisons of the last refinement
  first, best,                     \* what is kept of the two paths
  first_orbits, best_orbits,
  prune,     \* the automorphisms stored for long pruning
  failures,  \* failure_recording_hashes
  ceps,      \* cr_cep_stack
  all_same,  \* all_same_level
  group_size, reported

vars == <<graph, opt, pc, steps, p, path, cert, ref, first, best,
          first_orbits, best_orbits, prune, failures, ceps, all_same,
          group_size, reported>>

Identity == [v \in Pos |-> v]
Level    == Len(path)
Top      == path[Level]
OnFirst  == first.info = <<>>      \* the first path is still being built

NoPath == [info |-> <<>>, cert |-> <<>>, labeling |-> [v \in Pos |-> 0],
           inv |-> [i \in Pos |-> 0], aut |-> Identity]

Cep(creation, limit, level, index) ==
  [creation_level |-> creation, discrete_cell_limit |-> limit,
   next_cr_level |-> level, next_cep_index |-> index,
   first_checked |-> FALSE, best_checked |-> FALSE]

(* Variant: the end point is made for the level below. *)
SplitOffBelow(q, stack, comp, level, index, creation) ==
  LET limit == q.discrete + ElementsOf(q, comp)
      new   == CrSplitLevel(q, level, comp)
  IN  IF comp = {} \/ limit >= stack[index].discrete_cell_limit
      THEN [p |-> q, level |-> level, index |-> index, ceps |-> stack]
      ELSE [p |-> new, level |-> new.cr.max_level, index |-> Len(stack) + 1,
            ceps |-> Append(stack, Cep(creation + 1, limit, level, index))]

(* A component that is not all that is left gets a level and an end point  *)
(* of its own.                                                             *)
SplitOffComponent(q, stack, comp, level, index, creation) ==
  LET limit == q.discrete + ElementsOf(q, comp)
      new   == CrSplitLevel(q, level, comp)
  IN  IF comp = {} \/ limit >= stack[index].discrete_cell_limit
      THEN [p |-> q, level |-> level, index |-> index, ceps |-> stack]
      ELSE [p |-> new, level |-> new.cr.max_level, index |-> Len(stack) + 1,
            ceps |-> Append(stack, Cep(creation, limit, level, index))]

(* A node of the search tree that splits cell c next. *)
Node(q, c, off) ==
  [split_cell |-> c, split_element |-> SPLIT_START,
   bt |-> Len(q.bt), cert_index |-> Len(cert), sub_length |-> 0,
   fp_on |-> FALSE, fp_cert_equal |-> TRUE, fp_extendable |-> MAYBE,
   in_best_path |-> FALSE, cmp_to_best_path |-> 0,
   needs_long_prune |-> FALSE, long_prune_begin |-> 0, redundant |-> {},
   cr_level |-> off.level, cep_size |-> Len(off.ceps),
   cep_index |-> off.index]

-----------------------------------------------------------------------------
(* The preparations of search.                                             *)

Init ==
  /\ graph \in Graphs /\ opt \in Options /\ steps \in Limits
  /\ pc = "start"
  /\ p = InitPartition
  /\ path = <<>> /\ cert = <<>> /\ ref = <<>>
  /\ first = NoPath /\ best = NoPath
  /\ first_orbits = OrbitReset(Pos) /\ best_orbits = OrbitReset(Pos)
  /\ prune = PruneInit /\ failures = <<>> /\ ceps = <<>>
  /\ all_same = N + 1 /\ group_size = 1 /\ reported = <<>>

FirstPartition == IF opt.comprec THEN CrInit(InitPartition) ELSE InitPartition

NoComparison ==
  [equal_to_first |-> FALSE, cmp_to_best |-> 0, dev |-> <<>>,
   first_end |-> 0, best_end |-> 0]

(* The initial partition, up to its refinement. *)
Start ==
  /\ pc = "start" /\ pc' = "refine"
  /\ graph' = RemoveDuplicateEdges(graph)
  /\ ref' = NoComparison
  /\ \E q \in {RefineByInvariants(FirstPartition, graph')} :
       p' = QueueAll(q, Ascending(Live(q)))
  /\ UNCHANGED <<opt, steps, path, cert, first, best, first_orbits,
                 best_orbits, prune, failures, ceps, all_same, group_size,
                 reported>>

(* Variant: what was mapped before is not mapped again. *)
BuiltOnce(known, c) ==
  IF path # <<>> /\ IsUnit(p, c) /\ known.aut[known.inv[c]] = known.inv[c]
  THEN [known EXCEPT !.aut[known.inv[c]] = p.elements[c]] ELSE known

(* One round of do_refine_to_equitable.  In the search the automorphisms   *)
(* are built on the way: what a path had in a unit cell is mapped to what  *)
(* is there now.                                                           *)
Built(known, c) ==
  IF path # <<>> /\ IsUnit(p, c)
  THEN [known EXCEPT !.aut[known.inv[c]] = p.elements[c]] ELSE known

Refinement ==
  ref @@ [graph |-> graph, p |-> p, cert |-> cert, in_search |-> path # <<>>,
          compare |-> path # <<>> /\ ~OnFirst, first_cert |-> first.cert,
          best_cert |-> best.cert]

Refine ==
  /\ pc = "refine" /\ p.queue # <<>>
  /\ steps' = steps - 1
  /\ first' = Built(first, Head(p.queue))
  /\ best' = Built(best, Head(p.queue))
  /\ \E r \in {RefineRound(Refinement)} :
       p' = r.p /\ cert' = r.cert /\ ref' = [f \in DOMAIN ref |-> r[f]]
  /\ UNCHANGED <<graph, opt, pc, path, first_orbits, best_orbits, prune,
                 failures, ceps, all_same, group_size, reported>>

Refined == pc = "refine" /\ p.queue = <<>>

(* cr_free *)
WithoutLevels(q) == [q EXCEPT !.cr = InitPartition.cr]

StartDiscrete ==
  /\ Refined /\ path = <<>> /\ IsDiscrete(p)
  /\ best' = [best EXCEPT !.labeling = AntiFunction(p.elements)]
  /\ p' = WithoutLevels(p)
  /\ pc' = "done" /\ ref' = <<>>
  /\ UNCHANGED <<graph, opt, steps, path, cert, first, first_orbits,
                 best_orbits, prune, failures, ceps, all_same, group_size,
                 reported>>

FirstComponent ==
  IF opt.comprec THEN Component(graph, p, 0, AtLevel(p, 0)) ELSE {}

StartRoot ==
  /\ Refined /\ path = <<>> /\ ~IsDiscrete(p)
  /\ \E off \in {SplitOffComponent(p, <<Cep(1, N, 0, 1)>>, FirstComponent,
                                   0, 1, 1)} :
     \E q \in {SetBacktrackPoint(off.p)} :
       /\ p' = q /\ ceps' = off.ceps
       /\ path' = <<[Node(q, Preferred(graph, q, opt.sh,
                                       AtLevel(q, off.level)), off)
                       EXCEPT !.fp_on = TRUE]>>
  /\ pc' = "loop" /\ ref' = <<>>
  /\ UNCHANGED <<graph, opt, steps, cert, first, best, first_orbits,
                 best_orbits, prune, failures, all_same, group_size, reported>>

-----------------------------------------------------------------------------
(* The head of the loop.                                                   *)

InLoop == pc = "loop" /\ path # <<>> /\ steps > 0

(* A node of a component whose end was reached below another first path    *)
(* node cannot lead to a first path automorphism any more.                 *)
Exhausted(cep) == cep.first_checked /\ ~path[cep.creation_level].fp_on

Current ==
  IF /\ opt.comprec /\ Top.fp_extendable = MAYBE
     /\ Exhausted(ceps[Top.cep_index])
  THEN [Top EXCEPT !.fp_extendable = NO] ELSE Top

(* The node is done with: closed, not extendable, or already extended. *)
Hopeless(node) == /\ ~node.fp_on /\ node.fp_extendable = NO
                  /\ (~opt.canonical \/ node.cmp_to_best_path < 0)
Extended(node) == ~node.fp_on /\ node.fp_extendable = YES
Closed(node)   == node.split_element = SPLIT_END
Dropped(node)  == Closed(node) \/ Extended(node) \/ Hopeless(node)

(* The value recorded for a failed child of a first path node is           *)
(* failure_recording_ival, which is never set to anything but 0 (<<>>).    *)
RecordsFailure(node) ==
  /\ opt.failure_recording /\ ~node.fp_on /\ ~Extended(node)
  /\ path[Level - 1].fp_on

PopNode ==
  /\ InLoop /\ Dropped(Current)
  /\ steps' = steps - 1
  /\ path' = SubSeq(path, 1, Level - 1)
  /\ failures' = IF RecordsFailure(Current)
                 THEN [failures EXCEPT ![Level - 1] = @ \cup {<<>>}]
                 ELSE failures
  /\ UNCHANGED <<graph, opt, pc, p, cert, ref, first, best, first_orbits,
                 best_orbits, prune, ceps, all_same, group_size, reported>>

(* When a node is entered for the second time, what the usable stored      *)
(* automorphisms make redundant in its cell is found out.                  *)
PruneNode(node, q, filtered) ==
  [node EXCEPT
     !.long_prune_begin = filtered.begin,
     !.needs_long_prune = node.split_element = SPLIT_START,
     !.redundant =
        IF node.split_element # SPLIT_START /\ node.needs_long_prune
        THEN @ \cup Redundant(filtered.prune, filtered.begin,
                              CellSet(q, node.split_cell))
        ELSE @]

UsesPruning == opt.long_prune /\ Level > 1 /\ ~Top.fp_on

(* The partition, the certificate and the component end points are as they *)
(* were when the node was made; the backtrack point stays.                 *)
Enter ==
  /\ InLoop /\ ~Dropped(Current)
  /\ steps' = steps - 1
  /\ cert' = SubSeq(cert, 1, Top.cert_index)
  /\ ceps' = SubSeq(ceps, 1, Top.cep_size)
  /\ p' = SetBacktrackPoint(GotoBacktrackPoint(p, Top.bt))
  /\ IF UsesPruning
     THEN \E f \in {PruneFilter(prune, Top.long_prune_begin,
                                path[Level - 1].split_element)} :
            /\ prune' = f.prune
            /\ path' = [path EXCEPT ![Level] = PruneNode(Current, p', f)]
     ELSE /\ prune' = prune
          /\ path' = [path EXCEPT ![Level] = Current]
  /\ pc' = "choose"
  /\ UNCHANGED <<graph, opt, ref, first, best, first_orbits, best_orbits,
                 failures, all_same, group_size, reported>>

-----------------------------------------------------------------------------
(* The choice of the next child.                                           *)

(* Variant: the element split last comes again. *)
CandidatesAgain ==
  {v \in CellSet(p, Top.split_cell) :
     /\ v >= Top.split_element
     /\ Top.fp_on => IsMinimalRepresentative(first_orbits, v)
     /\ ~Top.fp_on /\ Top.in_best_path =>
          IsMinimalRepresentative(best_orbits, v)
     /\ ~Top.fp_on /\ opt.long_prune => v \notin Top.redundant}

(* The elements of the cell still to be split at the node. *)
Candidates ==
  {v \in CellSet(p, Top.split_cell) :
     /\ v > Top.split_element
     /\ Top.fp_on => IsMinimalRepresentative(first_orbits, v)
     /\ ~Top.fp_on /\ Top.in_best_path =>
          IsMinimalRepresentative(best_orbits, v)
     /\ ~Top.fp_on /\ opt.long_prune => v \notin Top.redundant}

(* Variant: the size of the cell. *)
IndexOfCell == Length(p, Top.split_cell)

(* The orbit of the element the first path splits here. *)
Index == OrbitSize(first_orbits, first.info[Level].split_element)

(* No child is left.  On the first path the size of the group grows by the *)
(* size of an orbit of the stabilizer of the path up to here.              *)
CloseNode ==
  /\ pc = "choose" /\ Candidates = {}
  /\ path' = [path EXCEPT ![Level].split_element = SPLIT_END]
  /\ group_size' = IF Top.fp_on THEN group_size * Index ELSE group_size
  /\ all_same' = IF /\ Top.fp_on /\ all_same = Level
                    /\ Index = Length(p, Top.split_cell)
                 THEN Level - 1 ELSE all_same
  /\ pc' = "loop"
  /\ UNCHANGED <<graph, opt, steps, p, cert, ref, first, best, first_orbits,
                 best_orbits, prune, failures, ceps, reported>>

(* The end of the part of a path's certificate that belongs to this level. *)
SubcertificateEnd(info) == info[Level].cert_index + info[Level].sub_length

ComparisonBelow ==
  [equal_to_first |-> Top.fp_cert_equal,
   cmp_to_best |-> IF OnFirst \/ opt.canonical THEN Top.cmp_to_best_path
                   ELSE -1,
   dev |-> <<>>,
   first_end |-> IF ~OnFirst /\ Top.fp_cert_equal
                 THEN SubcertificateEnd(first.info) ELSE 0,
   best_end |-> IF ~OnFirst /\ opt.canonical /\ Top.cmp_to_best_path = 0
                THEN SubcertificateEnd(best.info) ELSE 0]

(* Individualize the least of them, and queue the new unit cell (and the   *)
(* rest of the cell if it became one) for the refinement.                  *)
Descend ==
  /\ pc = "choose" /\ Candidates # {}
  /\ \E v \in {Min(Candidates)} :
     \E q \in {Individualize(p, Top.split_cell, v)} :
       /\ path' = [path EXCEPT ![Level].split_element = v]
       /\ p' = QueueAll(q, IF IsUnit(q, Top.split_cell)
                           THEN <<Top.split_cell, q.cell_of[v]>>
                           ELSE <<q.cell_of[v]>>)
  /\ ref' = ComparisonBelow
  /\ pc' = "refine"
  /\ UNCHANGED <<graph, opt, steps, cert, first, best, first_orbits,
                 best_orbits, prune, failures, ceps, all_same, group_size,
                 reported>>

-----------------------------------------------------------------------------
(* The comparison of the child with the first and the best path.           *)

SubLength == Len(cert) - Top.cert_index

EqualToFirst ==
  /\ ref.equal_to_first
  /\ OnFirst \/ SubLength = first.info[Level].sub_length

CmpToBest ==
  IF ~OnFirst /\ opt.canonical /\ ref.cmp_to_best = 0
  THEN Compare(<<SubLength>>, <<best.info[Level].sub_length>>)
  ELSE ref.cmp_to_best

Deviation == IF ref.equal_to_first THEN <<SubLength>> ELSE ref.dev
Bad == ~OnFirst /\ ~EqualToFirst /\ (~opt.canonical \/ CmpToBest < 0)

(* Failure recording: a deviation that no child of the first path node of  *)
(* this level failed with shows that this node, and those above it up to   *)
(* one where a child failed or the first path, cannot be extended.         *)
Records == /\ opt.failure_recording /\ ~OnFirst
           /\ Top.fp_cert_equal /\ ~EqualToFirst
StopsAt(i) == \/ path[i].fp_on \/ <<>> \in failures[i]
              \/ i = Level /\ Deviation \in failures[i]
FailedNodes ==
  IF ~Records \/ Top.fp_on THEN {}
  ELSE {i \in 2 .. Level : \A j \in i .. Level : ~StopsAt(j)}

(* all_same_level: from this level on all children look the same, so one   *)
(* bad child shows that the nodes below are not extendable.                *)
AllSameNodes ==
  IF Bad /\ Top.fp_cert_equal /\ Level > all_same THEN all_same + 1 .. Level
  ELSE {}

(* What is recorded of the comparison, at the node and in failures. *)
Judged(node) ==
  /\ Refined /\ path # <<>>
  /\ failures' = IF Records /\ Top.fp_on
                 THEN [failures EXCEPT ![Level] = @ \cup {Deviation}]
                 ELSE failures
  /\ path' = [i \in DOMAIN path |->
       [(IF i = Level THEN node ELSE path[i]) EXCEPT
          !.fp_extendable =
             IF i \in FailedNodes \cup AllSameNodes THEN NO ELSE @]]
  /\ UNCHANGED <<graph, opt, steps, p, cert, first, best, first_orbits,
                 best_orbits, prune, ceps, all_same, group_size, reported>>

(* Neither equal to the first path nor as good as the best one: backtrack. *)
BadChild ==
  /\ Judged(Top) /\ Bad
  /\ pc' = "loop" /\ ref' = <<>>

GoodChild ==
  /\ Judged([Top EXCEPT !.sub_length = SubLength]) /\ ~Bad
  /\ pc' = "child"
  /\ ref' = [equal |-> EqualToFirst, cmp |-> CmpToBest]

-----------------------------------------------------------------------------
(* The tail of the loop: what becomes of the child.                        *)

IsChild == pc = "child"

(* The loop goes on; the node that was split stays on top. *)
Continue == pc' = "loop" /\ ref' = <<>> /\ UNCHANGED <<graph, opt, steps>>

PathInfo == [i \in DOMAIN path |->
  [split_element |-> path[i].split_element, cert_index |-> path[i].cert_index,
   sub_length |-> path[i].sub_length]]

(* Variant: the labeling is not inverted. *)
HereElements == [info |-> PathInfo, cert |-> cert,
                 labeling |-> p.elements, inv |-> p.elements,
                 aut |-> Identity]

Here == [info |-> PathInfo, cert |-> cert,
         labeling |-> AntiFunction(p.elements), inv |-> p.elements,
         aut |-> Identity]

(* The nodes of the path are those of the best one now. *)
BestNow(nodes) == [i \in DOMAIN nodes |->
  [nodes[i] EXCEPT !.cmp_to_best_path = 0, !.in_best_path = TRUE]]

FirstLeaf ==
  /\ IsChild /\ IsDiscrete(p) /\ OnFirst
  /\ first' = Here /\ best' = Here
  /\ first_orbits' = OrbitReset(Pos) /\ best_orbits' = OrbitReset(Pos)
  /\ group_size' = 1 /\ all_same' = Level
  /\ path' = [i \in DOMAIN path |->
       [BestNow(path)[i] EXCEPT !.fp_on = TRUE, !.fp_cert_equal = TRUE,
                                !.fp_extendable = YES]]
  /\ failures' = [i \in DOMAIN path |-> {}]
  /\ Continue /\ UNCHANGED <<p, cert, prune, ceps, reported>>

(* A leaf that is not equal to the first one but better than the best. *)
NewBest ==
  /\ IsChild /\ IsDiscrete(p) /\ ~OnFirst /\ ~ref.equal /\ ref.cmp > 0
  /\ best' = Here /\ best_orbits' = OrbitReset(Pos)
  /\ path' = BestNow(path)
  /\ Continue
  /\ UNCHANGED <<p, cert, first, first_orbits, prune, failures, ceps,
                 all_same, group_size, reported>>

(* An automorphism found before the partition is discrete: the vertices of *)
(* nonsingleton cells stay where they are, or take the place of the vertex *)
(* that is in a unit cell where the path had them.                         *)
Single(v)        == IsUnit(p, p.cell_of[v])
Image(known, v)  == p.elements[known.labeling[v]]
Moved(known)     == {v \in Pos : ~Single(v) /\ Single(Image(known, v))}
Completed(known) ==
  [i \in Pos |->
     IF \E v \in Moved(known) : Image(known, v) = i
     THEN CHOOSE v \in Moved(known) : Image(known, v) = i
     ELSE IF Single(i) \/ i \in Moved(known) THEN known.aut[i] ELSE i]

Stored(aut) == IF opt.long_prune THEN PruneAdd(prune, aut) ELSE prune

(* handle_first_path_automorphism *)
FirstPathAutomorphism ==
  /\ \E aut \in {Completed(first)} :
       /\ first' = [first EXCEPT !.aut = aut]
       /\ prune' = Stored(aut)
       /\ first_orbits' = UpdateOrbits(first_orbits, N, aut)
       /\ reported' = Append(reported, aut)
  /\ path' = [i \in DOMAIN path |->
       [path[i] EXCEPT !.fp_extendable = IF path[i].fp_on THEN @ ELSE YES]]
  /\ Continue
  /\ UNCHANGED <<p, cert, best, best_orbits, failures, ceps, all_same,
                 group_size>>

(* How many nodes the path has in common with one that is remembered. *)
Common(info) ==
  Max({k \in 0 .. Min({Len(info), Level}) :
         \A j \in 1 .. k : info[j].split_element = path[j].split_element})

(* Variant: the node above it. *)
BackjumpingLevelAbove(orbits) ==
  IF IsMinimalRepresentative(orbits,
       path[Common(first.info) + 1].split_element)
  THEN Common(best.info) ELSE Common(first.info)

(* The level to jump back to: where the path leaves the first one if that  *)
(* child is known to be equivalent to another, else where it leaves the    *)
(* best one.                                                               *)
BackjumpingLevel(orbits) ==
  IF IsMinimalRepresentative(orbits,
       path[Common(first.info) + 1].split_element)
  THEN Common(best.info) + 1 ELSE Common(first.info) + 1

(* handle_best_path_automorphism: it is reported if it joins orbits. *)
BestPathAutomorphism ==
  /\ \E aut \in {Completed(best)} :
       /\ best' = [best EXCEPT !.aut = aut]
       /\ prune' = Stored(aut)
       /\ best_orbits' = UpdateOrbits(best_orbits, N, aut)
       /\ first_orbits' = UpdateOrbits(first_orbits, N, aut)
       /\ reported' = IF first_orbits'.nof_orbits # first_orbits.nof_orbits
                      THEN Append(reported, aut) ELSE reported
  /\ path' = SubSeq(path, 1, BackjumpingLevel(first_orbits'))
  /\ Continue
  /\ UNCHANGED <<p, cert, first, failures, ceps, all_same, group_size>>

LeafFirstAutomorphism ==
  /\ IsChild /\ IsDiscrete(p) /\ ~OnFirst /\ ref.equal
  /\ FirstPathAutomorphism

LeafBestAutomorphism ==
  /\ IsChild /\ IsDiscrete(p) /\ ~OnFirst /\ ~ref.equal /\ ref.cmp <= 0
  /\ BestPathAutomorphism

-----------------------------------------------------------------------------
(* The end of a component.                                                 *)

TopCep == ceps[Top.cep_index]
AtEnd  == /\ IsChild /\ ~IsDiscrete(p) /\ opt.comprec
          /\ p.discrete = TopCep.discrete_cell_limit
MadeAt == path[TopCep.creation_level]

LikeFirst == OnFirst \/ ref.equal
LikeBest  == opt.canonical /\ ~OnFirst /\ ref.cmp >= 0

EndFirstAutomorphism ==
  /\ AtEnd /\ LikeFirst /\ TopCep.first_checked /\ MadeAt.fp_on
  /\ FirstPathAutomorphism

(* Past the comparison with the first path. *)
PastFirst == AtEnd /\ ~(LikeFirst /\ TopCep.first_checked /\ MadeAt.fp_on)

CheckedFirst == [ceps EXCEPT ![Top.cep_index].first_checked = @ \/ LikeFirst]

EndBestAutomorphism ==
  /\ PastFirst /\ LikeBest /\ TopCep.best_checked
  /\ ref.cmp = 0 /\ MadeAt.in_best_path
  /\ BestPathAutomorphism

(* Equal to the best path in this component, but the path that led to it   *)
(* is not remembered.                                                      *)
EndForgotten ==
  /\ PastFirst /\ LikeBest /\ TopCep.best_checked
  /\ ref.cmp = 0 /\ ~MadeAt.in_best_path /\ ~ref.equal
  /\ ceps' = CheckedFirst
  /\ Continue
  /\ UNCHANGED <<p, path, cert, first, best, first_orbits, best_orbits, prune,
                 failures, all_same, group_size, reported>>

(* The first node of the best path that is not in this component. *)
PostfixStart ==
  Min({i \in TopCep.creation_level .. Len(best.info) :
         ~Single(best.info[i].split_element)})

(* The nodes of the best path from there on, behind those of the path. *)
Spliced ==
  FoldLeft(LAMBDA s, node :
             Append(s, [node EXCEPT !.cert_index =
                          s[Len(s)].cert_index + s[Len(s)].sub_length]),
           PathInfo, SubSeq(best.info, PostfixStart, Len(best.info)))

(* Better than the best path in this component: the path up to here is the *)
(* best one, with the old one for the components that follow.              *)
EndNewBest ==
  /\ PastFirst /\ LikeBest /\ TopCep.best_checked
  /\ ref.cmp > 0 /\ MadeAt.in_best_path
  /\ best' = [info |-> Spliced,
              cert |-> cert \o SubSeq(best.cert,
                         best.info[PostfixStart].cert_index + 1,
                         Len(best.cert)),
              labeling |-> [v \in Pos |->
                IF Single(v) THEN AntiFunction(p.elements)[v]
                ELSE best.labeling[v]],
              inv |-> [i \in Pos |-> IF Single(p.elements[i])
                                     THEN p.elements[i] ELSE best.inv[i]],
              aut |-> Identity]
  /\ best_orbits' = OrbitReset(Pos)
  /\ path' = BestNow(path)
  /\ ceps' = CheckedFirst
  /\ Continue
  /\ UNCHANGED <<p, cert, first, first_orbits, prune, failures, all_same,
                 group_size, reported>>

-----------------------------------------------------------------------------
(* An internal node: it goes on the stack, with the component it splits    *)
(* first.                                                                  *)

ComponentBelow(level) ==
  IF opt.comprec THEN Component(graph, p, level, NonUnits(p)) ELSE {}

Child(q, cells, off, cmp) ==
  [Node(q, Preferred(graph, q, opt.sh, cells), off) EXCEPT
     !.fp_cert_equal = ref.equal,
     !.fp_extendable = IF \/ Top.fp_extendable = NO
                          \/ Top.fp_extendable = MAYBE /\ ~ref.equal
                       THEN NO ELSE MAYBE,
     !.cmp_to_best_path = cmp,
     !.long_prune_begin = Top.long_prune_begin]

PushChild(stack, level, index, cmp) ==
  /\ \E comp \in {ComponentBelow(level)} :
     \E off \in {SplitOffComponent(p, stack, comp, level, index, Level + 1)} :
     \E q \in {SetBacktrackPoint(off.p)} :
       /\ p' = q /\ ceps' = off.ceps
       /\ path' = Append(path, Child(q,
                    IF comp = {} THEN AtLevel(q, off.level) ELSE comp,
                    off, cmp))
  /\ Continue
  /\ UNCHANGED <<cert, first, best, first_orbits, best_orbits, prune,
                 failures, all_same, group_size, reported>>

InternalNode ==
  /\ IsChild /\ ~IsDiscrete(p) /\ ~AtEnd
  /\ PushChild(ceps, Top.cr_level, Top.cep_index, ref.cmp)

(* On to the component that comes after this one. *)
EndGoOn ==
  /\ PastFirst
  /\ LikeBest /\ TopCep.best_checked =>
       ~MadeAt.in_best_path /\ (ref.cmp = 0 => ref.equal)
  /\ PushChild([CheckedFirst EXCEPT ![Top.cep_index].best_checked =
                  @ \/ LikeBest],
               TopCep.next_cr_level, TopCep.next_cep_index,
               IF LikeBest /\ TopCep.best_checked /\ ref.cmp = 0 THEN -1
               ELSE ref.cmp)

-----------------------------------------------------------------------------
(* The stack is empty, or the limit is reached. *)
Finish ==
  /\ pc = "loop" /\ (path = <<>> \/ steps <= 0)
  /\ pc' = "done"
  /\ p' = WithoutLevels(p)
  /\ UNCHANGED <<graph, opt, steps, path, cert, ref, first, best,
                 first_orbits, best_orbits, prune, failures, ceps, all_same,
                 group_size, reported>>

Terminated == pc = "done" /\ UNCHANGED vars

Next ==
  \/ Start \/ Refine \/ StartDiscrete \/ StartRoot
  \/ PopNode \/ Enter \/ CloseNode \/ Descend \/ BadChild \/ GoodChild
  \/ FirstLeaf \/ NewBest \/ LeafFirstAutomorphism \/ LeafBestAutomorphism
  \/ EndFirstAutomorphism \/ EndBestAutomorphism \/ EndForgotten \/ EndNewBest
  \/ InternalNode \/ EndGoOn \/ Finish \/ Terminated

Spec == Init /\ [][Next]_vars

(* The search is one thread, which runs on until it is done.  (This is     *)
(* WF_vars(Next) where no state but the last is without a next step.)      *)
RunsOn   == []<><<TRUE>>_vars \/ <>[](pc = "done")
LiveSpec == Spec /\ RunsOn

-----------------------------------------------------------------------------
(* Properties.                                                             *)

RECURSIVE GeneratedBy(_, _)
GeneratedBy(S, gens) ==
  LET more == {[v \in Pos |-> g[f[v]]] : f \in S, g \in gens} \ S
  IN  IF more = {} THEN S ELSE GeneratedBy(S \cup more, gens)

(* What the hook is told are automorphisms that keep the colours: also     *)
(* those put together from unit cells and the path before a component's    *)
(* partition is discrete, and those found before the limit ends the search.*)
ReportedAreAutomorphisms ==
  \A k \in DOMAIN reported : /\ IsAutomorphism(graph, reported[k])
                             /\ PreservesColors(graph, reported[k])

(* A search that is not ended by the limit has reported generators of the  *)
(* whole group, although long pruning, failure recording, the orbits, the  *)
(* components and the backjumps leave most of the tree out; and the size   *)
(* it multiplies up level by level is the size of that group.              *)
ReportedGenerateGroup ==
  pc = "done" /\ steps > 0 =>
    /\ GeneratedBy({Identity}, ToSet(reported)) = Aut(graph)
    /\ group_size = Cardinality(Aut(graph))

(* The orbits of the first path are those of the reported automorphisms:   *)
(* two vertices are in one exactly if reported ones lead from one to the   *)
(* other (the automorphisms of the best path that are not reported join    *)
(* nothing).  The first of an orbit's list is its least element.           *)
Reach(S) == S \cup {reported[k][v] : k \in DOMAIN reported, v \in S}
RECURSIVE ReachFrom(_)
ReachFrom(S) == IF Reach(S) = S THEN S ELSE ReachFrom(Reach(S))
OrbitsAreReported ==
  /\ \A v \in Pos :
       /\ OrbitOf(first_orbits, v) = ReachFrom({v})
       /\ MinimalRepresentative(first_orbits, v) = Min(ReachFrom({v}))
  /\ first_orbits.nof_orbits = Cardinality({ReachFrom({v}) : v \in Pos})

(* Every node whose refinement was not given up has an equitable partition,*)
(* although only the smaller part of most cells is queued.                 *)
ChildrenEquitable == pc = "child" => IsEquitable(graph, p)

(* At a leaf equal to the first or the best path the automorphism built    *)
(* cell by cell during the refinements, with backtracking in between, is   *)
(* the one that maps the labeling of the path to this one                  *)
(* (BLISS_CONSISTENCY_CHECKS in search).                                   *)
AutomorphismBuilt ==
  pc = "child" /\ IsDiscrete(p) /\ ~OnFirst =>
    /\ ref.equal => \A v \in Pos : first.aut[v] = Image(first, v)
    /\ ~ref.equal /\ ref.cmp = 0 =>
         \A v \in Pos : best.aut[v] = Image(best, v)

(* The automorphisms a node may use for long pruning fix every element     *)
(* split above it (BLISS_CONSISTENCY_CHECKS in search), whatever exchange  *)
(* and overwriting of slots went on below; and their slots exist, although *)
(* slots are allocated for the N vertices and used for up to MaxStored     *)
(* automorphisms.                                                          *)
UsablePrunersFixPath ==
  /\ \A k \in prune.begin .. prune.end - 1 : Slot(k) < N
  /\ pc = "choose" /\ UsesPruning =>
       \A i \in Usable(prune, Top.long_prune_begin), k \in 1 .. Level - 1 :
         path[k].split_element \in prune.fixed[Slot(i)]

(* The end of a component is not jumped over, and an end point that is     *)
(* reached is not the sentinel (the assertions on cr_cep_index).  While a  *)
(* node is on the stack so are those of its component's making.            *)
ComponentEnds ==
  /\ pc = "child" /\ ~IsDiscrete(p) /\ opt.comprec =>
       /\ p.discrete <= TopCep.discrete_cell_limit
       /\ p.discrete = TopCep.discrete_cell_limit => Top.cep_index # 1
       /\ TopCep.creation_level <= Level
  /\ \A k \in DOMAIN path :
       /\ path[k].cep_size <= Len(ceps)
       /\ ceps[path[k].cep_index].creation_level <= k

(* A backjump leaves nodes of the path on the stack, the last of which     *)
(* split an element that is no minimal representative any more: it will    *)
(* not be split again.                                                     *)
BackjumpsAreSound ==
  [][LeafBestAutomorphism \/ EndBestAutomorphism =>
       /\ Len(path') \in 1 .. Level
       /\ \/ ~IsMinimalRepresentative(first_orbits',
                                      path[Len(path')].split_element)
          \/ ~IsMinimalRepresentative(best_orbits',
                                      path[Len(path')].split_element)]_vars
=============================================================================
