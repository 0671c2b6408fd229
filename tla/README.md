# BreakID: specification, model checking and proofs

BreakID reads a formula in conjunctive normal form, asks bliss for symmetries
of a coloured graph that represents it, and adds clauses that exclude some of
the symmetric variants of every solution.  It must never make a satisfiable
formula unsatisfiable.  This directory holds TLA+ modules that model the whole
way from the input file to the added clauses, the search of bliss included, the
TLC configurations that check them, and TLAPS proofs.  `PROJECT.json` lists the
runs, the mutants, the theorems, the hazards and, for every definition, the
source lines it translates.

    tlc -workers 2 -config MCBreaker.cfg MCBreaker     # one run
    tlapm BreakerProofs.tla                            # the proofs of a module

All paths below are relative to `src/src/` of the repository.

## Contents

1. The system: components, state, operations, interactions
2. What is hard about it
3. The modules and how they correspond to the code
4. The runs: properties, bounds, fairness
5. The proofs
6. What the checks found
7. What is not modelled
8. What could come next

## 1. The system

BreakID is a sequential library with a command line.  Data flows one way:

    main (breakid-main.cpp)  readCNF, options
      |  start_dynamic_cnf, add_clause, end_dynamic_cnf
      v
    BreakID (breakid.cpp)            C API (breakid_c.cpp) wraps it
      |  detect_subgroups:
      |    OnlCNF (Theory.cpp) --> Graph (Graph.cpp) --> bliss
      |        generators --> Permutation::addPrimeSplitToVector
      |    Group::getDisjointGenerators --> subgroups
      |  break_symm, for every subgroup:
      |    Group::addMatrices   <--> OnlCNF (is this a symmetry?), Graph, bliss
      |    Group::addBreakingClausesTo --> Breaker::addBinClause, addSym
      v
    Breaker (Breaking.cpp)  clauses, new variables --> output

| Component | State | Operations | What makes it correct |
|---|---|---|---|
| Literals and permutations (`breakid.hpp`, `Algebraic.*`) | a map from literals to images | getImage, getCycle, Permutation(row, row), getProductWithRowsWap | commutes with negation; products and cycles are right |
| Splitting of generators (`Permutation::addPrimeSplitToVector`) | cycles by length, exponents by prime | SplitCycle, one generator per prime and power | keeps orbits and negation; stays within the group |
| Division into subgroups (`Group::getDisjointGenerators`) | the vector of generators, the growing group | fixpoint loop with swap-erase | supports are disjoint, nothing is lost or doubled, ends |
| Matrix detection (`Group::addMatrices`) | permutations, matrices, unique colours | initial matrix, maximal extension, stabilizer by bliss, cleaning, columns | row swaps are symmetries, no symmetry is lost, ends |
| Order and binary clauses (`Group::addBreakingClausesTo`, `getOrderAndAddBinaryClausesTo`) | the permutations left in the stabilizer chain, the order | pick an orbit, eliminate non-stabilizers, order the rest, break permutations and row swaps | one member of every orbit survives all clauses together |
| Symmetry breaking clauses (`Breaking.*`) | the clause set, variable counter, statistics | addSym (two translations), addBinClause, getTseitinVar | the clauses mean exactly the lex-leader constraint |
| Coloured graph (`Graph.*`) | colours of vertices, bliss graph | setUniqueColor, getSymmetryGenerators | automorphisms are the symmetries; fixed literals stay fixed |
| Theory (`Theory.*`) | clauses, symmetry group, graph | isSymmetry, setSubTheory, dynamic CNF | the membership test is exact |
| BreakID interface (`breakid.cpp`) | configuration, theory, breaker, subgroups | set_*, dynamic CNF, detect_subgroups, break_symm, get_* | calls in a legal order give the formula plus sound clauses |
| C interface (`breakid_c.cpp`) | one BreakID object | wrappers | the same |
| Command line (`breakid-main.cpp`) | options, the reader | readCNF, main | the formula read is the formula written |
| Scripts (`src/scripts/`) | clauses | XOR to CNF, repair and deduplicate | equivalence |
| bliss: partition (`bliss/partition.*`) | elements, cells, split levels, refinement stack, splitting queue, component levels | split, individualize, queue, backtrack, component levels | redundant parts agree; backtracking restores; enough is queued |
| bliss: graph and refinement (`bliss/graph.*`) | edges, colours; the certificate | permute, refine to an equitable partition, compare with two paths | the partition is equitable; equal certificates mean equal graphs |
| bliss: search (`bliss/graph.*`, `orbit.*`) | search tree, three paths, orbits, long pruning, component stack, steps left | find_automorphisms, canonical_form | reports automorphisms that generate the group; one canonical form; ends |

There are no threads and no stored state that outlives a run.  The components
interact through calls and shared objects: the breaker is shared by all
subgroups, the graph by all rounds of a matrix search, and bliss calls back into
`addBlissPermutation` while it searches.  The one thing that may end a
computation early is the step limit of bliss (`-t`, `max_num_steps`).

## 2. What is hard about it

The dangers are not interleavings but long sequences of legal steps:

* Several sound kinds of clauses (binary clauses from a stabilizer chain, lex
  leader clauses of permutations, of row swaps, of several subgroups) are only
  sound *together* when they agree on one order.  A test that compares
  satisfiability of a few formulas hardly notices an exception.
* Vectors are erased from by swapping while they are scanned, in four places.
* Loops run until nothing changes: subgroups, matrices, the stabilizer chain.
* The encoding of a symmetry leaves out constraints in three ways (the last
  literal of each cycle, everything after a literal mapped to its negation,
  everything after the limit) and defines its new variables in one direction only.
* Iteration over hash containers decides choices, and differs between builds.
* Permutations are cut, multiplied and removed; each must leave a generating
  set of the same group, made of symmetries of the formula.
* Colours are unique when a counter beside them says one; the counters are
  seeded with a guess (100 clauses) that is corrected at the end of the formula,
  and never for the theory of a subgroup.
* bliss keeps every fact about its partition three times and undoes steps from
  three trails of their own; it prunes by orbits, by stored automorphisms in a
  ring that is reordered and overwritten, by certificates and by components; and
  it completes automorphisms before the partition is discrete.  Each of these
  is justified by something that happened many steps before.
* The step limit can end a search between any two rounds.

`PROJECT.json` lists each of these as a hazard with its line and the properties
that would notice it, or the reason why none does.

## 3. The modules

BreakID (a module extends those it hangs from):

    BLits --- Subgroups --- SubgroupsProofs
      |           \_ INSTANCE Components (abstract)
      |--- Perms --- PrimeSplit --- PrimeSplitProofs
      |       |  \-- Matrices --- MatricesProofs    (both extend AssignmentsProofs, too)
      |       \--- Assignments --- Breaker --- GroupBreaking
      \--- ColorGraph --- Theory --- Interface
               /
    BlissGraph

    AssignmentsProofs --- BreakerProofs --- GroupProofs --- SurvivorProofs
    (extending Assignments   Breaker        GroupBreaking)

bliss:

    CellSort --- Partition --- BacktrackPartition
                     |             \_ INSTANCE OrderedPartition (abstract)
    BlissGraph --- Refinement --- SplitCell --- Search --- BlissCalls
    LongPrune, Orbit ---------------------------/
                  \--- OrbitProofs

    SignedPerms: permutations in a form that TLC can enumerate
    MC*: instances for TLC

**BLits** are the literals as the code packs them, `2 * variable + sign`, and
the permutations of literals.  A `Permutation` object stores only the literals
it moves; the model uses the total function that `getImage` computes.
`LitPerms`, the injective maps that commute with negation, is what
`Graph::getSymmetryGenerators` may report: the graph joins each literal with its
negation by an edge.

**Perms** adds products, cycles (as the walk of `getCycle`, and as the set of
its literals for the proofs), row swaps and the reference notions: orbits,
powers, generated groups.  **Assignments** says what clauses mean: assignments,
their images, satisfaction, and the lexicographic order.  Neither contains code
other than the operations of `Permutation`; the properties compare the code with
these.

**Subgroups** is `Group::getDisjointGenerators`.  `permutations`, `current`,
`previoussize`, `i` are the variables of the function.  `StartGroup` is the head
of the outer loop, `BeginPass` the condition of the middle one, `Absorb` and
`Skip` the two branches of the scan, `FinishGroup` the `push_back`.
**Components** is the abstract specification: in one step a whole connected
component leaves the set of remaining generators.  `Subgroups!ComponentsSpec`
is the refinement: the steps that fill a group stutter, and `FinishGroup` is
the abstract step.  TLC checks it with its fairness; `SubgroupsProofs` proves
the safety part for every set of generators.

**PrimeSplit** is `addPrimeSplitToVector`: `SplitCycle` is one turn of the loop
over cycles, `GenPerm` the generator of one prime, `EqualCycleGen` one turn of
the countdown over powers, with its `continue`.  `Pow` stands for the library's
`pow`, as a product that grows by one factor at a time: the prover knows no facts
about `^`.

**Breaker** is the class of that name: `clauses` is the `unordered_set`,
`AddSym` enters `addSym`, `Mark` is the backward loop that finds the last literal
of each cycle, `SkipLit` and `Constrain` are the forward loop, `EndSym` the
statistics.  Both translations (`addBreakID`, `addShatter`) and the full one are
there.  `encoded` is a history variable: which symmetries have been encoded and
how far.

**GroupBreaking** extends `Breaker`, so that a step of the breaker is a step of
the composition (`EncodeStep`).  It models `break_symm` from the point where the
matrices are known: `NextGroup`, `PickLiteral`, `Eliminate` (one turn of the
swap-erase scan), `OrderRest`, `BreakPermutation`, `BreakRowSwap`.  `Scan` is
the loop over the orbits in one order, `Picks` what it returns over all
iteration orders of the unordered containers; `MatrixOrder` reads the literals
of the matrices row by row and leaves each variable in once
(`EachVariableOnce`).  `GroupListsAssumption` says what a list of subgroups is
like when `break_symm` begins: the supports are disjoint, as
`getDisjointGenerators` leaves them (proved: `DisjointSupports`); the rows of
the matrices hold a literal together with its negation, as `addMatrices` builds
them, and their swaps commute with negation (proved where
involutions fit together: `MatricesHandedOver`).

**Matrices** is `Group::addMatrices` with everything it calls.  The formula is
abstracted to the set of its symmetries, closed under products, which is all
that `isSymmetry` and bliss reveal of it; `unique` is the set of literals with a colour of their own.
`Bliss` may report any list of at most `MaxGens` generators of the stabilizer.
`Extend`, `TryStabilizer` and `Clean` are single turns of loops over vectors
that change while they are scanned.  `WithColumn` is one turn of the loop that
collects columns, `WithNegations` the literals of a vector each followed by its
negation, as `getSharedLiterals` and `checkColumnInterchangeability` push them.

**ColorGraph** is class `Graph` of BreakID on top of the graph of bliss:
`NewColorGraph` the constructor, `AddClauseVertex` a clause, `EndDynamic` the end
of the formula, `SetUniqueColor` the counters.  `AutomorphismsOf` is what bliss
may report for it.  **Theory** is `OnlCNF`: `AddClauseTo`, `EndTheory`,
`SubTheory` (which never reaches `EndTheory`, as in the code), `IsSymmetry`.
**Interface** is a run of the program: `ReadLine` is a turn of the loop of
`readCNF`, `Start`, `AddClause`, `End`, `FindGenerators`, `DetectSubgroups`,
`BreakGroup` and `Finish` are the public calls in the order of `main`.
`BreakGroup` stops where `Matrices` and `GroupBreaking` begin: with the theory
of the subgroup.

**CellSort** translates the three sorting routines of the partition element by
element: the search pairs the elements of two cells by position, so the order
of equal elements matters.  **Partition** is the class of that name as a record
and operators on it, one for each method, with everything the code keeps in
step by hand; a `Cell *` is the index of its first element.
**BacktrackPartition** is a partition under any sequence of the calls its owner
may make: `DoZplit`, `DoIndividualize`, `DoPop` and `DoClear` of the queue,
`DoSetPoint` and `DoGoto`, `DoCrSplitLevel`.  **OrderedPartition** is what the
search relies on: cells in order that are only refined in place, and points that
bring back what was saved.
`Implements` is the refinement, checked by TLC.

**BlissGraph** is class `Graph` of bliss, an adjacency list and a colour for
every vertex.  **Refinement** is `do_refine_to_equitable` with both of its
splitting routines and the certificate: one operator for each turn over the
queue, so that a refinement can be left in the middle when the certificate is
worse.  **SplitCell** has the heuristics that choose a cell and the components
of the nonuniformly joined cells (`nucr_find_first_component`, both of them).
**LongPrune** is the ring of stored automorphisms; **Orbit** the class of that
name.

**Search** is `AbstractGraph::search`.  The body of its loop is cut where the
control flow joins: the head (`PopNode`, `Enter`), the choice of an element
(`CloseNode`, `Descend`), the refinement (`Refine`), and one action for every
way the body ends: `BadChild`, `FirstLeaf`, `NewBest`, `LeafFirstAutomorphism`,
`LeafBestAutomorphism`, `EndFirstAutomorphism`, `EndBestAutomorphism`,
`EndForgotten`, `EndNewBest`, `EndGoOn`, `InternalNode`.  **BlissCalls** calls it
again, on the same object and on renumbered graphs.  Three simplifications lose
nothing: hashes are the sequences of the numbers that are hashed, so that two
are equal when the code cannot tell them apart for any other reason than a
collision; `eqref_hash` is left out because nothing ever switches its
computation on; certificate entries are triples.

## 4. The runs

| Run | What it asks | Bounds |
|---|---|---|
| `subgroups` | is the result a partition into connected components, in every order | 4 variables, 4 generators out of 6 |
| `prime_split` | does the split keep negation, the orbits, and for equal cycles the group | all 3840 permutations of the literals of 5 variables |
| `split_within_group` | is every part of the split a power of the original (*violated*) | all 48 permutations of 3 variables |
| `breaker` | do the clauses mean the lex-leader constraint after every step | all 384 permutations of 4 variables, 3 configurations, with and without limit |
| `group_breaking` | does an assignment of every orbit survive all clauses | 4 variables, linked pairs out of 10 permutations, matrices of 3 rows, two subgroups |
| `matrices` | are row swaps symmetries, during the search and after it, is nothing lost, does the search end | 9 variables, nine kinds of groups |
| `all_but_last_row`, `rows_interchangeable` | claims of comments and statistics (*violated*) | the same |
| `interface` | is the graph exactly the formula in the file, for the whole and for a subgroup; does isSymmetry decide | 410 files of up to 4 variables, 2 automorphisms |
| `partition` | do the redundant structures agree, is enough queued, is backtracking exact | 4 elements, values 0 to 2, 2 backtrack points, 1 component level |
| `search` | is what whole searches report, prune and skip right | graphs on 39 vertices, several settings |
| `bliss_calls` | is the group generated, is the canonical form canonical, does a search end | 7 vertices, limits 2, 9, 17, 24 and enough, 2 calls |

Why the bounds are enough for the cases that matter:

* *subgroups.*  A generator that a pass rejects and a later pass absorbs needs
  three generators in a chain; a fourth makes a second subgroup or a second late
  one.  Pool members are drawn with repetition, in every order, and the pool
  contains negated literals and a literal swapped with its own negation.
* *prime_split.*  Five variables give ten literals: cycles of lengths 2, 3, 4,
  5, 6, 8 and 10 with and without a negation in them, so two primes in one
  length, two powers of one prime in different cycles, and both.
* *breaker.*  Four variables give orders of four positions: constraints of all
  three forms (first, second, later), cycles skipped in the middle, early ends,
  and limits of 1 and 50 (`symBreakingFormLength` 0 and 1 are the limits that
  cut; 50 never does).  `MaxCalls` = 1 here; `group_breaking` calls the breaker
  repeatedly with the same clause set.  All constraints treat variables alike,
  so the order is fixed and the permutation varies.
* *group_breaking.*  Two permutations of four variables that overlap exercise
  the stabilizer chain twice; a matrix of three rows gives two row swaps next to
  a permutation; two subgroups share the clause set and the variable counter.
  Limits and the absence of binary clauses are configurations.
* *matrices.*  One column and four rows by any spanning tree of transpositions;
  mixed signs; three rows of three columns that cannot be swapped; the same grid
  with columns that can; wreath products; a fourth
  row that only the stabilizer reveals; columns that are permuted independently;
  triples that are exchanged.  `MaxGens` = 2 generators are enough for every
  stabilizer that occurs; what bliss reports is otherwise arbitrary.
* *interface.*  Every formula of at most two out of eleven clauses (units,
  repeated literals, a tautology, clauses that differ in order) in three layouts
  (a line for each clause; all in one line with a header that is too small; one
  number in a line, no header, an open clause at the end), and eleven more by
  hand: an empty clause, no clauses, a square, two independent pairs, a clause
  twice.  bliss reports any sequence of two automorphisms with cycles of one
  prime power length; `PrimeSplit` has the others.  One of two is as good as
  more: a subgroup enters the properties through its support.
* *partition.*  Four elements are the fewest for a cell that is split into
  three, or into two nonsingleton cells one of which is split again under a
  second backtrack point.  `CountLimit` is 3 instead of 256, so that all three
  sorting routines are taken; an assumption checks the shell sort on ten
  elements besides, where it has more than one gap.
* *search.*  The graphs were chosen so that every action and every branch of the
  loop is taken: three hubs for components inside components and for a leaf that
  is equal to the best path in one component and not in the next, two hubs that
  only edges between unit cells tell apart, a triangle and a square, two halves,
  parallel edges and loops.  39 vertices are what the first of them needs.
* *bliss_calls.*  A triangle and a square is the smallest graph for which the
  refinement leaves two components that differ; every graph on four vertices
  with one or two colours covers the rest.  Limits of 2 to 24 steps end the
  search at its first loop, before, in and after the first leaf.  `MaxStored` is
  2 instead of 100, so that the ring is overwritten.

The runs of BreakID's functions do not check for deadlock: every one of these
functions returns, and the model then has no step.  The runs of bliss do;
`Search` says with `Terminated` where it may stop, and a partition never does.

*Fairness.*  The program is sequential.  `WF(Next)` says that it takes another
step when it can, nothing else: which step is never assumed fair.  Termination
and the liveness part of `ComponentsSpec` use it.  `bliss_calls` says the same
without `ENABLED`, as `RunsOn`: the search goes on for ever or has ended.
`EndsByItself` is about a search with more steps than it needs; one that is
stopped by the limit ends trivially.  `interface`, `partition`, `search` and
`breaker` check safety only.

Every property has a mutant in `PROJECT.json`: a variant of a mapped definition
(marked "Variant:" in the modules) under which TLC finds the property violated.

## 5. The proofs

TLAPS proves the following for every value of the constants.  Where a theorem
names a property, a run checks it on a small instance.

| Module | Theorem | States | Assumes |
|---|---|---|---|
| `SubgroupsProofs` | `TypeCorrect` | `TypeOK` | `NVars`, `NbGens` natural, `Pool` commutes with negation |
| `SubgroupsProofs` | `DisjointSupports` | `SubgroupsDisjoint` | the same |
| `SubgroupsProofs` | `SubgroupsAreComponents` | `Parts!SafeSpec`, the safety part of `ComponentsSpec` | the same |
| `GroupProofs` | `StabilizersOnly` | `OnlyStabilizersLeft` | those of `GroupBreaking` |
| `GroupProofs` | `OrderFound` | `OrderComplete` | the same |
| `SurvivorProofs` | `OrbitsSurvive` | `EveryOrbitSurvives` | the same |
| `PrimeSplitProofs` | `SplitInvariant`, `SplitTypes` | `SplitInv`, `TypeOK` | `NVars` natural, `Pool` commutes with negation |
| `PrimeSplitProofs` | `SplitsAreSymmetries` | `SplitCommutesWithNegation` | the same |
| `PrimeSplitProofs` | `SplitKeepsOrbits` | `OrbitsKept` | the same |
| `PrimeSplitProofs` | `SplitExactWhenUniform` | `UniformSplitExact` | the same |
| `MatricesProofs` | `ConstructionIsSound` | `ConstructionSound` | the symmetries of a subgroup's formula commute with negation and are closed under products, its generators are among them |
| `MatricesProofs` | `RowSwapsSound` | `RowSwapsAreSymmetries`, where `[]InvolutionsFit` | the same |
| `MatricesProofs` | `RowsAreInterchangeable` | `RowsInterchangeable`, where `[]InvolutionsFit` | the same |
| `MatricesProofs` | `NothingLost` | `NoSymmetryLost`, where `[]InvolutionsFit` | the same |
| `MatricesProofs` | `CleanedCompletely` | `CleanComplete`, where `[]InvolutionsFit` | the same |
| `MatricesProofs` | `MatricesHandedOver` | what `GroupListsAssumption` says of rows, where `[]InvolutionsFit` | the same |
| `OrbitProofs` | `ResetOrbits` | `reset` makes a partition into single elements | any set of integers |
| `OrbitProofs` | `MergeKeepsPartition` | `merge_orbits` makes one orbit of two, leaves the rest, and keeps the least element in front | the same |
| `BreakerProofs` | `TypeCorrect` | `TypeOK` | symmetries commute with negation, orders are orders and cover them |
| `BreakerProofs` | `LexLeaderEncoded` | `EncodesLexLeader` | the same |
| `BreakerProofs` | `AuxiliariesBounded` | `AuxiliariesWithinLimit` | the same |
| `BreakerProofs` | `FullTranslationFunctional` | `FullTranslationIsFunctional` | the same |

**Disjoint subgroups.**  `SubgroupsDisjoint` is not inductive: while a group
grows, nothing says that a generator the scan has passed is disjoint from it,
for the group may have grown since.  `PassInv` says what the code relies on: if
the group still has `previoussize` generators, every generator above `i` is
disjoint from it; so a pass that ends with the size it began with leaves only
disjoint ones.  `LoopInv` adds that the support of a group is closed under
negation, because `isDisjoint` looks at positive literals only
(`PositiveSuffices`), and `SwapEraseFacts` says what erasing by swapping leaves
at each position, so that a generator moved into the hole is one the pass has
already judged.

**Connected components.**  That a finished group is a *whole* component follows
from `DisjointSupports`'s `PassInv`: nothing that is left meets it.  That it is
no more than one needs `PieceInv`: the generators absorbed so far are in one
piece (no part of them is disjoint from the rest).  `AddMember` and `GrowPiece`
carry it over an absorbed generator, which meets the group in a positive literal
of its own.  The steps that fill a group are stuttering steps of `Components`,
because a generator that goes from the vector to the group stays in the same
part (`StutterParts`); `FinishGroup` is its step (`FinishSplitsOff`).

**Stabilizers.**  `OnlyStabilizersLeft` says that what is left of the
permutations fixes all chosen literals, when the next one is chosen.  While the
scan runs it does not hold: `EliminateInv` says that the permutations below
position `j` fix the newest literal, while all fix the older ones; `EraseVector`
says what erasing by swapping leaves at each position: the one that moves into
the hole has not been looked at, and `j` stays.  `VectorInv` and `PickInv` keep
the vector and the order sequences over the steps of the breaker in between.

**The order.**  `OrderComplete` says that the order handed to `addSym` holds
exactly one literal of every variable that a permutation or a row swap of the
subgroup moves.  `OrderInv` has two parts: while literals are chosen, those
chosen so far are in the support of the permutations, no variable twice
(`Prefix`); from then on the order is complete (`OrderOf`).  It is not inductive
by itself.  That the next chosen literal is of a *new* variable follows from
`StabilizerInv`: it is moved by a permutation that is left, and those fix all
literals chosen before (`PickLiteralOrder`).  `PickFacts` says of the scan over
the orbits that it ends with a literal of the orbit it returns, in whatever
order they come; `CompleteOrder` that the chosen literals, the rest of the
permutations' support in any order and the rows of the matrices make a complete
order (`EachVariableOnceFacts`, `FlattenFacts`, `MatrixRows`).
`OrdersAssumption`, under which `BreakerProofs` works, asks just this of the
orders.

**Every orbit survives.**  `EveryOrbitSurvives` says that whenever a subgroup is
finished, every assignment has a symmetric one that satisfies all clauses added
so far: binary clauses, those of permutations and of row swaps, of all subgroups
together.  It is shown for every set of assignments that the symmetries do not
lead out of.

* When a subgroup's turn comes, such a set has a member that survived the
  subgroups before.  The members that differ from it in the literals of the
  subgroup only (the part of the set that `LeaderInv` speaks of) survived too,
  because what was added so far is about literals of earlier subgroups
  (`LocalInv`, `SurvivingLocal`) and the supports are disjoint; and the
  symmetries of the subgroup do not lead out of this part.
* `LeaderInv` says that the lexicographic leaders of that part, in as much of
  the order as is known, have survived so far.  The order grows while binary
  clauses are added; a leader in a longer order is one in the shorter
  (`LeaderPrefix`).
* A binary clause says that the literal chosen next implies another one of its
  orbit under the permutations that are left.  These fix the literals before it
  (`StabilizerInv`), so products of them take the one to the other and leave
  what precedes alone, and a leader cannot be improved by that (`OrbitImplied`).
  The orbit is a closure computed by a recursive function; `OrbitFacts` in
  `AssignmentsProofs` opens it.
* A leader precedes its images under every permutation and row swap
  (`LeaderPrecedes`), which is all that `addSym` asks for (`LeaderRecorded`).
* That `addSym` allows such an assignment is the invariant of `BreakerProofs`,
  which is therefore stated for a set `S` of assignments (`InvOn(S)`): here `S`
  are the models of the clauses over literals of the formula (`OrigModels`), and
  a binary clause is one of these and leaves the new variables alone
  (`BreakerStays`, `PickLiteralBreaker`).

The theorem speaks of orbits under the permutations that the code was given;
whether these are symmetries of the formula is not its matter.  Section 6 says
when they are not.

**Splitting a permutation.**  The properties of `PrimeSplit` speak of the result;
`SplitInv` says what every vector holds while it is made: the pieces and the
exponents that the cycles dealt with so far contribute (`CutSoFar`, `SeenFor`),
that each result is of one of two forms, `PrimeShift(q)` or `EqualShift(q, s)`
with `s` below all exponents seen for `q`, and that every prime whose turn has
been has left its `PrimeShift`.

* *Numbers.*  The loop over `i` takes all of `i` out of what is left of the length
  before it goes on, so only primes are found to divide it, each with its full
  exponent (`FactorFacts`), and none is missed (`FactorFound`).
* *Shifts.*  Both forms move a literal some number of steps along its cycle, and
  the number depends on the length of the cycle only.  The cycle of a negation
  is as long, so a shift commutes with negation (`ShiftIsLitPerm`), although
  the code cuts each cycle where its own representative happens to lie.
  `PrimeGenerator` and `EqualGenerator` show that the pieces put together are such
  shifts, by `n / q^e` and `n / q^s` steps on a cycle of `n`; the first moves
  something because it is no multiple of `n` (`ShiftMoves`, `SplitInvMoves`).
* *Orbits.*  At the end the steps `n / q^e` of all prime powers in `n` are there.
  No number but 1 divides all of them, so together they reach every place of the
  cycle (`StepsReachAll`), which is `OrbitsKept`.
* *Groups.*  With one length for all cycles the number of steps is the same
  everywhere, so each result is a power of the permutation (`UniformShift`), and
  by the same argument on numbers the results generate all powers
  (`SplitInvExact`).  With several lengths the first half fails, which is
  finding 1 of section 6.

**Rows of a matrix.**  `ConstructionSound` says that the swaps of consecutive
rows are symmetries while a matrix is built.  None of them need be tested by the
code: the first three rows come from two involutions untested, and a new row is
tested with the row it is an image of, which is seldom the last one.

* Two involutions `p` and `q` that pass `formsMatrixWith` give the rows `S`,
  `p(S)` and `q(S)`, where `S` is what both move.  In every cycle of `p` the
  other moves one literal, so `p` is the swap of the first two rows, and `q`,
  `p`, `q` in turn is the swap of the last two (`InitialRows`).  That an
  involution takes every literal back (`InvolutionFacts`) needs that the walk
  along the images closes before it has passed all literals (`CycleCloses`,
  from injectivity and finiteness).
* If a row can be swapped with two others, these can be swapped with each other
  (`Conjugate`): the product of three swaps is a swap when no two of the three
  rows have a common literal.  A new row has none in common with any row of the
  matrix, so from the row it was tested with the swap passes down to the last
  row, one row at a time (`AddRow`).
* `SoundInv` adds that a row has no literal twice, is closed under negation, and
  has opposite literals at the same places as the first one (`IsMatrix`), and
  that the indices of the loops stay in the vectors, the one of
  `cleanPermutations` included, which erases while it counts down (`Indices`).

**Finished matrices.**  Columns are tested with the first column and broken
against the one before; `Conjugate` bridges this as well, once different columns
have no common literal (`ColumnsApart`).  They have none if rows have none, and
that is what fails where involutions overlap (finding 2 of section 6).  So
`RowSwapsSound` has the hypothesis `[]InvolutionsFit`: the pair that
`getInitialMatrix` picks passes `formsMatrixWith` with the roles exchanged, too.
It holds throughout in eight of the nine kinds of groups of the run, all but the
one that was made for the finding.  Under it any two rows of a finished matrix
can be swapped (`AnyTwoRows`, `RowsAreInterchangeable`): that test is all that is
missing for what the comment before `addMatrices` says.

Without the hypothesis `RowSwapsAreSymmetries` does not follow from what the
code tests.  On twelve variables let `p` exchange 0 to 3 with 4 to 7 in order, `s`
exchange 0 to 3 with 8 to 11, and `q` 0 with 1, 2 with 3, 8 with 9 and 10 with
11.  The rows are [0 1 2 3], [4 5 6 7], [1 0 3 2] and [8 9 10 11].  In the group
generated by `p`, `q`, `s` and the swaps of the first column with the third and
with the fourth, the swap of the third with the fourth is missing: the group has
half of the permutations that keep the three blocks of four together.
A formula without tautologies cannot have just this
group: a clause treats two of the four variables of a block alike, so the formula
has the other half of the permutations as well, and tautologies do not change
what it means.  The run has overlapping involutions in one of its kinds of
groups.

**Cleaning.**  `cleanPermutations` sifts each permutation through the rows of the
new matrix and erases it when the identity is left.

* *What is generated.*  `Generated(gens, p)` says that every set of permutations
  that holds the identity and is closed under products with `gens` holds `p`; no
  recursion is needed to reason with it, and `Products`, which the properties
  use and which stops after a number of rounds, is the least such set
  (`ProductsClosed`, `ProductsLeast`, in `AssignmentsProofs`).  A closed finite
  set of permutations holds inverses because each has an order (`OrderExists`,
  `IdInGroup`).
* *Erasing loses nothing.*  A turn of `testMembership` multiplies by a swap of two
  rows (`ProductWithSwap`: the two passes of `getProductWithRowsWap`, over the
  literals of the permutation and over those of the rows, amount to one product),
  and each swap is a product of swaps of consecutive rows (`SwapsGenerate`).  So
  what was sifted to the identity is generated by them (`SiftGenerates`).
  `KeepInv` says that the permutations left and the swaps of all finished
  matrices generate what the subgroup had at first; it is inductive because
  generation is transitive (`GeneratedTransitive`).  It also says that there is a
  matrix while cleaning goes on.
* *Nothing redundant stays.*  A product of row swaps takes whole rows to whole rows
  (`MovesRows`, `ProductsMoveRows`).  The literals it moves therefore number a
  multiple of the columns, so the first test of the loop rejects none
  (`RowsMovedWholly`; that this test never divides by zero is `FilledInv`); and
  the image of the first literal of a row tells which swap puts the row back, so
  the sifting ends with the identity (`SiftComplete`).  `CleanInv` says that
  what lies above `i` is not redundant: the last permutation, which fills the
  hole, lies there or is the one erased.

`MatricesHandedOver` closes the gap to `GroupBreaking`: `ClosedInv` keeps the rows
of finished matrices closed under negation, which `PairingFacts` gives for rows
that begin a matrix and for columns, and the swaps of rows are symmetries.

All of this stands on `FullInv`, hence on `[]InvolutionsFit`: rows that share
literals have no well-defined `RowNb`.

**Orbits.**  The lists of `Orbit` change places when a small one is appended to
a large one, and the first two elements are exchanged to keep the least in
front.  `JoinedFacts` says what the list holds in all four cases,
`MergeHeadsFacts` that `in_orbit` follows; the theorem concludes that the
entries at the head of the lists remain a partition and that
`is_minimal_representative` is the test for the least element of an orbit.

**The meaning of the clauses.**  `EncodesLexLeader` speaks of the models of the
clauses; it is not inductive because it says nothing about the new variables.
The invariant of `BreakerProofs` splits it and adds what the chain means:

* `MarkInv`: what the backward loop has marked.  A literal that is moved and not
  marked is the last of its cycle (up to negation) in the order.
  `SkippedIsEqual` draws the conclusion: when all earlier literals equal their
  images, so does it, because equality all the way round a cycle but for one
  step implies the last step (`LastOfCycleEqual`).  This needs that the order
  holds a literal of every variable that is moved; the assumption
  `OrdersAssumption` says so, and `OrderFound` proves it of the orders that the
  code makes.
* `CompleteInv`: every model of the clauses precedes its images as far as they
  are encoded, and as long as it equals its image the chain holds in it.
* `SoundOn(Assignments)`: every assignment that precedes its images has an
  extension that is a model and in which the chain holds only if it equals its
  image so far.  (`SoundOn(S)` says so of the assignments in `S`, for the clauses
  of a whole subgroup, where others are added besides.)  The two are different directions for the new variable, which is why the one-sided
  definitions of the code are enough.
* `ClausesMean` and `ClausesHold` are the two facts about the clauses of a
  constraint, for all three translations; `ConstrainStep` gives the new variable
  the truth value of the chain.  When a literal is mapped to its negation the
  rest of the order cannot matter (`LexDecided`).
* `AuxInv` ties the number of new variables to the number of constraints: one
  less, which is what makes a limit on constraints a limit on variables.
* `FunctionalInv` (for the full translation only): two models of the clauses
  that agree on the variables of the formula are equal.

`AssignmentsProofs` has the facts about cycles, clauses and the order.  Cycles
are there the least sets closed under images (`Cycle` in `Perms`), with no
recursion; that a closed set is not entered from outside either follows from
injectivity and finiteness (`ClosedComplement`).

**Induction.**  The induction theorems of the library take a property as an
operator, which the provers cannot instantiate.  `AssignmentsProofs` states
induction for sets of numbers instead (`SetInduction`) and derives what loops and
closures written as recursive functions need: that the function exists and has
the values its definition says (`IteratesExist`, `LoopRunExists`; a recursive
function is a `CHOOSE`), and that a growing chain of subsets of a finite set
stops at its closure (`GrowthEnds`, `ClosureReached`).  `OrbitOf`, the pass over
the orbits, concatenation and `EachVariableOnce` are opened with them.

**Only model-checked.**  Termination, the liveness of `ComponentsSpec` and
`EndsByItself`: liveness under fairness is out of this prover's reach.  `CellSort`,
`Partition`, `Refinement`, `SplitCell`, `LongPrune` and `BlissGraph` have
`RECURSIVE` operators, with which the prover cannot be used, so everything that
extends them stays with TLC: `BacktrackPartition` with its refinement
`Implements`, `Search`, `BlissCalls`, `ColorGraph`, `Theory` and `Interface`.
`RowSwapsAreSymmetries`, `NoSymmetryLost` and `CleanComplete` are proved where
the involutions of a matrix fit together, and only checked where they overlap:
`MCMatrices` has one such kind of group.

## 6. What the checks found

Three runs show a disagreement between the code and what it says of itself;
TLC's counterexample is the evidence, `PROJECT.json` quotes the lines.

1. `split_within_group`: a permutation with cycles of lengths 2 and 4 is split
   into permutations that need not be symmetries of the formula; nothing
   justifies the clauses that break them.
2. `rows_interchangeable`: two involutions that overlap in one cycle of the
   second pass `formsMatrixWith`, and rows with the same literals become a
   matrix; the statistic counts a row swap that is no symmetry.  The swaps of
   consecutive rows, which are the ones that are broken, remain symmetries.
3. `all_but_last_row`: the former last row is not fixed when a matrix grew.

The third costs breaking power, not soundness: `EveryOrbitSurvives`,
`RowSwapsAreSymmetries` and `NoSymmetryLost` hold nevertheless.
`EveryOrbitSurvives` keeps a satisfiable formula satisfiable if the permutations
handed over are symmetries of it, which the first finding shows is not always so.

The search of bliss showed no disagreement.  `Search` was compared with the
compiled code: labelings, generators in their order and steps left agree for
4096 graphs with random settings, 524 with component recursion, and the graphs
of the run.

Smaller things that were met while translating, with no run of their own:

* The orbit chosen for binary clauses need not be a largest one
  (`Algebraic.cpp`, `getOrderAndAddBinaryClausesTo`); `nbRowClauses` is never
  increased; permutations are cleaned against the newest matrix only.
* `readCNF` leaves tautologies and double literals in (the comment at
  `breakid-main.cpp:130` speaks of removing them), drops a clause with no zero
  at the end of the file, and a late `p` line resets the number of variables.
  The model has all of these as they are; headers come first in the files of
  the run.
* `colorcount` of the clauses stays 100 in the theory of a subgroup, which never
  sees `end_dynamic_cnf`; no clause vertex ever asks for it, so nothing follows
  (`SubTheoryExact`).  A formula without clauses has a count of 0, against
  `@INVAR` at `Graph.hpp:48`.
* `num_cls` (`Theory.hpp:60`) and `remain_steps_lim` (`config.hpp:47`) have no
  initial value; a second `break_symm` or `end_dynamic_cnf` leaks the object of
  the first.  `addMatrices` calls bliss without a limit (`Algebraic.cpp:475`).
* After the step limit of bliss, `find_automorphisms` has reported some of the
  generators, which is sound for BreakID; `canonical_form` returns a labeling
  that is not canonical, and all zeros if no leaf was reached.
  `max_num_steps` may become negative, and `Stats::reset` does not restore it.
* `in_search` is set and never reset (`bliss/graph.cc:755`).  The vectors of long
  pruning get as many slots as there are vertices (`bliss/graph.cc:366`) but are
  indexed modulo the number of stored automorphisms, 100 for any graph of usual
  size; the model has `MaxStored` slots.  No search of the runs with 100 slots
  stores more automorphisms than its graph has vertices.

## 7. What is not modelled

* **Digraphs, DIMACS and dot files, the C interface of bliss, timers, the big
  numbers of group sizes**: half of `bliss/graph.cc` is class `Digraph` and
  input and output; BreakID uses none of it.
* **Heap and queue of bliss** (`heap.cc`, `kqueue.hh`): containers whose promise
  (least element first; first in, first out) the models use.
* **C interface of BreakID**: every function calls one method of `BreakID` and
  copies what it returns.
* **Getters and output**: `print_*`, `get_brk_cls`, the output file of `main`.
  They read what the models hold and change nothing.
* **Ownership and destructors**: when objects are freed, twice or never.
* **Command line**: options, messages, the vendored argument parser, the time
  and memory statistics, the version string, build files.
* **Scripts**: run by hand on files, not by the program.
* **Widths**: literals and counters are unbounded in the models.  The index of
  a new variable is 32 bits wide and a literal doubles it
  (`Breaking.cpp:300`); 2^31 variables do not fit a reachable memory.
* **Hash collisions**: two hashes are equal in the models only when the hashed
  numbers are.

## 8. What could come next

1. One specification for a whole run: `Interface`, `Matrices` and
   `GroupBreaking` meet at the theory and the generators of a subgroup but are
   checked apart, each from everything the one before may hand over.
2. The abstract `symmetries` and `unique` of `Matrices` as a refinement mapping
   from `Theory` and `ColorGraph`; `SubTheoryExact` and `IsSymmetryExact` say
   for the instances of `interface` what it needs.
3. The recursive operators of `CellSort`, `Partition` and `Refinement` as
   recursive functions, which would bring `BacktrackPartition` and its refinement
   `Implements` within reach of the prover.
